----------------------------- MODULE ControlPlane -----------------------------
(***************************************************************************)
(* The controller manager: both controllers, the webhook and the objects   *)
(* they share (src/cmd/controller/main.go), with users, the kubelet and    *)
(* the garbage collector around them.                                      *)
(***************************************************************************)
EXTENDS VirtualMachineBMCController, ServiceController

(* Mutant: a predicate drops the Create events of Secrets.                 *)
RestartQuiet ==
  /\ "restart" \in Faults
  /\ faults < MaxFaults
  /\ faults' = faults + 1
  /\ w' = IdleWorker /\ sw' = IdleSvcWorker
  /\ cvms' = vms /\ csec' = secrets /\ cbmc' = bmc /\ csvc' = svc
  /\ evVM' = {} /\ evSec' = {} /\ evBmc' = {} /\ evSvc' = {}
  /\ onSec' = [s \in Secrets |-> 0] /\ h' = IdleHandler
  /\ queue' = {b \in Bmcs : bmc[b].uid # 0}
  /\ queueSvc' = {v \in VMs : svc[v] # NoOwner}
  /\ UNCHANGED <<objects, uids, edits>>

(* The manager's process is killed and starts again: it lists every object *)
(* anew, so that each existing one is announced to its handlers.           *)
Restart ==
  /\ "restart" \in Faults
  /\ faults < MaxFaults
  /\ faults' = faults + 1
  /\ w' = IdleWorker /\ sw' = IdleSvcWorker
  /\ cvms' = vms /\ csec' = secrets /\ cbmc' = bmc /\ csvc' = svc
  /\ evVM' = {} /\ evSec' = {} /\ evBmc' = {} /\ evSvc' = {}
  /\ onSec' = [s \in Secrets |-> IF secrets[s] # None THEN 1 ELSE 0] /\ h' = IdleHandler
  /\ queue' = {b \in Bmcs : bmc[b].uid # 0}
  /\ queueSvc' = {v \in VMs : svc[v] # NoOwner}
  /\ UNCHANGED <<objects, uids, edits>>

Next ==
  \/ Users
  \/ HandleEvents
  \/ \E b \in Bmcs : Reconcile(b)
  \/ ReconcileStep
  \/ \E v \in VMs : DeliverService(v) \/ ReconcileService(v)
  \/ ServiceStep
  \/ \E v \in VMs : KubeletStart(v) \/ KubeletStop(v) \/ CollectGarbage(v)
  \/ Restart

(* Informers, workers, the kubelet and the garbage collector keep going.   *)
(* A work queue is first-in first-out and a failed key comes back after a  *)
(* delay, so every queued key is taken in the end although the worker is   *)
(* busy in between: strong fairness.  Users and faults owe nothing.        *)
Fairness ==
  /\ \A b \in Bmcs : /\ WF_cvars(DeliverBMC(b))
                     /\ SF_cvars(Reconcile(b))
  /\ \A v \in VMs : /\ WF_cvars(DeliverVM(v))
                    /\ WF_cvars(DeliverService(v))
                    /\ SF_cvars(ReconcileService(v))
                    /\ WF_cvars(KubeletStart(v))
                    /\ WF_cvars(KubeletStop(v))
                    /\ WF_cvars(CollectGarbage(v))
  /\ \A s \in Secrets : WF_cvars(DeliverSecret(s)) /\ SF_cvars(SecretEvent(s))
  /\ WF_cvars(SecretDelete)
  /\ WF_cvars(SecretReturn)
  /\ WF_cvars(ReconcileStep)
  /\ WF_cvars(ServiceStep)

Spec == Init /\ [][Next]_cvars /\ Fairness

-----------------------------------------------------------------------------
(* Properties.                                                             *)

(* The objects: a controller reference names an incarnation of an object,  *)
(* and a VirtualMachineBMC that exists has both references of its spec.    *)
References == [bmc : Bmcs, uid : Nat \ {0}]
LiveBmcs == [uid : Nat \ {0}, vm : VMs, secret : Secrets,
             vmCond : [ok : BOOLEAN, name : VMs \cup {None}],
             secretCond : [ok : BOOLEAN, name : Secrets \cup {None}],
             ready : BOOLEAN, ip : (VMs \cup {None}) \X Nat]
LivePods == [phase : {"pending", "running", "terminating"}, owner : References,
             secret : Secrets, password : Passwords \cup {None}]

(* A worker that is not idle.                                              *)
BusyWorkers == [pc : {"vm", "secret", "delete", "rbac", "binding", "pod", "svc"}, key : Bmcs,
                copy : LiveBmcs, fresh : BOOLEAN, vmOK : BOOLEAN]
BusySvcWorkers == [pc : {"ready", "ip"}, key : VMs, bmc : Bmcs, ip : VMs \X Nat,
                   copy : LiveBmcs, fresh : BOOLEAN]

(* The handler of Secrets when it is called.                               *)
BusyHandlers == [secret : Secrets, calls : 1..2, hit : SUBSET Bmcs, seen : SUBSET Bmcs,
                 todo : SUBSET (Bmcs \X VMs)]

(* Every variable keeps its type: in particular no Pod is without an       *)
(* owner, only names of VirtualMachineBMCs get into the work queue, and a  *)
(* worker never works on a copy of an object that does not exist, although *)
(* objects come and go while it does.                                      *)
TypeOK ==
  /\ vms \subseteq VMs /\ cvms \subseteq VMs
  /\ secrets \in [Secrets -> Passwords \cup {None}]
  /\ csec \in [Secrets -> Passwords \cup {None}]
  /\ bmc \in [Bmcs -> LiveBmcs \cup {NoBmc}]
  /\ cbmc \in [Bmcs -> LiveBmcs \cup {NoBmc}]
  /\ pod \in [VMs -> LivePods \cup {NoPod}]
  /\ svc \in [VMs -> References \cup {NoOwner}]
  /\ csvc \in [VMs -> References \cup {NoOwner}]
  /\ rbac \in [Kinds -> [VMs -> References \cup {NoOwner}]]
  /\ evVM \subseteq VMs /\ evSvc \subseteq VMs
  /\ evSec \subseteq Secrets /\ onSec \in [Secrets -> 0..2]
  /\ h \in BusyHandlers \cup {IdleHandler}
  /\ evBmc \subseteq Bmcs
  /\ queue \subseteq Bmcs /\ queueSvc \subseteq VMs
  /\ w \in BusyWorkers \cup {IdleWorker}
  /\ sw \in BusySvcWorkers \cup {IdleSvcWorker}
  /\ uids \in Nat /\ edits \in 0..MaxEdits /\ faults \in 0..MaxFaults

Exists(b) == bmc[b].uid # 0
Prerequisites(b) == Exists(b) /\ bmc[b].vm \in vms /\ secrets[bmc[b].secret] # None

(* The agent of b runs, is b's own, and knows the Secret's credentials.    *)
Serving(b) ==
  LET p == pod[bmc[b].vm]
  IN /\ p.phase = "running"
     /\ p.owner = Owner(b, bmc[b].uid)
     /\ p.secret = bmc[b].secret
     /\ p.password = secrets[bmc[b].secret]

(* Neither controller ever takes back what the other has put into the      *)
(* status: Ready and the ClusterIP, once written, stay for the life of the *)
(* object, although both controllers write the whole status.               *)
StatusNotLost ==
  [][\A b \in Bmcs :
       Exists(b) /\ bmc'[b].uid = bmc[b].uid =>
         /\ bmc[b].ready => bmc'[b].ready
         /\ bmc[b].ip # <<None, 0>> => bmc'[b].ip # <<None, 0>>
         /\ bmc[b].vmCond # Unset => bmc'[b].vmCond # Unset]_cvars

(* Whatever users did, once they stop, a VirtualMachineBMC whose machine   *)
(* and Secret exist ends up served by an agent of its own that uses the    *)
(* Secret's present credentials, and stays so ("Should delete and recreate *)
(* Pod when Secret is changed", controller_test.go:535).                   *)
EventuallyServing == \A b \in Bmcs : <>[](Prerequisites(b) => Serving(b))

(* Once the machine or the Secret is gone for good the agent's Pod goes    *)
(* ("Should update condition and delete Pod when Secret is deleted").      *)
EventuallyStopped ==
  \A b \in Bmcs :
    <>[](Exists(b) /\ ~Prerequisites(b) => pod[bmc[b].vm].phase = "absent")

(* The conditions tell the truth about the machine and the Secret.         *)
Truthful(b) ==
  LET v == bmc[b].vm  s == bmc[b].secret
  IN /\ bmc[b].vmCond = [ok |-> v \in vms, name |-> v]
     /\ bmc[b].secretCond = [ok |-> secrets[s] # None, name |-> s]

(* Something is under way that will bring Reconcile to b.                  *)
Due(b) ==
  \/ b \in evBmc \cup queue
  \/ bmc[b].vm \in evVM
  \/ bmc[b].secret \in evSec
  \/ onSec[bmc[b].secret] # 0
  \/ b \in h.hit \ h.seen

(* No wake-up is lost: whenever a condition does not tell the truth, an    *)
(* event, a queued key or the worker is on its way to correct it, although *)
(* Reconcile reads the machine, the Secret and the VirtualMachineBMC from  *)
(* caches that lag behind, and its event handlers look the                 *)
(* VirtualMachineBMCs up in such a cache, too.                             *)
NoLostWakeup == \A b \in Bmcs : Exists(b) /\ ~Due(b) /\ w.key # b => Truthful(b)

(* The conditions end up telling the truth, and the ClusterIP is that of   *)
(* the Service there is.                                                   *)
EventuallyTruthful ==
  \A b \in Bmcs :
    <>[](Exists(b) =>
           /\ Truthful(b)
           /\ Prerequisites(b) => bmc[b].ready /\ bmc[b].ip = <<bmc[b].vm, bmc[b].uid>>)

(* Nothing stays behind for a machine that no VirtualMachineBMC specifies  *)
(* (README.md:316: the Pod and the Service are "for the virtual machine    *)
(* you specified"), also when a VirtualMachineBMC is deleted while         *)
(* Reconcile is creating its objects.                                      *)
EventuallyCollected ==
  \A v \in VMs :
    <>[]((\A b \in Bmcs : bmc[b].vm # v) =>
            /\ pod[v].phase = "absent"
            /\ svc[v] = NoOwner
            /\ \A k \in Kinds : rbac[k][v] = NoOwner)
=============================================================================
