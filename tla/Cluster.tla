------------------------------- MODULE Cluster -------------------------------
(***************************************************************************)
(* The Kubernetes objects that the controller manager works on, its        *)
(* informer caches and work queues, the validating webhook                 *)
(* (src/internal/webhook/bmc/v1beta1/virtualmachinebmc_webhook.go), and    *)
(* the actors around it: users, the kubelet, the garbage collector.  One   *)
(* namespace; the agent's Pod, Service, ServiceAccount and RoleBinding are *)
(* named after the VirtualMachine, so they are functions of its name.      *)
(*                                                                         *)
(* An informer is a cache plus the set of objects whose latest change it   *)
(* has not delivered yet: a cached object is current iff it is not in that *)
(* set.  Changes to one object that follow each other are delivered as     *)
(* one.  As in ResourceManager, resourceVersions are "is the copy still    *)
(* the current version?" flags.                                            *)
(***************************************************************************)
EXTENDS Naturals

CONSTANTS
  Bmcs,       \* names of VirtualMachineBMC objects
  VMs,        \* names of VirtualMachine objects
  Secrets,    \* names of Secrets
  None,       \* no name, no value
  UserOps,    \* what users do, and resyncs: subset of AllUserOps
  MaxEdits,   \* bound on the number of changes users make, and resyncs
  MaxFaults,  \* bound on the number of failing calls and restarts
  Faults      \* subset of {"error", "restart"}

AllUserOps == {"createBMC", "editBMC", "deleteBMC", "editVM", "editSecret", "resync"}

ASSUME ClusterAssumption ==
  /\ None \notin Bmcs \cup VMs \cup Secrets
  /\ UserOps \subseteq AllUserOps
  /\ MaxEdits \in Nat
  /\ MaxFaults \in Nat
  /\ Faults \subseteq {"error", "restart"}

VARIABLES
  vms,      \* the VirtualMachines that exist
  secrets,  \* the credentials in each Secret, None if it does not exist
  bmc,      \* the VirtualMachineBMC objects
  pod, svc, rbac,  \* the objects the controller creates for a VirtualMachine
  cvms, csec, cbmc, csvc,  \* the manager's caches
  evVM, evSec, evBmc, evSvc,  \* changes not yet in the caches
  onSec,    \* for each Secret, the calls its last event owes to the handler
  h,        \* the event handler of Secrets
  queue, queueSvc,  \* the work queues of the two controllers
  w, sw,    \* their workers (MaxConcurrentReconciles is 1)
  uids, edits, faults  \* incarnations handed out, changes and faults so far

objects == <<vms, secrets, bmc, pod, svc, rbac>>
caches == <<cvms, csec, cbmc, csvc>>
handler == <<onSec, h>>
events == <<evVM, evSec, evBmc, evSvc, handler>>
bounds == <<uids, edits, faults>>
cvars == <<objects, caches, events, queue, queueSvc, w, sw, bounds>>

Passwords == {"a", "b"}

(* ServiceAccount and RoleBinding.                                         *)
Kinds == {"sa", "rb"}

(* A controller reference: the owner's name and incarnation (its UID).     *)
NoOwner == [bmc |-> None, uid |-> 0]
Owner(b, uid) == [bmc |-> b, uid |-> uid]

(* A condition of the status: its value and the object it speaks of.       *)
Unset == [ok |-> FALSE, name |-> None]

(* VirtualMachineBMC: spec and status.  uid 0: there is no such object;    *)
(* ip names the Service (VirtualMachine and incarnation) it was read from. *)
NewBmc(uid, v, s) ==
  [uid |-> uid, vm |-> v, secret |-> s, vmCond |-> Unset, secretCond |-> Unset,
   ready |-> FALSE, ip |-> <<None, 0>>]
NoBmc == NewBmc(0, None, None)

(* The agent's Pod; password is what its environment was started with.     *)
NoPod == [phase |-> "absent", owner |-> NoOwner, secret |-> None, password |-> None]

IdleWorker == [pc |-> "idle", key |-> None, copy |-> NoBmc, fresh |-> FALSE, vmOK |-> FALSE]
IdleSvcWorker == [pc |-> "idle", key |-> None, bmc |-> None, ip |-> <<None, 0>>,
                  copy |-> NoBmc, fresh |-> FALSE]

(* The handler of Secrets: whose event it works on, how many calls are     *)
(* left, what this call has found and the earlier one has enqueued, and    *)
(* the Pods this call has still to delete.                                 *)
IdleHandler == [secret |-> None, calls |-> 0, hit |-> {}, seen |-> {}, todo |-> {}]

(* The manager starts in a cluster with machines, Secrets and, maybe,      *)
(* VirtualMachineBMCs that users have created before.                      *)
Init ==
  /\ vms = VMs
  /\ secrets = [s \in Secrets |-> "a"]
  /\ bmc \in [Bmcs -> {NoBmc} \cup {NewBmc(1, v, s) : v \in VMs, s \in Secrets}]
  /\ pod = [v \in VMs |-> NoPod]
  /\ svc = [v \in VMs |-> NoOwner]
  /\ rbac = [k \in Kinds |-> [v \in VMs |-> NoOwner]]
  /\ cvms = vms /\ csec = secrets /\ cbmc = bmc /\ csvc = svc
  /\ evVM = {} /\ evSec = {} /\ evBmc = {} /\ evSvc = {}
  /\ onSec = [s \in Secrets |-> 0] /\ h = IdleHandler
  /\ queue = {b \in Bmcs : bmc[b].uid # 0} /\ queueSvc = {}
  /\ w = IdleWorker /\ sw = IdleSvcWorker
  /\ uids = 1 /\ edits = 0 /\ faults = 0

-----------------------------------------------------------------------------
(* The API server.                                                         *)

(* Owns: a change of a Pod, Service, ServiceAccount or RoleBinding         *)
(* enqueues its owner.  These objects are not read from a cache, so a late *)
(* event is the same as a key that waits in the queue.                     *)
Enqueue(owners) == queue' = queue \cup owners

(* A worker's copy of a VirtualMachineBMC is outdated by another's write.  *)
Outdate(x, isIt) == IF isIt THEN [x EXCEPT !.fresh = FALSE] ELSE x

(* A new version of the object; the writing worker sets its own flag.      *)
StoreBmc(b, new) ==
  /\ bmc' = [bmc EXCEPT ![b] = new]
  /\ evBmc' = evBmc \cup {b}

(* Delete of a Pod: it keeps its name until the kubelet has stopped it.    *)
Terminated(p) == IF p.phase = "absent" THEN p ELSE [p EXCEPT !.phase = "terminating"]

Owners(vs) == {pod[v].owner.bmc : v \in {u \in vs : pod[u].phase # "absent"}}

(* An API call fails, nothing done.                                        *)
ApiError ==
  /\ "error" \in Faults
  /\ faults < MaxFaults
  /\ faults' = faults + 1

-----------------------------------------------------------------------------
(* Users, through the webhook.                                             *)

Edit(o) == o \in UserOps /\ edits < MaxEdits /\ edits' = edits + 1

(* ValidateCreate and ValidateUpdate: both references must name objects    *)
(* the manager's cache knows of.                                           *)
Validate(v, s) == v \in cvms /\ csec[s] # None

CreateBMC(b) ==
  /\ Edit("createBMC")
  /\ bmc[b].uid = 0
  /\ \E v \in VMs, s \in Secrets :
       Validate(v, s) /\ StoreBmc(b, NewBmc(uids + 1, v, s))
  /\ uids' = uids + 1
  /\ UNCHANGED <<vms, secrets, pod, svc, rbac, caches, evVM, evSec, evSvc, handler,
                 queue, queueSvc, w, sw, faults>>

(* The spec changes, the status stays.                                     *)
EditBMC(b) ==
  /\ Edit("editBMC")
  /\ bmc[b].uid # 0
  /\ \E v \in VMs, s \in Secrets :
       /\ Validate(v, s)
       /\ <<v, s>> # <<bmc[b].vm, bmc[b].secret>>
       /\ StoreBmc(b, [bmc[b] EXCEPT !.vm = v, !.secret = s])
  /\ w' = Outdate(w, w.key = b)
  /\ sw' = Outdate(sw, sw.bmc = b)
  /\ UNCHANGED <<vms, secrets, pod, svc, rbac, caches, evVM, evSec, evSvc, handler,
                 queue, queueSvc, uids, faults>>

(* ValidateDelete accepts; there is no finalizer, so the object is gone.   *)
DeleteBMC(b) ==
  /\ Edit("deleteBMC")
  /\ bmc[b].uid # 0
  /\ StoreBmc(b, NoBmc)
  /\ w' = Outdate(w, w.key = b)
  /\ sw' = Outdate(sw, sw.bmc = b)
  /\ UNCHANGED <<vms, secrets, pod, svc, rbac, caches, evVM, evSec, evSvc, handler,
                 queue, queueSvc, uids, faults>>

(* A VirtualMachine is created or deleted.                                 *)
EditVM(v) ==
  /\ Edit("editVM")
  /\ vms' = IF v \in vms THEN vms \ {v} ELSE vms \cup {v}
  /\ evVM' = evVM \cup {v}
  /\ UNCHANGED <<secrets, bmc, pod, svc, rbac, caches, evSec, evBmc, evSvc, handler,
                 queue, queueSvc, w, sw, uids, faults>>

(* A Secret is created, given other credentials, or deleted.               *)
EditSecret(s) ==
  /\ Edit("editSecret")
  /\ \E p \in (Passwords \cup {None}) \ {secrets[s]} : secrets' = [secrets EXCEPT ![s] = p]
  /\ evSec' = evSec \cup {s}
  /\ UNCHANGED <<vms, bmc, pod, svc, rbac, caches, evVM, evBmc, evSvc, handler,
                 queue, queueSvc, w, sw, uids, faults>>

-----------------------------------------------------------------------------
(* The kubelet and the garbage collector.                                  *)

(* The container starts, with the Secret's credentials as they are now.    *)
KubeletStart(v) ==
  /\ pod[v].phase = "pending"
  /\ secrets[pod[v].secret] # None
  /\ pod' = [pod EXCEPT ![v].phase = "running", ![v].password = secrets[pod[v].secret]]
  /\ Enqueue({pod[v].owner.bmc})
  /\ UNCHANGED <<vms, secrets, bmc, svc, rbac, caches, evVM, evSec, evBmc, evSvc, handler,
                 queueSvc, w, sw, bounds>>

KubeletStop(v) ==
  /\ pod[v].phase = "terminating"
  /\ pod' = [pod EXCEPT ![v] = NoPod]
  /\ Enqueue({pod[v].owner.bmc})
  /\ UNCHANGED <<vms, secrets, bmc, svc, rbac, caches, evVM, evSec, evBmc, evSvc, handler,
                 queueSvc, w, sw, bounds>>

(* An object whose owner, this very incarnation of it, is gone.            *)
Dangling(o) == o # NoOwner /\ bmc[o.bmc].uid # o.uid

(* The Pod, or the objects without a grace period.                         *)
CollectGarbage(v) ==
  /\ \/ /\ Dangling(pod[v].owner)
        /\ pod[v].phase \in {"pending", "running"}
        /\ pod' = [pod EXCEPT ![v] = Terminated(pod[v])]
        /\ Enqueue({pod[v].owner.bmc})
        /\ UNCHANGED <<svc, rbac, evSvc>>
     \/ /\ Dangling(svc[v])
        /\ svc' = [svc EXCEPT ![v] = NoOwner]
        /\ Enqueue({svc[v].bmc})
        /\ evSvc' = evSvc \cup {v}
        /\ UNCHANGED <<pod, rbac>>
     \/ \E k \in Kinds :
          /\ Dangling(rbac[k][v])
          /\ rbac' = [rbac EXCEPT ![k][v] = NoOwner]
          /\ Enqueue({rbac[k][v].bmc})
          /\ UNCHANGED <<pod, svc, evSvc>>
  /\ UNCHANGED <<vms, secrets, bmc, caches, evVM, evSec, evBmc, handler,
                 queueSvc, w, sw, bounds>>

Users ==
  \/ \E b \in Bmcs : CreateBMC(b) \/ EditBMC(b) \/ DeleteBMC(b)
  \/ \E v \in VMs : EditVM(v)
  \/ \E s \in Secrets : EditSecret(s)
=============================================================================
