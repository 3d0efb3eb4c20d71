--------------------- MODULE VirtualMachineBMCController ---------------------
(***************************************************************************)
(* The VirtualMachineBMC controller                                        *)
(* (src/internal/controller/virtualmachinebmc/controller.go): its event    *)
(* handlers and its Reconcile, one step per API call.                      *)
(***************************************************************************)
EXTENDS Cluster

-----------------------------------------------------------------------------
(* Watches.                                                                *)

(* For: an event of a VirtualMachineBMC enqueues it.                       *)
DeliverBMC(b) ==
  /\ b \in evBmc
  /\ evBmc' = evBmc \ {b}
  /\ cbmc' = [cbmc EXCEPT ![b] = bmc[b]]
  /\ Enqueue({b})
  /\ UNCHANGED <<objects, cvms, csec, csvc, evVM, evSec, evSvc, handler,
                 queueSvc, w, sw, bounds>>

(* Mutant: the VirtualMachine's event enqueues nothing.                    *)
DeliverVMQuiet(v) ==
  /\ v \in evVM
  /\ evVM' = evVM \ {v}
  /\ cvms' = (cvms \ {v}) \cup (vms \cap {v})
  /\ UNCHANGED <<objects, csec, cbmc, csvc, evSec, evBmc, evSvc, handler,
                 queue, queueSvc, w, sw, bounds>>

(* Watches VirtualMachines: findVirtualMachineBMCsForSecretAndVM.          *)
DeliverVM(v) ==
  /\ v \in evVM
  /\ evVM' = evVM \ {v}
  /\ cvms' = (cvms \ {v}) \cup (vms \cap {v})
  /\ Enqueue({b \in Bmcs : cbmc[b].vm = v})
  /\ UNCHANGED <<objects, csec, cbmc, csvc, evSec, evBmc, evSvc, handler,
                 queueSvc, w, sw, bounds>>

(* Watches Secrets: the cache changes first, the handler runs later.  Of   *)
(* an Update EnqueueRequestsFromMapFunc maps the old and the new object,   *)
(* of any other event the one there is.  An event that comes before the    *)
(* handler has got to the last one joins it.                               *)
DeliverSecret(s) ==
  /\ s \in evSec
  /\ evSec' = evSec \ {s}
  /\ csec' = [csec EXCEPT ![s] = secrets[s]]
  /\ LET calls == IF csec[s] # None /\ secrets[s] # None THEN 2 ELSE 1
     IN onSec' = [onSec EXCEPT ![s] = IF @ > calls THEN @ ELSE calls]
  /\ UNCHANGED <<objects, cvms, cbmc, csvc, evVM, evBmc, evSvc, h,
                 queue, queueSvc, w, sw, bounds>>

(* The periodic resync: a Secret in the cache is announced as updated.     *)
Resync(s) ==
  /\ Edit("resync")
  /\ csec[s] # None
  /\ onSec' = [onSec EXCEPT ![s] = 2]
  /\ UNCHANGED <<objects, caches, evVM, evSec, evBmc, evSvc, h,
                 queue, queueSvc, w, sw, uids, faults>>

(* A call of findVirtualMachineBMCsForSecretAndVM for a Secret lists the   *)
(* VirtualMachineBMCs in the cache that refer to it.                       *)
Find(s, calls, seen) ==
  LET hit == {b \in Bmcs : cbmc[b].secret = s}
  IN h' = [secret |-> s, calls |-> calls, hit |-> hit, seen |-> seen,
           todo |-> {<<b, cbmc[b].vm>> : b \in hit}]

SecretEvent(s) ==
  /\ h.calls = 0
  /\ onSec[s] # 0
  /\ onSec' = [onSec EXCEPT ![s] = 0]
  /\ Find(s, onSec[s], {})
  /\ UNCHANGED <<objects, caches, evVM, evSec, evBmc, evSvc,
                 queue, queueSvc, w, sw, bounds>>

(* It deletes their Pods one by one; a Delete that fails is logged and not *)
(* tried again.                                                            *)
SecretDelete ==
  /\ \E d \in h.todo :
       /\ h' = [h EXCEPT !.todo = @ \ {d}]
       /\ \/ /\ pod' = [pod EXCEPT ![d[2]] = Terminated(pod[d[2]])]
             /\ Enqueue(Owners({d[2]}))
             /\ UNCHANGED faults
          \/ ApiError /\ UNCHANGED <<pod, queue>>
  /\ UNCHANGED <<vms, secrets, bmc, svc, rbac, caches, evVM, evSec, evBmc, evSvc, onSec,
                 queueSvc, w, sw, uids, edits>>

(* It returns them, and those that the event has not enqueued yet are      *)
(* enqueued; after the old object it is the new one's turn.                *)
SecretReturn ==
  /\ h.calls # 0
  /\ h.todo = {}
  /\ Enqueue(h.hit \ h.seen)
  /\ \/ h.calls = 1 /\ h' = IdleHandler
     \/ h.calls = 2 /\ Find(h.secret, 1, h.seen \cup h.hit)
  /\ UNCHANGED <<objects, caches, evVM, evSec, evBmc, evSvc, onSec,
                 queueSvc, w, sw, bounds>>

-----------------------------------------------------------------------------
(* Reconcile.                                                              *)

(* Reconcile returns an error: the key is queued again.                    *)
Retry == w' = IdleWorker /\ Enqueue({w.key})

(* Reconcile takes a key and reads the VirtualMachineBMC from the cache;   *)
(* there is nothing to do when it is gone.                                 *)
Reconcile(b) ==
  /\ w.pc = "idle"
  /\ b \in queue
  /\ queue' = queue \ {b}
  /\ w' = IF cbmc[b].uid = 0
          THEN IdleWorker
          ELSE [pc |-> "vm", key |-> b, copy |-> cbmc[b], fresh |-> b \notin evBmc,
                vmOK |-> FALSE]
  /\ UNCHANGED <<objects, caches, events, queueSvc, sw, bounds>>

(* Mutant: the status is written whatever version was read.                *)
UpdateStatusBlind(new, label) ==
  /\ bmc[w.key].uid # 0
  /\ StoreBmc(w.key, new)
  /\ w' = [w EXCEPT !.pc = label, !.copy = new, !.fresh = TRUE]
  /\ sw' = Outdate(sw, sw.bmc = w.key)
  /\ UNCHANGED <<queue, faults>>

(* Mutant: the error of the status update is dropped.                      *)
UpdateStatusNoRetry(new, label) ==
  \/ /\ w.fresh
     /\ StoreBmc(w.key, new)
     /\ w' = [w EXCEPT !.pc = label, !.copy = new]
     /\ sw' = Outdate(sw, sw.bmc = w.key)
     /\ UNCHANGED <<queue, faults>>
  \/ /\ (~w.fresh /\ UNCHANGED faults) \/ ApiError
     /\ w' = IdleWorker
     /\ UNCHANGED <<bmc, evBmc, sw, queue>>

(* r.Status().Update with the version that was read; the answer carries    *)
(* the new version.                                                        *)
UpdateStatus(new, label) ==
  \/ /\ w.fresh
     /\ StoreBmc(w.key, new)
     /\ w' = [w EXCEPT !.pc = label, !.copy = new]
     /\ sw' = Outdate(sw, sw.bmc = w.key)
     /\ UNCHANGED <<queue, faults>>
  \/ /\ (~w.fresh /\ UNCHANGED faults) \/ ApiError
     /\ Retry
     /\ UNCHANGED <<bmc, evBmc, sw>>

(* validateVirtualMachineExists: a condition that changes is written and   *)
(* the answer is "no" for now, whatever its value: the event of the write  *)
(* brings the key back.                                                    *)
ValidateVirtualMachineExists ==
  /\ w.pc = "vm"
  /\ LET c == [ok |-> w.copy.vm \in cvms, name |-> w.copy.vm]
     IN \/ /\ w.copy.vmCond = c
           /\ w' = [w EXCEPT !.pc = "secret", !.vmOK = c.ok]
           /\ UNCHANGED <<bmc, evBmc, sw, queue, faults>>
        \/ /\ w.copy.vmCond # c
           /\ UpdateStatus([w.copy EXCEPT !.vmCond = c], "secret")
  /\ UNCHANGED <<vms, secrets, pod, svc, rbac, caches, evVM, evSec, evSvc, handler,
                 queueSvc, uids, edits>>

(* Mutant: only the value of the condition counts as a change.             *)
ValidateSecretExistsByValue ==
  /\ w.pc = "secret"
  /\ LET c == [ok |-> csec[w.copy.secret] # None, name |-> w.copy.secret]
     IN \/ /\ w.copy.secretCond.ok = c.ok
           /\ w' = [w EXCEPT !.pc = IF c.ok /\ w.vmOK THEN "rbac" ELSE "delete"]
           /\ UNCHANGED <<bmc, evBmc, sw, queue, faults>>
        \/ /\ w.copy.secretCond.ok # c.ok
           /\ UpdateStatus([w.copy EXCEPT !.secretCond = c], "delete")
  /\ UNCHANGED <<vms, secrets, pod, svc, rbac, caches, evVM, evSec, evSvc, handler,
                 queueSvc, uids, edits>>

(* validateSecretExists, likewise; with both answers in, the Pod goes or   *)
(* the agent's objects are created.                                        *)
ValidateSecretExists ==
  /\ w.pc = "secret"
  /\ LET c == [ok |-> csec[w.copy.secret] # None, name |-> w.copy.secret]
     IN \/ /\ w.copy.secretCond = c
           /\ w' = [w EXCEPT !.pc = IF c.ok /\ w.vmOK THEN "rbac" ELSE "delete"]
           /\ UNCHANGED <<bmc, evBmc, sw, queue, faults>>
        \/ /\ w.copy.secretCond # c
           /\ UpdateStatus([w.copy EXCEPT !.secretCond = c], "delete")
  /\ UNCHANGED <<vms, secrets, pod, svc, rbac, caches, evVM, evSec, evSvc, handler,
                 queueSvc, uids, edits>>

(* Mutant: a missing prerequisite ends Reconcile without deleting the Pod. *)
DeleteVirtBMCPodSkip ==
  /\ w.pc = "delete"
  /\ w' = IdleWorker
  /\ UNCHANGED <<objects, caches, events, queue, queueSvc, sw, bounds>>

(* deleteVirtBMCPod, then Reconcile returns: a prerequisite is missing, or *)
(* a condition has just changed.                                           *)
DeleteVirtBMCPod ==
  /\ w.pc = "delete"
  /\ \/ /\ pod' = [pod EXCEPT ![w.copy.vm] = Terminated(pod[w.copy.vm])]
        /\ Enqueue(Owners({w.copy.vm}))
        /\ w' = IdleWorker
        /\ UNCHANGED faults
     \/ /\ ApiError
        /\ Retry
        /\ UNCHANGED pod
  /\ UNCHANGED <<vms, secrets, bmc, svc, rbac, caches, evVM, evSec, evBmc, evSvc, handler,
                 queueSvc, sw, uids, edits>>

Me == Owner(w.key, w.copy.uid)
Created(new) == Enqueue(IF new THEN {w.key} ELSE {})
Goto(label) == w' = [w EXCEPT !.pc = label]

(* ensureRBACResources creates the ServiceAccount, then the RoleBinding;   *)
(* AlreadyExists is fine, whoever the owner is.                            *)
EnsureRBACResource(kind, label) ==
  \/ /\ rbac' = IF rbac[kind][w.copy.vm] = NoOwner
               THEN [rbac EXCEPT ![kind][w.copy.vm] = Me] ELSE rbac
     /\ Goto(label)
     /\ Created(rbac' # rbac)
     /\ UNCHANGED faults
  \/ ApiError /\ Retry /\ UNCHANGED rbac

EnsureRBACResources ==
  /\ \/ w.pc = "rbac" /\ EnsureRBACResource("sa", "binding")
     \/ w.pc = "binding" /\ EnsureRBACResource("rb", "pod")
  /\ UNCHANGED <<vms, secrets, bmc, pod, svc, caches, evVM, evSec, evBmc, evSvc, handler,
                 queueSvc, sw, uids, edits>>

(* Mutant: the Pod is created without a controller reference.              *)
CreatePodUnowned ==
  /\ w.pc = "pod"
  /\ Goto("svc")
  /\ pod' = IF pod[w.copy.vm].phase # "absent" THEN pod
            ELSE [pod EXCEPT ![w.copy.vm] =
                    [phase |-> "pending", owner |-> NoOwner, secret |-> w.copy.secret,
                     password |-> None]]
  /\ UNCHANGED <<vms, secrets, bmc, svc, rbac, caches, events,
                 queue, queueSvc, sw, bounds>>

(* Create of the Pod: AlreadyExists is fine, also when the Pod is still    *)
(* terminating.  The API server refuses a Pod without its ServiceAccount.  *)
CreatePod ==
  /\ w.pc = "pod"
  /\ \/ /\ rbac["sa"][w.copy.vm] # NoOwner
        /\ Goto("svc")
        /\ \/ /\ pod[w.copy.vm].phase = "absent"
              /\ pod' = [pod EXCEPT ![w.copy.vm] =
                           [phase |-> "pending", owner |-> Me, secret |-> w.copy.secret,
                            password |-> None]]
           \/ /\ pod[w.copy.vm].phase # "absent"
              /\ UNCHANGED pod
        /\ Created(pod' # pod)
        /\ UNCHANGED faults
     \/ /\ (rbac["sa"][w.copy.vm] = NoOwner /\ UNCHANGED faults) \/ ApiError
        /\ Retry
        /\ UNCHANGED pod
  /\ UNCHANGED <<vms, secrets, bmc, svc, rbac, caches, evVM, evSec, evBmc, evSvc, handler,
                 queueSvc, sw, uids, edits>>

(* Create of the Service, and Reconcile returns.                           *)
CreateService ==
  /\ w.pc = "svc"
  /\ \/ /\ w' = IdleWorker
        /\ svc' = IF svc[w.copy.vm] = NoOwner THEN [svc EXCEPT ![w.copy.vm] = Me] ELSE svc
        /\ evSvc' = IF svc' = svc THEN evSvc ELSE evSvc \cup {w.copy.vm}
        /\ Created(svc' # svc)
        /\ UNCHANGED faults
     \/ ApiError /\ Retry /\ UNCHANGED <<svc, evSvc>>
  /\ UNCHANGED <<vms, secrets, bmc, pod, rbac, caches, evVM, evSec, evBmc, handler,
                 queueSvc, sw, uids, edits>>

ReconcileStep ==
  \/ ValidateVirtualMachineExists
  \/ ValidateSecretExists
  \/ DeleteVirtBMCPod
  \/ EnsureRBACResources
  \/ CreatePod
  \/ CreateService

HandleEvents ==
  \/ \E b \in Bmcs : DeliverBMC(b)
  \/ \E v \in VMs : DeliverVM(v)
  \/ \E s \in Secrets : DeliverSecret(s) \/ SecretEvent(s) \/ Resync(s)
  \/ SecretDelete
  \/ SecretReturn
=============================================================================
