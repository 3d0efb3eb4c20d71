-------------------------- MODULE ControlPlaneProofs --------------------------
(***************************************************************************)
(* Proofs about the controller manager, for any number of                  *)
(* VirtualMachineBMCs, VirtualMachines and Secrets, and any number of      *)
(* edits, failing calls and restarts.                                      *)
(***************************************************************************)
EXTENDS ControlPlane, TLAPS

-----------------------------------------------------------------------------
(* Lemmas about the operators.                                             *)

(* What a user creates is a VirtualMachineBMC.                             *)
LEMMA NewType ==
  ASSUME NEW uid \in Nat \ {0}, NEW v \in VMs, NEW s \in Secrets
  PROVE  NewBmc(uid, v, s) \in LiveBmcs
  BY DEF NewBmc, LiveBmcs, Unset

(* What does not exist has no incarnation, what exists has one.            *)
LEMMA LiveUid ==
  ASSUME NEW x \in LiveBmcs \cup {NoBmc}
  PROVE  x.uid # 0 <=> x \in LiveBmcs
<1>1. NoBmc.uid = 0
  BY DEF NoBmc, NewBmc
<1> QED
  BY <1>1 DEF LiveBmcs

(* Only an object that exists refers to a VirtualMachine or a Secret.      *)
LEMMA LiveRefers ==
  ASSUME NEW x \in LiveBmcs \cup {NoBmc}, x.vm \in VMs \/ x.secret \in Secrets
  PROVE  x \in LiveBmcs
  BY ClusterAssumption DEF NoBmc, NewBmc

(* Storing an object keeps the types of the objects and their events.      *)
LEMMA StoreType ==
  ASSUME TypeOK, NEW b \in Bmcs, NEW new \in LiveBmcs \cup {NoBmc}, StoreBmc(b, new)
  PROVE  bmc' \in [Bmcs -> LiveBmcs \cup {NoBmc}] /\ evBmc' \subseteq Bmcs
<1>1. bmc \in [Bmcs -> LiveBmcs \cup {NoBmc}] /\ evBmc \subseteq Bmcs
  BY DEF TypeOK
<1> QED
  BY <1>1 DEF StoreBmc

(* A worker whose copy is outdated works on; an idle one has none.         *)
LEMMA OutdateType ==
  ASSUME TypeOK, NEW b \in Bmcs
  PROVE  /\ Outdate(w, w.key = b) \in BusyWorkers \cup {IdleWorker}
         /\ Outdate(sw, sw.bmc = b) \in BusySvcWorkers \cup {IdleSvcWorker}
<1>1. Outdate(w, w.key = b) \in BusyWorkers \cup {IdleWorker}
  <2>1. CASE w = IdleWorker
    <3>1. w.key # b
      BY <2>1, ClusterAssumption DEF IdleWorker
    <3> QED
      BY <2>1, <3>1 DEF Outdate
  <2>2. CASE w \in BusyWorkers
    BY <2>2 DEF Outdate, BusyWorkers
  <2> QED
    BY <2>1, <2>2 DEF TypeOK
<1>2. Outdate(sw, sw.bmc = b) \in BusySvcWorkers \cup {IdleSvcWorker}
  <2>1. CASE sw = IdleSvcWorker
    <3>1. sw.bmc # b
      BY <2>1, ClusterAssumption DEF IdleSvcWorker
    <3> QED
      BY <2>1, <3>1 DEF Outdate
  <2>2. CASE sw \in BusySvcWorkers
    BY <2>2 DEF Outdate, BusySvcWorkers
  <2> QED
    BY <2>1, <2>2 DEF TypeOK
<1> QED
  BY <1>1, <1>2

(* A worker at a point of Reconcile is busy.                               *)
LEMMA Busy ==
  ASSUME TypeOK
  PROVE  /\ w.pc # "idle" <=> w \in BusyWorkers
         /\ sw.pc # "idle" <=> sw \in BusySvcWorkers
<1>1. w \in BusyWorkers \cup {IdleWorker} /\ sw \in BusySvcWorkers \cup {IdleSvcWorker}
  BY DEF TypeOK
<1>2. IdleWorker.pc = "idle" /\ IdleSvcWorker.pc = "idle"
  BY DEF IdleWorker, IdleSvcWorker
<1> QED
  BY <1>1, <1>2 DEF BusyWorkers, BusySvcWorkers

(* An API call that fails is counted.                                      *)
LEMMA ErrorType ==
  ASSUME TypeOK, ApiError \/ UNCHANGED faults
  PROVE  faults' \in 0..MaxFaults
  BY ClusterAssumption DEF TypeOK, ApiError

(* So is an edit.                                                          *)
LEMMA EditType ==
  ASSUME TypeOK, NEW o, Edit(o)
  PROVE  edits' \in 0..MaxEdits
  BY ClusterAssumption DEF TypeOK, Edit

(* The owner of a Pod that exists is queued.                               *)
LEMMA PodOwner ==
  ASSUME TypeOK, NEW v \in VMs, pod[v].phase # "absent"
  PROVE  pod[v] \in LivePods /\ pod[v].owner.bmc \in Bmcs
<1>1. pod[v] \in LivePods \cup {NoPod} /\ NoPod.phase = "absent"
  BY DEF TypeOK, NoPod
<1> QED
  BY <1>1 DEF LivePods, References

(* So are the owners of several Pods.                                      *)
LEMMA OwnersType ==
  ASSUME TypeOK, NEW vs, vs \subseteq VMs
  PROVE  Owners(vs) \subseteq Bmcs
  BY PodOwner DEF Owners

(* A Pod that is deleted stays a Pod.                                      *)
LEMMA TerminatedType ==
  ASSUME NEW p \in LivePods \cup {NoPod}
  PROVE  Terminated(p) \in LivePods \cup {NoPod}
<1>1. CASE p = NoPod
  BY <1>1 DEF Terminated, NoPod
<1>2. CASE p \in LivePods
  BY <1>2 DEF Terminated, LivePods
<1> QED
  BY <1>1, <1>2

(* A call of the Secret's handler finds VirtualMachineBMCs with a machine. *)
LEMMA FindType ==
  ASSUME TypeOK, NEW s \in Secrets, NEW calls \in 1..2, NEW seen, seen \subseteq Bmcs,
         Find(s, calls, seen)
  PROVE  h' \in BusyHandlers
<1> DEFINE hit == {b \in Bmcs : cbmc[b].secret = s}
           todo == {<<b, cbmc[b].vm>> : b \in hit}
<1>1. \A b \in hit : cbmc[b] \in LiveBmcs
  BY LiveRefers DEF TypeOK
<1>2. hit \subseteq Bmcs /\ todo \subseteq Bmcs \X VMs
  BY <1>1 DEF LiveBmcs
<1>3. h' = [secret |-> s, calls |-> calls, hit |-> hit, seen |-> seen, todo |-> todo]
  BY DEF Find
<1> HIDE DEF hit, todo
<1> QED
  BY <1>2, <1>3 DEF BusyHandlers

(* A status update moves the worker on or sends the key back.              *)
LEMMA UpdateStatusType ==
  ASSUME TypeOK, w \in BusyWorkers, NEW new \in LiveBmcs, NEW label \in {"secret", "delete"},
         UpdateStatus(new, label)
  PROVE  /\ bmc' \in [Bmcs -> LiveBmcs \cup {NoBmc}] /\ evBmc' \subseteq Bmcs
         /\ queue' \subseteq Bmcs /\ faults' \in 0..MaxFaults
         /\ w' \in BusyWorkers \cup {IdleWorker}
         /\ sw' \in BusySvcWorkers \cup {IdleSvcWorker}
<1>0. w.key \in Bmcs
  BY DEF BusyWorkers
<1>1. CASE /\ StoreBmc(w.key, new)
           /\ w' = [w EXCEPT !.pc = label, !.copy = new]
           /\ sw' = Outdate(sw, sw.bmc = w.key)
           /\ UNCHANGED <<queue, faults>>
  <2>1. bmc' \in [Bmcs -> LiveBmcs \cup {NoBmc}] /\ evBmc' \subseteq Bmcs
    BY <1>0, <1>1, StoreType
  <2>2. w' \in BusyWorkers
    BY <1>1 DEF BusyWorkers
  <2>3. sw' \in BusySvcWorkers \cup {IdleSvcWorker}
    BY <1>0, <1>1, OutdateType
  <2> QED
    BY <1>1, <2>1, <2>2, <2>3 DEF TypeOK
<1>2. CASE /\ UNCHANGED faults \/ ApiError
           /\ Retry
           /\ UNCHANGED <<bmc, evBmc, sw>>
  BY <1>0, <1>2, ErrorType DEF TypeOK, Retry, Enqueue
<1> QED
  BY <1>1, <1>2 DEF UpdateStatus

(* Likewise for the Service controller.                                    *)
LEMMA UpdateServiceStatusType ==
  ASSUME TypeOK, sw \in BusySvcWorkers, NEW new \in LiveBmcs,
         NEW next \in BusySvcWorkers \cup {IdleSvcWorker}, UpdateServiceStatus(new, next)
  PROVE  /\ bmc' \in [Bmcs -> LiveBmcs \cup {NoBmc}] /\ evBmc' \subseteq Bmcs
         /\ queueSvc' \subseteq VMs /\ faults' \in 0..MaxFaults
         /\ w' \in BusyWorkers \cup {IdleWorker}
         /\ sw' \in BusySvcWorkers \cup {IdleSvcWorker}
<1>0. sw.bmc \in Bmcs /\ sw.key \in VMs
  BY DEF BusySvcWorkers
<1>1. CASE /\ StoreBmc(sw.bmc, new) /\ w' = Outdate(w, w.key = sw.bmc)
           /\ sw' = next
           /\ UNCHANGED <<queueSvc, faults>>
  BY <1>0, <1>1, StoreType, OutdateType DEF TypeOK
<1>2. CASE sw' = next /\ UNCHANGED <<bmc, evBmc, w, queueSvc, faults>>
  BY <1>2 DEF TypeOK
<1>3. CASE /\ UNCHANGED faults \/ ApiError
           /\ sw' = IdleSvcWorker
           /\ queueSvc' = queueSvc \cup {sw.key}
           /\ UNCHANGED <<bmc, evBmc, w>>
  BY <1>0, <1>3, ErrorType DEF TypeOK
<1> QED
  BY <1>1, <1>2, <1>3 DEF UpdateServiceStatus

-----------------------------------------------------------------------------
(* Type correctness.                                                       *)

(* The manager starts in a cluster of well-typed objects.                  *)
LEMMA TypeInit == Init => TypeOK
<1> SUFFICES ASSUME Init PROVE TypeOK
  OBVIOUS
<1>1. bmc \in [Bmcs -> LiveBmcs \cup {NoBmc}]
  <2>1. {NewBmc(1, v, s) : v \in VMs, s \in Secrets} \subseteq LiveBmcs
    BY NewType
  <2> QED
    BY <2>1 DEF Init
<1>2. secrets \in [Secrets -> Passwords \cup {None}]
  BY DEF Init, Passwords
<1>3. edits \in 0..MaxEdits /\ faults \in 0..MaxFaults /\ uids \in Nat
  BY ClusterAssumption DEF Init
<1> QED
  BY <1>1, <1>2, <1>3 DEF Init, TypeOK

(* Users' edits keep the types: the webhook lets only references to known  *)
(* objects through.                                                        *)
LEMMA UsersType ==
  ASSUME TypeOK, Users
  PROVE  TypeOK'
<1>1. ASSUME NEW b \in Bmcs, CreateBMC(b) PROVE TypeOK'
  <2>1. PICK v \in VMs, s \in Secrets : StoreBmc(b, NewBmc(uids + 1, v, s))
    BY <1>1 DEF CreateBMC
  <2>2. uids + 1 \in Nat \ {0} /\ uids' \in Nat
    BY <1>1 DEF CreateBMC, TypeOK
  <2>3. bmc' \in [Bmcs -> LiveBmcs \cup {NoBmc}] /\ evBmc' \subseteq Bmcs
    BY <2>1, <2>2, NewType, StoreType
  <2>4. edits' \in 0..MaxEdits
    BY <1>1, EditType DEF CreateBMC
  <2> QED
    BY <1>1, <2>2, <2>3, <2>4 DEF CreateBMC, TypeOK, caches, handler
<1>2. ASSUME NEW b \in Bmcs, EditBMC(b) PROVE TypeOK'
  <2>1. PICK v \in VMs, s \in Secrets : StoreBmc(b, [bmc[b] EXCEPT !.vm = v, !.secret = s])
    BY <1>2 DEF EditBMC
  <2>2. bmc[b] \in LiveBmcs
    BY <1>2, LiveUid DEF EditBMC, TypeOK
  <2>3. [bmc[b] EXCEPT !.vm = v, !.secret = s] \in LiveBmcs
    BY <2>2 DEF LiveBmcs
  <2>4. bmc' \in [Bmcs -> LiveBmcs \cup {NoBmc}] /\ evBmc' \subseteq Bmcs
    BY <2>1, <2>3, StoreType
  <2>5. edits' \in 0..MaxEdits
    BY <1>2, EditType DEF EditBMC
  <2>6. w' \in BusyWorkers \cup {IdleWorker} /\ sw' \in BusySvcWorkers \cup {IdleSvcWorker}
    BY <1>2, OutdateType DEF EditBMC
  <2> QED
    BY <1>2, <2>4, <2>5, <2>6 DEF EditBMC, TypeOK, caches, handler
<1>3. ASSUME NEW b \in Bmcs, DeleteBMC(b) PROVE TypeOK'
  <2>1. bmc' \in [Bmcs -> LiveBmcs \cup {NoBmc}] /\ evBmc' \subseteq Bmcs
    BY <1>3, StoreType DEF DeleteBMC
  <2>2. edits' \in 0..MaxEdits
    BY <1>3, EditType DEF DeleteBMC
  <2>3. w' \in BusyWorkers \cup {IdleWorker} /\ sw' \in BusySvcWorkers \cup {IdleSvcWorker}
    BY <1>3, OutdateType DEF DeleteBMC
  <2> QED
    BY <1>3, <2>1, <2>2, <2>3 DEF DeleteBMC, TypeOK, caches, handler
<1>4. ASSUME NEW v \in VMs, EditVM(v) PROVE TypeOK'
  <2>1. edits' \in 0..MaxEdits
    BY <1>4, EditType DEF EditVM
  <2> QED
    BY <1>4, <2>1 DEF EditVM, TypeOK, caches, handler
<1>5. ASSUME NEW s \in Secrets, EditSecret(s) PROVE TypeOK'
  <2>1. edits' \in 0..MaxEdits
    BY <1>5, EditType DEF EditSecret
  <2>2. secrets' \in [Secrets -> Passwords \cup {None}]
    BY <1>5 DEF EditSecret, TypeOK
  <2> QED
    BY <1>5, <2>1, <2>2 DEF EditSecret, TypeOK, caches, handler
<1> QED
  BY <1>1, <1>2, <1>3, <1>4, <1>5 DEF Users

(* So do the event handlers.                                               *)
LEMMA HandlersType ==
  ASSUME TypeOK, HandleEvents
  PROVE  TypeOK'
<1>1. ASSUME NEW b \in Bmcs, DeliverBMC(b) PROVE TypeOK'
  <2>1. cbmc' \in [Bmcs -> LiveBmcs \cup {NoBmc}]
    BY <1>1 DEF DeliverBMC, TypeOK
  <2> QED
    BY <1>1, <2>1 DEF DeliverBMC, Enqueue, TypeOK, objects, bounds, handler
<1>2. ASSUME NEW v \in VMs, DeliverVM(v) PROVE TypeOK'
  BY <1>2 DEF DeliverVM, Enqueue, TypeOK, objects, bounds, handler
<1>3. ASSUME NEW s \in Secrets, DeliverSecret(s) PROVE TypeOK'
  <2>1. csec' \in [Secrets -> Passwords \cup {None}] /\ onSec' \in [Secrets -> 0..2]
    BY <1>3 DEF DeliverSecret, TypeOK
  <2> QED
    BY <1>3, <2>1 DEF DeliverSecret, TypeOK, objects, bounds
<1>4. ASSUME NEW s \in Secrets, Resync(s) PROVE TypeOK'
  <2>1. edits' \in 0..MaxEdits
    BY <1>4, EditType DEF Resync
  <2>2. onSec' \in [Secrets -> 0..2]
    BY <1>4 DEF Resync, TypeOK
  <2> QED
    BY <1>4, <2>1, <2>2 DEF Resync, TypeOK, objects, caches
<1>5. ASSUME NEW s \in Secrets, SecretEvent(s) PROVE TypeOK'
  <2>1. onSec' \in [Secrets -> 0..2] /\ onSec[s] \in 1..2
    BY <1>5 DEF SecretEvent, TypeOK
  <2>2. h' \in BusyHandlers
    BY <1>5, <2>1, FindType DEF SecretEvent
  <2> QED
    BY <1>5, <2>1, <2>2 DEF SecretEvent, TypeOK, objects, caches, bounds
<1>6. CASE SecretDelete
  <2>1. PICK d \in h.todo :
          /\ h' = [h EXCEPT !.todo = @ \ {d}]
          /\ \/ /\ pod' = [pod EXCEPT ![d[2]] = Terminated(pod[d[2]])]
                /\ Enqueue(Owners({d[2]}))
                /\ UNCHANGED faults
             \/ ApiError /\ UNCHANGED <<pod, queue>>
    BY <1>6 DEF SecretDelete
  <2>2. h \in BusyHandlers
    BY <2>1 DEF TypeOK, IdleHandler
  <2>3. d[2] \in VMs
    BY <2>1, <2>2 DEF BusyHandlers
  <2>4. h' \in BusyHandlers
    BY <2>1, <2>2 DEF BusyHandlers
  <2>5. pod' \in [VMs -> LivePods \cup {NoPod}]
    BY <2>1, <2>3, TerminatedType DEF TypeOK
  <2>6. queue' \subseteq Bmcs
    <3>1. Owners({d[2]}) \subseteq Bmcs
      BY <2>3, OwnersType
    <3> QED
      BY <2>1, <3>1 DEF Enqueue, TypeOK
  <2>7. faults' \in 0..MaxFaults
    BY <2>1, ErrorType
  <2> QED
    BY <1>6, <2>4, <2>5, <2>6, <2>7 DEF SecretDelete, TypeOK, caches
<1>7. CASE SecretReturn
  <2>1. h \in BusyHandlers
    BY <1>7 DEF SecretReturn, TypeOK, IdleHandler
  <2>2. h.hit \subseteq Bmcs /\ h.seen \subseteq Bmcs /\ h.secret \in Secrets
    BY <2>1 DEF BusyHandlers
  <2>3. queue' \subseteq Bmcs
    BY <1>7, <2>2 DEF SecretReturn, Enqueue, TypeOK
  <2>4. h' \in BusyHandlers \cup {IdleHandler}
    <3>1. CASE h' = IdleHandler
      BY <3>1
    <3>2. CASE Find(h.secret, 1, h.seen \cup h.hit)
      BY <2>2, <3>2, FindType
    <3> QED
      BY <1>7, <3>1, <3>2 DEF SecretReturn
  <2> QED
    BY <1>7, <2>3, <2>4 DEF SecretReturn, TypeOK, objects, caches, bounds
<1> QED
  BY <1>1, <1>2, <1>3, <1>4, <1>5, <1>6, <1>7 DEF HandleEvents

(* So does Reconcile: what it creates carries a reference to the object it *)
(* has read.                                                               *)
LEMMA ReconcileType ==
  ASSUME TypeOK, (\E b \in Bmcs : Reconcile(b)) \/ ReconcileStep
  PROVE  TypeOK'
<1>1. ASSUME NEW b \in Bmcs, Reconcile(b) PROVE TypeOK'
  <2>1. w' \in BusyWorkers \cup {IdleWorker}
    <3>1. CASE cbmc[b].uid = 0
      BY <1>1, <3>1 DEF Reconcile
    <3>2. CASE cbmc[b].uid # 0
      <4>1. cbmc[b] \in LiveBmcs
        BY <3>2, LiveUid DEF TypeOK
      <4>2. w' = [pc |-> "vm", key |-> b, copy |-> cbmc[b], fresh |-> b \notin evBmc, vmOK |-> FALSE]
        BY <1>1, <3>2 DEF Reconcile
      <4> QED
        BY <4>1, <4>2 DEF BusyWorkers
    <3> QED
      BY <3>1, <3>2
  <2> QED
    BY <1>1, <2>1 DEF Reconcile, TypeOK, objects, caches, events, handler, bounds
<1>2. CASE ReconcileStep
  <2>0. w \in BusyWorkers
    BY <1>2, Busy DEF ReconcileStep, ValidateVirtualMachineExists, ValidateSecretExists,
                      DeleteVirtBMCPod, EnsureRBACResources, CreatePod, CreateService
  <2>F. /\ w.key \in Bmcs /\ w.copy \in LiveBmcs
        /\ w.copy.vm \in VMs /\ w.copy.secret \in Secrets /\ w.copy.uid \in Nat \ {0}
    BY <2>0 DEF BusyWorkers, LiveBmcs
  <2>M. Me \in References
    BY <2>F DEF Me, Owner, References
  <2>R. Retry => w' = IdleWorker /\ queue' \subseteq Bmcs
    BY <2>F DEF Retry, Enqueue, TypeOK
  <2>C. ASSUME NEW x, Created(x) PROVE queue' \subseteq Bmcs
    BY <2>F, <2>C DEF Created, Enqueue, TypeOK
  <2>G. ASSUME NEW label \in {"binding", "pod", "svc"}, Goto(label) PROVE w' \in BusyWorkers
    BY <2>0, <2>G DEF Goto, BusyWorkers
  <2>1. CASE ValidateVirtualMachineExists
    <3> DEFINE c == [ok |-> w.copy.vm \in cvms, name |-> w.copy.vm]
               new == [w.copy EXCEPT !.vmCond = c]
    <3>0. c \in [ok : BOOLEAN, name : VMs \cup {None}] /\ c.ok \in BOOLEAN
      <4>1. (w.copy.vm \in cvms) \in BOOLEAN
        OBVIOUS
      <4> QED
        BY <2>F, <4>1
    <3>1. new \in LiveBmcs
      <4> HIDE DEF c
      <4> QED
        BY <2>F, <3>0 DEF LiveBmcs
    <3>2. CASE /\ w' = [w EXCEPT !.pc = "secret", !.vmOK = c.ok]
               /\ UNCHANGED <<bmc, evBmc, sw, queue, faults>>
      <4> HIDE DEF c
      <4>1. w' \in BusyWorkers
        BY <2>0, <3>0, <3>2 DEF BusyWorkers
      <4> QED
        BY <2>1, <3>2, <4>1 DEF ValidateVirtualMachineExists, TypeOK, caches, handler
    <3>3. CASE UpdateStatus(new, "secret")
      <4> HIDE DEF new
      <4> QED
        BY <2>0, <2>1, <3>1, <3>3, UpdateStatusType DEF ValidateVirtualMachineExists, TypeOK, caches, handler
    <3> QED
      BY <2>1, <3>2, <3>3 DEF ValidateVirtualMachineExists
  <2>2. CASE ValidateSecretExists
    <3> DEFINE c == [ok |-> csec[w.copy.secret] # None, name |-> w.copy.secret]
               new == [w.copy EXCEPT !.secretCond = c]
    <3>1. new \in LiveBmcs
      BY <2>F DEF LiveBmcs
    <3>2. CASE /\ w' = [w EXCEPT !.pc = IF c.ok /\ w.vmOK THEN "rbac" ELSE "delete"]
               /\ UNCHANGED <<bmc, evBmc, sw, queue, faults>>
      <4>1. w' \in BusyWorkers
        BY <2>0, <3>2 DEF BusyWorkers
      <4> QED
        BY <2>2, <3>2, <4>1 DEF ValidateSecretExists, TypeOK, caches, handler
    <3>3. CASE UpdateStatus(new, "delete")
      <4> HIDE DEF new
      <4> QED
        BY <2>0, <2>2, <3>1, <3>3, UpdateStatusType DEF ValidateSecretExists, TypeOK, caches, handler
    <3> QED
      BY <2>2, <3>2, <3>3 DEF ValidateSecretExists
  <2>3. CASE DeleteVirtBMCPod
    <3>1. pod' \in [VMs -> LivePods \cup {NoPod}]
      BY <2>F, <2>3, TerminatedType DEF DeleteVirtBMCPod, TypeOK
    <3>2. w' = IdleWorker /\ queue' \subseteq Bmcs
      <4>1. Owners({w.copy.vm}) \subseteq Bmcs
        BY <2>F, OwnersType
      <4> QED
        BY <2>R, <2>3, <4>1 DEF DeleteVirtBMCPod, Enqueue, TypeOK
    <3>3. faults' \in 0..MaxFaults
      BY <2>3, ErrorType DEF DeleteVirtBMCPod
    <3> QED
      BY <2>3, <3>1, <3>2, <3>3 DEF DeleteVirtBMCPod, TypeOK, caches, handler
  <2>4. CASE EnsureRBACResources
    <3>0. PICK kind \in Kinds, label \in {"binding", "pod"} : EnsureRBACResource(kind, label)
      BY <2>4 DEF EnsureRBACResources, Kinds
    <3>1. rbac' \in [Kinds -> [VMs -> References \cup {NoOwner}]]
      <4>1. rbac \in [Kinds -> [VMs -> References \cup {NoOwner}]]
        BY DEF TypeOK
      <4>2. rbac' = rbac \/ rbac' = [rbac EXCEPT ![kind] = [rbac[kind] EXCEPT ![w.copy.vm] = Me]]
        BY <3>0, <4>1 DEF EnsureRBACResource
      <4>3. [rbac[kind] EXCEPT ![w.copy.vm] = Me] \in [VMs -> References \cup {NoOwner}]
        BY <2>M, <4>1
      <4> QED
        BY <4>1, <4>2, <4>3
    <3>2. w' \in BusyWorkers \cup {IdleWorker} /\ queue' \subseteq Bmcs
      BY <2>R, <2>C, <2>G, <3>0 DEF EnsureRBACResource
    <3>3. faults' \in 0..MaxFaults
      BY <3>0, ErrorType DEF EnsureRBACResource
    <3> QED
      BY <2>4, <3>1, <3>2, <3>3 DEF EnsureRBACResources, TypeOK, caches, handler
  <2>5. CASE CreatePod
    <3>1. pod' \in [VMs -> LivePods \cup {NoPod}]
      <4>1. [phase |-> "pending", owner |-> Me, secret |-> w.copy.secret, password |-> None] \in LivePods
        BY <2>F, <2>M DEF LivePods
      <4>2. \/ UNCHANGED pod
            \/ pod' = [pod EXCEPT ![w.copy.vm] =
                         [phase |-> "pending", owner |-> Me, secret |-> w.copy.secret, password |-> None]]
        BY <2>5 DEF CreatePod
      <4> QED
        BY <4>1, <4>2 DEF TypeOK
    <3>2. w' \in BusyWorkers \cup {IdleWorker} /\ queue' \subseteq Bmcs
      BY <2>R, <2>C, <2>G, <2>5 DEF CreatePod
    <3>3. faults' \in 0..MaxFaults
      BY <2>5, ErrorType DEF CreatePod
    <3> QED
      BY <2>5, <3>1, <3>2, <3>3 DEF CreatePod, TypeOK, caches, handler
  <2>6. CASE CreateService
    <3>1. svc' \in [VMs -> References \cup {NoOwner}] /\ evSvc' \subseteq VMs
      BY <2>F, <2>M, <2>6 DEF CreateService, TypeOK
    <3>2. w' = IdleWorker /\ queue' \subseteq Bmcs
      BY <2>R, <2>C, <2>6 DEF CreateService
    <3>3. faults' \in 0..MaxFaults
      BY <2>6, ErrorType DEF CreateService
    <3> QED
      BY <2>6, <3>1, <3>2, <3>3 DEF CreateService, TypeOK, caches, handler
  <2> QED
    BY <1>2, <2>1, <2>2, <2>3, <2>4, <2>5, <2>6 DEF ReconcileStep
<1> QED
  BY <1>1, <1>2

(* So does the Service controller.                                         *)
LEMMA ServiceType ==
  ASSUME TypeOK, (\E v \in VMs : DeliverService(v) \/ ReconcileService(v)) \/ ServiceStep
  PROVE  TypeOK'
<1>1. ASSUME NEW v \in VMs, DeliverService(v) PROVE TypeOK'
  <2>1. csvc' \in [VMs -> References \cup {NoOwner}]
    BY <1>1 DEF DeliverService, TypeOK
  <2> QED
    BY <1>1, <2>1 DEF DeliverService, TypeOK, objects, bounds, handler
<1>2. ASSUME NEW v \in VMs, ReconcileService(v) PROVE TypeOK'
  <2>1. sw' \in BusySvcWorkers \cup {IdleSvcWorker}
    <3>1. CASE csvc[v] = NoOwner \/ cbmc[csvc[v].bmc].uid = 0
      BY <1>2, <3>1 DEF ReconcileService
    <3>2. CASE csvc[v] # NoOwner /\ cbmc[csvc[v].bmc].uid # 0
      <4>1. csvc[v].bmc \in Bmcs /\ csvc[v].uid \in Nat
        BY <3>2 DEF TypeOK, References
      <4>2. cbmc[csvc[v].bmc] \in LiveBmcs
        BY <3>2, <4>1, LiveUid DEF TypeOK
      <4>3. sw' = [pc |-> "ready", key |-> v, bmc |-> csvc[v].bmc, ip |-> <<v, csvc[v].uid>>,
                   copy |-> cbmc[csvc[v].bmc], fresh |-> csvc[v].bmc \notin evBmc]
        BY <1>2, <3>2 DEF ReconcileService
      <4> QED
        BY <4>1, <4>2, <4>3 DEF BusySvcWorkers
    <3> QED
      BY <3>1, <3>2
  <2> QED
    BY <1>2, <2>1 DEF ReconcileService, TypeOK, objects, caches, events, handler, bounds
<1>3. CASE SetReady
  <2>0. sw \in BusySvcWorkers
    BY <1>3, Busy DEF SetReady
  <2> DEFINE new == [sw.copy EXCEPT !.ready = TRUE]
             next == [sw EXCEPT !.pc = "ip", !.copy = new]
  <2>1. new \in LiveBmcs
    BY <2>0 DEF BusySvcWorkers, LiveBmcs
  <2>2. next \in BusySvcWorkers
    <3> HIDE DEF new
    <3> QED
      BY <2>0, <2>1 DEF BusySvcWorkers
  <2>3. CASE UpdateServiceStatus(new, next)
    <3> HIDE DEF new, next
    <3> QED
      BY <1>3, <2>0, <2>1, <2>2, <2>3, UpdateServiceStatusType DEF SetReady, TypeOK, caches, handler
  <2>4. CASE /\ sw' = [sw EXCEPT !.pc = "ip"]
             /\ UNCHANGED <<bmc, evBmc, w, queueSvc, faults>>
    <3>1. sw' \in BusySvcWorkers
      BY <2>0, <2>4 DEF BusySvcWorkers
    <3> QED
      BY <1>3, <2>4, <3>1 DEF SetReady, TypeOK, caches, handler
  <2> QED
    BY <1>3, <2>3, <2>4 DEF SetReady
<1>4. CASE SetClusterIP
  <2>0. sw \in BusySvcWorkers
    BY <1>4, Busy DEF SetClusterIP
  <2> DEFINE new == [sw.copy EXCEPT !.ip = sw.ip]
  <2>1. new \in LiveBmcs
    BY <2>0 DEF BusySvcWorkers, LiveBmcs
  <2>2. UpdateServiceStatus(new, IdleSvcWorker)
    BY <1>4 DEF SetClusterIP
  <2> HIDE DEF new
  <2> QED
    BY <1>4, <2>0, <2>1, <2>2, UpdateServiceStatusType DEF SetClusterIP, TypeOK, caches, handler
<1> QED
  BY <1>1, <1>2, <1>3, <1>4 DEF ServiceStep

(* So do the kubelet and the garbage collector.                            *)
LEMMA NodeType ==
  ASSUME TypeOK, NEW v \in VMs, KubeletStart(v) \/ KubeletStop(v) \/ CollectGarbage(v)
  PROVE  TypeOK'
<1>F. /\ pod \in [VMs -> LivePods \cup {NoPod}] /\ svc \in [VMs -> References \cup {NoOwner}]
      /\ rbac \in [Kinds -> [VMs -> References \cup {NoOwner}]]
  BY DEF TypeOK
<1>1. CASE KubeletStart(v)
  <2>1. pod[v] \in LivePods /\ pod[v].owner.bmc \in Bmcs
    BY <1>1, PodOwner DEF KubeletStart
  <2>2. secrets[pod[v].secret] \in Passwords \cup {None}
    BY <2>1 DEF LivePods, TypeOK
  <2>3. pod' = [pod EXCEPT ![v] = [pod[v] EXCEPT !.phase = "running",
                                                 !.password = secrets[pod[v].secret]]]
    BY <1>1, <1>F DEF KubeletStart
  <2>4. [pod[v] EXCEPT !.phase = "running", !.password = secrets[pod[v].secret]] \in LivePods
    BY <2>1, <2>2 DEF LivePods
  <2>5. pod' \in [VMs -> LivePods \cup {NoPod}]
    BY <1>F, <2>3, <2>4
  <2>6. queue' \subseteq Bmcs
    BY <1>1, <2>1 DEF KubeletStart, Enqueue, TypeOK
  <2> QED
    BY <1>1, <2>5, <2>6 DEF KubeletStart, TypeOK, caches, handler, bounds
<1>2. CASE KubeletStop(v)
  <2>1. pod[v].owner.bmc \in Bmcs
    BY <1>2, PodOwner DEF KubeletStop
  <2>2. pod' \in [VMs -> LivePods \cup {NoPod}] /\ queue' \subseteq Bmcs
    BY <1>2, <1>F, <2>1 DEF KubeletStop, Enqueue, TypeOK
  <2> QED
    BY <1>2, <2>2 DEF KubeletStop, TypeOK, caches, handler, bounds
<1>3. CASE CollectGarbage(v)
  <2>1. ASSUME NEW o \in References \cup {NoOwner}, Dangling(o) PROVE o.bmc \in Bmcs
    BY <2>1 DEF Dangling, References
  <2>2. CASE /\ pod[v].phase \in {"pending", "running"}
             /\ pod' = [pod EXCEPT ![v] = Terminated(pod[v])]
             /\ Enqueue({pod[v].owner.bmc})
             /\ UNCHANGED <<svc, rbac, evSvc>>
    <3>1. pod' \in [VMs -> LivePods \cup {NoPod}]
      BY <1>F, <2>2, TerminatedType
    <3>2. queue' \subseteq Bmcs
      BY <2>2, PodOwner DEF Enqueue, TypeOK
    <3> QED
      BY <1>3, <2>2, <3>1, <3>2 DEF CollectGarbage, TypeOK, caches, handler, bounds
  <2>3. CASE /\ Dangling(svc[v])
             /\ svc' = [svc EXCEPT ![v] = NoOwner]
             /\ Enqueue({svc[v].bmc})
             /\ evSvc' = evSvc \cup {v}
             /\ UNCHANGED <<pod, rbac>>
    <3>1. svc' \in [VMs -> References \cup {NoOwner}] /\ evSvc' \subseteq VMs
      BY <1>F, <2>3 DEF TypeOK
    <3>2. queue' \subseteq Bmcs
      BY <1>F, <2>1, <2>3 DEF Enqueue, TypeOK
    <3> QED
      BY <1>3, <2>3, <3>1, <3>2 DEF CollectGarbage, TypeOK, caches, handler, bounds
  <2>4. ASSUME NEW k \in Kinds, Dangling(rbac[k][v]), rbac' = [rbac EXCEPT ![k][v] = NoOwner],
               Enqueue({rbac[k][v].bmc}), UNCHANGED <<pod, svc, evSvc>>
        PROVE  TypeOK'
    <3>0. rbac[k] \in [VMs -> References \cup {NoOwner}] /\ rbac[k][v] \in References \cup {NoOwner}
      BY <1>F
    <3>1. rbac' \in [Kinds -> [VMs -> References \cup {NoOwner}]]
      <4>1. rbac' = [rbac EXCEPT ![k] = [rbac[k] EXCEPT ![v] = NoOwner]]
        BY <1>F, <2>4
      <4>2. [rbac[k] EXCEPT ![v] = NoOwner] \in [VMs -> References \cup {NoOwner}]
        BY <3>0
      <4> QED
        BY <1>F, <4>1, <4>2
    <3>2. queue' \subseteq Bmcs
      BY <2>1, <2>4, <3>0 DEF Enqueue, TypeOK
    <3> QED
      BY <1>3, <2>4, <3>1, <3>2 DEF CollectGarbage, TypeOK, caches, handler, bounds
  <2> QED
    BY <1>3, <2>2, <2>3, <2>4 DEF CollectGarbage
<1> QED
  BY <1>1, <1>2, <1>3

(* Every step keeps the types.                                             *)
LEMMA TypeStep == TypeOK /\ [Next]_cvars => TypeOK'
<1> SUFFICES ASSUME TypeOK, [Next]_cvars PROVE TypeOK'
  OBVIOUS
<1>1. CASE Restart
  <2>1. faults' \in 0..MaxFaults
    BY <1>1, ClusterAssumption DEF Restart, TypeOK
  <2> QED
    BY <1>1, <2>1 DEF Restart, TypeOK, objects
<1>2. CASE UNCHANGED cvars
  BY <1>2 DEF cvars, TypeOK, objects, caches, events, handler, bounds
<1> QED
  BY <1>1, <1>2, UsersType, HandlersType, ReconcileType, ServiceType, NodeType DEF Next

(* Whatever users create, edit and delete and whatever fails, every object *)
(* the controllers create has an owner, only VirtualMachineBMCs get into   *)
(* the work queue and no worker works on a copy of an object that does not *)
(* exist.                                                                  *)
THEOREM ClusterTypeCorrect == Spec => []TypeOK
  BY TypeInit, TypeStep, PTL DEF Spec

-----------------------------------------------------------------------------
(* Copies.                                                                 *)

(* The part of the state in which versions matter.                         *)
versions == <<bmc, evBmc, cbmc, w, sw>>

(* The cache is current but for the changes it has not been told of.       *)
CacheCurrent == \A b \in Bmcs \ evBmc : cbmc[b] = bmc[b]

(* A copy that the API server would accept equals the stored object.       *)
FreshCopies ==
  /\ w.pc # "idle" /\ w.fresh => w.copy = bmc[w.key]
  /\ sw.pc # "idle" /\ sw.fresh => sw.copy = bmc[sw.bmc]

(* The inductive invariant: FreshCopies alone is not inductive, because    *)
(* Reconcile takes its copy from the cache and because CreateBMC, which no *)
(* worker can have read before, outdates no copy.  CacheCurrent settles    *)
(* the one, TypeOK (a copy is of an object that exists) the other.         *)
VersionInv == TypeOK /\ CacheCurrent /\ FreshCopies

(* Steps that leave the versions alone.                                    *)
LEMMA OtherSteps ==
  ASSUME [Next]_cvars
  PROVE  \/ \E b \in Bmcs : CreateBMC(b) \/ EditBMC(b) \/ DeleteBMC(b) \/ DeliverBMC(b) \/ Reconcile(b)
         \/ ReconcileStep \/ ServiceStep \/ Restart
         \/ \E v \in VMs : ReconcileService(v)
         \/ UNCHANGED versions
<1>1. CASE \E v \in VMs : EditVM(v) \/ DeliverVM(v) \/ DeliverService(v)
  BY <1>1 DEF EditVM, DeliverVM, DeliverService, versions, objects, caches
<1>2. CASE \E s \in Secrets : EditSecret(s) \/ DeliverSecret(s) \/ Resync(s) \/ SecretEvent(s)
  BY <1>2 DEF EditSecret, DeliverSecret, Resync, SecretEvent, versions, objects, caches
<1>5. CASE SecretDelete \/ SecretReturn
  BY <1>5 DEF SecretDelete, SecretReturn, versions, objects, caches
<1>3. CASE \E v \in VMs : KubeletStart(v) \/ KubeletStop(v) \/ CollectGarbage(v)
  BY <1>3 DEF KubeletStart, KubeletStop, CollectGarbage, versions, caches
<1>4. CASE UNCHANGED cvars
  BY <1>4 DEF cvars, objects, caches, events, handler, versions
<1> QED
  BY <1>1, <1>2, <1>3, <1>4, <1>5 DEF Next, Users, HandleEvents

(* What a store changes.                                                   *)
LEMMA StoreChanges ==
  ASSUME TypeOK, NEW b \in Bmcs, NEW new, StoreBmc(b, new)
  PROVE  /\ bmc'[b] = new /\ \A c \in Bmcs \ {b} : bmc'[c] = bmc[c]
         /\ evBmc' = evBmc \cup {b}
  BY DEF StoreBmc, TypeOK

(* A store and its event keep the cache as current as it was.              *)
LEMMA StoreCache ==
  ASSUME TypeOK, CacheCurrent, NEW b \in Bmcs, NEW new, StoreBmc(b, new), cbmc' = cbmc
  PROVE  CacheCurrent'
  BY StoreChanges DEF CacheCurrent

(* The two halves of FreshCopies.                                          *)
FreshCopy == w \in BusyWorkers /\ w.fresh => w.copy = bmc[w.key]
FreshSvcCopy == sw \in BusySvcWorkers /\ sw.fresh => sw.copy = bmc[sw.bmc]

(* FreshCopies speaks of busy workers only, one half for each.             *)
LEMMA FreshHalves ==
  ASSUME TypeOK
  PROVE  FreshCopies <=> FreshCopy /\ FreshSvcCopy
  BY Busy DEF FreshCopies, FreshCopy, FreshSvcCopy

(* Outdating the copies of the object that is stored keeps the others.     *)
LEMMA OutdateFresh ==
  ASSUME TypeOK, FreshCopy, NEW b \in Bmcs, NEW new, StoreBmc(b, new), w' = Outdate(w, w.key = b)
  PROVE  FreshCopy'
<1>1. CASE w = IdleWorker
  <2>1. w' = IdleWorker
    <3>1. w.key # b
      BY <1>1, ClusterAssumption DEF IdleWorker
    <3> QED
      BY <1>1, <3>1 DEF Outdate
  <2>2. IdleWorker \notin BusyWorkers
    BY DEF IdleWorker, BusyWorkers
  <2> QED
    BY <2>1, <2>2 DEF FreshCopy
<1>2. CASE w \in BusyWorkers /\ w.key = b
  <2>1. w' = [w EXCEPT !.fresh = FALSE]
    BY <1>2 DEF Outdate
  <2>2. ~w'.fresh
    BY <1>2, <2>1 DEF BusyWorkers
  <2> QED
    BY <2>2 DEF FreshCopy
<1>3. CASE w \in BusyWorkers /\ w.key # b
  <2>1. w' = w /\ w.key \in Bmcs
    BY <1>3 DEF Outdate, BusyWorkers
  <2>2. bmc'[w.key] = bmc[w.key]
    BY <1>3, <2>1, StoreChanges
  <2> QED
    BY <2>1, <2>2 DEF FreshCopy
<1> QED
  BY <1>1, <1>2, <1>3 DEF TypeOK

(* Likewise for the copy of the Service controller.                        *)
LEMMA OutdateSvcFresh ==
  ASSUME TypeOK, FreshSvcCopy, NEW b \in Bmcs, NEW new, StoreBmc(b, new),
         sw' = Outdate(sw, sw.bmc = b)
  PROVE  FreshSvcCopy'
<1>1. CASE sw = IdleSvcWorker
  <2>1. sw' = IdleSvcWorker
    <3>1. sw.bmc # b
      BY <1>1, ClusterAssumption DEF IdleSvcWorker
    <3> QED
      BY <1>1, <3>1 DEF Outdate
  <2>2. IdleSvcWorker \notin BusySvcWorkers
    BY DEF IdleSvcWorker, BusySvcWorkers
  <2> QED
    BY <2>1, <2>2 DEF FreshSvcCopy
<1>2. CASE sw \in BusySvcWorkers /\ sw.bmc = b
  <2>1. sw' = [sw EXCEPT !.fresh = FALSE]
    BY <1>2 DEF Outdate
  <2>2. ~sw'.fresh
    BY <1>2, <2>1 DEF BusySvcWorkers
  <2> QED
    BY <2>2 DEF FreshSvcCopy
<1>3. CASE sw \in BusySvcWorkers /\ sw.bmc # b
  <2>1. sw' = sw /\ sw.bmc \in Bmcs
    BY <1>3 DEF Outdate, BusySvcWorkers
  <2>2. bmc'[sw.bmc] = bmc[sw.bmc]
    BY <1>3, <2>1, StoreChanges
  <2> QED
    BY <2>1, <2>2 DEF FreshSvcCopy
<1> QED
  BY <1>1, <1>2, <1>3 DEF TypeOK

(* An idle worker has no copy.                                             *)
LEMMA IdleFresh ==
  /\ w' = IdleWorker => FreshCopy'
  /\ sw' = IdleSvcWorker => FreshSvcCopy'
<1>1. IdleWorker \notin BusyWorkers /\ IdleSvcWorker \notin BusySvcWorkers
  BY DEF IdleWorker, BusyWorkers, IdleSvcWorker, BusySvcWorkers
<1> QED
  BY <1>1 DEF FreshCopy, FreshSvcCopy

(* A status update of the VirtualMachineBMC controller: its own copy is    *)
(* what it wrote.                                                          *)
LEMMA UpdateStatusFresh ==
  ASSUME TypeOK, CacheCurrent, FreshCopy, FreshSvcCopy, w \in BusyWorkers, NEW new, NEW label,
         UpdateStatus(new, label), cbmc' = cbmc
  PROVE  CacheCurrent' /\ FreshCopy' /\ FreshSvcCopy'
<1>0. w.key \in Bmcs
  BY DEF BusyWorkers
<1>1. CASE /\ StoreBmc(w.key, new)
           /\ w' = [w EXCEPT !.pc = label, !.copy = new]
           /\ sw' = Outdate(sw, sw.bmc = w.key)
  <2>1. w'.key = w.key /\ w'.copy = new /\ bmc'[w.key] = new
    BY <1>0, <1>1, StoreChanges DEF BusyWorkers
  <2> QED
    BY <1>0, <1>1, <2>1, StoreCache, OutdateSvcFresh DEF FreshCopy
<1>2. CASE w' = IdleWorker /\ UNCHANGED <<bmc, evBmc, sw>>
  BY <1>2, IdleFresh DEF CacheCurrent, FreshSvcCopy
<1> QED
  BY <1>1, <1>2 DEF UpdateStatus, Retry

(* A status update of the Service controller, which then returns or goes   *)
(* on with what it wrote.                                                  *)
LEMMA UpdateServiceStatusFresh ==
  ASSUME TypeOK, CacheCurrent, FreshCopy, FreshSvcCopy, sw \in BusySvcWorkers, NEW new, NEW next,
         next = IdleSvcWorker \/ (next.bmc = sw.bmc /\ next.copy = new),
         UpdateServiceStatus(new, next), cbmc' = cbmc
  PROVE  CacheCurrent' /\ FreshCopy' /\ FreshSvcCopy'
<1>0. sw.bmc \in Bmcs
  BY DEF BusySvcWorkers
<1>1. CASE /\ StoreBmc(sw.bmc, new) /\ w' = Outdate(w, w.key = sw.bmc)
           /\ sw' = next
  <2>1. bmc'[sw.bmc] = new
    BY <1>0, <1>1, StoreChanges
  <2>2. FreshSvcCopy'
    <3>1. CASE next = IdleSvcWorker
      BY <1>1, <3>1, IdleFresh
    <3>2. CASE next.bmc = sw.bmc /\ next.copy = new
      BY <1>1, <2>1, <3>2 DEF FreshSvcCopy
    <3> QED
      BY <3>1, <3>2
  <2> QED
    BY <1>0, <1>1, <2>2, StoreCache, OutdateFresh
<1>2. CASE sw.fresh /\ new = sw.copy /\ UNCHANGED <<bmc, evBmc, w>> /\ sw' = next
  <2>1. CASE next = IdleSvcWorker
    BY <1>2, <2>1, IdleFresh DEF CacheCurrent, FreshCopy
  <2>2. CASE next.bmc = sw.bmc /\ next.copy = new
    BY <1>2, <2>2 DEF CacheCurrent, FreshCopy, FreshSvcCopy
  <2> QED
    BY <2>1, <2>2
<1>3. CASE sw' = IdleSvcWorker /\ UNCHANGED <<bmc, evBmc, w>>
  BY <1>3, IdleFresh DEF CacheCurrent, FreshCopy
<1> QED
  BY <1>1, <1>2, <1>3 DEF UpdateServiceStatus

(* Every step preserves the inductive invariant.                           *)
LEMMA VersionStep == VersionInv /\ [Next]_cvars => VersionInv'
<1> SUFFICES ASSUME VersionInv, [Next]_cvars PROVE VersionInv'
  OBVIOUS
<1>T. TypeOK'
  BY TypeStep DEF VersionInv
<1> SUFFICES CacheCurrent' /\ FreshCopy' /\ FreshSvcCopy'
  <2>1. /\ w' \in BusyWorkers \/ w'.pc = "idle"
        /\ sw' \in BusySvcWorkers \/ sw'.pc = "idle"
    BY <1>T DEF TypeOK, IdleWorker, IdleSvcWorker
  <2>2. FreshCopy' /\ FreshSvcCopy' => FreshCopies'
    BY <2>1 DEF FreshCopies, FreshCopy, FreshSvcCopy
  <2> QED
    BY <1>T, <2>2 DEF VersionInv
<1>0. TypeOK /\ CacheCurrent /\ FreshCopy /\ FreshSvcCopy
  BY FreshHalves DEF VersionInv
<1>F. bmc \in [Bmcs -> LiveBmcs \cup {NoBmc}] /\ cbmc \in [Bmcs -> LiveBmcs \cup {NoBmc}]
  BY <1>0 DEF TypeOK
<1>1. ASSUME NEW b \in Bmcs, CreateBMC(b) PROVE CacheCurrent' /\ FreshCopy' /\ FreshSvcCopy'
  <2>1. PICK new : StoreBmc(b, new)
    BY <1>1 DEF CreateBMC
  <2>2. bmc[b].uid = 0 /\ UNCHANGED <<cbmc, w, sw>>
    BY <1>1 DEF CreateBMC, caches
  <2>3. bmc[b] \notin LiveBmcs
    BY <1>F, <2>2, LiveUid
  <2>4. FreshCopy'
    BY <1>0, <2>1, <2>2, <2>3, StoreChanges DEF FreshCopy, BusyWorkers
  <2>5. FreshSvcCopy'
    BY <1>0, <2>1, <2>2, <2>3, StoreChanges DEF FreshSvcCopy, BusySvcWorkers
  <2> QED
    BY <1>0, <2>1, <2>2, <2>4, <2>5, StoreCache
<1>2. ASSUME NEW b \in Bmcs, EditBMC(b) \/ DeleteBMC(b)
      PROVE  CacheCurrent' /\ FreshCopy' /\ FreshSvcCopy'
  <2>1. PICK new : StoreBmc(b, new)
    BY <1>2 DEF EditBMC, DeleteBMC
  <2>2. cbmc' = cbmc /\ w' = Outdate(w, w.key = b) /\ sw' = Outdate(sw, sw.bmc = b)
    BY <1>2 DEF EditBMC, DeleteBMC, caches
  <2> QED
    BY <1>0, <2>1, <2>2, StoreCache, OutdateFresh, OutdateSvcFresh
<1>3. ASSUME NEW b \in Bmcs, DeliverBMC(b) PROVE CacheCurrent' /\ FreshCopy' /\ FreshSvcCopy'
  <2>1. UNCHANGED <<bmc, w, sw>> /\ evBmc' = evBmc \ {b} /\ cbmc' = [cbmc EXCEPT ![b] = bmc[b]]
    BY <1>3 DEF DeliverBMC, objects
  <2>2. CacheCurrent'
    BY <1>0, <1>F, <2>1 DEF CacheCurrent
  <2> QED
    BY <1>0, <2>1, <2>2 DEF FreshCopy, FreshSvcCopy
<1>4. ASSUME NEW b \in Bmcs, Reconcile(b) PROVE CacheCurrent' /\ FreshCopy' /\ FreshSvcCopy'
  <2>1. UNCHANGED <<bmc, cbmc, evBmc, sw>>
    BY <1>4 DEF Reconcile, objects, caches, events, handler
  <2>2. FreshCopy'
    <3>1. CASE w' = IdleWorker
      BY <3>1, IdleFresh
    <3>2. CASE w' = [pc |-> "vm", key |-> b, copy |-> cbmc[b], fresh |-> b \notin evBmc,
                     vmOK |-> FALSE]
      <4>1. w'.key = b /\ w'.copy = cbmc[b] /\ (w'.fresh => b \notin evBmc)
        BY <3>2
      <4> QED
        BY <1>0, <2>1, <4>1 DEF FreshCopy, CacheCurrent
    <3> QED
      BY <1>4, <3>1, <3>2 DEF Reconcile
  <2> QED
    BY <1>0, <2>1, <2>2 DEF CacheCurrent, FreshSvcCopy
<1>5. CASE ReconcileStep
  <2>0. w \in BusyWorkers
    BY <1>0, <1>5, Busy DEF ReconcileStep, ValidateVirtualMachineExists, ValidateSecretExists,
                            DeleteVirtBMCPod, EnsureRBACResources, CreatePod, CreateService
  <2>1. ASSUME UNCHANGED <<bmc, cbmc, evBmc, sw>>,
               w' = IdleWorker \/ (w'.key = w.key /\ w'.copy = w.copy /\ w'.fresh = w.fresh)
        PROVE  CacheCurrent' /\ FreshCopy' /\ FreshSvcCopy'
    <3>1. CacheCurrent' /\ FreshSvcCopy'
      BY <1>0, <2>1 DEF CacheCurrent, FreshSvcCopy
    <3>2. CASE w' = IdleWorker
      BY <3>1, <3>2, IdleFresh
    <3>3. CASE w'.key = w.key /\ w'.copy = w.copy /\ w'.fresh = w.fresh
      BY <1>0, <2>0, <2>1, <3>1, <3>3 DEF FreshCopy
    <3> QED
      BY <2>1, <3>2, <3>3
  <2>2. ASSUME NEW label, Goto(label)
        PROVE  w'.key = w.key /\ w'.copy = w.copy /\ w'.fresh = w.fresh
    BY <2>0, <2>2 DEF Goto, BusyWorkers
  <2>3. CASE ValidateVirtualMachineExists
    <3>0. cbmc' = cbmc
      BY <2>3 DEF ValidateVirtualMachineExists, caches
    <3>1. CASE \E new : UpdateStatus(new, "secret")
      BY <1>0, <2>0, <3>0, <3>1, UpdateStatusFresh
    <3>2. CASE \E ok : w' = [w EXCEPT !.pc = "secret", !.vmOK = ok] /\ UNCHANGED <<bmc, evBmc, sw>>
      <4>1. w'.key = w.key /\ w'.copy = w.copy /\ w'.fresh = w.fresh
        BY <2>0, <3>2 DEF BusyWorkers
      <4> QED
        BY <2>1, <3>0, <3>2, <4>1
    <3> QED
      BY <2>3, <3>1, <3>2 DEF ValidateVirtualMachineExists
  <2>4. CASE ValidateSecretExists
    <3>0. cbmc' = cbmc
      BY <2>4 DEF ValidateSecretExists, caches
    <3>1. CASE \E new : UpdateStatus(new, "delete")
      BY <1>0, <2>0, <3>0, <3>1, UpdateStatusFresh
    <3>2. CASE \E label : w' = [w EXCEPT !.pc = label] /\ UNCHANGED <<bmc, evBmc, sw>>
      <4>1. w'.key = w.key /\ w'.copy = w.copy /\ w'.fresh = w.fresh
        BY <2>0, <3>2 DEF BusyWorkers
      <4> QED
        BY <2>1, <3>0, <3>2, <4>1
    <3> QED
      BY <2>4, <3>1, <3>2 DEF ValidateSecretExists
  <2>5. CASE DeleteVirtBMCPod \/ EnsureRBACResources \/ CreatePod \/ CreateService
    <3>1. UNCHANGED <<bmc, cbmc, evBmc, sw>>
      BY <2>5 DEF DeleteVirtBMCPod, EnsureRBACResources, CreatePod, CreateService, caches
    <3>2. w' = IdleWorker \/ \E label : Goto(label)
      BY <2>5 DEF DeleteVirtBMCPod, EnsureRBACResources, EnsureRBACResource, CreatePod, CreateService,
                  Retry
    <3> QED
      BY <2>1, <2>2, <3>1, <3>2
  <2> QED
    BY <1>5, <2>3, <2>4, <2>5 DEF ReconcileStep
<1>6. ASSUME NEW v \in VMs, ReconcileService(v) PROVE CacheCurrent' /\ FreshCopy' /\ FreshSvcCopy'
  <2>1. UNCHANGED <<bmc, cbmc, evBmc, w>>
    BY <1>6 DEF ReconcileService, objects, caches, events, handler
  <2>2. FreshSvcCopy'
    <3>1. CASE sw' = IdleSvcWorker
      BY <3>1, IdleFresh
    <3>2. CASE sw' = [pc |-> "ready", key |-> v, bmc |-> csvc[v].bmc, ip |-> <<v, csvc[v].uid>>,
                      copy |-> cbmc[csvc[v].bmc], fresh |-> csvc[v].bmc \notin evBmc]
      <4>1. /\ sw'.bmc = csvc[v].bmc /\ sw'.copy = cbmc[csvc[v].bmc]
            /\ sw'.fresh => csvc[v].bmc \notin evBmc
        BY <3>2
      <4>2. sw' \in BusySvcWorkers => sw'.bmc \in Bmcs
        BY DEF BusySvcWorkers
      <4> QED
        BY <1>0, <2>1, <4>1, <4>2 DEF FreshSvcCopy, CacheCurrent
    <3> QED
      BY <1>6, <3>1, <3>2 DEF ReconcileService
  <2> QED
    BY <1>0, <2>1, <2>2 DEF CacheCurrent, FreshCopy
<1>7. CASE SetReady
  <2>0. sw \in BusySvcWorkers /\ cbmc' = cbmc
    BY <1>0, <1>7, Busy DEF SetReady, caches
  <2> DEFINE new == [sw.copy EXCEPT !.ready = TRUE]
             next == [sw EXCEPT !.pc = "ip", !.copy = new]
  <2>1. CASE UpdateServiceStatus(new, next)
    <3> HIDE DEF new
    <3>1. next.bmc = sw.bmc /\ next.copy = new
      BY <2>0 DEF BusySvcWorkers
    <3> HIDE DEF next
    <3> QED
      BY <1>0, <2>0, <2>1, <3>1, UpdateServiceStatusFresh
  <2>2. CASE sw' = [sw EXCEPT !.pc = "ip"] /\ UNCHANGED <<bmc, evBmc, w>>
    <3>1. sw'.bmc = sw.bmc /\ sw'.copy = sw.copy /\ sw'.fresh = sw.fresh
      BY <2>0, <2>2 DEF BusySvcWorkers
    <3> QED
      BY <1>0, <2>0, <2>2, <3>1 DEF CacheCurrent, FreshCopy, FreshSvcCopy
  <2> QED
    BY <1>7, <2>1, <2>2 DEF SetReady
<1>8. CASE SetClusterIP
  <2>0. sw \in BusySvcWorkers /\ cbmc' = cbmc
    BY <1>0, <1>8, Busy DEF SetClusterIP, caches
  <2>1. PICK new : UpdateServiceStatus(new, IdleSvcWorker)
    BY <1>8 DEF SetClusterIP
  <2> QED
    BY <1>0, <2>0, <2>1, UpdateServiceStatusFresh
<1>9. CASE Restart
  <2>1. CacheCurrent'
    BY <1>9 DEF Restart, CacheCurrent, objects
  <2> QED
    BY <1>9, <2>1, IdleFresh DEF Restart
<1>10. CASE UNCHANGED versions
  BY <1>0, <1>10 DEF versions, CacheCurrent, FreshCopy, FreshSvcCopy
<1> QED
  BY <1>1, <1>2, <1>3, <1>4, <1>5, <1>6, <1>7, <1>8, <1>9, <1>10, OtherSteps DEF ServiceStep

(* The inductive invariant holds in every behaviour.                       *)
LEMMA VersionCorrect == Spec => []VersionInv
<1>1. Init => VersionInv
  <2> SUFFICES ASSUME Init PROVE VersionInv
    OBVIOUS
  <2>1. CacheCurrent
    BY DEF Init, CacheCurrent
  <2>2. FreshCopies
    BY DEF Init, FreshCopies, IdleWorker, IdleSvcWorker
  <2> QED
    BY <2>1, <2>2, TypeInit DEF VersionInv
<1> QED
  BY <1>1, VersionStep, PTL DEF Spec

-----------------------------------------------------------------------------
(* The status.                                                             *)

(* What must not be lost from one version of an object to the next.        *)
Kept(old, new) ==
  old.uid # 0 /\ new.uid = old.uid =>
    /\ old.ready => new.ready
    /\ old.ip # <<None, 0>> => new.ip # <<None, 0>>
    /\ old.vmCond # Unset => new.vmCond # Unset

(* What the workers write keeps the status they have read.                 *)
LEMMA WritesKeep ==
  ASSUME NEW x \in LiveBmcs
  PROVE  /\ Kept(x, x)
         /\ \A v, s : Kept(x, [x EXCEPT !.vm = v, !.secret = s])
         /\ \A c : c # Unset => Kept(x, [x EXCEPT !.vmCond = c])
         /\ \A c : Kept(x, [x EXCEPT !.secretCond = c])
         /\ Kept(x, [x EXCEPT !.ready = TRUE])
         /\ \A i : i # <<None, 0>> => Kept(x, [x EXCEPT !.ip = i])
  BY DEF Kept, LiveBmcs

(* Each step keeps the status of every object: the step that writes an     *)
(* object works on a copy equal to it.                                     *)
LEMMA StatusStep ==
  ASSUME VersionInv, [Next]_cvars, NEW b \in Bmcs
  PROVE  Kept(bmc[b], bmc'[b])
<1>0. TypeOK /\ FreshCopy /\ FreshSvcCopy
  BY FreshHalves DEF VersionInv
<1>F. bmc \in [Bmcs -> LiveBmcs \cup {NoBmc}]
  BY <1>0 DEF TypeOK
<1>1. CASE bmc'[b] = bmc[b] \/ bmc[b].uid = 0
  BY <1>1 DEF Kept
<1>2. ASSUME NEW c \in Bmcs, NEW new, StoreBmc(c, new), Kept(bmc[c], new)
      PROVE  Kept(bmc[b], bmc'[b])
  BY <1>0, <1>1, <1>2, StoreChanges
<1>3. ASSUME NEW c \in Bmcs, CreateBMC(c) PROVE Kept(bmc[b], bmc'[b])
  <2>1. PICK new : StoreBmc(c, new)
    BY <1>3 DEF CreateBMC
  <2>2. Kept(bmc[c], new)
    BY <1>3 DEF CreateBMC, Kept
  <2> QED
    BY <1>2, <2>1, <2>2
<1>4. ASSUME NEW c \in Bmcs, EditBMC(c) PROVE Kept(bmc[b], bmc'[b])
  <2>1. PICK v \in VMs, s \in Secrets : StoreBmc(c, [bmc[c] EXCEPT !.vm = v, !.secret = s])
    BY <1>4 DEF EditBMC
  <2>2. bmc[c] \in LiveBmcs
    BY <1>4, <1>F, LiveUid DEF EditBMC
  <2>3. Kept(bmc[c], [bmc[c] EXCEPT !.vm = v, !.secret = s])
    BY <2>2, WritesKeep
  <2> QED
    BY <1>2, <2>1, <2>3
<1>5. ASSUME NEW c \in Bmcs, DeleteBMC(c) PROVE Kept(bmc[b], bmc'[b])
  <2>1. Kept(bmc[c], NoBmc)
    BY DEF Kept, NoBmc, NewBmc
  <2> QED
    BY <1>2, <1>5, <2>1 DEF DeleteBMC
<1>6. ASSUME NEW new, NEW label, w \in BusyWorkers, UpdateStatus(new, label), Kept(w.copy, new)
      PROVE  Kept(bmc[b], bmc'[b])
  <2>1. CASE bmc' = bmc
    BY <1>1, <2>1
  <2>2. CASE w.fresh /\ StoreBmc(w.key, new)
    <3>1. w.key \in Bmcs /\ w.copy = bmc[w.key]
      BY <1>0, <1>6, <2>2 DEF FreshCopy, BusyWorkers
    <3> QED
      BY <1>2, <1>6, <2>2, <3>1
  <2> QED
    BY <1>6, <2>1, <2>2 DEF UpdateStatus
<1>7. ASSUME NEW new, NEW next, sw \in BusySvcWorkers, UpdateServiceStatus(new, next),
             Kept(sw.copy, new)
      PROVE  Kept(bmc[b], bmc'[b])
  <2>1. CASE bmc' = bmc
    BY <1>1, <2>1
  <2>2. CASE sw.fresh /\ StoreBmc(sw.bmc, new)
    <3>1. sw.bmc \in Bmcs /\ sw.copy = bmc[sw.bmc]
      BY <1>0, <1>7, <2>2 DEF FreshSvcCopy, BusySvcWorkers
    <3> QED
      BY <1>2, <1>7, <2>2, <3>1
  <2> QED
    BY <1>7, <2>1, <2>2 DEF UpdateServiceStatus
<1>8. CASE ValidateVirtualMachineExists
  <2>0. w \in BusyWorkers
    BY <1>0, <1>8, Busy DEF ValidateVirtualMachineExists
  <2>1. w.copy \in LiveBmcs /\ w.copy.vm \in VMs
    BY <2>0 DEF BusyWorkers, LiveBmcs
  <2> DEFINE c == [ok |-> w.copy.vm \in cvms, name |-> w.copy.vm]
  <2>2. c # Unset
    <3>1. c.name = w.copy.vm /\ Unset.name = None
      BY DEF Unset
    <3>2. w.copy.vm # None
      BY <2>1, ClusterAssumption
    <3> QED
      BY <3>1, <3>2
  <2>3. bmc' = bmc \/ UpdateStatus([w.copy EXCEPT !.vmCond = c], "secret")
    BY <1>8 DEF ValidateVirtualMachineExists
  <2> HIDE DEF c
  <2>4. Kept(w.copy, [w.copy EXCEPT !.vmCond = c])
    BY <2>1, <2>2, WritesKeep
  <2> QED
    BY <1>1, <1>6, <2>0, <2>3, <2>4
<1>9. CASE ValidateSecretExists
  <2>0. w \in BusyWorkers
    BY <1>0, <1>9, Busy DEF ValidateSecretExists
  <2>1. w.copy \in LiveBmcs
    BY <2>0 DEF BusyWorkers
  <2> DEFINE c == [ok |-> csec[w.copy.secret] # None, name |-> w.copy.secret]
  <2>2. bmc' = bmc \/ UpdateStatus([w.copy EXCEPT !.secretCond = c], "delete")
    BY <1>9 DEF ValidateSecretExists
  <2> HIDE DEF c
  <2>3. Kept(w.copy, [w.copy EXCEPT !.secretCond = c])
    BY <2>1, WritesKeep
  <2> QED
    BY <1>1, <1>6, <2>0, <2>2, <2>3
<1>10. CASE SetReady
  <2>0. sw \in BusySvcWorkers /\ sw.copy \in LiveBmcs
    BY <1>0, <1>10, Busy DEF SetReady, BusySvcWorkers
  <2>1. bmc' = bmc \/ \E next : UpdateServiceStatus([sw.copy EXCEPT !.ready = TRUE], next)
    BY <1>10 DEF SetReady
  <2>2. Kept(sw.copy, [sw.copy EXCEPT !.ready = TRUE])
    BY <2>0, WritesKeep
  <2> QED
    BY <1>1, <1>7, <2>0, <2>1, <2>2
<1>11. CASE SetClusterIP
  <2>0. sw \in BusySvcWorkers /\ sw.copy \in LiveBmcs /\ sw.ip \in VMs \X Nat
    BY <1>0, <1>11, Busy DEF SetClusterIP, BusySvcWorkers
  <2>1. sw.ip # <<None, 0>>
    BY <2>0, ClusterAssumption
  <2>2. UpdateServiceStatus([sw.copy EXCEPT !.ip = sw.ip], IdleSvcWorker)
    BY <1>11 DEF SetClusterIP
  <2>3. Kept(sw.copy, [sw.copy EXCEPT !.ip = sw.ip])
    BY <2>0, <2>1, WritesKeep
  <2> QED
    BY <1>7, <2>0, <2>2, <2>3
<1>12. CASE \/ \E c \in Bmcs : DeliverBMC(c) \/ Reconcile(c)
            \/ \E v \in VMs : ReconcileService(v)
            \/ DeleteVirtBMCPod \/ EnsureRBACResources \/ CreatePod \/ CreateService
            \/ Restart
            \/ UNCHANGED versions
  <2>1. bmc' = bmc
    BY <1>12 DEF DeliverBMC, Reconcile, ReconcileService, DeleteVirtBMCPod, EnsureRBACResources,
                 CreatePod, CreateService, Restart, versions, objects
  <2> QED
    BY <1>1, <2>1
<1> QED
  BY <1>3, <1>4, <1>5, <1>8, <1>9, <1>10, <1>11, <1>12, OtherSteps DEF ReconcileStep, ServiceStep

(* Although both controllers write the whole status of the object, neither *)
(* takes back what the other has put there, whatever users, failing calls  *)
(* and restarts do in between.                                             *)
THEOREM StatusCorrect == Spec => StatusNotLost
<1>1. ASSUME VersionInv, [Next]_cvars
      PROVE  [\A b \in Bmcs :
                Exists(b) /\ bmc'[b].uid = bmc[b].uid =>
                  /\ bmc[b].ready => bmc'[b].ready
                  /\ bmc[b].ip # <<None, 0>> => bmc'[b].ip # <<None, 0>>
                  /\ bmc[b].vmCond # Unset => bmc'[b].vmCond # Unset]_cvars
  <2>1. \A b \in Bmcs : Kept(bmc[b], bmc'[b])
    BY <1>1, StatusStep
  <2> QED
    BY <2>1 DEF Kept, Exists
<1> QED
  BY <1>1, VersionCorrect, PTL DEF Spec, StatusNotLost

-----------------------------------------------------------------------------
(* No wake-up is lost.                                                     *)

(* The other two caches lag behind only where an event is still to come.   *)
CachesCurrent ==
  /\ \A v \in VMs \ evVM : v \in cvms <=> v \in vms
  /\ \A s \in Secrets \ evSec : csec[s] = secrets[s]

(* The two halves of Truthful.                                             *)
MachineCond(b) == [ok |-> bmc[b].vm \in vms, name |-> bmc[b].vm]
SecretCond(b) == [ok |-> secrets[bmc[b].secret] # None, name |-> bmc[b].secret]
MachineTold(b) == bmc[b].vmCond = MachineCond(b)
SecretTold(b) == bmc[b].secretCond = SecretCond(b)

(* What is known of an object nothing is due for: both conditions are      *)
(* true or, while the worker is on it, the worker's copy is current and    *)
(* the conditions it has already looked at are true.                       *)
Progress(b) ==
  /\ w.key # b => MachineTold(b) /\ SecretTold(b)
  /\ w.key = b => /\ w.copy = bmc[b]
                  /\ w.pc # "vm" => MachineTold(b)
                  /\ w.pc \notin {"vm", "secret"} => SecretTold(b)

Settled == \A b \in Bmcs : Exists(b) /\ ~Due(b) => Progress(b)

(* The inductive invariant.                                                *)
WakeInv == VersionInv /\ CachesCurrent /\ Settled

(* Steps that take nothing off the events and the queue.                   *)
Announces ==
  /\ evVM \subseteq evVM' /\ evSec \subseteq evSec' /\ evBmc \subseteq evBmc'
  /\ \A s \in Secrets : onSec[s] # 0 => onSec'[s] # 0
  /\ h.hit \ h.seen \subseteq h'.hit \ h'.seen
  /\ queue \subseteq queue'

(* What changes in a step leaves an event behind.                          *)
Announced ==
  /\ \A b \in Bmcs : bmc'[b] = bmc[b] \/ b \in evBmc'
  /\ \A v \in VMs : (v \in vms' <=> v \in vms) \/ v \in evVM'
  /\ \A s \in Secrets : secrets'[s] = secrets[s] \/ s \in evSec'

(* A step takes something off them only where it is said to.               *)
Takes ==
  \/ \E b \in Bmcs : DeliverBMC(b) \/ Reconcile(b)
  \/ \E v \in VMs : DeliverVM(v)
  \/ \E s \in Secrets : DeliverSecret(s) \/ SecretEvent(s)
  \/ SecretReturn
  \/ Restart

(* Every change of an object is announced.                                 *)
LEMMA ChangesAnnounced ==
  ASSUME TypeOK, [Next]_cvars
  PROVE  Announced
<1>F. bmc \in [Bmcs -> LiveBmcs \cup {NoBmc}] /\ secrets \in [Secrets -> Passwords \cup {None}]
  BY DEF TypeOK
<1>1. ASSUME NEW b \in Bmcs, NEW new, StoreBmc(b, new), UNCHANGED <<vms, secrets>> PROVE Announced
  BY <1>1, StoreChanges DEF Announced
<1>2. ASSUME UNCHANGED <<vms, secrets, bmc>> PROVE Announced
  BY <1>2 DEF Announced
<1>3. ASSUME NEW b \in Bmcs, CreateBMC(b) \/ EditBMC(b) \/ DeleteBMC(b) PROVE Announced
  BY <1>1, <1>3 DEF CreateBMC, EditBMC, DeleteBMC
<1>4. ASSUME NEW v \in VMs, EditVM(v) PROVE Announced
  BY <1>4 DEF EditVM, Announced
<1>5. ASSUME NEW s \in Secrets, EditSecret(s) PROVE Announced
  BY <1>F, <1>5 DEF EditSecret, Announced
<1>6. CASE HandleEvents
  <2>1. UNCHANGED <<vms, secrets, bmc>>
    BY <1>6 DEF HandleEvents, DeliverBMC, DeliverVM, DeliverSecret, Resync, SecretEvent,
                  SecretDelete, SecretReturn, objects
  <2> QED
    BY <1>2, <2>1
<1>7. CASE \E b \in Bmcs : Reconcile(b)
  BY <1>2, <1>7 DEF Reconcile, objects
<1>8. CASE ValidateVirtualMachineExists \/ ValidateSecretExists
  <2>1. UNCHANGED <<vms, secrets>> /\ w.key \in Bmcs
    BY <1>8, Busy DEF ValidateVirtualMachineExists, ValidateSecretExists, BusyWorkers
  <2>2. bmc' = bmc \/ \E new : StoreBmc(w.key, new)
    BY <1>8 DEF ValidateVirtualMachineExists, ValidateSecretExists, UpdateStatus
  <2> QED
    BY <1>1, <1>2, <2>1, <2>2
<1>9. CASE DeleteVirtBMCPod \/ EnsureRBACResources \/ CreatePod \/ CreateService
  BY <1>2, <1>9 DEF DeleteVirtBMCPod, EnsureRBACResources, CreatePod, CreateService
<1>10. CASE ServiceStep
  <2>1. UNCHANGED <<vms, secrets>> /\ sw.bmc \in Bmcs
    BY <1>10, Busy DEF ServiceStep, SetReady, SetClusterIP, BusySvcWorkers
  <2>2. bmc' = bmc \/ \E new : StoreBmc(sw.bmc, new)
    BY <1>10 DEF ServiceStep, SetReady, SetClusterIP, UpdateServiceStatus
  <2> QED
    BY <1>1, <1>2, <2>1, <2>2
<1>11. CASE \E v \in VMs : DeliverService(v) \/ ReconcileService(v)
  BY <1>2, <1>11 DEF DeliverService, ReconcileService, objects
<1>12. CASE \E v \in VMs : KubeletStart(v) \/ KubeletStop(v) \/ CollectGarbage(v)
  BY <1>2, <1>12 DEF KubeletStart, KubeletStop, CollectGarbage
<1>13. CASE Restart
  BY <1>2, <1>13 DEF Restart, objects
<1>14. CASE UNCHANGED cvars
  BY <1>2, <1>14 DEF cvars, objects
<1> QED
  BY <1>3, <1>4, <1>5, <1>6, <1>7, <1>8, <1>9, <1>10, <1>11, <1>12, <1>13, <1>14
     DEF Next, Users, ReconcileStep

(* Nothing but the handlers, the worker and a restart takes an event or a  *)
(* key away, and nothing else changes the caches of machines and Secrets.  *)
LEMMA OthersAnnounce ==
  ASSUME TypeOK, [Next]_cvars, ~Takes
  PROVE  Announces /\ UNCHANGED <<cvms, csec>>
<1>1. CASE Users
  BY <1>1 DEF Users, CreateBMC, EditBMC, DeleteBMC, EditVM, EditSecret, StoreBmc, Announces, caches,
              handler
<1>2. CASE ValidateVirtualMachineExists \/ ValidateSecretExists
  <2>1. UNCHANGED <<caches, evVM, evSec, onSec, h>>
    BY <1>2 DEF ValidateVirtualMachineExists, ValidateSecretExists, handler
  <2>2. evBmc \subseteq evBmc' /\ queue \subseteq queue'
    BY <1>2 DEF ValidateVirtualMachineExists, ValidateSecretExists, UpdateStatus, StoreBmc, Retry,
                Enqueue
  <2> QED
    BY <2>1, <2>2 DEF Announces, caches
<1>3. CASE DeleteVirtBMCPod \/ EnsureRBACResources \/ CreatePod \/ CreateService
  <2>1. UNCHANGED <<caches, evVM, evSec, evBmc, onSec, h>>
    BY <1>3 DEF DeleteVirtBMCPod, EnsureRBACResources, CreatePod, CreateService, handler
  <2>2. \E more : Enqueue(more)
    BY <1>3 DEF DeleteVirtBMCPod, EnsureRBACResources, EnsureRBACResource, CreatePod, CreateService,
                Retry, Created
  <2> QED
    BY <2>1, <2>2 DEF Announces, Enqueue, caches
<1>4. CASE ServiceStep
  <2>1. UNCHANGED <<caches, evVM, evSec, onSec, h, queue>>
    BY <1>4 DEF ServiceStep, SetReady, SetClusterIP, handler
  <2>2. evBmc \subseteq evBmc'
    BY <1>4 DEF ServiceStep, SetReady, SetClusterIP, UpdateServiceStatus, StoreBmc
  <2> QED
    BY <2>1, <2>2 DEF Announces, caches
<1>5. CASE \E v \in VMs : DeliverService(v) \/ ReconcileService(v)
  BY <1>5 DEF DeliverService, ReconcileService, Announces, caches, events, handler
<1>6. CASE \E v \in VMs : KubeletStart(v) \/ KubeletStop(v) \/ CollectGarbage(v)
  <2>1. UNCHANGED <<caches, evVM, evSec, evBmc, onSec, h>>
    BY <1>6 DEF KubeletStart, KubeletStop, CollectGarbage, handler
  <2>2. \E more : Enqueue(more)
    BY <1>6 DEF KubeletStart, KubeletStop, CollectGarbage
  <2> QED
    BY <2>1, <2>2 DEF Announces, Enqueue, caches
<1>7. CASE UNCHANGED cvars
  BY <1>7 DEF cvars, caches, events, handler, Announces
<1>8. CASE \E s \in Secrets : Resync(s)
  BY <1>8 DEF Resync, Announces, caches, TypeOK
<1>9. CASE SecretDelete
  <2>1. UNCHANGED <<caches, evVM, evSec, evBmc, onSec>> /\ queue \subseteq queue'
    BY <1>9 DEF SecretDelete, Enqueue
  <2>2. PICK d \in h.todo : h' = [h EXCEPT !.todo = @ \ {d}]
    BY <1>9 DEF SecretDelete
  <2>3. h \in BusyHandlers
    BY <2>2 DEF TypeOK, IdleHandler
  <2>4. h'.hit = h.hit /\ h'.seen = h.seen
    BY <2>2, <2>3 DEF BusyHandlers
  <2> QED
    BY <2>1, <2>4 DEF Announces, caches
<1> QED
  BY <1>1, <1>2, <1>3, <1>4, <1>5, <1>6, <1>7, <1>8, <1>9
     DEF Next, ReconcileStep, HandleEvents, Takes

(* The caches of machines and Secrets stay current but for the events.     *)
LEMMA CachesStep ==
  ASSUME TypeOK, CachesCurrent, [Next]_cvars
  PROVE  CachesCurrent'
<1>0. csec \in [Secrets -> Passwords \cup {None}]
  BY DEF TypeOK
<1>1. CASE ~Takes
  <2>1. Announced /\ Announces /\ UNCHANGED <<cvms, csec>>
    BY <1>1, ChangesAnnounced, OthersAnnounce
  <2>2. \A v \in VMs \ evVM' : v \in cvms' <=> v \in vms'
    BY <2>1 DEF Announced, Announces, CachesCurrent
  <2>3. \A s \in Secrets \ evSec' : csec'[s] = secrets'[s]
    BY <2>1 DEF Announced, Announces, CachesCurrent
  <2> QED
    BY <2>2, <2>3 DEF CachesCurrent
<1>2. ASSUME NEW b \in Bmcs, DeliverBMC(b) \/ Reconcile(b) PROVE CachesCurrent'
  BY <1>2 DEF DeliverBMC, Reconcile, CachesCurrent, objects, caches, events, handler
<1>3. ASSUME NEW v \in VMs, DeliverVM(v) PROVE CachesCurrent'
  BY <1>3 DEF DeliverVM, CachesCurrent, objects
<1>4. ASSUME NEW s \in Secrets, DeliverSecret(s) PROVE CachesCurrent'
  BY <1>0, <1>4 DEF DeliverSecret, CachesCurrent, objects
<1>5. CASE (\E s \in Secrets : SecretEvent(s)) \/ SecretReturn
  BY <1>5 DEF SecretEvent, SecretReturn, CachesCurrent, objects, caches
<1>6. CASE Restart
  BY <1>6 DEF Restart, CachesCurrent, objects
<1> QED
  BY <1>1, <1>2, <1>3, <1>4, <1>5, <1>6 DEF Takes

(* When nothing is due for an object after a step, nothing was due before, *)
(* or the worker has just taken it from the queue: a handler looks its     *)
(* VirtualMachineBMCs up in the cache, and one that the cache has wrong    *)
(* has an event of its own to come.  The step has not changed the object,  *)
(* its machine or its Secret.                                              *)
LEMMA DueStep ==
  ASSUME TypeOK, CacheCurrent, [Next]_cvars, NEW b \in Bmcs, Exists(b)', ~Due(b)'
  PROVE  /\ ~Due(b) \/ Reconcile(b)
         /\ bmc'[b] = bmc[b] /\ bmc[b] \in LiveBmcs
         /\ bmc[b].vm \in vms' <=> bmc[b].vm \in vms
         /\ secrets'[bmc[b].secret] = secrets[bmc[b].secret]
<1>0. Announced
  BY ChangesAnnounced
<1>1. b \notin evBmc' /\ b \notin queue'
  BY DEF Due
<1>2. bmc'[b] = bmc[b]
  BY <1>0, <1>1 DEF Announced
<1>3. bmc[b] \in LiveBmcs
  BY <1>2, LiveUid DEF Exists, TypeOK
<1>4. bmc[b].vm \in VMs /\ bmc[b].secret \in Secrets
  BY <1>3 DEF LiveBmcs
<1>5. /\ bmc[b].vm \notin evVM' /\ bmc[b].secret \notin evSec' /\ onSec'[bmc[b].secret] = 0
      /\ b \notin h'.hit \ h'.seen
  BY <1>2 DEF Due
<1>6. /\ bmc[b].vm \in vms' <=> bmc[b].vm \in vms
      /\ secrets'[bmc[b].secret] = secrets[bmc[b].secret]
  BY <1>0, <1>4, <1>5 DEF Announced
<1>7. ~Due(b) \/ Reconcile(b)
  <2>1. CASE ~Takes
    <3>1. Announces
      BY <2>1, OthersAnnounce
    <3> QED
      BY <1>1, <1>4, <1>5, <3>1 DEF Announces, Due
  <2>2. ASSUME NEW c \in Bmcs, DeliverBMC(c) PROVE ~Due(b)
    <3>1. UNCHANGED <<evVM, evSec, onSec, h>> /\ evBmc' = evBmc \ {c} /\ queue' = queue \cup {c}
      BY <2>2 DEF DeliverBMC, Enqueue, handler
    <3> QED
      BY <1>1, <1>5, <3>1 DEF Due
  <2>3. ASSUME NEW c \in Bmcs, Reconcile(c) PROVE ~Due(b) \/ Reconcile(b)
    <3>1. UNCHANGED <<evVM, evSec, evBmc, onSec, h>> /\ queue' = queue \ {c}
      BY <2>3 DEF Reconcile, events, handler
    <3> QED
      BY <1>1, <1>5, <2>3, <3>1 DEF Due
  <2>4. ASSUME NEW v \in VMs, DeliverVM(v) PROVE ~Due(b)
    <3>1. /\ UNCHANGED <<evSec, evBmc, onSec, h>> /\ evVM' = evVM \ {v}
          /\ queue' = queue \cup {c \in Bmcs : cbmc[c].vm = v}
      BY <2>4 DEF DeliverVM, Enqueue, handler
    <3>2. cbmc[b] = bmc[b]
      BY <1>1, <3>1 DEF CacheCurrent
    <3> QED
      BY <1>1, <1>5, <3>1, <3>2 DEF Due
  <2>5. ASSUME NEW s \in Secrets, DeliverSecret(s) PROVE ~Due(b)
    <3>1. /\ UNCHANGED <<evVM, evBmc, h, queue>> /\ evSec' = evSec \ {s}
          /\ onSec'[s] # 0 /\ \A t \in Secrets : onSec[t] # 0 => onSec'[t] # 0
      BY <2>5 DEF DeliverSecret, TypeOK
    <3> QED
      BY <1>1, <1>4, <1>5, <3>1 DEF Due
  <2>6. ASSUME NEW s \in Secrets, SecretEvent(s) PROVE ~Due(b)
    <3>1. /\ UNCHANGED <<evVM, evSec, evBmc, queue>>
          /\ \A t \in Secrets \ {s} : onSec'[t] = onSec[t]
          /\ h'.hit = {c \in Bmcs : cbmc[c].secret = s} /\ h'.seen = {}
      BY <2>6 DEF SecretEvent, Find, TypeOK
    <3>2. cbmc[b] = bmc[b]
      BY <1>1, <3>1 DEF CacheCurrent
    <3>3. bmc[b].secret # s
      BY <1>5, <3>1, <3>2
    <3>4. h.hit = {}
      BY <2>6 DEF SecretEvent, TypeOK, BusyHandlers, IdleHandler
    <3> QED
      BY <1>1, <1>4, <1>5, <3>1, <3>3, <3>4 DEF Due
  <2>8. CASE SecretReturn
    <3>1. UNCHANGED <<evVM, evSec, evBmc, onSec>> /\ queue' = queue \cup (h.hit \ h.seen)
      BY <2>8 DEF SecretReturn, Enqueue
    <3> QED
      BY <1>1, <1>5, <3>1 DEF Due
  <2>7. ~Restart
    <3>1. Restart => b \in queue'
      BY <1>2 DEF Restart, Exists
    <3> QED
      BY <1>1, <3>1
  <2> QED
    BY <2>1, <2>2, <2>3, <2>4, <2>5, <2>6, <2>7, <2>8 DEF Takes
<1> QED
  BY <1>2, <1>3, <1>6, <1>7

(* A condition that was true of an object stays true of it while the       *)
(* object, its machine and its Secret stay.                                *)
LEMMA ToldStays ==
  ASSUME NEW b \in Bmcs, bmc'[b] = bmc[b],
         bmc[b].vm \in vms' <=> bmc[b].vm \in vms,
         secrets'[bmc[b].secret] = secrets[bmc[b].secret]
  PROVE  /\ MachineCond(b)' = MachineCond(b) /\ SecretCond(b)' = SecretCond(b)
         /\ MachineTold(b) => MachineTold(b)'
         /\ SecretTold(b) => SecretTold(b)'
<1>1. (bmc[b].vm \in vms') = (bmc[b].vm \in vms)
  OBVIOUS
<1>2. MachineCond(b)' = MachineCond(b)
  BY <1>1 DEF MachineCond
<1>3. SecretCond(b)' = SecretCond(b)
  BY DEF SecretCond
<1> QED
  BY <1>2, <1>3 DEF MachineTold, SecretTold

(* A worker that has no object works on none.                              *)
LEMMA KeyBusy ==
  ASSUME TypeOK, NEW b \in Bmcs
  PROVE  w.key = b => w \in BusyWorkers
  BY ClusterAssumption DEF TypeOK, IdleWorker

(* Where the worker can be after a step.                                   *)
LEMMA WorkerStep ==
  ASSUME TypeOK, [Next]_cvars
  PROVE  \/ \E b \in Bmcs : Reconcile(b)
         \/ ReconcileStep
         \/ Restart
         \/ w'.key = w.key /\ w'.copy = w.copy /\ w'.pc = w.pc
<1>1. ASSUME NEW b \in Bmcs, w' = Outdate(w, w.key = b)
      PROVE  w'.key = w.key /\ w'.copy = w.copy /\ w'.pc = w.pc
  <2>1. CASE w.key = b
    <3>1. w \in BusyWorkers
      BY <2>1, KeyBusy
    <3> QED
      BY <1>1, <2>1, <3>1 DEF Outdate, BusyWorkers
  <2>2. CASE w.key # b
    BY <1>1, <2>2 DEF Outdate
  <2> QED
    BY <2>1, <2>2
<1>2. CASE \E b \in Bmcs : CreateBMC(b) \/ DeliverBMC(b)
  BY <1>2 DEF CreateBMC, DeliverBMC
<1>3. CASE \E b \in Bmcs : EditBMC(b) \/ DeleteBMC(b)
  BY <1>1, <1>3 DEF EditBMC, DeleteBMC
<1>4. CASE ServiceStep
  <2>1. sw.bmc \in Bmcs
    BY <1>4, Busy DEF ServiceStep, SetReady, SetClusterIP, BusySvcWorkers
  <2>2. w' = w \/ w' = Outdate(w, w.key = sw.bmc)
    BY <1>4 DEF ServiceStep, SetReady, SetClusterIP, UpdateServiceStatus
  <2> QED
    BY <1>1, <2>1, <2>2
<1>5. CASE \E v \in VMs : ReconcileService(v)
  BY <1>5 DEF ReconcileService
<1>6. CASE UNCHANGED versions
  BY <1>6 DEF versions
<1> QED
  BY <1>2, <1>3, <1>4, <1>5, <1>6, OtherSteps

(* A step of Reconcile on an object nothing is due for, before or after:   *)
(* it has compared the conditions with what is the case, and found them    *)
(* true; otherwise it has written them, or has failed, and the object is   *)
(* due again.                                                              *)
LEMMA ReconcileProgress ==
  ASSUME TypeOK, CachesCurrent, ReconcileStep, NEW b \in Bmcs, bmc[b] \in LiveBmcs,
         w.key = b, Progress(b), ~Due(b), ~Due(b)'
  PROVE  \/ w' = IdleWorker /\ MachineTold(b) /\ SecretTold(b)
         \/ /\ w'.key = b /\ w'.copy = w.copy
            /\ w'.pc # "vm" => MachineTold(b)
            /\ w'.pc \notin {"vm", "secret"} => SecretTold(b)
<1>0. w \in BusyWorkers
  BY KeyBusy
<1>1. w.copy = bmc[b] /\ bmc[b].vm \in VMs /\ bmc[b].secret \in Secrets
  BY DEF Progress, LiveBmcs
<1>2. b \notin evBmc' /\ b \notin queue' /\ bmc[b].vm \notin evVM /\ bmc[b].secret \notin evSec
  BY DEF Due
<1>3. ~Retry
  BY <1>2 DEF Retry, Enqueue
<1>4. ASSUME NEW new, NEW label PROVE ~UpdateStatus(new, label)
  BY <1>2, <1>3 DEF UpdateStatus, StoreBmc
<1>5. CASE ValidateVirtualMachineExists
  <2> DEFINE c == [ok |-> w.copy.vm \in cvms, name |-> w.copy.vm]
  <2>1. c = MachineCond(b)
    <3>1. (bmc[b].vm \in cvms) = (bmc[b].vm \in vms)
      BY <1>1, <1>2 DEF CachesCurrent
    <3> QED
      BY <1>1, <3>1 DEF MachineCond
  <2>2. w.copy.vmCond = c /\ w' = [w EXCEPT !.pc = "secret", !.vmOK = c.ok]
    BY <1>4, <1>5 DEF ValidateVirtualMachineExists
  <2> HIDE DEF c
  <2>3. w'.key = w.key /\ w'.copy = w.copy /\ w'.pc = "secret"
    BY <1>0, <2>2 DEF BusyWorkers
  <2> QED
    BY <1>1, <2>1, <2>2, <2>3 DEF MachineTold
<1>6. CASE ValidateSecretExists
  <2> DEFINE c == [ok |-> csec[w.copy.secret] # None, name |-> w.copy.secret]
  <2>1. c = SecretCond(b)
    BY <1>1, <1>2 DEF SecretCond, CachesCurrent
  <2>2. w.copy.secretCond = c /\ w.pc = "secret"
    BY <1>4, <1>6 DEF ValidateSecretExists
  <2>3. \E label : w' = [w EXCEPT !.pc = label]
    BY <1>4, <1>6 DEF ValidateSecretExists
  <2> HIDE DEF c
  <2>4. w'.key = w.key /\ w'.copy = w.copy
    BY <1>0, <2>3 DEF BusyWorkers
  <2> QED
    BY <1>1, <2>1, <2>2, <2>4 DEF SecretTold, Progress
<1>7. CASE DeleteVirtBMCPod \/ EnsureRBACResources \/ CreatePod \/ CreateService
  <2>1. w.pc \notin {"vm", "secret"}
    BY <1>7 DEF DeleteVirtBMCPod, EnsureRBACResources, CreatePod, CreateService
  <2>2. MachineTold(b) /\ SecretTold(b)
    BY <2>1 DEF Progress
  <2>3. w' = IdleWorker \/ \E label : w' = [w EXCEPT !.pc = label]
    BY <1>7 DEF DeleteVirtBMCPod, EnsureRBACResources, EnsureRBACResource, CreatePod, CreateService,
                Retry, Goto
  <2> QED
    BY <1>0, <2>2, <2>3 DEF BusyWorkers
<1> QED
  BY <1>5, <1>6, <1>7 DEF ReconcileStep

(* A step of Reconcile stays with its object or ends.                      *)
LEMMA ReconcileKey ==
  ASSUME TypeOK, ReconcileStep
  PROVE  w' = IdleWorker \/ w'.key = w.key
<1>0. w \in BusyWorkers
  BY Busy DEF ReconcileStep, ValidateVirtualMachineExists, ValidateSecretExists,
              DeleteVirtBMCPod, EnsureRBACResources, CreatePod, CreateService
<1>1. CASE ValidateVirtualMachineExists \/ ValidateSecretExists
  <2>1. \/ w' = IdleWorker
        \/ \E label, new : w' = [w EXCEPT !.pc = label, !.copy = new]
        \/ \E label, ok : w' = [w EXCEPT !.pc = label, !.vmOK = ok]
        \/ \E label : w' = [w EXCEPT !.pc = label]
    BY <1>1 DEF ValidateVirtualMachineExists, ValidateSecretExists, UpdateStatus, Retry
  <2> QED
    BY <1>0, <2>1 DEF BusyWorkers
<1>2. CASE DeleteVirtBMCPod \/ EnsureRBACResources \/ CreatePod \/ CreateService
  <2>1. w' = IdleWorker \/ \E label : w' = [w EXCEPT !.pc = label]
    BY <1>2 DEF DeleteVirtBMCPod, EnsureRBACResources, EnsureRBACResource, CreatePod, CreateService,
                Retry, Goto
  <2> QED
    BY <1>0, <2>1 DEF BusyWorkers
<1> QED
  BY <1>1, <1>2 DEF ReconcileStep

(* Every step preserves the inductive invariant.                           *)
LEMMA WakeStep == WakeInv /\ [Next]_cvars => WakeInv'
<1> SUFFICES ASSUME WakeInv, [Next]_cvars PROVE WakeInv'
  OBVIOUS
<1>0. TypeOK /\ CacheCurrent /\ CachesCurrent
  BY DEF WakeInv, VersionInv
<1>1. VersionInv' /\ CachesCurrent'
  BY <1>0, VersionStep, CachesStep DEF WakeInv
<1>2. ASSUME NEW b \in Bmcs, Exists(b)', ~Due(b)' PROVE Progress(b)'
  <2>1. /\ ~Due(b) \/ Reconcile(b)
        /\ bmc'[b] = bmc[b] /\ bmc[b] \in LiveBmcs
        /\ bmc[b].vm \in vms' <=> bmc[b].vm \in vms
        /\ secrets'[bmc[b].secret] = secrets[bmc[b].secret]
    BY <1>0, <1>2, DueStep
  <2>2. /\ MachineTold(b) => MachineTold(b)'
        /\ SecretTold(b) => SecretTold(b)'
    BY <2>1, ToldStays
  <2>N. IdleWorker.key # b
    BY ClusterAssumption DEF IdleWorker
  <2>3. CASE Reconcile(b)
    <3>1. b \notin evBmc /\ bmc[b].uid # 0
      BY <1>2, <2>1, <2>3 DEF Reconcile, events, handler, Due, Exists
    <3>2. cbmc[b] = bmc[b]
      BY <1>0, <3>1 DEF CacheCurrent
    <3>3. w' = [pc |-> "vm", key |-> b, copy |-> cbmc[b], fresh |-> b \notin evBmc, vmOK |-> FALSE]
      BY <2>3, <3>1, <3>2 DEF Reconcile
    <3>4. w'.key = b /\ w'.copy = cbmc[b] /\ w'.pc = "vm"
      BY <3>3
    <3> QED
      BY <2>1, <3>2, <3>4 DEF Progress
  <2>4. CASE ~Reconcile(b)
    <3>0. ~Due(b) /\ Progress(b)
      BY <1>2, <2>1, <2>4 DEF WakeInv, Settled, Exists
    <3>1. CASE w'.key = w.key /\ w'.copy = w.copy /\ w'.pc = w.pc
      BY <2>1, <2>2, <3>0, <3>1 DEF Progress
    <3>2. ASSUME NEW c \in Bmcs, Reconcile(c) PROVE Progress(b)'
      <4>1. w.key # b
        BY <1>0, <3>2, KeyBusy, Busy DEF Reconcile
      <4>2. w'.key # b
        BY <2>4, <2>N, <3>2 DEF Reconcile
      <4> QED
        BY <2>2, <3>0, <4>1, <4>2 DEF Progress
    <3>3. CASE ReconcileStep /\ w.key # b
      <4>1. w'.key # b
        BY <1>0, <2>N, <3>3, ReconcileKey
      <4> QED
        BY <2>2, <3>0, <3>3, <4>1 DEF Progress
    <3>4. CASE ReconcileStep /\ w.key = b
      <4>1. \/ w' = IdleWorker /\ MachineTold(b) /\ SecretTold(b)
            \/ /\ w'.key = b /\ w'.copy = w.copy
               /\ w'.pc # "vm" => MachineTold(b)
               /\ w'.pc \notin {"vm", "secret"} => SecretTold(b)
        BY <1>0, <1>2, <2>1, <3>0, <3>4, ReconcileProgress
      <4>2. w.copy = bmc[b]
        BY <3>0, <3>4 DEF Progress
      <4> QED
        BY <2>1, <2>2, <2>N, <4>1, <4>2 DEF Progress
    <3>5. ~Restart
      <4>1. Restart => b \in queue'
        BY <1>2, <2>1 DEF Restart, Exists
      <4> QED
        BY <1>2, <4>1 DEF Due
    <3> QED
      BY <1>0, <3>1, <3>2, <3>3, <3>4, <3>5, WorkerStep
  <2> QED
    BY <2>3, <2>4
<1>3. Settled'
  BY <1>2 DEF Settled
<1> QED
  BY <1>1, <1>3 DEF WakeInv

(* However users, lagging caches, failing calls, conflicting writes and    *)
(* restarts of the manager interleave, a VirtualMachineBMC whose           *)
(* conditions are not true has an event, a queued key or the worker on the *)
(* way to it: for the conditions the controller's watches and retries are  *)
(* enough, and no periodic resync is needed.                               *)
THEOREM WakeupCorrect == Spec => []NoLostWakeup
<1>1. Init => WakeInv
  <2> SUFFICES ASSUME Init PROVE WakeInv
    OBVIOUS
  <2>1. VersionInv
    <3>1. CacheCurrent
      BY DEF Init, CacheCurrent
    <3>2. FreshCopies
      BY DEF Init, FreshCopies, IdleWorker, IdleSvcWorker
    <3> QED
      BY <3>1, <3>2, TypeInit DEF VersionInv
  <2>2. CachesCurrent
    BY DEF Init, CachesCurrent
  <2>3. Settled
    BY DEF Init, Settled, Exists, Due
  <2> QED
    BY <2>1, <2>2, <2>3 DEF WakeInv
<1>2. WakeInv => NoLostWakeup
  <2> SUFFICES ASSUME WakeInv, NEW b \in Bmcs, Exists(b), ~Due(b), w.key # b
               PROVE  Truthful(b)
    BY DEF NoLostWakeup
  <2>1. MachineTold(b) /\ SecretTold(b)
    BY DEF WakeInv, Settled, Progress
  <2> QED
    BY <2>1 DEF MachineTold, SecretTold, MachineCond, SecretCond, Truthful
<1> QED
  BY <1>1, <1>2, WakeStep, PTL DEF Spec
=============================================================================
