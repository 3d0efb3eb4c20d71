-------------------------- MODULE ServiceController --------------------------
(***************************************************************************)
(* The Service controller (src/internal/controller/service/controller.go): *)
(* copies a Service's ClusterIP into the status of the VirtualMachineBMC   *)
(* its label names and sets the Ready condition.  The API server assigns   *)
(* the ClusterIP when it creates the Service.                              *)
(***************************************************************************)
EXTENDS Cluster

(* For: an event of a Service enqueues it.                                 *)
DeliverService(v) ==
  /\ v \in evSvc
  /\ evSvc' = evSvc \ {v}
  /\ csvc' = [csvc EXCEPT ![v] = svc[v]]
  /\ queueSvc' = queueSvc \cup {v}
  /\ UNCHANGED <<objects, cvms, csec, cbmc, evVM, evSec, evBmc, handler,
                 queue, w, sw, bounds>>

(* Reconcile reads the Service and the VirtualMachineBMC from the cache;   *)
(* there is nothing to do when either is gone.                             *)
ReconcileService(v) ==
  /\ sw.pc = "idle"
  /\ v \in queueSvc
  /\ queueSvc' = queueSvc \ {v}
  /\ sw' = IF csvc[v] = NoOwner \/ (csvc[v] # NoOwner /\ cbmc[csvc[v].bmc].uid = 0)
           THEN IdleSvcWorker
           ELSE [pc |-> "ready", key |-> v, bmc |-> csvc[v].bmc, ip |-> <<v, csvc[v].uid>>,
                 copy |-> cbmc[csvc[v].bmc], fresh |-> csvc[v].bmc \notin evBmc]
  /\ UNCHANGED <<objects, caches, events, queue, w, bounds>>

(* s.Status().Update with the version that was read.  Writing what is      *)
(* already stored makes no new version.                                    *)
UpdateServiceStatus(new, next) ==
  \/ /\ sw.fresh
     /\ \/ new # sw.copy /\ StoreBmc(sw.bmc, new) /\ w' = Outdate(w, w.key = sw.bmc)
        \/ new = sw.copy /\ UNCHANGED <<bmc, evBmc, w>>
     /\ sw' = next
     /\ UNCHANGED <<queueSvc, faults>>
  \/ /\ (~sw.fresh /\ UNCHANGED faults) \/ ApiError
     /\ sw' = IdleSvcWorker
     /\ queueSvc' = queueSvc \cup {sw.key}
     /\ UNCHANGED <<bmc, evBmc, w>>

(* The Ready condition, written when it changes.                           *)
SetReady ==
  /\ sw.pc = "ready"
  /\ LET new == [sw.copy EXCEPT !.ready = TRUE]
     IN \/ /\ ~sw.copy.ready
           /\ UpdateServiceStatus(new, [sw EXCEPT !.pc = "ip", !.copy = new])
        \/ /\ sw.copy.ready
           /\ sw' = [sw EXCEPT !.pc = "ip"]
           /\ UNCHANGED <<bmc, evBmc, w, queueSvc, faults>>
  /\ UNCHANGED <<vms, secrets, pod, svc, rbac, caches, evVM, evSec, evSvc, handler,
                 queue, uids, edits>>

(* The ClusterIP, written always, and Reconcile returns.                   *)
SetClusterIP ==
  /\ sw.pc = "ip"
  /\ UpdateServiceStatus([sw.copy EXCEPT !.ip = sw.ip], IdleSvcWorker)
  /\ UNCHANGED <<vms, secrets, pod, svc, rbac, caches, evVM, evSec, evSvc, handler,
                 queue, uids, edits>>

ServiceStep == SetReady \/ SetClusterIP
=============================================================================
