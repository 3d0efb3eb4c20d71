------------------------------ MODULE AtomicBmc ------------------------------
(***************************************************************************)
(* What the agent promises its BMC clients about the VirtualMachine object *)
(* and its instance: a request takes effect at most once, in one atomic    *)
(* step on the object as it then is; a request answered "ok" has taken     *)
(* effect between its arrival and its answer; a request answered "error"   *)
(* may or may not have taken effect; nothing else a client does changes    *)
(* the object.  KubeVirt and users change the rest of the object at will,  *)
(* but never the CD-ROM's DataVolume.                                      *)
(***************************************************************************)
EXTENDS VirtualMachine

CONSTANTS Requests  \* the slots in which requests are served

VARIABLES
  vm,     \* the VirtualMachine object
  vmi,    \* does its VirtualMachineInstance exist?
  op,     \* the operation of the request in each slot ("none": no request)
  phase   \* "idle", "pending", "applied", or the answer "ok" or "error"

vars == <<vm, vmi, op, phase>>

Init ==
  /\ vm \in VM
  /\ vmi \in BOOLEAN
  /\ op = [r \in Requests |-> "none"]
  /\ phase = [r \in Requests |-> "idle"]

Invoke(r) ==
  /\ phase[r] = "idle"
  /\ \E o \in AllOps : op' = [op EXCEPT ![r] = o]
  /\ phase' = [phase EXCEPT ![r] = "pending"]
  /\ UNCHANGED <<vm, vmi>>

(* The request takes effect; its answer may follow at once, later, or be   *)
(* an error although the effect took place.                                *)
Apply(r) ==
  /\ phase[r] = "pending"
  /\ Applicable(op[r], vm)
  /\ op[r] = "PowerCycle" => vmi
  /\ vm' = Effect(op[r], vm)
  /\ vmi' = (vmi /\ op[r] # "PowerCycle")
  /\ \E p \in {"applied", "ok", "error"} : phase' = [phase EXCEPT ![r] = p]
  /\ UNCHANGED op

Fail(r) ==
  /\ phase[r] \in {"pending", "applied"}
  /\ phase' = [phase EXCEPT ![r] = "error"]
  /\ UNCHANGED <<vm, vmi, op>>

Succeed(r) ==
  /\ phase[r] = "applied"
  /\ phase' = [phase EXCEPT ![r] = "ok"]
  /\ UNCHANGED <<vm, vmi, op>>

Ack(r) ==
  /\ phase[r] \in {"ok", "error"}
  /\ phase' = [phase EXCEPT ![r] = "idle"]
  /\ op' = [op EXCEPT ![r] = "none"]
  /\ UNCHANGED <<vm, vmi>>

(* The agent crashes: every request is forgotten.                          *)
Crash ==
  /\ phase' = [r \in Requests |-> "idle"]
  /\ op' = [r \in Requests |-> "none"]
  /\ UNCHANGED <<vm, vmi>>

(* KubeVirt and users.                                                     *)
Environment ==
  /\ vm' \in VM
  /\ vm'.cdrom = vm.cdrom
  /\ vmi' \in BOOLEAN
  /\ UNCHANGED <<op, phase>>

Next ==
  \/ \E r \in Requests : Invoke(r) \/ Apply(r) \/ Fail(r) \/ Succeed(r) \/ Ack(r)
  \/ Crash
  \/ Environment

Spec == Init /\ [][Next]_vars
=============================================================================
