--------------------------- MODULE ResourceManager ---------------------------
(***************************************************************************)
(* The virtbmc agent's resource manager                                    *)
(* (src/pkg/resourcemanager/virtualmachine_resourcemanager.go), serving    *)
(* several BMC requests at a time.  Every call to the API server and every *)
(* write to the agent's unsynchronised in-memory resources is a step of    *)
(* its own, so that the goroutines interleave as they do in the program.   *)
(*                                                                         *)
(* The API server's resourceVersion is represented by fresh[r]: "the       *)
(* object has not changed since request r read it".  An Update carries the *)
(* version of the object that was read, so it is accepted only when        *)
(* fresh[r] holds; this needs no counter and keeps the model finite.       *)
(***************************************************************************)
EXTENDS VirtualMachine

CONSTANTS
  Requests,   \* the goroutines in which requests are served
  Ops,        \* the operations that clients request
  Images,     \* the image URLs that clients insert
  NoImage,    \* the empty URL, and "there is no DataVolume"
  Policies,   \* the run strategies users choose ("nil": they set Running)
  MaxOrder,   \* bound on the boot orders users choose
  Faults      \* what the environment does: subset of AllFaults

AllFaults == {"error",      \* an API call or the HEAD request fails, nothing done
              "lost",       \* an API call is carried out but its answer is an error
              "crash",      \* the agent's process is killed or cannot bind its ports
              "interrupt",  \* the agent's process is interrupted (SIGINT)
              "edit"}       \* users edit the VirtualMachine object

ASSUME RequestAssumption ==
  /\ Ops \subseteq AllOps
  /\ Images # {}
  /\ NoImage \notin Images
  /\ Policies \subseteq Strategies /\ Policies # {}
  /\ MaxOrder \in Nat
  /\ Faults \subseteq AllFaults

VARIABLES
  vm,      \* the VirtualMachine object in the API server
  vmi,     \* does its VirtualMachineInstance exist?
  dv,      \* image of the DataVolume named after the machine, NoImage if none
  up,      \* the agent is initialised and serves requests
  ctx,     \* m.ctx has not been cancelled
  cs,      \* m.computerSystem: power state and boot override
  media,   \* m.virtualMedia: image, inserted, connected via
  pc,      \* where each request is
  op,      \* its operation
  arg,     \* its image URL
  snap,    \* its copy of the VirtualMachine object
  fresh,   \* is the version of that copy still the current one?
  out      \* the power state in its reply

vars == <<vm, vmi, dv, up, ctx, cs, media, pc, op, arg, snap, fresh, out>>
cluster == <<vm, vmi, dv>>
process == <<up, ctx>>
cache == <<process, cs, media>>
locals == <<op, arg, snap, out>>

Power(b) == IF b THEN "On" ELSE "Off"

PCs == {"idle", "get", "head", "createDV", "updateVM", "deleteDV", "deleteVMI",
        "setImage", "setInserted", "setVia", "setEnabled", "setTarget",
        "setPower", "encode", "encodeMedia", "ok", "error", "panic"}

(* The shared resources: what their setters can make of them.              *)
ComputerSystem == [power : {"On", "Off"}, enabled : {"Disabled", "Continuous"},
                   target : {"Pxe", "Hdd", ""}]
VirtualMedia == [image : Images \cup {NoImage}, inserted : BOOLEAN,
                 via : {"URI", "NotConnected"}]

(* NewComputerSystem and NewVirtualMedia.                                  *)
NewComputerSystem(power) == [power |-> power, enabled |-> "Disabled", target |-> "Hdd"]
NewVirtualMedia == [image |-> NoImage, inserted |-> FALSE, via |-> "NotConnected"]

(* A machine that users have created: exactly one of Running and           *)
(* RunStrategy is set, as KubeVirt's admission demands.                    *)
ValidRun(s) == (s.strategy = "nil") # (s.running = "nil")
RunConfigs == {c \in [strategy : Policies, running : RunningValues] : ValidRun(c)}
BootConfigs == [intf : [1..NumIntf -> 0..MaxOrder], disk : [1..NumDisk -> 0..MaxOrder]]

WithRun(s, c) == [s EXCEPT !.strategy = c.strategy, !.running = c.running]
WithForeign(s, f) == [s EXCEPT !.foreign = f]
WithBoot(s, b) == [s EXCEPT !.intf = b.intf, !.disk = b.disk]

(* A boot order is given to one device at most (KubeVirt's admission).     *)
DistinctOrders(s) ==
  /\ \A i, j \in 1..NumIntf : s.intf[i] # 0 /\ s.intf[i] = s.intf[j] => i = j
  /\ \A i, j \in 1..NumDisk : s.disk[i] # 0 /\ s.disk[i] = s.disk[j] => i = j
  /\ \A i \in 1..NumIntf, j \in 1..NumDisk : s.intf[i] # 0 => s.intf[i] # s.disk[j]

BlankVM == [strategy |-> "Halted", running |-> "nil",
            intf |-> [i \in 1..NumIntf |-> 0], disk |-> [i \in 1..NumDisk |-> 0],
            cdrom |-> 0, foreign |-> FALSE, ready |-> FALSE]

Init ==
  /\ \E c \in RunConfigs : vm = WithRun(BlankVM, c)
  /\ vmi = FALSE
  /\ dv = NoImage
  /\ up = FALSE
  /\ ctx = TRUE
  /\ cs = NewComputerSystem("Off")
  /\ media = NewVirtualMedia
  /\ pc = [r \in Requests |-> "idle"]
  /\ op = [r \in Requests |-> "none"]
  /\ arg = [r \in Requests |-> NoImage]
  /\ snap = [r \in Requests |-> BlankVM]
  /\ fresh = [r \in Requests |-> FALSE]
  /\ out = [r \in Requests |-> "none"]

-----------------------------------------------------------------------------
(* Steps of the API server and of the requests.                            *)

(* The API server stores a new version of the object; storing what is      *)
(* already there makes no new version.                                     *)
StoreVM(new) ==
  /\ vm' = new
  /\ fresh' = IF new = vm THEN fresh ELSE [r \in Requests |-> FALSE]

(* KubeVirt's admission: no two volumes of a machine have the same name.   *)
Admitted(new) == new.foreign => new.cdrom = 0

(* How a call to the API server can end.  It carries m.ctx: once that is   *)
(* cancelled no call succeeds, but one that was under way may have been    *)
(* carried out all the same.                                               *)
Succeeds == ctx
FailsUndone == "error" \in Faults \/ ~ctx
FailsDone == "lost" \in Faults \/ ~ctx

Goto(r, label) == pc' = [pc EXCEPT ![r] = label]

(* Mutant: EjectMedia deletes the DataVolume before it detaches it.        *)
AfterGetDeleteFirst(o) ==
  CASE o = "Insert"    -> "head"
    [] o = "Eject"     -> "deleteDV"
    [] o = "GetPower"  -> "ok"
    [] o = "GetSystem" -> "setPower"
    [] OTHER           -> "updateVM"

(* Where an operation goes once it has read the machine.                   *)
AfterGet(o) ==
  CASE o = "Insert"    -> "head"
    [] o = "GetPower"  -> "ok"
    [] o = "GetSystem" -> "setPower"
    [] OTHER           -> "updateVM"

(* Mutant: InsertMedia leaves the virtual media resource alone.            *)
AfterUpdateNoMedia(o) ==
  CASE o = "Eject"    -> "deleteDV"
    [] o \in BootOps  -> "setEnabled"
    [] OTHER          -> "ok"

(* Where it goes once its update of the machine has been accepted.         *)
AfterUpdate(o) ==
  CASE o = "Insert"   -> "setImage"
    [] o = "Eject"    -> "deleteDV"
    [] o \in BootOps  -> "setEnabled"
    [] OTHER          -> "ok"

(* The first point of an operation: PowerCycle reads nothing first,        *)
(* GetVirtualMedia makes no API call.                                      *)
FirstStep(o) ==
  CASE o = "PowerCycle" -> "deleteVMI"
    [] o = "GetMedia"   -> "encodeMedia"
    [] OTHER            -> "get"

(* A handler calls the operation o, with the image i.                      *)
Call(r, o, i) ==
  /\ up
  /\ pc[r] = "idle"
  /\ op' = [op EXCEPT ![r] = o]
  /\ arg' = [arg EXCEPT ![r] = i]
  /\ Goto(r, FirstStep(o))
  /\ UNCHANGED <<cluster, cache, snap, fresh, out>>

Arguments(o) == IF o = "Insert" THEN Images ELSE {NoImage}

(* A request arrives; the agent listens only once it is initialised.       *)
Receive(r) == \E o \in Ops : \E i \in Arguments(o) : Call(r, o, i)

(* VirtualMachines(ns).Get and the checks on what it returned.             *)
GetVM(r) ==
  /\ pc[r] = "get"
  /\ \/ /\ Succeeds
        /\ Applicable(op[r], vm)
        /\ Goto(r, AfterGet(op[r]))
        /\ snap' = [snap EXCEPT ![r] = vm]
        /\ fresh' = [fresh EXCEPT ![r] = TRUE]
        /\ out' = IF op[r] = "GetPower" THEN [out EXCEPT ![r] = Power(vm.ready)] ELSE out
     \/ /\ Succeeds
        /\ Panics(op[r], vm)
        /\ Goto(r, "panic")
        /\ UNCHANGED <<snap, fresh, out>>
     \/ /\ ~(Applicable(op[r], vm) \/ Panics(op[r], vm)) \/ FailsUndone
        /\ Goto(r, "error")
        /\ UNCHANGED <<snap, fresh, out>>
  /\ UNCHANGED <<cluster, cache, op, arg>>

(* GetRemoteFileSize: a HEAD request to the image's server, with a timeout *)
(* of its own in place of m.ctx.                                           *)
GetRemoteFileSize(r) ==
  /\ pc[r] = "head"
  /\ \/ Goto(r, "createDV")
     \/ "error" \in Faults /\ Goto(r, "error")
  /\ UNCHANGED <<cluster, cache, locals, fresh>>

(* Mutant: a DataVolume that already exists is taken for a success.        *)
CreateDVIgnoreExists(r) ==
  /\ pc[r] = "createDV"
  /\ dv' = IF dv = NoImage THEN arg[r] ELSE dv
  /\ Goto(r, "updateVM")
  /\ UNCHANGED <<vm, vmi, cache, locals, fresh>>

(* DataVolumes(ns).Create of the DataVolume that carries the machine's     *)
(* name: AlreadyExists is an error like any other.                         *)
CreateDV(r) ==
  /\ pc[r] = "createDV"
  /\ \/ /\ dv = NoImage
        /\ dv' = arg[r]
        /\ (Succeeds /\ Goto(r, "updateVM")) \/ (FailsDone /\ Goto(r, "error"))
     \/ /\ dv # NoImage \/ FailsUndone
        /\ Goto(r, "error")
        /\ UNCHANGED dv
  /\ UNCHANGED <<vm, vmi, cache, locals, fresh>>

(* Mutant: the copy is written without the version that was read.          *)
UpdateVMBlind(r) ==
  /\ pc[r] = "updateVM"
  /\ StoreVM(Effect(op[r], snap[r]))
  /\ Goto(r, AfterUpdate(op[r]))
  /\ snap' = [snap EXCEPT ![r] = BlankVM]
  /\ UNCHANGED <<vmi, dv, cache, op, arg, out>>

(* Mutant: the error of a conflicting update is ignored.                   *)
UpdateVMSwallowError(r) ==
  /\ pc[r] = "updateVM"
  /\ \/ fresh[r] /\ StoreVM(Effect(op[r], snap[r]))
     \/ ~fresh[r] /\ UNCHANGED <<vm, fresh>>
  /\ Goto(r, AfterUpdate(op[r]))
  /\ snap' = [snap EXCEPT ![r] = BlankVM]
  /\ UNCHANGED <<vmi, dv, cache, op, arg, out>>

(* VirtualMachines(ns).Update of the copy, with the version that was read: *)
(* Conflict when the object has changed since, an error when admission     *)
(* refuses it; there is no retry, and the copy is not used again.          *)
UpdateVM(r) ==
  /\ pc[r] = "updateVM"
  /\ \/ /\ fresh[r]
        /\ Admitted(Effect(op[r], snap[r]))
        /\ StoreVM(Effect(op[r], snap[r]))
        /\ (Succeeds /\ Goto(r, AfterUpdate(op[r]))) \/ (FailsDone /\ Goto(r, "error"))
     \/ /\ ~fresh[r] \/ ~Admitted(Effect(op[r], snap[r])) \/ FailsUndone
        /\ Goto(r, "error")
        /\ UNCHANGED <<vm, fresh>>
  /\ snap' = [snap EXCEPT ![r] = BlankVM]
  /\ UNCHANGED <<vmi, dv, cache, op, arg, out>>

(* DataVolumes(ns).Delete, after the volume has been taken off the machine.*)
DeleteDV(r) ==
  /\ pc[r] = "deleteDV"
  /\ \/ /\ dv # NoImage
        /\ dv' = NoImage
        /\ (Succeeds /\ Goto(r, "setImage")) \/ (FailsDone /\ Goto(r, "error"))
     \/ /\ dv = NoImage \/ FailsUndone
        /\ Goto(r, "error")
        /\ UNCHANGED dv
  /\ UNCHANGED <<vm, vmi, cache, locals, fresh>>

(* PowerCycle: VirtualMachineInstances(ns).Delete, NotFound is an error.   *)
DeleteVMI(r) ==
  /\ pc[r] = "deleteVMI"
  /\ \/ /\ vmi
        /\ vmi' = FALSE
        /\ (Succeeds /\ Goto(r, "ok")) \/ (FailsDone /\ Goto(r, "error"))
     \/ /\ ~vmi \/ FailsUndone
        /\ Goto(r, "error")
        /\ UNCHANGED vmi
  /\ UNCHANGED <<vm, dv, cache, locals, fresh>>

(* SetVirtualMedia: three writes to the shared resource, without a lock.   *)
SetVirtualMedia(r) ==
  /\ \/ /\ pc[r] = "setImage"
        /\ media' = [media EXCEPT !.image = arg[r]]
        /\ Goto(r, "setInserted")
     \/ /\ pc[r] = "setInserted"
        /\ media' = [media EXCEPT !.inserted = (op[r] = "Insert")]
        /\ Goto(r, "setVia")
     \/ /\ pc[r] = "setVia"
        /\ media' = [media EXCEPT !.via = IF op[r] = "Insert" THEN "URI" ELSE "NotConnected"]
        /\ Goto(r, "ok")
  /\ UNCHANGED <<cluster, process, cs, locals, fresh>>

(* Mutant: the device's name is used as the boot source.                   *)
BootSourceCast(o) == o

(* bootSourceMap[bootDevice]: the empty string for any other device.       *)
BootSource(o) ==
  CASE o = "BootPxe" -> "Pxe"
    [] o = "BootHdd" -> "Hdd"
    [] OTHER         -> ""

(* SetBootOverride: two writes.                                            *)
SetBootOverride(r) ==
  /\ \/ /\ pc[r] = "setEnabled"
        /\ cs' = [cs EXCEPT !.enabled = "Continuous"]
        /\ Goto(r, "setTarget")
     \/ /\ pc[r] = "setTarget"
        /\ cs' = [cs EXCEPT !.target = BootSource(op[r])]
        /\ Goto(r, "ok")
  /\ UNCHANGED <<cluster, process, media, locals, fresh>>

(* GetComputerSystem: refresh the shared resource's power state.           *)
SetPowerState(r) ==
  /\ pc[r] = "setPower"
  /\ cs' = [cs EXCEPT !.power = Power(snap[r].ready)]
  /\ Goto(r, "encode")
  /\ UNCHANGED <<cluster, process, media, locals, fresh>>

(* The HTTP layer encodes the shared resource it was handed a pointer to.  *)
Encode(r) ==
  /\ pc[r] \in {"encode", "encodeMedia"}
  /\ out' = IF op[r] = "GetSystem" THEN [out EXCEPT ![r] = cs.power] ELSE out
  /\ Goto(r, "ok")
  /\ UNCHANGED <<cluster, cache, op, arg, snap, fresh>>

(* The goroutine of a request has ended, its locals are gone.              *)
Forget(r) ==
  /\ Goto(r, "idle")
  /\ op' = [op EXCEPT ![r] = "none"]
  /\ arg' = [arg EXCEPT ![r] = NoImage]
  /\ snap' = [snap EXCEPT ![r] = BlankVM]
  /\ fresh' = [fresh EXCEPT ![r] = FALSE]
  /\ out' = [out EXCEPT ![r] = "none"]
  /\ UNCHANGED <<cluster, cache>>

(* The reply has reached the client.                                       *)
Ack(r) == pc[r] \in {"ok", "error"} /\ Forget(r)

(* net/http recovers a handler's panic: the client gets no reply.          *)
Recover(r) == pc[r] = "panic" /\ Forget(r)

-----------------------------------------------------------------------------
(* The agent's process.                                                    *)

(* Initialize: the resources are built anew from the machine's status.  If *)
(* the Get fails the process exits and the kubelet starts it again.        *)
Initialize ==
  /\ ~up
  /\ up' = TRUE
  /\ ctx' = TRUE
  /\ cs' = NewComputerSystem(Power(vm.ready))
  /\ media' = NewVirtualMedia
  /\ UNCHANGED <<cluster, pc, locals, fresh>>

(* SIGINT cancels the context that every API call carries.                 *)
Cancel ==
  /\ "interrupt" \in Faults
  /\ up
  /\ ctx
  /\ ctx' = FALSE
  /\ UNCHANGED <<cluster, up, cs, media, pc, locals, fresh>>

(* The process ends: it is killed, it has stopped after an interrupt, or   *)
(* the IPMI server's goroutine panics.  Its memory and the requests in it  *)
(* are gone.                                                               *)
Crash ==
  /\ up
  /\ "crash" \in Faults \/ ~ctx \/ \E r \in Requests : pc[r] = "panic"
  /\ up' = FALSE
  /\ pc' = [r \in Requests |-> "idle"]
  /\ op' = [r \in Requests |-> "none"]
  /\ arg' = [r \in Requests |-> NoImage]
  /\ snap' = [r \in Requests |-> BlankVM]
  /\ fresh' = [r \in Requests |-> FALSE]
  /\ out' = [r \in Requests |-> "none"]
  /\ UNCHANGED <<cluster, ctx, cs, media>>

-----------------------------------------------------------------------------
(* KubeVirt and users (external).                                          *)

(* KubeVirt starts an instance when the run policy asks for one; an        *)
(* instance may end at any time (the guest shuts down, or it is stopped).  *)
KubeVirtInstance ==
  /\ vmi' = ~vmi
  /\ vmi' => WantsRun(vm)
  /\ UNCHANGED <<vm, dv, cache, pc, locals, fresh>>

(* KubeVirt's status update: a new version of the object.                  *)
KubeVirtStatus ==
  /\ vm.ready # vmi
  /\ StoreVM([vm EXCEPT !.ready = vmi])
  /\ UNCHANGED <<vmi, dv, cache, pc, locals>>

(* A user edits the run policy, the boot orders or the volume, other than  *)
(* a DataVolume, behind the CD-ROM disk.                                   *)
UserEdit ==
  /\ "edit" \in Faults
  /\ \/ \E c \in RunConfigs : StoreVM(WithRun(vm, c))
     \/ \E b \in BootConfigs : DistinctOrders(b) /\ StoreVM(WithBoot(vm, b))
     \/ /\ Cdrom # 0
        /\ \E f \in BOOLEAN : Admitted(WithForeign(vm, f)) /\ StoreVM(WithForeign(vm, f))
  /\ UNCHANGED <<vmi, dv, cache, pc, locals>>

Environment == KubeVirtInstance \/ KubeVirtStatus \/ UserEdit

Step(r) ==
  \/ GetVM(r)
  \/ GetRemoteFileSize(r)
  \/ CreateDV(r)
  \/ UpdateVM(r)
  \/ DeleteDV(r)
  \/ DeleteVMI(r)
  \/ SetVirtualMedia(r)
  \/ SetBootOverride(r)
  \/ SetPowerState(r)
  \/ Encode(r)

Next ==
  \/ \E r \in Requests : Receive(r) \/ Step(r) \/ Ack(r) \/ Recover(r)
  \/ Initialize
  \/ Cancel
  \/ Crash
  \/ Environment

Spec == Init /\ [][Next]_vars

-----------------------------------------------------------------------------
(* Properties.                                                             *)

(* Every variable keeps its type: the copies the requests hold are         *)
(* VirtualMachine objects, the caches hold values their constructors and   *)
(* setters produce.                                                        *)
TypeOK ==
  /\ vm \in VM
  /\ vmi \in BOOLEAN
  /\ dv \in Images \cup {NoImage}
  /\ up \in BOOLEAN
  /\ ctx \in BOOLEAN
  /\ cs \in ComputerSystem
  /\ media \in VirtualMedia
  /\ pc \in [Requests -> PCs]
  /\ op \in [Requests -> AllOps \cup {"none"}]
  /\ arg \in [Requests -> Images \cup {NoImage}]
  /\ snap \in [Requests -> VM]
  /\ fresh \in [Requests -> BOOLEAN]
  /\ out \in [Requests -> {"On", "Off", "none"}]

(* A request holds the machine's media while its DataVolume has been       *)
(* created but not yet attached, or detached but not yet deleted.          *)
HoldsMedia(r) ==
  \/ op[r] = "Insert" /\ pc[r] = "updateVM"
  \/ op[r] = "Eject" /\ pc[r] = "deleteDV"

(* However inserts, ejects, conflicting writers, failed calls and crashes  *)
(* interleave, the machine never refers to a DataVolume that does not      *)
(* exist and never gets a second volume for the CD-ROM disk.               *)
AttachedMediaExists ==
  /\ vm.cdrom \in {0, 1}
  /\ vm.cdrom = 1 => dv # NoImage

(* Creating the DataVolume acts as a lock on the machine's media: at most  *)
(* one request holds it, only while nothing is attached, and the           *)
(* DataVolume an insert is about to attach is the one it asked for.        *)
MediaLock ==
  /\ \A r \in Requests : HoldsMedia(r) => vm.cdrom = 0 /\ dv # NoImage
  /\ \A r, s \in Requests : HoldsMedia(r) /\ HoldsMedia(s) => r = s
  /\ \A r \in Requests : op[r] = "Insert" /\ pc[r] = "updateVM" => dv = arg[r]

(* A request whose copy carries the current version holds the current      *)
(* object: what its Update stores differs from the stored object only in   *)
(* what the operation changes.                                             *)
SnapCurrent ==
  \A r \in Requests :
    fresh[r] /\ pc[r] \in {"head", "createDV", "updateVM", "setPower"} => snap[r] = vm

(* Each point of the program is reached by the operations that contain it, *)
(* and past the early returns only with a copy they let through.           *)
Control ==
  \A r \in Requests :
    /\ pc[r] = "get" => op[r] \in AllOps \ {"PowerCycle", "GetMedia"}
    /\ pc[r] \in {"head", "createDV"} => op[r] = "Insert"
    /\ pc[r] # "idle" /\ op[r] = "Insert" => arg[r] \in Images
    /\ pc[r] = "updateVM" => op[r] \in PowerOps \cup BootOps \cup MediaOps
    /\ pc[r] \in {"head", "createDV", "updateVM"} => Applicable(op[r], snap[r])
    /\ pc[r] = "deleteDV" => op[r] = "Eject"
    /\ pc[r] = "deleteVMI" => op[r] = "PowerCycle"
    /\ pc[r] = "encodeMedia" => op[r] = "GetMedia"
    /\ pc[r] \in {"setEnabled", "setTarget"} => op[r] \in BootOps
    /\ pc[r] # "idle" => up

(* The inductive invariant of the proofs.                                  *)
IndInv == TypeOK /\ AttachedMediaExists /\ MediaLock /\ SnapCurrent /\ Control

(* The DataVolume of an attached CD-ROM is never deleted or replaced: it   *)
(* may only go once the machine no longer refers to it.                    *)
AttachedMediaStable ==
  [][vm.cdrom = 1 => dv' = dv]_vars

(* Whatever run policy and boot orders users had given the machine before, *)
(* no request sets both Running and RunStrategy, or takes two devices to   *)
(* the same boot order: KubeVirt's admission, which the model does not     *)
(* consult on this, has nothing to refuse.                                 *)
MachineValid == ValidRun(vm) /\ DistinctOrders(vm)

(* No request is being served.                                             *)
Quiescent == up /\ ctx /\ \A r \in Requests : pc[r] = "idle"

(* "Insert media into a virtual machine who has no media inserted should   *)
(* success" (virtualmachine_resourcemanager_test.go:245): when nothing is  *)
(* inserted and nothing is going on, no left-over DataVolume makes the     *)
(* next InsertMedia fail.                                                  *)
InsertNotBlocked == Quiescent /\ vm.cdrom = 0 => dv = NoImage

(* When nothing is going on, an enabled boot override describes the boot   *)
(* orders the machine really has.  It holds while the client sends one     *)
(* request at a time, no answer is lost and nobody else edits the machine. *)
BootOverrideInForce ==
  Quiescent /\ cs.enabled = "Continuous"
    => \E o \in BootOps : BootSource(o) = cs.target /\ SetBoot(vm, o) = vm

(* The agent's operations on the machine are atomic and take effect at     *)
(* most once: the specification AtomicBmc.  A request is pending until the *)
(* step that carries out its API write (or its read), applied after it.    *)
Phase(p) ==
  CASE p = "idle" -> "idle"
    [] p \in {"get", "head", "createDV", "updateVM", "deleteVMI", "encodeMedia"} -> "pending"
    [] p = "ok" -> "ok"
    [] p \in {"error", "panic"} -> "error"
    [] OTHER -> "applied"

Atomic == INSTANCE AtomicBmc
            WITH phase <- [r \in Requests |-> Phase(pc[r])]

ImplementsAtomicBmc == Atomic!Spec
=============================================================================
