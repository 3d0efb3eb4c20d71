------------------------ MODULE ResourceManagerProofs ------------------------
(***************************************************************************)
(* Proofs about ResourceManager, for every number of requests, every set   *)
(* of operations, images and faults, and every machine.                    *)
(***************************************************************************)
EXTENDS ResourceManager, TLAPS

(* Every operation turns a VirtualMachine object into one.                 *)
LEMMA EffectType ==
  ASSUME NEW o, NEW s \in VM
  PROVE  Effect(o, s) \in VM
<1>1. ASSUME NEW a \in {"true", "false"}, NEW b \in {"RerunOnFailure", "Halted"}
      PROVE  SetPower(s, a, b) \in VM
  BY <1>1 DEF SetPower, VM, Strategies, RunningValues
<1>2. SetBoot(s, o) \in VM
  BY HardwareAssumption DEF SetBoot, VM
<1>3. Attach(s) \in VM /\ Detach(s) \in VM
  BY DEF Attach, Detach, VM
<1> QED
  BY <1>1, <1>2, <1>3 DEF Effect

(* Attaching adds one volume.                                              *)
LEMMA AttachCdrom ==
  ASSUME NEW s \in VM
  PROVE  Attach(s).cdrom = s.cdrom + 1
<1>1. s = [strategy |-> s.strategy, running |-> s.running, intf |-> s.intf,
           disk |-> s.disk, cdrom |-> s.cdrom, foreign |-> s.foreign, ready |-> s.ready]
  BY DEF VM
<1>2. Attach(s) = [strategy |-> s.strategy, running |-> s.running, intf |-> s.intf,
                   disk |-> s.disk, cdrom |-> s.cdrom + 1, foreign |-> s.foreign,
                   ready |-> s.ready]
  BY <1>1 DEF Attach
<1> QED
  BY <1>2

(* The blank copy is a VirtualMachine object.                              *)
LEMMA BlankType == BlankVM \in VM
  BY HardwareAssumption DEF BlankVM, VM, Strategies, RunningValues

(* What users write is a VirtualMachine object with the same CD-ROM volume.*)
LEMMA EditType ==
  ASSUME NEW s \in VM
  PROVE  /\ \A c \in RunConfigs : WithRun(s, c) \in VM /\ WithRun(s, c).cdrom = s.cdrom
         /\ \A b \in BootConfigs : WithBoot(s, b) \in VM /\ WithBoot(s, b).cdrom = s.cdrom
         /\ \A f \in BOOLEAN : WithForeign(s, f) \in VM /\ WithForeign(s, f).cdrom = s.cdrom
<1>1. ASSUME NEW c \in RunConfigs
      PROVE  WithRun(s, c) \in VM /\ WithRun(s, c).cdrom = s.cdrom
  BY <1>1, RequestAssumption DEF RunConfigs, WithRun, VM, Strategies
<1>2. ASSUME NEW b \in BootConfigs
      PROVE  WithBoot(s, b) \in VM /\ WithBoot(s, b).cdrom = s.cdrom
  <2>1. b.intf \in [1..NumIntf -> Nat] /\ b.disk \in [1..NumDisk -> Nat]
    BY <1>2, RequestAssumption DEF BootConfigs
  <2> QED
    BY <2>1 DEF WithBoot, VM
<1>3. ASSUME NEW f \in BOOLEAN
      PROVE  WithForeign(s, f) \in VM /\ WithForeign(s, f).cdrom = s.cdrom
  BY <1>3 DEF WithForeign, VM
<1> QED
  BY <1>1, <1>2, <1>3

-----------------------------------------------------------------------------
(* Type correctness.                                                       *)

(* The initial values have their types.                                    *)
LEMMA TypeInit == Init => TypeOK
<1> SUFFICES ASSUME Init PROVE TypeOK
  OBVIOUS
<1>1. vm \in VM
  BY BlankType, EditType DEF Init
<1>2. snap \in [Requests -> VM]
  BY BlankType DEF Init
<1> QED
  BY <1>1, <1>2 DEF Init, TypeOK, NewComputerSystem, ComputerSystem, NewVirtualMedia, VirtualMedia, PCs

(* Storing an object keeps the types of the object and of the versions.    *)
LEMMA StoreType ==
  ASSUME TypeOK, NEW new \in VM, StoreVM(new)
  PROVE  vm' \in VM /\ fresh' \in [Requests -> BOOLEAN]
  BY DEF StoreVM, TypeOK

(* A step that changes neither the object nor the versions stores what is  *)
(* there already.                                                          *)
LEMMA StoreSame == UNCHANGED <<vm, fresh>> => StoreVM(vm)
  BY DEF StoreVM

(* Moving a request to a program point keeps pc a function to points.      *)
LEMMA GotoType ==
  ASSUME TypeOK, NEW r \in Requests, NEW label \in PCs, Goto(r, label)
  PROVE  pc' \in [Requests -> PCs]
  BY DEF Goto, TypeOK

(* A user's edit stores an object with the same CD-ROM volume.             *)
LEMMA EditStores ==
  ASSUME TypeOK, UserEdit
  PROVE  \E new \in VM : StoreVM(new) /\ new.cdrom = vm.cdrom
<1>0. vm \in VM
  BY DEF TypeOK
<1>1. CASE \E c \in RunConfigs : StoreVM(WithRun(vm, c))
  <2>1. PICK c \in RunConfigs : StoreVM(WithRun(vm, c))
    BY <1>1
  <2>2. WithRun(vm, c) \in VM /\ WithRun(vm, c).cdrom = vm.cdrom
    BY <1>0, EditType
  <2> QED
    BY <2>1, <2>2
<1>2. CASE \E b \in BootConfigs : StoreVM(WithBoot(vm, b))
  <2>1. PICK b \in BootConfigs : StoreVM(WithBoot(vm, b))
    BY <1>2
  <2>2. WithBoot(vm, b) \in VM /\ WithBoot(vm, b).cdrom = vm.cdrom
    BY <1>0, EditType
  <2> QED
    BY <2>1, <2>2
<1>3. CASE \E f \in BOOLEAN : StoreVM(WithForeign(vm, f))
  <2>1. PICK f \in BOOLEAN : StoreVM(WithForeign(vm, f))
    BY <1>3
  <2>2. WithForeign(vm, f) \in VM /\ WithForeign(vm, f).cdrom = vm.cdrom
    BY <1>0, EditType
  <2> QED
    BY <2>1, <2>2
<1> QED
  BY <1>1, <1>2, <1>3 DEF UserEdit

(* A request that arrives calls one of the operations.                     *)
LEMMA ReceiveCalls ==
  ASSUME NEW r, Receive(r)
  PROVE  \E o \in AllOps : \E i \in Arguments(o) : Call(r, o, i)
  BY RequestAssumption DEF Receive

(* Every step of the agent, KubeVirt and users preserves the types.        *)
LEMMA TypeStep == TypeOK /\ [Next]_vars => TypeOK'
<1> SUFFICES ASSUME TypeOK, [Next]_vars PROVE TypeOK'
  OBVIOUS
<1>0. {"get", "head", "createDV", "updateVM", "deleteDV", "deleteVMI", "setImage",
       "setInserted", "setVia", "setEnabled", "setTarget", "setPower", "encode",
       "encodeMedia", "idle", "ok", "error", "panic"} \subseteq PCs
  BY DEF PCs
<1>1. ASSUME NEW r \in Requests, Receive(r) PROVE TypeOK'
  <2>0. PICK o \in AllOps : \E i \in Arguments(o) : Call(r, o, i)
    BY <1>1, ReceiveCalls
  <2>1. PICK i \in Arguments(o) : Call(r, o, i)
    BY <2>0
  <2>2. i \in Images \cup {NoImage} /\ FirstStep(o) \in PCs
    BY <1>0 DEF Arguments, FirstStep
  <2>3. pc' \in [Requests -> PCs]
    BY <2>1, <2>2, GotoType DEF Call
  <2>4. op' \in [Requests -> AllOps \cup {"none"}] /\ arg' \in [Requests -> Images \cup {NoImage}]
    BY <2>1, <2>2 DEF Call, TypeOK
  <2> QED
    BY <2>1, <2>3, <2>4 DEF Call, TypeOK, cluster, cache, process
<1>2. ASSUME NEW r \in Requests, GetVM(r) PROVE TypeOK'
  <2>1. pc' \in [Requests -> PCs]
    <3>1. AfterGet(op[r]) \in PCs
      BY <1>0 DEF AfterGet
    <3> QED
      BY <1>0, <1>2, <3>1, GotoType DEF GetVM
  <2>2. snap' \in [Requests -> VM]
    BY <1>2 DEF GetVM, TypeOK
  <2>4. fresh' \in [Requests -> BOOLEAN]
    BY <1>2 DEF GetVM, TypeOK
  <2>3. out' \in [Requests -> {"On", "Off", "none"}]
    BY <1>2 DEF GetVM, TypeOK, Power
  <2> QED
    BY <1>2, <2>1, <2>2, <2>3, <2>4 DEF GetVM, TypeOK, cluster, cache, process
<1>3. ASSUME NEW r \in Requests, GetRemoteFileSize(r) PROVE TypeOK'
  <2>1. pc' \in [Requests -> PCs]
    BY <1>0, <1>3, GotoType DEF GetRemoteFileSize
  <2> QED
    BY <1>3, <2>1 DEF GetRemoteFileSize, TypeOK, cluster, cache, process, locals
<1>4. ASSUME NEW r \in Requests, CreateDV(r) PROVE TypeOK'
  <2>1. pc' \in [Requests -> PCs]
    BY <1>0, <1>4, GotoType DEF CreateDV
  <2>2. dv' \in Images \cup {NoImage}
    <3>1. arg[r] \in Images \cup {NoImage} /\ dv \in Images \cup {NoImage}
      BY DEF TypeOK
    <3>2. dv' = arg[r] \/ dv' = dv
      BY <1>4 DEF CreateDV
    <3> QED
      BY <3>1, <3>2
  <2> QED
    BY <1>4, <2>1, <2>2 DEF CreateDV, TypeOK, cache, process, locals
<1>5. ASSUME NEW r \in Requests, UpdateVM(r) PROVE TypeOK'
  <2>1. vm' \in VM /\ fresh' \in [Requests -> BOOLEAN]
    <3>1. CASE StoreVM(Effect(op[r], snap[r]))
      BY <1>5, <3>1, EffectType, StoreType DEF TypeOK
    <3>2. CASE UNCHANGED <<vm, fresh>>
      BY <3>2 DEF TypeOK
    <3> QED
      BY <1>5, <3>1, <3>2 DEF UpdateVM
  <2>2. pc' \in [Requests -> PCs]
    <3>1. AfterUpdate(op[r]) \in PCs
      BY <1>0 DEF AfterUpdate
    <3> QED
      BY <1>0, <1>5, <3>1, GotoType DEF UpdateVM
  <2>3. snap' \in [Requests -> VM]
    BY <1>5, BlankType DEF UpdateVM, TypeOK
  <2> QED
    BY <1>5, <2>1, <2>2, <2>3 DEF UpdateVM, TypeOK, cache, process
<1>6. ASSUME NEW r \in Requests, DeleteDV(r) PROVE TypeOK'
  <2>1. pc' \in [Requests -> PCs]
    BY <1>0, <1>6, GotoType DEF DeleteDV
  <2> QED
    BY <1>6, <2>1 DEF DeleteDV, TypeOK, cache, process, locals
<1>7. ASSUME NEW r \in Requests, DeleteVMI(r) PROVE TypeOK'
  <2>1. pc' \in [Requests -> PCs]
    BY <1>0, <1>7, GotoType DEF DeleteVMI
  <2> QED
    BY <1>7, <2>1 DEF DeleteVMI, TypeOK, cache, process, locals
<1>8. ASSUME NEW r \in Requests, SetVirtualMedia(r) PROVE TypeOK'
  <2>1. pc' \in [Requests -> PCs]
    BY <1>0, <1>8, GotoType DEF SetVirtualMedia
  <2>2. media' \in VirtualMedia
    <3>1. arg[r] \in Images \cup {NoImage} /\ media \in VirtualMedia
      BY DEF TypeOK
    <3> QED
      BY <1>8, <3>1 DEF SetVirtualMedia, VirtualMedia
  <2> QED
    BY <1>8, <2>1, <2>2 DEF SetVirtualMedia, TypeOK, cluster, process, locals
<1>9. ASSUME NEW r \in Requests, SetBootOverride(r) PROVE TypeOK'
  <2>1. pc' \in [Requests -> PCs]
    BY <1>0, <1>9, GotoType DEF SetBootOverride
  <2>2. cs' \in ComputerSystem
    <3>1. cs \in ComputerSystem
      BY DEF TypeOK
    <3> QED
      BY <1>9, <3>1 DEF SetBootOverride, BootSource, ComputerSystem
  <2> QED
    BY <1>9, <2>1, <2>2 DEF SetBootOverride, TypeOK, cluster, process, locals
<1>10. ASSUME NEW r \in Requests, SetPowerState(r) PROVE TypeOK'
  <2>1. pc' \in [Requests -> PCs]
    BY <1>0, <1>10, GotoType DEF SetPowerState
  <2>2. cs' \in ComputerSystem
    <3>1. cs \in ComputerSystem
      BY DEF TypeOK
    <3> QED
      BY <1>10, <3>1 DEF SetPowerState, Power, ComputerSystem
  <2> QED
    BY <1>10, <2>1, <2>2 DEF SetPowerState, TypeOK, cluster, process, locals
<1>11. ASSUME NEW r \in Requests, Encode(r) PROVE TypeOK'
  <2>1. pc' \in [Requests -> PCs]
    BY <1>0, <1>11, GotoType DEF Encode
  <2>2. out' \in [Requests -> {"On", "Off", "none"}]
    <3>1. cs.power \in {"On", "Off"} /\ out \in [Requests -> {"On", "Off", "none"}]
      BY DEF TypeOK, ComputerSystem
    <3> QED
      BY <1>11, <3>1 DEF Encode
  <2> QED
    BY <1>11, <2>1, <2>2 DEF Encode, TypeOK, cluster, cache, process
<1>12. ASSUME NEW r \in Requests, Ack(r) \/ Recover(r) PROVE TypeOK'
  <2>0. Forget(r)
    BY <1>12 DEF Ack, Recover
  <2>1. pc' \in [Requests -> PCs]
    BY <1>0, <2>0, GotoType DEF Forget
  <2> QED
    BY <2>0, <2>1, BlankType DEF Forget, TypeOK, cluster, cache, process
<1>13. CASE Initialize
  <2>1. cs' \in ComputerSystem /\ media' \in VirtualMedia
    BY <1>13 DEF Initialize, NewComputerSystem, ComputerSystem, NewVirtualMedia, VirtualMedia, Power
  <2> QED
    BY <1>13, <2>1 DEF Initialize, TypeOK, cluster, locals
<1>14. CASE Crash
  BY <1>0, <1>14, BlankType DEF Crash, TypeOK, cluster
<1>19. CASE Cancel
  BY <1>19 DEF Cancel, TypeOK, cluster, locals
<1>15. CASE KubeVirtInstance
  BY <1>15 DEF KubeVirtInstance, TypeOK, cache, process, locals
<1>16. CASE KubeVirtStatus
  <2>1. [vm EXCEPT !.ready = vmi] \in VM
    BY DEF TypeOK, VM
  <2>2. vm' \in VM /\ fresh' \in [Requests -> BOOLEAN]
    BY <1>16, <2>1, StoreType DEF KubeVirtStatus
  <2> QED
    BY <1>16, <2>2 DEF KubeVirtStatus, TypeOK, cache, process, locals
<1>17. CASE UserEdit
  <2>1. vm' \in VM /\ fresh' \in [Requests -> BOOLEAN]
    <3>1. PICK new \in VM : StoreVM(new)
      BY <1>17, EditStores
    <3> QED
      BY <3>1, StoreType
  <2> QED
    BY <1>17, <2>1 DEF UserEdit, TypeOK, cache, process, locals
<1>18. CASE UNCHANGED vars
  BY <1>18 DEF vars, TypeOK
<1> QED
  BY <1>1, <1>2, <1>3, <1>4, <1>5, <1>6, <1>7, <1>8, <1>9, <1>10, <1>11, <1>12,
     <1>13, <1>14, <1>15, <1>16, <1>17, <1>18, <1>19 DEF Next, Step, Environment

(* Every behaviour of the agent keeps TypeOK: whatever its requests read,  *)
(* write back and cache are values of the types the code declares.         *)
THEOREM TypeCorrect == Spec => []TypeOK
  BY TypeInit, TypeStep, PTL DEF Spec

-----------------------------------------------------------------------------
(* The media lock.                                                         *)

(* The inductive invariant holds initially: nothing is attached.           *)
LEMMA IndInit == Init => IndInv
<1> SUFFICES ASSUME Init PROVE IndInv
  OBVIOUS
<1>1. vm.cdrom = 0
  BY BlankType, EditType DEF Init, BlankVM
<1> QED
  BY <1>1, TypeInit DEF Init, IndInv, AttachedMediaExists, MediaLock, HoldsMedia, SnapCurrent,
                        Control

(* A step that moves neither the CD-ROM volume nor the DataVolume, and     *)
(* lets no request take the lock, keeps the lock's invariants.             *)
LEMMA MediaFrame ==
  ASSUME IndInv,
         vm'.cdrom = vm.cdrom,
         dv' = dv,
         \A s \in Requests : HoldsMedia(s)' =>
            pc'[s] = pc[s] /\ op'[s] = op[s] /\ arg'[s] = arg[s]
  PROVE  AttachedMediaExists' /\ MediaLock'
<1>1. \A s \in Requests : HoldsMedia(s)' => HoldsMedia(s)
  BY DEF HoldsMedia
<1>2. AttachedMediaExists'
  BY DEF IndInv, AttachedMediaExists
<1>3. \A r \in Requests : (op[r] = "Insert" /\ pc[r] = "updateVM" => dv = arg[r])'
  BY DEF IndInv, MediaLock, HoldsMedia
<1> QED
  BY <1>1, <1>2, <1>3 DEF IndInv, MediaLock

(* A step of the environment, which leaves the requests where they are.    *)
LEMMA EnvironmentFrame ==
  ASSUME IndInv, NEW new, StoreVM(new), new.cdrom = vm.cdrom,
         UNCHANGED <<dv, up, pc, op, arg, snap>>
  PROVE  AttachedMediaExists' /\ MediaLock' /\ SnapCurrent' /\ Control'
<1>1. AttachedMediaExists' /\ MediaLock'
  BY MediaFrame DEF StoreVM
<1>2. SnapCurrent'
  <2>1. CASE new = vm
    BY <2>1 DEF StoreVM, IndInv, SnapCurrent
  <2>2. CASE new # vm
    BY <2>2 DEF StoreVM, SnapCurrent
  <2> QED
    BY <2>1, <2>2
<1>3. Control'
  BY DEF IndInv, Control
<1> QED
  BY <1>1, <1>2, <1>3

(* A step of a request that touches neither the machine nor the            *)
(* DataVolume, and neither takes the lock nor reads the machine.           *)
LEMMA LocalFrame ==
  ASSUME IndInv, NEW r \in Requests, NEW label, Goto(r, label), pc[r] # "idle",
         label \in {"createDV", "setInserted", "setVia", "setTarget", "encode", "ok", "error",
                    "panic"},
         label = "createDV" => pc[r] = "head",
         label = "setTarget" => pc[r] = "setEnabled",
         UNCHANGED <<vm, dv, up, op, arg, snap, fresh>>
  PROVE  AttachedMediaExists' /\ MediaLock' /\ SnapCurrent' /\ Control'
<1>1. pc'[r] = label /\ \A s \in Requests \ {r} : pc'[s] = pc[s]
  BY DEF Goto, IndInv, TypeOK
<1>2. AttachedMediaExists' /\ MediaLock'
  BY <1>1, MediaFrame DEF HoldsMedia
<1>3. SnapCurrent'
  BY <1>1 DEF IndInv, SnapCurrent
<1>4. Control'
  BY <1>1 DEF IndInv, Control
<1> QED
  BY <1>2, <1>3, <1>4

(* Every step preserves the inductive invariant, one case per action.      *)
LEMMA IndStep == IndInv /\ [Next]_vars => IndInv'
<1> SUFFICES ASSUME IndInv, [Next]_vars PROVE IndInv'
  OBVIOUS
<1>0. TypeOK /\ TypeOK'
  BY TypeStep DEF IndInv
<1>F. /\ pc \in [Requests -> PCs]
      /\ op \in [Requests -> AllOps \cup {"none"}]
      /\ arg \in [Requests -> Images \cup {NoImage}]
      /\ snap \in [Requests -> VM]
      /\ fresh \in [Requests -> BOOLEAN]
      /\ vm \in VM
  BY <1>0 DEF TypeOK
<1> DEFINE Lock == AttachedMediaExists' /\ MediaLock'
<1>1. ASSUME NEW r \in Requests, Receive(r) PROVE Lock /\ SnapCurrent' /\ Control'
  <2>0. PICK o \in AllOps : \E i \in Arguments(o) : Call(r, o, i)
    BY <1>1, ReceiveCalls
  <2>1. PICK i \in Arguments(o) : Call(r, o, i)
    BY <2>0
  <2>2. up /\ UNCHANGED <<vm, dv, up, snap, fresh>>
    BY <2>1 DEF Call, cluster, cache, process
  <2>3. /\ pc'[r] = FirstStep(o) /\ op'[r] = o /\ arg'[r] = i
        /\ \A s \in Requests \ {r} : pc'[s] = pc[s] /\ op'[s] = op[s] /\ arg'[s] = arg[s]
    BY <2>1, <1>F DEF Call, Goto
  <2>4. /\ pc'[r] \in {"deleteVMI", "encodeMedia", "get"}
        /\ pc'[r] = "get" => o \notin {"PowerCycle", "GetMedia"}
        /\ pc'[r] = "deleteVMI" => o = "PowerCycle"
        /\ pc'[r] = "encodeMedia" => o = "GetMedia"
        /\ o = "Insert" => i \in Images
    BY <2>3 DEF FirstStep, Arguments
  <2>5. Lock
    BY <2>2, <2>3, <2>4, MediaFrame DEF HoldsMedia
  <2>6. SnapCurrent'
    BY <2>2, <2>3, <2>4 DEF IndInv, SnapCurrent
  <2>7. Control'
    BY <2>2, <2>3, <2>4 DEF IndInv, Control
  <2> QED
    BY <2>5, <2>6, <2>7
<1>2. ASSUME NEW r \in Requests, GetVM(r) PROVE Lock /\ SnapCurrent' /\ Control'
  <2>0. pc[r] = "get" /\ UNCHANGED <<vm, dv, up, op, arg>>
    BY <1>2 DEF GetVM, cluster, cache, process
  <2>1. CASE /\ Applicable(op[r], vm)
             /\ Goto(r, AfterGet(op[r]))
             /\ snap' = [snap EXCEPT ![r] = vm]
             /\ fresh' = [fresh EXCEPT ![r] = TRUE]
    <3>1. /\ pc'[r] = AfterGet(op[r]) /\ snap'[r] = vm
          /\ \A s \in Requests \ {r} : pc'[s] = pc[s] /\ snap'[s] = snap[s] /\ fresh'[s] = fresh[s]
      BY <2>1, <1>F DEF Goto
    <3>2. op[r] \in AllOps \ {"PowerCycle", "GetMedia"} /\ up
      BY <2>0 DEF IndInv, Control
    <3>3. /\ pc'[r] \in {"head", "ok", "setPower", "updateVM"}
          /\ pc'[r] = "head" => op[r] = "Insert"
          /\ pc'[r] = "updateVM" => op[r] \in PowerOps \cup BootOps \cup {"Eject"}
      BY <3>1, <3>2 DEF AfterGet, AllOps, PowerOps, BootOps, MediaOps, ReadOps
    <3>4. Lock
      <4>1. ~HoldsMedia(r)'
        BY <2>0, <3>3 DEF HoldsMedia, PowerOps, BootOps
      <4> QED
        BY <2>0, <3>1, <4>1, MediaFrame
    <3>5. SnapCurrent'
      BY <2>0, <3>1 DEF IndInv, SnapCurrent
    <3>6. Control'
      BY <2>0, <2>1, <3>1, <3>2, <3>3 DEF IndInv, Control, MediaOps
    <3> QED
      BY <3>4, <3>5, <3>6
  <2>2. CASE (Goto(r, "panic") \/ Goto(r, "error")) /\ UNCHANGED <<snap, fresh>>
    BY <2>0, <2>2, LocalFrame
  <2> QED
    BY <1>2, <2>1, <2>2 DEF GetVM
<1>3. ASSUME NEW r \in Requests, GetRemoteFileSize(r) PROVE Lock /\ SnapCurrent' /\ Control'
  BY <1>3, LocalFrame DEF GetRemoteFileSize, cluster, cache, process, locals
<1>4. ASSUME NEW r \in Requests, CreateDV(r) PROVE Lock /\ SnapCurrent' /\ Control'
  <2>0. /\ pc[r] = "createDV" /\ op[r] = "Insert"
        /\ UNCHANGED <<vm, up, op, arg, snap, fresh>>
    BY <1>4 DEF CreateDV, cache, process, locals, IndInv, Control
  <2>1. CASE dv = NoImage /\ dv' = arg[r] /\ (Goto(r, "updateVM") \/ Goto(r, "error"))
    <3>1. /\ vm.cdrom = 0
          /\ \A s \in Requests : ~HoldsMedia(s)
      BY <2>1 DEF IndInv, AttachedMediaExists, MediaLock
    <3>2. /\ pc'[r] \in {"updateVM", "error"}
          /\ \A s \in Requests \ {r} : pc'[s] = pc[s]
      BY <2>1, <1>F DEF Goto
    <3>3. \A s \in Requests : HoldsMedia(s)' => s = r
      BY <2>0, <3>1, <3>2 DEF HoldsMedia
    <3>4. pc'[r] = "updateVM" => dv' # NoImage
      <4>1. arg[r] \in Images
        BY <2>0 DEF IndInv, Control
      <4> QED
        BY <2>1, <4>1, RequestAssumption
    <3>5. Lock
      BY <2>0, <2>1, <3>1, <3>2, <3>3, <3>4 DEF AttachedMediaExists, MediaLock, HoldsMedia
    <3>6. SnapCurrent'
      BY <2>0, <3>2 DEF IndInv, SnapCurrent
    <3>7. Control'
      BY <2>0, <3>2 DEF IndInv, Control, MediaOps
    <3> QED
      BY <3>5, <3>6, <3>7
  <2>2. CASE Goto(r, "error") /\ UNCHANGED dv
    BY <2>0, <2>2, LocalFrame
  <2> QED
    BY <1>4, <2>1, <2>2 DEF CreateDV
<1>5. ASSUME NEW r \in Requests, UpdateVM(r) PROVE Lock /\ SnapCurrent' /\ Control'
  <2>0. /\ pc[r] = "updateVM" /\ op[r] \in PowerOps \cup BootOps \cup MediaOps /\ up
        /\ Applicable(op[r], snap[r])
        /\ UNCHANGED <<dv, up, op, arg>> /\ snap' = [snap EXCEPT ![r] = BlankVM]
    BY <1>5 DEF UpdateVM, cache, process, IndInv, Control
  <2>01. \A s \in Requests \ {r} : snap'[s] = snap[s]
    BY <2>0, <1>F
  <2>1. CASE /\ fresh[r]
             /\ StoreVM(Effect(op[r], snap[r]))
             /\ Goto(r, AfterUpdate(op[r])) \/ Goto(r, "error")
    <3>1. snap[r] = vm /\ vm' = Effect(op[r], vm)
      BY <2>0, <2>1 DEF IndInv, SnapCurrent, StoreVM
    <3>2. /\ pc'[r] \in {AfterUpdate(op[r]), "error"}
          /\ \A s \in Requests \ {r} : pc'[s] = pc[s]
      BY <2>1, <1>F DEF Goto
    <3>3. pc'[r] \in {"setImage", "deleteDV", "setEnabled", "ok", "error"}
          /\ (pc'[r] = "deleteDV" => op[r] = "Eject")
          /\ (pc'[r] = "setEnabled" => op[r] \in BootOps)
      BY <3>2, <2>0 DEF AfterUpdate, PowerOps, BootOps, MediaOps
    <3>4. SnapCurrent'
      <4>1. CASE Effect(op[r], snap[r]) = vm
        BY <2>1, <2>01, <3>2, <3>3, <4>1 DEF StoreVM, IndInv, SnapCurrent
      <4>2. CASE Effect(op[r], snap[r]) # vm
        BY <2>1, <4>2 DEF StoreVM, SnapCurrent
      <4> QED
        BY <4>1, <4>2
    <3>5. Control'
      BY <2>0, <2>01, <3>2, <3>3 DEF IndInv, Control
    <3>6. Lock
      <4>1. CASE op[r] = "Insert"
        <5>1. vm.cdrom = 0 /\ dv # NoImage /\ HoldsMedia(r)
          BY <2>0, <4>1 DEF IndInv, MediaLock, HoldsMedia
        <5>2. vm'.cdrom = 1
          <6>1. vm' = Attach(vm)
            BY <3>1, <4>1 DEF Effect, BootOps
          <6> QED
            <7>1. vm \in VM
              BY <1>F
            <7>2. vm'.cdrom = vm.cdrom + 1
              BY <6>1, <7>1, AttachCdrom, Zenon
            <7> QED
              BY <5>1, <7>2
        <5>3. \A s \in Requests : ~HoldsMedia(s)'
          BY <2>0, <3>2, <3>3, <4>1, <5>1 DEF IndInv, MediaLock, HoldsMedia
        <5> QED
          BY <2>0, <5>1, <5>2, <5>3 DEF AttachedMediaExists, MediaLock, HoldsMedia
      <4>2. CASE op[r] = "Eject"
        <5>1. vm.cdrom = 1 /\ dv # NoImage /\ \A s \in Requests : ~HoldsMedia(s)
          BY <2>0, <3>1, <4>2 DEF Applicable, IndInv, AttachedMediaExists, MediaLock
        <5>2. vm'.cdrom = 0
          BY <3>1, <4>2, <1>0 DEF Effect, Detach, TypeOK, VM, BootOps
        <5>3. \A s \in Requests : HoldsMedia(s)' => s = r
          BY <2>0, <3>2, <5>1 DEF HoldsMedia
        <5> QED
          BY <2>0, <3>2, <4>2, <5>1, <5>2, <5>3 DEF AttachedMediaExists, MediaLock, HoldsMedia
      <4>3. CASE op[r] \in PowerOps \cup BootOps
        <5>1. vm'.cdrom = vm.cdrom
          BY <3>1, <4>3, <1>0 DEF Effect, SetPower, SetBoot, TypeOK, VM, PowerOps, BootOps
        <5>2. ~HoldsMedia(r)'
          BY <2>0, <4>3 DEF HoldsMedia, PowerOps, BootOps
        <5> QED
          BY <2>0, <3>2, <5>1, <5>2, MediaFrame
      <4> QED
        BY <2>0, <4>1, <4>2, <4>3 DEF MediaOps
    <3> QED
      BY <3>4, <3>5, <3>6
  <2>2. CASE Goto(r, "error") /\ UNCHANGED <<vm, fresh>>
    <3>1. pc'[r] = "error" /\ \A s \in Requests \ {r} : pc'[s] = pc[s]
      BY <2>2, <1>F DEF Goto
    <3>2. Lock
      BY <2>0, <2>2, <3>1, MediaFrame DEF HoldsMedia
    <3>3. SnapCurrent' /\ Control'
      BY <2>0, <2>01, <2>2, <3>1 DEF IndInv, SnapCurrent, Control
    <3> QED
      BY <3>2, <3>3
  <2> QED
    BY <1>5, <2>1, <2>2 DEF UpdateVM
<1>6. ASSUME NEW r \in Requests, DeleteDV(r) PROVE Lock /\ SnapCurrent' /\ Control'
  <2>0. /\ pc[r] = "deleteDV" /\ op[r] = "Eject" /\ up
        /\ UNCHANGED <<vm, up, op, arg, snap, fresh>>
    BY <1>6 DEF DeleteDV, cache, process, locals, IndInv, Control
  <2>1. CASE dv' = NoImage /\ (Goto(r, "setImage") \/ Goto(r, "error"))
    <3>1. /\ vm.cdrom = 0
          /\ \A s \in Requests : HoldsMedia(s) => s = r
      BY <2>0 DEF IndInv, MediaLock, HoldsMedia
    <3>2. /\ pc'[r] \in {"setImage", "error"}
          /\ \A s \in Requests \ {r} : pc'[s] = pc[s]
      BY <2>1, <1>F DEF Goto
    <3>3. \A s \in Requests : ~HoldsMedia(s)'
      BY <2>0, <3>1, <3>2 DEF HoldsMedia
    <3>4. Lock
      BY <2>0, <3>1, <3>3 DEF AttachedMediaExists, MediaLock, HoldsMedia
    <3>5. SnapCurrent' /\ Control'
      BY <2>0, <3>2 DEF IndInv, SnapCurrent, Control
    <3> QED
      BY <3>4, <3>5
  <2>2. CASE Goto(r, "error") /\ UNCHANGED dv
    BY <2>0, <2>2, LocalFrame
  <2> QED
    BY <1>6, <2>1, <2>2 DEF DeleteDV
<1>7. ASSUME NEW r \in Requests, DeleteVMI(r) PROVE Lock /\ SnapCurrent' /\ Control'
  BY <1>7, LocalFrame DEF DeleteVMI, cache, process, locals
<1>8. ASSUME NEW r \in Requests, SetVirtualMedia(r) PROVE Lock /\ SnapCurrent' /\ Control'
  BY <1>8, LocalFrame DEF SetVirtualMedia, cluster, process, locals
<1>9. ASSUME NEW r \in Requests, SetBootOverride(r) PROVE Lock /\ SnapCurrent' /\ Control'
  BY <1>9, LocalFrame DEF SetBootOverride, cluster, process, locals
<1>10. ASSUME NEW r \in Requests, SetPowerState(r) PROVE Lock /\ SnapCurrent' /\ Control'
  BY <1>10, LocalFrame DEF SetPowerState, cluster, process, locals
<1>11. ASSUME NEW r \in Requests, Encode(r) PROVE Lock /\ SnapCurrent' /\ Control'
  BY <1>11, LocalFrame DEF Encode, cluster, cache, process
<1>12. ASSUME NEW r \in Requests, Ack(r) \/ Recover(r) PROVE Lock /\ SnapCurrent' /\ Control'
  <2>0. Forget(r)
    BY <1>12 DEF Ack, Recover
  <2>1. UNCHANGED <<vm, dv, up>>
    BY <2>0 DEF Forget, cluster, cache, process
  <2>2. pc'[r] = "idle" /\ \A s \in Requests \ {r} : pc'[s] = pc[s]
    BY <2>0, <1>F DEF Forget, Goto
  <2>3. \A s \in Requests \ {r} : op'[s] = op[s] /\ arg'[s] = arg[s]
    BY <2>0, <1>F DEF Forget
  <2>4. \A s \in Requests \ {r} : snap'[s] = snap[s] /\ fresh'[s] = fresh[s]
    BY <2>0, <1>F DEF Forget
  <2>5. Lock
    BY <2>1, <2>2, <2>3, MediaFrame DEF HoldsMedia
  <2>6. SnapCurrent'
    BY <2>1, <2>2, <2>4 DEF IndInv, SnapCurrent
  <2>7. Control'
    BY <2>1, <2>2, <2>3, <2>4 DEF IndInv, Control
  <2> QED
    BY <2>5, <2>6, <2>7
<1>13. ASSUME Initialize PROVE Lock /\ SnapCurrent' /\ Control'
  <2>1. up' = TRUE /\ UNCHANGED <<vm, dv, pc, op, arg, snap, fresh>>
    BY <1>13 DEF Initialize, cluster, locals
  <2>2. Lock
    BY <2>1, MediaFrame
  <2>3. SnapCurrent' /\ Control'
    BY <2>1 DEF IndInv, SnapCurrent, Control
  <2> QED
    BY <2>2, <2>3
<1>14. ASSUME Crash PROVE Lock /\ SnapCurrent' /\ Control'
  <2>1. UNCHANGED <<vm, dv>> /\ pc' = [r \in Requests |-> "idle"]
    BY <1>14 DEF Crash, cluster
  <2>2. Lock
    BY <2>1, MediaFrame DEF HoldsMedia
  <2>3. SnapCurrent' /\ Control'
    BY <2>1 DEF SnapCurrent, Control
  <2> QED
    BY <2>2, <2>3
<1>19. ASSUME Cancel PROVE Lock /\ SnapCurrent' /\ Control'
  BY <1>19, StoreSame, EnvironmentFrame DEF Cancel, cluster, locals
<1>15. ASSUME KubeVirtInstance PROVE Lock /\ SnapCurrent' /\ Control'
  BY <1>15, StoreSame, EnvironmentFrame DEF KubeVirtInstance, cache, process, locals
<1>16. ASSUME KubeVirtStatus PROVE Lock /\ SnapCurrent' /\ Control'
  <2>1. [vm EXCEPT !.ready = vmi].cdrom = vm.cdrom
    BY <1>0 DEF TypeOK, VM
  <2> QED
    BY <1>16, <2>1, EnvironmentFrame DEF KubeVirtStatus, cache, process, locals
<1>17. ASSUME UserEdit PROVE Lock /\ SnapCurrent' /\ Control'
  <2>1. PICK new \in VM : StoreVM(new) /\ new.cdrom = vm.cdrom
    BY <1>0, <1>17, EditStores
  <2> QED
    BY <1>17, <2>1, EnvironmentFrame DEF UserEdit, cache, process, locals
<1>18. ASSUME UNCHANGED vars PROVE Lock /\ SnapCurrent' /\ Control'
  BY <1>18, StoreSame, EnvironmentFrame DEF vars
<1> QED
  BY <1>0, <1>1, <1>2, <1>3, <1>4, <1>5, <1>6, <1>7, <1>8, <1>9, <1>10, <1>11, <1>12,
     <1>13, <1>14, <1>15, <1>16, <1>17, <1>18, <1>19 DEF Next, Step, Environment, IndInv

(* The inductive invariant holds in every reachable state.                 *)
LEMMA IndCorrect == Spec => []IndInv
  BY IndInit, IndStep, PTL DEF Spec

(* The machine never refers to a DataVolume that does not exist and never  *)
(* gets a second CD-ROM volume, however InsertMedia and EjectMedia         *)
(* interleave with each other, with failing calls and with crashes.        *)
THEOREM MediaSafe == Spec => []AttachedMediaExists
<1>1. IndInv => AttachedMediaExists
  BY DEF IndInv
<1> QED
  BY <1>1, IndCorrect, PTL

(* At most one request at a time is between creating and attaching, or     *)
(* between detaching and deleting, the machine's DataVolume.               *)
THEOREM MediaLocked == Spec => []MediaLock
<1>1. IndInv => MediaLock
  BY DEF IndInv
<1> QED
  BY <1>1, IndCorrect, PTL

(* EjectMedia deletes the DataVolume only when the machine no longer       *)
(* refers to it, and no InsertMedia ever replaces it while it does.        *)
THEOREM MediaStable == Spec => AttachedMediaStable
<1>1. ASSUME IndInv, [Next]_vars PROVE [vm.cdrom = 1 => dv' = dv]_vars
  <2> SUFFICES ASSUME vm.cdrom = 1, dv' # dv PROVE FALSE
    OBVIOUS
  <2>1. \E r \in Requests : CreateDV(r) \/ DeleteDV(r)
    BY <1>1 DEF Next, Step, Environment, vars, cluster, Receive, GetVM, GetRemoteFileSize, UpdateVM,
                DeleteVMI, SetVirtualMedia, SetBootOverride, SetPowerState, Encode, Ack, Recover,
                Forget, Call, Initialize, Cancel, Crash, KubeVirtInstance, KubeVirtStatus, UserEdit
  <2>2. PICK r \in Requests : CreateDV(r) \/ DeleteDV(r)
    BY <2>1
  <2>3. CASE CreateDV(r)
    BY <1>1, <2>3 DEF CreateDV, IndInv, AttachedMediaExists
  <2>4. CASE DeleteDV(r)
    BY <1>1, <2>4 DEF DeleteDV, IndInv, MediaLock, HoldsMedia, Control
  <2> QED
    BY <2>2, <2>3, <2>4
<1> QED
  BY <1>1, IndCorrect, PTL DEF Spec, AttachedMediaStable

-----------------------------------------------------------------------------
(* What the requests write is valid.                                       *)

(* A run policy stays valid when its two fields stay, distinct boot orders *)
(* stay distinct when both lists stay.                                     *)
LEMMA ValidFields ==
  ASSUME NEW s, NEW t, ValidRun(s), DistinctOrders(s),
         t.strategy = s.strategy, t.running = s.running, t.intf = s.intf, t.disk = s.disk
  PROVE  ValidRun(t) /\ DistinctOrders(t)
<1>1. ValidRun(t)
  BY DEF ValidRun
<1>2. DistinctOrders(t)
  BY DEF DistinctOrders
<1> QED
  BY <1>1, <1>2

(* Every operation turns a valid object into a valid one.                  *)
LEMMA EffectValid ==
  ASSUME NEW o, NEW s \in VM, ValidRun(s), DistinctOrders(s)
  PROVE  ValidRun(Effect(o, s)) /\ DistinctOrders(Effect(o, s))
<1>1. ASSUME NEW a \in {"true", "false"}, NEW b \in {"RerunOnFailure", "Halted"}
      PROVE  ValidRun(SetPower(s, a, b)) /\ DistinctOrders(SetPower(s, a, b))
  <2> DEFINE t == SetPower(s, a, b)
  <2>1. t.intf = s.intf /\ t.disk = s.disk
    BY DEF SetPower, VM
  <2>2. CASE s.strategy = "nil"
    <3>1. t.strategy = "nil" /\ t.running = a
      BY <2>2 DEF SetPower, VM
    <3> QED
      BY <2>1, <3>1 DEF ValidRun, DistinctOrders
  <2>3. CASE s.strategy # "nil"
    <3>1. t.strategy = b /\ t.running = s.running
      BY <2>3 DEF SetPower, VM
    <3> QED
      BY <2>1, <2>3, <3>1 DEF ValidRun, DistinctOrders
  <2> QED
    BY <2>2, <2>3
<1>2. ValidRun(SetBoot(s, o)) /\ DistinctOrders(SetBoot(s, o))
  <2> DEFINE t == SetBoot(s, o)
             F == [i \in 1..NumIntf |-> IF o = "BootPxe" /\ i = 1 THEN 1 ELSE 0]
             G == [i \in 1..NumDisk |-> IF o = "BootHdd" /\ i = 1 THEN 1 ELSE 0]
  <2>1. t.strategy = s.strategy /\ t.running = s.running /\ t.intf = F /\ t.disk = G
    BY DEF SetBoot, VM
  <2>2. ValidRun(t)
    BY <2>1 DEF ValidRun
  <2>3. /\ \A i \in 1..NumIntf : F[i] # 0 => i = 1 /\ F[i] = 1 /\ o = "BootPxe"
        /\ \A i \in 1..NumDisk : G[i] # 0 => i = 1 /\ G[i] = 1 /\ o = "BootHdd"
    OBVIOUS
  <2> HIDE DEF F, G
  <2>4. /\ \A i, j \in 1..NumIntf : F[i] # 0 /\ F[i] = F[j] => i = j
        /\ \A i, j \in 1..NumDisk : G[i] # 0 /\ G[i] = G[j] => i = j
        /\ \A i \in 1..NumIntf, j \in 1..NumDisk : F[i] # 0 => F[i] # G[j]
    BY <2>3
  <2>5. DistinctOrders(t)
    BY <2>1, <2>4 DEF DistinctOrders
  <2> QED
    BY <2>2, <2>5
<1>3. ValidRun(Attach(s)) /\ DistinctOrders(Attach(s))
  <2>1. /\ Attach(s).strategy = s.strategy /\ Attach(s).running = s.running
        /\ Attach(s).intf = s.intf /\ Attach(s).disk = s.disk
    BY DEF Attach, VM
  <2> QED
    BY <2>1, ValidFields
<1>4. ValidRun(Detach(s)) /\ DistinctOrders(Detach(s))
  <2>1. /\ Detach(s).strategy = s.strategy /\ Detach(s).running = s.running
        /\ Detach(s).intf = s.intf /\ Detach(s).disk = s.disk
    BY DEF Detach, VM
  <2> QED
    BY <2>1, ValidFields
<1> QED
  BY <1>1, <1>2, <1>3, <1>4 DEF Effect

(* The machine users have created is valid.                                *)
LEMMA ValidInit == Init => MachineValid
<1> SUFFICES ASSUME Init PROVE MachineValid
  OBVIOUS
<1>1. PICK c \in RunConfigs : vm = WithRun(BlankVM, c)
  BY DEF Init
<1>2. /\ vm.strategy = c.strategy /\ vm.running = c.running
      /\ vm.intf = [i \in 1..NumIntf |-> 0] /\ vm.disk = [i \in 1..NumDisk |-> 0]
  BY <1>1 DEF WithRun, BlankVM
<1>3. ValidRun(vm)
  BY <1>2 DEF RunConfigs, ValidRun
<1>4. DistinctOrders(vm)
  BY <1>2 DEF DistinctOrders
<1> QED
  BY <1>3, <1>4 DEF MachineValid

(* Every step keeps the machine valid.                                     *)
LEMMA ValidStep == IndInv /\ MachineValid /\ [Next]_vars => MachineValid'
<1> SUFFICES ASSUME IndInv, MachineValid, [Next]_vars PROVE MachineValid'
  OBVIOUS
<1>0. vm \in VM /\ ValidRun(vm) /\ DistinctOrders(vm)
  BY DEF IndInv, TypeOK, MachineValid
<1>1. CASE UNCHANGED vm
  BY <1>0, <1>1 DEF MachineValid
<1>2. ASSUME NEW r \in Requests, UpdateVM(r), vm' # vm PROVE MachineValid'
  <2>1. fresh[r] /\ pc[r] = "updateVM" /\ vm' = Effect(op[r], snap[r])
    BY <1>2 DEF UpdateVM, StoreVM
  <2>2. snap[r] = vm
    BY <2>1 DEF IndInv, SnapCurrent
  <2> QED
    BY <1>0, <2>1, <2>2, EffectValid DEF MachineValid
<1>3. CASE KubeVirtStatus
  <2>1. /\ vm'.strategy = vm.strategy /\ vm'.running = vm.running
        /\ vm'.intf = vm.intf /\ vm'.disk = vm.disk
    BY <1>0, <1>3 DEF KubeVirtStatus, StoreVM, VM
  <2> QED
    BY <1>0, <2>1, ValidFields DEF MachineValid
<1>4. CASE UserEdit
  <2>1. CASE \E c \in RunConfigs : StoreVM(WithRun(vm, c))
    <3>1. PICK c \in RunConfigs : vm' = WithRun(vm, c)
      BY <2>1 DEF StoreVM
    <3>2. /\ vm'.strategy = c.strategy /\ vm'.running = c.running
          /\ vm'.intf = vm.intf /\ vm'.disk = vm.disk
      BY <1>0, <3>1 DEF WithRun, VM
    <3>3. ValidRun(vm')
      BY <3>2 DEF RunConfigs, ValidRun
    <3>4. DistinctOrders(vm')
      BY <1>0, <3>2 DEF DistinctOrders
    <3> QED
      BY <3>3, <3>4 DEF MachineValid
  <2>2. CASE \E b \in BootConfigs : DistinctOrders(b) /\ StoreVM(WithBoot(vm, b))
    <3>1. PICK b \in BootConfigs : DistinctOrders(b) /\ vm' = WithBoot(vm, b)
      BY <2>2 DEF StoreVM
    <3>2. /\ vm'.strategy = vm.strategy /\ vm'.running = vm.running
          /\ vm'.intf = b.intf /\ vm'.disk = b.disk
      BY <1>0, <3>1 DEF WithBoot, VM
    <3>3. ValidRun(vm')
      BY <1>0, <3>2 DEF ValidRun
    <3>4. DistinctOrders(vm')
      BY <3>1, <3>2 DEF DistinctOrders
    <3> QED
      BY <3>3, <3>4 DEF MachineValid
  <2>3. CASE \E f \in BOOLEAN : StoreVM(WithForeign(vm, f))
    <3>1. /\ vm'.strategy = vm.strategy /\ vm'.running = vm.running
          /\ vm'.intf = vm.intf /\ vm'.disk = vm.disk
      BY <1>0, <2>3 DEF StoreVM, WithForeign, VM
    <3> QED
      BY <1>0, <3>1, ValidFields DEF MachineValid
  <2> QED
    BY <1>4, <2>1, <2>2, <2>3 DEF UserEdit
<1>5. UNCHANGED vm \/ (\E r \in Requests : UpdateVM(r)) \/ KubeVirtStatus \/ UserEdit
  BY DEF Next, Step, Environment, vars, cluster, Receive, Call, GetVM, GetRemoteFileSize,
         CreateDV, DeleteDV, DeleteVMI, SetVirtualMedia, SetBootOverride, SetPowerState,
         Encode, Ack, Recover, Forget, Initialize, Cancel, Crash, KubeVirtInstance
<1> QED
  BY <1>1, <1>2, <1>3, <1>4, <1>5

(* Whatever users had set before and however requests interleave, the      *)
(* agent never leaves the machine with both Running and RunStrategy or     *)
(* with two devices of the same boot order.                                *)
THEOREM AlwaysValid == Spec => []MachineValid
<1>1. IndInv /\ IndInv' /\ MachineValid /\ [Next]_vars => MachineValid'
  BY ValidStep
<1> QED
  BY <1>1, ValidInit, IndCorrect, PTL DEF Spec

-----------------------------------------------------------------------------
(* Refinement: the requests act on the machine atomically.                 *)

(* Both specifications use the operators of module VirtualMachine.         *)
LEMMA SameOperators ==
  /\ Atomic!VM = VM
  /\ Atomic!AllOps = AllOps
  /\ \A o, s : Atomic!Applicable(o, s) <=> Applicable(o, s)
  /\ \A o, s : Atomic!Effect(o, s) = Effect(o, s)
<1>1. Atomic!VM = VM
  BY DEF VM, Atomic!VM, Strategies, Atomic!Strategies, RunningValues, Atomic!RunningValues
<1>2. /\ Atomic!MediaOps = MediaOps /\ Atomic!BootOps = BootOps
      /\ Atomic!PowerOps = PowerOps /\ Atomic!ReadOps = ReadOps
  BY DEF MediaOps, Atomic!MediaOps, BootOps, Atomic!BootOps, PowerOps, Atomic!PowerOps,
         ReadOps, Atomic!ReadOps
<1>3. Atomic!AllOps = AllOps
  BY <1>2 DEF AllOps, Atomic!AllOps
<1>4. \A o, s : Atomic!Applicable(o, s) <=> Applicable(o, s)
  BY <1>2 DEF Applicable, Atomic!Applicable
<1>5. ASSUME NEW o, NEW s PROVE Atomic!Effect(o, s) = Effect(o, s)
  <2>1. \A a, b : Atomic!SetPower(s, a, b) = SetPower(s, a, b)
    BY DEF SetPower, Atomic!SetPower
  <2>2. /\ Atomic!SetBoot(s, o) = SetBoot(s, o)
        /\ Atomic!Attach(s) = Attach(s)
        /\ Atomic!Detach(s) = Detach(s)
    BY DEF SetBoot, Atomic!SetBoot, Attach, Atomic!Attach, Detach, Atomic!Detach
  <2> QED
    BY <1>2, <2>1, <2>2 DEF Effect, Atomic!Effect
<1> QED
  BY <1>1, <1>3, <1>4, <1>5

(* Initial states of the agent map to initial states of AtomicBmc.         *)
LEMMA AtomicInit == Init => Atomic!Init
<1> SUFFICES ASSUME Init PROVE Atomic!Init
  OBVIOUS
<1>1. vm \in VM
  BY TypeInit DEF TypeOK
<1>2. [r \in Requests |-> Phase(pc[r])] = [r \in Requests |-> "idle"]
  BY DEF Init, Phase
<1> QED
  BY <1>1, <1>2, SameOperators DEF Init, Atomic!Init

(* Moving one request's pc moves its phase.                                *)
LEMMA PhaseMove ==
  ASSUME NEW r \in Requests, NEW label, Goto(r, label), TypeOK
  PROVE  [s \in Requests |-> Phase(pc[s])]' =
         [[s \in Requests |-> Phase(pc[s])] EXCEPT ![r] = Phase(label)]
  BY DEF Goto, TypeOK

(* Every step maps to a step of AtomicBmc or leaves its state alone.       *)
LEMMA AtomicStep == IndInv /\ [Next]_vars => [Atomic!Next]_(Atomic!vars)
<1> SUFFICES ASSUME IndInv, [Next]_vars PROVE [Atomic!Next]_(Atomic!vars)
  OBVIOUS
<1> DEFINE phase == [s \in Requests |-> Phase(pc[s])]
<1>0. TypeOK /\ TypeOK' /\ Control
  BY TypeStep DEF IndInv
<1>1. ASSUME NEW r \in Requests, Receive(r) PROVE Atomic!Invoke(r)
  <2>0. PICK o \in AllOps : \E i \in Arguments(o) : Call(r, o, i)
    BY <1>1, ReceiveCalls
  <2>1. PICK i \in Arguments(o) : Call(r, o, i)
    BY <2>0
  <2>2. Goto(r, FirstStep(o)) /\ Phase(FirstStep(o)) = "pending"
    BY <2>1 DEF Call, FirstStep, Phase
  <2>3. phase' = [phase EXCEPT ![r] = "pending"]
    BY <2>2, <1>0, PhaseMove
  <2>4. phase[r] = "idle" /\ UNCHANGED <<vm, vmi>> /\ op' = [op EXCEPT ![r] = o]
    BY <2>1 DEF Call, cluster, Phase
  <2> QED
    BY <2>3, <2>4, SameOperators DEF Atomic!Invoke
(* A step of a request that leaves the machine and its instance alone.     *)
<1>2. ASSUME NEW r \in Requests, NEW label, Goto(r, label), UNCHANGED <<vm, vmi, op>>,
             \/ Phase(label) = Phase(pc[r])
             \/ Phase(pc[r]) \in {"pending", "applied"} /\ Phase(label) = "error"
             \/ Phase(pc[r]) = "applied" /\ Phase(label) = "ok"
      PROVE  [Atomic!Next]_(Atomic!vars)
  <2>1. phase' = [phase EXCEPT ![r] = Phase(label)] /\ phase[r] = Phase(pc[r])
    BY <1>2, <1>0, PhaseMove
  <2>2. CASE Phase(label) = Phase(pc[r])
    <3>1. phase' = phase
      BY <2>1, <2>2
    <3> QED
      BY <1>2, <3>1 DEF Atomic!vars
  <2>3. CASE Phase(pc[r]) \in {"pending", "applied"} /\ Phase(label) = "error"
    <3>1. Atomic!Fail(r)
      BY <1>2, <2>1, <2>3 DEF Atomic!Fail
    <3> QED
      BY <3>1 DEF Atomic!Next
  <2>4. CASE Phase(pc[r]) = "applied" /\ Phase(label) = "ok"
    <3>1. Atomic!Succeed(r)
      BY <1>2, <2>1, <2>4 DEF Atomic!Succeed
    <3> QED
      BY <3>1 DEF Atomic!Next
  <2> QED
    BY <1>2, <2>2, <2>3, <2>4
(* A step of a request in which it takes effect.                           *)
<1>3. ASSUME NEW r \in Requests, NEW label, Goto(r, label), UNCHANGED op,
             Phase(pc[r]) = "pending", Phase(label) \in {"applied", "ok", "error"},
             Applicable(op[r], vm), op[r] = "PowerCycle" => vmi,
             vm' = Effect(op[r], vm), vmi' = (vmi /\ op[r] # "PowerCycle")
      PROVE  [Atomic!Next]_(Atomic!vars)
  <2>1. phase' = [phase EXCEPT ![r] = Phase(label)] /\ phase[r] = "pending"
    BY <1>3, <1>0, PhaseMove
  <2>2. Atomic!Apply(r)
    BY <1>3, <2>1, SameOperators DEF Atomic!Apply
  <2> QED
    BY <2>2 DEF Atomic!Next
<1>4. ASSUME NEW r \in Requests, GetVM(r) PROVE [Atomic!Next]_(Atomic!vars)
  <2>0. /\ pc[r] = "get" /\ UNCHANGED <<vm, vmi, op>> /\ Phase(pc[r]) = "pending"
        /\ op[r] \in AllOps \ {"PowerCycle", "GetMedia"}
    BY <1>4, <1>0 DEF GetVM, cluster, Control, Phase
  <2>1. CASE Goto(r, "panic") \/ Goto(r, "error")
    BY <2>0, <2>1, <1>2 DEF Phase
  <2>2. CASE Applicable(op[r], vm) /\ Goto(r, AfterGet(op[r]))
    <3>1. CASE op[r] \in {"GetPower", "GetSystem"}
      <4>1. Phase(AfterGet(op[r])) \in {"applied", "ok"} /\ Effect(op[r], vm) = vm
        BY <3>1 DEF AfterGet, Phase, Effect, BootOps
      <4>2. vmi' = (vmi /\ op[r] # "PowerCycle")
        BY <2>0, <3>1, <1>0 DEF TypeOK
      <4> QED
        BY <2>0, <2>2, <3>1, <4>1, <4>2, <1>3
    <3>2. CASE op[r] \notin {"GetPower", "GetSystem"}
      <4>1. Phase(AfterGet(op[r])) = "pending"
        BY <3>2, <2>0 DEF AfterGet, Phase
      <4> QED
        BY <2>0, <2>2, <4>1, <1>2
    <3> QED
      BY <3>1, <3>2
  <2> QED
    BY <1>4, <2>1, <2>2 DEF GetVM
<1>5. ASSUME NEW r \in Requests, GetRemoteFileSize(r) \/ CreateDV(r)
      PROVE  [Atomic!Next]_(Atomic!vars)
  <2>1. /\ pc[r] \in {"head", "createDV"} /\ UNCHANGED <<vm, vmi, op>>
        /\ Goto(r, "createDV") \/ Goto(r, "updateVM") \/ Goto(r, "error")
    BY <1>5 DEF GetRemoteFileSize, CreateDV, cluster, locals
  <2> QED
    BY <2>1, <1>2 DEF Phase
<1>6. ASSUME NEW r \in Requests, UpdateVM(r) PROVE [Atomic!Next]_(Atomic!vars)
  <2>0. /\ pc[r] = "updateVM" /\ UNCHANGED <<vmi, op>> /\ Phase(pc[r]) = "pending"
        /\ op[r] \in PowerOps \cup BootOps \cup MediaOps /\ Applicable(op[r], snap[r])
    BY <1>6, <1>0 DEF UpdateVM, Control, Phase
  <2>1. CASE UNCHANGED vm /\ Goto(r, "error")
    BY <2>0, <2>1, <1>2 DEF Phase
  <2>2. CASE fresh[r] /\ StoreVM(Effect(op[r], snap[r]))
             /\ (Goto(r, AfterUpdate(op[r])) \/ Goto(r, "error"))
    <3>1. snap[r] = vm /\ vm' = Effect(op[r], vm)
      BY <2>0, <2>2 DEF IndInv, SnapCurrent, StoreVM
    <3>2. Phase(AfterUpdate(op[r])) \in {"applied", "ok"} /\ Phase("error") = "error"
      BY DEF AfterUpdate, Phase
    <3>3. op[r] # "PowerCycle" /\ vmi' = (vmi /\ op[r] # "PowerCycle")
      BY <2>0, <1>0 DEF PowerOps, BootOps, MediaOps, TypeOK
    <3> QED
      BY <2>0, <2>2, <3>1, <3>2, <3>3, <1>3
  <2> QED
    BY <1>6, <2>1, <2>2 DEF UpdateVM
<1>7. ASSUME NEW r \in Requests, DeleteVMI(r) PROVE [Atomic!Next]_(Atomic!vars)
  <2>0. /\ pc[r] = "deleteVMI" /\ UNCHANGED <<vm, op>> /\ op[r] = "PowerCycle"
        /\ Phase(pc[r]) = "pending"
    BY <1>7, <1>0 DEF DeleteVMI, Control, Phase, locals
  <2>1. CASE UNCHANGED vmi /\ Goto(r, "error")
    BY <2>0, <2>1, <1>2 DEF Phase
  <2>2. CASE vmi /\ vmi' = FALSE /\ (Goto(r, "ok") \/ Goto(r, "error"))
    <3>1. Effect(op[r], vm) = vm /\ Applicable(op[r], vm)
      BY <2>0 DEF Effect, Applicable, BootOps, MediaOps
    <3>2. Phase("ok") = "ok" /\ Phase("error") = "error"
      BY DEF Phase
    <3>3. vmi' = (vmi /\ op[r] # "PowerCycle")
      BY <2>0, <2>2
    <3> QED
      BY <2>0, <2>2, <3>1, <3>2, <3>3, <1>3
  <2> QED
    BY <1>7, <2>1, <2>2 DEF DeleteVMI
<1>8. ASSUME NEW r \in Requests,
             DeleteDV(r) \/ SetVirtualMedia(r) \/ SetBootOverride(r) \/ SetPowerState(r)
      PROVE  [Atomic!Next]_(Atomic!vars)
  <2>1. /\ UNCHANGED <<vm, vmi, op>>
        /\ pc[r] \in {"deleteDV", "setImage", "setInserted", "setVia", "setEnabled",
                      "setTarget", "setPower"}
        /\ \E label \in {"setImage", "setInserted", "setVia", "setTarget", "encode", "ok", "error"} :
              Goto(r, label)
    BY <1>8 DEF DeleteDV, SetVirtualMedia, SetBootOverride, SetPowerState, cluster, locals
  <2> QED
    BY <2>1, <1>2 DEF Phase
<1>9. ASSUME NEW r \in Requests, Encode(r) PROVE [Atomic!Next]_(Atomic!vars)
  <2>0. UNCHANGED <<vm, vmi, op>> /\ Goto(r, "ok") /\ Phase("ok") = "ok"
    BY <1>9 DEF Encode, cluster, Phase
  <2>1. CASE pc[r] = "encode"
    BY <2>0, <2>1, <1>2 DEF Phase
  <2>2. CASE pc[r] = "encodeMedia"
    <3>1. op[r] = "GetMedia" /\ Phase(pc[r]) = "pending"
      BY <2>2, <1>0 DEF Control, Phase
    <3>2. Effect(op[r], vm) = vm /\ Applicable(op[r], vm)
      BY <3>1 DEF Effect, Applicable, BootOps, MediaOps
    <3>3. vmi' = (vmi /\ op[r] # "PowerCycle")
      BY <2>0, <3>1, <1>0 DEF TypeOK
    <3> QED
      BY <2>0, <3>1, <3>2, <3>3, <1>3
  <2> QED
    BY <1>9, <2>1, <2>2 DEF Encode
<1>10. ASSUME NEW r \in Requests, Ack(r) \/ Recover(r) PROVE Atomic!Ack(r)
  <2>0. Forget(r) /\ pc[r] \in {"ok", "error", "panic"}
    BY <1>10 DEF Ack, Recover
  <2>1. phase' = [phase EXCEPT ![r] = "idle"] /\ phase[r] \in {"ok", "error"}
    BY <2>0, <1>0, PhaseMove DEF Forget, Phase
  <2> QED
    BY <2>0, <2>1 DEF Forget, Atomic!Ack, cluster
<1>11. CASE Crash
  <2>1. phase' = [s \in Requests |-> "idle"]
    BY <1>11 DEF Crash, Phase
  <2>2. Atomic!Crash
    BY <1>11, <2>1 DEF Crash, Atomic!Crash, cluster
  <2> QED
    BY <2>2 DEF Atomic!Next
<1>12. CASE Initialize \/ Cancel \/ UNCHANGED vars
  BY <1>12 DEF Initialize, Cancel, vars, Atomic!vars, cluster, locals
<1>13. CASE KubeVirtInstance \/ KubeVirtStatus \/ UserEdit
  <2>1. UNCHANGED <<pc, op>>
    BY <1>13 DEF KubeVirtInstance, KubeVirtStatus, UserEdit, locals
  <2>2. vm'.cdrom = vm.cdrom
    <3>0. vm \in VM
      BY <1>0 DEF TypeOK
    <3>1. CASE KubeVirtInstance
      BY <3>1 DEF KubeVirtInstance
    <3>2. CASE KubeVirtStatus
      BY <3>0, <3>2 DEF KubeVirtStatus, StoreVM, VM
    <3>3. CASE UserEdit
      <4>1. PICK new \in VM : StoreVM(new) /\ new.cdrom = vm.cdrom
        BY <1>0, <3>3, EditStores
      <4> QED
        BY <4>1 DEF StoreVM
    <3> QED
      BY <1>13, <3>1, <3>2, <3>3
  <2>3. vm' \in VM /\ vmi' \in BOOLEAN
    BY <1>0 DEF TypeOK
  <2>4. Atomic!Environment
    BY <2>1, <2>2, <2>3, SameOperators DEF Atomic!Environment
  <2> QED
    BY <2>4 DEF Atomic!Next
<1> QED
  BY <1>1, <1>4, <1>5, <1>6, <1>7, <1>8, <1>9, <1>10, <1>11, <1>12, <1>13
     DEF Next, Step, Environment, Atomic!Next

(* The agent's operations on the machine and its instance are atomic, take *)
(* effect at most once and before they are answered "ok", and no operation *)
(* overwrites what another, a user or KubeVirt has written since it read   *)
(* the machine: ResourceManager implements AtomicBmc.                      *)
THEOREM Refinement == Spec => ImplementsAtomicBmc
  BY AtomicInit, AtomicStep, IndCorrect, PTL DEF Spec, ImplementsAtomicBmc, Atomic!Spec
=============================================================================
