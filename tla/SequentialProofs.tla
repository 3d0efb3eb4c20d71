-------------------------- MODULE SequentialProofs --------------------------
(***************************************************************************)
(* Proofs of what the agent promises a client that waits for each reply    *)
(* before it sends the next command: success replies are true, and the     *)
(* cached resources agree with the machine.  Each theorem names the faults *)
(* under which its property would be false; every other one is allowed.    *)
(***************************************************************************)
EXTENDS AgentProofs

(* One request is served at a time.                                        *)
OneAtATime == \E r : Requests = {r}

-----------------------------------------------------------------------------
(* What a step does to the one request that there is.                      *)

(* Every step is one of the request, of the process or of the environment. *)
LEMMA Solo ==
  ASSUME OneAtATime, NEW r \in Requests, [Next]_vars
  PROVE  \/ Receive(r) \/ Step(r) \/ Ack(r) \/ Recover(r)
         \/ Initialize \/ Cancel \/ Crash \/ Environment
         \/ UNCHANGED vars
<1>1. \A s \in Requests : s = r
  BY DEF OneAtATime
<1> QED
  BY <1>1 DEF Next

(* Where a request goes.                                                   *)
LEMMA GotoSelf ==
  ASSUME TypeOK, NEW r \in Requests, NEW label, Goto(r, label)
  PROVE  pc'[r] = label
  BY DEF TypeOK, Goto

(* A request that arrives starts at the first point of its operation.      *)
LEMMA ReceiveMoves ==
  ASSUME TypeOK, NEW r \in Requests, Receive(r)
  PROVE  /\ pc[r] = "idle" /\ pc'[r] \in {"get", "deleteVMI", "encodeMedia"}
         /\ UNCHANGED <<vm, dv, up, ctx, cs, media>>
<1>1. PICK o \in AllOps : \E i \in Arguments(o) : Call(r, o, i)
  BY ReceiveCalls
<1>2. PICK i \in Arguments(o) : Call(r, o, i)
  BY <1>1
<1>3. pc'[r] = FirstStep(o)
  BY <1>2, GotoSelf DEF Call
<1> QED
  BY <1>2, <1>3 DEF Call, FirstStep, cluster, cache, process

(* The read of the machine: an early return, or a copy of the machine.     *)
LEMMA GetMoves ==
  ASSUME IndInv, NEW r \in Requests, GetVM(r)
  PROVE  /\ pc[r] = "get" /\ op[r] \in AllOps \ {"PowerCycle", "GetMedia"}
         /\ UNCHANGED <<vm, dv, up, ctx, cs, media, op, arg>>
         /\ \/ pc'[r] \in {"error", "panic"}
            \/ /\ pc'[r] = AfterGet(op[r])
               /\ snap'[r] = vm
               /\ op[r] = "GetPower" => out'[r] = Power(vm.ready)
<1>0. TypeOK
  BY DEF IndInv
<1>F. snap \in [Requests -> VM] /\ out \in [Requests -> {"On", "Off", "none"}]
  BY <1>0 DEF TypeOK
<1>1. /\ pc[r] = "get" /\ op[r] \in AllOps \ {"PowerCycle", "GetMedia"}
      /\ UNCHANGED <<vm, dv, up, ctx, cs, media, op, arg>>
  BY DEF GetVM, IndInv, Control, cluster, cache, process
<1>2. CASE Goto(r, "panic") \/ Goto(r, "error")
  BY <1>0, <1>1, <1>2, GotoSelf
<1>3. CASE /\ Goto(r, AfterGet(op[r]))
           /\ snap' = [snap EXCEPT ![r] = vm]
           /\ out' = IF op[r] = "GetPower" THEN [out EXCEPT ![r] = Power(vm.ready)] ELSE out
  <2>1. pc'[r] = AfterGet(op[r])
    BY <1>0, <1>3, GotoSelf
  <2>2. snap'[r] = vm
    BY <1>F, <1>3
  <2>3. op[r] = "GetPower" => out'[r] = Power(vm.ready)
    BY <1>F, <1>3
  <2> QED
    BY <1>1, <2>1, <2>2, <2>3
<1> QED
  BY <1>2, <1>3 DEF GetVM

(* The update: it is carried out on the machine as it is, or fails.        *)
LEMMA UpdateMoves ==
  ASSUME IndInv, NEW r \in Requests, UpdateVM(r)
  PROVE  /\ pc[r] = "updateVM" /\ op[r] \in PowerOps \cup BootOps \cup MediaOps
         /\ UNCHANGED <<dv, up, ctx, cs, media, op, arg>>
         /\ \/ pc'[r] = AfterUpdate(op[r]) /\ vm' = Effect(op[r], vm)
            \/ pc'[r] = "error" /\ vm' = vm
            \/ pc'[r] = "error" /\ vm' = Effect(op[r], vm) /\ FailsDone
         /\ Applicable(op[r], snap[r]) /\ (vm' # vm => snap[r] = vm)
         /\ pc'[r] # "error" => snap[r] = vm
<1>0. TypeOK
  BY DEF IndInv
<1>1. /\ pc[r] = "updateVM" /\ op[r] \in PowerOps \cup BootOps \cup MediaOps
      /\ UNCHANGED <<dv, up, ctx, cs, media, op, arg>> /\ Applicable(op[r], snap[r])
  BY DEF UpdateVM, IndInv, Control, cache, process
<1>2. CASE /\ fresh[r]
           /\ StoreVM(Effect(op[r], snap[r]))
           /\ Goto(r, AfterUpdate(op[r])) \/ (FailsDone /\ Goto(r, "error"))
  <2>1. snap[r] = vm
    BY <1>1, <1>2 DEF IndInv, SnapCurrent
  <2>2. vm' = Effect(op[r], vm)
    BY <1>2, <2>1 DEF StoreVM
  <2>3. pc'[r] = AfterUpdate(op[r]) \/ (FailsDone /\ pc'[r] = "error")
    BY <1>0, <1>2, GotoSelf
  <2> QED
    BY <1>1, <2>1, <2>2, <2>3
<1>3. CASE Goto(r, "error") /\ vm' = vm
  BY <1>0, <1>1, <1>3, GotoSelf
<1> QED
  BY <1>2, <1>3 DEF UpdateVM

(* The other calls to servers.                                             *)
LEMMA CallMoves ==
  ASSUME IndInv, NEW r \in Requests,
         GetRemoteFileSize(r) \/ CreateDV(r) \/ DeleteDV(r) \/ DeleteVMI(r)
  PROVE  /\ UNCHANGED <<vm, up, ctx, cs, media, op, arg>>
         /\ \/ pc[r] = "head" /\ pc'[r] \in {"createDV", "error"} /\ dv' = dv
            \/ pc[r] = "createDV" /\ pc'[r] = "updateVM" /\ dv' = arg[r] /\ dv = NoImage
            \/ pc[r] = "createDV" /\ pc'[r] = "error" /\ (dv' = dv \/ dv = NoImage)
            \/ pc[r] = "deleteDV" /\ pc'[r] = "setImage" /\ dv' = NoImage
            \/ pc[r] = "deleteDV" /\ pc'[r] = "error" /\ (FailsUndone \/ FailsDone)
            \/ pc[r] = "deleteVMI" /\ pc'[r] \in {"ok", "error"} /\ dv' = dv
<1>0. TypeOK
  BY DEF IndInv
<1>1. UNCHANGED <<vm, up, ctx, cs, media, op, arg>>
  BY DEF GetRemoteFileSize, CreateDV, DeleteDV, DeleteVMI, cluster, cache, process, locals
<1>2. \A label : Goto(r, label) => pc'[r] = label
  BY <1>0, GotoSelf
<1>3. CASE GetRemoteFileSize(r)
  BY <1>1, <1>2, <1>3 DEF GetRemoteFileSize, cluster
<1>4. CASE CreateDV(r)
  BY <1>1, <1>2, <1>4 DEF CreateDV
<1>5. CASE DeleteDV(r)
  <2>1. pc[r] = "deleteDV" /\ op[r] = "Eject"
    BY <1>5 DEF DeleteDV, IndInv, Control
  <2>2. dv # NoImage
    BY <2>1 DEF IndInv, MediaLock, HoldsMedia
  <2> QED
    BY <1>1, <1>2, <1>5, <2>2 DEF DeleteDV
<1>6. CASE DeleteVMI(r)
  BY <1>1, <1>2, <1>6 DEF DeleteVMI
<1> QED
  BY <1>3, <1>4, <1>5, <1>6

(* The writes to the shared resources, and the reply's encoding.           *)
LEMMA WriteMoves ==
  ASSUME IndInv, NEW r \in Requests,
         SetVirtualMedia(r) \/ SetBootOverride(r) \/ SetPowerState(r) \/ Encode(r)
  PROVE  /\ UNCHANGED <<vm, dv, up, ctx, op, arg, snap, fresh>>
         /\ \/ /\ pc[r] = "setImage" /\ pc'[r] = "setInserted"
               /\ media'.image = arg[r] /\ media'.inserted = media.inserted /\ cs' = cs
            \/ /\ pc[r] = "setInserted" /\ pc'[r] = "setVia"
               /\ media'.image = media.image /\ media'.inserted = (op[r] = "Insert") /\ cs' = cs
            \/ /\ pc[r] = "setVia" /\ pc'[r] = "ok"
               /\ media'.image = media.image /\ media'.inserted = media.inserted /\ cs' = cs
            \/ /\ pc[r] = "setEnabled" /\ pc'[r] = "setTarget" /\ op[r] \in BootOps
               /\ cs'.target = cs.target /\ media' = media
            \/ /\ pc[r] = "setTarget" /\ pc'[r] = "ok" /\ op[r] \in BootOps
               /\ cs'.target = BootSource(op[r]) /\ media' = media
            \/ /\ pc[r] = "setPower" /\ pc'[r] = "encode" /\ media' = media
               /\ cs'.power = Power(snap[r].ready)
               /\ cs'.enabled = cs.enabled /\ cs'.target = cs.target
            \/ /\ pc[r] \in {"encode", "encodeMedia"} /\ pc'[r] = "ok" /\ UNCHANGED <<cs, media>>
               /\ pc[r] = "encodeMedia" => op[r] = "GetMedia"
               /\ op[r] = "GetSystem" => out'[r] = cs.power
<1>0. TypeOK
  BY DEF IndInv
<1>F. /\ out \in [Requests -> {"On", "Off", "none"}] /\ cs \in ComputerSystem
      /\ media \in VirtualMedia
  BY <1>0 DEF TypeOK
<1>1. UNCHANGED <<vm, dv, up, ctx, op, arg, snap, fresh>>
  BY DEF SetVirtualMedia, SetBootOverride, SetPowerState, Encode, cluster, cache, process, locals
<1>2. \A label : Goto(r, label) => pc'[r] = label
  BY <1>0, GotoSelf
<1>3. CASE SetVirtualMedia(r)
  BY <1>1, <1>2, <1>3, <1>F DEF SetVirtualMedia, VirtualMedia
<1>4. CASE SetBootOverride(r)
  <2>1. pc[r] \in {"setEnabled", "setTarget"} /\ op[r] \in BootOps
    BY <1>4 DEF SetBootOverride, IndInv, Control
  <2> QED
    BY <1>1, <1>2, <1>4, <1>F, <2>1 DEF SetBootOverride, ComputerSystem
<1>5. CASE SetPowerState(r)
  BY <1>1, <1>2, <1>5, <1>F DEF SetPowerState, ComputerSystem
<1>6. CASE Encode(r)
  <2>1. pc[r] \in {"encode", "encodeMedia"} /\ pc'[r] = "ok" /\ UNCHANGED <<cs, media>>
    BY <1>2, <1>6 DEF Encode, cache
  <2>2. pc[r] = "encodeMedia" => op[r] = "GetMedia"
    BY DEF IndInv, Control
  <2>3. op[r] = "GetSystem" => out'[r] = cs.power
    BY <1>F, <1>6 DEF Encode
  <2> QED
    BY <1>1, <2>1, <2>2, <2>3
<1> QED
  BY <1>3, <1>4, <1>5, <1>6

(* A request that has ended is idle.                                       *)
LEMMA ForgetMoves ==
  ASSUME TypeOK, NEW r \in Requests, Ack(r) \/ Recover(r)
  PROVE  pc'[r] = "idle" /\ UNCHANGED <<vm, dv, up, ctx, cs, media>>
  BY GotoSelf DEF Ack, Recover, Forget, cluster, cache, process

(* So is every request of a process that starts or ends.                   *)
LEMMA ProcessMoves ==
  ASSUME IndInv, NEW r \in Requests, Initialize \/ Crash
  PROVE  pc'[r] = "idle" /\ UNCHANGED <<vm, dv>>
  BY DEF IndInv, Control, Initialize, Crash, cluster

(* KubeVirt and users leave the agent alone; what they store outdates the  *)
(* copy, and keeps the CD-ROM volume.  KubeVirt only writes the status.    *)
LEMMA EnvironmentMoves ==
  ASSUME IndInv, NEW r \in Requests, Environment
  PROVE  /\ UNCHANGED <<dv, up, ctx, cs, media, pc, op, arg, snap, out>>
         /\ fresh'[r] => vm' = vm /\ fresh[r]
         /\ vm'.cdrom = vm.cdrom
         /\ "edit" \notin Faults => /\ vm'.strategy = vm.strategy /\ vm'.running = vm.running
                                    /\ vm'.intf = vm.intf /\ vm'.disk = vm.disk
<1>0. TypeOK
  BY DEF IndInv
<1>F. vm \in VM /\ fresh \in [Requests -> BOOLEAN]
  BY <1>0 DEF TypeOK
<1>1. CASE KubeVirtInstance
  BY <1>1 DEF KubeVirtInstance, cache, process, locals
<1>2. ASSUME NEW new, StoreVM(new) PROVE vm' = new /\ (fresh'[r] => vm' = vm /\ fresh[r])
  BY <1>2, <1>F DEF StoreVM
<1>3. CASE KubeVirtStatus
  <2>1. vm' = [vm EXCEPT !.ready = vmi] /\ (fresh'[r] => vm' = vm /\ fresh[r])
    BY <1>2, <1>3 DEF KubeVirtStatus
  <2>2. UNCHANGED <<dv, up, ctx, cs, media, pc, op, arg, snap, out>>
    BY <1>3 DEF KubeVirtStatus, cache, process, locals
  <2> QED
    BY <1>F, <2>1, <2>2 DEF VM
<1>4. CASE UserEdit
  <2>1. PICK new \in VM : StoreVM(new) /\ new.cdrom = vm.cdrom
    BY <1>0, <1>4, EditStores
  <2>2. vm' = new /\ (fresh'[r] => vm' = vm /\ fresh[r])
    BY <1>2, <2>1
  <2>3. UNCHANGED <<dv, up, ctx, cs, media, pc, op, arg, snap, out>> /\ "edit" \in Faults
    BY <1>4 DEF UserEdit, cache, process, locals
  <2> QED
    BY <2>1, <2>2, <2>3
<1> QED
  BY <1>1, <1>3, <1>4 DEF Environment

-----------------------------------------------------------------------------
(* Points of the program.                                                  *)

MediaWrites == {"setImage", "setInserted", "setVia"}
BootWrites == {"setEnabled", "setTarget"}

(* The points that write the virtual media or the power state, like those  *)
(* of Control, belong to the operations that contain them.                 *)
PointsBy(r) ==
  /\ pc[r] \in MediaWrites => op[r] \in MediaOps
  /\ pc[r] \in {"setPower", "encode"} => op[r] = "GetSystem"
Points == \A r \in Requests : PointsBy(r)

(* Every step of a lone request, its process, KubeVirt or users keeps it.  *)
LEMMA PointsStep ==
  ASSUME OneAtATime, IndInv, Points, [Next]_vars
  PROVE  Points'
<1> SUFFICES ASSUME NEW r \in Requests PROVE PointsBy(r)'
  BY DEF Points
<1>0. PointsBy(r) /\ TypeOK
  BY DEF Points, IndInv
<1>1. CASE pc'[r] \notin MediaWrites \cup {"setPower", "encode"}
  BY <1>1 DEF PointsBy
<1>2. CASE Receive(r) \/ Ack(r) \/ Recover(r) \/ Initialize \/ Crash
  BY <1>0, <1>1, <1>2, ReceiveMoves, ForgetMoves, ProcessMoves DEF MediaWrites
<1>3. CASE GetVM(r)
  BY <1>1, <1>3, GetMoves DEF AfterGet, PointsBy, MediaWrites
<1>4. CASE UpdateVM(r)
  BY <1>1, <1>4, UpdateMoves DEF AfterUpdate, PointsBy, MediaWrites, MediaOps
<1>5. CASE GetRemoteFileSize(r) \/ CreateDV(r) \/ DeleteDV(r) \/ DeleteVMI(r)
  <2>1. pc[r] = "deleteDV" => op[r] = "Eject"
    BY DEF IndInv, Control
  <2> QED
    BY <1>1, <1>5, <2>1, CallMoves DEF PointsBy, MediaWrites, MediaOps
<1>6. CASE SetVirtualMedia(r) \/ SetBootOverride(r) \/ SetPowerState(r) \/ Encode(r)
  BY <1>0, <1>6, WriteMoves DEF PointsBy, MediaWrites
<1>7. CASE Environment \/ Cancel \/ UNCHANGED vars
  <2>1. UNCHANGED <<pc, op>>
    BY <1>7, EnvironmentMoves DEF Cancel, vars, locals
  <2> QED
    BY <1>0, <2>1 DEF PointsBy
<1> QED
  BY <1>2, <1>3, <1>4, <1>5, <1>6, <1>7, Solo DEF Step

-----------------------------------------------------------------------------
(* Media.                                                                  *)

(* While a request writes the virtual media resource, the machine has the  *)
(* media it asked for, and the resource shows what was written so far.     *)
MediaSettledBy(r) ==
  /\ op[r] = "Insert" /\ pc[r] \in MediaWrites \cup {"ok"} => vm.cdrom = 1 /\ dv = arg[r]
  /\ op[r] = "Eject" /\ pc[r] \in MediaWrites \cup {"ok"} => vm.cdrom = 0 /\ dv = NoImage
  /\ op[r] = "Insert" /\ pc[r] \in {"setInserted", "setVia", "ok"} => media.image = arg[r]
  /\ op[r] \in MediaOps /\ pc[r] \in {"setVia", "ok"} => media.inserted = (op[r] = "Insert")
MediaSettled == \A r \in Requests : MediaSettledBy(r)

(* Every step of a lone request, its process, KubeVirt or users keeps it.  *)
LEMMA MediaSettledStep ==
  ASSUME OneAtATime, IndInv, Points, MediaSettled, [Next]_vars
  PROVE  MediaSettled'
<1> SUFFICES ASSUME NEW r \in Requests PROVE MediaSettledBy(r)'
  BY DEF MediaSettled
<1>0. MediaSettledBy(r) /\ PointsBy(r) /\ TypeOK
  BY DEF MediaSettled, Points, IndInv
<1>1. CASE pc'[r] \notin MediaWrites \cup {"ok"}
  BY <1>1 DEF MediaSettledBy, MediaWrites
<1>2. CASE Receive(r) \/ Ack(r) \/ Recover(r) \/ Initialize \/ Crash
  BY <1>0, <1>1, <1>2, ReceiveMoves, ForgetMoves, ProcessMoves DEF MediaWrites
<1>3. CASE GetVM(r)
  BY <1>1, <1>3, GetMoves DEF AfterGet, MediaSettledBy, MediaWrites, MediaOps
<1>4. CASE UpdateVM(r)
  <2>1. /\ pc[r] = "updateVM" /\ op[r] \in PowerOps \cup BootOps \cup MediaOps
        /\ UNCHANGED <<dv, media, op, arg>>
        /\ pc'[r] = "error" \/ (pc'[r] = AfterUpdate(op[r]) /\ vm' = Effect(op[r], vm))
    BY <1>4, UpdateMoves
  <2>2. CASE op[r] = "Insert" /\ pc'[r] = AfterUpdate(op[r])
    <3>1. pc'[r] = "setImage"
      BY <2>2 DEF AfterUpdate, BootOps
    <3>2. vm.cdrom = 0 /\ dv = arg[r]
      BY <2>1, <2>2 DEF IndInv, MediaLock, HoldsMedia
    <3>3. vm'.cdrom = 1
      <4>1. vm' = Attach(vm) /\ vm \in VM
        BY <1>0, <2>1, <2>2, <3>1 DEF Effect, BootOps, TypeOK
      <4> QED
        BY <3>2, <4>1, AttachCdrom
    <3> QED
      BY <2>1, <2>2, <3>1, <3>2, <3>3 DEF MediaSettledBy, MediaWrites, MediaOps
  <2>3. CASE op[r] = "Eject" /\ pc'[r] = AfterUpdate(op[r])
    BY <1>1, <2>3 DEF AfterUpdate, BootOps, MediaWrites
  <2>4. CASE op[r] \in PowerOps \cup BootOps /\ pc'[r] = AfterUpdate(op[r])
    BY <2>1, <2>4 DEF AfterUpdate, MediaSettledBy, MediaWrites, MediaOps, PowerOps, BootOps
  <2> QED
    BY <1>1, <2>1, <2>2, <2>3, <2>4 DEF MediaOps, MediaWrites
<1>5. CASE GetRemoteFileSize(r) \/ CreateDV(r) \/ DeleteDV(r) \/ DeleteVMI(r)
  <2>1. /\ UNCHANGED <<vm, media, op, arg>>
        /\ \/ pc'[r] \notin MediaWrites \cup {"ok"}
           \/ pc[r] = "deleteDV" /\ pc'[r] = "setImage" /\ dv' = NoImage
           \/ pc[r] = "deleteVMI" /\ pc'[r] = "ok"
    BY <1>5, CallMoves DEF MediaWrites
  <2>2. /\ pc[r] = "deleteDV" => op[r] = "Eject" /\ vm.cdrom = 0
        /\ pc[r] = "deleteVMI" => op[r] = "PowerCycle"
    BY DEF IndInv, Control, MediaLock, HoldsMedia
  <2> QED
    BY <1>1, <2>1, <2>2 DEF MediaSettledBy, MediaWrites, MediaOps
<1>6. CASE SetVirtualMedia(r) \/ SetBootOverride(r) \/ SetPowerState(r) \/ Encode(r)
  BY <1>0, <1>6, WriteMoves DEF PointsBy, MediaSettledBy, MediaWrites, MediaOps,
                                    BootOps
<1>7. CASE Environment
  BY <1>0, <1>7, EnvironmentMoves DEF MediaSettledBy
<1>8. CASE Cancel \/ UNCHANGED vars
  <2>1. UNCHANGED <<vm, dv, media, pc, op, arg>>
    BY <1>8 DEF Cancel, vars, cluster, locals
  <2> QED
    BY <1>0, <2>1 DEF MediaSettledBy
<1> QED
  BY <1>2, <1>3, <1>4, <1>5, <1>6, <1>7, <1>8, Solo DEF Step

(* Initially no request is under way.                                      *)
LEMMA SequentialInit == Init => Points /\ MediaSettled
  BY DEF Init, Points, PointsBy, MediaSettled, MediaSettledBy, MediaWrites

(* While a lone request writes to a resource, the machine is as it asked   *)
(* and the resource shows what was written so far.                         *)
LEMMA SequentialCorrect ==
  ASSUME OneAtATime
  PROVE  Spec => [](IndInv /\ Points /\ MediaSettled)
<1>1. IndInv /\ Points /\ MediaSettled /\ [Next]_vars => Points' /\ MediaSettled'
  BY PointsStep, MediaSettledStep
<1> QED
  BY <1>1, SequentialInit, IndCorrect, PTL DEF Spec

-----------------------------------------------------------------------------
(* The run policy and the boot orders.                                     *)

(* The boot orders that SetBootDevice gives a machine.                     *)
BootOrders(s, o) ==
  /\ s.intf = [i \in 1..NumIntf |-> IF o = "BootPxe" /\ i = 1 THEN 1 ELSE 0]
  /\ s.disk = [i \in 1..NumDisk |-> IF o = "BootHdd" /\ i = 1 THEN 1 ELSE 0]

(* A machine that SetBootDevice leaves as it is has these boot orders.     *)
LEMMA BootFixed ==
  ASSUME NEW s \in VM, NEW o
  PROVE  BootOrders(SetBoot(s, o), o) /\ (BootOrders(s, o) => SetBoot(s, o) = s)
<1> DEFINE f == [i \in 1..NumIntf |-> IF o = "BootPxe" /\ i = 1 THEN 1 ELSE 0]
           d == [i \in 1..NumDisk |-> IF o = "BootHdd" /\ i = 1 THEN 1 ELSE 0]
<1>1. SetBoot(s, o) = [s EXCEPT !.intf = f, !.disk = d]
  BY DEF SetBoot
<1>2. BootOrders(s, o) <=> s.intf = f /\ s.disk = d
  BY DEF BootOrders
<1>3. BootOrders(SetBoot(s, o), o) <=> SetBoot(s, o).intf = f /\ SetBoot(s, o).disk = d
  BY DEF BootOrders
<1> HIDE DEF f, d
<1> QED
  BY <1>1, <1>2, <1>3 DEF VM

(* The other operations leave the boot orders alone.                       *)
LEMMA EffectKeepsBoot ==
  ASSUME NEW s \in VM, NEW o, o \notin BootOps
  PROVE  Effect(o, s).intf = s.intf /\ Effect(o, s).disk = s.disk
<1>1. \A a, b : SetPower(s, a, b).intf = s.intf /\ SetPower(s, a, b).disk = s.disk
  BY DEF SetPower, VM
<1>2. /\ Attach(s).intf = s.intf /\ Attach(s).disk = s.disk
      /\ Detach(s).intf = s.intf /\ Detach(s).disk = s.disk
  BY DEF Attach, Detach, VM
<1> QED
  BY <1>1, <1>2 DEF Effect

(* Only the media operations touch the CD-ROM volume.                      *)
LEMMA EffectKeepsMedia ==
  ASSUME NEW s \in VM, NEW o \in PowerOps \cup BootOps
  PROVE  Effect(o, s).cdrom = s.cdrom
<1>1. \A a, b : SetPower(s, a, b).cdrom = s.cdrom
  BY DEF SetPower, VM
<1>2. SetBoot(s, o).cdrom = s.cdrom
  BY DEF SetBoot, VM
<1> QED
  BY <1>1, <1>2 DEF Effect, PowerOps, BootOps

(* PowerOn makes the machine one that KubeVirt runs, and PowerOff one that *)
(* it does not, whichever of Running and RunStrategy the machine uses.     *)
LEMMA PowerEffect ==
  ASSUME NEW s \in VM, ValidRun(s)
  PROVE  WantsRun(Effect("PowerOn", s)) /\ ~WantsRun(Effect("PowerOff", s))
<1>1. CASE s.strategy = "nil"
  BY <1>1 DEF Effect, SetPower, WantsRun, VM, BootOps
<1>2. CASE s.strategy # "nil"
  BY <1>2 DEF Effect, SetPower, WantsRun, ValidRun, VM, BootOps
<1> QED
  BY <1>1, <1>2

(* When a power or boot operation has succeeded, the machine is as it      *)
(* wanted it.                                                              *)
MachineSettledBy(r) ==
  /\ pc[r] = "ok" /\ op[r] = "PowerOn" => WantsRun(vm)
  /\ pc[r] = "ok" /\ op[r] = "PowerOff" => ~WantsRun(vm)
  /\ op[r] \in BootOps /\ pc[r] \in BootWrites \cup {"ok"} => BootOrders(vm, op[r])
MachineSettled == \A r \in Requests : MachineSettledBy(r)

(* Every step keeps it, when users do not edit the machine.                *)
LEMMA MachineSettledStep ==
  ASSUME OneAtATime, "edit" \notin Faults, IndInv, MachineValid, Points, MachineSettled,
         [Next]_vars
  PROVE  MachineSettled'
<1> SUFFICES ASSUME NEW r \in Requests PROVE MachineSettledBy(r)'
  BY DEF MachineSettled
<1>0. MachineSettledBy(r) /\ PointsBy(r) /\ TypeOK
  BY DEF MachineSettled, Points, IndInv
<1>1. CASE pc'[r] \notin BootWrites \cup {"ok"}
  BY <1>1 DEF MachineSettledBy
<1>2. CASE Receive(r) \/ Ack(r) \/ Recover(r) \/ Initialize \/ Crash
  BY <1>0, <1>1, <1>2, ReceiveMoves, ForgetMoves, ProcessMoves DEF BootWrites
<1>3. CASE GetVM(r)
  BY <1>3, GetMoves DEF AfterGet, MachineSettledBy, BootWrites, BootOps
<1>4. CASE UpdateVM(r)
  <2>1. /\ op[r] \in PowerOps \cup BootOps \cup MediaOps /\ op' = op
        /\ pc'[r] = "error" \/ (pc'[r] = AfterUpdate(op[r]) /\ vm' = Effect(op[r], vm))
    BY <1>4, UpdateMoves
  <2>2. vm \in VM /\ ValidRun(vm)
    BY <1>0 DEF TypeOK, MachineValid
  <2>3. CASE op[r] \in PowerOps /\ vm' = Effect(op[r], vm)
    BY <2>1, <2>2, <2>3, PowerEffect DEF MachineSettledBy, PowerOps, BootOps
  <2>4. CASE op[r] \in BootOps /\ vm' = Effect(op[r], vm)
    <3>1. vm' = SetBoot(vm, op[r])
      BY <2>4 DEF Effect, BootOps
    <3>2. BootOrders(vm', op[r])
      BY <2>2, <3>1, BootFixed
    <3> QED
      BY <2>1, <2>4, <3>2 DEF MachineSettledBy, BootOps, BootOrders
  <2>5. CASE op[r] \in MediaOps
    BY <2>1, <2>5 DEF MachineSettledBy, MediaOps, BootOps
  <2> QED
    BY <1>1, <2>1, <2>3, <2>4, <2>5 DEF BootWrites
<1>5. CASE GetRemoteFileSize(r) \/ CreateDV(r) \/ DeleteDV(r) \/ DeleteVMI(r)
  <2>1. pc[r] = "deleteVMI" => op[r] = "PowerCycle"
    BY DEF IndInv, Control
  <2> QED
    BY <1>5, <2>1, CallMoves DEF MachineSettledBy, BootWrites, BootOps
<1>6. CASE SetVirtualMedia(r) \/ SetBootOverride(r) \/ SetPowerState(r) \/ Encode(r)
  BY <1>0, <1>6, WriteMoves DEF PointsBy, MachineSettledBy, MediaWrites, BootWrites, MediaOps,
                                BootOps
<1>7. CASE Environment
  <2>1. /\ UNCHANGED <<pc, op>> /\ vm'.strategy = vm.strategy /\ vm'.running = vm.running
        /\ vm'.intf = vm.intf /\ vm'.disk = vm.disk
    BY <1>7, EnvironmentMoves
  <2> QED
    BY <1>0, <2>1 DEF MachineSettledBy, WantsRun, BootOrders
<1>8. CASE Cancel \/ UNCHANGED vars
  <2>1. UNCHANGED <<vm, pc, op>>
    BY <1>8 DEF Cancel, vars, cluster, locals
  <2> QED
    BY <1>0, <2>1 DEF MachineSettledBy
<1> QED
  BY <1>2, <1>3, <1>4, <1>5, <1>6, <1>7, <1>8, Solo DEF Step

(* Unless a request is writing it, an enabled boot override is in force.   *)
InForce == \E o \in BootOps : BootSource(o) = cs.target /\ BootOrders(vm, o)
BootKeptBy(r) ==
  up /\ ctx /\ cs.enabled = "Continuous" /\ pc[r] \notin BootWrites => InForce
BootKept == \A r \in Requests : BootKeptBy(r)

(* Neither the override nor the boot orders have moved.                    *)
LEMMA InForceFrame ==
  ASSUME InForce, cs'.target = cs.target, vm'.intf = vm.intf, vm'.disk = vm.disk
  PROVE  InForce'
  BY DEF InForce, BootOrders

(* Every step keeps it, when users do not edit the machine and no answer   *)
(* of the API server is lost: an Update that was carried out although its  *)
(* answer was an error moves the boot orders and leaves the override, and  *)
(* happens only in a process that is being stopped.                        *)
LEMMA BootKeptStep ==
  ASSUME OneAtATime, "edit" \notin Faults, "lost" \notin Faults, IndInv, MachineSettled,
         BootKept, [Next]_vars
  PROVE  BootKept'
<1> SUFFICES ASSUME NEW r \in Requests PROVE BootKeptBy(r)'
  BY DEF BootKept
<1>0. BootKeptBy(r) /\ MachineSettledBy(r) /\ TypeOK
  BY DEF BootKept, MachineSettled, IndInv
<1>1. ASSUME pc[r] \notin BootWrites \/ pc'[r] \in BootWrites,
             UNCHANGED <<up, ctx>>, cs'.enabled = cs.enabled, cs'.target = cs.target,
             vm'.intf = vm.intf, vm'.disk = vm.disk
      PROVE  BootKeptBy(r)'
  BY <1>0, <1>1, InForceFrame DEF BootKeptBy
<1>2. CASE Receive(r) \/ Ack(r) \/ Recover(r)
  <2>1. pc[r] \notin BootWrites /\ UNCHANGED <<vm, up, ctx, cs>>
    BY <1>0, <1>2, ReceiveMoves, ForgetMoves DEF Ack, Recover, BootWrites
  <2> QED
    BY <1>1, <2>1
<1>3. CASE GetVM(r)
  BY <1>1, <1>3, GetMoves DEF BootWrites
<1>4. CASE UpdateVM(r)
  <2>1. /\ pc[r] = "updateVM" /\ UNCHANGED <<up, ctx, cs, op>>
        /\ vm' \in {vm, Effect(op[r], vm)}
        /\ \/ pc'[r] = AfterUpdate(op[r])
           \/ vm' = vm
           \/ FailsDone
    BY <1>4, UpdateMoves
  <2>2. CASE op[r] \notin BootOps
    BY <1>0, <1>1, <2>1, <2>2, EffectKeepsBoot DEF BootWrites, TypeOK
  <2>3. CASE op[r] \in BootOps /\ pc'[r] = AfterUpdate(op[r])
    BY <2>3 DEF BootKeptBy, AfterUpdate, BootOps, BootWrites
  <2>4. CASE vm' = vm
    BY <1>1, <2>1, <2>4 DEF BootWrites
  <2>5. CASE FailsDone
    BY <2>1, <2>5 DEF FailsDone, BootKeptBy
  <2> QED
    BY <2>1, <2>2, <2>3, <2>4, <2>5
<1>5. CASE GetRemoteFileSize(r) \/ CreateDV(r) \/ DeleteDV(r) \/ DeleteVMI(r)
  BY <1>1, <1>5, CallMoves DEF BootWrites
<1>6. CASE SetVirtualMedia(r) \/ SetBootOverride(r) \/ SetPowerState(r) \/ Encode(r)
  <2>0. UNCHANGED <<vm, up, ctx, op>>
    BY <1>6, WriteMoves
  <2>1. CASE pc[r] = "setTarget"
    <3>1. pc'[r] = "ok" /\ op[r] \in BootOps /\ cs'.target = BootSource(op[r])
      BY <1>6, <2>1, WriteMoves
    <3>2. BootOrders(vm, op[r])
      BY <1>0, <2>1, <3>1 DEF MachineSettledBy, BootWrites
    <3>3. InForce'
      BY <2>0, <3>1, <3>2 DEF InForce, BootOrders
    <3> QED
      BY <3>3 DEF BootKeptBy
  <2>2. CASE pc[r] = "setEnabled"
    BY <1>6, <2>2, WriteMoves DEF BootKeptBy, BootWrites
  <2>3. CASE pc[r] \notin BootWrites
    BY <1>1, <1>6, <2>0, <2>3, WriteMoves DEF BootWrites
  <2> QED
    BY <2>1, <2>2, <2>3 DEF BootWrites
<1>7. CASE Environment
  BY <1>1, <1>7, EnvironmentMoves
<1>8. CASE Initialize
  BY <1>8 DEF Initialize, NewComputerSystem, BootKeptBy
<1>9. CASE Crash \/ Cancel
  BY <1>9 DEF Crash, Cancel, BootKeptBy
<1>10. CASE UNCHANGED vars
  BY <1>1, <1>10 DEF vars
<1> QED
  BY <1>2, <1>3, <1>4, <1>5, <1>6, <1>7, <1>8, <1>9, <1>10, Solo DEF Step

(* A lone power or boot operation that has succeeded has done what it says *)
(* to the machine, when users do not edit it.                              *)
LEMMA MachineSettledCorrect ==
  ASSUME OneAtATime, "edit" \notin Faults
  PROVE  Spec => []MachineSettled
<1>1. Init => MachineSettled
  BY DEF Init, MachineSettled, MachineSettledBy, BootWrites
<1>2. IndInv /\ MachineValid /\ Points /\ MachineSettled /\ [Next]_vars => MachineSettled'
  BY MachineSettledStep
<1> QED
  BY <1>1, <1>2, SequentialCorrect, AlwaysValid, PTL DEF Spec

(* When nothing is going on, a boot override that the agent shows as       *)
(* enabled describes the boot orders the machine has: for a client that    *)
(* sends one request at a time, whatever calls fail, however the agent is  *)
(* stopped, killed and restarted, and whatever KubeVirt does.  Two faults  *)
(* are excluded because the property is false under them: an edit by a     *)
(* user, and an answer of the API server that is lost.                     *)
THEOREM BootOverrideCorrect ==
  ASSUME OneAtATime, "edit" \notin Faults, "lost" \notin Faults
  PROVE  Spec => []BootOverrideInForce
<1>1. Init => BootKept
  BY DEF Init, BootKept, BootKeptBy
<1>2. IndInv /\ MachineSettled /\ BootKept /\ [Next]_vars => BootKept'
  BY BootKeptStep
<1>3. IndInv /\ BootKept => BootOverrideInForce
  <2> SUFFICES ASSUME IndInv, BootKept, Quiescent, cs.enabled = "Continuous"
               PROVE  \E o \in BootOps : BootSource(o) = cs.target /\ SetBoot(vm, o) = vm
    BY DEF BootOverrideInForce
  <2>1. InForce
    BY DEF OneAtATime, BootKept, BootKeptBy, Quiescent, BootWrites
  <2>2. vm \in VM
    BY DEF IndInv, TypeOK
  <2> QED
    BY <2>1, <2>2, BootFixed DEF InForce
<1> QED
  BY <1>1, <1>2, <1>3, IndCorrect, MachineSettledCorrect, PTL DEF Spec

-----------------------------------------------------------------------------
(* Replies.                                                                *)

(* What a client can send.                                                 *)
LEMMA CommandForms ==
  ASSUME NEW c \in AllCommands
  PROVE  \/ /\ c.proto = "ipmi"
            /\ \/ /\ c.name = "ChassisControl"
                  /\ c.value \in {"PowerDown", "PowerUp", "PowerCycle", "HardReset", "PulseDiag",
                                  "AcpiSoft"}
               \/ c.name = "ChassisStatus" /\ c.value = ""
               \/ /\ c.name = "SetSystemBootOptions"
                  /\ c.value \in {"OtherParam", "Pxe", "Disk", "OtherDevice"}
         \/ /\ c.proto = "redfish"
            /\ \/ /\ c.name = "Reset"
                  /\ c.value \in {"On", "GracefulShutdown", "ForceOff", "GracefulRestart",
                                  "ForceRestart", "Nmi", "Invalid"}
               \/ c.name = "Patch" /\ c.value \in {"Disabled", "Pxe", "Hdd", "OtherTarget"}
               \/ /\ c.name = "SetDefaultBootOrder"
                  /\ c.value \in {"NotStrings", "Empty", "Pxe", "Hdd", "OtherDevice"}
               \/ c.name = "InsertMedia" /\ c.value \in {"Valid", "NoImage", "InvalidTransfer"}
               \/ /\ c.name \in {"EjectMedia", "GetSystem", "GetVirtualMedia", "Constant",
                                 "Unimplemented", "Malformed"}
                  /\ c.value = ""
<1>1. CASE c \in IpmiCommands
  BY <1>1 DEF IpmiCommands, Command
<1>2. CASE c \in RedfishCommands
  BY <1>2 DEF RedfishCommands, Command
<1> QED
  BY <1>1, <1>2 DEF AllCommands

(* The operation behind a command whose effect on the machine the client   *)
(* can name.                                                               *)
LEMMA CommandOperation ==
  ASSUME NEW c \in AllCommands
  PROVE  /\ c.value \in {"PowerUp", "On"} => Operation(c) = "PowerOn"
         /\ c.value \in {"PowerDown", "AcpiSoft", "GracefulShutdown", "ForceOff"}
              => Operation(c) = "PowerOff"
         /\ c.value = "Pxe" => Operation(c) = "BootPxe"
         /\ c.value \in {"Hdd", "Disk"} => Operation(c) = "BootHdd"
         /\ c.name = "InsertMedia" => Operation(c) \in {"Insert", "none"}
         /\ c.name = "EjectMedia" => Operation(c) = "Eject"
<1>1. CASE c.proto = "ipmi"
  BY <1>1, CommandForms DEF Operation, ChassisControlHandler, SetSystemBootOptionsHandler
<1>2. CASE c.proto = "redfish"
  BY <1>2, CommandForms DEF Operation, ComputerSystemReset, PatchComputerSystem,
                            ComputerSystemSetDefaultBootOrder
<1> QED
  BY <1>1, <1>2, CommandForms

(* The handlers pass every error on, and an insert that calls no operation *)
(* is refused.                                                             *)
LEMMA ErrorReply ==
  ASSUME NEW c \in AllCommands
  PROVE  /\ Reply(c, "error") \notin Successes
         /\ c.name = "InsertMedia" => Reply(c, "none") \notin Successes
<1>1. Reply(c, "error") \notin Successes
  <2>1. CASE c.proto = "ipmi"
    BY <2>1 DEF Reply, IpmiReply, Successes
  <2>2. CASE c.proto # "ipmi"
    <3>1. Reply(c, "error") = "500"
      BY <2>2, CommandForms DEF Reply, RedfishReply
    <3> QED
      BY <3>1 DEF Successes
  <2> QED
    BY <2>1, <2>2
<1>2. ASSUME c.name = "InsertMedia" PROVE Reply(c, "none") \in {"400", "422"}
  <2>1. c.proto = "redfish" /\ c.value \in {"Valid", "NoImage", "InvalidTransfer"}
    BY <1>2, CommandForms
  <2>2. RedfishNoCall(c) \in {"400", "422"}
    BY <1>2, <2>1 DEF RedfishNoCall
  <2> QED
    BY <2>1, <2>2 DEF Reply, RedfishReply
<1> QED
  BY <1>1, <1>2 DEF Successes

(* SetBootDevice gives the first of the devices, and nothing else, an      *)
(* order.                                                                  *)
LEMMA OrdersBoot ==
  ASSUME NEW s
  PROVE  /\ BootOrders(s, "BootPxe") => BootsFrom(s.intf, s.disk)
         /\ BootOrders(s, "BootHdd") => BootsFrom(s.disk, s.intf)
  BY DEF BootOrders, BootsFrom

(* A client that sends one command at a time, over either protocol, and is *)
(* told that it succeeded finds the machine, its DataVolume and the        *)
(* virtual media resource as it wanted them, whatever calls fail, whatever *)
(* answers are lost, however the agent is stopped, killed or restarted and *)
(* whatever KubeVirt does.  Only edits by users are excluded: they may     *)
(* undo what was done before the reply arrives.                            *)
THEOREM SuccessCorrect ==
  ASSUME OneAtATime, "edit" \notin Faults
  PROVE  AgentSpec => []SuccessMeansDone
<1>1. AgentTypeOK /\ MachineSettled /\ MediaSettled => SuccessMeansDone
  <2> SUFFICES ASSUME AgentTypeOK, MachineSettled, MediaSettled, NEW r \in Requests,
                      Answered(r), Answer(r) \in Successes
               PROVE  Done(cmd[r], arg[r])
    BY DEF SuccessMeansDone
  <2> DEFINE c == cmd[r]
  <2>1. c \in AllCommands /\ op[r] = Operation(c)
    BY CommandAssumption DEF AgentTypeOK, Answered
  <2>2. MachineSettledBy(r) /\ MediaSettledBy(r)
    BY DEF MachineSettled, MediaSettled
  <2> HIDE DEF c
  <2>3. \/ op[r] = "none" /\ c.name # "InsertMedia"
        \/ op[r] # "none" /\ pc[r] = "ok"
    <3>1. Answer(r) = Reply(c, IF op[r] = "none" THEN "none" ELSE pc[r])
      BY DEF Answer, c
    <3>2. op[r] = "none" \/ pc[r] \in {"ok", "error"}
      BY DEF Answered
    <3> QED
      BY <2>1, <3>1, <3>2, ErrorReply
  <2>4. c.value \in {"PowerUp", "On"} => WantsRun(vm)
    BY <2>1, <2>2, <2>3, CommandOperation DEF MachineSettledBy
  <2>5. c.value \in {"PowerDown", "AcpiSoft", "GracefulShutdown", "ForceOff"} => ~WantsRun(vm)
    BY <2>1, <2>2, <2>3, CommandOperation DEF MachineSettledBy
  <2>6. c.value = "Pxe" => BootsFrom(vm.intf, vm.disk)
    BY <2>1, <2>2, <2>3, CommandOperation, OrdersBoot DEF MachineSettledBy, BootOps
  <2>7. c.value \in {"Hdd", "Disk"} => BootsFrom(vm.disk, vm.intf)
    BY <2>1, <2>2, <2>3, CommandOperation, OrdersBoot DEF MachineSettledBy, BootOps
  <2>8. c.name = "InsertMedia"
          => vm.cdrom = 1 /\ dv = arg[r] /\ media.image = arg[r] /\ media.inserted
    BY <2>1, <2>2, <2>3, CommandOperation DEF MediaSettledBy, MediaOps
  <2>9. c.name = "EjectMedia" => vm.cdrom = 0 /\ dv = NoImage /\ ~media.inserted
    BY <2>1, <2>2, <2>3, CommandOperation DEF MediaSettledBy, MediaOps
  <2> QED
    BY <2>4, <2>5, <2>6, <2>7, <2>8, <2>9 DEF Done, c
<1> QED
  BY <1>1, AgentTypeCorrect, AgentImplementsResourceManager, SequentialCorrect,
     MachineSettledCorrect, PTL

-----------------------------------------------------------------------------
(* The virtual media resource.                                             *)

(* Outside of a media operation's writes the resource shows the media the  *)
(* machine has, or the media is older than the process.                    *)
MediaShown ==
  /\ media.inserted => vm.cdrom = 1 /\ dv = media.image
  /\ vm.cdrom # 0 /\ ~media.inserted => inherited
MediaKeptBy(r) ==
  up /\ ctx /\ pc[r] \notin MediaWrites \cup {"deleteDV"} => MediaShown
MediaKept == \A r \in Requests : MediaKeptBy(r)

(* Neither the media nor the resource has moved.                           *)
LEMMA ShownFrame ==
  ASSUME MediaShown, vm'.cdrom = vm.cdrom, dv' = dv, media' = media,
         inherited' = inherited \/ inherited' = (inherited /\ vm'.cdrom # 0)
  PROVE  MediaShown'
  BY DEF MediaShown

(* A step of the operation keeps it, when no call fails: the failure of a  *)
(* call between the update of the machine and the last write to the        *)
(* resource leaves the resource behind, and happens only in a process that *)
(* is being stopped.                                                       *)
LEMMA MediaKeptServe ==
  ASSUME "error" \notin Faults, "lost" \notin Faults, AgentTypeOK, IndInv, Points, MediaSettled,
         MediaKept, NEW r \in Requests, Serve(r)
  PROVE  MediaKeptBy(r)'
<1>0. MediaKeptBy(r) /\ MediaSettledBy(r) /\ PointsBy(r) /\ TypeOK
  BY DEF MediaKept, MediaSettled, Points, IndInv
<1>H. inherited' = (inherited /\ vm'.cdrom # 0) /\ Step(r)
  BY DEF Serve
<1>1. ASSUME pc[r] \notin MediaWrites \cup {"deleteDV"} \/ pc'[r] \in MediaWrites \cup {"deleteDV"},
             UNCHANGED <<up, ctx, dv, media>>, vm'.cdrom = vm.cdrom
      PROVE  MediaKeptBy(r)'
  BY <1>0, <1>H, <1>1, ShownFrame DEF MediaKeptBy
<1>2. CASE GetVM(r)
  BY <1>1, <1>2, GetMoves DEF MediaWrites
<1>3. CASE UpdateVM(r)
  <2>1. /\ pc[r] = "updateVM" /\ UNCHANGED <<dv, up, ctx, media>>
        /\ op[r] \in PowerOps \cup BootOps \cup MediaOps
        /\ vm' \in {vm, Effect(op[r], vm)}
        /\ pc'[r] = AfterUpdate(op[r]) \/ vm' = vm \/ FailsDone
    BY <1>3, UpdateMoves
  <2>2. CASE vm' = vm
    BY <1>1, <2>1, <2>2 DEF MediaWrites
  <2>3. CASE FailsDone
    BY <2>1, <2>3 DEF FailsDone, MediaKeptBy
  <2>4. CASE op[r] \in MediaOps /\ pc'[r] = AfterUpdate(op[r])
    BY <2>4 DEF MediaKeptBy, AfterUpdate, MediaOps, BootOps, MediaWrites
  <2>5. CASE op[r] \in PowerOps \cup BootOps
    <3>1. vm \in VM
      BY <1>0 DEF TypeOK
    <3>2. Effect(op[r], vm).cdrom = vm.cdrom
      BY <2>5, <3>1, EffectKeepsMedia
    <3> QED
      BY <1>1, <2>1, <3>2 DEF MediaWrites
  <2> QED
    BY <2>1, <2>2, <2>3, <2>4, <2>5
<1>4. CASE GetRemoteFileSize(r) \/ CreateDV(r) \/ DeleteDV(r) \/ DeleteVMI(r)
  <2>1. UNCHANGED <<vm, up, ctx, media>>
    BY <1>4, CallMoves
  <2>2. CASE dv' = dv /\ pc[r] # "deleteDV"
    BY <1>1, <1>4, <2>1, <2>2, CallMoves DEF MediaWrites
  <2>3. CASE dv = NoImage /\ pc[r] # "deleteDV"
    <3>1. vm.cdrom = 0
      BY <2>3 DEF IndInv, AttachedMediaExists
    <3>2. pc[r] \notin MediaWrites
      BY <1>4, CallMoves DEF MediaWrites
    <3> QED
      BY <1>0, <2>1, <2>3, <3>1, <3>2 DEF MediaKeptBy, MediaShown
  <2>4. CASE pc[r] = "deleteDV" /\ pc'[r] = "setImage"
    BY <2>4 DEF MediaKeptBy, MediaWrites
  <2>5. CASE FailsUndone \/ FailsDone
    BY <2>1, <2>5 DEF FailsUndone, FailsDone, MediaKeptBy
  <2> QED
    BY <1>4, <2>2, <2>3, <2>4, <2>5, CallMoves
<1>5. CASE SetVirtualMedia(r) \/ SetBootOverride(r) \/ SetPowerState(r) \/ Encode(r)
  <2>1. UNCHANGED <<vm, dv, up, ctx, op, arg>>
    BY <1>5, WriteMoves
  <2>2. CASE pc[r] \in {"setImage", "setInserted"}
    BY <1>5, <2>2, WriteMoves DEF MediaKeptBy, MediaWrites
  <2>3. CASE pc[r] = "setVia"
    <3>1. media'.image = media.image /\ media'.inserted = media.inserted
      BY <1>5, <2>3, WriteMoves
    <3>2. \/ op[r] = "Insert" /\ vm.cdrom = 1 /\ dv = arg[r] /\ media.image = arg[r]
             /\ media.inserted
          \/ op[r] = "Eject" /\ vm.cdrom = 0 /\ ~media.inserted
      BY <1>0, <2>3 DEF MediaSettledBy, PointsBy, MediaWrites, MediaOps
    <3>3. MediaShown'
      BY <2>1, <3>1, <3>2 DEF MediaShown
    <3> QED
      BY <3>3 DEF MediaKeptBy
  <2>4. CASE pc[r] \notin MediaWrites
    BY <1>1, <1>5, <2>1, <2>4, WriteMoves DEF MediaWrites
  <2> QED
    BY <2>2, <2>3, <2>4 DEF MediaWrites
<1> QED
  BY <1>H, <1>2, <1>3, <1>4, <1>5 DEF Step

(* So does every other step of the agent: the process, the servers,        *)
(* KubeVirt and users.                                                     *)
LEMMA MediaKeptStep ==
  ASSUME OneAtATime, "error" \notin Faults, "lost" \notin Faults, AgentTypeOK, IndInv, Points,
         MediaSettled, MediaKept, [AgentNext]_agentVars
  PROVE  MediaKept'
<1> SUFFICES ASSUME NEW r \in Requests PROVE MediaKeptBy(r)'
  BY DEF MediaKept
<1>0. MediaKeptBy(r) /\ TypeOK /\ \A s \in Requests : s = r
  BY DEF MediaKept, IndInv, OneAtATime
<1>1. ASSUME pc[r] \notin MediaWrites \cup {"deleteDV"} \/ pc'[r] \in MediaWrites \cup {"deleteDV"},
             UNCHANGED <<up, ctx, dv, media, inherited>>, vm'.cdrom = vm.cdrom
      PROVE  MediaKeptBy(r)'
  BY <1>0, <1>1, ShownFrame DEF MediaKeptBy
<1>2. CASE UNCHANGED vars /\ UNCHANGED inherited
  BY <1>1, <1>2 DEF vars
<1>3. CASE Accept(r)
  <2>1. CASE UNCHANGED vars
    BY <1>2, <1>3, <2>1 DEF Accept
  <2>2. CASE \E c \in Commands : \E i \in Arguments(Operation(c)) : Call(r, Operation(c), i)
    <3>1. pc[r] = "idle" /\ UNCHANGED <<vm, dv, up, ctx, media>>
      BY <2>2 DEF Call, cluster, cache, process
    <3> QED
      BY <1>1, <1>3, <3>1 DEF Accept, MediaWrites
  <2> QED
    BY <1>3, <2>1, <2>2 DEF Accept
<1>4. CASE Serve(r)
  BY <1>4, MediaKeptServe
<1>5. CASE Deliver(r) \/ RecoverHandler(r)
  <2>1. CASE UNCHANGED vars
    BY <1>2, <1>5, <2>1 DEF Deliver, RecoverHandler
  <2>2. CASE Ack(r) \/ Recover(r)
    <3>1. pc[r] \notin MediaWrites \cup {"deleteDV"} /\ UNCHANGED <<vm, dv, up, ctx, media>>
      BY <1>0, <2>2, ForgetMoves DEF Ack, Recover, MediaWrites
    <3> QED
      BY <1>1, <1>5, <3>1 DEF Deliver, RecoverHandler
  <2> QED
    BY <1>5, <2>1, <2>2 DEF Deliver, RecoverHandler
<1>6. CASE Exit \/ Interrupt
  BY <1>6 DEF Exit, Crash, Interrupt, Cancel, MediaKeptBy
<1>7. CASE Start
  <2>1. ~media'.inserted /\ vm' = vm /\ inherited' = (vm.cdrom # 0)
    BY <1>7 DEF Start, Initialize, NewVirtualMedia, cluster
  <2> QED
    BY <2>1 DEF MediaKeptBy, MediaShown
<1>8. CASE Environment /\ UNCHANGED inherited
  BY <1>1, <1>8, EnvironmentMoves
<1>9. CASE RunIPMI
  BY <1>2, <1>6, <1>9 DEF RunIPMI
<1>10. CASE RunRedfish \/ ListenAndServe \/ StopIPMI \/ AwaitIPMI \/ Shutdown
            \/ UNCHANGED agentVars
  BY <1>2, <1>10 DEF RunRedfish, ListenAndServe, StopIPMI, AwaitIPMI, Shutdown, agentVars
<1> QED
  BY <1>0, <1>3, <1>4, <1>5, <1>6, <1>7, <1>8, <1>9, <1>10
     DEF AgentNext, PanicExit, Return, Kill

(* When nothing is going on, the media that the virtual media resource     *)
(* shows as inserted is attached to the machine, with that image, and      *)
(* media that it does not show is older than the process.  For a client    *)
(* that sends one command at a time, however the agent panics, is stopped, *)
(* killed and restarted, and whatever KubeVirt and users do.  Failing      *)
(* calls are excluded because the property is false under them: an         *)
(* EjectMedia whose deletion of the DataVolume fails has detached the      *)
(* media and leaves the resource as it was.                                *)
THEOREM MediaStatusCorrect ==
  ASSUME OneAtATime, "error" \notin Faults, "lost" \notin Faults
  PROVE  AgentSpec => []MediaStatusCurrent
<1>1. AgentInit => MediaKept
  BY DEF AgentInit, Init, MediaKept, MediaKeptBy
<1>2. AgentTypeOK /\ IndInv /\ Points /\ MediaSettled /\ MediaKept /\ [AgentNext]_agentVars
        => MediaKept'
  BY MediaKeptStep
<1>3. MediaKept => MediaStatusCurrent
  BY DEF OneAtATime, MediaKept, MediaKeptBy, MediaShown, MediaStatusCurrent, Quiescent, MediaWrites
<1> QED
  BY <1>1, <1>2, <1>3, AgentTypeCorrect, AgentImplementsResourceManager, SequentialCorrect, PTL
     DEF AgentSpec
=============================================================================
