--------------------------- MODULE VirtualMachine ---------------------------
(***************************************************************************)
(* The KubeVirt VirtualMachine object as the virtbmc agent sees it, and    *)
(* what each operation of VirtualMachineResourceManager                    *)
(* (src/pkg/resourcemanager/virtualmachine_resourcemanager.go) does to the *)
(* copy it has read.  Pure operators: AtomicBmc and ResourceManager share  *)
(* them.                                                                   *)
(***************************************************************************)
EXTENDS Naturals

CONSTANTS
  HasTemplate,  \* vm.Spec.Template is not nil
  NumIntf,      \* number of entries of Devices.Interfaces
  NumDisk,      \* number of entries of Devices.Disks
  EmptyLists,   \* is a list with no entries empty (TRUE) or nil (FALSE)?
  Cdrom         \* index of the first disk whose CDRom is set, 0 if there is none

ASSUME HardwareAssumption ==
  /\ HasTemplate \in BOOLEAN
  /\ NumIntf \in Nat
  /\ NumDisk \in Nat
  /\ EmptyLists \in BOOLEAN
  /\ Cdrom \in 0..NumDisk

-----------------------------------------------------------------------------
Strategies == {"nil", "Always", "RerunOnFailure", "Halted"}
RunningValues == {"nil", "true", "false"}

(* The fields of the object that the agent reads or writes.  A boot order  *)
(* of 0 stands for a nil pointer; cdrom counts the entries of              *)
(* Template.Spec.Volumes that carry the CD-ROM disk's name and are         *)
(* DataVolumes; foreign tells whether a volume of that name is something   *)
(* else (a container disk, say); ready is Status.Ready, which KubeVirt     *)
(* alone writes.                                                           *)
VM == [strategy : Strategies,
       running  : RunningValues,
       intf     : [1..NumIntf -> Nat],
       disk     : [1..NumDisk -> Nat],
       cdrom    : Nat,
       foreign  : BOOLEAN,
       ready    : BOOLEAN]

PowerOps == {"PowerOn", "PowerOff"}
BootOps  == {"BootPxe", "BootHdd", "BootOther"}
MediaOps == {"Insert", "Eject"}
ReadOps  == {"GetSystem", "GetPower", "GetMedia"}
AllOps   == PowerOps \cup BootOps \cup MediaOps \cup ReadOps \cup {"PowerCycle"}

(* KubeVirt's run policy: should an instance of this machine be running?   *)
WantsRun(s) == s.running = "true" \/ s.strategy \in {"Always", "RerunOnFailure"}

-----------------------------------------------------------------------------
(* PowerOn and PowerOff write Running only when the machine has no run     *)
(* strategy; otherwise they overwrite the strategy.                        *)
SetPower(s, running, strategy) ==
  IF s.strategy = "nil" THEN [s EXCEPT !.running = running]
                        ELSE [s EXCEPT !.strategy = strategy]

(* Mutant: the disks keep their boot orders when an interface comes first. *)
SetBootKeepDisks(s, o) ==
  [s EXCEPT !.intf = [i \in 1..NumIntf |-> IF o = "BootPxe" /\ i = 1 THEN 1 ELSE 0],
            !.disk = [i \in 1..NumDisk |-> IF o = "BootHdd" /\ i = 1 THEN 1
                                           ELSE IF o = "BootPxe" THEN s.disk[i] ELSE 0]]

(* SetBootDevice clears every boot order of the machine and gives order 1  *)
(* to the first interface (Pxe) or the first disk (Hdd); any other device  *)
(* name only clears.                                                       *)
SetBoot(s, o) ==
  [s EXCEPT !.intf = [i \in 1..NumIntf |-> IF o = "BootPxe" /\ i = 1 THEN 1 ELSE 0],
            !.disk = [i \in 1..NumDisk |-> IF o = "BootHdd" /\ i = 1 THEN 1 ELSE 0]]

(* InsertMedia appends a volume named after the CD-ROM disk.               *)
Attach(s) == [s EXCEPT !.cdrom = s.cdrom + 1]

(* EjectMedia removes every volume named after the CD-ROM disk.            *)
Detach(s) == [s EXCEPT !.cdrom = 0]

(* What panics between the read of the machine and its update: EjectMedia  *)
(* takes the DataVolume of a volume that has none, SetBootDevice the first *)
(* entry of a list that is empty but not nil.                              *)
Panics(o, s) ==
  /\ HasTemplate
  /\ \/ o = "Eject" /\ Cdrom # 0 /\ s.foreign
     \/ o = "BootPxe" /\ NumIntf = 0 /\ EmptyLists
     \/ o = "BootHdd" /\ NumDisk = 0 /\ EmptyLists

(* What gets past the early returns between the read of the machine and    *)
(* its update (nil template, no CD-ROM disk, nothing inserted, no          *)
(* interface or disk), and does not panic.                                 *)
Applicable(o, s) ==
  /\ o \in MediaOps \cup BootOps => HasTemplate
  /\ o \in MediaOps => Cdrom # 0
  /\ o = "Eject" => s.cdrom # 0 /\ ~s.foreign
  /\ o = "BootPxe" => NumIntf # 0
  /\ o = "BootHdd" => NumDisk # 0

(* The object an operation sends to the API server, given the one it read. *)
Effect(o, s) ==
  CASE o = "PowerOn"   -> SetPower(s, "true", "RerunOnFailure")
    [] o = "PowerOff"  -> SetPower(s, "false", "Halted")
    [] o \in BootOps   -> SetBoot(s, o)
    [] o = "Insert"    -> Attach(s)
    [] o = "Eject"     -> Detach(s)
    [] OTHER           -> s
=============================================================================
