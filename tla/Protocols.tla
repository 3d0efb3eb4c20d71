------------------------------ MODULE Protocols ------------------------------
(***************************************************************************)
(* What the agent's IPMI handlers (src/pkg/ipmi/handler.go) and Redfish    *)
(* handlers (src/pkg/redfish/handler.go, api_service.go) make of a         *)
(* client's command: which operation of the resource manager they call, if *)
(* any, and what they reply.  A command is the name of its handler and the *)
(* value that decides what the handler does; values the handler treats     *)
(* alike are one value here.                                               *)
(***************************************************************************)

Command(p, n, values) == [proto : {p}, name : {n}, value : values]

(* Commands other than these three are answered by the IPMI library.       *)
IpmiCommands ==
  Command("ipmi", "ChassisControl",
          {"PowerDown", "PowerUp", "PowerCycle", "HardReset", "PulseDiag", "AcpiSoft"})
  \cup Command("ipmi", "ChassisStatus", {""})
  \cup Command("ipmi", "SetSystemBootOptions", {"OtherParam", "Pxe", "Disk", "OtherDevice"})

(* "Nmi" stands for the reset types that Redfish knows and the agent does  *)
(* not; Constant for the service root, the collections and the manager;    *)
(* Unimplemented for the generated stubs; Malformed for a body that cannot *)
(* be decoded.                                                             *)
RedfishCommands ==
  Command("redfish", "Reset", {"On", "GracefulShutdown", "ForceOff", "GracefulRestart",
                               "ForceRestart", "Nmi", "Invalid"})
  \cup Command("redfish", "Patch", {"Disabled", "Pxe", "Hdd", "OtherTarget"})
  \cup Command("redfish", "SetDefaultBootOrder",
               {"NotStrings", "Empty", "Pxe", "Hdd", "OtherDevice"})
  \cup Command("redfish", "InsertMedia", {"Valid", "NoImage", "InvalidTransfer"})
  \cup Command("redfish", "EjectMedia", {""})
  \cup Command("redfish", "GetSystem", {""})
  \cup Command("redfish", "GetVirtualMedia", {""})
  \cup Command("redfish", "Constant", {""})
  \cup Command("redfish", "Unimplemented", {""})
  \cup Command("redfish", "Malformed", {""})

AllCommands == IpmiCommands \cup RedfishCommands

-----------------------------------------------------------------------------
(* The operation a handler calls; "none" when it calls none.               *)

ChassisControlHandler(v) ==
  CASE v \in {"PowerDown", "AcpiSoft"}   -> "PowerOff"
    [] v = "PowerUp"                     -> "PowerOn"
    [] v \in {"PowerCycle", "HardReset"} -> "PowerCycle"
    [] OTHER                             -> "none"

(* Only parameter 5 is looked at; any device but Pxe and Disk is passed on *)
(* as the empty device name.                                               *)
SetSystemBootOptionsHandler(v) ==
  CASE v = "OtherParam" -> "none"
    [] v = "Pxe"        -> "BootPxe"
    [] v = "Disk"       -> "BootHdd"
    [] OTHER            -> "BootOther"

ComputerSystemReset(v) ==
  CASE v = "On"                                    -> "PowerOn"
    [] v \in {"GracefulShutdown", "ForceOff"}      -> "PowerOff"
    [] v \in {"GracefulRestart", "ForceRestart"}   -> "PowerCycle"
    [] OTHER                                       -> "none"

PatchComputerSystem(v) ==
  CASE v = "Pxe" -> "BootPxe"
    [] v = "Hdd" -> "BootHdd"
    [] OTHER     -> "none"

(* Unlike PATCH, a list that is empty or starts with another device is     *)
(* passed on to SetBootDevice.                                             *)
ComputerSystemSetDefaultBootOrder(v) ==
  CASE v = "NotStrings" -> "none"
    [] v = "Pxe"        -> "BootPxe"
    [] v = "Hdd"        -> "BootHdd"
    [] OTHER            -> "BootOther"

Operation(c) ==
  CASE c.name = "ChassisControl"       -> ChassisControlHandler(c.value)
    [] c.name = "ChassisStatus"        -> "GetPower"
    [] c.name = "SetSystemBootOptions" -> SetSystemBootOptionsHandler(c.value)
    [] c.name = "Reset"                -> ComputerSystemReset(c.value)
    [] c.name = "Patch"                -> PatchComputerSystem(c.value)
    [] c.name = "SetDefaultBootOrder"  -> ComputerSystemSetDefaultBootOrder(c.value)
    [] c.name = "InsertMedia"          -> IF c.value = "Valid" THEN "Insert" ELSE "none"
    [] c.name = "EjectMedia"           -> "Eject"
    [] c.name = "GetSystem"            -> "GetSystem"
    [] c.name = "GetVirtualMedia"      -> "GetMedia"
    [] OTHER                           -> "none"

-----------------------------------------------------------------------------
(* The reply, given how the operation ended: "ok", "error", or "none" when *)
(* none was called.                                                        *)

(* Commands the IPMI handlers do not act on count as completed.            *)
IpmiReply(c, result) ==
  CASE result # "error" -> "CommandCompleted"
    [] result = "error" /\ c.name = "SetSystemBootOptions" -> "ErrUnspecified"
    [] result = "error" /\ c.name # "SetSystemBootOptions" -> "ErrInvalidState"

(* Redfish replies to what calls no operation.                             *)
RedfishNoCall(c) ==
  CASE c.name = "Constant"                     -> "200"
    [] c.name = "Patch"                        -> "204"
    [] c.name = "Reset" /\ c.value = "Nmi"     -> "500"
    [] c.value = "NoImage"                     -> "422"
    [] c.name = "Unimplemented"                -> "501"
    [] OTHER                                   -> "400"

(* Mutant: the handler of PATCH drops the error of SetBootDevice.          *)
RedfishReplyDropError(c, result) ==
  CASE result = "none" -> RedfishNoCall(c)
    [] result = "error" /\ c.name # "Patch" -> "500"
    [] result = "ok" /\ c.name \in {"GetSystem", "GetVirtualMedia"} -> "200"
    [] OTHER -> "204"

RedfishReply(c, result) ==
  CASE result = "none" -> RedfishNoCall(c)
    [] result = "error" -> "500"
    [] result = "ok" /\ c.name \in {"GetSystem", "GetVirtualMedia"} -> "200"
    [] result = "ok" /\ c.name \notin {"GetSystem", "GetVirtualMedia"} -> "204"

Reply(c, result) ==
  IF c.proto = "ipmi" THEN IpmiReply(c, result) ELSE RedfishReply(c, result)

Successes == {"CommandCompleted", "200", "204"}
=============================================================================
