-------------------------------- MODULE Agent --------------------------------
(***************************************************************************)
(* The virtbmc agent as its clients and its Pod see it: the resource       *)
(* manager behind the IPMI and the Redfish server, and the life of the     *)
(* process (src/pkg/virtbmc/virtbmc.go, src/cmd/virtbmc/main.go): start,   *)
(* interrupt, graceful stop, panics, exit.  It adds to ResourceManager the *)
(* commands that lead to operations and the two servers; every step of the *)
(* resource manager is one of ResourceManager's actions.                   *)
(***************************************************************************)
EXTENDS ResourceManager, Protocols

CONSTANTS
  Commands,   \* the commands that clients send
  NoCommand   \* no command is being served

ASSUME CommandAssumption ==
  /\ Commands \subseteq AllCommands
  /\ {Operation(c) : c \in Commands} \subseteq Ops \cup {"none"}
  /\ NoCommand \notin AllCommands

VARIABLES
  stage,     \* where VirtBMC.Run is
  ipmi,      \* the IPMI server's socket: "closed" or "open"
  redfish,   \* the Redfish server: "closed", "starting", "open" or "failed"
  cmd,       \* the command served by each goroutine
  inherited  \* history: the media attached now was so when the process started

agentVars == <<vars, stage, ipmi, redfish, cmd, inherited>>
servers == <<stage, ipmi, redfish>>

Stages == {"new", "initialised", "ipmi", "serving", "stopping", "stopped", "exiting"}

AgentInit ==
  /\ Init
  /\ stage = "new"
  /\ ipmi = "closed"
  /\ redfish = "closed"
  /\ cmd = [r \in Requests |-> NoCommand]
  /\ inherited = FALSE

-----------------------------------------------------------------------------
(* Commands.                                                               *)

Serves(r, p) == cmd[r] # NoCommand /\ cmd[r].proto = p

(* The IPMI server reads and serves one datagram at a time; net/http       *)
(* serves every connection in a goroutine of its own.                      *)
Listening(p) ==
  IF p = "ipmi" THEN ipmi = "open" /\ \A s \in Requests : ~Serves(s, "ipmi")
                ELSE redfish = "open"

(* A command arrives and its handler calls the operation it stands for, or *)
(* has its reply ready at once.                                            *)
Accept(r) ==
  /\ cmd[r] = NoCommand
  /\ \E c \in Commands :
       /\ Listening(c.proto)
       /\ cmd' = [cmd EXCEPT ![r] = c]
       /\ \/ /\ Operation(c) = "none"
             /\ UNCHANGED vars
          \/ /\ Operation(c) # "none"
             /\ \E i \in Arguments(Operation(c)) : Call(r, Operation(c), i)
  /\ UNCHANGED <<servers, inherited>>

(* A step of the operation.                                                *)
Serve(r) ==
  /\ Step(r)
  /\ inherited' = (inherited /\ vm'.cdrom # 0)
  /\ UNCHANGED <<servers, cmd>>

(* The handler has returned; the reply the client is about to get.         *)
Answered(r) == cmd[r] # NoCommand /\ (op[r] = "none" \/ pc[r] \in {"ok", "error"})
Answer(r) == Reply(cmd[r], IF op[r] = "none" THEN "none" ELSE pc[r])

Deliver(r) ==
  /\ Answered(r)
  /\ cmd' = [cmd EXCEPT ![r] = NoCommand]
  /\ \/ op[r] = "none" /\ UNCHANGED vars
     \/ Ack(r)
  /\ UNCHANGED <<servers, inherited>>

(* net/http recovers a panic in a handler and closes the connection.       *)
RecoverHandler(r) ==
  /\ Serves(r, "redfish")
  /\ Recover(r)
  /\ cmd' = [cmd EXCEPT ![r] = NoCommand]
  /\ UNCHANGED <<servers, inherited>>

-----------------------------------------------------------------------------
(* The process.                                                            *)

(* The process is gone; the kubelet will start a new one.                  *)
Exit ==
  /\ Crash
  /\ stage' = "new"
  /\ ipmi' = "closed"
  /\ redfish' = "closed"
  /\ cmd' = [r \in Requests |-> NoCommand]
  /\ inherited' = FALSE

(* Nothing recovers a panic in the IPMI server's goroutine.                *)
PanicExit(r) == pc[r] = "panic" /\ Serves(r, "ipmi") /\ Exit

(* SIGKILL, SIGTERM, which is not trapped, or a second SIGINT.             *)
Kill == ("crash" \in Faults \/ ~ctx) /\ Exit

(* VirtBMC.Run: the resource manager first.                                *)
Start ==
  /\ stage = "new"
  /\ Initialize
  /\ stage' = "initialised"
  /\ inherited' = (vm.cdrom # 0)
  /\ UNCHANGED <<ipmi, redfish, cmd>>

(* Simulator.Run; when the address cannot be bound, Run returns the error  *)
(* and the process ends.                                                   *)
RunIPMI ==
  /\ stage = "initialised"
  /\ \/ /\ ipmi' = "open"
        /\ stage' = "ipmi"
        /\ UNCHANGED <<vars, redfish, cmd, inherited>>
     \/ "crash" \in Faults /\ Exit

(* Emulator.Run only starts a goroutine and reports no error.              *)
RunRedfish ==
  /\ stage = "ipmi"
  /\ redfish' = "starting"
  /\ stage' = "serving"
  /\ UNCHANGED <<vars, ipmi, cmd, inherited>>

(* ListenAndServe in that goroutine; a failure is only printed.            *)
ListenAndServe ==
  /\ redfish = "starting"
  /\ \/ redfish' = "open"
     \/ "crash" \in Faults /\ redfish' = "failed"
  /\ UNCHANGED <<vars, stage, ipmi, cmd, inherited>>

(* SIGINT.                                                                 *)
Interrupt == Cancel /\ UNCHANGED <<servers, cmd, inherited>>

(* Mutant: Stop leaves the socket open.                                    *)
StopIPMINoClose ==
  /\ stage = "serving"
  /\ ~ctx
  /\ stage' = "stopping"
  /\ UNCHANGED <<vars, ipmi, redfish, cmd, inherited>>

(* Run has seen ctx.Done: Simulator.Stop closes the socket ...             *)
StopIPMI ==
  /\ stage = "serving"
  /\ ~ctx
  /\ ipmi' = "closed"
  /\ stage' = "stopping"
  /\ UNCHANGED <<vars, redfish, cmd, inherited>>

(* ... and waits for the goroutine, which may still be serving a command.  *)
AwaitIPMI ==
  /\ stage = "stopping"
  /\ \A r \in Requests : ~Serves(r, "ipmi")
  /\ stage' = "stopped"
  /\ UNCHANGED <<vars, ipmi, redfish, cmd, inherited>>

(* Mutant: Shutdown is given a context of its own, and so waits until no   *)
(* request is being served.                                                *)
ShutdownWaits ==
  /\ stage = "stopped"
  /\ \A r \in Requests : ~Serves(r, "redfish")
  /\ redfish' = "closed"
  /\ stage' = "exiting"
  /\ UNCHANGED <<vars, ipmi, cmd, inherited>>

(* Emulator.Stop: Shutdown closes the listener and, as its context is      *)
(* cancelled already, does not wait for the requests being served; a       *)
(* ListenAndServe that comes later returns at once.                        *)
Shutdown ==
  /\ stage = "stopped"
  /\ redfish' = "closed"
  /\ stage' = "exiting"
  /\ UNCHANGED <<vars, ipmi, cmd, inherited>>

(* Run and main return.                                                    *)
Return == stage = "exiting" /\ Exit

AgentNext ==
  \/ \E r \in Requests : \/ Accept(r)
                         \/ Serve(r)
                         \/ Deliver(r)
                         \/ RecoverHandler(r)
                         \/ PanicExit(r)
  \/ Start
  \/ RunIPMI
  \/ RunRedfish
  \/ ListenAndServe
  \/ Interrupt
  \/ StopIPMI
  \/ AwaitIPMI
  \/ Shutdown
  \/ Return
  \/ Kill
  \/ Environment /\ UNCHANGED <<servers, cmd, inherited>>

(* The Go scheduler runs what can run.  No call to the API server has a    *)
(* timeout, so a step of an operation is only certain to come once the     *)
(* context is cancelled; a reply over UDP never waits, one over TCP may    *)
(* wait for its client for ever.                                           *)
Fairness ==
  /\ \A r \in Requests : /\ WF_agentVars(~ctx /\ Serve(r))
                         /\ WF_agentVars(Serves(r, "ipmi") /\ Deliver(r))
                         /\ WF_agentVars(PanicExit(r))
  /\ WF_agentVars(RunIPMI \/ RunRedfish \/ StopIPMI \/ AwaitIPMI \/ Shutdown \/ Return)

AgentSpec == AgentInit /\ [][AgentNext]_agentVars /\ Fairness

-----------------------------------------------------------------------------
(* Properties.                                                             *)

(* Every variable keeps its type.  A server is open only between the       *)
(* stages that start and stop it, and a goroutine works on the operation   *)
(* of the command it was given, until it has replied.                      *)
AgentTypeOK ==
  /\ TypeOK
  /\ stage \in Stages
  /\ ipmi \in {"closed", "open"}
  /\ redfish \in {"closed", "starting", "open", "failed"}
  /\ cmd \in [Requests -> Commands \cup {NoCommand}]
  /\ inherited \in BOOLEAN
  /\ up <=> stage # "new"
  /\ ipmi = "open" <=> stage \in {"ipmi", "serving"}
  /\ redfish # "closed" <=> stage \in {"serving", "stopping", "stopped"}
  /\ \A r \in Requests :
       op[r] = IF cmd[r] = NoCommand THEN "none" ELSE Operation(cmd[r])

(* The first of the devices with these boot orders, and nothing else, has  *)
(* an order.                                                               *)
BootsFrom(orders, others) ==
  /\ \A i \in DOMAIN orders : orders[i] = IF i = 1 THEN 1 ELSE 0
  /\ \A i \in DOMAIN others : others[i] = 0

(* What a client that sends a command wants of the machine.                *)
Done(c, image) ==
  CASE c.value \in {"PowerUp", "On"} -> WantsRun(vm)
    [] c.value \in {"PowerDown", "AcpiSoft", "GracefulShutdown", "ForceOff"} -> ~WantsRun(vm)
    [] c.value = "Pxe" -> BootsFrom(vm.intf, vm.disk)
    [] c.value \in {"Hdd", "Disk"} -> BootsFrom(vm.disk, vm.intf)
    [] c.name = "InsertMedia" -> vm.cdrom = 1 /\ dv = image /\ media.image = image /\ media.inserted
    [] c.name = "EjectMedia" -> vm.cdrom = 0 /\ dv = NoImage /\ ~media.inserted
    [] OTHER -> TRUE

(* A client that sends one command at a time and is told that it succeeded *)
(* finds the machine as it wanted it: no error on the way from the API     *)
(* server through the resource manager and the handler gets lost, although *)
(* KubeVirt makes Updates conflict and the agent panics, stops and         *)
(* restarts.                                                               *)
SuccessMeansDone ==
  \A r \in Requests :
    Answered(r) /\ Answer(r) \in Successes => Done(cmd[r], arg[r])

(* "Get virtual media status" (README.md:418): when nothing is going on,   *)
(* media the resource shows as inserted is attached, with that image, and  *)
(* media it does not show was attached before the process started (the     *)
(* resource is not rebuilt from the machine).                              *)
MediaStatusCurrent ==
  Quiescent =>
    /\ media.inserted => vm.cdrom = 1 /\ dv = media.image
    /\ vm.cdrom # 0 /\ ~media.inserted => inherited

(* "Gracefully shutting down the VirtBMC agent..." (virtbmc.go:85): an     *)
(* interrupted agent does stop, whatever commands it is serving, however   *)
(* long the API server takes and whether or not clients take their         *)
(* replies.                                                                *)
StopCompletes == (up /\ ~ctx) ~> ~up
=============================================================================
