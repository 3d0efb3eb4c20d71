----------------------------- MODULE AgentProofs -----------------------------
(***************************************************************************)
(* Proofs about Agent: what is proved of the resource manager holds of the *)
(* agent as a whole, for every set of commands.                            *)
(***************************************************************************)
EXTENDS Agent, ResourceManagerProofs

(* A step of the agent is a step of the resource manager, or none.         *)
LEMMA AgentStep == [AgentNext]_agentVars => [Next]_vars
<1> SUFFICES ASSUME [AgentNext]_agentVars PROVE [Next]_vars
  OBVIOUS
<1>1. ASSUME NEW r \in Requests, Accept(r) PROVE [Next]_vars
  <2>1. CASE UNCHANGED vars
    BY <2>1
  <2>2. CASE \E c \in Commands : /\ Operation(c) # "none"
                                 /\ \E i \in Arguments(Operation(c)) : Call(r, Operation(c), i)
    <3>1. PICK c \in Commands : /\ Operation(c) # "none"
                                /\ \E i \in Arguments(Operation(c)) : Call(r, Operation(c), i)
      BY <2>2
    <3>2. Operation(c) \in Ops
      BY <3>1, CommandAssumption
    <3>3. Receive(r)
      BY <3>1, <3>2 DEF Receive
    <3> QED
      BY <3>3 DEF Next
  <2> QED
    BY <1>1, <2>1, <2>2 DEF Accept
<1>2. ASSUME NEW r \in Requests, Serve(r) \/ Deliver(r) \/ RecoverHandler(r) PROVE [Next]_vars
  BY <1>2 DEF Serve, Deliver, RecoverHandler, Next
<1>3. CASE \/ \E r \in Requests : PanicExit(r)
           \/ RunIPMI \/ Return \/ Kill
  BY <1>3 DEF PanicExit, RunIPMI, Return, Kill, Exit, Next
<1>4. CASE Start \/ Interrupt \/ Environment
  BY <1>4 DEF Start, Interrupt, Next
<1>5. CASE RunRedfish \/ ListenAndServe \/ StopIPMI \/ AwaitIPMI \/ Shutdown
  BY <1>5 DEF RunRedfish, ListenAndServe, StopIPMI, AwaitIPMI, Shutdown
<1>6. CASE UNCHANGED agentVars
  BY <1>6 DEF agentVars
<1> QED
  BY <1>1, <1>2, <1>3, <1>4, <1>5, <1>6 DEF AgentNext

-----------------------------------------------------------------------------
(* Types.                                                                  *)

(* A step of an operation leaves what is being served, and that the        *)
(* process is up, alone.                                                   *)
LEMMA ServeFrame ==
  ASSUME NEW r, Step(r)
  PROVE  UNCHANGED <<op, up>>
  BY DEF Step, GetVM, GetRemoteFileSize, CreateDV, UpdateVM, DeleteDV, DeleteVMI, SetVirtualMedia,
         SetBootOverride, SetPowerState, Encode, cluster, cache, process, locals

(* So do KubeVirt and users.                                               *)
LEMMA EnvironmentServes == Environment => UNCHANGED <<op, up>>
  BY DEF Environment, KubeVirtInstance, KubeVirtStatus, UserEdit, cache, process, locals

(* The end of the process leaves a clean slate.                            *)
LEMMA ExitType ==
  ASSUME TypeOK', Exit
  PROVE  AgentTypeOK'
  BY DEF Exit, Crash, AgentTypeOK, Stages

(* Every step of the agent preserves the types, the order of its stages    *)
(* and the tie between commands and operations.                            *)
LEMMA AgentTypeStep == AgentTypeOK /\ [AgentNext]_agentVars => AgentTypeOK'
<1> SUFFICES ASSUME AgentTypeOK, [AgentNext]_agentVars PROVE AgentTypeOK'
  OBVIOUS
<1>0. TypeOK'
  BY AgentStep, TypeStep DEF AgentTypeOK
<1>F. cmd \in [Requests -> Commands \cup {NoCommand}] /\ op \in [Requests -> AllOps \cup {"none"}]
  BY DEF AgentTypeOK, TypeOK
<1> DEFINE Dispatched == \A s \in Requests :
             op[s] = IF cmd[s] = NoCommand THEN "none" ELSE Operation(cmd[s])
<1>D. Dispatched
  BY DEF AgentTypeOK
<1>1. ASSUME NEW r \in Requests, Accept(r) PROVE AgentTypeOK'
  <2>1. PICK c \in Commands :
          /\ cmd' = [cmd EXCEPT ![r] = c]
          /\ \/ Operation(c) = "none" /\ UNCHANGED vars
             \/ /\ Operation(c) # "none"
                /\ \E i \in Arguments(Operation(c)) : Call(r, Operation(c), i)
    BY <1>1 DEF Accept
  <2>2. c # NoCommand /\ cmd[r] = NoCommand /\ op[r] = "none"
    BY <1>1, <1>D, CommandAssumption DEF Accept
  <2>3. Dispatched' /\ up' = up
    <3>1. CASE Operation(c) = "none" /\ UNCHANGED vars
      BY <1>F, <1>D, <2>1, <2>2, <3>1 DEF vars
    <3>2. CASE \E i \in Arguments(Operation(c)) : Call(r, Operation(c), i)
      <4>1. op' = [op EXCEPT ![r] = Operation(c)] /\ up' = up
        BY <3>2 DEF Call, cache, process
      <4> QED
        BY <1>F, <1>D, <2>1, <2>2, <4>1
    <3> QED
      BY <2>1, <3>1, <3>2
  <2>4. cmd' \in [Requests -> Commands \cup {NoCommand}]
    BY <1>F, <2>1
  <2> QED
    BY <1>0, <1>1, <2>3, <2>4 DEF AgentTypeOK, Accept, servers
<1>2. ASSUME NEW r \in Requests, Serve(r) PROVE AgentTypeOK'
  <2>1. UNCHANGED <<op, up, servers, cmd>>
    BY <1>2, ServeFrame DEF Serve
  <2>2. inherited' \in BOOLEAN
    BY <1>2 DEF Serve, AgentTypeOK
  <2> QED
    BY <1>0, <2>1, <2>2 DEF AgentTypeOK, servers
<1>3. ASSUME NEW r \in Requests, Deliver(r) \/ RecoverHandler(r) PROVE AgentTypeOK'
  <2>1. cmd' = [cmd EXCEPT ![r] = NoCommand] /\ UNCHANGED <<up, servers, inherited>>
    BY <1>3 DEF Deliver, RecoverHandler, Ack, Recover, Forget, vars, cache, process
  <2>2. (op[r] = "none" /\ UNCHANGED op) \/ op' = [op EXCEPT ![r] = "none"]
    BY <1>3 DEF Deliver, RecoverHandler, Ack, Recover, Forget, vars
  <2>3. Dispatched'
    BY <1>F, <1>D, <2>1, <2>2
  <2>4. cmd' \in [Requests -> Commands \cup {NoCommand}]
    BY <1>F, <2>1
  <2> QED
    BY <1>0, <2>1, <2>3, <2>4 DEF AgentTypeOK, servers
<1>4. CASE Exit
  BY <1>0, <1>4, ExitType
<1>5. CASE Start
  <2>1. UNCHANGED op /\ up'
    BY <1>5 DEF Start, Initialize, locals
  <2> QED
    BY <1>0, <1>5, <2>1 DEF Start, AgentTypeOK, Stages
<1>6. CASE \/ stage = "initialised" /\ ipmi' = "open" /\ stage' = "ipmi"
              /\ UNCHANGED <<vars, redfish, cmd, inherited>>
           \/ RunRedfish \/ ListenAndServe \/ StopIPMI \/ AwaitIPMI \/ Shutdown
  <2>1. UNCHANGED <<op, up, cmd, inherited>>
    BY <1>6 DEF RunRedfish, ListenAndServe, StopIPMI, AwaitIPMI, Shutdown, vars
  <2> QED
    BY <1>0, <1>6, <2>1 DEF AgentTypeOK, Stages, RunRedfish, ListenAndServe, StopIPMI, AwaitIPMI,
                            Shutdown
<1>7. CASE (Interrupt \/ Environment) /\ UNCHANGED <<servers, cmd, inherited>>
  <2>1. UNCHANGED <<op, up>>
    BY <1>7, EnvironmentServes DEF Interrupt, Cancel, locals
  <2> QED
    BY <1>0, <1>7, <2>1 DEF AgentTypeOK, servers
<1>8. CASE UNCHANGED agentVars
  BY <1>0, <1>8 DEF AgentTypeOK, agentVars, vars
<1> QED
  BY <1>1, <1>2, <1>3, <1>4, <1>5, <1>6, <1>7, <1>8
     DEF AgentNext, PanicExit, RunIPMI, Return, Kill, Interrupt

(* Whatever commands arrive and however the process starts, stops, panics  *)
(* and is killed, its servers are open only in the stages that Run opens   *)
(* and closes them in, and a goroutine only ever works on the operation of *)
(* the command it was given.                                               *)
THEOREM AgentTypeCorrect == AgentSpec => []AgentTypeOK
<1>1. AgentInit => AgentTypeOK
  BY TypeInit DEF AgentInit, AgentTypeOK, Stages, Init
<1> QED
  BY <1>1, AgentTypeStep, PTL DEF AgentSpec

-----------------------------------------------------------------------------
(* Refinement.                                                             *)

(* The agent, with its protocols and its life cycle, implements the        *)
(* resource manager: each of its steps is one of the resource manager's or *)
(* leaves the resource manager alone.                                      *)
THEOREM AgentImplementsResourceManager == AgentSpec => Spec
<1>1. AgentInit => Init
  BY DEF AgentInit
<1> QED
  BY <1>1, AgentStep, PTL DEF AgentSpec, Spec

(* No command over either protocol, no panic, interrupt or restart makes   *)
(* the machine refer to a DataVolume that does not exist or gives it a     *)
(* second CD-ROM volume.                                                   *)
THEOREM AgentMediaSafe == AgentSpec => []AttachedMediaExists
  BY AgentImplementsResourceManager, MediaSafe, PTL

(* Nor does any of them make an operation less than atomic.                *)
THEOREM AgentAtomic == AgentSpec => ImplementsAtomicBmc
  BY AgentImplementsResourceManager, Refinement, PTL
=============================================================================
