# A TLA+ development for KubeVirtBMC

KubeVirtBMC gives KubeVirt virtual machines a virtual BMC. A *controller
manager* watches `VirtualMachineBMC` objects and keeps, for each of them, an
agent Pod with its Service, ServiceAccount and RoleBinding. The *agent*
(`virtbmc`) answers IPMI and Redfish requests by reading and changing the
machine's `VirtualMachine` object in the API server. The modules here model both
halves, TLC checks them on small instances, and TLAPS proves every safety
property that the runs check for every instance.

## Inventory

| Component | State | Operations | Interacts with | What is hard |
|---|---|---|---|---|
| Resource manager (`pkg/resourcemanager`) | the shared `computerSystem` and `virtualMedia` resources; the machine, its instance and its DataVolume are in the API server | PowerOn/Off/Cycle, SetBootDevice, Insert/EjectMedia, GetPowerStatus, GetComputerSystem, GetVirtualMedia, Initialize | API server (Get, Update, Create, Delete), image server (HEAD), every BMC request goroutine | read-modify-write races, multi-call operations that fail half way, caches without a lock, crashes |
| Redfish server (`pkg/redfish`) | none of its own | HTTP handlers that start the operations above | resource manager, sessions | encodes shared resources while others write them; errors pass through three layers; clients that never take their reply |
| Sessions (`pkg/session`) | token store behind an RWMutex | login, logout, lookup, middleware | Redfish server | logins, logouts and token checks interleave; the store dies with the process, the clients' tokens do not |
| IPMI simulator (`pkg/ipmi`) | none of its own | chassis control, status, boot options | resource manager | one goroutine for all commands; a panic in it ends the process |
| Agent process (`cmd/virtbmc`, `pkg/virtbmc`) | how far `Run` has come, the context | start, interrupt, graceful stop, exit | all of the agent | a kill between two API calls; a stop that waits for a command in progress |
| VirtualMachineBMC controller (`internal/controller/virtualmachinebmc`) | work queue, informer caches | event handlers, Reconcile | API server, kubelet, garbage collector, Service controller | stale caches, optimistic locking, lost deletes, names shared by objects, graceful Pod deletion |
| Service controller (`internal/controller/service`) | work queue | Reconcile | API server, the same status | second writer of one status |
| Webhook (`internal/webhook`) | none | validate create and update | manager's cache | validates against a stale cache |

What makes each of them correct:

* resource manager: an operation takes effect at most once and overwrites nobody
  else's change; the machine never refers to a DataVolume that is not there;
  it stays valid in KubeVirt's eyes; what clients read back agrees with it;
* servers and process: a reply that says success is true; an interrupted agent
  stops;
* sessions: only clients that know the present credentials are served, and a
  session lasts until it is deleted itself, and no longer;
* controllers: once users stop changing things, a `VirtualMachineBMC` whose
  machine and Secret exist is served by an agent of its own with the present
  credentials, one without them has no Pod, nothing of a deleted one is left,
  the status is true, and no status write is lost.

## Modules

| Module | Models |
|---|---|
| `VirtualMachine` | the fields of the `VirtualMachine` object the agent uses; what each operation does to the copy it has read |
| `ResourceManager` | the agent: one step per API call and per write to a shared resource, several requests at a time |
| `AtomicBmc` | the abstract specification: what the agent promises its clients |
| `MCResourceManager` | the sets of operations the TLC runs let clients use, symmetry |
| `ResourceManagerProofs` | the proofs about `ResourceManager` |
| `Protocols` | what the IPMI and Redfish handlers call and reply: pure tables |
| `Agent`, `AgentProofs` | `ResourceManager` behind both servers, and the life of the process; the proofs about it |
| `SequentialProofs` | the proofs about clients that send one command at a time |
| `Session`, `SessionProofs` | Redfish sessions, and the proofs about them |
| `Cluster` | the objects, informer caches and queues of the controller manager; users behind the webhook; kubelet and garbage collector |
| `VirtualMachineBMCController`, `ServiceController` | the two controllers, each over `Cluster` |
| `ControlPlane`, `ControlPlaneProofs` | both controllers composed, restarts of the manager, fairness and properties; the proofs about them |

Operators named `...Blind`, `...Skip`, `...NoRetry` and so on, each introduced
by the word *Mutant*, are broken variants of the definition after them. No
specification uses them; each stands for a plausible bug, and substituting it
makes a property fail, which shows that the property depends on that line.

### ResourceManager

`vm`, `vmi`, `dv` are the API server's objects; `cs` and `media` are
`m.computerSystem` and `m.virtualMedia`; `pc`, `op`, `arg`, `snap`, `fresh`,
`out` are the request goroutines. A request goes through the program points of
its operation: `get` (the Get and the early returns behind it), `head`
(`GetRemoteFileSize`), `createDV`, `updateVM`, `deleteDV`, `deleteVMI`, then the
writes to the shared resources one by one (`setImage`, `setInserted`, `setVia`;
`setEnabled`, `setTarget`; `setPower`), `encode` for the HTTP layer, which
encodes a pointer to a shared resource, and the answer `ok` or `error`. Each API
call may succeed, fail with nothing done (`"error"`), or be carried out and
answered with an error (`"lost"`). All calls but the HEAD request carry `m.ctx`:
once it is cancelled (`ctx` is FALSE) none succeeds, while one under way may still
have been carried out. The model does not remember whether a call was sent before
the cancellation, so it lets a call be carried out after it as well.

Two places panic: SetBootDevice indexes an interface or disk list that is empty
but not nil (`EmptyLists`), and EjectMedia dereferences the DataVolume of a
volume that is not one (`foreign`). The request is then at `panic`, from where
net/http recovers or the process ends. A second volume of the CD-ROM's name is
what KubeVirt's admission refuses (`Admitted`), after InsertMedia has created its
DataVolume.

resourceVersions are represented by `fresh[r]`, "the object is still the version
request r has read", set by a Get and cleared by every write that changes the
object. An Update is accepted iff its flag is set. No counter is needed, so the
state space is finite and the proofs need no bound.

The machine's hardware (template, number of interfaces and disks, the CD-ROM) is
constant. Users change the run policy and the boot orders and put a volume that
is not a DataVolume behind the CD-ROM disk or take it away; KubeVirt starts and
ends instances and updates `Status.Ready`. Users do not touch the agent's own
volume or DataVolume behind its back.

### Protocols and Agent

A command is a handler's name and the value that decides what the handler does;
values that it treats alike are one value. `Operation` is the operation it calls,
`Reply` the completion code or HTTP status it answers with, given how the
operation ended. Three replies are worth knowing: IPMI commands the handlers do
not act on count as completed; a PATCH with another target answers 204 and does
nothing, while SetDefaultBootOrder and IPMI pass an unknown device on, which
clears every boot order; and the override mode of a PATCH (`Once`, `Continuous`)
is not looked at.

`Agent` adds to the resource manager the command each goroutine serves, the two
servers and `stage`, the point `VirtBMC.Run` has reached: `new`, `initialised`,
`ipmi`, `serving`, and after the interrupt `stopping` (the IPMI socket is closed),
`stopped` (its goroutine has ended), `exiting` (Redfish is shut down). The IPMI
server serves one datagram at a time, Redfish any number of connections.
ListenAndServe runs in a goroutine of its own and may fail unnoticed. A panic is
recovered by net/http and ends the process in the IPMI server. `inherited` is a
history variable for `MediaStatusCurrent`. Every step is a step of
`ResourceManager` or leaves it alone, which `AgentProofs` proves.

### Session

`store` maps tokens to sessions. A token is a hash of the session and never
equals an id (`IdAssumption`), which is what `DeleteSession` gets wrong. Each
critical section of the lock is a step, so other requests run between the
middleware and a handler.

`trusted` are the clients that know the credentials of the running process. A
client may send no credentials, wrong ones and, if it is trusted, the right ones,
with or without an `X-Auth-Token`: one that it was given, by this process or by an
earlier one, one that nobody was given, or a session's id. What it cannot send is
another client's token: the token is a hash of a random id that only the login's
answer carries. Names in a DELETE are any ids and any tokens. The process may restart
at any time, with other credentials. `granted` and `out` are history variables for
the properties.

### Control plane

An informer is a cache and a set of objects whose last change it has not
delivered; a cached object is the current version iff it is not in that set.
Events of owned objects only put a key into the queue, so a late event is a key
that waits. The workers step from API call to API call; `fresh` is again the
resourceVersion. Both controllers run one worker, the default.

A Secret's event changes the cache first; the handler, which deletes Pods itself,
runs later (`onSec`, `h`). `EnqueueRequestsFromMapFunc` calls it for the old and the
new object of an update and once for a creation or deletion. Each call lists the
VirtualMachineBMCs (`Find`), deletes their Pods one by one, any of which may fail on
its own (`SecretDelete`), and returns the keys to queue (`SecretReturn`). A resync is
an update without a change (`Resync`); an event that arrives while an earlier one of
that Secret waits is handled together with it.

Deleting a Pod leaves it terminating until the kubelet removes it; Create answers
AlreadyExists until then. Objects carry their owner's name and incarnation, and
the garbage collector removes those whose owner's incarnation is gone. A Pod's
environment gets the Secret's credentials when its container starts.

## Runs

All runs use module `MCResourceManager`, `Agent`, `Session` or `ControlPlane` with the
configuration of the same name as the run.

| Run | Checks | Bounds |
|---|---|---|
| `media` | `AttachedMediaExists`, `MediaLock`, `AttachedMediaStable`, `ImplementsAtomicBmc` | two clients insert and eject two images and read the system; users toggle a foreign volume, which makes an eject panic; errors, lost answers, crashes |
| `power` | `TypeOK`, `MachineValid`, `ImplementsAtomicBmc` | two clients; power off, reset, network boot; users switch between Running and RunStrategy and give boot orders 0..1 to one interface and one disk; all faults |
| `agent` | `AgentTypeOK`, `SuccessMeansDone`, `MediaStatusCurrent`, `BootOverrideInForce`, `StopCompletes` | every command of both protocols, one at a time; no interface (so that Pxe panics), two disks, the second the CD-ROM; interrupts, kills, ports that cannot be bound; KubeVirt's writes make Updates conflict |
| `sessions` | `OnlyTrustedServed`, `SessionsLast` | two clients, each trusted or not; three logins; any number of restarts |
| `changes` | `EventuallyServing`, `EventuallyTruthful` | two changes of machine, Secret or reference; two Secrets |
| `restarts` | `EventuallyServing` | one such change or a resync of a Secret, one restart of the manager |
| `failures` | `TypeOK`, `NoLostWakeup`, `StatusNotLost`, `EventuallyStopped`, `EventuallyTruthful` | two changes of machine or Secret, one failed call or restart |
| `lifecycle` | `EventuallyServing`, `EventuallyCollected` | two creations or deletions of the VirtualMachineBMC or the machine |

Two clients are enough for the races of the agent: every conflict is between one
Get-Update pair and one other write, and the proofs remove the bound. `media` and
`power` treat requests and images as symmetric, which is sound there: neither
checks liveness. `agent` is about a client that waits for its reply, so it has
one request; its liveness property forbids symmetry. The
control-plane runs use one VirtualMachineBMC and one machine; each change can hit
any point of the reconciliations the earlier ones caused, and the caches may be
behind by all of them. Two clients are enough for sessions: one that is
trusted and one that is not, before and after a restart, in any combination. `CHECK_DEADLOCK FALSE` is set there because a manager with
nothing to do waits, and the bounded users have stopped.

The remaining runs show disagreements between the code and what the repository
says of it:

| Run | Property | What happens |
|---|---|---|
| `orphan` | `InsertNotBlocked` | an InsertMedia whose Update conflicts leaves its DataVolume; no later insert succeeds and no eject removes it |
| `logout` | `LogoutEndsSession` | logging out leaves the token valid |
| `secret_error` | `EventuallyServing` | both Pod deletes that an update of the Secret tries fail, which is only logged; old credentials stay in use until the Secret is announced again (its next change, a restart, a resync: every ten hours by default). With one failing call (`MaxFaults = 1`) the property holds |
| `moved_vm` | `EventuallyCollected` | the old machine's agent keeps running after the reference changes |

The limits of the properties that hold, each of which is easily seen by changing
a constant of a configuration:

* `SuccessMeansDone`, `MediaStatusCurrent` and `BootOverrideInForce` are about one
  command at a time. With two (`Requests = {r1, r2}` in `agent`) an eject overtakes
  an insert that has not yet written the media resource, and another client undoes
  what a reply has confirmed. No property is about the power state in a
  `GetComputerSystem` reply: it is encoded from the shared resource, where a
  concurrent request may have written an older state.
* A panic gives no reply and may end the process; `SuccessMeansDone` and
  `ImplementsAtomicBmc` show that it confirms nothing and changes nothing, not that
  it does not happen. `SuccessMeansDone` says nothing of PowerCycle and of devices
  and targets the handlers give no meaning to.
* `MediaStatusCurrent` excepts media attached before the process started, as the
  resource is not rebuilt from the machine. It also needs API calls that do not
  fail on their own: an eject whose Delete fails has detached the volume and
  leaves the resource as it was (add `"error"` to `Faults`).
* `StopCompletes` is about SIGINT. SIGTERM, which a Pod gets, is not trapped and
  is the same as a kill.
* `EventuallyServing` is about a machine with one VirtualMachineBMC. Of two for
  one machine (`Bmcs = {b1, b2}`, `UserOps = {"createBMC"}`), which the webhook
  accepts, the second is never served: names are derived from the machine, and
  AlreadyExists counts as success.
* `EventuallyServing` also needs that no call fails while the reference to the
  Secret changes (`UserOps = {"editBMC"}`, `Secrets = {s1, s2}`, `Faults = {"error"}`):
  the condition with the new name is written, the Pod's delete fails, and the
  Reconcile that is tried again finds the condition unchanged and the Pod
  AlreadyExists. The agent then keeps the credentials of the Secret it no longer
  refers to.
* `Ready` says that the Service has a ClusterIP. It is never reset, so it stays
  True when the machine or the Secret, and with it the Pod, is gone, although the
  repository's README (line 285) has users look at it to see whether the BMC is
  ready to serve. `StatusNotLost` states that it stays, not that it is true.
* `PowerOn` replaces every run strategy, Always included, by RerunOnFailure.

### Fairness

In `Agent`, the steps of `Run` and the end of a panicking process are weakly
fair: nothing but the scheduler decides about them. An operation's steps are fair
only once the context is cancelled, since no API call has a timeout of its own
and the cancellation ends them (the HEAD request, which does not carry the
context, has a timeout). Replies over UDP are fair; replies over TCP are not, a
client may never read them. The agent's other properties need no fairness. In
`ControlPlane`, informers, workers, the
kubelet and the garbage collector are weakly fair: they are loops that never
stop. Taking a key from a queue is strongly fair, since the worker is busy in
between but the queue is first-in first-out and failed keys come back after a
delay. Users and faults are not fair and are bounded by `MaxEdits` and
`MaxFaults`; "eventually" is therefore "after the last change and the last fault".

## Proofs

`ResourceManagerProofs` proves, for any set of requests, any images, hardware and
faults, from `HardwareAssumption` and `RequestAssumption` alone:

* `TypeCorrect`: `Spec => []TypeOK`;
* `MediaSafe`: `Spec => []AttachedMediaExists`;
* `MediaLocked`: `Spec => []MediaLock`;
* `MediaStable`: `Spec => AttachedMediaStable`;
* `Refinement`: `Spec => ImplementsAtomicBmc`, i.e. `ResourceManager` implements
  `AtomicBmc` under the mapping `Phase` of program points to phases;
* `AlwaysValid`: `Spec => []MachineValid`.

The argument: `AttachedMediaExists` is not inductive, for an Insert that is about
to attach must know that its DataVolume still exists and that nothing has been
attached since it looked. `MediaLock` says so: from the Create to the Update, and
from an Eject's Update to its Delete, a request owns the DataVolume's name, since
Create fails while it exists. That in turn needs `SnapCurrent`, a copy whose flag
is set equals the stored object, and `Control`, which operation is at which
point and past which check. `IndInv` is their conjunction. Steps are grouped by
what they leave alone (`MediaFrame`, `EnvironmentFrame`, `LocalFrame`). In the
refinement the step that carries out the API write is `Apply`; `SnapCurrent`
makes it act on the machine as it then is. `MachineValid` follows in the same way:
what an Update stores is `Effect` of the stored object (`SnapCurrent` again), and
`Effect` keeps a valid object valid (`EffectValid`).

`AgentProofs` proves, from `CommandAssumption` in addition:

* `AgentTypeCorrect`: `AgentSpec => []AgentTypeOK`, the stages, servers and
  commands fit together;
* `AgentImplementsResourceManager`: `AgentSpec => Spec`, by cases on the agent's
  actions, each of which takes one action of `ResourceManager` or none;
* `AgentMediaSafe` and `AgentAtomic`: with it, `AttachedMediaExists` and
  `ImplementsAtomicBmc` of the whole agent, whatever commands it gets.

`SessionProofs` proves, for any number of clients and sessions, from
`IdAssumption`:

* `OnlyTrusted`: `Spec => []OnlyTrustedServed`;
* `SessionsIndependent`: `Spec => []SessionsLast`.

Neither is inductive. A token in the store belongs to a session that the running
process has granted (`StoreGranted`), and only trusted clients were given one of
those (`GrantedTrusted`); so what a client can present and the store knows is a
token the client itself was given by this process (`PresentedKnown`). That and the
second theorem rest on tokens being injective (`TokenInjective`): no login
overwrites another session, and no logout removes one other than that it names.

`SequentialProofs` proves, for a client that waits for each reply
(`OneAtATime`: there is one request), any commands, images and hardware:

* `BootOverrideCorrect`: `Spec => []BootOverrideInForce`, without users' edits
  (which change the boot orders behind the agent's back) and lost answers (the
  machine has changed, the cache has not);
* `SuccessCorrect`: `AgentSpec => []SuccessMeansDone`, without users' edits
  (which undo what has been done before the reply arrives);
* `MediaStatusCorrect`: `AgentSpec => []MediaStatusCurrent`, without failing calls
  and lost answers (an eject whose Delete fails has detached the volume and
  leaves the resource as it was).

Each excluded fault is necessary: TLC finds the property violated as soon as it is
added to `Faults`. KubeVirt's writes, conflicts, panics, interrupts, kills and
restarts are never excluded, and every hypothesis is one the run `agent`
satisfies. What the three properties say of a moment when nothing is going on, or
of a reply, is carried there by an invariant over the program points of the one
request: `Points` (a request is only at points of its operation and past its
checks), `MachineSettled` and `MediaSettled` (from its API write on, the machine, the
DataVolume and the media resource are as the operation leaves them), `BootKept` and
`MediaKept` (but for the points between an API write and the last write of the
cache, the cached override is in force and the media resource agrees with the
machine).
The lemmas `GetMoves`, `UpdateMoves`, `CallMoves` and `WriteMoves` say once where
each kind of step takes a request; `PowerEffect`, `BootFixed`, `EffectKeepsBoot`
and `EffectKeepsMedia` say what `Effect` does to the machine.

`ControlPlaneProofs` proves, for any number of VirtualMachineBMCs, machines,
Secrets, edits, failing calls and restarts, from `ClusterAssumption` alone:

* `ClusterTypeCorrect`: `Spec => []TypeOK`;
* `StatusCorrect`: `Spec => StatusNotLost`;
* `WakeupCorrect`: `Spec => []NoLostWakeup`.

A copy whose version flag is set equals the stored object (`FreshCopies`), which
needs `CacheCurrent` (a cached object differs from the stored one only while its
event is still to come), because both workers start from the cache; `VersionInv` is
the two with the types. `StatusNotLost` follows: the step
that writes an object works on a copy equal to it, so it changes only the field
it means to (`WritesKeep`). `NoLostWakeup` needs the same of the other caches
(`CachesCurrent`) and, while the worker is on an object nothing is due for, that
its copy is current and the conditions it has already compared are true
(`Settled`). The core of its proof is `DueStep`: if nothing is due for an object
after a step, nothing was due before, or the worker has just taken it; a key that
the Secret's handler has found and not yet returned counts as due. An event
handler that misses a VirtualMachineBMC because the cache does not know its new
reference yet is harmless, for the event of that reference is still to come.

Only model-checked: the liveness properties (`StopCompletes` and those named
`Eventually...`), which are out of the prover's reach; `NoLostWakeup` is the part
of `EventuallyTruthful` that is safety. The properties of the last four runs are
false. What the proofs do not remove are the bounds of the liveness runs.

## Not modelled

* Most of the repository's lines. `pkg/generated/redfish/server` (1,446 files,
  among them 160,000 lines of `api_default.go`) is generated from the Redfish
  schema, and all but a dozen of the functions in the 76,000 lines of
  `api_service.go` are generated stubs that answer 501. They keep no state and
  differ in names only; they are the one command `Unimplemented`. What is left is
  about 2,500 lines written by hand, most of which the map covers.
* Manifests, charts, test builders and mocks; constant documents (service root,
  collections, the manager), which are the one command `Constant`.
* IPMI sessions, authentication and packets too short to decode, which the IPMI
  library answers. Redfish authentication is in `Session` and not composed with
  `Agent`: a request the middleware refuses never reaches a handler.
* `VirtualMachineBMC` objects with nil references (the webhook rejects them), a
  Service without a ClusterIP (the API server assigns it on creation), restarts
  of the agent's container inside its Pod, leader election. Of the periodic resyncs
  only those of Secrets are modelled, the others just queue keys.
* Changes to one object that follow each other reach a cache as one change. Reads
  and lists from the manager's caches do not fail.

## Plan

1. The safety part of `EventuallyServing` and `EventuallyStopped`: when nothing is
   due for a VirtualMachineBMC, its Pod is as its conditions call for, with the
   failing delete of the Secret's handler excluded.
2. The safety part of `StopCompletes`: from the interrupt on, no step goes back to
   an earlier stage or opens a server.
