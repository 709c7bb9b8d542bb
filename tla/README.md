# A formal model of the adapter control plane

This directory holds TLA+ specifications of the control plane under
`src/control-plane` and of the adapters under `src/adapters`, the TLC
configurations that check them on small instances, and TLAPS proofs of what
holds on instances of every size. Paths below are
relative to `src/control-plane/` unless they start with `adapters/`.

## 1. The system

A user designs *scenarios*, each a list of *adapters* (stub servers that
imitate a REST, SOAP, SFTP, ... partner system), launches them into a
Kubernetes namespace and stops them again. One process, the control plane,
serves the dashboard's REST API, keeps every scenario in memory, and drives the
cluster. Adapter pods call it back for their configuration and to report that
they were used; a goroutine stops what nobody has used for thirty minutes.

| Component | State | Operations | Talks to |
|---|---|---|---|
| In-memory store, `store/memory.go` | map from scenario id to `*Scenario`; each holds a slice of `Adapter`; a mutex | create, get, list, rename, delete, clone and load scenarios; add, get, update, delete adapters; set status, URL, activity | gives pointers and slices of its own memory to its callers |
| System log, `store/memory.go` | the last 1000 entries | add, read the last n | startup, idle check, dashboard |
| HTTP handlers, `api/handlers.go` | none but the locals of each request's goroutine | one handler per route | store, Kubernetes client; adapters call back |
| Kubernetes client, `k8s/client.go` | none; the cluster's objects, keyed by name | create, scale, delete deployments, services and APIRules; sweep | API server, which may refuse or lose an answer |
| Startup and idle shutdown, `main.go` | ticker | load the manifest; check and stop | store, Kubernetes client |
| Adapter configuration endpoint, `api/handlers.go` | none | find an adapter by id, in local mode by type, and give its configuration | store; asked by every adapter |
| SFTP adapter, `adapters/sftp` | host key; per connection a configuration and a file store | accept, log in, read, write, list, rename, remove | config and activity endpoints |
| HTTP stub adapters, `adapters/{rest,odata,soap,xi,as2,as4,edifact}` | none | answer a request after fetching the configuration; report activity | config and activity endpoints |
| Sender adapter, `adapters/sender` | none | trigger: optional CSRF fetch, then the call | config and activity endpoints; the target; the control plane, which has a proxy for triggers |
| Middleware, dashboard, manifests | | | |

What is hard about it:

* **The store hands out its memory.** `GetScenario` returns the map's pointer,
  `GetAdapter` a pointer into a slice's backing array, `ListScenarios` structs
  whose slices share their arrays with the map. The mutex protects the methods,
  not what callers do afterwards, and `DeleteAdapter` moves elements *inside*
  the array that others are ranging over.
* **Handlers take long.** A launch makes several cluster calls per adapter, one
  of which polls for up to two minutes, between reading the store and writing
  it. Other requests and the idle check run in the meantime.
* **Two states must agree.** What the store says of an adapter (`running`, a
  public URL) and what the cluster has. There is no reconciliation; whatever a
  sequence of requests leaves different stays different.
* **Names and ids.** Cluster objects go by adapter names, deployments by the
  name at creation, the store by ids made from the current second.
* **Nothing is pushed.** An adapter learns of its configuration by asking, with
  every request or connection, while users edit, stop and delete it.
* **Calls that cannot be taken back.** A sender calls a system it knows nothing
  of, with a token and a session it fetched a moment before; a call that timed
  out may have been handled.
* **Failure.** Cluster calls fail or lose their answers and are not repeated;
  a restart loses the whole store and none of the cluster.

What makes each component correct, in short: the store behaves like a map of
plain values whatever its callers hold on to; the log is exactly its newest
entries; once handlers are done, what is shown as running runs and what runs is
shown; handlers touch only what they were called for; abandoned scenarios are
stopped; every request is answered; an adapter answers from a configuration that
is in force, and an SFTP client finds whole files under the names it is shown; a
sender calls once, as one configuration says, and tells the truth about it.

## 2. Modules

```
Adapters          ids, the Adapter record, copies of adapters
  ScenarioCatalog   what the store promises: a map of values     (abstract)
  MemoryStore       the store: structs, slices, backing arrays   (implements it)
    MCMemoryStore     instance        MemoryStoreProofs   theorems
  Cluster           the API server and the client's calls
ControlPlane      EXTENDS MemoryStore, Cluster: handlers, idle check, startup
    MCControlPlane    instances
    ControlPlaneProofs, SerialProofs, AgreementProofs, CatalogProofs   theorems
SystemLog         the capped log      SystemLogProofs     theorems
SftpFiles         the SFTP adapter
    MCSftpFiles       instance        SftpProofs          theorems
StubAdapter       HTTP adapters and their endpoint
  Sender            EXTENDS it: triggers, the systems called
    MCStubAdapter     instance of both    StubProofs      theorems
```

**Adapters.** An id is a scenario id, a type and a number (a position, or the
second of the request; in local mode the id of the container of that type, one
for all senders). `last` abstracts
`LastActivity` to never / recent / old, `url`, `key` and `name` keep only where
a URL, an SSH host key or the name of a scenario came from; behaviour mode,
credentials, file lists and other configuration are data that nothing in the
control plane decides on.

**MemoryStore.** `catalog` is `s.scenarios`, `object` the allocated `Scenario`
structs, `array` the backing arrays; addresses are allocated in order and never
reused, as garbage collection makes it look. One action per method, each atomic
because its body holds the mutex. `append` is modelled with its capacity rule:
in place while there is room, otherwise into a new array of twice the size.
`DeleteAdapter` shifts the tail inside the array and leaves the stale last slot.
`PokeStatus` and `PokeUrl` are the two assignments the launch handler makes
without the mutex. `TimePasses` ages recorded activity; `NewMemoryStore` is a
process start.

**ScenarioCatalog.** The same operations on a map from ids to records with a
sequence of adapters: no addresses, no sharing. The refinement mapping in
`MemoryStore` (`Value`) forgets addresses.

**Cluster.** Three maps from names to objects. Creating a name that exists
fails, deleting and scaling one that does not is harmless (the client logs the
error). With `Faults` a create may be refused or take effect and report an
error, a delete or a scale may have no effect.

**ControlPlane.** `local[p]` is what the goroutine of request slot `p`, or of
the idle check, holds: where it is, the scenario pointer (`obj`), the captured
slice header (`arr`, `len`) and loop index, the adapter pointer (`arr`, `idx`),
the copy of the adapter it works on (`cur`). A handler is cut at every call and
at every access to shared memory:

| Handler | Steps |
|---|---|
| launch, per adapter | `Pick`, `CreateDeployment`, `CreateService`, `Expose`, `MarkRunning`, `SetUrl`, `WriteStatus`, `WriteUrl`; then `Finish` |
| stop, and the idle check's loop | `Pick`, `Scale`, `MarkStopped`; then `Finish` |
| delete scenario | `Pick`, `RemoveDeployment`, `RemoveService`, `RemoveRule`; then `Finish` |
| delete adapter | `Check`, `RemoveDeployment`, `RemoveService`, `Reread`, `RemoveRule`, `RemoveAdapter` |
| update adapter | `Check`, `RemoveDeployment`, `RemoveService`, `MarkStopped`, `ReadKey`, `Write` |
| stop adapter | `Check`, `Scale`, `MarkStopped` |
| cleanup | `BeginCleanup`, `SweepTheRest` |
| idle check | `ListScenarios`, `ChooseScenario`, `Examine`, then the stop loop |
| create, rename, clone, add, activity | one step: one call to the store decides |

The index write `scenario.Adapters[i]` goes through the pointer and sees the
slice as it is *then*; past its end the handler panics, `net/http` recovers and
the request ends (`InRange`).

Simplifications of `ControlPlane`, all in the direction the code allows:
adjacent reads of one pointer with no call between them are one step; the list
and the deletions of one kind of object in a sweep are one step (cleanup runs
beside the idle check only); an `idleCheck` stops looking at a scenario at the
first active adapter, which decides. Local mode and "no Kubernetes client" are
taken together, as the compose file runs them. `steady` is history: the adapters
that have been running and in use since the idle check listed the scenarios.

**SftpFiles.** One pod. `served` is what the configuration endpoint would
answer, `hostKey` what `main` made of it at start, `phase`, `config` and `files`
the local variables of `handleConnection`, `handle[h]` what channel `h` of the
connection has open: a `fileReader` with what it has given out, a `fileWriter`
with its buffer, a `fileLister`. `Accept`, `FetchConfig`, `Handshake` and
`Disconnect` are the steps of a connection; the login fetches a configuration
of its own. Each request is one step, the body of a method under the store's
mutex, except that `ListAt` reads names later and without it: an entry of a
lister says under which path its file is now (`at`), or is the last name of a
file that is gone. `Close` commits an upload. External: `sftp` serves the writes
of one upload with several workers, so in any order, and its `Close` after them;
each channel has one handle open, and blocks are written once, as clients do.
Two connections share the host key only, so one after the other is enough.
File sizes and times, directories (no-ops), keys that do not parse and the
fatal exit they cause are left out.

**StubAdapter.** `request` is one HTTP request to any of the seven adapters, and
a trigger up to its configuration: `Receive`, `HandleAdapterConfig`, `Examine`
and `LookFurther` (the lookup at the control plane), `Check`, `Wake` after a
delay, `Depart`. It says what the handler holds, which adapter was `reported` as
used and whose configuration was `served`. `hosted` is, per
scenario, the array of its adapters and their number, as in `MemoryStore`; the
lookup takes the numbers once, as `ListScenarios` gives them, and then goes
through the arrays element by element while `Edit`, `LaunchOrStop` and `Delete`
change them in place. Adapters are not added: an append never moves what the
lookup reads. An edit is taken as whole. Kinds differ in what they check and in
how they choose status and body (`Refusal`, `SoapReply`, `XiReply`, `AckReply`).
`inForce` and `overtaken` are history: what could have been said of the
addressed id until its configuration was fetched, and whether adapters moved
under the lookup.

**Sender.** `handleTrigger` is cut where it waits: `HandleTrigger` (up to the
token fetch, or the call without one), `TokenArrives` or `FetchFails`,
`ResultArrives` or `CallFails`. `trigger` holds the token and cookie, the one
message and the one answer under way, and what the called systems did
(`handled`). `HandleMessage` and `ExpireSession` are those systems, external:
they ask for credentials, and those in `Guarded` for the token and cookie of one
live session. A message may stay `transit` for ever (lost), or be handled after
the sender gave up (late). A sender that is asked to serve an adapter of another
kind finds no target. `triggerAdapter` and `DialFails` are the proxy of the
control plane, which never gets through (section 5).

## 3. Runs

Every instance of `ControlPlane` uses one or two request slots; the second is what an
interleaving needs, and no handler reacts to a third. Two or three adapters are
what an in-place shift needs to show (one removed, one moved, one stale), two
scenarios what isolation needs.

| Run | Instance | Shows |
|---|---|---|
| `MCMemoryStore` | the store alone, 2 structs, 3 arrays, slices to 3 | `StoreTypeOK`, `SliceShape`, `NoAliasing`, `Isolation`, and that the heap implements `ScenarioCatalog` (`ImplementsCatalog`) |
| `MCSerial` | one user, 5 requests | `RunningBacked`, `RunningVisible`, `DeploymentsOwned`, `HostKeyKept`, `LaunchOmitsNone` |
| `MCFaults` | one user, failing calls, restarts, a loaded manifest | `RunningBacked`, `RunningVisible` survive both; `TypeOK` |
| `MCIsolation` | 3 requests, 2 at a time, on 2 scenarios of 2 and 1 adapters, several creations per second; slots symmetric | `StoreSteps`, `ClusterIsolation`, `CapturedReadsStayHome` |
| `MCIdle` | time, reports, cleanup, 3 requests; fairness | `AbandonedStopped`, `Answered`, `IdleSparesUsed`, `RunningSeeded`; `CapturedReadsStayHome` for the idle check's loops beside requests |
| `MCLocalMode` | `LOCAL_MODE`, one user, 4 requests, clones too | `LaunchLaunchesAll`, `StopStopsAll`, `RunningVisible` |
| `SystemLog` | capacity 4, 12 entries, tails 0 to 5 | `LogIsNewest`, `PollMissesNothing`, `LogTypeOK` |
| `SftpFiles` | 2 paths, 2 channels (symmetric), files to 2 blocks, batches of 1, 2 configurations and none | `UploadsArriveWhole`, `DownloadsAreWhole`, `ListingComplete`, `NamesAgree`, `FilesWereServed`, `SftpTypeOK` |
| `StubAdapter` | up to 3 adapters in 1 or 2 scenarios, 2 configurations of a type, 6 kinds, 4 messages, 2 called systems, both modes; fairness | `AnswerIsCurrent`, `UseIsReported`, `ResultIsTrue`, `CallsAreConfigured`, `SessionIsUsed`, `RequestsEnd`, `StubTypeOK` |
| `MCRelaunch` | launch, stop, launch | `LaunchLaunchesAll` **fails** |
| `MCLaunchDelete` | launch beside delete, 3 adapters | `RunningBacked` **fails** |
| `MCClone` | clone, launch, delete | `ClusterIsolation` **fails** |

*The properties.* `RunningBacked`: with no request in progress, an adapter shown
as running has its own deployment with one replica, its own service and, behind
a public URL, its APIRule. `RunningVisible`: its scenario is shown as running,
or the Stop button, the dashboard and the idle check would pass it over.
`DeploymentsOwned`: every deployment belongs to an adapter whose deletion would
remove it. `LaunchOmitsNone`: a launch leaves an adapter stopped only where its
own deployment, scaled to zero, is in the way. `CapturedReadsStayHome`: whatever
is shifted, appended or reallocated, a captured slice or pointer shows adapters
of the scenario it was taken from, never an empty slot. `StoreSteps`: each step
of the control plane is a step of `StoreSpec`, so what is proved of the store
under any caller holds in the system. `ClusterIsolation`: a deployment changes
only while a handler works for the scenario it belongs to, provided that no two
adapters have one name. `AbandonedStopped`: a running scenario without recent
activity does not stay running, as long as no launch overlaps a deletion (section
5). `IdleSparesUsed`: the other side of it, the
check stops no adapter that was running and in use from the moment it listed the
scenarios. `UploadsArriveWhole`: in whatever order its writes come, a closed
upload is each block at its offset and zeros in the gaps. `DownloadsAreWhole`: a
finished download is a configured file or one upload, never parts of two.
`ListingComplete`: a finished listing shows each file that nobody touched
meanwhile, once. `FilesWereServed`: a connection starts with the files of a
configuration that was served while it was set up. `AnswerIsCurrent`: an answer
is what one configuration says that the addressed adapter had between the
request and the lookup, and "not found" is said only if it was so at some moment
or the dashboard moved adapters under the lookup. `UseIsReported`: whoever's
configuration is used is reported to be used, so that the idle check does not
stop it. `ResultIsTrue`: a result with a status is the target's answer to the
one call, a result with an error before the call means that there was none and
will be none, and a failed call was made once at most and is not made again.
`CallsAreConfigured`: all a trigger sends goes where one configuration of the
adapter says, under that one's credentials. `SessionIsUsed`: the call is not
refused for want of a token by a system that opened a session for it, unless the
session expired. `RequestsEnd`: every request, a trigger too, is answered or its
connection dropped.

*Bounds.* `MaxObjects` and `MaxArrays` bound allocation, `MaxRequests` the
requests and restarts, `Horizon` the seconds in which things are created,
`MaxAdded` the log entries. A run ends when its requests are spent, so runs
without the clock allow deadlock. `MCMemoryStore` explores every shape of the
heap, but goes on only from states in which at most one field of one adapter
or scenario differs from its initial value (`FewMarks`): which field it is
makes no difference to the shape, and one is enough to see a write land in the
wrong place. Three arrays are an empty slice grown twice (capacities 1, 2, 4)
or a clone beside one that grew. `MCControlPlane` starts most runs with two
adapters already there, in the state `Init` leads to by those requests, so that
requests are spent on what a run is about. In `SftpFiles` two blocks are a gap and
a tail, two channels a reader or lister beside a writer; configurations change
only while no connection is open, because an open one never looks. In
`StubAdapter` three adapters in one array are what a deletion needs to hide one
from the lookup (the last one's stale copy is still seen); REST is left to
OData and EDIFACT to AS2, whose cases include theirs. The senders are one that
fetches its token where it calls, one that fetches it elsewhere and calls a
system that asks for none, and one whose target is no URL; requests share
nothing, so one at a time is enough. `NameClash` FALSE restricts users to
adapter names nothing else uses; see section 5 for what happens otherwise.
`OneUser` TRUE lets a request begin only when no other is in progress; a restart
may come at any step.

*Fairness.* In `StubAdapter`, `WF(Serve \/ Trigger)`: the handlers of a request
are goroutines that nobody blocks, the fetch of a configuration has a timeout of
five seconds and each of the sender's two exchanges one of thirty
(`adapters/sender/main.go:158`). The called systems owe nothing. In
`MCIdle`: a handler that can go on does
(`WF_vars(Continue(p))`: goroutines are scheduled and every cluster call
returns or times out); the idle goroutine keeps checking (`WF_vars(IdleStep)`:
a ticker, restarted by its own recover); time passes (`WF_vars(Wait)`). Nobody
is obliged to send a request or a report. No strong fairness is assumed.

Each property has a mutant of a mapped definition, written beside it in the
module and named as such (`ShiftDownNext`, `CreateDeploymentUnchecked`, ...),
under which its run finds a violation.

## 4. Proofs

Eight modules of theorems, for every number of scenarios, adapters, names,
requests, heap cells, files, messages, and so on. Each rests on an inductive
invariant that TLC checked first, on an instance of the component;
each step theorem goes action by action.

| Module | Theorems | State the property of section 3 |
|---|---|---|
| `MemoryStoreProofs` | `StoreInvariant`, `StoreTypeCorrect`, `SlicesKeepShape`, `ArraysAreNotShared`, `ScenariosAreIsolated` | `StoreTypeOK`, `SliceShape`, `NoAliasing`, `Isolation` |
| `ControlPlaneProofs` | `SystemInvariant`, `ControlPlaneTypeCorrect`, `HandlersKeepSliceShape`, `StoreUsedAsIntended`, `HandlersKeepIsolation`, `CapturedReadsAreHome`, `ScenariosKeepToTheirDeployments` | `TypeOK`, `SliceShape`, `NoAliasing`, `StoreSteps`, `Isolation`, `CapturedReadsStayHome`, `ClusterIsolation` |
| `SerialProofs` | `Serial`, `RunningAdaptersAreSeeded`, `HostKeysStay`, `RunningAdaptersAreVisible`, `StopsStopAll`, `LocalLaunchesLaunchAll`, `IdleCheckSparesUsed` | `RunningSeeded`, `HostKeyKept`, `RunningVisible`, `StopStopsAll`, `LaunchLaunchesAll`, `IdleSparesUsed` |
| `AgreementProofs` | `DeploymentsHaveOwners`, `NamesInvariant`, `RunningAdaptersAreBacked`, `LaunchesOmitNone` | `DeploymentsOwned`, `RunningBacked`, `LaunchOmitsNone` |
| `CatalogProofs` | `StoreImplementsCatalog`, `ControlPlaneImplementsCatalog` | `ImplementsCatalog` |
| `SystemLogProofs` | `LogTypeCorrect`, `LogKeepsTheNewest`, `PollingMissesNothing` | `LogTypeOK`, `LogIsNewest`, `PollMissesNothing` |
| `SftpProofs` | `SftpInvariant`, `SftpTypeCorrect`, `FilesAreFiledByName`, `DownloadsAreVersions`, `ListingsAreComplete`, `UploadsAreAssembled`, `StoresAreServed` | all of `SftpFiles` |
| `StubProofs` | `SenderInvariant`, `StubTypeCorrect`, `AnswersAreCurrent`, `UsesAreReported`, `ResultsAreTrue`, `CallsFollowOneConfiguration`, `SessionsAreUsed` | all of `StubAdapter` and `Sender` but `RequestsEnd` |

**The store.** `SliceShape` alone is not inductive: a write through one slice
could spoil another that shares its array, and a method reached through a
dangling id would write anywhere. So `StoreInv` is the types, valid pointers
(`CatalogValid`), `SliceShape` and `NoAliasing` together. Each method is either
a *rewrite* of array cells that keeps every length (lemma `RewriteInv`) or
changes one struct, whose array is its own or fresh (`OneStructInv`), or only
relabels a scenario (`RelabelInv`). `Isolation` follows: a write reaches one
array, and one struct looks at it.

**The contract.** `CatalogProofs` shows by step simulation that the heap
implements the map of plain values. What a method does to the slots of one
slice makes it an operation of `ScenarioCatalog` on that
scenario's value; `NoAliasing` is why no other scenario's value changes. A
method that finds nothing, and a write into an array that nobody looks at any
more, are stutters. The same is proved of the whole control plane: its steps
are, for the store, method calls, writes through pointers that are still good,
time, or a restart.

**The control plane.** What a handler reads next depends on pointers it took
several steps ago, so `SystemInv` says what each process may hold at each step
(`Sound`): at a step that calls the cluster a copy of an adapter of its own
scenario; in a loop a slice whose every slot is filled by an adapter of the
scenario; in the handlers of one adapter a pointer to such a slot. It is
inductive because of two facts of the heap. `Homes`: an array only ever holds
adapters of one scenario. `KeepsCells`: apart from a restart, no step empties a
slot, frees a struct, or puts an adapter of another scenario into a slot; the
deletion shifts inside the array and leaves its last slot as it is, `append`
and clone write where nothing was. A restart forgets every process together
with the heap. Interference between two handlers is then one lemma, that what
is `Sound` stays so under `KeepsCells`.

**Isolation in the cluster.** `ClusterIsolation` needs to know of every copy of
a name that may still lead to a deployment. `OneClaim` says that no name is
claimed for two scenarios, where a claim is made by a deployment, an adapter in
the store, an adapter a process can still see in memory or in a copy
(`Seen`), a rename on its way, or a file yet to be loaded. The theorem assumes
what the run `MCIsolation` assumes: names are chosen by users so that nothing
else uses them (`NameClash` FALSE), nothing is cloned, files have no name in
common, cleanup is not called, and the mode is not local. Without the first
three the property is false (`MCClone`, section 5), and cleanup is meant to
reach every scenario's deployments.

**One request at a time.** Nothing in the code keeps two requests apart, and
most of what makes store and cluster agree holds only if they come one after the
other; section 5 tells what overlapping ones do. `SerialProofs`, and
`AgreementProofs` for what concerns the cluster, prove it under `OneByOne`: each
user waits for the answer (`OneUser`), or there is one slot for requests and
none that are done in one step beside it; ids are not made twice in one second;
in local mode, where ids go by type, no adapters are added. (The rest of
`OneByOne` says that seconds are large numbers beside the sizes of scenarios, so
that an id made from a position is none made from a second.) Reports of
activity, the idle check, failing calls and restarts stay, unless a row says so.

The invariant under all of it is `SerialInv`: at most one request is in progress
(`Alone`), no id is used twice in a scenario and none is there that the clock is
yet to give out (`Apart`, `Numbered`), and what a handler captured is what the
store still holds (`InStep`): its slice is the scenario's slice and the adapter
it works on is the one at its index. That turns each write through a captured
pointer, and each lookup by id, into a write to the slot at the index. What a
step does to the slots of all scenarios is then one of a few things (one slot
written, one slot vacated, one appended, a scenario founded or dropped), and
each further invariant is followed through those:

| Theorem | Inductive invariant, beside `SerialInv` | Besides `OneByOne` it assumes |
|---|---|---|
| `RunningAdaptersAreSeeded` | `SeededInv`: also between the two writes of a launch | |
| `HostKeysStay` | `KeysInv`: the key an update is about to write is its adapter's own or was sent by the user | |
| `RunningAdaptersAreVisible` | `VisibleInv`: a running adapter's scenario is running or being launched; and `StoppedInv` | no idle check |
| `StopsStopAll` | `StoppedInv`: what a stop got past is stopped | |
| `LocalLaunchesLaunchAll` | `LaunchedInv`: what a launch got past is running | local mode, no idle check |
| `DeploymentsHaveOwners` | `OwnedInv`: each deployment has its adapter, and what a deletion got past has none | the cluster, no faults or restarts |
| `NamesInvariant` | `NamesInv`: no name twice in a scenario | unused names, no clones, files with distinct names |
| `RunningAdaptersAreBacked` | `BackedInv`: step by step, what the request at work has made, or still has to take away; `NamesInv`, `OneClaim` | the same; the cluster; files that share no names; no idle check, no cleanup |
| `LaunchesOmitNone` | `OrderInv`: what is stopped has nothing in the cluster, or a deployment of its own scaled to zero; what a launch skipped is of the second kind | the same; no faults or restarts |
| `IdleCheckSparesUsed` | `SpareInv`: what is `steady` can be seen in the part of the captured slices that the check has yet to examine, and is not in a scenario that it is stopping | the cluster |

Without its assumptions a property is false in the code; only that
`LaunchesOmitNone` leaves out the idle check is for the sake of the proof. The
idle check is a second actor, which stops adapters while they are launched and
scales a deployment before it says so; after a restart nobody owns the
deployments of the scenarios that were lost, and a refused deletion leaves one;
adapters with one name share their objects; the sweep of cleanup deletes what
running adapters have, and no handler is told. The instances of section 3 that
check these properties satisfy them.

**SFTP.** `SftpInv` relates each handle to the steps it has made. A writer's buffer
is what its writes so far assemble to, whatever their order (`Laid`, `Reaches`),
so that `Close` commits exactly that. A reader's data is one version of a file,
of which it has given out a prefix. A listing has, for each path nobody touched,
one entry at that path, and no other entry or name already shown says it:
without the second half an entry whose file is renamed would be a second one.
The configuration a connection goes by was served since it was accepted.

**HTTP adapters and sender.** The core of `SenderInv` is the lookup (`LookupSound`).
It has taken the lengths of all slices and goes through the arrays while they
change. As long as no deletion moved an adapter, whoever has the id is still
ahead of it, and in its second pass nobody has the id and whoever stands in is
ahead; so it finds nobody only if there is nobody. Once something moved, every
cell with the id, or with an adapter that stands in for it, holds a
configuration that was in force, also where the stale copy of a deleted adapter
is left. For a trigger (`PhaseSound`): before the call nothing called is under way or
handled; after it, it is either under way or handled, never both, never twice;
and all that was sent or handled conforms to the one configuration the request
holds (`ConformsAll`). `SessionSound`: while a session lives, the call on its way
carries its token and its cookie.

**Assumptions.** `ConstantsAssumption` and `NilAssumption` (`Adapters`),
`HeapAssumption` (`MemoryStore`), `FaultsAssumption` and `DeploymentAssumption`
(`Cluster`), `ControlPlaneAssumption`, `LogAssumption`, `SftpAssumption` and
`NilAssumption` (`SftpFiles`), `StubAssumption`, `SenderAssumption`. They say
what kind of thing each constant is, that nil is none of the values, that there
are finitely many paths and scenarios, that the log keeps at least one entry,
and that a URL that does not parse is no system. TLC evaluates each on the
instances. Further hypotheses are those of the table above, those of
`ScenariosKeepToTheirDeployments`, and `~LocalMode` of `CapturedReadsAreHome`
(ids do not name their scenario in local mode).

**What the proofs found out about the model.** The guard that keeps names apart
(`InUse`) overlooked the slots that a loop reads again after the adapter was
deleted from the store, so that it allowed a name to be given anew which the
loop could still use; `Seen` now counts them. A step that writes through a
captured pointer was classified too narrowly in `StoreSteps`. `AnswerIsCurrent`
is true only as it stands, with `overtaken`: in local mode a lookup that deletions
have overtaken may find the copy of a running stand-in behind the end of its
slice, after the adapter with the id was deleted too. On an instance this takes
three adapters of one scenario and two deletions during a lookup. An HTTP
status outside three digits aborts a reply also where it was configured
(`Sent`), not only where it is missing.

**Only model-checked.** Liveness (`AbandonedStopped`, `Answered`, `RequestsEnd`),
which is out of the prover's reach. Every invariant and every action property of
the runs that pass is proved. The three runs that find a violation show what
the assumptions above leave out.

## 5. Where the code and what is said of it part

Shown by runs:

* *Stopped adapters cannot be launched again* (`MCRelaunch`). Stop scales the
  deployment to zero (`k8s/client.go:295`); launch creates it
  (`api/handlers.go:495`), gets "already exists" and skips the adapter. The
  comment at `handlers.go:452` says all adapters are launched.
* *A launch may mark the wrong adapter* (`MCLaunchDelete`), by index into a
  slice that shrank (`handlers.go:530`).
* *Scenarios with the same adapter names are not apart* (`MCClone`). A clone
  keeps the names (`store/memory.go:356`), an import brings those of the file,
  and the cluster goes by names alone: deleting one scenario deletes the
  deployments of the other. `SCENARIO_SPEC.md:54` asks for names that are unique
  within the scenario, `:805` calls files "safely importable into any environment
  without conflict".

Known, and not a run of its own:

* A renamed adapter leaves its service behind: the update tears down only a
  running adapter (`handlers.go:390`), services are deleted by the current name
  (`client.go:319`), though `client.go:311` says that deployment and service of an
  adapter are deleted. Launch, stop, rename, delete shows it.
* GitHub scenarios are not read-only, as `memory.go:274` says they are:
  `updateAdapter` and `deleteAdapter` (`handlers.go:376`, `427`) lack the check.
* A lookup of a configuration can miss an adapter that is there all along, when
  an earlier one of its scenario is deleted at that moment (`handlers.go:693`):
  its client gets a 500. `AnswerIsCurrent` fails if `overtaken` does not allow it.
* In local mode two adapters of one type share an id, and so do two senders of
  different types (`handlers.go:51`); stop, which goes by id, leaves the second
  running. Hence one adapter per type, and no senders, in `MCLocalMode`.
* Host keys (`HostKeyKept`) are kept under one user at a time: a delete of an
  earlier adapter during an update makes `handlers.go:405` read the
  neighbour's key.
* An abandoned scenario may run for ever: a launch that overlaps a deletion marks
  an adapter by index, without a `LastActivity`, and passes over it in the shifted
  slice. It gets no pod that could report, and the idle check counts it as active
  (`main.go:140`), so the others run on as well; the comment at `main.go:86` says
  that scenarios whose adapters have all been idle are stopped. It takes three
  adapters, and two request slots: `AbandonedStopped` fails from `Trio` then.
* A launch that overlaps a stop, or the idle check, may leave running adapters
  in a stopped scenario: `RunningVisible` is for one user at a time.
* When the service cannot be created after the deployment was, the pod runs
  and the adapter is stopped, and stays so (as for a second launch).
* A path renamed to itself is lost (`adapters/sftp/main.go:111`). A listing that
  was opened before a file is renamed over another shows the new name twice, for
  names are read without the mutex, though `main.go:53` calls the store
  thread-safe. An upload whose connection breaks replaces the file as far as it got.
* Uploads are forgotten with the connection; `SCENARIO_SPEC.md:422` says "not
  persisted across restarts". The host key is read at start only.
* REST and OData ignore `response_delay_ms` (`SCENARIO_SPEC.md:155`, `206`), and
  without a status code they pass 0 to `WriteHeader`, which panics: the
  connection is dropped (`StubTypeOK` admits 0 for them alone). OData answers
  every method alike, where `SCENARIO_SPEC.md:347` says that writes get a 405.
  AS2 has no `mdn_disposition` (`SCENARIO_SPEC.md:490`), and of AS2-To it asks only
  that it is there (`adapters/as2/main.go:157`), not that it is the adapter's id
  (`SCENARIO_SPEC.md:487`). SOAP has no `fault_on_missing_action` and XI no
  `validate_xi_headers` (`SCENARIO_SPEC.md:205`, `258`).
* `handlers.go:890` says activity is reported "on each incoming request": OData
  does not report `$metadata`. In local mode a report may carry a fixed id that
  no adapter has, so a scenario that is used from the manifest counts as idle.
* The idle check can stop an adapter that is in use: when an earlier adapter of
  the scenario is deleted while the check goes through its slice
  (`main.go:135`), the next one slips past unread, and if the others are idle,
  the loop that stops (`main.go:164`) finds it. The comment at `main.go:86` says
  that only scenarios whose adapters are all idle are stopped. With three
  adapters `IdleSparesUsed` fails unless a deletion at that moment empties `steady`.
* `triggerAdapter` dials port 8080 of a service that listens on 80
  (`handlers.go:659`, `k8s/client.go:190`), and in local mode a cluster name:
  every trigger through the control plane that gets so far ends in a 502. Were it
  to connect, its 35 seconds are less than what a sender may take (5 + 30 + 30).
* A sender goes on when its client has left, and calls the target. It ignores
  the status of the token fetch, leaves the fetch out when its URL does not parse
  (`adapters/sender/main.go:174`), and takes a body that was cut off for the whole
  one (`main.go:247`).
* In the dashboard, which is not modelled: after a deletion that failed the
  scenario page no longer polls (`ui/js/scenario.js:754`); the answer to a request
  for pod logs, or to a trigger, is shown without a look at which adapter the
  dialog is for by then (`scenario.js:870`, `:942`); an import adds the adapters one
  by one (`dashboard.js:340`), so that two of one type in one second get one id
  (`handlers.go:316`) and a failure leaves a part of the scenario.

## 6. Not modelled

Handlers that only read; RSA, PEM and the fingerprint; torn
reads of strings that are written without the mutex (single writes interleave,
but each is whole, and an edit of a configuration that is being read is whole
too); pods, images, probes and limits; CORS and logging; the dashboard; of the
adapters, headers, wording and the contents of acknowledgements. Of the sender,
protocol and custom headers, bodies, and what `net/http` does on its own:
redirects, and the repetition of an idempotent request on a connection that the
other side had closed.

## 7. Plan

Done: all modules of section 2 and the proofs of section 4. What could follow:

1. `IdleSparesUsed` for requests that overlap. `Alone` and `InStep` fail then; `Apart`
   and `Numbered` do not, and may be enough: a lookup by id finds one slot however
   it is reached, and a write to a slot that is no longer in the store disturbs nobody.
2. `RunningSeeded` for requests that overlap but never a launch and a deletion in one
   scenario, which is what breaks it.
3. `ClusterIsolation` with clones that are renamed before they are launched.
4. The dashboard, if its races (end of section 5) are to be more than noted.
