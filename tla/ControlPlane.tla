---------------------------- MODULE ControlPlane ----------------------------
(***************************************************************************)
(* The control plane process: the HTTP handlers of control-plane/api, each *)
(* request in a goroutine of its own, and the idle-shutdown goroutine of   *)
(* control-plane/main.go, all working on the MemoryStore and the Cluster.  *)
(*                                                                         *)
(* A handler is cut into steps at every call it makes and at every access  *)
(* to memory it shares with others: the store's methods are atomic, the    *)
(* handler between them is not.  What it holds on to in the meantime -- a  *)
(* pointer from GetScenario or GetAdapter, the header of the slice its     *)
(* "range" captured, the copy of the adapter it is working on -- is in     *)
(* local[p].  Requests that make one call to the store are one step.       *)
(* Requests that only read, or are refused for their form, are left out.   *)
(***************************************************************************)
EXTENDS MemoryStore, Cluster

CONSTANTS
    Reqs,           \* slots for requests in progress at the same time
    Idle,           \* the idle-shutdown goroutine
    Ops,            \* what happens in this instance
    MaxRequests,    \* bound on requests and restarts
    OneUser,        \* does one user wait for each answer, or are there more?
    SameSecond,     \* may two things be created within one second?
    NameClash       \* may two adapters of the namespace have one name?

AllOps == { "createScenario", "updateScenario", "deleteScenario", "clone",
            "addAdapter", "updateAdapter", "deleteAdapter", "stopAdapter",
            "launch", "stop", "cleanup", "activity", "idle", "time", "restart" }

ASSUME ControlPlaneAssumption ==
    /\ Idle \notin Reqs
    /\ Nil \notin AllOps
    /\ Ops \subseteq AllOps
    /\ MaxRequests \in Nat
    /\ OneUser \in BOOLEAN /\ SameSecond \in BOOLEAN /\ NameClash \in BOOLEAN

VARIABLES
    local,      \* process -> where it is and what it holds
    snapshot,   \* what the idle check has yet to look at
    unloaded,   \* manifest entries main has not got to yet
    clock,      \* the current second, advanced by what is named after it
    issued,     \* requests so far
    steady      \* history: adapters in use ever since the idle check began

controlVars == <<local, snapshot, unloaded, clock, issued, steady>>
vars == <<storeVars, clusterVars, controlVars>>

Processes == Reqs \cup {Idle}

Ready ==
    [ op |-> Nil, pc |-> "ready", sid |-> Nil, aid |-> Nil, obj |-> Nil,
      arr |-> NoArray, len |-> 0, idx |-> 0, cur |-> Nil, url |-> "none",
      name |-> Nil, key |-> Nil, idle |-> FALSE ]

Steps == { "ready", "pick", "createDeployment", "createService", "expose",
           "markRunning", "setUrl", "pokeStatus", "pokeUrl", "scale",
           "markStopped", "finish", "check", "deleteDeployment",
           "deleteService", "reread", "deleteRule", "remove", "readKey",
           "write", "sweepServices", "sweepRules", "choose", "examine" }

Local ==
    [ op : AllOps \cup {Nil}, pc : Steps,
      sid : ScenarioIds \cup {Nil}, aid : AdapterIds \cup {Nil},
      obj : Objects \cup {Nil}, arr : Arrays \cup {NoArray},
      len : Nat, idx : Nat, cur : AdapterRecord \cup {Nil}, url : Urls,
      name : Names \cup {Nil}, key : Keys, idle : BOOLEAN ]

Snapshot == [sid : ScenarioIds, arr : Arrays \cup {NoArray}, len : Nat]

TypeOK ==
    /\ StoreTypeOK
    /\ ClusterTypeOK
    /\ local \in [Processes -> Local]
    /\ snapshot \subseteq Snapshot
    /\ unloaded \subseteq GithubIds
    /\ clock \in Seconds
    /\ issued \in 0 .. MaxRequests
    /\ steady \subseteq AdapterIds

-----------------------------------------------------------------------------

Set(p, l) == local' = [local EXCEPT ![p] = l]

Goto(p, pc) == Set(p, [local[p] EXCEPT !.pc = pc])

Respond(p) == Set(p, Ready)

At(p, pc) == local[p].pc = pc

(* No request is being handled.                                            *)
Quiet == \A p \in Reqs : At(p, "ready")

Spend(op) == op \in Ops /\ issued < MaxRequests /\ issued' = issued + 1

(* main serves requests once it is through with the manifest.              *)
Issue(op) ==
    /\ unloaded = {}
    /\ OneUser => Quiet
    /\ Spend(op)

Accept(p, op) == p \in Reqs /\ At(p, "ready") /\ Issue(op)

(* The scenarios and adapters there are; requests about others get 404.    *)
Scenarios == {sid \in ScenarioIds : Holds(sid)}

(* The adapters that run and were used within idleShutdownAfter.           *)
InUseNow ==
    { x.id : x \in { x \in UNION { {AdapterAt(sid, i) : i \in Positions(sid)} :
                                   sid \in Scenarios } :
                    x.status = "running" /\ x.last = "recent" } }

Remember == steady' = {id \in steady : id \in InUseNow'}

StoreOnly == UNCHANGED <<clusterVars, snapshot, unloaded, clock, issued>> /\ Remember

ClusterOnly == UNCHANGED <<storeVars, snapshot, unloaded, clock, issued, steady>>

LocalOnly ==
    UNCHANGED <<storeVars, clusterVars, snapshot, unloaded, clock, issued, steady>>

(* The second goes by before the next creation, unless SameSecond.         *)
UseSecond ==
    /\ clock < Horizon
    /\ clock' \in IF SameSecond THEN {clock, clock + 1} ELSE {clock + 1}

(* "range scenario.Adapters" evaluates the slice once: its pointer and its *)
(* length are captured, its elements are read as the loop gets to them.    *)
Ranging(l) == l.arr # NoArray /\ l.idx <= l.len

Current(p) == array[local[p].arr][local[p].idx]

(* Mutants: the loop does not advance, or skips an adapter.                *)
NextAdapterStuck(p) == Set(p, [local[p] EXCEPT !.pc = "pick"])

NextAdapterSkipping(p) ==
    Set(p, [local[p] EXCEPT !.pc = "pick", !.idx = @ + 2,
                            !.aid = Nil, !.cur = Nil, !.url = "none"])

NextAdapter(p) ==
    Set(p, [local[p] EXCEPT !.pc = "pick", !.idx = @ + 1,
                            !.aid = Nil, !.cur = Nil, !.url = "none"])

-----------------------------------------------------------------------------
(* Startup and requests of one step.                                       *)

(* loadScenariosFromGitHub: a file that cannot be fetched is skipped.      *)
LoadOrSkip(g) ==
    /\ g \in unloaded
    /\ unloaded' = unloaded \ {g}
    /\ LoadGitHubScenario(g) \/ UNCHANGED storeVars
    /\ UNCHANGED <<clusterVars, local, snapshot, clock, issued, steady>>

HandleCreateScenario ==
    /\ Issue("createScenario")
    /\ UseSecond
    /\ CreateScenario(clock)
    /\ Remember
    /\ UNCHANGED <<clusterVars, local, snapshot, unloaded>>

HandleUpdateScenario(sid) ==
    /\ Issue("updateScenario")
    /\ Holds(sid)
    /\ UpdateScenario(sid)
    /\ Remember
    /\ UNCHANGED <<clusterVars, local, snapshot, unloaded, clock>>

HandleClone(src) ==
    /\ Issue("clone")
    /\ Holds(src)
    /\ UseSecond
    /\ CloneScenario(src, clock)
    /\ Remember
    /\ UNCHANGED <<clusterVars, local, snapshot, unloaded>>

(* What a process may still read through memory it captured: the slot its  *)
(* pointer leads to, or the rest of the slice it ranges over.  The idle    *)
(* check goes through a slice twice.                                       *)
Captured(p) ==
    LET l == local[p]
    IN  IF l.arr = NoArray THEN {}
        ELSE IF l.op \in {"updateAdapter", "deleteAdapter", "stopAdapter"}
        THEN {array[l.arr][l.idx]}
        ELSE {array[l.arr][i] : i \in (IF l.pc = "examine" THEN 1 ELSE l.idx) .. l.len}

(* The adapters that anyone can still see: those of the store, and those   *)
(* that a process holds a copy of or may still read.                       *)
Seen ==
    (UNION { {AdapterAt(sid, i) : i \in Positions(sid)} : sid \in ScenarioIds })
    \cup (UNION { Captured(p) \cup ({local[p].cur} \ {Nil}) : p \in Processes })
    \cup (UNION { {array[s.arr][i] : i \in 1 .. s.len} : s \in snapshot })

(* A name is in use if such an adapter or the manifest has it, if an       *)
(* adapter is being given it, or if something in the cluster still has it. *)
InUse(name) ==
    \/ deployments[name] # Nil \/ services[name] # Nil \/ apiRules[name] # Nil
    \/ \E g \in GithubIds : \E i \in 1 .. Len(Manifest[g]) :
          Manifest[g][i].name = name
    \/ \E x \in Seen : name = x.name \/ name = x.dep
    \/ \E p \in Reqs : local[p].name = name

Usable(name) == NameClash \/ ~InUse(name)

(* The source of a scenario never changes, so the check that it is not     *)
(* github's and the call of AddAdapter are one step.                       *)
HandleAddAdapter(sid, name, type, key) ==
    /\ Issue("addAdapter")
    /\ Holds(sid)
    /\ object[catalog[sid]].source # "github"
    /\ Usable(name)
    /\ UseSecond
    /\ LET id == NewAdapterId(sid, type, clock)
       IN  AddAdapter(sid, NewAdapter(id, name, type,
               IF type = Sftp /\ key = Nil THEN id ELSE key))
    /\ Remember
    /\ UNCHANGED <<clusterVars, local, snapshot, unloaded>>

(* A pod reports under the id it was deployed with; its report may arrive  *)
(* after it was scaled down.  Local containers take any adapter's path.    *)
Reporting(id) ==
    IF LocalMode THEN TRUE
    ELSE \E n \in Names : deployments[n] # Nil /\ deployments[n].owner = id

HandleAdapterActivity(id) ==
    /\ "activity" \in Ops
    /\ Reporting(id)
    /\ RecordAdapterActivity(id)
    /\ Remember
    /\ UNCHANGED <<clusterVars, local, snapshot, unloaded, clock, issued>>

-----------------------------------------------------------------------------
(* The first step of a request of several steps.                           *)

(* GetScenario, then range over its adapters.                              *)
BeginLoop(p, op, sid) ==
    /\ Accept(p, op)
    /\ Holds(sid)
    /\ op = "deleteScenario" => object[catalog[sid]].source # "github"
    /\ Set(p, [Ready EXCEPT !.op = op, !.pc = "pick", !.sid = sid,
                 !.obj = catalog[sid], !.arr = object[catalog[sid]].arr,
                 !.len = object[catalog[sid]].len, !.idx = 1])
    /\ UNCHANGED <<storeVars, clusterVars, snapshot, unloaded, clock, steady>>

(* GetAdapter: a pointer into the backing array.                           *)
BeginAdapter(p, op, sid, id, name, key) ==
    /\ Accept(p, op)
    /\ \E i \in Positions(sid) :
          /\ Lookup(sid, id, i)
          /\ Set(p, [Ready EXCEPT !.op = op, !.pc = "check", !.sid = sid,
                       !.aid = id, !.arr = object[catalog[sid]].arr,
                       !.idx = i, !.name = name, !.key = key])
    /\ UNCHANGED <<storeVars, clusterVars, snapshot, unloaded, clock, steady>>

BeginCleanup(p) ==
    /\ Accept(p, "cleanup")
    /\ SweepDeployments
    /\ Set(p, [Ready EXCEPT !.op = "cleanup", !.pc = "sweepServices"])
    /\ UNCHANGED <<storeVars, snapshot, unloaded, clock, steady>>

-----------------------------------------------------------------------------
(* The loops of launch, stop, deleteScenario and the idle check.           *)

(* Mutant: the stop loops keep the guard of the launch loop.               *)
WantedCopied(op, x) ==
    CASE op \in {"launch", "stop", "idle"} -> x.status = "stopped"
      [] op = "deleteScenario" -> ~LocalMode

Wanted(op, x) ==
    CASE op = "launch" -> x.status = "stopped"
      [] op \in {"stop", "idle"} -> x.status = "running"
      [] op = "deleteScenario" -> ~LocalMode

FirstStep(op) ==
    CASE op = "launch" -> IF LocalMode THEN "markRunning" ELSE "createDeployment"
      [] op \in {"stop", "idle"} -> IF LocalMode THEN "markStopped" ELSE "scale"
      [] op = "deleteScenario" -> "deleteDeployment"

Pick(p) ==
    /\ At(p, "pick")
    /\ LET l == local[p]
       IN  IF ~Ranging(l) THEN Goto(p, "finish")
           ELSE IF Wanted(l.op, Current(p))
           THEN Set(p, [l EXCEPT !.pc = FirstStep(l.op), !.cur = Current(p),
                          !.aid = Current(p).id,
                          !.url = IF LocalMode THEN "local" ELSE "none"])
           ELSE NextAdapter(p)
    /\ LocalOnly

(* Mutant: the error is not looked at.                                     *)
CreateDeploymentUnchecked(p) ==
    /\ At(p, "createDeployment")
    /\ \E ok \in BOOLEAN : CreateAdapterDeployment(local[p].cur, ok)
    /\ Goto(p, "createService")
    /\ ClusterOnly

CreateDeployment(p) ==
    /\ At(p, "createDeployment")
    /\ \E ok \in BOOLEAN :
          /\ CreateAdapterDeployment(local[p].cur, ok)
          /\ IF ok THEN Goto(p, "createService") ELSE NextAdapter(p)
    /\ ClusterOnly

CreateService(p) ==
    /\ At(p, "createService")
    /\ \E ok \in BOOLEAN :
          /\ CreateAdapterService(local[p].cur, ok)
          /\ IF ok THEN Goto(p, "expose") ELSE NextAdapter(p)
    /\ ClusterOnly

(* The address to show; without one, the name inside the cluster.          *)
Expose(p) ==
    /\ At(p, "expose")
    /\ \E ok \in BOOLEAN :
          /\ IF local[p].cur.type = Sftp
             THEN GetLoadBalancerHostname(local[p].cur, ok)
             ELSE CreateAdapterAPIRule(local[p].cur, ok)
          /\ Set(p, [local[p] EXCEPT !.pc = "markRunning",
                        !.url = IF ok THEN "public" ELSE "internal"])
    /\ ClusterOnly

MarkRunning(p) ==
    /\ At(p, "markRunning")
    /\ UpdateAdapterStatus(local[p].sid, local[p].aid, "running")
    /\ Goto(p, "setUrl")
    /\ StoreOnly

SetUrl(p) ==
    /\ At(p, "setUrl")
    /\ UpdateAdapterIngressURL(local[p].sid, local[p].aid, local[p].url)
    /\ Goto(p, "pokeStatus")
    /\ StoreOnly

(* scenario.Adapters[i] goes through the pointer to the slice as it is     *)
(* now; past its end the handler panics and net/http drops the request.    *)
InRange(p) == local[p].idx <= object[local[p].obj].len

(* Mutant: the write goes through the slice the loop captured.             *)
WriteStatusCaptured(p) ==
    /\ At(p, "pokeStatus")
    /\ array' = [array EXCEPT ![local[p].arr][local[p].idx].status = "running"]
    /\ Goto(p, "pokeUrl")
    /\ UNCHANGED <<catalog, object>>
    /\ StoreOnly

WriteStatus(p) ==
    /\ At(p, "pokeStatus")
    /\ IF InRange(p)
       THEN PokeStatus(local[p].obj, local[p].idx) /\ Goto(p, "pokeUrl")
       ELSE Respond(p) /\ UNCHANGED storeVars
    /\ StoreOnly

WriteUrl(p) ==
    /\ At(p, "pokeUrl")
    /\ IF InRange(p)
       THEN PokeUrl(local[p].obj, local[p].idx, local[p].url) /\ NextAdapter(p)
       ELSE Respond(p) /\ UNCHANGED storeVars
    /\ StoreOnly

(* Mutant: launch leaves the status of the scenario alone.                 *)
FinishUnmarked(p) ==
    /\ At(p, "finish")
    /\ LET l == local[p]
       IN  /\ CASE l.op = "launch" -> UNCHANGED storeVars
                [] l.op \in {"stop", "idle"} -> UpdateScenarioStatus(l.sid, "stopped")
                [] l.op = "deleteScenario" -> DeleteScenario(l.sid)
           /\ IF p = Idle THEN Set(p, [Ready EXCEPT !.op = "idle", !.pc = "choose"])
              ELSE Respond(p)
    /\ StoreOnly

Finish(p) ==
    /\ At(p, "finish")
    /\ LET l == local[p]
       IN  /\ CASE l.op = "launch" -> UpdateScenarioStatus(l.sid, "running")
                [] l.op \in {"stop", "idle"} -> UpdateScenarioStatus(l.sid, "stopped")
                [] l.op = "deleteScenario" -> DeleteScenario(l.sid)
           /\ IF p = Idle THEN Set(p, [Ready EXCEPT !.op = "idle", !.pc = "choose"])
              ELSE Respond(p)
    /\ StoreOnly

-----------------------------------------------------------------------------
(* Steps on one adapter, in a loop or in a request about that adapter.     *)

(* Mutant: an update leaves a running adapter's deployment alone.          *)
CheckNoTeardown(p) ==
    /\ At(p, "check")
    /\ local[p].op = "updateAdapter"
    /\ Goto(p, "readKey")
    /\ LocalOnly

(* The pointer from GetAdapter is dereferenced.                            *)
Check(p) ==
    /\ At(p, "check")
    /\ LET l == local[p]
           x == Current(p)
           held == [l EXCEPT !.cur = x]
       IN  \/ /\ l.op = "deleteAdapter"
              /\ IF LocalMode THEN Goto(p, "remove")
                 ELSE Set(p, [held EXCEPT !.pc = "deleteDeployment"])
           \/ /\ l.op = "updateAdapter"
              /\ IF ~LocalMode /\ x.status = "running"
                 THEN Set(p, [held EXCEPT !.pc = "deleteDeployment"])
                 ELSE Goto(p, "readKey")
           \/ /\ l.op = "stopAdapter"
              /\ IF ~LocalMode /\ x.status = "running"
                 THEN Set(p, [held EXCEPT !.pc = "scale"])
                 ELSE Goto(p, "markStopped")
    /\ LocalOnly

Scale(p) ==
    /\ At(p, "scale")
    /\ StopAdapterDeployment(local[p].cur)
    /\ Goto(p, "markStopped")
    /\ ClusterOnly

MarkStopped(p) ==
    /\ At(p, "markStopped")
    /\ UpdateAdapterStatus(local[p].sid, local[p].aid, "stopped")
    /\ CASE local[p].op \in {"stop", "idle"} -> NextAdapter(p)
         [] local[p].op = "stopAdapter" -> Respond(p)
         [] local[p].op = "updateAdapter" -> Goto(p, "readKey")
    /\ StoreOnly

RemoveDeployment(p) ==
    /\ At(p, "deleteDeployment")
    /\ DeleteDeployment(local[p].cur)
    /\ Goto(p, "deleteService")
    /\ ClusterOnly

RemoveService(p) ==
    /\ At(p, "deleteService")
    /\ DeleteService(local[p].cur)
    /\ Goto(p, CASE local[p].op = "updateAdapter" -> "markStopped"
                 [] local[p].op = "deleteAdapter" -> "reread"
                 [] local[p].op = "deleteScenario" -> "deleteRule")
    /\ ClusterOnly

(* deleteAdapter dereferences its pointer a second time.                   *)
Reread(p) ==
    /\ At(p, "reread")
    /\ Set(p, [local[p] EXCEPT !.pc = "deleteRule", !.cur = Current(p)])
    /\ LocalOnly

RemoveRule(p) ==
    /\ At(p, "deleteRule")
    /\ DeleteAdapterAPIRule(local[p].cur)
    /\ IF local[p].op = "deleteScenario" THEN NextAdapter(p) ELSE Goto(p, "remove")
    /\ ClusterOnly

RemoveAdapter(p) ==
    /\ At(p, "remove")
    /\ DeleteAdapter(local[p].sid, local[p].aid)
    /\ Respond(p)
    /\ UNCHANGED <<clusterVars, snapshot, unloaded, clock, issued>>
    /\ IF At(Idle, "examine") THEN steady' = {} ELSE Remember

(* Mutant: what the request does not bring is cleared.                     *)
ReadKeyDropping(p) ==
    /\ At(p, "readKey")
    /\ Set(p, [local[p] EXCEPT !.pc = "write", !.cur = Nil])
    /\ LocalOnly

(* updateAdapter keeps the host key of an SFTP adapter, as its pointer     *)
(* shows it now, if the request brings none.                               *)
ReadKey(p) ==
    /\ At(p, "readKey")
    /\ LET l == local[p]
       IN  Set(p, [l EXCEPT !.pc = "write", !.cur = Nil,
                      !.key = IF Current(p).type = Sftp /\ l.key = Nil
                              THEN Current(p).key ELSE l.key])
    /\ LocalOnly

Write(p) ==
    /\ At(p, "write")
    /\ UpdateAdapter(local[p].sid, local[p].aid, local[p].name, local[p].key)
    /\ Respond(p)
    /\ StoreOnly

SweepTheRest(p) ==
    \/ At(p, "sweepServices") /\ SweepServices /\ Goto(p, "sweepRules") /\ ClusterOnly
    \/ At(p, "sweepRules") /\ SweepAPIRules /\ Respond(p) /\ ClusterOnly

-----------------------------------------------------------------------------
(* The idle check.                                                         *)

(* ListScenarios copies the structs: status and slice header as they are   *)
(* now.  Scenarios that are not running are passed over.                   *)
ListScenarios ==
    /\ "idle" \in Ops
    /\ At(Idle, "ready")
    /\ LET running == {sid \in ScenarioIds :
                         Holds(sid) /\ object[catalog[sid]].status = "running"}
       IN  /\ running # {}
           /\ snapshot' = { [sid |-> sid, arr |-> object[catalog[sid]].arr,
                             len |-> object[catalog[sid]].len] : sid \in running }
    /\ Set(Idle, [Ready EXCEPT !.op = "idle", !.pc = "choose"])
    /\ steady' = InUseNow
    /\ UNCHANGED <<storeVars, clusterVars, unloaded, clock, issued>>

ChooseScenario ==
    /\ At(Idle, "choose")
    /\ \/ /\ snapshot = {}
          /\ Respond(Idle)
          /\ steady' = {}
          /\ UNCHANGED snapshot
       \/ \E s \in snapshot :
             /\ snapshot' = snapshot \ {s}
             /\ Set(Idle, [Ready EXCEPT !.op = "idle", !.pc = "examine",
                             !.sid = s.sid, !.arr = s.arr, !.len = s.len, !.idx = 1])
             /\ UNCHANGED steady
    /\ UNCHANGED <<storeVars, clusterVars, unloaded, clock, issued>>

(* Mutant: a stopped adapter counts as active.                             *)
ExamineAllIdle ==
    /\ At(Idle, "examine")
    /\ LET l == local[Idle]
           pass == Set(Idle, [Ready EXCEPT !.op = "idle", !.pc = "choose"])
       IN  IF ~Ranging(l)
           THEN IF l.idle THEN Set(Idle, [l EXCEPT !.pc = "pick", !.idx = 1])
                ELSE pass
           ELSE IF Current(Idle).status = "running" /\ Current(Idle).last = "old"
                THEN Set(Idle, [l EXCEPT !.idx = @ + 1, !.idle = TRUE])
                ELSE pass
    /\ LocalOnly

(* Mutant: one idle adapter is enough.                                     *)
ExamineAnyIdle ==
    /\ At(Idle, "examine")
    /\ LET l == local[Idle]
           pass == Set(Idle, [Ready EXCEPT !.op = "idle", !.pc = "choose"])
       IN  IF ~Ranging(l)
           THEN IF l.idle THEN Set(Idle, [l EXCEPT !.pc = "pick", !.idx = 1])
                ELSE pass
           ELSE Set(Idle, [l EXCEPT !.idx = @ + 1,
                   !.idle = @ \/ (Current(Idle).status = "running"
                                    /\ Current(Idle).last = "old")])
    /\ LocalOnly

(* All running adapters, and at least one, must have been idle for long;   *)
(* an adapter without recorded activity counts as active.                  *)
Examine ==
    /\ At(Idle, "examine")
    /\ LET l == local[Idle]
           pass == Set(Idle, [Ready EXCEPT !.op = "idle", !.pc = "choose"])
       IN  IF ~Ranging(l)
           THEN IF l.idle THEN Set(Idle, [l EXCEPT !.pc = "pick", !.idx = 1])
                ELSE pass
           ELSE CASE Current(Idle).status # "running" ->
                        Set(Idle, [l EXCEPT !.idx = @ + 1])
                  [] Current(Idle).status = "running" /\ Current(Idle).last = "old" ->
                        Set(Idle, [l EXCEPT !.idx = @ + 1, !.idle = TRUE])
                  [] OTHER -> pass
    /\ LocalOnly

-----------------------------------------------------------------------------
(* The world.                                                              *)

Wait ==
    /\ "time" \in Ops
    /\ TimePasses
    /\ Remember
    /\ UNCHANGED <<clusterVars, local, snapshot, unloaded, clock, issued>>

(* The process dies and comes back; only the cluster remembers.            *)
Restart ==
    /\ Spend("restart")
    /\ NewMemoryStore
    /\ local' = [p \in Processes |-> Ready]
    /\ snapshot' = {}
    /\ unloaded' = GithubIds
    /\ steady' = {}
    /\ UNCHANGED <<clusterVars, clock>>

-----------------------------------------------------------------------------

Init ==
    /\ StoreInit
    /\ ClusterInit
    /\ local = [p \in Processes |-> Ready]
    /\ snapshot = {}
    /\ unloaded = GithubIds
    /\ clock = Epoch
    /\ issued = 0
    /\ steady = {}

OneStep ==
    \/ \E g \in GithubIds : LoadOrSkip(g)
    \/ HandleCreateScenario
    \/ \E sid \in Scenarios :
          \/ HandleUpdateScenario(sid)
          \/ HandleClone(sid)
          \/ \E name \in Names, type \in Types :
                \E key \in RequestKeys(type, Nil) :
                   HandleAddAdapter(sid, name, type, key)
    \/ \E sid \in Scenarios : \E i \in Positions(sid) :
          HandleAdapterActivity(AdapterAt(sid, i).id)

Begin(p) ==
    \/ \E sid \in Scenarios, op \in {"launch", "stop", "deleteScenario"} :
          BeginLoop(p, op, sid)
    \/ \E sid \in Scenarios : \E i \in Positions(sid) :
          LET x == AdapterAt(sid, i)
          IN  \/ \E op \in {"deleteAdapter", "stopAdapter"} :
                    BeginAdapter(p, op, sid, x.id, Nil, Nil)
              \/ \E name \in Names \cup {Nil}, key \in RequestKeys(x.type, Nil) :
                    /\ name # Nil => Usable(name)
                    /\ BeginAdapter(p, "updateAdapter", sid, x.id, name, key)
    \/ BeginCleanup(p)

Continue(p) ==
    \/ Pick(p) \/ CreateDeployment(p) \/ CreateService(p) \/ Expose(p)
    \/ MarkRunning(p) \/ SetUrl(p) \/ WriteStatus(p) \/ WriteUrl(p)
    \/ Check(p) \/ Scale(p) \/ MarkStopped(p)
    \/ RemoveDeployment(p) \/ RemoveService(p) \/ Reread(p) \/ RemoveRule(p)
    \/ RemoveAdapter(p) \/ ReadKey(p) \/ Write(p)
    \/ SweepTheRest(p) \/ Finish(p)

IdleStep == ListScenarios \/ ChooseScenario \/ Examine \/ Continue(Idle)

Next ==
    \/ OneStep
    \/ \E p \in Reqs : Begin(p) \/ Continue(p)
    \/ IdleStep
    \/ Wait
    \/ Restart

Spec == Init /\ [][Next]_vars

(* Goroutines that can go on do, the idle ticker keeps ticking and time    *)
(* goes by.  Nobody is obliged to send a request or an activity report.    *)
Fairness ==
    /\ \A p \in Reqs : WF_vars(Continue(p))
    /\ WF_vars(IdleStep)
    /\ WF_vars(Wait)

-----------------------------------------------------------------------------
(* Properties.                                                             *)

(* P of every adapter in the store.                                        *)
EveryAdapter(P(_, _)) ==
    \A sid \in Scenarios : \A i \in Positions(sid) : P(sid, AdapterAt(sid, i))

(* Once the handlers are done, an adapter shown as running has a pod that  *)
(* was deployed for it, a service that leads to that pod and, behind a     *)
(* public URL, the APIRule that makes it work.                             *)
Backed(sid, x) ==
    x.status = "running" =>
        /\ deployments[x.dep] = [owner |-> x.id, replicas |-> 1]
        /\ services[x.name] = x.id
        /\ x.url = "public" /\ x.type # Sftp => apiRules[x.name] = x.id

RunningBacked == Quiet => EveryAdapter(Backed)

(* An adapter that runs is in a scenario that is shown as running, or the  *)
(* Stop button, the idle check and the dashboard would all pass it over.   *)
Visible(sid, x) == x.status = "running" => object[catalog[sid]].status = "running"

RunningVisible == Quiet => EveryAdapter(Visible)

(* Every deployment belongs to an adapter of the store that would still    *)
(* find it, so deleting that adapter gets rid of it.                       *)
DeploymentsOwned ==
    Quiet => \A n \in Names : deployments[n] # Nil =>
        \E sid \in Scenarios : \E i \in Positions(sid) :
            /\ AdapterAt(sid, i).id = deployments[n].owner
            /\ AdapterAt(sid, i).dep = n

(* A running adapter has a start of its idle clock, or the idle check      *)
(* would count it as active for ever.                                      *)
Seeded(sid, x) == x.status = "running" => x.last # "never"

RunningSeeded == EveryAdapter(Seeded)

(* An SFTP adapter keeps its host key: an update changes it only to a key  *)
(* that the request brought.                                               *)
HostKeyKept ==
    [][ \A sid \in Scenarios : Holds(sid)' =>
          \A i \in Positions(sid), j \in Positions(sid)' :
             /\ AdapterAt(sid, i).id = AdapterAt(sid, j)'.id
             /\ AdapterAt(sid, i).key # AdapterAt(sid, j)'.key
             => AdapterAt(sid, j)'.key = UserKey ]_vars

(* A request for op on sid completes, and what it leaves behind.           *)
Completes(p, op, sid) ==
    local[p].op = op /\ local[p].sid = sid /\ At(p, "finish") /\ At(p, "ready")'

StatusesOf(sid) == {AdapterAt(sid, i).status : i \in Positions(sid)}

(* For one user and a cluster that answers, a launch leaves an adapter     *)
(* stopped only where a deployment that a stop scaled to zero stood in the *)
(* way: it omits none, and none for what became of another.                *)
LaunchOmitsNone ==
    [][ \A p \in Reqs, sid \in Scenarios :
          Completes(p, "launch", sid) =>
            \A i \in Positions(sid) :
               LET x == AdapterAt(sid, i)
               IN  \/ x.status = "running"
                   \/ deployments[x.dep] = [owner |-> x.id, replicas |-> 0] ]_vars

(* The control plane uses the store only through its methods and through   *)
(* the pointers it hands out, with what the store once showed it: so what  *)
(* holds of the store under any caller holds of it here.  (The key that an *)
(* update brings along may be gone from the store by the time it writes.   *)
(* UNCHANGED spares TLC a search of StoreNext in most steps.)              *)
StoreSteps ==
    [][ \/ UNCHANGED storeVars
        \/ StoreNext
        \/ \E p \in Reqs : At(p, "write") /\
              UpdateAdapter(local[p].sid, local[p].aid, local[p].name, local[p].key)
      ]_storeVars

(* However often the slice was shifted, appended to or moved to another    *)
(* array in the meantime, a captured slice or pointer shows adapters of    *)
(* the scenario it was taken from: never an empty slot, never an adapter   *)
(* of another scenario.  (It may well show the wrong adapter of the right  *)
(* scenario.)                                                              *)
CapturedReadsStayHome ==
    /\ \A p \in Processes : \A x \in Captured(p) :
          x # Nil /\ x.id[1] = local[p].sid
    /\ \A s \in snapshot : \A i \in 1 .. s.len :
          array[s.arr][i] # Nil /\ array[s.arr][i].id[1] = s.sid

(* A handler creates, scales and deletes deployments only for adapters of  *)
(* the scenario it was called for, even when it works from stale memory.   *)
(* So it is as long as no two adapters have one name.  SCENARIO_SPEC.md    *)
(* asks for names "unique ... within the scenario" (:54), and for files    *)
(* "importable into any environment without conflict" (:805); but a clone, *)
(* like a file imported twice, brings every name a second time.            *)
OwnersOf(d) == IF d = Nil THEN {} ELSE {d.owner[1]}

AgentsOf(sid) == {p \in Processes : local[p].sid = sid /\ local'[p] # local[p]}

ClusterIsolation ==
    [][ \A n \in Names :
          deployments'[n] # deployments[n] =>
            \A sid \in OwnersOf(deployments[n]) \cup OwnersOf(deployments'[n]) :
               AgentsOf(sid) # {} ]_vars

(* A running scenario none of whose running adapters was used lately does  *)
(* not stay so: it is used or changed, or the idle check stops it.  (This  *)
(* is for requests one at a time: a launch that overlaps a deletion may    *)
(* mark an adapter running that was never used and never will be.)         *)
Abandoned(sid) ==
    /\ Holds(sid)
    /\ object[catalog[sid]].status = "running"
    /\ \E i \in Positions(sid) : AdapterAt(sid, i).status = "running"
    /\ \A i \in Positions(sid) :
          AdapterAt(sid, i).status = "running" => AdapterAt(sid, i).last # "recent"

AbandonedStopped == \A sid \in ScenarioIds : []<>~Abandoned(sid)

(* The idle check stops nothing that was running and in use all the time   *)
(* since it began, whatever requests and reports come while it decides and *)
(* while it stops one adapter after the other.  (Left out: an adapter is   *)
(* deleted while the check goes through the same memory, whose shift may   *)
(* hide from it another that is in use.)                                   *)
IdleSparesUsed ==
    At(Idle, "scale") \/ At(Idle, "markStopped") => local[Idle].aid \notin steady

(* Every request is answered (or dropped by a panic).                      *)
Answered == \A p \in Reqs : ~At(p, "ready") ~> At(p, "ready")

-----------------------------------------------------------------------------
(* What comments and documents of the repository say, and the code does    *)
(* not keep.                                                               *)

(* handlers.go:452: "handleLaunchScenario launches all adapters in a       *)
(* scenario".                                                              *)
LaunchLaunchesAll ==
    [][\A p \in Reqs, sid \in ScenarioIds :
          Completes(p, "launch", sid) => StatusesOf(sid)' \subseteq {"running"}]_vars

(* handlers.go:540: "handleStopScenario stops all running adapters in a    *)
(* scenario".                                                              *)
StopStopsAll ==
    [][\A p \in Reqs, sid \in ScenarioIds :
          Completes(p, "stop", sid) => StatusesOf(sid)' \subseteq {"stopped"}]_vars

=============================================================================
