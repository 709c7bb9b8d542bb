------------------------- MODULE ControlPlaneProofs -------------------------
(***************************************************************************)
(* The control plane under every interleaving of its requests and of the   *)
(* idle check, with failing calls and restarts: SystemInv is inductive.    *)
(*                                                                         *)
(* Handlers keep pointers and slice headers into the heap while others     *)
(* change it.  What makes that safe is that no step but a restart empties  *)
(* a slot or fills it for another scenario (KeepsCells): what was good to  *)
(* read when it was captured (Sound) stays good to read.                   *)
(***************************************************************************)
EXTENDS ControlPlane, MemoryStoreProofs

-----------------------------------------------------------------------------
(* What a process holds.                                                   *)

LoopOps    == {"launch", "stop", "deleteScenario", "idle"}
AdapterOps == {"updateAdapter", "deleteAdapter", "stopAdapter"}

(* The operations that have a step pc.                                     *)
OpsAt(pc) ==
    CASE pc = "ready" -> {Nil}
      [] pc \in {"pick", "finish"} -> LoopOps
      [] pc \in {"createDeployment", "createService", "expose", "markRunning",
                 "setUrl", "pokeStatus", "pokeUrl"} -> {"launch"}
      [] pc = "scale" -> {"stop", "idle", "stopAdapter"}
      [] pc = "markStopped" -> {"stop", "idle", "stopAdapter", "updateAdapter"}
      [] pc = "check" -> AdapterOps
      [] pc \in {"deleteDeployment", "deleteService"} ->
            {"deleteAdapter", "updateAdapter", "deleteScenario"}
      [] pc \in {"reread", "remove"} -> {"deleteAdapter"}
      [] pc = "deleteRule" -> {"deleteAdapter", "deleteScenario"}
      [] pc \in {"readKey", "write"} -> {"updateAdapter"}
      [] pc \in {"sweepServices", "sweepRules"} -> {"cleanup"}
      [] pc \in {"choose", "examine"} -> {"idle"}

(* The steps that pass a copy of an adapter to the Kubernetes client.      *)
Calls == { "createDeployment", "createService", "expose", "scale",
           "deleteDeployment", "deleteService", "deleteRule" }

(* At work on a scenario.                                                  *)
Working(l) == l.op \in LoopOps \cup AdapterOps /\ l.pc # "choose"

(* A slot that is there, filled, and an adapter of sid's.                  *)
Cell(a, i, sid) ==
    /\ i \in 1 .. Len(array[a])
    /\ array[a][i] # Nil
    /\ ~LocalMode => array[a][i].id[1] = sid

(* What process p may hold while the heap is as it is.                     *)
Sound(p, l) ==
    /\ l.op \in OpsAt(l.pc)
    /\ p = Idle => l.op \in {Nil, "idle"}
    /\ p # Idle => l.op # "idle"
    /\ l.pc \in Calls => l.cur # Nil /\ (~LocalMode => l.cur.id[1] = l.sid)
    /\ IF Working(l) THEN l.sid \in ScenarioIds /\ l.idx >= 1 ELSE l.arr = NoArray
    /\ l.op = "launch" => l.obj # Nil /\ object[l.obj] # Nil
    /\ l.op \in AdapterOps => l.arr # NoArray /\ Cell(l.arr, l.idx, l.sid)
    /\ l.op \notin AdapterOps /\ l.arr # NoArray =>
          \A i \in 1 .. l.len : Cell(l.arr, i, l.sid)

SoundCopy(s) ==
    IF s.arr = NoArray THEN s.len = 0
    ELSE \A i \in 1 .. s.len : Cell(s.arr, i, s.sid)

LocalsInv ==
    /\ local \in [Processes -> Local]
    /\ \A p \in Processes : Sound(p, local[p])

SnapshotInv ==
    /\ snapshot \subseteq Snapshot
    /\ \A s \in snapshot : SoundCopy(s)

CountersInv ==
    /\ unloaded \subseteq GithubIds
    /\ clock \in Seconds
    /\ issued \in 0 .. MaxRequests
    /\ steady \subseteq AdapterIds

SystemInv == HeapInv /\ ClusterTypeOK /\ LocalsInv /\ SnapshotInv /\ CountersInv

(* A step of process p takes it to something it may hold.                  *)
Moves(p) == \E l \in Local : Sound(p, l) /\ Set(p, l)

-----------------------------------------------------------------------------
(* What is sound stays so while the heap keeps its cells.                  *)

LEMMA CellStays ==
    ASSUME KeepsCells, NEW a \in Arrays, NEW i, NEW sid, Cell(a, i, sid)
    PROVE  Cell(a, i, sid)'
BY DEF KeepsCells, Cell

LEMMA SoundStays ==
    ASSUME KeepsCells, NEW p, NEW l \in Local, Sound(p, l)
    PROVE  Sound(p, l)'
<1>1. /\ l.arr # NoArray => l.arr \in Arrays
      /\ l.obj # Nil => l.obj \in Objects
  BY DEF Local
<1>2. l.op = "launch" => l.obj # Nil /\ object'[l.obj] # Nil
  BY <1>1 DEF Sound, KeepsCells
<1>3. l.op \in AdapterOps => l.arr # NoArray /\ Cell(l.arr, l.idx, l.sid)'
  BY <1>1, CellStays DEF Sound
<1>4. l.op \notin AdapterOps /\ l.arr # NoArray =>
         \A i \in 1 .. l.len : Cell(l.arr, i, l.sid)'
  BY <1>1, CellStays DEF Sound
<1>5. QED
  BY <1>2, <1>3, <1>4 DEF Sound

LEMMA LocalsStay ==
    ASSUME LocalsInv, KeepsCells, UNCHANGED local
    PROVE  LocalsInv'
BY SoundStays DEF LocalsInv

LEMMA MoveKeepsLocals ==
    ASSUME LocalsInv, KeepsCells, NEW p \in Processes, Moves(p)
    PROVE  LocalsInv'
<1>1. PICK l \in Local : Sound(p, l) /\ Set(p, l)
  BY DEF Moves
<1>2. local' = [local EXCEPT ![p] = l] /\ local \in [Processes -> Local]
  BY <1>1 DEF Set, LocalsInv
<1>3. local' \in [Processes -> Local]
  BY <1>2
<1>4. ASSUME NEW q \in Processes
      PROVE  Sound(q, local[q])'
  <2>1. CASE q = p
    BY <1>1, <1>2, <2>1, SoundStays
  <2>2. CASE q # p
    <3>1. local'[q] = local[q] /\ local[q] \in Local /\ Sound(q, local[q])
      BY <1>2, <2>2 DEF LocalsInv
    <3>2. QED
      BY <3>1, SoundStays
  <2>3. QED
    BY <2>1, <2>2
<1>5. QED
  BY <1>3, <1>4 DEF LocalsInv

LEMMA SnapshotStays ==
    ASSUME SnapshotInv, KeepsCells, snapshot' \subseteq snapshot
    PROVE  SnapshotInv'
<1>1. ASSUME NEW s \in snapshot'
      PROVE  SoundCopy(s)'
  <2>1. s \in Snapshot /\ SoundCopy(s) /\ (s.arr # NoArray => s.arr \in Arrays)
    BY DEF SnapshotInv, Snapshot
  <2>2. QED
    BY <2>1, CellStays DEF SoundCopy
<1>2. QED
  BY <1>1 DEF SnapshotInv

-----------------------------------------------------------------------------
(* What a process holds after a step.                                      *)

LEMMA ReadySound ==
    ASSUME NEW p \in Processes
    PROVE  Ready \in Local /\ Sound(p, Ready)
<1>1. Nil \in Keys /\ "none" \in Urls
  BY DEF Keys, Urls
<1>2. Ready \in Local
  BY <1>1 DEF Ready, Local, Steps
<1>3. Sound(p, Ready)
  BY ControlPlaneAssumption
  DEF Ready, Sound, OpsAt, Calls, Working, AdapterOps, LoopOps, AllOps
<1>4. QED
  BY <1>2, <1>3

LEMMA RespondMoves ==
    ASSUME NEW p \in Processes, Respond(p)
    PROVE  Moves(p)
BY ReadySound DEF Respond, Moves

(* A step in the middle of a request.                                      *)
LEMMA AdvanceMoves ==
    ASSUME LocalsInv, NEW p \in Processes, NEW m \in Local, Set(p, m),
           local[p].op \in LoopOps \cup AdapterOps, local[p].pc # "choose",
           m.op = local[p].op, m.sid = local[p].sid, m.obj = local[p].obj,
           m.arr = local[p].arr, m.len = local[p].len,
           m.idx = local[p].idx \/ (m.op \in LoopOps /\ m.idx >= 1),
           m.op \in OpsAt(m.pc), m.pc # "choose",
           m.pc \in Calls => m.cur # Nil /\ (~LocalMode => m.cur.id[1] = m.sid)
    PROVE  Moves(p)
<1>1. Sound(p, local[p])
  BY DEF LocalsInv
<1>2. Working(local[p]) /\ Working(m)
  BY DEF Working
<1>3. m.op \in LoopOps => m.op \notin AdapterOps
  BY DEF LoopOps, AdapterOps
<1>4. Sound(p, m)
  BY <1>1, <1>2, <1>3 DEF Sound
<1>5. QED
  BY <1>4 DEF Moves

LEMMA GotoMoves ==
    ASSUME LocalsInv, NEW p \in Processes, NEW pc \in Steps, Goto(p, pc),
           local[p].op \in LoopOps \cup AdapterOps, local[p].pc # "choose",
           local[p].op \in OpsAt(pc), pc # "choose",
           pc \in Calls => local[p].pc \in Calls
    PROVE  Moves(p)
<1> DEFINE m == [local[p] EXCEPT !.pc = pc]
<1>1. local[p] \in Local /\ Sound(p, local[p])
  BY DEF LocalsInv
<1>2. m \in Local /\ m.pc = pc /\ m.op = local[p].op /\ m.sid = local[p].sid
      /\ m.obj = local[p].obj /\ m.arr = local[p].arr /\ m.len = local[p].len
      /\ m.idx = local[p].idx /\ m.cur = local[p].cur
  BY <1>1 DEF Local
<1>3. Set(p, m)
  BY DEF Goto
<1> HIDE DEF m
<1>4. pc \in Calls => m.cur # Nil /\ (~LocalMode => m.cur.id[1] = m.sid)
  BY <1>1, <1>2 DEF Sound
<1>5. QED
  BY <1>2, <1>3, <1>4, AdvanceMoves

LEMMA NextAdapterMoves ==
    ASSUME LocalsInv, NEW p \in Processes, NextAdapter(p),
           local[p].op \in LoopOps, local[p].pc # "choose"
    PROVE  Moves(p)
<1> DEFINE m == [local[p] EXCEPT !.pc = "pick", !.idx = @ + 1,
                                 !.aid = Nil, !.cur = Nil, !.url = "none"]
<1>1. local[p] \in Local /\ Sound(p, local[p]) /\ Working(local[p])
  BY DEF LocalsInv, Working
<1>2. /\ local[p].idx + 1 \in Nat /\ local[p].idx + 1 >= 1
      /\ "pick" \in Steps /\ "none" \in Urls
  BY <1>1 DEF Sound, Local, Steps, Urls
<1>3. m \in Local /\ m.pc = "pick" /\ m.op = local[p].op /\ m.sid = local[p].sid
      /\ m.obj = local[p].obj /\ m.arr = local[p].arr /\ m.len = local[p].len
      /\ m.idx >= 1
  BY <1>1, <1>2 DEF Local
<1>4. Set(p, m)
  BY DEF NextAdapter
<1> HIDE DEF m
<1>5. "pick" \notin Calls /\ local[p].op \in OpsAt("pick")
  BY DEF Calls, OpsAt
<1>6. QED
  BY <1>3, <1>4, <1>5, AdvanceMoves

(* A process takes a copy of the adapter it reads.                         *)
LEMMA HoldMoves ==
    ASSUME LocalsInv, NEW p \in Processes, NEW pc \in Steps, NEW x \in AdapterRecord,
           NEW aid \in AdapterIds \cup {Nil}, NEW url \in Urls,
           ~LocalMode => x.id[1] = local[p].sid,
           Set(p, [local[p] EXCEPT !.pc = pc, !.cur = x, !.aid = aid, !.url = url]),
           local[p].op \in LoopOps \cup AdapterOps, local[p].pc # "choose",
           local[p].op \in OpsAt(pc), pc # "choose"
    PROVE  Moves(p)
<1> DEFINE m == [local[p] EXCEPT !.pc = pc, !.cur = x, !.aid = aid, !.url = url]
<1>1. local[p] \in Local
  BY DEF LocalsInv
<1>2. m \in Local /\ m.pc = pc /\ m.op = local[p].op /\ m.sid = local[p].sid
      /\ m.obj = local[p].obj /\ m.arr = local[p].arr /\ m.len = local[p].len
      /\ m.idx = local[p].idx /\ m.cur = x
  BY <1>1 DEF Local
<1>3. Set(p, m)
  OBVIOUS
<1> HIDE DEF m
<1>4. x # Nil
  BY NilAssumption
<1>5. QED
  BY <1>2, <1>3, <1>4, AdvanceMoves

(* What a process reads through what it captured is an adapter of its      *)
(* scenario.                                                               *)
LEMMA CurrentFacts ==
    ASSUME HeapInv, LocalsInv, NEW p \in Processes,
           \/ local[p].op \in AdapterOps
           \/ local[p].op \in LoopOps /\ local[p].pc # "choose" /\ Ranging(local[p])
    PROVE  /\ Current(p) \in AdapterRecord
           /\ ~LocalMode => Current(p).id[1] = local[p].sid
<1> DEFINE l == local[p]
<1>1. l \in Local /\ Sound(p, l)
  BY DEF LocalsInv
<1>2. l.op \in LoopOps => l.op \notin AdapterOps
  BY DEF LoopOps, AdapterOps
<1>3. l.op \in LoopOps /\ l.pc # "choose" => l.idx >= 1
  BY <1>1 DEF Sound, Working
<1>4. l.arr # NoArray /\ Cell(l.arr, l.idx, l.sid)
  BY <1>1, <1>2, <1>3 DEF Sound, Ranging, Local
<1>5. l.arr \in Arrays
  BY <1>1, <1>4 DEF Local
<1>6. array[l.arr] \in Seq(AdapterRecord \cup {Nil})
  BY <1>5 DEF HeapInv, StoreInv, StoreTypeOK
<1>7. array[l.arr][l.idx] \in AdapterRecord
  BY <1>4, <1>6, ElementOfSeq DEF Cell
<1>8. QED
  BY <1>4, <1>7 DEF Current, Cell

LEMMA PickMoves ==
    ASSUME HeapInv, LocalsInv, NEW p \in Processes, Pick(p)
    PROVE  Moves(p)
<1> DEFINE l == local[p]
<1>1. l \in Local /\ l.pc = "pick" /\ l.op \in LoopOps
  BY DEF LocalsInv, Sound, OpsAt, Pick, At
<1>2. CASE ~Ranging(l)
  <2>1. Goto(p, "finish")
    BY <1>2 DEF Pick
  <2>2. "finish" \in Steps /\ l.op \in OpsAt("finish") /\ "finish" \notin Calls
    BY <1>1 DEF Steps, OpsAt, Calls
  <2>3. QED
    BY <1>1, <2>1, <2>2, GotoMoves
<1>3. CASE Ranging(l) /\ ~Wanted(l.op, Current(p))
  <2>1. NextAdapter(p)
    BY <1>3 DEF Pick
  <2>2. QED
    BY <1>1, <2>1, NextAdapterMoves
<1>4. CASE Ranging(l) /\ Wanted(l.op, Current(p))
  <2> DEFINE x == Current(p)
             pc == FirstStep(l.op)
             url == IF LocalMode THEN "local" ELSE "none"
  <2>1. x \in AdapterRecord /\ (~LocalMode => x.id[1] = l.sid)
    BY <1>1, <1>4, CurrentFacts
  <2>2. x.id \in AdapterIds \cup {Nil} /\ url \in Urls
    BY <2>1 DEF AdapterRecord, Urls
  <2>3. pc \in Steps /\ l.op \in OpsAt(pc) /\ pc # "choose"
    <3>1. l.op = "deleteScenario" => ~LocalMode
      BY <1>4 DEF Wanted
    <3>2. QED
      BY <1>1, <3>1 DEF FirstStep, LoopOps, OpsAt, Steps
  <2>4. Set(p, [l EXCEPT !.pc = pc, !.cur = x, !.aid = x.id, !.url = url])
    BY <1>4 DEF Pick
  <2> HIDE DEF x, pc, url
  <2>5. QED
    BY <1>1, <2>1, <2>2, <2>3, <2>4, HoldMoves
<1>5. QED
  BY <1>2, <1>3, <1>4

(* The steps of a launch.                                                  *)
LEMMA LaunchMoves ==
    ASSUME HeapInv, LocalsInv, NEW p \in Processes,
           \/ CreateDeployment(p) \/ CreateService(p) \/ Expose(p)
           \/ MarkRunning(p) \/ SetUrl(p) \/ WriteStatus(p) \/ WriteUrl(p)
    PROVE  Moves(p)
<1> DEFINE l == local[p]
<1>1. l \in Local /\ l.op \in LoopOps /\ l.pc # "choose" /\ l.op = "launch" /\ Sound(p, l)
  BY DEF LocalsInv, Sound, OpsAt, LoopOps, At, CreateDeployment, CreateService,
         Expose, MarkRunning, SetUrl, WriteStatus, WriteUrl
<1>2. CASE NextAdapter(p)
  BY <1>1, <1>2, NextAdapterMoves
<1>3. CASE Respond(p)
  BY <1>3, RespondMoves
<1>4. ASSUME NEW pc \in {"createService", "expose"}, Goto(p, pc), l.pc \in Calls
      PROVE  Moves(p)
  <2>1. pc \in Steps /\ l.op \in OpsAt(pc) /\ pc # "choose"
    BY <1>1 DEF Steps, OpsAt
  <2>2. QED
    BY <1>1, <1>4, <2>1, GotoMoves
<1>5. ASSUME NEW pc \in {"markRunning", "setUrl", "pokeStatus", "pokeUrl"}, Goto(p, pc)
      PROVE  Moves(p)
  <2>1. pc \in Steps /\ l.op \in OpsAt(pc) /\ pc # "choose" /\ pc \notin Calls
    BY <1>1 DEF Steps, OpsAt, Calls
  <2>2. QED
    BY <1>1, <1>5, <2>1, GotoMoves
<1>6. CASE Expose(p)
  <2>1. PICK url \in {"public", "internal"} :
           Set(p, [l EXCEPT !.pc = "markRunning", !.url = url])
    BY <1>6 DEF Expose
  <2> DEFINE m == [l EXCEPT !.pc = "markRunning", !.url = url]
  <2>2. "markRunning" \in Steps /\ url \in Urls
    BY DEF Steps, Urls
  <2>3. m \in Local /\ m.pc = "markRunning" /\ m.op = l.op /\ m.sid = l.sid
        /\ m.obj = l.obj /\ m.arr = l.arr /\ m.len = l.len /\ m.idx = l.idx
    BY <1>1, <2>2 DEF Local
  <2>4. "markRunning" \notin Calls /\ l.op \in OpsAt("markRunning")
    BY <1>1 DEF Calls, OpsAt
  <2>5. Set(p, m)
    BY <2>1
  <2> HIDE DEF m
  <2>6. QED
    BY <1>1, <2>3, <2>4, <2>5, AdvanceMoves
<1>7. CASE CreateDeployment(p)
  BY <1>2, <1>4, <1>7 DEF CreateDeployment, At, Calls
<1>8. CASE CreateService(p)
  BY <1>2, <1>4, <1>8 DEF CreateService, At, Calls
<1>9. CASE MarkRunning(p)
  BY <1>5, <1>9 DEF MarkRunning
<1>10. CASE SetUrl(p)
  BY <1>5, <1>10 DEF SetUrl
<1>11. CASE WriteStatus(p)
  BY <1>3, <1>5, <1>11 DEF WriteStatus
<1>12. CASE WriteUrl(p)
  BY <1>2, <1>3, <1>12 DEF WriteUrl
<1>13. QED
  BY <1>6, <1>7, <1>8, <1>9, <1>10, <1>11, <1>12

(* The end of a loop; the idle check goes on to the next scenario.         *)
LEMMA ChoosingSound ==
    ASSUME NEW p \in Processes, p = Idle
    PROVE  LET m == [Ready EXCEPT !.op = "idle", !.pc = "choose"]
           IN  m \in Local /\ Sound(p, m)
<1> DEFINE m == [Ready EXCEPT !.op = "idle", !.pc = "choose"]
<1>1. Ready \in Local
  BY ReadySound
<1>2. "idle" \in AllOps /\ "choose" \in Steps
  BY DEF AllOps, Steps
<1>3. m \in Local
  BY <1>1, <1>2 DEF Local
<1>4. Sound(p, m)
  BY DEF Ready, Sound, OpsAt, Calls, Working, AdapterOps, LoopOps
<1>5. QED
  BY <1>3, <1>4

LEMMA FinishMoves ==
    ASSUME NEW p \in Processes, Finish(p)
    PROVE  Moves(p)
BY RespondMoves, ChoosingSound DEF Finish, Moves

(* The steps on one adapter.                                               *)
LEMMA CheckMoves ==
    ASSUME HeapInv, LocalsInv, NEW p \in Processes, Check(p)
    PROVE  Moves(p)
<1> DEFINE l == local[p]
           x == Current(p)
<1>1. l \in Local /\ l.op \in AdapterOps /\ l.pc = "check"
  BY DEF LocalsInv, Sound, OpsAt, Check, At
<1>2. x \in AdapterRecord /\ (~LocalMode => x.id[1] = l.sid)
  BY <1>1, CurrentFacts
<1>3. ASSUME NEW pc \in {"remove", "readKey", "markStopped"}, Goto(p, pc),
             l.op \in OpsAt(pc)
      PROVE  Moves(p)
  <2>1. pc \in Steps /\ pc # "choose" /\ pc \notin Calls
    BY DEF Steps, Calls
  <2>2. QED
    BY <1>1, <1>3, <2>1, GotoMoves
<1>4. ASSUME NEW pc \in {"deleteDeployment", "scale"}, l.op \in OpsAt(pc),
             Set(p, [[l EXCEPT !.cur = x] EXCEPT !.pc = pc])
      PROVE  Moves(p)
  <2> DEFINE m == [l EXCEPT !.cur = x, !.pc = pc]
  <2>1. pc \in Steps /\ pc # "choose"
    BY DEF Steps
  <2>2. m \in Local /\ m.pc = pc /\ m.op = l.op /\ m.sid = l.sid
        /\ m.obj = l.obj /\ m.arr = l.arr /\ m.len = l.len /\ m.idx = l.idx /\ m.cur = x
    BY <1>1, <1>2, <2>1 DEF Local
  <2>3. Set(p, m) /\ x # Nil
    BY <1>2, <1>4, NilAssumption
  <2> HIDE DEF m
  <2>4. QED
    BY <1>1, <1>2, <1>4, <2>1, <2>2, <2>3, AdvanceMoves
<1>5. /\ l.op = "deleteAdapter" => l.op \in OpsAt("remove") /\ l.op \in OpsAt("deleteDeployment")
      /\ l.op = "updateAdapter" => l.op \in OpsAt("readKey") /\ l.op \in OpsAt("deleteDeployment")
      /\ l.op = "stopAdapter" => l.op \in OpsAt("markStopped") /\ l.op \in OpsAt("scale")
  BY DEF OpsAt
<1> HIDE DEF x
<1>6. QED
  BY <1>3, <1>4, <1>5 DEF Check, x

LEMMA ReadMoves ==
    ASSUME HeapInv, LocalsInv, NEW p \in Processes, Reread(p) \/ ReadKey(p)
    PROVE  Moves(p)
<1> DEFINE l == local[p]
           x == Current(p)
<1>1. l \in Local /\ l.op \in AdapterOps /\ l.pc # "choose"
  BY DEF LocalsInv, Sound, OpsAt, Reread, ReadKey, At, AdapterOps
<1>2. x \in AdapterRecord /\ (~LocalMode => x.id[1] = l.sid)
  BY <1>1, CurrentFacts
<1>3. CASE Reread(p)
  <2> DEFINE m == [l EXCEPT !.pc = "deleteRule", !.cur = x]
  <2>1. "deleteRule" \in Steps /\ l.op \in OpsAt("deleteRule")
    BY <1>3 DEF Steps, LocalsInv, Sound, Reread, At, OpsAt
  <2>2. m \in Local /\ m.pc = "deleteRule" /\ m.op = l.op /\ m.sid = l.sid
        /\ m.obj = l.obj /\ m.arr = l.arr /\ m.len = l.len /\ m.idx = l.idx /\ m.cur = x
    BY <1>1, <1>2, <2>1 DEF Local
  <2>3. Set(p, m) /\ x # Nil
    BY <1>2, <1>3, NilAssumption DEF Reread
  <2> HIDE DEF m
  <2>4. QED
    BY <1>1, <1>2, <2>1, <2>2, <2>3, AdvanceMoves
<1>4. CASE ReadKey(p)
  <2> DEFINE key == IF x.type = Sftp /\ l.key = Nil THEN x.key ELSE l.key
             m == [l EXCEPT !.pc = "write", !.cur = Nil, !.key = key]
  <2>1. "write" \in Steps /\ l.op \in OpsAt("write") /\ "write" \notin Calls
    BY <1>4 DEF Steps, Calls, LocalsInv, Sound, ReadKey, At, OpsAt
  <2>2. key \in Keys
    BY <1>1, <1>2 DEF AdapterRecord, Local
  <2>3. Set(p, m)
    BY <1>4 DEF ReadKey
  <2> HIDE DEF key
  <2>4. m \in Local /\ m.pc = "write" /\ m.op = l.op /\ m.sid = l.sid
        /\ m.obj = l.obj /\ m.arr = l.arr /\ m.len = l.len /\ m.idx = l.idx
    BY <1>1, <2>1, <2>2 DEF Local
  <2> HIDE DEF m
  <2>5. QED
    BY <1>1, <2>1, <2>3, <2>4, AdvanceMoves
<1>5. QED
  BY <1>3, <1>4

LEMMA AdapterMoves ==
    ASSUME LocalsInv, NEW p \in Processes,
           \/ Scale(p) \/ MarkStopped(p) \/ RemoveDeployment(p) \/ RemoveService(p)
           \/ RemoveRule(p) \/ RemoveAdapter(p) \/ Write(p)
    PROVE  Moves(p)
<1> DEFINE l == local[p]
<1>1. l \in Local /\ l.op \in OpsAt(l.pc)
  BY DEF LocalsInv, Sound
<1>2. ASSUME NEW pc \in {"markStopped", "readKey", "remove"}, Goto(p, pc),
             l.op \in LoopOps \cup AdapterOps, l.pc # "choose", l.op \in OpsAt(pc)
      PROVE  Moves(p)
  <2>1. pc \in Steps /\ pc # "choose" /\ pc \notin Calls
    BY DEF Steps, Calls
  <2>2. QED
    BY <1>2, <2>1, GotoMoves
<1>3. ASSUME NEW pc \in {"deleteService", "deleteRule"}, Goto(p, pc),
             l.op \in LoopOps \cup AdapterOps, l.pc \in Calls, l.op \in OpsAt(pc)
      PROVE  Moves(p)
  <2>1. pc \in Steps /\ pc # "choose" /\ l.pc # "choose"
    BY <1>3 DEF Steps, Calls
  <2>2. QED
    BY <1>3, <2>1, GotoMoves
<1>4. CASE Scale(p)
  <2>1. /\ l.pc = "scale" /\ Goto(p, "markStopped")
        /\ l.op \in LoopOps \cup AdapterOps /\ l.op \in OpsAt("markStopped")
    BY <1>1, <1>4 DEF Scale, At, OpsAt, LoopOps, AdapterOps
  <2>2. QED
    BY <1>2, <2>1
<1>5. CASE MarkStopped(p)
  <2>1. l.pc = "markStopped" /\ l.op \in {"stop", "idle", "stopAdapter", "updateAdapter"}
    BY <1>1, <1>5 DEF MarkStopped, At, OpsAt
  <2>2. CASE l.op \in {"stop", "idle"}
    <3>1. NextAdapter(p) /\ l.op \in LoopOps
      BY <1>5, <2>2 DEF MarkStopped, LoopOps
    <3>2. QED
      BY <2>1, <3>1, NextAdapterMoves
  <2>3. CASE l.op = "stopAdapter"
    BY <1>5, <2>3, RespondMoves DEF MarkStopped
  <2>4. CASE l.op = "updateAdapter"
    <3>1. Goto(p, "readKey") /\ l.op \in AdapterOps /\ l.op \in OpsAt("readKey")
      BY <1>5, <2>4 DEF MarkStopped, AdapterOps, OpsAt
    <3>2. QED
      BY <1>2, <2>1, <3>1
  <2>5. QED
    BY <2>1, <2>2, <2>3, <2>4
<1>6. CASE RemoveDeployment(p)
  <2>1. /\ l.pc = "deleteDeployment" /\ Goto(p, "deleteService") /\ l.pc \in Calls
        /\ l.op \in LoopOps \cup AdapterOps /\ l.op \in OpsAt("deleteService")
    BY <1>1, <1>6 DEF RemoveDeployment, At, OpsAt, LoopOps, AdapterOps, Calls
  <2>2. QED
    BY <1>3, <2>1
<1>7. CASE RemoveService(p)
  <2>1. l.pc = "deleteService" /\ l.op \in {"deleteAdapter", "updateAdapter", "deleteScenario"}
    BY <1>1, <1>7 DEF RemoveService, At, OpsAt
  <2>2. CASE l.op = "updateAdapter"
    <3>1. Goto(p, "markStopped") /\ l.op \in AdapterOps /\ l.op \in OpsAt("markStopped")
      BY <1>7, <2>2 DEF RemoveService, AdapterOps, OpsAt
    <3>2. QED
      BY <1>2, <2>1, <3>1
  <2>3. CASE l.op = "deleteAdapter"
    <3>1. Goto(p, "reread")
      BY <1>7, <2>3 DEF RemoveService
    <3>2. /\ "reread" \in Steps /\ "reread" \notin Calls
          /\ l.op \in AdapterOps /\ l.op \in OpsAt("reread")
      BY <2>3 DEF Steps, Calls, AdapterOps, OpsAt
    <3>3. QED
      BY <2>1, <3>1, <3>2, GotoMoves
  <2>4. CASE l.op = "deleteScenario"
    <3>1. Goto(p, "deleteRule") /\ l.op \in LoopOps /\ l.op \in OpsAt("deleteRule")
          /\ l.pc \in Calls
      BY <1>7, <2>1, <2>4 DEF RemoveService, LoopOps, OpsAt, Calls
    <3>2. QED
      BY <1>3, <3>1
  <2>5. QED
    BY <2>1, <2>2, <2>3, <2>4
<1>8. CASE RemoveRule(p)
  <2>1. l.pc = "deleteRule" /\ l.op \in {"deleteAdapter", "deleteScenario"}
    BY <1>1, <1>8 DEF RemoveRule, At, OpsAt
  <2>2. CASE l.op = "deleteScenario"
    <3>1. NextAdapter(p) /\ l.op \in LoopOps
      BY <1>8, <2>2 DEF RemoveRule, LoopOps
    <3>2. QED
      BY <2>1, <3>1, NextAdapterMoves
  <2>3. CASE l.op = "deleteAdapter"
    <3>1. Goto(p, "remove") /\ l.op \in AdapterOps /\ l.op \in OpsAt("remove")
      BY <1>8, <2>3 DEF RemoveRule, AdapterOps, OpsAt
    <3>2. QED
      BY <1>2, <2>1, <3>1
  <2>4. QED
    BY <2>1, <2>2, <2>3
<1>9. CASE RemoveAdapter(p) \/ Write(p)
  BY <1>9, RespondMoves DEF RemoveAdapter, Write
<1>10. QED
  BY <1>4, <1>5, <1>6, <1>7, <1>8, <1>9

LEMMA SweepMoves ==
    ASSUME LocalsInv, NEW p \in Processes, SweepTheRest(p)
    PROVE  Moves(p)
<1>1. CASE Respond(p)
  BY <1>1, RespondMoves
<1>2. CASE At(p, "sweepServices") /\ Goto(p, "sweepRules")
  <2> DEFINE l == local[p]
             m == [l EXCEPT !.pc = "sweepRules"]
  <2>1. l \in Local /\ Sound(p, l) /\ l.op = "cleanup"
    BY <1>2 DEF LocalsInv, Sound, OpsAt, At
  <2>2. m \in Local
    BY <2>1 DEF Local, Steps
  <2>3. m.pc = "sweepRules" /\ m.op = l.op /\ m.sid = l.sid
        /\ m.obj = l.obj /\ m.arr = l.arr /\ m.len = l.len /\ m.idx = l.idx
    BY <2>1 DEF Local
  <2>4. Set(p, m)
    BY <1>2 DEF Goto
  <2> HIDE DEF m
  <2>5. Sound(p, m)
    BY <2>1, <2>3 DEF Sound, OpsAt, Working, LoopOps, AdapterOps, Calls
  <2>6. QED
    BY <2>2, <2>4, <2>5 DEF Moves
<1>3. QED
  BY <1>1, <1>2 DEF SweepTheRest

LEMMA ContinueMoves ==
    ASSUME HeapInv, LocalsInv, NEW p \in Processes, Continue(p)
    PROVE  Moves(p)
BY PickMoves, LaunchMoves, FinishMoves, CheckMoves, ReadMoves, AdapterMoves, SweepMoves
DEF Continue

-----------------------------------------------------------------------------
(* The beginning of a request.                                             *)

(* What GetScenario and ListScenarios give to their callers.               *)
LEMMA SliceSound ==
    ASSUME HeapInv, NEW sid \in ScenarioIds, Holds(sid)
    PROVE  LET o == catalog[sid]
           IN  /\ o \in Objects /\ object[o] # Nil
               /\ object[o].arr \in Arrays \cup {NoArray}
               /\ object[o].len \in Nat
               /\ object[o].arr = NoArray => object[o].len = 0
               /\ object[o].arr # NoArray =>
                     \A i \in 1 .. object[o].len : Cell(object[o].arr, i, sid)
<1> DEFINE o == catalog[sid]
<1>1. o \in Objects /\ object[o] # Nil
  BY CatalogFacts DEF HeapInv, Holds
<1>2. /\ object[o].arr \in Arrays \cup {NoArray}
      /\ object[o].len \in Nat
      /\ object[o].arr = NoArray => object[o].len = 0
      /\ object[o].arr # NoArray => object[o].len <= Len(array[object[o].arr])
      /\ \A i \in 1 .. object[o].len : array[object[o].arr][i] \in AdapterRecord
  BY <1>1, SliceFacts DEF HeapInv
<1>3. ASSUME object[o].arr # NoArray, NEW i \in 1 .. object[o].len
      PROVE  Cell(object[o].arr, i, sid)
  <2>1. array[object[o].arr] \in Seq(AdapterRecord \cup {Nil})
    BY <1>2, <1>3 DEF HeapInv, StoreInv, StoreTypeOK
  <2>2. i \in 1 .. Len(array[object[o].arr])
    BY <1>2, <1>3, <2>1
  <2>3. array[object[o].arr][i] # Nil
    BY <1>2, <1>3, NilAssumption
  <2>4. ~LocalMode => array[object[o].arr][i].id[1] = sid
    BY <1>3, <2>2, <2>3 DEF HeapInv, Homes
  <2>5. QED
    BY <2>2, <2>3, <2>4 DEF Cell
<1>4. QED
  BY <1>1, <1>2, <1>3

LEMMA BeginLoopMoves ==
    ASSUME HeapInv, NEW p \in Reqs, NEW op \in {"launch", "stop", "deleteScenario"},
           NEW sid \in ScenarioIds, BeginLoop(p, op, sid)
    PROVE  Moves(p)
<1> DEFINE o == catalog[sid]
           m == [Ready EXCEPT !.op = op, !.pc = "pick", !.sid = sid,
                   !.obj = o, !.arr = object[o].arr, !.len = object[o].len, !.idx = 1]
<1>1. /\ o \in Objects /\ object[o] # Nil
      /\ object[o].arr \in Arrays \cup {NoArray}
      /\ object[o].len \in Nat
      /\ object[o].arr # NoArray =>
            \A i \in 1 .. object[o].len : Cell(object[o].arr, i, sid)
  BY SliceSound DEF BeginLoop
<1>2. Ready \in Local /\ p \in Processes /\ p # Idle
  BY ReadySound, ControlPlaneAssumption DEF Processes
<1>3. op \in AllOps /\ "pick" \in Steps /\ 1 \in Nat
  BY DEF AllOps, Steps
<1> HIDE DEF o
<1>4. /\ m \in Local /\ m.op = op /\ m.pc = "pick" /\ m.sid = sid /\ m.obj = o
      /\ m.arr = object[o].arr /\ m.len = object[o].len /\ m.idx = 1
  BY <1>1, <1>2, <1>3 DEF Local
<1>5. Set(p, m)
  BY DEF BeginLoop, o
<1>6. o # Nil
  BY <1>1, HeapAssumption DEF Objects
<1> HIDE DEF m
<1>7. Sound(p, m)
  BY <1>1, <1>2, <1>4, <1>6 DEF Sound, OpsAt, Working, LoopOps, AdapterOps, Calls
<1>8. QED
  BY <1>4, <1>5, <1>7 DEF Moves

LEMMA BeginAdapterMoves ==
    ASSUME HeapInv, NEW p \in Reqs, NEW op \in AdapterOps, NEW sid \in ScenarioIds,
           NEW id \in AdapterIds, NEW name \in Names \cup {Nil}, NEW key \in Keys,
           BeginAdapter(p, op, sid, id, name, key)
    PROVE  Moves(p)
<1> DEFINE o == catalog[sid]
<1>1. PICK i \in Positions(sid) :
        Set(p, [Ready EXCEPT !.op = op, !.pc = "check", !.sid = sid,
                  !.aid = id, !.arr = object[o].arr,
                  !.idx = i, !.name = name, !.key = key])
  BY DEF BeginAdapter
<1>2. Holds(sid) /\ i \in 1 .. object[o].len
  BY LookupFacts DEF HeapInv
<1>3. /\ object[o].arr \in Arrays /\ object[o].arr # NoArray
      /\ i \in Nat /\ i >= 1
      /\ Cell(object[o].arr, i, sid)
  <2>1. object[o].arr # NoArray
    BY <1>2, SliceSound
  <2>2. QED
    BY <1>2, <2>1, SliceSound
<1>4. Ready \in Local /\ p \in Processes /\ p # Idle
  BY ReadySound, ControlPlaneAssumption DEF Processes
<1>5. op \in AllOps /\ "check" \in Steps
  BY DEF AdapterOps, AllOps, Steps
<1> DEFINE m == [Ready EXCEPT !.op = op, !.pc = "check", !.sid = sid,
                   !.aid = id, !.arr = object[o].arr,
                   !.idx = i, !.name = name, !.key = key]
<1> HIDE DEF o
<1>6. /\ m \in Local /\ m.op = op /\ m.pc = "check" /\ m.sid = sid
      /\ m.arr = object[o].arr /\ m.idx = i
  BY <1>3, <1>4, <1>5 DEF Local
<1>7. Set(p, m)
  BY <1>1
<1> HIDE DEF m
<1>8. Sound(p, m)
  BY <1>3, <1>4, <1>6 DEF Sound, OpsAt, Working, AdapterOps, Calls
<1>9. QED
  BY <1>6, <1>7, <1>8 DEF Moves

LEMMA BeginCleanupMoves ==
    ASSUME NEW p \in Reqs, BeginCleanup(p)
    PROVE  Moves(p)
<1> DEFINE m == [Ready EXCEPT !.op = "cleanup", !.pc = "sweepServices"]
<1>1. Ready \in Local /\ p # Idle
  BY ReadySound, ControlPlaneAssumption DEF Processes
<1>2. m \in Local
  BY <1>1 DEF Local, AllOps, Steps
<1>3. Sound(p, m)
  BY <1>1 DEF Ready, Sound, OpsAt, Calls, Working, AdapterOps, LoopOps
<1>4. Set(p, m)
  BY DEF BeginCleanup
<1>5. QED
  BY <1>2, <1>3, <1>4 DEF Moves

LEMMA BeginMoves ==
    ASSUME HeapInv, NEW p \in Reqs, Begin(p)
    PROVE  Moves(p)
<1>1. ASSUME NEW sid \in Scenarios, NEW op \in {"launch", "stop", "deleteScenario"},
             BeginLoop(p, op, sid)
      PROVE  Moves(p)
  BY <1>1, BeginLoopMoves DEF Scenarios
<1>2. ASSUME NEW sid \in Scenarios, NEW i \in Positions(sid),
             NEW op \in AdapterOps, NEW name \in Names \cup {Nil},
             NEW key \in RequestKeys(AdapterAt(sid, i).type, Nil),
             BeginAdapter(p, op, sid, AdapterAt(sid, i).id, name, key)
      PROVE  Moves(p)
  <2>1. sid \in ScenarioIds /\ AdapterAt(sid, i).id \in AdapterIds
    BY LookupFacts DEF Scenarios, HeapInv, AdapterRecord
  <2>2. key \in Keys
    BY DEF RequestKeys, Keys
  <2>3. QED
    BY <1>2, <2>1, <2>2, BeginAdapterMoves
<1>3. CASE BeginCleanup(p)
  BY <1>3, BeginCleanupMoves
<1>4. ASSUME NEW sid \in Scenarios, NEW i \in Positions(sid),
             NEW op \in {"deleteAdapter", "stopAdapter"},
             BeginAdapter(p, op, sid, AdapterAt(sid, i).id, Nil, Nil)
      PROVE  Moves(p)
  <2>1. sid \in ScenarioIds /\ AdapterAt(sid, i).id \in AdapterIds
    BY LookupFacts DEF Scenarios, HeapInv, AdapterRecord
  <2>2. Nil \in Keys /\ op \in AdapterOps
    BY DEF Keys, AdapterOps
  <2>3. QED
    BY <1>4, <2>1, <2>2, BeginAdapterMoves
<1>5. "updateAdapter" \in AdapterOps
  BY DEF AdapterOps
<1>6. QED
  BY <1>1, <1>2, <1>3, <1>4, <1>5 DEF Begin

-----------------------------------------------------------------------------
(* The idle check.                                                         *)

LEMMA ListScenariosFacts ==
    ASSUME HeapInv, LocalsInv, ListScenarios
    PROVE  Moves(Idle) /\ SnapshotInv'
<1>1. Moves(Idle)
  BY ChoosingSound DEF ListScenarios, Moves, Processes
<1>2. ASSUME NEW s \in snapshot'
      PROVE  s \in Snapshot /\ SoundCopy(s)
  <2>1. PICK sid \in ScenarioIds :
          /\ Holds(sid)
          /\ s = [sid |-> sid, arr |-> object[catalog[sid]].arr,
                  len |-> object[catalog[sid]].len]
    BY DEF ListScenarios
  <2>2. /\ object[catalog[sid]].arr \in Arrays \cup {NoArray}
        /\ object[catalog[sid]].len \in Nat
        /\ object[catalog[sid]].arr = NoArray => object[catalog[sid]].len = 0
        /\ object[catalog[sid]].arr # NoArray =>
              \A i \in 1 .. object[catalog[sid]].len : Cell(object[catalog[sid]].arr, i, sid)
    BY <2>1, SliceSound
  <2>3. s \in Snapshot
    BY <2>1, <2>2 DEF Snapshot
  <2>4. s.sid = sid /\ s.arr = object[catalog[sid]].arr /\ s.len = object[catalog[sid]].len
    BY <2>1
  <2>5. QED
    BY <2>2, <2>3, <2>4 DEF SoundCopy
<1>3. UNCHANGED storeVars
  BY DEF ListScenarios
<1>4. ASSUME NEW s \in snapshot'
      PROVE  SoundCopy(s)'
  BY <1>2, <1>3 DEF SoundCopy, Cell, storeVars
<1>5. QED
  BY <1>1, <1>2, <1>4 DEF SnapshotInv

LEMMA ChooseScenarioMoves ==
    ASSUME SnapshotInv, ChooseScenario
    PROVE  Moves(Idle)
<1>1. Idle \in Processes
  BY DEF Processes
<1>2. CASE Respond(Idle)
  BY <1>1, <1>2, RespondMoves
<1>3. ASSUME NEW s \in snapshot,
             Set(Idle, [Ready EXCEPT !.op = "idle", !.pc = "examine",
                          !.sid = s.sid, !.arr = s.arr, !.len = s.len, !.idx = 1])
      PROVE  Moves(Idle)
  <2> DEFINE m == [Ready EXCEPT !.op = "idle", !.pc = "examine",
                     !.sid = s.sid, !.arr = s.arr, !.len = s.len, !.idx = 1]
  <2>1. /\ s \in Snapshot /\ SoundCopy(s)
        /\ s.sid \in ScenarioIds /\ s.arr \in Arrays \cup {NoArray} /\ s.len \in Nat
    BY DEF SnapshotInv, Snapshot
  <2>2. Ready \in Local /\ "idle" \in AllOps /\ "examine" \in Steps /\ 1 \in Nat
    BY <1>1, ReadySound DEF AllOps, Steps
  <2>3. /\ m \in Local /\ m.op = "idle" /\ m.pc = "examine" /\ m.sid = s.sid
        /\ m.arr = s.arr /\ m.len = s.len /\ m.idx = 1
    BY <2>1, <2>2 DEF Local
  <2>4. Set(Idle, m)
    BY <1>3
  <2> HIDE DEF m
  <2>5. Sound(Idle, m)
    BY <2>1, <2>3 DEF Sound, OpsAt, Working, LoopOps, AdapterOps, Calls, SoundCopy
  <2>6. QED
    BY <2>3, <2>4, <2>5 DEF Moves
<1>4. QED
  BY <1>2, <1>3 DEF ChooseScenario

LEMMA ExamineMoves ==
    ASSUME LocalsInv, Examine
    PROVE  Moves(Idle)
<1> DEFINE l == local[Idle]
<1>1. Idle \in Processes
  BY DEF Processes
<1>2. l \in Local /\ l.pc = "examine" /\ Sound(Idle, l) /\ l.op = "idle"
  BY <1>1 DEF LocalsInv, Sound, Examine, At, OpsAt
<1>3. l.op \in LoopOps /\ l.pc # "choose"
  BY <1>2 DEF LoopOps
<1>4. l.idx \in Nat /\ l.idx + 1 \in Nat /\ l.idx + 1 >= 1 /\ 1 \in Nat
  BY <1>2 DEF Local
<1>5. "pick" \in Steps /\ TRUE \in BOOLEAN
  BY DEF Steps
<1>6. ASSUME NEW pc \in {"pick", "examine"}, NEW idx \in Nat, idx >= 1,
             NEW idle \in BOOLEAN, Set(Idle, [l EXCEPT !.pc = pc, !.idx = idx, !.idle = idle])
      PROVE  Moves(Idle)
  <2> DEFINE m == [l EXCEPT !.pc = pc, !.idx = idx, !.idle = idle]
  <2>1. pc \in Steps /\ pc \notin Calls /\ pc # "choose" /\ l.op \in OpsAt(pc)
    BY <1>2 DEF Steps, Calls, OpsAt, LoopOps
  <2>2. m \in Local /\ m.pc = pc /\ m.op = l.op /\ m.sid = l.sid
        /\ m.obj = l.obj /\ m.arr = l.arr /\ m.len = l.len /\ m.idx = idx
    BY <1>2, <2>1 DEF Local
  <2>3. Set(Idle, m)
    BY <1>6
  <2> HIDE DEF m
  <2>4. QED
    BY <1>1, <1>2, <1>3, <1>6, <2>1, <2>2, <2>3, AdvanceMoves
<1>7. CASE Set(Idle, [Ready EXCEPT !.op = "idle", !.pc = "choose"])
  BY <1>1, <1>7, ChoosingSound DEF Moves
<1>8. CASE Set(Idle, [l EXCEPT !.pc = "pick", !.idx = 1])
  <2>1. [l EXCEPT !.pc = "pick", !.idx = 1] = [l EXCEPT !.pc = "pick", !.idx = 1, !.idle = l.idle]
        /\ l.idle \in BOOLEAN
    BY <1>2 DEF Local
  <2>2. Set(Idle, [l EXCEPT !.pc = "pick", !.idx = 1, !.idle = l.idle])
    BY <1>8, <2>1
  <2>3. "pick" \in {"pick", "examine"} /\ 1 \in Nat /\ 1 >= 1
    OBVIOUS
  <2>4. QED
    BY <1>6, <2>1, <2>2, <2>3
<1>9. CASE \/ Set(Idle, [l EXCEPT !.idx = @ + 1])
           \/ Set(Idle, [l EXCEPT !.idx = @ + 1, !.idle = TRUE])
  <2>1. /\ [l EXCEPT !.idx = @ + 1]
              = [l EXCEPT !.pc = "examine", !.idx = l.idx + 1, !.idle = l.idle]
        /\ [l EXCEPT !.idx = @ + 1, !.idle = TRUE]
              = [l EXCEPT !.pc = "examine", !.idx = l.idx + 1, !.idle = TRUE]
        /\ l.idle \in BOOLEAN
    BY <1>2 DEF Local
  <2>2. QED
    BY <1>4, <1>5, <1>6, <1>9, <2>1
<1>10. QED
  BY <1>7, <1>8, <1>9 DEF Examine

-----------------------------------------------------------------------------
(* What the steps do to the store.                                         *)

(* A call of a method, a write through a pointer, or the end of an update. *)
StoreCall ==
    \/ UNCHANGED storeVars
    \/ StoreNext
    \/ \E p \in Reqs : At(p, "write") /\
          UpdateAdapter(local[p].sid, local[p].aid, local[p].name, local[p].key)

(* An id by which a method finds an adapter is in the store.               *)
LEMMA FoundIsKnown ==
    ASSUME StoreInv, NEW sid \in ScenarioIds, NEW id, NEW i \in Positions(sid),
           Lookup(sid, id, i)
    PROVE  id \in KnownIds
<1> DEFINE o == catalog[sid]
           a == object[o].arr
<1>1. o \in Objects /\ object[o] # Nil /\ i \in 1 .. object[o].len
  BY LookupFacts
<1>2. /\ array[a][i] \in AdapterRecord /\ View(o)[i] = array[a][i]
      /\ a \in Arrays /\ object[o].len <= Len(array[a]) /\ object[o].len \in Nat
  BY <1>1, SliceFacts
<1>3. array[a] \in Seq(AdapterRecord \cup {Nil})
  BY <1>2 DEF StoreInv, StoreTypeOK
<1>4. i \in 1 .. Len(array[a])
  BY <1>1, <1>2, <1>3
<1>5. array[a][i] \in Stored \ {Nil}
  BY <1>2, <1>4, NilAssumption DEF Stored
<1>6. array[a][i].id = id
  BY <1>2 DEF Lookup, FirstAt, AdaptersOf
<1>7. QED
  BY <1>5, <1>6 DEF KnownIds

LEMMA MethodsAreCalls ==
    ASSUME StoreInv, NEW sid \in ScenarioIds, NEW id,
           \/ DeleteAdapter(sid, id)
           \/ \E status \in Statuses : UpdateAdapterStatus(sid, id, status)
           \/ \E url \in Urls : UpdateAdapterIngressURL(sid, id, url)
    PROVE  StoreCall
<1>1. UNCHANGED storeVars \/ id \in KnownIds
  BY FoundIsKnown DEF DeleteAdapter, UpdateAdapterStatus, UpdateAdapterIngressURL
<1>2. QED
  BY <1>1 DEF StoreCall, StoreNext, AdapterStep

LEMMA ActivityIsACall ==
    ASSUME StoreInv, NEW id, RecordAdapterActivity(id)
    PROVE  StoreCall
<1>1. CASE UNCHANGED storeVars
  BY <1>1 DEF StoreCall
<1>2. CASE ~ UNCHANGED storeVars
  <2>1. PICK sid \in ScenarioIds : \E i \in Positions(sid) : Lookup(sid, id, i)
    BY <1>2 DEF RecordAdapterActivity
  <2>2. id \in KnownIds
    BY <2>1, FoundIsKnown
  <2>3. QED
    BY <2>1, <2>2 DEF StoreCall, StoreNext, AdapterStep
<1>3. QED
  BY <1>1, <1>2

LEMMA RelabelsAreCalls ==
    ASSUME NEW sid \in ScenarioIds,
           \/ UpdateScenario(sid) \/ DeleteScenario(sid)
           \/ \E status \in Statuses : UpdateScenarioStatus(sid, status)
    PROVE  StoreCall
BY DEF StoreCall, StoreNext, ScenarioStep

LEMMA PokesAreCalls ==
    ASSUME NEW o \in Objects, object[o] # Nil, NEW i \in 1 .. object[o].len,
           PokeStatus(o, i) \/ \E url \in Urls : PokeUrl(o, i, url)
    PROVE  StoreCall
BY DEF StoreCall, StoreNext, PointerStep

LEMMA ContinueStore ==
    ASSUME HeapInv, LocalsInv, NEW p \in Processes, Continue(p)
    PROVE  HeapInv' /\ KeepsCells /\ StoreCall
<1> DEFINE l == local[p]
<1>1. l \in Local /\ Sound(p, l) /\ l.op \in OpsAt(l.pc)
  BY DEF LocalsInv, Sound
<1>2. StoreInv /\ "running" \in Statuses /\ "stopped" \in Statuses
  BY DEF HeapInv, Statuses
<1>3. CASE UNCHANGED storeVars
  BY <1>3, UnchangedKeeps DEF StoreCall
<1>4. CASE MarkRunning(p)
  <2>1. l.sid \in ScenarioIds /\ UpdateAdapterStatus(l.sid, l.aid, "running")
    BY <1>1, <1>4 DEF MarkRunning, At, OpsAt, Sound, Working, LoopOps
  <2>2. QED
    BY <1>2, <2>1, RewritingKeeps, MethodsAreCalls
<1>5. CASE SetUrl(p)
  <2>1. l.sid \in ScenarioIds /\ l.url \in Urls /\ UpdateAdapterIngressURL(l.sid, l.aid, l.url)
    BY <1>1, <1>5 DEF SetUrl, At, OpsAt, Sound, Working, LoopOps, Local
  <2>2. QED
    BY <1>2, <2>1, RewritingKeeps, MethodsAreCalls
<1>6. CASE MarkStopped(p)
  <2>1. l.sid \in ScenarioIds /\ UpdateAdapterStatus(l.sid, l.aid, "stopped")
    BY <1>1, <1>6 DEF MarkStopped, At, OpsAt, Sound, Working, LoopOps, AdapterOps
  <2>2. QED
    BY <1>2, <2>1, RewritingKeeps, MethodsAreCalls
<1>7. CASE (WriteStatus(p) \/ WriteUrl(p)) /\ ~ UNCHANGED storeVars
  <2>1. /\ InRange(p)
        /\ PokeStatus(l.obj, l.idx) \/ PokeUrl(l.obj, l.idx, l.url)
        /\ l.pc \in {"pokeStatus", "pokeUrl"}
    BY <1>7 DEF WriteStatus, WriteUrl, At
  <2>2. l.op = "launch" /\ l.idx >= 1
    BY <1>1, <2>1 DEF OpsAt, Sound, Working, LoopOps
  <2>3. l.obj \in Objects /\ object[l.obj] # Nil /\ l.url \in Urls /\ l.idx \in Nat
    BY <1>1, <2>2 DEF Sound, Local
  <2>4. object[l.obj].len \in Nat
    BY <1>2, <2>3, SliceFacts
  <2>5. l.idx \in 1 .. object[l.obj].len
    BY <2>1, <2>2, <2>3, <2>4 DEF InRange
  <2>6. QED
    BY <2>1, <2>3, <2>5, PokeKeeps, PokesAreCalls
<1>8. CASE Finish(p)
  <2>1. l.sid \in ScenarioIds /\ l.op \in LoopOps
    BY <1>1, <1>8 DEF Finish, At, OpsAt, Sound, Working
  <2>2. \/ \E status \in Statuses : UpdateScenarioStatus(l.sid, status)
        \/ DeleteScenario(l.sid)
    BY <1>2, <1>8, <2>1 DEF Finish, LoopOps
  <2>3. QED
    BY <2>1, <2>2, RelabelKeeps, DeleteScenarioKeeps, RelabelsAreCalls
<1>9. CASE RemoveAdapter(p)
  <2>1. l.sid \in ScenarioIds /\ DeleteAdapter(l.sid, l.aid)
    BY <1>1, <1>9 DEF RemoveAdapter, At, OpsAt, Sound, Working, AdapterOps
  <2>2. HeapInv' /\ KeepsCells
    BY <2>1, DeleteAdapterKeeps, DeleteAdapterInv DEF HeapInv
  <2>3. QED
    BY <1>2, <2>1, <2>2, MethodsAreCalls
<1>10. CASE Write(p)
  <2>1. /\ l.op = "updateAdapter" /\ l.sid \in ScenarioIds
        /\ l.name \in Names \cup {Nil} /\ l.key \in Keys
        /\ At(p, "write") /\ UpdateAdapter(l.sid, l.aid, l.name, l.key)
    BY <1>1, <1>10 DEF Write, At, OpsAt, Sound, Working, AdapterOps, Local
  <2>2. p \in Reqs
    BY <1>1, <2>1, ControlPlaneAssumption DEF Sound, Processes, AllOps
  <2>3. HeapInv' /\ KeepsCells
    BY <2>1, RewritingKeeps
  <2>4. QED
    BY <2>1, <2>2, <2>3 DEF StoreCall
<1>11. QED
  BY <1>3, <1>4, <1>5, <1>6, <1>7, <1>8, <1>9, <1>10
  DEF Continue, Pick, CreateDeployment, CreateService, Expose, Check, Scale,
      RemoveDeployment, RemoveService, Reread, RemoveRule, ReadKey, SweepTheRest,
      LocalOnly, ClusterOnly

LEMMA AddedAdapter ==
    ASSUME NEW sid \in ScenarioIds, NEW name \in Names, NEW type \in Types,
           NEW n \in Seconds, NEW k \in RequestKeys(type, Nil)
    PROVE  LET id  == NewAdapterId(sid, type, n)
               key == IF type = Sftp /\ k = Nil THEN id ELSE k
           IN  /\ key \in RequestKeys(type, id)
               /\ NewAdapter(id, name, type, key) \in AdapterRecord
               /\ ~LocalMode => NewAdapter(id, name, type, key).id[1] = sid
<1> DEFINE id  == NewAdapterId(sid, type, n)
           key == IF type = Sftp /\ k = Nil THEN id ELSE k
<1>1. id \in AdapterIds
  BY NewAdapterIdType
<1>2. key \in RequestKeys(type, id)
  BY DEF RequestKeys
<1>3. key \in Keys
  BY <1>1, <1>2 DEF RequestKeys, Keys
<1>4. ~LocalMode => id[1] = sid
  BY DEF NewAdapterId
<1>5. NewAdapter(id, name, type, key).id = id
  BY DEF NewAdapter
<1>6. QED
  BY <1>1, <1>2, <1>3, <1>4, <1>5, NewAdapterType

LEMMA OneStepStore ==
    ASSUME HeapInv, clock \in Seconds, OneStep
    PROVE  HeapInv' /\ KeepsCells /\ StoreCall
<1>1. StoreInv
  BY DEF HeapInv
<1>2. ASSUME NEW g \in GithubIds, LoadOrSkip(g)
      PROVE  HeapInv' /\ KeepsCells /\ StoreCall
  BY <1>2, LoadGitHubScenarioKeeps, UnchangedKeeps DEF LoadOrSkip, StoreCall, StoreNext
<1>3. CASE HandleCreateScenario
  <2>1. clock \in ScenarioIds /\ CreateScenario(clock)
    BY <1>3 DEF HandleCreateScenario, ScenarioIds
  <2>2. QED
    BY <2>1, CreateScenarioKeeps DEF StoreCall, StoreNext, ScenarioStep
<1>4. ASSUME NEW sid \in ScenarioIds, HandleUpdateScenario(sid)
      PROVE  HeapInv' /\ KeepsCells /\ StoreCall
  <2>1. UpdateScenario(sid) /\ "stopped" \in Statuses
    BY <1>4 DEF HandleUpdateScenario, Statuses
  <2>2. QED
    BY <2>1, RelabelKeeps, RelabelsAreCalls
<1>5. ASSUME NEW src \in ScenarioIds, HandleClone(src)
      PROVE  HeapInv' /\ KeepsCells /\ StoreCall
  <2>1. clock \in ScenarioIds /\ CloneScenario(src, clock)
    BY <1>5 DEF HandleClone, ScenarioIds
  <2>2. QED
    BY <2>1, CloneScenarioKeeps DEF StoreCall, StoreNext, ScenarioStep
<1>6. ASSUME NEW sid \in ScenarioIds, NEW name \in Names, NEW type \in Types,
             NEW k \in RequestKeys(type, Nil), HandleAddAdapter(sid, name, type, k)
      PROVE  HeapInv' /\ KeepsCells /\ StoreCall
  <2> DEFINE id  == NewAdapterId(sid, type, clock)
             key == IF type = Sftp /\ k = Nil THEN id ELSE k
             x   == NewAdapter(id, name, type, key)
  <2>1. /\ key \in RequestKeys(type, id) /\ x \in AdapterRecord
        /\ ~LocalMode => x.id[1] = sid
    BY AddedAdapter
  <2>2. AddAdapter(sid, x)
    BY <1>6 DEF HandleAddAdapter
  <2>3. HeapInv' /\ KeepsCells
    <3> HIDE DEF x
    <3>1. QED
      BY <2>1, <2>2, AddAdapterKeeps
  <2>4. ScenarioStep
    <3>1. \E k2 \in RequestKeys(type, id) : AddAdapter(sid, NewAdapter(id, name, type, k2))
      <4> HIDE DEF key, id
      <4>1. QED
        BY <2>1, <2>2
    <3>2. QED
      BY <3>1 DEF ScenarioStep
  <2>5. QED
    BY <2>3, <2>4 DEF StoreCall, StoreNext
<1>7. ASSUME NEW id, HandleAdapterActivity(id)
      PROVE  HeapInv' /\ KeepsCells /\ StoreCall
  BY <1>1, <1>7, RewritingKeeps, ActivityIsACall DEF HandleAdapterActivity
<1>8. QED
  BY <1>2, <1>3, <1>4, <1>5, <1>6, <1>7 DEF OneStep, Scenarios

-----------------------------------------------------------------------------
(* What the steps do to the cluster.                                       *)

LEMMA CallsKeepTypes ==
    ASSUME ClusterTypeOK, NEW x \in AdapterRecord,
           \/ \E ok \in BOOLEAN : \/ CreateAdapterDeployment(x, ok)
                                  \/ CreateAdapterService(x, ok)
                                  \/ GetLoadBalancerHostname(x, ok)
                                  \/ CreateAdapterAPIRule(x, ok)
           \/ StopAdapterDeployment(x) \/ DeleteDeployment(x) \/ DeleteService(x)
           \/ DeleteAdapterAPIRule(x)
    PROVE  ClusterTypeOK'
<1>1. /\ x.id \in AdapterIds /\ x.dep \in Names /\ x.name \in Names
      /\ [owner |-> x.id, replicas |-> 1] \in Deployment
  BY DEF AdapterRecord, Deployment
<1>2. ASSUME NEW S, NEW objs \in [Names -> S \cup {Nil}], NEW n \in Names,
             NEW v \in S, NEW ok \in BOOLEAN
      PROVE  Created(objs, n, v, ok) \subseteq [Names -> S \cup {Nil}]
  BY DEF Created
<1>3. ASSUME NEW S, NEW objs \in [Names -> S \cup {Nil}], NEW n \in Names
      PROVE  Removed(objs, n) \subseteq [Names -> S \cup {Nil}]
  BY DEF Removed
<1>4. ASSUME NEW ok \in BOOLEAN, CreateAdapterDeployment(x, ok)
      PROVE  ClusterTypeOK'
  BY <1>1, <1>2, <1>4 DEF CreateAdapterDeployment, ClusterTypeOK
<1>5. ASSUME NEW ok \in BOOLEAN, CreateAdapterService(x, ok)
      PROVE  ClusterTypeOK'
  BY <1>1, <1>2, <1>5 DEF CreateAdapterService, ClusterTypeOK
<1>6. ASSUME NEW ok \in BOOLEAN, CreateAdapterAPIRule(x, ok)
      PROVE  ClusterTypeOK'
  BY <1>1, <1>2, <1>6 DEF CreateAdapterAPIRule, ClusterTypeOK
<1>7. ASSUME NEW ok \in BOOLEAN, GetLoadBalancerHostname(x, ok)
      PROVE  ClusterTypeOK'
  BY <1>7 DEF GetLoadBalancerHostname, ClusterTypeOK, clusterVars
<1>8. CASE StopAdapterDeployment(x)
  <2>1. CASE deployments[x.dep] # Nil
             /\ deployments' = [deployments EXCEPT ![x.dep].replicas = 0]
    <3> DEFINE d == [deployments[x.dep] EXCEPT !.replicas = 0]
    <3>1. d \in Deployment
      BY <1>1, <2>1 DEF ClusterTypeOK, Deployment
    <3>2. deployments' = [deployments EXCEPT ![x.dep] = d]
      BY <2>1
    <3> HIDE DEF d
    <3>3. QED
      BY <1>1, <1>8, <3>1, <3>2 DEF ClusterTypeOK, StopAdapterDeployment
  <2>2. CASE UNCHANGED deployments
    BY <1>8, <2>2 DEF ClusterTypeOK, StopAdapterDeployment
  <2>3. QED
    BY <1>8, <2>1, <2>2 DEF StopAdapterDeployment
<1>9. CASE DeleteDeployment(x)
  BY <1>1, <1>3, <1>9 DEF DeleteDeployment, ClusterTypeOK
<1>10. CASE DeleteService(x)
  BY <1>1, <1>3, <1>10 DEF DeleteService, ClusterTypeOK
<1>11. CASE DeleteAdapterAPIRule(x)
  BY <1>1, <1>3, <1>11 DEF DeleteAdapterAPIRule, ClusterTypeOK
<1>12. QED
  BY <1>4, <1>5, <1>6, <1>7, <1>8, <1>9, <1>10, <1>11

LEMMA SweepsKeepTypes ==
    ASSUME ClusterTypeOK, SweepDeployments \/ SweepServices \/ SweepAPIRules
    PROVE  ClusterTypeOK'
<1>1. ASSUME NEW S, NEW objs \in [Names -> S \cup {Nil}]
      PROVE  Swept(objs) \subseteq [Names -> S \cup {Nil}]
  BY DEF Swept
<1>2. QED
  BY <1>1 DEF ClusterTypeOK, SweepDeployments, SweepServices, SweepAPIRules

LEMMA ContinueCluster ==
    ASSUME LocalsInv, ClusterTypeOK, NEW p \in Processes, Continue(p)
    PROVE  ClusterTypeOK'
<1> DEFINE x == local[p].cur
<1>1. local[p] \in Local /\ Sound(p, local[p])
  BY DEF LocalsInv
<1>2. ASSUME local[p].pc \in Calls
      PROVE  x \in AdapterRecord
  BY <1>1, <1>2 DEF Sound, Local
<1>3. CASE UNCHANGED clusterVars
  BY <1>3 DEF clusterVars, ClusterTypeOK
<1>4. CASE CreateDeployment(p) \/ CreateService(p) \/ Expose(p)
  <2>1. local[p].pc \in Calls
    BY <1>4 DEF CreateDeployment, CreateService, Expose, At, Calls
  <2>2. QED
    BY <1>2, <1>4, <2>1, CallsKeepTypes DEF CreateDeployment, CreateService, Expose
<1>5. CASE Scale(p) \/ RemoveDeployment(p) \/ RemoveService(p) \/ RemoveRule(p)
  <2>1. local[p].pc \in Calls
    BY <1>5 DEF Scale, RemoveDeployment, RemoveService, RemoveRule, At, Calls
  <2>2. QED
    BY <1>2, <1>5, <2>1, CallsKeepTypes
    DEF Scale, RemoveDeployment, RemoveService, RemoveRule
<1>6. CASE SweepTheRest(p)
  BY <1>6, SweepsKeepTypes DEF SweepTheRest
<1>7. QED
  BY <1>3, <1>4, <1>5, <1>6
  DEF Continue, Pick, MarkRunning, SetUrl, WriteStatus, WriteUrl, Check,
      MarkStopped, Reread, RemoveAdapter, ReadKey, Write, Finish, LocalOnly, StoreOnly

-----------------------------------------------------------------------------
(* The rest of the state.                                                  *)

LEMMA InUseNowType ==
    ASSUME StoreInv
    PROVE  InUseNow \subseteq AdapterIds
<1>1. \A sid \in Scenarios : \A i \in Positions(sid) : AdapterAt(sid, i).id \in AdapterIds
  BY LookupFacts DEF Scenarios, AdapterRecord
<1>2. QED
  BY <1>1 DEF InUseNow

LEMMA SecondsGoOn ==
    ASSUME clock \in Seconds, UseSecond
    PROVE  clock' \in Seconds
BY ConstantsAssumption DEF UseSecond, Seconds

LEMMA SpendingCounts ==
    ASSUME CountersInv, issued' = issued \/ \E op : Spend(op)
    PROVE  issued' \in 0 .. MaxRequests
BY ControlPlaneAssumption DEF CountersInv, Spend

LEMMA OneStepCounters ==
    ASSUME CountersInv, OneStep
    PROVE  CountersInv'
<1>1. ASSUME NEW g \in GithubIds, LoadOrSkip(g)
      PROVE  CountersInv'
  BY <1>1 DEF LoadOrSkip, CountersInv
<1>2. ASSUME HandleCreateScenario
      PROVE  CountersInv'
  BY <1>2, SecondsGoOn, SpendingCounts
  DEF HandleCreateScenario, Issue, CountersInv, Remember
<1>3. ASSUME NEW sid, HandleUpdateScenario(sid) \/ HandleClone(sid)
      PROVE  CountersInv'
  BY <1>3, SecondsGoOn, SpendingCounts
  DEF HandleUpdateScenario, HandleClone, Issue, CountersInv, Remember
<1>4. ASSUME NEW sid, NEW name, NEW type, NEW key, HandleAddAdapter(sid, name, type, key)
      PROVE  CountersInv'
  BY <1>4, SecondsGoOn, SpendingCounts DEF HandleAddAdapter, Issue, CountersInv, Remember
<1>5. ASSUME NEW id, HandleAdapterActivity(id)
      PROVE  CountersInv'
  BY <1>5 DEF HandleAdapterActivity, CountersInv, Remember
<1>6. QED
  BY <1>1, <1>2, <1>3, <1>4, <1>5 DEF OneStep

LEMMA BeginFrame ==
    ASSUME CountersInv, NEW p \in Reqs, Begin(p)
    PROVE  /\ CountersInv' /\ UNCHANGED <<storeVars, snapshot>>
           /\ UNCHANGED clusterVars \/ SweepDeployments
<1>1. ASSUME NEW op, NEW sid, BeginLoop(p, op, sid)
      PROVE  /\ UNCHANGED <<storeVars, clusterVars, snapshot, unloaded, clock, steady>>
             /\ issued' \in 0 .. MaxRequests
  BY <1>1, SpendingCounts DEF BeginLoop, Accept, Issue
<1>2. ASSUME NEW op, NEW sid, NEW id, NEW name, NEW key,
             BeginAdapter(p, op, sid, id, name, key)
      PROVE  /\ UNCHANGED <<storeVars, clusterVars, snapshot, unloaded, clock, steady>>
             /\ issued' \in 0 .. MaxRequests
  BY <1>2, SpendingCounts DEF BeginAdapter, Accept, Issue
<1>3. CASE BeginCleanup(p)
  BY <1>3, SpendingCounts DEF BeginCleanup, Accept, Issue, CountersInv
<1>4. QED
  BY <1>1, <1>2, <1>3 DEF Begin, CountersInv

LEMMA ContinueFrame ==
    ASSUME CountersInv, NEW p \in Processes, Continue(p)
    PROVE  CountersInv' /\ UNCHANGED snapshot
<1>1. UNCHANGED <<snapshot, unloaded, clock, issued>> /\ steady' \subseteq steady
  BY DEF Continue, Pick, CreateDeployment, CreateService, Expose, MarkRunning, SetUrl,
         WriteStatus, WriteUrl, Check, Scale, MarkStopped, RemoveDeployment,
         RemoveService, Reread, RemoveRule, RemoveAdapter, ReadKey, Write,
         SweepTheRest, Finish, LocalOnly, ClusterOnly, StoreOnly, Remember
<1>2. QED
  BY <1>1 DEF CountersInv

LEMMA IdleFrame ==
    ASSUME HeapInv, CountersInv, ListScenarios \/ ChooseScenario \/ Examine
    PROVE  CountersInv' /\ UNCHANGED <<storeVars, clusterVars>>
<1>1. CASE ListScenarios
  BY <1>1, InUseNowType DEF ListScenarios, CountersInv, HeapInv
<1>2. CASE ChooseScenario
  BY <1>2 DEF ChooseScenario, CountersInv
<1>3. CASE Examine
  BY <1>3 DEF Examine, LocalOnly, CountersInv
<1>4. QED
  BY <1>1, <1>2, <1>3

LEMMA RestartEmpties ==
    ASSUME ClusterTypeOK, CountersInv, Restart
    PROVE  SystemInv'
<1>1. HeapInv' /\ ClusterTypeOK'
  BY EmptyHeap DEF Restart, ClusterTypeOK, clusterVars
<1>2. CountersInv'
  BY SpendingCounts DEF Restart, CountersInv
<1>3. SnapshotInv'
  BY DEF Restart, SnapshotInv
<1>4. local' = [p \in Processes |-> Ready]
  BY DEF Restart
<1>5. ASSUME NEW p \in Processes
      PROVE  Ready \in Local /\ Sound(p, Ready)'
  <2>1. Ready.op = Nil /\ Ready.pc = "ready" /\ Ready.arr = NoArray
    BY DEF Ready
  <2>2. Ready \in Local /\ Sound(p, Ready)
    BY ReadySound
  <2>3. Nil \notin AdapterOps /\ Nil # "launch"
    BY ControlPlaneAssumption DEF AllOps, AdapterOps
  <2>4. QED
    BY <2>1, <2>2, <2>3 DEF Sound
<1>6. LocalsInv'
  BY <1>4, <1>5 DEF LocalsInv
<1>7. QED
  BY <1>1, <1>2, <1>3, <1>6 DEF SystemInv

-----------------------------------------------------------------------------
(* SystemInv is inductive.                                                 *)

LEMMA InitSystemInv == Init => SystemInv
<1> SUFFICES ASSUME Init
             PROVE  SystemInv
  OBVIOUS
<1>1. HeapInv
  BY EmptyInv DEF Init, StoreInit, HeapInv, Homes, Holds
<1>2. ClusterTypeOK
  BY DEF Init, ClusterInit, ClusterTypeOK
<1>3. LocalsInv
  BY ReadySound DEF Init, LocalsInv
<1>4. SnapshotInv
  BY DEF Init, SnapshotInv
<1>5. CountersInv
  BY ConstantsAssumption, ControlPlaneAssumption DEF Init, CountersInv, Seconds
<1>6. QED
  BY <1>1, <1>2, <1>3, <1>4, <1>5 DEF SystemInv

(* The parts the steps of one process keep, and what they do to the store. *)
LEMMA ProcessStep ==
    ASSUME SystemInv, NEW p \in Processes,
           \/ p \in Reqs /\ Begin(p)
           \/ Continue(p)
           \/ p = Idle /\ (ListScenarios \/ ChooseScenario \/ Examine)
    PROVE  /\ Moves(p) /\ HeapInv' /\ KeepsCells /\ StoreCall
           /\ ClusterTypeOK' /\ SnapshotInv' /\ CountersInv'
<1>1. HeapInv /\ ClusterTypeOK /\ LocalsInv /\ SnapshotInv /\ CountersInv
  BY DEF SystemInv
<1>2. CASE p \in Reqs /\ Begin(p)
  <2>1. /\ CountersInv' /\ UNCHANGED <<storeVars, snapshot>>
        /\ UNCHANGED clusterVars \/ SweepDeployments
    BY <1>1, <1>2, BeginFrame
  <2>2. HeapInv' /\ KeepsCells /\ StoreCall
    BY <1>1, <2>1, UnchangedKeeps DEF StoreCall
  <2>3. ClusterTypeOK'
    BY <1>1, <2>1, SweepsKeepTypes DEF ClusterTypeOK, clusterVars
  <2>4. QED
    BY <1>1, <1>2, <2>1, <2>2, <2>3, BeginMoves, SnapshotStays
<1>3. CASE Continue(p)
  <2>1. CountersInv' /\ snapshot' \subseteq snapshot
    BY <1>1, <1>3, ContinueFrame
  <2>2. HeapInv' /\ KeepsCells /\ StoreCall
    BY <1>1, <1>3, ContinueStore
  <2>3. QED
    BY <1>1, <1>3, <2>1, <2>2, ContinueMoves, ContinueCluster, SnapshotStays
<1>4. CASE p = Idle /\ (ListScenarios \/ ChooseScenario \/ Examine)
  <2>1. CountersInv' /\ UNCHANGED <<storeVars, clusterVars>>
    BY <1>1, <1>4, IdleFrame
  <2>2. HeapInv' /\ KeepsCells /\ StoreCall
    BY <1>1, <2>1, UnchangedKeeps DEF StoreCall
  <2>3. ClusterTypeOK'
    BY <1>1, <2>1 DEF ClusterTypeOK, clusterVars
  <2>4. Moves(Idle)
    BY <1>1, <1>4, ListScenariosFacts, ChooseScenarioMoves, ExamineMoves
  <2>5. ListScenarios => SnapshotInv'
    BY <1>1, ListScenariosFacts
  <2>6. ASSUME ChooseScenario \/ Examine
        PROVE  SnapshotInv'
    <3>1. snapshot' \subseteq snapshot
      BY <2>6 DEF ChooseScenario, Examine, LocalOnly
    <3>2. QED
      BY <1>1, <2>2, <3>1, SnapshotStays
  <2>7. SnapshotInv'
    BY <1>4, <2>5, <2>6
  <2>8. QED
    BY <1>4, <2>1, <2>2, <2>3, <2>4, <2>7
<1>5. QED
  BY <1>2, <1>3, <1>4

LEMMA SystemStep ==
    ASSUME SystemInv, [Next]_vars
    PROVE  SystemInv' /\ StoreCall
<1>1. HeapInv /\ ClusterTypeOK /\ LocalsInv /\ SnapshotInv /\ CountersInv
  BY DEF SystemInv
<1>2. ASSUME HeapInv', KeepsCells, UNCHANGED local, ClusterTypeOK', CountersInv',
             UNCHANGED snapshot
      PROVE  SystemInv'
  BY <1>1, <1>2, LocalsStay, SnapshotStays DEF SystemInv
<1>3. CASE UNCHANGED vars
  <2>1. UNCHANGED <<storeVars, clusterVars, local, snapshot, unloaded, clock, issued, steady>>
    BY <1>3 DEF vars, controlVars
  <2>2. HeapInv' /\ KeepsCells /\ StoreCall
    BY <1>1, <2>1, UnchangedKeeps DEF StoreCall
  <2>3. ClusterTypeOK' /\ CountersInv'
    BY <1>1, <2>1 DEF ClusterTypeOK, clusterVars, CountersInv
  <2>4. QED
    BY <1>2, <2>1, <2>2, <2>3
<1>4. CASE OneStep
  <2>1. UNCHANGED <<clusterVars, local, snapshot>>
    BY <1>4 DEF OneStep, LoadOrSkip, HandleCreateScenario, HandleUpdateScenario,
                HandleClone, HandleAddAdapter, HandleAdapterActivity
  <2>2. HeapInv' /\ KeepsCells /\ StoreCall /\ CountersInv'
    BY <1>1, <1>4, OneStepStore, OneStepCounters DEF CountersInv
  <2>3. ClusterTypeOK'
    BY <1>1, <2>1 DEF ClusterTypeOK, clusterVars
  <2>4. QED
    BY <1>2, <2>1, <2>2, <2>3
<1>5. ASSUME NEW p \in Processes,
             \/ p \in Reqs /\ Begin(p)
             \/ Continue(p)
             \/ p = Idle /\ (ListScenarios \/ ChooseScenario \/ Examine)
      PROVE  SystemInv' /\ StoreCall
  <2>1. /\ Moves(p) /\ HeapInv' /\ KeepsCells /\ StoreCall
        /\ ClusterTypeOK' /\ SnapshotInv' /\ CountersInv'
    BY <1>5, ProcessStep
  <2>2. LocalsInv'
    BY <1>1, <2>1, MoveKeepsLocals
  <2>3. QED
    BY <2>1, <2>2 DEF SystemInv
<1>6. CASE Wait
  <2>1. /\ TimePasses /\ steady' \subseteq steady
        /\ UNCHANGED <<clusterVars, local, snapshot, unloaded, clock, issued>>
    BY <1>6 DEF Wait, Remember
  <2>2. HeapInv' /\ KeepsCells /\ StoreCall
    BY <1>1, <2>1, TimePassesKeeps DEF StoreCall, StoreNext
  <2>3. ClusterTypeOK' /\ CountersInv'
    BY <1>1, <2>1 DEF ClusterTypeOK, clusterVars, CountersInv
  <2>4. QED
    BY <1>2, <2>1, <2>2, <2>3
<1>7. CASE Restart
  BY <1>1, <1>7, RestartEmpties DEF StoreCall, StoreNext, Restart
<1>8. QED
  BY <1>3, <1>4, <1>5, <1>6, <1>7 DEF Next, IdleStep, Processes

-----------------------------------------------------------------------------
(* What follows from it.                                                   *)

(* However requests, the idle check, failing calls and restarts interleave *)
(* the heap is well formed and every process holds what is good to read.   *)
THEOREM SystemInvariant == Spec => []SystemInv
<1>1. SystemInv /\ [Next]_vars => SystemInv'
  BY SystemStep
<1>2. QED
  BY <1>1, InitSystemInv, PTL DEF Spec

(* Every variable of the control plane has its type: no handler comes by a *)
(* nil or foreign value through the memory it shares with the others.      *)
THEOREM ControlPlaneTypeCorrect == Spec => []TypeOK
<1>1. SystemInv => TypeOK
  BY DEF SystemInv, HeapInv, StoreInv, LocalsInv, SnapshotInv, CountersInv, TypeOK
<1>2. QED
  BY <1>1, SystemInvariant, PTL

(* Handlers that keep pointers and write through them without the mutex do *)
(* not make slices overlap, reach past their arrays or show empty slots.   *)
THEOREM HandlersKeepSliceShape == Spec => [](SliceShape /\ NoAliasing)
<1>1. SystemInv => SliceShape /\ NoAliasing
  BY DEF SystemInv, HeapInv, StoreInv
<1>2. QED
  BY <1>1, SystemInvariant, PTL

(* Each step of the control plane is, for the store, one call of a method, *)
(* or one write through a pointer the store gave out that is still good.   *)
THEOREM StoreUsedAsIntended == Spec => StoreSteps
<1>1. SystemInv /\ [Next]_vars
        => [ \/ UNCHANGED storeVars
             \/ StoreNext
             \/ \E p \in Reqs : At(p, "write") /\
                   UpdateAdapter(local[p].sid, local[p].aid, local[p].name, local[p].key)
           ]_storeVars
  BY SystemStep DEF StoreCall
<1>2. QED
  BY <1>1, SystemInvariant, PTL DEF Spec, StoreSteps

(* No step of a handler, stale as its pointers may be, changes adapters of *)
(* two scenarios: what Isolation says of the store alone holds in the      *)
(* whole control plane.                                                    *)
THEOREM HandlersKeepIsolation == Spec => Isolation
<1>1. SystemInv /\ [Next]_vars
        => [ \/ TimePasses
             \/ NewMemoryStore
             \/ \A o, p \in Objects : Changed(o) /\ Changed(p) => o = p ]_storeVars
  <2> SUFFICES ASSUME SystemInv, [Next]_vars, ~ TimePasses, ~ NewMemoryStore,
                      ~ UNCHANGED storeVars
               PROVE  \A o, p \in Objects : Changed(o) /\ Changed(p) => o = p
    OBVIOUS
  <2>1. StoreInv /\ StoreCall /\ local \in [Processes -> Local]
    BY SystemStep DEF SystemInv, HeapInv, LocalsInv
  <2>2. CASE StoreNext
    BY <2>1, <2>2, StoreNextIsolates
  <2>3. ASSUME NEW p \in Reqs, At(p, "write"),
               UpdateAdapter(local[p].sid, local[p].aid, local[p].name, local[p].key)
        PROVE  \A o, q \in Objects : Changed(o) /\ Changed(q) => o = q
    <3>1. p \in Processes /\ Sound(p, local[p])
      BY DEF Processes, SystemInv, LocalsInv
    <3>2. local[p].sid \in ScenarioIds
      BY <2>3, <3>1 DEF Sound, At, OpsAt, Working, AdapterOps
    <3>3. QED
      BY <2>1, <2>3, <3>2, UpdateIsolates
  <2>4. QED
    BY <2>1, <2>2, <2>3 DEF StoreCall
<1>2. QED
  BY <1>1, SystemInvariant, PTL DEF Spec, Isolation

(* A captured slice or pointer never shows an empty slot, nor an adapter   *)
(* of another scenario, whatever was deleted, added, cloned or overwritten *)
(* since it was captured.  (In local mode ids do not name scenarios.)      *)
THEOREM CapturedReadsAreHome == ~LocalMode => (Spec => []CapturedReadsStayHome)
<1>1. ~LocalMode /\ SystemInv => CapturedReadsStayHome
  <2> SUFFICES ASSUME ~LocalMode, SystemInv
               PROVE  CapturedReadsStayHome
    OBVIOUS
  <2>1. ASSUME NEW p \in Processes, NEW x \in Captured(p)
        PROVE  x # Nil /\ x.id[1] = local[p].sid
    <3> DEFINE l == local[p]
    <3>1. l \in Local /\ Sound(p, l) /\ l.arr # NoArray
      BY <2>1 DEF SystemInv, LocalsInv, Captured
    <3>2. CASE l.op \in AdapterOps
      BY <2>1, <3>1, <3>2 DEF Captured, AdapterOps, Sound, Cell
    <3>3. CASE l.op \notin AdapterOps
      <4>1. PICK i \in (IF l.pc = "examine" THEN 1 ELSE l.idx) .. l.len :
              x = array[l.arr][i]
        BY <2>1, <3>1, <3>3 DEF Captured, AdapterOps
      <4>2. l.idx \in Nat /\ l.len \in Nat /\ l.idx >= 1
        BY <3>1 DEF Sound, Local
      <4>3. i \in 1 .. l.len
        BY <4>1, <4>2
      <4>4. QED
        BY <3>1, <3>3, <4>1, <4>3 DEF Sound, Cell
    <3>4. QED
      BY <3>2, <3>3
  <2>2. ASSUME NEW s \in snapshot, NEW i \in 1 .. s.len
        PROVE  array[s.arr][i] # Nil /\ array[s.arr][i].id[1] = s.sid
    <3>1. SoundCopy(s)
      BY DEF SystemInv, SnapshotInv
    <3>2. QED
      BY <2>2, <3>1 DEF SoundCopy, Cell
  <2>3. QED
    BY <2>1, <2>2 DEF CapturedReadsStayHome
<1>2. SUFFICES ASSUME ~LocalMode
               PROVE  Spec => []CapturedReadsStayHome
  OBVIOUS
<1>3. SystemInv => CapturedReadsStayHome
  BY <1>1, <1>2
<1>4. QED
  BY <1>3, SystemInvariant, PTL

-----------------------------------------------------------------------------
(***************************************************************************)
(* Why handlers only reach the deployments of their own scenario.  A       *)
(* handler addresses a deployment by the name in the copy of an adapter it *)
(* holds, and copies may be old.  OneClaim: no name is claimed for two     *)
(* scenarios, counting every claim that may still lead to a deployment --  *)
(* by the deployment itself, by an adapter of the store or one that some   *)
(* process can still see, by a rename on its way, by a file to be loaded.  *)
(***************************************************************************)

(* Name n may be used on behalf of scenario s.                             *)
Claims(n, s) ==
    \/ \E x \in Seen : n \in {x.name, x.dep} /\ s = x.id[1]
    \/ deployments[n] # Nil /\ s = deployments[n].owner[1]
    \/ s \in GithubIds /\ \E i \in 1 .. Len(Manifest[s]) : Manifest[s][i].name = n
    \/ \E p \in Reqs : local[p].name = n /\ local[p].sid = s

OneClaim ==
    \A n \in Names : \A s, t \in ScenarioIds \cup {Nil} :
        Claims(n, s) /\ Claims(n, t) => s = t

(* No two of the files to load have a name in common.                      *)
ManifestNamesDiffer ==
    \A g, h \in GithubIds :
        \A i \in 1 .. Len(Manifest[g]), j \in 1 .. Len(Manifest[h]) :
            Manifest[g][i].name = Manifest[h][j].name => g = h

-----------------------------------------------------------------------------
(* The slots that can be seen: those of the store's slices, those that a   *)
(* process holds a slice or a pointer of, those the idle check listed.     *)

InStore(a, k) ==
    \E sid \in ScenarioIds : k \in Positions(sid) /\ a = object[catalog[sid]].arr

HeldBy(l) ==
    IF l.op \in AdapterOps THEN {l.idx}
    ELSE (IF l.pc = "examine" THEN 1 ELSE l.idx) .. l.len

Holding(p, a, k) ==
    local[p].arr # NoArray /\ a = local[p].arr /\ k \in HeldBy(local[p])

Listed(a, k) == \E s \in snapshot : a = s.arr /\ k \in 1 .. s.len

Shown(a, k) ==
    \/ InStore(a, k)
    \/ \E p \in Processes : Holding(p, a, k)
    \/ Listed(a, k)

LEMMA InStoreFacts ==
    ASSUME StoreInv, NEW a, NEW k, InStore(a, k)
    PROVE  /\ a \in Arrays /\ k \in 1 .. Len(array[a])
           /\ array[a][k] \in AdapterRecord
<1>1. PICK sid \in ScenarioIds : k \in Positions(sid) /\ a = object[catalog[sid]].arr
  BY DEF InStore
<1> DEFINE o == catalog[sid]
<1>2. /\ o \in Objects /\ object[o] # Nil /\ k \in 1 .. object[o].len
      /\ array[a][k] \in AdapterRecord
  BY <1>1, LookupFacts DEF AdapterAt
<1>3. a \in Arrays /\ object[o].len <= Len(array[a]) /\ object[o].len \in Nat
  BY <1>1, <1>2, SliceFacts
<1>4. array[a] \in Seq(AdapterRecord \cup {Nil})
  BY <1>3 DEF StoreInv, StoreTypeOK
<1>5. QED
  BY <1>2, <1>3, <1>4

LEMMA ShownFacts ==
    ASSUME SystemInv, NEW a, NEW k, Shown(a, k)
    PROVE  /\ a \in Arrays /\ k \in 1 .. Len(array[a])
           /\ array[a][k] \in AdapterRecord
<1>1. StoreInv
  BY DEF SystemInv, HeapInv
<1>2. ASSUME NEW b \in Arrays, NEW i, NEW sid, Cell(b, i, sid)
      PROVE  i \in 1 .. Len(array[b]) /\ array[b][i] \in AdapterRecord
  BY <1>1, <1>2 DEF Cell, StoreInv, StoreTypeOK
<1>3. CASE InStore(a, k)
  BY <1>1, <1>3, InStoreFacts
<1>4. ASSUME NEW p \in Processes, Holding(p, a, k)
      PROVE  a \in Arrays /\ k \in 1 .. Len(array[a]) /\ array[a][k] \in AdapterRecord
  <2> DEFINE l == local[p]
  <2>1. l \in Local /\ Sound(p, l) /\ l.arr # NoArray /\ a = l.arr /\ k \in HeldBy(l)
    BY <1>4 DEF Holding, SystemInv, LocalsInv
  <2>2. a \in Arrays /\ l.idx \in Nat /\ l.len \in Nat /\ l.idx >= 1
    BY <2>1 DEF Local, Sound
  <2>3. CASE l.op \in AdapterOps
    BY <1>2, <2>1, <2>2, <2>3 DEF HeldBy, Sound
  <2>4. CASE l.op \notin AdapterOps
    <3>1. k \in 1 .. l.len
      BY <2>1, <2>2, <2>4 DEF HeldBy
    <3>2. QED
      BY <1>2, <2>1, <2>2, <2>4, <3>1 DEF Sound
  <2>5. QED
    BY <2>3, <2>4
<1>5. ASSUME NEW s \in snapshot, a = s.arr, k \in 1 .. s.len
      PROVE  a \in Arrays /\ k \in 1 .. Len(array[a]) /\ array[a][k] \in AdapterRecord
  <2>1. s \in Snapshot /\ SoundCopy(s)
    BY DEF SystemInv, SnapshotInv
  <2>2. a \in Arrays
    BY <1>5, <2>1 DEF SoundCopy, Snapshot
  <2>3. QED
    BY <1>2, <1>5, <2>1, <2>2 DEF SoundCopy, Arrays, NoArray
<1>6. QED
  BY <1>3, <1>4, <1>5 DEF Shown, Listed

(* Seen, slot by slot.                                                     *)
LEMMA SeenSlots ==
    ASSUME NEW x
    PROVE  x \in Seen <=> \/ \E a, k : Shown(a, k) /\ x = array[a][k]
                          \/ \E p \in Processes : x = local[p].cur /\ x # Nil
<1>1. (\E sid \in ScenarioIds : \E i \in Positions(sid) : x = AdapterAt(sid, i))
         <=> \E a, k : InStore(a, k) /\ x = array[a][k]
  BY DEF InStore, AdapterAt
<1>2. ASSUME NEW p \in Processes
      PROVE  x \in Captured(p) <=> \E a, k : Holding(p, a, k) /\ x = array[a][k]
  <2>1. Captured(p) = IF local[p].arr = NoArray THEN {}
                      ELSE {array[local[p].arr][i] : i \in HeldBy(local[p])}
    BY DEF Captured, HeldBy, AdapterOps
  <2>2. QED
    BY <2>1 DEF Holding
<1>3. (\E s \in snapshot : \E i \in 1 .. s.len : x = array[s.arr][i])
         <=> \E a, k : Listed(a, k) /\ x = array[a][k]
  BY DEF Listed
<1>4. x \in Seen <=>
         \/ \E sid \in ScenarioIds : \E i \in Positions(sid) : x = AdapterAt(sid, i)
         \/ \E p \in Processes : x \in Captured(p)
         \/ \E p \in Processes : x = local[p].cur /\ x # Nil
         \/ \E s \in snapshot : \E i \in 1 .. s.len : x = array[s.arr][i]
  <2> DEFINE S == UNION { {AdapterAt(sid, i) : i \in Positions(sid)} : sid \in ScenarioIds }
             H == UNION { Captured(p) \cup ({local[p].cur} \ {Nil}) : p \in Processes }
             L == UNION { {array[s.arr][i] : i \in 1 .. s.len} : s \in snapshot }
  <2>1. x \in S <=> \E sid \in ScenarioIds : \E i \in Positions(sid) : x = AdapterAt(sid, i)
    OBVIOUS
  <2>2. x \in H <=> \/ \E p \in Processes : x \in Captured(p)
                    \/ \E p \in Processes : x = local[p].cur /\ x # Nil
    OBVIOUS
  <2>3. x \in L <=> \E s \in snapshot : \E i \in 1 .. s.len : x = array[s.arr][i]
    OBVIOUS
  <2>4. Seen = S \cup H \cup L
    BY DEF Seen
  <2> HIDE DEF S, H, L
  <2>5. QED
    BY <2>1, <2>2, <2>3, <2>4
<1>5. QED
  BY <1>1, <1>2, <1>3, <1>4 DEF Shown

LEMMA SeenType ==
    ASSUME SystemInv, NEW x \in Seen
    PROVE  x \in AdapterRecord
<1>1. ASSUME NEW p \in Processes, x = local[p].cur, x # Nil
      PROVE  x \in AdapterRecord
  BY <1>1 DEF SystemInv, LocalsInv, Local
<1>2. QED
  BY <1>1, SeenSlots, ShownFacts

LEMMA SeenSlotsNext ==
    ASSUME NEW x
    PROVE  x \in Seen' <=> \/ \E a, k : Shown(a, k)' /\ x = array'[a][k]
                           \/ \E p \in Processes : x = local'[p].cur /\ x # Nil
<1>1. \A y : y \in Seen <=> \/ \E a, k : Shown(a, k) /\ y = array[a][k]
                            \/ \E p \in Processes : y = local[p].cur /\ y # Nil
  BY SeenSlots
<1>2. (\A y : y \in Seen <=> \/ \E a, k : Shown(a, k) /\ y = array[a][k]
                             \/ \E p \in Processes : y = local[p].cur /\ y # Nil)'
  BY <1>1, PTL
<1>3. QED
  BY <1>2

-----------------------------------------------------------------------------
(* A step whose claims are old ones, or for names that nobody claimed and  *)
(* for one scenario, keeps claims apart.                                   *)

(* The claims of adapter x are old or for home, at names of F.             *)
Says(x, F, home) ==
    \A m \in {x.name, x.dep} : Claims(m, x.id[1]) \/ (m \in F /\ x.id[1] = home)

LEMMA SeenSays ==
    ASSUME NEW x \in Seen, NEW F, NEW home
    PROVE  Says(x, F, home)
BY DEF Says, Claims

LEMMA StepKeepsClaims ==
    ASSUME OneClaim, NEW F, NEW home,
           \A m \in F : \A s : ~ Claims(m, s),
           \A a, k : Shown(a, k)' => Says(array'[a][k], F, home),
           \A p \in Processes : local'[p].cur # Nil => Says(local'[p].cur, F, home),
           \A p \in Reqs : local'[p].name \in Names =>
              \/ Claims(local'[p].name, local'[p].sid)
              \/ local'[p].name \in F /\ local'[p].sid = home,
           \A n \in Names : deployments'[n] # Nil => Claims(n, deployments'[n].owner[1])
    PROVE  OneClaim'
<1>1. ASSUME NEW x \in Seen'
      PROVE  Says(x, F, home)
  BY SeenSlotsNext
<1>2. ASSUME NEW n \in Names, NEW s, Claims(n, s)'
      PROVE  Claims(n, s) \/ (n \in F /\ s = home)
  <2>1. CASE \E x \in Seen' : n \in {x.name, x.dep} /\ s = x.id[1]
    BY <1>1, <2>1 DEF Says
  <2>2. CASE deployments'[n] # Nil /\ s = deployments'[n].owner[1]
    BY <2>2
  <2>3. CASE s \in GithubIds /\ \E i \in 1 .. Len(Manifest[s]) : Manifest[s][i].name = n
    BY <2>3 DEF Claims
  <2>4. CASE \E p \in Reqs : local'[p].name = n /\ local'[p].sid = s
    BY <2>4
  <2>5. QED
    BY <1>2, <2>1, <2>2, <2>3, <2>4 DEF Claims
<1>3. QED
  BY <1>2 DEF OneClaim

-----------------------------------------------------------------------------
(* What a process in the middle of a request can see afterwards.           *)

LEMMA SetFacts ==
    ASSUME local \in [Processes -> Local], NEW p \in Processes, NEW m, Set(p, m)
    PROVE  local'[p] = m /\ \A q \in Processes \ {p} : local'[q] = local[q]
BY DEF Set

(* It has let go of everything, or goes on with the same slice or pointer. *)
LetsGo(p) == local'[p].arr = NoArray /\ local'[p].cur = Nil /\ local'[p].name = Nil

GoesOn(p) ==
    /\ local'[p].op = local[p].op /\ local'[p].sid = local[p].sid
    /\ local'[p].arr = local[p].arr /\ local'[p].len = local[p].len
    /\ local'[p].name = local[p].name
    /\ \/ local'[p].idx = local[p].idx
       \/ local[p].op \notin AdapterOps /\ local'[p].idx = local[p].idx + 1
    /\ local'[p].cur \in {Nil, local[p].cur} \/ local'[p].cur \in Seen
    /\ local[p].pc # "examine" /\ local'[p].pc # "examine"

LEMMA CurrentSeen ==
    ASSUME NEW p \in Processes, local[p].arr # NoArray,
           local[p].op \in AdapterOps \/ (Ranging(local[p]) /\ local[p].idx \in Nat
                                          /\ local[p].len \in Nat /\ local[p].pc # "examine")
    PROVE  Current(p) \in Seen
<1>1. local[p].idx \in HeldBy(local[p])
  BY DEF HeldBy, Ranging
<1>2. Shown(local[p].arr, local[p].idx)
  BY <1>1 DEF Shown, Holding
<1>3. QED
  BY <1>2, SeenSlots DEF Current

LEMMA ContinueLocal ==
    ASSUME SystemInv, NEW p \in Processes, Continue(p)
    PROVE  /\ LetsGo(p) \/ GoesOn(p)
           /\ \A q \in Processes \ {p} : local'[q] = local[q]
<1> DEFINE l == local[p]
<1>1. /\ local \in [Processes -> Local] /\ l \in Local /\ Sound(p, l)
      /\ l.idx \in Nat /\ l.len \in Nat
  BY DEF SystemInv, LocalsInv, Local
<1>2. \A q \in Processes \ {p} : local'[q] = local[q]
  <2>1. \E m : Set(p, m)
    BY <1>1, ContinueMoves DEF Moves, SystemInv
  <2>2. QED
    BY <1>1, <2>1, SetFacts
<1>3. l.pc # "examine"
  BY DEF Continue, At, Pick, CreateDeployment, CreateService, Expose, MarkRunning, SetUrl,
         WriteStatus, WriteUrl, Check, Scale, MarkStopped, RemoveDeployment,
         RemoveService, Reread, RemoveRule, RemoveAdapter, ReadKey, Write,
         SweepTheRest, Finish
<1>4. CASE Respond(p)
  BY <1>1, <1>2, <1>4, SetFacts DEF Respond, Ready, LetsGo
<1>5. CASE Set(p, [Ready EXCEPT !.op = "idle", !.pc = "choose"])
  <2> DEFINE m == [Ready EXCEPT !.op = "idle", !.pc = "choose"]
  <2>1. m.arr = NoArray /\ m.cur = Nil /\ m.name = Nil
    BY DEF Ready
  <2> HIDE DEF m
  <2>2. local'[p] = m
    BY <1>1, <1>5, SetFacts DEF m
  <2>3. QED
    BY <1>2, <2>1, <2>2 DEF LetsGo
<1>6. ASSUME NEW pc, pc # "examine", Goto(p, pc)
      PROVE  GoesOn(p)
  <2> DEFINE m == [l EXCEPT !.pc = pc]
  <2>1. /\ m.op = l.op /\ m.sid = l.sid /\ m.arr = l.arr /\ m.len = l.len
        /\ m.name = l.name /\ m.idx = l.idx /\ m.cur = l.cur /\ m.pc = pc
    BY <1>1 DEF Local
  <2>2. Set(p, m)
    BY <1>6 DEF Goto
  <2> HIDE DEF m
  <2>3. local'[p] = m
    BY <1>1, <2>2, SetFacts
  <2>4. QED
    BY <1>3, <1>6, <2>1, <2>3 DEF GoesOn
<1>7. ASSUME NextAdapter(p), l.op \notin AdapterOps
      PROVE  GoesOn(p)
  <2> DEFINE m == [l EXCEPT !.pc = "pick", !.idx = @ + 1,
                            !.aid = Nil, !.cur = Nil, !.url = "none"]
  <2>1. /\ m.op = l.op /\ m.sid = l.sid /\ m.arr = l.arr /\ m.len = l.len
        /\ m.name = l.name /\ m.idx = l.idx + 1 /\ m.cur = Nil /\ m.pc = "pick"
    BY <1>1 DEF Local
  <2>2. Set(p, m)
    BY <1>7 DEF NextAdapter
  <2> HIDE DEF m
  <2>3. local'[p] = m
    BY <1>1, <2>2, SetFacts
  <2>4. QED
    BY <1>3, <1>7, <2>1, <2>3 DEF GoesOn
<1>8. CASE Pick(p)
  <2>1. l.op \notin AdapterOps
    BY <1>1, <1>8 DEF Sound, Pick, At, OpsAt, LoopOps, AdapterOps
  <2>2. CASE Goto(p, "finish") \/ NextAdapter(p)
    BY <1>2, <1>6, <1>7, <2>1, <2>2
  <2>3. CASE ~ (Goto(p, "finish") \/ NextAdapter(p))
    <3> DEFINE m == [l EXCEPT !.pc = FirstStep(l.op), !.cur = Current(p),
                              !.aid = Current(p).id,
                              !.url = IF LocalMode THEN "local" ELSE "none"]
    <3>1. Set(p, m) /\ Ranging(l) /\ l.arr # NoArray
      BY <1>8, <2>3 DEF Pick, Ranging
    <3>2. Current(p) \in Seen
      BY <1>1, <1>3, <3>1, CurrentSeen
    <3>3. FirstStep(l.op) # "examine"
      BY <1>1, <1>8 DEF FirstStep, Sound, Pick, At, OpsAt, LoopOps
    <3>4. /\ m.op = l.op /\ m.sid = l.sid /\ m.arr = l.arr /\ m.len = l.len
          /\ m.name = l.name /\ m.idx = l.idx /\ m.cur = Current(p)
          /\ m.pc # "examine"
      BY <1>1, <3>3 DEF Local
    <3> HIDE DEF m
    <3>5. local'[p] = m
      BY <1>1, <3>1, SetFacts
    <3>6. QED
      BY <1>2, <1>3, <3>2, <3>4, <3>5 DEF GoesOn
  <2>4. QED
    BY <2>2, <2>3
<1>9. CASE Expose(p)
  <2>1. PICK ok \in BOOLEAN : Set(p, [l EXCEPT !.pc = "markRunning",
                                        !.url = IF ok THEN "public" ELSE "internal"])
    BY <1>9 DEF Expose
  <2> DEFINE m == [l EXCEPT !.pc = "markRunning", !.url = IF ok THEN "public" ELSE "internal"]
  <2>2. /\ m.op = l.op /\ m.sid = l.sid /\ m.arr = l.arr /\ m.len = l.len
        /\ m.name = l.name /\ m.idx = l.idx /\ m.cur = l.cur /\ m.pc = "markRunning"
    BY <1>1 DEF Local
  <2>3. Set(p, m)
    BY <2>1
  <2> HIDE DEF m
  <2>4. local'[p] = m
    BY <1>1, <2>3, SetFacts
  <2>5. QED
    BY <1>2, <1>3, <2>2, <2>4 DEF GoesOn
<1>10. CASE Check(p) \/ Reread(p) \/ ReadKey(p)
  <2>1. l.op \in AdapterOps /\ l.arr # NoArray
    BY <1>1, <1>10 DEF Sound, Check, Reread, ReadKey, At, OpsAt, AdapterOps
  <2>2. Current(p) \in Seen
    BY <2>1, CurrentSeen
  <2>3. ASSUME NEW m, Set(p, m),
               m.op = l.op, m.sid = l.sid, m.arr = l.arr, m.len = l.len,
               m.name = l.name, m.idx = l.idx, m.pc # "examine",
               m.cur \in {Nil, Current(p)}
        PROVE  GoesOn(p)
    <3>1. local'[p] = m
      BY <1>1, <2>3, SetFacts
    <3>2. QED
      BY <1>3, <2>2, <2>3, <3>1 DEF GoesOn
  <2>4. ASSUME NEW pc, pc # "examine", Set(p, [l EXCEPT !.pc = pc, !.cur = Current(p)])
        PROVE  GoesOn(p)
    <3> DEFINE m == [l EXCEPT !.pc = pc, !.cur = Current(p)]
    <3>1. /\ m.op = l.op /\ m.sid = l.sid /\ m.arr = l.arr /\ m.len = l.len
          /\ m.name = l.name /\ m.idx = l.idx /\ m.cur = Current(p) /\ m.pc = pc
      BY <1>1 DEF Local
    <3>2. Set(p, m)
      BY <2>4
    <3> HIDE DEF m
    <3>3. QED
      BY <2>3, <2>4, <3>1, <3>2
  <2>5. CASE Check(p)
    <3>1. \/ \E pc \in {"remove", "readKey", "markStopped"} : Goto(p, pc)
          \/ \E pc \in {"deleteDeployment", "scale"} :
                Set(p, [[l EXCEPT !.cur = Current(p)] EXCEPT !.pc = pc])
      BY <2>5 DEF Check
    <3>2. ASSUME NEW pc
          PROVE  [[l EXCEPT !.cur = Current(p)] EXCEPT !.pc = pc]
                    = [l EXCEPT !.pc = pc, !.cur = Current(p)]
      BY <1>1 DEF Local
    <3>3. QED
      BY <1>2, <1>6, <2>4, <3>1, <3>2
  <2>6. CASE Reread(p)
    BY <1>2, <2>4, <2>6 DEF Reread
  <2>7. CASE ReadKey(p)
    <3> DEFINE m == [l EXCEPT !.pc = "write", !.cur = Nil,
                              !.key = IF Current(p).type = Sftp /\ l.key = Nil
                                      THEN Current(p).key ELSE l.key]
    <3>1. /\ m.op = l.op /\ m.sid = l.sid /\ m.arr = l.arr /\ m.len = l.len
          /\ m.name = l.name /\ m.idx = l.idx /\ m.cur = Nil /\ m.pc = "write"
      BY <1>1 DEF Local
    <3>2. Set(p, m)
      BY <2>7 DEF ReadKey
    <3> HIDE DEF m
    <3>3. QED
      BY <1>2, <2>3, <3>1, <3>2
  <2>8. QED
    BY <1>10, <2>5, <2>6, <2>7
<1>11. CASE CreateDeployment(p) \/ CreateService(p) \/ MarkRunning(p) \/ SetUrl(p)
            \/ WriteStatus(p) \/ WriteUrl(p) \/ Scale(p) \/ MarkStopped(p)
  <2>1. \/ Respond(p)
        \/ NextAdapter(p) /\ l.op \notin AdapterOps
        \/ \E pc \in {"createService", "expose", "setUrl", "pokeStatus", "pokeUrl",
                      "markStopped", "readKey"} : Goto(p, pc)
    BY <1>1, <1>11 DEF CreateDeployment, CreateService, MarkRunning, SetUrl, AdapterOps,
          WriteStatus, WriteUrl, Scale, MarkStopped, At, OpsAt, Sound
  <2>2. QED
    BY <1>2, <1>4, <1>6, <1>7, <2>1
<1>12. CASE RemoveDeployment(p) \/ RemoveService(p) \/ RemoveRule(p)
            \/ RemoveAdapter(p) \/ Write(p) \/ SweepTheRest(p)
  <2>1. \/ Respond(p)
        \/ NextAdapter(p) /\ l.op \notin AdapterOps
        \/ \E pc \in {"deleteService", "markStopped", "reread", "deleteRule", "remove",
                      "sweepRules"} : Goto(p, pc)
    BY <1>1, <1>12 DEF RemoveDeployment, RemoveService, RemoveRule, AdapterOps,
          RemoveAdapter, Write, SweepTheRest, At, OpsAt, Sound
  <2>2. QED
    BY <1>2, <1>4, <1>6, <1>7, <2>1
<1>13. CASE Finish(p)
  BY <1>4, <1>5, <1>13 DEF Finish
<1>14. QED
  BY <1>8, <1>9, <1>10, <1>11, <1>12, <1>13 DEF Continue

LEMMA ContinueHolds ==
    ASSUME SystemInv, NEW p \in Processes, Continue(p)
    PROVE  /\ \A a, k : Shown(a, k)' => Shown(a, k) \/ InStore(a, k)'
           /\ \A q \in Processes : local'[q].cur # Nil => local'[q].cur \in Seen
           /\ \A q \in Reqs : local'[q].name \in Names =>
                 Claims(local'[q].name, local'[q].sid)
<1>1. LetsGo(p) \/ GoesOn(p)
  BY ContinueLocal
<1>2. \A q \in Processes \ {p} : local'[q] = local[q]
  BY ContinueLocal
<1>3. UNCHANGED snapshot
  BY ContinueFrame DEF SystemInv
<1>4. local[p].idx \in Nat /\ local[p].len \in Nat
  BY DEF SystemInv, LocalsInv, Local
<1>5. ASSUME NEW a, NEW k, NEW q \in Processes, Holding(q, a, k)'
      PROVE  Holding(q, a, k)
  <2>1. CASE q # p
    BY <1>2, <1>5, <2>1 DEF Holding, HeldBy
  <2>2. CASE q = p /\ LetsGo(p)
    BY <1>5, <2>2 DEF Holding, LetsGo
  <2>3. CASE q = p /\ GoesOn(p)
    <3>1. /\ local'[p].arr = local[p].arr /\ a = local[p].arr /\ local[p].arr # NoArray
          /\ k \in HeldBy(local'[p])
      BY <1>5, <2>3 DEF Holding, GoesOn
    <3>2. k \in HeldBy(local[p])
      <4>1. CASE local[p].op \in AdapterOps
        BY <2>3, <3>1, <4>1 DEF HeldBy, GoesOn
      <4>2. CASE local[p].op \notin AdapterOps
        <5>1. k \in local'[p].idx .. local[p].len
          BY <2>3, <3>1, <4>2 DEF HeldBy, GoesOn
        <5>2. local'[p].idx \in {local[p].idx, local[p].idx + 1}
          BY <2>3 DEF GoesOn
        <5>3. k \in local[p].idx .. local[p].len
          BY <1>4, <5>1, <5>2
        <5>4. QED
          BY <2>3, <4>2, <5>3 DEF HeldBy, GoesOn
      <4>3. QED
        BY <4>1, <4>2
    <3>3. QED
      BY <2>3, <3>1, <3>2 DEF Holding
  <2>4. QED
    BY <1>1, <2>1, <2>2, <2>3
<1>6. ASSUME NEW a, NEW k, Shown(a, k)'
      PROVE  Shown(a, k) \/ InStore(a, k)'
  BY <1>3, <1>5, <1>6 DEF Shown, Listed
<1>7. \A q \in Processes : local[q].cur # Nil => local[q].cur \in Seen
  BY SeenSlots
<1>8. ASSUME NEW q \in Processes, local'[q].cur # Nil
      PROVE  local'[q].cur \in Seen
  BY <1>1, <1>2, <1>7, <1>8 DEF LetsGo, GoesOn
<1>9. ASSUME NEW q \in Reqs, local'[q].name \in Names
      PROVE  Claims(local'[q].name, local'[q].sid)
  <2>1. local'[q].name = local[q].name /\ local'[q].sid = local[q].sid
    BY <1>1, <1>2, <1>9, NilAssumption DEF LetsGo, GoesOn, Processes
  <2>2. QED
    BY <2>1 DEF Claims
<1>10. QED
  BY <1>6, <1>8, <1>9

-----------------------------------------------------------------------------
(* What the slots say after the effects on the store.                      *)

(* What could be seen, or can now be found in the store, makes no new      *)
(* claims but those of F.                                                  *)
Speaks(F, home) ==
    \A a, k : Shown(a, k) \/ InStore(a, k)' => Says(array'[a][k], F, home)

LEMMA KeptSpeaks ==
    ASSUME \A a, k : InStore(a, k)' => InStore(a, k),
           \A a, k : Shown(a, k) =>
              \E x \in Seen :
                 /\ array'[a][k].id = x.id /\ array'[a][k].dep = x.dep
                 /\ \/ array'[a][k].name = x.name
                    \/ Claims(array'[a][k].name, x.id[1])
    PROVE  Speaks({}, Nil)
<1>1. ASSUME NEW a, NEW k, Shown(a, k)
      PROVE  Says(array'[a][k], {}, Nil)
  <2>1. PICK x \in Seen :
          /\ array'[a][k].id = x.id /\ array'[a][k].dep = x.dep
          /\ array'[a][k].name = x.name \/ Claims(array'[a][k].name, x.id[1])
    BY <1>1
  <2>2. Says(x, {}, Nil)
    BY SeenSays
  <2>3. QED
    BY <2>1, <2>2 DEF Says
<1>2. QED
  BY <1>1 DEF Speaks, Shown

LEMMA SameArraysSpeak ==
    ASSUME UNCHANGED array, \A a, k : InStore(a, k)' => InStore(a, k)
    PROVE  Speaks({}, Nil)
BY KeptSpeaks, SeenSlots

LEMMA SetSlotSpeaks ==
    ASSUME SystemInv, NEW o \in Objects, object[o] # Nil, NEW i \in 1 .. object[o].len,
           NEW y \in AdapterRecord, SetSlot(o, i, y),
           y.id = array[object[o].arr][i].id, y.dep = array[object[o].arr][i].dep,
           \/ y.name = array[object[o].arr][i].name
           \/ Claims(y.name, y.id[1])
    PROVE  Speaks({}, Nil)
<1> DEFINE a == object[o].arr
<1>1. /\ UNCHANGED <<catalog, object>>
      /\ \A b \in Arrays : \A k \in 1 .. Len(array[b]) :
            array'[b][k] = IF b = a /\ k = i THEN y ELSE array[b][k]
  BY SetSlotEffect DEF SystemInv, HeapInv
<1>2. \A b, k : InStore(b, k)' => InStore(b, k)
  BY <1>1 DEF InStore, Positions, Holds
<1>3. ASSUME NEW b, NEW k, Shown(b, k)
      PROVE  \E x \in Seen :
                /\ array'[b][k].id = x.id /\ array'[b][k].dep = x.dep
                /\ array'[b][k].name = x.name \/ Claims(array'[b][k].name, x.id[1])
  <2>1. b \in Arrays /\ k \in 1 .. Len(array[b])
    BY <1>3, ShownFacts
  <2>2. array[b][k] \in Seen
    BY <1>3, SeenSlots
  <2>3. array'[b][k] = IF b = a /\ k = i THEN y ELSE array[b][k]
    BY <1>1, <2>1
  <2>4. QED
    BY <2>2, <2>3
<1>4. QED
  BY <1>2, <1>3, KeptSpeaks

LEMMA TimePassesSpeaks ==
    ASSUME SystemInv, TimePasses
    PROVE  Speaks({}, Nil)
<1>1. \A b, k : InStore(b, k)' => InStore(b, k)
  BY DEF TimePasses, InStore, Positions, Holds
<1>2. ASSUME NEW x \in AdapterRecord
      PROVE  Aged(x).id = x.id /\ Aged(x).dep = x.dep /\ Aged(x).name = x.name
  BY NilAssumption DEF Aged, AdapterRecord
<1>3. ASSUME NEW a, NEW k, Shown(a, k)
      PROVE  \E x \in Seen :
                /\ array'[a][k].id = x.id /\ array'[a][k].dep = x.dep
                /\ array'[a][k].name = x.name \/ Claims(array'[a][k].name, x.id[1])
  <2>1. a \in Arrays /\ k \in 1 .. Len(array[a]) /\ array[a][k] \in AdapterRecord
    BY <1>3, ShownFacts
  <2>2. array[a][k] \in Seen
    BY <1>3, SeenSlots
  <2>3. array'[a][k] = Aged(array[a][k])
    BY <2>1 DEF TimePasses
  <2>4. QED
    BY <1>2, <2>1, <2>2, <2>3
<1>4. QED
  BY <1>1, <1>3, KeptSpeaks

LEMMA DeleteAdapterSpeaks ==
    ASSUME SystemInv, NEW sid \in ScenarioIds, NEW id, DeleteAdapter(sid, id)
    PROVE  Speaks({}, Nil)
<1>1. CASE UNCHANGED storeVars
  BY <1>1, SameArraysSpeak DEF storeVars, InStore, Positions, Holds
<1>2. CASE ~ UNCHANGED storeVars
  <2> DEFINE o == catalog[sid]
             a == object[o].arr
             n == object[o].len
  <2>0. PICK i \in Positions(sid) : TakenOut(sid, id, i)
    BY <1>2, DeleteAdapterEffect DEF SystemInv, HeapInv
  <2>1. /\ Lookup(sid, id, i)
        /\ UNCHANGED catalog
        /\ o \in Objects /\ object[o] # Nil /\ i \in 1 .. n
        /\ a \in Arrays /\ n \in Nat /\ n <= Len(array[a])
        /\ object' = [object EXCEPT ![o] = [object[o] EXCEPT !.len = n - 1]]
        /\ \A b \in Arrays :
              /\ Len(array'[b]) = Len(array[b])
              /\ \A k \in 1 .. Len(array[b]) :
                    array'[b][k] = IF b = a /\ i <= k /\ k < n
                                   THEN array[b][k + 1] ELSE array[b][k]
    BY <2>0 DEF TakenOut
  <2>2. StoreInv /\ Holds(sid)
    BY DEF SystemInv, HeapInv, Positions
  <2>3. object[o] \in ScenarioStruct /\ object \in [Objects -> ScenarioStruct \cup {Nil}]
        /\ catalog \in [ScenarioIds -> Objects \cup {Nil}]
    BY <2>1, <2>2, SliceFacts DEF StoreInv, StoreTypeOK
  <2>4. \A q \in Objects : /\ object'[q].arr = object[q].arr
                           /\ object'[q].len = IF q = o THEN n - 1 ELSE object[q].len
    BY <2>1, <2>3 DEF ScenarioStruct
  <2>5. ASSUME NEW b, NEW k, InStore(b, k)'
        PROVE  InStore(b, k)
    <3>1. PICK t \in ScenarioIds : /\ catalog[t] # Nil /\ k \in 1 .. object'[catalog[t]].len
                                   /\ b = object'[catalog[t]].arr
      BY <2>1, <2>5 DEF InStore, Positions, Holds
    <3>2. catalog[t] \in Objects
      BY <2>3, <3>1
    <3>3. k \in 1 .. object[catalog[t]].len /\ b = object[catalog[t]].arr
      BY <2>1, <2>4, <3>1, <3>2
    <3>4. QED
      BY <3>1, <3>3 DEF InStore, Positions, Holds
  <2>6. ASSUME NEW b, NEW k, Shown(b, k)
        PROVE  array'[b][k] \in Seen
    <3>1. b \in Arrays /\ k \in 1 .. Len(array[b]) /\ array[b][k] \in Seen
      BY <2>6, ShownFacts, SeenSlots
    <3>2. CASE b = a /\ i <= k /\ k < n
      <4>1. k + 1 \in 1 .. n
        BY <2>1, <3>1, <3>2
      <4>2. InStore(a, k + 1)
        BY <2>2, <4>1 DEF InStore, Positions
      <4>3. array'[b][k] = array[a][k + 1]
        BY <2>1, <3>1, <3>2
      <4>4. QED
        BY <4>2, <4>3, SeenSlots DEF Shown
    <3>3. CASE ~ (b = a /\ i <= k /\ k < n)
      BY <2>1, <3>1, <3>3
    <3>4. QED
      BY <3>2, <3>3
  <2>7. QED
    BY <2>5, <2>6, KeptSpeaks
<1>3. QED
  BY <1>1, <1>2

LEMMA AddAdapterSpeaks ==
    ASSUME SystemInv, NEW sid \in ScenarioIds, Holds(sid), NEW x \in AdapterRecord,
           AddAdapter(sid, x), NEW F, NEW home, Says(x, F, home)
    PROVE  Speaks(F, home)
<1> DEFINE o == catalog[sid]
           e == object[o].arr
           n == object[o].len
<1>1. StoreInv
  BY DEF SystemInv, HeapInv
<1>a. PICK c \in Arrays : Appended(sid, x, c)
  BY <1>1, AddAdapterEffect
<1>2. /\ UNCHANGED catalog
      /\ o \in Objects /\ object[o] # Nil /\ n \in Nat
      /\ object' = [object EXCEPT ![o] = [object[o] EXCEPT !.arr = c, !.len = n + 1]]
      /\ \A b \in Arrays : b # c => array'[b] = array[b]
      /\ c = e \/ array[c] = <<>>
      /\ c = e => /\ Len(array'[c]) = Len(array[c]) /\ n < Len(array[c])
                  /\ \A k \in 1 .. Len(array[c]) : k # n + 1 => array'[c][k] = array[c][k]
      /\ n + 1 \in 1 .. Len(array'[c])
      /\ array'[c][n + 1] = x
      /\ \A k \in 1 .. n : array'[c][k] = array[e][k]
  BY <1>a DEF Appended
<1>3. object[o] \in ScenarioStruct /\ object \in [Objects -> ScenarioStruct \cup {Nil}]
      /\ catalog \in [ScenarioIds -> Objects \cup {Nil}]
  BY <1>1, <1>2, SliceFacts DEF StoreInv, StoreTypeOK
<1>4. /\ object'[o].arr = c /\ object'[o].len = n + 1
      /\ \A q \in Objects : q # o => object'[q] = object[q]
  BY <1>2, <1>3 DEF ScenarioStruct
<1>5. ASSUME NEW a, NEW k, Shown(a, k)
      PROVE  Says(array'[a][k], F, home)
  <2>1. a \in Arrays /\ k \in 1 .. Len(array[a]) /\ array[a][k] \in Seen
    BY <1>5, ShownFacts, SeenSlots
  <2>2. CASE a = c /\ k = n + 1 /\ c = e
    BY <1>2, <2>2
  <2>3. CASE ~ (a = c /\ k = n + 1 /\ c = e)
    <3>1. a = c => c = e
      <4>1. Len(<<>>) = 0
        BY LenProperties
      <4>2. QED
        BY <1>2, <2>1, <4>1
    <3>2. array'[a][k] = array[a][k]
      BY <1>2, <2>1, <2>3, <3>1
    <3>3. QED
      BY <2>1, <3>2, SeenSays
  <2>4. QED
    BY <2>2, <2>3
<1>6. ASSUME NEW a, NEW k, InStore(a, k)'
      PROVE  Says(array'[a][k], F, home)
  <2>1. PICK t \in ScenarioIds : /\ catalog[t] # Nil /\ k \in 1 .. object'[catalog[t]].len
                                 /\ a = object'[catalog[t]].arr
    BY <1>2, <1>6 DEF InStore, Positions, Holds
  <2>2. catalog[t] \in Objects
    BY <1>3, <2>1
  <2>3. CASE catalog[t] # o
    <3>1. InStore(a, k)
      BY <1>4, <2>1, <2>2, <2>3 DEF InStore, Positions, Holds
    <3>2. QED
      BY <1>5, <3>1 DEF Shown
  <2>4. CASE catalog[t] = o
    <3>1. a = c /\ k \in 1 .. (n + 1)
      BY <1>4, <2>1, <2>4
    <3>2. CASE k = n + 1
      BY <1>2, <3>1, <3>2
    <3>3. CASE k # n + 1
      <4>1. k \in 1 .. n
        BY <1>2, <3>1, <3>3
      <4>2. InStore(e, k)
        BY <4>1 DEF InStore, Positions
      <4>3. array[e][k] \in Seen
        BY <4>2, SeenSlots DEF Shown
      <4>4. array'[a][k] = array[e][k]
        BY <1>2, <3>1, <4>1
      <4>5. QED
        BY <4>3, <4>4, SeenSays
    <3>4. QED
      BY <3>2, <3>3
  <2>5. QED
    BY <2>3, <2>4
<1>7. QED
  BY <1>5, <1>6 DEF Speaks

LEMMA PublishSpeaks ==
    ASSUME SystemInv, NEW sid \in ScenarioIds, NEW xs \in Seq(AdapterRecord),
           NEW source \in Sources, Publish(sid, xs, source),
           \A k \in 1 .. Len(xs) : Says(xs[k], {}, Nil)
    PROVE  Speaks({}, Nil)
<1>1. StoreInv
  BY DEF SystemInv, HeapInv
<1>2. PICK o \in Objects, r \in ScenarioStruct :
        /\ object[o] = Nil
        /\ catalog' = [catalog EXCEPT ![sid] = o]
        /\ object' = [object EXCEPT ![o] = r]
        /\ r.len = Len(xs)
        /\ r.arr = NoArray => xs = <<>>
        /\ r.arr # NoArray => array[r.arr] = <<>> /\ array'[r.arr] = xs
        /\ \A b \in Arrays : b # r.arr => array'[b] = array[b]
  BY <1>1, PublishEffect
<1>3. /\ catalog \in [ScenarioIds -> Objects \cup {Nil}]
      /\ object \in [Objects -> ScenarioStruct \cup {Nil}]
      /\ \A t \in ScenarioIds : catalog[t] # Nil => object[catalog[t]] # Nil
      /\ o # Nil
  BY <1>1, CatalogFacts, HeapAssumption DEF StoreInv, StoreTypeOK, Objects
<1>4. Len(<<>>) = 0
  BY LenProperties
<1>5. ASSUME NEW a, NEW k, Shown(a, k)
      PROVE  Says(array'[a][k], {}, Nil)
  <2>1. a \in Arrays /\ k \in 1 .. Len(array[a]) /\ array[a][k] \in Seen
    BY <1>5, ShownFacts, SeenSlots
  <2>2. a # r.arr
    BY <1>2, <1>4, <2>1 DEF Arrays, NoArray
  <2>3. array'[a][k] = array[a][k]
    BY <1>2, <2>1, <2>2
  <2>4. QED
    BY <2>1, <2>3, SeenSays
<1>6. ASSUME NEW a, NEW k, InStore(a, k)'
      PROVE  Says(array'[a][k], {}, Nil)
  <2>1. PICK t \in ScenarioIds : /\ catalog'[t] # Nil /\ k \in 1 .. object'[catalog'[t]].len
                                 /\ a = object'[catalog'[t]].arr
    BY <1>6 DEF InStore, Positions, Holds
  <2>2. CASE t = sid
    <3>1. catalog'[t] = o /\ object'[o] = r
      BY <1>2, <1>3, <2>2
    <3>2. k \in 1 .. Len(xs) /\ a = r.arr
      BY <1>2, <2>1, <3>1
    <3>3. array'[a][k] = xs[k]
      BY <1>2, <1>4, <3>2
    <3>4. QED
      BY <3>2, <3>3
  <2>3. CASE t # sid
    <3>1. catalog'[t] = catalog[t] /\ catalog[t] \in Objects /\ catalog[t] # o
      BY <1>2, <1>3, <2>1, <2>3
    <3>2. object'[catalog[t]] = object[catalog[t]]
      BY <1>2, <1>3, <3>1
    <3>3. InStore(a, k)
      BY <2>1, <3>1, <3>2 DEF InStore, Positions, Holds
    <3>4. QED
      BY <1>5, <3>3 DEF Shown
  <2>4. QED
    BY <2>2, <2>3
<1>7. QED
  BY <1>5, <1>6 DEF Speaks

LEMMA LoadGitHubScenarioSpeaks ==
    ASSUME SystemInv, NEW g \in GithubIds, LoadGitHubScenario(g)
    PROVE  Speaks({}, Nil)
<1>1. CASE UNCHANGED storeVars
  BY <1>1, SameArraysSpeak DEF storeVars, InStore, Positions, Holds
<1>2. CASE Publish(g, FromFile(g), "github")
  <2> DEFINE xs == FromFile(g)
  <2>1. xs \in Seq(AdapterRecord) /\ g \in ScenarioIds /\ "github" \in Sources
    BY FromFileType DEF ScenarioIds, Sources
  <2>2. Manifest[g] \in Seq(FileEntries)
    BY ConstantsAssumption
  <2>3. Len(xs) = Len(Manifest[g])
    BY <2>2 DEF FromFile
  <2>4. ASSUME NEW k \in 1 .. Len(xs)
        PROVE  Says(xs[k], {}, Nil)
    <3>1. k \in 1 .. Len(Manifest[g])
      BY <2>3
    <3>2. xs[k].name = Manifest[g][k].name /\ xs[k].dep = Manifest[g][k].name
          /\ xs[k].id = <<g, Manifest[g][k].type, k - 1>>
      BY <3>1 DEF FromFile, NewAdapter, PositionId
    <3>3. Claims(Manifest[g][k].name, g)
      BY <3>1 DEF Claims
    <3> HIDE DEF xs
    <3>4. QED
      BY <3>2, <3>3 DEF Says
  <2> HIDE DEF xs
  <2>5. QED
    BY <1>2, <2>1, <2>4, PublishSpeaks DEF xs
<1>3. QED
  BY <1>1, <1>2 DEF LoadGitHubScenario

LEMMA CreateScenarioSpeaks ==
    ASSUME SystemInv, NEW sid \in ScenarioIds, CreateScenario(sid)
    PROVE  Speaks({}, Nil)
<1>1. CASE UNCHANGED storeVars
  BY <1>1, SameArraysSpeak DEF storeVars, InStore, Positions, Holds
<1>2. CASE Publish(sid, <<>>, "")
  <2> DEFINE xs == <<>>
  <2>1. xs \in Seq(AdapterRecord) /\ "" \in Sources /\ Len(xs) = 0
    BY EmptySeq, LenProperties DEF Sources
  <2> HIDE DEF xs
  <2>2. \A k \in 1 .. Len(xs) : Says(xs[k], {}, Nil)
    <3>1. \A k \in 1 .. 0 : FALSE
      OBVIOUS
    <3>2. QED
      BY <2>1, <3>1, Zenon
  <2>3. Publish(sid, xs, "")
    BY <1>2 DEF xs
  <2>4. QED
    BY <2>1, <2>2, <2>3, PublishSpeaks
<1>3. QED
  BY <1>1, <1>2 DEF CreateScenario

LEMMA RelabelSpeaks ==
    ASSUME SystemInv, NEW sid \in ScenarioIds, NEW status \in Statuses,
           UpdateScenario(sid) \/ UpdateScenarioStatus(sid, status)
    PROVE  Speaks({}, Nil)
<1>1. /\ object \in [Objects -> ScenarioStruct \cup {Nil}] /\ StoreInv
      /\ UNCHANGED <<catalog, array>>
  BY DEF SystemInv, HeapInv, StoreInv, StoreTypeOK, UpdateScenario, UpdateScenarioStatus
<1>2. ASSUME NEW o \in Objects, object[o] # Nil
      PROVE  object'[o].len = object[o].len /\ object'[o].arr = object[o].arr
  <2>1. object[o] \in ScenarioStruct
    BY <1>1, <1>2
  <2>2. \/ object'[o] = object[o]
        \/ object'[o] = [object[o] EXCEPT !.name = "edited"]
        \/ object'[o] = [object[o] EXCEPT !.status = status]
    BY <1>1, CatalogFacts DEF UpdateScenario, UpdateScenarioStatus, Holds
  <2>3. QED
    BY <2>1, <2>2 DEF ScenarioStruct
<1>3. \A t \in ScenarioIds : catalog[t] # Nil =>
         catalog[t] \in Objects /\ object[catalog[t]] # Nil
  BY <1>1, CatalogFacts
<1>4. \A a, k : InStore(a, k)' => InStore(a, k)
  BY <1>1, <1>2, <1>3 DEF InStore, Positions, Holds
<1>5. QED
  BY <1>1, <1>4, SameArraysSpeak

LEMMA DeleteScenarioSpeaks ==
    ASSUME SystemInv, NEW sid \in ScenarioIds, DeleteScenario(sid)
    PROVE  Speaks({}, Nil)
<1>1. catalog \in [ScenarioIds -> Objects \cup {Nil}]
  BY DEF SystemInv, HeapInv, StoreInv, StoreTypeOK
<1>2. \A a, k : InStore(a, k)' => InStore(a, k)
  BY <1>1 DEF DeleteScenario, InStore, Positions, Holds
<1>3. QED
  BY <1>2, SameArraysSpeak DEF DeleteScenario

(* The methods that rewrite the adapter they find.                         *)
LEMMA RewritingSpeaks ==
    ASSUME SystemInv, NEW id,
           \/ \E sid \in ScenarioIds :
                 \/ \E status \in Statuses : UpdateAdapterStatus(sid, id, status)
                 \/ \E url \in Urls : UpdateAdapterIngressURL(sid, id, url)
                 \/ ~LocalMode /\ \E name \in Names \cup {Nil}, key \in Keys :
                       /\ name \in Names => Claims(name, sid)
                       /\ UpdateAdapter(sid, id, name, key)
           \/ RecordAdapterActivity(id)
    PROVE  Speaks({}, Nil)
<1>1. StoreInv /\ HeapInv
  BY DEF SystemInv, HeapInv
<1>2. ASSUME NEW x \in AdapterRecord
      PROVE  /\ \A status \in Statuses :
                   LET y == WithStatus(x, status)
                   IN  y \in AdapterRecord /\ y.id = x.id /\ y.dep = x.dep /\ y.name = x.name
             /\ \A url \in Urls :
                   LET y == [x EXCEPT !.url = url]
                   IN  y \in AdapterRecord /\ y.id = x.id /\ y.dep = x.dep /\ y.name = x.name
             /\ \A name \in Names \cup {Nil}, key \in Keys :
                   LET y == [x EXCEPT !.name = IF name = Nil THEN @ ELSE name, !.key = key]
                   IN  /\ y \in AdapterRecord /\ y.id = x.id /\ y.dep = x.dep
                       /\ y.name = IF name = Nil THEN x.name ELSE name
             /\ LET y == [x EXCEPT !.last = "recent"]
                IN  y \in AdapterRecord /\ y.id = x.id /\ y.dep = x.dep /\ y.name = x.name
  BY DEF WithStatus, AdapterRecord, Activity
<1>3. \A sid \in ScenarioIds : \A i \in Positions(sid) : AdapterAt(sid, i) \in AdapterRecord
  BY <1>1, LookupFacts
<1>4. ASSUME NEW sid \in ScenarioIds, NEW i \in Positions(sid), NEW y \in AdapterRecord,
             SetSlot(catalog[sid], i, y),
             y.id = AdapterAt(sid, i).id, y.dep = AdapterAt(sid, i).dep,
             y.name = AdapterAt(sid, i).name \/ Claims(y.name, y.id[1])
      PROVE  Speaks({}, Nil)
  <2>1. /\ catalog[sid] \in Objects /\ object[catalog[sid]] # Nil
        /\ i \in 1 .. object[catalog[sid]].len
    BY <1>1, LookupFacts
  <2>2. QED
    BY <1>4, <2>1, SetSlotSpeaks DEF AdapterAt
<1>5. CASE UNCHANGED storeVars
  BY <1>5, SameArraysSpeak DEF storeVars, InStore, Positions, Holds
<1>6. CASE \E sid \in ScenarioIds, status \in Statuses : UpdateAdapterStatus(sid, id, status)
  <2>1. PICK sid \in ScenarioIds, status \in Statuses : UpdateAdapterStatus(sid, id, status)
    BY <1>6
  <2>2. ASSUME NEW i \in Positions(sid),
               SetSlot(catalog[sid], i, WithStatus(AdapterAt(sid, i), status))
        PROVE  Speaks({}, Nil)
    <3> DEFINE x == AdapterAt(sid, i)
               y == WithStatus(x, status)
    <3>1. x \in AdapterRecord
      BY <1>3
    <3>2. SetSlot(catalog[sid], i, y)
      BY <2>2
    <3> HIDE DEF x
    <3>3. y \in AdapterRecord /\ y.id = x.id /\ y.dep = x.dep /\ y.name = x.name
      BY <1>2, <3>1
    <3> HIDE DEF y
    <3>4. QED
      BY <1>4, <3>2, <3>3 DEF x
  <2>3. QED
    BY <1>5, <2>1, <2>2 DEF UpdateAdapterStatus
<1>7. CASE \E sid \in ScenarioIds, url \in Urls : UpdateAdapterIngressURL(sid, id, url)
  <2>1. PICK sid \in ScenarioIds, url \in Urls : UpdateAdapterIngressURL(sid, id, url)
    BY <1>7
  <2>2. ASSUME NEW i \in Positions(sid),
               SetSlot(catalog[sid], i, [AdapterAt(sid, i) EXCEPT !.url = url])
        PROVE  Speaks({}, Nil)
    <3> DEFINE x == AdapterAt(sid, i)
               y == [x EXCEPT !.url = url]
    <3>1. x \in AdapterRecord
      BY <1>3
    <3>2. SetSlot(catalog[sid], i, y)
      BY <2>2
    <3> HIDE DEF x
    <3>3. y \in AdapterRecord /\ y.id = x.id /\ y.dep = x.dep /\ y.name = x.name
      BY <1>2, <3>1
    <3> HIDE DEF y
    <3>4. QED
      BY <1>4, <3>2, <3>3 DEF x
  <2>3. QED
    BY <1>5, <2>1, <2>2 DEF UpdateAdapterIngressURL
<1>8. ASSUME NEW sid \in ScenarioIds, NEW name \in Names \cup {Nil}, NEW key \in Keys,
             ~LocalMode, name \in Names => Claims(name, sid),
             UpdateAdapter(sid, id, name, key), ~ UNCHANGED storeVars
      PROVE  Speaks({}, Nil)
  <2>1. PICK i \in Positions(sid) :
          SetSlot(catalog[sid], i, [AdapterAt(sid, i) EXCEPT
                                      !.name = IF name = Nil THEN @ ELSE name, !.key = key])
    BY <1>8 DEF UpdateAdapter
  <2> DEFINE x == AdapterAt(sid, i)
             y == [x EXCEPT !.name = IF name = Nil THEN @ ELSE name, !.key = key]
  <2>2. Holds(sid) /\ i \in 1 .. object[catalog[sid]].len /\ x \in AdapterRecord
    BY <1>1, LookupFacts
  <2>3. object[catalog[sid]].arr # NoArray
    BY <1>1, <2>2, SliceSound
  <2>4. x.id[1] = sid
    BY <1>1, <1>8, <2>2, <2>3, SliceSound DEF Cell, AdapterAt
  <2>5. SetSlot(catalog[sid], i, y)
    BY <2>1
  <2>6. /\ y \in AdapterRecord /\ y.id = x.id /\ y.dep = x.dep
        /\ y.name = IF name = Nil THEN x.name ELSE name
    <3> HIDE DEF x
    <3>1. QED
      BY <1>2, <2>2
  <2> HIDE DEF x, y
  <2>7. y.name = x.name \/ Claims(y.name, y.id[1])
    BY <1>8, <2>4, <2>6
  <2>8. QED
    BY <1>4, <2>5, <2>6, <2>7 DEF x
<1>9. CASE RecordAdapterActivity(id)
  <2>1. ASSUME NEW sid \in ScenarioIds, NEW i \in Positions(sid),
               SetSlot(catalog[sid], i, [AdapterAt(sid, i) EXCEPT !.last = "recent"])
        PROVE  Speaks({}, Nil)
    <3> DEFINE x == AdapterAt(sid, i)
               y == [x EXCEPT !.last = "recent"]
    <3>1. x \in AdapterRecord
      BY <1>3
    <3>2. SetSlot(catalog[sid], i, y)
      BY <2>1
    <3> HIDE DEF x
    <3>3. y \in AdapterRecord /\ y.id = x.id /\ y.dep = x.dep /\ y.name = x.name
      BY <1>2, <3>1
    <3> HIDE DEF y
    <3>4. QED
      BY <1>4, <3>2, <3>3 DEF x
  <2>2. QED
    BY <1>5, <1>9, <2>1 DEF RecordAdapterActivity
<1>10. QED
  BY <1>5, <1>6, <1>7, <1>8, <1>9

LEMMA PokeSpeaks ==
    ASSUME SystemInv, NEW o \in Objects, object[o] # Nil, NEW i \in 1 .. object[o].len,
           PokeStatus(o, i) \/ \E url \in Urls : PokeUrl(o, i, url)
    PROVE  Speaks({}, Nil)
<1> DEFINE x == array[object[o].arr][i]
<1>1. x \in AdapterRecord /\ View(o)[i] = x
  BY SliceFacts DEF SystemInv, HeapInv
<1>2. \E y \in AdapterRecord :
         y.id = x.id /\ y.dep = x.dep /\ y.name = x.name /\ SetSlot(o, i, y)
  <2> HIDE DEF x
  <2>1. /\ LET y == [x EXCEPT !.status = "running"]
           IN  y \in AdapterRecord /\ y.id = x.id /\ y.dep = x.dep /\ y.name = x.name
        /\ \A url \in Urls :
              LET y == [x EXCEPT !.url = url]
              IN  y \in AdapterRecord /\ y.id = x.id /\ y.dep = x.dep /\ y.name = x.name
    BY <1>1 DEF AdapterRecord, Statuses
  <2>2. QED
    BY <1>1, <2>1 DEF PokeStatus, PokeUrl
<1>3. QED
  BY <1>2, SetSlotSpeaks

LEMMA ContinueSpeaks ==
    ASSUME SystemInv, ~LocalMode, NEW p \in Processes, Continue(p)
    PROVE  Speaks({}, Nil)
<1> DEFINE l == local[p]
<1>1. HeapInv /\ StoreInv /\ l \in Local /\ Sound(p, l) /\ l.op \in OpsAt(l.pc)
  BY DEF SystemInv, HeapInv, LocalsInv, Sound
<1>2. "running" \in Statuses /\ "stopped" \in Statuses
  BY DEF Statuses
<1>3. CASE UNCHANGED storeVars
  BY <1>3, SameArraysSpeak DEF storeVars, InStore, Positions, Holds
<1>4. CASE MarkRunning(p)
  <2>1. l.sid \in ScenarioIds /\ UpdateAdapterStatus(l.sid, l.aid, "running")
    BY <1>1, <1>4 DEF MarkRunning, At, OpsAt, Sound, Working, LoopOps
  <2>2. QED
    BY <1>2, <2>1, RewritingSpeaks
<1>5. CASE SetUrl(p)
  <2>1. l.sid \in ScenarioIds /\ l.url \in Urls /\ UpdateAdapterIngressURL(l.sid, l.aid, l.url)
    BY <1>1, <1>5 DEF SetUrl, At, OpsAt, Sound, Working, LoopOps, Local
  <2>2. QED
    BY <1>2, <2>1, RewritingSpeaks
<1>6. CASE MarkStopped(p)
  <2>1. l.sid \in ScenarioIds /\ UpdateAdapterStatus(l.sid, l.aid, "stopped")
    BY <1>1, <1>6 DEF MarkStopped, At, OpsAt, Sound, Working, LoopOps, AdapterOps
  <2>2. QED
    BY <1>2, <2>1, RewritingSpeaks
<1>7. CASE (WriteStatus(p) \/ WriteUrl(p)) /\ ~ UNCHANGED storeVars
  <2>1. /\ InRange(p)
        /\ PokeStatus(l.obj, l.idx) \/ PokeUrl(l.obj, l.idx, l.url)
        /\ l.pc \in {"pokeStatus", "pokeUrl"}
    BY <1>7 DEF WriteStatus, WriteUrl, At
  <2>2. l.op = "launch" /\ l.idx >= 1
    BY <1>1, <2>1 DEF OpsAt, Sound, Working, LoopOps
  <2>3. l.obj \in Objects /\ object[l.obj] # Nil /\ l.url \in Urls /\ l.idx \in Nat
    BY <1>1, <2>2 DEF Sound, Local
  <2>4. object[l.obj].len \in Nat
    BY <1>1, <2>3, SliceFacts
  <2>5. l.idx \in 1 .. object[l.obj].len
    BY <2>1, <2>2, <2>3, <2>4 DEF InRange
  <2>6. QED
    BY <2>1, <2>3, <2>5, PokeSpeaks
<1>8. CASE Finish(p)
  <2>1. l.sid \in ScenarioIds /\ l.op \in LoopOps
    BY <1>1, <1>8 DEF Finish, At, OpsAt, Sound, Working
  <2>2. \/ \E status \in Statuses : UpdateScenarioStatus(l.sid, status)
        \/ DeleteScenario(l.sid)
    BY <1>2, <1>8, <2>1 DEF Finish, LoopOps
  <2>3. QED
    BY <2>1, <2>2, RelabelSpeaks, DeleteScenarioSpeaks
<1>9. CASE RemoveAdapter(p)
  <2>1. l.sid \in ScenarioIds /\ DeleteAdapter(l.sid, l.aid)
    BY <1>1, <1>9 DEF RemoveAdapter, At, OpsAt, Sound, Working, AdapterOps
  <2>2. QED
    BY <2>1, DeleteAdapterSpeaks
<1>10. CASE Write(p)
  <2>1. /\ l.op = "updateAdapter" /\ l.sid \in ScenarioIds
        /\ l.name \in Names \cup {Nil} /\ l.key \in Keys
        /\ UpdateAdapter(l.sid, l.aid, l.name, l.key)
    BY <1>1, <1>10 DEF Write, At, OpsAt, Sound, Working, AdapterOps, Local
  <2>2. p \in Reqs
    BY <1>1, <2>1, ControlPlaneAssumption DEF Sound, Processes, AllOps
  <2>3. l.name \in Names => Claims(l.name, l.sid)
    BY <2>2 DEF Claims
  <2>4. QED
    BY <2>1, <2>3, RewritingSpeaks
<1>11. QED
  BY <1>3, <1>4, <1>5, <1>6, <1>7, <1>8, <1>9, <1>10
  DEF Continue, Pick, CreateDeployment, CreateService, Expose, Check, Scale,
      RemoveDeployment, RemoveService, Reread, RemoveRule, ReadKey, SweepTheRest,
      LocalOnly, ClusterOnly

-----------------------------------------------------------------------------
(* What becomes of the deployments.                                        *)

(* A call concerns the deployment of the adapter that p holds a copy of:   *)
(* it is created for that adapter, scaled or removed.                      *)
Handles(p) ==
    LET x == local[p].cur
    IN  /\ x \in AdapterRecord /\ (~LocalMode => x.id[1] = local[p].sid)
        /\ local'[p] # local[p]
        /\ \A n \in Names : n # x.dep => deployments'[n] = deployments[n]
        /\ deployments'[x.dep] # Nil =>
              \/ deployments'[x.dep].owner = x.id
              \/ /\ deployments[x.dep] # Nil
                 /\ deployments'[x.dep].owner = deployments[x.dep].owner

LEMMA ContinueHandles ==
    ASSUME SystemInv, NEW p \in Processes, Continue(p)
    PROVE  UNCHANGED deployments \/ Handles(p)
<1> DEFINE l == local[p]
           x == l.cur
<1>1. /\ local \in [Processes -> Local] /\ l \in Local /\ Sound(p, l)
      /\ deployments \in [Names -> Deployment \cup {Nil}]
  BY DEF SystemInv, LocalsInv, ClusterTypeOK
<1>2. ASSUME l.pc \in Calls
      PROVE  /\ x \in AdapterRecord /\ (~LocalMode => x.id[1] = l.sid)
             /\ x.dep \in Names /\ x.id \in AdapterIds
  BY <1>1, <1>2 DEF Sound, Local, AdapterRecord
<1>3. ASSUME NEW pc, pc # l.pc, Goto(p, pc)
      PROVE  local'[p] # local[p]
  <2> DEFINE m == [l EXCEPT !.pc = pc]
  <2>1. m.pc = pc /\ Set(p, m)
    BY <1>1, <1>3 DEF Local, Goto
  <2> HIDE DEF m
  <2>2. local'[p] = m
    BY <1>1, <2>1, SetFacts
  <2>3. QED
    BY <1>3, <2>1, <2>2
<1>4. ASSUME NextAdapter(p), l.pc # "pick"
      PROVE  local'[p] # local[p]
  <2> DEFINE m == [l EXCEPT !.pc = "pick", !.idx = @ + 1,
                            !.aid = Nil, !.cur = Nil, !.url = "none"]
  <2>1. m.pc = "pick" /\ Set(p, m)
    BY <1>1, <1>4 DEF Local, NextAdapter
  <2> HIDE DEF m
  <2>2. local'[p] = m
    BY <1>1, <2>1, SetFacts
  <2>3. QED
    BY <1>4, <2>1, <2>2
<1>5. CASE CreateDeployment(p)
  <2>1. l.pc = "createDeployment" /\ l.pc \in Calls
    BY <1>5 DEF CreateDeployment, At, Calls
  <2>2. PICK ok \in BOOLEAN : CreateAdapterDeployment(x, ok)
    BY <1>5 DEF CreateDeployment
  <2>3. local'[p] # local[p]
    BY <1>3, <1>4, <1>5, <2>1 DEF CreateDeployment
  <2>4. \/ UNCHANGED deployments
        \/ deployments' = [deployments EXCEPT ![x.dep] = [owner |-> x.id, replicas |-> 1]]
    BY <2>2 DEF CreateAdapterDeployment, Created
  <2>5. QED
    BY <1>1, <1>2, <2>1, <2>3, <2>4 DEF Handles
<1>6. CASE Scale(p)
  <2>1. l.pc = "scale" /\ l.pc \in Calls /\ Goto(p, "markStopped")
    BY <1>6 DEF Scale, At, Calls
  <2>2. \/ UNCHANGED deployments
        \/ /\ deployments[x.dep] # Nil
           /\ deployments' = [deployments EXCEPT ![x.dep].replicas = 0]
    BY <1>6 DEF Scale, StopAdapterDeployment
  <2>3. local'[p] # local[p]
    BY <1>3, <2>1
  <2>4. ASSUME deployments[x.dep] # Nil,
               deployments' = [deployments EXCEPT ![x.dep].replicas = 0]
        PROVE  Handles(p)
    <3> DEFINE d == [deployments[x.dep] EXCEPT !.replicas = 0]
    <3>1. x.dep \in Names /\ deployments[x.dep] \in Deployment
      BY <1>1, <1>2, <2>1, <2>4
    <3>2. d.owner = deployments[x.dep].owner
      BY <3>1 DEF Deployment
    <3>3. deployments' = [deployments EXCEPT ![x.dep] = d]
      BY <2>4
    <3> HIDE DEF d
    <3>4. QED
      BY <1>1, <1>2, <2>1, <2>3, <2>4, <3>1, <3>2, <3>3 DEF Handles
  <2>5. QED
    BY <2>2, <2>4
<1>7. CASE RemoveDeployment(p)
  <2>1. l.pc = "deleteDeployment" /\ l.pc \in Calls /\ Goto(p, "deleteService")
    BY <1>7 DEF RemoveDeployment, At, Calls
  <2>2. UNCHANGED deployments \/ deployments' = [deployments EXCEPT ![x.dep] = Nil]
    BY <1>7 DEF RemoveDeployment, DeleteDeployment, Removed
  <2>3. local'[p] # local[p]
    BY <1>3, <2>1
  <2>4. QED
    BY <1>1, <1>2, <2>1, <2>2, <2>3 DEF Handles
<1>8. CASE CreateService(p) \/ Expose(p) \/ RemoveService(p) \/ RemoveRule(p) \/ SweepTheRest(p)
  BY <1>8 DEF CreateService, Expose, RemoveService, RemoveRule, SweepTheRest,
        CreateAdapterService, GetLoadBalancerHostname, CreateAdapterAPIRule,
        DeleteService, DeleteAdapterAPIRule, SweepServices, SweepAPIRules, clusterVars
<1>9. QED
  BY <1>5, <1>6, <1>7, <1>8
  DEF Continue, Pick, MarkRunning, SetUrl, WriteStatus, WriteUrl, Check, clusterVars,
      MarkStopped, Reread, RemoveAdapter, ReadKey, Write, Finish, LocalOnly, StoreOnly

LEMMA HandlingClaims ==
    ASSUME SystemInv, NEW p \in Processes, Handles(p), NEW n \in Names,
           deployments'[n] # Nil
    PROVE  Claims(n, deployments'[n].owner[1])
<1> DEFINE x == local[p].cur
<1>1. x \in Seen
  BY SeenSlots, NilAssumption DEF Handles
<1>2. CASE n = x.dep
  BY <1>1, <1>2 DEF Handles, Claims
<1>3. CASE n # x.dep
  BY <1>3 DEF Handles, Claims
<1>4. QED
  BY <1>2, <1>3

-----------------------------------------------------------------------------
(* OneClaim is inductive, given SystemInv.                                 *)

LEMMA ContinueClaims ==
    ASSUME SystemInv, OneClaim, ~LocalMode, NEW p \in Processes, Continue(p)
    PROVE  OneClaim'
<1>1. \A a, k : Shown(a, k)' => Says(array'[a][k], {}, Nil)
  BY ContinueHolds, ContinueSpeaks DEF Speaks
<1>2. \A q \in Processes : local'[q].cur # Nil => Says(local'[q].cur, {}, Nil)
  BY ContinueHolds, SeenSays
<1>3. \A q \in Reqs : local'[q].name \in Names => Claims(local'[q].name, local'[q].sid)
  BY ContinueHolds
<1>4. \A n \in Names : deployments'[n] # Nil => Claims(n, deployments'[n].owner[1])
  <2>1. CASE UNCHANGED deployments
    BY <2>1 DEF Claims
  <2>2. CASE Handles(p)
    BY <2>2, HandlingClaims
  <2>3. QED
    BY <2>1, <2>2, ContinueHandles
<1>5. QED
  BY <1>1, <1>2, <1>3, <1>4, StepKeepsClaims

(* A step that leaves the deployments and what processes hold alone.       *)
LEMMA StoreStepClaims ==
    ASSUME OneClaim, UNCHANGED <<clusterVars, local, snapshot>>,
           NEW F, NEW home, Speaks(F, home), \A m \in F : \A s : ~ Claims(m, s)
    PROVE  OneClaim'
<1>1. \A a, k : Shown(a, k)' => Shown(a, k) \/ InStore(a, k)'
  BY DEF Shown, Holding, HeldBy, Listed
<1>2. \A a, k : Shown(a, k)' => Says(array'[a][k], F, home)
  BY <1>1 DEF Speaks
<1>3. \A q \in Processes : local'[q].cur # Nil => Says(local'[q].cur, F, home)
  BY SeenSlots, SeenSays
<1>4. \A q \in Reqs : local'[q].name \in Names => Claims(local'[q].name, local'[q].sid)
  BY DEF Claims
<1>5. \A n \in Names : deployments'[n] # Nil => Claims(n, deployments'[n].owner[1])
  BY DEF Claims, clusterVars
<1>6. QED
  BY <1>2, <1>3, <1>4, <1>5, StepKeepsClaims

(* The name that Usable lets through is claimed by nobody.                 *)
LEMMA UsableIsUnclaimed ==
    ASSUME ~NameClash, NEW name \in Names, Usable(name), NEW s
    PROVE  ~ Claims(name, s)
BY DEF Usable, InUse, Claims

LEMMA OneStepClaims ==
    ASSUME SystemInv, OneClaim, ~LocalMode, ~NameClash, "clone" \notin Ops, OneStep
    PROVE  OneClaim'
<1>1. clock \in Seconds
  BY DEF SystemInv, CountersInv
<1>2. UNCHANGED <<clusterVars, local, snapshot>>
  BY DEF OneStep, LoadOrSkip, HandleCreateScenario, HandleUpdateScenario,
         HandleClone, HandleAddAdapter, HandleAdapterActivity
<1>3. ASSUME Speaks({}, Nil)
      PROVE  OneClaim'
  BY <1>2, <1>3, StoreStepClaims
<1>4. ASSUME NEW g \in GithubIds, LoadOrSkip(g)
      PROVE  Speaks({}, Nil)
  BY <1>4, LoadGitHubScenarioSpeaks, SameArraysSpeak
  DEF LoadOrSkip, storeVars, InStore, Positions, Holds
<1>5. ASSUME HandleCreateScenario
      PROVE  Speaks({}, Nil)
  BY <1>1, <1>5, CreateScenarioSpeaks DEF HandleCreateScenario, ScenarioIds
<1>6. ASSUME NEW sid \in ScenarioIds, HandleUpdateScenario(sid)
      PROVE  Speaks({}, Nil)
  BY <1>6, RelabelSpeaks DEF HandleUpdateScenario, Statuses
<1>7. \A sid : ~ HandleClone(sid)
  BY DEF HandleClone, Issue, Spend
<1>8. ASSUME NEW sid \in ScenarioIds, NEW name \in Names, NEW type \in Types,
             NEW k \in RequestKeys(type, Nil), HandleAddAdapter(sid, name, type, k)
      PROVE  OneClaim'
  <2> DEFINE id  == NewAdapterId(sid, type, clock)
             key == IF type = Sftp /\ k = Nil THEN id ELSE k
             x   == NewAdapter(id, name, type, key)
  <2>1. x \in AdapterRecord /\ x.id[1] = sid
    BY <1>1, AddedAdapter
  <2>2. Holds(sid) /\ AddAdapter(sid, x) /\ Usable(name)
    BY <1>8 DEF HandleAddAdapter
  <2>3. x.name = name /\ x.dep = name
    BY DEF NewAdapter
  <2> HIDE DEF x
  <2>4. Says(x, {name}, sid)
    BY <2>1, <2>3 DEF Says
  <2>5. Speaks({name}, sid)
    BY <2>1, <2>2, <2>4, AddAdapterSpeaks
  <2>6. \A m \in {name} : \A s : ~ Claims(m, s)
    BY <2>2, UsableIsUnclaimed
  <2>7. QED
    BY <1>2, <2>5, <2>6, StoreStepClaims
<1>9. ASSUME NEW id, HandleAdapterActivity(id)
      PROVE  Speaks({}, Nil)
  BY <1>9, RewritingSpeaks DEF HandleAdapterActivity
<1>10. QED
  BY <1>3, <1>4, <1>5, <1>6, <1>7, <1>8, <1>9 DEF OneStep, Scenarios

(* A step that only changes what process p holds and what is listed.       *)
LEMMA LocalStepClaims ==
    ASSUME SystemInv, OneClaim, UNCHANGED <<storeVars, deployments>>,
           NEW p \in Processes, NEW m, Set(p, m), m.cur \in {Nil, local[p].cur},
           NEW F, NEW home, \A n \in F : \A s : ~ Claims(n, s),
           p \in Reqs /\ m.name \in Names => m.name \in F /\ m.sid = home,
           m.arr # NoArray => \A k \in HeldBy(m) : Shown(m.arr, k),
           \A s \in snapshot' : \A k \in 1 .. s.len : Shown(s.arr, k)
    PROVE  OneClaim'
<1>1. local'[p] = m /\ \A q \in Processes \ {p} : local'[q] = local[q]
  BY SetFacts DEF SystemInv, LocalsInv
<1>2. ASSUME NEW a, NEW k, Shown(a, k)'
      PROVE  Shown(a, k)
  <2>1. CASE InStore(a, k)'
    BY <2>1 DEF Shown, InStore, Positions, Holds, storeVars
  <2>2. ASSUME NEW q \in Processes, Holding(q, a, k)'
        PROVE  Shown(a, k)
    <3>1. CASE q = p
      BY <1>1, <2>2, <3>1 DEF Holding
    <3>2. CASE q # p
      <4>1. Holding(q, a, k)
        BY <1>1, <2>2, <3>2 DEF Holding
      <4>2. QED
        BY <4>1 DEF Shown
    <3>3. QED
      BY <3>1, <3>2
  <2>3. CASE Listed(a, k)'
    BY <2>3 DEF Listed
  <2>4. QED
    BY <1>2, <2>1, <2>2, <2>3 DEF Shown
<1>3. \A a, k : Shown(a, k)' => Says(array'[a][k], F, home)
  <2>1. UNCHANGED array
    BY DEF storeVars
  <2>2. QED
    BY <1>2, <2>1, SeenSlots, SeenSays
<1>4. \A q \in Processes : local'[q].cur # Nil => Says(local'[q].cur, F, home)
  BY <1>1, SeenSlots, SeenSays
<1>5. \A q \in Reqs : local'[q].name \in Names =>
         \/ Claims(local'[q].name, local'[q].sid)
         \/ local'[q].name \in F /\ local'[q].sid = home
  BY <1>1 DEF Claims, Processes
<1>6. \A n \in Names : deployments'[n] # Nil => Claims(n, deployments'[n].owner[1])
  BY DEF Claims
<1>7. QED
  BY <1>3, <1>4, <1>5, <1>6, StepKeepsClaims

(* ... and of one that names nothing.                                      *)
LEMMA QuietStepClaims ==
    ASSUME SystemInv, OneClaim, UNCHANGED <<storeVars, deployments>>,
           NEW p \in Processes, NEW m, Set(p, m), m.cur \in {Nil, local[p].cur},
           p \in Reqs => m.name \notin Names,
           m.arr # NoArray => \A k \in HeldBy(m) : Shown(m.arr, k),
           \A s \in snapshot' : \A k \in 1 .. s.len : Shown(s.arr, k)
    PROVE  OneClaim'
<1> DEFINE F == {}
<1>1. /\ \A n \in F : \A s : ~ Claims(n, s)
      /\ p \in Reqs /\ m.name \in Names => m.name \in F /\ m.sid = Nil
  OBVIOUS
<1> HIDE DEF F
<1>2. QED
  BY <1>1, LocalStepClaims

(* The slice of a scenario of the store can be seen.                       *)
LEMMA SliceShown ==
    ASSUME NEW sid \in ScenarioIds, NEW k \in Positions(sid)
    PROVE  Shown(object[catalog[sid]].arr, k)
BY DEF Shown, InStore

LEMMA SnapshotShown ==
    ASSUME NEW s \in snapshot, NEW k \in 1 .. s.len
    PROVE  Shown(s.arr, k)
BY DEF Shown, Listed

LEMMA BeginLoopClaims ==
    ASSUME SystemInv, OneClaim, NEW p \in Reqs,
           NEW op \in {"launch", "stop", "deleteScenario"}, NEW sid \in Scenarios,
           BeginLoop(p, op, sid)
    PROVE  OneClaim'
<1> DEFINE o == catalog[sid]
           m == [Ready EXCEPT !.op = op, !.pc = "pick", !.sid = sid,
                   !.obj = o, !.arr = object[o].arr, !.len = object[o].len, !.idx = 1]
<1>1. /\ m.cur = Nil /\ m.name = Nil /\ m.op = op /\ m.pc = "pick"
      /\ m.arr = object[o].arr /\ m.len = object[o].len /\ m.idx = 1
  BY DEF Ready
<1>2. Set(p, m) /\ UNCHANGED <<storeVars, clusterVars, snapshot>> /\ p \in Processes
  BY DEF BeginLoop, Processes
<1>3. sid \in ScenarioIds /\ Positions(sid) = 1 .. object[o].len
  BY DEF Scenarios, Positions
<1> HIDE DEF m
<1>4. HeldBy(m) = 1 .. object[o].len
  BY <1>1 DEF HeldBy, AdapterOps
<1>5. \A k \in HeldBy(m) : Shown(m.arr, k)
  BY <1>1, <1>3, <1>4, SliceShown
<1>6. m.name \notin Names /\ UNCHANGED <<storeVars, deployments>>
  BY <1>1, <1>2, NilAssumption DEF clusterVars
<1>7. \A s \in snapshot' : \A k \in 1 .. s.len : Shown(s.arr, k)
  BY <1>2, SnapshotShown
<1>8. QED
  BY <1>1, <1>2, <1>5, <1>6, <1>7, QuietStepClaims

LEMMA BeginAdapterClaims ==
    ASSUME SystemInv, OneClaim, ~NameClash, NEW p \in Reqs, NEW op \in AdapterOps,
           NEW sid \in Scenarios, NEW id, NEW name \in Names \cup {Nil}, NEW key,
           name # Nil => Usable(name), BeginAdapter(p, op, sid, id, name, key)
    PROVE  OneClaim'
<1> DEFINE o == catalog[sid]
<1>1. PICK i \in Positions(sid) :
        Set(p, [Ready EXCEPT !.op = op, !.pc = "check", !.sid = sid,
                  !.aid = id, !.arr = object[o].arr,
                  !.idx = i, !.name = name, !.key = key])
  BY DEF BeginAdapter
<1> DEFINE m == [Ready EXCEPT !.op = op, !.pc = "check", !.sid = sid,
                   !.aid = id, !.arr = object[o].arr,
                   !.idx = i, !.name = name, !.key = key]
           F == {name} \ {Nil}
<1>2. /\ m.cur = Nil /\ m.name = name /\ m.op = op /\ m.sid = sid
      /\ m.arr = object[o].arr /\ m.idx = i
  BY DEF Ready
<1>3. Set(p, m) /\ UNCHANGED <<storeVars, clusterVars, snapshot>> /\ p \in Processes
  BY <1>1 DEF BeginAdapter, Processes
<1>4. sid \in ScenarioIds
  BY DEF Scenarios
<1> HIDE DEF m
<1>5. \A k \in HeldBy(m) : Shown(m.arr, k)
  BY <1>2, <1>4, SliceShown DEF HeldBy
<1>6. \A n \in F : \A s : ~ Claims(n, s)
  BY UsableIsUnclaimed
<1>7. m.name \in Names => m.name \in F /\ m.sid = sid
  BY <1>2, NilAssumption
<1> HIDE DEF F
<1>8. QED
  BY <1>2, <1>3, <1>5, <1>6, <1>7, SnapshotShown, LocalStepClaims DEF clusterVars

LEMMA BeginClaims ==
    ASSUME SystemInv, OneClaim, ~NameClash, "cleanup" \notin Ops, NEW p \in Reqs, Begin(p)
    PROVE  OneClaim'
<1>1. ~ BeginCleanup(p)
  BY DEF BeginCleanup, Accept, Issue, Spend
<1>2. ASSUME NEW sid \in Scenarios, NEW op \in {"launch", "stop", "deleteScenario"},
             BeginLoop(p, op, sid)
      PROVE  OneClaim'
  BY <1>2, BeginLoopClaims
<1>3. ASSUME NEW sid \in Scenarios, NEW id, NEW op \in {"deleteAdapter", "stopAdapter"},
             BeginAdapter(p, op, sid, id, Nil, Nil)
      PROVE  OneClaim'
  BY <1>3, BeginAdapterClaims DEF AdapterOps
<1>4. ASSUME NEW sid \in Scenarios, NEW id, NEW name \in Names \cup {Nil}, NEW key,
             name # Nil => Usable(name),
             BeginAdapter(p, "updateAdapter", sid, id, name, key)
      PROVE  OneClaim'
  <2>1. "updateAdapter" \in AdapterOps
    BY DEF AdapterOps
  <2>2. QED
    BY <1>4, <2>1, BeginAdapterClaims
<1>5. QED
  BY <1>1, <1>2, <1>3, <1>4 DEF Begin

LEMMA IdleClaims ==
    ASSUME SystemInv, OneClaim, ListScenarios \/ ChooseScenario \/ Examine
    PROVE  OneClaim'
<1>1. UNCHANGED <<storeVars, deployments>> /\ Idle \in Processes
  BY IdleFrame DEF SystemInv, clusterVars, Processes
<1>2. ASSUME NEW m, Set(Idle, m), m.cur \in {Nil, local[Idle].cur},
             m.arr # NoArray => \A k \in HeldBy(m) : Shown(m.arr, k),
             \A s \in snapshot' : \A k \in 1 .. s.len : Shown(s.arr, k)
      PROVE  OneClaim'
  BY <1>1, <1>2, QuietStepClaims, ControlPlaneAssumption
<1> DEFINE choosing == [Ready EXCEPT !.op = "idle", !.pc = "choose"]
<1>3. choosing.cur = Nil /\ choosing.arr = NoArray
  BY DEF Ready
<1>4. CASE ListScenarios
  <2>1. \A s \in snapshot' : \E sid \in ScenarioIds :
           Holds(sid) /\ s = [sid |-> sid, arr |-> object[catalog[sid]].arr,
                              len |-> object[catalog[sid]].len]
    BY <1>4 DEF ListScenarios
  <2>2. ASSUME NEW s \in snapshot', NEW k \in 1 .. s.len
        PROVE  Shown(s.arr, k)
    <3>1. PICK sid \in ScenarioIds :
            Holds(sid) /\ s.arr = object[catalog[sid]].arr /\ s.len = object[catalog[sid]].len
      BY <2>1
    <3>2. k \in Positions(sid)
      BY <3>1 DEF Positions
    <3>3. QED
      BY <3>1, <3>2, SliceShown
  <2>3. Set(Idle, choosing)
    BY <1>4 DEF ListScenarios
  <2> HIDE DEF choosing
  <2>4. QED
    BY <1>2, <1>3, <2>2, <2>3
<1>5. ASSUME NEW s \in snapshot, snapshot' = snapshot \ {s},
             Set(Idle, [Ready EXCEPT !.op = "idle", !.pc = "examine",
                          !.sid = s.sid, !.arr = s.arr, !.len = s.len, !.idx = 1])
      PROVE  OneClaim'
  <2> DEFINE m == [Ready EXCEPT !.op = "idle", !.pc = "examine",
                     !.sid = s.sid, !.arr = s.arr, !.len = s.len, !.idx = 1]
  <2>1. /\ m.cur = Nil /\ m.op = "idle" /\ m.pc = "examine"
        /\ m.arr = s.arr /\ m.len = s.len
    BY DEF Ready
  <2>2. Set(Idle, m)
    BY <1>5
  <2> HIDE DEF m
  <2>3. HeldBy(m) = 1 .. s.len
    BY <2>1 DEF HeldBy, AdapterOps
  <2>4. QED
    BY <1>2, <1>5, <2>1, <2>2, <2>3, SnapshotShown
<1>6. ASSUME Respond(Idle), snapshot' \subseteq snapshot
      PROVE  OneClaim'
  <2>1. Ready.cur = Nil /\ Ready.arr = NoArray
    BY DEF Ready
  <2>2. Set(Idle, Ready)
    BY <1>6 DEF Respond
  <2>3. QED
    BY <1>2, <1>6, <2>1, <2>2, SnapshotShown
<1>7. CASE Examine
  <2> DEFINE l == local[Idle]
  <2>1. /\ l \in Local /\ l.pc = "examine" /\ l.op = "idle" /\ Sound(Idle, l)
        /\ UNCHANGED snapshot
    BY <1>1, <1>7 DEF SystemInv, LocalsInv, Sound, Examine, At, OpsAt, LocalOnly
  <2>2. HeldBy(l) = 1 .. l.len /\ l.idx \in Nat /\ l.len \in Nat
    BY <2>1 DEF HeldBy, AdapterOps, Local
  <2>3. l.arr # NoArray => \A k \in 1 .. l.len : Shown(l.arr, k)
    BY <1>1, <2>2 DEF Shown, Holding
  <2>4. ASSUME NEW m, Set(Idle, m), m.arr = l.arr, m.len = l.len, m.op = "idle",
               m.pc = "examine" \/ m.idx = 1, m.cur = l.cur
        PROVE  OneClaim'
    <3>1. HeldBy(m) = 1 .. l.len
      BY <2>4 DEF HeldBy, AdapterOps
    <3>2. QED
      BY <1>2, <2>1, <2>3, <2>4, <3>1, SnapshotShown
  <2>5. CASE Set(Idle, choosing)
    <3> HIDE DEF choosing
    <3>1. QED
      BY <1>2, <1>3, <2>1, <2>5, SnapshotShown
  <2>6. CASE Set(Idle, [l EXCEPT !.pc = "pick", !.idx = 1])
    <3> DEFINE m == [l EXCEPT !.pc = "pick", !.idx = 1]
    <3>1. m.arr = l.arr /\ m.len = l.len /\ m.op = "idle" /\ m.idx = 1 /\ m.cur = l.cur
      BY <2>1 DEF Local
    <3>2. Set(Idle, m)
      BY <2>6
    <3> HIDE DEF m
    <3>3. QED
      BY <2>4, <3>1, <3>2
  <2>7. ASSUME NEW idle \in BOOLEAN, Set(Idle, [l EXCEPT !.idx = @ + 1, !.idle = idle])
        PROVE  OneClaim'
    <3> DEFINE m == [l EXCEPT !.idx = @ + 1, !.idle = idle]
    <3>1. m.arr = l.arr /\ m.len = l.len /\ m.op = "idle" /\ m.pc = "examine" /\ m.cur = l.cur
      BY <2>1 DEF Local
    <3>2. Set(Idle, m)
      BY <2>7
    <3> HIDE DEF m
    <3>3. QED
      BY <2>4, <3>1, <3>2
  <2>8. [l EXCEPT !.idx = @ + 1] = [l EXCEPT !.idx = @ + 1, !.idle = l.idle]
        /\ l.idle \in BOOLEAN
    BY <2>1 DEF Local
  <2>9. QED
    BY <1>7, <2>5, <2>6, <2>7, <2>8 DEF Examine
<1>8. QED
  BY <1>4, <1>5, <1>6, <1>7 DEF ChooseScenario

(* Only the deployments survive a restart, and the files are still there.  *)
LEMMA RestartClaims ==
    ASSUME OneClaim, Restart
    PROVE  OneClaim'
<1>1. /\ UNCHANGED deployments
      /\ \A p \in Processes : local'[p] = Ready
      /\ snapshot' = {} /\ \A sid \in ScenarioIds : catalog'[sid] = Nil
  BY DEF Restart, clusterVars, NewMemoryStore
<1>2. Ready.arr = NoArray /\ Ready.cur = Nil /\ Ready.name = Nil
  BY DEF Ready
<1>3. \A a, k : ~ Shown(a, k)'
  BY <1>1, <1>2 DEF Shown, InStore, Positions, Holds, Holding, Listed
<1>4. \A p \in Processes : local'[p].cur = Nil
  BY <1>1, <1>2
<1>5. \A p \in Reqs : local'[p].name \notin Names
  BY <1>1, <1>2, NilAssumption DEF Processes
<1>6. \A n \in Names : deployments'[n] # Nil => Claims(n, deployments'[n].owner[1])
  BY <1>1 DEF Claims
<1> DEFINE F == {}
<1>7. \A m \in F : \A s : ~ Claims(m, s)
  OBVIOUS
<1> HIDE DEF F
<1>8. QED
  BY <1>3, <1>4, <1>5, <1>6, <1>7, StepKeepsClaims

(* At the start only the files make claims.                                *)
LEMMA InitClaims ==
    ASSUME ManifestNamesDiffer, Init
    PROVE  OneClaim
<1>1. \A x : x \notin Seen
  <2>1. /\ \A p \in Processes : local[p] = Ready
        /\ snapshot = {} /\ \A sid \in ScenarioIds : catalog[sid] = Nil
    BY DEF Init, StoreInit
  <2>2. Ready.arr = NoArray /\ Ready.cur = Nil
    BY DEF Ready
  <2>3. \A a, k : ~ Shown(a, k)
    BY <2>1, <2>2 DEF Shown, InStore, Positions, Holds, Holding, Listed
  <2>4. QED
    BY <2>1, <2>2, <2>3, SeenSlots
<1>2. \A n \in Names : deployments[n] = Nil
  BY DEF Init, ClusterInit
<1>3. \A p \in Reqs : local[p].name = Nil
  BY DEF Init, Ready, Processes
<1>4. ASSUME NEW n \in Names, NEW s, Claims(n, s)
      PROVE  s \in GithubIds /\ \E i \in 1 .. Len(Manifest[s]) : Manifest[s][i].name = n
  BY <1>1, <1>2, <1>3, <1>4, NilAssumption DEF Claims
<1>5. QED
  BY <1>4 DEF OneClaim, ManifestNamesDiffer

LEMMA OneClaimStep ==
    ASSUME SystemInv, OneClaim, ~LocalMode, ~NameClash,
           "clone" \notin Ops, "cleanup" \notin Ops, [Next]_vars
    PROVE  OneClaim'
<1>1. CASE UNCHANGED vars
  <2>1. UNCHANGED <<storeVars, clusterVars, local, snapshot>>
    BY <1>1 DEF vars, controlVars
  <2>2. Speaks({}, Nil)
    BY <2>1, SameArraysSpeak DEF storeVars, InStore, Positions, Holds
  <2>3. QED
    BY <2>1, <2>2, StoreStepClaims
<1>2. CASE Wait
  <2>1. TimePasses /\ UNCHANGED <<clusterVars, local, snapshot>>
    BY <1>2 DEF Wait
  <2>2. QED
    BY <2>1, TimePassesSpeaks, StoreStepClaims
<1>3. CASE OneStep
  BY <1>3, OneStepClaims
<1>4. ASSUME NEW p \in Reqs, Begin(p)
      PROVE  OneClaim'
  BY <1>4, BeginClaims
<1>5. ASSUME NEW p \in Processes, Continue(p)
      PROVE  OneClaim'
  BY <1>5, ContinueClaims
<1>6. CASE Restart
  BY <1>6, RestartClaims
<1>7. QED
  BY <1>1, <1>2, <1>3, <1>4, <1>5, <1>6, IdleClaims DEF Next, IdleStep, Processes

-----------------------------------------------------------------------------

(* Only handling an adapter changes a deployment.                          *)
LEMMA DeploymentsHandled ==
    ASSUME SystemInv, "cleanup" \notin Ops, [Next]_vars
    PROVE  UNCHANGED deployments \/ \E p \in Processes : Handles(p)
<1>1. CASE UNCHANGED vars
  BY <1>1 DEF vars, clusterVars
<1>2. CASE OneStep \/ Wait \/ Restart
  BY <1>2 DEF OneStep, LoadOrSkip, HandleCreateScenario, HandleUpdateScenario,
        HandleClone, HandleAddAdapter, HandleAdapterActivity, Wait, Restart, clusterVars
<1>3. ASSUME NEW p \in Reqs, Begin(p)
      PROVE  UNCHANGED deployments
  BY <1>3 DEF Begin, BeginLoop, BeginAdapter, BeginCleanup, Accept, Issue, Spend, clusterVars
<1>4. ASSUME NEW p \in Processes, Continue(p)
      PROVE  UNCHANGED deployments \/ Handles(p)
  BY <1>4, ContinueHandles
<1>5. CASE ListScenarios \/ ChooseScenario \/ Examine
  BY <1>5 DEF ListScenarios, ChooseScenario, Examine, LocalOnly, clusterVars
<1>6. QED
  BY <1>1, <1>2, <1>3, <1>4, <1>5 DEF Next, IdleStep, Processes

(* Where no two adapters of the namespace may get one name and scenarios   *)
(* are not cloned, a handler creates, scales and removes deployments only  *)
(* for the scenario it was called for, whatever stale copies it works      *)
(* from, whatever fails, whoever interferes and however often the control  *)
(* plane restarts.  (The sweep of cleanup is meant to reach all; ids name  *)
(* no scenario in local mode, which has no deployments.)                   *)
THEOREM ScenariosKeepToTheirDeployments ==
    ASSUME ~LocalMode, ~NameClash, "clone" \notin Ops, "cleanup" \notin Ops,
           ManifestNamesDiffer
    PROVE  Spec => ClusterIsolation
<1>1. Init => OneClaim
  BY InitClaims
<1>2. SystemInv /\ OneClaim /\ [Next]_vars => OneClaim'
  BY OneClaimStep
<1>3. SystemInv /\ OneClaim /\ [Next]_vars
        => [ \A n \in Names :
               deployments'[n] # deployments[n] =>
                 \A sid \in OwnersOf(deployments[n]) \cup OwnersOf(deployments'[n]) :
                    AgentsOf(sid) # {} ]_vars
  <2> SUFFICES ASSUME SystemInv, OneClaim, [Next]_vars, NEW n \in Names,
                      deployments'[n] # deployments[n],
                      NEW sid \in OwnersOf(deployments[n]) \cup OwnersOf(deployments'[n])
               PROVE  AgentsOf(sid) # {}
    OBVIOUS
  <2>1. PICK p \in Processes : Handles(p)
    BY DeploymentsHandled
  <2> DEFINE x == local[p].cur
  <2>2. n = x.dep /\ x \in AdapterRecord /\ x.id[1] = local[p].sid /\ local'[p] # local[p]
    BY <2>1 DEF Handles
  <2>3. x \in Seen
    BY <2>2, SeenSlots, NilAssumption
  <2>4. Claims(n, local[p].sid)
    BY <2>2, <2>3 DEF Claims
  <2>5. Claims(n, sid)
    <3>1. CASE sid \in OwnersOf(deployments[n])
      BY <3>1 DEF OwnersOf, Claims
    <3>2. CASE sid \in OwnersOf(deployments'[n])
      <4>1. deployments'[n] # Nil /\ sid = deployments'[n].owner[1]
        BY <3>2 DEF OwnersOf
      <4>2. QED
        BY <2>1, <4>1, HandlingClaims
    <3>3. QED
      BY <3>1, <3>2
  <2>6. sid \in ScenarioIds \cup {Nil} /\ local[p].sid \in ScenarioIds \cup {Nil}
    <3>1. ClusterTypeOK /\ ClusterTypeOK' /\ local[p] \in Local
      BY SystemStep DEF SystemInv, LocalsInv
    <3>2. /\ deployments[n] \in Deployment \cup {Nil}
          /\ deployments'[n] \in Deployment \cup {Nil}
      BY <3>1 DEF ClusterTypeOK
    <3>3. \A d \in Deployment : d.owner[1] \in ScenarioIds \cup {Nil}
      BY DEF Deployment, AdapterIds
    <3>4. QED
      BY <3>1, <3>2, <3>3 DEF OwnersOf, Local
  <2>7. sid = local[p].sid
    BY <2>4, <2>5, <2>6 DEF OneClaim
  <2>8. QED
    BY <2>2, <2>7 DEF AgentsOf
<1>4. QED
  BY <1>1, <1>2, <1>3, SystemInvariant, PTL DEF Spec, ClusterIsolation

=============================================================================
