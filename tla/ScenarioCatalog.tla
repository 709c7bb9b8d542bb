--------------------------- MODULE ScenarioCatalog --------------------------
(***************************************************************************)
(* What the in-memory store promises its callers: a map from scenario ids  *)
(* to scenarios that are VALUES.  A scenario is a name, a status, a source *)
(* and a sequence of adapters; every operation is one atomic step on one   *)
(* scenario.  There are no pointers, no backing arrays and no aliasing:    *)
(* MemoryStore has them, and is shown to implement this module.            *)
(***************************************************************************)
EXTENDS Adapters

VARIABLE cat    \* scenario id -> Nil or [adapters, name, status, source]

Sources == {"", "user", "github"}

ScenarioValue ==
    [adapters : Seq(AdapterRecord), name : Titles, status : Statuses,
     source : Sources]

CatalogTypeOK == cat \in [ScenarioIds -> ScenarioValue \cup {Nil}]

Scenario(xs, source) ==
    [adapters |-> xs, name |-> "given", status |-> "stopped", source |-> source]

Put(sid, v) == cat' = [cat EXCEPT ![sid] = v]

PutAdapters(sid, xs) == Put(sid, [cat[sid] EXCEPT !.adapters = xs])

PutAdapter(sid, i, x) ==
    PutAdapters(sid, [j \in 1 .. Len(cat[sid].adapters) |->
                         IF j = i THEN x ELSE cat[sid].adapters[j]])

-----------------------------------------------------------------------------

Create(sid) == cat[sid] = Nil /\ Put(sid, Scenario(<<>>, ""))

Load(g) == cat[g] = Nil /\ Put(g, Scenario(FromFile(g), "github"))

(* The new scenario replaces whatever had its id before.                   *)
Clone(src, sid) ==
    /\ cat[src] # Nil
    /\ Put(sid, Scenario(CloneOf(cat[src].adapters, sid), "user"))

Delete(sid) == cat[sid] # Nil /\ Put(sid, Nil)

Rename(sid) ==
    cat[sid] # Nil /\ Put(sid, [cat[sid] EXCEPT !.name = "edited"])

SetStatus(sid, status) ==
    cat[sid] # Nil /\ Put(sid, [cat[sid] EXCEPT !.status = status])

Add(sid, x) ==
    /\ cat[sid] # Nil
    /\ PutAdapters(sid, [j \in 1 .. Len(cat[sid].adapters) + 1 |->
                            IF j <= Len(cat[sid].adapters)
                            THEN cat[sid].adapters[j] ELSE x])

(* Only the first adapter with a given id can be reached by it.            *)
Reachable(sid, i) ==
    /\ cat[sid] # Nil
    /\ i \in 1 .. Len(cat[sid].adapters)
    /\ FirstAt(cat[sid].adapters, cat[sid].adapters[i].id, i)

Remove(sid, i) ==
    /\ Reachable(sid, i)
    /\ PutAdapters(sid, [j \in 1 .. Len(cat[sid].adapters) - 1 |->
           cat[sid].adapters[IF j < i THEN j ELSE j + 1]])

SetAdapterStatus(sid, i, status) ==
    /\ Reachable(sid, i)
    /\ PutAdapter(sid, i, WithStatus(cat[sid].adapters[i], status))

SetUrl(sid, i, url) ==
    /\ cat[sid] # Nil
    /\ PutAdapter(sid, i, [cat[sid].adapters[i] EXCEPT !.url = url])

Touch(sid, i) ==
    /\ Reachable(sid, i)
    /\ PutAdapter(sid, i, [cat[sid].adapters[i] EXCEPT !.last = "recent"])

(* The launch handler's own write, which does not start the idle clock.    *)
MarkByIndex(sid, i) ==
    /\ cat[sid] # Nil
    /\ PutAdapter(sid, i, [cat[sid].adapters[i] EXCEPT !.status = "running"])

(* A new name and host key; id, type and deployment name are for life.     *)
Configure(sid, i, name) ==
    /\ Reachable(sid, i)
    /\ cat'[sid] # Nil
    /\ i \in 1 .. Len(cat'[sid].adapters)
    /\ \E key \in {cat'[sid].adapters[i].key} \cap Keys :
          PutAdapter(sid, i,
              [cat[sid].adapters[i] EXCEPT !.name = name, !.key = key])

Elapse ==
    cat' = [sid \in ScenarioIds |->
              IF cat[sid] = Nil THEN Nil
              ELSE [cat[sid] EXCEPT !.adapters =
                      [j \in 1 .. Len(@) |-> Aged(@[j])]]]

(* The process ends: nothing is persisted.                                 *)
Lose == cat' = [sid \in ScenarioIds |-> Nil]

-----------------------------------------------------------------------------

CatalogInit == cat = [sid \in ScenarioIds |-> Nil]

ChangeAdapter(sid, i) ==
    \/ Remove(sid, i)
    \/ \E status \in Statuses : SetAdapterStatus(sid, i, status)
    \/ \E url \in Urls : SetUrl(sid, i, url)
    \/ Touch(sid, i)
    \/ MarkByIndex(sid, i)
    \/ \E name \in Names : Configure(sid, i, name)

CatalogNext ==
    \/ \E sid \in ScenarioIds :
          \/ Create(sid)
          \/ Delete(sid)
          \/ \E src \in ScenarioIds : Clone(src, sid)
          \/ Rename(sid)
          \/ \E status \in Statuses : SetStatus(sid, status)
          \/ \E name \in Names, type \in Types, n \in Seconds :
                LET id == NewAdapterId(sid, type, n)
                IN  \E key \in RequestKeys(type, id) :
                       Add(sid, NewAdapter(id, name, type, key))
          \/ /\ cat[sid] # Nil
             /\ \E i \in 1 .. Len(cat[sid].adapters) : ChangeAdapter(sid, i)
    \/ \E g \in GithubIds : Load(g)
    \/ Elapse
    \/ Lose

CatalogSpec == CatalogInit /\ [][CatalogNext]_cat

=============================================================================
