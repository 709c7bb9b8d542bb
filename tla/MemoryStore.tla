----------------------------- MODULE MemoryStore ----------------------------
(***************************************************************************)
(* control-plane/store/memory.go, down to the memory it shares with its    *)
(* callers.  GetScenario hands out the pointer the map holds, GetAdapter a *)
(* pointer into the backing array of the Adapters slice, ListScenarios     *)
(* structs whose slices share their arrays with the map.  So the state is  *)
(* a small heap: scenario structs ("object") and backing arrays ("array"), *)
(* allocated in order and never reused.  A method body runs under the      *)
(* store's mutex and is one action; the writes that holders of a pointer   *)
(* make without the mutex (PokeStatus, PokeUrl) are actions too.           *)
(*                                                                         *)
(* A method that returns "not found" leaves the store alone.  UpdatedAt    *)
(* and descriptions of scenarios decide nothing and are left out.          *)
(***************************************************************************)
EXTENDS Adapters

CONSTANTS MaxObjects, MaxArrays     \* bounds on allocation

VARIABLES
    catalog,    \* s.scenarios: scenario id -> address of the struct, or Nil
    object,     \* address -> Scenario struct, or Nil while unallocated
    array       \* address -> backing array, <<>> while unallocated

storeVars == <<catalog, object, array>>

Objects == 1 .. MaxObjects
Arrays  == 1 .. MaxArrays
NoArray == 0            \* an empty slice has no backing array

Sources == {"", "user", "github"}

ScenarioStruct ==
    [arr : Arrays \cup {NoArray}, len : Nat,
     name : Titles, status : Statuses, source : Sources]

(* The heap is bounded, and nil is neither an address nor a struct.        *)
ASSUME HeapAssumption ==
    /\ MaxObjects \in Nat /\ MaxArrays \in Nat
    /\ Nil \notin Nat
    /\ Nil \notin ScenarioStruct
    /\ Nil \notin [adapters : Seq(AdapterRecord), name : Titles,
                   status : Statuses, source : Sources]

StoreTypeOK ==
    /\ catalog \in [ScenarioIds -> Objects \cup {Nil}]
    /\ object \in [Objects -> ScenarioStruct \cup {Nil}]
    /\ array \in [Arrays -> Seq(AdapterRecord \cup {Nil})]

-----------------------------------------------------------------------------
(* Slices.                                                                 *)

Cap(a) == IF a = NoArray THEN 0 ELSE Len(array[a])

(* append doubles the capacity (exactly, for arrays of up to 8 adapters).  *)
Grown(cap) == IF cap = 0 THEN 1 ELSE 2 * cap

Slots(arr, len) == [i \in 1 .. len |-> array[arr][i]]

View(o) == Slots(object[o].arr, object[o].len)

Fresh(o) ==
    /\ o \in Objects
    /\ object[o] = Nil
    /\ \A p \in 1 .. (o - 1) : object[p] # Nil

FreshArray(a) ==
    /\ a \in Arrays
    /\ array[a] = <<>>
    /\ \A b \in 1 .. (a - 1) : array[b] # <<>>

Holds(sid) == catalog[sid] # Nil

AdaptersOf(sid) == View(catalog[sid])

AdapterAt(sid, i) == array[object[catalog[sid]].arr][i]

(* scenario.Adapters[i] = x                                                *)
SetSlot(o, i, x) ==
    /\ array' = [array EXCEPT ![object[o].arr][i] = x]
    /\ UNCHANGED <<catalog, object>>

(* The loop "for i := range scenario.Adapters { if ...ID == adapterID".    *)
Lookup(sid, id, i) == Holds(sid) /\ FirstAt(AdaptersOf(sid), id, i)

(* The positions it can return, and its failure.                           *)
Positions(sid) == IF Holds(sid) THEN 1 .. object[catalog[sid]].len ELSE {}

Lacks(sid, id) == Holds(sid) => ~Occurs(AdaptersOf(sid), id)

(* A new struct whose slice is made with exactly the capacity it needs.    *)
Publish(sid, xs, source) ==
    \E o \in Objects :
        /\ Fresh(o)
        /\ catalog' = [catalog EXCEPT ![sid] = o]
        /\ \/ /\ xs = <<>>
              /\ object' = [object EXCEPT ![o] =
                    [arr |-> NoArray, len |-> 0, name |-> "given",
                     status |-> "stopped", source |-> source]]
              /\ UNCHANGED array
           \/ /\ xs # <<>>
              /\ \E a \in Arrays :
                    /\ FreshArray(a)
                    /\ array' = [array EXCEPT ![a] = xs]
                    /\ object' = [object EXCEPT ![o] =
                          [arr |-> a, len |-> Len(xs), name |-> "given",
                           status |-> "stopped", source |-> source]]

-----------------------------------------------------------------------------
(* The methods.                                                            *)

CreateScenario(sid) ==
    IF Holds(sid) THEN UNCHANGED storeVars ELSE Publish(sid, <<>>, "")

LoadGitHubScenario(g) ==
    IF Holds(g) THEN UNCHANGED storeVars
    ELSE Publish(g, FromFile(g), "github")

(* Mutant: the clone's struct is a copy of the source's, slice header and  *)
(* all.                                                                    *)
CloneScenarioShallow(src, sid) ==
    IF Holds(src)
    THEN \E o \in Objects :
            /\ Fresh(o)
            /\ catalog' = [catalog EXCEPT ![sid] = o]
            /\ object' = [object EXCEPT ![o] =
                  [object[catalog[src]] EXCEPT !.source = "user"]]
            /\ UNCHANGED array
    ELSE UNCHANGED storeVars

(* The map entry of the new id is overwritten without a look.              *)
CloneScenario(src, sid) ==
    IF Holds(src) THEN Publish(sid, CloneOf(AdaptersOf(src), sid), "user")
    ELSE UNCHANGED storeVars

(* Pointers to the struct stay good; only the map forgets it.              *)
DeleteScenario(sid) ==
    /\ catalog' = [catalog EXCEPT ![sid] = Nil]
    /\ UNCHANGED <<object, array>>

UpdateScenario(sid) ==
    /\ IF Holds(sid)
       THEN object' = [object EXCEPT ![catalog[sid]].name = "edited"]
       ELSE UNCHANGED object
    /\ UNCHANGED <<catalog, array>>

UpdateScenarioStatus(sid, status) ==
    /\ IF Holds(sid)
       THEN object' = [object EXCEPT ![catalog[sid]].status = status]
       ELSE UNCHANGED object
    /\ UNCHANGED <<catalog, array>>

(* append: in place while the array has room, else into a new array; the   *)
(* old one lives on for whoever captured it.                               *)
AppendInPlace(o, x) ==
    /\ object[o].len < Cap(object[o].arr)
    /\ array' = [array EXCEPT ![object[o].arr][object[o].len + 1] = x]
    /\ object' = [object EXCEPT ![o].len = @ + 1]

AppendGrowing(o, x) ==
    LET len == object[o].len
        arr == object[o].arr
    IN  /\ len = Cap(arr)
        /\ \E a \in Arrays :
              /\ FreshArray(a)
              /\ array' = [array EXCEPT ![a] =
                    [i \in 1 .. Grown(len) |->
                        IF i <= len THEN array[arr][i]
                        ELSE IF i = len + 1 THEN x ELSE Nil]]
              /\ object' = [object EXCEPT ![o].arr = a, ![o].len = @ + 1]

AddAdapter(sid, x) ==
    IF Holds(sid)
    THEN /\ AppendInPlace(catalog[sid], x) \/ AppendGrowing(catalog[sid], x)
         /\ UNCHANGED catalog
    ELSE UNCHANGED storeVars

(* Mutants: slices.Delete, which zeroes the slot it vacates; the wrong     *)
(* element goes.                                                           *)
ShiftDownZeroing(xs, i, len) ==
    [k \in 1 .. Len(xs) |-> IF k = len THEN Nil
                            ELSE IF i <= k /\ k < len THEN xs[k + 1] ELSE xs[k]]

ShiftDownNext(xs, i, len) ==
    [k \in 1 .. Len(xs) |-> IF i < k /\ k < len THEN xs[k + 1] ELSE xs[k]]

(* append(a[:i], a[i+1:]...): the tail moves down IN the array, under the  *)
(* feet of everyone who holds a slice or a pointer into it, and the last   *)
(* slot keeps its old contents.                                            *)
ShiftDown(xs, i, len) ==
    [k \in 1 .. Len(xs) |-> IF i <= k /\ k < len THEN xs[k + 1] ELSE xs[k]]

(* Mutant: slices.Delete, and its result is dropped.                       *)
DeleteAdapterDropped(sid, id) ==
    \/ Lacks(sid, id) /\ UNCHANGED storeVars
    \/ \E i \in Positions(sid) :
          /\ Lookup(sid, id, i)
          /\ LET s == object[catalog[sid]]
             IN  array' = [array EXCEPT ![s.arr] = ShiftDownZeroing(@, i, s.len)]
          /\ UNCHANGED <<catalog, object>>

DeleteAdapter(sid, id) ==
    \/ /\ Lacks(sid, id)
       /\ UNCHANGED storeVars
    \/ \E i \in Positions(sid) :
          /\ Lookup(sid, id, i)
          /\ LET o == catalog[sid]
                 a == object[o].arr
             IN  /\ array' = [array EXCEPT ![a] =
                                ShiftDown(@, i, object[o].len)]
                 /\ object' = [object EXCEPT ![o].len = @ - 1]
          /\ UNCHANGED catalog

UpdateAdapterStatus(sid, id, status) ==
    \/ Lacks(sid, id) /\ UNCHANGED storeVars
    \/ \E i \in Positions(sid) :
          /\ Lookup(sid, id, i)
          /\ SetSlot(catalog[sid], i, WithStatus(AdapterAt(sid, i), status))

UpdateAdapterIngressURL(sid, id, url) ==
    \/ Lacks(sid, id) /\ UNCHANGED storeVars
    \/ \E i \in Positions(sid) :
          /\ Lookup(sid, id, i)
          /\ SetSlot(catalog[sid], i, [AdapterAt(sid, i) EXCEPT !.url = url])

(* Mutant: the name is written even if the request has none.               *)
UpdateAdapterBlanking(sid, id, name, key) ==
    \/ Lacks(sid, id) /\ UNCHANGED storeVars
    \/ \E i \in Positions(sid) :
          /\ Lookup(sid, id, i)
          /\ SetSlot(catalog[sid], i,
                [AdapterAt(sid, i) EXCEPT !.name = name, !.key = key])

(* An empty name leaves the name alone.  DeploymentName is never touched.  *)
UpdateAdapter(sid, id, name, key) ==
    \/ Lacks(sid, id) /\ UNCHANGED storeVars
    \/ \E i \in Positions(sid) :
          /\ Lookup(sid, id, i)
          /\ SetSlot(catalog[sid], i,
                [AdapterAt(sid, i) EXCEPT
                    !.name = IF name = Nil THEN @ ELSE name, !.key = key])

(* The scenarios are searched in map order, that is in any order.          *)
RecordAdapterActivity(id) ==
    \/ /\ \A sid \in ScenarioIds : Lacks(sid, id)
       /\ UNCHANGED storeVars
    \/ \E sid \in ScenarioIds : \E i \in Positions(sid) :
          /\ Lookup(sid, id, i)
          /\ SetSlot(catalog[sid], i, [AdapterAt(sid, i) EXCEPT !.last = "recent"])

-----------------------------------------------------------------------------
(* What happens to the store from outside its methods.                     *)

(* scenario.Adapters[i].Status = "running" through a pointer from          *)
(* GetScenario, without the mutex.                                         *)
PokeStatus(o, i) == SetSlot(o, i, [View(o)[i] EXCEPT !.status = "running"])

PokeUrl(o, i, url) == SetSlot(o, i, [View(o)[i] EXCEPT !.url = url])

TimePasses ==
    /\ array' = [a \in Arrays |->
                   [k \in 1 .. Len(array[a]) |-> Aged(array[a][k])]]
    /\ UNCHANGED <<catalog, object>>

(* The process starts: an empty map on an empty heap.                      *)
NewMemoryStore ==
    /\ catalog' = [sid \in ScenarioIds |-> Nil]
    /\ object' = [o \in Objects |-> Nil]
    /\ array' = [a \in Arrays |-> <<>>]

-----------------------------------------------------------------------------

StoreInit ==
    /\ catalog = [sid \in ScenarioIds |-> Nil]
    /\ object = [o \in Objects |-> Nil]
    /\ array = [a \in Arrays |-> <<>>]

(* The ids and keys some adapter of the heap carries.                      *)
Stored == UNION { {array[a][i] : i \in 1 .. Len(array[a])} : a \in Arrays }
KnownIds  == { x.id : x \in Stored \ {Nil} }
KnownKeys == { x.key : x \in Stored \ {Nil} } \cup {UserKey}

ScenarioStep ==
    \E sid \in ScenarioIds :
        \/ CreateScenario(sid)
        \/ DeleteScenario(sid)
        \/ \E src \in ScenarioIds : CloneScenario(src, sid)
        \/ UpdateScenario(sid)
        \/ \E status \in Statuses : UpdateScenarioStatus(sid, status)
        \/ \E name \in Names, type \in Types, n \in Seconds :
              LET id == NewAdapterId(sid, type, n)
              IN  \E key \in RequestKeys(type, id) :
                     AddAdapter(sid, NewAdapter(id, name, type, key))

AdapterStep ==
    \E sid \in ScenarioIds, id \in KnownIds :
        \/ DeleteAdapter(sid, id)
        \/ \E status \in Statuses : UpdateAdapterStatus(sid, id, status)
        \/ \E url \in Urls : UpdateAdapterIngressURL(sid, id, url)
        \/ \E name \in Names \cup {Nil}, key \in KnownKeys :
              UpdateAdapter(sid, id, name, key)
        \/ RecordAdapterActivity(id)

PointerStep ==
    \E o \in Objects :
        /\ object[o] # Nil
        /\ \E i \in 1 .. object[o].len :
              PokeStatus(o, i) \/ \E url \in Urls : PokeUrl(o, i, url)

StoreNext ==
    \/ ScenarioStep
    \/ AdapterStep
    \/ PointerStep
    \/ \E g \in GithubIds : LoadGitHubScenario(g)
    \/ TimePasses
    \/ NewMemoryStore

StoreSpec == StoreInit /\ [][StoreNext]_storeVars

-----------------------------------------------------------------------------
(* Properties.                                                             *)

(* The map leads to structs.                                               *)
CatalogValid ==
    \A sid \in ScenarioIds : catalog[sid] # Nil => object[catalog[sid]] # Nil

(* Every slice lies within its backing array and shows only adapters that  *)
(* were put there: no in-place delete or append leaves a hole in it.       *)
SliceShape ==
    \A o \in Objects : object[o] # Nil =>
        /\ object[o].arr = NoArray => object[o].len = 0
        /\ object[o].arr # NoArray => array[object[o].arr] # <<>>
        /\ object[o].len <= Cap(object[o].arr)
        /\ \A i \in 1 .. object[o].len : View(o)[i] # Nil

(* Two scenarios never share a backing array, and no two ids share a       *)
(* scenario, whatever was cloned, deleted or grown: an in-place delete in  *)
(* one scenario cannot move the adapters of another.                       *)
NoAliasing ==
    /\ \A o, p \in Objects :
          /\ object[o] # Nil /\ object[p] # Nil
          /\ object[o].arr = object[p].arr
          /\ object[o].arr # NoArray
          => o = p
    /\ \A s, t \in ScenarioIds :
          catalog[s] = catalog[t] /\ catalog[s] # Nil => s = t

(* The three, with the types, are inductive.                               *)
StoreInv == StoreTypeOK /\ CatalogValid /\ SliceShape /\ NoAliasing

(* A method or an unlocked write changes the adapters of one scenario      *)
(* struct at most; only the clock and a restart reach all of them.         *)
Changed(o) == object[o] # Nil /\ View(o)' # View(o)

Isolation ==
    [][ \/ TimePasses
        \/ NewMemoryStore
        \/ \A o, p \in Objects : Changed(o) /\ Changed(p) => o = p ]_storeVars

(* The refinement mapping forgets addresses.                               *)
Value ==
    [sid \in ScenarioIds |->
        IF catalog[sid] = Nil THEN Nil
        ELSE [ adapters |-> View(catalog[sid]),
               name |-> object[catalog[sid]].name,
               status |-> object[catalog[sid]].status,
               source |-> object[catalog[sid]].source ] ]

Promised == INSTANCE ScenarioCatalog WITH cat <- Value

(* The heap of pointers and slices implements the map of plain values:     *)
(* delete really removes one element, append really adds one, a clone is   *)
(* a deep copy and a write through a pointer hits one adapter.             *)
ImplementsCatalog == Promised!CatalogSpec

=====
