---------------------------- MODULE SerialProofs ----------------------------
(***************************************************************************)
(* One request at a time.  Nothing in control-plane/api keeps two requests *)
(* apart, and much of what its handlers are for holds only if they come    *)
(* one after the other.  Then a handler is in step with the store          *)
(* (SerialInv): what it captured at its beginning is still what the store  *)
(* holds, and the adapter it works on is the one its id leads to.          *)
(***************************************************************************)
EXTENDS ControlPlaneProofs

-----------------------------------------------------------------------------
(* What steps do to the slots of the scenarios.                            *)

Arr(sid)   == object[catalog[sid]].arr
Size(sid)  == object[catalog[sid]].len
Label(sid) == object[catalog[sid]].status

(* Every scenario keeps its slice, but not what the slots hold.            *)
SameSlots ==
    \A t \in ScenarioIds :
        /\ catalog'[t] = catalog[t]
        /\ Holds(t) => Arr(t)' = Arr(t) /\ Size(t)' = Size(t)

SameLabels == \A t \in ScenarioIds : Holds(t) => Label(t)' = Label(t)

Written(sid, i, x) ==
    /\ SameSlots /\ SameLabels
    /\ \A t \in ScenarioIds : \A j \in Positions(t) :
          AdapterAt(t, j)' = IF t = sid /\ j = i THEN x ELSE AdapterAt(t, j)

(* Nothing becomes of the adapters.                                        *)
SameAdapters ==
    /\ SameSlots
    /\ \A t \in ScenarioIds : \A j \in Positions(t) : AdapterAt(t, j)' = AdapterAt(t, j)

(* The adapter at i goes, those behind it move up.                         *)
Vacated(sid, i) ==
    /\ catalog' = catalog /\ SameLabels
    /\ \A t \in ScenarioIds : Holds(t) =>
          Size(t)' = IF t = sid THEN Size(t) - 1 ELSE Size(t)
    /\ \A t \in ScenarioIds : \A j \in Positions(t)' :
          AdapterAt(t, j)' = AdapterAt(t, IF t = sid /\ j >= i THEN j + 1 ELSE j)

(* One adapter more.                                                       *)
Extended(sid, x) ==
    /\ catalog' = catalog /\ SameLabels
    /\ \A t \in ScenarioIds : Holds(t) =>
          Size(t)' = IF t = sid THEN Size(t) + 1 ELSE Size(t)
    /\ \A t \in ScenarioIds : \A j \in Positions(t)' :
          AdapterAt(t, j)' = IF t = sid /\ j = Size(sid) + 1 THEN x ELSE AdapterAt(t, j)

(* A new scenario, where there was none.                                   *)
Founded(sid, xs) ==
    /\ ~ Holds(sid)
    /\ \A t \in ScenarioIds :
          IF t = sid
          THEN Holds(t)' /\ Size(t)' = Len(xs) /\ Label(t)' = "stopped"
          ELSE /\ catalog'[t] = catalog[t]
               /\ Holds(t) => Size(t)' = Size(t) /\ Label(t)' = Label(t)
    /\ \A t \in ScenarioIds : \A j \in Positions(t)' :
          AdapterAt(t, j)' = IF t = sid THEN xs[j] ELSE AdapterAt(t, j)

(* A scenario goes.                                                        *)
Dropped(sid) ==
    /\ \A t \in ScenarioIds : catalog'[t] = IF t = sid THEN Nil ELSE catalog[t]
    /\ UNCHANGED <<object, array>>

LEMMA SlotFacts ==
    ASSUME StoreInv, NEW sid \in ScenarioIds, Holds(sid)
    PROVE  /\ catalog[sid] \in Objects /\ object[catalog[sid]] # Nil
           /\ Size(sid) \in Nat /\ Positions(sid) = 1 .. Size(sid)
           /\ \A i \in Positions(sid) :
                 /\ Arr(sid) \in Arrays /\ i \in 1 .. Len(array[Arr(sid)])
                 /\ AdapterAt(sid, i) = array[Arr(sid)][i]
                 /\ AdapterAt(sid, i) \in AdapterRecord
<1>1. catalog[sid] \in Objects /\ object[catalog[sid]] # Nil
  BY CatalogFacts DEF Holds
<1>2. /\ Size(sid) \in Nat /\ Arr(sid) \in Arrays \cup {NoArray}
      /\ Arr(sid) = NoArray => Size(sid) = 0
      /\ Arr(sid) # NoArray => Size(sid) <= Len(array[Arr(sid)])
      /\ \A i \in 1 .. Size(sid) : array[Arr(sid)][i] \in AdapterRecord
  BY <1>1, SliceFacts DEF Size, Arr
<1>3. Positions(sid) = 1 .. Size(sid)
  BY DEF Positions, Size
<1>4. ASSUME NEW i \in 1 .. Size(sid), Arr(sid) \in Arrays
      PROVE  i \in 1 .. Len(array[Arr(sid)])
  <2>1. array[Arr(sid)] \in Seq(AdapterRecord \cup {Nil})
    BY <1>4 DEF StoreInv, StoreTypeOK
  <2>2. Size(sid) <= Len(array[Arr(sid)]) /\ Len(array[Arr(sid)]) \in Nat
    BY <1>2, <1>4, <2>1 DEF Arrays, NoArray
  <2>3. QED
    BY <1>2, <1>4, <2>2
<1>5. QED
  BY <1>1, <1>2, <1>3, <1>4 DEF AdapterAt, Arr

(* Scenarios do not share structs nor arrays.                              *)
LEMMA ScenariosApart ==
    ASSUME StoreInv, NEW s \in ScenarioIds, NEW t \in ScenarioIds, s # t,
           Holds(s), Holds(t)
    PROVE  /\ catalog[s] # catalog[t]
           /\ Positions(s) # {} => Arr(s) # Arr(t)
<1>1. catalog[s] # catalog[t]
  BY DEF StoreInv, NoAliasing, Holds
<1>2. ASSUME NEW i \in Positions(s)
      PROVE  Arr(s) # Arr(t)
  BY <1>1, <1>2, SlotFacts DEF StoreInv, NoAliasing, Arr, Arrays, NoArray
<1>3. QED
  BY <1>1, <1>2

LEMMA SetSlotWrites ==
    ASSUME StoreInv, NEW sid \in ScenarioIds, NEW i \in Positions(sid),
           NEW x \in AdapterRecord, SetSlot(catalog[sid], i, x)
    PROVE  Written(sid, i, x)
<1>1. /\ Holds(sid) /\ catalog[sid] \in Objects /\ object[catalog[sid]] # Nil
      /\ i \in 1 .. object[catalog[sid]].len
  BY LookupFacts
<1>2. /\ UNCHANGED <<catalog, object>> /\ Arr(sid) \in Arrays
      /\ \A b \in Arrays : \A k \in 1 .. Len(array[b]) :
            array'[b][k] = IF b = Arr(sid) /\ k = i THEN x ELSE array[b][k]
  BY <1>1, SetSlotEffect DEF Arr
<1>3. SameSlots /\ SameLabels
  BY <1>2 DEF SameSlots, SameLabels, Arr, Size, Label
<1>4. ASSUME NEW t \in ScenarioIds, NEW j \in Positions(t)
      PROVE  AdapterAt(t, j)' = IF t = sid /\ j = i THEN x ELSE AdapterAt(t, j)
  <2>1. /\ Holds(t) /\ Arr(t) \in Arrays /\ j \in 1 .. Len(array[Arr(t)])
        /\ AdapterAt(t, j) = array[Arr(t)][j]
    BY SlotFacts DEF Positions
  <2>2. AdapterAt(t, j)' = array'[Arr(t)][j]
    BY <1>2 DEF AdapterAt, Arr
  <2>3. t # sid => Arr(t) # Arr(sid)
    BY <1>1, <2>1, ScenariosApart
  <2>4. QED
    BY <1>2, <2>1, <2>2, <2>3
<1>5. QED
  BY <1>3, <1>4 DEF Written

LEMMA UnchangedAdapters ==
    ASSUME UNCHANGED storeVars
    PROVE  SameAdapters /\ SameLabels
BY DEF storeVars, SameAdapters, SameSlots, SameLabels, Arr, Size, Label, AdapterAt

(* In a scenario whose ids differ, a method finds the adapter that the id  *)
(* is of.                                                                  *)
IdsDiffer(sid) ==
    \A i, j \in Positions(sid) : AdapterAt(sid, i).id = AdapterAt(sid, j).id => i = j

LEMMA FoundByIds ==
    ASSUME StoreInv, NEW sid \in ScenarioIds, IdsDiffer(sid), NEW i \in Positions(sid)
    PROVE  /\ ~ Lacks(sid, AdapterAt(sid, i).id)
           /\ \A k \in Positions(sid) : Lookup(sid, AdapterAt(sid, i).id, k) => k = i
<1>1. /\ Holds(sid) /\ catalog[sid] \in Objects /\ object[catalog[sid]] # Nil
      /\ Positions(sid) = 1 .. object[catalog[sid]].len
  BY LookupFacts DEF Positions
<1>2. \A k \in Positions(sid) : AdaptersOf(sid)[k] = AdapterAt(sid, k)
  BY <1>1, SliceFacts DEF AdaptersOf, AdapterAt
<1>3. Len(AdaptersOf(sid)) = object[catalog[sid]].len
  BY <1>1, ViewType DEF AdaptersOf
<1>4. ~ Lacks(sid, AdapterAt(sid, i).id)
  BY <1>1, <1>2, <1>3 DEF Lacks, Occurs
<1>5. \A k \in Positions(sid) : Lookup(sid, AdapterAt(sid, i).id, k) => k = i
  BY <1>2 DEF Lookup, FirstAt, IdsDiffer
<1>6. QED
  BY <1>4, <1>5

LEMMA StatusWritten ==
    ASSUME StoreInv, NEW sid \in ScenarioIds, IdsDiffer(sid), NEW i \in Positions(sid),
           NEW status \in Statuses, UpdateAdapterStatus(sid, AdapterAt(sid, i).id, status)
    PROVE  Written(sid, i, WithStatus(AdapterAt(sid, i), status))
<1>1. WithStatus(AdapterAt(sid, i), status) \in AdapterRecord
  BY LookupFacts DEF WithStatus, AdapterRecord, Activity
<1>2. SetSlot(catalog[sid], i, WithStatus(AdapterAt(sid, i), status))
  BY FoundByIds DEF UpdateAdapterStatus
<1>3. QED
  BY <1>1, <1>2, SetSlotWrites

LEMMA UrlWritten ==
    ASSUME StoreInv, NEW sid \in ScenarioIds, IdsDiffer(sid), NEW i \in Positions(sid),
           NEW url \in Urls, UpdateAdapterIngressURL(sid, AdapterAt(sid, i).id, url)
    PROVE  Written(sid, i, [AdapterAt(sid, i) EXCEPT !.url = url])
<1>1. [AdapterAt(sid, i) EXCEPT !.url = url] \in AdapterRecord
  BY LookupFacts DEF AdapterRecord
<1>2. SetSlot(catalog[sid], i, [AdapterAt(sid, i) EXCEPT !.url = url])
  BY FoundByIds DEF UpdateAdapterIngressURL
<1>3. QED
  BY <1>1, <1>2, SetSlotWrites

LEMMA UpdateWritten ==
    ASSUME StoreInv, NEW sid \in ScenarioIds, IdsDiffer(sid), NEW i \in Positions(sid),
           NEW name \in Names \cup {Nil}, NEW key \in Keys,
           UpdateAdapter(sid, AdapterAt(sid, i).id, name, key)
    PROVE  Written(sid, i, [AdapterAt(sid, i) EXCEPT
               !.name = IF name = Nil THEN @ ELSE name, !.key = key])
<1>1. [AdapterAt(sid, i) EXCEPT !.name = IF name = Nil THEN @ ELSE name, !.key = key]
         \in AdapterRecord
  BY LookupFacts DEF AdapterRecord
<1>2. SetSlot(catalog[sid], i, [AdapterAt(sid, i) EXCEPT
                 !.name = IF name = Nil THEN @ ELSE name, !.key = key])
  BY FoundByIds DEF UpdateAdapter
<1>3. QED
  BY <1>1, <1>2, SetSlotWrites

LEMMA PokeWritten ==
    ASSUME StoreInv, NEW sid \in ScenarioIds, NEW i \in Positions(sid)
    PROVE  /\ PokeStatus(catalog[sid], i) =>
                 Written(sid, i, [AdapterAt(sid, i) EXCEPT !.status = "running"])
           /\ \A url \in Urls : PokeUrl(catalog[sid], i, url) =>
                 Written(sid, i, [AdapterAt(sid, i) EXCEPT !.url = url])
<1>1. View(catalog[sid])[i] = AdapterAt(sid, i) /\ AdapterAt(sid, i) \in AdapterRecord
  BY LookupFacts, SliceFacts DEF AdapterAt
<1>2. /\ [AdapterAt(sid, i) EXCEPT !.status = "running"] \in AdapterRecord
      /\ \A url \in Urls : [AdapterAt(sid, i) EXCEPT !.url = url] \in AdapterRecord
  BY <1>1 DEF AdapterRecord, Statuses
<1>3. QED
  BY <1>1, <1>2, SetSlotWrites DEF PokeStatus, PokeUrl

LEMMA AdapterVacated ==
    ASSUME StoreInv, NEW sid \in ScenarioIds, IdsDiffer(sid), NEW i \in Positions(sid),
           DeleteAdapter(sid, AdapterAt(sid, i).id)
    PROVE  Vacated(sid, i)
<1> DEFINE id == AdapterAt(sid, i).id
           o == catalog[sid]
           n == object[o].len
<1>1. /\ ~ Lacks(sid, id) /\ Holds(sid)
      /\ \A k \in Positions(sid) : Lookup(sid, id, k) => k = i
  BY FoundByIds, LookupFacts
<1>2. ~ UNCHANGED storeVars
  <2>1. PICK k \in Positions(sid) :
           object' = [object EXCEPT ![o].len = @ - 1]
    BY <1>1 DEF DeleteAdapter
  <2>2. o \in Objects /\ object[o] \in ScenarioStruct /\ n \in Nat
    BY <1>1, SlotFacts, SliceFacts DEF Size
  <2>3. object \in [Objects -> ScenarioStruct \cup {Nil}]
    BY DEF StoreInv, StoreTypeOK
  <2>4. object'[o].len = n - 1
    BY <2>1, <2>2, <2>3 DEF ScenarioStruct
  <2>5. QED
    BY <2>2, <2>4 DEF storeVars
<1>3. TakenOut(sid, id, i)
  BY <1>1, <1>2, DeleteAdapterEffect DEF TakenOut
<1>4. /\ UNCHANGED catalog /\ o \in Objects /\ object[o] # Nil /\ n \in Nat /\ i \in 1 .. n
      /\ Arr(sid) \in Arrays /\ n <= Len(array[Arr(sid)])
      /\ object' = [object EXCEPT ![o] = [object[o] EXCEPT !.len = n - 1]]
      /\ \A b \in Arrays : \A k \in 1 .. Len(array[b]) :
            array'[b][k] = IF b = Arr(sid) /\ i <= k /\ k < n
                           THEN array[b][k + 1] ELSE array[b][k]
  BY <1>3 DEF TakenOut, Arr
<1>5. /\ Size(sid)' = n - 1 /\ Arr(sid)' = Arr(sid) /\ Label(sid)' = Label(sid)
      /\ \A t \in ScenarioIds \ {sid} : Holds(t) =>
            Size(t)' = Size(t) /\ Arr(t)' = Arr(t) /\ Label(t)' = Label(t)
  <2>1. object \in [Objects -> ScenarioStruct \cup {Nil}] /\ object[o] \in ScenarioStruct
    BY <1>4, SliceFacts DEF StoreInv, StoreTypeOK
  <2>2. \A t \in ScenarioIds \ {sid} : Holds(t) =>
           catalog[t] \in Objects /\ catalog[t] # o
    BY <1>1, SlotFacts, ScenariosApart
  <2>3. /\ object'[o] = [object[o] EXCEPT !.len = n - 1]
        /\ \A q \in Objects : q # o => object'[q] = object[q]
    BY <1>4, <2>1
  <2>4. QED
    BY <1>4, <2>1, <2>2, <2>3 DEF Size, Arr, Label, ScenarioStruct
<1>6. ASSUME NEW t \in ScenarioIds, NEW j \in Positions(t)'
      PROVE  AdapterAt(t, j)' = AdapterAt(t, IF t = sid /\ j >= i THEN j + 1 ELSE j)
  <2>1. Holds(t) /\ j \in 1 .. Size(t)'
    BY <1>4 DEF Positions, Holds, Size
  <2>2. AdapterAt(t, j)' = array'[Arr(t)][j]
    BY <1>4, <1>5, <2>1 DEF AdapterAt, Arr
  <2>3. CASE t = sid
    <3>1. j \in 1 .. (n - 1) /\ j \in 1 .. Len(array[Arr(sid)])
      BY <1>4, <1>5, <2>1, <2>3, SlotFacts
    <3>2. QED
      BY <1>4, <2>2, <2>3, <3>1 DEF AdapterAt, Arr
  <2>4. CASE t # sid
    <3>1. j \in Positions(t)
      BY <1>5, <2>1, <2>4, SlotFacts
    <3>2. /\ Arr(t) \in Arrays /\ j \in 1 .. Len(array[Arr(t)])
          /\ AdapterAt(t, j) = array[Arr(t)][j]
      BY <2>1, <3>1, SlotFacts
    <3>3. Arr(t) # Arr(sid)
      BY <1>1, <2>1, <2>4, <3>1, ScenariosApart
    <3>4. QED
      BY <1>4, <2>2, <2>4, <3>2, <3>3
  <2>5. QED
    BY <2>3, <2>4
<1>7. SameLabels
  BY <1>5 DEF SameLabels
<1>8. QED
  BY <1>4, <1>5, <1>6, <1>7 DEF Vacated, Size

LEMMA AdapterAdded ==
    ASSUME StoreInv, NEW sid \in ScenarioIds, Holds(sid), NEW x \in AdapterRecord,
           AddAdapter(sid, x)
    PROVE  Extended(sid, x)
<1> DEFINE o == catalog[sid]
           n == object[o].len
<1>1. PICK c \in Arrays : Appended(sid, x, c)
  BY AddAdapterEffect
<1>2. /\ UNCHANGED catalog /\ o \in Objects /\ object[o] # Nil /\ n \in Nat
      /\ object' = [object EXCEPT ![o] = [object[o] EXCEPT !.arr = c, !.len = n + 1]]
      /\ \A b \in Arrays : b # c => array'[b] = array[b]
      /\ c = Arr(sid) \/ array[c] = <<>>
      /\ array'[c][n + 1] = x
      /\ \A k \in 1 .. n : array'[c][k] = array[Arr(sid)][k]
  BY <1>1 DEF Appended, Arr
<1>3. /\ Size(sid)' = n + 1 /\ Arr(sid)' = c /\ Label(sid)' = Label(sid)
      /\ \A t \in ScenarioIds \ {sid} : Holds(t) =>
            Size(t)' = Size(t) /\ Arr(t)' = Arr(t) /\ Label(t)' = Label(t)
  <2>1. object \in [Objects -> ScenarioStruct \cup {Nil}] /\ object[o] \in ScenarioStruct
    BY <1>2, SliceFacts DEF StoreInv, StoreTypeOK
  <2>2. \A t \in ScenarioIds \ {sid} : Holds(t) =>
           catalog[t] \in Objects /\ catalog[t] # o
    BY SlotFacts, ScenariosApart
  <2>3. /\ object'[o] = [object[o] EXCEPT !.arr = c, !.len = n + 1]
        /\ \A q \in Objects : q # o => object'[q] = object[q]
    BY <1>2, <2>1
  <2>4. QED
    BY <1>2, <2>1, <2>2, <2>3 DEF Size, Arr, Label, ScenarioStruct
<1>4. ASSUME NEW t \in ScenarioIds, NEW j \in Positions(t)'
      PROVE  AdapterAt(t, j)' = IF t = sid /\ j = n + 1 THEN x ELSE AdapterAt(t, j)
  <2>1. Holds(t) /\ j \in 1 .. Size(t)'
    BY <1>2 DEF Positions, Holds, Size
  <2>2. AdapterAt(t, j)' = array'[Arr(t)'][j]
    BY <1>2 DEF AdapterAt, Arr
  <2>3. CASE t = sid
    <3>1. j \in 1 .. (n + 1)
      BY <1>3, <2>1, <2>3
    <3>2. QED
      BY <1>2, <1>3, <2>2, <2>3, <3>1 DEF AdapterAt, Arr
  <2>4. CASE t # sid
    <3>1. j \in Positions(t)
      BY <1>3, <2>1, <2>4, SlotFacts
    <3>2. /\ Arr(t) \in Arrays /\ j \in 1 .. Len(array[Arr(t)])
          /\ AdapterAt(t, j) = array[Arr(t)][j]
      BY <2>1, <3>1, SlotFacts
    <3>3. Arr(t) # Arr(sid)
      BY <2>1, <2>4, <3>1, ScenariosApart
    <3>4. array[Arr(t)] # <<>>
      BY <3>2
    <3>5. QED
      BY <1>2, <1>3, <2>1, <2>2, <2>4, <3>2, <3>3, <3>4
  <2>5. QED
    BY <2>3, <2>4
<1>5. SameLabels
  BY <1>3 DEF SameLabels
<1>6. QED
  BY <1>2, <1>3, <1>4, <1>5 DEF Extended, Size

LEMMA ScenarioPublished ==
    ASSUME StoreInv, NEW sid \in ScenarioIds, ~ Holds(sid), NEW xs \in Seq(AdapterRecord),
           NEW source \in Sources, Publish(sid, xs, source)
    PROVE  Founded(sid, xs)
<1>1. PICK o \in Objects, r \in ScenarioStruct :
             /\ object[o] = Nil
             /\ catalog' = [catalog EXCEPT ![sid] = o]
             /\ object' = [object EXCEPT ![o] = r]
             /\ r.len = Len(xs) /\ r.status = "stopped"
             /\ r.arr = NoArray => xs = <<>>
             /\ r.arr # NoArray => array[r.arr] = <<>> /\ array'[r.arr] = xs
             /\ \A b \in Arrays : b # r.arr => array'[b] = array[b]
  BY PublishEffect
<1>2. /\ catalog'[sid] = o /\ \A t \in ScenarioIds \ {sid} : catalog'[t] = catalog[t]
      /\ object'[o] = r /\ \A q \in Objects : q # o => object'[q] = object[q]
  BY <1>1 DEF StoreInv, StoreTypeOK
<1>3. /\ Holds(sid)' /\ Size(sid)' = Len(xs) /\ Label(sid)' = "stopped" /\ Arr(sid)' = r.arr
  <2>1. o # Nil
    BY HeapAssumption DEF Objects
  <2>2. QED
    BY <1>1, <1>2, <2>1 DEF Holds, Size, Label, Arr
<1>4. \A t \in ScenarioIds \ {sid} : Holds(t) =>
         Size(t)' = Size(t) /\ Label(t)' = Label(t) /\ Arr(t)' = Arr(t)
  <2>1. \A t \in ScenarioIds \ {sid} : Holds(t) => catalog[t] \in Objects /\ catalog[t] # o
    BY <1>1, SlotFacts
  <2>2. QED
    BY <1>2, <2>1 DEF Size, Label, Arr
<1>5. ASSUME NEW t \in ScenarioIds, NEW j \in Positions(t)'
      PROVE  AdapterAt(t, j)' = IF t = sid THEN xs[j] ELSE AdapterAt(t, j)
  <2>1. Holds(t)' /\ j \in 1 .. Size(t)' /\ AdapterAt(t, j)' = array'[Arr(t)'][j]
    BY DEF Positions, Holds, Size, AdapterAt, Arr
  <2>2. CASE t = sid
    <3>1. r.arr # NoArray
      <4>1. xs # <<>>
        BY <1>3, <2>1, <2>2
      <4>2. QED
        BY <1>1, <4>1
    <3>2. QED
      BY <1>1, <1>3, <2>1, <2>2, <3>1
  <2>3. CASE t # sid
    <3>1. Holds(t) /\ j \in Positions(t)
      BY <1>2, <1>4, <2>1, <2>3, SlotFacts DEF Holds
    <3>2. /\ Arr(t) \in Arrays /\ j \in 1 .. Len(array[Arr(t)])
          /\ AdapterAt(t, j) = array[Arr(t)][j]
      BY <3>1, SlotFacts
    <3>3. array[Arr(t)] # <<>>
      BY <3>2
    <3>4. Arr(t) # r.arr
      <4>1. r.arr = NoArray \/ array[r.arr] = <<>>
        BY <1>1
      <4>2. Arr(t) # NoArray
        BY <3>2 DEF Arrays, NoArray
      <4>3. QED
        BY <3>3, <4>1, <4>2
    <3>5. array'[Arr(t)] = array[Arr(t)]
      BY <1>1, <3>2, <3>4
    <3>6. Arr(t)' = Arr(t)
      BY <1>4, <2>3, <3>1
    <3>7. QED
      BY <2>1, <2>3, <3>2, <3>5, <3>6
  <2>4. QED
    BY <2>2, <2>3
<1>6. QED
  BY <1>2, <1>3, <1>4, <1>5 DEF Founded

LEMMA ScenarioDropped ==
    ASSUME StoreInv, NEW sid \in ScenarioIds, DeleteScenario(sid)
    PROVE  Dropped(sid)
BY DEF DeleteScenario, Dropped, StoreInv, StoreTypeOK

(* A scenario gets another status, or another name.                        *)
LEMMA ScenarioLabelled ==
    ASSUME StoreInv, NEW sid \in ScenarioIds
    PROVE  /\ UpdateScenario(sid) => SameAdapters /\ SameLabels
           /\ \A status : UpdateScenarioStatus(sid, status) =>
                 /\ SameAdapters
                 /\ \A t \in ScenarioIds : Holds(t) =>
                       Label(t)' = IF t = sid THEN status ELSE Label(t)
<1>1. object \in [Objects -> ScenarioStruct \cup {Nil}]
  BY DEF StoreInv, StoreTypeOK
<1>2. \A t \in ScenarioIds : Holds(t) =>
         /\ catalog[t] \in Objects /\ object[catalog[t]] \in ScenarioStruct
         /\ t # sid => catalog[t] # catalog[sid]
  BY SlotFacts, SliceFacts, ScenariosApart DEF Holds
<1>3. ASSUME UpdateScenario(sid)
      PROVE  SameAdapters /\ SameLabels
  <2>1. CASE Holds(sid)
    <3>1. \A t \in ScenarioIds : Holds(t) =>
             object'[catalog[t]] = IF t = sid THEN [object[catalog[t]] EXCEPT !.name = "edited"]
                                   ELSE object[catalog[t]]
      BY <1>1, <1>2, <1>3, <2>1 DEF UpdateScenario
    <3>2. \A t \in ScenarioIds : Holds(t) =>
             Arr(t)' = Arr(t) /\ Size(t)' = Size(t) /\ Label(t)' = Label(t)
      BY <1>2, <1>3, <3>1 DEF UpdateScenario, Arr, Size, Label, ScenarioStruct
    <3>3. QED
      BY <1>3, <3>2 DEF UpdateScenario, SameAdapters, SameSlots, SameLabels, AdapterAt, Arr, Positions
  <2>2. CASE ~ Holds(sid)
    BY <1>3, <2>2, UnchangedAdapters DEF UpdateScenario, storeVars
  <2>3. QED
    BY <2>1, <2>2
<1>4. ASSUME NEW status, UpdateScenarioStatus(sid, status)
      PROVE  /\ SameAdapters
             /\ \A t \in ScenarioIds : Holds(t) =>
                   Label(t)' = IF t = sid THEN status ELSE Label(t)
  <2>1. CASE Holds(sid)
    <3>1. \A t \in ScenarioIds : Holds(t) =>
             object'[catalog[t]] = IF t = sid THEN [object[catalog[t]] EXCEPT !.status = status]
                                   ELSE object[catalog[t]]
      BY <1>1, <1>2, <1>4, <2>1 DEF UpdateScenarioStatus
    <3>2. \A t \in ScenarioIds : Holds(t) =>
             /\ Arr(t)' = Arr(t) /\ Size(t)' = Size(t)
             /\ Label(t)' = IF t = sid THEN status ELSE Label(t)
      BY <1>2, <1>4, <3>1 DEF UpdateScenarioStatus, Arr, Size, Label, ScenarioStruct
    <3>3. QED
      BY <1>4, <3>2 DEF UpdateScenarioStatus, SameAdapters, SameSlots, AdapterAt, Arr, Positions
  <2>2. CASE ~ Holds(sid)
    BY <1>4, <2>2, UnchangedAdapters DEF UpdateScenarioStatus, storeVars, SameLabels
  <2>3. QED
    BY <2>1, <2>2
<1>5. QED
  BY <1>3, <1>4

(* The clock ages every adapter.                                           *)
Elapsed ==
    /\ SameSlots /\ SameLabels
    /\ \A t \in ScenarioIds : \A j \in Positions(t) :
          AdapterAt(t, j)' = [AdapterAt(t, j) EXCEPT
              !.last = IF @ = "recent" THEN "old" ELSE @]

LEMMA AdaptersAged ==
    ASSUME StoreInv, TimePasses
    PROVE  Elapsed
<1>1. SameSlots /\ SameLabels
  BY DEF TimePasses, SameSlots, SameLabels, Arr, Size, Label
<1>2. ASSUME NEW t \in ScenarioIds, NEW j \in Positions(t)
      PROVE  AdapterAt(t, j)' = [AdapterAt(t, j) EXCEPT
              !.last = IF @ = "recent" THEN "old" ELSE @]
  <2>1. /\ Holds(t) /\ Arr(t) \in Arrays /\ j \in 1 .. Len(array[Arr(t)])
        /\ AdapterAt(t, j) = array[Arr(t)][j] /\ AdapterAt(t, j) \in AdapterRecord
    BY SlotFacts DEF Positions
  <2>2. AdapterAt(t, j)' = array'[Arr(t)][j]
    BY DEF TimePasses, AdapterAt, Arr
  <2>3. AdapterAt(t, j)' = Aged(AdapterAt(t, j))
    BY <2>1, <2>2 DEF TimePasses
  <2>4. QED
    BY <2>1, <2>3, NilAssumption DEF Aged
<1>3. QED
  BY <1>1, <1>2 DEF Elapsed

(* A report of activity reaches one adapter at most.                       *)
LEMMA ActivityWritten ==
    ASSUME StoreInv, NEW id, RecordAdapterActivity(id)
    PROVE  \/ UNCHANGED storeVars
           \/ \E sid \in ScenarioIds : \E i \in Positions(sid) :
                 Written(sid, i, [AdapterAt(sid, i) EXCEPT !.last = "recent"])
<1>1. ASSUME NEW sid \in ScenarioIds, NEW i \in Positions(sid)
      PROVE  [AdapterAt(sid, i) EXCEPT !.last = "recent"] \in AdapterRecord
  BY LookupFacts DEF AdapterRecord, Activity
<1>2. QED
  BY <1>1, SetSlotWrites DEF RecordAdapterActivity

-----------------------------------------------------------------------------
(* One request at a time.                                                  *)

(* A scenario cannot grow so long, one adapter a second, that a position   *)
(* in it were a second.                                                    *)
PositionsStaySmall ==
    \A n \in {0} \cup {Len(Manifest[g]) : g \in GithubIds} :
        n + (Horizon - Epoch) <= Epoch

(* One user who waits for each answer; or one slot for requests, and none  *)
(* that are done in one step beside it.                                    *)
OneByOne ==
    /\ \/ OneUser
       \/ /\ \A p, q \in Reqs : p = q
          /\ Ops \cap {"createScenario", "clone", "addAdapter"} = {}
    /\ ~SameSecond
    /\ LocalMode => "addAdapter" \notin Ops
    /\ PositionsStaySmall

(* What the adapter keeps while only its status, url and activity change.  *)
Agree(x, y) ==
    /\ x.id = y.id /\ x.name = y.name /\ x.dep = y.dep
    /\ x.type = y.type /\ x.key = y.key

Slot(p) == AdapterAt(local[p].sid, local[p].idx)

(* At work on the adapter that is at its index now.                        *)
OnSlot(p) ==
    LET l == local[p]
    IN  /\ l.idx \in Positions(l.sid)
        /\ l.aid = Slot(p).id
        /\ l.cur # Nil => Agree(l.cur, Slot(p))

(* What p captured is still what the store holds.                          *)
InStep(p) ==
    LET l == local[p]
    IN  /\ l.op \in LoopOps =>
              /\ Holds(l.sid) /\ l.obj = catalog[l.sid]
              /\ l.arr = Arr(l.sid) /\ l.len = Size(l.sid)
              /\ l.pc \notin {"pick", "finish"} => OnSlot(p)
              /\ l.pc = "finish" => l.idx > l.len
        /\ l.op \in AdapterOps => l.arr = Arr(l.sid) /\ OnSlot(p)

Alone ==
    /\ \A p, q \in Reqs : ~At(p, "ready") /\ ~At(q, "ready") => p = q
    /\ ~Quiet => unloaded = {}
    /\ "idle" \notin Ops => At(Idle, "ready")

(* No id twice in a scenario, and none that the clock is yet to give out.  *)
Apart ==
    \A sid \in ScenarioIds :
        /\ IdsDiffer(sid)
        /\ \A i \in Positions(sid) : AdapterAt(sid, i).id[3] < clock

Numbered ==
    \A sid \in ScenarioIds : Holds(sid) =>
        /\ sid \in GithubIds \/ sid < clock
        /\ Size(sid) + (Horizon - clock) <= Epoch

SerialInv ==
    /\ Alone
    /\ Apart
    /\ Numbered
    /\ \A p \in Reqs : InStep(p)

-----------------------------------------------------------------------------
(* What a step does to the process.                                        *)

SameRequest(p) ==
    /\ local'[p].op = local[p].op /\ local'[p].sid = local[p].sid
    /\ local'[p].obj = local[p].obj /\ local'[p].arr = local[p].arr
    /\ local'[p].len = local[p].len /\ local'[p].name = local[p].name

Goes(p, pc) ==
    /\ SameRequest(p)
    /\ local'[p].pc = pc
    /\ local'[p].idx = local[p].idx /\ local'[p].aid = local[p].aid
    /\ local'[p].cur = local[p].cur /\ local'[p].url = local[p].url
    /\ local'[p].key = local[p].key

Advances(p) ==
    /\ SameRequest(p)
    /\ local'[p].pc = "pick"
    /\ local'[p].idx = local[p].idx + 1
    /\ local'[p].cur = Nil
    /\ local'[p].key = local[p].key

LEMMA GotoGoes ==
    ASSUME local \in [Processes -> Local], NEW p \in Processes, NEW pc, Goto(p, pc)
    PROVE  Goes(p, pc) /\ \A q \in Processes \ {p} : local'[q] = local[q]
<1> DEFINE m == [local[p] EXCEPT !.pc = pc]
<1>1. /\ m.op = local[p].op /\ m.sid = local[p].sid /\ m.obj = local[p].obj
      /\ m.arr = local[p].arr /\ m.len = local[p].len /\ m.name = local[p].name
      /\ m.pc = pc /\ m.idx = local[p].idx /\ m.aid = local[p].aid
      /\ m.cur = local[p].cur /\ m.url = local[p].url /\ m.key = local[p].key
  BY DEF Local
<1>2. Set(p, m)
  BY DEF Goto
<1> HIDE DEF m
<1>3. local'[p] = m /\ \A q \in Processes \ {p} : local'[q] = local[q]
  BY <1>2, SetFacts
<1>4. QED
  BY <1>1, <1>3 DEF Goes, SameRequest

LEMMA NextAdvances ==
    ASSUME local \in [Processes -> Local], NEW p \in Processes, NextAdapter(p)
    PROVE  Advances(p) /\ \A q \in Processes \ {p} : local'[q] = local[q]
<1> DEFINE m == [local[p] EXCEPT !.pc = "pick", !.idx = @ + 1,
                                 !.aid = Nil, !.cur = Nil, !.url = "none"]
<1>1. /\ m.op = local[p].op /\ m.sid = local[p].sid /\ m.obj = local[p].obj
      /\ m.arr = local[p].arr /\ m.len = local[p].len /\ m.name = local[p].name
      /\ m.pc = "pick" /\ m.idx = local[p].idx + 1
      /\ m.cur = Nil /\ m.key = local[p].key
  BY DEF Local
<1>2. Set(p, m)
  BY DEF NextAdapter
<1> HIDE DEF m
<1>3. local'[p] = m /\ \A q \in Processes \ {p} : local'[q] = local[q]
  BY <1>2, SetFacts
<1>4. QED
  BY <1>1, <1>3 DEF Advances, SameRequest

LEMMA RespondEnds ==
    ASSUME local \in [Processes -> Local], NEW p \in Processes, Respond(p)
    PROVE  local'[p] = Ready /\ \A q \in Processes \ {p} : local'[q] = local[q]
BY SetFacts DEF Respond

(* At the beginning of a step of p on an adapter.                          *)
LEMMA AtWork ==
    ASSUME SystemInv, SerialInv, NEW p \in Reqs, ~ At(p, "ready")
    PROVE  /\ p \in Processes /\ p # Idle /\ local \in [Processes -> Local]
           /\ local[p] \in Local /\ Sound(p, local[p]) /\ local[p].op # "idle"
           /\ unloaded = {}
           /\ \A q \in Reqs \ {p} : At(q, "ready") /\ local[q].op = Nil
           /\ local[p].op \in LoopOps \cup AdapterOps =>
                 local[p].sid \in ScenarioIds /\ Holds(local[p].sid) /\ local[p].idx \in Nat \ {0}
           /\ local[p].op \in AdapterOps
                 \/ (local[p].op \in LoopOps /\ local[p].pc \notin {"pick", "finish"}) =>
                 /\ OnSlot(p) /\ Slot(p) \in AdapterRecord
                 /\ Current(p) = Slot(p)
<1> DEFINE l == local[p]
<1>1. /\ p \in Processes /\ p # Idle /\ local \in [Processes -> Local]
      /\ l \in Local /\ Sound(p, l) /\ l.op # "idle"
  BY ControlPlaneAssumption DEF SystemInv, LocalsInv, Processes, Sound
<1>2. unloaded = {} /\ \A q \in Reqs \ {p} : At(q, "ready")
  BY DEF SerialInv, Alone, Quiet
<1>3. ASSUME NEW q \in Reqs, At(q, "ready")
      PROVE  local[q].op = Nil
  BY <1>3 DEF SystemInv, LocalsInv, Sound, OpsAt, At, Processes
<1>4. ASSUME l.op \in LoopOps \cup AdapterOps
      PROVE  l.sid \in ScenarioIds /\ Holds(l.sid) /\ l.idx \in Nat \ {0}
  <2>1. l.pc # "choose"
    BY <1>1 DEF Sound, OpsAt
  <2>2. l.sid \in ScenarioIds /\ l.idx \in Nat \ {0}
    BY <1>1, <1>4, <2>1 DEF Sound, Working, Local
  <2>3. Holds(l.sid)
    <3>1. InStep(p)
      BY DEF SerialInv
    <3>2. QED
      BY <1>4, <3>1 DEF InStep, OnSlot, Positions
  <2>4. QED
    BY <2>2, <2>3
<1>5. ASSUME l.op \in AdapterOps \/ (l.op \in LoopOps /\ l.pc \notin {"pick", "finish"})
      PROVE  OnSlot(p) /\ Slot(p) \in AdapterRecord /\ Current(p) = Slot(p)
  <2>1. InStep(p)
    BY DEF SerialInv
  <2>2. OnSlot(p) /\ l.arr = Arr(l.sid)
    BY <1>5, <2>1 DEF InStep
  <2>3. Slot(p) \in AdapterRecord
    BY <1>4, <1>5, <2>2, LookupFacts DEF OnSlot, Slot, SystemInv, HeapInv
  <2>4. QED
    BY <2>2, <2>3 DEF Current, Slot, AdapterAt, Arr
<1>6. QED
  BY <1>1, <1>2, <1>3, <1>4, <1>5

-----------------------------------------------------------------------------
(* What a request in progress does to the store.                           *)

LEMMA WritesHome ==
    ASSUME SystemInv, SerialInv, NEW p \in Reqs
    PROVE  LET l == local[p]
           IN  /\ MarkRunning(p) => Written(l.sid, l.idx, WithStatus(Slot(p), "running"))
               /\ SetUrl(p) => Written(l.sid, l.idx, [Slot(p) EXCEPT !.url = l.url])
               /\ MarkStopped(p) => Written(l.sid, l.idx, WithStatus(Slot(p), "stopped"))
               /\ WriteStatus(p) =>
                     /\ Written(l.sid, l.idx, [Slot(p) EXCEPT !.status = "running"])
                     /\ Goto(p, "pokeUrl")
               /\ WriteUrl(p) =>
                     /\ Written(l.sid, l.idx, [Slot(p) EXCEPT !.url = l.url])
                     /\ NextAdapter(p)
               /\ Write(p) => Written(l.sid, l.idx, [Slot(p) EXCEPT
                     !.name = IF l.name = Nil THEN @ ELSE l.name, !.key = l.key])
               /\ RemoveAdapter(p) => Vacated(l.sid, l.idx)
<1> DEFINE l == local[p]
<1>1. /\ l \in Local /\ Sound(p, l) /\ StoreInv
  BY DEF SystemInv, LocalsInv, HeapInv, Processes
<1>2. CASE l.pc \notin {"markRunning", "setUrl", "markStopped", "pokeStatus", "pokeUrl",
                        "write", "remove"}
  BY <1>2 DEF MarkRunning, SetUrl, MarkStopped, WriteStatus, WriteUrl, Write,
              RemoveAdapter, At
<1>3. CASE l.pc \in {"markRunning", "setUrl", "markStopped", "pokeStatus", "pokeUrl",
                     "write", "remove"}
  <2>1. ~ At(p, "ready") /\ l.op \in LoopOps \cup AdapterOps /\ l.pc \notin {"pick", "finish"}
    BY <1>1, <1>3 DEF At, Sound, OpsAt, LoopOps, AdapterOps
  <2>2. /\ l.sid \in ScenarioIds /\ l.idx \in Positions(l.sid) /\ l.aid = Slot(p).id
        /\ l.op # "idle"
    BY <2>1, AtWork DEF OnSlot
  <2>3. IdsDiffer(l.sid)
    BY <2>2 DEF SerialInv, Apart
  <2>4. MarkRunning(p) => Written(l.sid, l.idx, WithStatus(Slot(p), "running"))
    BY <1>1, <2>2, <2>3, StatusWritten DEF MarkRunning, Slot, Statuses
  <2>5. MarkStopped(p) => Written(l.sid, l.idx, WithStatus(Slot(p), "stopped"))
    BY <1>1, <2>2, <2>3, StatusWritten DEF MarkStopped, Slot, Statuses
  <2>6. l.url \in Urls /\ l.name \in Names \cup {Nil} /\ l.key \in Keys
    BY <1>1 DEF Local
  <2>7. SetUrl(p) => Written(l.sid, l.idx, [Slot(p) EXCEPT !.url = l.url])
    BY <1>1, <2>2, <2>3, <2>6, UrlWritten DEF SetUrl, Slot
  <2>8. Write(p) => Written(l.sid, l.idx, [Slot(p) EXCEPT
                     !.name = IF l.name = Nil THEN @ ELSE l.name, !.key = l.key])
    BY <1>1, <2>2, <2>3, <2>6, UpdateWritten DEF Write, Slot
  <2>9. RemoveAdapter(p) => Vacated(l.sid, l.idx)
    BY <1>1, <2>2, <2>3, AdapterVacated DEF RemoveAdapter, Slot
  <2>10. ASSUME WriteStatus(p) \/ WriteUrl(p)
         PROVE  l.obj = catalog[l.sid] /\ InRange(p)
    <3>1. l.op = "launch" /\ InStep(p)
      BY <1>1, <2>10 DEF WriteStatus, WriteUrl, At, Sound, OpsAt, SerialInv
    <3>2. l.obj = catalog[l.sid] /\ Holds(l.sid)
      BY <3>1 DEF InStep, LoopOps
    <3>3. l.idx \in 1 .. object[l.obj].len
      BY <2>2, <3>2 DEF Positions
    <3>4. QED
      BY <3>2, <3>3 DEF InRange
  <2>11. WriteStatus(p) => /\ Written(l.sid, l.idx, [Slot(p) EXCEPT !.status = "running"])
                           /\ Goto(p, "pokeUrl")
    BY <1>1, <2>2, <2>10, PokeWritten DEF WriteStatus, Slot
  <2>12. WriteUrl(p) => /\ Written(l.sid, l.idx, [Slot(p) EXCEPT !.url = l.url])
                        /\ NextAdapter(p)
    BY <1>1, <2>2, <2>6, <2>10, PokeWritten DEF WriteUrl, Slot
  <2>13. QED
    BY <2>4, <2>5, <2>7, <2>8, <2>9, <2>11, <2>12
<1>4. QED
  BY <1>2, <1>3

(* ... and when it ends.                                                   *)
LEMMA FinishEffect ==
    ASSUME SystemInv, SerialInv, NEW p \in Reqs, Finish(p)
    PROVE  LET l == local[p]
           IN  /\ Respond(p)
               /\ \/ /\ l.op \in {"launch", "stop"} /\ SameAdapters
                     /\ \A t \in ScenarioIds : Holds(t) =>
                           Label(t)' = IF t # l.sid THEN Label(t)
                                       ELSE IF l.op = "launch" THEN "running" ELSE "stopped"
                  \/ l.op = "deleteScenario" /\ Dropped(l.sid)
<1> DEFINE l == local[p]
<1>1. l.op \in LoopOps
  BY DEF Finish, At, SystemInv, LocalsInv, Sound, OpsAt, Processes
<1>2. ~ At(p, "ready")
  BY DEF Finish, At
<1>3. l.sid \in ScenarioIds /\ p # Idle /\ l.op # "idle" /\ StoreInv
  BY <1>1, <1>2, AtWork DEF SystemInv, HeapInv
<1>4. Respond(p)
  BY <1>3 DEF Finish
<1>5. CASE l.op = "launch"
  BY <1>3, <1>4, <1>5, ScenarioLabelled DEF Finish
<1>6. CASE l.op = "stop"
  BY <1>3, <1>4, <1>6, ScenarioLabelled DEF Finish
<1>7. CASE l.op = "deleteScenario"
  BY <1>3, <1>4, <1>7, ScenarioDropped DEF Finish
<1>8. QED
  BY <1>1, <1>3, <1>5, <1>6, <1>7 DEF LoopOps

-----------------------------------------------------------------------------
(* The steps of a request in progress, one by one, in terms of the slot it *)
(* works on.                                                               *)

(* It takes a copy of the adapter in its slot.                             *)
Takes(p, pc) ==
    /\ SameRequest(p)
    /\ local'[p].pc = pc
    /\ local'[p].idx = local[p].idx /\ local'[p].aid = Slot(p).id
    /\ local'[p].cur = Slot(p) /\ local'[p].key = local[p].key

OthersWait(p) == \A q \in Reqs \ {p} : local'[q] = local[q]

LEMMA SetTakes ==
    ASSUME local \in [Processes -> Local], NEW p \in Processes, NEW pc, NEW url,
           Set(p, [local[p] EXCEPT !.pc = pc, !.cur = Slot(p), !.aid = Slot(p).id, !.url = url])
    PROVE  Takes(p, pc) /\ \A q \in Processes \ {p} : local'[q] = local[q]
<1> DEFINE m == [local[p] EXCEPT !.pc = pc, !.cur = Slot(p), !.aid = Slot(p).id, !.url = url]
<1>1. /\ m.op = local[p].op /\ m.sid = local[p].sid /\ m.obj = local[p].obj
      /\ m.arr = local[p].arr /\ m.len = local[p].len /\ m.name = local[p].name
      /\ m.pc = pc /\ m.idx = local[p].idx /\ m.aid = Slot(p).id
      /\ m.cur = Slot(p) /\ m.key = local[p].key
  BY DEF Local
<1> HIDE DEF m
<1>2. local'[p] = m /\ \A q \in Processes \ {p} : local'[q] = local[q]
  BY SetFacts DEF m
<1>3. QED
  BY <1>1, <1>2 DEF Takes, SameRequest

(* ... and where it has its id already.                                    *)
LEMMA SetHolds ==
    ASSUME local \in [Processes -> Local], NEW p \in Processes, NEW pc,
           local[p].aid = Slot(p).id,
           \/ Set(p, [[local[p] EXCEPT !.cur = Slot(p)] EXCEPT !.pc = pc])
           \/ Set(p, [local[p] EXCEPT !.pc = pc, !.cur = Slot(p)])
    PROVE  Takes(p, pc) /\ \A q \in Processes \ {p} : local'[q] = local[q]
<1> DEFINE m == [local[p] EXCEPT !.pc = pc, !.cur = Slot(p)]
<1>1. /\ m.op = local[p].op /\ m.sid = local[p].sid /\ m.obj = local[p].obj
      /\ m.arr = local[p].arr /\ m.len = local[p].len /\ m.name = local[p].name
      /\ m.pc = pc /\ m.idx = local[p].idx /\ m.aid = local[p].aid
      /\ m.cur = Slot(p) /\ m.key = local[p].key
      /\ m = [[local[p] EXCEPT !.cur = Slot(p)] EXCEPT !.pc = pc]
  BY DEF Local
<1> HIDE DEF m
<1>2. local'[p] = m /\ \A q \in Processes \ {p} : local'[q] = local[q]
  BY <1>1, SetFacts DEF m
<1>3. QED
  BY <1>1, <1>2 DEF Takes, SameRequest

LEMMA PickEffect ==
    ASSUME SystemInv, SerialInv, NEW p \in Reqs, Pick(p)
    PROVE  /\ local[p].op \in LoopOps \ {"idle"} /\ UNCHANGED storeVars
           /\ OthersWait(p)
           /\ \/ local[p].idx > Size(local[p].sid) /\ Goes(p, "finish")
              \/ /\ local[p].idx \in Positions(local[p].sid) /\ Slot(p) \in AdapterRecord
                 /\ IF Wanted(local[p].op, Slot(p)) THEN Takes(p, FirstStep(local[p].op))
                    ELSE Advances(p)
<1> DEFINE l == local[p]
<1>1. ~ At(p, "ready") /\ At(p, "pick") /\ UNCHANGED storeVars
  BY DEF Pick, At, LocalOnly, storeVars
<1>2. /\ p \in Processes /\ local \in [Processes -> Local] /\ l.op # "idle" /\ l \in Local
      /\ Sound(p, l)
  BY <1>1, AtWork
<1>3. l.op \in LoopOps
  BY <1>1, <1>2 DEF Sound, OpsAt, At
<1>4. /\ l.sid \in ScenarioIds /\ Holds(l.sid) /\ l.idx \in Nat \ {0} /\ InStep(p)
      /\ l.arr = Arr(l.sid) /\ l.len = Size(l.sid) /\ StoreInv
  BY <1>1, <1>3, AtWork DEF SerialInv, InStep, SystemInv, HeapInv
<1>5. Size(l.sid) \in Nat /\ Positions(l.sid) = 1 .. Size(l.sid)
  BY <1>4, SlotFacts
<1>6. CASE ~ Ranging(l)
  <2>1. Goto(p, "finish")
    BY <1>6 DEF Pick
  <2>2. Goes(p, "finish") /\ OthersWait(p)
    BY <1>2, <2>1, GotoGoes DEF OthersWait, Processes, Goes
  <2>3. l.idx > Size(l.sid)
    <3>1. CASE l.arr = NoArray
      <4>1. Size(l.sid) = 0
        BY <1>4, <3>1, SliceFacts, SlotFacts DEF Arr, Size
      <4>2. QED
        BY <1>4, <4>1
    <3>2. CASE l.arr # NoArray
      BY <1>4, <1>5, <1>6, <3>2 DEF Ranging
    <3>3. QED
      BY <3>1, <3>2
  <2>4. QED
    BY <1>1, <1>2, <1>3, <2>2, <2>3
<1>7. CASE Ranging(l)
  <2>1. l.idx \in Positions(l.sid)
    BY <1>4, <1>5, <1>7 DEF Ranging
  <2>2. Slot(p) \in AdapterRecord /\ Current(p) = Slot(p)
    BY <1>4, <2>1, SlotFacts DEF Slot, Current, AdapterAt, Arr
  <2>3. CASE Wanted(l.op, Slot(p))
    <3>1. Set(p, [l EXCEPT !.pc = FirstStep(l.op), !.cur = Slot(p), !.aid = Slot(p).id,
                           !.url = IF LocalMode THEN "local" ELSE "none"])
      BY <1>7, <2>2, <2>3 DEF Pick
    <3>2. Takes(p, FirstStep(l.op)) /\ OthersWait(p)
      BY <1>2, <3>1, SetTakes DEF OthersWait, Processes
    <3>3. QED
      BY <1>1, <1>2, <1>3, <2>1, <2>2, <2>3, <3>2
  <2>4. CASE ~ Wanted(l.op, Slot(p))
    <3>1. NextAdapter(p)
      BY <1>7, <2>2, <2>4 DEF Pick
    <3>2. Advances(p) /\ OthersWait(p)
      BY <1>2, <3>1, NextAdvances DEF OthersWait, Processes
    <3>3. QED
      BY <1>1, <1>2, <1>3, <2>1, <2>2, <2>4, <3>2
  <2>5. QED
    BY <2>3, <2>4
<1>8. QED
  BY <1>6, <1>7

(* A call for a copy that agrees with the slot is one for the slot.        *)
LEMMA CallsAgree ==
    ASSUME NEW x, NEW y, Agree(x, y)
    PROVE  /\ \A ok : /\ CreateAdapterDeployment(x, ok) <=> CreateAdapterDeployment(y, ok)
                      /\ CreateAdapterService(x, ok) <=> CreateAdapterService(y, ok)
                      /\ GetLoadBalancerHostname(x, ok) <=> GetLoadBalancerHostname(y, ok)
                      /\ CreateAdapterAPIRule(x, ok) <=> CreateAdapterAPIRule(y, ok)
           /\ StopAdapterDeployment(x) <=> StopAdapterDeployment(y)
           /\ DeleteDeployment(x) <=> DeleteDeployment(y)
           /\ DeleteService(x) <=> DeleteService(y)
           /\ DeleteAdapterAPIRule(x) <=> DeleteAdapterAPIRule(y)
<1>1. x.id = y.id /\ x.name = y.name /\ x.dep = y.dep /\ x.type = y.type
  BY DEF Agree
<1>2. \A ok : CreateAdapterDeployment(x, ok) <=> CreateAdapterDeployment(y, ok)
  BY <1>1 DEF CreateAdapterDeployment
<1>3. \A ok : CreateAdapterService(x, ok) <=> CreateAdapterService(y, ok)
  BY <1>1 DEF CreateAdapterService
<1>4. \A ok : GetLoadBalancerHostname(x, ok) <=> GetLoadBalancerHostname(y, ok)
  BY <1>1 DEF GetLoadBalancerHostname
<1>5. \A ok : CreateAdapterAPIRule(x, ok) <=> CreateAdapterAPIRule(y, ok)
  BY <1>1 DEF CreateAdapterAPIRule
<1>6. StopAdapterDeployment(x) <=> StopAdapterDeployment(y)
  BY <1>1 DEF StopAdapterDeployment
<1>7. DeleteDeployment(x) <=> DeleteDeployment(y)
  BY <1>1 DEF DeleteDeployment
<1>8. DeleteService(x) <=> DeleteService(y)
  BY <1>1 DEF DeleteService
<1>9. DeleteAdapterAPIRule(x) <=> DeleteAdapterAPIRule(y)
  BY <1>1 DEF DeleteAdapterAPIRule
<1>10. QED
  BY <1>2, <1>3, <1>4, <1>5, <1>6, <1>7, <1>8, <1>9

(* The calls of a launch.                                                  *)
LEMMA LaunchEffects ==
    ASSUME SystemInv, SerialInv, NEW p \in Reqs
    PROVE  /\ CreateDeployment(p) =>
                 /\ OthersWait(p) /\ UNCHANGED storeVars
                 /\ \E ok \in BOOLEAN :
                       /\ CreateAdapterDeployment(Slot(p), ok)
                       /\ IF ok THEN Goes(p, "createService") ELSE Advances(p)
           /\ CreateService(p) =>
                 /\ OthersWait(p) /\ UNCHANGED storeVars
                 /\ \E ok \in BOOLEAN :
                       /\ CreateAdapterService(Slot(p), ok)
                       /\ IF ok THEN Goes(p, "expose") ELSE Advances(p)
           /\ Expose(p) =>
                 /\ OthersWait(p) /\ UNCHANGED storeVars
                 /\ \E ok \in BOOLEAN :
                       /\ IF Slot(p).type = Sftp THEN GetLoadBalancerHostname(Slot(p), ok)
                          ELSE CreateAdapterAPIRule(Slot(p), ok)
                       /\ local'[p].url = IF ok THEN "public" ELSE "internal"
                 /\ SameRequest(p) /\ local'[p].pc = "markRunning"
                 /\ local'[p].idx = local[p].idx /\ local'[p].aid = local[p].aid
                 /\ local'[p].cur = local[p].cur
           /\ MarkRunning(p) => OthersWait(p) /\ Goes(p, "setUrl")
           /\ SetUrl(p) => OthersWait(p) /\ Goes(p, "pokeStatus")
           /\ WriteStatus(p) => OthersWait(p) /\ Goes(p, "pokeUrl")
           /\ WriteUrl(p) => OthersWait(p) /\ Advances(p)
<1> DEFINE l == local[p]
<1>1. CASE l.pc \notin {"createDeployment", "createService", "expose", "markRunning",
                        "setUrl", "pokeStatus", "pokeUrl"}
  BY <1>1 DEF CreateDeployment, CreateService, Expose, MarkRunning, SetUrl, WriteStatus,
              WriteUrl, At
<1>2. CASE l.pc \in {"createDeployment", "createService", "expose", "markRunning",
                     "setUrl", "pokeStatus", "pokeUrl"}
  <2>1. ~ At(p, "ready")
    BY <1>2 DEF At
  <2>2. p \in Processes /\ local \in [Processes -> Local] /\ l \in Local /\ Sound(p, l)
    BY <2>1, AtWork
  <2>3. l.op = "launch" /\ l.op \in LoopOps /\ l.pc \notin {"pick", "finish"}
    BY <1>2, <2>2 DEF Sound, OpsAt, LoopOps
  <2>4. OnSlot(p)
    BY <2>1, <2>3, AtWork
  <2>5. \A q \in Reqs \ {p} : q \in Processes \ {p}
    BY DEF Processes
  <2>6. ASSUME l.pc \in Calls
        PROVE  Agree(l.cur, Slot(p))
    BY <2>2, <2>4, <2>6 DEF Sound, OnSlot
  <2>7. ASSUME CreateDeployment(p)
        PROVE  /\ OthersWait(p) /\ UNCHANGED storeVars
               /\ \E ok \in BOOLEAN :
                     /\ CreateAdapterDeployment(Slot(p), ok)
                     /\ IF ok THEN Goes(p, "createService") ELSE Advances(p)
    <3>1. PICK ok \in BOOLEAN : /\ CreateAdapterDeployment(l.cur, ok)
                                /\ IF ok THEN Goto(p, "createService") ELSE NextAdapter(p)
      BY <2>7 DEF CreateDeployment
    <3>2. CreateAdapterDeployment(Slot(p), ok)
      BY <2>6, <2>7, <3>1, CallsAgree DEF CreateDeployment, At, Calls
    <3>3. OthersWait(p) /\ IF ok THEN Goes(p, "createService") ELSE Advances(p)
      BY <2>2, <2>5, <3>1, GotoGoes, NextAdvances DEF OthersWait
    <3>4. QED
      BY <2>7, <3>2, <3>3 DEF CreateDeployment, ClusterOnly
  <2>8. ASSUME CreateService(p)
        PROVE  /\ OthersWait(p) /\ UNCHANGED storeVars
               /\ \E ok \in BOOLEAN :
                     /\ CreateAdapterService(Slot(p), ok)
                     /\ IF ok THEN Goes(p, "expose") ELSE Advances(p)
    <3>1. PICK ok \in BOOLEAN : /\ CreateAdapterService(l.cur, ok)
                                /\ IF ok THEN Goto(p, "expose") ELSE NextAdapter(p)
      BY <2>8 DEF CreateService
    <3>2. CreateAdapterService(Slot(p), ok)
      BY <2>6, <2>8, <3>1, CallsAgree DEF CreateService, At, Calls
    <3>3. OthersWait(p) /\ IF ok THEN Goes(p, "expose") ELSE Advances(p)
      BY <2>2, <2>5, <3>1, GotoGoes, NextAdvances DEF OthersWait
    <3>4. QED
      BY <2>8, <3>2, <3>3 DEF CreateService, ClusterOnly
  <2>9. ASSUME Expose(p)
        PROVE  /\ OthersWait(p) /\ UNCHANGED storeVars
               /\ \E ok \in BOOLEAN :
                     /\ IF Slot(p).type = Sftp THEN GetLoadBalancerHostname(Slot(p), ok)
                        ELSE CreateAdapterAPIRule(Slot(p), ok)
                     /\ local'[p].url = IF ok THEN "public" ELSE "internal"
               /\ SameRequest(p) /\ local'[p].pc = "markRunning"
               /\ local'[p].idx = local[p].idx /\ local'[p].aid = local[p].aid
               /\ local'[p].cur = local[p].cur
    <3>1. PICK ok \in BOOLEAN :
             /\ IF l.cur.type = Sftp THEN GetLoadBalancerHostname(l.cur, ok)
                ELSE CreateAdapterAPIRule(l.cur, ok)
             /\ Set(p, [l EXCEPT !.pc = "markRunning",
                                 !.url = IF ok THEN "public" ELSE "internal"])
      BY <2>9 DEF Expose
    <3>2. Agree(l.cur, Slot(p)) /\ l.cur.type = Slot(p).type
      BY <2>6, <2>9 DEF Expose, At, Calls, Agree
    <3>3. IF Slot(p).type = Sftp THEN GetLoadBalancerHostname(Slot(p), ok)
          ELSE CreateAdapterAPIRule(Slot(p), ok)
      BY <3>1, <3>2, CallsAgree
    <3>4. /\ local'[p] = [l EXCEPT !.pc = "markRunning",
                                   !.url = IF ok THEN "public" ELSE "internal"]
          /\ \A q \in Processes \ {p} : local'[q] = local[q]
      BY <2>2, <3>1, SetFacts
    <3>5. /\ local'[p].url = IF ok THEN "public" ELSE "internal"
          /\ SameRequest(p) /\ local'[p].pc = "markRunning"
          /\ local'[p].idx = l.idx /\ local'[p].aid = l.aid /\ local'[p].cur = l.cur
      BY <2>2, <3>4 DEF SameRequest, Local
    <3>6. OthersWait(p)
      BY <2>5, <3>4 DEF OthersWait
    <3>7. QED
      BY <2>9, <3>3, <3>5, <3>6 DEF Expose, ClusterOnly
  <2>10. MarkRunning(p) => OthersWait(p) /\ Goes(p, "setUrl")
    BY <2>2, <2>5, GotoGoes DEF MarkRunning, OthersWait
  <2>11. SetUrl(p) => OthersWait(p) /\ Goes(p, "pokeStatus")
    BY <2>2, <2>5, GotoGoes DEF SetUrl, OthersWait
  <2>12. WriteStatus(p) => OthersWait(p) /\ Goes(p, "pokeUrl")
    BY <2>2, <2>5, WritesHome, GotoGoes DEF OthersWait
  <2>13. WriteUrl(p) => OthersWait(p) /\ Advances(p)
    BY <2>2, <2>5, WritesHome, NextAdvances DEF OthersWait
  <2>14. QED
    BY <2>7, <2>8, <2>9, <2>10, <2>11, <2>12, <2>13
<1>3. QED
  BY <1>1, <1>2

(* The beginning of a request about one adapter.                           *)
LEMMA CheckEffect ==
    ASSUME SystemInv, SerialInv, NEW p \in Reqs, Check(p)
    PROVE  /\ OthersWait(p) /\ UNCHANGED storeVars
           /\ \/ /\ local[p].op = "deleteAdapter"
                 /\ IF LocalMode THEN Goes(p, "remove") ELSE Takes(p, "deleteDeployment")
              \/ /\ local[p].op = "updateAdapter"
                 /\ IF ~LocalMode /\ Slot(p).status = "running"
                    THEN Takes(p, "deleteDeployment") ELSE Goes(p, "readKey")
              \/ /\ local[p].op = "stopAdapter"
                 /\ IF ~LocalMode /\ Slot(p).status = "running"
                    THEN Takes(p, "scale") ELSE Goes(p, "markStopped")
<1> DEFINE l == local[p]
<1>1. ~ At(p, "ready")
  BY DEF Check, At
<1>2. p \in Processes /\ local \in [Processes -> Local] /\ l.op \in AdapterOps
  BY <1>1, AtWork DEF Check, AdapterOps
<1>3. Current(p) = Slot(p) /\ l.aid = Slot(p).id
  BY <1>1, <1>2, AtWork DEF OnSlot
<1>4. \A q \in Reqs \ {p} : q \in Processes \ {p}
  BY DEF Processes
<1>5. \A pc : Set(p, [[l EXCEPT !.cur = Slot(p)] EXCEPT !.pc = pc]) =>
         Takes(p, pc) /\ OthersWait(p)
  BY <1>2, <1>3, <1>4, SetHolds DEF OthersWait
<1>6. \A pc : Goto(p, pc) => Goes(p, pc) /\ OthersWait(p)
  BY <1>2, <1>4, GotoGoes DEF OthersWait
<1>7. UNCHANGED storeVars
  BY DEF Check, LocalOnly
<1>8. CASE l.op = "deleteAdapter"
  BY <1>3, <1>5, <1>6, <1>7, <1>8 DEF Check
<1>9. CASE l.op = "updateAdapter"
  BY <1>3, <1>5, <1>6, <1>7, <1>9 DEF Check
<1>10. CASE l.op = "stopAdapter"
  BY <1>3, <1>5, <1>6, <1>7, <1>10 DEF Check
<1>11. QED
  BY <1>8, <1>9, <1>10 DEF Check

(* Scaling and tearing down.                                               *)
LEMMA TeardownEffects ==
    ASSUME SystemInv, SerialInv, NEW p \in Reqs
    PROVE  /\ Scale(p) =>
                 /\ OthersWait(p) /\ UNCHANGED storeVars
                 /\ StopAdapterDeployment(Slot(p)) /\ Goes(p, "markStopped")
           /\ RemoveDeployment(p) =>
                 /\ OthersWait(p) /\ UNCHANGED storeVars
                 /\ DeleteDeployment(Slot(p)) /\ Goes(p, "deleteService")
           /\ RemoveService(p) =>
                 /\ OthersWait(p) /\ UNCHANGED storeVars
                 /\ DeleteService(Slot(p))
                 /\ \/ local[p].op = "updateAdapter" /\ Goes(p, "markStopped")
                    \/ local[p].op = "deleteAdapter" /\ Goes(p, "reread")
                    \/ local[p].op = "deleteScenario" /\ Goes(p, "deleteRule")
           /\ RemoveRule(p) =>
                 /\ OthersWait(p) /\ UNCHANGED storeVars
                 /\ DeleteAdapterAPIRule(Slot(p))
                 /\ \/ local[p].op = "deleteScenario" /\ Advances(p)
                    \/ local[p].op = "deleteAdapter" /\ Goes(p, "remove")
<1> DEFINE l == local[p]
           pcs == {"scale", "deleteDeployment", "deleteService", "deleteRule"}
<1>1. CASE l.pc \notin pcs
  BY <1>1 DEF Scale, RemoveDeployment, RemoveService, RemoveRule, At
<1>2. CASE l.pc \in pcs
  <2>1. ~ At(p, "ready") /\ l.pc \in Calls /\ l.pc \notin {"pick", "finish"}
    BY <1>2 DEF At, Calls
  <2>2. /\ p \in Processes /\ local \in [Processes -> Local] /\ Sound(p, l)
        /\ l.op # "idle"
    BY <2>1, AtWork
  <2>3. l.op \in LoopOps \cup AdapterOps
    BY <1>2, <2>2 DEF Sound, OpsAt, LoopOps, AdapterOps
  <2>4. OnSlot(p)
    BY <2>1, <2>3, AtWork
  <2>5. Agree(l.cur, Slot(p))
    BY <2>1, <2>2, <2>4 DEF Sound, OnSlot
  <2>6. \A q \in Reqs \ {p} : q \in Processes \ {p}
    BY DEF Processes
  <2>7. \A pc : Goto(p, pc) => Goes(p, pc) /\ OthersWait(p)
    BY <2>2, <2>6, GotoGoes DEF OthersWait
  <2>8. Scale(p) => /\ OthersWait(p) /\ UNCHANGED storeVars
                    /\ StopAdapterDeployment(Slot(p)) /\ Goes(p, "markStopped")
    BY <2>5, <2>7, CallsAgree DEF Scale, ClusterOnly
  <2>9. RemoveDeployment(p) => /\ OthersWait(p) /\ UNCHANGED storeVars
                               /\ DeleteDeployment(Slot(p)) /\ Goes(p, "deleteService")
    BY <2>5, <2>7, CallsAgree DEF RemoveDeployment, ClusterOnly
  <2>10. ASSUME RemoveService(p)
         PROVE  /\ OthersWait(p) /\ UNCHANGED storeVars
                /\ DeleteService(Slot(p))
                /\ \/ l.op = "updateAdapter" /\ Goes(p, "markStopped")
                   \/ l.op = "deleteAdapter" /\ Goes(p, "reread")
                   \/ l.op = "deleteScenario" /\ Goes(p, "deleteRule")
    <3>1. l.op \in {"updateAdapter", "deleteAdapter", "deleteScenario"}
      BY <2>2, <2>10 DEF RemoveService, At, Sound, OpsAt
    <3>2. DeleteService(Slot(p)) /\ UNCHANGED storeVars
      BY <2>5, <2>10, CallsAgree DEF RemoveService, ClusterOnly
    <3>3. \/ l.op = "updateAdapter" /\ Goto(p, "markStopped")
          \/ l.op = "deleteAdapter" /\ Goto(p, "reread")
          \/ l.op = "deleteScenario" /\ Goto(p, "deleteRule")
      <4>1. CASE l.op = "updateAdapter"
        BY <2>10, <4>1 DEF RemoveService
      <4>2. CASE l.op = "deleteAdapter"
        BY <2>10, <4>2 DEF RemoveService
      <4>3. CASE l.op = "deleteScenario"
        BY <2>10, <4>3 DEF RemoveService
      <4>4. QED
        BY <3>1, <4>1, <4>2, <4>3
    <3>4. QED
      BY <2>7, <3>2, <3>3
  <2>11. ASSUME RemoveRule(p)
         PROVE  /\ OthersWait(p) /\ UNCHANGED storeVars
                /\ DeleteAdapterAPIRule(Slot(p))
                /\ \/ l.op = "deleteScenario" /\ Advances(p)
                   \/ l.op = "deleteAdapter" /\ Goes(p, "remove")
    <3>1. l.op \in {"deleteAdapter", "deleteScenario"}
      BY <2>2, <2>11 DEF RemoveRule, At, Sound, OpsAt
    <3>2. DeleteAdapterAPIRule(Slot(p)) /\ UNCHANGED storeVars
      BY <2>5, <2>11, CallsAgree DEF RemoveRule, ClusterOnly
    <3>3. IF l.op = "deleteScenario" THEN NextAdapter(p) ELSE Goto(p, "remove")
      BY <2>11 DEF RemoveRule
    <3>4. NextAdapter(p) => Advances(p) /\ OthersWait(p)
      BY <2>2, <2>6, NextAdvances DEF OthersWait
    <3>5. QED
      BY <2>7, <3>1, <3>2, <3>3, <3>4
  <2>12. QED
    BY <2>8, <2>9, <2>10, <2>11
<1>3. QED
  BY <1>1, <1>2

(* The rest.                                                               *)
LEMMA OtherEffects ==
    ASSUME SystemInv, SerialInv, NEW p \in Reqs
    PROVE  /\ MarkStopped(p) =>
                 /\ OthersWait(p)
                 /\ \/ local[p].op = "stop" /\ Advances(p)
                    \/ local[p].op = "stopAdapter" /\ local'[p] = Ready
                    \/ local[p].op = "updateAdapter" /\ Goes(p, "readKey")
           /\ Reread(p) =>
                 OthersWait(p) /\ UNCHANGED storeVars /\ Takes(p, "deleteRule")
           /\ ReadKey(p) =>
                 /\ OthersWait(p) /\ UNCHANGED storeVars
                 /\ SameRequest(p) /\ local'[p].pc = "write"
                 /\ local'[p].idx = local[p].idx /\ local'[p].aid = local[p].aid
                 /\ local'[p].cur = Nil
                 /\ local'[p].key = IF Slot(p).type = Sftp /\ local[p].key = Nil
                                    THEN Slot(p).key ELSE local[p].key
           /\ RemoveAdapter(p) => OthersWait(p) /\ local'[p] = Ready
           /\ Write(p) => OthersWait(p) /\ local'[p] = Ready
           /\ Finish(p) => OthersWait(p) /\ local'[p] = Ready
           /\ SweepTheRest(p) =>
                 /\ OthersWait(p) /\ UNCHANGED storeVars
                 /\ local[p].op = "cleanup" /\ local'[p].op \in {"cleanup", Nil}
                 /\ local'[p] = Ready \/ Goes(p, "sweepRules")
<1> DEFINE l == local[p]
           pcs == {"markStopped", "reread", "readKey", "remove", "write", "finish",
                   "sweepServices", "sweepRules"}
<1>1. CASE l.pc \notin pcs
  BY <1>1 DEF MarkStopped, Reread, ReadKey, RemoveAdapter, Write, Finish, SweepTheRest, At
<1>2. CASE l.pc \in pcs
  <2>1. ~ At(p, "ready")
    BY <1>2 DEF At
  <2>2. /\ p \in Processes /\ local \in [Processes -> Local] /\ Sound(p, l)
        /\ l.op # "idle" /\ p # Idle
    BY <2>1, AtWork
  <2>3. \A q \in Reqs \ {p} : q \in Processes \ {p}
    BY DEF Processes
  <2>4. \A pc : Goto(p, pc) => Goes(p, pc) /\ OthersWait(p)
    BY <2>2, <2>3, GotoGoes DEF OthersWait
  <2>5. NextAdapter(p) => Advances(p) /\ OthersWait(p)
    BY <2>2, <2>3, NextAdvances DEF OthersWait
  <2>6. Respond(p) => local'[p] = Ready /\ OthersWait(p)
    BY <2>2, <2>3, RespondEnds DEF OthersWait
  <2>7. ASSUME MarkStopped(p)
        PROVE  /\ OthersWait(p)
               /\ \/ l.op = "stop" /\ Advances(p)
                  \/ l.op = "stopAdapter" /\ local'[p] = Ready
                  \/ l.op = "updateAdapter" /\ Goes(p, "readKey")
    <3>1. l.op \in {"stop", "stopAdapter", "updateAdapter"}
      BY <2>2, <2>7 DEF MarkStopped, At, Sound, OpsAt
    <3>2. \/ l.op = "stop" /\ NextAdapter(p)
          \/ l.op = "stopAdapter" /\ Respond(p)
          \/ l.op = "updateAdapter" /\ Goto(p, "readKey")
      <4>1. CASE l.op = "stop"
        BY <2>7, <4>1 DEF MarkStopped
      <4>2. CASE l.op = "stopAdapter"
        BY <2>7, <4>2 DEF MarkStopped
      <4>3. CASE l.op = "updateAdapter"
        BY <2>7, <4>3 DEF MarkStopped
      <4>4. QED
        BY <3>1, <4>1, <4>2, <4>3
    <3>3. QED
      BY <2>4, <2>5, <2>6, <3>2
  <2>8. ASSUME Reread(p) \/ ReadKey(p)
        PROVE  Current(p) = Slot(p) /\ l.aid = Slot(p).id
    <3>1. l.op \in AdapterOps
      BY <2>2, <2>8 DEF Reread, ReadKey, At, Sound, OpsAt, AdapterOps
    <3>2. QED
      BY <2>1, <3>1, AtWork DEF OnSlot
  <2>9. ASSUME Reread(p)
        PROVE  OthersWait(p) /\ UNCHANGED storeVars /\ Takes(p, "deleteRule")
    <3>1. Set(p, [l EXCEPT !.pc = "deleteRule", !.cur = Slot(p)])
      BY <2>8, <2>9 DEF Reread
    <3>2. QED
      BY <2>2, <2>3, <2>8, <2>9, <3>1, SetHolds DEF Reread, LocalOnly, OthersWait
  <2>10. ASSUME ReadKey(p)
         PROVE  /\ OthersWait(p) /\ UNCHANGED storeVars
                /\ SameRequest(p) /\ local'[p].pc = "write"
                /\ local'[p].idx = l.idx /\ local'[p].aid = l.aid
                /\ local'[p].cur = Nil
                /\ local'[p].key = IF Slot(p).type = Sftp /\ l.key = Nil
                                   THEN Slot(p).key ELSE l.key
    <3> DEFINE k == IF Slot(p).type = Sftp /\ l.key = Nil THEN Slot(p).key ELSE l.key
    <3>1. Set(p, [l EXCEPT !.pc = "write", !.cur = Nil, !.key = k])
      BY <2>8, <2>10 DEF ReadKey
    <3> HIDE DEF k
    <3>2. /\ local'[p] = [l EXCEPT !.pc = "write", !.cur = Nil, !.key = k]
          /\ \A q \in Processes \ {p} : local'[q] = local[q]
      BY <2>2, <3>1, SetFacts
    <3>3. l \in Local
      BY <2>2
    <3>4. /\ SameRequest(p) /\ local'[p].pc = "write"
          /\ local'[p].idx = l.idx /\ local'[p].aid = l.aid
          /\ local'[p].cur = Nil /\ local'[p].key = k
      BY <3>2, <3>3 DEF SameRequest, Local
    <3>5. QED
      BY <2>3, <2>10, <3>2, <3>4 DEF ReadKey, LocalOnly, OthersWait, k
  <2>11. RemoveAdapter(p) => OthersWait(p) /\ local'[p] = Ready
    BY <2>6 DEF RemoveAdapter
  <2>12. Write(p) => OthersWait(p) /\ local'[p] = Ready
    BY <2>6 DEF Write
  <2>13. Finish(p) => OthersWait(p) /\ local'[p] = Ready
    BY <2>2, <2>6 DEF Finish
  <2>14. ASSUME SweepTheRest(p)
         PROVE  /\ OthersWait(p) /\ UNCHANGED storeVars
                /\ l.op = "cleanup" /\ local'[p].op \in {"cleanup", Nil}
                /\ local'[p] = Ready \/ Goes(p, "sweepRules")
    <3>1. l.op = "cleanup"
      BY <2>2, <2>14 DEF SweepTheRest, At, Sound, OpsAt
    <3>2. Goto(p, "sweepRules") \/ Respond(p)
      BY <2>14 DEF SweepTheRest
    <3>3. QED
      BY <2>4, <2>6, <2>14, <3>1, <3>2 DEF SweepTheRest, ClusterOnly, Goes, SameRequest, Ready
  <2>15. QED
    BY <2>7, <2>9, <2>10, <2>11, <2>12, <2>13, <2>14
<1>3. QED
  BY <1>1, <1>2

(* What only the steps of requests and restarts change.                    *)
LEMMA ContinueKeeps ==
    ASSUME NEW p \in Processes, Continue(p)
    PROVE  /\ UNCHANGED <<unloaded, clock, issued, snapshot>>
           /\ UNCHANGED storeVars \/ UNCHANGED clusterVars
<1>1. ASSUME \/ Pick(p) \/ CreateDeployment(p) \/ CreateService(p) \/ Expose(p)
             \/ Check(p) \/ Scale(p) \/ RemoveDeployment(p) \/ RemoveService(p)
             \/ Reread(p) \/ RemoveRule(p) \/ ReadKey(p) \/ SweepTheRest(p)
      PROVE  UNCHANGED <<unloaded, clock, issued, snapshot>> /\ UNCHANGED storeVars
  BY <1>1 DEF Pick, CreateDeployment, CreateService, Expose, Check, Scale,
              RemoveDeployment, RemoveService, Reread, RemoveRule, ReadKey, SweepTheRest,
              LocalOnly, ClusterOnly
<1>2. ASSUME \/ MarkRunning(p) \/ SetUrl(p) \/ WriteStatus(p) \/ WriteUrl(p)
             \/ MarkStopped(p) \/ RemoveAdapter(p) \/ Write(p) \/ Finish(p)
      PROVE  UNCHANGED <<unloaded, clock, issued, snapshot>> /\ UNCHANGED clusterVars
  BY <1>2 DEF MarkRunning, SetUrl, WriteStatus, WriteUrl, MarkStopped, RemoveAdapter,
              Write, Finish, StoreOnly
<1>3. QED
  BY <1>1, <1>2 DEF Continue

-----------------------------------------------------------------------------
(* What everything else does.                                              *)

(* No scenario is named after the current second yet.                      *)
LEMMA ClockIsFree ==
    ASSUME SystemInv, SerialInv
    PROVE  /\ clock \in Seconds /\ clock \in ScenarioIds /\ clock \in Nat
           /\ clock \notin GithubIds /\ ~ Holds(clock)
<1>1. clock \in Seconds
  BY DEF SystemInv, CountersInv
<1>2. clock \in ScenarioIds /\ clock \in Nat /\ clock \notin GithubIds
  BY <1>1, ConstantsAssumption DEF Seconds, ScenarioIds
<1>3. ~ Holds(clock)
  BY <1>2 DEF SerialInv, Numbered
<1>4. QED
  BY <1>1, <1>2, <1>3

(* Only a user who has his answer creates anything.                        *)
LEMMA CreatingAlone ==
    ASSUME OneByOne, NEW op \in {"createScenario", "clone", "addAdapter"}, Issue(op),
           SystemInv, UseSecond
    PROVE  /\ Quiet /\ unloaded = {} /\ op \in Ops /\ clock' = clock + 1
           /\ op = "addAdapter" => ~LocalMode
<1>1. op \in Ops /\ unloaded = {} /\ (OneUser => Quiet)
  BY DEF Issue, Spend
<1>2. OneUser /\ ~SameSecond
  BY <1>1 DEF OneByOne
<1>3. clock' = clock + 1
  BY <1>2 DEF UseSecond
<1>4. QED
  BY <1>1, <1>2, <1>3, ConstantsAssumption DEF OneByOne

(* The requests of one step, the reports and the loading of files.         *)
Loads ==
    \E g \in unloaded :
        /\ Quiet /\ unloaded' = unloaded \ {g} /\ clock' = clock
        /\ Founded(g, FromFile(g))

Creates ==
    /\ Quiet /\ unloaded = {} /\ unloaded' = {} /\ clock' = clock + 1
    /\ \/ Founded(clock, <<>>)
       \/ "clone" \in Ops /\ \E src \in Scenarios :
             Founded(clock, CloneOf(AdaptersOf(src), clock))

Adds ==
    /\ Quiet /\ unloaded = {} /\ unloaded' = {} /\ clock' = clock + 1
    /\ ~LocalMode
    /\ \E sid \in Scenarios, name \in Names, type \in Types :
          LET id == <<sid, type, clock>>
          IN  \E key \in RequestKeys(type, id) :
                 /\ Usable(name)
                 /\ NewAdapter(id, name, type, key) \in AdapterRecord
                 /\ Extended(sid, NewAdapter(id, name, type, key))

Reports ==
    /\ unloaded' = unloaded /\ clock' = clock
    /\ \E sid \in ScenarioIds : \E i \in Positions(sid) :
          Written(sid, i, [AdapterAt(sid, i) EXCEPT !.last = "recent"])

Passes ==
    /\ unloaded' \subseteq unloaded /\ clock' = clock
    /\ SameAdapters /\ SameLabels

LEMMA LoadEffect ==
    ASSUME SystemInv, SerialInv, NEW g \in GithubIds, LoadOrSkip(g)
    PROVE  Loads \/ Passes
<1>1. g \in ScenarioIds /\ StoreInv /\ g \in unloaded
  BY DEF ScenarioIds, SystemInv, HeapInv, LoadOrSkip
<1>2. Quiet
  BY <1>1 DEF SerialInv, Alone
<1>3. CASE UNCHANGED storeVars
  BY <1>3, UnchangedAdapters DEF LoadOrSkip, Passes
<1>4. CASE ~ UNCHANGED storeVars
  <2>1. ~ Holds(g) /\ Publish(g, FromFile(g), "github")
    BY <1>4 DEF LoadOrSkip, LoadGitHubScenario
  <2>2. Founded(g, FromFile(g))
    BY <1>1, <2>1, FromFileType, ScenarioPublished DEF Sources
  <2>3. QED
    BY <1>1, <1>2, <2>2 DEF LoadOrSkip, Loads
<1>5. QED
  BY <1>3, <1>4

LEMMA CreateEffect ==
    ASSUME SystemInv, SerialInv, OneByOne,
           HandleCreateScenario \/ \E src \in Scenarios : HandleClone(src)
    PROVE  Creates
<1>1. StoreInv /\ clock \in ScenarioIds /\ ~ Holds(clock)
  BY ClockIsFree DEF SystemInv, HeapInv
<1>2. CASE HandleCreateScenario
  <2>1. /\ Issue("createScenario") /\ UseSecond /\ unloaded' = unloaded
        /\ Publish(clock, <<>>, "")
    BY <1>1, <1>2 DEF HandleCreateScenario, CreateScenario
  <2>2. <<>> \in Seq(AdapterRecord) /\ Len(<<>>) = 0
    OBVIOUS
  <2>3. Founded(clock, <<>>)
    BY <1>1, <2>1, <2>2, ScenarioPublished DEF Sources
  <2>4. QED
    BY <2>1, <2>3, CreatingAlone DEF Creates
<1>3. ASSUME NEW src \in Scenarios, HandleClone(src)
      PROVE  Creates
  <2>1. /\ Issue("clone") /\ UseSecond /\ unloaded' = unloaded
        /\ Holds(src) /\ src \in ScenarioIds
        /\ Publish(clock, CloneOf(AdaptersOf(src), clock), "user")
    BY <1>3 DEF HandleClone, CloneScenario, Scenarios
  <2>2. AdaptersOf(src) \in Seq(AdapterRecord)
    BY <1>1, <2>1, SlotFacts, ViewType DEF AdaptersOf
  <2>3. CloneOf(AdaptersOf(src), clock) \in Seq(AdapterRecord)
    BY <1>1, <2>2, CloneOfType
  <2>4. Founded(clock, CloneOf(AdaptersOf(src), clock))
    BY <1>1, <2>1, <2>3, ScenarioPublished DEF Sources
  <2>5. QED
    BY <2>1, <2>4, CreatingAlone DEF Creates
<1>4. QED
  BY <1>2, <1>3

LEMMA AddEffect ==
    ASSUME SystemInv, SerialInv, OneByOne, NEW sid \in Scenarios, NEW name \in Names,
           NEW type \in Types, NEW k \in RequestKeys(type, Nil),
           HandleAddAdapter(sid, name, type, k)
    PROVE  Adds
<1> DEFINE id  == <<sid, type, clock>>
           key == IF type = Sftp /\ k = Nil THEN id ELSE k
<1>1. /\ Issue("addAdapter") /\ UseSecond /\ unloaded' = unloaded
      /\ Usable(name) /\ Holds(sid) /\ sid \in ScenarioIds /\ StoreInv
  BY DEF HandleAddAdapter, Scenarios, SystemInv, HeapInv
<1>2. Quiet /\ unloaded = {} /\ clock' = clock + 1 /\ ~LocalMode
  BY <1>1, CreatingAlone
<1>3. NewAdapterId(sid, type, clock) = id
  BY <1>2 DEF NewAdapterId
<1>4. key \in RequestKeys(type, id) /\ NewAdapter(id, name, type, key) \in AdapterRecord
  BY <1>1, <1>3, ClockIsFree, AddedAdapter
<1>5. AddAdapter(sid, NewAdapter(id, name, type, key))
  BY <1>3 DEF HandleAddAdapter
<1>6. Extended(sid, NewAdapter(id, name, type, key))
  BY <1>1, <1>4, <1>5, AdapterAdded
<1>7. QED
  BY <1>1, <1>2, <1>4, <1>6 DEF Adds

LEMMA OneStepEffect ==
    ASSUME SystemInv, SerialInv, OneByOne, OneStep
    PROVE  /\ UNCHANGED <<clusterVars, local>>
           /\ Loads \/ Creates \/ Adds \/ Reports \/ Passes
<1>1. CASE \E g \in GithubIds : LoadOrSkip(g)
  BY <1>1, LoadEffect DEF LoadOrSkip
<1>2. CASE HandleCreateScenario \/ \E src \in Scenarios : HandleClone(src)
  BY <1>2, CreateEffect DEF HandleCreateScenario, HandleClone
<1>3. ASSUME NEW sid \in Scenarios, HandleUpdateScenario(sid)
      PROVE  UNCHANGED <<clusterVars, local>> /\ Passes
  <2>1. sid \in ScenarioIds /\ StoreInv
    BY DEF Scenarios, SystemInv, HeapInv
  <2>2. QED
    BY <1>3, <2>1, ScenarioLabelled DEF HandleUpdateScenario, Passes
<1>4. ASSUME NEW sid \in Scenarios, NEW name \in Names, NEW type \in Types,
             NEW k \in RequestKeys(type, Nil), HandleAddAdapter(sid, name, type, k)
      PROVE  UNCHANGED <<clusterVars, local>> /\ Adds
  BY <1>4, AddEffect DEF HandleAddAdapter
<1>5. ASSUME NEW id, HandleAdapterActivity(id)
      PROVE  UNCHANGED <<clusterVars, local>> /\ (Reports \/ Passes)
  <2>1. StoreInv /\ RecordAdapterActivity(id)
    BY <1>5 DEF HandleAdapterActivity, SystemInv, HeapInv
  <2>2. QED
    BY <1>5, <2>1, ActivityWritten, UnchangedAdapters
       DEF HandleAdapterActivity, Reports, Passes
<1>6. QED
  BY <1>1, <1>2, <1>3, <1>4, <1>5 DEF OneStep

(* The beginning of a request.                                             *)
BeginsLoop(p) ==
    \E op \in {"launch", "stop", "deleteScenario"}, sid \in Scenarios :
        /\ op \in Ops /\ UNCHANGED clusterVars
        /\ local'[p] = [Ready EXCEPT !.op = op, !.pc = "pick", !.sid = sid,
                           !.obj = catalog[sid], !.arr = Arr(sid),
                           !.len = Size(sid), !.idx = 1]

(* A pointer to the adapter at i, and what the request brings.             *)
Pointing(op, sid, i, name, key) ==
    [Ready EXCEPT !.op = op, !.pc = "check", !.sid = sid,
                  !.aid = AdapterAt(sid, i).id, !.arr = Arr(sid), !.idx = i,
                  !.name = name, !.key = key]

(* It is an update that brings a name or a key.                            *)
Brings(op, sid, i, name, key) ==
    /\ name \in Names \cup {Nil}
    /\ key \in RequestKeys(AdapterAt(sid, i).type, Nil) \cup {Nil}
    /\ op # "updateAdapter" => name = Nil
    /\ op = "updateAdapter" => key \in RequestKeys(AdapterAt(sid, i).type, Nil)
    /\ name # Nil => Usable(name)

BeginsAdapter(p) ==
    \E op \in AdapterOps, sid \in Scenarios : \E i \in Positions(sid) :
        \E name, key :
            /\ op \in Ops /\ UNCHANGED clusterVars
            /\ Brings(op, sid, i, name, key)
            /\ local'[p] = Pointing(op, sid, i, name, key)

BeginsCleanup(p) ==
    /\ "cleanup" \in Ops /\ SweepDeployments
    /\ local'[p] = [Ready EXCEPT !.op = "cleanup", !.pc = "sweepServices"]

LEMMA BeginEffect ==
    ASSUME SystemInv, SerialInv, OneByOne, NEW p \in Reqs, Begin(p)
    PROVE  /\ Quiet /\ unloaded = {}
           /\ UNCHANGED <<storeVars, unloaded, clock>>
           /\ \A q \in Processes \ {p} : local'[q] = local[q]
           /\ BeginsLoop(p) \/ BeginsAdapter(p) \/ BeginsCleanup(p)
<1>1. p \in Processes /\ local \in [Processes -> Local] /\ StoreInv
  BY DEF Processes, SystemInv, LocalsInv, HeapInv
<1>2. ASSUME NEW op, Accept(p, op)
      PROVE  Quiet /\ unloaded = {} /\ op \in Ops
  <2>1. At(p, "ready") /\ unloaded = {} /\ (OneUser => Quiet) /\ op \in Ops
    BY <1>2 DEF Accept, Issue, Spend
  <2>2. QED
    BY <2>1 DEF OneByOne, Quiet
<1>3. ASSUME NEW sid \in Scenarios, NEW op \in {"launch", "stop", "deleteScenario"},
             BeginLoop(p, op, sid)
      PROVE  /\ Quiet /\ unloaded = {}
             /\ UNCHANGED <<storeVars, unloaded, clock>>
             /\ \A q \in Processes \ {p} : local'[q] = local[q]
             /\ BeginsLoop(p)
  <2> DEFINE m == [Ready EXCEPT !.op = op, !.pc = "pick", !.sid = sid,
                      !.obj = catalog[sid], !.arr = Arr(sid), !.len = Size(sid), !.idx = 1]
  <2>1. /\ Accept(p, op) /\ Set(p, m)
        /\ UNCHANGED <<storeVars, clusterVars, unloaded, clock>>
    BY <1>3 DEF BeginLoop, Arr, Size
  <2>2. local'[p] = m /\ \A q \in Processes \ {p} : local'[q] = local[q]
    BY <1>1, <2>1, SetFacts
  <2>3. QED
    BY <1>2, <2>1, <2>2 DEF BeginsLoop
<1>4. ASSUME NEW sid \in Scenarios, NEW k \in Positions(sid), NEW op \in AdapterOps,
             NEW name, NEW key, Brings(op, sid, k, name, key),
             BeginAdapter(p, op, sid, AdapterAt(sid, k).id, name, key)
      PROVE  /\ Quiet /\ unloaded = {}
             /\ UNCHANGED <<storeVars, unloaded, clock>>
             /\ \A q \in Processes \ {p} : local'[q] = local[q]
             /\ BeginsAdapter(p)
  <2>1. PICK i \in Positions(sid) :
           /\ Lookup(sid, AdapterAt(sid, k).id, i)
           /\ Set(p, [Ready EXCEPT !.op = op, !.pc = "check", !.sid = sid,
                        !.aid = AdapterAt(sid, k).id, !.arr = Arr(sid),
                        !.idx = i, !.name = name, !.key = key])
    BY <1>4 DEF BeginAdapter, Arr
  <2>2. sid \in ScenarioIds /\ IdsDiffer(sid)
    BY DEF Scenarios, SerialInv, Apart
  <2>3. i = k
    BY <1>1, <2>1, <2>2, FoundByIds
  <2>4. Set(p, Pointing(op, sid, k, name, key))
    BY <2>1, <2>3 DEF Pointing
  <2>5. /\ local'[p] = Pointing(op, sid, k, name, key)
        /\ \A q \in Processes \ {p} : local'[q] = local[q]
    BY <1>1, <2>4, SetFacts
  <2>6. Accept(p, op) /\ UNCHANGED <<storeVars, clusterVars, unloaded, clock>>
    BY <1>4 DEF BeginAdapter
  <2>7. Quiet /\ unloaded = {} /\ op \in Ops
    BY <1>2, <2>6
  <2>8. BeginsAdapter(p)
    BY <1>4, <2>5, <2>6, <2>7 DEF BeginsAdapter
  <2>9. QED
    BY <2>5, <2>6, <2>7, <2>8
<1>5. ASSUME BeginCleanup(p)
      PROVE  /\ Quiet /\ unloaded = {}
             /\ UNCHANGED <<storeVars, unloaded, clock>>
             /\ \A q \in Processes \ {p} : local'[q] = local[q]
             /\ BeginsCleanup(p)
  <2>1. local'[p] = [Ready EXCEPT !.op = "cleanup", !.pc = "sweepServices"]
        /\ \A q \in Processes \ {p} : local'[q] = local[q]
    BY <1>1, <1>5, SetFacts DEF BeginCleanup
  <2>2. QED
    BY <1>2, <1>5, <2>1 DEF BeginCleanup, BeginsCleanup
<1>6. CASE \E sid \in Scenarios, op \in {"launch", "stop", "deleteScenario"} :
              BeginLoop(p, op, sid)
  BY <1>3, <1>6
<1>7. CASE \E sid \in Scenarios : \E i \in Positions(sid) :
              LET x == AdapterAt(sid, i)
              IN  \/ \E op \in {"deleteAdapter", "stopAdapter"} :
                        BeginAdapter(p, op, sid, x.id, Nil, Nil)
                  \/ \E name \in Names \cup {Nil}, key \in RequestKeys(x.type, Nil) :
                        /\ name # Nil => Usable(name)
                        /\ BeginAdapter(p, "updateAdapter", sid, x.id, name, key)
  <2>0. PICK sid \in Scenarios : \E i \in Positions(sid) :
              LET x == AdapterAt(sid, i)
              IN  \/ \E op \in {"deleteAdapter", "stopAdapter"} :
                        BeginAdapter(p, op, sid, x.id, Nil, Nil)
                  \/ \E name \in Names \cup {Nil}, key \in RequestKeys(x.type, Nil) :
                        /\ name # Nil => Usable(name)
                        /\ BeginAdapter(p, "updateAdapter", sid, x.id, name, key)
    BY <1>7
  <2>1. PICK i \in Positions(sid) :
              LET x == AdapterAt(sid, i)
              IN  \/ \E op \in {"deleteAdapter", "stopAdapter"} :
                        BeginAdapter(p, op, sid, x.id, Nil, Nil)
                  \/ \E name \in Names \cup {Nil}, key \in RequestKeys(x.type, Nil) :
                        /\ name # Nil => Usable(name)
                        /\ BeginAdapter(p, "updateAdapter", sid, x.id, name, key)
    BY <2>0
  <2>2. CASE \E op \in {"deleteAdapter", "stopAdapter"} :
                BeginAdapter(p, op, sid, AdapterAt(sid, i).id, Nil, Nil)
    <3>1. PICK op \in {"deleteAdapter", "stopAdapter"} :
                BeginAdapter(p, op, sid, AdapterAt(sid, i).id, Nil, Nil)
      BY <2>2
    <3>2. op \in AdapterOps /\ Brings(op, sid, i, Nil, Nil)
      BY DEF AdapterOps, Brings
    <3>3. QED
      BY <1>4, <3>1, <3>2
  <2>3. CASE \E name \in Names \cup {Nil}, key \in RequestKeys(AdapterAt(sid, i).type, Nil) :
                /\ name # Nil => Usable(name)
                /\ BeginAdapter(p, "updateAdapter", sid, AdapterAt(sid, i).id, name, key)
    <3>1. PICK name \in Names \cup {Nil}, key \in RequestKeys(AdapterAt(sid, i).type, Nil) :
                /\ name # Nil => Usable(name)
                /\ BeginAdapter(p, "updateAdapter", sid, AdapterAt(sid, i).id, name, key)
      BY <2>3
    <3>2. "updateAdapter" \in AdapterOps /\ Brings("updateAdapter", sid, i, name, key)
      BY <3>1 DEF AdapterOps, Brings
    <3>3. QED
      BY <1>4, <3>1, <3>2
  <2>4. QED
    BY <2>1, <2>2, <2>3
<1>8. QED
  BY <1>5, <1>6, <1>7 DEF Begin

(* The idle check.                                                         *)
IdleStops ==
    \E sid \in ScenarioIds : \E i \in Positions(sid) :
        Written(sid, i, WithStatus(AdapterAt(sid, i), "stopped"))

IdleLabels ==
    \E sid \in ScenarioIds :
        /\ SameAdapters
        /\ \A t \in ScenarioIds : Holds(t) =>
              Label(t)' = IF t = sid THEN "stopped" ELSE Label(t)

IdleScales ==
    /\ UNCHANGED storeVars /\ local[Idle].cur \in AdapterRecord
    /\ StopAdapterDeployment(local[Idle].cur)

(* Of the steps of a request, the idle check makes four.                   *)
LEMMA IdleContinues ==
    ASSUME SystemInv, Continue(Idle)
    PROVE  /\ Pick(Idle) \/ Scale(Idle) \/ MarkStopped(Idle) \/ Finish(Idle)
           /\ local[Idle].op = "idle" /\ ~ At(Idle, "ready")
           /\ local[Idle] \in Local /\ local[Idle].sid \in ScenarioIds
<1>1. local[Idle] \in Local /\ Sound(Idle, local[Idle])
  BY DEF SystemInv, LocalsInv, Processes
<1>2. local[Idle].op \in {Nil, "idle"}
  BY <1>1 DEF Sound
<1>3. Pick(Idle) \/ Scale(Idle) \/ MarkStopped(Idle) \/ Finish(Idle)
  <2>1. ~ \/ CreateDeployment(Idle) \/ CreateService(Idle) \/ Expose(Idle)
          \/ MarkRunning(Idle) \/ SetUrl(Idle) \/ WriteStatus(Idle) \/ WriteUrl(Idle)
    BY <1>1, <1>2, ControlPlaneAssumption
       DEF CreateDeployment, CreateService, Expose, MarkRunning, SetUrl,
           WriteStatus, WriteUrl, At, Sound, OpsAt, AllOps
  <2>2. ~ \/ Check(Idle) \/ RemoveDeployment(Idle) \/ RemoveService(Idle)
          \/ Reread(Idle) \/ RemoveRule(Idle) \/ RemoveAdapter(Idle)
          \/ ReadKey(Idle) \/ Write(Idle) \/ SweepTheRest(Idle)
    BY <1>1, <1>2, ControlPlaneAssumption
       DEF Check, RemoveDeployment, RemoveService, Reread, RemoveRule, RemoveAdapter,
           ReadKey, Write, SweepTheRest, At, Sound, OpsAt, AdapterOps, AllOps
  <2>3. QED
    BY <2>1, <2>2 DEF Continue
<1>4. ~ At(Idle, "ready") /\ local[Idle].op = "idle"
  BY <1>1, <1>2, <1>3, ControlPlaneAssumption
     DEF Pick, Scale, MarkStopped, Finish, At, Sound, OpsAt, LoopOps, AllOps
<1>5. local[Idle].sid \in ScenarioIds
  BY <1>1, <1>3, <1>4 DEF Pick, Scale, MarkStopped, Finish, At, Sound, Working, LoopOps
<1>6. QED
  BY <1>1, <1>3, <1>4, <1>5

LEMMA IdleEffect ==
    ASSUME SystemInv, SerialInv, IdleStep
    PROVE  /\ "idle" \in Ops /\ UNCHANGED <<unloaded, clock>>
           /\ \A q \in Reqs : local'[q] = local[q]
           /\ \/ IdleScales
              \/ UNCHANGED clusterVars
                 /\ (UNCHANGED storeVars \/ IdleStops \/ IdleLabels)
<1>1. /\ local \in [Processes -> Local] /\ Idle \in Processes /\ StoreInv
      /\ \A q \in Reqs : q \in Processes \ {Idle}
      /\ local[Idle] \in Local /\ Sound(Idle, local[Idle])
  BY ControlPlaneAssumption DEF SystemInv, LocalsInv, Processes, HeapInv
<1>2. local[Idle].op \in {Nil, "idle"}
  BY <1>1 DEF Sound
<1>3. CASE ListScenarios \/ ChooseScenario \/ Examine
  <2>1. \E m : Set(Idle, m)
    BY <1>3 DEF ListScenarios, ChooseScenario, Examine, Respond
  <2>2. \A q \in Reqs : local'[q] = local[q]
    BY <1>1, <2>1, SetFacts
  <2>3. UNCHANGED <<storeVars, clusterVars, unloaded, clock>>
    BY <1>3 DEF ListScenarios, ChooseScenario, Examine, LocalOnly
  <2>4. "idle" \in Ops
    BY <1>3 DEF ListScenarios, ChooseScenario, Examine, SerialInv, Alone, At
  <2>5. QED
    BY <2>2, <2>3, <2>4
<1>4. CASE Continue(Idle)
  <2>1. \/ Pick(Idle) \/ Scale(Idle) \/ MarkStopped(Idle) \/ Finish(Idle)
    BY <1>4, IdleContinues
  <2>2. UNCHANGED <<unloaded, clock>>
    BY <1>1, <1>4, ContinueKeeps
  <2>3. ~ At(Idle, "ready") /\ local[Idle].op = "idle" /\ local[Idle].sid \in ScenarioIds
    BY <1>4, IdleContinues
  <2>4. "idle" \in Ops
    BY <2>3 DEF SerialInv, Alone
  <2>5. \A q \in Reqs : local'[q] = local[q]
    <3>1. \E m : Set(Idle, m)
      BY <2>1, <2>3 DEF Pick, Scale, MarkStopped, Finish, Goto, NextAdapter, Respond
    <3>2. QED
      BY <1>1, <3>1, SetFacts
  <2>6. CASE Pick(Idle)
    BY <2>2, <2>4, <2>5, <2>6 DEF Pick, LocalOnly
  <2>7. CASE Scale(Idle)
    <3>1. local[Idle].cur \in AdapterRecord
      BY <1>1, <2>7 DEF Scale, At, Sound, Calls, Local
    <3>2. QED
      BY <2>2, <2>4, <2>5, <2>7, <3>1 DEF Scale, ClusterOnly, IdleScales
  <2>8. CASE MarkStopped(Idle)
    <3>1. \A sid \in ScenarioIds : \A i \in Positions(sid) :
             WithStatus(AdapterAt(sid, i), "stopped") \in AdapterRecord
      BY <1>1, LookupFacts DEF WithStatus, AdapterRecord, Statuses, Activity
    <3>2. UNCHANGED storeVars \/ IdleStops
      BY <1>1, <2>3, <2>8, <3>1, SetSlotWrites
         DEF MarkStopped, UpdateAdapterStatus, IdleStops
    <3>3. QED
      BY <2>2, <2>4, <2>5, <2>8, <3>2 DEF MarkStopped, StoreOnly
  <2>9. CASE Finish(Idle)
    <3>1. UpdateScenarioStatus(local[Idle].sid, "stopped")
      BY <2>3, <2>9 DEF Finish
    <3>2. IdleLabels
      BY <1>1, <2>3, <3>1, ScenarioLabelled DEF IdleLabels
    <3>3. QED
      BY <2>2, <2>4, <2>5, <2>9, <3>2 DEF Finish, StoreOnly
  <2>10. QED
    BY <2>1, <2>6, <2>7, <2>8, <2>9
<1>5. QED
  BY <1>3, <1>4 DEF IdleStep

(* Time, and a restart.                                                    *)
LEMMA WorldEffects ==
    ASSUME SystemInv
    PROVE  /\ Wait => Elapsed /\ UNCHANGED <<clusterVars, local, unloaded, clock>>
           /\ Restart => /\ "restart" \in Ops
                         /\ \A t \in ScenarioIds : ~ Holds(t)' /\ Positions(t)' = {}
                         /\ \A q \in Processes : local'[q] = Ready
                         /\ unloaded' = GithubIds /\ UNCHANGED <<clusterVars, clock>>
<1>1. Wait => Elapsed /\ UNCHANGED <<clusterVars, local, unloaded, clock>>
  BY AdaptersAged DEF Wait, SystemInv, HeapInv
<1>2. Restart => /\ "restart" \in Ops
                 /\ \A t \in ScenarioIds : ~ Holds(t)' /\ Positions(t)' = {}
                 /\ \A q \in Processes : local'[q] = Ready
                 /\ unloaded' = GithubIds /\ UNCHANGED <<clusterVars, clock>>
  BY DEF Restart, Spend, NewMemoryStore, Holds, Positions
<1>3. QED
  BY <1>1, <1>2

-----------------------------------------------------------------------------
(* SerialInv is inductive.                                                 *)

(* Adapters change only where handlers do not look.                        *)
KeepsAdapters ==
    /\ SameSlots
    /\ \A t \in ScenarioIds : \A j \in Positions(t) : Agree(AdapterAt(t, j)', AdapterAt(t, j))

LEMMA KeptBy ==
    ASSUME StoreInv
    PROVE  /\ SameAdapters => KeepsAdapters
           /\ Elapsed => KeepsAdapters
           /\ \A sid \in ScenarioIds : \A i \in Positions(sid) : \A x :
                 Written(sid, i, x) /\ Agree(x, AdapterAt(sid, i)) => KeepsAdapters
<1>1. SameAdapters => KeepsAdapters
  BY DEF SameAdapters, KeepsAdapters, Agree
<1>2. ASSUME Elapsed
      PROVE  KeepsAdapters
  <2>1. ASSUME NEW t \in ScenarioIds, NEW j \in Positions(t)
        PROVE  Agree(AdapterAt(t, j)', AdapterAt(t, j))
    <3>1. AdapterAt(t, j) \in AdapterRecord
      BY LookupFacts
    <3>2. AdapterAt(t, j)' = [AdapterAt(t, j) EXCEPT !.last = IF @ = "recent" THEN "old" ELSE @]
      BY <1>2 DEF Elapsed
    <3>3. QED
      BY <3>1, <3>2 DEF Agree, AdapterRecord
  <2>2. QED
    BY <1>2, <2>1 DEF Elapsed, KeepsAdapters
<1>3. ASSUME NEW sid \in ScenarioIds, NEW i \in Positions(sid), NEW x,
             Written(sid, i, x), Agree(x, AdapterAt(sid, i))
      PROVE  KeepsAdapters
  BY <1>3 DEF Written, KeepsAdapters, Agree
<1>4. QED
  BY <1>1, <1>2, <1>3

(* The positions are the same ones.                                        *)
LEMMA SamePositions ==
    ASSUME SameSlots, NEW t \in ScenarioIds
    PROVE  /\ Positions(t)' = Positions(t) /\ Holds(t)' = Holds(t)
           /\ Holds(t) => Arr(t)' = Arr(t) /\ Size(t)' = Size(t)
BY DEF SameSlots, Positions, Holds, Size

LEMMA KeptNumbering ==
    ASSUME KeepsAdapters, Apart, Numbered, clock' = clock
    PROVE  Apart' /\ Numbered'
<1>1. \A t \in ScenarioIds : \A j \in Positions(t) : AdapterAt(t, j)'.id = AdapterAt(t, j).id
  BY DEF KeepsAdapters, Agree
<1>2. \A t \in ScenarioIds :
         /\ Positions(t)' = Positions(t) /\ Holds(t)' = Holds(t)
         /\ Holds(t) => Size(t)' = Size(t)
  BY SamePositions DEF KeepsAdapters
<1>3. Apart'
  BY <1>1, <1>2 DEF Apart, IdsDiffer
<1>4. Numbered'
  BY <1>2 DEF Numbered
<1>5. QED
  BY <1>3, <1>4

(* A process that does nothing stays in step, and so does one that goes on *)
(* from one step on its slot to another.                                   *)
LEMMA KeptSlot ==
    ASSUME KeepsAdapters, NEW p \in Reqs, local[p].sid \in ScenarioIds,
           SameRequest(p), local'[p].idx = local[p].idx, local'[p].aid = local[p].aid,
           local'[p].cur \in {Nil, local[p].cur}, OnSlot(p)
    PROVE  OnSlot(p)'
<1>1. PICK sid \in ScenarioIds : sid = local[p].sid
  OBVIOUS
<1>2. PICK i : i = local[p].idx
  OBVIOUS
<1>3. i \in Positions(sid)' /\ Agree(AdapterAt(sid, i)', AdapterAt(sid, i))
  BY <1>1, <1>2, SamePositions DEF KeepsAdapters, OnSlot
<1>4. local'[p].sid = sid /\ local'[p].idx = i
  BY <1>1, <1>2 DEF SameRequest
<1>5. Slot(p)' = AdapterAt(sid, i)' /\ Slot(p) = AdapterAt(sid, i)
  BY <1>1, <1>2, <1>4 DEF Slot, AdapterAt
<1>6. i \in Positions(local[p].sid)'
  BY <1>3, <1>4 DEF Positions, Holds
<1>7. QED
  BY <1>2, <1>3, <1>4, <1>5, <1>6 DEF OnSlot, Agree

LEMMA KeptSlice ==
    ASSUME KeepsAdapters, NEW p \in Reqs, local[p].sid \in ScenarioIds,
           SameRequest(p), Holds(local[p].sid)
    PROVE  LET m == local'[p]
           IN  /\ m.sid = local[p].sid /\ catalog'[m.sid] # Nil
               /\ Positions(local[p].sid)' = Positions(local[p].sid)
               /\ local[p].obj = catalog[local[p].sid] => m.obj = catalog'[m.sid]
               /\ local[p].arr = Arr(local[p].sid) => m.arr = object'[catalog'[m.sid]].arr
               /\ local[p].len = Size(local[p].sid) => m.len = object'[catalog'[m.sid]].len
<1>1. PICK sid \in ScenarioIds : sid = local[p].sid
  OBVIOUS
<1>2. local'[p].sid = sid
  BY <1>1 DEF SameRequest
<1>3. /\ catalog'[sid] = catalog[sid] /\ Positions(sid)' = Positions(sid)
      /\ Arr(sid)' = Arr(sid) /\ Size(sid)' = Size(sid)
  BY <1>1, SamePositions DEF KeepsAdapters, SameSlots
<1>4. /\ Arr(sid)' = object'[catalog'[sid]].arr /\ Size(sid)' = object'[catalog'[sid]].len
      /\ Positions(local[p].sid)' = Positions(sid)'
  BY <1>2 DEF Arr, Size, Positions, Holds
<1>5. QED
  BY <1>1, <1>2, <1>3, <1>4 DEF SameRequest, Holds

LEMMA StaysOnSlot ==
    ASSUME KeepsAdapters, NEW p \in Reqs, local[p].sid \in ScenarioIds, InStep(p),
           SameRequest(p), local'[p].pc \notin {"pick", "finish"},
           \/ local[p].op \in AdapterOps
           \/ local[p].op \in LoopOps /\ local[p].pc \notin {"pick", "finish"},
           local'[p].idx = local[p].idx, local'[p].aid = local[p].aid,
           local'[p].cur \in {Nil, local[p].cur}
    PROVE  InStep(p)'
<1>1. OnSlot(p) /\ Holds(local[p].sid)
  BY DEF InStep, OnSlot, Positions
<1>2. OnSlot(p)'
  BY <1>1, KeptSlot
<1>3. local'[p].op = local[p].op
  BY DEF SameRequest
<1>4. QED
  BY <1>1, <1>2, <1>3, KeptSlice DEF InStep, Arr, Size, Holds

LEMMA GoesAlong ==
    ASSUME KeepsAdapters, NEW p \in Reqs, local[p].sid \in ScenarioIds, InStep(p),
           SameRequest(p), local[p].op \in LoopOps, LoopOps \cap AdapterOps = {},
           \/ local'[p].pc = "pick"
           \/ Goes(p, "finish") /\ local[p].idx > Size(local[p].sid)
    PROVE  InStep(p)'
<1>1. Holds(local[p].sid) /\ local[p].len = Size(local[p].sid)
  BY DEF InStep
<1>2. local'[p].op = local[p].op /\ local'[p].len = local[p].len
  BY DEF SameRequest
<1>3. local'[p].pc = "finish" => local'[p].idx > local'[p].len
  BY <1>1, <1>2 DEF Goes
<1>4. local'[p].pc \in {"pick", "finish"}
  BY DEF Goes
<1>5. QED
  BY <1>1, <1>2, <1>3, <1>4, KeptSlice DEF InStep, Arr, Size, Holds

LEMMA TakesSlot ==
    ASSUME UNCHANGED storeVars, NEW p \in Reqs, local[p].sid \in ScenarioIds, InStep(p),
           NEW pc, Takes(p, pc), pc \notin {"pick", "finish"},
           local[p].op \in LoopOps \cup AdapterOps, local[p].idx \in Positions(local[p].sid)
    PROVE  InStep(p)'
<1>1. KeepsAdapters
  BY DEF KeepsAdapters, SameSlots, Agree, storeVars, Arr, Size, Holds, Positions, AdapterAt
<1>2. Holds(local[p].sid) /\ SameRequest(p) /\ local'[p].op = local[p].op
      /\ local'[p].sid = local[p].sid /\ local'[p].pc = pc
  BY DEF Positions, Takes, SameRequest
<1>3. Slot(p)' = Slot(p)
  BY <1>2 DEF Slot, AdapterAt, storeVars, Takes
<1>4. OnSlot(p)'
  <2>1. Positions(local[p].sid)' = Positions(local[p].sid)
    BY <1>1, <1>2, KeptSlice
  <2>2. QED
    BY <1>2, <1>3, <2>1 DEF OnSlot, Agree, Takes
<1>5. QED
  BY <1>1, <1>2, <1>4, KeptSlice DEF InStep, Arr, Size, Holds, Takes

(* Without a request there is nothing to be in step.                       *)
LEMMA IdleSlots ==
    ASSUME NEW p \in Reqs, local'[p].op \in {Nil, "cleanup"}
    PROVE  InStep(p)'
BY ControlPlaneAssumption DEF InStep, LoopOps, AdapterOps, AllOps

LEMMA OthersInStep ==
    ASSUME SystemInv, SerialInv, NEW p \in Reqs, OthersWait(p), InStep(p)', ~ At(p, "ready")
    PROVE  \A q \in Reqs : InStep(q)'
<1>1. \A q \in Reqs \ {p} : local'[q].op = Nil
  BY AtWork DEF OthersWait
<1>2. QED
  BY <1>1, IdleSlots

(* The steps after which a request no longer is in progress, of those that *)
(* change more of the store than statuses, urls and activity.              *)
Ends(p) ==
    /\ local'[p] = Ready
    /\ \/ RemoveAdapter(p) /\ Vacated(local[p].sid, local[p].idx)
       \/ /\ Write(p)
          /\ Written(local[p].sid, local[p].idx, [Slot(p) EXCEPT
                !.name = IF local[p].name = Nil THEN @ ELSE local[p].name,
                !.key = local[p].key])
       \/ Finish(p) /\ local[p].op = "deleteScenario" /\ Dropped(local[p].sid)

LEMMA ContinueInStep ==
    ASSUME SystemInv, SerialInv, NEW p \in Reqs, Continue(p)
    PROVE  /\ \A q \in Reqs : InStep(q)'
           /\ KeepsAdapters \/ Ends(p)
<1> DEFINE l == local[p]
<1>1. ~ At(p, "ready")
  BY DEF Continue, Pick, CreateDeployment, CreateService, Expose, MarkRunning, SetUrl,
         WriteStatus, WriteUrl, Check, Scale, MarkStopped, RemoveDeployment, RemoveService,
         Reread, RemoveRule, RemoveAdapter, ReadKey, Write, SweepTheRest, Finish, At
<1>2. /\ l \in Local /\ Sound(p, l) /\ l.op # "idle" /\ StoreInv
      /\ l.op \in LoopOps \cup AdapterOps => l.sid \in ScenarioIds
      /\ l.op \in AdapterOps \/ (l.op \in LoopOps /\ l.pc \notin {"pick", "finish"}) =>
            OnSlot(p) /\ Slot(p) \in AdapterRecord
  BY <1>1, AtWork DEF SystemInv, HeapInv
<1>3. InStep(p) /\ LoopOps \cap AdapterOps = {}
  BY DEF SerialInv, LoopOps, AdapterOps
<1>4. UNCHANGED storeVars => KeepsAdapters
  BY <1>2, UnchangedAdapters, KeptBy
<1>5. ASSUME local'[p] = Ready
      PROVE  InStep(p)'
  BY <1>5, IdleSlots DEF Ready
<1>6. l.pc \in Calls \cup {"markRunning", "setUrl", "pokeStatus", "pokeUrl", "markStopped",
                           "readKey", "reread", "check"} =>
         \/ l.op \in AdapterOps
         \/ l.op \in LoopOps /\ l.pc \notin {"pick", "finish"}
  BY <1>2 DEF Sound, OpsAt, Calls, LoopOps, AdapterOps
(* A step that goes on with the slot, or leaves it.                        *)
<1>7. ASSUME KeepsAdapters, l.pc \in Calls \cup {"markRunning", "setUrl", "pokeStatus",
                                "pokeUrl", "markStopped", "readKey", "check"}
      PROVE  /\ \A pc : Goes(p, pc) /\ pc \notin {"pick", "finish"} => InStep(p)'
             /\ Advances(p) /\ l.op \in LoopOps => InStep(p)'
  BY <1>2, <1>3, <1>6, <1>7, StaysOnSlot, GoesAlong DEF Goes, Advances
<1>8. CASE Pick(p)
  <2>1. /\ UNCHANGED storeVars /\ OthersWait(p) /\ l.op \in LoopOps \ {"idle"}
        /\ \/ l.idx > Size(l.sid) /\ Goes(p, "finish")
           \/ /\ l.idx \in Positions(l.sid)
              /\ Takes(p, FirstStep(l.op)) \/ Advances(p)
    BY <1>8, PickEffect
  <2>2. FirstStep(l.op) \notin {"pick", "finish"}
    BY <2>1 DEF FirstStep, LoopOps
  <2>3. InStep(p)'
    <3>1. CASE Goes(p, "finish") /\ l.idx > Size(l.sid)
      BY <1>2, <1>3, <1>4, <2>1, <3>1, GoesAlong DEF Goes
    <3>2. CASE Takes(p, FirstStep(l.op)) /\ l.idx \in Positions(l.sid)
      BY <1>2, <1>3, <2>1, <2>2, <3>2, TakesSlot
    <3>3. CASE Advances(p)
      BY <1>2, <1>3, <1>4, <2>1, <3>3, GoesAlong DEF Advances
    <3>4. QED
      BY <2>1, <3>1, <3>2, <3>3
  <2>4. QED
    BY <1>1, <1>4, <2>1, <2>3, OthersInStep
<1>9. CASE CreateDeployment(p) \/ CreateService(p)
  <2>1. /\ UNCHANGED storeVars /\ OthersWait(p) /\ l.op \in LoopOps /\ l.pc \in Calls
        /\ Goes(p, "createService") \/ Goes(p, "expose") \/ Advances(p)
    BY <1>2, <1>9, LaunchEffects DEF CreateDeployment, CreateService, At, Sound, OpsAt,
                                     LoopOps, Calls
  <2>2. InStep(p)'
    BY <1>4, <1>7, <2>1
  <2>3. QED
    BY <1>1, <1>4, <2>1, <2>2, OthersInStep
<1>10. CASE Expose(p)
  <2>1. /\ UNCHANGED storeVars /\ OthersWait(p) /\ l.pc \in Calls
        /\ SameRequest(p) /\ local'[p].pc = "markRunning"
        /\ local'[p].idx = l.idx /\ local'[p].aid = l.aid /\ local'[p].cur = l.cur
    BY <1>10, LaunchEffects DEF Expose, At, Calls
  <2>2. InStep(p)'
    BY <1>2, <1>3, <1>4, <1>6, <2>1, StaysOnSlot
  <2>3. QED
    BY <1>1, <1>4, <2>1, <2>2, OthersInStep
<1>11. CASE MarkRunning(p) \/ SetUrl(p) \/ WriteStatus(p) \/ WriteUrl(p) \/ MarkStopped(p)
  <2>1. l.pc \in {"markRunning", "setUrl", "pokeStatus", "pokeUrl", "markStopped"}
    BY <1>11 DEF MarkRunning, SetUrl, WriteStatus, WriteUrl, MarkStopped, At
  <2>2. /\ OthersWait(p)
        /\ \/ local'[p] = Ready
           \/ Advances(p) /\ l.op \in LoopOps
           \/ \E pc : Goes(p, pc) /\ pc \notin {"pick", "finish"}
    <3>1. WriteUrl(p) => l.op \in LoopOps
      BY <1>2 DEF WriteUrl, At, Sound, OpsAt, LoopOps
    <3>2. l.op = "stop" => l.op \in LoopOps
      BY DEF LoopOps
    <3>3. QED
      BY <1>11, <3>1, <3>2, LaunchEffects, OtherEffects
  <2>3. KeepsAdapters
    <3>1. /\ l.sid \in ScenarioIds /\ l.idx \in Positions(l.sid) /\ Slot(p) \in AdapterRecord
          /\ Slot(p) = AdapterAt(l.sid, l.idx)
      BY <1>2, <1>6, <2>1 DEF OnSlot, Slot
    <3>2. PICK x : Written(l.sid, l.idx, x) /\ Agree(x, Slot(p))
      <4>1. CASE MarkRunning(p)
        <5>1. Agree(WithStatus(Slot(p), "running"), Slot(p))
          BY <3>1 DEF WithStatus, Agree, AdapterRecord
        <5>2. QED
          BY <4>1, <5>1, WritesHome
      <4>2. CASE MarkStopped(p)
        <5>1. Agree(WithStatus(Slot(p), "stopped"), Slot(p))
          BY <3>1 DEF WithStatus, Agree, AdapterRecord
        <5>2. QED
          BY <4>2, <5>1, WritesHome
      <4>3. CASE SetUrl(p) \/ WriteUrl(p)
        <5>1. Agree([Slot(p) EXCEPT !.url = l.url], Slot(p))
          BY <3>1 DEF Agree, AdapterRecord
        <5>2. QED
          BY <4>3, <5>1, WritesHome
      <4>4. CASE WriteStatus(p)
        <5>1. Agree([Slot(p) EXCEPT !.status = "running"], Slot(p))
          BY <3>1 DEF Agree, AdapterRecord
        <5>2. QED
          BY <4>4, <5>1, WritesHome
      <4>5. QED
        BY <1>11, <4>1, <4>2, <4>3, <4>4
    <3>3. QED
      BY <1>2, <3>1, <3>2, KeptBy
  <2>4. InStep(p)'
    BY <1>5, <1>7, <2>1, <2>2, <2>3
  <2>5. QED
    BY <1>1, <2>2, <2>3, <2>4, OthersInStep
<1>12. CASE Check(p)
  <2>1. /\ UNCHANGED storeVars /\ OthersWait(p) /\ l.op \in AdapterOps /\ l.pc = "check"
        /\ \E pc : pc \notin {"pick", "finish"} /\ (Goes(p, pc) \/ Takes(p, pc))
    BY <1>12, CheckEffect DEF Check, AdapterOps, At
  <2>2. l.idx \in Positions(l.sid)
    BY <1>2, <2>1 DEF OnSlot
  <2>3. InStep(p)'
    BY <1>2, <1>3, <1>4, <1>7, <2>1, <2>2, TakesSlot
  <2>4. QED
    BY <1>1, <1>4, <2>1, <2>3, OthersInStep
<1>13. CASE Scale(p) \/ RemoveDeployment(p) \/ RemoveService(p) \/ RemoveRule(p)
  <2>1. /\ UNCHANGED storeVars /\ OthersWait(p) /\ l.pc \in Calls
        /\ \/ Advances(p) /\ l.op \in LoopOps
           \/ \E pc : Goes(p, pc) /\ pc \notin {"pick", "finish"}
    <3>1. l.pc \in Calls
      BY <1>13 DEF Scale, RemoveDeployment, RemoveService, RemoveRule, At, Calls
    <3>2. CASE Scale(p) \/ RemoveDeployment(p)
      BY <3>1, <3>2, TeardownEffects
    <3>3. CASE RemoveService(p)
      BY <3>1, <3>3, TeardownEffects
    <3>4. CASE RemoveRule(p)
      BY <3>1, <3>4, TeardownEffects DEF LoopOps
    <3>5. QED
      BY <1>13, <3>2, <3>3, <3>4
  <2>2. InStep(p)'
    BY <1>4, <1>7, <2>1
  <2>3. QED
    BY <1>1, <1>4, <2>1, <2>2, OthersInStep
<1>14. CASE Reread(p)
  <2>1. UNCHANGED storeVars /\ OthersWait(p) /\ Takes(p, "deleteRule") /\ l.pc = "reread"
    BY <1>14, OtherEffects DEF Reread, At
  <2>2. l.op \in AdapterOps
    BY <1>2, <2>1 DEF Sound, OpsAt, AdapterOps
  <2>3. InStep(p)'
    BY <1>2, <1>3, <2>1, <2>2, TakesSlot DEF OnSlot
  <2>4. QED
    BY <1>1, <1>4, <2>1, <2>3, OthersInStep
<1>15. CASE ReadKey(p)
  <2>1. /\ UNCHANGED storeVars /\ OthersWait(p) /\ l.pc = "readKey"
        /\ SameRequest(p) /\ local'[p].pc = "write"
        /\ local'[p].idx = l.idx /\ local'[p].aid = l.aid /\ local'[p].cur = Nil
    BY <1>15, OtherEffects DEF ReadKey, At
  <2>2. InStep(p)'
    BY <1>2, <1>3, <1>4, <1>6, <2>1, StaysOnSlot
  <2>3. QED
    BY <1>1, <1>4, <2>1, <2>2, OthersInStep
<1>16. CASE SweepTheRest(p)
  <2>1. UNCHANGED storeVars /\ OthersWait(p) /\ local'[p].op \in {"cleanup", Nil}
    BY <1>16, OtherEffects
  <2>2. InStep(p)'
    BY <2>1, IdleSlots
  <2>3. QED
    BY <1>1, <1>4, <2>1, <2>2, OthersInStep
<1>17. CASE RemoveAdapter(p) \/ Write(p)
  <2>1. OthersWait(p) /\ local'[p] = Ready
    BY <1>17, OtherEffects
  <2>2. QED
    BY <1>1, <1>5, <1>17, <2>1, WritesHome, OthersInStep DEF Ends
<1>18. CASE Finish(p)
  <2>1. OthersWait(p) /\ local'[p] = Ready
    BY <1>18, OtherEffects
  <2>2. SameAdapters \/ (l.op = "deleteScenario" /\ Dropped(l.sid))
    BY <1>18, FinishEffect
  <2>3. KeepsAdapters \/ Ends(p)
    BY <1>2, <1>18, <2>1, <2>2, KeptBy DEF Ends
  <2>4. QED
    BY <1>1, <1>5, <2>1, <2>3, OthersInStep
<1>19. QED
  BY <1>8, <1>9, <1>10, <1>11, <1>12, <1>13, <1>14, <1>15, <1>16, <1>17, <1>18 DEF Continue

(* Ids and sizes after the steps that change more than that.               *)
LEMMA NumberingKept ==
    ASSUME StoreInv, Apart, Numbered, clock' = clock, clock \in Nat,
           \/ KeepsAdapters
           \/ \E sid \in ScenarioIds : \E i \in Positions(sid) : \E x :
                 Written(sid, i, x) /\ x.id = AdapterAt(sid, i).id
           \/ \E sid \in ScenarioIds : \E i \in Positions(sid) : Vacated(sid, i)
           \/ \E sid \in ScenarioIds : Dropped(sid)
    PROVE  Apart' /\ Numbered'
<1>1. CASE KeepsAdapters
  BY <1>1, KeptNumbering
<1>2. ASSUME NEW sid \in ScenarioIds, NEW i \in Positions(sid), NEW x,
             Written(sid, i, x), x.id = AdapterAt(sid, i).id
      PROVE  Apart' /\ Numbered'
  <2>1. \A t \in ScenarioIds :
           /\ Positions(t)' = Positions(t) /\ Holds(t)' = Holds(t)
           /\ Holds(t) => Size(t)' = Size(t)
    BY <1>2, SamePositions DEF Written
  <2>2. \A t \in ScenarioIds : \A j \in Positions(t) : AdapterAt(t, j)'.id = AdapterAt(t, j).id
    BY <1>2 DEF Written
  <2>3. Apart'
    BY <2>1, <2>2 DEF Apart, IdsDiffer
  <2>4. Numbered'
    BY <2>1 DEF Numbered
  <2>5. QED
    BY <2>3, <2>4
<1>3. ASSUME NEW sid \in ScenarioIds, NEW i \in Positions(sid), Vacated(sid, i)
      PROVE  Apart' /\ Numbered'
  <2>1. Holds(sid) /\ Size(sid) \in Nat /\ i \in 1 .. Size(sid)
    BY SlotFacts DEF Positions
  <2>2. \A t \in ScenarioIds :
           /\ Holds(t)' = Holds(t)
           /\ Holds(t) => /\ Size(t)' = IF t = sid THEN Size(t) - 1 ELSE Size(t)
                          /\ Positions(t) = 1 .. Size(t) /\ Size(t) \in Nat
           /\ Positions(t)' = IF Holds(t) THEN 1 .. Size(t)' ELSE {}
    BY <1>3, SlotFacts DEF Vacated, Holds, Positions, Size
  <2>3. ASSUME NEW t \in ScenarioIds, NEW j \in Positions(t)'
        PROVE  LET k == IF t = sid /\ j >= i THEN j + 1 ELSE j
               IN  j \in Nat /\ k \in Positions(t) /\ AdapterAt(t, j)' = AdapterAt(t, k)
    <3>1. Holds(t) /\ j \in 1 .. Size(t)'
      BY <2>2
    <3>2. j \in Nat /\ (IF t = sid /\ j >= i THEN j + 1 ELSE j) \in Positions(t)
      BY <2>1, <2>2, <3>1
    <3>3. QED
      BY <1>3, <3>2 DEF Vacated
  <2>4. Apart'
    <3>1. ASSUME NEW t \in ScenarioIds
          PROVE  IdsDiffer(t)' /\ \A j \in Positions(t)' : AdapterAt(t, j)'.id[3] < clock
      <4> DEFINE k(j) == IF t = sid /\ j >= i THEN j + 1 ELSE j
      <4>1. \A j \in Positions(t)' :
               j \in Nat /\ k(j) \in Positions(t) /\ AdapterAt(t, j)' = AdapterAt(t, k(j))
        BY <2>3
      <4>2. \A j, m \in Positions(t)' : k(j) = k(m) => j = m
        <5>1. i \in Nat
          BY <2>1
        <5>2. QED
          BY <4>1, <5>1
      <4> HIDE DEF k
      <4>3. QED
        BY <4>1, <4>2 DEF Apart, IdsDiffer
    <3>2. QED
      BY <3>1 DEF Apart
  <2>5. Numbered'
    <3>1. \A t \in ScenarioIds : Holds(t) => Size(t)' \in Int /\ Size(t)' <= Size(t)
      BY <2>1, <2>2
    <3>2. Horizon - clock \in Int
      BY ConstantsAssumption
    <3>3. QED
      BY <2>2, <3>1, <3>2, ConstantsAssumption DEF Numbered
  <2>6. QED
    BY <2>4, <2>5
<1>4. ASSUME NEW sid \in ScenarioIds, Dropped(sid)
      PROVE  Apart' /\ Numbered'
  <2>1. \A t \in ScenarioIds :
           \/ ~ Holds(t)' /\ Positions(t)' = {}
           \/ /\ catalog'[t] = catalog[t] /\ Holds(t)' = Holds(t) /\ Size(t)' = Size(t)
              /\ Positions(t)' = Positions(t)
              /\ \A j \in Positions(t) : AdapterAt(t, j)' = AdapterAt(t, j)
    BY <1>4 DEF Dropped, Holds, Positions, Size, AdapterAt
  <2>2. Apart'
    BY <1>4, <2>1 DEF Apart, IdsDiffer
  <2>3. Numbered'
    BY <2>1 DEF Numbered
  <2>4. QED
    BY <2>2, <2>3
<1>5. QED
  BY <1>1, <1>2, <1>3, <1>4

(* The ids that files and clones get are positions.                        *)
LEMMA PositionIds ==
    ASSUME NEW sid \in ScenarioIds
    PROVE  /\ sid \in GithubIds => \A i \in 1 .. Len(FromFile(sid)) :
                 FromFile(sid)[i].id[3] = i - 1
           /\ \A xs \in Seq(AdapterRecord) : \A i \in 1 .. Len(xs) :
                 CloneOf(xs, sid)[i].id[3] = i - 1
<1>1. ASSUME sid \in GithubIds, NEW i \in 1 .. Len(FromFile(sid))
      PROVE  FromFile(sid)[i].id[3] = i - 1
  BY <1>1, FromFileType DEF FromFile, NewAdapter, PositionId
<1>2. ASSUME NEW xs \in Seq(AdapterRecord), NEW i \in 1 .. Len(xs)
      PROVE  CloneOf(xs, sid)[i].id[3] = i - 1
  BY <1>2 DEF CloneOf, NewAdapter, PositionId
<1>3. QED
  BY <1>1, <1>2

(* A scenario with such ids, or without any.                               *)
LEMMA NumberingFounded ==
    ASSUME StoreInv, Apart, Numbered, clock \in Seconds,
           clock' = clock \/ clock' = clock + 1,
           NEW sid \in ScenarioIds, NEW xs \in Seq(AdapterRecord), Founded(sid, xs),
           \A i \in 1 .. Len(xs) : xs[i].id[3] = i - 1,
           Len(xs) + (Horizon - clock) <= Epoch,
           sid \in GithubIds \/ (sid = clock /\ clock' = clock + 1)
    PROVE  Apart' /\ Numbered'
<1>1. /\ clock \in Nat /\ clock' \in Nat /\ clock <= clock' /\ Epoch <= clock
      /\ clock <= Horizon /\ Horizon \in Nat /\ Epoch \in Nat
  BY ConstantsAssumption DEF Seconds
<1>2. \A t \in ScenarioIds :
         /\ Positions(t)' = IF Holds(t)' THEN 1 .. Size(t)' ELSE {}
         /\ t # sid => Holds(t)' = Holds(t) /\ Positions(t)' = Positions(t)
                       /\ (Holds(t) => Size(t)' = Size(t))
         /\ t = sid => Size(t)' = Len(xs) /\ Positions(t)' = 1 .. Len(xs)
  BY DEF Founded, Positions, Size, Holds
<1>3. ASSUME NEW t \in ScenarioIds
      PROVE  /\ IdsDiffer(t)' /\ \A i \in Positions(t)' : AdapterAt(t, i)'.id[3] < clock'
             /\ Holds(t)' => /\ t \in GithubIds \/ t < clock'
                             /\ Size(t)' + (Horizon - clock') <= Epoch
  <2>1. CASE t = sid
    <3>1. \A i \in Positions(t)' : /\ i \in 1 .. Len(xs) /\ AdapterAt(t, i)' = xs[i]
                                   /\ AdapterAt(t, i)'.id[3] = i - 1
      BY <1>2, <2>1 DEF Founded
    <3>2. Len(xs) \in Nat
      OBVIOUS
    <3>3. \A i \in Positions(t)' : i \in Nat /\ i - 1 < clock'
      BY <1>1, <3>1, <3>2
    <3>4. IdsDiffer(t)'
      BY <3>1, <3>3 DEF IdsDiffer
    <3>5. Size(t)' = Len(xs)
      BY <1>2, <2>1
    <3>6. Size(t)' + (Horizon - clock') <= Epoch
      BY <1>1, <3>2, <3>5
    <3>7. t \in GithubIds \/ t < clock'
      BY <1>1, <2>1
    <3>8. QED
      BY <3>1, <3>3, <3>4, <3>6, <3>7
  <2>2. CASE t # sid
    <3>1. \A i \in Positions(t)' : i \in Positions(t) /\ AdapterAt(t, i)' = AdapterAt(t, i)
      BY <1>2, <2>2 DEF Founded
    <3>2. IdsDiffer(t)'
      BY <1>2, <2>2, <3>1 DEF IdsDiffer, Apart
    <3>3. \A i \in Positions(t) : AdapterAt(t, i).id[3] \in Nat /\ AdapterAt(t, i).id[3] < clock
      BY LookupFacts DEF Apart, AdapterRecord, AdapterIds
    <3>4. \A i \in Positions(t)' : AdapterAt(t, i)'.id[3] < clock'
      BY <1>1, <3>1, <3>3
    <3>5. ASSUME Holds(t)'
          PROVE  /\ t \in GithubIds \/ t < clock'
                 /\ Size(t)' + (Horizon - clock') <= Epoch
      <4>1. Holds(t) /\ Size(t)' = Size(t)
        BY <1>2, <2>2, <3>5
      <4>2. Size(t) \in Nat
        BY <4>1, SlotFacts
      <4>3. t \in GithubIds \/ (t \in Nat /\ t < clock)
        BY <4>1, <1>1 DEF Numbered, ScenarioIds, Seconds
      <4>4. Size(t) + (Horizon - clock) <= Epoch
        BY <4>1 DEF Numbered
      <4>5. QED
        BY <1>1, <4>1, <4>2, <4>3, <4>4
    <3>6. QED
      BY <3>2, <3>4, <3>5
  <2>3. QED
    BY <2>1, <2>2
<1>4. QED
  BY <1>3 DEF Apart, Numbered

LEMMA NumberingExtended ==
    ASSUME StoreInv, Apart, Numbered, clock \in Seconds, clock' = clock + 1,
           NEW sid \in ScenarioIds, Holds(sid), NEW x \in AdapterRecord, Extended(sid, x),
           x.id[3] = clock
    PROVE  Apart' /\ Numbered'
<1>1. clock \in Nat /\ Horizon \in Nat /\ Epoch \in Nat
  BY ConstantsAssumption DEF Seconds
<1>2. \A t \in ScenarioIds :
         /\ Holds(t)' = Holds(t)
         /\ Holds(t) => /\ Size(t) \in Nat /\ Positions(t) = 1 .. Size(t)
                        /\ Size(t)' = IF t = sid THEN Size(t) + 1 ELSE Size(t)
         /\ Positions(t)' = IF Holds(t) THEN 1 .. Size(t)' ELSE {}
  BY SlotFacts DEF Extended, Positions, Size, Holds
<1>3. ASSUME NEW t \in ScenarioIds
      PROVE  /\ IdsDiffer(t)' /\ \A i \in Positions(t)' : AdapterAt(t, i)'.id[3] < clock'
             /\ Holds(t)' => /\ t \in GithubIds \/ t < clock'
                             /\ Size(t)' + (Horizon - clock') <= Epoch
  <2>1. \A i \in Positions(t)' :
           \/ i \in Positions(t) /\ AdapterAt(t, i)' = AdapterAt(t, i)
           \/ t = sid /\ i = Size(sid) + 1 /\ AdapterAt(t, i)' = x
    BY <1>2 DEF Extended
  <2>2. \A i \in Positions(t) : AdapterAt(t, i).id[3] \in Nat /\ AdapterAt(t, i).id[3] < clock
    BY LookupFacts DEF Apart, AdapterRecord, AdapterIds
  <2>3. \A i \in Positions(t)' : AdapterAt(t, i)'.id[3] < clock'
    BY <1>1, <2>1, <2>2
  <2>4. IdsDiffer(t)'
    BY <1>1, <2>1, <2>2 DEF IdsDiffer, Apart
  <2>5. ASSUME Holds(t)'
        PROVE  /\ t \in GithubIds \/ t < clock'
               /\ Size(t)' + (Horizon - clock') <= Epoch
    <3>1. Holds(t) /\ Size(t) \in Nat /\ Size(t)' \in Nat /\ Size(t)' <= Size(t) + 1
      BY <1>2, <2>5
    <3>2. t \in GithubIds \/ (t \in Nat /\ t < clock)
      BY <1>1, <3>1 DEF Numbered, ScenarioIds, Seconds
    <3>3. Size(t) + (Horizon - clock) <= Epoch
      BY <3>1 DEF Numbered
    <3>4. QED
      BY <1>1, <3>1, <3>2, <3>3
  <2>6. QED
    BY <2>3, <2>4, <2>5
<1>4. QED
  BY <1>3 DEF Apart, Numbered

LEMMA QuietInStep ==
    ASSUME SystemInv, Quiet, UNCHANGED local
    PROVE  Quiet' /\ \A p \in Reqs : InStep(p)'
<1>1. \A p \in Reqs : local'[p].op = Nil
  BY DEF Quiet, SystemInv, LocalsInv, Sound, OpsAt, At, Processes
<1>2. Quiet'
  BY DEF Quiet, At
<1>3. QED
  BY <1>1, <1>2, IdleSlots

LEMMA WaitingInStep ==
    ASSUME SystemInv, SerialInv, KeepsAdapters, \A q \in Reqs : local'[q] = local[q]
    PROVE  \A p \in Reqs : InStep(p)'
<1>1. ASSUME NEW p \in Reqs
      PROVE  InStep(p)'
  <2>1. InStep(p) /\ SameRequest(p) /\ Sound(p, local[p]) /\ p # Idle
    BY ControlPlaneAssumption
       DEF SerialInv, SameRequest, SystemInv, LocalsInv, Processes
  <2>2. CASE local[p].op \notin LoopOps \cup AdapterOps
    BY <2>2 DEF InStep
  <2>3. CASE local[p].op \in LoopOps \cup AdapterOps
    <3>1. local[p].sid \in ScenarioIds /\ LoopOps \cap AdapterOps = {}
      BY <2>1, <2>3 DEF Sound, Working, OpsAt, LoopOps, AdapterOps
    <3>2. CASE local[p].op \in LoopOps /\ local[p].pc = "pick"
      BY <2>1, <3>1, <3>2, GoesAlong
    <3>3. CASE local[p].op \in LoopOps /\ local[p].pc = "finish"
      <4>1. local[p].idx > Size(local[p].sid)
        BY <2>1, <3>3 DEF InStep
      <4>2. Goes(p, "finish")
        BY <2>1, <3>3 DEF Goes
      <4>3. QED
        BY <2>1, <3>1, <3>3, <4>1, <4>2, GoesAlong
    <3>4. CASE local[p].op \in LoopOps /\ local[p].pc \notin {"pick", "finish"}
      BY <2>1, <3>1, <3>4, StaysOnSlot
    <3>5. CASE local[p].op \in AdapterOps
      <4>1. local[p].pc \notin {"pick", "finish"}
        BY <2>1, <3>1, <3>5 DEF Sound, OpsAt
      <4>2. QED
        BY <2>1, <3>1, <3>5, <4>1, StaysOnSlot
    <3>6. QED
      BY <2>3, <3>2, <3>3, <3>4, <3>5
  <2>4. QED
    BY <2>2, <2>3
<1>2. QED
  BY <1>1

LEMMA InitSerialInv == ASSUME Init PROVE SerialInv
<1>1. \A sid \in ScenarioIds : ~ Holds(sid) /\ Positions(sid) = {}
  BY DEF Init, StoreInit, Holds, Positions
<1>2. \A p \in Processes : local[p] = Ready /\ At(p, "ready")
  BY DEF Init, At, Ready
<1>3. Alone
  BY <1>2 DEF Alone, Quiet, Processes
<1>4. Apart /\ Numbered
  BY <1>1 DEF Apart, IdsDiffer, Numbered
<1>5. \A p \in Reqs : InStep(p)
  BY <1>2, ControlPlaneAssumption
     DEF InStep, Ready, LoopOps, AdapterOps, AllOps, Processes
<1>6. QED
  BY <1>3, <1>4, <1>5 DEF SerialInv

LEMMA ContinueSerial ==
    ASSUME SystemInv, SerialInv, NEW p \in Reqs, Continue(p)
    PROVE  SerialInv'
<1> DEFINE l == local[p]
<1>1. /\ p \in Processes /\ UNCHANGED <<unloaded, clock>> /\ StoreInv /\ clock \in Nat
      /\ \A q \in Processes \ {p} : local'[q] = local[q]
  BY ContinueLocal, ContinueKeeps, ClockIsFree DEF Processes, SystemInv, HeapInv
<1>2. ~ At(p, "ready")
  BY DEF Continue, Pick, CreateDeployment, CreateService, Expose, MarkRunning, SetUrl,
         WriteStatus, WriteUrl, Check, Scale, MarkStopped, RemoveDeployment, RemoveService,
         Reread, RemoveRule, RemoveAdapter, ReadKey, Write, SweepTheRest, Finish, At
<1>3. unloaded = {} /\ p # Idle /\ \A q \in Reqs \ {p} : At(q, "ready")
  BY <1>2, AtWork
<1>4. Alone'
  BY <1>1, <1>3 DEF SerialInv, Alone, At, Processes
<1>5. (\A q \in Reqs : InStep(q)') /\ (KeepsAdapters \/ Ends(p))
  BY ContinueInStep
<1>6. Apart' /\ Numbered'
  <2>1. CASE KeepsAdapters
    BY <1>1, <2>1, NumberingKept DEF SerialInv
  <2>2. CASE RemoveAdapter(p) \/ Write(p)
    <3>1. l.op \in AdapterOps
      BY <1>1, <2>2 DEF RemoveAdapter, Write, At, SystemInv, LocalsInv, Sound, OpsAt,
                        AdapterOps
    <3>2. /\ l.sid \in ScenarioIds /\ l.idx \in Positions(l.sid)
          /\ Slot(p) \in AdapterRecord /\ Slot(p) = AdapterAt(l.sid, l.idx)
      BY <1>2, <3>1, AtWork DEF OnSlot, Slot
    <3>3. CASE RemoveAdapter(p)
      BY <1>1, <3>2, <3>3, WritesHome, NumberingKept DEF SerialInv
    <3>4. CASE Write(p)
      <4> DEFINE x == [Slot(p) EXCEPT !.name = IF l.name = Nil THEN @ ELSE l.name,
                                      !.key = l.key]
      <4>1. Written(l.sid, l.idx, x)
        BY <3>4, WritesHome
      <4>2. x.id = AdapterAt(l.sid, l.idx).id
        BY <3>2 DEF AdapterRecord
      <4> HIDE DEF x
      <4>3. QED
        BY <1>1, <3>2, <4>1, <4>2, NumberingKept DEF SerialInv
    <3>5. QED
      BY <2>2, <3>3, <3>4
  <2>3. CASE Finish(p) /\ l.op = "deleteScenario" /\ Dropped(l.sid)
    <3>1. l.sid \in ScenarioIds
      BY <1>2, <2>3, AtWork DEF LoopOps
    <3>2. QED
      BY <1>1, <2>3, <3>1, NumberingKept DEF SerialInv
  <2>4. QED
    BY <1>5, <2>1, <2>2, <2>3 DEF Ends
<1>7. QED
  BY <1>4, <1>5, <1>6 DEF SerialInv

LEMMA OneStepSerial ==
    ASSUME SystemInv, SerialInv, OneByOne, OneStep
    PROVE  SerialInv'
<1>1. /\ UNCHANGED <<clusterVars, local>> /\ StoreInv /\ clock \in Seconds /\ clock \in Nat
      /\ \A p \in Reqs : local'[p] = local[p]
  BY OneStepEffect, ClockIsFree DEF SystemInv, HeapInv
<1>2. Loads \/ Creates \/ Adds \/ Reports \/ Passes
  BY OneStepEffect
<1>3. unloaded' \subseteq unloaded
  BY <1>2 DEF Loads, Creates, Adds, Reports, Passes
<1>4. Alone'
  BY <1>1, <1>3 DEF SerialInv, Alone, At, Quiet
<1>5. clock <= Horizon /\ Epoch <= clock /\ Horizon \in Nat /\ Epoch \in Nat
  BY <1>1, ConstantsAssumption DEF Seconds
<1>6. CASE Loads
  <2>1. PICK g \in unloaded : Quiet /\ clock' = clock /\ Founded(g, FromFile(g))
    BY <1>6 DEF Loads
  <2>2. g \in GithubIds /\ g \in ScenarioIds
    BY <2>1 DEF SystemInv, CountersInv, ScenarioIds
  <2>3. Len(Manifest[g]) + (Horizon - Epoch) <= Epoch /\ Len(Manifest[g]) \in Nat
    BY <2>2, ConstantsAssumption DEF OneByOne, PositionsStaySmall
  <2>4. Len(FromFile(g)) + (Horizon - clock) <= Epoch
    BY <1>1, <1>5, <2>2, <2>3, FromFileType
  <2>5. Apart' /\ Numbered'
    BY <1>1, <2>1, <2>2, <2>4, FromFileType, PositionIds, NumberingFounded DEF SerialInv
  <2>6. QED
    BY <1>1, <1>4, <2>1, <2>5, QuietInStep DEF SerialInv
<1>7. CASE Creates
  <2>1. Quiet /\ clock' = clock + 1 /\ clock \in ScenarioIds
    BY <1>7, ClockIsFree DEF Creates
  <2>2. CASE Founded(clock, <<>>)
    <3>1. PICK xs \in Seq(AdapterRecord) : xs = <<>> /\ Len(xs) = 0
      <4>1. <<>> \in Seq(AdapterRecord)
        OBVIOUS
      <4>2. Len(<<>>) = 0
        OBVIOUS
      <4>3. QED
        BY <4>1, <4>2, Zenon
    <3>2. Len(xs) + (Horizon - clock) <= Epoch
      <4>1. 0 + (Horizon - Epoch) <= Epoch
        BY DEF OneByOne, PositionsStaySmall
      <4>2. QED
        BY <1>1, <1>5, <3>1, <4>1
    <3>3. Founded(clock, xs) /\ \A i \in 1 .. Len(xs) : xs[i].id[3] = i - 1
      BY <2>2, <3>1
    <3>4. Apart' /\ Numbered'
      BY <1>1, <2>1, <3>2, <3>3, NumberingFounded DEF SerialInv
    <3>5. QED
      BY <1>1, <1>4, <2>1, <3>4, QuietInStep DEF SerialInv
  <2>3. ASSUME NEW src \in Scenarios, Founded(clock, CloneOf(AdaptersOf(src), clock))
        PROVE  SerialInv'
    <3> DEFINE xs == AdaptersOf(src)
    <3>1. src \in ScenarioIds /\ Holds(src)
      BY DEF Scenarios
    <3>2. xs \in Seq(AdapterRecord) /\ Len(xs) = Size(src)
      BY <1>1, <3>1, SlotFacts, ViewType DEF AdaptersOf, Size
    <3>3. /\ CloneOf(xs, clock) \in Seq(AdapterRecord) /\ Len(CloneOf(xs, clock)) = Size(src)
          /\ \A i \in 1 .. Len(xs) : CloneOf(xs, clock)[i].id[3] = i - 1
      BY <2>1, <3>2, CloneOfType, PositionIds
    <3>4. Size(src) + (Horizon - clock) <= Epoch
      BY <3>1 DEF SerialInv, Numbered
    <3>5. \A i \in 1 .. Len(CloneOf(xs, clock)) : CloneOf(xs, clock)[i].id[3] = i - 1
      BY <3>2, <3>3
    <3>6. Founded(clock, CloneOf(xs, clock))
      BY <2>3
    <3> HIDE DEF xs
    <3>7. Apart' /\ Numbered'
      BY <1>1, <2>1, <3>3, <3>4, <3>5, <3>6, NumberingFounded DEF SerialInv
    <3>8. QED
      BY <1>1, <1>4, <2>1, <3>7, QuietInStep DEF SerialInv
  <2>4. QED
    BY <1>7, <2>2, <2>3 DEF Creates
<1>8. CASE Adds
  <2>1. Quiet /\ clock' = clock + 1
    BY <1>8 DEF Adds
  <2>2. PICK sid \in Scenarios, x \in AdapterRecord : x.id[3] = clock /\ Extended(sid, x)
    BY <1>8 DEF Adds, NewAdapter
  <2>3. sid \in ScenarioIds /\ Holds(sid)
    BY DEF Scenarios
  <2>4. Apart' /\ Numbered'
    BY <1>1, <2>1, <2>2, <2>3, NumberingExtended DEF SerialInv
  <2>5. QED
    BY <1>1, <1>4, <2>1, <2>4, QuietInStep DEF SerialInv
<1>9. CASE Reports \/ Passes
  <2>1. KeepsAdapters /\ clock' = clock
    <3>1. CASE Passes
      BY <1>1, <3>1, KeptBy DEF Passes
    <3>2. CASE Reports
      <4>1. PICK sid \in ScenarioIds : \E i \in Positions(sid) :
               Written(sid, i, [AdapterAt(sid, i) EXCEPT !.last = "recent"])
        BY <3>2 DEF Reports
      <4>2. PICK i \in Positions(sid) :
               Written(sid, i, [AdapterAt(sid, i) EXCEPT !.last = "recent"])
        BY <4>1
      <4>3. AdapterAt(sid, i) \in AdapterRecord
        BY <1>1, LookupFacts
      <4>4. Agree([AdapterAt(sid, i) EXCEPT !.last = "recent"], AdapterAt(sid, i))
        BY <4>3 DEF Agree, AdapterRecord
      <4>5. QED
        BY <1>1, <3>2, <4>2, <4>4, KeptBy DEF Reports
    <3>3. QED
      BY <1>9, <3>1, <3>2
  <2>2. Apart' /\ Numbered'
    BY <1>1, <2>1, NumberingKept DEF SerialInv
  <2>3. QED
    BY <1>1, <1>4, <2>1, <2>2, WaitingInStep DEF SerialInv
<1>10. QED
  BY <1>2, <1>6, <1>7, <1>8, <1>9

LEMMA BeginSerial ==
    ASSUME SystemInv, SerialInv, OneByOne, NEW p \in Reqs, Begin(p)
    PROVE  SerialInv'
<1>1. /\ Quiet /\ unloaded = {} /\ UNCHANGED <<storeVars, unloaded, clock>>
      /\ \A q \in Processes \ {p} : local'[q] = local[q]
      /\ BeginsLoop(p) \/ BeginsAdapter(p) \/ BeginsCleanup(p)
  BY BeginEffect
<1>2. p \in Processes /\ Idle \in Processes \ {p} /\ StoreInv /\ clock \in Nat
      /\ SameAdapters /\ KeepsAdapters
  BY <1>1, ControlPlaneAssumption, UnchangedAdapters, KeptBy, ClockIsFree
     DEF Processes, SystemInv, HeapInv
<1>3. \A q \in Reqs \ {p} : q \in Processes \ {p} /\ At(q, "ready") /\ At(q, "ready")'
  BY <1>1 DEF Processes, Quiet, At
<1>4. Alone'
  BY <1>1, <1>2, <1>3 DEF SerialInv, Alone, At
<1>5. Apart' /\ Numbered'
  BY <1>1, <1>2, NumberingKept DEF SerialInv
<1>6. \A q \in Reqs \ {p} : local'[q].op = Nil
  BY <1>1, <1>3 DEF SystemInv, LocalsInv, Sound, OpsAt, At, Processes
<1>7. InStep(p)'
  <2>1. CASE BeginsLoop(p)
    <3>1. PICK op \in {"launch", "stop", "deleteScenario"}, sid \in Scenarios :
             local'[p] = [Ready EXCEPT !.op = op, !.pc = "pick", !.sid = sid,
                             !.obj = catalog[sid], !.arr = Arr(sid),
                             !.len = Size(sid), !.idx = 1]
      BY <2>1 DEF BeginsLoop
    <3>2. /\ local'[p].op = op /\ local'[p].pc = "pick" /\ local'[p].sid = sid
          /\ local'[p].obj = catalog[sid] /\ local'[p].arr = Arr(sid)
          /\ local'[p].len = Size(sid)
      BY <3>1 DEF Ready
    <3>3. /\ sid \in ScenarioIds /\ Holds(sid) /\ Holds(sid)' /\ catalog'[sid] = catalog[sid]
          /\ Arr(sid) = object'[catalog'[sid]].arr /\ Size(sid) = object'[catalog'[sid]].len
      BY <1>1 DEF Scenarios, Holds, Arr, Size, storeVars
    <3>4. QED
      BY <3>2, <3>3 DEF InStep, Arr, Size, Holds, AdapterOps
  <2>2. CASE BeginsAdapter(p)
    <3>1. PICK op \in AdapterOps, sid \in Scenarios : \E i \in Positions(sid) :
             \E name, key : local'[p] = Pointing(op, sid, i, name, key)
      BY <2>2 DEF BeginsAdapter
    <3>2. PICK i \in Positions(sid) : \E name, key : local'[p] = Pointing(op, sid, i, name, key)
      BY <3>1
    <3>3. /\ local'[p].op = op /\ local'[p].sid = sid /\ local'[p].arr = Arr(sid)
          /\ local'[p].idx = i /\ local'[p].aid = AdapterAt(sid, i).id
          /\ local'[p].cur = Nil
      BY <3>2 DEF Ready, Pointing
    <3>4. /\ sid \in ScenarioIds /\ Positions(sid) = Positions(sid)'
          /\ Arr(sid) = object'[catalog'[sid]].arr
          /\ AdapterAt(sid, i) = array'[object'[catalog'[sid]].arr][i]
      BY <1>1 DEF Scenarios, Positions, Holds, Arr, AdapterAt, storeVars
    <3>5. op \notin LoopOps
      BY DEF LoopOps, AdapterOps
    <3>6. QED
      BY <3>3, <3>4, <3>5 DEF InStep, OnSlot, Slot, Arr, AdapterAt, Positions, Holds
  <2>3. CASE BeginsCleanup(p)
    <3>1. local'[p].op = "cleanup"
      BY <2>3 DEF BeginsCleanup, Ready
    <3>2. QED
      BY <3>1, IdleSlots
  <2>4. QED
    BY <1>1, <2>1, <2>2, <2>3
<1>8. \A q \in Reqs : InStep(q)'
  BY <1>6, <1>7, IdleSlots
<1>9. QED
  BY <1>4, <1>5, <1>8 DEF SerialInv

(* The idle check changes statuses only.                                   *)
LEMMA IdleKeeps ==
    ASSUME SystemInv, SerialInv, IdleStep
    PROVE  KeepsAdapters
<1>1. StoreInv
  BY DEF SystemInv, HeapInv
<1>2. CASE UNCHANGED storeVars
  BY <1>1, <1>2, UnchangedAdapters, KeptBy
<1>3. CASE IdleStops
  <2>1. PICK sid \in ScenarioIds : \E i \in Positions(sid) :
           Written(sid, i, WithStatus(AdapterAt(sid, i), "stopped"))
    BY <1>3 DEF IdleStops
  <2>2. PICK i \in Positions(sid) : Written(sid, i, WithStatus(AdapterAt(sid, i), "stopped"))
    BY <2>1
  <2>3. AdapterAt(sid, i) \in AdapterRecord
    BY <1>1, LookupFacts
  <2>4. Agree(WithStatus(AdapterAt(sid, i), "stopped"), AdapterAt(sid, i))
    BY <2>3 DEF Agree, WithStatus, AdapterRecord
  <2>5. QED
    BY <1>1, <2>2, <2>4, KeptBy
<1>4. CASE IdleLabels
  BY <1>1, <1>4, KeptBy DEF IdleLabels
<1>5. QED
  BY <1>2, <1>3, <1>4, IdleEffect DEF IdleScales

LEMMA IdleSerial ==
    ASSUME SystemInv, SerialInv, IdleStep
    PROVE  SerialInv'
<1>1. /\ "idle" \in Ops /\ UNCHANGED <<unloaded, clock>>
      /\ \A q \in Reqs : local'[q] = local[q]
      /\ KeepsAdapters /\ StoreInv /\ clock \in Nat
  BY IdleEffect, IdleKeeps, ClockIsFree DEF SystemInv, HeapInv
<1>2. Alone'
  BY <1>1 DEF SerialInv, Alone, At, Quiet
<1>3. Apart' /\ Numbered'
  BY <1>1, NumberingKept DEF SerialInv
<1>4. QED
  BY <1>1, <1>2, <1>3, WaitingInStep DEF SerialInv

LEMMA WorldSerial ==
    ASSUME SystemInv, SerialInv, Wait \/ Restart
    PROVE  SerialInv'
<1>1. CASE Wait
  <2>1. Elapsed /\ UNCHANGED <<local, unloaded, clock>> /\ StoreInv /\ clock \in Nat
    BY <1>1, WorldEffects, ClockIsFree DEF SystemInv, HeapInv
  <2>2. KeepsAdapters
    BY <2>1, KeptBy
  <2>3. Alone'
    BY <2>1 DEF SerialInv, Alone, At, Quiet
  <2>4. Apart' /\ Numbered'
    BY <2>1, <2>2, NumberingKept DEF SerialInv
  <2>5. QED
    BY <2>1, <2>2, <2>3, <2>4, WaitingInStep DEF SerialInv
<1>2. CASE Restart
  <2>1. /\ \A t \in ScenarioIds : ~ Holds(t)' /\ Positions(t)' = {}
        /\ \A q \in Processes : local'[q] = Ready
    BY <1>2, WorldEffects
  <2>2. \A q \in Processes : At(q, "ready")' /\ local'[q].op = Nil
    BY <2>1 DEF At, Ready
  <2>3. Alone'
    BY <2>2 DEF Alone, Quiet, Processes
  <2>4. Apart' /\ Numbered'
    BY <2>1 DEF Apart, IdsDiffer, Numbered
  <2>5. \A q \in Reqs : InStep(q)'
    BY <2>2, IdleSlots DEF Processes
  <2>6. QED
    BY <2>3, <2>4, <2>5 DEF SerialInv
<1>3. QED
  BY <1>1, <1>2

LEMMA SerialStep ==
    ASSUME SystemInv, SerialInv, OneByOne, [Next]_vars
    PROVE  SerialInv'
<1>1. CASE UNCHANGED vars
  <2>1. KeepsAdapters /\ UNCHANGED <<local, unloaded, clock>> /\ StoreInv /\ clock \in Nat
    BY <1>1, UnchangedAdapters, KeptBy, ClockIsFree
       DEF SystemInv, HeapInv, vars, controlVars
  <2>2. Alone'
    BY <2>1 DEF SerialInv, Alone, At, Quiet
  <2>3. Apart' /\ Numbered'
    BY <2>1, NumberingKept DEF SerialInv
  <2>4. QED
    BY <2>1, <2>2, <2>3, WaitingInStep DEF SerialInv
<1>2. CASE Next
  BY <1>2, OneStepSerial, BeginSerial, ContinueSerial, IdleSerial, WorldSerial DEF Next
<1>3. QED
  BY <1>1, <1>2

(* If requests come one at a time, then whatever a handler captured is     *)
(* what the store still holds, and no id is used twice in a scenario.      *)
THEOREM Serial == ASSUME OneByOne PROVE Spec => []SerialInv
<1>1. Init => SerialInv
  BY InitSerialInv
<1>2. SystemInv /\ SerialInv /\ [Next]_vars => SerialInv'
  BY SerialStep
<1>3. QED
  BY <1>1, <1>2, SystemInvariant, PTL DEF Spec

-----------------------------------------------------------------------------
(* What is true of every adapter.                                          *)

Everywhere(good) ==
    \A sid \in ScenarioIds : \A i \in Positions(sid) : AdapterAt(sid, i) \in good

(* Where adapters of a set come from.                                      *)
LEMMA StaysEverywhere ==
    ASSUME StoreInv, NEW good, Everywhere(good),
           \/ SameAdapters
           \/ \E sid \in ScenarioIds : \E i \in Positions(sid) : \E x \in good :
                 Written(sid, i, x)
           \/ \E sid \in ScenarioIds : \E i \in Positions(sid) : Vacated(sid, i)
           \/ \E sid \in Scenarios, x \in good : Extended(sid, x)
           \/ \E sid \in ScenarioIds : \E xs \in Seq(good) : Founded(sid, xs)
           \/ \E sid \in ScenarioIds : Dropped(sid)
           \/ \A sid \in ScenarioIds : Positions(sid)' = {}
    PROVE  Everywhere(good)'
<1>1. CASE SameAdapters
  BY <1>1, SamePositions DEF Everywhere, SameAdapters
<1>2. ASSUME NEW sid \in ScenarioIds, NEW i \in Positions(sid), NEW x \in good,
             Written(sid, i, x)
      PROVE  Everywhere(good)'
  BY <1>2, SamePositions DEF Everywhere, Written
<1>3. ASSUME NEW sid \in ScenarioIds, NEW i \in Positions(sid), Vacated(sid, i)
      PROVE  Everywhere(good)'
  <2>1. ASSUME NEW t \in ScenarioIds, NEW j \in Positions(t)'
        PROVE  AdapterAt(t, j)' \in good
    <3>1. catalog'[t] = catalog[t] /\ Holds(t) /\ j \in 1 .. Size(t)'
      BY <1>3 DEF Vacated, Positions, Holds, Size
    <3>2. Size(t) \in Nat /\ Positions(t) = 1 .. Size(t)
      BY <3>1, SlotFacts
    <3>3. Size(t)' = IF t = sid THEN Size(t) - 1 ELSE Size(t)
      BY <1>3, <3>1 DEF Vacated
    <3>4. (IF t = sid /\ j >= i THEN j + 1 ELSE j) \in Positions(t)
      BY <3>1, <3>2, <3>3
    <3>5. AdapterAt(t, j)' = AdapterAt(t, IF t = sid /\ j >= i THEN j + 1 ELSE j)
      BY <1>3 DEF Vacated
    <3>6. QED
      BY <3>4, <3>5 DEF Everywhere
  <2>2. QED
    BY <2>1 DEF Everywhere
<1>4. ASSUME NEW sid \in Scenarios, NEW x \in good, Extended(sid, x)
      PROVE  Everywhere(good)'
  <2>1. ASSUME NEW t \in ScenarioIds, NEW j \in Positions(t)'
        PROVE  AdapterAt(t, j)' \in good
    <3>1. catalog'[t] = catalog[t] /\ Holds(t) /\ j \in 1 .. Size(t)'
      BY <1>4 DEF Extended, Positions, Holds, Size
    <3>2. Size(t) \in Nat /\ Positions(t) = 1 .. Size(t)
      BY <3>1, SlotFacts
    <3>3. Size(t)' = IF t = sid THEN Size(t) + 1 ELSE Size(t)
      BY <1>4, <3>1 DEF Extended
    <3>4. AdapterAt(t, j)' = IF t = sid /\ j = Size(sid) + 1 THEN x ELSE AdapterAt(t, j)
      BY <1>4 DEF Extended
    <3>5. CASE t = sid /\ j = Size(sid) + 1
      BY <3>4, <3>5
    <3>6. CASE ~ (t = sid /\ j = Size(sid) + 1)
      <4>1. j \in Positions(t)
        BY <3>1, <3>2, <3>3, <3>6
      <4>2. QED
        BY <3>4, <3>6, <4>1 DEF Everywhere
    <3>7. QED
      BY <3>5, <3>6
  <2>2. QED
    BY <2>1 DEF Everywhere
<1>5. ASSUME NEW sid \in ScenarioIds, NEW xs \in Seq(good), Founded(sid, xs)
      PROVE  Everywhere(good)'
  <2>1. ASSUME NEW t \in ScenarioIds, NEW j \in Positions(t)'
        PROVE  AdapterAt(t, j)' \in good
    <3>1. AdapterAt(t, j)' = IF t = sid THEN xs[j] ELSE AdapterAt(t, j)
      BY <1>5 DEF Founded
    <3>2. CASE t = sid
      <4>1. j \in 1 .. Len(xs)
        BY <1>5, <3>2 DEF Founded, Positions, Size
      <4>2. xs[j] \in good
        BY <4>1
      <4>3. QED
        BY <3>1, <3>2, <4>2
    <3>3. CASE t # sid
      <4>1. j \in Positions(t)
        BY <1>5, <3>3 DEF Founded, Positions, Size, Holds
      <4>2. QED
        BY <3>1, <3>3, <4>1 DEF Everywhere
    <3>4. QED
      BY <3>2, <3>3
  <2>2. QED
    BY <2>1 DEF Everywhere
<1>6. ASSUME NEW sid \in ScenarioIds, Dropped(sid)
      PROVE  Everywhere(good)'
  <2>1. ASSUME NEW t \in ScenarioIds, NEW j \in Positions(t)'
        PROVE  j \in Positions(t) /\ AdapterAt(t, j)' = AdapterAt(t, j)
    BY <1>6, <2>1 DEF Dropped, Positions, Holds, AdapterAt
  <2>2. QED
    BY <2>1 DEF Everywhere
<1>7. CASE \A sid \in ScenarioIds : Positions(sid)' = {}
  BY <1>7 DEF Everywhere
<1>8. QED
  BY <1>1, <1>2, <1>3, <1>4, <1>5, <1>6, <1>7

(* What the clock, reports and the idle check leave behind.                *)
LEMMA AgedEverywhere ==
    ASSUME NEW good, Everywhere(good), Elapsed,
           \A x \in good : [x EXCEPT !.last = IF @ = "recent" THEN "old" ELSE @] \in good
    PROVE  Everywhere(good)'
BY SamePositions DEF Everywhere, Elapsed

(* Everything but the steps of requests in progress: the requests wait.    *)
Surroundings == OneStep \/ IdleStep \/ Wait \/ UNCHANGED vars

LEMMA SurroundingsEffect ==
    ASSUME SystemInv, SerialInv, OneByOne, Surroundings
    PROVE  /\ \A q \in Reqs : local'[q] = local[q]
           /\ Quiet \/ KeepsAdapters
           /\ \/ SameAdapters
              \/ Elapsed
              \/ Loads \/ Creates \/ Adds
              \/ Reports
              \/ "idle" \in Ops /\ IdleStops
           /\ UNCHANGED clusterVars \/ "idle" \in Ops
           /\ SameLabels \/ Loads \/ Creates \/ Adds \/ "idle" \in Ops
<1>1. StoreInv
  BY DEF SystemInv, HeapInv
<1>2. CASE OneStep
  <2>1. /\ UNCHANGED <<clusterVars, local>>
        /\ Loads \/ Creates \/ Adds \/ Reports \/ Passes
    BY <1>2, OneStepEffect
  <2>2. Reports => KeepsAdapters /\ SameLabels
    <3>1. ASSUME NEW sid \in ScenarioIds, NEW i \in Positions(sid),
                 Written(sid, i, [AdapterAt(sid, i) EXCEPT !.last = "recent"])
          PROVE  KeepsAdapters /\ SameLabels
      <4>1. AdapterAt(sid, i) \in AdapterRecord
        BY <1>1, LookupFacts
      <4>2. Agree([AdapterAt(sid, i) EXCEPT !.last = "recent"], AdapterAt(sid, i))
        BY <4>1 DEF Agree, AdapterRecord
      <4>3. QED
        BY <1>1, <3>1, <4>2, KeptBy DEF Written
    <3>2. QED
      BY <3>1 DEF Reports
  <2>3. Passes => SameAdapters /\ KeepsAdapters /\ SameLabels
    BY <1>1, KeptBy DEF Passes
  <2>4. Loads \/ Creates \/ Adds => Quiet
    BY DEF Loads, Creates, Adds
  <2>5. QED
    BY <2>1, <2>2, <2>3, <2>4
<1>3. CASE IdleStep
  <2>1. /\ "idle" \in Ops /\ \A q \in Reqs : local'[q] = local[q]
        /\ IdleScales \/ (UNCHANGED clusterVars
              /\ (UNCHANGED storeVars \/ IdleStops \/ IdleLabels))
    BY <1>3, IdleEffect
  <2>2. IdleScales \/ UNCHANGED storeVars => SameAdapters
    BY UnchangedAdapters DEF IdleScales
  <2>3. IdleLabels => SameAdapters
    BY DEF IdleLabels
  <2>4. QED
    BY <1>3, <2>1, <2>2, <2>3, IdleKeeps
<1>4. CASE Wait
  BY <1>1, <1>4, WorldEffects, KeptBy DEF Elapsed
<1>5. CASE UNCHANGED vars
  <2>1. UNCHANGED <<storeVars, clusterVars, local>>
    BY <1>5 DEF vars, controlVars
  <2>2. QED
    BY <1>1, <2>1, UnchangedAdapters, KeptBy
<1>6. QED
  BY <1>2, <1>3, <1>4, <1>5 DEF Surroundings

(* A step of the system: one of those, or one of a request, or a restart.  *)
LEMMA StepCases ==
    ASSUME [Next]_vars
    PROVE  \/ Surroundings
           \/ \E p \in Reqs : Begin(p) \/ Continue(p)
           \/ Restart
BY DEF Next, Surroundings

(* What becomes of the slot that a request is at work on.                  *)
LEMMA SlotFollows ==
    ASSUME NEW p, local'[p].sid = local[p].sid, local'[p].idx = local[p].idx,
           local[p].sid \in ScenarioIds, local[p].idx \in Positions(local[p].sid)
    PROVE  /\ SameAdapters => Slot(p)' = Slot(p)
           /\ Elapsed => Slot(p)' =
                 [Slot(p) EXCEPT !.last = IF @ = "recent" THEN "old" ELSE @]
           /\ \A sid, i, x : Written(sid, i, x) => Slot(p)' =
                 IF local[p].sid = sid /\ local[p].idx = i THEN x ELSE Slot(p)
           /\ KeepsAdapters => Agree(Slot(p)', Slot(p))
<1>1. PICK t \in ScenarioIds : local[p].sid = t
  OBVIOUS
<1>2. PICK j \in Positions(t) : local[p].idx = j
  BY <1>1
<1>3. Slot(p) = AdapterAt(t, j)
  BY <1>1, <1>2 DEF Slot
<1>4. Slot(p)' = AdapterAt(t, j)'
  BY <1>1, <1>2 DEF Slot, AdapterAt
<1>5. SameAdapters => Slot(p)' = Slot(p)
  BY <1>3, <1>4 DEF SameAdapters
<1>6. Elapsed => Slot(p)' = [Slot(p) EXCEPT !.last = IF @ = "recent" THEN "old" ELSE @]
  BY <1>3, <1>4 DEF Elapsed
<1>7. \A sid, i, x : Written(sid, i, x) => Slot(p)' =
         IF local[p].sid = sid /\ local[p].idx = i THEN x ELSE Slot(p)
  BY <1>1, <1>2, <1>3, <1>4 DEF Written
<1>8. KeepsAdapters => Agree(Slot(p)', Slot(p))
  BY <1>3, <1>4 DEF KeepsAdapters
<1>9. QED
  BY <1>5, <1>6, <1>7, <1>8

(* Adapters and scenarios that are new.                                    *)
LEMMA NewOnesEverywhere ==
    ASSUME SystemInv, SerialInv, NEW good, Everywhere(good), good \subseteq AdapterRecord,
           \A g \in GithubIds : FromFile(g) \in Seq(good),
           \A sid \in ScenarioIds : \A xs \in Seq(good) : CloneOf(xs, sid) \in Seq(good),
           \A id, name, type : \A key \in RequestKeys(type, id) :
              NewAdapter(id, name, type, key) \in AdapterRecord =>
                 NewAdapter(id, name, type, key) \in good,
           Loads \/ Creates \/ Adds
    PROVE  Everywhere(good)'
<1>1. StoreInv
  BY DEF SystemInv, HeapInv
<1>2. \E sid \in ScenarioIds : \E xs \in Seq(good) : Founded(sid, xs)
         \/ \E x \in good : sid \in Scenarios /\ Extended(sid, x)
  <2>1. CASE Loads
    <3>1. PICK g \in unloaded : Founded(g, FromFile(g))
      BY <2>1 DEF Loads
    <3>2. g \in GithubIds /\ g \in ScenarioIds
      BY <3>1 DEF SystemInv, CountersInv, ScenarioIds
    <3>3. QED
      BY <3>1, <3>2
  <2>2. CASE Creates
    <3>1. CASE Founded(clock, <<>>)
      <4>1. <<>> \in Seq(good)
        OBVIOUS
      <4>2. QED
        BY <3>1, <4>1, ClockIsFree
    <3>2. ASSUME NEW src \in Scenarios, Founded(clock, CloneOf(AdaptersOf(src), clock))
          PROVE  \E xs \in Seq(good) : Founded(clock, xs)
      <4>1. /\ src \in ScenarioIds /\ Positions(src) = 1 .. Size(src)
            /\ catalog[src] \in Objects /\ object[catalog[src]] # Nil
        BY <1>1, SlotFacts DEF Scenarios
      <4>2. AdaptersOf(src) \in Seq(AdapterRecord) /\ Len(AdaptersOf(src)) = Size(src)
        BY <1>1, <4>1, ViewType DEF AdaptersOf, Size
      <4>3. \A i \in 1 .. Len(AdaptersOf(src)) : AdaptersOf(src)[i] = AdapterAt(src, i)
        BY <4>1, <4>2 DEF AdaptersOf, View, Slots, AdapterAt, Size
      <4>4. \A i \in 1 .. Len(AdaptersOf(src)) : AdaptersOf(src)[i] \in good
        BY <4>1, <4>2, <4>3 DEF Everywhere
      <4>5. AdaptersOf(src) \in Seq(good)
        BY <4>2, <4>4
      <4>6. QED
        BY <3>2, <4>5, ClockIsFree
    <3>3. QED
      BY <2>2, <3>1, <3>2, ClockIsFree DEF Creates
  <2>3. CASE Adds
    <3>1. PICK sid \in Scenarios, name \in Names, type \in Types :
             LET id == <<sid, type, clock>>
             IN  \E key \in RequestKeys(type, id) :
                    /\ NewAdapter(id, name, type, key) \in AdapterRecord
                    /\ Extended(sid, NewAdapter(id, name, type, key))
      BY <2>3 DEF Adds
    <3>2. sid \in ScenarioIds /\ <<>> \in Seq(good)
      BY DEF Scenarios
    <3>3. QED
      BY <3>1, <3>2
  <2>4. QED
    BY <2>1, <2>2, <2>3
<1>3. QED
  BY <1>1, <1>2, StaysEverywhere

LEMMA MovesTo ==
    ASSUME NEW p
    PROVE  /\ \A pc : Goes(p, pc) \/ Takes(p, pc) =>
                 /\ local'[p].pc = pc /\ SameRequest(p)
                 /\ local'[p].idx = local[p].idx
           /\ Advances(p) =>
                 /\ local'[p].pc = "pick" /\ SameRequest(p)
                 /\ local'[p].idx = local[p].idx + 1
           /\ SameRequest(p) => local'[p].sid = local[p].sid /\ local'[p].op = local[p].op
           /\ local'[p] = Ready =>
                 /\ local'[p].pc = "ready" /\ local'[p].op = Nil /\ local'[p].name = Nil
                 /\ local'[p].key = Nil
<1>1. \A pc : Goes(p, pc) \/ Takes(p, pc) =>
         local'[p].pc = pc /\ SameRequest(p) /\ local'[p].idx = local[p].idx
  BY DEF Goes, Takes
<1>2. Advances(p) =>
         local'[p].pc = "pick" /\ SameRequest(p) /\ local'[p].idx = local[p].idx + 1
  BY DEF Advances
<1>3. QED
  BY <1>1, <1>2 DEF SameRequest, Ready

(* The steps of requests that change the store, and those that do not.     *)
Writes(p) ==
    \/ MarkRunning(p) \/ SetUrl(p) \/ WriteStatus(p) \/ WriteUrl(p) \/ MarkStopped(p)
    \/ RemoveAdapter(p) \/ Write(p) \/ Finish(p)

LEMMA ContinueCases ==
    ASSUME SystemInv, SerialInv, NEW p \in Reqs, Continue(p)
    PROVE  /\ ~ At(p, "ready") /\ ~ Quiet
           /\ OthersWait(p) /\ \A q \in Reqs \ {p} : local'[q].pc = "ready" /\ local'[q].op = Nil
           /\ \/ Writes(p)
              \/ /\ UNCHANGED storeVars
                 /\ local'[p].pc \notin {"setUrl", "pokeStatus", "pokeUrl"}
<1>1. ~ At(p, "ready") /\ ~ Quiet
  BY DEF Continue, Pick, CreateDeployment, CreateService, Expose, MarkRunning, SetUrl,
         WriteStatus, WriteUrl, Check, Scale, MarkStopped, RemoveDeployment, RemoveService,
         Reread, RemoveRule, RemoveAdapter, ReadKey, Write, SweepTheRest, Finish, At,
         Quiet
<1>2. OthersWait(p) /\ \A q \in Reqs \ {p} : local'[q].pc = "ready" /\ local'[q].op = Nil
  <2>1. OthersWait(p)
    BY ContinueLocal DEF OthersWait, Processes
  <2>2. QED
    BY <1>1, <2>1, AtWork DEF OthersWait, At
<1>3. CASE Pick(p)
  <2>1. /\ UNCHANGED storeVars
        /\ \/ Goes(p, "finish") \/ Advances(p)
           \/ Takes(p, FirstStep(local[p].op)) /\ local[p].op \in LoopOps \ {"idle"}
    BY <1>3, PickEffect
  <2>2. local[p].op \in LoopOps \ {"idle"} =>
           FirstStep(local[p].op) \notin {"setUrl", "pokeStatus", "pokeUrl"}
    BY DEF FirstStep, LoopOps
  <2>3. QED
    BY <1>1, <1>2, <2>1, <2>2, MovesTo
<1>4. CASE CreateDeployment(p) \/ CreateService(p)
  <2>1. /\ UNCHANGED storeVars
        /\ Goes(p, "createService") \/ Goes(p, "expose") \/ Advances(p)
    BY <1>4, LaunchEffects
  <2>2. QED
    BY <1>1, <1>2, <2>1, MovesTo
<1>5. CASE Expose(p)
  <2>1. UNCHANGED storeVars /\ local'[p].pc = "markRunning"
    BY <1>5, LaunchEffects
  <2>2. QED
    BY <1>1, <1>2, <2>1
<1>6. CASE Check(p)
  <2>1. /\ UNCHANGED storeVars
        /\ \E pc \in {"remove", "deleteDeployment", "readKey", "scale", "markStopped"} :
              Goes(p, pc) \/ Takes(p, pc)
    BY <1>6, CheckEffect
  <2>2. QED
    BY <1>1, <1>2, <2>1, MovesTo
<1>7. CASE Scale(p) \/ RemoveDeployment(p) \/ RemoveService(p) \/ RemoveRule(p)
  <2>1. /\ UNCHANGED storeVars
        /\ \/ Advances(p)
           \/ \E pc \in {"markStopped", "deleteService", "reread", "deleteRule", "remove"} :
                 Goes(p, pc)
    BY <1>7, TeardownEffects
  <2>2. QED
    BY <1>1, <1>2, <2>1, MovesTo
<1>8. CASE Reread(p) \/ ReadKey(p) \/ SweepTheRest(p)
  <2>1. /\ UNCHANGED storeVars
        /\ \/ local'[p] = Ready \/ local'[p].pc = "write"
           \/ \E pc \in {"deleteRule", "sweepRules"} : Goes(p, pc) \/ Takes(p, pc)
    BY <1>8, OtherEffects
  <2>2. QED
    BY <1>1, <1>2, <2>1, MovesTo
<1>9. QED
  BY <1>1, <1>2, <1>3, <1>4, <1>5, <1>6, <1>7, <1>8 DEF Continue, Writes

(* A request stays the one it is until it is done.                         *)
LEMMA ContinueOp ==
    ASSUME SystemInv, SerialInv, NEW p \in Reqs, Continue(p)
    PROVE  local'[p] = Ready \/ SameRequest(p)
<1>1. CASE Pick(p)
  BY <1>1, PickEffect, MovesTo
<1>2. CASE CreateDeployment(p) \/ CreateService(p)
  <2>1. Goes(p, "createService") \/ Goes(p, "expose") \/ Advances(p)
    BY <1>2, LaunchEffects
  <2>2. QED
    BY <2>1, MovesTo
<1>3. CASE Expose(p)
  BY <1>3, LaunchEffects
<1>4. CASE MarkRunning(p) \/ SetUrl(p) \/ WriteStatus(p) \/ WriteUrl(p)
  <2>1. \/ Goes(p, "setUrl") \/ Goes(p, "pokeStatus") \/ Goes(p, "pokeUrl") \/ Advances(p)
    BY <1>4, LaunchEffects
  <2>2. QED
    BY <2>1, MovesTo
<1>5. CASE Check(p)
  <2>1. \E pc : Goes(p, pc) \/ Takes(p, pc)
    BY <1>5, CheckEffect
  <2>2. QED
    BY <2>1, MovesTo
<1>6. CASE Scale(p) \/ RemoveDeployment(p) \/ RemoveService(p) \/ RemoveRule(p)
  <2>1. Advances(p) \/ \E pc : Goes(p, pc)
    BY <1>6, TeardownEffects
  <2>2. QED
    BY <2>1, MovesTo
<1>7. CASE \/ MarkStopped(p) \/ Reread(p) \/ RemoveAdapter(p) \/ Write(p) \/ Finish(p)
           \/ SweepTheRest(p)
  <2>1. \/ local'[p] = Ready \/ Advances(p)
        \/ \E pc : Goes(p, pc) \/ Takes(p, pc)
    BY <1>7, OtherEffects
  <2>2. QED
    BY <2>1, MovesTo
<1>8. CASE ReadKey(p)
  BY <1>8, OtherEffects
<1>9. QED
  BY <1>1, <1>2, <1>3, <1>4, <1>5, <1>6, <1>7, <1>8 DEF Continue

-----------------------------------------------------------------------------
(* Running adapters have a start of their idle clock.                      *)

SeededOnes == {x \in AdapterRecord : x.status = "running" => x.last # "never"}

(* ... before a handler writes the status past UpdateAdapterStatus, too.   *)
SeededInv ==
    /\ Everywhere(SeededOnes)
    /\ \A p \in Reqs : local[p].pc \in {"setUrl", "pokeStatus"} => Slot(p).last # "never"

LEMMA NewOnesSeeded ==
    /\ SeededOnes \subseteq AdapterRecord
    /\ \A g \in GithubIds : FromFile(g) \in Seq(SeededOnes)
    /\ \A sid \in ScenarioIds : \A xs \in Seq(SeededOnes) : CloneOf(xs, sid) \in Seq(SeededOnes)
    /\ \A id, name, type : \A key \in RequestKeys(type, id) :
          NewAdapter(id, name, type, key) \in AdapterRecord =>
             NewAdapter(id, name, type, key) \in SeededOnes
<1>1. \A id, name, type, key : NewAdapter(id, name, type, key).status = "stopped"
  BY DEF NewAdapter
<1>2. ASSUME NEW g \in GithubIds
      PROVE  FromFile(g) \in Seq(SeededOnes)
  <2>1. Len(Manifest[g]) \in Nat /\ FromFile(g) \in Seq(AdapterRecord)
    BY FromFileType, ConstantsAssumption
  <2>2. \A i \in 1 .. Len(Manifest[g]) : FromFile(g)[i].status = "stopped"
    BY <1>1 DEF FromFile
  <2>3. Len(FromFile(g)) = Len(Manifest[g])
    BY FromFileType
  <2>4. \A i \in 1 .. Len(FromFile(g)) : FromFile(g)[i] \in SeededOnes
    BY <2>1, <2>2, <2>3 DEF SeededOnes
  <2>5. QED
    BY <2>1, <2>4
<1>3. ASSUME NEW sid \in ScenarioIds, NEW xs \in Seq(SeededOnes)
      PROVE  CloneOf(xs, sid) \in Seq(SeededOnes)
  <2>1. xs \in Seq(AdapterRecord)
    BY DEF SeededOnes
  <2>2. CloneOf(xs, sid) \in Seq(AdapterRecord) /\ Len(CloneOf(xs, sid)) = Len(xs)
    BY <2>1, CloneOfType
  <2>3. \A i \in 1 .. Len(xs) : CloneOf(xs, sid)[i].status = "stopped"
    BY <1>1 DEF CloneOf
  <2>4. \A i \in 1 .. Len(xs) : CloneOf(xs, sid)[i] \in SeededOnes
    BY <2>2, <2>3 DEF SeededOnes
  <2>5. QED
    BY <2>2, <2>4
<1>4. QED
  BY <1>1, <1>2, <1>3 DEF SeededOnes

LEMMA InitSeeded == ASSUME Init PROVE SeededInv
<1>1. \A sid \in ScenarioIds : Positions(sid) = {}
  BY DEF Init, StoreInit, Holds, Positions
<1>2. \A p \in Reqs : local[p].pc = "ready"
  BY DEF Init, Ready, Processes
<1>3. QED
  BY <1>1, <1>2 DEF SeededInv, Everywhere

LEMMA SurroundingsSeeded ==
    ASSUME SystemInv, SerialInv, OneByOne, SeededInv, Surroundings
    PROVE  SeededInv'
<1>1. /\ \A q \in Reqs : local'[q] = local[q]
      /\ Quiet \/ KeepsAdapters
      /\ \/ SameAdapters \/ Elapsed \/ Loads \/ Creates \/ Adds \/ Reports \/ IdleStops
  BY SurroundingsEffect
<1>2. StoreInv /\ Everywhere(SeededOnes)
  BY DEF SystemInv, HeapInv, SeededInv
<1>3. ASSUME NEW p \in Reqs, local'[p].pc \in {"setUrl", "pokeStatus"}
      PROVE  Slot(p) \in AdapterRecord /\ local[p].sid \in ScenarioIds
             /\ local[p].idx \in Positions(local[p].sid) /\ Slot(p).last # "never"
             /\ ~ Quiet
  <2>1. local[p].pc \in {"setUrl", "pokeStatus"} /\ ~ At(p, "ready")
    BY <1>1, <1>3 DEF At
  <2>2. local[p].op \in LoopOps
    BY <2>1 DEF SystemInv, LocalsInv, Sound, OpsAt, Processes, LoopOps
  <2>3. QED
    BY <2>1, <2>2, AtWork DEF SeededInv, OnSlot, Quiet
<1>4. CASE SameAdapters
  <2>1. Everywhere(SeededOnes)'
    BY <1>2, <1>4, StaysEverywhere
  <2>2. ASSUME NEW p \in Reqs, local'[p].pc \in {"setUrl", "pokeStatus"}
        PROVE  Slot(p)'.last # "never"
    BY <1>1, <1>3, <1>4, <2>2, SlotFollows
  <2>3. QED
    BY <2>1, <2>2 DEF SeededInv
<1>5. CASE Elapsed
  <2>1. \A x \in SeededOnes : [x EXCEPT !.last = IF @ = "recent" THEN "old" ELSE @] \in SeededOnes
    BY DEF SeededOnes, AdapterRecord, Activity
  <2>2. Everywhere(SeededOnes)'
    BY <1>2, <1>5, <2>1, AgedEverywhere
  <2>3. ASSUME NEW p \in Reqs, local'[p].pc \in {"setUrl", "pokeStatus"}
        PROVE  Slot(p)'.last # "never"
    <3>1. Slot(p)' = [Slot(p) EXCEPT !.last = IF @ = "recent" THEN "old" ELSE @]
      BY <1>1, <1>3, <1>5, <2>3, SlotFollows
    <3>2. QED
      BY <1>3, <2>3, <3>1 DEF AdapterRecord
  <2>4. QED
    BY <2>2, <2>3 DEF SeededInv
<1>6. CASE Loads \/ Creates \/ Adds
  <2>1. Quiet
    BY <1>6 DEF Loads, Creates, Adds
  <2>2. Everywhere(SeededOnes)'
    BY <1>2, <1>6, NewOnesSeeded, NewOnesEverywhere
  <2>3. QED
    BY <1>3, <2>1, <2>2 DEF SeededInv
<1>7. CASE Reports \/ IdleStops
  <2>1. PICK sid \in ScenarioIds : \E i \in Positions(sid) : \E x \in SeededOnes :
           Written(sid, i, x) /\ (AdapterAt(sid, i).last # "never" => x.last # "never")
    <3>1. ASSUME NEW s \in ScenarioIds, NEW i \in Positions(s),
                 NEW x, x \in { [AdapterAt(s, i) EXCEPT !.last = "recent"],
                                WithStatus(AdapterAt(s, i), "stopped") }
          PROVE  x \in SeededOnes /\ (AdapterAt(s, i).last # "never" => x.last # "never")
      <4>1. AdapterAt(s, i) \in AdapterRecord
        BY <1>2, LookupFacts
      <4>2. QED
        BY <3>1, <4>1 DEF SeededOnes, WithStatus, AdapterRecord, Activity, Statuses
    <3>2. QED
      BY <1>7, <3>1 DEF Reports, IdleStops
  <2>2. PICK i \in Positions(sid), x \in SeededOnes :
           Written(sid, i, x) /\ (AdapterAt(sid, i).last # "never" => x.last # "never")
    BY <2>1
  <2>3. Everywhere(SeededOnes)'
    BY <1>2, <2>2, StaysEverywhere
  <2>4. ASSUME NEW p \in Reqs, local'[p].pc \in {"setUrl", "pokeStatus"}
        PROVE  Slot(p)'.last # "never"
    <3>1. Slot(p)' = IF local[p].sid = sid /\ local[p].idx = i THEN x ELSE Slot(p)
      BY <1>1, <1>3, <2>2, <2>4, SlotFollows
    <3>2. QED
      BY <1>3, <2>2, <2>4, <3>1 DEF Slot
  <2>5. QED
    BY <2>3, <2>4 DEF SeededInv
<1>8. QED
  BY <1>1, <1>4, <1>5, <1>6, <1>7

LEMMA ContinueSeeded ==
    ASSUME SystemInv, SerialInv, SeededInv, NEW p \in Reqs, Continue(p)
    PROVE  SeededInv'
<1> DEFINE l == local[p]
<1>1. StoreInv /\ Everywhere(SeededOnes) /\ ~ At(p, "ready")
  BY ContinueCases DEF SystemInv, HeapInv, SeededInv
<1>2. ASSUME Everywhere(SeededOnes)',
             local'[p].pc \in {"setUrl", "pokeStatus"} => Slot(p)'.last # "never"
      PROVE  SeededInv'
  BY <1>2, ContinueCases DEF SeededInv
<1>3. CASE UNCHANGED storeVars /\ local'[p].pc \notin {"setUrl", "pokeStatus", "pokeUrl"}
  BY <1>1, <1>2, <1>3, UnchangedAdapters, StaysEverywhere
<1>4. ASSUME NEW x, Written(l.sid, l.idx, x), l.op \in LoopOps \cup AdapterOps,
             l.pc \notin {"pick", "finish"}, x \in AdapterRecord,
             x.status = "running" => x.last # "never",
             \/ local'[p].pc \notin {"setUrl", "pokeStatus"}
             \/ /\ local'[p].sid = l.sid /\ local'[p].idx = l.idx
                /\ x.last # "never"
      PROVE  SeededInv'
  <2>1. l.sid \in ScenarioIds /\ l.idx \in Positions(l.sid)
    BY <1>1, <1>4, AtWork DEF OnSlot
  <2>2. x \in SeededOnes
    BY <1>4 DEF SeededOnes
  <2>3. Everywhere(SeededOnes)'
    BY <1>1, <1>4, <2>1, <2>2, StaysEverywhere
  <2>4. local'[p].pc \in {"setUrl", "pokeStatus"} => Slot(p)'.last # "never"
    BY <1>4, <2>1, SlotFollows
  <2>5. QED
    BY <1>2, <2>3, <2>4
<1>5. l.op \in OpsAt(l.pc)
  BY AtWork, <1>1 DEF Sound
<1>6. l.pc \in {"markRunning", "setUrl", "pokeStatus", "pokeUrl", "markStopped", "remove", "write"} =>
         /\ l.op \in LoopOps \cup AdapterOps /\ l.pc \notin {"pick", "finish"}
         /\ l.sid \in ScenarioIds /\ l.idx \in Positions(l.sid)
         /\ Slot(p) \in AdapterRecord /\ Slot(p) \in SeededOnes
  <2>1. l.pc \in {"markRunning", "setUrl", "pokeStatus", "pokeUrl", "markStopped", "remove", "write"} =>
           /\ l.op \in LoopOps \cup AdapterOps /\ l.pc \notin {"pick", "finish"}
    BY <1>5 DEF OpsAt, LoopOps, AdapterOps
  <2>2. QED
    BY <1>1, <2>1, AtWork DEF OnSlot, Everywhere, Slot
<1>7. CASE MarkRunning(p)
  <2>1. l.pc = "markRunning" /\ Written(l.sid, l.idx, WithStatus(Slot(p), "running"))
        /\ Goes(p, "setUrl")
    BY <1>7, WritesHome, LaunchEffects DEF MarkRunning, At
  <2>2. /\ WithStatus(Slot(p), "running") \in AdapterRecord
        /\ WithStatus(Slot(p), "running").last # "never"
    BY <1>6, <2>1 DEF WithStatus, AdapterRecord, Statuses, Activity
  <2>3. QED
    BY <1>4, <1>6, <2>1, <2>2 DEF Goes, SameRequest
<1>8. CASE SetUrl(p)
  <2>1. l.pc = "setUrl" /\ Written(l.sid, l.idx, [Slot(p) EXCEPT !.url = l.url])
        /\ Goes(p, "pokeStatus") /\ l.url \in Urls
    BY <1>1, <1>8, WritesHome, LaunchEffects, AtWork DEF SetUrl, At, Local
  <2>2. Slot(p).last # "never"
    BY <2>1 DEF SeededInv
  <2>3. /\ [Slot(p) EXCEPT !.url = l.url] \in AdapterRecord
        /\ [Slot(p) EXCEPT !.url = l.url].last # "never"
    BY <1>6, <2>1, <2>2 DEF AdapterRecord
  <2>4. QED
    BY <1>4, <1>6, <2>1, <2>3 DEF Goes, SameRequest
<1>9. CASE WriteStatus(p)
  <2>1. l.pc = "pokeStatus" /\ Written(l.sid, l.idx, [Slot(p) EXCEPT !.status = "running"])
        /\ Goes(p, "pokeUrl")
    BY <1>9, WritesHome, LaunchEffects DEF WriteStatus, At
  <2>2. Slot(p).last # "never"
    BY <2>1 DEF SeededInv
  <2>3. /\ [Slot(p) EXCEPT !.status = "running"] \in AdapterRecord
        /\ [Slot(p) EXCEPT !.status = "running"].last # "never"
    BY <1>6, <2>1, <2>2 DEF AdapterRecord, Statuses
  <2>4. QED
    BY <1>4, <1>6, <2>1, <2>3 DEF Goes, SameRequest
<1>10. CASE WriteUrl(p)
  <2>1. l.pc = "pokeUrl" /\ Written(l.sid, l.idx, [Slot(p) EXCEPT !.url = l.url])
        /\ Advances(p) /\ l.url \in Urls
    BY <1>1, <1>10, WritesHome, LaunchEffects, AtWork DEF WriteUrl, At, Local
  <2>2. /\ [Slot(p) EXCEPT !.url = l.url] \in AdapterRecord
        /\ [Slot(p) EXCEPT !.url = l.url].status = "running" =>
              [Slot(p) EXCEPT !.url = l.url].last # "never"
    BY <1>6, <2>1 DEF AdapterRecord, SeededOnes
  <2>3. QED
    BY <1>4, <1>6, <2>1, <2>2 DEF Advances
<1>11. CASE MarkStopped(p)
  <2>1. l.pc = "markStopped" /\ Written(l.sid, l.idx, WithStatus(Slot(p), "stopped"))
        /\ local'[p].pc \in {"pick", "ready", "readKey"}
    <3>1. Advances(p) \/ Goes(p, "readKey") \/ local'[p] = Ready
      BY <1>11, OtherEffects
    <3>2. QED
      BY <1>11, <3>1, WritesHome, MovesTo DEF MarkStopped, At
  <2>2. /\ WithStatus(Slot(p), "stopped") \in AdapterRecord
        /\ WithStatus(Slot(p), "stopped").status # "running"
    BY <1>6, <2>1 DEF WithStatus, AdapterRecord, Statuses
  <2>3. QED
    BY <1>4, <1>6, <2>1, <2>2
<1>12. CASE RemoveAdapter(p)
  <2>1. l.pc = "remove" /\ Vacated(l.sid, l.idx) /\ local'[p].pc = "ready"
    <3>1. local'[p] = Ready
      BY <1>12, OtherEffects
    <3>2. QED
      BY <1>12, <3>1, WritesHome, MovesTo DEF RemoveAdapter, At
  <2>2. QED
    BY <1>1, <1>2, <1>6, <2>1, StaysEverywhere
<1>13. CASE Write(p)
  <2> DEFINE x == [Slot(p) EXCEPT !.name = IF l.name = Nil THEN @ ELSE l.name, !.key = l.key]
  <2>1. l.pc = "write" /\ Written(l.sid, l.idx, x) /\ local'[p].pc = "ready"
    <3>1. local'[p] = Ready
      BY <1>13, OtherEffects
    <3>2. QED
      BY <1>13, <3>1, WritesHome, MovesTo DEF Write, At
  <2>2. l.name \in Names \cup {Nil} /\ l.key \in Keys
    BY <1>1, AtWork DEF Local
  <2>3. x \in AdapterRecord /\ (x.status = "running" => x.last # "never")
    BY <1>6, <2>1, <2>2 DEF AdapterRecord, SeededOnes
  <2> HIDE DEF x
  <2>4. QED
    BY <1>4, <1>6, <2>1, <2>3
<1>14. CASE Finish(p)
  <2>1. /\ local'[p].pc = "ready"
        /\ SameAdapters \/ (Dropped(l.sid) /\ l.op = "deleteScenario")
    <3>1. local'[p] = Ready
      BY <1>14, OtherEffects
    <3>2. QED
      BY <1>14, <3>1, FinishEffect, MovesTo
  <2>2. l.op = "deleteScenario" => l.sid \in ScenarioIds
    BY <1>1, AtWork DEF LoopOps
  <2>3. QED
    BY <1>1, <1>2, <2>1, <2>2, StaysEverywhere
<1>15. QED
  BY <1>3, <1>7, <1>8, <1>9, <1>10, <1>11, <1>12, <1>13, <1>14, ContinueCases DEF Writes

LEMMA SeededStep ==
    ASSUME SystemInv, SerialInv, OneByOne, SeededInv, [Next]_vars
    PROVE  SeededInv'
<1>1. ASSUME NEW p \in Reqs, Begin(p)
      PROVE  SeededInv'
  <2>1. /\ Quiet /\ UNCHANGED storeVars
        /\ \A q \in Processes \ {p} : local'[q] = local[q]
        /\ BeginsLoop(p) \/ BeginsAdapter(p) \/ BeginsCleanup(p)
    BY <1>1, BeginEffect
  <2>2. Everywhere(SeededOnes)'
    BY <2>1, UnchangedAdapters, StaysEverywhere DEF SeededInv, SystemInv, HeapInv
  <2>3. local'[p].pc \in {"pick", "check", "sweepServices"}
    <3>1. BeginsLoop(p) => local'[p].pc = "pick"
      BY DEF BeginsLoop, Ready
    <3>2. BeginsAdapter(p) => local'[p].pc = "check"
      BY DEF BeginsAdapter, Pointing, Ready
    <3>3. BeginsCleanup(p) => local'[p].pc = "sweepServices"
      BY DEF BeginsCleanup, Ready
    <3>4. QED
      BY <2>1, <3>1, <3>2, <3>3
  <2>4. \A q \in Reqs \ {p} : local'[q].pc = "ready"
    BY <2>1 DEF Quiet, At, Processes
  <2>5. QED
    BY <2>2, <2>3, <2>4 DEF SeededInv
<1>2. CASE Restart
  <2>1. /\ \A sid \in ScenarioIds : Positions(sid)' = {}
        /\ \A q \in Reqs : local'[q].pc = "ready"
    BY <1>2, WorldEffects DEF Ready, Processes
  <2>2. QED
    BY <2>1 DEF SeededInv, Everywhere
<1>3. QED
  BY <1>1, <1>2, StepCases, SurroundingsSeeded, ContinueSeeded

(* A running adapter has a start of its idle clock, whichever of the two   *)
(* ways of writing a status showed it running: so the idle check does not  *)
(* count it as active for ever.                                            *)
THEOREM RunningAdaptersAreSeeded == ASSUME OneByOne PROVE Spec => []RunningSeeded
<1>1. Init => SeededInv
  BY InitSeeded
<1>2. SystemInv /\ SerialInv /\ SeededInv /\ [Next]_vars => SeededInv'
  BY SeededStep
<1>3. SeededInv => RunningSeeded
  BY DEF SeededInv, RunningSeeded, EveryAdapter, Seeded, Everywhere, SeededOnes, Scenarios
<1>4. QED
  BY <1>1, <1>2, <1>3, SystemInvariant, Serial, PTL DEF Spec

-----------------------------------------------------------------------------
(* Host keys.                                                              *)

KeyedOnes == {x \in AdapterRecord : x.type # Sftp => x.key = Nil}

(* An update brings a key or none, and before it writes, the one to keep.  *)
KeysInv ==
    /\ Everywhere(KeyedOnes)
    /\ \A p \in Reqs : local[p].op = "updateAdapter" =>
          IF At(p, "write")
          THEN \/ local[p].key = Slot(p).key
               \/ local[p].key = UserKey /\ Slot(p).type = Sftp
          ELSE local[p].key \in RequestKeys(Slot(p).type, Nil)

LEMMA Records == StoreInv => Everywhere(AdapterRecord)
BY LookupFacts DEF Everywhere

LEMMA RecordsNext == StoreInv' => Everywhere(AdapterRecord)'
BY Records, PTL

LEMMA KeepsEverywhere ==
    ASSUME StoreInv', KeepsAdapters, NEW good, Everywhere(good),
           \A x \in good : \A y \in AdapterRecord : Agree(y, x) => y \in good
    PROVE  Everywhere(good)'
<1>1. ASSUME NEW t \in ScenarioIds, NEW j \in Positions(t)'
      PROVE  AdapterAt(t, j)' \in good
  <2>1. j \in Positions(t)
    BY SamePositions DEF KeepsAdapters
  <2>2. Agree(AdapterAt(t, j)', AdapterAt(t, j)) /\ AdapterAt(t, j) \in good
    BY <2>1 DEF KeepsAdapters, Everywhere
  <2>3. AdapterAt(t, j)' \in AdapterRecord
    BY RecordsNext DEF Everywhere
  <2>4. QED
    BY <2>2, <2>3
<1>2. QED
  BY <1>1 DEF Everywhere

LEMMA NewOnesKeyed ==
    /\ KeyedOnes \subseteq AdapterRecord
    /\ \A x \in KeyedOnes : \A y \in AdapterRecord : Agree(y, x) => y \in KeyedOnes
    /\ \A g \in GithubIds : FromFile(g) \in Seq(KeyedOnes)
    /\ \A sid \in ScenarioIds : \A xs \in Seq(KeyedOnes) : CloneOf(xs, sid) \in Seq(KeyedOnes)
    /\ \A id, name, type : \A key \in RequestKeys(type, id) :
          NewAdapter(id, name, type, key) \in AdapterRecord =>
             NewAdapter(id, name, type, key) \in KeyedOnes
<1>1. \A id, name, type, key : NewAdapter(id, name, type, key).type = type
                               /\ NewAdapter(id, name, type, key).key = key
  BY DEF NewAdapter
<1>2. ASSUME NEW g \in GithubIds
      PROVE  FromFile(g) \in Seq(KeyedOnes)
  <2>1. /\ Len(Manifest[g]) \in Nat /\ FromFile(g) \in Seq(AdapterRecord)
        /\ Len(FromFile(g)) = Len(Manifest[g])
    BY FromFileType, ConstantsAssumption
  <2>2. \A i \in 1 .. Len(Manifest[g]) : FromFile(g)[i].type # Sftp => FromFile(g)[i].key = Nil
    <3> TAKE i \in 1 .. Len(Manifest[g])
    <3>1. Manifest[g][i] \in FileEntries
      BY ConstantsAssumption, ElementOfSeq
    <3>2. Manifest[g][i].key # Nil => Manifest[g][i].type = Sftp
      BY <3>1 DEF FileEntries
    <3>3. /\ FromFile(g)[i].type = Manifest[g][i].type
          /\ FromFile(g)[i].key = IF Manifest[g][i].key = Nil
                                  THEN HostKey(Manifest[g][i].type, PositionId(g, Manifest[g][i].type, i - 1))
                                  ELSE Manifest[g][i].key
      BY <1>1 DEF FromFile
    <3>4. QED
      BY <3>2, <3>3 DEF HostKey
  <2>3. \A i \in 1 .. Len(FromFile(g)) : FromFile(g)[i] \in KeyedOnes
    BY <2>1, <2>2 DEF KeyedOnes
  <2>4. QED
    BY <2>1, <2>3
<1>3. ASSUME NEW sid \in ScenarioIds, NEW xs \in Seq(KeyedOnes)
      PROVE  CloneOf(xs, sid) \in Seq(KeyedOnes)
  <2>1. xs \in Seq(AdapterRecord) /\ \A i \in 1 .. Len(xs) : xs[i].type # Sftp => xs[i].key = Nil
    BY DEF KeyedOnes
  <2>2. CloneOf(xs, sid) \in Seq(AdapterRecord) /\ Len(CloneOf(xs, sid)) = Len(xs)
    BY <2>1, CloneOfType
  <2>3. \A i \in 1 .. Len(xs) : CloneOf(xs, sid)[i].type # Sftp => CloneOf(xs, sid)[i].key = Nil
    BY <1>1, <2>1 DEF CloneOf, HostKey
  <2>4. \A i \in 1 .. Len(xs) : CloneOf(xs, sid)[i] \in KeyedOnes
    BY <2>2, <2>3 DEF KeyedOnes
  <2>5. QED
    BY <2>2, <2>4
<1>4. ASSUME NEW id, NEW name, NEW type, NEW key \in RequestKeys(type, id),
             NewAdapter(id, name, type, key) \in AdapterRecord
      PROVE  NewAdapter(id, name, type, key) \in KeyedOnes
  BY <1>1, <1>4 DEF KeyedOnes, RequestKeys
<1>5. QED
  BY <1>2, <1>3, <1>4 DEF KeyedOnes, Agree

LEMMA SurroundingsKeys ==
    ASSUME SystemInv, SystemInv', SerialInv, OneByOne, KeysInv, Surroundings
    PROVE  KeysInv'
<1>1. /\ \A q \in Reqs : local'[q] = local[q]
      /\ Quiet \/ KeepsAdapters
      /\ SameAdapters \/ Elapsed \/ Loads \/ Creates \/ Adds \/ Reports \/ IdleStops
  BY SurroundingsEffect
<1>2. StoreInv /\ StoreInv' /\ Everywhere(KeyedOnes)
  BY DEF SystemInv, HeapInv, KeysInv
<1>3. Everywhere(KeyedOnes)'
  <2>1. CASE KeepsAdapters
    BY <1>2, <2>1, NewOnesKeyed, KeepsEverywhere
  <2>2. CASE Loads \/ Creates \/ Adds
    BY <1>2, <2>2, NewOnesKeyed, NewOnesEverywhere
  <2>3. CASE Reports \/ IdleStops
    <3>1. PICK sid \in ScenarioIds : \E i \in Positions(sid) : \E x \in KeyedOnes :
             Written(sid, i, x)
      <4>1. ASSUME NEW s \in ScenarioIds, NEW i \in Positions(s),
                   NEW x, x \in { [AdapterAt(s, i) EXCEPT !.last = "recent"],
                                  WithStatus(AdapterAt(s, i), "stopped") }
            PROVE  x \in KeyedOnes
        <5>1. AdapterAt(s, i) \in KeyedOnes
          BY <1>2 DEF Everywhere
        <5>2. QED
          BY <4>1, <5>1 DEF KeyedOnes, WithStatus, AdapterRecord, Activity, Statuses
      <4>2. QED
        BY <2>3, <4>1 DEF Reports, IdleStops
    <3>2. QED
      BY <1>2, <3>1, StaysEverywhere
  <2>4. SameAdapters \/ Elapsed => KeepsAdapters
    BY <1>2, KeptBy
  <2>5. QED
    BY <1>1, <2>1, <2>2, <2>3, <2>4
<1>4. ASSUME NEW p \in Reqs, local'[p].op = "updateAdapter"
      PROVE  IF At(p, "write")'
             THEN \/ local'[p].key = Slot(p)'.key
                  \/ local'[p].key = UserKey /\ Slot(p)'.type = Sftp
             ELSE local'[p].key \in RequestKeys(Slot(p)'.type, Nil)
  <2>1. local'[p] = local[p] /\ ~ At(p, "ready")
    BY <1>1, <1>4, ControlPlaneAssumption
       DEF At, SystemInv, LocalsInv, Sound, OpsAt, Processes, AllOps
  <2>2. local[p].sid \in ScenarioIds /\ local[p].idx \in Positions(local[p].sid)
    BY <1>4, <2>1, AtWork DEF OnSlot, AdapterOps
  <2>3. KeepsAdapters
    BY <1>1, <2>1 DEF Quiet
  <2>4. Agree(Slot(p)', Slot(p))
    BY <2>1, <2>2, <2>3, SlotFollows
  <2>5. Slot(p)'.key = Slot(p).key /\ Slot(p)'.type = Slot(p).type
    BY <2>4 DEF Agree
  <2>6. QED
    BY <1>4, <2>1, <2>5 DEF KeysInv, At
<1>5. QED
  BY <1>3, <1>4 DEF KeysInv

LEMMA UpdateMoves ==
    ASSUME SystemInv, SerialInv, NEW p \in Reqs, Continue(p), local[p].op = "updateAdapter"
    PROVE  \/ local'[p] = Ready
           \/ /\ local'[p].idx = local[p].idx /\ local'[p].sid = local[p].sid
              /\ local'[p].key = local[p].key /\ ~ At(p, "write") /\ ~ At(p, "write")'
           \/ /\ local'[p].idx = local[p].idx /\ local'[p].sid = local[p].sid
              /\ ReadKey(p) /\ At(p, "write")' /\ ~ At(p, "write")
              /\ local'[p].key = IF Slot(p).type = Sftp /\ local[p].key = Nil
                                 THEN Slot(p).key ELSE local[p].key
<1>1. local[p].op \in OpsAt(local[p].pc)
  BY ContinueCases, AtWork DEF Sound
<1>2. Check(p) \/ RemoveDeployment(p) \/ RemoveService(p) \/ MarkStopped(p) \/ ReadKey(p) \/ Write(p)
  BY <1>1 DEF Continue, Pick, CreateDeployment, CreateService, Expose, MarkRunning, SetUrl,
              WriteStatus, WriteUrl, Scale, Reread, RemoveRule, RemoveAdapter,
              SweepTheRest, Finish, At, OpsAt, LoopOps
<1>3. CASE Check(p) \/ RemoveDeployment(p) \/ RemoveService(p) \/ MarkStopped(p)
  <2>1. \E pc \in {"deleteDeployment", "readKey", "deleteService", "markStopped"} :
           Goes(p, pc) \/ Takes(p, pc)
    BY <1>3, CheckEffect, TeardownEffects, OtherEffects
  <2>2. local'[p].key = local[p].key
    BY <2>1 DEF Goes, Takes
  <2>3. local[p].pc # "write"
    BY <1>3 DEF Check, RemoveDeployment, RemoveService, MarkStopped, At
  <2>4. QED
    BY <2>1, <2>2, <2>3, MovesTo DEF At
<1>4. CASE ReadKey(p)
  <2>1. local[p].pc = "readKey"
    BY <1>4 DEF ReadKey, At
  <2>2. QED
    BY <1>4, <2>1, OtherEffects DEF SameRequest, At
<1>5. CASE Write(p)
  BY <1>5, OtherEffects
<1>6. QED
  BY <1>2, <1>3, <1>4, <1>5

LEMMA ContinueKeys ==
    ASSUME SystemInv, SystemInv', SerialInv, KeysInv, NEW p \in Reqs, Continue(p)
    PROVE  KeysInv'
<1> DEFINE l == local[p]
<1>1. StoreInv /\ StoreInv' /\ Everywhere(KeyedOnes) /\ ~ At(p, "ready")
  BY ContinueCases DEF SystemInv, HeapInv, KeysInv
<1>2. KeepsAdapters \/ Ends(p)
  BY ContinueInStep
<1>3. Everywhere(KeyedOnes)'
  <2>1. CASE KeepsAdapters
    BY <1>1, <2>1, NewOnesKeyed, KeepsEverywhere
  <2>2. CASE RemoveAdapter(p) \/ Write(p)
    <3>1. l.op \in AdapterOps
      BY <1>1, <2>2, AtWork DEF RemoveAdapter, Write, At, Sound, OpsAt, AdapterOps
    <3>2. /\ l.sid \in ScenarioIds /\ l.idx \in Positions(l.sid)
          /\ Slot(p) \in KeyedOnes
      BY <1>1, <3>1, AtWork DEF OnSlot, Slot, Everywhere
    <3>3. CASE RemoveAdapter(p)
      BY <1>1, <3>2, <3>3, WritesHome, StaysEverywhere
    <3>4. CASE Write(p)
      <4> DEFINE x == [Slot(p) EXCEPT !.name = IF l.name = Nil THEN @ ELSE l.name,
                                      !.key = l.key]
      <4>1. Written(l.sid, l.idx, x)
        BY <3>4, WritesHome
      <4>2. l.op = "updateAdapter" /\ At(p, "write")
        BY <1>1, <3>4, AtWork DEF Write, At, Sound, OpsAt
      <4>3. l.key = Slot(p).key \/ (l.key = UserKey /\ Slot(p).type = Sftp)
        BY <4>2 DEF KeysInv
      <4>4. l.name \in Names \cup {Nil} /\ l.key \in Keys
        BY <1>1, AtWork DEF Local
      <4>5. x \in KeyedOnes
        BY <3>2, <4>3, <4>4 DEF KeyedOnes, AdapterRecord
      <4> HIDE DEF x
      <4>6. QED
        BY <1>1, <3>2, <4>1, <4>5, StaysEverywhere
    <3>5. QED
      BY <2>2, <3>3, <3>4
  <2>3. CASE Dropped(l.sid) /\ l.op = "deleteScenario"
    BY <1>1, <2>3, AtWork, StaysEverywhere DEF LoopOps
  <2>4. QED
    BY <1>2, <2>1, <2>2, <2>3 DEF Ends
<1>4. ASSUME NEW q \in Reqs, local'[q].op = "updateAdapter"
      PROVE  IF At(q, "write")'
             THEN \/ local'[q].key = Slot(q)'.key
                  \/ local'[q].key = UserKey /\ Slot(q)'.type = Sftp
             ELSE local'[q].key \in RequestKeys(Slot(q)'.type, Nil)
  <2>1. q = p
    BY <1>4, ContinueCases, ControlPlaneAssumption DEF AllOps
  <2>2. l.op = "updateAdapter" /\ local'[p] # Ready
    <3>1. local'[p] # Ready
      BY <1>4, <2>1, ControlPlaneAssumption DEF Ready, AllOps
    <3>2. QED
      BY <1>4, <2>1, <3>1, ContinueOp DEF SameRequest
  <2>3. /\ l.sid \in ScenarioIds /\ l.idx \in Positions(l.sid)
        /\ Slot(p) \in KeyedOnes
    BY <1>1, <2>2, AtWork DEF OnSlot, Slot, Everywhere, AdapterOps
  <2>4. KeepsAdapters
    BY <1>2, <2>2 DEF Ends
  <2>5. local'[p].sid = l.sid /\ local'[p].idx = l.idx
    BY <2>2, UpdateMoves
  <2>6. Agree(Slot(p)', Slot(p))
    BY <2>3, <2>4, <2>5, SlotFollows
  <2>7. Slot(p)'.key = Slot(p).key /\ Slot(p)'.type = Slot(p).type
    BY <2>6 DEF Agree
  <2>8. ~ At(p, "write") /\ l.key \in RequestKeys(Slot(p).type, Nil)
    BY <2>2, UpdateMoves DEF KeysInv
  <2>9. CASE ~ At(p, "write")' /\ local'[p].key = l.key
    BY <2>1, <2>7, <2>8, <2>9
  <2>10. CASE /\ At(p, "write")'
              /\ local'[p].key = IF Slot(p).type = Sftp /\ l.key = Nil
                                 THEN Slot(p).key ELSE l.key
    <3>1. Slot(p).type # Sftp => Slot(p).key = Nil
      BY <2>3 DEF KeyedOnes
    <3>2. QED
      BY <2>1, <2>7, <2>8, <2>10, <3>1 DEF RequestKeys
  <2>11. QED
    BY <2>2, <2>9, <2>10, UpdateMoves
<1>5. QED
  BY <1>3, <1>4 DEF KeysInv

LEMMA KeysStep ==
    ASSUME SystemInv, SystemInv', SerialInv, OneByOne, KeysInv, [Next]_vars
    PROVE  KeysInv'
<1>1. ASSUME NEW p \in Reqs, Begin(p)
      PROVE  KeysInv'
  <2>1. /\ Quiet /\ UNCHANGED storeVars
        /\ \A q \in Processes \ {p} : local'[q] = local[q]
        /\ BeginsLoop(p) \/ BeginsAdapter(p) \/ BeginsCleanup(p)
    BY <1>1, BeginEffect
  <2>2. Everywhere(KeyedOnes)'
    BY <2>1, UnchangedAdapters, StaysEverywhere DEF KeysInv, SystemInv, HeapInv
  <2>3. \A q \in Reqs \ {p} : local'[q].op = Nil
    BY <2>1 DEF Quiet, At, SystemInv, LocalsInv, Sound, OpsAt, Processes
  <2>4. ASSUME local'[p].op = "updateAdapter"
        PROVE  ~ At(p, "write")' /\ local'[p].key \in RequestKeys(Slot(p)'.type, Nil)
    <3>1. BeginsAdapter(p)
      <4>1. BeginsLoop(p) => local'[p].op \in {"launch", "stop", "deleteScenario"}
        BY DEF BeginsLoop, Ready
      <4>2. BeginsCleanup(p) => local'[p].op = "cleanup"
        BY DEF BeginsCleanup, Ready
      <4>3. QED
        BY <2>1, <2>4, <4>1, <4>2
    <3>2. PICK op \in AdapterOps, sid \in Scenarios : \E i \in Positions(sid) :
             \E name, key :
                /\ Brings(op, sid, i, name, key)
                /\ local'[p] = Pointing(op, sid, i, name, key)
      BY <3>1 DEF BeginsAdapter
    <3>3. PICK i \in Positions(sid) : \E name, key :
                /\ Brings(op, sid, i, name, key)
                /\ local'[p] = Pointing(op, sid, i, name, key)
      BY <3>2
    <3>4. PICK name, key :
                /\ Brings(op, sid, i, name, key)
                /\ local'[p] = Pointing(op, sid, i, name, key)
      BY <3>3
    <3>5. /\ local'[p].op = op /\ local'[p].sid = sid /\ local'[p].idx = i
          /\ local'[p].key = key /\ local'[p].pc = "check"
      BY <3>4 DEF Pointing, Ready
    <3>6. key \in RequestKeys(AdapterAt(sid, i).type, Nil)
      BY <2>4, <3>4, <3>5 DEF Brings
    <3>7. Slot(p)' = AdapterAt(sid, i)
      BY <2>1, <3>5 DEF Slot, AdapterAt, storeVars
    <3>8. QED
      BY <3>5, <3>6, <3>7 DEF At
  <2>5. Nil # "updateAdapter"
    BY ControlPlaneAssumption DEF AllOps
  <2>6. QED
    BY <2>2, <2>3, <2>4, <2>5 DEF KeysInv
<1>2. CASE Restart
  <2>1. /\ \A sid \in ScenarioIds : Positions(sid)' = {}
        /\ \A q \in Reqs : local'[q].op = Nil
    BY <1>2, WorldEffects DEF Ready, Processes
  <2>2. QED
    BY <2>1, ControlPlaneAssumption DEF KeysInv, Everywhere, AllOps
<1>3. QED
  BY <1>1, <1>2, StepCases, SurroundingsKeys, ContinueKeys

LEMMA InitKeys == ASSUME Init PROVE KeysInv
<1>1. \A sid \in ScenarioIds : Positions(sid) = {}
  BY DEF Init, StoreInit, Holds, Positions
<1>2. \A p \in Reqs : local[p].op = Nil
  BY DEF Init, Ready, Processes
<1>3. QED
  BY <1>1, <1>2, ControlPlaneAssumption DEF KeysInv, Everywhere, AllOps

(* Where an adapter of a scenario comes from: it was there already, with   *)
(* its key or without the one that the user brings now, or it is new.      *)
Traced(sid, j) ==
    \/ \E k \in Positions(sid) :
          /\ AdapterAt(sid, j)'.id = AdapterAt(sid, k).id
          /\ AdapterAt(sid, j)'.key \in {AdapterAt(sid, k).key, UserKey}
    \/ \A k \in Positions(sid) : AdapterAt(sid, j)'.id # AdapterAt(sid, k).id

LEMMA AdaptersTraced ==
    ASSUME SystemInv, SerialInv, OneByOne, KeysInv, [Next]_vars,
           NEW sid \in ScenarioIds, Holds(sid), NEW j \in Positions(sid)'
    PROVE  Traced(sid, j)
<1>1. StoreInv /\ Size(sid) \in Nat /\ Positions(sid) = 1 .. Size(sid)
  BY SlotFacts DEF SystemInv, HeapInv
<1>2. CASE KeepsAdapters
  <2>1. j \in Positions(sid)
    BY <1>2, SamePositions DEF KeepsAdapters
  <2>2. QED
    BY <1>2, <2>1 DEF KeepsAdapters, Agree, Traced
<1>3. ASSUME NEW s \in ScenarioIds, NEW i \in Positions(s), NEW x, Written(s, i, x),
             x.id = AdapterAt(s, i).id, x.key \in {AdapterAt(s, i).key, UserKey}
      PROVE  Traced(sid, j)
  <2>1. j \in Positions(sid)
    BY <1>3, SamePositions DEF Written
  <2>2. AdapterAt(sid, j)' = IF sid = s /\ j = i THEN x ELSE AdapterAt(sid, j)
    BY <1>3, <2>1 DEF Written
  <2>3. QED
    BY <1>3, <2>1, <2>2 DEF Traced
<1>4. ASSUME NEW s \in ScenarioIds, NEW i \in Positions(s), Vacated(s, i)
      PROVE  Traced(sid, j)
  <2>1. j \in 1 .. Size(sid)'
    BY DEF Positions, Holds, Size
  <2>2. Size(sid)' = IF sid = s THEN Size(sid) - 1 ELSE Size(sid)
    BY <1>4 DEF Vacated
  <2>3. (IF sid = s /\ j >= i THEN j + 1 ELSE j) \in Positions(sid)
    BY <1>1, <2>1, <2>2
  <2>4. AdapterAt(sid, j)' = AdapterAt(sid, IF sid = s /\ j >= i THEN j + 1 ELSE j)
    BY <1>4 DEF Vacated
  <2>5. QED
    BY <2>3, <2>4 DEF Traced
<1>5. ASSUME NEW s \in Scenarios, NEW x \in AdapterRecord, x.id[3] = clock, Extended(s, x)
      PROVE  Traced(sid, j)
  <2>1. j \in 1 .. Size(sid)'
    BY DEF Positions, Holds, Size
  <2>2. Size(sid)' = IF sid = s THEN Size(sid) + 1 ELSE Size(sid)
    BY <1>5 DEF Extended
  <2>3. AdapterAt(sid, j)' = IF sid = s /\ j = Size(sid) + 1 THEN x ELSE AdapterAt(sid, j)
    BY <1>5 DEF Extended
  <2>4. CASE j \in Positions(sid)
    BY <1>1, <2>3, <2>4 DEF Traced
  <2>5. CASE j \notin Positions(sid)
    <3>1. AdapterAt(sid, j)' = x
      BY <1>1, <2>1, <2>2, <2>3, <2>5
    <3>2. \A k \in Positions(sid) : AdapterAt(sid, k).id[3] < clock
      BY DEF SerialInv, Apart
    <3>3. \A k \in Positions(sid) : AdapterAt(sid, k).id[3] # x.id[3]
      BY <1>5, <3>2, ClockIsFree
    <3>4. QED
      BY <3>1, <3>3 DEF Traced
  <2>6. QED
    BY <2>4, <2>5
<1>6. ASSUME NEW s, NEW xs, Founded(s, xs)
      PROVE  Traced(sid, j)
  <2>1. s # sid
    BY <1>6 DEF Founded
  <2>2. j \in Positions(sid)
    BY <1>6, <2>1 DEF Founded, Positions, Size, Holds
  <2>3. AdapterAt(sid, j)' = AdapterAt(sid, j)
    BY <1>6, <2>1 DEF Founded
  <2>4. QED
    BY <2>2, <2>3 DEF Traced
<1>7. ASSUME NEW s, Dropped(s)
      PROVE  Traced(sid, j)
  <2>1. j \in Positions(sid) /\ AdapterAt(sid, j)' = AdapterAt(sid, j)
    BY <1>7 DEF Dropped, Positions, Holds, AdapterAt
  <2>2. QED
    BY <2>1 DEF Traced
<1>8. CASE Surroundings
  <2>1. SameAdapters \/ Elapsed \/ Loads \/ Creates \/ Adds \/ Reports \/ IdleStops
    BY <1>8, SurroundingsEffect
  <2>2. CASE SameAdapters \/ Elapsed
    BY <1>1, <1>2, <2>2, KeptBy
  <2>3. CASE Loads \/ Creates
    BY <1>6, <2>3 DEF Loads, Creates
  <2>4. CASE Adds
    <3>1. PICK s \in Scenarios, x \in AdapterRecord : x.id[3] = clock /\ Extended(s, x)
      BY <2>4 DEF Adds, NewAdapter
    <3>2. QED
      BY <1>5, <3>1
  <2>5. CASE Reports \/ IdleStops
    <3>1. ASSUME NEW s \in ScenarioIds, NEW i \in Positions(s),
                 NEW x, x \in { [AdapterAt(s, i) EXCEPT !.last = "recent"],
                                WithStatus(AdapterAt(s, i), "stopped") }
          PROVE  x.id = AdapterAt(s, i).id /\ x.key = AdapterAt(s, i).key
      <4>1. AdapterAt(s, i) \in AdapterRecord
        BY <1>1, LookupFacts
      <4>2. QED
        BY <3>1, <4>1 DEF WithStatus, AdapterRecord
    <3>2. QED
      BY <1>3, <2>5, <3>1 DEF Reports, IdleStops
  <2>6. QED
    BY <2>1, <2>2, <2>3, <2>4, <2>5
<1>9. ASSUME NEW p \in Reqs, Begin(p)
      PROVE  Traced(sid, j)
  BY <1>1, <1>2, <1>9, BeginEffect, UnchangedAdapters, KeptBy
<1>10. ASSUME NEW p \in Reqs, Continue(p)
       PROVE  Traced(sid, j)
  <2> DEFINE l == local[p]
  <2>1. CASE RemoveAdapter(p) \/ Write(p)
    <3>1. l.op \in AdapterOps /\ ~ At(p, "ready") /\ (Write(p) => l.op = "updateAdapter" /\ At(p, "write"))
      BY <1>10, <2>1, ContinueCases, AtWork DEF RemoveAdapter, Write, At, Sound, OpsAt, AdapterOps
    <3>2. l.sid \in ScenarioIds /\ l.idx \in Positions(l.sid) /\ Slot(p) = AdapterAt(l.sid, l.idx)
      BY <3>1, AtWork DEF OnSlot, Slot
    <3>3. CASE RemoveAdapter(p)
      BY <1>4, <3>2, <3>3, WritesHome
    <3>4. CASE Write(p)
      <4> DEFINE x == [Slot(p) EXCEPT !.name = IF l.name = Nil THEN @ ELSE l.name,
                                      !.key = l.key]
      <4>1. Written(l.sid, l.idx, x)
        BY <3>4, WritesHome
      <4>2. l.key \in {Slot(p).key, UserKey}
        BY <3>1, <3>4 DEF KeysInv
      <4>3. x.id = Slot(p).id /\ x.key = l.key
        BY <1>1, <3>2, LookupFacts DEF AdapterRecord
      <4> HIDE DEF x
      <4>4. QED
        BY <1>3, <3>2, <4>1, <4>2, <4>3
    <3>5. QED
      BY <2>1, <3>3, <3>4
  <2>2. QED
    BY <1>2, <1>7, <1>10, <2>1, ContinueInStep DEF Ends
<1>11. CASE Restart
  BY <1>11, WorldEffects
<1>12. QED
  BY <1>8, <1>9, <1>10, <1>11, StepCases

(* An SFTP adapter keeps its host key through every request but an update  *)
(* that brings another one.                                                *)
THEOREM HostKeysStay == ASSUME OneByOne PROVE Spec => HostKeyKept
<1>1. Init => KeysInv
  BY InitKeys
<1>2. SystemInv /\ SystemInv' /\ SerialInv /\ KeysInv /\ [Next]_vars => KeysInv'
  BY KeysStep
<1> DEFINE Kept ==
      \A sid \in Scenarios : Holds(sid)' =>
          \A i \in Positions(sid), j \in Positions(sid)' :
             /\ AdapterAt(sid, i).id = AdapterAt(sid, j)'.id
             /\ AdapterAt(sid, i).key # AdapterAt(sid, j)'.key
             => AdapterAt(sid, j)'.key = UserKey
<1>3. SystemInv /\ SerialInv /\ KeysInv /\ [Next]_vars => Kept
  <2>1. ASSUME SystemInv, SerialInv, KeysInv, [Next]_vars, NEW sid \in Scenarios,
               NEW i \in Positions(sid), NEW j \in Positions(sid)',
               AdapterAt(sid, i).id = AdapterAt(sid, j)'.id
        PROVE  AdapterAt(sid, j)'.key \in {AdapterAt(sid, i).key, UserKey}
    <3>1. sid \in ScenarioIds /\ Holds(sid) /\ IdsDiffer(sid)
      BY <2>1 DEF Scenarios, SerialInv, Apart
    <3>2. Traced(sid, j)
      BY <2>1, <3>1, AdaptersTraced
    <3>3. QED
      BY <2>1, <3>1, <3>2 DEF Traced, IdsDiffer
  <2>2. QED
    BY <2>1
<1>4. Kept => [Kept]_vars
  OBVIOUS
<1>5. QED
  BY <1>1, <1>2, <1>3, SystemInvariant, Serial, PTL DEF Spec, HostKeyKept

-----------------------------------------------------------------------------
(* Steps around the requests when there is no idle check.                  *)

(* Nothing but the time of activity is different.                          *)
Same(x, y) == Agree(x, y) /\ x.status = y.status /\ x.url = y.url

Untouched ==
    /\ SameSlots /\ SameLabels
    /\ \A t \in ScenarioIds : \A j \in Positions(t) : Same(AdapterAt(t, j)', AdapterAt(t, j))

(* There are more adapters, and those that are new are stopped.            *)
Grows ==
    \A t \in ScenarioIds :
        /\ Holds(t) => Holds(t)' /\ Label(t)' = Label(t)
        /\ Positions(t) \subseteq Positions(t)'
        /\ \A j \in Positions(t) : AdapterAt(t, j)' = AdapterAt(t, j)
        /\ \A j \in Positions(t)' \ Positions(t) :
              AdapterAt(t, j)'.status = "stopped"

LEMMA FoundedGrows ==
    ASSUME StoreInv, NEW sid \in ScenarioIds, NEW xs, Founded(sid, xs),
           \A i \in 1 .. Len(xs) : xs[i].status = "stopped"
    PROVE  Grows
<1>1. ASSUME NEW t \in ScenarioIds
      PROVE  /\ Holds(t) => Holds(t)' /\ Label(t)' = Label(t)
             /\ Positions(t) \subseteq Positions(t)'
             /\ \A j \in Positions(t) : AdapterAt(t, j)' = AdapterAt(t, j)
             /\ \A j \in Positions(t)' \ Positions(t) : AdapterAt(t, j)'.status = "stopped"
  <2>1. CASE t = sid
    <3>1. Positions(t) = {}
      BY <2>1 DEF Founded, Positions
    <3>2. ~ Holds(t) /\ Positions(t)' = 1 .. Len(xs)
      BY <2>1 DEF Founded, Positions, Size
    <3>3. \A j \in Positions(t)' : AdapterAt(t, j)' = xs[j]
      BY <2>1 DEF Founded
    <3>4. QED
      BY <3>1, <3>2, <3>3
  <2>2. CASE t # sid
    <3>1. catalog'[t] = catalog[t] /\ (Holds(t) => Size(t)' = Size(t) /\ Label(t)' = Label(t))
      BY <2>2 DEF Founded
    <3>2. Holds(t)' = Holds(t) /\ Positions(t)' = Positions(t)
      BY <3>1 DEF Holds, Positions, Size
    <3>3. \A j \in Positions(t)' : AdapterAt(t, j)' = AdapterAt(t, j)
      BY <2>2 DEF Founded
    <3>4. QED
      BY <3>1, <3>2, <3>3
  <2>3. QED
    BY <2>1, <2>2
<1>2. QED
  BY <1>1 DEF Grows

LEMMA ExtendedGrows ==
    ASSUME StoreInv, NEW sid \in Scenarios, NEW x, Extended(sid, x), x.status = "stopped"
    PROVE  Grows
<1>1. ASSUME NEW t \in ScenarioIds
      PROVE  /\ Holds(t) => Holds(t)' /\ Label(t)' = Label(t)
             /\ Positions(t) \subseteq Positions(t)'
             /\ \A j \in Positions(t) : AdapterAt(t, j)' = AdapterAt(t, j)
             /\ \A j \in Positions(t)' \ Positions(t) : AdapterAt(t, j)'.status = "stopped"
  <2>1. Holds(t)' = Holds(t) /\ (Holds(t) => Label(t)' = Label(t))
    BY DEF Extended, Holds, SameLabels
  <2>2. CASE ~ Holds(t)
    BY <2>1, <2>2 DEF Positions, Holds
  <2>3. CASE Holds(t)
    <3>1. Size(t) \in Nat /\ Positions(t) = 1 .. Size(t) /\ Positions(t)' = 1 .. Size(t)'
      BY <2>1, <2>3, SlotFacts DEF Positions, Holds, Size
    <3>2. Size(t)' = IF t = sid THEN Size(t) + 1 ELSE Size(t)
      BY <2>3 DEF Extended
    <3>3. Positions(t) \subseteq Positions(t)'
      BY <3>1, <3>2
    <3>4. \A j \in Positions(t)' :
             AdapterAt(t, j)' = IF t = sid /\ j = Size(sid) + 1 THEN x ELSE AdapterAt(t, j)
      BY DEF Extended
    <3>5. \A j \in Positions(t) : ~ (t = sid /\ j = Size(sid) + 1)
      BY <3>1
    <3>6. \A j \in Positions(t)' \ Positions(t) : t = sid /\ j = Size(sid) + 1
      BY <3>1, <3>2
    <3>7. QED
      BY <2>1, <3>3, <3>4, <3>5, <3>6
  <2>4. QED
    BY <2>2, <2>3
<1>2. QED
  BY <1>1 DEF Grows

LEMMA NewOnesGrow ==
    ASSUME SystemInv, SerialInv, Loads \/ Creates \/ Adds
    PROVE  Grows /\ Quiet
<1>1. StoreInv
  BY DEF SystemInv, HeapInv
<1>2. \A id, name, type, key : NewAdapter(id, name, type, key).status = "stopped"
  BY DEF NewAdapter
<1>3. CASE Loads
  <2>1. PICK g \in unloaded : Founded(g, FromFile(g))
    BY <1>3 DEF Loads
  <2>2. g \in GithubIds /\ g \in ScenarioIds
    BY <2>1 DEF SystemInv, CountersInv, ScenarioIds
  <2>3. \A i \in 1 .. Len(FromFile(g)) : FromFile(g)[i].status = "stopped"
    BY <1>2, <2>2, FromFileType DEF FromFile
  <2>4. QED
    BY <1>1, <1>3, <2>1, <2>2, <2>3, FoundedGrows DEF Loads
<1>4. CASE Creates
  <2>1. ASSUME NEW xs, Founded(clock, xs), \A i \in 1 .. Len(xs) : xs[i].status = "stopped"
        PROVE  Grows
    BY <1>1, <2>1, ClockIsFree, FoundedGrows
  <2>2. CASE Founded(clock, <<>>)
    <3>1. Len(<<>>) = 0
      OBVIOUS
    <3>2. Grows
      BY <2>1, <2>2, <3>1
    <3>3. QED
      BY <1>4, <3>2 DEF Creates
  <2>3. ASSUME NEW src \in Scenarios, Founded(clock, CloneOf(AdaptersOf(src), clock))
        PROVE  Grows
    <3>1. AdaptersOf(src) \in Seq(AdapterRecord)
      BY <1>1, SlotFacts, ViewType DEF AdaptersOf, Scenarios
    <3>2. Len(CloneOf(AdaptersOf(src), clock)) = Len(AdaptersOf(src))
      BY <3>1, ClockIsFree, CloneOfType
    <3>3. \A i \in 1 .. Len(AdaptersOf(src)) : CloneOf(AdaptersOf(src), clock)[i].status = "stopped"
      BY <1>2, <3>1 DEF CloneOf
    <3>4. QED
      BY <2>1, <2>3, <3>2, <3>3
  <2>4. QED
    BY <1>4, <2>2, <2>3 DEF Creates
<1>5. CASE Adds
  <2>1. \E sid \in Scenarios : \E x : x.status = "stopped" /\ Extended(sid, x)
    BY <1>2, <1>5 DEF Adds
  <2>2. QED
    BY <1>1, <1>5, <2>1, ExtendedGrows DEF Adds
<1>6. QED
  BY <1>3, <1>4, <1>5

LEMMA CalmSurroundings ==
    ASSUME SystemInv, SerialInv, OneByOne, "idle" \notin Ops, Surroundings
    PROVE  /\ \A q \in Reqs : local'[q] = local[q]
           /\ UNCHANGED clusterVars
           /\ Untouched \/ ((Loads \/ Creates \/ Adds) /\ Grows /\ Quiet)
<1>1. /\ \A q \in Reqs : local'[q] = local[q]
      /\ SameAdapters \/ Elapsed \/ Loads \/ Creates \/ Adds \/ Reports
      /\ UNCHANGED clusterVars
      /\ SameLabels \/ Loads \/ Creates \/ Adds
  BY SurroundingsEffect
<1>2. StoreInv
  BY DEF SystemInv, HeapInv
<1>3. CASE Loads \/ Creates \/ Adds
  BY <1>1, <1>3, NewOnesGrow
<1>4. CASE SameAdapters /\ SameLabels
  BY <1>1, <1>4 DEF Untouched, SameAdapters, Same, Agree
<1>5. CASE Elapsed
  <2>1. \A x \in AdapterRecord : Same([x EXCEPT !.last = IF @ = "recent" THEN "old" ELSE @], x)
    BY DEF Same, Agree, AdapterRecord
  <2>2. QED
    BY <1>1, <1>2, <1>5, <2>1, LookupFacts DEF Untouched, Elapsed
<1>6. CASE Reports
  <2>1. PICK sid \in ScenarioIds : \E i \in Positions(sid) :
           Written(sid, i, [AdapterAt(sid, i) EXCEPT !.last = "recent"])
    BY <1>6 DEF Reports
  <2>2. PICK i \in Positions(sid) : Written(sid, i, [AdapterAt(sid, i) EXCEPT !.last = "recent"])
    BY <2>1
  <2>3. AdapterAt(sid, i) \in AdapterRecord
    BY <1>2, LookupFacts
  <2>4. Same([AdapterAt(sid, i) EXCEPT !.last = "recent"], AdapterAt(sid, i))
    BY <2>3 DEF Same, Agree, AdapterRecord
  <2>5. \A x : Same(x, x)
    BY DEF Same, Agree
  <2>6. QED
    BY <1>1, <2>2, <2>4, <2>5 DEF Untouched, Written
<1>7. QED
  BY <1>1, <1>3, <1>4, <1>5, <1>6

LEMMA UntouchedSlot ==
    ASSUME Untouched, NEW p, local'[p].sid = local[p].sid, local'[p].idx = local[p].idx,
           local[p].sid \in ScenarioIds, local[p].idx \in Positions(local[p].sid)
    PROVE  Same(Slot(p)', Slot(p))
<1>1. PICK t \in ScenarioIds : local[p].sid = t
  OBVIOUS
<1>2. PICK j \in Positions(t) : local[p].idx = j
  BY <1>1
<1>3. Slot(p) = AdapterAt(t, j) /\ Slot(p)' = AdapterAt(t, j)'
  BY <1>1, <1>2 DEF Slot, AdapterAt
<1>4. QED
  BY <1>3 DEF Untouched

(* The steps of a launch, a stop and a deletion go on until they finish.   *)
LEMMA LoopEnds ==
    ASSUME SystemInv, SerialInv, NEW p \in Reqs, Continue(p), local[p].op \in LoopOps
    PROVE  SameRequest(p) \/ (Finish(p) /\ local'[p] = Ready)
<1>1. local[p].op \in OpsAt(local[p].pc) /\ local[p].op # "idle"
  BY ContinueCases, AtWork DEF Sound
<1>2. ~ RemoveAdapter(p) /\ ~ Write(p) /\ ~ SweepTheRest(p) /\ ~ ReadKey(p) /\ ~ Reread(p)
  BY <1>1 DEF RemoveAdapter, Write, SweepTheRest, ReadKey, Reread, At, OpsAt, LoopOps
<1>3. CASE MarkStopped(p)
  <2>1. Advances(p)
    BY <1>3, OtherEffects DEF LoopOps
  <2>2. QED
    BY <2>1, MovesTo
<1>4. CASE Finish(p)
  BY <1>4, OtherEffects
<1>5. CASE Pick(p)
  BY <1>5, PickEffect, MovesTo
<1>6. CASE CreateDeployment(p) \/ CreateService(p)
  <2>1. Goes(p, "createService") \/ Goes(p, "expose") \/ Advances(p)
    BY <1>6, LaunchEffects
  <2>2. QED
    BY <2>1, MovesTo
<1>7. CASE Expose(p)
  BY <1>7, LaunchEffects
<1>8. CASE MarkRunning(p) \/ SetUrl(p) \/ WriteStatus(p) \/ WriteUrl(p)
  <2>1. \/ Goes(p, "setUrl") \/ Goes(p, "pokeStatus") \/ Goes(p, "pokeUrl") \/ Advances(p)
    BY <1>8, LaunchEffects
  <2>2. QED
    BY <2>1, MovesTo
<1>9. CASE Check(p)
  <2>1. \E pc : Goes(p, pc) \/ Takes(p, pc)
    BY <1>9, CheckEffect
  <2>2. QED
    BY <2>1, MovesTo
<1>10. CASE Scale(p) \/ RemoveDeployment(p) \/ RemoveService(p) \/ RemoveRule(p)
  <2>1. Advances(p) \/ \E pc : Goes(p, pc)
    BY <1>10, TeardownEffects
  <2>2. QED
    BY <2>1, MovesTo
<1>11. QED
  BY <1>2, <1>3, <1>4, <1>5, <1>6, <1>7, <1>8, <1>9, <1>10 DEF Continue

-----------------------------------------------------------------------------
(* Running adapters are in scenarios shown as running.                     *)

Launching(sid) == \E p \in Reqs : local[p].op = "launch" /\ local[p].sid = sid

(* Until a launch is finished its scenario may be shown as stopped.        *)
VisibleInv ==
    \A sid \in ScenarioIds : \A i \in Positions(sid) :
        AdapterAt(sid, i).status = "running" => Label(sid) = "running" \/ Launching(sid)

(* A stop has stopped what it got past.                                    *)
StoppedInv ==
    \A p \in Reqs, sid \in ScenarioIds :
        local[p].op = "stop" /\ local[p].sid = sid =>
           \A i \in Positions(sid) :
              i < local[p].idx => AdapterAt(sid, i).status = "stopped"

LEMMA LaunchingWaits ==
    ASSUME \A q \in Reqs : local'[q].op = local[q].op /\ local'[q].sid = local[q].sid
    PROVE  \A sid : Launching(sid)' = Launching(sid)
BY DEF Launching

LEMMA CalmVisible ==
    ASSUME SystemInv, SerialInv, OneByOne, "idle" \notin Ops, VisibleInv, Surroundings
    PROVE  VisibleInv'
<1>1. /\ \A q \in Reqs : local'[q] = local[q]
      /\ Untouched \/ (Grows /\ Quiet)
  BY CalmSurroundings
<1>2. \A sid : Launching(sid)' = Launching(sid)
  BY <1>1, LaunchingWaits
<1>3. StoreInv
  BY DEF SystemInv, HeapInv
<1>4. CASE Untouched
  <2>1. ASSUME NEW t \in ScenarioIds, NEW j \in Positions(t)',
               AdapterAt(t, j)'.status = "running"
        PROVE  Label(t)' = "running" \/ Launching(t)'
    <3>1. Positions(t)' = Positions(t) /\ Holds(t)
      BY <1>4, SamePositions DEF Untouched, Positions
    <3>2. AdapterAt(t, j).status = "running" /\ Label(t)' = Label(t)
      BY <1>4, <2>1, <3>1 DEF Untouched, Same, SameLabels
    <3>3. QED
      BY <1>2, <3>1, <3>2 DEF VisibleInv
  <2>2. QED
    BY <2>1 DEF VisibleInv
<1>5. CASE Grows /\ Quiet
  <2>1. ASSUME NEW t \in ScenarioIds, NEW j \in Positions(t)',
               AdapterAt(t, j)'.status = "running"
        PROVE  Label(t)' = "running" \/ Launching(t)'
    <3>1. j \in Positions(t)
      BY <1>5, <2>1 DEF Grows
    <3>2. Holds(t)
      BY <3>1 DEF Positions
    <3>3. AdapterAt(t, j).status = "running" /\ Label(t)' = Label(t)
      BY <1>5, <2>1, <3>1, <3>2 DEF Grows
    <3>4. QED
      BY <1>2, <3>1, <3>3 DEF VisibleInv
  <2>2. QED
    BY <2>1 DEF VisibleInv
<1>6. QED
  BY <1>1, <1>4, <1>5

(* The idle check stops adapters, too, but starts none.                    *)
LEMMA SurroundedStopped ==
    ASSUME SystemInv, SerialInv, OneByOne, StoppedInv, Surroundings
    PROVE  StoppedInv'
<1>1. /\ \A q \in Reqs : local'[q] = local[q]
      /\ \/ SameAdapters \/ Elapsed \/ Reports \/ IdleStops
         \/ (Loads \/ Creates \/ Adds)
      /\ StoreInv
  BY SurroundingsEffect DEF SystemInv, HeapInv
<1>2. SUFFICES ASSUME NEW p \in Reqs, NEW t \in ScenarioIds, local[p].op = "stop",
                      local[p].sid = t, NEW i \in Positions(t)', i < local[p].idx
               PROVE  AdapterAt(t, i)'.status = "stopped"
  BY <1>1 DEF StoppedInv
<1>3. CASE Loads \/ Creates \/ Adds
  <2>1. Quiet
    BY <1>3, NewOnesGrow
  <2>2. local[p].op = Nil
    BY <2>1 DEF Quiet, At, SystemInv, LocalsInv, Sound, OpsAt, Processes
  <2>3. QED
    BY <1>2, <2>2, ControlPlaneAssumption DEF AllOps
<1>4. CASE SameAdapters
  <2>1. i \in Positions(t) /\ AdapterAt(t, i)' = AdapterAt(t, i)
    BY <1>2, <1>4, SamePositions DEF SameAdapters
  <2>2. QED
    BY <1>2, <2>1 DEF StoppedInv
<1>5. CASE Elapsed
  <2>1. i \in Positions(t) /\ AdapterAt(t, i)'
           = [AdapterAt(t, i) EXCEPT !.last = IF @ = "recent" THEN "old" ELSE @]
    BY <1>2, <1>5, SamePositions DEF Elapsed
  <2>2. AdapterAt(t, i) \in AdapterRecord /\ AdapterAt(t, i).status = "stopped"
    BY <1>1, <1>2, <2>1, LookupFacts DEF StoppedInv
  <2>3. QED
    BY <2>1, <2>2 DEF AdapterRecord
<1>6. CASE Reports \/ IdleStops
  <2> DEFINE Hits(sid, j) ==
                \/ Written(sid, j, [AdapterAt(sid, j) EXCEPT !.last = "recent"])
                \/ Written(sid, j, WithStatus(AdapterAt(sid, j), "stopped"))
  <2>0. PICK sid \in ScenarioIds : \E j \in Positions(sid) : Hits(sid, j)
    BY <1>6 DEF Reports, IdleStops
  <2>1. PICK j \in Positions(sid) : Hits(sid, j)
    BY <2>0
  <2>2. i \in Positions(t)
    BY <1>2, <2>1, SamePositions DEF Written
  <2>3. /\ AdapterAt(t, i) \in AdapterRecord /\ AdapterAt(t, i).status = "stopped"
        /\ AdapterAt(sid, j) \in AdapterRecord
    BY <1>1, <1>2, <2>2, LookupFacts DEF StoppedInv
  <2>4. CASE t = sid /\ i = j
    <3>1. \/ AdapterAt(t, i)' = [AdapterAt(t, i) EXCEPT !.last = "recent"]
          \/ AdapterAt(t, i)' = WithStatus(AdapterAt(t, i), "stopped")
      BY <2>1, <2>2, <2>4 DEF Written
    <3>2. QED
      BY <2>3, <3>1 DEF WithStatus, AdapterRecord
  <2>5. CASE ~ (t = sid /\ i = j)
    <3>1. AdapterAt(t, i)' = AdapterAt(t, i)
      BY <2>1, <2>2, <2>5 DEF Written
    <3>2. QED
      BY <2>3, <3>1
  <2>6. QED
    BY <2>4, <2>5
<1>7. QED
  BY <1>1, <1>3, <1>4, <1>5, <1>6

LEMMA StopMoves ==
    ASSUME SystemInv, SerialInv, NEW p \in Reqs, Continue(p), local[p].op = "stop"
    PROVE  \/ /\ Finish(p) /\ local'[p] = Ready /\ At(p, "finish")
              /\ local[p].idx > Size(local[p].sid)
           \/ /\ UNCHANGED storeVars /\ SameRequest(p)
              /\ \/ local'[p].idx = local[p].idx
                 \/ /\ local'[p].idx = local[p].idx + 1
                    /\ local[p].idx \in Positions(local[p].sid)
                    /\ Slot(p).status = "stopped"
           \/ /\ Written(local[p].sid, local[p].idx, WithStatus(Slot(p), "stopped"))
              /\ SameRequest(p) /\ local'[p].idx = local[p].idx + 1
              /\ local[p].idx \in Positions(local[p].sid)
<1>1. local[p].op \in OpsAt(local[p].pc) /\ local[p].op \in LoopOps
  BY ContinueCases, AtWork DEF Sound, LoopOps
<1>2. Pick(p) \/ Scale(p) \/ MarkStopped(p) \/ Finish(p)
  BY <1>1 DEF Continue, CreateDeployment, CreateService, Expose, MarkRunning, SetUrl,
              WriteStatus, WriteUrl, Check, RemoveDeployment, RemoveService, Reread,
              RemoveRule, RemoveAdapter, ReadKey, Write, SweepTheRest, At, OpsAt, AdapterOps
<1>3. CASE Pick(p)
  <2>1. /\ UNCHANGED storeVars
        /\ \/ Goes(p, "finish")
           \/ Takes(p, FirstStep(local[p].op))
           \/ /\ Advances(p) /\ local[p].idx \in Positions(local[p].sid)
              /\ ~ Wanted(local[p].op, Slot(p)) /\ Slot(p) \in AdapterRecord
    BY <1>3, PickEffect
  <2>2. ~ Wanted(local[p].op, Slot(p)) /\ Slot(p) \in AdapterRecord => Slot(p).status = "stopped"
    BY DEF Wanted, AdapterRecord, Statuses
  <2>3. QED
    BY <2>1, <2>2, MovesTo
<1>4. CASE Scale(p)
  BY <1>4, TeardownEffects, MovesTo
<1>5. CASE MarkStopped(p)
  <2>1. Advances(p) /\ Written(local[p].sid, local[p].idx, WithStatus(Slot(p), "stopped"))
    BY <1>5, OtherEffects, WritesHome
  <2>2. local[p].idx \in Positions(local[p].sid)
    BY <1>1, <1>5, ContinueCases, AtWork DEF MarkStopped, At, OnSlot
  <2>3. QED
    BY <2>1, <2>2, MovesTo
<1>6. CASE Finish(p)
  <2>1. At(p, "finish")
    BY <1>6 DEF Finish
  <2>2. InStep(p) /\ local[p].len = Size(local[p].sid)
    BY <1>1 DEF SerialInv, InStep
  <2>3. QED
    BY <1>1, <1>6, <2>1, <2>2, OtherEffects DEF InStep, At
<1>7. QED
  BY <1>2, <1>3, <1>4, <1>5, <1>6

(* What the writes of requests do to statuses.                             *)
LEMMA StatusWrites ==
    ASSUME SystemInv, SerialInv, NEW p \in Reqs, Writes(p), Continue(p)
    PROVE  \/ /\ local[p].sid \in ScenarioIds /\ local[p].idx \in Positions(local[p].sid)
              /\ Slot(p) = AdapterAt(local[p].sid, local[p].idx)
              /\ \E x \in AdapterRecord :
                    /\ Written(local[p].sid, local[p].idx, x)
                    /\ x.status \in {"stopped", Slot(p).status} \/ local[p].op = "launch"
              /\ ~ Finish(p)
           \/ /\ local[p].sid \in ScenarioIds /\ local[p].idx \in Positions(local[p].sid)
              /\ Vacated(local[p].sid, local[p].idx) /\ local[p].op = "deleteAdapter"
           \/ Finish(p)
<1> DEFINE l == local[p]
<1>1. l \in Local /\ l.op \in OpsAt(l.pc) /\ ~ At(p, "ready")
  BY ContinueCases, AtWork DEF Sound
<1>2. l.pc \in {"markRunning", "setUrl", "pokeStatus", "pokeUrl", "markStopped", "remove", "write"} =>
         /\ l.sid \in ScenarioIds /\ l.idx \in Positions(l.sid)
         /\ Slot(p) \in AdapterRecord /\ Slot(p) = AdapterAt(l.sid, l.idx)
  <2>1. l.pc \in {"markRunning", "setUrl", "pokeStatus", "pokeUrl", "markStopped", "remove", "write"} =>
           /\ l.op \in LoopOps \cup AdapterOps /\ l.pc \notin {"pick", "finish"}
    BY <1>1 DEF OpsAt, LoopOps, AdapterOps
  <2>2. QED
    BY <1>1, <2>1, AtWork DEF OnSlot, Slot
<1>3. CASE MarkRunning(p) \/ SetUrl(p) \/ WriteStatus(p) \/ WriteUrl(p)
  <2>1. /\ l.pc \in {"markRunning", "setUrl", "pokeStatus", "pokeUrl"}
        /\ l.op = "launch" /\ ~ Finish(p) /\ l.url \in Urls
    BY <1>1, <1>3 DEF MarkRunning, SetUrl, WriteStatus, WriteUrl, Finish, At, OpsAt, Local
  <2>2. \E x \in AdapterRecord : Written(l.sid, l.idx, x)
    <3>1. /\ WithStatus(Slot(p), "running") \in AdapterRecord
          /\ [Slot(p) EXCEPT !.url = l.url] \in AdapterRecord
          /\ [Slot(p) EXCEPT !.status = "running"] \in AdapterRecord
      BY <1>2, <2>1 DEF WithStatus, AdapterRecord, Statuses, Activity
    <3>2. QED
      BY <1>3, <3>1, WritesHome
  <2>3. QED
    BY <1>2, <2>1, <2>2
<1>4. CASE MarkStopped(p)
  <2>1. l.pc = "markStopped" /\ ~ Finish(p)
    BY <1>4 DEF MarkStopped, Finish, At
  <2>2. WithStatus(Slot(p), "stopped") \in AdapterRecord /\ WithStatus(Slot(p), "stopped").status = "stopped"
    BY <1>2, <2>1 DEF WithStatus, AdapterRecord, Statuses, Activity
  <2>3. QED
    BY <1>2, <1>4, <2>1, <2>2, WritesHome
<1>5. CASE RemoveAdapter(p)
  <2>1. l.pc = "remove" /\ l.op = "deleteAdapter"
    BY <1>1, <1>5 DEF RemoveAdapter, At, OpsAt
  <2>2. QED
    BY <1>2, <1>5, <2>1, WritesHome
<1>6. CASE Write(p)
  <2> DEFINE x == [Slot(p) EXCEPT !.name = IF l.name = Nil THEN @ ELSE l.name, !.key = l.key]
  <2>1. l.pc = "write" /\ ~ Finish(p) /\ l.name \in Names \cup {Nil} /\ l.key \in Keys
    BY <1>1, <1>6 DEF Write, Finish, At, Local
  <2>2. x \in AdapterRecord /\ x.status = Slot(p).status
    BY <1>2, <2>1 DEF AdapterRecord
  <2>3. Written(l.sid, l.idx, x)
    BY <1>6, WritesHome
  <2> HIDE DEF x
  <2>4. QED
    BY <1>2, <2>1, <2>2, <2>3
<1>7. QED
  BY <1>3, <1>4, <1>5, <1>6 DEF Writes

LEMMA ContinueVisible ==
    ASSUME SystemInv, SerialInv, VisibleInv, StoppedInv, NEW p \in Reqs, Continue(p)
    PROVE  VisibleInv'
<1> DEFINE l == local[p]
<1>1. StoreInv /\ ~ At(p, "ready") /\ OthersWait(p)
      /\ \A q \in Reqs \ {p} : local'[q].op = Nil /\ local[q].op = Nil
  BY ContinueCases, AtWork DEF SystemInv, HeapInv
<1>2. ~ Finish(p) => \A sid : Launching(sid) => Launching(sid)'
  <2>1. ASSUME NEW sid, ~ Finish(p), Launching(sid)
        PROVE  Launching(sid)'
    <3>1. l.op = "launch" /\ l.sid = sid
      BY <1>1, <2>1, ControlPlaneAssumption DEF Launching, AllOps
    <3>2. SameRequest(p)
      BY <2>1, <3>1, LoopEnds DEF LoopOps
    <3>3. QED
      BY <3>1, <3>2 DEF SameRequest, Launching
  <2>2. QED
    BY <2>1
<1>3. ASSUME NEW t \in ScenarioIds, NEW j \in Positions(t)',
             AdapterAt(t, j)'.status = "running"
      PROVE  Label(t)' = "running" \/ Launching(t)'
  <2>1. CASE UNCHANGED storeVars /\ ~ Finish(p)
    <3>1. j \in Positions(t) /\ AdapterAt(t, j)' = AdapterAt(t, j) /\ Label(t)' = Label(t)
      BY <2>1 DEF Positions, Holds, AdapterAt, Label, storeVars
    <3>2. QED
      BY <1>2, <1>3, <2>1, <3>1 DEF VisibleInv
  <2>2. ASSUME ~ Finish(p), l.sid \in ScenarioIds, l.idx \in Positions(l.sid),
               Slot(p) = AdapterAt(l.sid, l.idx),
               NEW x, Written(l.sid, l.idx, x),
               x.status \in {"stopped", Slot(p).status} \/ l.op = "launch"
        PROVE  Label(t)' = "running" \/ Launching(t)'
    <3>1. j \in Positions(t) /\ Holds(t) /\ Label(t)' = Label(t)
      BY <2>2, SamePositions DEF Written, Positions, SameLabels
    <3>2. AdapterAt(t, j)' = IF t = l.sid /\ j = l.idx THEN x ELSE AdapterAt(t, j)
      BY <2>2, <3>1 DEF Written
    <3>3. CASE AdapterAt(t, j).status = "running"
      BY <1>2, <2>2, <3>1, <3>3 DEF VisibleInv
    <3>4. CASE AdapterAt(t, j).status # "running"
      <4>1. t = l.sid /\ l.op = "launch"
        BY <1>3, <2>2, <3>2, <3>4
      <4>2. Launching(t)
        BY <4>1 DEF Launching
      <4>3. QED
        BY <1>2, <2>2, <4>2
    <3>5. QED
      BY <3>3, <3>4
  <2>3. ASSUME ~ Finish(p), l.sid \in ScenarioIds, l.idx \in Positions(l.sid),
               Vacated(l.sid, l.idx)
        PROVE  Label(t)' = "running" \/ Launching(t)'
    <3>1. /\ catalog'[t] = catalog[t] /\ Holds(t) /\ Label(t)' = Label(t)
          /\ j \in 1 .. Size(t)' /\ Size(t)' = IF t = l.sid THEN Size(t) - 1 ELSE Size(t)
      BY <2>3 DEF Vacated, SameLabels, Positions, Holds, Size
    <3>2. Size(t) \in Nat /\ Positions(t) = 1 .. Size(t)
      BY <1>1, <3>1, SlotFacts
    <3>3. PICK k \in Positions(t) : AdapterAt(t, j)' = AdapterAt(t, k)
      <4>1. (IF t = l.sid /\ j >= l.idx THEN j + 1 ELSE j) \in Positions(t)
        BY <3>1, <3>2
      <4>2. AdapterAt(t, j)' = AdapterAt(t, IF t = l.sid /\ j >= l.idx THEN j + 1 ELSE j)
        BY <2>3 DEF Vacated
      <4>3. QED
        BY <4>1, <4>2
    <3>4. QED
      BY <1>2, <1>3, <2>3, <3>1, <3>3 DEF VisibleInv
  <2>4. CASE Finish(p)
    <3>1. \/ /\ l.op \in {"launch", "stop"} /\ SameAdapters
             /\ \A s \in ScenarioIds : Holds(s) =>
                   Label(s)' = IF s # l.sid THEN Label(s)
                               ELSE IF l.op = "launch" THEN "running" ELSE "stopped"
          \/ l.op = "deleteScenario" /\ Dropped(l.sid)
      BY <2>4, FinishEffect
    <3>2. CASE l.op = "deleteScenario" /\ Dropped(l.sid)
      <4>1. j \in Positions(t) /\ AdapterAt(t, j)' = AdapterAt(t, j) /\ Label(t)' = Label(t)
        BY <3>2 DEF Dropped, Positions, Holds, AdapterAt, Label
      <4>2. ~ Launching(t)
        BY <1>1, <3>2, ControlPlaneAssumption DEF Launching, AllOps
      <4>3. QED
        BY <1>3, <4>1, <4>2 DEF VisibleInv
    <3>3. CASE l.op \in {"launch", "stop"} /\ SameAdapters
      <4>1. j \in Positions(t) /\ Holds(t) /\ AdapterAt(t, j)' = AdapterAt(t, j)
        BY <3>3, SamePositions DEF SameAdapters, Positions
      <4>2. CASE t # l.sid
        <5>1. ~ Launching(t)
          BY <1>1, <4>2, ControlPlaneAssumption DEF Launching, AllOps
        <5>2. Label(t)' = Label(t)
          BY <3>1, <3>3, <4>1, <4>2
        <5>3. QED
          BY <1>3, <4>1, <5>1, <5>2 DEF VisibleInv
      <4>3. CASE t = l.sid /\ l.op = "launch"
        BY <3>1, <3>3, <4>1, <4>3
      <4>4. CASE t = l.sid /\ l.op = "stop"
        <5>1. InStep(p) /\ l.pc = "finish" /\ l.op \in LoopOps
          BY <2>4, <4>4 DEF SerialInv, Finish, At, LoopOps
        <5>2. l.idx > Size(t) /\ Positions(t) = 1 .. Size(t) /\ Size(t) \in Nat
          BY <1>1, <4>1, <4>4, <5>1, SlotFacts DEF InStep
        <5>3. l.idx \in Nat
          BY <1>1, AtWork DEF Local
        <5>4. j < l.idx
          BY <4>1, <5>2, <5>3
        <5>5. AdapterAt(t, j).status = "stopped"
          BY <4>1, <4>4, <5>4 DEF StoppedInv
        <5>6. QED
          BY <1>3, <4>1, <5>5
      <4>5. QED
        BY <3>3, <4>2, <4>3, <4>4
    <3>4. QED
      BY <3>1, <3>2, <3>3
  <2>5. QED
    BY <2>1, <2>2, <2>3, <2>4, ContinueCases, StatusWrites
<1>4. QED
  BY <1>3 DEF VisibleInv

LEMMA ContinueStopped ==
    ASSUME SystemInv, SerialInv, StoppedInv, NEW p \in Reqs, Continue(p)
    PROVE  StoppedInv'
<1> DEFINE l == local[p]
<1>1. StoreInv /\ ~ At(p, "ready") /\ OthersWait(p)
      /\ \A q \in Reqs \ {p} : local'[q].op = Nil /\ local[q].op = Nil
  BY ContinueCases, AtWork DEF SystemInv, HeapInv
<1>2. ASSUME NEW q \in Reqs, NEW t \in ScenarioIds, local'[q].op = "stop",
             local'[q].sid = t, NEW i \in Positions(t)', i < local'[q].idx
      PROVE  AdapterAt(t, i)'.status = "stopped"
  <2>1. q = p /\ local'[p] # Ready
    BY <1>1, <1>2, ControlPlaneAssumption DEF AllOps, Ready
  <2>2. l.op = "stop" /\ l.sid = t
    BY <1>2, <2>1, ContinueOp DEF SameRequest
  <2>3. l.idx \in Nat
    BY <1>1, AtWork DEF Local
  <2>4. CASE UNCHANGED storeVars /\ local'[p].idx = l.idx
    <3>1. i \in Positions(t) /\ AdapterAt(t, i)' = AdapterAt(t, i)
      BY <2>4 DEF Positions, Holds, AdapterAt, storeVars
    <3>2. QED
      BY <1>2, <2>1, <2>2, <2>4, <3>1 DEF StoppedInv
  <2>5. CASE /\ UNCHANGED storeVars /\ local'[p].idx = l.idx + 1
             /\ l.idx \in Positions(l.sid) /\ Slot(p).status = "stopped"
    <3>1. i \in Positions(t) /\ AdapterAt(t, i)' = AdapterAt(t, i)
      BY <2>5 DEF Positions, Holds, AdapterAt, storeVars
    <3>2. i \in Nat
      BY <1>1, <3>1, SlotFacts DEF Positions
    <3>3. i < l.idx \/ i = l.idx
      BY <1>2, <2>1, <2>3, <2>5, <3>2
    <3>4. QED
      BY <2>2, <2>5, <3>1, <3>3 DEF StoppedInv, Slot
  <2>6. CASE /\ Written(l.sid, l.idx, WithStatus(Slot(p), "stopped"))
             /\ local'[p].idx = l.idx + 1 /\ l.idx \in Positions(l.sid)
    <3>1. i \in Positions(t)
      BY <2>6, SamePositions DEF Written
    <3>2. AdapterAt(t, i)' = IF t = l.sid /\ i = l.idx THEN WithStatus(Slot(p), "stopped")
                             ELSE AdapterAt(t, i)
      BY <2>6, <3>1 DEF Written
    <3>3. i \in Nat /\ Slot(p) \in AdapterRecord
      <4>1. i \in Nat
        BY <1>1, <3>1, SlotFacts DEF Positions
      <4>2. AdapterAt(t, l.idx) \in AdapterRecord
        BY <1>1, <2>2, <2>6, LookupFacts
      <4>3. QED
        BY <2>2, <4>1, <4>2 DEF Slot
    <3>4. i < l.idx \/ i = l.idx
      BY <1>2, <2>1, <2>3, <2>6, <3>3
    <3>5. WithStatus(Slot(p), "stopped").status = "stopped"
      BY <3>3 DEF WithStatus, AdapterRecord
    <3>6. QED
      BY <2>2, <3>1, <3>2, <3>4, <3>5 DEF StoppedInv
  <2>7. QED
    BY <2>1, <2>2, <2>4, <2>5, <2>6, StopMoves
<1>3. QED
  BY <1>2 DEF StoppedInv

(* Nobody is stopping or launching anything when a request begins.         *)
LEMMA VisibleStep ==
    ASSUME SystemInv, SerialInv, OneByOne, "idle" \notin Ops, VisibleInv, StoppedInv,
           [Next]_vars
    PROVE  VisibleInv'
<1>1. ASSUME NEW p \in Reqs, Begin(p)
      PROVE  VisibleInv'
  <2>1. Quiet /\ UNCHANGED storeVars
    BY <1>1, BeginEffect
  <2>2. \A q \in Reqs : local[q].op = Nil
    BY <2>1 DEF Quiet, At, SystemInv, LocalsInv, Sound, OpsAt, Processes
  <2>3. \A sid : ~ Launching(sid)
    BY <2>2, ControlPlaneAssumption DEF Launching, AllOps
  <2>4. ASSUME NEW t \in ScenarioIds, NEW j \in Positions(t)',
               AdapterAt(t, j)'.status = "running"
        PROVE  Label(t)' = "running"
    <3>1. j \in Positions(t) /\ AdapterAt(t, j)' = AdapterAt(t, j) /\ Label(t)' = Label(t)
      BY <2>1 DEF Positions, Holds, AdapterAt, Label, storeVars
    <3>2. QED
      BY <2>3, <2>4, <3>1 DEF VisibleInv
  <2>5. QED
    BY <2>4 DEF VisibleInv
<1>2. CASE Restart
  <2>1. \A sid \in ScenarioIds : Positions(sid)' = {}
    BY <1>2, WorldEffects
  <2>2. QED
    BY <2>1 DEF VisibleInv
<1>3. QED
  BY <1>1, <1>2, StepCases, CalmVisible, ContinueVisible

LEMMA StoppedStep ==
    ASSUME SystemInv, SerialInv, OneByOne, StoppedInv, [Next]_vars
    PROVE  StoppedInv'
<1>1. ASSUME NEW p \in Reqs, Begin(p)
      PROVE  StoppedInv'
  <2>1. /\ Quiet /\ UNCHANGED storeVars
        /\ \A q \in Processes \ {p} : local'[q] = local[q]
        /\ BeginsLoop(p) \/ BeginsAdapter(p) \/ BeginsCleanup(p)
    BY <1>1, BeginEffect
  <2>2. \A q \in Reqs : local[q].op = Nil
    BY <2>1 DEF Quiet, At, SystemInv, LocalsInv, Sound, OpsAt, Processes
  <2>3. ASSUME local'[p].op = "stop"
        PROVE  local'[p].idx = 1
    <3>1. BeginsLoop(p) => local'[p].idx = 1
      BY DEF BeginsLoop, Ready
    <3>2. BeginsAdapter(p) => local'[p].op \in AdapterOps
      BY DEF BeginsAdapter, Pointing, Ready
    <3>3. BeginsCleanup(p) => local'[p].op = "cleanup"
      BY DEF BeginsCleanup, Ready
    <3>4. QED
      BY <2>1, <2>3, <3>1, <3>2, <3>3 DEF AdapterOps
  <2>4. \A t \in ScenarioIds : \A i \in Positions(t)' : ~ (i < 1)
    <3>1. \A t \in ScenarioIds : Positions(t)' = Positions(t)
      BY <2>1 DEF Positions, Holds, storeVars
    <3>2. QED
      BY <3>1, SlotFacts DEF Positions, SystemInv, HeapInv
  <2>5. \A q \in Reqs \ {p} : local'[q].op # "stop"
    BY <2>1, <2>2, ControlPlaneAssumption DEF Processes, AllOps
  <2>6. QED
    BY <2>3, <2>4, <2>5 DEF StoppedInv
<1>2. CASE Restart
  <2>1. \A q \in Reqs : local'[q].op = Nil
    BY <1>2, WorldEffects DEF Ready, Processes
  <2>2. QED
    BY <2>1, ControlPlaneAssumption DEF StoppedInv, AllOps
<1>3. QED
  BY <1>1, <1>2, StepCases, SurroundedStopped, ContinueStopped

LEMMA InitVisible == ASSUME Init PROVE VisibleInv /\ StoppedInv
<1>1. \A sid \in ScenarioIds : Positions(sid) = {}
  BY DEF Init, StoreInit, Holds, Positions
<1>2. QED
  BY <1>1 DEF VisibleInv, StoppedInv

(* What a stop got past stays stopped: whatever else stops adapters in the *)
(* meantime, nothing launches them.                                        *)
THEOREM StoppedInvariant == ASSUME OneByOne PROVE Spec => []StoppedInv
<1>1. Init => StoppedInv
  BY InitVisible
<1>2. SystemInv /\ SerialInv /\ StoppedInv /\ [Next]_vars => StoppedInv'
  BY StoppedStep
<1>3. QED
  BY <1>1, <1>2, SystemInvariant, Serial, PTL DEF Spec

(* Where a running adapter may be while a request is on its way: in a      *)
(* scenario that is running, or one whose launch is not yet at its end.    *)
THEOREM VisibleInvariant == ASSUME OneByOne, "idle" \notin Ops PROVE Spec => []VisibleInv
<1>1. Init => VisibleInv
  BY InitVisible
<1>2. SystemInv /\ SerialInv /\ VisibleInv /\ StoppedInv /\ [Next]_vars => VisibleInv'
  BY VisibleStep
<1>3. QED
  BY <1>1, <1>2, SystemInvariant, Serial, StoppedInvariant, PTL DEF Spec

(* If requests come one at a time and there is no idle check, no running   *)
(* adapter is in a scenario that is shown as stopped, where the Stop       *)
(* button and the dashboard would pass it over.                            *)
THEOREM RunningAdaptersAreVisible ==
    ASSUME OneByOne, "idle" \notin Ops PROVE Spec => []RunningVisible
<1>1. SystemInv /\ VisibleInv => RunningVisible
  <2>1. ASSUME SystemInv, VisibleInv, Quiet
        PROVE  EveryAdapter(Visible)
    <3>1. \A q \in Reqs : local[q].op = Nil
      BY <2>1 DEF Quiet, At, SystemInv, LocalsInv, Sound, OpsAt, Processes
    <3>2. \A sid : ~ Launching(sid)
      BY <3>1, ControlPlaneAssumption DEF Launching, AllOps
    <3>3. QED
      BY <2>1, <3>2 DEF VisibleInv, EveryAdapter, Visible, Scenarios, Label
  <2>2. QED
    BY <2>1 DEF RunningVisible
<1>2. QED
  BY <1>1, VisibleInvariant, SystemInvariant, PTL

(* A request that is completed was at its last step, unless the process    *)
(* died.                                                                   *)
LEMMA CompletingFinishes ==
    ASSUME SystemInv, SerialInv, OneByOne, [Next]_vars, NEW p \in Reqs,
           At(p, "finish"), At(p, "ready")'
    PROVE  Restart \/ (Continue(p) /\ Finish(p))
<1>1. CASE Surroundings
  BY <1>1, SurroundingsEffect DEF At
<1>2. ASSUME NEW q \in Reqs, Begin(q)
      PROVE  FALSE
  BY <1>2, BeginEffect DEF Quiet, At
<1>3. ASSUME NEW q \in Reqs, Continue(q)
      PROVE  q = p
  BY <1>3, ContinueCases DEF OthersWait, At
<1>4. Continue(p) => Finish(p)
  <2>1. ASSUME Continue(p)
        PROVE  Finish(p) \/ SweepTheRest(p) \/ Pick(p)
    BY <2>1 DEF Continue, CreateDeployment, CreateService, Expose, MarkRunning, SetUrl,
                WriteStatus, WriteUrl, Check, Scale, MarkStopped, RemoveDeployment,
                RemoveService, Reread, RemoveRule, RemoveAdapter, ReadKey, Write, At
  <2>2. ~ SweepTheRest(p) /\ ~ Pick(p)
    BY DEF SweepTheRest, Pick, At
  <2>3. QED
    BY <2>1, <2>2
<1>5. QED
  BY <1>1, <1>2, <1>3, <1>4, StepCases

(* A stop that is completed has stopped every adapter of its scenario, if  *)
(* requests come one at a time, also where the idle check runs beside it.  *)
THEOREM StopsStopAll == ASSUME OneByOne PROVE Spec => StopStopsAll
<1> DEFINE All == \A p \in Reqs, sid \in ScenarioIds :
                     Completes(p, "stop", sid) => StatusesOf(sid)' \subseteq {"stopped"}
<1>1. SystemInv /\ SerialInv /\ StoppedInv /\ [Next]_vars => All
  <2>1. ASSUME SystemInv, SerialInv, StoppedInv, [Next]_vars, NEW p \in Reqs,
               NEW sid \in ScenarioIds, Completes(p, "stop", sid),
               NEW i \in Positions(sid)'
        PROVE  AdapterAt(sid, i)'.status = "stopped"
    <3>1. /\ local[p].op = "stop" /\ local[p].sid = sid
          /\ Restart \/ (Continue(p) /\ Finish(p))
      BY <2>1, CompletingFinishes DEF Completes
    <3>2. Continue(p) /\ Finish(p)
      BY <2>1, <3>1, WorldEffects
    <3>3. SameAdapters
      BY <2>1, <3>1, <3>2, FinishEffect
    <3>4. i \in Positions(sid) /\ Holds(sid) /\ AdapterAt(sid, i)' = AdapterAt(sid, i)
      BY <3>3, SamePositions DEF SameAdapters, Positions
    <3>5. InStep(p) /\ local[p].pc = "finish" /\ local[p].op \in LoopOps
      BY <2>1, <3>1 DEF SerialInv, Completes, At, LoopOps
    <3>6. local[p].idx > Size(sid) /\ Positions(sid) = 1 .. Size(sid) /\ Size(sid) \in Nat
      BY <2>1, <3>1, <3>4, <3>5, SlotFacts DEF InStep, SystemInv, HeapInv
    <3>7. local[p].idx \in Nat
      BY <2>1 DEF SystemInv, LocalsInv, Local, Processes
    <3>8. i < local[p].idx
      BY <3>4, <3>6, <3>7
    <3>9. QED
      BY <2>1, <3>1, <3>4, <3>8 DEF StoppedInv
  <2>2. QED
    BY <2>1 DEF StatusesOf
<1>2. All => [All]_vars
  OBVIOUS
<1>3. QED
  BY <1>1, <1>2, SystemInvariant, Serial, StoppedInvariant, PTL DEF Spec, StopStopsAll

-----------------------------------------------------------------------------
(* What a launch has done.                                                 *)

(* Local containers need no call to the cluster that might fail, so what a *)
(* launch got past, or has marked, is running.                             *)
Marked == {"setUrl", "pokeStatus", "pokeUrl"}

LaunchedInv ==
    \A p \in Reqs, sid \in ScenarioIds :
        local[p].op = "launch" /\ local[p].sid = sid =>
           /\ local[p].pc \notin {"createDeployment", "createService", "expose"}
           /\ \A i \in Positions(sid) :
                 i < local[p].idx \/ (i = local[p].idx /\ local[p].pc \in Marked) =>
                    AdapterAt(sid, i).status = "running"

LEMMA LocalLaunchMoves ==
    ASSUME SystemInv, SerialInv, LocalMode, LaunchedInv, NEW p \in Reqs, Continue(p),
           local[p].op = "launch"
    PROVE  \/ Finish(p) /\ local'[p] = Ready
           \/ /\ UNCHANGED storeVars /\ SameRequest(p)
              /\ \/ local'[p].idx = local[p].idx /\ local'[p].pc \in {"finish", "markRunning"}
                 \/ /\ local'[p].idx = local[p].idx + 1 /\ local'[p].pc = "pick"
                    /\ local[p].idx \in Positions(local[p].sid)
                    /\ Slot(p).status = "running"
           \/ /\ \E x : Written(local[p].sid, local[p].idx, x) /\ x.status = "running"
              /\ local[p].idx \in Positions(local[p].sid) /\ SameRequest(p)
              /\ \/ local'[p].idx = local[p].idx /\ local'[p].pc \in Marked
                 \/ local'[p].idx = local[p].idx + 1 /\ local'[p].pc = "pick"
<1> DEFINE l == local[p]
<1>1. /\ l.op \in OpsAt(l.pc) /\ l.sid \in ScenarioIds /\ ~ At(p, "ready")
      /\ l.pc \notin {"pick", "finish"} =>
            /\ l.idx \in Positions(l.sid) /\ Slot(p) \in AdapterRecord
            /\ Slot(p) = AdapterAt(l.sid, l.idx)
  BY ContinueCases, AtWork DEF Sound, LoopOps, OnSlot, Slot
<1>2. l.pc \notin {"createDeployment", "createService", "expose"}
  BY <1>1 DEF LaunchedInv
<1>3. l.pc \in Marked => Slot(p).status = "running"
  BY <1>1 DEF LaunchedInv, Marked
<1>4. Pick(p) \/ MarkRunning(p) \/ SetUrl(p) \/ WriteStatus(p) \/ WriteUrl(p) \/ Finish(p)
  BY <1>1, <1>2 DEF Continue, CreateDeployment, CreateService, Expose, MarkStopped, Scale,
              Check, RemoveDeployment, RemoveService, Reread,
              RemoveRule, RemoveAdapter, ReadKey, Write, SweepTheRest, At, OpsAt, AdapterOps
<1>5. CASE Pick(p)
  <2>1. /\ UNCHANGED storeVars
        /\ \/ Goes(p, "finish")
           \/ Takes(p, "markRunning")
           \/ /\ Advances(p) /\ l.idx \in Positions(l.sid)
              /\ ~ Wanted("launch", Slot(p)) /\ Slot(p) \in AdapterRecord
    <3>1. FirstStep("launch") = "markRunning"
      BY DEF FirstStep
    <3>2. QED
      BY <1>5, <3>1, PickEffect
  <2>2. ~ Wanted("launch", Slot(p)) /\ Slot(p) \in AdapterRecord => Slot(p).status = "running"
    BY DEF Wanted, AdapterRecord, Statuses
  <2>3. QED
    BY <2>1, <2>2, MovesTo
<1>6. CASE MarkRunning(p)
  <2>1. l.pc = "markRunning" /\ Goes(p, "setUrl")
        /\ Written(l.sid, l.idx, WithStatus(Slot(p), "running"))
    BY <1>6, WritesHome, LaunchEffects DEF MarkRunning, At
  <2>2. WithStatus(Slot(p), "running").status = "running"
    BY <1>1, <2>1 DEF WithStatus, AdapterRecord
  <2>3. SameRequest(p) /\ local'[p].idx = l.idx /\ local'[p].pc \in Marked
    BY <2>1, MovesTo DEF Marked
  <2>4. QED
    BY <1>1, <2>1, <2>2, <2>3
<1>7. CASE SetUrl(p)
  <2>1. l.pc = "setUrl" /\ Goes(p, "pokeStatus")
        /\ Written(l.sid, l.idx, [Slot(p) EXCEPT !.url = l.url])
    BY <1>7, WritesHome, LaunchEffects DEF SetUrl, At
  <2>2. [Slot(p) EXCEPT !.url = l.url].status = "running"
    BY <1>1, <1>3, <2>1 DEF AdapterRecord, Marked
  <2>3. SameRequest(p) /\ local'[p].idx = l.idx /\ local'[p].pc \in Marked
    BY <2>1, MovesTo DEF Marked
  <2>4. QED
    BY <1>1, <2>1, <2>2, <2>3
<1>8. CASE WriteStatus(p)
  <2>1. l.pc = "pokeStatus" /\ Goes(p, "pokeUrl")
        /\ Written(l.sid, l.idx, [Slot(p) EXCEPT !.status = "running"])
    BY <1>8, WritesHome, LaunchEffects DEF WriteStatus, At
  <2>2. [Slot(p) EXCEPT !.status = "running"].status = "running"
    BY <1>1, <2>1 DEF AdapterRecord
  <2>3. SameRequest(p) /\ local'[p].idx = l.idx /\ local'[p].pc \in Marked
    BY <2>1, MovesTo DEF Marked
  <2>4. QED
    BY <1>1, <2>1, <2>2, <2>3
<1>9. CASE WriteUrl(p)
  <2>1. l.pc = "pokeUrl" /\ Advances(p)
        /\ Written(l.sid, l.idx, [Slot(p) EXCEPT !.url = l.url])
    BY <1>9, WritesHome, LaunchEffects DEF WriteUrl, At
  <2>2. [Slot(p) EXCEPT !.url = l.url].status = "running"
    BY <1>1, <1>3, <2>1 DEF AdapterRecord, Marked
  <2>3. SameRequest(p) /\ local'[p].idx = l.idx + 1 /\ local'[p].pc = "pick"
    BY <2>1, MovesTo
  <2>4. QED
    BY <1>1, <2>1, <2>2, <2>3
<1>10. CASE Finish(p)
  BY <1>10, OtherEffects
<1>11. QED
  BY <1>4, <1>5, <1>6, <1>7, <1>8, <1>9, <1>10

LEMMA ContinueLaunched ==
    ASSUME SystemInv, SerialInv, LocalMode, LaunchedInv, NEW p \in Reqs, Continue(p)
    PROVE  LaunchedInv'
<1> DEFINE l == local[p]
           m == local'[p]
<1>1. StoreInv /\ ~ At(p, "ready") /\ l.idx \in Nat
      /\ \A q \in Reqs \ {p} : local'[q].op = Nil /\ local[q].op = Nil
  BY ContinueCases, AtWork DEF SystemInv, HeapInv, Local
<1>2. ASSUME NEW q \in Reqs, NEW t \in ScenarioIds, local'[q].op = "launch", local'[q].sid = t
      PROVE  /\ local'[q].pc \notin {"createDeployment", "createService", "expose"}
             /\ \A i \in Positions(t)' :
                   i < local'[q].idx \/ (i = local'[q].idx /\ local'[q].pc \in Marked) =>
                      AdapterAt(t, i)'.status = "running"
  <2>1. q = p /\ m # Ready
    BY <1>1, <1>2, ControlPlaneAssumption DEF AllOps, Ready
  <2>2. l.op = "launch" /\ l.sid = t
    BY <1>2, <2>1, ContinueOp DEF SameRequest
  <2>3. CASE /\ UNCHANGED storeVars
             /\ \/ m.idx = l.idx /\ m.pc \in {"finish", "markRunning"}
                \/ /\ m.idx = l.idx + 1 /\ m.pc = "pick"
                   /\ l.idx \in Positions(l.sid) /\ Slot(p).status = "running"
    <3>1. ASSUME NEW i \in Positions(t)',
                 i < m.idx \/ (i = m.idx /\ m.pc \in Marked)
          PROVE  AdapterAt(t, i)'.status = "running"
      <4>1. i \in Positions(t) /\ AdapterAt(t, i)' = AdapterAt(t, i)
        BY <2>3 DEF Positions, Holds, AdapterAt, storeVars
      <4>2. i \in Nat
        BY <1>1, <4>1, SlotFacts DEF Positions
      <4>3. CASE i < l.idx
        BY <2>2, <4>1, <4>3 DEF LaunchedInv
      <4>4. CASE ~ (i < l.idx)
        <5>1. i = l.idx /\ Slot(p).status = "running"
          BY <1>1, <2>3, <3>1, <4>2, <4>4 DEF Marked
        <5>2. QED
          BY <2>2, <4>1, <5>1 DEF Slot
      <4>5. QED
        BY <4>3, <4>4
    <3>2. QED
      BY <2>1, <2>3, <3>1
  <2>4. ASSUME NEW x, Written(l.sid, l.idx, x), x.status = "running",
               l.idx \in Positions(l.sid),
               \/ m.idx = l.idx /\ m.pc \in Marked
               \/ m.idx = l.idx + 1 /\ m.pc = "pick"
        PROVE  /\ m.pc \notin {"createDeployment", "createService", "expose"}
               /\ \A i \in Positions(t)' : i < m.idx \/ (i = m.idx /\ m.pc \in Marked) =>
                     AdapterAt(t, i)'.status = "running"
    <3>1. ASSUME NEW i \in Positions(t)',
                 i < m.idx \/ (i = m.idx /\ m.pc \in Marked)
          PROVE  AdapterAt(t, i)'.status = "running"
      <4>1. i \in Positions(t)
        BY <2>4, SamePositions DEF Written
      <4>2. AdapterAt(t, i)' = IF i = l.idx THEN x ELSE AdapterAt(t, i)
        BY <2>2, <2>4, <4>1 DEF Written
      <4>3. i \in Nat
        BY <1>1, <4>1, SlotFacts DEF Positions
      <4>4. i < l.idx \/ i = l.idx
        BY <1>1, <2>4, <3>1, <4>3 DEF Marked
      <4>5. QED
        BY <2>2, <2>4, <4>1, <4>2, <4>4 DEF LaunchedInv
    <3>2. QED
      BY <2>4, <3>1 DEF Marked
  <2>5. QED
    BY <2>1, <2>2, <2>3, <2>4, LocalLaunchMoves
<1>3. QED
  BY <1>2 DEF LaunchedInv

LEMMA LaunchedStep ==
    ASSUME SystemInv, SerialInv, OneByOne, LocalMode, "idle" \notin Ops, LaunchedInv,
           [Next]_vars
    PROVE  LaunchedInv'
<1>1. ASSUME NEW p \in Reqs, Begin(p)
      PROVE  LaunchedInv'
  <2>1. /\ Quiet /\ UNCHANGED storeVars
        /\ \A q \in Processes \ {p} : local'[q] = local[q]
        /\ BeginsLoop(p) \/ BeginsAdapter(p) \/ BeginsCleanup(p)
    BY <1>1, BeginEffect
  <2>2. \A q \in Reqs \ {p} : local'[q].op # "launch"
    BY <2>1, ControlPlaneAssumption
       DEF Quiet, At, SystemInv, LocalsInv, Sound, OpsAt, Processes, AllOps
  <2>3. ASSUME local'[p].op = "launch"
        PROVE  local'[p].idx = 1 /\ local'[p].pc = "pick"
    <3>1. BeginsLoop(p) => local'[p].idx = 1 /\ local'[p].pc = "pick"
      BY DEF BeginsLoop, Ready
    <3>2. BeginsAdapter(p) => local'[p].op \in AdapterOps
      BY DEF BeginsAdapter, Pointing, Ready
    <3>3. BeginsCleanup(p) => local'[p].op = "cleanup"
      BY DEF BeginsCleanup, Ready
    <3>4. QED
      BY <2>1, <2>3, <3>1, <3>2, <3>3 DEF AdapterOps
  <2>4. \A t \in ScenarioIds : \A i \in Positions(t)' : ~ (i < 1)
    <3>1. \A t \in ScenarioIds : Positions(t)' = Positions(t)
      BY <2>1 DEF Positions, Holds, storeVars
    <3>2. QED
      BY <3>1, SlotFacts DEF Positions, SystemInv, HeapInv
  <2>5. QED
    BY <2>2, <2>3, <2>4 DEF LaunchedInv, Marked
<1>2. CASE Restart
  <2>1. \A q \in Reqs : local'[q].op = Nil
    BY <1>2, WorldEffects DEF Ready, Processes
  <2>2. QED
    BY <2>1, ControlPlaneAssumption DEF LaunchedInv, AllOps
<1>3. CASE Surroundings
  <2>1. /\ \A q \in Reqs : local'[q] = local[q]
        /\ Untouched \/ Quiet
    BY <1>3, CalmSurroundings
  <2>2. CASE Quiet
    BY <2>1, <2>2, ControlPlaneAssumption
       DEF Quiet, At, SystemInv, LocalsInv, Sound, OpsAt, Processes, AllOps, LaunchedInv
  <2>3. CASE Untouched
    <3>1. \A t \in ScenarioIds : Positions(t)' = Positions(t)
      BY <2>3, SamePositions DEF Untouched
    <3>2. \A t \in ScenarioIds : \A i \in Positions(t) :
             AdapterAt(t, i)'.status = AdapterAt(t, i).status
      BY <2>3 DEF Untouched, Same
    <3>3. QED
      BY <2>1, <3>1, <3>2 DEF LaunchedInv
  <2>4. QED
    BY <2>1, <2>2, <2>3
<1>4. QED
  BY <1>1, <1>2, <1>3, StepCases, ContinueLaunched

(* In local mode a launch that is completed has launched every adapter of  *)
(* its scenario, if requests come one at a time.  (In the cluster it may   *)
(* not have, as the run MCRelaunch shows.)                                 *)
THEOREM LocalLaunchesLaunchAll ==
    ASSUME OneByOne, LocalMode, "idle" \notin Ops PROVE Spec => LaunchLaunchesAll
<1> DEFINE All == \A p \in Reqs, sid \in ScenarioIds :
                     Completes(p, "launch", sid) => StatusesOf(sid)' \subseteq {"running"}
<1>1. Init => LaunchedInv
  BY ControlPlaneAssumption DEF Init, Ready, LaunchedInv, Processes, AllOps
<1>2. SystemInv /\ SerialInv /\ LaunchedInv /\ [Next]_vars => LaunchedInv'
  BY LaunchedStep
<1>3. Spec => []LaunchedInv
  BY <1>1, <1>2, SystemInvariant, Serial, PTL DEF Spec
<1>4. SystemInv /\ SerialInv /\ LaunchedInv /\ [Next]_vars => All
  <2>1. ASSUME SystemInv, SerialInv, LaunchedInv, [Next]_vars, NEW p \in Reqs,
               NEW sid \in ScenarioIds, Completes(p, "launch", sid),
               NEW i \in Positions(sid)'
        PROVE  AdapterAt(sid, i)'.status = "running"
    <3>1. /\ local[p].op = "launch" /\ local[p].sid = sid
          /\ Restart \/ (Continue(p) /\ Finish(p))
      BY <2>1, CompletingFinishes DEF Completes
    <3>2. Continue(p) /\ Finish(p)
      BY <2>1, <3>1, WorldEffects
    <3>3. SameAdapters
      BY <2>1, <3>1, <3>2, FinishEffect
    <3>4. i \in Positions(sid) /\ Holds(sid) /\ AdapterAt(sid, i)' = AdapterAt(sid, i)
      BY <3>3, SamePositions DEF SameAdapters, Positions
    <3>5. InStep(p) /\ local[p].pc = "finish" /\ local[p].op \in LoopOps
      BY <2>1, <3>1 DEF SerialInv, Completes, At, LoopOps
    <3>6. local[p].idx > Size(sid) /\ Positions(sid) = 1 .. Size(sid) /\ Size(sid) \in Nat
      BY <2>1, <3>1, <3>4, <3>5, SlotFacts DEF InStep, SystemInv, HeapInv
    <3>7. local[p].idx \in Nat
      BY <2>1 DEF SystemInv, LocalsInv, Local, Processes
    <3>8. i < local[p].idx
      BY <3>4, <3>6, <3>7
    <3>9. QED
      BY <2>1, <3>1, <3>4, <3>8 DEF LaunchedInv
  <2>2. QED
    BY <2>1 DEF StatusesOf
<1>5. All => [All]_vars
  OBVIOUS
<1>6. QED
  BY <1>3, <1>4, <1>5, SystemInvariant, Serial, PTL DEF Spec, LaunchLaunchesAll

-----------------------------------------------------------------------------
(* What the idle check spares.                                             *)

(* A slice of the scenario, from the i-th to the n-th slot, still shows    *)
(* the adapter: where the scenario has it now, or, in an array that the    *)
(* scenario has outgrown, as it was when it was in use.                    *)
Shows(sid, a, n, i, id) ==
    \E k \in i .. n :
        IF a = Arr(sid)
        THEN k \in Positions(sid) /\ AdapterAt(sid, k).id = id
        ELSE /\ a \in Arrays /\ k \in 1 .. Len(array[a]) /\ array[a][k] # Nil
             /\ array[a][k].id = id
             /\ array[a][k].status = "running" /\ array[a][k].last = "recent"

(* The slices, or the rest of one, that the check has yet to look at.      *)
Ahead(sid, a, n, i) ==
    LET l == local[Idle]
    IN  \/ i = 1 /\ [sid |-> sid, arr |-> a, len |-> n] \in snapshot
        \/ l.pc = "examine" /\ l.sid = sid /\ l.arr = a /\ l.len = n /\ l.idx = i

Stopping == local[Idle].pc \in {"pick", "scale", "markStopped", "finish"}

(* What was in use when the check began, and still is, is ahead of it and  *)
(* not among what it stops.                                                *)
SpareInv ==
    /\ steady \subseteq InUseNow
    /\ \A id \in steady : \A sid \in ScenarioIds : id[1] = sid =>
          /\ \A a, n, i : Ahead(sid, a, n, i) => Shows(sid, a, n, i, id)
          /\ ~ (Stopping /\ local[Idle].sid = sid)
    /\ local[Idle].pc \in {"scale", "markStopped"} =>
          \E sid \in ScenarioIds : local[Idle].sid = sid /\ local[Idle].aid[1] = sid

(* What no scenario has for its array is left alone; and a scenario that   *)
(* outgrows its array leaves that as it was.                               *)
Stays(a) == \A k \in 1 .. Len(array[a]) : k \in 1 .. Len(array'[a]) /\ array'[a][k] = array[a][k]

ArraysStay ==
    /\ \A a \in Arrays :
          array[a] # <<>> /\ (\A t \in ScenarioIds : Holds(t) => Arr(t) # a) => Stays(a)
    /\ \A t \in ScenarioIds : Holds(t) /\ Holds(t)' =>
          \/ Arr(t)' = Arr(t)
          \/ array[Arr(t)'] = <<>> /\ (Arr(t) \in Arrays => Stays(Arr(t)))

LEMMA UnwrittenStays ==
    ASSUME UNCHANGED array,
           \A t \in ScenarioIds : Holds(t) /\ Holds(t)' => Arr(t)' = Arr(t)
    PROVE  ArraysStay
BY DEF ArraysStay, Stays

LEMMA SlotWriteStays ==
    ASSUME StoreInv, NEW sid \in ScenarioIds, NEW i \in Positions(sid),
           NEW x \in AdapterRecord, SetSlot(catalog[sid], i, x)
    PROVE  ArraysStay
<1>1. /\ Holds(sid) /\ catalog[sid] \in Objects /\ object[catalog[sid]] # Nil
      /\ i \in 1 .. object[catalog[sid]].len
  BY LookupFacts
<1>2. /\ UNCHANGED <<catalog, object>>
      /\ \A b \in Arrays :
            /\ Len(array'[b]) = Len(array[b])
            /\ \A k \in 1 .. Len(array[b]) : b # Arr(sid) => array'[b][k] = array[b][k]
  BY <1>1, SetSlotEffect DEF Arr
<1>3. \A t \in ScenarioIds : Arr(t)' = Arr(t)
  BY <1>2 DEF Arr
<1>4. QED
  BY <1>1, <1>2, <1>3 DEF ArraysStay, Stays

(* The methods that write a slot.                                          *)
LEMMA MethodsStay ==
    ASSUME StoreInv, NEW sid \in ScenarioIds, NEW id
    PROVE  /\ \A status \in Statuses : UpdateAdapterStatus(sid, id, status) => ArraysStay
           /\ \A url \in Urls : UpdateAdapterIngressURL(sid, id, url) => ArraysStay
           /\ \A name \in Names \cup {Nil}, key \in Keys :
                 UpdateAdapter(sid, id, name, key) => ArraysStay
           /\ RecordAdapterActivity(id) => ArraysStay
<1>1. UNCHANGED storeVars => ArraysStay
  BY UnwrittenStays DEF storeVars, Arr
<1>2. ASSUME NEW t \in ScenarioIds, NEW i \in Positions(t)
      PROVE  /\ AdapterAt(t, i) \in AdapterRecord
             /\ \A x \in AdapterRecord : SetSlot(catalog[t], i, x) => ArraysStay
  BY LookupFacts, SlotWriteStays
<1>3. \A status \in Statuses : UpdateAdapterStatus(sid, id, status) => ArraysStay
  <2>1. ASSUME NEW status \in Statuses, NEW i \in Positions(sid)
        PROVE  WithStatus(AdapterAt(sid, i), status) \in AdapterRecord
    BY <1>2 DEF WithStatus, AdapterRecord, Activity
  <2>2. QED
    BY <1>1, <1>2, <2>1 DEF UpdateAdapterStatus
<1>4. \A url \in Urls : UpdateAdapterIngressURL(sid, id, url) => ArraysStay
  <2>1. ASSUME NEW url \in Urls, NEW i \in Positions(sid)
        PROVE  [AdapterAt(sid, i) EXCEPT !.url = url] \in AdapterRecord
    BY <1>2 DEF AdapterRecord
  <2>2. QED
    BY <1>1, <1>2, <2>1 DEF UpdateAdapterIngressURL
<1>5. \A name \in Names \cup {Nil}, key \in Keys :
         UpdateAdapter(sid, id, name, key) => ArraysStay
  <2>1. ASSUME NEW name \in Names \cup {Nil}, NEW key \in Keys, NEW i \in Positions(sid)
        PROVE  [AdapterAt(sid, i) EXCEPT
                   !.name = IF name = Nil THEN @ ELSE name, !.key = key] \in AdapterRecord
    BY <1>2 DEF AdapterRecord
  <2>2. QED
    BY <1>1, <1>2, <2>1 DEF UpdateAdapter
<1>6. RecordAdapterActivity(id) => ArraysStay
  <2>1. ASSUME NEW t \in ScenarioIds, NEW i \in Positions(t)
        PROVE  [AdapterAt(t, i) EXCEPT !.last = "recent"] \in AdapterRecord
    BY <1>2 DEF AdapterRecord, Activity
  <2>2. QED
    BY <1>1, <1>2, <2>1 DEF RecordAdapterActivity
<1>7. QED
  BY <1>3, <1>4, <1>5, <1>6

LEMMA RelabelsStay ==
    ASSUME StoreInv, NEW sid \in ScenarioIds,
           \/ UpdateScenario(sid) \/ DeleteScenario(sid)
           \/ \E status : UpdateScenarioStatus(sid, status)
    PROVE  ArraysStay
<1>1. UNCHANGED array
  BY DEF UpdateScenario, DeleteScenario, UpdateScenarioStatus
<1>2. ASSUME NEW t \in ScenarioIds, Holds(t), Holds(t)'
      PROVE  Arr(t)' = Arr(t)
  <2>1. /\ object[catalog[t]] \in ScenarioStruct /\ catalog[t] \in Objects
        /\ object \in [Objects -> ScenarioStruct \cup {Nil}]
    BY <1>2, SlotFacts, SliceFacts DEF StoreInv, StoreTypeOK
  <2>2. CASE DeleteScenario(sid)
    <3>1. UNCHANGED object /\ catalog'[t] = catalog[t]
      BY <1>2, <2>2 DEF DeleteScenario, Holds, StoreInv, StoreTypeOK
    <3>2. QED
      BY <3>1 DEF Arr
  <2>3. CASE UpdateScenario(sid)
    <3> DEFINE o == catalog[sid]
    <3>1. UNCHANGED catalog
      BY <2>3 DEF UpdateScenario
    <3>2. CASE ~ Holds(sid)
      BY <2>3, <3>1, <3>2 DEF UpdateScenario, Arr
    <3>3. CASE Holds(sid)
      <4>1. o \in Objects /\ object[o] \in ScenarioStruct
        BY <3>3, SlotFacts, SliceFacts DEF StoreInv, StoreTypeOK
      <4>2. object' = [object EXCEPT ![o].name = "edited"]
        BY <2>3, <3>3 DEF UpdateScenario
      <4>3. object'[o].arr = object[o].arr
        BY <2>1, <4>1, <4>2 DEF ScenarioStruct
      <4>4. \A q \in Objects : q # o => object'[q] = object[q]
        BY <2>1, <4>1, <4>2
      <4>5. QED
        BY <2>1, <3>1, <4>3, <4>4 DEF Arr
    <3>4. QED
      BY <3>2, <3>3
  <2>4. CASE \E status : UpdateScenarioStatus(sid, status)
    <3> DEFINE o == catalog[sid]
    <3>1. PICK status : UpdateScenarioStatus(sid, status)
      BY <2>4
    <3>2. UNCHANGED catalog
      BY <3>1 DEF UpdateScenarioStatus
    <3>3. CASE ~ Holds(sid)
      BY <3>1, <3>2, <3>3 DEF UpdateScenarioStatus, Arr
    <3>4. CASE Holds(sid)
      <4>1. o \in Objects /\ object[o] \in ScenarioStruct
        BY <3>4, SlotFacts, SliceFacts DEF StoreInv, StoreTypeOK
      <4>2. object' = [object EXCEPT ![o].status = status]
        BY <3>1, <3>4 DEF UpdateScenarioStatus
      <4>3. object'[o].arr = object[o].arr
        BY <2>1, <4>1, <4>2 DEF ScenarioStruct
      <4>4. \A q \in Objects : q # o => object'[q] = object[q]
        BY <2>1, <4>1, <4>2
      <4>5. QED
        BY <2>1, <3>2, <4>3, <4>4 DEF Arr
    <3>5. QED
      BY <3>3, <3>4
  <2>5. QED
    BY <2>2, <2>3, <2>4
<1>3. QED
  BY <1>1, <1>2, UnwrittenStays

LEMMA RemovalStays ==
    ASSUME StoreInv, NEW sid \in ScenarioIds, NEW id, DeleteAdapter(sid, id)
    PROVE  ArraysStay
<1>1. CASE UNCHANGED storeVars
  BY <1>1, UnwrittenStays DEF storeVars, Arr
<1>2. CASE ~ UNCHANGED storeVars
  <2> DEFINE o == catalog[sid]
             n == object[o].len
  <2>1. PICK i \in Positions(sid) : TakenOut(sid, id, i)
    BY <1>2, DeleteAdapterEffect
  <2>2. /\ UNCHANGED catalog /\ o \in Objects /\ object[o] # Nil /\ Holds(sid)
        /\ object' = [object EXCEPT ![o] = [object[o] EXCEPT !.len = n - 1]]
        /\ \A b \in Arrays :
              /\ Len(array'[b]) = Len(array[b])
              /\ \A k \in 1 .. Len(array[b]) : b # Arr(sid) => array'[b][k] = array[b][k]
    BY <2>1, LookupFacts DEF TakenOut, Arr
  <2>3. \A t \in ScenarioIds : Holds(t) => Arr(t)' = Arr(t)
    <3>1. object \in [Objects -> ScenarioStruct \cup {Nil}] /\ object[o] \in ScenarioStruct
      BY <2>2, SliceFacts DEF StoreInv, StoreTypeOK
    <3>2. object'[o].arr = object[o].arr /\ \A q \in Objects : q # o => object'[q] = object[q]
      BY <2>2, <3>1 DEF ScenarioStruct
    <3>3. \A t \in ScenarioIds : Holds(t) => catalog[t] \in Objects
      BY SlotFacts
    <3>4. QED
      BY <2>2, <3>2, <3>3 DEF Arr
  <2>4. QED
    BY <2>2, <2>3 DEF ArraysStay, Stays
<1>3. QED
  BY <1>1, <1>2

LEMMA AdditionStays ==
    ASSUME StoreInv, NEW sid \in ScenarioIds, Holds(sid), NEW x \in AdapterRecord,
           AddAdapter(sid, x)
    PROVE  ArraysStay
<1> DEFINE o == catalog[sid]
           n == object[o].len
<1>1. PICK c \in Arrays : Appended(sid, x, c)
  BY AddAdapterEffect
<1>2. /\ UNCHANGED catalog /\ o \in Objects /\ object[o] # Nil
      /\ object' = [object EXCEPT ![o] = [object[o] EXCEPT !.arr = c, !.len = n + 1]]
      /\ \A b \in Arrays : b # c => array'[b] = array[b]
      /\ c = Arr(sid) \/ array[c] = <<>>
  BY <1>1 DEF Appended, Arr
<1>3. Arr(sid)' = c /\ \A t \in ScenarioIds \ {sid} : Holds(t) => Arr(t)' = Arr(t)
  <2>1. object \in [Objects -> ScenarioStruct \cup {Nil}] /\ object[o] \in ScenarioStruct
    BY <1>2, SliceFacts DEF StoreInv, StoreTypeOK
  <2>2. \A t \in ScenarioIds \ {sid} : Holds(t) => catalog[t] \in Objects /\ catalog[t] # o
    BY SlotFacts, ScenariosApart
  <2>3. /\ object'[o] = [object[o] EXCEPT !.arr = c, !.len = n + 1]
        /\ \A q \in Objects : q # o => object'[q] = object[q]
    BY <1>2, <2>1
  <2>4. QED
    BY <1>2, <2>1, <2>2, <2>3 DEF Arr, ScenarioStruct
<1>4. \A b \in Arrays : b # c => Stays(b)
  BY <1>2 DEF Stays
<1>5. QED
  BY <1>2, <1>3, <1>4 DEF ArraysStay

LEMMA PublicationStays ==
    ASSUME StoreInv, NEW sid \in ScenarioIds, ~ Holds(sid), NEW xs \in Seq(AdapterRecord),
           NEW source \in Sources, Publish(sid, xs, source)
    PROVE  ArraysStay
<1>1. PICK o \in Objects, r \in ScenarioStruct :
             /\ object[o] = Nil
             /\ catalog' = [catalog EXCEPT ![sid] = o]
             /\ object' = [object EXCEPT ![o] = r]
             /\ r.arr # NoArray => array[r.arr] = <<>>
             /\ \A b \in Arrays : b # r.arr => array'[b] = array[b]
  BY PublishEffect
<1>2. \A t \in ScenarioIds : Holds(t) => Arr(t)' = Arr(t)
  <2>1. \A t \in ScenarioIds : Holds(t) =>
           t # sid /\ catalog[t] \in Objects /\ catalog[t] # o
    BY <1>1, SlotFacts
  <2>2. /\ \A t \in ScenarioIds \ {sid} : catalog'[t] = catalog[t]
        /\ \A q \in Objects : q # o => object'[q] = object[q]
    BY <1>1 DEF StoreInv, StoreTypeOK
  <2>3. QED
    BY <2>1, <2>2 DEF Arr
<1>3. \A b \in Arrays : array[b] # <<>> => Stays(b)
  BY <1>1 DEF Stays, Arrays, NoArray
<1>4. QED
  BY <1>2, <1>3 DEF ArraysStay

LEMMA ContinueStays ==
    ASSUME SystemInv, SerialInv, NEW p \in Reqs, Continue(p)
    PROVE  ArraysStay
<1> DEFINE l == local[p]
<1>1. /\ l \in Local /\ Sound(p, l) /\ StoreInv
  BY DEF SystemInv, LocalsInv, HeapInv, Processes
<1>2. CASE UNCHANGED storeVars
  BY <1>2, UnwrittenStays DEF storeVars, Arr
<1>3. ASSUME \/ MarkRunning(p) \/ SetUrl(p) \/ MarkStopped(p) \/ Write(p) \/ RemoveAdapter(p)
             \/ WriteStatus(p) \/ WriteUrl(p) \/ Finish(p)
      PROVE  ~ At(p, "ready") /\ l.op \in LoopOps \cup AdapterOps
  BY <1>1, <1>3 DEF MarkRunning, SetUrl, MarkStopped, Write, RemoveAdapter, WriteStatus,
                    WriteUrl, Finish, At, Sound, OpsAt, LoopOps, AdapterOps
<1>4. CASE MarkRunning(p) \/ SetUrl(p) \/ MarkStopped(p) \/ Write(p)
  <2>1. l.sid \in ScenarioIds
    BY <1>3, <1>4, AtWork
  <2>2. l.url \in Urls /\ l.name \in Names \cup {Nil} /\ l.key \in Keys
    BY <1>1 DEF Local
  <2>3. QED
    BY <1>1, <1>4, <2>1, <2>2, MethodsStay
       DEF MarkRunning, SetUrl, MarkStopped, Write, Statuses
<1>5. CASE RemoveAdapter(p)
  <2>1. l.sid \in ScenarioIds
    BY <1>3, <1>5, AtWork
  <2>2. QED
    BY <1>1, <1>5, <2>1, RemovalStays DEF RemoveAdapter
<1>6. CASE WriteStatus(p) \/ WriteUrl(p)
  <2>1. l.sid \in ScenarioIds /\ l.url \in Urls
    BY <1>1, <1>3, <1>6, AtWork DEF Local
  <2>2. l.op = "launch" /\ InStep(p) /\ l.pc \notin {"pick", "finish"}
    BY <1>1, <1>6 DEF WriteStatus, WriteUrl, At, Sound, OpsAt, SerialInv
  <2>3. l.obj = catalog[l.sid] /\ l.idx \in Positions(l.sid)
    BY <2>2 DEF InStep, LoopOps, OnSlot
  <2>4. PokeStatus(catalog[l.sid], l.idx) \/ PokeUrl(catalog[l.sid], l.idx, l.url)
    <3>1. l.idx \in 1 .. object[l.obj].len
      BY <2>3 DEF Positions
    <3>2. InRange(p)
      BY <3>1 DEF InRange
    <3>3. QED
      BY <1>6, <2>3, <3>2 DEF WriteStatus, WriteUrl
  <2>5. View(catalog[l.sid])[l.idx] \in AdapterRecord
    BY <1>1, <2>1, <2>3, LookupFacts, SliceFacts
  <2>6. /\ [View(catalog[l.sid])[l.idx] EXCEPT !.status = "running"] \in AdapterRecord
        /\ [View(catalog[l.sid])[l.idx] EXCEPT !.url = l.url] \in AdapterRecord
    BY <2>1, <2>5 DEF AdapterRecord, Statuses
  <2>7. QED
    BY <1>1, <2>1, <2>3, <2>4, <2>6, SlotWriteStays DEF PokeStatus, PokeUrl
<1>7. CASE Finish(p)
  <2>1. l.sid \in ScenarioIds /\ l.op \in {"launch", "stop", "deleteScenario"}
    BY <1>1, <1>3, <1>7, AtWork DEF Finish, At, Sound, OpsAt, LoopOps
  <2>2. DeleteScenario(l.sid) \/ \E status : UpdateScenarioStatus(l.sid, status)
    BY <1>7, <2>1 DEF Finish
  <2>3. QED
    BY <1>1, <2>1, <2>2, RelabelsStay
<1>8. CASE \/ Pick(p) \/ CreateDeployment(p) \/ CreateService(p) \/ Expose(p)
           \/ Check(p) \/ Scale(p) \/ RemoveDeployment(p) \/ RemoveService(p)
           \/ Reread(p) \/ RemoveRule(p) \/ ReadKey(p) \/ SweepTheRest(p)
  BY <1>2, <1>8 DEF Pick, CreateDeployment, CreateService, Expose, Check, Scale,
              RemoveDeployment, RemoveService, Reread, RemoveRule, ReadKey, SweepTheRest,
              LocalOnly, ClusterOnly
<1>9. QED
  BY <1>4, <1>5, <1>6, <1>7, <1>8 DEF Continue

LEMMA OneStepStays ==
    ASSUME SystemInv, SerialInv, OneByOne, OneStep
    PROVE  ArraysStay
<1>1. StoreInv /\ clock \in ScenarioIds /\ ~ Holds(clock)
  BY ClockIsFree DEF SystemInv, HeapInv
<1>2. UNCHANGED storeVars => ArraysStay
  BY UnwrittenStays DEF storeVars, Arr
<1>3. ASSUME NEW g \in GithubIds, LoadOrSkip(g)
      PROVE  ArraysStay
  <2>1. g \in ScenarioIds
    BY DEF ScenarioIds
  <2>2. UNCHANGED storeVars \/ (~ Holds(g) /\ Publish(g, FromFile(g), "github"))
    BY <1>3 DEF LoadOrSkip, LoadGitHubScenario
  <2>3. QED
    BY <1>1, <1>2, <2>1, <2>2, FromFileType, PublicationStays DEF Sources
<1>4. CASE HandleCreateScenario
  <2>1. Publish(clock, <<>>, "")
    BY <1>1, <1>4 DEF HandleCreateScenario, CreateScenario
  <2>2. <<>> \in Seq(AdapterRecord)
    OBVIOUS
  <2>3. QED
    BY <1>1, <2>1, <2>2, PublicationStays DEF Sources
<1>5. ASSUME NEW src \in Scenarios, HandleClone(src)
      PROVE  ArraysStay
  <2>1. /\ Holds(src) /\ src \in ScenarioIds
        /\ Publish(clock, CloneOf(AdaptersOf(src), clock), "user")
    BY <1>5 DEF HandleClone, CloneScenario, Scenarios
  <2>2. AdaptersOf(src) \in Seq(AdapterRecord)
    BY <1>1, <2>1, SlotFacts, ViewType DEF AdaptersOf
  <2>3. CloneOf(AdaptersOf(src), clock) \in Seq(AdapterRecord)
    BY <1>1, <2>2, CloneOfType
  <2>4. QED
    BY <1>1, <2>1, <2>3, PublicationStays DEF Sources
<1>6. ASSUME NEW sid \in Scenarios, HandleUpdateScenario(sid)
      PROVE  ArraysStay
  BY <1>1, <1>6, RelabelsStay DEF HandleUpdateScenario, Scenarios
<1>7. ASSUME NEW sid \in Scenarios, NEW name \in Names, NEW type \in Types,
             NEW k \in RequestKeys(type, Nil), HandleAddAdapter(sid, name, type, k)
      PROVE  ArraysStay
  <2> DEFINE id  == <<sid, type, clock>>
             key == IF type = Sftp /\ k = Nil THEN id ELSE k
  <2>1. /\ Issue("addAdapter") /\ UseSecond /\ Holds(sid) /\ sid \in ScenarioIds
    BY <1>7 DEF HandleAddAdapter, Scenarios
  <2>2. ~LocalMode
    BY <2>1, CreatingAlone
  <2>3. NewAdapterId(sid, type, clock) = id
    BY <2>2 DEF NewAdapterId
  <2>4. NewAdapter(id, name, type, key) \in AdapterRecord
    BY <2>1, <2>3, ClockIsFree, AddedAdapter
  <2>5. AddAdapter(sid, NewAdapter(id, name, type, key))
    BY <1>7, <2>3 DEF HandleAddAdapter
  <2>6. QED
    BY <1>1, <2>1, <2>4, <2>5, AdditionStays
<1>8. ASSUME NEW id, HandleAdapterActivity(id)
      PROVE  ArraysStay
  <2>1. RecordAdapterActivity(id)
    BY <1>8 DEF HandleAdapterActivity
  <2>2. QED
    BY <1>1, <2>1, MethodsStay
<1>9. QED
  BY <1>3, <1>4, <1>5, <1>6, <1>7, <1>8 DEF OneStep

-----------------------------------------------------------------------------
(* What an adapter in use has, and where a step takes it.                  *)

LEMMA InUseFacts ==
    ASSUME StoreInv, Homes, ~LocalMode, NEW id \in InUseNow
    PROVE  \E sid \in ScenarioIds : \E k \in Positions(sid) :
              /\ Holds(sid) /\ id[1] = sid
              /\ AdapterAt(sid, k) \in AdapterRecord
              /\ AdapterAt(sid, k).id = id
              /\ AdapterAt(sid, k).status = "running"
              /\ AdapterAt(sid, k).last = "recent"
<1>1. PICK sid \in ScenarioIds : Holds(sid) /\ \E k \in Positions(sid) :
              /\ AdapterAt(sid, k).id = id
              /\ AdapterAt(sid, k).status = "running"
              /\ AdapterAt(sid, k).last = "recent"
  BY DEF InUseNow, Scenarios
<1>2. PICK k \in Positions(sid) :
              /\ AdapterAt(sid, k).id = id
              /\ AdapterAt(sid, k).status = "running"
              /\ AdapterAt(sid, k).last = "recent"
  BY <1>1
<1>3. /\ AdapterAt(sid, k) \in AdapterRecord /\ Arr(sid) \in Arrays
      /\ k \in 1 .. Len(array[Arr(sid)]) /\ AdapterAt(sid, k) = array[Arr(sid)][k]
  BY <1>1, SlotFacts
<1>4. id[1] = sid
  <2>1. array[Arr(sid)][k] # Nil /\ Arr(sid) # NoArray
    BY <1>3, NilAssumption DEF Arrays, NoArray, AdapterRecord
  <2>2. QED
    BY <1>1, <1>2, <1>3, <2>1 DEF Homes, Arr
<1>5. QED
  BY <1>1, <1>2, <1>3, <1>4

UsesHome ==
    ~LocalMode =>
        \A id \in InUseNow : \E sid \in ScenarioIds : \E k \in Positions(sid) :
              Holds(sid) /\ id[1] = sid /\ AdapterAt(sid, k).id = id

LEMMA UsesAreHome == StoreInv /\ Homes => UsesHome
<1>1. ASSUME StoreInv, Homes, ~LocalMode, NEW id \in InUseNow
      PROVE  \E sid \in ScenarioIds : \E k \in Positions(sid) :
              Holds(sid) /\ id[1] = sid /\ AdapterAt(sid, k).id = id
  BY <1>1, InUseFacts
<1>2. QED
  BY <1>1 DEF UsesHome

LEMMA UsesAreHomeNext == StoreInv' /\ Homes' => UsesHome'
BY UsesAreHome, PTL

LEMMA InUseNext ==
    ASSUME StoreInv', Homes', ~LocalMode, NEW id, id \in InUseNow'
    PROVE  \E sid \in ScenarioIds : \E k \in Positions(sid)' :
              /\ Holds(sid)' /\ id[1] = sid
              /\ AdapterAt(sid, k)'.id = id
<1>1. UsesHome'
  BY UsesAreHomeNext
<1>2. QED
  BY <1>1 DEF UsesHome

(* Where a scenario's adapters are after a step: where they were, or at    *)
(* the place before.                                                       *)
Moving(sid) ==
    \A k \in Positions(sid) :
        k \in Positions(sid)' /\ AdapterAt(sid, k)'.id = AdapterAt(sid, k).id

MovingUp(sid) ==
    \E j \in Positions(sid) : Vacated(sid, j)

(* An adapter that remains in use is shown by what showed it.              *)
LEMMA StillShown ==
    ASSUME StoreInv, StoreInv', Homes, Homes', Apart, ~LocalMode, ArraysStay,
           NEW sid \in ScenarioIds, NEW id, id[1] = sid,
           id \in InUseNow, id \in InUseNow',
           NEW a, NEW n \in Nat, NEW i \in Nat, Shows(sid, a, n, i, id),
           Moving(sid) \/ (MovingUp(sid) /\ i = 1)
    PROVE  Shows(sid, a, n, i, id)'
<1>1. PICK q \in Positions(sid) :
              /\ Holds(sid)
              /\ AdapterAt(sid, q) \in AdapterRecord
              /\ AdapterAt(sid, q).id = id
              /\ AdapterAt(sid, q).status = "running"
              /\ AdapterAt(sid, q).last = "recent"
  BY InUseFacts
<1>2. PICK m0 \in Positions(sid)' : Holds(sid)' /\ AdapterAt(sid, m0)'.id = id
  BY InUseNext
<1>3. PICK k \in i .. n :
        IF a = Arr(sid)
        THEN k \in Positions(sid) /\ AdapterAt(sid, k).id = id
        ELSE /\ a \in Arrays /\ k \in 1 .. Len(array[a]) /\ array[a][k] # Nil
             /\ array[a][k].id = id
             /\ array[a][k].status = "running" /\ array[a][k].last = "recent"
  BY DEF Shows
<1>4. CASE a = Arr(sid)
  <2>1. k \in Positions(sid) /\ AdapterAt(sid, k).id = id
    BY <1>3, <1>4
  <2>2. k = q
    BY <1>1, <2>1 DEF Apart, IdsDiffer
  <2>3. /\ a \in Arrays /\ k \in 1 .. Len(array[a]) /\ AdapterAt(sid, k) = array[a][k]
    BY <1>1, <1>4, <2>1, SlotFacts
  <2>4. CASE Arr(sid)' = a
    <3>1. CASE Moving(sid)
      <4>1. k \in Positions(sid)' /\ AdapterAt(sid, k)'.id = id
        BY <2>1, <3>1 DEF Moving
      <4>2. QED
        BY <2>4, <4>1 DEF Shows
    <3>2. CASE MovingUp(sid) /\ i = 1
      <4>1. PICK j \in Positions(sid) : Vacated(sid, j)
        BY <3>2 DEF MovingUp
      <4>2. /\ AdapterAt(sid, m0)' = AdapterAt(sid, IF m0 >= j THEN m0 + 1 ELSE m0)
            /\ Size(sid)' = Size(sid) - 1
        BY <1>1, <1>2, <4>1 DEF Vacated
      <4>3. /\ Size(sid) \in Nat /\ Positions(sid) = 1 .. Size(sid)
            /\ Positions(sid)' = 1 .. Size(sid)'
        BY <1>1, <1>2, SlotFacts DEF Positions, Size
      <4>4. (IF m0 >= j THEN m0 + 1 ELSE m0) \in Positions(sid)
        BY <1>2, <4>1, <4>2, <4>3
      <4>5. k = IF m0 >= j THEN m0 + 1 ELSE m0
        BY <1>2, <2>1, <4>2, <4>4 DEF Apart, IdsDiffer
      <4>6. m0 \in i .. n
        BY <1>2, <1>3, <3>2, <4>1, <4>2, <4>3, <4>5
      <4>7. QED
        BY <1>2, <2>4, <4>6 DEF Shows
    <3>3. QED
      BY <3>1, <3>2
  <2>5. CASE Arr(sid)' # a
    <3>1. Stays(a)
      BY <1>1, <1>2, <1>4, <2>3, <2>5 DEF ArraysStay
    <3>2. k \in 1 .. Len(array'[a]) /\ array'[a][k] = array[a][k]
      BY <2>3, <3>1 DEF Stays
    <3>3. array[a][k] # Nil
      BY <1>1, <2>2, <2>3, NilAssumption DEF AdapterRecord
    <3>4. QED
      BY <1>1, <1>3, <2>2, <2>3, <2>5, <3>2, <3>3 DEF Shows
  <2>6. QED
    BY <2>4, <2>5
<1>5. CASE a # Arr(sid)
  <2>1. /\ a \in Arrays /\ k \in 1 .. Len(array[a]) /\ array[a][k] # Nil
        /\ array[a][k].id = id
        /\ array[a][k].status = "running" /\ array[a][k].last = "recent"
    BY <1>3, <1>5
  <2>2. array[a] # <<>>
    <3>1. array[a] \in Seq(AdapterRecord \cup {Nil}) /\ Len(array[a]) \in Nat
      BY <2>1, LenProperties DEF StoreInv, StoreTypeOK
    <3>2. Len(<<>>) = 0
      OBVIOUS
    <3>3. QED
      BY <2>1, <3>1, <3>2
  <2>3. \A t \in ScenarioIds : Holds(t) => Arr(t) # a
    <3>1. ASSUME NEW t \in ScenarioIds, Holds(t), Arr(t) = a
          PROVE  FALSE
      <4>1. Arr(t) # NoArray
        BY <2>1, <3>1 DEF Arrays, NoArray
      <4>2. array[Arr(t)][k] # Nil /\ k \in 1 .. Len(array[Arr(t)])
        BY <2>1, <3>1
      <4>3. array[Arr(t)][k].id[1] = t
        BY <3>1, <4>1, <4>2 DEF Homes, Arr
      <4>4. QED
        BY <1>5, <2>1, <3>1, <4>3
    <3>2. QED
      BY <3>1
  <2>4. Stays(a)
    BY <2>1, <2>2, <2>3 DEF ArraysStay
  <2>5. k \in 1 .. Len(array'[a]) /\ array'[a][k] = array[a][k]
    BY <2>1, <2>4 DEF Stays
  <2>6. Arr(sid)' # a
    BY <1>1, <1>2, <1>5, <2>2 DEF ArraysStay
  <2>7. QED
    BY <1>3, <2>1, <2>5, <2>6 DEF Shows
<1>6. QED
  BY <1>4, <1>5

LEMMA Movements ==
    ASSUME StoreInv, NEW sid \in ScenarioIds
    PROVE  /\ KeepsAdapters => Moving(sid)
           /\ \A t \in ScenarioIds : \A i \in Positions(t) : \A x :
                 Written(t, i, x) /\ x.id = AdapterAt(t, i).id => Moving(sid)
           /\ \A t, xs : Founded(t, xs) /\ Holds(sid) => Moving(sid) /\ Holds(sid)'
           /\ \A t, x : Extended(t, x) => Moving(sid)
           /\ \A t \in ScenarioIds : Dropped(t) /\ Holds(sid)' => Moving(sid)
           /\ \A t \in ScenarioIds : \A i \in Positions(t) :
                 Vacated(t, i) => Moving(sid) \/ MovingUp(sid)
<1>1. Positions(sid) = IF Holds(sid) THEN 1 .. Size(sid) ELSE {}
  BY DEF Positions, Size
<1>2. Positions(sid)' = IF Holds(sid)' THEN 1 .. Size(sid)' ELSE {}
  BY DEF Positions, Size
<1>3. Holds(sid) => Size(sid) \in Nat
  BY SlotFacts
<1>4. KeepsAdapters => Moving(sid)
  BY SamePositions DEF KeepsAdapters, Agree, Moving
<1>5. ASSUME NEW t \in ScenarioIds, NEW i \in Positions(t), NEW x,
             Written(t, i, x), x.id = AdapterAt(t, i).id
      PROVE  Moving(sid)
  BY <1>5, SamePositions DEF Written, Moving
<1>6. ASSUME NEW t, NEW xs, Founded(t, xs), Holds(sid)
      PROVE  Moving(sid) /\ Holds(sid)'
  <2>1. sid # t /\ catalog'[sid] = catalog[sid] /\ Size(sid)' = Size(sid)
    BY <1>6 DEF Founded
  <2>2. Holds(sid)' /\ Positions(sid)' = Positions(sid)
    BY <1>1, <1>2, <1>6, <2>1 DEF Holds
  <2>3. QED
    BY <1>6, <2>1, <2>2 DEF Founded, Moving
<1>7. ASSUME NEW t, NEW x, Extended(t, x)
      PROVE  Moving(sid)
  <2>1. CASE Holds(sid)
    <3>1. /\ Size(sid)' = IF sid = t THEN Size(sid) + 1 ELSE Size(sid)
          /\ Holds(sid)'
      BY <1>7, <2>1 DEF Extended, Holds
    <3>2. /\ \A k \in Positions(sid) : k \in Positions(sid)' /\ k # Size(sid) + 1
      BY <1>1, <1>2, <1>3, <2>1, <3>1
    <3>3. \A k \in Positions(sid) : AdapterAt(sid, k)' = AdapterAt(sid, k)
      BY <1>7, <3>2 DEF Extended
    <3>4. QED
      BY <3>2, <3>3 DEF Moving
  <2>2. CASE ~ Holds(sid)
    BY <1>1, <2>2 DEF Moving
  <2>3. QED
    BY <2>1, <2>2
<1>8. ASSUME NEW t \in ScenarioIds, Dropped(t), Holds(sid)'
      PROVE  Moving(sid)
  <2>1. catalog'[sid] = catalog[sid] /\ UNCHANGED <<object, array>>
    BY <1>8 DEF Dropped, Holds
  <2>2. QED
    BY <2>1 DEF Moving, Positions, AdapterAt, Holds
<1>9. ASSUME NEW t \in ScenarioIds, NEW i \in Positions(t), Vacated(t, i)
      PROVE  Moving(sid) \/ MovingUp(sid)
  <2>1. CASE sid = t
    BY <1>9, <2>1 DEF MovingUp
  <2>2. CASE sid # t /\ Holds(sid)
    <3>1. Holds(sid)' /\ Size(sid)' = Size(sid)
      BY <1>9, <2>2 DEF Vacated, Holds
    <3>2. Positions(sid)' = Positions(sid)
      BY <1>1, <1>2, <2>2, <3>1
    <3>3. QED
      BY <1>9, <2>2, <3>2 DEF Vacated, Moving
  <2>3. CASE ~ Holds(sid)
    BY <1>1, <2>3 DEF Moving
  <2>4. QED
    BY <2>1, <2>2, <2>3
<1>10. QED
  BY <1>4, <1>5, <1>6, <1>7, <1>8, <1>9

(* The steps of a request, and those of one step.                          *)
LEMMA RequestMoves ==
    ASSUME SystemInv, SerialInv, NEW p \in Reqs, Continue(p),
           NEW sid \in ScenarioIds, Holds(sid)'
    PROVE  Moving(sid) \/ (MovingUp(sid) /\ RemoveAdapter(p))
<1>1. StoreInv
  BY DEF SystemInv, HeapInv
<1>2. CASE KeepsAdapters
  BY <1>1, <1>2, Movements
<1>3. CASE Ends(p)
  <2> DEFINE l == local[p]
  <2>1. /\ ~ At(p, "ready") /\ l.op \in LoopOps \cup AdapterOps
        /\ l.pc \in {"remove", "write"} => l.op \in AdapterOps
    BY <1>3 DEF Ends, RemoveAdapter, Write, Finish, At, SystemInv, LocalsInv, Processes,
                Sound, OpsAt, LoopOps, AdapterOps
  <2>2. l.sid \in ScenarioIds /\ (l.pc \in {"remove", "write"} => l.idx \in Positions(l.sid))
    BY <2>1, AtWork DEF OnSlot
  <2>3. CASE RemoveAdapter(p) /\ Vacated(l.sid, l.idx)
    BY <1>1, <2>2, <2>3, Movements DEF RemoveAdapter, At
  <2>4. CASE /\ Write(p)
             /\ Written(l.sid, l.idx, [Slot(p) EXCEPT
                   !.name = IF l.name = Nil THEN @ ELSE l.name, !.key = l.key])
    <3>1. l.idx \in Positions(l.sid) /\ Slot(p) \in AdapterRecord
      BY <1>1, <2>2, <2>4, LookupFacts DEF Write, At, Slot
    <3>2. [Slot(p) EXCEPT !.name = IF l.name = Nil THEN @ ELSE l.name, !.key = l.key].id
             = AdapterAt(l.sid, l.idx).id
      BY <3>1 DEF AdapterRecord, Slot
    <3>3. QED
      BY <1>1, <2>2, <2>4, <3>1, <3>2, Movements
  <2>5. CASE Dropped(l.sid)
    BY <1>1, <2>2, <2>5, Movements
  <2>6. QED
    BY <1>3, <2>3, <2>4, <2>5 DEF Ends
<1>4. QED
  BY <1>2, <1>3, ContinueInStep

LEMMA OneStepMoving ==
    ASSUME SystemInv, SerialInv, OneByOne, OneStep, NEW sid \in ScenarioIds, Holds(sid)
    PROVE  Moving(sid)
<1>1. StoreInv
  BY DEF SystemInv, HeapInv
<1>2. Loads \/ Creates \/ Adds \/ Reports \/ Passes
  BY OneStepEffect
<1>3. CASE Loads \/ Creates
  BY <1>1, <1>3, Movements DEF Loads, Creates
<1>4. CASE Adds
  BY <1>1, <1>4, Movements DEF Adds
<1>5. CASE Reports
  <2>1. \A t \in ScenarioIds : \A i \in Positions(t) :
           [AdapterAt(t, i) EXCEPT !.last = "recent"].id = AdapterAt(t, i).id
    BY <1>1, LookupFacts DEF AdapterRecord
  <2>2. QED
    BY <1>1, <1>5, <2>1, Movements DEF Reports
<1>6. CASE Passes
  BY <1>1, <1>6, KeptBy, Movements DEF Passes
<1>7. QED
  BY <1>2, <1>3, <1>4, <1>5, <1>6

LEMMA IdleMoving ==
    ASSUME SystemInv, SerialInv, IdleStep
    PROVE  ArraysStay /\ \A sid \in ScenarioIds : Moving(sid)
<1>1. StoreInv
  BY DEF SystemInv, HeapInv
<1>2. ASSUME NEW sid \in ScenarioIds
      PROVE  Moving(sid)
  <2>1. UNCHANGED storeVars \/ IdleStops \/ IdleLabels
    BY IdleEffect DEF IdleScales
  <2>2. CASE UNCHANGED storeVars
    BY <1>1, <2>2, UnchangedAdapters, KeptBy, Movements
  <2>3. CASE IdleStops
    <3>1. \A t \in ScenarioIds : \A i \in Positions(t) :
             WithStatus(AdapterAt(t, i), "stopped").id = AdapterAt(t, i).id
      BY <1>1, LookupFacts DEF AdapterRecord, WithStatus
    <3>2. QED
      BY <1>1, <2>3, <3>1, Movements DEF IdleStops
  <2>4. CASE IdleLabels
    BY <1>1, <2>4, KeptBy, Movements DEF IdleLabels
  <2>5. QED
    BY <2>1, <2>2, <2>3, <2>4
<1>3. ArraysStay
  <2>1. UNCHANGED storeVars => ArraysStay
    BY UnwrittenStays DEF storeVars, Arr
  <2>2. CASE ListScenarios \/ ChooseScenario \/ Examine
    BY <2>1, <2>2 DEF ListScenarios, ChooseScenario, Examine, LocalOnly
  <2>3. CASE Continue(Idle)
    <3>1. /\ Pick(Idle) \/ Scale(Idle) \/ MarkStopped(Idle) \/ Finish(Idle)
          /\ local[Idle].op = "idle" /\ local[Idle].sid \in ScenarioIds
      BY <2>3, IdleContinues
    <3>2. CASE Pick(Idle) \/ Scale(Idle)
      BY <2>1, <3>2 DEF Pick, Scale, LocalOnly, ClusterOnly
    <3>3. CASE MarkStopped(Idle)
      BY <1>1, <3>1, <3>3, MethodsStay DEF MarkStopped, Statuses
    <3>4. CASE Finish(Idle)
      BY <1>1, <3>1, <3>4, RelabelsStay DEF Finish
    <3>5. QED
      BY <3>1, <3>2, <3>3, <3>4
  <2>4. QED
    BY <2>2, <2>3 DEF IdleStep
<1>4. QED
  BY <1>2, <1>3

-----------------------------------------------------------------------------
(* SpareInv is inductive.                                                  *)

LEMMA AheadShown ==
    ASSUME SystemInv, SystemInv', SerialInv, SpareInv, ~LocalMode, ArraysStay,
           NEW id \in steady, id \in InUseNow',
           NEW sid \in ScenarioIds, id[1] = sid, NEW a, NEW n, NEW i,
           Ahead(sid, a, n, i),
           Moving(sid) \/ (MovingUp(sid) /\ i = 1)
    PROVE  Shows(sid, a, n, i, id)'
<1>1. n \in Nat /\ i \in Nat
  <2>1. CASE i = 1 /\ [sid |-> sid, arr |-> a, len |-> n] \in snapshot
    BY <2>1 DEF SystemInv, SnapshotInv, Snapshot
  <2>2. CASE local[Idle].len = n /\ local[Idle].idx = i
    BY <2>2 DEF SystemInv, LocalsInv, Local, Processes
  <2>3. QED
    BY <2>1, <2>2 DEF Ahead
<1>2. id \in InUseNow /\ Shows(sid, a, n, i, id)
  BY DEF SpareInv
<1>3. StoreInv /\ StoreInv' /\ Homes /\ Homes' /\ Apart
  BY DEF SystemInv, HeapInv, SerialInv
<1>4. QED
  BY <1>1, <1>2, <1>3, StillShown

(* What others do while the idle check waits.                              *)
LEMMA WaitingSpares ==
    ASSUME SystemInv, SystemInv', SerialInv, SpareInv, ~LocalMode, ArraysStay,
           local'[Idle] = local[Idle], snapshot' = snapshot,
           steady' \subseteq steady, steady' \subseteq InUseNow',
           \A sid \in ScenarioIds : Holds(sid) /\ Holds(sid)' =>
              Moving(sid) \/ (MovingUp(sid) /\ (At(Idle, "examine") => steady' = {}))
    PROVE  SpareInv'
<1>1. ASSUME NEW id \in steady', NEW sid \in ScenarioIds, id[1] = sid
      PROVE  /\ \A a, n, i : Ahead(sid, a, n, i)' => Shows(sid, a, n, i, id)'
             /\ ~ (Stopping /\ local[Idle].sid = sid)'
  <2>1. id \in steady /\ id \in InUseNow /\ id \in InUseNow'
    BY <1>1 DEF SpareInv
  <2>2. Holds(sid) /\ Holds(sid)'
    <3>1. StoreInv /\ StoreInv' /\ Homes /\ Homes'
      BY DEF SystemInv, HeapInv
    <3>2. QED
      BY <1>1, <2>1, <3>1, InUseFacts, InUseNext
  <2>3. ASSUME NEW a, NEW n, NEW i, Ahead(sid, a, n, i)'
        PROVE  Shows(sid, a, n, i, id)'
    <3>1. Ahead(sid, a, n, i)
      BY <2>3 DEF Ahead
    <3>2. i = 1 \/ At(Idle, "examine")
      BY <3>1 DEF Ahead, At
    <3>3. Moving(sid) \/ (MovingUp(sid) /\ i = 1)
      BY <1>1, <2>2, <3>2
    <3>4. QED
      BY <1>1, <2>1, <3>1, <3>3, AheadShown
  <2>4. ~ (Stopping /\ local[Idle].sid = sid)'
    BY <1>1, <2>1 DEF SpareInv, Stopping
  <2>5. QED
    BY <2>3, <2>4
<1>2. (local[Idle].pc \in {"scale", "markStopped"} =>
          \E sid \in ScenarioIds : local[Idle].sid = sid /\ local[Idle].aid[1] = sid)'
  BY DEF SpareInv
<1>3. QED
  BY <1>1, <1>2 DEF SpareInv

(* What remains in use.                                                    *)
LEMMA InUseStays ==
    ASSUME UNCHANGED storeVars
    PROVE  InUseNow' = InUseNow
BY DEF storeVars, InUseNow, Scenarios, Holds, Positions, AdapterAt

LEMMA ContinueSteady ==
    ASSUME NEW p \in Processes, steady \subseteq InUseNow, Continue(p)
    PROVE  /\ steady' \subseteq steady /\ steady' \subseteq InUseNow'
           /\ RemoveAdapter(p) /\ At(Idle, "examine") => steady' = {}
<1>1. ASSUME \/ Pick(p) \/ CreateDeployment(p) \/ CreateService(p) \/ Expose(p)
             \/ Check(p) \/ Scale(p) \/ RemoveDeployment(p) \/ RemoveService(p)
             \/ Reread(p) \/ RemoveRule(p) \/ ReadKey(p) \/ SweepTheRest(p)
      PROVE  steady' = steady /\ UNCHANGED storeVars
  BY <1>1 DEF Pick, CreateDeployment, CreateService, Expose, Check, Scale,
              RemoveDeployment, RemoveService, Reread, RemoveRule, ReadKey, SweepTheRest,
              LocalOnly, ClusterOnly
<1>2. ASSUME \/ MarkRunning(p) \/ SetUrl(p) \/ WriteStatus(p) \/ WriteUrl(p)
             \/ MarkStopped(p) \/ Write(p) \/ Finish(p)
      PROVE  Remember
  BY <1>2 DEF MarkRunning, SetUrl, WriteStatus, WriteUrl, MarkStopped, Write, Finish,
              StoreOnly
<1>3. RemoveAdapter(p) =>
         IF At(Idle, "examine") THEN steady' = {} ELSE Remember
  BY DEF RemoveAdapter
<1>4. Remember => steady' \subseteq steady /\ steady' \subseteq InUseNow'
  BY DEF Remember
<1>5. CASE RemoveAdapter(p)
  BY <1>3, <1>4, <1>5
<1>6. CASE ~ RemoveAdapter(p)
  BY <1>1, <1>2, <1>4, <1>6, InUseStays DEF Continue
<1>7. QED
  BY <1>5, <1>6

LEMMA OneStepSteady ==
    ASSUME SystemInv, SerialInv, OneByOne, OneStep, steady \subseteq InUseNow
    PROVE  /\ steady' \subseteq steady /\ steady' \subseteq InUseNow'
           /\ UNCHANGED <<local, snapshot>>
<1>1. Remember => steady' \subseteq steady /\ steady' \subseteq InUseNow'
  BY DEF Remember
<1>2. ASSUME NEW g \in GithubIds, LoadOrSkip(g)
      PROVE  steady' = steady /\ steady \subseteq InUseNow' /\ UNCHANGED <<local, snapshot>>
  <2>1. steady' = steady /\ UNCHANGED <<local, snapshot>>
    BY <1>2 DEF LoadOrSkip
  <2>2. CASE UNCHANGED storeVars
    BY <2>1, <2>2, InUseStays
  <2>3. CASE ~ UNCHANGED storeVars
    <3>1. StoreInv /\ g \in ScenarioIds
      BY DEF SystemInv, HeapInv, ScenarioIds
    <3>2. ~ Holds(g) /\ Publish(g, FromFile(g), "github")
      BY <1>2, <2>3 DEF LoadOrSkip, LoadGitHubScenario
    <3>3. Founded(g, FromFile(g))
      BY <3>1, <3>2, FromFileType, ScenarioPublished DEF Sources
    <3>4. ASSUME NEW id \in InUseNow
          PROVE  id \in InUseNow'
      <4>1. PICK sid \in ScenarioIds : Holds(sid) /\ \E k \in Positions(sid) :
                   /\ AdapterAt(sid, k).id = id
                   /\ AdapterAt(sid, k).status = "running"
                   /\ AdapterAt(sid, k).last = "recent"
        BY <3>4 DEF InUseNow, Scenarios
      <4>2. PICK k \in Positions(sid) :
                   /\ AdapterAt(sid, k).id = id
                   /\ AdapterAt(sid, k).status = "running"
                   /\ AdapterAt(sid, k).last = "recent"
        BY <4>1
      <4>3. sid # g
        BY <3>2, <4>1
      <4>4. k \in Positions(sid)' /\ Holds(sid)'
        BY <3>1, <3>3, <4>1, <4>2, Movements DEF Moving
      <4>5. AdapterAt(sid, k)' = AdapterAt(sid, k)
        BY <3>3, <4>3, <4>4 DEF Founded
      <4>6. QED
        BY <4>2, <4>4, <4>5 DEF InUseNow, Scenarios
    <3>5. QED
      BY <2>1, <3>4
  <2>4. QED
    BY <2>1, <2>2, <2>3
<1>3. CASE ~ \E g \in GithubIds : LoadOrSkip(g)
  <2>1. Remember /\ UNCHANGED <<local, snapshot>>
    BY <1>3 DEF OneStep, HandleCreateScenario, HandleUpdateScenario, HandleClone,
                HandleAddAdapter, HandleAdapterActivity
  <2>2. QED
    BY <1>1, <2>1
<1>4. QED
  BY <1>2, <1>3

(* The check itself.  While it leaves the store alone:                     *)
LEMMA StillAhead ==
    ASSUME SystemInv, SystemInv', SerialInv, SpareInv, ~LocalMode, ArraysStay,
           steady' \subseteq steady, steady' \subseteq InUseNow',
           \A sid \in ScenarioIds : Moving(sid),
           \A sid \in ScenarioIds : \A a, n, i : Ahead(sid, a, n, i)' => Ahead(sid, a, n, i),
           Stopping' => Stopping /\ local'[Idle].sid = local[Idle].sid,
           local'[Idle].pc \in {"scale", "markStopped"} =>
              \E sid \in ScenarioIds : local'[Idle].sid = sid /\ local'[Idle].aid[1] = sid
    PROVE  SpareInv'
<1>1. ASSUME NEW id \in steady', NEW sid \in ScenarioIds, id[1] = sid
      PROVE  /\ \A a, n, i : Ahead(sid, a, n, i)' => Shows(sid, a, n, i, id)'
             /\ ~ (Stopping /\ local[Idle].sid = sid)'
  <2>1. id \in steady /\ id \in InUseNow'
    OBVIOUS
  <2>2. \A a, n, i : Ahead(sid, a, n, i)' => Shows(sid, a, n, i, id)'
    BY <1>1, <2>1, AheadShown
  <2>3. ~ (Stopping /\ local[Idle].sid = sid)'
    BY <1>1, <2>1 DEF SpareInv
  <2>4. QED
    BY <2>2, <2>3
<1>2. QED
  BY <1>1 DEF SpareInv

LEMMA ListScenariosSpares ==
    ASSUME SystemInv, SystemInv', ~LocalMode, ListScenarios
    PROVE  SpareInv'
<1>1. /\ StoreInv /\ Homes /\ UNCHANGED storeVars /\ steady' = InUseNow
      /\ snapshot' = {[sid |-> sid, arr |-> Arr(sid), len |-> Size(sid)] :
                         sid \in {t \in ScenarioIds :
                                    Holds(t) /\ object[catalog[t]].status = "running"}}
  BY DEF ListScenarios, SystemInv, HeapInv, Arr, Size
<1>2. local'[Idle].pc = "choose"
  <2>1. local \in [Processes -> Local] /\ Idle \in Processes
    BY DEF SystemInv, LocalsInv, Processes
  <2>2. Set(Idle, [Ready EXCEPT !.op = "idle", !.pc = "choose"])
    BY DEF ListScenarios
  <2>3. local'[Idle] = [Ready EXCEPT !.op = "idle", !.pc = "choose"]
    BY <2>1, <2>2 DEF Set
  <2>4. QED
    BY <2>3 DEF Ready
<1>3. ASSUME NEW id \in steady', NEW sid \in ScenarioIds, id[1] = sid,
             NEW a, NEW n, NEW i, Ahead(sid, a, n, i)'
      PROVE  Shows(sid, a, n, i, id)'
  <2>1. i = 1 /\ [sid |-> sid, arr |-> a, len |-> n] \in snapshot'
    BY <1>2, <1>3 DEF Ahead
  <2>2. Holds(sid) /\ a = Arr(sid) /\ n = Size(sid)
    BY <1>1, <2>1
  <2>3. PICK k \in Positions(sid) : AdapterAt(sid, k).id = id
    BY <1>1, <1>3, InUseFacts
  <2>4. k \in i .. n
    BY <1>1, <2>1, <2>2, <2>3, SlotFacts
  <2>5. Shows(sid, a, n, i, id)
    BY <2>2, <2>3, <2>4 DEF Shows
  <2>6. QED
    BY <1>1, <2>5 DEF storeVars, Shows, Arr, Positions, AdapterAt, Holds
<1>4. steady' \subseteq InUseNow'
  BY <1>1, InUseStays
<1>5. QED
  BY <1>2, <1>3, <1>4 DEF SpareInv, Stopping

LEMMA ChooseScenarioSpares ==
    ASSUME SystemInv, SystemInv', SerialInv, SpareInv, ~LocalMode, ChooseScenario,
           ArraysStay, \A sid \in ScenarioIds : Moving(sid)
    PROVE  SpareInv'
<1>1. /\ local \in [Processes -> Local] /\ Idle \in Processes
      /\ steady \subseteq InUseNow /\ InUseNow' = InUseNow
  <2>1. UNCHANGED storeVars
    BY DEF ChooseScenario
  <2>2. QED
    BY <2>1, InUseStays DEF SystemInv, LocalsInv, Processes, SpareInv
<1>2. CASE snapshot = {}
  <2>1. steady' = {} \/ \E s \in snapshot : TRUE
    BY DEF ChooseScenario
  <2>2. Respond(Idle)
    BY <1>2 DEF ChooseScenario
  <2>3. local'[Idle].pc = "ready"
    BY <1>1, <2>2, SetFacts DEF Respond, Ready
  <2>4. QED
    BY <1>2, <2>1, <2>3 DEF SpareInv
<1>3. ASSUME NEW s \in snapshot, snapshot' = snapshot \ {s},
             Set(Idle, [Ready EXCEPT !.op = "idle", !.pc = "examine",
                             !.sid = s.sid, !.arr = s.arr, !.len = s.len, !.idx = 1]),
             UNCHANGED steady
      PROVE  SpareInv'
  <2>1. /\ local'[Idle].pc = "examine" /\ local'[Idle].sid = s.sid
        /\ local'[Idle].arr = s.arr /\ local'[Idle].len = s.len /\ local'[Idle].idx = 1
    <3>1. local'[Idle] = [Ready EXCEPT !.op = "idle", !.pc = "examine",
                             !.sid = s.sid, !.arr = s.arr, !.len = s.len, !.idx = 1]
      BY <1>1, <1>3 DEF Set
    <3>2. QED
      BY <3>1 DEF Ready
  <2>2. s = [sid |-> s.sid, arr |-> s.arr, len |-> s.len]
    BY DEF SystemInv, SnapshotInv, Snapshot
  <2>3. \A sid \in ScenarioIds : \A a, n, i :
           Ahead(sid, a, n, i)' => Ahead(sid, a, n, i)
    BY <1>3, <2>1, <2>2 DEF Ahead
  <2>4. ~ Stopping'
    BY <2>1 DEF Stopping
  <2>5. QED
    BY <1>1, <1>3, <2>1, <2>3, <2>4, StillAhead
<1>4. CASE snapshot # {}
  BY <1>3, <1>4 DEF ChooseScenario
<1>5. QED
  BY <1>2, <1>4

(* It goes on only past what is not in use.                                *)
LEMMA ExamineSpares ==
    ASSUME SystemInv, SystemInv', SerialInv, SpareInv, ~LocalMode, Examine
    PROVE  SpareInv'
<1> DEFINE l == local[Idle]
<1>1. /\ local \in [Processes -> Local] /\ Idle \in Processes /\ l \in Local
      /\ UNCHANGED <<storeVars, snapshot, steady>> /\ l.pc = "examine"
      /\ StoreInv /\ Homes /\ Apart
  BY DEF SystemInv, HeapInv, LocalsInv, Processes, Examine, LocalOnly, At, SerialInv
<1>2. InUseNow' = InUseNow /\ steady \subseteq InUseNow
  BY <1>1, InUseStays DEF SpareInv
<1>3. \A sid, a, n, i, id : Shows(sid, a, n, i, id)' = Shows(sid, a, n, i, id)
  BY <1>1 DEF storeVars, Shows, Arr, Positions, AdapterAt, Holds
<1>4. CASE Set(Idle, [Ready EXCEPT !.op = "idle", !.pc = "choose"])
  <2>1. local'[Idle].pc = "choose"
    <3>1. local'[Idle] = [Ready EXCEPT !.op = "idle", !.pc = "choose"]
      BY <1>1, <1>4 DEF Set
    <3>2. QED
      BY <3>1 DEF Ready
  <2>2. \A sid, a, n, i : Ahead(sid, a, n, i)' => Ahead(sid, a, n, i)
    BY <1>1, <2>1 DEF Ahead
  <2>3. QED
    BY <1>1, <1>2, <1>3, <2>1, <2>2 DEF SpareInv, Stopping
<1>5. CASE ~Ranging(l) /\ Set(Idle, [l EXCEPT !.pc = "pick", !.idx = 1])
  <2>1. local'[Idle].pc = "pick" /\ local'[Idle].sid = l.sid
    <3>1. local'[Idle] = [l EXCEPT !.pc = "pick", !.idx = 1]
      BY <1>1, <1>5 DEF Set
    <3>2. QED
      BY <1>1, <3>1 DEF Local
  <2>2. \A sid, a, n, i : Ahead(sid, a, n, i)' => Ahead(sid, a, n, i)
    BY <1>1, <2>1 DEF Ahead
  <2>3. ASSUME NEW id \in steady, NEW sid \in ScenarioIds, id[1] = sid, l.sid = sid
        PROVE  FALSE
    <3>1. Shows(sid, l.arr, l.len, l.idx, id)
      BY <1>1, <2>3 DEF SpareInv, Ahead
    <3>2. PICK k \in l.idx .. l.len :
             IF l.arr = Arr(sid) THEN k \in Positions(sid) ELSE l.arr \in Arrays
      BY <3>1 DEF Shows
    <3>3. l.arr \in Arrays
      BY <1>1, <3>2, LookupFacts, SlotFacts
    <3>4. l.idx <= l.len
      BY <1>1, <3>2 DEF Local
    <3>5. QED
      BY <1>5, <3>3, <3>4 DEF Ranging, Arrays, NoArray
  <2>4. QED
    BY <1>1, <1>2, <1>3, <2>1, <2>2, <2>3 DEF SpareInv, Stopping
<1>6. ASSUME Ranging(l), Current(Idle).status # "running" \/ Current(Idle).last # "recent",
             NEW b \in BOOLEAN, Set(Idle, [l EXCEPT !.idx = @ + 1, !.idle = b])
      PROVE  SpareInv'
  <2>1. /\ local'[Idle].pc = "examine" /\ local'[Idle].sid = l.sid
        /\ local'[Idle].arr = l.arr /\ local'[Idle].len = l.len
        /\ local'[Idle].idx = l.idx + 1
    <3>1. local'[Idle] = [l EXCEPT !.idx = @ + 1, !.idle = b]
      BY <1>1, <1>6 DEF Set
    <3>2. QED
      BY <1>1, <3>1 DEF Local
  <2>2. ASSUME NEW id \in steady, NEW sid \in ScenarioIds, id[1] = sid,
               NEW a, NEW n, NEW i, Ahead(sid, a, n, i)'
        PROVE  Shows(sid, a, n, i, id)
    <3>1. CASE Ahead(sid, a, n, i)
      BY <2>2, <3>1 DEF SpareInv
    <3>2. CASE ~ Ahead(sid, a, n, i)
      <4>1. l.sid = sid /\ l.arr = a /\ l.len = n /\ i = l.idx + 1
        BY <1>1, <2>1, <2>2, <3>2 DEF Ahead
      <4>2. Shows(sid, a, n, l.idx, id)
        BY <1>1, <2>2, <4>1 DEF SpareInv, Ahead
      <4>3. PICK k \in l.idx .. n :
              IF a = Arr(sid)
              THEN k \in Positions(sid) /\ AdapterAt(sid, k).id = id
              ELSE /\ a \in Arrays /\ k \in 1 .. Len(array[a]) /\ array[a][k] # Nil
                   /\ array[a][k].id = id
                   /\ array[a][k].status = "running" /\ array[a][k].last = "recent"
        BY <4>2 DEF Shows
      <4>4. PICK q \in Positions(sid) :
                 /\ Holds(sid) /\ AdapterAt(sid, q).id = id
                 /\ AdapterAt(sid, q).status = "running"
                 /\ AdapterAt(sid, q).last = "recent"
        BY <1>1, <1>2, <2>2, InUseFacts
      <4>5. CASE k = l.idx
        <5>1. CASE a = Arr(sid)
          <6>1. k = q
            BY <1>1, <2>2, <4>3, <4>4, <5>1 DEF Apart, IdsDiffer
          <6>2. Current(Idle) = AdapterAt(sid, q)
            BY <4>1, <4>5, <5>1, <6>1 DEF Current, AdapterAt, Arr
          <6>3. QED
            BY <1>6, <4>4, <6>2
        <5>2. CASE a # Arr(sid)
          BY <1>6, <4>1, <4>3, <4>5, <5>2 DEF Current
        <5>3. QED
          BY <5>1, <5>2
      <4>6. CASE k # l.idx
        <5>1. k \in i .. n
          BY <1>1, <4>1, <4>3, <4>6 DEF Local
        <5>2. QED
          BY <4>3, <5>1 DEF Shows
      <4>7. QED
        BY <4>5, <4>6
    <3>3. QED
      BY <3>1, <3>2
  <2>3. QED
    BY <1>1, <1>2, <1>3, <2>1, <2>2 DEF SpareInv, Stopping
<1>7. CASE Ranging(l)
  <2>1. l = [l EXCEPT !.idle = l.idle] /\ l.idle \in BOOLEAN
    BY <1>1 DEF Local
  <2>2. [l EXCEPT !.idx = @ + 1] = [l EXCEPT !.idx = @ + 1, !.idle = l.idle]
    BY <1>1 DEF Local
  <2>3. QED
    BY <1>4, <1>6, <1>7, <2>1, <2>2 DEF Examine
<1>8. QED
  BY <1>4, <1>5, <1>7 DEF Examine

LEMMA StoppingSpares ==
    ASSUME SystemInv, SystemInv', SerialInv, SpareInv, ~LocalMode, Continue(Idle),
           ArraysStay, \A sid \in ScenarioIds : Moving(sid)
    PROVE  SpareInv'
<1> DEFINE l == local[Idle]
           m == local'[Idle]
<1>1. /\ local \in [Processes -> Local] /\ Idle \in Processes /\ l \in Local
      /\ HeapInv /\ LocalsInv /\ snapshot' = snapshot
  BY ContinueKeeps DEF SystemInv, LocalsInv, Processes
<1>2. steady' \subseteq steady /\ steady' \subseteq InUseNow'
  BY <1>1, ContinueSteady DEF SpareInv
<1>3. /\ Pick(Idle) \/ Scale(Idle) \/ MarkStopped(Idle) \/ Finish(Idle)
      /\ l.op = "idle" /\ l.sid \in ScenarioIds
  BY IdleContinues
<1>4. ASSUME m.pc # "examine",
             Stopping' => Stopping /\ m.sid = l.sid,
             m.pc \in {"scale", "markStopped"} =>
                m.sid \in ScenarioIds /\ m.aid[1] = m.sid
      PROVE  SpareInv'
  <2>1. \A sid \in ScenarioIds : \A a, n, i :
           Ahead(sid, a, n, i)' => Ahead(sid, a, n, i)
    BY <1>1, <1>4 DEF Ahead
  <2>2. QED
    BY <1>2, <1>4, <2>1, StillAhead
<1>5. CASE Pick(Idle)
  <2>1. l.pc = "pick"
    BY <1>5 DEF Pick, At
  <2>2. CASE Goto(Idle, "finish")
    <3>1. m.pc = "finish" /\ m.sid = l.sid
      BY <1>1, <2>2, GotoGoes DEF Goes, SameRequest
    <3>2. QED
      BY <1>4, <2>1, <3>1 DEF Stopping
  <2>3. CASE NextAdapter(Idle)
    <3>1. m.pc = "pick" /\ m.sid = l.sid
      BY <1>1, <2>3, NextAdvances DEF Advances, SameRequest
    <3>2. QED
      BY <1>4, <2>1, <3>1 DEF Stopping
  <2>4. CASE /\ Ranging(l)
             /\ Set(Idle, [l EXCEPT !.pc = FirstStep(l.op), !.cur = Current(Idle),
                              !.aid = Current(Idle).id,
                              !.url = IF LocalMode THEN "local" ELSE "none"])
    <3>1. Current(Idle).id[1] = l.sid
      <4>1. l.op \in LoopOps /\ l.pc # "choose"
        BY <1>3, <2>1 DEF LoopOps
      <4>2. ~LocalMode => Current(Idle).id[1] = l.sid
        BY <1>1, <2>4, <4>1, CurrentFacts
      <4>3. QED
        BY <4>2
    <3>2. FirstStep(l.op) = "scale"
      BY <1>3 DEF FirstStep
    <3>3. m = [l EXCEPT !.pc = FirstStep(l.op), !.cur = Current(Idle),
                              !.aid = Current(Idle).id,
                              !.url = IF LocalMode THEN "local" ELSE "none"]
      BY <1>1, <2>4 DEF Set
    <3>4. m.pc = "scale" /\ m.sid = l.sid /\ m.aid = Current(Idle).id
      BY <1>1, <3>2, <3>3 DEF Local
    <3>5. QED
      BY <1>3, <1>4, <2>1, <3>1, <3>4 DEF Stopping
  <2>5. QED
    BY <1>5, <2>2, <2>3, <2>4 DEF Pick
<1>6. CASE Scale(Idle)
  <2>1. l.pc = "scale" /\ Goto(Idle, "markStopped")
    BY <1>6 DEF Scale, At
  <2>2. m.pc = "markStopped" /\ m.sid = l.sid /\ m.aid = l.aid
    BY <1>1, <2>1, GotoGoes DEF Goes, SameRequest
  <2>3. l.aid[1] = l.sid
    BY <2>1 DEF SpareInv
  <2>4. QED
    BY <1>3, <1>4, <2>1, <2>2, <2>3 DEF Stopping
<1>7. CASE MarkStopped(Idle)
  <2>1. l.pc = "markStopped" /\ NextAdapter(Idle)
    BY <1>3, <1>7 DEF MarkStopped, At
  <2>2. m.pc = "pick" /\ m.sid = l.sid
    BY <1>1, <2>1, NextAdvances DEF Advances, SameRequest
  <2>3. QED
    BY <1>4, <2>1, <2>2 DEF Stopping
<1>8. CASE Finish(Idle)
  <2>1. m = [Ready EXCEPT !.op = "idle", !.pc = "choose"]
    BY <1>1, <1>8 DEF Finish, Set
  <2>2. m.pc = "choose"
    BY <2>1 DEF Ready
  <2>3. QED
    BY <1>4, <2>2 DEF Stopping
<1>9. QED
  BY <1>3, <1>5, <1>6, <1>7, <1>8

LEMMA SpareStep ==
    ASSUME OneByOne, ~LocalMode, SystemInv, SystemInv', SerialInv, SpareInv, [Next]_vars
    PROVE  SpareInv'
<1>1. StoreInv /\ steady \subseteq InUseNow /\ CountersInv
      /\ local \in [Processes -> Local] /\ Idle \in Processes
      /\ \A q \in Reqs : q \in Processes /\ q # Idle
  BY ControlPlaneAssumption DEF SystemInv, HeapInv, LocalsInv, Processes, SpareInv
<1>2. UNCHANGED storeVars => ArraysStay /\ \A sid \in ScenarioIds : Moving(sid)
  BY <1>1, UnwrittenStays, UnchangedAdapters, KeptBy, Movements DEF storeVars, Arr
<1>3. CASE OneStep
  <2>1. /\ steady' \subseteq steady /\ steady' \subseteq InUseNow'
        /\ UNCHANGED <<local, snapshot>>
    BY <1>1, <1>3, OneStepSteady
  <2>2. ArraysStay /\ \A sid \in ScenarioIds : Holds(sid) => Moving(sid)
    BY <1>3, OneStepStays, OneStepMoving
  <2>3. QED
    BY <2>1, <2>2, WaitingSpares
<1>4. ASSUME NEW p \in Reqs, Begin(p)
      PROVE  SpareInv'
  <2>1. UNCHANGED <<storeVars, snapshot>> /\ local'[Idle] = local[Idle]
    BY <1>1, <1>4, BeginFrame, BeginEffect
  <2>2. steady' = steady
    BY <1>4 DEF Begin, BeginLoop, BeginAdapter, BeginCleanup
  <2>3. steady' \subseteq InUseNow'
    BY <1>1, <2>1, <2>2, InUseStays
  <2>4. QED
    BY <1>2, <2>1, <2>2, <2>3, WaitingSpares
<1>5. ASSUME NEW p \in Reqs, Continue(p)
      PROVE  SpareInv'
  <2>1. p \in Processes /\ snapshot' = snapshot
    BY <1>1, <1>5, ContinueKeeps
  <2>2. local'[Idle] = local[Idle]
    <3>1. \E l \in Local : Set(p, l)
      BY <1>1, <1>5, <2>1, ContinueMoves DEF Moves, SystemInv
    <3>2. QED
      BY <1>1, <3>1, SetFacts
  <2>3. /\ steady' \subseteq steady /\ steady' \subseteq InUseNow'
        /\ RemoveAdapter(p) /\ At(Idle, "examine") => steady' = {}
    BY <1>1, <1>5, <2>1, ContinueSteady
  <2>4. ArraysStay
    BY <1>5, ContinueStays
  <2>5. \A sid \in ScenarioIds : Holds(sid)' =>
           Moving(sid) \/ (MovingUp(sid) /\ RemoveAdapter(p))
    BY <1>5, RequestMoves
  <2>6. QED
    BY <2>1, <2>2, <2>3, <2>4, <2>5, WaitingSpares
<1>6. CASE IdleStep
  <2>1. ArraysStay /\ \A sid \in ScenarioIds : Moving(sid)
    BY <1>6, IdleMoving
  <2>2. QED
    BY <1>6, <2>1, ListScenariosSpares, ChooseScenarioSpares, ExamineSpares, StoppingSpares
       DEF IdleStep
<1>7. CASE Wait
  <2>1. Elapsed /\ UNCHANGED local /\ Remember
    BY <1>7, WorldEffects DEF Wait
  <2>2. InUseNow' = {}
    <3>1. ASSUME NEW sid \in ScenarioIds, NEW k \in Positions(sid)'
          PROVE  AdapterAt(sid, k)'.last # "recent"
      <4>1. k \in Positions(sid)
        BY <2>1, <3>1, SamePositions DEF Elapsed
      <4>2. AdapterAt(sid, k) \in AdapterRecord
        BY <1>1, <4>1, LookupFacts
      <4>3. AdapterAt(sid, k)' = [AdapterAt(sid, k) EXCEPT
               !.last = IF @ = "recent" THEN "old" ELSE @]
        BY <2>1, <4>1 DEF Elapsed
      <4>4. QED
        BY <4>2, <4>3 DEF AdapterRecord
    <3>2. QED
      BY <3>1 DEF InUseNow, Scenarios
  <2>3. steady' = {}
    BY <2>1, <2>2 DEF Remember
  <2>4. QED
    BY <2>1, <2>3 DEF SpareInv
<1>8. CASE Restart
  <2>1. steady' = {} /\ local'[Idle] = Ready
    BY <1>1, <1>8 DEF Restart
  <2>2. QED
    BY <2>1 DEF SpareInv, Ready
<1>9. CASE UNCHANGED vars
  <2>1. UNCHANGED <<storeVars, local, snapshot, steady>>
    BY <1>9 DEF vars, controlVars
  <2>2. UNCHANGED storeVars /\ local' = local /\ snapshot' = snapshot /\ steady' = steady
    BY <2>1
  <2>3. steady' \subseteq InUseNow'
    BY <1>1, <2>2, InUseStays
  <2>4. QED
    BY <1>2, <2>2, <2>3, WaitingSpares
<1>10. QED
  BY <1>3, <1>4, <1>5, <1>6, <1>7, <1>8, <1>9 DEF Next

(* The check of the idle shutdown stops no adapter that was running and    *)
(* used when it listed the scenarios and is so still, whatever one request *)
(* at a time, reports and failing calls do to the store meanwhile: what    *)
(* the check captured shows each such adapter until it has seen it.        *)
(* Nothing is claimed once an adapter was deleted while the check examined *)
(* a slice, which may have led it past another: steady is empty then.      *)
THEOREM IdleCheckSparesUsed ==
    ASSUME OneByOne, ~LocalMode PROVE Spec => []IdleSparesUsed
<1>1. Init => SpareInv
  <2>1. ASSUME Init
        PROVE  steady = {} /\ local[Idle] = Ready
    BY <2>1 DEF Init, Processes
  <2>2. QED
    BY <2>1 DEF SpareInv, Ready
<1>2. SystemInv /\ SystemInv' /\ SerialInv /\ SpareInv /\ [Next]_vars => SpareInv'
  BY SpareStep
<1>3. SpareInv => IdleSparesUsed
  BY DEF SpareInv, Stopping, IdleSparesUsed, At
<1>4. QED
  BY <1>1, <1>2, <1>3, SystemInvariant, Serial, PTL DEF Spec

=============================================================================
