--------------------------- MODULE CatalogProofs ----------------------------
(***************************************************************************)
(* The heap of pointers and slices implements the map of plain values: by  *)
(* itself (StoreSpec) and at the bottom of the control plane (Spec), whose *)
(* handlers write through pointers and keep slices that went stale.        *)
(*                                                                         *)
(* Each operation changes the value of one scenario (PutFacts); which      *)
(* operation of the catalog it is follows from its effect on the slots of  *)
(* that scenario's slice (MemoryStoreProofs), and that no other scenario   *)
(* notices, from NoAliasing.                                               *)
(***************************************************************************)
EXTENDS ControlPlaneProofs

(* The catalog speaks of the same things.                                  *)
LEMMA SameWords ==
    /\ Promised!ScenarioIds = ScenarioIds /\ Promised!Statuses = Statuses
    /\ Promised!Urls = Urls /\ Promised!Seconds = Seconds /\ Promised!Keys = Keys
    /\ \A g : Promised!FromFile(g) = FromFile(g)
    /\ \A xs, sid : Promised!CloneOf(xs, sid) = CloneOf(xs, sid)
    /\ \A x, status : Promised!WithStatus(x, status) = WithStatus(x, status)
    /\ \A x : Promised!Aged(x) = Aged(x)
    /\ \A xs, id, i : Promised!FirstAt(xs, id, i) = FirstAt(xs, id, i)
    /\ \A sid, type, n : Promised!NewAdapterId(sid, type, n) = NewAdapterId(sid, type, n)
    /\ \A type, id : Promised!RequestKeys(type, id) = RequestKeys(type, id)
    /\ \A id, name, type, key :
          Promised!NewAdapter(id, name, type, key) = NewAdapter(id, name, type, key)
<1>1. /\ \A id, name, type, key :
            Promised!NewAdapter(id, name, type, key) = NewAdapter(id, name, type, key)
      /\ \A sid, type, i : Promised!PositionId(sid, type, i) = PositionId(sid, type, i)
      /\ \A type, id : Promised!HostKey(type, id) = HostKey(type, id)
  BY DEF Promised!NewAdapter, NewAdapter, Promised!PositionId, PositionId,
         Promised!HostKey, HostKey, Promised!Sftp, Sftp
<1>2. \A g : Promised!FromFile(g) = FromFile(g)
  BY <1>1 DEF Promised!FromFile, FromFile
<1>3. \A xs, sid : Promised!CloneOf(xs, sid) = CloneOf(xs, sid)
  BY <1>1 DEF Promised!CloneOf, CloneOf
<1>4. /\ Promised!ScenarioIds = ScenarioIds /\ Promised!Statuses = Statuses
      /\ Promised!Urls = Urls /\ Promised!Seconds = Seconds /\ Promised!Keys = Keys
  BY DEF Promised!ScenarioIds, ScenarioIds, Promised!Statuses, Statuses, Promised!Urls,
         Urls, Promised!Seconds, Seconds, Promised!Keys, Keys, Promised!AdapterIds, AdapterIds,
         Promised!OfSender, OfSender
<1>5. /\ \A x, status : Promised!WithStatus(x, status) = WithStatus(x, status)
      /\ \A x : Promised!Aged(x) = Aged(x)
  BY DEF Promised!WithStatus, WithStatus, Promised!Aged, Aged
<1>6. \A xs, id, i : Promised!FirstAt(xs, id, i) = FirstAt(xs, id, i)
  BY DEF Promised!FirstAt, FirstAt
<1>7. /\ \A sid, type, n : Promised!NewAdapterId(sid, type, n) = NewAdapterId(sid, type, n)
      /\ \A type, id : Promised!RequestKeys(type, id) = RequestKeys(type, id)
  BY DEF Promised!NewAdapterId, NewAdapterId, Promised!localAdapterIDs, localAdapterIDs,
         Promised!SenderTypes, SenderTypes, Promised!OfSender, OfSender, Promised!RequestKeys, RequestKeys,
         Promised!Sftp, Sftp
<1>8. QED
  BY <1>1, <1>2, <1>3, <1>4, <1>5, <1>6, <1>7

(* The value of one scenario.                                              *)
LEMMA ValueOf ==
    ASSUME StoreInv, NEW sid \in ScenarioIds
    PROVE  /\ ~ Holds(sid) => Value[sid] = Nil
           /\ Holds(sid) =>
                 /\ Value[sid] # Nil
                 /\ Value[sid] = [ adapters |-> View(catalog[sid]),
                                   name |-> object[catalog[sid]].name,
                                   status |-> object[catalog[sid]].status,
                                   source |-> object[catalog[sid]].source ]
                 /\ Value[sid].adapters = View(catalog[sid])
<1>1. CASE ~ Holds(sid)
  BY <1>1 DEF Value, Holds
<1>2. CASE Holds(sid)
  <2> DEFINE o == catalog[sid]
             v == [ adapters |-> View(o), name |-> object[o].name,
                    status |-> object[o].status, source |-> object[o].source ]
  <2>1. Value[sid] = v
    BY <1>2 DEF Value, Holds
  <2>2. o \in Objects /\ object[o] # Nil
    BY <1>2, CatalogFacts DEF Holds
  <2> HIDE DEF o
  <2>3. View(o) \in Seq(AdapterRecord) /\ object[o] \in ScenarioStruct
    BY <2>2, ViewType, SliceFacts
  <2>4. v \in [adapters : Seq(AdapterRecord), name : Titles,
               status : Statuses, source : Sources]
    BY <2>3 DEF ScenarioStruct
  <2>5. v # Nil
    BY <2>4, HeapAssumption
  <2>6. Value[sid].adapters = View(o)
    BY <2>1
  <2>7. QED
    BY <1>2, <2>1, <2>5, <2>6 DEF o
<1>3. QED
  BY <1>1, <1>2

HeldHaveValue == \A sid \in ScenarioIds : Holds(sid) => Value[sid] # Nil

LEMMA HeldHasValue == StoreInv => HeldHaveValue
BY ValueOf DEF HeldHaveValue

Labelled(xs, name, status, source) ==
    [adapters |-> xs, name |-> name, status |-> status, source |-> source]

(* A scenario with other adapters, another name, another status.           *)
LEMMA AdaptersExcept ==
    ASSUME NEW xs, NEW name, NEW status, NEW source, NEW e
    PROVE  [Labelled(xs, name, status, source) EXCEPT !.adapters = e] = Labelled(e, name, status, source)
<1> DEFINE v == Labelled(xs, name, status, source)
           w == [v EXCEPT !.adapters = e]
<1>1. v = [adapters |-> xs, name |-> name, status |-> status, source |-> source]
  BY DEF Labelled
<1> HIDE DEF v
<1>2. [adapters |-> e, name |-> name, status |-> status, source |-> source] = w
  BY <1>1
<1> HIDE DEF w
<1>3. w = Labelled(e, name, status, source)
  BY <1>2 DEF Labelled
<1>4. QED
  BY <1>3 DEF v, w

LEMMA NameExcept ==
    ASSUME NEW xs, NEW name, NEW status, NEW source, NEW e
    PROVE  [Labelled(xs, name, status, source) EXCEPT !.name = e] = Labelled(xs, e, status, source)
<1> DEFINE v == Labelled(xs, name, status, source)
           w == [v EXCEPT !.name = e]
<1>1. v = [adapters |-> xs, name |-> name, status |-> status, source |-> source]
  BY DEF Labelled
<1> HIDE DEF v
<1>2. [adapters |-> xs, name |-> e, status |-> status, source |-> source] = w
  BY <1>1
<1> HIDE DEF w
<1>3. w = Labelled(xs, e, status, source)
  BY <1>2 DEF Labelled
<1>4. QED
  BY <1>3 DEF v, w

LEMMA StatusExcept ==
    ASSUME NEW xs, NEW name, NEW status, NEW source, NEW e
    PROVE  [Labelled(xs, name, status, source) EXCEPT !.status = e] = Labelled(xs, name, e, source)
<1> DEFINE v == Labelled(xs, name, status, source)
           w == [v EXCEPT !.status = e]
<1>1. v = [adapters |-> xs, name |-> name, status |-> status, source |-> source]
  BY DEF Labelled
<1> HIDE DEF v
<1>2. [adapters |-> xs, name |-> name, status |-> e, source |-> source] = w
  BY <1>1
<1> HIDE DEF w
<1>3. w = Labelled(xs, name, e, source)
  BY <1>2 DEF Labelled
<1>4. QED
  BY <1>3 DEF v, w

LEMMA PutFacts ==
    ASSUME NEW sid \in ScenarioIds, NEW v, Value'[sid] = v,
           \A t \in ScenarioIds : t # sid => Value'[t] = Value[t]
    PROVE  Promised!Put(sid, v)
<1>1. Value' = [t \in ScenarioIds |-> Value'[t]] /\ Value = [t \in ScenarioIds |-> Value[t]]
  BY DEF Value
<1>2. [Value EXCEPT ![sid] = v] = [t \in ScenarioIds |-> IF t = sid THEN v ELSE Value[t]]
  BY <1>1
<1>3. QED
  BY <1>1, <1>2 DEF Promised!Put

(* Other adapters, another name, another status.                           *)
LEMMA AdaptersPut ==
    ASSUME NEW sid \in ScenarioIds, NEW xs, NEW name, NEW status, NEW source, NEW e,
           Value[sid] = Labelled(xs, name, status, source),
           Value'[sid] = Labelled(e, name, status, source),
           \A t \in ScenarioIds : t # sid => Value'[t] = Value[t]
    PROVE  Promised!PutAdapters(sid, e)
<1> DEFINE w == Value
<1>1. /\ w[sid] = Labelled(xs, name, status, source)
      /\ w'[sid] = Labelled(e, name, status, source)
  OBVIOUS
<1> HIDE DEF w
<1>2. w'[sid] = [w[sid] EXCEPT !.adapters = e]
  BY <1>1, AdaptersExcept
<1>3. QED
  BY <1>2, PutFacts DEF w, Promised!PutAdapters

LEMMA NamePut ==
    ASSUME NEW sid \in ScenarioIds, NEW xs, NEW name, NEW status, NEW source,
           Value[sid] = Labelled(xs, name, status, source),
           Value'[sid] = Labelled(xs, "edited", status, source),
           \A t \in ScenarioIds : t # sid => Value'[t] = Value[t]
    PROVE  Value[sid] # Nil => Promised!Rename(sid)
<1> DEFINE w == Value
<1>1. /\ w[sid] = Labelled(xs, name, status, source)
      /\ w'[sid] = Labelled(xs, "edited", status, source)
  OBVIOUS
<1> HIDE DEF w
<1>2. w'[sid] = [w[sid] EXCEPT !.name = "edited"]
  BY <1>1, NameExcept
<1>3. QED
  BY <1>2, PutFacts DEF w, Promised!Rename

LEMMA StatusPut ==
    ASSUME NEW sid \in ScenarioIds, NEW xs, NEW name, NEW status, NEW source, NEW e,
           Value[sid] = Labelled(xs, name, status, source),
           Value'[sid] = Labelled(xs, name, e, source),
           \A t \in ScenarioIds : t # sid => Value'[t] = Value[t]
    PROVE  Value[sid] # Nil => Promised!SetStatus(sid, e)
<1> DEFINE w == Value
<1>1. /\ w[sid] = Labelled(xs, name, status, source)
      /\ w'[sid] = Labelled(xs, name, e, source)
  OBVIOUS
<1> HIDE DEF w
<1>2. w'[sid] = [w[sid] EXCEPT !.status = e]
  BY <1>1, StatusExcept
<1>3. QED
  BY <1>2, PutFacts DEF w, Promised!SetStatus


-----------------------------------------------------------------------------
(* The values of the others.                                               *)

(* A step that, of the structs there are, changes at most o and its slots. *)
Spares(o) ==
    \A p \in Objects : p # o /\ object[p] # Nil =>
        /\ object'[p] = object[p]
        /\ \A k \in 1 .. object[p].len : array'[object[p].arr][k] = array[object[p].arr][k]

LEMMA SparedValue ==
    ASSUME StoreInv, NEW o, Spares(o), NEW t \in ScenarioIds,
           catalog'[t] = catalog[t], catalog[t] # o
    PROVE  Value'[t] = Value[t]
<1>1. CASE catalog[t] = Nil
  BY <1>1 DEF Value
<1>2. CASE catalog[t] # Nil
  <2> DEFINE p == catalog[t]
  <2>1. p \in Objects /\ object[p] # Nil
    BY <1>2, CatalogFacts
  <2>p. p' = p
    OBVIOUS
  <2> HIDE DEF p
  <2>2. /\ object'[p] = object[p]
        /\ \A k \in 1 .. object[p].len : array'[object[p].arr][k] = array[object[p].arr][k]
    BY <2>1 DEF Spares, p
  <2>3. View(p)' = View(p)
    <3>1. View(p) = [k \in 1 .. object[p].len |-> array[object[p].arr][k]]
      BY DEF View, Slots
    <3>2. View(p)' = [k \in 1 .. object'[p].len |-> array'[object'[p].arr][k]]
      BY <2>p DEF View, Slots
    <3>3. QED
      BY <2>2, <3>1, <3>2
  <2>4. /\ Value[t] = [ adapters |-> View(p), name |-> object[p].name,
                        status |-> object[p].status, source |-> object[p].source ]
        /\ Value'[t] = [ adapters |-> View(p)', name |-> object'[p].name,
                         status |-> object'[p].status, source |-> object'[p].source ]
    BY <1>2 DEF Value, p
  <2>5. QED
    BY <2>2, <2>3, <2>4
<1>3. QED
  BY <1>1, <1>2

(* Structs other than o have other arrays, and these have slots.           *)
LEMMA OtherArrays ==
    ASSUME StoreInv, NEW o, NEW p \in Objects, p # o, object[p] # Nil,
           NEW k \in 1 .. object[p].len
    PROVE  /\ object[p].arr \in Arrays /\ k \in 1 .. Len(array[object[p].arr])
           /\ o \in Objects /\ object[o] # Nil => object[p].arr # object[o].arr
           /\ array[object[p].arr] # <<>>
<1>1. /\ object[p].len \in Nat /\ object[p].arr \in Arrays
      /\ object[p].len <= Len(array[object[p].arr])
  BY SliceFacts DEF Arrays, NoArray
<1>2. array[object[p].arr] \in Seq(AdapterRecord \cup {Nil})
  BY <1>1 DEF StoreInv, StoreTypeOK
<1>3. k \in 1 .. Len(array[object[p].arr])
  BY <1>1, <1>2
<1>4. array[object[p].arr] # <<>>
  BY <1>1, <1>3, LenProperties
<1>5. o \in Objects /\ object[o] # Nil => object[p].arr # object[o].arr
  BY <1>1 DEF StoreInv, NoAliasing, Arrays, NoArray
<1>6. QED
  BY <1>1, <1>3, <1>4, <1>5

(* The scenario sid gets the adapters xs.                                  *)
LEMMA PutAdaptersFacts ==
    ASSUME StoreInv, NEW sid \in ScenarioIds, Holds(sid), UNCHANGED catalog,
           Spares(catalog[sid]), NEW r, object'[catalog[sid]] = r,
           r.name = object[catalog[sid]].name, r.status = object[catalog[sid]].status,
           r.source = object[catalog[sid]].source,
           NEW xs, xs = [j \in 1 .. r.len |-> array'[r.arr][j]]
    PROVE  Promised!PutAdapters(sid, xs)
<1> DEFINE o == catalog[sid]
<1>1. o # Nil
  BY DEF Holds
<1>2. \A t \in ScenarioIds : t # sid => Value'[t] = Value[t]
  BY <1>1, SparedValue, CatalogFacts
<1>3. Value[sid] = [ adapters |-> View(o), name |-> object[o].name,
                     status |-> object[o].status, source |-> object[o].source ]
  BY ValueOf
<1>4. Value'[sid] = [ adapters |-> View(o)', name |-> object'[o].name,
                      status |-> object'[o].status, source |-> object'[o].source ]
  BY <1>1 DEF Value
<1>5. View(o)' = xs
  BY DEF View, Slots
<1>6. /\ Value[sid] = Labelled(View(o), r.name, r.status, r.source)
      /\ Value'[sid] = Labelled(xs, r.name, r.status, r.source)
  BY <1>3, <1>4, <1>5 DEF Labelled
<1> HIDE DEF o
<1>7. QED
  BY <1>2, <1>6, AdaptersPut

(* The scenario sid gets other labels.                                     *)
LEMMA PutLabelsFacts ==
    ASSUME StoreInv, NEW sid \in ScenarioIds, Holds(sid), UNCHANGED <<catalog, array>>,
           NEW r, object'[catalog[sid]] = r,
           \A p \in Objects : p # catalog[sid] => object'[p] = object[p],
           r.arr = object[catalog[sid]].arr, r.len = object[catalog[sid]].len
    PROVE  /\ Value'[sid] = Labelled(View(catalog[sid]), r.name, r.status, r.source)
           /\ \A t \in ScenarioIds : t # sid => Value'[t] = Value[t]
           /\ Value[sid] = Labelled(View(catalog[sid]), object[catalog[sid]].name,
                  object[catalog[sid]].status, object[catalog[sid]].source)
<1> DEFINE o == catalog[sid]
<1>1. o # Nil /\ o \in Objects /\ object \in [Objects -> ScenarioStruct \cup {Nil}]
  BY CatalogFacts DEF Holds, StoreInv, StoreTypeOK
<1>2. object'[o] = r /\ \A p \in Objects : p # o => object'[p] = object[p]
  OBVIOUS
<1>3. Spares(o)
  BY <1>2 DEF Spares
<1>4. \A t \in ScenarioIds : t # sid => Value'[t] = Value[t]
  BY <1>1, <1>3, SparedValue, CatalogFacts
<1>5. Value'[sid] = [ adapters |-> View(o)', name |-> object'[o].name,
                      status |-> object'[o].status, source |-> object'[o].source ]
  BY <1>1 DEF Value
<1>6. View(o)' = View(o)
  BY <1>2 DEF View, Slots
<1>7. Value[sid] = Labelled(View(o), object[o].name, object[o].status, object[o].source)
  BY ValueOf DEF Labelled
<1>8. QED
  BY <1>2, <1>4, <1>5, <1>6, <1>7 DEF Labelled

-----------------------------------------------------------------------------
(* The operations, one by one.                                             *)

LEMMA UnchangedValue ==
    ASSUME UNCHANGED storeVars
    PROVE  Value' = Value
BY DEF storeVars, Value, View, Slots

(* A slot is written: if the struct is that of a scenario, one of its      *)
(* adapters changes; nobody sees it if the map has forgotten the struct.   *)
LEMMA SetSlotPuts ==
    ASSUME StoreInv, NEW o \in Objects, object[o] # Nil,
           NEW i \in 1 .. object[o].len, NEW x \in AdapterRecord, SetSlot(o, i, x)
    PROVE  /\ \A sid \in ScenarioIds : catalog[sid] = o =>
                 Promised!PutAdapter(sid, i, x)
           /\ (\A sid \in ScenarioIds : catalog[sid] # o) => Value' = Value
<1> DEFINE a == object[o].arr
           n == object[o].len
<1>1. /\ UNCHANGED <<catalog, object>>
      /\ a \in Arrays /\ i \in 1 .. Len(array[a])
      /\ \A b \in Arrays : \A k \in 1 .. Len(array[b]) :
            array'[b][k] = IF b = a /\ k = i THEN x ELSE array[b][k]
  BY SetSlotEffect
<1>2. Spares(o)
  BY <1>1, OtherArrays DEF Spares
<1>3. ASSUME NEW sid \in ScenarioIds, catalog[sid] = o
      PROVE  Promised!PutAdapter(sid, i, x)
  <2> DEFINE xs == [j \in 1 .. n |-> array'[a][j]]
             vs == Value[sid].adapters
  <2>1. Holds(sid)
    BY <1>3, HeapAssumption DEF Holds, Objects
  <2>2. Promised!PutAdapters(sid, xs)
    BY <1>1, <1>2, <1>3, <2>1, PutAdaptersFacts
  <2>3. vs = View(o) /\ Len(vs) = n /\ n \in Nat
    BY <1>3, <2>1, ValueOf, ViewType, SliceFacts
  <2>4. ASSUME NEW j \in 1 .. n
        PROVE  array'[a][j] = IF j = i THEN x ELSE vs[j]
    <3>1. j \in 1 .. Len(array[a])
      <4>1. n <= Len(array[a]) /\ Len(array[a]) \in Nat
        BY <1>1, SliceFacts DEF StoreInv, StoreTypeOK, Arrays, NoArray
      <4>2. QED
        BY <2>3, <4>1
    <3>2. vs[j] = array[a][j]
      BY <2>3 DEF View, Slots
    <3>3. QED
      BY <1>1, <3>1, <3>2
  <2>5. xs = [j \in 1 .. Len(vs) |-> IF j = i THEN x ELSE vs[j]]
    BY <2>3, <2>4
  <2>6. QED
    BY <2>2, <2>5 DEF Promised!PutAdapter
<1>4. ASSUME \A sid \in ScenarioIds : catalog[sid] # o
      PROVE  Value' = Value
  <2>1. \A t \in ScenarioIds : Value'[t] = Value[t]
    BY <1>1, <1>2, <1>4, SparedValue
  <2>2. Value' = [t \in ScenarioIds |-> Value'[t]] /\ Value = [t \in ScenarioIds |-> Value[t]]
    BY DEF Value
  <2>3. QED
    BY <2>1, <2>2
<1>5. QED
  BY <1>3, <1>4

(* The position of an adapter in the slice is its position in the value.   *)
LEMMA PositionFacts ==
    ASSUME StoreInv, NEW sid \in ScenarioIds, NEW i \in Positions(sid)
    PROVE  /\ Value[sid] # Nil
           /\ i \in 1 .. Len(Value[sid].adapters)
           /\ Value[sid].adapters[i] = AdapterAt(sid, i)
           /\ AdapterAt(sid, i) \in AdapterRecord
           /\ \A id : Lookup(sid, id, i) => Promised!Reachable(sid, i)
<1> DEFINE o == catalog[sid]
<1>1. /\ Holds(sid) /\ o \in Objects /\ object[o] # Nil
      /\ i \in 1 .. object[o].len /\ AdapterAt(sid, i) \in AdapterRecord
  BY LookupFacts
<1>2. Value[sid] # Nil /\ Value[sid].adapters = View(o)
  BY <1>1, ValueOf
<1>3. Len(View(o)) = object[o].len /\ View(o)[i] = AdapterAt(sid, i)
  BY <1>1, ViewType, SliceFacts DEF AdapterAt
<1>4. ASSUME NEW id, Lookup(sid, id, i)
      PROVE  Promised!Reachable(sid, i)
  <2>1. FirstAt(View(o), id, i) /\ View(o)[i].id = id
    BY <1>4 DEF Lookup, AdaptersOf, FirstAt
  <2>2. Promised!FirstAt(Value[sid].adapters, Value[sid].adapters[i].id, i)
    BY <1>2, <2>1, SameWords
  <2>3. QED
    BY <1>1, <1>2, <1>3, <2>2 DEF Promised!Reachable
<1>5. QED
  BY <1>1, <1>2, <1>3, <1>4

LEMMA ChangesAdapter ==
    ASSUME NEW sid \in ScenarioIds, Value[sid] # Nil,
           NEW i \in 1 .. Len(Value[sid].adapters), Promised!ChangeAdapter(sid, i)
    PROVE  Promised!CatalogNext
BY SameWords DEF Promised!CatalogNext

(* The adapter that a method found is replaced by x.                       *)
LEMMA FoundPuts ==
    ASSUME StoreInv, NEW sid \in ScenarioIds, NEW i \in Positions(sid),
           NEW x \in AdapterRecord, SetSlot(catalog[sid], i, x)
    PROVE  Promised!PutAdapter(sid, i, x)
<1>1. /\ catalog[sid] \in Objects /\ object[catalog[sid]] # Nil
      /\ i \in 1 .. object[catalog[sid]].len
  BY LookupFacts
<1>2. QED
  BY <1>1, SetSlotPuts

LEMMA StatusRefines ==
    ASSUME StoreInv, NEW sid \in ScenarioIds, NEW id, NEW status \in Statuses,
           UpdateAdapterStatus(sid, id, status)
    PROVE  Value' = Value \/ Promised!CatalogNext
<1>1. CASE UNCHANGED storeVars
  BY <1>1, UnchangedValue
<1>2. ASSUME NEW i \in Positions(sid), Lookup(sid, id, i),
             SetSlot(catalog[sid], i, WithStatus(AdapterAt(sid, i), status))
      PROVE  Promised!CatalogNext
  <2> DEFINE x == AdapterAt(sid, i)
  <2>1. x \in AdapterRecord
    BY PositionFacts
  <2> HIDE DEF x
  <2>2. WithStatus(x, status) \in AdapterRecord
    BY <2>1 DEF WithStatus, AdapterRecord, Activity
  <2>3. Promised!PutAdapter(sid, i, WithStatus(x, status))
    BY <1>2, <2>2, FoundPuts DEF x
  <2>4. Promised!SetAdapterStatus(sid, i, status)
    BY <1>2, <2>3, PositionFacts, SameWords DEF Promised!SetAdapterStatus, x
  <2>5. Promised!ChangeAdapter(sid, i)
    BY <2>4, SameWords DEF Promised!ChangeAdapter
  <2>6. QED
    BY <2>5, PositionFacts, ChangesAdapter
<1>3. QED
  BY <1>1, <1>2 DEF UpdateAdapterStatus

LEMMA UrlRefines ==
    ASSUME StoreInv, NEW sid \in ScenarioIds, NEW i \in Positions(sid), NEW url \in Urls,
           SetSlot(catalog[sid], i, [AdapterAt(sid, i) EXCEPT !.url = url])
    PROVE  Promised!CatalogNext
<1> DEFINE x == AdapterAt(sid, i)
           y == [x EXCEPT !.url = url]
<1>1. x \in AdapterRecord
  BY PositionFacts
<1> HIDE DEF x
<1>2. y \in AdapterRecord
  BY <1>1 DEF AdapterRecord
<1>3. Promised!PutAdapter(sid, i, y)
  <2>1. SetSlot(catalog[sid], i, y)
    BY DEF x
  <2> HIDE DEF y
  <2>2. QED
    BY <1>2, <2>1, FoundPuts
<1>4. Promised!SetUrl(sid, i, url)
  BY <1>3, PositionFacts DEF Promised!SetUrl, x
<1>5. Promised!ChangeAdapter(sid, i)
  BY <1>4, SameWords DEF Promised!ChangeAdapter
<1>6. QED
  BY <1>5, PositionFacts, ChangesAdapter

LEMMA MarkRefines ==
    ASSUME StoreInv, NEW sid \in ScenarioIds, NEW i \in Positions(sid),
           SetSlot(catalog[sid], i, [AdapterAt(sid, i) EXCEPT !.status = "running"])
    PROVE  Promised!CatalogNext
<1> DEFINE x == AdapterAt(sid, i)
           y == [x EXCEPT !.status = "running"]
<1>1. x \in AdapterRecord
  BY PositionFacts
<1> HIDE DEF x
<1>2. y \in AdapterRecord
  BY <1>1 DEF AdapterRecord, Statuses
<1>3. Promised!PutAdapter(sid, i, y)
  <2>1. SetSlot(catalog[sid], i, y)
    BY DEF x
  <2> HIDE DEF y
  <2>2. QED
    BY <1>2, <2>1, FoundPuts
<1>4. Promised!MarkByIndex(sid, i)
  BY <1>3, PositionFacts DEF Promised!MarkByIndex, x
<1>5. Promised!ChangeAdapter(sid, i)
  BY <1>4 DEF Promised!ChangeAdapter
<1>6. QED
  BY <1>5, PositionFacts, ChangesAdapter

LEMMA TouchRefines ==
    ASSUME StoreInv, NEW id, RecordAdapterActivity(id)
    PROVE  Value' = Value \/ Promised!CatalogNext
<1>1. CASE UNCHANGED storeVars
  BY <1>1, UnchangedValue
<1>2. ASSUME NEW sid \in ScenarioIds, NEW i \in Positions(sid), Lookup(sid, id, i),
             SetSlot(catalog[sid], i, [AdapterAt(sid, i) EXCEPT !.last = "recent"])
      PROVE  Promised!CatalogNext
  <2> DEFINE x == AdapterAt(sid, i)
             y == [x EXCEPT !.last = "recent"]
  <2>1. x \in AdapterRecord
    BY PositionFacts
  <2> HIDE DEF x
  <2>2. y \in AdapterRecord
    BY <2>1 DEF AdapterRecord, Activity
  <2>3. Promised!PutAdapter(sid, i, y)
    <3>1. SetSlot(catalog[sid], i, y)
      BY <1>2 DEF x
    <3> HIDE DEF y
    <3>2. QED
      BY <2>2, <3>1, FoundPuts
  <2>4. Promised!Touch(sid, i)
    BY <1>2, <2>3, PositionFacts DEF Promised!Touch, x
  <2>5. Promised!ChangeAdapter(sid, i)
    BY <2>4 DEF Promised!ChangeAdapter
  <2>6. QED
    BY <2>5, PositionFacts, ChangesAdapter
<1>3. QED
  BY <1>1, <1>2 DEF RecordAdapterActivity

LEMMA UpdateRefines ==
    ASSUME StoreInv, NEW sid \in ScenarioIds, NEW id, NEW name \in Names \cup {Nil},
           NEW key \in Keys, UpdateAdapter(sid, id, name, key)
    PROVE  Value' = Value \/ Promised!CatalogNext
<1>1. CASE UNCHANGED storeVars
  BY <1>1, UnchangedValue
<1>2. ASSUME NEW i \in Positions(sid), Lookup(sid, id, i),
             SetSlot(catalog[sid], i,
                [AdapterAt(sid, i) EXCEPT
                    !.name = IF name = Nil THEN @ ELSE name, !.key = key])
      PROVE  Promised!CatalogNext
  <2> DEFINE x  == AdapterAt(sid, i)
             nm == IF name = Nil THEN x.name ELSE name
             y  == [x EXCEPT !.name = nm, !.key = key]
             ys == [j \in 1 .. Len(Value[sid].adapters) |->
                       IF j = i THEN y ELSE Value[sid].adapters[j]]
  <2>1. x \in AdapterRecord
    BY PositionFacts
  <2>2. SetSlot(catalog[sid], i, y)
    BY <1>2
  <2> HIDE DEF x
  <2>3. nm \in Names
    BY <2>1 DEF AdapterRecord
  <2> HIDE DEF nm
  <2>4. y \in AdapterRecord /\ y.key = key
    BY <2>1, <2>3 DEF AdapterRecord
  <2>5. Promised!PutAdapter(sid, i, y)
    <3> HIDE DEF y
    <3>1. QED
      BY <2>2, <2>4, FoundPuts
  <2>6. /\ Value[sid] # Nil /\ i \in 1 .. Len(Value[sid].adapters)
        /\ Value[sid].adapters[i] = x /\ Promised!Reachable(sid, i)
    BY <1>2, PositionFacts DEF x
  <2>7. Value' = [Value EXCEPT ![sid] = [Value[sid] EXCEPT !.adapters = ys]]
    BY <2>5 DEF Promised!PutAdapter, Promised!PutAdapters, Promised!Put
  <2>8. Value' = [t \in ScenarioIds |-> Value'[t]] /\ Value = [t \in ScenarioIds |-> Value[t]]
    BY DEF Value
  <2>9. Value'[sid] = [Value[sid] EXCEPT !.adapters = ys]
    BY <2>7, <2>8
  <2>10. \E v1, v2, v3, v4 : Value[sid] = [adapters |-> v1, name |-> v2, status |-> v3, source |-> v4]
    BY <2>6 DEF Value
  <2>11. Value'[sid].adapters = ys
    BY <2>9, <2>10
  <2>12. Holds(sid) /\ UNCHANGED <<catalog, object>>
    BY <1>2 DEF SetSlot, Positions
  <2>13. Value'[sid] # Nil
    <3>1. StoreInv'
      BY UpdateAdapterInv
    <3>2. StoreInv' => HeldHaveValue'
      BY HeldHasValue, PTL
    <3>3. QED
      BY <2>12, <3>1, <3>2 DEF Holds, HeldHaveValue
  <2>14. /\ i \in 1 .. Len(Value'[sid].adapters)
         /\ Value'[sid].adapters[i].key = key
    <3>1. Len(Value[sid].adapters) \in Nat
      BY <2>6, <2>12, ValueOf, ViewType, CatalogFacts DEF Holds
    <3>2. Len(ys) = Len(Value[sid].adapters) /\ ys[i] = y
      <4> HIDE DEF y
      <4>1. QED
        BY <2>6, <3>1
    <3> HIDE DEF y, ys
    <3>3. QED
      BY <2>4, <2>6, <2>11, <3>2
  <2>15. Promised!Configure(sid, i, nm)
    <3>1. key \in {Value'[sid].adapters[i].key} \cap Promised!Keys
      BY <2>14, SameWords
    <3>2. Promised!PutAdapter(sid, i,
             [Value[sid].adapters[i] EXCEPT !.name = nm, !.key = key])
      BY <2>5, <2>6
    <3>3. QED
      BY <2>6, <2>13, <2>14, <3>1, <3>2 DEF Promised!Configure
  <2>16. Promised!ChangeAdapter(sid, i)
    BY <2>3, <2>15 DEF Promised!ChangeAdapter
  <2>17. QED
    BY <2>6, <2>16, ChangesAdapter
<1>3. QED
  BY <1>1, <1>2 DEF UpdateAdapter

LEMMA PokeRefines ==
    ASSUME StoreInv, NEW o \in Objects, object[o] # Nil, NEW i \in 1 .. object[o].len,
           PokeStatus(o, i) \/ \E url \in Urls : PokeUrl(o, i, url)
    PROVE  Value' = Value \/ Promised!CatalogNext
<1> DEFINE x == array[object[o].arr][i]
<1>1. x \in AdapterRecord /\ View(o)[i] = x
  BY SliceFacts
<1>2. CASE \E sid \in ScenarioIds : catalog[sid] = o
  <2>1. PICK sid \in ScenarioIds : catalog[sid] = o
    BY <1>2
  <2>2. i \in Positions(sid) /\ AdapterAt(sid, i) = x
    BY <2>1, HeapAssumption DEF Positions, Holds, Objects, AdapterAt
  <2> HIDE DEF x
  <2>3. \/ SetSlot(catalog[sid], i, [AdapterAt(sid, i) EXCEPT !.status = "running"])
        \/ \E url \in Urls : SetSlot(catalog[sid], i, [AdapterAt(sid, i) EXCEPT !.url = url])
    BY <1>1, <2>1, <2>2 DEF PokeStatus, PokeUrl
  <2>4. QED
    BY <2>2, <2>3, MarkRefines, UrlRefines
<1>3. CASE \A sid \in ScenarioIds : catalog[sid] # o
  <2>1. \E y \in AdapterRecord : SetSlot(o, i, y)
    <3> HIDE DEF x
    <3>1. /\ [x EXCEPT !.status = "running"] \in AdapterRecord
          /\ \A url \in Urls : [x EXCEPT !.url = url] \in AdapterRecord
      BY <1>1 DEF AdapterRecord, Statuses
    <3>2. QED
      BY <1>1, <3>1 DEF PokeStatus, PokeUrl
  <2>2. QED
    BY <1>3, <2>1, SetSlotPuts
<1>4. QED
  BY <1>2, <1>3

LEMMA IngressUrlRefines ==
    ASSUME StoreInv, NEW sid \in ScenarioIds, NEW id, NEW url \in Urls,
           UpdateAdapterIngressURL(sid, id, url)
    PROVE  Value' = Value \/ Promised!CatalogNext
BY UnchangedValue, UrlRefines DEF UpdateAdapterIngressURL

(* append(a[:i], a[i+1:]...) removes the adapter at i and no other.        *)
LEMMA DeleteAdapterRefines ==
    ASSUME StoreInv, NEW sid \in ScenarioIds, NEW id, DeleteAdapter(sid, id)
    PROVE  Value' = Value \/ Promised!CatalogNext
<1>1. CASE UNCHANGED storeVars
  BY <1>1, UnchangedValue
<1>2. CASE ~ UNCHANGED storeVars
  <2> DEFINE o == catalog[sid]
             a == object[o].arr
             n == object[o].len
             r == [object[o] EXCEPT !.len = n - 1]
             xs == [j \in 1 .. r.len |-> array'[r.arr][j]]
             vs == Value[sid].adapters
  <2>0. PICK i \in Positions(sid) : TakenOut(sid, id, i)
    BY <1>2, DeleteAdapterEffect
  <2>1. /\ Lookup(sid, id, i)
        /\ UNCHANGED catalog
        /\ o \in Objects /\ object[o] # Nil /\ i \in 1 .. n
        /\ a \in Arrays /\ n \in Nat /\ n <= Len(array[a])
        /\ object' = [object EXCEPT ![o] = r]
        /\ \A b \in Arrays :
              /\ Len(array'[b]) = Len(array[b])
              /\ \A k \in 1 .. Len(array[b]) :
                    array'[b][k] = IF b = a /\ i <= k /\ k < n
                                   THEN array[b][k + 1] ELSE array[b][k]
    BY <2>0 DEF TakenOut
  <2>2. /\ Holds(sid) /\ object[o] \in ScenarioStruct
        /\ object \in [Objects -> ScenarioStruct \cup {Nil}] /\ n - 1 \in Nat
    BY <2>1, SliceFacts DEF Positions, StoreInv, StoreTypeOK
  <2>3. /\ r.arr = a /\ r.len = n - 1 /\ r.name = object[o].name
        /\ r.status = object[o].status /\ r.source = object[o].source
    BY <2>2 DEF ScenarioStruct
  <2> HIDE DEF r
  <2>4. object'[o] = r /\ \A p \in Objects : p # o => object'[p] = object[p]
    BY <2>1, <2>2
  <2>5. Spares(o)
    <3>1. ASSUME NEW p \in Objects, p # o, object[p] # Nil, NEW k \in 1 .. object[p].len
          PROVE  array'[object[p].arr][k] = array[object[p].arr][k]
      <4>1. /\ object[p].arr \in Arrays /\ k \in 1 .. Len(array[object[p].arr])
            /\ object[p].arr # a
        BY <2>1, <3>1, OtherArrays
      <4>2. QED
        BY <2>1, <4>1
    <3>2. QED
      BY <2>4, <3>1 DEF Spares
  <2>6. Promised!PutAdapters(sid, xs)
    BY <2>1, <2>2, <2>3, <2>4, <2>5, PutAdaptersFacts
  <2>7. vs = View(o) /\ Len(vs) = n
    BY <2>1, <2>2, ValueOf, ViewType
  <2>8. ASSUME NEW j \in 1 .. (n - 1)
        PROVE  array'[a][j] = vs[IF j < i THEN j ELSE j + 1]
    <3>1. /\ j \in 1 .. Len(array[a]) /\ j < n /\ j \in 1 .. n /\ j + 1 \in 1 .. n
          /\ i \in Nat
      <4>1. Len(array[a]) \in Nat
        BY <2>1 DEF StoreInv, StoreTypeOK
      <4>2. QED
        BY <2>1, <4>1
    <3>2. \A k \in 1 .. n : vs[k] = array[a][k]
      BY <2>7 DEF View, Slots
    <3>3. CASE j < i
      <4>1. array'[a][j] = array[a][j]
        BY <2>1, <3>1, <3>3
      <4>2. QED
        BY <3>1, <3>2, <3>3, <4>1
    <3>4. CASE ~ (j < i)
      <4>1. i <= j
        BY <2>1, <3>1, <3>4
      <4>2. array'[a][j] = array[a][j + 1]
        BY <2>1, <3>1, <4>1
      <4>3. QED
        BY <3>1, <3>2, <3>4, <4>2
    <3>5. QED
      BY <3>3, <3>4
  <2>9. xs = [j \in 1 .. Len(vs) - 1 |-> vs[IF j < i THEN j ELSE j + 1]]
    BY <2>3, <2>7, <2>8
  <2>10. Promised!Remove(sid, i)
    BY <2>1, <2>6, <2>9, PositionFacts DEF Promised!Remove
  <2>11. Promised!ChangeAdapter(sid, i)
    BY <2>10 DEF Promised!ChangeAdapter
  <2>12. QED
    BY <2>11, PositionFacts, ChangesAdapter
<1>3. QED
  BY <1>1, <1>2

(* append adds one adapter behind the others.                              *)
LEMMA AddAdapterPuts ==
    ASSUME StoreInv, NEW sid \in ScenarioIds, Holds(sid), NEW x \in AdapterRecord,
           AddAdapter(sid, x)
    PROVE  Promised!Add(sid, x)
<1> DEFINE o == catalog[sid]
           e == object[o].arr
           n == object[o].len
<1>0. PICK c \in Arrays : Appended(sid, x, c)
  BY AddAdapterEffect
<1>1. /\ UNCHANGED catalog
      /\ o \in Objects /\ object[o] # Nil /\ n \in Nat
      /\ object' = [object EXCEPT ![o] = [object[o] EXCEPT !.arr = c, !.len = n + 1]]
      /\ \A b \in Arrays : b # c => array'[b] = array[b]
      /\ c = e \/ array[c] = <<>>
      /\ c = e => /\ Len(array'[c]) = Len(array[c]) /\ n < Len(array[c])
                  /\ \A k \in 1 .. Len(array[c]) : k # n + 1 => array'[c][k] = array[c][k]
      /\ n + 1 \in 1 .. Len(array'[c])
      /\ array'[c][n + 1] = x
      /\ \A k \in 1 .. n : array'[c][k] = array[e][k]
  BY <1>0 DEF Appended
<1> DEFINE r == [object[o] EXCEPT !.arr = c, !.len = n + 1]
           xs == [j \in 1 .. r.len |-> array'[r.arr][j]]
           vs == Value[sid].adapters
<1>2. object[o] \in ScenarioStruct /\ object \in [Objects -> ScenarioStruct \cup {Nil}]
  BY <1>1, SliceFacts DEF StoreInv, StoreTypeOK
<1>3. /\ r.arr = c /\ r.len = n + 1 /\ r.name = object[o].name
      /\ r.status = object[o].status /\ r.source = object[o].source
  BY <1>2 DEF ScenarioStruct
<1>4. object' = [object EXCEPT ![o] = r]
  BY <1>1
<1> HIDE DEF r
<1>5. object'[o] = r /\ \A p \in Objects : p # o => object'[p] = object[p]
  BY <1>1, <1>2, <1>4
<1>6. Spares(o)
  <2>1. ASSUME NEW p \in Objects, p # o, object[p] # Nil, NEW k \in 1 .. object[p].len
        PROVE  array'[object[p].arr][k] = array[object[p].arr][k]
    <3>1. /\ object[p].arr \in Arrays /\ object[p].arr # e /\ array[object[p].arr] # <<>>
      BY <1>1, <2>1, OtherArrays
    <3>2. QED
      BY <1>1, <3>1
  <2>2. QED
    BY <1>5, <2>1 DEF Spares
<1>7. Promised!PutAdapters(sid, xs)
  BY <1>1, <1>3, <1>5, <1>6, PutAdaptersFacts
<1>8. vs = View(o) /\ Len(vs) = n /\ Value[sid] # Nil
  BY <1>1, ValueOf, ViewType
<1>9. ASSUME NEW j \in 1 .. (n + 1)
      PROVE  array'[c][j] = IF j <= n THEN vs[j] ELSE x
  <2>1. \A k \in 1 .. n : vs[k] = array[e][k]
    BY <1>8 DEF View, Slots
  <2>2. j \in 1 .. n \/ j = n + 1
    BY <1>1
  <2>3. QED
    BY <1>1, <2>1, <2>2
<1>10. xs = [j \in 1 .. Len(vs) + 1 |-> IF j <= Len(vs) THEN vs[j] ELSE x]
  BY <1>3, <1>8, <1>9
<1>11. QED
  BY <1>7, <1>8, <1>10 DEF Promised!Add

(* A new struct with a slice of its own is a scenario of that value.       *)
LEMMA PublishPuts ==
    ASSUME StoreInv, NEW sid \in ScenarioIds, NEW xs \in Seq(AdapterRecord),
           NEW source \in Sources, Publish(sid, xs, source)
    PROVE  Promised!Put(sid, Promised!Scenario(xs, source))
<1>1. PICK o \in Objects, r \in ScenarioStruct :
        /\ object[o] = Nil
        /\ catalog' = [catalog EXCEPT ![sid] = o]
        /\ object' = [object EXCEPT ![o] = r]
        /\ r.len = Len(xs) /\ r.name = "given"
        /\ r.status = "stopped" /\ r.source = source
        /\ r.arr = NoArray => xs = <<>>
        /\ r.arr # NoArray => array[r.arr] = <<>> /\ array'[r.arr] = xs
        /\ \A b \in Arrays : b # r.arr => array'[b] = array[b]
  BY PublishEffect
<1>2. /\ catalog \in [ScenarioIds -> Objects \cup {Nil}]
      /\ object \in [Objects -> ScenarioStruct \cup {Nil}] /\ o # Nil
  BY HeapAssumption DEF StoreInv, StoreTypeOK, Objects
<1>3. /\ catalog'[sid] = o /\ object'[o] = r
      /\ \A t \in ScenarioIds : t # sid => catalog'[t] = catalog[t]
      /\ \A p \in Objects : p # o => object'[p] = object[p]
  BY <1>1, <1>2
<1>4. Spares(o)
  <2>1. ASSUME NEW p \in Objects, p # o, object[p] # Nil, NEW k \in 1 .. object[p].len
        PROVE  array'[object[p].arr][k] = array[object[p].arr][k]
    <3>1. object[p].arr \in Arrays /\ array[object[p].arr] # <<>>
      BY <2>1, OtherArrays
    <3>2. r.arr # object[p].arr
      BY <1>1, <3>1 DEF Arrays, NoArray
    <3>3. QED
      BY <1>1, <3>1, <3>2
  <2>2. QED
    BY <1>3, <2>1 DEF Spares
<1>5. \A t \in ScenarioIds : catalog[t] # o
  BY <1>1, <1>2, CatalogFacts
<1>6. \A t \in ScenarioIds : t # sid => Value'[t] = Value[t]
  BY <1>3, <1>4, <1>5, SparedValue
<1>7. View(o)' = xs
  <2>1. View(o)' = [k \in 1 .. Len(xs) |-> array'[r.arr][k]]
    BY <1>1, <1>3 DEF View, Slots
  <2>2. Len(xs) \in Nat /\ xs = [k \in 1 .. Len(xs) |-> xs[k]] /\ Len(<<>>) = 0
    BY LenProperties
  <2>3. \A k \in 1 .. Len(xs) : array'[r.arr][k] = xs[k]
    BY <1>1, <2>2
  <2>4. QED
    BY <2>1, <2>2, <2>3
<1>8. Value'[sid] = [ adapters |-> View(o)', name |-> r.name,
                      status |-> r.status, source |-> r.source ]
  BY <1>2, <1>3 DEF Value
<1>9. Value'[sid] = Promised!Scenario(xs, source)
  BY <1>1, <1>7, <1>8 DEF Promised!Scenario
<1>10. QED
  BY <1>6, <1>9, PutFacts

LEMMA CreateScenarioRefines ==
    ASSUME StoreInv, NEW sid \in ScenarioIds, CreateScenario(sid)
    PROVE  Value' = Value \/ Promised!CatalogNext
<1>1. CASE Holds(sid)
  BY <1>1, UnchangedValue DEF CreateScenario
<1>2. CASE ~ Holds(sid)
  <2> DEFINE xs == <<>>
  <2>1. xs \in Seq(AdapterRecord) /\ "" \in Sources
    BY EmptySeq DEF Sources
  <2>2. Publish(sid, xs, "")
    BY <1>2 DEF CreateScenario
  <2> HIDE DEF xs
  <2>3. Promised!Put(sid, Promised!Scenario(xs, "")) /\ Value[sid] = Nil
    BY <1>2, <2>1, <2>2, PublishPuts, ValueOf
  <2>4. Promised!Create(sid)
    BY <2>3 DEF xs, Promised!Create
  <2>5. QED
    BY <2>4, SameWords DEF Promised!CatalogNext
<1>3. QED
  BY <1>1, <1>2

LEMMA LoadGitHubScenarioRefines ==
    ASSUME StoreInv, NEW g \in GithubIds, LoadGitHubScenario(g)
    PROVE  Value' = Value \/ Promised!CatalogNext
<1>1. CASE Holds(g)
  BY <1>1, UnchangedValue DEF LoadGitHubScenario
<1>2. CASE ~ Holds(g)
  <2>1. FromFile(g) \in Seq(AdapterRecord) /\ "github" \in Sources /\ g \in ScenarioIds
    BY FromFileType DEF Sources, ScenarioIds
  <2>2. Publish(g, FromFile(g), "github")
    BY <1>2 DEF LoadGitHubScenario
  <2>3. Promised!Put(g, Promised!Scenario(FromFile(g), "github")) /\ Value[g] = Nil
    BY <1>2, <2>1, <2>2, PublishPuts, ValueOf
  <2>4. Promised!FromFile(g) = FromFile(g)
    BY SameWords
  <2>5. Promised!Load(g)
    BY <2>3, <2>4 DEF Promised!Load
  <2>6. QED
    BY <2>5 DEF Promised!CatalogNext
<1>3. QED
  BY <1>1, <1>2

(* The clone is a deep copy: it takes the values the source has now.       *)
LEMMA CloneScenarioRefines ==
    ASSUME StoreInv, NEW src \in ScenarioIds, NEW sid \in ScenarioIds,
           CloneScenario(src, sid)
    PROVE  Value' = Value \/ Promised!CatalogNext
<1>1. CASE ~ Holds(src)
  BY <1>1, UnchangedValue DEF CloneScenario
<1>2. CASE Holds(src)
  <2> DEFINE xs == AdaptersOf(src)
             ys == CloneOf(xs, sid)
  <2>1. xs \in Seq(AdapterRecord) /\ xs = Value[src].adapters /\ Value[src] # Nil
    BY <1>2, CatalogFacts, ViewType, ValueOf DEF Holds, AdaptersOf
  <2>2. Publish(sid, ys, "user")
    BY <1>2 DEF CloneScenario
  <2> HIDE DEF xs
  <2>3. ys \in Seq(AdapterRecord) /\ "user" \in Sources
    BY <2>1, CloneOfType DEF Sources
  <2>4. ys = Promised!CloneOf(Value[src].adapters, sid)
    BY <2>1, SameWords
  <2> HIDE DEF ys
  <2>5. Promised!Put(sid, Promised!Scenario(ys, "user"))
    BY <2>2, <2>3, PublishPuts
  <2>6. Promised!Clone(src, sid)
    BY <2>1, <2>4, <2>5 DEF Promised!Clone
  <2>7. QED
    BY <2>6, SameWords DEF Promised!CatalogNext
<1>3. QED
  BY <1>1, <1>2

LEMMA DeleteScenarioRefines ==
    ASSUME StoreInv, NEW sid \in ScenarioIds, DeleteScenario(sid)
    PROVE  Value' = Value \/ Promised!CatalogNext
<1>1. catalog'[sid] = Nil /\ \A t \in ScenarioIds : t # sid => catalog'[t] = catalog[t]
  BY DEF DeleteScenario, StoreInv, StoreTypeOK
<1>2. \A t \in ScenarioIds : t # sid => Value'[t] = Value[t]
  BY <1>1 DEF DeleteScenario, Value, View, Slots
<1>3. Value'[sid] = Nil
  BY <1>1 DEF Value
<1>4. CASE Holds(sid)
  <2>1. Promised!Delete(sid)
    BY <1>2, <1>3, <1>4, PutFacts, ValueOf DEF Promised!Delete
  <2>2. QED
    BY <2>1, SameWords DEF Promised!CatalogNext
<1>5. CASE ~ Holds(sid)
  <2>1. \A t \in ScenarioIds : Value'[t] = Value[t]
    BY <1>2, <1>3, <1>5, ValueOf
  <2>2. Value' = [t \in ScenarioIds |-> Value'[t]] /\ Value = [t \in ScenarioIds |-> Value[t]]
    BY DEF Value
  <2>3. QED
    BY <2>1, <2>2
<1>6. QED
  BY <1>4, <1>5

LEMMA UpdateScenarioRefines ==
    ASSUME StoreInv, NEW sid \in ScenarioIds, UpdateScenario(sid)
    PROVE  Value' = Value \/ Promised!CatalogNext
<1>1. CASE ~ Holds(sid)
  BY <1>1, UnchangedValue DEF UpdateScenario, storeVars
<1>2. CASE Holds(sid)
  <2> DEFINE s == object[catalog[sid]]
             r == [s EXCEPT !.name = "edited"]
  <2>1. s \in ScenarioStruct
    BY <1>2, CatalogFacts, SliceFacts DEF Holds
  <2>2. /\ UNCHANGED <<catalog, array>> /\ object'[catalog[sid]] = r
        /\ \A p \in Objects : p # catalog[sid] => object'[p] = object[p]
    BY <1>2, CatalogFacts DEF UpdateScenario, Holds, StoreInv, StoreTypeOK
  <2> HIDE DEF s
  <2>3. /\ r.arr = s.arr /\ r.len = s.len /\ r.name = "edited"
        /\ r.status = s.status /\ r.source = s.source
    BY <2>1 DEF ScenarioStruct
  <2> HIDE DEF r
  <2>4. /\ Value'[sid] = Labelled(View(catalog[sid]), "edited", s.status, s.source)
        /\ \A t \in ScenarioIds : t # sid => Value'[t] = Value[t]
        /\ Value[sid] = Labelled(View(catalog[sid]), s.name, s.status, s.source)
    BY <1>2, <2>2, <2>3, PutLabelsFacts DEF s
  <2>5. Value[sid] # Nil
    BY <1>2, ValueOf
  <2>6. Promised!Rename(sid)
    BY <2>4, <2>5, NamePut
  <2>7. QED
    BY <2>6, SameWords DEF Promised!CatalogNext
<1>3. QED
  BY <1>1, <1>2

LEMMA UpdateScenarioStatusRefines ==
    ASSUME StoreInv, NEW sid \in ScenarioIds, NEW status \in Statuses,
           UpdateScenarioStatus(sid, status)
    PROVE  Value' = Value \/ Promised!CatalogNext
<1>1. CASE ~ Holds(sid)
  BY <1>1, UnchangedValue DEF UpdateScenarioStatus, storeVars
<1>2. CASE Holds(sid)
  <2> DEFINE s == object[catalog[sid]]
             r == [s EXCEPT !.status = status]
  <2>1. s \in ScenarioStruct
    BY <1>2, CatalogFacts, SliceFacts DEF Holds
  <2>2. /\ UNCHANGED <<catalog, array>> /\ object'[catalog[sid]] = r
        /\ \A p \in Objects : p # catalog[sid] => object'[p] = object[p]
    BY <1>2, CatalogFacts DEF UpdateScenarioStatus, Holds, StoreInv, StoreTypeOK
  <2> HIDE DEF s
  <2>3. /\ r.arr = s.arr /\ r.len = s.len /\ r.name = s.name
        /\ r.status = status /\ r.source = s.source
    BY <2>1 DEF ScenarioStruct
  <2> HIDE DEF r
  <2>4. /\ Value'[sid] = Labelled(View(catalog[sid]), s.name, status, s.source)
        /\ \A t \in ScenarioIds : t # sid => Value'[t] = Value[t]
        /\ Value[sid] = Labelled(View(catalog[sid]), s.name, s.status, s.source)
    BY <1>2, <2>2, <2>3, PutLabelsFacts DEF s
  <2>5. Value[sid] # Nil
    BY <1>2, ValueOf
  <2>6. Promised!SetStatus(sid, status)
    BY <2>4, <2>5, StatusPut
  <2>7. QED
    BY <2>6, SameWords DEF Promised!CatalogNext
<1>3. QED
  BY <1>1, <1>2

LEMMA AddAdapterRefines ==
    ASSUME StoreInv, NEW sid \in ScenarioIds, NEW name \in Names, NEW type \in Types,
           NEW n \in Seconds, NEW key \in RequestKeys(type, NewAdapterId(sid, type, n)),
           AddAdapter(sid, NewAdapter(NewAdapterId(sid, type, n), name, type, key))
    PROVE  Value' = Value \/ Promised!CatalogNext
<1> DEFINE id == NewAdapterId(sid, type, n)
           x == NewAdapter(id, name, type, key)
<1>1. CASE ~ Holds(sid)
  BY <1>1, UnchangedValue DEF AddAdapter
<1>2. CASE Holds(sid)
  <2>1. id \in AdapterIds
    BY NewAdapterIdType
  <2>2. key \in Keys
    BY <2>1 DEF RequestKeys, Keys
  <2>3. Promised!Add(sid, x)
    BY <1>2, <2>1, <2>2, NewAdapterType, AddAdapterPuts
  <2>4. id = Promised!NewAdapterId(sid, type, n)
    BY SameWords
  <2> HIDE DEF id
  <2>5. key \in Promised!RequestKeys(type, id) /\ x = Promised!NewAdapter(id, name, type, key)
    BY SameWords DEF id
  <2> HIDE DEF x
  <2>6. \E k \in Promised!RequestKeys(type, Promised!NewAdapterId(sid, type, n)) :
          Promised!Add(sid,
             Promised!NewAdapter(Promised!NewAdapterId(sid, type, n), name, type, k))
    BY <2>3, <2>4, <2>5
  <2>7. sid \in Promised!ScenarioIds /\ n \in Promised!Seconds
    BY SameWords
  <2>8. QED
    BY <2>6, <2>7 DEF Promised!CatalogNext
<1>3. QED
  BY <1>1, <1>2

(* The clock ages what a slice shows like what the value says.             *)
LEMMA ElapsedValue ==
    ASSUME StoreInv, TimePasses, NEW sid \in ScenarioIds, Value[sid] # Nil
    PROVE  Value'[sid] = [Value[sid] EXCEPT !.adapters =
              [j \in 1 .. Len(Value[sid].adapters) |-> Promised!Aged(Value[sid].adapters[j])]]
<1> DEFINE o == catalog[sid]
           a == object[o].arr
           n == object[o].len
           v == View(o)
           e == [j \in 1 .. Len(Value[sid].adapters) |->
                    Promised!Aged(Value[sid].adapters[j])]
           w == Value
<1>1. Holds(sid) /\ Value[sid].adapters = v
  BY ValueOf
<1>2. o \in Objects /\ object[o] # Nil /\ UNCHANGED <<catalog, object>>
  BY <1>1, CatalogFacts DEF Holds, TimePasses
<1>3. n \in Nat /\ Len(v) = n
  BY <1>2, SliceFacts, ViewType
<1>4. ASSUME NEW j \in 1 .. n
      PROVE  array'[a][j] = Promised!Aged(v[j])
  <2>1. a \in Arrays /\ n <= Len(array[a]) /\ Len(array[a]) \in Nat
    <3>1. a \in Arrays /\ n <= Len(array[a])
      BY <1>2, <1>3, <1>4, SliceFacts DEF Arrays, NoArray
    <3>2. QED
      BY <3>1 DEF StoreInv, StoreTypeOK
  <2>2. j \in 1 .. Len(array[a])
    BY <1>3, <2>1
  <2>3. array'[a][j] = Aged(array[a][j])
    BY <2>1, <2>2 DEF TimePasses
  <2>4. v[j] = array[a][j]
    BY DEF View, Slots
  <2>5. QED
    BY <2>3, <2>4, SameWords
<1>5. View(o)' = [j \in 1 .. n |-> array'[a][j]]
  BY <1>2 DEF View, Slots
<1>6. View(o)' = e
  BY <1>1, <1>3, <1>4, <1>5
<1>7. /\ w[sid] = Labelled(v, object[o].name, object[o].status, object[o].source)
      /\ w'[sid] = Labelled(View(o)', object'[o].name, object'[o].status, object'[o].source)
  BY <1>1, <1>2, ValueOf DEF Labelled, Value, Holds
<1>8. w'[sid] = Labelled(e, object[o].name, object[o].status, object[o].source)
  BY <1>2, <1>6, <1>7
<1> HIDE DEF o, v, e, w
<1>9. w'[sid] = [w[sid] EXCEPT !.adapters = e]
  BY <1>7, <1>8, AdaptersExcept
<1>10. QED
  BY <1>9 DEF w, e

LEMMA TimePassesRefines ==
    ASSUME StoreInv, TimePasses
    PROVE  Promised!CatalogNext
<1>1. ASSUME NEW sid \in ScenarioIds, Value[sid] = Nil
      PROVE  Value'[sid] = Nil
  BY <1>1, ValueOf DEF TimePasses, Value, Holds
<1>2. Value' = [sid \in ScenarioIds |-> Value'[sid]]
  BY DEF Value
<1>3. Promised!Elapse
  <2> DEFINE F(sid) == IF Value[sid] = Nil THEN Nil
                       ELSE [Value[sid] EXCEPT !.adapters =
                               [j \in 1 .. Len(Value[sid].adapters) |->
                                   Promised!Aged(Value[sid].adapters[j])]]
  <2>1. \A sid \in ScenarioIds : Value'[sid] = F(sid)
    BY <1>1, ElapsedValue
  <2> HIDE DEF F
  <2>2. Value' = [sid \in ScenarioIds |-> F(sid)]
    BY <1>2, <2>1
  <2>3. ScenarioIds = Promised!ScenarioIds
    BY SameWords
  <2>4. QED
    BY <2>2, <2>3, Zenon DEF Promised!Elapse, F
<1>4. QED
  BY <1>3 DEF Promised!CatalogNext

-----------------------------------------------------------------------------
(* Every step.                                                             *)

LEMMA ScenarioStepRefines ==
    ASSUME StoreInv, ScenarioStep
    PROVE  Value' = Value \/ Promised!CatalogNext
<1>1. PICK sid \in ScenarioIds :
        \/ CreateScenario(sid)
        \/ DeleteScenario(sid)
        \/ \E src \in ScenarioIds : CloneScenario(src, sid)
        \/ UpdateScenario(sid)
        \/ \E status \in Statuses : UpdateScenarioStatus(sid, status)
        \/ \E name \in Names, type \in Types, n \in Seconds :
              LET id == NewAdapterId(sid, type, n)
              IN  \E key \in RequestKeys(type, id) :
                     AddAdapter(sid, NewAdapter(id, name, type, key))
  BY DEF ScenarioStep
<1>2. CASE CreateScenario(sid) \/ DeleteScenario(sid) \/ UpdateScenario(sid)
  BY <1>2, CreateScenarioRefines, DeleteScenarioRefines, UpdateScenarioRefines
<1>3. CASE \E src \in ScenarioIds : CloneScenario(src, sid)
  BY <1>3, CloneScenarioRefines
<1>4. CASE \E status \in Statuses : UpdateScenarioStatus(sid, status)
  BY <1>4, UpdateScenarioStatusRefines
<1>5. CASE \E name \in Names, type \in Types, n \in Seconds :
              LET id == NewAdapterId(sid, type, n)
              IN  \E key \in RequestKeys(type, id) :
                     AddAdapter(sid, NewAdapter(id, name, type, key))
  BY <1>5, AddAdapterRefines
<1>6. QED
  BY <1>1, <1>2, <1>3, <1>4, <1>5

LEMMA AdapterStepRefines ==
    ASSUME StoreInv, AdapterStep
    PROVE  Value' = Value \/ Promised!CatalogNext
<1>1. PICK sid \in ScenarioIds, id \in KnownIds :
        \/ DeleteAdapter(sid, id)
        \/ \E status \in Statuses : UpdateAdapterStatus(sid, id, status)
        \/ \E url \in Urls : UpdateAdapterIngressURL(sid, id, url)
        \/ \E name \in Names \cup {Nil}, key \in KnownKeys :
              UpdateAdapter(sid, id, name, key)
        \/ RecordAdapterActivity(id)
  BY DEF AdapterStep
<1>2. CASE \E name \in Names \cup {Nil}, key \in KnownKeys :
              UpdateAdapter(sid, id, name, key)
  BY <1>2, KnownKeysType, UpdateRefines
<1>3. QED
  BY <1>1, <1>2, DeleteAdapterRefines, StatusRefines, IngressUrlRefines, TouchRefines

(* An empty map after a restart.                                           *)
LEMMA NewMemoryStoreRefines ==
    ASSUME NewMemoryStore
    PROVE  Promised!CatalogNext
<1>1. Value' = [sid \in ScenarioIds |-> Nil]
  BY DEF NewMemoryStore, Value
<1>2. Promised!Lose
  BY <1>1, SameWords DEF Promised!Lose
<1>3. QED
  BY <1>2 DEF Promised!CatalogNext

LEMMA StoreNextRefines ==
    ASSUME StoreInv, [StoreNext]_storeVars
    PROVE  Value' = Value \/ Promised!CatalogNext
<1>1. CASE UNCHANGED storeVars
  BY <1>1, UnchangedValue
<1>2. CASE PointerStep
  BY <1>2, PokeRefines DEF PointerStep
<1>3. CASE \E g \in GithubIds : LoadGitHubScenario(g)
  BY <1>3, LoadGitHubScenarioRefines
<1>4. QED
  BY <1>1, <1>2, <1>3, ScenarioStepRefines, AdapterStepRefines, TimePassesRefines,
     NewMemoryStoreRefines DEF StoreNext

LEMMA InitRefines ==
    ASSUME StoreInit
    PROVE  Promised!CatalogInit
<1>1. Value = [sid \in ScenarioIds |-> Nil]
  BY DEF StoreInit, Value
<1>2. QED
  BY <1>1, SameWords DEF Promised!CatalogInit

(* memory.go keeps the store's contract: seen from outside, its pointers,  *)
(* shared arrays, in-place deletes and appends are a map of plain values,  *)
(* and each method is one operation on it, or none.                        *)
THEOREM StoreImplementsCatalog == StoreSpec => ImplementsCatalog
<1>1. StoreInv /\ [StoreNext]_storeVars => [Promised!CatalogNext]_Value
  BY StoreNextRefines
<1>2. StoreInit => Promised!CatalogInit
  BY InitRefines
<1>3. QED
  BY <1>1, <1>2, StoreInvariant, PTL
  DEF StoreSpec, ImplementsCatalog, Promised!CatalogSpec

(* The handlers keep it, too, although they write through pointers without *)
(* the mutex and go on with slices and copies from before: no step of the  *)
(* control plane does to the scenarios what is not an operation on one of  *)
(* them, the clock, or a restart.                                          *)
THEOREM ControlPlaneImplementsCatalog == Spec => ImplementsCatalog
<1>1. SystemInv /\ [Next]_vars => [Promised!CatalogNext]_Value
  <2> SUFFICES ASSUME SystemInv, [Next]_vars
               PROVE  Value' = Value \/ Promised!CatalogNext
    OBVIOUS
  <2>1. StoreInv /\ StoreCall /\ local \in [Processes -> Local]
    BY SystemStep DEF SystemInv, HeapInv, LocalsInv
  <2>2. CASE [StoreNext]_storeVars
    BY <2>1, <2>2, StoreNextRefines
  <2>3. ASSUME NEW p \in Reqs, At(p, "write"),
               UpdateAdapter(local[p].sid, local[p].aid, local[p].name, local[p].key)
        PROVE  Value' = Value \/ Promised!CatalogNext
    <3>1. p \in Processes /\ Sound(p, local[p]) /\ local[p] \in Local
      BY <2>1 DEF Processes, SystemInv, LocalsInv
    <3>2. local[p].sid \in ScenarioIds
      BY <2>3, <3>1 DEF Sound, At, OpsAt, Working, AdapterOps
    <3>3. local[p].name \in Names \cup {Nil} /\ local[p].key \in Keys
      BY <3>1 DEF Local
    <3>4. QED
      BY <2>1, <2>3, <3>2, <3>3, UpdateRefines
  <2>4. QED
    BY <2>1, <2>2, <2>3 DEF StoreCall
<1>2. Init => Promised!CatalogInit
  BY InitRefines DEF Init
<1>3. QED
  BY <1>1, <1>2, SystemInvariant, PTL
  DEF Spec, ImplementsCatalog, Promised!CatalogSpec

=============================================================================
