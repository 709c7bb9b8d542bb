-------------------------- MODULE MemoryStoreProofs -------------------------
(***************************************************************************)
(* StoreInv is inductive.  Every action of the store has one of a few      *)
(* effects on the heap -- nothing, one slot, one new struct, one append,   *)
(* one shift, one status -- so the invariant is shown for each effect,     *)
(* and then each action is shown to have one of them.                      *)
(***************************************************************************)
EXTENDS MemoryStore, SequenceTheorems, TLAPS

-----------------------------------------------------------------------------
(* The records the store makes up have their types.                        *)

LEMMA NewAdapterType ==
    ASSUME NEW id \in AdapterIds, NEW name \in Names, NEW type \in Types,
           NEW key \in Keys
    PROVE  NewAdapter(id, name, type, key) \in AdapterRecord
BY DEF NewAdapter, AdapterRecord, Statuses, Activity, Urls

LEMMA HostKeyType ==
    ASSUME NEW id \in AdapterIds, NEW type
    PROVE  HostKey(type, id) \in Keys
BY DEF HostKey, Keys

LEMMA PositionIdType ==
    ASSUME NEW sid \in ScenarioIds, NEW type \in Types, NEW i \in Nat
    PROVE  PositionId(sid, type, i) \in AdapterIds
BY DEF PositionId, AdapterIds

LEMMA NewAdapterIdType ==
    ASSUME NEW sid \in ScenarioIds, NEW type \in Types, NEW n \in Seconds
    PROVE  NewAdapterId(sid, type, n) \in AdapterIds
<1>1. n \in Nat
  BY ConstantsAssumption DEF Seconds
<1>2. QED
  BY <1>1 DEF NewAdapterId, localAdapterIDs, AdapterIds

LEMMA FromFileType ==
    ASSUME NEW g \in GithubIds
    PROVE  /\ FromFile(g) \in Seq(AdapterRecord)
           /\ Len(FromFile(g)) = Len(Manifest[g])
<1>1. Manifest[g] \in Seq(FileEntries)
  BY ConstantsAssumption
<1> DEFINE N == Len(Manifest[g])
           F(i) == LET f  == Manifest[g][i]
                       id == PositionId(g, f.type, i - 1)
                   IN  NewAdapter(id, f.name, f.type,
                           IF f.key = Nil THEN HostKey(f.type, id) ELSE f.key)
<1>2. N \in Nat
  BY <1>1
<1>3. \A i \in 1 .. N : F(i) \in AdapterRecord
  <2> TAKE i \in 1 .. N
  <2> DEFINE f == Manifest[g][i]
             id == PositionId(g, f.type, i - 1)
  <2>1. f \in [name : Names, type : Types, key : {UserKey, Nil}]
    BY <1>1, ElementOfSeq DEF FileEntries
  <2>2. id \in AdapterIds
    <3>1. g \in ScenarioIds /\ f.type \in Types /\ i - 1 \in Nat
      BY <1>2, <2>1 DEF ScenarioIds
    <3>2. QED
      BY <3>1, PositionIdType
  <2>3. (IF f.key = Nil THEN HostKey(f.type, id) ELSE f.key) \in Keys
    BY <2>1, <2>2, HostKeyType DEF Keys
  <2>4. f.name \in Names /\ f.type \in Types
    BY <2>1
  <2>5. QED
    BY <2>2, <2>3, <2>4, NewAdapterType
<1>4. FromFile(g) = [i \in 1 .. N |-> F(i)]
  BY DEF FromFile
<1> HIDE DEF N, F
<1>5. QED
  BY <1>2, <1>3, <1>4, N = Len(Manifest[g]) DEF N

LEMMA CloneOfType ==
    ASSUME NEW xs \in Seq(AdapterRecord), NEW sid \in ScenarioIds
    PROVE  /\ CloneOf(xs, sid) \in Seq(AdapterRecord)
           /\ Len(CloneOf(xs, sid)) = Len(xs)
<1> DEFINE N == Len(xs)
           C(i) == LET id == PositionId(sid, xs[i].type, i - 1)
                   IN  NewAdapter(id, xs[i].name, xs[i].type,
                           IF xs[i].key = Nil THEN HostKey(xs[i].type, id)
                           ELSE xs[i].key)
<1>1. N \in Nat
  OBVIOUS
<1>2. \A i \in 1 .. N : C(i) \in AdapterRecord
  <2> TAKE i \in 1 .. N
  <2> DEFINE id == PositionId(sid, xs[i].type, i - 1)
  <2>1. xs[i] \in AdapterRecord
    OBVIOUS
  <2>2. xs[i].name \in Names /\ xs[i].type \in Types /\ xs[i].key \in Keys
    BY <2>1 DEF AdapterRecord
  <2>3. id \in AdapterIds
    <3>1. i - 1 \in Nat
      BY <1>1
    <3>2. QED
      BY <2>2, <3>1, PositionIdType
  <2>4. HostKey(xs[i].type, id) \in Keys
    BY <2>3, HostKeyType
  <2>5. QED
    BY <2>2, <2>3, <2>4, NewAdapterType
<1>3. CloneOf(xs, sid) = [i \in 1 .. N |-> C(i)]
  BY DEF CloneOf
<1> HIDE DEF C
<1>4. QED
  BY <1>1, <1>2, <1>3

-----------------------------------------------------------------------------
(* What the invariant says of one slice, without View.                     *)

LEMMA SliceFacts ==
    ASSUME StoreInv, NEW o \in Objects, object[o] # Nil
    PROVE  /\ object[o] \in ScenarioStruct
           /\ object[o].len \in Nat
           /\ object[o].arr = NoArray \/ object[o].arr \in Arrays
           /\ object[o].arr = NoArray => object[o].len = 0
           /\ object[o].arr # NoArray => object[o].len <= Len(array[object[o].arr])
           /\ \A i \in 1 .. object[o].len :
                 /\ View(o)[i] = array[object[o].arr][i]
                 /\ array[object[o].arr][i] \in AdapterRecord
<1>1. object[o] \in ScenarioStruct
  BY DEF StoreInv, StoreTypeOK
<1>2. /\ object[o].len \in Nat
      /\ object[o].arr = NoArray \/ object[o].arr \in Arrays
  BY <1>1 DEF ScenarioStruct
<1>3. /\ object[o].arr = NoArray => object[o].len = 0
      /\ object[o].arr # NoArray => object[o].len <= Len(array[object[o].arr])
  BY DEF StoreInv, SliceShape, Cap
<1>4. ASSUME NEW i \in 1 .. object[o].len
      PROVE  /\ View(o)[i] = array[object[o].arr][i]
             /\ array[object[o].arr][i] \in AdapterRecord
  <2>1. View(o)[i] = array[object[o].arr][i]
    BY DEF View, Slots
  <2>2. View(o)[i] # Nil
    BY DEF StoreInv, SliceShape
  <2>3. object[o].arr \in Arrays
    BY <1>2, <1>3
  <2>4. array[object[o].arr] \in Seq(AdapterRecord \cup {Nil})
    BY <2>3 DEF StoreInv, StoreTypeOK
  <2>5. i \in 1 .. Len(array[object[o].arr])
    BY <1>2, <1>3, <2>3, <2>4 DEF Arrays, NoArray
  <2>6. array[object[o].arr][i] \in AdapterRecord \cup {Nil}
    BY <2>4, <2>5, ElementOfSeq
  <2>7. QED
    BY <2>1, <2>2, <2>6
<1>5. QED
  BY <1>1, <1>2, <1>3, <1>4

(* First effect: slots are rewritten, here one and there all of them, and   *)
(* nothing else happens.                                                   *)
LEMMA RewriteInv ==
    ASSUME StoreInv, UNCHANGED <<catalog, object>>,
           array' \in [Arrays -> Seq(AdapterRecord \cup {Nil})],
           \A a \in Arrays :
              /\ Len(array'[a]) = Len(array[a])
              /\ \A k \in 1 .. Len(array[a]) : array[a][k] # Nil => array'[a][k] # Nil
    PROVE  StoreInv'
<1>1. StoreTypeOK' /\ CatalogValid' /\ NoAliasing'
  BY DEF StoreInv, StoreTypeOK, CatalogValid, NoAliasing
<1>2. SliceShape'
  <2> SUFFICES ASSUME NEW o \in Objects, object[o] # Nil
               PROVE  /\ object[o].arr = NoArray => object[o].len = 0
                      /\ object[o].arr # NoArray => array'[object[o].arr] # <<>>
                      /\ object[o].len <= Cap(object[o].arr)'
                      /\ \A k \in 1 .. object[o].len : array'[object[o].arr][k] # Nil
    BY DEF SliceShape, View, Slots
  <2>1. CASE object[o].arr = NoArray
    BY <2>1, SliceFacts DEF Cap
  <2>2. CASE object[o].arr # NoArray
    <3>1. /\ object[o].arr \in Arrays
          /\ object[o].len \in Nat
          /\ object[o].len <= Len(array[object[o].arr])
          /\ Len(array'[object[o].arr]) = Len(array[object[o].arr])
      BY <2>2, SliceFacts
    <3>2. array[object[o].arr] # <<>>
      BY <2>2 DEF StoreInv, SliceShape
    <3>3. /\ array[object[o].arr] \in Seq(AdapterRecord \cup {Nil})
          /\ array'[object[o].arr] \in Seq(AdapterRecord \cup {Nil})
      BY <3>1 DEF StoreInv, StoreTypeOK
    <3>4. array'[object[o].arr] # <<>>
      BY <3>1, <3>2, <3>3
    <3>5. object[o].len <= Cap(object[o].arr)'
      BY <2>2, <3>1 DEF Cap
    <3>6. ASSUME NEW k \in 1 .. object[o].len
          PROVE  array'[object[o].arr][k] # Nil
      <4>1. array[object[o].arr][k] # Nil
        BY SliceFacts, NilAssumption
      <4>2. k \in 1 .. Len(array[object[o].arr])
        BY <3>1, <3>3
      <4>3. QED
        BY <3>1, <4>1, <4>2
    <3>7. QED
      BY <2>2, <3>4, <3>5, <3>6
  <2>3. QED
    BY <2>1, <2>2
<1>3. QED
  BY <1>1, <1>2 DEF StoreInv

(* Second effect: one struct is replaced or made, and at most the array it *)
(* then has is written, which is no other struct's.                        *)
LEMMA OneStructInv ==
    ASSUME StoreInv, NEW o \in Objects, NEW r \in ScenarioStruct,
           object' = [object EXCEPT ![o] = r],
           array' \in [Arrays -> Seq(AdapterRecord \cup {Nil})],
           \A b \in Arrays : b # r.arr => array'[b] = array[b],
           \A p \in Objects \ {o} :
              object[p] # Nil /\ object[p].arr = r.arr => r.arr = NoArray,
           r.arr = NoArray => r.len = 0,
           r.arr # NoArray => array'[r.arr] # <<>> /\ r.len <= Len(array'[r.arr]),
           \A k \in 1 .. r.len : array'[r.arr][k] # Nil,
           catalog' \in [ScenarioIds -> Objects \cup {Nil}],
           \A sid \in ScenarioIds :
              catalog'[sid] # Nil => catalog'[sid] = o \/ object[catalog'[sid]] # Nil,
           \A s, t \in ScenarioIds : catalog'[s] = catalog'[t] /\ catalog'[s] # Nil => s = t
    PROVE  StoreInv'
<1>1. /\ object'[o] = r
      /\ \A p \in Objects \ {o} : object'[p] = object[p]
      /\ r # Nil
  BY HeapAssumption DEF StoreInv, StoreTypeOK
<1>2. StoreTypeOK'
  BY DEF StoreInv, StoreTypeOK
<1>3. CatalogValid'
  BY <1>1, <1>2 DEF CatalogValid, StoreTypeOK
<1>4. NoAliasing'
  BY <1>1 DEF NoAliasing, StoreInv
<1>5. SliceShape'
  <2> SUFFICES ASSUME NEW p \in Objects, object'[p] # Nil
               PROVE  /\ object'[p].arr = NoArray => object'[p].len = 0
                      /\ object'[p].arr # NoArray => array'[object'[p].arr] # <<>>
                      /\ object'[p].len <= Cap(object[p].arr)'
                      /\ \A k \in 1 .. object'[p].len : array'[object'[p].arr][k] # Nil
    BY DEF SliceShape, View, Slots
  <2>1. CASE p = o
    BY <1>1, <2>1 DEF Cap, ScenarioStruct
  <2>2. CASE p # o
    <3>1. object[p] # Nil /\ object'[p] = object[p]
      BY <1>1, <2>2
    <3>2. CASE object[p].arr = NoArray
      BY <3>1, <3>2, SliceFacts DEF Cap
    <3>3. CASE object[p].arr # NoArray
      <4>1. array'[object[p].arr] = array[object[p].arr]
        BY <2>2, <3>1, <3>3, SliceFacts
      <4>2. array[object[p].arr] # <<>>
        BY <3>1, <3>3 DEF StoreInv, SliceShape
      <4>3. \A k \in 1 .. object[p].len : array[object[p].arr][k] # Nil
        BY <3>1, SliceFacts, NilAssumption
      <4>4. object[p].len <= Len(array[object[p].arr])
        BY <3>1, <3>3, SliceFacts
      <4>5. QED
        BY <3>1, <3>3, <4>1, <4>2, <4>3, <4>4 DEF Cap
    <3>4. QED
      BY <3>2, <3>3
  <2>3. QED
    BY <2>1, <2>2
<1>6. QED
  BY <1>2, <1>3, <1>4, <1>5 DEF StoreInv

-----------------------------------------------------------------------------
(* The heap operations the methods are made of.                            *)

LEMMA ViewType ==
    ASSUME StoreInv, NEW o \in Objects, object[o] # Nil
    PROVE  /\ View(o) \in Seq(AdapterRecord)
           /\ Len(View(o)) = object[o].len
<1> DEFINE n == object[o].len
           F(i) == array[object[o].arr][i]
<1>1. n \in Nat /\ \A i \in 1 .. n : F(i) \in AdapterRecord
  BY SliceFacts
<1>2. View(o) = [i \in 1 .. n |-> F(i)]
  BY DEF View, Slots
<1> HIDE DEF n, F
<1>3. View(o) \in Seq(AdapterRecord) /\ Len(View(o)) = n
  BY <1>1, <1>2
<1>4. QED
  BY <1>3 DEF n

LEMMA SetSlotInv ==
    ASSUME StoreInv, NEW o \in Objects, object[o] # Nil,
           NEW i \in 1 .. object[o].len, NEW x \in AdapterRecord,
           SetSlot(o, i, x)
    PROVE  StoreInv'
<1> DEFINE a == object[o].arr
           S == AdapterRecord \cup {Nil}
           E == [array[a] EXCEPT ![i] = x]
<1>1. /\ a \in Arrays
      /\ array[a] \in Seq(S)
      /\ i \in 1 .. Len(array[a])
  <2>1. a \in Arrays /\ object[o].len \in Nat /\ object[o].len <= Len(array[a])
    BY SliceFacts
  <2>2. array[a] \in Seq(S)
    BY <2>1 DEF StoreInv, StoreTypeOK
  <2>3. QED
    BY <2>1, <2>2
<1>2. /\ E \in Seq(S)
      /\ Len(E) = Len(array[a])
      /\ \A k \in 1 .. Len(array[a]) : E[k] = IF k = i THEN x ELSE array[a][k]
  BY <1>1, ExceptSeq
<1> HIDE DEF E
<1>3. array' = [array EXCEPT ![a] = E] /\ UNCHANGED <<catalog, object>>
  BY DEF SetSlot, E
<1>4. array \in [Arrays -> Seq(S)]
  BY DEF StoreInv, StoreTypeOK
<1>5. array' \in [Arrays -> Seq(S)]
  BY <1>1, <1>2, <1>3, <1>4
<1>6. ASSUME NEW b \in Arrays
      PROVE  /\ Len(array'[b]) = Len(array[b])
             /\ \A k \in 1 .. Len(array[b]) : array[b][k] # Nil => array'[b][k] # Nil
  BY <1>2, <1>3, <1>4, NilAssumption
<1>7. QED
  BY <1>3, <1>5, <1>6, RewriteInv

LEMMA CatalogFacts ==
    ASSUME StoreInv
    PROVE  /\ catalog \in [ScenarioIds -> Objects \cup {Nil}]
           /\ \A sid \in ScenarioIds : catalog[sid] # Nil =>
                 catalog[sid] \in Objects /\ object[catalog[sid]] # Nil
           /\ \A s, t \in ScenarioIds : catalog[s] = catalog[t] /\ catalog[s] # Nil => s = t
BY DEF StoreInv, StoreTypeOK, CatalogValid, NoAliasing

LEMMA PublishInv ==
    ASSUME StoreInv, NEW sid \in ScenarioIds, NEW xs \in Seq(AdapterRecord),
           NEW source \in Sources, Publish(sid, xs, source)
    PROVE  StoreInv'
<1> DEFINE S == AdapterRecord \cup {Nil}
<1>1. PICK o \in Objects :
        /\ object[o] = Nil
        /\ catalog' = [catalog EXCEPT ![sid] = o]
        /\ \/ /\ xs = <<>>
              /\ object' = [object EXCEPT ![o] =
                    [arr |-> NoArray, len |-> 0, name |-> "given",
                     status |-> "stopped", source |-> source]]
              /\ UNCHANGED array
           \/ /\ xs # <<>>
              /\ \E a \in Arrays :
                    /\ array[a] = <<>>
                    /\ array' = [array EXCEPT ![a] = xs]
                    /\ object' = [object EXCEPT ![o] =
                          [arr |-> a, len |-> Len(xs), name |-> "given",
                           status |-> "stopped", source |-> source]]
  BY DEF Publish, Fresh, FreshArray
<1>2. /\ catalog' \in [ScenarioIds -> Objects \cup {Nil}]
      /\ \A t \in ScenarioIds :
            catalog'[t] # Nil => catalog'[t] = o \/ object[catalog'[t]] # Nil
      /\ \A s, t \in ScenarioIds : catalog'[s] = catalog'[t] /\ catalog'[s] # Nil => s = t
  BY <1>1, CatalogFacts
<1>3. array \in [Arrays -> Seq(S)]
  BY DEF StoreInv, StoreTypeOK
<1>4. CASE xs = <<>>
  <2> DEFINE r == [arr |-> NoArray, len |-> 0, name |-> "given",
                   status |-> "stopped", source |-> source]
  <2>1. r \in ScenarioStruct
    BY DEF ScenarioStruct, Statuses, Titles
  <2>2. object' = [object EXCEPT ![o] = r] /\ array' = array
    BY <1>1, <1>4
  <2>3. r.arr = NoArray /\ r.len = 0
    OBVIOUS
  <2> HIDE DEF r
  <2>4. \A k \in 1 .. r.len : array'[r.arr][k] # Nil
    BY <2>3
  <2>5. QED
    BY <1>2, <1>3, <2>1, <2>2, <2>3, <2>4, OneStructInv
<1>5. CASE xs # <<>>
  <2>1. PICK a \in Arrays :
          /\ array[a] = <<>>
          /\ array' = [array EXCEPT ![a] = xs]
          /\ object' = [object EXCEPT ![o] =
                [arr |-> a, len |-> Len(xs), name |-> "given",
                 status |-> "stopped", source |-> source]]
    BY <1>1, <1>5
  <2> DEFINE r == [arr |-> a, len |-> Len(xs), name |-> "given",
                   status |-> "stopped", source |-> source]
  <2>2. r \in ScenarioStruct
    BY LenProperties DEF ScenarioStruct, Statuses, Titles
  <2>3. object' = [object EXCEPT ![o] = r]
    BY <2>1
  <2>4. r.arr = a /\ r.len = Len(xs) /\ a # NoArray
    BY DEF Arrays, NoArray
  <2> HIDE DEF r
  <2>5. /\ array'[a] = xs
        /\ \A b \in Arrays : b # a => array'[b] = array[b]
    BY <1>3, <2>1
  <2>6. array' \in [Arrays -> Seq(S)]
    <3>1. xs \in Seq(S)
      BY SeqMonotonic
    <3>2. QED
      BY <1>3, <2>1, <3>1
  <2>7. \A p \in Objects : object[p] # Nil => object[p].arr # a
    BY <2>1, <2>4 DEF StoreInv, SliceShape
  <2>8. Len(xs) \in Nat /\ \A k \in 1 .. Len(xs) : xs[k] # Nil
    BY LenProperties, ElementOfSeq, NilAssumption
  <2>9. /\ \A b \in Arrays : b # r.arr => array'[b] = array[b]
        /\ \A p \in Objects \ {o} :
              object[p] # Nil /\ object[p].arr = r.arr => r.arr = NoArray
        /\ r.arr = NoArray => r.len = 0
        /\ r.arr # NoArray => array'[r.arr] # <<>> /\ r.len <= Len(array'[r.arr])
        /\ \A k \in 1 .. r.len : array'[r.arr][k] # Nil
    BY <1>5, <2>4, <2>5, <2>7, <2>8
  <2>10. QED
    BY <1>2, <2>2, <2>3, <2>6, <2>9, OneStructInv
<1>6. QED
  BY <1>4, <1>5

LEMMA AppendInPlaceInv ==
    ASSUME StoreInv, NEW o \in Objects, object[o] # Nil,
           NEW x \in AdapterRecord, AppendInPlace(o, x), UNCHANGED catalog
    PROVE  StoreInv'
<1> DEFINE a == object[o].arr
           n == object[o].len
           S == AdapterRecord \cup {Nil}
           E == [array[a] EXCEPT ![n + 1] = x]
           r == [object[o] EXCEPT !.len = n + 1]
<1>1. /\ a \in Arrays /\ a # NoArray /\ n \in Nat
      /\ n + 1 \in 1 .. Len(array[a])
      /\ array[a] \in Seq(S)
  <2>1. a # NoArray /\ n < Cap(a)
    BY SliceFacts DEF AppendInPlace, Cap
  <2>2. a \in Arrays /\ n \in Nat /\ n < Len(array[a])
    BY <2>1, SliceFacts DEF Cap
  <2>3. array[a] \in Seq(S)
    BY <2>2 DEF StoreInv, StoreTypeOK
  <2>4. QED
    BY <2>1, <2>2, <2>3
<1>2. /\ E \in Seq(S)
      /\ Len(E) = Len(array[a])
      /\ \A k \in 1 .. Len(E) : E[k] = IF k = n + 1 THEN x ELSE array[a][k]
  BY <1>1, ExceptSeq
<1>3. /\ r \in ScenarioStruct
      /\ r.arr = a /\ r.len = n + 1
  BY <1>1, SliceFacts DEF ScenarioStruct
<1>4. array' = [array EXCEPT ![a] = E] /\ object' = [object EXCEPT ![o] = r]
  BY DEF AppendInPlace
<1> HIDE DEF E, r
<1>5. array \in [Arrays -> Seq(S)]
  BY DEF StoreInv, StoreTypeOK
<1>6. array' \in [Arrays -> Seq(S)] /\ array'[a] = E
      /\ \A b \in Arrays : b # a => array'[b] = array[b]
  BY <1>1, <1>2, <1>4, <1>5
<1>7. array'[a] # <<>> /\ n + 1 <= Len(array'[a])
  BY <1>1, <1>2, <1>6
<1>8. ASSUME NEW k \in 1 .. (n + 1)
      PROVE  array'[a][k] # Nil
  BY <1>1, <1>2, <1>6, SliceFacts, NilAssumption
<1>9. \A p \in Objects \ {o} : object[p] # Nil => object[p].arr # a
  BY <1>1 DEF StoreInv, NoAliasing
<1>10. /\ \A b \in Arrays : b # r.arr => array'[b] = array[b]
       /\ \A p \in Objects \ {o} :
             object[p] # Nil /\ object[p].arr = r.arr => r.arr = NoArray
       /\ r.arr = NoArray => r.len = 0
       /\ r.arr # NoArray => array'[r.arr] # <<>> /\ r.len <= Len(array'[r.arr])
       /\ \A k \in 1 .. r.len : array'[r.arr][k] # Nil
  BY <1>1, <1>3, <1>6, <1>7, <1>8, <1>9
<1>11. /\ catalog' \in [ScenarioIds -> Objects \cup {Nil}]
       /\ \A t \in ScenarioIds :
             catalog'[t] # Nil => catalog'[t] = o \/ object[catalog'[t]] # Nil
       /\ \A s, t \in ScenarioIds : catalog'[s] = catalog'[t] /\ catalog'[s] # Nil => s = t
  BY CatalogFacts
<1>12. QED
  BY <1>3, <1>4, <1>6, <1>10, <1>11, OneStructInv

LEMMA AppendGrowingInv ==
    ASSUME StoreInv, NEW o \in Objects, object[o] # Nil,
           NEW x \in AdapterRecord, AppendGrowing(o, x), UNCHANGED catalog
    PROVE  StoreInv'
<1> DEFINE n == object[o].len
           S == AdapterRecord \cup {Nil}
           F(i) == IF i <= n THEN array[object[o].arr][i]
                   ELSE IF i = n + 1 THEN x ELSE Nil
           E == [i \in 1 .. Grown(n) |-> F(i)]
<1>1. PICK a \in Arrays :
        /\ array[a] = <<>>
        /\ array' = [array EXCEPT ![a] = E]
        /\ object' = [object EXCEPT ![o].arr = a, ![o].len = @ + 1]
  BY DEF AppendGrowing, FreshArray
<1> DEFINE r == [object[o] EXCEPT !.arr = a, !.len = n + 1]
<1>2. n \in Nat /\ Grown(n) \in Nat /\ n + 1 <= Grown(n)
  BY SliceFacts DEF Grown
<1>3. /\ r \in ScenarioStruct
      /\ r.arr = a /\ r.len = n + 1
  <2>1. object[o] \in ScenarioStruct
    BY SliceFacts
  <2>2. n + 1 \in Nat /\ a \in Arrays \cup {NoArray}
    BY <1>2
  <2>3. QED
    BY <2>1, <2>2 DEF ScenarioStruct
<1>4. object' = [object EXCEPT ![o] = r]
  <2>1. object \in [Objects -> ScenarioStruct \cup {Nil}]
    BY DEF StoreInv, StoreTypeOK
  <2>2. object[o] \in ScenarioStruct
    BY SliceFacts
  <2>3. QED
    BY <1>1, <2>1, <2>2 DEF ScenarioStruct
<1>5. \A i \in 1 .. Grown(n) : F(i) \in S
  BY <1>2, SliceFacts
<1>6. \A i \in 1 .. (n + 1) : F(i) # Nil
  BY <1>2, SliceFacts, NilAssumption
<1>7. /\ E \in Seq(S)
      /\ Len(E) = Grown(n)
      /\ \A i \in 1 .. (n + 1) : E[i] # Nil
  <2> HIDE DEF F
  <2>1. QED
    BY <1>2, <1>5, <1>6
<1> HIDE DEF E, F, r
<1>8. array \in [Arrays -> Seq(S)]
  BY DEF StoreInv, StoreTypeOK
<1>9. array' \in [Arrays -> Seq(S)] /\ array'[a] = E
      /\ \A b \in Arrays : b # a => array'[b] = array[b]
  BY <1>1, <1>7, <1>8
<1>10. array'[a] # <<>> /\ n + 1 <= Len(array'[a])
  BY <1>2, <1>7, <1>9
<1>11. a # NoArray /\ \A p \in Objects : object[p] # Nil => object[p].arr # a
  BY <1>1 DEF StoreInv, SliceShape, Arrays, NoArray
<1>12. /\ \A b \in Arrays : b # r.arr => array'[b] = array[b]
       /\ \A p \in Objects \ {o} :
             object[p] # Nil /\ object[p].arr = r.arr => r.arr = NoArray
       /\ r.arr = NoArray => r.len = 0
       /\ r.arr # NoArray => array'[r.arr] # <<>> /\ r.len <= Len(array'[r.arr])
       /\ \A k \in 1 .. r.len : array'[r.arr][k] # Nil
  <2>1. a # NoArray /\ n + 1 <= Len(array'[a]) /\ array'[a] # <<>>
    BY <1>10, <1>11
  <2>2. \A k \in 1 .. (n + 1) : array'[a][k] # Nil
    BY <1>7, <1>9
  <2>3. QED
    BY <1>3, <1>9, <1>11, <2>1, <2>2
<1>13. /\ catalog' \in [ScenarioIds -> Objects \cup {Nil}]
       /\ \A t \in ScenarioIds :
             catalog'[t] # Nil => catalog'[t] = o \/ object[catalog'[t]] # Nil
       /\ \A s, t \in ScenarioIds : catalog'[s] = catalog'[t] /\ catalog'[s] # Nil => s = t
  BY CatalogFacts
<1>14. QED
  BY <1>3, <1>4, <1>9, <1>12, <1>13, OneStructInv

LEMMA DeleteAdapterInv ==
    ASSUME StoreInv, NEW sid \in ScenarioIds, NEW id, DeleteAdapter(sid, id)
    PROVE  StoreInv'
<1>1. CASE UNCHANGED storeVars
  BY <1>1 DEF storeVars, StoreInv, StoreTypeOK, CatalogValid, SliceShape,
              NoAliasing, View, Slots, Cap
<1>2. CASE ~ UNCHANGED storeVars
  <2> DEFINE o == catalog[sid]
             a == object[o].arr
             n == object[o].len
             S == AdapterRecord \cup {Nil}
             r == [object[o] EXCEPT !.len = n - 1]
  <2>1. PICK i \in Positions(sid) :
          /\ Lookup(sid, id, i)
          /\ array' = [array EXCEPT ![a] = ShiftDown(array[a], i, n)]
          /\ object' = [object EXCEPT ![o].len = @ - 1]
          /\ UNCHANGED catalog
    BY <1>2 DEF DeleteAdapter
  <2>2. /\ o \in Objects /\ object[o] # Nil
        /\ i \in 1 .. n
    BY <2>1, CatalogFacts DEF Lookup, Holds, Positions
  <2> HIDE DEF o
  <2>3. /\ n \in Nat /\ n - 1 \in Nat
        /\ a \in Arrays /\ a # NoArray
        /\ n <= Len(array[a])
        /\ array[a] # <<>>
    BY <2>2, SliceFacts DEF StoreInv, SliceShape
  <2>4. array \in [Arrays -> Seq(S)] /\ array[a] \in Seq(S)
    BY <2>3 DEF StoreInv, StoreTypeOK
  <2> DEFINE m == Len(array[a])
             F(k) == IF i <= k /\ k < n THEN array[a][k + 1] ELSE array[a][k]
             E == [k \in 1 .. m |-> F(k)]
  <2>5. m \in Nat /\ m > 0
    BY <2>4, <2>3
  <2>6. \A k \in 1 .. m : F(k) \in S
    <3> TAKE k \in 1 .. m
    <3>1. k \in 1 .. Len(array[a])
      OBVIOUS
    <3>2. i <= k /\ k < n => k + 1 \in 1 .. Len(array[a])
      BY <2>2, <2>3, <2>5
    <3>3. QED
      BY <2>4, <3>1, <3>2, ElementOfSeq
  <2>7. \A k \in 1 .. (n - 1) : F(k) # Nil
    BY <2>2, <2>3, SliceFacts, NilAssumption
  <2>8. ShiftDown(array[a], i, n) = E
    BY DEF ShiftDown
  <2>9. /\ E \in Seq(S)
        /\ Len(E) = m
        /\ \A k \in 1 .. (n - 1) : E[k] # Nil
    <3> HIDE DEF F
    <3>1. QED
      BY <2>3, <2>5, <2>6, <2>7
  <2>10. /\ r \in ScenarioStruct
         /\ r.arr = a /\ r.len = n - 1
         /\ object' = [object EXCEPT ![o] = r]
    BY <2>1, <2>2, <2>3, SliceFacts DEF ScenarioStruct
  <2> HIDE DEF E, F, r
  <2>11. array' \in [Arrays -> Seq(S)] /\ array'[a] = E
         /\ \A b \in Arrays : b # a => array'[b] = array[b]
    BY <2>1, <2>3, <2>4, <2>8, <2>9
  <2>12. array'[a] # <<>> /\ n - 1 <= Len(array'[a])
    BY <2>3, <2>5, <2>9, <2>11
  <2>13. \A p \in Objects \ {o} : object[p] # Nil => object[p].arr # a
    BY <2>2, <2>3 DEF StoreInv, NoAliasing
  <2>14. /\ \A b \in Arrays : b # r.arr => array'[b] = array[b]
         /\ \A p \in Objects \ {o} :
               object[p] # Nil /\ object[p].arr = r.arr => r.arr = NoArray
         /\ r.arr = NoArray => r.len = 0
         /\ r.arr # NoArray => array'[r.arr] # <<>> /\ r.len <= Len(array'[r.arr])
         /\ \A k \in 1 .. r.len : array'[r.arr][k] # Nil
    BY <2>3, <2>9, <2>10, <2>11, <2>12, <2>13
  <2>15. /\ catalog' \in [ScenarioIds -> Objects \cup {Nil}]
         /\ \A t \in ScenarioIds :
               catalog'[t] # Nil => catalog'[t] = o \/ object[catalog'[t]] # Nil
         /\ \A s, t \in ScenarioIds : catalog'[s] = catalog'[t] /\ catalog'[s] # Nil => s = t
    BY <2>1, CatalogFacts
  <2>16. QED
    BY <2>2, <2>10, <2>11, <2>14, <2>15, OneStructInv
<1>3. QED
  BY <1>1, <1>2

-----------------------------------------------------------------------------
(* Every action.                                                           *)

LEMMA UnchangedInv ==
    ASSUME StoreInv, UNCHANGED storeVars
    PROVE  StoreInv'
BY DEF storeVars, StoreInv, StoreTypeOK, CatalogValid, SliceShape, NoAliasing,
       View, Slots, Cap

LEMMA CreateScenarioInv ==
    ASSUME StoreInv, NEW sid \in ScenarioIds, CreateScenario(sid)
    PROVE  StoreInv'
<1>1. <<>> \in Seq(AdapterRecord) /\ "" \in Sources
  BY DEF Sources
<1>2. QED
  BY <1>1, UnchangedInv, PublishInv DEF CreateScenario

LEMMA LoadGitHubScenarioInv ==
    ASSUME StoreInv, NEW g \in GithubIds, LoadGitHubScenario(g)
    PROVE  StoreInv'
<1>1. FromFile(g) \in Seq(AdapterRecord) /\ g \in ScenarioIds /\ "github" \in Sources
  BY FromFileType DEF ScenarioIds, Sources
<1>2. QED
  BY <1>1, UnchangedInv, PublishInv DEF LoadGitHubScenario

LEMMA CloneScenarioInv ==
    ASSUME StoreInv, NEW src \in ScenarioIds, NEW sid \in ScenarioIds,
           CloneScenario(src, sid)
    PROVE  StoreInv'
<1>1. CASE ~ Holds(src)
  BY <1>1, UnchangedInv DEF CloneScenario
<1>2. CASE Holds(src)
  <2>1. AdaptersOf(src) \in Seq(AdapterRecord)
    BY <1>2, CatalogFacts, ViewType DEF Holds, AdaptersOf
  <2>2. CloneOf(AdaptersOf(src), sid) \in Seq(AdapterRecord) /\ "user" \in Sources
    BY <2>1, CloneOfType DEF Sources
  <2>3. QED
    BY <1>2, <2>2, PublishInv DEF CloneScenario
<1>3. QED
  BY <1>1, <1>2

LEMMA DeleteScenarioInv ==
    ASSUME StoreInv, NEW sid \in ScenarioIds, DeleteScenario(sid)
    PROVE  StoreInv'
BY HeapAssumption DEF DeleteScenario, StoreInv, StoreTypeOK, CatalogValid, SliceShape, NoAliasing,
       View, Slots, Cap

\* A step that changes nothing of a struct but its name and its status.
LEMMA RelabelInv ==
    ASSUME StoreInv, NEW o \in Objects, object[o] # Nil, NEW r \in ScenarioStruct,
           r.arr = object[o].arr, r.len = object[o].len,
           object' = [object EXCEPT ![o] = r], UNCHANGED <<catalog, array>>
    PROVE  StoreInv'
<1>1. array' \in [Arrays -> Seq(AdapterRecord \cup {Nil})]
  BY DEF StoreInv, StoreTypeOK
<1>2. /\ r.arr = NoArray => r.len = 0
      /\ r.arr # NoArray => r.len <= Len(array'[r.arr])
      /\ \A k \in 1 .. r.len : array'[r.arr][k] # Nil
  BY SliceFacts, NilAssumption
<1>3. r.arr # NoArray => array'[r.arr] # <<>>
  BY DEF StoreInv, SliceShape
<1>4. \A p \in Objects \ {o} :
         object[p] # Nil /\ object[p].arr = r.arr => r.arr = NoArray
  BY DEF StoreInv, NoAliasing
<1>5. /\ catalog' \in [ScenarioIds -> Objects \cup {Nil}]
      /\ \A t \in ScenarioIds :
            catalog'[t] # Nil => catalog'[t] = o \/ object[catalog'[t]] # Nil
      /\ \A s, t \in ScenarioIds : catalog'[s] = catalog'[t] /\ catalog'[s] # Nil => s = t
  BY CatalogFacts
<1>6. \A b \in Arrays : b # r.arr => array'[b] = array[b]
  OBVIOUS
<1>7. QED
  BY <1>1, <1>2, <1>3, <1>4, <1>5, <1>6, OneStructInv

LEMMA UpdateScenarioInv ==
    ASSUME StoreInv, NEW sid \in ScenarioIds, UpdateScenario(sid)
    PROVE  StoreInv'
<1>1. CASE ~ Holds(sid)
  BY <1>1, UnchangedInv DEF UpdateScenario, storeVars
<1>2. CASE Holds(sid)
  <2> DEFINE o == catalog[sid]
             r == [object[o] EXCEPT !.name = "edited"]
  <2>1. o \in Objects /\ object[o] # Nil
    BY <1>2, CatalogFacts DEF Holds
  <2> HIDE DEF o
  <2>2. /\ r \in ScenarioStruct
        /\ r.arr = object[o].arr /\ r.len = object[o].len
        /\ object' = [object EXCEPT ![o] = r]
        /\ UNCHANGED <<catalog, array>>
    BY <1>2, <2>1, SliceFacts DEF UpdateScenario, ScenarioStruct, Titles, o
  <2> HIDE DEF r
  <2>3. QED
    BY <2>1, <2>2, RelabelInv
<1>3. QED
  BY <1>1, <1>2

LEMMA UpdateScenarioStatusInv ==
    ASSUME StoreInv, NEW sid \in ScenarioIds, NEW status \in Statuses,
           UpdateScenarioStatus(sid, status)
    PROVE  StoreInv'
<1>1. CASE ~ Holds(sid)
  BY <1>1, UnchangedInv DEF UpdateScenarioStatus, storeVars
<1>2. CASE Holds(sid)
  <2> DEFINE o == catalog[sid]
             r == [object[o] EXCEPT !.status = status]
  <2>1. o \in Objects /\ object[o] # Nil
    BY <1>2, CatalogFacts DEF Holds
  <2> HIDE DEF o
  <2>2. /\ r \in ScenarioStruct
        /\ r.arr = object[o].arr /\ r.len = object[o].len
        /\ object' = [object EXCEPT ![o] = r]
        /\ UNCHANGED <<catalog, array>>
    BY <1>2, <2>1, SliceFacts DEF UpdateScenarioStatus, ScenarioStruct, o
  <2> HIDE DEF r
  <2>3. QED
    BY <2>1, <2>2, RelabelInv
<1>3. QED
  BY <1>1, <1>2

LEMMA AddAdapterInv ==
    ASSUME StoreInv, NEW sid \in ScenarioIds, NEW x \in AdapterRecord,
           AddAdapter(sid, x)
    PROVE  StoreInv'
<1>1. CASE ~ Holds(sid)
  BY <1>1, UnchangedInv DEF AddAdapter
<1>2. CASE Holds(sid)
  <2>1. catalog[sid] \in Objects /\ object[catalog[sid]] # Nil
    BY <1>2, CatalogFacts DEF Holds
  <2>2. QED
    BY <1>2, <2>1, AppendInPlaceInv, AppendGrowingInv DEF AddAdapter
<1>3. QED
  BY <1>1, <1>2

(* What a method that looks an adapter up may rely on.                     *)
LEMMA LookupFacts ==
    ASSUME StoreInv, NEW sid \in ScenarioIds, NEW i \in Positions(sid)
    PROVE  /\ Holds(sid)
           /\ catalog[sid] \in Objects /\ object[catalog[sid]] # Nil
           /\ i \in 1 .. object[catalog[sid]].len
           /\ AdapterAt(sid, i) \in AdapterRecord
<1>1. Holds(sid) /\ i \in 1 .. object[catalog[sid]].len
  BY DEF Positions
<1>2. catalog[sid] \in Objects /\ object[catalog[sid]] # Nil
  BY <1>1, CatalogFacts DEF Holds
<1>3. QED
  BY <1>1, <1>2, SliceFacts DEF AdapterAt

LEMMA UpdateAdapterStatusInv ==
    ASSUME StoreInv, NEW sid \in ScenarioIds, NEW id, NEW status \in Statuses,
           UpdateAdapterStatus(sid, id, status)
    PROVE  StoreInv'
<1>1. ASSUME NEW i \in Positions(sid)
      PROVE  WithStatus(AdapterAt(sid, i), status) \in AdapterRecord
  BY <1>1, LookupFacts DEF WithStatus, AdapterRecord, Activity
<1>2. QED
  BY <1>1, LookupFacts, SetSlotInv, UnchangedInv DEF UpdateAdapterStatus

LEMMA UpdateAdapterIngressURLInv ==
    ASSUME StoreInv, NEW sid \in ScenarioIds, NEW id, NEW url \in Urls,
           UpdateAdapterIngressURL(sid, id, url)
    PROVE  StoreInv'
<1>1. ASSUME NEW i \in Positions(sid)
      PROVE  [AdapterAt(sid, i) EXCEPT !.url = url] \in AdapterRecord
  BY <1>1, LookupFacts DEF AdapterRecord
<1>2. QED
  BY <1>1, LookupFacts, SetSlotInv, UnchangedInv DEF UpdateAdapterIngressURL

LEMMA UpdateAdapterInv ==
    ASSUME StoreInv, NEW sid \in ScenarioIds, NEW id, NEW name \in Names \cup {Nil},
           NEW key \in Keys, UpdateAdapter(sid, id, name, key)
    PROVE  StoreInv'
<1>1. ASSUME NEW i \in Positions(sid)
      PROVE  [AdapterAt(sid, i) EXCEPT !.name = IF name = Nil THEN @ ELSE name,
                                       !.key = key] \in AdapterRecord
  BY <1>1, LookupFacts DEF AdapterRecord
<1>2. QED
  BY <1>1, LookupFacts, SetSlotInv, UnchangedInv DEF UpdateAdapter

LEMMA RecordAdapterActivityInv ==
    ASSUME StoreInv, NEW id, RecordAdapterActivity(id)
    PROVE  StoreInv'
<1>1. ASSUME NEW sid \in ScenarioIds, NEW i \in Positions(sid)
      PROVE  [AdapterAt(sid, i) EXCEPT !.last = "recent"] \in AdapterRecord
  BY <1>1, LookupFacts DEF AdapterRecord, Activity
<1>2. QED
  BY <1>1, LookupFacts, SetSlotInv, UnchangedInv DEF RecordAdapterActivity

LEMMA PointerStepInv ==
    ASSUME StoreInv, PointerStep
    PROVE  StoreInv'
<1>1. PICK o \in Objects : object[o] # Nil /\ \E i \in 1 .. object[o].len :
         PokeStatus(o, i) \/ \E url \in Urls : PokeUrl(o, i, url)
  BY DEF PointerStep
<1>2. PICK i \in 1 .. object[o].len :
         PokeStatus(o, i) \/ \E url \in Urls : PokeUrl(o, i, url)
  BY <1>1
<1>3. View(o)[i] \in AdapterRecord
  BY <1>1, SliceFacts
<1>4. /\ [View(o)[i] EXCEPT !.status = "running"] \in AdapterRecord
      /\ \A url \in Urls : [View(o)[i] EXCEPT !.url = url] \in AdapterRecord
  BY <1>3 DEF AdapterRecord, Statuses
<1>5. QED
  BY <1>1, <1>2, <1>4, SetSlotInv DEF PokeStatus, PokeUrl

LEMMA TimePassesInv ==
    ASSUME StoreInv, TimePasses
    PROVE  StoreInv'
<1> DEFINE S == AdapterRecord \cup {Nil}
<1>1. \A x \in S : Aged(x) \in S /\ (x # Nil => Aged(x) # Nil)
  <2> SUFFICES ASSUME NEW x \in AdapterRecord
               PROVE  Aged(x) \in AdapterRecord
    BY NilAssumption DEF Aged
  <2>1. x # Nil
    BY NilAssumption
  <2>2. QED
    BY <2>1 DEF Aged, AdapterRecord, Activity
<1>2. array \in [Arrays -> Seq(S)]
  BY DEF StoreInv, StoreTypeOK
<1>3. ASSUME NEW a \in Arrays
      PROVE  /\ array'[a] \in Seq(S)
             /\ Len(array'[a]) = Len(array[a])
             /\ \A k \in 1 .. Len(array[a]) : array[a][k] # Nil => array'[a][k] # Nil
  <2>1. array[a] \in Seq(S)
    BY <1>2
  <2> DEFINE n == Len(array[a])
             F(k) == Aged(array[a][k])
  <2>2. n \in Nat /\ \A k \in 1 .. n : F(k) \in S /\ (array[a][k] # Nil => F(k) # Nil)
    BY <1>1, <2>1, ElementOfSeq
  <2>3. array'[a] = [k \in 1 .. n |-> F(k)]
    BY DEF TimePasses
  <2> HIDE DEF n, F
  <2>4. array'[a] \in Seq(S) /\ Len(array'[a]) = n
        /\ \A k \in 1 .. n : array[a][k] # Nil => array'[a][k] # Nil
    BY <2>2, <2>3
  <2>5. QED
    BY <2>4 DEF n
<1>4. array' \in [Arrays -> Seq(S)]
  <2>1. array' = [a \in Arrays |-> array'[a]]
    BY DEF TimePasses
  <2>2. QED
    BY <1>3, <2>1
<1>5. UNCHANGED <<catalog, object>>
  BY DEF TimePasses
<1>6. QED
  BY <1>3, <1>4, <1>5, RewriteInv

(* An empty map on an empty heap, at the start and after a restart.        *)
LEMMA EmptyInv ==
    ASSUME StoreInit
    PROVE  StoreInv
<1>1. StoreTypeOK
  BY DEF StoreInit, StoreTypeOK
<1>2. CatalogValid /\ SliceShape /\ NoAliasing
  BY DEF StoreInit, CatalogValid, SliceShape, NoAliasing
<1>3. QED
  BY <1>1, <1>2 DEF StoreInv

LEMMA NewMemoryStoreInv ==
    ASSUME NewMemoryStore
    PROVE  StoreInv'
<1>1. StoreTypeOK'
  BY DEF NewMemoryStore, StoreTypeOK
<1>2. CatalogValid' /\ SliceShape' /\ NoAliasing'
  BY DEF NewMemoryStore, CatalogValid, SliceShape, NoAliasing
<1>3. QED
  BY <1>1, <1>2 DEF StoreInv

LEMMA KnownKeysType ==
    ASSUME StoreInv
    PROVE  KnownKeys \subseteq Keys
<1>1. Stored \ {Nil} \subseteq AdapterRecord
  BY ElementOfSeq DEF Stored, StoreInv, StoreTypeOK
<1>2. QED
  BY <1>1 DEF KnownKeys, Keys, AdapterRecord

LEMMA ScenarioStepInv ==
    ASSUME StoreInv, ScenarioStep
    PROVE  StoreInv'
<1>1. PICK sid \in ScenarioIds :
        \/ CreateScenario(sid)
        \/ DeleteScenario(sid)
        \/ \E src \in ScenarioIds : CloneScenario(src, sid)
        \/ UpdateScenario(sid)
        \/ \E status \in Statuses : UpdateScenarioStatus(sid, status)
        \/ \E name \in Names, type \in Types, n \in Seconds :
              LET id == NewAdapterId(sid, type, n)
              IN  \E key \in RequestKeys(type, id) :
                     AddAdapter(sid, NewAdapter(id, name, type, key))
  BY DEF ScenarioStep
<1>2. CASE CreateScenario(sid)
  BY <1>2, CreateScenarioInv
<1>3. CASE DeleteScenario(sid)
  BY <1>3, DeleteScenarioInv
<1>4. CASE \E src \in ScenarioIds : CloneScenario(src, sid)
  BY <1>4, CloneScenarioInv
<1>5. CASE \E status \in Statuses : UpdateScenarioStatus(sid, status)
  BY <1>5, UpdateScenarioStatusInv
<1>6. CASE UpdateScenario(sid)
  BY <1>6, UpdateScenarioInv
<1>7. ASSUME NEW name \in Names, NEW type \in Types, NEW n \in Seconds,
             NEW key \in RequestKeys(type, NewAdapterId(sid, type, n)),
             AddAdapter(sid, NewAdapter(NewAdapterId(sid, type, n), name, type, key))
      PROVE  StoreInv'
  <2>1. NewAdapterId(sid, type, n) \in AdapterIds
    BY NewAdapterIdType
  <2>2. key \in Keys
    BY <2>1 DEF RequestKeys, Keys
  <2>3. NewAdapter(NewAdapterId(sid, type, n), name, type, key) \in AdapterRecord
    BY <2>1, <2>2, NewAdapterType
  <2>4. QED
    BY <1>7, <2>3, AddAdapterInv
<1>8. QED
  BY <1>1, <1>2, <1>3, <1>4, <1>5, <1>6, <1>7

LEMMA AdapterStepInv ==
    ASSUME StoreInv, AdapterStep
    PROVE  StoreInv'
<1>1. PICK sid \in ScenarioIds, id \in KnownIds :
        \/ DeleteAdapter(sid, id)
        \/ \E status \in Statuses : UpdateAdapterStatus(sid, id, status)
        \/ \E url \in Urls : UpdateAdapterIngressURL(sid, id, url)
        \/ \E name \in Names \cup {Nil}, key \in KnownKeys :
              UpdateAdapter(sid, id, name, key)
        \/ RecordAdapterActivity(id)
  BY DEF AdapterStep
<1>2. CASE \E name \in Names \cup {Nil}, key \in KnownKeys :
              UpdateAdapter(sid, id, name, key)
  BY <1>2, KnownKeysType, UpdateAdapterInv
<1>3. QED
  BY <1>1, <1>2, DeleteAdapterInv, UpdateAdapterStatusInv,
     UpdateAdapterIngressURLInv, RecordAdapterActivityInv

LEMMA StoreStepInv ==
    ASSUME StoreInv, [StoreNext]_storeVars
    PROVE  StoreInv'
BY UnchangedInv, ScenarioStepInv, AdapterStepInv, PointerStepInv,
   LoadGitHubScenarioInv, TimePassesInv, NewMemoryStoreInv DEF StoreNext

-----------------------------------------------------------------------------

(* The heap of memory.go keeps its shape for ever, for every number of     *)
(* scenarios, adapters and allocations: map entries lead to structs,       *)
(* slices lie in their arrays and show no holes, arrays are not shared.    *)
THEOREM StoreInvariant == StoreSpec => []StoreInv
<1>1. StoreInit => StoreInv
  BY EmptyInv
<1>2. StoreInv /\ [StoreNext]_storeVars => StoreInv'
  BY StoreStepInv
<1>3. QED
  BY <1>1, <1>2, PTL DEF StoreSpec

(* Type correctness of the store.                                          *)
THEOREM StoreTypeCorrect == StoreSpec => []StoreTypeOK
<1>1. StoreInv => StoreTypeOK
  BY DEF StoreInv
<1>2. QED
  BY <1>1, StoreInvariant, PTL

(* In-place appends and deletes leave no slice outside its array and no    *)
(* slice with a hole in it.                                                *)
THEOREM SlicesKeepShape == StoreSpec => []SliceShape
<1>1. StoreInv => SliceShape
  BY DEF StoreInv
<1>2. QED
  BY <1>1, StoreInvariant, PTL

(* No clone, delete, append or overwrite of a map entry makes two live     *)
(* scenarios share a backing array or two ids share a struct.              *)
THEOREM ArraysAreNotShared == StoreSpec => []NoAliasing
<1>1. StoreInv => NoAliasing
  BY DEF StoreInv
<1>2. QED
  BY <1>1, StoreInvariant, PTL

-----------------------------------------------------------------------------
(* Isolation.  OnlyTouches(o): the step leaves the slices of every struct  *)
(* but o as they are.                                                      *)

OnlyTouches(o) == \A p \in Objects \ {o} : object[p] # Nil => View(p)' = View(p)

LEMMA OnlyTouchesCriterion ==
    ASSUME StoreInv, NEW o \in Objects,
           \A p \in Objects \ {o} : object[p] # Nil =>
              /\ object'[p] = object[p]
              /\ object[p].arr \in Arrays => array'[object[p].arr] = array[object[p].arr]
    PROVE  OnlyTouches(o)
<1> SUFFICES ASSUME NEW p \in Objects \ {o}, object[p] # Nil
             PROVE  View(p)' = View(p)
  BY DEF OnlyTouches
<1>1. /\ object'[p] = object[p]
      /\ object[p].arr \in Arrays => array'[object[p].arr] = array[object[p].arr]
  OBVIOUS
<1>2. CASE object[p].arr \in Arrays
  BY <1>1, <1>2 DEF View, Slots
<1>3. CASE object[p].arr \notin Arrays
  <2>1. object[p].len = 0
    BY <1>3, SliceFacts
  <2>2. QED
    BY <1>1, <2>1 DEF View, Slots
<1>4. QED
  BY <1>2, <1>3

LEMMA OneTouchedIsolates ==
    ASSUME NEW o \in Objects, OnlyTouches(o)
    PROVE  \A p, q \in Objects : Changed(p) /\ Changed(q) => p = q
BY DEF OnlyTouches, Changed

LEMMA UnchangedIsolates ==
    ASSUME StoreInv, UNCHANGED <<object, array>>
    PROVE  \A p, q \in Objects : Changed(p) /\ Changed(q) => p = q
BY DEF Changed, View, Slots

LEMMA SetSlotTouches ==
    ASSUME StoreInv, NEW o \in Objects, object[o] # Nil,
           NEW i \in 1 .. object[o].len, NEW x, SetSlot(o, i, x)
    PROVE  OnlyTouches(o)
<1>1. object' = object
  BY DEF SetSlot
<1>2. object[o].arr \in Arrays /\ object[o].arr # NoArray
  BY SliceFacts DEF Arrays, NoArray
<1>3. array \in [Arrays -> Seq(AdapterRecord \cup {Nil})]
  BY DEF StoreInv, StoreTypeOK
<1>4. \A b \in Arrays : b # object[o].arr => array'[b] = array[b]
  BY <1>2, <1>3 DEF SetSlot
<1>5. \A p \in Objects \ {o} : object[p] # Nil => object[p].arr # object[o].arr
  BY <1>2 DEF StoreInv, NoAliasing
<1>6. QED
  BY <1>1, <1>4, <1>5, OnlyTouchesCriterion

LEMMA PublishTouches ==
    ASSUME StoreInv, NEW sid, NEW xs, NEW source, Publish(sid, xs, source)
    PROVE  \E o \in Objects : OnlyTouches(o)
<1>1. PICK o \in Objects :
        /\ \A p \in Objects \ {o} : object'[p] = object[p]
        /\ \/ UNCHANGED array
           \/ \E a \in Arrays : array[a] = <<>> /\ array' = [array EXCEPT ![a] = xs]
  BY DEF Publish, FreshArray, StoreInv, StoreTypeOK
<1>2. ASSUME NEW p \in Objects \ {o}, object[p] # Nil, object[p].arr \in Arrays
      PROVE  array'[object[p].arr] = array[object[p].arr]
  <2>1. array[object[p].arr] # <<>>
    BY <1>2 DEF StoreInv, SliceShape, Arrays, NoArray
  <2>2. array \in [Arrays -> Seq(AdapterRecord \cup {Nil})]
    BY DEF StoreInv, StoreTypeOK
  <2>3. QED
    BY <1>1, <1>2, <2>1, <2>2
<1>3. QED
  BY <1>1, <1>2, OnlyTouchesCriterion

LEMMA AppendTouches ==
    ASSUME StoreInv, NEW o \in Objects, object[o] # Nil, NEW x,
           AppendInPlace(o, x) \/ AppendGrowing(o, x)
    PROVE  OnlyTouches(o)
<1>1. /\ object \in [Objects -> ScenarioStruct \cup {Nil}]
      /\ array \in [Arrays -> Seq(AdapterRecord \cup {Nil})]
  BY DEF StoreInv, StoreTypeOK
<1>2. \A p \in Objects \ {o} : object'[p] = object[p]
  BY <1>1 DEF AppendInPlace, AppendGrowing
<1>3. ASSUME NEW p \in Objects \ {o}, object[p] # Nil, object[p].arr \in Arrays
      PROVE  array'[object[p].arr] = array[object[p].arr]
  <2>1. CASE AppendInPlace(o, x)
    <3>1. object[o].arr # object[p].arr
      BY <1>3 DEF StoreInv, NoAliasing, Arrays, NoArray
    <3>2. QED
      BY <1>1, <1>3, <2>1, <3>1 DEF AppendInPlace
  <2>2. CASE AppendGrowing(o, x)
    <3>1. PICK a \in Arrays : array[a] = <<>>
                           /\ \A b \in Arrays : b # a => array'[b] = array[b]
      BY <1>1, <2>2 DEF AppendGrowing, FreshArray
    <3>2. array[object[p].arr] # <<>>
      BY <1>3 DEF StoreInv, SliceShape, Arrays, NoArray
    <3>3. QED
      BY <1>3, <3>1, <3>2
  <2>3. QED
    BY <2>1, <2>2
<1>4. QED
  BY <1>2, <1>3, OnlyTouchesCriterion

LEMMA DeleteAdapterTouches ==
    ASSUME StoreInv, NEW sid \in ScenarioIds, NEW id, DeleteAdapter(sid, id)
    PROVE  UNCHANGED storeVars \/ \E o \in Objects : OnlyTouches(o)
<1> SUFFICES ASSUME ~ UNCHANGED storeVars
             PROVE  \E o \in Objects : OnlyTouches(o)
  OBVIOUS
<1> DEFINE o == catalog[sid]
           a == object[o].arr
<1>1. PICK i \in Positions(sid) :
        /\ array' = [array EXCEPT ![a] = ShiftDown(@, i, object[o].len)]
        /\ object' = [object EXCEPT ![o].len = @ - 1]
  BY DEF DeleteAdapter
<1>2. o \in Objects /\ object[o] # Nil /\ i \in 1 .. object[o].len
  BY LookupFacts
<1> HIDE DEF o
<1>3. a \in Arrays /\ a # NoArray
  BY <1>2, SliceFacts DEF Arrays, NoArray
<1>4. /\ object \in [Objects -> ScenarioStruct \cup {Nil}]
      /\ array \in [Arrays -> Seq(AdapterRecord \cup {Nil})]
  BY DEF StoreInv, StoreTypeOK
<1>5. \A p \in Objects \ {o} : object[p] # Nil => object[p].arr # a
  BY <1>2, <1>3 DEF StoreInv, NoAliasing
<1>6. /\ \A p \in Objects \ {o} : object'[p] = object[p]
      /\ \A b \in Arrays : b # a => array'[b] = array[b]
  BY <1>1, <1>4
<1>7. OnlyTouches(o)
  BY <1>2, <1>5, <1>6, OnlyTouchesCriterion
<1>8. QED
  BY <1>2, <1>7

LEMMA RelabelIsolates ==
    ASSUME StoreInv, NEW sid \in ScenarioIds, NEW status,
           UpdateScenario(sid) \/ UpdateScenarioStatus(sid, status)
    PROVE  \A p, q \in Objects : Changed(p) /\ Changed(q) => p = q
<1>1. object \in [Objects -> ScenarioStruct \cup {Nil}] /\ UNCHANGED array
  BY DEF StoreInv, StoreTypeOK, UpdateScenario, UpdateScenarioStatus
<1>2. ASSUME NEW p \in Objects, object[p] # Nil
      PROVE  object'[p].arr = object[p].arr /\ object'[p].len = object[p].len
  <2>1. object[p] \in ScenarioStruct
    BY <1>1, <1>2
  <2>2. \/ object'[p] = object[p]
        \/ object'[p] = [object[p] EXCEPT !.name = "edited"]
        \/ object'[p] = [object[p] EXCEPT !.status = status]
    BY <1>1, CatalogFacts DEF UpdateScenario, UpdateScenarioStatus, Holds
  <2>3. QED
    BY <2>1, <2>2 DEF ScenarioStruct
<1>3. \A p \in Objects : object[p] # Nil => View(p)' = View(p)
  BY <1>1, <1>2 DEF View, Slots
<1>4. QED
  BY <1>3 DEF Changed

LEMMA ScenarioStepIsolates ==
    ASSUME StoreInv, ScenarioStep
    PROVE  \A p, q \in Objects : Changed(p) /\ Changed(q) => p = q
<1>1. PICK sid \in ScenarioIds :
        \/ CreateScenario(sid)
        \/ DeleteScenario(sid)
        \/ \E src \in ScenarioIds : CloneScenario(src, sid)
        \/ UpdateScenario(sid)
        \/ \E status \in Statuses : UpdateScenarioStatus(sid, status)
        \/ \E x : AddAdapter(sid, x)
  BY DEF ScenarioStep
<1>2. CASE CreateScenario(sid)
  BY <1>2, UnchangedIsolates, PublishTouches, OneTouchedIsolates
  DEF CreateScenario, storeVars
<1>3. CASE DeleteScenario(sid)
  BY <1>3, UnchangedIsolates DEF DeleteScenario
<1>4. CASE \E src \in ScenarioIds : CloneScenario(src, sid)
  BY <1>4, UnchangedIsolates, PublishTouches, OneTouchedIsolates
  DEF CloneScenario, storeVars
<1>5. CASE UpdateScenario(sid) \/ \E status \in Statuses : UpdateScenarioStatus(sid, status)
  BY <1>5, RelabelIsolates
<1>6. CASE \E x : AddAdapter(sid, x)
  BY <1>6, CatalogFacts, UnchangedIsolates, AppendTouches, OneTouchedIsolates
  DEF AddAdapter, Holds, storeVars
<1>7. QED
  BY <1>1, <1>2, <1>3, <1>4, <1>5, <1>6

LEMMA AdapterStepIsolates ==
    ASSUME StoreInv, AdapterStep
    PROVE  \A p, q \in Objects : Changed(p) /\ Changed(q) => p = q
<1>1. PICK sid \in ScenarioIds, id \in KnownIds :
        \/ DeleteAdapter(sid, id)
        \/ \E status : UpdateAdapterStatus(sid, id, status)
        \/ \E url : UpdateAdapterIngressURL(sid, id, url)
        \/ \E name, key : UpdateAdapter(sid, id, name, key)
        \/ RecordAdapterActivity(id)
  BY DEF AdapterStep
<1>2. CASE DeleteAdapter(sid, id)
  BY <1>2, DeleteAdapterTouches, UnchangedIsolates, OneTouchedIsolates DEF storeVars
<1>3. CASE ~ DeleteAdapter(sid, id)
  <2>1. \/ UNCHANGED storeVars
        \/ \E s \in ScenarioIds : \E i \in Positions(s) : \E x : SetSlot(catalog[s], i, x)
    BY <1>1, <1>3 DEF UpdateAdapterStatus, UpdateAdapterIngressURL,
                      UpdateAdapter, RecordAdapterActivity
  <2>2. QED
    BY <2>1, LookupFacts, SetSlotTouches, UnchangedIsolates, OneTouchedIsolates
    DEF storeVars
<1>4. QED
  BY <1>2, <1>3

LEMMA PointerStepIsolates ==
    ASSUME StoreInv, PointerStep
    PROVE  \A p, q \in Objects : Changed(p) /\ Changed(q) => p = q
BY SetSlotTouches, OneTouchedIsolates DEF PointerStep, PokeStatus, PokeUrl

LEMMA UpdateIsolates ==
    ASSUME StoreInv, NEW sid \in ScenarioIds, NEW id, NEW name, NEW key,
           UpdateAdapter(sid, id, name, key)
    PROVE  \A p, q \in Objects : Changed(p) /\ Changed(q) => p = q
<1>1. \/ UNCHANGED storeVars
      \/ \E i \in Positions(sid) : \E x : SetSlot(catalog[sid], i, x)
  BY DEF UpdateAdapter
<1>2. QED
  BY <1>1, LookupFacts, SetSlotTouches, UnchangedIsolates, OneTouchedIsolates
  DEF storeVars

LEMMA StoreNextIsolates ==
    ASSUME StoreInv, StoreNext, ~ TimePasses, ~ NewMemoryStore
    PROVE  \A p, q \in Objects : Changed(p) /\ Changed(q) => p = q
<1>1. CASE ScenarioStep
  BY <1>1, ScenarioStepIsolates
<1>2. CASE AdapterStep
  BY <1>2, AdapterStepIsolates
<1>3. CASE PointerStep
  BY <1>3, PointerStepIsolates
<1>4. ASSUME NEW g \in GithubIds, LoadGitHubScenario(g)
      PROVE  \A p, q \in Objects : Changed(p) /\ Changed(q) => p = q
  BY <1>4, UnchangedIsolates, PublishTouches, OneTouchedIsolates
  DEF LoadGitHubScenario, storeVars
<1>5. QED
  BY <1>1, <1>2, <1>3, <1>4 DEF StoreNext

(* No call of the store and no write through a pointer disturbs the        *)
(* adapters of two scenarios at once, for any number of them.              *)
THEOREM ScenariosAreIsolated == StoreSpec => Isolation
<1>1. StoreInv /\ [StoreNext]_storeVars
        => [ \/ TimePasses
             \/ NewMemoryStore
             \/ \A o, p \in Objects : Changed(o) /\ Changed(p) => o = p ]_storeVars
  BY StoreNextIsolates
<1>2. QED
  BY <1>1, StoreInvariant, PTL DEF StoreSpec, Isolation

-----------------------------------------------------------------------------
(***************************************************************************)
(* What holders of pointers and slices may rely on.  Homes: a backing      *)
(* array only ever holds adapters of one scenario, the one whose slice it  *)
(* backs.  KeepsCells: nothing but a restart empties a slot, shortens an   *)
(* array, frees a struct, or puts an adapter of another scenario into a    *)
(* slot.  In local mode adapter ids do not name their scenario, and only   *)
(* the shape is kept.                                                      *)
(*                                                                         *)
(* As above, both are shown for each effect on the heap, and then for each *)
(* action.                                                                 *)
(***************************************************************************)

Homes ==
    ~LocalMode =>
        /\ \A a \in Arrays : \A i, j \in 1 .. Len(array[a]) :
              array[a][i] # Nil /\ array[a][j] # Nil
              => array[a][i].id[1] = array[a][j].id[1]
        /\ \A sid \in ScenarioIds :
              Holds(sid) /\ object[catalog[sid]].arr # NoArray =>
                \A i \in 1 .. Len(array[object[catalog[sid]].arr]) :
                   array[object[catalog[sid]].arr][i] # Nil
                   => array[object[catalog[sid]].arr][i].id[1] = sid

KeepsCells ==
    /\ \A o \in Objects : object[o] # Nil => object'[o] # Nil
    /\ \A a \in Arrays : \A i \in 1 .. Len(array[a]) :
          array[a][i] # Nil =>
            /\ i \in 1 .. Len(array'[a])
            /\ array'[a][i] # Nil
            /\ ~LocalMode => array'[a][i].id[1] = array[a][i].id[1]

HeapInv == StoreInv /\ Homes

-----------------------------------------------------------------------------
(* The effects.                                                            *)

(* No slot is written, and no struct gets another array.                   *)
LEMMA SameArraysKeep ==
    ASSUME HeapInv, UNCHANGED array,
           \A o \in Objects : object[o] # Nil =>
              object'[o] # Nil /\ object'[o].arr = object[o].arr,
           \A sid \in ScenarioIds : catalog'[sid] \in {catalog[sid], Nil}
    PROVE  Homes' /\ KeepsCells
<1>1. KeepsCells
  BY DEF KeepsCells
<1>2. \A sid \in ScenarioIds : Holds(sid)' =>
         /\ Holds(sid)
         /\ object'[catalog'[sid]].arr = object[catalog[sid]].arr
  BY CatalogFacts DEF HeapInv, Holds
<1>3. Homes'
  BY <1>2 DEF HeapInv, Homes
<1>4. QED
  BY <1>1, <1>3

(* Slots are rewritten, but their adapters keep their scenarios.           *)
LEMMA RewriteKeeps ==
    ASSUME HeapInv, UNCHANGED <<catalog, object>>,
           \A a \in Arrays :
              /\ Len(array'[a]) = Len(array[a])
              /\ \A k \in 1 .. Len(array[a]) :
                    IF array[a][k] = Nil THEN array'[a][k] = Nil
                    ELSE array'[a][k] # Nil /\ array'[a][k].id = array[a][k].id
    PROVE  Homes' /\ KeepsCells
<1>1. KeepsCells
  BY DEF KeepsCells
<1>2. ASSUME ~LocalMode, NEW a \in Arrays, NEW i \in 1 .. Len(array'[a]),
             NEW j \in 1 .. Len(array'[a]), array'[a][i] # Nil, array'[a][j] # Nil
      PROVE  array'[a][i].id[1] = array'[a][j].id[1]
  BY <1>2 DEF HeapInv, Homes
<1>3. ASSUME ~LocalMode, NEW sid \in ScenarioIds, Holds(sid),
             NEW a, a = object[catalog[sid]].arr, a # NoArray,
             NEW i \in 1 .. Len(array'[a]), array'[a][i] # Nil
      PROVE  array'[a][i].id[1] = sid
  <2>1. a \in Arrays
    BY <1>3, CatalogFacts, SliceFacts DEF HeapInv, Holds
  <2>2. i \in 1 .. Len(array[a]) /\ array[a][i] # Nil
    BY <2>1, <1>3
  <2>3. array[a][i].id[1] = sid
    BY <1>3, <2>2 DEF HeapInv, Homes
  <2>4. QED
    BY <2>1, <2>2, <2>3
<1>4. Homes'
  BY <1>2, <1>3 DEF Homes, Holds
<1>5. QED
  BY <1>1, <1>4

LEMMA SetSlotKeeps ==
    ASSUME HeapInv, NEW o \in Objects, object[o] # Nil,
           NEW i \in 1 .. object[o].len, NEW x \in AdapterRecord,
           x.id = array[object[o].arr][i].id,
           SetSlot(o, i, x)
    PROVE  Homes' /\ KeepsCells
<1> DEFINE a == object[o].arr
           S == AdapterRecord \cup {Nil}
           E == [array[a] EXCEPT ![i] = x]
<1>1. /\ a \in Arrays
      /\ i \in 1 .. Len(array[a])
      /\ array[a][i] \in AdapterRecord
      /\ array \in [Arrays -> Seq(S)]
      /\ array[a] \in Seq(S)
  <2>1. a \in Arrays /\ object[o].len \in Nat /\ object[o].len <= Len(array[a])
        /\ array[a][i] \in AdapterRecord
    BY SliceFacts DEF HeapInv
  <2>2. array \in [Arrays -> Seq(S)]
    BY DEF HeapInv, StoreInv, StoreTypeOK
  <2>3. QED
    BY <2>1, <2>2
<1>2. /\ Len(E) = Len(array[a])
      /\ \A k \in 1 .. Len(array[a]) : E[k] = IF k = i THEN x ELSE array[a][k]
  BY <1>1, ExceptSeq
<1> HIDE DEF E
<1>3. array' = [array EXCEPT ![a] = E] /\ UNCHANGED <<catalog, object>>
  BY DEF SetSlot, E
<1>4. \A b \in Arrays :
         /\ Len(array'[b]) = Len(array[b])
         /\ \A k \in 1 .. Len(array[b]) :
               IF array[b][k] = Nil THEN array'[b][k] = Nil
               ELSE array'[b][k] # Nil /\ array'[b][k].id = array[b][k].id
  BY <1>1, <1>2, <1>3, NilAssumption
<1>5. QED
  BY <1>3, <1>4, RewriteKeeps

(* A new struct on a new array, filled for its own scenario.               *)
LEMMA PublishKeeps ==
    ASSUME HeapInv, NEW sid \in ScenarioIds, NEW xs \in Seq(AdapterRecord),
           NEW source \in Sources, Publish(sid, xs, source),
           ~LocalMode => \A i \in 1 .. Len(xs) : xs[i].id[1] = sid
    PROVE  Homes' /\ KeepsCells
<1>1. PICK o \in Objects :
        /\ object[o] = Nil
        /\ catalog' = [catalog EXCEPT ![sid] = o]
        /\ \/ /\ object' = [object EXCEPT ![o] =
                    [arr |-> NoArray, len |-> 0, name |-> "given",
                     status |-> "stopped", source |-> source]]
              /\ UNCHANGED array
           \/ \E a \in Arrays :
                 /\ array[a] = <<>>
                 /\ array' = [array EXCEPT ![a] = xs]
                 /\ object' = [object EXCEPT ![o] =
                       [arr |-> a, len |-> Len(xs), name |-> "given",
                        status |-> "stopped", source |-> source]]
  BY DEF Publish, Fresh, FreshArray
<1>2. PICK r \in ScenarioStruct :
        /\ object' = [object EXCEPT ![o] = r]
        /\ \/ r.arr = NoArray /\ UNCHANGED array
           \/ /\ r.arr \in Arrays
              /\ array[r.arr] = <<>>
              /\ array' = [array EXCEPT ![r.arr] = xs]
  <2> DEFINE R(a, n) == [arr |-> a, len |-> n, name |-> "given",
                         status |-> "stopped", source |-> source]
  <2>1. ASSUME NEW a \in Arrays \cup {NoArray}, NEW n \in Nat
        PROVE  R(a, n) \in ScenarioStruct /\ R(a, n).arr = a
    BY DEF ScenarioStruct, Statuses, Titles
  <2>2. 0 \in Nat /\ Len(xs) \in Nat
    BY LenProperties
  <2>3. \/ object' = [object EXCEPT ![o] = R(NoArray, 0)] /\ UNCHANGED array
        \/ \E a \in Arrays :
              /\ array[a] = <<>>
              /\ array' = [array EXCEPT ![a] = xs]
              /\ object' = [object EXCEPT ![o] = R(a, Len(xs))]
    BY <1>1
  <2> HIDE DEF R
  <2>4. QED
    BY <2>1, <2>2, <2>3
<1>3. /\ object \in [Objects -> ScenarioStruct \cup {Nil}]
      /\ array \in [Arrays -> Seq(AdapterRecord \cup {Nil})]
      /\ catalog \in [ScenarioIds -> Objects \cup {Nil}]
      /\ r # Nil
  BY HeapAssumption DEF HeapInv, StoreInv, StoreTypeOK
<1>4. \A b \in Arrays :
         \/ array'[b] = array[b]
         \/ b = r.arr /\ array[b] = <<>> /\ array'[b] = xs
  BY <1>2, <1>3
<1>5. object'[o] = r /\ \A p \in Objects : p # o => object'[p] = object[p]
  BY <1>2, <1>3
<1>6. KeepsCells
  BY <1>1, <1>3, <1>4, <1>5 DEF KeepsCells
<1>7. ASSUME ~LocalMode, NEW a \in Arrays, NEW i \in 1 .. Len(array'[a]),
             NEW j \in 1 .. Len(array'[a]), array'[a][i] # Nil, array'[a][j] # Nil
      PROVE  array'[a][i].id[1] = array'[a][j].id[1]
  BY <1>4, <1>7 DEF HeapInv, Homes
<1>8. ASSUME ~LocalMode, NEW s \in ScenarioIds, Holds(s)',
             NEW a, a = object'[catalog'[s]].arr, a # NoArray,
             NEW i \in 1 .. Len(array'[a]), array'[a][i] # Nil
      PROVE  array'[a][i].id[1] = s
  <2>1. CASE s = sid
    <3>1. catalog'[s] = o /\ a = r.arr
      BY <1>1, <1>3, <1>5, <1>8, <2>1
    <3>2. array'[a] = xs
      BY <1>2, <1>3, <1>8, <3>1
    <3>3. QED
      BY <1>8, <2>1, <3>2
  <2>2. CASE s # sid
    <3>1. catalog'[s] = catalog[s] /\ catalog[s] # Nil
      BY <1>1, <1>3, <1>8, <2>2 DEF Holds
    <3>2. catalog[s] \in Objects /\ object[catalog[s]] # Nil
      BY <3>1, CatalogFacts DEF HeapInv
    <3>3. object'[catalog[s]] = object[catalog[s]] /\ a = object[catalog[s]].arr
      BY <1>1, <1>5, <1>8, <3>1, <3>2
    <3>4. a \in Arrays /\ array[a] # <<>>
      BY <1>8, <3>2, <3>3, SliceFacts DEF HeapInv, StoreInv, SliceShape
    <3>5. array'[a] = array[a]
      BY <1>4, <3>4
    <3>6. QED
      BY <1>8, <3>1, <3>3, <3>5 DEF HeapInv, Homes, Holds
  <2>3. QED
    BY <2>1, <2>2
<1>9. Homes'
  BY <1>7, <1>8 DEF Homes
<1>10. QED
  BY <1>6, <1>9

(* The slot behind a slice is taken by an adapter of its scenario.         *)
LEMMA AppendInPlaceKeeps ==
    ASSUME HeapInv, NEW sid \in ScenarioIds, Holds(sid),
           NEW x \in AdapterRecord, ~LocalMode => x.id[1] = sid,
           AppendInPlace(catalog[sid], x), UNCHANGED catalog
    PROVE  Homes' /\ KeepsCells
<1> DEFINE o == catalog[sid]
           a == object[o].arr
           n == object[o].len
           S == AdapterRecord \cup {Nil}
           E == [array[a] EXCEPT ![n + 1] = x]
<1>1. o \in Objects /\ object[o] # Nil
  BY CatalogFacts DEF HeapInv, Holds
<1>2. /\ a \in Arrays /\ a # NoArray /\ n \in Nat
      /\ n + 1 \in 1 .. Len(array[a])
      /\ array[a] \in Seq(S)
  <2>1. a # NoArray /\ n < Cap(a)
    BY <1>1, SliceFacts DEF AppendInPlace, Cap, HeapInv
  <2>2. a \in Arrays /\ n \in Nat /\ n < Len(array[a])
    BY <1>1, <2>1, SliceFacts DEF Cap, HeapInv
  <2>3. array[a] \in Seq(S)
    BY <2>2 DEF HeapInv, StoreInv, StoreTypeOK
  <2>4. QED
    BY <2>1, <2>2, <2>3
<1>3. /\ Len(E) = Len(array[a])
      /\ \A k \in 1 .. Len(array[a]) : E[k] = IF k = n + 1 THEN x ELSE array[a][k]
  BY <1>2, ExceptSeq
<1>4. /\ array' = [array EXCEPT ![a] = E]
      /\ object' = [object EXCEPT ![o].len = @ + 1]
  BY DEF AppendInPlace
<1>5. /\ object \in [Objects -> ScenarioStruct \cup {Nil}]
      /\ array \in [Arrays -> Seq(S)]
  BY DEF HeapInv, StoreInv, StoreTypeOK
<1> HIDE DEF E, o
<1>6. /\ array'[a] = E
      /\ \A b \in Arrays : b # a => array'[b] = array[b]
  BY <1>2, <1>4, <1>5
<1>7. \A p \in Objects : object[p] # Nil =>
         object'[p] # Nil /\ object'[p].arr = object[p].arr
  <2>1. \A p \in Objects : p # o => object'[p] = object[p]
    BY <1>4, <1>5
  <2>2. object'[o] = [object[o] EXCEPT !.len = n + 1]
    BY <1>1, <1>4, <1>5
  <2>3. object'[o] \in ScenarioStruct /\ object'[o].arr = a
    BY <1>1, <1>2, <2>2, SliceFacts DEF ScenarioStruct, HeapInv
  <2>4. QED
    BY <2>1, <2>3, HeapAssumption
<1>8. ~LocalMode => \A k \in 1 .. Len(array[a]) : array[a][k] # Nil => array[a][k].id[1] = sid
  BY <1>2 DEF HeapInv, Homes, o
<1>9. KeepsCells
  BY <1>2, <1>3, <1>6, <1>7, <1>8, NilAssumption DEF KeepsCells
<1>10. ASSUME ~LocalMode, NEW b \in Arrays, NEW i \in 1 .. Len(array'[b]),
              NEW j \in 1 .. Len(array'[b]), array'[b][i] # Nil, array'[b][j] # Nil
       PROVE  array'[b][i].id[1] = array'[b][j].id[1]
  <2>1. CASE b = a
    BY <1>2, <1>3, <1>6, <1>8, <1>10, <2>1
  <2>2. CASE b # a
    BY <1>6, <1>10, <2>2 DEF HeapInv, Homes
  <2>3. QED
    BY <2>1, <2>2
<1>11. ASSUME ~LocalMode, NEW s \in ScenarioIds, Holds(s),
              NEW b, b = object'[catalog[s]].arr, b # NoArray,
              NEW i \in 1 .. Len(array'[b]), array'[b][i] # Nil
       PROVE  array'[b][i].id[1] = s
  <2>1. /\ catalog[s] \in Objects /\ object[catalog[s]] # Nil
        /\ b = object[catalog[s]].arr
        /\ b \in Arrays
    BY <1>7, <1>11, CatalogFacts, SliceFacts DEF HeapInv, Holds
  <2>2. CASE b = a
    <3>1. catalog[s] = o
      BY <1>1, <1>2, <2>1, <2>2 DEF HeapInv, StoreInv, NoAliasing
    <3>2. s = sid
      BY <3>1, CatalogFacts DEF HeapInv, Holds, o
    <3>3. QED
      BY <1>2, <1>3, <1>6, <1>8, <1>11, <2>2, <3>2
  <2>3. CASE b # a
    BY <1>6, <1>11, <2>1, <2>3 DEF HeapInv, Homes
  <2>4. QED
    BY <2>2, <2>3
<1>12. Homes'
  BY <1>10, <1>11 DEF Homes, Holds
<1>13. QED
  BY <1>9, <1>12

(* The slice moves to a larger array, with one adapter more.               *)
LEMMA AppendGrowingKeeps ==
    ASSUME HeapInv, NEW sid \in ScenarioIds, Holds(sid),
           NEW x \in AdapterRecord, ~LocalMode => x.id[1] = sid,
           AppendGrowing(catalog[sid], x), UNCHANGED catalog
    PROVE  Homes' /\ KeepsCells
<1> DEFINE o == catalog[sid]
           old == object[o].arr
           n == object[o].len
           F(i) == IF i <= n THEN array[old][i]
                   ELSE IF i = n + 1 THEN x ELSE Nil
           E == [i \in 1 .. Grown(n) |-> F(i)]
<1>1. o \in Objects /\ object[o] # Nil
  BY CatalogFacts DEF HeapInv, Holds
<1>2. PICK a \in Arrays :
        /\ array[a] = <<>>
        /\ array' = [array EXCEPT ![a] = E]
        /\ object' = [object EXCEPT ![o].arr = a, ![o].len = @ + 1]
  BY DEF AppendGrowing, FreshArray
<1>3. /\ n \in Nat /\ Grown(n) \in Nat
      /\ n = 0 \/ (old \in Arrays /\ old # NoArray /\ n <= Len(array[old]))
      /\ object[o] \in ScenarioStruct
  BY <1>1, SliceFacts DEF Grown, HeapInv, Arrays, NoArray
<1>4. /\ object \in [Objects -> ScenarioStruct \cup {Nil}]
      /\ array \in [Arrays -> Seq(AdapterRecord \cup {Nil})]
  BY DEF HeapInv, StoreInv, StoreTypeOK
<1>5. ASSUME ~LocalMode, NEW i \in 1 .. Grown(n), F(i) # Nil
      PROVE  F(i).id[1] = sid
  <2>1. CASE i <= n
    <3>1. old \in Arrays /\ old # NoArray /\ i \in 1 .. Len(array[old])
      BY <1>3, <1>4, <2>1
    <3>2. QED
      BY <1>5, <2>1, <3>1 DEF HeapInv, Homes
  <2>2. CASE ~(i <= n)
    BY <1>3, <1>5, <2>2
  <2>3. QED
    BY <2>1, <2>2
<1> HIDE DEF F
<1>6. /\ Len(E) = Grown(n)
      /\ \A i \in 1 .. Grown(n) : E[i] = F(i)
  BY <1>3
<1> HIDE DEF E, o
<1>7. /\ array'[a] = E
      /\ \A b \in Arrays : b # a => array'[b] = array[b]
  BY <1>2, <1>4
<1>8. /\ object'[o] # Nil /\ object'[o].arr = a
      /\ \A p \in Objects : p # o => object'[p] = object[p]
  <2>1. object'[o] = [object[o] EXCEPT !.arr = a, !.len = n + 1]
    BY <1>1, <1>2, <1>3, <1>4 DEF ScenarioStruct
  <2>2. object'[o] \in ScenarioStruct /\ object'[o].arr = a
    <3>1. n + 1 \in Nat /\ a \in Arrays \cup {NoArray}
      BY <1>3
    <3>2. QED
      BY <1>3, <2>1, <3>1 DEF ScenarioStruct
  <2>3. QED
    BY <1>1, <1>2, <1>4, <2>2, HeapAssumption
<1>9. KeepsCells
  <2>1. \A p \in Objects : object[p] # Nil => object'[p] # Nil
    BY <1>8
  <2>2. \A b \in Arrays : array'[b] = array[b] \/ Len(array[b]) = 0
    BY <1>2, <1>7
  <2>3. QED
    BY <2>1, <2>2 DEF KeepsCells
<1>10. ASSUME ~LocalMode, NEW b \in Arrays, NEW i \in 1 .. Len(array'[b]),
              NEW j \in 1 .. Len(array'[b]), array'[b][i] # Nil, array'[b][j] # Nil
       PROVE  array'[b][i].id[1] = array'[b][j].id[1]
  <2>1. CASE b = a
    BY <1>5, <1>6, <1>7, <1>10, <2>1
  <2>2. CASE b # a
    BY <1>7, <1>10, <2>2 DEF HeapInv, Homes
  <2>3. QED
    BY <2>1, <2>2
<1>11. ASSUME ~LocalMode, NEW s \in ScenarioIds, Holds(s),
              NEW b, b = object'[catalog[s]].arr, b # NoArray,
              NEW i \in 1 .. Len(array'[b]), array'[b][i] # Nil
       PROVE  array'[b][i].id[1] = s
  <2>1. catalog[s] \in Objects /\ object[catalog[s]] # Nil
    BY <1>11, CatalogFacts DEF HeapInv, Holds
  <2>2. CASE s = sid
    <3>1. b = a
      BY <1>8, <1>11, <2>2 DEF o
    <3>2. QED
      BY <1>5, <1>6, <1>7, <1>11, <2>2, <3>1
  <2>3. CASE s # sid
    <3>1. catalog[s] # o
      BY <2>3, CatalogFacts DEF HeapInv, Holds, o
    <3>2. b = object[catalog[s]].arr
      BY <1>8, <1>11, <2>1, <3>1
    <3>3. b \in Arrays /\ array[b] # <<>>
      BY <1>11, <2>1, <3>2, SliceFacts DEF HeapInv, StoreInv, SliceShape
    <3>4. array'[b] = array[b]
      BY <1>2, <1>7, <3>3
    <3>5. QED
      BY <1>11, <3>2, <3>4 DEF HeapInv, Homes
  <2>4. QED
    BY <2>2, <2>3
<1>12. Homes'
  BY <1>10, <1>11 DEF Homes, Holds
<1>13. QED
  BY <1>9, <1>12

(* The tail of a slice moves down within its array.                        *)
LEMMA DeleteAdapterKeeps ==
    ASSUME HeapInv, NEW sid \in ScenarioIds, NEW id, DeleteAdapter(sid, id)
    PROVE  Homes' /\ KeepsCells
<1>1. CASE UNCHANGED storeVars
  BY <1>1, SameArraysKeep DEF storeVars
<1>2. CASE ~ UNCHANGED storeVars
  <2> DEFINE o == catalog[sid]
             a == object[o].arr
             n == object[o].len
             m == Len(array[a])
             F(k, i) == IF i <= k /\ k < n THEN array[a][k + 1] ELSE array[a][k]
  <2>1. PICK i \in Positions(sid) :
          /\ array' = [array EXCEPT ![a] = ShiftDown(array[a], i, n)]
          /\ object' = [object EXCEPT ![o].len = @ - 1]
          /\ UNCHANGED catalog
    BY <1>2 DEF DeleteAdapter
  <2>2. /\ o \in Objects /\ object[o] # Nil
        /\ i \in 1 .. n
    BY LookupFacts DEF HeapInv
  <2> HIDE DEF o
  <2>3. /\ n \in Nat /\ a \in Arrays /\ a # NoArray /\ n <= Len(array[a])
        /\ object[o] \in ScenarioStruct
        /\ \A k \in 1 .. n : array[a][k] # Nil
    BY <2>2, SliceFacts, NilAssumption DEF HeapInv, Arrays, NoArray
  <2>4. /\ object \in [Objects -> ScenarioStruct \cup {Nil}]
        /\ array \in [Arrays -> Seq(AdapterRecord \cup {Nil})]
        /\ m \in Nat
    BY <2>3 DEF HeapInv, StoreInv, StoreTypeOK
  <2>5. /\ \A k \in 1 .. m : array[a][k] # Nil => F(k, i) # Nil
        /\ \A k \in 1 .. m : F(k, i) # Nil =>
              \E j \in 1 .. m : F(k, i) = array[a][j] /\ array[a][j] # Nil
    <3> SUFFICES ASSUME NEW k \in 1 .. m
                 PROVE  /\ array[a][k] # Nil => F(k, i) # Nil
                        /\ F(k, i) # Nil =>
                             \E j \in 1 .. m : F(k, i) = array[a][j] /\ array[a][j] # Nil
      OBVIOUS
    <3>1. k < n => k + 1 \in 1 .. n /\ k + 1 \in 1 .. m
      BY <2>3, <2>4
    <3>2. QED
      BY <2>3, <2>4, <3>1
  <2>6. ShiftDown(array[a], i, n) = [k \in 1 .. m |-> F(k, i)]
    BY DEF ShiftDown
  <2> DEFINE E == array'[a]
  <2>7. /\ Len(E) = m
        /\ \A k \in 1 .. m : E[k] = F(k, i)
        /\ \A b \in Arrays : b # a => array'[b] = array[b]
    <3> HIDE DEF F, m
    <3>1. array'[a] = [k \in 1 .. m |-> F(k, i)]
      BY <2>1, <2>3, <2>4, <2>6
    <3>2. QED
      BY <2>1, <2>4, <3>1
  <2> HIDE DEF F, E
  <2>8. \A p \in Objects : object[p] # Nil =>
           object'[p] # Nil /\ object'[p].arr = object[p].arr
    <3>1. \A p \in Objects : p # o => object'[p] = object[p]
      BY <2>1, <2>4
    <3>2. object'[o] = [object[o] EXCEPT !.len = n - 1]
      BY <2>1, <2>2, <2>4
    <3>3. n - 1 \in Nat
      BY <2>2, <2>3
    <3>4. object'[o] \in ScenarioStruct /\ object'[o].arr = a
      BY <2>3, <3>2, <3>3 DEF ScenarioStruct
    <3>5. QED
      BY <3>1, <3>4, HeapAssumption
  <2>9. ~LocalMode => \A j, k \in 1 .. m :
           array[a][j] # Nil /\ array[a][k] # Nil => array[a][j].id[1] = array[a][k].id[1]
    BY <2>3 DEF HeapInv, Homes
  <2>10. KeepsCells
    <3>1. ASSUME NEW k \in 1 .. m, array[a][k] # Nil
          PROVE  /\ k \in 1 .. Len(E) /\ E[k] # Nil
                 /\ ~LocalMode => E[k].id[1] = array[a][k].id[1]
      BY <2>5, <2>7, <2>9, <3>1
    <3>2. QED
      BY <2>7, <2>8, <3>1 DEF KeepsCells, E
  <2>11. ASSUME ~LocalMode, NEW b \in Arrays, NEW j \in 1 .. Len(array'[b]),
                NEW k \in 1 .. Len(array'[b]), array'[b][j] # Nil, array'[b][k] # Nil
         PROVE  array'[b][j].id[1] = array'[b][k].id[1]
    <3>1. CASE b = a
      <4>1. /\ j \in 1 .. m /\ F(j, i) = array'[b][j]
            /\ k \in 1 .. m /\ F(k, i) = array'[b][k]
        BY <2>7, <3>1 DEF E
      <4>2. \E j0, k0 \in 1 .. m :
               /\ array'[b][j] = array[a][j0] /\ array[a][j0] # Nil
               /\ array'[b][k] = array[a][k0] /\ array[a][k0] # Nil
        BY <2>5, <2>11, <4>1
      <4>3. QED
        BY <2>9, <2>11, <4>2
    <3>2. CASE b # a
      BY <2>7, <2>11, <3>2 DEF HeapInv, Homes
    <3>3. QED
      BY <3>1, <3>2
  <2>12. ASSUME ~LocalMode, NEW s \in ScenarioIds, Holds(s),
                NEW b, b = object'[catalog[s]].arr, b # NoArray,
                NEW k \in 1 .. Len(array'[b]), array'[b][k] # Nil
         PROVE  array'[b][k].id[1] = s
    <3>1. /\ catalog[s] \in Objects /\ object[catalog[s]] # Nil
          /\ b = object[catalog[s]].arr
          /\ b \in Arrays
      BY <2>8, <2>12, CatalogFacts, SliceFacts DEF HeapInv, Holds
    <3>2. \A j \in 1 .. Len(array[b]) : array[b][j] # Nil => array[b][j].id[1] = s
      BY <2>12, <3>1 DEF HeapInv, Homes
    <3>3. CASE b = a
      BY <2>5, <2>7, <2>12, <3>2, <3>3 DEF E
    <3>4. CASE b # a
      BY <2>7, <2>12, <3>1, <3>2, <3>4
    <3>5. QED
      BY <3>3, <3>4
  <2>13. Homes'
    BY <2>1, <2>11, <2>12 DEF Homes, Holds
  <2>14. QED
    BY <2>10, <2>13
<1>3. QED
  BY <1>1, <1>2

-----------------------------------------------------------------------------
(* Every action.                                                           *)

LEMMA UnchangedKeeps ==
    ASSUME HeapInv, UNCHANGED storeVars
    PROVE  HeapInv' /\ KeepsCells
BY SameArraysKeep, UnchangedInv DEF HeapInv, storeVars

LEMMA CreateScenarioKeeps ==
    ASSUME HeapInv, NEW sid \in ScenarioIds, CreateScenario(sid)
    PROVE  HeapInv' /\ KeepsCells
<1>1. /\ <<>> \in Seq(AdapterRecord) /\ "" \in Sources
      /\ \A i \in 1 .. Len(<<>>) : <<>>[i].id[1] = sid
  BY DEF Sources
<1>2. QED
  BY <1>1, UnchangedKeeps, PublishKeeps, CreateScenarioInv DEF CreateScenario, HeapInv

LEMMA LoadGitHubScenarioKeeps ==
    ASSUME HeapInv, NEW g \in GithubIds, LoadGitHubScenario(g)
    PROVE  HeapInv' /\ KeepsCells
<1>1. FromFile(g) \in Seq(AdapterRecord) /\ g \in ScenarioIds /\ "github" \in Sources
  BY FromFileType DEF ScenarioIds, Sources
<1>2. \A i \in 1 .. Len(FromFile(g)) : FromFile(g)[i].id[1] = g
  BY FromFileType DEF FromFile, NewAdapter, PositionId
<1>3. QED
  BY <1>1, <1>2, UnchangedKeeps, PublishKeeps, LoadGitHubScenarioInv
  DEF LoadGitHubScenario, HeapInv

LEMMA CloneScenarioKeeps ==
    ASSUME HeapInv, NEW src \in ScenarioIds, NEW sid \in ScenarioIds,
           CloneScenario(src, sid)
    PROVE  HeapInv' /\ KeepsCells
<1>1. CASE ~ Holds(src)
  BY <1>1, UnchangedKeeps DEF CloneScenario
<1>2. CASE Holds(src)
  <2> DEFINE xs == AdaptersOf(src)
             ys == CloneOf(xs, sid)
  <2>1. xs \in Seq(AdapterRecord)
    BY <1>2, CatalogFacts, ViewType DEF Holds, AdaptersOf, HeapInv
  <2> HIDE DEF xs
  <2>2. ys \in Seq(AdapterRecord) /\ Len(ys) = Len(xs) /\ "user" \in Sources
    BY <2>1, CloneOfType DEF Sources
  <2>3. \A i \in 1 .. Len(ys) : ys[i].id[1] = sid
    BY <2>2 DEF CloneOf, NewAdapter, PositionId
  <2>4. Publish(sid, ys, "user")
    BY <1>2 DEF CloneScenario, xs
  <2> HIDE DEF ys
  <2>5. Homes' /\ KeepsCells
    BY <2>2, <2>3, <2>4, PublishKeeps
  <2>6. QED
    BY <2>5, CloneScenarioInv DEF HeapInv
<1>3. QED
  BY <1>1, <1>2

LEMMA RelabelKeeps ==
    ASSUME HeapInv, NEW sid \in ScenarioIds, NEW status \in Statuses,
           UpdateScenario(sid) \/ UpdateScenarioStatus(sid, status)
    PROVE  HeapInv' /\ KeepsCells
<1>1. /\ object \in [Objects -> ScenarioStruct \cup {Nil}]
      /\ UNCHANGED <<catalog, array>>
  BY DEF HeapInv, StoreInv, StoreTypeOK, UpdateScenario, UpdateScenarioStatus
<1>2. ASSUME NEW o \in Objects, object[o] # Nil
      PROVE  object'[o] # Nil /\ object'[o].arr = object[o].arr
  <2>1. object[o] \in ScenarioStruct
    BY <1>1, <1>2
  <2>2. \/ object'[o] = object[o]
        \/ object'[o] = [object[o] EXCEPT !.name = "edited"]
        \/ object'[o] = [object[o] EXCEPT !.status = status]
    BY <1>1, CatalogFacts DEF UpdateScenario, UpdateScenarioStatus, Holds, HeapInv
  <2>3. object'[o] \in ScenarioStruct /\ object'[o].arr = object[o].arr
    BY <2>1, <2>2 DEF ScenarioStruct, Titles
  <2>4. QED
    BY <2>3, HeapAssumption
<1>3. StoreInv'
  BY UpdateScenarioInv, UpdateScenarioStatusInv DEF HeapInv
<1>4. QED
  BY <1>1, <1>2, <1>3, SameArraysKeep DEF HeapInv

LEMMA DeleteScenarioKeeps ==
    ASSUME HeapInv, NEW sid \in ScenarioIds, DeleteScenario(sid)
    PROVE  HeapInv' /\ KeepsCells
<1>1. \A s \in ScenarioIds : catalog'[s] \in {catalog[s], Nil}
  BY CatalogFacts DEF DeleteScenario, HeapInv
<1>2. QED
  BY <1>1, SameArraysKeep, DeleteScenarioInv DEF DeleteScenario, HeapInv

LEMMA AddAdapterKeeps ==
    ASSUME HeapInv, NEW sid \in ScenarioIds, NEW x \in AdapterRecord,
           ~LocalMode => x.id[1] = sid, AddAdapter(sid, x)
    PROVE  HeapInv' /\ KeepsCells
<1>1. CASE ~ Holds(sid)
  BY <1>1, UnchangedKeeps DEF AddAdapter
<1>2. CASE Holds(sid)
  BY <1>2, AppendInPlaceKeeps, AppendGrowingKeeps, AddAdapterInv DEF AddAdapter, HeapInv
<1>3. QED
  BY <1>1, <1>2

(* The methods that rewrite the adapter they find.                         *)
LEMMA RewritingKeeps ==
    ASSUME HeapInv, NEW id,
           \/ \E sid \in ScenarioIds :
                 \/ \E status \in Statuses : UpdateAdapterStatus(sid, id, status)
                 \/ \E url \in Urls : UpdateAdapterIngressURL(sid, id, url)
                 \/ \E name \in Names \cup {Nil}, key \in Keys :
                       UpdateAdapter(sid, id, name, key)
           \/ RecordAdapterActivity(id)
    PROVE  HeapInv' /\ KeepsCells
<1>1. StoreInv'
  BY UpdateAdapterStatusInv, UpdateAdapterIngressURLInv, UpdateAdapterInv,
     RecordAdapterActivityInv DEF HeapInv
<1>2. \/ UNCHANGED storeVars
      \/ \E sid \in ScenarioIds : \E i \in Positions(sid) :
            \E x \in AdapterRecord :
               x.id = AdapterAt(sid, i).id /\ SetSlot(catalog[sid], i, x)
  <2>1. ASSUME NEW x \in AdapterRecord
        PROVE  /\ \A status \in Statuses :
                     WithStatus(x, status) \in AdapterRecord /\ WithStatus(x, status).id = x.id
               /\ \A url \in Urls : /\ [x EXCEPT !.url = url] \in AdapterRecord
                                    /\ [x EXCEPT !.url = url].id = x.id
               /\ \A name \in Names \cup {Nil}, key \in Keys :
                     LET y == [x EXCEPT !.name = IF name = Nil THEN @ ELSE name,
                                        !.key = key]
                     IN  y \in AdapterRecord /\ y.id = x.id
               /\ [x EXCEPT !.last = "recent"] \in AdapterRecord
               /\ [x EXCEPT !.last = "recent"].id = x.id
    BY DEF WithStatus, AdapterRecord, Activity
  <2>2. \A sid \in ScenarioIds : \A i \in Positions(sid) : AdapterAt(sid, i) \in AdapterRecord
    BY LookupFacts DEF HeapInv
  <2>3. CASE \E sid \in ScenarioIds, status \in Statuses : UpdateAdapterStatus(sid, id, status)
    BY <2>1, <2>2, <2>3 DEF UpdateAdapterStatus
  <2>4. CASE \E sid \in ScenarioIds, url \in Urls : UpdateAdapterIngressURL(sid, id, url)
    BY <2>1, <2>2, <2>4 DEF UpdateAdapterIngressURL
  <2>5. CASE \E sid \in ScenarioIds, name \in Names \cup {Nil}, key \in Keys :
                UpdateAdapter(sid, id, name, key)
    <3>1. PICK sid \in ScenarioIds, name \in Names \cup {Nil}, key \in Keys :
             UpdateAdapter(sid, id, name, key)
      BY <2>5
    <3>2. ASSUME NEW i \in Positions(sid)
          PROVE  LET x == AdapterAt(sid, i)
                     y == [x EXCEPT !.name = IF name = Nil THEN @ ELSE name, !.key = key]
                 IN  y \in AdapterRecord /\ y.id = x.id
      BY <2>1, <2>2
    <3>3. QED
      BY <3>1, <3>2 DEF UpdateAdapter
  <2>6. CASE RecordAdapterActivity(id)
    BY <2>1, <2>2, <2>6 DEF RecordAdapterActivity
  <2>7. QED
    BY <2>3, <2>4, <2>5, <2>6
<1>3. ASSUME NEW sid \in ScenarioIds, NEW i \in Positions(sid), NEW x \in AdapterRecord,
             x.id = AdapterAt(sid, i).id, SetSlot(catalog[sid], i, x)
      PROVE  Homes' /\ KeepsCells
  <2>1. /\ catalog[sid] \in Objects /\ object[catalog[sid]] # Nil
        /\ i \in 1 .. object[catalog[sid]].len
    BY LookupFacts DEF HeapInv
  <2>2. QED
    BY <1>3, <2>1, SetSlotKeeps DEF AdapterAt
<1>4. QED
  BY <1>1, <1>2, <1>3, UnchangedKeeps DEF HeapInv

LEMMA PokeKeeps ==
    ASSUME HeapInv, NEW o \in Objects, object[o] # Nil, NEW i \in 1 .. object[o].len,
           PokeStatus(o, i) \/ \E url \in Urls : PokeUrl(o, i, url)
    PROVE  HeapInv' /\ KeepsCells
<1> DEFINE x == array[object[o].arr][i]
<1>1. x \in AdapterRecord /\ View(o)[i] = x
  BY SliceFacts DEF HeapInv
<1>2. \E y \in AdapterRecord : y.id = x.id /\ SetSlot(o, i, y)
  <2> HIDE DEF x
  <2>1. /\ [x EXCEPT !.status = "running"] \in AdapterRecord
        /\ [x EXCEPT !.status = "running"].id = x.id
        /\ \A url \in Urls : /\ [x EXCEPT !.url = url] \in AdapterRecord
                             /\ [x EXCEPT !.url = url].id = x.id
    BY <1>1 DEF AdapterRecord, Statuses
  <2>2. QED
    BY <1>1, <2>1 DEF PokeStatus, PokeUrl
<1>3. StoreInv'
  BY <1>2, SetSlotInv DEF HeapInv
<1>4. QED
  BY <1>2, <1>3, SetSlotKeeps DEF HeapInv

LEMMA TimePassesKeeps ==
    ASSUME HeapInv, TimePasses
    PROVE  HeapInv' /\ KeepsCells
<1>1. array \in [Arrays -> Seq(AdapterRecord \cup {Nil})]
  BY DEF HeapInv, StoreInv, StoreTypeOK
<1>2. \A x \in AdapterRecord \cup {Nil} :
         IF x = Nil THEN Aged(x) = Nil ELSE Aged(x) # Nil /\ Aged(x).id = x.id
  <2> SUFFICES ASSUME NEW x \in AdapterRecord, x # Nil
               PROVE  Aged(x) \in AdapterRecord /\ Aged(x).id = x.id
    BY NilAssumption DEF Aged
  <2>1. QED
    BY DEF Aged, AdapterRecord, Activity
<1>3. ASSUME NEW a \in Arrays
      PROVE  /\ Len(array'[a]) = Len(array[a])
             /\ \A k \in 1 .. Len(array[a]) :
                   IF array[a][k] = Nil THEN array'[a][k] = Nil
                   ELSE array'[a][k] # Nil /\ array'[a][k].id = array[a][k].id
  <2> DEFINE n == Len(array[a])
             F(k) == Aged(array[a][k])
  <2>1. n \in Nat /\ \A k \in 1 .. n : array[a][k] \in AdapterRecord \cup {Nil}
    BY <1>1, ElementOfSeq
  <2>2. array'[a] = [k \in 1 .. n |-> F(k)]
    BY DEF TimePasses
  <2> HIDE DEF F
  <2>3. Len(array'[a]) = n /\ \A k \in 1 .. n : array'[a][k] = F(k)
    <3> HIDE DEF n
    <3>1. QED
      BY <2>1, <2>2
  <2>4. QED
    BY <1>2, <2>1, <2>3 DEF F
<1>4. UNCHANGED <<catalog, object>>
  BY DEF TimePasses
<1>5. QED
  BY <1>3, <1>4, RewriteKeeps, TimePassesInv DEF HeapInv

LEMMA EmptyHeap ==
    ASSUME NewMemoryStore
    PROVE  HeapInv'
<1>1. Homes'
  BY DEF NewMemoryStore, Homes, Holds
<1>2. QED
  BY <1>1, NewMemoryStoreInv DEF HeapInv

-----------------------------------------------------------------------------
(* The effects slot by slot.                                               *)

LEMMA SetSlotEffect ==
    ASSUME StoreInv, NEW o \in Objects, object[o] # Nil,
           NEW i \in 1 .. object[o].len, NEW x \in AdapterRecord, SetSlot(o, i, x)
    PROVE  LET a == object[o].arr
           IN  /\ UNCHANGED <<catalog, object>>
               /\ a \in Arrays /\ i \in 1 .. Len(array[a])
               /\ \A b \in Arrays :
                     /\ Len(array'[b]) = Len(array[b])
                     /\ \A k \in 1 .. Len(array[b]) :
                           array'[b][k] = IF b = a /\ k = i THEN x ELSE array[b][k]
<1> DEFINE a == object[o].arr
           S == AdapterRecord \cup {Nil}
           E == [array[a] EXCEPT ![i] = x]
<1>1. /\ a \in Arrays /\ i \in 1 .. Len(array[a])
      /\ array \in [Arrays -> Seq(S)] /\ array[a] \in Seq(S)
  <2>1. a \in Arrays /\ object[o].len \in Nat /\ object[o].len <= Len(array[a])
    BY SliceFacts
  <2>2. array \in [Arrays -> Seq(S)]
    BY DEF StoreInv, StoreTypeOK
  <2>3. QED
    BY <2>1, <2>2
<1>2. /\ Len(E) = Len(array[a])
      /\ \A k \in 1 .. Len(array[a]) : E[k] = IF k = i THEN x ELSE array[a][k]
  BY <1>1, ExceptSeq
<1>3. array' = [array EXCEPT ![a] = E] /\ UNCHANGED <<catalog, object>>
  BY DEF SetSlot
<1> HIDE DEF E
<1>4. QED
  BY <1>1, <1>2, <1>3

TakenOut(sid, id, i) ==
    LET o == catalog[sid]
        a == object[o].arr
        n == object[o].len
    IN  /\ Lookup(sid, id, i)
        /\ UNCHANGED catalog
        /\ o \in Objects /\ object[o] # Nil /\ i \in 1 .. n
        /\ a \in Arrays /\ n \in Nat /\ n <= Len(array[a])
        /\ object' = [object EXCEPT ![o] = [object[o] EXCEPT !.len = n - 1]]
        /\ \A b \in Arrays :
              /\ Len(array'[b]) = Len(array[b])
              /\ \A k \in 1 .. Len(array[b]) :
                    array'[b][k] = IF b = a /\ i <= k /\ k < n
                                   THEN array[b][k + 1] ELSE array[b][k]

LEMMA DeleteAdapterEffect ==
    ASSUME StoreInv, NEW sid \in ScenarioIds, NEW id, DeleteAdapter(sid, id),
           ~ UNCHANGED storeVars
    PROVE  \E i \in Positions(sid) : TakenOut(sid, id, i)
<1> DEFINE o == catalog[sid]
           a == object[o].arr
           n == object[o].len
           F(k, i) == IF i <= k /\ k < n THEN array[a][k + 1] ELSE array[a][k]
<1>1. PICK i \in Positions(sid) :
        /\ Lookup(sid, id, i)
        /\ array' = [array EXCEPT ![a] = ShiftDown(array[a], i, n)]
        /\ object' = [object EXCEPT ![o].len = @ - 1]
        /\ UNCHANGED catalog
  BY DEF DeleteAdapter
<1>2. o \in Objects /\ object[o] # Nil /\ i \in 1 .. n
  BY LookupFacts
<1>3. n \in Nat /\ a \in Arrays /\ n <= Len(array[a])
  <2> HIDE DEF o
  <2>1. QED
    BY <1>2, SliceFacts DEF Arrays, NoArray
<1>4. array \in [Arrays -> Seq(AdapterRecord \cup {Nil})]
  BY DEF StoreInv, StoreTypeOK
<1>5. object' = [object EXCEPT ![o] = [object[o] EXCEPT !.len = n - 1]]
  BY <1>1
<1>6. ShiftDown(array[a], i, n) = [k \in 1 .. Len(array[a]) |-> F(k, i)]
  BY DEF ShiftDown
<1>7. /\ array'[a] = [k \in 1 .. Len(array[a]) |-> F(k, i)]
      /\ \A b \in Arrays : b # a => array'[b] = array[b]
  <2> HIDE DEF F, o
  <2>1. QED
    BY <1>1, <1>3, <1>4, <1>6
<1>8. /\ Len(array'[a]) = Len(array[a])
      /\ \A k \in 1 .. Len(array[a]) : array'[a][k] = F(k, i)
  <2> HIDE DEF F, o
  <2>1. Len(array[a]) \in Nat
    BY <1>3, <1>4
  <2>2. QED
    BY <1>7, <2>1
<1>9. ASSUME NEW b \in Arrays
      PROVE  /\ Len(array'[b]) = Len(array[b])
             /\ \A k \in 1 .. Len(array[b]) :
                   array'[b][k] = IF b = a /\ i <= k /\ k < n
                                  THEN array[b][k + 1] ELSE array[b][k]
  BY <1>7, <1>8
<1>10. TakenOut(sid, id, i)
  BY <1>1, <1>2, <1>3, <1>5, <1>9 DEF TakenOut
<1>11. QED
  BY <1>10

(* The struct of sid has one adapter more, on its array or on a new one.   *)
Appended(sid, x, c) ==
    LET o == catalog[sid]
        a == object[o].arr
        n == object[o].len
    IN  /\ UNCHANGED catalog
        /\ o \in Objects /\ object[o] # Nil /\ n \in Nat
        /\ object' = [object EXCEPT ![o] = [object[o] EXCEPT !.arr = c, !.len = n + 1]]
        /\ \A b \in Arrays : b # c => array'[b] = array[b]
        /\ c = a \/ array[c] = <<>>
        /\ c = a => /\ Len(array'[c]) = Len(array[c]) /\ n < Len(array[c])
                    /\ \A k \in 1 .. Len(array[c]) : k # n + 1 => array'[c][k] = array[c][k]
        /\ n + 1 \in 1 .. Len(array'[c])
        /\ array'[c][n + 1] = x
        /\ \A k \in 1 .. n : array'[c][k] = array[a][k]

LEMMA AddAdapterEffect ==
    ASSUME StoreInv, NEW sid \in ScenarioIds, Holds(sid), NEW x \in AdapterRecord,
           AddAdapter(sid, x)
    PROVE  \E c \in Arrays : Appended(sid, x, c)
<1> DEFINE o == catalog[sid]
           a == object[o].arr
           n == object[o].len
           S == AdapterRecord \cup {Nil}
<1>1. /\ o \in Objects /\ object[o] # Nil /\ UNCHANGED catalog
      /\ AppendInPlace(o, x) \/ AppendGrowing(o, x)
  BY CatalogFacts DEF Holds, AddAdapter
<1>2. /\ n \in Nat /\ object[o] \in ScenarioStruct
      /\ array \in [Arrays -> Seq(S)]
      /\ a = NoArray => n = 0
      /\ a # NoArray => a \in Arrays /\ n <= Len(array[a]) /\ array[a] # <<>>
  BY <1>1, SliceFacts DEF StoreInv, StoreTypeOK, SliceShape
<1> HIDE DEF o
<1>3. CASE AppendInPlace(o, x)
  <2> DEFINE E == [array[a] EXCEPT ![n + 1] = x]
  <2>1. n < Cap(a) /\ array' = [array EXCEPT ![a] = E]
        /\ object' = [object EXCEPT ![o].len = @ + 1]
    BY <1>3 DEF AppendInPlace
  <2>2. a \in Arrays /\ n + 1 \in 1 .. Len(array[a]) /\ array[a] \in Seq(S)
    BY <1>2, <2>1 DEF Cap
  <2>3. /\ Len(E) = Len(array[a])
        /\ \A k \in 1 .. Len(array[a]) : E[k] = IF k = n + 1 THEN x ELSE array[a][k]
    BY <2>2, ExceptSeq
  <2>4. [object[o] EXCEPT !.len = n + 1] = [object[o] EXCEPT !.arr = a, !.len = n + 1]
    BY <1>2 DEF ScenarioStruct
  <2>5. object' = [object EXCEPT ![o] = [object[o] EXCEPT !.arr = a, !.len = n + 1]]
    BY <2>1, <2>4
  <2> HIDE DEF E
  <2>6. array'[a] = E /\ \A b \in Arrays : b # a => array'[b] = array[b]
    BY <1>2, <2>1, <2>2
  <2>7. /\ Len(array'[a]) = Len(array[a]) /\ n < Len(array[a])
        /\ \A k \in 1 .. Len(array[a]) : k # n + 1 => array'[a][k] = array[a][k]
        /\ n + 1 \in 1 .. Len(array'[a])
        /\ array'[a][n + 1] = x
        /\ \A k \in 1 .. n : array'[a][k] = array[a][k]
    <3>1. Len(array[a]) \in Nat /\ n < Len(array[a])
      BY <1>2, <2>2
    <3>2. ASSUME NEW k \in 1 .. n
          PROVE  k \in 1 .. Len(array[a]) /\ k # n + 1
      BY <1>2, <3>1
    <3>3. QED
      BY <2>2, <2>3, <2>6, <3>1, <3>2
  <2>8. Appended(sid, x, a)
    BY <1>1, <1>2, <2>5, <2>6, <2>7 DEF o, Appended
  <2>9. QED
    BY <2>2, <2>8
<1>4. CASE AppendGrowing(o, x)
  <2> DEFINE F(i) == IF i <= n THEN array[a][i] ELSE IF i = n + 1 THEN x ELSE Nil
             E == [i \in 1 .. Grown(n) |-> F(i)]
  <2>1. PICK c \in Arrays :
          /\ array[c] = <<>>
          /\ array' = [array EXCEPT ![c] = E]
          /\ object' = [object EXCEPT ![o].arr = c, ![o].len = @ + 1]
    BY <1>4 DEF AppendGrowing, FreshArray
  <2>2. Grown(n) \in Nat /\ n + 1 \in 1 .. Grown(n)
        /\ \A k \in 1 .. n : k \in 1 .. Grown(n)
    BY <1>2 DEF Grown
  <2>3. Len(E) = Grown(n) /\ E[n + 1] = x /\ \A k \in 1 .. n : E[k] = array[a][k]
    <3>1. F(n + 1) = x /\ \A k \in 1 .. n : F(k) = array[a][k]
      BY <1>2
    <3> HIDE DEF F
    <3>2. QED
      BY <2>2, <3>1
  <2> HIDE DEF E, F
  <2>4. array'[c] = E /\ \A b \in Arrays : b # c => array'[b] = array[b]
    BY <1>2, <2>1
  <2>5. object' = [object EXCEPT ![o] = [object[o] EXCEPT !.arr = c, !.len = n + 1]]
    BY <1>1, <1>2, <2>1 DEF ScenarioStruct
  <2>6. c # a
    BY <1>2, <2>1 DEF Arrays, NoArray
  <2>7. Appended(sid, x, c)
    BY <1>1, <1>2, <2>1, <2>2, <2>3, <2>4, <2>5, <2>6 DEF o, Appended
  <2>8. QED
    BY <2>7
<1>5. QED
  BY <1>1, <1>3, <1>4

LEMMA PublishEffect ==
    ASSUME StoreInv, NEW sid \in ScenarioIds, NEW xs \in Seq(AdapterRecord),
           NEW source \in Sources, Publish(sid, xs, source)
    PROVE  \E o \in Objects, r \in ScenarioStruct :
             /\ object[o] = Nil
             /\ catalog' = [catalog EXCEPT ![sid] = o]
             /\ object' = [object EXCEPT ![o] = r]
             /\ r.len = Len(xs) /\ r.name = "given"
             /\ r.status = "stopped" /\ r.source = source
             /\ r.arr = NoArray => xs = <<>>
             /\ r.arr # NoArray => array[r.arr] = <<>> /\ array'[r.arr] = xs
             /\ \A b \in Arrays : b # r.arr => array'[b] = array[b]
<1> DEFINE R(a, n) == [arr |-> a, len |-> n, name |-> "given",
                       status |-> "stopped", source |-> source]
<1>1. PICK o \in Objects :
        /\ object[o] = Nil
        /\ catalog' = [catalog EXCEPT ![sid] = o]
        /\ \/ xs = <<>> /\ object' = [object EXCEPT ![o] = R(NoArray, 0)] /\ UNCHANGED array
           \/ \E a \in Arrays :
                 /\ array[a] = <<>>
                 /\ array' = [array EXCEPT ![a] = xs]
                 /\ object' = [object EXCEPT ![o] = R(a, Len(xs))]
  BY DEF Publish, Fresh, FreshArray
<1>2. ASSUME NEW a \in Arrays \cup {NoArray}, NEW n \in Nat
      PROVE  /\ R(a, n) \in ScenarioStruct
             /\ R(a, n).arr = a /\ R(a, n).len = n /\ R(a, n).name = "given"
             /\ R(a, n).status = "stopped" /\ R(a, n).source = source
  BY DEF ScenarioStruct, Statuses, Titles
<1>3. 0 \in Nat /\ Len(xs) \in Nat /\ Len(<<>>) = 0 /\ NoArray \notin Arrays
      /\ array \in [Arrays -> Seq(AdapterRecord \cup {Nil})]
  BY LenProperties DEF NoArray, Arrays, StoreInv, StoreTypeOK
<1> HIDE DEF R
<1>4. \E r \in ScenarioStruct :
        /\ object' = [object EXCEPT ![o] = r]
        /\ r.len = Len(xs) /\ r.name = "given"
        /\ r.status = "stopped" /\ r.source = source
        /\ r.arr = NoArray => xs = <<>>
        /\ r.arr # NoArray => array[r.arr] = <<>> /\ array'[r.arr] = xs
        /\ \A b \in Arrays : b # r.arr => array'[b] = array[b]
  <2>1. CASE xs = <<>> /\ object' = [object EXCEPT ![o] = R(NoArray, 0)] /\ UNCHANGED array
    <3> DEFINE r == R(NoArray, 0)
    <3>1. /\ r \in ScenarioStruct /\ r.arr = NoArray /\ r.len = 0
          /\ r.name = "given" /\ r.status = "stopped" /\ r.source = source
          /\ object' = [object EXCEPT ![o] = r]
      BY <1>2, <1>3, <2>1
    <3>2. \A b \in Arrays : array'[b] = array[b]
      BY <2>1
    <3> HIDE DEF r
    <3>3. Len(xs) = 0
      BY <1>3, <2>1
    <3>4. QED
      BY <2>1, <3>1, <3>2, <3>3
  <2>2. ASSUME NEW a \in Arrays, array[a] = <<>>, array' = [array EXCEPT ![a] = xs],
               object' = [object EXCEPT ![o] = R(a, Len(xs))]
        PROVE  \E r \in ScenarioStruct :
                 /\ object' = [object EXCEPT ![o] = r]
                 /\ r.len = Len(xs) /\ r.name = "given"
                 /\ r.status = "stopped" /\ r.source = source
                 /\ r.arr = NoArray => xs = <<>>
                 /\ r.arr # NoArray => array[r.arr] = <<>> /\ array'[r.arr] = xs
                 /\ \A b \in Arrays : b # r.arr => array'[b] = array[b]
    <3> DEFINE r == R(a, Len(xs))
    <3>1. /\ r \in ScenarioStruct /\ r.arr = a /\ r.len = Len(xs)
          /\ r.name = "given" /\ r.status = "stopped" /\ r.source = source
          /\ object' = [object EXCEPT ![o] = r]
      BY <1>2, <1>3, <2>2
    <3>2. array'[a] = xs /\ \A b \in Arrays : b # a => array'[b] = array[b]
      BY <1>3, <2>2
    <3>3. a # NoArray
      BY <1>3
    <3> HIDE DEF r
    <3>4. QED
      BY <2>2, <3>1, <3>2, <3>3
  <2>3. QED
    BY <1>1, <2>1, <2>2
<1>5. QED
  BY <1>1, <1>4

=============================================================================
