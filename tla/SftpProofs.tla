----------------------------- MODULE SftpProofs -----------------------------
(***************************************************************************)
(* The properties of SftpFiles, for every set of paths, channels, blocks   *)
(* and configurations, and every bound on uploads and batches.             *)
(*                                                                         *)
(* SftpInv strengthens them to an inductive invariant.  A file's name is   *)
(* its path and its content a version of a file; a reader's data is such a *)
(* version, of which it has given out a prefix; a writer's buffer is what  *)
(* its writes so far assemble to; and a listing has, for every path that   *)
(* nobody touched, one entry, at that path, and no other entry or shown    *)
(* name that says it.                                                      *)
(***************************************************************************)
EXTENDS SftpFiles, FiniteSetTheorems, TLAPS

(* Assembled, for a length that is known: the offset after the last write. *)
Laid(w, n) ==
    [i \in 1 .. n |-> IF w[i - 1] = Nil THEN Zero ELSE w[i - 1]]

Reaches(w, n) ==
    /\ n \in 0 .. MaxBlocks
    /\ \A i \in 0 .. MaxBlocks - 1 : w[i] # Nil => i < n
    /\ n > 0 => w[n - 1] # Nil

Written == [0 .. MaxBlocks - 1 -> Uploaded \cup {Nil}]

ReaderSound(x) ==
    /\ x \in Readers
    /\ x.data \in Versions
    /\ Len(x.got) <= Len(x.data)
    /\ \A i \in 1 .. Len(x.got) : x.got[i] = x.data[i]

WriterSound(x) ==
    /\ x \in Writers
    /\ x.written \in Written
    /\ Reaches(x.written, Len(x.data))
    /\ x.data = Laid(x.written, Len(x.data))

(* Entry i of the listing x stands for the path p, and nothing else does.  *)
StandsFor(x, i, p) ==
    /\ i \in 1 .. Len(x.entries)
    /\ x.entries[i].at = p
    /\ i <= Len(x.shown) => x.shown[i] = p
    /\ \A j \in 1 .. Len(x.entries) : j # i =>
          /\ x.entries[j].at # p /\ x.entries[j].name # p
          /\ j <= Len(x.shown) => x.shown[j] # p

ListerSound(x, fs) ==
    /\ x \in Listers
    /\ Len(x.shown) <= Len(x.entries)
    /\ \A i \in 1 .. Len(x.entries) :
          x.entries[i].at # Nil => fs[x.entries[i].at] # Nil
    /\ \A p \in x.still : \E i \in 1 .. Len(x.entries) : StandsFor(x, i, p)

StoreSound(fs) ==
    /\ fs \in [Paths -> {Nil} \cup Files]
    /\ \A p \in Paths : fs[p] # Nil =>
          fs[p].name = p /\ fs[p].content \in Versions

HandleSound(x, fs) ==
    x = Nil \/ ReaderSound(x) \/ WriterSound(x) \/ ListerSound(x, fs)

HandlesSound(hs, fs) ==
    /\ hs \in [Channels -> {Nil} \cup Readers \cup Writers \cup Listers]
    /\ \A h \in Channels : HandleSound(hs[h], fs)

(* What the connection goes by was served since it was accepted.           *)
ConnectionSound ==
    /\ served \in Configs \cup {Nil} /\ config \in Configs \cup {Nil}
    /\ phase \in {"closed", "accepted", "handshake", "open"}
    /\ since \subseteq Configs
    /\ phase \in {"accepted", "handshake"} /\ served # Nil => served \in since
    /\ phase = "handshake" => config \in since
    /\ phase # "open" => \A h \in Channels : handle[h] = Nil

SftpInv ==
    /\ ConnectionSound
    /\ StoreSound(files)
    /\ HandlesSound(handle, files)

LEMMA SameFunctions ==
    ASSUME NEW S, NEW T, NEW f \in [S -> T], NEW g \in [S -> T],
           \A i \in S : f[i] = g[i]
    PROVE  f = g
OBVIOUS

-----------------------------------------------------------------------------
(* Uploads.                                                                *)

(* What is assembled ends with the last block that was written.            *)
LEMMA AssembledIsLaid ==
    ASSUME NEW w \in Written, NEW n, Reaches(w, n)
    PROVE  Assembled(w) = Laid(w, n)
<1> DEFINE offsets == {i \in DOMAIN w : w[i] # Nil}
           Last(i) == i \in offsets /\ \A j \in offsets : j <= i
<1>1. DOMAIN w = 0 .. MaxBlocks - 1 /\ n \in 0 .. MaxBlocks /\ MaxBlocks \in Nat
  BY SftpAssumption DEF Written, Reaches
<1>2. n = IF offsets = {} THEN 0
          ELSE 1 + CHOOSE i \in offsets : \A j \in offsets : j <= i
  <2>1. CASE n = 0
    <3>1. offsets = {}
      BY <1>1, <2>1 DEF Reaches
    <3>2. QED
      BY <2>1, <3>1
  <2>2. CASE n > 0
    <3>1. n - 1 \in offsets
      BY <1>1, <2>2 DEF Reaches
    <3>2. \A j \in offsets : j \in Int /\ j <= n - 1
      BY <1>1 DEF Reaches
    <3>3. \A i \in offsets : (\A j \in offsets : j <= i) <=> i = n - 1
      BY <1>1, <3>1, <3>2
    <3> HIDE DEF offsets
    <3> DEFINE last == CHOOSE i \in offsets : \A j \in offsets : j <= i
    <3>4. last = n - 1
      BY <3>1, <3>3
    <3> HIDE DEF last
    <3>5. n = IF offsets = {} THEN 0 ELSE 1 + last
      BY <1>1, <2>2, <3>1, <3>4
    <3>6. QED
      BY <3>5 DEF last
  <2>3. QED
    BY <1>1, <2>1, <2>2
<1>3. QED
  BY <1>2 DEF Assembled, Laid

LEMMA LaidIsContents ==
    ASSUME NEW w \in Written, NEW n \in 0 .. MaxBlocks
    PROVE  /\ Laid(w, n) \in Contents
           /\ Len(Laid(w, n)) = n
           /\ \A i \in 1 .. n :
                 Laid(w, n)[i] = IF w[i - 1] = Nil THEN Zero ELSE w[i - 1]
<1>1. n \in Nat
  BY SftpAssumption
<1>2. \A i \in 1 .. n : i - 1 \in 0 .. MaxBlocks - 1
  BY SftpAssumption
<1>3. \A i \in 1 .. n : (IF w[i - 1] = Nil THEN Zero ELSE w[i - 1]) \in Blocks \cup {Zero}
  BY <1>2, SftpAssumption DEF Written
<1>4. Laid(w, n) \in [1 .. n -> Blocks \cup {Zero}]
  BY <1>3 DEF Laid
<1>5. QED
  BY <1>1, <1>4 DEF Contents, Laid

LEMMA AssembledIsVersion ==
    ASSUME NEW x, WriterSound(x)
    PROVE  x.data = Assembled(x.written) /\ x.data \in Versions
<1>1. x.written \in Written
  BY DEF WriterSound
<1>2. x.data = Assembled(x.written)
  BY <1>1, AssembledIsLaid DEF WriterSound
<1> DEFINE uploads == {Assembled(w) : w \in Written}
<1>3. Assembled(x.written) \in uploads
  BY <1>1
<1>4. uploads \subseteq Versions
  BY DEF Versions, Written
<1> HIDE DEF uploads
<1>5. QED
  BY <1>2, <1>3, <1>4

(* A buffer that grows keeps its blocks and is filled up with zeros.       *)
LEMMA GrownIs ==
    ASSUME NEW data \in Contents, NEW end \in Nat
    PROVE  /\ Grown(data, end) \in Contents
           /\ Len(Grown(data, end)) = IF end > Len(data) THEN end ELSE Len(data)
           /\ \A i \in 1 .. Len(Grown(data, end)) : Grown(data, end)[i] =
                 IF i <= Len(data) THEN data[i] ELSE Zero
<1>1. CASE end > Len(data)
  <2> DEFINE k == end - Len(data)
             pad == [i \in 1 .. k |-> Zero]
  <2>1. Len(data) \in Nat /\ k \in Nat
    BY <1>1 DEF Contents
  <2> HIDE DEF k
  <2>2. pad \in [1 .. k -> Blocks \cup {Zero}]
    OBVIOUS
  <2>3. pad \in Contents /\ Len(pad) = k
    BY <2>1, <2>2 DEF Contents
  <2>4. Grown(data, end) = data \o pad
    BY <1>1 DEF Grown, k
  <2>5. \A i \in 1 .. k : pad[i] = Zero
    OBVIOUS
  <2> HIDE DEF pad
  <2>6. /\ data \o pad \in Contents
        /\ Len(data \o pad) = Len(data) + k
        /\ \A i \in 1 .. Len(data) + k : (data \o pad)[i] =
              IF i <= Len(data) THEN data[i] ELSE pad[i - Len(data)]
    BY <2>1, <2>3 DEF Contents
  <2>7. Len(data) + k = end
    BY <2>1 DEF k
  <2>8. \A i \in 1 .. end : i > Len(data) => i - Len(data) \in 1 .. k
    BY <2>1, <2>7
  <2>9. QED
    BY <1>1, <2>1, <2>4, <2>5, <2>6, <2>7, <2>8
<1>2. CASE ~(end > Len(data))
  BY <1>2 DEF Grown
<1>3. QED
  BY <1>1, <1>2

(* One more block, wherever it belongs.                                    *)
LEMMA WriteIsSound ==
    ASSUME NEW x, WriterSound(x),
           NEW off \in 0 .. MaxBlocks - 1, NEW b \in Uploaded,
           x.written[off] = Nil
    PROVE  WriterSound([x EXCEPT
              !.data = [Grown(@, off + 1) EXCEPT ![off + 1] = b],
              !.written[off] = b])
<1> DEFINE n == Len(x.data)
           g == Grown(x.data, off + 1)
           d == [g EXCEPT ![off + 1] = b]
           w == [x.written EXCEPT ![off] = b]
           m == Len(g)
           y == [x EXCEPT !.data = [Grown(@, off + 1) EXCEPT ![off + 1] = b],
                          !.written[off] = b]
<1>1. /\ x \in Writers /\ x.written \in Written /\ x.data \in Contents
      /\ n \in 0 .. MaxBlocks /\ n \in Nat
      /\ off + 1 \in Nat /\ off + 1 \in 1 .. MaxBlocks /\ off \in Nat
      /\ b # Nil /\ b \in Blocks /\ MaxBlocks \in Nat
  BY SftpAssumption DEF WriterSound, Writers, Reaches
<1>2. /\ g \in Contents
      /\ m = IF off + 1 > n THEN off + 1 ELSE n
      /\ \A i \in 1 .. m : g[i] = IF i <= n THEN x.data[i] ELSE Zero
  BY <1>1, GrownIs
<1>3. /\ y.data = d /\ y.written = w
      /\ y = [kind |-> "write", path |-> x.path, data |-> d, written |-> w]
  <2>1. y = [x EXCEPT !.data = d, !.written = w]
    OBVIOUS
  <2> HIDE DEF y, d, w
  <2>2. QED
    BY <1>1, <2>1 DEF Writers
<1>4. w \in Written
  BY <1>1 DEF Written
<1>5. /\ m \in Nat /\ m \in 1 .. MaxBlocks /\ m \in 0 .. MaxBlocks
      /\ off + 1 \in 1 .. m /\ n <= m
  BY <1>1, <1>2
<1> HIDE DEF g, m
<1>6. d \in Contents /\ Len(d) = m
  BY <1>1, <1>2, <1>5 DEF Contents, m
<1>7. Reaches(w, m)
  <2>1. \A i \in 0 .. MaxBlocks - 1 : w[i] # Nil => i < m
    BY <1>1, <1>2, <1>5 DEF WriterSound, Reaches, Written
  <2>2. w[m - 1] # Nil
    BY <1>1, <1>2, <1>5 DEF WriterSound, Reaches, Written
  <2>3. QED
    BY <1>5, <2>1, <2>2 DEF Reaches
<1>8. d = Laid(w, m)
  <2>1. /\ Laid(w, m) \in Contents /\ Len(Laid(w, m)) = m
        /\ \A i \in 1 .. m :
              Laid(w, m)[i] = IF w[i - 1] = Nil THEN Zero ELSE w[i - 1]
    BY <1>4, <1>5, LaidIsContents
  <2>2. /\ \A i \in 1 .. n :
              x.data[i] = IF x.written[i - 1] = Nil THEN Zero ELSE x.written[i - 1]
    BY <1>1, LaidIsContents DEF WriterSound
  <2>3. ASSUME NEW i \in 1 .. m
        PROVE  d[i] = Laid(w, m)[i]
    <3>1. i \in Int /\ i - 1 \in 0 .. MaxBlocks - 1
      BY <1>1, <1>5
    <3>2. CASE i = off + 1
      <4>1. d[i] = b
        BY <1>2, <1>5, <3>2 DEF Contents, m
      <4>2. w[i - 1] = b
        BY <1>1, <3>2 DEF Written
      <4>3. QED
        BY <1>1, <2>1, <4>1, <4>2
    <3>3. CASE i # off + 1
      <4>1. d[i] = g[i] /\ w[i - 1] = x.written[i - 1]
        BY <1>1, <1>2, <3>1, <3>3 DEF Written, Contents, m
      <4>2. CASE i <= n
        BY <1>2, <2>1, <2>2, <4>1, <4>2, <3>1
      <4>3. CASE i > n
        <5>1. g[i] = Zero
          BY <1>1, <1>2, <3>1, <4>3
        <5>2. x.written[i - 1] = Nil
          BY <1>1, <3>1, <4>3 DEF WriterSound, Reaches
        <5>3. QED
          BY <2>1, <4>1, <5>1, <5>2
      <4>4. QED
        BY <1>1, <3>1, <4>2, <4>3
    <3>4. QED
      BY <3>2, <3>3
  <2> HIDE DEF d, w, y, n
  <2>4. /\ d \in [1 .. m -> Blocks \cup {Zero}]
        /\ Laid(w, m) \in [1 .. m -> Blocks \cup {Zero}]
    BY <1>6, <2>1 DEF Contents
  <2> DEFINE l == Laid(w, m)
             F == [1 .. m -> Blocks \cup {Zero}]
  <2>5. \A i \in 1 .. m : d[i] = l[i]
    BY <2>3
  <2>6. \A u, v \in F : (\A i \in 1 .. m : u[i] = v[i]) => u = v
    BY SameFunctions
  <2>7. d \in F /\ l \in F
    BY <2>4
  <2> HIDE DEF l, F
  <2>8. d = l
    BY <2>5, <2>6, <2>7
  <2>9. QED
    BY <2>8 DEF l
<1>9. y \in Writers
  <2>1. w \in [0 .. MaxBlocks - 1 -> Blocks \cup {Nil}]
    BY <1>4, SftpAssumption DEF Written
  <2> HIDE DEF y, d, w
  <2>2. x.path \in Paths
    BY <1>1 DEF Writers
  <2>3. QED
    BY <1>3, <1>6, <2>1, <2>2 DEF Writers
<1> HIDE DEF y, d, w
<1>10. WriterSound(y)
  BY <1>3, <1>4, <1>6, <1>7, <1>8, <1>9 DEF WriterSound
<1>11. QED
  BY <1>10 DEF y

-----------------------------------------------------------------------------
(* Listings.                                                               *)

(* What StoreBecomes does to an entry, and to a handle.                    *)
Follow(e, moved) ==
    IF e.at = Nil THEN e
    ELSE IF moved[e.at] = Nil THEN [at |-> Nil, name |-> NameOf(e)]
    ELSE [at |-> moved[e.at], name |-> Nil]

Told(x, moved) ==
    IF x = Nil \/ x.kind # "list" THEN x
    ELSE [x EXCEPT !.entries = [i \in DOMAIN @ |-> Follow(@[i], moved)],
                   !.still = {p \in @ : moved[p] = p}]

LEMMA StoreBecomesTold ==
    ASSUME NEW fs, NEW moved, NEW hs, StoreBecomes(fs, moved, hs)
    PROVE  files' = fs /\ handle' = [h \in Channels |-> Told(hs[h], moved)]
BY DEF StoreBecomes, Told, Follow

LEMMA EntryFacts ==
    ASSUME NEW e \in Entries
    PROVE  /\ e.at = Nil => e.name \in Paths
           /\ e.at # Nil => e.at \in Paths /\ e.name = Nil
BY SftpAssumption DEF Entries

LEMMA ListerFacts ==
    ASSUME NEW x \in Listers
    PROVE  /\ x.kind = "list" /\ x # Nil
           /\ x.entries \in Seq(Entries) /\ x.shown \in Seq(Paths)
           /\ Len(x.entries) \in Nat /\ Len(x.shown) \in Nat
           /\ x.still \subseteq Paths
           /\ \A i \in 1 .. Len(x.entries) : x.entries[i] \in Entries
           /\ x = [kind |-> "list", entries |-> x.entries, shown |-> x.shown,
                   still |-> x.still]
<1>1. /\ x.kind = "list"
      /\ x.entries \in Seq(Entries) /\ x.shown \in Seq(Paths)
      /\ x.still \subseteq Paths
      /\ x = [kind |-> "list", entries |-> x.entries, shown |-> x.shown,
              still |-> x.still]
  BY DEF Listers
<1>2. x # Nil
  BY NilAssumption
<1>3. QED
  BY <1>1, <1>2

LEMMA KindsDiffer ==
    ASSUME NEW x, NEW fs, HandleSound(x, fs), x # Nil
    PROVE  /\ x.kind = "read" => ReaderSound(x)
           /\ x.kind = "write" => WriterSound(x)
           /\ x.kind = "list" => ListerSound(x, fs)
           /\ x.kind \in {"read", "write", "list"}
<1>1. ReaderSound(x) => x.kind = "read"
  BY DEF ReaderSound, Readers
<1>2. WriterSound(x) => x.kind = "write"
  BY DEF WriterSound, Writers
<1>3. ListerSound(x, fs) => x.kind = "list"
  BY DEF ListerSound, Listers
<1>4. QED
  BY <1>1, <1>2, <1>3 DEF HandleSound

(* What an operation on the store may do: a file that is somewhere         *)
(* afterwards is there in the new map, and no file takes the place of one  *)
(* that stayed.                                                            *)
MovesInto(moved, fs) ==
    /\ moved \in [Paths -> Paths \cup {Nil}]
    /\ \A p \in Paths : files[p] # Nil /\ moved[p] # Nil => fs[moved[p]] # Nil
    /\ \A p, q \in Paths : moved[p] = p /\ moved[q] = p => q = p

(* A listing survives every operation on the store.                        *)
LEMMA ToldIsSound ==
    ASSUME NEW x, ListerSound(x, files), StoreSound(files),
           NEW fs, NEW moved, MovesInto(moved, fs)
    PROVE  ListerSound(Told(x, moved), fs)
<1> DEFINE es == [i \in DOMAIN x.entries |-> Follow(x.entries[i], moved)]
           still == {p \in x.still : moved[p] = p}
           n == Len(x.entries)
           y == [kind |-> "list", entries |-> es, shown |-> x.shown, still |-> still]
<1>1. /\ x \in Listers /\ x.kind = "list" /\ x # Nil
      /\ x.entries \in Seq(Entries) /\ x.shown \in Seq(Paths)
      /\ n \in Nat /\ Len(x.shown) \in Nat
      /\ x.still \subseteq Paths
      /\ \A i \in 1 .. n : x.entries[i] \in Entries
      /\ x = [kind |-> "list", entries |-> x.entries, shown |-> x.shown,
              still |-> x.still]
  BY ListerFacts DEF ListerSound
<1>2. Told(x, moved) = y
  <2>1. Told(x, moved) = [x EXCEPT !.entries = es, !.still = still]
    BY <1>1 DEF Told
  <2> HIDE DEF es, still
  <2>2. QED
    BY <1>1, <2>1
<1>3. ASSUME NEW i \in 1 .. n
      PROVE  /\ x.entries[i].at = Nil => es[i] = x.entries[i]
             /\ x.entries[i].at # Nil =>
                   x.entries[i].at \in Paths /\ files[x.entries[i].at] # Nil
             /\ x.entries[i].at # Nil /\ moved[x.entries[i].at] = Nil =>
                   /\ es[i] = [at |-> Nil, name |-> x.entries[i].at]
                   /\ es[i].at = Nil /\ es[i].name = x.entries[i].at
             /\ x.entries[i].at # Nil /\ moved[x.entries[i].at] # Nil =>
                   /\ es[i] = [at |-> moved[x.entries[i].at], name |-> Nil]
                   /\ es[i].at = moved[x.entries[i].at] /\ es[i].name = Nil
  <2>1. es[i] = Follow(x.entries[i], moved)
    BY <1>1
  <2>2. x.entries[i] \in Entries
    BY <1>1
  <2>3. x.entries[i].at # Nil =>
           /\ x.entries[i].at \in Paths
           /\ files[x.entries[i].at] # Nil
           /\ NameOf(x.entries[i]) = x.entries[i].at
    BY <2>2, EntryFacts DEF ListerSound, StoreSound, NameOf
  <2> HIDE DEF es
  <2>4. QED
    BY <2>1, <2>3 DEF Follow
<1>4. ASSUME NEW i \in 1 .. n
      PROVE  es[i] \in Entries
  <2> HIDE DEF es
  <2>1. x.entries[i] \in Entries
    BY <1>1
  <2>2. CASE x.entries[i].at = Nil
    BY <1>3, <2>1, <2>2
  <2>3. CASE x.entries[i].at # Nil /\ moved[x.entries[i].at] = Nil
    <3>1. es[i] = [at |-> Nil, name |-> x.entries[i].at] /\ x.entries[i].at \in Paths
      BY <1>3, <2>3
    <3>2. QED
      BY <3>1 DEF Entries
  <2>4. CASE x.entries[i].at # Nil /\ moved[x.entries[i].at] # Nil
    <3> DEFINE at == x.entries[i].at
    <3>1. es[i] = [at |-> moved[at], name |-> Nil] /\ at \in Paths
      BY <1>3, <2>4
    <3>2. moved[at] \in Paths
      <4> HIDE DEF at
      <4>1. moved[at] # Nil
        BY <2>4 DEF at
      <4>2. QED
        BY <3>1, <4>1 DEF MovesInto
    <3>3. QED
      BY <3>1, <3>2 DEF Entries
  <2>5. QED
    BY <2>2, <2>3, <2>4
<1>5. es \in Seq(Entries) /\ Len(es) = n
  <2>1. es = [i \in 1 .. n |-> es[i]]
    BY <1>1
  <2> HIDE DEF es
  <2>2. es \in [1 .. n -> Entries]
    BY <1>4, <2>1
  <2>3. QED
    BY <1>1, <2>2
<1>6. y \in Listers
  <2>1. still \in SUBSET Paths
    BY <1>1
  <2> HIDE DEF es, still
  <2>2. QED
    BY <1>1, <1>5, <2>1 DEF Listers
<1> HIDE DEF es
<1>7. ASSUME NEW i \in 1 .. n, es[i].at # Nil
      PROVE  fs[es[i].at] # Nil
  <2> DEFINE at == x.entries[i].at
  <2>1. at # Nil /\ at \in Paths /\ files[at] # Nil
    BY <1>3, <1>7
  <2>2. moved[at] # Nil /\ es[i].at = moved[at]
    BY <1>3, <1>7, <2>1
  <2>3. fs[moved[at]] # Nil
    BY <2>1, <2>2 DEF MovesInto
  <2>4. QED
    BY <2>2, <2>3
<1>8. ASSUME NEW p \in still
      PROVE  \E i \in 1 .. n : StandsFor(y, i, p)
  <2>1. p \in Paths /\ p # Nil /\ moved[p] = p /\ p \in x.still
    BY <1>1, SftpAssumption
  <2>2. PICK i \in 1 .. n : StandsFor(x, i, p)
    BY <2>1 DEF ListerSound
  <2>3. es[i].at = p
    BY <1>3, <2>1, <2>2 DEF StandsFor
  <2>4. ASSUME NEW j \in 1 .. n, j # i
        PROVE  es[j].at # p /\ es[j].name # p
    <3>1. x.entries[j].at # p /\ x.entries[j].name # p
      BY <2>2, <2>4 DEF StandsFor
    <3>2. CASE x.entries[j].at = Nil
      BY <1>3, <3>1, <3>2
    <3>3. CASE x.entries[j].at # Nil
      <4>1. x.entries[j].at \in Paths /\ moved[x.entries[j].at] # p
        BY <1>3, <2>1, <3>1, <3>3 DEF MovesInto
      <4>2. QED
        BY <1>3, <2>1, <3>1, <3>3, <4>1
    <3>4. QED
      BY <3>2, <3>3
  <2>5. /\ i <= Len(x.shown) => x.shown[i] = p
        /\ \A j \in 1 .. n : j # i => (j <= Len(x.shown) => x.shown[j] # p)
    BY <2>2 DEF StandsFor
  <2>6. QED
    BY <1>5, <2>3, <2>4, <2>5 DEF StandsFor
<1>9. Len(x.shown) <= n
  BY DEF ListerSound
<1>10. ListerSound(y, fs)
  BY <1>5, <1>6, <1>7, <1>8, <1>9 DEF ListerSound
<1>11. QED
  BY <1>2, <1>10

LEMMA ToldHandleIsSound ==
    ASSUME NEW hs, HandlesSound(hs, files), StoreSound(files),
           NEW fs, NEW moved, MovesInto(moved, fs), StoreBecomes(fs, moved, hs)
    PROVE  HandlesSound(handle', fs)
<1>1. handle' = [h \in Channels |-> Told(hs[h], moved)]
  BY StoreBecomesTold
<1>2. ASSUME NEW h \in Channels
      PROVE  /\ HandleSound(Told(hs[h], moved), fs)
             /\ Told(hs[h], moved) \in {Nil} \cup Readers \cup Writers \cup Listers
  <2>1. HandleSound(hs[h], files)
    BY DEF HandlesSound
  <2>2. CASE hs[h] = Nil \/ hs[h].kind # "list"
    <3>1. Told(hs[h], moved) = hs[h]
      BY <2>2 DEF Told
    <3>2. HandleSound(hs[h], fs)
      BY <2>1, <2>2, KindsDiffer DEF HandleSound
    <3>3. QED
      BY <3>1, <3>2 DEF HandlesSound
  <2>3. CASE hs[h] # Nil /\ hs[h].kind = "list"
    BY <2>1, <2>3, KindsDiffer, ToldIsSound DEF HandleSound, ListerSound
  <2>4. QED
    BY <2>2, <2>3
<1>3. QED
  BY <1>1, <1>2 DEF HandlesSound

(* The next batch shows the names that the entries have now.               *)
LEMMA BatchIsSound ==
    ASSUME NEW x, ListerSound(x, files), StoreSound(files),
           NEW to \in Nat, Len(x.shown) < to, to <= Len(x.entries)
    PROVE  ListerSound([x EXCEPT !.shown =
              @ \o [i \in 1 .. (to - Len(x.shown)) |->
                       NameOf(x.entries[Len(x.shown) + i])]], files)
<1> DEFINE n == Len(x.shown)
           k == to - n
           batch == [i \in 1 .. k |-> NameOf(x.entries[n + i])]
           out == x.shown \o batch
           y == [kind |-> "list", entries |-> x.entries, shown |-> out,
                 still |-> x.still]
<1>1. /\ x \in Listers
      /\ x.entries \in Seq(Entries) /\ x.shown \in Seq(Paths)
      /\ Len(x.entries) \in Nat /\ n \in Nat
      /\ x.still \subseteq Paths
      /\ \A i \in 1 .. Len(x.entries) : x.entries[i] \in Entries
      /\ x = [kind |-> "list", entries |-> x.entries, shown |-> x.shown,
              still |-> x.still]
  BY ListerFacts DEF ListerSound
<1>2. [x EXCEPT !.shown = out] = y
  <2> HIDE DEF out
  <2>1. QED
    BY <1>1
<1>3. ASSUME NEW i \in 1 .. Len(x.entries)
      PROVE  /\ NameOf(x.entries[i]) \in Paths
             /\ NameOf(x.entries[i]) \in {x.entries[i].at, x.entries[i].name}
             /\ x.entries[i].at # Nil => NameOf(x.entries[i]) = x.entries[i].at
  <2>1. x.entries[i] \in Entries
    BY <1>1
  <2>2. CASE x.entries[i].at = Nil
    BY <2>1, <2>2, EntryFacts DEF NameOf
  <2>3. CASE x.entries[i].at # Nil
    <3>1. x.entries[i].at \in Paths /\ files[x.entries[i].at] # Nil
      BY <2>1, <2>3, EntryFacts DEF ListerSound
    <3>2. files[x.entries[i].at].name = x.entries[i].at
      BY <3>1 DEF StoreSound
    <3>3. QED
      BY <2>3, <3>1, <3>2 DEF NameOf
  <2>4. QED
    BY <2>2, <2>3
<1>4. /\ k \in Nat /\ n + k = to
      /\ \A i \in 1 .. k : n + i \in 1 .. Len(x.entries)
  BY <1>1
<1>5. batch \in Seq(Paths) /\ Len(batch) = k
  <2>1. \A i \in 1 .. k : NameOf(x.entries[n + i]) \in Paths
    BY <1>3, <1>4
  <2> HIDE DEF k, n
  <2>2. batch \in [1 .. k -> Paths]
    BY <2>1
  <2> HIDE DEF batch
  <2>3. QED
    BY <1>4, <2>2
<1>6. \A i \in 1 .. k : batch[i] = NameOf(x.entries[n + i])
  OBVIOUS
<1> HIDE DEF batch, k
<1>7. /\ out \in Seq(Paths) /\ Len(out) = to
      /\ \A i \in 1 .. to : out[i] =
            IF i <= n THEN x.shown[i] ELSE NameOf(x.entries[i])
  <2>1. /\ out \in Seq(Paths) /\ Len(out) = n + k
        /\ \A i \in 1 .. n + k : out[i] =
              IF i <= n THEN x.shown[i] ELSE batch[i - n]
    <3> DEFINE shown == x.shown
    <3>1. shown \in Seq(Paths) /\ batch \in Seq(Paths) /\ Len(batch) = k
      BY <1>1, <1>5
    <3> HIDE DEF shown
    <3>2. /\ shown \o batch \in Seq(Paths)
          /\ Len(shown \o batch) = Len(shown) + k
          /\ \A i \in 1 .. Len(shown) + k : (shown \o batch)[i] =
                IF i <= Len(shown) THEN shown[i] ELSE batch[i - Len(shown)]
      BY <3>1, <1>4
    <3>3. QED
      BY <3>2 DEF shown
  <2>2. \A i \in 1 .. to : i > n => i - n \in 1 .. k /\ n + (i - n) = i
    BY <1>1, <1>4
  <2> HIDE DEF out, n
  <2>3. QED
    BY <1>1, <1>4, <1>6, <2>1, <2>2
<1> HIDE DEF out
<1>8. y \in Listers
  BY <1>1, <1>7 DEF Listers
<1>9. ASSUME NEW p \in x.still
      PROVE  \E i \in 1 .. Len(x.entries) : StandsFor(y, i, p)
  <2>1. PICK i \in 1 .. Len(x.entries) : StandsFor(x, i, p)
    BY DEF ListerSound
  <2>2. p # Nil
    BY <1>1, SftpAssumption
  <2>3. i <= to => out[i] = p
    <3>1. i \in Int /\ x.entries[i].at = p
      BY <2>1 DEF StandsFor
    <3>2. NameOf(x.entries[i]) = p
      BY <1>3, <2>2, <3>1
    <3>3. QED
      BY <1>7, <2>1, <3>2 DEF StandsFor
  <2>4. ASSUME NEW j \in 1 .. Len(x.entries), j # i
        PROVE  /\ x.entries[j].at # p /\ x.entries[j].name # p
               /\ j <= to => out[j] # p
    <3>1. /\ x.entries[j].at # p /\ x.entries[j].name # p
          /\ j <= n => x.shown[j] # p
      BY <2>1, <2>4 DEF StandsFor
    <3>2. NameOf(x.entries[j]) # p
      BY <1>3, <3>1
    <3>3. QED
      BY <1>7, <3>1, <3>2
  <2>5. QED
    BY <1>7, <2>1, <2>3, <2>4 DEF StandsFor
<1>10. ListerSound(y, files)
  BY <1>7, <1>8, <1>9 DEF ListerSound
<1>11. QED
  BY <1>2, <1>10 DEF out, batch, k

(* A new listing: one entry for each path, at that path.                   *)
LEMMA ListerIsSound ==
    ASSUME NEW n \in Nat, NEW ps \in [1 .. n -> Paths],
           \A i, j \in 1 .. n : i # j => ps[i] # ps[j],
           \A i \in 1 .. n : files[ps[i]] # Nil
    PROVE  ListerSound(Lister(ps), files)
<1> DEFINE es == [i \in DOMAIN ps |-> [at |-> ps[i], name |-> Nil]]
           still == {ps[i] : i \in DOMAIN ps}
           y == [kind |-> "list", shown |-> <<>>, still |-> still, entries |-> es]
<1>1. \A i \in 1 .. n : [at |-> ps[i], name |-> Nil] \in Entries
  BY DEF Entries
<1>2. es \in [1 .. n -> Entries]
  BY <1>1
<1>3. \A i \in 1 .. n : es[i].at = ps[i] /\ es[i].name = Nil
  OBVIOUS
<1>4. still \subseteq Paths /\ \A p \in still : \E i \in 1 .. n : ps[i] = p
  OBVIOUS
<1>5. y = Lister(ps)
  BY DEF Lister
<1> HIDE DEF es, still
<1>6. es \in Seq(Entries) /\ Len(es) = n
  BY <1>2
<1>7. <<>> \in Seq(Paths) /\ Len(<<>>) = 0
  OBVIOUS
<1>8. y \in Listers
  BY <1>4, <1>6, <1>7 DEF Listers
<1>9. y.entries = es /\ y.shown = <<>> /\ y.still = still
  OBVIOUS
<1> HIDE DEF y
<1>10. ASSUME NEW p \in still
       PROVE  \E i \in 1 .. n : StandsFor(y, i, p)
  <2>1. PICK i \in 1 .. n : ps[i] = p
    BY <1>4
  <2>2. p # Nil
    BY <1>4, SftpAssumption
  <2>3. \A j \in 1 .. n : ~(j <= 0)
    OBVIOUS
  <2>4. StandsFor(y, i, p)
    BY <1>3, <1>6, <1>7, <1>9, <2>1, <2>2, <2>3 DEF StandsFor
  <2>5. QED
    BY <2>4
<1>11. ListerSound(y, files)
  BY <1>3, <1>6, <1>7, <1>8, <1>9, <1>10 DEF ListerSound
<1>12. QED
  BY <1>5, <1>11

(* An order of a set leaves nothing of it out: a directory listing begins  *)
(* with every file of the store.                                           *)
LEMMA OrdersAreComplete ==
    ASSUME NEW S, IsFiniteSet(S), NEW s \in Orders(S)
    PROVE  /\ Cardinality(S) \in Nat
           /\ s \in [1 .. Cardinality(S) -> S]
           /\ \A i, j \in 1 .. Cardinality(S) : i # j => s[i] # s[j]
           /\ {s[i] : i \in DOMAIN s} = S
<1> DEFINE n == Cardinality(S)
<1>1. n \in Nat
  BY FS_CardinalityType
<1>2. s \in [1 .. n -> S] /\ \A i, j \in 1 .. n : i # j => s[i] # s[j]
  BY DEF Orders
<1>3. s \in Injection(1 .. n, S)
  BY <1>2 DEF Injection, IsInjective
<1>4. Cardinality(1 .. n) = n
  BY <1>1, FS_Interval
<1>5. s \in Surjection(1 .. n, S)
  BY <1>3, <1>4, FS_Injection
<1>6. \A x \in S : \E i \in 1 .. n : s[i] = x
  BY <1>5 DEF Surjection
<1>7. QED
  BY <1>1, <1>2, <1>6

-----------------------------------------------------------------------------
(* The steps.                                                              *)

LEMMA HandleReplaced ==
    ASSUME NEW hs, NEW fs, HandlesSound(hs, fs), NEW h \in Channels,
           NEW x, HandleSound(x, fs)
    PROVE  HandlesSound([hs EXCEPT ![h] = x], fs)
<1>1. x \in {Nil} \cup Readers \cup Writers \cup Listers
  BY DEF HandleSound, ReaderSound, WriterSound, ListerSound
<1>2. QED
  BY <1>1 DEF HandlesSound

(* One store for one open connection: nothing of another one is left.      *)
LEMMA EmptiedIsSound ==
    ASSUME Emptied
    PROVE  StoreSound(files') /\ HandlesSound(handle', files')
BY DEF Emptied, StoreSound, HandlesSound, HandleSound

LEMMA ConnectionSteps ==
    ASSUME SftpInv,
           \/ Start \/ Accept \/ FetchConfig \/ Disconnect
           \/ \E c \in Configs \cup {Nil} : Configure(c)
    PROVE  SftpInv'
<1>1. CASE Start \/ Disconnect
  <2>1. StoreSound(files') /\ HandlesSound(handle', files')
    BY <1>1, EmptiedIsSound DEF Start, Disconnect
  <2>2. ConnectionSound'
    BY <1>1 DEF SftpInv, ConnectionSound, Start, Disconnect, Emptied
  <2>3. QED
    BY <2>1, <2>2 DEF SftpInv
<1>2. CASE Accept \/ FetchConfig \/ \E c \in Configs \cup {Nil} : Configure(c)
  <2>1. UNCHANGED <<files, handle>>
    BY <1>2 DEF Accept, FetchConfig, Configure
  <2>2. ConnectionSound'
    <3>1. CASE Accept
      BY <3>1 DEF SftpInv, ConnectionSound, Accept
    <3>2. CASE FetchConfig
      BY <3>2, SftpAssumption DEF SftpInv, ConnectionSound, FetchConfig
    <3>3. ASSUME NEW c \in Configs \cup {Nil}, Configure(c)
          PROVE  ConnectionSound'
      BY <3>3 DEF SftpInv, ConnectionSound, Configure
    <3>4. QED
      BY <1>2, <3>1, <3>2, <3>3
  <2>3. QED
    BY <2>1, <2>2 DEF SftpInv
<1>3. QED
  BY <1>1, <1>2

(* The files are those of the configuration that the connection fetched.   *)
LEMMA HandshakeStep ==
    ASSUME SftpInv, NEW login \in Logins, Handshake(login)
    PROVE  /\ SftpInv'
           /\ config \in since
           /\ \A p \in Paths :
                 IF p \in DOMAIN config.files
                 THEN files'[p] # Nil /\ files'[p].content = config.files[p]
                 ELSE files'[p] = Nil
<1>1. /\ config \in since /\ config \in Configs
      /\ \A h \in Channels : handle[h] = Nil
  BY DEF SftpInv, ConnectionSound, Handshake
<1>2. ASSUME NEW p \in Paths, p \in DOMAIN config.files
      PROVE  /\ files'[p].name = p /\ files'[p].content = config.files[p]
             /\ files'[p] \in Files /\ files'[p] # Nil
             /\ config.files[p] \in Versions
  <2>1. files'[p] = [name |-> p, content |-> config.files[p]]
    BY <1>2 DEF Handshake, NewFileStore
  <2>2. config.files[p] \in Contents
    BY <1>1, <1>2, SftpAssumption
  <2>3. config.files[p] \in UNION {{c.files[q] : q \in DOMAIN c.files} : c \in Configs}
    BY <1>1, <1>2
  <2>4. files'[p] \in Files
    BY <2>1, <2>2 DEF Files
  <2>5. QED
    BY <2>1, <2>3, <2>4, NilAssumption DEF Versions
<1>3. ASSUME NEW p \in Paths, p \notin DOMAIN config.files
      PROVE  files'[p] = Nil
  BY <1>3 DEF Handshake, NewFileStore
<1>4. StoreSound(files')
  <2>1. files' = [p \in Paths |-> files'[p]]
    BY DEF Handshake, NewFileStore
  <2>2. files' \in [Paths -> {Nil} \cup Files]
    BY <1>2, <1>3, <2>1
  <2>3. ASSUME NEW p \in Paths, files'[p] # Nil
        PROVE  files'[p].name = p /\ files'[p].content \in Versions
    BY <1>2, <1>3, <2>3
  <2>4. QED
    BY <2>2, <2>3 DEF StoreSound
<1>5. HandlesSound(handle', files')
  BY <1>1 DEF SftpInv, HandlesSound, HandleSound, Handshake, NewFileStore
<1>6. ConnectionSound'
  BY DEF SftpInv, ConnectionSound, Handshake
<1>7. QED
  BY <1>1, <1>2, <1>3, <1>4, <1>5, <1>6 DEF SftpInv

(* A step of a channel that leaves the store alone.                        *)
LEMMA ChannelStep ==
    ASSUME SftpInv, NEW h \in Channels, NEW x, HandleSound(x, files),
           handle[h] # Nil \/ phase = "open",
           handle' = [handle EXCEPT ![h] = x],
           UNCHANGED <<files, Connection>>
    PROVE  SftpInv'
<1>1. HandlesSound(handle', files')
  BY HandleReplaced DEF SftpInv
<1>2. ConnectionSound'
  <2>1. phase = "open"
    BY DEF SftpInv, ConnectionSound
  <2>2. QED
    BY <2>1 DEF SftpInv, ConnectionSound, Connection
<1>3. QED
  BY <1>1, <1>2 DEF SftpInv

LEMMA FilereadStep ==
    ASSUME SftpInv, NEW h \in Channels, NEW p \in Paths, Fileread(h, p)
    PROVE  SftpInv'
<1> DEFINE data == files[p].content
           x == [kind |-> "read", path |-> p, data |-> data, got |-> <<>>]
<1>1. data \in Contents /\ data \in Versions
  BY DEF SftpInv, StoreSound, Fileread, Files
<1> HIDE DEF data
<1>2. x \in Readers
  <2>1. <<>> \in Contents
    BY DEF Contents
  <2>2. QED
    BY <1>1, <2>1 DEF Readers
<1>3. ReaderSound(x)
  <2>1. /\ Len(data) \in Nat /\ Len(<<>>) = 0
    BY <1>1 DEF Contents
  <2>2. QED
    BY <1>1, <1>2, <2>1 DEF ReaderSound
<1>4. QED
  BY <1>3, ChannelStep DEF HandleSound, Fileread, Opens, data

LEMMA FilewriteStep ==
    ASSUME SftpInv, NEW h \in Channels, NEW p \in Paths, Filewrite(h, p)
    PROVE  SftpInv'
<1> DEFINE w == [i \in 0 .. MaxBlocks - 1 |-> Nil]
           x == [kind |-> "write", path |-> p, data |-> <<>>, written |-> w]
<1>1. w \in Written /\ w \in [0 .. MaxBlocks - 1 -> Blocks \cup {Nil}]
  BY DEF Written
<1>2. \A i \in 0 .. MaxBlocks - 1 : w[i] = Nil
  OBVIOUS
<1> HIDE DEF w
<1>3. Reaches(w, 0)
  BY <1>2, SftpAssumption DEF Reaches
<1>4. Laid(w, 0) = <<>>
  <2>1. 0 \in 0 .. MaxBlocks
    BY SftpAssumption
  <2>2. Laid(w, 0) \in Contents /\ Len(Laid(w, 0)) = 0
    BY <1>1, <2>1, LaidIsContents
  <2>3. QED
    BY <2>2 DEF Contents
<1>5. x \in Writers
  <2>1. <<>> \in Contents
    BY DEF Contents
  <2>2. QED
    BY <1>1, <2>1 DEF Writers
<1>6. WriterSound(x)
  <2>1. Len(<<>>) = 0
    OBVIOUS
  <2>2. QED
    BY <1>1, <1>3, <1>4, <1>5, <2>1 DEF WriterSound
<1>7. QED
  BY <1>6, ChannelStep DEF HandleSound, Filewrite, Opens, w

LEMMA FilelistStep ==
    ASSUME SftpInv, NEW h \in Channels, Filelist(h)
    PROVE  SftpInv'
<1> DEFINE S == {p \in Paths : files[p] # Nil}
<1>1. PICK ps \in Orders(S) : Opens(h, Lister(ps))
  BY DEF Filelist
<1>2. IsFiniteSet(S)
  BY SftpAssumption, FS_Subset
<1>3. /\ Cardinality(S) \in Nat /\ ps \in [1 .. Cardinality(S) -> S]
      /\ \A i, j \in 1 .. Cardinality(S) : i # j => ps[i] # ps[j]
  <2> HIDE DEF S
  <2>1. QED
    BY <1>2, OrdersAreComplete
<1>4. /\ ps \in [1 .. Cardinality(S) -> Paths]
      /\ \A i \in 1 .. Cardinality(S) : files[ps[i]] # Nil
  BY <1>3
<1> HIDE DEF S
<1>5. ListerSound(Lister(ps), files)
  BY <1>3, <1>4, ListerIsSound
<1>6. QED
  BY <1>1, <1>5, ChannelStep DEF HandleSound, Opens

LEMMA StatStep ==
    ASSUME SftpInv, NEW h \in Channels, NEW p \in Paths, Stat(h, p)
    PROVE  SftpInv'
<1> DEFINE ps == <<p>>
<1>1. /\ 1 \in Nat /\ ps \in [1 .. 1 -> Paths]
      /\ \A i, j \in 1 .. 1 : i # j => ps[i] # ps[j]
      /\ \A i \in 1 .. 1 : files[ps[i]] # Nil
  BY DEF Stat
<1> HIDE DEF ps
<1>2. ListerSound(Lister(ps), files)
  BY <1>1, ListerIsSound
<1>3. QED
  BY <1>2, ChannelStep DEF HandleSound, Stat, Opens, ps

LEMMA ReadAtStep ==
    ASSUME SftpInv, NEW h \in Channels, ReadAt(h)
    PROVE  SftpInv'
<1> DEFINE x == handle[h]
           y == [x EXCEPT !.got = Append(@, x.data[Len(@) + 1])]
<1>1. /\ x # Nil /\ x.kind = "read" /\ Len(x.got) < Len(x.data)
      /\ handle' = [handle EXCEPT ![h] = y]
      /\ UNCHANGED <<files, Connection>>
  BY DEF SftpInv, HandlesSound, ReadAt, Has
<1>2. ReaderSound(x)
  <2>1. HandleSound(x, files)
    BY DEF SftpInv, HandlesSound
  <2>2. QED
    BY <1>1, <2>1, KindsDiffer
<1> DEFINE got == Append(x.got, x.data[Len(x.got) + 1])
<1> HIDE DEF x
<1>3. /\ x.data \in Seq(Blocks \cup {Zero}) /\ x.got \in Seq(Blocks \cup {Zero})
      /\ x.path \in Paths
      /\ x = [kind |-> "read", path |-> x.path, data |-> x.data, got |-> x.got]
  BY <1>2 DEF ReaderSound, Readers, Contents
<1>4. /\ got \in Seq(Blocks \cup {Zero})
      /\ Len(got) = Len(x.got) + 1
      /\ \A i \in 1 .. Len(got) :
            got[i] = IF i <= Len(x.got) THEN x.got[i] ELSE x.data[Len(x.got) + 1]
  BY <1>1, <1>3
<1>5. y = [x EXCEPT !.got = got]
  OBVIOUS
<1> HIDE DEF got, y
<1>6. y = [kind |-> "read", path |-> x.path, data |-> x.data, got |-> got]
  BY <1>3, <1>5
<1>7. y \in Readers
  BY <1>3, <1>4, <1>6 DEF Readers, Contents
<1>8. ReaderSound(y)
  <2>1. y.data = x.data /\ y.got = got
    BY <1>6
  <2>2. Len(x.got) \in Nat /\ Len(x.data) \in Nat
    BY <1>3
  <2>3. \A i \in 1 .. Len(got) : got[i] = x.data[i]
    BY <1>2, <1>4, <2>2 DEF ReaderSound
  <2>4. QED
    BY <1>1, <1>2, <1>4, <1>7, <2>1, <2>2, <2>3 DEF ReaderSound
<1>9. QED
  BY <1>1, <1>8, ChannelStep DEF HandleSound, x

LEMMA WriteAtStep ==
    ASSUME SftpInv, NEW h \in Channels, NEW off \in 0 .. MaxBlocks - 1,
           NEW b \in Uploaded, WriteAt(h, off, b)
    PROVE  SftpInv'
<1> DEFINE x == handle[h]
           y == [x EXCEPT !.data = [Grown(@, off + 1) EXCEPT ![off + 1] = b],
                          !.written[off] = b]
<1>1. /\ x # Nil /\ x.kind = "write" /\ x.written[off] = Nil
      /\ handle' = [handle EXCEPT ![h] = y]
      /\ UNCHANGED <<files, Connection>>
  BY DEF SftpInv, HandlesSound, WriteAt, Has
<1>2. WriterSound(x)
  <2>1. HandleSound(x, files)
    BY DEF SftpInv, HandlesSound
  <2>2. QED
    BY <1>1, <2>1, KindsDiffer
<1>3. WriterSound(y)
  <2> HIDE DEF x
  <2>1. QED
    BY <1>1, <1>2, WriteIsSound
<1> HIDE DEF y
<1>4. QED
  BY <1>1, <1>3, ChannelStep DEF HandleSound

LEMMA ListAtStep ==
    ASSUME SftpInv, NEW h \in Channels, ListAt(h)
    PROVE  SftpInv'
<1> DEFINE x == handle[h]
           n == Len(x.shown)
           to == IF n + Batch <= Len(x.entries) THEN n + Batch ELSE Len(x.entries)
           y == [x EXCEPT !.shown =
                    @ \o [i \in 1 .. (to - n) |-> NameOf(x.entries[n + i])]]
<1>1. /\ x # Nil /\ x.kind = "list" /\ n < Len(x.entries)
      /\ handle' = [handle EXCEPT ![h] = y]
      /\ UNCHANGED <<files, Connection>>
  BY DEF SftpInv, HandlesSound, ListAt, Has
<1>2. ListerSound(x, files) /\ StoreSound(files)
  <2>1. HandleSound(x, files)
    BY DEF SftpInv, HandlesSound
  <2>2. QED
    BY <1>1, <2>1, KindsDiffer DEF SftpInv
<1>3. ListerSound(y, files)
  <2> HIDE DEF x
  <2>1. n \in Nat /\ Len(x.entries) \in Nat
    BY <1>2, ListerFacts DEF ListerSound
  <2>2. to \in Nat /\ n < to /\ to <= Len(x.entries)
    BY <1>1, <2>1, SftpAssumption
  <2> HIDE DEF to
  <2>3. QED
    BY <1>2, <2>2, BatchIsSound
<1> HIDE DEF y
<1>4. QED
  BY <1>1, <1>3, ChannelStep DEF HandleSound

LEMMA CloseStep ==
    ASSUME SftpInv, NEW h \in Channels, Close(h)
    PROVE  SftpInv'
<1> DEFINE x == handle[h]
           rest == [handle EXCEPT ![h] = Nil]
           fs == [files EXCEPT ![x.path] = [name |-> x.path, content |-> x.data]]
           moved == [InPlace EXCEPT ![x.path] = Nil]
<1>1. x # Nil /\ phase = "open" /\ HandleSound(x, files) /\ UNCHANGED Connection
  BY DEF SftpInv, ConnectionSound, HandlesSound, Close
<1>2. HandlesSound(rest, files)
  BY HandleReplaced DEF SftpInv, HandleSound
<1>3. ConnectionSound'
  BY <1>1 DEF SftpInv, ConnectionSound, Connection
<1>4. CASE x.kind # "write"
  <2>1. handle' = rest /\ UNCHANGED files
    BY <1>4 DEF Close
  <2>2. QED
    BY <1>2, <1>3, <2>1 DEF SftpInv
<1>5. CASE x.kind = "write"
  <2>1. StoreBecomes(fs, moved, rest)
    BY <1>5 DEF Close
  <2>2. WriterSound(x)
    BY <1>1, <1>5, KindsDiffer
  <2>3. x.path \in Paths /\ x.data \in Contents /\ x.data \in Versions
    BY <2>2, AssembledIsVersion DEF WriterSound, Writers
  <2> DEFINE f == [name |-> x.path, content |-> x.data]
  <2>4. f \in Files /\ f # Nil /\ f.name = x.path /\ f.content \in Versions
    BY <2>3, NilAssumption DEF Files
  <2> HIDE DEF f, x
  <2>5. StoreSound(fs)
    BY <2>3, <2>4 DEF SftpInv, StoreSound, f
  <2>6. MovesInto(moved, fs)
    BY <2>3, <2>4, SftpAssumption DEF SftpInv, StoreSound, MovesInto, InPlace, f
  <2> HIDE DEF fs, moved, rest
  <2>7. files' = fs
    BY <2>1, StoreBecomesTold
  <2>8. HandlesSound(handle', fs)
    BY <1>2, <2>1, <2>6, ToldHandleIsSound DEF SftpInv
  <2>9. QED
    BY <1>3, <2>5, <2>7, <2>8 DEF SftpInv
<1>6. QED
  BY <1>4, <1>5

(* An operation on the store, of whatever channel.                         *)
LEMMA StoreStep ==
    ASSUME SftpInv, NEW fs, NEW moved, phase = "open", UNCHANGED Connection,
           StoreSound(fs), MovesInto(moved, fs), StoreBecomes(fs, moved, handle)
    PROVE  SftpInv'
<1>1. files' = fs
  BY StoreBecomesTold
<1>2. HandlesSound(handle', fs)
  BY ToldHandleIsSound DEF SftpInv
<1>3. ConnectionSound'
  BY DEF SftpInv, ConnectionSound, Connection
<1>4. QED
  BY <1>1, <1>2, <1>3 DEF SftpInv

LEMMA RemoveStep ==
    ASSUME SftpInv, NEW p \in Paths, Remove(p)
    PROVE  SftpInv'
<1> DEFINE fs == [files EXCEPT ![p] = Nil]
           moved == [InPlace EXCEPT ![p] = Nil]
<1>1. StoreSound(fs)
  BY DEF SftpInv, StoreSound
<1>2. MovesInto(moved, fs)
  BY SftpAssumption DEF SftpInv, StoreSound, MovesInto, InPlace
<1>3. phase = "open" /\ StoreBecomes(fs, moved, handle) /\ UNCHANGED Connection
  BY DEF Remove
<1> HIDE DEF fs, moved
<1>4. QED
  BY <1>1, <1>2, <1>3, StoreStep

LEMMA RenameStep ==
    ASSUME SftpInv, NEW p \in Paths, NEW q \in Paths, Rename(p, q)
    PROVE  SftpInv'
<1> DEFINE f == [files[p] EXCEPT !.name = q]
           fs == [files EXCEPT ![q] = f, ![p] = Nil]
           moved == [InPlace EXCEPT ![q] = Nil, ![p] = IF p = q THEN Nil ELSE q]
<1>1. phase = "open" /\ StoreBecomes(fs, moved, handle) /\ UNCHANGED Connection
  BY DEF Rename
<1>2. files[p] \in Files /\ files[p].content \in Versions
  BY DEF SftpInv, StoreSound, Rename
<1>3. f \in Files /\ f # Nil /\ f.name = q /\ f.content \in Versions
  BY <1>2, NilAssumption DEF Files
<1> HIDE DEF f
<1>4. StoreSound(fs)
  BY <1>3 DEF SftpInv, StoreSound
<1>5. MovesInto(moved, fs)
  BY <1>3, SftpAssumption DEF SftpInv, StoreSound, MovesInto, InPlace
<1> HIDE DEF fs, moved
<1>6. QED
  BY <1>1, <1>4, <1>5, StoreStep

LEMMA SftpInitSound ==
    ASSUME SftpInit PROVE SftpInv
BY DEF SftpInit, SftpInv, ConnectionSound, StoreSound, HandlesSound, HandleSound

LEMMA SftpStepSound ==
    ASSUME SftpInv, [SftpNext]_sftpVars PROVE SftpInv'
<1>1. CASE UNCHANGED sftpVars
  BY <1>1 DEF SftpInv, ConnectionSound, sftpVars
<1>2. ASSUME NEW login \in Logins, Handshake(login) PROVE SftpInv'
  BY <1>2, HandshakeStep
<1>3. ASSUME NEW h \in Channels, ReadAt(h) \/ ListAt(h) \/ Close(h) \/ Filelist(h)
      PROVE  SftpInv'
  BY <1>3, ReadAtStep, ListAtStep, CloseStep, FilelistStep
<1>4. ASSUME NEW h \in Channels, NEW p \in Paths,
             Fileread(h, p) \/ Filewrite(h, p) \/ Stat(h, p)
      PROVE  SftpInv'
  BY <1>4, FilereadStep, FilewriteStep, StatStep
<1>5. ASSUME NEW h \in Channels, NEW off \in 0 .. MaxBlocks - 1, NEW b \in Uploaded,
             WriteAt(h, off, b)
      PROVE  SftpInv'
  BY <1>5, WriteAtStep
<1>6. ASSUME NEW p \in Paths, Remove(p) PROVE SftpInv'
  BY <1>6, RemoveStep
<1>7. ASSUME NEW p \in Paths, NEW q \in Paths, Rename(p, q) PROVE SftpInv'
  BY <1>7, RenameStep
<1>8. QED
  BY <1>1, <1>2, <1>3, <1>4, <1>5, <1>6, <1>7, ConnectionSteps DEF SftpNext

(* SftpInv holds in every state of every run of the adapter.               *)
THEOREM SftpInvariant == SftpSpec => []SftpInv
<1>1. SftpInit => SftpInv
  BY SftpInitSound
<1>2. SftpInv /\ [SftpNext]_sftpVars => SftpInv'
  BY SftpStepSound
<1>3. QED
  BY <1>1, <1>2, PTL DEF SftpSpec

(* The store and the handles of the SFTP adapter have their types, and a   *)
(* file is filed under the name it carries.                                *)
THEOREM FilesAreFiledByName == SftpSpec => [](SftpTypeOK /\ NamesAgree)
<1>1. SftpInv => SftpTypeOK /\ NamesAgree
  <2> SUFFICES ASSUME SftpInv PROVE SftpTypeOK /\ NamesAgree
    OBVIOUS
  <2>1. \A p \in Paths : files[p] # Nil =>
           files[p].name = p /\ files[p].content \in Contents
    BY DEF SftpInv, StoreSound, Files
  <2>2. \A h \in Channels :
           handle[h] = Nil \/ handle[h] \in Readers \cup Writers \cup Listers
    BY DEF SftpInv, HandlesSound
  <2>3. QED
    BY <2>1, <2>2 DEF SftpInv, ConnectionSound, SftpTypeOK, NamesAgree
<1>2. QED
  BY <1>1, SftpInvariant, PTL

(* Every handle the adapter keeps is a reader, a writer or a lister of the *)
(* shape its requests rely on, and every file has a content.               *)
THEOREM SftpTypeCorrect == SftpSpec => []SftpTypeOK
BY FilesAreFiledByName, PTL

(* A download that has come to its end is one version of a file, however   *)
(* long it is and whatever became of the file.                             *)
THEOREM DownloadsAreVersions == SftpSpec => []DownloadsAreWhole
<1>1. SftpInv => DownloadsAreWhole
  <2> SUFFICES ASSUME SftpInv, NEW h \in Channels, Has(h, "read"),
                      Len(handle[h].got) = Len(handle[h].data)
               PROVE  handle[h].got \in Versions
    BY DEF DownloadsAreWhole
  <2> DEFINE x == handle[h]
  <2>1. ReaderSound(x)
    BY KindsDiffer DEF Has, SftpInv, HandlesSound
  <2>2. x.data \in Seq(Blocks \cup {Zero}) /\ x.got \in Seq(Blocks \cup {Zero})
    BY <2>1 DEF ReaderSound, Readers, Contents
  <2>3. x.data = x.got
    BY <2>1, <2>2 DEF ReaderSound
  <2>4. QED
    BY <2>1, <2>3 DEF ReaderSound
<1>2. QED
  BY <1>1, SftpInvariant, PTL

(* A listing that has come to its end has shown every file that nobody     *)
(* touched, and has shown it once, for any number of files, batches and    *)
(* operations around it.                                                   *)
THEOREM ListingsAreComplete == SftpSpec => []ListingComplete
<1>1. SftpInv => ListingComplete
  <2> SUFFICES ASSUME SftpInv, NEW h \in Channels, Has(h, "list"),
                      Len(handle[h].shown) = Len(handle[h].entries),
                      NEW p \in handle[h].still
               PROVE  Cardinality({i \in DOMAIN handle[h].shown :
                                      handle[h].shown[i] = p}) = 1
    BY DEF ListingComplete
  <2> DEFINE x == handle[h]
             hits == {i \in DOMAIN x.shown : x.shown[i] = p}
  <2>1. ListerSound(x, files)
    BY KindsDiffer DEF Has, SftpInv, HandlesSound
  <2>2. PICK i \in 1 .. Len(x.entries) : StandsFor(x, i, p)
    BY <2>1 DEF ListerSound
  <2>3. DOMAIN x.shown = 1 .. Len(x.entries) /\ Len(x.entries) \in Nat
    BY <2>1, ListerFacts DEF ListerSound
  <2>4. \A j \in 1 .. Len(x.entries) : x.shown[j] = p <=> j = i
    BY <2>2, <2>3 DEF StandsFor
  <2>5. hits = {i}
    BY <2>2, <2>3, <2>4
  <2>6. QED
    BY <2>5, FS_Singleton
<1>2. QED
  BY <1>1, SftpInvariant, PTL

(* Only Close ends an upload while the connection lasts.                   *)
LEMMA WriterStays ==
    ASSUME SftpInv, SftpNext, NEW h \in Channels, Has(h, "write"),
           phase' = "open", ~Close(h)
    PROVE  handle'[h] # Nil
<1> DEFINE x == handle[h]
<1>1. /\ x # Nil /\ x.kind = "write" /\ WriterSound(x) /\ phase = "open"
      /\ handle \in [Channels -> {Nil} \cup Readers \cup Writers \cup Listers]
  <2>1. HandleSound(x, files) /\ x # Nil /\ x.kind = "write" /\ phase = "open"
    BY DEF Has, SftpInv, HandlesSound, ConnectionSound
  <2>2. QED
    BY <2>1, KindsDiffer DEF SftpInv, HandlesSound
<1>2. ASSUME NEW fs, NEW moved, NEW hs, StoreBecomes(fs, moved, hs), hs[h] = x
      PROVE  handle'[h] # Nil
  <2>1. handle'[h] = Told(x, moved)
    BY <1>2, StoreBecomesTold
  <2>2. Told(x, moved) = x
    BY <1>1 DEF Told
  <2>3. QED
    BY <1>1, <2>1, <2>2
<1>3. CASE \/ Start \/ Accept \/ FetchConfig \/ Disconnect
           \/ \E c \in Configs \cup {Nil} : Configure(c)
           \/ \E login \in Logins : Handshake(login)
  BY <1>1, <1>3 DEF Start, Accept, FetchConfig, Disconnect, Configure, Handshake,
                    NewFileStore
<1>4. ASSUME NEW g \in Channels, ReadAt(g) \/ ListAt(g)
      PROVE  handle'[h] # Nil
  BY <1>1, <1>4 DEF ReadAt, ListAt, Has
<1>5. ASSUME NEW g \in Channels, g # h, Close(g)
      PROVE  handle'[h] # Nil
  <2> DEFINE rest == [handle EXCEPT ![g] = Nil]
  <2>1. rest[h] = x
    BY <1>1, <1>5
  <2>2. CASE handle[g].kind = "write"
    BY <1>2, <1>5, <2>1, <2>2 DEF Close
  <2>3. CASE handle[g].kind # "write"
    BY <1>1, <1>5, <2>1, <2>3 DEF Close
  <2>4. QED
    BY <2>2, <2>3
<1>6. ASSUME NEW g \in Channels, NEW off \in 0 .. MaxBlocks - 1, NEW b \in Uploaded,
             WriteAt(g, off, b)
      PROVE  handle'[h] # Nil
  <2>1. CASE g # h
    BY <1>1, <1>6, <2>1 DEF WriteAt
  <2>2. CASE g = h
    <3> DEFINE y == [x EXCEPT !.data = [Grown(@, off + 1) EXCEPT ![off + 1] = b],
                              !.written[off] = b]
    <3>1. handle'[h] = y
      BY <1>1, <1>6, <2>2 DEF WriteAt
    <3>2. x.written[off] = Nil
      BY <1>6, <2>2 DEF WriteAt
    <3>3. WriterSound(y)
      <4> HIDE DEF x
      <4>1. QED
        BY <1>1, <3>2, WriteIsSound
    <3> HIDE DEF y
    <3>4. y # Nil
      BY <3>3, NilAssumption DEF WriterSound
    <3>5. QED
      BY <3>1, <3>4
  <2>3. QED
    BY <2>1, <2>2
<1>7. ASSUME NEW p \in Paths, Remove(p)
      PROVE  handle'[h] # Nil
  BY <1>2, <1>7 DEF Remove
<1>8. ASSUME NEW p \in Paths, NEW q \in Paths, Rename(p, q)
      PROVE  handle'[h] # Nil
  BY <1>2, <1>8 DEF Rename
<1>9. ASSUME NEW g \in Channels, NEW z, Opens(g, z)
      PROVE  handle'[h] # Nil
  BY <1>1, <1>9 DEF Opens
<1>10. QED
  BY <1>3, <1>4, <1>5, <1>6, <1>7, <1>8, <1>9
     DEF SftpNext, Fileread, Filewrite, Filelist, Stat

(* An upload that is closed leaves what its writes assemble to, whatever   *)
(* their order, their number and the gaps between them.                    *)
THEOREM UploadsAreAssembled == SftpSpec => UploadsArriveWhole
<1> DEFINE Whole ==
        \A h \in Channels :
          Has(h, "write") /\ handle'[h] = Nil /\ phase' = "open" =>
             LET x == handle[h]
             IN  files'[x.path].content = Assembled(x.written)
<1>1. ASSUME SftpInv, SftpNext PROVE Whole
  <2> SUFFICES ASSUME NEW h \in Channels, Has(h, "write"), handle'[h] = Nil,
                      phase' = "open"
               PROVE  files'[handle[h].path].content = Assembled(handle[h].written)
    OBVIOUS
  <2> DEFINE x == handle[h]
  <2>1. Close(h)
    BY <1>1, WriterStays
  <2>2. HandleSound(x, files) /\ x # Nil /\ x.kind = "write"
    BY <1>1 DEF Has, SftpInv, HandlesSound
  <2>3. x.path \in Paths /\ x.data = Assembled(x.written)
    BY <2>2, KindsDiffer, AssembledIsVersion DEF WriterSound, Writers
  <2>4. files' = [files EXCEPT ![x.path] = [name |-> x.path, content |-> x.data]]
    BY <2>1, <2>2, StoreBecomesTold DEF Close
  <2>5. files'[x.path].content = x.data
    BY <1>1, <2>3, <2>4 DEF SftpInv, StoreSound
  <2>6. QED
    BY <2>3, <2>5
<1>2. ASSUME SftpInv, UNCHANGED sftpVars PROVE Whole
  BY <1>2 DEF sftpVars, Has
<1>3. SftpInv /\ [SftpNext]_sftpVars => [Whole]_sftpVars
  BY <1>1, <1>2
<1>4. QED
  BY <1>3, SftpInvariant, PTL DEF SftpSpec, UploadsArriveWhole

(* A connection starts with exactly the files of a configuration that was  *)
(* served between its being accepted and its being open.                   *)
THEOREM StoresAreServed == SftpSpec => FilesWereServed
<1> DEFINE Served ==
        phase # "open" /\ phase' = "open" =>
          \E c \in since :
             \A p \in Paths :
                IF p \in DOMAIN c.files
                THEN files'[p] # Nil /\ files'[p].content = c.files[p]
                ELSE files'[p] = Nil
<1>1. ASSUME SftpInv, SftpNext, phase # "open", phase' = "open"
      PROVE  \E login \in Logins : Handshake(login)
  <2>1. ~ (Start \/ Accept \/ FetchConfig \/ Disconnect)
    BY <1>1 DEF Start, Accept, FetchConfig, Disconnect
  <2>2. ~ \E c \in Configs \cup {Nil} : Configure(c)
    BY <1>1 DEF Configure
  <2>3. \A h \in Channels : handle[h] = Nil
    BY <1>1 DEF SftpInv, ConnectionSound
  <2>4. ~ \E h \in Channels : ReadAt(h) \/ ListAt(h) \/ Close(h) \/ Filelist(h)
    BY <1>1, <2>3 DEF ReadAt, ListAt, Close, Filelist, Opens, Has
  <2>5. ~ \E h \in Channels, p \in Paths : Fileread(h, p) \/ Filewrite(h, p) \/ Stat(h, p)
    BY <1>1 DEF Fileread, Filewrite, Stat, Opens
  <2>6. ~ \E h \in Channels, off \in 0 .. MaxBlocks - 1, b \in Uploaded : WriteAt(h, off, b)
    BY <2>3 DEF WriteAt, Has
  <2>7. ~ \E p, q \in Paths : Remove(p) \/ Rename(p, q)
    BY <1>1 DEF Remove, Rename
  <2>8. QED
    BY <1>1, <2>1, <2>2, <2>4, <2>5, <2>6, <2>7 DEF SftpNext
<1>2. ASSUME SftpInv, SftpNext PROVE Served
  <2> SUFFICES ASSUME phase # "open", phase' = "open"
               PROVE  \E c \in since :
                         \A p \in Paths :
                            IF p \in DOMAIN c.files
                            THEN files'[p] # Nil /\ files'[p].content = c.files[p]
                            ELSE files'[p] = Nil
    OBVIOUS
  <2>1. PICK login \in Logins : Handshake(login)
    BY <1>1, <1>2
  <2>2. QED
    BY <1>2, <2>1, HandshakeStep
<1>3. ASSUME SftpInv, UNCHANGED sftpVars PROVE Served
  BY <1>3 DEF sftpVars
<1>4. SftpInv /\ [SftpNext]_sftpVars => [Served]_sftpVars
  BY <1>2, <1>3
<1>5. QED
  BY <1>4, SftpInvariant, PTL DEF SftpSpec, FilesWereServed

=============================================================================
