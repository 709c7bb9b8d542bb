--------------------------- MODULE SystemLogProofs --------------------------
(***************************************************************************)
(* The system log keeps the newest entries for every capacity, and readers *)
(* who poll often enough miss none.                                        *)
(***************************************************************************)
EXTENDS SystemLog, SequenceTheorems, TLAPS

LEMMA LastOfType ==
    ASSUME NEW S, NEW s \in Seq(S), NEW n \in 0 .. Len(s)
    PROVE  /\ LastOf(s, n) \in Seq(S)
           /\ Len(LastOf(s, n)) = n
           /\ \A i \in 1 .. n : LastOf(s, n)[i] = s[Len(s) - n + i]
<1>1. n \in Nat /\ Len(s) \in Nat /\ n <= Len(s)
  BY LenProperties
<1> DEFINE F(i) == s[Len(s) - n + i]
<1>2. \A i \in 1 .. n : F(i) \in S
  <2> TAKE i \in 1 .. n
  <2>1. Len(s) - n + i \in 1 .. Len(s)
    BY <1>1
  <2>2. QED
    BY <2>1, ElementOfSeq
<1>3. LastOf(s, n) = [i \in 1 .. n |-> F(i)]
  BY DEF LastOf
<1> HIDE DEF F
<1>4. LastOf(s, n) \in Seq(S) /\ Len(LastOf(s, n)) = n
      /\ \A i \in 1 .. n : LastOf(s, n)[i] = F(i)
  BY <1>1, <1>2, <1>3
<1>5. QED
  BY <1>4 DEF F

LogInv == LogTypeOK /\ LogIsNewest

(* What LogIsNewest says entry by entry.                                   *)
LEMMA LogFacts ==
    ASSUME LogInv
    PROVE  /\ added \in Nat
           /\ Kept \in Nat /\ Kept <= added /\ Kept <= systemLogMaxEntries
           /\ systemLog \in Seq(Entry)
           /\ Len(systemLog) = Kept
           /\ \A i \in 1 .. Kept : systemLog[i] = added - Kept + i
<1>1. added \in Nat /\ Kept \in Nat /\ Kept <= added /\ Kept <= systemLogMaxEntries
  BY LogAssumption DEF LogInv, LogTypeOK, Kept
<1>2. systemLog \in Seq(Entry) /\ systemLog = [i \in 1 .. Kept |-> added - Kept + i]
  BY DEF LogInv, LogTypeOK, LogIsNewest
<1>3. Len(systemLog) = Kept
  BY <1>1, <1>2
<1>4. QED
  BY <1>1, <1>2, <1>3

LEMMA AddSystemLogInv ==
    ASSUME LogInv, AddSystemLog
    PROVE  LogInv'
<1> DEFINE s == Append(systemLog, added + 1)
           Max == systemLogMaxEntries
<1>1. /\ s \in Seq(Entry)
      /\ Len(s) = Kept + 1
      /\ \A i \in 1 .. (Kept + 1) : s[i] = added - Kept + i
  <2>1. added + 1 \in Entry /\ systemLog \in Seq(Entry) /\ Len(systemLog) = Kept
    BY LogFacts DEF Entry
  <2>2. /\ s \in Seq(Entry)
        /\ Len(s) = Kept + 1
        /\ \A i \in 1 .. (Kept + 1) :
              s[i] = IF i <= Kept THEN systemLog[i] ELSE added + 1
    BY <2>1
  <2> HIDE DEF s
  <2>3. ASSUME NEW i \in 1 .. (Kept + 1)
        PROVE  s[i] = added - Kept + i
    <3>1. added \in Nat /\ Kept \in Nat
      BY LogFacts
    <3>2. CASE i <= Kept
      BY <2>2, <3>1, <3>2, LogFacts
    <3>3. CASE i = Kept + 1
      BY <2>2, <3>1, <3>3
    <3>4. QED
      BY <3>1, <3>2, <3>3
  <2>4. QED
    BY <2>2, <2>3
<1>2. added' = added + 1 /\ systemLog' = Capped(s)
  BY DEF AddSystemLog
<1> HIDE DEF s
<1>3. added' \in 0 .. MaxAdded
  BY LogAssumption DEF AddSystemLog, LogInv, LogTypeOK
<1>4. Kept' \in Nat
  <2>1. added \in Nat
    BY LogFacts
  <2>2. QED
    BY <1>2, <2>1, LogAssumption DEF Kept
<1>5. /\ systemLog' \in Seq(Entry)
      /\ Len(systemLog') = Kept'
      /\ \A i \in 1 .. Kept' : systemLog'[i] = added' - Kept' + i
  <2>1. CASE Kept + 1 > Max
    <3>1. Kept = Max /\ Kept' = Max /\ systemLog' = LastOf(s, Max)
      BY <1>1, <1>2, <2>1, LogFacts, LogAssumption DEF Capped, Kept
    <3>2. Max \in 0 .. Len(s)
      BY <1>1, <3>1, LogAssumption
    <3>3. /\ LastOf(s, Max) \in Seq(Entry) /\ Len(LastOf(s, Max)) = Max
          /\ \A i \in 1 .. Max : LastOf(s, Max)[i] = s[Len(s) - Max + i]
      <4>1. s \in Seq(Entry) /\ Max \in 0 .. Len(s)
        BY <1>1, <3>2
      <4> HIDE DEF Max
      <4>2. QED
        BY <4>1, LastOfType
    <3>4. ASSUME NEW i \in 1 .. Max
          PROVE  LastOf(s, Max)[i] = added - Kept + (1 + i)
      <4>1. LastOf(s, Max)[i] = s[1 + i]
        <5>1. Len(s) = Max + 1 /\ Max \in Nat
          BY <1>1, <3>1, LogAssumption
        <5>2. Len(s) - Max + i = 1 + i
          BY <5>1
        <5>3. QED
          BY <3>3, <5>2
      <4>2. 1 + i \in 1 .. (Kept + 1)
        BY <3>1, LogAssumption
      <4>3. QED
        BY <1>1, <4>1, <4>2
    <3>5. added \in Nat /\ Kept \in Nat /\ Max \in Nat
      BY LogFacts, LogAssumption
    <3>6. \A i \in 1 .. Max : systemLog'[i] = added' - Kept' + i
      BY <1>2, <3>1, <3>4, <3>5
    <3>7. QED
      BY <3>1, <3>3, <3>6
  <2>2. CASE ~ (Kept + 1 > Max)
    <3>1. Kept' = Kept + 1 /\ Kept = added /\ systemLog' = s
      BY <1>1, <1>2, <2>2, LogFacts, LogAssumption DEF Capped, Kept
    <3>2. QED
      BY <1>1, <1>2, <3>1, LogFacts
  <2>3. QED
    BY <2>1, <2>2
<1>6. systemLog' = [i \in 1 .. Kept' |-> added' - Kept' + i]
  BY <1>4, <1>5, LenProperties
<1>7. QED
  BY <1>3, <1>5, <1>6 DEF LogInv, LogTypeOK, LogIsNewest, AddSystemLog

LEMMA GetSystemLogReply ==
    ASSUME LogInv, NEW n \in Tails, GetSystemLog(n)
    PROVE  \E m \in 0 .. Kept :
              /\ m = IF 0 < n /\ n < Kept THEN n ELSE Kept
              /\ reply' \in Seq(Entry) /\ Len(reply') = m
              /\ \A i \in 1 .. m : reply'[i] = added - m + i
<1>1. n \in Int
  BY LogAssumption
<1>2. CASE 0 < n /\ n < Kept
  <2>1. reply' = LastOf(systemLog, n) /\ n \in 0 .. Len(systemLog)
    BY <1>1, <1>2, LogFacts DEF GetSystemLog
  <2>2. /\ reply' \in Seq(Entry) /\ Len(reply') = n
        /\ \A i \in 1 .. n : reply'[i] = systemLog[Len(systemLog) - n + i]
    BY <2>1, LogFacts, LastOfType
  <2>3. ASSUME NEW i \in 1 .. n
        PROVE  reply'[i] = added - n + i
    <3>1. /\ Kept - n + i \in 1 .. Kept
          /\ reply'[i] = systemLog[Kept - n + i]
      <4>1. Kept \in Nat /\ Len(systemLog) = Kept
        BY LogFacts
      <4>2. QED
        BY <1>1, <1>2, <2>2, <4>1
    <3>2. systemLog[Kept - n + i] = added - Kept + (Kept - n + i)
      BY <3>1, LogFacts
    <3>3. QED
      BY <1>1, <3>1, <3>2, LogFacts
  <2>4. QED
    BY <1>1, <1>2, <2>2, <2>3, LogFacts
<1>3. CASE ~ (0 < n /\ n < Kept)
  BY <1>1, <1>3, LogFacts DEF GetSystemLog
<1>4. QED
  BY <1>2, <1>3

LEMMA GetSystemLogInv ==
    ASSUME LogInv, NEW n \in Tails, GetSystemLog(n)
    PROVE  LogInv'
<1>1. PICK m \in 0 .. Kept :
        /\ reply' \in Seq(Entry) /\ Len(reply') = m
        /\ \A i \in 1 .. m : reply'[i] = added - m + i
  BY GetSystemLogReply
<1>2. read' \in 0 .. MaxAdded
  <2>1. CASE reply' = <<>>
    BY <2>1 DEF GetSystemLog, LogInv, LogTypeOK
  <2>2. CASE reply' # <<>>
    <3>1. m \in 1 .. m /\ read' = reply'[m]
      BY <1>1, <2>2, LogFacts DEF GetSystemLog
    <3>2. QED
      BY <1>1, <3>1, LogFacts DEF LogInv, LogTypeOK
  <2>3. QED
    BY <2>1, <2>2
<1>3. QED
  BY <1>1, <1>2 DEF GetSystemLog, LogInv, LogTypeOK, LogIsNewest, Kept

LEMMA LogInvariant == LogSpec => []LogInv
<1>1. LogInit => LogInv
  BY LogAssumption DEF LogInit, LogInv, LogTypeOK, LogIsNewest, Kept
<1>2. LogInv /\ [LogNext]_logVars => LogInv'
  <2> SUFFICES ASSUME LogInv, [LogNext]_logVars
               PROVE  LogInv'
    OBVIOUS
  <2>1. CASE UNCHANGED logVars
    BY <2>1 DEF logVars, LogInv, LogTypeOK, LogIsNewest, Kept
  <2>2. QED
    BY <2>1, AddSystemLogInv, GetSystemLogInv DEF LogNext
<1>3. QED
  BY <1>1, <1>2, PTL DEF LogSpec

(* The cap and the tail leave only entries that were written: neither the  *)
(* log nor a reply of GetSystemLog ever holds a slot without one.          *)
THEOREM LogTypeCorrect == LogSpec => []LogTypeOK
<1>1. LogInv => LogTypeOK
  BY DEF LogInv
<1>2. QED
  BY <1>1, LogInvariant, PTL

(* Whatever the capacity, the log is always exactly the newest entries     *)
(* that fit, in order.                                                     *)
THEOREM LogKeepsTheNewest == LogSpec => []LogIsNewest
<1>1. LogInv => LogIsNewest
  BY DEF LogInv
<1>2. QED
  BY <1>1, LogInvariant, PTL

(* A reader who asks for enough entries, and often enough, reads them all. *)
THEOREM PollingMissesNothing == LogSpec => PollMissesNothing
<1>1. LogInv /\ [LogNext]_logVars =>
        [ \A n \in Tails :
            GetSystemLog(n) /\ added - read <= Window(n) =>
               \A k \in (read + 1) .. added :
                  \E i \in DOMAIN reply' : reply'[i] = k ]_logVars
  <2> SUFFICES ASSUME LogInv, NEW n \in Tails, GetSystemLog(n),
                      added - read <= Window(n), NEW k \in (read + 1) .. added
               PROVE  \E i \in DOMAIN reply' : reply'[i] = k
    OBVIOUS
  <2>1. PICK m \in 0 .. Kept :
          /\ m = IF 0 < n /\ n < Kept THEN n ELSE Kept
          /\ reply' \in Seq(Entry) /\ Len(reply') = m
          /\ \A i \in 1 .. m : reply'[i] = added - m + i
    BY GetSystemLogReply
  <2>2. DOMAIN reply' = 1 .. m
    BY <2>1, LenProperties
  <2>3. n \in Int /\ read \in Nat /\ k \in Int
    BY LogAssumption DEF LogInv, LogTypeOK
  <2>4. added - read <= m
    BY <2>1, <2>3, LogFacts, LogAssumption DEF Window, Kept
  <2>5. /\ added \in Nat /\ m \in Nat
        /\ k - (added - m) \in 1 .. m
    <3>1. added \in Nat /\ Kept \in Nat
      BY LogFacts
    <3>2. QED
      BY <2>3, <2>4, <3>1
  <2>6. reply'[k - (added - m)] = k
    <3>1. reply'[k - (added - m)] = added - m + (k - (added - m))
      BY <2>1, <2>5
    <3>2. QED
      BY <2>3, <2>5, <3>1
  <2>7. QED
    BY <2>2, <2>5, <2>6
<1>2. QED
  BY <1>1, LogInvariant, PTL DEF LogSpec, PollMissesNothing

=============================================================================
