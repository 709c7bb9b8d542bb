------------------------------ MODULE SystemLog -----------------------------
(***************************************************************************)
(* The system log of control-plane/store/memory.go: startup and the idle   *)
(* check add entries, GET /api/system/log?tail=n reads the last n.  Both   *)
(* run under the store's mutex.  An entry is its number in the order of    *)
(* the calls of AddSystemLog; its text is left out.                        *)
(***************************************************************************)
EXTENDS Integers, Sequences

CONSTANTS
    systemLogMaxEntries,
    MaxAdded,       \* bound on the entries of a run
    Tails           \* the numbers a reader asks for; 0 without "tail="

ASSUME LogAssumption ==
    /\ systemLogMaxEntries \in Nat \ {0}
    /\ MaxAdded \in Nat
    /\ Tails \subseteq Int

VARIABLES
    systemLog,
    added,      \* entries added since the process started
    reply,      \* the last answer to a reader
    read        \* the newest entry that a reader has been shown

logVars == <<systemLog, added, reply, read>>

Entry == Nat \ {0}

LogTypeOK ==
    /\ systemLog \in Seq(Entry)
    /\ added \in 0 .. MaxAdded
    /\ reply \in Seq(Entry)
    /\ read \in 0 .. MaxAdded

(* s[len(s)-n:]                                                            *)
LastOf(s, n) == [i \in 1 .. n |-> s[Len(s) - n + i]]

(* Mutant: the cap keeps the oldest entries.                               *)
CappedOldest(s) ==
    IF Len(s) > systemLogMaxEntries THEN SubSeq(s, 1, systemLogMaxEntries) ELSE s

Capped(s) ==
    IF Len(s) > systemLogMaxEntries THEN LastOf(s, systemLogMaxEntries) ELSE s

AddSystemLog ==
    /\ added < MaxAdded
    /\ added' = added + 1
    /\ systemLog' = Capped(Append(systemLog, added'))
    /\ UNCHANGED <<reply, read>>

(* Mutants: the answer is made n long, empty strings (0) and all; it is    *)
(* the head of the log.                                                    *)
GetSystemLogPadded(n) ==
    /\ reply' = [i \in 1 .. n |-> IF i <= Len(systemLog) THEN systemLog[i] ELSE 0]
    /\ UNCHANGED <<systemLog, added, read>>

GetSystemLogHead(n) ==
    /\ reply' = IF n > 0 /\ n < Len(systemLog) THEN SubSeq(systemLog, 1, n)
                ELSE systemLog
    /\ read' = IF reply' = <<>> THEN read ELSE reply'[Len(reply')]
    /\ UNCHANGED <<systemLog, added>>

GetSystemLog(n) ==
    /\ reply' = IF n > 0 /\ n < Len(systemLog) THEN LastOf(systemLog, n)
                ELSE systemLog
    /\ read' = IF reply' = <<>> THEN read ELSE reply'[Len(reply')]
    /\ UNCHANGED <<systemLog, added>>

LogInit == systemLog = <<>> /\ added = 0 /\ reply = <<>> /\ read = 0

LogNext == AddSystemLog \/ \E n \in Tails : GetSystemLog(n)

LogSpec == LogInit /\ [][LogNext]_logVars

-----------------------------------------------------------------------------

(* The log is the newest systemLogMaxEntries entries, in order, without a  *)
(* gap: the cap drops the oldest ones and only those.                      *)
Kept == IF added < systemLogMaxEntries THEN added ELSE systemLogMaxEntries

LogIsNewest == systemLog = [i \in 1 .. Kept |-> added - Kept + i]

(* A reader who asks for n entries before more than n have been added      *)
(* since the last reading (nor more than the log keeps) misses none.       *)
Window(n) == IF 0 < n /\ n < systemLogMaxEntries THEN n ELSE systemLogMaxEntries

PollMissesNothing ==
    [][ \A n \in Tails :
          GetSystemLog(n) /\ added - read <= Window(n) =>
             \A k \in (read + 1) .. added :
                \E i \in DOMAIN reply' : reply'[i] = k ]_logVars

=============================================================================
