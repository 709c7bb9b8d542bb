------------------------------ MODULE Adapters ------------------------------
(***************************************************************************)
(* The vocabulary of the control plane: the identifiers it makes up, the   *)
(* Adapter record of control-plane/models/adapter.go, and the time stamps  *)
(* it keeps.  ScenarioCatalog (values) and MemoryStore (pointers and       *)
(* slices) are both written in these terms.                                *)
(***************************************************************************)
EXTENDS Naturals, Sequences

CONSTANTS
    GithubIds,      \* ids "<name>-github" of the scenarios of the manifest
    Epoch, Horizon, \* the Unix seconds in which this instance creates things
    Names,          \* adapter names
    Types,          \* adapter types
    Manifest,       \* github id -> the adapters its scenario file lists
    LocalMode,      \* LOCAL_MODE == "true"
    UserKey,        \* an SSH host key that came with a request
    Nil             \* the nil pointer, the zero Adapter, the empty string

Sftp == "SFTP"
SenderTypes == {"REST-SENDER", "SOAP-SENDER", "XI-SENDER"}

(* A file of the manifest brings host keys or leaves them to be generated. *)
FileEntries ==
    {f \in [name : Names, type : Types, key : {UserKey, Nil}] :
        f.key # Nil => f.type = Sftp}

Seconds == Epoch .. Horizon

(* createScenario and CloneScenario name a scenario after the second it is *)
(* made in; LoadGitHubScenario after the file.                             *)
ScenarioIds == GithubIds \cup Seconds

ASSUME ConstantsAssumption ==
    /\ Epoch \in Nat /\ Horizon \in Nat /\ Epoch <= Horizon
    /\ GithubIds \cap Nat = {}
    /\ LocalMode \in BOOLEAN
    /\ UserKey # Nil
    /\ Manifest \in [GithubIds -> Seq(FileEntries)]

(***************************************************************************)
(* An adapter id is scenario id, type and a number: the second of the      *)
(* request in addAdapter, the position in CloneScenario and                *)
(* LoadGitHubScenario (a second is never a position: Epoch exceeds the     *)
(* length of every scenario).  In local mode addAdapter uses the id of the *)
(* container of that type instead; all senders are in one.                 *)
(***************************************************************************)
OfSender == "SENDER"

AdapterIds == (ScenarioIds \cup {Nil}) \X (Types \cup {OfSender}) \X Nat

PositionId(sid, type, i) == <<sid, type, i>>

localAdapterIDs(type) ==
    <<Nil, IF type \in SenderTypes THEN OfSender ELSE type, 0>>

NewAdapterId(sid, type, second) ==
    IF LocalMode THEN localAdapterIDs(type) ELSE <<sid, type, second>>

(***************************************************************************)
(* The fields of an Adapter that the control plane decides on.  dep is the *)
(* adapter name DeploymentName was derived from.  last abstracts           *)
(* LastActivity: nil, within idleShutdownAfter, or longer ago.  key is the *)
(* provenance of the SSH host key: the id of the adapter it was generated  *)
(* for, UserKey, or Nil; only SFTP adapters have one.                      *)
(***************************************************************************)
Statuses == {"stopped", "running"}
Titles   == {"given", "edited"}     \* where the name of a scenario is from
Activity == {"never", "recent", "old"}
Urls     == {"none", "public", "internal", "local"}
Keys     == AdapterIds \cup {UserKey, Nil}

AdapterRecord ==
    [ id : AdapterIds, name : Names, dep : Names, type : Types,
      status : Statuses, last : Activity, url : Urls,
      key : Keys ]

ASSUME NilAssumption ==
    /\ Nil \notin ScenarioIds /\ Nil \notin Names /\ Nil \notin Types
    /\ Nil \notin AdapterRecord

HostKey(type, id) == IF type = Sftp THEN id ELSE Nil

(* addAdapter generates the host key of an SFTP adapter unless the request *)
(* brings one.                                                             *)
RequestKeys(type, id) == IF type = Sftp THEN {id, UserKey} ELSE {Nil}

NewAdapter(id, name, type, key) ==
    [ id |-> id, name |-> name, dep |-> name, type |-> type,
      status |-> "stopped", last |-> "never", url |-> "none", key |-> key ]

(* idleShutdownAfter goes by for every recorded activity at once.          *)
Aged(x) ==
    IF x = Nil THEN Nil
    ELSE [x EXCEPT !.last = IF @ = "recent" THEN "old" ELSE @]

(* Mutant: only the pods' reports start the idle clock.                    *)
WithStatusUnseeded(x, status) == [x EXCEPT !.status = status]

(* UpdateAdapterStatus starts the idle clock of an adapter it sets running. *)
WithStatus(x, status) ==
    [x EXCEPT !.status = status,
              !.last = IF status = "running" THEN "recent" ELSE @]

(***************************************************************************)
(* Copies of adapters.  A clone renumbers the ids, keeps the names and the *)
(* host keys, and makes a key only where the source has none; so does an   *)
(* import with the entries of its file.                                    *)
(***************************************************************************)
CloneOf(xs, sid) ==
    [ i \in 1 .. Len(xs) |->
        LET id == PositionId(sid, xs[i].type, i - 1)
        IN  NewAdapter(id, xs[i].name, xs[i].type,
                IF xs[i].key = Nil THEN HostKey(xs[i].type, id)
                ELSE xs[i].key) ]

FromFile(g) ==
    [ i \in 1 .. Len(Manifest[g]) |->
        LET f  == Manifest[g][i]
            id == PositionId(g, f.type, i - 1)
        IN  NewAdapter(id, f.name, f.type,
                IF f.key = Nil THEN HostKey(f.type, id) ELSE f.key) ]

(* The positions of the entries that "the first with this id" ranges over. *)
FirstAt(xs, id, i) ==
    /\ i \in 1 .. Len(xs)
    /\ xs[i].id = id
    /\ \A j \in 1 .. (i - 1) : xs[j].id # id

Occurs(xs, id) == \E i \in 1 .. Len(xs) : xs[i].id = id

=============================================================================
