------------------------------ MODULE SftpFiles -----------------------------
(***************************************************************************)
(* The SFTP adapter, adapters/sftp/main.go: a pod that serves files from   *)
(* memory.  A connection takes the adapter's configuration when it is      *)
(* accepted and builds a file store of its own from it once the client     *)
(* has logged in; the channels of the connection work on that store side   *)
(* by side and leave nothing behind.  Connections share the host key and   *)
(* nothing else, so one at a time, again and again, is enough.             *)
(*                                                                         *)
(* The store maps paths to *InMemoryFile.  Listings hold such pointers     *)
(* after the store's mutex is released and read names through them: an     *)
(* entry of a listing says under which path its file is now, or is the     *)
(* last name of a file that is gone.  Contents are never written in place  *)
(* and are values, sequences of blocks.                                    *)
(***************************************************************************)
EXTENDS Integers, Sequences, FiniteSets

CONSTANTS
    Paths,
    Channels,       \* sessions of a connection, each with one open handle
    Blocks, Zero,   \* blocks of files, and a block never written
    Uploaded,       \* the blocks among them that clients send
    MaxBlocks,      \* bound on the length of an upload
    Batch,          \* entries that sftp asks a lister for at a time
    Configs,        \* what the control plane may be made to serve
    Logins,         \* what clients may present: a method and a secret
    Temporary,      \* a host key generated at start
    Nil

Contents == Seq(Blocks \cup {Zero})

ASSUME SftpAssumption ==
    /\ MaxBlocks \in Nat /\ Batch \in Nat \ {0}
    /\ Uploaded \subseteq Blocks /\ Zero \notin Blocks
    /\ Nil \notin Paths /\ Nil \notin Blocks /\ Nil \notin Configs
    /\ IsFiniteSet(Paths)
    /\ \A c \in Configs : \A p \in DOMAIN c.files :
          p \in Paths /\ c.files[p] \in Contents

VARIABLES
    served,     \* what the configuration endpoint answers; Nil: an error
    hostKey,    \* the key that main() loaded or made
    phase,      \* of handleConnection
    config,     \* its local variable
    since,      \* every configuration served since the connection began
    files,      \* fileStore.files
    handle      \* what a channel has open: a reader, a writer, a lister

sftpVars == <<served, hostKey, phase, config, since, files, handle>>

Readers == [kind : {"read"}, path : Paths, data : Contents, got : Contents]
Writers == [kind : {"write"}, path : Paths, data : Contents,
            written : [0 .. MaxBlocks - 1 -> Blocks \cup {Nil}]]
Entries == [at : Paths, name : {Nil}] \cup [at : {Nil}, name : Paths]
Listers == [kind : {"list"}, entries : Seq(Entries), shown : Seq(Paths),
            still : SUBSET Paths]

Files == [name : Paths, content : Contents]

(* No file and no handle is the nil pointer.                               *)
ASSUME NilAssumption == Nil \notin Files \cup Readers \cup Writers \cup Listers

SftpTypeOK ==
    /\ served \in Configs \cup {Nil} /\ config \in Configs \cup {Nil}
    /\ phase \in {"closed", "accepted", "handshake", "open"}
    /\ since \subseteq Configs
    /\ \A p \in Paths :
          files[p] # Nil => files[p].name \in Paths /\ files[p].content \in Contents
    /\ \A h \in Channels :
          handle[h] = Nil \/ handle[h] \in Readers \cup Writers \cup Listers

Has(h, kind) == handle[h] # Nil /\ handle[h].kind = kind

NameOf(e) == IF e.at = Nil THEN e.name ELSE files[e.at].name

(* The outcome of an operation on the store: the new map, and under which  *)
(* path the file that was under each path is now.  A listing can count on  *)
(* the paths that nobody touches while it runs (still).                    *)
StoreBecomes(fs, moved, hs) ==
    LET follow(e) ==
            IF e.at = Nil THEN e
            ELSE IF moved[e.at] = Nil THEN [at |-> Nil, name |-> NameOf(e)]
            ELSE [at |-> moved[e.at], name |-> Nil]
        told(x) ==
            IF x = Nil \/ x.kind # "list" THEN x
            ELSE [x EXCEPT !.entries = [i \in DOMAIN @ |-> follow(@[i])],
                           !.still = {p \in @ : moved[p] = p}]
    IN  /\ files' = fs
        /\ handle' = [h \in Channels |-> told(hs[h])]

InPlace == [p \in Paths |-> p]

Emptied ==
    /\ files' = [p \in Paths |-> Nil]
    /\ handle' = [h \in Channels |-> Nil]

(***************************************************************************)
(* The connection.                                                         *)
(***************************************************************************)
KeyOf(c) == IF c = Nil \/ c.hostKey = Nil THEN Temporary ELSE c.hostKey

(* main(): whatever connections there were are gone.                       *)
Start ==
    /\ hostKey' = KeyOf(served)
    /\ phase' = "closed"
    /\ config' = Nil /\ since' = {}
    /\ Emptied
    /\ UNCHANGED served

(* The dashboard edits the adapter, deletes it, or the endpoint is down.   *)
(* An open connection never looks again: edits wait until it is closed.    *)
Configure(c) ==
    /\ phase # "open"
    /\ served' = c
    /\ since' = IF phase = "closed" \/ c = Nil THEN since ELSE since \cup {c}
    /\ UNCHANGED <<hostKey, phase, config, files, handle>>

Accept ==
    /\ phase = "closed"
    /\ phase' = "accepted"
    /\ since' = {served} \ {Nil}
    /\ UNCHANGED <<served, hostKey, config, files, handle>>

FetchConfig ==
    /\ phase = "accepted"
    /\ config' = served
    /\ phase' = IF served = Nil THEN "closed" ELSE "handshake"
    /\ UNCHANGED <<served, hostKey, since, files, handle>>

(* handlePasswordAuth and handlePublicKeyAuth, on a configuration fetched  *)
(* for the occasion, not on the connection's.                              *)
Admits(c, login) ==
    /\ c # Nil
    /\ c.mode # "failure"
    /\ IF login.method = "password" THEN c.credentials \in {Nil, login.secret}
       ELSE c.publicKey \in {Nil, login.secret}

(* A client that is refused may try again or hang up (Disconnect).         *)
NewFileStore ==
    /\ files' = [p \in Paths |->
          IF p \in DOMAIN config.files
          THEN [name |-> p, content |-> config.files[p]] ELSE Nil]
    /\ UNCHANGED handle

(* Mutant: the store is made once, when the pod starts.                    *)
HandshakeSharing(login) ==
    /\ phase = "handshake"
    /\ Admits(served, login)
    /\ phase' = "open"
    /\ config' = Nil /\ since' = {}
    /\ UNCHANGED <<served, hostKey, files, handle>>

(* The configuration has served its purpose.                               *)
Handshake(login) ==
    /\ phase = "handshake"
    /\ Admits(served, login)
    /\ phase' = "open"
    /\ NewFileStore
    /\ config' = Nil /\ since' = {}
    /\ UNCHANGED <<served, hostKey>>

Disconnect ==
    /\ phase # "closed"
    /\ phase' = "closed"
    /\ config' = Nil /\ since' = {}
    /\ Emptied
    /\ UNCHANGED <<served, hostKey>>

(***************************************************************************)
(* Requests.  Each runs one method of fileStore under its mutex.           *)
(***************************************************************************)
Connection == <<served, hostKey, phase, config, since>>

Opens(h, x) ==
    /\ phase = "open" /\ handle[h] = Nil
    /\ handle' = [handle EXCEPT ![h] = x]
    /\ UNCHANGED <<files, Connection>>

Fileread(h, p) ==
    /\ files[p] # Nil
    /\ Opens(h, [kind |-> "read", path |-> p, data |-> files[p].content,
                 got |-> <<>>])

(* Mutant: the reader looks its file up in the store again.                *)
ReadAtStore(h) ==
    /\ Has(h, "read")
    /\ LET x == handle[h]
           f == files[x.path]
           data == IF f = Nil THEN <<>> ELSE f.content
       IN  /\ Len(x.got) < Len(data)
           /\ handle' = [handle EXCEPT ![h].got = Append(@, data[Len(x.got) + 1])]
    /\ UNCHANGED <<files, Connection>>

(* One block after the other; past the end there is io.EOF and nothing.    *)
ReadAt(h) ==
    /\ Has(h, "read")
    /\ Len(handle[h].got) < Len(handle[h].data)
    /\ handle' = [handle EXCEPT ![h].got =
                      Append(@, handle[h].data[Len(@) + 1])]
    /\ UNCHANGED <<files, Connection>>

Filewrite(h, p) ==
    Opens(h, [kind |-> "write", path |-> p, data |-> <<>>,
              written |-> [i \in 0 .. MaxBlocks - 1 |-> Nil]])

(* Mutants: the gap is left undefined; the grown buffer is not filled from *)
(* the old one.                                                            *)
GrownUnset(data, end) ==
    IF end > Len(data)
    THEN data \o [i \in 1 .. (end - Len(data)) |-> Nil]
    ELSE data

GrownEmpty(data, end) ==
    IF end > Len(data) THEN [i \in 1 .. end |-> Zero] ELSE data

Grown(data, end) ==
    IF end > Len(data)
    THEN data \o [i \in 1 .. (end - Len(data)) |-> Zero]
    ELSE data

(* sftp serves the writes of an upload with several workers: the blocks of *)
(* a file come in any order, each once.                                    *)
WriteAt(h, off, b) ==
    /\ Has(h, "write") /\ handle[h].written[off] = Nil
    /\ handle' = [handle EXCEPT
          ![h].data = [Grown(@, off + 1) EXCEPT ![off + 1] = b],
          ![h].written[off] = b]
    /\ UNCHANGED <<files, Connection>>

(* Close, by the client or because the channel broke off: an upload takes  *)
(* its place in the store, as far as it got.                               *)
Close(h) ==
    /\ handle[h] # Nil
    /\ LET rest == [handle EXCEPT ![h] = Nil]
           x    == handle[h]
       IN  IF x.kind = "write"
           THEN StoreBecomes(
                  [files EXCEPT ![x.path] = [name |-> x.path, content |-> x.data]],
                  [InPlace EXCEPT ![x.path] = Nil], rest)
           ELSE handle' = rest /\ UNCHANGED files
    /\ UNCHANGED Connection

(* The store ranges over a map: a listing has its files in any order.      *)
Orders(S) ==
    {s \in [1 .. Cardinality(S) -> S] : \A i, j \in DOMAIN s : i # j => s[i] # s[j]}

Lister(ps) ==
    [kind |-> "list", shown |-> <<>>, still |-> {ps[i] : i \in DOMAIN ps},
     entries |-> [i \in DOMAIN ps |-> [at |-> ps[i], name |-> Nil]]]

Filelist(h) ==
    \E ps \in Orders({p \in Paths : files[p] # Nil}) : Opens(h, Lister(ps))

Stat(h, p) == files[p] # Nil /\ Opens(h, Lister(<<p>>))

(* Mutant: the next batch begins with the last entry of this one.          *)
ListAtAgain(h) ==
    /\ Has(h, "list")
    /\ LET x == handle[h]
           n == Len(x.shown)
           from == IF n = 0 THEN 1 ELSE n
           to == IF n + Batch <= Len(x.entries) THEN n + Batch ELSE Len(x.entries)
       IN  /\ n < Len(x.entries)
           /\ handle' = [handle EXCEPT ![h].shown =
                 @ \o [i \in 1 .. (to - n) |-> NameOf(x.entries[from + i - 1])]]
    /\ UNCHANGED <<files, Connection>>

(* The names are read now, without the mutex: after a rename, the new one. *)
ListAt(h) ==
    /\ Has(h, "list")
    /\ LET x == handle[h]
           n == Len(x.shown)
           to == IF n + Batch <= Len(x.entries) THEN n + Batch ELSE Len(x.entries)
       IN  /\ n < Len(x.entries)
           /\ handle' = [handle EXCEPT ![h].shown =
                 @ \o [i \in 1 .. (to - n) |-> NameOf(x.entries[n + i])]]
    /\ UNCHANGED <<files, Connection>>

Remove(p) ==
    /\ phase = "open" /\ files[p] # Nil
    /\ StoreBecomes([files EXCEPT ![p] = Nil], [InPlace EXCEPT ![p] = Nil], handle)
    /\ UNCHANGED Connection

(* Mutant: the file keeps its name.                                        *)
RenameMapOnly(p, q) ==
    /\ phase = "open" /\ files[p] # Nil
    /\ StoreBecomes([files EXCEPT ![q] = files[p], ![p] = Nil],
                    [InPlace EXCEPT ![q] = Nil, ![p] = IF p = q THEN Nil ELSE q],
                    handle)
    /\ UNCHANGED Connection

(* The new path is set before the old one is deleted: a file renamed to    *)
(* itself is gone.                                                         *)
Rename(p, q) ==
    /\ phase = "open" /\ files[p] # Nil
    /\ StoreBecomes([files EXCEPT ![q] = [files[p] EXCEPT !.name = q], ![p] = Nil],
                    [InPlace EXCEPT ![q] = Nil, ![p] = IF p = q THEN Nil ELSE q],
                    handle)
    /\ UNCHANGED Connection

SftpInit ==
    /\ served \in Configs \cup {Nil}
    /\ hostKey = KeyOf(served)
    /\ phase = "closed" /\ config = Nil /\ since = {}
    /\ files = [p \in Paths |-> Nil]
    /\ handle = [h \in Channels |-> Nil]

SftpNext ==
    \/ Start \/ Accept \/ FetchConfig \/ Disconnect
    \/ \E c \in Configs \cup {Nil} : Configure(c)
    \/ \E login \in Logins : Handshake(login)
    \/ \E h \in Channels : ReadAt(h) \/ ListAt(h) \/ Close(h) \/ Filelist(h)
    \/ \E h \in Channels, p \in Paths : Fileread(h, p) \/ Filewrite(h, p) \/ Stat(h, p)
    \/ \E h \in Channels, off \in 0 .. MaxBlocks - 1, b \in Uploaded : WriteAt(h, off, b)
    \/ \E p \in Paths : Remove(p)
    \/ \E p, q \in Paths : Rename(p, q)

SftpSpec == SftpInit /\ [][SftpNext]_sftpVars

-----------------------------------------------------------------------------

(* A file is filed under the name it carries, so under one path only:      *)
(* what a listing or a stat says of a file is where it can be read.        *)
NamesAgree ==
    \A p \in Paths : files[p] # Nil => files[p].name = p

(* What an upload sent, said without its order.                            *)
Assembled(written) ==
    LET offsets == {i \in DOMAIN written : written[i] # Nil}
        n == IF offsets = {} THEN 0
             ELSE 1 + CHOOSE i \in offsets : \A j \in offsets : j <= i
    IN  [i \in 1 .. n |-> IF written[i - 1] = Nil THEN Zero ELSE written[i - 1]]

(* Whatever the order of its writes, an upload that is closed leaves under *)
(* its path every block at its offset, zeros in the gaps and nothing else. *)
UploadsArriveWhole ==
    [][ \A h \in Channels :
          Has(h, "write") /\ handle'[h] = Nil /\ phase' = "open" =>
             LET x == handle[h]
             IN  files'[x.path].content = Assembled(x.written) ]_sftpVars

Versions ==
    (UNION {{c.files[p] : p \in DOMAIN c.files} : c \in Configs})
    \cup {Assembled(w) : w \in [0 .. MaxBlocks - 1 -> Uploaded \cup {Nil}]}

(* A download that has come to its end is a file that was configured, or   *)
(* one upload: never parts of two, however often the file is replaced,     *)
(* renamed or removed while it is read.                                    *)
DownloadsAreWhole ==
    \A h \in Channels :
        Has(h, "read") /\ Len(handle[h].got) = Len(handle[h].data) =>
            handle[h].got \in Versions

(* A listing that has come to its end has shown each file that nobody      *)
(* touched meanwhile, and shown it once, in whatever batches it was read   *)
(* and whatever was renamed, replaced or removed around it.                *)
ListingComplete ==
    \A h \in Channels :
        Has(h, "list") /\ Len(handle[h].shown) = Len(handle[h].entries) =>
            \A p \in handle[h].still :
                Cardinality({i \in DOMAIN handle[h].shown :
                                handle[h].shown[i] = p}) = 1

(* A connection starts with the files of a configuration that was in force *)
(* while it was being set up, not of an earlier one or of an upload.       *)
FilesWereServed ==
    [][ phase # "open" /\ phase' = "open" =>
          \E c \in since :
             \A p \in Paths :
                IF p \in DOMAIN c.files
                THEN files'[p] # Nil /\ files'[p].content = c.files[p]
                ELSE files'[p] = Nil ]_sftpVars

=============================================================================
