---------------------------- MODULE MCSftpFiles -----------------------------
(***************************************************************************)
(* An instance of SftpFiles: two paths, two channels, an adapter that is   *)
(* edited between two configurations and a broken one.                     *)
(***************************************************************************)
EXTENDS SftpFiles, TLC

CONSTANTS h1, h2

MCPaths == {"a", "b"}

Filled == [files |-> ("a" :> <<"old", "old">>) @@ ("b" :> <<"old">>),
           mode |-> "success", credentials |-> "pw", publicKey |-> "pk",
           hostKey |-> "k"]

Failing == [files |-> [p \in {} |-> <<>>], mode |-> "failure",
            credentials |-> Nil, publicKey |-> Nil, hostKey |-> "k"]

MCConfigs == {Filled, Failing}

MCLogins == [method : {"password"}, secret : {"pw", "no"}]
            \cup [method : {"publickey"}, secret : {"pk"}]

Symmetry == Permutations(Channels)

=============================================================================
