--------------------------- MODULE MCControlPlane ---------------------------
(***************************************************************************)
(* Instances of ControlPlane.  To spend the requests of a run on what it   *)
(* is about, most start where Init leads by createScenario and two         *)
(* addAdapter requests: a scenario of a REST and an SFTP adapter.          *)
(***************************************************************************)
EXTENDS ControlPlane, TLC

CONSTANTS g1, p1, p2

(* The request slots are interchangeable: sound without liveness.          *)
SlotSymmetry == Permutations({p1, p2})

NoGithub == {}
NoManifest == [g \in {} |-> <<>>]

OneGithub == {g1}
OneManifest ==
    [g \in OneGithub |-> << [name |-> "a", type |-> "REST", key |-> Nil],
                            [name |-> "b", type |-> "SFTP", key |-> UserKey] >>]

First  == NewAdapter(NewAdapterId(Epoch, "REST", Epoch + 1), "a", "REST", Nil)
Second == LET id == NewAdapterId(Epoch, "SFTP", Epoch + 2)
          IN  NewAdapter(id, "b", "SFTP", id)

(* The first addAdapter made an array of one, the second one of two.       *)
Populated ==
    /\ catalog = [sid \in ScenarioIds |-> IF sid = Epoch THEN 1 ELSE Nil]
    /\ object = [o \in Objects |->
          IF o = 1 THEN [arr |-> 2, len |-> 2, name |-> "given",
                        status |-> "stopped", source |-> ""]
          ELSE Nil]
    /\ array = [a \in Arrays |->
          CASE a = 1 -> <<First>> [] a = 2 -> <<First, Second>> [] OTHER -> <<>>]
    /\ ClusterInit
    /\ local = [p \in Processes |-> Ready]
    /\ snapshot = {}
    /\ unloaded = {}
    /\ clock = Epoch + 3
    /\ issued = 0
    /\ steady = {}

(* Or two scenarios, the first with two adapters.                          *)
FirstTwo ==
    [i \in 1 .. 2 |-> NewAdapter(<<Epoch, "REST", Epoch + i>>,
                                 IF i = 1 THEN "a" ELSE "b", "REST", Nil)]

Other == NewAdapter(<<Epoch + 3, "REST", Epoch + 4>>, "c", "REST", Nil)

Pair ==
    /\ catalog = [sid \in ScenarioIds |->
          CASE sid = Epoch -> 1 [] sid = Epoch + 3 -> 2 [] OTHER -> Nil]
    /\ object = [o \in Objects |->
          IF o > 2 THEN Nil
          ELSE [arr |-> o + 1, len |-> 3 - o, name |-> "given",
                        status |-> "stopped", source |-> ""]]
    /\ array = [a \in Arrays |->
          CASE a = 1 -> SubSeq(FirstTwo, 1, 1) [] a = 2 -> FirstTwo
            [] a = 3 -> <<Other>> [] OTHER -> <<>>]
    /\ ClusterInit
    /\ local = [p \in Processes |-> Ready]
    /\ snapshot = {}
    /\ unloaded = {}
    /\ clock = Epoch + 5
    /\ issued = 0
    /\ steady = {}

PairSpec == Pair /\ [][Next]_vars

(* Or three SFTP adapters, in an array of four that the third one opened.  *)
Sftps ==
    [i \in 1 .. 3 |->
        LET id == <<Epoch, "SFTP", Epoch + i>>
        IN  NewAdapter(id, CASE i = 1 -> "a" [] i = 2 -> "b" [] i = 3 -> "c",
                       "SFTP", id)]

Trio ==
    /\ catalog = [sid \in ScenarioIds |-> IF sid = Epoch THEN 1 ELSE Nil]
    /\ object = [o \in Objects |->
          IF o = 1 THEN [arr |-> 3, len |-> 3, name |-> "given",
                        status |-> "stopped", source |-> ""]
          ELSE Nil]
    /\ array = [a \in Arrays |->
          CASE a = 1 -> SubSeq(Sftps, 1, 1) [] a = 2 -> SubSeq(Sftps, 1, 2)
            [] a = 3 -> Append(Sftps, Nil) [] OTHER -> <<>>]
    /\ ClusterInit
    /\ local = [p \in Processes |-> Ready]
    /\ snapshot = {}
    /\ unloaded = {}
    /\ clock = Epoch + 4
    /\ issued = 0
    /\ steady = {}

TrioSpec == Trio /\ [][Next]_vars

MCSpec == Populated /\ [][Next]_vars

MCFairSpec == MCSpec /\ Fairness

=============================================================================
