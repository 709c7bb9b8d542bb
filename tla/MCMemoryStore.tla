---------------------------- MODULE MCMemoryStore ---------------------------
(***************************************************************************)
(* The store alone, under arbitrary callers.  TLC explores every shape of  *)
(* the heap its bounds allow; the data in it is kept small by exploring on *)
(* only from states in which few fields of few adapters have left their    *)
(* initial values.                                                         *)
(***************************************************************************)
EXTENDS MemoryStore, FiniteSets

CONSTANTS g1, MaxLen

MCGithubIds == {g1}
MCManifest == [g \in MCGithubIds |-> << [name |-> "a", type |-> "REST", key |-> Nil] >>]

Marks ==
    LET Slot == UNION { {a} \X (1 .. Len(array[a])) : a \in Arrays }
        Used == {s \in Slot : array[s[1]][s[2]] # Nil}
        At(s) == array[s[1]][s[2]]
    IN  {s \in Used : At(s).status # "stopped"} \X {"status"}
        \cup {s \in Used : At(s).last # "never"} \X {"last"}
        \cup {s \in Used : At(s).url # "none"} \X {"url"}
        \cup {s \in Used : At(s).key = UserKey} \X {"key"}
        \cup { <<<<o, 0>>, "scenario">> : o \in
                 {p \in Objects : object[p] # Nil /\ object[p].status # "stopped"} }
        \cup { <<<<o, 0>>, "name">> : o \in
                 {p \in Objects : object[p] # Nil /\ object[p].name # "given"} }

(* One mark, and none by the time the last array is in use: the runs that  *)
(* grow a slice twice are about the shape of the heap only.                *)
FewMarks ==
    /\ Cardinality(Marks) <= IF array[MaxArrays] = <<>> THEN 1 ELSE 0
    /\ \A o \in Objects : object[o] # Nil => object[o].len <= MaxLen

=============================================================================
