-------------------------- MODULE MCCheckpointStore --------------------------
(***************************************************************************)
(* CheckpointStore for TLC: files and contents are interchangeable, and    *)
(* the instance is the union of three.                                     *)
(***************************************************************************)
EXTENDS CheckpointStore, TLC

Symmetry == Permutations(Paths) \cup Permutations(Contents)

\* The files anything has happened to.
Touched == {records[i].path : i \in Seqs("pre") \cup Seqs("post")}
           \cup {op[w].path : w \in {v \in Writers : op[v] # NoOp}}
           \cup {p \in Paths : by[p] # "agent"}

\* One turn and one restore of every file, with an edit, a fault and a crash;
\* or two turns and one restore of every file, with a crash only; or a history
\* of turns and restores of one file, without faults and crashes.
Scope ==
  \/ turn <= 1 /\ spent.restores <= 1
  \/ spent.restores <= 1 /\ spent.edits + spent.faults = 0
  \/ Cardinality(Touched) <= 1 /\ spent.faults + spent.crashes = 0
==============================================================================
