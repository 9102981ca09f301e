----------------------------- MODULE MCTurnQueue -----------------------------
(***************************************************************************)
(* TurnQueue for TLC: two prompts of the user and two background agents    *)
(* that compete for one slot.  Prompts are interchangeable, and so are     *)
(* agents: the safety run uses that symmetry.  It is not sound for         *)
(* liveness, where the run numbers prompts and agents as they come:        *)
(* every behaviour is one of these but for names.                          *)
(***************************************************************************)
EXTENDS TurnQueue, TLC

CONSTANTS p1, p2, b1, b2

Numbered ==
  /\ outcome[p2] # "new" => outcome[p1] # "new"
  /\ bg[b2] # "none" => bg[b1] # "none"

Symmetry == Permutations(Prompts) \cup Permutations(Runs)
=============================================================================
