-------------------------- MODULE MCAgentHandoff --------------------------
(* Instances of AgentHandoff for TLC. *)
EXTENDS AgentHandoff

CONSTANTS t1, t2, b1, n1, m1

MCParent == (n1 :> t1)

===========================================================================
