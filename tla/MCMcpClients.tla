---------------------------- MODULE MCMcpClients ----------------------------
(* McpClients for TLC: servers s1 and s2, whose sanitized names coincide,   *)
(* and s3, which is alone with its name.                                   *)
EXTENDS McpClients, TLC

CONSTANTS s1, s2, s3, nameOf12, nameOf3

MCPrefix  == [s \in Servers |-> IF s = s3 THEN nameOf3 ELSE nameOf12]
MCEarlier == [s \in Servers |-> CASE s = s1 -> {} [] s = s2 -> {s1}
                                   [] OTHER -> {s1, s2} \cap Servers]

\* The properties say nothing of a state in which two activities have met.
Uncrossed == ~crossed

Symmetry == Permutations(Actions)
=============================================================================
