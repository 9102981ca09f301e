--------------------------- MODULE MCSessionSwitch ---------------------------
(* SessionSwitch for TLC: two processes, each in a session of its own, and  *)
(* one that nobody is in.                                                   *)
EXTENDS SessionSwitch, TLC
CONSTANTS p, q, a, b, c
MCFirst == p :> a @@ q :> b
=============================================================================
