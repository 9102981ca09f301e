--------------------------- MODULE MCHelperProcess ---------------------------
(* HelperProcess for TLC: three requests, each of which may spawn a process *)
(* of its own, so that a helper can be lost and replaced while one request  *)
(* drains and another waits behind it.                                     *)
EXTENDS HelperProcess
=============================================================================
