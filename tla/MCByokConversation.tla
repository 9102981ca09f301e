------------------------- MODULE MCByokConversation -------------------------
(* ByokConversation for TLC: the process that made the session and one that *)
(* resumes it, and up to two threads, the second made by a compaction.      *)
EXTENDS ByokConversation
=============================================================================
