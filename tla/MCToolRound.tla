----------------------------- MODULE MCToolRound -----------------------------
(* ToolRound for TLC: a read, an agent whose arguments may fail to parse,   *)
(* and a write, over up to two attempts of the stream: every kind of entry, *)
(* every order, batches of two, and lists that drop, change or append calls.*)
(* All three may come in the first attempt; once it has failed, at most two *)
(* of them take part in what both attempts do.                              *)
EXTENDS ToolRound

CONSTANTS r, g, w, i1, i2, none

MCInputs == {i1, i2}

MCCalls == {r, g, w}

MCKind ==
  [p \in MCCalls \X MCInputs |->
     CASE p[1] = r -> "read"
       [] p[1] = w -> "write"
       [] p = <<g, i1>> -> "agent"
       [] OTHER -> "error"]

RetriesOfTwo ==
  epoch = 0 \/
  Cardinality(Ids(announced) \cup {c \in MCCalls : \E x \in Executions :
                                     x[2] = c /\ stage[x] # "none"}) <= 2
=============================================================================
