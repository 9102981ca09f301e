--------------------------- MODULE ToolRoundProofs ---------------------------
(***************************************************************************)
(* Proofs about ToolRound, for every set of calls, every classification    *)
(* of them and every number of retries.                                    *)
(*                                                                         *)
(* The inductive invariant is IInv: types, the bookkeeping of RoundInv,    *)
(* and ReadsStayBehind itself.  Only Offer can put a call into inFlight,   *)
(* and only Announce, Offer and Finalize lengthen the stream, always       *)
(* behind what is there; Cleanup empties both.                             *)
(***************************************************************************)
EXTENDS ToolRound, TLAPS, SequenceTheorems, WellFoundedInduction

IInv == TypeOK /\ RoundInv /\ ReadsStayBehind

(* The position finalize stops at exists: it is the first entry, from k    *)
(* on, that cannot join a batch, or the position after the list; what is   *)
(* before it can join.                                                     *)
LEMMA BatchEndExists ==
  ASSUME NEW p \in Seq(Entries), NEW k \in 1..(Len(p) + 1)
  PROVE  /\ BatchEnd(p, k) \in k..(Len(p) + 1)
         /\ BatchEnd(p, k) <= Len(p) =>
              ~Safe(p[BatchEnd(p, k)].id, p[BatchEnd(p, k)].input)
         /\ \A l \in k..(BatchEnd(p, k) - 1) : Safe(p[l].id, p[l].input)
<1> DEFINE Stops == {m \in k..(Len(p) + 1) :
                       m <= Len(p) => ~Safe(p[m].id, p[m].input)}
<1>1. Len(p) \in Nat
  OBVIOUS
<1>2. Stops \subseteq Nat /\ Len(p) + 1 \in Stops
  BY <1>1
<1>3. PICK m \in Stops : \A l \in Stops : ~(<<l, m>> \in OpToRel(<, Nat))
  <2> HIDE DEF Stops
  <2> QED
    BY <1>2, NatLessThanWellFounded, WFMin
<1>4. \A l \in k..(m - 1) : Safe(p[l].id, p[l].input)
  <2> SUFFICES ASSUME NEW l \in k..(m - 1), ~Safe(p[l].id, p[l].input)
               PROVE  FALSE
    OBVIOUS
  <2>0. m \in k..(Len(p) + 1)
    OBVIOUS
  <2>1. l \in Stops
    BY <1>1, <2>0
  <2>2. l < m /\ l \in Nat /\ m \in Nat
    BY <1>1, <2>0
  <2>3. <<l, m>> \in OpToRel(<, Nat)
    BY <2>2 DEF OpToRel
  <2> QED
    BY <2>1, <2>3, <1>3
<1>5. /\ m \in k..(Len(p) + 1)
      /\ m <= Len(p) => ~Safe(p[m].id, p[m].input)
      /\ \A l \in k..(m - 1) : Safe(p[l].id, p[l].input)
  BY <1>4
<1> QED
  BY <1>5 DEF BatchEnd

(* An entry that is not safe is a write or an error, and conversely.       *)
LEMMA KindOfEntry ==
  ASSUME NEW c \in Calls, NEW i \in Inputs
  PROVE  Kind[<<c, i>>] \in Kinds
BY RoundAssumption

LEMMA ExecutionType ==
  ASSUME epoch \in 0..(MaxRetries + 1), epoch <= MaxRetries, NEW c \in Calls
  PROVE  Early(c) \in Executions /\ Main(c) \in Executions
BY RoundAssumption DEF Early, Main, Executions

(* The store keeps one well-formed row per call.                           *)
LEMMA RowsType ==
  ASSUME NEW r \in [Calls -> Rows], NEW S, NEW c \in Calls
  PROVE  /\ RowsPending(r, S) \in [Calls -> Rows]
         /\ RowsStart(r, c) \in [Calls -> Rows]
         /\ RowsTerminal(r, c) \in [Calls -> Rows]
         /\ RowsRetract(r, S) \in [Calls -> Rows]
BY DEF Rows, RowsPending, RowsStart, RowsTerminal, RowsRetract

LEMMA InitIInv == Init => IInv
<1> SUFFICES ASSUME Init PROVE IInv
  OBVIOUS
<1> USE DEF Init
<1>1. TypeOK
  <2>1. announced \in Seq(Calls) /\ plan \in Seq(Entries)
    OBVIOUS
  <2>2. /\ stage \in [Executions -> Stages]
        /\ ran \in [Executions -> Inputs \cup {NoInput}]
        /\ rows \in [Calls -> Rows]
        /\ offered \in [Calls -> Inputs \cup {NoInput}]
        /\ phase \in Phases
    BY DEF Stages, Rows, Phases
  <2>3. epoch \in 0..(MaxRetries + 1)
    BY RoundAssumption
  <2>4. DOMAIN completedOutputs = {}
    OBVIOUS
  <2> QED
    BY <2>1, <2>2, <2>3, <2>4 DEF TypeOK
<1>2. RoundInv
  BY RoundAssumption DEF RoundInv
<1>3. ReadsStayBehind
  BY DEF ReadsStayBehind
<1> QED
  BY <1>1, <1>2, <1>3 DEF IInv

(* Cleanup leaves an empty stream, so nothing about it can be wrong.       *)
LEMMA CleanupStream ==
  ASSUME IInv, phase \notin {"done", "closed"}, NEW S, Cleanup(S)
  PROVE  /\ announced' \in Seq(Calls)
         /\ offered' \in [Calls -> Inputs \cup {NoInput}]
         /\ inFlight' \subseteq Calls
         /\ settledIds' \subseteq Calls
         /\ epoch' \in 0..(MaxRetries + 1)
         /\ epoch < MaxRetries => epoch' <= MaxRetries
         /\ discarded' \subseteq Executions
         /\ rows' \in [Calls -> Rows]
         /\ \A c \in inFlight' : offered'[c] # NoInput
         /\ \A c \in Calls : offered'[c] = NoInput
         /\ ReadsStayBehind'
<1> USE DEF Cleanup
<1>1. epoch \in 0..MaxRetries
  BY RoundAssumption DEF IInv, TypeOK, RoundInv
<1>2. discarded' \subseteq Executions
  BY <1>1, ExecutionType DEF IInv, TypeOK
<1>3. rows' \in [Calls -> Rows]
  <2>1. rows \in [Calls -> Rows]
    BY DEF IInv, TypeOK
  <2>2. CASE Calls = {}
    BY <2>1, <2>2 DEF RowsRetract
  <2>3. CASE Calls # {}
    BY <2>1, <2>3, RowsType
  <2> QED
    BY <2>2, <2>3
<1>4. epoch' \in 0..(MaxRetries + 1) /\ (epoch < MaxRetries => epoch' <= MaxRetries)
  BY <1>1, RoundAssumption
<1>5. ReadsStayBehind'
  BY DEF ReadsStayBehind
<1>6. /\ announced' \in Seq(Calls)
      /\ offered' \in [Calls -> Inputs \cup {NoInput}]
      /\ inFlight' = {}
      /\ settledIds' = {}
      /\ \A c \in Calls : offered'[c] = NoInput
  OBVIOUS
<1> QED
  BY <1>2, <1>3, <1>4, <1>5, <1>6

(* Whatever finalize starts, reuses and discards from position k is well   *)
(* formed, and only leaves fewer calls in flight.                          *)
LEMMA ContinueType ==
  ASSUME IInv, epoch <= MaxRetries,
         NEW p \in Seq(Entries), NEW k \in 1..(Len(p) + 1), ContinueFrom(p, k)
  PROVE  /\ phase' \in {"batch", "failed"}
         /\ next' \in Nat
         /\ phase' = "batch" => next' \in 1..(Len(p) + 1)
         /\ batch' \subseteq Executions
         /\ stage' \in [Executions -> Stages]
         /\ ran' \in [Executions -> Inputs \cup {NoInput}]
         /\ discarded' \subseteq Executions
         /\ inFlight' \subseteq inFlight
         /\ \A x \in batch' : ran'[x] \in Inputs
<1> USE DEF IInv, TypeOK
<1>1. CASE k <= Len(p) /\ turnAborted
  BY <1>1 DEF ContinueFrom, RoundInv
<1>2. CASE ~(k <= Len(p) /\ turnAborted)
  <2> DEFINE end     == BatchEnd(p, k)
             members == k..(end - 1)
             visited == members \cup ({end} \cap DOMAIN p)
             reused  == {m \in members : Reusable(p, m)}
             started == {Main(p[m].id) : m \in members \ reused}
  <2>1. RunBatchFrom(p, k)
    BY <1>2 DEF ContinueFrom
  <2>2. end \in k..(Len(p) + 1)
    BY BatchEndExists
  <2>3. Len(p) \in Nat /\ DOMAIN p = 1..Len(p)
    OBVIOUS
  <2>4. end \in 1..(Len(p) + 1)
    BY <2>2, <2>3
  <2>5. members \subseteq DOMAIN p /\ visited \subseteq DOMAIN p
    BY <2>2, <2>3
  <2>6. \A m \in visited : p[m].id \in Calls /\ p[m].input \in Inputs
    <3> SUFFICES ASSUME NEW m \in visited
                 PROVE  p[m].id \in Calls /\ p[m].input \in Inputs
      OBVIOUS
    <3>1. m \in 1..Len(p)
      BY <2>5, <2>3
    <3>2. p[m] \in Entries
      BY <3>1
    <3> QED
      BY <3>2 DEF Entries
  <2>7. started \subseteq Executions
    BY <2>6, ExecutionType
  <2>8. {Early(p[m].id) : m \in visited} \subseteq Executions
    BY <2>6, ExecutionType
  <2>9. /\ next' = end
        /\ phase' = "batch"
        /\ batch' = {Early(p[m].id) : m \in reused} \cup started
        /\ stage' = [x \in Executions |->
                       IF x \in started THEN "pre" ELSE stage[x]]
        /\ ran' = [x \in Executions |->
                     IF x \in started
                       THEN p[CHOOSE m \in members : Main(p[m].id) = x].input
                       ELSE ran[x]]
        /\ inFlight' = inFlight \ {p[m].id : m \in visited}
        /\ discarded' = discarded \cup
             {Early(p[m].id) : m \in {v \in visited \ reused :
                                        p[v].id \in inFlight}}
    BY <2>1, Zenon DEF RunBatchFrom
  <2>10. \A x \in started : ran'[x] \in Inputs
    <3> SUFFICES ASSUME NEW x \in started
                 PROVE  ran'[x] \in Inputs
      OBVIOUS
    <3>1. PICK m \in members : Main(p[m].id) = x
      OBVIOUS
    <3> DEFINE m0 == CHOOSE l \in members : Main(p[l].id) = x
    <3>2. m0 \in members
      BY <3>1
    <3>3. ran'[x] = p[m0].input
      BY <2>7, <2>9, Zenon
    <3> QED
      BY <2>6, <3>2, <3>3
  <2>11. \A m \in reused : ran[Early(p[m].id)] \in Inputs
    BY <2>6 DEF Reusable
  <2> HIDE DEF end, members, visited, reused, started
  <2>12. ran' \in [Executions -> Inputs \cup {NoInput}]
    BY <2>9, <2>10
  <2>13. reused \subseteq visited /\ members \subseteq visited
    BY DEF reused, visited
  <2>14. \A x \in batch' : ran'[x] \in Inputs
    BY <2>7, <2>8, <2>9, <2>10, <2>11, <2>13
  <2>15. batch' \subseteq Executions /\ discarded' \subseteq Executions
    BY <2>7, <2>8, <2>9, <2>13
  <2>16. stage' \in [Executions -> Stages]
    BY <2>9 DEF Stages
  <2>17. inFlight' \subseteq inFlight
    BY <2>9
  <2>18. /\ phase' \in {"batch", "failed"}
         /\ next' \in Nat
         /\ next' \in 1..(Len(p) + 1)
    BY <2>3, <2>4, <2>9
  <2> QED
    BY <2>12, <2>14, <2>15, <2>16, <2>17, <2>18
<1> QED
  BY <1>1, <1>2

(* A step that does not touch the stream and starts nothing early keeps    *)
(* what is known about it.                                                 *)
LEMMA StreamKept ==
  ASSUME IInv, inFlight' \subseteq inFlight,
         UNCHANGED <<announced, offered, earlyStartBlocked>>
  PROVE  /\ announced' \in Seq(Calls)
         /\ offered' \in [Calls -> Inputs \cup {NoInput}]
         /\ inFlight' \subseteq Calls
         /\ earlyStartBlocked' \in BOOLEAN
         /\ \A c \in inFlight' : offered'[c] # NoInput
         /\ \A c \in Calls : offered'[c] # NoInput =>
              /\ c \in Ids(announced')
              /\ earlyStartBlocked' \/ Safe(c, offered'[c])
         /\ ReadsStayBehind'
BY DEF IInv, TypeOK, RoundInv, ReadsStayBehind

(* The outputs of a batch answer positions of the plan with listed inputs. *)
LEMMA BatchOutputsType ==
  ASSUME IInv
  PROVE  /\ DOMAIN WithBatchOutputs \subseteq DOMAIN plan
         /\ \A k \in DOMAIN WithBatchOutputs : WithBatchOutputs[k] \in Entries
<1> USE DEF IInv, TypeOK
<1> DEFINE answered == {k \in DOMAIN plan : \E x \in batch :
                          x[2] = plan[k].id /\ stage[x] = "settled"}
           executionOf(k) == CHOOSE x \in batch : x[2] = plan[k].id
<1>1. \A k \in answered : executionOf(k) \in batch
  OBVIOUS
<1>2. \A x \in batch : OutputOf(x) \in Entries
  BY DEF OutputOf, Entries, Executions, RoundInv
<1>3. \A k \in answered : OutputOf(executionOf(k)) \in Entries
  BY <1>1, <1>2
<1> HIDE DEF executionOf
<1>4. WithBatchOutputs = [k \in answered \cup DOMAIN completedOutputs |->
                            IF k \in answered THEN OutputOf(executionOf(k))
                                              ELSE completedOutputs[k]]
  BY DEF WithBatchOutputs, executionOf
<1> QED
  BY <1>3, <1>4

LEMMA OutputType ==
  ASSUME NEW outputs, NEW k \in DOMAIN plan, NEW output \in Entries,
         DOMAIN outputs \subseteq DOMAIN plan,
         \A l \in DOMAIN outputs : outputs[l] \in Entries
  PROVE  /\ DOMAIN WithOutput(outputs, k, output) \subseteq DOMAIN plan
         /\ \A l \in DOMAIN WithOutput(outputs, k, output) :
              WithOutput(outputs, k, output)[l] \in Entries
BY DEF WithOutput

LEMMA AnnounceStep == ASSUME IInv, NEW c \in Calls, Announce(c) PROVE IInv'
<1> USE DEF Announce
<1>1. TypeOK'
  <2>1. announced' \in Seq(Calls)
    BY DEF IInv, TypeOK
  <2>2. rows' \in [Calls -> Rows]
    BY RowsType DEF IInv, TypeOK
  <2> QED
    BY <2>1, <2>2 DEF IInv, TypeOK, finalizeVars, execVars
<1>2. /\ Len(announced') = Len(announced) + 1
      /\ DOMAIN announced' = 1..(Len(announced) + 1)
      /\ \A k \in 1..Len(announced) : announced'[k] = announced[k]
      /\ announced'[Len(announced) + 1] = c
      /\ DOMAIN announced = 1..Len(announced)
      /\ Len(announced) \in Nat
  BY DEF IInv, TypeOK
<1>3. Ids(announced) \subseteq Ids(announced')
  BY <1>2 DEF Ids
<1>4. RoundInv'
  BY <1>3 DEF IInv, TypeOK, RoundInv, finalizeVars, execVars
<1>5. c \notin inFlight
  BY DEF IInv, TypeOK, RoundInv
<1>6. ReadsStayBehind'
  <2> SUFFICES ASSUME NEW k \in DOMAIN announced', NEW m \in DOMAIN announced',
                      k < m, announced'[m] \in inFlight
               PROVE  /\ offered[announced'[k]] # NoInput
                      /\ Safe(announced'[k], offered[announced'[k]])
    BY DEF ReadsStayBehind
  <2>1. m \in 1..Len(announced) /\ k \in 1..Len(announced)
    BY <1>2, <1>5
  <2> QED
    BY <1>2, <2>1 DEF IInv, ReadsStayBehind
<1> QED
  BY <1>1, <1>4, <1>6 DEF IInv

(* The only step that starts a call early: the whole stream before it has  *)
(* been offered, and no offer so far was of a call that is not safe.       *)
LEMMA OfferStep ==
  ASSUME IInv, NEW c \in Calls, NEW i \in Inputs, Offer(c, i)
  PROVE  IInv'
<1> DEFINE starts == Startable(c, i, announced', offered')
<1>1. /\ phase = "streaming"
      /\ offered[c] = NoInput
      /\ offered' = [offered EXCEPT ![c] = i]
      /\ announced' = IF c \in Ids(announced) THEN announced
                                              ELSE Append(announced, c)
      /\ rows' = RowsPending(rows, {c})
      /\ earlyStartBlocked' = (earlyStartBlocked \/ ~Safe(c, i))
      /\ starts => /\ inFlight' = inFlight \cup {c}
                   /\ stage' = [stage EXCEPT ![Early(c)] = "pre"]
                   /\ ran' = [ran EXCEPT ![Early(c)] = i]
      /\ ~starts => UNCHANGED <<inFlight, stage, ran>>
      /\ UNCHANGED <<settledIds, completedOutputs, epoch, phase, plan, next,
                     batch, discarded, turnAborted>>
  BY DEF Offer, finalizeVars
<1> HIDE DEF starts
<1>2. epoch <= MaxRetries
  BY <1>1 DEF IInv, RoundInv
<1>3. TypeOK'
  <2>1. announced' \in Seq(Calls)
    BY <1>1 DEF IInv, TypeOK
  <2>2. rows' \in [Calls -> Rows]
    BY <1>1, RowsType DEF IInv, TypeOK
  <2>3. /\ stage' \in [Executions -> Stages]
        /\ ran' \in [Executions -> Inputs \cup {NoInput}]
    BY <1>1 DEF IInv, TypeOK, Stages
  <2>4. offered' \in [Calls -> Inputs \cup {NoInput}] /\ inFlight' \subseteq Calls
    BY <1>1 DEF IInv, TypeOK
  <2>5. earlyStartBlocked' \in BOOLEAN
    BY <1>1, Zenon DEF IInv, TypeOK
  <2> QED
    BY <1>1, <2>1, <2>2, <2>3, <2>4, <2>5 DEF IInv, TypeOK
<1>4. /\ Len(announced) \in Nat
      /\ DOMAIN announced = 1..Len(announced)
      /\ Len(announced) <= Len(announced')
      /\ Len(announced') <= Len(announced) + 1
      /\ DOMAIN announced' = 1..Len(announced')
      /\ \A k \in DOMAIN announced : announced'[k] = announced[k]
      /\ \A k \in DOMAIN announced' : k \notin DOMAIN announced => announced'[k] = c
      /\ \A k \in DOMAIN announced' : announced'[k] \in Calls
      /\ c \in Ids(announced')
  BY <1>1 DEF IInv, TypeOK, Ids
<1>5. Ids(announced) \subseteq Ids(announced')
  BY <1>4 DEF Ids
<1>6. \A d \in Calls : offered'[d] # NoInput =>
        /\ d \in Ids(announced')
        /\ earlyStartBlocked' \/ Safe(d, offered'[d])
  <2> SUFFICES ASSUME NEW d \in Calls, offered'[d] # NoInput
               PROVE  /\ d \in Ids(announced')
                      /\ earlyStartBlocked' \/ Safe(d, offered'[d])
    OBVIOUS
  <2>1. CASE d = c
    <3>1. offered'[d] = i
      BY <1>1, <2>1 DEF IInv, TypeOK
    <3> QED
      BY <1>1, <1>4, <2>1, <3>1, Zenon
  <2>2. CASE d # c
    <3>1. offered'[d] = offered[d]
      BY <1>1, <2>2 DEF IInv, TypeOK
    <3>2. d \in Ids(announced) /\ (earlyStartBlocked \/ Safe(d, offered[d]))
      BY <3>1 DEF IInv, RoundInv
    <3> QED
      BY <1>1, <1>5, <3>1, <3>2, Zenon
  <2> QED
    BY <2>1, <2>2
<1>7. \A d \in inFlight' : offered'[d] # NoInput
  BY <1>1, RoundAssumption DEF IInv, TypeOK, RoundInv
<1>8. RoundInv'
  <2>1. \A x \in batch : ran'[x] \in Inputs
    BY <1>1 DEF IInv, TypeOK, RoundInv
  <2> QED
    BY <1>1, <1>2, <1>6, <1>7, <2>1 DEF RoundInv
<1>9. ReadsStayBehind'
  <2> SUFFICES ASSUME NEW k \in DOMAIN announced', NEW m \in DOMAIN announced',
                      k < m, announced'[m] \in inFlight'
               PROVE  /\ offered'[announced'[k]] # NoInput
                      /\ Safe(announced'[k], offered'[announced'[k]])
    BY DEF ReadsStayBehind
  <2>1. CASE starts
    <3>1. ~earlyStartBlocked /\ Safe(c, i) /\ AllOffered(announced', offered')
      BY <2>1 DEF starts, Startable
    <3>2. offered'[announced'[k]] # NoInput
      BY <3>1 DEF AllOffered
    <3>3. ~earlyStartBlocked'
      BY <1>1, <3>1, Zenon
    <3> QED
      BY <1>4, <1>6, <3>2, <3>3
  <2>2. CASE ~starts
    <3>1. announced'[m] \in inFlight
      BY <1>1, <2>2
    <3>2. c \notin inFlight
      BY <1>1 DEF IInv, TypeOK, RoundInv
    <3>3. m \in DOMAIN announced /\ k \in DOMAIN announced
      BY <1>4, <3>1, <3>2
    <3>4. announced[m] \in inFlight /\ announced'[k] = announced[k]
      BY <1>4, <3>1, <3>3
    <3>5. /\ offered[announced[k]] # NoInput
          /\ Safe(announced[k], offered[announced[k]])
      BY <3>3, <3>4 DEF IInv, ReadsStayBehind
    <3>6. announced[k] # c /\ announced[k] \in Calls
      BY <1>1, <1>4, <3>3, <3>5
    <3>7. offered'[announced[k]] = offered[announced[k]]
      BY <1>1, <3>6 DEF IInv, TypeOK
    <3> QED
      BY <3>4, <3>5, <3>7
  <2> QED
    BY <2>1, <2>2
<1> QED
  BY <1>3, <1>8, <1>9 DEF IInv

(* reset(): on a retry, at the end of the stream, after an interruption.   *)
LEMMA ResetStep ==
  ASSUME IInv, StreamRetried \/ StreamEnded \/ InterruptedRoundReset
  PROVE  IInv'
<1>1. /\ Cleanup({})
      /\ completedOutputs' = <<>>
      /\ earlyStartBlocked' = FALSE
      /\ phase \notin {"done", "closed"}
      /\ \/ phase' = "closed"
         \/ epoch < MaxRetries /\ phase = "streaming" /\ phase' = phase
      /\ UNCHANGED <<plan, next, batch, stage, ran, turnAborted>>
  BY DEF StreamRetried, StreamEnded, InterruptedRoundReset, Reset, finalizeVars
<1>2. DOMAIN completedOutputs' = {}
  BY <1>1
<1>3. phase' \in Phases
  BY <1>1 DEF Phases
<1>4. TypeOK'
  BY <1>1, <1>2, <1>3, CleanupStream DEF IInv, TypeOK
<1>5. RoundInv'
  BY <1>1, CleanupStream DEF IInv, RoundInv
<1> QED
  BY <1>1, <1>4, <1>5, CleanupStream DEF IInv

(* finalize appends what was never streamed behind the stream, and its     *)
(* first stretch only takes calls out of flight.                           *)
LEMMA FinalizeStep ==
  ASSUME IInv, NEW p \in Plans, NEW n \in 0..Len(p), Finalize(p, n)
  PROVE  IInv'
<1> DEFINE extra == [k \in 1..(Len(p) - n) |-> p[n + k].id]
<1>1. p \in Seq(Entries)
  BY DEF Plans
<1>2. /\ phase = "streaming"
      /\ \A k \in DOMAIN p : k > n => p[k].id \notin Ids(announced)
      /\ plan' = p
      /\ announced' = announced \o extra
      /\ rows' = RowsPending(rows, PlanIds(p))
      /\ completedOutputs' = <<>>
      /\ ContinueFrom(p, 1)
      /\ UNCHANGED <<offered, settledIds, epoch, earlyStartBlocked, turnAborted>>
  BY DEF Finalize, ConsistentPlan
<1>3. epoch <= MaxRetries
  BY <1>2 DEF IInv, RoundInv
<1>4. Len(p) \in Nat /\ 1 \in 1..(Len(p) + 1) /\ DOMAIN p = 1..Len(p)
  BY <1>1
<1>5. /\ phase' \in {"batch", "failed"}
      /\ next' \in Nat
      /\ phase' = "batch" => next' \in 1..(Len(p) + 1)
      /\ batch' \subseteq Executions
      /\ stage' \in [Executions -> Stages]
      /\ ran' \in [Executions -> Inputs \cup {NoInput}]
      /\ discarded' \subseteq Executions
      /\ inFlight' \subseteq inFlight
      /\ \A x \in batch' : ran'[x] \in Inputs
  BY <1>1, <1>2, <1>3, <1>4, ContinueType
<1>6. \A k \in 1..(Len(p) - n) : extra[k] \in Calls /\ extra[k] \notin Ids(announced)
  <2> SUFFICES ASSUME NEW k \in 1..(Len(p) - n)
               PROVE  extra[k] \in Calls /\ extra[k] \notin Ids(announced)
    OBVIOUS
  <2>1. n + k \in DOMAIN p /\ n + k > n
    BY <1>4
  <2>2. p[n + k] \in Entries
    BY <1>1, <1>4, <2>1
  <2> QED
    BY <1>2, <2>1, <2>2 DEF Entries
<1>7. extra \in Seq(Calls) /\ Len(extra) = Len(p) - n
  BY <1>4, <1>6
<1> HIDE DEF extra
<1>8. /\ announced' \in Seq(Calls)
      /\ DOMAIN announced = 1..Len(announced)
      /\ Len(announced) \in Nat
      /\ \A k \in DOMAIN announced : announced'[k] = announced[k]
      /\ DOMAIN announced \subseteq DOMAIN announced'
      /\ \A k \in DOMAIN announced' :
           \/ k \in DOMAIN announced
           \/ \E l \in 1..(Len(p) - n) : announced'[k] = extra[l]
      /\ \A k \in DOMAIN announced' : k \in Int
  <2>1. announced \in Seq(Calls)
    BY DEF IInv, TypeOK
  <2>2. /\ announced' \in Seq(Calls)
        /\ Len(announced') = Len(announced) + Len(extra)
        /\ \A k \in 1..(Len(announced) + Len(extra)) :
             announced'[k] = IF k <= Len(announced) THEN announced[k]
                                                    ELSE extra[k - Len(announced)]
    BY <1>2, <1>7, <2>1, ConcatProperties
  <2>4. /\ DOMAIN announced = 1..Len(announced)
        /\ Len(announced) \in Nat /\ Len(extra) \in Nat
        /\ DOMAIN announced' = 1..Len(announced')
        /\ Len(announced) <= Len(announced')
    BY <1>4, <1>7, <2>1, <2>2
  <2>3. \A k \in DOMAIN announced' : k \notin DOMAIN announced =>
          /\ k - Len(announced) \in 1..(Len(p) - n)
          /\ announced'[k] = extra[k - Len(announced)]
    <3> SUFFICES ASSUME NEW k \in DOMAIN announced', k \notin DOMAIN announced
                 PROVE  /\ k - Len(announced) \in 1..(Len(p) - n)
                        /\ announced'[k] = extra[k - Len(announced)]
      OBVIOUS
    <3>1. k \in 1..(Len(announced) + Len(extra)) /\ k > Len(announced)
      BY <2>2, <2>4
    <3>2. announced'[k] = extra[k - Len(announced)]
      BY <2>2, <2>4, <3>1
    <3> QED
      BY <1>7, <2>4, <3>1, <3>2
  <2>5. \A k \in DOMAIN announced' :
           \/ k \in DOMAIN announced
           \/ \E l \in 1..(Len(p) - n) : announced'[k] = extra[l]
    BY <2>3, Zenon
  <2>6. \A k \in DOMAIN announced : announced'[k] = announced[k]
    BY <1>7, <2>2, <2>4
  <2> QED
    BY <2>2, <2>4, <2>5, <2>6
<1>9. \A k \in DOMAIN announced' :
        announced'[k] \in inFlight => k \in DOMAIN announced
  <2> SUFFICES ASSUME NEW k \in DOMAIN announced', k \notin DOMAIN announced,
                      announced'[k] \in inFlight
               PROVE  FALSE
    OBVIOUS
  <2>1. announced'[k] \notin Ids(announced)
    BY <1>6, <1>8
  <2>2. inFlight \subseteq Ids(announced)
    BY DEF IInv, TypeOK, RoundInv
  <2> QED
    BY <2>1, <2>2
<1>10. ReadsStayBehind'
  <2> SUFFICES ASSUME NEW k \in DOMAIN announced', NEW m \in DOMAIN announced',
                      k < m, announced'[m] \in inFlight'
               PROVE  /\ offered[announced'[k]] # NoInput
                      /\ Safe(announced'[k], offered[announced'[k]])
    BY <1>2 DEF ReadsStayBehind
  <2>1. announced'[m] \in inFlight /\ m \in DOMAIN announced
    BY <1>5, <1>9
  <2>2. k \in DOMAIN announced /\ k \in 1..Len(announced')
    BY <1>8, <2>1
  <2> QED
    BY <1>8, <2>1, <2>2 DEF IInv, ReadsStayBehind
<1>11. RoundInv'
  <2>1. Ids(announced) \subseteq Ids(announced')
    BY <1>8 DEF Ids
  <2> QED
    BY <1>2, <1>3, <1>5, <2>1 DEF IInv, TypeOK, RoundInv
<1>12. TypeOK'
  <2>1. rows' \in [Calls -> Rows]
    BY <1>2, RowsType DEF IInv, TypeOK, RowsPending, Rows
  <2>2. DOMAIN completedOutputs' = {}
    BY <1>2
  <2>3. phase' \in Phases /\ plan' \in Seq(Entries)
    BY <1>1, <1>2, <1>5 DEF Phases
  <2> QED
    BY <1>2, <1>5, <1>8, <2>1, <2>2, <2>3 DEF IInv, TypeOK
<1> QED
  BY <1>10, <1>11, <1>12 DEF IInv

(* A batch that fails: nothing new starts.                                 *)
LEMMA FlushFailsStep == ASSUME IInv, FlushFails PROVE IInv'
<1>1. /\ phase = "batch"
      /\ completedOutputs' = WithBatchOutputs
      /\ phase' = "failed"
      /\ batch' = {}
      /\ UNCHANGED <<announced, offered, inFlight, settledIds, epoch,
                     earlyStartBlocked, plan, next, stage, ran, discarded,
                     turnAborted, rows>>
  BY DEF FlushFails, BatchEnded, execVars
<1>2. TypeOK'
  BY <1>1, BatchOutputsType DEF IInv, TypeOK, Phases
<1>3. RoundInv'
  BY <1>1 DEF IInv, RoundInv
<1> QED
  BY <1>1, <1>2, <1>3, StreamKept DEF IInv

(* A write that must run alone starts once its batch has settled.          *)
LEMMA FlushThenWriteStep == ASSUME IInv, FlushThenWrite PROVE IInv'
<1> DEFINE x == Main(plan[next].id)
<1>1. /\ phase = "batch"
      /\ next <= Len(plan)
      /\ completedOutputs' = WithBatchOutputs
      /\ phase' = "serial"
      /\ batch' = {x}
      /\ stage' = [stage EXCEPT ![x] = "pre"]
      /\ ran' = [ran EXCEPT ![x] = plan[next].input]
      /\ UNCHANGED <<announced, offered, inFlight, settledIds, epoch,
                     earlyStartBlocked, plan, next, discarded, turnAborted, rows>>
  BY DEF FlushThenWrite, BatchEnded
<1>2. next \in 1..Len(plan)
  BY <1>1 DEF IInv, TypeOK, RoundInv
<1>3. plan[next] \in Entries
  BY <1>2 DEF IInv, TypeOK
<1>4. plan[next].id \in Calls /\ plan[next].input \in Inputs
  BY <1>3 DEF Entries
<1>5. epoch <= MaxRetries
  BY <1>1 DEF IInv, RoundInv
<1>6. x \in Executions
  BY <1>4, <1>5, ExecutionType DEF IInv, TypeOK
<1> HIDE DEF x
<1>7. TypeOK'
  <2>1. /\ stage' \in [Executions -> Stages]
        /\ ran' \in [Executions -> Inputs \cup {NoInput}]
        /\ phase' \in Phases
    BY <1>1, <1>4 DEF IInv, TypeOK, Stages, Phases
  <2> QED
    BY <1>1, <1>6, <2>1, BatchOutputsType DEF IInv, TypeOK
<1>8. ran'[x] \in Inputs
  BY <1>1, <1>4, <1>6 DEF IInv, TypeOK
<1>9. (batch = {Main(plan[next].id)})'
  BY <1>1 DEF x, Main
<1>10. RoundInv'
  BY <1>1, <1>2, <1>5, <1>8, <1>9, StreamKept DEF IInv, TypeOK, RoundInv
<1> QED
  BY <1>1, <1>7, <1>10, StreamKept DEF IInv

(* The two steps that answer one entry and go on with the loop.            *)
LEMMA AnswerAndContinue ==
  ASSUME IInv, NEW outputs, NEW output \in Entries,
         phase \in {"batch", "serial"}, next \in 1..Len(plan),
         DOMAIN outputs \subseteq DOMAIN plan,
         \A k \in DOMAIN outputs : outputs[k] \in Entries,
         completedOutputs' = WithOutput(outputs, next, output),
         ContinueFrom(plan, next + 1),
         settledIds' \subseteq Calls, rows' \in [Calls -> Rows],
         UNCHANGED <<announced, offered, epoch, earlyStartBlocked, plan,
                     turnAborted>>
  PROVE  IInv'
<1>1. plan \in Seq(Entries) /\ Len(plan) \in Nat /\ DOMAIN plan = 1..Len(plan)
  BY DEF IInv, TypeOK
<1>2. next + 1 \in 1..(Len(plan) + 1)
  BY <1>1
<1>3. epoch <= MaxRetries
  BY DEF IInv, RoundInv
<1>4. /\ phase' \in {"batch", "failed"}
      /\ next' \in Nat
      /\ phase' = "batch" => next' \in 1..(Len(plan) + 1)
      /\ batch' \subseteq Executions
      /\ stage' \in [Executions -> Stages]
      /\ ran' \in [Executions -> Inputs \cup {NoInput}]
      /\ discarded' \subseteq Executions
      /\ inFlight' \subseteq inFlight
      /\ \A x \in batch' : ran'[x] \in Inputs
  BY <1>1, <1>2, <1>3, ContinueType
<1>5. /\ DOMAIN completedOutputs' \subseteq DOMAIN plan
      /\ \A k \in DOMAIN completedOutputs' : completedOutputs'[k] \in Entries
  BY <1>1, OutputType
<1>6. TypeOK'
  BY <1>1, <1>4, <1>5, StreamKept DEF IInv, TypeOK, Phases
<1>7. RoundInv'
  BY <1>3, <1>4, StreamKept DEF RoundInv
<1> QED
  BY <1>4, <1>6, <1>7, StreamKept DEF IInv

LEMMA FlushThenErrorStep == ASSUME IInv, FlushThenError PROVE IInv'
<1>1. /\ phase = "batch"
      /\ next <= Len(plan)
      /\ completedOutputs' = WithOutput(WithBatchOutputs, next, plan[next])
      /\ settledIds' = settledIds \cup {plan[next].id}
      /\ rows' = RowsTerminal(RowsStart(rows, plan[next].id), plan[next].id)
      /\ ContinueFrom(plan, next + 1)
      /\ UNCHANGED <<announced, offered, epoch, earlyStartBlocked, plan,
                     turnAborted>>
  BY DEF FlushThenError, BatchEnded
<1>2. next \in 1..Len(plan)
  BY <1>1 DEF IInv, TypeOK, RoundInv
<1>3. plan[next] \in Entries
  BY <1>2 DEF IInv, TypeOK
<1>4. plan[next].id \in Calls
  BY <1>3 DEF Entries
<1>5. settledIds' \subseteq Calls /\ rows' \in [Calls -> Rows]
  BY <1>1, <1>4, RowsType DEF IInv, TypeOK
<1> QED
  BY <1>1, <1>2, <1>3, <1>5, BatchOutputsType, AnswerAndContinue

LEMMA WriteEndedStep == ASSUME IInv, WriteEnded PROVE IInv'
<1> DEFINE x == Main(plan[next].id)
<1>1. /\ phase = "serial"
      /\ UNCHANGED <<announced, offered, settledIds, epoch, earlyStartBlocked,
                     plan, turnAborted, rows>>
  BY DEF WriteEnded
<1>2. next \in 1..Len(plan)
  BY <1>1 DEF IInv, TypeOK, RoundInv
<1>3. plan[next] \in Entries
  BY <1>2 DEF IInv, TypeOK
<1>4. CASE stage[x] = "settled"
  <2>1. /\ completedOutputs' = WithOutput(completedOutputs, next, OutputOf(x))
        /\ ContinueFrom(plan, next + 1)
    BY <1>4 DEF WriteEnded
  <2>2. CASE x \in batch
    <3>1. OutputOf(x) \in Entries
      BY <2>2 DEF IInv, TypeOK, RoundInv, OutputOf, Entries, Executions
    <3> QED
      BY <1>1, <1>2, <2>1, <3>1, AnswerAndContinue DEF IInv, TypeOK
  <2>3. CASE x \notin batch
    <3> QED
      BY <1>1, <2>3 DEF IInv, RoundInv
  <2> QED
    BY <2>2, <2>3
<1>5. CASE stage[x] # "settled"
  <2>1. /\ phase' = "failed"
        /\ UNCHANGED <<completedOutputs, next, batch, inFlight, stage, ran,
                       discarded>>
    BY <1>5 DEF WriteEnded
  <2>2. TypeOK'
    BY <1>1, <2>1 DEF IInv, TypeOK, Phases
  <2>3. RoundInv'
    BY <1>1, <2>1 DEF IInv, RoundInv
  <2> QED
    BY <1>1, <2>1, <2>2, <2>3, StreamKept DEF IInv
<1> QED
  BY <1>4, <1>5

LEMMA FinalizeReturnsStep == ASSUME IInv, FinalizeReturns PROVE IInv'
<1>1. /\ phase = "batch"
      /\ completedOutputs' = WithBatchOutputs
      /\ phase' = "done"
      /\ batch' = {}
      /\ Cleanup(PlanIds(plan))
      /\ UNCHANGED <<earlyStartBlocked, plan, next, stage, ran, turnAborted>>
  BY DEF FinalizeReturns, BatchEnded
<1>2. TypeOK'
  BY <1>1, BatchOutputsType, CleanupStream DEF IInv, TypeOK, Phases
<1>3. RoundInv'
  BY <1>1, CleanupStream DEF IInv, RoundInv
<1> QED
  BY <1>1, <1>2, <1>3, CleanupStream DEF IInv

(* Executions only move their own stage, a row and settledIds.             *)
LEMMA ExecStep == ASSUME IInv, NEW x \in Executions, Exec(x) PROVE IInv'
<1>1. UNCHANGED <<announced, offered, inFlight, completedOutputs, epoch,
                  earlyStartBlocked, phase, plan, next, batch, ran, discarded,
                  turnAborted>>
  BY DEF Exec, ExecStarts, ExecHookFails, ExecGateFails, ExecEmits, ExecSettles, ExecFrame,
         finalizeVars
<1>2. x[2] \in Calls
  BY DEF Executions
<1>3. stage' \in [Executions -> Stages]
  BY DEF Exec, ExecStarts, ExecHookFails, ExecGateFails, ExecEmits, ExecSettles, IInv, TypeOK,
         Stages
<1>4. rows' \in [Calls -> Rows]
  <2>1. rows \in [Calls -> Rows]
    BY DEF IInv, TypeOK
  <2>2. \/ rows' = rows
        \/ rows' = RowsStart(rows, x[2])
        \/ rows' = RowsTerminal(rows, x[2])
        \/ rows' = RowsTerminal(RowsStart(rows, x[2]), x[2])
    BY DEF Exec, ExecStarts, ExecHookFails, ExecGateFails, ExecEmits, ExecSettles
  <2>3. RowsStart(rows, x[2]) \in [Calls -> Rows]
    BY <1>2, <2>1, RowsType
  <2>4. RowsTerminal(rows, x[2]) \in [Calls -> Rows]
    BY <1>2, <2>1, RowsType
  <2>5. RowsTerminal(RowsStart(rows, x[2]), x[2]) \in [Calls -> Rows]
    BY <1>2, <2>3, RowsType
  <2> QED
    BY <2>1, <2>2, <2>3, <2>4, <2>5
<1>5. settledIds' \subseteq Calls
  BY <1>2 DEF Exec, ExecStarts, ExecHookFails, ExecGateFails, ExecEmits, ExecSettles, IInv, TypeOK
<1>6. TypeOK'
  BY <1>1, <1>3, <1>4, <1>5 DEF IInv, TypeOK
<1>7. RoundInv'
  BY <1>1 DEF IInv, RoundInv, Main
<1> QED
  BY <1>1, <1>6, <1>7, StreamKept DEF IInv

(* Every step keeps the invariant.                                         *)
LEMMA NextStep == IInv /\ [Next]_vars => IInv'
<1> SUFFICES ASSUME IInv, [Next]_vars PROVE IInv'
  OBVIOUS
<1>1. CASE Stream
  <2>1. CASE \E c \in Calls : Announce(c)
    BY <2>1, AnnounceStep
  <2>2. CASE \E c \in Calls, i \in Inputs : Offer(c, i)
    BY <2>2, OfferStep
  <2>3. CASE StreamRetried \/ StreamEnded
    BY <2>3, ResetStep
  <2>4. CASE \E p \in Plans : \E n \in 0..Len(p) : Finalize(p, n)
    BY <2>4, FinalizeStep
  <2> QED
    BY <1>1, <2>1, <2>2, <2>3, <2>4 DEF Stream
<1>2. CASE Driver
  BY <1>2, FlushFailsStep, FlushThenErrorStep, FlushThenWriteStep,
     WriteEndedStep, FinalizeReturnsStep, ResetStep DEF Driver
<1>3. CASE \E x \in Executions : Exec(x)
  BY <1>3, ExecStep
<1>4. CASE CancelTurn \/ UNCHANGED vars
  <2>1. /\ UNCHANGED <<announced, offered, inFlight, settledIds,
                       completedOutputs, epoch, earlyStartBlocked, phase, plan,
                       next, batch, stage, ran, discarded, rows>>
        /\ turnAborted' \in BOOLEAN
    BY <1>4 DEF CancelTurn, vars, roundVars, finalizeVars, execVars, IInv, TypeOK
  <2>2. TypeOK'
    BY <2>1 DEF IInv, TypeOK
  <2>3. RoundInv'
    BY <2>1 DEF IInv, RoundInv, Main
  <2> QED
    BY <2>1, <2>2, <2>3, StreamKept DEF IInv
<1> QED
  BY <1>1, <1>2, <1>3, <1>4 DEF Next, Terminated

(* The inductive invariant holds in every behaviour.                       *)
THEOREM RoundInductive == Spec => []IInv
<1>1. Init => IInv
  BY InitIInv
<1>2. IInv /\ [Next]_vars => IInv'
  BY NextStep
<1> QED
  BY <1>1, <1>2, PTL DEF Spec

(* Type correctness, for every instance.                                   *)
THEOREM RoundTypeOK == Spec => []TypeOK
BY RoundInductive, PTL DEF IInv

(* In every round, whatever is streamed, retried, listed or cancelled, a   *)
(* call runs early only behind calls that are all offered and all safe.    *)
THEOREM RoundReadsStayBehind == Spec => []ReadsStayBehind
BY RoundInductive, PTL DEF IInv

----------------------------------------------------------------------------
(***************************************************************************)
(* The safety properties that need to know what every execution is for:    *)
(* nothing overtakes a write, a write runs alone, no call has two live     *)
(* executions, an interrupted round is quiet and complete, a finished one  *)
(* answers its list, and every row is resolved.                            *)
(*                                                                         *)
(* IInv knows the stream.  Order adds to it                                *)
(*   ExecInv    whose an execution is: an abandoned one is aborted, one of *)
(*              the present attempt is in flight or awaited by the batch;  *)
(*   StreamInv  what an early start says of the stream before it;          *)
(*   PlanInv    the same for the list, and which entries are over;         *)
(*   OutputInv  which entries have been answered, and by what;             *)
(*   RowInv     which rows are still open.                                 *)
(***************************************************************************)

Begun(c)    == stage[Early(c)] # "none"
Finalizing  == phase \in {"batch", "serial", "failed"}
Over        == phase \in {"done", "closed"}
IsWrite(e)  == Kind[<<e.id, e.input>>] = "write"
InForce(x)  == Live(x) /\ x \notin discarded

ExecInv ==
  /\ \A x \in Executions : stage[x] # "none" => x[1] <= epoch
  /\ \A x \in Executions : InForce(x) =>
       x[1] = epoch /\ (x \in batch \/ (x[3] = "early" /\ x[2] \in inFlight))
  /\ \A x \in Executions : Live(x) /\ x[3] = "main" => x \in batch
  /\ phase \notin {"batch", "serial"} => \A x \in batch : Ended(x)
  /\ phase \in {"batch", "serial"} =>
       /\ \A x \in batch : x[1] = epoch /\ x[2] \notin inFlight
       /\ \A x, y \in batch : x[2] = y[2] => x = y
  /\ phase = "streaming" => batch = {}
  /\ Over => inFlight = {}
  /\ \A c \in inFlight : Begun(c)

StreamInv ==
  phase = "streaming" =>
    /\ \A c \in Calls : Begun(c) => c \in Ids(announced)
    /\ \A k, m \in DOMAIN announced : k < m /\ Begun(announced[m]) =>
         /\ offered[announced[k]] # NoInput
         /\ Safe(announced[k], offered[announced[k]])
    /\ \A c \in Calls : stage[Main(c)] = "none"
    /\ next = 1

PlanInv ==
  /\ Finalizing =>
       /\ next \in 1..(Len(plan) + 1)
       /\ \A k, l \in DOMAIN plan : k # l => plan[k].id # plan[l].id
       /\ \A k \in DOMAIN plan : plan[k].id \in Ids(announced)
       /\ \A k, m \in DOMAIN plan : k < m /\ Begun(plan[m].id) =>
            /\ offered[plan[k].id] # NoInput
            /\ Safe(plan[k].id, offered[plan[k].id])
       /\ \A k \in DOMAIN plan : k < next /\ IsWrite(plan[k]) => Ended(Main(plan[k].id))
       /\ \A k \in DOMAIN plan : stage[Main(plan[k].id)] # "none" => k <= next
  /\ phase \in {"batch", "serial"} =>
       \A k \in DOMAIN plan : k <= next => plan[k].id \notin inFlight
  /\ phase = "serial" =>
       IsWrite(plan[next]) /\ ran[Main(plan[next].id)] = plan[next].input

OutputInv ==
  /\ phase = "done" => completedOutputs = plan
  /\ Finalizing =>
       /\ \A k \in DOMAIN completedOutputs : completedOutputs[k] = plan[k]
       /\ \A x \in Executions :
            x[1] = epoch /\ x[3] = "main" /\ stage[x] = "settled" =>
              \/ phase # "failed" /\ x \in batch
              \/ \E k \in DOMAIN completedOutputs : completedOutputs[k] = OutputOf(x)
  /\ phase = "batch" =>
       /\ \A k \in DOMAIN completedOutputs : k < next
       /\ \A x \in batch : \E k \in DOMAIN plan :
            /\ k < next /\ k \notin DOMAIN completedOutputs
            /\ OutputOf(x) = plan[k]
       /\ \A k \in DOMAIN plan : k < next =>
            k \in DOMAIN completedOutputs \/ \E x \in batch : x[2] = plan[k].id
  /\ phase = "serial" => DOMAIN completedOutputs = 1..(next - 1)

RowInv ==
  /\ \A c \in Calls : rows[c] \in {"pending", "running"} =>
       ~Over /\ c \in Ids(announced)
  /\ \A x \in Executions : stage[x] \in {"emitted", "settled"} => rows[x[2]] = "done"
  /\ \A c \in settledIds : rows[c] = "done"
  /\ \A x \in Executions : stage[x] = "started" /\ x \notin discarded =>
       rows[x[2]] \in {"running", "done"}
  /\ Finalizing => \A k \in DOMAIN completedOutputs : rows[plan[k].id] = "done"

Order == ExecInv /\ StreamInv /\ PlanInv /\ OutputInv /\ RowInv

IOrder == IInv /\ Order

USE DEF IInv, IOrder, Order

----------------------------------------------------------------------------
(* Executions and their names.                                             *)

(* What the three parts of an execution say.                               *)
LEMMA ExecutionFacts ==
  ASSUME NEW x \in Executions
  PROVE  /\ x[1] \in 0..MaxRetries /\ x[2] \in Calls /\ x[3] \in {"early", "main"}
         /\ x[1] = epoch /\ x[3] = "early" => x = Early(x[2])
         /\ x[1] = epoch /\ x[3] = "main" => x = Main(x[2])
BY DEF Executions, Early, Main

(* Early and Main name executions of the present attempt.                  *)
LEMMA NameFacts ==
  ASSUME NEW c \in Calls
  PROVE  /\ Early(c)[1] = epoch /\ Early(c)[2] = c /\ Early(c)[3] = "early"
         /\ Main(c)[1] = epoch /\ Main(c)[2] = c /\ Main(c)[3] = "main"
         /\ epoch' = epoch => Early(c)' = Early(c) /\ Main(c)' = Main(c)
         /\ TypeOK /\ epoch <= MaxRetries => Early(c) \in Executions /\ Main(c) \in Executions
BY ExecutionType DEF Early, Main, TypeOK

(* What the events of the executions and of the driver do to the rows.     *)
LEMMA EventRows ==
  ASSUME NEW r \in [Calls -> Rows], NEW c \in Calls
  PROVE  /\ \A d \in Calls : d # c => RowsStart(r, c)[d] = r[d] /\ RowsTerminal(r, c)[d] = r[d]
         /\ RowsStart(r, c)[c] \in {"running", "done"}
         /\ r[c] = "done" => RowsStart(r, c)[c] = "done"
         /\ r[c] # "none" => RowsTerminal(r, c)[c] = "done"
BY DEF Rows, RowsStart, RowsTerminal

(* ... and what announcing and retracting a set of calls does.             *)
LEMMA SetRows ==
  ASSUME NEW r \in [Calls -> Rows], NEW S
  PROVE  /\ \A d \in Calls : RowsPending(r, S)[d] =
              IF d \in S /\ r[d] = "none" THEN "pending" ELSE r[d]
         /\ \A d \in Calls : RowsRetract(r, S)[d] =
              IF d \in S /\ r[d] # "done" THEN "none" ELSE r[d]
BY DEF RowsPending, RowsRetract

(* The entries of a list are calls with inputs.                            *)
LEMMA PlanEntry ==
  ASSUME NEW p \in Seq(Entries)
  PROVE  \A k \in DOMAIN p : k \in 1..Len(p) /\ p[k].id \in Calls /\ p[k].input \in Inputs
<1>1. \A k \in DOMAIN p : k \in 1..Len(p) /\ p[k] \in Entries
  OBVIOUS
<1> QED
  BY <1>1 DEF Entries

(* Nothing has begun.                                                      *)
LEMMA InitOrder == Init => Order
<1> SUFFICES ASSUME Init PROVE Order
  OBVIOUS
<1> USE DEF Init
<1>1. \A x \in Executions : stage[x] = "none" /\ ~Live(x) /\ ~InForce(x)
  BY DEF Live, InForce
<1>2. \A c \in Calls : ~Begun(c) /\ stage[Main(c)] = "none"
  BY <1>1, NameFacts, RoundAssumption, InitIInv DEF Begun
<1>3. ExecInv
  BY <1>1 DEF ExecInv, Over
<1>4. StreamInv
  BY <1>2 DEF StreamInv
<1>5. PlanInv /\ OutputInv
  BY DEF PlanInv, OutputInv, Finalizing
<1>6. RowInv
  BY <1>1 DEF RowInv, Finalizing
<1> QED
  BY <1>3, <1>4, <1>5, <1>6

(* A row may only be touched by a call that the round knows.               *)
LEMMA ForceAnnounced ==
  ASSUME IOrder, NEW x \in Executions, InForce(x)
  PROVE  x[2] \in Ids(announced) /\ ~Over
<1>1. CASE x \in batch
  <2>1. phase \in {"batch", "serial"}
    BY <1>1 DEF ExecInv, InForce, Live, Ended
  <2>2. \E k \in DOMAIN plan : x[2] = plan[k].id
    <3>1. CASE phase = "batch"
      BY <1>1, <3>1 DEF OutputInv, OutputOf
    <3>2. CASE phase = "serial"
      BY <1>1, <3>2, PlanEntry, NameFacts DEF RoundInv, TypeOK
    <3> QED
      BY <2>1, <3>1, <3>2
  <2> QED
    BY <2>1, <2>2 DEF PlanInv, Finalizing, Over
<1>2. CASE x \notin batch
  <2>1. x[2] \in inFlight
    BY <1>2 DEF ExecInv
  <2> QED
    BY <2>1 DEF ExecInv, RoundInv, Over, TypeOK
<1> QED
  BY <1>1, <1>2

----------------------------------------------------------------------------
(* Executions run on: nothing begins, nothing ended lives again.           *)
StagesGrow ==
  \A x \in Executions :
    /\ stage'[x] = "none" <=> stage[x] = "none"
    /\ Ended(x) => Ended(x)'
    /\ Live(x)' => Live(x)

(* A step of one execution moves its stage and its row and nothing else.   *)
LEMMA ExecOrder == ASSUME IOrder, NEW x \in Executions, Exec(x) PROVE Order'
<1>1. /\ UNCHANGED <<announced, offered, inFlight, completedOutputs, epoch,
                    phase, plan, next, batch, ran, discarded, turnAborted>>
      /\ \A y \in Executions : y # x => stage'[y] = stage[y]
      /\ Live(x) /\ stage'[x] \in {"started", "emitted", "settled", "rejected"}
  BY DEF Exec, ExecStarts, ExecHookFails, ExecGateFails, ExecEmits, ExecSettles, ExecFrame,
         finalizeVars, TypeOK, Live
<1>2. StagesGrow
  BY <1>1 DEF StagesGrow, Live, Ended
<1>3. \A c \in Calls : /\ Early(c)' = Early(c) /\ Main(c)' = Main(c)
  BY <1>1, NameFacts
<1>4. epoch <= MaxRetries => \A c \in Calls : Early(c) \in Executions /\ Main(c) \in Executions
  BY NameFacts
<1>5. ExecInv'
  <2>1. \A y \in Executions : InForce(y)' => InForce(y)
    BY <1>1, <1>2 DEF InForce, StagesGrow
  <2>2. \A c \in inFlight' : Begun(c)'
    <3> SUFFICES ASSUME NEW c \in inFlight PROVE stage'[Early(c)] # "none"
      BY <1>1, <1>3 DEF Begun, TypeOK
    <3>1. epoch <= MaxRetries /\ c \in Calls
      BY DEF TypeOK, RoundInv, ExecInv, Over, Phases
    <3> QED
      BY <1>2, <1>4, <3>1 DEF StagesGrow, ExecInv, Begun
  <2> QED
    BY <1>1, <1>2, <2>1, <2>2 DEF ExecInv, StagesGrow, TypeOK, Over
<1>6. ~Over => /\ \A c \in Calls : Begun(c)' <=> Begun(c)
               /\ \A c \in Calls : stage'[Main(c)] = "none" <=> stage[Main(c)] = "none"
               /\ \A c \in Calls : Ended(Main(c)) => Ended(Main(c))'
  BY <1>1, <1>2, <1>3, <1>4 DEF StagesGrow, Begun, Over, RoundInv, Ended
<1>7. StreamInv'
  BY <1>1, <1>3, <1>6 DEF StreamInv, TypeOK, Over
<1>8. \A k \in DOMAIN plan : plan[k].id \in Calls
  BY PlanEntry DEF TypeOK
<1>9. PlanInv'
  <2>1. CASE Over
    BY <1>1, <2>1 DEF PlanInv, Over, Finalizing
  <2>2. CASE ~Over
    <3>1. \A k \in DOMAIN plan :
            /\ Begun(plan[k].id)' <=> Begun(plan[k].id)
            /\ stage'[Main(plan[k].id)'] = "none" <=> stage[Main(plan[k].id)] = "none"
            /\ Ended(Main(plan[k].id)) => Ended(Main(plan[k].id))'
            /\ ran'[Main(plan[k].id)'] = ran[Main(plan[k].id)]
      BY <1>1, <1>3, <1>6, <1>8, <2>2
    <3>2. phase = "serial" => next \in DOMAIN plan
      BY DEF RoundInv, TypeOK
    <3> QED
      BY <1>1, <3>1, <3>2 DEF PlanInv, Finalizing, IsWrite
  <2> QED
    BY <2>1, <2>2
<1>10. OutputInv'
  <2>1. \A y \in Executions : OutputOf(y)' = OutputOf(y)
    BY <1>1 DEF OutputOf
  <2>2. stage'[x] = "settled" /\ x[3] = "main" => x \in batch /\ phase \in {"batch", "serial"}
    BY <1>1 DEF ExecInv, Live, Ended
  <2> QED
    BY <1>1, <2>1, <2>2 DEF OutputInv, TypeOK, Finalizing
<1>11. RowInv'
  <2>0. /\ rows \in [Calls -> Rows] /\ x[2] \in Calls
        /\ RowsStart(rows, x[2]) \in [Calls -> Rows]
    BY RowsType, ExecutionFacts DEF TypeOK
  <2>1. InForce(x) => x[2] \in Ids(announced) /\ ~Over
    BY ForceAnnounced
  <2>2. \/ stage'[x] = "rejected" /\ UNCHANGED <<rows, settledIds>>
        \/ /\ x \notin discarded /\ stage'[x] = "started"
           /\ rows' = RowsStart(rows, x[2]) /\ UNCHANGED settledIds
        \/ /\ x \notin discarded /\ stage'[x] = "emitted"
           /\ rows' = RowsTerminal(RowsStart(rows, x[2]), x[2]) /\ UNCHANGED settledIds
        \/ /\ x \notin discarded /\ stage[x] = "started" /\ stage'[x] = "emitted"
           /\ rows' = RowsTerminal(rows, x[2]) /\ UNCHANGED settledIds
        \/ /\ stage[x] = "emitted" /\ stage'[x] = "settled"
           /\ UNCHANGED rows /\ settledIds' \subseteq settledIds \cup {x[2]}
    BY DEF Exec, ExecStarts, ExecHookFails, ExecGateFails, ExecEmits, ExecSettles, TypeOK, Aborted
  <2>3. /\ \A c \in Calls : c # x[2] => rows'[c] = rows[c]
        /\ rows[x[2]] = "done" => rows'[x[2]] = "done"
        /\ rows[x[2]] = "running" => rows'[x[2]] \in {"running", "done"}
        /\ stage'[x] = "started" => rows'[x[2]] \in {"running", "done"}
        /\ stage'[x] \in {"emitted", "settled"} => rows'[x[2]] = "done"
        /\ rows'[x[2]] = rows[x[2]] \/ InForce(x)
        /\ settledIds' \subseteq settledIds \cup {x[2]}
        /\ x[2] \in settledIds' => x[2] \in settledIds \/ rows'[x[2]] = "done"
    <3>1. \A c \in Calls : c # x[2] => rows'[c] = rows[c]
      BY <2>0, <2>2, EventRows
    <3>2. x \notin discarded => InForce(x)
      BY <1>1 DEF InForce
    <3>3. \/ rows' = rows
          \/ InForce(x)
      BY <2>2, <3>2
    <3>4. /\ rows[x[2]] = "done" => rows'[x[2]] = "done"
          /\ rows[x[2]] = "running" => rows'[x[2]] \in {"running", "done"}
          /\ stage'[x] = "started" => rows'[x[2]] \in {"running", "done"}
          /\ stage'[x] \in {"emitted", "settled"} => rows'[x[2]] = "done"
      BY <2>0, <2>2, EventRows, <1>1 DEF RowInv
    <3> QED
      BY <2>2, <3>1, <3>3, <3>4
  <2>4. rows'[x[2]] \in {"pending", "running"} => x[2] \in Ids(announced) /\ ~Over
    BY <2>1, <2>3, <2>0 DEF RowInv
  <2>5. \A y \in Executions : y[2] \in Calls
    BY ExecutionFacts
  <2>6. \A c \in Calls : rows'[c] \in {"pending", "running"} => ~Over' /\ c \in Ids(announced')
    BY <1>1, <2>3, <2>4 DEF RowInv, Over
  <2>7. \A c \in Calls : rows[c] = "done" => rows'[c] = "done"
    BY <2>3
  <2>8. \A y \in Executions : stage'[y] \in {"emitted", "settled"} => rows'[y[2]] = "done"
    BY <1>1, <2>3, <2>5, <2>7 DEF RowInv
  <2>9. \A y \in Executions : stage'[y] = "started" /\ y \notin discarded' =>
          rows'[y[2]] \in {"running", "done"}
    BY <1>1, <2>3, <2>5, <2>7 DEF RowInv
  <2>10. \A c \in settledIds' : rows'[c] = "done"
    BY <2>3, <2>7 DEF RowInv, TypeOK
  <2>11. Finalizing => \A k \in DOMAIN completedOutputs : rows'[plan[k].id] = "done"
    BY <1>8, <2>7 DEF RowInv, TypeOK
  <2> QED
    BY <1>1, <2>6, <2>8, <2>9, <2>10, <2>11 DEF RowInv, Finalizing
<1> QED
  BY <1>5, <1>7, <1>9, <1>10, <1>11

(* A cancel changes turnAborted only, which Order does not mention.        *)
LEMMA IdleOrder ==
  ASSUME IOrder, UNCHANGED <<roundVars, finalizeVars, execVars, rows>> PROVE Order'
<1> USE DEF roundVars, finalizeVars, execVars
<1>1. ExecInv'
  BY DEF ExecInv, InForce, Live, Ended, Over, Begun, Early
<1>2. StreamInv' /\ PlanInv'
  BY DEF StreamInv, PlanInv, Begun, Early, Main, Finalizing, Ended
<1>3. OutputInv' /\ RowInv'
  BY DEF OutputInv, RowInv, OutputOf, Finalizing, Over
<1> QED
  BY <1>1, <1>2, <1>3

----------------------------------------------------------------------------
(* The outputs of a batch: each answers its own entry.                     *)
LEMMA BatchAnswers ==
  ASSUME IOrder, phase = "batch"
  PROVE  /\ \A k \in DOMAIN WithBatchOutputs :
              /\ k \in DOMAIN plan /\ k < next /\ WithBatchOutputs[k] = plan[k]
              /\ k \in DOMAIN completedOutputs \/
                   \E x \in batch : x[2] = plan[k].id /\ stage[x] = "settled"
         /\ DOMAIN completedOutputs \subseteq DOMAIN WithBatchOutputs
         /\ \A x \in batch : stage[x] = "settled" =>
              \E k \in DOMAIN WithBatchOutputs : WithBatchOutputs[k] = OutputOf(x)
         /\ (\A x \in batch : stage[x] = "settled") =>
              DOMAIN WithBatchOutputs = 1..(next - 1)
<1> DEFINE answered == {k \in DOMAIN plan : \E x \in batch :
                          x[2] = plan[k].id /\ stage[x] = "settled"}
           executionOf(k) == CHOOSE x \in batch : x[2] = plan[k].id
<1>0. /\ \A k \in DOMAIN plan : k \in 1..Len(plan) /\ plan[k].id \in Calls
      /\ DOMAIN plan = 1..Len(plan) /\ Len(plan) \in Nat /\ next \in 1..(Len(plan) + 1)
      /\ DOMAIN completedOutputs \subseteq DOMAIN plan
  BY PlanEntry DEF TypeOK, RoundInv
<1>1. \A k \in answered : executionOf(k) \in batch /\ executionOf(k)[2] = plan[k].id
  OBVIOUS
<1> HIDE DEF executionOf
<1>2. WithBatchOutputs = [k \in answered \cup DOMAIN completedOutputs |->
                            IF k \in answered THEN OutputOf(executionOf(k))
                                              ELSE completedOutputs[k]]
  BY DEF WithBatchOutputs, executionOf
<1>3. \A x \in batch, k \in DOMAIN plan :
        x[2] = plan[k].id => OutputOf(x) = plan[k] /\ k < next
  BY DEF OutputInv, OutputOf, PlanInv, Finalizing
<1>4. \A k \in answered : WithBatchOutputs[k] = plan[k] /\ k < next /\ k \in DOMAIN plan
  BY <1>1, <1>2, <1>3
<1>5. \A k \in DOMAIN completedOutputs : k \notin answered =>
        WithBatchOutputs[k] = plan[k] /\ k < next
  BY <1>2 DEF OutputInv, Finalizing
<1>6. \A x \in batch : stage[x] = "settled" =>
        \E k \in answered : WithBatchOutputs[k] = OutputOf(x)
  BY <1>3, <1>4 DEF OutputInv, OutputOf
<1>7. (\A x \in batch : stage[x] = "settled") =>
        \A k \in DOMAIN plan : k < next => k \in answered \cup DOMAIN completedOutputs
  BY DEF OutputInv
<1>8. DOMAIN WithBatchOutputs = answered \cup DOMAIN completedOutputs
  BY <1>2
<1>9. \A k \in answered : \E x \in batch : x[2] = plan[k].id /\ stage[x] = "settled"
  OBVIOUS
<1> HIDE DEF answered
<1>10. (\A x \in batch : stage[x] = "settled") => DOMAIN WithBatchOutputs = 1..(next - 1)
  BY <1>0, <1>4, <1>7, <1>8 DEF OutputInv
<1> QED
  BY <1>0, <1>4, <1>5, <1>6, <1>8, <1>9, <1>10

(* Whatever a batch answers has a finished row.                            *)
LEMMA BatchRows ==
  ASSUME IOrder, phase = "batch"
  PROVE  \A k \in DOMAIN WithBatchOutputs : rows[plan[k].id] = "done"
<1>1. \A x \in batch : stage[x] = "settled" => rows[x[2]] = "done"
  BY DEF RowInv, TypeOK
<1>2. \A k \in DOMAIN completedOutputs : rows[plan[k].id] = "done"
  BY DEF RowInv, Finalizing
<1> QED
  BY <1>1, <1>2, BatchAnswers

(* A step of the driver that starts nothing and leaves the stream alone.   *)
LEMMA DriverFrame ==
  ASSUME IOrder, ~Over, UNCHANGED <<announced, offered, epoch, plan, stage, ran, rows>>
  PROVE  /\ \A c \in Calls : Early(c)' = Early(c) /\ Main(c)' = Main(c)
         /\ \A c \in Calls : Begun(c)' <=> Begun(c)
         /\ \A c \in Calls : Ended(Main(c))' <=> Ended(Main(c))
         /\ \A x \in Executions : /\ Live(x)' <=> Live(x)
                                  /\ Ended(x)' <=> Ended(x)
                                  /\ OutputOf(x)' = OutputOf(x)
         /\ \A k \in DOMAIN plan : plan[k].id \in Calls
BY NameFacts, PlanEntry DEF Begun, Ended, Live, OutputOf, TypeOK

(* A batch that fails has kept what it answered.                           *)
LEMMA FlushFailsOrder == ASSUME IOrder, FlushFails PROVE Order'
<1>1. /\ phase = "batch" /\ phase' = "failed" /\ batch' = {}
      /\ \A x \in batch : Ended(x)
      /\ completedOutputs' = WithBatchOutputs
      /\ UNCHANGED <<announced, offered, inFlight, settledIds, epoch, plan, next,
                     stage, ran, discarded, rows>>
  BY DEF FlushFails, BatchEnded, execVars
<1>2. ~Over /\ ~Over' /\ Finalizing /\ Finalizing'
  BY <1>1 DEF Over, Finalizing
<1> USE DriverFrame
<1>3. ExecInv'
  BY <1>1, <1>2 DEF ExecInv, InForce, Live, Ended, TypeOK
<1>4. StreamInv'
  BY <1>1 DEF StreamInv
<1>5. PlanInv'
  BY <1>1, <1>2 DEF PlanInv
<1>6. OutputInv'
  BY <1>1, <1>2, BatchAnswers DEF OutputInv
<1>7. RowInv'
  BY <1>1, <1>2, BatchRows DEF RowInv
<1> QED
  BY <1>3, <1>4, <1>5, <1>6, <1>7

----------------------------------------------------------------------------
(* The streaming side.                                                     *)
(* A call that is announced has not begun.                                 *)
LEMMA AnnounceOrder == ASSUME IOrder, NEW c \in Calls, Announce(c) PROVE Order'
<1>1. /\ phase = "streaming" /\ c \notin Ids(announced)
      /\ announced' = Append(announced, c) /\ rows' = RowsPending(rows, {c})
      /\ UNCHANGED <<offered, inFlight, settledIds, completedOutputs, epoch, phase,
                     plan, next, batch, stage, ran, discarded>>
  BY DEF Announce, finalizeVars, execVars
<1>2. /\ DOMAIN announced = 1..Len(announced) /\ Len(announced) \in Nat
      /\ DOMAIN announced' = 1..(Len(announced) + 1)
      /\ \A k \in 1..Len(announced) : announced'[k] = announced[k]
      /\ announced'[Len(announced) + 1] = c
      /\ \A k \in DOMAIN announced : announced[k] \in Calls
  BY <1>1 DEF TypeOK
<1>3. Ids(announced') = Ids(announced) \cup {c}
  BY <1>2 DEF Ids
<1>4. \A d \in Calls : /\ Early(d)' = Early(d) /\ Main(d)' = Main(d)
                       /\ Begun(d)' <=> Begun(d)
  BY <1>1, NameFacts DEF Begun
<1>5. ~Over /\ ~Over' /\ ~Finalizing /\ ~Finalizing'
  BY <1>1 DEF Over, Finalizing
<1>6. ExecInv'
  BY <1>1, <1>4, <1>5 DEF ExecInv, InForce, Live, Ended, TypeOK
<1>7. StreamInv'
  <2>1. ~Begun(c)
    BY <1>1 DEF StreamInv
  <2>2. \A k, m \in DOMAIN announced' : k < m /\ Begun(announced'[m]) =>
          k \in DOMAIN announced /\ m \in DOMAIN announced
    BY <1>2, <2>1
  <2>3. \A m \in DOMAIN announced' : announced'[m] \in Calls
    BY <1>2
  <2> QED
    BY <1>1, <1>2, <1>3, <1>4, <2>2, <2>3 DEF StreamInv
<1>8. PlanInv' /\ OutputInv'
  BY <1>1, <1>5 DEF PlanInv, OutputInv
<1>9. RowInv'
  <2>1. \A d \in Calls : rows'[d] = IF d = c /\ rows[d] = "none" THEN "pending" ELSE rows[d]
    BY <1>1, SetRows DEF TypeOK
  <2>2. \A x \in Executions : x[2] \in Calls
    BY ExecutionFacts
  <2> QED
    BY <1>1, <1>3, <1>5, <2>1, <2>2 DEF RowInv, TypeOK
<1> QED
  BY <1>6, <1>7, <1>8, <1>9

(* The call that starts early finds the whole stream before it offered and *)
(* safe, so the lists that keep the stream's order will too.               *)
LEMMA OfferOrder ==
  ASSUME IOrder, NEW c \in Calls, NEW i \in Inputs, Offer(c, i)
  PROVE  Order'
<1> DEFINE starts == Startable(c, i, announced', offered')
<1>1. /\ phase = "streaming" /\ offered[c] = NoInput
      /\ offered' = [offered EXCEPT ![c] = i]
      /\ announced' = IF c \in Ids(announced) THEN announced ELSE Append(announced, c)
      /\ rows' = RowsPending(rows, {c})
      /\ earlyStartBlocked' = (earlyStartBlocked \/ ~Safe(c, i))
      /\ starts => /\ inFlight' = inFlight \cup {c}
                   /\ stage' = [stage EXCEPT ![Early(c)] = "pre"]
      /\ ~starts => UNCHANGED <<inFlight, stage>>
      /\ UNCHANGED <<settledIds, completedOutputs, epoch, phase, plan, next,
                     batch, discarded>>
  BY DEF Offer, finalizeVars
<1>2. IInv'
  BY OfferStep
<1>3. starts => AllOffered(announced', offered') /\ ~earlyStartBlocked'
  BY <1>1 DEF Startable
<1> HIDE DEF starts
<1>4. /\ DOMAIN announced = 1..Len(announced) /\ Len(announced) \in Nat
      /\ DOMAIN announced' \subseteq 1..(Len(announced) + 1)
      /\ \A k \in DOMAIN announced : k \in DOMAIN announced' /\ announced'[k] = announced[k]
      /\ \A k \in DOMAIN announced' : k \notin DOMAIN announced =>
           k = Len(announced) + 1 /\ announced'[k] = c /\ c \notin Ids(announced)
      /\ \A k \in DOMAIN announced' : announced'[k] \in Calls
      /\ c \in Ids(announced')
  BY <1>1 DEF TypeOK, Ids
<1>5. Ids(announced') = Ids(announced) \cup {c}
  BY <1>4 DEF Ids
<1>6. Early(c) \in Executions /\ Early(c)[1] = epoch /\ Early(c)[2] = c /\ Early(c)[3] = "early"
  BY <1>1, NameFacts DEF RoundInv
<1>7. /\ \A x \in Executions : x # Early(c) => stage'[x] = stage[x]
      /\ stage'[Early(c)] = IF starts THEN "pre" ELSE stage[Early(c)]
  BY <1>1, <1>6 DEF TypeOK
<1>8. \A d \in Calls : /\ Early(d)' = Early(d) /\ Main(d)' = Main(d)
                       /\ Early(d) \in Executions /\ Main(d) \in Executions
                       /\ Main(d) # Early(c)
                       /\ d # c => Early(d) # Early(c)
  BY <1>1, <1>6, NameFacts DEF RoundInv
<1>9. /\ \A d \in Calls : Begun(d)' <=> Begun(d) \/ (d = c /\ starts)
      /\ \A d \in Calls : stage'[Main(d)] = stage[Main(d)]
  BY <1>7, <1>8 DEF Begun
<1>10. ~Over /\ ~Over' /\ ~Finalizing /\ ~Finalizing'
  BY <1>1 DEF Over, Finalizing
<1>11. ExecInv'
  <2>1. \A x \in Executions : InForce(x)' =>
          x[1] = epoch' /\ x[3] = "early" /\ x[2] \in inFlight'
    <3> SUFFICES ASSUME NEW x \in Executions, InForce(x)'
                 PROVE  x[1] = epoch' /\ x[3] = "early" /\ x[2] \in inFlight'
      OBVIOUS
    <3>1. CASE x = Early(c) /\ starts
      BY <1>1, <1>6, <3>1
    <3>2. CASE ~(x = Early(c) /\ starts)
      <4>1. InForce(x)
        BY <1>1, <1>7, <3>2 DEF InForce, Live
      <4> QED
        BY <1>1, <4>1 DEF ExecInv
    <3> QED
      BY <3>1, <3>2
  <2>2. \A d \in inFlight' : Begun(d)'
    BY <1>1, <1>9 DEF ExecInv, TypeOK
  <2>3. \A x \in Executions : stage'[x] # "none" => x[1] <= epoch'
    BY <1>1, <1>6, <1>7 DEF ExecInv, TypeOK
  <2>4. \A x \in Executions : Live(x)' /\ x[3] = "main" => x \in batch'
    BY <1>1, <1>6, <1>7 DEF ExecInv, Live
  <2> QED
    BY <1>1, <1>10, <2>1, <2>2, <2>3, <2>4 DEF ExecInv
<1>12. StreamInv'
  <2>1. \A k, m \in DOMAIN announced' : k < m /\ Begun(announced'[m]) =>
          /\ offered'[announced'[k]] # NoInput
          /\ Safe(announced'[k], offered'[announced'[k]])
    <3> SUFFICES ASSUME NEW k \in DOMAIN announced', NEW m \in DOMAIN announced',
                        k < m, Begun(announced'[m])
                 PROVE  /\ offered'[announced'[k]] # NoInput
                        /\ Safe(announced'[k], offered'[announced'[k]])
      OBVIOUS
    <3>1. m \in DOMAIN announced
      BY <1>1, <1>4 DEF StreamInv
    <3>2. k \in DOMAIN announced /\ announced[k] \in Calls
      BY <1>4, <3>1
    <3>3. offered[announced[k]] # NoInput /\ Safe(announced[k], offered[announced[k]])
      BY <1>1, <1>4, <3>1, <3>2 DEF StreamInv
    <3> QED
      BY <1>1, <1>4, <3>2, <3>3 DEF TypeOK
  <2>2. starts => \A k \in DOMAIN announced' :
          /\ offered'[announced'[k]] # NoInput
          /\ Safe(announced'[k], offered'[announced'[k]])
    BY <1>2, <1>3, <1>4 DEF AllOffered, RoundInv
  <2> QED
    BY <1>1, <1>4, <1>5, <1>8, <1>9, <2>1, <2>2 DEF StreamInv
<1>13. PlanInv' /\ OutputInv'
  BY <1>1, <1>10 DEF PlanInv, OutputInv
<1>14. RowInv'
  <2>1. \A d \in Calls : rows'[d] = IF d = c /\ rows[d] = "none" THEN "pending" ELSE rows[d]
    BY <1>1, SetRows DEF TypeOK
  <2>2. \A x \in Executions : x[2] \in Calls
    BY ExecutionFacts
  <2>3. \A x \in Executions : stage'[x] \in {"started", "emitted", "settled"} => stage'[x] = stage[x]
    BY <1>7
  <2> QED
    BY <1>1, <1>5, <1>10, <2>1, <2>2, <2>3 DEF RowInv, TypeOK
<1> QED
  BY <1>11, <1>12, <1>13, <1>14

----------------------------------------------------------------------------
(* The end of an attempt, or of the round: what is in flight is discarded  *)
(* and what is left of an unfinished row goes with it.                     *)
LEMMA CleanupOrder ==
  ASSUME IOrder, ~Over, \A x \in batch : Ended(x),
         NEW S, Cleanup(S), \A c \in S : rows[c] = "done",
         UNCHANGED <<stage, ran, next>>, batch' \subseteq batch,
         phase' \in {"streaming", "closed", "done"},
         phase' = "streaming" => phase = "streaming" /\ epoch < MaxRetries,
         phase' = "done" => completedOutputs' = plan'
  PROVE  Order'
<1>1. /\ discarded' = discarded \cup {Early(c) : c \in inFlight}
      /\ rows' = RowsRetract(rows, Ids(announced) \ (S \cup settledIds))
      /\ announced' = <<>> /\ inFlight' = {} /\ settledIds' = {} /\ epoch' = epoch + 1
  BY DEF Cleanup
<1>2. epoch \in Nat /\ epoch <= MaxRetries /\ MaxRetries \in Nat
  BY RoundAssumption DEF TypeOK, RoundInv, Over
<1>3. \A x \in Executions : ~(Live(x) /\ x[3] = "main")
  BY DEF ExecInv, Live, Ended
<1>4. \A x \in Executions : ~(Live(x) /\ x \notin discarded')
  <2> SUFFICES ASSUME NEW x \in Executions, Live(x), x \notin discarded' PROVE FALSE
    OBVIOUS
  <2>1. InForce(x)
    BY <1>1 DEF InForce
  <2>2. x[1] = epoch /\ x[3] = "early" /\ x[2] \in inFlight
    BY <2>1 DEF ExecInv, Live, Ended
  <2>3. x = Early(x[2])
    BY <2>2, ExecutionFacts
  <2> QED
    BY <1>1, <2>2, <2>3
<1>5. \A x \in Executions : stage[x] # "none" => x[1] < epoch'
  BY <1>1, <1>2, ExecutionFacts DEF ExecInv
<1>6. epoch' <= MaxRetries => \A c \in Calls : ~Begun(c)' /\ stage'[Main(c)'] = "none"
  <2> SUFFICES ASSUME epoch' <= MaxRetries, NEW c \in Calls
               PROVE  stage[Early(c)'] = "none" /\ stage[Main(c)'] = "none"
    BY DEF Begun
  <2>1. /\ Early(c)' \in Executions /\ Early(c)'[1] = epoch'
        /\ Main(c)' \in Executions /\ Main(c)'[1] = epoch'
    BY <1>1, <1>2 DEF Early, Main, Executions
  <2> QED
    BY <1>1, <1>2, <1>5, <2>1
<1>7. ExecInv'
  <2>1. \A x \in Executions : ~InForce(x)' /\ (stage'[x] # "none" => x[1] <= epoch')
    BY <1>1, <1>2, <1>4, <1>5, ExecutionFacts DEF InForce, Live
  <2>2. \A x \in Executions : ~(Live(x)' /\ x[3] = "main")
    BY <1>3 DEF Live
  <2>3. \A x \in batch' : Ended(x)'
    BY DEF Ended
  <2>4. phase' = "streaming" => batch' = {}
    BY DEF ExecInv
  <2> QED
    BY <1>1, <2>1, <2>2, <2>3, <2>4 DEF ExecInv
<1>8. StreamInv'
  <2>1. phase' = "streaming" => next' = 1 /\ epoch' <= MaxRetries
    BY <1>1, <1>2 DEF StreamInv
  <2> QED
    BY <1>1, <1>6, <2>1 DEF StreamInv
<1>9. PlanInv' /\ OutputInv'
  BY DEF PlanInv, OutputInv, Finalizing
<1>10. RowInv'
  <2>1. \A c \in Calls : rows[c] = "done" => rows'[c] = "done"
    BY <1>1, SetRows DEF TypeOK
  <2>2. \A c \in Calls : rows'[c] \notin {"pending", "running"}
    <3> SUFFICES ASSUME NEW c \in Calls, rows'[c] \in {"pending", "running"} PROVE FALSE
      OBVIOUS
    <3>1. rows'[c] = rows[c] /\ c \notin Ids(announced) \ (S \cup settledIds)
      BY <1>1, SetRows DEF TypeOK
    <3>2. c \in Ids(announced) /\ c \notin settledIds /\ c \notin S
      BY <3>1 DEF RowInv
    <3> QED
      BY <3>1, <3>2
  <2>3. \A x \in Executions : x[2] \in Calls
    BY ExecutionFacts
  <2>4. \A x \in Executions : stage'[x] = "started" => x \in discarded'
    BY <1>4 DEF Live
  <2> QED
    BY <1>1, <2>1, <2>2, <2>3, <2>4 DEF RowInv, Finalizing
<1> QED
  BY <1>7, <1>8, <1>9, <1>10

(* A retry, the end of the stream and the reset of an interrupted round.   *)
LEMMA ResetOrder ==
  ASSUME IOrder, StreamRetried \/ StreamEnded \/ InterruptedRoundReset
  PROVE  Order'
<1>1. /\ phase \in {"streaming", "failed"} /\ phase' \in {"streaming", "closed"}
      /\ phase' = "streaming" => phase = "streaming" /\ epoch < MaxRetries
      /\ Cleanup({}) /\ UNCHANGED <<stage, ran, next, batch>>
  BY DEF StreamRetried, StreamEnded, InterruptedRoundReset, Reset, finalizeVars
<1>2. ~Over /\ \A x \in batch : Ended(x)
  BY <1>1 DEF Over, ExecInv
<1> QED
  BY <1>1, <1>2, CleanupOrder

(* A clean last flush has answered the whole list.                         *)
LEMMA FinalizeReturnsOrder == ASSUME IOrder, FinalizeReturns PROVE Order'
<1>1. /\ phase = "batch" /\ phase' = "done" /\ batch' = {}
      /\ \A x \in batch : Ended(x) /\ stage[x] = "settled"
      /\ next > Len(plan) /\ completedOutputs' = WithBatchOutputs
      /\ Cleanup(PlanIds(plan)) /\ UNCHANGED <<plan, next, stage, ran>>
  BY DEF FinalizeReturns, BatchEnded
<1>2. ~Over
  BY <1>1 DEF Over
<1>3. /\ DOMAIN WithBatchOutputs = DOMAIN plan
      /\ \A k \in DOMAIN plan : WithBatchOutputs[k] = plan[k]
  <2>1. next = Len(plan) + 1 /\ Len(plan) \in Nat /\ DOMAIN plan = 1..Len(plan)
    BY <1>1 DEF TypeOK, RoundInv
  <2> QED
    BY <1>1, <2>1, BatchAnswers
<1>4. completedOutputs' = plan'
  <2>1. WithBatchOutputs = [k \in DOMAIN WithBatchOutputs |-> WithBatchOutputs[k]]
    BY DEF WithBatchOutputs
  <2>2. plan = [k \in DOMAIN plan |-> plan[k]]
    BY DEF TypeOK
  <2> QED
    BY <1>1, <1>3, <2>1, <2>2
<1>5. \A c \in PlanIds(plan) : rows[c] = "done"
  BY <1>1, <1>3, BatchRows DEF PlanIds
<1> QED
  BY <1>1, <1>2, <1>4, <1>5, CleanupOrder

----------------------------------------------------------------------------
(* What a stretch of finalize from position k does: it throws because the  *)
(* turn was aborted, or it reuses and starts the entries up to next'.      *)
Stretch(p, k) ==
  /\ phase' = "batch" /\ next' \in k..(Len(p) + 1)
  /\ \A m \in DOMAIN p : k <= m /\ m < next' =>
       /\ Safe(p[m].id, p[m].input)
       /\ \E x \in batch' : x[2] = p[m].id
  /\ \A x \in batch' : \E m \in DOMAIN p :
       /\ k <= m /\ m < next' /\ x[2] = p[m].id /\ ran'[x] = p[m].input
       /\ \/ x = Early(p[m].id) /\ p[m].id \in inFlight /\ stage'[x] = stage[x]
          \/ x = Main(p[m].id) /\ stage'[x] = "pre"
  /\ \A x, y \in batch' : x[2] = y[2] => x = y
  /\ \A x \in Executions : x \notin batch' \/ x[3] = "early" =>
       stage'[x] = stage[x] /\ ran'[x] = ran[x]
  /\ inFlight' \subseteq inFlight /\ discarded \subseteq discarded'
  /\ \A c \in inFlight : c \in inFlight' \/ Early(c) \in batch' \cup discarded'
  /\ \A m \in DOMAIN p : k <= m /\ m <= next' => p[m].id \notin inFlight'

(* The model's ContinueFrom is such a stretch, or the abort.               *)
LEMMA ContinueEffect ==
  ASSUME IInv, epoch <= MaxRetries,
         NEW p \in Seq(Entries), NEW k \in 1..(Len(p) + 1),
         \A l, m \in DOMAIN p : l # m => p[l].id # p[m].id,
         ContinueFrom(p, k)
  PROVE  \/ /\ phase' = "failed" /\ k <= Len(p)
            /\ UNCHANGED <<next, batch, inFlight, stage, ran, discarded>>
         \/ Stretch(p, k)
<1>1. CASE k <= Len(p) /\ turnAborted
  BY <1>1 DEF ContinueFrom
<1>2. CASE ~(k <= Len(p) /\ turnAborted)
  <2> DEFINE end     == BatchEnd(p, k)
             members == k..(end - 1)
             visited == members \cup ({end} \cap DOMAIN p)
             reused  == {m \in members : Reusable(p, m)}
             started == {Main(p[m].id) : m \in members \ reused}
             early   == {Early(p[m].id) : m \in reused}
             dropped == {Early(p[m].id) : m \in {v \in visited \ reused :
                                                   p[v].id \in inFlight}}
  <2>1. /\ next' = end
        /\ phase' = "batch"
        /\ batch' = early \cup started
        /\ stage' = [x \in Executions |->
                       IF x \in started THEN "pre" ELSE stage[x]]
        /\ ran' = [x \in Executions |->
                     IF x \in started
                       THEN p[CHOOSE m \in members : Main(p[m].id) = x].input
                       ELSE ran[x]]
        /\ inFlight' = inFlight \ {p[m].id : m \in visited}
        /\ discarded' = discarded \cup dropped
    BY <1>2, Zenon DEF ContinueFrom, RunBatchFrom
  <2>2. /\ end \in k..(Len(p) + 1)
        /\ \A l \in members : Safe(p[l].id, p[l].input)
    BY BatchEndExists
  <2>3. /\ Len(p) \in Nat /\ DOMAIN p = 1..Len(p) /\ k \in Nat /\ end \in Nat
        /\ \A m \in DOMAIN p : m \in Nat /\ p[m].id \in Calls /\ p[m].input \in Inputs
    BY <2>2, PlanEntry
  <2>4. /\ members = {m \in DOMAIN p : k <= m /\ m < end}
        /\ visited = {m \in DOMAIN p : k <= m /\ m <= end}
    BY <2>2, <2>3
  <2>5. \A c \in Calls : /\ Early(c) \in Executions /\ Early(c)[2] = c /\ Early(c)[3] = "early"
                         /\ Main(c) \in Executions /\ Main(c)[2] = c /\ Main(c)[3] = "main"
    BY NameFacts
  <2>6. \A m \in reused : p[m].id \in inFlight /\ ran[Early(p[m].id)] = p[m].input
    BY DEF Reusable
  <2>7. \A m \in members : m \notin reused =>
          p[CHOOSE l \in members : Main(p[l].id) = Main(p[m].id)].input = p[m].input
    <3> SUFFICES ASSUME NEW m \in members
                 PROVE  (CHOOSE l \in members : Main(p[l].id) = Main(p[m].id)) = m
      OBVIOUS
    <3>1. \A l \in members : Main(p[l].id) = Main(p[m].id) => l = m
      BY <2>3, <2>4, <2>5
    <3> QED
      BY <3>1
  <2> HIDE DEF end, members, visited, reused
  <2>8. reused \subseteq members /\ members \subseteq visited /\ visited \subseteq DOMAIN p
    BY <2>3, <2>4 DEF reused
  <2>9. \A x \in early : x \in Executions /\ x[3] = "early" /\ x \notin started
    BY <2>3, <2>5, <2>8
  <2>10. \A x \in started : x \in Executions /\ x[3] = "main"
    BY <2>3, <2>5, <2>8
  <2>11. \A m \in members : m \notin reused => Main(p[m].id) \in started
    OBVIOUS
  <2>12. \A m \in reused : Early(p[m].id) \in early
    OBVIOUS
  <2>13. \A x \in early : \E m \in reused : x = Early(p[m].id)
    OBVIOUS
  <2>14. \A x \in started : \E m \in members : m \notin reused /\ x = Main(p[m].id)
    OBVIOUS
  <2>15. \A m \in visited : m \notin reused /\ p[m].id \in inFlight => Early(p[m].id) \in dropped
    OBVIOUS
  <2> HIDE DEF early, started, dropped
  <2>16. \A x \in Executions : /\ stage'[x] = IF x \in started THEN "pre" ELSE stage[x]
                               /\ x \notin started => ran'[x] = ran[x]
    BY <2>1
  <2>17. \A m \in members : m \notin reused => ran'[Main(p[m].id)] = p[m].input
    BY <2>1, <2>7, <2>10, <2>11
  <2>18. \A m \in members : \E x \in batch' : x[2] = p[m].id
    BY <2>1, <2>3, <2>5, <2>8, <2>11, <2>12
  <2>19. \A x \in batch' : \E m \in members :
           /\ x[2] = p[m].id /\ ran'[x] = p[m].input
           /\ \/ m \in reused /\ x = Early(p[m].id) /\ p[m].id \in inFlight /\ stage'[x] = stage[x]
              \/ m \notin reused /\ x = Main(p[m].id) /\ stage'[x] = "pre"
    <3> SUFFICES ASSUME NEW x \in batch'
                 PROVE  \E m \in members :
           /\ x[2] = p[m].id /\ ran'[x] = p[m].input
           /\ \/ m \in reused /\ x = Early(p[m].id) /\ p[m].id \in inFlight /\ stage'[x] = stage[x]
              \/ m \notin reused /\ x = Main(p[m].id) /\ stage'[x] = "pre"
      OBVIOUS
    <3>1. CASE x \in early
      <4>1. PICK m \in reused : x = Early(p[m].id)
        BY <2>13, <3>1
      <4> QED
        BY <2>3, <2>5, <2>6, <2>8, <2>9, <2>16, <3>1, <4>1
    <3>2. CASE x \in started
      <4>1. PICK m \in members : m \notin reused /\ x = Main(p[m].id)
        BY <2>14, <3>2
      <4> QED
        BY <2>3, <2>5, <2>8, <2>10, <2>16, <2>17, <3>2, <4>1
    <3> QED
      BY <2>1, <3>1, <3>2
  <2>20. \A x, y \in batch' : x[2] = y[2] => x = y
    <3> SUFFICES ASSUME NEW x \in batch', NEW y \in batch', x[2] = y[2] PROVE x = y
      OBVIOUS
    <3>1. PICK m \in members : x[2] = p[m].id /\
             ((m \in reused /\ x = Early(p[m].id)) \/ (m \notin reused /\ x = Main(p[m].id)))
      BY <2>19
    <3>2. PICK l \in members : y[2] = p[l].id /\
             ((l \in reused /\ y = Early(p[l].id)) \/ (l \notin reused /\ y = Main(p[l].id)))
      BY <2>19
    <3>3. m = l
      BY <2>8, <3>1, <3>2
    <3> QED
      BY <3>1, <3>2, <3>3
  <2>21. \A x \in Executions : x \notin batch' \/ x[3] = "early" =>
           stage'[x] = stage[x] /\ ran'[x] = ran[x]
    BY <2>1, <2>10, <2>16
  <2>22. \A c \in inFlight : c \in inFlight' \/ Early(c) \in batch' \cup discarded'
    <3> SUFFICES ASSUME NEW c \in inFlight, c \notin inFlight'
                 PROVE  Early(c) \in batch' \cup discarded'
      OBVIOUS
    <3>1. PICK m \in visited : c = p[m].id
      BY <2>1
    <3> QED
      BY <2>1, <2>12, <2>15, <3>1
  <2>23. \A m \in DOMAIN p : k <= m /\ m <= next' => p[m].id \notin inFlight'
    BY <2>1, <2>4
  <2>24. Stretch(p, k)
    BY <2>1, <2>2, <2>4, <2>18, <2>19, <2>20, <2>21, <2>22, <2>23 DEF Stretch, members
  <2> QED
    BY <2>24
<1> QED
  BY <1>1, <1>2

(* Wherever the loop goes on, the first k - 1 entries being answered and   *)
(* everything it waited for being over, the next stretch is in order.      *)
LEMMA ContinueOrder ==
  ASSUME IOrder, phase \in {"streaming", "batch", "serial"}, \A x \in batch : Ended(x),
         NEW p \in Seq(Entries), NEW k \in 1..(Len(p) + 1), plan' = p,
         next \in 1..(Len(p) + 1), next <= k,
         \A l, m \in DOMAIN p : l # m => p[l].id # p[m].id,
         \A l \in DOMAIN p : p[l].id \in Ids(announced'),
         \A l, m \in DOMAIN p : l < m /\ Begun(p[m].id) =>
           offered[p[l].id] # NoInput /\ Safe(p[l].id, offered[p[l].id]),
         \A l \in DOMAIN p : l < k /\ IsWrite(p[l]) => Ended(Main(p[l].id)),
         \A l \in DOMAIN p : stage[Main(p[l].id)] # "none" => l < k /\ l <= next,
         \A l \in DOMAIN p : l < k => p[l].id \notin inFlight,
         \A l \in DOMAIN completedOutputs' : l \in DOMAIN p /\
           l < k /\ completedOutputs'[l] = p[l] /\ rows'[p[l].id] = "done",
         \A l \in DOMAIN p : l < k => l \in DOMAIN completedOutputs',
         \A x \in Executions : x[1] = epoch /\ x[3] = "main" /\ stage[x] = "settled" =>
           \E l \in DOMAIN completedOutputs' : completedOutputs'[l] = OutputOf(x),
         \A c \in Calls : /\ rows'[c] \in {"pending", "running"} => c \in Ids(announced')
                          /\ rows[c] = "done" => rows'[c] = "done"
                          /\ rows[c] = "running" => rows'[c] \in {"running", "done"},
         \A c \in settledIds' : rows'[c] = "done",
         UNCHANGED <<offered, epoch>>, ContinueFrom(p, k)
  PROVE  Order'
<1>1. epoch <= MaxRetries /\ ~Over
  BY DEF RoundInv, Over
<1>2. \A c \in Calls : /\ Early(c)' = Early(c) /\ Main(c)' = Main(c)
                       /\ Early(c) \in Executions /\ Main(c) \in Executions
                       /\ Early(c)[1] = epoch /\ Early(c)[2] = c /\ Early(c)[3] = "early"
                       /\ Main(c)[1] = epoch /\ Main(c)[2] = c /\ Main(c)[3] = "main"
  BY <1>1, NameFacts
<1>3. \A x \in Executions : x[2] \in Calls
  BY ExecutionFacts
<1>4. /\ \A m \in DOMAIN p : m \in Nat /\ p[m].id \in Calls /\ p[m].input \in Inputs /\ p[m] \in Entries
      /\ k \in Nat /\ Len(p) \in Nat
  <2>1. \A m \in DOMAIN p : m \in 1..Len(p) /\ p[m].id \in Calls /\ p[m].input \in Inputs
    BY PlanEntry
  <2>2. \A m \in DOMAIN p : m \in Nat /\ p[m] \in Entries
    OBVIOUS
  <2> QED
    BY <2>1, <2>2
<1>5. CASE /\ phase' = "failed" /\ k <= Len(p)
           /\ UNCHANGED <<next, batch, inFlight, stage, ran, discarded>>
  <2>1. ~Over' /\ Finalizing'
    BY <1>5 DEF Over, Finalizing
  <2>2. /\ \A c \in Calls : Begun(c)' <=> Begun(c)
        /\ \A x \in Executions : /\ OutputOf(x)' = OutputOf(x) /\ (Ended(x)' <=> Ended(x))
                                 /\ InForce(x)' <=> InForce(x) /\ (Live(x)' <=> Live(x))
    BY <1>2, <1>5 DEF Begun, OutputOf, InForce, Live, Ended
  <2>3. ExecInv'
    <3>1. /\ \A x \in batch' : Ended(x)'
          /\ \A c \in inFlight' : Begun(c)'
      BY <1>5, <2>2 DEF ExecInv, TypeOK
    <3>2. \A x \in Executions : stage'[x] # "none" => x[1] <= epoch'
      BY <1>5 DEF ExecInv
    <3>3. \A x \in Executions : InForce(x)' =>
            x[1] = epoch' /\ (x \in batch' \/ (x[3] = "early" /\ x[2] \in inFlight'))
      <4> SUFFICES ASSUME NEW x \in Executions, InForce(x)
                   PROVE  x[1] = epoch /\ (x \in batch \/ (x[3] = "early" /\ x[2] \in inFlight))
        BY <1>5, <2>2
      <4> QED
        BY DEF ExecInv
    <3>4. \A x \in Executions : Live(x)' /\ x[3] = "main" => x \in batch'
      BY <1>5 DEF ExecInv, Live
    <3> QED
      BY <1>5, <2>1, <3>1, <3>2, <3>3, <3>4 DEF ExecInv
  <2>4. StreamInv'
    BY <1>5 DEF StreamInv
  <2>5. PlanInv'
    BY <1>2, <1>4, <1>5, <2>1, <2>2 DEF PlanInv, IsWrite
  <2>6. OutputInv'
    BY <1>5, <2>1, <2>2 DEF OutputInv
  <2>7. RowInv'
    BY <1>3, <1>5, <2>1 DEF RowInv
  <2> QED
    BY <2>3, <2>4, <2>5, <2>6, <2>7
<1>6. CASE Stretch(p, k)
  <2> USE DEF Stretch
  <2>1. /\ phase' = "batch" /\ ~Over' /\ Finalizing' /\ next' \in Nat /\ k <= next'
        /\ next' \in 1..(Len(p) + 1)
    BY <1>4, <1>6 DEF Over, Finalizing
  <2>2. \A x \in batch' : /\ x \in Executions /\ x[1] = epoch
                          /\ \E m \in DOMAIN p : k <= m /\ m < next' /\ x[2] = p[m].id
                          /\ x[3] = "main" => stage'[x] = "pre"
    BY <1>2, <1>4, <1>6
  <2>3. \A c \in Calls : Begun(c)' <=> Begun(c)
    BY <1>2, <1>6 DEF Begun
  <2>4. \A m \in DOMAIN p : Main(p[m].id) \in batch' => k <= m /\ m < next'
    BY <1>2, <1>4, <2>2
  <2>5. \A x \in Executions : stage'[x] # stage[x] => x \in batch' /\ x[3] = "main" /\ stage'[x] = "pre"
    BY <1>6, <2>2, ExecutionFacts
  <2>6. ExecInv'
    <3>1. \A x \in Executions : stage'[x] # "none" => x[1] <= epoch'
      <4> SUFFICES ASSUME NEW x \in Executions, stage'[x] # "none" PROVE x[1] <= epoch
        OBVIOUS
      <4>1. CASE x \in batch'
        BY <2>2, <4>1 DEF TypeOK
      <4>2. CASE x \notin batch'
        BY <2>5, <4>2 DEF ExecInv
      <4> QED
        BY <4>1, <4>2
    <3>2. \A x \in Executions : InForce(x)' =>
            x[1] = epoch' /\ (x \in batch' \/ (x[3] = "early" /\ x[2] \in inFlight'))
      <4> SUFFICES ASSUME NEW x \in Executions, InForce(x)', x \notin batch'
                   PROVE  x[1] = epoch /\ x[3] = "early" /\ x[2] \in inFlight'
        BY <2>2
      <4>1. stage'[x] = stage[x]
        BY <2>5
      <4>2. InForce(x) /\ x \notin discarded'
        BY <1>6, <4>1 DEF InForce, Live
      <4>3. x[1] = epoch /\ x[3] = "early" /\ x[2] \in inFlight
        BY <4>2 DEF ExecInv, InForce, Live, Ended
      <4>4. x = Early(x[2])
        BY <4>3, ExecutionFacts
      <4> QED
        BY <1>6, <4>2, <4>3, <4>4
    <3>3. \A x \in Executions : Live(x)' /\ x[3] = "main" => x \in batch'
      BY <2>5 DEF ExecInv, Live, Ended
    <3>4. \A x \in batch' : x[2] \notin inFlight'
      BY <1>4, <1>6, <2>1, <2>2
    <3>5. \A c \in inFlight' : Begun(c)'
      BY <1>6, <2>3 DEF ExecInv, TypeOK
    <3> QED
      BY <1>6, <2>1, <2>2, <3>1, <3>2, <3>3, <3>4, <3>5 DEF ExecInv
  <2>7. StreamInv'
    BY <2>1 DEF StreamInv
  <2>8. PlanInv'
    <3>1. \A m \in DOMAIN p : m < next' /\ IsWrite(p[m]) => Ended(Main(p[m].id))'
      <4> SUFFICES ASSUME NEW m \in DOMAIN p, m < next', IsWrite(p[m])
                   PROVE  stage'[Main(p[m].id)] \in {"settled", "rejected"}
        BY <1>2, <1>4 DEF Ended
      <4>1. m < k
        BY <1>4, <1>6, SMTT(30) DEF IsWrite, Safe
      <4>2. stage'[Main(p[m].id)] = stage[Main(p[m].id)]
        BY <1>2, <1>4, <2>4, <2>5, <4>1
      <4> QED
        BY <4>1, <4>2 DEF Ended
    <3>2. \A m \in DOMAIN p : stage'[Main(p[m].id)] # "none" => m <= next'
      BY <1>2, <1>4, <2>1, <2>4, <2>5
    <3>3. \A m \in DOMAIN p : m <= next' => p[m].id \notin inFlight'
      BY <1>4, <1>6
    <3>4. \A m \in DOMAIN p : /\ Begun(p[m].id)' <=> Begun(p[m].id)
                              /\ Main(p[m].id)' = Main(p[m].id)
      BY <1>2, <1>4, <2>3
    <3> QED
      BY <2>1, <3>1, <3>2, <3>3, <3>4 DEF PlanInv, IsWrite
  <2>9. OutputInv'
    <3>1. \A x \in Executions : x[1] = epoch /\ x[3] = "main" /\ stage'[x] = "settled" =>
            x \in batch' \/ \E l \in DOMAIN completedOutputs' : completedOutputs'[l] = OutputOf(x)'
      BY <1>6, <2>5 DEF OutputOf
    <3>2. \A l \in DOMAIN completedOutputs' : l \in DOMAIN p /\ l < next'
      BY <1>4, <2>1
    <3>3. \A x \in batch' : \E m \in DOMAIN p :
            m < next' /\ m \notin DOMAIN completedOutputs' /\ OutputOf(x)' = p[m]
      BY <1>4, <1>6, <2>1 DEF OutputOf, Entries
    <3>4. \A m \in DOMAIN p : m < next' =>
            m \in DOMAIN completedOutputs' \/ \E x \in batch' : x[2] = p[m].id
      BY <1>4, <1>6
    <3> QED
      BY <2>1, <3>1, <3>2, <3>3, <3>4 DEF OutputInv
  <2>10. RowInv'
    <3>1. \A x \in Executions : stage'[x] \in {"started", "emitted", "settled"} =>
            stage'[x] = stage[x]
      BY <2>5
    <3> QED
      BY <1>3, <1>6, <2>1, <3>1 DEF RowInv
  <2> QED
    BY <2>6, <2>7, <2>8, <2>9, <2>10
<1> QED
  BY <1>1, <1>5, <1>6, ContinueEffect

(* The list respects the order of the stream, so what was known of the     *)
(* stream before an early start is now known of the list.                  *)
LEMMA FinalizeOrder ==
  ASSUME IOrder, NEW p \in Plans, NEW n \in 0..Len(p), Finalize(p, n)
  PROVE  Order'
<1> DEFINE extra == [k \in 1..(Len(p) - n) |-> p[n + k].id]
<1>1. /\ phase = "streaming" /\ plan' = p
      /\ announced' = announced \o extra
      /\ rows' = RowsPending(rows, PlanIds(p)) /\ completedOutputs' = <<>>
      /\ ContinueFrom(p, 1)
      /\ UNCHANGED <<offered, settledIds, epoch>>
  BY DEF Finalize
<1>2. /\ \A k, l \in DOMAIN p : k # l => p[k].id # p[l].id
      /\ \A k \in DOMAIN p : k > n => p[k].id \notin Ids(announced)
  BY DEF Finalize, ConsistentPlan
<1>3. PICK at \in [1..n -> DOMAIN announced] :
        /\ \A k \in 1..n : announced[at[k]] = p[k].id
        /\ \A k, l \in 1..n : k < l => at[k] < at[l]
  BY DEF Finalize, ConsistentPlan
<1>4. p \in Seq(Entries)
  BY DEF Plans
<1>5. /\ Len(p) \in Nat /\ n \in Nat /\ n <= Len(p) /\ DOMAIN p = 1..Len(p)
      /\ \A k \in DOMAIN p : p[k].id \in Calls
  BY <1>4, PlanEntry
<1>6. /\ extra \in Seq(Calls) /\ Len(extra) = Len(p) - n
      /\ \A j \in 1..(Len(p) - n) : extra[j] = p[n + j].id
  BY <1>5
<1> HIDE DEF extra
<1>7. /\ Ids(announced) \subseteq Ids(announced')
      /\ \A k \in DOMAIN p : k > n => p[k].id \in Ids(announced')
  <2>1. announced \in Seq(Calls) /\ Len(announced) \in Nat
    BY DEF TypeOK
  <2>2. /\ announced' \in Seq(Calls)
        /\ Len(announced') = Len(announced) + Len(extra)
        /\ \A k \in 1..(Len(announced) + Len(extra)) :
             announced'[k] = IF k <= Len(announced) THEN announced[k]
                                                    ELSE extra[k - Len(announced)]
    BY <1>1, <1>6, <2>1, ConcatProperties
  <2>3. /\ DOMAIN announced = 1..Len(announced) /\ Len(extra) \in Nat
        /\ DOMAIN announced' = 1..(Len(announced) + Len(extra))
    BY <1>5, <1>6, <2>1, <2>2
  <2>4. \A k \in DOMAIN announced : k \in DOMAIN announced' /\ announced'[k] = announced[k]
    <3>1. \A k \in 1..Len(announced) : k \in 1..(Len(announced) + Len(extra)) /\ k <= Len(announced)
      BY <2>1, <2>3
    <3> QED
      BY <2>2, <2>3, <3>1
  <2>5. ASSUME NEW k \in DOMAIN p, k > n
        PROVE  \E l \in DOMAIN announced' : announced'[l] = p[k].id
    <3>1. PICK j \in Nat : /\ j = k - n /\ j \in 1..(Len(p) - n) /\ n + j = k
                           /\ 0 < j /\ j <= Len(extra)
      BY <1>5, <1>6, <2>5
    <3>2. PICK l \in Nat : /\ l = Len(announced) + j /\ ~(l <= Len(announced))
                           /\ l - Len(announced) = j /\ l \in 1..(Len(announced) + Len(extra))
      <4>1. /\ Len(announced) + j \in Nat /\ ~(Len(announced) + j <= Len(announced))
            /\ (Len(announced) + j) - Len(announced) = j
            /\ Len(announced) + j \in 1..(Len(announced) + Len(extra))
        BY <2>1, <2>3, <3>1
      <4> QED
        BY <4>1
    <3>3. extra[j] = p[k].id
      BY <1>6, <3>1
    <3> QED
      BY <2>2, <2>3, <3>2, <3>3
  <2> QED
    BY <2>4, <2>5 DEF Ids
<1>8. \A k \in DOMAIN p : k <= n => k \in 1..n /\ at[k] \in DOMAIN announced
  BY <1>5
<1>9. \A k \in DOMAIN p : p[k].id \in Ids(announced')
  <2> SUFFICES ASSUME NEW k \in DOMAIN p PROVE p[k].id \in Ids(announced')
    OBVIOUS
  <2>1. CASE k <= n
    BY <1>3, <1>7, <1>8, <2>1 DEF Ids
  <2>2. CASE k > n
    BY <1>7, <2>2
  <2> QED
    BY <1>5, <2>1, <2>2
<1>10. \A l, m \in DOMAIN p : l < m /\ Begun(p[m].id) =>
         offered[p[l].id] # NoInput /\ Safe(p[l].id, offered[p[l].id])
  <2> SUFFICES ASSUME NEW l \in DOMAIN p, NEW m \in DOMAIN p, l < m, Begun(p[m].id)
               PROVE  offered[p[l].id] # NoInput /\ Safe(p[l].id, offered[p[l].id])
    OBVIOUS
  <2>1. m <= n
    BY <1>1, <1>2, <1>5 DEF StreamInv
  <2>2. l \in 1..n /\ m \in 1..n
    BY <1>5, <2>1
  <2>3. /\ at[l] < at[m] /\ at[l] \in DOMAIN announced /\ at[m] \in DOMAIN announced
        /\ announced[at[l]] = p[l].id /\ announced[at[m]] = p[m].id
    BY <1>3, <2>2
  <2> QED
    BY <1>1, <2>3 DEF StreamInv
<1>11. \A l \in DOMAIN p : stage[Main(p[l].id)] = "none"
  BY <1>1, <1>5 DEF StreamInv
<1>12. \A x \in Executions : ~(x[1] = epoch /\ x[3] = "main" /\ stage[x] = "settled")
  BY <1>1, ExecutionFacts DEF StreamInv
<1>13. \A c \in Calls : /\ rows'[c] \in {"pending", "running"} => c \in Ids(announced')
                        /\ rows[c] = "done" => rows'[c] = "done"
                        /\ rows[c] = "running" => rows'[c] \in {"running", "done"}
  <2>1. \A c \in Calls : rows'[c] =
          IF c \in PlanIds(p) /\ rows[c] = "none" THEN "pending" ELSE rows[c]
    BY <1>1, SetRows DEF TypeOK
  <2> QED
    BY <1>7, <1>9, <2>1 DEF RowInv, PlanIds
<1>14. \A c \in settledIds' : rows'[c] = "done"
  BY <1>1, <1>13 DEF RowInv, TypeOK
<1>15. DOMAIN completedOutputs' = {} /\ next = 1 /\ 1 \in 1..(Len(p) + 1) /\ batch = {}
  BY <1>1, <1>5 DEF StreamInv, ExecInv
<1>16. \A l \in DOMAIN p : ~(l < 1)
  BY <1>5
<1>17. /\ \A x \in batch : Ended(x)
       /\ next \in 1..(Len(p) + 1) /\ next <= 1
       /\ \A l \in DOMAIN p : l < 1 /\ IsWrite(p[l]) => Ended(Main(p[l].id))
       /\ \A l \in DOMAIN p : stage[Main(p[l].id)] # "none" => l < 1 /\ l <= next
       /\ \A l \in DOMAIN p : l < 1 => p[l].id \notin inFlight
       /\ \A l \in DOMAIN completedOutputs' : l \in DOMAIN p /\
            l < 1 /\ completedOutputs'[l] = p[l] /\ rows'[p[l].id] = "done"
       /\ \A l \in DOMAIN p : l < 1 => l \in DOMAIN completedOutputs'
       /\ \A x \in Executions : x[1] = epoch /\ x[3] = "main" /\ stage[x] = "settled" =>
            \E l \in DOMAIN completedOutputs' : completedOutputs'[l] = OutputOf(x)
  BY <1>11, <1>12, <1>15, <1>16
<1> QED
  BY <1>1, <1>2, <1>4, <1>9, <1>10, <1>13, <1>14, <1>15, <1>17, ContinueOrder

----------------------------------------------------------------------------
(* The steps that answer the entry at next and go on behind it.            *)
LEMMA AnswerOrder ==
  ASSUME IOrder, phase \in {"batch", "serial"}, \A x \in batch : Ended(x),
         next <= Len(plan), NEW outputs,
         DOMAIN outputs = 1..(next - 1),
         \A l \in DOMAIN outputs : outputs[l] = plan[l] /\ rows'[plan[l].id] = "done",
         completedOutputs' = WithOutput(outputs, next, plan[next]),
         rows'[plan[next].id] = "done",
         IsWrite(plan[next]) => Ended(Main(plan[next].id)),
         \A x \in Executions : x[1] = epoch /\ x[3] = "main" /\ stage[x] = "settled" =>
           \E l \in DOMAIN completedOutputs' : completedOutputs'[l] = OutputOf(x),
         \A c \in Calls : c # plan[next].id => rows'[c] = rows[c],
         settledIds' \subseteq settledIds \cup {plan[next].id},
         UNCHANGED <<announced, offered, epoch, plan>>, ContinueFrom(plan, next + 1)
  PROVE  Order'
<1>1. /\ next \in 1..Len(plan) /\ DOMAIN plan = 1..Len(plan) /\ Len(plan) \in Nat
      /\ next \in Nat /\ next + 1 \in 1..(Len(plan) + 1) /\ next <= next + 1
      /\ \A l \in DOMAIN plan : l < next + 1 <=> l < next \/ l = next
      /\ \A l \in DOMAIN plan : l <= next <=> l < next + 1
      /\ plan \in Seq(Entries) /\ next \in DOMAIN plan
  BY DEF TypeOK, RoundInv
<1>2. /\ DOMAIN completedOutputs' = 1..next
      /\ \A l \in 1..(next - 1) : completedOutputs'[l] = plan[l]
      /\ completedOutputs'[next] = plan[next]
  BY <1>1 DEF WithOutput
<1>3. Finalizing
  BY DEF Finalizing
<1>4. \A l \in DOMAIN completedOutputs' : l \in DOMAIN plan /\
        l < next + 1 /\ completedOutputs'[l] = plan[l] /\ rows'[plan[l].id] = "done"
  BY <1>1, <1>2
<1>5. \A l \in DOMAIN plan : l < next + 1 => l \in DOMAIN completedOutputs'
  BY <1>1, <1>2
<1>6. \A c \in Calls : /\ rows'[c] \in {"pending", "running"} => c \in Ids(announced')
                       /\ rows[c] = "done" => rows'[c] = "done"
                       /\ rows[c] = "running" => rows'[c] \in {"running", "done"}
  BY DEF RowInv
<1>7. \A c \in settledIds' : rows'[c] = "done"
  BY DEF RowInv, TypeOK
<1>8. /\ \A l \in DOMAIN plan : l < next + 1 /\ IsWrite(plan[l]) => Ended(Main(plan[l].id))
      /\ \A l \in DOMAIN plan : stage[Main(plan[l].id)] # "none" => l < next + 1 /\ l <= next
      /\ \A l \in DOMAIN plan : l < next + 1 => plan[l].id \notin inFlight
  BY <1>1, <1>3 DEF PlanInv
<1>9. /\ \A l, m \in DOMAIN plan : l # m => plan[l].id # plan[m].id
      /\ \A l \in DOMAIN plan : plan[l].id \in Ids(announced')
      /\ \A l, m \in DOMAIN plan : l < m /\ Begun(plan[m].id) =>
           offered[plan[l].id] # NoInput /\ Safe(plan[l].id, offered[plan[l].id])
      /\ next \in 1..(Len(plan) + 1)
  BY <1>3 DEF PlanInv
<1> QED
  BY <1>1, <1>4, <1>5, <1>6, <1>7, <1>8, <1>9, ContinueOrder

(* An entry that cannot execute is answered with its row finished.         *)
LEMMA FlushThenErrorOrder == ASSUME IOrder, FlushThenError PROVE Order'
<1>1. /\ phase = "batch" /\ next <= Len(plan)
      /\ \A x \in batch : stage[x] = "settled" /\ Ended(x)
      /\ ~IsWrite(plan[next])
      /\ completedOutputs' = WithOutput(WithBatchOutputs, next, plan[next])
      /\ settledIds' = settledIds \cup {plan[next].id}
      /\ rows' = RowsTerminal(RowsStart(rows, plan[next].id), plan[next].id)
      /\ ContinueFrom(plan, next + 1) /\ UNCHANGED <<announced, offered, epoch, plan>>
  BY DEF FlushThenError, BatchEnded, IsWrite
<1>2. next \in DOMAIN plan /\ plan[next].id \in Calls
  <2>1. next \in DOMAIN plan
    BY <1>1 DEF TypeOK, RoundInv
  <2> QED
    BY <2>1, PlanEntry DEF TypeOK
<1>3. /\ rows'[plan[next].id] = "done"
      /\ \A c \in Calls : c # plan[next].id => rows'[c] = rows[c]
  <2>1. rows \in [Calls -> Rows] /\ RowsStart(rows, plan[next].id) \in [Calls -> Rows]
    BY <1>2, RowsType DEF TypeOK
  <2> QED
    BY <1>1, <1>2, <2>1, EventRows
<1>4. /\ DOMAIN WithBatchOutputs = 1..(next - 1)
      /\ \A l \in DOMAIN WithBatchOutputs : /\ WithBatchOutputs[l] = plan[l]
                                            /\ plan[l].id \in Calls
                                            /\ rows'[plan[l].id] = "done"
  <2>1. \A l \in DOMAIN WithBatchOutputs : l \in DOMAIN plan /\ plan[l].id \in Calls
    BY <1>1, BatchAnswers, PlanEntry DEF TypeOK
  <2> QED
    BY <1>1, <1>3, <2>1, BatchAnswers, BatchRows
<1>5. \A x \in Executions : x[1] = epoch /\ x[3] = "main" /\ stage[x] = "settled" =>
        \E l \in DOMAIN completedOutputs' : completedOutputs'[l] = OutputOf(x)
  <2> SUFFICES ASSUME NEW x \in Executions, x[1] = epoch, x[3] = "main", stage[x] = "settled"
               PROVE  \E l \in DOMAIN WithBatchOutputs : l # next /\ WithBatchOutputs[l] = OutputOf(x)
    BY <1>1 DEF WithOutput
  <2>1. \E l \in DOMAIN WithBatchOutputs : WithBatchOutputs[l] = OutputOf(x)
    <3>1. CASE x \in batch
      BY <1>1, <3>1, BatchAnswers
    <3>2. CASE x \notin batch
      BY <1>1, <1>4, <3>2, BatchAnswers DEF OutputInv, Finalizing
    <3> QED
      BY <3>1, <3>2
  <2>2. next \in Nat
    BY DEF TypeOK
  <2> QED
    BY <1>4, <2>1, <2>2
<1> QED
  BY <1>1, <1>3, <1>4, <1>5, AnswerOrder

(* A write that settled is answered; one that rejected ends the round.     *)
LEMMA WriteEndedOrder == ASSUME IOrder, WriteEnded PROVE Order'
<1> DEFINE x == Main(plan[next].id)
<1>1. /\ phase = "serial" /\ Ended(x)
      /\ UNCHANGED <<announced, offered, settledIds, epoch, plan, rows>>
  BY DEF WriteEnded
<1>2. /\ next \in 1..Len(plan) /\ next <= Len(plan) /\ next \in DOMAIN plan /\ next \in Nat
      /\ batch = {x} /\ \A y \in batch : Ended(y)
  BY <1>1 DEF TypeOK, RoundInv
<1>3. ~Over /\ Finalizing /\ x \in Executions
  BY <1>1, <1>2 DEF Over, Finalizing, TypeOK
<1>4. CASE stage[x] # "settled"
  <2>1. phase' = "failed" /\ UNCHANGED <<completedOutputs, next, batch, inFlight, stage, ran, discarded>>
    BY <1>4 DEF WriteEnded
  <2>2. ~Over' /\ Finalizing'
    BY <2>1 DEF Over, Finalizing
  <2> USE DriverFrame
  <2>3. ExecInv'
    BY <1>1, <1>2, <1>3, <2>1, <2>2 DEF ExecInv, InForce, Live, Ended, TypeOK
  <2>4. StreamInv'
    BY <2>1 DEF StreamInv
  <2>5. PlanInv'
    BY <1>1, <1>3, <2>1, <2>2 DEF PlanInv
  <2>6. OutputInv'
    BY <1>1, <1>2, <1>3, <1>4, <2>1, <2>2 DEF OutputInv
  <2>7. RowInv'
    BY <1>1, <1>3, <2>1, <2>2 DEF RowInv
  <2> QED
    BY <2>3, <2>4, <2>5, <2>6, <2>7
<1>5. CASE stage[x] = "settled"
  <2>1. /\ completedOutputs' = WithOutput(completedOutputs, next, OutputOf(x))
        /\ ContinueFrom(plan, next + 1)
    BY <1>5 DEF WriteEnded
  <2>2. plan[next] \in Entries /\ plan[next].id \in Calls
    <3>1. plan[next] \in Entries
      BY <1>2 DEF TypeOK
    <3> QED
      BY <3>1 DEF Entries
  <2>3. OutputOf(x) = plan[next]
    BY <1>1, <2>2, NameFacts DEF PlanInv, OutputOf, Entries
  <2>4. rows'[plan[next].id] = "done"
    BY <1>1, <1>3, <1>5, <2>2, NameFacts DEF RowInv
  <2>5. /\ DOMAIN completedOutputs = 1..(next - 1)
        /\ \A l \in DOMAIN completedOutputs : completedOutputs[l] = plan[l] /\ rows'[plan[l].id] = "done"
    BY <1>1, <1>3 DEF OutputInv, RowInv
  <2>6. \A y \in Executions : y[1] = epoch /\ y[3] = "main" /\ stage[y] = "settled" =>
          \E l \in DOMAIN completedOutputs' : completedOutputs'[l] = OutputOf(y)
    <3> SUFFICES ASSUME NEW y \in Executions, y[1] = epoch, y[3] = "main", stage[y] = "settled"
                 PROVE  \E l \in DOMAIN completedOutputs' : completedOutputs'[l] = OutputOf(y)
      OBVIOUS
    <3>1. CASE y = x
      BY <2>1, <3>1 DEF WithOutput
    <3>2. CASE y # x
      <4>1. PICK l \in DOMAIN completedOutputs : completedOutputs[l] = OutputOf(y)
        BY <1>2, <1>3, <3>2 DEF OutputInv
      <4>2. l # next
        BY <1>2, <2>5, <4>1
      <4> QED
        BY <2>1, <4>1, <4>2 DEF WithOutput
    <3> QED
      BY <3>1, <3>2
  <2> HIDE DEF x
  <2> QED
    BY <1>1, <1>2, <1>3, <2>1, <2>3, <2>4, <2>5, <2>6, AnswerOrder DEF x
<1> QED
  BY <1>4, <1>5

(* A write starts once its batch has settled: nothing else is in force.    *)
LEMMA FlushThenWriteOrder == ASSUME IOrder, FlushThenWrite PROVE Order'
<1> DEFINE x == Main(plan[next].id)
<1>1. /\ phase = "batch" /\ next <= Len(plan) /\ phase' = "serial" /\ batch' = {x}
      /\ \A y \in batch : stage[y] = "settled"
      /\ IsWrite(plan[next]) /\ completedOutputs' = WithBatchOutputs
      /\ stage' = [stage EXCEPT ![x] = "pre"]
      /\ ran' = [ran EXCEPT ![x] = plan[next].input]
      /\ UNCHANGED <<announced, offered, inFlight, settledIds, epoch, plan, next,
                     discarded, rows>>
  BY DEF FlushThenWrite, BatchEnded, IsWrite
<1>2. /\ next \in DOMAIN plan /\ DOMAIN plan = 1..Len(plan) /\ next \in Nat
      /\ next \in 1..(Len(plan) + 1) /\ \A k \in DOMAIN plan : k \in Nat
  BY <1>1 DEF TypeOK, RoundInv
<1>3. \A k \in DOMAIN plan : plan[k].id \in Calls
  BY PlanEntry DEF TypeOK
<1>4. ~Over /\ ~Over' /\ Finalizing /\ Finalizing' /\ epoch <= MaxRetries
  BY <1>1 DEF Over, Finalizing, RoundInv
<1>5. \A c \in Calls : /\ Early(c)' = Early(c) /\ Main(c)' = Main(c)
                       /\ Early(c) \in Executions /\ Main(c) \in Executions
                       /\ Early(c)[3] = "early"
                       /\ Main(c)[1] = epoch /\ Main(c)[2] = c /\ Main(c)[3] = "main"
  BY <1>1, <1>4, NameFacts
<1>6. /\ x \in Executions /\ x[1] = epoch /\ x[2] = plan[next].id /\ x[3] = "main"
      /\ \A k \in DOMAIN plan : k # next => Main(plan[k].id) # x
  BY <1>2, <1>3, <1>4, <1>5 DEF PlanInv
<1> HIDE DEF x
<1>7. /\ \A y \in Executions : y # x => stage'[y] = stage[y] /\ ran'[y] = ran[y]
      /\ stage'[x] = "pre" /\ ran'[x] = plan[next].input
  BY <1>1, <1>6 DEF TypeOK
<1>8. \A c \in Calls : Begun(c)' <=> Begun(c)
  BY <1>5, <1>6, <1>7 DEF Begun
<1>9. ExecInv'
  <2>1. \A y \in Executions : InForce(y)' =>
          y[1] = epoch' /\ (y \in batch' \/ (y[3] = "early" /\ y[2] \in inFlight'))
    <3> SUFFICES ASSUME NEW y \in Executions, InForce(y)', y # x
                 PROVE  y[1] = epoch /\ y[3] = "early" /\ y[2] \in inFlight
      BY <1>1, <1>6
    <3>1. InForce(y) /\ stage[y] # "settled"
      BY <1>1, <1>7 DEF InForce, Live
    <3> QED
      BY <1>1, <3>1 DEF ExecInv
  <2>2. \A y \in Executions : Live(y)' /\ y[3] = "main" => y \in batch'
    BY <1>1, <1>7 DEF ExecInv, Live
  <2>3. \A y \in Executions : stage'[y] # "none" => y[1] <= epoch'
    BY <1>1, <1>6, <1>7 DEF ExecInv, TypeOK
  <2>4. x[2] \notin inFlight'
    BY <1>1, <1>2, <1>6 DEF PlanInv
  <2>5. \A c \in inFlight' : Begun(c)'
    BY <1>1, <1>8 DEF ExecInv, TypeOK
  <2> QED
    BY <1>1, <1>4, <1>6, <2>1, <2>2, <2>3, <2>4, <2>5 DEF ExecInv
<1>10. StreamInv'
  BY <1>1 DEF StreamInv
<1>11. PlanInv'
  <2>1. \A k \in DOMAIN plan : k < next /\ IsWrite(plan[k]) => Ended(Main(plan[k].id))'
    <3> SUFFICES ASSUME NEW k \in DOMAIN plan, k < next, IsWrite(plan[k])
                 PROVE  stage'[Main(plan[k].id)] \in {"settled", "rejected"}
      BY <1>1, <1>3, <1>5 DEF Ended
    <3>1. Ended(Main(plan[k].id)) /\ Main(plan[k].id) # x
      BY <1>2, <1>4, <1>6 DEF PlanInv
    <3> QED
      BY <1>3, <1>5, <1>7, <3>1 DEF Ended
  <2>2. \A k \in DOMAIN plan : stage'[Main(plan[k].id)] # "none" => k <= next
    BY <1>2, <1>3, <1>4, <1>5, <1>6, <1>7 DEF PlanInv
  <2>3. \A k \in DOMAIN plan : /\ Begun(plan[k].id)' <=> Begun(plan[k].id)
                               /\ Main(plan[k].id)' = Main(plan[k].id)
    BY <1>1, <1>3, <1>5, <1>8
  <2>4. ran'[Main(plan[next].id)] = plan[next].input
    BY <1>7 DEF x
  <2> QED
    BY <1>1, <1>2, <1>4, <2>1, <2>2, <2>3, <2>4 DEF PlanInv, IsWrite
<1>12. OutputInv'
  <2>1. \A y \in Executions : y[1] = epoch /\ y[3] = "main" /\ stage'[y] = "settled" =>
          \E k \in DOMAIN WithBatchOutputs : WithBatchOutputs[k] = OutputOf(y)'
    <3> SUFFICES ASSUME NEW y \in Executions, y[1] = epoch, y[3] = "main", stage'[y] = "settled"
                 PROVE  \E k \in DOMAIN WithBatchOutputs : WithBatchOutputs[k] = OutputOf(y)'
      OBVIOUS
    <3>1. stage[y] = "settled" /\ OutputOf(y)' = OutputOf(y)
      BY <1>7 DEF OutputOf
    <3>2. CASE y \in batch
      BY <1>1, <3>1, <3>2, BatchAnswers
    <3>3. CASE y \notin batch
      <4>1. PICK k \in DOMAIN completedOutputs : completedOutputs[k] = OutputOf(y)
        BY <1>4, <3>1, <3>3 DEF OutputInv
      <4>2. completedOutputs[k] = plan[k]
        BY <1>4 DEF OutputInv
      <4> QED
        BY <1>1, <3>1, <4>1, <4>2, BatchAnswers
    <3> QED
      BY <3>2, <3>3
  <2> QED
    BY <1>1, <1>4, <2>1, BatchAnswers DEF OutputInv
<1>13. RowInv'
  <2>1. \A y \in Executions : stage'[y] \in {"started", "emitted", "settled"} => stage'[y] = stage[y]
    BY <1>7
  <2> QED
    BY <1>1, <1>4, <2>1, BatchRows, ExecutionFacts DEF RowInv
<1> QED
  BY <1>9, <1>10, <1>11, <1>12, <1>13

----------------------------------------------------------------------------
(* Every step keeps Order.                                                 *)
LEMMA OrderStep == IOrder /\ [Next]_vars => Order'
<1> SUFFICES ASSUME IOrder, [Next]_vars PROVE Order'
  OBVIOUS
<1>1. CASE Stream
  <2>1. CASE \E c \in Calls : Announce(c)
    BY <2>1, AnnounceOrder
  <2>2. CASE \E c \in Calls, i \in Inputs : Offer(c, i)
    BY <2>2, OfferOrder
  <2>3. CASE StreamRetried \/ StreamEnded
    BY <2>3, ResetOrder
  <2>4. CASE \E p \in Plans : \E n \in 0..Len(p) : Finalize(p, n)
    BY <2>4, FinalizeOrder
  <2> QED
    BY <1>1, <2>1, <2>2, <2>3, <2>4 DEF Stream
<1>2. CASE Driver
  BY <1>2, FlushFailsOrder, FlushThenErrorOrder, FlushThenWriteOrder,
     WriteEndedOrder, FinalizeReturnsOrder, ResetOrder DEF Driver
<1>3. CASE \E x \in Executions : Exec(x)
  BY <1>3, ExecOrder
<1>4. CASE CancelTurn \/ UNCHANGED vars
  BY <1>4, IdleOrder DEF CancelTurn, vars
<1> QED
  BY <1>1, <1>2, <1>3, <1>4 DEF Next, Terminated

(* The bookkeeping of executions, list, outputs and rows holds in every    *)
(* behaviour.                                                              *)
THEOREM AlwaysOrder == Spec => []IOrder
<1>1. Init => IOrder
  BY InitIInv, InitOrder
<1>2. IOrder /\ [Next]_vars => IOrder'
  BY NextStep, OrderStep
<1> HIDE DEF IOrder
<1> QED
  BY <1>1, <1>2, PTL DEF Spec

----------------------------------------------------------------------------
(* No tool is safe with one input and a write with another.                *)
LEMMA SafeIsNoWrite ==
  ASSUME IOrder, NEW k \in DOMAIN plan, IsWrite(plan[k]), offered[plan[k].id] # NoInput
  PROVE  ~Safe(plan[k].id, offered[plan[k].id])
<1>1. plan[k].id \in Calls /\ plan[k].input \in Inputs /\ offered[plan[k].id] \in Inputs
  BY PlanEntry DEF TypeOK
<1>2. "error" \in {Kind[<<plan[k].id, plan[k].input>>], Kind[<<plan[k].id, offered[plan[k].id]>>]}
      \/ Kind[<<plan[k].id, plan[k].input>>] = Kind[<<plan[k].id, offered[plan[k].id]>>]
  BY <1>1, RoundAssumption
<1> QED
  BY <1>2 DEF IsWrite, Safe

(* A call behind a write of the list has not begun in any form before the  *)
(* write is over: reads never run ahead of writes, whatever was streamed,  *)
(* re-listed, retried or aborted (ToolCallRound.offer, finalize).          *)
THEOREM RoundKeepsWriteOrder == Spec => []NoReadAheadOfWrite
<1>1. IOrder => NoReadAheadOfWrite
  <2> SUFFICES ASSUME IOrder, Finalizing, NEW a \in DOMAIN plan, NEW b \in DOMAIN plan,
                      a < b, IsWrite(plan[a]), ~Ended(Main(plan[a].id))
               PROVE  stage[Early(plan[b].id)] = "none" /\ stage[Main(plan[b].id)] = "none"
    BY DEF NoReadAheadOfWrite, Finalizing, IsWrite
  <2>1. ~Begun(plan[b].id)
    BY SafeIsNoWrite DEF PlanInv
  <2>2. a \in Nat /\ b \in Nat /\ next \in Nat
    BY PlanEntry DEF TypeOK
  <2>3. stage[Main(plan[b].id)] = "none"
    BY <2>2 DEF PlanInv
  <2> QED
    BY <2>1, <2>3 DEF Begun
<1> QED
  BY <1>1, AlwaysOrder, PTL

(* While a write runs, no other call of the list is live and unaborted.    *)
THEOREM RoundWritesRunAlone == Spec => []WritesRunAlone
<1>1. IOrder => WritesRunAlone
  <2> SUFFICES ASSUME IOrder, phase = "serial", NEW x \in Executions, InForce(x),
                      x[2] \in PlanIds(plan), x # Main(plan[next].id)
               PROVE  FALSE
    BY DEF WritesRunAlone, InForce, Aborted
  <2>1. x[1] = epoch /\ x[3] = "early" /\ x[2] \in inFlight
    BY DEF ExecInv, RoundInv
  <2>2. PICK k \in DOMAIN plan : x[2] = plan[k].id
    BY DEF PlanIds
  <2>3. Begun(plan[k].id)
    BY <2>1, <2>2, ExecutionFacts DEF Begun, InForce, Live
  <2>4. next \in DOMAIN plan /\ next < k
    BY <2>1, <2>2, PlanEntry DEF PlanInv, RoundInv, TypeOK
  <2> QED
    BY <2>3, <2>4, SafeIsNoWrite DEF PlanInv, Finalizing
<1> QED
  BY <1>1, AlwaysOrder, PTL

(* No call ever has two executions that may both still emit events.        *)
THEOREM RoundRunsCallsOnce == Spec => []OneLiveExecutionPerCall
<1>1. IOrder => OneLiveExecutionPerCall
  <2> SUFFICES ASSUME IOrder, NEW x \in Executions, NEW y \in Executions,
                      InForce(x), InForce(y), x[2] = y[2]
               PROVE  x = y
    BY DEF OneLiveExecutionPerCall, InForce, Aborted
  <2>1. CASE x \in batch \/ y \in batch
    <3>1. phase \in {"batch", "serial"}
      BY <2>1 DEF ExecInv, InForce, Live, Ended
    <3> QED
      BY <2>1, <3>1 DEF ExecInv
  <2>2. CASE x \notin batch /\ y \notin batch
    BY <2>2, ExecutionFacts DEF ExecInv
  <2> QED
    BY <2>1, <2>2
<1> QED
  BY <1>1, AlwaysOrder, PTL

(* A round that completes answers exactly its list, in order, each output  *)
(* from an execution that ran with the listed input.                       *)
THEOREM RoundAnswersItsList == Spec => []OutputsMatchPlan
<1>1. IOrder => OutputsMatchPlan
  BY DEF OutputInv, OutputsMatchPlan
<1> QED
  BY <1>1, AlwaysOrder, PTL

(* A round that throws leaves nothing of its own running and has kept the  *)
(* output of every call it saw through (flushBatch, allSettled).           *)
THEOREM RoundThrowsQuietly == Spec => []InterruptedRoundIsQuiet
<1>1. IOrder => InterruptedRoundIsQuiet
  BY DEF InterruptedRoundIsQuiet, ExecInv, OutputInv, Finalizing, Live, Ended
<1> QED
  BY <1>1, AlwaysOrder, PTL

(* When the round is over no row it announced is pending or running.       *)
THEOREM RoundResolvesRows == Spec => []RowsResolved
<1>1. IOrder => RowsResolved
  BY DEF RowsResolved, RowInv, TypeOK, Rows, Over
<1> QED
  BY <1>1, AlwaysOrder, PTL

(* A row that was finished stays finished, whatever is retracted, retried  *)
(* or announced again.                                                     *)
THEOREM RoundKeepsFinishedRows == Spec => []TerminalRowsKept
<1>1. IOrder => TerminalRowsKept
  BY DEF TerminalRowsKept, RowInv
<1> QED
  BY <1>1, AlwaysOrder, PTL
=============================================================================
