------------------------------ MODULE ToolRound ------------------------------
(***************************************************************************)
(* One round of tool calls: ToolCallRound (core/tools/ToolScheduler.ts),   *)
(* the executions it starts (core/tools/ToolInvocationRunner.ts) and the   *)
(* transcript rows the user interface derives from their events            *)
(* (state/Store.ts).                                                       *)
(*                                                                         *)
(* While the provider's answer is streaming, calls are announced (a row    *)
(* appears) and offered (their arguments are complete); a read may start   *)
(* early.  finalize() then receives the authoritative list, reuses the     *)
(* early executions whose input still matches, runs consecutive            *)
(* concurrency-safe calls together and every other call alone and in       *)
(* order.  The stream may fail and be retried, and the turn may be         *)
(* cancelled, at any moment.                                               *)
(*                                                                         *)
(* An execution is identified by the attempt (epoch) it belongs to, its    *)
(* call, and whether it was started early or by finalize: at most one of   *)
(* each exists.                                                            *)
(***************************************************************************)
EXTENDS Naturals, Sequences, FiniteSets

CONSTANTS
  Calls,       \* the ids of the calls the provider may stream or list
  Inputs,      \* the distinct inputs a call may carry
  Kind,        \* what planner.build says of a call with an input
  NoInput,     \* a call that has not been offered
  MaxRetries   \* streamServerErrorRetries(): attempts after the first

(* A "read" is concurrency-safe and read-only, an "agent" concurrency-safe *)
(* but write-capable, a "write" neither; an "error" entry (unknown tool,   *)
(* disabled tool, invalid arguments) never executes.  No tool decides      *)
(* whether it is concurrency-safe from its input, so the input of a call   *)
(* only decides whether it can execute at all.                             *)
Kinds == {"read", "agent", "write", "error"}

ASSUME RoundAssumption ==
  /\ IsFiniteSet(Calls)
  /\ Kind \in [Calls \X Inputs -> Kinds]
  /\ \A c \in Calls, i, j \in Inputs :
       "error" \in {Kind[<<c, i>>], Kind[<<c, j>>]}
       \/ Kind[<<c, i>>] = Kind[<<c, j>>]
  /\ NoInput \notin Inputs
  /\ MaxRetries \in Nat

VARIABLES
  announced,        \* ids with a row, in the order the round learnt of them
  offered,          \* the input each call was offered with, or NoInput
  inFlight,         \* calls whose early execution finalize has not taken
  settledIds,       \* ids known to have reached a terminal event
  completedOutputs, \* outputs collected so far, by the plan position answered
  epoch,            \* bumped by every cleanup
  earlyStartBlocked,
  phase,            \* where the round's driver stands
  plan,             \* the authoritative list, once finalize has it
  next,             \* the plan position that ends the current batch
  batch,            \* the executions flushBatch is waiting for
  stage,            \* how far each execution has come
  ran,              \* the input each execution runs with
  discarded,        \* executions aborted on their own
  turnAborted,      \* ctx.signal.aborted
  rows              \* the transcript rows

roundVars == <<announced, offered, inFlight, settledIds, completedOutputs,
               epoch, earlyStartBlocked>>
finalizeVars == <<phase, plan, next, batch>>
execVars == <<stage, ran, discarded>>
vars == <<roundVars, finalizeVars, execVars, turnAborted, rows>>

Safe(c, i) == Kind[<<c, i>>] \in {"read", "agent"}

Entries == [id : Calls, input : Inputs]
Executions == (0..MaxRetries) \X Calls \X {"early", "main"}
Stages == {"none", "pre", "started", "emitted", "settled", "rejected"}
Phases == {"streaming", "batch", "serial", "failed", "done", "closed"}
Rows == {"none", "pending", "running", "done"}

Early(c) == <<epoch, c, "early">>
Main(c) == <<epoch, c, "main">>

Ids(s) == {s[k] : k \in DOMAIN s}
PlanIds(p) == {p[k].id : k \in DOMAIN p}

Aborted(x) == turnAborted \/ x \in discarded
Live(x) == stage[x] \in {"pre", "started", "emitted"}
Ended(x) == stage[x] \in {"settled", "rejected"}

Init ==
  /\ announced = <<>>
  /\ offered = [c \in Calls |-> NoInput]
  /\ inFlight = {}
  /\ settledIds = {}
  /\ completedOutputs = <<>>
  /\ epoch = 0
  /\ earlyStartBlocked = FALSE
  /\ phase = "streaming"
  /\ plan = <<>>
  /\ next = 1
  /\ batch = {}
  /\ stage = [x \in Executions |-> "none"]
  /\ ran = [x \in Executions |-> NoInput]
  /\ discarded = {}
  /\ turnAborted = FALSE
  /\ rows = [c \in Calls |-> "none"]

-----------------------------------------------------------------------------
(* What the store does with the events a round emits.                      *)

\* tool:pending inserts a row or refreshes a pending one.
RowsPending(r, S) ==
  [c \in Calls |-> IF c \in S /\ r[c] = "none" THEN "pending" ELSE r[c]]

\* tool:start never downgrades a finished row.
RowsStart(r, c) == [r EXCEPT ![c] = IF @ = "done" THEN @ ELSE "running"]

\* tool:result and tool:error finish a row that exists.
RowsTerminal(r, c) == [r EXCEPT ![c] = IF @ = "none" THEN @ ELSE "done"]

\* Variant, refuted: retraction deletes finished rows too.
RowsRetractAny(r, S) == [c \in Calls |-> IF c \in S THEN "none" ELSE r[c]]

\* tool:retracted drops unfinished rows only.
RowsRetract(r, S) ==
  [c \in Calls |-> IF c \in S /\ r[c] # "done" THEN "none" ELSE r[c]]

-----------------------------------------------------------------------------
(* The streaming side: EarlyToolSink.                                      *)

Announce(c) ==
  /\ phase = "streaming"
  /\ c \notin Ids(announced)
  /\ announced' = Append(announced, c)
  /\ rows' = RowsPending(rows, {c})
  /\ UNCHANGED <<offered, inFlight, settledIds, completedOutputs, epoch,
                 earlyStartBlocked, finalizeVars, execVars, turnAborted>>

\* offer() adds to both sets, so comparing their sizes (as the code does) is
\* asking whether every announced call has been offered.
AllOffered(ann, off) == \A k \in DOMAIN ann : off[ann[k]] # NoInput

\* Variant, refuted: a call may start ahead of calls still streaming.
StartableAhead(c, i, ann, off) ==
  Safe(c, i) /\ ~earlyStartBlocked /\ Kind[<<c, i>>] = "read"

\* Variant, refuted: a write that was offered does not block early starts.
StartableUnblocked(c, i, ann, off) ==
  Safe(c, i) /\ AllOffered(ann, off) /\ Kind[<<c, i>>] = "read"

Startable(c, i, ann, off) ==
  /\ Safe(c, i)
  /\ ~earlyStartBlocked
  /\ AllOffered(ann, off)
  /\ Kind[<<c, i>>] = "read"

Offer(c, i) ==
  /\ phase = "streaming"
  /\ offered[c] = NoInput
  /\ offered' = [offered EXCEPT ![c] = i]
  /\ announced' = IF c \in Ids(announced) THEN announced
                                          ELSE Append(announced, c)
  /\ rows' = RowsPending(rows, {c})
  /\ earlyStartBlocked' = (earlyStartBlocked \/ ~Safe(c, i))
  /\ IF Startable(c, i, announced', offered')
       THEN /\ inFlight' = inFlight \cup {c}
            /\ stage' = [stage EXCEPT ![Early(c)] = "pre"]
            /\ ran' = [ran EXCEPT ![Early(c)] = i]
       ELSE UNCHANGED <<inFlight, stage, ran>>
  /\ UNCHANGED <<settledIds, completedOutputs, epoch, finalizeVars,
                 discarded, turnAborted>>

\* Variant, refuted: executions in flight are forgotten, not aborted.
CleanupForgets(confirmed) ==
  /\ rows' = RowsRetract(rows, Ids(announced) \ (confirmed \cup settledIds))
  /\ announced' = <<>>
  /\ offered' = [c \in Calls |-> NoInput]
  /\ inFlight' = {}
  /\ settledIds' = {}
  /\ epoch' = epoch + 1
  /\ UNCHANGED discarded

\* The shared tail of reset() and finalize(): abort what is in flight,
\* retract the rows that are neither confirmed nor finished, start afresh.
Cleanup(confirmed) ==
  /\ discarded' = discarded \cup {Early(c) : c \in inFlight}
  /\ rows' = RowsRetract(rows, Ids(announced) \ (confirmed \cup settledIds))
  /\ announced' = <<>>
  /\ offered' = [c \in Calls |-> NoInput]
  /\ inFlight' = {}
  /\ settledIds' = {}
  /\ epoch' = epoch + 1

Reset ==
  /\ Cleanup({})
  /\ completedOutputs' = <<>>
  /\ earlyStartBlocked' = FALSE

\* Variant, refuted: one attempt too many.
StreamRetriedOnceMore ==
  /\ phase = "streaming"
  /\ ~turnAborted
  /\ epoch <= MaxRetries
  /\ Reset
  /\ UNCHANGED <<finalizeVars, stage, ran, turnAborted>>

\* consumeWithRetry: a retryable failure resets the round and streams again.
StreamRetried ==
  /\ phase = "streaming"
  /\ ~turnAborted
  /\ epoch < MaxRetries
  /\ Reset
  /\ UNCHANGED <<finalizeVars, stage, ran, turnAborted>>

\* The stream ends without a list to finalize: it completed, failed for good,
\* or the turn was cancelled.
StreamEnded ==
  /\ phase = "streaming"
  /\ Reset
  /\ phase' = "closed"
  /\ UNCHANGED <<plan, next, batch, stage, ran, turnAborted>>

-----------------------------------------------------------------------------
(* finalize().  Between two awaits it runs without interruption, so each   *)
(* action below is one such stretch.                                       *)

\* The first position from k on that cannot join a batch.
BatchEnd(p, k) ==
  CHOOSE m \in k..(Len(p) + 1) :
    /\ m <= Len(p) => ~Safe(p[m].id, p[m].input)
    /\ \A l \in k..(m - 1) : Safe(p[l].id, p[l].input)

\* Variant, refuted: an early result is reused whatever its input was.
ReusableAnyInput(p, m) == p[m].id \in inFlight

\* takeMatchingEarlyExecution
Reusable(p, m) ==
  /\ p[m].id \in inFlight
  /\ ran[Early(p[m].id)] = p[m].input

\* The loop over plan from position k: reuse or start every entry up to the
\* next one that must run alone, and abort the early executions whose input
\* the list contradicts.
RunBatchFrom(p, k) ==
  LET end     == BatchEnd(p, k)
      members == k..(end - 1)
      visited == members \cup ({end} \cap DOMAIN p)
      reused  == {m \in members : Reusable(p, m)}
      started == {Main(p[m].id) : m \in members \ reused}
  IN /\ next' = end
     /\ phase' = "batch"
     /\ batch' = {Early(p[m].id) : m \in reused} \cup started
     /\ stage' = [x \in Executions |->
                    IF x \in started THEN "pre" ELSE stage[x]]
     /\ ran' = [x \in Executions |->
                  IF x \in started
                    THEN p[CHOOSE m \in members : Main(p[m].id) = x].input
                    ELSE ran[x]]
     /\ inFlight' = inFlight \ {p[m].id : m \in visited}
     /\ discarded' = discarded \cup
          {Early(p[m].id) : m \in {v \in visited \ reused :
                                     p[v].id \in inFlight}}

\* The abort check that opens every iteration.
ContinueFrom(p, k) ==
  IF k <= Len(p) /\ turnAborted
    THEN /\ phase' = "failed"
         /\ UNCHANGED <<next, batch, inFlight, stage, ran, discarded>>
    ELSE RunBatchFrom(p, k)

\* The lists the provider may send.  They respect the order in which calls
\* were streamed, may drop streamed calls, may carry other inputs, and may
\* append calls that were never streamed: the first n entries were streamed.
ConsistentPlan(p, n) ==
  /\ \A k, l \in DOMAIN p : k # l => p[k].id # p[l].id
  /\ \A k \in DOMAIN p : k > n => p[k].id \notin Ids(announced)
  /\ \E at \in [1..n -> DOMAIN announced] :
       /\ \A k \in 1..n : announced[at[k]] = p[k].id
       /\ \A k, l \in 1..n : k < l => at[k] < at[l]

Finalize(p, n) ==
  /\ phase = "streaming"
  /\ p # <<>>
  /\ ConsistentPlan(p, n)
  /\ plan' = p
  /\ announced' = announced \o [k \in 1..(Len(p) - n) |-> p[n + k].id]
  /\ rows' = RowsPending(rows, PlanIds(p))
  /\ completedOutputs' = <<>>
  /\ ContinueFrom(p, 1)
  /\ UNCHANGED <<offered, settledIds, epoch, earlyStartBlocked, turnAborted>>

BatchEnded ==
  /\ phase = "batch"
  /\ \A x \in batch : Ended(x)

\* What execution x answers: an output for the input it ran with.
OutputOf(x) == [id |-> x[2], input |-> ran[x]]

\* The array, with the outputs of the batch's fulfilled members pushed.
\* Batches are consecutive stretches of the plan and allSettled keeps their
\* order, so the array is completedOutputs read in the order of its domain.
WithBatchOutputs ==
  LET answered == {k \in DOMAIN plan : \E x \in batch :
                     x[2] = plan[k].id /\ stage[x] = "settled"}
      executionOf(k) == CHOOSE x \in batch : x[2] = plan[k].id
  IN [k \in answered \cup DOMAIN completedOutputs |->
        IF k \in answered THEN OutputOf(executionOf(k))
                          ELSE completedOutputs[k]]

WithOutput(outputs, k, output) ==
  [l \in {k} \cup DOMAIN outputs |-> IF l = k THEN output ELSE outputs[l]]

\* Variant, refuted: the first failure is thrown while siblings still run.
FlushFailsFast ==
  /\ phase = "batch"
  /\ \E x \in batch : stage[x] = "rejected"
  /\ phase' = "failed"
  /\ batch' = {}
  /\ UNCHANGED <<announced, offered, inFlight, settledIds, completedOutputs,
                 epoch, earlyStartBlocked, plan, next, execVars, turnAborted,
                 rows>>

\* flushBatch keeps what succeeded, then throws the first failure.
FlushFails ==
  /\ BatchEnded
  /\ \E x \in batch : stage[x] = "rejected"
  /\ completedOutputs' = WithBatchOutputs
  /\ phase' = "failed"
  /\ batch' = {}
  /\ UNCHANGED <<announced, offered, inFlight, settledIds, epoch,
                 earlyStartBlocked, plan, next, execVars, turnAborted, rows>>

\* After a clean flush an entry that cannot execute is answered at once.
FlushThenError ==
  /\ BatchEnded
  /\ \A x \in batch : stage[x] = "settled"
  /\ next <= Len(plan)
  /\ Kind[<<plan[next].id, plan[next].input>>] = "error"
  /\ completedOutputs' = WithOutput(WithBatchOutputs, next, plan[next])
  /\ settledIds' = settledIds \cup {plan[next].id}
  /\ rows' = RowsTerminal(RowsStart(rows, plan[next].id), plan[next].id)
  /\ ContinueFrom(plan, next + 1)
  /\ UNCHANGED <<announced, offered, epoch, earlyStartBlocked, plan,
                 turnAborted>>

\* Variant, refuted: the write does not wait for the batch before it.
FlushThenWriteUnawaited ==
  /\ phase = "batch"
  /\ next <= Len(plan)
  /\ Kind[<<plan[next].id, plan[next].input>>] = "write"
  /\ phase' = "serial"
  /\ batch' = {Main(plan[next].id)}
  /\ stage' = [stage EXCEPT ![Main(plan[next].id)] = "pre"]
  /\ ran' = [ran EXCEPT ![Main(plan[next].id)] = plan[next].input]
  /\ UNCHANGED <<announced, offered, inFlight, settledIds, epoch,
                 completedOutputs, earlyStartBlocked, plan, next, discarded,
                 turnAborted, rows>>

\* ... and a write is run alone.
FlushThenWrite ==
  /\ BatchEnded
  /\ \A x \in batch : stage[x] = "settled"
  /\ next <= Len(plan)
  /\ Kind[<<plan[next].id, plan[next].input>>] = "write"
  /\ completedOutputs' = WithBatchOutputs
  /\ phase' = "serial"
  /\ batch' = {Main(plan[next].id)}
  /\ stage' = [stage EXCEPT ![Main(plan[next].id)] = "pre"]
  /\ ran' = [ran EXCEPT ![Main(plan[next].id)] = plan[next].input]
  /\ UNCHANGED <<announced, offered, inFlight, settledIds, epoch,
                 earlyStartBlocked, plan, next, discarded, turnAborted, rows>>

\* Variant, refuted: the rejection of an aborted write is not awaited.
WriteEndedIfSettled ==
  /\ phase = "serial"
  /\ stage[Main(plan[next].id)] = "settled"
  /\ completedOutputs' =
       WithOutput(completedOutputs, next, OutputOf(Main(plan[next].id)))
  /\ ContinueFrom(plan, next + 1)
  /\ UNCHANGED <<announced, offered, settledIds, epoch, earlyStartBlocked,
                 plan, turnAborted, rows>>

WriteEnded ==
  /\ phase = "serial"
  /\ Ended(Main(plan[next].id))
  /\ IF stage[Main(plan[next].id)] = "settled"
       THEN /\ completedOutputs' =
                 WithOutput(completedOutputs, next, OutputOf(Main(plan[next].id)))
            /\ ContinueFrom(plan, next + 1)
       ELSE /\ phase' = "failed"
            /\ UNCHANGED <<completedOutputs, next, batch, inFlight, stage,
                           ran, discarded>>
  /\ UNCHANGED <<announced, offered, settledIds, epoch, earlyStartBlocked,
                 plan, turnAborted, rows>>

FinalizeReturns ==
  /\ BatchEnded
  /\ \A x \in batch : stage[x] = "settled"
  /\ next > Len(plan)
  /\ completedOutputs' = WithBatchOutputs
  /\ phase' = "done"
  /\ batch' = {}
  /\ Cleanup(PlanIds(plan))
  /\ UNCHANGED <<earlyStartBlocked, plan, next, stage, ran, turnAborted>>

\* ToolRoundProcessor.process reads completedToolOutputs(), records the round
\* as interrupted, and its finally resets the round.
InterruptedRoundReset ==
  /\ phase = "failed"
  /\ Reset
  /\ phase' = "closed"
  /\ UNCHANGED <<plan, next, batch, stage, ran, turnAborted>>

-----------------------------------------------------------------------------
(* One execution: ToolInvocationRunner.run inside runTracked.              *)

ExecFrame == <<announced, offered, inFlight, completedOutputs, epoch,
               earlyStartBlocked, finalizeVars, ran, discarded, turnAborted>>

\* Variant, refuted: tool:start is emitted even once aborted.
ExecStartsUnchecked(x) ==
  /\ stage[x] = "pre"
  /\ stage' = [stage EXCEPT ![x] = "started"]
  /\ rows' = RowsStart(rows, x[2])
  /\ UNCHANGED <<settledIds, ExecFrame>>

\* Past the pre-tool hooks: no event once aborted, otherwise tool:start.
ExecStarts(x) ==
  /\ stage[x] = "pre"
  /\ stage' = [stage EXCEPT ![x] = IF Aborted(x) THEN "rejected"
                                                 ELSE "started"]
  /\ rows' = IF Aborted(x) THEN rows ELSE RowsStart(rows, x[2])
  /\ UNCHANGED <<settledIds, ExecFrame>>

\* A failing pre-tool hook answers at once.  Only a call with a matching
\* hook has one, and such a call is never concurrency-safe.
ExecHookFails(x) ==
  /\ stage[x] = "pre"
  /\ ~Aborted(x)
  /\ Kind[<<x[2], ran[x]>>] = "write"
  /\ stage' = [stage EXCEPT ![x] = "emitted"]
  /\ rows' = RowsTerminal(RowsStart(rows, x[2]), x[2])
  /\ UNCHANGED <<settledIds, ExecFrame>>

\* Permission gate, execution and post-tool hooks are over: the terminal
\* event, unless the call was aborted meanwhile.
ExecEmits(x) ==
  /\ stage[x] = "started"
  /\ stage' = [stage EXCEPT ![x] = IF Aborted(x) THEN "rejected"
                                                 ELSE "emitted"]
  /\ rows' = IF Aborted(x) THEN rows ELSE RowsTerminal(rows, x[2])
  /\ UNCHANGED <<settledIds, ExecFrame>>

\* The permission gate throws although nothing was aborted: the prompt failed,
\* or the rule the user allowed could not be written.  No terminal event.
ExecGateFails(x) ==
  /\ stage[x] = "started"
  /\ ~Aborted(x)
  /\ stage' = [stage EXCEPT ![x] = "rejected"]
  /\ UNCHANGED <<rows, settledIds, ExecFrame>>

\* Variant, refuted: a settle is recorded whatever attempt it belongs to.
ExecSettlesAnyEpoch(x) ==
  /\ stage[x] = "emitted"
  /\ stage' = [stage EXCEPT ![x] = "settled"]
  /\ settledIds' = settledIds \cup {x[2]}
  /\ UNCHANGED <<rows, ExecFrame>>

\* runTracked's continuation, with its epoch check.
ExecSettles(x) ==
  /\ stage[x] = "emitted"
  /\ stage' = [stage EXCEPT ![x] = "settled"]
  /\ settledIds' = IF x[1] = epoch THEN settledIds \cup {x[2]}
                                   ELSE settledIds
  /\ UNCHANGED <<rows, ExecFrame>>

\* The user interrupts the turn, or it is steered or disposed.
CancelTurn ==
  /\ ~turnAborted
  /\ phase \notin {"done", "closed"}
  /\ turnAborted' = TRUE
  /\ UNCHANGED <<roundVars, finalizeVars, execVars, rows>>

-----------------------------------------------------------------------------
Plans == UNION {[1..n -> Entries] : n \in 1..Cardinality(Calls)}

Stream ==
  \/ \E c \in Calls : Announce(c) \/ \E i \in Inputs : Offer(c, i)
  \/ StreamRetried
  \/ StreamEnded
  \/ \E p \in Plans : \E n \in 0..Len(p) : Finalize(p, n)

Driver == \/ FlushFails \/ FlushThenError \/ FlushThenWrite
          \/ WriteEnded \/ FinalizeReturns \/ InterruptedRoundReset

Exec(x) == \/ ExecStarts(x) \/ ExecHookFails(x) \/ ExecGateFails(x)
           \/ ExecEmits(x) \/ ExecSettles(x)

\* The round is over and no execution of it is left running.
Terminated ==
  /\ phase \in {"done", "closed"}
  /\ \A x \in Executions : ~Live(x)
  /\ UNCHANGED vars

Next ==
  \/ Stream
  \/ Driver
  \/ \E x \in Executions : Exec(x)
  \/ CancelTurn
  \/ Terminated

Spec == Init /\ [][Next]_vars

\* finalize's continuations run when what they await has settled, and a tool
\* eventually returns (an aborted one rejects).
FairSpec ==
  /\ Spec
  /\ WF_vars(Driver)
  /\ \A x \in Executions : WF_vars(Exec(x))

-----------------------------------------------------------------------------
(* Properties.                                                             *)

(* Every variable keeps its type; early executions in flight belong to the *)
(* current attempt, and a batch waits for executions that exist.           *)
TypeOK ==
  /\ announced \in Seq(Calls)
  /\ offered \in [Calls -> Inputs \cup {NoInput}]
  /\ inFlight \subseteq Calls
  /\ settledIds \subseteq Calls
  /\ DOMAIN completedOutputs \subseteq DOMAIN plan
  /\ \A k \in DOMAIN completedOutputs : completedOutputs[k] \in Entries
  /\ epoch \in 0..(MaxRetries + 1)
  /\ earlyStartBlocked \in BOOLEAN
  /\ phase \in Phases
  /\ plan \in Seq(Entries)
  /\ next \in Nat
  /\ batch \subseteq Executions
  /\ stage \in [Executions -> Stages]
  /\ ran \in [Executions -> Inputs \cup {NoInput}]
  /\ discarded \subseteq Executions
  /\ turnAborted \in BOOLEAN
  /\ rows \in [Calls -> Rows]

(* The state between two actions of the driver: executions exist only for  *)
(* attempts that were made, a batch has inputs to answer for, and the      *)
(* bookkeeping of the stream (offered, announced, inFlight, the early      *)
(* start block) agrees with itself.  This is what makes ReadsStayBehind    *)
(* inductive.                                                              *)
RoundInv ==
  /\ phase \notin {"done", "closed"} => epoch <= MaxRetries
  /\ phase \in {"batch", "serial"} => next \in 1..(Len(plan) + 1)
  /\ phase = "serial" =>
       next <= Len(plan) /\ batch = {Main(plan[next].id)}
  /\ \A x \in batch : ran[x] \in Inputs
  /\ \A c \in inFlight : offered[c] # NoInput
  /\ \A c \in Calls : offered[c] # NoInput =>
       /\ c \in Ids(announced)
       /\ earlyStartBlocked \/ Safe(c, offered[c])

(* A call that is running early was streamed behind offered reads and      *)
(* agents only: whatever the stream delivered before it was complete, and  *)
(* nothing of it was a write (ToolCallRound.offer, allOffered).            *)
ReadsStayBehind ==
  \A k, m \in DOMAIN announced :
    (k < m /\ announced[m] \in inFlight) =>
      /\ offered[announced[k]] # NoInput
      /\ Safe(announced[k], offered[announced[k]])

(* "A read never runs ahead of an earlier write": in the order of the      *)
(* authoritative list, no call after a write has an execution under way    *)
(* before the write is over, early starts and re-runs included.            *)
NoReadAheadOfWrite ==
  phase \in {"batch", "serial", "failed"} =>
    \A a, b \in DOMAIN plan :
      (a < b /\ Kind[<<plan[a].id, plan[a].input>>] = "write"
             /\ ~Ended(Main(plan[a].id)))
        => \A x \in {Early(plan[b].id), Main(plan[b].id)} : stage[x] = "none"

(* A write runs alone: no other call of the list is live beside it, unless *)
(* it has already been aborted.                                            *)
WritesRunAlone ==
  phase = "serial" =>
    \A x \in Executions :
      (Live(x) /\ ~Aborted(x) /\ x[2] \in PlanIds(plan)) =>
        x = Main(plan[next].id)

(* One call never has two executions that may both still emit events, over *)
(* stream retries, discarded early runs and re-runs by finalize.           *)
OneLiveExecutionPerCall ==
  \A x, y \in Executions :
    (Live(x) /\ Live(y) /\ ~Aborted(x) /\ ~Aborted(y) /\ x[2] = y[2])
      => x = y

(* A round that completes answers exactly the list it was given, in its    *)
(* order, each output coming from an execution with the listed input.      *)
OutputsMatchPlan == phase = "done" => completedOutputs = plan

(* A round that fails has nothing of its own still running, and hands over *)
(* the output of every call finalize saw through: what is recorded as      *)
(* interrupted was never completed by it (flushBatch, allSettled).         *)
InterruptedRoundIsQuiet ==
  phase = "failed" =>
    \A x \in Executions : (x[1] = epoch /\ x[3] = "main") =>
      /\ ~Live(x)
      /\ stage[x] = "settled" =>
           \E k \in DOMAIN completedOutputs : completedOutputs[k] = OutputOf(x)

(* Every row the round announced is resolved when the round is over: no    *)
(* spinner is left, whatever was dropped, retried, discarded or aborted.   *)
RowsResolved ==
  phase \in {"done", "closed"} => \A c \in Calls : rows[c] \in {"none", "done"}

(* A call that reached its terminal event keeps a finished row through     *)
(* retractions, retries and re-announcements.                              *)
TerminalRowsKept ==
  \A x \in Executions :
    stage[x] \in {"emitted", "settled"} => rows[x[2]] = "done"

(* settledIds speaks of the current attempt only: an execution abandoned   *)
(* by reset() that settles late does not protect the next attempt's row.   *)
SettledIdsAreCurrent ==
  \A c \in settledIds :
    \/ \E x \in {Early(c), Main(c)} : x \in Executions /\ stage[x] = "settled"
    \/ \E k \in DOMAIN plan : /\ plan[k].id = c
                             /\ Kind[<<c, plan[k].input>>] = "error"

(* Once finalize has started, the round ends: it returns or it is reset.   *)
FinalizeEnds ==
  (phase \in {"batch", "serial", "failed"}) ~> (phase \in {"done", "closed"})
=============================================================================
