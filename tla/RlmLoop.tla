------------------------------- MODULE RlmLoop -------------------------------
(***************************************************************************)
(* One run of a recursive language model agent: core/agent/rlm.            *)
(*                                                                         *)
(* RLMLoop asks the model for code, has LocalReplExecutor run it as a cell *)
(* in a worker thread, and ends with what the code SUBMITs, with an answer *)
(* extracted from the transcript after the last iteration, or with a       *)
(* summary when its RunBudget expires.  The code may ask the model in its  *)
(* turn (llm_query, llm_query_batched), need not await what it asked, and  *)
(* may never return.                                                       *)
(***************************************************************************)
EXTENDS Naturals, Sequences

CONSTANTS
  Queries,         \* bound: calls of llm_query or llm_query_batched
  Sizes,           \* prompts of one such call: one, or more in a batch
  MaxIterations,
  MaxLLMCalls,
  Deadline         \* the run was given a timeoutMs

ASSUME RlmAssumption ==
  /\ MaxIterations \in Nat \ {0} /\ MaxLLMCalls \in Nat
  /\ Sizes \subseteq Nat \ {0} /\ Deadline \in BOOLEAN

Cells == 1..MaxIterations
None  == 0                      \* no cell

VARIABLES
  pc,         \* what run() awaits
  iteration,  \* cells and failed attempts so far
  outcome,    \* how it ends
  report,     \* the cell whose submission it returns
  aborted,    \* params.signal
  expired,    \* RunBudget.expired
  calls,      \* llmCallCount
  worker,     \* LocalReplExecutor.worker is set
  pending,    \* the request in LocalReplExecutor.pending
  thread,     \* the worker thread: "up", "dying" (terminate called), "gone"
  told,       \* its error and exit events have been handled
  toWorker,   \* messages on their way to the thread
  toMain,     \* messages on their way back
  open,       \* the thread's vm context exists
  acting,     \* cell whose code runs on the thread just now
  running,    \* cell whose end the thread's execute() awaits
  submitted,  \* cell whose SUBMIT counts, since the last execute
  query,      \* state of each query
  asker,      \* cell that made it
  won         \* history: first SUBMIT under an awaited cell

loopVars   == <<pc, iteration, outcome, report>>
budgetVars == <<aborted, expired>>
execVars   == <<worker, pending>>
threadVars == <<open, acting, running, submitted, won>>
vars == <<loopVars, budgetVars, calls, execVars, thread, told, toWorker,
          toMain, threadVars, query, asker>>

Init ==
  /\ pc = "init" /\ iteration = 0 /\ outcome = "none" /\ report = None
  /\ aborted = FALSE /\ expired = FALSE /\ calls = 0
  /\ worker = TRUE /\ pending = "init"
  /\ thread = "up" /\ told = FALSE
  /\ toWorker = <<[type |-> "init"]>> /\ toMain = <<>>
  /\ open = FALSE /\ acting = None /\ running = None
  /\ submitted = None /\ won = None
  /\ query = [q \in Queries |-> "new"] /\ asker = [q \in Queries |-> None]

----------------------------------------------------------------------------
(* The worker thread.  Its code runs to the next await; answers to queries *)
(* are what it can wait for.                                               *)

\* A message that the loop or its bridge sends; nobody reads those sent to a
\* thread that is gone.
PostWorker(m) == toWorker' = IF thread = "gone" THEN toWorker
                                                ELSE Append(toWorker, m)
PostMain(m)   == toMain' = Append(toMain, m)

StartKeeping == submitted                  \* mutant: didSubmit is not reset
StartSubmit  == None

\* parentPort.on("message").
ReadWorker ==
  /\ thread # "gone" /\ acting = None /\ toWorker # <<>>
  /\ toWorker' = Tail(toWorker)
  /\ LET m == Head(toWorker) IN
     \/ /\ m.type = "init"
        /\ open' = TRUE /\ PostMain([type |-> "init"])
        /\ UNCHANGED <<acting, running, submitted, query>>
     \/ /\ m.type = "execute"
        /\ acting' = m.cell /\ running' = m.cell
        /\ submitted' = StartSubmit
        /\ UNCHANGED <<open, toMain, query>>
     \/ /\ m.type = "answer"
        /\ acting' = IF open THEN asker[m.query] ELSE None
        /\ query' = [query EXCEPT ![m.query] = "over"]
        /\ UNCHANGED <<open, running, submitted, toMain>>
     \/ /\ m.type = "dispose"
        /\ open' = FALSE /\ PostMain([type |-> "dispose"])
        /\ UNCHANGED <<acting, running, submitted, query>>
  /\ UNCHANGED <<loopVars, budgetVars, calls, execVars, thread, told, asker, won>>

CodeRuns == thread # "gone" /\ acting # None

\* llm_query and llm_query_batched post their request before they wait.
Ask(q) ==
  /\ CodeRuns /\ query[q] = "new"
  /\ query' = [query EXCEPT ![q] = "asked"]
  /\ asker' = [asker EXCEPT ![q] = acting]
  /\ PostMain([type |-> "ask", query |-> q])
  /\ UNCHANGED <<loopVars, budgetVars, calls, execVars, thread, told, toWorker,
                 threadVars>>

\* SUBMIT: only the first one since the last execute counts.  What it throws
\* may be caught by the code, or be lost in a promise nobody awaits.
Submit ==
  /\ CodeRuns
  /\ submitted' = IF submitted = None THEN acting ELSE submitted
  /\ won' = IF won = None /\ running # None THEN acting ELSE won
  /\ UNCHANGED <<loopVars, budgetVars, calls, execVars, thread, told, toWorker,
                 toMain, open, acting, running, query, asker>>

\* The awaited function returns or throws; what it started goes on.
CellEnds ==
  /\ CodeRuns /\ running # None
  /\ running' = None
  /\ PostMain([type |-> "execute", submitted |-> submitted])
  /\ UNCHANGED <<loopVars, budgetVars, calls, execVars, thread, told, toWorker,
                 open, acting, submitted, won, query, asker>>

\* Everything on the thread awaits something.
Yield ==
  /\ CodeRuns
  /\ acting' = None
  /\ UNCHANGED <<loopVars, budgetVars, calls, execVars, thread, told, toWorker,
                 toMain, open, running, submitted, won, query, asker>>

\* The thread is lost: a rejection in a promise nobody awaits, or memory.
Dies ==
  /\ thread = "up"
  /\ thread' = "gone" /\ acting' = None /\ toWorker' = <<>>
  /\ UNCHANGED <<loopVars, budgetVars, calls, execVars, told, toMain, open,
                 running, submitted, won, query, asker>>

\* The end of Worker.terminate(), whatever the code is doing.
Terminated ==
  /\ thread = "dying"
  /\ thread' = "gone" /\ acting' = None /\ toWorker' = <<>>
  /\ UNCHANGED <<loopVars, budgetVars, calls, execVars, told, toMain, open,
                 running, submitted, won, query, asker>>

----------------------------------------------------------------------------
(* RLMLoop.run: what it awaits, and where it goes from there.              *)

Goto(where) ==
  /\ pc' = where /\ pending' = "none"
  /\ UNCHANGED <<outcome, report, worker, toWorker>>

\* finally: the executor asks its worker, if it has one left, to dispose
\* itself; the budget is disposed with it.
Leave(how, what) ==
  /\ outcome' = how /\ report' = what
  /\ pc' = IF worker THEN "dispose" ELSE "settled"
  /\ pending' = IF worker THEN "dispose" ELSE "none"
  /\ IF worker THEN PostWorker([type |-> "dispose"]) ELSE UNCHANGED toWorker
  /\ UNCHANGED worker

Ending == IF aborted THEN "cancelled" ELSE "completed"

\* catch: after the deadline the run is summarised, unless it was cancelled.
Fail == IF expired /\ ~aborted THEN Goto("summary") ELSE Leave("thrown", None)

\* The head of the loop, with i iterations behind it.
Iterate(i) ==
  /\ iteration' = i
  /\ IF i = MaxIterations THEN Goto("fallback")
     ELSE IF aborted THEN Leave("cancelled", None)
     ELSE Goto(IF expired THEN "summary" ELSE "action")

\* The model answers generateAction without code, or with a cell to run;
\* execute() does not run one under an aborted signal.
ActionAnswered ==
  /\ pc = "action"
  /\ \/ Iterate(iteration + 1)
     \/ /\ ~aborted /\ ~expired
        /\ pc' = "cell" /\ pending' = "execute"
        /\ PostWorker([type |-> "execute", cell |-> iteration + 1])
        /\ UNCHANGED <<iteration, outcome, report, worker>>
  /\ UNCHANGED <<budgetVars, calls, thread, told, toMain, threadVars, query, asker>>

ActionFails ==
  /\ pc = "action" /\ Fail
  /\ UNCHANGED <<iteration, budgetVars, calls, thread, told, toMain, threadVars,
                 query, asker>>

\* extractFallback: the last request has the caller's signal, not the budget's.
FallbackEnds ==
  /\ pc = "fallback"
  /\ Leave(Ending, None) \/ Fail
  /\ UNCHANGED <<iteration, budgetVars, calls, thread, told, toMain, threadVars,
                 query, asker>>

\* summarizeTimeout returns whether the model answers, fails or is too late.
SummaryEnds ==
  /\ pc = "summary"
  /\ Leave(IF aborted THEN "cancelled" ELSE "timed_out", None)
  /\ UNCHANGED <<iteration, budgetVars, calls, thread, told, toMain, threadVars,
                 query, asker>>

\* LocalReplExecutor.request's fail() for a cell: the worker is given up, and
\* nothing can be pending when terminateAfterCancel comes to reject the rest.
GiveUpWorker ==
  /\ worker' = FALSE /\ pending' = "none"
  /\ thread' = IF thread = "up" THEN "dying" ELSE thread
  /\ UNCHANGED toWorker

\* The caller cancels: the turn's signal aborts.
Abort ==
  /\ ~aborted /\ pc # "settled"
  /\ aborted' = TRUE
  /\ IF pc = "cell"
       THEN GiveUpWorker /\ pc' = "settled" /\ outcome' = "thrown"
       ELSE UNCHANGED <<pc, outcome, execVars, thread, toWorker>>
  /\ UNCHANGED <<iteration, report, expired, calls, told, toMain, threadVars,
                 query, asker>>

\* RunBudget's timer, until the budget is disposed.
Expire ==
  /\ Deadline /\ ~expired /\ pc \notin {"dispose", "terminate", "settled"}
  /\ expired' = TRUE
  /\ IF pc = "cell"
       THEN GiveUpWorker /\ pc' = "summary"
       ELSE UNCHANGED <<pc, execVars, thread, toWorker>>
  /\ UNCHANGED <<iteration, outcome, report, aborted, calls, told, toMain,
                 threadVars, query, asker>>

----------------------------------------------------------------------------
(* LocalReplExecutor: messages and events of the thread, and its end.      *)

\* dispose(): the request has been answered, refused or has timed out.
Release ==
  /\ GiveUpWorker
  /\ pc' = "terminate"
  /\ UNCHANGED <<iteration, outcome, report>>

\* The cell's request is refused: run() throws and has no worker to dispose.
CellFails ==
  /\ GiveUpWorker
  /\ pc' = "settled" /\ outcome' = "thrown"
  /\ UNCHANGED <<iteration, report>>

\* The request that is pending is answered; any other answer is ignored.  What
\* was SUBMITted may not be cloneable: the answer is an error then.
ReadReply ==
  /\ toMain # <<>> /\ Head(toMain).type # "ask"
  /\ toMain' = Tail(toMain)
  /\ LET m == Head(toMain) IN
     IF m.type # pending THEN UNCHANGED <<loopVars, execVars, thread, toWorker>>
     ELSE \/ m.type = "init" /\ Iterate(0) /\ UNCHANGED thread
          \/ /\ m.type = "execute" /\ m.submitted # None
             /\ \/ Leave(Ending, m.submitted) /\ UNCHANGED <<iteration, thread>>
                \/ CellFails
          \/ /\ m.type = "execute" /\ m.submitted = None
             /\ Iterate(iteration + 1) /\ UNCHANGED thread
          \/ m.type = "dispose" /\ Release
  /\ UNCHANGED <<budgetVars, calls, told, threadVars, query, asker>>

DisposeNever == FALSE                        \* mutant: dispose waits for ever
DisposeTimer == pc = "dispose"

DisposeTimesOut ==
  /\ DisposeTimer /\ Release
  /\ UNCHANGED <<budgetVars, calls, told, toMain, threadVars, query, asker>>

\* The thread's error or exit event rejects what is pending, if anything is.
HearDeath ==
  /\ thread = "gone" /\ ~told
  /\ told' = TRUE
  /\ \/ pending = "none" /\ UNCHANGED <<loopVars, execVars, thread, toWorker>>
     \/ pending = "init" /\ Fail /\ UNCHANGED <<iteration, thread>>
     \/ pending = "execute" /\ CellFails
     \/ pending = "dispose" /\ Release
  /\ UNCHANGED <<budgetVars, calls, toMain, threadVars, query, asker>>

\* await worker.terminate(), in dispose().
Disposed ==
  /\ pc = "terminate" /\ thread = "gone"
  /\ pc' = "settled"
  /\ UNCHANGED <<iteration, outcome, report, budgetVars, calls, execVars, thread,
                 told, toWorker, toMain, threadVars, query, asker>>

AnyWorker == TRUE                            \* mutant: not asked
HasWorker == worker                          \* handleLLMRequest's first guard

\* handleLLMRequest: the bridge reserves the prompts of a query as a whole, or
\* answers it with an error.
ReadQuery ==
  /\ toMain # <<>> /\ Head(toMain).type = "ask"
  /\ toMain' = Tail(toMain)
  /\ LET q == Head(toMain).query IN
     IF ~HasWorker
       THEN query' = [query EXCEPT ![q] = "over"] /\ UNCHANGED <<calls, toWorker>>
       ELSE \E n \in Sizes :
              IF expired \/ calls + n > MaxLLMCalls
                THEN /\ query' = [query EXCEPT ![q] = "answered"]
                     /\ PostWorker([type |-> "answer", query |-> q])
                     /\ UNCHANGED calls
                ELSE /\ query' = [query EXCEPT ![q] = "sent"]
                     /\ calls' = calls + n /\ UNCHANGED toWorker
  /\ UNCHANGED <<loopVars, budgetVars, execVars, thread, told, threadVars, asker>>

\* The model answers a query, or its request fails; both go to the worker
\* that asked, if the executor still has it.
QueryEnds(q) ==
  /\ query[q] = "sent"
  /\ query' = [query EXCEPT ![q] = IF worker THEN "answered" ELSE "over"]
  /\ IF worker THEN PostWorker([type |-> "answer", query |-> q])
               ELSE UNCHANGED toWorker
  /\ UNCHANGED <<loopVars, budgetVars, calls, execVars, thread, told, toMain,
                 threadVars, asker>>

Thread == ReadWorker \/ (\E q \in Queries : Ask(q)) \/ Submit \/ CellEnds
          \/ Yield \/ Dies \/ Terminated
Loop   == ActionAnswered \/ ActionFails \/ FallbackEnds \/ SummaryEnds
          \/ Abort \/ Expire \/ Disposed
Main   == ReadReply \/ ReadQuery \/ DisposeTimesOut \/ HearDeath
          \/ \E q \in Queries : QueryEnds(q)
Next   == Thread \/ Loop \/ Main

Spec == Init /\ [][Next]_vars

\* The event loop delivers what has arrived and what is due; the thread reads
\* its messages between two pieces of code, and dies when it is terminated; a
\* request to the model ends once its signal is aborted.  Code owes nothing,
\* nor does the model before that.
FairSpec ==
  /\ Spec
  /\ WF_vars(ReadWorker) /\ WF_vars(Terminated)
  /\ WF_vars(ReadReply \/ ReadQuery) /\ WF_vars(HearDeath)
  /\ WF_vars(DisposeTimesOut) /\ WF_vars(Disposed) /\ WF_vars(SummaryEnds)
  /\ WF_vars((aborted \/ expired) /\ (ActionAnswered \/ ActionFails))
  /\ WF_vars(aborted /\ FallbackEnds)

----------------------------------------------------------------------------

TypeOK ==
  /\ pc \in {"init", "action", "cell", "fallback", "summary", "dispose",
             "terminate", "settled"}
  /\ iteration \in 0..MaxIterations
  /\ outcome \in {"none", "completed", "cancelled", "timed_out", "thrown"}
  /\ {report, acting, running, submitted, won} \subseteq Cells \cup {None}
  /\ {aborted, expired, worker, told, open} \subseteq BOOLEAN
  /\ calls \in 0..MaxLLMCalls
  /\ pending \in {"none", "init", "execute", "dispose"}
  /\ thread \in {"up", "dying", "gone"}
  /\ query \in [Queries -> {"new", "asked", "sent", "answered", "over"}]
  /\ asker \in [Queries -> Cells \cup {None}]

\* Code that its run no longer awaits cannot act through it: once run() has
\* settled, what is left of the thread starts no model call, is sent nothing,
\* and changes nothing of the result (RLMLoop's finally, and the checks of
\* handleLLMRequest before and after it awaits the model).
QuietOnceSettled ==
  [][ pc = "settled" =>
        /\ ~worker /\ pending = "none"
        /\ calls' = calls /\ Len(toWorker') <= Len(toWorker)
        /\ UNCHANGED <<loopVars, execVars>> ]_vars

\* The first SUBMIT under an awaited cell, from whichever cell's code it comes,
\* ends the loop and is its report; one made between two cells never is.
FirstSubmissionReported ==
  /\ won # None => pc \notin {"action", "fallback"}
  /\ report # None => report = won
  /\ outcome = "completed" => report = won

\* However code, thread and model behave, a cancelled run ends and its thread
\* with it; so does one whose deadline has passed, unless it is already in the
\* extract fallback, which only the caller's signal bounds.
Ended == pc = "settled" /\ thread = "gone"
RunEnds ==
  /\ aborted ~> Ended
  /\ expired ~> (Ended \/ pc = "fallback")

\* "timeout_ms bounds how long it may run" (prompts/tools/agent.tsx).
DeadlineEndsRun == expired ~> Ended

\* A cell whose thread is gone does not stay awaited.
LostCellEnds == (pc = "cell" /\ thread = "gone") ~> pc # "cell"
==============================================================================
