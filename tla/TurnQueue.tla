------------------------------ MODULE TurnQueue ------------------------------
(***************************************************************************)
(* Which turn runs next, and in which conversation: AgentController's      *)
(* submit queue, the background agents whose reports it receives, the two  *)
(* ways a conversation is replaced (compression, and a switch of session), *)
(* and the teardown of the process.                                        *)
(*                                                                         *)
(* JavaScript runs one callback at a time, so an action is everything the  *)
(* code does between two awaits.  A turn is active exactly while the       *)
(* controller's abortController is set or its drain loop is about to set   *)
(* it: the end of one turn, the resolution of its promise and the start of *)
(* the next are one action, because only continuations that at most append *)
(* to the queue can run between them.                                      *)
(***************************************************************************)
EXTENDS Naturals, FiniteSets, Sequences, SequencesExt

CONSTANTS
  Prompts,     \* submissions the user types
  Runs,        \* background agents; a run's report is the submission it makes
  Slots,       \* DEFAULT_BACKGROUND_MAX_CONCURRENT
  Nobody,      \* no active turn
  MaxConv      \* bound: conversations one execution goes through

ASSUME SubmissionsAssumption ==
  /\ Prompts \cap Runs = {}
  /\ Nobody \notin Prompts \cup Runs
ASSUME BoundsAssumption == Slots \in Nat \ {0} /\ MaxConv \in Nat

Submissions == Prompts \cup Runs

VARIABLES
  queue,       \* submissions waiting for their turn, in arrival order
  tier,        \* SubmitPriority of each submission
  outcome,     \* what each submission's promise is, or settled to
  active,      \* the submission whose turn runs
  phase,       \* where that turn is in runTurn
  aborted,     \* its AbortController's signal
  status,      \* its finalStatus, decided when its loop ended
  conv,        \* the conversation Session holds, counted by replacements
  turnConv,    \* the conversation the turn recorded its prompt in
  store,       \* the durable session root, counted by rotations
  switching,   \* startNewSession / activateResumeTarget in progress
  compacting,  \* Compactor.compact is awaiting the model
  fresh,       \* a compression replaced conv and no turn started since
  notes,       \* App's pendingModelNotes holds that compression's handoff
  carries,     \* submissions composed with the handoff in their text
  bg,          \* state of each background run
  waiters,     \* the supervisor's Semaphore.waiting
  adopted,     \* runs handed off by a turn: they hold no slot
  stopped,     \* runs cancelAll marked
  home,        \* durable session each run was started in
  notifier,    \* the supervisor still has its notifier
  teardown,    \* cli.tsx flush
  forced       \* the settle of the teardown timed out

turnVars == <<active, phase, aborted, status, turnConv>>
noteVars == <<notes, carries>>
convVars == <<conv, compacting, fresh, noteVars>>
bgVars   == <<bg, waiters, adopted, stopped, home>>
uiVars   == <<store, switching, notifier, teardown, forced>>
vars == <<queue, tier, outcome, turnVars, convVars, bgVars, uiVars>>

Tiers == {"now", "next", "later"}
Statuses == {"completed", "failed", "cancelled"}
Settled == Statuses

(***************************************************************************)
(* The queue                                                               *)
(***************************************************************************)
SUBMIT_PRIORITY_ORDER == [now |-> 0, next |-> 1, later |-> 2]
Rank(s, t) == SUBMIT_PRIORITY_ORDER[t[s]]

NextArrived(q, t) == 1                       \* mutant: insertion order only
\* takeNextSubmit: the highest tier first, in arrival order within a tier.
NextSubmit(q, t) ==
  CHOOSE i \in DOMAIN q :
    \A j \in DOMAIN q :
      \/ Rank(q[i], t) < Rank(q[j], t)
      \/ Rank(q[i], t) = Rank(q[j], t) /\ i <= j

\* One step of drainQueuedSubmits: the chosen submission becomes the active
\* turn, or the drain ends with nothing left.  `settled` is what the promises
\* hold once the previous turn's has been resolved.
Drain(q, t, settled) ==
  IF q = <<>>
  THEN /\ queue' = q /\ outcome' = settled
       /\ active' = Nobody /\ phase' = "idle"
       /\ aborted' = FALSE /\ status' = "failed"
       /\ UNCHANGED fresh
  ELSE LET i == NextSubmit(q, t) IN
       /\ queue' = RemoveAt(q, i)
       /\ outcome' = [settled EXCEPT ![q[i]] = "running"]
       /\ active' = q[i] /\ phase' = "hook"
       /\ aborted' = FALSE /\ status' = "failed"
       /\ fresh' = FALSE

\* enqueueSubmit: append, and start a drain unless one is running.
Enqueue(s, p) ==
  LET q == Append(queue, s)
      t == [tier EXCEPT ![s] = p]
      o == [outcome EXCEPT ![s] = "queued"] IN
  /\ tier' = t
  /\ IF active = Nobody
     THEN Drain(q, t, o)
     ELSE /\ queue' = q /\ outcome' = o
          /\ UNCHANGED <<active, phase, aborted, status, fresh>>

ClearedSilently(o) == o          \* mutant: the queue is dropped, not resolved
\* clearQueuedSubmits resolves every queued promise with "cancelled".
Cleared(o) == [s \in Submissions |-> IF s \in Range(queue) THEN "cancelled" ELSE o[s]]

\* cancel({clearQueue: true}); the active turn keeps running until it unwinds.
CancelAndClear ==
  /\ aborted' = (active # Nobody)
  /\ queue' = <<>>
  /\ outcome' = Cleared(outcome)

(***************************************************************************)
(* Background runs                                                         *)
(***************************************************************************)
Holders == {r \in Runs : bg[r] = "running" /\ r \notin adopted}

\* cancelAll: every live run is marked and its signal aborted.  A run still
\* waiting for a slot leaves the semaphore's queue at once; one that is
\* running ends when it notices.
CancelRuns ==
  /\ stopped' = stopped \cup {r \in Runs : bg[r] \in {"waiting", "running"}}
  /\ bg' = [r \in Runs |-> IF bg[r] = "waiting" THEN "rejected" ELSE bg[r]]
  /\ waiters' = <<>>
  /\ UNCHANGED <<adopted, home>>

\* mutant: release() only counts the permit back and wakes nobody.
ReleasedUnheard(r) ==
  /\ bg' = [bg EXCEPT ![r] = "done"]
  /\ UNCHANGED waiters
\* Semaphore.release: the slot a finished run held goes to the first waiter.
Released(r) ==
  IF r \in adopted \/ waiters = <<>>
  THEN /\ bg' = [bg EXCEPT ![r] = "done"]
       /\ UNCHANGED waiters
  ELSE /\ bg' = [bg EXCEPT ![r] = "done", ![Head(waiters)] = "running"]
       /\ waiters' = Tail(waiters)

(***************************************************************************)
(* What the user does                                                      *)
(***************************************************************************)
Init ==
  /\ queue = <<>> /\ tier = [s \in Submissions |-> "next"]
  /\ outcome = [s \in Submissions |-> "new"]
  /\ active = Nobody /\ phase = "idle" /\ aborted = FALSE /\ status = "failed"
  /\ conv = 0 /\ turnConv = 0 /\ store = 0
  /\ switching = "no" /\ compacting = FALSE
  /\ fresh = FALSE /\ notes = FALSE /\ carries = {}
  /\ bg = [r \in Runs |-> "none"] /\ waiters = <<>>
  /\ adopted = {} /\ stopped = {} /\ home = [r \in Runs |-> 0]
  /\ notifier = TRUE /\ teardown = "no" /\ forced = FALSE

\* The prompt box is on screen: nothing is loading and the UI is mounted.
PromptOpen == ~compacting /\ switching = "no" /\ teardown = "no"

\* A message sent or queued: composeSubmissionWithNotes moves the pending
\* notes into its text, and it joins the queue as "next".
Submit(p) ==
  /\ PromptOpen /\ outcome[p] = "new"
  /\ carries' = IF notes THEN carries \cup {p} ELSE carries
  /\ notes' = FALSE
  /\ Enqueue(p, "next")
  /\ UNCHANGED <<turnConv, conv, compacting, bgVars, uiVars>>

\* App steers while a turn is on screen: the message is queued as "now", then
\* that turn is cancelled; notes wait.
SteerWith(p, signal) ==
  /\ PromptOpen /\ outcome[p] = "new" /\ active # Nobody
  /\ queue' = Append(queue, p)
  /\ tier' = [tier EXCEPT ![p] = "now"]
  /\ outcome' = [outcome EXCEPT ![p] = "queued"]
  /\ aborted' = signal
  /\ UNCHANGED <<active, phase, status, turnConv, convVars, bgVars, uiVars>>
SteerQueueOnly(p) == SteerWith(p, aborted)             \* mutant: no cancel()
Steer(p) == SteerWith(p, TRUE)

\* Escape cancels the running turn only.
Interrupt ==
  /\ active # Nobody /\ teardown = "no" /\ ~aborted
  /\ aborted' = TRUE
  /\ UNCHANGED <<queue, tier, outcome, active, phase, status, turnConv,
                 convVars, bgVars, uiVars>>

\* Ctrl+C cancels it and everything queued behind it.
InterruptAll ==
  /\ active # Nobody /\ teardown = "no"
  /\ CancelAndClear
  /\ UNCHANGED <<tier, active, phase, status, turnConv, convVars, bgVars, uiVars>>

(***************************************************************************)
(* The turn                                                                *)
(***************************************************************************)
\* The prompt hooks let the turn through: the prompt enters the conversation
\* Session holds now, and the loop starts.
RecordPrompt ==
  /\ phase = "hook"
  /\ phase' = "loop" /\ turnConv' = conv
  /\ UNCHANGED <<queue, tier, outcome, active, aborted, status,
                 convVars, bgVars, uiVars>>

RejectPromptWith(s) ==
  /\ phase = "hook"
  /\ phase' = "tail"
  /\ status' = s
  /\ UNCHANGED <<queue, tier, outcome, active, aborted, turnConv,
                 convVars, bgVars, uiVars>>
\* mutant: the hook's own verdict becomes the turn's status.
RejectPromptAsBlocked == RejectPromptWith("blocked")
\* They block it, or throw once it is cancelled.
RejectPrompt == RejectPromptWith(IF aborted THEN "cancelled" ELSE "failed")

\* AgentLoop.run returns; stop hooks and tool cleanup follow.
LoopEnds ==
  /\ phase = "loop"
  /\ phase' = "tail"
  /\ status' \in IF aborted THEN {"cancelled"} ELSE {"completed", "failed"}
  /\ UNCHANGED <<queue, tier, outcome, active, aborted, turnConv,
                 convVars, bgVars, uiVars>>

\* The turn's promise settles and the drain goes on.  When the user's own
\* submission completed, App looks at the context window: compact() refuses
\* if the drain has already started another turn, and awaits the model if not.
EndTurn ==
  /\ phase = "tail"
  /\ Drain(queue, tier, [outcome EXCEPT ![active] = status])
  /\ \/ compacting' = compacting
     \/ /\ status = "completed" /\ active \in Prompts /\ queue = <<>>
        /\ compacting' = TRUE
  /\ UNCHANGED <<tier, turnConv, conv, noteVars, bgVars, uiVars>>

(***************************************************************************)
(* Background agents                                                       *)
(***************************************************************************)
\* A tool of the turn launches a background agent; it asks for a slot.  The
\* tool does not look at the signal again before it launches.
Launch(r) ==
  /\ phase = "loop" /\ bg[r] = "none"
  /\ home' = [home EXCEPT ![r] = store]
  /\ IF Cardinality(Holders) < Slots
     THEN bg' = [bg EXCEPT ![r] = "running"] /\ UNCHANGED waiters
     ELSE bg' = [bg EXCEPT ![r] = "waiting"] /\ waiters' = Append(waiters, r)
  /\ UNCHANGED <<queue, tier, outcome, turnVars, convVars, adopted, stopped, uiVars>>

\* The supervisor takes over a foreground agent whose budget expired, also
\* while the cancelled turn that spawned it unwinds.
Adopt(r) ==
  /\ phase = "loop" /\ bg[r] = "none"
  /\ home' = [home EXCEPT ![r] = store]
  /\ bg' = [bg EXCEPT ![r] = "running"]
  /\ adopted' = adopted \cup {r}
  /\ UNCHANGED <<queue, tier, outcome, turnVars, convVars, waiters, stopped, uiVars>>

FinishRunUnless(r, silent) ==
  /\ bg[r] = "running"
  /\ Released(r)
  /\ IF silent
     THEN UNCHANGED <<queue, tier, outcome, active, phase, aborted, status, fresh>>
     ELSE Enqueue(r, "later")
  /\ UNCHANGED <<turnConv, conv, compacting, noteVars, adopted, stopped, home, uiVars>>
FinishRunAnyway(r) == FinishRunUnless(r, ~notifier)   \* mutant: ignores stopped
\* The run settles: its slot is released and finish() reports it, unless it
\* was stopped or the notifier is gone.
FinishRun(r) == FinishRunUnless(r, r \in stopped \/ ~notifier)

\* A run refused its slot by cancelAll: finish() says "cancelled", silently.
FinishRejected(r) ==
  /\ bg[r] = "rejected"
  /\ bg' = [bg EXCEPT ![r] = "done"]
  /\ UNCHANGED <<queue, tier, outcome, turnVars, convVars, waiters, adopted,
                 stopped, home, uiVars>>

(***************************************************************************)
(* Compression                                                             *)
(***************************************************************************)
\* /compress: AgentController.compact throws while a turn is active.
Compress ==
  /\ PromptOpen /\ active = Nobody
  /\ compacting' = TRUE
  /\ UNCHANGED <<queue, tier, outcome, turnVars, conv, fresh, notes, carries,
                 bgVars, uiVars>>

\* No usable summary: nothing is replaced.
CompressFails ==
  /\ compacting
  /\ compacting' = FALSE
  /\ UNCHANGED <<queue, tier, outcome, turnVars, conv, fresh, notes, carries,
                 bgVars, uiVars>>

\* The summary arrived: the thread is reset and the handoff waits in App for
\* the next submission.  No condition is checked again.
CompressDone ==
  /\ compacting /\ conv < MaxConv
  /\ compacting' = FALSE
  /\ conv' = conv + 1
  /\ fresh' = TRUE /\ notes' = TRUE
  /\ UNCHANGED <<queue, tier, outcome, turnVars, carries, bgVars, uiVars>>

(***************************************************************************)
(* Switching sessions, and teardown                                        *)
(***************************************************************************)
\* mutant: the turn is cancelled, the background runs are left alone.
BeginSwitchTurnOnly ==
  /\ PromptOpen /\ active = Nobody
  /\ CancelAndClear
  /\ switching' = "detached"
  /\ UNCHANGED <<tier, active, phase, status, turnConv, convVars, bgVars,
                 store, notifier, teardown, forced>>
\* beginSessionReplacement, behind App's hasActiveWork guard: with no turn
\* active the settle that follows the signal has nothing to wait for.
BeginSwitch ==
  /\ PromptOpen /\ active = Nobody
  /\ CancelRuns
  /\ CancelAndClear
  /\ switching' = "detached"
  /\ UNCHANGED <<tier, active, phase, status, turnConv, convVars,
                 store, notifier, teardown, forced>>

\* SessionLifecycle.activate moves the durable roots, or fails.
Rotate ==
  /\ switching = "detached" /\ conv < MaxConv
  /\ store' = store + 1 /\ switching' = "rotated"
  /\ UNCHANGED <<queue, tier, outcome, turnVars, convVars, bgVars,
                 notifier, teardown, forced>>

RotateFails ==
  /\ switching = "detached"
  /\ switching' = "no"
  /\ UNCHANGED <<queue, tier, outcome, turnVars, convVars, bgVars,
                 store, notifier, teardown, forced>>

\* newThread or hydrateSession: signal again, then replace the conversation.
ResetThread ==
  /\ switching = "rotated"
  /\ CancelRuns
  /\ CancelAndClear
  /\ conv' = conv + 1 /\ fresh' = FALSE
  /\ switching' = "no"
  /\ UNCHANGED <<tier, active, phase, status, turnConv, compacting, notes,
                 carries, store, notifier, teardown, forced>>

\* flush, and the cancel that opens AgentController.dispose.
BeginTeardown ==
  /\ teardown = "no"
  /\ teardown' = "settling"
  /\ notifier' = FALSE
  /\ CancelRuns
  /\ CancelAndClear
  /\ UNCHANGED <<tier, active, phase, status, turnConv, convVars,
                 store, switching, forced>>

\* settle: the drain has ended, or CANCELLED_TURN_SETTLE_MS has passed.
\* Tools, servers, logs and the session's lease are released after it.
Close ==
  /\ teardown = "settling"
  /\ teardown' = "closed"
  /\ forced' = (active # Nobody)
  /\ UNCHANGED <<queue, tier, outcome, turnVars, convVars, bgVars,
                 store, switching, notifier>>

(***************************************************************************)
(* Specification                                                           *)
(***************************************************************************)
TurnStep == RecordPrompt \/ RejectPrompt \/ LoopEnds \/ EndTurn
RunStep(r) == FinishRun(r) \/ FinishRejected(r)
UserStep ==
  \/ \E p \in Prompts : Submit(p) \/ Steer(p)
  \/ Interrupt \/ InterruptAll \/ Compress \/ BeginSwitch \/ BeginTeardown
Background ==
  \/ \E r \in Runs : Launch(r) \/ Adopt(r) \/ RunStep(r)
  \/ CompressFails \/ CompressDone
  \/ Rotate \/ RotateFails \/ ResetThread \/ Close

Next == UserStep \/ TurnStep \/ Background

Spec == Init /\ [][Next]_vars

\* A turn's hooks, loop and cleanup end (every hook has a timeout, a cancelled
\* loop unwinds, and the model's answer to an uncancelled one is assumed to
\* arrive); a run that holds a slot settles; a pending rejection is delivered.
Fairness ==
  /\ WF_vars(TurnStep)
  /\ \A r \in Runs : WF_vars(RunStep(r))
FairSpec == Spec /\ Fairness

(***************************************************************************)
(* Properties                                                              *)
(***************************************************************************)
TypeOK ==
  /\ queue \in Seq(Submissions)
  /\ tier \in [Submissions -> Tiers]
  /\ outcome \in [Submissions -> {"new", "queued", "running"} \cup Statuses]
  /\ active \in Submissions \cup {Nobody}
  /\ phase \in {"idle", "hook", "loop", "tail"}
  /\ aborted \in BOOLEAN /\ status \in Statuses
  /\ conv \in Nat /\ turnConv \in Nat /\ store \in Nat
  /\ switching \in {"no", "detached", "rotated"}
  /\ compacting \in BOOLEAN /\ fresh \in BOOLEAN /\ notes \in BOOLEAN
  /\ carries \subseteq Prompts
  /\ bg \in [Runs -> {"none", "waiting", "rejected", "running", "done"}]
  /\ waiters \in Seq(Runs)
  /\ adopted \subseteq Runs /\ stopped \subseteq Runs
  /\ home \in [Runs -> Nat]
  /\ notifier \in BOOLEAN /\ forced \in BOOLEAN
  /\ teardown \in {"no", "settling", "closed"}

\* A machine-generated report never starts while a prompt of the user waits,
\* and within a tier nobody is overtaken: the submission whose turn starts
\* outranks everything it leaves in the queue (takeNextSubmit, at drain time).
StartsInOrder ==
  [][ \A s \in Submissions :
        (active' = s /\ phase' = "hook" /\ phase # "hook") =>
          \A i \in DOMAIN queue' :
            LET other == queue'[i] IN
            \/ Rank(s, tier') < Rank(other, tier')
            \/ /\ Rank(s, tier') = Rank(other, tier')
               /\ \A j, k \in DOMAIN queue :
                    (queue[j] = s /\ queue[k] = other) => j < k ]_vars

\* A steer waits only for turns already cancelled or for other steers: once it
\* is queued, no ordinary or background turn runs on uncancelled.
QueuedSteerPreempts ==
  \A i \in DOMAIN queue :
    (tier[queue[i]] = "now" /\ active # Nobody /\ tier[active] # "now") => aborted

\* A background agent reports only into the durable session that launched it:
\* no report is queued, and no live turn answers one, against storage that has
\* been rotated since.
ReportsStayHome ==
  \A r \in Runs :
    (r \in Range(queue) \/ (active = r /\ ~aborted)) => home[r] = store

\* While storage is being rotated and the thread replaced no turn runs at all,
\* though background agents may still be unwinding; nor does one run against
\* the tools, logs and checkpoints that teardown has closed, unless teardown
\* gave up on a stuck turn.
StorageIsQuiet ==
  (switching # "no" /\ teardown = "no") \/ (teardown = "closed" /\ ~forced)
    => active = Nobody /\ queue = <<>>

\* Every submission's promise settles, whatever cancels, steers, compressions
\* and teardowns come between.
SubmissionsSettle ==
  \A s \in Submissions : (outcome[s] = "queued") ~> (outcome[s] \in Settled)

\* Every run launched ends, also when it was cancelled while it waited for a
\* slot: the slot it never held cannot be lost.
RunsEnd ==
  \A r \in Runs : (bg[r] \in {"waiting", "running"}) ~> (bg[r] = "done")

\* App.tsx: compressing mid-turn would reset the thread out from under a tool
\* loop still submitting results into it.  So the conversation a live turn
\* recorded its prompt in is the one Session holds until the turn ends.
LiveTurnKeepsItsThread ==
  (phase = "loop" /\ ~aborted) => turnConv = conv

\* AgentController.compact: returns the context the caller must carry into the
\* next turn.  So the first turn to start after a compression carries the
\* handoff in its prompt.
HandoffOpensTheThread ==
  [][ (fresh /\ phase # "hook" /\ phase' = "hook") => active' \in carries' ]_vars
=============================================================================
