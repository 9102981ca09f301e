--------------------------- MODULE AgentHandoff ---------------------------
(***************************************************************************)
(* Sub-agents that outlive the turn that spawned them.                     *)
(*                                                                         *)
(* A turn of the main agent makes Agent calls.  A call of an ordinary      *)
(* definition (Top) takes a permit and waits for its run; a call of a      *)
(* background definition (Launched) returns at once and the supervisor     *)
(* drives the run; a run may itself make Agent calls (Nested), which wait  *)
(* for their run without a permit.  Every run has its own RunBudget over   *)
(* its spawner's signal.  When the deadline of a Top run fires, the run    *)
(* is adopted by the supervisor, its call returns "backgrounded", its      *)
(* prompts close and the turn's cancellation no longer reaches it.         *)
(*                                                                         *)
(* Tool calls of the main agent (Main) and of the runs ask for permission  *)
(* through one prompt line (resolveToolPermission.ts): a run is not        *)
(* interactive and escalates to the main agent's prompt only while its     *)
(* chain is in the foreground.  Replacing the session stops the background *)
(* runs (what becomes of their reports is in module TurnQueue).            *)
(*                                                                         *)
(* Simplifications.  Depth is two: a nested run spawns nothing.  Each      *)
(* caller asks for one permission, all for the same rule.  A step may fall *)
(* between an answer and the code that awaits it.  A run that fails is a   *)
(* run that ends.  AgentTool always finds a place to hand a run to.  RLM   *)
(* agents, traces, progress relays and the recorder's revocation (module   *)
(* CheckpointStore) are left out.                                          *)
(***************************************************************************)
EXTENDS Naturals, FiniteSets, Sequences, SequencesExt

CONSTANTS
    Top,        \* Agent calls of the turn that run in the foreground
    Launched,   \* Agent calls of the turn for background definitions
    Nested,     \* Agent calls made by the runs of Top and Launched
    Parent,     \* [Nested -> Top \cup Launched], the spawner
    Main,       \* tool calls of the main agent that need permission
    Askers,     \* bound: the callers that ask, Main among them
    Budgeted,   \* the runs with a timeout
    Permits     \* DEFAULT_AGENT_MAX_CONCURRENT, AgentTool's semaphore over Top

Spawned == Top \cup Launched
Runs    == Spawned \cup Nested
Callers == Runs \cup Main

ASSUME HandoffAssumption ==
    /\ Top \cap Launched = {} /\ Nested \cap Spawned = {}
    /\ Main \cap Runs = {}
    /\ Parent \in [Nested -> Spawned]
    /\ Main \subseteq Askers /\ Askers \subseteq Callers
    /\ Budgeted \subseteq Runs
    /\ Permits \in Nat \ {0}

VARIABLES
    turn,       \* "running", "unwinding" once its signal is aborted, "over"
    stage,      \* where each run is
    aborted,    \* the runs whose budget's signal is aborted
    expired,    \* the runs whose deadline has fired
    handedOff,  \* the Top runs that moved to the background
    call,       \* what the spawning tool call has: open, or its outcome
    registry,   \* the runs the supervisor tracks
    stopped,    \* the tracked runs cancelAll has stopped
    reported,   \* the runs whose report went to the notifier
    permits,    \* AgentTool.slots: how many are free, and who waits
    perm,       \* the permission request of each caller
    line,       \* promptTails: who waits, in order; released when it left
    ruled       \* the allow rule "always" adds

runVars  == <<stage, aborted, expired, handedOff, call>>
bgVars   == <<registry, stopped, reported>>
askVars  == <<perm, line, ruled>>
vars     == <<turn, runVars, bgVars, permits, askVars>>

Live    == {"preflight", "running", "summarizing"}
Asking  == {"queued", "prompting", "rejected", "once", "always", "deny"}

(***************************************************************************)
(* Relations between a run, its spawner and the background.                *)
(***************************************************************************)
Root(r) == IF r \in Nested THEN Parent[r] ELSE r

\* BackgroundChainState.inBackground, read live through every context copy.
InBackground(r) == Root(r) \in Launched \cup handedOff

\* permissions.escalate() of a run, or the main agent's own prompt.
MayEscalate(c) == c \in Main \/ ~InBackground(c)

\* The budget still forwards its parent's cancel (detachFromParent, dispose).
Attached(r) == stage[r] \in Live /\ r \notin handedOff

ParentAborted(r) ==
    CASE r \in Nested   -> Parent[r] \in aborted
      [] r \in Top      -> turn = "unwinding"
      [] r \in Launched -> r \in stopped

\* RunBudget.timedOut: a parent's cancel reports false.
TimedOut(r) == r \in expired /\ ~ParentAborted(r)

AbortOnExpiryAlways(r) == TRUE     \* mutant: the chain is not consulted
\* abortOnExpiry, consulted when the deadline fires.
AbortOnExpiry(r) == ~(r \in Nested /\ InBackground(Parent[r]))

SignalAborted(c) == IF c \in Main THEN turn # "running" ELSE c \in aborted

\* S and the runs below S the abort is forwarded to.
Downward(S) == S \cup {n \in Nested : Parent[n] \in S /\ Attached(n)}

ClosePromptsNever(S) == perm       \* mutant: a prompt outlives its signal
\* Prompts of S that are on screen reject.
ClosePrompts(S) ==
    [c \in Callers |-> IF perm[c] = "prompting" /\ c \in S
                       THEN "rejected" ELSE perm[c]]

(***************************************************************************)
(* The semaphore (utils/semaphore.ts): FIFO, a release hands the permit to *)
(* the first waiter.  The supervisor's own, over the launched runs, is in  *)
(* module TurnQueue: here a launched run has a slot.                       *)
(***************************************************************************)
Acquire(t)  == IF permits.free > 0 THEN [permits EXCEPT !.free = @ - 1]
               ELSE [permits EXCEPT !.waiting = Append(@, t)]
Release     == IF permits.waiting = <<>> THEN [permits EXCEPT !.free = @ + 1]
               ELSE [permits EXCEPT !.waiting = Tail(@)]
NextHolder  == IF permits.waiting = <<>> THEN {} ELSE {Head(permits.waiting)}
\* Whoever waits has the turn's signal: its abort takes each off the queue.
Forget      == [permits EXCEPT !.waiting = <<>>]

\* The permit of a call that returned went to the next waiter.
PermitPassed ==
    /\ permits' = Release
    /\ stage' = [r \in Runs |-> IF r \in NextHolder THEN "preflight" ELSE stage[r]]

(***************************************************************************)
(* The prompt line (withPromptLock): a caller's turn comes when everyone   *)
(* before it has left.  One that gives up in the middle is released but    *)
(* the next still waits for those before.                                  *)
(***************************************************************************)
Place(c) == CHOOSE i \in DOMAIN line : line[i].who = c

PromptTurn(c) == \A i \in 1 .. Place(c) - 1 : line[i].released

Trim(l) == LET kept == {i \in DOMAIN l : \E j \in 1 .. i : ~l[j].released}
           IN  SubSeq(l, Len(l) - Cardinality(kept) + 1, Len(l))

LeaveLine(c) == line' = Trim([line EXCEPT ![Place(c)].released = TRUE])

---------------------------------------------------------------------------
Init ==
    /\ turn = "running"
    /\ stage = [r \in Runs |-> "idle"] /\ call = [r \in Runs |-> "none"]
    /\ aborted = {} /\ expired = {} /\ handedOff = {}
    /\ registry = {} /\ stopped = {} /\ reported = {}
    /\ permits = [free |-> Permits, waiting |-> <<>>]
    /\ perm = [c \in Callers |-> "none"] /\ line = <<>> /\ ruled = FALSE

(***************************************************************************)
(* Spawning.                                                               *)
(***************************************************************************)

\* AgentTool.execute for a foreground definition at depth 1: gated.
Spawn(t) ==
    /\ turn = "running" /\ call[t] = "none"
    /\ call' = [call EXCEPT ![t] = "open"]
    /\ stage' = [stage EXCEPT ![t] = IF permits.free > 0
                                        THEN "preflight" ELSE "waiting"]
    /\ permits' = Acquire(t)
    /\ UNCHANGED <<turn, aborted, expired, handedOff, bgVars, askVars>>

\* AgentTool.launchBackground and supervisor.launch.  The call's trace is made
\* first, and the turn may be aborted meanwhile: nobody looks at its signal.
Launch(b) ==
    /\ turn # "over" /\ call[b] = "none"
    /\ call' = [call EXCEPT ![b] = "launched"]
    /\ stage' = [stage EXCEPT ![b] = "preflight"]
    /\ registry' = registry \cup {b}
    /\ UNCHANGED <<turn, aborted, expired, handedOff, stopped, reported, permits,
                   askVars>>

\* A spawn at depth 2 takes no permit.  Its trace is created before the
\* budget starts, so the budget may start under an aborted signal.
SpawnNested(n) ==
    /\ stage[Parent[n]] = "running" /\ call[n] = "none"
    /\ call' = [call EXCEPT ![n] = "open"]
    /\ stage' = [stage EXCEPT ![n] = "preflight"]
    /\ aborted' = IF ParentAborted(n) THEN aborted \cup {n} ELSE aborted
    /\ UNCHANGED <<turn, expired, handedOff, bgVars, permits, askVars>>

(***************************************************************************)
(* A run: SubAgentRunner.run and its settle promise.                       *)
(***************************************************************************)

\* The thinking lookup is over; aborted before any turn ran, nothing runs.
Begin(r) ==
    /\ stage[r] = "preflight"
    /\ stage' = [stage EXCEPT ![r] = IF r \in aborted THEN "ended" ELSE "running"]
    /\ UNCHANGED <<turn, aborted, expired, handedOff, call, bgVars, permits,
                   askVars>>

\* mutant: a run does not wait for the runs it spawned
ToolsDoneOwn(r) == perm[r] \notin Asking
\* The run's tools are done: its own request and the runs it spawned.
ToolsDone(r) ==
    /\ perm[r] \notin Asking
    /\ \A n \in Nested : Parent[n] = r => call[n] # "open"

\* loop.run returned; a run its deadline cancelled spends a turn on a summary.
End(r) ==
    /\ stage[r] = "running" /\ ToolsDone(r)
    /\ \E to \in IF r \in aborted /\ TimedOut(r) /\ r \notin handedOff
                 THEN {"summarizing", "ended"} ELSE {"ended"} :
         stage' = [stage EXCEPT ![r] = to]
    /\ UNCHANGED <<turn, aborted, expired, handedOff, call, bgVars, permits,
                   askVars>>

Summarized(r) ==
    /\ stage[r] = "summarizing"
    /\ stage' = [stage EXCEPT ![r] = "ended"]
    /\ UNCHANGED <<turn, aborted, expired, handedOff, call, bgVars, permits,
                   askVars>>

\* The run settled before its deadline, or its call has no deadline race.
ReturnReport(r) ==
    /\ call[r] = "open" /\ stage[r] = "ended"
    /\ call' = [call EXCEPT ![r] = "report"]
    /\ IF r \in Top THEN PermitPassed ELSE UNCHANGED <<permits, stage>>
    /\ UNCHANGED <<turn, aborted, expired, handedOff, bgVars, askVars>>

TimerFires(r) ==
    /\ r \in Budgeted /\ stage[r] \in Live /\ r \notin expired
    /\ expired' = expired \cup {r}

\* RunBudget's timer, for a run nobody may adopt: it is consulted now whether
\* anyone still waits.
Expire(r) ==
    /\ r \notin Top /\ TimerFires(r)
    /\ LET hit == IF AbortOnExpiry(r) THEN Downward({r}) ELSE {}
       IN  aborted' = aborted \cup hit /\ perm' = ClosePrompts(hit)
    /\ UNCHANGED <<turn, stage, handedOff, call, bgVars, permits, line, ruled>>

\* mutant: the permit stays with the run instead of its call
HandOffWithPermit(t) ==
    /\ TimerFires(t)
    /\ registry' = registry \cup {t}
    /\ handedOff' = handedOff \cup {t}
    /\ perm' = ClosePrompts({c \in Runs : Root(c) = t})
    /\ call' = [call EXCEPT ![t] = "backgrounded"]
    /\ UNCHANGED <<turn, aborted, stopped, reported, line, ruled, permits, stage>>
\* The timer of a Top run aborts nothing; in the same tick the deadline wins
\* the race: adopt, close the prompts of the chain, detach, give the permit up.
HandOff(t) ==
    /\ TimerFires(t)
    /\ registry' = registry \cup {t}
    /\ handedOff' = handedOff \cup {t}
    /\ perm' = ClosePrompts({c \in Runs : Root(c) = t})
    /\ call' = [call EXCEPT ![t] = "backgrounded"]
    /\ PermitPassed
    /\ UNCHANGED <<turn, aborted, stopped, reported, line, ruled>>

FinishWith(r, silent) ==
    /\ r \in registry /\ stage[r] = "ended"
    /\ registry' = registry \ {r}
    /\ reported' = IF silent THEN reported ELSE reported \cup {r}
    /\ UNCHANGED <<turn, runVars, stopped, permits, askVars>>
FinishAnyway(r) == FinishWith(r, FALSE)     \* mutant: ignores stopped
\* drive or driveAdopted resumes: finish, then the notifier unless stopped.
FinishBackground(r) == FinishWith(r, r \in stopped)

(***************************************************************************)
(* Permission requests (resolveToolPermission).                            *)
(***************************************************************************)
Decide(c, outcome) == perm' = [perm EXCEPT ![c] = outcome]

\* The decision is "ask" unless the rule is there; a caller without a prompt
\* is refused at once, the others join the line.
Ask(c) ==
    /\ perm[c] = "none" /\ ~SignalAborted(c)
    /\ c \in Runs => stage[c] = "running"
    /\ Decide(c, CASE ruled -> "granted" [] ~ruled /\ MayEscalate(c) -> "queued"
                   [] OTHER -> "refused")
    /\ line' = IF perm'[c] = "queued"
               THEN Append(line, [who |-> c, released |-> FALSE]) ELSE line
    /\ UNCHANGED <<turn, runVars, bgVars, permits, ruled>>

\* Aborted while waiting for its turn, or just as it came.
GiveUp(c) ==
    /\ perm[c] = "queued" /\ SignalAborted(c)
    /\ Decide(c, "refused") /\ LeaveLine(c)
    /\ UNCHANGED <<turn, runVars, bgVars, permits, ruled>>

\* The turn came: the rule and the escalation are looked up again.
TakeTurn(c) ==
    /\ perm[c] = "queued" /\ PromptTurn(c) /\ ~SignalAborted(c)
    /\ \/ ruled /\ Decide(c, "granted") /\ LeaveLine(c)
       \/ ~ruled /\ ~MayEscalate(c) /\ Decide(c, "refused") /\ LeaveLine(c)
       \/ ~ruled /\ MayEscalate(c) /\ Decide(c, "prompting") /\ UNCHANGED line
    /\ UNCHANGED <<turn, runVars, bgVars, permits, ruled>>

\* provideInput.
Answer(c, answer) ==
    /\ perm[c] = "prompting" /\ Decide(c, answer)
    /\ UNCHANGED <<turn, runVars, bgVars, permits, line, ruled>>

ResumeWith(c, counts) ==
    /\ perm[c] \in {"once", "always", "deny", "rejected"}
    /\ LET grants == perm[c] \in {"once", "always"} /\ counts
       IN  /\ Decide(c, IF grants THEN "granted" ELSE "refused")
           /\ ruled' = (ruled \/ (grants /\ perm[c] = "always"))
    /\ LeaveLine(c)
    /\ UNCHANGED <<turn, runVars, bgVars, permits>>
ResumeUnchecked(c) == ResumeWith(c, TRUE)   \* mutant: the answer always counts
\* The prompt answered or rejected; an answer counts only while the caller
\* may still escalate.
Resume(c) == ResumeWith(c, MayEscalate(c))

(***************************************************************************)
(* Cancelling.  The turn's abort reaches the Top runs still attached, the  *)
(* calls waiting for a permit and the main agent's prompts; cancelAll      *)
(* reaches the tracked runs.                                               *)
(***************************************************************************)
Interrupt(stops) ==
    LET gone == {t \in Top : stage[t] = "waiting"}
        hit  == Downward({t \in Top : Attached(t)}
                           \cup {r \in stops : stage[r] \in Live})
    IN  /\ turn' = IF turn = "running" THEN "unwinding" ELSE turn
        /\ stopped' = stopped \cup stops
        /\ aborted' = aborted \cup hit
        /\ perm' = ClosePrompts(hit \cup Main)
        /\ stage' = [r \in Runs |-> IF r \in gone THEN "ended" ELSE stage[r]]
        /\ call' = [r \in Runs |-> IF r \in gone THEN "rejected" ELSE call[r]]
        /\ permits' = Forget
        /\ UNCHANGED <<expired, handedOff, registry, reported, line, ruled>>

\* AgentController.cancel.
CancelTurn == turn = "running" /\ Interrupt({})

\* beginSessionReplacement: App lets it start only when no turn is active, so
\* all it reaches are the tracked runs (cancelAll).
ReplaceSession == turn = "over" /\ registry # {} /\ Interrupt(registry)

\* The turn's tools have all returned.
EndTurn ==
    /\ turn # "over" /\ turn' = "over"
    /\ \A r \in Spawned : call[r] # "open"
    /\ \A c \in Main : perm[c] \notin Asking
    /\ UNCHANGED <<runVars, bgVars, permits, askVars>>

---------------------------------------------------------------------------
Next ==
    \/ \E t \in Top : Spawn(t) \/ HandOff(t)
    \/ \E b \in Launched : Launch(b)
    \/ \E n \in Nested : SpawnNested(n)
    \/ \E r \in Runs : Begin(r) \/ End(r) \/ Summarized(r) \/ ReturnReport(r)
                         \/ Expire(r) \/ FinishBackground(r)
    \/ \E c \in Askers : Ask(c) \/ GiveUp(c) \/ TakeTurn(c) \/ Resume(c)
                            \/ \E answer \in {"once", "always", "deny"} :
                                 Answer(c, answer)
    \/ CancelTurn \/ ReplaceSession \/ EndTurn

Spec == Init /\ [][Next]_vars

\* Promises run their continuations and timers fire.  Neither the user nor a
\* run's own progress is assumed: an answer may never come, a run may never end.
Fairness ==
    /\ \A t \in Top : WF_vars(HandOff(t)) /\ WF_vars(ReturnReport(t))
FairSpec == Spec /\ Fairness

---------------------------------------------------------------------------
(***************************************************************************)
(* Properties.                                                             *)
(***************************************************************************)
\* Every variable keeps its type.
TypeOK ==
    /\ turn \in {"running", "unwinding", "over"}
    /\ stage \in [Runs -> Live \cup {"idle", "waiting", "ended"}]
    /\ call \in [Runs -> {"none", "open", "launched", "report", "backgrounded",
                          "rejected"}]
    /\ aborted \subseteq Runs /\ expired \subseteq Budgeted /\ handedOff \subseteq Top
    /\ registry \subseteq Spawned /\ stopped \subseteq Spawned
    /\ reported \subseteq Spawned
    /\ permits \in [free : 0 .. Permits, waiting : Seq(Top)]
    /\ perm \in [Callers -> Asking \cup {"none", "granted", "refused"}]
    /\ line \in Seq([who : Callers, released : BOOLEAN])
    /\ ruled \in BOOLEAN

\* One prompt at a time is on screen, and it belongs to a caller that is in
\* the foreground and whose signal is not aborted: no prompt survives the
\* cancel, the deadline or the handoff of the run, or of a run above it, that
\* opened it (escalationAbort, askQuestions, withPromptLock).
PromptsAreForeground ==
    \A c \in Callers : perm[c] = "prompting" =>
        /\ ~SignalAborted(c)
        /\ c \in Runs => ~InBackground(c)
        /\ \A d \in Callers : perm[d] = "prompting" => d = c

\* A run in the background is never granted anything by an answer, one given
\* before it was handed off included: only by a rule already there.
NoGrantInBackground ==
    [][ \A r \in Runs :
          perm'[r] = "granted" /\ perm[r] # "granted" /\ InBackground(r)
            => ruled ]_vars

\* What is in the background is aborted only with the run it belongs to, and
\* that one only by cancelAll or, when it was launched, by its own deadline:
\* neither the turn's cancel nor the deadline of a run below an adopted one
\* interrupts it.
BackgroundRunsOn ==
    [][ \A r \in aborted' \ aborted :
          InBackground(r) => \/ Root(r) \in stopped' \cup aborted
                             \/ Root(r) \in Launched \cap expired' ]_vars

\* When the turn is over, a run still going belongs to a run the supervisor
\* tracks, so cancelAll reaches it: no sub-agent is left without an owner.
NoOrphans ==
    turn = "over" => \A r \in Runs : stage[r] \in Live => Root(r) \in registry

\* A run's outcome reaches the conversation once: as the result of its call,
\* or as a report after its call said "backgrounded" or "launched", and not at
\* all when it was stopped.
OutcomeOnce ==
    \A r \in Spawned : stage[r] = "ended" /\ r \notin registry =>
        IF call[r] \in {"launched", "backgrounded"}
        THEN r \in reported <=> r \notin stopped
        ELSE r \notin reported

\* With a budget on every foreground run, each Agent call of the turn returns,
\* though runs may never end, prompts never be answered and permits be few.
CallsReturn == \A t \in Top : call[t] = "open" ~> call[t] # "open"

\* "Set by cancelAll, so the run does not announce a result nobody asked for":
\* nor does a run that ended because its turn was cancelled.
CancelledStaysSilent == \A t \in Top : t \in aborted \ stopped => t \notin reported
===========================================================================
