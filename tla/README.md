# A TLA+ model of Backboard R-CLI

Backboard R-CLI is an AI coding agent for the terminal: a TypeScript program
(Bun, one JavaScript thread per process) that streams a model's answer, runs the
tools it calls on the user's workspace, and keeps the result reviewable through
permissions and checkpoints. This directory holds TLA+ modules for the parts of
it whose correctness depends on the order of events, the TLC configurations that
check them on small instances, and TLAPS proofs of what matters most for every
size.

All paths below are relative to the repository; the program is under `src/`.
`PROJECT.json` is the index: components with their files, runs, the lines each
definition translates (`map`), a mutation of the code for every property, the
hazards with the properties that cover them, findings and theorems.

    tlc -workers 2 -config ToolRound_rounds.cfg MCToolRound    # one run
    tlapm SessionSwitchProofs.tla                              # one proof module

Contents: [1 The system](#1-the-system) · [2 The modules](#2-the-modules) ·
[3 The runs](#3-the-runs) · [4 Where code and documentation disagree](#4-where-code-and-documentation-disagree) ·
[5 What is proved](#5-what-is-proved) · [6 What is not modelled](#6-what-is-not-modelled) ·
[7 Plan](#7-plan)

## 1 The system

One process serves one terminal. Everything inside it is a callback of one
thread, so two pieces of code interleave only where one of them awaits: that
makes "what the code does between two awaits" the natural step of a model, and
"what was read before an await and used after it" the natural hazard. Several
processes meet only in files: session roots, the resume index, provider keys,
BYOK conversations, the workspace itself. Two kinds of helper run beside a
process and answer by messages: the native computer-use helper, and the worker
threads that run the code of recursive language model agents.

A prompt goes this way. `ui/App.tsx` submits it to `AgentController`, whose queue
decides when its turn runs. `runTurn` calls the prompt hooks, has the MCP
clients refresh their tools, records the prompt, and runs `AgentLoop`: a stream
from the provider (`ProviderStreamConsumer`; behind it the Backboard service or
`ByokClient`) announces and offers tool calls to a `ToolCallRound`, whose
`finalize` runs the authoritative list through `ToolInvocationRunner` (hooks,
permission gate, execution). File tools take path locks and record checkpoints;
the Agent tool starts sub-agents, which have their own budget and may be handed
to the `BackgroundAgentSupervisor`, whose reports come back as submissions; an
agent of kind RLM runs `RLMLoop` instead. Events go over a synchronous bus to
the store, the log and the checkpoint journal, which live in the directory of
the session that `SessionLifecycle` has a lease for.

### Components

| Component | State | Operations | Hard because | Modelled |
|---|---|---|---|---|
| Tool scheduler: `core/tools/ToolScheduler.ts`, `ToolInvocationRunner.ts`, `ToolExecutionPlanner.ts`, rows in `state/Store.ts` | announced, offered, inFlight, settledIds, epoch, early-start block, outputs; one row per call | announce, offer, finalize, reset; start, emit, settle of an execution | early starts race the stream, its retry, the authoritative list and the user's cancel | `ToolRound` |
| Turn queue: `core/agent/AgentController.ts` | queue with priorities, abort controller, drain promise | submit, steer, cancel, runTurn, compact, beginSessionReplacement, newThread, dispose | three producers append while a turn unwinds; a conversation is replaced under it | `TurnQueue` |
| Background supervisor and semaphore: `BackgroundAgentSupervisor.ts`, `utils/semaphore.ts` | registry, stopped flags, FIFO of waiters, notifier | launch, adopt, cancelAll, finish, disableNotifier | a stopped waiter races the hand-over of a slot; reports cross session switches and teardown | `TurnQueue`, `AgentHandoff` |
| Compression: `core/context/Compactor.ts`, `ui/App.tsx` | thread id, pending notes | compact, take the handoff into the next prompt | awaits the model while turns may start | `TurnQueue` |
| Checkpoints: `core/checkpoints/*` | journal in memory and in a file, blobs, pending-undo pointer, gates of workers | capture, post-image, revoke, finalize, restore, replay | crash between any two records, edits by hand, workers that outlive their turn | `CheckpointStore` |
| JSONL writer and path locks: `core/session/JsonlWriter.ts`, `utils/pathLocks.ts` | append chain, lock tails | append, flush, withPathLocks | what was queued is not yet in the file | in `CheckpointStore` |
| Sub-agents: `SubAgentRunner.ts`, `RunBudget.ts`, `tools/AgentTool.tsx` | budget, parent signal, background chain, permits | spawn, deadline, hand off, summarise, report | deadlines, cancels and handoffs of a run and of the runs above it, in any order | `AgentHandoff` |
| Permission prompts: `core/permissions/resolveToolPermission.ts` | prompt line, pending ask, rules | ask, wait, prompt, answer, reject | every await is followed by a decision on state that may have moved | `AgentHandoff` |
| RLM agents: `core/agent/rlm/*` | loop position, call count, pending worker request; worker thread with its context and what was SUBMITted | run a cell, query the model from it, SUBMIT, cancel, deadline, dispose | code need not await what it starts, may never return, and may lose its thread | `RlmLoop` |
| File lease: `utils/FileLease.ts` | lease file, reclaim marker directory | acquire, reclaim, release | processes die between two system calls, and everybody works by path | `FileLease` |
| Session lifecycle and logs: `core/session/SessionLifecycle.ts`, `SessionLogActivation.ts`, `ClientEventLog.ts`, `ServerEventLog.ts` | lease, session root, journal root, two logs, events held meanwhile | activate with its rollback, log | each step may fail with the earlier ones done, events arrive all the time | `SessionSwitch` |
| MCP clients: `core/mcp/MCPClientManager.ts`, `MCPToolRegistrar.ts` | connections, function names, server states, dirty set, tool registry | add, authenticate, disable, remove, refresh | every operation awaits a server and then writes shared maps | `McpClients` |
| BYOK conversations: `providers/byok/ByokClient.ts`, `ByokConversationStore.ts` | histories with a revision, in memory and in a file | send, retry, preserve, submit outputs, compact, resume, evict, save | several writers of one file; failed, cancelled and cut-off turns must leave a history the vendor accepts | `ByokConversation` |
| Native helper: `core/platform/HelperProcess.ts`, `HelperPlatform.ts` | pending requests, what drains, child process | request, abort with drain, timeout with restart, dispose | late answers and deaths of a process that was replaced | `HelperProcess`, `HelperCalls` |
| Permission engine: `core/permissions/PermissionEngine.ts` and rules | rules, mode | decide, add rule | a function; persistence is read-modify-write | one Boolean in `AgentHandoff` |
| Resume index: `core/session/ResumeIndex.ts` | one file under a lease | register, remove, list | registrations may be written out of order | no |
| Language servers: `core/lsp/*` | clients, spawning map, diagnostics | touch, spawn, disable | a spawn ends after its map entry was forgotten | no |
| Browser sessions: `core/browser/*` | platform, sessions | open, close | two openings at once | no |
| Hooks: `core/hooks/*` | configuration | run, fold answers | sequential | as steps of `ToolRound` and `TurnQueue` |
| Backboard stream: `providers/backboard/*` | none | stream, retry, map | wire format | environment of `ToolRound` |
| Keys, sign-in, OAuth: `core/keys`, `core/auth`, `core/oauth` | key file under a lease | read-modify-write | the lease | lease only |
| Notifications, todos, timing; skills, agents; prompts, context; tools; UI; configuration, attachments, update, entry points | see `PROJECT.json` | | text, parsing, rendering, I/O | no |

### What makes the modelled parts correct

- **Tool scheduler.** A read never runs ahead of an earlier write; a write runs
  alone; the outputs answer exactly the authoritative list; an interrupted round
  leaves nothing of its own running and loses no output; no row spins for ever;
  nothing of an abandoned attempt leaks into the next.
- **Turn queue.** Submissions start in priority order; a report never lands in
  another session; no turn runs while storage is rotated or after teardown;
  every promise settles.
- **Checkpoints.** No write without its pre-image in the file; a restore of a
  turn, replayed or not, brings back what the turn found; other people's work is
  kept or asked about; a crash leaves a trail to every unfinished restore.
- **Sub-agents and prompts.** No prompt and no grant for a run in the
  background; nothing the user waits for is interrupted, orphaned, reported twice
  or lost; every Agent call returns though runs and users may never answer.
- **RLM agents.** The report is the first submission made under an awaited cell;
  code left behind by a run acts no more once it has settled; a cancelled run
  ends, with its thread, whatever its code does.
- **File lease.** A live holder keeps its lease (with the exemptions of section 4);
  nothing a live process made is left behind; a dead owner does not lock anybody out.
- **Session lifecycle.** Nobody writes in a session it has no lease for; between
  switches checkpoints, logs and lease are in one session; no event is lost.
- **MCP clients.** What the model can call is what the connected servers list,
  in its current version and over the current connection, each tool under one
  name.
- **BYOK conversations.** Every request is one the vendor accepts; no process
  saves over another's turns; an answer that was shown stays until an unsaved
  conversation is let go of.
- **Native helper.** An answered call was performed, a refused one never is; one
  helper at a time and none after disposal; an aborted action runs out before
  the helper is killed; every call ends.

## 2 The modules

The grain is the same everywhere: an action is what the code does between two
awaits (between two system calls in `FileLease`, where several processes
interleave). Every constant that only bounds an instance is called a bound where
it is declared. Definitions ending in a comment `mutant` or preceded by
`Variant, refuted` are plausible bugs: no specification uses them, and
substituting one for the definition it is named after must break the property
`PROJECT.json` pairs it with.

### ToolRound — one round of tool calls

| Model | Code |
|---|---|
| `Announce`, `Offer` | `ToolCallRound.announce`, `.offer` with the early start |
| `StreamRetried`, `StreamEnded`, `Reset`, `Cleanup` | `consumeWithRetry`, `reset`, `cleanup` |
| `Finalize`, `ContinueFrom`, `RunBatchFrom`, `BatchEnd`, `Reusable` | `finalize` up to its first await, `takeMatchingEarlyExecution` |
| `FlushFails`, `FlushThenError`, `FlushThenWrite`, `WriteEnded`, `FinalizeReturns` | the continuations of `flushBatch` and of the serial call |
| `InterruptedRoundReset` | the `finally` of `ToolRoundProcessor.process` |
| `ExecStarts`, `ExecHookFails`, `ExecGateFails`, `ExecEmits`, `ExecSettles` | `ToolInvocationRunner.run` inside `runTracked` |
| `RowsPending`, `RowsStart`, `RowsTerminal`, `RowsRetract` | the store's reduction of `tool:*` events |

A call is an id and an input; `Kind` says what the planner makes of the pair
(read, write-capable agent, write, or an entry that cannot execute).
`RoundAssumption` is what the planner guarantees of it. The lists `finalize` may
receive (`ConsistentPlan`) keep the streamed order, may drop calls, change inputs
and append calls. Permission gate, execution and post hooks are one stretch
between `tool:start` and the terminal event: nothing of the round changes in it.
A gate that throws (`ExecGateFails`) makes an execution reject without an abort,
which the comment at `ToolScheduler.ts:305` does not expect; the round is reset all
the same.

### TurnQueue — which turn runs next, in which conversation

| Model | Code |
|---|---|
| `Enqueue`, `NextSubmit`, `Drain` | `enqueueSubmit`, `takeNextSubmit`, `drainQueuedSubmits` |
| `Submit`, `Steer`, `Interrupt`, `InterruptAll` | App's submit, `steer`, Escape, Ctrl+C |
| `RecordPrompt`, `RejectPrompt`, `LoopEnds`, `EndTurn` | the phases of `runTurn`: hooks, loop, cleanup, settle |
| `Launch`, `Adopt`, `FinishRun`, `FinishRejected`, `CancelRuns`, `Released` | `BackgroundAgentSupervisor`, `Semaphore` |
| `Compress`, `CompressFails`, `CompressDone` | `AgentController.compact`, `Compactor.compact`, App's notes |
| `BeginSwitch`, `Rotate`, `RotateFails`, `ResetThread` | `beginSessionReplacement`, `SessionLifecycle.activate`, `newThread` / `hydrateSession` |
| `BeginTeardown`, `Close` | `flush` of `entrypoints/cli.tsx`, `dispose`, `settle` |

Conversations (`conv`) and durable roots (`store`) are counters: only whether
they are still the ones a turn or a run began with matters. The end of a turn,
the settling of its promise and the start of the next are one step, since what
runs between them can only append to the queue. A session switch starts only
when App sees no active work. The notes survive `/new` in the code
(`ui/App.tsx:504`) and so do they here.

### CheckpointStore — the journal behind /undo, /redo and /rewind

| Model | Code |
|---|---|
| `Capture`, `CaptureFlushed`, `RevokeFlushed`, `ToolWrite`, `ToolFails`, `PostImage`, `PostFlushed` | a file tool under its path lock: `recordPreImage`, the write, `recordPostImage`, with `revocableRecorder`'s gate |
| `Handoff` | `revocableRecorder.revoke` |
| `BeginTurn`, `EndTurn` | the recorder's turn events, `finalize` |
| `Persist` | `JsonlWriter`: one more line of the chain is in the file |
| `UndoTarget`, `RedoTarget`, `Compose`, `Diverged` | `undoTarget`, `redoTarget`, `composeEntries`, `planEntry` |
| `Request`, `Choose`, `Dismiss` | App's restore commands and its confirm picker |
| `BeginRestore`, `LogStart`, `WritePointer`, `TakeLocks`, `ApplyWrite`, `ApplyFails`, `ApplyLog`, `FinishRestore`, `ClearPointer` | `restore`, `captureRedoPoint`, `applyPlanEntry` |
| `Crash`, `Launch`, `Recover`, `Replay`, `Recovered` | death, `load`, `recoverIfNeeded`, `recoverAbandonedRestore` |

A file is its content, absence included. `records` is the journal in memory and
`durable` how much of it is in the file: a crash keeps the prefix. The variables
`origin`, `by`, `died`, `undoable` and `named` are history and guard nothing.
An edit by hand falls whenever no tool and no restore holds the file's path; in
the code nothing keeps an editor from saving between a tool's read and its write,
and that instant is left out. A path whose last write was torn by a crash, or
whose tool failed after its capture (`died`), is exempt from `UndoAsksFirst`:
divergence is measured against the latest post-image, and there is none. So is a
path whose capture is back because a crash lost its revocation, which is only
queued for the file (`CheckpointStore.ts:454`): the worker went on to write
outside the journal. The proof of `UndoAsks` brought this case to light; without
the exemption TLC finds it in 21 steps, over two turns.

### AgentHandoff — sub-agents that outlive their turn

| Model | Code |
|---|---|
| `Spawn`, `Launch`, `SpawnNested` | `AgentTool.execute`, `gated`, `launchBackground` |
| `Begin`, `End`, `Summarized`, `ReturnReport` | `SubAgentRunner.run` and its settle promise |
| `Expire`, `HandOff` | `RunBudget`'s timer, the deadline branch with `adopt`, `detachFromParent`, escalation abort |
| `FinishBackground` | `BackgroundAgentSupervisor.finish` |
| `Ask`, `GiveUp`, `TakeTurn`, `Answer`, `Resume` | `resolveToolPermission`, `withPromptLock`, `askQuestions` |
| `CancelTurn`, `ReplaceSession`, `EndTurn` | `cancel`, `cancelAll`, the end of the turn's tools |
| `Acquire`, `Release`, `Forget` | `Semaphore` |

Runs are in three sets by how they were spawned (`Top`, `Launched`, `Nested`);
depth is two, as in the code. An answer and the code that awaits it are two
steps, because that is where a handoff can fall. A call that launches looks at
no signal between its trace and the launch, so it may come in an aborted turn.

### FileLease — a lock between processes

One action per system call of `acquireFileLease`, `tryCreateLease`, `tryReclaim`,
`tryCreateReclaimMarker`, `recoverAbandonedReclaim` and `release`, for any set of
processes (`Acquirers`), each of which may die anywhere (`Dies`). Reading a name
and probing who it names are two steps, for the marker (`RecoverAbandonedReclaim`,
`JudgeMarker`, then `Wipe`) as for the lease (`ReadLease`, `JudgeLease`, then
the reclaim): everything may change in between. Tokens are random in the code and
names of processes here; `outdated` remembers whose token in `seen` is of an attempt
that is over, so that no second attempt passes for the first. Writes and removals may
fail, `MaxFailures` times. `Age` makes what a dead process left without a record stale.

Two variables are history. `torn`: some process died while it had the reclaim
marker, or an unwritten lease. `unnoticed`: some process died after another had
read its name in a marker, and before that one probed it. Taken for granted, and
said at the head of the module: a recursive `rm` is one step; the probe of a process
(`ps` identity included) is exact; a live process writes its record within
`invalidOwnerStaleMs`, and needs less than that from a read that found no record to
the `stat` after it. Its specification is `LeaseSpec`, so that a module may extend
it beside another one.

### RlmLoop — code that asks the model, in a thread of its own

| Model | Code |
|---|---|
| `Iterate`, `ActionAnswered`, `ActionFails`, `Fail`, `FallbackEnds`, `SummaryEnds`, `Leave` | `RLMLoop.run`: the head of the loop, `generateAction`, the `catch`, `extractFallback`, `summarizeTimeout`, the `finally` |
| `Abort`, `Expire`, `GiveUpWorker` | the caller's signal, `RunBudget`'s timer, and what both do to a cell that is awaited (`terminateAfterCancel`) |
| `ReadReply`, `HearDeath`, `CellFails`, `DisposeTimesOut`, `Release`, `Disposed` | `LocalReplExecutor`: `handleWorkerMessage` with the answer "error" to a submission that cannot be cloned, the worker's `error` and `exit`, `dispose` |
| `ReadQuery`, `QueryEnds` | `handleLLMRequest` and the bridge's count of calls |
| `ReadWorker`, `Ask`, `Submit`, `CellEnds`, `Yield` | `LocalReplWorker`: its message handler, `llm_query`, `SUBMIT`, `execute`, and any code that uses them |
| `Dies`, `Terminated` | the loss of the thread, the end of `Worker.terminate()` |

Code is a cell that acts: it asks, submits, ends the function that is awaited, or
yields, as often and in whatever order it likes, also after its function has
ended (a promise it did not await). Answers to its queries wake the cell that
asked. `won` is history: the first submission under an awaited cell.

### HelperProcess and HelperCalls — computer-use requests to one helper

`HelperCalls` is the abstract specification: what callers are promised, without
processes, pipes or restarts. `HelperProcess` is the code, and implements it under

    outcome[r] == "answered" / "failed" of the caller's promise, "refused" when
                  the request was never written
    action[r]  == how far the line of the request has come in the helper

| Model | Code |
|---|---|
| `Ask`, `Created`, `CreateFails` | `HelperPlatform`'s `getHelper`, `createHelper` |
| `Send`, `ChildFor`, `Abort`, `WriteFails`, `Reply`, `Timeout` | `HelperProcess.request`, `waitForDrain`, `ensureChild`, `abortRequest`, the write's callback, `onLine`, `cancelRequest` |
| `StartFails`, `Closes`, `Lost` | the child's `error` and `close` events |
| `Dispose`, `Disposed` | `dispose` of the platform, then of its helper |
| `Starts`, `Begin`, `Finish`, `Dies` | the helper itself (external): one request at a time, and it may exit, be killed or hang anywhere |

A request stands for its id, a child for the request that spawned it. An aborted
request stays among the entries (`draining`) until it is answered, times out or
its process is lost, and holds back everybody behind it.

### McpClients — which tools of which servers the model can call

| Model | Code |
|---|---|
| `Add`, `AddDisabled`, `Authenticate`, `Mutate` | `addServer`, `authenticateServer`, `disableServer`, `removeServer`, up to their first await, with the names their caller (`MCPController`, the FindMcp tool) read before |
| `CloseConnection`, `Closed`, `Connected`, `ConnectFails` | `closeServerConnection`, `applyConnectResult`, `withRegisteredNames` |
| `Registers`, `Without`, `NamesOf`, `Kept` | `McpToolRegistrar.register` / `unregister`, the names that `mapMcpTools` and `uniqueMcpRegisteredName` give |
| `StartSync`, `NextServer`, `Lists`, `ListFails`, `Applies` | `refreshTools`, server by server, and `syncMcpToolUpdates` |
| `Change` | a server's `tools/list_changed` (external) |

A tool is the version of its definition. Two servers may share a sanitized
name (`Prefix`): the second gets hashed function names. `McpAssumption` takes for
granted that no hashed name is also a plain one (a server would have to be named
after another one's hash) and that any two servers have an order in the
configuration. `crossed` is history: two activities have met at one server or at
namesakes. The properties are about
executions where they have not; what happens when they do is section 4.

### ByokConversation — one session's history at a vendor

| Model | Code |
|---|---|
| `Send`, `SendFirst`, `Refused`, `Retry`, `Submits` | `runMessage`, `runToolOutputs`, `loadStoredThread`, `replacedRevision`, the retry of `ProviderStreamConsumer` |
| `Completed`, `RequiresAction`, `Interrupted`, `Fails`, `RetryAborted`, `NotificationCancelled`, `Preserves` | `streamTurn`: commit, rollback to the splice point, `preserveFailedMessage`, `preserveFailedToolOutputs`; a system notification preserves nothing (`SystemNotificationRunner`) |
| `ToolsCancelled`, `ToolsFail`, `Unknown` | how `AgentLoop` leaves a round of tools |
| `Repaired`, `Resume`, `Compact`, `Evict` | `repairInterruptedToolTurn`, `getThread`, the session replaced by a compaction, `evictOldestThreads` |
| `Save`, `SaveFails` | `persistThread`, `ByokConversationStore.save` with its comparison of revisions |
| `Crash` | death of the process |

A message is its role and a number. `kept` is history: what the process had in its
conversation when it last showed an answer. `dropped` is history too: the processes
that have let go of an unsaved conversation since then, because it was evicted
(`ByokClient.ts:595` looks at neither `dirty` nor use in a turn) or because a resume
found a newer revision of another process in the file (`ByokClient.ts:552`). What
they read back is older than what they showed; `AcceptedKept` exempts them
(`ByokConversation_dropped.cfg`, section 4). That one process at a time is in a session is what
`SessionSwitch` shows; here two may be, since the revision is there for that.
`foreign` is history as well: a process whose conversation was evicted during its
round of tools read the file back, which is not repaired then
(`ByokClient.ts:225`), and so took in a call of another process that stands open
there. From then on two processes hold one open call, and what either puts behind
it tears it off its results; `RequestsWellFormed` and `AcceptedKept` exempt it
(section 4).

### SessionSwitch — from one session to another

| Model | Code |
|---|---|
| `Acquire` | `acquireFileLease` in `activate` (`FileLease` is the protocol) |
| `MoveCheckpoints`, `MoveFails` | `checkpoints.activateRoot` |
| `LogIsThere`, `HoldEvents`, `MoveLog`, `MoveLogFails` | `activateSessionLogs`: `activate` of `ClientEventLog` and `ServerEventLog`, forwards and back |
| `Swap` | the assignments after the last await, and the release of the previous lease |
| `TakeBack`, `TakeBackFails` | the `catch`: the checkpoints' way back |
| `Emit`, `Stop` | an event of the bus, the end of the process |

The code takes both logs back with one `Promise.allSettled`; they share nothing, so one
after the other is enough. `torn` says that a rollback failed, which the user is
told of; the properties about places exempt it, `EventsLoggedOnce` does not.

### How they fit together

`TurnQueue` sees a background run from outside (it holds a slot, it reports);
`AgentHandoff` sees the same run from inside (its budget, prompts and handoff);
`CheckpointStore` sees the handoff as the closing of a gate. The interface of the
three is small on purpose: `Adopt` of `TurnQueue` is `HandOff` of `AgentHandoff`
and `Handoff` of `CheckpointStore`; `FinishRun` is `FinishBackground`. `ToolRound`
is one iteration of the stretch `phase = "loop"` of `TurnQueue`, and the phase
`"tools"` of `ByokConversation` is one `ToolRound` between two requests.
`Applies` of `McpClients` precedes the loop of a turn. `FileLease` is what session
roots and shared files are taken under: `Acquire` of `SessionSwitch` and `Save` of
`ByokConversation` take one in a step, which is its `OneHolder`-or-`torn`.
`Rotate` of `TurnQueue` is a whole switch of `SessionSwitch`; `StorageIsQuiet`
says that no turn runs meanwhile, so the events held there are the switch's own
and those of background work. `RlmLoop` is a run of `AgentHandoff` whose inside
is a program instead of a conversation; both rest on `RunBudget`.

## 3 The runs

Deadlock is checked in `tool_rounds` only, whose module has an explicit terminal
step. The other systems really may stop: a user who does nothing more, processes
that are all dead, a run that has settled, bounds used up.

| Run | Instance | States | Shows |
|---|---|---|---|
| `tool_rounds` | a read, an agent that may fail to parse and a write, 2 inputs, 1 retry; fairness; constraint `RetriesOfTwo` | 521,998 | every streaming order, every list, every cancel: `NoReadAheadOfWrite`, `WritesRunAlone`, `OutputsMatchPlan`, `InterruptedRoundIsQuiet`, `OneLiveExecutionPerCall`, `RowsResolved`; `FinalizeEnds` |
| `turn_queue` | 2 prompts, 2 background runs, 1 slot, 1 replacement; fairness; constraint `Numbered` | 540,652 | `StartsInOrder`, `ReportsStayHome`, `StorageIsQuiet`; `SubmissionsSettle`, `RunsEnd` |
| `checkpoint_restores` | 2 files, 1 worker, 2 writes, 1 edit; with 1 turn, 1 restore, 1 failure and 1 crash, or 2 turns and 1 restore with 1 crash alone, or 2 turns and 2 restores of one file; symmetry, constraint `Scope` | 3,344,759 | `WrittenIsUndoable`, `PointerOutlivesRestore`, `UndoReverts`, `UndoAsksFirst`, `KeepsDiverged` |
| `handoff_prompts` | 2 foreground calls for 1 permit, 1 nested run, 1 background call, prompts of the main agent and the nested run; fairness | 454,632 | `PromptsAreForeground`, `NoGrantInBackground`, `BackgroundRunsOn`, `NoOrphans`, `OutcomeOnce`; `CallsReturn` |
| `rlm_runs` | 3 iterations, 2 queries of 1 or 2 prompts, 2 model calls, a deadline; fairness | 449,266 | `FirstSubmissionReported`, `QuietOnceSettled`; `RunEnds` |
| `lease_crash` | 3 processes and a dead one's lease, 1 failure; fairness | 104,017 | `LiveLeaseKept`; `DeadLeaseFreed` |
| `session_moves` | 2 processes, 3 sessions, 3 switches, 2 events, 2 faults, deaths | 1,426,076 | `WritesUnderLease`, `InOneSession`, `EventsLoggedOnce` |
| `mcp_tools` | 2 namesakes and a third server, 1 tool, 2 versions, 2 changes, 2 actions, 1 refresh; symmetry, constraint `Uncrossed` | 2,804,658 | `RegistryFollows`, `NamesInUse` |
| `byok_turns` | 2 processes, 2 threads, 3 inputs and calls, 1 retry, 1 failing save, 1 crash or eviction | 5,251,404 | `RequestsWellFormed`, `AcceptedKept`, `SavedTurnsKept` |
| `helper_calls` | 3 requests, 1 of them abortable; fairness | 534,936 | `OneHelperAlive`, `AbortedActionsRunOut`; the refinement `KeepsPromises`; `CallsSettle` |
| `compression_mid_turn`, `lease_two_owners` | | | the disagreements of section 4 |

**Why these bounds.** Each is the smallest at which every hazard of the module
can happen; larger ones were explored off-line, without a violation, where a
number of states is given.

- `ToolRound`: an early read, an agent beside it and a write between them need
  three calls; a mismatching reuse needs two inputs; a stale settle needs one
  retry. `RetriesOfTwo` lets all three calls take part in the first attempt and,
  once it failed, two of them in what both attempts do: a third would only replay
  the first attempt's interleavings.
- `TurnQueue`: priority needs an active turn, a report and a prompt; the
  semaphore needs a holder and a waiter; staleness needs one replacement.
  Prompts, and agents, are interchangeable; symmetry is not sound for liveness,
  so `Numbered` has them come in the order of their names, of which every
  behaviour is a renaming. Off-line, two replacements, which show a
  report that would come home to the wrong one: 2.04 million states.
- `CheckpointStore`: two files are what a half-done restore needs; two turns of
  one file are what composition needs; a crash and a turn after it are what a
  lost revocation needs. `Scope` is the union of the three; off-line,
  with larger bounds one at a time: 2.15 to 8.8 million states, and a partial
  search of more than 25 million. Proofs for any number.
- `AgentHandoff`: one permit and two calls make a waiter; one nested run has both
  a deadline of its own and a chain above it. Off-line, with more
  calls and askers: 1.35 to 15.2 million states. Proofs for any number.
- `RlmLoop`: a submission of an earlier cell needs two cells and one between; a
  batch that goes over the count needs two queries, one of two prompts. Proofs
  for any number.
- `FileLease`: two that contend for what a third, dead one left; off-line four
  with symmetry (113,837 states), and the proofs of section 5 for any number.
- `SessionSwitch`: two processes that want the same third session, which one may
  have left half-way; two faults are a failure and a failing rollback. Proofs
  for any number.
- `McpClients`: a hashed name needs a namesake, and taking the name back needs
  two actions; the third server shows that activities elsewhere do not matter.
  `Uncrossed` cuts executions where the properties say nothing. Proofs for any
  number.
- `ByokConversation`: a tool turn that fails after a failed save needs three
  numbers; the second thread is what a compaction makes. Off-line, one thread,
  four numbers and two losses: 11.9 million states. Proofs for any number.
- `HelperProcess`: one request that is aborted, one behind it, one in flight.
  Proofs for any number.

Symmetry is used in safety runs only, over sets whose members no definition
tells apart.

**Fairness.** Only what the event loop and the code's own timers give:

- `ToolRound`: a continuation whose await has settled runs (`WF(Driver)`); a tool
  returns or, aborted, rejects (`WF(Exec(x))`).
- `TurnQueue`: a turn's hooks have timeouts, a cancelled loop unwinds, and the
  model's answer to an uncancelled one is assumed to arrive (`WF(TurnStep)`); a
  run that holds a slot settles, since it has a budget or is aborted
  (`WF(RunStep(r))`). The user and a compression owe nothing.
- `AgentHandoff`: deadlines fire and settled promises are heard
  (`WF(HandOff(t))`, `WF(ReturnReport(t))`). No run must end and no prompt be
  answered: the call returns all the same.
- `RlmLoop`: messages and events are delivered, the disposal's timer fires, the
  thread takes a message when no code runs on it, a terminated thread dies, and
  a request to the model ends once its signal is aborted. Code owes nothing (it
  may spin for ever), nor does the model before that.
- `FileLease`: a live process in `acquire` takes its next step, and time passes.
  Nobody must start, release or give up; anybody may die.
- `HelperProcess`: a request's timer fires, the wait for the drain and the
  creation of the helper go on. The helper owes nothing.

## 4 Where code and documentation disagree

Each of these two runs checks one sentence of a comment or a test, and TLC
refutes it by a behaviour of the code.

- **`compression_mid_turn`** (`LiveTurnKeepsItsThread`,
  `core/agent/AgentController.ts:664`). `compact()` looks for an active turn
  before it awaits the model, and `Compactor.compact` resets the thread when the
  answer arrives. A background report starts a turn in between and loses its
  thread under it. `ui/App.tsx:528` says compressing is checked "once the turn is
  fully done" for exactly this reason.
- **`lease_two_owners`** (`OneHolder`, `utils/FileLease.ts:107`). For an
  unreadable lease the token compared under the marker is `null`, which is also
  the token of a lease somebody has just made. After a process died before it
  wrote its record, two others can hold the lease. `tests/FileLease.test.ts:53`
  says that a lease is not stolen from a live process.
  A second way in is `FileLease_probe.cfg`, below. Each needs a death at a place that
  `torn` or `unnoticed` records; without one, exclusion is proved (section 5).

More are kept as definitions and configurations, ready to run with the module's
MC module (`RlmLoop` itself), but are not among the runs of `PROJECT.json`;
their hazards say so. TLC refutes each:

| Configuration | Definition | What TLC finds |
|---|---|---|
| `CheckpointStore_redo.cfg` | `RedoHoldsTheOverwritten` | the redo point is read before the restore has its path locks; a handed-off worker that holds one writes in between, and what the restore overwrites is in neither the redo point nor the journal (`CheckpointStore.ts:912`; line 872 promises that `/redo` can reapply it) |
| `CheckpointStore_asked.cfg` | `HandEditsAreAsked` | a tool that failed after its capture leaves a pre-image without a post-image; a later edit by hand is overwritten by `/undo` without a question (`CheckpointStore.ts:1228`) |
| `CheckpointStore_pointer.cfg` | `CrashLeavesPointer` | `undo:start` can reach the file before the pointer does; a crash in between leaves a plan no launch finds (`CheckpointStore.ts:923`) |
| `AgentHandoff_silent.cfg` | `CancelledStaysSilent` | `RunBudget` keeps its timer when the parent's signal aborts; a run the user cancelled and that is still unwinding is handed off when the timer fires, and its cancelled result is reported in a turn of its own (`SubAgentRunner.ts:286`) |
| `TurnQueue_handoff.cfg` | `HandoffOpensTheThread` | the turn after a compression may be a report, or start after the submission that took the handoff was cleared: the new thread opens without its summary (`ui/App.tsx:432`) |
| `HelperProcess_crash.cfg` | `PendingDiesWithItsProcess` | a request between the helper's exit and its `close` event replaces the child, so the event is taken for that of an old one and what was pending waits for its timeouts, which then end the new helper's requests too (`HelperProcess.ts:114`; `tests/HelperProcess.test.ts` says that pending requests fail when the process dies) |
| `McpClients_disable.cfg` | `DisabledHasNoTools` | a refresh that has its lists and waits for those of prompts and resources registers the tools of a server disabled meanwhile (`MCPClientManager.ts:238`) |
| `McpClients_duplicate.cfg` | `NoDuplicateTools` | a list comes in while its connection is closed for a new sign-in: its tools are registered for the old connection and again, under hashed names, for the new one (`tests/MCP.test.ts:698` expects no duplicates) |
| `ByokConversation_foreign.cfg` | `EveryRequestInOrder` | of two processes in one session, both evicted in a round of tools, one reads back the file with the other's open call and preserves a failed message behind it; the other then puts its results behind that (`ByokClient.ts:225`, `:275`), and no vendor accepts the history. It takes two processes that share a session, which the session's lease prevents as a rule |
| `ByokConversation_dropped.cfg` | `EveryAnswerKept` | an answer is shown and its save fails; the conversation is evicted unsaved, and resumed from the older file without it. The comment at `ByokClient.ts:105` has eviction reach abandoned conversations only, by the size of the map (64) and not by a check |
| `FileLease_probe.cfg` | `OneHolderUnlessTorn` | two hold the lease although nobody left a marker or an unwritten lease behind. `recoverAbandonedReclaim` reads in the marker that q owns it (`FileLease.ts:146`), awaits the probe of q (`:148`) and removes the marker by its path. In between q ends its reclaim, takes a lease of its own, writes it and dies; r makes its marker for q's lease and rechecks it. Then the first process finds q dead, removes r's marker, reclaims q's lease and holds its own, which r's `rm` deletes (`tests/FileLease.test.ts:53` has no lease stolen from a live process) |
| `RlmLoop_deadline.cfg` | `DeadlineEndsRun` | the extract fallback's request has the caller's signal and not the budget's (`RLMLoop.ts:168`): it outlives a `timeout_ms` that "bounds how long it may run" (`prompts/tools/agent.tsx:27`) |
| `RlmLoop_lost.cfg` | `LostCellEnds` | the loss of the thread between two cells is heard by nobody (`LocalReplExecutor.ts:42` finds nothing pending); without a deadline the next cell is awaited until the user cancels |

## 5 What is proved

With TLAPS 1.4.5 (Z3, Zenon, LS4), for every value of the constants that their
named assumptions allow.

**ToolRoundProofs** assumes `RoundAssumption`: finitely many calls, a
classification in which two inputs of one call differ only in whether the call
can execute, a natural number of retries.

- `RoundTypeOK`: `Spec => []TypeOK`.
- `RoundReadsStayBehind`: `Spec => []ReadsStayBehind`. A call under way early has
  only offered, concurrency-safe calls before it.

The property is not inductive alone: that the next early start is safe rests on
the early-start block and the offered set agreeing with the stream. The inductive
invariant is `IInv == TypeOK /\ RoundInv /\ ReadsStayBehind`, with `RoundInv` the
bookkeeping of `offered`, `announced`, `inFlight`, `earlyStartBlocked` and the
position of `finalize`. Only `Offer` adds to `inFlight`; `Announce`, `Offer` and
`Finalize` lengthen the stream behind what is there; `Cleanup` empties it. The
one arithmetic fact is `BatchEndExists`: the position where a batch ends, a
`CHOOSE` in the model, exists, as the least of a non-empty set of naturals.

The second part of the module goes on from there to every safety property of
`tool_rounds`:

- `RoundKeepsWriteOrder`: `NoReadAheadOfWrite`; `RoundWritesRunAlone`:
  `WritesRunAlone`; `RoundRunsCallsOnce`: `OneLiveExecutionPerCall`;
  `RoundAnswersItsList`: `OutputsMatchPlan`; `RoundThrowsQuietly`:
  `InterruptedRoundIsQuiet`; `RoundResolvesRows`: `RowsResolved`;
- `RoundKeepsFinishedRows`: `TerminalRowsKept`, an invariant no run repeats.

What makes them inductive is `IOrder`: `IInv` and five parts. `ExecInv`: whatever
is live and not discarded belongs to this attempt and is either awaited by
`finalize` or an early start still in flight. `StreamInv` and `PlanInv`: whoever
has begun has only safe calls before it, in the streamed order and then in the
authoritative list, and a write before `next` has ended. `OutputInv`: what has
settled is in the outputs or in the batch. `RowInv`: the row of a call that ended
is terminal. A retry, an end of the stream and the reset of a failed round are
one lemma (`CleanupOrder`), and so are the ways in which `finalize` goes on
(`ContinueEffect`, `ContinueOrder`). `SafeIsNoWrite` is where `RoundAssumption`
enters: a call that was safe with the streamed input is no write with another.

**TurnQueueProofs** assumes `SubmissionsAssumption` (prompts, runs and the
placeholder `Nobody` differ) and `BoundsAssumption`; the sets of prompts and runs
may be infinite.

- `TurnTypeOK`: `Spec => []TypeOK`.
- `TurnStartsInOrder`: `Spec => StartsInOrder`, an action property: whatever turn
  starts outranks what it leaves queued, and came first within its tier.
- `TurnSteerPreempts`: `Spec => []QueuedSteerPreempts`.
- `TurnReportsStayHome`: `Spec => []ReportsStayHome`.
- `TurnStorageIsQuiet`: `Spec => []StorageIsQuiet`. No turn runs or waits while a
  session is being replaced, nor after a teardown that did not give up.

None is inductive alone. `IInv` adds five invariants. `Placed`: without an active
turn the queue is empty, nothing waits twice, and a submission's promise says
where it is, so that a run which is not done has never reported. `Slotted`: the
semaphore's queue holds waiting runs, each once. `SwitchInv`: during a switch no
turn is active and every live run is stopped, so none can report into it.
`TeardownInv`: the notifier is gone as soon as teardown begins. `AtHome`: a live
run that is not stopped was launched in the present store; `Rotate` keeps it
because `SwitchInv` leaves no such run. The queue is handled by two lemmas:
`NextSubmitFound` (the `CHOOSE` of `takeNextSubmit` has a witness: the least
position among those of least rank) and `Drained` (what one step of the drain
does to any queue without repetitions).

The last section of the module is about what a turn can call of the MCP servers.
It assumes `McpAssumption` of `McpClients`, which the module extends as well; the
sets of servers, tools, actions and refreshes may be infinite.

- `McpTypes`: `McpSpec => []McpTypeOK`.
- `Followed`: `McpSpec => []RegistryFollows`.
- `NamesKept`: `McpSpec => []NamesInUse`.

The types (`Types`) hold always, the rest (`Good`) unless `crossed`. A function
name of a server is plain or hashed (`Own`), so servers of different prefix have
none in common (`OwnApart`); and unless `crossed`, whatever is under way is at
servers apart from all others (`SepInv`). A refresh therefore still asks over
the connection its server has (`SyncInv`), and an action removes exactly the
names its server had when it started (`ActInv`). `BookInv` relates three maps:
what a connection holds, what its server's status lists, what is taken. `RegInv` is
the registry, with what each refresh will still remove from it and add:
every entry is of a listed name or about to be removed (`Stems`), every tool
held is registered or about to be (`Served`), and finds its name free then
(`Pending`). `FreshInv` has the versions: what a server lists is what its
connection holds, unless it is marked or still to be asked. The two steps where
this is work are a connect and a list that comes in; both rest on `GivenFresh`:
the names given are new, and no tool is left out, because a hashed name can only
be its own server's. So `register` never throws, and where nothing is under way
(`QuietServer`), the registry is what the connection holds.

**HelperProcessProofs** assumes `RequestsAssumption` (`None` is no request).

- `TypeCorrect`, `HelperIsOwned` (`OneHelperAlive`), `PendingIsOwned`
  (`PendingIsCurrent`).
- `PromisesKept`: `Spec => KeepsPromises`, the refinement. Initial states map to
  initial states, and each action to one of `HelperCalls` or a stutter: `Begin`
  to `Begin`, `Finish` to `Perform`, `Reply` to `Answer`, and whatever loses a
  process to `End` of all its calls at once.

`IInv` adds `Written`: a request has a line exactly once it has been written, and
what is pending or drains was written to a process. Without it a refused call
might still be performed.

- `AbortedRunOut`: `Spec => AbortedActionsRunOut`, an action property: a dispose
  ends no action whose caller was told that it had been aborted.

It needs to know what the drain waits for. `DrainInv`: a request that is with a
live child is still among the entries, and an aborted one then drains. `Spawned`
keeps that true when a child is replaced: a process is spawned once, by a request
that was not sent before, so a new child has nothing of an older one.

**SessionSwitchProofs** assumes `SessionAssumption` (processes start in different
sessions; the placeholder is no session, process or sequence of events).

- `TypeCorrect`, `LeaseCoversWrites` (`WritesUnderLease`), `OneSessionAtATime`
  (`InOneSession`).

Neither is inductive: `Progress` says, for each living process, which leases it
has (`Leases`), what has moved at each stage of the switch (`Moved`) and, unless
a rollback failed, what is still where it was (`Kept`).

- `LogsAreExact`: `Spec => []EventsLoggedOnce`. No event is lost, logged twice or
  in two sessions, or out of order, also where a rollback failed.

Its invariant `LogInv` does not need the one above. `HoldInv`: a log holds events
exactly while it is being activated. `FileInv`: a file has each process's events
in order, and no event is in two files of a log. `HeldInv`: what a process holds
is later than anything it has in a file of that log, so that a flush appends.
`PlaceInv`: every number up to the last is in a file or held.

**ByokConversationProofs** assumes `ByokAssumption` (the creator is a process,
the placeholder no thread and no history, the bounds natural numbers).

- `TypeCorrect`: `Spec => []TypeOK`.
- `TurnsSaved`: `Spec => SavedTurnsKept`, an action property.
- `AnswersKept`: `Spec => []AcceptedKept`.
- `RequestsInOrder`: `Spec => []RequestsWellFormed`.

None is inductive: what a process sends or saves now depends on what it, another
process or the file took over long ago. `IInv` has, besides types:

- `TurnInv`: a streaming turn's history ends with what it was sent, behind the
  place it would be rolled back to; two turns have no number in common;
- `RevInv`: nobody is ahead of the file's revision, and whoever is at it has the
  file's whole turns in the part of its history that outlives a failed attempt.
  With it the comparison of revisions in `save` suffices, which is `TurnsSaved`;
- `MintInv` and `PrivateInv`: threads in use were minted, and one the file has
  never had is known to the process that minted it only. They are what keeps the
  first save of a compacted conversation from meeting a stranger's;
- `KeptInv`: what a process is still to have of what it showed (`Due`: all of it,
  unless it is `dropped`) stands before the first open call of the history, so that
  no repair cuts it off, and in the file if it will be read back from there;
- unless `foreign`, `OrderInv`: every history is in order, what a turn is going to
  say stands nowhere yet, and the call whose results it will bring ends its own
  history, or the file, and is in no other memory.

An action either works on its process's history, from what outlives a failed
attempt or from the file's whole turns on (`Works`), or lengthens none (`Quiet`).
`WorksAll` and `QuietAll` keep the invariant for each kind, so that what is left to
show of an action is of which kind it is; `SaveIs` and `SendFirstIs` are the two
that are of neither. `RepairedIs`, `OpenIsCut` and the lemmas beside them say what
`repairInterruptedToolTurn` does to any history. That `RequestsWellFormed` needs
its exemption was found by this proof: `OrderInv` could not be kept by `Submits`,
and TLC then found the trace of `ByokConversation_foreign.cfg`, beyond the bounds
of the run.

The last section of the module is about the lease that a save is made under. It
assumes `NamesDiffer` (the placeholder names are no process) and `BoundIsNat` of
`FileLease`, which the module extends as well.

- `LeaseTypes`: `LeaseSpec => []LeaseTypeOK`.
- `LeaseKept`: `LeaseSpec => []LiveLeaseKept`, and `LeaseExclusive`:
  `LeaseSpec => [](~torn /\ ~unnoticed => OneHolder)`.
- `LeaseNotLeaked`: `LeaseSpec => []NothingLeaked`, whoever dies where.

The danger of the protocol is an `rm` by path. What keeps it from hitting a live
lease, as long as nobody died at a place `torn` or `unnoticed` records, is
`Undisturbed`: the marker has one holder and it is alive; whoever was read as a
marker's owner is still alive when it is probed, so that no live marker is taken for
a dead one's; the token a reclaimer came with names a dead process; and a dead
process's lease can only be removed by that reclaimer, so what it re-read is still
there when it removes it. `LeaseIInv` is `LeaseTypeOK` and, unless `torn` or
`unnoticed`, `Undisturbed`. `lease_two_owners` and `FileLease_probe.cfg` show
that neither exemption can go. `NothingLeaked` needs a different strengthening
(`NamedInTime`): release goes by the token, so a live process must not leave a
file without a record behind.

**AgentHandoffProofs** assumes `HandoffAssumption` (callers are of one kind,
nested runs have a spawned parent, at least one permit); the sets of runs may be
infinite.

- `TypeCorrect`; `PermitsBound`: no more foreground calls are under way than
  there are permits, and nobody waits while one is free.
- `ForegroundPrompts`: `PromptsAreForeground`; `RunsHaveOwners`: `NoOrphans`;
  `OutcomesOnce`: `OutcomeOnce`.
- `BackgroundGrants`: `NoGrantInBackground`; `BackgroundGoesOn`:
  `BackgroundRunsOn`, two action properties.

A run is seen by five parties, and `IInv` says what each knows of the others.
`RunInv`: a call is open or in the background while its run lives, a run asks
only while it runs, and a nested run somebody waits for keeps the run above it
running. `TrackInv`: whatever is in the background is tracked until it ends, and
is then reported or has been stopped. `PermitInv`: free permits and holders add
up (the one place that counts a set), and who waits is in the semaphore's queue
once. `LineInv`: whoever asks stands in the prompt line once, and all before
whoever has come to the prompt have left, which gives one prompt at a time.
`PromptInv`: what is on screen has not been aborted and is not in the background;
`HandOff` keeps it because it closes the prompts of the whole chain. The lemmas
about the line (`TrimDropsReleased` and those after it) say what leaving and
joining do to any line.

**CheckpointStoreProofs** assumes `NamesAssumption` and `BoundsAssumption`; the
sets of files, contents and workers may be infinite.

- `TypeCorrect`.
- `WritesUndoable`: `Spec => []WrittenIsUndoable`, whenever the process dies.
- `PointerOutlives`: `Spec => []PointerOutlivesRestore`.
- `UndoAsks`: `Spec => UndoAsksFirst`, an action property: an unasked restore
  overwrites no edit by hand and nothing a handed-off worker wrote.
- `DivergedKept`: `Spec => KeepsDiverged`; this one follows from the second look
  of `ApplyWrite` under the path's lock, without an invariant.

A step leaves the journal alone, adds records at its end, or dies with what was
not in the file; each way is a lemma (`Keeps`, `LogGrows`, `LogAdds`), and
`JobKept` and `ToolsKept` say what a tool's step leaves to the restore and the
reverse. `IInv` has, besides types and `WrittenIsUndoable`: `JournalInv`, a
restore is started once and restores a turn or an earlier redo point; `OpInv`, a
capture stays true until its write and is in the file before it; `LockInv`, no
two tools, and no tool and a restore, share a path; `PlanInv` and `JobInv`, what
a plan restores exists and a job applies the plan it logged; `DoneInv`, at most
one restore is unfinished in the file, and once it has its pointer the pointer is
there. `UndoAsks` needs `BInv` on top: every entry of a turn came to a recorded
write, or its tool is at work, or it died (`EntryInv`); a closed gate has nothing
pending (`GateInv`); and every file of a redo point is in its restore's plan and
was recorded as written by the time the restore is done (`RedoInv`,
`JobRedoInv`).

**RlmLoopProofs** assumes `RlmAssumption` (the bounds are natural numbers, the
first not zero, and a query holds at least one prompt).

- `TypeCorrect`: `Spec => []TypeOK`; no count goes over its limit.
- `FirstSubmissionCounts`: `Spec => []FirstSubmissionReported`.
- `SettledIsQuiet`: `Spec => QuietOnceSettled`, an action property.

The report comes back in a message, and code submits at any time, also when no
cell is awaited. `IInv` is `TypeOK`, the types of the messages, and two parts.
`LoopInv`: which request is pending follows from what `run()` awaits, and it has
let go of its worker once it has ended. `TraceInv`: the trace of one execution
(its message, the awaited cell, its reply) is in one place at a time, and in none
while the loop is with the model; submissions under it count once, and its reply
tells the first. `TraceInv` is what keeps the reply to an earlier cell from being
taken for the one awaited.

**Model-checked only.** Of the safety properties of the runs, `UndoReverts`,
which is about what `Compose` computes from a journal of any length (induction
over data is beyond the prover). And all liveness: fairness and `ENABLED` are
beyond the prover as well.

Each inductive invariant was checked by TLC with the instance of its run before
it was proved.

## 6 What is not modelled

- In `ToolRound`: the approval prompt inside an execution (it is in
  `AgentHandoff`), the text of outputs.
- In `TurnQueue`: the bridge for questions (`pendingAsks`), permission modes, the
  context report. Adopted runs are unbounded in the code
  (`BackgroundAgentSupervisor.ts:88`) and here.
- In `CheckpointStore`: shell captures, which snapshot the workspace without a
  lock (`CheckpointStore.ts:270`); `revertToolCall` of a failed patch; size caps
  and irregular files, whose entries are never applied; the picker's subset of
  files; the manager's switch to another session's journal; a second process on
  the workspace, whose restore overwrites the pointer; an append that fails and
  is hidden by a later one (`JsonlWriter.ts:20`).
- In `AgentHandoff`: traces, progress rows, a failing preflight. A run
  in the prompt line is not woken by its handoff in the code
  (`resolveToolPermission.ts:45`) nor here: it is refused when its turn comes.
- In `RlmLoop`: what cells compute, the transcript and its truncation, usage
  counts; a query is one request, however many prompts it has.
- In `FileLease`: a recursive `rm` that is interrupted half-way, an `rm` that
  fails in a release (`FileLease.ts:93`), a process suspended for longer than
  `invalidOwnerStaleMs` before it wrote its record, or between the read that found
  none and the `stat` (`FileLease.ts:54-58`, `:154`).
- In `SessionSwitch`: how a session's files are made, the numbering of log
  records, a second switch begun while one is under way (the screens prevent it).
- In `McpClients`: prompts and resources, which follow the same scheme and
  register nothing; the configuration files; the sign-in inside `connect`; the
  close at exit; what happens after two activities have met (`crossed`), beyond
  the two traces of section 4.
- In `ByokConversation`: the vendors' adapters, attachments, threads without a
  session on disk, the listing of conversations.
- In `HelperProcess`: the commands themselves, and the partial lines of the pipe.
- `LspService`: switched off, it forgets its spawns in flight, and switched on
  again it starts a server a second time (`LspService.ts:67`). A small protocol
  over processes whose result is advisory.
- `ResumeIndex` and `BrowserSessionManager`: a read-modify-write under the file
  lease, and one socket's requests.
- The rest is text, parsing, rendering, cryptography and I/O, each part with its
  reason in `PROJECT.json`. It is most of the repository: the modules cover the
  code that decides what happens in which order, about a twelfth of the
  implementation's lines, while the terminal UI, the adapters of model vendors,
  catalogues, command analysis, tool implementations and evaluation scripts
  translate data and have no order to get wrong.

## 7 Plan

Done, in this order: `ToolRound`, `TurnQueue`, `CheckpointStore`, `AgentHandoff`,
`FileLease`; `HelperProcess` with its abstract specification, `McpClients`,
`ByokConversation`, `SessionSwitch`, `RlmLoop`; the proofs of section 5. Next, by
value:

1. **Refinements**: an abstract lock implemented by `FileLease` while
   `~torn /\ ~unnoticed`, an abstract executor (sequential turns, each in one
   conversation) by `TurnQueue`.
2. **Models**: two processes on one workspace and one undo pointer, with failing
   appends, in `CheckpointStore`; the spawning map of `LspService`.
