--------------------------- MODULE ByokConversation ---------------------------
(***************************************************************************)
(* ByokClient and ByokConversationStore: the history of one session with a *)
(* vendor's API, held by every process that is in the session and saved in *)
(* one file.  Turns fail, are retried, cancelled and cut off by a crash;   *)
(* the history must stay one that the vendor accepts, and no process may   *)
(* save over what another has saved.                                       *)
(*                                                                         *)
(* A message is its role and the number of the input or of the tool call   *)
(* it belongs to; the calls of one answer count as one.  An action is what *)
(* the code does between two awaits; a save is one step, the file lease    *)
(* of the store around it.  That two processes are in a session at once is *)
(* what the session lease prevents as a rule: it is not assumed here.      *)
(***************************************************************************)
EXTENDS Naturals, Sequences, FiniteSets, FiniteSetsExt, Functions

CONSTANTS
  Procs,
  Creator,     \* the process that made the session
  Threads,     \* conversation ids that may be minted
  MaxIds, MaxRetries, MaxFaults, MaxLosses,
  None

Message == [role : {"user", "text", "call", "tool", "stop"}, id : Nat]
Saved == [thread : Threads, rev : Nat, msgs : Seq(Message)]
Held  == [rev : Nat, msgs : Seq(Message), dirty : BOOLEAN, replaces : Threads \cup {None}]

ASSUME ByokAssumption ==
  /\ Creator \in Procs /\ None \notin Threads \cup Saved \cup Held
  /\ {MaxIds, MaxRetries, MaxFaults, MaxLosses} \subseteq Nat

VARIABLES
  file,        \* the saved conversation
  live,        \* ByokClient.threads of each process
  cur,         \* session.threadId
  replaced,    \* SessionLifecycle.replacedThreadId
  phase,       \* where the turn of each process is
  req,         \* its request: what it sends, and where its input began
  aborted,     \* the signal of the turn
  ids,         \* numbers given out, at most MaxIds
  faults,      \* saves that failed for an outer reason, at most MaxFaults
  losses,      \* crashes and evictions, at most MaxLosses
  minted,      \* conversation ids given out
  kept,        \* history: what each process had when it last showed an answer
  dropped,     \* history: those that have let go of an unsaved conversation
               \* since then, evicted or read again behind a newer file
  foreign      \* history: a process, its conversation evicted in a round of
               \* tools, took the open call of another from the file

turn   == <<phase, req, aborted>>
bounds == <<ids, faults, losses, minted>>
answers == <<kept, dropped>>
shown  == <<answers, foreign>>
vars   == <<file, live, cur, replaced, turn, bounds, shown>>

Msg(role, n) == [role |-> role, id |-> n]
NoReq == [kind |-> "message", id |-> 0, input |-> 0, base |-> 0, tries |-> 0,
          after |-> "idle"]

Alive(p) == cur[p] # None /\ live[p][cur[p]] # None
Mine(p)  == live[p][cur[p]]

\* repairInterruptedToolTurn: cut at the first call without its results.
Cut(msgs) == {i \in DOMAIN msgs :
                /\ msgs[i].role = "call"
                /\ i = Len(msgs) \/ msgs[i + 1] # Msg("tool", msgs[i].id)}
Repaired(msgs) == IF Cut(msgs) = {} THEN msgs ELSE SubSeq(msgs, 1, Min(Cut(msgs)) - 1)

\* What the store has of thread t, and what is remembered of it.
Stored(t) == file # None /\ file.thread = t
Loaded(msgs) == [rev |-> file.rev, msgs |-> msgs, dirty |-> FALSE, replaces |-> None]

Init ==
  /\ file = None
  /\ live = [p \in Procs |-> [t \in Threads |-> None]]
  /\ cur = [p \in Procs |-> None]
  /\ replaced = [p \in Procs |-> None]
  /\ phase = [p \in Procs |-> IF p = Creator THEN "idle" ELSE "away"]
  /\ req = [p \in Procs |-> NoReq]
  /\ aborted = [p \in Procs |-> FALSE]
  /\ ids = 0 /\ faults = 0 /\ losses = 0 /\ minted = {}
  /\ kept = [p \in Procs |-> {}] /\ dropped = {}
  /\ foreign = FALSE

Goes(p, ph) == phase' = [phase EXCEPT ![p] = ph]
Has(p, t, l) == live' = [live EXCEPT ![p][t] = l]

Shows(p, msgs) == kept' = [kept EXCEPT ![p] = msgs] /\ dropped' = dropped \ {p}
DropsIf(p, unsaved) ==
  kept' = kept /\ dropped' = IF unsaved THEN dropped \cup {p} ELSE dropped

----------------------------------------------------------------------------
(* The session.                                                            *)

\* getThread: the saved conversation, unless the live one is ahead of it.
AheadOf(l, rev) == l # None /\ (l.rev > rev \/ (l.dirty /\ l.rev >= rev))

ResumeUnless(p, ahead) ==
  LET t == file.thread IN
  /\ phase[p] \in {"away", "idle"} /\ file # None
  /\ cur' = [cur EXCEPT ![p] = t]
  /\ Goes(p, "idle")
  /\ IF ahead THEN UNCHANGED live ELSE Has(p, t, Loaded(Repaired(file.msgs)))
  /\ IF cur[p] = t THEN DropsIf(p, Alive(p) /\ Mine(p).dirty /\ Mine(p).rev < file.rev)
                   ELSE Shows(p, {})
  /\ UNCHANGED <<file, replaced, req, aborted, bounds, foreign>>

\* A slip: whoever resumes takes what the file has.
ResumeFromFile(p) == ResumeUnless(p, FALSE)

Resume(p) == file # None /\ ResumeUnless(p, AheadOf(live[p][file.thread], file.rev))

\* compact: the next message starts a thread that replaces this one.
Compact(p) ==
  /\ phase[p] = "idle" /\ Alive(p) /\ Threads # minted
  /\ cur' = [cur EXCEPT ![p] = None]
  /\ replaced' = [replaced EXCEPT ![p] = cur[p]]
  /\ Shows(p, {})
  /\ UNCHANGED <<file, live, turn, bounds, foreign>>

\* evictOldestThreads, when as many others have been used meanwhile.
Evict(p) ==
  /\ losses < MaxLosses /\ Alive(p) /\ phase[p] \in {"idle", "tools", "retry"}
  /\ losses' = losses + 1
  /\ Has(p, cur[p], None)
  /\ DropsIf(p, Mine(p).dirty)
  /\ UNCHANGED <<file, cur, replaced, turn, ids, faults, minted, foreign>>

Crash(p) ==
  /\ losses < MaxLosses /\ phase[p] # "away"
  /\ losses' = losses + 1
  /\ live' = [live EXCEPT ![p] = [t \in Threads |-> None]]
  /\ cur' = [cur EXCEPT ![p] = None]
  /\ replaced' = [replaced EXCEPT ![p] = None]
  /\ Goes(p, "away")
  /\ req' = [req EXCEPT ![p] = NoReq]
  /\ aborted' = [aborted EXCEPT ![p] = FALSE]
  /\ Shows(p, {})
  /\ UNCHANGED <<file, ids, faults, minted, foreign>>

----------------------------------------------------------------------------
(* Requests.                                                               *)

\* The input goes behind the history, which is streamed.
Streams(p, t, l, r, first) ==
  /\ Has(p, t, [l EXCEPT !.msgs = Append(@, first)])
  /\ req' = [req EXCEPT ![p] = [r EXCEPT !.base = Len(l.msgs)]]
  /\ Goes(p, "streaming")

\* runMessage on a thread that is held, or is loaded; the answer of a turn that
\* was cut off in its tools is dropped first.
HeldOr(p, msgs) == IF Alive(p) THEN Mine(p) ELSE Loaded(msgs)
MayHold(p) == cur[p] # None /\ (Alive(p) \/ Stored(cur[p]))

MessageOver(p, r, l) == Streams(p, cur[p], l, r, Msg("user", r.id))

Repair(l) == [l EXCEPT !.msgs = Repaired(@)]

NewInput(p) == [NoReq EXCEPT !.id = ids + 1, !.input = ids + 1]

SendOver(p, l) ==
  /\ phase[p] = "idle" /\ ids < MaxIds /\ MayHold(p)
  /\ ids' = ids + 1
  /\ aborted' = [aborted EXCEPT ![p] = FALSE]
  /\ MessageOver(p, NewInput(p), l)
  /\ UNCHANGED <<file, cur, replaced, faults, losses, minted, shown>>

\* A slip: only what comes from the file is repaired.
SendUnrepaired(p) == SendOver(p, HeldOr(p, Repaired(file.msgs)))

Send(p) == MayHold(p) /\ SendOver(p, Repair(HeldOr(p, file.msgs)))

\* runMessage without a thread: one is minted, with the revision of the one
\* that it replaces.
ReplacedRevision(p) ==
  IF replaced[p] = None THEN 0
  ELSE IF live[p][replaced[p]] # None THEN live[p][replaced[p]].rev ELSE file.rev

SendFirst(p, t) ==
  /\ phase[p] = "idle" /\ ids < MaxIds /\ cur[p] = None /\ t \notin minted
  /\ replaced[p] # None => live[p][replaced[p]] # None \/ Stored(replaced[p])
  /\ ids' = ids + 1
  /\ minted' = minted \cup {t}
  /\ cur' = [cur EXCEPT ![p] = t]
  /\ aborted' = [aborted EXCEPT ![p] = FALSE]
  /\ Streams(p, t, [rev |-> ReplacedRevision(p), msgs |-> <<>>, dirty |-> FALSE,
                    replaces |-> replaced[p]], NewInput(p), Msg("user", ids + 1))
  /\ UNCHANGED <<file, replaced, faults, losses, shown>>

Abort(p) ==
  /\ phase[p] \in {"streaming", "saving", "tools", "retry"} /\ ~aborted[p]
  /\ aborted' = [aborted EXCEPT ![p] = TRUE]
  /\ UNCHANGED <<file, live, cur, replaced, phase, req, bounds, shown>>

----------------------------------------------------------------------------
(* streamTurn: what is kept of an attempt.                                 *)

\* Messages go behind the history l, which is then saved; the turn goes on
\* after that.
Keeps(p, l, msgs, after) ==
  /\ Has(p, cur[p], [l EXCEPT !.msgs = @ \o msgs])
  /\ req' = [req EXCEPT ![p].after = after]
  /\ Goes(p, "saving")

\* completed; an answer without text leaves no message.
Completed(p) ==
  /\ phase[p] = "streaming"
  /\ \E text \in {<<>>, <<Msg("text", req[p].input)>>} :
       /\ Keeps(p, Mine(p), text, "idle")
       /\ Shows(p, Range(Mine(p).msgs \o text))
  /\ UNCHANGED <<file, cur, replaced, aborted, bounds, foreign>>

\* requires_action: its tools run once it is saved.
RequiresAction(p) ==
  /\ phase[p] = "streaming" /\ ids < MaxIds
  /\ ids' = ids + 1
  /\ Has(p, cur[p], [Mine(p) EXCEPT !.msgs = Append(@, Msg("call", ids + 1))])
  /\ req' = [req EXCEPT ![p] = [@ EXCEPT !.kind = "tools", !.id = ids + 1,
                                         !.tries = 0, !.after = "tools"]]
  /\ Goes(p, "saving")
  /\ UNCHANGED <<file, cur, replaced, aborted, faults, losses, minted, shown>>

\* A stream that throws after the signal: what there is of the answer is kept.
Interrupted(p) ==
  /\ phase[p] = "streaming" /\ aborted[p]
  /\ Keeps(p, Mine(p), <<Msg("stop", req[p].input)>>, "idle")
  /\ UNCHANGED <<file, cur, replaced, aborted, bounds, shown>>

\* The attempt is rolled back.
RolledBack(p) == [Mine(p) EXCEPT !.msgs = SubSeq(@, 1, req[p].base)]

\* preserveFailedMessage and preserveFailedToolOutputs.
Preserved(p) ==
  <<Msg(IF req[p].kind = "tools" THEN "tool" ELSE "user", req[p].id),
    Msg("stop", req[p].input)>>
Answers(l, r) == r.kind = "tools" => Msg("call", r.id) \in Range(l.msgs)
\* Looked up again, the conversation is what the file has, unrepaired, and the
\* call that stands open there may be somebody else's.
Meets(p) ==
  foreign' = (foreign \/ /\ req[p].kind = "tools" /\ ~Alive(p)
                         /\ ~Answers(file, req[p]) /\ Cut(file.msgs) # {})

Preserves(p, l) ==
  IF Answers(l, req[p]) THEN Keeps(p, l, Preserved(p), "idle")
  ELSE Has(p, cur[p], l) /\ Goes(p, "idle") /\ UNCHANGED req

FailsOver(p, l) ==
  /\ phase[p] = "streaming"
  /\ \/ ~aborted[p] /\ req[p].tries < MaxRetries
          /\ Has(p, cur[p], l)
          /\ req' = [req EXCEPT ![p].tries = @ + 1]
          /\ Goes(p, "retry")
     \/ ~aborted[p] /\ Preserves(p, l)
     \/ /\ aborted[p] \/ req[p].kind = "message"
        /\ Has(p, cur[p], l) /\ Goes(p, "idle") /\ UNCHANGED req
  /\ UNCHANGED <<file, cur, replaced, aborted, bounds, shown>>

\* A slip: the failed attempt's input stays.
FailsKeepingInput(p) == FailsOver(p, Mine(p))

\* A failed event, or a stream that throws: retried, or given up.  Once the
\* signal is aborted only a failed event comes here, and nothing is preserved;
\* nor is the message of a system notification, which any message may be.
Fails(p) == phase[p] = "streaming" /\ FailsOver(p, RolledBack(p))

\* The request again; its thread is looked up again.
Retry(p) ==
  /\ phase[p] = "retry" /\ ~aborted[p] /\ MayHold(p)
  /\ LET l == HeldOr(p, IF req[p].kind = "tools" THEN file.msgs ELSE Repaired(file.msgs))
     IN IF req[p].kind = "message" THEN MessageOver(p, req[p], Repair(l))
        ELSE IF Answers(l, req[p])
               THEN Streams(p, cur[p], l, req[p], Msg("tool", req[p].id))
               ELSE Has(p, cur[p], l) /\ Goes(p, "idle") /\ UNCHANGED req
  /\ Meets(p)
  /\ UNCHANGED <<file, cur, replaced, aborted, bounds, answers>>

\* Cancelled while it waits for the retry.
RetryAborted(p) ==
  /\ phase[p] = "retry" /\ aborted[p] /\ MayHold(p)
  /\ Preserves(p, HeldOr(p, IF req[p].kind = "tools" THEN file.msgs
                            ELSE Repaired(file.msgs)))
  /\ Meets(p)
  /\ UNCHANGED <<file, cur, replaced, aborted, bounds, answers>>

NotificationCancelled(p) ==
  /\ phase[p] = "retry" /\ aborted[p] /\ req[p].kind = "message"
  /\ Goes(p, "idle")
  /\ UNCHANGED <<file, live, cur, replaced, req, aborted, bounds, shown>>

\* The thread is neither held nor saved: the turn fails.
Unknown(p) ==
  /\ phase[p] \in {"retry", "tools"} /\ ~MayHold(p)
  /\ Goes(p, "idle")
  /\ UNCHANGED <<file, live, cur, replaced, req, aborted, bounds, shown>>

----------------------------------------------------------------------------
(* The round of tools between two requests.                                *)

\* runToolOutputs, on the thread as it is; the results of a call that is not
\* in it are refused.
SubmitsOver(p, l) ==
  /\ phase[p] = "tools" /\ MayHold(p)
  /\ IF Answers(l, req[p])
       THEN Streams(p, cur[p], l, req[p], Msg("tool", req[p].id))
       ELSE Has(p, cur[p], l) /\ Goes(p, "idle") /\ UNCHANGED req
  /\ Meets(p)
  /\ UNCHANGED <<file, cur, replaced, aborted, bounds, answers>>

Submits(p) == MayHold(p) /\ SubmitsOver(p, HeldOr(p, file.msgs))

\* Cancelled in its tools: what they returned is preserved.
ToolsCancelled(p) ==
  /\ phase[p] = "tools" /\ aborted[p] /\ MayHold(p)
  /\ Preserves(p, HeldOr(p, file.msgs))
  /\ Meets(p)
  /\ UNCHANGED <<file, cur, replaced, aborted, bounds, answers>>

\* The limit of rounds, or a failure of the round itself.
ToolsFail(p) ==
  /\ phase[p] = "tools"
  /\ Goes(p, "idle")
  /\ UNCHANGED <<file, live, cur, replaced, req, aborted, bounds, shown>>

\* A message that fails before it is in the history: no key, no such model.
Refused(p) ==
  /\ phase[p] = "idle" /\ ids < MaxIds /\ MayHold(p)
  /\ ids' = ids + 1
  /\ aborted' = [aborted EXCEPT ![p] = FALSE]
  /\ Has(p, cur[p], LET l == HeldOr(p, Repaired(file.msgs)) IN
       [l EXCEPT !.msgs = @ \o <<Msg("user", ids + 1), Msg("stop", ids + 1)>>])
  /\ req' = [req EXCEPT ![p] = NewInput(p)]
  /\ Goes(p, "saving")
  /\ UNCHANGED <<file, cur, replaced, faults, losses, minted, shown>>

----------------------------------------------------------------------------
(* persistThread and the store's save.                                     *)
Resumes(p) == Goes(p, req[p].after)

\* The file is this conversation's, or of the one it replaces, and as it was.
OwnFile(p) == file # None => file.thread \in {cur[p], Mine(p).replaces}
Rev == IF file = None THEN 0 ELSE file.rev

SaveIf(p, unchanged) ==
  /\ phase[p] = "saving" /\ OwnFile(p) /\ unchanged
  /\ file' = [thread |-> cur[p], rev |-> Rev + 1, msgs |-> Mine(p).msgs]
  /\ Has(p, cur[p], [Mine(p) EXCEPT !.rev = Rev + 1, !.dirty = FALSE, !.replaces = None])
  /\ Resumes(p)
  /\ UNCHANGED <<cur, replaced, req, aborted, bounds, shown>>

\* A slip: the revision is not compared.
SaveOver(p) == SaveIf(p, TRUE)

Save(p) == phase[p] = "saving" /\ SaveIf(p, Mine(p).rev = Rev)

\* Another process has saved, or the disk or the lock fails: the history is
\* ahead of the file from now on.
SaveFailsTo(p, dirty) ==
  /\ phase[p] = "saving"
  /\ \/ ~(OwnFile(p) /\ Mine(p).rev = Rev) /\ UNCHANGED faults
     \/ faults < MaxFaults /\ faults' = faults + 1
  /\ Has(p, cur[p], [Mine(p) EXCEPT !.dirty = dirty])
  /\ Resumes(p)
  /\ UNCHANGED <<file, cur, replaced, req, aborted, ids, losses, minted, shown>>

\* A slip: the live conversation is not marked.
SaveFailsUnmarked(p) == phase[p] = "saving" /\ SaveFailsTo(p, Mine(p).dirty)

SaveFails(p) == SaveFailsTo(p, TRUE)

----------------------------------------------------------------------------
Next ==
  \E p \in Procs :
    \/ Resume(p) \/ Compact(p) \/ Evict(p) \/ Crash(p)
    \/ Send(p) \/ (\E t \in Threads : SendFirst(p, t)) \/ Refused(p) \/ Abort(p)
    \/ Completed(p) \/ RequiresAction(p) \/ Interrupted(p) \/ Fails(p)
    \/ Retry(p) \/ RetryAborted(p) \/ NotificationCancelled(p) \/ Unknown(p)
    \/ Submits(p) \/ ToolsCancelled(p) \/ ToolsFail(p)
    \/ Save(p) \/ SaveFails(p)

Spec == Init /\ [][Next]_vars
----------------------------------------------------------------------------
(* Properties.                                                             *)

(* Every variable keeps its type. *)
TypeOK ==
  /\ \A p \in Procs : phase[p] \in {"away", "idle", "streaming", "saving", "tools", "retry"}
  /\ \A p \in Procs : phase[p] \in {"streaming", "saving"} => Alive(p)
  /\ cur \in [Procs -> Threads \cup {None}] /\ replaced \in [Procs -> Threads \cup {None}]
  /\ aborted \in [Procs -> BOOLEAN] /\ minted \subseteq Threads

(* Each tool call is followed by its results, results by nothing but their *)
(* call are preceded, and an input stands in the history once, however     *)
(* often it was tried.                                                     *)
InOrder(m) ==
  /\ Cut(m) = {}
  /\ \A i \in DOMAIN m : m[i].role = "tool" => i > 1 /\ m[i - 1] = Msg("call", m[i].id)
  /\ \A i, j \in DOMAIN m : m[i] = m[j] /\ m[i].role \in {"user", "tool"} => i = j

(* Every request is one that a vendor accepts and that says nothing twice, *)
(* as long as no process has taken the open call of another.               *)
EveryRequestInOrder == \A p \in Procs : phase[p] = "streaming" => InOrder(Mine(p).msgs)
RequestsWellFormed == ~foreign => EveryRequestInOrder

(* No process saves over what another has saved: a save of the same        *)
(* conversation keeps every turn of the file that was whole.               *)
IsPrefixOf(a, b) == Len(a) <= Len(b) /\ SubSeq(b, 1, Len(a)) = a
SavedTurnsKept ==
  [][ (file # None /\ file' # file /\ file'.thread = file.thread) =>
        IsPrefixOf(Repaired(file.msgs), file'.msgs) ]_vars

(* An answer that was shown stays in the conversation of the process that  *)
(* showed it while that stays in it: saved or not, through failed turns,   *)
(* retries and a resume in place, and saved, through evictions.  Two       *)
(* losses are the code's own and exempt: an unsaved conversation that is   *)
(* evicted, and one that gives way to a newer revision, another process's, *)
(* at a resume.                                                            *)
AnswersKeptBy(p) == Alive(p) => kept[p] \subseteq Range(Mine(p).msgs)
EveryAnswerKept == \A p \in Procs : AnswersKeptBy(p)
AcceptedKept == ~foreign => \A p \in Procs \ dropped : AnswersKeptBy(p)
=============================================================================
