---------------------------- MODULE HelperProcess ----------------------------
(***************************************************************************)
(* HelperPlatform and the HelperProcess it owns: computer-use requests of  *)
(* several agents to one native helper, a child process that performs one  *)
(* request after the other and is replaced when it dies or hangs.          *)
(*                                                                         *)
(* A request is identified with its id (nextId never repeats), a child     *)
(* with the request that spawned it.  JavaScript runs one callback at a    *)
(* time: an action is what the code does between two awaits, and aborts    *)
(* and timers do not fall between an await and its continuation.  Which    *)
(* of the lines in its pipe the helper takes next is left open.            *)
(***************************************************************************)
CONSTANTS
  Requests,    \* calls of HelperProcess.request, each made once
  Abortable,   \* those whose caller may abort its signal
  None         \* no child

ASSUME RequestsAssumption == None \notin Requests /\ Abortable \subseteq Requests

VARIABLES
  creation,    \* createHelper: "none", "running", "done"
  shut,        \* dispose: "no", "waiting" for its drain, "done"
  call,        \* the promise of each request, as its caller sees it
  aborted,     \* requests whose signal has been aborted
  draining,    \* aborted requests still in `pending', holding back `drain'
  child,       \* HelperProcess.child
  proc,        \* the process each request may have spawned
  on,          \* the child each request was written to
  line,        \* the request on its way to the child, and its reply back
  replaced     \* history: children given up because exitCode was set

callVars == <<call, aborted, draining>>
lineVars == <<on, line>>
vars == <<creation, shut, callVars, child, proc, lineVars, replaced>>

Calls  == {"idle", "starting", "waiting", "pending", "answered", "failed"}
\* "exited": exitCode is set; "dead": ended by a signal, which leaves exitCode
\* null; "gone": its close event has been delivered.
Procs  == {"none", "starting", "up", "killed", "exited", "dead", "gone"}
Lines  == {"none", "sent", "doing", "replied", "read"}

Entries == {r \in Requests : call[r] = "pending"} \cup draining

Init ==
  /\ creation = "none" /\ shut = "no"
  /\ call = [r \in Requests |-> "idle"]
  /\ aborted = {} /\ draining = {}
  /\ child = None
  /\ proc = [r \in Requests |-> "none"]
  /\ on   = [r \in Requests |-> None]
  /\ line = [r \in Requests |-> "none"]
  /\ replaced = {}

\* settle and reject: entries go, and with an aborted one what it holds back.
EndEntries(S) ==
  /\ call' = [r \in Requests |->
                IF r \in S /\ call[r] = "pending" THEN "failed" ELSE call[r]]
  /\ draining' = draining \ S

----------------------------------------------------------------------------
(* The platform: one helper, created on first use.                         *)

\* A caller enters: getHelper, then the first await of request.
Ask(r) ==
  /\ call[r] = "idle"
  /\ call' = [call EXCEPT ![r] = IF shut # "no" THEN "failed"
                                 ELSE IF creation = "done" THEN "waiting"
                                 ELSE "starting"]
  /\ creation' = IF shut = "no" /\ creation = "none" THEN "running" ELSE creation
  /\ UNCHANGED <<shut, aborted, draining, child, proc, lineVars, replaced>>

\* createHelper resolves; after a dispose the helper is disposed at once.
Created ==
  /\ creation = "running"
  /\ creation' = IF shut = "no" THEN "done" ELSE "none"
  /\ call' = [r \in Requests |->
                IF call[r] # "starting" THEN call[r]
                ELSE IF shut = "no" THEN "waiting" ELSE "failed"]
  /\ UNCHANGED <<shut, aborted, draining, child, proc, lineVars, replaced>>

CreateFails ==
  /\ creation = "running"
  /\ creation' = "none"
  /\ call' = [r \in Requests |->
                IF call[r] = "starting" THEN "failed" ELSE call[r]]
  /\ UNCHANGED <<shut, aborted, draining, child, proc, lineVars, replaced>>

----------------------------------------------------------------------------
(* Requests.                                                               *)

\* ensureChild: the child at hand unless its exit has been seen.
ChildFor(r) == IF child # None /\ proc[child] # "exited" THEN child ELSE r

\* waitForDrain returns: no aborted request is still running out.
SendUnless(r, refused) ==
  /\ call[r] = "waiting" /\ draining = {}
  /\ IF refused
       THEN /\ call' = [call EXCEPT ![r] = "failed"]
            /\ UNCHANGED <<child, proc, lineVars, replaced>>
       ELSE /\ call' = [call EXCEPT ![r] = "pending"]
            /\ child' = ChildFor(r)
            /\ proc' = IF ChildFor(r) = r THEN [proc EXCEPT ![r] = "starting"]
                                          ELSE proc
            /\ replaced' = IF child \notin {None, ChildFor(r)}
                             THEN replaced \cup {child} ELSE replaced
            /\ on'   = [on EXCEPT ![r] = ChildFor(r)]
            /\ line' = [line EXCEPT ![r] = "sent"]
  /\ UNCHANGED <<creation, shut, aborted, draining>>

\* A slip: disposal is looked at before the drain only.
SendThoughDisposed(r) == SendUnless(r, r \in aborted)

Send(r) == SendUnless(r, shut # "no" \/ r \in aborted)

\* abortRequest: the caller is told at once, the entry stays, its timer armed.
Abort(r) ==
  /\ r \in Abortable \ aborted
  /\ call[r] \in {"starting", "waiting", "pending"}
  /\ aborted' = aborted \cup {r}
  /\ IF call[r] = "pending"
       THEN /\ call' = [call EXCEPT ![r] = "failed"]
            /\ draining' = draining \cup {r}
       ELSE UNCHANGED <<call, draining>>
  /\ UNCHANGED <<creation, shut, child, proc, lineVars, replaced>>

\* The write callback of a line that a dead process never took.
WriteFails(r) ==
  /\ r \in Entries /\ line[r] = "sent"
  /\ proc[on[r]] \in {"exited", "dead", "gone"}
  /\ EndEntries({r})
  /\ UNCHANGED <<creation, shut, aborted, child, proc, lineVars, replaced>>

\* A slip: replies are taken for the oldest requests, not matched by id.
ReplyToAny(r) ==
  /\ line[r] = "replied"
  /\ line' = [line EXCEPT ![r] = "read"]
  /\ \E q \in Entries :
       /\ call' = [call EXCEPT ![q] = IF @ = "pending" THEN "answered" ELSE @]
       /\ draining' = draining \ {q}
  /\ UNCHANGED <<creation, shut, aborted, child, proc, on, replaced>>

\* onLine: data of a child that is no longer current is ignored.  An answer
\* may be the helper's own error (ok: false).
Reply(r) ==
  /\ line[r] = "replied"
  /\ line' = [line EXCEPT ![r] = "read"]
  /\ IF on[r] = child
       THEN /\ call' = [call EXCEPT ![r] = IF @ = "pending" THEN "answered" ELSE @]
            /\ draining' = draining \ {r}
       ELSE UNCHANGED <<call, draining>>
  /\ UNCHANGED <<creation, shut, aborted, child, proc, on, replaced>>

FailAll == EndEntries(Requests)

\* child.kill, unless the process is known to have exited.
Kill(c) ==
  proc' = IF c # None /\ proc[c] \in {"starting", "up"}
            THEN [proc EXCEPT ![c] = "killed"] ELSE proc

TimeoutOf(r, ended) ==
  /\ IF child = None THEN EndEntries({r}) ELSE EndEntries(ended)
  /\ child' = None
  /\ Kill(child)
  /\ UNCHANGED <<creation, shut, aborted, lineVars, replaced>>

\* Slips: abortRequest clears the timer; only the request that hung fails.
TimeoutOfLive(r)  == call[r] = "pending" /\ TimeoutOf(r, Requests)
TimeoutOfOne(r) == r \in Entries /\ TimeoutOf(r, {r})

\* cancelRequest: the process is replaced whoever it was that hung.
Timeout(r) == r \in Entries /\ TimeoutOf(r, Requests)

----------------------------------------------------------------------------
(* The process.                                                            *)

\* Begin and Finish: the helper performs one request at a time.
Busy(c) == \E q \in Requests : on[q] = c /\ line[q] = "doing"

Begin(r) ==
  /\ line[r] = "sent" /\ proc[on[r]] = "up" /\ ~Busy(on[r])
  /\ line' = [line EXCEPT ![r] = "doing"]
  /\ UNCHANGED <<creation, shut, callVars, child, proc, on, replaced>>

\* A killed process may get this far before the signal reaches it.
Finish(r) ==
  /\ line[r] = "doing" /\ proc[on[r]] \in {"up", "killed"}
  /\ line' = [line EXCEPT ![r] = "replied"]
  /\ UNCHANGED <<creation, shut, callVars, child, proc, on, replaced>>

Starts(c) ==
  /\ proc[c] = "starting"
  /\ proc' = [proc EXCEPT ![c] = "up"]
  /\ UNCHANGED <<creation, shut, callVars, child, lineVars, replaced>>

\* The process exits with a code, or a signal ends it.
Dies(c) ==
  /\ proc[c] \in {"up", "killed"}
  /\ \E how \in IF proc[c] = "up" THEN {"exited", "dead"} ELSE {"dead"} :
       proc' = [proc EXCEPT ![c] = how]
  /\ UNCHANGED <<creation, shut, callVars, child, lineVars, replaced>>

\* The error and close handlers: heard only for the current child.
Lost(c) ==
  /\ proc' = [proc EXCEPT ![c] = "gone"]
  /\ IF c = child THEN child' = None /\ FailAll
                  ELSE UNCHANGED <<child, call, draining>>
  /\ UNCHANGED <<creation, shut, aborted, lineVars, replaced>>

StartFails(c) == proc[c] = "starting" /\ Lost(c)

\* close comes after the last data of the pipe has been read.
Closes(c) ==
  /\ proc[c] \in {"exited", "dead"}
  /\ \A r \in Requests : ~(on[r] = c /\ line[r] = "replied")
  /\ Lost(c)

----------------------------------------------------------------------------
(* Disposal: of the platform, then of its helper.                          *)
Dispose ==
  /\ shut = "no"
  /\ shut' = "waiting"
  /\ UNCHANGED <<creation, callVars, child, proc, lineVars, replaced>>

DisposedWhen(drained) ==
  /\ shut = "waiting" /\ creation # "running" /\ drained
  /\ shut' = "done"
  /\ FailAll
  /\ child' = None
  /\ Kill(child)
  /\ UNCHANGED <<creation, aborted, lineVars, replaced>>

\* A slip: dispose does not wait for the drain.
DisposedAtOnce == DisposedWhen(TRUE)

Disposed == DisposedWhen(draining = {})

----------------------------------------------------------------------------
Next ==
  \/ \E r \in Requests :
       \/ Ask(r) \/ Send(r) \/ Abort(r) \/ WriteFails(r) \/ Reply(r) \/ Timeout(r)
       \/ Begin(r) \/ Finish(r)
       \/ Starts(r) \/ StartFails(r) \/ Dies(r) \/ Closes(r)
  \/ Created \/ CreateFails \/ Dispose \/ Disposed

Spec == Init /\ [][Next]_vars

\* The code's own continuations and timers; of the helper nothing is assumed,
\* it may hang for ever at any request.
Fairness ==
  /\ \A r \in Requests : WF_vars(Send(r)) /\ WF_vars(Timeout(r))
  /\ WF_vars(Created \/ CreateFails)
  /\ WF_vars(Disposed)

FairSpec == Spec /\ Fairness
----------------------------------------------------------------------------
(* Properties.                                                             *)

(* Every variable keeps its type; what is drained was aborted and written. *)
TypeOK ==
  /\ creation \in {"none", "running", "done"}
  /\ shut \in {"no", "waiting", "done"}
  /\ call \in [Requests -> Calls]
  /\ aborted \subseteq Requests /\ draining \subseteq aborted
  /\ child \in Requests \cup {None}
  /\ proc \in [Requests -> Procs]
  /\ on \in [Requests -> Requests \cup {None}]
  /\ line \in [Requests -> Lines]
  /\ replaced \subseteq Requests

(* Nothing outlives the code's hold on it: a helper process that runs and   *)
(* has not been killed is the current child, and after disposal there is   *)
(* none, whatever was starting, hanging or being created meanwhile.        *)
OneHelperAlive ==
  \A c \in Requests :
    proc[c] \in {"starting", "up"} => c = child /\ shut # "done"

(* A process that is given up takes its requests with it: whatever still   *)
(* waits in `pending' was written to the current child, or to one that was *)
(* replaced between its exit and its close event.                          *)
PendingIsCurrent ==
  \A r \in Entries : on[r] = child \/ on[r] \in replaced

(* "waits for an aborted native action to drain before disposal": no       *)
(* disposal cuts off an action between its key-down and its key-up after   *)
(* its caller has been told that it was aborted.                           *)
AbortedActionsRunOut ==
  [][ (shut # "done" /\ shut' = "done") =>
        \A r \in aborted : line[r] = "doing" => proc'[on[r]] = proc[on[r]] ]_vars

(* The detailed protocol keeps the callers' promises of HelperCalls.       *)
Outcome == [r \in Requests |->
              IF call[r] = "answered" THEN "answered"
              ELSE IF call[r] # "failed" THEN "open"
              ELSE IF line[r] = "none" THEN "refused" ELSE "failed"]
Action == [r \in Requests |->
             CASE line[r] \in {"none", "sent"} -> "none"
               [] line[r] = "doing" -> "begun"
               [] OTHER -> "performed"]
Promised == INSTANCE HelperCalls WITH outcome <- Outcome, action <- Action
KeepsPromises == Promised!Spec

(* Every call ends, with a helper that hangs at any request, aborted ones  *)
(* that others queue behind included, and so does a disposal.              *)
CallsSettle ==
  /\ \A r \in Requests :
       call[r] \in {"starting", "waiting", "pending"} ~>
         call[r] \in {"answered", "failed"}
  /\ (shut = "waiting") ~> (shut = "done")

(* "fails pending requests when the process dies, then respawns"           *)
(* (tests/HelperProcess.test.ts): nobody waits for an answer of a process  *)
(* that is gone, and a crash costs no later request.                       *)
PendingDiesWithItsProcess ==
  \A r \in Entries : proc[on[r]] # "gone" \/ line[r] = "sent"
=============================================================================
