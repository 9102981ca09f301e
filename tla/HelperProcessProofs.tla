------------------------- MODULE HelperProcessProofs -------------------------
(***************************************************************************)
(* What HelperProcess promises for any number of requests: its types, that *)
(* no process outlives the platform's hold on it, that whatever waits was  *)
(* written to the current child or to one replaced after its exit, that a   *)
(* dispose lets aborted actions run out, and that every step keeps the     *)
(* promises of HelperCalls.                                                *)
(***************************************************************************)
EXTENDS HelperProcess, TLAPS

(* A request has a line exactly once it has been written; what is pending   *)
(* or drains was written to a process.                                     *)
Written ==
  \A r \in Requests :
    /\ call[r] \in {"idle", "starting", "waiting"} => line[r] = "none"
    /\ r \in Entries => on[r] # None

IInv == TypeOK /\ OneHelperAlive /\ PendingIsCurrent /\ Written

USE RequestsAssumption DEF Calls, Procs, Lines

LEMMA InitIInv == Init => IInv
BY DEF Init, IInv, TypeOK, OneHelperAlive, PendingIsCurrent, Written, Entries

----------------------------------------------------------------------------
LEMMA StepTypeOK == TypeOK /\ [Next]_vars => TypeOK'
<1> SUFFICES ASSUME TypeOK, [Next]_vars PROVE TypeOK'
  OBVIOUS
<1> USE DEF TypeOK
<1>1. ASSUME NEW r \in Requests, Ask(r) PROVE TypeOK'
  BY <1>1 DEF Ask, lineVars
<1>2. ASSUME NEW r \in Requests, Send(r) PROVE TypeOK'
  BY <1>2 DEF Send, SendUnless, ChildFor, lineVars
<1>3. ASSUME NEW r \in Requests, Abort(r) PROVE TypeOK'
  BY <1>3 DEF Abort, lineVars
<1>4. ASSUME NEW r \in Requests, WriteFails(r) PROVE TypeOK'
  BY <1>4 DEF WriteFails, EndEntries, lineVars
<1>5. ASSUME NEW r \in Requests, Reply(r) PROVE TypeOK'
  BY <1>5 DEF Reply, lineVars
<1>6. ASSUME NEW r \in Requests, Timeout(r) PROVE TypeOK'
  BY <1>6 DEF Timeout, TimeoutOf, EndEntries, Kill, lineVars
<1>7. ASSUME NEW r \in Requests, Begin(r) PROVE TypeOK'
  BY <1>7 DEF Begin, callVars
<1>8. ASSUME NEW r \in Requests, Finish(r) PROVE TypeOK'
  BY <1>8 DEF Finish, callVars
<1>9. ASSUME NEW r \in Requests, Starts(r) PROVE TypeOK'
  BY <1>9 DEF Starts, callVars, lineVars
<1>10. ASSUME NEW r \in Requests, Lost(r) PROVE TypeOK'
  BY <1>10 DEF Lost, FailAll, EndEntries, lineVars
<1>11. ASSUME NEW r \in Requests, Dies(r) PROVE TypeOK'
  BY <1>11 DEF Dies, callVars, lineVars
<1>12. ASSUME Created \/ CreateFails PROVE TypeOK'
  BY <1>12 DEF Created, CreateFails, lineVars
<1>13. ASSUME Dispose PROVE TypeOK'
  BY <1>13 DEF Dispose, callVars, lineVars
<1>14. ASSUME Disposed PROVE TypeOK'
  BY <1>14 DEF Disposed, DisposedWhen, FailAll, EndEntries, Kill, lineVars
<1>15. ASSUME UNCHANGED vars PROVE TypeOK'
  BY <1>15 DEF vars, callVars, lineVars
<1> QED
  BY <1>1, <1>2, <1>3, <1>4, <1>5, <1>6, <1>7, <1>8, <1>9, <1>10, <1>11,
     <1>12, <1>13, <1>14, <1>15 DEF Next, StartFails, Closes

(* The current child is the only process that runs.                        *)
LEMMA StepOneHelper ==
  TypeOK /\ OneHelperAlive /\ [Next]_vars => OneHelperAlive'
<1> SUFFICES ASSUME TypeOK, OneHelperAlive, [Next]_vars PROVE OneHelperAlive'
  OBVIOUS
<1> USE DEF TypeOK, OneHelperAlive
<1>1. ASSUME UNCHANGED <<child, proc, shut>> PROVE OneHelperAlive'
  BY <1>1
<1>2. ASSUME NEW r \in Requests, Send(r) PROVE OneHelperAlive'
  BY <1>2 DEF Send, SendUnless, ChildFor
<1>3. ASSUME NEW r \in Requests, Timeout(r) PROVE OneHelperAlive'
  BY <1>3 DEF Timeout, TimeoutOf, Kill
<1>4. ASSUME NEW r \in Requests, Starts(r) PROVE OneHelperAlive'
  BY <1>4 DEF Starts
<1>5. ASSUME NEW r \in Requests, Lost(r) PROVE OneHelperAlive'
  BY <1>5 DEF Lost
<1>6. ASSUME NEW r \in Requests, Dies(r) PROVE OneHelperAlive'
  BY <1>6 DEF Dies
<1>7. ASSUME Dispose PROVE OneHelperAlive'
  BY <1>7 DEF Dispose
<1>8. ASSUME Disposed PROVE OneHelperAlive'
  BY <1>8 DEF Disposed, DisposedWhen, Kill
<1> QED
  BY <1>1, <1>2, <1>3, <1>4, <1>5, <1>6, <1>7, <1>8
  DEF Next, StartFails, Closes, vars, Ask, Abort, WriteFails, Reply, Begin, Finish,
      Created, CreateFails

(* A step that ends entries, and spawns, writes and gives up nothing.      *)
LEMMA FewerEntries ==
  ASSUME PendingIsCurrent, Entries' \subseteq Entries,
         UNCHANGED <<on, child, replaced>>
  PROVE  PendingIsCurrent'
BY DEF PendingIsCurrent

LEMMA StepPending ==
  TypeOK /\ PendingIsCurrent /\ Written /\ [Next]_vars => PendingIsCurrent'
<1> SUFFICES ASSUME TypeOK, PendingIsCurrent, Written, [Next]_vars
             PROVE  PendingIsCurrent'
  OBVIOUS
<1> USE DEF TypeOK
<1>1. ASSUME UNCHANGED <<on, child, replaced, call, draining>> PROVE PendingIsCurrent'
  BY <1>1 DEF PendingIsCurrent, Entries
<1>2. ASSUME NEW r \in Requests, Ask(r) PROVE PendingIsCurrent'
  <2>1. Entries' \subseteq Entries
    BY <1>2 DEF Ask, Entries
  <2> QED
    BY <1>2, <2>1, FewerEntries DEF Ask, lineVars
<1>3. ASSUME NEW r \in Requests, Send(r) PROVE PendingIsCurrent'
  <2>1. CASE shut # "no" \/ r \in aborted
    <3>1. Entries' \subseteq Entries
      BY <1>3, <2>1 DEF Send, SendUnless, Entries
    <3> QED
      BY <1>3, <2>1, <3>1, FewerEntries DEF Send, SendUnless, lineVars
  <2>2. CASE ~(shut # "no" \/ r \in aborted)
    <3>1. /\ child' = ChildFor(r)
          /\ on' = [on EXCEPT ![r] = ChildFor(r)]
          /\ replaced' = IF child \notin {None, ChildFor(r)}
                           THEN replaced \cup {child} ELSE replaced
          /\ Entries' \subseteq Entries \cup {r}
      BY <1>3, <2>2 DEF Send, SendUnless, Entries
    <3>2. ASSUME NEW q \in Entries', q # r PROVE on'[q] = child' \/ on'[q] \in replaced'
      BY <3>1, <3>2 DEF PendingIsCurrent, Written, Entries
    <3> QED
      BY <3>1, <3>2 DEF PendingIsCurrent
  <2> QED
    BY <2>1, <2>2
<1>4. ASSUME NEW r \in Requests, Abort(r) PROVE PendingIsCurrent'
  <2>1. Entries' \subseteq Entries
    BY <1>4 DEF Abort, Entries
  <2> QED
    BY <1>4, <2>1, FewerEntries DEF Abort, lineVars
<1>5. ASSUME NEW r \in Requests, WriteFails(r) PROVE PendingIsCurrent'
  <2>1. Entries' \subseteq Entries
    BY <1>5 DEF WriteFails, EndEntries, Entries
  <2> QED
    BY <1>5, <2>1, FewerEntries DEF WriteFails, lineVars
<1>6. ASSUME NEW r \in Requests, Reply(r) PROVE PendingIsCurrent'
  <2>1. Entries' \subseteq Entries
    BY <1>6 DEF Reply, Entries
  <2> QED
    BY <1>6, <2>1, FewerEntries DEF Reply
<1>7. ASSUME NEW r \in Requests, Timeout(r) PROVE PendingIsCurrent'
  <2>1. CASE child = None
    <3>1. Entries' \subseteq Entries
      BY <1>7, <2>1 DEF Timeout, TimeoutOf, EndEntries, Entries
    <3> QED
      BY <1>7, <2>1, <3>1, FewerEntries DEF Timeout, TimeoutOf, lineVars
  <2>2. CASE child # None
    <3>1. Entries' = {}
      BY <1>7, <2>2 DEF Timeout, TimeoutOf, EndEntries, Entries
    <3> QED
      BY <3>1 DEF PendingIsCurrent
  <2> QED
    BY <2>1, <2>2
<1>8. ASSUME NEW r \in Requests, Lost(r) PROVE PendingIsCurrent'
  <2>1. CASE r = child
    <3>1. Entries' = {}
      BY <1>8, <2>1 DEF Lost, FailAll, EndEntries, Entries
    <3> QED
      BY <3>1 DEF PendingIsCurrent
  <2>2. CASE r # child
    BY <1>1, <1>8, <2>2 DEF Lost, lineVars
  <2> QED
    BY <2>1, <2>2
<1>9. ASSUME Created \/ CreateFails PROVE PendingIsCurrent'
  <2>1. Entries' \subseteq Entries
    BY <1>9 DEF Created, CreateFails, Entries
  <2> QED
    BY <1>9, <2>1, FewerEntries DEF Created, CreateFails, lineVars
<1>10. ASSUME Disposed PROVE PendingIsCurrent'
  <2>1. Entries' = {}
    BY <1>10 DEF Disposed, DisposedWhen, FailAll, EndEntries, Entries
  <2> QED
    BY <2>1 DEF PendingIsCurrent
<1> QED
  BY <1>1, <1>2, <1>3, <1>4, <1>5, <1>6, <1>7, <1>8, <1>9, <1>10
  DEF Next, StartFails, Closes, vars, Begin, Finish, Starts, Dies, Dispose,
      callVars, lineVars

LEMMA StepWritten == TypeOK /\ Written /\ [Next]_vars => Written'
<1> SUFFICES ASSUME TypeOK, Written, [Next]_vars PROVE Written'
  OBVIOUS
<1> USE DEF TypeOK, Written, Entries
<1>1. ASSUME UNCHANGED <<on, line, call, draining>> PROVE Written'
  BY <1>1
<1>2. ASSUME NEW r \in Requests, Ask(r) PROVE Written'
  BY <1>2 DEF Ask, lineVars
<1>3. ASSUME NEW r \in Requests, Send(r) PROVE Written'
  BY <1>3 DEF Send, SendUnless, ChildFor, lineVars
<1>4. ASSUME NEW r \in Requests, Abort(r) PROVE Written'
  BY <1>4 DEF Abort, lineVars
<1>5. ASSUME NEW r \in Requests, WriteFails(r) PROVE Written'
  BY <1>5 DEF WriteFails, EndEntries, lineVars
<1>6. ASSUME NEW r \in Requests, Reply(r) PROVE Written'
  BY <1>6 DEF Reply
<1>7. ASSUME NEW r \in Requests, Timeout(r) PROVE Written'
  BY <1>7 DEF Timeout, TimeoutOf, EndEntries, lineVars
<1>8. ASSUME NEW r \in Requests, Begin(r) \/ Finish(r) PROVE Written'
  BY <1>8 DEF Begin, Finish, callVars
<1>9. ASSUME NEW r \in Requests, Lost(r) PROVE Written'
  BY <1>9 DEF Lost, FailAll, EndEntries, lineVars
<1>10. ASSUME Created \/ CreateFails PROVE Written'
  BY <1>10 DEF Created, CreateFails, lineVars
<1>11. ASSUME Disposed PROVE Written'
  BY <1>11 DEF Disposed, DisposedWhen, FailAll, EndEntries, lineVars
<1> QED
  BY <1>1, <1>2, <1>3, <1>4, <1>5, <1>6, <1>7, <1>8, <1>9, <1>10, <1>11
  DEF Next, StartFails, Closes, vars, Starts, Dies, Dispose, callVars, lineVars

(* The inductive invariant holds for ever.                                 *)
LEMMA AlwaysIInv == Spec => []IInv
<1>1. IInv /\ [Next]_vars => IInv'
  BY StepTypeOK, StepOneHelper, StepPending, StepWritten DEF IInv
<1> QED
  BY InitIInv, <1>1, PTL DEF Spec

(* Every variable of HelperPlatform and HelperProcess keeps its type.       *)
THEOREM TypeCorrect == Spec => []TypeOK
BY AlwaysIInv, PTL DEF IInv

(* A helper process that runs and was not killed is the platform's child,  *)
(* and after dispose there is none.                                        *)
THEOREM HelperIsOwned == Spec => []OneHelperAlive
BY AlwaysIInv, PTL DEF IInv

(* What still waits in `pending' was written to the current child, or to   *)
(* one that ensureChild replaced once its exit had been seen.              *)
THEOREM PendingIsOwned == Spec => []PendingIsCurrent
BY AlwaysIInv, PTL DEF IInv

----------------------------------------------------------------------------
(* What the drain waits for: a request that is with a live child is still   *)
(* an entry, and an aborted one then drains.  A process is spawned once,   *)
(* by a request that was not sent before, so that a new child has nothing  *)
(* of an older one.                                                        *)
Spawned ==
  /\ \A r \in Requests :
       /\ call[r] \in {"idle", "starting", "waiting"} => proc[r] = "none"
       /\ proc[r] = "none" => child # r /\ \A q \in Requests : on[q] # r
DrainInv ==
  /\ \A r \in aborted : call[r] # "pending"
  /\ \A r \in Requests :
       /\ line[r] \in {"sent", "doing", "replied"}
       /\ on[r] = child /\ child # None /\ proc[child] \in {"starting", "up"}
       => r \in Entries

LEMMA StepSpawned == TypeOK /\ Spawned /\ [Next]_vars => Spawned'
<1> SUFFICES ASSUME TypeOK, Spawned, [Next]_vars PROVE Spawned'
  OBVIOUS
<1> USE DEF TypeOK, Spawned
<1>1. ASSUME UNCHANGED <<on, child, proc, call>> PROVE Spawned'
  BY <1>1
<1>2. ASSUME NEW r \in Requests, Ask(r) PROVE Spawned'
  BY <1>2 DEF Ask, lineVars
<1>3. ASSUME NEW r \in Requests, Send(r) PROVE Spawned'
  BY <1>3 DEF Send, SendUnless, ChildFor, lineVars
<1>4. ASSUME NEW r \in Requests, Abort(r) \/ WriteFails(r) \/ Reply(r) PROVE Spawned'
  BY <1>4 DEF Abort, WriteFails, Reply, EndEntries, lineVars
<1>5. ASSUME NEW r \in Requests, Timeout(r) PROVE Spawned'
  BY <1>5 DEF Timeout, TimeoutOf, EndEntries, Kill, lineVars
<1>6. ASSUME NEW r \in Requests, Starts(r) \/ Dies(r) PROVE Spawned'
  BY <1>6 DEF Starts, Dies, callVars, lineVars
<1>7. ASSUME NEW r \in Requests, StartFails(r) \/ Closes(r) PROVE Spawned'
  BY <1>7 DEF StartFails, Closes, Lost, FailAll, EndEntries, lineVars
<1>8. ASSUME Created \/ CreateFails PROVE Spawned'
  BY <1>8 DEF Created, CreateFails, lineVars
<1>9. ASSUME Disposed PROVE Spawned'
  BY <1>9 DEF Disposed, DisposedWhen, FailAll, EndEntries, Kill, lineVars
<1> QED
  BY <1>1, <1>2, <1>3, <1>4, <1>5, <1>6, <1>7, <1>8, <1>9
  DEF Next, vars, Begin, Finish, Dispose, callVars, lineVars

LEMMA StepDrain ==
  TypeOK /\ Written /\ Spawned /\ DrainInv /\ [Next]_vars => DrainInv'
<1> SUFFICES ASSUME TypeOK, Written, Spawned, DrainInv, [Next]_vars PROVE DrainInv'
  OBVIOUS
<1> USE DEF TypeOK, DrainInv, Entries
<1>1. ASSUME UNCHANGED <<on, line, child, proc, callVars>> PROVE DrainInv'
  BY <1>1 DEF callVars
<1>2. ASSUME NEW r \in Requests, Ask(r) PROVE DrainInv'
  BY <1>2 DEF Ask, lineVars
<1>3. ASSUME NEW r \in Requests, Send(r) PROVE DrainInv'
  <2>1. CASE shut # "no" \/ r \in aborted
    BY <1>3, <2>1 DEF Send, SendUnless, lineVars
  <2>2. CASE ~(shut # "no" \/ r \in aborted)
    <3>1. /\ call' = [call EXCEPT ![r] = "pending"] /\ child' = ChildFor(r)
          /\ proc' = IF ChildFor(r) = r THEN [proc EXCEPT ![r] = "starting"] ELSE proc
          /\ on' = [on EXCEPT ![r] = ChildFor(r)]
          /\ line' = [line EXCEPT ![r] = "sent"] /\ UNCHANGED <<aborted, draining>>
          /\ r \notin aborted /\ call[r] = "waiting"
      BY <1>3, <2>2 DEF Send, SendUnless
    <3>2. child # r /\ \A q \in Requests : on[q] # r
      BY <3>1 DEF Spawned
    <3>3. ASSUME NEW q \in Requests, q # r, line[q] \in {"sent", "doing", "replied"},
                 on[q] = child', child' # None, proc'[child'] \in {"starting", "up"}
          PROVE  q \in Entries
      <4>1. child' = child /\ proc' = proc
        BY <3>1, <3>2, <3>3 DEF ChildFor
      <4> QED
        BY <3>3, <4>1
    <3> QED
      BY <3>1, <3>3
  <2> QED
    BY <2>1, <2>2
<1>4. ASSUME NEW r \in Requests, Abort(r) PROVE DrainInv'
  BY <1>4 DEF Abort, lineVars
<1>5. ASSUME NEW r \in Requests, WriteFails(r) PROVE DrainInv'
  BY <1>5 DEF WriteFails, EndEntries, lineVars
<1>6. ASSUME NEW r \in Requests, Reply(r) PROVE DrainInv'
  BY <1>6 DEF Reply
<1>7. ASSUME NEW r \in Requests, Timeout(r) PROVE DrainInv'
  BY <1>7 DEF Timeout, TimeoutOf, EndEntries, lineVars
<1>8. ASSUME NEW r \in Requests, Begin(r) \/ Finish(r) PROVE DrainInv'
  BY <1>8 DEF Begin, Finish, callVars
<1>9. ASSUME NEW r \in Requests, Starts(r) \/ Dies(r) PROVE DrainInv'
  BY <1>9 DEF Starts, Dies, callVars, lineVars
<1>10. ASSUME NEW r \in Requests, Lost(r) PROVE DrainInv'
  BY <1>10 DEF Lost, FailAll, EndEntries, lineVars
<1>11. ASSUME Created \/ CreateFails PROVE DrainInv'
  BY <1>11 DEF Created, CreateFails, lineVars
<1>12. ASSUME Disposed PROVE DrainInv'
  BY <1>12 DEF Disposed, DisposedWhen, FailAll, EndEntries, lineVars
<1> QED
  BY <1>1, <1>2, <1>3, <1>4, <1>5, <1>6, <1>7, <1>8, <1>9, <1>10, <1>11, <1>12
  DEF Next, StartFails, Closes, vars, Dispose, lineVars

(* The dispose of the platform ends no action whose caller was told that it *)
(* had been aborted.                                                       *)
THEOREM AbortedRunOut == Spec => AbortedActionsRunOut
<1>1. Init => Spawned /\ DrainInv
  BY DEF Init, Spawned, DrainInv
<1>2. IInv /\ Spawned /\ DrainInv /\ [Next]_vars => (Spawned /\ DrainInv)'
  BY StepSpawned, StepDrain DEF IInv
<1>3. IInv /\ DrainInv /\ [Next]_vars =>
        [ (shut # "done" /\ shut' = "done") =>
            \A r \in aborted : line[r] = "doing" => proc'[on[r]] = proc[on[r]] ]_vars
  <2> SUFFICES ASSUME IInv, DrainInv, Next, shut # "done", shut' = "done",
                      NEW r \in aborted, line[r] = "doing", proc'[on[r]] # proc[on[r]]
               PROVE  FALSE
    OBVIOUS
  <2>1. Disposed
    BY DEF Next, Ask, Send, SendUnless, Abort, WriteFails, Reply, Timeout, TimeoutOf, Begin,
       Finish, Starts, StartFails, Dies, Closes, Lost, Created, CreateFails, Dispose
  <2>2. draining = {} /\ Kill(child)
    BY <2>1 DEF Disposed, DisposedWhen
  <2>3. on[r] = child /\ child # None /\ proc[child] \in {"starting", "up"}
    BY <2>2 DEF Kill, IInv, TypeOK
  <2>4. r \in Entries /\ call[r] # "pending"
    BY <2>3 DEF DrainInv, IInv, TypeOK
  <2> QED
    BY <2>2, <2>4 DEF Entries
<1> QED
  BY <1>1, <1>2, <1>3, AlwaysIInv, PTL DEF Spec, AbortedActionsRunOut

----------------------------------------------------------------------------
(* The promises of HelperCalls: first what the steps of the process and of *)
(* the calls do to the mapped state, then one step per action.             *)

(* Calls that fail together: refused if their line was never written.      *)
LEMMA CallsFail ==
  ASSUME TypeOK, Written, UNCHANGED line,
         NEW S \in SUBSET Requests,
         \A r \in S : call[r] \in {"idle", "starting", "waiting", "pending"},
         call' \in [Requests -> Calls],
         \A r \in Requests :
           IF r \in S THEN call'[r] = "failed"
                      ELSE \/ call'[r] = call[r]
                           \/ {call[r], call'[r]} \subseteq {"idle", "starting", "waiting"}
  PROVE  Promised!End(S)
<1>1. \A r \in S : Outcome[r] = "open"
  BY DEF Outcome
<1>2. \A r \in Requests \ S : Outcome'[r] = Outcome[r]
  BY DEF Outcome
<1>3. \A r \in S : \/ Outcome'[r] = "failed"
                   \/ Outcome'[r] = "refused" /\ Action[r] = "none"
  BY DEF Outcome, Action
<1>4. Outcome' \in [Requests -> {"open", "answered", "failed", "refused"}]
  BY DEF Outcome
<1>5. UNCHANGED Action
  BY DEF Action
<1> QED
  BY <1>1, <1>2, <1>3, <1>4, <1>5 DEF Promised!End

(* Entries that end, all those of a set: the callers among them fail.       *)
LEMMA EntriesFail ==
  ASSUME TypeOK, Written, UNCHANGED line, NEW S \in SUBSET Requests, EndEntries(S)
  PROVE  Promised!Next
<1> DEFINE T == {r \in S : call[r] = "pending"}
<1>1. Promised!End(T)
  <2>1. call' \in [Requests -> Calls]
    BY DEF EndEntries, TypeOK
  <2>2. \A r \in Requests :
          IF r \in T THEN call'[r] = "failed" ELSE call'[r] = call[r]
    BY DEF EndEntries, TypeOK
  <2>3. T \in SUBSET Requests
    OBVIOUS
  <2> HIDE DEF T
  <2>4. \A r \in T : call[r] = "pending"
    BY DEF T
  <2> QED
    BY <2>1, <2>2, <2>3, <2>4, CallsFail
<1> QED
  BY <1>1 DEF Promised!Next

LEMMA SameCalls ==
  ASSUME UNCHANGED <<call, line>> PROVE UNCHANGED Promised!vars
BY DEF Promised!vars, Outcome, Action

LEMMA InitPromised == Init => Promised!Init
BY DEF Init, Promised!Init, Outcome, Action

LEMMA StepPromised ==
  ASSUME TypeOK, Written, [Next]_vars PROVE [Promised!Next]_(Promised!vars)
<1> USE DEF TypeOK
<1>1. ASSUME NEW r \in Requests, Ask(r) PROVE Promised!Next
  <2> DEFINE S == IF shut # "no" THEN {r} ELSE {}
  <2>1. Promised!End(S)
    BY <1>1, CallsFail DEF Ask, lineVars
  <2> QED
    BY <2>1 DEF Promised!Next
<1>2. ASSUME NEW r \in Requests, Send(r) PROVE [Promised!Next]_(Promised!vars)
  <2>1. CASE shut # "no" \/ r \in aborted
    <3>1. Promised!End({r})
      BY <1>2, <2>1, CallsFail DEF Send, SendUnless, lineVars
    <3> QED
      BY <3>1 DEF Promised!Next
  <2>2. CASE ~(shut # "no" \/ r \in aborted)
    <3>1. call[r] = "waiting" /\ line[r] = "none"
      BY <1>2 DEF Send, SendUnless, Written
    <3>2. /\ call' = [call EXCEPT ![r] = "pending"]
          /\ line' = [line EXCEPT ![r] = "sent"]
      BY <1>2, <2>2 DEF Send, SendUnless
    <3> QED
      BY <3>1, <3>2 DEF Promised!vars, Outcome, Action
  <2> QED
    BY <2>1, <2>2
<1>3. ASSUME NEW r \in Requests, Abort(r) PROVE [Promised!Next]_(Promised!vars)
  <2>1. CASE call[r] = "pending"
    <3>1. Promised!End({r})
      BY <1>3, <2>1, CallsFail DEF Abort, lineVars
    <3> QED
      BY <3>1 DEF Promised!Next
  <2>2. CASE call[r] # "pending"
    BY <1>3, <2>2, SameCalls DEF Abort, lineVars
  <2> QED
    BY <2>1, <2>2
<1>4. ASSUME NEW r \in Requests, WriteFails(r) PROVE Promised!Next
  BY <1>4, EntriesFail DEF WriteFails, lineVars
<1>5. ASSUME NEW r \in Requests, Reply(r) PROVE [Promised!Next]_(Promised!vars)
  <2>1. UNCHANGED Action
    BY <1>5 DEF Reply, Action
  <2>2. CASE on[r] = child /\ call[r] = "pending"
    <3>1. /\ Outcome[r] = "open" /\ Action[r] = "performed"
          /\ Outcome' = [Outcome EXCEPT ![r] = "answered"]
      BY <1>5, <2>2 DEF Reply, Outcome, Action
    <3> QED
      BY <2>1, <3>1 DEF Promised!Next, Promised!Answer
  <2>3. CASE ~(on[r] = child /\ call[r] = "pending")
    <3>1. call' = call
      BY <1>5, <2>3 DEF Reply
    <3>2. Outcome' = Outcome
      BY <1>5, <3>1 DEF Reply, Outcome
    <3> QED
      BY <2>1, <3>2 DEF Promised!vars
  <2> QED
    BY <2>2, <2>3
<1>6. ASSUME NEW r \in Requests, Timeout(r) PROVE Promised!Next
  BY <1>6, EntriesFail DEF Timeout, TimeoutOf, lineVars
<1>7. ASSUME NEW r \in Requests, Begin(r) PROVE Promised!Next
  <2>1. /\ Action[r] = "none" /\ Outcome[r] # "refused"
        /\ Action' = [Action EXCEPT ![r] = "begun"]
        /\ UNCHANGED Outcome
    BY <1>7 DEF Begin, callVars, Action, Outcome
  <2> QED
    BY <2>1 DEF Promised!Next, Promised!Begin
<1>8. ASSUME NEW r \in Requests, Finish(r) PROVE Promised!Next
  <2>1. /\ Action[r] = "begun"
        /\ Action' = [Action EXCEPT ![r] = "performed"]
        /\ UNCHANGED Outcome
    BY <1>8 DEF Finish, callVars, Action, Outcome
  <2> QED
    BY <2>1 DEF Promised!Next, Promised!Perform
<1>9. ASSUME NEW r \in Requests, Lost(r) PROVE [Promised!Next]_(Promised!vars)
  BY <1>9, EntriesFail, SameCalls DEF Lost, FailAll, lineVars
<1>10. ASSUME Created \/ CreateFails PROVE Promised!Next
  <2> DEFINE S == {r \in Requests : call[r] = "starting" /\ call'[r] = "failed"}
  <2>1. Promised!End(S)
    BY <1>10, CallsFail DEF Created, CreateFails, lineVars
  <2> QED
    BY <2>1 DEF Promised!Next
<1>11. ASSUME Disposed PROVE Promised!Next
  BY <1>11, EntriesFail DEF Disposed, DisposedWhen, FailAll, lineVars
<1>12. ASSUME UNCHANGED <<call, line>> PROVE [Promised!Next]_(Promised!vars)
  BY <1>12, SameCalls
<1> QED
  BY <1>1, <1>2, <1>3, <1>4, <1>5, <1>6, <1>7, <1>8, <1>9, <1>10, <1>11, <1>12
  DEF Next, StartFails, Closes, vars, Starts, Dies, Dispose, callVars, lineVars

(* However helpers start late, hang, die and are replaced, a call ends      *)
(* once, an answered one has been performed once, and a refused one never. *)
THEOREM PromisesKept == Spec => KeepsPromises
<1>1. IInv /\ [Next]_vars => [Promised!Next]_(Promised!vars)
  BY StepPromised DEF IInv
<1> QED
  BY InitPromised, AlwaysIInv, <1>1, PTL DEF Spec, KeepsPromises, Promised!Spec
=============================================================================
