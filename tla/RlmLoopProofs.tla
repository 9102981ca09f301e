---------------------------- MODULE RlmLoopProofs ----------------------------
(***************************************************************************)
(* What RlmLoop guarantees for any number of iterations, queries and model *)
(* calls: its types, that what a run reports is the first submission made  *)
(* under an awaited cell, and that code it left behind does nothing more.  *)
(*                                                                         *)
(* The report comes back in a message, and code submits at any time, also  *)
(* when no cell is awaited.  What connects the two is the trace of an      *)
(* execution: its message to the thread, the awaited cell, its reply.      *)
(***************************************************************************)
EXTENDS RlmLoop, TLAPS

ToThread == [type : {"init", "dispose"}] \cup [type : {"execute"}, cell : Cells]
            \cup [type : {"answer"}, query : Queries]
ToLoop   == [type : {"init", "dispose"}]
            \cup [type : {"execute"}, submitted : Cells \cup {None}]
            \cup [type : {"ask"}, query : Queries]

MessagesOK == toWorker \in Seq(ToThread) /\ toMain \in Seq(ToLoop)

(* What is pending follows from what run() awaits; there are iterations     *)
(* left where it may start one; it has an outcome once it has ended, and    *)
(* lets go of its worker then.                                             *)
LoopInv ==
  /\ pending = "init" <=> pc = "init"
  /\ pending = "execute" <=> pc = "cell"
  /\ pending = "dispose" <=> pc = "dispose"
  /\ pc \in {"action", "cell"} => iteration < MaxIterations
  /\ pc \in {"terminate", "settled"} => ~worker
  /\ pc \in {"init", "action", "cell", "fallback", "summary"} => outcome = "none"

(* Traces of an execution in a queue of messages.                          *)
NoExec(s) == \A i \in DOMAIN s : s[i].type # "execute"
OneExec(s) == \A i, j \in DOMAIN s :
                s[i].type = "execute" /\ s[j].type = "execute" => i = j
Tell(s, w) == \A i \in DOMAIN s : s[i].type = "execute" => s[i].submitted = w

NoTrace == NoExec(toWorker) /\ running = None /\ NoExec(toMain)
Asking  == pc \in {"init", "action", "fallback"}

(* There is at most one execution, and none while the loop is with the      *)
(* model; submissions under it count once, and its reply tells the first.   *)
TraceInv ==
  /\ OneExec(toWorker) /\ OneExec(toMain)
  /\ ~NoExec(toWorker) => running = None /\ NoExec(toMain)
  /\ running # None => NoExec(toMain)
  /\ Asking \/ outcome = "completed" => NoTrace
  /\ Asking => won = None
  /\ won # None => NoExec(toWorker)
  /\ running # None \/ won # None => submitted = won
  /\ Tell(toMain, won)
  /\ report # None => report = won
  /\ outcome = "completed" => report = won

IInv == TypeOK /\ MessagesOK /\ LoopInv /\ TraceInv

USE RlmAssumption

LEMMA TypesFollow ==
  /\ \A m \in ToThread : /\ m.type \in {"init", "dispose", "execute", "answer"}
                         /\ m.type = "execute" => m.cell \in Cells
                         /\ m.type = "answer" => m.query \in Queries
  /\ \A m \in ToLoop : /\ m.type \in {"init", "dispose", "execute", "ask"}
                       /\ m.type = "execute" => m.submitted \in Cells \cup {None}
                       /\ m.type = "ask" => m.query \in Queries
BY DEF ToThread, ToLoop

LEMMA Shorter ==
  ASSUME NEW S, NEW s \in Seq(S), s # <<>>
  PROVE  /\ Head(s) \in S /\ Tail(s) \in Seq(S) /\ Len(Tail(s)) <= Len(s)
         /\ OneExec(s) => OneExec(Tail(s))
         /\ NoExec(s) => NoExec(Tail(s)) /\ Head(s).type # "execute"
         /\ OneExec(s) /\ Head(s).type = "execute" => NoExec(Tail(s))
         /\ \A w : Tell(s, w) =>
              Tell(Tail(s), w) /\ (Head(s).type = "execute" => Head(s).submitted = w)
<1>1. /\ Head(s) = s[1] /\ 1 \in DOMAIN s /\ s[1] \in S
      /\ Tail(s) \in Seq(S) /\ Len(Tail(s)) = Len(s) - 1 /\ Len(s) \in Nat
  OBVIOUS
<1>2. \A i \in DOMAIN Tail(s) : i + 1 \in DOMAIN s /\ Tail(s)[i] = s[i + 1] /\ i \in Nat \ {0}
  OBVIOUS
<1> QED
  BY <1>1, <1>2 DEF NoExec, OneExec, Tell

LEMMA Longer ==
  ASSUME NEW S, NEW s \in Seq(S), NEW m \in S
  PROVE  /\ Append(s, m) \in Seq(S)
         /\ NoExec(s) => OneExec(Append(s, m))
         /\ m.type # "execute" =>
              /\ NoExec(s) => NoExec(Append(s, m))
              /\ OneExec(s) => OneExec(Append(s, m))
              /\ \A w : Tell(s, w) => Tell(Append(s, m), w)
         /\ \A w : NoExec(s) /\ m.submitted = w => Tell(Append(s, m), w)
<1>1. /\ Append(s, m) \in Seq(S) /\ DOMAIN Append(s, m) = 1..(Len(s) + 1)
      /\ DOMAIN s = 1..Len(s) /\ Len(s) \in Nat
      /\ Append(s, m)[Len(s) + 1] = m
      /\ \A i \in DOMAIN s : Append(s, m)[i] = s[i]
  OBVIOUS
<1> QED
  BY <1>1 DEF NoExec, OneExec, Tell

LEMMA EmptyQueue ==
  /\ NoExec(<<>>) /\ OneExec(<<>>) /\ \A S : <<>> \in Seq(S)
  /\ \A w : Tell(<<>>, w)
BY DEF NoExec, OneExec, Tell

LEMMA NoneIsOne == \A s : NoExec(s) => OneExec(s) /\ \A w : Tell(s, w)
BY DEF NoExec, OneExec, Tell

LEMMA InitIInv == Init => IInv
<1> SUFFICES ASSUME Init PROVE IInv
  OBVIOUS
<1> USE DEF Init
<1>1. TypeOK
  <2>1. /\ {aborted, expired, worker, told, open} \subseteq BOOLEAN
        /\ {report, acting, running, submitted, won} \subseteq Cells \cup {None}
    OBVIOUS
  <2>2. /\ query \in [Queries -> {"new", "asked", "sent", "answered", "over"}]
        /\ asker \in [Queries -> Cells \cup {None}]
    OBVIOUS
  <2>3. iteration \in 0..MaxIterations /\ calls \in 0..MaxLLMCalls
    OBVIOUS
  <2> QED
    BY <2>1, <2>2, <2>3 DEF TypeOK
<1>2. MessagesOK
  BY EmptyQueue DEF MessagesOK, ToThread
<1>3. LoopInv
  BY DEF LoopInv
<1>4. NoExec(toWorker) /\ NoExec(toMain)
  BY EmptyQueue DEF NoExec
<1>5. TraceInv
  BY <1>4, NoneIsOne DEF TraceInv, NoTrace, Asking
<1> QED
  BY <1>1, <1>2, <1>3, <1>5 DEF IInv

----------------------------------------------------------------------------
(* Types, and what is pending.                                             *)
Base == TypeOK /\ MessagesOK /\ LoopInv

LEMMA Posted ==
  ASSUME toWorker \in Seq(ToThread), NEW m \in ToThread, PostWorker(m)
  PROVE  toWorker' \in Seq(ToThread)
BY Longer DEF PostWorker

LEMMA Replied ==
  ASSUME toMain \in Seq(ToLoop), NEW m \in ToLoop, PostMain(m)
  PROVE  toMain' \in Seq(ToLoop)
BY Longer DEF PostMain

LEMMA ThreadBase == Base /\ Thread => Base'
<1> SUFFICES ASSUME Base, Thread PROVE Base'
  OBVIOUS
<1> USE DEF Base, TypeOK, MessagesOK, LoopInv, loopVars, budgetVars, execVars,
            threadVars
<1>1. CASE ReadWorker
  <2> DEFINE m == Head(toWorker)
  <2>1. m \in ToThread /\ toWorker' \in Seq(ToThread)
    BY <1>1, Shorter DEF ReadWorker
  <2> HIDE DEF m
  <2>2. CASE m.type = "init" \/ m.type = "dispose"
    <3>1. toMain' \in Seq(ToLoop)
      <4>1. PostMain([type |-> m.type])
        BY <1>1, <2>2 DEF ReadWorker, m
      <4>2. [type |-> m.type] \in ToLoop
        BY <2>2 DEF ToLoop
      <4> QED
        BY <4>1, <4>2, Replied
    <3> QED
      BY <1>1, <2>1, <2>2, <3>1 DEF ReadWorker, m
  <2>3. CASE m.type = "execute"
    <3>1. m.cell \in Cells
      BY <2>1, <2>3, TypesFollow
    <3> QED
      BY <1>1, <2>1, <2>3, <3>1 DEF ReadWorker, m, StartSubmit
  <2>4. CASE m.type = "answer"
    <3>1. m.query \in Queries
      BY <2>1, <2>4, TypesFollow
    <3> QED
      BY <1>1, <2>1, <2>4, <3>1 DEF ReadWorker, m
  <2> QED
    BY <2>1, <2>2, <2>3, <2>4, TypesFollow
<1>2. ASSUME NEW q \in Queries, Ask(q) PROVE Base'
  <2>1. toMain' \in Seq(ToLoop)
    BY <1>2, Replied DEF Ask, ToLoop
  <2> QED
    BY <1>2, <2>1 DEF Ask
<1>3. CASE Submit
  BY <1>3 DEF Submit
<1>4. CASE CellEnds
  <2>1. toMain' \in Seq(ToLoop)
    BY <1>4, Replied DEF CellEnds, ToLoop
  <2> QED
    BY <1>4, <2>1 DEF CellEnds
<1>5. CASE Yield
  BY <1>5 DEF Yield
<1>6. CASE Dies \/ Terminated
  <2>1. toWorker' \in Seq(ToThread)
    BY <1>6, EmptyQueue DEF Dies, Terminated
  <2>2. {acting', running', submitted'} \subseteq Cells \cup {None}
    BY <1>6 DEF Dies, Terminated
  <2> QED
    BY <1>6, <2>1, <2>2 DEF Dies, Terminated
<1> QED
  BY <1>1, <1>2, <1>3, <1>4, <1>5, <1>6 DEF Thread

(* Where run() goes next.                                                  *)
LEMMA GotoBase ==
  ASSUME Base, NEW where \in {"action", "fallback", "summary"}, Goto(where),
         outcome = "none", where = "action" => iteration' < MaxIterations
  PROVE  /\ LoopInv' /\ pc' = where /\ pending' = "none"
         /\ UNCHANGED <<outcome, report, worker, toWorker>>
BY DEF Base, LoopInv, Goto

LEMMA LeaveBase ==
  ASSUME Base, NEW how, NEW what, Leave(how, what)
  PROVE  /\ LoopInv' /\ pc' \in {"dispose", "settled"}
         /\ pending' \in {"none", "dispose"}
         /\ outcome' = how /\ report' = what /\ UNCHANGED worker
         /\ toWorker' \in Seq(ToThread)
<1>1. toWorker' \in Seq(ToThread)
  BY Posted DEF Base, MessagesOK, Leave, ToThread
<1> QED
  BY <1>1 DEF Base, LoopInv, TypeOK, Leave

LEMMA GiveUpBase ==
  ASSUME Base, UNCHANGED iteration, GiveUpWorker,
         pc' \in {"summary", "terminate", "settled"},
         pc' = "summary" => outcome = "none" /\ UNCHANGED outcome
  PROVE  /\ LoopInv' /\ worker' = FALSE /\ pending' = "none" /\ UNCHANGED toWorker
         /\ thread' \in {thread, "dying"}
BY DEF Base, LoopInv, GiveUpWorker

LEMMA LoopBase == Base /\ Loop => Base'
<1> SUFFICES ASSUME Base, Loop PROVE Base'
  OBVIOUS
<1> USE DEF Base, budgetVars, loopVars, execVars, threadVars, None
<1>1. CASE ActionAnswered
  <2>1. ASSUME Iterate(iteration + 1) PROVE Base'
    <3>1. iteration' = iteration + 1 /\ iteration' \in 0..MaxIterations
      BY <1>1, <2>1 DEF ActionAnswered, Iterate, LoopInv, TypeOK
    <3>2. CASE Goto("fallback") \/ Goto("summary") \/ Goto("action")
      <4>1. outcome = "none"
        BY <1>1 DEF ActionAnswered, LoopInv
      <4>2. pc' \in {"action", "fallback", "summary"} /\ LoopInv'
        BY <2>1, <3>1, <3>2, <4>1, GotoBase DEF Iterate, Goto, TypeOK
      <4> QED
        BY <1>1, <3>1, <3>2, <4>2 DEF ActionAnswered, Goto, TypeOK, MessagesOK
    <3>3. CASE Leave("cancelled", None)
      BY <1>1, <3>1, <3>3, LeaveBase DEF ActionAnswered, TypeOK, MessagesOK
    <3> QED
      BY <2>1, <3>2, <3>3 DEF Iterate
  <2>2. ASSUME ~Iterate(iteration + 1) PROVE Base'
    <3>1. /\ iteration + 1 \in Cells
          /\ PostWorker([type |-> "execute", cell |-> iteration + 1])
      BY <1>1, <2>2 DEF ActionAnswered, LoopInv, TypeOK, Cells
    <3>2. toWorker' \in Seq(ToThread)
      BY <3>1, Posted DEF MessagesOK, ToThread
    <3> QED
      BY <1>1, <2>2, <3>2 DEF ActionAnswered, LoopInv, TypeOK, MessagesOK
  <2> QED
    BY <2>1, <2>2
<1>2. ASSUME Fail, outcome = "none",
             UNCHANGED <<iteration, budgetVars, calls, thread, told, toMain,
                         threadVars, query, asker>>
      PROVE  Base'
  <2>1. CASE Goto("summary")
    BY <1>2, <2>1, GotoBase DEF Goto, TypeOK, MessagesOK
  <2>2. CASE Leave("thrown", None)
    BY <1>2, <2>2, LeaveBase DEF TypeOK, MessagesOK
  <2> QED
    BY <1>2, <2>1, <2>2 DEF Fail
<1>3. CASE ActionFails
  BY <1>2, <1>3 DEF ActionFails, LoopInv
<1>4. CASE FallbackEnds
  <2>1. CASE Leave(Ending, None)
    BY <1>4, <2>1, LeaveBase DEF FallbackEnds, Ending, TypeOK, MessagesOK
  <2> QED
    BY <1>2, <1>4, <2>1 DEF FallbackEnds, LoopInv
<1>5. CASE SummaryEnds
  BY <1>5, LeaveBase DEF SummaryEnds, TypeOK, MessagesOK
<1>6. CASE Abort
  BY <1>6, GiveUpBase DEF Abort, LoopInv, TypeOK, MessagesOK
<1>7. CASE Expire
  BY <1>7, GiveUpBase DEF Expire, LoopInv, TypeOK, MessagesOK
<1>8. CASE Disposed
  BY <1>8 DEF Disposed, LoopInv, TypeOK, MessagesOK
<1> QED
  BY <1>1, <1>3, <1>4, <1>5, <1>6, <1>7, <1>8 DEF Loop

LEMMA MainBase == Base /\ Main => Base'
<1> SUFFICES ASSUME Base, Main PROVE Base'
  OBVIOUS
<1> USE DEF Base, budgetVars, loopVars, execVars, threadVars, None
<1>1. CASE ReadReply
  <2> DEFINE m == Head(toMain)
  <2>1. m \in ToLoop /\ toMain' \in Seq(ToLoop)
    BY <1>1, Shorter DEF ReadReply, MessagesOK
  <2>2. m.type = "execute" => m.submitted \in Cells \cup {None}
    BY <2>1, TypesFollow
  <2> HIDE DEF m
  <2>3. CASE UNCHANGED <<loopVars, execVars, thread, toWorker>>
    BY <1>1, <2>1, <2>3 DEF ReadReply, LoopInv, TypeOK, MessagesOK
  <2>4. ASSUME UNCHANGED thread,
               \/ pending = "init" /\ Iterate(0)
               \/ pending = "execute" /\ Iterate(iteration + 1)
        PROVE  Base'
    <3>1. iteration' \in 0..MaxIterations
      BY <2>4 DEF Iterate, LoopInv, TypeOK
    <3>2. CASE Goto("fallback") \/ Goto("summary") \/ Goto("action")
      <4>1. pc' \in {"action", "fallback", "summary"} /\ LoopInv'
        BY <2>4, <3>1, <3>2, GotoBase DEF Iterate, Goto, LoopInv, TypeOK
      <4> QED
        BY <1>1, <2>1, <2>4, <3>1, <3>2, <4>1 DEF ReadReply, Goto, TypeOK, MessagesOK
    <3>3. CASE Leave("cancelled", None)
      <4>1. LoopInv'
        BY <3>3, LeaveBase DEF Leave, LoopInv, TypeOK
      <4> QED
        BY <1>1, <2>1, <2>4, <3>1, <3>3, <4>1, LeaveBase DEF ReadReply, TypeOK, MessagesOK
    <3> QED
      BY <2>4, <3>2, <3>3 DEF Iterate
  <2>5. ASSUME m.type = "execute", Leave(Ending, m.submitted), UNCHANGED <<iteration, thread>>
        PROVE  Base'
    BY <1>1, <2>1, <2>2, <2>5, LeaveBase DEF ReadReply, Ending, TypeOK, MessagesOK
  <2>6. ASSUME Release PROVE Base'
    BY <1>1, <2>1, <2>6, GiveUpBase DEF ReadReply, Release, TypeOK, MessagesOK
  <2>7. ASSUME CellFails PROVE Base'
    BY <1>1, <2>1, <2>7, GiveUpBase DEF ReadReply, CellFails, TypeOK, MessagesOK
  <2> QED
    BY <1>1, <2>3, <2>4, <2>5, <2>6, <2>7 DEF ReadReply, m
<1>2. CASE DisposeTimesOut
  BY <1>2, GiveUpBase DEF DisposeTimesOut, Release, TypeOK, MessagesOK
<1>3. CASE HearDeath
  <2>1. CASE pending = "none"
    BY <1>3, <2>1 DEF HearDeath, LoopInv, TypeOK, MessagesOK
  <2>2. CASE pending = "init" /\ Fail /\ UNCHANGED <<iteration, thread>>
    <3>0. outcome = "none" /\ iteration' \in 0..MaxIterations
      BY <2>2 DEF LoopInv, TypeOK
    <3>1. CASE Goto("summary")
      <4>1. LoopInv'
        BY <2>2, <3>0, <3>1, GotoBase DEF Goto
      <4> QED
        BY <1>3, <2>2, <3>0, <3>1, <4>1 DEF HearDeath, Goto, TypeOK, MessagesOK
    <3>2. CASE Leave("thrown", None)
      BY <1>3, <2>2, <3>2, LeaveBase DEF HearDeath, TypeOK, MessagesOK
    <3> QED
      BY <2>2, <3>1, <3>2 DEF Fail
  <2>3. CASE pending = "execute"
    BY <1>3, <2>3, GiveUpBase DEF HearDeath, CellFails, TypeOK, MessagesOK
  <2>4. CASE pending = "dispose"
    BY <1>3, <2>4, GiveUpBase DEF HearDeath, Release, TypeOK, MessagesOK
  <2> QED
    BY <1>3, <2>1, <2>2, <2>3, <2>4 DEF HearDeath
<1>4. CASE ReadQuery
  <2>1. /\ Head(toMain).query \in Queries /\ toMain' \in Seq(ToLoop)
        /\ [type |-> "answer", query |-> Head(toMain).query] \in ToThread
    BY <1>4, Shorter, TypesFollow DEF ReadQuery, MessagesOK, ToThread
  <2>2. toWorker' \in Seq(ToThread)
    BY <1>4, <2>1, Posted DEF ReadQuery, MessagesOK
  <2>3. calls' \in 0..MaxLLMCalls
    BY <1>4 DEF ReadQuery, TypeOK
  <2>4. query' \in [Queries -> {"new", "asked", "sent", "answered", "over"}]
    BY <1>4, <2>1 DEF ReadQuery, TypeOK
  <2> QED
    BY <1>4, <2>1, <2>2, <2>3, <2>4 DEF ReadQuery, LoopInv, TypeOK, MessagesOK
<1>5. ASSUME NEW q \in Queries, QueryEnds(q) PROVE Base'
  <2>1. toWorker' \in Seq(ToThread)
    BY <1>5, Posted DEF QueryEnds, MessagesOK, ToThread
  <2> QED
    BY <1>5, <2>1 DEF QueryEnds, LoopInv, TypeOK, MessagesOK
<1> QED
  BY <1>1, <1>2, <1>3, <1>4, <1>5 DEF Main

LEMMA StepBase == Base /\ [Next]_vars => Base'
<1>1. Base /\ UNCHANGED vars => Base'
  BY DEF Base, TypeOK, MessagesOK, LoopInv, vars, loopVars, budgetVars, execVars, threadVars
<1> QED
  BY <1>1, ThreadBase, LoopBase, MainBase DEF Next

----------------------------------------------------------------------------
(* Traces of executions.                                                   *)

(* A queue that got no execution, and no reply.                            *)
Quieter(s, t) ==
  /\ OneExec(s) => OneExec(t)
  /\ NoExec(s) => NoExec(t)
  /\ \A w : Tell(s, w) => Tell(t, w)

LEMMA SameQueue == \A s : Quieter(s, s)
BY DEF Quieter

LEMMA ShorterQueue ==
  ASSUME NEW S, NEW s \in Seq(S), s # <<>>
  PROVE  Quieter(s, Tail(s))
BY Shorter DEF Quieter

LEMMA LongerQueue ==
  ASSUME NEW S, NEW s \in Seq(S), NEW m \in S, m.type # "execute"
  PROVE  Quieter(s, Append(s, m))
BY Longer DEF Quieter

LEMMA EmptiedQueue == \A s : Quieter(s, <<>>)
BY EmptyQueue DEF Quieter

(* A step of the thread that starts, ends and submits nothing.             *)
LEMMA QuietStep ==
  ASSUME TraceInv, Quieter(toWorker, toWorker'), Quieter(toMain, toMain'),
         UNCHANGED <<pc, outcome, report, running, submitted, won>>
  PROVE  TraceInv'
BY DEF TraceInv, NoTrace, Asking, Quieter

LEMMA PostedQuietly ==
  ASSUME MessagesOK, NEW m \in ToThread, m.type # "execute", PostWorker(m)
  PROVE  Quieter(toWorker, toWorker')
BY SameQueue, LongerQueue DEF MessagesOK, PostWorker

LEMMA ThreadTrace == IInv /\ Thread => TraceInv'
<1> SUFFICES ASSUME IInv, Thread PROVE TraceInv'
  OBVIOUS
<1> USE DEF IInv, MessagesOK, loopVars, budgetVars, execVars, threadVars
<1>1. CASE ReadWorker
  <2> DEFINE m == Head(toWorker)
  <2>1. /\ m \in ToThread /\ toWorker' = Tail(toWorker)
        /\ Quieter(toWorker, toWorker')
        /\ m.type = "execute" => ~NoExec(toWorker) /\ NoExec(toWorker')
    BY <1>1, Shorter, ShorterQueue DEF ReadWorker, TraceInv
  <2>2. m.type \in {"init", "dispose", "execute", "answer"}
    BY <2>1, TypesFollow
  <2> HIDE DEF m
  <2>3. CASE m.type \in {"init", "dispose"}
    <3>1. Quieter(toMain, toMain')
      <4>1. [type |-> m.type] \in ToLoop /\ PostMain([type |-> m.type])
        BY <1>1, <2>3 DEF ReadWorker, m, ToLoop
      <4> QED
        BY <2>3, <4>1, LongerQueue DEF PostMain
    <3> QED
      BY <1>1, <2>1, <2>3, <3>1, QuietStep DEF ReadWorker, m
  <2>4. CASE m.type = "answer"
    BY <1>1, <2>1, <2>4, SameQueue, QuietStep DEF ReadWorker, m
  <2>5. CASE m.type = "execute"
    <3>1. /\ running = None /\ NoExec(toMain) /\ won = None /\ ~Asking
          /\ outcome # "completed"
      BY <2>1, <2>5 DEF TraceInv, NoTrace
    <3>2. /\ submitted' = None /\ NoExec(toWorker')
          /\ UNCHANGED <<pc, outcome, report, toMain, won>>
      BY <1>1, <2>1, <2>5 DEF ReadWorker, m, StartSubmit
    <3> QED
      BY <3>1, <3>2, NoneIsOne DEF TraceInv, NoTrace, Asking
  <2> QED
    BY <2>2, <2>3, <2>4, <2>5
<1>2. ASSUME NEW q \in Queries, Ask(q) PROVE TraceInv'
  <2>1. Quieter(toMain, toMain')
    BY <1>2, LongerQueue DEF Ask, PostMain, ToLoop
  <2> QED
    BY <1>2, <2>1, SameQueue, QuietStep DEF Ask
<1>3. CASE Submit
  <2>1. CASE won = None /\ running # None
    <3>1. /\ ~Asking /\ outcome # "completed" /\ NoExec(toWorker) /\ NoExec(toMain)
          /\ submitted = None /\ report = None
      BY <2>1 DEF TraceInv, NoTrace
    <3>2. /\ won' = acting /\ submitted' = acting
          /\ UNCHANGED <<pc, outcome, report, toWorker, toMain, running>>
      BY <1>3, <2>1, <3>1 DEF Submit
    <3> QED
      BY <3>1, <3>2, NoneIsOne DEF TraceInv, NoTrace, Asking
  <2>2. CASE ~(won = None /\ running # None)
    <3>1. /\ UNCHANGED <<pc, outcome, report, toWorker, toMain, running, won>>
          /\ won # None => submitted' = submitted
      BY <1>3, <2>2 DEF Submit, TraceInv
    <3> QED
      BY <2>2, <3>1 DEF TraceInv, NoTrace, Asking
  <2> QED
    BY <2>1, <2>2
<1>4. CASE CellEnds
  <2>1. /\ running # None /\ running' = None /\ submitted = won
        /\ NoExec(toMain) /\ NoExec(toWorker) /\ ~Asking /\ outcome # "completed"
        /\ UNCHANGED <<pc, outcome, report, toWorker, submitted, won>>
    BY <1>4 DEF CellEnds, TraceInv, NoTrace
  <2>2. [type |-> "execute", submitted |-> submitted] \in ToLoop
    BY DEF ToLoop, TypeOK
  <2>3. OneExec(toMain') /\ Tell(toMain', won)
    BY <1>4, <2>1, <2>2, Longer DEF CellEnds, PostMain
  <2> QED
    BY <2>1, <2>3, NoneIsOne DEF TraceInv, NoTrace, Asking
<1>5. CASE Yield
  BY <1>5, SameQueue, QuietStep DEF Yield
<1>6. CASE Dies \/ Terminated
  BY <1>6, SameQueue, EmptiedQueue, QuietStep DEF Dies, Terminated
<1> QED
  BY <1>1, <1>2, <1>3, <1>4, <1>5, <1>6 DEF Thread

(* run() goes on without a new execution: to the model only once there is   *)
(* no trace of the last one.                                               *)
LEMMA GoesOn ==
  ASSUME TraceInv, Quieter(toWorker, toWorker'),
         OneExec(toMain'), NoExec(toMain) => NoExec(toMain'), Tell(toMain', won),
         UNCHANGED threadVars,
         Asking' => won = None /\ NoTrace',
         report' # None => report' = won,
         outcome' = "completed" => report' = won /\ NoTrace'
  PROVE  TraceInv'
BY DEF TraceInv, NoTrace, Quieter, threadVars, Asking

LEMMA LeavesQuietly ==
  ASSUME MessagesOK, NEW how, NEW what, Leave(how, what)
  PROVE  /\ Quieter(toWorker, toWorker') /\ ~Asking'
         /\ outcome' = how /\ report' = what
BY PostedQuietly, SameQueue DEF Leave, ToThread, Asking

LEMMA LoopTrace == IInv /\ Loop => TraceInv'
<1> SUFFICES ASSUME IInv, Loop PROVE TraceInv'
  OBVIOUS
<1> USE DEF IInv, loopVars, budgetVars, execVars, threadVars
<1>0. /\ OneExec(toMain) /\ Tell(toMain, won)
      /\ Asking \/ outcome = "completed" => NoTrace
      /\ Asking => won = None
      /\ report # None => report = won
      /\ outcome = "completed" => report = won
  BY DEF TraceInv
<1>1. CASE ActionAnswered
  <2>1. Asking /\ NoTrace /\ won = None
    BY <1>0, <1>1 DEF ActionAnswered, Asking
  <2>2. ASSUME Iterate(iteration + 1) PROVE TraceInv'
    <3>1. CASE Leave("cancelled", None)
      BY <1>0, <1>1, <3>1, LeavesQuietly, GoesOn DEF ActionAnswered
    <3>2. CASE UNCHANGED <<outcome, report, toWorker>>
      BY <1>0, <1>1, <2>1, <3>2, SameQueue, GoesOn DEF ActionAnswered, NoTrace
    <3> QED
      BY <2>2, <3>1, <3>2 DEF Iterate, Goto
  <2>3. ASSUME ~Iterate(iteration + 1) PROVE TraceInv'
    <3> DEFINE m == [type |-> "execute", cell |-> iteration + 1]
    <3>1. /\ pc' = "cell" /\ PostWorker(m) /\ m \in ToThread
          /\ UNCHANGED <<outcome, report, toMain, running, submitted, won>>
      BY <1>1, <2>3 DEF ActionAnswered, ToThread, LoopInv, TypeOK, Cells
    <3>2. OneExec(toWorker')
      BY <2>1, <3>1, Longer, NoneIsOne DEF PostWorker, NoTrace, MessagesOK
    <3>3. outcome # "completed"
      BY <1>1 DEF ActionAnswered, LoopInv
    <3> QED
      BY <1>0, <2>1, <3>1, <3>2, <3>3 DEF TraceInv, NoTrace, Asking
  <2> QED
    BY <2>2, <2>3
<1>2. ASSUME Fail, UNCHANGED <<toMain, threadVars>> PROVE TraceInv'
  <2>1. CASE Goto("summary")
    BY <1>0, <1>2, <2>1, SameQueue, GoesOn DEF Goto, Asking, NoTrace
  <2>2. CASE Leave("thrown", None)
    BY <1>0, <1>2, <2>2, LeavesQuietly, GoesOn
  <2> QED
    BY <1>2, <2>1, <2>2 DEF Fail
<1>3. CASE ActionFails
  BY <1>2, <1>3 DEF ActionFails
<1>4. CASE FallbackEnds
  <2>1. CASE Leave(Ending, None)
    <3>1. NoTrace /\ won = None /\ UNCHANGED <<toMain, threadVars>>
      BY <1>0, <1>4 DEF FallbackEnds, Asking
    <3>2. NoTrace'
      BY <2>1, <3>1, LeavesQuietly DEF NoTrace, Quieter
    <3> QED
      BY <1>0, <2>1, <3>1, <3>2, LeavesQuietly, GoesOn
  <2> QED
    BY <1>2, <1>4, <2>1 DEF FallbackEnds
<1>5. CASE SummaryEnds
  BY <1>0, <1>5, LeavesQuietly, GoesOn DEF SummaryEnds
<1>6. CASE Abort \/ Expire
  <2>1. /\ UNCHANGED <<report, toWorker, toMain, threadVars>>
        /\ Asking' => Asking
        /\ outcome' = "completed" => outcome = "completed"
    BY <1>6 DEF Abort, Expire, GiveUpWorker, Asking
  <2> QED
    BY <1>0, <2>1, SameQueue, GoesOn DEF NoTrace
<1>7. CASE Disposed
  BY <1>0, <1>7, SameQueue, GoesOn DEF Disposed, Asking, NoTrace
<1> QED
  BY <1>1, <1>3, <1>4, <1>5, <1>6, <1>7 DEF Loop

LEMMA MainTrace == IInv /\ Main => TraceInv'
<1> SUFFICES ASSUME IInv, Main PROVE TraceInv'
  OBVIOUS
<1> USE DEF IInv, loopVars, budgetVars, execVars, threadVars
<1>0. /\ OneExec(toMain) /\ Tell(toMain, won)
      /\ Asking \/ outcome = "completed" => NoTrace
      /\ Asking => won = None
      /\ report # None => report = won
      /\ outcome = "completed" => report = won
  BY DEF TraceInv
<1>1. CASE ReadReply
  <2> DEFINE m == Head(toMain)
  <2>1. /\ Quieter(toMain, toMain')
        /\ m.type = "execute" => NoExec(toMain') /\ m.submitted = won /\ ~NoExec(toMain)
        /\ UNCHANGED threadVars
    BY <1>0, <1>1, Shorter, ShorterQueue DEF ReadReply, MessagesOK
  <2>2. OneExec(toMain') /\ Tell(toMain', won) /\ (NoExec(toMain) => NoExec(toMain'))
    BY <1>0, <2>1 DEF Quieter
  <2>3. m.type = "execute" => running = None /\ NoExec(toWorker) /\ outcome # "completed"
    BY <2>1 DEF TraceInv, NoTrace
  <2> HIDE DEF m
  <2>4. CASE UNCHANGED <<loopVars, toWorker>>
    BY <1>0, <2>1, <2>2, <2>4, SameQueue, GoesOn DEF Asking, NoTrace
  <2>5. ASSUME NEW i, Iterate(i), won = None, running = None, NoExec(toWorker), NoExec(toMain'),
               outcome # "completed"
        PROVE  TraceInv'
    <3>1. CASE Leave("cancelled", None)
      BY <2>1, <2>2, <3>1, LeavesQuietly, GoesOn
    <3>2. CASE UNCHANGED <<outcome, report, toWorker>>
      BY <1>0, <2>1, <2>2, <2>5, <3>2, SameQueue, GoesOn DEF NoTrace
    <3> QED
      BY <2>5, <3>1, <3>2 DEF Iterate, Goto
  <2>6. CASE pending = "init" /\ Iterate(0)
    <3>1. Asking /\ NoTrace /\ outcome # "completed"
      BY <1>0, <2>6 DEF LoopInv, Asking
    <3> QED
      BY <1>0, <2>2, <2>5, <2>6, <3>1 DEF NoTrace
  <2>7. CASE m.type = "execute" /\ m.submitted = None /\ Iterate(iteration + 1)
    BY <2>1, <2>3, <2>5, <2>7
  <2>8. CASE m.type = "execute" /\ m.submitted # None /\ Leave(Ending, m.submitted)
    <3>1. NoTrace'
      BY <2>1, <2>3, <2>8, LeavesQuietly DEF NoTrace, Quieter
    <3> QED
      BY <2>1, <2>2, <2>8, <3>1, LeavesQuietly, GoesOn
  <2>9. CASE Release
    BY <1>0, <2>1, <2>2, <2>9, SameQueue, GoesOn DEF Release, GiveUpWorker, Asking, NoTrace
  <2>10. CASE CellFails
    BY <1>0, <2>1, <2>2, <2>10, SameQueue, GoesOn DEF CellFails, GiveUpWorker, Asking
  <2> QED
    BY <1>1, <2>4, <2>6, <2>7, <2>8, <2>9, <2>10 DEF ReadReply, m
<1>2. CASE DisposeTimesOut
  BY <1>0, <1>2, SameQueue, GoesOn
  DEF DisposeTimesOut, Release, GiveUpWorker, Asking, NoTrace
<1>3. CASE HearDeath
  <2>1. UNCHANGED <<toMain, threadVars>>
    BY <1>3 DEF HearDeath
  <2>2. CASE UNCHANGED <<loopVars, toWorker>>
    BY <1>0, <2>1, <2>2, SameQueue, GoesOn DEF Asking, NoTrace
  <2>3. CASE Fail
    <3>1. CASE Goto("summary")
      BY <1>0, <2>1, <3>1, SameQueue, GoesOn DEF Goto, Asking, NoTrace
    <3>2. CASE Leave("thrown", None)
      BY <1>0, <2>1, <3>2, LeavesQuietly, GoesOn
    <3> QED
      BY <2>3, <3>1, <3>2 DEF Fail
  <2>4. CASE CellFails
    BY <1>0, <2>1, <2>4, SameQueue, GoesOn DEF CellFails, GiveUpWorker, Asking
  <2>5. CASE Release
    BY <1>0, <2>1, <2>5, SameQueue, GoesOn DEF Release, GiveUpWorker, Asking, NoTrace
  <2> QED
    BY <1>3, <2>2, <2>3, <2>4, <2>5 DEF HearDeath
<1>4. CASE ReadQuery
  <2>1. /\ Quieter(toMain, toMain')
        /\ [type |-> "answer", query |-> Head(toMain).query] \in ToThread
    BY <1>4, Shorter, ShorterQueue, TypesFollow DEF ReadQuery, MessagesOK, ToThread
  <2>2. Quieter(toWorker, toWorker')
    BY <1>4, <2>1, PostedQuietly, SameQueue DEF ReadQuery
  <2> QED
    BY <1>4, <2>1, <2>2, QuietStep DEF ReadQuery
<1>5. ASSUME NEW q \in Queries, QueryEnds(q) PROVE TraceInv'
  <2>1. Quieter(toWorker, toWorker')
    BY <1>5, PostedQuietly, SameQueue DEF QueryEnds, ToThread
  <2> QED
    BY <1>5, <2>1, SameQueue, QuietStep DEF QueryEnds
<1> QED
  BY <1>1, <1>2, <1>3, <1>4, <1>5 DEF Main

----------------------------------------------------------------------------
LEMMA AlwaysIInv == Spec => []IInv
<1>1. IInv /\ [Next]_vars => IInv'
  <2>1. IInv /\ UNCHANGED vars => TraceInv'
    BY SameQueue, QuietStep DEF IInv, vars, loopVars, threadVars
  <2> QED
    BY <2>1, StepBase, ThreadTrace, LoopTrace, MainTrace DEF IInv, Base, Next
<1> QED
  BY <1>1, InitIInv, PTL DEF Spec

(* Every variable keeps its type, and no count goes over its limit.         *)
THEOREM TypeCorrect == Spec => []TypeOK
<1>1. IInv => TypeOK
  BY DEF IInv
<1> QED
  BY <1>1, AlwaysIInv, PTL

(* What a run reports is the first submission made under an awaited cell;   *)
(* once one was made, the loop asks for no further cell and extracts no     *)
(* answer (a run whose deadline passed is still summarised).                *)
THEOREM FirstSubmissionCounts == Spec => []FirstSubmissionReported
<1>1. IInv => FirstSubmissionReported
  BY DEF IInv, TraceInv, FirstSubmissionReported, Asking
<1> QED
  BY <1>1, AlwaysIInv, PTL

(* Once run() has settled, no step of the code it left behind, of its       *)
(* thread or of the model reaches the executor, the count or the report.    *)
THEOREM SettledIsQuiet == Spec => QuietOnceSettled
<1>1. IInv /\ [Next]_vars =>
        [ pc = "settled" =>
           /\ ~worker /\ pending = "none"
           /\ calls' = calls /\ Len(toWorker') <= Len(toWorker)
           /\ UNCHANGED <<loopVars, execVars>> ]_vars
  <2> SUFFICES ASSUME IInv, Next, pc = "settled"
               PROVE  /\ ~worker /\ pending = "none"
                      /\ calls' = calls /\ Len(toWorker') <= Len(toWorker)
                      /\ UNCHANGED <<loopVars, execVars>>
    OBVIOUS
  <2> USE DEF IInv, loopVars, budgetVars, execVars, threadVars
  <2>1. ~worker /\ pending = "none" /\ Len(toWorker) \in Nat
    BY DEF LoopInv, TypeOK, MessagesOK
  <2>2. CASE Thread
    <3>1. \/ toWorker' \in {toWorker, <<>>}
          \/ toWorker # <<>> /\ toWorker' = Tail(toWorker)
      BY <2>2 DEF Thread, ReadWorker, Ask, Submit, CellEnds, Yield, Dies, Terminated
    <3>2. Len(<<>>) = 0
      OBVIOUS
    <3>3. Len(toWorker') <= Len(toWorker)
      BY <2>1, <3>1, <3>2, Shorter DEF MessagesOK
    <3> QED
      BY <2>1, <2>2, <3>3
      DEF Thread, ReadWorker, Ask, Submit, CellEnds, Yield, Dies, Terminated
  <2>3. CASE Loop
    BY <2>3 DEF Loop, ActionAnswered, ActionFails, FallbackEnds, SummaryEnds, Abort,
                Expire, Disposed
  <2>4. CASE Main
    <3>1. CASE ReadReply
      <4>1. Head(toMain).type # "none"
        BY <3>1, Shorter, TypesFollow DEF ReadReply, MessagesOK
      <4> QED
        BY <2>1, <3>1, <4>1 DEF ReadReply
    <3>2. CASE ReadQuery
      BY <2>1, <3>2 DEF ReadQuery, HasWorker
    <3>3. CASE HearDeath
      BY <2>1, <3>3 DEF HearDeath
    <3> QED
      BY <2>1, <2>4, <3>1, <3>2, <3>3 DEF Main, DisposeTimesOut, DisposeTimer, QueryEnds
  <2> QED
    BY <2>2, <2>3, <2>4 DEF Next
<1> QED
  BY <1>1, AlwaysIInv, PTL DEF Spec, QuietOnceSettled
==============================================================================
