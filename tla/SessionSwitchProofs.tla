------------------------- MODULE SessionSwitchProofs -------------------------
(***************************************************************************)
(* What SessionSwitch guarantees for any number of processes and sessions, *)
(* any number of switches and any faults: its types, that a process writes *)
(* only under its lease, that between switches it is in one session, and   *)
(* that each event is logged once, in order.                               *)
(*                                                                         *)
(* None is inductive: during a switch it matters which of the checkpoints  *)
(* and logs have moved already, and on the way back which have returned    *)
(* (Progress), and which log holds its events back (LogInv).               *)
(***************************************************************************)
EXTENDS SessionSwitch, TLAPS

USE SessionAssumption

Going(p)    == flight[p].at # "none"
Moving(p)   == flight[p].at \notin {"none", "checkpoints"}

(* The leases of a process: that of its session, and during a switch that  *)
(* of the next one.                                                        *)
Leases(p) ==
  /\ \A r \in Roots : owner[r] = p <=> r = cur[p] \/ (Going(p) /\ r = flight[p].to)
  /\ Going(p) => flight[p].to # cur[p]

(* What has moved at each stage, whatever failed earlier.                  *)
Moved(p) ==
  /\ Moving(p) => ckpt[p] = flight[p].to
  /\ flight[p].at \in {"server", "swap"} => log[p]["client"] = flight[p].to
  /\ flight[p].at = "swap" => log[p]["server"] = flight[p].to

(* What is where it was, unless a rollback failed.                         *)
Kept(p) ==
  ~torn[p] =>
    /\ ~Moving(p) => ckpt[p] = cur[p]
    /\ \A k \in Logs :
         /\ log[p][k] \in {cur[p]} \cup {flight[p].to}
         /\ ~Moving(p) \/ flight[p].at = "back" => log[p][k] = cur[p]
    /\ flight[p].at = "serverBack" => log[p]["client"] = cur[p]

Progress == \A p \in Procs : alive[p] => Leases(p) /\ Moved(p) /\ Kept(p)

IInv == TypeOK /\ Progress

LEMMA StageNames ==
  /\ LogStages = {"client", "server", "clientBack", "serverBack"}
  /\ LogOf["client"] = "client" /\ LogOf["server"] = "server"
  /\ LogOf["clientBack"] = "client" /\ LogOf["serverBack"] = "server"
  /\ WhenDone["client"] = "server" /\ WhenDone["server"] = "swap"
  /\ WhenDone["clientBack"] = "serverBack" /\ WhenDone["serverBack"] = "back"
  /\ WhenFailed["client"] = "clientBack" /\ WhenFailed["server"] = "clientBack"
  /\ WhenFailed["clientBack"] = "serverBack" /\ WhenFailed["serverBack"] = "back"
BY DEF LogStages, LogOf, WhenDone, WhenFailed

(* The log of a stage is one of the two, and the stage it ends in a stage.  *)
LEMMA StageFacts ==
  ASSUME NEW s \in LogStages
  PROVE  /\ LogOf[s] \in Logs
         /\ WhenDone[s] \in LogStages \cup {"swap", "back"}
         /\ WhenFailed[s] \in LogStages \cup {"back"}
         /\ s # "none"
BY StageNames DEF Logs

(* What a change of stage, and of the activation under way, makes of the    *)
(* switch: the destination stays.                                          *)
LEMMA StageSet ==
  ASSUME NEW f \in Flights, NEW s \in Stages, NEW b \in BOOLEAN
  PROVE  /\ [f EXCEPT !.at = s] \in Flights
         /\ [f EXCEPT !.at = s].at = s /\ [f EXCEPT !.at = s].to = f.to
         /\ [f EXCEPT !.busy = b] \in Flights
         /\ [f EXCEPT !.busy = b].at = f.at /\ [f EXCEPT !.busy = b].to = f.to
<1>1. [f EXCEPT !.at = s] = [at |-> s, to |-> f.to, busy |-> f.busy]
  BY DEF Flights
<1>2. [f EXCEPT !.busy = b] = [at |-> f.at, to |-> f.to, busy |-> b]
  BY DEF Flights
<1>3. f.at \in Stages /\ f.to \in Roots \cup {None} /\ f.busy \in BOOLEAN
  BY DEF Flights
<1>4. [at |-> s, to |-> f.to, busy |-> f.busy] \in Flights
  BY <1>3 DEF Flights
<1>5. [at |-> f.at, to |-> f.to, busy |-> b] \in Flights
  BY <1>3 DEF Flights
<1> QED
  BY <1>1, <1>2, <1>4, <1>5

LEMMA FlightGoesOn ==
  ASSUME FlightOK, NEW p \in Procs, flight[p].at # "none",
         NEW g \in Flights, g.to = flight[p].to,
         flight' = [flight EXCEPT ![p] = g]
  PROVE  FlightOK'
<1>1. \A q \in Procs : flight'[q] = IF q = p THEN g ELSE flight[q]
  BY DEF FlightOK
<1>2. flight' \in [Procs -> Flights]
  BY DEF FlightOK
<1>3. flight[p].to \in Roots
  BY DEF FlightOK
<1> QED
  BY <1>1, <1>2, <1>3 DEF FlightOK

LEMMA InitIInv == Init => IInv
<1> SUFFICES ASSUME Init PROVE IInv
  OBVIOUS
<1> USE DEF Init, NoFlight
<1>1. \A r \in Roots, p \in Procs : owner[r] = p <=> r = First[p]
  OBVIOUS
<1>2. TypeOK
  BY <1>1, StageNames DEF TypeOK, FlightOK, Flights, Stages
<1>3. Progress
  BY <1>1 DEF Progress, Leases, Moved, Kept, Going, Moving
<1> QED
  BY <1>2, <1>3 DEF IInv

----------------------------------------------------------------------------
LEMMA StepTypeOK == TypeOK /\ [Next]_vars => TypeOK'
<1> SUFFICES ASSUME TypeOK, [Next]_vars PROVE TypeOK'
  OBVIOUS
<1> USE DEF TypeOK
<1>1. ASSUME NEW p \in Procs, NEW r \in Roots, Acquire(p, r) PROVE TypeOK'
  <2>1. [at |-> "checkpoints", to |-> r, busy |-> FALSE] \in Flights
    BY DEF Flights, Stages
  <2> QED
    BY <1>1, <2>1 DEF Acquire, FlightOK
<1>2. ASSUME NEW p \in Procs, Ends(p),
             owner' \in [Roots -> Procs \cup {None}],
             cur' \in [Procs -> Roots], ckpt' \in [Procs -> Roots],
             torn' \in [Procs -> BOOLEAN], UNCHANGED <<alive, log>>
      PROVE  TypeOK'
  <2>1. NoFlight \in Flights /\ NoFlight.at = "none"
    BY DEF NoFlight, Flights, Stages
  <2> QED
    BY <1>2, <2>1 DEF Ends, FlightOK
<1>3. ASSUME NEW p \in Procs, NEW s \in Stages, flight[p].at # "none",
             Goes(p, s) \/ Then(p, s) \/ flight' = [flight EXCEPT ![p].busy = TRUE]
      PROVE  FlightOK'
  <2>0. flight[p] \in Flights
    BY DEF FlightOK
  <2>1. CASE Goes(p, s)
    BY <2>0, <2>1, <1>3, StageSet, FlightGoesOn DEF Goes
  <2>2. CASE Then(p, s)
    <3>1. [flight[p] EXCEPT !.at = s] \in Flights
      BY <2>0, StageSet
    <3> DEFINE g == [[flight[p] EXCEPT !.at = s] EXCEPT !.busy = FALSE]
    <3>2. g \in Flights /\ g.to = flight[p].to
      BY <2>0, <3>1, StageSet
    <3>3. flight' = [flight EXCEPT ![p] = g]
      BY <2>2 DEF Then
    <3> HIDE DEF g
    <3> QED
      BY <1>3, <3>2, <3>3, FlightGoesOn
  <2>3. CASE flight' = [flight EXCEPT ![p].busy = TRUE]
    BY <2>0, <2>3, <1>3, StageSet, FlightGoesOn
  <2> QED
    BY <1>3, <2>1, <2>2, <2>3
<1>4. ASSUME NEW p \in Procs, MoveCheckpoints(p) PROVE TypeOK'
  <2>1. FlightOK'
    BY <1>3, <1>4 DEF MoveCheckpoints, At, Stages, LogStages, LogOf
  <2> QED
    BY <1>4, <2>1 DEF MoveCheckpoints, At, FlightOK
<1>5. ASSUME NEW p \in Procs, MoveFails(p) PROVE TypeOK'
  BY <1>2, <1>5 DEF MoveFails, Release
<1>6. ASSUME NEW p \in Procs, LogIsThere(p) PROVE TypeOK'
  <2>1. FlightOK'
    BY <1>3, <1>6, StageFacts DEF LogIsThere, At, Stages
  <2> QED
    BY <1>6, <2>1 DEF LogIsThere
<1>7. ASSUME NEW p \in Procs, HoldEvents(p) PROVE TypeOK'
  <2>1. FlightOK'
    BY <1>3, <1>7, StageFacts DEF HoldEvents, At, Stages
  <2> QED
    BY <1>7, <2>1 DEF HoldEvents
<1>8. ASSUME NEW p \in Procs, MoveLog(p) PROVE TypeOK'
  <2>1. /\ flight[p].at \in LogStages /\ flight[p].at # "none"
        /\ LogOf[flight[p].at] \in Logs /\ WhenDone[flight[p].at] \in Stages
    BY <1>8, StageFacts DEF MoveLog, At, Stages
  <2>2. Target(p) \in Roots
    BY <2>1 DEF Target, FlightOK
  <2>3. FlightOK'
    BY <1>3, <1>8, <2>1 DEF MoveLog
  <2>4. log' \in [Procs -> [Logs -> Roots]]
    BY <1>8, <2>1, <2>2 DEF MoveLog, EndHold
  <2> QED
    BY <1>8, <2>3, <2>4 DEF MoveLog
<1>9. ASSUME NEW p \in Procs, MoveLogFails(p) PROVE TypeOK'
  <2>1. /\ flight[p].at \in LogStages /\ flight[p].at # "none"
        /\ LogOf[flight[p].at] \in Logs /\ WhenFailed[flight[p].at] \in Stages
    BY <1>9, StageFacts DEF MoveLogFails, At, Stages
  <2>2. FlightOK'
    BY <1>3, <1>9, <2>1 DEF MoveLogFails, KeepLog
  <2>3. log' \in [Procs -> [Logs -> Roots]]
    <3>1. log' = [log EXCEPT ![p][LogOf[flight[p].at]] = log[p][LogOf[flight[p].at]]]
      BY <1>9 DEF MoveLogFails, KeepLog, EndHold
    <3> QED
      BY <2>1, <3>1
  <2>4. torn' \in [Procs -> BOOLEAN]
    BY <1>9 DEF MoveLogFails, KeepLog
  <2> QED
    BY <1>9, <2>2, <2>3, <2>4 DEF MoveLogFails, KeepLog
<1>10. ASSUME NEW p \in Procs, Swap(p) PROVE TypeOK'
  <2>1. flight[p].to \in Roots
    BY <1>10 DEF Swap, At, FlightOK
  <2> QED
    BY <1>2, <1>10, <2>1 DEF Swap, Release
<1>11. ASSUME NEW p \in Procs, TakeBack(p) \/ TakeBackFails(p) PROVE TypeOK'
  <2>1. /\ owner' \in [Roots -> Procs \cup {None}] /\ UNCHANGED <<alive, cur, log>> /\ Ends(p)
        /\ ckpt' \in [Procs -> Roots] /\ torn' \in [Procs -> BOOLEAN]
    BY <1>11 DEF TakeBack, TakeBackFails, GiveUp, Release
  <2> QED
    BY <1>2, <2>1
<1>12. ASSUME NEW p \in Procs, NEW k \in Logs, Emit(p, k) PROVE TypeOK'
  BY <1>12 DEF Emit, FlightOK
<1>13. ASSUME NEW p \in Procs, Stop(p) PROVE TypeOK'
  BY <1>13 DEF Stop, Release, FlightOK
<1>14. ASSUME UNCHANGED vars PROVE TypeOK'
  BY <1>14 DEF vars, FlightOK
<1> QED
  BY <1>1, <1>4, <1>5, <1>6, <1>7, <1>8, <1>9, <1>10, <1>11, <1>12, <1>13, <1>14
  DEF Next

----------------------------------------------------------------------------
(* A step of one process leaves those that live alone, if it takes and gives *)
(* back no lease of theirs.                                                *)
Same(q) ==
  /\ alive[q] /\ cur'[q] = cur[q] /\ ckpt'[q] = ckpt[q]
  /\ log'[q] = log[q] /\ flight'[q] = flight[q] /\ torn'[q] = torn[q]
  /\ \A r \in Roots : owner'[r] = q <=> owner[r] = q

Good(p) == alive[p] => Leases(p) /\ Moved(p) /\ Kept(p)

LEMMA Others == ASSUME NEW q \in Procs, Good(q), Same(q) PROVE Good(q)'
BY DEF Good, Same, Leases, Moved, Kept, Going, Moving

(* Progress, if the process that steps keeps its part and disturbs nobody.  *)
LEMMA OneSteps ==
  ASSUME Progress, NEW p \in Procs, Good(p)',
         \A q \in Procs : q # p /\ alive'[q] => Same(q)
  PROVE  Progress'
<1>1. \A q \in Procs : Good(q)
  BY DEF Progress, Good
<1>2. ASSUME NEW q \in Procs, q # p, alive'[q] PROVE Good(q)'
  BY <1>1, <1>2, Others
<1>3. ASSUME NEW q \in Procs, alive'[q] PROVE Leases(q)' /\ Moved(q)' /\ Kept(q)'
  BY <1>2, <1>3 DEF Good
<1> QED
  BY <1>3 DEF Progress

(* A stage of the logs that ends: the stage, its log and the destination.   *)
StageEnds(p, s, root) ==
  /\ flight'[p].at = s /\ flight'[p].to = flight[p].to
  /\ log'[p][LogOf[flight[p].at]] = root
  /\ \A k \in Logs : k # LogOf[flight[p].at] => log'[p][k] = log[p][k]
  /\ \A q \in Procs : q # p => flight'[q] = flight[q] /\ log'[q] = log[q]

LEMMA StageEnd ==
  ASSUME TypeOK, NEW p \in Procs, flight[p].at \in LogStages, NEW s \in Stages,
         NEW root, NEW writes, Then(p, s), EndHold(p, LogOf[flight[p].at], root, writes)
  PROVE  StageEnds(p, s, root)
<1>1. flight[p] \in Flights /\ LogOf[flight[p].at] \in Logs
  BY StageFacts DEF TypeOK, FlightOK
<1>2. [flight[p] EXCEPT !.at = s] \in Flights
  BY <1>1, StageSet
<1> DEFINE g == [[flight[p] EXCEPT !.at = s] EXCEPT !.busy = FALSE]
<1>3. g.at = s /\ g.to = flight[p].to
  BY <1>1, <1>2, StageSet
<1>4. flight' = [flight EXCEPT ![p] = g]
  BY DEF Then
<1>5. \A q \in Procs : flight'[q] = IF q = p THEN g ELSE flight[q]
  BY <1>4 DEF TypeOK, FlightOK
<1>6. log' = [log EXCEPT ![p][LogOf[flight[p].at]] = root]
  BY DEF EndHold
<1>7. /\ log'[p][LogOf[flight[p].at]] = root
      /\ \A k \in Logs : k # LogOf[flight[p].at] => log'[p][k] = log[p][k]
      /\ \A q \in Procs : q # p => log'[q] = log[q]
  BY <1>1, <1>6 DEF TypeOK
<1> QED
  BY <1>3, <1>5, <1>7 DEF StageEnds

LEMMA StepProgress == TypeOK /\ TypeOK' /\ Progress /\ [Next]_vars => Progress'
<1> SUFFICES ASSUME TypeOK, TypeOK', Progress, [Next]_vars PROVE Progress'
  OBVIOUS
<1>0. \A p \in Procs : Good(p)
  BY DEF Progress, Good
<1> USE DEF Good, Leases, Moved, Kept, Going, Moving, TypeOK, FlightOK
<1>1. ASSUME NEW p \in Procs, NEW r \in Roots, Acquire(p, r) PROVE Progress'
  <2>1. Good(p)'
    BY <1>0, <1>1, StageNames DEF Acquire, At
  <2>2. \A q \in Procs : q # p /\ alive'[q] => Same(q)
    BY <1>0, <1>1 DEF Acquire, At, Same
  <2> QED
    BY <2>1, <2>2, OneSteps
<1>2. ASSUME NEW p \in Procs, MoveCheckpoints(p) PROVE Progress'
  <2>1. Good(p)'
    BY <1>0, <1>2, StageNames DEF MoveCheckpoints, At, Goes
  <2>2. \A q \in Procs : q # p /\ alive'[q] => Same(q)
    BY <1>0, <1>2 DEF MoveCheckpoints, At, Goes, Same
  <2> QED
    BY <2>1, <2>2, OneSteps
<1>3. ASSUME NEW p \in Procs, MoveFails(p) PROVE Progress'
  <2>1. Good(p)'
    BY <1>0, <1>3, StageNames DEF MoveFails, At, Release, Ends, NoFlight
  <2>2. \A q \in Procs : q # p /\ alive'[q] => Same(q)
    BY <1>0, <1>3 DEF MoveFails, At, Release, Ends, NoFlight, Same
  <2> QED
    BY <2>1, <2>2, OneSteps
<1>4. ASSUME NEW p \in Procs, LogIsThere(p) PROVE Progress'
  <2>1. Good(p)'
    BY <1>0, <1>4, StageNames DEF LogIsThere, At, Goes, Target, Back, Logs
  <2>2. \A q \in Procs : q # p /\ alive'[q] => Same(q)
    BY <1>0, <1>4 DEF LogIsThere, At, Goes, Target, Back, Logs, Same
  <2> QED
    BY <2>1, <2>2, OneSteps
<1>5. ASSUME NEW p \in Procs, HoldEvents(p) PROVE Progress'
  <2>1. Good(p)'
    <3>1. /\ flight'[p].at = flight[p].at /\ flight'[p].to = flight[p].to
          /\ UNCHANGED <<alive, owner, cur, ckpt, log, torn>>
      BY <1>5, StageSet DEF HoldEvents
    <3> QED
      BY <1>0, <3>1
  <2>2. \A q \in Procs : q # p /\ alive'[q] => Same(q)
    BY <1>0, <1>5 DEF HoldEvents, At, Same
  <2> QED
    BY <2>1, <2>2, OneSteps
<1>6. ASSUME NEW p \in Procs, MoveLog(p) PROVE Progress'
  <2>1. /\ alive[p] /\ flight[p].at \in LogStages
        /\ UNCHANGED <<alive, owner, cur, ckpt, torn>>
    BY <1>6 DEF MoveLog, At
  <2>2. StageEnds(p, WhenDone[flight[p].at], Target(p))
    BY <1>6, <2>1, StageFacts, StageEnd DEF MoveLog, Stages
  <2>3. Good(p)'
    BY <1>0, <2>1, <2>2, StageNames DEF StageEnds, Target, Back, Logs
  <2>4. \A q \in Procs : q # p /\ alive'[q] => Same(q)
    BY <2>1, <2>2 DEF StageEnds, Same
  <2> QED
    BY <2>3, <2>4, OneSteps
<1>7. ASSUME NEW p \in Procs, MoveLogFails(p) PROVE Progress'
  <2>1. /\ alive[p] /\ flight[p].at \in LogStages
        /\ torn' = [torn EXCEPT ![p] = @ \/ flight[p].at \in Back]
        /\ UNCHANGED <<alive, owner, cur, ckpt>>
    BY <1>7 DEF MoveLogFails, KeepLog, At
  <2>2. StageEnds(p, WhenFailed[flight[p].at], log[p][LogOf[flight[p].at]])
    BY <1>7, <2>1, StageFacts, StageEnd DEF MoveLogFails, KeepLog, Stages
  <2>3. \A k \in Logs : log'[p][k] = log[p][k]
    BY <2>2 DEF StageEnds
  <2>4. torn[p] \/ flight[p].at \in Back => torn'[p]
    BY <2>1
  <2>5. Good(p)'
    BY <1>0, <2>1, <2>2, <2>3, <2>4, StageNames DEF StageEnds, Back, Logs
  <2>6. \A q \in Procs : q # p /\ alive'[q] => Same(q)
    BY <2>1, <2>2 DEF StageEnds, Same
  <2> QED
    BY <2>5, <2>6, OneSteps
<1>8. ASSUME NEW p \in Procs, Swap(p) PROVE Progress'
  <2>1. /\ alive[p] /\ flight[p].at = "swap" /\ cur'[p] = flight[p].to
        /\ owner' = [owner EXCEPT ![cur[p]] = None]
        /\ flight'[p] = NoFlight
        /\ UNCHANGED <<alive, ckpt, log>>
    BY <1>8 DEF Swap, At, Release, Ends
  <2>2. flight'[p].at = "none"
    BY <2>1 DEF NoFlight
  <2>3. Leases(p)'
    BY <1>0, <2>1, <2>2
  <2>4. Moved(p)' /\ Kept(p)'
    BY <1>0, <2>1, <2>2 DEF Logs
  <2>5. \A q \in Procs : q # p /\ alive'[q] => Same(q)
    BY <1>0, <1>8 DEF Swap, At, Release, Ends, Same
  <2> QED
    BY <2>3, <2>4, <2>5, OneSteps
<1>9. ASSUME NEW p \in Procs, TakeBack(p) \/ TakeBackFails(p) PROVE Progress'
  <2>1. /\ alive[p] /\ flight[p].at = "back"
        /\ owner' = [owner EXCEPT ![flight[p].to] = None]
        /\ flight' = [flight EXCEPT ![p] = NoFlight]
        /\ \/ ckpt' = [ckpt EXCEPT ![p] = cur[p]] /\ UNCHANGED torn
           \/ ckpt' = [ckpt EXCEPT ![p] = ckpt[p]] /\ torn' = [torn EXCEPT ![p] = TRUE]
        /\ UNCHANGED <<alive, cur, log>>
    BY <1>9 DEF TakeBack, TakeBackFails, GiveUp, At, Release, Ends
  <2>2. flight'[p].at = "none"
    BY <2>1 DEF NoFlight
  <2>3. Leases(p)'
    BY <1>0, <2>1, <2>2
  <2>4. Moved(p)' /\ Kept(p)'
    BY <1>0, <2>1, <2>2
  <2>5. \A q \in Procs : q # p /\ alive'[q] => Same(q)
    BY <1>0, <2>1 DEF Same
  <2> QED
    BY <2>3, <2>4, <2>5, OneSteps
<1>10. ASSUME NEW p \in Procs, Stop(p) PROVE Progress'
  <2>1. Good(p)'
    BY <1>0, <1>10, StageNames DEF Stop, Release
  <2>2. \A q \in Procs : q # p /\ alive'[q] => Same(q)
    BY <1>0, <1>10 DEF Stop, Release, Same
  <2> QED
    BY <2>1, <2>2, OneSteps
<1>11. ASSUME UNCHANGED <<alive, owner, cur, ckpt, log, flight, torn>> PROVE Progress'
  BY <1>11 DEF Progress
<1> QED
  BY <1>1, <1>2, <1>3, <1>4, <1>5, <1>6, <1>7, <1>8, <1>9, <1>10, <1>11
  DEF Next, Emit, vars

(* The inductive invariant holds for ever.                                 *)
LEMMA AlwaysIInv == Spec => []IInv
<1>1. IInv /\ [Next]_vars => IInv'
  BY StepTypeOK, StepProgress DEF IInv
<1> QED
  BY InitIInv, <1>1, PTL DEF Spec

(* Every variable of SessionLifecycle and of the stores it moves keeps its  *)
(* type, and a switch under way leads to a session.                        *)
THEOREM TypeCorrect == Spec => []TypeOK
BY AlwaysIInv, PTL DEF IInv

(* A process writes checkpoints and logs only in sessions whose lease it    *)
(* holds, at every step of a switch and of its rollback.                   *)
THEOREM LeaseCoversWrites == Spec => []WritesUnderLease
<1>1. IInv => WritesUnderLease
  <2> SUFFICES ASSUME IInv, NEW p \in Procs, alive[p], ~torn[p]
               PROVE  owner[ckpt[p]] = p /\ \A k \in Logs : owner[log[p][k]] = p
    BY DEF WritesUnderLease
  <2>1. Leases(p) /\ Moved(p) /\ Kept(p) /\ cur[p] \in Roots
    BY DEF IInv, Progress, TypeOK
  <2>2. Going(p) => flight[p].to \in Roots
    BY DEF IInv, TypeOK, FlightOK, Going
  <2> QED
    BY <2>1, <2>2 DEF Leases, Moved, Kept, Going, Moving
<1> QED
  BY <1>1, AlwaysIInv, PTL

(* Between switches a process is in one session, and leases no other.       *)
THEOREM OneSessionAtATime == Spec => []InOneSession
<1>1. IInv => InOneSession
  BY DEF IInv, Progress, InOneSession, Leases, Kept, Going, Moving
<1> QED
  BY <1>1, AlwaysIInv, PTL
----------------------------------------------------------------------------
(* The events.  What a process has logged or holds for a log, and what that *)
(* log has of the process, are told apart by their numbers.                *)
Event == Procs \X Nat
LogTypes ==
  /\ events \in Nat
  /\ file \in [Logs -> [Roots -> Seq(Event)]]
  /\ held \in [Procs -> [Logs -> Seq(Event) \cup {None}]]

(* A log holds its events exactly while it is being activated.             *)
HoldInv ==
  \A p \in Procs :
    /\ flight[p].busy => flight[p].at \in LogStages
    /\ \A k \in Logs : held[p][k] # None <=> flight[p].busy /\ LogOf[flight[p].at] = k

(* A log file has each process's events in order, and no event of another   *)
(* session's; what is held is later than what the process has in any file  *)
(* of that log; and every number up to the last has its place.             *)
FileInv ==
  /\ \A k \in Logs, r \in Roots :
       /\ Ordered(file[k][r])
       /\ \A e \in Range(file[k][r]) : e[2] \in 1..events
  /\ \A k \in Logs, r, t \in Roots :
       r # t => Range(file[k][r]) \cap Range(file[k][t]) = {}
HeldInv ==
  \A p \in Procs, k \in Logs : held[p][k] # None =>
    /\ Ordered(held[p][k])
    /\ \A e \in Range(held[p][k]) :
         /\ e[1] = p /\ e[2] \in 1..events
         /\ \A r \in Roots : \A f \in Range(file[k][r]) : f[1] = p => f[2] < e[2]
Placed(e, k) ==
  \/ \E r \in Roots : e \in Range(file[k][r])
  \/ \E p \in Procs : held[p][k] # None /\ e \in Range(held[p][k])
PlaceInv == \A n \in 1..events : \E k \in Logs : \E e \in Procs \X {n} : Placed(e, k)

LogInv == LogTypes /\ HoldInv /\ FileInv /\ HeldInv /\ PlaceInv

LEMMA AppendEvent ==
  ASSUME NEW s \in Seq(Event), NEW e \in Event, Ordered(s),
         \A f \in Range(s) : f[1] = e[1] => f[2] < e[2]
  PROVE  /\ Append(s, e) \in Seq(Event) /\ Ordered(Append(s, e))
         /\ Range(Append(s, e)) = Range(s) \cup {e}
<1> DEFINE n == Len(s)
           t == Append(s, e)
<1>1. /\ n \in Nat /\ DOMAIN s = 1..n /\ t \in Seq(Event) /\ DOMAIN t = 1..(n + 1)
      /\ \A i \in 1..n : t[i] = s[i] /\ s[i] \in Range(s)
      /\ t[n + 1] = e
  BY DEF Range
<1>2. Range(t) = Range(s) \cup {e}
  <2>1. ASSUME NEW i \in 1..(n + 1) PROVE t[i] \in Range(s) \cup {e}
    <3>1. i \in 1..n \/ i = n + 1
      BY <1>1, <2>1
    <3> QED
      BY <1>1, <3>1
  <2>2. ASSUME NEW i \in 1..n PROVE s[i] \in Range(t)
    <3>1. i \in 1..(n + 1) /\ t[i] = s[i]
      BY <1>1, <2>2
    <3> QED
      BY <1>1, <3>1 DEF Range
  <2>3. e \in Range(t)
    <3>1. n + 1 \in 1..(n + 1)
      BY <1>1
    <3> QED
      BY <1>1, <3>1 DEF Range
  <2> HIDE DEF t
  <2> QED
    BY <1>1, <2>1, <2>2, <2>3 DEF Range
<1>3. ASSUME NEW i \in DOMAIN t, NEW j \in DOMAIN t, i < j, t[i][1] = t[j][1]
      PROVE  t[i][2] < t[j][2]
  <2>1. i \in 1..n /\ t[i] = s[i] /\ s[i] \in Range(s)
    BY <1>1, <1>3
  <2>2. CASE j = n + 1
    BY <1>1, <1>3, <2>1, <2>2
  <2>3. CASE j \in 1..n
    BY <1>1, <1>3, <2>1, <2>3 DEF Ordered
  <2> QED
    BY <1>1, <2>2, <2>3
<1> QED
  BY <1>1, <1>2, <1>3 DEF Ordered

LEMMA ConcatEvents ==
  ASSUME NEW s \in Seq(Event), NEW u \in Seq(Event), Ordered(s), Ordered(u),
         \A f \in Range(s), e \in Range(u) : f[1] = e[1] => f[2] < e[2]
  PROVE  /\ s \o u \in Seq(Event) /\ Ordered(s \o u)
         /\ Range(s \o u) = Range(s) \cup Range(u)
<1> DEFINE n == Len(s)
           m == Len(u)
           t == s \o u
<1>1. /\ n \in Nat /\ m \in Nat /\ DOMAIN s = 1..n /\ DOMAIN u = 1..m
      /\ t \in Seq(Event) /\ DOMAIN t = 1..(n + m)
      /\ \A i \in 1..n : t[i] = s[i] /\ s[i] \in Range(s)
      /\ \A i \in 1..m : u[i] \in Range(u) /\ t[n + i] = u[i]
  BY DEF Range
<1>2. ASSUME NEW i \in 1..(n + m) PROVE i \in 1..n \/ \E j \in 1..m : i = n + j
  <2>1. i \in 1..n \/ (i - n \in 1..m /\ i = n + (i - n))
    BY <1>1, <1>2
  <2> QED
    BY <2>1
<1>3. Range(t) = Range(s) \cup Range(u)
  <2>1. ASSUME NEW i \in 1..(n + m) PROVE t[i] \in Range(s) \cup Range(u)
    BY <1>1, <1>2, <2>1
  <2>2. ASSUME NEW i \in 1..n PROVE s[i] \in Range(t)
    <3>1. i \in 1..(n + m) /\ t[i] = s[i]
      BY <1>1, <2>2
    <3> QED
      BY <1>1, <3>1 DEF Range
  <2>3. ASSUME NEW i \in 1..m PROVE u[i] \in Range(t)
    <3>1. n + i \in 1..(n + m) /\ t[n + i] = u[i]
      BY <1>1, <2>3
    <3> QED
      BY <1>1, <3>1 DEF Range
  <2> HIDE DEF t
  <2> QED
    BY <1>1, <2>1, <2>2, <2>3 DEF Range
<1>4. ASSUME NEW i \in DOMAIN t, NEW j \in DOMAIN t, i < j, t[i][1] = t[j][1]
      PROVE  t[i][2] < t[j][2]
  <2>0. i \in 1..(n + m) /\ j \in 1..(n + m)
    BY <1>1, <1>4
  <2>1. CASE j \in 1..n
    <3>1. i \in 1..n
      BY <1>1, <1>4, <2>0, <2>1
    <3> QED
      BY <1>1, <1>4, <2>1, <3>1 DEF Ordered
  <2>2. CASE i \in 1..n /\ \E k \in 1..m : j = n + k
    BY <1>1, <1>4, <2>2
  <2>3. ASSUME NEW k \in 1..m, NEW l \in 1..m, i = n + k, j = n + l
        PROVE  t[i][2] < t[j][2]
    <3>1. k < l /\ t[i] = u[k] /\ t[j] = u[l]
      BY <1>1, <1>4, <2>3
    <3> QED
      BY <1>1, <1>4, <2>3, <3>1 DEF Ordered
  <2> QED
    BY <1>2, <2>0, <2>1, <2>2, <2>3
<1> QED
  BY <1>1, <1>3, <1>4 DEF Ordered

(* What is held goes to a file: it comes last there, and leaves its place    *)
(* for another.                                                            *)
LEMMA HeldIsWritten ==
  ASSUME TypeOK, LogInv, NEW p \in Procs, NEW k \in Logs, NEW root \in Roots,
         held[p][k] # None, EndHold(p, k, root, held[p][k]), UNCHANGED events
  PROVE  LogTypes' /\ FileInv' /\ HeldInv' /\ PlaceInv'
<1> DEFINE s == file[k][root]
           u == held[p][k]
<1>1. s \in Seq(Event) /\ u \in Seq(Event)
  BY DEF LogInv, LogTypes
<1>2. /\ Ordered(s) /\ Ordered(u)
      /\ \A f \in Range(s), e \in Range(u) : f[1] = e[1] => f[2] < e[2]
  BY DEF LogInv, FileInv, HeldInv
<1>3. /\ s \o u \in Seq(Event) /\ Ordered(s \o u)
      /\ Range(s \o u) = Range(s) \cup Range(u)
  BY <1>1, <1>2, ConcatEvents
<1>4. /\ \A c \in Logs, r \in Roots :
           file'[c][r] = IF c = k /\ r = root THEN s \o u ELSE file[c][r]
      /\ \A q \in Procs, c \in Logs :
           held'[q][c] = IF q = p /\ c = k THEN None ELSE held[q][c]
      /\ events' = events
  BY DEF EndHold, LogInv, LogTypes
<1>5. LogTypes'
  BY <1>3 DEF EndHold, LogInv, LogTypes
<1>6. \A c \in Logs, r \in Roots :
        Range(file'[c][r]) = IF c = k /\ r = root THEN Range(s) \cup Range(u)
                                                  ELSE Range(file[c][r])
  BY <1>3, <1>4
<1>7. \A e \in Range(u) : /\ e[1] = p /\ e[2] \in 1..events
                          /\ \A r \in Roots : e \notin Range(file[k][r])
  <2> SUFFICES ASSUME NEW e \in Range(u)
               PROVE  /\ e[1] = p /\ e[2] \in 1..events
                      /\ \A r \in Roots : e \notin Range(file[k][r])
    OBVIOUS
  <2>1. /\ e[1] = p /\ e[2] \in 1..events
        /\ \A r \in Roots : \A f \in Range(file[k][r]) : f[1] = p => f[2] < e[2]
    BY DEF LogInv, HeldInv
  <2>2. ~(e[2] < e[2])
    BY <2>1 DEF LogInv, LogTypes
  <2> QED
    BY <2>1, <2>2
<1> HIDE DEF s, u
<1>8. FileInv'
  <2>1. ASSUME NEW c \in Logs, NEW r \in Roots
        PROVE  /\ Ordered(file'[c][r])
               /\ \A e \in Range(file'[c][r]) : e[2] \in 1..events
    BY <1>3, <1>4, <1>6, <1>7 DEF LogInv, FileInv, s
  <2>2. ASSUME NEW c \in Logs, NEW r \in Roots, NEW t \in Roots, r # t
        PROVE  Range(file'[c][r]) \cap Range(file'[c][t]) = {}
    BY <1>6, <1>7, <2>2 DEF LogInv, FileInv, s
  <2> QED
    BY <1>4, <2>1, <2>2 DEF FileInv
<1>9. HeldInv'
  <2> SUFFICES ASSUME NEW q \in Procs, NEW c \in Logs, held'[q][c] # None
               PROVE  /\ Ordered(held'[q][c])
                      /\ \A e \in Range(held'[q][c]) :
                           /\ e[1] = q /\ e[2] \in 1..events'
                           /\ \A r \in Roots : \A f \in Range(file'[c][r]) :
                                f[1] = q => f[2] < e[2]
    BY DEF HeldInv
  <2>1. held'[q][c] = held[q][c] /\ held[q][c] # None /\ ~(q = p /\ c = k)
    BY <1>4
  <2>2. ASSUME NEW r \in Roots, NEW f \in Range(file'[c][r]), f[1] = q
        PROVE  f \in Range(file[c][r])
    BY <1>6, <1>7, <2>1, <2>2 DEF s
  <2> QED
    BY <1>4, <2>1, <2>2 DEF LogInv, HeldInv
<1>10. PlaceInv'
  <2>1. ASSUME NEW e, NEW c \in Logs, Placed(e, c) PROVE Placed(e, c)'
    <3>1. CASE \E r \in Roots : e \in Range(file[c][r])
      BY <1>6, <3>1 DEF Placed, s
    <3>2. ASSUME NEW q \in Procs, held[q][c] # None, e \in Range(held[q][c])
          PROVE  Placed(e, c)'
      <4>1. CASE q = p /\ c = k
        BY <1>6, <3>2, <4>1 DEF Placed, u
      <4>2. CASE ~(q = p /\ c = k)
        BY <1>4, <3>2, <4>2 DEF Placed
      <4> QED
        BY <4>1, <4>2
    <3> QED
      BY <2>1, <3>1, <3>2 DEF Placed
  <2> QED
    BY <1>4, <2>1 DEF LogInv, PlaceInv
<1> QED
  BY <1>5, <1>8, <1>9, <1>10

(* A new event has the number after all others, wherever it is put.        *)
LEMMA EventIsPlaced ==
  ASSUME TypeOK, LogInv, NEW p \in Procs, NEW k \in Logs, Emit(p, k)
  PROVE  LogTypes' /\ FileInv' /\ HeldInv' /\ PlaceInv'
<1>0. PICK e \in Event : e = <<p, events + 1>>
  <2>1. events + 1 \in Nat
    BY DEF LogInv, LogTypes
  <2> QED
    BY <2>1 DEF Event
<1> DEFINE root == log[p][k]
<1>1. /\ events \in Nat /\ events' = events + 1
      /\ e[1] = p /\ e[2] = events + 1 /\ root \in Roots
      /\ IF held[p][k] # None
           THEN held' = [held EXCEPT ![p][k] = Append(held[p][k], e)] /\ UNCHANGED file
           ELSE file' = [file EXCEPT ![k][root] = Append(file[k][root], e)] /\ UNCHANGED held
  BY <1>0 DEF Emit, LogInv, LogTypes, TypeOK
<1>2. /\ \A c \in Logs, r \in Roots : \A f \in Range(file[c][r]) : f[2] \in 1..events
      /\ \A q \in Procs, c \in Logs : held[q][c] # None =>
           \A f \in Range(held[q][c]) : f[1] = q /\ f[2] \in 1..events
  BY DEF LogInv, FileInv, HeldInv
<1>3. \A i \in 1..events : i \in 1..(events + 1) /\ i < events + 1 /\ i # events + 1
  BY <1>1
<1>4. events + 1 \in 1..(events + 1)
  BY <1>1
<1>5. ASSUME \A c \in Logs, f \in Event : Placed(f, c) => Placed(f, c)',
             Placed(e, k)'
      PROVE  PlaceInv'
  <2> SUFFICES ASSUME NEW n \in 1..events'
               PROVE  \E c \in Logs : \E f \in Procs \X {n} : Placed(f, c)'
    BY DEF PlaceInv
  <2>1. CASE n = events + 1
    <3>1. e \in Procs \X {n}
      BY <1>0, <2>1
    <3> QED
      BY <1>5, <3>1
  <2>2. CASE n \in 1..events
    <3>1. PICK c \in Logs : \E f \in Procs \X {n} : Placed(f, c)
      BY <2>2 DEF LogInv, PlaceInv
    <3>2. PICK f \in Procs \X {n} : Placed(f, c)
      BY <3>1
    <3>3. f \in Event
      BY <1>1, <2>2 DEF Event
    <3> QED
      BY <1>5, <3>2, <3>3
  <2> QED
    BY <1>1, <2>1, <2>2
<1>6. CASE held[p][k] # None
  <2> DEFINE u == held[p][k]
  <2>1. u \in Seq(Event) /\ Ordered(u) /\ \A f \in Range(u) : f[2] < e[2]
    BY <1>1, <1>2, <1>3, <1>6 DEF LogInv, LogTypes, HeldInv
  <2>2. /\ Append(u, e) \in Seq(Event) /\ Ordered(Append(u, e))
        /\ Range(Append(u, e)) = Range(u) \cup {e}
    BY <1>1, <2>1, AppendEvent
  <2>3. Append(u, e) # None
    BY <2>2 DEF Event
  <2> HIDE DEF u
  <2>4. /\ held' = [held EXCEPT ![p][k] = Append(u, e)] /\ UNCHANGED file
        /\ \A q \in Procs, c \in Logs :
             held'[q][c] = IF q = p /\ c = k THEN Append(u, e) ELSE held[q][c]
    <3>1. held' = [held EXCEPT ![p][k] = Append(u, e)] /\ UNCHANGED file
      BY <1>1, <1>6 DEF u
    <3> QED
      BY <3>1 DEF LogInv, LogTypes
  <2>5. LogTypes'
    BY <1>1, <2>2, <2>4 DEF LogInv, LogTypes
  <2>6. FileInv'
    BY <1>1, <1>2, <1>3, <2>4 DEF LogInv, FileInv
  <2>7. HeldInv'
    <3> SUFFICES ASSUME NEW q \in Procs, NEW c \in Logs, held'[q][c] # None
                 PROVE  /\ Ordered(held'[q][c])
                        /\ \A g \in Range(held'[q][c]) :
                             /\ g[1] = q /\ g[2] \in 1..events'
                             /\ \A r \in Roots : \A f \in Range(file[c][r]) :
                                  f[1] = q => f[2] < g[2]
      BY <2>4 DEF HeldInv
    <3>1. CASE q = p /\ c = k
      <4>1. /\ Ordered(held'[q][c]) /\ Range(held'[q][c]) = Range(u) \cup {e}
        BY <2>2, <2>4, <3>1
      <4>2. \A r \in Roots : \A f \in Range(file[c][r]) : f[2] < e[2]
        BY <1>1, <1>2, <1>3
      <4> QED
        BY <1>1, <1>2, <1>3, <1>4, <1>6, <3>1, <4>1, <4>2 DEF LogInv, HeldInv, u
    <3>2. CASE ~(q = p /\ c = k)
      BY <1>1, <1>2, <1>3, <2>4, <3>2 DEF LogInv, HeldInv
    <3> QED
      BY <3>1, <3>2
  <2>8. Placed(e, k)'
    <3>1. held'[p][k] # None /\ e \in Range(held'[p][k])
      BY <2>2, <2>3, <2>4
    <3> QED
      BY <3>1 DEF Placed
  <2>9. ASSUME NEW c \in Logs, NEW f \in Event, Placed(f, c) PROVE Placed(f, c)'
    BY <1>6, <2>2, <2>3, <2>4, <2>9 DEF Placed, u
  <2> QED
    BY <1>5, <2>5, <2>6, <2>7, <2>8, <2>9
<1>7. CASE held[p][k] = None
  <2> DEFINE s == file[k][root]
  <2>1. s \in Seq(Event) /\ Ordered(s) /\ \A f \in Range(s) : f[2] < e[2]
    BY <1>1, <1>2, <1>3 DEF LogInv, LogTypes, FileInv
  <2>2. /\ Append(s, e) \in Seq(Event) /\ Ordered(Append(s, e))
        /\ Range(Append(s, e)) = Range(s) \cup {e}
    BY <1>1, <2>1, AppendEvent
  <2> HIDE DEF s, root
  <2>3. /\ file' = [file EXCEPT ![k][root] = Append(s, e)] /\ UNCHANGED held
        /\ \A c \in Logs, r \in Roots :
             file'[c][r] = IF c = k /\ r = root THEN Append(s, e) ELSE file[c][r]
    <3>1. file' = [file EXCEPT ![k][root] = Append(s, e)] /\ UNCHANGED held
      BY <1>1, <1>7 DEF s
    <3> QED
      BY <1>1, <3>1 DEF LogInv, LogTypes
  <2>4. \A c \in Logs, r \in Roots :
          Range(file'[c][r]) = IF c = k /\ r = root THEN Range(s) \cup {e}
                                                    ELSE Range(file[c][r])
    <3> SUFFICES ASSUME NEW c \in Logs, NEW r \in Roots
                 PROVE  Range(file'[c][r]) = IF c = k /\ r = root THEN Range(s) \cup {e}
                                                                  ELSE Range(file[c][r])
      OBVIOUS
    <3>1. CASE c = k /\ r = root
      BY <2>2, <2>3, <3>1
    <3>2. CASE ~(c = k /\ r = root)
      BY <2>3, <3>2
    <3> QED
      BY <3>1, <3>2
  <2>5. \A c \in Logs, r \in Roots : e \notin Range(file[c][r])
    BY <1>1, <1>2, <1>3
  <2>6. LogTypes'
    BY <1>1, <2>2, <2>3 DEF LogInv, LogTypes
  <2>7. FileInv'
    <3>1. ASSUME NEW c \in Logs, NEW r \in Roots
          PROVE  /\ Ordered(file'[c][r])
                 /\ \A f \in Range(file'[c][r]) : f[2] \in 1..events'
      BY <1>1, <1>2, <1>3, <1>4, <2>2, <2>3, <2>4 DEF LogInv, FileInv, s
    <3>2. ASSUME NEW c \in Logs, NEW r \in Roots, NEW t \in Roots, r # t
          PROVE  Range(file'[c][r]) \cap Range(file'[c][t]) = {}
      BY <2>4, <2>5, <3>2 DEF LogInv, FileInv, s
    <3> QED
      BY <3>1, <3>2 DEF FileInv
  <2>8. HeldInv'
    <3> SUFFICES ASSUME NEW q \in Procs, NEW c \in Logs, held[q][c] # None
                 PROVE  /\ Ordered(held[q][c])
                        /\ \A g \in Range(held[q][c]) :
                             /\ g[1] = q /\ g[2] \in 1..events'
                             /\ \A r \in Roots : \A f \in Range(file'[c][r]) :
                                  f[1] = q => f[2] < g[2]
      BY <2>3 DEF HeldInv
    <3>1. ASSUME NEW r \in Roots, NEW f \in Range(file'[c][r]), f[1] = q
          PROVE  f \in Range(file[c][r])
      BY <1>1, <1>7, <2>4, <3>1 DEF s
    <3> QED
      BY <1>1, <1>2, <1>3, <3>1 DEF LogInv, HeldInv
  <2>9. Placed(e, k)'
    BY <1>1, <2>4 DEF Placed, root
  <2>10. ASSUME NEW c \in Logs, NEW f \in Event, Placed(f, c) PROVE Placed(f, c)'
    BY <2>3, <2>4, <2>10 DEF Placed, s
  <2> QED
    BY <1>5, <2>6, <2>7, <2>8, <2>9, <2>10
<1> QED
  BY <1>6, <1>7

(* A step that moves no event, and begins or ends no activation.           *)
LEMMA LogsAlone ==
  ASSUME LogInv, HoldInv', UNCHANGED <<file, held, events>>
  PROVE  LogInv'
<1>1. LogTypes' /\ FileInv' /\ HeldInv'
  BY DEF LogInv, LogTypes, FileInv, HeldInv
<1>2. ASSUME NEW e, NEW k \in Logs, Placed(e, k) PROVE Placed(e, k)'
  BY <1>2 DEF Placed
<1>3. PlaceInv'
  BY <1>2 DEF LogInv, PlaceInv
<1> QED
  BY <1>1, <1>3 DEF LogInv

(* Which log is being activated, after a switch has changed its stage.      *)
LEMMA HoldsWith ==
  ASSUME TypeOK, HoldInv, NEW p \in Procs, NEW g \in Flights,
         flight' = [flight EXCEPT ![p] = g], UNCHANGED held,
         ~flight[p].busy, ~g.busy
  PROVE  HoldInv'
BY DEF TypeOK, FlightOK, HoldInv

LEMMA BusySet ==
  ASSUME NEW f \in Flights, NEW s \in Stages, NEW b \in BOOLEAN
  PROVE  /\ [f EXCEPT !.at = s] \in Flights /\ [f EXCEPT !.at = s].busy = f.busy
         /\ [f EXCEPT !.busy = b] \in Flights /\ [f EXCEPT !.busy = b].busy = b
         /\ [f EXCEPT !.busy = b].at = f.at
<1>1. [f EXCEPT !.at = s] = [at |-> s, to |-> f.to, busy |-> f.busy]
  BY DEF Flights
<1>2. [f EXCEPT !.busy = b] = [at |-> f.at, to |-> f.to, busy |-> b]
  BY DEF Flights
<1> QED
  BY <1>1, <1>2, StageSet

(* The end of an activation, with the events it held.                      *)
LEMMA ActivationEnds ==
  ASSUME TypeOK, LogInv, NEW p \in Procs, flight[p].at \in LogStages, flight[p].busy,
         NEW root \in Roots, NEW s \in Stages, Then(p, s), UNCHANGED events,
         EndHold(p, LogOf[flight[p].at], root, held[p][LogOf[flight[p].at]])
  PROVE  LogInv'
<1> DEFINE k == LogOf[flight[p].at]
           g == [[flight[p] EXCEPT !.at = s] EXCEPT !.busy = FALSE]
<1>1. k \in Logs /\ flight[p] \in Flights
  BY StageFacts DEF TypeOK, FlightOK
<1>2. held[p][k] # None /\ \A c \in Logs : held[p][c] # None => c = k
  BY <1>1 DEF LogInv, HoldInv
<1>3. LogTypes' /\ FileInv' /\ HeldInv' /\ PlaceInv'
  BY <1>1, <1>2, HeldIsWritten
<1>4. g \in Flights /\ g.busy = FALSE /\ flight' = [flight EXCEPT ![p] = g]
  <2>1. [flight[p] EXCEPT !.at = s] \in Flights
    BY <1>1, BusySet
  <2>2. g \in Flights /\ g.busy = FALSE
    BY <2>1, BusySet
  <2> QED
    BY <2>2 DEF Then
<1>5. \A q \in Procs, c \in Logs :
        held'[q][c] = IF q = p /\ c = k THEN None ELSE held[q][c]
  BY <1>1 DEF EndHold, LogInv, LogTypes
<1> HIDE DEF g, k
<1>6. HoldInv'
  <2>1. \A q \in Procs : flight'[q] = IF q = p THEN g ELSE flight[q]
    BY <1>4 DEF TypeOK, FlightOK
  <2> QED
    BY <1>2, <1>4, <1>5, <2>1 DEF LogInv, HoldInv
<1> QED
  BY <1>3, <1>6 DEF LogInv

LEMMA InitLogInv == Init => LogInv
<1> SUFFICES ASSUME Init PROVE LogInv
  OBVIOUS
<1> USE DEF Init
<1>1. /\ \A k \in Logs, r \in Roots : file[k][r] = <<>>
      /\ \A p \in Procs, k \in Logs : held[p][k] = None
      /\ \A p \in Procs : flight[p] = NoFlight
      /\ Range(<<>>) = {} /\ events = 0
  BY DEF Range
<1>2. LogTypes
  BY DEF LogTypes
<1>3. HoldInv
  BY <1>1 DEF HoldInv, NoFlight
<1>4. FileInv /\ HeldInv
  BY <1>1 DEF FileInv, HeldInv, Ordered
<1>5. PlaceInv
  BY <1>1 DEF PlaceInv
<1> QED
  BY <1>2, <1>3, <1>4, <1>5 DEF LogInv

LEMMA StepLogInv == TypeOK /\ LogInv /\ [Next]_vars => LogInv'
<1> SUFFICES ASSUME TypeOK, LogInv, [Next]_vars PROVE LogInv'
  OBVIOUS
<1>0. \A p \in Procs : flight[p] \in Flights /\ (flight[p].at \notin LogStages => ~flight[p].busy)
  BY DEF TypeOK, FlightOK, LogInv, HoldInv
<1>1. ASSUME NEW p \in Procs, NEW g \in Flights, ~g.busy, ~flight[p].busy,
             flight' = [flight EXCEPT ![p] = g], UNCHANGED <<file, held, events>>
      PROVE  LogInv'
  <2>1. HoldInv'
    BY <1>1, HoldsWith DEF LogInv
  <2> QED
    BY <1>1, <2>1, LogsAlone
<1>2. ASSUME NEW p \in Procs, NEW s \in Stages, Goes(p, s), ~flight[p].busy,
             UNCHANGED <<file, held, events>>
      PROVE  LogInv'
  <2> DEFINE g == [flight[p] EXCEPT !.at = s]
  <2>1. g \in Flights /\ g.busy = flight[p].busy
    BY <1>0, BusySet
  <2>2. flight' = [flight EXCEPT ![p] = g]
    BY <1>2 DEF Goes
  <2> HIDE DEF g
  <2> QED
    BY <1>1, <1>2, <2>1, <2>2
<1>3. ASSUME NEW p \in Procs, flight[p].at \notin LogStages, Ends(p),
             UNCHANGED <<file, held, events>>
      PROVE  LogInv'
  <2>1. NoFlight \in Flights /\ ~NoFlight.busy
    BY DEF NoFlight, Flights, Stages
  <2> QED
    BY <1>0, <1>1, <1>3, <2>1 DEF Ends
<1>4. ASSUME NEW p \in Procs, NEW r \in Roots, Acquire(p, r) PROVE LogInv'
  <2>1. [at |-> "checkpoints", to |-> r, busy |-> FALSE] \in Flights
    BY DEF Flights, Stages
  <2>2. ~flight[p].busy
    BY <1>0, <1>4, StageNames DEF Acquire, At
  <2> QED
    BY <1>1, <1>4, <2>1, <2>2 DEF Acquire
<1>5. ASSUME NEW p \in Procs, MoveCheckpoints(p) PROVE LogInv'
  <2>1. ~flight[p].busy /\ "client" \in Stages
    BY <1>0, <1>5, StageNames DEF MoveCheckpoints, At, Stages
  <2> QED
    BY <1>2, <1>5, <2>1 DEF MoveCheckpoints
<1>6. ASSUME NEW p \in Procs, LogIsThere(p) PROVE LogInv'
  <2>1. WhenDone[flight[p].at] \in Stages
    BY <1>6, StageFacts DEF LogIsThere, At, Stages
  <2> QED
    BY <1>2, <1>6, <2>1 DEF LogIsThere
<1>7. ASSUME NEW p \in Procs,
             \/ MoveFails(p) \/ Swap(p) \/ TakeBack(p) \/ TakeBackFails(p)
      PROVE  LogInv'
  <2>1. flight[p].at \notin LogStages
    BY <1>7, StageNames DEF MoveFails, Swap, TakeBack, TakeBackFails, GiveUp, At
  <2> QED
    BY <1>3, <1>7, <2>1 DEF MoveFails, Swap, TakeBack, TakeBackFails, GiveUp
<1>8. ASSUME NEW p \in Procs, HoldEvents(p) PROVE LogInv'
  <2> DEFINE k == LogOf[flight[p].at]
             g == [flight[p] EXCEPT !.busy = TRUE]
  <2>1. k \in Logs /\ flight[p].at \in LogStages /\ ~flight[p].busy
    BY <1>8, StageFacts DEF HoldEvents, At
  <2>2. <<>> \in Seq(Event) /\ Range(<<>>) = {}
    BY DEF Range
  <2>3. g.at = flight[p].at /\ g.busy = TRUE /\ flight' = [flight EXCEPT ![p] = g]
    <3>1. flight[p].at \in Stages
      BY <2>1 DEF Stages
    <3> QED
      BY <1>0, <1>8, <3>1, BusySet DEF HoldEvents
  <2>4. \A q \in Procs, c \in Logs :
          held'[q][c] = IF q = p /\ c = k THEN <<>> ELSE held[q][c]
    BY <1>8, <2>1 DEF HoldEvents, LogInv, LogTypes
  <2>5. \A c \in Logs : held[p][c] = None
    BY <2>1 DEF LogInv, HoldInv
  <2>6. <<>> # None
    BY <2>2 DEF Event
  <2>7. UNCHANGED <<file, events>> /\ held' = [held EXCEPT ![p][k] = <<>>]
    BY <1>8 DEF HoldEvents
  <2> HIDE DEF g, k
  <2>8. LogTypes' /\ FileInv'
    BY <2>2, <2>7 DEF LogInv, LogTypes, FileInv
  <2>9. HoldInv'
    <3>1. \A q \in Procs : flight'[q] = IF q = p THEN g ELSE flight[q]
      BY <2>3 DEF TypeOK, FlightOK
    <3>2. k = LogOf[flight[p].at]
      BY DEF k
    <3> QED
      BY <2>1, <2>3, <2>4, <2>5, <2>6, <3>1, <3>2 DEF LogInv, HoldInv
  <2>10. HeldInv'
    <3>1. Ordered(<<>>)
      BY DEF Ordered
    <3>2. ASSUME NEW q \in Procs, NEW c \in Logs, held'[q][c] # None
          PROVE  held'[q][c] = held[q][c] \/ held'[q][c] = <<>>
      BY <2>4
    <3> QED
      BY <2>2, <2>4, <2>7, <3>1, <3>2 DEF LogInv, HeldInv
  <2>11. PlaceInv'
    <3>1. ASSUME NEW e, NEW c \in Logs, Placed(e, c) PROVE Placed(e, c)'
      BY <2>4, <2>5, <2>7, <3>1 DEF Placed
    <3> QED
      BY <2>7, <3>1 DEF LogInv, PlaceInv
  <2> QED
    BY <2>8, <2>9, <2>10, <2>11 DEF LogInv
<1>9. ASSUME NEW p \in Procs, MoveLog(p) PROVE LogInv'
  <2>1. flight[p].at \in LogStages /\ flight[p].busy
    BY <1>9 DEF MoveLog, At
  <2>2. WhenDone[flight[p].at] \in Stages
    BY <2>1, StageFacts DEF Stages
  <2>3. Target(p) \in Roots
    <3>1. flight[p].at # "none"
      BY <2>1, StageFacts
    <3> QED
      BY <3>1 DEF Target, TypeOK, FlightOK
  <2> QED
    BY <1>9, <2>1, <2>2, <2>3, ActivationEnds DEF MoveLog
<1>10. ASSUME NEW p \in Procs, MoveLogFails(p) PROVE LogInv'
  <2>1. /\ flight[p].at \in LogStages /\ flight[p].busy
        /\ LogOf[flight[p].at] \in Logs /\ WhenFailed[flight[p].at] \in Stages
    BY <1>10, StageFacts DEF MoveLogFails, KeepLog, At, Stages
  <2>2. log[p][LogOf[flight[p].at]] \in Roots
    BY <2>1 DEF TypeOK
  <2> QED
    BY <1>10, <2>1, <2>2, ActivationEnds DEF MoveLogFails, KeepLog
<1>11. ASSUME NEW p \in Procs, NEW k \in Logs, Emit(p, k) PROVE LogInv'
  <2>1. LogTypes' /\ FileInv' /\ HeldInv' /\ PlaceInv'
    BY <1>11, EventIsPlaced
  <2>2. HoldInv'
    <3>1. UNCHANGED flight
      BY <1>11 DEF Emit
    <3>2. \A q \in Procs, c \in Logs : held'[q][c] = None <=> held[q][c] = None
      <4>1. CASE held[p][k] = None
        BY <1>11, <4>1 DEF Emit
      <4>2. CASE held[p][k] # None
        <5>1. held[p][k] \in Seq(Event) /\ <<p, events + 1>> \in Event
          BY <4>2 DEF LogInv, LogTypes, Event
        <5>2. Append(held[p][k], <<p, events + 1>>) \in Seq(Event)
          BY <5>1
        <5>3. Append(held[p][k], <<p, events + 1>>) # None
          BY <5>2 DEF Event
        <5>4. held' = [held EXCEPT ![p][k] = Append(held[p][k], <<p, events + 1>>)]
          BY <1>11, <4>2 DEF Emit
        <5> QED
          BY <4>2, <5>3, <5>4 DEF LogInv, LogTypes
      <4> QED
        BY <4>1, <4>2
    <3> QED
      BY <3>1, <3>2 DEF LogInv, HoldInv
  <2> QED
    BY <2>1, <2>2 DEF LogInv
<1>12. ASSUME UNCHANGED <<flight, file, held, events>> PROVE LogInv'
  <2>1. HoldInv'
    BY <1>12 DEF LogInv, HoldInv
  <2> QED
    BY <1>12, <2>1, LogsAlone
<1> QED
  BY <1>4, <1>5, <1>6, <1>7, <1>8, <1>9, <1>10, <1>11, <1>12 DEF Next, Stop, vars

(* No event is lost, logged in two sessions or out of order, whichever step *)
(* of the activation of a log fails and whichever process dies.            *)
THEOREM LogsAreExact == Spec => []EventsLoggedOnce
<1>1. LogInv => EventsLoggedOnce
  <2> SUFFICES ASSUME LogInv
               PROVE  1..events = UNION {Numbers(Logged(k) \cup Waiting(k)) : k \in Logs}
    BY DEF LogInv, FileInv, EventsLoggedOnce
  <2>1. ASSUME NEW k \in Logs, NEW e PROVE e \in Logged(k) \cup Waiting(k) <=> Placed(e, k)
    BY DEF Logged, Waiting, Placed
  <2>2. ASSUME NEW n \in 1..events
        PROVE  n \in UNION {Numbers(Logged(k) \cup Waiting(k)) : k \in Logs}
    <3>1. PICK k \in Logs : \E e \in Procs \X {n} : Placed(e, k)
      BY DEF LogInv, PlaceInv
    <3>2. PICK e \in Procs \X {n} : Placed(e, k)
      BY <3>1
    <3>3. e \in Logged(k) \cup Waiting(k) /\ e[2] = n
      BY <2>1, <3>2
    <3>4. n \in Numbers(Logged(k) \cup Waiting(k))
      BY <3>3 DEF Numbers
    <3> QED
      BY <3>4
  <2>3. ASSUME NEW k \in Logs, NEW n \in Numbers(Logged(k) \cup Waiting(k))
        PROVE  n \in 1..events
    <3>1. PICK e \in Logged(k) \cup Waiting(k) : n = e[2]
      BY <2>3 DEF Numbers
    <3>2. Placed(e, k)
      BY <2>1, <3>1
    <3> QED
      BY <3>1, <3>2 DEF Placed, LogInv, FileInv, HeldInv
  <2> QED
    BY <2>2, <2>3
<1>2. IInv /\ LogInv /\ [Next]_vars => LogInv'
  BY StepLogInv DEF IInv
<1> QED
  BY <1>1, <1>2, InitLogInv, AlwaysIInv, PTL DEF Spec
=============================================================================
