---------------------------- MODULE SessionSwitch ----------------------------
(***************************************************************************)
(* SessionLifecycle.activate: a process leaves the session it is in for    *)
(* another one.  The lease of the next session is taken, the checkpoints   *)
(* and the two logs are moved to its directory, and only then the lease of *)
(* the previous session is given back; a step that fails takes the earlier *)
(* ones back.  Events go on being logged meanwhile, and a process may die  *)
(* at any moment.                                                          *)
(*                                                                         *)
(* A session is its directory.  Taking a lease is one step (FileLease has  *)
(* its protocol), and the owner of a lease is a process that may have died.*)
(* A process has one switch under way at a time: /new and /resume show the *)
(* loading screen, and the list of sessions ignores a second choice.       *)
(***************************************************************************)
EXTENDS Naturals, Sequences, FiniteSets, Functions

CONSTANTS
  Procs, Roots,
  First,       \* the session each process starts in
  MaxSwitches, MaxEvents, MaxFaults,
  None

ASSUME SessionAssumption ==
  /\ None \notin Roots \cup Procs \cup Seq(Procs \X Nat)
  /\ First \in [Procs -> Roots]
  /\ \A p, q \in Procs : First[p] = First[q] => p = q
  /\ {MaxSwitches, MaxEvents, MaxFaults} \subseteq Nat

Logs == {"client", "server"}
NoFlight == [at |-> "none", to |-> None, busy |-> FALSE]

VARIABLES
  alive,
  owner,       \* owner of the lease of each session, dead or alive
  cur,         \* currentSessionRoot, the session of SessionLifecycle.lease
  ckpt,        \* where the checkpoints go
  log,         \* where each log goes
  held,        \* its pendingDuringActivation, or None
  flight,      \* the switch under way: its stage, where to, and whether the
               \* log of the stage is being activated
  torn,        \* a rollback failed, and the user was told
  file,        \* the events in each log file of each session
  switches, events, faults

vars == <<alive, owner, cur, ckpt, log, held, flight, torn, file, switches, events, faults>>

Init ==
  /\ alive = [p \in Procs |-> TRUE]
  /\ owner = [r \in Roots |-> IF \E p \in Procs : First[p] = r
                              THEN CHOOSE p \in Procs : First[p] = r ELSE None]
  /\ cur = First /\ ckpt = First
  /\ log = [p \in Procs |-> [k \in Logs |-> First[p]]]
  /\ held = [p \in Procs |-> [k \in Logs |-> None]]
  /\ flight = [p \in Procs |-> NoFlight]
  /\ torn = [p \in Procs |-> FALSE]
  /\ file = [k \in Logs |-> [r \in Roots |-> <<>>]]
  /\ switches = 0 /\ events = 0 /\ faults = 0

At(p, stages) == alive[p] /\ flight[p].at \in stages
Goes(p, stage) == flight' = [flight EXCEPT ![p].at = stage]
Ends(p) == flight' = [flight EXCEPT ![p] = NoFlight]

\* Disk and lock errors, at most MaxFaults.
Fault == faults < MaxFaults /\ faults' = faults + 1

Release(r) == owner' = [owner EXCEPT ![r] = None]

----------------------------------------------------------------------------
(* The switch.                                                             *)

\* The lease of the next session; a live owner is waited for and then told of.
Acquire(p, r) ==
  /\ At(p, {"none"}) /\ switches < MaxSwitches /\ r # cur[p]
  /\ owner[r] # None => ~alive[owner[r]]
  /\ switches' = switches + 1
  /\ owner' = [owner EXCEPT ![r] = p]
  /\ flight' = [flight EXCEPT ![p] = [at |-> "checkpoints", to |-> r, busy |-> FALSE]]
  /\ UNCHANGED <<alive, cur, ckpt, log, held, torn, file, events, faults>>

\* checkpoints.activateRoot.
MoveCheckpoints(p) ==
  /\ At(p, {"checkpoints"})
  /\ ckpt' = [ckpt EXCEPT ![p] = flight[p].to]
  /\ Goes(p, "client")
  /\ UNCHANGED <<alive, owner, cur, log, held, torn, file, switches, events, faults>>

MoveFails(p) ==
  /\ At(p, {"checkpoints"}) /\ Fault
  /\ Release(flight[p].to) /\ Ends(p)
  /\ UNCHANGED <<alive, cur, ckpt, log, held, torn, file, switches, events>>

\* activateSessionLogs: the client log, then the server log; when either fails,
\* both back to the session the process is still in.  (The code takes both back
\* at once; they share nothing.)
LogOf == [client |-> "client", server |-> "server",
          clientBack |-> "client", serverBack |-> "server"]
LogStages == DOMAIN LogOf
Back == {"clientBack", "serverBack"}
Target(p) == IF flight[p].at \in Back THEN cur[p] ELSE flight[p].to
WhenDone == [client |-> "server", server |-> "swap",
             clientBack |-> "serverBack", serverBack |-> "back"]
\* A slip: only the log that fails is taken back.
TakeBackOne == [client |-> "clientBack", server |-> "serverBack",
                clientBack |-> "serverBack", serverBack |-> "back"]
WhenFailed == [client |-> "clientBack", server |-> "clientBack",
               clientBack |-> "serverBack", serverBack |-> "back"]

\* activate of the log of the stage: it is there already, or its events are
\* held until it is.
LogIsThere(p) ==
  /\ At(p, LogStages) /\ ~flight[p].busy
  /\ log[p][LogOf[flight[p].at]] = Target(p)
  /\ Goes(p, WhenDone[flight[p].at])
  /\ UNCHANGED <<alive, owner, cur, ckpt, log, held, torn, file, switches, events, faults>>

HoldEvents(p) ==
  /\ At(p, LogStages) /\ ~flight[p].busy
  /\ log[p][LogOf[flight[p].at]] # Target(p)
  /\ held' = [held EXCEPT ![p][LogOf[flight[p].at]] = <<>>]
  /\ flight' = [flight EXCEPT ![p].busy = TRUE]
  /\ UNCHANGED <<alive, owner, cur, ckpt, log, torn, file, switches, events, faults>>

\* What was held is written where the log is now.
EndHold(p, k, root, writes) ==
  /\ log' = [log EXCEPT ![p][k] = root]
  /\ file' = [file EXCEPT ![k][root] = @ \o writes]
  /\ held' = [held EXCEPT ![p][k] = None]

Then(p, stage) == flight' = [flight EXCEPT ![p] = [@ EXCEPT !.at = stage, !.busy = FALSE]]

MoveLog(p) ==
  /\ At(p, LogStages) /\ flight[p].busy
  /\ LET k == LogOf[flight[p].at] IN EndHold(p, k, Target(p), held[p][k])
  /\ Then(p, WhenDone[flight[p].at])
  /\ UNCHANGED <<alive, owner, cur, ckpt, torn, switches, events, faults>>

\* A failure on the way back is reported, with the first one.
KeepLog(p, writes) ==
  /\ flight[p].busy /\ Fault
  /\ LET k == LogOf[flight[p].at] IN EndHold(p, k, log[p][k], writes)
  /\ Then(p, WhenFailed[flight[p].at])
  /\ torn' = [torn EXCEPT ![p] = @ \/ flight[p].at \in Back]
  /\ UNCHANGED <<alive, owner, cur, ckpt, switches, events>>

\* A slip: what was held is forgotten with the activation.
MoveLogFailsSilent(p) == At(p, LogStages) /\ KeepLog(p, <<>>)

MoveLogFails(p) == At(p, LogStages) /\ KeepLog(p, held[p][LogOf[flight[p].at]])

\* Everything is there: the session is this one, and the lease of the previous
\* one is given back.
Swap(p) ==
  /\ At(p, {"swap"})
  /\ cur' = [cur EXCEPT ![p] = flight[p].to]
  /\ Release(cur[p])
  /\ torn' = [torn EXCEPT ![p] = FALSE]
  /\ Ends(p)
  /\ UNCHANGED <<alive, ckpt, log, held, file, switches, events, faults>>

\* The checkpoints go back, and the lease of the next session.
GiveUp(p, root) ==
  /\ At(p, {"back"})
  /\ ckpt' = [ckpt EXCEPT ![p] = root]
  /\ Release(flight[p].to) /\ Ends(p)
  /\ UNCHANGED <<alive, cur, log, held, file, switches, events>>

\* A slip: only the lease is given back.
LeaveCheckpoints(p) == GiveUp(p, ckpt[p]) /\ UNCHANGED <<torn, faults>>

TakeBack(p) == GiveUp(p, cur[p]) /\ UNCHANGED <<torn, faults>>

TakeBackFails(p) ==
  /\ GiveUp(p, ckpt[p]) /\ Fault
  /\ torn' = [torn EXCEPT ![p] = TRUE]

----------------------------------------------------------------------------
(* Around it.                                                              *)

\* An event of the bus, or an exchange with the server.
Emit(p, k) ==
  /\ alive[p] /\ events < MaxEvents
  /\ events' = events + 1
  /\ IF held[p][k] # None
       THEN held' = [held EXCEPT ![p][k] = Append(@, <<p, events + 1>>)] /\ UNCHANGED file
       ELSE file' = [file EXCEPT ![k][log[p][k]] = Append(@, <<p, events + 1>>)]
              /\ UNCHANGED held
  /\ UNCHANGED <<alive, owner, cur, ckpt, log, flight, torn, switches, faults>>

\* The process exits, its lease given back, or dies.
Stop(p) ==
  /\ alive[p]
  /\ alive' = [alive EXCEPT ![p] = FALSE]
  /\ UNCHANGED owner \/ Release(cur[p])
  /\ UNCHANGED <<cur, ckpt, log, held, flight, torn, file, switches, events, faults>>

Next ==
  \E p \in Procs :
    \/ (\E r \in Roots : Acquire(p, r))
    \/ MoveCheckpoints(p) \/ MoveFails(p)
    \/ LogIsThere(p) \/ HoldEvents(p) \/ MoveLog(p) \/ MoveLogFails(p)
    \/ Swap(p) \/ TakeBack(p) \/ TakeBackFails(p)
    \/ (\E k \in Logs : Emit(p, k)) \/ Stop(p)

Spec == Init /\ [][Next]_vars
----------------------------------------------------------------------------
(* Properties.                                                             *)

(* Every variable keeps its type, and a switch under way leads to a session. *)
Stages  == {"none", "checkpoints", "swap", "back"} \cup LogStages
Flights == [at : Stages, to : Roots \cup {None}, busy : BOOLEAN]
FlightOK ==
  /\ flight \in [Procs -> Flights]
  /\ \A p \in Procs : flight[p].at # "none" => flight[p].to \in Roots
TypeOK ==
  /\ alive \in [Procs -> BOOLEAN] /\ torn \in [Procs -> BOOLEAN]
  /\ owner \in [Roots -> Procs \cup {None}]
  /\ cur \in [Procs -> Roots] /\ ckpt \in [Procs -> Roots]
  /\ log \in [Procs -> [Logs -> Roots]]
  /\ FlightOK

(* A process writes checkpoints and logs only where it holds the lease, at *)
(* every moment of a switch and of its rollback, so that no two processes  *)
(* ever write in one session; unless a rollback failed, which the user was *)
(* told of.                                                                *)
WritesUnderLease ==
  \A p \in Procs : alive[p] /\ ~torn[p] =>
    /\ owner[ckpt[p]] = p
    /\ \A k \in Logs : owner[log[p][k]] = p

(* Between switches a process is in one session in all respects, and holds *)
(* the lease of no other one.                                              *)
InOneSession ==
  \A p \in Procs : alive[p] /\ flight[p].at = "none" =>
    /\ ~torn[p] => ckpt[p] = cur[p] /\ \A k \in Logs : log[p][k] = cur[p]
    /\ \A r \in Roots : owner[r] = p <=> r = cur[p]

(* Every event of a process that lives is in one log, once, or waits for   *)
(* the end of an activation; and a log has the events of a process in the  *)
(* order in which they were emitted.                                       *)
Ordered(f) == \A i, j \in DOMAIN f : i < j /\ f[i][1] = f[j][1] => f[i][2] < f[j][2]
Logged(k) == UNION {Range(file[k][r]) : r \in Roots}
Waiting(k) == UNION {Range(held[p][k]) : p \in {x \in Procs : held[x][k] # None}}
Numbers(set) == {e[2] : e \in set}
EventsLoggedOnce ==
  /\ \A k \in Logs, r \in Roots : Ordered(file[k][r])
  /\ \A k \in Logs, r, t \in Roots :
       r # t => Range(file[k][r]) \cap Range(file[k][t]) = {}
  /\ (\A p \in Procs : alive[p]) =>
       1..events = UNION {Numbers(Logged(k) \cup Waiting(k)) : k \in Logs}
=============================================================================
