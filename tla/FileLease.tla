----------------------------- MODULE FileLease -----------------------------
(***************************************************************************)
(* acquireFileLease (src/src/utils/FileLease.ts): a lock between processes *)
(* made of two names in the file system.  The lease is a file created with *)
(* O_EXCL whose record names its owner; a directory beside it, the reclaim *)
(* marker, is held by the one process that removes a dead owner's lease.   *)
(* It guards a session's root, the resume index, the provider keys and the *)
(* BYOK conversations.                                                     *)
(*                                                                         *)
(* A step is one system call or one read with the decision taken on it;    *)
(* everything between two of them runs without a pause.  A process is one  *)
(* acquirer.  A token stands for the process that made it, which has one   *)
(* attempt at a time; `outdated' tells a token of an earlier attempt of    *)
(* its from that of the present one.                                       *)
(*                                                                         *)
(* Taken for granted: a recursive rm is one step; `ps` tells a dead owner, *)
(* or a recycled pid, from a live one; a live process needs less than      *)
(* invalidOwnerStaleMs between making a file or directory and writing its  *)
(* record, and between a read that found no record and the stat after it,  *)
(* so only what a dead process left unwritten is found stale.              *)
(***************************************************************************)
EXTENDS Integers, FiniteSets

CONSTANTS
  Acquirers, \* the processes that contend for the lease
  Before,    \* a process that was dead when they started
  Nobody,    \* the token of a missing or unreadable record
  MaxFailures \* bound: how many writes and removals may fail

ASSUME NamesDiffer ==
  Before \notin Acquirers /\ Nobody \notin Acquirers \cup {Before}
ASSUME BoundIsNat == MaxFailures \in Nat

VARIABLES
  lease,      \* the lease file
  marker,     \* the reclaim marker with its owner.json
  pc,         \* [Acquirers -> where the process is in acquire and release]
  seen,       \* [Acquirers -> the token it read last and goes by: the
              \* marker's, the lease's, the one tryReclaim expects]
  outdated,   \* those whose token in `seen' is of an attempt that is over
  after,      \* [Acquirers -> where the process goes on after its marker]
  torn,       \* history: a process died and left its reclaim marker, or a
              \* lease without a record
  unnoticed,  \* history: a process died after another one had read its name
              \* in a marker and before that one looked whether it was alive
  failures    \* how many writes and removals have failed

deaths == <<torn, unnoticed>>

leaseVars == <<lease, marker, pc, seen, outdated, after, deaths, failures>>

\* A file or directory: who made it, whether the record is there, and whether
\* it has been without a record for longer than invalidOwnerStaleMs.
NoFile == [by |-> Nobody, named |-> FALSE, old |-> FALSE]
Made(p) == [by |-> p, named |-> FALSE, old |-> FALSE]
Named(p) == [by |-> p, named |-> TRUE, old |-> FALSE]

Exists(file) == file.by # Nobody

\* readLease: the token of the record, null when there is none to parse.
Token(file) == IF file.named THEN file.by ELSE Nobody

\* leaseOwnerIsAlive
IsAlive(p) == p \in Acquirers /\ pc[p] # "dead"

InReclaim == {"name", "check", "remove", "unmark"}
Loop == {"recover", "owner", "wipe", "look", "create", "write", "read",
         "judge", "mark", "wait"} \cup InReclaim

Goto(p, there) == pc' = [pc EXCEPT ![p] = there]

At(p, here) == pc[p] = here

\* Every token is random: one that was read names the attempt that wrote it.
Saw(p, token) ==
  /\ seen' = [seen EXCEPT ![p] = token]
  /\ outdated' = outdated \ {p}

Fail == failures < MaxFailures /\ failures' = failures + 1

-----------------------------------------------------------------------------
LeaseInit ==
  /\ lease \in {NoFile, Named(Before)}
  /\ marker = NoFile
  /\ pc = [p \in Acquirers |-> "idle"]
  /\ seen = [p \in Acquirers |-> Nobody]
  /\ outdated = {}
  /\ after = [p \in Acquirers |-> "idle"]
  /\ torn = FALSE /\ unnoticed = FALSE
  /\ failures = 0

Acquire(p) ==
  /\ At(p, "idle")
  /\ Goto(p, "recover")
  /\ UNCHANGED <<lease, marker, seen, outdated, after, deaths, failures>>

\* recoverAbandonedReclaim: the marker's owner.json is read first ...
RecoverAbandonedReclaim(p) ==
  /\ At(p, "recover")
  /\ Saw(p, Token(marker))
  /\ Goto(p, "owner")
  /\ UNCHANGED <<lease, marker, after, deaths, failures>>

AbandonedIfStale(p) == marker.old

\* ... and then the owner it named is probed, or the marker's age looked at.
Abandoned(p) ==
  \/ seen[p] # Nobody /\ ~IsAlive(seen[p])
  \/ seen[p] = Nobody /\ marker.old

JudgeMarker(p) ==
  /\ At(p, "owner")
  /\ IF Abandoned(p)
       THEN Goto(p, "wipe") /\ after' = [after EXCEPT ![p] = "look"]
       ELSE Goto(p, "look") /\ UNCHANGED after
  /\ Saw(p, Nobody)
  /\ UNCHANGED <<lease, marker, deaths, failures>>

\* The recursive rm of the marker's path, whoever it belongs to by then.
Wipe(p) ==
  /\ At(p, "wipe")
  /\ marker' = NoFile
  /\ Goto(p, after[p])
  /\ after' = [after EXCEPT ![p] = "idle"]
  /\ UNCHANGED <<lease, seen, outdated, deaths, failures>>

LookForMarker(p) ==
  /\ At(p, "look")
  /\ Goto(p, IF Exists(marker) THEN "read" ELSE "create")
  /\ UNCHANGED <<lease, marker, seen, outdated, after, deaths, failures>>

\* open(path, "wx") fails when the path exists.
TryCreateLease(p) ==
  /\ At(p, "create")
  /\ IF Exists(lease)
       THEN Goto(p, "read") /\ UNCHANGED <<lease, outdated>>
       ELSE /\ Goto(p, "write")
            /\ lease' = Made(p)
            /\ outdated' = outdated \cup {q \in Acquirers : seen[q] = p}
  /\ UNCHANGED <<marker, seen, after, deaths, failures>>

\* The record goes through the handle: to a file that may be unlinked by now.
WriteRecord(p) ==
  /\ At(p, "write")
  /\ lease' = IF lease.by = p THEN Named(p) ELSE lease
  /\ Goto(p, "held")
  /\ UNCHANGED <<marker, seen, outdated, after, deaths, failures>>

\* The write fails: the path is removed and acquire throws.
WriteRecordFails(p) ==
  /\ At(p, "write")
  /\ Fail
  /\ Goto(p, "unlink")
  /\ UNCHANGED <<lease, marker, seen, outdated, after, deaths>>

ReadLease(p) ==
  /\ At(p, "read")
  /\ Saw(p, Token(lease))
  /\ Goto(p, "judge")
  /\ UNCHANGED <<lease, marker, after, deaths, failures>>

\* The owner it named is probed, or the age of the file looked at.
JudgeLease(p) ==
  /\ At(p, "judge")
  /\ IF \/ seen[p] # Nobody /\ ~IsAlive(seen[p])
        \/ seen[p] = Nobody /\ lease.old
       THEN Goto(p, "mark") /\ UNCHANGED <<seen, outdated>>
       ELSE Goto(p, "wait") /\ Saw(p, Nobody)
  /\ UNCHANGED <<lease, marker, after, deaths, failures>>

\* mkdir fails when the marker exists.
MakeMarker(p) ==
  /\ At(p, "mark")
  /\ IF Exists(marker)
       THEN /\ Goto(p, "wait")
            /\ Saw(p, Nobody)
            /\ UNCHANGED marker
       ELSE /\ Goto(p, "name")
            /\ marker' = Made(p)
            /\ UNCHANGED <<seen, outdated>>
  /\ UNCHANGED <<lease, after, deaths, failures>>

\* owner.json is written by its path, into whatever marker is there.
NameMarker(p) ==
  /\ At(p, "name")
  /\ Exists(marker)
  /\ marker' = Named(p)
  /\ Goto(p, "check")
  /\ UNCHANGED <<lease, seen, outdated, after, deaths, failures>>

\* The write fails, as it does when the directory is gone: rm, then throw.
NameMarkerFails(p) ==
  /\ At(p, "name")
  /\ IF Exists(marker) THEN Fail ELSE UNCHANGED failures
  /\ Goto(p, "wipe")
  /\ Saw(p, Nobody)
  /\ after' = [after EXCEPT ![p] = "idle"]
  /\ UNCHANGED <<lease, marker, deaths>>

RecheckNothing(p) ==
  /\ At(p, "check")
  /\ Goto(p, "remove")
  /\ Saw(p, Nobody)
  /\ UNCHANGED <<lease, marker, after, deaths, failures>>

\* Under the marker the lease is read again: it must be the one seen before.
Recheck(p) ==
  /\ At(p, "check")
  /\ IF Token(lease) = seen[p] /\ p \notin outdated
       THEN Goto(p, "remove") /\ UNCHANGED after
       ELSE Goto(p, "unmark") /\ after' = [after EXCEPT ![p] = "wait"]
  /\ Saw(p, Nobody)
  /\ UNCHANGED <<lease, marker, deaths, failures>>

Remove(p) ==
  /\ At(p, "remove")
  /\ lease' = NoFile
  /\ Goto(p, "unmark")
  /\ after' = [after EXCEPT ![p] = "recover"]
  /\ UNCHANGED <<marker, seen, outdated, deaths, failures>>

\* rm fails: the marker is released and acquire throws.
RemoveFails(p) ==
  /\ At(p, "remove")
  /\ Fail
  /\ Goto(p, "unmark")
  /\ after' = [after EXCEPT ![p] = "idle"]
  /\ UNCHANGED <<lease, marker, seen, outdated, deaths>>

ReleaseMarker(p) ==
  /\ At(p, "unmark")
  /\ IF Token(marker) = p
       THEN Goto(p, "wipe") /\ UNCHANGED after
       ELSE Goto(p, after[p]) /\ after' = [after EXCEPT ![p] = "idle"]
  /\ UNCHANGED <<lease, marker, seen, outdated, deaths, failures>>

TryAgain(p) ==
  /\ At(p, "wait")
  /\ Goto(p, "recover")
  /\ UNCHANGED <<lease, marker, seen, outdated, after, deaths, failures>>

\* The deadline has passed: acquire throws.
GiveUp(p) ==
  /\ At(p, "wait")
  /\ Goto(p, "idle")
  /\ UNCHANGED <<lease, marker, seen, outdated, after, deaths, failures>>

\* release reads the lease and removes it only when it is its own.
Release(p) ==
  /\ At(p, "held")
  /\ Goto(p, IF Token(lease) = p THEN "unlink" ELSE "idle")
  /\ UNCHANGED <<lease, marker, seen, outdated, after, deaths, failures>>

Unlink(p) ==
  /\ At(p, "unlink")
  /\ lease' = NoFile
  /\ Goto(p, "idle")
  /\ UNCHANGED <<marker, seen, outdated, after, deaths, failures>>

\* The process dies, anywhere.
Dies(p) ==
  /\ pc[p] # "dead"
  /\ Goto(p, "dead")
  /\ torn' = (torn \/ (lease.by = p /\ ~lease.named) \/ marker.by = p)
  /\ unnoticed' =
       (unnoticed \/ \E q \in Acquirers : At(q, "owner") /\ seen[q] = p)
  /\ Saw(p, Nobody)
  /\ after' = [after EXCEPT ![p] = "idle"]
  /\ UNCHANGED <<lease, marker, failures>>

\* A dead process left it without a record; time passes.
BecomesStale(file) == Exists(file) /\ ~file.named /\ ~IsAlive(file.by)

Age ==
  /\ \/ /\ BecomesStale(lease)
        /\ lease' = [lease EXCEPT !.old = TRUE]
        /\ UNCHANGED marker
     \/ /\ BecomesStale(marker)
        /\ marker' = [marker EXCEPT !.old = TRUE]
        /\ UNCHANGED lease
  /\ UNCHANGED <<pc, seen, outdated, after, deaths, failures>>

\* The steps of the loop that a running process takes by itself.
Attempt(p) ==
  \/ RecoverAbandonedReclaim(p) \/ JudgeMarker(p) \/ Wipe(p)
  \/ LookForMarker(p) \/ TryCreateLease(p) \/ WriteRecord(p)
  \/ ReadLease(p) \/ JudgeLease(p) \/ MakeMarker(p) \/ NameMarker(p)
  \/ Recheck(p) \/ Remove(p) \/ ReleaseMarker(p) \/ TryAgain(p)

\* What else can happen to a process: calls, failures, its end.
Event(p) ==
  \/ Acquire(p) \/ GiveUp(p) \/ Release(p) \/ Unlink(p)
  \/ WriteRecordFails(p) \/ NameMarkerFails(p) \/ RemoveFails(p)
  \/ Dies(p)

LeaseNext ==
  \/ \E p \in Acquirers : Attempt(p) \/ Event(p)
  \/ Age

LeaseSpec == LeaseInit /\ [][LeaseNext]_leaseVars

\* A running process keeps taking its own steps and time passes.  No process
\* must start, release, fail, give up or die.
FairSpec ==
  /\ LeaseSpec
  /\ WF_leaseVars(Age)
  /\ \A p \in Acquirers :
       /\ WF_leaseVars(Attempt(p))
       /\ WF_leaseVars(NameMarkerFails(p) /\ ~Exists(marker))

-----------------------------------------------------------------------------
File == [by : Acquirers \cup {Before, Nobody}, named : BOOLEAN, old : BOOLEAN]

\* Types; an absent file has no record and no age, and a stale one no record.
LeaseTypeOK ==
  /\ lease \in File /\ marker \in File
  /\ \A f \in {lease, marker} :
       /\ f.named \/ f.old => Exists(f)
       /\ ~(f.named /\ f.old)
  /\ pc \in [Acquirers -> Loop \cup {"idle", "held", "unlink", "dead"}]
  /\ seen \in [Acquirers -> Acquirers \cup {Before, Nobody}]
  /\ outdated \subseteq Acquirers
  /\ after \in [Acquirers -> {"idle", "look", "wait", "recover"}]
  /\ torn \in BOOLEAN /\ unnoticed \in BOOLEAN
  /\ failures \in 0..MaxFailures

Holds(p) == pc[p] = "held"

\* Mutual exclusion: two live processes never hold the lease together.
OneHolder == \A p, q \in Acquirers : Holds(p) /\ Holds(q) => p = q

\* As long as no process dies at one of three places (with its reclaim marker;
\* with a lease it has not written; or when another has just read its name in a
\* marker and has not yet looked whether it lives), the lease of a live process
\* stays where it is until it releases it: whatever others saw of an earlier
\* lease, and whenever they act on it, their rm and their release never hit it.
LiveLeaseKept ==
  ~torn /\ ~unnoticed =>
    \A p \in Acquirers : pc[p] \in {"write", "held", "unlink"} => lease.by = p

\* Mutual exclusion as long as whoever dies leaves no marker and no unwritten
\* lease behind.
OneHolderUnlessTorn == ~torn => OneHolder

\* A live process leaves nothing behind that would lock the others out for as
\* long as it lives: a lease or a marker in its name is one it is using.
NothingLeaked ==
  \A p \in Acquirers : IsAlive(p) =>
    /\ lease.by = p => pc[p] \in {"write", "held", "unlink"}
    /\ marker.by = p => pc[p] \in InReclaim \cup {"wipe"}

DeadLease == lease.named /\ ~IsAlive(lease.by)

\* A lease whose owner died does not keep a process that goes on trying out,
\* also when others die while they reclaim it: it is removed.
DeadLeaseFreed ==
  \A p \in Acquirers :
    pc[p] \in Loop /\ DeadLease ~> ~DeadLease \/ pc[p] \notin Loop
=============================================================================
