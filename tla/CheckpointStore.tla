--------------------------- MODULE CheckpointStore ---------------------------
(***************************************************************************)
(* The journal behind /undo, /redo and /rewind, over one workspace.        *)
(*                                                                         *)
(* A tool records the content it is about to overwrite (a pre-image),      *)
(* waits until that record is in the file, writes, and records what it     *)
(* left (a post-image).  A restore composes the oldest pre-images since a  *)
(* turn, captures what it will overwrite as a redo point, logs its plan,   *)
(* applies it path by path, and is replayed after a crash.  Next to them   *)
(* the user edits files, a worker that was handed to the background writes *)
(* without a journal, and the process dies and is started again on the     *)
(* same session.                                                           *)
(*                                                                         *)
(* A file is its content; one content stands for an absent file, so a      *)
(* creation, a change and a deletion are one kind of write.  `records' is  *)
(* the journal in memory, its first `durable' entries the journal file.    *)
(* JavaScript runs one callback at a time: an action is what the code does *)
(* between two awaits.                                                     *)
(***************************************************************************)
EXTENDS Naturals, FiniteSets, Sequences, SequencesExt, FiniteSetsExt, Functions

CONSTANTS
  Paths,        \* files of the workspace
  Contents,     \* what a file can hold, absence included
  Main,         \* the tools of the turn's own loop
  Workers,      \* sub-agents the turn may hand to the background
  None,         \* no path
  Unset,        \* no claim about a content
  MaxTurns,     \* bound: user turns
  MaxRestores,  \* bound: restores that write something
  MaxWrites,    \* bound: file tools that run
  MaxEdits,     \* bound: edits by hand
  MaxFaults,    \* bound: writes that fail
  MaxCrashes    \* bound: deaths of the process

ASSUME NamesAssumption ==
  /\ Main \notin Workers
  /\ None \notin Paths
  /\ Unset \notin Contents
ASSUME BoundsAssumption ==
  /\ {MaxTurns, MaxRestores, MaxWrites, MaxEdits, MaxFaults, MaxCrashes}
       \subseteq Nat

Writers   == {Main} \cup Workers
UserTurns == 1..MaxTurns
RedoTurn(id) == MaxTurns + id       \* redoId: a turn record of kind redo-point
NoTurn    == 0

VARIABLES
  disk,        \* content of each file
  records,     \* CheckpointStore.records, each record at its seq
  durable,     \* how many of them the journal file holds
  proc,        \* "up", "down", or "recovering" (recoverAbandonedRestore)
  turn,        \* user turns started so far
  running,     \* the last of them has not ended
  op,          \* the file tool each writer is executing
  gate,        \* revocableRecorder's gate.live, per worker
  pending,     \* revocableRecorder's pending captures, per worker
  plan,        \* the restore the user asked for
  job,         \* the restore that is being applied
  pointer,     \* pending-undo.json names this session
  spent,       \* the bounds used up
  origin,      \* history: content at the start of each turn
  by,          \* history: who wrote each file last
  died,        \* history: captures whose write was never recorded
  undoable,    \* history: writes that went to disk under a capture
  named        \* history: restores whose pointer was written

procVars  == <<proc, turn, running>>
opVars    == <<op, gate, pending>>
jobVars   == <<plan, job, pointer>>
ghostVars == <<origin, by, died, undoable, named>>
vars == <<disk, records, durable, procVars, opVars, jobVars, spent, ghostVars>>

----------------------------------------------------------------------------
(* Records, and what the store reads off them.                             *)

Pre(t, p, c)  == [type |-> "pre", turn |-> t, path |-> p, was |-> c]
Post(p, c)    == [type |-> "post", path |-> p, now |-> c]
Revoke(r)     == [type |-> "revoke", ref |-> r]
Finalize(t)   == [type |-> "finalize", turn |-> t]
Start(id, target, redo, skip, files) ==
  [type |-> "start", id |-> id, target |-> target, redo |-> redo,
   skip |-> skip, files |-> files]
FileDone(id, p) == [type |-> "file", id |-> id, path |-> p]
Done(id, redo)  == [type |-> "done", id |-> id, redo |-> redo]

Seqs(type) == {i \in DOMAIN records : records[i].type = type}

RevokedSeqs == {records[i].ref : i \in Seqs("revoke")}
Entries     == Seqs("pre") \ RevokedSeqs            \* not dropped by a revoke
EntriesOf(t) == {i \in Entries : records[i].turn = t}
RealEntries  == {i \in Entries : records[i].turn \in UserTurns}

PostsOf(p)    == {i \in Seqs("post") : records[i].path = p}
LatestPost(p) == records[Max(PostsOf(p))].now

StartOf(id) == CHOOSE i \in Seqs("start") : records[i].id = id
Dangling    == {i \in Seqs("start") :
                  \A d \in Seqs("done") : records[d].id # records[i].id}

Finalized(t) == \E i \in Seqs("finalize") : records[i].turn = t

\* listCheckpoints: finalized turns that hold an entry.
Checkpoints == {t \in UserTurns : Finalized(t) /\ EntriesOf(t) # {}}
Newest(T)   == IF T = {} THEN NoTurn ELSE Max(T)

EntryAfter(i) == \E j \in RealEntries : j > i       \* hasRealPreAfter

UndoTarget ==
  IF Seqs("done") = {} \/ EntryAfter(Max(Seqs("done")))
    THEN Newest(Checkpoints)
    ELSE LET start == records[StartOf(records[Max(Seqs("done"))].id)]
             makers == {i \in Seqs("start") : records[i].redo = start.target}
         IN IF start.target \in UserTurns
              THEN Newest({t \in Checkpoints : t < start.target})
              ELSE records[Max(makers)].target

RedoTarget ==
  IF Seqs("done") = {} \/ EntryAfter(Max(Seqs("done")))
    THEN NoTurn
    ELSE records[Max(Seqs("done"))].redo

\* composeEntries and planEntry: the oldest entry of each path, from the
\* target turn on (or of the redo point alone), as path |-> content.
ComposedFrom(target) ==
  {i \in Entries : IF target \in UserTurns
                     THEN records[i].turn \in target..MaxTurns
                     ELSE records[i].turn = target}
Compose(target) ==
  LET from  == ComposedFrom(target)
      paths == {records[i].path : i \in from}
  IN [p \in paths |-> records[Min({i \in from : records[i].path = p})].was]

Diverged(p) == PostsOf(p) # {} /\ disk[p] # LatestPost(p)

----------------------------------------------------------------------------
(* Steps in progress.                                                      *)

NoOp   == [phase |-> "idle", path |-> None, ref |-> 0]
NoPlan == [phase |-> "none", target |-> NoTurn, files |-> <<>>,
           diverged |-> {}, skip |-> FALSE]
NoJob  == [phase |-> "none", id |-> 0, ref |-> 0, left |-> {},
           skipped |-> {}, logging |-> None]

Init ==
  /\ \E c \in Contents : disk = [p \in Paths |-> c]
  /\ records = <<>> /\ durable = 0
  /\ proc = "up" /\ turn = 0 /\ running = FALSE
  /\ op = [w \in Writers |-> NoOp]
  /\ gate = [w \in Workers |-> TRUE]
  /\ pending = [w \in Workers |-> {}]
  /\ plan = NoPlan /\ job = NoJob /\ pointer = FALSE
  /\ spent = [writes |-> 0, edits |-> 0, faults |-> 0, crashes |-> 0,
              restores |-> 0]
  /\ origin = [t \in UserTurns |-> [p \in Paths |-> Unset]]
  /\ by = [p \in Paths |-> "agent"] /\ died = {} /\ undoable = {}
  /\ named = {}

Spend(what, most) == spent[what] < most
                     /\ spent' = [spent EXCEPT ![what] = @ + 1]

Log(rs) == records' = records \o rs
NextSeq == Len(records) + 1        \* the seq the next record gets

JobStart == records[StartOf(job.id)]   \* the plan a logged restore applies

\* utils/pathLocks: a tool holds its path from the capture to the post-image,
\* a restore all of its paths while it applies them.
Locked(p) == \/ \E w \in Writers : op[w].path = p
             \/ job.phase = "applying" /\ p \in DOMAIN JobStart.files

MayJournal(w) == w = Main \/ gate[w]

\* A change of p that no capture covers: what the turn found there is no
\* longer what its checkpoint will hold.
ForeignWrite(p, who) ==
  /\ by' = [by EXCEPT ![p] = who]
  /\ origin' = IF turn = 0 \/ (\E u \in undoable : u.turn = turn /\ u.path = p)
                 THEN origin
                 ELSE [origin EXCEPT ![turn][p] = Unset]

----------------------------------------------------------------------------
(* Turns.                                                                  *)

\* A prompt, or the report of a background agent, starts a turn.
BeginTurn ==
  /\ proc = "up" /\ ~running /\ turn < MaxTurns
  /\ turn' = turn + 1 /\ running' = TRUE
  /\ origin' = [origin EXCEPT ![turn + 1] = disk]
  /\ UNCHANGED <<disk, records, durable, proc, opVars, jobVars, spent,
                 by, died, undoable, named>>

\* turn:end / turn:cancelled: the turn's tools have settled; a worker that is
\* still at work was handed off.
EndTurn ==
  /\ proc = "up" /\ running
  /\ \A w \in Writers : MayJournal(w) => op[w] = NoOp
  /\ running' = FALSE
  /\ IF (\E i \in Seqs("pre") : records[i].turn = turn) /\ ~Finalized(turn)
       THEN Log(<<Finalize(turn)>>)
       ELSE UNCHANGED records
  /\ UNCHANGED <<disk, durable, proc, turn, opVars, jobVars, spent, ghostVars>>

----------------------------------------------------------------------------
(* A file tool under its path lock: capture, flush, write, post-image.     *)

\* recordPreImage up to its flush; a closed gate makes it a no-op.
Capture(w, p) ==
  /\ proc = "up"
  /\ running \/ (w \in Workers /\ ~gate[w])
  /\ op[w] = NoOp /\ ~Locked(p)
  /\ Spend("writes", MaxWrites)
  /\ IF MayJournal(w)
       THEN /\ Log(<<Pre(turn, p, disk[p])>>)
            /\ op' = [op EXCEPT ![w] = [phase |-> "capturing", path |-> p,
                                        ref |-> NextSeq]]
       ELSE /\ op' = [op EXCEPT ![w] = [phase |-> "ready", path |-> p,
                                        ref |-> 0]]
            /\ UNCHANGED records
  /\ UNCHANGED <<disk, durable, procVars, gate, pending, jobVars, ghostVars>>

\* The rest of recordPreImage; when the gate closed meanwhile the entry is
\* revoked again.
Commit(w) ==
  /\ IF MayJournal(w)
       THEN /\ op' = [op EXCEPT ![w].phase = "ready"]
            /\ pending' = IF w = Main
                            THEN pending
                            ELSE [pending EXCEPT ![w] = @ \cup {op[w].ref}]
            /\ UNCHANGED records
       ELSE /\ Log(<<Revoke(op[w].ref)>>)
            /\ op' = [op EXCEPT ![w] = [@ EXCEPT !.phase = "revoking",
                                                 !.ref = NextSeq]]
            /\ UNCHANGED pending
  /\ UNCHANGED <<disk, durable, procVars, gate, jobVars, spent, ghostVars>>

\* Its flush returns.  Mutant: the tool does not wait for it.
CaptureUnflushed(w) == op[w].phase = "capturing" /\ Commit(w)
CaptureFlushed(w) ==
  /\ op[w].phase = "capturing" /\ durable >= op[w].ref
  /\ Commit(w)

RevokeFlushed(w) ==
  /\ op[w].phase = "revoking" /\ durable >= op[w].ref
  /\ op' = [op EXCEPT ![w] = [@ EXCEPT !.phase = "ready", !.ref = 0]]
  /\ UNCHANGED <<disk, records, durable, procVars, gate, pending, jobVars,
                 spent, ghostVars>>

Captured(w) == MayJournal(w) /\ op[w].ref # 0

ToolWrite(w) ==
  /\ op[w].phase = "ready"
  /\ \E c \in Contents \ {disk[op[w].path]} :
       disk' = [disk EXCEPT ![op[w].path] = c]
  /\ op' = [op EXCEPT ![w].phase = "wrote"]
  /\ IF Captured(w)
       THEN /\ by' = [by EXCEPT ![op[w].path] = "agent"]
            /\ undoable' = undoable \cup
                 {[ref |-> op[w].ref, turn |-> records[op[w].ref].turn,
                   path |-> op[w].path, was |-> disk[op[w].path]]}
            /\ UNCHANGED origin
       ELSE /\ ForeignWrite(op[w].path, "run")
            /\ UNCHANGED undoable
  /\ UNCHANGED <<records, durable, procVars, gate, pending, jobVars, spent,
                 died, named>>

\* The write throws; a worker's capture stays in `pending'.  Mutant: the path
\* lock is not released.
ToolFailsLocked(w) ==
  /\ op[w].phase = "ready"
  /\ Spend("faults", MaxFaults)
  /\ op' = [op EXCEPT ![w].phase = "idle"]
  /\ UNCHANGED <<disk, records, durable, procVars, gate, pending, jobVars,
                 ghostVars>>
ToolFails(w) ==
  /\ op[w].phase = "ready"
  /\ Spend("faults", MaxFaults)
  /\ op' = [op EXCEPT ![w] = NoOp]
  /\ died' = IF op[w].ref = 0 THEN died ELSE died \cup {op[w].ref}
  /\ UNCHANGED <<disk, records, durable, procVars, gate, pending, jobVars,
                 origin, by, undoable, named>>

\* recordPostImage: a capture made while the gate was open is completed even
\* if it closed since; otherwise the gate decides.
PostImage(w) ==
  /\ op[w].phase = "wrote"
  /\ IF MayJournal(w) \/ op[w].ref \in pending[w]
       THEN /\ Log(<<Post(op[w].path, disk[op[w].path])>>)
            /\ op' = [op EXCEPT ![w] = [@ EXCEPT !.phase = "posting",
                                                 !.ref = NextSeq]]
       ELSE /\ op' = [op EXCEPT ![w] = NoOp]
            /\ UNCHANGED records
  /\ pending' = IF w = Main
                  THEN pending
                  ELSE [pending EXCEPT ![w] = @ \ {op[w].ref}]
  /\ UNCHANGED <<disk, durable, procVars, gate, jobVars, spent, ghostVars>>

PostFlushed(w) ==
  /\ op[w].phase = "posting" /\ durable >= op[w].ref
  /\ op' = [op EXCEPT ![w] = NoOp]
  /\ UNCHANGED <<disk, records, durable, procVars, gate, pending, jobVars,
                 spent, ghostVars>>

\* revocableRecorder.revoke, at the deadline of a foreground worker: the gate
\* closes and every capture whose post-image is missing is revoked.
NoDrops(w) == <<>>             \* mutant: the gate closes and nothing is revoked
DropsOf(w) == SetToSeq({Revoke(r) : r \in pending[w] \ RevokedSeqs})
Handoff(w) ==
  /\ proc = "up" /\ running /\ gate[w]
  /\ gate' = [gate EXCEPT ![w] = FALSE]
  /\ pending' = [pending EXCEPT ![w] = {}]
  /\ Log(DropsOf(w))
  /\ undoable' = {u \in undoable : u.ref \notin pending[w]}
  /\ IF \E u \in undoable : u.ref \in pending[w] /\ u.ref = op[w].ref
       THEN /\ by' = [by EXCEPT ![op[w].path] = "run"]
            /\ origin' = IF \E u \in undoable' : /\ u.turn = turn
                                               /\ u.path = op[w].path
                           THEN origin
                           ELSE [origin EXCEPT ![turn][op[w].path] = Unset]
       ELSE UNCHANGED <<by, origin>>
  /\ UNCHANGED <<disk, durable, procVars, op, jobVars, spent, died, named>>

\* JsonlWriter: the next line of the journal reaches the file.
Persist ==
  /\ proc # "down" /\ durable < Len(records)
  /\ durable' = durable + 1
  /\ UNCHANGED <<disk, records, procVars, opVars, jobVars, spent, ghostVars>>

\* The user saves a file from an editor: no lock is taken, but not in the
\* instants between a tool's or a restore's own read and write of that file.
HandEdit(p) ==
  /\ ~Locked(p)
  /\ Spend("edits", MaxEdits)
  /\ \E c \in Contents \ {disk[p]} : disk' = [disk EXCEPT ![p] = c]
  /\ ForeignWrite(p, "hand")
  /\ UNCHANGED <<records, durable, procVars, opVars, jobVars, died, undoable,
                 named>>

----------------------------------------------------------------------------
(* /undo, /redo, /rewind.                                                  *)

Idle == proc = "up" /\ plan = NoPlan /\ job = NoJob

\* startRestore: the plan is computed; the confirm picker opens for a rewind
\* and when a file of the plan diverged.
PlanFor(target, asks) ==
  LET files    == Compose(target)
      diverged == {p \in DOMAIN files : Diverged(p)}
  IN plan' = [phase |-> IF asks \/ diverged # {} THEN "asking" ELSE "chosen",
              target |-> target, files |-> files, diverged |-> diverged,
              skip |-> FALSE]

Request(verb) ==
  /\ Idle /\ ~running
  /\ CASE verb = "undo"   -> UndoTarget # NoTurn /\ PlanFor(UndoTarget, FALSE)
       [] verb = "redo"   -> RedoTarget # NoTurn /\ PlanFor(RedoTarget, FALSE)
       [] verb = "rewind" -> \E t \in Checkpoints : PlanFor(t, TRUE)
  /\ UNCHANGED <<disk, records, durable, procVars, opVars, job, pointer, spent,
                 ghostVars>>

\* The picker: keep the diverged files, overwrite them too, or dismiss it.
Choose(skip) ==
  /\ plan.phase = "asking"
  /\ plan' = [plan EXCEPT !.phase = "chosen", !.skip = skip]
  /\ UNCHANGED <<disk, records, durable, procVars, opVars, job, pointer, spent,
                 ghostVars>>
Dismiss ==
  /\ plan.phase = "asking"
  /\ plan' = NoPlan
  /\ UNCHANGED <<disk, records, durable, procVars, opVars, job, pointer, spent,
                 ghostVars>>

\* recoverIfNeeded: a logged plan that is not done is taken up again, without
\* the files it has logged as restored.  Mutant: it is only marked done.
ReplayNothing(i) ==
  /\ i \in Dangling
  /\ job' = [NoJob EXCEPT !.phase = "pointed", !.id = records[i].id]
  /\ UNCHANGED <<disk, records, durable, procVars, opVars, plan, pointer,
                 spent, ghostVars>>
Replay(i) ==
  /\ i \in Dangling
  /\ job' = [NoJob EXCEPT !.phase = "pointed", !.id = records[i].id,
               !.left = DOMAIN records[i].files \
                 {p \in Paths : \E f \in Seqs("file") :
                    records[f].id = records[i].id /\ records[f].path = p}]
  /\ UNCHANGED <<disk, records, durable, procVars, opVars, plan, pointer,
                 spent, ghostVars>>

\* The files of the plan that the restore will write.
Applied == IF plan.skip THEN Restrict(plan.files, DOMAIN plan.files \ plan.diverged)
                        ELSE plan.files
RedoOf(id) == IF plan.target \in UserTurns THEN RedoTurn(id) ELSE NoTurn

\* captureRedoPoint: what the files hold now, as a checkpoint of its own.
RedoPoints(id) ==
  IF RedoOf(id) = NoTurn
    THEN {<<>>}
    ELSE {Append(pres, Finalize(RedoOf(id))) :
            pres \in SetToSeqs({Pre(RedoOf(id), p, disk[p]) :
                                  p \in DOMAIN Applied})}

BeginRestore ==
  /\ plan.phase = "chosen" /\ job = NoJob /\ Dangling = {}
  /\ IF DOMAIN Applied = {}
       THEN /\ plan' = NoPlan
            /\ UNCHANGED <<records, job, spent>>
       ELSE /\ Spend("restores", MaxRestores)
            /\ \E rs \in RedoPoints(spent.restores + 1) : Log(rs)
            /\ job' = [NoJob EXCEPT !.phase = "redo",
                         !.id = spent.restores + 1,
                         !.ref = Len(records')]
            /\ UNCHANGED plan
  /\ UNCHANGED <<disk, durable, procVars, opVars, pointer, ghostVars>>

\* The redo point is in the file: log the plan.
LogStart ==
  /\ job.phase = "redo" /\ durable >= job.ref
  /\ Log(<<Start(job.id, plan.target, RedoOf(job.id), plan.skip, Applied)>>)
  /\ job' = [job EXCEPT !.phase = "started"]
  /\ plan' = NoPlan
  /\ UNCHANGED <<disk, durable, procVars, opVars, pointer, spent, ghostVars>>

\* writePendingUndoPointer; the flush that follows covers the plan.
WritePointer ==
  /\ job.phase = "started"
  /\ pointer' = TRUE /\ named' = named \cup {job.id}
  /\ job' = [job EXCEPT !.phase = "pointed", !.ref = Len(records),
                        !.left = DOMAIN JobStart.files]
  /\ UNCHANGED <<disk, records, durable, procVars, opVars, plan, spent, origin,
                 by, died, undoable>>

\* The plan is in the file and withPathLocks has all of its paths.
TakeLocks ==
  /\ job.phase = "pointed" /\ durable >= job.ref
  /\ \A w \in Writers : op[w].path \notin DOMAIN JobStart.files
  /\ job' = [job EXCEPT !.phase = "applying"]
  /\ UNCHANGED <<disk, records, durable, procVars, opVars, plan, pointer, spent,
                 ghostVars>>

Applying(p) == job.phase = "applying" /\ job.logging = None /\ p \in job.left
Skips(p)    == [job EXCEPT !.left = @ \ {p}, !.skipped = @ \cup {p}]

\* divergedSinceLastPostImage, asked again under the lock.  Mutant: the flags of
\* the plan are trusted.
NotAskedAgain(p) == FALSE
DivergedNow(p) == /\ JobStart.skip
                  /\ disk[p] # JobStart.files[p]
                  /\ Diverged(p)

\* applyPlanEntry, up to the write; or the file is left to its owner.
ApplyWrite(p) ==
  /\ Applying(p)
  /\ IF DivergedNow(p)
       THEN /\ job' = Skips(p)
            /\ UNCHANGED <<disk, by, origin>>
       ELSE /\ disk' = [disk EXCEPT ![p] = JobStart.files[p]]
            /\ job' = [job EXCEPT !.left = @ \ {p}, !.logging = p]
            /\ ForeignWrite(p, "agent")
  /\ UNCHANGED <<records, durable, procVars, opVars, plan, pointer, spent, died,
                 undoable, named>>

ApplyFails(p) ==
  /\ Applying(p)
  /\ Spend("faults", MaxFaults)
  /\ job' = Skips(p)
  /\ died' = died \cup {r \in Seqs("pre") : /\ records[r].turn = JobStart.redo
                                          /\ records[r].path = p}
  /\ UNCHANGED <<disk, records, durable, procVars, opVars, plan, pointer,
                 origin, by, undoable, named>>

\* Its last lines: the progress record and a post-image.
ApplyLog ==
  /\ job.logging # None
  /\ Log(<<FileDone(job.id, job.logging),
               Post(job.logging, JobStart.files[job.logging])>>)
  /\ job' = [job EXCEPT !.logging = None]
  /\ UNCHANGED <<disk, durable, procVars, opVars, plan, pointer, spent, ghostVars>>

\* undo:done is logged and the locks are released.
FinishRestore ==
  /\ job.phase = "applying" /\ job.left = {} /\ job.logging = None
  /\ Log(<<Done(job.id, JobStart.redo)>>)
  /\ job' = [job EXCEPT !.phase = "closing", !.ref = NextSeq]
  /\ UNCHANGED <<disk, durable, procVars, opVars, plan, pointer, spent, ghostVars>>

\* clearPendingUndoPointerIfOwned, once undo:done is in the file.  Mutant: the
\* flush is forgotten.
ClearPointerEarly ==
  /\ job.phase = "closing"
  /\ pointer' = FALSE
  /\ job' = NoJob
  /\ UNCHANGED <<disk, records, durable, procVars, opVars, plan, spent, ghostVars>>
ClearPointer ==
  /\ job.phase = "closing" /\ durable >= job.ref
  /\ pointer' = FALSE
  /\ job' = NoJob
  /\ UNCHANGED <<disk, records, durable, procVars, opVars, plan, spent, ghostVars>>

----------------------------------------------------------------------------
(* The death of the process, and the next launch of the session.           *)

\* What was queued but not in the file is lost, with everything in memory.
\* A path is torn when what was written to it is not recorded as such: its
\* tool was at work, or the restore's undo:file is in the file and its
\* post-image is not. A revocation that is not in the file is lost as well:
\* its capture is back, and nothing was recorded of the write it stepped back for.
Torn(p) == \/ \E w \in Writers : op[w].path = p
           \/ job.logging = p
           \/ \E i \in Seqs("file") : i = durable /\ records[i].path = p
Crash ==
  /\ proc # "down"
  /\ Spend("crashes", MaxCrashes)
  /\ records' = SubSeq(records, 1, durable)
  /\ proc' = "down" /\ running' = FALSE
  /\ op' = [w \in Writers |-> NoOp]
  /\ gate' = [w \in Workers |-> TRUE]
  /\ pending' = [w \in Workers |-> {}]
  /\ plan' = NoPlan /\ job' = NoJob
  /\ died' = (died \cup {r \in Seqs("pre") : Torn(records[r].path)}
                     \cup {records[i].ref : i \in {j \in Seqs("revoke") : j > durable}})
               \cap 1..durable
  /\ UNCHANGED <<disk, durable, turn, pointer, origin, by, undoable, named>>

\* The session is resumed: its journal is loaded, and the pointer followed.
Launch ==
  /\ proc = "down"
  /\ proc' = IF pointer THEN "recovering" ELSE "up"
  /\ UNCHANGED <<disk, records, durable, turn, running, opVars, jobVars, spent,
                 ghostVars>>

\* recoverAbandonedRestore has replayed what there was to replay.
Recovered ==
  /\ proc = "recovering" /\ job = NoJob /\ Dangling = {}
  /\ durable = Len(records)
  /\ proc' = "up" /\ pointer' = FALSE
  /\ UNCHANGED <<disk, records, durable, turn, running, opVars, plan, job, spent,
                 ghostVars>>

\* recoverIfNeeded runs before a restore and at a launch that has a pointer.
Recover ==
  /\ job = NoJob
  /\ plan.phase = "chosen" \/ proc = "recovering"
  /\ Dangling # {} /\ Replay(Min(Dangling))

Next ==
  \/ BeginTurn \/ EndTurn
  \/ \E w \in Writers : \/ \E p \in Paths : Capture(w, p)
                        \/ CaptureFlushed(w) \/ RevokeFlushed(w)
                        \/ ToolWrite(w) \/ ToolFails(w)
                        \/ PostImage(w) \/ PostFlushed(w)
  \/ \E w \in Workers : Handoff(w)
  \/ Persist
  \/ \E p \in Paths : HandEdit(p) \/ ApplyWrite(p) \/ ApplyFails(p)
  \/ \E verb \in {"undo", "redo", "rewind"} : Request(verb)
  \/ \E skip \in BOOLEAN : Choose(skip)
  \/ Dismiss \/ Recover \/ BeginRestore \/ LogStart \/ WritePointer
  \/ TakeLocks \/ ApplyLog \/ FinishRestore \/ ClearPointer
  \/ Crash \/ Launch \/ Recovered

Spec == Init /\ [][Next]_vars

----------------------------------------------------------------------------
Records ==
  [type : {"pre"}, turn : 1..(MaxTurns + MaxRestores), path : Paths,
   was : Contents]
  \cup [type : {"post"}, path : Paths, now : Contents]
  \cup [type : {"revoke"}, ref : Nat \ {0}]
  \cup [type : {"finalize"}, turn : 1..(MaxTurns + MaxRestores)]
  \cup [type : {"file"}, id : 1..MaxRestores, path : Paths]
  \cup [type : {"done"}, id : 1..MaxRestores, redo : 0..(MaxTurns + MaxRestores)]
Partial == UNION {[S -> Contents] : S \in SUBSET Paths}

IsRecord(r) ==
  \/ r \in Records
  \/ /\ r.type = "start" /\ r.id \in 1..MaxRestores /\ r.skip \in BOOLEAN
     /\ r.target \in 1..(MaxTurns + MaxRestores)
     /\ r.redo \in 0..(MaxTurns + MaxRestores)
     /\ r.files \in Partial

\* The journal file is a prefix of the journal in memory, and every step in
\* progress refers to a record it made.
TypeOK ==
  /\ disk \in [Paths -> Contents]
  /\ \A i \in DOMAIN records : IsRecord(records[i])
  /\ durable \in 0..Len(records)
  /\ proc \in {"up", "down", "recovering"}
  /\ turn \in 0..MaxTurns /\ running \in BOOLEAN
  /\ \A w \in Writers :
       /\ op[w].phase \in {"idle", "capturing", "revoking", "ready", "wrote",
                           "posting"}
       /\ op[w].path \in Paths \cup {None} /\ op[w].ref \in 0..Len(records)
       /\ op[w].phase = "idle" <=> op[w].path = None
  /\ gate \in [Workers -> BOOLEAN]
  /\ \A w \in Workers : pending[w] \subseteq Seqs("pre")
  /\ plan.phase \in {"none", "asking", "chosen"}
  /\ job.phase \in {"none", "redo", "started", "pointed", "applying", "closing"}
  /\ job.ref \in 0..Len(records) /\ job.left \subseteq Paths
  /\ job.phase \in {"started", "pointed", "applying", "closing"} =>
       \E i \in Seqs("start") : records[i].id = job.id
  /\ pointer \in BOOLEAN

----------------------------------------------------------------------------
(* What the journal promises.                                              *)

\* Every write a tool made under a capture can be taken back, whenever the
\* process dies: its pre-image is in the journal file, where the capture put
\* it, and holds what the write destroyed ("a write that cannot be undone must
\* not happen").
WrittenIsUndoable ==
  \A u \in undoable : /\ u.ref \in 1..durable
                      /\ records[u.ref] = Pre(u.turn, u.path, u.was)

\* A restore of a turn, replayed after a crash or not, ends with the files the
\* turn had recorded as they were when it began, whatever writes, failures,
\* revocations and older restores came between; except those a failure or
\* their divergence made it leave, those somebody changed again, and those
\* somebody had changed in that turn before its first write.
UndoReverts ==
  [][FinishRestore /\ JobStart.target \in UserTurns =>
       \A p \in DOMAIN JobStart.files \ job.skipped :
         LET was == origin[JobStart.target][p]
         IN /\ \E i \in EntriesOf(JobStart.target) : records[i].path = p
            /\ by[p] = "agent" /\ was # Unset
            => disk[p] = was]_vars

HasDied(p) == \E r \in died \ RevokedSeqs : records[r].path = p

\* Losing p's content to the plan's would destroy an edit by hand or the work
\* of a worker that was handed off.
Destroys(p, c) == by[p] # "agent" /\ disk[p] # c /\ Diverged(p)

\* /undo and /redo run without a question only if no file of the plan holds
\* somebody else's content, the writes of a handed-off worker included: its
\* unfinished captures are out of the plan and its later writes diverge.  (A
\* path none of whose captures came to a recorded write is the exception:
\* HandEditsAreAsked.)
UndoAsksFirst ==
  [][plan = NoPlan /\ plan'.phase = "chosen" =>
       \A p \in DOMAIN plan'.files :
         \/ by[p] = "agent" \/ disk[p] = plan'.files[p]
         \/ PostsOf(p) # {} /\ disk[p] = LatestPost(p)
         \/ HasDied(p)]_vars

\* A restore told to keep diverged files never overwrites an edit, not even
\* one saved while the picker was open, between two files of the plan, or
\* while the process was down.
KeepsDiverged ==
  [][\A p \in Paths :
       ApplyWrite(p) /\ JobStart.skip /\ Destroys(p, JobStart.files[p])
         => disk'[p] = disk[p]]_vars

\* What is in the journal file of an unfinished restore.
LostRestores ==
  {i \in Seqs("start") : /\ i <= durable
                         /\ \A d \in Seqs("done") :
                              records[d].id = records[i].id => d > durable}

\* Once a restore has its pointer, the pointer stays until undo:done is in the
\* journal file: the next launch finds every restore that may have touched a
\* file and not finished.
PointerOutlivesRestore ==
  \A i \in LostRestores : records[i].id \in named => pointer

\* "Written before the `undo:start' flush so a crash at any point leaves
\* either a pointer with nothing to replay (harmless) or a pointer naming the
\* journal" (CheckpointStore.ts:1403-1405).
CrashLeavesPointer == proc = "down" /\ LostRestores # {} => pointer

\* "When restoring a turn checkpoint, current content is first captured into a
\* synthetic redo-point checkpoint so /redo can reapply it"
\* (CheckpointStore.ts:872-874).
RedoHoldsTheOverwritten ==
  [][\A p \in Paths :
       ApplyWrite(p) /\ JobStart.redo # NoTurn /\ disk'[p] # disk[p]
         => Compose(JobStart.redo)[p] = disk[p]]_vars

\* "/undo and /redo stay one-keystroke fast unless hand edits would be
\* overwritten" (App.tsx:1234-1235).
HandEditsAreAsked ==
  [][plan = NoPlan /\ plan'.phase = "chosen" =>
       \A p \in DOMAIN plan'.files :
         \/ by[p] # "hand" \/ disk[p] = plan'.files[p]
         \/ PostsOf(p) # {} /\ disk[p] = LatestPost(p)]_vars

============================================================================
