----------------------- MODULE CheckpointStoreProofs -----------------------
(***************************************************************************)
(* What the checkpoint journal guarantees for any number of files,         *)
(* contents, workers, turns, restores, writes, faults and crashes.         *)
(*                                                                         *)
(* A step writes the journal in one of three ways: it leaves it alone,     *)
(* adds records at its end, or dies with what was not in the file.         *)
(* JobKept and ToolsKept say once what a step of a tool leaves to the      *)
(* restore in progress, and a step of a restore to the tools. The second   *)
(* part adds what an unasked restore relies on: which capture answers for  *)
(* a file, whose gate it was made under, and what a redo point has seen.   *)
(***************************************************************************)
EXTENDS CheckpointStore, FiniteSetTheorems, WellFoundedInduction, TLAPS

AllTurns   == 1..(MaxTurns + MaxRestores)
Bounds     == {"writes", "edits", "faults", "crashes", "restores"}
OpPhases   == {"idle", "capturing", "revoking", "ready", "wrote", "posting"}
Ops        == [phase : OpPhases, path : Paths \cup {None}, ref : Nat]
JobPhases  == {"none", "redo", "started", "pointed", "applying", "closing"}
StartRecords ==
  [type : {"start"}, id : 1..MaxRestores, target : AllTurns,
   redo : 0..(MaxTurns + MaxRestores), skip : BOOLEAN, files : Partial]
AllRecords == Records \cup StartRecords

(* Types: the journal, the tools, the restores.                            *)
StoreTypes ==
  /\ records \in Seq(AllRecords) /\ durable \in 0..Len(records)
  /\ spent \in [Bounds -> Nat] /\ spent["restores"] <= MaxRestores
  /\ pointer \in BOOLEAN
ToolTypes ==
  /\ disk \in [Paths -> Contents]
  /\ proc \in {"up", "down", "recovering"}
  /\ turn \in 0..MaxTurns /\ running \in BOOLEAN /\ (running => turn >= 1)
  /\ op \in [Writers -> Ops]
  /\ gate \in [Workers -> BOOLEAN] /\ pending \in [Workers -> SUBSET Nat]
RestoreTypes ==
  /\ plan \in [phase : {"none", "asking", "chosen"}, target : 0..(MaxTurns + MaxRestores),
               files : Partial, diverged : SUBSET Paths, skip : BOOLEAN]
  /\ job \in [phase : JobPhases, id : 0..MaxRestores, ref : Nat, left : SUBSET Paths,
              skipped : SUBSET Paths, logging : Paths \cup {None}]

(* The journal: a restore is started once, under an id that was not used   *)
(* before; what it restores is a turn, or the redo point of an earlier     *)
(* one; and what is done was started.                                      *)
Starts == Seqs("start")
JournalInv ==
  /\ \A i, j \in Starts : records[i].id = records[j].id => i = j
  /\ \A i \in Starts :
       /\ records[i].id <= spent["restores"]
       /\ records[i].redo = IF records[i].target \in UserTurns
                              THEN RedoTurn(records[i].id) ELSE NoTurn
       /\ records[i].target \notin UserTurns =>
            \E j \in Starts : j < i /\ records[j].redo = records[i].target
  /\ \A d \in Seqs("done") : \E i \in Starts :
       /\ i < d /\ records[i].id = records[d].id
       /\ records[i].redo = records[d].redo

(* The tools: what a capture recorded stays true until its write, and is   *)
(* in the file before that.                                                *)
IsCapture(r, p) == r \in Seqs("pre") /\ records[r].path = p
OpOK(o) ==
  /\ o.phase = "idle" => o = NoOp
  /\ o.path = None => o.phase = "idle"
  /\ o.phase = "capturing" => IsCapture(o.ref, o.path)
  /\ o.phase \in {"ready", "wrote"} /\ o.ref # 0 =>
       IsCapture(o.ref, o.path) /\ o.ref <= durable
  /\ o.phase \in {"capturing", "ready"} /\ o.ref # 0 =>
       records[o.ref].was = disk[o.path]
  /\ o.phase \in {"revoking", "posting"} => o.ref \in DOMAIN records
OpInv ==
  /\ \A w \in Writers : OpOK(op[w])
  /\ \A w \in Workers : pending[w] \subseteq Seqs("pre")

(* Nobody shares a path: no two tools, and no tool and the restore that    *)
(* has its locks.                                                          *)
LockInv ==
  /\ \A v, w \in Writers : op[v].path = op[w].path /\ v # w => op[v].path = None
  /\ job.phase = "applying" =>
       \A w \in Writers : op[w].path \notin DOMAIN JobStart.files

(* The restores: what a plan restores exists, and a job applies the plan   *)
(* it logged under its id.                                                 *)
PlanInv ==
  plan.phase # "none" => /\ plan.target # NoTurn /\ IsFiniteSet(DOMAIN plan.files)
                         /\ \/ plan.target \in UserTurns
                            \/ \E j \in Starts : records[j].redo = plan.target
JobInv ==
  /\ job.phase = "none" => job = NoJob
  /\ job.phase # "none" => job.id # 0
  /\ job.phase = "redo" =>
       /\ plan.phase = "chosen" /\ job.left = {}
       /\ \A i \in Starts : records[i].id # job.id
  /\ job.phase \in {"redo", "started"} =>
       job.id = spent["restores"] /\ job.id \notin named
  /\ job.phase \in {"started", "pointed", "applying", "closing"} =>
       /\ \E i \in Starts : records[i].id = job.id
       /\ job.left \subseteq DOMAIN JobStart.files
  /\ job.logging # None =>
       job.phase = "applying" /\ job.logging \in DOMAIN JobStart.files
  /\ job.ref <= Len(records)

(* At most one restore is not done in the journal file: the one in         *)
(* progress, or the one a crash interrupted.  Once it was named, the       *)
(* pointer is there.                                                       *)
Undone == {i \in Starts : \A d \in Seqs("done") :
                            records[d].id = records[i].id => d > durable}
DoneInv ==
  /\ job.phase # "none" => \A i \in Undone : records[i].id = job.id
  /\ \A i, j \in Undone : i = j
  /\ job.phase = "closing" =>
       job.ref \in Seqs("done") /\ records[job.ref].id = job.id
  /\ \A d \in Seqs("done") : d > durable => job.phase = "closing" /\ d = job.ref
  /\ named \subseteq 1..spent["restores"]
  /\ \A i \in Undone : records[i].id \in named => pointer

IInv ==
  /\ StoreTypes /\ ToolTypes /\ RestoreTypes /\ JournalInv /\ OpInv /\ LockInv
  /\ PlanInv /\ JobInv /\ DoneInv /\ WrittenIsUndoable

USE NamesAssumption, BoundsAssumption

----------------------------------------------------------------------------
(* Records.                                                                *)

(* A record is what its type says.                                         *)
LEMMA RecordShape ==
  ASSUME NEW r \in AllRecords
  PROVE  /\ r.type = "pre" => r \in [type : {"pre"}, turn : AllTurns, path : Paths, was : Contents]
         /\ r.type = "post" => r \in [type : {"post"}, path : Paths, now : Contents]
         /\ r.type = "revoke" => r \in [type : {"revoke"}, ref : Nat \ {0}]
         /\ r.type = "finalize" => r \in [type : {"finalize"}, turn : AllTurns]
         /\ r.type = "file" => r \in [type : {"file"}, id : 1..MaxRestores, path : Paths]
         /\ r.type = "done" => r \in [type : {"done"}, id : 1..MaxRestores, redo : 0..(MaxTurns + MaxRestores)]
         /\ r.type = "start" => r \in StartRecords
BY DEF AllRecords, Records, AllTurns, StartRecords

LEMMA StartShape ==
  ASSUME NEW r \in AllRecords, r.type = "start"
  PROVE  /\ r.id \in 1..MaxRestores /\ r.target \in AllTurns /\ r.skip \in BOOLEAN
         /\ r.redo \in 0..(MaxTurns + MaxRestores) /\ r.files \in Partial
BY RecordShape DEF StartRecords

LEMMA PartialIs ==
  ASSUME NEW f \in Partial
  PROVE  f \in [DOMAIN f -> Contents] /\ DOMAIN f \subseteq Paths
BY DEF Partial

(* What each action adds to the journal is a record.                       *)
LEMMA RecordMade ==
  /\ \A t \in AllTurns, p \in Paths, c \in Contents : Pre(t, p, c) \in AllRecords
  /\ \A p \in Paths, c \in Contents : Post(p, c) \in AllRecords
  /\ \A r \in Nat \ {0} : Revoke(r) \in AllRecords
  /\ \A t \in AllTurns : Finalize(t) \in AllRecords
  /\ \A id \in 1..MaxRestores, p \in Paths : FileDone(id, p) \in AllRecords
  /\ \A id \in 1..MaxRestores, redo \in 0..(MaxTurns + MaxRestores) :
       Done(id, redo) \in AllRecords
  /\ \A id \in 1..MaxRestores, target \in AllTurns, redo \in 0..(MaxTurns + MaxRestores),
        skip \in BOOLEAN, files \in Partial :
       Start(id, target, redo, skip, files) \in AllRecords
BY DEF AllRecords, Records, AllTurns, StartRecords, Pre, Post, Revoke, Finalize, FileDone,
       Done, Start

(* The journal in memory only grows, except when the process dies.         *)
Keeps == /\ Len(records) <= Len(records')
         /\ \A i \in DOMAIN records : i \in DOMAIN records' /\ records'[i] = records[i]
Quiet == /\ Keeps
         /\ \A i \in DOMAIN records' \ DOMAIN records :
              records'[i].type \notin {"start", "done"}

LEMMA LogKeeps ==
  ASSUME records \in Seq(AllRecords), NEW rs \in Seq(AllRecords), Log(rs)
  PROVE  /\ records' \in Seq(AllRecords) /\ Len(records') = Len(records) + Len(rs) /\ Keeps
         /\ \A i \in DOMAIN records' \ DOMAIN records :
              i - Len(records) \in DOMAIN rs /\ records'[i] = rs[i - Len(records)]
         /\ \A k \in DOMAIN rs : Len(records) + k \in DOMAIN records'
                                 /\ records'[Len(records) + k] = rs[k]
BY DEF Log, Keeps

LEMMA LogQuiet ==
  ASSUME records \in Seq(AllRecords), NEW rs \in Seq(AllRecords), Log(rs),
         \A k \in DOMAIN rs : rs[k].type \notin {"start", "done"}
  PROVE  Quiet
BY LogKeeps DEF Quiet

LEMMA LogOne ==
  ASSUME records \in Seq(AllRecords), NEW r \in AllRecords, Log(<<r>>)
  PROVE  /\ records' \in Seq(AllRecords) /\ Len(records') = NextSeq /\ Keeps
         /\ NextSeq \in DOMAIN records' /\ records'[NextSeq] = r
         /\ DOMAIN records' = DOMAIN records \cup {NextSeq} /\ NextSeq \notin DOMAIN records
         /\ r.type \notin {"start", "done"} => Quiet
<1>1. <<r>> \in Seq(AllRecords) /\ DOMAIN <<r>> = {1} /\ <<r>>[1] = r /\ Len(<<r>>) = 1
  OBVIOUS
<1>2. Len(records) \in Nat /\ DOMAIN records = 1..Len(records)
  OBVIOUS
<1>3. /\ records' \in Seq(AllRecords) /\ Len(records') = Len(records) + 1 /\ Keeps
      /\ Len(records) + 1 \in DOMAIN records' /\ records'[Len(records) + 1] = r
  BY <1>1, <1>2, LogKeeps
<1>4. DOMAIN records' = 1..(Len(records) + 1)
  BY <1>3
<1>5. DOMAIN records' = DOMAIN records \cup {NextSeq} /\ NextSeq \notin DOMAIN records
  BY <1>2, <1>4 DEF NextSeq
<1>6. r.type \notin {"start", "done"} => Quiet
  BY <1>3, <1>5 DEF Quiet, NextSeq
<1> QED
  BY <1>3, <1>5, <1>6 DEF NextSeq

LEMMA UnchangedQuiet ==
  records \in Seq(AllRecords) /\ UNCHANGED records => Quiet
BY DEF Quiet, Keeps

(* Which a tool adds nothing to: the starts and the dones.                 *)
LEMMA QuietStarts ==
  ASSUME records \in Seq(AllRecords), records' \in Seq(AllRecords), Quiet
  PROVE  /\ Starts' = Starts /\ Seqs("done")' = Seqs("done")
         /\ \A i \in Starts \cup Seqs("done") : records'[i] = records[i]
BY DEF Quiet, Keeps, Starts, Seqs

LEMMA StartOfIs ==
  ASSUME JournalInv, NEW i \in Starts PROVE StartOf(records[i].id) = i
BY DEF StartOf, JournalInv, Starts

LEMMA StartOfIsNext ==
  ASSUME JournalInv', NEW i \in Starts', NEW id, records'[i].id = id
  PROVE  StartOf(id)' = i
BY DEF StartOf, JournalInv, Starts

LEMMA JournalQuiet ==
  ASSUME StoreTypes, StoreTypes', JournalInv, Quiet, spent["restores"] <= spent'["restores"]
  PROVE  JournalInv'
<1>1. /\ Starts' = Starts /\ Seqs("done")' = Seqs("done")
      /\ \A i \in Starts \cup Seqs("done") : records'[i] = records[i]
  BY QuietStarts DEF StoreTypes
<1>2. \A i \in Starts : records[i].id \in Nat
  BY StartShape DEF StoreTypes, Starts, Seqs
<1>3. spent["restores"] \in Nat /\ spent'["restores"] \in Nat
  BY DEF StoreTypes, Bounds
<1> QED
  BY <1>1, <1>2, <1>3 DEF JournalInv, RedoTurn

(* The plan in progress is the one record of its id.                       *)
LEMMA JobStartIs ==
  ASSUME StoreTypes, JournalInv, NEW i \in Starts, records[i].id = job.id
  PROVE  /\ JobStart = records[i] /\ StartOf(job.id) = i
         /\ JobStart.files \in Partial /\ JobStart.redo \in 0..(MaxTurns + MaxRestores)
         /\ DOMAIN JobStart.files \subseteq Paths
         /\ \A p \in DOMAIN JobStart.files : JobStart.files[p] \in Contents
<1>1. JobStart = records[i] /\ StartOf(job.id) = i
  BY StartOfIs DEF JobStart
<1>2. records[i] \in AllRecords /\ records[i].type = "start"
  BY DEF StoreTypes, Starts, Seqs
<1>3. JobStart.files \in Partial /\ JobStart.redo \in 0..(MaxTurns + MaxRestores)
  BY <1>1, <1>2, StartShape
<1> QED
  BY <1>1, <1>3, PartialIs

LEMMA JobStartSame ==
  ASSUME StoreTypes, StoreTypes', JournalInv, JournalInv', Keeps, job'.id = job.id,
         \E i \in Starts : records[i].id = job.id
  PROVE  JobStart' = JobStart
<1>1. PICK i \in Starts : records[i].id = job.id
  OBVIOUS
<1>2. i \in Starts' /\ records'[i] = records[i]
  BY <1>1 DEF Starts, Seqs, Keeps, StoreTypes
<1>3. StartOf(job.id)' = i /\ StartOf(job.id) = i
  <2>1. \A id : records'[i].id = id => StartOf(id)' = i
    BY <1>2, StartOfIsNext
  <2>2. \A k \in Starts' : records'[k].id = job'.id => k = i
    BY <1>1, <1>2 DEF JournalInv
  <2> QED
    BY <1>1, <1>2, <2>2, StartOfIs DEF StartOf, Starts
<1> QED
  BY <1>2, <1>3 DEF JobStart

(* A tool's step leaves the restore in progress alone.                     *)
LEMMA JobKept ==
  ASSUME IInv, StoreTypes', Quiet, durable <= durable',
         spent'["restores"] = spent["restores"], UNCHANGED <<jobVars, named>>
  PROVE  JournalInv' /\ PlanInv' /\ JobInv' /\ DoneInv' /\ RestoreTypes'
<1> USE DEF IInv
<1>1. UNCHANGED <<plan, job, pointer, named>>
  BY DEF jobVars
<1>2. /\ Starts' = Starts /\ Seqs("done")' = Seqs("done") /\ Keeps
      /\ \A i \in Starts \cup Seqs("done") : records'[i] = records[i]
  BY QuietStarts DEF StoreTypes, Quiet
<1>3. JournalInv'
  <2>1. spent["restores"] \in Nat
    BY DEF StoreTypes, Bounds
  <2> QED
    BY <2>1, JournalQuiet
<1>4. RestoreTypes'
  BY <1>1 DEF RestoreTypes
<1>5. PlanInv'
  BY <1>1, <1>2 DEF PlanInv
<1>6. JobInv'
  <2>1. job.phase \in {"started", "pointed", "applying", "closing"} => JobStart' = JobStart
    BY <1>1, <1>2, <1>3, JobStartSame DEF JobInv
  <2>2. job.ref <= Len(records')
    BY DEF JobInv, Quiet, Keeps, StoreTypes, RestoreTypes
  <2> QED
    BY <1>1, <1>2, <2>1, <2>2 DEF JobInv
<1>7. DoneInv'
  <2>1. Undone' \subseteq Undone
    <3>1. \A d \in Seqs("done") : d \in Nat /\ (d > durable' => d > durable)
      BY DEF Seqs, StoreTypes
    <3> QED
      BY <1>2, <3>1 DEF Undone
  <2>2. \A d \in Seqs("done") : d > durable' => d > durable
    BY DEF Seqs, StoreTypes
  <2>3. \A i \in Undone' : records'[i] = records[i]
    BY <1>2 DEF Undone
  <2> QED
    BY <1>1, <1>2, <2>1, <2>2, <2>3 DEF DoneInv
<1> QED
  BY <1>3, <1>4, <1>5, <1>6, <1>7

(* What a tool holds stays true while its path is left alone.              *)
LEMMA OpKept ==
  ASSUME IInv, StoreTypes', Keeps, durable <= durable', NEW o \in Ops, OpOK(o),
         o.path # None => disk'[o.path] = disk[o.path]
  PROVE  OpOK(o)'
<1>1. /\ \A i \in DOMAIN records : i \in DOMAIN records' /\ records'[i] = records[i]
      /\ \A i \in Seqs("pre") : i \in Seqs("pre")'
  BY DEF Keeps, Seqs
<1>2. durable \in Nat /\ durable' \in Nat /\ o.ref \in Nat
  BY DEF IInv, StoreTypes, Ops
<1>3. IsCapture(o.ref, o.path) => IsCapture(o.ref, o.path)' /\ records'[o.ref] = records[o.ref]
  BY <1>1 DEF IsCapture, Seqs
<1> QED
  BY <1>1, <1>2, <1>3 DEF OpOK

LEMMA UndoableKept ==
  ASSUME StoreTypes, StoreTypes', Keeps, durable <= durable', WrittenIsUndoable,
         undoable' \subseteq undoable
  PROVE  WrittenIsUndoable'
<1>1. \A i \in DOMAIN records : i \in DOMAIN records' /\ records'[i] = records[i]
  BY DEF Keeps
<1>2. 1..durable \subseteq 1..durable' /\ 1..durable \subseteq DOMAIN records
  BY DEF StoreTypes
<1> QED
  BY <1>1, <1>2 DEF WrittenIsUndoable, Pre

(* Steps that are no tool's leave the tools alone: none of them writes a   *)
(* file that a tool has locked.                                            *)
LEMMA ToolsKept ==
  ASSUME IInv, StoreTypes', Keeps, durable <= durable', UNCHANGED op,
         undoable' \subseteq undoable, \A w \in Workers : pending'[w] \subseteq pending[w],
         \A w \in Writers : op[w].path # None => disk'[op[w].path] = disk[op[w].path]
  PROVE  OpInv' /\ WrittenIsUndoable'
<1> USE DEF IInv
<1>1. \A i \in Seqs("pre") : i \in Seqs("pre")'
  BY DEF Keeps, Seqs
<1>2. OpInv'
  <2>1. \A w \in Writers : op[w] \in Ops /\ OpOK(op[w])
    BY DEF ToolTypes, OpInv
  <2>2. \A w \in Writers : OpOK(op[w])'
    <3> SUFFICES ASSUME NEW w \in Writers PROVE OpOK(op[w])'
      OBVIOUS
    <3>1. PICK o \in Ops : o = op[w]
      BY <2>1
    <3>2. OpOK(o)'
      BY <2>1, <3>1, OpKept
    <3> QED
      BY <3>1, <3>2
  <2>3. \A w \in Workers : pending'[w] \subseteq Seqs("pre")'
    BY <1>1 DEF OpInv
  <2> QED
    BY <2>2, <2>3 DEF OpInv
<1>3. WrittenIsUndoable'
  BY UndoableKept
<1> QED
  BY <1>2, <1>3

LEMMA LocksKept ==
  ASSUME IInv, StoreTypes', JournalInv', Keeps, UNCHANGED op,
         job'.id = job.id, job'.phase = "applying" => job.phase = "applying"
  PROVE  LockInv'
<1>1. job.phase = "applying" => JobStart' = JobStart
  BY JobStartSame DEF IInv, JobInv
<1> QED
  BY <1>1 DEF IInv, LockInv

(* Steps around the tools: turns, hand edits, lines that reach the file.   *)
LEMMA OuterStep ==
  ASSUME IInv, StoreTypes', ToolTypes', Quiet, durable <= durable',
         spent'["restores"] = spent["restores"],
         UNCHANGED <<op, jobVars, named>>, undoable' \subseteq undoable,
         \A w \in Workers : pending'[w] \subseteq pending[w],
         \A p \in Paths : disk'[p] # disk[p] => ~Locked(p)
  PROVE  IInv'
<1>1. JournalInv' /\ PlanInv' /\ JobInv' /\ DoneInv' /\ RestoreTypes' /\ Keeps
  BY JobKept DEF Quiet
<1>2. \A w \in Writers : op[w].path # None => disk'[op[w].path] = disk[op[w].path]
  <2>1. \A w \in Writers : op[w].path \in Paths \cup {None}
    BY DEF IInv, ToolTypes, Ops
  <2> QED
    BY <2>1 DEF Locked
<1>3. OpInv' /\ WrittenIsUndoable'
  BY <1>1, <1>2, ToolsKept
<1>4. LockInv'
  BY <1>1, LocksKept DEF jobVars
<1> QED
  BY <1>1, <1>3, <1>4 DEF IInv

(* One tool's step: the others keep what they hold, and a path it takes is *)
(* nobody else's.                                                          *)
LEMMA OneTool ==
  ASSUME IInv, StoreTypes', ToolTypes', JournalInv', Keeps, durable <= durable',
         UNCHANGED jobVars, NEW w \in Writers, NEW o \in Ops, op' = [op EXCEPT ![w] = o],
         OpOK(o)', \A v \in Workers : pending'[v] \subseteq Seqs("pre")',
         \A p \in Paths : disk'[p] # disk[p] => p = op[w].path,
         o.path \in {op[w].path, None} \/ ~Locked(o.path)
  PROVE  OpInv' /\ LockInv'
<1> USE DEF IInv
<1>1. /\ UNCHANGED <<job, plan>> /\ op \in [Writers -> Ops]
      /\ \A v \in Writers : op'[v] = IF v = w THEN o ELSE op[v]
  BY DEF jobVars, ToolTypes
<1>2. \A v \in Writers : OpOK(op[v])'
  <2> SUFFICES ASSUME NEW v \in Writers PROVE OpOK(op[v])'
    OBVIOUS
  <2>1. CASE v = w
    BY <1>1, <2>1
  <2>2. CASE v # w
    <3>1. PICK u \in Ops : u = op[v]
      BY <1>1
    <3>2. u.path # None => disk'[u.path] = disk[u.path]
      <4>1. u.path # None => u.path \in Paths
        BY DEF Ops
      <4>2. u.path = op[w].path => u.path = None
        BY <2>2, <3>1 DEF LockInv
      <4> QED
        BY <4>1, <4>2
    <3>3. OpOK(u)'
      BY <3>1, <3>2, OpKept DEF OpInv
    <3> QED
      BY <1>1, <2>2, <3>1, <3>3
  <2> QED
    BY <2>1, <2>2
<1>3. LockInv'
  <2>1. job.phase = "applying" => JobStart' = JobStart /\ DOMAIN JobStart.files \subseteq Paths
    BY <1>1, JobStartSame, JobStartIs DEF JobInv
  <2>2. ~Locked(o.path) => /\ \A v \in Writers : op[v].path # o.path
                           /\ job.phase = "applying" => o.path \notin DOMAIN JobStart.files
    BY DEF Locked
  <2> QED
    BY <1>1, <2>1, <2>2 DEF LockInv
<1> QED
  BY <1>2, <1>3 DEF OpInv

(* The step of one tool.                                                   *)
LEMMA ToolStep ==
  ASSUME IInv, StoreTypes', ToolTypes', Quiet, durable' = durable,
         spent'["restores"] = spent["restores"], UNCHANGED <<jobVars, named>>,
         NEW w \in Writers, NEW o \in Ops, op' = [op EXCEPT ![w] = o], OpOK(o)',
         \A v \in Workers : pending'[v] \subseteq Seqs("pre")',
         \A p \in Paths : disk'[p] # disk[p] => p = op[w].path,
         o.path \in {op[w].path, None} \/ ~Locked(o.path), WrittenIsUndoable'
  PROVE  IInv'
<1>1. durable <= durable' /\ Keeps
  BY DEF IInv, StoreTypes, Quiet
<1>2. JournalInv' /\ PlanInv' /\ JobInv' /\ DoneInv' /\ RestoreTypes'
  BY <1>1, JobKept
<1>3. OpInv' /\ LockInv'
  BY <1>1, <1>2, OneTool
<1> QED
  BY <1>2, <1>3 DEF IInv

LEMMA SpendOne ==
  ASSUME StoreTypes, NEW what \in Bounds \ {"restores"}, NEW most, Spend(what, most)
  PROVE  spent' \in [Bounds -> Nat] /\ spent'["restores"] = spent["restores"]
BY DEF StoreTypes, Spend, Bounds

LEMMA StoreKept ==
  ASSUME StoreTypes, records' \in Seq(AllRecords), Keeps, durable' = durable,
         pointer' \in BOOLEAN, spent' \in [Bounds -> Nat],
         spent'["restores"] <= MaxRestores
  PROVE  StoreTypes'
BY DEF StoreTypes, Keeps

----------------------------------------------------------------------------
(* Turns, and what happens around them.                                    *)

LEMMA TurnStep ==
  ASSUME IInv, BeginTurn \/ EndTurn
  PROVE  IInv'
<1> USE DEF IInv
<1>1. CASE BeginTurn
  <2>1. ToolTypes'
    BY <1>1 DEF BeginTurn, ToolTypes, opVars
  <2>2. UNCHANGED <<records, durable, spent, pointer, disk>> /\ Quiet
    BY <1>1, UnchangedQuiet DEF BeginTurn, jobVars, StoreTypes
  <2>3. StoreTypes' /\ durable <= durable'
    BY <2>2 DEF StoreTypes
  <2> QED
    BY <1>1, <2>1, <2>2, <2>3, OuterStep DEF BeginTurn, opVars
<1>2. CASE EndTurn
  <2>1. ToolTypes'
    BY <1>2 DEF EndTurn, ToolTypes, opVars
  <2>2. records' \in Seq(AllRecords) /\ Quiet
    <3>1. CASE Log(<<Finalize(turn)>>)
      <4>1. turn \in AllTurns
        BY <1>2 DEF EndTurn, ToolTypes, AllTurns
      <4>2. Finalize(turn) \in AllRecords /\ Finalize(turn).type = "finalize"
        BY <4>1, RecordMade DEF Finalize
      <4> QED
        BY <3>1, <4>2, LogOne DEF StoreTypes
    <3>2. CASE UNCHANGED records
      BY <3>2, UnchangedQuiet DEF StoreTypes
    <3> QED
      BY <1>2, <3>1, <3>2 DEF EndTurn
  <2>3. UNCHANGED <<durable, spent, pointer, disk>>
    BY <1>2 DEF EndTurn, jobVars
  <2>4. StoreTypes' /\ durable <= durable'
    BY <2>2, <2>3, StoreKept DEF StoreTypes, Quiet
  <2>5. UNCHANGED <<opVars, jobVars, named, undoable>>
    BY <1>2 DEF EndTurn, ghostVars
  <2> QED
    BY <2>1, <2>2, <2>3, <2>4, <2>5, OuterStep DEF opVars
<1> QED
  BY <1>1, <1>2

LEMMA PersistStep == ASSUME IInv, Persist PROVE IInv'
<1> USE DEF IInv, Persist
<1>1. Quiet /\ StoreTypes' /\ durable <= durable'
  BY UnchangedQuiet DEF StoreTypes, jobVars
<1>2. ToolTypes' /\ UNCHANGED <<spent, disk, opVars, jobVars, named, undoable>>
  BY DEF ToolTypes, opVars, procVars, ghostVars
<1> QED
  BY <1>1, <1>2, OuterStep DEF opVars

LEMMA HandEditStep == ASSUME IInv, NEW p \in Paths, HandEdit(p) PROVE IInv'
<1> USE DEF IInv
<1>1. PICK c \in Contents : disk' = [disk EXCEPT ![p] = c]
  BY DEF HandEdit
<1>2. /\ UNCHANGED <<records, durable, procVars, opVars, jobVars, named, undoable>>
      /\ ~Locked(p) /\ Spend("edits", MaxEdits)
  BY DEF HandEdit
<1>3. spent' \in [Bounds -> Nat] /\ spent'["restores"] = spent["restores"]
  BY <1>2, SpendOne DEF Bounds
<1>4. Quiet /\ StoreTypes' /\ durable <= durable'
  BY <1>2, <1>3, UnchangedQuiet DEF StoreTypes, jobVars
<1>5. ToolTypes' /\ \A q \in Paths : disk'[q] # disk[q] => q = p
  BY <1>1, <1>2 DEF ToolTypes, procVars, opVars
<1> QED
  BY <1>2, <1>3, <1>4, <1>5, OuterStep DEF opVars

----------------------------------------------------------------------------
(* A file tool.                                                            *)

LEMMA CaptureStep ==
  ASSUME IInv, NEW w \in Writers, NEW p \in Paths, Capture(w, p)
  PROVE  IInv'
<1> USE DEF IInv
<1>1. /\ op[w] = NoOp /\ ~Locked(p) /\ Spend("writes", MaxWrites)
      /\ UNCHANGED <<disk, durable, procVars, gate, pending, jobVars, ghostVars>>
  BY DEF Capture
<1>2. /\ UNCHANGED <<disk, durable, proc, turn, running, gate, pending, pointer, named, undoable>>
      /\ op[w].path = None /\ p # None
  BY <1>1 DEF procVars, jobVars, ghostVars, NoOp
<1>3. spent' \in [Bounds -> Nat] /\ spent'["restores"] = spent["restores"]
  BY <1>1, SpendOne DEF Bounds
<1>4. PICK o \in Ops :
        /\ op' = [op EXCEPT ![w] = o] /\ o.path = p
        /\ \/ /\ MayJournal(w) /\ o.phase = "capturing" /\ o.ref = NextSeq
              /\ Log(<<Pre(turn, p, disk[p])>>)
           \/ o.phase = "ready" /\ o.ref = 0 /\ UNCHANGED records
  <2>1. NextSeq \in Nat
    BY DEF NextSeq, StoreTypes
  <2>2. [phase |-> "capturing", path |-> p, ref |-> NextSeq] \in Ops
        /\ [phase |-> "ready", path |-> p, ref |-> 0] \in Ops
    BY <2>1 DEF Ops, OpPhases
  <2>3. CASE MayJournal(w)
    <3>1. PICK o : o = [phase |-> "capturing", path |-> p, ref |-> NextSeq]
      OBVIOUS
    <3> QED
      BY <2>2, <2>3, <3>1 DEF Capture
  <2>4. CASE ~MayJournal(w)
    <3>1. PICK o : o = [phase |-> "ready", path |-> p, ref |-> 0]
      OBVIOUS
    <3> QED
      BY <2>2, <2>4, <3>1 DEF Capture
  <2> QED
    BY <2>3, <2>4
<1>5. /\ records' \in Seq(AllRecords) /\ Quiet /\ Keeps
      /\ o.phase = "capturing" =>
           /\ o.ref \in DOMAIN records' /\ records'[o.ref].type = "pre"
           /\ records'[o.ref].path = p /\ records'[o.ref].was = disk[p]
  <2>1. CASE MayJournal(w) /\ o.phase = "capturing"
    <3>1. turn \in AllTurns /\ disk[p] \in Contents
      BY <2>1 DEF Capture, MayJournal, ToolTypes, AllTurns, Writers
    <3>2. PICK r : r = Pre(turn, p, disk[p])
      OBVIOUS
    <3>3. r \in AllRecords /\ r.type = "pre" /\ r.path = p /\ r.was = disk[p]
      BY <3>1, <3>2, RecordMade DEF Pre
    <3>4. Log(<<r>>)
      BY <1>4, <2>1, <3>2
    <3> QED
      BY <1>4, <2>1, <3>3, <3>4, LogOne DEF StoreTypes
  <2>2. CASE o.phase = "ready" /\ UNCHANGED records
    BY <2>2, UnchangedQuiet DEF StoreTypes, Quiet
  <2> QED
    BY <1>4, <2>1, <2>2
<1>6. StoreTypes'
  BY <1>2, <1>3, <1>5, StoreKept DEF StoreTypes
<1>7. ToolTypes'
  BY <1>2, <1>4 DEF ToolTypes
<1>8. OpOK(o)' /\ \A v \in Workers : pending'[v] \subseteq Seqs("pre")'
  <2>1. \A i \in Seqs("pre") : i \in Seqs("pre")'
    BY <1>5 DEF Keeps, Seqs
  <2>2. OpOK(o)'
    BY <1>2, <1>4, <1>5 DEF OpOK, IsCapture, Seqs
  <2> QED
    BY <1>2, <2>1, <2>2 DEF OpInv
<1>9. WrittenIsUndoable'
  BY <1>2, <1>5, <1>6, UndoableKept DEF StoreTypes
<1> QED
  BY <1>1, <1>2, <1>3, <1>4, <1>5, <1>6, <1>7, <1>8, <1>9, ToolStep

(* A tool goes on: its flush returned, its write threw, it is done.  The   *)
(* journal, the disk and the pending captures stay as they are.            *)
LEMMA SameJournalStep ==
  ASSUME IInv, NEW w \in Writers, NEW o \in Ops, op' = [op EXCEPT ![w] = o],
         spent' \in [Bounds -> Nat], spent'["restores"] = spent["restores"],
         UNCHANGED <<disk, records, durable, procVars, gate, pending, jobVars, named, undoable>>,
         OpOK(o), o.path \in {op[w].path, None}
  PROVE  IInv'
<1> USE DEF IInv
<1>1. UNCHANGED <<proc, turn, running, pointer>> /\ Quiet /\ Keeps
  BY UnchangedQuiet DEF procVars, jobVars, Quiet, StoreTypes
<1>2. StoreTypes' /\ ToolTypes'
  BY <1>1 DEF StoreTypes, ToolTypes
<1>3. OpOK(o)' /\ \A v \in Workers : pending'[v] \subseteq Seqs("pre")'
  <2>1. o.path # None => disk'[o.path] = disk[o.path]
    OBVIOUS
  <2>2. durable <= durable'
    BY DEF StoreTypes
  <2>3. \A i \in Seqs("pre") : i \in Seqs("pre")'
    BY <1>1 DEF Keeps, Seqs
  <2> QED
    BY <1>1, <1>2, <2>1, <2>2, <2>3, OpKept DEF OpInv
<1>4. WrittenIsUndoable'
  BY <1>1, <1>2, UndoableKept DEF StoreTypes
<1> QED
  BY <1>1, <1>2, <1>3, <1>4, ToolStep

LEMMA RestStep ==
  ASSUME IInv, NEW w \in Writers, RevokeFlushed(w) \/ PostFlushed(w) \/ ToolFails(w)
  PROVE  IInv'
<1> USE DEF IInv
<1>1. /\ UNCHANGED <<disk, records, durable, procVars, gate, pending, jobVars, named, undoable>>
      /\ spent' \in [Bounds -> Nat] /\ spent'["restores"] = spent["restores"]
  <2>1. CASE ToolFails(w)
    BY <2>1, SpendOne DEF ToolFails, Bounds
  <2>2. CASE RevokeFlushed(w) \/ PostFlushed(w)
    BY <2>2 DEF RevokeFlushed, PostFlushed, ghostVars, StoreTypes
  <2> QED
    BY <2>1, <2>2
<1>2. \E o \in Ops : op' = [op EXCEPT ![w] = o] /\ OpOK(o) /\ o.path \in {op[w].path, None}
  <2>1. CASE op' = [op EXCEPT ![w] = NoOp]
    <3>1. NoOp \in Ops /\ OpOK(NoOp) /\ NoOp.path = None
      BY DEF Ops, OpPhases, NoOp, OpOK
    <3> QED
      BY <2>1, <3>1
  <2>2. CASE RevokeFlushed(w)
    <3>1. op[w] \in Ops /\ op[w].path # None
      BY <2>2 DEF RevokeFlushed, ToolTypes, OpInv, OpOK
    <3>2. PICK u \in Ops : u = op[w]
      BY <3>1
    <3>3. PICK o : o = [u EXCEPT !.phase = "ready", !.ref = 0]
      OBVIOUS
    <3>4. o \in Ops /\ o.phase = "ready" /\ o.ref = 0 /\ o.path = u.path
      BY <3>3 DEF Ops, OpPhases
    <3>5. OpOK(o)
      BY <3>1, <3>2, <3>4 DEF OpOK
    <3>6. op' = [op EXCEPT ![w] = o]
      BY <2>2, <3>2, <3>3 DEF RevokeFlushed
    <3> QED
      BY <3>2, <3>4, <3>5, <3>6
  <2> QED
    BY <2>1, <2>2 DEF PostFlushed, ToolFails
<1> QED
  BY <1>1, <1>2, SameJournalStep

LEMMA CommitStep == ASSUME IInv, NEW w \in Writers, CaptureFlushed(w) PROVE IInv'
<1> USE DEF IInv
<1>1. /\ op[w].phase = "capturing" /\ durable >= op[w].ref
      /\ UNCHANGED <<disk, durable, procVars, gate, jobVars, spent, ghostVars>>
  BY DEF CaptureFlushed, Commit
<1>2. UNCHANGED <<disk, durable, proc, turn, running, gate, pointer, spent, named, undoable>>
  BY <1>1 DEF procVars, jobVars, ghostVars
<1>3. PICK u \in Ops : u = op[w] /\ OpOK(u)
  BY DEF ToolTypes, OpInv
<1>4. /\ u.phase = "capturing" /\ IsCapture(u.ref, u.path) /\ u.ref # 0
      /\ records[u.ref].was = disk[u.path] /\ u.ref \in Nat
  BY <1>1, <1>3 DEF OpOK, IsCapture, Seqs, StoreTypes
<1>5. CASE MayJournal(w)
  <2>1. PICK o : o = [u EXCEPT !.phase = "ready"]
    OBVIOUS
  <2>2. o \in Ops /\ o.phase = "ready" /\ o.ref = u.ref /\ o.path = u.path
    BY <2>1 DEF Ops, OpPhases
  <2>3. op' = [op EXCEPT ![w] = o] /\ UNCHANGED records
    BY <1>3, <1>5, <2>1 DEF CaptureFlushed, Commit
  <2>4. Quiet /\ Keeps /\ StoreTypes'
    BY <1>2, <2>3, UnchangedQuiet DEF StoreTypes, Quiet
  <2>5. OpOK(o)'
    BY <1>1, <1>2, <1>3, <1>4, <2>2, <2>3 DEF OpOK, IsCapture, Seqs, StoreTypes
  <2>6. /\ pending' \in [Workers -> SUBSET Nat]
        /\ \A v \in Workers : pending'[v] \subseteq Seqs("pre")'
    <3>1. u.ref \in Seqs("pre") /\ Seqs("pre")' = Seqs("pre")
      BY <1>4, <2>3 DEF IsCapture, Seqs
    <3> QED
      BY <1>3, <1>4, <1>5, <3>1 DEF CaptureFlushed, Commit, ToolTypes, OpInv
  <2>7. ToolTypes'
    BY <1>2, <2>2, <2>3, <2>6 DEF ToolTypes
  <2>8. WrittenIsUndoable'
    BY <1>2, <2>4, UndoableKept DEF StoreTypes
  <2> QED
    BY <1>1, <1>2, <1>3, <2>2, <2>3, <2>4, <2>5, <2>6, <2>7, <2>8, ToolStep
<1>6. CASE ~MayJournal(w)
  <2> DEFINE n == NextSeq
  <2>0. n \in Nat
    BY DEF NextSeq, StoreTypes
  <2>1. PICK o : o = [u EXCEPT !.phase = "revoking", !.ref = n]
    OBVIOUS
  <2> HIDE DEF n
  <2>2. o \in Ops /\ o.phase = "revoking" /\ o.ref = n /\ o.path = u.path
    BY <2>0, <2>1 DEF Ops, OpPhases
  <2>3. PICK r : r = Revoke(u.ref)
    OBVIOUS
  <2>4. r \in AllRecords /\ r.type = "revoke"
    BY <1>4, <2>3, RecordMade DEF Revoke
  <2>5. op' = [op EXCEPT ![w] = o] /\ Log(<<r>>) /\ UNCHANGED pending
    BY <1>3, <1>6, <2>1, <2>3 DEF CaptureFlushed, Commit, n
  <2>6. records' \in Seq(AllRecords) /\ Quiet /\ Keeps /\ n \in DOMAIN records'
    BY <2>4, <2>5, LogOne DEF StoreTypes, n
  <2>7. StoreTypes'
    BY <1>2, <2>6, StoreKept DEF StoreTypes
  <2>8. OpOK(o)'
    BY <1>3, <1>4, <2>2, <2>6 DEF OpOK, Ops
  <2>9. ToolTypes' /\ \A v \in Workers : pending'[v] \subseteq Seqs("pre")'
    <3>1. \A i \in Seqs("pre") : i \in Seqs("pre")'
      BY <2>6 DEF Keeps, Seqs
    <3> QED
      BY <1>2, <2>2, <2>5, <3>1 DEF ToolTypes, OpInv
  <2>10. WrittenIsUndoable'
    BY <1>2, <2>6, <2>7, UndoableKept DEF StoreTypes
  <2> QED
    BY <1>1, <1>2, <1>3, <2>2, <2>5, <2>6, <2>7, <2>8, <2>9, <2>10, ToolStep
<1> QED
  BY <1>5, <1>6

LEMMA WriteStep == ASSUME IInv, NEW w \in Writers, ToolWrite(w) PROVE IInv'
<1> USE DEF IInv
<1>1. /\ op[w].phase = "ready"
      /\ UNCHANGED <<records, durable, procVars, gate, pending, jobVars, spent, named>>
  BY DEF ToolWrite
<1>2. UNCHANGED <<records, durable, proc, turn, running, gate, pending, pointer, spent, named>>
  BY <1>1 DEF procVars, jobVars
<1>3. PICK u \in Ops : u = op[w] /\ OpOK(u)
  BY DEF ToolTypes, OpInv
<1>4. /\ u.phase = "ready" /\ u.path \in Paths
      /\ u.ref # 0 => /\ IsCapture(u.ref, u.path) /\ u.ref \in 1..durable
                      /\ records[u.ref].was = disk[u.path]
  BY <1>1, <1>3 DEF OpOK, Ops, StoreTypes
<1>5. PICK c \in Contents : disk' = [disk EXCEPT ![u.path] = c]
  BY <1>3 DEF ToolWrite
<1>6. PICK o : o = [u EXCEPT !.phase = "wrote"]
  OBVIOUS
<1>7. o \in Ops /\ o.phase = "wrote" /\ o.ref = u.ref /\ o.path = u.path
  BY <1>6 DEF Ops, OpPhases
<1>8. op' = [op EXCEPT ![w] = o]
  BY <1>3, <1>6 DEF ToolWrite
<1>9. Quiet /\ Keeps /\ StoreTypes'
  BY <1>2, UnchangedQuiet DEF StoreTypes, Quiet
<1>10. ToolTypes'
  BY <1>2, <1>5, <1>7, <1>8 DEF ToolTypes
<1>11. OpOK(o)' /\ \A v \in Workers : pending'[v] \subseteq Seqs("pre")'
  <2>1. Seqs("pre")' = Seqs("pre")
    BY <1>2 DEF Seqs
  <2>2. OpOK(o)'
    BY <1>2, <1>4, <1>7, <2>1 DEF OpOK, IsCapture, StoreTypes
  <2> QED
    BY <1>2, <2>1, <2>2 DEF OpInv
<1>12. WrittenIsUndoable'
  <2>1. CASE undoable' = undoable
    BY <1>2, <1>9, <2>1, UndoableKept DEF StoreTypes
  <2>2. CASE /\ u.ref # 0
             /\ undoable' = undoable \cup
                  {[ref |-> u.ref, turn |-> records[u.ref].turn,
                    path |-> u.path, was |-> disk[u.path]]}
    <3>1. records[u.ref] \in AllRecords /\ records[u.ref].type = "pre"
          /\ records[u.ref].path = u.path /\ records[u.ref].was = disk[u.path]
      BY <1>4, <2>2 DEF IsCapture, Seqs, StoreTypes
    <3>2. records[u.ref] \in [type : {"pre"}, turn : AllTurns, path : Paths, was : Contents]
      BY <3>1, RecordShape
    <3>3. records[u.ref] = Pre(records[u.ref].turn, u.path, disk[u.path])
      BY <3>1, <3>2 DEF Pre
    <3>4. ASSUME NEW x \in undoable' PROVE /\ x.ref \in 1..durable
                                           /\ records[x.ref] = Pre(x.turn, x.path, x.was)
      BY <1>4, <2>2, <3>3 DEF WrittenIsUndoable
    <3> QED
      BY <1>2, <3>4 DEF WrittenIsUndoable, Pre
  <2> QED
    BY <1>3, <2>1, <2>2 DEF ToolWrite, Captured
<1>13. \A p \in Paths : disk'[p] # disk[p] => p = op[w].path
  BY <1>3, <1>5 DEF ToolTypes
<1> QED
  BY <1>2, <1>1, <1>3, <1>7, <1>8, <1>9, <1>10, <1>11, <1>12, <1>13, ToolStep

LEMMA PostStep == ASSUME IInv, NEW w \in Writers, PostImage(w) PROVE IInv'
<1> USE DEF IInv
<1>1. /\ op[w].phase = "wrote"
      /\ UNCHANGED <<disk, durable, procVars, gate, jobVars, spent, ghostVars>>
      /\ pending' = IF w = Main THEN pending
                    ELSE [pending EXCEPT ![w] = @ \ {op[w].ref}]
  BY DEF PostImage
<1>2. UNCHANGED <<disk, durable, proc, turn, running, gate, pointer, spent, named, undoable>>
  BY <1>1 DEF procVars, jobVars, ghostVars
<1>3. PICK u \in Ops : u = op[w] /\ OpOK(u)
  BY DEF ToolTypes, OpInv
<1>4. u.phase = "wrote" /\ u.path \in Paths
  BY <1>1, <1>3 DEF OpOK, Ops
<1>5. \A v \in Workers : pending'[v] \subseteq pending[v] /\ pending'[v] \in SUBSET Nat
  BY <1>1 DEF ToolTypes
<1>6. pending' \in [Workers -> SUBSET Nat]
  BY <1>1, <1>5 DEF ToolTypes
<1>7. CASE op' = [op EXCEPT ![w] = NoOp] /\ UNCHANGED records
  <2>1. PICK o \in Ops : o = NoOp /\ OpOK(o)' /\ o.path = None
    <3>1. NoOp \in Ops /\ OpOK(NoOp)' /\ NoOp.path = None
      BY DEF Ops, OpPhases, NoOp, OpOK
    <3> QED
      BY <3>1
  <2>2. Quiet /\ Keeps /\ StoreTypes'
    BY <1>2, <1>7, UnchangedQuiet DEF StoreTypes, Quiet
  <2>3. ToolTypes'
    BY <1>2, <1>6, <1>7, <2>1 DEF ToolTypes
  <2>4. \A v \in Workers : pending'[v] \subseteq Seqs("pre")'
    BY <1>5, <1>7 DEF OpInv, Seqs
  <2>5. WrittenIsUndoable'
    BY <1>2, <2>2, UndoableKept DEF StoreTypes
  <2> QED
    BY <1>1, <1>2, <1>7, <2>1, <2>2, <2>3, <2>4, <2>5, ToolStep
<1>8. CASE /\ Log(<<Post(op[w].path, disk[op[w].path])>>)
           /\ op' = [op EXCEPT ![w] = [@ EXCEPT !.phase = "posting", !.ref = NextSeq]]
  <2> DEFINE n == NextSeq
  <2>1. n \in Nat
    BY DEF NextSeq, StoreTypes
  <2>2. PICK o : o = [u EXCEPT !.phase = "posting", !.ref = n]
    OBVIOUS
  <2> HIDE DEF n
  <2>3. o \in Ops /\ o.phase = "posting" /\ o.ref = n /\ o.path = u.path
    BY <2>1, <2>2 DEF Ops, OpPhases
  <2>4. PICK r : r = Post(u.path, disk[u.path])
    OBVIOUS
  <2>5. r \in AllRecords /\ r.type = "post"
    BY <1>4, <2>4, RecordMade DEF Post, ToolTypes
  <2>6. op' = [op EXCEPT ![w] = o] /\ Log(<<r>>)
    BY <1>3, <1>8, <2>2, <2>4 DEF n
  <2>7. records' \in Seq(AllRecords) /\ Quiet /\ Keeps /\ n \in DOMAIN records'
    BY <2>5, <2>6, LogOne DEF StoreTypes, n
  <2>8. StoreTypes'
    BY <1>2, <2>7, StoreKept DEF StoreTypes
  <2>9. OpOK(o)'
    BY <1>4, <2>3, <2>7 DEF OpOK
  <2>10. ToolTypes'
    BY <1>2, <1>6, <2>3, <2>6 DEF ToolTypes
  <2>11. \A v \in Workers : pending'[v] \subseteq Seqs("pre")'
    <3>1. \A i \in Seqs("pre") : i \in Seqs("pre")'
      BY <2>7 DEF Keeps, Seqs
    <3> QED
      BY <1>5, <3>1 DEF OpInv
  <2>12. WrittenIsUndoable'
    BY <1>2, <2>7, <2>8, UndoableKept DEF StoreTypes
  <2> QED
    BY <1>1, <1>2, <1>3, <2>3, <2>6, <2>7, <2>8, <2>9, <2>10, <2>11, <2>12, ToolStep
<1> QED
  BY <1>7, <1>8 DEF PostImage

(* A set as a sequence: all of its members, and nothing else.              *)
LEMMA SeqOfSet ==
  ASSUME NEW S, IsFiniteSet(S)
  PROVE  /\ SetToSeq(S) \in Seq(S)
         /\ \A x \in S : \E k \in DOMAIN SetToSeq(S) : SetToSeq(S)[k] = x
<1> DEFINE n == Cardinality(S)
           f == SetToSeq(S)
<1>1. n \in Nat /\ ExistsBijection(1..n, S)
  BY FS_CardinalityType
<1>2. \E g \in [1..n -> S] : IsInjective(g)
  BY <1>1 DEF ExistsBijection, Bijection, Injection
<1>3. f \in [1..n -> S] /\ IsInjective(f)
  BY <1>2 DEF SetToSeq
<1>4. IsFiniteSet(1..n) /\ Cardinality(1..n) = n
  <2>1. 1 \in Int /\ n \in Int
    BY <1>1
  <2>2. IsFiniteSet(1..n) /\ Cardinality(1..n) = IF 1 > n THEN 0 ELSE n - 1 + 1
    BY ONLY <2>1, FS_Interval
  <2> QED
    BY <1>1, <2>2
<1>5. f \in Surjection(1..n, S)
  <2>1. f \in Injection(1..n, S)
    BY <1>3 DEF Injection
  <2> HIDE DEF f
  <2> QED
    BY <1>4, <2>1, FS_Injection
<1>6. f \in Seq(S) /\ DOMAIN f = 1..n
  <2> HIDE DEF f
  <2> QED
    BY <1>1, <1>3
<1> QED
  BY <1>5, <1>6 DEF Surjection

(* A handoff drops every capture that is still pending.                    *)
LEMMA DropsAre ==
  ASSUME StoreTypes, OpInv, NEW w \in Workers
  PROVE  /\ DropsOf(w) \in Seq(AllRecords)
         /\ \A k \in DOMAIN DropsOf(w) : DropsOf(w)[k].type = "revoke"
         /\ \A r \in pending[w] \ RevokedSeqs :
              \E k \in DOMAIN DropsOf(w) : DropsOf(w)[k] = Revoke(r)
<1> DEFINE D == pending[w] \ RevokedSeqs
           R == {Revoke(r) : r \in D}
<1>1. D \subseteq 1..Len(records) /\ Len(records) \in Nat
  BY DEF OpInv, Seqs, StoreTypes
<1>2. IsFiniteSet(D)
  <2>1. IsFiniteSet(1..Len(records))
    BY <1>1, FS_Interval
  <2> QED
    BY <1>1, <2>1, FS_Subset
<1>3. IsFiniteSet(R)
  <2> DEFINE g == [r \in D |-> Revoke(r)]
  <2>1. g \in Surjection(D, R)
    BY DEF Surjection
  <2> HIDE DEF g, D, R
  <2> QED
    BY <1>2, <2>1, FS_Surjection
<1>4. R \subseteq AllRecords /\ \A x \in R : x.type = "revoke"
  BY <1>1, RecordMade DEF Revoke
<1>5. DropsOf(w) = SetToSeq(R)
  BY DEF DropsOf
<1> HIDE DEF R
<1>6. DropsOf(w) \in Seq(R) /\ \A x \in R : \E k \in DOMAIN DropsOf(w) : DropsOf(w)[k] = x
  BY <1>3, <1>5, SeqOfSet
<1>7. \A r \in D : Revoke(r) \in R
  BY DEF R
<1> QED
  BY <1>4, <1>6, <1>7

LEMMA HandoffStep == ASSUME IInv, NEW w \in Workers, Handoff(w) PROVE IInv'
<1> USE DEF IInv
<1>1. /\ gate' = [gate EXCEPT ![w] = FALSE] /\ pending' = [pending EXCEPT ![w] = {}]
      /\ Log(DropsOf(w)) /\ undoable' \subseteq undoable
      /\ UNCHANGED <<disk, durable, procVars, op, jobVars, spent, died, named>>
  BY DEF Handoff
<1>2. UNCHANGED <<disk, durable, proc, turn, running, op, pointer, spent, named>>
  BY <1>1 DEF procVars, jobVars
<1>3. records' \in Seq(AllRecords) /\ Quiet /\ Keeps
  <2>1. /\ DropsOf(w) \in Seq(AllRecords)
        /\ \A k \in DOMAIN DropsOf(w) : DropsOf(w)[k].type \notin {"start", "done"}
    BY DropsAre
  <2> QED
    BY <1>1, <2>1, LogKeeps, LogQuiet DEF StoreTypes
<1>4. StoreTypes' /\ durable <= durable'
  BY <1>2, <1>3, StoreKept DEF StoreTypes
<1>5. ToolTypes' /\ \A v \in Workers : pending'[v] \subseteq pending[v]
  BY <1>1, <1>2 DEF ToolTypes
<1> QED
  BY <1>1, <1>2, <1>3, <1>4, <1>5, OuterStep

----------------------------------------------------------------------------
(* What a restore is to restore.                                           *)

LEMMA MinFound ==
  ASSUME NEW S \in SUBSET Nat, S # {}
  PROVE  Min(S) \in S /\ \A y \in S : Min(S) <= y
<1>1. PICK x \in S : \A y \in S : ~(<<y, x>> \in OpToRel(<, Nat))
  BY NatLessThanWellFounded, WFMin
<1>2. \A y \in S : x <= y
  <2> SUFFICES ASSUME NEW y \in S, ~(x <= y) PROVE FALSE
    OBVIOUS
  <2>1. y < x /\ x \in Nat /\ y \in Nat
    OBVIOUS
  <2>2. <<y, x>> \in OpToRel(<, Nat)
    BY <2>1 DEF OpToRel
  <2> QED
    BY <1>1, <2>2
<1> QED
  BY <1>1, <1>2 DEF Min

LEMMA MaxFound ==
  ASSUME NEW n \in Nat, NEW S \in SUBSET (0..n), S # {}
  PROVE  Max(S) \in S /\ \A y \in S : Max(S) >= y
<1> DEFINE T == {k \in Nat : n - k \in S}
<1>1. T \in SUBSET Nat /\ T # {}
  <2>1. PICK x \in S : TRUE
    OBVIOUS
  <2>2. n - x \in Nat /\ n - (n - x) = x
    BY <2>1
  <2> QED
    BY <2>1, <2>2
<1>2. PICK k \in T : \A j \in T : k <= j
  <2> HIDE DEF T
  <2> QED
    BY <1>1, MinFound
<1>3. \A y \in S : n - y \in T /\ y <= n - k
  <2> SUFFICES ASSUME NEW y \in S PROVE n - y \in T /\ y <= n - k
    OBVIOUS
  <2>1. y \in Nat /\ n - y \in Nat /\ n - (n - y) = y
    OBVIOUS
  <2>2. n - y \in T
    BY <2>1
  <2>3. k <= n - y
    BY <1>2, <2>2
  <2> QED
    BY <2>1, <2>2, <2>3
<1>4. n - k \in S
  BY <1>2
<1> QED
  BY <1>3, <1>4 DEF Max

LEMMA LastOf ==
  ASSUME StoreTypes, NEW S \in SUBSET (DOMAIN records), S # {}
  PROVE  Max(S) \in S /\ \A y \in S : Max(S) >= y
<1>1. Len(records) \in Nat /\ S \in SUBSET (0..Len(records))
  BY DEF StoreTypes
<1> QED
  BY <1>1, MaxFound

LEMMA NewestIs ==
  ASSUME NEW T \in SUBSET UserTurns PROVE Newest(T) \in T \cup {NoTurn}
<1>1. MaxTurns \in Nat /\ T \in SUBSET (0..MaxTurns)
  BY DEF UserTurns
<1> QED
  BY <1>1, MaxFound DEF Newest

(* What /undo and /redo aim at: a turn, or the redo point of a restore     *)
(* that is done.                                                           *)
LEMMA UndoTargetIs ==
  ASSUME StoreTypes, JournalInv PROVE UndoTarget \in UserTurns \cup {NoTurn}
<1>1. Newest(Checkpoints) \in UserTurns \cup {NoTurn}
  BY NewestIs DEF Checkpoints
<1>2. CASE Seqs("done") # {}
  <2> DEFINE d == Max(Seqs("done"))
  <2>1. d \in Seqs("done")
    BY <1>2, LastOf DEF Seqs
  <2> HIDE DEF d
  <2>2. PICK i \in Starts : records[i].id = records[d].id
    BY <2>1 DEF JournalInv
  <2>3. StartOf(records[d].id) = i
    BY <2>2, StartOfIs
  <2> DEFINE start == records[i]
             makers == {j \in Seqs("start") : records[j].redo = start.target}
  <2>4. start.target \in AllTurns
    BY StartShape DEF Starts, Seqs, StoreTypes
  <2>5. CASE start.target \in UserTurns
    <3>1. Newest({t \in Checkpoints : t < start.target}) \in UserTurns \cup {NoTurn}
      BY NewestIs DEF Checkpoints
    <3> QED
      BY <1>1, <1>2, <2>3, <2>5, <3>1 DEF UndoTarget, d
  <2>6. CASE start.target \notin UserTurns
    <3>1. makers # {}
      BY <2>6 DEF JournalInv, Starts
    <3> DEFINE m == Max(makers)
    <3>2. m \in makers
      BY <3>1, LastOf DEF Seqs
    <3> HIDE DEF m
    <3>3. records[m].redo # NoTurn
      BY <2>4, <3>2 DEF NoTurn, AllTurns
    <3>4. records[m].target \in UserTurns
      BY <3>2, <3>3 DEF JournalInv, Starts
    <3> QED
      BY <1>1, <1>2, <2>3, <2>6, <3>4 DEF UndoTarget, d, m
  <2> QED
    BY <2>5, <2>6
<1>3. CASE Seqs("done") = {}
  BY <1>1, <1>3 DEF UndoTarget
<1> QED
  BY <1>2, <1>3

LEMMA RedoTargetIs ==
  ASSUME StoreTypes, JournalInv, RedoTarget # NoTurn
  PROVE  /\ \E d \in Seqs("done") : RedoTarget = records[d].redo
         /\ \E i \in Starts : RedoTarget = records[i].redo
<1>1. Seqs("done") # {} /\ RedoTarget = records[Max(Seqs("done"))].redo
  BY DEF RedoTarget
<1>2. Max(Seqs("done")) \in Seqs("done")
  BY <1>1, LastOf DEF Seqs
<1> QED
  BY <1>1, <1>2 DEF JournalInv

(* A plan holds of each of its files what an entry says it was.            *)
LEMMA ComposeIs ==
  ASSUME StoreTypes, NEW target
  PROVE  /\ Compose(target) \in Partial /\ IsFiniteSet(DOMAIN Compose(target))
         /\ \A p \in DOMAIN Compose(target) : \E i \in ComposedFrom(target) :
              records[i].path = p /\ Compose(target)[p] = records[i].was
<1> DEFINE from  == ComposedFrom(target)
           paths == {records[i].path : i \in from}
           first(p) == Min({i \in from : records[i].path = p})
<1>1. from \subseteq Seqs("pre") /\ Seqs("pre") \subseteq Nat
  BY DEF ComposedFrom, Entries, Seqs, StoreTypes
<1>2. \A i \in from : records[i].path \in Paths /\ records[i].was \in Contents
  BY <1>1, RecordShape DEF Seqs, StoreTypes
<1>3. Compose(target) = [p \in paths |-> records[first(p)].was]
  BY DEF Compose
<1> HIDE DEF from
<1>4. ASSUME NEW p \in paths PROVE first(p) \in from /\ records[first(p)].path = p
  <2>1. {i \in from : records[i].path = p} \in SUBSET Nat
        /\ {i \in from : records[i].path = p} # {}
    BY <1>1
  <2> QED
    BY <2>1, MinFound
<1> HIDE DEF first
<1>5. Compose(target) \in [paths -> Contents] /\ paths \in SUBSET Paths
  BY <1>2, <1>3, <1>4
<1>7. IsFiniteSet(paths)
  <2> DEFINE g == [i \in from |-> records[i].path]
  <2>1. IsFiniteSet(from)
    <3>1. Len(records) \in Nat /\ from \subseteq 1..Len(records)
      BY <1>1 DEF Seqs, StoreTypes
    <3>2. IsFiniteSet(1..Len(records))
      BY <3>1, FS_Interval
    <3> QED
      BY <3>1, <3>2, FS_Subset
  <2>2. g \in Surjection(from, paths)
    BY DEF Surjection
  <2> HIDE DEF g
  <2> QED
    BY <2>1, <2>2, FS_Surjection
<1>6. Compose(target) \in Partial
  BY <1>5 DEF Partial
<1> QED
  BY <1>3, <1>4, <1>6, <1>7 DEF from

----------------------------------------------------------------------------
(* Restores.                                                               *)

(* A restore's step leaves the tools alone: it writes no file that a tool  *)
(* has locked.                                                             *)
LEMMA RestoreStep ==
  ASSUME IInv, StoreTypes', Keeps, durable' = durable,
         UNCHANGED <<procVars, opVars, undoable>>, disk' \in [Paths -> Contents],
         \A w \in Writers : op[w].path # None => disk'[op[w].path] = disk[op[w].path],
         RestoreTypes', JournalInv', PlanInv', JobInv', DoneInv', LockInv'
  PROVE  IInv'
<1>1. durable <= durable' /\ UNCHANGED <<proc, turn, running, op, gate, pending>>
  BY DEF IInv, StoreTypes, procVars, opVars
<1>2. OpInv' /\ WrittenIsUndoable'
  BY <1>1, ToolsKept
<1>3. ToolTypes'
  BY <1>1 DEF IInv, ToolTypes
<1> QED
  BY <1>2, <1>3 DEF IInv

(* A step that only decides what to restore.                               *)
LEMMA PlanStep ==
  ASSUME IInv, job.phase # "redo",
         UNCHANGED <<disk, records, durable, procVars, opVars, job, pointer, spent, ghostVars>>,
         RestoreTypes', PlanInv'
  PROVE  IInv'
<1> USE DEF IInv
<1>1. UNCHANGED <<named, undoable>> /\ Keeps
  BY DEF ghostVars, Keeps, StoreTypes
<1>2. StoreTypes'
  BY DEF StoreTypes
<1>3. JournalInv'
  BY <1>1 DEF JournalInv, Starts, Seqs
<1>4. Starts' = Starts /\ Seqs("done")' = Seqs("done") /\ JobStart' = JobStart
  BY DEF Starts, Seqs, JobStart, StartOf
<1>6. LockInv'
  BY <1>4 DEF LockInv, opVars
<1>7. JobInv' /\ DoneInv'
  BY <1>1, <1>4 DEF JobInv, DoneInv, Undone
<1>5. disk' \in [Paths -> Contents]
  BY DEF ToolTypes
<1> QED
  BY <1>1, <1>2, <1>3, <1>5, <1>6, <1>7, RestoreStep

LEMMA PlanForIs ==
  ASSUME StoreTypes, JournalInv, NEW target, NEW asks \in BOOLEAN, PlanFor(target, asks),
         target # NoTurn,
         target \in UserTurns \/ \E j \in Starts : records[j].redo = target
  PROVE  /\ plan' \in [phase : {"none", "asking", "chosen"},
                       target : 0..(MaxTurns + MaxRestores), files : Partial,
                       diverged : SUBSET Paths, skip : BOOLEAN]
         /\ plan'.target = target /\ IsFiniteSet(DOMAIN plan'.files)
<1>1. target \in 0..(MaxTurns + MaxRestores)
  <2>1. CASE target \in UserTurns
    BY <2>1 DEF UserTurns
  <2>2. CASE \E j \in Starts : records[j].redo = target
    BY <2>2, StartShape DEF Starts, Seqs, StoreTypes
  <2> QED
    BY <2>1, <2>2
<1> DEFINE files    == Compose(target)
           diverged == {p \in DOMAIN files : Diverged(p)}
           phase    == IF asks \/ diverged # {} THEN "asking" ELSE "chosen"
<1>2. files \in Partial /\ diverged \in SUBSET Paths /\ IsFiniteSet(DOMAIN files)
  BY ComposeIs, PartialIs
<1>3. plan' = [phase |-> phase, target |-> target, files |-> files, diverged |-> diverged,
               skip |-> FALSE]
  BY DEF PlanFor
<1>4. phase \in {"asking", "chosen"}
  OBVIOUS
<1> HIDE DEF files, diverged, phase
<1> QED
  BY <1>1, <1>2, <1>3, <1>4

LEMMA RequestStep ==
  ASSUME IInv, NEW verb \in {"undo", "redo", "rewind"}, Request(verb) PROVE IInv'
<1> USE DEF IInv
<1>1. /\ job = NoJob
      /\ UNCHANGED <<disk, records, durable, procVars, opVars, job, pointer, spent, ghostVars>>
  BY DEF Request, Idle
<1>2. \E target : /\ target # NoTurn /\ \E asks \in BOOLEAN : PlanFor(target, asks)
                   /\ \/ target \in UserTurns
                      \/ \E j \in Starts : records[j].redo = target
  <2>1. CASE verb = "undo"
    <3>1. UndoTarget # NoTurn /\ PlanFor(UndoTarget, FALSE)
      BY <2>1 DEF Request
    <3>2. UndoTarget \in UserTurns
      BY <3>1, UndoTargetIs
    <3> QED
      BY <3>1, <3>2
  <2>2. CASE verb = "redo"
    <3>1. RedoTarget # NoTurn /\ PlanFor(RedoTarget, FALSE)
      BY <2>2 DEF Request
    <3>2. \E j \in Starts : records[j].redo = RedoTarget
      BY <3>1, RedoTargetIs
    <3> QED
      BY <3>1, <3>2
  <2>3. CASE verb = "rewind"
    <3>1. PICK t \in Checkpoints : PlanFor(t, TRUE)
      BY <2>3 DEF Request
    <3>2. t \in UserTurns /\ t # NoTurn
      BY DEF Checkpoints, UserTurns, NoTurn
    <3> QED
      BY <3>1, <3>2
  <2> QED
    BY <2>1, <2>2, <2>3
<1>3. PICK target :
        /\ target # NoTurn /\ \E asks \in BOOLEAN : PlanFor(target, asks)
        /\ target \in UserTurns \/ \E j \in Starts : records[j].redo = target
  BY <1>2
<1>4. /\ plan' \in [phase : {"none", "asking", "chosen"},
                    target : 0..(MaxTurns + MaxRestores), files : Partial,
                    diverged : SUBSET Paths, skip : BOOLEAN]
      /\ plan'.target = target /\ IsFiniteSet(DOMAIN plan'.files)
  BY <1>3, PlanForIs
<1>5. RestoreTypes'
  BY <1>1, <1>4 DEF RestoreTypes
<1>6. PlanInv'
  BY <1>1, <1>3, <1>4 DEF PlanInv, Starts, Seqs
<1>7. job.phase # "redo"
  BY <1>1 DEF NoJob
<1> QED
  BY <1>1, <1>5, <1>6, <1>7, PlanStep

LEMMA NoPlanIs ==
  NoPlan \in [phase : {"none", "asking", "chosen"}, target : 0..(MaxTurns + MaxRestores),
              files : Partial, diverged : SUBSET Paths, skip : BOOLEAN]
<1>1. <<>> \in [{} -> Contents] /\ {} \in SUBSET Paths
  OBVIOUS
<1>2. <<>> \in Partial
  BY <1>1 DEF Partial
<1>3. 0 \in 0..(MaxTurns + MaxRestores)
  OBVIOUS
<1> QED
  BY <1>2, <1>3 DEF NoPlan, NoTurn

(* While the picker is open no redo point is being captured.               *)
LEMMA PickStep ==
  ASSUME IInv, Dismiss \/ \E skip \in BOOLEAN : Choose(skip) PROVE IInv'
<1> USE DEF IInv
<1>1. /\ plan.phase = "asking"
      /\ UNCHANGED <<disk, records, durable, procVars, opVars, job, pointer, spent, ghostVars>>
  BY DEF Dismiss, Choose
<1>2. RestoreTypes' /\ PlanInv'
  <2>1. CASE Dismiss
    BY <1>1, <2>1, NoPlanIs DEF Dismiss, RestoreTypes, PlanInv, NoPlan
  <2>2. CASE \E skip \in BOOLEAN : Choose(skip)
    <3>1. PICK skip \in BOOLEAN : plan' = [plan EXCEPT !.phase = "chosen", !.skip = skip]
      BY <2>2 DEF Choose
    <3> QED
      BY <1>1, <3>1 DEF RestoreTypes, PlanInv, Starts, Seqs
  <2> QED
    BY <2>1, <2>2
<1>3. job.phase # "redo"
  BY <1>1 DEF JobInv
<1> QED
  BY <1>1, <1>2, <1>3, PlanStep

(* A step of a restore in progress that logs nothing: its plan stays the   *)
(* one it logged.                                                          *)
LEMMA SameJobRecord ==
  ASSUME StoreTypes, JournalInv, JobInv, UNCHANGED records, job'.id = job.id
  PROVE  Starts' = Starts /\ Seqs("done")' = Seqs("done") /\ JobStart' = JobStart
BY DEF Starts, Seqs, JobStart, StartOf

LEMMA WritePointerStep == ASSUME IInv, WritePointer PROVE IInv'
<1> USE DEF IInv
<1>1. /\ job.phase = "started" /\ pointer' = TRUE /\ named' = named \cup {job.id}
      /\ job' = [job EXCEPT !.phase = "pointed", !.ref = Len(records),
                            !.left = DOMAIN JobStart.files]
      /\ UNCHANGED <<disk, records, durable, procVars, opVars, plan, spent, undoable>>
  BY DEF WritePointer
<1>2. PICK i \in Starts : records[i].id = job.id
  BY <1>1 DEF JobInv
<1>3. DOMAIN JobStart.files \subseteq Paths
  BY <1>2, JobStartIs
<1> DEFINE n == Len(records)
           F == DOMAIN JobStart.files
<1>4. n \in Nat
  BY DEF StoreTypes
<1> HIDE DEF n, F
<1>5. /\ job'.phase = "pointed" /\ job'.ref = n /\ job'.left = F
      /\ job'.id = job.id /\ job'.skipped = job.skipped /\ job'.logging = job.logging
      /\ job' \in [phase : JobPhases, id : 0..MaxRestores, ref : Nat, left : SUBSET Paths,
                   skipped : SUBSET Paths, logging : Paths \cup {None}]
  <2>1. F \in SUBSET Paths
    BY <1>3 DEF F
  <2>2. job' = [job EXCEPT !.phase = "pointed", !.ref = n, !.left = F]
    BY <1>1 DEF n, F
  <2> QED
    BY <1>4, <2>1, <2>2 DEF RestoreTypes, JobPhases
<1>6. RestoreTypes' /\ Keeps
  BY <1>1, <1>5 DEF RestoreTypes, Keeps, StoreTypes
<1>7. StoreTypes'
  BY <1>1 DEF StoreTypes
<1>8. Starts' = Starts /\ Seqs("done")' = Seqs("done") /\ JobStart' = JobStart
  BY <1>1, <1>5, SameJobRecord
<1>9. JournalInv' /\ PlanInv'
  BY <1>1, <1>8 DEF JournalInv, PlanInv
<1>10. LockInv'
  BY <1>1, <1>5 DEF LockInv, opVars
<1>11. JobInv'
  BY <1>1, <1>5, <1>8, <1>4 DEF JobInv, n, F
<1>12. DoneInv'
  <2>1. Undone' = Undone
    BY <1>1, <1>8 DEF Undone
  <2>2. job.id \in 1..spent["restores"]
    BY <1>1 DEF JobInv, RestoreTypes, StoreTypes, Bounds
  <2> QED
    BY <1>1, <1>5, <1>8, <2>1, <2>2 DEF DoneInv
<1>13. disk' \in [Paths -> Contents]
  BY <1>1 DEF ToolTypes
<1> QED
  BY <1>1, <1>6, <1>7, <1>9, <1>10, <1>11, <1>12, <1>13, RestoreStep

(* A restore in progress goes on within its phase, or takes its locks: it  *)
(* logs nothing, and no file that a tool has locked is written.            *)
LEMMA SamePlanStep ==
  ASSUME IInv, UNCHANGED <<records, durable, procVars, opVars, plan, pointer, named, undoable>>,
         spent' \in [Bounds -> Nat], spent'["restores"] = spent["restores"],
         job.phase \in {"pointed", "applying"},
         job' \in [phase : {"applying"}, id : {job.id}, ref : {job.ref},
                   left : SUBSET job.left, skipped : SUBSET Paths,
                   logging : {job.logging, None} \cup DOMAIN JobStart.files],
         \A w \in Writers : op[w].path \notin DOMAIN JobStart.files,
         disk' \in [Paths -> Contents],
         \A p \in Paths : disk'[p] # disk[p] => p \in DOMAIN JobStart.files
  PROVE  IInv'
<1> USE DEF IInv
<1>1. PICK i \in Starts : records[i].id = job.id
  BY DEF JobInv
<1>2. DOMAIN JobStart.files \subseteq Paths
  BY <1>1, JobStartIs
<1>3. RestoreTypes' /\ Keeps
  BY <1>2 DEF RestoreTypes, Keeps, StoreTypes, JobPhases
<1>4. StoreTypes'
  BY DEF StoreTypes
<1>5. Starts' = Starts /\ Seqs("done")' = Seqs("done") /\ JobStart' = JobStart
  BY SameJobRecord
<1>6. JournalInv' /\ PlanInv'
  BY <1>5 DEF JournalInv, PlanInv
<1>7. LockInv'
  BY <1>5 DEF LockInv, opVars
<1>8. JobInv'
  <2>1. job.logging # None => job.logging \in DOMAIN JobStart.files
    BY DEF JobInv
  <2> QED
    BY <1>5, <2>1 DEF JobInv
<1>9. DoneInv'
  <2>1. Undone' = Undone
    BY <1>5 DEF Undone
  <2> QED
    BY <1>5, <2>1 DEF DoneInv
<1>10. \A w \in Writers : op[w].path # None => disk'[op[w].path] = disk[op[w].path]
  <2>1. \A w \in Writers : op[w].path \in Paths \cup {None}
    BY DEF ToolTypes, Ops
  <2> QED
    BY <2>1
<1> QED
  BY <1>3, <1>4, <1>6, <1>7, <1>8, <1>9, <1>10, RestoreStep

LEMMA TakeLocksStep == ASSUME IInv, TakeLocks PROVE IInv'
<1> USE DEF IInv
<1>1. /\ job.phase = "pointed" /\ job' = [job EXCEPT !.phase = "applying"]
      /\ \A w \in Writers : op[w].path \notin DOMAIN JobStart.files
      /\ UNCHANGED <<disk, records, durable, procVars, opVars, plan, pointer, spent, named,
                     undoable>>
  BY DEF TakeLocks, ghostVars
<1>2. job' \in [phase : {"applying"}, id : {job.id}, ref : {job.ref},
                left : SUBSET job.left, skipped : SUBSET Paths,
                logging : {job.logging, None} \cup DOMAIN JobStart.files]
  BY <1>1 DEF RestoreTypes
<1>3. /\ spent' \in [Bounds -> Nat] /\ spent'["restores"] = spent["restores"]
      /\ disk' \in [Paths -> Contents]
  BY <1>1 DEF StoreTypes, ToolTypes
<1> QED
  BY <1>1, <1>2, <1>3, SamePlanStep

LEMMA ApplyStep ==
  ASSUME IInv, NEW p \in Paths, ApplyWrite(p) \/ ApplyFails(p) PROVE IInv'
<1> USE DEF IInv
<1>1. /\ job.phase = "applying" /\ job.logging = None /\ p \in job.left
      /\ UNCHANGED <<records, durable, procVars, opVars, plan, pointer, named, undoable>>
  BY DEF ApplyWrite, ApplyFails, Applying
<1>2. \A w \in Writers : op[w].path \notin DOMAIN JobStart.files
  BY <1>1 DEF LockInv
<1>3. PICK i \in Starts : records[i].id = job.id
  BY <1>1 DEF JobInv
<1>4. p \in DOMAIN JobStart.files /\ JobStart.files[p] \in Contents
  BY <1>1, <1>3, JobStartIs DEF JobInv
<1> DEFINE shape == [phase : {"applying"}, id : {job.id}, ref : {job.ref},
                     left : SUBSET job.left, skipped : SUBSET Paths,
                     logging : {job.logging, None} \cup DOMAIN JobStart.files]
<1>5. [job EXCEPT !.left = @ \ {p}, !.skipped = @ \cup {p}] \in shape
  BY <1>1, <1>4 DEF RestoreTypes
<1>6. [job EXCEPT !.left = @ \ {p}, !.logging = p] \in shape
  BY <1>1, <1>4 DEF RestoreTypes
<1>7. spent' \in [Bounds -> Nat] /\ spent'["restores"] = spent["restores"]
  BY SpendOne DEF ApplyWrite, ApplyFails, StoreTypes, Bounds
<1>8. job' \in shape
  BY <1>5, <1>6 DEF ApplyWrite, ApplyFails, Skips
<1>9. /\ disk' \in [Paths -> Contents]
      /\ \A q \in Paths : disk'[q] # disk[q] => q \in DOMAIN JobStart.files
  <2>1. CASE UNCHANGED disk
    BY <2>1 DEF ToolTypes
  <2>2. CASE disk' = [disk EXCEPT ![p] = JobStart.files[p]]
    BY <1>4, <2>2 DEF ToolTypes
  <2> QED
    BY <2>1, <2>2 DEF ApplyWrite, ApplyFails
<1> QED
  BY <1>1, <1>2, <1>7, <1>8, <1>9, SamePlanStep

(* What is done in memory is done in the file, unless its restore is just  *)
(* closing: what is not done is not done in the file.                      *)
LEMMA DanglingUndone ==
  ASSUME StoreTypes, DoneInv
  PROVE  Dangling \subseteq Undone /\ (job.phase # "closing" => Undone = Dangling)
<1>1. \A d \in Seqs("done") : d \in Nat /\ durable \in Nat
  BY DEF Seqs, StoreTypes
<1> QED
  BY <1>1 DEF Dangling, Undone, DoneInv, Starts

LEMMA NoJobIs ==
  /\ NoJob \in [phase : JobPhases, id : 0..MaxRestores, ref : Nat, left : SUBSET Paths,
                skipped : SUBSET Paths, logging : Paths \cup {None}]
  /\ NoJob.phase = "none" /\ NoJob.logging = None /\ NoJob.left = {} /\ NoJob.ref = 0
  /\ DOMAIN NoJob = {"phase", "id", "ref", "left", "skipped", "logging"}
BY DEF NoJob, JobPhases

LEMMA RecoverStep == ASSUME IInv, Recover PROVE IInv'
<1> USE DEF IInv
<1>1. job = NoJob /\ Replay(Min(Dangling))
  BY DEF Recover
<1>2. PICK i \in Dangling : i = Min(Dangling)
  BY <1>1 DEF Replay
<1>3. UNCHANGED <<disk, records, durable, procVars, opVars, plan, pointer, spent, named, undoable>>
  BY <1>1 DEF Replay, ghostVars
<1>4. /\ i \in Starts /\ i \in Undone /\ records[i] \in AllRecords /\ records[i].type = "start"
  BY DanglingUndone DEF Dangling, Starts, Seqs, StoreTypes
<1>5. records[i].id \in 1..MaxRestores /\ DOMAIN records[i].files \subseteq Paths
  BY <1>4, StartShape, PartialIs
<1> DEFINE id == records[i].id
           L  == DOMAIN records[i].files \
                   {p \in Paths : \E f \in Seqs("file") :
                      records[f].id = records[i].id /\ records[f].path = p}
<1>6. id \in 1..MaxRestores /\ L \subseteq Paths /\ L \subseteq DOMAIN records[i].files
  BY <1>5
<1>7. job' = [NoJob EXCEPT !.phase = "pointed", !.id = id, !.left = L]
  BY <1>1, <1>2 DEF Replay
<1>8. id = records[i].id
  OBVIOUS
<1> HIDE DEF id, L
<1>9. /\ job' \in [phase : JobPhases, id : 0..MaxRestores, ref : Nat, left : SUBSET Paths,
                  skipped : SUBSET Paths, logging : Paths \cup {None}]
      /\ job'.phase = "pointed" /\ job'.id = id /\ job'.left = L /\ job'.ref = 0
      /\ job'.logging = None
  <2>1. job' = [phase |-> "pointed", id |-> id, ref |-> 0, left |-> L, skipped |-> {},
                logging |-> None]
    BY <1>7 DEF NoJob
  <2>2. id \in 0..MaxRestores /\ L \in SUBSET Paths /\ "pointed" \in JobPhases
    BY <1>6 DEF JobPhases
  <2> QED
    BY <2>1, <2>2
<1>10. StoreTypes' /\ RestoreTypes' /\ Keeps
  BY <1>3, <1>9 DEF StoreTypes, RestoreTypes, Keeps
<1>11. Starts' = Starts /\ Seqs("done")' = Seqs("done") /\ Undone' = Undone
  BY <1>3 DEF Starts, Seqs, Undone
<1>12. JournalInv' /\ PlanInv'
  BY <1>3, <1>11 DEF JournalInv, PlanInv
<1>13. LockInv'
  BY <1>3, <1>9 DEF LockInv, opVars
<1>14. JobInv'
  <2>1. JobStart' = records[i]
    BY <1>3, <1>4, <1>8, <1>9, <1>11, <1>12, StartOfIsNext DEF JobStart
  <2> QED
    BY <1>3, <1>4, <1>6, <1>8, <1>9, <1>10, <1>11, <2>1 DEF JobInv, StoreTypes
<1>15. DoneInv'
  BY <1>1, <1>3, <1>4, <1>8, <1>9, <1>11, NoJobIs DEF DoneInv
<1>16. disk' \in [Paths -> Contents]
  BY <1>3 DEF ToolTypes
<1> QED
  BY <1>3, <1>10, <1>12, <1>13, <1>14, <1>15, <1>16, RestoreStep

(* A step of a restore that adds records leaves the disk alone.            *)
LEMMA LoggingStep ==
  ASSUME IInv, UNCHANGED <<disk, durable, procVars, opVars, pointer, named, undoable>>,
         records' \in Seq(AllRecords), Keeps, spent' \in [Bounds -> Nat],
         spent'["restores"] <= MaxRestores, RestoreTypes', JournalInv', PlanInv', JobInv',
         DoneInv', job'.phase = "applying" => job.phase = "applying" /\ job'.id = job.id
  PROVE  IInv'
<1> USE DEF IInv
<1>1. StoreTypes'
  BY StoreKept DEF StoreTypes
<1>2. disk' \in [Paths -> Contents]
  BY DEF ToolTypes
<1>3. LockInv'
  <2>1. UNCHANGED op
    BY DEF opVars
  <2>2. CASE job'.phase = "applying"
    BY <1>1, <2>1, <2>2, LocksKept
  <2>3. CASE job'.phase # "applying"
    BY <2>1, <2>3 DEF LockInv
  <2> QED
    BY <2>2, <2>3
<1> QED
  BY <1>1, <1>2, <1>3, RestoreStep

LEMMA AppliedIs ==
  ASSUME RestoreTypes
  PROVE  Applied \in Partial /\ DOMAIN Applied \subseteq Paths
<1>1. plan.files \in [DOMAIN plan.files -> Contents] /\ DOMAIN plan.files \subseteq Paths
  BY PartialIs DEF RestoreTypes
<1> DEFINE D == IF plan.skip THEN DOMAIN plan.files \ plan.diverged ELSE DOMAIN plan.files
<1>2. Applied \in [D -> Contents] /\ D \in SUBSET Paths
  BY <1>1 DEF Applied, Restrict
<1> HIDE DEF D
<1> QED
  BY <1>2 DEF Partial

(* A redo point is made of captures, and closed.                           *)
LEMMA RedoPointsAre ==
  ASSUME IInv, plan.phase # "none", NEW id \in 1..MaxRestores, NEW rs \in RedoPoints(id)
  PROVE  /\ rs \in Seq(AllRecords)
         /\ \A k \in DOMAIN rs :
              \/ rs[k].type = "finalize"
              \/ /\ rs[k].type = "pre" /\ rs[k].turn = RedoTurn(id)
                 /\ rs[k].path \in DOMAIN Applied
<1> USE DEF IInv
<1>1. CASE RedoOf(id) = NoTurn
  BY <1>1 DEF RedoPoints
<1>2. CASE RedoOf(id) # NoTurn
  <2>1. RedoOf(id) \in AllTurns
    BY <1>2 DEF RedoOf, RedoTurn, AllTurns
  <2> DEFINE t == RedoOf(id)
             S == {Pre(t, p, disk[p]) : p \in DOMAIN Applied}
  <2>9. t = RedoTurn(id)
    BY <1>2 DEF RedoOf
  <2>2. /\ S \subseteq AllRecords
        /\ \A x \in S : x.type = "pre" /\ x.turn = t /\ x.path \in DOMAIN Applied
    BY <2>1, AppliedIs, RecordMade DEF Pre, ToolTypes
  <2>3. PICK pres \in SetToSeqs(S) : rs = Append(pres, Finalize(t))
    BY <1>2 DEF RedoPoints
  <2>8. IsFiniteSet(S)
    <3> DEFINE D == DOMAIN Applied
               g == [p \in D |-> Pre(t, p, disk[p])]
    <3>1. IsFiniteSet(D)
      <4>1. IsFiniteSet(DOMAIN plan.files) /\ D \subseteq DOMAIN plan.files
        BY DEF Applied, Restrict, PlanInv
      <4> QED
        BY <4>1, FS_Subset
    <3>2. g \in Surjection(D, S)
      BY DEF Surjection
    <3> HIDE DEF g, S, D
    <3> QED
      BY <3>1, <3>2, FS_Surjection
  <2> HIDE DEF S
  <2>4. pres \in Seq(S)
    <3> DEFINE n == Cardinality(S)
    <3>1. pres \in [1..n -> S]
      BY <2>3 DEF SetToSeqs
    <3>2. n \in Nat
      BY <2>8, FS_CardinalityType
    <3> HIDE DEF n
    <3> QED
      BY <3>1, <3>2
  <2> DEFINE z == Finalize(t)
  <2>5. z \in AllRecords /\ z.type = "finalize"
    BY <2>1, RecordMade DEF Finalize
  <2> HIDE DEF z, t
  <2>6. rs = Append(pres, z)
    BY <2>3 DEF z
  <2>7. /\ pres \in Seq(AllRecords)
        /\ \A k \in DOMAIN pres : /\ pres[k].type = "pre" /\ pres[k].turn = t
                                  /\ pres[k].path \in DOMAIN Applied
    BY <2>2, <2>4
  <2>10. rs \in Seq(AllRecords)
    BY <2>5, <2>6, <2>7
  <2>11. \A k \in DOMAIN rs : (k \in DOMAIN pres /\ rs[k] = pres[k]) \/ rs[k] = z
    BY <2>6, <2>7
  <2> QED
    BY <2>5, <2>7, <2>9, <2>10, <2>11
<1> QED
  BY <1>1, <1>2

LEMMA BeginStep == ASSUME IInv, BeginRestore PROVE IInv'
<1> USE DEF IInv
<1>1. /\ plan.phase = "chosen" /\ job = NoJob /\ Dangling = {}
      /\ UNCHANGED <<disk, durable, procVars, opVars, pointer, named, undoable>>
  BY DEF BeginRestore, ghostVars
<1>2. Undone = {}
  BY <1>1, NoJobIs, DanglingUndone
<1>3. CASE plan' = NoPlan /\ UNCHANGED <<records, job, spent>>
  <2>1. RestoreTypes' /\ PlanInv'
    BY <1>3, NoPlanIs DEF RestoreTypes, PlanInv, NoPlan
  <2>2. UNCHANGED <<pointer, ghostVars>> /\ job.phase # "redo"
    BY <1>1, NoJobIs DEF BeginRestore
  <2> QED
    BY <1>1, <1>3, <2>1, <2>2, PlanStep
<1>4. CASE /\ Spend("restores", MaxRestores)
           /\ \E rs \in RedoPoints(spent.restores + 1) : Log(rs)
           /\ job' = [NoJob EXCEPT !.phase = "redo", !.id = spent.restores + 1,
                                   !.ref = Len(records')]
           /\ UNCHANGED plan
  <2> DEFINE id == spent["restores"] + 1
             n  == Len(records')
  <2>1. /\ id \in 1..MaxRestores /\ spent' \in [Bounds -> Nat] /\ spent'["restores"] = id
        /\ spent["restores"] \in Nat
    BY <1>4 DEF Spend, StoreTypes, Bounds
  <2>2. PICK rs \in RedoPoints(id) : Log(rs)
    BY <1>4
  <2>3. records' \in Seq(AllRecords) /\ Keeps /\ Quiet
    <3>1. /\ rs \in Seq(AllRecords)
          /\ \A k \in DOMAIN rs : rs[k].type \notin {"start", "done"}
      BY <1>1, <2>1, RedoPointsAre
    <3> QED
      BY <2>2, <3>1, LogKeeps, LogQuiet DEF StoreTypes
  <2>4. n \in Nat
    BY <2>3
  <2>5. job' = [NoJob EXCEPT !.phase = "redo", !.id = id, !.ref = n]
    BY <1>4
  <2>6. id = spent["restores"] + 1 /\ n = Len(records')
    OBVIOUS
  <2> HIDE DEF id, n
  <2>7. /\ job' \in [phase : JobPhases, id : 0..MaxRestores, ref : Nat, left : SUBSET Paths,
                    skipped : SUBSET Paths, logging : Paths \cup {None}]
        /\ job'.phase = "redo" /\ job'.id = id /\ job'.left = {} /\ job'.ref = n
        /\ job'.logging = None
    <3>1. job' = [phase |-> "redo", id |-> id, ref |-> n, left |-> {}, skipped |-> {},
                  logging |-> None]
      BY <2>5 DEF NoJob
    <3>2. id \in 0..MaxRestores /\ "redo" \in JobPhases
      BY <2>1 DEF JobPhases
    <3> QED
      BY <2>4, <3>1, <3>2
  <2>8. RestoreTypes'
    BY <1>4, <2>7 DEF RestoreTypes
  <2>9. /\ Starts' = Starts /\ Seqs("done")' = Seqs("done")
        /\ \A i \in Starts \cup Seqs("done") : records'[i] = records[i]
    BY <2>3, QuietStarts DEF StoreTypes
  <2>10. StoreTypes'
    BY <1>1, <2>1, <2>3, StoreKept DEF StoreTypes
  <2>11. JournalInv'
    BY <2>1, <2>3, <2>6, <2>10, JournalQuiet
  <2>12. PlanInv'
    BY <1>4, <2>9 DEF PlanInv
  <2>13. JobInv'
    <3>1. \A i \in Starts : records[i].id \in Nat /\ records[i].id <= spent["restores"]
      BY StartShape DEF JournalInv, StoreTypes, Starts, Seqs
    <3>2. \A i \in Starts' : records'[i].id # id
      BY <2>1, <2>6, <2>9, <3>1
    <3>3. id \notin named'
      BY <1>1, <2>1, <2>6 DEF DoneInv
    <3>4. plan'.phase = "chosen" /\ id # 0 /\ n <= Len(records')
      BY <1>1, <1>4, <2>1, <2>4, <2>6
    <3> QED
      BY <2>1, <2>7, <3>2, <3>3, <3>4 DEF JobInv
  <2>14. DoneInv'
    <3>1. Undone' = {}
      BY <1>1, <1>2, <2>9 DEF Undone
    <3>2. \A d \in Seqs("done")' : ~(d > durable')
      BY <1>1, <2>9, NoJobIs DEF DoneInv
    <3>3. named' \subseteq 1..spent'["restores"]
      BY <1>1, <2>1, <2>6 DEF DoneInv
    <3> QED
      BY <2>7, <3>1, <3>2, <3>3 DEF DoneInv
  <2> QED
    BY <1>1, <2>1, <2>3, <2>7, <2>8, <2>11, <2>12, <2>13, <2>14, LoggingStep
<1> QED
  BY <1>3, <1>4 DEF BeginRestore

LEMMA LogStartStep == ASSUME IInv, LogStart PROVE IInv'
<1> USE DEF IInv
<1>1. /\ job.phase = "redo" /\ plan' = NoPlan /\ job' = [job EXCEPT !.phase = "started"]
      /\ Log(<<Start(job.id, plan.target, RedoOf(job.id), plan.skip, Applied)>>)
      /\ UNCHANGED <<disk, durable, procVars, opVars, pointer, spent, named, undoable>>
  BY DEF LogStart, ghostVars
<1>2. /\ plan.phase = "chosen" /\ job.left = {} /\ \A i \in Starts : records[i].id # job.id
      /\ job.id \in 1..MaxRestores /\ job.id = spent["restores"] /\ job.id \notin named
      /\ plan.target \in AllTurns
  BY <1>1 DEF JobInv, PlanInv, RestoreTypes, AllTurns, NoTurn
<1>3. RedoOf(job.id) \in 0..(MaxTurns + MaxRestores)
  BY <1>2 DEF RedoOf, RedoTurn, NoTurn
<1>4. PICK r : r = Start(job.id, plan.target, RedoOf(job.id), plan.skip, Applied)
  OBVIOUS
<1>5. /\ r \in AllRecords /\ r.type = "start" /\ r.id = job.id /\ r.target = plan.target
      /\ r.redo = RedoOf(job.id)
  <2>1. Applied \in Partial /\ plan.skip \in BOOLEAN
    BY AppliedIs DEF RestoreTypes
  <2> QED
    BY <1>2, <1>3, <1>4, <2>1, RecordMade DEF Start
<1>6. /\ records' \in Seq(AllRecords) /\ Len(records') = NextSeq /\ Keeps
      /\ records'[NextSeq] = r /\ NextSeq \notin DOMAIN records
      /\ DOMAIN records' = DOMAIN records \cup {NextSeq}
  BY <1>1, <1>4, <1>5, LogOne DEF StoreTypes
<1>7. NextSeq \in Nat /\ \A i \in DOMAIN records : i \in Nat /\ i < NextSeq
  BY DEF NextSeq, StoreTypes
<1> DEFINE n == NextSeq
<1>8. /\ Starts' = Starts \cup {n} /\ n \notin Starts /\ Seqs("done")' = Seqs("done")
      /\ \A i \in Starts \cup Seqs("done") : records'[i] = records[i] /\ i < n
      /\ records'[n] = r
  BY <1>5, <1>6, <1>7 DEF Starts, Seqs, Keeps
<1> HIDE DEF n
<1>9. /\ job' \in [phase : JobPhases, id : 0..MaxRestores, ref : Nat, left : SUBSET Paths,
                  skipped : SUBSET Paths, logging : Paths \cup {None}]
      /\ job'.phase = "started" /\ job'.id = job.id /\ job'.left = {} /\ job'.ref = job.ref
      /\ job'.logging = job.logging
  BY <1>1, <1>2 DEF RestoreTypes, JobPhases
<1>10. RestoreTypes' /\ PlanInv'
  BY <1>1, <1>9, NoPlanIs DEF RestoreTypes, PlanInv, NoPlan
<1>11. JournalInv'
  <2>1. \A i, j \in Starts' : records'[i].id = records'[j].id => i = j
    BY <1>2, <1>5, <1>8 DEF JournalInv
  <2>2. ASSUME NEW i \in Starts'
        PROVE  /\ records'[i].id <= spent'["restores"]
               /\ records'[i].redo = IF records'[i].target \in UserTurns
                                       THEN RedoTurn(records'[i].id) ELSE NoTurn
               /\ records'[i].target \notin UserTurns =>
                    \E j \in Starts' : j < i /\ records'[j].redo = records'[i].target
    <3>1. CASE i = n
      <4>1. records'[i].id <= spent'["restores"]
        BY <1>1, <1>2, <1>5, <1>8, <3>1
      <4>2. plan.target \notin UserTurns =>
              \E j \in Starts : records[j].redo = plan.target
        BY <1>2 DEF PlanInv
      <4> QED
        BY <1>5, <1>8, <3>1, <4>1, <4>2 DEF RedoOf
    <3>2. CASE i \in Starts
      BY <1>1, <1>8, <3>2 DEF JournalInv
    <3> QED
      BY <1>8, <3>1, <3>2
  <2>3. \A d \in Seqs("done")' : \E i \in Starts' :
          /\ i < d /\ records'[i].id = records'[d].id
          /\ records'[i].redo = records'[d].redo
    BY <1>8 DEF JournalInv
  <2> QED
    BY <2>1, <2>2, <2>3 DEF JournalInv
<1>12. JobInv'
  <2>1. n \in Starts' /\ records'[n].id = job'.id
    BY <1>5, <1>8, <1>9
  <2>2. job'.ref <= Len(records')
    BY <1>6, <1>9 DEF JobInv, RestoreTypes, NextSeq, StoreTypes
  <2>3. job.logging = None /\ job'.id # 0
    BY <1>1, <1>2, <1>9 DEF JobInv
  <2> QED
    BY <1>1, <1>2, <1>9, <2>1, <2>2, <2>3 DEF JobInv
<1>13. DoneInv'
  <2>1. Undone = {}
    BY <1>1, <1>2 DEF DoneInv, Undone
  <2>2. Undone' \subseteq {n}
    <3>1. \A i \in Starts : ~ \A d \in Seqs("done") : records[d].id = records[i].id => d > durable
      BY <2>1 DEF Undone
    <3> QED
      BY <1>1, <1>8, <3>1 DEF Undone
  <2>3. records'[n].id = job.id
    BY <1>5, <1>8
  <2> QED
    BY <1>1, <1>2, <1>8, <1>9, <2>2, <2>3 DEF DoneInv
<1>14. spent' \in [Bounds -> Nat] /\ spent'["restores"] <= MaxRestores
  BY <1>1 DEF StoreTypes
<1> QED
  BY <1>1, <1>6, <1>9, <1>10, <1>11, <1>12, <1>13, <1>14, LoggingStep

LEMMA ApplyLogStep == ASSUME IInv, ApplyLog PROVE IInv'
<1> USE DEF IInv
<1>1. /\ job.logging # None /\ job' = [job EXCEPT !.logging = None]
      /\ Log(<<FileDone(job.id, job.logging), Post(job.logging, JobStart.files[job.logging])>>)
      /\ UNCHANGED <<disk, durable, procVars, opVars, plan, pointer, spent, named, undoable>>
  BY DEF ApplyLog, ghostVars
<1>2. /\ job.phase = "applying" /\ job.logging \in DOMAIN JobStart.files
      /\ \E i \in Starts : records[i].id = job.id /\ job.id \in 1..MaxRestores
  BY <1>1 DEF JobInv, RestoreTypes
<1>3. JobStart.files[job.logging] \in Contents /\ job.logging \in Paths
  BY <1>2, JobStartIs
<1>4. PICK r \in AllRecords : r = FileDone(job.id, job.logging) /\ r.type = "file"
  BY <1>2, <1>3, RecordMade DEF FileDone
<1>5. PICK q \in AllRecords : q = Post(job.logging, JobStart.files[job.logging]) /\ q.type = "post"
  BY <1>3, RecordMade DEF Post
<1>6. PICK rs : rs = <<r, q>>
  OBVIOUS
<1>7. rs \in Seq(AllRecords) /\ \A k \in DOMAIN rs : rs[k].type \notin {"start", "done"}
  BY <1>4, <1>5, <1>6
<1>8. Log(rs)
  BY <1>1, <1>4, <1>5, <1>6
<1>9. records' \in Seq(AllRecords) /\ Keeps /\ Quiet
  BY <1>7, <1>8, LogKeeps, LogQuiet DEF StoreTypes
<1>10. /\ job' \in [phase : JobPhases, id : 0..MaxRestores, ref : Nat, left : SUBSET Paths,
                   skipped : SUBSET Paths, logging : Paths \cup {None}]
       /\ job'.phase = "applying" /\ job'.id = job.id /\ job'.left = job.left
       /\ job'.ref = job.ref /\ job'.logging = None
  BY <1>1, <1>2 DEF RestoreTypes, JobPhases
<1>11. StoreTypes'
  BY <1>1, <1>9, StoreKept DEF StoreTypes
<1>12. /\ Starts' = Starts /\ Seqs("done")' = Seqs("done")
       /\ \A i \in Starts \cup Seqs("done") : records'[i] = records[i]
  BY <1>9, QuietStarts DEF StoreTypes
<1>13. JournalInv'
  <2>1. spent["restores"] <= spent'["restores"]
    BY <1>1 DEF StoreTypes, Bounds
  <2> QED
    BY <1>9, <1>11, <2>1, JournalQuiet
<1>14. RestoreTypes' /\ PlanInv'
  BY <1>1, <1>10, <1>12 DEF RestoreTypes, PlanInv
<1>15. JobInv'
  <2>1. JobStart' = JobStart
    BY <1>2, <1>9, <1>10, <1>11, <1>13, JobStartSame
  <2>2. job'.ref <= Len(records')
    BY <1>9, <1>10 DEF JobInv, RestoreTypes, Keeps, StoreTypes
  <2> QED
    BY <1>2, <1>10, <1>12, <2>1, <2>2 DEF JobInv
<1>16. DoneInv'
  <2>1. Undone' = Undone
    BY <1>1, <1>12 DEF Undone
  <2>2. \A i \in Undone : records'[i] = records[i]
    BY <1>12 DEF Undone
  <2> QED
    BY <1>1, <1>2, <1>10, <1>12, <2>1, <2>2 DEF DoneInv
<1>17. spent' \in [Bounds -> Nat] /\ spent'["restores"] <= MaxRestores
  BY <1>1 DEF StoreTypes
<1> QED
  BY <1>1, <1>2, <1>9, <1>10, <1>13, <1>14, <1>15, <1>16, <1>17, LoggingStep

LEMMA FinishStep == ASSUME IInv, FinishRestore PROVE IInv'
<1> USE DEF IInv
<1>1. /\ job.phase = "applying" /\ job.left = {} /\ job.logging = None
      /\ Log(<<Done(job.id, JobStart.redo)>>)
      /\ job' = [job EXCEPT !.phase = "closing", !.ref = NextSeq]
      /\ UNCHANGED <<disk, durable, procVars, opVars, plan, pointer, spent, named, undoable>>
  BY DEF FinishRestore, ghostVars
<1>2. PICK i \in Starts : records[i].id = job.id
  BY <1>1 DEF JobInv
<1>3. /\ job.id \in 1..MaxRestores /\ JobStart = records[i]
      /\ JobStart.redo \in 0..(MaxTurns + MaxRestores)
  BY <1>1, <1>2, JobStartIs DEF JobInv, RestoreTypes
<1> DEFINE n == NextSeq
<1>4. n \in Nat /\ durable < n /\ \A k \in DOMAIN records : k \in Nat /\ k < n
  BY DEF NextSeq, StoreTypes
<1>5. PICK r : r = Done(job.id, JobStart.redo)
  OBVIOUS
<1>6. r \in AllRecords /\ r.type = "done" /\ r.id = job.id /\ r.redo = records[i].redo
  BY <1>3, <1>5, RecordMade DEF Done
<1>7. /\ records' \in Seq(AllRecords) /\ Len(records') = n /\ Keeps
      /\ records'[n] = r /\ n \notin DOMAIN records /\ DOMAIN records' = DOMAIN records \cup {n}
  BY <1>1, <1>5, <1>6, LogOne DEF StoreTypes
<1>8. job' = [job EXCEPT !.phase = "closing", !.ref = n]
  BY <1>1
<1> HIDE DEF n
<1>9. /\ Starts' = Starts /\ Seqs("done")' = Seqs("done") \cup {n} /\ n \notin Seqs("done")
      /\ \A k \in Starts \cup Seqs("done") : records'[k] = records[k] /\ k < n
  BY <1>4, <1>6, <1>7 DEF Starts, Seqs, Keeps
<1>10. /\ job' \in [phase : JobPhases, id : 0..MaxRestores, ref : Nat, left : SUBSET Paths,
                   skipped : SUBSET Paths, logging : Paths \cup {None}]
       /\ job'.phase = "closing" /\ job'.id = job.id /\ job'.left = {}
       /\ job'.ref = n /\ job'.logging = None
  BY <1>1, <1>4, <1>8 DEF RestoreTypes, JobPhases
<1>11. JournalInv'
  <2>1. ASSUME NEW d \in Seqs("done")'
        PROVE  \E k \in Starts' : /\ k < d /\ records'[k].id = records'[d].id
                                  /\ records'[k].redo = records'[d].redo
    <3>1. CASE d = n
      BY <1>2, <1>6, <1>7, <1>9, <3>1
    <3>2. CASE d \in Seqs("done")
      BY <1>9, <3>2 DEF JournalInv
    <3> QED
      BY <1>9, <3>1, <3>2
  <2>2. \A k, j \in Starts' : records'[k].id = records'[j].id => k = j
    BY <1>9 DEF JournalInv
  <2>3. \A k \in Starts' :
          /\ records'[k].id <= spent'["restores"]
          /\ records'[k].redo = IF records'[k].target \in UserTurns
                                  THEN RedoTurn(records'[k].id) ELSE NoTurn
          /\ records'[k].target \notin UserTurns =>
               \E j \in Starts' : j < k /\ records'[j].redo = records'[k].target
    BY <1>1, <1>9 DEF JournalInv
  <2> QED
    BY <2>1, <2>2, <2>3 DEF JournalInv
<1>12. RestoreTypes' /\ PlanInv'
  BY <1>1, <1>9, <1>10 DEF RestoreTypes, PlanInv
<1>13. JobInv'
  <2>1. job'.ref <= Len(records')
    BY <1>4, <1>7, <1>10
  <2> QED
    BY <1>2, <1>3, <1>9, <1>10, <2>1 DEF JobInv
<1>14. DoneInv'
  <2>1. Undone' \subseteq Undone
    BY <1>1, <1>9 DEF Undone
  <2>2. \A k \in Undone' : records'[k] = records[k]
    BY <1>9 DEF Undone
  <2>3. \A d \in Seqs("done")' : d > durable' => d = n
    BY <1>1, <1>9 DEF DoneInv
  <2>4. n \in Seqs("done")' /\ records'[n].id = job.id
    BY <1>6, <1>7, <1>9
  <2> QED
    BY <1>1, <1>10, <2>1, <2>2, <2>3, <2>4 DEF DoneInv
<1>15. spent' \in [Bounds -> Nat] /\ spent'["restores"] <= MaxRestores
  BY <1>1 DEF StoreTypes
<1> QED
  BY <1>1, <1>7, <1>10, <1>11, <1>12, <1>13, <1>14, <1>15, LoggingStep

(* The pointer is deleted when the restore is done in the file: nothing is *)
(* left undone there.                                                      *)
LEMMA ClearStep == ASSUME IInv, ClearPointer PROVE IInv'
<1> USE DEF IInv
<1>1. /\ job.phase = "closing" /\ durable >= job.ref /\ pointer' = FALSE /\ job' = NoJob
      /\ UNCHANGED <<disk, records, durable, procVars, opVars, plan, spent, named, undoable>>
  BY DEF ClearPointer, ghostVars
<1>2. Undone = {}
  <2>1. job.ref \in Seqs("done") /\ records[job.ref].id = job.id /\ ~(job.ref > durable)
    BY <1>1 DEF DoneInv, RestoreTypes, StoreTypes
  <2> QED
    BY <1>1, <2>1 DEF DoneInv, Undone
<1>3. Starts' = Starts /\ Seqs("done")' = Seqs("done") /\ Undone' = {}
  BY <1>1, <1>2 DEF Starts, Seqs, Undone
<1>4. RestoreTypes' /\ PlanInv' /\ JournalInv' /\ Keeps
  BY <1>1, <1>3, NoJobIs DEF RestoreTypes, PlanInv, JournalInv, Keeps, StoreTypes
<1>5. StoreTypes'
  BY <1>1 DEF StoreTypes
<1>6. JobInv' /\ LockInv'
  BY <1>1, <1>5, NoJobIs DEF JobInv, LockInv, StoreTypes, opVars
<1>7. DoneInv'
  <2>1. \A d \in Seqs("done") : ~(d > durable)
    BY <1>1 DEF DoneInv, Seqs, StoreTypes
  <2> QED
    BY <1>1, <1>3, <2>1, NoJobIs DEF DoneInv
<1>8. disk' \in [Paths -> Contents]
  BY <1>1 DEF ToolTypes
<1> QED
  BY <1>1, <1>4, <1>5, <1>6, <1>7, <1>8, RestoreStep

----------------------------------------------------------------------------
(* The death of the process, and its next launch.                          *)

(* What is in the journal file survives; what was done but not there is    *)
(* undone again, and was undone before.                                    *)
LEMMA CrashStep == ASSUME IInv, Crash PROVE IInv'
<1> USE DEF IInv
<1>1. /\ Spend("crashes", MaxCrashes) /\ records' = SubSeq(records, 1, durable)
      /\ proc' = "down" /\ running' = FALSE
      /\ op' = [w \in Writers |-> NoOp] /\ gate' = [w \in Workers |-> TRUE]
      /\ pending' = [w \in Workers |-> {}] /\ plan' = NoPlan /\ job' = NoJob
      /\ UNCHANGED <<disk, durable, turn, pointer, undoable, named>>
  BY DEF Crash
<1>2. spent' \in [Bounds -> Nat] /\ spent'["restores"] = spent["restores"]
  BY <1>1, SpendOne DEF Bounds
<1>3. /\ records' \in Seq(AllRecords) /\ Len(records') = durable
      /\ DOMAIN records' = 1..durable /\ 1..durable \subseteq DOMAIN records
      /\ \A i \in 1..durable : records'[i] = records[i]
  BY <1>1 DEF StoreTypes
<1>4. StoreTypes'
  BY <1>1, <1>2, <1>3 DEF StoreTypes
<1>5. ToolTypes'
  <2>1. NoOp \in Ops
    BY DEF NoOp, Ops, OpPhases
  <2> QED
    BY <1>1, <2>1 DEF ToolTypes
<1>6. RestoreTypes' /\ PlanInv'
  BY <1>1, NoPlanIs, NoJobIs DEF RestoreTypes, PlanInv, NoPlan
<1>7. /\ Starts' = {i \in Starts : i <= durable}
      /\ Seqs("done")' = {d \in Seqs("done") : d <= durable}
      /\ Starts \subseteq Nat /\ Seqs("done") \subseteq Nat /\ durable \in Nat
      /\ \A i \in Starts' \cup Seqs("done")' : records'[i] = records[i]
  BY <1>3 DEF Starts, Seqs, StoreTypes
<1>12. /\ \A i \in Starts' : i \in Starts /\ i <= durable /\ records'[i] = records[i]
       /\ \A d \in Seqs("done")' : d \in Seqs("done") /\ d <= durable /\ records'[d] = records[d]
       /\ \A d \in Seqs("done") : d <= durable => d \in Seqs("done")'
  BY <1>7
<1>8. JournalInv'
  <2>1. \A i, j \in Starts' : records'[i].id = records'[j].id => i = j
    BY <1>12 DEF JournalInv
  <2>2. ASSUME NEW i \in Starts'
        PROVE  /\ records'[i].id <= spent'["restores"]
               /\ records'[i].redo = IF records'[i].target \in UserTurns
                                       THEN RedoTurn(records'[i].id) ELSE NoTurn
               /\ records'[i].target \notin UserTurns =>
                    \E j \in Starts' : j < i /\ records'[j].redo = records'[i].target
    <3>1. i \in Starts /\ i <= durable /\ records'[i] = records[i]
      BY <1>7
    <3>2. ASSUME records[i].target \notin UserTurns
          PROVE  \E j \in Starts' : j < i /\ records'[j].redo = records[i].target
      <4>1. PICK j \in Starts : j < i /\ records[j].redo = records[i].target
        BY <3>1, <3>2 DEF JournalInv
      <4>2. j \in Starts'
        BY <1>7, <3>1, <4>1
      <4> QED
        BY <1>7, <4>1, <4>2
    <3> QED
      BY <1>2, <3>1, <3>2 DEF JournalInv
  <2>3. ASSUME NEW d \in Seqs("done")'
        PROVE  \E k \in Starts' : /\ k < d /\ records'[k].id = records'[d].id
                                  /\ records'[k].redo = records'[d].redo
    <3>1. PICK k \in Starts : /\ k < d /\ records[k].id = records[d].id
                              /\ records[k].redo = records[d].redo
      BY <1>7 DEF JournalInv
    <3>2. k \in Starts'
      BY <1>7, <3>1
    <3> QED
      BY <1>7, <3>1, <3>2
  <2> QED
    BY <2>1, <2>2, <2>3 DEF JournalInv
<1>9. OpInv' /\ LockInv' /\ JobInv'
  BY <1>1, <1>4, NoJobIs DEF OpInv, LockInv, JobInv, OpOK, NoOp, StoreTypes
<1>10. DoneInv'
  <2>1. Undone' \subseteq Undone
    <3> SUFFICES ASSUME NEW i \in Undone' PROVE i \in Undone
      OBVIOUS
    <3>1. i \in Starts /\ records'[i] = records[i]
      BY <1>7 DEF Undone
    <3>2. \A d \in Seqs("done") : records[d].id = records[i].id => d > durable
      <4> SUFFICES ASSUME NEW d \in Seqs("done"), records[d].id = records[i].id,
                          ~(d > durable)
                   PROVE  FALSE
        OBVIOUS
      <4>1. d <= durable
        BY <1>7
      <4>2. d \in Seqs("done")' /\ records'[d] = records[d]
        BY <1>12, <4>1
      <4>3. d > durable'
        BY <3>1, <4>2 DEF Undone
      <4> QED
        BY <1>1, <4>3
    <3> QED
      BY <3>1, <3>2 DEF Undone
  <2>2. \A i \in Undone' : records'[i] = records[i]
    BY <1>7 DEF Undone
  <2>3. \A d \in Seqs("done")' : ~(d > durable')
    BY <1>1, <1>7
  <2> QED
    BY <1>1, <1>2, <2>1, <2>2, <2>3, NoJobIs DEF DoneInv
<1>11. WrittenIsUndoable'
  BY <1>1, <1>3 DEF WrittenIsUndoable, Pre
<1> QED
  BY <1>4, <1>5, <1>6, <1>8, <1>9, <1>10, <1>11

LEMMA LaunchStep == ASSUME IInv, Launch PROVE IInv'
<1> USE DEF IInv, Launch
<1>1. Quiet /\ StoreTypes' /\ durable <= durable'
  BY UnchangedQuiet DEF StoreTypes, jobVars
<1>2. ToolTypes' /\ UNCHANGED <<spent, disk, opVars, jobVars, named, undoable>>
  BY DEF ToolTypes, opVars, ghostVars
<1> QED
  BY <1>1, <1>2, OuterStep DEF opVars

(* The pointer is deleted after a recovery that left nothing undone.       *)
LEMMA RecoveredStep == ASSUME IInv, Recovered PROVE IInv'
<1> USE DEF IInv
<1>1. /\ job = NoJob /\ Dangling = {} /\ pointer' = FALSE /\ proc' = "up"
      /\ UNCHANGED <<disk, records, durable, turn, running, opVars, plan, job, spent, named,
                     undoable>>
  BY DEF Recovered, ghostVars
<1>2. Undone = {}
  BY <1>1, NoJobIs, DanglingUndone
<1>3. Starts' = Starts /\ Seqs("done")' = Seqs("done") /\ Undone' = {}
  BY <1>1, <1>2 DEF Starts, Seqs, Undone
<1>4. UNCHANGED <<op, gate, pending>>
  BY <1>1 DEF opVars
<1>5. RestoreTypes' /\ PlanInv' /\ JournalInv' /\ Keeps
  BY <1>1, <1>3 DEF RestoreTypes, PlanInv, JournalInv, Keeps, StoreTypes
<1>6. StoreTypes' /\ ToolTypes' /\ durable <= durable'
  <2>1. durable <= durable'
    BY <1>1 DEF StoreTypes
  <2>2. ToolTypes'
    BY <1>1, <1>4 DEF ToolTypes
  <2>3. pointer' \in BOOLEAN
    BY <1>1
  <2>4. StoreTypes'
    BY <1>1, <2>3 DEF StoreTypes
  <2> QED
    BY <2>1, <2>2, <2>4
<1>7. JobInv' /\ LockInv'
  BY <1>1, <1>4, <1>6, NoJobIs DEF JobInv, LockInv, StoreTypes
<1>8. DoneInv'
  <2>1. \A d \in Seqs("done") : ~(d > durable)
    BY <1>1, NoJobIs DEF DoneInv
  <2> QED
    BY <1>1, <1>3, <2>1, NoJobIs DEF DoneInv
<1>9. OpInv' /\ WrittenIsUndoable'
  BY <1>1, <1>4, <1>5, <1>6, ToolsKept
<1> QED
  BY <1>5, <1>6, <1>7, <1>8, <1>9

----------------------------------------------------------------------------
LEMMA InitIInv == Init => IInv
<1> SUFFICES ASSUME Init PROVE IInv
  OBVIOUS
<1>1. /\ \E c \in Contents : disk = [p \in Paths |-> c]
      /\ records = <<>> /\ durable = 0 /\ proc = "up" /\ turn = 0 /\ running = FALSE
      /\ op = [w \in Writers |-> NoOp] /\ gate = [w \in Workers |-> TRUE]
      /\ pending = [w \in Workers |-> {}] /\ plan = NoPlan /\ job = NoJob
      /\ pointer = FALSE /\ undoable = {} /\ named = {}
      /\ spent = [writes |-> 0, edits |-> 0, faults |-> 0, crashes |-> 0, restores |-> 0]
  BY DEF Init
<1>2. spent \in [Bounds -> Nat] /\ spent["restores"] = 0
  BY <1>1 DEF Bounds
<1>3. records \in Seq(AllRecords) /\ Len(records) = 0 /\ DOMAIN records = {}
  BY <1>1
<1>4. StoreTypes
  <2>1. pointer \in BOOLEAN
    BY <1>1
  <2>2. durable \in 0..Len(records)
    BY <1>1, <1>3
  <2>3. spent["restores"] <= MaxRestores
    BY <1>2
  <2> QED
    BY <1>2, <1>3, <2>1, <2>2, <2>3 DEF StoreTypes
<1>5. ToolTypes
  <2>1. NoOp \in Ops
    BY DEF NoOp, Ops, OpPhases
  <2>2. disk \in [Paths -> Contents]
    BY <1>1
  <2>3. running \in BOOLEAN /\ ~running
    BY <1>1
  <2>4. turn \in 0..MaxTurns
    BY <1>1
  <2>5. op \in [Writers -> Ops]
    BY <1>1, <2>1
  <2>6. gate \in [Workers -> BOOLEAN] /\ pending \in [Workers -> SUBSET Nat]
    BY <1>1
  <2> QED
    BY <1>1, <2>2, <2>3, <2>4, <2>5, <2>6 DEF ToolTypes
<1>6. RestoreTypes /\ PlanInv
  BY <1>1, NoPlanIs, NoJobIs DEF RestoreTypes, PlanInv, NoPlan
<1>7. Starts = {} /\ Seqs("done") = {}
  BY <1>3 DEF Starts, Seqs
<1>8. JournalInv
  BY <1>7 DEF JournalInv
<1>9. OpInv /\ LockInv /\ JobInv
  BY <1>1, <1>3, NoJobIs DEF OpInv, LockInv, JobInv, OpOK, NoOp
<1>10. DoneInv
  BY <1>1, <1>7, NoJobIs DEF DoneInv, Undone
<1>11. WrittenIsUndoable
  BY <1>1 DEF WrittenIsUndoable
<1> QED
  BY <1>4, <1>5, <1>6, <1>8, <1>9, <1>10, <1>11 DEF IInv

LEMMA StutterStep == ASSUME IInv, UNCHANGED vars PROVE IInv'
<1>1. UNCHANGED <<disk, records, durable, proc, turn, running, op, gate, pending, plan, job,
                  pointer, spent, undoable, named>>
  BY DEF vars, procVars, opVars, jobVars, ghostVars
<1>2. Quiet /\ StoreTypes' /\ durable <= durable'
  BY <1>1, UnchangedQuiet DEF IInv, StoreTypes
<1>3. ToolTypes'
  BY <1>1 DEF IInv, ToolTypes
<1> QED
  BY <1>1, <1>2, <1>3, OuterStep DEF jobVars

LEMMA NextIInv == IInv /\ [Next]_vars => IInv'
<1> SUFFICES ASSUME IInv, [Next]_vars PROVE IInv'
  OBVIOUS
<1>1. CASE BeginTurn \/ EndTurn
  BY <1>1, TurnStep
<1>2. CASE \E w \in Writers : \/ \E p \in Paths : Capture(w, p)
                              \/ CaptureFlushed(w) \/ RevokeFlushed(w)
                              \/ ToolWrite(w) \/ ToolFails(w)
                              \/ PostImage(w) \/ PostFlushed(w)
  BY <1>2, CaptureStep, CommitStep, RestStep, WriteStep, PostStep
<1>3. CASE (\E w \in Workers : Handoff(w)) \/ Persist
  BY <1>3, HandoffStep, PersistStep
<1>4. CASE \E p \in Paths : HandEdit(p) \/ ApplyWrite(p) \/ ApplyFails(p)
  BY <1>4, HandEditStep, ApplyStep
<1>5. CASE \/ \E verb \in {"undo", "redo", "rewind"} : Request(verb)
           \/ \E skip \in BOOLEAN : Choose(skip)
           \/ Dismiss \/ Recover \/ BeginRestore \/ LogStart \/ WritePointer
  BY <1>5, RequestStep, PickStep, RecoverStep, BeginStep, LogStartStep, WritePointerStep
<1>6. CASE TakeLocks \/ ApplyLog \/ FinishRestore \/ ClearPointer
  BY <1>6, TakeLocksStep, ApplyLogStep, FinishStep, ClearStep
<1>7. CASE Crash \/ Launch \/ Recovered
  BY <1>7, CrashStep, LaunchStep, RecoveredStep
<1>8. CASE UNCHANGED vars
  BY <1>8, StutterStep
<1> QED
  BY <1>1, <1>2, <1>3, <1>4, <1>5, <1>6, <1>7, <1>8 DEF Next

LEMMA Invariance == Spec => []IInv
<1>1. Init => IInv
  BY InitIInv
<1>2. IInv /\ [Next]_vars => IInv'
  BY NextIInv
<1> QED
  BY <1>1, <1>2, PTL DEF Spec

(* The journal file is a prefix of the journal in memory, and every step   *)
(* in progress refers to a record it made, through every crash, replay and *)
(* handoff.                                                                *)
THEOREM TypeCorrect == Spec => []TypeOK
<1>1. IInv => TypeOK
  <2> SUFFICES ASSUME IInv PROVE TypeOK
    OBVIOUS
  <2> USE DEF IInv
  <2>1. \A i \in DOMAIN records : IsRecord(records[i])
    <3> SUFFICES ASSUME NEW i \in DOMAIN records PROVE IsRecord(records[i])
      OBVIOUS
    <3>1. records[i] \in AllRecords
      BY DEF StoreTypes
    <3>2. CASE records[i] \in Records
      BY <3>2 DEF IsRecord
    <3>3. CASE records[i] \in StartRecords
      <4>1. records[i].type = "start"
        BY <3>3 DEF StartRecords
      <4> QED
        BY <3>1, <4>1, StartShape DEF IsRecord, AllTurns
    <3> QED
      BY <3>1, <3>2, <3>3 DEF AllRecords
  <2>2. ASSUME NEW w \in Writers
        PROVE  /\ op[w].phase \in {"idle", "capturing", "revoking", "ready", "wrote", "posting"}
               /\ op[w].path \in Paths \cup {None} /\ op[w].ref \in 0..Len(records)
               /\ op[w].phase = "idle" <=> op[w].path = None
    <3>1. PICK o \in Ops : o = op[w] /\ OpOK(o)
      BY DEF ToolTypes, OpInv
    <3>2. /\ o.phase \in OpPhases /\ o.path \in Paths \cup {None} /\ o.ref \in Nat
          /\ Len(records) \in Nat
      BY DEF Ops, StoreTypes
    <3>3. o.phase = "idle" <=> o.path = None
      BY <3>1 DEF OpOK, NoOp
    <3>4. o.ref \in 0..Len(records)
      <4>1. CASE o.phase = "idle"
        BY <3>1, <3>2, <4>1 DEF OpOK, NoOp
      <4>2. CASE o.phase # "idle" /\ o.ref # 0
        <5>1. o.ref \in DOMAIN records
          BY <3>1, <3>2, <4>2 DEF OpOK, OpPhases, IsCapture, Seqs
        <5> QED
          BY <5>1 DEF StoreTypes
      <4> QED
        BY <3>2, <4>1, <4>2
    <3> QED
      BY <3>1, <3>2, <3>3, <3>4 DEF OpPhases
  <2>3. \A w \in Workers : pending[w] \subseteq Seqs("pre")
    BY DEF OpInv
  <2>4. /\ plan.phase \in {"none", "asking", "chosen"} /\ job.phase \in JobPhases
        /\ job.ref \in 0..Len(records) /\ job.left \subseteq Paths
    BY DEF RestoreTypes, JobInv, StoreTypes
  <2>5. job.phase \in {"started", "pointed", "applying", "closing"} =>
          \E i \in Seqs("start") : records[i].id = job.id
    BY DEF JobInv, Starts
  <2>6. /\ disk \in [Paths -> Contents] /\ durable \in 0..Len(records)
        /\ proc \in {"up", "down", "recovering"} /\ turn \in 0..MaxTurns /\ running \in BOOLEAN
        /\ gate \in [Workers -> BOOLEAN] /\ pointer \in BOOLEAN
    BY DEF StoreTypes, ToolTypes
  <2> QED
    BY <2>1, <2>2, <2>3, <2>4, <2>5, <2>6 DEF TypeOK, JobPhases
<1> QED
  BY <1>1, Invariance, PTL

(* "A write that cannot be undone must not happen": the pre-image of every *)
(* write a tool made under a capture is in the journal file, where the     *)
(* capture put it, and holds what the write destroyed, whenever the        *)
(* process dies.                                                           *)
THEOREM WritesUndoable == Spec => []WrittenIsUndoable
BY Invariance, PTL DEF IInv

(* Once a restore has its pointer, the pointer stays until undo:done is in *)
(* the journal file: the next launch finds every restore that may have     *)
(* touched a file and not finished.                                        *)
THEOREM PointerOutlives == Spec => []PointerOutlivesRestore
<1>1. IInv => PointerOutlivesRestore
  <2>1. LostRestores \subseteq Undone
    BY DEF LostRestores, Undone, Starts
  <2> QED
    BY <2>1 DEF IInv, DoneInv, PointerOutlivesRestore
<1> QED
  BY <1>1, Invariance, PTL

(* A restore told to keep diverged files overwrites no edit, whenever it   *)
(* was saved: the question is asked again under the path lock.             *)
THEOREM DivergedKept == Spec => KeepsDiverged
<1>1. IInv /\ [Next]_vars =>
        [\A p \in Paths :
           ApplyWrite(p) /\ JobStart.skip /\ Destroys(p, JobStart.files[p])
             => disk'[p] = disk[p]]_vars
  BY DEF ApplyWrite, DivergedNow, Destroys
<1> QED
  BY <1>1, Invariance, PTL DEF Spec, KeepsDiverged

----------------------------------------------------------------------------
(* /undo and /redo ask first.  An entry of a turn came to a recorded       *)
(* write, or its tool is still at work, or it died; and what a finished    *)
(* restore captured was recorded as written, or died.                      *)

RecordedBy(p, n) == \E j \in PostsOf(p) : j <= n
AtWork(i) == \E w \in Writers :
  /\ op[w].path = records[i].path
  /\ \/ op[w].phase \in {"capturing", "ready", "wrote"} /\ op[w].ref = i
     \/ op[w].phase = "posting" /\ op[w].ref \in PostsOf(records[i].path)
EntryInv ==
  \A i \in Entries : records[i].turn \in UserTurns =>
    i \in died \/ RecordedBy(records[i].path, durable) \/ AtWork(i)

(* A gate that is closed has nothing pending, a capture a tool still holds *)
(* is pending or revoked, and between turns only background workers write. *)
GateInv ==
  /\ \A w \in Workers :
       /\ ~gate[w] => pending[w] = {}
       /\ op[w].phase \in {"ready", "wrote"} /\ op[w].ref # 0 =>
            op[w].ref \in pending[w] \/ (~gate[w] /\ op[w].ref \in RevokedSeqs)
  /\ ~running => \A w \in Writers : MayJournal(w) => op[w] = NoOp

(* A redo point holds files of its restore's plan, and each of them is     *)
(* recorded as written when the restore is done.                           *)
RedoInv ==
  /\ \A i \in Seqs("pre") : records[i].turn <= MaxTurns + spent["restores"]
  /\ \A f \in Seqs("file") : \E s \in Starts : s < f /\ records[s].id = records[f].id
  /\ \A s \in Starts, i \in Seqs("pre") :
       records[i].turn = records[s].redo => records[i].path \in DOMAIN records[s].files
  /\ \A d \in Seqs("done"), i \in Seqs("pre") :
       records[i].turn = records[d].redo => i \in died \/ RecordedBy(records[i].path, d)
  /\ \A f \in Seqs("file"), s \in Starts, i \in Seqs("pre") :
       /\ records[f].id = records[s].id /\ records[i].turn = records[s].redo
       /\ records[i].path = records[f].path
       => i \in died \/ f + 1 \in PostsOf(records[i].path)
JobRedoInv ==
  /\ job.phase = "redo" => \A i \in Seqs("pre") :
       records[i].turn = RedoTurn(job.id) => records[i].path \in DOMAIN Applied
  /\ job.phase \in {"pointed", "applying"} => \A i \in Seqs("pre") :
       records[i].turn = JobStart.redo =>
         \/ records[i].path \in job.left \cup {job.logging}
         \/ i \in died \/ PostsOf(records[i].path) # {}

BInv == EntryInv /\ GateInv /\ RedoInv /\ JobRedoInv

LEMMA LogGrows ==
  ASSUME records \in Seq(AllRecords), NEW S, NEW rs \in Seq(S), Log(rs)
  PROVE  /\ Keeps /\ Len(records') = Len(records) + Len(rs)
         /\ \A i \in DOMAIN records' \ DOMAIN records :
              i - Len(records) \in DOMAIN rs /\ records'[i] = rs[i - Len(records)]
BY DEF Log, Keeps

LEMMA LogAdds ==
  ASSUME records \in Seq(AllRecords), NEW r, Log(<<r>>)
  PROVE  /\ Keeps /\ DOMAIN records' = DOMAIN records \cup {NextSeq}
         /\ NextSeq \notin DOMAIN records /\ records'[NextSeq] = r
         /\ \A i \in DOMAIN records' \ DOMAIN records : i = NextSeq
<1>1. <<r>> \in Seq({r}) /\ Len(<<r>>) = 1 /\ DOMAIN <<r>> = {1} /\ <<r>>[1] = r
  OBVIOUS
<1>2. PICK rs \in Seq({r}) : rs = <<r>> /\ Len(rs) = 1 /\ DOMAIN rs = {1} /\ rs[1] = r
  BY <1>1
<1>3. Log(rs)
  BY <1>2
<1>4. /\ records' = records \o rs /\ Len(records) \in Nat
      /\ DOMAIN records = 1..Len(records)
  BY <1>3 DEF Log
<1>5. Keeps /\ Len(records') = NextSeq
  BY <1>2, <1>3, LogGrows DEF NextSeq
<1>6. DOMAIN records' = 1..NextSeq
  <2>1. records' \in Seq(AllRecords \cup {r})
    BY <1>2, <1>4
  <2> QED
    BY <1>5, <2>1
<1>7. records'[NextSeq] = r
  BY <1>2, <1>4 DEF NextSeq
<1> QED
  BY <1>4, <1>5, <1>6, <1>7 DEF NextSeq

(* What a step adds to the journal, the death of the process apart: which  *)
(* step adds a capture, a start, a file or a done.                         *)
AddsPre(i)   == \E w \in Writers, p \in Paths :
                  /\ Capture(w, p) /\ MayJournal(w) /\ i = NextSeq
                  /\ records'[i] = Pre(turn, p, disk[p]) /\ turn \in UserTurns
AddsRedo(i)  == /\ BeginRestore /\ spent'["restores"] = spent["restores"] + 1
                /\ records'[i].turn = RedoTurn(spent["restores"] + 1)
                /\ records'[i].path \in DOMAIN Applied
Adds(i) ==
  \/ records'[i].type \in {"post", "revoke", "finalize"}
  \/ records'[i].type = "pre" /\ (AddsPre(i) \/ AddsRedo(i))
  \/ records'[i].type = "start" /\ LogStart /\ i = NextSeq
  \/ records'[i].type = "done" /\ FinishRestore /\ i = NextSeq
  \/ records'[i].type = "file" /\ ApplyLog /\ i = NextSeq
Grown == /\ Keeps /\ durable <= durable' /\ died \subseteq died'
         /\ spent["restores"] <= spent'["restores"]
         /\ \A i \in DOMAIN records' \ DOMAIN records : Adds(i)

LEMMA GrownOne ==
  ASSUME IInv, NEW r, Log(<<r>>), durable' = durable, died' = died,
         spent'["restores"] = spent["restores"],
         records'[NextSeq] = r => Adds(NextSeq)
  PROVE  Grown
<1>1. durable <= durable' /\ spent["restores"] <= spent'["restores"]
  BY DEF IInv, StoreTypes, Bounds
<1> QED
  BY <1>1, LogAdds DEF Grown, IInv, StoreTypes

LEMMA GrownSame ==
  ASSUME IInv, UNCHANGED records, durable <= durable', died \subseteq died',
         spent["restores"] <= spent'["restores"]
  PROVE  Grown
BY DEF Grown, Keeps, IInv, StoreTypes

LEMMA GrownTool ==
  ASSUME IInv, NEW w \in Writers,
         \/ \E p \in Paths : Capture(w, p)
         \/ CaptureFlushed(w) \/ RevokeFlushed(w) \/ ToolWrite(w) \/ ToolFails(w)
         \/ PostImage(w) \/ PostFlushed(w)
  PROVE  Grown
<1> USE DEF IInv
<1>1. durable' = durable /\ spent'["restores"] = spent["restores"] /\ spent["restores"] \in Nat
  <2>1. spent["restores"] \in Nat
    BY DEF StoreTypes, Bounds
  <2>2. CASE \E p \in Paths : Capture(w, p)
    BY <2>1, <2>2, SpendOne DEF Capture, Bounds
  <2>3. CASE ToolFails(w)
    BY <2>1, <2>3, SpendOne DEF ToolFails, Bounds
  <2>4. CASE \/ CaptureFlushed(w) \/ RevokeFlushed(w) \/ ToolWrite(w) \/ PostImage(w)
             \/ PostFlushed(w)
    BY <2>1, <2>4 DEF CaptureFlushed, Commit, RevokeFlushed, ToolWrite, PostImage, PostFlushed
  <2> QED
    BY <2>2, <2>3, <2>4, <2>1
<1>2. CASE \E p \in Paths : Capture(w, p)
  <2>1. PICK p \in Paths : Capture(w, p)
    BY <1>2
  <2>2. CASE MayJournal(w)
    <3>1. turn \in UserTurns
      BY <2>1, <2>2 DEF Capture, MayJournal, ToolTypes, UserTurns, Writers
    <3>2. PICK r : r = Pre(turn, p, disk[p])
      OBVIOUS
    <3>3. r.type = "pre" /\ Log(<<r>>) /\ died' = died
      BY <2>1, <2>2, <3>2 DEF Pre, Capture, ghostVars
    <3>4. records'[NextSeq] = r => Adds(NextSeq)
      BY <2>1, <2>2, <3>1, <3>2, <3>3 DEF Adds, AddsPre
    <3> QED
      BY <1>1, <3>3, <3>4, GrownOne
  <2>3. CASE ~MayJournal(w)
    BY <1>1, <2>1, <2>3, GrownSame DEF Capture, ghostVars, StoreTypes
  <2> QED
    BY <2>2, <2>3
<1>3. CASE CaptureFlushed(w)
  <2>1. CASE MayJournal(w)
    BY <1>1, <1>3, <2>1, GrownSame DEF CaptureFlushed, Commit, ghostVars, StoreTypes
  <2>2. CASE ~MayJournal(w)
    <3>1. PICK r : r = Revoke(op[w].ref)
      OBVIOUS
    <3>2. r.type = "revoke" /\ Log(<<r>>) /\ died' = died
      BY <1>3, <2>2, <3>1 DEF Revoke, CaptureFlushed, Commit, ghostVars
    <3> QED
      BY <1>1, <3>2, GrownOne DEF Adds
  <2> QED
    BY <2>1, <2>2
<1>4. CASE RevokeFlushed(w) \/ ToolWrite(w) \/ ToolFails(w) \/ PostFlushed(w)
  <2>1. UNCHANGED records /\ died \subseteq died' /\ durable <= durable'
    BY <1>1, <1>4 DEF RevokeFlushed, ToolWrite, ToolFails, PostFlushed, ghostVars, StoreTypes
  <2>2. spent["restores"] <= spent'["restores"]
    BY <1>1
  <2> QED
    BY <2>1, <2>2, GrownSame
<1>5. CASE PostImage(w)
  <2>1. CASE UNCHANGED records
    BY <1>1, <1>5, <2>1, GrownSame DEF PostImage, ghostVars, StoreTypes
  <2>2. CASE Log(<<Post(op[w].path, disk[op[w].path])>>)
    <3>1. PICK r : r = Post(op[w].path, disk[op[w].path])
      OBVIOUS
    <3>2. r.type = "post" /\ Log(<<r>>) /\ died' = died
      BY <1>5, <2>2, <3>1 DEF Post, PostImage, ghostVars
    <3> QED
      BY <1>1, <3>2, GrownOne DEF Adds
  <2> QED
    BY <1>5, <2>1, <2>2 DEF PostImage
<1> QED
  BY <1>2, <1>3, <1>4, <1>5

LEMMA GrownOuter ==
  ASSUME IInv, \/ BeginTurn \/ EndTurn \/ Persist \/ \E w \in Workers : Handoff(w)
               \/ \E p \in Paths : HandEdit(p) \/ ApplyWrite(p) \/ ApplyFails(p)
  PROVE  Grown
<1> USE DEF IInv
<1>1. spent["restores"] \in Nat /\ durable \in Nat
  BY DEF StoreTypes, Bounds
<1>2. CASE BeginTurn \/ Persist
  BY <1>1, <1>2, GrownSame DEF BeginTurn, Persist, ghostVars
<1>3. CASE EndTurn
  <2>1. UNCHANGED <<durable, died, spent>>
    BY <1>3 DEF EndTurn, ghostVars
  <2>2. CASE UNCHANGED records
    BY <1>1, <2>1, <2>2, GrownSame
  <2>3. CASE Log(<<Finalize(turn)>>)
    <3>1. PICK r : r = Finalize(turn)
      OBVIOUS
    <3>2. r.type = "finalize" /\ Log(<<r>>)
      BY <2>3, <3>1 DEF Finalize
    <3> QED
      BY <2>1, <3>2, GrownOne DEF Adds
  <2> QED
    BY <1>3, <2>2, <2>3 DEF EndTurn
<1>4. ASSUME NEW w \in Workers, Handoff(w) PROVE Grown
  <2>1. UNCHANGED <<durable, died, spent>> /\ Log(DropsOf(w))
    BY <1>4 DEF Handoff
  <2>2. /\ DropsOf(w) \in Seq(AllRecords)
        /\ \A k \in DOMAIN DropsOf(w) : DropsOf(w)[k].type = "revoke"
    BY DropsAre
  <2>3. Keeps /\ \A i \in DOMAIN records' \ DOMAIN records : records'[i].type = "revoke"
    BY <2>1, <2>2, LogKeeps DEF StoreTypes
  <2> QED
    BY <1>1, <2>1, <2>3 DEF Grown, Adds
<1>5. ASSUME NEW p \in Paths, HandEdit(p) \/ ApplyWrite(p) \/ ApplyFails(p) PROVE Grown
  <2>1. spent'["restores"] = spent["restores"]
    <3>1. CASE HandEdit(p)
      BY <3>1, SpendOne DEF HandEdit, Bounds
    <3>2. CASE ApplyFails(p)
      BY <3>2, SpendOne DEF ApplyFails, Bounds
    <3>3. CASE ApplyWrite(p)
      BY <3>3 DEF ApplyWrite
    <3> QED
      BY <1>5, <3>1, <3>2, <3>3
  <2>2. UNCHANGED <<records, durable>> /\ died \subseteq died'
    BY <1>5 DEF HandEdit, ApplyWrite, ApplyFails
  <2> QED
    BY <1>1, <2>1, <2>2, GrownSame
<1> QED
  BY <1>2, <1>3, <1>4, <1>5

LEMMA GrownRestore ==
  ASSUME IInv, \/ \E verb \in {"undo", "redo", "rewind"} : Request(verb)
               \/ \E skip \in BOOLEAN : Choose(skip)
               \/ Dismiss \/ Recover \/ BeginRestore \/ LogStart \/ WritePointer
               \/ TakeLocks \/ ApplyLog \/ FinishRestore \/ ClearPointer
               \/ Launch \/ Recovered \/ UNCHANGED vars
  PROVE  Grown
<1> USE DEF IInv
<1>1. spent["restores"] \in Nat /\ durable \in Nat
  BY DEF StoreTypes, Bounds
<1>2. CASE \/ \E verb \in {"undo", "redo", "rewind"} : Request(verb)
           \/ \E skip \in BOOLEAN : Choose(skip)
           \/ Dismiss \/ Recover \/ WritePointer \/ TakeLocks \/ ClearPointer
           \/ Launch \/ Recovered \/ UNCHANGED vars
  <2>1. UNCHANGED <<records, durable, spent, died>>
    BY <1>2 DEF Request, Choose, Dismiss, Recover, Replay, WritePointer, TakeLocks, ClearPointer,
                Launch, Recovered, vars, ghostVars
  <2> QED
    BY <1>1, <2>1, GrownSame
<1>3. CASE BeginRestore
  <2>1. UNCHANGED <<durable, died>>
    BY <1>3 DEF BeginRestore, ghostVars
  <2>2. CASE UNCHANGED <<records, spent>>
    BY <1>1, <2>1, <2>2, GrownSame
  <2>3. CASE /\ Spend("restores", MaxRestores)
             /\ \E rs \in RedoPoints(spent.restores + 1) : Log(rs)
    <3> DEFINE id == spent["restores"] + 1
    <3>1. id \in 1..MaxRestores /\ spent'["restores"] = id
      BY <2>3 DEF Spend, StoreTypes, Bounds
    <3>2. PICK rs \in RedoPoints(id) : Log(rs)
      BY <2>3
    <3>3. plan.phase # "none"
      BY <1>3 DEF BeginRestore
    <3>4. /\ rs \in Seq(AllRecords)
          /\ \A k \in DOMAIN rs :
              \/ rs[k].type = "finalize"
              \/ /\ rs[k].type = "pre" /\ rs[k].turn = RedoTurn(id)
                 /\ rs[k].path \in DOMAIN Applied
      BY <3>1, <3>3, RedoPointsAre
    <3>5. Keeps /\ \A i \in DOMAIN records' \ DOMAIN records :
                     i - Len(records) \in DOMAIN rs /\ records'[i] = rs[i - Len(records)]
      BY <3>2, <3>4, LogKeeps DEF StoreTypes
    <3>6. \A i \in DOMAIN records' \ DOMAIN records : Adds(i)
      BY <1>3, <3>1, <3>4, <3>5 DEF Adds, AddsRedo
    <3>7. spent["restores"] <= spent'["restores"]
      BY <1>1, <3>1
    <3> QED
      BY <1>1, <2>1, <3>5, <3>6, <3>7 DEF Grown
  <2> QED
    BY <1>3, <2>2, <2>3 DEF BeginRestore
<1>4. CASE LogStart
  <2>1. PICK r : r = Start(job.id, plan.target, RedoOf(job.id), plan.skip, Applied)
    OBVIOUS
  <2>2. r.type = "start" /\ Log(<<r>>) /\ UNCHANGED <<durable, died, spent>>
    BY <1>4, <2>1 DEF Start, LogStart, ghostVars
  <2> QED
    BY <1>4, <2>2, GrownOne DEF Adds
<1>5. CASE FinishRestore
  <2>1. PICK r : r = Done(job.id, JobStart.redo)
    OBVIOUS
  <2>2. r.type = "done" /\ Log(<<r>>) /\ UNCHANGED <<durable, died, spent>>
    BY <1>5, <2>1 DEF Done, FinishRestore, ghostVars
  <2> QED
    BY <1>5, <2>2, GrownOne DEF Adds
<1>6. CASE ApplyLog
  <2>1. PICK r, q : /\ r = FileDone(job.id, job.logging)
                    /\ q = Post(job.logging, JobStart.files[job.logging])
    OBVIOUS
  <2>2. PICK rs : rs = <<r, q>>
    OBVIOUS
  <2>3. /\ r.type = "file" /\ q.type = "post" /\ Log(rs) /\ UNCHANGED <<durable, died, spent>>
    BY <1>6, <2>1, <2>2 DEF FileDone, Post, ApplyLog, ghostVars
  <2>4. rs \in Seq({r, q}) /\ DOMAIN rs = {1, 2} /\ rs[1] = r /\ rs[2] = q
    BY <2>2
  <2>5. Keeps /\ \A i \in DOMAIN records' \ DOMAIN records :
                   i - Len(records) \in DOMAIN rs /\ records'[i] = rs[i - Len(records)]
    BY <2>3, <2>4, LogGrows DEF StoreTypes
  <2>6. ASSUME NEW i \in DOMAIN records' \ DOMAIN records PROVE Adds(i)
    <3>1. i \in Nat /\ Len(records) \in Nat
      <4>1. records' \in Seq(AllRecords \cup {r, q})
        BY <2>3, <2>4 DEF Log, StoreTypes
      <4> QED
        BY <4>1 DEF StoreTypes
    <3>2. CASE i - Len(records) = 1
      BY <1>6, <2>3, <2>4, <2>5, <3>1, <3>2 DEF Adds, NextSeq
    <3>3. CASE i - Len(records) = 2
      BY <2>3, <2>4, <2>5, <3>3 DEF Adds
    <3> QED
      BY <2>4, <2>5, <3>2, <3>3
  <2> QED
    BY <1>1, <2>3, <2>5, <2>6 DEF Grown
<1> QED
  BY <1>2, <1>3, <1>4, <1>5, <1>6

LEMMA StepGrows == ASSUME IInv, [Next]_vars, ~Crash PROVE Grown
BY GrownTool, GrownOuter, GrownRestore DEF Next

(* What was in the journal stays in it: its records, its posts, what it    *)
(* revoked.                                                                *)
LEMMA GrownKeeps ==
  ASSUME IInv, IInv', Grown
  PROVE  /\ \A type : \A i \in Seqs(type) : i \in Seqs(type)' /\ records'[i] = records[i]
         /\ \A p : PostsOf(p) \subseteq PostsOf(p)'
         /\ \A r \in RevokedSeqs : r \in RevokedSeqs'
         /\ \A p, n : RecordedBy(p, n) => RecordedBy(p, n)'
         /\ \A p : RecordedBy(p, durable) => RecordedBy(p, durable)'
<1>1. \A i \in DOMAIN records : i \in DOMAIN records' /\ records'[i] = records[i]
  BY DEF Grown, Keeps
<1>2. \A type : \A i \in Seqs(type) : i \in Seqs(type)' /\ records'[i] = records[i]
  BY <1>1 DEF Seqs
<1>3. \A p : PostsOf(p) \subseteq PostsOf(p)'
  BY <1>2 DEF PostsOf
<1>4. \A r \in RevokedSeqs : r \in RevokedSeqs'
  BY <1>2 DEF RevokedSeqs
<1>5. \A p, n : RecordedBy(p, n) => RecordedBy(p, n)'
  BY <1>3 DEF RecordedBy
<1>6. \A p : RecordedBy(p, durable) => RecordedBy(p, durable)'
  <2>1. \A p : \A j \in PostsOf(p) : j \in Nat
    BY DEF PostsOf, Seqs, IInv, StoreTypes
  <2>2. durable \in Nat /\ durable' \in Nat /\ durable <= durable'
    BY DEF Grown, IInv, StoreTypes
  <2> QED
    BY <1>3, <2>1, <2>2 DEF RecordedBy
<1> QED
  BY <1>2, <1>3, <1>4, <1>5, <1>6

LEMMA CapturedBy ==
  ASSUME IInv, Grown, NEW i \in Seqs("pre")' \ Seqs("pre")
  PROVE  AddsPre(i) \/ AddsRedo(i)
<1>1. i \in DOMAIN records' \ DOMAIN records
  BY DEF Grown, Keeps, Seqs
<1> QED
  BY <1>1 DEF Grown, Adds, Seqs

(* A new entry of a turn belongs to the tool that captured it.             *)
LEMMA NewAtWork ==
  ASSUME IInv, Grown, NEW i \in Seqs("pre")' \ Seqs("pre"), records'[i].turn \in UserTurns
  PROVE  AtWork(i)'
<1>1. CASE AddsPre(i)
  <2>1. PICK w \in Writers, p \in Paths :
          /\ Capture(w, p) /\ MayJournal(w) /\ i = NextSeq /\ records'[i].path = p
    BY <1>1 DEF AddsPre, Pre
  <2>2. op'[w] = [phase |-> "capturing", path |-> p, ref |-> i]
    BY <2>1 DEF Capture, IInv, ToolTypes
  <2> QED
    BY <2>1, <2>2 DEF AtWork
<1>2. CASE AddsRedo(i)
  <2>1. spent["restores"] \in Nat
    BY DEF IInv, StoreTypes, Bounds
  <2> QED
    BY <1>2, <2>1 DEF AddsRedo, RedoTurn, UserTurns
<1> QED
  BY <1>1, <1>2, CapturedBy

LEMMA EntriesKept ==
  ASSUME IInv, IInv', EntryInv, Grown,
         \A i \in Entries, w \in Writers :
           /\ op[w].path = records[i].path /\ op'[w] # op[w] /\ i \in Entries'
           /\ \/ op[w].phase \in {"capturing", "ready", "wrote"} /\ op[w].ref = i
              \/ op[w].phase = "posting" /\ op[w].ref \in PostsOf(records[i].path)
           => i \in died' \/ RecordedBy(records[i].path, durable)' \/ AtWork(i)'
  PROVE  EntryInv'
<1> SUFFICES ASSUME NEW i \in Entries', records'[i].turn \in UserTurns
             PROVE  i \in died' \/ RecordedBy(records[i].path, durable)' \/ AtWork(i)'
  BY DEF EntryInv
<1>1. i \in Seqs("pre")' /\ i \notin RevokedSeqs'
  BY DEF Entries
<1>2. CASE i \notin Seqs("pre")
  BY <1>1, <1>2, NewAtWork
<1>3. CASE i \in Seqs("pre")
  <2>1. i \in Entries /\ records'[i] = records[i]
    BY <1>1, <1>3, GrownKeeps DEF Entries
  <2>2. CASE i \in died
    BY <2>2 DEF Grown
  <2>3. CASE RecordedBy(records[i].path, durable)
    BY <2>1, <2>3, GrownKeeps
  <2>4. CASE AtWork(i)
    <3>1. PICK w \in Writers :
            /\ op[w].path = records[i].path
            /\ \/ op[w].phase \in {"capturing", "ready", "wrote"} /\ op[w].ref = i
               \/ op[w].phase = "posting" /\ op[w].ref \in PostsOf(records[i].path)
      BY <2>4 DEF AtWork
    <3>2. CASE op'[w] = op[w]
      <4>1. PICK p : p = records[i].path
        OBVIOUS
      <4>2. p = records'[i].path /\ PostsOf(p) \subseteq PostsOf(p)'
        BY <2>1, <4>1, GrownKeeps
      <4> QED
        BY <3>1, <3>2, <4>1, <4>2 DEF AtWork
    <3> QED
      BY <2>1, <3>1, <3>2
  <2> QED
    BY <2>1, <2>2, <2>3, <2>4 DEF EntryInv
<1> QED
  BY <1>2, <1>3

LEMMA EntryShape ==
  ASSUME IInv, IInv', Grown, NEW i \in Entries, i \in Entries'
  PROVE  /\ i \in Seqs("pre") /\ i \notin RevokedSeqs /\ i \notin RevokedSeqs'
         /\ records'[i] = records[i] /\ records[i].path \in Paths /\ i # 0
<1>1. i \in Seqs("pre") /\ i \notin RevokedSeqs
  BY DEF Entries
<1>2. i \notin RevokedSeqs'
  BY DEF Entries
<1>3. records[i] \in AllRecords /\ records[i].type = "pre" /\ i # 0
  BY <1>1 DEF Seqs, IInv, StoreTypes
<1> QED
  BY <1>1, <1>2, <1>3, RecordShape, GrownKeeps

(* A tool's own entry, after its step.                                     *)
LEMMA ToolEntries ==
  ASSUME IInv, IInv', StoreTypes, ToolTypes, OpInv, EntryInv, GateInv, Grown,
         NEW w \in Writers,
         \/ \E p \in Paths : Capture(w, p)
         \/ CaptureFlushed(w) \/ RevokeFlushed(w) \/ ToolWrite(w) \/ ToolFails(w)
         \/ PostImage(w) \/ PostFlushed(w)
  PROVE  EntryInv'
<1>1. \A v \in Writers : v # w => op'[v] = op[v]
  BY DEF Capture, CaptureFlushed, Commit, RevokeFlushed, ToolWrite, ToolFails, PostImage,
         PostFlushed, ToolTypes
<1>2. ASSUME NEW i \in Entries, op[w].path = records[i].path, i \in Entries',
             \/ op[w].phase \in {"capturing", "ready", "wrote"} /\ op[w].ref = i
             \/ op[w].phase = "posting" /\ op[w].ref \in PostsOf(records[i].path)
      PROVE  i \in died' \/ RecordedBy(records[i].path, durable)' \/ AtWork(i)'
  <2>1. /\ i \in Seqs("pre") /\ i \notin RevokedSeqs /\ i \notin RevokedSeqs'
        /\ records'[i] = records[i] /\ records[i].path \in Paths /\ i # 0
    BY <1>2, EntryShape
  <2>2. PICK u \in Ops : u = op[w] /\ OpOK(u)
    BY DEF ToolTypes, OpInv
  <2>3. CASE \E p \in Paths : Capture(w, p)
    BY <1>2, <2>1, <2>3 DEF Capture, NoOp
  <2>4. CASE CaptureFlushed(w)
    <3>1. u.phase = "capturing" /\ u.ref = i
      BY <1>2, <2>2, <2>4 DEF CaptureFlushed
    <3>2. CASE MayJournal(w)
      <4>1. PICK o : o = [u EXCEPT !.phase = "ready"]
        OBVIOUS
      <4>2. o.phase = "ready" /\ o.ref = u.ref /\ o.path = u.path
        BY <4>1 DEF Ops
      <4>3. op'[w] = o
        BY <2>2, <2>4, <3>2, <4>1 DEF CaptureFlushed, Commit, ToolTypes
      <4> QED
        BY <1>2, <2>1, <2>2, <3>1, <4>2, <4>3 DEF AtWork
    <3>3. CASE ~MayJournal(w)
      <4>1. PICK r : r = Revoke(i)
        OBVIOUS
      <4>2. Log(<<r>>) /\ r.type = "revoke" /\ r.ref = i
        BY <2>2, <2>4, <3>1, <3>3, <4>1 DEF CaptureFlushed, Commit, Revoke
      <4>3. records'[NextSeq] = r /\ NextSeq \in DOMAIN records'
        BY <4>2, LogAdds DEF StoreTypes
      <4> QED
        BY <2>1, <4>2, <4>3 DEF RevokedSeqs, Seqs
    <3> QED
      BY <3>2, <3>3
  <2>5. CASE RevokeFlushed(w)
    BY <1>2, <2>5 DEF RevokeFlushed
  <2>6. CASE ToolWrite(w)
    <3>1. u.phase = "ready" /\ u.ref = i
      BY <1>2, <2>2, <2>6 DEF ToolWrite
    <3>2. PICK o : o = [u EXCEPT !.phase = "wrote"]
      OBVIOUS
    <3>3. o.phase = "wrote" /\ o.ref = u.ref /\ o.path = u.path
      BY <3>2 DEF Ops
    <3>4. op'[w] = o
      BY <2>2, <2>6, <3>2 DEF ToolWrite, ToolTypes
    <3> QED
      BY <1>2, <2>1, <2>2, <3>1, <3>3, <3>4 DEF AtWork
  <2>7. CASE ToolFails(w)
    BY <1>2, <2>1, <2>7 DEF ToolFails
  <2>8. CASE PostImage(w)
    <3>1. u.phase = "wrote" /\ u.ref = i
      BY <1>2, <2>2, <2>8 DEF PostImage
    <3>2. CASE MayJournal(w) \/ op[w].ref \in pending[w]
      <4> DEFINE n == NextSeq
      <4>1. PICK o : o = [u EXCEPT !.phase = "posting", !.ref = n]
        OBVIOUS
      <4>2. PICK r : r = Post(u.path, disk[u.path])
        OBVIOUS
      <4>3. /\ op' = [op EXCEPT ![w] = o] /\ Log(<<r>>)
        BY <2>2, <2>8, <3>2, <4>1, <4>2 DEF PostImage
      <4>4. r.type = "post" /\ r.path = u.path
        BY <4>2 DEF Post
      <4>5. records'[n] = r /\ n \in DOMAIN records'
        BY <4>3, LogAdds DEF StoreTypes
      <4> HIDE DEF n
      <4>6. o.phase = "posting" /\ o.ref = n /\ o.path = u.path
        BY <4>1 DEF Ops
      <4>7. op'[w] = o
        BY <4>3 DEF ToolTypes
      <4>8. n \in PostsOf(u.path)'
        BY <4>4, <4>5 DEF PostsOf, Seqs
      <4> QED
        BY <1>2, <2>1, <2>2, <4>6, <4>7, <4>8 DEF AtWork
    <3>3. CASE ~(MayJournal(w) \/ op[w].ref \in pending[w])
      <4>1. w \in Workers
        BY <3>3 DEF MayJournal, Writers
      <4>2. op[w].ref \in RevokedSeqs
        BY <2>1, <2>2, <3>1, <3>3, <4>1 DEF GateInv
      <4> QED
        BY <2>1, <2>2, <3>1, <4>2
    <3> QED
      BY <3>2, <3>3
  <2>9. CASE PostFlushed(w)
    <3>1. op[w].ref \in PostsOf(records[i].path) /\ durable >= op[w].ref /\ durable' = durable
      BY <1>2, <2>9 DEF PostFlushed
    <3>2. op[w].ref \in Nat /\ durable \in Nat
      BY <2>2 DEF Ops, StoreTypes
    <3>3. RecordedBy(records[i].path, durable)
      BY <3>1, <3>2 DEF RecordedBy
    <3> QED
      BY <2>1, <3>3, GrownKeeps
  <2> QED
    BY <2>3, <2>4, <2>5, <2>6, <2>7, <2>8, <2>9
<1> QED
  BY <1>1, <1>2, EntriesKept

(* The tools' gates.                                                       *)
LEMMA GatesKept ==
  ASSUME IInv, IInv', GateInv, Grown, UNCHANGED opVars,
         ~running' => ~running \/ \A w \in Writers : MayJournal(w) => op[w] = NoOp
  PROVE  GateInv'
<1>1. UNCHANGED <<op, gate, pending>> /\ \A r \in RevokedSeqs : r \in RevokedSeqs'
  BY GrownKeeps DEF opVars
<1> QED
  BY <1>1 DEF GateInv, MayJournal

LEMMA HandoffGates ==
  ASSUME IInv, IInv', StoreTypes, ToolTypes, OpInv, GateInv, Grown,
         NEW w \in Workers, Handoff(w)
  PROVE  GateInv'
<1>1. /\ running /\ running' = running /\ op' = op /\ gate' = [gate EXCEPT ![w] = FALSE]
      /\ pending' = [pending EXCEPT ![w] = {}] /\ Log(DropsOf(w))
  BY DEF Handoff, procVars
<1>2. \A r \in RevokedSeqs : r \in RevokedSeqs'
  BY GrownKeeps
<1>3. \A r \in pending[w] : r \in RevokedSeqs'
  <2> SUFFICES ASSUME NEW r \in pending[w] \ RevokedSeqs PROVE r \in RevokedSeqs'
    BY <1>2
  <2>1. PICK k \in DOMAIN DropsOf(w) : DropsOf(w)[k] = Revoke(r)
    BY DropsAre
  <2>2. Len(records) + k \in DOMAIN records' /\ records'[Len(records) + k] = Revoke(r)
    BY <1>1, <2>1, DropsAre, LogKeeps DEF StoreTypes
  <2> QED
    BY <2>2 DEF RevokedSeqs, Seqs, Revoke
<1>4. \A v \in Workers : /\ gate'[v] = IF v = w THEN FALSE ELSE gate[v]
                         /\ pending'[v] = IF v = w THEN {} ELSE pending[v]
  BY <1>1 DEF ToolTypes
<1> QED
  BY <1>1, <1>2, <1>3, <1>4 DEF GateInv

LEMMA ToolGates ==
  ASSUME IInv, IInv', StoreTypes, ToolTypes, OpInv, EntryInv, GateInv, Grown,
         NEW w \in Writers,
         \/ \E p \in Paths : Capture(w, p)
         \/ CaptureFlushed(w) \/ RevokeFlushed(w) \/ ToolWrite(w) \/ ToolFails(w)
         \/ PostImage(w) \/ PostFlushed(w)
  PROVE  GateInv'
<1>1. /\ \A v \in Writers : v # w => op'[v] = op[v]
      /\ \A v \in Workers : v # w => pending'[v] = pending[v]
      /\ gate' = gate /\ running' = running
  BY DEF Capture, CaptureFlushed, Commit, RevokeFlushed, ToolWrite, ToolFails, PostImage,
         PostFlushed, ToolTypes, procVars
<1>2. \A r \in RevokedSeqs : r \in RevokedSeqs'
  BY GrownKeeps
<1>3. PICK u \in Ops : u = op[w] /\ OpOK(u)
  BY DEF ToolTypes, OpInv
<1>4. ~running => ~MayJournal(w)
  <2>1. CASE \E p \in Paths : Capture(w, p)
    BY <2>1 DEF Capture, MayJournal, NamesAssumption
  <2>2. CASE \/ CaptureFlushed(w) \/ RevokeFlushed(w) \/ ToolWrite(w) \/ ToolFails(w)
             \/ PostImage(w) \/ PostFlushed(w)
    <3>1. op[w] # NoOp
      BY <2>2 DEF CaptureFlushed, RevokeFlushed, ToolWrite, ToolFails, PostImage, PostFlushed, NoOp
    <3> QED
      BY <3>1 DEF GateInv
  <2> QED
    BY <2>1, <2>2
<1>5. ~running' => \A v \in Writers : MayJournal(v)' => op'[v] = NoOp
  BY <1>1, <1>4 DEF GateInv, MayJournal
<1>6. ASSUME w \in Workers
      PROVE  /\ ~gate[w] => pending'[w] = {}
             /\ op'[w].phase \in {"ready", "wrote"} /\ op'[w].ref # 0 =>
                  op'[w].ref \in pending'[w] \/ (~gate[w] /\ op'[w].ref \in RevokedSeqs')
  <2>1. w # Main /\ (MayJournal(w) <=> gate[w])
    BY <1>6 DEF MayJournal
  <2>2. ~gate[w] => pending[w] = {}
    BY <1>6 DEF GateInv
  <2>3. CASE \E p \in Paths : Capture(w, p)
    BY <1>6, <2>1, <2>2, <2>3 DEF Capture, ToolTypes
  <2>4. CASE CaptureFlushed(w)
    <3>1. CASE MayJournal(w)
      <4>1. PICK o : o = [u EXCEPT !.phase = "ready"]
        OBVIOUS
      <4>2. o.phase = "ready" /\ o.ref = u.ref /\ o.path = u.path
        BY <4>1 DEF Ops
      <4>3. op'[w] = o /\ pending'[w] = pending[w] \cup {u.ref}
        BY <1>3, <1>6, <2>1, <2>4, <3>1, <4>1 DEF CaptureFlushed, Commit, ToolTypes
      <4> QED
        BY <2>1, <2>2, <3>1, <4>2, <4>3
    <3>2. CASE ~MayJournal(w)
      <4> DEFINE n == NextSeq
      <4>1. PICK o : o = [u EXCEPT !.phase = "revoking", !.ref = n]
        OBVIOUS
      <4>2. op'[w] = o /\ pending' = pending
        BY <1>3, <2>4, <3>2, <4>1 DEF CaptureFlushed, Commit, ToolTypes
      <4> HIDE DEF n
      <4>3. o.phase = "revoking"
        BY <4>1 DEF Ops
      <4> QED
        BY <2>2, <4>2, <4>3
    <3> QED
      BY <3>1, <3>2
  <2>5. CASE RevokeFlushed(w)
    <3>1. PICK o : o = [u EXCEPT !.phase = "ready", !.ref = 0]
      OBVIOUS
    <3>2. op'[w] = o /\ pending' = pending
      BY <1>3, <2>5, <3>1 DEF RevokeFlushed, ToolTypes
    <3>3. o.ref = 0
      BY <3>1 DEF Ops
    <3> QED
      BY <2>2, <3>2, <3>3
  <2>6. CASE ToolWrite(w)
    <3>1. PICK o : o = [u EXCEPT !.phase = "wrote"]
      OBVIOUS
    <3>2. o.phase = "wrote" /\ o.ref = u.ref
      BY <3>1 DEF Ops
    <3>3. op'[w] = o /\ pending' = pending /\ u.phase = "ready"
      BY <1>3, <2>6, <3>1 DEF ToolWrite, ToolTypes
    <3>4. u.ref # 0 => u.ref \in pending[w] \/ (~gate[w] /\ u.ref \in RevokedSeqs)
      BY <1>3, <1>6, <3>3 DEF GateInv
    <3> QED
      BY <1>2, <2>2, <3>2, <3>3, <3>4
  <2>7. CASE ToolFails(w) \/ PostFlushed(w)
    BY <2>2, <2>7 DEF ToolFails, PostFlushed, ToolTypes, NoOp
  <2>8. CASE PostImage(w)
    <3>1. pending'[w] = pending[w] \ {op[w].ref}
      BY <1>6, <2>1, <2>8 DEF PostImage, ToolTypes
    <3>2. op'[w].phase \notin {"ready", "wrote"}
      <4>1. CASE op' = [op EXCEPT ![w] = NoOp]
        BY <4>1 DEF ToolTypes, NoOp
      <4>2. CASE op' = [op EXCEPT ![w] = [@ EXCEPT !.phase = "posting", !.ref = NextSeq]]
        <5> DEFINE n == NextSeq
        <5>1. PICK o : o = [u EXCEPT !.phase = "posting", !.ref = n]
          OBVIOUS
        <5>2. op'[w] = o
          BY <1>3, <4>2, <5>1 DEF ToolTypes
        <5> HIDE DEF n
        <5>3. o.phase = "posting"
          BY <5>1 DEF Ops
        <5> QED
          BY <5>2, <5>3
      <4> QED
        BY <2>8, <4>1, <4>2 DEF PostImage
    <3> QED
      BY <2>2, <3>1, <3>2
  <2> QED
    BY <2>3, <2>4, <2>5, <2>6, <2>7, <2>8
<1>7. \A v \in Workers :
        /\ ~gate'[v] => pending'[v] = {}
        /\ op'[v].phase \in {"ready", "wrote"} /\ op'[v].ref # 0 =>
             op'[v].ref \in pending'[v] \/ (~gate'[v] /\ op'[v].ref \in RevokedSeqs')
  <2> SUFFICES ASSUME NEW v \in Workers
               PROVE  /\ ~gate'[v] => pending'[v] = {}
                      /\ op'[v].phase \in {"ready", "wrote"} /\ op'[v].ref # 0 =>
                           \/ op'[v].ref \in pending'[v]
                           \/ ~gate'[v] /\ op'[v].ref \in RevokedSeqs'
    OBVIOUS
  <2>1. CASE v = w
    BY <1>1, <1>6, <2>1
  <2>2. CASE v # w
    BY <1>1, <1>2, <2>2 DEF GateInv, Writers
  <2> QED
    BY <2>1, <2>2
<1> QED
  BY <1>5, <1>7 DEF GateInv

LEMMA OuterGates ==
  ASSUME IInv, IInv', StoreTypes, GateInv, [Next]_vars, ~Crash,
         ~ \E w \in Writers :
             \/ \E p \in Paths : Capture(w, p)
             \/ CaptureFlushed(w) \/ RevokeFlushed(w) \/ ToolWrite(w) \/ ToolFails(w)
             \/ PostImage(w) \/ PostFlushed(w),
         ~ \E w \in Workers : Handoff(w)
  PROVE  UNCHANGED op /\ GateInv'
<1>1. Grown
  BY StepGrows
<1>2. CASE BeginTurn
  BY <1>1, <1>2, GatesKept DEF BeginTurn, opVars
<1>3. CASE EndTurn
  BY <1>1, <1>3, GatesKept DEF EndTurn, opVars
<1>4. CASE Persist \/ \E p \in Paths : HandEdit(p) \/ ApplyWrite(p) \/ ApplyFails(p)
  <2>1. UNCHANGED opVars /\ running' = running
    BY <1>4 DEF Persist, HandEdit, ApplyWrite, ApplyFails, procVars
  <2> QED
    BY <1>1, <2>1, GatesKept DEF opVars
<1>5. CASE \/ \E verb \in {"undo", "redo", "rewind"} : Request(verb)
           \/ \E skip \in BOOLEAN : Choose(skip)
           \/ Dismiss \/ Recover \/ BeginRestore \/ LogStart \/ WritePointer
  <2>1. UNCHANGED opVars /\ running' = running
    BY <1>5 DEF Request, Choose, Dismiss, Recover, Replay, BeginRestore, LogStart, WritePointer,
                procVars
  <2> QED
    BY <1>1, <2>1, GatesKept DEF opVars
<1>6. CASE \/ TakeLocks \/ ApplyLog \/ FinishRestore \/ ClearPointer \/ Launch \/ Recovered
           \/ UNCHANGED vars
  <2>1. UNCHANGED opVars /\ running' = running
    BY <1>6 DEF TakeLocks, ApplyLog, FinishRestore, ClearPointer, Launch, Recovered, vars, procVars
  <2> QED
    BY <1>1, <2>1, GatesKept DEF opVars
<1> QED
  BY <1>2, <1>3, <1>4, <1>5, <1>6 DEF Next

LEMMA EntryGateStep ==
  ASSUME IInv, IInv', EntryInv, GateInv, [Next]_vars, ~Crash PROVE EntryInv' /\ GateInv'
<1>1. Grown /\ StoreTypes /\ ToolTypes /\ OpInv
  BY StepGrows DEF IInv
<1>2. CASE \E w \in Writers :
             \/ \E p \in Paths : Capture(w, p)
             \/ CaptureFlushed(w) \/ RevokeFlushed(w) \/ ToolWrite(w) \/ ToolFails(w)
             \/ PostImage(w) \/ PostFlushed(w)
  BY <1>1, <1>2, ToolEntries, ToolGates
<1>3. CASE \E w \in Workers : Handoff(w)
  <2>1. GateInv'
    BY <1>1, <1>3, HandoffGates
  <2>2. UNCHANGED op
    BY <1>3 DEF Handoff
  <2> QED
    BY <1>1, <2>1, <2>2, EntriesKept
<1>4. CASE ~ (\/ \E w \in Writers :
                   \/ \E p \in Paths : Capture(w, p)
                   \/ CaptureFlushed(w) \/ RevokeFlushed(w) \/ ToolWrite(w) \/ ToolFails(w)
                   \/ PostImage(w) \/ PostFlushed(w)
              \/ \E w \in Workers : Handoff(w))
  <2>1. UNCHANGED op /\ GateInv'
    BY <1>1, <1>4, OuterGates
  <2> QED
    BY <1>1, <2>1, EntriesKept
<1> QED
  BY <1>2, <1>3, <1>4

(* A crash takes a capture's tool and the lines that were not in the file  *)
(* with it: whoever loses its tool or its revocation has died.             *)
LEMMA CrashKeeps ==
  ASSUME IInv, Crash
  PROVE  /\ \A type : \A i \in Seqs(type)' :
              i \in Seqs(type) /\ i <= durable /\ records'[i] = records[i]
         /\ \A type : \A i \in Seqs(type) : i <= durable => i \in Seqs(type)'
         /\ \A type : \A i \in Seqs(type) : i \in Nat
         /\ durable' = durable /\ durable \in Nat
<1>1. records' = SubSeq(records, 1, durable) /\ durable' = durable
  BY DEF Crash
<1>2. records \in Seq(AllRecords) /\ durable \in 0..Len(records)
  BY DEF IInv, StoreTypes
<1>3. /\ DOMAIN records' = 1..durable /\ 1..durable \subseteq DOMAIN records
      /\ \A i \in 1..durable : records'[i] = records[i]
  BY <1>1, <1>2
<1> QED
  BY <1>1, <1>2, <1>3 DEF Seqs

LEMMA CrashEntries ==
  ASSUME IInv, IInv', EntryInv, GateInv, Crash PROVE EntryInv' /\ GateInv'
<1> DEFINE torn == {r \in Seqs("pre") : Torn(records[r].path)}
           lost == {records[i].ref : i \in {j \in Seqs("revoke") : j > durable}}
<1>1. /\ op' = [w \in Writers |-> NoOp] /\ gate' = [w \in Workers |-> TRUE]
      /\ pending' = [w \in Workers |-> {}] /\ died' = (died \cup torn \cup lost) \cap 1..durable
  BY DEF Crash
<1>2. GateInv'
  <2>1. \A w \in Workers : w \in Writers /\ gate'[w] /\ op'[w].ref = 0
    BY <1>1 DEF Writers, NoOp
  <2>2. \A w \in Writers : op'[w] = NoOp
    BY <1>1
  <2> QED
    BY <2>1, <2>2 DEF GateInv
<1>3. ASSUME NEW i \in Entries', records'[i].turn \in UserTurns
      PROVE  i \in died' \/ RecordedBy(records[i].path, durable)' \/ AtWork(i)'
  <2>1. i \in Seqs("pre")' /\ i \notin RevokedSeqs'
    BY <1>3 DEF Entries
  <2>2. i \in Seqs("pre") /\ i <= durable /\ records'[i] = records[i] /\ i \in 1..durable
    <3>1. i \in Seqs("pre") /\ i <= durable /\ records'[i] = records[i]
      BY <2>1, CrashKeeps
    <3>2. i \in DOMAIN records /\ durable \in Nat
      BY <3>1, CrashKeeps DEF Seqs
    <3> QED
      BY <3>1, <3>2 DEF IInv, StoreTypes
  <2>3. CASE i \in RevokedSeqs
    <3>1. PICK j \in Seqs("revoke") : records[j].ref = i
      BY <2>3 DEF RevokedSeqs
    <3>2. ~(j <= durable)
      <4> SUFFICES ASSUME j <= durable PROVE FALSE
        OBVIOUS
      <4>1. j \in Seqs("revoke")'
        BY CrashKeeps
      <4>2. records'[j] = records[j]
        BY <4>1, CrashKeeps
      <4> QED
        BY <2>1, <3>1, <4>1, <4>2 DEF RevokedSeqs
    <3>3. j > durable
      BY <3>2, CrashKeeps
    <3> QED
      BY <1>1, <2>2, <3>1, <3>3
  <2>4. CASE i \notin RevokedSeqs /\ i \in died
    BY <1>1, <2>2, <2>4
  <2>5. CASE i \notin RevokedSeqs /\ RecordedBy(records[i].path, durable)
    <3>1. PICK j \in PostsOf(records[i].path) : j <= durable
      BY <2>5 DEF RecordedBy
    <3>2. j \in Seqs("post")' /\ records[j].path = records[i].path
      BY <3>1, CrashKeeps DEF PostsOf
    <3>3. records'[j] = records[j] /\ j <= durable'
      BY <3>1, <3>2, CrashKeeps
    <3>4. j \in PostsOf(records[i].path)'
      BY <2>2, <3>2, <3>3 DEF PostsOf
    <3> QED
      BY <3>3, <3>4 DEF RecordedBy
  <2>6. CASE i \notin RevokedSeqs /\ AtWork(i)
    <3>1. Torn(records[i].path)
      BY <2>6 DEF AtWork, Torn
    <3> QED
      BY <1>1, <2>2, <3>1
  <2>7. CASE i \notin RevokedSeqs
    <3>1. i \in Entries /\ records[i].turn \in UserTurns
      BY <1>3, <2>2, <2>7 DEF Entries
    <3>2. i \in died \/ RecordedBy(records[i].path, durable) \/ AtWork(i)
      BY <3>1 DEF EntryInv
    <3> QED
      BY <2>4, <2>5, <2>6, <2>7, <3>2
  <2> QED
    BY <2>3, <2>7
<1> QED
  BY <1>2, <1>3 DEF EntryInv

(* A redo point that is already used, or is a turn, gets no new capture.   *)
LEMMA OldTurn ==
  ASSUME IInv, Grown, NEW i \in Seqs("pre")' \ Seqs("pre"), NEW redo,
         redo \in {NoTurn} \cup {RedoTurn(id) : id \in 1..spent["restores"]}
  PROVE  records'[i].turn # redo
<1>1. spent["restores"] \in Nat
  BY DEF IInv, StoreTypes, Bounds
<1>2. records'[i].turn \in UserTurns \/ records'[i].turn = RedoTurn(spent["restores"] + 1)
  <2>1. AddsPre(i) => records'[i].turn \in UserTurns
    BY DEF AddsPre, Pre
  <2>2. AddsRedo(i) => records'[i].turn = RedoTurn(spent["restores"] + 1)
    BY DEF AddsRedo
  <2> QED
    BY <2>1, <2>2, CapturedBy
<1> QED
  BY <1>1, <1>2 DEF UserTurns, RedoTurn, NoTurn

LEMMA RedoIsOld ==
  ASSUME IInv
  PROVE  /\ \A s \in Starts :
              records[s].redo \in {NoTurn} \cup {RedoTurn(id) : id \in 1..spent["restores"]}
         /\ \A d \in Seqs("done") :
              records[d].redo \in {NoTurn} \cup {RedoTurn(id) : id \in 1..spent["restores"]}
<1>1. \A s \in Starts : records[s].id \in 1..spent["restores"]
  BY StartShape DEF IInv, JournalInv, StoreTypes, Starts, Seqs
<1>2. \A s \in Starts :
        records[s].redo \in {NoTurn} \cup {RedoTurn(id) : id \in 1..spent["restores"]}
  BY <1>1 DEF IInv, JournalInv
<1> QED
  BY <1>2 DEF IInv, JournalInv

(* The redo points in the journal, as it grows.                            *)
LEMMA RedoGrows ==
  ASSUME IInv, IInv', Grown, RedoInv, JobRedoInv PROVE RedoInv'
<1>1. /\ \A type : \A i \in Seqs(type) : i \in Seqs(type)' /\ records'[i] = records[i]
      /\ \A p, n : RecordedBy(p, n) => RecordedBy(p, n)'
      /\ \A p : PostsOf(p) \subseteq PostsOf(p)'
      /\ died \subseteq died' /\ spent["restores"] <= spent'["restores"]
      /\ spent["restores"] \in Nat /\ spent'["restores"] \in Nat
  BY GrownKeeps DEF Grown, IInv, StoreTypes, Bounds
<1>2. \A type : \A i \in Seqs(type)' \ Seqs(type) :
        i \in DOMAIN records' \ DOMAIN records /\ records'[i].type = type /\ Adds(i)
  BY DEF Grown, Keeps, Seqs
<1>3. \A i \in Starts : i \in Starts' /\ records'[i] = records[i]
  BY <1>1 DEF Starts
<1>4. ASSUME NEW i \in Seqs("pre")' PROVE records'[i].turn <= MaxTurns + spent'["restores"]
  <2>1. CASE i \in Seqs("pre")
    <3>1. records[i].turn \in AllTurns
      BY <2>1, RecordShape DEF IInv, StoreTypes, Seqs
    <3> QED
      BY <1>1, <2>1, <3>1 DEF RedoInv, AllTurns
  <2>2. CASE AddsPre(i)
    BY <1>1, <2>2 DEF AddsPre, Pre, UserTurns
  <2>3. CASE AddsRedo(i)
    BY <1>1, <2>3 DEF AddsRedo, RedoTurn
  <2> QED
    BY <2>1, <2>2, <2>3, CapturedBy
<1>5. ASSUME NEW f \in Seqs("file")'
      PROVE  \E s \in Starts' : s < f /\ records'[s].id = records'[f].id
  <2>1. CASE f \in Seqs("file")
    BY <1>1, <1>3, <2>1 DEF RedoInv
  <2>2. CASE f \notin Seqs("file")
    <3>1. ApplyLog /\ f = NextSeq
      BY <1>2, <2>2 DEF Adds
    <3>2. records'[f].id = job.id
      <4>1. PICK r, q : /\ r = FileDone(job.id, job.logging)
                        /\ q = Post(job.logging, JobStart.files[job.logging])
        OBVIOUS
      <4>2. PICK rs : rs = <<r, q>>
        OBVIOUS
      <4>3. Log(rs) /\ r.id = job.id
        BY <3>1, <4>1, <4>2 DEF ApplyLog, FileDone
      <4>4. rs \in Seq({r, q}) /\ rs[1] = r
        BY <4>2
      <4>5. f - Len(records) \in DOMAIN rs /\ records'[f] = rs[f - Len(records)]
        BY <1>2, <2>2, <4>3, <4>4, LogGrows DEF IInv, StoreTypes
      <4>6. f - Len(records) = 1
        BY <3>1 DEF NextSeq, IInv, StoreTypes
      <4> QED
        BY <4>3, <4>4, <4>5, <4>6
    <3>3. PICK s \in Starts : records[s].id = job.id
      BY <3>1 DEF ApplyLog, IInv, JobInv
    <3>4. s < f
      BY <3>1 DEF NextSeq, Starts, Seqs, IInv, StoreTypes
    <3> QED
      BY <1>3, <3>2, <3>3, <3>4
  <2> QED
    BY <2>1, <2>2
<1>6. ASSUME NEW s \in Starts', NEW i \in Seqs("pre")', records'[i].turn = records'[s].redo
      PROVE  records'[i].path \in DOMAIN records'[s].files
  <2>1. CASE s \in Starts /\ i \in Seqs("pre")
    BY <1>1, <1>3, <1>6, <2>1 DEF RedoInv
  <2>2. CASE s \in Starts /\ i \notin Seqs("pre")
    BY <1>3, <1>6, <2>2, OldTurn, RedoIsOld
  <2>3. CASE s \notin Starts
    <3>1. LogStart /\ s = NextSeq
      BY <1>2, <2>3 DEF Adds, Starts
    <3>2. PICK r : r = Start(job.id, plan.target, RedoOf(job.id), plan.skip, Applied)
      OBVIOUS
    <3>3. Log(<<r>>) /\ r.redo = RedoOf(job.id) /\ r.files = Applied /\ r.type = "start"
      BY <3>1, <3>2 DEF LogStart, Start
    <3>4. records'[s] = r
      BY <3>1, <3>3, LogAdds DEF IInv, StoreTypes
    <3>5. i \in Seqs("pre")
      <4> SUFFICES ASSUME i \notin Seqs("pre") PROVE FALSE
        OBVIOUS
      <4>1. i \in DOMAIN records' \ DOMAIN records /\ records'[i].type = "pre"
        BY <1>2
      <4>2. i = NextSeq
        BY <3>3, <4>1, LogAdds DEF IInv, StoreTypes
      <4> QED
        BY <3>1, <3>3, <3>4, <4>1, <4>2
    <3>6. records[i].turn \in AllTurns /\ records'[i] = records[i]
      BY <1>1, <3>5, RecordShape DEF IInv, StoreTypes, Seqs
    <3>7. records[i].turn = RedoTurn(job.id)
      BY <1>6, <3>3, <3>4, <3>6 DEF RedoOf, NoTurn, AllTurns
    <3>8. job.phase = "redo"
      BY <3>1 DEF LogStart
    <3> QED
      BY <3>3, <3>4, <3>5, <3>6, <3>7, <3>8 DEF JobRedoInv
  <2> QED
    BY <2>1, <2>2, <2>3
<1>7. ASSUME NEW d \in Seqs("done")', NEW i \in Seqs("pre")', records'[i].turn = records'[d].redo
      PROVE  i \in died' \/ RecordedBy(records[i].path, d)'
  <2>1. CASE d \in Seqs("done") /\ i \in Seqs("pre")
    <3>1. PICK p : p = records[i].path
      OBVIOUS
    <3>2. i \in died \/ RecordedBy(p, d)
      BY <1>1, <1>7, <2>1, <3>1 DEF RedoInv
    <3>3. p = records'[i].path
      BY <1>1, <2>1, <3>1
    <3> QED
      BY <1>1, <3>2, <3>3
  <2>2. CASE d \in Seqs("done") /\ i \notin Seqs("pre")
    BY <1>1, <1>7, <2>2, OldTurn, RedoIsOld
  <2>3. CASE d \notin Seqs("done")
    <3>1. FinishRestore /\ d = NextSeq
      BY <1>2, <2>3 DEF Adds
    <3>2. PICK r : r = Done(job.id, JobStart.redo)
      OBVIOUS
    <3>3. Log(<<r>>) /\ r.redo = JobStart.redo /\ r.type = "done"
      BY <3>1, <3>2 DEF FinishRestore, Done
    <3>4. records'[d] = r
      BY <3>1, <3>3, LogAdds DEF IInv, StoreTypes
    <3>5. i \in Seqs("pre")
      <4> SUFFICES ASSUME i \notin Seqs("pre") PROVE FALSE
        OBVIOUS
      <4>1. i \in DOMAIN records' \ DOMAIN records /\ records'[i].type = "pre"
        BY <1>2
      <4>2. i = NextSeq
        BY <3>3, <4>1, LogAdds DEF IInv, StoreTypes
      <4> QED
        BY <3>1, <3>3, <3>4, <4>1, <4>2
    <3>6. records[i].path \in Paths /\ records'[i] = records[i]
      BY <1>1, <3>5, RecordShape DEF IInv, StoreTypes, Seqs
    <3>7. i \in died \/ PostsOf(records[i].path) # {}
      BY <1>7, <3>1, <3>3, <3>4, <3>5, <3>6 DEF FinishRestore, JobRedoInv
    <3>8. CASE PostsOf(records[i].path) # {}
      <4>1. PICK j \in PostsOf(records[i].path) : TRUE
        BY <3>8
      <4>2. j <= d
        BY <3>1 DEF PostsOf, Seqs, NextSeq, IInv, StoreTypes
      <4>3. PICK p : p = records[i].path /\ RecordedBy(p, d)
        BY <4>1, <4>2 DEF RecordedBy
      <4> QED
        BY <1>1, <3>6, <4>3
    <3> QED
      BY <1>1, <3>7, <3>8
  <2> QED
    BY <2>1, <2>2, <2>3
<1>8. ASSUME NEW f \in Seqs("file")', NEW s \in Starts', NEW i \in Seqs("pre")',
             records'[f].id = records'[s].id, records'[i].turn = records'[s].redo,
             records'[i].path = records'[f].path
      PROVE  i \in died' \/ f + 1 \in PostsOf(records[i].path)'
  <2>1. CASE f \in Seqs("file") /\ s \in Starts
    <3>1. i \in Seqs("pre")
      BY <1>3, <1>8, <2>1, OldTurn, RedoIsOld
    <3>2. PICK p : p = records[i].path /\ p = records'[i].path
      BY <1>1, <3>1
    <3>3. i \in died \/ f + 1 \in PostsOf(p)
      BY <1>1, <1>3, <1>8, <2>1, <3>1, <3>2 DEF RedoInv
    <3> QED
      BY <1>1, <3>2, <3>3
  <2>2. CASE f \in Seqs("file") /\ s \notin Starts
    <3>1. PICK t \in Starts : records[t].id = records[f].id
      BY <2>2 DEF RedoInv
    <3>2. t \in Starts' /\ records'[t].id = records'[s].id /\ t # s
      BY <1>1, <1>3, <1>8, <2>2, <3>1
    <3> QED
      BY <3>2 DEF IInv, JournalInv
  <2>3. CASE f \notin Seqs("file")
    <3>1. ApplyLog /\ f = NextSeq
      BY <1>2, <2>3 DEF Adds
    <3>2. PICK r, q : /\ r = FileDone(job.id, job.logging)
                      /\ q = Post(job.logging, JobStart.files[job.logging])
      OBVIOUS
    <3>3. PICK rs : rs = <<r, q>>
      OBVIOUS
    <3>4. /\ Log(rs) /\ r.path = job.logging /\ q.type = "post" /\ q.path = job.logging
      BY <3>1, <3>2, <3>3 DEF ApplyLog, FileDone, Post
    <3>5. /\ rs \in Seq({r, q}) /\ rs[1] = r /\ rs[2] = q /\ Len(rs) = 2
      BY <3>3
    <3>6. Len(records) \in Nat /\ records \in Seq(AllRecords) /\ f = Len(records) + 1
      BY <3>1 DEF IInv, StoreTypes, NextSeq
    <3>7. records' = records \o rs /\ Len(records') = Len(records) + 2
      BY <3>4, <3>5, <3>6, LogGrows DEF Log
    <3>8. records'[f] = r /\ records'[f + 1] = q /\ f + 1 \in DOMAIN records'
      <4>1. records' \in Seq(AllRecords \cup {r, q})
        BY <3>5, <3>6, <3>7
      <4>2. f + 1 \in DOMAIN records'
        BY <3>6, <3>7, <4>1
      <4> QED
        BY <3>5, <3>6, <3>7, <4>2
    <3>9. f + 1 \in PostsOf(records[i].path)'
      BY <1>8, <3>4, <3>8 DEF PostsOf, Seqs
    <3> QED
      BY <3>9
  <2> QED
    BY <2>1, <2>2, <2>3
<1> QED
  BY <1>4, <1>5, <1>6, <1>7, <1>8 DEF RedoInv

(* The redo point of the restore in progress: each of its files is still   *)
(* to be written, or was recorded as written, or died.                     *)
LEMMA JobRedoMoves ==
  ASSUME IInv, IInv', Grown, RedoInv, JobRedoInv, job'.id = job.id,
         job'.phase = job.phase \/ (job.phase = "pointed" /\ job'.phase = "applying"),
         job.phase = "redo" => plan' = plan,
         \A i \in Seqs("pre"), p \in Paths :
           /\ records[i].path = p /\ records[i].turn = JobStart.redo
           /\ p \in job.left \cup {job.logging} /\ p \notin job'.left \cup {job'.logging}
           => i \in died' \/ PostsOf(p)' # {}
  PROVE  JobRedoInv'
<1>1. /\ \A type : \A i \in Seqs(type) : i \in Seqs(type)' /\ records'[i] = records[i]
      /\ \A p : PostsOf(p) \subseteq PostsOf(p)'
      /\ died \subseteq died'
  BY GrownKeeps DEF Grown
<1>2. ASSUME job.phase = "redo", NEW i \in Seqs("pre")', records'[i].turn = RedoTurn(job.id)
      PROVE  records'[i].path \in DOMAIN Applied'
  <2>1. job.id \in 1..spent["restores"]
    <3>1. job.id = spent["restores"] /\ job.id # 0
      BY <1>2 DEF IInv, JobInv
    <3>2. job.id \in Nat
      BY DEF IInv, RestoreTypes
    <3> QED
      BY <3>1, <3>2
  <2>2. i \in Seqs("pre")
    BY <1>2, <2>1, OldTurn
  <2>3. Applied' = Applied
    BY <1>2 DEF Applied
  <2> QED
    BY <1>1, <1>2, <2>2, <2>3 DEF JobRedoInv
<1>3. ASSUME job.phase \in {"pointed", "applying"}, NEW i \in Seqs("pre")',
             records'[i].turn = JobStart.redo
      PROVE  \/ records'[i].path \in job'.left \cup {job'.logging}
             \/ i \in died' \/ PostsOf(records[i].path)' # {}
  <2>1. PICK s \in Starts : records[s].id = job.id
    BY <1>3 DEF IInv, JobInv
  <2>2. JobStart.redo = records[s].redo
    BY <2>1, JobStartIs DEF IInv
  <2>3. i \in Seqs("pre")
    BY <1>3, <2>2, OldTurn, RedoIsOld
  <2>4. records[i].path \in Paths
    BY <2>3, RecordShape DEF IInv, StoreTypes, Seqs
  <2>5. PICK p \in Paths : p = records[i].path /\ p = records'[i].path
    BY <1>1, <2>3, <2>4
  <2>6. p \in job.left \cup {job.logging} \/ i \in died \/ PostsOf(p) # {}
    BY <1>1, <1>3, <2>3, <2>5 DEF JobRedoInv
  <2>7. CASE p \in job.left \cup {job.logging} /\ p \notin job'.left \cup {job'.logging}
    BY <1>1, <1>3, <2>3, <2>5, <2>7
  <2> QED
    BY <1>1, <2>5, <2>6, <2>7
<1>4. job.phase \in {"pointed", "applying"} => JobStart' = JobStart
  BY JobStartSame DEF IInv, JobInv, Grown
<1> QED
  BY <1>2, <1>3, <1>4 DEF JobRedoInv

LEMMA BeginJobRedo ==
  ASSUME IInv, IInv', Grown, RedoInv, JobRedoInv, BeginRestore PROVE JobRedoInv'
<1>1. job = NoJob /\ job.phase = "none"
  BY NoJobIs DEF BeginRestore
<1>2. CASE UNCHANGED job
  <2>1. job'.phase = "none"
    BY <1>1, <1>2
  <2> QED
    BY <2>1 DEF JobRedoInv
<1>3. CASE /\ job' = [NoJob EXCEPT !.phase = "redo", !.id = spent.restores + 1,
                                   !.ref = Len(records')]
           /\ plan' = plan
  <2> DEFINE id == spent["restores"] + 1
             n  == Len(records')
  <2>1. job' = [phase |-> "redo", id |-> id, ref |-> n, left |-> {}, skipped |-> {},
                logging |-> None]
    BY <1>3 DEF NoJob
  <2>2. job'.phase = "redo" /\ job'.id = id
    BY <2>1
  <2>3. spent["restores"] \in Nat
    BY DEF IInv, StoreTypes, Bounds
  <2>4. ASSUME NEW i \in Seqs("pre")', records'[i].turn = RedoTurn(id)
        PROVE  records'[i].path \in DOMAIN Applied'
    <3>1. i \notin Seqs("pre")
      <4> SUFFICES ASSUME i \in Seqs("pre") PROVE FALSE
        OBVIOUS
      <4>1. records'[i] = records[i] /\ records[i].turn <= MaxTurns + spent["restores"]
        BY GrownKeeps DEF RedoInv
      <4> QED
        BY <2>3, <2>4, <4>1 DEF RedoTurn
    <3>2. ~AddsPre(i)
      <4>1. AddsPre(i) => records'[i].turn \in UserTurns
        BY DEF AddsPre, Pre
      <4> QED
        BY <2>3, <2>4, <4>1 DEF RedoTurn, UserTurns
    <3>3. AddsRedo(i)
      BY <3>1, <3>2, CapturedBy
    <3>4. Applied' = Applied
      BY <1>3 DEF Applied
    <3> QED
      BY <3>3, <3>4 DEF AddsRedo
  <2> QED
    BY <2>2, <2>4 DEF JobRedoInv
<1> QED
  BY <1>2, <1>3 DEF BeginRestore

LEMMA RecoverJobRedo ==
  ASSUME IInv, IInv', Grown, RedoInv, Recover PROVE JobRedoInv'
<1>1. job = NoJob /\ Replay(Min(Dangling))
  BY DEF Recover
<1>2. PICK s \in Dangling : s = Min(Dangling)
  BY <1>1 DEF Replay
<1>3. s \in Starts /\ UNCHANGED records /\ died' = died
  BY <1>1 DEF Replay, Dangling, Starts, ghostVars
<1> DEFINE id == records[s].id
           L  == DOMAIN records[s].files \
                   {p \in Paths : \E f \in Seqs("file") :
                      records[f].id = records[s].id /\ records[f].path = p}
<1>4. job' = [phase |-> "pointed", id |-> id, ref |-> 0, left |-> L, skipped |-> {},
              logging |-> None]
  BY <1>1, <1>2 DEF Replay, NoJob
<1>5. job'.phase = "pointed" /\ job'.id = records[s].id /\ job'.left = L
  BY <1>4
<1>6. Seqs("pre")' = Seqs("pre") /\ s \in Starts' /\ \A p : PostsOf(p)' = PostsOf(p)
  BY <1>3 DEF Seqs, PostsOf, Starts
<1>7. JobStart' = records[s]
  <2>1. StartOf(records[s].id)' = s
    BY <1>3, <1>6, StartOfIsNext DEF IInv
  <2>2. StartOf(job.id)' = s
    BY <1>3, <1>5, <1>6, StartOfIsNext DEF IInv
  <2> QED
    BY <1>3, <2>2 DEF JobStart
<1>8. ASSUME NEW i \in Seqs("pre"), records[i].turn = records[s].redo
      PROVE  records[i].path \in L \/ i \in died \/ PostsOf(records[i].path) # {}
  <2>1. records[i].path \in DOMAIN records[s].files
    BY <1>3, <1>8 DEF RedoInv
  <2>2. CASE \E f \in Seqs("file") :
               records[f].id = records[s].id /\ records[f].path = records[i].path
    <3>1. PICK f \in Seqs("file") :
            records[f].id = records[s].id /\ records[f].path = records[i].path
      BY <2>2
    <3>2. i \in died \/ f + 1 \in PostsOf(records[i].path)
      BY <1>3, <1>8, <3>1 DEF RedoInv
    <3> QED
      BY <3>2
  <2> QED
    BY <2>1, <2>2
<1> HIDE DEF L
<1> QED
  BY <1>3, <1>5, <1>6, <1>7, <1>8 DEF JobRedoInv, PostsOf, Seqs

(* A file of the plan is skipped, written, or recorded.                    *)
LEMMA ApplyJobRedo ==
  ASSUME IInv, IInv', Grown, RedoInv, JobRedoInv,
         ApplyLog \/ \E p \in Paths : ApplyWrite(p) \/ ApplyFails(p)
  PROVE  JobRedoInv'
<1>1. CASE ApplyLog
  <2>1. /\ job' = [job EXCEPT !.logging = None] /\ job.logging # None
        /\ Log(<<FileDone(job.id, job.logging), Post(job.logging, JobStart.files[job.logging])>>)
        /\ plan' = plan
    BY <1>1 DEF ApplyLog
  <2>2. job'.phase = job.phase /\ job'.id = job.id /\ job'.left = job.left
    BY <2>1 DEF IInv, RestoreTypes
  <2>3. PICK r, q : /\ r = FileDone(job.id, job.logging)
                    /\ q = Post(job.logging, JobStart.files[job.logging])
    OBVIOUS
  <2>4. PICK rs : rs = <<r, q>>
    OBVIOUS
  <2>5. Log(rs) /\ q.type = "post" /\ q.path = job.logging
    BY <2>1, <2>3, <2>4 DEF Post
  <2>6. rs \in Seq({r, q}) /\ rs[2] = q /\ Len(rs) = 2
    BY <2>4
  <2>7. Len(records) \in Nat /\ records \in Seq(AllRecords)
    BY DEF IInv, StoreTypes
  <2>8. records' = records \o rs /\ Len(records') = Len(records) + 2
    BY <2>5, <2>6, <2>7, LogGrows DEF Log
  <2>9. records'[Len(records) + 2] = q /\ Len(records) + 2 \in DOMAIN records'
    <3>1. records' \in Seq(AllRecords \cup {r, q})
      BY <2>6, <2>7, <2>8
    <3>2. Len(records) + 2 \in DOMAIN records'
      BY <2>7, <2>8, <3>1
    <3> QED
      BY <2>6, <2>7, <2>8, <3>2
  <2>10. \A p : p = job.logging => PostsOf(p)' # {}
    BY <2>5, <2>9 DEF PostsOf, Seqs
  <2> QED
    BY <2>1, <2>2, <2>10, JobRedoMoves
<1>2. ASSUME NEW p \in Paths, ApplyWrite(p) \/ ApplyFails(p) PROVE JobRedoInv'
  <2>1. /\ job.phase = "applying" /\ job.logging = None /\ p \in job.left
        /\ UNCHANGED <<records, plan>>
    BY <1>2 DEF ApplyWrite, ApplyFails, Applying
  <2>2. /\ job'.phase = job.phase /\ job'.id = job.id /\ job'.left = job.left \ {p}
        /\ job'.logging \in {None, p}
    <3>1. PICK j : j = [job EXCEPT !.left = @ \ {p}, !.skipped = @ \cup {p}]
      OBVIOUS
    <3>2. PICK k : k = [job EXCEPT !.left = @ \ {p}, !.logging = p]
      OBVIOUS
    <3>3. job' = j \/ job' = k
      BY <1>2, <3>1, <3>2 DEF ApplyWrite, ApplyFails, Skips
    <3>4. j.phase = job.phase /\ j.id = job.id /\ j.left = job.left \ {p} /\ j.logging = None
      BY <2>1, <3>1 DEF IInv, RestoreTypes
    <3>5. k.phase = job.phase /\ k.id = job.id /\ k.left = job.left \ {p} /\ k.logging = p
      BY <3>2 DEF IInv, RestoreTypes
    <3> QED
      BY <3>3, <3>4, <3>5
  <2>3. ASSUME NEW i \in Seqs("pre"), NEW q \in Paths, records[i].path = q,
               records[i].turn = JobStart.redo, q \in job.left \cup {job.logging},
               q \notin job'.left \cup {job'.logging}
        PROVE  i \in died' \/ PostsOf(q)' # {}
    <3>1. q = p /\ job'.logging # p
      BY <2>1, <2>2, <2>3
    <3>2. CASE ApplyFails(p)
      <4>1. died' = died \cup {r \in Seqs("pre") : /\ records[r].turn = JobStart.redo
                                                 /\ records[r].path = p}
        BY <3>2 DEF ApplyFails
      <4> QED
        BY <2>3, <3>1, <4>1
    <3>3. CASE ApplyWrite(p)
      <4>1. DivergedNow(p)
        <5> SUFFICES ASSUME ~DivergedNow(p) PROVE FALSE
          OBVIOUS
        <5>1. job' = [job EXCEPT !.left = @ \ {p}, !.logging = p]
          BY <3>3 DEF ApplyWrite
        <5>2. job'.logging = p
          BY <5>1 DEF IInv, RestoreTypes
        <5> QED
          BY <3>1, <5>2
      <4>2. PostsOf(q) # {}
        BY <3>1, <4>1 DEF DivergedNow, Diverged
      <4>3. PostsOf(q)' = PostsOf(q)
        BY <2>1 DEF PostsOf, Seqs
      <4> QED
        BY <4>2, <4>3
    <3> QED
      BY <1>2, <3>2, <3>3
  <2> QED
    BY <2>1, <2>2, <2>3, JobRedoMoves
<1> QED
  BY <1>1, <1>2

LEMMA JobRedoStep ==
  ASSUME IInv, IInv', Grown, RedoInv, JobRedoInv, [Next]_vars, ~Crash PROVE JobRedoInv'
<1>1. CASE \/ BeginTurn \/ EndTurn \/ Persist \/ Launch \/ Recovered
           \/ (\E p \in Paths : HandEdit(p)) \/ (\E w \in Workers : Handoff(w))
           \/ \E w \in Writers : \/ \E p \in Paths : Capture(w, p)
                                 \/ CaptureFlushed(w) \/ RevokeFlushed(w)
                                 \/ ToolWrite(w) \/ ToolFails(w)
                                 \/ PostImage(w) \/ PostFlushed(w)
           \/ UNCHANGED vars
  <2>1. UNCHANGED <<plan, job>>
    BY <1>1 DEF BeginTurn, EndTurn, Persist, Launch, Recovered, HandEdit, Handoff, Capture,
                CaptureFlushed, Commit, RevokeFlushed, ToolWrite, ToolFails, PostImage,
                PostFlushed, vars, jobVars
  <2> QED
    BY <2>1, JobRedoMoves
<1>2. CASE \/ \E verb \in {"undo", "redo", "rewind"} : Request(verb)
           \/ \E skip \in BOOLEAN : Choose(skip)
           \/ Dismiss
  <2>1. UNCHANGED job /\ job.phase # "redo"
    BY <1>2, NoJobIs DEF Request, Idle, Choose, Dismiss, IInv, JobInv
  <2> QED
    BY <2>1, JobRedoMoves
<1>3. CASE LogStart \/ FinishRestore \/ ClearPointer
  <2>1. job'.phase \in {"started", "closing", "none"}
    BY <1>3, NoJobIs DEF LogStart, FinishRestore, ClearPointer, IInv, RestoreTypes
  <2> QED
    BY <2>1 DEF JobRedoInv
<1>4. CASE WritePointer
  <2>1. /\ job.phase = "started" /\ UNCHANGED records
        /\ job' = [job EXCEPT !.phase = "pointed", !.ref = Len(records),
                              !.left = DOMAIN JobStart.files]
    BY <1>4 DEF WritePointer
  <2>2. job'.phase = "pointed" /\ job'.id = job.id /\ job'.left = DOMAIN JobStart.files
    BY <2>1 DEF IInv, RestoreTypes
  <2>3. PICK s \in Starts : records[s].id = job.id
    BY <2>1 DEF IInv, JobInv
  <2>4. JobStart = records[s] /\ JobStart' = JobStart /\ Seqs("pre")' = Seqs("pre")
    <3>1. JobStart = records[s]
      BY <2>3, JobStartIs DEF IInv
    <3>2. JobStart' = JobStart
      BY <2>1, <2>2, SameJobRecord DEF IInv
    <3> QED
      BY <2>1, <3>1, <3>2 DEF Seqs
  <2> QED
    BY <2>1, <2>2, <2>4 DEF JobRedoInv, RedoInv
<1>5. CASE TakeLocks
  <2>1. /\ job.phase = "pointed" /\ job' = [job EXCEPT !.phase = "applying"]
    BY <1>5 DEF TakeLocks
  <2>2. /\ job'.phase = "applying" /\ job'.id = job.id /\ job'.left = job.left
        /\ job'.logging = job.logging
    BY <2>1 DEF IInv, RestoreTypes
  <2> QED
    BY <2>1, <2>2, JobRedoMoves
<1>6. CASE ApplyLog \/ \E p \in Paths : ApplyWrite(p) \/ ApplyFails(p)
  BY <1>6, ApplyJobRedo
<1>7. CASE BeginRestore
  BY <1>7, BeginJobRedo
<1>8. CASE Recover
  BY <1>8, RecoverJobRedo
<1> QED
  BY <1>1, <1>2, <1>3, <1>4, <1>5, <1>6, <1>7, <1>8 DEF Next

LEMMA CrashRedo == ASSUME IInv, IInv', RedoInv, Crash PROVE RedoInv' /\ JobRedoInv'
<1> DEFINE torn == {r \in Seqs("pre") : Torn(records[r].path)}
           lost == {records[i].ref : i \in {j \in Seqs("revoke") : j > durable}}
<1>1. /\ died' = (died \cup torn \cup lost) \cap 1..durable /\ job' = NoJob
      /\ spent'["restores"] = spent["restores"]
  BY SpendOne DEF Crash, Bounds, IInv
<1>2. /\ \A type : \A i \in Seqs(type)' :
           i \in Seqs(type) /\ i <= durable /\ records'[i] = records[i]
      /\ \A type : \A i \in Seqs(type) : i <= durable => i \in Seqs(type)'
      /\ \A type : \A i \in Seqs(type) : i \in Nat
      /\ durable \in Nat
  BY CrashKeeps
<1>3. /\ \A s \in Starts' : s \in Starts /\ s <= durable /\ records'[s] = records[s]
      /\ \A s \in Starts : s <= durable => s \in Starts'
      /\ \A s \in Starts : s \in Nat
  BY <1>2 DEF Starts
<1>4. ASSUME NEW i \in Seqs("pre")', i \in died \/ i \in torn PROVE i \in died'
  <2>1. i \in 1..durable
    BY <1>2 DEF Seqs, IInv, StoreTypes
  <2> QED
    BY <1>1, <1>4, <2>1
<1>5. ASSUME NEW p, NEW j \in PostsOf(p), j <= durable PROVE j \in PostsOf(p)'
  <2>1. j \in Seqs("post")' /\ records'[j] = records[j] /\ records[j].path = p
    BY <1>2, <1>5 DEF PostsOf
  <2> QED
    BY <2>1 DEF PostsOf
<1>6. \A i \in Seqs("pre")' : records'[i].turn <= MaxTurns + spent'["restores"]
  BY <1>1, <1>2 DEF RedoInv
<1>7. ASSUME NEW f \in Seqs("file")'
      PROVE  \E s \in Starts' : s < f /\ records'[s].id = records'[f].id
  <2>1. f \in Seqs("file") /\ f <= durable /\ records'[f] = records[f] /\ f \in Nat
    BY <1>2
  <2>2. PICK s \in Starts : s < f /\ records[s].id = records[f].id
    BY <2>1 DEF RedoInv
  <2>3. s \in Starts'
    BY <1>2, <1>3, <2>1, <2>2
  <2> QED
    BY <1>3, <2>1, <2>2, <2>3
<1>8. \A s \in Starts', i \in Seqs("pre")' :
        records'[i].turn = records'[s].redo => records'[i].path \in DOMAIN records'[s].files
  BY <1>2, <1>3 DEF RedoInv
<1>9. ASSUME NEW d \in Seqs("done")', NEW i \in Seqs("pre")', records'[i].turn = records'[d].redo
      PROVE  i \in died' \/ RecordedBy(records[i].path, d)'
  <2>1. /\ d \in Seqs("done") /\ d <= durable /\ i \in Seqs("pre") /\ d \in Nat
        /\ records'[d] = records[d] /\ records'[i] = records[i]
    BY <1>2
  <2>2. PICK p : p = records[i].path
    OBVIOUS
  <2>3. i \in died \/ RecordedBy(p, d)
    BY <1>9, <2>1, <2>2 DEF RedoInv
  <2>4. CASE RecordedBy(p, d)
    <3>1. PICK j \in PostsOf(p) : j <= d
      BY <2>4 DEF RecordedBy
    <3>2. j \in Nat
      BY <1>2 DEF PostsOf
    <3>3. j \in PostsOf(p)'
      BY <1>2, <1>5, <2>1, <3>1, <3>2
    <3>4. RecordedBy(p, d)'
      BY <3>1, <3>3 DEF RecordedBy
    <3> QED
      BY <2>1, <2>2, <3>4
  <2> QED
    BY <1>4, <2>3, <2>4
<1>10. ASSUME NEW f \in Seqs("file")', NEW s \in Starts', NEW i \in Seqs("pre")',
              records'[f].id = records'[s].id, records'[i].turn = records'[s].redo,
              records'[i].path = records'[f].path
       PROVE  i \in died' \/ f + 1 \in PostsOf(records[i].path)'
  <2>1. /\ f \in Seqs("file") /\ f <= durable /\ f \in Nat /\ s \in Starts /\ i \in Seqs("pre")
        /\ records'[f] = records[f] /\ records'[s] = records[s] /\ records'[i] = records[i]
    BY <1>2, <1>3
  <2>2. PICK p : p = records[i].path /\ p = records[f].path
    BY <1>10, <2>1
  <2>3. i \in died \/ f + 1 \in PostsOf(p)
    BY <1>10, <2>1, <2>2 DEF RedoInv
  <2>4. CASE f = durable
    <3>1. Torn(records[i].path)
      BY <2>1, <2>2, <2>4 DEF Torn
    <3> QED
      BY <1>4, <2>1, <3>1
  <2>5. CASE f # durable /\ f + 1 \in PostsOf(p)
    <3>1. f + 1 <= durable
      BY <1>2, <2>1, <2>5
    <3>2. f + 1 \in PostsOf(p)'
      BY <1>5, <2>5, <3>1
    <3> QED
      BY <2>1, <2>2, <3>2
  <2> QED
    BY <1>4, <2>3, <2>4, <2>5
<1>11. RedoInv'
  BY <1>6, <1>7, <1>8, <1>9, <1>10 DEF RedoInv
<1>12. JobRedoInv'
  BY <1>1, NoJobIs DEF JobRedoInv
<1> QED
  BY <1>11, <1>12

LEMMA BInvariance == Spec => []BInv
<1>1. Init => BInv
  <2> SUFFICES ASSUME Init PROVE BInv
    OBVIOUS
  <2>1. /\ records = <<>> /\ job = NoJob /\ op = [w \in Writers |-> NoOp]
        /\ gate = [w \in Workers |-> TRUE]
    BY DEF Init
  <2>2. \A type : Seqs(type) = {}
    BY <2>1 DEF Seqs
  <2>3. EntryInv
    BY <2>2 DEF EntryInv, Entries
  <2>4. GateInv
    <3>1. \A w \in Workers : w \in Writers /\ gate[w] /\ op[w].ref = 0
      BY <2>1 DEF Writers, NoOp
    <3> QED
      BY <2>1, <3>1 DEF GateInv
  <2>5. RedoInv /\ JobRedoInv
    BY <2>1, <2>2, NoJobIs DEF RedoInv, JobRedoInv, Starts
  <2> QED
    BY <2>3, <2>4, <2>5 DEF BInv
<1>2. IInv /\ IInv' /\ BInv /\ [Next]_vars => BInv'
  <2> SUFFICES ASSUME IInv, IInv', BInv, [Next]_vars PROVE BInv'
    OBVIOUS
  <2>1. CASE Crash
    BY <2>1, CrashEntries, CrashRedo DEF BInv
  <2>2. CASE ~Crash
    BY <2>2, StepGrows, EntryGateStep, RedoGrows, JobRedoStep DEF BInv
  <2> QED
    BY <2>1, <2>2
<1> QED
  BY <1>1, <1>2, Invariance, PTL DEF Spec

(* What a restore without a question finds at a path nobody recorded.      *)
LEMMA AskedOrMine ==
  ASSUME IInv, BInv, Idle, ~running, NEW target,
         target = UndoTarget \/ target = RedoTarget, target # NoTurn,
         NEW p \in DOMAIN Compose(target), PostsOf(p) = {}
  PROVE  disk[p] = Compose(target)[p] \/ HasDied(p)
<1>1. PICK i \in ComposedFrom(target) :
        records[i].path = p /\ Compose(target)[p] = records[i].was
  BY ComposeIs DEF IInv
<1>2. i \in Entries /\ i \in Seqs("pre") /\ i \notin RevokedSeqs
  BY DEF ComposedFrom, Entries
<1>3. i \in died => HasDied(p)
  BY <1>1, <1>2 DEF HasDied
<1>4. records[i].path \in Paths /\ i # 0
  BY <1>2, RecordShape DEF IInv, StoreTypes, Seqs
<1>5. CASE target \in UserTurns
  <2>1. records[i].turn \in UserTurns
    BY <1>5 DEF ComposedFrom, UserTurns
  <2>2. ~RecordedBy(p, durable)
    BY DEF RecordedBy
  <2>3. i \in died \/ AtWork(i)
    BY <1>1, <1>2, <2>1, <2>2 DEF BInv, EntryInv
  <2>4. CASE AtWork(i)
    <3>1. PICK w \in Writers :
            /\ op[w].path = p /\ op[w].phase \in {"capturing", "ready", "wrote"}
            /\ op[w].ref = i
      BY <1>1, <2>4 DEF AtWork
    <3>2. ~MayJournal(w)
      BY <1>4, <1>1, <3>1 DEF BInv, GateInv, NoOp
    <3>3. w \in Workers /\ ~gate[w] /\ pending[w] = {}
      BY <3>2 DEF MayJournal, Writers, BInv, GateInv
    <3>4. op[w].phase = "capturing"
      BY <1>2, <1>4, <3>1, <3>3 DEF BInv, GateInv
    <3>5. PICK o \in Ops : o = op[w] /\ OpOK(o)
      BY DEF IInv, ToolTypes, OpInv
    <3>6. records[i].was = disk[p]
      BY <1>4, <3>1, <3>4, <3>5 DEF OpOK
    <3> QED
      BY <1>1, <3>6
  <2> QED
    BY <1>3, <2>3, <2>4
<1>6. CASE target \notin UserTurns
  <2>1. records[i].turn = target
    BY <1>6 DEF ComposedFrom
  <2>2. target = RedoTarget
    BY <1>6, UndoTargetIs DEF IInv
  <2>3. PICK d \in Seqs("done") : target = records[d].redo
    BY <2>2, RedoTargetIs DEF IInv
  <2>4. i \in died
    BY <1>1, <1>2, <2>1, <2>3 DEF BInv, RedoInv, RecordedBy
  <2> QED
    BY <1>3, <2>4
<1> QED
  BY <1>5, <1>6

(* /undo and /redo that ask nothing overwrite no edit by hand and nothing  *)
(* a handed-off worker wrote, whatever was captured, revoked, lost in a    *)
(* crash and replayed before; except at a path where a write's own record  *)
(* was lost.                                                               *)
THEOREM UndoAsks == Spec => UndoAsksFirst
<1>1. IInv /\ BInv /\ [Next]_vars =>
        [plan = NoPlan /\ plan'.phase = "chosen" =>
           \A p \in DOMAIN plan'.files :
             \/ by[p] = "agent" \/ disk[p] = plan'.files[p]
             \/ PostsOf(p) # {} /\ disk[p] = LatestPost(p)
             \/ HasDied(p)]_vars
  <2> SUFFICES ASSUME IInv, BInv, Next, plan = NoPlan, plan'.phase = "chosen",
                      NEW p \in DOMAIN plan'.files
               PROVE  \/ disk[p] = plan'.files[p]
                      \/ PostsOf(p) # {} /\ disk[p] = LatestPost(p)
                      \/ HasDied(p)
    OBVIOUS
  <2>1. plan' # plan /\ plan.phase = "none" /\ plan' # NoPlan
    BY DEF NoPlan
  <2>2. PICK verb \in {"undo", "redo", "rewind"} : Request(verb)
    <3>1. ~(\/ BeginTurn \/ EndTurn \/ Persist \/ Launch \/ Recovered
            \/ (\E q \in Paths : HandEdit(q)) \/ (\E w \in Workers : Handoff(w))
            \/ \E w \in Writers : \/ \E q \in Paths : Capture(w, q)
                                  \/ CaptureFlushed(w) \/ RevokeFlushed(w)
                                  \/ ToolWrite(w) \/ ToolFails(w)
                                  \/ PostImage(w) \/ PostFlushed(w))
      BY <2>1 DEF BeginTurn, EndTurn, Persist, Launch, Recovered, HandEdit, Handoff, Capture,
                  CaptureFlushed, Commit, RevokeFlushed, ToolWrite, ToolFails, PostImage,
                  PostFlushed, jobVars
    <3>2. ~(\/ \E q \in Paths : ApplyWrite(q) \/ ApplyFails(q)
            \/ Recover \/ WritePointer \/ TakeLocks \/ ApplyLog \/ FinishRestore
            \/ ClearPointer)
      BY <2>1 DEF ApplyWrite, ApplyFails, Recover, Replay, WritePointer, TakeLocks, ApplyLog,
                  FinishRestore, ClearPointer
    <3>3. ~(\/ \E skip \in BOOLEAN : Choose(skip)
            \/ Dismiss \/ BeginRestore \/ LogStart \/ Crash)
      BY <2>1 DEF Choose, Dismiss, BeginRestore, LogStart, Crash
    <3> QED
      BY <3>1, <3>2, <3>3 DEF Next
  <2>3. Idle /\ ~running
    BY <2>2 DEF Request
  <2>4. \E target : /\ \E asks \in BOOLEAN : PlanFor(target, asks) /\ (verb = "rewind" => asks)
                    /\ verb # "rewind" => /\ target = UndoTarget \/ target = RedoTarget
                                          /\ target # NoTurn
    BY <2>2 DEF Request
  <2>5. PICK target : /\ \E asks \in BOOLEAN : /\ PlanFor(target, asks)
                                               /\ verb = "rewind" => asks
                      /\ verb # "rewind" => /\ target = UndoTarget \/ target = RedoTarget
                                            /\ target # NoTurn
    BY <2>4
  <2>6. PICK asks \in BOOLEAN : PlanFor(target, asks) /\ (verb = "rewind" => asks)
    BY <2>5
  <2> DEFINE files    == Compose(target)
             diverged == {q \in DOMAIN files : Diverged(q)}
             phase    == IF asks \/ diverged # {} THEN "asking" ELSE "chosen"
  <2>7. plan' = [phase |-> phase, target |-> target, files |-> files, diverged |-> diverged,
                 skip |-> FALSE]
    BY <2>6 DEF PlanFor
  <2>8. plan'.phase = phase /\ plan'.files = files
    <3> HIDE DEF phase, files, diverged
    <3> QED
      BY <2>7
  <2>9. ~asks /\ ~Diverged(p) /\ p \in DOMAIN Compose(target)
    BY <2>8
  <2>10. CASE PostsOf(p) # {}
    BY <2>9, <2>10 DEF Diverged
  <2>11. CASE PostsOf(p) = {}
    BY <2>3, <2>5, <2>6, <2>8, <2>9, <2>11, AskedOrMine
  <2> QED
    BY <2>10, <2>11
<1> QED
  BY <1>1, Invariance, BInvariance, PTL DEF Spec, UndoAsksFirst

============================================================================
