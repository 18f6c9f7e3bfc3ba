---------------------------- MODULE StorageProofs ----------------------------
(***************************************************************************)
(* Proofs about the two stages of storage: the raw archive the collector   *)
(* writes (RawArchive) and the normalization that reads it (Normalizer).   *)
(*                                                                         *)
(* For RawArchive one inductive invariant, RInv, carries the five safety   *)
(* properties.  Its parts say                                              *)
(*   ThreadOK, ControlOK  which job can run in which phase of the process, *)
(*   WritersOK            an open file is partial, except while it is      *)
(*                        closed,                                          *)
(*   PartialsOK           who is responsible for a partial file,           *)
(*   RowsOK               files, batch and queue hold envelopes in the     *)
(*                        order of their numbers,                          *)
(*   DistinctOK           only abandoned files share rows with another.    *)
(*                                                                         *)
(* For Normalizer the handlers come first: what each emits for a message   *)
(* (Handles), for an envelope (HandlesAll), for a batch (BatchTells).  The *)
(* inductive invariant, TellsInv, then says that the rows published so far *)
(* and those a run still has to publish account for every file it holds.   *)
(* Once more from the handlers to the batch, Brings follows that the parts *)
(* of a message lead to rows with different keys; OnceInv says that one    *)
(* run at a time publishes them, of files that no run has marked before.   *)
(* A third time, Charts follows the rows of one market through the parser: *)
(* what a file leads to does not depend on the batch it is read in, as     *)
(* long as the market is active.  ChartInv says where those rows are while *)
(* a run has them in hand and what the series and the index lack till then.*)
(***************************************************************************)
EXTENDS RawArchive, Normalizer, SumTheorems, SequenceTheorems

-----------------------------------------------------------------------------
(* The raw archive *)

At(where) == thread # Idle /\ thread.at = where

Runs(jobs) == thread # Idle /\ thread.job \in jobs

Alive == process \in {"running", "draining", "closing"}

Jobs(jobs, todos) ==
  [job : jobs, todo : todos, at : {"step"}]
    \cup [job : jobs, todo : todos, at : {"rename", "append", "publish"}, file : DOMAIN files]

ThreadOK ==
  \/ thread = Idle
  \/ Runs({"recover"}) /\ thread \in Jobs({"recover"}, SUBSET DOMAIN files)
  \/ /\ Runs({"write", "flush", "close_all"})
     /\ thread \in Jobs({"write", "flush", "close_all"}, SUBSET Partitions)

ControlOK ==
  /\ ~Alive => /\ worker = "none" /\ queue = <<>> /\ batch = <<>>
               /\ DOMAIN writers = {} /\ broken = 0 /\ accepted = {}
  /\ process = "down" => thread = Idle
  /\ process = "recovering" <=> Runs({"recover"})
  /\ process = "running" => worker \in {"waiting", "busy", "failed"}
  /\ process = "draining" => worker \in {"waiting", "busy", "failed", "ended"}
  /\ process = "closing" => worker \in {"ended", "cancelled"}
  /\ Runs({"write", "flush"}) => worker \in {"busy", "cancelled"}
  /\ Runs({"close_all"}) => process = "closing"
  /\ batch # <<>> => Runs({"write"})
  /\ worker = "failed" \/ broken # 0 => failures > 0
  /\ broken # 0 => worker \in {"failed", "cancelled"} /\ ~Runs({"write", "flush"})

JobOK ==
  /\ Runs({"write"}) => thread.todo = {}
  /\ Runs({"flush", "close_all"}) => thread.todo \subseteq DOMAIN writers
  /\ At("publish") => Runs({"recover"}) /\ files[thread.file].name = "abandoned"
  /\ At("rename") => ~Runs({"recover"}) /\ files[thread.file].name = "partial"
  /\ At("append") =>
       files[thread.file].name = IF Runs({"recover"}) THEN "recovered" ELSE "final"
  /\ (At("rename") \/ At("append")) /\ ~Runs({"recover"}) =>
       \E p \in DOMAIN writers : p \notin thread.todo /\ writers[p] = thread.file
  /\ Runs({"close_all"}) =>
       \A p \in DOMAIN writers :
         p \in thread.todo \/ (~At("step") /\ writers[p] = thread.file)

WritersOK ==
  /\ \A p \in DOMAIN writers :
       /\ files[writers[p]].partition = p
       /\ \/ files[writers[p]].name = "partial"
          \/ /\ files[writers[p]].name = "final"
             /\ writers[p] = broken \/ (At("append") /\ writers[p] = thread.file)
  /\ \A f \in manifest : files[f].name \in {"final", "recovered"}

Accounted(f) ==
  \/ f \in manifest \cup Range(writers)
  \/ At("append") /\ f = thread.file

PartialsOK ==
  /\ Alive => Partials \subseteq Range(writers)
  /\ Runs({"recover"}) => Partials = thread.todo
  /\ crashes = 0 /\ failures = 0 => \A f \in DOMAIN files : Accounted(f)

Before(d, e) == d.seq < e.seq /\ d.window <= e.window

Past(e) == e.seq <= issued /\ e.window <= clock

Increasing(s) == \A i, j \in DOMAIN s : i < j => Before(s[i], s[j])

Precedes(s, t) == \A i \in DOMAIN s, j \in DOMAIN t : Before(s[i], t[j])

OneWindow(s) == \A i, j \in DOMAIN s : s[i].window = s[j].window

PastSeq(s) == \A i \in DOMAIN s : Past(s[i])

RowsOK ==
  /\ Increasing(queue) /\ Increasing(batch) /\ Precedes(batch, queue)
  /\ PastSeq(queue) /\ PastSeq(batch)
  /\ \A f \in DOMAIN files :
       LET rows == files[f].rows IN
       /\ Increasing(rows) /\ OneWindow(rows) /\ PastSeq(rows)
       /\ Precedes(rows, batch) /\ Precedes(rows, queue)

Live(f) == files[f].name # "abandoned" \/ (At("publish") /\ f = thread.file)

Disjoint(s, t) == \A i \in DOMAIN s, j \in DOMAIN t : s[i].seq # t[j].seq

DistinctOK ==
  \A f, g \in DOMAIN files :
    f # g /\ Live(f) /\ Live(g) => Disjoint(files[f].rows, files[g].rows)

CountersOK == crashes \in Nat /\ failures \in Nat

RInv ==
  /\ TypeOK /\ CountersOK /\ ThreadOK /\ ControlOK /\ JobOK /\ WritersOK /\ PartialsOK
  /\ RowsOK /\ DistinctOK /\ NothingLostWhileRunning

-----------------------------------------------------------------------------
(* What the types say of one envelope, file or job *)

LEMMA EnvelopeType ==
  ASSUME NEW e \in Envelope
  PROVE  e.seq \in Nat /\ e.window \in Nat
BY DEF Envelope

LEMMA PartitionType ==
  ASSUME NEW e \in Envelope
  PROVE  PartitionFor(e) \in Partitions
BY ArchiveAssumption DEF PartitionFor, Partitions, Envelope

LEMMA FileType ==
  ASSUME TypeOK, NEW f \in DOMAIN files
  PROVE  /\ f \in 1 .. Len(files) /\ Len(files) \in Nat
         /\ files[f] \in File /\ files[f].rows \in Seq(Envelope)
         /\ files[f].partition \in Partitions /\ files[f].flushed \in Nat
         /\ files[f].name \in {"partial", "final", "abandoned", "recovered"}
<1>1. files \in Seq(File)
  BY DEF TypeOK
<1>2. DOMAIN files = 1 .. Len(files) /\ Len(files) \in Nat /\ files[f] \in File
  BY <1>1
<1>3. QED
  BY <1>2 DEF File

LEMMA JobFields ==
  ASSUME ThreadOK, thread # Idle
  PROVE  /\ thread.job \in {"write", "flush", "close_all", "recover"}
         /\ thread.at \in {"step", "rename", "append", "publish"}
         /\ thread.at # "step" => thread.file \in DOMAIN files
         /\ thread.job = "recover" => thread.todo \subseteq DOMAIN files
         /\ thread.job # "recover" => thread.todo \subseteq Partitions
BY DEF ThreadOK, Jobs, Runs

\* A file of its own for every open partition.
LEMMA WritersInjective ==
  ASSUME WritersOK, NEW p \in DOMAIN writers, NEW q \in DOMAIN writers,
         writers[p] = writers[q]
  PROVE  p = q
BY DEF WritersOK

\* No writer is broken while a job writes or flushes: every open file is partial.
LEMMA OpenIsPartial ==
  ASSUME TypeOK, ControlOK, WritersOK, Runs({"write", "flush"}), At("step"),
         NEW p \in DOMAIN writers
  PROVE  writers[p] \in DOMAIN files /\ files[writers[p]].name = "partial"
<1>1. writers[p] \in DOMAIN files
  BY DEF TypeOK, Range
<1>2. writers[p] # 0
  BY <1>1, FileType
<1>3. QED
  BY <1>1, <1>2 DEF ControlOK, WritersOK, Runs, At

-----------------------------------------------------------------------------
(* Frames: steps that leave the rows of all files where they are *)

SameRows ==
  /\ DOMAIN files' = DOMAIN files
  /\ \A f \in DOMAIN files : files'[f].rows = files[f].rows

LEMMA RowsFrame ==
  ASSUME TypeOK, RowsOK, SameRows, UNCHANGED <<queue, batch>>,
         issued' \in Nat, issued <= issued', clock' \in Nat, clock <= clock'
  PROVE  RowsOK'
<1>0. issued \in Nat /\ clock \in Nat
  BY DEF TypeOK
<1>1. \A e \in Envelope : Past(e) => Past(e)'
  <2>1. ASSUME NEW e \in Envelope, Past(e) PROVE e.seq <= issued' /\ e.window <= clock'
    BY <1>0, <2>1, EnvelopeType DEF Past
  <2>2. QED
    BY <2>1 DEF Past
<1>2. \A s \in Seq(Envelope) : PastSeq(s) => PastSeq(s)'
  BY <1>1 DEF PastSeq
<1>3. PastSeq(queue)' /\ PastSeq(batch)'
  BY <1>2 DEF TypeOK, RowsOK, PastSeq
<1>4. ASSUME NEW f \in DOMAIN files' PROVE PastSeq(files[f].rows)'
  <2>1. f \in DOMAIN files /\ files'[f].rows = files[f].rows
    BY DEF SameRows
  <2>2. \A i \in DOMAIN files[f].rows :
          files[f].rows[i].seq <= issued' /\ files[f].rows[i].window <= clock'
    <3>1. files[f].rows \in Seq(Envelope) /\ PastSeq(files[f].rows)
      BY <2>1, FileType DEF RowsOK
    <3>2. \A i \in DOMAIN files[f].rows :
            files[f].rows[i] \in Envelope /\ Past(files[f].rows[i])
      BY <3>1 DEF PastSeq
    <3>3. QED
      BY <3>2, <1>1 DEF Past
  <2>3. QED
    BY <2>1, <2>2 DEF PastSeq, Past
<1>5. QED
  BY <1>3, <1>4 DEF RowsOK, SameRows, Increasing, Precedes, OneWindow, PastSeq, Before

LEMMA DistinctFrame ==
  ASSUME DistinctOK, SameRows, \A f \in DOMAIN files : Live(f)' => Live(f)
  PROVE  DistinctOK'
BY DEF DistinctOK, SameRows, Disjoint

\* The rows of files that neither appear nor leave the archive.
LEMMA LostFrame ==
  ASSUME NothingLostWhileRunning, SameRows, UNCHANGED <<queue, batch, accepted>>,
         failures' = 0 => failures = 0,
         \A f \in DOMAIN files :
           files[f].name \in {"partial", "final"} => files'[f].name \in {"partial", "final"}
  PROVE  NothingLostWhileRunning'
<1>1. ASSUME NEW e \in Rows("partial") \cup Rows("final")
      PROVE  e \in (Rows("partial") \cup Rows("final"))'
  <2>1. PICK f \in DOMAIN files :
          files[f].name \in {"partial", "final"} /\ e \in Range(files[f].rows)
    BY <1>1 DEF Rows
  <2>2. f \in DOMAIN files' /\ e \in Range(files'[f].rows)
          /\ files'[f].name \in {"partial", "final"}
    BY <2>1 DEF SameRows
  <2>3. QED
    BY <2>2 DEF Rows
<1>2. QED
  BY <1>1 DEF NothingLostWhileRunning

-----------------------------------------------------------------------------
(* Steps that change no file.  QuietFrame settles what is said of the rows. *)

LEMMA NewJob ==
  ASSUME NEW job \in {"write", "flush", "close_all", "recover"}, NEW todo, thread' = Job(job, todo)
  PROVE  /\ thread' # Idle /\ thread'.job = job /\ thread'.todo = todo
         /\ thread'.at = "step"
BY DEF Job, Idle

LEMMA ClosingJob ==
  ASSUME NEW job \in {"write", "flush", "close_all"}, NEW todo, NEW f, thread' = BeginClose(job, todo, f)
  PROVE  /\ thread' # Idle /\ thread'.job = job /\ thread'.todo = todo
         /\ thread'.at = "rename" /\ thread'.file = f
BY DEF BeginClose, Idle

LEMMA QuietFrame ==
  ASSUME RInv, UNCHANGED <<issued, queue, batch, files, accepted, failures>>,
         clock' \in Nat, clock <= clock', At("publish")' => UNCHANGED thread
  PROVE  RowsOK' /\ DistinctOK' /\ NothingLostWhileRunning'
<1>1. RowsOK'
  BY RowsFrame DEF RInv, TypeOK, SameRows
<1>2. DistinctOK'
  BY DistinctFrame DEF RInv, SameRows, Live, At
<1>3. NothingLostWhileRunning'
  BY LostFrame DEF RInv, SameRows
<1>4. QED
  BY <1>1, <1>2, <1>3

\* The clock moves.
LEMMA TickStep ==
  ASSUME RInv, Tick
  PROVE  RInv'
<1> USE DEF RInv, Tick, memory, disk, bounds
<1>1. TypeOK' /\ CountersOK'
  BY ArchiveAssumption DEF TypeOK, CountersOK, Phases
<1>2. ThreadOK'
  BY DEF ThreadOK, Jobs, Runs
<1>3. ControlOK'
  BY JobFields DEF ControlOK, Runs, Alive
<1>4. JobOK'
  BY JobFields DEF JobOK, ControlOK, Runs, At
<1>5. WritersOK' /\ PartialsOK'
  BY JobFields DEF WritersOK, PartialsOK, ControlOK, Accounted, Partials, Runs, At, Alive
<1>6. clock' \in Nat /\ clock <= clock' /\ (At("publish")' => UNCHANGED thread)
  BY ArchiveAssumption DEF TypeOK, At
<1>7. QED
  BY <1>1, <1>2, <1>3, <1>4, <1>5, <1>6, QuietFrame

\* The process begins to drain.
LEMMA RequestStopStep ==
  ASSUME RInv, RequestStop
  PROVE  RInv'
<1> USE DEF RInv, RequestStop, memory, disk, bounds
<1>1. TypeOK' /\ CountersOK'
  BY ArchiveAssumption DEF TypeOK, CountersOK, Phases
<1>2. ThreadOK'
  BY DEF ThreadOK, Jobs, Runs
<1>3. ControlOK'
  BY JobFields DEF ControlOK, Runs, Alive
<1>4. JobOK'
  BY JobFields DEF JobOK, ControlOK, Runs, At
<1>5. WritersOK' /\ PartialsOK'
  BY JobFields DEF WritersOK, PartialsOK, ControlOK, Accounted, Partials, Runs, At, Alive
<1>6. clock' \in Nat /\ clock <= clock' /\ (At("publish")' => UNCHANGED thread)
  BY ArchiveAssumption DEF TypeOK, At
<1>7. QED
  BY <1>1, <1>2, <1>3, <1>4, <1>5, <1>6, QuietFrame

\* The worker has ended.
LEMMA DrainedStep ==
  ASSUME RInv, Drained
  PROVE  RInv'
<1> USE DEF RInv, Drained, memory, disk, bounds
<1>1. TypeOK' /\ CountersOK'
  BY ArchiveAssumption DEF TypeOK, CountersOK, Phases
<1>2. ThreadOK'
  BY DEF ThreadOK, Jobs, Runs
<1>3. ControlOK'
  BY JobFields DEF ControlOK, Runs, Alive
<1>4. JobOK'
  BY JobFields DEF JobOK, ControlOK, Runs, At
<1>5. WritersOK' /\ PartialsOK'
  BY JobFields DEF WritersOK, PartialsOK, ControlOK, Accounted, Partials, Runs, At, Alive
<1>6. clock' \in Nat /\ clock <= clock' /\ (At("publish")' => UNCHANGED thread)
  BY ArchiveAssumption DEF TypeOK, At
<1>7. QED
  BY <1>1, <1>2, <1>3, <1>4, <1>5, <1>6, QuietFrame

\* A cancelled worker leaves its job in the thread.
LEMMA DrainTimesOutStep ==
  ASSUME RInv, DrainTimesOut
  PROVE  RInv'
<1> USE DEF RInv, DrainTimesOut, disk, bounds
<1>1. TypeOK' /\ CountersOK'
  BY ArchiveAssumption DEF TypeOK, CountersOK, Phases
<1>2. ThreadOK'
  BY DEF ThreadOK, Jobs, Runs
<1>3. ControlOK'
  BY JobFields DEF ControlOK, Runs, Alive
<1>4. JobOK'
  BY JobFields DEF JobOK, ControlOK, Runs, At
<1>5. WritersOK' /\ PartialsOK'
  BY JobFields DEF WritersOK, PartialsOK, ControlOK, Accounted, Partials, Runs, At, Alive
<1>6. clock' \in Nat /\ clock <= clock' /\ (At("publish")' => UNCHANGED thread)
  BY ArchiveAssumption DEF TypeOK, At
<1>7. QED
  BY <1>1, <1>2, <1>3, <1>4, <1>5, <1>6, QuietFrame

\* The flush job visits the files that are open.
LEMMA IdleFlushStep ==
  ASSUME RInv, IdleFlush
  PROVE  RInv'
<1> USE DEF RInv, IdleFlush, disk, bounds
<1>0. /\ thread' # Idle /\ thread'.job = "flush" /\ thread'.todo = DOMAIN writers
      /\ thread'.at = "step"
  BY NewJob
<1>1. TypeOK' /\ CountersOK'
  BY ArchiveAssumption DEF TypeOK, CountersOK, Phases
<1>2. ThreadOK'
  BY DEF TypeOK, ThreadOK, Jobs, Runs, Job, Idle
<1>3. ControlOK'
  BY <1>0, JobFields DEF ControlOK, Runs, Alive
<1>4. JobOK'
  BY <1>0, JobFields DEF JobOK, ControlOK, Runs, At
<1>5. WritersOK' /\ PartialsOK'
  BY <1>0, JobFields DEF WritersOK, PartialsOK, ControlOK, Accounted, Partials, Runs, At, Alive
<1>6. clock' \in Nat /\ clock <= clock' /\ (At("publish")' => UNCHANGED thread)
  BY <1>0, ArchiveAssumption DEF TypeOK, At
<1>7. QED
  BY <1>1, <1>2, <1>3, <1>4, <1>5, <1>6, QuietFrame

\* The worker looks at its loop condition.
LEMMA WorkerResumesStep ==
  ASSUME RInv, WorkerResumes
  PROVE  RInv'
<1> USE DEF RInv, WorkerResumes, disk, bounds
<1>1. TypeOK' /\ CountersOK'
  BY ArchiveAssumption DEF TypeOK, CountersOK, Phases
<1>2. ThreadOK'
  BY DEF ThreadOK, Jobs, Runs
<1>3. ControlOK'
  BY JobFields DEF ControlOK, Runs, Alive
<1>4. JobOK'
  BY JobFields DEF JobOK, ControlOK, Runs, At
<1>5. WritersOK' /\ PartialsOK'
  BY JobFields DEF WritersOK, PartialsOK, ControlOK, Accounted, Partials, Runs, At, Alive
<1>6. clock' \in Nat /\ clock <= clock' /\ (At("publish")' => UNCHANGED thread)
  BY ArchiveAssumption DEF TypeOK, At
<1>7. QED
  BY <1>1, <1>2, <1>3, <1>4, <1>5, <1>6, QuietFrame

\* The open file of the envelope is closed first.
LEMMA CrossBoundaryStep ==
  ASSUME RInv, CrossBoundary
  PROVE  RInv'
<1> USE DEF RInv, CrossBoundary, CrossesRotationBoundary, Writing, disk, bounds
<1>0. /\ thread' # Idle /\ thread'.job = "write" /\ thread'.todo = {}
      /\ thread'.at = "rename" /\ thread'.file = writers[PartitionFor(Head(batch))]
  BY ClosingJob
<1>1. TypeOK' /\ CountersOK'
  BY ArchiveAssumption DEF TypeOK, CountersOK, Phases
<1>2. ThreadOK'
  BY <1>0, OpenIsPartial DEF ThreadOK, Jobs, Runs, At, BeginClose
<1>3. ControlOK'
  BY <1>0, JobFields DEF ControlOK, Runs, Alive
<1>4. JobOK'
  BY <1>0, JobFields, OpenIsPartial DEF JobOK, ControlOK, Runs, At
<1>5. WritersOK' /\ PartialsOK'
  BY <1>0, JobFields DEF WritersOK, PartialsOK, ControlOK, Accounted, Partials, Runs, At, Alive
<1>6. clock' \in Nat /\ clock <= clock' /\ (At("publish")' => UNCHANGED thread)
  BY <1>0, ArchiveAssumption DEF TypeOK, At
<1>7. QED
  BY <1>1, <1>2, <1>3, <1>4, <1>5, <1>6, QuietFrame

\* The flush job closes a file that is due.
LEMMA RotateIdleFileStep ==
  ASSUME RInv, NEW p \in Partitions, RotateIdleFile(p)
  PROVE  RInv'
<1> USE DEF RInv, RotateIdleFile, Visits, disk, bounds
<1>0. /\ thread' # Idle /\ thread'.job = "flush" /\ thread'.todo = thread.todo \ {p}
      /\ thread'.at = "rename" /\ thread'.file = writers[p]
  BY ClosingJob
<1>1. TypeOK' /\ CountersOK'
  BY ArchiveAssumption DEF TypeOK, CountersOK, Phases
<1>2. ThreadOK'
  BY <1>0, OpenIsPartial DEF ThreadOK, Jobs, JobOK, Runs, At, BeginClose
<1>3. ControlOK'
  BY <1>0, JobFields DEF ControlOK, Runs, Alive
<1>4. JobOK'
  BY <1>0, JobFields, OpenIsPartial DEF JobOK, ControlOK, Runs, At
<1>5. WritersOK' /\ PartialsOK'
  BY <1>0, JobFields DEF WritersOK, PartialsOK, ControlOK, Accounted, Partials, Runs, At, Alive
<1>6. clock' \in Nat /\ clock <= clock' /\ (At("publish")' => UNCHANGED thread)
  BY <1>0, ArchiveAssumption DEF TypeOK, At
<1>7. QED
  BY <1>1, <1>2, <1>3, <1>4, <1>5, <1>6, QuietFrame

\* _close_all closes the next file.
LEMMA CloseFileStep ==
  ASSUME RInv, NEW p \in Partitions, CloseFile(p)
  PROVE  RInv'
<1> USE DEF RInv, CloseFile, Visits, disk, bounds
<1>0. /\ thread' # Idle /\ thread'.job = "close_all" /\ thread'.todo = thread.todo \ {p}
      /\ thread'.at = "rename" /\ thread'.file = writers[p]
  BY ClosingJob
<1>1. TypeOK' /\ CountersOK'
  BY ArchiveAssumption DEF TypeOK, CountersOK, Phases
<1>2. ThreadOK'
  BY <1>0 DEF ThreadOK, Jobs, JobOK, TypeOK, Range, Runs, BeginClose
<1>3. ControlOK'
  BY <1>0, JobFields DEF ControlOK, Runs, Alive
<1>4. JobOK'
  <2>1. p \in DOMAIN writers /\ files[writers[p]].name = "partial"
    BY DEF JobOK, WritersOK, Runs, At
  <2>2. \A q \in DOMAIN writers : q \in thread.todo
    BY DEF JobOK, Runs, At
  <2>3. QED
    BY <1>0, <2>1, <2>2 DEF JobOK, Runs, At
<1>5. WritersOK' /\ PartialsOK'
  BY <1>0, JobFields DEF WritersOK, PartialsOK, ControlOK, Accounted, Partials, Runs, At, Alive
<1>6. clock' \in Nat /\ clock <= clock' /\ (At("publish")' => UNCHANGED thread)
  BY <1>0, ArchiveAssumption DEF TypeOK, At
<1>7. QED
  BY <1>1, <1>2, <1>3, <1>4, <1>5, <1>6, QuietFrame

\* A job that has nothing left to do.
LEMMA JobDoneStep ==
  ASSUME RInv, JobDone
  PROVE  RInv'
<1> USE DEF RInv, JobDone, disk, bounds
<1>1. TypeOK' /\ CountersOK'
  BY ArchiveAssumption DEF TypeOK, CountersOK, Phases
<1>2. ThreadOK'
  BY DEF ThreadOK, Jobs, Runs
<1>3. ControlOK'
  BY JobFields DEF ControlOK, Runs, Alive
<1>4. JobOK'
  BY JobFields DEF JobOK, ControlOK, Runs, At
<1>5. WritersOK' /\ PartialsOK'
  BY JobFields DEF WritersOK, PartialsOK, ControlOK, Accounted, Partials, Runs, At, Alive
<1>6. clock' \in Nat /\ clock <= clock' /\ (At("publish")' => UNCHANGED thread)
  BY ArchiveAssumption DEF TypeOK, At
<1>7. QED
  BY <1>1, <1>2, <1>3, <1>4, <1>5, <1>6, QuietFrame

\* _close_all visits every open file.
LEMMA CloseAllStartsStep ==
  ASSUME RInv, CloseAllStarts
  PROVE  RInv'
<1> USE DEF RInv, CloseAllStarts, disk, bounds
<1>0. /\ thread' # Idle /\ thread'.job = "close_all" /\ thread'.todo = DOMAIN writers
      /\ thread'.at = "step"
  BY NewJob
<1>1. TypeOK' /\ CountersOK'
  BY ArchiveAssumption DEF TypeOK, CountersOK, Phases
<1>2. ThreadOK'
  BY DEF TypeOK, ThreadOK, Jobs, Runs, Job, Idle
<1>3. ControlOK'
  BY <1>0, JobFields DEF ControlOK, Runs, Alive
<1>4. JobOK'
  BY <1>0, JobFields DEF JobOK, ControlOK, Runs, At
<1>5. WritersOK' /\ PartialsOK'
  BY <1>0, JobFields DEF WritersOK, PartialsOK, ControlOK, Accounted, Partials, Runs, At, Alive
<1>6. clock' \in Nat /\ clock <= clock' /\ (At("publish")' => UNCHANGED thread)
  BY <1>0, ArchiveAssumption DEF TypeOK, At
<1>7. QED
  BY <1>1, <1>2, <1>3, <1>4, <1>5, <1>6, QuietFrame

\* The recovery visits every partial file.
LEMMA StartStep ==
  ASSUME RInv, Start
  PROVE  RInv'
<1> USE DEF RInv, Start, disk, bounds
<1>0. /\ thread' # Idle /\ thread'.job = "recover" /\ thread'.todo = Partials
      /\ thread'.at = "step"
  BY NewJob
<1>1. TypeOK' /\ CountersOK'
  BY ArchiveAssumption DEF TypeOK, CountersOK, Phases
<1>2. ThreadOK'
  BY DEF ThreadOK, Jobs, Runs, Idle, Job, Partials
<1>3. ControlOK'
  BY <1>0, JobFields DEF ControlOK, Runs, Alive
<1>4. JobOK'
  BY <1>0, JobFields DEF JobOK, ControlOK, Runs, At
<1>5. WritersOK' /\ PartialsOK'
  BY <1>0, JobFields DEF WritersOK, PartialsOK, ControlOK, Accounted, Partials, Runs, At, Alive
<1>6. clock' \in Nat /\ clock <= clock' /\ (At("publish")' => UNCHANGED thread)
  BY <1>0, ArchiveAssumption DEF TypeOK, At
<1>7. QED
  BY <1>1, <1>2, <1>3, <1>4, <1>5, <1>6, QuietFrame

\* No partial file is left when the worker starts.
LEMMA RecoveredStep ==
  ASSUME RInv, Recovered
  PROVE  RInv'
<1> USE DEF RInv, Recovered, disk, bounds
<1>1. TypeOK' /\ CountersOK'
  BY ArchiveAssumption DEF TypeOK, CountersOK, Phases
<1>2. ThreadOK'
  BY DEF ThreadOK, Jobs, Runs
<1>3. ControlOK'
  BY JobFields DEF ControlOK, Runs, Alive
<1>4. JobOK'
  BY JobFields DEF JobOK, ControlOK, Runs, At
<1>5. WritersOK' /\ PartialsOK'
  BY JobFields DEF WritersOK, PartialsOK, ControlOK, Accounted, Partials, Runs, At, Alive
<1>6. clock' \in Nat /\ clock <= clock' /\ (At("publish")' => UNCHANGED thread)
  BY ArchiveAssumption DEF TypeOK, At
<1>7. QED
  BY <1>1, <1>2, <1>3, <1>4, <1>5, <1>6, QuietFrame

-----------------------------------------------------------------------------
(* The order of envelopes in sequences cut and appended to *)

Part(t, s, shift) ==
  /\ t \in Seq(Envelope)
  /\ \A k \in DOMAIN t : k + shift \in DOMAIN s /\ t[k] = s[k + shift]

\* What holds of all elements of a sequence holds of a part of it.
LEMMA PartOrder ==
  ASSUME NEW s \in Seq(Envelope), NEW shift \in Nat, NEW t, Part(t, s, shift)
  PROVE  /\ Increasing(s) => Increasing(t)
         /\ OneWindow(s) => OneWindow(t)
         /\ PastSeq(s) => PastSeq(t)
         /\ \A u : Precedes(s, u) => Precedes(t, u)
         /\ \A u : Precedes(u, s) => Precedes(u, t)
<1>1. \A i, j \in DOMAIN t : i \in Nat /\ j \in Nat /\ (i < j => i + shift < j + shift)
  BY DEF Part
<1>2. Increasing(s) => Increasing(t)
  BY <1>1 DEF Part, Increasing
<1>3. OneWindow(s) => OneWindow(t)
  BY DEF Part, OneWindow
<1>4. PastSeq(s) => PastSeq(t)
  BY DEF Part, PastSeq
<1>5. /\ \A u : Precedes(s, u) => Precedes(t, u)
      /\ \A u : Precedes(u, s) => Precedes(u, t)
  BY DEF Part, Precedes
<1>6. QED
  BY <1>2, <1>3, <1>4, <1>5

LEMMA SubSeqPart ==
  ASSUME NEW s \in Seq(Envelope), NEW m \in Nat \ {0}, NEW n \in Nat,
         m <= n + 1, n <= Len(s)
  PROVE  /\ Part(SubSeq(s, m, n), s, m - 1)
         /\ Len(SubSeq(s, m, n)) = n - m + 1
<1>1. \A i \in m .. n : s[i] \in Envelope
  OBVIOUS
<1>2. /\ SubSeq(s, m, n) \in Seq(Envelope)
      /\ Len(SubSeq(s, m, n)) = n - m + 1
      /\ \A k \in 1 .. n - m + 1 : SubSeq(s, m, n)[k] = s[m + k - 1]
  BY <1>1, SubSeqProperties
<1>3. ASSUME NEW k \in 1 .. n - m + 1
      PROVE  /\ k + (m - 1) \in 1 .. Len(s)
             /\ SubSeq(s, m, n)[k] = s[k + (m - 1)]
  <2>1. m + k - 1 = k + (m - 1) /\ k + (m - 1) \in 1 .. Len(s)
    OBVIOUS
  <2>2. QED
    BY <1>2, <2>1
<1>4. DOMAIN SubSeq(s, m, n) = 1 .. n - m + 1 /\ DOMAIN s = 1 .. Len(s)
  BY <1>2
<1>5. QED
  BY <1>2, <1>3, <1>4 DEF Part

LEMMA TailPart ==
  ASSUME NEW s \in Seq(Envelope), s # <<>>
  PROVE  Part(Tail(s), s, 1) /\ Len(Tail(s)) = Len(s) - 1
BY HeadTailProperties DEF Part

LEMMA HeadBeforeTail ==
  ASSUME NEW s \in Seq(Envelope), s # <<>>, Increasing(s)
  PROVE  /\ Head(s) = s[1] /\ 1 \in DOMAIN s /\ Head(s) \in Envelope
         /\ \A i \in DOMAIN Tail(s) : Before(Head(s), Tail(s)[i])
<1>1. Head(s) = s[1] /\ 1 \in DOMAIN s /\ Head(s) \in Envelope
  OBVIOUS
<1>2. \A i \in DOMAIN Tail(s) : i \in Nat \ {0} /\ i + 1 \in DOMAIN s /\ Tail(s)[i] = s[i + 1]
  BY TailPart DEF Part
<1>3. QED
  BY <1>1, <1>2 DEF Increasing

LEMMA AppendOrder ==
  ASSUME NEW s \in Seq(Envelope), NEW e \in Envelope
  PROVE  /\ Increasing(s) /\ (\A i \in DOMAIN s : Before(s[i], e)) => Increasing(Append(s, e))
         /\ OneWindow(s) /\ (\A i \in DOMAIN s : s[i].window = e.window) => OneWindow(Append(s, e))
         /\ PastSeq(s) /\ Past(e) => PastSeq(Append(s, e))
         /\ \A u : Precedes(u, s) /\ (\A i \in DOMAIN u : Before(u[i], e)) => Precedes(u, Append(s, e))
         /\ \A u : Precedes(s, u) /\ (\A i \in DOMAIN u : Before(e, u[i])) => Precedes(Append(s, e), u)
<1> DEFINE a == Append(s, e)
<1>1. /\ DOMAIN a = 1 .. Len(s) + 1 /\ DOMAIN s = 1 .. Len(s) /\ Len(s) \in Nat
      /\ \A i \in DOMAIN a : (i \in DOMAIN s /\ a[i] = s[i]) \/ (i = Len(s) + 1 /\ a[i] = e)
  OBVIOUS
<1> HIDE DEF a
<1>2. Increasing(s) /\ (\A i \in DOMAIN s : Before(s[i], e)) => Increasing(a)
  BY <1>1 DEF Increasing
<1>3. OneWindow(s) /\ (\A i \in DOMAIN s : s[i].window = e.window) => OneWindow(a)
  BY <1>1 DEF OneWindow
<1>4. PastSeq(s) /\ Past(e) => PastSeq(a)
  BY <1>1 DEF PastSeq
<1>5. \A u : Precedes(u, s) /\ (\A i \in DOMAIN u : Before(u[i], e)) => Precedes(u, a)
  BY <1>1 DEF Precedes
<1>6. \A u : Precedes(s, u) /\ (\A i \in DOMAIN u : Before(e, u[i])) => Precedes(a, u)
  BY <1>1 DEF Precedes
<1>7. QED
  BY <1>2, <1>3, <1>4, <1>5, <1>6 DEF a

-----------------------------------------------------------------------------
(* The queue, the batch and a failing write *)

LEMMA PastGrows ==
  ASSUME TypeOK, NEW s \in Seq(Envelope), PastSeq(s),
         issued' \in Nat, issued <= issued', clock' = clock
  PROVE  \A i \in DOMAIN s : s[i].seq <= issued' /\ s[i].window <= clock'
<1>1. \A i \in DOMAIN s : s[i] \in Envelope /\ s[i].seq <= issued /\ s[i].window <= clock
  BY DEF PastSeq, Past
<1>2. QED
  BY <1>1, EnvelopeType DEF TypeOK

\* A received envelope comes after all others.
LEMMA EnqueueRows ==
  ASSUME RInv, NEW stream \in Streams, Enqueue(stream)
  PROVE  RowsOK' /\ queue' \in Seq(Envelope) /\ Received(stream) \in Envelope
<1> DEFINE e == Received(stream)
<1>1. e \in Envelope /\ issued' = issued + 1 /\ issued \in Nat /\ clock' = clock
      /\ files' = files /\ batch' = batch
  BY ArchiveAssumption DEF Enqueue, Received, Envelope, RInv, TypeOK, disk
<1>2. \A s \in Seq(Envelope) : PastSeq(s) => \A i \in DOMAIN s : Before(s[i], e)
  <2>1. ASSUME NEW d \in Envelope, Past(d) PROVE Before(d, e)
    BY <1>1, <2>1, EnvelopeType DEF Past, Before, Received
  <2>2. QED
    BY <2>1 DEF PastSeq
<1>3. CASE queue' = queue
  BY <1>1, <1>3, RowsFrame DEF RInv, TypeOK, SameRows
<1>4. CASE queue' = Append(queue, e)
  <2>1. queue \in Seq(Envelope) /\ batch \in Seq(Envelope)
    BY DEF RInv, TypeOK
  <2>2. queue' \in Seq(Envelope)
    BY <1>1, <1>4, <2>1
  <2>3. Increasing(queue') /\ Precedes(batch, queue')
    BY <1>1, <1>2, <1>4, <2>1, AppendOrder DEF RInv, RowsOK
  <2>4. e.seq = issued' /\ e.window = clock'
    BY <1>1 DEF Received
  <2>5. PastSeq(batch)'
    BY <1>1, <2>1, PastGrows DEF RInv, RowsOK, PastSeq, Past
  <2>6. PastSeq(queue)'
    <3>1. \A i \in DOMAIN queue : queue[i].seq <= issued' /\ queue[i].window <= clock'
      BY <1>1, <2>1, PastGrows DEF RInv, RowsOK
    <3>2. \A i \in DOMAIN queue' :
            (i \in DOMAIN queue /\ queue'[i] = queue[i]) \/ queue'[i] = e
      BY <1>1, <1>4, <2>1
    <3>3. issued' <= issued' /\ clock' <= clock'
      BY <1>1 DEF RInv, TypeOK
    <3>4. QED
      BY <2>4, <3>1, <3>2, <3>3 DEF PastSeq, Past
  <2>7. ASSUME NEW f \in DOMAIN files
        PROVE  PastSeq(files[f].rows)' /\ Precedes(files[f].rows, queue')
    <3>1. files[f].rows \in Seq(Envelope) /\ PastSeq(files[f].rows)
      BY FileType DEF RInv, RowsOK
    <3>2. PastSeq(files[f].rows)'
      BY <1>1, <3>1, PastGrows DEF RInv, PastSeq, Past
    <3>3. Precedes(files[f].rows, queue')
      BY <1>1, <1>2, <1>4, <2>1, <3>1, AppendOrder DEF RInv, RowsOK
    <3>4. QED
      BY <3>2, <3>3
  <2>8. QED
    BY <1>1, <2>2, <2>3, <2>5, <2>6, <2>7 DEF RInv, RowsOK, Precedes
<1>5. QED
  BY <1>1, <1>3, <1>4 DEF Enqueue, RInv, TypeOK

LEMMA EnqueueStep ==
  ASSUME RInv, NEW stream \in Streams, Enqueue(stream)
  PROVE  RInv'
<1> USE DEF RInv, Enqueue, disk, bounds
<1>1. TypeOK' /\ CountersOK'
  <2>1. issued' \in 0 .. MaxEnvelopes
    BY ArchiveAssumption DEF TypeOK
  <2>2. dropped' \in [total : Nat, first : Nat, last : Nat]
    BY <2>1 DEF TypeOK
  <2>3. Len(queue') <= QueueCapacity
    BY EnqueueRows, ArchiveAssumption DEF TypeOK
  <2>4. accepted' \subseteq Envelope
    BY EnqueueRows DEF TypeOK
  <2>5. QED
    BY <2>1, <2>2, <2>3, <2>4, EnqueueRows DEF TypeOK, CountersOK
<1>2. ThreadOK' /\ ControlOK'
  BY DEF ThreadOK, ControlOK, Jobs, Runs, Alive
<1>3. JobOK' /\ WritersOK' /\ PartialsOK'
  BY DEF JobOK, WritersOK, PartialsOK, Accounted, Partials, Runs, At, Alive
<1>4. DistinctOK'
  BY DistinctFrame DEF SameRows, Live, At
<1>5. NothingLostWhileRunning'
  <2>1. Range(queue) \subseteq Range(queue')
    <3>1. queue' = queue \/ queue' = Append(queue, Received(stream))
      OBVIOUS
    <3>2. queue \in Seq(Envelope) /\ Received(stream) \in Envelope
      BY EnqueueRows DEF TypeOK
    <3>3. \A i \in DOMAIN queue : i \in DOMAIN Append(queue, Received(stream))
            /\ Append(queue, Received(stream))[i] = queue[i]
      BY <3>2, AppendProperties
    <3>4. QED
      BY <3>1, <3>3 DEF Range
  <2>2. accepted' \subseteq accepted \cup Range(queue')
    BY EnqueueRows DEF TypeOK, Range
  <2>3. QED
    BY <2>1, <2>2 DEF NothingLostWhileRunning, Rows
<1>6. QED
  BY <1>1, <1>2, <1>3, <1>4, <1>5, EnqueueRows

\* A batch is the front of the queue.
LEMMA TakeBatchStep ==
  ASSUME RInv, NEW n \in 1 .. BatchEvents, TakeBatch(n)
  PROVE  RInv'
<1> USE DEF RInv, TakeBatch, disk, bounds
<1>0. n \in Nat \ {0} /\ n <= Len(queue) /\ n <= BatchEvents
      /\ queue \in Seq(Envelope) /\ Len(queue) \in Nat
  BY ArchiveAssumption DEF TypeOK
<1>1. /\ Part(batch', queue, 0) /\ Len(batch') = n
      /\ Part(queue', queue, n) /\ Len(queue') = Len(queue) - n
  BY <1>0, SubSeqPart
<1>2. batch = <<>> /\ thread = Idle
  BY JobFields DEF ControlOK, Runs, Alive, TypeOK, Phases
<1>3. TypeOK' /\ CountersOK'
  <2>1. /\ batch' \in Seq(Envelope) /\ queue' \in Seq(Envelope)
        /\ Len(batch') <= BatchEvents /\ Len(queue') <= QueueCapacity
    BY <1>0, <1>1, ArchiveAssumption DEF TypeOK, Part
  <2>2. QED
    BY <2>1 DEF TypeOK, CountersOK
<1>4. thread' # Idle /\ thread'.job = "write" /\ thread'.todo = {} /\ thread'.at = "step"
  BY NewJob
<1>5. ThreadOK'
  BY <1>4 DEF ThreadOK, Jobs, Runs, Job
<1>6. ControlOK'
  BY <1>2, <1>4 DEF ControlOK, Runs, Alive, TypeOK, Phases
<1>7. JobOK' /\ WritersOK' /\ PartialsOK'
  BY <1>2, <1>4 DEF JobOK, WritersOK, PartialsOK, Accounted, Partials, Runs, At, Alive
<1>8. RowsOK'
  <2>1. Precedes(batch', queue')
    <3>1. \A i \in DOMAIN batch', j \in DOMAIN queue' :
            /\ i \in DOMAIN queue /\ batch'[i] = queue[i] /\ i <= n
            /\ j + n \in DOMAIN queue /\ queue'[j] = queue[j + n] /\ j >= 1
      BY <1>0, <1>1 DEF Part
    <3>2. QED
      BY <1>0, <3>1 DEF Precedes, RowsOK, Increasing
  <2>2. /\ Increasing(batch') /\ PastSeq(batch')
        /\ Increasing(queue') /\ PastSeq(queue')
        /\ \A f \in DOMAIN files :
             Precedes(files[f].rows, batch') /\ Precedes(files[f].rows, queue')
    BY <1>0, <1>1, PartOrder DEF RowsOK
  <2>3. QED
    BY <2>1, <2>2 DEF RowsOK, Increasing, OneWindow, Precedes, PastSeq, Past
<1>9. DistinctOK'
  BY <1>4, DistinctFrame DEF SameRows, Live, At
<1>10. NothingLostWhileRunning'
  <2>1. ASSUME NEW e \in Range(queue) PROVE e \in Range(batch') \cup Range(queue')
    <3>1. PICK i \in 1 .. Len(queue) : queue[i] = e
      BY <1>0 DEF Range
    <3>2. CASE i <= n
      <4>1. i \in DOMAIN batch' /\ batch'[i] = queue[i]
        BY <1>0, <1>1, <3>1, <3>2 DEF Part
      <4>2. QED
        BY <3>1, <4>1 DEF Range
    <3>3. CASE ~(i <= n)
      <4>1. i - n \in DOMAIN queue' /\ queue'[i - n] = queue[(i - n) + n]
        BY <1>0, <1>1, <3>1, <3>3 DEF Part
      <4>2. (i - n) + n = i
        BY <1>0
      <4>3. QED
        BY <3>1, <4>1, <4>2 DEF Range
    <3>4. QED
      BY <3>2, <3>3
  <2>2. Range(batch) = {}
    BY <1>2 DEF Range
  <2>3. QED
    BY <2>1, <2>2 DEF NothingLostWhileRunning, Rows
<1>11. QED
  BY <1>3, <1>5, <1>6, <1>7, <1>8, <1>9, <1>10

\* A failing write gives the batch up, and the loss is counted as a failure.
LEMMA WriteFailsStep ==
  ASSUME RInv, WriteFails
  PROVE  RInv'
<1> USE DEF RInv, WriteFails, disk
<1>1. failures' > 0 /\ failures' \in Nat /\ thread' = Idle
  BY DEF CountersOK
<1>2. TypeOK' /\ CountersOK'
  <2>1. broken' \in 0 .. Len(files)
    <3>1. Len(files) \in Nat /\ DOMAIN files = 1 .. Len(files) /\ broken \in 0 .. Len(files)
      BY DEF TypeOK
    <3>2. thread.at # "step" => thread.file \in DOMAIN files
      BY JobFields
    <3>3. QED
      BY <3>1, <3>2
  <2>2. batch' \in Seq(Envelope) /\ Len(batch') <= BatchEvents
    BY ArchiveAssumption
  <2>3. QED
    BY <1>1, <2>1, <2>2 DEF TypeOK, CountersOK
<1>3. ThreadOK' /\ JobOK'
  BY <1>1 DEF ThreadOK, JobOK, Runs, At
<1>4. ControlOK'
  BY <1>1, JobFields DEF ControlOK, Runs, Alive
<1>5. WritersOK'
  <2>1. broken = 0
    BY DEF ControlOK, Runs
  <2>2. \A p \in DOMAIN writers : writers[p] # 0
    BY FileType, SMTT(30) DEF TypeOK, Range
  <2>3. QED
    BY <2>1, <2>2, JobFields DEF WritersOK, At
<1>6. PartialsOK'
  BY <1>1 DEF PartialsOK, ControlOK, Accounted, Partials, Runs, At, Alive
<1>7. RowsOK'
  BY DEF RowsOK, Increasing, Precedes, OneWindow, PastSeq, Past
<1>8. DistinctOK'
  BY <1>1, DistinctFrame DEF SameRows, Live, At
<1>9. QED
  BY <1>1, <1>2, <1>3, <1>4, <1>5, <1>6, <1>7, <1>8 DEF NothingLostWhileRunning

-----------------------------------------------------------------------------
(* Steps that rename or flush a file *)

\* One file gets another name; its rows stay.
Changed(f, name) ==
  /\ files' \in Seq(File) /\ DOMAIN files' = DOMAIN files /\ Len(files') = Len(files)
  /\ \A g \in DOMAIN files : g # f => files'[g] = files[g]
  /\ files'[f].name = name
  /\ files'[f].rows = files[f].rows /\ files'[f].partition = files[f].partition

LEMMA ChangedFile ==
  ASSUME TypeOK, NEW f \in DOMAIN files, NEW name \in {"partial", "final", "abandoned"},
         NEW flushed \in Nat,
         files' = [files EXCEPT ![f] = [files[f] EXCEPT !.name = name, !.flushed = flushed]]
  PROVE  Changed(f, name)
<1>1. files \in Seq(File) /\ files[f] \in File
  BY FileType DEF TypeOK
<1> DEFINE new == [files[f] EXCEPT !.name = name, !.flushed = flushed]
<1>2. /\ new \in File /\ new.name = name
      /\ new.rows = files[f].rows /\ new.partition = files[f].partition
  BY <1>1 DEF File
<1>3. f \in 1 .. Len(files) /\ DOMAIN files = 1 .. Len(files) /\ files' = [files EXCEPT ![f] = new]
  BY <1>1
<1> HIDE DEF new
<1>4. /\ files' \in Seq(File) /\ Len(files') = Len(files)
      /\ \A g \in 1 .. Len(files) : files'[g] = IF g = f THEN new ELSE files[g]
  BY <1>1, <1>2, <1>3, ExceptSeq
<1>5. QED
  BY <1>2, <1>3, <1>4 DEF Changed

LEMMA ChangedSameRows ==
  ASSUME NEW f \in DOMAIN files, NEW name, Changed(f, name)
  PROVE  SameRows
BY DEF Changed, SameRows

\* A renamed file is final, and its writer waits for the manifest entry.
LEMMA RenameStep ==
  ASSUME RInv, Rename
  PROVE  RInv'
<1> USE DEF RInv, Rename, bounds
<1> DEFINE f == thread.file
<1>1. f \in DOMAIN files /\ files[f].name = "partial" /\ ~Runs({"recover"})
  BY JobFields DEF JobOK, At
<1>2. Changed(f, "final")
  <2>1. Len(files[f].rows) \in Nat
    BY <1>1, FileType
  <2>2. QED
    BY <1>1, <2>1, ChangedFile
<1>3. thread' # Idle /\ thread'.job = thread.job /\ thread'.todo = thread.todo
      /\ thread'.at = "append" /\ thread'.file = f
  BY DEF ThreadOK, Jobs, Runs, Idle
<1>4. TypeOK' /\ CountersOK'
  BY <1>2 DEF TypeOK, CountersOK, Changed
<1>5. ThreadOK'
  BY <1>1, <1>2 DEF ThreadOK, Jobs, Runs, Idle, Changed
<1>6. ControlOK'
  BY <1>3 DEF ControlOK, Runs, Alive
<1>7. JobOK'
  BY <1>1, <1>2, <1>3 DEF JobOK, Changed, Runs, At
<1>8. WritersOK'
  BY <1>1, <1>2, <1>3 DEF WritersOK, Changed, At, TypeOK, Range
<1>9. PartialsOK'
  BY <1>1, <1>2, <1>3 DEF PartialsOK, Changed, Accounted, Partials, Runs, At, Alive
<1>10. SameRows
  BY <1>1, <1>2, ChangedSameRows
<1>11. RowsOK'
  BY <1>10, RowsFrame DEF TypeOK
<1>12. DistinctOK'
  BY <1>1, <1>2, <1>3, <1>10, DistinctFrame DEF Changed, Live, At
<1>13. NothingLostWhileRunning'
  BY <1>1, <1>2, <1>10, LostFrame DEF Changed
<1>14. QED
  BY <1>4, <1>5, <1>6, <1>7, <1>8, <1>9, <1>11, <1>12, <1>13

\* A flush changes no more than how much of the file a crash keeps.
LEMMA FlushFileStep ==
  ASSUME RInv, NEW p \in Partitions, FlushFile(p)
  PROVE  RInv'
<1> USE DEF RInv, FlushFile, Visits, bounds
<1> DEFINE f == writers[p]
<1>1. p \in DOMAIN writers /\ f \in DOMAIN files /\ files[f].name = "partial"
  BY OpenIsPartial DEF JobOK, Runs, At
<1>2. Changed(f, "partial")
  <2>1. Len(files[f].rows) \in Nat
    BY <1>1, FileType
  <2>2. files' = [files EXCEPT ![f] = [files[f] EXCEPT !.name = "partial", !.flushed = Len(files[f].rows)]]
    BY <1>1, FileType DEF File
  <2>3. QED
    BY <1>1, <2>1, <2>2, ChangedFile
<1>3. thread' # Idle /\ thread'.job = thread.job /\ thread'.todo = thread.todo \ {p}
      /\ thread'.at = "step"
  BY DEF ThreadOK, Jobs, Runs, Idle
<1>4. TypeOK' /\ CountersOK'
  BY <1>2 DEF TypeOK, CountersOK, Changed
<1>5. ThreadOK'
  BY <1>1, <1>2 DEF ThreadOK, Jobs, Runs, Idle, Changed
<1>6. ControlOK'
  BY <1>3 DEF ControlOK, Runs, Alive
<1>7. JobOK'
  BY <1>1, <1>2, <1>3 DEF JobOK, Changed, Runs, At
<1>8. WritersOK'
  BY <1>1, <1>2, <1>3 DEF WritersOK, Changed, At, TypeOK, Range
<1>9. PartialsOK'
  BY <1>1, <1>2, <1>3 DEF PartialsOK, Changed, Accounted, Partials, Runs, At, Alive
<1>10. SameRows
  BY <1>1, <1>2, ChangedSameRows
<1>11. RowsOK'
  BY <1>10, RowsFrame DEF TypeOK
<1>12. DistinctOK'
  BY <1>1, <1>2, <1>3, <1>10, DistinctFrame DEF Changed, Live, At
<1>13. NothingLostWhileRunning'
  BY <1>1, <1>2, <1>10, LostFrame DEF Changed
<1>14. QED
  BY <1>4, <1>5, <1>6, <1>7, <1>8, <1>9, <1>11, <1>12, <1>13

\* A damaged file with rows is published next, one without is done with.
LEMMA AbandonStep ==
  ASSUME RInv, NEW f \in DOMAIN files, Abandon(f)
  PROVE  RInv'
<1> USE DEF RInv, Abandon, Visits, bounds
<1>1. Runs({"recover"}) /\ f \in Partials /\ files[f].name = "partial" /\ ~Alive
  BY DEF PartialsOK, Partials, Runs, ControlOK, Alive
<1>2. Changed(f, "abandoned")
  <2>1. files[f].flushed \in Nat
    BY FileType
  <2>2. files' = [files EXCEPT ![f] = [files[f] EXCEPT !.name = "abandoned", !.flushed = files[f].flushed]]
    BY FileType DEF File
  <2>3. QED
    BY <2>1, <2>2, ChangedFile
<1>3. /\ thread' # Idle /\ thread'.job = "recover" /\ thread'.todo = thread.todo \ {f}
      /\ \/ thread'.at = "step"
         \/ thread'.at = "publish" /\ thread'.file = f
  BY DEF ThreadOK, Jobs, Runs, Idle
<1>4. TypeOK' /\ CountersOK'
  BY <1>2 DEF TypeOK, CountersOK, Changed
<1>5. ThreadOK'
  BY <1>1, <1>2 DEF ThreadOK, Jobs, Runs, Idle, Changed
<1>6. ControlOK'
  BY <1>1, <1>3 DEF ControlOK, Runs, Alive
<1>7. JobOK'
  BY <1>1, <1>2, <1>3 DEF JobOK, Changed, Runs, At
<1>8. WritersOK'
  BY <1>1, <1>2, <1>3 DEF WritersOK, ControlOK, Changed, At, TypeOK
<1>9. ~(crashes = 0 /\ failures = 0)
  <2>1. f \notin manifest /\ f \notin Range(writers) /\ ~At("append")
    BY <1>1 DEF WritersOK, ControlOK, At, Range
  <2>2. QED
    BY <2>1 DEF PartialsOK, Accounted
<1>10. PartialsOK'
  BY <1>1, <1>2, <1>3, <1>9 DEF PartialsOK, Changed, Partials, Runs, Alive
<1>11. SameRows
  BY <1>2, ChangedSameRows
<1>12. RowsOK'
  BY <1>11, RowsFrame DEF TypeOK
<1>13. DistinctOK'
  BY <1>1, <1>2, <1>3, <1>11, DistinctFrame DEF Changed, Live, At
<1>14. NothingLostWhileRunning'
  BY <1>1 DEF NothingLostWhileRunning, ControlOK
<1>15. QED
  BY <1>4, <1>5, <1>6, <1>7, <1>8, <1>10, <1>12, <1>13, <1>14

-----------------------------------------------------------------------------
(* The manifest entry, the recovered copy and the row written *)

\* The closed writer is forgotten with its entry, so what is left is unaffected.
LEMMA AppendEntryStep ==
  ASSUME RInv, AppendEntry
  PROVE  RInv'
<1> USE DEF RInv, AppendEntry, bounds
<1> DEFINE f == thread.file
<1>1. f \in DOMAIN files /\ f \notin Partials /\ files[f].name \in {"final", "recovered"}
  BY JobFields DEF JobOK, At, Partials
<1>2. /\ DOMAIN writers' = {p \in DOMAIN writers : writers[p] # f}
      /\ \A p \in DOMAIN writers' : writers'[p] = writers[p]
  BY DEF Restrict
<1>3. thread' # Idle /\ thread'.job = thread.job /\ thread'.todo = thread.todo
      /\ thread'.at = "step"
  BY JobFields, NewJob
<1>4. TypeOK' /\ CountersOK'
  <2>1. DOMAIN writers' \subseteq Partitions /\ Range(writers') \subseteq DOMAIN files
    BY <1>2 DEF TypeOK, Range
  <2>2. manifest' \subseteq DOMAIN files
    BY <1>1 DEF TypeOK
  <2>3. TypeOK'
    BY <2>1, <2>2 DEF TypeOK
  <2>4. QED
    BY <2>3 DEF CountersOK
<1>5. ThreadOK'
  BY JobFields DEF ThreadOK, Jobs, Job, Runs, Idle
<1>6. ControlOK'
  BY <1>2, <1>3 DEF ControlOK, Runs, Alive
<1>7. JobOK'
  <2>1. Runs({"flush", "close_all"}) => thread.todo \subseteq DOMAIN writers'
    BY <1>2, WritersInjective DEF JobOK, Runs, At
  <2>2. Runs({"close_all"}) => \A p \in DOMAIN writers' : p \in thread.todo
    BY <1>2 DEF JobOK
  <2>3. QED
    BY <1>3, <2>1, <2>2 DEF JobOK, Runs, At
<1>8. WritersOK'
  <2>1. \A g \in manifest' : files'[g].name \in {"final", "recovered"}
    BY <1>1 DEF WritersOK
  <2>2. ASSUME NEW p \in DOMAIN writers'
        PROVE  /\ files'[writers'[p]].partition = p
               /\ \/ files'[writers'[p]].name = "partial"
                  \/ files'[writers'[p]].name = "final" /\ writers'[p] = broken'
    BY <1>2 DEF WritersOK
  <2>3. QED
    BY <2>1, <2>2 DEF WritersOK
<1>9. PartialsOK'
  <2>1. ASSUME NEW g \in Range(writers), g # f PROVE g \in Range(writers')
    BY <1>2, <2>1 DEF Range
  <2>2. Alive => Partials \subseteq Range(writers')
    BY <1>1, <2>1 DEF PartialsOK
  <2>3. \A g \in DOMAIN files : Accounted(g) => Accounted(g)'
    BY <2>1 DEF Accounted
  <2>4. QED
    BY <1>3, <2>2, <2>3 DEF PartialsOK, Partials, Runs, Alive
<1>10. RowsOK'
  BY RowsFrame DEF TypeOK, SameRows
<1>11. DistinctOK'
  BY <1>3, DistinctFrame DEF SameRows, Live, At
<1>12. NothingLostWhileRunning'
  BY LostFrame DEF SameRows
<1>13. QED
  BY <1>4, <1>5, <1>6, <1>7, <1>8, <1>9, <1>10, <1>11, <1>12

LEMMA AddedFile ==
  ASSUME TypeOK, NEW s, NEW new \in File, s = Append(files, new)
  PROVE  /\ s \in Seq(File) /\ Len(s) = Len(files) + 1
         /\ DOMAIN s = DOMAIN files \cup {Len(files) + 1}
         /\ Len(files) + 1 \notin DOMAIN files
         /\ \A g \in DOMAIN files : s[g] = files[g]
         /\ s[Len(files) + 1] = new
<1>1. files \in Seq(File)
  BY DEF TypeOK
<1>2. QED
  BY <1>1, AppendProperties

\* The copy takes the place of the abandoned file.
LEMMA PublishRecoveredStep ==
  ASSUME RInv, PublishRecovered
  PROVE  RInv'
<1> USE DEF RInv, PublishRecovered, bounds
<1> DEFINE f == thread.file
           n == Len(files) + 1
           new == [files[f] EXCEPT !.name = "recovered"]
<1>1. f \in DOMAIN files /\ files[f].name = "abandoned" /\ Runs({"recover"}) /\ ~Alive
  BY JobFields DEF JobOK, ControlOK, Runs, At, Alive
<1>2. new \in File /\ new.name = "recovered" /\ new.rows = files[f].rows
  BY <1>1, FileType DEF File
<1>3. /\ files' \in Seq(File) /\ Len(files') = n /\ DOMAIN files' = DOMAIN files \cup {n}
      /\ n \notin DOMAIN files /\ \A g \in DOMAIN files : files'[g] = files[g]
      /\ files'[n].name = "recovered" /\ files'[n].rows = files[f].rows
  BY <1>2, AddedFile
<1>4. /\ thread' # Idle /\ thread'.job = "recover" /\ thread'.todo = thread.todo
      /\ thread'.at = "append" /\ thread'.file = n
  BY <1>1 DEF ThreadOK, Jobs, Runs, Idle
<1> HIDE DEF new
<1>5. TypeOK' /\ CountersOK'
  <2>1. broken' \in 0 .. Len(files')
    BY <1>3, FileType DEF TypeOK
  <2>2. QED
    BY <1>3, <2>1 DEF TypeOK, CountersOK
<1>6. ThreadOK'
  BY <1>1, <1>3 DEF ThreadOK, Jobs, Runs, Idle
<1>7. ControlOK'
  BY <1>1, <1>4 DEF ControlOK, Runs, Alive
<1>8. JobOK'
  BY <1>3, <1>4 DEF JobOK, Runs, At
<1>9. WritersOK'
  BY <1>1, <1>3 DEF WritersOK, ControlOK, TypeOK
<1>10. PartialsOK'
  <2>1. ~(crashes = 0 /\ failures = 0)
    <3>1. f \notin manifest /\ f \notin Range(writers) /\ ~At("append")
      BY <1>1 DEF WritersOK, ControlOK, At, Range
    <3>2. QED
      BY <1>1, <3>1 DEF PartialsOK, Accounted
  <2>2. Partials' = Partials
    BY <1>3 DEF Partials
  <2>3. QED
    BY <1>1, <1>4, <2>1, <2>2 DEF PartialsOK, Runs, Alive
<1>11. RowsOK'
  BY <1>1, <1>3 DEF RowsOK, Increasing, OneWindow, Precedes, PastSeq, Past
<1>12. DistinctOK'
  <2>1. \A g \in DOMAIN files' : Live(g)' => g # f
    BY <1>1, <1>3, <1>4 DEF Live, At
  <2>2. \A g \in DOMAIN files : Live(g)' => Live(g)
    BY <1>3, <1>4 DEF Live, At
  <2>3. Live(f)
    BY DEF Live, At
  <2>4. ASSUME NEW g \in DOMAIN files', NEW h \in DOMAIN files', g # h, Live(g)', Live(h)'
        PROVE  Disjoint(files'[g].rows, files'[h].rows)
    <3>1. CASE g \in DOMAIN files /\ h \in DOMAIN files
      BY <1>3, <2>2, <2>4, <3>1 DEF DistinctOK
    <3>2. CASE g = n
      BY <1>1, <1>3, <2>1, <2>2, <2>3, <2>4, <3>2 DEF DistinctOK
    <3>3. CASE h = n
      BY <1>1, <1>3, <2>1, <2>2, <2>3, <2>4, <3>3 DEF DistinctOK
    <3>4. QED
      BY <1>3, <3>1, <3>2, <3>3
  <2>5. QED
    BY <2>4 DEF DistinctOK, Disjoint
<1>13. NothingLostWhileRunning'
  BY <1>1 DEF NothingLostWhileRunning, ControlOK
<1>14. QED
  BY <1>5, <1>6, <1>7, <1>8, <1>9, <1>10, <1>11, <1>12, <1>13

LEMMA ReplacedFile ==
  ASSUME NEW s \in Seq(File), NEW f \in 1 .. Len(s), NEW new \in File,
         NEW t, t = [s EXCEPT ![f] = new]
  PROVE  /\ t \in Seq(File) /\ Len(t) = Len(s)
         /\ \A g \in 1 .. Len(s) : t[g] = IF g = f THEN new ELSE s[g]
BY ExceptSeq

LEMMA ExtendedFile ==
  ASSUME NEW d \in File, NEW e \in Envelope,
         NEW new, new = [d EXCEPT !.rows = Append(d.rows, e)]
  PROVE  /\ new \in File /\ new.rows = Append(d.rows, e)
         /\ new.name = d.name /\ new.partition = d.partition
<1> DEFINE rows == Append(d.rows, e)
<1>1. rows \in Seq(Envelope)
  BY DEF File
<1>2. new = [d EXCEPT !.rows = rows]
  OBVIOUS
<1> HIDE DEF rows
<1>3. new \in File /\ new.rows = rows /\ new.name = d.name /\ new.partition = d.partition
  BY <1>1, <1>2 DEF File
<1>4. QED
  BY <1>3 DEF rows

\* The open file of a partition, or a new one, is there to get the next row.
LEMMA TargetFile ==
  ASSUME TypeOK, NEW p \in Partitions,
         p \in DOMAIN writers =>
           /\ writers[p] \in DOMAIN files
           /\ files[writers[p]].name = "partial" /\ files[writers[p]].partition = p
  PROVE  LET f == Target(p)
             s == WithTarget(p)
         IN  /\ s \in Seq(File) /\ f \in 1 .. Len(s) /\ 1 .. Len(s) = DOMAIN files \cup {f}
             /\ Len(files) <= Len(s)
             /\ \A g \in DOMAIN files : s[g] = files[g]
             /\ s[f].name = "partial" /\ s[f].partition = p
             /\ IF p \in DOMAIN writers THEN f = writers[p] ELSE f \notin DOMAIN files /\ s[f].rows = <<>>
<1>1. files \in Seq(File) /\ DOMAIN files = 1 .. Len(files) /\ Len(files) \in Nat
  BY DEF TypeOK
<1>2. CASE p \in DOMAIN writers
  BY <1>1, <1>2 DEF Target, WithTarget
<1>3. CASE p \notin DOMAIN writers
  <2>1. /\ NewFile(p) \in File /\ NewFile(p).name = "partial"
        /\ NewFile(p).partition = p /\ NewFile(p).rows = <<>>
    BY DEF NewFile, File
  <2>2. Target(p) = Len(files) + 1 /\ WithTarget(p) = Append(files, NewFile(p))
    BY <1>3 DEF Target, WithTarget
  <2>3. QED
    BY <1>1, <1>3, <2>1, <2>2, AppendProperties
<1>4. QED
  BY <1>2, <1>3

LEMMA WriteRowEffect ==
  ASSUME RInv, WriteRow
  PROVE  LET e == Head(batch)
             p == PartitionFor(e)
             f == Target(p)
         IN  /\ e \in Envelope /\ p \in Partitions
             /\ files' \in Seq(File) /\ DOMAIN files' = DOMAIN files \cup {f}
             /\ Len(files) <= Len(files')
             /\ \A g \in DOMAIN files : g # f => files'[g] = files[g]
             /\ files'[f].name = "partial" /\ files'[f].partition = p
             /\ \/ /\ p \in DOMAIN writers /\ f = writers[p]
                   /\ f \in DOMAIN files /\ files[f].name = "partial"
                   /\ files'[f].rows = Append(files[f].rows, e)
                \/ /\ p \notin DOMAIN writers /\ f \notin DOMAIN files
                   /\ files'[f].rows = Append(<<>>, e)
<1> DEFINE e == Head(batch)
           p == PartitionFor(e)
           f == Target(p)
           s == WithTarget(p)
<1>1. e \in Envelope /\ p \in Partitions
  <2>1. batch \in Seq(Envelope) /\ batch # <<>>
    BY DEF RInv, TypeOK, WriteRow, Writing
  <2>2. QED
    BY <2>1, HeadTailProperties, PartitionType
<1>2. p \in DOMAIN writers =>
        /\ writers[p] \in DOMAIN files
        /\ files[writers[p]].name = "partial" /\ files[writers[p]].partition = p
  <2>1. TypeOK /\ ControlOK /\ WritersOK /\ Runs({"write", "flush"}) /\ At("step")
    BY DEF RInv, WriteRow, Writing, Runs, At
  <2>2. QED
    BY <2>1, OpenIsPartial DEF WritersOK
<1>3. /\ s \in Seq(File) /\ f \in 1 .. Len(s) /\ 1 .. Len(s) = DOMAIN files \cup {f}
      /\ Len(files) <= Len(s)
      /\ \A g \in DOMAIN files : s[g] = files[g]
      /\ s[f].name = "partial" /\ s[f].partition = p
      /\ IF p \in DOMAIN writers THEN f = writers[p] ELSE f \notin DOMAIN files /\ s[f].rows = <<>>
  BY <1>1, <1>2, TargetFile DEF RInv
<1> DEFINE new == [s[f] EXCEPT !.rows = Append(s[f].rows, e)]
<1>4. files' = [s EXCEPT ![f] = new]
  BY DEF WriteRow
<1>5. /\ new \in File /\ new.rows = Append(s[f].rows, e)
      /\ new.name = "partial" /\ new.partition = p
  BY <1>1, <1>3, ExtendedFile
<1> HIDE DEF e, p, f, s, new
<1>6. /\ files' \in Seq(File) /\ Len(files') = Len(s)
      /\ \A g \in 1 .. Len(s) : files'[g] = IF g = f THEN new ELSE s[g]
  BY <1>3, <1>4, <1>5, ReplacedFile
<1>7. /\ DOMAIN files' = DOMAIN files \cup {f} /\ files'[f] = new
      /\ \A g \in DOMAIN files : g # f => files'[g] = files[g]
  <2>1. DOMAIN files' = 1 .. Len(s)
    BY <1>6, LenProperties
  <2>2. \A g \in DOMAIN files : g \in 1 .. Len(s) /\ s[g] = files[g]
    BY <1>3
  <2>3. QED
    BY <1>3, <1>6, <2>1, <2>2, Zenon
<1>8. /\ files' \in Seq(File) /\ Len(files) <= Len(files')
      /\ files'[f].name = "partial" /\ files'[f].partition = p
      /\ \/ /\ p \in DOMAIN writers /\ f = writers[p]
            /\ f \in DOMAIN files /\ files[f].name = "partial"
            /\ files'[f].rows = Append(files[f].rows, e)
         \/ /\ p \notin DOMAIN writers /\ f \notin DOMAIN files
            /\ files'[f].rows = Append(<<>>, e)
  BY <1>2, <1>3, <1>5, <1>6, <1>7
<1>9. QED
  BY <1>1, <1>7, <1>8 DEF e, p, f

\* The first envelope of the batch comes after every row and before the rest.
LEMMA WriteRowRows ==
  ASSUME RInv, WriteRow
  PROVE  RowsOK' /\ batch' \in Seq(Envelope) /\ Len(batch') = Len(batch) - 1
<1> DEFINE e == Head(batch)
           p == PartitionFor(e)
           f == Target(p)
<1>1. /\ batch \in Seq(Envelope) /\ batch # <<>> /\ batch' = Tail(batch) /\ queue' = queue
      /\ issued' = issued /\ clock' = clock
  BY DEF RInv, TypeOK, WriteRow, Writing
<1>2. /\ Part(batch', batch, 1) /\ Len(batch') = Len(batch) - 1
      /\ e = batch[1] /\ 1 \in DOMAIN batch /\ e \in Envelope
      /\ \A i \in DOMAIN batch' : Before(e, batch'[i])
  BY <1>1, TailPart, HeadBeforeTail DEF RInv, RowsOK
<1>3. /\ Increasing(batch') /\ PastSeq(batch') /\ Precedes(batch', queue) /\ Past(e)
      /\ \A i \in DOMAIN queue : Before(e, queue[i])
      /\ \A s : Precedes(s, batch) => Precedes(s, batch') /\ \A i \in DOMAIN s : Before(s[i], e)
  BY <1>1, <1>2, PartOrder DEF RInv, RowsOK, PastSeq, Precedes
<1>4. /\ DOMAIN files' = DOMAIN files \cup {f}
      /\ \A g \in DOMAIN files : g # f => files'[g] = files[g]
      /\ \/ /\ p \in DOMAIN writers /\ f = writers[p] /\ f \in DOMAIN files
            /\ files'[f].rows = Append(files[f].rows, e)
         \/ files'[f].rows = Append(<<>>, e)
  BY WriteRowEffect
<1> DEFINE Good(s) == /\ Increasing(s) /\ OneWindow(s) /\ PastSeq(s)
                      /\ Precedes(s, batch') /\ Precedes(s, queue)
<1>5. ASSUME NEW s \in Seq(Envelope), Increasing(s), OneWindow(s), PastSeq(s),
             Precedes(s, batch), Precedes(s, queue),
             s # <<>> => e.window <= s[Len(s)].window
      PROVE  Good(Append(s, e))
  <2>1. \A i \in DOMAIN s : Before(s[i], e)
    BY <1>3, <1>5
  <2>2. \A i \in DOMAIN s : s[i].window = e.window
    <3>1. ASSUME NEW i \in DOMAIN s PROVE s[i].window = e.window
      <4>1. Len(s) \in DOMAIN s /\ s[i] \in Envelope /\ s # <<>>
        BY <1>5
      <4>2. s[i].window = s[Len(s)].window /\ s[i].window <= e.window
        BY <1>5, <2>1, <4>1 DEF OneWindow, Before
      <4>3. QED
        BY <1>2, <1>5, <4>1, <4>2, EnvelopeType
    <3>2. QED
      BY <3>1
  <2>3. QED
    BY <1>2, <1>3, <1>5, <2>1, <2>2, AppendOrder
<1>6. Good(files'[f].rows)
  <2>1. CASE p \in DOMAIN writers /\ f = writers[p] /\ f \in DOMAIN files
             /\ files'[f].rows = Append(files[f].rows, e)
    <3>1. files[f].rows \in Seq(Envelope)
      BY <2>1, FileType DEF RInv
    <3>2. ASSUME files[f].rows # <<>>
          PROVE  e.window <= files[f].rows[Len(files[f].rows)].window
      <4>1. ~(e.window > LastWindow(f))
        BY <2>1 DEF WriteRow, CrossesRotationBoundary
      <4>2. files[f].rows[Len(files[f].rows)] \in Envelope
        BY <3>1, <3>2
      <4>3. QED
        BY <1>2, <4>1, <4>2, EnvelopeType DEF LastWindow
    <3>3. QED
      BY <1>5, <2>1, <3>1, <3>2 DEF RInv, RowsOK
  <2>2. CASE files'[f].rows = Append(<<>>, e)
    <3>1. <<>> \in Seq(Envelope) /\ DOMAIN <<>> = {}
      OBVIOUS
    <3>2. /\ Increasing(<<>>) /\ OneWindow(<<>>) /\ PastSeq(<<>>)
          /\ Precedes(<<>>, batch) /\ Precedes(<<>>, queue)
      BY <3>1 DEF Increasing, OneWindow, PastSeq, Precedes
    <3>3. QED
      BY <1>5, <2>2, <3>1, <3>2
  <2>3. QED
    BY <1>4, <2>1, <2>2
<1>7. \A g \in DOMAIN files : g # f => Good(files'[g].rows)
  BY <1>3, <1>4 DEF RInv, RowsOK
<1>8. \A g \in DOMAIN files' : Good(files'[g].rows)
  BY <1>4, <1>6, <1>7
<1>9. QED
  BY <1>1, <1>2, <1>3, <1>8 DEF RInv, RowsOK, PastSeq, Past, Part

LEMMA WriteRowStep ==
  ASSUME RInv, WriteRow
  PROVE  RInv'
<1> DEFINE e == Head(batch)
           p == PartitionFor(e)
           f == Target(p)
<1>1. /\ TypeOK /\ CountersOK /\ ThreadOK /\ ControlOK /\ JobOK /\ WritersOK /\ PartialsOK
      /\ DistinctOK /\ RowsOK /\ NothingLostWhileRunning
      /\ Runs({"write"}) /\ At("step") /\ Alive
      /\ UNCHANGED <<clock, issued, dropped, process, queue, worker, manifest, accepted, broken, bounds>>
      /\ DOMAIN writers' = DOMAIN writers \cup {p}
      /\ \A q \in DOMAIN writers' : writers'[q] = IF q = p THEN f ELSE writers[q]
      /\ thread' = BeginClose("write", {}, f) \/ thread' = thread
  <2>1. Runs({"write"}) /\ At("step")
    BY DEF WriteRow, Writing, Runs, At
  <2>2. Alive
    BY <2>1 DEF RInv, ControlOK, Runs, WriteRow, Writing
  <2>3. QED
    BY <2>1, <2>2 DEF RInv, WriteRow
<1>2. /\ e \in Envelope /\ p \in Partitions
      /\ files' \in Seq(File) /\ DOMAIN files' = DOMAIN files \cup {f}
      /\ Len(files) <= Len(files')
      /\ \A g \in DOMAIN files : g # f => files'[g] = files[g]
      /\ files'[f].name = "partial" /\ files'[f].partition = p
      /\ \/ /\ p \in DOMAIN writers /\ f = writers[p]
            /\ f \in DOMAIN files /\ files[f].name = "partial"
            /\ files'[f].rows = Append(files[f].rows, e)
         \/ /\ p \notin DOMAIN writers /\ f \notin DOMAIN files
            /\ files'[f].rows = Append(<<>>, e)
  BY WriteRowEffect
<1> HIDE DEF e, p, f
<1>3. /\ thread' # Idle /\ thread'.job = "write" /\ thread'.todo = {}
      /\ \/ thread'.at = "rename" /\ thread'.file = f
         \/ thread'.at = "step" /\ thread' = thread
  BY <1>1, ClosingJob DEF JobOK, Runs, At
<1>4. TypeOK' /\ CountersOK'
  <2>1. batch' \in Seq(Envelope) /\ Len(batch') <= BatchEvents
    BY <1>1, WriteRowRows, ArchiveAssumption DEF TypeOK
  <2>2. Range(writers') \subseteq DOMAIN files'
    BY <1>1, <1>2 DEF TypeOK, Range
  <2>3. broken' \in 0 .. Len(files')
    BY <1>1, <1>2 DEF TypeOK
  <2>4. DOMAIN writers' \subseteq Partitions /\ manifest' \subseteq DOMAIN files'
    BY <1>1, <1>2 DEF TypeOK
  <2>5. QED
    BY <1>1, <1>2, <2>1, <2>2, <2>3, <2>4 DEF TypeOK, CountersOK, bounds
<1>5. ThreadOK'
  BY <1>1, <1>2, <1>3 DEF ThreadOK, Jobs, BeginClose, Runs
<1>6. ControlOK'
  BY <1>1, <1>3 DEF ControlOK, Runs, Alive, bounds
<1>7. JobOK'
  BY <1>1, <1>2, <1>3 DEF JobOK, Runs, At
<1>8. WritersOK'
  <2>1. \A q \in DOMAIN writers : writers[q] \in DOMAIN files /\ files[writers[q]].name = "partial"
    BY <1>1, OpenIsPartial DEF Runs
  <2>2. ASSUME NEW q \in DOMAIN writers'
        PROVE  files'[writers'[q]].partition = q /\ files'[writers'[q]].name = "partial"
    <3>1. CASE q = p
      BY <1>1, <1>2, <3>1
    <3>2. CASE q # p
      <4>1. q \in DOMAIN writers /\ writers'[q] = writers[q] /\ files[writers[q]].partition = q
        BY <1>1, <3>2 DEF WritersOK
      <4>2. writers[q] # f
        BY <1>1, <1>2, <2>1, <3>2, <4>1, WritersInjective
      <4>3. QED
        BY <1>2, <2>1, <4>1, <4>2
    <3>3. QED
      BY <3>1, <3>2
  <2>3. \A g \in manifest : g \in DOMAIN files /\ files[g].name \in {"final", "recovered"} /\ g # f
    BY <1>1, <1>2 DEF WritersOK, TypeOK
  <2>4. QED
    BY <1>1, <1>2, <2>2, <2>3 DEF WritersOK
<1>9. PartialsOK'
  <2>1. f \in Range(writers') /\ Range(writers) \subseteq Range(writers')
    <3>1. f \in Range(writers')
      BY <1>1 DEF Range
    <3>2. ASSUME NEW q \in DOMAIN writers PROVE writers[q] \in Range(writers')
      BY <1>1, <1>2 DEF Range
    <3>3. QED
      BY <3>1, <3>2 DEF Range
  <2>2. Partials' \subseteq Partials \cup {f}
    BY <1>2 DEF Partials
  <2>3. Partials' \subseteq Range(writers')
    BY <1>1, <2>1, <2>2 DEF PartialsOK
  <2>4. crashes = 0 /\ failures = 0 => \A g \in DOMAIN files : g \in manifest \cup Range(writers)
    BY <1>1 DEF PartialsOK, Accounted, At
  <2>5. crashes' = 0 /\ failures' = 0 => \A g \in DOMAIN files' : g \in manifest' \cup Range(writers')
    BY <1>1, <1>2, <2>1, <2>4 DEF bounds
  <2>6. ~Runs({"recover"})'
    BY <1>3 DEF Runs
  <2>7. QED
    BY <2>3, <2>5, <2>6 DEF PartialsOK, Accounted
<1>10. DistinctOK'
  <2>1. \A g \in DOMAIN files' : Live(g)' => g = f \/ Live(g)
    BY <1>2, <1>3 DEF Live, At
  <2>2. ASSUME NEW g \in DOMAIN files', NEW h \in DOMAIN files', g # h, Live(g)', Live(h)'
        PROVE  Disjoint(files'[g].rows, files'[h].rows)
    <3> DEFINE Fresh(k) == \A i \in DOMAIN files'[k].rows : files'[k].rows[i].seq # e.seq
    <3>1. ASSUME NEW k \in DOMAIN files, k # f
          PROVE  files'[k] = files[k] /\ Fresh(k)
      <4>1. Precedes(files[k].rows, batch) /\ 1 \in DOMAIN batch /\ e = batch[1]
            /\ files[k].rows \in Seq(Envelope)
        BY <1>1, FileType, HeadBeforeTail DEF RowsOK, TypeOK, WriteRow, Writing, e
      <4>2. \A i \in DOMAIN files[k].rows :
              files[k].rows[i] \in Envelope /\ files[k].rows[i].seq < e.seq
        BY <4>1 DEF Precedes, Before
      <4>3. QED
        BY <1>2, <3>1, <4>2, EnvelopeType
    <3>2. ASSUME NEW k \in DOMAIN files, k # f, Live(k)
          PROVE  Disjoint(files'[k].rows, files'[f].rows) /\ Disjoint(files'[f].rows, files'[k].rows)
      <4>1. ASSUME NEW j \in DOMAIN files'[f].rows
            PROVE  \/ files'[f].rows[j] = e
                   \/ f \in DOMAIN files /\ j \in DOMAIN files[f].rows /\ files'[f].rows[j] = files[f].rows[j]
        <5>1. CASE f \in DOMAIN files /\ files'[f].rows = Append(files[f].rows, e)
          <6>1. files[f].rows \in Seq(Envelope)
            BY <1>1, <5>1, FileType
          <6>2. QED
            BY <1>2, <5>1, <6>1
        <5>2. CASE files'[f].rows = Append(<<>>, e)
          BY <5>2
        <5>3. QED
          BY <1>2, <5>1, <5>2
      <4>2. f \in DOMAIN files => Disjoint(files[k].rows, files[f].rows) /\ Disjoint(files[f].rows, files[k].rows)
        BY <1>1, <1>2, <3>2 DEF DistinctOK, Live
      <4>3. QED
        BY <3>1, <3>2, <4>1, <4>2 DEF Disjoint
    <3>3. CASE g # f /\ h # f
      BY <1>1, <1>2, <2>1, <2>2, <3>3 DEF DistinctOK
    <3>4. CASE g = f
      BY <1>2, <2>1, <2>2, <3>2, <3>4
    <3>5. CASE h = f
      BY <1>2, <2>1, <2>2, <3>2, <3>5
    <3>6. QED
      BY <3>3, <3>4, <3>5
  <2>3. QED
    BY <2>2 DEF DistinctOK, Disjoint
<1>11. NothingLostWhileRunning'
  <2>1. e \in Range(files'[f].rows)
    <3>1. CASE f \in DOMAIN files /\ files'[f].rows = Append(files[f].rows, e)
      <4>1. files[f].rows \in Seq(Envelope)
        BY <1>1, <3>1, FileType
      <4>2. Len(files[f].rows) + 1 \in DOMAIN files'[f].rows /\ files'[f].rows[Len(files[f].rows) + 1] = e
        BY <1>2, <3>1, <4>1
      <4>3. QED
        BY <4>2 DEF Range
    <3>2. CASE files'[f].rows = Append(<<>>, e)
      <4>1. 1 \in DOMAIN files'[f].rows /\ files'[f].rows[1] = e
        BY <3>2
      <4>2. QED
        BY <4>1 DEF Range
    <3>3. QED
      BY <1>2, <3>1, <3>2
  <2>2. Range(batch) \subseteq {e} \cup Range(batch')
    <3>1. batch \in Seq(Envelope) /\ batch # <<>> /\ batch' = Tail(batch) /\ e = batch[1]
      BY <1>1, HeadBeforeTail DEF TypeOK, WriteRow, Writing, e
    <3>2. ASSUME NEW i \in DOMAIN batch, i # 1 PROVE batch[i] \in Range(batch')
      <4>1. i - 1 \in DOMAIN batch' /\ batch'[i - 1] = batch[i]
        BY <3>1, <3>2, HeadTailProperties
      <4>2. QED
        BY <4>1 DEF Range
    <3>3. QED
      BY <3>1, <3>2 DEF Range
  <2>3. ASSUME NEW d \in Rows("partial") \cup Rows("final")
        PROVE  d \in (Rows("partial") \cup Rows("final"))'
    <3>1. PICK g \in DOMAIN files :
            files[g].name \in {"partial", "final"} /\ d \in Range(files[g].rows)
      BY <2>3 DEF Rows
    <3>2. files'[g].name \in {"partial", "final"} /\ d \in Range(files'[g].rows)
      <4>1. CASE g # f
        BY <1>2, <3>1, <4>1
      <4>2. CASE g = f
        <5>1. files[g].rows \in Seq(Envelope) /\ files'[g].rows = Append(files[g].rows, e)
          BY <1>1, <1>2, <4>2, FileType
        <5>2. \A i \in DOMAIN files[g].rows :
                i \in DOMAIN files'[g].rows /\ files'[g].rows[i] = files[g].rows[i]
          BY <1>2, <5>1, AppendProperties
        <5>3. QED
          BY <1>2, <3>1, <4>2, <5>2 DEF Range
      <4>3. QED
        BY <4>1, <4>2
    <3>3. QED
      BY <1>2, <3>1, <3>2 DEF Rows
  <2>4. e \in Rows("partial")'
    BY <1>2, <2>1 DEF Rows
  <2>5. QED
    BY <1>1, <2>2, <2>3, <2>4 DEF NothingLostWhileRunning, bounds
<1>12. QED
  BY <1>4, <1>5, <1>6, <1>7, <1>8, <1>9, <1>10, <1>11, WriteRowRows DEF RInv

-----------------------------------------------------------------------------
(* The end of the process *)

\* Only partial files lose rows, and only from their end.
Cut ==
  /\ files' \in Seq(File) /\ DOMAIN files' = DOMAIN files /\ Len(files') = Len(files)
  /\ \A f \in DOMAIN files :
       /\ files'[f].name = files[f].name
       /\ Part(files'[f].rows, files[f].rows, 0)
       /\ files[f].name # "partial" => files'[f] = files[f]

LEMMA TruncatedCut ==
  ASSUME TypeOK, NEW kept \in Kept, files' = Truncated(kept)
  PROVE  Cut
<1>1. /\ files \in Seq(File) /\ DOMAIN files = 1 .. Len(files) /\ Len(files) \in Nat
      /\ DOMAIN files' = DOMAIN files
      /\ \A f \in DOMAIN files : files'[f] = [files[f] EXCEPT !.rows = SubSeq(@, 1, kept[f])]
  BY DEF TypeOK, Truncated
<1>2. ASSUME NEW f \in DOMAIN files
      PROVE  /\ files'[f] \in File /\ files'[f].name = files[f].name
             /\ Part(files'[f].rows, files[f].rows, 0)
             /\ files[f].name # "partial" => files'[f] = files[f]
  <2> DEFINE rows == SubSeq(files[f].rows, 1, kept[f])
  <2>1. files[f] \in File /\ files[f].rows \in Seq(Envelope) /\ Len(files[f].rows) \in Nat
    BY FileType
  <2>2. kept[f] \in Nat /\ kept[f] <= Len(files[f].rows)
        /\ (files[f].name # "partial" => kept[f] = Len(files[f].rows))
    BY <2>1, ArchiveAssumption DEF Kept
  <2>3. Part(rows, files[f].rows, 0) /\ rows \in Seq(Envelope)
    BY <2>1, <2>2, SubSeqPart DEF Part
  <2>4. files[f].name # "partial" => rows = files[f].rows
    BY <2>1, <2>2, SubSeqFull
  <2>5. files'[f] = [files[f] EXCEPT !.rows = rows]
    BY <1>1
  <2> HIDE DEF rows
  <2>6. files'[f] \in File /\ files'[f].name = files[f].name /\ files'[f].rows = rows
        /\ (rows = files[f].rows => files'[f] = files[f])
    BY <2>1, <2>3, <2>5 DEF File
  <2>7. QED
    BY <2>3, <2>4, <2>6
<1>3. files' \in Seq(File) /\ Len(files') = Len(files)
  <2>1. files' = [f \in 1 .. Len(files) |-> files'[f]]
    BY <1>1 DEF Truncated
  <2>2. QED
    BY <1>1, <1>2, <2>1
<1>4. QED
  BY <1>1, <1>2, <1>3 DEF Cut

LEMMA UncutCut ==
  ASSUME TypeOK, files' = files
  PROVE  Cut
BY FileType DEF TypeOK, Cut, Part

\* What is left after the process is gone satisfies the invariant.
LEMMA GoneStep ==
  ASSUME RInv, ProcessGone, Cut, UNCHANGED <<clock, issued, manifest>>, CountersOK',
         crashes' = 0 /\ failures' = 0 =>
           /\ crashes = 0 /\ failures = 0
           /\ Range(writers) = {} /\ ~At("append")
  PROVE  RInv'
<1> USE DEF RInv, ProcessGone
<1>1. TypeOK'
  <2>1. DOMAIN writers' = {} /\ Range(writers') = {} /\ Len(queue') = 0 /\ Len(batch') = 0
        /\ queue' \in Seq(Envelope) /\ batch' \in Seq(Envelope) /\ Len(files') \in Nat
    BY DEF Range, Cut, TypeOK
  <2>2. QED
    BY <2>1, ArchiveAssumption DEF TypeOK, Phases, NoDrops, Cut
<1>2. ThreadOK' /\ ControlOK' /\ JobOK'
  BY DEF ThreadOK, ControlOK, JobOK, Runs, At, Alive
<1>3. WritersOK'
  <2>1. manifest \subseteq DOMAIN files /\ DOMAIN writers' = {}
    BY DEF TypeOK
  <2>2. \A f \in manifest : files'[f].name \in {"final", "recovered"}
    BY <2>1 DEF WritersOK, Cut
  <2>3. QED
    BY <2>1, <2>2 DEF WritersOK
<1>4. PartialsOK'
  BY DEF PartialsOK, Accounted, Cut, Runs, Alive, At, Range
<1>5. RowsOK'
  <2>1. ASSUME NEW f \in DOMAIN files
        PROVE  Increasing(files'[f].rows) /\ OneWindow(files'[f].rows) /\ PastSeq(files'[f].rows)
    <3>1. files[f].rows \in Seq(Envelope) /\ Part(files'[f].rows, files[f].rows, 0)
          /\ Increasing(files[f].rows) /\ OneWindow(files[f].rows) /\ PastSeq(files[f].rows)
      BY FileType DEF Cut, RowsOK
    <3>2. QED
      BY <3>1, PartOrder
  <2>2. queue' = <<>> /\ batch' = <<>> /\ DOMAIN <<>> = {}
    OBVIOUS
  <2>3. QED
    BY <2>1, <2>2 DEF RowsOK, Increasing, OneWindow, Precedes, PastSeq, Past, Cut
<1>6. DistinctOK'
  <2>1. \A f \in DOMAIN files : Live(f)' => Live(f)
    BY DEF Live, Cut, At
  <2>2. ASSUME NEW f \in DOMAIN files, NEW g \in DOMAIN files, Disjoint(files[f].rows, files[g].rows)
        PROVE  Disjoint(files'[f].rows, files'[g].rows)
    <3>1. /\ \A i \in DOMAIN files'[f].rows :
               i + 0 \in DOMAIN files[f].rows /\ files'[f].rows[i] = files[f].rows[i + 0]
          /\ \A i \in DOMAIN files'[g].rows :
               i + 0 \in DOMAIN files[g].rows /\ files'[g].rows[i] = files[g].rows[i + 0]
      BY DEF Cut, Part
    <3>2. QED
      BY <2>2, <3>1 DEF Disjoint
  <2>3. QED
    BY <2>1, <2>2 DEF DistinctOK, Cut, Disjoint
<1>7. NothingLostWhileRunning'
  BY DEF NothingLostWhileRunning
<1>8. QED
  BY <1>1, <1>2, <1>3, <1>4, <1>5, <1>6, <1>7

LEMMA DiesStep ==
  ASSUME RInv, ProcessDies, UNCHANGED <<clock, issued, manifest>>, CountersOK',
         crashes' > 0 \/ failures' > 0
  PROVE  RInv'
<1>1. Cut /\ ProcessGone
  BY TruncatedCut DEF RInv, ProcessDies
<1>2. QED
  BY <1>1, GoneStep DEF CountersOK

\* Every open file is closed when stop() returns.
LEMMA StopReturnsStep ==
  ASSUME RInv, StopReturns
  PROVE  RInv' /\ DOMAIN writers = {} /\ files' = files
<1>1. Runs({"close_all"}) /\ At("step") /\ thread.todo = {}
  BY DEF StopReturns, Runs, At
<1>2. DOMAIN writers = {}
  BY <1>1 DEF RInv, JobOK
<1>3. Cut /\ ProcessGone /\ CountersOK' /\ UNCHANGED <<clock, issued, manifest, crashes, failures>>
      /\ files' = files
  BY UncutCut DEF RInv, CountersOK, StopReturns, disk, bounds
<1>4. Range(writers) = {} /\ ~At("append")
  BY <1>1, <1>2 DEF Range, At
<1>5. QED
  BY <1>2, <1>3, <1>4, GoneStep

\* stop() raises after a failure only.
LEMMA StopRaisesStep ==
  ASSUME RInv, StopRaises
  PROVE  RInv' /\ failures' > 0
<1>1. failures > 0
  <2>1. CASE process = "draining" /\ worker = "failed"
    BY <2>1 DEF RInv, ControlOK
  <2>2. ASSUME NEW p \in DOMAIN writers, writers[p] = broken PROVE failures > 0
    BY <2>2, FileType DEF RInv, ControlOK, TypeOK, Range
  <2>3. QED
    BY <2>1, <2>2 DEF StopRaises
<1>2. QED
  BY <1>1, DiesStep DEF RInv, CountersOK, StopRaises, bounds

LEMMA StartOrStopFailsStep ==
  ASSUME RInv, StartOrStopFails
  PROVE  RInv' /\ failures' > 0
BY DiesStep DEF RInv, CountersOK, StartOrStopFails

LEMMA CrashStep ==
  ASSUME RInv, Crash
  PROVE  RInv' /\ crashes' # crashes
BY DiesStep DEF RInv, CountersOK, Crash

-----------------------------------------------------------------------------
LEMMA RInvInit == Init => RInv
<1> SUFFICES ASSUME Init PROVE RInv
  OBVIOUS
<1> USE DEF Init
<1>1. TypeOK /\ CountersOK
  BY ArchiveAssumption DEF TypeOK, CountersOK, Phases, NoDrops, Range
<1>2. ThreadOK /\ ControlOK /\ JobOK /\ WritersOK /\ PartialsOK
  BY DEF ThreadOK, ControlOK, JobOK, WritersOK, PartialsOK, Partials, Runs, At, Alive
<1>3. RowsOK /\ DistinctOK /\ NothingLostWhileRunning
  BY DEF RowsOK, Increasing, Precedes, OneWindow, PastSeq, DistinctOK, NothingLostWhileRunning
<1>4. QED
  BY <1>1, <1>2, <1>3 DEF RInv

LEMMA StutterStep ==
  ASSUME RInv, UNCHANGED vars
  PROVE  RInv'
<1> USE DEF RInv, vars, memory, disk, bounds
<1>1. TypeOK' /\ CountersOK' /\ ThreadOK' /\ ControlOK' /\ JobOK' /\ WritersOK' /\ PartialsOK'
  BY DEF TypeOK, CountersOK, ThreadOK, ControlOK, JobOK, WritersOK, PartialsOK, Jobs, Accounted,
         Partials, Runs, At, Alive
<1>2. RowsOK' /\ DistinctOK' /\ NothingLostWhileRunning'
  BY QuietFrame DEF TypeOK
<1>3. QED
  BY <1>1, <1>2

LEMMA RInvStep ==
  ASSUME RInv, [Next]_vars
  PROVE  RInv'
<1>1. CASE Worker
  BY <1>1, WorkerResumesStep, IdleFlushStep, TakeBatchStep DEF Worker
<1>2. CASE Thread
  <2>1. ASSUME NEW p \in Partitions, FlushFile(p) \/ RotateIdleFile(p) \/ CloseFile(p)
        PROVE  RInv'
    BY <2>1, FlushFileStep, RotateIdleFileStep, CloseFileStep
  <2>2. ASSUME NEW f \in DOMAIN files, Abandon(f) PROVE RInv'
    BY <2>2, AbandonStep
  <2>3. QED
    BY <1>2, <2>1, <2>2, CrossBoundaryStep, WriteRowStep, RenameStep, AppendEntryStep,
       JobDoneStep, CloseAllStartsStep, StopReturnsStep, PublishRecoveredStep, RecoveredStep
       DEF Thread
<1>3. ASSUME NEW stream \in Streams, Enqueue(stream) PROVE RInv'
  BY <1>3, EnqueueStep
<1>4. CASE UNCHANGED vars
  BY <1>4, StutterStep
<1>5. QED
  BY <1>1, <1>2, <1>3, <1>4, TickStep, RequestStopStep, DrainedStep, DrainTimesOutStep,
     WriteFailsStep, StopRaisesStep, StartOrStopFailsStep, CrashStep, StartStep DEF Next

LEMMA RInvInvariant == Spec => []RInv
<1>1. RInv /\ [Next]_vars => RInv'
  BY RInvStep
<1>2. QED
  BY <1>1, RInvInit, PTL DEF Spec

-----------------------------------------------------------------------------
(* The theorems *)

\* Queue and batch stay within raw_max_events and writer_batch_events, every
\* open file and every manifest entry is a file of the archive, whatever is
\* interrupted (raw_writer.py, enqueue and _run).
THEOREM ArchiveTypeCorrect == Spec => []TypeOK
<1>1. RInv => TypeOK
  BY DEF RInv
<1>2. QED
  BY <1>1, RInvInvariant, PTL

\* No envelope is in the manifest twice: a recovered copy replaces the
\* abandoned file, and numbers grow over crashes (raw_writer.py,
\* recover_partials).
THEOREM NoDuplicatesCorrect == Spec => []NoDuplicateRows
<1>1. ASSUME RInv PROVE NoDuplicateRows
  <2> SUFFICES ASSUME NEW f \in manifest, NEW g \in manifest,
                      NEW i \in DOMAIN files[f].rows, NEW j \in DOMAIN files[g].rows,
                      files[f].rows[i].seq = files[g].rows[j].seq
               PROVE  f = g /\ i = j
    BY DEF NoDuplicateRows
  <2>1. f \in DOMAIN files /\ g \in DOMAIN files /\ Live(f) /\ Live(g)
    BY <1>1 DEF RInv, TypeOK, WritersOK, Live
  <2>2. f = g
    BY <1>1, <2>1 DEF RInv, DistinctOK, Disjoint
  <2>3. files[f].rows \in Seq(Envelope) /\ Increasing(files[f].rows)
    BY <1>1, <2>1, FileType DEF RInv, RowsOK
  <2>4. i \in Nat /\ j \in Nat /\ files[f].rows[i] \in Envelope /\ files[f].rows[j] \in Envelope
    BY <2>2, <2>3
  <2>5. ~(i < j) /\ ~(j < i)
    BY <2>2, <2>3, <2>4, EnvelopeType DEF Increasing, Before
  <2>6. QED
    BY <2>2, <2>4, <2>5
<1>2. QED
  BY <1>1, RInvInvariant, PTL

\* While no disk operation has failed every accepted envelope is in the queue,
\* in the batch or in a file, between any two steps of rotation, flushing and
\* shutdown (raw_writer.py, _run, _write_batch and stop).
THEOREM NothingLostCorrect == Spec => []NothingLostWhileRunning
<1>1. RInv => NothingLostWhileRunning
  BY DEF RInv
<1>2. QED
  BY <1>1, RInvInvariant, PTL

\* Every file holds envelopes of one rotation window in the order they were
\* received (raw_writer.py, crosses_rotation_boundary).
THEOREM OneWindowCorrect == Spec => []FileHoldsOneWindow
<1>1. RInv => FileHoldsOneWindow
  BY DEF RInv, RowsOK, Increasing, OneWindow, Before, FileHoldsOneWindow
<1>2. QED
  BY <1>1, RInvInvariant, PTL

EntriesKept == manifest \subseteq manifest' /\ \A f \in manifest : files'[f] = files[f]

LEMMA ManifestStep ==
  ASSUME RInv, [Next]_vars
  PROVE  EntriesKept
<1>1. \A f \in manifest : f \in DOMAIN files /\ files[f].name \in {"final", "recovered"}
  BY DEF RInv, TypeOK, WritersOK
<1>2. ASSUME UNCHANGED disk PROVE EntriesKept
  BY <1>2 DEF disk, EntriesKept
<1>3. ASSUME ProcessDies, manifest' = manifest PROVE EntriesKept
  BY <1>1, <1>3, TruncatedCut DEF RInv, ProcessDies, Cut, EntriesKept
<1>4. CASE Rename
  <2>1. thread.file \notin manifest
    BY <1>1, <1>4 DEF Rename, RInv, JobOK, At
  <2>2. QED
    BY <1>1, <1>4, <2>1 DEF Rename, EntriesKept
<1>5. CASE AppendEntry
  BY <1>5 DEF AppendEntry, EntriesKept
<1>6. CASE WriteRow
  <2>1. \A g \in manifest : g # Target(PartitionFor(Head(batch)))
    BY <1>1, <1>6, WriteRowEffect
  <2>2. QED
    BY <1>1, <1>6, <2>1, WriteRowEffect DEF WriteRow, EntriesKept
<1>7. ASSUME NEW p \in Partitions, FlushFile(p) PROVE EntriesKept
  <2>1. files[writers[p]].name = "partial"
    <3>1. Runs({"write", "flush"}) /\ At("step") /\ p \in DOMAIN writers
      BY <1>7 DEF FlushFile, Visits, RInv, JobOK, Runs, At
    <3>2. QED
      BY <3>1, OpenIsPartial DEF RInv
  <2>2. QED
    BY <1>1, <1>7, <2>1 DEF FlushFile, EntriesKept
<1>8. ASSUME NEW f \in DOMAIN files, Abandon(f) PROVE EntriesKept
  <2>1. files[f].name = "partial"
    BY <1>8 DEF Abandon, Visits, RInv, PartialsOK, Partials, Runs
  <2>2. QED
    BY <1>1, <1>8, <2>1 DEF Abandon, EntriesKept
<1>9. CASE PublishRecovered
  BY <1>1, <1>9, FileType DEF PublishRecovered, RInv, TypeOK, EntriesKept
<1>10. CASE Worker
  BY <1>2, <1>10 DEF Worker, WorkerResumes, IdleFlush, TakeBatch
<1>11. CASE Thread
  BY <1>2, <1>4, <1>5, <1>6, <1>7, <1>8, <1>9, <1>11
     DEF Thread, CrossBoundary, JobDone, RotateIdleFile, CloseFile, CloseAllStarts, StopReturns,
         Recovered
<1>12. CASE UNCHANGED vars
  BY <1>2, <1>12 DEF vars
<1>13. QED
  BY <1>2, <1>3, <1>10, <1>11, <1>12
     DEF Next, Tick, Enqueue, RequestStop, Drained, DrainTimesOut, WriteFails, StopRaises,
         StartOrStopFails, Crash, Start, disk, bounds

\* A file in the manifest is never written to, cut or renamed again
\* (raw_writer.py, close; the digest of its entry stays true).
THEOREM ManifestCorrect == Spec => ManifestedNeverChanges
<1>1. RInv /\ [Next]_vars => [EntriesKept]_vars
  BY ManifestStep
<1>2. QED
  BY <1>1, RInvInvariant, PTL DEF Spec, ManifestedNeverChanges, EntriesKept

LEMMA StopStep ==
  ASSUME RInv, [Next]_vars,
         process = "closing", process' = "down", crashes' = crashes, failures' = 0
  PROVE  Partials' = {} /\ (crashes = 0 => DOMAIN files' \subseteq manifest')
<1>1. StopReturns
  <2>1. ~StopRaises /\ ~StartOrStopFails /\ ~Crash
    BY StopRaisesStep, StartOrStopFailsStep, CrashStep
  <2>2. QED
    BY <2>1 DEF Next, vars, Worker, Thread, Tick, Enqueue, WorkerResumes, IdleFlush, TakeBatch,
       CrossBoundary, WriteRow, Rename, AppendEntry, JobDone, FlushFile, RotateIdleFile, CloseFile,
       CloseAllStarts, Abandon, PublishRecovered, Recovered, RequestStop, Drained, DrainTimesOut,
       WriteFails, Start
<1>2. DOMAIN writers = {} /\ files' = files /\ Range(writers) = {} /\ Alive /\ ~At("append")
      /\ failures = 0 /\ manifest' = manifest
  BY <1>1, StopReturnsStep DEF Range, Alive, At, StopReturns, bounds, disk
<1>3. Partials = {}
  BY <1>2 DEF RInv, PartialsOK
<1>4. crashes = 0 => DOMAIN files \subseteq manifest
  BY <1>2 DEF RInv, PartialsOK, Accounted
<1>5. QED
  BY <1>2, <1>3, <1>4 DEF Partials

\* stop() returns with no partial file left and, without an earlier crash or
\* failure, with every file in the manifest (raw_writer.py, stop).
THEOREM StopCorrect == Spec => StopFinalizesFiles
<1> DEFINE Stopped == process = "closing" /\ process' = "down" /\ crashes' = crashes /\ failures' = 0 =>
                        Partials' = {} /\ (crashes = 0 => DOMAIN files' \subseteq manifest')
<1>1. RInv /\ [Next]_vars => [Stopped]_vars
  BY StopStep
<1>2. QED
  BY <1>1, RInvInvariant, PTL DEF Spec, StopFinalizesFiles

-----------------------------------------------------------------------------
(* The normalizer *)

Datasets ==
  {"book_snapshots", "book_snapshot_levels", "book_updates", "top_of_book", "trades",
   "tick_size_changes", "market_resolutions", "btc_prices", "markets", "market_outcomes",
   "market_execution_metadata", "data_quality_events", "connection_events",
   "heartbeat_events", "rest_requests"}

Keys == EnvelopeIds \X Nat \X Nat

RowIds == Keys \cup ({"trade"} \X TradeIds) \cup ({"market"} \X Conditions)
               \cup ({"outcome"} \X Conditions \X Nat)

Traded == UNION {TokensOf[c] : c \in Conditions}

LEMMA TradedIs == Traded \in SUBSET Tokens
<1>1. \A c \in Conditions : TokensOf[c] \in SUBSET Tokens
  BY ParserAssumption
<1>2. QED
  BY <1>1 DEF Traded

\* The rows that are replaced by a later or an earlier one of the same id.
ByIdentity == {"markets", "market_outcomes", "trades"}

RowSet ==
  {r \in [ds : Datasets, key : Keys, id : RowIds, token : Tokens \cup Conditions,
          at : Nat, seq : Nat, tick : Nat] :
     /\ r.id = r.key \/ r.ds \in ByIdentity
     /\ r.ds = "top_of_book" => r.token \in Traded}

Contexts == [rows : Seq(RowSet), ticks : [Tokens -> Nat], known : SUBSET Traded]

\* A row that says what became of message i, and that stays.
Tells(r, env, i) ==
  /\ r.key[1] = env.id /\ r.key[2] \in {0, i}
  /\ r.ds \notin ByIdentity
  /\ r.ds = "tick_size_changes" => env.msgs[i].type = "tick_size_change"

\* The rows R say of message i what ProcessedIsAccountedFor asks for ...
Told(R, env, i) ==
  \/ Silent(env, i)
  \/ \E r \in R : Tells(r, env, i)
  \/ /\ env.msgs[i].type = "last_trade_price"
     /\ \E r \in R : r.ds = "trades" /\ r.id = <<"trade", env.msgs[i].trade>>

\* ... and what TicksAreComplete asks for.
TickTold(R, env, i) ==
  env.msgs[i].type = "tick_size_change" /\ env.msgs[i].bad = "no" =>
    \E r \in R : r.ds = "tick_size_changes" /\ r.id = <<env.id, i, 0>>

AllTold(R, env) == \A i \in 1 .. Len(env.msgs) : Told(R, env, i) /\ TickTold(R, env, i)

LEMMA ToldByMore ==
  ASSUME NEW R, NEW S, R \subseteq S, NEW env, NEW i
  PROVE  (Told(R, env, i) => Told(S, env, i)) /\ (TickTold(R, env, i) => TickTold(S, env, i))
BY DEF Told, TickTold

LEMMA OneElement ==
  ASSUME NEW X, NEW a \in X
  PROVE  << a >> \in Seq(X) /\ ToSet(<< a >>) = {a}
BY DEF ToSet

LEMMA EmitIs ==
  ASSUME NEW ctx \in Contexts, NEW rows \in Seq(RowSet)
  PROVE  /\ Emit(ctx, rows) \in Contexts
         /\ ToSet(Emit(ctx, rows).rows) = ToSet(ctx.rows) \cup ToSet(rows)
         /\ Emit(ctx, rows).known = ctx.known
         /\ Emit(ctx, rows).ticks = ctx.ticks
<1>1. ctx.rows \in Seq(RowSet)
  BY DEF Contexts
<1>2. ctx.rows \o rows \in Seq(RowSet)
      /\ ToSet(ctx.rows \o rows) = ToSet(ctx.rows) \cup ToSet(rows)
  BY <1>1, ConcatIs
<1>3. ctx.ticks \in [Tokens -> Nat] /\ ctx.known \in SUBSET Traded
      /\ ctx = [rows |-> ctx.rows, ticks |-> ctx.ticks, known |-> ctx.known]
  BY DEF Contexts
<1> DEFINE x == Emit(ctx, rows)
<1>4. x.rows = ctx.rows \o rows /\ x.ticks = ctx.ticks /\ x.known = ctx.known
  BY <1>3 DEF Emit
<1>5. x \in Contexts
  BY <1>2, <1>3 DEF Emit, Contexts
<1> HIDE DEF x
<1>6. QED
  BY <1>2, <1>4, <1>5 DEF x

LEMMA RowIs ==
  ASSUME NEW env \in RecordedEnvelope, NEW ds \in Datasets, NEW i \in Nat, NEW j \in Nat,
         NEW t \in Tokens \cup Conditions, NEW tick \in Nat,
         ds # "top_of_book" \/ t \in Traded
  PROVE  /\ Row(env, ds, i, j, t, tick) \in RowSet
         /\ Row(env, ds, i, j, t, tick).ds = ds
         /\ Row(env, ds, i, j, t, tick).key = <<env.id, i, j>>
         /\ Row(env, ds, i, j, t, tick).id = <<env.id, i, j>>
<1>1. env.id \in EnvelopeIds /\ env.at \in Nat /\ env.seq \in Nat
  BY DEF RecordedEnvelope
<1>2. <<env.id, i, j>> \in Keys
  BY <1>1 DEF Keys
<1>3. QED
  BY <1>1, <1>2 DEF Row, RowSet, RowIds

LEMMA TopRowIs ==
  ASSUME NEW env \in RecordedEnvelope, NEW i \in Nat, NEW j \in Nat, NEW t \in Traded
  PROVE  Row(env, "top_of_book", i, j, t, NoTick) \in RowSet
<1>1. "top_of_book" \in Datasets /\ t \in Tokens \cup Conditions /\ NoTick \in Nat
  BY TradedIs DEF Datasets, NoTick
<1>2. QED
  BY <1>1, RowIs

LEMMA SetTickSizeIs ==
  ASSUME NEW ctx \in Contexts, NEW t \in Tokens, NEW tick \in Nat
  PROVE  /\ SetTickSize(ctx, t, tick) \in Contexts
         /\ SetTickSize(ctx, t, tick).rows = ctx.rows
         /\ SetTickSize(ctx, t, tick).known = ctx.known
BY DEF SetTickSize, Contexts

\* The handling of message i of env, from ctx to x, loses nothing.
Handles(x, ctx, env, i) ==
  /\ x \in Contexts /\ ToSet(ctx.rows) \subseteq ToSet(x.rows)
  /\ Told(ToSet(x.rows), env, i) /\ TickTold(ToSet(x.rows), env, i)

\* What a handler emits for message i of env.
LEMMA FailureTells ==
  ASSUME NEW ctx \in Contexts, NEW env \in RecordedEnvelope, NEW i \in Nat, NEW j \in Nat
  PROVE  /\ << Quality(env, i, j) >> \in Seq(RowSet)
         /\ MessageFails(ctx, env, i) \in Contexts
         /\ ToSet(MessageFails(ctx, env, i).rows) = ToSet(ctx.rows) \cup {Quality(env, i, 0)}
         /\ MessageFails(ctx, env, i).known = ctx.known
         /\ \A k \in Nat : i \in {0, k} => Tells(Quality(env, i, 0), env, k)
<1>1. env.token \in Tokens \cup Conditions /\ NoTick \in Nat /\ 0 \in Nat
      /\ "data_quality_events" \in Datasets /\ "data_quality_events" # "top_of_book"
  BY DEF RecordedEnvelope, NoTick, Datasets
<1>2. \A l \in Nat : Quality(env, i, l) \in RowSet
  BY <1>1, RowIs DEF Quality
<1>3. /\ Quality(env, i, 0).ds = "data_quality_events"
      /\ Quality(env, i, 0).key = <<env.id, i, 0>>
  BY DEF Quality, Row
<1>4. \A l \in Nat : << Quality(env, i, l) >> \in Seq(RowSet)
                     /\ ToSet(<< Quality(env, i, l) >>) = {Quality(env, i, l)}
  BY <1>2, OneElement
<1>5. \A k \in Nat : i \in {0, k} => Tells(Quality(env, i, 0), env, k)
  BY <1>3 DEF Tells, ByIdentity
<1>6. MessageFails(ctx, env, i) = Emit(ctx, << Quality(env, i, 0) >>)
  BY DEF MessageFails
<1>7. /\ << Quality(env, i, 0) >> \in Seq(RowSet)
      /\ ToSet(<< Quality(env, i, 0) >>) = {Quality(env, i, 0)}
  BY <1>4
<1>8. /\ MessageFails(ctx, env, i) \in Contexts
      /\ ToSet(MessageFails(ctx, env, i).rows) = ToSet(ctx.rows) \cup {Quality(env, i, 0)}
      /\ MessageFails(ctx, env, i).known = ctx.known
  <2> DEFINE rows == << Quality(env, i, 0) >>
  <2>1. rows \in Seq(RowSet) /\ ToSet(rows) = {Quality(env, i, 0)}
    BY <1>7
  <2>2. MessageFails(ctx, env, i) = Emit(ctx, rows)
    BY <1>6
  <2> HIDE DEF rows
  <2>3. QED
    BY <2>1, <2>2, EmitIs
<1>9. QED
  BY <1>4, <1>5, <1>8

\* One row that says it is enough.
LEMMA RowHandles ==
  ASSUME NEW ctx \in Contexts, NEW x \in Contexts, ToSet(ctx.rows) \subseteq ToSet(x.rows),
         NEW env, NEW i, NEW r \in ToSet(x.rows), Tells(r, env, i),
         env.msgs[i].type = "tick_size_change" /\ env.msgs[i].bad = "no" =>
           r.ds = "tick_size_changes" /\ r.id = <<env.id, i, 0>>
  PROVE  Handles(x, ctx, env, i)
BY DEF Handles, Told, TickTold

\* So is a failure, of a context that has at most more rows.
LEMMA FailureHandles ==
  ASSUME NEW ctx \in Contexts, NEW next \in Contexts,
         ToSet(ctx.rows) \subseteq ToSet(next.rows),
         NEW env \in RecordedEnvelope, NEW i \in Nat,
         ~(env.msgs[i].type = "tick_size_change" /\ env.msgs[i].bad = "no")
  PROVE  Handles(MessageFails(next, env, i), ctx, env, i)
<1>1. /\ MessageFails(next, env, i) \in Contexts
      /\ ToSet(MessageFails(next, env, i).rows) = ToSet(next.rows) \cup {Quality(env, i, 0)}
      /\ Tells(Quality(env, i, 0), env, i)
  BY FailureTells
<1>2. ToSet(ctx.rows) \subseteq ToSet(MessageFails(next, env, i).rows)
      /\ Quality(env, i, 0) \in ToSet(MessageFails(next, env, i).rows)
  BY <1>1
<1>3. QED
  BY <1>1, <1>2, RowHandles

-----------------------------------------------------------------------------
(* The messages of the market channel *)

LEMMA MessageFields ==
  ASSUME NEW env \in RecordedEnvelope, NEW i \in DOMAIN env.msgs
  PROVE  /\ i \in Nat \ {0} /\ i \in 1 .. Len(env.msgs)
         /\ env.msgs[i] \in Message
         /\ env.msgs[i].token \in Tokens /\ env.msgs[i].tick \in Nat
         /\ env.msgs[i].cond \in Conditions /\ env.msgs[i].trade \in TradeIds
         /\ env.msgs[i].changes \in Seq(Change)
<1>1. env.msgs \in Seq(Message)
  BY DEF RecordedEnvelope
<1>2. i \in 1 .. Len(env.msgs) /\ Len(env.msgs) \in Nat /\ env.msgs[i] \in Message
  BY <1>1, LenProperties, ElementOfSeq
<1>3. QED
  BY <1>2 DEF Message

LEMMA SnapshotRowsAre ==
  ASSUME NEW env \in RecordedEnvelope, NEW i \in Nat, NEW t \in Traded, NEW tick \in Nat
  PROVE  /\ SnapshotRows(env, i, t, tick) \in Seq(RowSet)
         /\ Row(env, "book_snapshots", i, 0, t, tick) \in ToSet(SnapshotRows(env, i, t, tick))
         /\ Tells(Row(env, "book_snapshots", i, 0, t, tick), env, i)
<1> DEFINE a == Row(env, "book_snapshots", i, 0, t, tick)
           b == Row(env, "book_snapshot_levels", i, 0, t, NoTick)
           c == Row(env, "top_of_book", i, 0, t, NoTick)
<1>1. /\ NoTick \in Nat /\ 0 \in Nat /\ t \in Tokens \cup Conditions
      /\ {"book_snapshots", "book_snapshot_levels"} \subseteq Datasets \ {"top_of_book"}
  BY TradedIs DEF NoTick, Datasets
<1>2. a \in RowSet /\ b \in RowSet /\ c \in RowSet
  BY <1>1, RowIs, TopRowIs
<1>3. a.ds = "book_snapshots" /\ a.key = <<env.id, i, 0>>
  BY DEF Row
<1>4. SnapshotRows(env, i, t, tick) = << a, b, c >>
  BY DEF SnapshotRows
<1> HIDE DEF a, b, c
<1>5. << a, b, c >> \in Seq(RowSet) /\ a \in ToSet(<< a, b, c >>)
  <2>1. << a, b, c >> \in Seq(RowSet)
    BY <1>2
  <2>2. 1 \in DOMAIN << a, b, c >> /\ << a, b, c >>[1] = a
    OBVIOUS
  <2>3. QED
    BY <2>1, <2>2 DEF ToSet
<1>6. Tells(a, env, i)
  BY <1>3 DEF Tells, ByIdentity
<1>7. QED
  BY <1>4, <1>5, <1>6 DEF a

LEMMA BookHandles ==
  ASSUME NEW ctx \in Contexts, NEW env \in RecordedEnvelope, NEW i \in DOMAIN env.msgs,
         env.msgs[i].type # "tick_size_change"
  PROVE  Handles(BookMessage(ctx, env, i, env.msgs[i]), ctx, env, i)
<1> DEFINE m == env.msgs[i]
           tick == TickOfBook(ctx, m)
           next == SetTickSize(ctx, m.token, tick)
           rows == SnapshotRows(env, i, m.token, tick)
<1>1. i \in Nat /\ m.token \in Tokens /\ m.tick \in Nat
  BY MessageFields
<1>2. tick \in Nat
  <2>1. ctx.ticks[m.token] \in Nat /\ BaseTick[m.token] \in Nat
    BY <1>1, ParserAssumption DEF Contexts
  <2>2. QED
    BY <1>1, <2>1 DEF TickOfBook
<1>3. next \in Contexts /\ next.rows = ctx.rows
  BY <1>1, <1>2, SetTickSizeIs
<1>4. m.token \in ctx.known =>
        /\ rows \in Seq(RowSet)
        /\ \E r \in ToSet(rows) : Tells(r, env, i)
  <2>1. m.token \in ctx.known => m.token \in Traded
    BY DEF Contexts
  <2>2. QED
    BY <1>1, <1>2, <2>1, SnapshotRowsAre
<1>5. \/ BookMessage(ctx, env, i, m) \in {MessageFails(ctx, env, i), MessageFails(next, env, i)}
      \/ BookMessage(ctx, env, i, m) = Emit(next, rows) /\ m.token \in ctx.known
  BY DEF BookMessage
<1> HIDE DEF next, rows, tick
<1>6. Handles(MessageFails(ctx, env, i), ctx, env, i)
  BY <1>1, FailureHandles
<1>7. Handles(MessageFails(next, env, i), ctx, env, i)
  BY <1>1, <1>3, FailureHandles
<1>8. ASSUME m.token \in ctx.known PROVE Handles(Emit(next, rows), ctx, env, i)
  <2>1. /\ Emit(next, rows) \in Contexts
        /\ ToSet(Emit(next, rows).rows) = ToSet(ctx.rows) \cup ToSet(rows)
    BY <1>3, <1>4, <1>8, EmitIs
  <2>2. PICK r \in ToSet(rows) : Tells(r, env, i)
    BY <1>4, <1>8
  <2>3. QED
    BY <2>1, <2>2, RowHandles
<1>9. QED
  BY <1>5, <1>6, <1>7, <1>8

-----------------------------------------------------------------------------
LEMMA ChangeRowsAre ==
  ASSUME NEW env \in RecordedEnvelope, NEW i \in Nat, NEW j \in Nat, NEW change \in Change,
         change.token \in Traded
  PROVE  /\ ChangeRows(env, i, j, change) \in Seq(RowSet)
         /\ Row(env, "book_updates", i, j, change.token, NoTick)
              \in ToSet(ChangeRows(env, i, j, change))
         /\ Tells(Row(env, "book_updates", i, j, change.token, NoTick), env, i)
<1> DEFINE a == Row(env, "book_updates", i, j, change.token, NoTick)
           b == Row(env, "top_of_book", i, j, change.token, NoTick)
           head == << a >>
           rest == IF change.top THEN << b >> ELSE << >>
<1>1. /\ NoTick \in Nat /\ change.token \in Tokens \cup Conditions
      /\ "book_updates" \in Datasets \ {"top_of_book"}
  BY DEF NoTick, Datasets, Change
<1>2. a \in RowSet /\ b \in RowSet
  BY <1>1, RowIs, TopRowIs
<1>3. a.ds = "book_updates" /\ a.key = <<env.id, i, j>>
  BY DEF Row
<1>4. ChangeRows(env, i, j, change) = head \o rest
  BY DEF ChangeRows
<1> HIDE DEF a, b
<1>5. head \in Seq(RowSet) /\ rest \in Seq(RowSet) /\ ToSet(head) = {a}
  BY <1>2, OneElement, EmptySeq
<1> HIDE DEF head, rest
<1>6. head \o rest \in Seq(RowSet) /\ ToSet(head \o rest) = {a} \cup ToSet(rest)
  BY <1>5, ConcatIs
<1>7. Tells(a, env, i)
  BY <1>3 DEF Tells, ByIdentity
<1>8. QED
  BY <1>4, <1>6, <1>7 DEF a

LEMMA PriceChangeHandles ==
  ASSUME NEW ctx \in Contexts, NEW env \in RecordedEnvelope, NEW i \in DOMAIN env.msgs,
         env.msgs[i].type = "price_change", env.form \in {"object", "list"}
  PROVE  Handles(PriceChangeMessage(ctx, env, i, env.msgs[i]), ctx, env, i)
<1> DEFINE m == env.msgs[i]
           failing == {j \in 1 .. Len(m.changes) :
                         m.changes[j].bad \/ m.changes[j].token \notin ctx.known}
           n == IF failing = {} THEN Len(m.changes) ELSE Min(failing) - 1
           parts == [j \in 1 .. n |-> ChangeRows(env, i, j, m.changes[j])]
           rows == FlattenSeq(parts)
           kept == Emit(ctx, rows)
<1>1. i \in Nat /\ m.changes \in Seq(Change) /\ ~(m.type = "tick_size_change" /\ m.bad = "no")
  BY MessageFields
<1>2. Len(m.changes) \in Nat /\ \A j \in 1 .. Len(m.changes) : m.changes[j] \in Change
  BY <1>1, LenProperties, ElementOfSeq
<1>3. n \in Nat /\ n <= Len(m.changes) /\ \A j \in 1 .. n : j \notin failing
  <2>1. CASE failing = {}
    BY <1>2, <2>1
  <2>2. CASE failing # {}
    <3>0. Len(m.changes) \in Int /\ 1 \in Int
      BY <1>2
    <3>1. IsFiniteSet(1 .. Len(m.changes))
      <4> HIDE DEF m
      <4>1. QED
        BY <3>0, FS_Interval
    <3>2. IsFiniteSet(failing) /\ failing \in SUBSET Int
      BY <1>2, <3>1, FS_Subset
    <3>3. Min(failing) \in failing /\ \A j \in failing : Min(failing) <= j
      BY <2>2, <3>2, MinIsLeast
    <3>4. Min(failing) \in 1 .. Len(m.changes)
      BY <3>3
    <3> HIDE DEF failing
    <3>5. n \in Nat /\ n <= Len(m.changes)
      BY <1>2, <2>2, <3>4
    <3>6. ASSUME NEW j \in 1 .. n PROVE j \notin failing
      BY <2>2, <3>3, <3>4
    <3>7. QED
      BY <3>5, <3>6
  <2>3. QED
    BY <2>1, <2>2
<1> HIDE DEF n
<1>4. \A j \in 1 .. n : m.changes[j] \in Change /\ j \in Nat /\ m.changes[j].token \in Traded
  <2>1. \A j \in 1 .. n : j \in 1 .. Len(m.changes) /\ j \in Nat
    BY <1>2, <1>3
  <2>2. \A j \in 1 .. n : m.changes[j].token \in ctx.known
    BY <1>3, <2>1
  <2>3. ctx.known \subseteq Traded
    BY DEF Contexts
  <2>4. QED
    BY <1>2, <2>1, <2>2, <2>3
<1>5. \A j \in 1 .. n : ChangeRows(env, i, j, m.changes[j]) \in Seq(RowSet)
  BY <1>1, <1>4, ChangeRowsAre
<1>6. parts \in Seq(Seq(RowSet)) /\ DOMAIN parts = 1 .. n
  BY <1>3, <1>5, IsASeq
<1>7. rows \in Seq(RowSet) /\ ToSet(rows) = UNION {ToSet(parts[j]) : j \in DOMAIN parts}
  <2> HIDE DEF parts
  <2>1. QED
    BY <1>6, FlattenIs
<1>8. kept \in Contexts /\ ToSet(kept.rows) = ToSet(ctx.rows) \cup ToSet(rows)
  <2> HIDE DEF rows
  <2>1. QED
    BY <1>7, EmitIs
<1>9. PriceChangeMessage(ctx, env, i, m) =
        IF m.bad # "no" THEN MessageFails(ctx, env, i)
        ELSE IF failing # {} THEN MessageFails(kept, env, i) ELSE kept
  BY DEF PriceChangeMessage, n
<1>10. CASE m.bad # "no"
  <2>1. Handles(MessageFails(ctx, env, i), ctx, env, i)
    BY <1>1, FailureHandles
  <2>2. QED
    BY <1>9, <1>10, <2>1
<1>11. CASE m.bad = "no" /\ failing # {}
  <2>1. ToSet(ctx.rows) \subseteq ToSet(kept.rows)
    BY <1>8
  <2> HIDE DEF kept, failing
  <2>2. Handles(MessageFails(kept, env, i), ctx, env, i)
    BY <1>1, <1>8, <2>1, FailureHandles
  <2>3. QED
    BY <1>9, <1>11, <2>2
<1>12. CASE m.bad = "no" /\ failing = {}
  <2>1. PriceChangeMessage(ctx, env, i, m) = kept
    BY <1>9, <1>12
  <2>2. TickTold(ToSet(kept.rows), env, i)
    BY <1>1 DEF TickTold
  <2>3. Told(ToSet(kept.rows), env, i)
    <3>1. CASE n = 0
      <4>1. Len(m.changes) = 0
        BY <1>12, <3>1 DEF n
      <4>2. m.changes = << >>
        BY <1>1, <4>1, EmptySeq
      <4>3. Silent(env, i)
        BY <4>2 DEF Silent
      <4>4. QED
        BY <4>3 DEF Told
    <3>2. CASE n # 0
      <4> DEFINE r == Row(env, "book_updates", i, 1, m.changes[1].token, NoTick)
      <4>1. 1 \in 1 .. n /\ 1 \in Nat /\ m.changes[1] \in Change /\ m.changes[1].token \in Traded
        BY <1>3, <1>4, <3>2
      <4>2. r \in ToSet(ChangeRows(env, i, 1, m.changes[1])) /\ Tells(r, env, i)
        BY <1>1, <4>1, ChangeRowsAre
      <4>3. parts[1] = ChangeRows(env, i, 1, m.changes[1])
        BY <4>1
      <4>4. r \in ToSet(rows)
        BY <1>6, <1>7, <4>1, <4>2, <4>3
      <4>5. r \in ToSet(kept.rows)
        BY <1>8, <4>4
      <4>6. QED
        BY <4>2, <4>5 DEF Told
    <3>3. QED
      BY <3>1, <3>2
  <2>4. QED
    BY <1>8, <2>1, <2>2, <2>3 DEF Handles
<1>13. QED
  BY <1>10, <1>11, <1>12

\* One row that says it is emitted, after others at most.
LEMMA EmitHandles ==
  ASSUME NEW ctx \in Contexts, NEW next \in Contexts,
         ToSet(ctx.rows) \subseteq ToSet(next.rows),
         NEW env, NEW i, NEW r \in RowSet, Tells(r, env, i),
         env.msgs[i].type = "tick_size_change" /\ env.msgs[i].bad = "no" =>
           r.ds = "tick_size_changes" /\ r.id = <<env.id, i, 0>>
  PROVE  Handles(Emit(next, << r >>), ctx, env, i)
<1> DEFINE one == << r >>
<1>1. one \in Seq(RowSet) /\ ToSet(one) = {r}
  BY OneElement
<1> HIDE DEF one
<1>2. /\ Emit(next, one) \in Contexts
      /\ ToSet(Emit(next, one).rows) = ToSet(next.rows) \cup {r}
  <2>1. /\ Emit(next, one) \in Contexts
        /\ ToSet(Emit(next, one).rows) = ToSet(next.rows) \cup ToSet(one)
    BY <1>1, EmitIs
  <2>2. QED
    BY <1>1, <2>1
<1>3. Handles(Emit(next, one), ctx, env, i)
  BY <1>2, RowHandles
<1>4. QED
  BY <1>3 DEF one

LEMMA TradeHandles ==
  ASSUME NEW ctx \in Contexts, NEW env \in RecordedEnvelope, NEW i \in DOMAIN env.msgs,
         env.msgs[i].type = "last_trade_price"
  PROVE  Handles(TradeMessage(ctx, env, i, env.msgs[i]), ctx, env, i)
<1> DEFINE m == env.msgs[i]
           note == << Quality(env, i, 1) >>
           noted == IF m.imprecise THEN Emit(ctx, note) ELSE ctx
           row == [Row(env, "trades", i, 0, m.token, NoTick) EXCEPT !.id = <<"trade", m.trade>>]
           one == << row >>
<1>1. /\ i \in Nat /\ 1 \in Nat /\ m.token \in Tokens \cup Conditions /\ m.trade \in TradeIds
      /\ NoTick \in Nat /\ "trades" \in Datasets \ {"top_of_book"}
      /\ ~(m.type = "tick_size_change" /\ m.bad = "no")
  BY MessageFields DEF NoTick, Datasets
<1>2. noted \in Contexts /\ ToSet(ctx.rows) \subseteq ToSet(noted.rows)
  <2>1. note \in Seq(RowSet)
    BY <1>1, FailureTells
  <2> HIDE DEF note
  <2>2. Emit(ctx, note) \in Contexts /\ ToSet(ctx.rows) \subseteq ToSet(Emit(ctx, note).rows)
    BY <2>1, EmitIs
  <2>3. QED
    BY <2>2
<1>3. row \in RowSet /\ row.ds = "trades" /\ row.id = <<"trade", m.trade>>
  <2>1. Row(env, "trades", i, 0, m.token, NoTick) \in RowSet
        /\ Row(env, "trades", i, 0, m.token, NoTick).ds = "trades"
    <3>1. Row(env, "trades", i, 0, m.token, NoTick) \in RowSet
      BY <1>1, RowIs
    <3>2. QED
      BY <3>1 DEF Row
  <2>2. <<"trade", m.trade>> \in RowIds
    BY <1>1 DEF RowIds
  <2>3. QED
    BY <2>1, <2>2 DEF RowSet, ByIdentity
<1>4. TradeMessage(ctx, env, i, m) \in
        {MessageFails(ctx, env, i), MessageFails(noted, env, i), Emit(noted, one)}
  BY DEF TradeMessage
<1> HIDE DEF noted, row
<1>5. one \in Seq(RowSet) /\ ToSet(one) = {row}
  BY <1>3, OneElement
<1> HIDE DEF one
<1>6. Handles(MessageFails(ctx, env, i), ctx, env, i)
  BY <1>1, FailureHandles
<1>7. Handles(MessageFails(noted, env, i), ctx, env, i)
  BY <1>1, <1>2, FailureHandles
<1>8. Handles(Emit(noted, one), ctx, env, i)
  <2>1. /\ Emit(noted, one) \in Contexts
        /\ ToSet(Emit(noted, one).rows) = ToSet(noted.rows) \cup {row}
    <3>1. /\ Emit(noted, one) \in Contexts
          /\ ToSet(Emit(noted, one).rows) = ToSet(noted.rows) \cup ToSet(one)
      BY <1>2, <1>5, EmitIs
    <3>2. QED
      BY <1>5, <3>1
  <2>2. Told(ToSet(Emit(noted, one).rows), env, i)
    BY <1>3, <2>1 DEF Told
  <2>3. TickTold(ToSet(Emit(noted, one).rows), env, i)
    BY <1>1 DEF TickTold
  <2>4. QED
    BY <1>2, <2>1, <2>2, <2>3 DEF Handles
<1>9. QED
  BY <1>4, <1>6, <1>7, <1>8

LEMMA TickRowIs ==
  ASSUME NEW env \in RecordedEnvelope, NEW i \in DOMAIN env.msgs
  PROVE  /\ TickRow(env, i, env.msgs[i]) \in RowSet
         /\ TickRow(env, i, env.msgs[i]).ds = "tick_size_changes"
         /\ TickRow(env, i, env.msgs[i]).key = <<env.id, i, 0>>
         /\ TickRow(env, i, env.msgs[i]).id = <<env.id, i, 0>>
<1> DEFINE t == env.msgs[i].token
           tick == env.msgs[i].tick
           ds == "tick_size_changes"
           r == Row(env, ds, i, 0, t, tick)
<1>1. i \in Nat /\ t \in Tokens \cup Conditions /\ tick \in Nat /\ 0 \in Nat
  BY MessageFields
<1>2. ds \in Datasets /\ ds # "top_of_book"
  BY DEF Datasets
<1>3. r.ds = "tick_size_changes"
  BY DEF Row
<1>4. TickRow(env, i, env.msgs[i]) = r
  BY DEF TickRow
<1> HIDE DEF t, tick, ds
<1>5. r \in RowSet /\ r.key = <<env.id, i, 0>> /\ r.id = <<env.id, i, 0>>
  BY <1>1, <1>2, RowIs
<1> HIDE DEF r
<1>6. QED
  BY <1>3, <1>4, <1>5

LEMMA TickSizeHandles ==
  ASSUME NEW ctx \in Contexts, NEW env \in RecordedEnvelope, NEW i \in DOMAIN env.msgs,
         env.msgs[i].type = "tick_size_change"
  PROVE  Handles(TickSizeMessage(ctx, env, i, env.msgs[i]), ctx, env, i)
<1> DEFINE m == env.msgs[i]
           next == SetTickSize(ctx, m.token, m.tick)
           r == TickRow(env, i, m)
<1>1. i \in Nat /\ m.token \in Tokens /\ m.tick \in Nat
  BY MessageFields
<1>2. next \in Contexts /\ ToSet(ctx.rows) \subseteq ToSet(next.rows)
  BY <1>1, SetTickSizeIs
<1>3. /\ r \in RowSet /\ Tells(r, env, i)
      /\ r.ds = "tick_size_changes" /\ r.id = <<env.id, i, 0>>
  <2>1. /\ r \in RowSet /\ r.ds = "tick_size_changes"
        /\ r.key = <<env.id, i, 0>> /\ r.id = <<env.id, i, 0>>
    BY TickRowIs
  <2> HIDE DEF r
  <2>2. Tells(r, env, i)
    BY <2>1 DEF Tells, ByIdentity
  <2>3. QED
    BY <2>1, <2>2
<1>4. TickSizeMessage(ctx, env, i, m) =
        IF m.bad # "no" THEN MessageFails(ctx, env, i) ELSE Emit(next, << r >>)
  BY DEF TickSizeMessage
<1> HIDE DEF next, r
<1>5. CASE m.bad # "no"
  BY <1>1, <1>4, <1>5, FailureHandles
<1>6. CASE m.bad = "no"
  <2>1. Handles(Emit(next, << r >>), ctx, env, i)
    BY <1>2, <1>3, EmitHandles
  <2>2. QED
    BY <1>4, <1>6, <2>1
<1>7. QED
  BY <1>5, <1>6

\* A handler that writes one row of a dataset, or fails.
LEMMA OneRowHandles ==
  ASSUME NEW ctx \in Contexts, NEW env \in RecordedEnvelope, NEW i \in DOMAIN env.msgs,
         env.msgs[i].type # "tick_size_change",
         NEW ds \in Datasets \ (ByIdentity \cup {"tick_size_changes"}),
         ds # "top_of_book" \/ env.msgs[i].token \in Traded,
         NEW x \in {MessageFails(ctx, env, i),
                    Emit(ctx, << Row(env, ds, i, 0, env.msgs[i].token, NoTick) >>)}
  PROVE  Handles(x, ctx, env, i)
<1> DEFINE t == env.msgs[i].token
           r == Row(env, ds, i, 0, t, NoTick)
<1>1. i \in Nat /\ 0 \in Nat /\ t \in Tokens \cup Conditions /\ NoTick \in Nat
  BY MessageFields DEF NoTick
<1>a. ds \in Datasets /\ (ds # "top_of_book" \/ t \in Traded)
  OBVIOUS
<1> HIDE DEF t
<1>2. r \in RowSet /\ r.ds = ds /\ r.key = <<env.id, i, 0>>
  BY <1>1, <1>a, RowIs
<1> HIDE DEF r
<1>3. Tells(r, env, i)
  BY <1>2 DEF Tells
<1>4. Handles(Emit(ctx, << r >>), ctx, env, i)
  BY <1>2, <1>3, EmitHandles
<1>5. Handles(MessageFails(ctx, env, i), ctx, env, i)
  BY <1>1, FailureHandles
<1>6. QED
  BY <1>4, <1>5 DEF r, t

LEMMA ClobMessageHandles ==
  ASSUME NEW ctx \in Contexts, NEW env \in RecordedEnvelope, NEW i \in DOMAIN env.msgs,
         env.form \in {"object", "list"}
  PROVE  Handles(ClobMessage(ctx, env, i, env.msgs[i]), ctx, env, i)
<1> DEFINE m == env.msgs[i]
<1>1. i \in Nat
  BY MessageFields
<1>2. CASE m.type = "book"
  <2>1. ClobMessage(ctx, env, i, m) = BookMessage(ctx, env, i, m)
    BY <1>2 DEF ClobMessage
  <2>2. QED
    BY <1>2, <2>1, BookHandles
<1>3. CASE m.type = "price_change"
  <2>1. ClobMessage(ctx, env, i, m) = PriceChangeMessage(ctx, env, i, m)
    BY <1>3 DEF ClobMessage
  <2>2. QED
    BY <1>3, <2>1, PriceChangeHandles
<1>4. CASE m.type = "last_trade_price"
  <2>1. ClobMessage(ctx, env, i, m) = TradeMessage(ctx, env, i, m)
    BY <1>4 DEF ClobMessage
  <2>2. QED
    BY <1>4, <2>1, TradeHandles
<1>5. CASE m.type = "tick_size_change"
  <2>1. ClobMessage(ctx, env, i, m) = TickSizeMessage(ctx, env, i, m)
    BY <1>5 DEF ClobMessage
  <2>2. QED
    BY <1>5, <2>1, TickSizeHandles
<1>6. CASE m.type = "market_resolved"
  <2>1. ClobMessage(ctx, env, i, m) = ResolutionMessage(ctx, env, i, m)
    BY <1>6 DEF ClobMessage
  <2>2. ResolutionMessage(ctx, env, i, m) \in
          {MessageFails(ctx, env, i),
           Emit(ctx, << Row(env, "market_resolutions", i, 0, m.token, NoTick) >>)}
    BY DEF ResolutionMessage
  <2>3. "market_resolutions" \in Datasets \ (ByIdentity \cup {"tick_size_changes", "top_of_book"})
    BY DEF Datasets, ByIdentity
  <2>4. QED
    BY <1>6, <2>1, <2>2, <2>3, OneRowHandles
<1>7. CASE m.type = "best_bid_ask"
  <2>1. ClobMessage(ctx, env, i, m) = BestBidAskMessage(ctx, env, i, m)
    BY <1>7 DEF ClobMessage
  <2>2. "top_of_book" \in Datasets \ (ByIdentity \cup {"tick_size_changes"})
    BY DEF Datasets, ByIdentity
  <2>3. CASE m.token \notin ctx.known \/ m.bad # "no"
    <3>1. BestBidAskMessage(ctx, env, i, m) = MessageFails(ctx, env, i)
      BY <2>3 DEF BestBidAskMessage
    <3>2. QED
      BY <1>1, <1>7, <2>1, <3>1, FailureHandles
  <2>4. CASE m.token \in ctx.known /\ m.bad = "no"
    <3>1. m.token \in Traded
      BY <2>4 DEF Contexts
    <3>2. BestBidAskMessage(ctx, env, i, m) =
            Emit(ctx, << Row(env, "top_of_book", i, 0, m.token, NoTick) >>)
      BY <2>4 DEF BestBidAskMessage
    <3>3. QED
      BY <1>7, <2>1, <2>2, <3>1, <3>2, OneRowHandles
  <2>5. QED
    BY <2>3, <2>4
<1>8. CASE m.type = "new_market"
  <2>1. ClobMessage(ctx, env, i, m) = ctx
    BY <1>8 DEF ClobMessage
  <2>2. Silent(env, i) /\ m.type # "tick_size_change"
    BY <1>8 DEF Silent
  <2>3. QED
    BY <2>1, <2>2 DEF Handles, Told, TickTold
<1>9. CASE m.type \notin {"book", "price_change", "last_trade_price", "tick_size_change",
                          "market_resolved", "best_bid_ask", "new_market"}
  <2>1. ClobMessage(ctx, env, i, m) = MessageFails(ctx, env, i)
    BY <1>9 DEF ClobMessage
  <2>2. m.type # "tick_size_change"
    BY <1>9
  <2>3. Handles(MessageFails(ctx, env, i), ctx, env, i)
    BY <1>1, <2>2, FailureHandles
  <2>4. QED
    BY <2>1, <2>3
<1>10. QED
  BY <1>2, <1>3, <1>4, <1>5, <1>6, <1>7, <1>8, <1>9

-----------------------------------------------------------------------------
(* Envelopes *)

\* The handling of envelope env, from ctx to x, loses nothing.
HandlesAll(x, ctx, env) ==
  /\ x \in Contexts /\ ToSet(ctx.rows) \subseteq ToSet(x.rows)
  /\ AllTold(ToSet(x.rows), env)

LEMMA OnlyIs ==
  ASSUME NEW x
  PROVE  Only({x}) = x
BY DEF Only

\* Only the market channel's messages tell of ticks.
LEMMA NoTicksElsewhere ==
  ASSUME NEW env \in RecordedEnvelope, WellFormed(env),
         \/ env.src # "clob_market_ws"
         \/ IsOperational(env)
         \/ env.form \notin {"object", "list"},
         NEW R, NEW i \in 1 .. Len(env.msgs)
  PROVE  /\ TickTold(R, env, i) /\ env.msgs[i].type # "tick_size_change"
         /\ i \in DOMAIN env.msgs /\ i \in Nat
<1>1. env.msgs \in Seq(Message)
  BY DEF RecordedEnvelope
<1>2. i \in DOMAIN env.msgs /\ i \in Nat
  BY <1>1, LenProperties
<1>3. env.msgs[i].type # "tick_size_change"
  BY <1>2 DEF WellFormed
<1>4. QED
  BY <1>2, <1>3 DEF TickTold

\* The contexts the messages are handled in, one after the other.
ClobRuns(ctx, env) ==
  {parsed \in [0 .. Len(env.msgs) -> Contexts] :
     /\ parsed[0] = ctx
     /\ \A i \in 1 .. Len(env.msgs) : parsed[i] = ClobMessage(parsed[i - 1], env, i, env.msgs[i])}

LEMMA ParseClobRuns ==
  ASSUME NEW ctx \in Contexts, NEW env \in RecordedEnvelope, env.form \in {"object", "list"}
  PROVE  \E parsed \in ClobRuns(ctx, env) : ParseClob(ctx, env) = parsed[Len(env.msgs)]
<1> DEFINE n == Len(env.msgs)
           Parses(g) == g = [i \in 0 .. n |->
              IF i = 0 THEN ctx
              ELSE Only({ClobMessage(c, env, i, env.msgs[i]) : c \in {g[i - 1]}})]
           parsed == CHOOSE g : Parses(g)
           step == [i \in 1 .. n |-> [c \in Contexts |-> ClobMessage(c, env, i, env.msgs[i])]]
<1>1. n \in Nat /\ DOMAIN env.msgs = 1 .. n
  <2>1. env.msgs \in Seq(Message)
    BY DEF RecordedEnvelope
  <2>2. QED
    BY <2>1, LenProperties
<1>2. ParseClob(ctx, env) = parsed[n]
  BY DEF ParseClob
<1>3. \A i \in 1 .. n, c \in Contexts : ClobMessage(c, env, i, env.msgs[i]) \in Contexts
  BY <1>1, ClobMessageHandles DEF Handles
<1>4. step \in [1 .. n -> [Contexts -> Contexts]]
  BY <1>3
<1>5. PICK f \in Recursions(n, Contexts, ctx, step) : TRUE
  <2> HIDE DEF step, n
  <2>1. QED
    BY <1>1, <1>4, RecursionExists
<1>6. f \in [0 .. n -> Contexts] /\ f[0] = ctx /\ \A k \in 1 .. n : f[k] = step[k][f[k - 1]]
  BY <1>5 DEF Recursions
<1>7. ASSUME NEW i \in 0 .. n
      PROVE  f[i] = IF i = 0 THEN ctx
                    ELSE Only({ClobMessage(c, env, i, env.msgs[i]) : c \in {f[i - 1]}})
  <2>1. CASE i = 0
    BY <1>6, <2>1
  <2>2. CASE i # 0
    <3>1. i \in 1 .. n /\ i - 1 \in 0 .. n
      BY <1>1, <2>2
    <3>2. f[i - 1] \in Contexts /\ f[i] = step[i][f[i - 1]]
      BY <1>6, <3>1
    <3>3. f[i] = ClobMessage(f[i - 1], env, i, env.msgs[i])
      BY <3>1, <3>2
    <3>4. {ClobMessage(c, env, i, env.msgs[i]) : c \in {f[i - 1]}}
            = {ClobMessage(f[i - 1], env, i, env.msgs[i])}
      OBVIOUS
    <3>5. QED
      BY <2>2, <3>3, <3>4, OnlyIs
  <2>3. QED
    BY <2>1, <2>2
<1>8. Parses(f)
  BY <1>6, <1>7
<1>9. Parses(parsed)
  BY <1>8
<1> HIDE DEF parsed
<1>10. parsed[0] = ctx
  BY <1>1, <1>9
<1>11. ASSUME NEW i \in 1 .. n
       PROVE  parsed[i] = ClobMessage(parsed[i - 1], env, i, env.msgs[i])
  <2>1. parsed[i] = Only({ClobMessage(c, env, i, env.msgs[i]) : c \in {parsed[i - 1]}})
    <3>1. i \in 0 .. n /\ i # 0
      BY <1>1
    <3>2. QED
      BY <1>9, <3>1
  <2>2. {ClobMessage(c, env, i, env.msgs[i]) : c \in {parsed[i - 1]}}
          = {ClobMessage(parsed[i - 1], env, i, env.msgs[i])}
    OBVIOUS
  <2>3. QED
    BY <2>1, <2>2, OnlyIs
<1>12. parsed = [i \in 0 .. n |-> parsed[i]]
  BY <1>9
<1> HIDE DEF Parses, step
<1> DEFINE P == {k \in 0 .. n : parsed[k] \in Contexts}
<1>13. \A k \in 0 .. n : k \in P
  <2>1. 0 \in P
    BY <1>1, <1>10
  <2>2. ASSUME NEW k \in 0 .. n - 1, k \in P PROVE k + 1 \in P
    <3>1. k + 1 \in 1 .. n /\ k + 1 \in 0 .. n /\ (k + 1) - 1 = k
      BY <1>1
    <3>2. parsed[k + 1] = ClobMessage(parsed[k], env, k + 1, env.msgs[k + 1])
      BY <1>11, <3>1
    <3>3. QED
      BY <1>3, <2>2, <3>1, <3>2
  <2> HIDE DEF P, n
  <2>3. QED
    BY <1>1, <2>1, <2>2, IntervalInduction
<1>14. parsed \in [0 .. n -> Contexts]
  BY <1>12, <1>13
<1>15. QED
  BY <1>2, <1>10, <1>11, <1>14 DEF ClobRuns

LEMMA ParseClobHandles ==
  ASSUME NEW ctx \in Contexts, NEW env \in RecordedEnvelope, WellFormed(env),
         env.src = "clob_market_ws", ~IsOperational(env)
  PROVE  HandlesAll(ParseClob(ctx, env), ctx, env)
<1>1. env.form \in {"object", "list", "pong", "empty", "garbage"} /\ env.msgs \in Seq(Message)
  BY DEF RecordedEnvelope
<1>2. CASE env.form = "pong"
  <2>1. ParseClob(ctx, env) = ctx
    BY <1>2 DEF ParseClob
  <2>2. ASSUME NEW i \in 1 .. Len(env.msgs)
        PROVE  Told(ToSet(ctx.rows), env, i) /\ TickTold(ToSet(ctx.rows), env, i)
    <3>1. TickTold(ToSet(ctx.rows), env, i)
      BY <1>2, NoTicksElsewhere
    <3>2. Silent(env, i)
      BY <1>2 DEF Silent
    <3>3. QED
      BY <3>1, <3>2 DEF Told
  <2>3. QED
    BY <2>1, <2>2 DEF HandlesAll, AllTold
<1>3. CASE env.form \in {"garbage", "empty"}
  <2> DEFINE x == MessageFails(ctx, env, 0)
  <2>1. ParseClob(ctx, env) = x
    BY <1>3 DEF ParseClob
  <2>2. /\ x \in Contexts /\ ToSet(x.rows) = ToSet(ctx.rows) \cup {Quality(env, 0, 0)}
        /\ \A k \in Nat : Tells(Quality(env, 0, 0), env, k)
    BY FailureTells
  <2> HIDE DEF x
  <2>3. ASSUME NEW i \in 1 .. Len(env.msgs)
        PROVE  Told(ToSet(x.rows), env, i) /\ TickTold(ToSet(x.rows), env, i)
    <3>1. TickTold(ToSet(x.rows), env, i) /\ i \in Nat
      BY <1>3, NoTicksElsewhere
    <3>2. QED
      BY <2>2, <3>1 DEF Told
  <2>4. QED
    BY <2>1, <2>2, <2>3 DEF HandlesAll, AllTold
<1>4. CASE env.form \in {"object", "list"}
  <2> DEFINE n == Len(env.msgs)
  <2>1. n \in Nat /\ DOMAIN env.msgs = 1 .. n
    BY <1>1, LenProperties
  <2>2. PICK parsed \in ClobRuns(ctx, env) : ParseClob(ctx, env) = parsed[n]
    BY <1>4, ParseClobRuns
  <2> DEFINE Done == {k \in 0 .. n :
                        /\ ToSet(ctx.rows) \subseteq ToSet(parsed[k].rows)
                        /\ \A i \in 1 .. k : Told(ToSet(parsed[k].rows), env, i)
                                             /\ TickTold(ToSet(parsed[k].rows), env, i)}
  <2>3. \A i \in 1 .. n, c \in Contexts : Handles(ClobMessage(c, env, i, env.msgs[i]), c, env, i)
    BY <1>4, <2>1, ClobMessageHandles
  <2>8. /\ parsed \in [0 .. n -> Contexts] /\ parsed[0] = ctx
        /\ \A i \in 1 .. n : parsed[i] = ClobMessage(parsed[i - 1], env, i, env.msgs[i])
    BY <2>2 DEF ClobRuns
  <2>9. 0 \in Done
    BY <2>1, <2>8
  <2>10. ASSUME NEW k \in 0 .. n - 1, k \in Done PROVE k + 1 \in Done
    <3>1. k + 1 \in 1 .. n /\ k + 1 \in 0 .. n /\ (k + 1) - 1 = k
      BY <2>1
    <3>2. parsed[k] \in Contexts /\ ToSet(ctx.rows) \subseteq ToSet(parsed[k].rows)
      BY <2>1, <2>8, <2>10
    <3>3. parsed[k + 1] = ClobMessage(parsed[k], env, k + 1, env.msgs[k + 1])
      BY <2>8, <3>1
    <3>4. Handles(parsed[k + 1], parsed[k], env, k + 1)
      BY <2>3, <3>1, <3>2, <3>3
    <3>5. /\ parsed[k + 1] \in Contexts /\ ToSet(parsed[k].rows) \subseteq ToSet(parsed[k + 1].rows)
          /\ Told(ToSet(parsed[k + 1].rows), env, k + 1)
          /\ TickTold(ToSet(parsed[k + 1].rows), env, k + 1)
      BY <3>4 DEF Handles
    <3>6. ASSUME NEW i \in 1 .. k + 1
          PROVE  Told(ToSet(parsed[k + 1].rows), env, i) /\ TickTold(ToSet(parsed[k + 1].rows), env, i)
      <4>1. CASE i = k + 1
        BY <3>5, <4>1
      <4>2. CASE i # k + 1
        <5>1. i \in 1 .. k
          BY <2>1, <4>2
        <5>2. Told(ToSet(parsed[k].rows), env, i) /\ TickTold(ToSet(parsed[k].rows), env, i)
          BY <2>10, <5>1
        <5>3. QED
          BY <3>5, <5>2, ToldByMore
      <4>3. QED
        BY <4>1, <4>2
    <3>7. ToSet(ctx.rows) \subseteq ToSet(parsed[k + 1].rows)
      BY <3>2, <3>5
    <3>8. QED
      BY <3>1, <3>5, <3>6, <3>7
  <2> HIDE DEF Done
  <2>11. \A k \in 0 .. n : k \in Done
    <3> HIDE DEF n
    <3>1. QED
      BY <2>1, <2>9, <2>10, IntervalInduction
  <2>12. n \in Done
    BY <2>1, <2>11
  <2>13. QED
    BY <2>1, <2>2, <2>8, <2>12 DEF Done, HandlesAll, AllTold
<1>5. QED
  BY <1>1, <1>2, <1>3, <1>4

\* A row that tells of the only message, or of the envelope as a whole.
LEMMA RowHandlesAll ==
  ASSUME NEW ctx \in Contexts, NEW x \in Contexts, ToSet(ctx.rows) \subseteq ToSet(x.rows),
         NEW env \in RecordedEnvelope, WellFormed(env),
         \/ env.src # "clob_market_ws"
         \/ IsOperational(env)
         \/ env.form \notin {"object", "list"},
         NEW r \in ToSet(x.rows),
         \A i \in Nat : (env.form = "object" => i = 1) => Tells(r, env, i)
  PROVE  HandlesAll(x, ctx, env)
<1>1. ASSUME NEW i \in 1 .. Len(env.msgs)
      PROVE  Told(ToSet(x.rows), env, i) /\ TickTold(ToSet(x.rows), env, i)
  <2>1. TickTold(ToSet(x.rows), env, i) /\ i \in Nat
    BY NoTicksElsewhere
  <2>2. env.form = "object" => i = 1
    <3>1. ASSUME env.form = "object" PROVE i = 1
      <4>1. Len(env.msgs) = 1
        BY <3>1 DEF WellFormed
      <4>2. i \in 1 .. 1
        BY <4>1
      <4>3. QED
        BY <4>2
    <3>2. QED
      BY <3>1
  <2>3. QED
    BY <2>1, <2>2 DEF Told
<1>2. QED
  BY <1>1 DEF HandlesAll, AllTold

LEMMA EnvelopeFailsHandles ==
  ASSUME NEW ctx \in Contexts, NEW next \in Contexts,
         ToSet(ctx.rows) \subseteq ToSet(next.rows),
         NEW env \in RecordedEnvelope, WellFormed(env),
         \/ env.src # "clob_market_ws"
         \/ IsOperational(env)
         \/ env.form \notin {"object", "list"}
  PROVE  HandlesAll(EnvelopeFails(next, env), ctx, env)
<1> DEFINE x == MessageFails(next, env, 0)
<1>1. EnvelopeFails(next, env) = x
  BY DEF EnvelopeFails, MessageFails
<1>2. /\ x \in Contexts /\ ToSet(x.rows) = ToSet(next.rows) \cup {Quality(env, 0, 0)}
      /\ \A k \in Nat : Tells(Quality(env, 0, 0), env, k)
  BY FailureTells
<1> HIDE DEF x
<1>3. ToSet(ctx.rows) \subseteq ToSet(x.rows) /\ Quality(env, 0, 0) \in ToSet(x.rows)
  BY <1>2
<1>4. HandlesAll(x, ctx, env)
  BY <1>2, <1>3, RowHandlesAll
<1>5. QED
  BY <1>1, <1>4

\* One row, of the envelope's only message.
LEMMA OneRowHandlesAll ==
  ASSUME NEW ctx \in Contexts, NEW env \in RecordedEnvelope, WellFormed(env),
         env.src # "clob_market_ws" \/ IsOperational(env),
         env.form = "object",
         NEW ds \in Datasets \ (ByIdentity \cup {"tick_size_changes", "top_of_book"}),
         NEW t \in Tokens \cup Conditions
  PROVE  HandlesAll(Emit(ctx, << Row(env, ds, 1, 0, t, NoTick) >>), ctx, env)
<1> DEFINE r == Row(env, ds, 1, 0, t, NoTick)
           one == << r >>
           x == Emit(ctx, one)
<1>1. NoTick \in Nat /\ 0 \in Nat /\ 1 \in Nat /\ ds \in Datasets
  BY DEF NoTick
<1>2. r \in RowSet /\ r.ds = ds /\ r.key = <<env.id, 1, 0>>
  <2>1. r \in RowSet
    BY <1>1, RowIs
  <2>2. QED
    BY <2>1 DEF Row
<1> HIDE DEF r
<1>3. Tells(r, env, 1)
  BY <1>2 DEF Tells
<1>4. one \in Seq(RowSet) /\ ToSet(one) = {r}
  BY <1>2, OneElement
<1> HIDE DEF one
<1>5. x \in Contexts /\ ToSet(x.rows) = ToSet(ctx.rows) \cup ToSet(one)
  BY <1>4, EmitIs
<1> HIDE DEF x
<1>6. r \in ToSet(x.rows) /\ ToSet(ctx.rows) \subseteq ToSet(x.rows)
  BY <1>4, <1>5
<1>7. \A i \in Nat : (env.form = "object" => i = 1) => Tells(r, env, i)
  BY <1>3
<1>8. HandlesAll(x, ctx, env)
  BY <1>5, <1>6, <1>7, RowHandlesAll
<1>9. QED
  BY <1>8 DEF x, one, r

\* An envelope all of whose messages are silent.
LEMMA SilentHandlesAll ==
  ASSUME NEW ctx \in Contexts, NEW env \in RecordedEnvelope, WellFormed(env),
         \/ env.src # "clob_market_ws"
         \/ IsOperational(env)
         \/ env.form \notin {"object", "list"},
         \A i \in 1 .. Len(env.msgs) : Silent(env, i)
  PROVE  HandlesAll(ctx, ctx, env)
<1>1. \A i \in 1 .. Len(env.msgs) : TickTold(ToSet(ctx.rows), env, i)
  BY NoTicksElsewhere
<1>2. QED
  BY <1>1 DEF HandlesAll, AllTold, Told

LEMMA ParseRtdsHandles ==
  ASSUME NEW ctx \in Contexts, NEW env \in RecordedEnvelope, WellFormed(env),
         env.src = "rtds", ~IsOperational(env)
  PROVE  HandlesAll(ParseRtds(ctx, env), ctx, env)
<1> DEFINE m == env.msgs[1]
<1>1. CASE env.form \in {"pong", "empty"}
  <2>1. ParseRtds(ctx, env) = ctx
    BY <1>1 DEF ParseRtds
  <2>2. \A i \in 1 .. Len(env.msgs) : Silent(env, i)
    BY <1>1 DEF Silent
  <2>3. QED
    BY <2>1, <2>2, SilentHandlesAll
<1>2. CASE env.form \notin {"pong", "empty", "object"}
  <2>1. ParseRtds(ctx, env) = EnvelopeFails(ctx, env)
    BY <1>2 DEF ParseRtds, EnvelopeFails, MessageFails
  <2>2. QED
    BY <2>1, EnvelopeFailsHandles
<1>3. CASE env.form = "object"
  <2>1. Len(env.msgs) = 1
    BY <1>3 DEF WellFormed
  <2>2. CASE m.type = "subscribe"
    <3>1. ParseRtds(ctx, env) = ctx
      BY <1>3, <2>2 DEF ParseRtds
    <3>2. \A i \in 1 .. Len(env.msgs) : Silent(env, i)
      BY <1>3, <2>1, <2>2 DEF Silent
    <3>3. QED
      BY <3>1, <3>2, SilentHandlesAll
  <2>3. CASE m.type = "update" /\ m.bad = "no"
    <3>1. ParseRtds(ctx, env) = Emit(ctx, << Row(env, "btc_prices", 1, 0, env.token, NoTick) >>)
      BY <1>3, <2>3 DEF ParseRtds
    <3>2. env.token \in Tokens \cup Conditions
          /\ "btc_prices" \in Datasets \ (ByIdentity \cup {"tick_size_changes", "top_of_book"})
      BY DEF RecordedEnvelope, Datasets, ByIdentity
    <3>3. QED
      BY <1>3, <3>1, <3>2, OneRowHandlesAll
  <2>4. CASE m.type # "subscribe" /\ ~(m.type = "update" /\ m.bad = "no")
    <3> DEFINE x == MessageFails(ctx, env, 1)
    <3>1. ParseRtds(ctx, env) = x
      BY <1>3, <2>4 DEF ParseRtds
    <3>2. /\ x \in Contexts /\ ToSet(x.rows) = ToSet(ctx.rows) \cup {Quality(env, 1, 0)}
          /\ Tells(Quality(env, 1, 0), env, 1)
      BY FailureTells
    <3> HIDE DEF x
    <3>3. Quality(env, 1, 0) \in ToSet(x.rows) /\ ToSet(ctx.rows) \subseteq ToSet(x.rows)
      BY <3>2
    <3>4. \A i \in Nat : (env.form = "object" => i = 1) => Tells(Quality(env, 1, 0), env, i)
      BY <1>3, <3>2
    <3>5. HandlesAll(x, ctx, env)
      BY <3>2, <3>3, <3>4, RowHandlesAll
    <3>6. QED
      BY <3>1, <3>5
  <2>5. QED
    BY <2>2, <2>3, <2>4
<1>4. QED
  BY <1>1, <1>2, <1>3

LEMMA OperationalHandles ==
  ASSUME NEW ctx \in Contexts, NEW env \in RecordedEnvelope, WellFormed(env), IsOperational(env)
  PROVE  HandlesAll(OperationalRow(ctx, env), ctx, env)
<1>1. env.token \in Tokens \cup Conditions
  BY DEF RecordedEnvelope
<1>2. CASE env.form # "object" \/ env.msgs[1].bad # "no"
  <2>1. OperationalRow(ctx, env) = EnvelopeFails(ctx, env)
    BY <1>2 DEF OperationalRow
  <2>2. QED
    BY <2>1, EnvelopeFailsHandles
<1>3. CASE env.form = "object" /\ env.msgs[1].bad = "no"
  <2> DEFINE ds == OperationalDataset[env.hint]
  <2>1. OperationalRow(ctx, env) = Emit(ctx, << Row(env, ds, 1, 0, env.token, NoTick) >>)
    BY <1>3 DEF OperationalRow
  <2>2. env.hint \in {"connection_event", "heartbeat_event", "rest_request", "data_quality_event"}
    BY DEF IsOperational, OperationalDataset
  <2>3. ds \in {"connection_events", "heartbeat_events", "rest_requests", "data_quality_events"}
    BY <2>2 DEF OperationalDataset
  <2>4. ds \in Datasets \ (ByIdentity \cup {"tick_size_changes", "top_of_book"})
    BY <2>3 DEF Datasets, ByIdentity
  <2> HIDE DEF ds
  <2>5. QED
    BY <1>1, <1>3, <2>1, <2>4, OneRowHandlesAll
<1>4. QED
  BY <1>2, <1>3

LEMMA RestHandles ==
  ASSUME NEW ctx \in Contexts, NEW env \in RecordedEnvelope, WellFormed(env),
         env.src = "clob_rest", ~IsOperational(env), NEW registered, env.cond \in registered
  PROVE  HandlesAll(RestRows(ctx, env, registered), ctx, env)
<1> DEFINE m == env.msgs[1]
<1>1. env.cond \in Conditions /\ env.token \in Tokens /\ env.msgs \in Seq(Message)
      /\ env.form \in {"object", "list", "pong", "empty", "garbage"}
  BY DEF RecordedEnvelope
<1>2. CASE env.hint \in {"clob_market_info", "clob_market_details"}
  <2>1. RestRows(ctx, env, registered) = RestMarketExecutionMetadata(ctx, env)
    BY <1>2 DEF RestRows
  <2>2. CASE env.form # "object" \/ m.bad # "no"
    <3>1. RestMarketExecutionMetadata(ctx, env) = EnvelopeFails(ctx, env)
      BY <2>2 DEF RestMarketExecutionMetadata
    <3>2. QED
      BY <2>1, <3>1, EnvelopeFailsHandles
  <2>3. CASE env.form = "object" /\ m.bad = "no"
    <3>1. RestMarketExecutionMetadata(ctx, env) =
            Emit(ctx, << Row(env, "market_execution_metadata", 1, 0, env.cond, NoTick) >>)
      BY <2>3 DEF RestMarketExecutionMetadata
    <3>2. env.cond \in Tokens \cup Conditions
          /\ "market_execution_metadata" \in Datasets \ (ByIdentity \cup {"tick_size_changes", "top_of_book"})
      BY <1>1 DEF Datasets, ByIdentity
    <3>3. QED
      BY <2>1, <2>3, <3>1, <3>2, OneRowHandlesAll
  <2>4. QED
    BY <2>2, <2>3
<1>3. CASE env.hint = "book"
  <2>1. RestRows(ctx, env, registered) = RestSnapshot(ctx, env, registered)
    BY <1>3 DEF RestRows
  <2>2. CASE env.form = "list"
    <3>1. RestSnapshot(ctx, env, registered) = ctx
      BY <2>2 DEF RestSnapshot
    <3>2. \A i \in 1 .. Len(env.msgs) : Silent(env, i)
      BY <2>2 DEF Silent
    <3>3. QED
      BY <2>1, <3>1, <3>2, SilentHandlesAll
  <2>3. CASE /\ env.form # "list"
             /\ \/ env.form # "object" \/ m.bad # "no"
                \/ env.token \notin ctx.known \cup TokensOf[env.cond]
    <3>1. RestSnapshot(ctx, env, registered) = EnvelopeFails(ctx, env)
      BY <2>3 DEF RestSnapshot
    <3>2. QED
      BY <2>1, <3>1, EnvelopeFailsHandles
  <2>4. CASE env.form = "object" /\ m.bad = "no" /\ env.token \in ctx.known \cup TokensOf[env.cond]
    <3>t. env.token \in Traded
      BY <1>1, <2>4 DEF Contexts, Traded
    <3> DEFINE rows == SnapshotRows(env, 1, env.token, m.tick)
               x == Emit(ctx, rows)
    <3>1. RestSnapshot(ctx, env, registered) = x
      BY <2>4 DEF RestSnapshot
    <3>2. m.tick \in Nat
      <4>1. Len(env.msgs) = 1
        BY <2>4 DEF WellFormed
      <4>2. 1 \in DOMAIN env.msgs
        BY <1>1, <4>1, LenProperties
      <4>3. QED
        BY <4>2, MessageFields
    <3>3. rows \in Seq(RowSet) /\ \E r \in ToSet(rows) : Tells(r, env, 1)
      BY <1>1, <3>t, <3>2, SnapshotRowsAre
    <3> HIDE DEF rows
    <3>4. x \in Contexts /\ ToSet(x.rows) = ToSet(ctx.rows) \cup ToSet(rows)
      BY <3>3, EmitIs
    <3> HIDE DEF x
    <3>5. PICK r \in ToSet(rows) : Tells(r, env, 1)
      BY <3>3
    <3>6. r \in ToSet(x.rows) /\ ToSet(ctx.rows) \subseteq ToSet(x.rows)
      BY <3>4
    <3>7. \A i \in Nat : (env.form = "object" => i = 1) => Tells(r, env, i)
      BY <2>4, <3>5
    <3>8. HandlesAll(x, ctx, env)
      BY <3>4, <3>6, <3>7, RowHandlesAll
    <3>9. QED
      BY <2>1, <3>1, <3>8
  <2>5. QED
    BY <2>2, <2>3, <2>4
<1>4. CASE env.hint \in RawOnly
  <2>1. env.hint \in {"books", "prices_history"}
    BY <1>4 DEF RawOnly
  <2>2. RestRows(ctx, env, registered) = ctx
    BY <2>1 DEF RestRows
  <2>3. \A i \in 1 .. Len(env.msgs) : Silent(env, i)
    BY <1>4 DEF Silent
  <2>4. QED
    BY <2>2, <2>3, SilentHandlesAll
<1>5. CASE env.hint \in DOMAIN OperationalDataset
  <2>1. env.form = "list"
    BY <1>5 DEF IsOperational
  <2>2. env.hint \in {"connection_event", "heartbeat_event", "rest_request", "data_quality_event"}
    BY <1>5 DEF OperationalDataset
  <2>3. RestRows(ctx, env, registered) = ctx
    BY <2>2 DEF RestRows
  <2>4. \A i \in 1 .. Len(env.msgs) : Silent(env, i)
    BY <2>1 DEF Silent
  <2>5. QED
    BY <2>3, <2>4, SilentHandlesAll
<1>6. QED
  BY <1>2, <1>3, <1>4, <1>5 DEF WellFormed

LEMMA GammaRowsAre ==
  ASSUME NEW env \in RecordedEnvelope, NEW i \in Nat, NEW c \in Conditions
  PROVE  /\ GammaRows(env, i, c) \in Seq(RowSet)
         /\ \E r \in ToSet(GammaRows(env, i, c)) : Tells(r, env, i)
<1> DEFINE m0 == Row(env, "markets", i, 0, c, NoTick)
           m == [m0 EXCEPT !.id = <<"market", c>>]
           a == Row(env, "market_execution_metadata", i, 0, c, NoTick)
           o0(j) == Row(env, "market_outcomes", i, j, c, NoTick)
           o(j) == [o0(j) EXCEPT !.id = <<"outcome", c, j>>]
           head == << m, a >>
           rest == [j \in 1 .. 2 |-> o(j)]
<1>1. /\ NoTick \in Nat /\ 0 \in Nat /\ c \in Tokens \cup Conditions
      /\ {"markets", "market_execution_metadata", "market_outcomes"}
           \subseteq Datasets \ {"top_of_book"}
      /\ \A j \in 1 .. 2 : j \in Nat
  BY DEF NoTick, Datasets
<1>2. m0 \in RowSet /\ a \in RowSet /\ \A j \in 1 .. 2 : o0(j) \in RowSet
  BY <1>1, RowIs
<1>3. a.ds = "market_execution_metadata" /\ a.key = <<env.id, i, 0>>
  BY DEF Row
<1>4. <<"market", c>> \in RowIds /\ \A j \in 1 .. 2 : <<"outcome", c, j>> \in RowIds
  BY <1>1 DEF RowIds
<1>5. m \in RowSet /\ \A j \in 1 .. 2 : o(j) \in RowSet
  <2>1. m0.ds = "markets" /\ \A j \in 1 .. 2 : o0(j).ds = "market_outcomes"
    BY DEF Row
  <2> HIDE DEF m0, o0
  <2>2. m \in RowSet
    BY <1>2, <1>4, <2>1 DEF RowSet, ByIdentity
  <2>3. ASSUME NEW j \in 1 .. 2 PROVE o(j) \in RowSet
    <3>1. o0(j) \in RowSet /\ <<"outcome", c, j>> \in RowIds /\ o0(j).ds = "market_outcomes"
      BY <1>2, <1>4, <2>1
    <3>2. QED
      BY <3>1 DEF RowSet, ByIdentity
  <2>4. QED
    BY <2>2, <2>3
<1>6. GammaRows(env, i, c) = head \o rest
  BY DEF GammaRows
<1> HIDE DEF m0, m, a, o0, o
<1>7. head \in Seq(RowSet) /\ a \in ToSet(head)
  <2>1. head \in Seq(RowSet)
    BY <1>2, <1>5
  <2>2. 2 \in DOMAIN head /\ head[2] = a
    OBVIOUS
  <2>3. QED
    BY <2>1, <2>2 DEF ToSet
<1>8. rest \in Seq(RowSet)
  BY <1>5
<1> HIDE DEF head, rest
<1>9. head \o rest \in Seq(RowSet) /\ a \in ToSet(head \o rest)
  BY <1>7, <1>8, ConcatIs
<1>10. Tells(a, env, i)
  BY <1>3 DEF Tells, ByIdentity
<1>11. QED
  BY <1>6, <1>9, <1>10

LEMMA MarketRowsHandle ==
  ASSUME NEW ctx \in Contexts, NEW env \in RecordedEnvelope, WellFormed(env), env.src = "gamma"
  PROVE  HandlesAll(MarketRows(ctx, env), ctx, env)
<1> DEFINE n == Len(env.msgs)
           matched == {i \in 1 .. n : env.msgs[i].type = "btc_15m"}
           failing  == {i \in matched : env.msgs[i].bad # "no"}
           read     == IF failing = {} THEN matched ELSE {i \in matched : i < Min(failing)}
           more     == UNION {TokensOf[env.msgs[i].cond] : i \in read}
           learnt   == [ctx EXCEPT !.known = @ \cup more]
           parts    == [k \in 1 .. n |->
                          IF k \in matched THEN GammaRows(env, k, env.msgs[k].cond) ELSE << >>]
           rows     == FlattenSeq(parts)
           x        == Emit(learnt, rows)
<1>1. env.msgs \in Seq(Message) /\ n \in Nat /\ DOMAIN env.msgs = 1 .. n
  <2>1. env.msgs \in Seq(Message)
    BY DEF RecordedEnvelope
  <2>2. QED
    BY <2>1, LenProperties
<1>2. \A i \in 1 .. n : i \in Nat /\ env.msgs[i].cond \in Conditions
  BY <1>1, MessageFields
<1>3. more \in SUBSET Traded
  <2>1. \A i \in read : i \in 1 .. n
    OBVIOUS
  <2>2. \A i \in read : TokensOf[env.msgs[i].cond] \in SUBSET Traded
    BY <1>2, <2>1 DEF Traded
  <2>3. QED
    BY <2>2
<1>4. learnt \in Contexts /\ learnt.rows = ctx.rows
  <2> HIDE DEF more
  <2>1. QED
    BY <1>3 DEF Contexts
<1>5. MarketRows(ctx, env) =
        IF env.form \notin {"object", "list"} THEN EnvelopeFails(ctx, env)
        ELSE IF failing # {} THEN EnvelopeFails(learnt, env) ELSE x
  BY DEF MarketRows
<1> HIDE DEF learnt, failing
<1>6. CASE env.form \notin {"object", "list"}
  BY <1>5, <1>6, EnvelopeFailsHandles
<1>7. CASE env.form \in {"object", "list"} /\ failing # {}
  <2>1. MarketRows(ctx, env) = EnvelopeFails(learnt, env)
    BY <1>5, <1>7
  <2>2. HandlesAll(EnvelopeFails(learnt, env), ctx, env)
    BY <1>4, EnvelopeFailsHandles
  <2>3. QED
    BY <2>1, <2>2
<1>8. CASE env.form \in {"object", "list"} /\ failing = {}
  <2>1. MarketRows(ctx, env) = x
    BY <1>5, <1>8
  <2>2. parts \in Seq(Seq(RowSet)) /\ DOMAIN parts = 1 .. n
    <3>1. \A k \in 1 .. n : parts[k] \in Seq(RowSet)
      <4>1. \A k \in 1 .. n : GammaRows(env, k, env.msgs[k].cond) \in Seq(RowSet)
        BY <1>2, GammaRowsAre
      <4>2. << >> \in Seq(RowSet)
        BY EmptySeq
      <4>3. QED
        BY <4>1, <4>2
    <3>2. parts \in [1 .. n -> Seq(RowSet)]
      BY <3>1
    <3> HIDE DEF parts
    <3>3. QED
      BY <1>1, <3>2, SeqDef
  <2>3. rows \in Seq(RowSet) /\ ToSet(rows) = UNION {ToSet(parts[k]) : k \in DOMAIN parts}
    <3> HIDE DEF parts
    <3>1. QED
      BY <2>2, FlattenIs
  <2>4. x \in Contexts /\ ToSet(x.rows) = ToSet(ctx.rows) \cup ToSet(rows)
    <3> HIDE DEF rows
    <3>1. QED
      BY <1>4, <2>3, EmitIs
  <2> HIDE DEF x, rows
  <2>5. ASSUME NEW i \in 1 .. n
        PROVE  Told(ToSet(x.rows), env, i) /\ TickTold(ToSet(x.rows), env, i)
    <3>1. TickTold(ToSet(x.rows), env, i)
      BY NoTicksElsewhere
    <3>2. env.msgs[i].type \in {"btc_15m", "other_event"}
      BY <1>1, <1>8 DEF WellFormed
    <3>3. CASE env.msgs[i].type = "other_event"
      <4>1. Silent(env, i)
        BY <1>8, <3>3 DEF Silent
      <4>2. QED
        BY <3>1, <4>1 DEF Told
    <3>4. CASE env.msgs[i].type = "btc_15m"
      <4>1. i \in matched /\ parts[i] = GammaRows(env, i, env.msgs[i].cond)
        BY <3>4
      <4>2. PICK r \in ToSet(GammaRows(env, i, env.msgs[i].cond)) : Tells(r, env, i)
        BY <1>2, GammaRowsAre
      <4>3. r \in ToSet(x.rows)
        BY <2>2, <2>3, <2>4, <4>1, <4>2
      <4>4. QED
        BY <3>1, <4>2, <4>3 DEF Told
    <3>5. QED
      BY <3>2, <3>3, <3>4
  <2>6. QED
    BY <2>1, <2>4, <2>5, <1>4 DEF HandlesAll, AllTold
<1>9. QED
  BY <1>6, <1>7, <1>8

LEMMA EnvelopeHandles ==
  ASSUME NEW ctx \in Contexts, NEW env \in RecordedEnvelope, WellFormed(env),
         NEW registered, env.cond \in registered
  PROVE  HandlesAll(EnvelopeRows(ctx, env, registered), ctx, env)
<1>1. env.src \in {"gamma", "clob_rest", "clob_market_ws", "rtds", "data_api", "internal"}
  BY DEF RecordedEnvelope
<1>2. CASE env.src = "gamma"
  <2>1. EnvelopeRows(ctx, env, registered) = MarketRows(ctx, env)
    BY <1>2 DEF EnvelopeRows
  <2>2. QED
    BY <1>2, <2>1, MarketRowsHandle
<1>3. CASE env.src \notin {"gamma", "data_api"} /\ IsOperational(env)
  <2>1. EnvelopeRows(ctx, env, registered) = OperationalRow(ctx, env)
    BY <1>3 DEF EnvelopeRows
  <2>2. QED
    BY <1>3, <2>1, OperationalHandles
<1>4. CASE env.src = "clob_rest" /\ ~IsOperational(env)
  <2>1. EnvelopeRows(ctx, env, registered) = RestRows(ctx, env, registered)
    BY <1>4 DEF EnvelopeRows
  <2>2. QED
    BY <1>4, <2>1, RestHandles
<1>5. CASE env.src = "clob_market_ws" /\ ~IsOperational(env)
  <2>1. EnvelopeRows(ctx, env, registered) = ParseClob(ctx, env)
    BY <1>5 DEF EnvelopeRows
  <2>2. QED
    BY <1>5, <2>1, ParseClobHandles
<1>6. CASE env.src = "rtds" /\ ~IsOperational(env)
  <2>1. EnvelopeRows(ctx, env, registered) = ParseRtds(ctx, env)
    BY <1>6 DEF EnvelopeRows
  <2>2. QED
    BY <1>6, <2>1, ParseRtdsHandles
<1>7. CASE env.src = "data_api" \/ (env.src = "internal" /\ ~IsOperational(env))
  <2>1. EnvelopeRows(ctx, env, registered) = ctx
    BY <1>7 DEF EnvelopeRows
  <2>2. \A i \in 1 .. Len(env.msgs) : Silent(env, i)
    BY <1>7 DEF Silent
  <2>3. env.src # "clob_market_ws"
    BY <1>7
  <2>4. QED
    BY <2>1, <2>2, <2>3, SilentHandlesAll
<1>8. QED
  BY <1>1, <1>2, <1>3, <1>4, <1>5, <1>6, <1>7

-----------------------------------------------------------------------------
(* Batches *)

WellFormedEnvelopes == {env \in RecordedEnvelope : WellFormed(env)}

LEMMA FilesAre ==
  ASSUME NEW f \in Files
  PROVE  /\ FileOf[f].closed \in Nat
         /\ FileOf[f].envelopes \in Seq(WellFormedEnvelopes)
         /\ DOMAIN FileOf[f].envelopes = 1 .. Len(FileOf[f].envelopes)
         /\ \A k \in 1 .. Len(FileOf[f].envelopes) :
              /\ FileOf[f].envelopes[k] \in RecordedEnvelope /\ WellFormed(FileOf[f].envelopes[k])
              /\ FileOf[f].envelopes[k].src = FileOf[f].src
              /\ FileOf[f].envelopes[k] \in ToSet(FileOf[f].envelopes)
<1> DEFINE envs == FileOf[f].envelopes
<1>1. envs \in Seq(WellFormedEnvelopes) /\ FileOf[f].closed \in Nat
      /\ \A k \in DOMAIN envs : envs[k].src = FileOf[f].src
  BY NormalizerAssumption DEF WellFormedEnvelopes
<1>2. DOMAIN envs = 1 .. Len(envs) /\ \A k \in 1 .. Len(envs) : envs[k] \in WellFormedEnvelopes
  BY <1>1, LenProperties, ElementOfSeq
<1>3. QED
  BY <1>1, <1>2 DEF WellFormedEnvelopes, ToSet

LEMMA MessagesAre ==
  ASSUME NEW f \in Files, NEW m \in MessagesOf(f)
  PROVE  /\ m[1] \in RecordedEnvelope /\ WellFormed(m[1]) /\ m[1].src = FileOf[f].src
         /\ m[1] \in ToSet(FileOf[f].envelopes) /\ m[2] \in 1 .. Len(m[1].msgs)
<1>1. PICK k \in 1 .. Len(FileOf[f].envelopes) :
        \E i \in 1 .. Len(FileOf[f].envelopes[k].msgs) : m = <<FileOf[f].envelopes[k], i>>
  BY DEF MessagesOf
<1>2. QED
  BY <1>1, FilesAre

LEMMA EnvelopesAre ==
  ASSUME NEW entries \in Seq(Files)
  PROVE  /\ Envelopes(entries) \in Seq(WellFormedEnvelopes)
         /\ ToSet(Envelopes(entries)) = UNION {ToSet(FileOf[f].envelopes) : f \in ToSet(entries)}
<1> DEFINE parts == [k \in 1 .. Len(entries) |-> FileOf[entries[k]].envelopes]
<1>1. Len(entries) \in Nat /\ DOMAIN entries = 1 .. Len(entries)
      /\ \A k \in 1 .. Len(entries) : entries[k] \in Files
  BY LenProperties, ElementOfSeq
<1>2. parts \in [1 .. Len(entries) -> Seq(WellFormedEnvelopes)]
  BY <1>1, FilesAre
<1>3. Envelopes(entries) = FlattenSeq(parts)
  BY DEF Envelopes
<1>4. \A k \in 1 .. Len(entries) : parts[k] = FileOf[entries[k]].envelopes
  OBVIOUS
<1>5. DOMAIN parts = 1 .. Len(entries)
  OBVIOUS
<1> HIDE DEF parts
<1>6. parts \in Seq(Seq(WellFormedEnvelopes))
  BY <1>1, <1>2, SeqDef
<1>7. /\ FlattenSeq(parts) \in Seq(WellFormedEnvelopes)
      /\ ToSet(FlattenSeq(parts)) = UNION {ToSet(parts[k]) : k \in DOMAIN parts}
  BY <1>6, FlattenIs
<1>8. UNION {ToSet(parts[k]) : k \in DOMAIN parts}
        = UNION {ToSet(FileOf[f].envelopes) : f \in ToSet(entries)}
  BY <1>1, <1>4, <1>5 DEF ToSet
<1>9. QED
  BY <1>3, <1>7, <1>8

\* Every market's registry entry is there.
Registry == [Conditions -> {"active", "inactive"}]

LEMMA RegistryIs ==
  ASSUME registry \in Registry
  PROVE  Registered = Conditions /\ KnownTokens \in SUBSET Traded
<1>1. Registered = Conditions
  BY DEF Registered, Registry
<1>2. QED
  BY <1>1 DEF KnownTokens, Traded

\* The contexts the envelopes are handled in, one after the other.
BatchRuns(envs) ==
  {parsed \in [0 .. Len(envs) -> Contexts] :
     /\ parsed[0] = Context(<< >>, NoTicks, KnownTokens)
     /\ \A k \in 1 .. Len(envs) : parsed[k] = EnvelopeRows(parsed[k - 1], envs[k], Registered)}

LEMMA ParsedRuns ==
  ASSUME NEW entries \in Seq(Files), registry \in Registry
  PROVE  \E parsed \in BatchRuns(Envelopes(entries)) :
           Parsed(entries) = parsed[Len(Envelopes(entries))].rows
<1> DEFINE envs == Envelopes(entries)
           n == Len(envs)
           start == Context(<< >>, NoTicks, KnownTokens)
           Parses(g) == g = [k \in 0 .. n |->
              IF k = 0 THEN start
              ELSE Only({EnvelopeRows(ctx, envs[k], Registered) : ctx \in {g[k - 1]}})]
           parsed == CHOOSE g : Parses(g)
           step == [k \in 1 .. n |-> [c \in Contexts |-> EnvelopeRows(c, envs[k], Registered)]]
<1>1. n \in Nat /\ \A k \in 1 .. n : envs[k] \in RecordedEnvelope /\ WellFormed(envs[k])
                                     /\ envs[k].cond \in Registered
  <2>1. envs \in Seq(WellFormedEnvelopes)
    BY EnvelopesAre
  <2> HIDE DEF envs
  <2>2. n \in Nat /\ \A k \in 1 .. n : envs[k] \in WellFormedEnvelopes
    BY <2>1, LenProperties, ElementOfSeq
  <2>3. QED
    BY <2>2, RegistryIs DEF WellFormedEnvelopes, RecordedEnvelope
<1>2. start \in Contexts
  <2>1. << >> \in Seq(RowSet) /\ NoTicks \in [Tokens -> Nat]
    BY EmptySeq DEF NoTicks, NoTick
  <2>2. QED
    BY <2>1, RegistryIs DEF Context, Contexts
<1>3. Parsed(entries) = parsed[n].rows
  BY DEF Parsed
<1> HIDE DEF envs, start
<1>4. \A k \in 1 .. n, c \in Contexts : EnvelopeRows(c, envs[k], Registered) \in Contexts
  BY <1>1, EnvelopeHandles DEF HandlesAll
<1>5. step \in [1 .. n -> [Contexts -> Contexts]]
  BY <1>4
<1>6. PICK f \in Recursions(n, Contexts, start, step) : TRUE
  <2> HIDE DEF step, n
  <2>1. QED
    BY <1>1, <1>2, <1>5, RecursionExists
<1>7. f \in [0 .. n -> Contexts] /\ f[0] = start /\ \A k \in 1 .. n : f[k] = step[k][f[k - 1]]
  BY <1>6 DEF Recursions
<1>8. ASSUME NEW k \in 0 .. n
      PROVE  f[k] = IF k = 0 THEN start
                    ELSE Only({EnvelopeRows(c, envs[k], Registered) : c \in {f[k - 1]}})
  <2>1. CASE k = 0
    BY <1>7, <2>1
  <2>2. CASE k # 0
    <3>1. k \in 1 .. n /\ k - 1 \in 0 .. n
      BY <1>1, <2>2
    <3>2. f[k - 1] \in Contexts /\ f[k] = step[k][f[k - 1]]
      BY <1>7, <3>1
    <3>3. f[k] = EnvelopeRows(f[k - 1], envs[k], Registered)
      BY <3>1, <3>2
    <3>4. {EnvelopeRows(c, envs[k], Registered) : c \in {f[k - 1]}}
            = {EnvelopeRows(f[k - 1], envs[k], Registered)}
      OBVIOUS
    <3>5. QED
      BY <2>2, <3>3, <3>4, OnlyIs
  <2>3. QED
    BY <2>1, <2>2
<1>9. Parses(f)
  BY <1>7, <1>8
<1>10. Parses(parsed)
  BY <1>9
<1> HIDE DEF parsed
<1>11. parsed[0] = start
  BY <1>1, <1>10
<1>12. ASSUME NEW k \in 1 .. n
       PROVE  parsed[k] = EnvelopeRows(parsed[k - 1], envs[k], Registered)
  <2>1. parsed[k] = Only({EnvelopeRows(c, envs[k], Registered) : c \in {parsed[k - 1]}})
    <3>1. k \in 0 .. n /\ k # 0
      BY <1>1
    <3>2. QED
      BY <1>10, <3>1
  <2>2. {EnvelopeRows(c, envs[k], Registered) : c \in {parsed[k - 1]}}
          = {EnvelopeRows(parsed[k - 1], envs[k], Registered)}
    OBVIOUS
  <2>3. QED
    BY <2>1, <2>2, OnlyIs
<1>13. parsed = [k \in 0 .. n |-> parsed[k]]
  BY <1>10
<1> HIDE DEF Parses, step
<1> DEFINE P == {k \in 0 .. n : parsed[k] \in Contexts}
<1>14. \A k \in 0 .. n : k \in P
  <2>1. 0 \in P
    BY <1>1, <1>2, <1>11
  <2>2. ASSUME NEW k \in 0 .. n - 1, k \in P PROVE k + 1 \in P
    <3>1. k + 1 \in 1 .. n /\ k + 1 \in 0 .. n /\ (k + 1) - 1 = k
      BY <1>1
    <3>2. parsed[k + 1] = EnvelopeRows(parsed[k], envs[k + 1], Registered)
      BY <1>12, <3>1
    <3>3. QED
      BY <1>4, <2>2, <3>1, <3>2
  <2> HIDE DEF P, n
  <2>3. QED
    BY <1>1, <2>1, <2>2, IntervalInduction
<1>15. parsed \in [0 .. n -> Contexts]
  BY <1>13, <1>14
<1>16. parsed \in BatchRuns(envs)
  BY <1>11, <1>12, <1>15 DEF BatchRuns, start
<1>17. QED
  BY <1>3, <1>16 DEF envs

\* Every message of the files is told by the rows they are parsed to.
LEMMA ParsedTells ==
  ASSUME NEW entries \in Seq(Files), registry \in Registry
  PROVE  /\ Parsed(entries) \in Seq(RowSet)
         /\ \A env \in ToSet(Envelopes(entries)) : AllTold(ToSet(Parsed(entries)), env)
<1> DEFINE envs == Envelopes(entries)
           n == Len(envs)
<1>1. n \in Nat /\ DOMAIN envs = 1 .. n
      /\ \A k \in 1 .. n : envs[k] \in RecordedEnvelope /\ WellFormed(envs[k])
                           /\ envs[k].cond \in Registered
  <2>1. envs \in Seq(WellFormedEnvelopes)
    BY EnvelopesAre
  <2> HIDE DEF envs
  <2>2. n \in Nat /\ DOMAIN envs = 1 .. n /\ \A k \in 1 .. n : envs[k] \in WellFormedEnvelopes
    BY <2>1, LenProperties, ElementOfSeq
  <2>3. QED
    BY <2>2, RegistryIs DEF WellFormedEnvelopes, RecordedEnvelope
<1>2. PICK parsed \in BatchRuns(envs) : Parsed(entries) = parsed[n].rows
  BY ParsedRuns
<1> HIDE DEF envs
<1>3. /\ parsed \in [0 .. n -> Contexts]
      /\ \A k \in 1 .. n : parsed[k] = EnvelopeRows(parsed[k - 1], envs[k], Registered)
  BY <1>2 DEF BatchRuns
<1> DEFINE P == {k \in 0 .. n : \A l \in 1 .. k : AllTold(ToSet(parsed[k].rows), envs[l])}
<1>4. 0 \in P
  BY <1>1
<1>5. ASSUME NEW k \in 0 .. n - 1, k \in P PROVE k + 1 \in P
  <2>1. k + 1 \in 1 .. n /\ k + 1 \in 0 .. n /\ (k + 1) - 1 = k /\ k \in 0 .. n
    BY <1>1
  <2>2. parsed[k] \in Contexts /\ parsed[k + 1] = EnvelopeRows(parsed[k], envs[k + 1], Registered)
    BY <1>3, <2>1
  <2>3. HandlesAll(parsed[k + 1], parsed[k], envs[k + 1])
    BY <1>1, <2>1, <2>2, EnvelopeHandles
  <2>4. /\ ToSet(parsed[k].rows) \subseteq ToSet(parsed[k + 1].rows)
        /\ AllTold(ToSet(parsed[k + 1].rows), envs[k + 1])
    BY <2>3 DEF HandlesAll
  <2>5. ASSUME NEW l \in 1 .. k + 1 PROVE AllTold(ToSet(parsed[k + 1].rows), envs[l])
    <3>1. CASE l = k + 1
      BY <2>4, <3>1
    <3>2. CASE l # k + 1
      <4>1. l \in 1 .. k
        BY <1>1, <3>2
      <4>2. AllTold(ToSet(parsed[k].rows), envs[l])
        BY <1>5, <4>1
      <4>3. QED
        BY <2>4, <4>2, ToldByMore DEF AllTold
    <3>3. QED
      BY <3>1, <3>2
  <2>6. QED
    BY <2>1, <2>5
<1> HIDE DEF P
<1>6. \A k \in 0 .. n : k \in P
  <2> HIDE DEF n
  <2>1. QED
    BY <1>1, <1>4, <1>5, IntervalInduction
<1>7. n \in P /\ n \in 0 .. n
  BY <1>1, <1>6
<1>8. parsed[n] \in Contexts /\ \A k \in 1 .. n : AllTold(ToSet(parsed[n].rows), envs[k])
  BY <1>3, <1>7 DEF P
<1>9. QED
  BY <1>1, <1>2, <1>8 DEF envs, Contexts, ToSet

\* What a batch keeps of its rows: all but those replaced by identity, a tick
\* of each id and a trade of each id.
LEMMA DeduplicatedKeeps ==
  ASSUME NEW rows \in Seq(RowSet)
  PROVE  /\ Deduplicated(rows) \subseteq ToSet(rows)
         /\ \A r \in ToSet(rows) : r.ds \notin ByIdentity \cup {"tick_size_changes"}
                                     => r \in Deduplicated(rows)
         /\ \A r \in ToSet(rows) : r.ds \in {"tick_size_changes", "trades"} =>
              \E s \in Deduplicated(rows) : s.ds = r.ds /\ s.id = r.id
<1> DEFINE n == Len(rows)
           replaced(k) == \E l \in k+1 .. n : rows[l].ds = rows[k].ds /\ rows[l].id = rows[k].id
           repeated(k) == \E l \in 1 .. k-1 : rows[l].ds = "trades" /\ rows[l].id = rows[k].id
           kept(k) == CASE rows[k].ds \in {"markets", "market_outcomes", "tick_size_changes"} -> ~replaced(k)
                        [] rows[k].ds = "trades" -> ~repeated(k)
                        [] OTHER -> TRUE
<1>1. n \in Nat /\ DOMAIN rows = 1 .. n
  BY LenProperties
<1>2. Deduplicated(rows) = {rows[k] : k \in {j \in 1 .. n : kept(j)}}
  BY DEF Deduplicated
<1>3. \A k \in 1 .. n : kept(k) => rows[k] \in Deduplicated(rows)
  <2> HIDE DEF kept
  <2>1. QED
    BY <1>2
<1>4. Deduplicated(rows) \subseteq ToSet(rows)
  <2> HIDE DEF kept
  <2>1. QED
    BY <1>1, <1>2 DEF ToSet
<1>5. ASSUME NEW k \in 1 .. n, rows[k].ds \notin ByIdentity \cup {"tick_size_changes"}
      PROVE  rows[k] \in Deduplicated(rows)
  <2>1. rows[k].ds \notin {"markets", "market_outcomes", "tick_size_changes"} /\ rows[k].ds # "trades"
    BY <1>5 DEF ByIdentity
  <2>2. kept(k)
    BY <2>1
  <2>3. QED
    BY <1>3, <2>2
<1>6. ASSUME NEW k \in 1 .. n, rows[k].ds = "tick_size_changes"
      PROVE  \E s \in Deduplicated(rows) : s.ds = rows[k].ds /\ s.id = rows[k].id
  <2> DEFINE same == {l \in 1 .. n : rows[l].ds = rows[k].ds /\ rows[l].id = rows[k].id}
             last == Max(same)
  <2>1. same \in SUBSET Int /\ IsFiniteSet(same) /\ k \in same
    <3>1. IsFiniteSet(1 .. n)
      BY <1>1, FS_Interval
    <3>2. QED
      BY <1>1, <3>1, FS_Subset
  <2> HIDE DEF same
  <2>2. last \in same /\ \A l \in same : l <= last
    BY <2>1, MaxIsGreatest
  <2> HIDE DEF last
  <2>3. last \in 1 .. n /\ rows[last].ds = rows[k].ds /\ rows[last].id = rows[k].id
    BY <2>2 DEF same
  <2>4. ~replaced(last)
    <3>1. SUFFICES ASSUME NEW l \in last+1 .. n,
                          rows[l].ds = rows[last].ds, rows[l].id = rows[last].id
                   PROVE  FALSE
      OBVIOUS
    <3>2. l \in 1 .. n /\ ~(l <= last)
      BY <1>1, <2>3
    <3>3. l \in same
      BY <2>3, <3>1, <3>2 DEF same
    <3>4. QED
      BY <2>2, <3>2, <3>3
  <2>5. kept(last)
    <3> HIDE DEF replaced
    <3>1. QED
      BY <1>6, <2>3, <2>4
  <2>6. QED
    BY <1>3, <2>3, <2>5
<1>7. ASSUME NEW k \in 1 .. n, rows[k].ds = "trades"
      PROVE  \E s \in Deduplicated(rows) : s.ds = rows[k].ds /\ s.id = rows[k].id
  <2> DEFINE same == {l \in 1 .. n : rows[l].ds = "trades" /\ rows[l].id = rows[k].id}
             first == Min(same)
  <2>1. same \in SUBSET Int /\ IsFiniteSet(same) /\ k \in same
    <3>1. IsFiniteSet(1 .. n)
      BY <1>1, FS_Interval
    <3>2. QED
      BY <1>1, <1>7, <3>1, FS_Subset
  <2>a. same # {}
    BY <2>1
  <2> HIDE DEF same
  <2>2. first \in same /\ \A l \in same : first <= l
    BY <2>1, <2>a, MinIsLeast
  <2> HIDE DEF first
  <2>3. first \in 1 .. n /\ rows[first].ds = "trades" /\ rows[first].id = rows[k].id
    BY <2>2 DEF same
  <2>4. ~repeated(first)
    <3>1. SUFFICES ASSUME NEW l \in 1 .. first - 1,
                          rows[l].ds = "trades", rows[l].id = rows[first].id
                   PROVE  FALSE
      OBVIOUS
    <3>2. l \in 1 .. n /\ ~(first <= l)
      BY <1>1, <2>3
    <3>3. l \in same
      BY <2>3, <3>1, <3>2 DEF same
    <3>4. QED
      BY <2>2, <3>2, <3>3
  <2>5. kept(first)
    <3> HIDE DEF repeated
    <3>1. QED
      BY <2>3, <2>4
  <2>6. QED
    BY <1>3, <1>7, <2>3, <2>5
<1> HIDE DEF kept
<1>8. ASSUME NEW r \in ToSet(rows), r.ds \notin ByIdentity \cup {"tick_size_changes"}
      PROVE  r \in Deduplicated(rows)
  <2>1. PICK k \in 1 .. n : r = rows[k]
    BY <1>1 DEF ToSet
  <2>2. QED
    BY <1>5, <1>8, <2>1
<1>9. ASSUME NEW r \in ToSet(rows), r.ds \in {"tick_size_changes", "trades"}
      PROVE  \E s \in Deduplicated(rows) : s.ds = r.ds /\ s.id = r.id
  <2>1. PICK k \in 1 .. n : r = rows[k]
    BY <1>1 DEF ToSet
  <2>2. QED
    BY <1>6, <1>7, <1>9, <2>1
<1>10. QED
  BY <1>4, <1>8, <1>9

\* What a batch says of a message its rows say.
LEMMA DeduplicatedTells ==
  ASSUME NEW rows \in Seq(RowSet), NEW env, NEW i
  PROVE  /\ Told(ToSet(rows), env, i) => Told(Deduplicated(rows), env, i)
         /\ TickTold(ToSet(rows), env, i) => TickTold(Deduplicated(rows), env, i)
<1> DEFINE D == Deduplicated(rows)
<1>1. /\ D \subseteq ToSet(rows) /\ ToSet(rows) \subseteq RowSet
      /\ \A r \in ToSet(rows) : r.ds \notin ByIdentity \cup {"tick_size_changes"} => r \in D
      /\ \A r \in ToSet(rows) : r.ds \in {"tick_size_changes", "trades"} =>
           \E s \in D : s.ds = r.ds /\ s.id = r.id
  <2>1. ToSet(rows) \subseteq RowSet
    <3>1. \A k \in DOMAIN rows : rows[k] \in RowSet
      BY LenProperties, ElementOfSeq
    <3>2. QED
      BY <3>1 DEF ToSet
  <2>2. QED
    BY <2>1, DeduplicatedKeeps
<1> HIDE DEF D
<1>2. ASSUME NEW r \in ToSet(rows), Tells(r, env, i) PROVE \E s \in D : Tells(s, env, i)
  <2>1. CASE r.ds # "tick_size_changes"
    <3>1. r.ds \notin ByIdentity \cup {"tick_size_changes"}
      BY <1>2, <2>1 DEF Tells
    <3>2. QED
      BY <1>1, <1>2, <3>1
  <2>2. CASE r.ds = "tick_size_changes"
    <3>1. PICK s \in D : s.ds = r.ds /\ s.id = r.id
      BY <1>1, <2>2
    <3>2. r \in RowSet /\ s \in RowSet /\ r.ds \notin ByIdentity
      BY <1>1, <2>2 DEF ByIdentity
    <3>3. s.key = r.key
      BY <3>1, <3>2 DEF RowSet
    <3>4. Tells(s, env, i)
      BY <1>2, <3>1, <3>3 DEF Tells
    <3>5. QED
      BY <3>4
  <2>3. QED
    BY <2>1, <2>2
<1>3. Told(ToSet(rows), env, i) => Told(D, env, i)
  <2>1. CASE Silent(env, i)
    BY <2>1 DEF Told
  <2>2. CASE \E r \in ToSet(rows) : Tells(r, env, i)
    BY <1>2, <2>2 DEF Told
  <2>3. CASE env.msgs[i].type = "last_trade_price"
             /\ \E r \in ToSet(rows) : r.ds = "trades" /\ r.id = <<"trade", env.msgs[i].trade>>
    <3>1. \E s \in D : s.ds = "trades" /\ s.id = <<"trade", env.msgs[i].trade>>
      BY <1>1, <2>3
    <3>2. QED
      BY <2>3, <3>1 DEF Told
  <2>4. QED
    BY <2>1, <2>2, <2>3 DEF Told
<1>4. TickTold(ToSet(rows), env, i) => TickTold(D, env, i)
  <2>1. ASSUME NEW r \in ToSet(rows), r.ds = "tick_size_changes", r.id = <<env.id, i, 0>>
        PROVE  \E s \in D : s.ds = "tick_size_changes" /\ s.id = <<env.id, i, 0>>
    BY <1>1, <2>1
  <2>2. QED
    BY <2>1 DEF TickTold
<1>5. QED
  BY <1>3, <1>4 DEF D

-----------------------------------------------------------------------------
(* What a run selects *)

LEMMA ByClosingIs ==
  ASSUME NEW entries \in SUBSET Files
  PROVE  /\ ByClosing(entries) \in Seq(entries) /\ ToSet(ByClosing(entries)) = entries
         /\ IsInjective(ByClosing(entries))
<1> DEFINE before == [f \in entries |-> {g \in entries : Earlier(g, f)}]
           n == Cardinality(entries)
<1>1. IsFiniteSet(entries)
  BY NormalizerAssumption, FS_Subset
<1>2. \A f \in entries : f \in Files /\ FileOf[f].closed \in Nat
  BY FilesAre
<1>3. Orders(before, entries)
  <2>1. before \in [entries -> SUBSET entries]
    OBVIOUS
  <2>2. ASSUME NEW e \in entries PROVE e \notin before[e]
    BY <1>2 DEF Earlier
  <2>3. ASSUME NEW e \in entries, NEW f \in entries PROVE e = f \/ e \in before[f] \/ f \in before[e]
    <3>1. CASE FileOf[e].closed = FileOf[f].closed
      BY <1>2, <3>1, NormalizerAssumption
    <3>2. CASE FileOf[e].closed < FileOf[f].closed
      BY <3>2 DEF Earlier
    <3>3. CASE FileOf[f].closed < FileOf[e].closed
      BY <3>3 DEF Earlier
    <3>4. QED
      BY <1>2, <3>1, <3>2, <3>3
  <2>4. ASSUME NEW e \in entries, NEW f \in entries, e \in before[f] PROVE before[e] \subseteq before[f]
    BY <1>2, <2>4 DEF Earlier
  <2> HIDE DEF before
  <2>5. QED
    BY <2>1, <2>2, <2>3, <2>4 DEF Orders
<1>4. ByClosing(entries) = Ranked(before)
  BY DEF ByClosing
<1> HIDE DEF before
<1>5. n \in Nat /\ Ranked(before) \in Bijection(1 .. n, entries)
  BY <1>1, <1>3, RankedInOrder
<1>6. Ranked(before) \in [1 .. n -> entries] /\ \A f \in entries : \E k \in 1 .. n : Ranked(before)[k] = f
  BY <1>5 DEF Bijection, Injection, Surjection
<1>7. ByClosing(entries) \in Seq(entries)
  BY <1>4, <1>5, <1>6, SeqDef
<1>8. ToSet(ByClosing(entries)) = entries
  BY <1>4, <1>6 DEF ToSet
<1>9. IsInjective(ByClosing(entries))
  BY <1>4, <1>5 DEF Bijection, Injection
<1>10. QED
  BY <1>7, <1>8, <1>9

LEMMA ReversedIs ==
  ASSUME NEW X, NEW s \in Seq(X)
  PROVE  Reverse(s) \in Seq(X) /\ (IsInjective(s) => IsInjective(Reverse(s)))
<1>1. Len(s) \in Nat /\ \A i \in 1 .. Len(s) : s[i] \in X
  BY LenProperties, ElementOfSeq
<1>2. \A i \in 1 .. Len(s) : (Len(s) - i) + 1 \in 1 .. Len(s)
  BY <1>1
<1>3. Reverse(s) \in [1 .. Len(s) -> X]
  BY <1>1, <1>2 DEF Reverse
<1>4. Reverse(s) \in Seq(X)
  BY <1>1, <1>3, SeqDef
<1>5. ASSUME IsInjective(s) PROVE IsInjective(Reverse(s))
  <2>1. DOMAIN s = 1 .. Len(s) /\ DOMAIN Reverse(s) = 1 .. Len(s)
    BY <1>3, LenProperties
  <2>2. \A i \in 1 .. Len(s) : Reverse(s)[i] = s[(Len(s) - i) + 1]
    BY DEF Reverse
  <2>3. SUFFICES ASSUME NEW i \in 1 .. Len(s), NEW j \in 1 .. Len(s), Reverse(s)[i] = Reverse(s)[j]
                 PROVE  i = j
    BY <2>1 DEF IsInjective
  <2>4. (Len(s) - i) + 1 = (Len(s) - j) + 1
    BY <1>2, <1>5, <2>1, <2>2, <2>3 DEF IsInjective
  <2>5. QED
    BY <1>1, <2>4
<1>6. QED
  BY <1>4, <1>5

LEMMA RawEntriesAre ==
  ASSUME finalized \in SUBSET Files, NEW opt \in Options
  PROVE  RawEntries(opt) \in Seq(finalized \ processed) /\ IsInjective(RawEntries(opt))
<1> DEFINE found  == {f \in finalized : f \notin processed /\ opt.date \in {AnyDate, FileOf[f].date}}
           sorted == ByClosing(found)
           seq    == IF opt.max # Unlimited /\ opt.newest THEN Reverse(sorted) ELSE sorted
<1>1. found \in SUBSET Files /\ found \subseteq finalized \ processed
  OBVIOUS
<1>2. RawEntries(opt) = IF opt.max = Unlimited \/ Len(seq) <= opt.max THEN seq ELSE SubSeq(seq, 1, opt.max)
  BY DEF RawEntries
<1>3. opt.max \in Nat
  BY NormalizerAssumption
<1> HIDE DEF found
<1>4. sorted \in Seq(found) /\ IsInjective(sorted)
  BY <1>1, ByClosingIs
<1> HIDE DEF sorted
<1>5. seq \in Seq(found) /\ Len(seq) \in Nat /\ IsInjective(seq)
  BY <1>4, ReversedIs, LenProperties
<1> HIDE DEF seq
<1>6. seq \in Seq(finalized \ processed)
  BY <1>1, <1>5, SeqDef
<1>7. CASE opt.max = Unlimited \/ Len(seq) <= opt.max
  BY <1>2, <1>5, <1>6, <1>7
<1>8. CASE opt.max # Unlimited /\ ~(Len(seq) <= opt.max)
  <2>1. opt.max \in 1 .. Len(seq) /\ 1 \in 1 .. Len(seq) + 1
    BY <1>3, <1>5, <1>8 DEF Unlimited
  <2>2. \A i \in 1 .. opt.max : seq[i] \in finalized \ processed
    BY <1>6, <2>1, ElementOfSeq
  <2>3. SubSeq(seq, 1, opt.max) \in Seq(finalized \ processed)
    BY <1>6, <2>1, <2>2, SubSeqProperties
  <2>4. IsInjective(SubSeq(seq, 1, opt.max))
    <3>1. DOMAIN SubSeq(seq, 1, opt.max) = 1 .. opt.max
          /\ \A i \in 1 .. opt.max : SubSeq(seq, 1, opt.max)[i] = seq[i] /\ i \in 1 .. Len(seq)
      BY <1>5, <2>1
    <3>2. DOMAIN seq = 1 .. Len(seq)
      BY <1>5, LenProperties
    <3>3. QED
      BY <1>5, <3>1, <3>2 DEF IsInjective
  <2>5. QED
    BY <1>2, <1>8, <2>3, <2>4
<1>9. QED
  BY <1>7, <1>8

\* The migration publishes every tick of a finalized file that is not out yet.
LEMMA BackfillTells ==
  ASSUME finalized \in SUBSET Files, NEW opt
  PROVE  /\ TickBackfillRows(opt) \in Seq(RowSet)
         /\ \A r \in ToSet(TickBackfillRows(opt)) : r.ds = "tick_size_changes"
         /\ \A f \in finalized : \A m \in MessagesOf(f) :
              TickTold(DOMAIN parquet \cup ToSet(TickBackfillRows(opt)), m[1], m[2])
<1> DEFINE clob == {f \in finalized : FileOf[f].src = "clob_market_ws"}
           entries == ByClosing(clob)
           envs == Envelopes(entries)
           have == {r.id : r \in {x \in DOMAIN parquet : x.ds = "tick_size_changes"}}
           wanted(env, i) == /\ env.msgs[i].type = "tick_size_change"
                             /\ env.msgs[i].bad = "no"
                             /\ TickRow(env, i, env.msgs[i]).id \notin have
           parts(env) == [i \in 1 .. Len(env.msgs) |->
                            IF wanted(env, i) THEN << TickRow(env, i, env.msgs[i]) >> ELSE << >>]
           ticks(env) == IF env.form \notin {"object", "list"} THEN << >> ELSE FlattenSeq(parts(env))
           all == [k \in 1 .. Len(envs) |-> ticks(envs[k])]
           Ticks == {r \in RowSet : r.ds = "tick_size_changes"}
<1>1. TickBackfillRows(opt) = FlattenSeq(all)
  BY DEF TickBackfillRows
<1>2. entries \in Seq(Files) /\ ToSet(entries) = clob
  <2>1. clob \in SUBSET Files
    OBVIOUS
  <2>2. entries \in Seq(clob) /\ ToSet(entries) = clob
    <3> HIDE DEF clob
    <3>1. QED
      BY <2>1, ByClosingIs
  <2> HIDE DEF entries
  <2>3. QED
    BY <2>1, <2>2, SeqDef
<1> HIDE DEF entries
<1>3. envs \in Seq(WellFormedEnvelopes)
      /\ ToSet(envs) = UNION {ToSet(FileOf[f].envelopes) : f \in clob}
  BY <1>2, EnvelopesAre
<1> HIDE DEF envs, clob
<1>4. Len(envs) \in Nat /\ DOMAIN envs = 1 .. Len(envs)
      /\ \A k \in 1 .. Len(envs) : envs[k] \in WellFormedEnvelopes
  BY <1>3, LenProperties, ElementOfSeq
<1>5. ASSUME NEW env \in RecordedEnvelope
      PROVE  /\ parts(env) \in Seq(Seq(Ticks)) /\ DOMAIN parts(env) = 1 .. Len(env.msgs)
             /\ ticks(env) \in Seq(Ticks)
  <2>1. env.msgs \in Seq(Message)
    BY DEF RecordedEnvelope
  <2>2. Len(env.msgs) \in Nat /\ DOMAIN env.msgs = 1 .. Len(env.msgs)
    BY <2>1, LenProperties
  <2>3. ASSUME NEW i \in 1 .. Len(env.msgs) PROVE << TickRow(env, i, env.msgs[i]) >> \in Seq(Ticks)
    <3>1. TickRow(env, i, env.msgs[i]) \in Ticks
      BY <2>2, TickRowIs
    <3> HIDE DEF Ticks
    <3>2. QED
      BY <3>1, OneElement
  <2>4. << >> \in Seq(Ticks)
    BY EmptySeq
  <2> HIDE DEF Ticks, wanted
  <2>5. \A i \in 1 .. Len(env.msgs) : parts(env)[i] \in Seq(Ticks)
    BY <2>3, <2>4
  <2>6. parts(env) \in [1 .. Len(env.msgs) -> Seq(Ticks)] /\ DOMAIN parts(env) = 1 .. Len(env.msgs)
    BY <2>5
  <2> HIDE DEF parts
  <2>7. parts(env) \in Seq(Seq(Ticks))
    BY <2>2, <2>6, SeqDef
  <2>8. FlattenSeq(parts(env)) \in Seq(Ticks)
    BY <2>7, FlattenIs
  <2>9. QED
    BY <2>4, <2>6, <2>7, <2>8
<1>6. all \in Seq(Seq(Ticks)) /\ DOMAIN all = 1 .. Len(envs)
  <2> HIDE DEF ticks, Ticks
  <2>1. \A k \in 1 .. Len(envs) : ticks(envs[k]) \in Seq(Ticks)
    BY <1>4, <1>5 DEF WellFormedEnvelopes
  <2>2. all \in [1 .. Len(envs) -> Seq(Ticks)] /\ DOMAIN all = 1 .. Len(envs)
    BY <2>1
  <2> HIDE DEF all
  <2>3. QED
    BY <1>4, <2>2, SeqDef
<1>7. /\ FlattenSeq(all) \in Seq(Ticks)
      /\ ToSet(FlattenSeq(all)) = UNION {ToSet(all[k]) : k \in DOMAIN all}
  <2> HIDE DEF all, Ticks
  <2>1. QED
    BY <1>6, FlattenIs
<1>8. FlattenSeq(all) \in Seq(RowSet) /\ \A r \in ToSet(FlattenSeq(all)) : r.ds = "tick_size_changes"
  <2> DEFINE s == FlattenSeq(all)
  <2>1. s \in Seq(Ticks)
    BY <1>7
  <2> HIDE DEF s, Ticks
  <2>2. DOMAIN s = 1 .. Len(s) /\ \A k \in 1 .. Len(s) : s[k] \in Ticks
    BY <2>1, LenProperties, ElementOfSeq
  <2>3. Ticks \subseteq RowSet /\ \A r \in Ticks : r.ds = "tick_size_changes"
    BY DEF Ticks
  <2>4. s \in Seq(RowSet)
    BY <2>1, <2>3, SeqDef
  <2>5. \A r \in ToSet(s) : r.ds = "tick_size_changes"
    BY <2>2, <2>3 DEF ToSet
  <2>6. QED
    BY <2>4, <2>5 DEF s
<1>9. ASSUME NEW f \in finalized, NEW m \in MessagesOf(f)
      PROVE  TickTold(DOMAIN parquet \cup ToSet(FlattenSeq(all)), m[1], m[2])
  <2> DEFINE env == m[1]
             i == m[2]
  <2>2. /\ env \in RecordedEnvelope /\ WellFormed(env) /\ env.src = FileOf[f].src
        /\ env \in ToSet(FileOf[f].envelopes) /\ i \in 1 .. Len(env.msgs)
    BY MessagesAre
  <2>a. i \in 1 .. Len(env.msgs)
    BY <2>2
  <2> HIDE DEF env, i
  <2>3. SUFFICES ASSUME env.msgs[i].type = "tick_size_change", env.msgs[i].bad = "no"
                 PROVE  \E r \in DOMAIN parquet \cup ToSet(FlattenSeq(all)) :
                           r.ds = "tick_size_changes" /\ r.id = <<env.id, i, 0>>
    BY DEF TickTold, env, i
  <2> DEFINE r == TickRow(env, i, env.msgs[i])
  <2>4. i \in DOMAIN env.msgs
    BY <2>2, <2>a, LenProperties DEF RecordedEnvelope
  <2>5. r.ds = "tick_size_changes" /\ r.id = <<env.id, i, 0>>
    BY <2>2, <2>4, TickRowIs
  <2>6. env.form \in {"object", "list"} /\ env.src = "clob_market_ws"
    BY <2>2, <2>3, <2>4 DEF WellFormed
  <2>7. CASE r.id \in have
    BY <2>5, <2>7
  <2>8. CASE r.id \notin have
    <3>1. wanted(env, i)
      BY <2>3, <2>8
    <3> HIDE DEF wanted, r
    <3>2. parts(env)[i] = << r >>
      BY <2>a, <3>1 DEF r
    <3>3. r \in ToSet(parts(env)[i])
      <4>1. ToSet(<< r >>) = {r}
        BY OneElement
      <4>2. QED
        BY <3>2, <4>1
    <3>4. parts(env) \in Seq(Seq(Ticks)) /\ DOMAIN parts(env) = 1 .. Len(env.msgs)
      BY <1>5, <2>2
    <3>5. ticks(env) = FlattenSeq(parts(env))
      BY <2>6
    <3> HIDE DEF parts, Ticks
    <3>6. r \in ToSet(FlattenSeq(parts(env)))
      <4>1. ToSet(FlattenSeq(parts(env))) = UNION {ToSet(parts(env)[j]) : j \in DOMAIN parts(env)}
        BY <3>4, FlattenIs
      <4>2. QED
        BY <2>a, <3>3, <3>4, <4>1
    <3>7. env \in ToSet(envs)
      BY <1>3, <2>2, <2>6 DEF clob
    <3>8. PICK k \in 1 .. Len(envs) : envs[k] = env
      BY <1>4, <3>7 DEF ToSet
    <3> HIDE DEF ticks
    <3>9. all[k] = ticks(env)
      BY <3>8
    <3>10. r \in ToSet(FlattenSeq(all))
      BY <1>6, <1>7, <3>5, <3>6, <3>8, <3>9
    <3>11. QED
      BY <2>5, <3>10
  <2>9. QED
    BY <2>7, <2>8
<1>10. QED
  BY <1>1, <1>8, <1>9

-----------------------------------------------------------------------------
(* Types *)

RunPhases == {"idle", "begin", "publish", "list", "series", "replace", "export", "migrate"}

AllRows == RowSet \cup {RunRow}

Points == [token : Traded, at : Nat, seq : Nat]

Entries == {IndexEntry(S) : S \in SUBSET Points}

Modes == {"rows", "run", "reindex"}

TopRows == {r \in RowSet : r.ds = "top_of_book"}

RunStates ==
  [pc : RunPhases, mode : Modes, files : Seq(Files), batch : SUBSET Files,
   groups : SUBSET (SUBSET AllRows), top : SUBSET TopRows,
   conds : SUBSET Conditions, entry : [Conditions -> Entries], charts : SUBSET Points,
   backfill : BOOLEAN, opt : Options]

NormalizerTypeOK ==
  /\ finalized \in SUBSET Files /\ processed \in SUBSET Files
  /\ registry \in Registry
  /\ checkpoints \in SUBSET (SUBSET Files)
  /\ tickDone \in BOOLEAN
  /\ DOMAIN parquet \in SUBSET AllRows
  /\ listed \in SUBSET AllRows /\ exported \in SUBSET AllRows
  /\ series \in [Conditions -> SUBSET Points]
  /\ index \in [Conditions -> Entries]
  /\ run \in [Procs -> RunStates]
  /\ deaths \in Nat /\ overlap \in BOOLEAN

-----------------------------------------------------------------------------
(* The inductive invariant *)

\* The rows R say what became of every message of file f ...
FileTold(R, f) == \A m \in MessagesOf(f) : Told(R, m[1], m[2]) /\ TickTold(R, m[1], m[2])

\* ... but its ticks, when it was normalized before they had a dataset ...
LegacyTold(R, f) ==
  \A m \in MessagesOf(f) : m[1].msgs[m[2]].type = "tick_size_change" \/ Told(R, m[1], m[2])

\* ... which the migration adds.
LegacyTicks(R) == \A f \in Legacy : \A m \in MessagesOf(f) : TickTold(R, m[1], m[2])

\* A run whose rows are D \cup its groups, when they are out, has told its files
\* and, when it migrates, the ticks of the old ones.
RunTells(r, D) ==
  /\ r.pc \in {"series", "replace", "export", "migrate"} => r.groups = {}
  /\ r.pc = "list" => r.groups # {} /\ NextGroup(r.groups) \subseteq D
  /\ \A f \in ToSet(r.files) : FileTold(D \cup UNION r.groups, f)
  /\ r.backfill => LegacyTicks(D \cup UNION r.groups)
  /\ r.pc = "migrate" => r.backfill

ProcessedTold(done, entries, D) ==
  /\ \A f \in entries : IF f \in Legacy THEN LegacyTold(D, f) ELSE FileTold(D, f)
  /\ done => LegacyTicks(D)

TellsInv ==
  /\ Legacy \subseteq finalized
  /\ ProcessedTold(tickDone, processed, DOMAIN parquet)
  /\ \A p \in Procs : RunTells(run[p], DOMAIN parquet)

LEMMA FileToldByMore ==
  ASSUME NEW R, NEW S, R \subseteq S, NEW f
  PROVE  /\ FileTold(R, f) => FileTold(S, f)
         /\ LegacyTold(R, f) => LegacyTold(S, f)
         /\ FileTold(R, f) => LegacyTold(S, f)
         /\ LegacyTicks(R) => LegacyTicks(S)
BY ToldByMore DEF FileTold, LegacyTold, LegacyTicks

LEMMA RunTellsByMore ==
  ASSUME NEW r, NEW D, NEW E, D \subseteq E, RunTells(r, D)
  PROVE  RunTells(r, E)
<1>1. D \cup UNION r.groups \subseteq E \cup UNION r.groups
  OBVIOUS
<1>2. \A f \in ToSet(r.files) : FileTold(E \cup UNION r.groups, f)
  BY <1>1, FileToldByMore DEF RunTells
<1>3. r.backfill => LegacyTicks(E \cup UNION r.groups)
  BY <1>1, FileToldByMore DEF RunTells
<1>4. QED
  BY <1>2, <1>3 DEF RunTells

LEMMA ProcessedToldByMore ==
  ASSUME NEW done, NEW entries, NEW D, NEW E, D \subseteq E, ProcessedTold(done, entries, D)
  PROVE  ProcessedTold(done, entries, E)
<1>1. \A f \in entries : IF f \in Legacy THEN LegacyTold(E, f) ELSE FileTold(E, f)
  BY FileToldByMore DEF ProcessedTold
<1>2. done => LegacyTicks(E)
  BY FileToldByMore DEF ProcessedTold
<1>3. QED
  BY <1>1, <1>2 DEF ProcessedTold

-----------------------------------------------------------------------------
(* What a run has read *)

LEMMA PointIs ==
  ASSUME NEW r \in RowSet, r.ds = "top_of_book"
  PROVE  Point(r) \in Points /\ Point(r).token = r.token
BY DEF Point, Points, RowSet

LEMMA ConditionOfIs ==
  ASSUME NEW t \in Traded
  PROVE  ConditionOf(t) \in Conditions /\ t \in TokensOf[ConditionOf(t)]
<1>1. \E c \in Conditions : t \in TokensOf[c]
  BY DEF Traded
<1>2. QED
  BY <1>1 DEF ConditionOf

LEMMA MergedIs ==
  ASSUME NEW S \in SUBSET Points, NEW T \in SUBSET Points
  PROVE  MergePoints(S, T) \in SUBSET (S \cup T)
BY DEF MergePoints

LEMMA EntryIs ==
  ASSUME NEW S \in SUBSET Points
  PROVE  IndexEntry(S) \in Entries
BY DEF Entries

LEMMA NoRunIs == NoRun \in RunStates /\ EmptyIndex \in [Conditions -> Entries]
<1>1. EmptyIndex \in [Conditions -> Entries]
  <2>1. IndexEntry({}) \in Entries
    BY EntryIs
  <2>2. QED
    BY <2>1 DEF EmptyIndex
<1>2. TimerOptions \in Options /\ << >> \in Seq(Files)
  BY NormalizerAssumption, EmptySeq
<1>3. NoRun \in RunStates
  BY <1>1, <1>2 DEF NoRun, RunStates, RunPhases, Modes
<1>4. QED
  BY <1>1, <1>3

LEMMA RowsOfSeq ==
  ASSUME NEW X, NEW s \in Seq(X)
  PROVE  ToSet(s) \in SUBSET X /\ IsFiniteSet(ToSet(s))
<1>1. Len(s) \in Nat /\ DOMAIN s = 1 .. Len(s) /\ \A k \in 1 .. Len(s) : s[k] \in X
  BY LenProperties, ElementOfSeq
<1>2. ToSet(s) \in SUBSET X
  BY <1>1 DEF ToSet
<1>3. IsFiniteSet(1 .. Len(s))
  BY <1>1, FS_Interval
<1>4. s \in [1 .. Len(s) -> ToSet(s)]
  BY <1>1 DEF ToSet
<1>5. s \in Surjection(1 .. Len(s), ToSet(s))
  BY <1>1, <1>4 DEF Surjection, ToSet
<1>6. QED
  BY <1>2, <1>3, <1>5, FS_Surjection

LEMMA GroupsAre ==
  ASSUME NEW rows
  PROVE  UNION Groups(rows) = rows
<1>1. ASSUME NEW r \in rows PROVE r \in UNION Groups(rows)
  <2>1. {s \in rows : DatasetPartition(s) = DatasetPartition(r)} \in Groups(rows)
    BY DEF Groups
  <2>2. r \in {s \in rows : DatasetPartition(s) = DatasetPartition(r)}
    OBVIOUS
  <2>3. QED
    BY <2>1, <2>2
<1>2. ASSUME NEW g \in Groups(rows) PROVE g \subseteq rows
  BY DEF Groups
<1>3. QED
  BY <1>1, <1>2

LEMMA NextGroupIs ==
  ASSUME NEW groups, groups # {}
  PROVE  NextGroup(groups) \in groups
<1>1. \E g \in groups : TRUE
  OBVIOUS
<1>2. QED
  BY <1>1 DEF NextGroup

\* The rows of a batch tell of all its files, and with those published before
\* of the ticks of the old files.
LEMMA BatchTells ==
  ASSUME NormalizerTypeOK, TellsInv, NEW opt \in Options, NEW entries \in Seq(Files)
  PROVE  /\ BatchRows(opt, entries) \in SUBSET RowSet /\ IsFiniteSet(BatchRows(opt, entries))
         /\ \A f \in ToSet(entries) : FileTold(BatchRows(opt, entries), f)
         /\ ~tickDone => LegacyTicks(DOMAIN parquet \cup BatchRows(opt, entries))
<1> DEFINE first == IF tickDone THEN << >> ELSE TickBackfillRows(opt)
           parsed == Parsed(entries)
           rows == first \o parsed
           D == Deduplicated(rows)
<1>0. registry \in Registry /\ finalized \in SUBSET Files /\ Legacy \subseteq finalized
  BY DEF NormalizerTypeOK, TellsInv
<1>1. first \in Seq(RowSet)
  BY <1>0, BackfillTells, EmptySeq
<1>2. parsed \in Seq(RowSet) /\ \A env \in ToSet(Envelopes(entries)) : AllTold(ToSet(parsed), env)
  BY <1>0, ParsedTells
<1>3. BatchRows(opt, entries) = D
  <2>1. BatchRows(opt, entries) = Only({Deduplicated(x) : x \in {rows}})
    BY DEF BatchRows
  <2>2. {Deduplicated(x) : x \in {rows}} = {Deduplicated(rows)}
    OBVIOUS
  <2>3. QED
    BY <2>1, <2>2, OnlyIs
<1>t. ~tickDone => \A f \in Legacy : \A m \in MessagesOf(f) :
        TickTold(DOMAIN parquet \cup ToSet(first), m[1], m[2])
  BY <1>0, BackfillTells
<1> HIDE DEF first, parsed
<1>4. rows \in Seq(RowSet) /\ ToSet(rows) = ToSet(first) \cup ToSet(parsed)
  BY <1>1, <1>2, ConcatIs
<1> HIDE DEF rows
<1>5. D \subseteq ToSet(rows) /\ ToSet(rows) \in SUBSET RowSet /\ IsFiniteSet(ToSet(rows))
  BY <1>4, DeduplicatedKeeps, RowsOfSeq
<1>6. IsFiniteSet(D) /\ D \in SUBSET RowSet
  BY <1>5, FS_Subset
<1>7. ASSUME NEW f \in ToSet(entries) PROVE FileTold(D, f)
  <2>1. f \in Files
    BY RowsOfSeq
  <2>2. SUFFICES ASSUME NEW m \in MessagesOf(f)
                 PROVE  Told(D, m[1], m[2]) /\ TickTold(D, m[1], m[2])
    BY DEF FileTold
  <2>3. m[1] \in ToSet(FileOf[f].envelopes) /\ m[2] \in 1 .. Len(m[1].msgs)
    BY <2>1, MessagesAre
  <2>4. m[1] \in ToSet(Envelopes(entries))
    BY <2>3, EnvelopesAre
  <2>5. Told(ToSet(parsed), m[1], m[2]) /\ TickTold(ToSet(parsed), m[1], m[2])
    BY <1>2, <2>3, <2>4 DEF AllTold
  <2>6. Told(ToSet(rows), m[1], m[2]) /\ TickTold(ToSet(rows), m[1], m[2])
    BY <1>4, <2>5, ToldByMore
  <2>7. QED
    BY <1>4, <2>6, DeduplicatedTells
<1>8. ASSUME ~tickDone PROVE LegacyTicks(DOMAIN parquet \cup D)
  <2>1. SUFFICES ASSUME NEW f \in Legacy, NEW m \in MessagesOf(f)
                 PROVE  TickTold(DOMAIN parquet \cup D, m[1], m[2])
    BY DEF LegacyTicks
  <2>2. TickTold(DOMAIN parquet \cup ToSet(first), m[1], m[2])
    BY <1>8, <1>t
  <2>3. SUFFICES ASSUME NEW r \in DOMAIN parquet \cup ToSet(first),
                        r.ds = "tick_size_changes", r.id = <<m[1].id, m[2], 0>>
                 PROVE  \E s \in DOMAIN parquet \cup D :
                           s.ds = "tick_size_changes" /\ s.id = <<m[1].id, m[2], 0>>
    BY <2>2 DEF TickTold
  <2>4. CASE r \in DOMAIN parquet
    BY <2>3, <2>4
  <2>5. CASE r \in ToSet(first)
    <3>1. r \in ToSet(rows)
      BY <1>4, <2>5
    <3>2. \E s \in D : s.ds = r.ds /\ s.id = r.id
      BY <1>4, <2>3, <3>1, DeduplicatedKeeps
    <3>3. QED
      BY <2>3, <3>2
  <2>6. QED
    BY <2>4, <2>5
<1>9. QED
  BY <1>3, <1>6, <1>7, <1>8

-----------------------------------------------------------------------------
(* Type correctness *)

\* What the chart of a market is made from.
LEMMA PointsAre ==
  ASSUME NEW top \in SUBSET TopRows, NEW c
  PROVE  {Point(r) : r \in {x \in top : ConditionOf(x.token) = c}} \in SUBSET Points
BY PointIs DEF TopRows

LEMMA InitType == NormalizerInit => NormalizerTypeOK
<1> SUFFICES ASSUME NormalizerInit PROVE NormalizerTypeOK
  OBVIOUS
<1> DEFINE entries == ByClosing(Legacy)
           rows == {r \in Deduplicated(Parsed(entries)) : r.ds # "tick_size_changes"}
           tops(c) == {Point(r) : r \in {x \in rows : /\ x.ds = "top_of_book"
                                                      /\ ConditionOf(x.token) = c}}
           chart(c) == MergePoints({}, tops(c))
<1>1. registry \in Registry /\ Legacy \in SUBSET Files
  BY NormalizerAssumption DEF NormalizerInit, Registry
<1>2. entries \in Seq(Files)
  <2>1. entries \in Seq(Legacy)
    BY <1>1, ByClosingIs
  <2>2. QED
    BY <1>1, <2>1, SeqDef
<1>3. Parsed(entries) \in Seq(RowSet)
  BY <1>1, <1>2, ParsedTells
<1>4. Deduplicated(Parsed(entries)) \in SUBSET RowSet
  BY <1>3, DeduplicatedKeeps, RowsOfSeq
<1>5. /\ parquet = [r \in rows |-> 1] /\ listed = rows
      /\ series = [c \in Conditions |-> chart(c)]
      /\ index = [c \in Conditions |-> IndexEntry(chart(c))]
  BY DEF NormalizerInit
<1> HIDE DEF entries
<1>6. rows \in SUBSET RowSet
  BY <1>4
<1> HIDE DEF rows
<1>7. ASSUME NEW c \in Conditions PROVE chart(c) \in SUBSET Points
  <2>1. tops(c) \in SUBSET Points
    BY <1>6, PointIs
  <2> HIDE DEF tops
  <2>2. {} \in SUBSET Points
    OBVIOUS
  <2>3. QED
    BY <2>1, <2>2, MergedIs
<1> HIDE DEF chart
<1>8. \A c \in Conditions : IndexEntry(chart(c)) \in Entries
  BY <1>7, EntryIs
<1>9. series \in [Conditions -> SUBSET Points] /\ index \in [Conditions -> Entries]
  BY <1>5, <1>7, <1>8
<1>10. DOMAIN parquet \in SUBSET AllRows /\ listed \in SUBSET AllRows
  BY <1>5, <1>6 DEF AllRows
<1>11. run \in [Procs -> RunStates]
  <2>1. run = [p \in Procs |-> NoRun]
    BY DEF NormalizerInit
  <2>2. QED
    BY <2>1, NoRunIs
<1>12. QED
  BY <1>1, <1>9, <1>10, <1>11 DEF NormalizerInit, NormalizerTypeOK

LEMMA OneMoreIs ==
  ASSUME NEW bag, NEW rows
  PROVE  DOMAIN OneMore(bag, rows) = DOMAIN bag \cup rows
BY DEF OneMore

LEMMA RunSet ==
  ASSUME NEW f \in [Procs -> RunStates], NEW p \in Procs, NEW r \in RunStates
  PROVE  [f EXCEPT ![p] = r] \in [Procs -> RunStates]
OBVIOUS

\* A step of one run is a step of its record.
LEMMA StepType ==
  NormalizerTypeOK /\ TellsInv /\ [NormalizerNext]_normalizerVars => NormalizerTypeOK'
<1> SUFFICES ASSUME NormalizerTypeOK, TellsInv, [NormalizerNext]_normalizerVars PROVE NormalizerTypeOK'
  OBVIOUS
<1> USE DEF NormalizerTypeOK
<1>t. tickDone \in BOOLEAN /\ run \in [Procs -> RunStates]
  OBVIOUS
<1>1. ASSUME NEW p \in Procs, NEW opt \in Options, StartRun(p, opt) PROVE NormalizerTypeOK'
  <2>1. [NoRun EXCEPT !.pc = "begin", !.opt = opt] \in RunStates
    <3>1. NoRun \in RunStates
      BY NoRunIs
    <3>2. QED
      BY <3>1 DEF RunStates, RunPhases
  <2> DEFINE r == [NoRun EXCEPT !.pc = "begin", !.opt = opt]
  <2>a. r \in RunStates /\ run' = [run EXCEPT ![p] = r]
    BY <1>1, <2>1 DEF StartRun
  <2> HIDE DEF r
  <2>2. run' \in [Procs -> RunStates]
    BY <2>a, RunSet
  <2>3. overlap' \in BOOLEAN
    BY <1>1 DEF StartRun
  <2>4. QED
    BY <1>1, <2>2, <2>3 DEF StartRun, durable
<1>2. ASSUME NEW p \in Procs, Read(p) PROVE NormalizerTypeOK'
  <2> DEFINE entries == RawEntries(run[p].opt)
             rows == BatchRows(run[p].opt, entries)
             r == [NoRun EXCEPT !.pc = "publish", !.files = entries, !.batch = ToSet(entries),
                       !.groups = Groups(rows), !.backfill = ~tickDone,
                       !.top = {x \in rows : x.ds = "top_of_book"}]
  <2>1. run' = [run EXCEPT ![p] = IF entries # << >> /\ ToSet(entries) \in checkpoints /\ tickDone
                                  THEN NoRun ELSE r]
    BY <1>2 DEF Read
  <2>2. run[p].opt \in Options
    BY DEF RunStates
  <2>3. entries \in Seq(finalized \ processed)
    BY <2>2, RawEntriesAre
  <2> HIDE DEF entries
  <2>4. entries \in Seq(Files)
    BY <2>3, SeqDef
  <2>5. rows \in SUBSET RowSet
    BY <2>2, <2>4, BatchTells
  <2>6. ToSet(entries) \in SUBSET Files
    BY <2>4, RowsOfSeq
  <2> HIDE DEF rows
  <2>7. Groups(rows) \in SUBSET (SUBSET AllRows)
    BY <2>5 DEF Groups, AllRows
  <2>8. {x \in rows : x.ds = "top_of_book"} \in SUBSET TopRows
    BY <2>5 DEF TopRows
  <2>9. r \in RunStates
    <3> DEFINE gs == Groups(rows)
               ts == {x \in rows : x.ds = "top_of_book"}
               fs == ToSet(entries)
    <3>1. gs \in SUBSET (SUBSET AllRows) /\ fs \in SUBSET Files
          /\ ts \in SUBSET TopRows
      BY <2>6, <2>7, <2>8
    <3> HIDE DEF gs, ts, fs
    <3>a. NoRun \in RunStates /\ (~tickDone) \in BOOLEAN
      BY NoRunIs
    <3>2. [NoRun EXCEPT !.pc = "publish", !.files = entries, !.batch = fs,
              !.groups = gs, !.backfill = ~tickDone, !.top = ts] \in RunStates
      BY <2>4, <3>1, <3>a DEF RunStates, RunPhases
    <3>3. QED
      BY <3>2 DEF gs, ts, fs
  <2> HIDE DEF r
  <2>10. run' \in [Procs -> RunStates]
    <3>1. CASE run' = [run EXCEPT ![p] = NoRun]
      BY <3>1, NoRunIs, RunSet
    <3>2. CASE run' = [run EXCEPT ![p] = r]
      BY <2>9, <3>2, RunSet
    <3>3. QED
      BY <2>1, <3>1, <3>2
  <2>11. QED
    BY <1>2, <2>10 DEF Read, durable
<1>3. ASSUME NEW p \in Procs, Publish(p) PROVE NormalizerTypeOK'
  <2>1. run[p].groups \in SUBSET (SUBSET AllRows) /\ run[p].groups # {}
    BY <1>3 DEF Publish, RunStates
  <2>2. NextGroup(run[p].groups) \in SUBSET AllRows
    BY <2>1, NextGroupIs
  <2>3. DOMAIN parquet' \in SUBSET AllRows
    BY <1>3, <2>2, OneMoreIs DEF Publish
  <2>a. run[p] \in RunStates
    OBVIOUS
  <2>b. [run[p] EXCEPT !.pc = "list"] \in RunStates
    BY <2>a DEF RunStates, RunPhases
  <2>c. run' = [run EXCEPT ![p] = [run[p] EXCEPT !.pc = "list"]]
    BY <1>3 DEF Publish
  <2>4. run' \in [Procs -> RunStates]
    <3> DEFINE r == [run[p] EXCEPT !.pc = "list"]
    <3>1. r \in RunStates /\ run' = [run EXCEPT ![p] = r]
      BY <2>b, <2>c
    <3> HIDE DEF r
    <3>2. QED
      BY <3>1, RunSet
  <2>5. QED
    BY <1>3, <2>3, <2>4 DEF Publish
<1>4. ASSUME NEW p \in Procs, AppendManifest(p) PROVE NormalizerTypeOK'
  <2>0. run[p].groups # {}
    BY <1>4 DEF AppendManifest, TellsInv, RunTells
  <2>1. run[p].groups \in SUBSET (SUBSET AllRows)
    BY DEF RunStates
  <2>2. NextGroup(run[p].groups) \in SUBSET AllRows
    BY <2>0, <2>1, NextGroupIs
  <2>a. run[p] \in RunStates
    OBVIOUS
  <2>b. [run[p] EXCEPT !.pc = "publish", !.groups = run[p].groups \ {NextGroup(run[p].groups)}] \in RunStates
    BY <2>a DEF RunStates, RunPhases
  <2>c. run' = [run EXCEPT ![p] = [run[p] EXCEPT !.pc = "publish", !.groups = run[p].groups \ {NextGroup(run[p].groups)}]]
    BY <1>4 DEF AppendManifest
  <2>3. run' \in [Procs -> RunStates]
    <3> DEFINE r == [run[p] EXCEPT !.pc = "publish", !.groups = run[p].groups \ {NextGroup(run[p].groups)}]
    <3>1. r \in RunStates /\ run' = [run EXCEPT ![p] = r]
      BY <2>b, <2>c
    <3> HIDE DEF r
    <3>2. QED
      BY <3>1, RunSet
  <2>4. QED
    BY <1>4, <2>2, <2>3 DEF AppendManifest
<1>5. ASSUME NEW p \in Procs, ReadIndex(p) PROVE NormalizerTypeOK'
  <2>1. {ConditionOf(r.token) : r \in run[p].top} \in SUBSET Conditions
    <3>1. \A r \in run[p].top : r \in RowSet /\ r.ds = "top_of_book"
      BY DEF RunStates, TopRows
    <3>2. \A r \in run[p].top : r.token \in Traded
      BY <3>1 DEF RowSet
    <3>3. QED
      BY <3>2, ConditionOfIs
  <2>2. run' \in [Procs -> RunStates]
    <3> DEFINE cs == {ConditionOf(r.token) : r \in run[p].top}
               r == [run[p] EXCEPT !.pc = "series", !.entry = index, !.conds = cs]
    <3>1. cs \in SUBSET Conditions /\ run' = [run EXCEPT ![p] = r]
      BY <1>5, <2>1 DEF ReadIndex
    <3> HIDE DEF cs
    <3>2. run[p] \in RunStates /\ index \in [Conditions -> Entries]
      OBVIOUS
    <3>3. r \in RunStates
      BY <3>1, <3>2 DEF RunStates, RunPhases
    <3> HIDE DEF r
    <3>4. QED
      BY <3>1, <3>3, RunSet
  <2>3. QED
    BY <1>5, <2>2 DEF ReadIndex, durable
<1>6. ASSUME NEW p \in Procs, ReadSeries(p) PROVE NormalizerTypeOK'
  <2> DEFINE c == CHOOSE d \in run[p].conds : TRUE
             points == {Point(r) : r \in {x \in run[p].top : ConditionOf(x.token) = c}}
             merged == MergePoints(series[c], points)
  <2>1. c \in Conditions
    <3>1. run[p].conds \in SUBSET Conditions /\ run[p].conds # {}
      BY <1>6 DEF ReadSeries, RunStates
    <3>2. QED
      BY <3>1
  <2>2. run' = [run EXCEPT ![p].pc = "replace", ![p].charts = merged]
    BY <1>6 DEF ReadSeries
  <2> HIDE DEF c
  <2>3. points \in SUBSET Points
    <3>1. run[p].top \in SUBSET TopRows
      BY DEF RunStates
    <3>2. QED
      BY <3>1, PointsAre
  <2> HIDE DEF points
  <2>4. merged \in SUBSET Points
    BY <2>1, <2>3, MergedIs
  <2> HIDE DEF merged
  <2>5. run' \in [Procs -> RunStates]
    <3> DEFINE r == [run[p] EXCEPT !.pc = "replace", !.charts = merged]
    <3>1. run[p] \in RunStates
      OBVIOUS
    <3>2. r \in RunStates
      BY <2>4, <3>1 DEF RunStates, RunPhases
    <3>3. run' = [run EXCEPT ![p] = r]
      BY <2>2
    <3> HIDE DEF r
    <3>4. QED
      BY <3>2, <3>3, RunSet
  <2>6. QED
    BY <1>6, <2>5 DEF ReadSeries, durable
<1>7. ASSUME NEW p \in Procs, WriteSeries(p) PROVE NormalizerTypeOK'
  <2> DEFINE c == CHOOSE d \in run[p].conds : TRUE
             entry == IndexEntry(run[p].charts)
  <2>1. /\ series' = [series EXCEPT ![c] = run[p].charts]
        /\ run' = [run EXCEPT ![p] = [run[p] EXCEPT !.pc = "series", !.conds = run[p].conds \ {c},
                                       !.charts = {}, !.entry = [run[p].entry EXCEPT ![c] = entry]]]
    BY <1>7 DEF WriteSeries
  <2>u. UNCHANGED <<finalized, registry, processed, checkpoints, tickDone, parquet, listed,
                    exported, index, deaths, overlap>>
    BY <1>7 DEF WriteSeries
  <2> HIDE DEF c
  <2>2. run[p].charts \in SUBSET Points
    BY DEF RunStates
  <2>3. entry \in Entries
    BY <2>2, EntryIs
  <2> HIDE DEF entry
  <2>4. series' \in [Conditions -> SUBSET Points]
    BY <2>1, <2>2
  <2>5. [run[p].entry EXCEPT ![c] = entry] \in [Conditions -> Entries]
    BY <2>3 DEF RunStates
  <2>6. run' \in [Procs -> RunStates]
    <3> DEFINE e == [run[p].entry EXCEPT ![c] = entry]
               r == [run[p] EXCEPT !.pc = "series", !.conds = run[p].conds \ {c},
                       !.charts = {}, !.entry = e]
    <3>1. run' = [run EXCEPT ![p] = r]
      BY <2>1
    <3>2. e \in [Conditions -> Entries] /\ run[p] \in RunStates
      BY <2>5
    <3> HIDE DEF e
    <3>3. r \in RunStates
      BY <3>2 DEF RunStates, RunPhases
    <3> HIDE DEF r
    <3>4. QED
      BY <3>1, <3>3, RunSet
  <2>7. QED
    BY <2>4, <2>6, <2>u
<1>8. ASSUME NEW p \in Procs, WriteIndex(p) PROVE NormalizerTypeOK'
  <2>1. index' \in [Conditions -> Entries]
    BY <1>8 DEF WriteIndex, RunStates
  <2>2. {{RunRow}} \in SUBSET (SUBSET AllRows)
    BY DEF AllRows
  <2>3. run' \in [Procs -> RunStates]
    <3> DEFINE r == [run[p] EXCEPT !.pc = "publish", !.mode = "run", !.groups = {{RunRow}},
                              !.entry = EmptyIndex, !.top = {}]
    <3>1. run' = [run EXCEPT ![p] = NoRun] \/ run' = [run EXCEPT ![p] = r]
      BY <1>8 DEF WriteIndex
    <3>2. run[p] \in RunStates
      OBVIOUS
    <3>3. r \in RunStates
      <4>1. {} \in SUBSET TopRows /\ EmptyIndex \in [Conditions -> Entries]
        BY NoRunIs
      <4>2. QED
        BY <2>2, <3>2, <4>1 DEF RunStates, RunPhases, Modes
    <3> HIDE DEF r
    <3>4. CASE run' = [run EXCEPT ![p] = NoRun]
      BY <3>4, NoRunIs, RunSet
    <3>5. CASE run' = [run EXCEPT ![p] = r]
      BY <3>3, <3>5, RunSet
    <3>6. QED
      BY <3>1, <3>4, <3>5
  <2>4. QED
    BY <1>8, <2>1, <2>3 DEF WriteIndex
<1>9. ASSUME NEW p \in Procs, SkipCache(p) PROVE NormalizerTypeOK'
  <2>1. {{RunRow}} \in SUBSET (SUBSET AllRows)
    BY DEF AllRows
  <2>a. run[p] \in RunStates
    OBVIOUS
  <2>b. [run[p] EXCEPT !.mode = "run", !.groups = {{RunRow}}] \in RunStates
    BY <2>a, <2>1 DEF RunStates, Modes
  <2>c. run' = [run EXCEPT ![p] = [run[p] EXCEPT !.mode = "run", !.groups = {{RunRow}}]]
    BY <1>9 DEF SkipCache
  <2>2. run' \in [Procs -> RunStates]
    <3> DEFINE r == [run[p] EXCEPT !.mode = "run", !.groups = {{RunRow}}]
    <3>1. r \in RunStates /\ run' = [run EXCEPT ![p] = r]
      BY <2>b, <2>c
    <3> HIDE DEF r
    <3>2. QED
      BY <3>1, RunSet
  <2>3. QED
    BY <1>9, <2>2 DEF SkipCache, durable
<1>10. ASSUME NEW p \in Procs, MarkFile(p) PROVE NormalizerTypeOK'
  <2>1. run[p].files \in Seq(Files) /\ run[p].files # << >>
    BY <1>10 DEF MarkFile, RunStates
  <2>2. Head(run[p].files) \in Files /\ Tail(run[p].files) \in Seq(Files)
    BY <2>1, HeadTailProperties
  <2>a. run[p] \in RunStates
    OBVIOUS
  <2>b. [run[p] EXCEPT !.files = Tail(run[p].files)] \in RunStates
    BY <2>a, <2>2 DEF RunStates
  <2>c. run' = [run EXCEPT ![p] = [run[p] EXCEPT !.files = Tail(run[p].files)]]
    BY <1>10 DEF MarkFile
  <2>3. run' \in [Procs -> RunStates]
    <3> DEFINE r == [run[p] EXCEPT !.files = Tail(run[p].files)]
    <3>1. r \in RunStates /\ run' = [run EXCEPT ![p] = r]
      BY <2>b, <2>c
    <3> HIDE DEF r
    <3>2. QED
      BY <3>1, RunSet
  <2>4. QED
    BY <1>10, <2>2, <2>3 DEF MarkFile
<1>11. ASSUME NEW p \in Procs, CheckpointBatch(p) PROVE NormalizerTypeOK'
  <2>1. run[p].batch \in SUBSET Files
    BY DEF RunStates
  <2>a. run[p] \in RunStates
    OBVIOUS
  <2>b. [run[p] EXCEPT !.pc = "export"] \in RunStates
    BY <2>a DEF RunStates, RunPhases
  <2>c. run' = [run EXCEPT ![p] = [run[p] EXCEPT !.pc = "export"]]
    BY <1>11 DEF CheckpointBatch
  <2>2. run' \in [Procs -> RunStates]
    <3> DEFINE r == [run[p] EXCEPT !.pc = "export"]
    <3>1. r \in RunStates /\ run' = [run EXCEPT ![p] = r]
      BY <2>b, <2>c
    <3> HIDE DEF r
    <3>2. QED
      BY <3>1, RunSet
  <2>3. QED
    BY <1>11, <2>1, <2>2 DEF CheckpointBatch
<1>12. ASSUME NEW p \in Procs, ExportManifest(p) PROVE NormalizerTypeOK'
  <2> DEFINE r == [run[p] EXCEPT !.pc = "migrate"]
  <2>a. run[p] \in RunStates
    OBVIOUS
  <2>1. r \in RunStates
    BY <2>a DEF RunStates, RunPhases
  <2>b. run' = [run EXCEPT ![p] = NoRun] \/ run' = [run EXCEPT ![p] = r]
    BY <1>12 DEF ExportManifest
  <2> HIDE DEF r
  <2>2. run' \in [Procs -> RunStates]
    <3>1. CASE run' = [run EXCEPT ![p] = NoRun]
      BY <3>1, NoRunIs, RunSet
    <3>2. CASE run' = [run EXCEPT ![p] = r]
      BY <2>1, <3>2, RunSet
    <3>3. QED
      BY <2>b, <3>1, <3>2
  <2>3. QED
    BY <1>12, <2>2 DEF ExportManifest
<1>13. ASSUME NEW p \in Procs, CheckpointTicks(p) PROVE NormalizerTypeOK'
  <2>1. run' \in [Procs -> RunStates]
    <3>1. run' = [run EXCEPT ![p] = NoRun]
      BY <1>13 DEF CheckpointTicks
    <3>2. QED
      BY <3>1, NoRunIs, RunSet
  <2>2. QED
    BY <1>13, <2>1 DEF CheckpointTicks
<1>14. ASSUME NEW p \in Procs, Reindex(p) PROVE NormalizerTypeOK'
  <2> DEFINE top == {r \in DOMAIN parquet : r.ds = "top_of_book"}
             r == [NoRun EXCEPT !.pc = "publish", !.mode = "reindex", !.top = top]
  <2>1. run' = [run EXCEPT ![p] = r] /\ overlap' \in BOOLEAN
    BY <1>14 DEF Reindex
  <2>2. top \in SUBSET TopRows
    BY DEF AllRows, RunRow, TopRows
  <2> HIDE DEF top
  <2>3. r \in RunStates
    <3>1. NoRun \in RunStates
      BY NoRunIs
    <3>2. QED
      BY <2>2, <3>1 DEF RunStates, RunPhases, Modes
  <2> HIDE DEF r
  <2>4. run' \in [Procs -> RunStates]
    BY <2>1, <2>3, RunSet
  <2>5. QED
    BY <1>14, <2>1, <2>4 DEF Reindex, durable
<1>15. ASSUME NEW p \in Procs, RunDies(p) PROVE NormalizerTypeOK'
  <2>1. run' \in [Procs -> RunStates]
    <3>1. run' = [run EXCEPT ![p] = NoRun]
      BY <1>15 DEF RunDies
    <3>2. QED
      BY <3>1, NoRunIs, RunSet
  <2>2. deaths' \in Nat
    BY <1>15 DEF RunDies
  <2>3. QED
    BY <1>15, <2>1, <2>2 DEF RunDies, durable
<1>16. ASSUME FinalizeRaw PROVE NormalizerTypeOK'
  BY <1>16 DEF FinalizeRaw, durable
<1>17. ASSUME Deactivate PROVE NormalizerTypeOK'
  <2>1. registry' \in Registry
    BY <1>17 DEF Deactivate, Registry
  <2>2. QED
    BY <1>17, <2>1 DEF Deactivate, durable
<1>18. ASSUME UNCHANGED normalizerVars PROVE NormalizerTypeOK'
  BY <1>18 DEF normalizerVars
<1> HIDE DEF NormalizerTypeOK
<1>19. QED
  BY <1>1, <1>2, <1>3, <1>4, <1>5, <1>6, <1>7, <1>8, <1>9, <1>10, <1>11, <1>12, <1>13,
     <1>14, <1>15, <1>16, <1>17, <1>18 DEF NormalizerNext, Step


-----------------------------------------------------------------------------
(* Nothing disappears *)

LEMMA IdleTells ==
  ASSUME NEW r, NEW D, r.groups = {}, r.files = << >>, ~r.backfill, r.pc \notin {"list", "migrate"}
  PROVE  RunTells(r, D)
<1>1. ToSet(r.files) = {}
  BY DEF ToSet
<1>2. QED
  BY <1>1 DEF RunTells

\* A run whose rows and files only became fewer than what is published makes up for.
LEMMA StillTells ==
  ASSUME NEW r, NEW s, NEW D, NEW E, RunTells(r, D), s.backfill => r.backfill,
         ToSet(s.files) \subseteq ToSet(r.files),
         D \cup UNION r.groups \subseteq E \cup UNION s.groups,
         s.pc \in {"series", "replace", "export", "migrate"} => s.groups = {},
         s.pc = "list" => s.groups # {} /\ NextGroup(s.groups) \subseteq E,
         s.pc = "migrate" => s.backfill
  PROVE  RunTells(s, E)
<1>1. \A f \in ToSet(s.files) : FileTold(E \cup UNION s.groups, f)
  BY FileToldByMore DEF RunTells
<1>2. s.backfill => LegacyTicks(E \cup UNION s.groups)
  BY FileToldByMore DEF RunTells
<1>3. QED
  BY <1>1, <1>2 DEF RunTells

LEMMA StepOfARunTells ==
  ASSUME TellsInv, run \in [Procs -> RunStates], NEW p \in Procs, NEW r,
         run' = [run EXCEPT ![p] = r], finalized' = finalized,
         DOMAIN parquet \subseteq DOMAIN parquet',
         ProcessedTold(tickDone', processed', DOMAIN parquet'),
         RunTells(r, DOMAIN parquet')
  PROVE  TellsInv'
<1> DEFINE D == DOMAIN parquet
           E == DOMAIN parquet'
<1>1. D \subseteq E
  OBVIOUS
<1>2. \A q \in Procs : RunTells(run[q], D)
  BY DEF TellsInv
<1> HIDE DEF D, E
<1>3. ASSUME NEW q \in Procs PROVE RunTells(run'[q], E)
  <2>1. CASE q = p
    <3>1. run'[q] = r
      BY <2>1
    <3>2. QED
      BY <3>1 DEF E
  <2>2. CASE q # p
    <3>1. run'[q] = run[q]
      BY <2>2
    <3>2. QED
      BY <1>1, <1>2, <3>1, RunTellsByMore
  <2>3. QED
    BY <2>1, <2>2
<1>4. QED
  BY <1>3 DEF TellsInv, E

LEMMA InitTells == NormalizerInit => TellsInv
<1> SUFFICES ASSUME NormalizerInit PROVE TellsInv
  OBVIOUS
<1> DEFINE entries == ByClosing(Legacy)
           parsed == Parsed(entries)
           all == Deduplicated(parsed)
           rows == {r \in all : r.ds # "tick_size_changes"}
<1>1. registry \in Registry /\ Legacy \in SUBSET Files
  BY NormalizerAssumption DEF NormalizerInit, Registry
<1>2. entries \in Seq(Files) /\ ToSet(entries) = Legacy
  <2>1. entries \in Seq(Legacy) /\ ToSet(entries) = Legacy
    BY <1>1, ByClosingIs
  <2>2. QED
    BY <1>1, <2>1, SeqDef
<1>3. parsed \in Seq(RowSet) /\ \A env \in ToSet(Envelopes(entries)) : AllTold(ToSet(parsed), env)
  BY <1>1, <1>2, ParsedTells
<1>4. DOMAIN parquet = rows
  BY DEF NormalizerInit
<1> HIDE DEF parsed, entries
<1>5. ASSUME NEW f \in Legacy, NEW m \in MessagesOf(f), m[1].msgs[m[2]].type # "tick_size_change"
      PROVE  Told(rows, m[1], m[2])
  <2>1. m[1] \in ToSet(FileOf[f].envelopes) /\ m[2] \in 1 .. Len(m[1].msgs)
    BY <1>1, MessagesAre
  <2>2. m[1] \in ToSet(Envelopes(entries))
    BY <1>2, <2>1, EnvelopesAre
  <2>3. Told(ToSet(parsed), m[1], m[2])
    BY <1>3, <2>1, <2>2 DEF AllTold
  <2>4. Told(all, m[1], m[2])
    BY <1>3, <2>3, DeduplicatedTells
  <2> HIDE DEF all
  <2>5. \A r \in all : Tells(r, m[1], m[2]) => r \in rows
    BY <1>5 DEF Tells
  <2>6. \A r \in all : r.ds = "trades" => r \in rows
    OBVIOUS
  <2> HIDE DEF rows
  <2>7. QED
    BY <2>4, <2>5, <2>6 DEF Told
<1>6. ProcessedTold(tickDone, processed, DOMAIN parquet)
  <2>1. \A f \in Legacy : LegacyTold(rows, f)
    BY <1>5 DEF LegacyTold
  <2>2. QED
    BY <1>4, <2>1 DEF ProcessedTold, NormalizerInit
<1>7. ASSUME NEW p \in Procs PROVE RunTells(run[p], DOMAIN parquet)
  <2>1. run[p] = NoRun
    BY DEF NormalizerInit
  <2>2. QED
    BY <2>1, IdleTells DEF NoRun
<1>8. QED
  BY <1>6, <1>7 DEF TellsInv, NormalizerInit

LEMMA StepTells ==
  NormalizerTypeOK /\ TellsInv /\ [NormalizerNext]_normalizerVars => TellsInv'
<1> SUFFICES ASSUME NormalizerTypeOK, TellsInv, [NormalizerNext]_normalizerVars PROVE TellsInv'
  OBVIOUS
<1> DEFINE D == DOMAIN parquet
<1>t. run \in [Procs -> RunStates] /\ tickDone \in BOOLEAN
  BY DEF NormalizerTypeOK
<1>i. Legacy \subseteq finalized /\ ProcessedTold(tickDone, processed, D)
      /\ \A p \in Procs : RunTells(run[p], D)
  BY DEF TellsInv
<1>0. NoRun.groups = {} /\ NoRun.files = << >> /\ ~NoRun.backfill /\ NoRun.pc = "idle"
  BY DEF NoRun
<1>n. RunTells(NoRun, D)
  BY <1>0, IdleTells
\* Where only the run changes, it is enough that it still tells.
<1>r. ASSUME NEW p \in Procs, NEW r, run' = [run EXCEPT ![p] = r], RunTells(r, D),
             UNCHANGED <<finalized, parquet, tickDone, processed>>
      PROVE  TellsInv'
  BY <1>t, <1>i, <1>r, StepOfARunTells
<1>1. ASSUME NEW p \in Procs, NEW opt \in Options, StartRun(p, opt) PROVE TellsInv'
  <2> DEFINE r == [NoRun EXCEPT !.pc = "begin", !.opt = opt]
  <2>1. r.groups = {} /\ r.files = << >> /\ ~r.backfill /\ r.pc = "begin"
    BY DEF NoRun
  <2>2. run' = [run EXCEPT ![p] = r] /\ UNCHANGED <<finalized, parquet, tickDone, processed>>
    BY <1>1 DEF StartRun, durable
  <2> HIDE DEF r
  <2>3. RunTells(r, D)
    BY <2>1, IdleTells
  <2>4. QED
    BY <1>r, <2>2, <2>3
<1>2. ASSUME NEW p \in Procs, Read(p) PROVE TellsInv'
  <2> DEFINE entries == RawEntries(run[p].opt)
             rows == BatchRows(run[p].opt, entries)
             r == [NoRun EXCEPT !.pc = "publish", !.files = entries, !.batch = ToSet(entries),
                       !.groups = Groups(rows), !.backfill = ~tickDone,
                       !.top = {x \in rows : x.ds = "top_of_book"}]
  <2>1. /\ run' = [run EXCEPT ![p] = NoRun] \/ run' = [run EXCEPT ![p] = r]
        /\ UNCHANGED <<finalized, parquet, tickDone, processed>>
    BY <1>2 DEF Read, durable
  <2>2. r.groups = Groups(rows) /\ r.files = entries /\ r.backfill = ~tickDone /\ r.pc = "publish"
    BY DEF NoRun
  <2> HIDE DEF r
  <2>3. run[p].opt \in Options
    BY <1>t DEF RunStates
  <2>4. entries \in Seq(Files)
    <3>1. finalized \in SUBSET Files
      BY DEF NormalizerTypeOK
    <3>2. entries \in Seq(finalized \ processed)
      BY <2>3, <3>1, RawEntriesAre
    <3>3. QED
      BY <3>1, <3>2, SeqDef
  <2> HIDE DEF entries
  <2>5. /\ \A f \in ToSet(entries) : FileTold(rows, f)
        /\ ~tickDone => LegacyTicks(D \cup rows)
    BY <2>3, <2>4, BatchTells
  <2> HIDE DEF rows
  <2>6. UNION Groups(rows) = rows
    BY GroupsAre
  <2>7. \A f \in ToSet(entries) : FileTold(D \cup rows, f)
    BY <2>5, FileToldByMore
  <2>8. RunTells(r, D)
    BY <2>2, <2>5, <2>6, <2>7 DEF RunTells
  <2>9. QED
    BY <1>n, <1>r, <2>1, <2>8
<1>3. ASSUME NEW p \in Procs, Publish(p) PROVE TellsInv'
  <2> DEFINE r == [run[p] EXCEPT !.pc = "list"]
             g == NextGroup(run[p].groups)
             E == DOMAIN parquet'
  <2>1. /\ run' = [run EXCEPT ![p] = r] /\ UNCHANGED <<finalized, tickDone, processed>>
        /\ run[p].groups # {} /\ parquet' = OneMore(parquet, g)
    BY <1>3 DEF Publish
  <2>2. r.groups = run[p].groups /\ r.files = run[p].files /\ r.backfill = run[p].backfill
        /\ r.pc = "list"
    BY <1>t DEF RunStates
  <2>3. E = D \cup g
    BY <2>1, OneMoreIs
  <2> HIDE DEF r, g, E
  <2>4. g \subseteq E /\ D \subseteq E /\ g = NextGroup(r.groups)
    BY <2>2, <2>3 DEF g
  <2>5. RunTells(run[p], D)
    BY <1>i
  <2>6. RunTells(r, E)
    BY <2>1, <2>2, <2>4, <2>5, StillTells
  <2>7. ProcessedTold(tickDone, processed, E)
    BY <1>i, <2>4, ProcessedToldByMore
  <2>8. QED
    BY <1>t, <2>1, <2>4, <2>6, <2>7, StepOfARunTells DEF E
<1>4. ASSUME NEW p \in Procs, AppendManifest(p) PROVE TellsInv'
  <2> DEFINE g == NextGroup(run[p].groups)
             r == [run[p] EXCEPT !.pc = "publish", !.groups = run[p].groups \ {g}]
  <2>1. /\ run' = [run EXCEPT ![p] = r] /\ UNCHANGED <<finalized, parquet, tickDone, processed>>
        /\ run[p].pc = "list"
    BY <1>4 DEF AppendManifest
  <2>2. r.groups = run[p].groups \ {g} /\ r.files = run[p].files /\ r.backfill = run[p].backfill
        /\ r.pc = "publish"
    BY <1>t DEF RunStates
  <2>3. RunTells(run[p], D)
    BY <1>i
  <2>4. g \subseteq D
    BY <2>1, <2>3 DEF RunTells
  <2> HIDE DEF r, g
  <2>5. D \cup UNION run[p].groups \subseteq D \cup UNION r.groups
    BY <2>2, <2>4
  <2>6. RunTells(r, D)
    BY <2>2, <2>3, <2>5, StillTells
  <2>7. QED
    BY <1>r, <2>1, <2>6
<1>5. ASSUME NEW p \in Procs, ReadIndex(p) PROVE TellsInv'
  <2> DEFINE r == [run[p] EXCEPT !.pc = "series", !.entry = index,
                                 !.conds = {ConditionOf(x.token) : x \in run[p].top}]
  <2>1. /\ run' = [run EXCEPT ![p] = r] /\ UNCHANGED <<finalized, parquet, tickDone, processed>>
        /\ run[p].groups = {}
    BY <1>5 DEF ReadIndex, durable
  <2>2. r.groups = run[p].groups /\ r.files = run[p].files /\ r.backfill = run[p].backfill
        /\ r.pc = "series"
    BY <1>t DEF RunStates
  <2> HIDE DEF r
  <2>3. RunTells(r, D)
    BY <1>i, <2>1, <2>2, StillTells
  <2>4. QED
    BY <1>r, <2>1, <2>3
<1>6. ASSUME NEW p \in Procs, ReadSeries(p) PROVE TellsInv'
  <2> DEFINE c == CHOOSE d \in run[p].conds : TRUE
             points == {Point(r) : r \in {x \in run[p].top : ConditionOf(x.token) = c}}
             r == [run[p] EXCEPT !.pc = "replace", !.charts = MergePoints(series[c], points)]
  <2>1. /\ run' = [run EXCEPT ![p] = r] /\ UNCHANGED <<finalized, parquet, tickDone, processed>>
        /\ run[p].pc = "series"
    BY <1>6 DEF ReadSeries, durable
  <2> HIDE DEF c, points
  <2>2. r.groups = run[p].groups /\ r.files = run[p].files /\ r.backfill = run[p].backfill
        /\ r.pc = "replace"
    BY <1>t DEF RunStates
  <2> HIDE DEF r
  <2>3. RunTells(run[p], D) /\ run[p].groups = {}
    BY <1>i, <2>1 DEF RunTells
  <2>4. RunTells(r, D)
    BY <2>2, <2>3, StillTells
  <2>5. QED
    BY <1>r, <2>1, <2>4
<1>7. ASSUME NEW p \in Procs, WriteSeries(p) PROVE TellsInv'
  <2> DEFINE c == CHOOSE d \in run[p].conds : TRUE
             entry == [run[p].entry EXCEPT ![c] = IndexEntry(run[p].charts)]
             r == [run[p] EXCEPT !.pc = "series", !.conds = run[p].conds \ {c}, !.charts = {},
                                 !.entry = entry]
  <2>1. /\ run' = [run EXCEPT ![p] = r] /\ UNCHANGED <<finalized, parquet, tickDone, processed>>
        /\ run[p].pc = "replace"
    BY <1>7 DEF WriteSeries
  <2> HIDE DEF c, entry
  <2>2. r.groups = run[p].groups /\ r.files = run[p].files /\ r.backfill = run[p].backfill
        /\ r.pc = "series"
    BY <1>t DEF RunStates
  <2> HIDE DEF r
  <2>3. RunTells(run[p], D) /\ run[p].groups = {}
    BY <1>i, <2>1 DEF RunTells
  <2>4. RunTells(r, D)
    BY <2>2, <2>3, StillTells
  <2>5. QED
    BY <1>r, <2>1, <2>4
<1>8. ASSUME NEW p \in Procs, WriteIndex(p) PROVE TellsInv'
  <2> DEFINE r == [run[p] EXCEPT !.pc = "publish", !.mode = "run", !.groups = {{RunRow}},
                              !.entry = EmptyIndex, !.top = {}]
  <2>1. /\ run' = [run EXCEPT ![p] = NoRun] \/ run' = [run EXCEPT ![p] = r]
        /\ UNCHANGED <<finalized, parquet, tickDone, processed>> /\ run[p].pc = "series"
    BY <1>8 DEF WriteIndex
  <2>2. r.groups = {{RunRow}} /\ r.files = run[p].files /\ r.backfill = run[p].backfill
        /\ r.pc = "publish"
    BY <1>t DEF RunStates
  <2> HIDE DEF r
  <2>3. RunTells(run[p], D) /\ run[p].groups = {}
    BY <1>i, <2>1 DEF RunTells
  <2>4. RunTells(r, D)
    BY <2>2, <2>3, StillTells
  <2>5. QED
    BY <1>n, <1>r, <2>1, <2>4
<1>9. ASSUME NEW p \in Procs, SkipCache(p) PROVE TellsInv'
  <2> DEFINE r == [run[p] EXCEPT !.mode = "run", !.groups = {{RunRow}}]
  <2>1. /\ run' = [run EXCEPT ![p] = r] /\ UNCHANGED <<finalized, parquet, tickDone, processed>>
        /\ run[p].pc = "publish" /\ run[p].groups = {}
    BY <1>9 DEF SkipCache, durable
  <2>2. r.groups = {{RunRow}} /\ r.files = run[p].files /\ r.backfill = run[p].backfill
        /\ r.pc = "publish"
    BY <1>t, <2>1 DEF RunStates
  <2> HIDE DEF r
  <2>3. RunTells(r, D)
    BY <1>i, <2>1, <2>2, StillTells
  <2>4. QED
    BY <1>r, <2>1, <2>3
<1>10. ASSUME NEW p \in Procs, MarkFile(p) PROVE TellsInv'
  <2> DEFINE entries == run[p].files
             f == Head(entries)
             r == [run[p] EXCEPT !.files = Tail(entries)]
  <2>1. /\ run' = [run EXCEPT ![p] = r] /\ UNCHANGED <<finalized, parquet, tickDone>>
        /\ processed' = processed \cup {f}
        /\ run[p].pc = "publish" /\ run[p].groups = {} /\ entries # << >>
    BY <1>10 DEF MarkFile, Written
  <2>2. r.groups = run[p].groups /\ r.files = Tail(entries) /\ r.backfill = run[p].backfill
        /\ r.pc = "publish" /\ entries \in Seq(Files)
    BY <1>t, <2>1 DEF RunStates
  <2>3. ToSet(Tail(entries)) \subseteq ToSet(entries) /\ f \in ToSet(entries)
    <3> HIDE DEF entries
    <3>1. /\ Tail(entries) \in Seq(Files) /\ Len(Tail(entries)) = Len(entries) - 1 /\ Len(entries) \in Nat
          /\ \A i \in 1 .. Len(Tail(entries)) : Tail(entries)[i] = entries[i + 1]
      BY <2>1, <2>2, HeadTailProperties, LenProperties
    <3>2. Len(entries) # 0 /\ DOMAIN entries = 1 .. Len(entries)
          /\ DOMAIN Tail(entries) = 1 .. Len(Tail(entries)) /\ Head(entries) = entries[1]
      BY <2>1, <2>2, <3>1, EmptySeq, LenProperties
    <3>3. \A i \in 1 .. Len(Tail(entries)) : i + 1 \in 1 .. Len(entries)
      BY <3>1
    <3>4. ToSet(Tail(entries)) \subseteq ToSet(entries)
      BY <3>1, <3>2, <3>3 DEF ToSet
    <3>5. f \in ToSet(entries)
      BY <3>1, <3>2 DEF ToSet
    <3>6. QED
      BY <3>4, <3>5
  <2>4. RunTells(run[p], D)
    BY <1>i
  <2>5. FileTold(D, f)
    BY <2>1, <2>3, <2>4 DEF RunTells
  <2> HIDE DEF r, f, entries
  <2>6. RunTells(r, D)
    BY <2>1, <2>2, <2>3, <2>4, StillTells DEF entries
  <2>7. LegacyTold(D, f)
    BY <2>5, FileToldByMore
  <2>8. ProcessedTold(tickDone, processed', D)
    BY <1>i, <2>1, <2>5, <2>7 DEF ProcessedTold
  <2>9. QED
    BY <1>t, <2>1, <2>6, <2>8, StepOfARunTells
<1>11. ASSUME NEW p \in Procs, CheckpointBatch(p) PROVE TellsInv'
  <2> DEFINE r == [run[p] EXCEPT !.pc = "export"]
  <2>1. /\ run' = [run EXCEPT ![p] = r] /\ UNCHANGED <<finalized, parquet, tickDone, processed>>
        /\ run[p].groups = {}
    BY <1>11 DEF CheckpointBatch, Written
  <2>2. r.groups = run[p].groups /\ r.files = run[p].files /\ r.backfill = run[p].backfill
        /\ r.pc = "export"
    BY <1>t DEF RunStates
  <2> HIDE DEF r
  <2>3. RunTells(r, D)
    BY <1>i, <2>1, <2>2, StillTells
  <2>4. QED
    BY <1>r, <2>1, <2>3
<1>12. ASSUME NEW p \in Procs, ExportManifest(p) PROVE TellsInv'
  <2> DEFINE r == [run[p] EXCEPT !.pc = "migrate"]
  <2>1. /\ run' = [run EXCEPT ![p] = NoRun] \/ (run' = [run EXCEPT ![p] = r] /\ run[p].backfill)
        /\ UNCHANGED <<finalized, parquet, tickDone, processed>> /\ run[p].pc = "export"
    BY <1>12 DEF ExportManifest
  <2>2. r.groups = run[p].groups /\ r.files = run[p].files /\ r.backfill = run[p].backfill
        /\ r.pc = "migrate"
    BY <1>t DEF RunStates
  <2> HIDE DEF r
  <2>3. RunTells(run[p], D) /\ run[p].groups = {}
    BY <1>i, <2>1 DEF RunTells
  <2>4. run[p].backfill => RunTells(r, D)
    BY <2>2, <2>3, StillTells
  <2>5. QED
    BY <1>n, <1>r, <2>1, <2>4
<1>13. ASSUME NEW p \in Procs, CheckpointTicks(p) PROVE TellsInv'
  <2>1. /\ run' = [run EXCEPT ![p] = NoRun] /\ tickDone' = TRUE
        /\ UNCHANGED <<finalized, parquet, processed>> /\ run[p].pc = "migrate"
    BY <1>13 DEF CheckpointTicks
  <2>2. RunTells(run[p], D)
    BY <1>i
  <2>3. run[p].groups = {} /\ run[p].backfill
    BY <2>1, <2>2 DEF RunTells
  <2>4. LegacyTicks(D)
    BY <2>2, <2>3 DEF RunTells
  <2>5. ProcessedTold(TRUE, processed, D)
    BY <1>i, <2>4 DEF ProcessedTold
  <2>6. QED
    BY <1>n, <1>t, <2>1, <2>5, StepOfARunTells
<1>14. ASSUME NEW p \in Procs, Reindex(p) PROVE TellsInv'
  <2> DEFINE top == {x \in DOMAIN parquet : x.ds = "top_of_book"}
             r == [NoRun EXCEPT !.pc = "publish", !.mode = "reindex", !.top = top]
  <2>1. run' = [run EXCEPT ![p] = r] /\ UNCHANGED <<finalized, parquet, tickDone, processed>>
    BY <1>14 DEF Reindex, durable
  <2>2. r.groups = {} /\ r.files = << >> /\ ~r.backfill /\ r.pc = "publish"
    BY DEF NoRun
  <2> HIDE DEF r
  <2>3. RunTells(r, D)
    BY <2>2, IdleTells
  <2>4. QED
    BY <1>r, <2>1, <2>3
<1>15. ASSUME NEW p \in Procs, RunDies(p) PROVE TellsInv'
  <2>1. run' = [run EXCEPT ![p] = NoRun] /\ UNCHANGED <<finalized, parquet, tickDone, processed>>
    BY <1>15 DEF RunDies, durable
  <2>2. QED
    BY <1>n, <1>r, <2>1
<1>16. ASSUME FinalizeRaw PROVE TellsInv'
  <2>1. Legacy \subseteq finalized' /\ UNCHANGED <<parquet, tickDone, processed, run>>
    BY <1>16, <1>i DEF FinalizeRaw, durable
  <2>2. QED
    BY <1>i, <2>1 DEF TellsInv
<1>17. ASSUME Deactivate PROVE TellsInv'
  <2>1. UNCHANGED <<finalized, parquet, tickDone, processed, run>>
    BY <1>17 DEF Deactivate, durable
  <2>2. QED
    BY <1>i, <2>1 DEF TellsInv
<1>18. ASSUME UNCHANGED normalizerVars PROVE TellsInv'
  <2>1. UNCHANGED <<finalized, parquet, tickDone, processed, run>>
    BY <1>18 DEF normalizerVars
  <2>2. QED
    BY <1>i, <2>1 DEF TellsInv
<1> HIDE DEF D
<1>19. QED
  BY <1>1, <1>2, <1>3, <1>4, <1>5, <1>6, <1>7, <1>8, <1>9, <1>10, <1>11, <1>12, <1>13,
     <1>14, <1>15, <1>16, <1>17, <1>18 DEF NormalizerNext, Step

-----------------------------------------------------------------------------
(* Theorems *)

LEMMA TellsIsInvariant == NormalizerSpec => [](NormalizerTypeOK /\ TellsInv)
<1>1. NormalizerInit => NormalizerTypeOK /\ TellsInv
  BY InitType, InitTells
<1>2. NormalizerTypeOK /\ TellsInv /\ [NormalizerNext]_normalizerVars
        => (NormalizerTypeOK /\ TellsInv)'
  BY StepType, StepTells
<1>3. QED
  BY <1>1, <1>2, PTL DEF NormalizerSpec

\* Every variable of the normalizer, and the record of each run, keeps its type,
\* whatever the files hold, however many runs there are and whenever they die.
THEOREM NormalizerTypeCorrect == NormalizerSpec => []NormalizerTypeOK
BY TellsIsInvariant, PTL

\* A file mark_raw_file_processed has recorded has left a row for each of its
\* messages, or was meant to leave none: for every archive and every number of
\* overlapping or dying runs.
THEOREM ProcessedFilesAreAccountedFor == NormalizerSpec => []ProcessedIsAccountedFor
<1>1. NormalizerTypeOK /\ TellsInv => ProcessedIsAccountedFor
  <2> SUFFICES ASSUME NormalizerTypeOK, TellsInv, NEW f \in processed, NEW m \in MessagesOf(f)
               PROVE  \/ Silent(m[1], m[2])
                      \/ f \in Legacy /\ m[1].msgs[m[2]].type = "tick_size_change"
                      \/ LeftATrace(m[1], m[2])
                      \/ /\ m[1].msgs[m[2]].type = "last_trade_price"
                         /\ Published("trades", <<"trade", m[1].msgs[m[2]].trade>>)
    BY DEF ProcessedIsAccountedFor
  <2>1. \/ Told(DOMAIN parquet, m[1], m[2])
        \/ f \in Legacy /\ m[1].msgs[m[2]].type = "tick_size_change"
    BY DEF TellsInv, ProcessedTold, LegacyTold, FileTold
  <2>2. QED
    BY <2>1 DEF Told, Tells, LeftATrace, Published
<1>2. QED
  BY <1>1, TellsIsInvariant, PTL

\* Once the tick migration has its checkpoint no tick-size change of a processed
\* file is missing, though any number of runs took part in it and died.
THEOREM TickMigrationIsComplete == NormalizerSpec => []TicksAreComplete
<1>1. NormalizerTypeOK /\ TellsInv => TicksAreComplete
  <2> SUFFICES ASSUME NormalizerTypeOK, TellsInv, tickDone, NEW f \in processed,
                      NEW m \in MessagesOf(f),
                      m[1].msgs[m[2]].type = "tick_size_change", m[1].msgs[m[2]].bad = "no"
               PROVE  Published("tick_size_changes", <<m[1].id, m[2], 0>>)
    BY DEF TicksAreComplete
  <2>1. TickTold(DOMAIN parquet, m[1], m[2])
    BY DEF TellsInv, ProcessedTold, LegacyTicks, FileTold
  <2>2. QED
    BY <2>1 DEF TickTold, Published
<1>2. QED
  BY <1>1, TellsIsInvariant, PTL

-----------------------------------------------------------------------------
(* No part of a message twice: what each handler adds *)

\* No two rows of a dataset come from the same part of a message.
Once(S) == \A r, s \in S : r.ds = s.ds /\ r.key = s.key => r = s

\* What leads from ctx to x adds rows of the places K only, and each once.  A
\* place is a message of an envelope.
Brings(x, ctx, K) ==
  \E N \in SUBSET RowSet :
    /\ ToSet(x.rows) \subseteq ToSet(ctx.rows) \cup N
    /\ Once(N) /\ \A r \in N : <<r.key[1], r.key[2]>> \in K

LEMMA BringsNothing ==
  ASSUME NEW ctx, NEW x, x.rows = ctx.rows, NEW K
  PROVE  Brings(x, ctx, K)
<1>1. {} \in SUBSET RowSet /\ Once({}) /\ ToSet(x.rows) \subseteq ToSet(ctx.rows) \cup {}
  BY DEF Once
<1>2. QED
  BY <1>1 DEF Brings

LEMMA BringsMore ==
  ASSUME NEW x, NEW ctx, NEW K, NEW L, K \subseteq L, Brings(x, ctx, K)
  PROVE  Brings(x, ctx, L)
BY DEF Brings

LEMMA BringsThen ==
  ASSUME NEW x, NEW y, NEW ctx, NEW K, NEW L, K \cap L = {}, Brings(x, ctx, K), Brings(y, x, L)
  PROVE  Brings(y, ctx, K \cup L)
<1>1. PICK M \in SUBSET RowSet :
        /\ ToSet(x.rows) \subseteq ToSet(ctx.rows) \cup M
        /\ Once(M) /\ \A r \in M : <<r.key[1], r.key[2]>> \in K
  BY DEF Brings
<1>2. PICK N \in SUBSET RowSet :
        /\ ToSet(y.rows) \subseteq ToSet(x.rows) \cup N
        /\ Once(N) /\ \A r \in N : <<r.key[1], r.key[2]>> \in L
  BY DEF Brings
<1>3. \A r \in M, s \in N : r.key # s.key
  <2>1. SUFFICES ASSUME NEW r \in M, NEW s \in N, r.key = s.key PROVE FALSE
    OBVIOUS
  <2>2. <<r.key[1], r.key[2]>> \in K /\ <<s.key[1], s.key[2]>> \in L
    BY <1>1, <1>2
  <2>3. QED
    BY <2>1, <2>2
<1>4. Once(M \cup N)
  <2>1. SUFFICES ASSUME NEW r \in M \cup N, NEW s \in M \cup N, r.ds = s.ds, r.key = s.key
                 PROVE  r = s
    BY DEF Once
  <2>2. CASE r \in M /\ s \in M
    BY <1>1, <2>1, <2>2 DEF Once
  <2>3. CASE r \in N /\ s \in N
    BY <1>2, <2>1, <2>3 DEF Once
  <2>4. QED
    BY <1>3, <2>1, <2>2, <2>3
<1>5. /\ M \cup N \in SUBSET RowSet
      /\ ToSet(y.rows) \subseteq ToSet(ctx.rows) \cup (M \cup N)
      /\ \A r \in M \cup N : <<r.key[1], r.key[2]>> \in K \cup L
  BY <1>1, <1>2
<1>6. QED
  BY <1>4, <1>5 DEF Brings

\* What is emitted after rows that were added already.
LEMMA EmitBrings ==
  ASSUME NEW ctx \in Contexts, NEW next \in Contexts, NEW rows \in Seq(RowSet),
         NEW N \in SUBSET RowSet, ToSet(next.rows) \subseteq ToSet(ctx.rows) \cup N,
         ToSet(rows) \subseteq N, Once(N),
         NEW K, \A r \in N : <<r.key[1], r.key[2]>> \in K
  PROVE  Brings(Emit(next, rows), ctx, K)
<1>1. ToSet(Emit(next, rows).rows) = ToSet(next.rows) \cup ToSet(rows)
  BY EmitIs
<1>2. ToSet(Emit(next, rows).rows) \subseteq ToSet(ctx.rows) \cup N
  BY <1>1
<1>3. QED
  BY <1>2 DEF Brings

LEMMA EmitOneBrings ==
  ASSUME NEW ctx \in Contexts, NEW next \in Contexts, NEW M \in SUBSET RowSet,
         ToSet(next.rows) \subseteq ToSet(ctx.rows) \cup M, Once(M),
         NEW r \in RowSet, \A s \in M : s.ds # r.ds \/ s.key # r.key,
         NEW K, \A s \in M \cup {r} : <<s.key[1], s.key[2]>> \in K
  PROVE  Brings(Emit(next, << r >>), ctx, K)
<1> DEFINE one == << r >>
           N == M \cup {r}
<1>1. one \in Seq(RowSet) /\ ToSet(one) = {r}
  BY OneElement
<1>2. N \in SUBSET RowSet /\ ToSet(next.rows) \subseteq ToSet(ctx.rows) \cup N /\ {r} \subseteq N
      /\ \A s \in N : <<s.key[1], s.key[2]>> \in K
  OBVIOUS
<1>3. Once(N)
  BY DEF Once
<1> HIDE DEF one, N
<1>4. Brings(Emit(next, one), ctx, K)
  BY <1>1, <1>2, <1>3, EmitBrings
<1>5. QED
  BY <1>4 DEF one

\* The place of message i of env.
Place(env, i) == {<<env.id, i>>}

LEMMA QualityIs ==
  ASSUME NEW env \in RecordedEnvelope, NEW i \in Nat, NEW j \in Nat
  PROVE  /\ Quality(env, i, j) \in RowSet
         /\ Quality(env, i, j).ds = "data_quality_events"
         /\ Quality(env, i, j).key = <<env.id, i, j>>
<1>1. env.token \in Tokens \cup Conditions /\ NoTick \in Nat
      /\ "data_quality_events" \in Datasets /\ "data_quality_events" # "top_of_book"
  BY DEF RecordedEnvelope, NoTick, Datasets
<1>2. Quality(env, i, j) \in RowSet
  BY <1>1, RowIs DEF Quality
<1>3. QED
  BY <1>2 DEF Quality, Row

LEMMA FailureBrings ==
  ASSUME NEW ctx \in Contexts, NEW next \in Contexts, NEW env \in RecordedEnvelope, NEW i \in Nat,
         NEW M \in SUBSET RowSet, ToSet(next.rows) \subseteq ToSet(ctx.rows) \cup M, Once(M),
         \A s \in M : s.ds # "data_quality_events" \/ s.key # <<env.id, i, 0>>,
         \A s \in M : s.key[1] = env.id /\ s.key[2] = i
  PROVE  Brings(MessageFails(next, env, i), ctx, Place(env, i))
<1> DEFINE q == Quality(env, i, 0)
<1>1. q \in RowSet /\ q.ds = "data_quality_events" /\ q.key = <<env.id, i, 0>>
  BY QualityIs
<1>2. MessageFails(next, env, i) = Emit(next, << q >>)
  BY DEF MessageFails
<1> HIDE DEF q
<1>3. \A s \in M : s.ds # q.ds \/ s.key # q.key
  BY <1>1
<1>4. \A s \in M \cup {q} : <<s.key[1], s.key[2]>> \in Place(env, i)
  BY <1>1 DEF Place
<1>5. QED
  BY <1>1, <1>2, <1>3, <1>4, EmitOneBrings

LEMMA FailsBrings ==
  ASSUME NEW ctx \in Contexts, NEW next \in Contexts, ToSet(next.rows) \subseteq ToSet(ctx.rows),
         NEW env \in RecordedEnvelope, NEW i \in Nat
  PROVE  Brings(MessageFails(next, env, i), ctx, Place(env, i))
<1> DEFINE M == {}
<1>1. M \in SUBSET RowSet /\ ToSet(next.rows) \subseteq ToSet(ctx.rows) \cup M /\ Once(M)
      /\ (\A s \in M : s.ds # "data_quality_events" \/ s.key # <<env.id, i, 0>>)
      /\ \A s \in M : s.key[1] = env.id /\ s.key[2] = i
  BY DEF Once
<1> HIDE DEF M
<1>2. QED
  BY <1>1, FailureBrings

LEMMA RowBrings ==
  ASSUME NEW ctx \in Contexts, NEW env \in RecordedEnvelope, NEW i \in Nat,
         NEW r \in RowSet, r.key[1] = env.id, r.key[2] = i
  PROVE  Brings(Emit(ctx, << r >>), ctx, Place(env, i))
<1> DEFINE M == {}
           K == Place(env, i)
<1>1. M \in SUBSET RowSet /\ ToSet(ctx.rows) \subseteq ToSet(ctx.rows) \cup M /\ Once(M)
      /\ (\A s \in M : s.ds # r.ds \/ s.key # r.key)
      /\ \A s \in M \cup {r} : <<s.key[1], s.key[2]>> \in K
  BY DEF Once, Place
<1> HIDE DEF M, K
<1>2. Brings(Emit(ctx, << r >>), ctx, K)
  BY <1>1, EmitOneBrings
<1>3. QED
  BY <1>2 DEF K

LEMMA SnapshotBrings ==
  ASSUME NEW ctx \in Contexts, NEW next \in Contexts, ToSet(next.rows) \subseteq ToSet(ctx.rows),
         NEW env \in RecordedEnvelope, NEW i \in Nat,
         NEW t \in Traded, NEW tick \in Nat
  PROVE  Brings(Emit(next, SnapshotRows(env, i, t, tick)), ctx, Place(env, i))
<1> DEFINE a == Row(env, "book_snapshots", i, 0, t, tick)
           b == Row(env, "book_snapshot_levels", i, 0, t, NoTick)
           c == Row(env, "top_of_book", i, 0, t, NoTick)
           rows == << a, b, c >>
           N == {a, b, c}
<1>1. SnapshotRows(env, i, t, tick) = rows
  BY DEF SnapshotRows
<1>2. rows \in Seq(RowSet)
  BY <1>1, SnapshotRowsAre
<1>3. /\ a.ds = "book_snapshots" /\ b.ds = "book_snapshot_levels" /\ c.ds = "top_of_book"
      /\ a.key = <<env.id, i, 0>> /\ b.key = <<env.id, i, 0>> /\ c.key = <<env.id, i, 0>>
  BY DEF Row
<1> HIDE DEF a, b, c
<1>4. ToSet(rows) = N
  BY DEF ToSet
<1>5. Once(N)
  BY <1>3 DEF Once
<1>6. \A r \in N : <<r.key[1], r.key[2]>> \in Place(env, i)
  BY <1>3 DEF Place
<1> HIDE DEF rows, N
<1>7. N \in SUBSET RowSet
  BY <1>2, <1>4, RowsOfSeq
<1>8. ToSet(next.rows) \subseteq ToSet(ctx.rows) \cup N
  OBVIOUS
<1>9. Brings(Emit(next, rows), ctx, Place(env, i))
  BY <1>2, <1>4, <1>5, <1>6, <1>7, <1>8, EmitBrings
<1>10. QED
  BY <1>1, <1>9

LEMMA BookBrings ==
  ASSUME NEW ctx \in Contexts, NEW env \in RecordedEnvelope, NEW i \in DOMAIN env.msgs
  PROVE  Brings(BookMessage(ctx, env, i, env.msgs[i]), ctx, Place(env, i))
<1> DEFINE m == env.msgs[i]
           tick == TickOfBook(ctx, m)
           next == SetTickSize(ctx, m.token, tick)
           x == Emit(next, SnapshotRows(env, i, m.token, tick))
<1>1. i \in Nat /\ m.token \in Tokens /\ m.tick \in Nat
  BY MessageFields
<1>2. tick \in Nat
  <2>1. ctx.ticks[m.token] \in Nat /\ BaseTick[m.token] \in Nat
    BY <1>1, ParserAssumption DEF Contexts
  <2>2. QED
    BY <1>1, <2>1 DEF TickOfBook
<1>3. next \in Contexts /\ next.rows = ctx.rows
  BY <1>1, <1>2, SetTickSizeIs
<1>4. \/ BookMessage(ctx, env, i, m) \in {MessageFails(ctx, env, i), MessageFails(next, env, i)}
      \/ BookMessage(ctx, env, i, m) = x /\ m.token \in ctx.known
  BY DEF BookMessage
<1>5. m.token \in ctx.known => m.token \in Traded
  BY DEF Contexts
<1> HIDE DEF next, tick
<1>6. Brings(MessageFails(ctx, env, i), ctx, Place(env, i))
      /\ Brings(MessageFails(next, env, i), ctx, Place(env, i))
  BY <1>1, <1>3, FailsBrings
<1>7. m.token \in Traded => Brings(x, ctx, Place(env, i))
  BY <1>1, <1>2, <1>3, SnapshotBrings
<1> HIDE DEF x
<1>8. QED
  BY <1>4, <1>5, <1>6, <1>7

\* The changes before the first one that fails.
LEMMA KeptChanges ==
  ASSUME NEW l \in Nat, NEW failing \in SUBSET (1 .. l)
  PROVE  LET n == IF failing = {} THEN l ELSE Min(failing) - 1
         IN  n \in Nat /\ n <= l /\ \A j \in 1 .. n : j \notin failing
<1>1. CASE failing = {}
  BY <1>1
<1>2. CASE failing # {}
  <2> DEFINE low == Min(failing)
  <2>1. IsFiniteSet(1 .. l)
    BY FS_Interval
  <2>2. IsFiniteSet(failing) /\ failing \in SUBSET Int
    <3>1. IsFiniteSet(failing)
      BY <2>1, FS_Subset
    <3>2. QED
      BY <3>1
  <2>3. low \in failing /\ \A j \in failing : low <= j
    BY <1>2, <2>2, MinIsLeast
  <2> HIDE DEF low
  <2>4. low \in 1 .. l
    BY <2>3
  <2>5. \A j \in 1 .. low - 1 : j \notin failing
    BY <2>3, <2>4
  <2>6. QED
    BY <1>2, <2>4, <2>5 DEF low
<1>3. QED
  BY <1>1, <1>2

LEMMA PriceChangeBrings ==
  ASSUME NEW ctx \in Contexts, NEW env \in RecordedEnvelope, NEW i \in DOMAIN env.msgs
  PROVE  Brings(PriceChangeMessage(ctx, env, i, env.msgs[i]), ctx, Place(env, i))
<1> DEFINE m == env.msgs[i]
           failing == {j \in 1 .. Len(m.changes) :
                         m.changes[j].bad \/ m.changes[j].token \notin ctx.known}
           n == IF failing = {} THEN Len(m.changes) ELSE Min(failing) - 1
           parts == [j \in 1 .. n |-> ChangeRows(env, i, j, m.changes[j])]
           rows == FlattenSeq(parts)
           kept == Emit(ctx, rows)
           a(j) == Row(env, "book_updates", i, j, m.changes[j].token, NoTick)
           b(j) == Row(env, "top_of_book", i, j, m.changes[j].token, NoTick)
           N == {a(j) : j \in 1 .. n} \cup {b(j) : j \in 1 .. n}
<1>1. i \in Nat /\ m.changes \in Seq(Change)
  BY MessageFields
<1>2. Len(m.changes) \in Nat /\ \A j \in 1 .. Len(m.changes) : m.changes[j] \in Change
  BY <1>1, LenProperties, ElementOfSeq
<1>3. n \in Nat /\ n <= Len(m.changes) /\ \A j \in 1 .. n : j \notin failing
  BY <1>1, <1>2, KeptChanges
<1>4. PriceChangeMessage(ctx, env, i, m) \in
        {MessageFails(ctx, env, i), MessageFails(kept, env, i), kept}
  BY DEF PriceChangeMessage
<1> HIDE DEF n
<1>5. \A j \in 1 .. n : m.changes[j] \in Change /\ j \in Nat /\ m.changes[j].token \in Traded
  <2>1. \A j \in 1 .. n : j \in 1 .. Len(m.changes) /\ j \in Nat
    BY <1>2, <1>3
  <2>2. \A j \in 1 .. n : m.changes[j].token \in ctx.known
    BY <1>3, <2>1
  <2>3. ctx.known \subseteq Traded
    BY DEF Contexts
  <2>4. QED
    BY <1>2, <2>1, <2>2, <2>3
<1>6. ASSUME NEW j \in 1 .. n
      PROVE  /\ ChangeRows(env, i, j, m.changes[j]) \in Seq(RowSet)
             /\ ToSet(ChangeRows(env, i, j, m.changes[j])) \subseteq {a(j), b(j)}
             /\ a(j) \in RowSet /\ b(j) \in RowSet
             /\ a(j).ds = "book_updates" /\ a(j).key = <<env.id, i, j>>
             /\ b(j).ds = "top_of_book" /\ b(j).key = <<env.id, i, j>>
  <2> DEFINE change == m.changes[j]
             head == << a(j) >>
             rest == IF change.top THEN << b(j) >> ELSE << >>
  <2>1. change \in Change /\ j \in Nat /\ change.token \in Traded
    BY <1>5
  <2>2. /\ NoTick \in Nat /\ change.token \in Tokens \cup Conditions
        /\ "book_updates" \in Datasets \ {"top_of_book"}
    BY <2>1 DEF NoTick, Datasets, Change
  <2>3. /\ a(j).ds = "book_updates" /\ a(j).key = <<env.id, i, j>>
        /\ b(j).ds = "top_of_book" /\ b(j).key = <<env.id, i, j>>
    BY DEF Row
  <2>4. ChangeRows(env, i, j, change) = head \o rest
    BY DEF ChangeRows
  <2> HIDE DEF m
  <2>5. a(j) \in RowSet /\ b(j) \in RowSet
    BY <1>1, <2>1, <2>2, RowIs, TopRowIs
  <2> HIDE DEF a, b, change
  <2>6. head \in Seq(RowSet) /\ rest \in Seq(RowSet) /\ ToSet(head) = {a(j)}
        /\ ToSet(rest) \subseteq {b(j)}
    <3>1. << b(j) >> \in Seq(RowSet) /\ ToSet(<< b(j) >>) = {b(j)}
          /\ head \in Seq(RowSet) /\ ToSet(head) = {a(j)}
      BY <2>5, OneElement
    <3>2. << >> \in Seq(RowSet) /\ ToSet(<< >>) = {}
      BY EmptySeq DEF ToSet
    <3> HIDE DEF head
    <3>3. QED
      BY <3>1, <3>2
  <2> HIDE DEF head, rest
  <2>7. head \o rest \in Seq(RowSet) /\ ToSet(head \o rest) = ToSet(head) \cup ToSet(rest)
    BY <2>6, ConcatIs
  <2>8. QED
    BY <2>3, <2>4, <2>5, <2>6, <2>7 DEF change
<1> HIDE DEF a, b
<1>7. parts \in Seq(Seq(RowSet)) /\ DOMAIN parts = 1 .. n
  BY <1>3, <1>6, IsASeq
<1>8. \A j \in 1 .. n : parts[j] = ChangeRows(env, i, j, m.changes[j])
  OBVIOUS
<1> HIDE DEF parts, m
<1>9. rows \in Seq(RowSet) /\ ToSet(rows) = UNION {ToSet(parts[j]) : j \in DOMAIN parts}
  BY <1>7, FlattenIs
<1>10. ToSet(rows) \subseteq N
  <2>1. \A j \in DOMAIN parts : ToSet(parts[j]) \subseteq N
    <3>1. SUFFICES ASSUME NEW j \in 1 .. n PROVE ToSet(parts[j]) \subseteq N
      BY <1>7
    <3>2. ToSet(parts[j]) \subseteq {a(j), b(j)}
      BY <1>6, <1>8
    <3>3. a(j) \in N /\ b(j) \in N
      OBVIOUS
    <3> HIDE DEF N
    <3>4. QED
      BY <3>2, <3>3
  <2>2. QED
    BY <1>9, <2>1
<1>11. N \in SUBSET RowSet
  BY <1>6
<1>12. \A r \in N : /\ r.key[1] = env.id /\ r.key[2] = i
                    /\ r.ds # "data_quality_events"
                    /\ <<r.key[1], r.key[2]>> \in Place(env, i)
  BY <1>6 DEF Place
<1>13. Once(N)
  <2>1. SUFFICES ASSUME NEW r \in N, NEW s \in N, r.ds = s.ds, r.key = s.key PROVE r = s
    BY DEF Once
  <2>2. PICK j \in 1 .. n : r = a(j) \/ r = b(j)
    OBVIOUS
  <2>3. PICK k \in 1 .. n : s = a(k) \/ s = b(k)
    OBVIOUS
  <2>4. <<env.id, i, j>> = <<env.id, i, k>>
    BY <1>6, <2>1, <2>2, <2>3
  <2>5. j = k
    BY <2>4
  <2>6. a(j).ds # b(j).ds
    BY <1>6
  <2>7. QED
    BY <2>1, <2>2, <2>3, <2>5, <2>6
<1> HIDE DEF rows, N
<1>14. kept \in Contexts /\ ToSet(kept.rows) = ToSet(ctx.rows) \cup ToSet(rows)
  BY <1>9, EmitIs
<1>15. Brings(kept, ctx, Place(env, i))
  <2>1. ToSet(ctx.rows) \subseteq ToSet(ctx.rows) \cup N
    OBVIOUS
  <2>2. QED
    BY <1>9, <1>10, <1>11, <1>12, <1>13, <2>1, EmitBrings
<1> HIDE DEF kept
<1>16. Brings(MessageFails(kept, env, i), ctx, Place(env, i))
  <2>1. ToSet(kept.rows) \subseteq ToSet(ctx.rows) \cup N
    BY <1>10, <1>14
  <2>2. QED
    BY <1>1, <1>11, <1>12, <1>13, <1>14, <2>1, FailureBrings
<1>17. Brings(MessageFails(ctx, env, i), ctx, Place(env, i))
  BY <1>1, FailsBrings
<1>18. QED
  BY <1>4, <1>15, <1>16, <1>17 DEF m


LEMMA TradeBrings ==
  ASSUME NEW ctx \in Contexts, NEW env \in RecordedEnvelope, NEW i \in DOMAIN env.msgs
  PROVE  Brings(TradeMessage(ctx, env, i, env.msgs[i]), ctx, Place(env, i))
<1> DEFINE m == env.msgs[i]
           q == Quality(env, i, 1)
           note == << q >>
           noted == IF m.imprecise THEN Emit(ctx, note) ELSE ctx
           plain == Row(env, "trades", i, 0, m.token, NoTick)
           row == [plain EXCEPT !.id = <<"trade", m.trade>>]
           M == {q}
<1>1. /\ i \in Nat /\ 1 \in Nat /\ m.token \in Tokens \cup Conditions /\ m.trade \in TradeIds
      /\ NoTick \in Nat /\ "trades" \in Datasets \ {"top_of_book"}
  BY MessageFields DEF NoTick, Datasets
<1>2. q \in RowSet /\ q.ds = "data_quality_events" /\ q.key = <<env.id, i, 1>>
  BY <1>1, QualityIs
<1>3. row \in RowSet /\ row.ds = "trades" /\ row.key = <<env.id, i, 0>>
  <2>1. plain.ds = "trades" /\ plain.key = <<env.id, i, 0>>
    BY DEF Row
  <2>2. <<"trade", m.trade>> \in RowIds
    BY <1>1 DEF RowIds
  <2> HIDE DEF m
  <2>3. plain \in RowSet
    BY <1>1, RowIs
  <2> HIDE DEF plain
  <2>4. QED
    BY <2>1, <2>2, <2>3 DEF RowSet, ByIdentity
<1>4. TradeMessage(ctx, env, i, m) \in
        {MessageFails(ctx, env, i), MessageFails(noted, env, i), Emit(noted, << row >>)}
  BY DEF TradeMessage
<1> HIDE DEF row, q
<1>5. note \in Seq(RowSet) /\ ToSet(note) = {q}
  BY <1>2, OneElement
<1> HIDE DEF note
<1>6. noted \in Contexts /\ ToSet(noted.rows) \subseteq ToSet(ctx.rows) \cup M
  <2>1. Emit(ctx, note) \in Contexts /\ ToSet(Emit(ctx, note).rows) = ToSet(ctx.rows) \cup {q}
    <3> HIDE DEF noted, M, m
    <3>1. note \in Seq(RowSet)
      BY <1>5
    <3>2. /\ Emit(ctx, note) \in Contexts
          /\ ToSet(Emit(ctx, note).rows) = ToSet(ctx.rows) \cup ToSet(note)
      BY <3>1, EmitIs
    <3>3. QED
      BY <1>5, <3>2
  <2>2. QED
    BY <2>1
<1>7. M \in SUBSET RowSet /\ Once(M) /\ \A s \in M : s.key[1] = env.id /\ s.key[2] = i
  BY <1>2 DEF Once
<1>8. \A s \in M : s.key # <<env.id, i, 0>> /\ s.ds # row.ds
  BY <1>2, <1>3
<1>9. \A s \in M \cup {row} : <<s.key[1], s.key[2]>> \in Place(env, i)
  BY <1>2, <1>3 DEF Place
<1> HIDE DEF noted, M
<1>10. Brings(MessageFails(ctx, env, i), ctx, Place(env, i))
  BY <1>1, FailsBrings
<1>11. Brings(MessageFails(noted, env, i), ctx, Place(env, i))
  BY <1>1, <1>6, <1>7, <1>8, FailureBrings
<1>12. Brings(Emit(noted, << row >>), ctx, Place(env, i))
  BY <1>3, <1>6, <1>7, <1>8, <1>9, EmitOneBrings
<1>13. QED
  BY <1>4, <1>10, <1>11, <1>12

LEMMA ClobMessageBrings ==
  ASSUME NEW ctx \in Contexts, NEW env \in RecordedEnvelope, NEW i \in DOMAIN env.msgs
  PROVE  Brings(ClobMessage(ctx, env, i, env.msgs[i]), ctx, Place(env, i))
<1> DEFINE m == env.msgs[i]
           K == Place(env, i)
<1>1. /\ i \in Nat /\ m.token \in Tokens /\ m.tick \in Nat /\ NoTick \in Nat /\ 0 \in Nat
      /\ m.token \in Tokens \cup Conditions
  BY MessageFields DEF NoTick
<1>f. Brings(MessageFails(ctx, env, i), ctx, K)
  BY <1>1, FailsBrings
<1>2. CASE m.type = "book"
  <2>1. ClobMessage(ctx, env, i, m) = BookMessage(ctx, env, i, m)
    BY <1>2 DEF ClobMessage
  <2>2. QED
    BY <2>1, BookBrings
<1>3. CASE m.type = "price_change"
  <2>1. ClobMessage(ctx, env, i, m) = PriceChangeMessage(ctx, env, i, m)
    BY <1>3 DEF ClobMessage
  <2>2. QED
    BY <2>1, PriceChangeBrings
<1>4. CASE m.type = "last_trade_price"
  <2>1. ClobMessage(ctx, env, i, m) = TradeMessage(ctx, env, i, m)
    BY <1>4 DEF ClobMessage
  <2>2. QED
    BY <2>1, TradeBrings
<1>5. CASE m.type = "tick_size_change"
  <2> DEFINE next == SetTickSize(ctx, m.token, m.tick)
             r == TickRow(env, i, m)
             M == {}
  <2>1. ClobMessage(ctx, env, i, m) = TickSizeMessage(ctx, env, i, m)
    BY <1>5 DEF ClobMessage
  <2>2. TickSizeMessage(ctx, env, i, m) \in {MessageFails(ctx, env, i), Emit(next, << r >>)}
    BY DEF TickSizeMessage
  <2>3. next \in Contexts /\ next.rows = ctx.rows
    BY <1>1, SetTickSizeIs
  <2>4. r \in RowSet /\ r.key = <<env.id, i, 0>>
    BY TickRowIs
  <2> HIDE DEF next, r
  <2>5. M \in SUBSET RowSet /\ ToSet(next.rows) \subseteq ToSet(ctx.rows) \cup M /\ Once(M)
        /\ (\A s \in M : s.ds # r.ds \/ s.key # r.key)
        /\ \A s \in M \cup {r} : <<s.key[1], s.key[2]>> \in K
    BY <2>3, <2>4 DEF Once, Place
  <2> HIDE DEF M, K
  <2>6. Brings(Emit(next, << r >>), ctx, K)
    BY <2>3, <2>4, <2>5, EmitOneBrings
  <2>7. QED
    BY <1>f, <2>1, <2>2, <2>6 DEF K
<1>6. CASE m.type = "market_resolved"
  <2> DEFINE r == Row(env, "market_resolutions", i, 0, m.token, NoTick)
  <2>1. ClobMessage(ctx, env, i, m) = ResolutionMessage(ctx, env, i, m)
    BY <1>6 DEF ClobMessage
  <2>2. ResolutionMessage(ctx, env, i, m) \in {MessageFails(ctx, env, i), Emit(ctx, << r >>)}
    BY DEF ResolutionMessage
  <2>3. "market_resolutions" \in Datasets \ {"top_of_book"}
    BY DEF Datasets
  <2>4. r.key = <<env.id, i, 0>>
    BY DEF Row
  <2>5. r \in RowSet
    <3> HIDE DEF m
    <3>1. QED
      BY <1>1, <2>3, RowIs
  <2> HIDE DEF r
  <2>6. Brings(Emit(ctx, << r >>), ctx, K)
    BY <1>1, <2>4, <2>5, RowBrings
  <2>7. QED
    BY <1>f, <2>1, <2>2, <2>6
<1>7. CASE m.type = "best_bid_ask"
  <2> DEFINE r == Row(env, "top_of_book", i, 0, m.token, NoTick)
  <2>1. ClobMessage(ctx, env, i, m) = BestBidAskMessage(ctx, env, i, m)
    BY <1>7 DEF ClobMessage
  <2>2. \/ BestBidAskMessage(ctx, env, i, m) = MessageFails(ctx, env, i)
        \/ BestBidAskMessage(ctx, env, i, m) = Emit(ctx, << r >>) /\ m.token \in ctx.known
    BY DEF BestBidAskMessage
  <2>3. r.key = <<env.id, i, 0>>
    BY DEF Row
  <2>4. m.token \in ctx.known => r \in RowSet
    <3>1. m.token \in ctx.known => m.token \in Traded
      BY DEF Contexts
    <3> HIDE DEF m
    <3>2. QED
      BY <1>1, <3>1, TopRowIs
  <2> HIDE DEF r
  <2>5. m.token \in ctx.known => Brings(Emit(ctx, << r >>), ctx, K)
    BY <1>1, <2>3, <2>4, RowBrings
  <2>6. QED
    BY <1>f, <2>1, <2>2, <2>5
<1>8. CASE m.type = "new_market"
  <2>1. ClobMessage(ctx, env, i, m) = ctx
    BY <1>8 DEF ClobMessage
  <2>2. QED
    BY <2>1, BringsNothing
<1>9. CASE m.type \notin {"book", "price_change", "last_trade_price", "tick_size_change",
                          "market_resolved", "best_bid_ask", "new_market"}
  <2>1. ClobMessage(ctx, env, i, m) = MessageFails(ctx, env, i)
    BY <1>9 DEF ClobMessage
  <2>2. QED
    BY <1>f, <2>1
<1>10. QED
  BY <1>2, <1>3, <1>4, <1>5, <1>6, <1>7, <1>8, <1>9

\* The places of an envelope, and those of its first k messages.
Everywhere(env) == {<<env.id, i>> : i \in Nat}

UpTo(env, k) == {<<env.id, i>> : i \in 1 .. k}

LEMMA PlacesAre ==
  ASSUME NEW env
  PROVE  /\ \A i \in Nat : Place(env, i) \subseteq Everywhere(env)
         /\ \A k \in Nat : /\ UpTo(env, k) \subseteq Everywhere(env)
                           /\ UpTo(env, k) \cap Place(env, k + 1) = {}
                           /\ UpTo(env, k) \cup Place(env, k + 1) = UpTo(env, k + 1)
         /\ UpTo(env, 0) = {}
<1>1. \A i \in Nat : Place(env, i) \subseteq Everywhere(env)
  BY DEF Place, Everywhere
<1>2. \A k \in Nat : UpTo(env, k) \subseteq Everywhere(env)
  BY DEF UpTo, Everywhere
<1>3. UpTo(env, 0) = {}
  BY DEF UpTo
<1>4. ASSUME NEW k \in Nat
      PROVE  /\ UpTo(env, k) \cap Place(env, k + 1) = {}
             /\ UpTo(env, k) \cup Place(env, k + 1) = UpTo(env, k + 1)
  <2>1. UpTo(env, k) \cap Place(env, k + 1) = {}
    BY DEF UpTo, Place
  <2>2. k + 1 \in 1 .. k + 1 /\ (1 .. k) \subseteq 1 .. k + 1
        /\ \A i \in 1 .. k + 1 : i \in 1 .. k \/ i = k + 1
    OBVIOUS
  <2>3. QED
    BY <2>1, <2>2 DEF UpTo, Place
<1>5. QED
  BY <1>1, <1>2, <1>3, <1>4

LEMMA EnvelopeFailsBrings ==
  ASSUME NEW ctx \in Contexts, NEW next \in Contexts, ToSet(next.rows) \subseteq ToSet(ctx.rows),
         NEW env \in RecordedEnvelope
  PROVE  Brings(EnvelopeFails(next, env), ctx, Everywhere(env))
<1>1. EnvelopeFails(next, env) = MessageFails(next, env, 0) /\ 0 \in Nat
  BY DEF EnvelopeFails, MessageFails
<1>2. Brings(MessageFails(next, env, 0), ctx, Place(env, 0))
  BY <1>1, FailsBrings
<1>3. Place(env, 0) \subseteq Everywhere(env)
  BY PlacesAre
<1>4. QED
  BY <1>1, <1>2, <1>3, BringsMore

LEMMA OneRowBrings ==
  ASSUME NEW ctx \in Contexts, NEW env \in RecordedEnvelope,
         NEW ds \in Datasets \ {"top_of_book"}, NEW t \in Tokens \cup Conditions
  PROVE  Brings(Emit(ctx, << Row(env, ds, 1, 0, t, NoTick) >>), ctx, Everywhere(env))
<1> DEFINE r == Row(env, ds, 1, 0, t, NoTick)
<1>1. NoTick \in Nat /\ 0 \in Nat /\ 1 \in Nat /\ ds \in Datasets
  BY DEF NoTick
<1>2. r \in RowSet /\ r.key = <<env.id, 1, 0>>
  <2>1. r \in RowSet
    BY <1>1, RowIs
  <2>2. QED
    BY <2>1 DEF Row
<1> HIDE DEF r
<1>3. Brings(Emit(ctx, << r >>), ctx, Place(env, 1))
  BY <1>1, <1>2, RowBrings
<1>4. Place(env, 1) \subseteq Everywhere(env)
  BY <1>1, PlacesAre
<1>5. Brings(Emit(ctx, << r >>), ctx, Everywhere(env))
  BY <1>3, <1>4, BringsMore
<1>6. QED
  BY <1>5 DEF r

LEMMA ParseClobBrings ==
  ASSUME NEW ctx \in Contexts, NEW env \in RecordedEnvelope
  PROVE  Brings(ParseClob(ctx, env), ctx, Everywhere(env))
<1>1. env.form \in {"object", "list", "pong", "empty", "garbage"} /\ env.msgs \in Seq(Message)
  BY DEF RecordedEnvelope
<1>2. CASE env.form = "pong"
  <2>1. ParseClob(ctx, env) = ctx
    BY <1>2 DEF ParseClob
  <2>2. QED
    BY <2>1, BringsNothing
<1>3. CASE env.form \in {"garbage", "empty"}
  <2>1. ParseClob(ctx, env) = EnvelopeFails(ctx, env)
    BY <1>3 DEF ParseClob, EnvelopeFails, MessageFails
  <2>2. QED
    BY <2>1, EnvelopeFailsBrings
<1>4. CASE env.form \in {"object", "list"}
  <2> DEFINE n == Len(env.msgs)
  <2>1. n \in Nat /\ DOMAIN env.msgs = 1 .. n
    BY <1>1, LenProperties
  <2>2. PICK parsed \in ClobRuns(ctx, env) : ParseClob(ctx, env) = parsed[n]
    BY <1>4, ParseClobRuns
  <2> DEFINE Done == {k \in 0 .. n : Brings(parsed[k], ctx, UpTo(env, k))}
  <2>3. /\ parsed \in [0 .. n -> Contexts] /\ parsed[0] = ctx
        /\ \A i \in 1 .. n : parsed[i] = ClobMessage(parsed[i - 1], env, i, env.msgs[i])
    BY <2>2 DEF ClobRuns
  <2>4. 0 \in Done
    <3>1. Brings(parsed[0], ctx, UpTo(env, 0))
      BY <2>3, BringsNothing
    <3>2. QED
      BY <2>1, <3>1
  <2>5. ASSUME NEW k \in 0 .. n - 1, k \in Done PROVE k + 1 \in Done
    <3>1. k + 1 \in 1 .. n /\ k + 1 \in 0 .. n /\ (k + 1) - 1 = k /\ k \in Nat /\ k \in 0 .. n
      BY <2>1
    <3>2. parsed[k] \in Contexts /\ Brings(parsed[k], ctx, UpTo(env, k))
      BY <2>3, <2>5, <3>1
    <3>3. parsed[k + 1] = ClobMessage(parsed[k], env, k + 1, env.msgs[k + 1])
      BY <2>3, <3>1
    <3>4. Brings(parsed[k + 1], parsed[k], Place(env, k + 1))
      BY <1>4, <2>1, <3>1, <3>2, <3>3, ClobMessageBrings
    <3>5. UpTo(env, k) \cap Place(env, k + 1) = {}
          /\ UpTo(env, k) \cup Place(env, k + 1) = UpTo(env, k + 1)
      BY <3>1, PlacesAre
    <3>6. Brings(parsed[k + 1], ctx, UpTo(env, k) \cup Place(env, k + 1))
      BY <3>2, <3>4, <3>5, BringsThen
    <3>7. QED
      BY <3>1, <3>5, <3>6
  <2> HIDE DEF Done
  <2>6. \A k \in 0 .. n : k \in Done
    <3> HIDE DEF n
    <3>1. QED
      BY <2>1, <2>4, <2>5, IntervalInduction
  <2>7. n \in Done
    BY <2>1, <2>6
  <2>8. Brings(ParseClob(ctx, env), ctx, UpTo(env, n))
    BY <2>2, <2>7 DEF Done
  <2>9. UpTo(env, n) \subseteq Everywhere(env)
    BY <2>1, PlacesAre
  <2>10. QED
    BY <2>8, <2>9, BringsMore
<1>5. QED
  BY <1>1, <1>2, <1>3, <1>4

LEMMA ParseRtdsBrings ==
  ASSUME NEW ctx \in Contexts, NEW env \in RecordedEnvelope
  PROVE  Brings(ParseRtds(ctx, env), ctx, Everywhere(env))
<1> DEFINE r == Row(env, "btc_prices", 1, 0, env.token, NoTick)
<1>1. ParseRtds(ctx, env) \in {ctx, EnvelopeFails(ctx, env), MessageFails(ctx, env, 1), Emit(ctx, << r >>)}
  BY DEF ParseRtds, EnvelopeFails, MessageFails
<1>2. env.token \in Tokens \cup Conditions /\ "btc_prices" \in Datasets \ {"top_of_book"} /\ 1 \in Nat
  BY DEF RecordedEnvelope, Datasets
<1>3. Brings(Emit(ctx, << r >>), ctx, Everywhere(env))
  BY <1>2, OneRowBrings
<1>4. Brings(MessageFails(ctx, env, 1), ctx, Everywhere(env))
  <2>1. Brings(MessageFails(ctx, env, 1), ctx, Place(env, 1))
    BY <1>2, FailsBrings
  <2>2. Place(env, 1) \subseteq Everywhere(env)
    BY <1>2, PlacesAre
  <2>3. QED
    BY <2>1, <2>2, BringsMore
<1>5. Brings(EnvelopeFails(ctx, env), ctx, Everywhere(env)) /\ Brings(ctx, ctx, Everywhere(env))
  BY EnvelopeFailsBrings, BringsNothing
<1>6. QED
  BY <1>1, <1>3, <1>4, <1>5

LEMMA OperationalBrings ==
  ASSUME NEW ctx \in Contexts, NEW env \in RecordedEnvelope, IsOperational(env)
  PROVE  Brings(OperationalRow(ctx, env), ctx, Everywhere(env))
<1> DEFINE ds == OperationalDataset[env.hint]
<1>1. \/ OperationalRow(ctx, env) = EnvelopeFails(ctx, env)
      \/ OperationalRow(ctx, env) = Emit(ctx, << Row(env, ds, 1, 0, env.token, NoTick) >>)
  BY DEF OperationalRow
<1>2. env.hint \in {"connection_event", "heartbeat_event", "rest_request", "data_quality_event"}
  BY DEF IsOperational, OperationalDataset
<1>3. ds \in {"connection_events", "heartbeat_events", "rest_requests", "data_quality_events"}
  BY <1>2 DEF OperationalDataset
<1>4. ds \in Datasets \ {"top_of_book"} /\ env.token \in Tokens \cup Conditions
  BY <1>3 DEF Datasets, RecordedEnvelope
<1> HIDE DEF ds
<1>5. QED
  BY <1>1, <1>4, OneRowBrings, EnvelopeFailsBrings

LEMMA RestBrings ==
  ASSUME NEW ctx \in Contexts, NEW env \in RecordedEnvelope, WellFormed(env), NEW registered
  PROVE  Brings(RestRows(ctx, env, registered), ctx, Everywhere(env))
<1> DEFINE m == env.msgs[1]
           r == Row(env, "market_execution_metadata", 1, 0, env.cond, NoTick)
           x == Emit(ctx, << r >>)
           y == Emit(ctx, SnapshotRows(env, 1, env.token, m.tick))
           K == Everywhere(env)
<1>1. env.cond \in Conditions /\ env.token \in Tokens /\ env.msgs \in Seq(Message) /\ 1 \in Nat
  BY DEF RecordedEnvelope
<1>2. \/ RestRows(ctx, env, registered) \in {ctx, EnvelopeFails(ctx, env), x}
      \/ /\ RestRows(ctx, env, registered) = y
         /\ env.form = "object" /\ env.token \in ctx.known \cup TokensOf[env.cond]
  BY DEF RestRows, RestMarketExecutionMetadata, RestSnapshot
<1>3. Brings(x, ctx, K)
  <2>1. "market_execution_metadata" \in Datasets \ {"top_of_book"}
        /\ env.cond \in Tokens \cup Conditions
    BY <1>1 DEF Datasets
  <2>2. QED
    BY <2>1, OneRowBrings
<1>4. ASSUME env.form = "object", env.token \in ctx.known \cup TokensOf[env.cond]
      PROVE  Brings(y, ctx, K)
  <2>1. env.token \in Traded
    BY <1>1, <1>4 DEF Contexts, Traded
  <2>2. m.tick \in Nat
    <3>1. Len(env.msgs) = 1
      BY <1>4 DEF WellFormed
    <3>2. 1 \in DOMAIN env.msgs
      BY <1>1, <3>1, LenProperties
    <3>3. QED
      BY <3>2, MessageFields
  <2> HIDE DEF m
  <2>3. Brings(y, ctx, Place(env, 1))
    BY <1>1, <2>1, <2>2, SnapshotBrings
  <2>4. Place(env, 1) \subseteq K
    BY <1>1, PlacesAre
  <2> HIDE DEF y, K
  <2>5. QED
    BY <2>3, <2>4, BringsMore
<1> HIDE DEF x, y
<1>5. Brings(EnvelopeFails(ctx, env), ctx, K) /\ Brings(ctx, ctx, K)
  BY EnvelopeFailsBrings, BringsNothing
<1> HIDE DEF K
<1>6. Brings(RestRows(ctx, env, registered), ctx, K)
  BY <1>2, <1>3, <1>4, <1>5
<1>7. QED
  BY <1>6 DEF K


LEMMA GammaRowsOnce ==
  ASSUME NEW env \in RecordedEnvelope, NEW i \in Nat, NEW c \in Conditions
  PROVE  /\ Once(ToSet(GammaRows(env, i, c)))
         /\ \A r \in ToSet(GammaRows(env, i, c)) : r.key[1] = env.id /\ r.key[2] = i
<1> DEFINE m0 == Row(env, "markets", i, 0, c, NoTick)
           m == [m0 EXCEPT !.id = <<"market", c>>]
           a == Row(env, "market_execution_metadata", i, 0, c, NoTick)
           o0(j) == Row(env, "market_outcomes", i, j, c, NoTick)
           o(j) == [o0(j) EXCEPT !.id = <<"outcome", c, j>>]
           head == << m, a >>
           rest == [j \in 1 .. 2 |-> o(j)]
           X == {m, a, o(1), o(2)}
<1>1. /\ m.ds = "markets" /\ m.key = <<env.id, i, 0>>
      /\ a.ds = "market_execution_metadata" /\ a.key = <<env.id, i, 0>>
      /\ o(1).ds = "market_outcomes" /\ o(1).key = <<env.id, i, 1>>
      /\ o(2).ds = "market_outcomes" /\ o(2).key = <<env.id, i, 2>>
  BY DEF Row
<1>2. GammaRows(env, i, c) = head \o rest
  BY DEF GammaRows
<1> HIDE DEF m0, m, a, o0, o
<1>3. head \in Seq(X) /\ ToSet(head) \subseteq X
  BY DEF ToSet
<1>4. rest \in Seq(X) /\ ToSet(rest) \subseteq X
  BY DEF ToSet
<1>5. Once(X) /\ \A r \in X : r.key[1] = env.id /\ r.key[2] = i
  BY <1>1 DEF Once
<1> HIDE DEF head, rest, X
<1>6. ToSet(head \o rest) \subseteq X
  BY <1>3, <1>4, ConcatIs
<1>7. QED
  BY <1>2, <1>5, <1>6 DEF Once

LEMMA MarketRowsBring ==
  ASSUME NEW ctx \in Contexts, NEW env \in RecordedEnvelope
  PROVE  Brings(MarketRows(ctx, env), ctx, Everywhere(env))
<1> DEFINE n == Len(env.msgs)
           matched == {i \in 1 .. n : env.msgs[i].type = "btc_15m"}
           failing  == {i \in matched : env.msgs[i].bad # "no"}
           read     == IF failing = {} THEN matched ELSE {i \in matched : i < Min(failing)}
           more     == UNION {TokensOf[env.msgs[i].cond] : i \in read}
           learnt   == [ctx EXCEPT !.known = @ \cup more]
           parts    == [k \in 1 .. n |->
                          IF k \in matched THEN GammaRows(env, k, env.msgs[k].cond) ELSE << >>]
           rows     == FlattenSeq(parts)
           x        == Emit(learnt, rows)
<1>1. env.msgs \in Seq(Message) /\ n \in Nat /\ DOMAIN env.msgs = 1 .. n
  <2>1. env.msgs \in Seq(Message)
    BY DEF RecordedEnvelope
  <2>2. QED
    BY <2>1, LenProperties
<1>2. \A i \in 1 .. n : i \in Nat /\ env.msgs[i].cond \in Conditions
  BY <1>1, MessageFields
<1>3. more \in SUBSET Traded
  <2>1. \A i \in read : i \in 1 .. n
    OBVIOUS
  <2>2. \A i \in read : TokensOf[env.msgs[i].cond] \in SUBSET Traded
    BY <1>2, <2>1 DEF Traded
  <2>3. QED
    BY <2>2
<1>4. learnt \in Contexts /\ learnt.rows = ctx.rows
  <2> HIDE DEF more
  <2>1. QED
    BY <1>3 DEF Contexts
<1>5. MarketRows(ctx, env) \in {EnvelopeFails(ctx, env), EnvelopeFails(learnt, env), x}
  BY DEF MarketRows
<1> HIDE DEF learnt, failing
<1>6. Brings(EnvelopeFails(ctx, env), ctx, Everywhere(env))
      /\ Brings(EnvelopeFails(learnt, env), ctx, Everywhere(env))
  BY <1>4, EnvelopeFailsBrings
<1>7. \A k \in 1 .. n : /\ parts[k] \in Seq(RowSet) /\ Once(ToSet(parts[k]))
                        /\ \A r \in ToSet(parts[k]) : r.key[1] = env.id /\ r.key[2] = k
  <2>1. << >> \in Seq(RowSet) /\ ToSet(<< >>) = {}
    BY EmptySeq DEF ToSet
  <2>2. SUFFICES ASSUME NEW k \in 1 .. n
                 PROVE  /\ parts[k] \in Seq(RowSet) /\ Once(ToSet(parts[k]))
                        /\ \A r \in ToSet(parts[k]) : r.key[1] = env.id /\ r.key[2] = k
    OBVIOUS
  <2> DEFINE g == GammaRows(env, k, env.msgs[k].cond)
  <2>3. /\ g \in Seq(RowSet) /\ Once(ToSet(g))
        /\ \A r \in ToSet(g) : r.key[1] = env.id /\ r.key[2] = k
    BY <1>2, GammaRowsAre, GammaRowsOnce
  <2>4. parts[k] = IF k \in matched THEN g ELSE << >>
    OBVIOUS
  <2> HIDE DEF parts, g, matched
  <2>5. CASE k \in matched
    BY <2>3, <2>4, <2>5
  <2>6. CASE k \notin matched
    BY <2>1, <2>4, <2>6 DEF Once
  <2>7. QED
    BY <2>5, <2>6
<1>8. parts \in Seq(Seq(RowSet)) /\ DOMAIN parts = 1 .. n
  <2>1. parts \in [1 .. n -> Seq(RowSet)]
    <3>1. \A k \in 1 .. n : parts[k] \in Seq(RowSet)
      BY <1>7
    <3>2. QED
      BY <3>1
  <2> HIDE DEF parts
  <2>2. QED
    BY <1>1, <2>1, SeqDef
<1> HIDE DEF parts
<1>9. rows \in Seq(RowSet) /\ ToSet(rows) = UNION {ToSet(parts[k]) : k \in DOMAIN parts}
  BY <1>8, FlattenIs
<1>10. \A r \in ToSet(rows) : \E k \in 1 .. n : r \in ToSet(parts[k])
  BY <1>8, <1>9
<1>11. Once(ToSet(rows))
  <2>1. SUFFICES ASSUME NEW r \in ToSet(rows), NEW s \in ToSet(rows), r.ds = s.ds, r.key = s.key
                 PROVE  r = s
    BY DEF Once
  <2>2. PICK k \in 1 .. n : r \in ToSet(parts[k])
    BY <1>10
  <2>3. PICK l \in 1 .. n : s \in ToSet(parts[l])
    BY <1>10
  <2>4. k = l
    BY <1>7, <2>1, <2>2, <2>3
  <2>5. QED
    BY <1>7, <2>1, <2>2, <2>3, <2>4 DEF Once
<1>12. \A r \in ToSet(rows) : <<r.key[1], r.key[2]>> \in Everywhere(env)
  BY <1>2, <1>7, <1>10 DEF Everywhere
<1> HIDE DEF rows
<1>13. ToSet(rows) \in SUBSET RowSet
  BY <1>9, RowsOfSeq
<1>14. ToSet(learnt.rows) \subseteq ToSet(ctx.rows) \cup ToSet(rows)
  BY <1>4
<1>15. Brings(x, ctx, Everywhere(env))
  BY <1>4, <1>9, <1>11, <1>12, <1>13, <1>14, EmitBrings
<1> HIDE DEF x
<1>16. QED
  BY <1>5, <1>6, <1>15

LEMMA EnvelopeBrings ==
  ASSUME NEW ctx \in Contexts, NEW env \in RecordedEnvelope, WellFormed(env), NEW registered
  PROVE  Brings(EnvelopeRows(ctx, env, registered), ctx, Everywhere(env))
<1>1. \/ EnvelopeRows(ctx, env, registered) \in
           {ctx, MarketRows(ctx, env), RestRows(ctx, env, registered), ParseClob(ctx, env),
            ParseRtds(ctx, env)}
      \/ EnvelopeRows(ctx, env, registered) = OperationalRow(ctx, env) /\ IsOperational(env)
  BY DEF EnvelopeRows
<1>2. Brings(ctx, ctx, Everywhere(env))
  BY BringsNothing
<1>3. QED
  BY <1>1, <1>2, MarketRowsBring, RestBrings, ParseClobBrings, ParseRtdsBrings, OperationalBrings


-----------------------------------------------------------------------------
(* A batch publishes no part of a message twice *)

\* The envelopes of the files S.
IdsOf(S) == {env.id : env \in UNION {ToSet(FileOf[f].envelopes) : f \in S}}

LEMMA EnvelopeIsWhere ==
  ASSUME NEW f \in Files, NEW g \in Files, NEW a \in ToSet(FileOf[f].envelopes),
         NEW b \in ToSet(FileOf[g].envelopes), a.id = b.id
  PROVE  f = g /\ a = b
<1>1. PICK j \in DOMAIN FileOf[f].envelopes : a = FileOf[f].envelopes[j]
  BY DEF ToSet
<1>2. PICK k \in DOMAIN FileOf[g].envelopes : b = FileOf[g].envelopes[k]
  BY DEF ToSet
<1>3. f = g /\ j = k
  BY <1>1, <1>2, NormalizerAssumption
<1>4. QED
  BY <1>1, <1>2, <1>3

LEMMA IdsAre ==
  ASSUME NEW S \in SUBSET Files, NEW T \in SUBSET Files
  PROVE  /\ S \subseteq T => IdsOf(S) \subseteq IdsOf(T)
         /\ S \cap T = {} => IdsOf(S) \cap IdsOf(T) = {}
         /\ IdsOf(S \cup T) = IdsOf(S) \cup IdsOf(T)
<1>1. IdsOf(S \cup T) = IdsOf(S) \cup IdsOf(T) /\ (S \subseteq T => IdsOf(S) \subseteq IdsOf(T))
  BY DEF IdsOf
<1>2. ASSUME S \cap T = {}, NEW x \in IdsOf(S) \cap IdsOf(T) PROVE FALSE
  <2>1. PICK f \in S : \E a \in ToSet(FileOf[f].envelopes) : a.id = x
    BY <1>2 DEF IdsOf
  <2>2. PICK a \in ToSet(FileOf[f].envelopes) : a.id = x
    BY <2>1
  <2>3. PICK g \in T : \E b \in ToSet(FileOf[g].envelopes) : b.id = x
    BY <1>2 DEF IdsOf
  <2>4. PICK b \in ToSet(FileOf[g].envelopes) : b.id = x
    BY <2>3
  <2>5. f \in Files /\ g \in Files
    OBVIOUS
  <2>6. f = g
    BY <2>2, <2>4, <2>5, EnvelopeIsWhere
  <2>7. QED
    BY <1>2, <2>6
<1>3. QED
  BY <1>1, <1>2

\* Files that are each read once give each envelope once.
LEMMA EnvelopesDistinct ==
  ASSUME NEW entries \in Seq(Files), IsInjective(entries)
  PROVE  LET envs == Envelopes(entries)
         IN  \A j, k \in 1 .. Len(envs) : envs[j].id = envs[k].id => j = k
<1> DEFINE n == Len(entries)
           parts == [k \in 1 .. n |-> FileOf[entries[k]].envelopes]
           envs == Envelopes(entries)
<1>1. n \in Nat /\ DOMAIN entries = 1 .. n /\ \A k \in 1 .. n : entries[k] \in Files
  BY LenProperties, ElementOfSeq
<1>2. parts \in [1 .. n -> Seq(WellFormedEnvelopes)] /\ DOMAIN parts = 1 .. n
  BY <1>1, FilesAre
<1>3. Envelopes(entries) = FlattenSeq(parts)
  BY DEF Envelopes
<1>4. \A k \in 1 .. n : parts[k] = FileOf[entries[k]].envelopes
  OBVIOUS
<1>5. envs \in Seq(WellFormedEnvelopes)
      /\ ToSet(envs) = UNION {ToSet(FileOf[f].envelopes) : f \in ToSet(entries)}
  BY EnvelopesAre
<1> HIDE DEF parts
<1>6. parts \in Seq(Seq(WellFormedEnvelopes))
  BY <1>1, <1>2, SeqDef
<1>7. \A i \in DOMAIN parts : IsInjective(parts[i])
  <2>1. SUFFICES ASSUME NEW i \in 1 .. n PROVE IsInjective(FileOf[entries[i]].envelopes)
    BY <1>2, <1>4
  <2>2. entries[i] \in Files
    BY <1>1
  <2>3. QED
    BY <2>2, NormalizerAssumption DEF IsInjective
<1>8. \A i, j \in DOMAIN parts : i # j => ToSet(parts[i]) \cap ToSet(parts[j]) = {}
  <2>1. SUFFICES ASSUME NEW i \in 1 .. n, NEW j \in 1 .. n, i # j,
                        NEW e \in ToSet(parts[i]) \cap ToSet(parts[j])
                 PROVE  FALSE
    BY <1>2
  <2>2. /\ entries[i] \in Files /\ entries[j] \in Files
        /\ e \in ToSet(FileOf[entries[i]].envelopes) /\ e \in ToSet(FileOf[entries[j]].envelopes)
    BY <1>1, <1>4, <2>1
  <2>3. entries[i] = entries[j]
    BY <2>2, EnvelopeIsWhere
  <2>4. QED
    BY <1>1, <2>1, <2>3 DEF IsInjective
<1>9. IsInjective(envs)
  BY <1>3, <1>6, <1>7, <1>8, FlattenDistinct
<1> HIDE DEF envs
<1>10. Len(envs) \in Nat /\ DOMAIN envs = 1 .. Len(envs)
       /\ \A k \in 1 .. Len(envs) : envs[k] \in ToSet(envs)
  BY <1>5, LenProperties DEF ToSet
<1>11. ASSUME NEW j \in 1 .. Len(envs), NEW k \in 1 .. Len(envs), envs[j].id = envs[k].id
       PROVE  j = k
  <2>1. PICK f \in ToSet(entries) : envs[j] \in ToSet(FileOf[f].envelopes)
    BY <1>5, <1>10
  <2>2. PICK g \in ToSet(entries) : envs[k] \in ToSet(FileOf[g].envelopes)
    BY <1>5, <1>10
  <2>3. f \in Files /\ g \in Files
    BY RowsOfSeq
  <2>4. envs[j] = envs[k]
    BY <1>11, <2>1, <2>2, <2>3, EnvelopeIsWhere
  <2>5. QED
    BY <1>9, <1>10, <2>4 DEF IsInjective
<1>12. QED
  BY <1>11 DEF envs

\* The rows of a batch come each from another part of a message of its files.
LEMMA ParsedOnce ==
  ASSUME NEW entries \in Seq(Files), IsInjective(entries), registry \in Registry
  PROVE  /\ Once(ToSet(Parsed(entries)))
         /\ \A r \in ToSet(Parsed(entries)) : r.key[1] \in IdsOf(ToSet(entries))
<1> DEFINE envs == Envelopes(entries)
           n == Len(envs)
           Of(k) == UNION {Everywhere(envs[l]) : l \in 1 .. k}
<1>1. n \in Nat /\ DOMAIN envs = 1 .. n
      /\ \A k \in 1 .. n : envs[k] \in RecordedEnvelope /\ WellFormed(envs[k])
  <2>1. envs \in Seq(WellFormedEnvelopes)
    BY EnvelopesAre
  <2> HIDE DEF envs
  <2>2. n \in Nat /\ DOMAIN envs = 1 .. n /\ \A k \in 1 .. n : envs[k] \in WellFormedEnvelopes
    BY <2>1, LenProperties, ElementOfSeq
  <2>3. QED
    BY <2>2 DEF WellFormedEnvelopes
<1>2. PICK parsed \in BatchRuns(envs) : Parsed(entries) = parsed[n].rows
  BY ParsedRuns
<1>3. \A j, k \in 1 .. n : envs[j].id = envs[k].id => j = k
  BY EnvelopesDistinct
<1>4. \A k \in 1 .. n : envs[k].id \in IdsOf(ToSet(entries))
  <2>1. \A k \in 1 .. n : envs[k] \in ToSet(envs)
    BY <1>1 DEF ToSet
  <2>2. QED
    BY <2>1, EnvelopesAre DEF IdsOf
<1> HIDE DEF envs
<1>5. /\ parsed \in [0 .. n -> Contexts] /\ parsed[0].rows = << >>
      /\ \A k \in 1 .. n : parsed[k] = EnvelopeRows(parsed[k - 1], envs[k], Registered)
  BY <1>2 DEF BatchRuns, Context
<1> DEFINE P == {k \in 0 .. n : Brings(parsed[k], parsed[0], Of(k))}
<1>6. 0 \in P
  <2>1. 0 \in 0 .. n
    BY <1>1
  <2>2. Brings(parsed[0], parsed[0], Of(0))
    BY BringsNothing
  <2>3. QED
    BY <2>1, <2>2
<1>7. ASSUME NEW k \in 0 .. n - 1, k \in P PROVE k + 1 \in P
  <2>1. k + 1 \in 1 .. n /\ k + 1 \in 0 .. n /\ (k + 1) - 1 = k /\ k \in 0 .. n /\ 1 .. k \subseteq 1 .. n
        /\ k + 1 \notin 1 .. k /\ 1 .. k + 1 = (1 .. k) \cup {k + 1}
    BY <1>1
  <2>2. parsed[k] \in Contexts /\ parsed[k + 1] = EnvelopeRows(parsed[k], envs[k + 1], Registered)
    BY <1>5, <2>1
  <2>3. Brings(parsed[k + 1], parsed[k], Everywhere(envs[k + 1]))
    BY <1>1, <2>1, <2>2, EnvelopeBrings
  <2>4. Of(k) \cap Everywhere(envs[k + 1]) = {}
    <3>1. SUFFICES ASSUME NEW l \in 1 .. k, NEW x \in Everywhere(envs[l]) \cap Everywhere(envs[k + 1])
                   PROVE  FALSE
      OBVIOUS
    <3>2. x[1] = envs[l].id /\ x[1] = envs[k + 1].id
      BY DEF Everywhere
    <3>3. l = k + 1
      BY <1>3, <2>1, <3>2
    <3>4. QED
      BY <2>1, <3>3
  <2>5. Of(k) \cup Everywhere(envs[k + 1]) = Of(k + 1)
    BY <2>1
  <2>6. Brings(parsed[k], parsed[0], Of(k))
    BY <1>7
  <2> HIDE DEF Of
  <2>7. Brings(parsed[k + 1], parsed[0], Of(k) \cup Everywhere(envs[k + 1]))
    BY <2>3, <2>4, <2>6, BringsThen
  <2>8. QED
    BY <2>1, <2>5, <2>7
<1> HIDE DEF P
<1>8. \A k \in 0 .. n : k \in P
  <2> HIDE DEF n
  <2>1. QED
    BY <1>1, <1>6, <1>7, IntervalInduction
<1>9. Brings(parsed[n], parsed[0], Of(n))
  <2>1. n \in 0 .. n
    BY <1>1
  <2>2. n \in P
    BY <1>8, <2>1
  <2> HIDE DEF Of, n
  <2>3. QED
    BY <2>2 DEF P
<1>10. PICK N \in SUBSET RowSet :
         /\ ToSet(parsed[n].rows) \subseteq ToSet(parsed[0].rows) \cup N
         /\ Once(N) /\ \A r \in N : <<r.key[1], r.key[2]>> \in Of(n)
  BY <1>9 DEF Brings
<1>11. ToSet(parsed[n].rows) \subseteq N
  <2>1. ToSet(<< >>) = {}
    BY DEF ToSet
  <2>2. QED
    BY <1>5, <1>10, <2>1
<1>12. \A r \in N : r.key[1] \in IdsOf(ToSet(entries))
  <2>1. \A x \in Of(n) : x[1] \in IdsOf(ToSet(entries))
    <3>1. SUFFICES ASSUME NEW l \in 1 .. n, NEW x \in Everywhere(envs[l])
                   PROVE  x[1] \in IdsOf(ToSet(entries))
      OBVIOUS
    <3>2. x[1] = envs[l].id
      BY DEF Everywhere
    <3>3. QED
      BY <1>4, <3>2
  <2> HIDE DEF Of
  <2>2. \A r \in N : <<r.key[1], r.key[2]>>[1] = r.key[1]
    OBVIOUS
  <2>3. QED
    BY <1>10, <2>1, <2>2
<1>13. QED
  BY <1>2, <1>10, <1>11, <1>12 DEF Once

\* The rows PublishedOnce speaks of.
CountedOf(S) == {r \in S : r.ds \notin {"tick_size_changes", "normalization_runs"}}

LEMMA DeduplicatedOnce ==
  ASSUME NEW entries \in Seq(Files), IsInjective(entries), registry \in Registry,
         NEW first \in Seq(RowSet), \A r \in ToSet(first) : r.ds = "tick_size_changes"
  PROVE  LET rows == CountedOf(Deduplicated(first \o Parsed(entries)))
         IN  Once(rows) /\ \A r \in rows : r.key[1] \in IdsOf(ToSet(entries))
<1> DEFINE parsed == Parsed(entries)
           all == first \o parsed
           rows == CountedOf(Deduplicated(all))
<1>1. parsed \in Seq(RowSet)
  BY ParsedTells
<1>2. Once(ToSet(parsed)) /\ \A r \in ToSet(parsed) : r.key[1] \in IdsOf(ToSet(entries))
  BY ParsedOnce
<1> HIDE DEF parsed
<1>3. all \in Seq(RowSet) /\ ToSet(all) = ToSet(first) \cup ToSet(parsed)
  BY <1>1, ConcatIs
<1> HIDE DEF all
<1>4. Deduplicated(all) \subseteq ToSet(all)
  BY <1>3, DeduplicatedKeeps
<1>5. rows \subseteq ToSet(parsed)
  BY <1>3, <1>4 DEF CountedOf
<1> HIDE DEF rows
<1>6. Once(rows) /\ \A r \in rows : r.key[1] \in IdsOf(ToSet(entries))
  BY <1>2, <1>5 DEF Once
<1>7. QED
  BY <1>6 DEF rows, all, parsed

LEMMA BatchOnce ==
  ASSUME NormalizerTypeOK, NEW opt, NEW entries \in Seq(Files), IsInjective(entries)
  PROVE  LET rows == CountedOf(BatchRows(opt, entries))
         IN  Once(rows) /\ \A r \in rows : r.key[1] \in IdsOf(ToSet(entries))
<1> DEFINE first == IF tickDone THEN << >> ELSE TickBackfillRows(opt)
           rows == first \o Parsed(entries)
<1>0. registry \in Registry /\ finalized \in SUBSET Files
  BY DEF NormalizerTypeOK
<1>1. first \in Seq(RowSet) /\ \A r \in ToSet(first) : r.ds = "tick_size_changes"
  <2>1. << >> \in Seq(RowSet) /\ ToSet(<< >>) = {}
    BY EmptySeq DEF ToSet
  <2>2. /\ TickBackfillRows(opt) \in Seq(RowSet)
        /\ \A r \in ToSet(TickBackfillRows(opt)) : r.ds = "tick_size_changes"
    BY <1>0, BackfillTells
  <2>3. QED
    BY <2>1, <2>2
<1>2. BatchRows(opt, entries) = Deduplicated(rows)
  <2>1. BatchRows(opt, entries) = Only({Deduplicated(x) : x \in {rows}})
    BY DEF BatchRows
  <2>2. {Deduplicated(x) : x \in {rows}} = {Deduplicated(rows)}
    OBVIOUS
  <2>3. QED
    BY <2>1, <2>2, OnlyIs
<1> HIDE DEF first
<1>3. QED
  BY <1>0, <1>1, <1>2, DeduplicatedOnce

-----------------------------------------------------------------------------
(* As long as no run dies and none overlaps another, every part is published *)
(* once                                                                      *)

\* The files a run has still to publish ...
Pending(r) == IF r.pc = "list" THEN r.groups \ {NextGroup(r.groups)} ELSE r.groups

\* ... hold each part once, of the files it reads, and none that is out among
\* the rows D; its files are marked one by one, and all when it ends.
RunOnce(r, D, done) ==
  /\ Once(CountedOf(UNION r.groups))
  /\ \A s \in CountedOf(UNION r.groups) : s.key[1] \in IdsOf(r.batch)
  /\ \A g, h \in r.groups : g # h => g \cap h = {}
  /\ \A s \in CountedOf(UNION Pending(r)) : \A t \in D : t.ds # s.ds \/ t.key # s.key
  /\ r.pc = "idle" => r.groups = {}
  /\ r.batch \subseteq done \cup ToSet(r.files)
  /\ (r.pc \in {"idle", "begin", "export", "migrate"} \/ r.mode = "reindex") => r.batch \subseteq done

\* One run at a time; what is out is out once, and comes from files that are
\* marked or that the run under way is to mark.
OneRunAtATime ==
  /\ \A p, q \in Procs : run[p].pc # "idle" /\ run[q].pc # "idle" => p = q
  /\ Once(CountedOf(DOMAIN parquet))
  /\ \A s \in CountedOf(DOMAIN parquet) :
       /\ parquet[s] = 1
       /\ s.key[1] \in IdsOf(processed) \/ \E p \in Procs : s.key[1] \in IdsOf(run[p].batch)
  /\ \A p \in Procs : RunOnce(run[p], DOMAIN parquet, processed)

OnceInv == deaths = 0 /\ ~overlap => OneRunAtATime

LEMMA CountedOfMore ==
  ASSUME NEW S, NEW T, S \subseteq T
  PROVE  CountedOf(S) \subseteq CountedOf(T)
BY DEF CountedOf

LEMMA PendingIs ==
  ASSUME NEW r
  PROVE  /\ Pending(r) \subseteq r.groups
         /\ CountedOf(UNION Pending(r)) \subseteq CountedOf(UNION r.groups)
<1>1. Pending(r) \subseteq r.groups
  BY DEF Pending
<1>2. QED
  BY <1>1, CountedOfMore

\* A run without rows of its own: one that reads, or that is past its files.
LEMMA QuietRunOnce ==
  ASSUME NEW r, NEW D, NEW done, CountedOf(UNION r.groups) = {},
         \A g, h \in r.groups : g = h, r.pc = "idle" => r.groups = {},
         r.batch \subseteq done \cup ToSet(r.files),
         (r.pc \in {"idle", "begin", "export", "migrate"} \/ r.mode = "reindex")
            => r.batch \subseteq done
  PROVE  RunOnce(r, D, done)
<1>1. CountedOf(UNION Pending(r)) = {}
  BY PendingIs
<1>2. QED
  BY <1>1 DEF RunOnce, Once

LEMMA NoRowsCounted == CountedOf(UNION {}) = {} /\ CountedOf(UNION {{RunRow}}) = {}
BY DEF CountedOf, RunRow

LEMMA IdleRunOnce ==
  ASSUME NEW r, NEW D, NEW done, r.groups = {}, r.batch = {}
  PROVE  RunOnce(r, D, done)
BY NoRowsCounted, QuietRunOnce

LEMMA NoRunOnce ==
  ASSUME NEW D, NEW done
  PROVE  RunOnce(NoRun, D, done)
<1>1. NoRun.groups = {} /\ NoRun.batch = {}
  BY DEF NoRun
<1>2. QED
  BY <1>1, IdleRunOnce

\* A run goes on with its batch and no more files to publish than before.
LEMMA StillOnce ==
  ASSUME NEW r, NEW s, NEW D, NEW done, NEW more, RunOnce(s, D, done), done \subseteq more,
         r.groups \subseteq s.groups, Pending(r) \subseteq Pending(s), r.batch = s.batch,
         r.pc # "idle", r.mode = s.mode, r.batch \subseteq more \cup ToSet(r.files),
         r.pc \in {"begin", "export", "migrate"} => r.batch \subseteq more
  PROVE  RunOnce(r, D, more)
<1>1. CountedOf(UNION r.groups) \subseteq CountedOf(UNION s.groups)
      /\ CountedOf(UNION Pending(r)) \subseteq CountedOf(UNION Pending(s))
  BY CountedOfMore
<1>2. Once(CountedOf(UNION r.groups))
  BY <1>1 DEF RunOnce, Once
<1>3. r.mode = "reindex" => r.batch \subseteq more
  BY DEF RunOnce
<1>4. /\ \A x \in CountedOf(UNION r.groups) : x.key[1] \in IdsOf(r.batch)
      /\ \A g, h \in r.groups : g # h => g \cap h = {}
      /\ \A x \in CountedOf(UNION Pending(r)) : \A t \in D : t.ds # x.ds \/ t.key # x.key
  BY <1>1 DEF RunOnce
<1>5. QED
  BY <1>2, <1>3, <1>4 DEF RunOnce

LEMMA StepOfARunOnce ==
  ASSUME NormalizerTypeOK, OneRunAtATime, NEW p \in Procs, NEW r, run' = [run EXCEPT ![p] = r],
         run[p].pc # "idle" \/ \A q \in Procs \ {p} : run[q].pc = "idle",
         processed \subseteq processed', processed' \in SUBSET Files,
         Once(CountedOf(DOMAIN parquet')),
         \A s \in CountedOf(DOMAIN parquet') :
            parquet'[s] = 1 /\ (s \in DOMAIN parquet \/ s.key[1] \in IdsOf(run[p].batch)),
         r.batch = run[p].batch \/ run[p].batch \subseteq processed',
         RunOnce(r, DOMAIN parquet', processed')
  PROVE  OneRunAtATime'
<1>t. run \in [Procs -> RunStates] /\ processed \in SUBSET Files
  BY DEF NormalizerTypeOK
<1>b. \A q \in Procs : run[q].batch \in SUBSET Files
  BY <1>t DEF RunStates
<1>1. \A q \in Procs : q # p => run[q].pc = "idle"
  BY DEF OneRunAtATime
<1>2. run'[p] = r /\ \A q \in Procs : q # p => run'[q] = run[q]
  BY <1>t
<1>3. \A q, s \in Procs : run'[q].pc # "idle" /\ run'[s].pc # "idle" => q = s
  BY <1>1, <1>2
<1>4. IdsOf(processed) \subseteq IdsOf(processed')
  BY <1>t, IdsAre
<1>5. ASSUME NEW s \in CountedOf(DOMAIN parquet')
      PROVE  s.key[1] \in IdsOf(processed') \/ \E q \in Procs : s.key[1] \in IdsOf(run'[q].batch)
  <2>1. \/ s.key[1] \in IdsOf(processed)
        \/ \E q \in Procs : s.key[1] \in IdsOf(run[q].batch)
    <3>1. CASE s \in DOMAIN parquet
      <4>1. s \in CountedOf(DOMAIN parquet)
        BY <1>5, <3>1 DEF CountedOf
      <4>2. QED
        BY <4>1 DEF OneRunAtATime
    <3>2. CASE s.key[1] \in IdsOf(run[p].batch)
      BY <3>2
    <3>3. QED
      BY <1>5, <3>1, <3>2
  <2>2. ASSUME NEW q \in Procs, s.key[1] \in IdsOf(run[q].batch)
        PROVE  s.key[1] \in IdsOf(processed') \/ s.key[1] \in IdsOf(run'[q].batch)
    <3>1. CASE q # p \/ r.batch = run[p].batch
      BY <1>2, <2>2, <3>1
    <3>2. CASE q = p /\ run[p].batch \subseteq processed'
      <4>1. IdsOf(run[p].batch) \subseteq IdsOf(processed')
        BY <1>b, <3>2, IdsAre
      <4>2. QED
        BY <2>2, <3>2, <4>1
    <3>3. QED
      BY <3>1, <3>2
  <2>3. QED
    BY <1>4, <2>1, <2>2
<1>6. ASSUME NEW q \in Procs PROVE RunOnce(run'[q], DOMAIN parquet', processed')
  <2>1. CASE q = p
    BY <1>2, <2>1
  <2>2. CASE q # p
    <3>1. run[q].pc = "idle" /\ run'[q] = run[q]
      BY <1>1, <1>2, <2>2
    <3>2. RunOnce(run[q], DOMAIN parquet, processed)
      BY DEF OneRunAtATime
    <3>3. run[q].groups = {} /\ run[q].batch \subseteq processed'
      BY <3>1, <3>2 DEF RunOnce
    <3>4. RunOnce(run[q], DOMAIN parquet', processed')
      BY <3>3, NoRowsCounted, QuietRunOnce
    <3>5. QED
      BY <3>1, <3>4
  <2>3. QED
    BY <2>1, <2>2
<1>7. QED
  BY <1>3, <1>5, <1>6 DEF OneRunAtATime

LEMMA GroupsApart ==
  ASSUME NEW rows, NEW g \in Groups(rows), NEW h \in Groups(rows), g # h
  PROVE  g \cap h = {}
<1>1. PICK a : g = {r \in rows : DatasetPartition(r) = a}
  BY DEF Groups
<1>2. PICK b : h = {r \in rows : DatasetPartition(r) = b}
  BY DEF Groups
<1>3. QED
  BY <1>1, <1>2

LEMMA HeadAndTail ==
  ASSUME NEW X, NEW s \in Seq(X), s # << >>
  PROVE  ToSet(s) = {Head(s)} \cup ToSet(Tail(s))
<1>1. /\ Tail(s) \in Seq(X) /\ Len(Tail(s)) = Len(s) - 1 /\ Len(s) \in Nat
      /\ \A i \in 1 .. Len(Tail(s)) : Tail(s)[i] = s[i + 1]
  BY HeadTailProperties, LenProperties
<1>2. Len(s) # 0 /\ DOMAIN s = 1 .. Len(s) /\ DOMAIN Tail(s) = 1 .. Len(Tail(s)) /\ Head(s) = s[1]
  BY <1>1, EmptySeq, LenProperties
<1>3. \A i \in 1 .. Len(Tail(s)) : i + 1 \in 1 .. Len(s)
  BY <1>1
<1>4. ToSet(Tail(s)) \subseteq ToSet(s) /\ Head(s) \in ToSet(s)
  BY <1>1, <1>2, <1>3 DEF ToSet
<1>5. ASSUME NEW i \in 1 .. Len(s) PROVE s[i] = Head(s) \/ s[i] \in ToSet(Tail(s))
  <2>1. CASE i = 1
    BY <1>2, <2>1
  <2>2. CASE i # 1
    <3>1. i - 1 \in 1 .. Len(Tail(s)) /\ (i - 1) + 1 = i
      BY <1>1, <2>2
    <3>2. Tail(s)[i - 1] = s[i]
      BY <1>1, <3>1
    <3>3. QED
      BY <1>2, <3>1, <3>2 DEF ToSet
  <2>3. QED
    BY <2>1, <2>2
<1>6. ToSet(s) \subseteq {Head(s)} \cup ToSet(Tail(s))
  BY <1>2, <1>5 DEF ToSet
<1>7. QED
  BY <1>4, <1>6

LEMMA InitOnce == NormalizerInit => OnceInv
<1> SUFFICES ASSUME NormalizerInit PROVE OneRunAtATime
  BY DEF OnceInv
<1> DEFINE entries == ByClosing(Legacy)
           parsed == Parsed(entries)
           all == Deduplicated(parsed)
           rows == {r \in all : r.ds # "tick_size_changes"}
           none == << >>
<1>1. registry \in Registry /\ Legacy \in SUBSET Files
  BY NormalizerAssumption DEF NormalizerInit, Registry
<1>2. entries \in Seq(Files) /\ ToSet(entries) = Legacy /\ IsInjective(entries)
  <2>1. entries \in Seq(Legacy) /\ ToSet(entries) = Legacy /\ IsInjective(entries)
    BY <1>1, ByClosingIs
  <2>2. QED
    BY <1>1, <2>1, SeqDef
<1>3. parquet = [r \in rows |-> 1] /\ processed = Legacy /\ run = [p \in Procs |-> NoRun]
  BY DEF NormalizerInit
<1> HIDE DEF entries
<1>4. parsed \in Seq(RowSet)
  BY <1>1, <1>2, ParsedTells
<1>5. none \in Seq(RowSet) /\ \A r \in ToSet(none) : r.ds = "tick_size_changes"
  BY EmptySeq DEF ToSet
<1>6. none \o parsed = parsed
  <2> HIDE DEF parsed
  <2>1. QED
    BY <1>4, ConcatEmptySeq
<1> HIDE DEF none
<1>7. /\ Once(CountedOf(Deduplicated(none \o Parsed(entries))))
      /\ \A r \in CountedOf(Deduplicated(none \o Parsed(entries))) : r.key[1] \in IdsOf(ToSet(entries))
  BY <1>1, <1>2, <1>5, DeduplicatedOnce
<1>8. Once(CountedOf(all)) /\ \A r \in CountedOf(all) : r.key[1] \in IdsOf(Legacy)
  BY <1>2, <1>6, <1>7
<1> HIDE DEF all
<1>9. CountedOf(rows) \subseteq CountedOf(all) /\ CountedOf(rows) \subseteq rows
  BY DEF CountedOf
<1>10. DOMAIN parquet = rows /\ \A r \in rows : parquet[r] = 1
  BY <1>3
<1> HIDE DEF rows
<1>11. Once(CountedOf(DOMAIN parquet))
  BY <1>8, <1>9, <1>10 DEF Once
<1>12. ASSUME NEW s \in CountedOf(DOMAIN parquet)
       PROVE  parquet[s] = 1 /\ s.key[1] \in IdsOf(processed)
  BY <1>3, <1>8, <1>9, <1>10
<1>13. NoRun.pc = "idle"
  BY DEF NoRun
<1>14. QED
  BY <1>3, <1>11, <1>12, <1>13, NoRunOnce DEF OneRunAtATime

LEMMA StepOnce ==
  NormalizerTypeOK /\ TellsInv /\ OnceInv /\ [NormalizerNext]_normalizerVars => OnceInv'
<1> SUFFICES ASSUME NormalizerTypeOK, TellsInv, OnceInv, [NormalizerNext]_normalizerVars,
                    deaths' = 0, ~overlap'
             PROVE  OneRunAtATime'
  BY DEF OnceInv
<1> DEFINE D == DOMAIN parquet
<1>t. run \in [Procs -> RunStates] /\ processed \in SUBSET Files /\ deaths \in Nat
  BY DEF NormalizerTypeOK
<1>b. \A p \in Procs : run[p].batch \in SUBSET Files
  BY <1>t DEF RunStates
\* Where the published rows and the marked files stay, it is enough that the
\* run still has nothing to publish that is out.
<1>r. ASSUME NEW p \in Procs, NEW r, run' = [run EXCEPT ![p] = r], OneRunAtATime,
             UNCHANGED <<parquet, processed>>,
             run[p].pc # "idle" \/ \A q \in Procs \ {p} : run[q].pc = "idle",
             r.batch = run[p].batch \/ run[p].batch \subseteq processed,
             RunOnce(r, D, processed)
      PROVE  OneRunAtATime'
  <2>1. Once(CountedOf(DOMAIN parquet')) /\ \A s \in CountedOf(DOMAIN parquet') : parquet'[s] = 1
    BY <1>r DEF OneRunAtATime
  <2>2. CountedOf(DOMAIN parquet') \subseteq DOMAIN parquet
    BY <1>r DEF CountedOf
  <2>3. RunOnce(r, DOMAIN parquet', processed') /\ processed' = processed
    BY <1>r
  <2> HIDE DEF D
  <2>4. QED
    BY <1>t, <1>r, <2>1, <2>2, <2>3, StepOfARunOnce
<1>o. ASSUME OneRunAtATime, NEW p \in Procs PROVE RunOnce(run[p], D, processed)
  BY <1>o DEF OneRunAtATime
\* A run that ends has marked its batch.
<1>n. ASSUME NEW p \in Procs, run' = [run EXCEPT ![p] = NoRun], OneRunAtATime,
             UNCHANGED <<parquet, processed>>, run[p].pc # "idle",
             run[p].pc \in {"begin", "export", "migrate"} \/ run[p].mode = "reindex"
      PROVE  OneRunAtATime'
  <2>1. run[p].batch \subseteq processed
    BY <1>n, <1>o DEF RunOnce
  <2>2. QED
    BY <1>n, <1>r, <2>1, NoRunOnce
\* A run starts when no other is under way.
<1>s. ASSUME NEW p \in Procs, NEW r, run' = [run EXCEPT ![p] = r], run[p].pc = "idle",
             overlap' = (overlap \/ \E q \in Procs \ {p} : run[q].pc # "idle"),
             UNCHANGED <<parquet, processed, deaths>>, r.groups = {}, r.batch = {}
      PROVE  OneRunAtATime'
  <2>1. OneRunAtATime /\ \A q \in Procs \ {p} : run[q].pc = "idle"
    BY <1>s DEF OnceInv
  <2>2. run[p].batch \subseteq processed
    BY <1>s, <1>o, <2>1 DEF RunOnce
  <2>3. RunOnce(r, D, processed)
    BY <1>s, IdleRunOnce
  <2>4. QED
    BY <1>s, <1>r, <2>1, <2>2, <2>3
<1>1. ASSUME NEW p \in Procs, NEW opt \in Options, StartRun(p, opt) PROVE OneRunAtATime'
  <2> DEFINE r == [NoRun EXCEPT !.pc = "begin", !.opt = opt]
  <2>1. r.groups = {} /\ r.batch = {}
    BY DEF NoRun
  <2>2. /\ run' = [run EXCEPT ![p] = r] /\ UNCHANGED <<parquet, processed, deaths>>
        /\ run[p].pc = "idle"
        /\ overlap' = (overlap \/ \E q \in Procs \ {p} : run[q].pc # "idle")
    BY <1>1 DEF StartRun, durable
  <2> HIDE DEF r
  <2>3. QED
    BY <1>s, <2>1, <2>2
<1>2. ASSUME NEW p \in Procs, Read(p) PROVE OneRunAtATime'
  <2> DEFINE entries == RawEntries(run[p].opt)
             rows == BatchRows(run[p].opt, entries)
             r == [NoRun EXCEPT !.pc = "publish", !.files = entries, !.batch = ToSet(entries),
                       !.groups = Groups(rows), !.backfill = ~tickDone,
                       !.top = {x \in rows : x.ds = "top_of_book"}]
  <2>1. /\ run' = [run EXCEPT ![p] = NoRun] \/ run' = [run EXCEPT ![p] = r]
        /\ UNCHANGED <<parquet, processed, deaths, overlap>> /\ run[p].pc = "begin"
    BY <1>2 DEF Read, durable
  <2>2. /\ r.groups = Groups(rows) /\ r.files = entries /\ r.batch = ToSet(entries)
        /\ r.pc = "publish" /\ r.mode = "rows"
    BY DEF NoRun
  <2> HIDE DEF r
  <2>3. OneRunAtATime
    BY <2>1 DEF OnceInv
  <2>4. run[p].opt \in Options
    BY <1>t DEF RunStates
  <2>5. entries \in Seq(Files) /\ IsInjective(entries) /\ ToSet(entries) \in SUBSET (Files \ processed)
    <3>1. finalized \in SUBSET Files
      BY DEF NormalizerTypeOK
    <3>2. entries \in Seq(finalized \ processed) /\ IsInjective(entries)
      BY <2>4, <3>1, RawEntriesAre
    <3>3. ToSet(entries) \in SUBSET (finalized \ processed)
      BY <3>2, RowsOfSeq
    <3>4. QED
      BY <3>1, <3>2, <3>3, SeqDef
  <2> HIDE DEF entries
  <2>6. Once(CountedOf(rows)) /\ \A s \in CountedOf(rows) : s.key[1] \in IdsOf(ToSet(entries))
    BY <2>5, BatchOnce
  <2> HIDE DEF rows
  <2>7. UNION Groups(rows) = rows
    BY GroupsAre
  <2>8. IdsOf(processed) \cap IdsOf(ToSet(entries)) = {}
    <3>1. processed \cap ToSet(entries) = {} /\ ToSet(entries) \in SUBSET Files
      BY <2>5
    <3>2. QED
      BY <1>t, <3>1, IdsAre
  \* No run is under way that has read before it: its rows would be its own.
  <2>9. \A t \in CountedOf(D) : t.key[1] \in IdsOf(processed)
    <3>1. ASSUME NEW q \in Procs PROVE run[q].batch \subseteq processed
      <4>1. run[q].pc \in {"idle", "begin"}
        BY <2>1, <2>3 DEF OneRunAtATime
      <4>2. QED
        BY <1>o, <2>3, <4>1 DEF RunOnce
    <3>2. \A q \in Procs : IdsOf(run[q].batch) \subseteq IdsOf(processed)
      BY <1>t, <1>b, <3>1, IdsAre
    <3>3. QED
      BY <2>3, <3>2 DEF OneRunAtATime
  <2>10. ASSUME NEW s \in CountedOf(rows), NEW t \in D, t.ds = s.ds, t.key = s.key PROVE FALSE
    <3>1. t \in CountedOf(D)
      BY <2>10 DEF CountedOf
    <3>2. t.key[1] \in IdsOf(processed) /\ s.key[1] \in IdsOf(ToSet(entries))
      BY <2>6, <2>9, <3>1
    <3>3. QED
      BY <2>8, <2>10, <3>2
  <2>11. RunOnce(r, D, processed)
    <3>1. \A g, h \in r.groups : g # h => g \cap h = {}
      BY <2>2, GroupsApart
    <3>2. Pending(r) = r.groups
      BY <2>2 DEF Pending
    <3> HIDE DEF D
    <3>3. QED
      BY <2>2, <2>6, <2>7, <2>10, <3>1, <3>2 DEF RunOnce
  <2>12. CASE run' = [run EXCEPT ![p] = NoRun]
    BY <1>n, <2>1, <2>3, <2>12
  <2>13. CASE run' = [run EXCEPT ![p] = r]
    <3>1. run[p].batch \subseteq processed
      BY <1>o, <2>1, <2>3 DEF RunOnce
    <3>2. QED
      BY <1>r, <2>1, <2>3, <2>11, <2>13, <3>1
  <2>14. QED
    BY <2>1, <2>12, <2>13
<1>3. ASSUME NEW p \in Procs, Publish(p) PROVE OneRunAtATime'
  <2> DEFINE s0 == run[p]
             r == [run[p] EXCEPT !.pc = "list"]
             g == NextGroup(run[p].groups)
             E == DOMAIN parquet'
             out == UNION s0.groups
  <2>1. /\ run' = [run EXCEPT ![p] = r] /\ UNCHANGED <<processed, deaths, overlap>>
        /\ run[p].groups # {} /\ parquet' = OneMore(parquet, g) /\ run[p].pc = "publish"
    BY <1>3 DEF Publish
  <2>2. /\ r.groups = s0.groups /\ r.files = s0.files /\ r.batch = s0.batch
        /\ r.pc = "list" /\ r.mode = s0.mode
    BY <1>t DEF RunStates
  <2>3. OneRunAtATime
    BY <2>1 DEF OnceInv
  <2>4. RunOnce(s0, D, processed)
    BY <1>o, <2>3
  <2>5. g \in s0.groups /\ Pending(s0) = s0.groups /\ Pending(r) = s0.groups \ {g}
    BY <2>1, <2>2, NextGroupIs DEF Pending
  <2>6. E = D \cup g /\ \A s \in E : parquet'[s] = IF s \in D THEN (IF s \in g THEN 2 ELSE parquet[s]) ELSE 1
    BY <2>1 DEF OneMore
  <2> HIDE DEF r, g, E, s0
  <2>7. g \subseteq out /\ UNION Pending(r) \subseteq out /\ UNION Pending(s0) = out
    BY <2>5
  <2>8. \A s \in CountedOf(out) : s.key[1] \in IdsOf(s0.batch) /\ \A t \in D : t.ds # s.ds \/ t.key # s.key
    BY <2>4, <2>7 DEF RunOnce
  <2>9. Once(CountedOf(out)) /\ Once(CountedOf(D)) /\ \A s \in CountedOf(D) : parquet[s] = 1
    BY <2>3, <2>4 DEF RunOnce, OneRunAtATime
  <2> HIDE DEF out
  <2>10. ASSUME NEW s \in CountedOf(E)
         PROVE  \/ s \in CountedOf(D) /\ s \notin g
                \/ s \in CountedOf(out) /\ s \in g /\ s \notin D
    <3>1. s \in D \cup g
      BY <2>6, <2>10 DEF CountedOf
    <3>2. s \in D => s \in CountedOf(D)
      BY <2>10 DEF CountedOf
    <3>3. s \in g => s \in CountedOf(out)
      BY <2>7, <2>10 DEF CountedOf
    <3>4. ~(s \in D /\ s \in g)
      BY <2>8, <3>3
    <3>5. QED
      BY <3>1, <3>2, <3>3, <3>4
  <2>11. Once(CountedOf(E))
    <3>1. SUFFICES ASSUME NEW s \in CountedOf(E), NEW t \in CountedOf(E), s.ds = t.ds, s.key = t.key
                   PROVE  s = t
      BY DEF Once
    <3>2. CountedOf(D) \subseteq D
      BY DEF CountedOf
    <3>3. CASE s \in CountedOf(D) /\ t \in CountedOf(D)
      BY <2>9, <3>1, <3>3 DEF Once
    <3>4. CASE s \in CountedOf(out) /\ t \in CountedOf(out)
      BY <2>9, <3>1, <3>4 DEF Once
    <3>5. ~(s \in CountedOf(out) /\ t \in CountedOf(D)) /\ ~(t \in CountedOf(out) /\ s \in CountedOf(D))
      BY <2>8, <3>1, <3>2
    <3>6. QED
      BY <2>10, <3>3, <3>4, <3>5
  <2>12. \A s \in CountedOf(E) : parquet'[s] = 1 /\ (s \in D \/ s.key[1] \in IdsOf(s0.batch))
    <3>1. SUFFICES ASSUME NEW s \in CountedOf(E)
                   PROVE  parquet'[s] = 1 /\ (s \in D \/ s.key[1] \in IdsOf(s0.batch))
      OBVIOUS
    <3>2. CountedOf(D) \subseteq D /\ CountedOf(E) \subseteq E
      BY DEF CountedOf
    <3>3. CASE s \in CountedOf(D) /\ s \notin g
      BY <2>6, <2>9, <3>2, <3>3
    <3>4. CASE s \in CountedOf(out) /\ s \in g /\ s \notin D
      BY <2>6, <2>8, <3>2, <3>4
    <3>5. QED
      BY <2>10, <3>3, <3>4
  <2>13. ASSUME NEW s \in CountedOf(UNION Pending(r)), NEW t \in E, t.ds = s.ds, t.key = s.key
         PROVE  FALSE
    <3>1. s \in CountedOf(out)
      BY <2>7, <2>13 DEF CountedOf
    <3>2. t \notin D
      BY <2>8, <2>13, <3>1
    <3>3. t \in g /\ t \in out
      BY <2>6, <2>7, <3>2
    <3>4. t \in CountedOf(out)
      BY <2>13, <3>1, <3>3 DEF CountedOf
    <3>5. s = t
      BY <2>9, <2>13, <3>1, <3>4 DEF Once
    <3>6. PICK h \in s0.groups \ {g} : s \in h
      BY <2>5 DEF CountedOf
    <3>7. g \cap h = {}
      BY <2>4, <2>5, <3>6 DEF RunOnce
    <3>8. QED
      BY <3>3, <3>5, <3>6, <3>7
  <2>14. RunOnce(r, E, processed)
    <3>1. UNION r.groups = out
      BY <2>2 DEF out
    <3>2. /\ \A h, k \in r.groups : h # k => h \cap k = {}
          /\ r.batch \subseteq processed \cup ToSet(r.files)
          /\ r.mode = "reindex" => r.batch \subseteq processed
      BY <2>2, <2>4 DEF RunOnce
    <3>3. QED
      BY <2>2, <2>8, <2>9, <2>13, <3>1, <3>2 DEF RunOnce
  <2>15. QED
    BY <1>t, <2>1, <2>2, <2>3, <2>11, <2>12, <2>14, StepOfARunOnce DEF E, s0
<1>4. ASSUME NEW p \in Procs, AppendManifest(p) PROVE OneRunAtATime'
  <2> DEFINE g == NextGroup(run[p].groups)
             r == [run[p] EXCEPT !.pc = "publish", !.groups = run[p].groups \ {g}]
  <2>1. /\ run' = [run EXCEPT ![p] = r] /\ UNCHANGED <<parquet, processed, deaths, overlap>>
        /\ run[p].pc = "list"
    BY <1>4 DEF AppendManifest
  <2>2. /\ r.groups = run[p].groups \ {g} /\ r.files = run[p].files /\ r.batch = run[p].batch
        /\ r.pc = "publish" /\ r.mode = run[p].mode
    BY <1>t DEF RunStates
  <2>3. Pending(r) = Pending(run[p])
    BY <2>1, <2>2 DEF Pending
  <2> HIDE DEF r, g
  <2>4. OneRunAtATime
    BY <2>1 DEF OnceInv
  <2>5. RunOnce(run[p], D, processed)
    BY <1>o, <2>4
  <2>6. run[p].batch \subseteq processed \cup ToSet(run[p].files)
    BY <2>5 DEF RunOnce
  <2>7. RunOnce(r, D, processed)
    BY <2>2, <2>3, <2>5, <2>6, StillOnce
  <2>8. QED
    BY <1>r, <2>1, <2>2, <2>4, <2>7
\* The steps on the chart leave the batch and its rows alone.
<1>k. ASSUME NEW p \in Procs, NEW r, run' = [run EXCEPT ![p] = r],
             UNCHANGED <<parquet, processed, deaths, overlap>>, run[p].pc # "idle", run[p].pc # "list",
             r.groups = run[p].groups, r.files = run[p].files, r.batch = run[p].batch,
             r.mode = run[p].mode, r.pc \in {"publish", "series", "replace", "export", "migrate"},
             r.pc \in {"export", "migrate"} =>
                run[p].files = << >> \/ run[p].pc \in {"export", "migrate"}
      PROVE  OneRunAtATime'
  <2>1. OneRunAtATime
    BY <1>k DEF OnceInv
  <2>2. RunOnce(run[p], D, processed)
    BY <1>o, <1>k, <2>1
  <2>3. run[p].batch \subseteq processed \cup ToSet(run[p].files)
        /\ (run[p].pc \in {"export", "migrate"} => run[p].batch \subseteq processed)
    BY <2>2 DEF RunOnce
  <2>4. ToSet(<< >>) = {}
    BY DEF ToSet
  <2>5. r.pc \in {"begin", "export", "migrate"} => r.batch \subseteq processed
    BY <1>k, <2>3, <2>4
  <2>6. Pending(r) = Pending(run[p])
    BY <1>k DEF Pending
  <2>7. RunOnce(r, D, processed)
    BY <1>k, <2>2, <2>3, <2>5, <2>6, StillOnce
  <2>8. QED
    BY <1>k, <1>r, <2>1, <2>7
\* When the rows are out, the run's own row is next.
<1>w. ASSUME NEW p \in Procs, NEW r, run' = [run EXCEPT ![p] = r],
             UNCHANGED <<parquet, processed, deaths, overlap>>, run[p].pc # "idle",
             r.groups = {{RunRow}}, r.files = run[p].files, r.batch = run[p].batch,
             r.mode = "run", r.pc = "publish"
      PROVE  OneRunAtATime'
  <2>1. OneRunAtATime
    BY <1>w DEF OnceInv
  <2>2. run[p].batch \subseteq processed \cup ToSet(run[p].files)
    BY <1>o, <1>w, <2>1 DEF RunOnce
  <2>3. RunOnce(r, D, processed)
    BY <1>w, <2>2, NoRowsCounted, QuietRunOnce
  <2>4. QED
    BY <1>r, <1>w, <2>1, <2>3
<1>5. ASSUME NEW p \in Procs, ReadIndex(p) PROVE OneRunAtATime'
  <2> DEFINE r == [run[p] EXCEPT !.pc = "series", !.entry = index,
                                 !.conds = {ConditionOf(x.token) : x \in run[p].top}]
  <2>1. /\ run' = [run EXCEPT ![p] = r] /\ UNCHANGED <<parquet, processed, deaths, overlap>>
        /\ run[p].pc = "publish"
    BY <1>5 DEF ReadIndex, durable
  <2>2. /\ r.groups = run[p].groups /\ r.files = run[p].files /\ r.batch = run[p].batch
        /\ r.pc = "series" /\ r.mode = run[p].mode
    BY <1>t DEF RunStates
  <2> HIDE DEF r
  <2>3. QED
    BY <1>k, <2>1, <2>2
<1>6. ASSUME NEW p \in Procs, ReadSeries(p) PROVE OneRunAtATime'
  <2> DEFINE c == CHOOSE d \in run[p].conds : TRUE
             points == {Point(r) : r \in {x \in run[p].top : ConditionOf(x.token) = c}}
             r == [run[p] EXCEPT !.pc = "replace", !.charts = MergePoints(series[c], points)]
  <2>1. /\ run' = [run EXCEPT ![p] = r] /\ UNCHANGED <<parquet, processed, deaths, overlap>>
        /\ run[p].pc = "series"
    BY <1>6 DEF ReadSeries, durable
  <2> HIDE DEF c, points
  <2>2. /\ r.groups = run[p].groups /\ r.files = run[p].files /\ r.batch = run[p].batch
        /\ r.pc = "replace" /\ r.mode = run[p].mode
    BY <1>t DEF RunStates
  <2> HIDE DEF r
  <2>3. QED
    BY <1>k, <2>1, <2>2
<1>7. ASSUME NEW p \in Procs, WriteSeries(p) PROVE OneRunAtATime'
  <2> DEFINE c == CHOOSE d \in run[p].conds : TRUE
             entry == [run[p].entry EXCEPT ![c] = IndexEntry(run[p].charts)]
             r == [run[p] EXCEPT !.pc = "series", !.conds = run[p].conds \ {c}, !.charts = {},
                                 !.entry = entry]
  <2>1. /\ run' = [run EXCEPT ![p] = r] /\ UNCHANGED <<parquet, processed, deaths, overlap>>
        /\ run[p].pc = "replace"
    BY <1>7 DEF WriteSeries
  <2> HIDE DEF c, entry
  <2>2. /\ r.groups = run[p].groups /\ r.files = run[p].files /\ r.batch = run[p].batch
        /\ r.pc = "series" /\ r.mode = run[p].mode
    BY <1>t DEF RunStates
  <2> HIDE DEF r
  <2>3. QED
    BY <1>k, <2>1, <2>2
<1>8. ASSUME NEW p \in Procs, WriteIndex(p) PROVE OneRunAtATime'
  <2> DEFINE r == [run[p] EXCEPT !.pc = "publish", !.mode = "run", !.groups = {{RunRow}},
                              !.entry = EmptyIndex, !.top = {}]
  <2>1. /\ \/ run' = [run EXCEPT ![p] = NoRun] /\ run[p].mode = "reindex"
           \/ run' = [run EXCEPT ![p] = r]
        /\ UNCHANGED <<parquet, processed, deaths, overlap>> /\ run[p].pc = "series"
    BY <1>8 DEF WriteIndex
  <2>2. /\ r.groups = {{RunRow}} /\ r.files = run[p].files /\ r.batch = run[p].batch
        /\ r.pc = "publish" /\ r.mode = "run"
    BY <1>t DEF RunStates
  <2> HIDE DEF r
  <2>3. OneRunAtATime
    BY <2>1 DEF OnceInv
  <2>4. CASE run' = [run EXCEPT ![p] = r]
    BY <1>w, <2>1, <2>2, <2>4
  <2>5. CASE run' = [run EXCEPT ![p] = NoRun] /\ run[p].mode = "reindex"
    BY <1>n, <2>1, <2>3, <2>5
  <2>6. QED
    BY <2>1, <2>4, <2>5
<1>9. ASSUME NEW p \in Procs, SkipCache(p) PROVE OneRunAtATime'
  <2> DEFINE r == [run[p] EXCEPT !.mode = "run", !.groups = {{RunRow}}]
  <2>1. /\ run' = [run EXCEPT ![p] = r] /\ UNCHANGED <<parquet, processed, deaths, overlap>>
        /\ run[p].pc = "publish"
    BY <1>9 DEF SkipCache, durable
  <2>2. /\ r.groups = {{RunRow}} /\ r.files = run[p].files /\ r.batch = run[p].batch
        /\ r.pc = "publish" /\ r.mode = "run"
    BY <1>t, <2>1 DEF RunStates
  <2> HIDE DEF r
  <2>3. QED
    BY <1>w, <2>1, <2>2
<1>10. ASSUME NEW p \in Procs, MarkFile(p) PROVE OneRunAtATime'
  <2> DEFINE entries == run[p].files
             f == Head(entries)
             r == [run[p] EXCEPT !.files = Tail(entries)]
             done == processed \cup {f}
  <2>1. /\ run' = [run EXCEPT ![p] = r] /\ UNCHANGED <<parquet, deaths, overlap>>
        /\ processed' = done /\ run[p].pc = "publish" /\ entries # << >>
    BY <1>10 DEF MarkFile, Written
  <2>2. /\ r.groups = run[p].groups /\ r.files = Tail(entries) /\ r.batch = run[p].batch
        /\ r.pc = "publish" /\ r.mode = run[p].mode /\ entries \in Seq(Files)
    BY <1>t, <2>1 DEF RunStates
  <2>3. Pending(r) = Pending(run[p])
    BY <2>1, <2>2 DEF Pending
  <2> HIDE DEF r
  <2>4. OneRunAtATime
    BY <2>1 DEF OnceInv
  <2>5. RunOnce(run[p], D, processed)
    BY <1>o, <2>4
  <2>6. run[p].batch \subseteq processed \cup ToSet(entries)
    BY <2>5 DEF RunOnce
  <2> HIDE DEF entries
  <2>7. ToSet(entries) = {f} \cup ToSet(Tail(entries)) /\ ToSet(entries) \subseteq Files
    BY <2>1, <2>2, HeadAndTail, RowsOfSeq
  <2>8. processed \subseteq done /\ done \in SUBSET Files
        /\ run[p].batch \subseteq done \cup ToSet(Tail(entries))
    BY <1>t, <2>6, <2>7
  <2> HIDE DEF f, done
  <2>9. RunOnce(r, D, done)
    BY <2>2, <2>3, <2>5, <2>8, StillOnce
  <2>10. /\ Once(CountedOf(DOMAIN parquet'))
         /\ \A s \in CountedOf(DOMAIN parquet') : parquet'[s] = 1 /\ s \in DOMAIN parquet
    BY <2>1, <2>4 DEF OneRunAtATime, CountedOf
  <2>11. RunOnce(r, DOMAIN parquet', processed')
    BY <2>1, <2>9
  <2> HIDE DEF D
  <2>12. QED
    BY <2>1, <2>2, <2>4, <2>8, <2>10, <2>11, StepOfARunOnce
<1>11. ASSUME NEW p \in Procs, CheckpointBatch(p) PROVE OneRunAtATime'
  <2> DEFINE r == [run[p] EXCEPT !.pc = "export"]
  <2>1. /\ run' = [run EXCEPT ![p] = r] /\ UNCHANGED <<parquet, processed, deaths, overlap>>
        /\ run[p].pc = "publish" /\ run[p].files = << >>
    BY <1>11 DEF CheckpointBatch, Written
  <2>2. /\ r.groups = run[p].groups /\ r.files = run[p].files /\ r.batch = run[p].batch
        /\ r.pc = "export" /\ r.mode = run[p].mode
    BY <1>t DEF RunStates
  <2> HIDE DEF r
  <2>3. QED
    BY <1>k, <2>1, <2>2
<1>12. ASSUME NEW p \in Procs, ExportManifest(p) PROVE OneRunAtATime'
  <2> DEFINE r == [run[p] EXCEPT !.pc = "migrate"]
  <2>1. /\ run' = [run EXCEPT ![p] = NoRun] \/ run' = [run EXCEPT ![p] = r]
        /\ UNCHANGED <<parquet, processed, deaths, overlap>> /\ run[p].pc = "export"
    BY <1>12 DEF ExportManifest
  <2>2. /\ r.groups = run[p].groups /\ r.files = run[p].files /\ r.batch = run[p].batch
        /\ r.pc = "migrate" /\ r.mode = run[p].mode
    BY <1>t DEF RunStates
  <2> HIDE DEF r
  <2>3. OneRunAtATime
    BY <2>1 DEF OnceInv
  <2>4. CASE run' = [run EXCEPT ![p] = r]
    BY <1>k, <2>1, <2>2, <2>4
  <2>5. CASE run' = [run EXCEPT ![p] = NoRun]
    BY <1>n, <2>1, <2>3, <2>5
  <2>6. QED
    BY <2>1, <2>4, <2>5
<1>13. ASSUME NEW p \in Procs, CheckpointTicks(p) PROVE OneRunAtATime'
  <2>1. /\ run' = [run EXCEPT ![p] = NoRun] /\ UNCHANGED <<parquet, processed, deaths, overlap>>
        /\ run[p].pc = "migrate"
    BY <1>13 DEF CheckpointTicks
  <2>2. OneRunAtATime
    BY <2>1 DEF OnceInv
  <2>3. QED
    BY <1>n, <2>1, <2>2
<1>14. ASSUME NEW p \in Procs, Reindex(p) PROVE OneRunAtATime'
  <2> DEFINE top == {x \in DOMAIN parquet : x.ds = "top_of_book"}
             r == [NoRun EXCEPT !.pc = "publish", !.mode = "reindex", !.top = top]
  <2>1. r.groups = {} /\ r.batch = {}
    BY DEF NoRun
  <2>2. /\ run' = [run EXCEPT ![p] = r] /\ UNCHANGED <<parquet, processed, deaths>>
        /\ run[p].pc = "idle"
        /\ overlap' = (overlap \/ \E q \in Procs \ {p} : run[q].pc # "idle")
    BY <1>14 DEF Reindex, durable
  <2> HIDE DEF r
  <2>3. QED
    BY <1>s, <2>1, <2>2
<1>15. ASSUME NEW p \in Procs, RunDies(p) PROVE OneRunAtATime'
  BY <1>15, <1>t DEF RunDies
<1>16. ASSUME UNCHANGED <<parquet, processed, run, deaths, overlap>> PROVE OneRunAtATime'
  BY <1>16 DEF OnceInv, OneRunAtATime
<1>17. ASSUME FinalizeRaw \/ Deactivate \/ UNCHANGED normalizerVars PROVE OneRunAtATime'
  BY <1>16, <1>17 DEF FinalizeRaw, Deactivate, normalizerVars, durable
<1> HIDE DEF D
<1>18. QED
  BY <1>1, <1>2, <1>3, <1>4, <1>5, <1>6, <1>7, <1>8, <1>9, <1>10, <1>11, <1>12, <1>13,
     <1>14, <1>15, <1>17 DEF NormalizerNext, Step

\* As long as no run dies and none overlaps another, no part of a raw message is
\* published twice in a dataset: each batch reads files that no batch before it
\* has marked, and the handlers of a message give its parts different keys.
THEOREM PartsArePublishedOnce == NormalizerSpec => []PublishedOnce
<1>1. NormalizerInit => OnceInv
  BY InitOnce
<1>2. NormalizerTypeOK /\ TellsInv /\ OnceInv /\ [NormalizerNext]_normalizerVars => OnceInv'
  BY StepOnce
<1>3. OnceInv => PublishedOnce
  <2> SUFFICES ASSUME OneRunAtATime, NEW r \in DOMAIN parquet,
                      r.ds \notin {"tick_size_changes", "normalization_runs"}
               PROVE  /\ parquet[r] = 1
                      /\ \A s \in DOMAIN parquet : (s.ds = r.ds /\ s.key = r.key) => s = r
    BY DEF OnceInv, PublishedOnce
  <2>1. r \in CountedOf(DOMAIN parquet)
        /\ \A s \in DOMAIN parquet : s.ds = r.ds => s \in CountedOf(DOMAIN parquet)
    BY DEF CountedOf
  <2>2. QED
    BY <2>1 DEF OneRunAtATime, Once
<1>4. QED
  BY <1>1, <1>2, <1>3, TellsIsInvariant, PTL DEF NormalizerSpec

-----------------------------------------------------------------------------
(* The chart: which top-of-book rows a file has, in whatever batch it is read *)

\* The tokens whose points are in the series of market c.
TokensShown(c) == {t \in Traded : ConditionOf(t) = c}

Shown(S, c) == {r \in S : r.ds = "top_of_book" /\ r.token \in TokensShown(c)}

TopOf(env, i, j, t) == Row(env, "top_of_book", i, j, t, NoTick)

\* The rows of message i, whatever the parser has learnt but for the market's
\* own tokens.
BookTops(env, i, c) ==
  {TopOf(env, i, 0, t) : t \in {u \in TokensShown(c) :
     /\ u = env.msgs[i].token /\ env.msgs[i].bad = "no"
     /\ env.msgs[i].type \in {"book", "best_bid_ask"}}}

ChangeTops(env, i, c) ==
  {TopOf(env, i, j, env.msgs[i].changes[j].token) : j \in {k \in 1 .. Len(env.msgs[i].changes) :
     /\ env.msgs[i].type = "price_change" /\ env.msgs[i].bad = "no"
     /\ env.msgs[i].changes[k].top /\ env.msgs[i].changes[k].token \in TokensShown(c)
     /\ \A l \in 1 .. k : ~env.msgs[i].changes[l].bad}}

MessageTops(env, i, c) == BookTops(env, i, c) \cup ChangeTops(env, i, c)

FromSocket(env) ==
  env.src = "clob_market_ws" /\ ~IsOperational(env) /\ env.form \in {"object", "list"}

RestTops(env, c) ==
  {TopOf(env, 1, 0, t) : t \in {u \in TokensShown(c) :
     /\ u = env.token /\ env.src = "clob_rest" /\ ~IsOperational(env)
     /\ env.hint = "book" /\ env.form = "object" /\ env.msgs[1].bad = "no"}}

EnvelopeTops(env, c) ==
  RestTops(env, c) \cup
  UNION {MessageTops(env, i, c) : i \in {k \in 1 .. Len(env.msgs) : FromSocket(env)}}

FileTops(f, c) == UNION {EnvelopeTops(env, c) : env \in ToSet(FileOf[f].envelopes)}

\* What leads from ctx to x adds the rows T of market c, and forgets no token.
Charts(x, ctx, c, T) ==
  /\ Shown(ToSet(x.rows), c) = Shown(ToSet(ctx.rows), c) \cup T
  /\ ctx.known \subseteq x.known

LEMMA TokensShownAre ==
  ASSUME NEW c
  PROVE  /\ TokensShown(c) \subseteq Traded
         /\ TokensShown(c) # {} => c \in Conditions /\ TokensShown(c) \subseteq TokensOf[c]
BY ConditionOfIs DEF TokensShown

LEMMA NothingCharts ==
  ASSUME NEW ctx, NEW x, x.rows = ctx.rows, ctx.known \subseteq x.known, NEW c
  PROVE  Charts(x, ctx, c, {})
BY DEF Charts

LEMMA ChartsThen ==
  ASSUME NEW x, NEW y, NEW ctx, NEW c, NEW S, NEW T, Charts(x, ctx, c, S), Charts(y, x, c, T)
  PROVE  Charts(y, ctx, c, S \cup T)
BY DEF Charts

LEMMA EmitCharts ==
  ASSUME NEW next \in Contexts, NEW rows \in Seq(RowSet), NEW ctx, NEW c, NEW S, Charts(next, ctx, c, S)
  PROVE  Charts(Emit(next, rows), ctx, c, S \cup Shown(ToSet(rows), c))
<1> DEFINE x == Emit(next, rows)
<1>1. ToSet(x.rows) = ToSet(next.rows) \cup ToSet(rows) /\ x.known = next.known
  BY EmitIs
<1> HIDE DEF x
<1>2. Shown(ToSet(x.rows), c) = Shown(ToSet(next.rows), c) \cup Shown(ToSet(rows), c)
  BY <1>1 DEF Shown
<1>3. Charts(x, ctx, c, S \cup Shown(ToSet(rows), c))
  BY <1>1, <1>2 DEF Charts
<1>4. QED
  BY <1>3 DEF x

LEMMA EmitOneCharts ==
  ASSUME NEW next \in Contexts, NEW r \in RowSet, r.ds # "top_of_book",
         NEW ctx, NEW c, NEW S, Charts(next, ctx, c, S)
  PROVE  Charts(Emit(next, << r >>), ctx, c, S)
<1>1. << r >> \in Seq(RowSet) /\ ToSet(<< r >>) = {r}
  BY OneElement
<1>2. Shown(ToSet(<< r >>), c) = {}
  BY <1>1 DEF Shown
<1>3. Charts(Emit(next, << r >>), ctx, c, S \cup Shown(ToSet(<< r >>), c))
  BY <1>1, EmitCharts
<1>4. QED
  BY <1>2, <1>3

LEMMA FailsCharts ==
  ASSUME NEW next \in Contexts, NEW env \in RecordedEnvelope, NEW i \in Nat,
         NEW ctx, NEW c, NEW S, Charts(next, ctx, c, S)
  PROVE  Charts(MessageFails(next, env, i), ctx, c, S)
<1> DEFINE q == Quality(env, i, 0)
<1>1. q \in RowSet /\ q.ds = "data_quality_events"
  BY QualityIs
<1>2. MessageFails(next, env, i) = Emit(next, << q >>)
  BY DEF MessageFails
<1> HIDE DEF q
<1>3. Charts(Emit(next, << q >>), ctx, c, S)
  BY <1>1, EmitOneCharts
<1>4. QED
  BY <1>2, <1>3

LEMMA TopOfIs ==
  ASSUME NEW env \in RecordedEnvelope, NEW i \in Nat, NEW j \in Nat, NEW t \in Traded
  PROVE  /\ TopOf(env, i, j, t) \in RowSet
         /\ TopOf(env, i, j, t).ds = "top_of_book"
         /\ TopOf(env, i, j, t).token = t
         /\ TopOf(env, i, j, t).key = <<env.id, i, j>>
<1>1. TopOf(env, i, j, t) \in RowSet
  BY TopRowIs DEF TopOf
<1>2. QED
  BY <1>1 DEF TopOf, Row

LEMMA SnapshotShown ==
  ASSUME NEW env \in RecordedEnvelope, NEW i \in Nat, NEW t \in Traded, NEW tick \in Nat, NEW c
  PROVE  /\ SnapshotRows(env, i, t, tick) \in Seq(RowSet)
         /\ Shown(ToSet(SnapshotRows(env, i, t, tick)), c)
              = {TopOf(env, i, 0, u) : u \in {v \in TokensShown(c) : v = t}}
<1> DEFINE a == Row(env, "book_snapshots", i, 0, t, tick)
           b == Row(env, "book_snapshot_levels", i, 0, t, NoTick)
           top == TopOf(env, i, 0, t)
           rows == << a, b, top >>
<1>1. SnapshotRows(env, i, t, tick) \in Seq(RowSet)
  BY SnapshotRowsAre
<1>2. SnapshotRows(env, i, t, tick) = rows
  BY DEF SnapshotRows, TopOf
<1>3. a.ds = "book_snapshots" /\ b.ds = "book_snapshot_levels"
  BY DEF Row
<1>4. top.ds = "top_of_book" /\ top.token = t
  <2>1. TopOf(env, i, 0, t).ds = "top_of_book" /\ TopOf(env, i, 0, t).token = t
    <3> HIDE DEF a, b, top, rows
    <3>1. 0 \in Nat
      OBVIOUS
    <3>2. QED
      BY <3>1, TopOfIs
  <2>2. QED
    BY <2>1 DEF top
<1> HIDE DEF a, b
<1>5. Shown(ToSet(rows), c) = {TopOf(env, i, 0, u) : u \in {v \in TokensShown(c) : v = t}}
  <2>1. {TopOf(env, i, 0, u) : u \in {v \in TokensShown(c) : v = t}}
          = IF t \in TokensShown(c) THEN {top} ELSE {}
    OBVIOUS
  <2> HIDE DEF top
  <2>2. ToSet(rows) = {a, b, top}
    BY DEF ToSet
  <2> HIDE DEF rows
  <2>3. Shown(ToSet(rows), c) = IF t \in TokensShown(c) THEN {top} ELSE {}
    BY <1>3, <1>4, <2>2 DEF Shown
  <2>4. QED
    BY <2>1, <2>3
<1>6. QED
  BY <1>1, <1>2, <1>5

LEMMA BookCharts ==
  ASSUME NEW ctx \in Contexts, NEW env \in RecordedEnvelope, NEW i \in DOMAIN env.msgs,
         NEW c \in Conditions, TokensOf[c] \subseteq ctx.known, env.msgs[i].type = "book"
  PROVE  Charts(BookMessage(ctx, env, i, env.msgs[i]), ctx, c, BookTops(env, i, c))
<1> DEFINE m == env.msgs[i]
           tick == TickOfBook(ctx, m)
           next == SetTickSize(ctx, m.token, tick)
           rows == SnapshotRows(env, i, m.token, tick)
<1>1. i \in Nat /\ m.token \in Tokens /\ m.tick \in Nat
  BY MessageFields
<1>2. tick \in Nat
  <2>1. ctx.ticks[m.token] \in Nat /\ BaseTick[m.token] \in Nat
    BY <1>1, ParserAssumption DEF Contexts
  <2>2. QED
    BY <1>1, <2>1 DEF TickOfBook
<1>3. next \in Contexts /\ next.rows = ctx.rows /\ next.known = ctx.known
  BY <1>1, <1>2, SetTickSizeIs
<1>4. m.token \notin ctx.known => m.token \notin TokensShown(c)
  BY TokensShownAre
<1>5. m.bad \in {"no", "early", "late"}
  <2>1. m \in Message
    BY MessageFields
  <2> HIDE DEF m
  <2>2. QED
    BY <2>1 DEF Message
<1>6. \/ /\ BookMessage(ctx, env, i, m) \in {MessageFails(ctx, env, i), MessageFails(next, env, i)}
         /\ m.token \notin ctx.known \/ m.bad # "no"
      \/ BookMessage(ctx, env, i, m) = Emit(next, rows) /\ m.token \in ctx.known /\ m.bad = "no"
  BY <1>5 DEF BookMessage
<1>7. Charts(ctx, ctx, c, {}) /\ Charts(next, ctx, c, {})
  BY <1>3, NothingCharts
<1> HIDE DEF next, tick
<1>8. ASSUME m.token \in Traded
      PROVE  /\ rows \in Seq(RowSet)
             /\ Shown(ToSet(rows), c) = {TopOf(env, i, 0, u) : u \in {v \in TokensShown(c) : v = m.token}}
  <2> DEFINE t == m.token
  <2>1. t \in Traded /\ rows = SnapshotRows(env, i, t, tick)
    BY <1>8
  <2> HIDE DEF t, rows, m
  <2>2. /\ SnapshotRows(env, i, t, tick) \in Seq(RowSet)
        /\ Shown(ToSet(SnapshotRows(env, i, t, tick)), c)
             = {TopOf(env, i, 0, u) : u \in {v \in TokensShown(c) : v = t}}
    BY <1>1, <1>2, <2>1, SnapshotShown
  <2>3. QED
    BY <2>1, <2>2 DEF t
<1> HIDE DEF rows
<1>9. CASE m.token \notin ctx.known \/ m.bad # "no"
  <2>1. BookTops(env, i, c) = {}
    BY <1>4, <1>9 DEF BookTops
  <2>2. Charts(MessageFails(ctx, env, i), ctx, c, {}) /\ Charts(MessageFails(next, env, i), ctx, c, {})
    BY <1>1, <1>3, <1>7, FailsCharts
  <2>3. QED
    BY <1>6, <1>9, <2>1, <2>2
<1>10. CASE m.token \in ctx.known /\ m.bad = "no"
  <2>1. m.token \in Traded
    BY <1>10 DEF Contexts
  <2>2. BookTops(env, i, c) = {TopOf(env, i, 0, u) : u \in {v \in TokensShown(c) : v = m.token}}
    BY <1>10 DEF BookTops
  <2>3. Charts(Emit(next, rows), ctx, c, {} \cup Shown(ToSet(rows), c))
    BY <1>3, <1>7, <1>8, <2>1, EmitCharts
  <2>4. QED
    BY <1>6, <1>8, <1>10, <2>1, <2>2, <2>3
<1>11. QED
  BY <1>9, <1>10

LEMMA BestBidAskCharts ==
  ASSUME NEW ctx \in Contexts, NEW env \in RecordedEnvelope, NEW i \in DOMAIN env.msgs,
         NEW c \in Conditions, TokensOf[c] \subseteq ctx.known, env.msgs[i].type = "best_bid_ask"
  PROVE  Charts(BestBidAskMessage(ctx, env, i, env.msgs[i]), ctx, c, BookTops(env, i, c))
<1> DEFINE m == env.msgs[i]
           top == TopOf(env, i, 0, m.token)
           rows == << top >>
<1>1. i \in Nat /\ 0 \in Nat
  BY MessageFields
<1>2. m.token \notin ctx.known => m.token \notin TokensShown(c)
  BY TokensShownAre
<1>3. BestBidAskMessage(ctx, env, i, m) =
        IF m.token \notin ctx.known \/ m.bad # "no" THEN MessageFails(ctx, env, i) ELSE Emit(ctx, rows)
  BY DEF BestBidAskMessage, TopOf
<1>4. Charts(ctx, ctx, c, {})
  BY NothingCharts
<1>5. CASE m.token \notin ctx.known \/ m.bad # "no"
  <2>1. BookTops(env, i, c) = {}
    BY <1>2, <1>5 DEF BookTops
  <2>2. Charts(MessageFails(ctx, env, i), ctx, c, {})
    BY <1>1, <1>4, FailsCharts
  <2>3. QED
    BY <1>3, <1>5, <2>1, <2>2
<1>6. CASE m.token \in ctx.known /\ m.bad = "no"
  <2>1. m.token \in Traded
    BY <1>6 DEF Contexts
  <2>2. top \in RowSet /\ top.ds = "top_of_book" /\ top.token = m.token
    <3> HIDE DEF m
    <3>1. QED
      BY <1>1, <2>1, TopOfIs
  <2>3. BookTops(env, i, c) = IF m.token \in TokensShown(c) THEN {top} ELSE {}
    BY <1>6 DEF BookTops
  <2> HIDE DEF top, m
  <2>4. rows \in Seq(RowSet) /\ ToSet(rows) = {top}
    BY <2>2, OneElement
  <2> HIDE DEF rows
  <2>5. Shown(ToSet(rows), c) = BookTops(env, i, c)
    BY <2>2, <2>3, <2>4 DEF Shown
  <2>6. Charts(Emit(ctx, rows), ctx, c, {} \cup Shown(ToSet(rows), c))
    BY <1>4, <2>4, EmitCharts
  <2>7. QED
    BY <1>3, <1>6, <2>5, <2>6 DEF m
<1>7. QED
  BY <1>5, <1>6

\* The first of the failing positions is the one after those that are kept.
LEMMA FirstFailing ==
  ASSUME NEW l \in Nat, NEW failing \in SUBSET (1 .. l)
  PROVE  LET n == IF failing = {} THEN l ELSE Min(failing) - 1
         IN  failing # {} => n + 1 \in failing
<1> DEFINE low == Min(failing)
<1>1. CASE failing # {}
  <2>1. IsFiniteSet(1 .. l)
    BY FS_Interval
  <2>2. IsFiniteSet(failing) /\ failing \in SUBSET Int
    <3>1. IsFiniteSet(failing)
      BY <2>1, FS_Subset
    <3>2. QED
      BY <3>1
  <2>3. low \in failing
    BY <1>1, <2>2, MinIsLeast
  <2> HIDE DEF low
  <2>4. low \in 1 .. l
    BY <2>3
  <2>5. (low - 1) + 1 = low
    BY <2>4
  <2>6. QED
    BY <1>1, <2>3, <2>5 DEF low
<1>2. QED
  BY <1>1

LEMMA ChangeShown ==
  ASSUME NEW env \in RecordedEnvelope, NEW i \in Nat, NEW j \in Nat, NEW change \in Change,
         change.token \in Traded, NEW c
  PROVE  /\ ChangeRows(env, i, j, change) \in Seq(RowSet)
         /\ Shown(ToSet(ChangeRows(env, i, j, change)), c)
              = IF change.top /\ change.token \in TokensShown(c)
                THEN {TopOf(env, i, j, change.token)} ELSE {}
<1> DEFINE a == Row(env, "book_updates", i, j, change.token, NoTick)
           b == TopOf(env, i, j, change.token)
           head == << a >>
           rest == IF change.top THEN << b >> ELSE << >>
<1>1. ChangeRows(env, i, j, change) = head \o rest
  BY DEF ChangeRows, TopOf
<1>2. /\ NoTick \in Nat /\ change.token \in Tokens \cup Conditions
      /\ "book_updates" \in Datasets \ {"top_of_book"} /\ change.top \in BOOLEAN
  BY DEF NoTick, Datasets, Change
<1>3. a \in RowSet
  BY <1>2, RowIs
<1>4. a.ds = "book_updates"
  BY DEF Row
<1>5. b \in RowSet /\ b.ds = "top_of_book" /\ b.token = change.token
  <2> HIDE DEF a, head, rest
  <2>1. QED
    BY TopOfIs
<1> HIDE DEF a
<1>6. QED
  <2> HIDE DEF b
  <2>1. << b >> \in Seq(RowSet) /\ ToSet(<< b >>) = {b} /\ head \in Seq(RowSet) /\ ToSet(head) = {a}
    BY <1>3, <1>5, OneElement
  <2>2. << >> \in Seq(RowSet) /\ ToSet(<< >>) = {}
    BY EmptySeq DEF ToSet
  <2> HIDE DEF head
  <2>3. rest \in Seq(RowSet) /\ ToSet(rest) = IF change.top THEN {b} ELSE {}
    BY <1>2, <2>1, <2>2
  <2> HIDE DEF rest
  <2>4. head \o rest \in Seq(RowSet) /\ ToSet(head \o rest) = ToSet(head) \cup ToSet(rest)
    BY <2>1, <2>3, ConcatIs
  <2>5. Shown(ToSet(head \o rest), c) = IF change.top /\ change.token \in TokensShown(c) THEN {b} ELSE {}
    BY <1>2, <1>4, <1>5, <2>1, <2>3, <2>4 DEF Shown
  <2>6. QED
    BY <1>1, <2>4, <2>5 DEF b

LEMMA PriceChangeCharts ==
  ASSUME NEW ctx \in Contexts, NEW env \in RecordedEnvelope, WellFormed(env),
         NEW i \in DOMAIN env.msgs,
         NEW c \in Conditions, TokensOf[c] \subseteq ctx.known, env.msgs[i].type = "price_change"
  PROVE  Charts(PriceChangeMessage(ctx, env, i, env.msgs[i]), ctx, c, ChangeTops(env, i, c))
<1> DEFINE m == env.msgs[i]
           failing == {j \in 1 .. Len(m.changes) :
                         m.changes[j].bad \/ m.changes[j].token \notin ctx.known}
           n == IF failing = {} THEN Len(m.changes) ELSE Min(failing) - 1
           parts == [j \in 1 .. n |-> ChangeRows(env, i, j, m.changes[j])]
           rows == FlattenSeq(parts)
           kept == Emit(ctx, rows)
           top(j) == TopOf(env, i, j, m.changes[j].token)
           shown(j) == m.changes[j].top /\ m.changes[j].token \in TokensShown(c)
           tops == {top(j) : j \in {k \in 1 .. n : shown(k)}}
<1>1. i \in Nat /\ m.changes \in Seq(Change)
  BY MessageFields
<1>2. Len(m.changes) \in Nat /\ (\A j \in 1 .. Len(m.changes) : m.changes[j] \in Change)
      /\ DOMAIN m.changes = 1 .. Len(m.changes)
  BY <1>1, LenProperties, ElementOfSeq
<1>3. n \in Nat /\ n <= Len(m.changes) /\ \A j \in 1 .. n : j \notin failing
  BY <1>1, <1>2, KeptChanges
<1>4. failing # {} => n + 1 \in failing
  BY <1>1, <1>2, FirstFailing
<1>5. IF m.bad # "no" THEN PriceChangeMessage(ctx, env, i, m) = MessageFails(ctx, env, i)
      ELSE PriceChangeMessage(ctx, env, i, m) \in {MessageFails(kept, env, i), kept}
  BY DEF PriceChangeMessage
<1>6. failing = {} => n = Len(m.changes)
  OBVIOUS
<1>7. \A j \in 1 .. Len(m.changes) :
        j \in failing <=> m.changes[j].bad \/ m.changes[j].token \notin ctx.known
  OBVIOUS
<1>8. \A j \in failing : j \in 1 .. Len(m.changes)
  OBVIOUS
<1>9. (m.bad = "no" /\ \E k \in 1 .. Len(m.changes) : m.changes[k].token \in TokensShown(c))
        => \A k \in 1 .. Len(m.changes) : m.changes[k].token \in ctx.known
  <2>1. \A j, k \in 1 .. Len(m.changes) :
           m.changes[j].token \in TokensOf[c] => m.changes[k].token \in TokensOf[c]
    BY <1>2 DEF WellFormed
  <2>2. TokensShown(c) \subseteq TokensOf[c]
    BY TokensShownAre
  <2> HIDE DEF m
  <2>3. QED
    BY <2>1, <2>2
<1> HIDE DEF n, failing
<1>10. \A j \in 1 .. n : m.changes[j] \in Change /\ j \in Nat /\ m.changes[j].token \in Traded
  <2>1. \A j \in 1 .. n : j \in 1 .. Len(m.changes) /\ j \in Nat
    BY <1>2, <1>3
  <2>2. \A j \in 1 .. n : m.changes[j].token \in ctx.known
    BY <1>3, <1>7, <2>1
  <2>3. ctx.known \subseteq Traded
    BY DEF Contexts
  <2>4. QED
    BY <1>2, <2>1, <2>2, <2>3
<1>11. ASSUME NEW j \in 1 .. n
       PROVE  /\ ChangeRows(env, i, j, m.changes[j]) \in Seq(RowSet)
              /\ Shown(ToSet(ChangeRows(env, i, j, m.changes[j])), c)
                   = IF shown(j) THEN {top(j)} ELSE {}
  <2> DEFINE change == m.changes[j]
  <2>1. change \in Change /\ j \in Nat /\ change.token \in Traded
    BY <1>10
  <2> HIDE DEF change
  <2>2. /\ ChangeRows(env, i, j, change) \in Seq(RowSet)
        /\ Shown(ToSet(ChangeRows(env, i, j, change)), c)
             = IF change.top /\ change.token \in TokensShown(c)
               THEN {TopOf(env, i, j, change.token)} ELSE {}
    BY <1>1, <2>1, ChangeShown
  <2>3. QED
    BY <2>2 DEF change
<1>12. \A j \in 1 .. n : /\ shown(j) => Shown(ToSet(parts[j]), c) = {top(j)}
                         /\ ~shown(j) => Shown(ToSet(parts[j]), c) = {}
  BY <1>11
<1> HIDE DEF top, shown
<1>13. parts \in Seq(Seq(RowSet)) /\ DOMAIN parts = 1 .. n
  <2>1. \A j \in 1 .. n : ChangeRows(env, i, j, m.changes[j]) \in Seq(RowSet)
    BY <1>11
  <2>2. QED
    BY <1>3, <2>1, IsASeq
<1> HIDE DEF parts
<1>14. rows \in Seq(RowSet) /\ ToSet(rows) = UNION {ToSet(parts[j]) : j \in DOMAIN parts}
  BY <1>13, FlattenIs
<1> HIDE DEF rows
<1>15. Shown(ToSet(rows), c) = tops
  <2>1. Shown(ToSet(rows), c) = UNION {Shown(ToSet(parts[j]), c) : j \in 1 .. n}
    BY <1>13, <1>14 DEF Shown
  <2>2. ASSUME NEW r \in Shown(ToSet(rows), c) PROVE r \in tops
    <3>1. PICK j \in 1 .. n : r \in Shown(ToSet(parts[j]), c)
      BY <2>1, <2>2
    <3>2. shown(j) /\ r = top(j)
      BY <1>12, <3>1
    <3>3. QED
      BY <3>2
  <2>3. ASSUME NEW r \in tops PROVE r \in Shown(ToSet(rows), c)
    <3>1. PICK j \in 1 .. n : shown(j) /\ r = top(j)
      OBVIOUS
    <3>2. r \in Shown(ToSet(parts[j]), c)
      BY <1>12, <3>1
    <3>3. QED
      BY <2>1, <3>2
  <2>4. QED
    BY <2>2, <2>3
<1>16. Charts(ctx, ctx, c, {})
  BY NothingCharts
<1>17. CASE m.bad # "no"
  <2>1. ChangeTops(env, i, c) = {}
    BY <1>17 DEF ChangeTops
  <2>2. Charts(MessageFails(ctx, env, i), ctx, c, {})
    BY <1>1, <1>16, FailsCharts
  <2>3. QED
    BY <1>5, <1>17, <2>1, <2>2
<1>18. CASE m.bad = "no"
  <2>1. kept \in Contexts
    BY <1>14, EmitIs
  <2>2. Charts(kept, ctx, c, {} \cup Shown(ToSet(rows), c))
    BY <1>14, <1>16, EmitCharts
  <2>3. Charts(kept, ctx, c, tops)
    BY <1>15, <2>2
  <2> HIDE DEF kept
  <2>4. Charts(MessageFails(kept, env, i), ctx, c, tops)
    BY <1>1, <2>1, <2>3, FailsCharts
  <2> DEFINE here == {k \in 1 .. Len(m.changes) : shown(k) /\ \A l \in 1 .. k : ~m.changes[l].bad}
  <2>5. ChangeTops(env, i, c) = {top(j) : j \in here}
    BY <1>18 DEF ChangeTops, top, shown
  <2>6. \A k \in 1 .. n : k \in 1 .. Len(m.changes)
    BY <1>2, <1>3
  <2>7. ASSUME NEW k \in 1 .. n, shown(k) PROVE k \in here
    <3>1. ASSUME NEW l \in 1 .. k PROVE ~m.changes[l].bad
      <4>1. l \in 1 .. n
        BY <1>3
      <4>2. QED
        BY <1>3, <1>7, <2>6, <4>1
    <3>2. QED
      BY <2>6, <2>7, <3>1
  <2>8. ASSUME NEW k \in here PROVE k \in 1 .. n
    <3>1. k \in 1 .. Len(m.changes) /\ m.changes[k].token \in TokensShown(c)
          /\ \A l \in 1 .. k : ~m.changes[l].bad
      BY DEF shown
    <3>2. \A j \in 1 .. Len(m.changes) : m.changes[j].token \in ctx.known
      BY <1>9, <1>18, <3>1
    <3>3. \A j \in failing : j \in 1 .. Len(m.changes) /\ m.changes[j].bad
      BY <1>7, <1>8, <3>2
    <3>4. CASE failing = {}
      BY <1>6, <3>1, <3>4
    <3>5. CASE failing # {}
      <4>1. n + 1 \in 1 .. Len(m.changes) /\ m.changes[n + 1].bad
        BY <1>4, <3>3, <3>5
      <4>2. ~(n + 1 \in 1 .. k)
        BY <3>1, <4>1
      <4>3. QED
        BY <1>2, <1>3, <3>1, <4>2
    <3>6. QED
      BY <3>4, <3>5
  <2>9. tops = {top(j) : j \in here}
    <3>1. {k \in 1 .. n : shown(k)} = here
      <4>1. \A k \in here : shown(k)
        OBVIOUS
      <4> HIDE DEF here
      <4>2. QED
        BY <2>7, <2>8, <4>1
    <3>2. QED
      BY <3>1
  <2>10. QED
    BY <1>5, <1>18, <2>3, <2>4, <2>5, <2>9
<1>19. QED
  BY <1>17, <1>18

\* The other handlers of the market channel put nothing into the chart.
LEMMA TradeCharts ==
  ASSUME NEW ctx \in Contexts, NEW env \in RecordedEnvelope, NEW i \in DOMAIN env.msgs, NEW c
  PROVE  Charts(TradeMessage(ctx, env, i, env.msgs[i]), ctx, c, {})
<1> DEFINE m == env.msgs[i]
           q == Quality(env, i, 1)
           noted == IF m.imprecise THEN Emit(ctx, << q >>) ELSE ctx
           plain == Row(env, "trades", i, 0, m.token, NoTick)
           row == [plain EXCEPT !.id = <<"trade", m.trade>>]
<1>1. /\ i \in Nat /\ 1 \in Nat /\ m.token \in Tokens \cup Conditions /\ m.trade \in TradeIds
      /\ NoTick \in Nat /\ "trades" \in Datasets \ {"top_of_book"}
  BY MessageFields DEF NoTick, Datasets
<1>2. q \in RowSet /\ q.ds = "data_quality_events"
  BY <1>1, QualityIs
<1>3. row \in RowSet /\ row.ds = "trades"
  <2>1. plain.ds = "trades" /\ plain.key = <<env.id, i, 0>>
    BY DEF Row
  <2>2. <<"trade", m.trade>> \in RowIds
    BY <1>1 DEF RowIds
  <2> HIDE DEF m
  <2>3. plain \in RowSet
    BY <1>1, RowIs
  <2> HIDE DEF plain
  <2>4. QED
    BY <2>1, <2>2, <2>3 DEF RowSet, ByIdentity
<1>4. TradeMessage(ctx, env, i, m) \in
        {MessageFails(ctx, env, i), MessageFails(noted, env, i), Emit(noted, << row >>)}
  BY DEF TradeMessage
<1> HIDE DEF row, q
<1>5. Charts(ctx, ctx, c, {})
  BY NothingCharts
<1>6. noted \in Contexts /\ Charts(noted, ctx, c, {})
  <2>1. Charts(Emit(ctx, << q >>), ctx, c, {})
    BY <1>2, <1>5, EmitOneCharts
  <2>2. << q >> \in Seq(RowSet)
    BY <1>2, OneElement
  <2>3. Emit(ctx, << q >>) \in Contexts
    BY <2>2, EmitIs
  <2>4. QED
    BY <1>5, <2>1, <2>3
<1> HIDE DEF noted, m
<1>7. /\ Charts(MessageFails(ctx, env, i), ctx, c, {}) /\ Charts(MessageFails(noted, env, i), ctx, c, {})
      /\ Charts(Emit(noted, << row >>), ctx, c, {})
  BY <1>1, <1>3, <1>5, <1>6, FailsCharts, EmitOneCharts
<1>8. QED
  BY <1>4, <1>7 DEF m

LEMMA TickSizeCharts ==
  ASSUME NEW ctx \in Contexts, NEW env \in RecordedEnvelope, NEW i \in DOMAIN env.msgs, NEW c
  PROVE  Charts(TickSizeMessage(ctx, env, i, env.msgs[i]), ctx, c, {})
<1> DEFINE m == env.msgs[i]
           row == TickRow(env, i, m)
           next == SetTickSize(ctx, m.token, m.tick)
<1>1. i \in Nat /\ m.token \in Tokens /\ m.tick \in Nat
  BY MessageFields
<1>2. row \in RowSet /\ row.ds = "tick_size_changes"
  BY TickRowIs
<1>3. next \in Contexts /\ next.rows = ctx.rows /\ next.known = ctx.known
  BY <1>1, SetTickSizeIs
<1>4. TickSizeMessage(ctx, env, i, m) \in {MessageFails(ctx, env, i), Emit(next, << row >>)}
  BY DEF TickSizeMessage
<1> HIDE DEF row, next
<1>5. Charts(ctx, ctx, c, {}) /\ Charts(next, ctx, c, {})
  BY <1>3, NothingCharts
<1> HIDE DEF m
<1>6. Charts(MessageFails(ctx, env, i), ctx, c, {}) /\ Charts(Emit(next, << row >>), ctx, c, {})
  BY <1>1, <1>2, <1>3, <1>5, FailsCharts, EmitOneCharts
<1>7. QED
  BY <1>4, <1>6 DEF m

LEMMA ResolutionCharts ==
  ASSUME NEW ctx \in Contexts, NEW env \in RecordedEnvelope, NEW i \in DOMAIN env.msgs, NEW c
  PROVE  Charts(ResolutionMessage(ctx, env, i, env.msgs[i]), ctx, c, {})
<1> DEFINE m == env.msgs[i]
           row == Row(env, "market_resolutions", i, 0, m.token, NoTick)
<1>1. /\ i \in Nat /\ 0 \in Nat /\ m.token \in Tokens \cup Conditions /\ NoTick \in Nat
      /\ "market_resolutions" \in Datasets \ {"top_of_book"}
  BY MessageFields DEF NoTick, Datasets
<1>2. row \in RowSet
  <2> HIDE DEF m
  <2>1. QED
    BY <1>1, RowIs
<1>3. row.ds = "market_resolutions"
  BY DEF Row
<1>4. ResolutionMessage(ctx, env, i, m) \in {MessageFails(ctx, env, i), Emit(ctx, << row >>)}
  BY DEF ResolutionMessage
<1> HIDE DEF row
<1>5. Charts(ctx, ctx, c, {})
  BY NothingCharts
<1> HIDE DEF m
<1>6. Charts(MessageFails(ctx, env, i), ctx, c, {}) /\ Charts(Emit(ctx, << row >>), ctx, c, {})
  BY <1>1, <1>2, <1>3, <1>5, FailsCharts, EmitOneCharts
<1>7. QED
  BY <1>4, <1>6 DEF m

LEMMA ClobMessageCharts ==
  ASSUME NEW ctx \in Contexts, NEW env \in RecordedEnvelope, WellFormed(env),
         NEW i \in DOMAIN env.msgs, NEW c \in Conditions, TokensOf[c] \subseteq ctx.known
  PROVE  Charts(ClobMessage(ctx, env, i, env.msgs[i]), ctx, c, MessageTops(env, i, c))
<1> DEFINE m == env.msgs[i]
<1>1. m.type \notin {"book", "best_bid_ask"} => BookTops(env, i, c) = {}
  BY DEF BookTops
<1>2. m.type # "price_change" => ChangeTops(env, i, c) = {}
  BY DEF ChangeTops
<1>3. MessageTops(env, i, c) = BookTops(env, i, c) \cup ChangeTops(env, i, c)
  BY DEF MessageTops
<1>4. CASE m.type = "book"
  <2>1. ClobMessage(ctx, env, i, m) = BookMessage(ctx, env, i, m)
    BY <1>4 DEF ClobMessage
  <2>2. MessageTops(env, i, c) = BookTops(env, i, c)
    BY <1>2, <1>3, <1>4
  <2>3. QED
    BY <1>4, <2>1, <2>2, BookCharts
<1>5. CASE m.type = "best_bid_ask"
  <2>1. ClobMessage(ctx, env, i, m) = BestBidAskMessage(ctx, env, i, m)
    BY <1>5 DEF ClobMessage
  <2>2. MessageTops(env, i, c) = BookTops(env, i, c)
    BY <1>2, <1>3, <1>5
  <2>3. QED
    BY <1>5, <2>1, <2>2, BestBidAskCharts
<1>6. CASE m.type = "price_change"
  <2>1. ClobMessage(ctx, env, i, m) = PriceChangeMessage(ctx, env, i, m)
    BY <1>6 DEF ClobMessage
  <2>2. MessageTops(env, i, c) = ChangeTops(env, i, c)
    BY <1>1, <1>3, <1>6
  <2>3. QED
    BY <1>6, <2>1, <2>2, PriceChangeCharts
<1>7. CASE m.type \notin {"book", "best_bid_ask", "price_change"}
  <2>1. MessageTops(env, i, c) = {}
    BY <1>1, <1>2, <1>3, <1>7
  <2>2. \/ ClobMessage(ctx, env, i, m) = TradeMessage(ctx, env, i, m)
        \/ ClobMessage(ctx, env, i, m) = TickSizeMessage(ctx, env, i, m)
        \/ ClobMessage(ctx, env, i, m) = ResolutionMessage(ctx, env, i, m)
        \/ ClobMessage(ctx, env, i, m) = ctx
        \/ ClobMessage(ctx, env, i, m) = MessageFails(ctx, env, i)
    <3> HIDE DEF m
    <3>1. QED
      BY <1>7 DEF ClobMessage
  <2>3. Charts(ctx, ctx, c, {})
    BY NothingCharts
  <2>4. i \in Nat
    BY MessageFields
  <2>5. Charts(MessageFails(ctx, env, i), ctx, c, {})
    BY <2>3, <2>4, FailsCharts
  <2>6. QED
    BY <2>1, <2>2, <2>3, <2>5, TradeCharts, TickSizeCharts, ResolutionCharts
<1>8. QED
  BY <1>4, <1>5, <1>6, <1>7

LEMMA ParseClobCharts ==
  ASSUME NEW ctx \in Contexts, NEW env \in RecordedEnvelope, WellFormed(env),
         NEW c \in Conditions, TokensOf[c] \subseteq ctx.known
  PROVE  Charts(ParseClob(ctx, env), ctx, c,
                IF env.form \in {"object", "list"}
                THEN UNION {MessageTops(env, i, c) : i \in 1 .. Len(env.msgs)} ELSE {})
<1>1. env.form \in {"object", "list", "pong", "empty", "garbage"} /\ env.msgs \in Seq(Message)
  BY DEF RecordedEnvelope
<1>2. Charts(ctx, ctx, c, {})
  BY NothingCharts
<1>3. CASE env.form \notin {"object", "list"}
  <2>1. ParseClob(ctx, env) \in {ctx, MessageFails(ctx, env, 0)}
    BY <1>1, <1>3 DEF ParseClob
  <2>2. Charts(MessageFails(ctx, env, 0), ctx, c, {})
    BY <1>2, FailsCharts
  <2>3. QED
    BY <1>2, <1>3, <2>1, <2>2
<1>4. CASE env.form \in {"object", "list"}
  <2> DEFINE n == Len(env.msgs)
             upTo(k) == UNION {MessageTops(env, i, c) : i \in 1 .. k}
  <2>1. n \in Nat /\ DOMAIN env.msgs = 1 .. n
    BY <1>1, LenProperties
  <2>2. PICK parsed \in ClobRuns(ctx, env) : ParseClob(ctx, env) = parsed[n]
    BY <1>4, ParseClobRuns
  <2> DEFINE Done == {k \in 0 .. n : Charts(parsed[k], ctx, c, upTo(k))}
  <2>3. /\ parsed \in [0 .. n -> Contexts] /\ parsed[0] = ctx
        /\ \A i \in 1 .. n : parsed[i] = ClobMessage(parsed[i - 1], env, i, env.msgs[i])
    BY <2>2 DEF ClobRuns
  <2>4. 0 \in Done
    <3>1. upTo(0) = {}
      OBVIOUS
    <3> HIDE DEF upTo
    <3>2. 0 \in 0 .. n /\ Charts(parsed[0], ctx, c, {})
      BY <1>2, <2>1, <2>3
    <3>3. QED
      BY <3>1, <3>2
  <2>5. ASSUME NEW k \in 0 .. n - 1, k \in Done PROVE k + 1 \in Done
    <3>1. k + 1 \in 1 .. n /\ k + 1 \in 0 .. n /\ (k + 1) - 1 = k /\ k \in Nat /\ k \in 0 .. n
      BY <2>1
    <3>2. parsed[k] \in Contexts /\ Charts(parsed[k], ctx, c, upTo(k))
      BY <2>3, <2>5, <3>1
    <3>3. parsed[k + 1] = ClobMessage(parsed[k], env, k + 1, env.msgs[k + 1])
      BY <2>3, <3>1
    <3>4. TokensOf[c] \subseteq parsed[k].known
      BY <3>2 DEF Charts
    <3>5. Charts(parsed[k + 1], parsed[k], c, MessageTops(env, k + 1, c))
      BY <2>1, <3>1, <3>2, <3>3, <3>4, ClobMessageCharts
    <3>6. upTo(k) \cup MessageTops(env, k + 1, c) = upTo(k + 1)
      <4>1. 1 .. k + 1 = 1 .. k \cup {k + 1}
        BY <3>1
      <4>2. QED
        BY <4>1
    <3> HIDE DEF upTo
    <3>7. Charts(parsed[k + 1], ctx, c, upTo(k) \cup MessageTops(env, k + 1, c))
      BY <3>2, <3>5, ChartsThen
    <3>8. QED
      BY <3>1, <3>6, <3>7
  <2> HIDE DEF Done
  <2>6. \A k \in 0 .. n : k \in Done
    <3> HIDE DEF n
    <3>1. QED
      BY <2>1, <2>4, <2>5, IntervalInduction
  <2>7. n \in Done
    BY <2>1, <2>6
  <2>8. Charts(ParseClob(ctx, env), ctx, c, upTo(n))
    BY <2>2, <2>7 DEF Done
  <2>9. QED
    BY <1>4, <2>8
<1>5. QED
  BY <1>3, <1>4

\* One row that is not of the chart, and what fails.
LEMMA OneRowCharts ==
  ASSUME NEW ctx \in Contexts, NEW env \in RecordedEnvelope, NEW ds \in Datasets \ {"top_of_book"},
         NEW t \in Tokens \cup Conditions, NEW c
  PROVE  Charts(Emit(ctx, << Row(env, ds, 1, 0, t, NoTick) >>), ctx, c, {})
<1> DEFINE r == Row(env, ds, 1, 0, t, NoTick)
<1>1. NoTick \in Nat /\ 1 \in Nat /\ 0 \in Nat
  BY DEF NoTick
<1>2. r \in RowSet /\ r.ds = ds
  BY <1>1, RowIs
<1> HIDE DEF r
<1>3. Charts(ctx, ctx, c, {})
  BY NothingCharts
<1>4. Charts(Emit(ctx, << r >>), ctx, c, {})
  BY <1>2, <1>3, EmitOneCharts
<1>5. QED
  BY <1>4 DEF r

LEMMA EnvelopeFailsCharts ==
  ASSUME NEW ctx, NEW next \in Contexts, NEW env \in RecordedEnvelope, NEW c, NEW S,
         Charts(next, ctx, c, S)
  PROVE  Charts(EnvelopeFails(next, env), ctx, c, S)
<1>1. Charts(MessageFails(next, env, 0), ctx, c, S)
  BY FailsCharts
<1>2. QED
  BY <1>1 DEF EnvelopeFails, MessageFails

LEMMA ParseRtdsCharts ==
  ASSUME NEW ctx \in Contexts, NEW env \in RecordedEnvelope, NEW c
  PROVE  Charts(ParseRtds(ctx, env), ctx, c, {})
<1> DEFINE r == Row(env, "btc_prices", 1, 0, env.token, NoTick)
<1>1. ParseRtds(ctx, env)
        \in {ctx, MessageFails(ctx, env, 0), MessageFails(ctx, env, 1), Emit(ctx, << r >>)}
  BY DEF ParseRtds
<1>2. env.token \in Tokens \cup Conditions /\ "btc_prices" \in Datasets \ {"top_of_book"}
  BY DEF RecordedEnvelope, Datasets
<1>3. Charts(ctx, ctx, c, {})
  BY NothingCharts
<1>4. Charts(MessageFails(ctx, env, 0), ctx, c, {}) /\ Charts(MessageFails(ctx, env, 1), ctx, c, {})
  BY <1>3, FailsCharts
<1>5. Charts(Emit(ctx, << r >>), ctx, c, {})
  BY <1>2, OneRowCharts
<1>6. QED
  BY <1>1, <1>3, <1>4, <1>5

LEMMA OperationalCharts ==
  ASSUME NEW ctx \in Contexts, NEW env \in RecordedEnvelope, IsOperational(env), NEW c
  PROVE  Charts(OperationalRow(ctx, env), ctx, c, {})
<1> DEFINE ds == OperationalDataset[env.hint]
<1>1. \/ OperationalRow(ctx, env) = EnvelopeFails(ctx, env)
      \/ OperationalRow(ctx, env) = Emit(ctx, << Row(env, ds, 1, 0, env.token, NoTick) >>)
  BY DEF OperationalRow
<1>2. env.hint \in {"connection_event", "heartbeat_event", "rest_request", "data_quality_event"}
  BY DEF IsOperational, OperationalDataset
<1>3. ds \in {"connection_events", "heartbeat_events", "rest_requests", "data_quality_events"}
  BY <1>2 DEF OperationalDataset
<1>4. ds \in Datasets \ {"top_of_book"} /\ env.token \in Tokens \cup Conditions
  BY <1>3 DEF Datasets, RecordedEnvelope
<1> HIDE DEF ds
<1>5. Charts(Emit(ctx, << Row(env, ds, 1, 0, env.token, NoTick) >>), ctx, c, {})
  BY <1>4, OneRowCharts
<1>6. Charts(ctx, ctx, c, {})
  BY NothingCharts
<1>7. Charts(EnvelopeFails(ctx, env), ctx, c, {})
  BY <1>6, EnvelopeFailsCharts
<1>8. QED
  BY <1>1, <1>5, <1>7

LEMMA RestCharts ==
  ASSUME NEW ctx \in Contexts, NEW env \in RecordedEnvelope, WellFormed(env),
         env.src = "clob_rest", ~IsOperational(env),
         NEW registered, env.cond \in registered,
         NEW c \in Conditions, TokensOf[c] \subseteq ctx.known
  PROVE  Charts(RestRows(ctx, env, registered), ctx, c, RestTops(env, c))
<1> DEFINE m == env.msgs[1]
           r == Row(env, "market_execution_metadata", 1, 0, env.cond, NoTick)
           rows == SnapshotRows(env, 1, env.token, m.tick)
           shows == env.hint = "book" /\ env.form = "object" /\ m.bad = "no"
                      /\ env.token \in ctx.known \cup TokensOf[env.cond]
<1>1. env.cond \in Conditions /\ env.token \in Tokens /\ env.msgs \in Seq(Message)
  BY DEF RecordedEnvelope
<1>2. CASE shows
  <2>1. RestRows(ctx, env, registered) = Emit(ctx, rows)
    BY <1>2 DEF RestRows, RestSnapshot
  <2>2. RestTops(env, c) = {TopOf(env, 1, 0, u) : u \in {v \in TokensShown(c) : v = env.token}}
    BY <1>2 DEF RestTops
  <2>3. env.token \in Traded
    BY <1>1, <1>2 DEF Contexts, Traded
  <2>4. m.tick \in Nat
    <3>1. Len(env.msgs) = 1
      BY <1>2 DEF WellFormed
    <3>2. 1 \in DOMAIN env.msgs
      BY <1>1, <3>1, LenProperties
    <3>3. QED
      BY <3>2, MessageFields
  <2> DEFINE t == env.token
             tick == m.tick
  <2>5. t \in Traded /\ tick \in Nat /\ rows = SnapshotRows(env, 1, t, tick)
    BY <2>3, <2>4
  <2> HIDE DEF t, tick, rows
  <2>6. /\ SnapshotRows(env, 1, t, tick) \in Seq(RowSet)
        /\ Shown(ToSet(SnapshotRows(env, 1, t, tick)), c)
             = {TopOf(env, 1, 0, u) : u \in {v \in TokensShown(c) : v = t}}
    BY <2>5, SnapshotShown
  <2>7. rows \in Seq(RowSet) /\ Shown(ToSet(rows), c) = RestTops(env, c)
    BY <2>2, <2>5, <2>6 DEF t
  <2>8. Charts(ctx, ctx, c, {})
    BY NothingCharts
  <2>9. Charts(Emit(ctx, rows), ctx, c, {} \cup Shown(ToSet(rows), c))
    BY <2>7, <2>8, EmitCharts
  <2>10. QED
    BY <2>1, <2>7, <2>9
<1>3. CASE ~shows
  <2>1. RestRows(ctx, env, registered) \in {ctx, EnvelopeFails(ctx, env), Emit(ctx, << r >>)}
    BY <1>3 DEF RestRows, RestMarketExecutionMetadata, RestSnapshot
  <2>2. RestTops(env, c) = {}
    <3>1. TokensShown(c) \subseteq ctx.known
      BY TokensShownAre
    <3>2. QED
      BY <1>3, <3>1 DEF RestTops
  <2>3. "market_execution_metadata" \in Datasets \ {"top_of_book"} /\ env.cond \in Tokens \cup Conditions
    BY <1>1 DEF Datasets
  <2>4. Charts(Emit(ctx, << r >>), ctx, c, {})
    BY <2>3, OneRowCharts
  <2>5. Charts(ctx, ctx, c, {})
    BY NothingCharts
  <2>6. Charts(EnvelopeFails(ctx, env), ctx, c, {})
    BY <2>5, EnvelopeFailsCharts
  <2>7. QED
    BY <2>1, <2>2, <2>4, <2>5, <2>6
<1>4. QED
  BY <1>2, <1>3

LEMMA GammaRowsNotShown ==
  ASSUME NEW env \in RecordedEnvelope, NEW i \in Nat, NEW d \in Conditions
  PROVE  \A r \in ToSet(GammaRows(env, i, d)) : r.ds # "top_of_book"
<1> DEFINE m0 == Row(env, "markets", i, 0, d, NoTick)
           m == [m0 EXCEPT !.id = <<"market", d>>]
           a == Row(env, "market_execution_metadata", i, 0, d, NoTick)
           o0(j) == Row(env, "market_outcomes", i, j, d, NoTick)
           o(j) == [o0(j) EXCEPT !.id = <<"outcome", d, j>>]
           head == << m, a >>
           rest == [j \in 1 .. 2 |-> o(j)]
           X == {m, a, o(1), o(2)}
<1>1. /\ m.ds = "markets" /\ a.ds = "market_execution_metadata"
      /\ o(1).ds = "market_outcomes" /\ o(2).ds = "market_outcomes"
  BY DEF Row
<1>2. GammaRows(env, i, d) = head \o rest
  BY DEF GammaRows
<1> HIDE DEF m0, m, a, o0, o
<1>3. head \in Seq(X) /\ ToSet(head) \subseteq X
  BY DEF ToSet
<1>4. rest \in Seq(X) /\ ToSet(rest) \subseteq X
  BY DEF ToSet
<1>5. \A r \in X : r.ds # "top_of_book"
  BY <1>1
<1> HIDE DEF head, rest, X
<1>6. ToSet(head \o rest) \subseteq X
  BY <1>3, <1>4, ConcatIs
<1>7. QED
  BY <1>2, <1>5, <1>6

LEMMA MarketRowsCharts ==
  ASSUME NEW ctx \in Contexts, NEW env \in RecordedEnvelope, NEW c
  PROVE  Charts(MarketRows(ctx, env), ctx, c, {})
<1> DEFINE n == Len(env.msgs)
           matched == {i \in 1 .. n : env.msgs[i].type = "btc_15m"}
           failing  == {i \in matched : env.msgs[i].bad # "no"}
           read     == IF failing = {} THEN matched ELSE {i \in matched : i < Min(failing)}
           more     == UNION {TokensOf[env.msgs[i].cond] : i \in read}
           learnt   == [ctx EXCEPT !.known = @ \cup more]
           parts    == [k \in 1 .. n |->
                          IF k \in matched THEN GammaRows(env, k, env.msgs[k].cond) ELSE << >>]
           rows     == FlattenSeq(parts)
           x        == Emit(learnt, rows)
<1>1. env.msgs \in Seq(Message) /\ n \in Nat /\ DOMAIN env.msgs = 1 .. n
  <2>1. env.msgs \in Seq(Message)
    BY DEF RecordedEnvelope
  <2>2. QED
    BY <2>1, LenProperties
<1>2. \A i \in 1 .. n : i \in Nat /\ env.msgs[i].cond \in Conditions
  BY <1>1, MessageFields
<1>3. more \in SUBSET Traded
  <2>1. \A i \in read : i \in 1 .. n
    OBVIOUS
  <2>2. \A i \in read : TokensOf[env.msgs[i].cond] \in SUBSET Traded
    BY <1>2, <2>1 DEF Traded
  <2>3. QED
    BY <2>2
<1>4. learnt \in Contexts /\ learnt.rows = ctx.rows /\ ctx.known \subseteq learnt.known
  <2> HIDE DEF more
  <2>1. QED
    BY <1>3 DEF Contexts
<1>5. MarketRows(ctx, env) \in {EnvelopeFails(ctx, env), EnvelopeFails(learnt, env), x}
  BY DEF MarketRows
<1> HIDE DEF learnt, failing
<1>6. Charts(ctx, ctx, c, {}) /\ Charts(learnt, ctx, c, {})
  BY <1>4, NothingCharts
<1>7. Charts(EnvelopeFails(ctx, env), ctx, c, {}) /\ Charts(EnvelopeFails(learnt, env), ctx, c, {})
  BY <1>4, <1>6, EnvelopeFailsCharts
<1>8. \A k \in 1 .. n : /\ parts[k] \in Seq(RowSet)
                        /\ \A r \in ToSet(parts[k]) : r.ds # "top_of_book"
  <2>1. << >> \in Seq(RowSet) /\ ToSet(<< >>) = {}
    BY EmptySeq DEF ToSet
  <2>2. SUFFICES ASSUME NEW k \in 1 .. n
                 PROVE  /\ parts[k] \in Seq(RowSet)
                        /\ \A r \in ToSet(parts[k]) : r.ds # "top_of_book"
    OBVIOUS
  <2> DEFINE g == GammaRows(env, k, env.msgs[k].cond)
  <2>3. g \in Seq(RowSet) /\ \A r \in ToSet(g) : r.ds # "top_of_book"
    BY <1>2, GammaRowsAre, GammaRowsNotShown
  <2>4. parts[k] = IF k \in matched THEN g ELSE << >>
    OBVIOUS
  <2> HIDE DEF parts, g, matched
  <2>5. QED
    BY <2>1, <2>3, <2>4
<1>9. parts \in Seq(Seq(RowSet)) /\ DOMAIN parts = 1 .. n
  <2>1. parts \in [1 .. n -> Seq(RowSet)]
    <3>1. \A k \in 1 .. n : parts[k] \in Seq(RowSet)
      BY <1>8
    <3>2. QED
      BY <3>1
  <2> HIDE DEF parts
  <2>2. QED
    BY <1>1, <2>1, SeqDef
<1> HIDE DEF parts
<1>10. rows \in Seq(RowSet) /\ ToSet(rows) = UNION {ToSet(parts[k]) : k \in DOMAIN parts}
  BY <1>9, FlattenIs
<1>11. \A r \in ToSet(rows) : r.ds # "top_of_book"
  BY <1>8, <1>9, <1>10
<1> HIDE DEF rows
<1>12. Shown(ToSet(rows), c) = {}
  BY <1>11 DEF Shown
<1>13. Charts(x, ctx, c, {} \cup Shown(ToSet(rows), c))
  BY <1>4, <1>6, <1>10, EmitCharts
<1> HIDE DEF x
<1>14. QED
  BY <1>5, <1>7, <1>12, <1>13

\* An envelope puts into a market's chart what its contents say, if the
\* market's tokens are known.
LEMMA EnvelopeCharts ==
  ASSUME NEW ctx \in Contexts, NEW env \in RecordedEnvelope, WellFormed(env),
         NEW registered, env.cond \in registered,
         NEW c \in Conditions, TokensOf[c] \subseteq ctx.known
  PROVE  Charts(EnvelopeRows(ctx, env, registered), ctx, c, EnvelopeTops(env, c))
<1> DEFINE x == EnvelopeRows(ctx, env, registered)
<1>1. ~FromSocket(env) => EnvelopeTops(env, c) = RestTops(env, c)
  BY DEF EnvelopeTops
<1>2. env.src # "clob_rest" \/ IsOperational(env) => RestTops(env, c) = {}
  BY DEF RestTops
<1>3. env.src # "clob_market_ws" \/ IsOperational(env) => ~FromSocket(env)
  BY DEF FromSocket
<1>4. CASE env.src = "clob_rest" /\ ~IsOperational(env)
  <2>1. x = RestRows(ctx, env, registered)
    BY <1>4 DEF EnvelopeRows
  <2>2. QED
    BY <1>1, <1>3, <1>4, <2>1, RestCharts
<1>5. CASE env.src = "clob_market_ws" /\ ~IsOperational(env)
  <2> DEFINE T == IF env.form \in {"object", "list"}
                  THEN UNION {MessageTops(env, i, c) : i \in 1 .. Len(env.msgs)} ELSE {}
  <2>1. x = ParseClob(ctx, env)
    BY <1>5 DEF EnvelopeRows
  <2>2. Charts(x, ctx, c, T)
    BY <2>1, ParseClobCharts
  <2>3. RestTops(env, c) = {}
    BY <1>2, <1>5
  <2>4. FromSocket(env) <=> env.form \in {"object", "list"}
    BY <1>5 DEF FromSocket
  <2>5. EnvelopeTops(env, c) = T
    BY <2>3, <2>4 DEF EnvelopeTops
  <2>6. QED
    BY <2>2, <2>5
<1>6. CASE ~(env.src \in {"clob_rest", "clob_market_ws"} /\ ~IsOperational(env))
  <2>1. EnvelopeTops(env, c) = {}
    BY <1>1, <1>2, <1>3, <1>6
  <2>2. \/ x \in {ctx, MarketRows(ctx, env), ParseRtds(ctx, env)}
        \/ x = OperationalRow(ctx, env) /\ IsOperational(env)
    BY <1>6 DEF EnvelopeRows
  <2>3. Charts(ctx, ctx, c, {})
    BY NothingCharts
  <2>4. QED
    BY <2>1, <2>2, <2>3, MarketRowsCharts, ParseRtdsCharts, OperationalCharts
<1>7. QED
  BY <1>4, <1>5, <1>6

\* What the files that are read hold of an active market is in the rows.
LEMMA ParsedCharts ==
  ASSUME NEW entries \in Seq(Files), registry \in Registry,
         NEW c \in Conditions, registry[c] = "active"
  PROVE  Shown(ToSet(Parsed(entries)), c) = UNION {FileTops(f, c) : f \in ToSet(entries)}
<1> DEFINE envs == Envelopes(entries)
           n == Len(envs)
           upTo(k) == UNION {EnvelopeTops(envs[l], c) : l \in 1 .. k}
<1>1. n \in Nat /\ DOMAIN envs = 1 .. n
      /\ \A k \in 1 .. n : envs[k] \in RecordedEnvelope /\ WellFormed(envs[k])
                           /\ envs[k].cond \in Registered
  <2>1. envs \in Seq(WellFormedEnvelopes)
    BY EnvelopesAre
  <2> HIDE DEF envs
  <2>2. n \in Nat /\ DOMAIN envs = 1 .. n /\ \A k \in 1 .. n : envs[k] \in WellFormedEnvelopes
    BY <2>1, LenProperties, ElementOfSeq
  <2>3. QED
    BY <2>2, RegistryIs DEF WellFormedEnvelopes, RecordedEnvelope
<1>2. PICK parsed \in BatchRuns(envs) : Parsed(entries) = parsed[n].rows
  BY ParsedRuns
<1>3. upTo(n) = UNION {FileTops(f, c) : f \in ToSet(entries)}
  <2>1. ToSet(envs) = {envs[l] : l \in 1 .. n}
    BY <1>1 DEF ToSet
  <2>2. ToSet(envs) = UNION {ToSet(FileOf[f].envelopes) : f \in ToSet(entries)}
    BY EnvelopesAre
  <2> HIDE DEF envs
  <2>3. upTo(n) = UNION {EnvelopeTops(env, c) : env \in ToSet(envs)}
    BY <2>1
  <2> HIDE DEF upTo, n
  <2>4. \A f : FileTops(f, c) = UNION {EnvelopeTops(env, c) : env \in ToSet(FileOf[f].envelopes)}
    BY DEF FileTops
  <2>5. ASSUME NEW r \in upTo(n) PROVE r \in UNION {FileTops(f, c) : f \in ToSet(entries)}
    <3>1. PICK env \in ToSet(envs) : r \in EnvelopeTops(env, c)
      BY <2>3, <2>5
    <3>2. PICK f \in ToSet(entries) : env \in ToSet(FileOf[f].envelopes)
      BY <2>2, <3>1
    <3>3. r \in FileTops(f, c)
      BY <2>4, <3>1, <3>2
    <3>4. QED
      BY <3>2, <3>3
  <2>6. ASSUME NEW r \in UNION {FileTops(f, c) : f \in ToSet(entries)} PROVE r \in upTo(n)
    <3>1. PICK f \in ToSet(entries) : r \in FileTops(f, c)
      BY <2>6
    <3>2. PICK env \in ToSet(FileOf[f].envelopes) : r \in EnvelopeTops(env, c)
      BY <2>4, <3>1
    <3>3. env \in ToSet(envs)
      BY <2>2, <3>1, <3>2
    <3>4. QED
      BY <2>3, <3>2, <3>3
  <2>7. QED
    BY <2>5, <2>6
<1>4. TokensOf[c] \subseteq KnownTokens
  BY DEF KnownTokens
<1> HIDE DEF envs
<1>5. /\ parsed \in [0 .. n -> Contexts] /\ parsed[0].rows = << >> /\ parsed[0].known = KnownTokens
      /\ \A k \in 1 .. n : parsed[k] = EnvelopeRows(parsed[k - 1], envs[k], Registered)
  BY <1>2 DEF BatchRuns, Context
<1> DEFINE P == {k \in 0 .. n : Charts(parsed[k], parsed[0], c, upTo(k))}
<1>6. 0 \in P
  <2>1. 0 \in 0 .. n /\ upTo(0) = {}
    BY <1>1
  <2> HIDE DEF upTo
  <2>2. Charts(parsed[0], parsed[0], c, {})
    BY NothingCharts
  <2>3. QED
    BY <2>1, <2>2
<1>7. ASSUME NEW k \in 0 .. n - 1, k \in P PROVE k + 1 \in P
  <2>1. k + 1 \in 1 .. n /\ k + 1 \in 0 .. n /\ (k + 1) - 1 = k /\ k \in 0 .. n
        /\ 1 .. k + 1 = (1 .. k) \cup {k + 1}
    BY <1>1
  <2>2. parsed[k] \in Contexts /\ parsed[k + 1] = EnvelopeRows(parsed[k], envs[k + 1], Registered)
    BY <1>5, <2>1
  <2>3. Charts(parsed[k], parsed[0], c, upTo(k))
    BY <1>7
  <2>4. TokensOf[c] \subseteq parsed[k].known
    BY <1>4, <1>5, <2>3 DEF Charts
  <2>5. Charts(parsed[k + 1], parsed[k], c, EnvelopeTops(envs[k + 1], c))
    BY <1>1, <2>1, <2>2, <2>4, EnvelopeCharts
  <2>6. upTo(k) \cup EnvelopeTops(envs[k + 1], c) = upTo(k + 1)
    BY <2>1
  <2> HIDE DEF upTo
  <2>7. Charts(parsed[k + 1], parsed[0], c, upTo(k) \cup EnvelopeTops(envs[k + 1], c))
    BY <2>3, <2>5, ChartsThen
  <2>8. QED
    BY <2>1, <2>6, <2>7
<1> HIDE DEF P
<1>8. \A k \in 0 .. n : k \in P
  <2> HIDE DEF n
  <2>1. QED
    BY <1>1, <1>6, <1>7, IntervalInduction
<1>9. Charts(parsed[n], parsed[0], c, upTo(n))
  <2>1. n \in 0 .. n
    BY <1>1
  <2>2. n \in P
    BY <1>8, <2>1
  <2> HIDE DEF upTo, n
  <2>3. QED
    BY <2>2 DEF P
<1>10. Shown(ToSet(parsed[0].rows), c) = {}
  <2>1. ToSet(<< >>) = {}
    BY DEF ToSet
  <2>2. QED
    BY <1>5, <2>1 DEF Shown
<1>11. Shown(ToSet(parsed[n].rows), c) = upTo(n)
  <2> HIDE DEF upTo, n
  <2>1. QED
    BY <1>9, <1>10 DEF Charts
<1>12. QED
  BY <1>2, <1>3, <1>11

LEMMA DeduplicatedShows ==
  ASSUME NEW rows \in Seq(RowSet), NEW c
  PROVE  Shown(Deduplicated(rows), c) = Shown(ToSet(rows), c)
<1>1. "top_of_book" \notin ByIdentity \cup {"tick_size_changes"}
  BY DEF ByIdentity
<1>2. QED
  BY <1>1, DeduplicatedKeeps DEF Shown

LEMMA BatchCharts ==
  ASSUME NormalizerTypeOK, NEW opt, NEW entries \in Seq(Files),
         NEW c \in Conditions, registry[c] = "active"
  PROVE  Shown(BatchRows(opt, entries), c) = UNION {FileTops(f, c) : f \in ToSet(entries)}
<1> DEFINE first == IF tickDone THEN << >> ELSE TickBackfillRows(opt)
           last == Parsed(entries)
           rows == first \o last
<1>0. registry \in Registry /\ finalized \in SUBSET Files
  BY DEF NormalizerTypeOK
<1>1. first \in Seq(RowSet) /\ \A r \in ToSet(first) : r.ds = "tick_size_changes"
  <2>1. << >> \in Seq(RowSet) /\ ToSet(<< >>) = {}
    BY EmptySeq DEF ToSet
  <2>2. /\ TickBackfillRows(opt) \in Seq(RowSet)
        /\ \A r \in ToSet(TickBackfillRows(opt)) : r.ds = "tick_size_changes"
    BY <1>0, BackfillTells
  <2>3. QED
    BY <2>1, <2>2
<1>2. BatchRows(opt, entries) = Deduplicated(rows)
  <2>1. BatchRows(opt, entries) = Only({Deduplicated(x) : x \in {rows}})
    BY DEF BatchRows
  <2>2. {Deduplicated(x) : x \in {rows}} = {Deduplicated(rows)}
    OBVIOUS
  <2>3. QED
    BY <2>1, <2>2, OnlyIs
<1>3. last \in Seq(RowSet) /\ Shown(ToSet(last), c) = UNION {FileTops(f, c) : f \in ToSet(entries)}
  BY <1>0, ParsedTells, ParsedCharts
<1> HIDE DEF first, last
<1>4. rows \in Seq(RowSet) /\ ToSet(rows) = ToSet(first) \cup ToSet(last)
  BY <1>1, <1>3, ConcatIs
<1> HIDE DEF rows
<1>5. Shown(ToSet(rows), c) = Shown(ToSet(last), c)
  BY <1>1, <1>4 DEF Shown
<1>6. QED
  BY <1>2, <1>3, <1>4, <1>5, DeduplicatedShows


-----------------------------------------------------------------------------
(* The chart keeps the latest: what the rows of a batch make of a series *)

Covers(S, p) == \E q \in S : SameBucket(p, q) /\ NotAfter(p, q)

\* The series S has for each row of T a point that is not earlier.
Drawn(S, T) == \A x \in T : Covers(S, Point(x))

Settled(S) == \A p, q \in S : SameBucket(p, q) => NotAfter(q, p)

PointsOf(top, c) == {Point(r) : r \in {x \in top : ConditionOf(x.token) = c}}

NextOf(conds) == CHOOSE d \in conds : TRUE

Active == {c \in Conditions : registry[c] = "active"}

LEMMA BucketIs ==
  ASSUME NEW p \in Points, NEW q \in Points, NEW s \in Points
  PROVE  /\ SameBucket(p, p) /\ NotAfter(p, p)
         /\ SameBucket(p, q) => SameBucket(q, p)
         /\ SameBucket(p, q) /\ SameBucket(q, s) => SameBucket(p, s)
         /\ NotAfter(p, q) /\ NotAfter(q, s) => NotAfter(p, s)
         /\ SameBucket(p, q) /\ NotAfter(p, q) /\ NotAfter(q, p) => p = q
<1>1. SameBucket(p, p) /\ (SameBucket(p, q) => SameBucket(q, p))
      /\ (SameBucket(p, q) /\ SameBucket(q, s) => SameBucket(p, s))
  BY DEF SameBucket
<1>2. /\ p.at \in Nat /\ p.seq \in Nat /\ q.at \in Nat /\ q.seq \in Nat /\ s.at \in Nat /\ s.seq \in Nat
  BY DEF Points
<1>3. NotAfter(p, p) /\ (NotAfter(p, q) /\ NotAfter(q, s) => NotAfter(p, s))
  BY <1>2 DEF NotAfter
<1>4. NotAfter(p, q) /\ NotAfter(q, p) => p.at = q.at /\ p.seq = q.seq
  BY <1>2 DEF NotAfter
<1>5. p.token = q.token /\ p.at = q.at /\ p.seq = q.seq => p = q
  BY DEF Points
<1>6. QED
  BY <1>1, <1>3, <1>4, <1>5 DEF SameBucket

LEMMA FiniteImages ==
  ASSUME NEW B, B \in SUBSET Points, IsFiniteSet(B)
  PROVE  IsFiniteSet({p.at : p \in B}) /\ IsFiniteSet({p.seq : p \in B})
<1> DEFINE A == {p.at : p \in B}
           S == {p.seq : p \in B}
           f == [p \in B |-> p.at]
           g == [p \in B |-> p.seq]
<1>1. f \in Surjection(B, A) /\ g \in Surjection(B, S)
  BY DEF Surjection
<1> HIDE DEF f, g, A, S
<1>2. IsFiniteSet(A) /\ IsFiniteSet(S)
  BY <1>1, FS_Surjection
<1>3. QED
  BY <1>2 DEF A, S

\* A finite set has, for each of its points, a last one of the same bucket.
LEMMA LatestExists ==
  ASSUME NEW S \in SUBSET Points, IsFiniteSet(S), NEW p \in S
  PROVE  \E q \in S : /\ SameBucket(p, q) /\ NotAfter(p, q)
                      /\ \A s \in S : SameBucket(q, s) => NotAfter(s, q)
<1> DEFINE B == {q \in S : SameBucket(p, q)}
           A == {q.at : q \in B}
           last == Max(A)
           L == {q \in B : q.at = last}
           Q == {q.seq : q \in L}
           top == Max(Q)
<1>1. p \in B /\ B \in SUBSET Points /\ IsFiniteSet(B) /\ B \subseteq S
  <2>1. p \in B /\ B \subseteq S
    BY BucketIs
  <2> HIDE DEF B
  <2>2. QED
    BY <2>1, FS_Subset
<1>s. \A q \in S : q \in B <=> SameBucket(p, q)
  OBVIOUS
<1> HIDE DEF B
<1>2. A \in SUBSET Int /\ IsFiniteSet(A) /\ p.at \in A
  <2>1. \A q \in B : q.at \in Int
    BY <1>1 DEF Points
  <2>2. IsFiniteSet(A)
    BY <1>1, FiniteImages
  <2>3. QED
    BY <1>1, <2>1, <2>2
<1>a. \A q \in B : q.at \in A
  OBVIOUS
<1>3. last \in A /\ \A x \in A : x <= last
  <2> HIDE DEF A
  <2>1. QED
    BY <1>2, MaxIsGreatest
<1> HIDE DEF last
<1>4. L # {} /\ L \in SUBSET Points /\ IsFiniteSet(L) /\ L \subseteq B
  <2>1. L # {} /\ L \subseteq B
    BY <1>3
  <2> HIDE DEF L
  <2>2. QED
    BY <1>1, <2>1, FS_Subset
<1>l. \A q \in B : q \in L <=> q.at = last
  OBVIOUS
<1> HIDE DEF L, A
<1>5. Q \in SUBSET Int /\ IsFiniteSet(Q) /\ Q # {}
  <2>1. \A q \in L : q.seq \in Int
    BY <1>4 DEF Points
  <2>2. IsFiniteSet(Q)
    BY <1>4, FiniteImages
  <2>3. QED
    BY <1>4, <2>1, <2>2
<1>b. \A q \in L : q.seq \in Q
  OBVIOUS
<1>6. top \in Q /\ \A x \in Q : x <= top
  <2> HIDE DEF Q
  <2>1. QED
    BY <1>5, MaxIsGreatest
<1> HIDE DEF top
<1>7. PICK q \in L : q.seq = top
  BY <1>6
<1> HIDE DEF Q
<1>8. q \in S /\ q \in B /\ q \in Points /\ SameBucket(p, q) /\ q.at = last
  BY <1>1, <1>4, <1>7, <1>l, <1>s
<1>9. ASSUME NEW s \in B PROVE NotAfter(s, q)
  <2>1. s.at \in Nat /\ s.at <= last /\ q.at \in Nat
    BY <1>1, <1>3, <1>8, <1>9, <1>a DEF Points
  <2>2. s.at = last => s.seq <= q.seq
    BY <1>6, <1>7, <1>9, <1>b, <1>l
  <2>3. QED
    BY <1>8, <2>1, <2>2 DEF NotAfter
<1>10. ASSUME NEW s \in S, SameBucket(q, s) PROVE NotAfter(s, q)
  <2>1. SameBucket(p, s)
    BY <1>8, <1>10, BucketIs
  <2>2. QED
    BY <1>9, <1>s, <2>1
<1>11. QED
  BY <1>1, <1>8, <1>9, <1>10

\* Merging loses no point to an earlier one.
LEMMA MergeCovers ==
  ASSUME NEW S \in SUBSET Points, IsFiniteSet(S), NEW T \in SUBSET Points, IsFiniteSet(T)
  PROVE  /\ \A p \in Points : Covers(S, p) => Covers(MergePoints(S, T), p)
         /\ \A p \in T : Covers(MergePoints(S, T), p)
         /\ Settled(MergePoints(S, T)) /\ IsFiniteSet(MergePoints(S, T))
         /\ MergePoints(S, T) \subseteq S \cup T
<1> DEFINE U == S \cup T
           M == MergePoints(S, T)
<1>1. U \in SUBSET Points /\ IsFiniteSet(U)
  BY FS_Union
<1>2. M \subseteq U /\ \A q \in U : (\A s \in U : SameBucket(q, s) => NotAfter(s, q)) => q \in M
  BY DEF MergePoints
<1>3. Settled(M)
  BY DEF MergePoints, Settled
<1>u. S \subseteq U /\ T \subseteq U
  OBVIOUS
<1> HIDE DEF U, M
<1>4. IsFiniteSet(M)
  BY <1>1, <1>2, FS_Subset
<1>5. ASSUME NEW p \in U PROVE Covers(M, p)
  <2>1. PICK q \in U : /\ SameBucket(p, q) /\ NotAfter(p, q)
                       /\ \A s \in U : SameBucket(q, s) => NotAfter(s, q)
    BY <1>1, LatestExists
  <2>2. QED
    BY <1>2, <2>1 DEF Covers
<1>6. ASSUME NEW p \in Points, Covers(S, p) PROVE Covers(M, p)
  <2>1. PICK q \in S : SameBucket(p, q) /\ NotAfter(p, q)
    BY <1>6 DEF Covers
  <2>2. PICK s \in M : SameBucket(q, s) /\ NotAfter(q, s)
    BY <1>5, <1>u DEF Covers
  <2>3. q \in Points /\ s \in Points
    BY <1>1, <1>2, <2>1, <2>2
  <2>4. SameBucket(p, s) /\ NotAfter(p, s)
    BY <2>1, <2>2, <2>3, BucketIs
  <2>5. QED
    BY <2>2, <2>4 DEF Covers
<1>7. M \subseteq S \cup T
  BY <1>2 DEF U
<1>8. QED
  BY <1>3, <1>4, <1>5, <1>6, <1>7, <1>u DEF M

\* Points that are in the series already, or earlier than it, change nothing.
LEMMA MergeNothingNew ==
  ASSUME NEW S \in SUBSET Points, NEW T \in SUBSET Points, Settled(S),
         \A p \in T : Covers(S, p)
  PROVE  MergePoints(S, T) = S
<1>1. ASSUME NEW p \in S, NEW q \in S \cup T, SameBucket(p, q) PROVE NotAfter(q, p)
  <2>1. CASE q \in S
    BY <1>1, <2>1 DEF Settled
  <2>2. CASE q \in T
    <3>1. PICK s \in S : SameBucket(q, s) /\ NotAfter(q, s)
      BY <2>2 DEF Covers
    <3>2. SameBucket(p, s)
      BY <1>1, <3>1, BucketIs
    <3>3. NotAfter(s, p)
      BY <3>2 DEF Settled
    <3>4. QED
      BY <3>1, <3>3, BucketIs
  <2>3. QED
    BY <2>1, <2>2
<1>2. S \subseteq MergePoints(S, T)
  BY <1>1 DEF MergePoints
<1>3. ASSUME NEW p \in MergePoints(S, T) PROVE p \in S
  <2>1. /\ p \in S \cup T
        /\ \A q \in S \cup T : SameBucket(p, q) => NotAfter(q, p)
    BY <1>3 DEF MergePoints
  <2>2. CASE p \in T
    <3>1. PICK s \in S : SameBucket(p, s) /\ NotAfter(p, s)
      BY <2>2 DEF Covers
    <3>2. NotAfter(s, p)
      BY <2>1, <3>1
    <3>3. p = s
      BY <2>2, <3>1, <3>2, BucketIs
    <3>4. QED
      BY <3>3
  <2>3. QED
    BY <2>1, <2>2
<1>4. QED
  BY <1>2, <1>3

-----------------------------------------------------------------------------
(* The inductive invariant of the chart *)

\* The rows of market c that the files of F lead to.
Held(F, c) == UNION {FileTops(f, c) : f \in F}

\* A file not marked yet has rows of market c.
Owed(F, done, c) == \E f \in F \ done : FileTops(f, c) # {}

SeriesDrawn(S, D) ==
  /\ IsFiniteSet(S) /\ Settled(S)
  /\ \A q \in S : \E r \in D : r.ds = "top_of_book" /\ Point(r) = q

\* Series S and entry e of market c, when the rows D are published.
MarketDrawn(c, D, F, done, S, e) ==
  /\ Shown(D, c) \subseteq Held(F, c)
  /\ \A f \in done : Drawn(S, FileTops(f, c))
  /\ e = IndexEntry(S) \/ Owed(F, done, c)

RunDraws(r, D, charts) ==
  /\ IsFiniteSet(r.top) /\ IsFiniteSet(UNION r.groups)
  /\ r.top \subseteq D \cup UNION r.groups
  /\ r.pc \in {"series", "replace"} => r.mode # "run"
  /\ r.pc = "replace" =>
       /\ r.conds # {}
       /\ r.charts = MergePoints(charts[NextOf(r.conds)], PointsOf(r.top, NextOf(r.conds)))

\* The run still has what its files lead to, or it is in the chart.
RunDrawsMarket(r, c, F, done, S, e) ==
  /\ Shown(UNION r.groups, c) \subseteq Held(F, c)
  /\ r.mode = "rows" => \A f \in ToSet(r.files) : FileTops(f, c) \subseteq r.top
  /\ r.mode = "run" =>
       \A f \in ToSet(r.files) : /\ Drawn(S, FileTops(f, c))
                                 /\ FileTops(f, c) = {} \/ e = IndexEntry(S)
  /\ r.pc \in {"series", "replace"} =>
       /\ r.entry[c] = IndexEntry(S) \/ Owed(F, done, c)
       /\ \/ c \in r.conds
          \/ /\ Drawn(S, Shown(r.top, c))
             /\ Shown(r.top, c) = {} \/ r.entry[c] = IndexEntry(S)

ChartBody ==
  /\ \A p, q \in Procs : run[p].pc # "idle" /\ run[q].pc # "idle" => p = q
  /\ \A p \in Procs : run[p].pc = "idle" => run[p] = NoRun
  /\ IsFiniteSet(DOMAIN parquet)
  /\ \A c \in Conditions : SeriesDrawn(series[c], DOMAIN parquet)
  /\ \A c \in Active : MarketDrawn(c, DOMAIN parquet, finalized, processed, series[c], index[c])
  /\ \A p \in Procs :
       /\ RunDraws(run[p], DOMAIN parquet, series)
       /\ \A c \in Active : RunDrawsMarket(run[p], c, finalized, processed, series[c], index[c])

ChartInv == ~overlap => ChartBody

LEMMA FileTopsAre ==
  ASSUME NEW f \in Files, NEW c, NEW x \in FileTops(f, c)
  PROVE  /\ x \in TopRows /\ x.token \in TokensShown(c) /\ Point(x) \in Points
         /\ \E env \in ToSet(FileOf[f].envelopes) : x.key[1] = env.id
<1>1. PICK env \in ToSet(FileOf[f].envelopes) : x \in EnvelopeTops(env, c)
  BY DEF FileTops
<1>2. env \in RecordedEnvelope
  <2>1. PICK k \in DOMAIN FileOf[f].envelopes : env = FileOf[f].envelopes[k]
    BY <1>1 DEF ToSet
  <2>2. QED
    BY <2>1, FilesAre
<1>3. TokensShown(c) \subseteq Traded
  BY TokensShownAre
<1>4. PICK i \in Nat, j \in Nat, t \in TokensShown(c) : x = TopOf(env, i, j, t)
  <2>1. CASE x \in RestTops(env, c)
    BY <2>1 DEF RestTops
  <2>2. CASE \E i \in 1 .. Len(env.msgs) : x \in BookTops(env, i, c)
    <3>1. PICK i \in 1 .. Len(env.msgs) : x \in BookTops(env, i, c)
      BY <2>2
    <3>2. i \in Nat
      OBVIOUS
    <3>3. QED
      BY <3>1, <3>2 DEF BookTops
  <2>3. CASE \E i \in 1 .. Len(env.msgs) : x \in ChangeTops(env, i, c)
    <3>1. PICK i \in 1 .. Len(env.msgs) : x \in ChangeTops(env, i, c)
      BY <2>3
    <3>2. PICK j \in 1 .. Len(env.msgs[i].changes) :
            /\ x = TopOf(env, i, j, env.msgs[i].changes[j].token)
            /\ env.msgs[i].changes[j].token \in TokensShown(c)
      BY <3>1 DEF ChangeTops
    <3>3. i \in Nat /\ j \in Nat
      OBVIOUS
    <3>4. QED
      BY <3>2, <3>3
  <2>4. QED
    BY <1>1, <2>1, <2>2, <2>3 DEF EnvelopeTops, MessageTops
<1>5. t \in Traded
  BY <1>3, <1>4
<1>6. x \in RowSet /\ x.ds = "top_of_book" /\ x.token = t /\ x.key = <<env.id, i, j>>
  BY <1>2, <1>4, <1>5, TopOfIs
<1>7. x.key[1] = env.id
  BY <1>6
<1>8. QED
  BY <1>1, <1>4, <1>6, <1>7, PointIs DEF TopRows

\* A market's rows among those a run has read, and their points.
LEMMA ShownPoints ==
  ASSUME NEW top \in SUBSET TopRows, NEW c
  PROVE  /\ PointsOf(top, c) \in SUBSET Points
         /\ PointsOf(top, c) = {Point(x) : x \in Shown(top, c)}
         /\ IsFiniteSet(top) => IsFiniteSet(PointsOf(top, c))
<1> DEFINE X == {x \in top : ConditionOf(x.token) = c}
           f == [x \in X |-> Point(x)]
<1>1. X = Shown(top, c)
  BY DEF Shown, TokensShown, TopRows, RowSet
<1>2. PointsOf(top, c) = {Point(x) : x \in X}
  BY DEF PointsOf
<1>3. PointsOf(top, c) \in SUBSET Points
  BY <1>2, PointsAre
<1>4. f \in Surjection(X, PointsOf(top, c))
  BY <1>2 DEF Surjection
<1>x. X \subseteq top
  OBVIOUS
<1> HIDE DEF X, f
<1>5. IsFiniteSet(top) => IsFiniteSet(PointsOf(top, c))
  <2>1. SUFFICES ASSUME IsFiniteSet(top) PROVE IsFiniteSet(PointsOf(top, c))
    OBVIOUS
  <2>2. IsFiniteSet(X)
    BY <1>x, <2>1, FS_Subset
  <2>3. QED
    BY <1>4, <2>2, FS_Surjection
<1>6. QED
  BY <1>1, <1>2, <1>3, <1>5

LEMMA NothingShown ==
  ASSUME NEW c
  PROVE  Shown({}, c) = {} /\ Shown(UNION {}, c) = {} /\ Shown(UNION {{RunRow}}, c) = {}
BY DEF Shown, RunRow

\* A run that has nothing in hand but rows that are published.
LEMMA QuietDraws ==
  ASSUME NEW r, NEW D, NEW charts, r.groups = {}, r.files = << >>, IsFiniteSet(r.top),
         r.top \subseteq D, r.pc \notin {"series", "replace"}
  PROVE  /\ RunDraws(r, D, charts)
         /\ \A c, F, done, S, e : RunDrawsMarket(r, c, F, done, S, e)
<1>1. ToSet(r.files) = {}
  BY DEF ToSet
<1>2. IsFiniteSet(UNION r.groups)
  <2>1. UNION r.groups = {}
    OBVIOUS
  <2>2. QED
    BY <2>1, FS_EmptySet
<1>3. RunDraws(r, D, charts)
  BY <1>2 DEF RunDraws
<1>4. ASSUME NEW c, NEW F, NEW done, NEW S, NEW e PROVE RunDrawsMarket(r, c, F, done, S, e)
  BY <1>1, NothingShown DEF RunDrawsMarket
<1>5. QED
  BY <1>3, <1>4

LEMMA NoRunDraws ==
  ASSUME NEW D, NEW charts
  PROVE  /\ RunDraws(NoRun, D, charts)
         /\ \A c, F, done, S, e : RunDrawsMarket(NoRun, c, F, done, S, e)
<1> DEFINE r == NoRun
<1>1. r.groups = {} /\ r.files = << >> /\ r.top = {} /\ r.pc = "idle"
  BY DEF NoRun
<1> HIDE DEF r
<1>2. IsFiniteSet(r.top) /\ r.top \subseteq D
  BY <1>1, FS_EmptySet
<1>3. RunDraws(r, D, charts) /\ \A c, F, done, S, e : RunDrawsMarket(r, c, F, done, S, e)
  BY <1>1, <1>2, QuietDraws
<1>4. QED
  BY <1>3 DEF r

\* A run that goes on with what it had, or less, as more is published, finalized
\* and marked.
LEMMA StillDraws ==
  ASSUME NEW r, NEW s, NEW D, NEW E, NEW charts, RunDraws(r, D, charts), s.top = r.top, s.mode = r.mode,
         UNION s.groups \subseteq UNION r.groups,
         D \cup UNION r.groups \subseteq E \cup UNION s.groups,
         s.pc \in {"series", "replace"} => r.pc \in {"series", "replace"},
         s.pc = "replace" => r.pc = "replace" /\ s.conds = r.conds /\ s.charts = r.charts
  PROVE  RunDraws(s, E, charts)
<1>1. IsFiniteSet(UNION r.groups)
  BY DEF RunDraws
<1>2. IsFiniteSet(UNION s.groups)
  BY <1>1, FS_Subset
<1>3. QED
  BY <1>2 DEF RunDraws

LEMMA StillDrawsMarket ==
  ASSUME NEW r, NEW s, NEW c, NEW F, NEW done, NEW S, NEW e, RunDrawsMarket(r, c, F, done, S, e),
         s.top = r.top, s.mode = r.mode,
         UNION s.groups \subseteq UNION r.groups, ToSet(s.files) \subseteq ToSet(r.files),
         NEW G, F \subseteq G, NEW marked,
         s.pc \in {"series", "replace"} =>
            /\ r.pc \in {"series", "replace"} /\ s.conds = r.conds /\ s.entry = r.entry
            /\ marked = done
  PROVE  RunDrawsMarket(s, c, G, marked, S, e)
<1>1. Shown(UNION s.groups, c) \subseteq Shown(UNION r.groups, c) /\ Held(F, c) \subseteq Held(G, c)
  BY DEF Shown, Held
<1>2. Owed(F, done, c) => Owed(G, done, c)
  BY DEF Owed
<1>3. QED
  BY <1>1, <1>2 DEF RunDrawsMarket

LEMMA StepOfARunDraws ==
  ASSUME run \in [Procs -> RunStates], ChartBody, NEW p \in Procs, NEW r,
         run' = [run EXCEPT ![p] = r], r.pc = "idle" => r = NoRun,
         run[p].pc # "idle" \/ (\A q \in Procs \ {p} : run[q].pc = "idle"),
         registry' = registry, IsFiniteSet(DOMAIN parquet'),
         \A c \in Conditions : SeriesDrawn(series'[c], DOMAIN parquet'),
         \A c \in Active : MarketDrawn(c, DOMAIN parquet', finalized', processed', series'[c], index'[c]),
         RunDraws(r, DOMAIN parquet', series'),
         \A c \in Active : RunDrawsMarket(r, c, finalized', processed', series'[c], index'[c])
  PROVE  ChartBody'
<1>1. \A q \in Procs : q # p => run[q].pc = "idle" /\ run[q] = NoRun
  <2>1. \A q \in Procs : q # p => run[q].pc = "idle"
    BY DEF ChartBody
  <2>2. QED
    BY <2>1 DEF ChartBody
<1>2. run'[p] = r /\ \A q \in Procs : q # p => run'[q] = run[q]
  OBVIOUS
<1>3. Active' = Active
  BY DEF Active
<1>4. \A q \in Procs : RunDraws(run'[q], DOMAIN parquet', series')
  BY <1>1, <1>2, NoRunDraws
<1>5. \A q \in Procs : \A c \in Active :
        RunDrawsMarket(run'[q], c, finalized', processed', series'[c], index'[c])
  BY <1>1, <1>2, NoRunDraws
<1>6. /\ \A q, s \in Procs : run'[q].pc # "idle" /\ run'[s].pc # "idle" => q = s
      /\ \A q \in Procs : run'[q].pc = "idle" => run'[q] = NoRun
  BY <1>1, <1>2
<1>7. QED
  BY <1>3, <1>4, <1>5, <1>6 DEF ChartBody

LEMMA InitChart == NormalizerInit => ChartInv
<1> SUFFICES ASSUME NormalizerInit PROVE ChartBody
  BY DEF ChartInv
<1> DEFINE entries == ByClosing(Legacy)
           parsed == Parsed(entries)
           rows == {r \in Deduplicated(parsed) : r.ds # "tick_size_changes"}
           tops(c) == {Point(r) : r \in {x \in rows : /\ x.ds = "top_of_book"
                                                      /\ ConditionOf(x.token) = c}}
           chart(c) == MergePoints({}, tops(c))
           top == {r \in rows : r.ds = "top_of_book"}
<1>1. registry = [c \in Conditions |-> "active"] /\ registry \in Registry /\ Legacy \in SUBSET Files
  BY NormalizerAssumption DEF NormalizerInit, Registry
<1>2. entries \in Seq(Files) /\ ToSet(entries) = Legacy
  <2>1. entries \in Seq(Legacy) /\ ToSet(entries) = Legacy
    BY <1>1, ByClosingIs
  <2>2. QED
    BY <1>1, <2>1, SeqDef
<1>3. parsed \in Seq(RowSet)
  BY <1>1, <1>2, ParsedTells
<1>4. /\ DOMAIN parquet = rows /\ finalized = Legacy /\ processed = Legacy
      /\ series = [c \in Conditions |-> chart(c)]
      /\ index = [c \in Conditions |-> IndexEntry(chart(c))]
      /\ run = [p \in Procs |-> NoRun]
  BY DEF NormalizerInit
<1> HIDE DEF entries
<1>5. ASSUME NEW c \in Conditions
      PROVE  Shown(ToSet(parsed), c) = UNION {FileTops(f, c) : f \in Legacy}
  BY <1>1, <1>2, ParsedCharts
<1> HIDE DEF parsed
<1>6. ASSUME NEW c \in Conditions PROVE Shown(rows, c) = Held(Legacy, c)
  <2>1. Shown(rows, c) = Shown(Deduplicated(parsed), c)
    BY DEF Shown
  <2>2. QED
    BY <1>3, <1>5, <2>1, DeduplicatedShows DEF Held
<1>7. rows \in SUBSET RowSet /\ IsFiniteSet(rows)
  <2>1. Deduplicated(parsed) \subseteq ToSet(parsed) /\ ToSet(parsed) \in SUBSET RowSet
        /\ IsFiniteSet(ToSet(parsed))
    BY <1>3, DeduplicatedKeeps, RowsOfSeq
  <2>2. rows \in SUBSET RowSet /\ rows \subseteq ToSet(parsed)
    BY <2>1
  <2> HIDE DEF rows
  <2>3. QED
    BY <2>1, <2>2, FS_Subset
<1>8. \A c : tops(c) = PointsOf(top, c)
  BY DEF PointsOf
<1> HIDE DEF rows
<1>9. top \in SUBSET TopRows /\ top \subseteq rows /\ IsFiniteSet(top)
  <2>1. top \in SUBSET TopRows /\ top \subseteq rows
    BY <1>7 DEF TopRows
  <2> HIDE DEF top
  <2>2. QED
    BY <1>7, <2>1, FS_Subset
<1>10. \A c : Shown(top, c) = Shown(rows, c)
  BY DEF Shown
<1>t. \A r \in top : r.ds = "top_of_book"
  OBVIOUS
<1> HIDE DEF tops, top
<1>11. ASSUME NEW c \in Conditions
       PROVE  /\ SeriesDrawn(chart(c), rows)
              /\ \A x \in Held(Legacy, c) : Covers(chart(c), Point(x))
  <2> DEFINE T == PointsOf(top, c)
             S == {}
             M == MergePoints(S, T)
  <2>1. T \in SUBSET Points /\ IsFiniteSet(T) /\ T = {Point(x) : x \in Shown(top, c)}
    BY <1>9, ShownPoints
  <2>2. chart(c) = M
    BY <1>8
  <2>t. \A p \in T : \E x \in top : Point(x) = p
    BY DEF PointsOf
  <2> HIDE DEF T, chart
  <2>3. S \in SUBSET Points /\ IsFiniteSet(S) /\ S \cup T = T
    BY FS_EmptySet
  <2> HIDE DEF S
  <2>4. /\ \A p \in T : Covers(M, p)
        /\ Settled(M) /\ IsFiniteSet(M) /\ M \subseteq T
    BY <2>1, <2>3, MergeCovers
  <2> HIDE DEF M
  <2>5. \A q \in M : \E r \in rows : r.ds = "top_of_book" /\ Point(r) = q
    BY <1>9, <1>t, <2>4, <2>t
  <2>6. \A x \in Held(Legacy, c) : Point(x) \in T
    BY <1>6, <1>10, <2>1
  <2>7. QED
    BY <2>2, <2>4, <2>5, <2>6 DEF SeriesDrawn
<1> HIDE DEF chart
<1>12. ASSUME NEW c \in Conditions
       PROVE  MarketDrawn(c, DOMAIN parquet, finalized, processed, series[c], index[c])
  <2>1. series[c] = chart(c) /\ index[c] = IndexEntry(chart(c))
    BY <1>4
  <2>2. \A f \in Legacy : FileTops(f, c) \subseteq Held(Legacy, c)
    BY DEF Held
  <2>3. \A f \in Legacy : Drawn(chart(c), FileTops(f, c))
    BY <1>11, <2>2 DEF Drawn
  <2>4. QED
    BY <1>4, <1>6, <2>1, <2>3 DEF MarketDrawn
<1>13. \A p \in Procs : run[p] = NoRun
  BY <1>4
<1>14. /\ \A p, q \in Procs : run[p].pc # "idle" /\ run[q].pc # "idle" => p = q
       /\ \A p \in Procs : run[p].pc = "idle" => run[p] = NoRun
  <2>1. NoRun.pc = "idle"
    BY DEF NoRun
  <2>2. \A p \in Procs : run[p].pc = "idle"
    BY <1>13, <2>1
  <2>3. QED
    BY <1>13, <2>2
<1>15. \A p \in Procs :
         /\ RunDraws(run[p], DOMAIN parquet, series)
         /\ \A c \in Active : RunDrawsMarket(run[p], c, finalized, processed, series[c], index[c])
  BY <1>13, NoRunDraws
<1>16. \A c \in Conditions : SeriesDrawn(series[c], DOMAIN parquet)
  BY <1>4, <1>11
<1>17. Active \subseteq Conditions /\ IsFiniteSet(DOMAIN parquet)
  BY <1>4, <1>7 DEF Active
<1>18. QED
  BY <1>12, <1>14, <1>15, <1>16, <1>17 DEF ChartBody

LEMMA StepChart ==
  NormalizerTypeOK /\ TellsInv /\ ChartInv /\ [NormalizerNext]_normalizerVars => ChartInv'
<1> SUFFICES ASSUME NormalizerTypeOK, TellsInv, ChartInv, [NormalizerNext]_normalizerVars, ~overlap'
             PROVE  ChartBody'
  BY DEF ChartInv
<1> DEFINE D == DOMAIN parquet
<1>t. /\ run \in [Procs -> RunStates] /\ finalized \in SUBSET Files /\ processed \in SUBSET Files
      /\ registry \in Registry /\ series \in [Conditions -> SUBSET Points]
      /\ index \in [Conditions -> Entries] /\ tickDone \in BOOLEAN
  BY DEF NormalizerTypeOK
<1>a. \A c \in Active : c \in Conditions /\ registry[c] = "active"
  BY DEF Active
<1>g. \A p \in Procs : RunTells(run[p], D)
  BY DEF TellsInv
<1>n. NoRun.pc = "idle" /\ \A E, charts : RunDraws(NoRun, E, charts)
      /\ \A c, F, done, S, e : RunDrawsMarket(NoRun, c, F, done, S, e)
  <2>1. NoRun.pc = "idle"
    BY DEF NoRun
  <2>2. QED
    BY <2>1, NoRunDraws
<1>b. ASSUME ChartBody
      PROVE  /\ IsFiniteSet(D)
             /\ \A c \in Conditions : SeriesDrawn(series[c], D)
             /\ \A c \in Active : MarketDrawn(c, D, finalized, processed, series[c], index[c])
             /\ \A p \in Procs : RunDraws(run[p], D, series)
             /\ \A p \in Procs : \A c \in Active :
                  RunDrawsMarket(run[p], c, finalized, processed, series[c], index[c])
  BY <1>b DEF ChartBody
\* Where only the run changes, what it has in hand is to be looked at.
<1>r. ASSUME ChartBody, NEW p \in Procs, NEW r, run' = [run EXCEPT ![p] = r],
             r.pc = "idle" => r = NoRun,
             run[p].pc # "idle" \/ (\A q \in Procs \ {p} : run[q].pc = "idle"),
             RunDraws(r, D, series),
             \A c \in Active : RunDrawsMarket(r, c, finalized, processed, series[c], index[c]),
             UNCHANGED <<finalized, registry, parquet, processed, series, index>>
      PROVE  ChartBody'
  <2>1. /\ finalized' = finalized /\ registry' = registry /\ DOMAIN parquet' = D
        /\ processed' = processed /\ series' = series /\ index' = index
    BY <1>r
  <2> HIDE DEF D
  <2>2. /\ IsFiniteSet(DOMAIN parquet')
        /\ \A c \in Conditions : SeriesDrawn(series'[c], DOMAIN parquet')
        /\ \A c \in Active : MarketDrawn(c, DOMAIN parquet', finalized', processed', series'[c], index'[c])
        /\ RunDraws(r, DOMAIN parquet', series')
        /\ \A c \in Active : RunDrawsMarket(r, c, finalized', processed', series'[c], index'[c])
    BY <1>b, <1>r, <2>1
  <2>3. QED
    BY <1>t, <1>r, <2>1, <2>2, StepOfARunDraws
<1>i. ASSUME ChartBody, NEW p \in Procs, run' = [run EXCEPT ![p] = NoRun], run[p].pc # "idle",
             UNCHANGED <<finalized, registry, parquet, processed, series, index>>
      PROVE  ChartBody'
  BY <1>i, <1>n, <1>r
\* A run starts when no other is under way.
<1>s. ASSUME NEW p \in Procs, NEW r, run' = [run EXCEPT ![p] = r], r.pc # "idle",
             overlap' = (overlap \/ \E q \in Procs \ {p} : run[q].pc # "idle"),
             r.groups = {}, r.files = << >>, r.pc \notin {"series", "replace"},
             r.top \subseteq D,
             UNCHANGED <<finalized, registry, parquet, processed, series, index>>
      PROVE  ChartBody'
  <2>1. ~overlap /\ \A q \in Procs \ {p} : run[q].pc = "idle"
    BY <1>s
  <2>2. ChartBody
    BY <2>1 DEF ChartInv
  <2>3. IsFiniteSet(r.top)
    <3>1. IsFiniteSet(D)
      BY <1>b, <2>2
    <3> HIDE DEF D
    <3>2. QED
      BY <1>s, <3>1, FS_Subset
  <2>4. RunDraws(r, D, series) /\ \A c, F, done, S, e : RunDrawsMarket(r, c, F, done, S, e)
    <3> HIDE DEF D
    <3>1. QED
      BY <1>s, <2>3, QuietDraws
  <2>5. QED
    BY <1>r, <1>s, <2>1, <2>2, <2>4
\* A run goes on outside the chart.
<1>k. ASSUME ChartBody, NEW p \in Procs, NEW r, run' = [run EXCEPT ![p] = r], run[p].pc # "idle",
             r.pc \in {"publish", "export", "migrate"}, r.top = run[p].top, r.mode = run[p].mode,
             UNION r.groups \subseteq UNION run[p].groups,
             D \cup UNION run[p].groups \subseteq D \cup UNION r.groups,
             ToSet(r.files) \subseteq ToSet(run[p].files),
             UNCHANGED <<finalized, registry, parquet, processed, series, index>>
      PROVE  ChartBody'
  <2> HIDE DEF D
  <2>1. RunDraws(run[p], D, series)
        /\ \A c \in Active : RunDrawsMarket(run[p], c, finalized, processed, series[c], index[c])
    BY <1>b, <1>k
  <2>2. r.pc \notin {"series", "replace", "idle"}
    BY <1>k
  <2>3. RunDraws(r, D, series)
    BY <1>k, <2>1, <2>2, StillDraws
  <2>4. \A c \in Active : RunDrawsMarket(r, c, finalized, processed, series[c], index[c])
    BY <1>k, <2>1, <2>2, StillDrawsMarket
  <2>5. QED
    BY <1>k, <1>r, <2>2, <2>3, <2>4
<1>1. ASSUME NEW p \in Procs, NEW opt \in Options, StartRun(p, opt) PROVE ChartBody'
  <2> DEFINE r == [NoRun EXCEPT !.pc = "begin", !.opt = opt]
  <2>1. r.groups = {} /\ r.files = << >> /\ r.pc = "begin" /\ r.top = {}
    BY DEF NoRun
  <2>2. /\ run' = [run EXCEPT ![p] = r]
        /\ UNCHANGED <<finalized, registry, parquet, processed, series, index>>
        /\ overlap' = (overlap \/ \E q \in Procs \ {p} : run[q].pc # "idle")
    BY <1>1 DEF StartRun, durable
  <2> HIDE DEF r
  <2>3. QED
    BY <1>s, <2>1, <2>2
<1>2. ASSUME NEW p \in Procs, Read(p) PROVE ChartBody'
  <2> DEFINE entries == RawEntries(run[p].opt)
             rows == BatchRows(run[p].opt, entries)
             top == {x \in rows : x.ds = "top_of_book"}
             r == [NoRun EXCEPT !.pc = "publish", !.files = entries, !.batch = ToSet(entries),
                       !.groups = Groups(rows), !.backfill = ~tickDone, !.top = top]
  <2>1. /\ run' = [run EXCEPT ![p] = NoRun] \/ run' = [run EXCEPT ![p] = r]
        /\ UNCHANGED <<finalized, registry, parquet, processed, series, index, overlap>>
        /\ run[p].pc = "begin"
    BY <1>2 DEF Read, durable
  <2>2. r.groups = Groups(rows) /\ r.files = entries /\ r.top = top /\ r.pc = "publish" /\ r.mode = "rows"
    BY DEF NoRun
  <2> HIDE DEF r
  <2>3. ChartBody
    BY <2>1 DEF ChartInv
  <2>4. run[p].opt \in Options
    BY <1>t DEF RunStates
  <2>5. entries \in Seq(Files) /\ ToSet(entries) \subseteq finalized
    <3>1. entries \in Seq(finalized \ processed)
      BY <1>t, <2>4, RawEntriesAre
    <3> HIDE DEF entries
    <3>2. ToSet(entries) \in SUBSET (finalized \ processed)
      BY <3>1, RowsOfSeq
    <3>3. QED
      BY <1>t, <3>1, <3>2, SeqDef
  <2> HIDE DEF entries
  <2>6. IsFiniteSet(rows)
    BY <2>4, <2>5, BatchTells
  <2>7. \A c \in Active : Shown(rows, c) = UNION {FileTops(f, c) : f \in ToSet(entries)}
    BY <1>a, <2>5, BatchCharts
  <2> HIDE DEF rows
  <2>8. UNION Groups(rows) = rows
    BY GroupsAre
  <2>9. top \subseteq rows /\ \A c : Shown(rows, c) \subseteq top
    BY DEF Shown
  <2> HIDE DEF top
  <2>10. IsFiniteSet(top)
    BY <2>6, <2>9, FS_Subset
  <2>11. RunDraws(r, D, series)
    BY <2>2, <2>6, <2>8, <2>9, <2>10 DEF RunDraws
  <2>12. ASSUME NEW c \in Active
         PROVE  RunDrawsMarket(r, c, finalized, processed, series[c], index[c])
    <3>1. Shown(rows, c) \subseteq Held(finalized, c)
      BY <2>5, <2>7 DEF Held
    <3>2. \A f \in ToSet(entries) : FileTops(f, c) \subseteq top
      BY <2>7, <2>9
    <3>3. QED
      BY <2>2, <2>8, <3>1, <3>2 DEF RunDrawsMarket
  <2> HIDE DEF D
  <2>13. QED
    BY <1>i, <1>r, <2>1, <2>2, <2>3, <2>11, <2>12
<1>3. ASSUME NEW p \in Procs, Publish(p) PROVE ChartBody'
  <2> DEFINE r == [run[p] EXCEPT !.pc = "list"]
             g == NextGroup(run[p].groups)
             E == DOMAIN parquet'
  <2>1. /\ run' = [run EXCEPT ![p] = r]
        /\ UNCHANGED <<finalized, registry, processed, series, index, overlap>>
        /\ run[p].groups # {} /\ parquet' = OneMore(parquet, g) /\ run[p].pc = "publish"
    BY <1>3 DEF Publish
  <2>2. r.groups = run[p].groups /\ r.files = run[p].files /\ r.top = run[p].top
        /\ r.pc = "list" /\ r.mode = run[p].mode
    BY <1>t DEF RunStates
  <2>3. E = D \cup g
    BY <2>1, OneMoreIs
  <2>4. g \in run[p].groups
    BY <2>1, NextGroupIs
  <2>5. ChartBody
    BY <2>1 DEF ChartInv
  <2> HIDE DEF r, g, E
  <2>6. RunDraws(run[p], D, series)
        /\ \A c \in Active : RunDrawsMarket(run[p], c, finalized, processed, series[c], index[c])
    BY <1>b, <2>5
  <2>7. g \subseteq UNION run[p].groups /\ D \subseteq E
    BY <2>3, <2>4
  <2>8. IsFiniteSet(E)
    <3>1. IsFiniteSet(UNION run[p].groups) /\ IsFiniteSet(D)
      BY <1>b, <2>5, <2>6 DEF RunDraws
    <3> HIDE DEF D
    <3>2. IsFiniteSet(g)
      BY <2>7, <3>1, FS_Subset
    <3>3. QED
      BY <2>3, <3>1, <3>2, FS_Union
  <2> HIDE DEF D
  <2>9. RunDraws(r, E, series)
    BY <2>2, <2>6, <2>7, StillDraws
  <2>10. \A c \in Active : RunDrawsMarket(r, c, finalized, processed, series[c], index[c])
    BY <2>2, <2>6, StillDrawsMarket
  <2>11. \A c \in Conditions : SeriesDrawn(series[c], E)
    BY <1>b, <2>5, <2>7 DEF SeriesDrawn
  <2>12. ASSUME NEW c \in Active
         PROVE  MarketDrawn(c, E, finalized, processed, series[c], index[c])
    <3>1. MarketDrawn(c, D, finalized, processed, series[c], index[c])
      BY <1>b, <2>5
    <3>2. Shown(UNION run[p].groups, c) \subseteq Held(finalized, c)
      BY <2>6 DEF RunDrawsMarket
    <3>3. Shown(E, c) \subseteq Shown(D, c) \cup Shown(UNION run[p].groups, c)
      BY <2>3, <2>7 DEF Shown
    <3>4. QED
      BY <3>1, <3>2, <3>3 DEF MarketDrawn
  <2>13. /\ finalized' = finalized /\ registry' = registry /\ processed' = processed
         /\ series' = series /\ index' = index
    BY <2>1
  <2>14. /\ IsFiniteSet(DOMAIN parquet') /\ RunDraws(r, DOMAIN parquet', series')
         /\ \A c \in Conditions : SeriesDrawn(series'[c], DOMAIN parquet')
         /\ \A c \in Active :
              MarketDrawn(c, DOMAIN parquet', finalized', processed', series'[c], index'[c])
    BY <2>8, <2>9, <2>11, <2>12, <2>13 DEF E
  <2>15. QED
    BY <1>t, <2>1, <2>2, <2>5, <2>10, <2>13, <2>14, StepOfARunDraws
<1>4. ASSUME NEW p \in Procs, AppendManifest(p) PROVE ChartBody'
  <2> DEFINE g == NextGroup(run[p].groups)
             r == [run[p] EXCEPT !.pc = "publish", !.groups = run[p].groups \ {g}]
  <2>1. /\ run' = [run EXCEPT ![p] = r]
        /\ UNCHANGED <<finalized, registry, parquet, processed, series, index, overlap>>
        /\ run[p].pc = "list"
    BY <1>4 DEF AppendManifest
  <2>2. r.groups = run[p].groups \ {g} /\ r.files = run[p].files /\ r.top = run[p].top
        /\ r.pc = "publish" /\ r.mode = run[p].mode
    BY <1>t DEF RunStates
  <2>3. g \subseteq D
    BY <1>g, <2>1 DEF RunTells
  <2> HIDE DEF r, g
  <2>4. /\ UNION r.groups \subseteq UNION run[p].groups
        /\ D \cup UNION run[p].groups \subseteq D \cup UNION r.groups
    BY <2>2, <2>3
  <2>5. ChartBody
    BY <2>1 DEF ChartInv
  <2>6. QED
    BY <1>k, <2>1, <2>2, <2>4, <2>5
<1>5. ASSUME NEW p \in Procs, ReadIndex(p) PROVE ChartBody'
  <2> DEFINE conds == {ConditionOf(x.token) : x \in run[p].top}
             r == [run[p] EXCEPT !.pc = "series", !.entry = index, !.conds = conds]
  <2>1. /\ run' = [run EXCEPT ![p] = r]
        /\ UNCHANGED <<finalized, registry, parquet, processed, series, index, overlap>>
        /\ run[p].pc = "publish" /\ run[p].mode \in {"rows", "reindex"}
    BY <1>5 DEF ReadIndex, durable
  <2>2. /\ r.groups = run[p].groups /\ r.files = run[p].files /\ r.top = run[p].top
        /\ r.pc = "series" /\ r.mode = run[p].mode /\ r.entry = index /\ r.conds = conds
    BY <1>t DEF RunStates
  <2> HIDE DEF r
  <2>3. ChartBody
    BY <2>1 DEF ChartInv
  <2>4. RunDraws(run[p], D, series)
        /\ \A c \in Active : RunDrawsMarket(run[p], c, finalized, processed, series[c], index[c])
    BY <1>b, <2>3
  <2>5. RunDraws(r, D, series)
    BY <2>1, <2>2, <2>4 DEF RunDraws
  <2>6. ASSUME NEW c \in Active PROVE RunDrawsMarket(r, c, finalized, processed, series[c], index[c])
    <3>1. index[c] = IndexEntry(series[c]) \/ Owed(finalized, processed, c)
      BY <1>b, <2>3 DEF MarketDrawn
    <3>2. c \in conds \/ Shown(r.top, c) = {}
      BY <2>2 DEF Shown, TokensShown
    <3>3. Shown(r.top, c) = {} => Drawn(series[c], Shown(r.top, c))
      BY DEF Drawn
    <3> HIDE DEF conds
    <3>4. QED
      BY <2>1, <2>2, <2>4, <3>1, <3>2, <3>3 DEF RunDrawsMarket
  <2> HIDE DEF D, conds
  <2>7. QED
    BY <1>r, <2>1, <2>2, <2>3, <2>5, <2>6
<1>6. ASSUME NEW p \in Procs, ReadSeries(p) PROVE ChartBody'
  <2> DEFINE c0 == NextOf(run[p].conds)
             charts == MergePoints(series[c0], PointsOf(run[p].top, c0))
             r == [run[p] EXCEPT !.pc = "replace", !.charts = charts]
  <2>1. /\ run' = [run EXCEPT ![p] = r]
        /\ UNCHANGED <<finalized, registry, parquet, processed, series, index, overlap>>
        /\ run[p].pc = "series" /\ run[p].conds # {}
    BY <1>6 DEF ReadSeries, durable, NextOf, PointsOf
  <2> HIDE DEF charts
  <2>2. /\ r.groups = run[p].groups /\ r.files = run[p].files /\ r.top = run[p].top
        /\ r.pc = "replace" /\ r.mode = run[p].mode /\ r.entry = run[p].entry
        /\ r.conds = run[p].conds /\ r.charts = charts
    BY <1>t DEF RunStates
  <2> HIDE DEF r
  <2>3. ChartBody
    BY <2>1 DEF ChartInv
  <2>4. RunDraws(run[p], D, series)
        /\ \A c \in Active : RunDrawsMarket(run[p], c, finalized, processed, series[c], index[c])
    BY <1>b, <2>3
  <2>5. RunDraws(r, D, series)
    BY <2>1, <2>2, <2>4 DEF RunDraws, charts
  <2> HIDE DEF D
  <2>6. \A c \in Active : RunDrawsMarket(r, c, finalized, processed, series[c], index[c])
    BY <2>1, <2>2, <2>4, StillDrawsMarket
  <2>7. QED
    BY <1>r, <2>1, <2>2, <2>3, <2>5, <2>6
<1>7. ASSUME NEW p \in Procs, WriteSeries(p) PROVE ChartBody'
  <2> DEFINE d == NextOf(run[p].conds)
             M == run[p].charts
             S == series[d]
             T == PointsOf(run[p].top, d)
             entry == [run[p].entry EXCEPT ![d] = IndexEntry(M)]
             r == [run[p] EXCEPT !.pc = "series", !.conds = run[p].conds \ {d}, !.charts = {},
                                 !.entry = entry]
  <2>1. /\ run' = [run EXCEPT ![p] = r] /\ series' = [series EXCEPT ![d] = M]
        /\ UNCHANGED <<finalized, registry, parquet, processed, index, overlap>>
        /\ run[p].pc = "replace"
    BY <1>7 DEF WriteSeries, NextOf
  <2>2. /\ run[p] \in RunStates /\ run[p].conds \in SUBSET Conditions
        /\ run[p].entry \in [Conditions -> Entries] /\ run[p].top \in SUBSET TopRows
    BY <1>t DEF RunStates
  <2>3. /\ r.groups = run[p].groups /\ r.files = run[p].files /\ r.top = run[p].top
        /\ r.pc = "series" /\ r.mode = run[p].mode /\ r.entry = entry
        /\ r.conds = run[p].conds \ {d}
    <3> HIDE DEF d, entry
    <3>1. QED
      BY <2>2 DEF RunStates
  <2> HIDE DEF r
  <2>4. ChartBody
    BY <2>1 DEF ChartInv
  <2>5. RunDraws(run[p], D, series)
        /\ \A c \in Active : RunDrawsMarket(run[p], c, finalized, processed, series[c], index[c])
    BY <1>b, <2>4
  <2>6. /\ run[p].conds # {} /\ M = MergePoints(S, T) /\ run[p].mode # "run"
        /\ IsFiniteSet(run[p].top) /\ run[p].top \subseteq D \cup UNION run[p].groups
    BY <2>1, <2>5 DEF RunDraws
  <2>7. d \in Conditions /\ d \in run[p].conds
    BY <2>2, <2>6 DEF NextOf
  <2>8. run[p].groups = {} /\ run[p].top \subseteq D
    <3>1. run[p].groups = {}
      BY <1>g, <2>1 DEF RunTells
    <3>2. QED
      BY <2>6, <3>1
  <2>e. entry[d] = IndexEntry(M) /\ \A c \in Conditions : c # d => entry[c] = run[p].entry[c]
    BY <2>2, <2>7
  <2>s. series'[d] = M /\ \A c \in Conditions : c # d => series'[c] = series[c]
    BY <1>t, <2>1, <2>7
  <2>t. T \in SUBSET Points /\ IsFiniteSet(T) /\ T = {Point(x) : x \in Shown(run[p].top, d)}
    BY <2>2, <2>6, ShownPoints
  <2>u. S \in SUBSET Points /\ SeriesDrawn(S, D)
    BY <1>b, <1>t, <2>4, <2>7
  <2> HIDE DEF d, M, S, T, entry
  <2>9. /\ \A q \in Points : Covers(S, q) => Covers(M, q)
        /\ \A q \in T : Covers(M, q)
        /\ Settled(M) /\ IsFiniteSet(M) /\ M \subseteq S \cup T
    <3>1. S \in SUBSET Points /\ IsFiniteSet(S) /\ T \in SUBSET Points /\ IsFiniteSet(T)
      BY <2>t, <2>u DEF SeriesDrawn
    <3>2. /\ \A q \in Points : Covers(S, q) => Covers(MergePoints(S, T), q)
          /\ \A q \in T : Covers(MergePoints(S, T), q)
          /\ Settled(MergePoints(S, T)) /\ IsFiniteSet(MergePoints(S, T))
          /\ MergePoints(S, T) \subseteq S \cup T
      BY <3>1, MergeCovers
    <3>3. QED
      BY <2>6, <3>2
  <2>10. SeriesDrawn(M, D)
    <3>1. ASSUME NEW q \in T PROVE \E x \in D : x.ds = "top_of_book" /\ Point(x) = q
      <4>1. PICK x \in Shown(run[p].top, d) : q = Point(x)
        BY <2>t
      <4>2. x \in D /\ x.ds = "top_of_book"
        BY <2>8 DEF Shown
      <4>3. QED
        BY <4>1, <4>2
    <3>2. QED
      BY <2>9, <2>u, <3>1 DEF SeriesDrawn
  \* Without a file still to be marked all its points are in the series already.
  <2>11. ASSUME d \in Active PROVE M = S \/ Owed(finalized, processed, d)
    <3>1. SUFFICES ASSUME ~Owed(finalized, processed, d) PROVE M = S
      OBVIOUS
    <3>2. MarketDrawn(d, D, finalized, processed, S, index[d])
      BY <1>b, <2>4, <2>11 DEF S
    <3>3. ASSUME NEW q \in T PROVE Covers(S, q)
      <4>1. PICK x \in Shown(run[p].top, d) : q = Point(x)
        BY <2>t
      <4>2. x \in Shown(D, d)
        BY <2>8 DEF Shown
      <4>3. PICK f \in finalized : x \in FileTops(f, d)
        BY <3>2, <4>2 DEF MarketDrawn, Held
      <4>4. f \in processed
        BY <3>1, <4>3 DEF Owed
      <4>5. Covers(S, Point(x))
        BY <3>2, <4>3, <4>4 DEF MarketDrawn, Drawn
      <4>6. QED
        BY <4>1, <4>5
    <3>4. QED
      BY <2>6, <2>t, <2>u, <3>3, MergeNothingNew DEF SeriesDrawn
  <2>12. ASSUME d \in Active PROVE MarketDrawn(d, D, finalized, processed, M, index[d])
    <3>1. MarketDrawn(d, D, finalized, processed, S, index[d])
      BY <1>b, <2>4, <2>12 DEF S
    <3>2. ASSUME NEW f \in processed, NEW x \in FileTops(f, d) PROVE Covers(M, Point(x))
      <4>1. Point(x) \in Points
        BY <1>t, FileTopsAre
      <4>2. Covers(S, Point(x))
        BY <3>1 DEF MarketDrawn, Drawn
      <4>3. QED
        BY <2>9, <4>1, <4>2
    <3>3. index[d] = IndexEntry(M) \/ Owed(finalized, processed, d)
      BY <2>11, <2>12, <3>1 DEF MarketDrawn
    <3>4. QED
      BY <3>1, <3>2, <3>3 DEF MarketDrawn, Drawn
  <2>13. ASSUME d \in Active PROVE RunDrawsMarket(r, d, finalized, processed, M, index[d])
    <3>1. Shown(UNION r.groups, d) = {}
      BY <2>3, <2>8, NothingShown
    <3>2. r.mode = "rows" => \A f \in ToSet(r.files) : FileTops(f, d) \subseteq r.top
      BY <2>3, <2>5, <2>13 DEF RunDrawsMarket
    <3>3. Drawn(M, Shown(r.top, d))
      BY <2>3, <2>9, <2>t DEF Drawn
    <3>4. r.entry[d] = IndexEntry(M)
      BY <2>3, <2>e
    <3>5. r.mode # "run"
      BY <2>3, <2>6
    <3>6. QED
      BY <3>1, <3>2, <3>3, <3>4, <3>5 DEF RunDrawsMarket
  <2>14. ASSUME NEW c \in Active
         PROVE  /\ MarketDrawn(c, D, finalized, processed, series'[c], index[c])
                /\ RunDrawsMarket(r, c, finalized, processed, series'[c], index[c])
    <3>1. CASE c = d
      BY <2>12, <2>13, <2>s, <3>1
    <3>2. CASE c # d
      <4>1. series'[c] = series[c] /\ r.entry[c] = run[p].entry[c]
            /\ (c \in r.conds <=> c \in run[p].conds)
        BY <1>a, <2>3, <2>e, <2>s, <3>2
      <4>2. MarketDrawn(c, D, finalized, processed, series[c], index[c])
        BY <1>b, <2>4
      <4>3. RunDrawsMarket(run[p], c, finalized, processed, series[c], index[c])
        BY <2>5
      <4>4. RunDrawsMarket(r, c, finalized, processed, series[c], index[c])
        BY <2>1, <2>3, <4>1, <4>3 DEF RunDrawsMarket
      <4>5. QED
        BY <4>1, <4>2, <4>4
    <3>3. QED
      BY <3>1, <3>2
  <2>15. RunDraws(r, D, series')
    BY <2>3, <2>5, <2>6 DEF RunDraws
  <2>16. \A c \in Conditions : SeriesDrawn(series'[c], D)
    BY <1>b, <2>4, <2>10, <2>s
  <2>17. /\ finalized' = finalized /\ registry' = registry /\ processed' = processed
         /\ index' = index /\ DOMAIN parquet' = D
    BY <2>1
  <2>f. IsFiniteSet(D)
    BY <1>b, <2>4
  <2> HIDE DEF D
  <2>18. /\ IsFiniteSet(DOMAIN parquet') /\ RunDraws(r, DOMAIN parquet', series')
         /\ \A c \in Conditions : SeriesDrawn(series'[c], DOMAIN parquet')
         /\ \A c \in Active :
              MarketDrawn(c, DOMAIN parquet', finalized', processed', series'[c], index'[c])
         /\ \A c \in Active :
              RunDrawsMarket(r, c, finalized', processed', series'[c], index'[c])
    BY <2>14, <2>15, <2>16, <2>17, <2>f
  <2>19. QED
    BY <1>t, <2>1, <2>3, <2>4, <2>17, <2>18, StepOfARunDraws
<1>8. ASSUME NEW p \in Procs, WriteIndex(p) PROVE ChartBody'
  <2> DEFINE entry == run[p].entry
             r == [run[p] EXCEPT !.pc = "publish", !.mode = "run", !.groups = {{RunRow}},
                              !.entry = EmptyIndex, !.top = {}]
  <2>1. /\ \/ run' = [run EXCEPT ![p] = NoRun] /\ run[p].mode = "reindex"
           \/ run' = [run EXCEPT ![p] = r] /\ run[p].mode # "reindex"
        /\ index' = entry
        /\ UNCHANGED <<finalized, registry, parquet, processed, series, overlap>>
        /\ run[p].pc = "series" /\ run[p].conds = {}
    BY <1>8 DEF WriteIndex
  <2>2. /\ r.groups = {{RunRow}} /\ r.files = run[p].files /\ r.top = {}
        /\ r.pc = "publish" /\ r.mode = "run" /\ run[p].mode \in Modes
    BY <1>t DEF RunStates
  <2> HIDE DEF r, entry
  <2>3. ChartBody
    BY <2>1 DEF ChartInv
  <2>4. RunDraws(run[p], D, series)
        /\ \A c \in Active : RunDrawsMarket(run[p], c, finalized, processed, series[c], index[c])
    BY <1>b, <2>3
  <2>5. run[p].mode # "run"
    BY <2>1, <2>4 DEF RunDraws
  <2>6. ASSUME NEW c \in Active
        PROVE  /\ entry[c] = IndexEntry(series[c]) \/ Owed(finalized, processed, c)
               /\ Drawn(series[c], Shown(run[p].top, c))
               /\ Shown(run[p].top, c) = {} \/ entry[c] = IndexEntry(series[c])
               /\ run[p].mode = "rows" =>
                    \A f \in ToSet(run[p].files) : FileTops(f, c) \subseteq run[p].top
    BY <2>1, <2>4 DEF RunDrawsMarket, entry
  <2>7. ASSUME NEW c \in Active
        PROVE  MarketDrawn(c, D, finalized, processed, series[c], entry[c])
    BY <1>b, <2>3, <2>6 DEF MarketDrawn
  <2>8. RunDraws(r, D, series)
    <3>1. IsFiniteSet(UNION r.groups) /\ IsFiniteSet(r.top)
      <4>1. UNION r.groups = {RunRow}
        BY <2>2
      <4>2. IsFiniteSet(UNION r.groups)
        BY <4>1, FS_Singleton
      <4>3. IsFiniteSet(r.top)
        BY <2>2, FS_EmptySet
      <4>4. QED
        BY <4>2, <4>3
    <3>2. QED
      BY <2>2, <3>1 DEF RunDraws
  <2>9. ASSUME NEW c \in Active, run[p].mode # "reindex"
        PROVE  RunDrawsMarket(r, c, finalized, processed, series[c], entry[c])
    <3>1. Shown(UNION r.groups, c) = {}
      BY <2>2, NothingShown
    <3>2. run[p].mode = "rows"
      BY <2>2, <2>5, <2>9 DEF Modes
    <3>3. ASSUME NEW f \in ToSet(run[p].files)
          PROVE  FileTops(f, c) \subseteq Shown(run[p].top, c)
      <4>1. run[p].files \in Seq(Files)
        BY <1>t DEF RunStates
      <4>2. f \in Files
        BY <4>1, RowsOfSeq
      <4>3. \A x \in FileTops(f, c) : x.ds = "top_of_book" /\ x.token \in TokensShown(c)
        BY <4>2, FileTopsAre DEF TopRows
      <4>4. QED
        BY <2>6, <3>2, <4>3 DEF Shown
    <3>4. \A f \in ToSet(r.files) : /\ Drawn(series[c], FileTops(f, c))
                                    /\ FileTops(f, c) = {} \/ entry[c] = IndexEntry(series[c])
      BY <2>2, <2>6, <3>3 DEF Drawn
    <3>5. QED
      BY <2>2, <3>1, <3>4 DEF RunDrawsMarket
  <2>10. /\ finalized' = finalized /\ registry' = registry /\ processed' = processed
         /\ series' = series /\ DOMAIN parquet' = D
    BY <2>1
  <2>11. IsFiniteSet(D) /\ \A c \in Conditions : SeriesDrawn(series[c], D)
    BY <1>b, <2>3
  <2> HIDE DEF D
  <2>12. /\ IsFiniteSet(DOMAIN parquet')
         /\ \A c \in Conditions : SeriesDrawn(series'[c], DOMAIN parquet')
         /\ \A c \in Active :
              MarketDrawn(c, DOMAIN parquet', finalized', processed', series'[c], index'[c])
    BY <2>1, <2>7, <2>10, <2>11
  <2>13. CASE run' = [run EXCEPT ![p] = r] /\ run[p].mode # "reindex"
    <3>1. /\ RunDraws(r, DOMAIN parquet', series')
          /\ \A c \in Active :
               RunDrawsMarket(r, c, finalized', processed', series'[c], index'[c])
      BY <2>1, <2>8, <2>9, <2>10, <2>13
    <3>2. QED
      BY <1>t, <2>1, <2>2, <2>3, <2>10, <2>12, <2>13, <3>1, StepOfARunDraws
  <2>14. CASE run' = [run EXCEPT ![p] = NoRun]
    <3>1. /\ RunDraws(NoRun, DOMAIN parquet', series')
          /\ \A c \in Active :
               RunDrawsMarket(NoRun, c, finalized', processed', series'[c], index'[c])
      BY <1>n
    <3>2. QED
      BY <1>t, <2>1, <2>3, <2>10, <2>12, <2>14, <3>1, StepOfARunDraws
  <2>15. QED
    BY <2>1, <2>13, <2>14
<1>9. ASSUME NEW p \in Procs, SkipCache(p) PROVE ChartBody'
  <2> DEFINE r == [run[p] EXCEPT !.mode = "run", !.groups = {{RunRow}}]
  <2>1. /\ run' = [run EXCEPT ![p] = r]
        /\ UNCHANGED <<finalized, registry, parquet, processed, series, index, overlap>>
        /\ run[p].pc = "publish" /\ run[p].mode = "rows" /\ run[p].top = {}
    BY <1>9 DEF SkipCache, durable
  <2>2. /\ r.groups = {{RunRow}} /\ r.files = run[p].files /\ r.top = {}
        /\ r.pc = "publish" /\ r.mode = "run"
    BY <1>t, <2>1 DEF RunStates
  <2> HIDE DEF r
  <2>3. ChartBody
    BY <2>1 DEF ChartInv
  <2>4. \A c \in Active : RunDrawsMarket(run[p], c, finalized, processed, series[c], index[c])
    BY <1>b, <2>3
  <2>5. RunDraws(r, D, series)
    <3>1. IsFiniteSet(UNION r.groups) /\ IsFiniteSet(r.top)
      <4>1. UNION r.groups = {RunRow}
        BY <2>2
      <4>2. IsFiniteSet(UNION r.groups)
        BY <4>1, FS_Singleton
      <4>3. IsFiniteSet(r.top)
        BY <2>2, FS_EmptySet
      <4>4. QED
        BY <4>2, <4>3
    <3>2. QED
      BY <2>2, <3>1 DEF RunDraws
  <2>6. ASSUME NEW c \in Active PROVE RunDrawsMarket(r, c, finalized, processed, series[c], index[c])
    <3>1. Shown(UNION r.groups, c) = {}
      BY <2>2, NothingShown
    <3>2. \A f \in ToSet(r.files) : FileTops(f, c) = {}
      BY <2>1, <2>2, <2>4 DEF RunDrawsMarket
    <3>3. \A f \in ToSet(r.files) : Drawn(series[c], FileTops(f, c))
      BY <3>2 DEF Drawn
    <3>4. QED
      BY <2>2, <3>1, <3>2, <3>3 DEF RunDrawsMarket
  <2> HIDE DEF D
  <2>7. QED
    BY <1>r, <2>1, <2>2, <2>3, <2>5, <2>6
<1>10. ASSUME NEW p \in Procs, MarkFile(p) PROVE ChartBody'
  <2> DEFINE entries == run[p].files
             f == Head(entries)
             r == [run[p] EXCEPT !.files = Tail(entries)]
             done == processed \cup {f}
  <2>1. /\ run' = [run EXCEPT ![p] = r] /\ processed' = done
        /\ UNCHANGED <<finalized, registry, parquet, series, index, overlap>>
        /\ run[p].pc = "publish" /\ run[p].mode = "run" /\ entries # << >>
    BY <1>10 DEF MarkFile, Written
  <2>2. /\ r.groups = run[p].groups /\ r.files = Tail(entries) /\ r.top = run[p].top
        /\ r.pc = "publish" /\ r.mode = run[p].mode /\ entries \in Seq(Files)
    BY <1>t, <2>1 DEF RunStates
  <2> HIDE DEF r
  <2>3. ChartBody
    BY <2>1 DEF ChartInv
  <2>4. RunDraws(run[p], D, series)
        /\ \A c \in Active : RunDrawsMarket(run[p], c, finalized, processed, series[c], index[c])
    BY <1>b, <2>3
  <2>e. entries = run[p].files
    OBVIOUS
  <2> HIDE DEF entries
  <2>5. ToSet(entries) = {f} \cup ToSet(Tail(entries))
    BY <2>1, <2>2, HeadAndTail
  <2>6. f \in ToSet(run[p].files) /\ ToSet(r.files) \subseteq ToSet(run[p].files)
    BY <2>2, <2>5, <2>e
  <2> HIDE DEF f
  <2>7. ASSUME NEW c \in Active PROVE MarketDrawn(c, D, finalized, done, series[c], index[c])
    <3>1. MarketDrawn(c, D, finalized, processed, series[c], index[c])
      BY <1>b, <2>3
    <3>2. Drawn(series[c], FileTops(f, c)) /\ (FileTops(f, c) = {} \/ index[c] = IndexEntry(series[c]))
      BY <2>1, <2>4, <2>6 DEF RunDrawsMarket
    <3>3. index[c] = IndexEntry(series[c]) \/ Owed(finalized, done, c)
      BY <3>1, <3>2 DEF MarketDrawn, Owed
    <3>4. QED
      BY <3>1, <3>2, <3>3 DEF MarketDrawn
  <2>d. processed' = done
    BY <2>1
  <2> HIDE DEF done
  <2>8. \A c \in Active : RunDrawsMarket(r, c, finalized, done, series[c], index[c])
    BY <2>2, <2>4, <2>6, StillDrawsMarket
  <2>9. RunDraws(r, D, series)
    BY <2>2, <2>4, StillDraws
  <2>10. /\ finalized' = finalized /\ registry' = registry
         /\ series' = series /\ index' = index /\ DOMAIN parquet' = D
    BY <2>1
  <2>11. IsFiniteSet(D) /\ \A c \in Conditions : SeriesDrawn(series[c], D)
    BY <1>b, <2>3
  <2> HIDE DEF D
  <2>12. /\ IsFiniteSet(DOMAIN parquet') /\ RunDraws(r, DOMAIN parquet', series')
         /\ \A c \in Conditions : SeriesDrawn(series'[c], DOMAIN parquet')
         /\ \A c \in Active :
              MarketDrawn(c, DOMAIN parquet', finalized', processed', series'[c], index'[c])
         /\ \A c \in Active :
              RunDrawsMarket(r, c, finalized', processed', series'[c], index'[c])
    BY <2>7, <2>8, <2>9, <2>10, <2>11, <2>d
  <2>13. QED
    BY <1>t, <2>1, <2>2, <2>3, <2>10, <2>12, StepOfARunDraws
<1>11. ASSUME NEW p \in Procs, CheckpointBatch(p) PROVE ChartBody'
  <2> DEFINE r == [run[p] EXCEPT !.pc = "export"]
  <2>1. /\ run' = [run EXCEPT ![p] = r]
        /\ UNCHANGED <<finalized, registry, parquet, processed, series, index, overlap>>
        /\ run[p].pc = "publish"
    BY <1>11 DEF CheckpointBatch, Written
  <2>2. /\ r.groups = run[p].groups /\ r.files = run[p].files /\ r.top = run[p].top
        /\ r.pc = "export" /\ r.mode = run[p].mode
    BY <1>t DEF RunStates
  <2> HIDE DEF r, D
  <2>3. ChartBody
    BY <2>1 DEF ChartInv
  <2>4. QED
    BY <1>k, <2>1, <2>2, <2>3
<1>12. ASSUME NEW p \in Procs, ExportManifest(p) PROVE ChartBody'
  <2> DEFINE r == [run[p] EXCEPT !.pc = "migrate"]
  <2>1. /\ run' = [run EXCEPT ![p] = NoRun] \/ run' = [run EXCEPT ![p] = r]
        /\ UNCHANGED <<finalized, registry, parquet, processed, series, index, overlap>>
        /\ run[p].pc = "export"
    BY <1>12 DEF ExportManifest
  <2>2. /\ r.groups = run[p].groups /\ r.files = run[p].files /\ r.top = run[p].top
        /\ r.pc = "migrate" /\ r.mode = run[p].mode
    BY <1>t DEF RunStates
  <2> HIDE DEF r, D
  <2>3. ChartBody
    BY <2>1 DEF ChartInv
  <2>4. CASE run' = [run EXCEPT ![p] = r]
    BY <1>k, <2>1, <2>2, <2>3, <2>4
  <2>5. CASE run' = [run EXCEPT ![p] = NoRun]
    BY <1>i, <2>1, <2>3, <2>5
  <2>6. QED
    BY <2>1, <2>4, <2>5
<1>13. ASSUME NEW p \in Procs, CheckpointTicks(p) PROVE ChartBody'
  <2>1. /\ run' = [run EXCEPT ![p] = NoRun] /\ run[p].pc = "migrate"
        /\ UNCHANGED <<finalized, registry, parquet, processed, series, index, overlap>>
    BY <1>13 DEF CheckpointTicks
  <2>2. ChartBody
    BY <2>1 DEF ChartInv
  <2>3. QED
    BY <1>i, <2>1, <2>2
<1>14. ASSUME NEW p \in Procs, Reindex(p) PROVE ChartBody'
  <2> DEFINE top == {x \in DOMAIN parquet : x.ds = "top_of_book"}
             r == [NoRun EXCEPT !.pc = "publish", !.mode = "reindex", !.top = top]
  <2>1. r.groups = {} /\ r.files = << >> /\ r.pc = "publish" /\ r.top = top
    BY DEF NoRun
  <2>2. /\ run' = [run EXCEPT ![p] = r]
        /\ UNCHANGED <<finalized, registry, parquet, processed, series, index>>
        /\ overlap' = (overlap \/ \E q \in Procs \ {p} : run[q].pc # "idle")
    BY <1>14 DEF Reindex, durable
  <2>3. top \subseteq D
    OBVIOUS
  <2> HIDE DEF r, top, D
  <2>4. QED
    BY <1>s, <2>1, <2>2, <2>3
<1>15. ASSUME NEW p \in Procs, RunDies(p) PROVE ChartBody'
  <2>1. /\ run' = [run EXCEPT ![p] = NoRun] /\ run[p].pc # "idle"
        /\ UNCHANGED <<finalized, registry, parquet, processed, series, index, overlap>>
    BY <1>15 DEF RunDies, durable
  <2>2. ChartBody
    BY <2>1 DEF ChartInv
  <2>3. QED
    BY <1>i, <2>1, <2>2
\* The collector finalizes a file, or discovery deactivates a market.
<1>16. ASSUME finalized \subseteq finalized', Active' \subseteq Active,
              UNCHANGED <<parquet, processed, series, index, run, overlap>>
       PROVE  ChartBody'
  <2>1. /\ parquet' = parquet /\ processed' = processed /\ series' = series
        /\ index' = index /\ run' = run /\ overlap' = overlap
    BY <1>16
  <2>2. ChartBody
    BY <2>1 DEF ChartInv
  <2>3. \A c \in Active : MarketDrawn(c, D, finalized', processed, series[c], index[c])
    <3>1. \A c : Held(finalized, c) \subseteq Held(finalized', c)
          /\ (Owed(finalized, processed, c) => Owed(finalized', processed, c))
      BY <1>16 DEF Held, Owed
    <3>2. QED
      BY <1>b, <2>2, <3>1 DEF MarketDrawn
  <2>4. ASSUME NEW p \in Procs, NEW c \in Active
        PROVE  RunDrawsMarket(run[p], c, finalized', processed, series[c], index[c])
    <3> DEFINE r == run[p]
    <3>1. RunDrawsMarket(r, c, finalized, processed, series[c], index[c])
      BY <1>b, <2>2
    <3> HIDE DEF r
    <3>2. RunDrawsMarket(r, c, finalized', processed, series[c], index[c])
      BY <1>16, <3>1, StillDrawsMarket
    <3>3. QED
      BY <3>2 DEF r
  <2>5. /\ \A c \in Active' : MarketDrawn(c, DOMAIN parquet, finalized', processed, series[c], index[c])
        /\ \A p \in Procs : \A c \in Active' :
             RunDrawsMarket(run[p], c, finalized', processed, series[c], index[c])
    BY <1>16, <2>3, <2>4
  <2>6. /\ \A p, q \in Procs : run[p].pc # "idle" /\ run[q].pc # "idle" => p = q
        /\ \A p \in Procs : run[p].pc = "idle" => run[p] = NoRun
        /\ IsFiniteSet(DOMAIN parquet)
        /\ \A c \in Conditions : SeriesDrawn(series[c], DOMAIN parquet)
        /\ \A p \in Procs : RunDraws(run[p], DOMAIN parquet, series)
    BY <2>2 DEF ChartBody
  <2>7. QED
    BY <2>1, <2>5, <2>6 DEF ChartBody
<1>17. ASSUME FinalizeRaw \/ Deactivate \/ UNCHANGED normalizerVars PROVE ChartBody'
  <2>1. UNCHANGED <<parquet, processed, series, index, run, overlap>> /\ finalized \subseteq finalized'
    BY <1>17 DEF FinalizeRaw, Deactivate, normalizerVars, durable
  <2>2. registry' = registry \/ Deactivate
    BY <1>17 DEF FinalizeRaw, normalizerVars
  <2>3. Active' \subseteq Active
    <3>1. CASE registry' = registry
      BY <3>1 DEF Active
    <3>2. CASE Deactivate
      <4>1. PICK d \in Conditions : registry' = [registry EXCEPT ![d] = "inactive"]
        BY <3>2 DEF Deactivate
      <4>2. \A c \in Conditions : registry'[c] = "active" => registry[c] = "active"
        BY <1>t, <4>1 DEF Registry
      <4>3. QED
        BY <4>2 DEF Active
    <3>3. QED
      BY <2>2, <3>1, <3>2
  <2>4. QED
    BY <1>16, <2>1, <2>3
<1> HIDE DEF D
<1>18. QED
  BY <1>1, <1>2, <1>3, <1>4, <1>5, <1>6, <1>7, <1>8, <1>9, <1>10, <1>11, <1>12, <1>13,
     <1>14, <1>15, <1>17 DEF NormalizerNext, Step

\* The chart retains the last observation of each token and second, whatever
\* order the files come in and wherever runs die, as long as no two overlap:
\* what a file leads to is in the series before the file is marked, merging
\* never gives way to an earlier point, and the index differs from the series
\* only while a file that leads to rows of the market is still to be marked.
THEOREM ChartKeepsTheLatest == NormalizerSpec => []ChartIsLatest
<1>1. NormalizerInit => ChartInv
  BY InitChart
<1>2. NormalizerTypeOK /\ TellsInv /\ ChartInv /\ [NormalizerNext]_normalizerVars => ChartInv'
  BY StepChart
<1>3. NormalizerTypeOK /\ ChartInv => ChartIsLatest
  <2> SUFFICES ASSUME NormalizerTypeOK, ChartBody, NEW c \in Active
               PROVE  /\ \A f \in processed : \A r \in TopRowsOf(f) :
                            ConditionOf(r.token) = c => Covers(series[c], Point(r))
                      /\ \A q \in series[c] :
                            \E r \in DOMAIN parquet : r.ds = "top_of_book" /\ Point(r) = q
                      /\ (finalized \subseteq processed /\ \A p \in Procs : run[p].pc = "idle")
                            => index[c] = IndexEntry(series[c])
    BY DEF ChartInv, ChartIsLatest, Active, Covers
  <2>1. /\ MarketDrawn(c, DOMAIN parquet, finalized, processed, series[c], index[c])
        /\ SeriesDrawn(series[c], DOMAIN parquet)
    BY DEF ChartBody, Active
  <2>2. ASSUME NEW f \in processed, NEW r \in TopRowsOf(f), ConditionOf(r.token) = c
        PROVE  Covers(series[c], Point(r))
    <3>1. /\ r \in DOMAIN parquet /\ r.ds = "top_of_book"
          /\ \E k \in 1 .. Len(FileOf[f].envelopes) : FileOf[f].envelopes[k].id = r.key[1]
      BY DEF TopRowsOf
    <3>2. r \in RowSet
      BY <3>1 DEF NormalizerTypeOK, AllRows, RunRow
    <3>3. r \in Shown(DOMAIN parquet, c)
      BY <2>2, <3>1, <3>2 DEF Shown, TokensShown, RowSet
    <3>4. PICK g \in finalized : r \in FileTops(g, c)
      BY <2>1, <3>3 DEF MarketDrawn, Held
    <3>5. f \in Files /\ g \in Files
      BY DEF NormalizerTypeOK
    <3>6. PICK a \in ToSet(FileOf[g].envelopes) : r.key[1] = a.id
      BY <3>4, <3>5, FileTopsAre
    <3>7. PICK b \in ToSet(FileOf[f].envelopes) : b.id = r.key[1]
      BY <3>1, <3>5, FilesAre
    <3>8. f = g
      BY <3>5, <3>6, <3>7, EnvelopeIsWhere
    <3>9. QED
      BY <2>1, <3>4, <3>8 DEF MarketDrawn, Drawn
  <2>3. \A q \in series[c] : \E r \in DOMAIN parquet : r.ds = "top_of_book" /\ Point(r) = q
    BY <2>1 DEF SeriesDrawn
  <2>4. finalized \subseteq processed => index[c] = IndexEntry(series[c])
    BY <2>1 DEF MarketDrawn, Owed
  <2>5. QED
    BY <2>2, <2>3, <2>4
<1>4. QED
  BY <1>1, <1>2, <1>3, TellsIsInvariant, PTL DEF NormalizerSpec

=============================================================================
