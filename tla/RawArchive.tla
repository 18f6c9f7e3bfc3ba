----------------------------- MODULE RawArchive -----------------------------
(***************************************************************************)
(* The raw archive (storage/raw_writer.py): a bounded queue filled by the  *)
(* event loop, a worker task that hands batches to one executor thread, the*)
(* thread's files and the manifest, shutdown, crashes and the recovery of  *)
(* partial files at the next start.                                        *)
(*                                                                         *)
(* The thread's jobs are cut at the points where a crash leaves a different*)
(* disk: a row written, the rename to the final name, the manifest append. *)
(*                                                                         *)
(* Data.  An envelope is its sequence number, its stream (source and       *)
(* market, the part of the path that does not depend on time) and the      *)
(* rotation window it was received in.  A row is an envelope.  Window and  *)
(* clock count rotation periods: the age test of should_rotate is implied  *)
(* by its boundary test, a writer being created after its first envelope   *)
(* was received.  Size is counted in rows.                                 *)
(***************************************************************************)
EXTENDS Integers, Sequences, FiniteSets, Functions

CONSTANTS Streams,
          QueueCapacity,   \* raw_max_events
          BatchEvents,     \* writer_batch_events
          MaxRows,         \* rotate_uncompressed_mb, in rows
          WindowsPerHour,  \* rotation windows in one hour's partition
          MaxEnvelopes,    \* bounds: envelopes issued,
          MaxWindow,       \*   last window,
          MaxCrashes,      \*   crashes,
          MaxFailures      \*   failing disk operations

ASSUME ArchiveAssumption ==
  /\ QueueCapacity \in Nat \ {0} /\ BatchEvents \in Nat \ {0}
  /\ MaxRows \in Nat \ {0} /\ WindowsPerHour \in Nat \ {0}
  /\ MaxEnvelopes \in Nat /\ MaxWindow \in Nat
  /\ MaxCrashes \in Nat /\ MaxFailures \in Nat

VARIABLES
  clock,     \* the current rotation window
  issued,    \* envelopes numbered so far (next_sequence)
  dropped,   \* [total, first, last]: the drop counters of this process
  process,   \* the collector process, see Phases
  queue,     \* RawArchive.queue
  worker,    \* the _run task
  thread,    \* the job of the executor's only thread
  batch,     \* envelopes of the running _write_batch not yet written
  writers,   \* _writers: partition -> number of its open file
  files,     \* every file ever created, in order of creation
  manifest,  \* numbers of the files in the manifest
  broken,    \* number of the file whose writer failed while closing, or 0
  accepted,  \* envelopes for which this process's enqueue returned True
  crashes, failures

disk == <<files, manifest>>
memory == <<queue, worker, thread, batch, writers, broken>>
bounds == <<crashes, failures>>
vars == <<clock, issued, dropped, process, memory, disk, accepted, bounds>>

\* down: not running; recovering: start(); running; draining: stop() waits for
\* the worker; closing: stop() waits for _close_all.
Phases == {"down", "recovering", "running", "draining", "closing"}

Envelope == [seq : 1 .. MaxEnvelopes, stream : Streams, window : 0 .. MaxWindow]

PartitionFor(e) == [stream |-> e.stream, hour |-> e.window \div WindowsPerHour]

Partitions == [stream : Streams, hour : 0 .. MaxWindow]

NoDrops == [total |-> 0, first |-> 0, last |-> 0]

Idle == [job |-> "none"]

\* A job stands before one of its todo items (step), or has file half closed.
Job(job, todo) == [job |-> job, todo |-> todo, at |-> "step"]

Init ==
  /\ clock = 0 /\ issued = 0 /\ dropped = NoDrops
  /\ process = "down"
  /\ queue = <<>> /\ worker = "none" /\ thread = Idle /\ batch = <<>>
  /\ writers = <<>> /\ broken = 0 /\ files = <<>> /\ manifest = {}
  /\ accepted = {} /\ crashes = 0 /\ failures = 0

Tick ==
  /\ clock < MaxWindow
  /\ clock' = clock + 1
  /\ UNCHANGED <<issued, dropped, process, memory, disk, accepted, bounds>>

-----------------------------------------------------------------------------
(* enqueue, called by every source; background tasks still call it while    *)
(* stop() is waiting.                                                       *)

Received(stream) == [seq |-> issued + 1, stream |-> stream, window |-> clock]

Enqueue(stream) ==
  /\ process \in {"running", "draining", "closing"}
  /\ issued < MaxEnvelopes
  /\ issued' = issued + 1
  /\ IF Len(queue) < QueueCapacity
     THEN /\ queue' = Append(queue, Received(stream))
          /\ accepted' = accepted \cup {Received(stream)}
          /\ UNCHANGED dropped
     ELSE /\ dropped' = [total |-> dropped.total + 1,
                         first |-> IF dropped.first = 0 THEN issued' ELSE dropped.first,
                         last  |-> issued']
          /\ UNCHANGED <<queue, accepted>>
  /\ UNCHANGED <<clock, process, worker, thread, batch, writers, disk, broken, bounds>>

-----------------------------------------------------------------------------
(* _run: the worker task *)

TakeBatch(n) ==
  /\ worker = "waiting"
  /\ n <= Len(queue) /\ n <= BatchEvents
  /\ batch' = SubSeq(queue, 1, n)
  /\ queue' = SubSeq(queue, n + 1, Len(queue))
  /\ worker' = "busy"
  /\ thread' = Job("write", {})
  /\ UNCHANGED <<clock, issued, dropped, process, writers, disk, accepted, broken, bounds>>

\* Faulty variant: the timer looks at no open file.
IdleWithoutFlush ==
  /\ worker = "waiting"
  /\ queue = <<>>
  /\ worker' = "busy"
  /\ thread' = Job("flush", {})
  /\ UNCHANGED <<clock, issued, dropped, process, queue, batch, writers, disk, accepted, broken, bounds>>

\* Nothing arrived for batch_wait.
IdleFlush ==
  /\ worker = "waiting"
  /\ queue = <<>>
  /\ worker' = "busy"
  /\ thread' = Job("flush", DOMAIN writers)
  /\ UNCHANGED <<clock, issued, dropped, process, queue, batch, writers, disk, accepted, broken, bounds>>

\* _blocking sees the job done; the loop's condition is tested at once.
WorkerResumes ==
  /\ worker = "busy"
  /\ thread = Idle
  /\ worker' = IF process = "draining" /\ queue = <<>> THEN "ended" ELSE "waiting"
  /\ UNCHANGED <<clock, issued, dropped, process, queue, thread, batch, writers, disk, accepted, broken, bounds>>

-----------------------------------------------------------------------------
(* _PartitionWriter *)

LastWindow(f) ==
  LET rows == files[f].rows IN rows[Len(rows)].window

\* Faulty variant: the envelope's window is not looked at.
NeverCrosses(e) == FALSE

\* The open file of the envelope's partition belongs to an earlier window.
CrossesRotationBoundary(e) ==
  /\ PartitionFor(e) \in DOMAIN writers
  /\ e.window > LastWindow(writers[PartitionFor(e)])

ShouldRotate(rows) ==
  clock > rows[Len(rows)].window \/ Len(rows) >= MaxRows

NewFile(p) == [name |-> "partial", partition |-> p, rows |-> <<>>, flushed |-> 0]

\* Closing begins: the frame is flushed and the file renamed next.
BeginClose(job, todo, f) == [job |-> job, todo |-> todo, at |-> "rename", file |-> f]

Rename ==
  /\ thread # Idle
  /\ thread.at = "rename"
  /\ files' = [files EXCEPT ![thread.file].name = "final",
                            ![thread.file].flushed = Len(files[thread.file].rows)]
  /\ thread' = [thread EXCEPT !.at = "append"]
  /\ UNCHANGED <<clock, issued, dropped, process, queue, worker, batch, writers, manifest, accepted, broken, bounds>>

\* Faulty variant: the closed writer stays in _writers.
AppendEntryKeepingWriter ==
  /\ thread # Idle
  /\ thread.at = "append"
  /\ manifest' = manifest \cup {thread.file}
  /\ thread' = Job(thread.job, thread.todo)
  /\ UNCHANGED <<clock, issued, dropped, process, queue, worker, batch, writers, files, accepted, broken, bounds>>

\* ManifestStore.append, after which the writer is forgotten.
AppendEntry ==
  /\ thread # Idle
  /\ thread.at = "append"
  /\ manifest' = manifest \cup {thread.file}
  /\ writers' = Restrict(writers, {p \in DOMAIN writers : writers[p] # thread.file})
  /\ thread' = Job(thread.job, thread.todo)
  /\ UNCHANGED <<clock, issued, dropped, process, queue, worker, batch, files, accepted, broken, bounds>>

-----------------------------------------------------------------------------
(* _write_batch: one envelope after the other *)

Writing == thread # Idle /\ thread.job = "write" /\ thread.at = "step" /\ batch # <<>>

\* The open file is closed first, and the envelope goes to a new one.
CrossBoundary ==
  /\ Writing
  /\ CrossesRotationBoundary(Head(batch))
  /\ thread' = BeginClose("write", {}, writers[PartitionFor(Head(batch))])
  /\ UNCHANGED <<clock, issued, dropped, process, queue, worker, batch, writers, disk, accepted, broken, bounds>>

\* The file number the next envelope goes to, and the files with it there.
Target(p) == IF p \in DOMAIN writers THEN writers[p] ELSE Len(files) + 1

WithTarget(p) == IF p \in DOMAIN writers THEN files ELSE Append(files, NewFile(p))

WriteRow ==
  /\ Writing
  /\ ~CrossesRotationBoundary(Head(batch))
  /\ LET p == PartitionFor(Head(batch))
         f == Target(p)
     IN  /\ files' = [WithTarget(p) EXCEPT ![f].rows = Append(@, Head(batch))]
         /\ writers' = [q \in DOMAIN writers \cup {p} |-> IF q = p THEN f ELSE writers[q]]
         /\ thread' = IF ShouldRotate(files'[f].rows)
                      THEN BeginClose("write", {}, f) ELSE thread
  /\ batch' = Tail(batch)
  /\ UNCHANGED <<clock, issued, dropped, process, queue, worker, manifest, accepted, broken, bounds>>

-----------------------------------------------------------------------------
(* _flush_all and _close_all: one open file after the other *)

Visits(job, p) ==
  /\ thread # Idle
  /\ thread.job = job /\ thread.at = "step"
  /\ p \in thread.todo

FlushFile(p) ==
  /\ Visits("flush", p)
  /\ ~ShouldRotate(files[writers[p]].rows)
  /\ files' = [files EXCEPT ![writers[p]].flushed = Len(files[writers[p]].rows)]
  /\ thread' = [thread EXCEPT !.todo = @ \ {p}]
  /\ UNCHANGED <<clock, issued, dropped, process, queue, worker, batch, writers, manifest, accepted, broken, bounds>>

RotateIdleFile(p) ==
  /\ Visits("flush", p)
  /\ ShouldRotate(files[writers[p]].rows)
  /\ thread' = BeginClose("flush", thread.todo \ {p}, writers[p])
  /\ UNCHANGED <<clock, issued, dropped, process, queue, worker, batch, writers, disk, accepted, broken, bounds>>

CloseFile(p) ==
  /\ Visits("close_all", p)
  /\ writers[p] # broken
  /\ thread' = BeginClose("close_all", thread.todo \ {p}, writers[p])
  /\ UNCHANGED <<clock, issued, dropped, process, queue, worker, batch, writers, disk, accepted, broken, bounds>>

\* A write or flush job is through.
JobDone ==
  /\ thread # Idle
  /\ thread.job \in {"write", "flush"} /\ thread.at = "step"
  /\ thread.todo = {} /\ batch = <<>>
  /\ thread' = Idle
  /\ UNCHANGED <<clock, issued, dropped, process, queue, worker, batch, writers, disk, accepted, broken, bounds>>

-----------------------------------------------------------------------------
(* stop *)

RequestStop ==
  /\ process = "running"
  /\ process' = "draining"
  /\ UNCHANGED <<clock, issued, dropped, memory, disk, accepted, bounds>>

Drained ==
  /\ process = "draining"
  /\ worker = "ended"
  /\ process' = "closing"
  /\ UNCHANGED <<clock, issued, dropped, memory, disk, accepted, bounds>>

\* Faulty variant: the job in the thread is given up with the task.
DrainTimesOutDroppingJob ==
  /\ process = "draining"
  /\ worker \in {"waiting", "busy"}
  /\ process' = "closing"
  /\ worker' = "cancelled"
  /\ thread' = Idle /\ batch' = <<>>
  /\ UNCHANGED <<clock, issued, dropped, queue, writers, disk, accepted, broken, bounds>>

\* The task is cancelled; the job it waited for goes on in the thread.
DrainTimesOut ==
  /\ process = "draining"
  /\ worker \in {"waiting", "busy"}
  /\ process' = "closing"
  /\ worker' = "cancelled"
  /\ UNCHANGED <<clock, issued, dropped, queue, thread, batch, writers, disk, accepted, broken, bounds>>

\* The executor has one thread: _close_all runs after the job in progress.
CloseAllStarts ==
  /\ process = "closing"
  /\ thread = Idle
  /\ thread' = Job("close_all", DOMAIN writers)
  /\ UNCHANGED <<clock, issued, dropped, process, queue, worker, batch, writers, disk, accepted, broken, bounds>>

\* Everything in memory is gone with the process.
ProcessGone ==
  /\ process' = "down"
  /\ queue' = <<>> /\ worker' = "none" /\ thread' = Idle
  /\ batch' = <<>> /\ writers' = <<>> /\ broken' = 0
  /\ dropped' = NoDrops /\ accepted' = {}

\* Faulty variant: stop() does not wait for the files still open.
StopReturnsEarly ==
  /\ thread # Idle
  /\ thread.job = "close_all" /\ thread.at = "step"
  /\ ProcessGone
  /\ UNCHANGED <<clock, issued, disk, bounds>>

StopReturns ==
  /\ thread # Idle
  /\ thread.job = "close_all" /\ thread.at = "step" /\ thread.todo = {}
  /\ ProcessGone
  /\ UNCHANGED <<clock, issued, disk, bounds>>

-----------------------------------------------------------------------------
(* Failing disk operations and crashes *)

\* A partial file keeps what left the compressor: at least what was flushed.
Kept ==
  {kept \in [DOMAIN files -> 0 .. MaxRows] : \A f \in DOMAIN files :
     /\ kept[f] <= Len(files[f].rows)
     /\ kept[f] >= IF files[f].name = "partial" THEN files[f].flushed
                                                ELSE Len(files[f].rows)}

Truncated(kept) ==
  [f \in DOMAIN files |-> [files[f] EXCEPT !.rows = SubSeq(@, 1, kept[f])]]

ProcessDies ==
  /\ \E kept \in Kept : files' = Truncated(kept)
  /\ ProcessGone

\* The exception ends _run, and with it all writing; nobody is told.  After a
\* cancelled _run nobody waits for the job.  A writer that fails while closing
\* cannot be closed again.
WriteFails ==
  /\ thread # Idle
  /\ thread.job \in {"write", "flush"}
  /\ failures < MaxFailures
  /\ failures' = failures + 1
  /\ thread' = Idle /\ batch' = <<>>
  /\ worker' = IF worker = "busy" THEN "failed" ELSE worker
  /\ broken' = IF thread.at = "step" THEN broken ELSE thread.file
  /\ UNCHANGED <<clock, issued, dropped, process, queue, writers, disk, accepted, crashes>>

\* stop() re-raises the failure of _run and closes nothing, or meets the
\* writer that cannot be closed.
StopRaises ==
  /\ \/ process = "draining" /\ worker = "failed"
     \/ \E p \in DOMAIN writers : Visits("close_all", p) /\ writers[p] = broken
  /\ ProcessDies
  /\ UNCHANGED <<clock, issued, manifest, bounds>>

\* A failure in start() or in _close_all ends the process.
StartOrStopFails ==
  /\ thread # Idle
  /\ thread.job \in {"recover", "close_all"}
  /\ failures < MaxFailures
  /\ failures' = failures + 1
  /\ ProcessDies
  /\ UNCHANGED <<clock, issued, manifest, crashes>>

Crash ==
  /\ process # "down"
  /\ crashes < MaxCrashes
  /\ crashes' = crashes + 1
  /\ ProcessDies
  /\ UNCHANGED <<clock, issued, manifest, failures>>

-----------------------------------------------------------------------------
(* start: recover_partials, then the worker *)

Partials == {f \in DOMAIN files : files[f].name = "partial"}

Start ==
  /\ process = "down"
  /\ process' = "recovering"
  /\ thread' = Job("recover", Partials)
  /\ UNCHANGED <<clock, issued, dropped, queue, worker, batch, writers, disk, accepted, broken, bounds>>

\* Faulty variant: the damaged file keeps its name while it is recovered.
RecoverInPlace(f) ==
  /\ Visits("recover", f)
  /\ thread' = IF files[f].rows = <<>>
               THEN [thread EXCEPT !.todo = @ \ {f}]
               ELSE [job |-> "recover", todo |-> thread.todo \ {f}, at |-> "publish", file |-> f]
  /\ UNCHANGED <<clock, issued, dropped, process, queue, worker, batch, writers, disk, accepted, broken, bounds>>

\* The complete lines are read, then the damaged file gets its new name.
Abandon(f) ==
  /\ Visits("recover", f)
  /\ files' = [files EXCEPT ![f].name = "abandoned"]
  /\ thread' = IF files[f].rows = <<>>
               THEN [thread EXCEPT !.todo = @ \ {f}]
               ELSE [job |-> "recover", todo |-> thread.todo \ {f}, at |-> "publish", file |-> f]
  /\ UNCHANGED <<clock, issued, dropped, process, queue, worker, batch, writers, manifest, accepted, broken, bounds>>

PublishRecovered ==
  /\ thread # Idle
  /\ thread.at = "publish"
  /\ files' = Append(files, [files[thread.file] EXCEPT !.name = "recovered"])
  /\ thread' = [thread EXCEPT !.at = "append", !.file = Len(files) + 1]
  /\ UNCHANGED <<clock, issued, dropped, process, queue, worker, batch, writers, manifest, accepted, broken, bounds>>

Recovered ==
  /\ thread # Idle
  /\ thread.job = "recover" /\ thread.at = "step" /\ thread.todo = {}
  /\ process' = "running"
  /\ worker' = "waiting"
  /\ thread' = Idle
  /\ UNCHANGED <<clock, issued, dropped, queue, batch, writers, disk, accepted, broken, bounds>>

-----------------------------------------------------------------------------
Worker == WorkerResumes \/ IdleFlush \/ \E n \in 1 .. BatchEvents : TakeBatch(n)

Thread ==
  \/ CrossBoundary \/ WriteRow \/ Rename \/ AppendEntry \/ JobDone
  \/ \E p \in Partitions : FlushFile(p) \/ RotateIdleFile(p) \/ CloseFile(p)
  \/ CloseAllStarts \/ StopReturns
  \/ \E f \in DOMAIN files : Abandon(f)
  \/ PublishRecovered \/ Recovered

Next ==
  \/ Tick
  \/ \E stream \in Streams : Enqueue(stream)
  \/ Worker \/ Thread
  \/ RequestStop \/ Drained \/ DrainTimesOut
  \/ WriteFails \/ StopRaises \/ StartOrStopFails \/ Crash \/ Start

Spec == Init /\ [][Next]_vars

\* The event loop resumes a ready task, the executor's thread makes progress,
\* and the service is started again.
Fairness == WF_vars(Worker) /\ WF_vars(Thread) /\ WF_vars(Drained) /\ WF_vars(StopRaises) /\ WF_vars(Start)

FairSpec == Spec /\ Fairness

-----------------------------------------------------------------------------
(* Properties *)

File == [name : {"partial", "final", "abandoned", "recovered"}, partition : Partitions,
         rows : Seq(Envelope), flushed : Nat]

TypeOK ==
  /\ clock \in 0 .. MaxWindow /\ issued \in 0 .. MaxEnvelopes
  /\ dropped \in [total : Nat, first : Nat, last : Nat]
  /\ process \in Phases
  /\ queue \in Seq(Envelope) /\ Len(queue) <= QueueCapacity
  /\ worker \in {"none", "waiting", "busy", "ended", "cancelled", "failed"}
  /\ batch \in Seq(Envelope) /\ Len(batch) <= BatchEvents
  /\ DOMAIN writers \subseteq Partitions /\ broken \in 0 .. Len(files)
  /\ files \in Seq(File)
  /\ Range(writers) \subseteq DOMAIN files /\ manifest \subseteq DOMAIN files
  /\ accepted \subseteq Envelope

\* No envelope is in two files of the manifest, nor twice in one: not after a
\* crash in the middle of a recovery, nor when the recovered copy of a partial
\* file stands beside the abandoned original (raw_writer.py, recover_partials;
\* manifest.py, verify reports such sequence_duplicates).
NoDuplicateRows ==
  \A f, g \in manifest : \A i \in DOMAIN files[f].rows, j \in DOMAIN files[g].rows :
    files[f].rows[i].seq = files[g].rows[j].seq => f = g /\ i = j

\* A file in the manifest is never written to or renamed again, whatever the
\* writers, a timed-out worker's job or a later recovery do (the digest of the
\* entry is computed once; raw_writer.py, close).
ManifestedNeverChanges ==
  [][/\ manifest \subseteq manifest'
     /\ \A f \in manifest : files'[f] = files[f]]_vars

Rows(name) ==
  UNION {Range(files[f].rows) : f \in {g \in DOMAIN files : files[g].name = name}}

\* While the disk works nothing that this process accepted is missing: it waits
\* in the queue or the batch, or is a row of a file, at any moment between the
\* steps of rotation, flushing and shutdown, also when the drain has timed out
\* with a job in the thread (raw_writer.py, _run, _write_batch and stop).
NothingLostWhileRunning ==
  failures = 0 =>
    accepted \subseteq Range(queue) \cup Range(batch) \cup Rows("partial") \cup Rows("final")

\* A file holds envelopes of one rotation window only, in the order they were
\* received, also when the worker falls behind the clock (raw_writer.py,
\* crosses_rotation_boundary and should_rotate).
FileHoldsOneWindow ==
  \A f \in DOMAIN files : \A i, j \in DOMAIN files[f].rows :
    i < j => /\ files[f].rows[i].window = files[f].rows[j].window
             /\ files[f].rows[i].seq < files[f].rows[j].seq

\* When stop() returns, whether or not the drain timed out with a job running,
\* no partial file is left, and without an earlier crash every file is in the
\* manifest (raw_writer.py, stop and _close_all).
StopFinalizesFiles ==
  [][process = "closing" /\ process' = "down" /\ crashes' = crashes /\ failures' = 0 =>
       /\ Partials' = {}
       /\ crashes = 0 => DOMAIN files' \subseteq manifest']_vars

\* tests/unit/test_raw_writer.py, test_idle_partition_is_finalized_without_
\* another_event: an open file of an earlier window does not stay open, whether
\* the writer's timer, the shutdown or the recovery after a crash comes to it.
\* A failing disk ends the worker, and with it this promise.
IdleFilesAreFinalized ==
  \A n \in 1 .. MaxEnvelopes :
    (n \in Partials /\ files[n].rows # <<>> /\ LastWindow(n) < clock)
      ~> (n \notin Partials \/ failures > 0)
=============================================================================
