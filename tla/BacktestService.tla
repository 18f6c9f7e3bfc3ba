--------------------------- MODULE BacktestService ---------------------------
(* The backtest workspace and those who share it: the refresh command        *)
(* (cli.py, episodes) that writes the episode index and publishes one tape   *)
(* per episode as three files, and the dashboard's BacktestService, whose    *)
(* request threads reload the index and clear the tape cache while its one   *)
(* worker thread loads tapes and replays them.                               *)
(*                                                                           *)
(* Every file is replaced by a rename, so a read of one file is one step;    *)
(* what a file holds is the number of the build that wrote it.               *)
EXTENDS Integers, Sequences, SequencesExt, FiniteSets

CONSTANTS
  LastEpisode,    \* episodes are numbered in order of their start
  Indexes,        \* the sets of eligible episodes an index may list
  Requests,       \* [from, to, max], what a request selects; max = 0: no limit
  Bytes,          \* resident_bytes of each episode's tape
  Budget,         \* budget_bytes of the cache
  MaxRetained,    \* MAX_RETAINED_JOBS
  Overwrites,     \* whether the refresh may be run with --rebuild
  MaxRefreshes, MaxCrashes, MaxJobs, MaxLookups   \* bounds

Episodes == 1 .. LastEpisode

ASSUME ServiceAssumption ==
  /\ LastEpisode \in Nat \ {0}
  /\ Indexes \subseteq SUBSET Episodes
  /\ Requests \subseteq [from : Nat, to : Nat, max : Nat]
  /\ Bytes \in [Episodes -> Nat] /\ Budget \in Nat
  /\ Overwrites \subseteq BOOLEAN

VARIABLES
  index,      \* episodes.json: its mtime and the eligible episodes
  files,      \* the marker, tape, trades and metadata's build of each episode
  refresh,    \* the refresh command
  builds, crashes,
  known,      \* _index_mtime and _episodes of the service
  cache,      \* _entries, least recently used first
  jobs,       \* every job submitted
  retained,   \* the keys of _jobs
  queue,      \* the executor's queue
  worker,     \* the executor's one thread
  down        \* the server was shut down

workspace == <<index, files, refresh, builds, crashes>>
service == <<known, cache, jobs, retained, queue, worker, down>>
vars == <<workspace, service>>

Missing == 0

\* What is held of a tape: the scalar columns, the trades and the metadata are
\* read when it is loaded, the ladders' row groups from the file when a row is
\* looked up (LazyLadders).
NoTape == [episode |-> Missing, metadata |-> Missing, scalars |-> Missing, trades |-> Missing,
           ladders |-> Missing]

NoWork == [stage |-> "idle", job |-> 0, todo |-> {}, tape |-> NoTape, decoded |-> FALSE,
           lookups |-> 0]

Init ==
  /\ index = [mtime |-> 0, eligible |-> {}]
  /\ files = [e \in Episodes |->
                [version |-> "none", metadata |-> Missing, tape |-> Missing, trades |-> Missing]]
  /\ refresh = [stage |-> "idle", todo |-> {}, overwrite |-> FALSE]
  /\ builds = 0 /\ crashes = 0
  /\ known = index
  /\ cache = <<>> /\ jobs = <<>> /\ retained = {} /\ queue = <<>>
  /\ worker = NoWork
  /\ down = FALSE

-----------------------------------------------------------------------------
(* The refresh command: the index first, then the tapes one after the other. *)

\* build and write_episode_index.  An index without --build-tapes leaves no
\* tape to build.
WriteIndex(eligible, todo, overwrite) ==
  /\ refresh.stage = "idle" /\ index.mtime < MaxRefreshes
  /\ index' = [mtime |-> index.mtime + 1, eligible |-> eligible]
  /\ refresh' = [stage |-> "next", todo |-> todo, overwrite |-> overwrite]
  /\ UNCHANGED <<files, builds, crashes, service>>

InTurn(e) == e \in refresh.todo /\ \A o \in refresh.todo : e <= o

\* Faulty variant: the three files are enough, whatever the marker says.
HasFiles(e) == files[e].version # "none" /\ files[e].tape # Missing /\ files[e].trades # Missing

\* is_built of the builder and _tape_ready of the service, whose depth is the
\* builder's default.
IsBuilt(e) == files[e].version = "current" /\ files[e].tape # Missing /\ files[e].trades # Missing

SkipEpisode(e) ==
  /\ refresh.stage = "next" /\ InTurn(e)
  /\ IsBuilt(e) /\ ~refresh.overwrite
  /\ refresh' = [refresh EXCEPT !.todo = @ \ {e}]
  /\ UNCHANGED <<index, files, builds, crashes, service>>

\* The rows are made (EpisodeTape) and the temporary files written.
MakeTape(e) ==
  /\ refresh.stage = "next" /\ InTurn(e)
  /\ ~IsBuilt(e) \/ refresh.overwrite
  /\ builds' = builds + 1
  /\ refresh' = [refresh EXCEPT !.stage = "marker"]
  /\ UNCHANGED <<index, files, crashes, service>>

Replaced(e) ==
  CASE refresh.stage = "marker" -> [files EXCEPT ![e].version = "building", ![e].metadata = Missing]
    [] refresh.stage = "tape" -> [files EXCEPT ![e].tape = builds]
    [] refresh.stage = "trades" -> [files EXCEPT ![e].trades = builds]
    [] refresh.stage = "metadata" -> [files EXCEPT ![e].version = "current", ![e].metadata = builds]

\* The order in which the files are published.
FileAfter == [marker |-> "tape", tape |-> "trades", trades |-> "metadata", metadata |-> "next"]

Publish(e) ==
  /\ refresh.stage \in DOMAIN FileAfter /\ InTurn(e)
  /\ files' = Replaced(e)
  /\ refresh' = [refresh EXCEPT !.stage = FileAfter[@],
                                !.todo = IF FileAfter[refresh.stage] = "next" THEN @ \ {e} ELSE @]
  /\ UNCHANGED <<index, builds, crashes, service>>

RefreshEnds ==
  /\ refresh.stage = "next" /\ refresh.todo = {}
  /\ refresh' = [refresh EXCEPT !.stage = "idle"]
  /\ UNCHANGED <<index, files, builds, crashes, service>>

\* The command fails or is killed after any of its steps.
RefreshDies ==
  /\ refresh.stage # "idle" /\ crashes < MaxCrashes
  /\ crashes' = crashes + 1
  /\ refresh' = [refresh EXCEPT !.stage = "idle", !.todo = {}]
  /\ UNCHANGED <<index, files, builds, service>>

-----------------------------------------------------------------------------
(* Request threads *)

Holds(entries, e) == \E i \in DOMAIN entries : entries[i].episode = e

\* What clear() does to the tape the worker is replaying: a tape still in the
\* cache loses its decoded row group.
Released ==
  IF worker.stage \in {"replay", "row"} /\ Holds(cache, worker.tape.episode)
  THEN [worker EXCEPT !.decoded = FALSE]
  ELSE worker

\* episodes(): a new index is read, the cache cleared.
Reload ==
  /\ known' = index
  /\ cache' = IF index.mtime # known.mtime THEN <<>> ELSE cache

WorkerAfterReload == IF index.mtime # known.mtime THEN Released ELSE worker

Newest(s, max) == {e \in s : max = 0 \/ Cardinality({later \in s : later > e}) < max}

\* _selected, of the index that was just read.
Selected(request) ==
  Newest({e \in index.eligible : request.from <= e /\ e <= request.to /\ IsBuilt(e)}, request.max)

Finished(j) == j \in DOMAIN jobs /\ jobs[j].state \in {"succeeded", "failed"}

\* _prune: finished jobs past their time, and the oldest finished ones as long
\* as there are too many.
Pruned(expired) ==
  LET left   == retained \ expired
      excess == Cardinality(left) - MaxRetained
      older(j) == {i \in left : i < j /\ Finished(i)}
  IN  {j \in left : ~Finished(j) \/ Cardinality(older(j)) >= excess}

Submit(request, expired) ==
  /\ ~down /\ Len(jobs) < MaxJobs
  /\ Selected(request) # {}
  /\ expired \subseteq {j \in retained : Finished(j)}
  /\ Reload
  /\ worker' = WorkerAfterReload
  /\ jobs' = Append(jobs, [request |-> request, state |-> "queued",
                           total |-> Cardinality(Selected(request)), completed |-> 0, error |-> "none"])
  /\ retained' = Pruned(expired) \cup {Len(jobs')}
  /\ queue' = Append(queue, Len(jobs'))
  /\ UNCHANGED <<workspace, down>>

\* meta(), or a submission that selects nothing.
Poll ==
  /\ ~down /\ index # known
  /\ Reload
  /\ worker' = WorkerAfterReload
  /\ UNCHANGED <<workspace, jobs, retained, queue, down>>

\* shutdown(): queued jobs are cancelled, the running one goes on.
Shutdown ==
  /\ ~down
  /\ down' = TRUE /\ queue' = <<>>
  /\ UNCHANGED <<workspace, known, cache, jobs, retained, worker>>

-----------------------------------------------------------------------------
(* The worker thread: _run, run_episodes and TapeCache.get *)

Serves(step) == [worker EXCEPT !.stage = step]

Start ==
  /\ worker.stage = "idle" /\ queue # <<>>
  /\ Reload
  /\ jobs' = [jobs EXCEPT ![Head(queue)].state = "running"]
  /\ worker' = [NoWork EXCEPT !.stage = "get", !.job = Head(queue),
                              !.todo = Selected(jobs[Head(queue)].request)]
  /\ queue' = Tail(queue)
  /\ UNCHANGED <<workspace, retained, down>>

\* The episodes are replayed in the order of their start.
Episode == Min(worker.todo)

Hit ==
  /\ worker.stage = "get" /\ worker.todo # {} /\ Holds(cache, Episode)
  /\ \E i \in DOMAIN cache :
       /\ cache[i].episode = Episode
       /\ cache' = Append(RemoveAt(cache, i), cache[i])
       /\ worker' = [Serves("replay") EXCEPT !.tape = cache[i]]
  /\ UNCHANGED <<workspace, known, jobs, retained, queue, down>>

Miss ==
  /\ worker.stage = "get" /\ worker.todo # {} /\ ~Holds(cache, Episode)
  /\ worker' = [Serves("metadata") EXCEPT !.tape = [NoTape EXCEPT !.episode = Episode]]
  /\ UNCHANGED <<workspace, known, cache, jobs, retained, queue, down>>

\* load_tape: one file after the other; the marker's version is checked first.
Read ==
  /\ \/ /\ worker.stage = "metadata" /\ files[Episode].version = "current"
        /\ worker' = [Serves("tape") EXCEPT !.tape.metadata = files[Episode].metadata]
     \/ /\ worker.stage = "tape" /\ files[Episode].tape # Missing
        /\ worker' = [Serves("trades") EXCEPT !.tape.scalars = files[Episode].tape]
     \/ /\ worker.stage = "trades" /\ files[Episode].trades # Missing
        /\ worker' = [Serves("ladders") EXCEPT !.tape.trades = files[Episode].trades]
     \/ /\ worker.stage = "ladders"
        /\ worker' = [Serves("insert") EXCEPT !.tape.ladders = files[Episode].tape]
  /\ UNCHANGED <<workspace, known, cache, jobs, retained, queue, down>>

\* Faulty variant: the exception ends the thread's work on the queue.
FailsUncaught(error) ==
  /\ jobs' = [jobs EXCEPT ![worker.job].error = error]
  /\ worker' = Serves("dead")
  /\ UNCHANGED <<workspace, known, cache, retained, queue, down>>

\* Any exception ends the job, never the worker.
Fails(error) ==
  /\ jobs' = [jobs EXCEPT ![worker.job].state = "failed", ![worker.job].error = error]
  /\ worker' = NoWork
  /\ UNCHANGED <<workspace, known, cache, retained, queue, down>>

Unreadable ==
  \/ worker.stage = "metadata" /\ files[Episode].version # "current"
  \/ worker.stage = "tape" /\ files[Episode].tape = Missing
  \/ worker.stage = "trades" /\ files[Episode].trades = Missing

\* A file is missing or marked, or anything else goes wrong.
Raises ==
  /\ worker.stage \in {"metadata", "tape", "trades", "ladders", "replay", "report"}
  /\ Fails(IF Unreadable THEN "load" ELSE "run")

Weight(entries) == FoldSeq(LAMBDA t, n : Bytes[t.episode] + n, 0, entries)

\* The oldest entries go until the budget is kept or one is left.
Evicted(entries) ==
  LET fits(k) == k = Len(entries) \/ Weight(SubSeq(entries, k, Len(entries))) <= Budget
  IN  SubSeq(entries, Min({k \in DOMAIN entries : fits(k)}), Len(entries))

\* The lock was released while the tape was read: the cache may have been
\* cleared since.
Insert ==
  /\ worker.stage = "insert"
  /\ cache' = Evicted(Append(cache, worker.tape))
  /\ worker' = Serves("replay")
  /\ UNCHANGED <<workspace, known, jobs, retained, queue, down>>

\* LazyLadders.row: the row group is in memory or read from the file that has
\* the tape's name now; then the table is fetched from the field once more.
Lookup ==
  /\ worker.stage = "replay" /\ worker.lookups < MaxLookups
  /\ worker' = [Serves("row") EXCEPT !.decoded = TRUE, !.lookups = @ + 1,
                  !.tape.ladders = IF worker.decoded THEN @ ELSE files[Episode].tape]
  /\ UNCHANGED <<workspace, known, cache, jobs, retained, queue, down>>

UseRow ==
  /\ worker.stage = "row" /\ worker.decoded
  /\ worker' = Serves("replay")
  /\ UNCHANGED <<workspace, known, cache, jobs, retained, queue, down>>

RowIsGone == worker.stage = "row" /\ ~worker.decoded /\ Fails("row")

ReplayEnds ==
  /\ worker.stage = "replay"
  /\ jobs' = [jobs EXCEPT ![worker.job].completed = @ + 1]
  /\ worker' = [NoWork EXCEPT !.stage = "get", !.job = worker.job, !.todo = worker.todo \ {Episode}]
  /\ UNCHANGED <<workspace, known, cache, retained, queue, down>>

\* All are replayed, or a compounded wallet is empty.
Complete ==
  /\ worker.stage = "get"
  /\ worker.todo = {} \/ jobs[worker.job].completed > 0
  /\ jobs' = [jobs EXCEPT ![worker.job].completed = jobs[worker.job].total]
  /\ worker' = [Serves("report") EXCEPT !.todo = {}]
  /\ UNCHANGED <<workspace, known, cache, retained, queue, down>>

Succeed ==
  /\ worker.stage = "report"
  /\ jobs' = [jobs EXCEPT ![worker.job].state = "succeeded"]
  /\ worker' = NoWork
  /\ UNCHANGED <<workspace, known, cache, retained, queue, down>>

-----------------------------------------------------------------------------
Refresh ==
  \/ \E eligible \in Indexes : \E todo \in {{}, eligible} :
       \E overwrite \in Overwrites : WriteIndex(eligible, todo, overwrite)
  \/ \E e \in Episodes : SkipEpisode(e) \/ MakeTape(e) \/ Publish(e)
  \/ RefreshEnds \/ RefreshDies

Request ==
  \/ \E r \in Requests : \E expired \in SUBSET retained : Submit(r, expired)
  \/ Poll \/ Shutdown

Work ==
  \/ Start \/ Hit \/ Miss \/ Read \/ Raises \/ Insert \/ Lookup \/ UseRow \/ RowIsGone
  \/ ReplayEnds \/ Complete \/ Succeed

Next == Refresh \/ Request \/ Work

Spec == Init /\ [][Next]_vars

\* The executor's thread runs as long as it has work.
FairSpec == Spec /\ WF_vars(Work)

-----------------------------------------------------------------------------
(* Properties *)

\* A tape in the cache or being replayed is one publication, the one on disk:
\* columns, trades, uncertainty and the ladders read later come from the same
\* build, whatever crashed publications left behind, and a tape that was ready
\* can be loaded.  Tapes are not rebuilt (docs/DASHBOARD.md), so one inserted
\* after the cache was cleared does no harm (tape.py, build and load_tape;
\* backtest_service.py, TapeCache.get).
TapesInUseAreWhole ==
  LET whole(t) == LET f == files[t.episode]
                  IN  /\ f.version = "current"
                      /\ {t.metadata, t.scalars, t.trades, t.ladders, f.tape, f.trades} = {f.metadata}
  IN  /\ \A i \in DOMAIN cache : whole(cache[i])
      /\ worker.stage \in {"insert", "replay", "row"} => whole(worker.tape)
      /\ \A j \in DOMAIN jobs : jobs[j].error # "load"

\* Every job submitted ends, whatever fails in it or in the jobs before it, and
\* until it has ended a poller finds it, however many jobs came after it
\* (backtest_service.py, submit, _prune and _run).
EveryJobEnds ==
  \A j \in 1 .. MaxJobs :
    /\ (j \in DOMAIN jobs) ~> (down \/ Finished(j))
    /\ [](j \in DOMAIN jobs => j \in retained \/ Finished(j))

\* backtest_service.py, TapeCache: "Tapes are immutable once loaded and a
\* single worker runs at a time, so a hit can be handed out directly".  Then no
\* job fails for what another thread does to its tape.
TapesAreImmutable == \A j \in DOMAIN jobs : jobs[j].error # "row"
=============================================================================
