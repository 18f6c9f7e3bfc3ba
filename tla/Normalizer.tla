------------------------------ MODULE Normalizer ------------------------------
(***************************************************************************)
(* Normalization of the raw archive: normalize() of                        *)
(* normalization/normalizer.py with the state it keeps in SQLite, the      *)
(* Parquet files it publishes, the manifest and the dashboard's chart      *)
(* cache.                                                                  *)
(*                                                                         *)
(* A process of Procs is one run of the command: the timer's (newest files *)
(* first, a bounded number) or an operator's.  Nothing excludes two at a   *)
(* time.  Every durable effect is a step of its own, so that a run may die *)
(* between any two of them; the collector goes on finalizing raw files and *)
(* updating the market registry meanwhile.                                 *)
(***************************************************************************)
EXTENDS EventParser, Functions, Ranking

CONSTANTS Procs,       \* runs of the normalizer that may be under way
          Files,       \* raw files, and what each holds:
          FileOf,      \* [src, date, closed, envelopes]
          Options,     \* the arguments of a run: [max, newest, date]
          TimerOptions,\* the ones the systemd timer passes
          Legacy,      \* files normalized before ticks had a dataset
          BucketLength,\* times in one second of the chart
          HourLength,  \* times in one hour partition
          MaxDeaths

Unlimited == 0
AnyDate == "any"

\* A file holds what one source recorded; no two are closed at the same time,
\* and no envelope is in two places (RawArchive's NoDuplicateRows).
ASSUME NormalizerAssumption ==
    /\ IsFiniteSet(Files) /\ Legacy \subseteq Files
    /\ \A f \in Files :
          /\ FileOf[f].closed \in Nat
          /\ FileOf[f].envelopes \in Seq({env \in RecordedEnvelope : WellFormed(env)})
          /\ \A k \in DOMAIN FileOf[f].envelopes : FileOf[f].envelopes[k].src = FileOf[f].src
    /\ \A f, g \in Files : FileOf[f].closed = FileOf[g].closed => f = g
    /\ \A f, g \in Files : \A j \in DOMAIN FileOf[f].envelopes, k \in DOMAIN FileOf[g].envelopes :
          FileOf[f].envelopes[j].id = FileOf[g].envelopes[k].id => f = g /\ j = k
    /\ TimerOptions \in Options
    /\ \A opt \in Options : opt.max \in Nat /\ opt.newest \in BOOLEAN
    /\ BucketLength \in Nat \ {0} /\ HourLength \in Nat \ {0}
    /\ MaxDeaths \in Nat

VARIABLES finalized,    \* finalized raw files the manifest lists
          registry,    \* condition -> "absent", "active" or "inactive"
          processed,   \* normalized_files of normalization.sqlite
          checkpoints, \* batches recorded as normalization_batch
          tickDone,    \* the tick migration's checkpoint
          parquet,     \* rows in published files -> one copy, or more (2)
          listed,      \* rows of published files the manifest lists
          exported,    \* rows listed when the manifest was last exported
          series,      \* condition -> points of its chart file
          index,       \* condition -> its entry of the chart index
          run,         \* the state of each process
          deaths,     \* how many runs died
          overlap      \* two runs were under way at once

normalizerVars == <<finalized, registry, processed, checkpoints, tickDone, parquet, listed,
          exported, series, index, run, deaths, overlap>>

durable == <<processed, checkpoints, tickDone, parquet, listed, exported, series, index>>

-----------------------------------------------------------------------------
(* What a run reads when it starts. *)

KnownTokens == UNION {TokensOf[c] : c \in {d \in Conditions : registry[d] = "active"}}

Registered == {c \in Conditions : registry[c] # "absent"}

Earlier(f, g) == FileOf[f].closed < FileOf[g].closed

ByClosing(files) == Ranked([f \in files |-> {g \in files : Earlier(g, f)}])

\* Faulty variant: a run for one date takes that date's files once more.
RawEntriesAgain(opt) ==
    ByClosing({f \in finalized : \/ opt.date = AnyDate /\ f \notin processed
                                \/ opt.date = FileOf[f].date})

\* The unprocessed entries of the asked date, oldest or newest first, cut off.
RawEntries(opt) ==
    LET found  == {f \in finalized : /\ f \notin processed
                                    /\ opt.date \in {AnyDate, FileOf[f].date}}
        sorted == ByClosing(found)
        seq    == IF opt.max # Unlimited /\ opt.newest THEN Reverse(sorted) ELSE sorted
    IN  IF opt.max = Unlimited \/ Len(seq) <= opt.max THEN seq ELSE SubSeq(seq, 1, opt.max)

Envelopes(files) == FlattenSeq([k \in 1..Len(files) |-> FileOf[files[k]].envelopes])

Parsed(files) ==
    LET envs == Envelopes(files)
        parsed[k \in 0..Len(envs)] ==
            IF k = 0 THEN Context(<< >>, NoTicks, KnownTokens)
            ELSE Only({EnvelopeRows(ctx, envs[k], Registered) : ctx \in {parsed[k-1]}})
    IN  parsed[Len(envs)].rows

\* Faulty variant: the migration reads only the files of this run's batch.
TickBackfillRowsOfBatch(opt) ==
    LET files == RawEntries(opt)
    IN  FlattenSeq([k \in 1..Len(Envelopes(files)) |->
          LET env == Envelopes(files)[k] IN
          FlattenSeq([i \in 1..Len(env.msgs) |->
            IF env.msgs[i].type = "tick_size_change" THEN <<TickRow(env, i, env.msgs[i])>> ELSE << >>])])

\* The ticks of every market-socket file in the manifest that no published
\* file holds yet.
TickBackfillRows(opt) ==
    LET clob  == {f \in finalized : FileOf[f].src = "clob_market_ws"}
        envs  == Envelopes(ByClosing(clob))
        have  == {r.id : r \in {x \in DOMAIN parquet : x.ds = "tick_size_changes"}}
        ticks(env) == IF env.form \notin {"object", "list"} THEN << >>
                      ELSE FlattenSeq([i \in 1..Len(env.msgs) |->
                             IF /\ env.msgs[i].type = "tick_size_change"
                                /\ env.msgs[i].bad = "no"
                                /\ TickRow(env, i, env.msgs[i]).id \notin have
                             THEN <<TickRow(env, i, env.msgs[i])>> ELSE << >>])
    IN  FlattenSeq([k \in 1..Len(envs) |-> ticks(envs[k])])

-----------------------------------------------------------------------------
(* What a batch publishes. *)

\* Later markets, outcomes and ticks replace earlier ones; of equal trades
\* the first is kept.
Deduplicated(rows) ==
    LET replaced(k) == \E l \in k+1..Len(rows) : /\ rows[l].ds = rows[k].ds
                                                 /\ rows[l].id = rows[k].id
        repeated(k) == \E l \in 1..k-1 : rows[l].ds = "trades" /\ rows[l].id = rows[k].id
        kept(k) == CASE rows[k].ds \in {"markets", "market_outcomes", "tick_size_changes"} -> ~replaced(k)
                     [] rows[k].ds = "trades" -> ~repeated(k)
                     [] OTHER -> TRUE
    IN  {rows[k] : k \in {j \in 1..Len(rows) : kept(j)}}

BatchRows(opt, files) ==
    Only({Deduplicated(rows) :
            rows \in {(IF tickDone THEN << >> ELSE TickBackfillRows(opt)) \o Parsed(files)}})

DatasetPartition(r) ==
    IF r.ds \in {"markets", "market_outcomes", "normalization_runs"} THEN <<r.ds, 0>>
    ELSE <<r.ds, r.at \div HourLength>>

\* One file per dataset and partition.
Groups(rows) ==
    {{r \in rows : DatasetPartition(r) = part} : part \in {DatasetPartition(r) : r \in rows}}

\* The file written next: the code follows the order of the first rows, the
\* model any fixed order.
NextGroup(groups) == CHOOSE g \in groups : TRUE

RunRow == [ds |-> "normalization_runs", key |-> <<"run", 0, 0>>, id |-> <<"run", 0, 0>>,
           token |-> "none", at |-> 0, seq |-> 0, tick |-> NoTick]

OneMore(bag, rows) ==
    [r \in DOMAIN bag \cup rows |-> IF r \in DOMAIN bag THEN (IF r \in rows THEN 2 ELSE bag[r]) ELSE 1]

-----------------------------------------------------------------------------
(* The chart cache. *)

ConditionOf(t) == CHOOSE c \in Conditions : t \in TokensOf[c]

Point(r) == [token |-> r.token, at |-> r.at, seq |-> r.seq]

SameBucket(p, q) == /\ p.token = q.token
                    /\ p.at \div BucketLength = q.at \div BucketLength

NotAfter(p, q) == p.at < q.at \/ (p.at = q.at /\ p.seq <= q.seq)

\* Faulty variant: the points merged last win whatever their time.
MergePointsByArrival(current, incoming) ==
    {p \in current : \A q \in incoming : ~SameBucket(p, q)} \cup
    {p \in incoming : \A q \in incoming : SameBucket(p, q) => NotAfter(q, p)}

\* One point per token and second: the latest by time and sequence.
MergePoints(current, incoming) ==
    {p \in current \cup incoming :
        \A q \in current \cup incoming : SameBucket(p, q) => NotAfter(q, p)}

\* A market's entry of the index, token by token.
IndexEntry(points) ==
    [t \in {p.token : p \in points} |->
        LET times == {p.at : p \in {q \in points : q.token = t}}
        IN  [count |-> Cardinality({q \in points : q.token = t}),
             first |-> Min(times), last |-> Max(times)]]

EmptyIndex == [c \in Conditions |-> IndexEntry({})]

NoRun == [pc |-> "idle", mode |-> "rows", files |-> << >>, batch |-> {}, groups |-> {}, top |-> {},
          conds |-> {}, entry |-> EmptyIndex, charts |-> {}, backfill |-> FALSE,
          opt |-> TimerOptions]

-----------------------------------------------------------------------------
NormalizerInit ==
    /\ finalized = Legacy
    /\ registry = [c \in Conditions |-> "active"]
    /\ processed = Legacy
    /\ checkpoints = {}
    /\ tickDone = FALSE
    /\ LET rows == {r \in Deduplicated(Parsed(ByClosing(Legacy))) :
                      r.ds # "tick_size_changes"}
           chart(c) == MergePoints({}, {Point(r) : r \in {x \in rows : /\ x.ds = "top_of_book"
                                                                      /\ ConditionOf(x.token) = c}})
       IN  /\ parquet = [r \in rows |-> 1]
           /\ listed = rows
           /\ series = [c \in Conditions |-> chart(c)]
           /\ index = [c \in Conditions |-> IndexEntry(chart(c))]
    /\ exported = {}
    /\ run = [p \in Procs |-> NoRun]
    /\ deaths = 0
    /\ overlap = FALSE

\* The timer or an operator starts a run.
StartRun(p, opt) ==
    /\ run[p].pc = "idle"
    /\ run' = [run EXCEPT ![p] = [NoRun EXCEPT !.pc = "begin", !.opt = opt]]
    /\ overlap' = (overlap \/ \E q \in Procs \ {p} : run[q].pc # "idle")
    /\ UNCHANGED <<finalized, registry, durable, deaths>>

\* Selection, parsing and deduplication, up to the first file written.  A
\* batch that is checkpointed already is answered with "already_normalized".
Read(p) ==
    /\ run[p].pc = "begin"
    /\ \E files \in {RawEntries(run[p].opt)} : \E rows \in {BatchRows(run[p].opt, files)} :
          run' = [run EXCEPT ![p] =
                    IF files # << >> /\ ToSet(files) \in checkpoints /\ tickDone
                    THEN NoRun
                    ELSE [NoRun EXCEPT !.pc = "publish", !.files = files, !.batch = ToSet(files),
                            !.groups = Groups(rows), !.backfill = ~tickDone,
                            !.top = {r \in rows : r.ds = "top_of_book"}]]
    /\ UNCHANGED <<finalized, registry, durable, deaths, overlap>>

\* _write_table: the temporary file is complete and replaces the target ...
Publish(p) ==
    /\ run[p].pc = "publish" /\ run[p].groups # {}
    /\ parquet' = OneMore(parquet, NextGroup(run[p].groups))
    /\ run' = [run EXCEPT ![p].pc = "list"]
    /\ UNCHANGED <<finalized, registry, processed, checkpoints, tickDone, listed, exported,
                   series, index, deaths, overlap>>

\* ... and then the manifest gets its entry.
AppendManifest(p) ==
    /\ run[p].pc = "list"
    /\ listed' = listed \cup NextGroup(run[p].groups)
    /\ run' = [run EXCEPT ![p].pc = "publish", ![p].groups = @ \ {NextGroup(@)}]
    /\ UNCHANGED <<finalized, registry, processed, checkpoints, tickDone, parquet, exported,
                   series, index, deaths, overlap>>

\* DashboardCacheWriter.update reads the index once, before any series.
ReadIndex(p) ==
    /\ run[p].pc = "publish" /\ run[p].groups = {}
    /\ run[p].mode \in {"rows", "reindex"} /\ run[p].top # {}
    /\ run' = [run EXCEPT ![p].pc = "series", ![p].entry = index,
                          ![p].conds = {ConditionOf(r.token) : r \in run[p].top}]
    /\ UNCHANGED <<finalized, registry, durable, deaths, overlap>>

\* A market's series is read and merged ...
ReadSeries(p) ==
    /\ run[p].pc = "series" /\ run[p].conds # {}
    /\ LET c == CHOOSE d \in run[p].conds : TRUE
           points == {Point(r) : r \in {x \in run[p].top : ConditionOf(x.token) = c}}
       IN  run' = [run EXCEPT ![p].pc = "replace",
                              ![p].charts = MergePoints(series[c], points)]
    /\ UNCHANGED <<finalized, registry, durable, deaths, overlap>>

\* ... and replaced.
WriteSeries(p) ==
    /\ run[p].pc = "replace"
    /\ LET c == CHOOSE d \in run[p].conds : TRUE
       IN  /\ series' = [series EXCEPT ![c] = run[p].charts]
           /\ run' = [run EXCEPT ![p] =
                        [run[p] EXCEPT !.pc = "series", !.conds = run[p].conds \ {c}, !.charts = {},
                                       !.entry = [run[p].entry EXCEPT ![c] = IndexEntry(run[p].charts)]]]
    /\ UNCHANGED <<finalized, registry, processed, checkpoints, tickDone, parquet, listed,
                   exported, index, deaths, overlap>>

\* The index is replaced last; a run goes on to its own row.
WriteIndex(p) ==
    /\ run[p].pc = "series" /\ run[p].conds = {}
    /\ index' = run[p].entry
    /\ run' = IF run[p].mode = "reindex" THEN [run EXCEPT ![p] = NoRun]
              ELSE [run EXCEPT ![p].pc = "publish", ![p].mode = "run", ![p].groups = {{RunRow}},
                               ![p].entry = EmptyIndex, ![p].top = {}]
    /\ UNCHANGED <<finalized, registry, processed, checkpoints, tickDone, parquet, listed,
                   exported, series, deaths, overlap>>

\* Without a top-of-book row the cache is left alone.
SkipCache(p) ==
    /\ run[p].pc = "publish" /\ run[p].groups = {}
    /\ run[p].mode = "rows" /\ run[p].top = {}
    /\ run' = [run EXCEPT ![p].mode = "run", ![p].groups = {{RunRow}}]
    /\ UNCHANGED <<finalized, registry, durable, deaths, overlap>>

\* Rows, chart cache and the run's own row are out.
Written(p) == run[p].pc = "publish" /\ run[p].mode = "run" /\ run[p].groups = {}

\* Faulty variant: the batch is checkpointed before its files are marked.
MarkFileAfterCheckpoint(p) ==
    /\ Written(p) /\ run[p].files # << >>
    /\ checkpoints' = checkpoints \cup {run[p].batch}
    /\ processed' = IF run[p].batch \in checkpoints
                    THEN processed \cup {Head(run[p].files)} ELSE processed
    /\ run' = IF run[p].batch \in checkpoints
              THEN [run EXCEPT ![p].files = Tail(@)] ELSE run
    /\ UNCHANGED <<finalized, registry, tickDone, parquet, listed, exported,
                   series, index, deaths, overlap>>

\* mark_raw_file_processed commits file after file.
MarkFile(p) ==
    /\ Written(p) /\ run[p].files # << >>
    /\ processed' = processed \cup {Head(run[p].files)}
    /\ run' = [run EXCEPT ![p].files = Tail(@)]
    /\ UNCHANGED <<finalized, registry, checkpoints, tickDone, parquet, listed, exported,
                   series, index, deaths, overlap>>

CheckpointBatch(p) ==
    /\ Written(p) /\ run[p].files = << >>
    /\ checkpoints' = IF run[p].batch = {} THEN checkpoints ELSE checkpoints \cup {run[p].batch}
    /\ run' = [run EXCEPT ![p].pc = "export"]
    /\ UNCHANGED <<finalized, registry, processed, tickDone, parquet, listed, exported,
                   series, index, deaths, overlap>>

ExportManifest(p) ==
    /\ run[p].pc = "export"
    /\ exported' = listed
    /\ run' = [run EXCEPT ![p] = IF run[p].backfill THEN [@ EXCEPT !.pc = "migrate"] ELSE NoRun]
    /\ UNCHANGED <<finalized, registry, processed, checkpoints, tickDone, parquet, listed,
                   series, index, deaths, overlap>>

CheckpointTicks(p) ==
    /\ run[p].pc = "migrate"
    /\ tickDone' = TRUE
    /\ run' = [run EXCEPT ![p] = NoRun]
    /\ UNCHANGED <<finalized, registry, processed, checkpoints, parquet, listed, exported,
                   series, index, deaths, overlap>>

\* dashboard-reindex: every published top-of-book row is merged again.  The
\* files it reads one by one are one update here: merging is associative.
Reindex(p) ==
    LET top == {r \in DOMAIN parquet : r.ds = "top_of_book"}
    IN  /\ run[p].pc = "idle" /\ top # {}
        /\ run' = [run EXCEPT ![p] = [NoRun EXCEPT !.pc = "publish", !.mode = "reindex", !.top = top]]
        /\ overlap' = (overlap \/ \E q \in Procs \ {p} : run[q].pc # "idle")
        /\ UNCHANGED <<finalized, registry, durable, deaths>>

\* A run dies: what it wrote stays.
RunDies(p) ==
    /\ run[p].pc # "idle"
    /\ deaths < MaxDeaths
    /\ deaths' = deaths + 1
    /\ run' = [run EXCEPT ![p] = NoRun]
    /\ UNCHANGED <<finalized, registry, durable, overlap>>

\* The collector finalizes its files in the order it closes them.
FinalizeRaw ==
    /\ \E f \in Files \ finalized :
          /\ \A g \in Files \ finalized : ~Earlier(g, f)
          /\ finalized' = finalized \cup {f}
    /\ UNCHANGED <<registry, durable, run, deaths, overlap>>

\* Discovery sees a market it knows with active = false.
Deactivate ==
    /\ \E c \in Conditions : /\ registry[c] = "active"
                             /\ registry' = [registry EXCEPT ![c] = "inactive"]
    /\ UNCHANGED <<finalized, durable, run, deaths, overlap>>

Step(p) ==
    \/ Publish(p) \/ AppendManifest(p)
    \/ ReadIndex(p) \/ ReadSeries(p) \/ WriteSeries(p) \/ WriteIndex(p) \/ SkipCache(p)
    \/ MarkFile(p) \/ CheckpointBatch(p) \/ ExportManifest(p) \/ CheckpointTicks(p)

NormalizerNext ==
    \/ \E p \in Procs : \/ \E opt \in Options : StartRun(p, opt)
                        \/ Read(p)
                        \/ Step(p)
                        \/ Reindex(p)
                        \/ RunDies(p)
    \/ FinalizeRaw
    \/ Deactivate

\* The timer starts a run again and again, whatever operators run in between,
\* and a run that is under way goes on.  (Read is enabled as long as a run has
\* yet to read; its fairness is stated without ENABLED, which TLC would
\* evaluate by parsing the batch in every state.)
NormalizerFairness ==
    /\ \A p \in Procs : WF_normalizerVars(Step(p))
    /\ \A p \in Procs : SF_normalizerVars(StartRun(p, TimerOptions))
    /\ \A p \in Procs : []<>(run[p].pc # "begin")

NormalizerSpec == NormalizerInit /\ [][NormalizerNext]_normalizerVars /\ NormalizerFairness

-----------------------------------------------------------------------------
(* Properties. *)

\* Every file's envelopes and messages, by the key of the rows they lead to.
MessagesOf(f) ==
    UNION {LET env == FileOf[f].envelopes[k]
           IN  {<<env, i>> : i \in 1..Len(env.msgs)} : k \in 1..Len(FileOf[f].envelopes)}

Published(ds, id) == \E r \in DOMAIN parquet : r.ds = ds /\ r.id = id

\* The rows of one message that are published, in whatever dataset; an
\* error of the whole envelope stands for each of its messages.
LeftATrace(env, i) ==
    \E r \in DOMAIN parquet : r.key[1] = env.id /\ r.key[2] \in {0, i}

\* Nothing disappears between the raw archive and the datasets: once
\* mark_raw_file_processed has recorded a file, every message in it has left a
\* row in a published Parquet file, its own or a quality row saying why not,
\* except those that are meant to leave none and reports of a trade that another
\* message has reported.  No later run looks at the file again, so a message
\* lost here is lost for good.
ProcessedIsAccountedFor ==
    \A f \in processed : \A m \in MessagesOf(f) :
        LET message == m[1].msgs[m[2]] IN
        \/ Silent(m[1], m[2])
        \/ f \in Legacy /\ message.type = "tick_size_change"
        \/ LeftATrace(m[1], m[2])
        \/ message.type = "last_trade_price" /\ Published("trades", <<"trade", message.trade>>)

\* The tick migration leaves no gap: once its checkpoint is written, every
\* tick-size change of a processed file is published, of the files
\* normalized before the dataset existed as well.
TicksAreComplete ==
    tickDone => \A f \in processed : \A m \in MessagesOf(f) :
        (m[1].msgs[m[2]].type = "tick_size_change" /\ m[1].msgs[m[2]].bad = "no")
            => Published("tick_size_changes", <<m[1].id, m[2], 0>>)

\* Repeated activations advance the backlog idempotently: as long as no run
\* died and no two overlapped, no part of a raw message is published twice in
\* a dataset.  (Ticks are left out: the migration reads files that are still
\* to be normalized.)
PublishedOnce ==
    (deaths = 0 /\ ~overlap) =>
        \A r \in DOMAIN parquet :
            \/ r.ds \in {"tick_size_changes", "normalization_runs"}
            \/ /\ parquet[r] = 1
               /\ \A s \in DOMAIN parquet : (s.ds = r.ds /\ s.key = r.key) => s = r

TopRowsOf(f) ==
    {r \in DOMAIN parquet : r.ds = "top_of_book"
        /\ \E k \in 1..Len(FileOf[f].envelopes) : FileOf[f].envelopes[k].id = r.key[1]}

\* The chart retains the last observation of each token and second: whatever
\* order the files came in and wherever runs died, no published row of a
\* processed file is later than the point of its second, every point is a
\* published row, and once all is processed the index describes the series.
\* Excluded, because the code breaks it there: two runs that overlapped, and a
\* market that was deactivated (a run that died before it updated the chart is
\* repeated without that market's mapping, and no row reaches the chart).
ChartIsLatest ==
    ~overlap => \A c \in {d \in Conditions : registry[d] = "active"} :
        /\ \A f \in processed : \A r \in TopRowsOf(f) :
              ConditionOf(r.token) = c =>
                  \E q \in series[c] : SameBucket(Point(r), q) /\ NotAfter(Point(r), q)
        /\ \A q \in series[c] :
              \E r \in DOMAIN parquet : r.ds = "top_of_book" /\ Point(r) = q
        /\ (finalized \subseteq processed /\ \A p \in Procs : run[p].pc = "idle")
              => index[c] = IndexEntry(series[c])

\* The timer works off the backlog: again and again every finalized file has
\* been normalized, newest first or not, though runs die after any of their
\* steps and batches are checkpointed.
EveryFileIsNormalized == []<>(finalized \subseteq processed)
=============================================================================
