------------------------ MODULE BacktestServiceProofs ------------------------
(***************************************************************************)
(* Proofs about BacktestService: a tape in the cache or being replayed is  *)
(* one publication, the one on disk, and no ready tape fails to load.      *)
(*                                                                         *)
(* This rests on two arguments, which the invariant joins: the publisher   *)
(* never writes to an episode whose marker is current, so what is on disk  *)
(* behind a current marker is one build for good; and the service only     *)
(* takes up episodes whose marker was current when it selected them, so    *)
(* each of load_tape's reads finds that build.                             *)
(***************************************************************************)
EXTENDS BacktestService, SequenceTheorems, FiniteSetTheorems, WellFoundedInduction, TLAPS

\* The refresh is never run with --rebuild: then the files of an episode that
\* is being replayed may be replaced, and the theorem would not hold.
NeverRebuilt == TRUE \notin Overwrites

-----------------------------------------------------------------------------
(* The inductive invariant *)

Files == [version : {"none", "building", "current"}, metadata : Nat, tape : Nat, trades : Nat]
Tapes == [episode : Nat, metadata : Nat, scalars : Nat, trades : Nat, ladders : Nat]
Jobs == [request : Requests, state : {"queued", "running", "succeeded", "failed"},
         total : Nat, completed : Nat, error : {"none", "load", "run", "row"}]
Loading == {"metadata", "tape", "trades", "ladders", "insert"}
Replaying == {"replay", "row"}

ServiceTypes ==
  /\ index \in [mtime : Nat, eligible : SUBSET Episodes]
  /\ files \in [Episodes -> Files]
  /\ refresh \in [stage : {"idle", "next"} \cup DOMAIN FileAfter, todo : SUBSET Episodes,
                  overwrite : BOOLEAN]
  /\ builds \in Nat
  /\ cache \in Seq(Tapes)
  /\ jobs \in Seq(Jobs)
  /\ queue \in Seq(Nat)
  /\ worker \in [stage : {"idle", "get", "report"} \cup Loading \cup Replaying, job : Nat,
                 todo : SUBSET Episodes, tape : Tapes, decoded : BOOLEAN, lookups : Nat]

\* The three files of an episode are one build and none is missing.
OneBuild(f) == f.metadata # Missing /\ f.tape = f.metadata /\ f.trades = f.metadata

\* Behind a current marker are the files of one build.
MarkersAreTrue == \A e \in Episodes : files[e].version = "current" => OneBuild(files[e])

\* The episode being published is not one that is ready; its marker says so
\* from the moment the first file is replaced, and the files replaced since
\* are of this build.
PublisherOK ==
  /\ ~refresh.overwrite
  /\ refresh.stage \in DOMAIN FileAfter =>
       /\ builds # Missing
       /\ \A e \in Episodes : InTurn(e) =>
            LET f == files[e] IN
            /\ refresh.stage = "marker" => f.version # "current"
            /\ refresh.stage # "marker" => f.version = "building"
            /\ refresh.stage \in {"trades", "metadata"} => f.tape = builds
            /\ refresh.stage = "metadata" => f.trades = builds

\* As in TapesInUseAreWhole.
Whole(t) ==
  LET f == files[t.episode]
  IN  /\ f.version = "current"
      /\ {t.metadata, t.scalars, t.trades, t.ladders, f.tape, f.trades} = {f.metadata}

CacheOK == \A i \in DOMAIN cache : cache[i].episode \in Episodes /\ Whole(cache[i])

\* The episodes still to be replayed were ready and are; the parts of the tape
\* read so far are those on disk.
WorkerOK ==
  /\ \A e \in worker.todo : files[e].version = "current"
  /\ worker.stage \in Loading \cup Replaying =>
       /\ worker.todo # {} /\ worker.tape.episode = Episode
       /\ LET f == files[Episode] IN
          /\ worker.stage \in Loading \ {"metadata"} => worker.tape.metadata = f.metadata
          /\ worker.stage \in {"trades", "ladders", "insert"} => worker.tape.scalars = f.tape
          /\ worker.stage \in {"ladders", "insert"} => worker.tape.trades = f.trades
          /\ worker.stage \in {"insert"} \cup Replaying => Whole(worker.tape)

JobsOK == \A j \in DOMAIN jobs : jobs[j].error # "load"

SInv == ServiceTypes /\ MarkersAreTrue /\ PublisherOK /\ CacheOK /\ WorkerOK /\ JobsOK

-----------------------------------------------------------------------------
(* Facts about the operators *)

LessThan == {pair \in Nat \X Nat : pair[1] < pair[2]}

LEMMA LessThanWellFounded == IsWellFoundedOn(LessThan, Nat)
BY NatLessThanWellFounded, SMT DEF OpToRel, LessThan

\* Min is the least element of any set of naturals that has one.
LEMMA MinIsLeast ==
  ASSUME NEW S \in SUBSET Nat, S # {}
  PROVE  Min(S) \in S /\ \A n \in S : Min(S) <= n
<1>1. PICK m \in S : \A n \in S : <<n, m>> \notin LessThan
  BY LessThanWellFounded, WFMin
<1>2. ASSUME NEW n \in S PROVE m <= n
  <2>1. <<n, m>> \in Nat \X Nat /\ <<n, m>> \notin LessThan
    BY <1>1
  <2>2. ~(n < m)
    BY <2>1 DEF LessThan
  <2>3. QED
    BY <2>2
<1>3. \E x \in S : \A y \in S : x <= y
  BY <1>2
<1>4. QED
  BY <1>3 DEF Min

\* What a sequence without its i-th element holds, it held.
LEMMA RemoveAtKeeps ==
  ASSUME NEW S, NEW s \in Seq(S), NEW i \in 1 .. Len(s)
  PROVE  /\ RemoveAt(s, i) \in Seq(S)
         /\ \A k \in DOMAIN RemoveAt(s, i) : \E j \in DOMAIN s : RemoveAt(s, i)[k] = s[j]
<1> DEFINE before == SubSeq(s, 1, i - 1)
           after == SubSeq(s, i + 1, Len(s))
<1>1. Len(s) \in Nat /\ DOMAIN s = 1 .. Len(s)
  BY LenProperties
<1>2. /\ before \in Seq(S) /\ Len(before) = i - 1
      /\ \A k \in 1 .. Len(before) : before[k] = s[k]
  BY <1>1, SubSeqProperties
<1>3. /\ after \in Seq(S) /\ Len(after) = Len(s) - i
      /\ \A k \in 1 .. Len(after) : after[k] = s[i + k]
  <2>1. i + 1 \in Int /\ Len(s) \in Int /\ \A k \in i + 1 .. Len(s) : s[k] \in S
    BY <1>1
  <2>2. /\ after \in Seq(S)
        /\ Len(after) = IF i + 1 <= Len(s) THEN Len(s) - (i + 1) + 1 ELSE 0
        /\ \A k \in 1 .. Len(s) - (i + 1) + 1 : after[k] = s[i + 1 + k - 1]
    BY <2>1, SubSeqProperties
  <2> HIDE DEF after
  <2>3. Len(after) = Len(s) - i
    BY <1>1, <2>2
  <2>4. ASSUME NEW k \in 1 .. Len(after) PROVE after[k] = s[i + k]
    <3>1. k \in 1 .. Len(s) - (i + 1) + 1 /\ i + 1 + k - 1 = i + k
      BY <1>1, <2>3
    <3>2. QED
      BY <2>2, <3>1
  <2>5. QED
    BY <2>2, <2>3, <2>4
<1>4. RemoveAt(s, i) = before \o after
  BY DEF RemoveAt
<1> HIDE DEF before, after
<1>5. /\ before \o after \in Seq(S) /\ Len(before \o after) = Len(before) + Len(after)
      /\ \A k \in 1 .. Len(before) + Len(after) :
           (before \o after)[k] = IF k <= Len(before) THEN before[k] ELSE after[k - Len(before)]
  BY <1>2, <1>3, ConcatProperties
<1>6. DOMAIN (before \o after) = 1 .. Len(before) + Len(after)
  BY <1>5, LenProperties
<1>7. ASSUME NEW k \in 1 .. Len(before) + Len(after)
      PROVE  \E j \in DOMAIN s : (before \o after)[k] = s[j]
  <2>1. CASE k <= Len(before)
    <3>1. k \in 1 .. Len(before) /\ k \in 1 .. Len(s)
      BY <1>1, <1>2, <2>1
    <3>2. (before \o after)[k] = s[k]
      BY <1>2, <1>5, <2>1, <3>1
    <3>3. QED
      BY <1>1, <3>1, <3>2
  <2>2. CASE k > Len(before)
    <3>1. k - Len(before) \in 1 .. Len(after) /\ i + (k - Len(before)) \in 1 .. Len(s)
      BY <1>1, <1>2, <1>3, <2>2
    <3>2. (before \o after)[k] = after[k - Len(before)]
      BY <1>2, <1>5, <2>2
    <3>3. (before \o after)[k] = s[i + (k - Len(before))]
      BY <1>3, <3>1, <3>2
    <3>4. QED
      BY <1>1, <3>1, <3>3
  <2>3. QED
    BY <1>2, <1>3, <2>1, <2>2
<1>8. QED
  BY <1>4, <1>5, <1>6, <1>7

\* Eviction keeps a final part of the cache.
LEMMA EvictedKeeps ==
  ASSUME NEW entries \in Seq(Tapes), entries # <<>>
  PROVE  /\ Evicted(entries) \in Seq(Tapes)
         /\ \A i \in DOMAIN Evicted(entries) : \E j \in DOMAIN entries : Evicted(entries)[i] = entries[j]
<1> DEFINE Fits == {k \in DOMAIN entries :
                      k = Len(entries) \/ Weight(SubSeq(entries, k, Len(entries))) <= Budget}
           first == Min(Fits)
<1>1. Len(entries) \in Nat \ {0} /\ DOMAIN entries = 1 .. Len(entries)
  BY LenProperties, EmptySeq
<1>2. Len(entries) \in Fits /\ Fits \in SUBSET Nat
  BY <1>1
<1>3. first \in 1 .. Len(entries)
  BY <1>1, <1>2, MinIsLeast
<1>4. Evicted(entries) = SubSeq(entries, first, Len(entries))
  BY DEF Evicted
<1> HIDE DEF first
<1>5. /\ SubSeq(entries, first, Len(entries)) \in Seq(Tapes)
      /\ Len(SubSeq(entries, first, Len(entries))) = Len(entries) - first + 1
      /\ \A i \in 1 .. Len(entries) - first + 1 :
           SubSeq(entries, first, Len(entries))[i] = entries[first + i - 1]
  BY <1>1, <1>3, SubSeqProperties
<1>6. DOMAIN SubSeq(entries, first, Len(entries)) = 1 .. Len(entries) - first + 1
  BY <1>5, LenProperties
<1>7. \A i \in 1 .. Len(entries) - first + 1 : first + i - 1 \in DOMAIN entries
  BY <1>1, <1>3
<1>8. QED
  BY <1>4, <1>5, <1>6, <1>7

\* What is appended to a sequence is all that is new in it.
LEMMA AppendKeeps ==
  ASSUME NEW S, NEW s \in Seq(S), NEW e \in S
  PROVE  /\ Append(s, e) \in Seq(S) /\ Append(s, e) # <<>>
         /\ \A i \in DOMAIN Append(s, e) : Append(s, e)[i] = e \/ \E j \in DOMAIN s : Append(s, e)[i] = s[j]
<1>1. /\ Append(s, e) \in Seq(S) /\ Append(s, e) # <<>> /\ Len(Append(s, e)) = Len(s) + 1
      /\ \A i \in 1 .. Len(s) : Append(s, e)[i] = s[i]
      /\ Append(s, e)[Len(s) + 1] = e
  BY AppendProperties
<1>2. DOMAIN Append(s, e) = 1 .. Len(s) + 1 /\ DOMAIN s = 1 .. Len(s) /\ Len(s) \in Nat
  BY <1>1, LenProperties
<1>3. QED
  BY <1>1, <1>2

\* Every episode selected is ready.
LEMMA SelectedAreReady ==
  ASSUME SInv, NEW r
  PROVE  /\ Selected(r) \in SUBSET Episodes /\ Cardinality(Selected(r)) \in Nat
         /\ \A e \in Selected(r) : files[e].version = "current"
<1>1. /\ Selected(r) \in SUBSET Episodes
      /\ \A e \in Selected(r) : files[e].version = "current"
  BY DEF SInv, ServiceTypes, Selected, Newest, IsBuilt
<1>2. IsFiniteSet(Episodes)
  BY ServiceAssumption, FS_Interval DEF Episodes
<1>3. QED
  BY <1>1, <1>2, FS_Subset, FS_CardinalityType

\* The episode replayed next is one of those to be replayed.
LEMMA EpisodeIsNext ==
  ASSUME SInv, worker.todo # {}
  PROVE  Episode \in worker.todo /\ Episode \in Episodes
<1>1. worker.todo \in SUBSET Nat
  BY DEF SInv, ServiceTypes, Episodes
<1>2. QED
  BY <1>1, MinIsLeast DEF Episode, SInv, ServiceTypes

-----------------------------------------------------------------------------
(* The refresh *)

\* No step of the refresh changes the files of a ready episode.
KeepsReady == \A e \in Episodes : files[e].version = "current" => files'[e] = files[e]

\* The service's part of the invariant survives a step of the refresh.
LEMMA ServiceFrame ==
  ASSUME SInv, ServiceTypes', KeepsReady, UNCHANGED service
  PROVE  CacheOK' /\ WorkerOK' /\ JobsOK'
<1> USE DEF service
<1>1. CacheOK'
  BY DEF SInv, ServiceTypes, CacheOK, Whole, KeepsReady
<1>2. WorkerOK'
  <2>1. \A e \in worker.todo : files'[e] = files[e]
    BY DEF SInv, ServiceTypes, WorkerOK, KeepsReady
  <2>2. Episode' = Episode
    BY DEF Episode
  <2>3. worker.todo # {} => files'[Episode] = files[Episode]
    BY <2>1, EpisodeIsNext
  <2>4. QED
    BY <2>1, <2>2, <2>3 DEF SInv, WorkerOK, Whole
<1>3. JobsOK'
  BY DEF SInv, JobsOK
<1>4. QED
  BY <1>1, <1>2, <1>3

LEMMA FileAfterIs ==
  /\ DOMAIN FileAfter = {"marker", "tape", "trades", "metadata"}
  /\ FileAfter["marker"] = "tape" /\ FileAfter["tape"] = "trades"
  /\ FileAfter["trades"] = "metadata" /\ FileAfter["metadata"] = "next"
BY DEF FileAfter

\* One file of the episode in turn is replaced.
LEMMA PublishStep ==
  ASSUME SInv, NEW e \in Episodes, Publish(e)
  PROVE  SInv'
<1> USE DEF service
<1> DEFINE f == files[e]
           g == files'[e]
<1>1. /\ refresh.stage \in {"marker", "tape", "trades", "metadata"} /\ InTurn(e)
      /\ UNCHANGED <<index, builds, service>> /\ builds \in Nat \ {0} /\ ~refresh.overwrite
  BY FileAfterIs DEF SInv, PublisherOK, Publish, ServiceTypes, Missing
<1>2. f \in Files /\ files \in [Episodes -> Files]
  BY DEF SInv, ServiceTypes
<1>3. /\ refresh.stage = "marker" => f.version # "current"
      /\ refresh.stage # "marker" => f.version = "building"
      /\ refresh.stage \in {"trades", "metadata"} => f.tape = builds
      /\ refresh.stage = "metadata" => f.trades = builds
  BY <1>1, FileAfterIs DEF SInv, PublisherOK
<1>4. /\ files' \in [Episodes -> Files] /\ \A o \in Episodes \ {e} : files'[o] = files[o]
      /\ refresh.stage # "metadata" => g.version = "building"
      /\ refresh.stage = "metadata" => g.version = "current" /\ g.metadata = builds
      /\ refresh.stage = "tape" => g.tape = builds
      /\ refresh.stage \in {"trades", "metadata"} => g.tape = f.tape
      /\ refresh.stage = "trades" => g.trades = builds
      /\ refresh.stage = "metadata" => g.trades = f.trades
  <2>1. CASE refresh.stage = "marker"
    <3>1. files' = [files EXCEPT ![e].version = "building", ![e].metadata = Missing]
      BY <2>1 DEF Publish, Replaced
    <3>2. QED
      BY <1>1, <1>2, <2>1, <3>1 DEF Files, Missing
  <2>2. CASE refresh.stage = "tape"
    <3>1. files' = [files EXCEPT ![e].tape = builds]
      BY <2>2 DEF Publish, Replaced
    <3>2. QED
      BY <1>1, <1>2, <1>3, <2>2, <3>1 DEF Files
  <2>3. CASE refresh.stage = "trades"
    <3>1. files' = [files EXCEPT ![e].trades = builds]
      BY <2>3 DEF Publish, Replaced
    <3>2. QED
      BY <1>1, <1>2, <1>3, <2>3, <3>1 DEF Files
  <2>4. CASE refresh.stage = "metadata"
    <3>1. files' = [files EXCEPT ![e].version = "current", ![e].metadata = builds]
      BY <2>4 DEF Publish, Replaced
    <3>2. QED
      BY <1>1, <1>2, <2>4, <3>1 DEF Files
  <2>5. QED
    BY <1>1, <2>1, <2>2, <2>3, <2>4
<1>5. /\ refresh'.stage = FileAfter[refresh.stage]
      /\ refresh'.todo = IF refresh.stage = "metadata" THEN refresh.todo \ {e} ELSE refresh.todo
      /\ refresh' \in [stage : {"idle", "next"} \cup DOMAIN FileAfter, todo : SUBSET Episodes,
                       overwrite : BOOLEAN]
      /\ refresh'.overwrite = refresh.overwrite
  BY <1>1, FileAfterIs DEF SInv, ServiceTypes, Publish
<1>6. ServiceTypes'
  BY <1>1, <1>4, <1>5 DEF SInv, ServiceTypes
<1>7. KeepsReady
  BY <1>3, <1>4 DEF KeepsReady
<1>8. MarkersAreTrue'
  <2>1. g.version = "current" => OneBuild(g)
    BY <1>1, <1>3, <1>4 DEF OneBuild, Missing
  <2>2. QED
    BY <1>4, <2>1 DEF SInv, MarkersAreTrue, OneBuild
<1>9. PublisherOK'
  <2>1. CASE refresh.stage = "metadata"
    BY <1>1, <1>5, <2>1, FileAfterIs DEF PublisherOK
  <2>2. CASE refresh.stage # "metadata"
    <3>1. \A o \in Episodes : InTurn(o)' => o = e
      BY <1>1, <1>5, <2>2 DEF InTurn, Episodes
    <3>2. QED
      BY <1>1, <1>3, <1>4, <1>5, <2>2, <3>1, FileAfterIs DEF PublisherOK, Missing
  <2>3. QED
    BY <2>1, <2>2
<1>10. QED
  BY <1>1, <1>6, <1>7, <1>8, <1>9, ServiceFrame DEF SInv

\* The other steps of the refresh touch no tape.
LEMMA RefreshStep ==
  ASSUME SInv, NeverRebuilt, Refresh
  PROVE  SInv'
<1> USE DEF service
<1>1. CASE files' = files /\ UNCHANGED service /\ ServiceTypes' /\ PublisherOK'
  BY <1>1, ServiceFrame DEF SInv, MarkersAreTrue, KeepsReady
<1>2. ASSUME NEW eligible \in Indexes, NEW todo \in {{}, eligible}, NEW overwrite \in Overwrites,
             WriteIndex(eligible, todo, overwrite)
      PROVE  SInv'
  <2>1. eligible \in SUBSET Episodes /\ overwrite = FALSE /\ todo \in SUBSET Episodes
    BY <1>2, ServiceAssumption DEF NeverRebuilt
  <2>2. index' \in [mtime : Nat, eligible : SUBSET Episodes]
    BY <1>2, <2>1 DEF SInv, ServiceTypes, WriteIndex
  <2>3. /\ refresh' \in [stage : {"idle", "next"} \cup DOMAIN FileAfter, todo : SUBSET Episodes,
                          overwrite : BOOLEAN]
        /\ refresh'.stage = "next" /\ ~refresh'.overwrite
    BY <1>2, <2>1 DEF WriteIndex
  <2>4. ServiceTypes'
    BY <1>2, <2>2, <2>3 DEF SInv, ServiceTypes, WriteIndex
  <2>5. PublisherOK'
    BY <2>3, FileAfterIs DEF PublisherOK
  <2>6. QED
    BY <1>1, <1>2, <2>4, <2>5 DEF WriteIndex
<1>3. ASSUME NEW e \in Episodes, SkipEpisode(e)
      PROVE  SInv'
  <2>1. ServiceTypes' /\ PublisherOK'
    BY <1>3, FileAfterIs DEF SInv, ServiceTypes, PublisherOK, SkipEpisode
  <2>2. QED
    BY <1>1, <1>3, <2>1 DEF SkipEpisode
<1>4. ASSUME NEW e \in Episodes, MakeTape(e)
      PROVE  SInv'
  <2>1. ServiceTypes' /\ builds' # Missing
    <3>1. builds' \in Nat /\ builds' # Missing
      BY <1>4 DEF SInv, ServiceTypes, MakeTape, Missing
    <3>2. refresh' \in [stage : {"idle", "next"} \cup DOMAIN FileAfter, todo : SUBSET Episodes,
                        overwrite : BOOLEAN]
      BY <1>4, FileAfterIs DEF SInv, ServiceTypes, MakeTape
    <3>3. QED
      BY <1>4, <3>1, <3>2 DEF SInv, ServiceTypes, MakeTape
  <2>2. files[e].version # "current"
    BY <1>4 DEF SInv, ServiceTypes, MarkersAreTrue, OneBuild, MakeTape, IsBuilt, PublisherOK
  <2>3. /\ files' = files /\ refresh'.stage = "marker" /\ refresh'.todo = refresh.todo
        /\ refresh'.overwrite = refresh.overwrite /\ InTurn(e)
    BY <1>4 DEF MakeTape, SInv, ServiceTypes
  <2>4. \A o \in Episodes : InTurn(o)' => o = e
    BY <2>3 DEF InTurn, Episodes
  <2>5. PublisherOK'
    BY <2>1, <2>2, <2>3, <2>4 DEF SInv, PublisherOK
  <2>6. QED
    BY <1>1, <1>4, <2>1, <2>5 DEF MakeTape
<1>5. CASE RefreshEnds \/ RefreshDies
  <2>1. ServiceTypes' /\ PublisherOK'
    BY <1>5, FileAfterIs DEF SInv, ServiceTypes, PublisherOK, RefreshEnds, RefreshDies
  <2>2. QED
    BY <1>1, <1>5, <2>1 DEF RefreshEnds, RefreshDies
<1>6. QED
  BY <1>2, <1>3, <1>4, <1>5, PublishStep DEF Refresh

-----------------------------------------------------------------------------
(* The service *)

Workers == [stage : {"idle", "get", "report"} \cup Loading \cup Replaying, job : Nat,
            todo : SUBSET Episodes, tape : Tapes, decoded : BOOLEAN, lookups : Nat]

\* A step of the service changes nothing in the workspace.
LEMMA WorkspaceFrame ==
  ASSUME SInv, UNCHANGED workspace,
         cache' \in Seq(Tapes), jobs' \in Seq(Jobs), queue' \in Seq(Nat), worker' \in Workers,
         CacheOK', WorkerOK', JobsOK'
  PROVE  SInv'
<1> USE DEF workspace
<1>1. ServiceTypes'
  BY DEF SInv, ServiceTypes, Workers
<1>2. MarkersAreTrue' /\ PublisherOK'
  BY DEF SInv, MarkersAreTrue, PublisherOK, InTurn
<1>3. QED
  BY <1>1, <1>2 DEF SInv

\* Neither does what the worker knows of its tape change, as long as it stays
\* where it is.
LEMMA WorkerFrame ==
  ASSUME SInv, files' = files,
         worker'.stage = worker.stage, worker'.todo = worker.todo, worker'.tape = worker.tape
  PROVE  WorkerOK'
<1>1. Episode' = Episode
  BY DEF Episode
<1>2. QED
  BY <1>1 DEF SInv, WorkerOK, Whole

LEMMA CacheFrame ==
  ASSUME SInv, files' = files, cache' \in {cache, <<>>}
  PROVE  cache' \in Seq(Tapes) /\ CacheOK'
<1>1. CASE cache' = cache
  BY <1>1 DEF SInv, ServiceTypes, CacheOK, Whole
<1>2. CASE cache' = <<>>
  BY <1>2 DEF CacheOK
<1>3. QED
  BY <1>1, <1>2

\* Reading the index again may clear the cache, and take the decoded rows from
\* the tape being replayed.
LEMMA ReloadStep ==
  ASSUME SInv, Reload, files' = files
  PROVE  /\ cache' \in Seq(Tapes) /\ CacheOK'
         /\ worker' = WorkerAfterReload => worker' \in Workers /\ WorkerOK'
<1>1. cache' \in Seq(Tapes) /\ CacheOK'
  BY CacheFrame DEF Reload
<1>2. ASSUME worker' = WorkerAfterReload
      PROVE  /\ worker' \in Workers /\ worker'.stage = worker.stage
             /\ worker'.todo = worker.todo /\ worker'.tape = worker.tape
  BY <1>2 DEF WorkerAfterReload, Released, SInv, ServiceTypes, Workers
<1>3. QED
  BY <1>1, <1>2, WorkerFrame

LEMMA RequestStep ==
  ASSUME SInv, Request
  PROVE  SInv'
<1> USE DEF workspace
<1>1. ASSUME NEW r \in Requests, NEW expired \in SUBSET retained, Submit(r, expired)
      PROVE  SInv'
  <2> DEFINE new == [request |-> r, state |-> "queued", total |-> Cardinality(Selected(r)),
                     completed |-> 0, error |-> "none"]
  <2>1. new \in Jobs /\ new.error # "load"
    BY SelectedAreReady DEF Jobs
  <2>2. jobs' = Append(jobs, new) /\ jobs \in Seq(Jobs)
    BY <1>1 DEF Submit, SInv, ServiceTypes
  <2> HIDE DEF new
  <2>3. jobs' \in Seq(Jobs) /\ JobsOK'
    BY <2>1, <2>2, AppendKeeps DEF SInv, JobsOK
  <2>4. Len(jobs') \in Nat
    BY <2>3, LenProperties
  <2>5. queue' \in Seq(Nat)
    BY <1>1, <2>4, AppendProperties DEF Submit, SInv, ServiceTypes
  <2>6. UNCHANGED workspace /\ Reload /\ worker' = WorkerAfterReload
    BY <1>1 DEF Submit
  <2>7. QED
    BY <2>3, <2>5, <2>6, ReloadStep, WorkspaceFrame
<1>2. CASE Poll
  <2>1. /\ UNCHANGED workspace /\ Reload /\ worker' = WorkerAfterReload
        /\ UNCHANGED <<jobs, queue>>
    BY <1>2 DEF Poll
  <2>2. jobs' \in Seq(Jobs) /\ queue' \in Seq(Nat) /\ JobsOK'
    BY <2>1 DEF SInv, ServiceTypes, JobsOK
  <2>3. QED
    BY <2>1, <2>2, ReloadStep, WorkspaceFrame
<1>3. CASE Shutdown
  <2>1. UNCHANGED workspace /\ UNCHANGED <<cache, jobs, worker>> /\ queue' = <<>>
    BY <1>3 DEF Shutdown
  <2>2. jobs' \in Seq(Jobs) /\ queue' \in Seq(Nat) /\ JobsOK' /\ worker' \in Workers
    BY <2>1 DEF SInv, ServiceTypes, JobsOK, Workers
  <2>3. QED
    BY <2>1, <2>2, CacheFrame, WorkerFrame, WorkspaceFrame
<1>4. QED
  BY <1>1, <1>2, <1>3 DEF Request

-----------------------------------------------------------------------------
(* The worker *)

\* A job's entry changes in its state, its progress or its error.
LEMMA JobsUpdated ==
  ASSUME SInv, NEW j, NEW job,
         j \in DOMAIN jobs => job \in Jobs /\ job.error # "load",
         jobs' = [jobs EXCEPT ![j] = job]
  PROVE  jobs' \in Seq(Jobs) /\ JobsOK'
<1>1. jobs \in Seq(Jobs) /\ Len(jobs) \in Nat /\ DOMAIN jobs = 1 .. Len(jobs)
  BY LenProperties DEF SInv, ServiceTypes
<1>2. CASE j \in DOMAIN jobs
  <2>1. jobs' \in Seq(Jobs) /\ Len(jobs') = Len(jobs)
        /\ \A i \in 1 .. Len(jobs) : jobs'[i] = IF i = j THEN job ELSE jobs[i]
    BY <1>1, <1>2, ExceptSeq
  <2>2. DOMAIN jobs' = DOMAIN jobs
    BY <1>1, <2>1, LenProperties
  <2>3. QED
    BY <1>1, <2>1, <2>2 DEF SInv, JobsOK
<1>3. CASE j \notin DOMAIN jobs
  <2>1. jobs' = jobs
    BY <1>1, <1>3
  <2>2. QED
    BY <1>1, <2>1 DEF SInv, JobsOK
<1>4. QED
  BY <1>2, <1>3

\* A worker that is not at a tape has only its episodes to vouch for.
LEMMA NoTapeFrame ==
  ASSUME SInv, files' = files, worker'.stage \notin Loading \cup Replaying,
         \A e \in worker'.todo : files[e].version = "current"
  PROVE  WorkerOK'
BY DEF WorkerOK

LEMMA NoWorkIs ==
  /\ NoWork \in Workers /\ NoWork.stage = "idle" /\ NoWork.todo = {}
BY DEF NoWork, Workers, NoTape, Tapes, Missing

\* The end of a job that fails.
LEMMA FailsStep ==
  ASSUME SInv, NEW error \in {"run", "row"}, Fails(error)
  PROVE  SInv'
<1> USE DEF workspace
<1> DEFINE job == [jobs[worker.job] EXCEPT !.state = "failed", !.error = error]
<1>1. /\ jobs' = [jobs EXCEPT ![worker.job] = job]
      /\ UNCHANGED <<index, files, refresh, builds, crashes, cache, queue>> /\ worker' = NoWork
  BY DEF Fails
<1>2. ASSUME worker.job \in DOMAIN jobs
      PROVE  job \in Jobs /\ job.error # "load"
  <2>1. jobs[worker.job] \in Jobs
    BY <1>2, LenProperties DEF SInv, ServiceTypes
  <2>2. QED
    BY <2>1 DEF Jobs
<1> HIDE DEF job
<1>3. jobs' \in Seq(Jobs) /\ JobsOK'
  BY <1>1, <1>2, JobsUpdated
<1>4. WorkerOK'
  BY <1>1, NoWorkIs, NoTapeFrame DEF Loading, Replaying
<1>5. cache' \in Seq(Tapes) /\ CacheOK'
  BY <1>1, CacheFrame
<1>6. QED
  BY <1>1, <1>3, <1>4, <1>5, NoWorkIs, WorkspaceFrame DEF SInv, ServiceTypes

\* A job's entry where only its state or its progress changes.
LEMMA JobGoesOn ==
  ASSUME SInv, NEW state \in {"running", "succeeded"}, NEW j
  PROVE  /\ jobs' = [jobs EXCEPT ![j].state = state] => jobs' \in Seq(Jobs) /\ JobsOK'
         /\ jobs' = [jobs EXCEPT ![j].completed = @ + 1] => jobs' \in Seq(Jobs) /\ JobsOK'
         /\ jobs' = [jobs EXCEPT ![j].completed = jobs[j].total] => jobs' \in Seq(Jobs) /\ JobsOK'
<1>1. ASSUME j \in DOMAIN jobs
      PROVE  jobs[j] \in Jobs /\ jobs[j].error # "load"
  BY <1>1, LenProperties DEF SInv, ServiceTypes, JobsOK
<1>2. ASSUME jobs' = [jobs EXCEPT ![j].state = state]
      PROVE  jobs' \in Seq(Jobs) /\ JobsOK'
  <2> DEFINE job == [jobs[j] EXCEPT !.state = state]
  <2>1. j \in DOMAIN jobs => job \in Jobs /\ job.error # "load"
    BY <1>1 DEF Jobs
  <2>2. jobs' = [jobs EXCEPT ![j] = job]
    BY <1>2
  <2> HIDE DEF job
  <2>3. QED
    BY <2>1, <2>2, JobsUpdated
<1>3. ASSUME jobs' = [jobs EXCEPT ![j].completed = @ + 1]
      PROVE  jobs' \in Seq(Jobs) /\ JobsOK'
  <2> DEFINE job == [jobs[j] EXCEPT !.completed = @ + 1]
  <2>1. j \in DOMAIN jobs => job \in Jobs /\ job.error # "load"
    BY <1>1 DEF Jobs
  <2>2. jobs' = [jobs EXCEPT ![j] = job]
    BY <1>3
  <2> HIDE DEF job
  <2>3. QED
    BY <2>1, <2>2, JobsUpdated
<1>4. ASSUME jobs' = [jobs EXCEPT ![j].completed = jobs[j].total]
      PROVE  jobs' \in Seq(Jobs) /\ JobsOK'
  <2> DEFINE job == [jobs[j] EXCEPT !.completed = jobs[j].total]
  <2>1. j \in DOMAIN jobs => job \in Jobs /\ job.error # "load"
    BY <1>1 DEF Jobs
  <2>2. jobs' = [jobs EXCEPT ![j] = job]
    BY <1>4
  <2> HIDE DEF job
  <2>3. QED
    BY <2>1, <2>2, JobsUpdated
<1>5. QED
  BY <1>2, <1>3, <1>4

\* The worker starts a job with the episodes that are ready now.
LEMMA StartStep ==
  ASSUME SInv, Start
  PROVE  SInv'
<1> USE DEF workspace
<1> DEFINE request == jobs[Head(queue)].request
<1>1. UNCHANGED workspace /\ Reload
      /\ jobs' = [jobs EXCEPT ![Head(queue)].state = "running"]
      /\ queue \in Seq(Nat) /\ queue # <<>> /\ queue' = Tail(queue)
  BY DEF Start, SInv, ServiceTypes
<1>2. Head(queue) \in Nat /\ queue' \in Seq(Nat)
  BY <1>1, HeadTailProperties
<1>3. worker' = [NoWork EXCEPT !.stage = "get", !.job = Head(queue), !.todo = Selected(request)]
  BY DEF Start
<1>4. Selected(request) \in SUBSET Episodes
      /\ \A e \in Selected(request) : files[e].version = "current"
  BY SelectedAreReady
<1> HIDE DEF request
<1>5. worker' \in Workers /\ worker'.stage = "get" /\ worker'.todo = Selected(request)
  BY <1>2, <1>3, <1>4, NoWorkIs DEF Workers
<1>6. WorkerOK'
  BY <1>1, <1>4, <1>5, NoTapeFrame DEF Loading, Replaying
<1>7. jobs' \in Seq(Jobs) /\ JobsOK'
  BY <1>1, JobGoesOn
<1>8. cache' \in Seq(Tapes) /\ CacheOK'
  BY <1>1, ReloadStep
<1>9. QED
  BY <1>1, <1>2, <1>5, <1>6, <1>7, <1>8, WorkspaceFrame

\* A step that only moves the worker.
LEMMA OnlyWorker ==
  ASSUME SInv, UNCHANGED workspace, UNCHANGED <<cache, jobs, queue>>,
         worker' \in Workers, WorkerOK'
  PROVE  SInv'
<1>1. cache' \in Seq(Tapes) /\ CacheOK'
  BY CacheFrame DEF workspace
<1>2. jobs' \in Seq(Jobs) /\ queue' \in Seq(Nat) /\ JobsOK'
  BY DEF SInv, ServiceTypes, JobsOK
<1>3. QED
  BY <1>1, <1>2, WorkspaceFrame

\* A tape that is in the cache is handed out as it is.
LEMMA HitStep ==
  ASSUME SInv, Hit
  PROVE  SInv'
<1> USE DEF workspace
<1>1. PICK i \in DOMAIN cache :
        /\ cache[i].episode = Episode
        /\ cache' = Append(RemoveAt(cache, i), cache[i])
        /\ worker' = [Serves("replay") EXCEPT !.tape = cache[i]]
  BY DEF Hit
<1>2. UNCHANGED workspace /\ UNCHANGED <<jobs, queue>> /\ worker.todo # {}
  BY DEF Hit
<1>3. cache \in Seq(Tapes) /\ i \in 1 .. Len(cache) /\ cache[i] \in Tapes
      /\ cache[i].episode \in Episodes /\ Whole(cache[i])
  BY <1>1, LenProperties DEF SInv, ServiceTypes, CacheOK
<1>4. /\ RemoveAt(cache, i) \in Seq(Tapes)
      /\ \A k \in DOMAIN RemoveAt(cache, i) : \E j \in DOMAIN cache : RemoveAt(cache, i)[k] = cache[j]
  BY <1>3, RemoveAtKeeps
<1>5. /\ cache' \in Seq(Tapes)
      /\ \A k \in DOMAIN cache' : cache'[k] = cache[i] \/ \E j \in DOMAIN RemoveAt(cache, i) :
                                                            cache'[k] = RemoveAt(cache, i)[j]
  BY <1>1, <1>3, <1>4, AppendKeeps
<1>6. \A k \in DOMAIN cache' : \E j \in DOMAIN cache : cache'[k] = cache[j]
  BY <1>4, <1>5
<1>7. CacheOK'
  BY <1>2, <1>6 DEF SInv, CacheOK, Whole
<1>8. /\ worker' \in Workers /\ worker'.stage = "replay" /\ worker'.todo = worker.todo
      /\ worker'.tape = cache[i]
  BY <1>1, <1>3 DEF SInv, ServiceTypes, Workers, Serves, Replaying
<1>9. WorkerOK'
  <2>1. Episode' = Episode
    BY <1>8 DEF Episode
  <2>2. QED
    BY <1>1, <1>2, <1>3, <1>8, <2>1 DEF SInv, WorkerOK, Whole, Loading, Replaying
<1>10. jobs' \in Seq(Jobs) /\ queue' \in Seq(Nat) /\ JobsOK'
  BY <1>2 DEF SInv, ServiceTypes, JobsOK
<1>11. QED
  BY <1>2, <1>5, <1>7, <1>8, <1>9, <1>10, WorkspaceFrame

LEMMA MissStep ==
  ASSUME SInv, Miss
  PROVE  SInv'
<1> USE DEF workspace
<1> DEFINE tape == [NoTape EXCEPT !.episode = Episode]
<1>1. /\ worker.todo # {} /\ UNCHANGED workspace /\ UNCHANGED <<cache, jobs, queue>>
      /\ worker' = [Serves("metadata") EXCEPT !.tape = tape]
  BY DEF Miss
<1>2. Episode \in Episodes /\ Episode \in Nat
  BY <1>1, EpisodeIsNext DEF Episodes
<1>3. tape \in Tapes /\ tape.episode = Episode
  BY <1>2 DEF Tapes, NoTape, Missing
<1> HIDE DEF tape
<1>4. /\ worker' \in Workers /\ worker'.stage = "metadata" /\ worker'.todo = worker.todo
      /\ worker'.tape = tape
  BY <1>1, <1>3 DEF SInv, ServiceTypes, Workers, Serves, Loading
<1>5. WorkerOK'
  <2>1. Episode' = Episode
    BY <1>4 DEF Episode
  <2>2. QED
    BY <1>1, <1>3, <1>4, <2>1 DEF SInv, WorkerOK, Loading, Replaying
<1>6. QED
  BY <1>1, <1>4, <1>5, OnlyWorker

\* Each file read is the one behind the current marker; with the last of them
\* the tape is whole.
LEMMA ReadStep ==
  ASSUME SInv, Read
  PROVE  SInv'
<1> USE DEF workspace
<1> DEFINE f == files[Episode]
<1>1. /\ UNCHANGED workspace /\ UNCHANGED <<cache, jobs, queue>>
      /\ worker.stage \in {"metadata", "tape", "trades", "ladders"}
  BY DEF Read
<1>2. worker \in Workers /\ worker.todo # {} /\ worker.tape.episode = Episode /\ worker.tape \in Tapes
  BY <1>1 DEF SInv, ServiceTypes, Workers, WorkerOK, Loading
<1>3. Episode \in worker.todo /\ Episode \in Episodes
  BY <1>2, EpisodeIsNext
<1>4. f \in Files /\ f.version = "current" /\ OneBuild(f)
  BY <1>3 DEF SInv, ServiceTypes, WorkerOK, MarkersAreTrue
<1>5. /\ worker.stage # "metadata" => worker.tape.metadata = f.metadata
      /\ worker.stage \in {"trades", "ladders"} => worker.tape.scalars = f.tape
      /\ worker.stage = "ladders" => worker.tape.trades = f.trades
  BY <1>1 DEF SInv, WorkerOK, Loading
<1>6. ASSUME worker'.todo = worker.todo PROVE Episode' = Episode
  BY <1>6 DEF Episode
<1> HIDE DEF f
<1>7. CASE worker.stage = "metadata"
  <2>1. worker' = [Serves("tape") EXCEPT !.tape.metadata = f.metadata]
    BY <1>7 DEF Read, f
  <2>2. /\ worker' \in Workers /\ worker'.stage = "tape" /\ worker'.todo = worker.todo
        /\ worker'.tape.episode = Episode /\ worker'.tape.metadata = f.metadata
    BY <1>2, <1>4, <2>1 DEF Workers, Serves, Loading, Tapes, Files
  <2>3. WorkerOK'
    BY <1>1, <1>2, <1>6, <2>2 DEF SInv, WorkerOK, Loading, Replaying, f
  <2>4. QED
    BY <1>1, <2>2, <2>3, OnlyWorker
<1>8. CASE worker.stage = "tape"
  <2>1. worker' = [Serves("trades") EXCEPT !.tape.scalars = f.tape]
    BY <1>8 DEF Read, f
  <2>2. /\ worker' \in Workers /\ worker'.stage = "trades" /\ worker'.todo = worker.todo
        /\ worker'.tape.episode = Episode /\ worker'.tape.metadata = worker.tape.metadata
        /\ worker'.tape.scalars = f.tape
    BY <1>2, <1>4, <2>1 DEF Workers, Serves, Loading, Tapes, Files
  <2>3. WorkerOK'
    BY <1>1, <1>2, <1>5, <1>6, <1>8, <2>2 DEF SInv, WorkerOK, Loading, Replaying, f
  <2>4. QED
    BY <1>1, <2>2, <2>3, OnlyWorker
<1>9. CASE worker.stage = "trades"
  <2>1. worker' = [Serves("ladders") EXCEPT !.tape.trades = f.trades]
    BY <1>9 DEF Read, f
  <2>2. /\ worker' \in Workers /\ worker'.stage = "ladders" /\ worker'.todo = worker.todo
        /\ worker'.tape.episode = Episode /\ worker'.tape.metadata = worker.tape.metadata
        /\ worker'.tape.scalars = worker.tape.scalars /\ worker'.tape.trades = f.trades
    BY <1>2, <1>4, <2>1 DEF Workers, Serves, Loading, Tapes, Files
  <2>3. WorkerOK'
    BY <1>1, <1>2, <1>5, <1>6, <1>9, <2>2 DEF SInv, WorkerOK, Loading, Replaying, f
  <2>4. QED
    BY <1>1, <2>2, <2>3, OnlyWorker
<1>10. CASE worker.stage = "ladders"
  <2>1. worker' = [Serves("insert") EXCEPT !.tape.ladders = f.tape]
    BY <1>10 DEF Read, f
  <2>2. /\ worker' \in Workers /\ worker'.stage = "insert" /\ worker'.todo = worker.todo
        /\ worker'.tape.episode = Episode /\ worker'.tape.metadata = worker.tape.metadata
        /\ worker'.tape.scalars = worker.tape.scalars /\ worker'.tape.trades = worker.tape.trades
        /\ worker'.tape.ladders = f.tape
    BY <1>2, <1>4, <2>1 DEF Workers, Serves, Loading, Tapes, Files
  <2>3. Whole(worker.tape)'
    BY <1>1, <1>4, <1>5, <1>10, <2>2 DEF Whole, OneBuild, f
  <2>4. WorkerOK'
    BY <1>1, <1>2, <1>5, <1>6, <1>10, <2>2, <2>3 DEF SInv, WorkerOK, Loading, Replaying, f
  <2>5. QED
    BY <1>1, <2>2, <2>4, OnlyWorker
<1>11. QED
  BY <1>1, <1>7, <1>8, <1>9, <1>10

\* The job never fails for a tape that cannot be loaded.
LEMMA RaisesStep ==
  ASSUME SInv, Raises
  PROVE  SInv'
<1>1. ~Unreadable
  <2> SUFFICES ASSUME worker.stage \in {"metadata", "tape", "trades"} PROVE ~Unreadable
    BY DEF Unreadable
  <2>1. worker.todo # {}
    BY DEF SInv, WorkerOK, Loading
  <2>2. Episode \in worker.todo /\ Episode \in Episodes
    BY <2>1, EpisodeIsNext
  <2>3. QED
    BY <2>2 DEF SInv, WorkerOK, MarkersAreTrue, OneBuild, Unreadable
<1>2. QED
  BY <1>1, FailsStep DEF Raises

\* The tape just loaded enters the cache, the oldest leave it.
LEMMA InsertStep ==
  ASSUME SInv, Insert
  PROVE  SInv'
<1> USE DEF workspace
<1>1. /\ UNCHANGED workspace /\ UNCHANGED <<jobs, queue>> /\ worker.stage = "insert"
      /\ cache' = Evicted(Append(cache, worker.tape)) /\ worker' = Serves("replay")
  BY DEF Insert
<1>2. /\ worker \in Workers /\ worker.tape \in Tapes /\ Whole(worker.tape) /\ worker.todo # {}
      /\ worker.tape.episode = Episode /\ cache \in Seq(Tapes)
  BY <1>1 DEF SInv, ServiceTypes, Workers, WorkerOK, Loading
<1>3. Episode \in Episodes
  BY <1>2, EpisodeIsNext
<1> DEFINE more == Append(cache, worker.tape)
<1>4. /\ more \in Seq(Tapes) /\ more # <<>>
      /\ \A i \in DOMAIN more : more[i] = worker.tape \/ \E j \in DOMAIN cache : more[i] = cache[j]
  BY <1>2, AppendKeeps
<1>5. cache' = Evicted(more)
  BY <1>1
<1> HIDE DEF more
<1>6. /\ cache' \in Seq(Tapes)
      /\ \A i \in DOMAIN cache' : \E j \in DOMAIN more : cache'[i] = more[j]
  BY <1>4, <1>5, EvictedKeeps
<1>7. \A i \in DOMAIN cache' : cache'[i] = worker.tape \/ \E j \in DOMAIN cache : cache'[i] = cache[j]
  BY <1>4, <1>6
<1>8. CacheOK'
  <2> SUFFICES ASSUME NEW i \in DOMAIN cache'
               PROVE  cache'[i].episode \in Episodes /\ Whole(cache[i])'
    BY DEF CacheOK
  <2>1. CASE cache'[i] = worker.tape
    BY <1>1, <1>2, <1>3, <2>1 DEF Whole
  <2>2. ASSUME NEW j \in DOMAIN cache, cache'[i] = cache[j]
        PROVE  cache'[i].episode \in Episodes /\ Whole(cache[i])'
    BY <1>1, <2>2 DEF SInv, CacheOK, Whole
  <2>3. QED
    BY <1>7, <2>1, <2>2
<1>9. /\ worker' \in Workers /\ worker'.stage = "replay" /\ worker'.todo = worker.todo
      /\ worker'.tape = worker.tape
  BY <1>1, <1>2 DEF Serves, Workers, Replaying
<1>10. WorkerOK'
  <2>1. Episode' = Episode
    BY <1>9 DEF Episode
  <2>2. QED
    BY <1>1, <1>2, <1>9, <2>1 DEF SInv, WorkerOK, Whole, Loading, Replaying
<1>11. jobs' \in Seq(Jobs) /\ queue' \in Seq(Nat) /\ JobsOK'
  BY <1>1 DEF SInv, ServiceTypes, JobsOK
<1>12. QED
  BY <1>1, <1>6, <1>8, <1>9, <1>10, <1>11, WorkspaceFrame

\* A row's ladders are read from the file that has the tape's name now: it is
\* the one the other columns came from.
LEMMA RowStep ==
  ASSUME SInv, Lookup \/ UseRow
  PROVE  SInv'
<1> USE DEF workspace
<1>1. /\ UNCHANGED workspace /\ UNCHANGED <<cache, jobs, queue>> /\ worker.stage \in Replaying
  BY DEF Lookup, UseRow, Replaying
<1>2. /\ worker \in Workers /\ worker.todo # {} /\ worker.tape.episode = Episode
      /\ worker.tape \in Tapes /\ Whole(worker.tape)
  BY <1>1 DEF SInv, ServiceTypes, Workers, WorkerOK
<1>3. Episode \in worker.todo /\ Episode \in Episodes
  BY <1>2, EpisodeIsNext
<1>4. files[Episode].tape = files[Episode].metadata /\ files[Episode].tape \in Nat
  BY <1>3 DEF SInv, ServiceTypes, WorkerOK, MarkersAreTrue, OneBuild, Files
<1>5. /\ worker' \in Workers /\ worker'.stage \in Replaying /\ worker'.todo = worker.todo
      /\ worker'.tape.episode = Episode /\ Whole(worker.tape)'
  <2>1. CASE Lookup
    <3> DEFINE ladders == IF worker.decoded THEN worker.tape.ladders ELSE files[Episode].tape
    <3>1. worker' = [Serves("row") EXCEPT !.decoded = TRUE, !.lookups = @ + 1,
                                          !.tape.ladders = ladders]
      BY <1>2, <2>1 DEF Lookup, Serves, Workers, Tapes
    <3>2. ladders \in Nat /\ ladders \in {worker.tape.ladders, files[Episode].tape}
      BY <1>2, <1>4 DEF Tapes
    <3> HIDE DEF ladders
    <3>3. /\ worker' \in Workers /\ worker'.stage = "row" /\ worker'.todo = worker.todo
          /\ worker'.tape = [worker.tape EXCEPT !.ladders = ladders]
      <4> DEFINE tape == [worker.tape EXCEPT !.ladders = ladders]
      <4>1. tape \in Tapes
        BY <1>2, <3>2 DEF Tapes
      <4> DEFINE n == worker.lookups + 1
      <4>2. n \in Nat
        BY <1>2 DEF Workers
      <4>3. worker' = [worker EXCEPT !.stage = "row", !.decoded = TRUE, !.lookups = n,
                                     !.tape = tape]
        BY <1>2, <3>1 DEF Serves, Workers
      <4> HIDE DEF tape, n
      <4>4. /\ worker' \in Workers /\ worker'.stage = "row" /\ worker'.todo = worker.todo
            /\ worker'.tape = tape
        BY <1>2, <4>1, <4>2, <4>3 DEF Workers, Replaying
      <4>5. QED
        BY <4>4 DEF tape
    <3>4. /\ worker'.tape.episode = worker.tape.episode /\ worker'.tape.metadata = worker.tape.metadata
          /\ worker'.tape.scalars = worker.tape.scalars /\ worker'.tape.trades = worker.tape.trades
          /\ worker'.tape.ladders = ladders
      BY <1>2, <3>3 DEF Tapes
    <3>5. Whole(worker.tape)'
      BY <1>1, <1>2, <1>4, <3>2, <3>4 DEF Whole
    <3>6. QED
      BY <1>2, <3>3, <3>4, <3>5 DEF Replaying
  <2>2. CASE UseRow
    <3>1. /\ worker' \in Workers /\ worker'.stage = "replay" /\ worker'.todo = worker.todo
          /\ worker'.tape = worker.tape
      BY <1>2, <2>2 DEF UseRow, Serves, Workers, Replaying
    <3>2. QED
      BY <1>1, <1>2, <3>1 DEF Whole, Replaying
  <2>3. QED
    BY <2>1, <2>2
<1>6. WorkerOK'
  <2>1. Episode' = Episode
    BY <1>5 DEF Episode
  <2>2. QED
    BY <1>1, <1>2, <1>5, <2>1 DEF SInv, WorkerOK, Loading, Replaying
<1>7. QED
  BY <1>1, <1>5, <1>6, OnlyWorker

\* The end of a replay, of all of them and of the job.
LEMMA ProgressStep ==
  ASSUME SInv, ReplayEnds \/ Complete \/ Succeed
  PROVE  SInv'
<1> USE DEF workspace
<1>1. UNCHANGED workspace /\ UNCHANGED <<cache, queue>>
  BY DEF ReplayEnds, Complete, Succeed
<1>2. jobs' \in Seq(Jobs) /\ JobsOK'
  BY JobGoesOn DEF ReplayEnds, Complete, Succeed
<1>3. /\ worker' \in Workers /\ worker'.stage \in {"idle", "get", "report"}
      /\ worker'.todo \in SUBSET worker.todo
  <2>1. worker \in Workers
    BY DEF SInv, ServiceTypes, Workers
  <2>2. CASE ReplayEnds
    <3>1. worker' = [NoWork EXCEPT !.stage = "get", !.job = worker.job,
                                   !.todo = worker.todo \ {Episode}]
      BY <2>2 DEF ReplayEnds
    <3>2. QED
      BY <2>1, <3>1, NoWorkIs DEF Workers
  <2>3. CASE Complete
    BY <2>1, <2>3 DEF Complete, Serves, Workers
  <2>4. CASE Succeed
    BY <2>4, NoWorkIs DEF Succeed
  <2>5. QED
    BY <2>2, <2>3, <2>4
<1>4. WorkerOK'
  BY <1>1, <1>3, NoTapeFrame DEF SInv, WorkerOK, Loading, Replaying
<1>5. QED
  BY <1>1, <1>2, <1>3, <1>4, CacheFrame, WorkspaceFrame DEF SInv, ServiceTypes

-----------------------------------------------------------------------------
(* The whole *)

LEMMA SInvInit ==
  ASSUME NeverRebuilt
  PROVE  Init => SInv
<1> SUFFICES ASSUME Init PROVE SInv
  OBVIOUS
<1>1. worker \in Workers /\ worker.stage = "idle" /\ worker.todo = {}
  BY NoWorkIs DEF Init
<1>2. ServiceTypes
  BY <1>1 DEF Init, ServiceTypes, Workers, Files, Missing
<1>3. QED
  BY <1>1, <1>2, FileAfterIs
  DEF Init, SInv, MarkersAreTrue, PublisherOK, CacheOK, WorkerOK, JobsOK, Loading, Replaying, Files

LEMMA SInvStep ==
  ASSUME NeverRebuilt
  PROVE  SInv /\ [Next]_vars => SInv'
<1> SUFFICES ASSUME SInv, [Next]_vars PROVE SInv'
  OBVIOUS
<1>1. CASE Work
  BY <1>1, StartStep, HitStep, MissStep, ReadStep, RaisesStep, InsertStep, RowStep, ProgressStep,
     FailsStep DEF Work, RowIsGone
<1>2. CASE UNCHANGED vars
  <2>1. UNCHANGED workspace /\ UNCHANGED <<cache, jobs, queue, worker>>
    BY <1>2 DEF vars, service
  <2>2. worker' \in Workers
    BY <2>1 DEF SInv, ServiceTypes, Workers
  <2>3. QED
    BY <2>1, <2>2, WorkerFrame, OnlyWorker DEF workspace
<1>3. QED
  BY <1>1, <1>2, RefreshStep, RequestStep DEF Next

\* As long as no tape is rebuilt, a tape in the cache or being replayed is the
\* one publication on disk and no ready tape fails to load, for any number of
\* episodes, requests, refreshes and crashes of the refresh (tape.py, build and
\* load_tape; backtest_service.py, TapeCache.get).
THEOREM TapesCorrect ==
  ASSUME NeverRebuilt
  PROVE  Spec => []TapesInUseAreWhole
<1>1. SInv => TapesInUseAreWhole
  BY DEF SInv, CacheOK, WorkerOK, JobsOK, TapesInUseAreWhole, Whole, Loading, Replaying
<1>2. Init => SInv
  BY SInvInit
<1>3. SInv /\ [Next]_vars => SInv'
  BY SInvStep
<1>4. QED
  BY <1>1, <1>2, <1>3, PTL DEF Spec
=============================================================================
