-------------------------- MODULE BuildPipeline_proofs --------------------------
(***************************************************************************)
(* The build pipeline for any number of artifacts, builds, workers, bytes  *)
(* and kills: what holds however many workers overlap, and what one worker *)
(* relies on between two steps of its pass.                                *)
(***************************************************************************)
EXTENDS BuildPipeline, SequenceTheorems, FiniteSetTheorems, TLAPS

DecisionRow == [delete : BOOLEAN, status : {"running", "succeeded", "failed"},
                image : BOOLEAN, line : Seq(Bytes)]

WorkerState ==
  [step : Steps, todo : SUBSET (1 .. MaxBuilds), build : 0 .. MaxBuilds,
   loaded : {"queued", "running", "succeeded", "failed"}, log : Seq(Bytes),
   decision : DecisionRow]

\* What a worker holds on to exists, and a build it starts was claimed.
Refers(w) ==
  /\ worker[w].todo \subseteq BuildId
  /\ worker[w].step \in {"inspect", "finish", "create", "record"} => worker[w].build \in BuildId
  /\ worker[w].step \in {"create", "record"} => builds[worker[w].build].status # "queued"

\* The part of the invariant that any number of workers keeps.
Sound ==
  /\ TypeOK
  /\ Len(builds) <= MaxBuilds
  /\ \A w \in BuildWorkers : Refers(w)
  /\ ClaimedOnce

\* What a lone worker knows in the middle of its pass: the builds it still has
\* to visit run, the one it works on runs and has the log it stored, one it is
\* about to finish has no active Job, and there is room for one it may claim.
KnowsPass(w) ==
  LET local == worker[w]
  IN /\ \A b \in local.todo : builds[b].status = "running"
     /\ local.step \in {"inspect", "finish"} =>
          /\ builds[local.build].status = "running"
          /\ local.log = builds[local.build].log
          /\ local.build \notin local.todo
     /\ local.step \in {"create", "record"} => builds[local.build].status = "running"
     /\ local.step = "finish" => kube[local.build].state # "active"
     /\ local.step = "claim" => Cardinality(Running) < MaxInFlight

Orderly ==
  /\ \A w \in BuildWorkers : KnowsPass(w)
  /\ \A b \in 1 .. MaxBuilds :
       kube[b].state = "active" => b \in BuildId /\ builds[b].status = "running"
  /\ Cardinality(Running) <= MaxInFlight

BuildsInv == Sound /\ (OneWorker => Orderly)
-----------------------------------------------------------------------------
(* The log and the rows.                                                   *)

\* truncate_log returns a log.
LEMMA TruncateTyped ==
  ASSUME NEW data \in Seq(Bytes)
  PROVE  TruncateLog(data) \in Seq(Bytes)
  <1>0. Marker \in Seq(Bytes)
    BY BuildAssumption
  <1>1. Len(data) \in Nat /\ Len(Marker) \in Nat /\ LogCap \in Nat
    BY <1>0, BuildAssumption, LenProperties
  <1> DEFINE keep == IF LogCap > Len(Marker) THEN LogCap - Len(Marker) ELSE 0
  <1>2. CASE Len(data) > LogCap
    <2>1. keep \in Nat /\ keep <= Len(data) /\ LogCap - keep \in Nat /\ LogCap - keep <= Len(Marker)
      BY <1>1, <1>2
    <2>2. TruncateLog(data) = SubSeq(data, 1, keep) \o SubSeq(Marker, 1, LogCap - keep)
      <3>1. ~(Len(data) <= LogCap)
        BY <1>1, <1>2
      <3> QED
        BY <3>1, Zenon DEF TruncateLog
    <2> HIDE DEF keep
    <2>3. SubSeq(data, 1, keep) \in Seq(Bytes)
      <3>1. \A i \in 1 .. keep : data[i] \in Bytes
        BY <1>1, <2>1, ElementOfSeq
      <3> QED
        BY <2>1, <3>1, SubSeqProperties
    <2>4. SubSeq(Marker, 1, LogCap - keep) \in Seq(Bytes)
      <3>1. \A i \in 1 .. LogCap - keep : Marker[i] \in Bytes
        BY <1>1, <1>0, <2>1, ElementOfSeq
      <3> QED
        BY <2>1, <3>1, SubSeqProperties
    <2> QED
      BY <2>2, <2>3, <2>4, ConcatProperties
  <1>3. CASE Len(data) <= LogCap
    BY <1>3 DEF TruncateLog
  <1> QED
    BY <1>1, <1>2, <1>3

\* merge_log never returns less than what is stored.
LEMMA MergeGrows ==
  ASSUME NEW stored \in Seq(Bytes), NEW fresh \in Seq(Bytes)
  PROVE  MergeLog(stored, fresh) \in Seq(Bytes) /\ Len(MergeLog(stored, fresh)) >= Len(stored)
  <1>1. /\ TruncateLog(fresh) \in Seq(Bytes)
        /\ Len(TruncateLog(fresh)) \in Nat /\ Len(stored) \in Nat
    BY TruncateTyped, LenProperties
  <1> QED
    BY <1>1 DEF MergeLog

\* Whatever was rotated away, what is left of a log is a log.
LEMMA RestTyped ==
  ASSUME NEW s \in Seq(Bytes), NEW n \in 0 .. Len(s)
  PROVE  SubSeq(s, n + 1, Len(s)) \in Seq(Bytes)
  <1>1. Len(s) \in Nat /\ n + 1 \in Int
    BY LenProperties
  <1>2. \A i \in n + 1 .. Len(s) : s[i] \in Bytes
    BY <1>1, ElementOfSeq
  <1> QED
    BY <1>1, <1>2, SubSeqProperties

\* A build that is not left alone is given up with its Job, or has none that
\* is active.
LEMMA DecisionFits ==
  ASSUME NEW row, NEW job \in KubeJob, NEW overdue
  PROVE  /\ Decision(row, job, overdue) \in DecisionRow
         /\ \/ Decision(row, job, overdue) = NoDecision
            \/ job.state # "active"
            \/ Decision(row, job, overdue).delete
  <1>1. << >> \in Seq(Bytes) /\ EvictionLine \in Seq(Bytes)
    BY BuildAssumption, EmptySeq
  <1>2. NoDecision \in DecisionRow
    BY <1>1 DEF NoDecision, DecisionRow
  <1>3. \A delete \in BOOLEAN : \A line \in Seq(Bytes) :
          Fail(delete, line) \in DecisionRow /\ Fail(delete, line).delete = delete
    BY DEF Fail, DecisionRow
  <1>4. [delete |-> FALSE, status |-> "succeeded", image |-> TRUE, line |-> << >>] \in DecisionRow
    BY <1>1 DEF DecisionRow
  <1> QED
    BY <1>1, <1>2, <1>3, <1>4 DEF Decision

LEMMA Typed ==
  ASSUME TypeOK
  PROVE  /\ builds \in Seq(BuildRow) /\ Len(builds) \in Nat
         /\ kube \in [1 .. MaxBuilds -> KubeJob]
         /\ worker \in [BuildWorkers -> WorkerState]
         /\ \A b \in BuildId : builds[b] \in BuildRow
         /\ MaxBuilds \in Nat /\ MaxInFlight \in Nat \ {0}
  <1>1. builds \in Seq(BuildRow) /\ Len(builds) \in Nat
    BY LenProperties DEF TypeOK
  <1>2. \A b \in BuildId : builds[b] \in BuildRow
    BY <1>1, ElementOfSeq DEF BuildId
  <1> QED
    BY <1>1, <1>2, BuildAssumption DEF TypeOK, WorkerState, DecisionRow

LEMMA TypedNext ==
  ASSUME builds' \in Seq(BuildRow), kube' \in [1 .. MaxBuilds -> KubeJob],
         worker' \in [BuildWorkers -> WorkerState], kills' \in Nat
  PROVE  TypeOK'
  BY DEF TypeOK, WorkerState, DecisionRow

\* A row of the build table is written.
LEMMA RowWritten ==
  ASSUME TypeOK, NEW b \in BuildId, NEW e \in BuildRow, builds' = [builds EXCEPT ![b] = e]
  PROVE  /\ builds' \in Seq(BuildRow) /\ Len(builds') = Len(builds)
         /\ builds'[b] = e
         /\ \A c \in BuildId : c # b => builds'[c] = builds[c]
  BY Typed, ExceptSeq DEF BuildId

\* A sleeping worker, as a state.
LEMMA AsleepTyped ==
  /\ Asleep \in WorkerState /\ Asleep.step = "sleep" /\ Asleep.todo = {}
  /\ [Asleep EXCEPT !.step = "claim"] \in WorkerState
  /\ [Asleep EXCEPT !.step = "claim"].step = "claim"
  /\ [Asleep EXCEPT !.step = "claim"].todo = {}
  <1>1. << >> \in Seq(Bytes)
    BY EmptySeq
  <1>2. NoDecision \in DecisionRow
    BY <1>1 DEF NoDecision, DecisionRow
  <1>3. Asleep \in WorkerState
    BY <1>1, <1>2, BuildAssumption DEF Asleep, WorkerState, Steps
  <1>4. Asleep.step = "sleep" /\ Asleep.todo = {}
    BY DEF Asleep
  <1>5. /\ [Asleep EXCEPT !.step = "claim"] \in WorkerState
        /\ [Asleep EXCEPT !.step = "claim"].step = "claim"
        /\ [Asleep EXCEPT !.step = "claim"].todo = Asleep.todo
    BY <1>3 DEF WorkerState, Steps
  <1> QED
    BY <1>3, <1>4, <1>5
-----------------------------------------------------------------------------
(* One worker moves.                                                       *)

\* Worker w goes on with local state l.
Moves(w, l) ==
  /\ l \in WorkerState
  /\ worker' = [worker EXCEPT ![w] = l]

\* The steps at which a worker has a build at hand.
Busy == {"inspect", "finish", "create", "record"}

Starting == {"create", "record"}

\* A move is sound when what the worker refers to exists, no build is queued
\* again, and a build it starts is one it already had or one it just claimed.
LEMMA MoveKeepsSound ==
  ASSUME Sound, NEW w \in BuildWorkers, NEW l, Moves(w, l),
         builds' \in Seq(BuildRow), Len(builds') = Len(builds),
         kube' \in [1 .. MaxBuilds -> KubeJob], kills' \in Nat,
         \A b \in BuildId : builds'[b].status = "queued" => builds[b].status = "queued",
         l.todo \subseteq BuildId,
         l.step \in Busy => l.build \in BuildId,
         l.step \in Starting =>
           /\ builds'[l.build].status # "queued"
           /\ \/ worker[w].step \in Starting /\ l.build = worker[w].build
              \/ builds[l.build].status = "queued"
  PROVE  Sound'
  <1>1. /\ worker \in [BuildWorkers -> WorkerState]
        /\ worker'[w] = l /\ \A v \in BuildWorkers \ {w} : worker'[v] = worker[v]
    BY Typed DEF Sound, Moves
  <1>2. worker' \in [BuildWorkers -> WorkerState]
    BY <1>1 DEF Moves
  <1>3. TypeOK'
    BY <1>2, TypedNext
  <1>4. BuildId' = BuildId
    BY DEF BuildId
  <1>5. ASSUME NEW v \in BuildWorkers PROVE Refers(v)'
    <2>1. CASE v = w
      BY <1>1, <1>4, <2>1 DEF Refers, Busy, Starting
    <2>2. CASE v # w
      <3>1. worker'[v] = worker[v] /\ Refers(v)
        BY <1>1, <2>2 DEF Sound
      <3>2. \A b \in BuildId : builds[b].status # "queued" => builds'[b].status # "queued"
        OBVIOUS
      <3> QED
        BY <1>4, <3>1, <3>2 DEF Refers
    <2> QED
      BY <2>1, <2>2
  <1>6. ClaimedOnce'
    <2>1. ASSUME NEW v \in BuildWorkers \ {w}, worker[v].step \in Starting, l.step \in Starting
          PROVE  worker[v].build # l.build
      <3>1. Refers(v) /\ Refers(w)
        BY DEF Sound
      <3>2. builds[worker[v].build].status # "queued"
        BY <2>1, <3>1 DEF Refers, Starting
      <3>3. worker[w].step \in Starting => worker[v].build # worker[w].build
        BY <2>1 DEF Sound, ClaimedOnce, Starting
      <3> QED
        BY <2>1, <3>2, <3>3
    <2>2. ASSUME NEW u \in BuildWorkers, NEW v \in BuildWorkers, u # v,
                 worker'[u].step \in Starting, worker'[v].step \in Starting
          PROVE  worker'[u].build # worker'[v].build
      BY <1>1, <2>1, <2>2 DEF Sound, ClaimedOnce, Starting
    <2> QED
      BY <2>2 DEF ClaimedOnce, Starting
  <1> QED
    BY <1>3, <1>5, <1>6 DEF Sound

\* With one worker what that one knows is all there is to know.
LEMMA Lone ==
  ASSUME OneWorker, NEW w \in BuildWorkers, NEW v \in BuildWorkers
  PROVE  v = w
  BY FS_Singleton, BuildAssumption DEF OneWorker

\* Counting the running builds.
LEMMA RunningCounts ==
  ASSUME TypeOK, BuildId' = BuildId
  PROVE  /\ IsFiniteSet(Running) /\ Cardinality(Running) \in Nat
         /\ (\A b \in BuildId : builds'[b].status = "running" => builds[b].status = "running")
              => Cardinality(Running') <= Cardinality(Running) /\ Cardinality(Running') \in Nat
  <1>1. IsFiniteSet(Running)
    <2>1. IsFiniteSet(BuildId)
      BY Typed, FS_Interval DEF BuildId
    <2> QED
      BY <2>1, FS_Subset DEF Running
  <1>2. ASSUME \A b \in BuildId : builds'[b].status = "running" => builds[b].status = "running"
        PROVE  Cardinality(Running') <= Cardinality(Running) /\ Cardinality(Running') \in Nat
    <2>1. Running' \in SUBSET Running
      BY <1>2 DEF Running
    <2> QED
      BY <1>1, <2>1, FS_Subset, FS_CardinalityType
  <1> QED
    BY <1>1, <1>2, FS_CardinalityType

\* A lone worker keeps order when it knows its pass afterwards, no more builds
\* run than before, and no Job is active but those that were, of builds that
\* still run.
LEMMA MoveKeepsOrder ==
  ASSUME Sound, OneWorker, Orderly, NEW w \in BuildWorkers, NEW l, Moves(w, l),
         Len(builds') = Len(builds),
         \A b \in BuildId : builds'[b].status = "running" => builds[b].status = "running",
         \A b \in 1 .. MaxBuilds : kube'[b].state = "active" =>
           /\ \/ kube[b].state = "active"
              \/ b \in BuildId /\ builds[b].status = "running"
           /\ b \in BuildId => builds'[b].status = builds[b].status,
         \A b \in l.todo : builds'[b].status = "running",
         l.step \in {"inspect", "finish"} =>
           /\ builds'[l.build].status = "running"
           /\ l.log = builds'[l.build].log
           /\ l.build \notin l.todo,
         l.step \in Starting => builds'[l.build].status = "running",
         l.step = "finish" => kube'[l.build].state # "active",
         l.step = "claim" => Cardinality(Running') < MaxInFlight
  PROVE  Orderly'
  <1>1. worker'[w] = l
    BY Typed DEF Sound, Moves
  <1>2. KnowsPass(w)'
    BY <1>1 DEF KnowsPass, Starting
  <1>3. \A v \in BuildWorkers : KnowsPass(v)'
    BY <1>2, Lone
  <1>4. BuildId' = BuildId
    BY DEF BuildId
  <1>5. \A b \in 1 .. MaxBuilds :
          kube'[b].state = "active" => b \in BuildId' /\ builds'[b].status = "running"
    BY <1>4 DEF Orderly
  <1>6. Cardinality(Running') <= MaxInFlight
    <2>1. /\ Cardinality(Running') <= Cardinality(Running)
          /\ Cardinality(Running') \in Nat /\ Cardinality(Running) \in Nat
      BY <1>4, RunningCounts DEF Sound
    <2> QED
      BY <2>1, Typed DEF Orderly, Sound
  <1> QED
    BY <1>3, <1>5, <1>6 DEF Orderly
-----------------------------------------------------------------------------
(* Moves that leave every row as it is.                                    *)

\* What a lone worker must know of local state l that it takes on.
Knows(l) ==
  /\ \A b \in l.todo : builds[b].status = "running"
  /\ l.step \in {"inspect", "finish"} =>
       /\ builds[l.build].status = "running"
       /\ l.log = builds[l.build].log
       /\ l.build \notin l.todo
  /\ l.step \in Starting => builds[l.build].status = "running"
  /\ l.step = "claim" => Cardinality(Running) < MaxInFlight

\* The invariant gives it for the state the worker has.
LEMMA KnowsNow ==
  ASSUME BuildsInv, OneWorker, NEW w \in BuildWorkers
  PROVE  /\ Knows(worker[w])
         /\ worker[w].step = "finish" => kube[worker[w].build].state # "active"
  BY DEF BuildsInv, Orderly, KnowsPass, Knows, Starting

LEMMA QuietMove ==
  ASSUME BuildsInv, NEW w \in BuildWorkers, NEW l, Moves(w, l),
         builds' = builds, kube' \in [1 .. MaxBuilds -> KubeJob], kills' \in Nat,
         l.todo \subseteq BuildId,
         l.step \in Busy => l.build \in BuildId,
         l.step \in Starting => worker[w].step \in Starting /\ l.build = worker[w].build,
         OneWorker =>
           /\ \A b \in 1 .. MaxBuilds : kube'[b].state = "active" =>
                \/ kube[b].state = "active"
                \/ b \in BuildId /\ builds[b].status = "running"
           /\ Knows(l)
           /\ l.step = "finish" => kube'[l.build].state # "active"
  PROVE  BuildsInv'
  <1>1. builds' \in Seq(BuildRow) /\ Len(builds') = Len(builds) /\ Sound
    BY Typed DEF BuildsInv, Sound
  <1>2. Sound'
    <2>1. l.step \in Starting => builds'[l.build].status # "queued"
      <3>1. Refers(w)
        BY <1>1 DEF Sound
      <3> QED
        BY <3>1 DEF Refers, Starting
    <2> QED
      BY <1>1, <2>1, MoveKeepsSound
  <1>3. ASSUME OneWorker PROVE Orderly'
    <2>1. Orderly
      BY <1>3 DEF BuildsInv
    <2>2. Running' = Running
      BY DEF Running, BuildId
    <2>3. Knows(l)
      BY <1>3
    <2> QED
      BY <1>1, <1>3, <2>1, <2>2, <2>3, MoveKeepsOrder DEF Knows
  <1> QED
    BY <1>2, <1>3 DEF BuildsInv, OneWorker

\* What holds of a worker's own state before it moves.
LEMMA OwnState ==
  ASSUME BuildsInv, NEW w \in BuildWorkers
  PROVE  /\ TypeOK /\ worker[w] \in WorkerState
         /\ worker[w].todo \subseteq BuildId
         /\ worker[w].step \in Busy => worker[w].build \in BuildId
         /\ BuildId \subseteq 1 .. MaxBuilds
  <1>1. TypeOK /\ Refers(w) /\ Len(builds) <= MaxBuilds
    BY DEF BuildsInv, Sound
  <1> QED
    BY <1>1, Typed DEF Refers, Busy, BuildId

LEMMA StartPassKeeps ==
  ASSUME BuildsInv, NEW w \in BuildWorkers, StartPass(w)
  PROVE  BuildsInv'
  <1> DEFINE l == [worker[w] EXCEPT !.step = "advance", !.todo = Running]
  <1>1. Running \subseteq BuildId /\ Running \in SUBSET (1 .. MaxBuilds)
    BY OwnState DEF Running
  <1>2. /\ l \in WorkerState
        /\ l.step = "advance" /\ l.todo = Running
    BY <1>1, OwnState DEF WorkerState, Steps
  <1>3. worker' = [worker EXCEPT ![w] = l]
    BY OwnState, Typed DEF StartPass
  <1>4. builds' = builds /\ kube' = kube /\ kills' = kills /\ kills \in Nat
        /\ kube \in [1 .. MaxBuilds -> KubeJob]
    BY OwnState DEF StartPass, TypeOK
  <1>5. Moves(w, l)
    BY <1>2, <1>3 DEF Moves
  <1>6. Knows(l)
    BY <1>2 DEF Knows, Running, Starting
  <1> HIDE DEF l
  <1> QED
    BY <1>1, <1>2, <1>4, <1>5, <1>6, QuietMove DEF Busy, Starting

LEMMA InspectJobKeeps ==
  ASSUME BuildsInv, NEW w \in BuildWorkers, InspectJob(w)
  PROVE  BuildsInv'
  <1> DEFINE b == worker[w].build
  <1>1. /\ worker[w].step = "inspect" /\ b \in BuildId
        /\ builds' = builds /\ kills' = kills /\ kills \in Nat
        /\ kube \in [1 .. MaxBuilds -> KubeJob]
    BY OwnState DEF InspectJob, At, TypeOK, Busy
  <1>2. PICK overdue \in BOOLEAN :
          /\ worker' = [worker EXCEPT ![w].decision = Decision(builds[b], kube[b], overdue),
                          ![w].step = IF Decision(builds[b], kube[b], overdue) = NoDecision
                                      THEN "advance" ELSE "finish"]
          /\ kube' = IF Decision(builds[b], kube[b], overdue).delete
                     THEN [kube EXCEPT ![b] = NoJob] ELSE kube
    BY Zenon DEF InspectJob
  <1> DEFINE d == Decision(builds[b], kube[b], overdue)
             l == [worker[w] EXCEPT !.decision = d,
                     !.step = IF d = NoDecision THEN "advance" ELSE "finish"]
  <1>3. /\ d \in DecisionRow
        /\ d = NoDecision \/ kube[b].state # "active" \/ d.delete
    <2>1. kube[b] \in KubeJob
      BY <1>1, OwnState
    <2> QED
      BY <2>1, DecisionFits
  <1>4. kube' = IF d.delete THEN [kube EXCEPT ![b] = NoJob] ELSE kube
    BY <1>2
  <1>5. worker' = [worker EXCEPT ![w].decision = d,
                     ![w].step = IF d = NoDecision THEN "advance" ELSE "finish"]
    BY <1>2
  <1> HIDE DEF d
  <1>6. NoJob \in KubeJob /\ NoJob.state = "none"
    BY EmptySeq DEF NoJob, KubeJob
  <1>7. worker' = [worker EXCEPT ![w] = l]
    BY <1>5, OwnState, Typed
  <1>8. /\ l \in WorkerState
        /\ l.step = IF d = NoDecision THEN "advance" ELSE "finish"
        /\ l.todo = worker[w].todo /\ l.build = b /\ l.log = worker[w].log
    BY <1>3, OwnState DEF WorkerState, Steps
  <1>9. Moves(w, l)
    BY <1>7, <1>8 DEF Moves
  <1> HIDE DEF l
  <1>10. kube' \in [1 .. MaxBuilds -> KubeJob]
    BY <1>1, <1>4, <1>6
  <1>11. \A c \in 1 .. MaxBuilds : kube'[c].state = "active" => kube[c].state = "active"
    BY <1>1, <1>4, <1>6
  <1>12. l.step = "finish" => kube'[l.build].state # "active"
    BY <1>1, <1>3, <1>4, <1>6, <1>8, OwnState
  <1>13. OneWorker => Knows(l)
    BY <1>1, <1>8, KnowsNow DEF Knows, Starting
  <1>14. l.step \notin Starting
    BY <1>8 DEF Starting
  <1> QED
    BY <1>1, <1>8, <1>9, <1>10, <1>11, <1>12, <1>13, <1>14, OwnState, QuietMove

LEMMA InspectFailsKeeps ==
  ASSUME BuildsInv, NEW w \in BuildWorkers, InspectFails(w)
  PROVE  BuildsInv'
  <1> DEFINE l == [worker[w] EXCEPT !.step = "advance"]
  <1>1. /\ l \in WorkerState
        /\ l.step = "advance" /\ l.todo = worker[w].todo
    BY OwnState DEF WorkerState, Steps
  <1>2. worker' = [worker EXCEPT ![w] = l]
    BY OwnState, Typed DEF InspectFails
  <1>3. builds' = builds /\ kube' = kube /\ kills' = kills /\ kills \in Nat
        /\ kube \in [1 .. MaxBuilds -> KubeJob]
    BY OwnState DEF InspectFails, TypeOK
  <1>4. Moves(w, l)
    BY <1>1, <1>2 DEF Moves
  <1>5. OneWorker => Knows(l)
    BY <1>1, KnowsNow DEF Knows, Starting
  <1> HIDE DEF l
  <1> QED
    BY <1>1, <1>3, <1>4, <1>5, OwnState, QuietMove DEF Busy, Starting

\* Going to sleep, in any order of things.
LEMMA SleepKeeps ==
  ASSUME BuildsInv, NEW w \in BuildWorkers, worker' = [worker EXCEPT ![w] = Asleep],
         builds' = builds, kube' \in [1 .. MaxBuilds -> KubeJob], kills' \in Nat,
         OneWorker =>
           \A b \in 1 .. MaxBuilds : kube'[b].state = "active" =>
             \/ kube[b].state = "active"
             \/ b \in BuildId /\ builds[b].status = "running"
  PROVE  BuildsInv'
  <1>1. Moves(w, Asleep)
    BY AsleepTyped DEF Moves
  <1>2. Knows(Asleep)
    BY AsleepTyped DEF Knows, Starting
  <1>3. Asleep.todo \subseteq BuildId /\ Asleep.step \notin Busy /\ Asleep.step \notin Starting
        /\ Asleep.step # "finish"
    BY AsleepTyped DEF Busy, Starting
  <1> QED
    BY <1>1, <1>2, <1>3, QuietMove

LEMMA CountRunningKeeps ==
  ASSUME BuildsInv, NEW w \in BuildWorkers, CountRunning(w)
  PROVE  BuildsInv'
  <1>1. builds' = builds /\ kube' = kube /\ kills' = kills /\ kills \in Nat
        /\ kube \in [1 .. MaxBuilds -> KubeJob]
    BY OwnState DEF CountRunning, TypeOK
  <1>2. CASE ~(Cardinality(Running) < MaxInFlight)
    <2>1. worker' = [worker EXCEPT ![w] = Asleep]
      BY <1>2 DEF CountRunning
    <2> QED
      BY <1>1, <2>1, SleepKeeps
  <1>3. CASE Cardinality(Running) < MaxInFlight
    <2> DEFINE l == [Asleep EXCEPT !.step = "claim"]
    <2>1. worker' = [worker EXCEPT ![w] = l]
      BY <1>3 DEF CountRunning
    <2>2. l \in WorkerState /\ l.step = "claim" /\ l.todo = {}
      BY AsleepTyped
    <2> HIDE DEF l
    <2>3. Moves(w, l)
      BY <2>1, <2>2 DEF Moves
    <2>4. Knows(l)
      BY <1>3, <2>2 DEF Knows, Starting
    <2> QED
      BY <1>1, <2>2, <2>3, <2>4, QuietMove DEF Busy, Starting
  <1> QED
    BY <1>2, <1>3

LEMMA NothingToClaimKeeps ==
  ASSUME BuildsInv, NEW w \in BuildWorkers, NothingToClaim(w)
  PROVE  BuildsInv'
  <1>1. builds' = builds /\ kube' = kube /\ kills' = kills /\ kills \in Nat
        /\ kube \in [1 .. MaxBuilds -> KubeJob] /\ worker' = [worker EXCEPT ![w] = Asleep]
    BY OwnState DEF NothingToClaim, TypeOK
  <1> QED
    BY <1>1, SleepKeeps

LEMMA KillWorkerKeeps ==
  ASSUME BuildsInv, NEW w \in BuildWorkers, KillWorker(w)
  PROVE  BuildsInv'
  <1>1. builds' = builds /\ kube' = kube /\ kills' \in Nat
        /\ kube \in [1 .. MaxBuilds -> KubeJob] /\ worker' = [worker EXCEPT ![w] = Asleep]
    BY OwnState DEF KillWorker, TypeOK
  <1> QED
    BY <1>1, SleepKeeps
-----------------------------------------------------------------------------
(* Moves that create a Job.                                                *)

LEMMA ActiveJob ==
  /\ [NoJob EXCEPT !.state = "active"] \in KubeJob
  /\ NoJob \in KubeJob /\ NoJob.state = "none" /\ NoJob.output = << >>
  BY EmptySeq DEF NoJob, KubeJob

\* A Job a worker creates is that of a build it claimed.
LEMMA JobCreated ==
  ASSUME BuildsInv, NEW w \in BuildWorkers, worker[w].step = "create",
         kube' \in {kube, [kube EXCEPT ![worker[w].build] = [NoJob EXCEPT !.state = "active"]]}
  PROVE  /\ kube' \in [1 .. MaxBuilds -> KubeJob]
         /\ OneWorker =>
              \A b \in 1 .. MaxBuilds : kube'[b].state = "active" =>
                \/ kube[b].state = "active"
                \/ b \in BuildId /\ builds[b].status = "running"
  <1>1. kube \in [1 .. MaxBuilds -> KubeJob] /\ worker[w].build \in BuildId
    BY OwnState, Typed DEF Busy
  <1>2. OneWorker => builds[worker[w].build].status = "running"
    BY KnowsNow DEF Knows, Starting
  <1>3. kube' \in [1 .. MaxBuilds -> KubeJob]
    BY <1>1, ActiveJob
  <1>4. \A b \in 1 .. MaxBuilds : b # worker[w].build => kube'[b] = kube[b]
    BY <1>1
  <1> QED
    BY <1>1, <1>2, <1>3, <1>4

LEMMA CreateJobKeeps ==
  ASSUME BuildsInv, NEW w \in BuildWorkers, CreateJob(w)
  PROVE  BuildsInv'
  <1> DEFINE l == [worker[w] EXCEPT !.step = "record"]
  <1>1. /\ l \in WorkerState
        /\ l.step = "record" /\ l.todo = worker[w].todo /\ l.build = worker[w].build
        /\ l.log = worker[w].log
    BY OwnState DEF WorkerState, Steps
  <1>2. worker' = [worker EXCEPT ![w] = l]
    BY OwnState, Typed DEF CreateJob
  <1>3. Moves(w, l)
    BY <1>1, <1>2 DEF Moves
  <1> HIDE DEF l
  <1>4. builds' = builds /\ kills' = kills /\ kills \in Nat /\ worker[w].step = "create"
    BY OwnState DEF CreateJob, TypeOK, At
  <1>5. /\ kube' \in [1 .. MaxBuilds -> KubeJob]
        /\ OneWorker =>
             \A b \in 1 .. MaxBuilds : kube'[b].state = "active" =>
               \/ kube[b].state = "active"
               \/ b \in BuildId /\ builds[b].status = "running"
    BY <1>4, JobCreated DEF CreateJob
  <1>6. worker[w].todo \subseteq BuildId /\ worker[w].build \in BuildId
    BY <1>4, OwnState DEF Busy
  <1>7. worker[w].step \in Starting /\ l.step # "finish"
    BY <1>1, <1>4 DEF Starting
  <1>8. OneWorker => Knows(l)
    BY <1>1, <1>4, KnowsNow DEF Knows, Starting
  <1> QED
    BY <1>1, <1>3, <1>4, <1>5, <1>6, <1>7, <1>8, QuietMove

LEMMA StartFailsKeeps ==
  ASSUME BuildsInv, NEW w \in BuildWorkers, StartFails(w)
  PROVE  BuildsInv'
  <1>1. builds' = builds /\ kills' = kills /\ kills \in Nat /\ worker[w].step = "create"
        /\ worker' = [worker EXCEPT ![w] = Asleep]
    BY OwnState DEF StartFails, TypeOK, At
  <1>2. /\ kube' \in [1 .. MaxBuilds -> KubeJob]
        /\ OneWorker =>
             \A b \in 1 .. MaxBuilds : kube'[b].state = "active" =>
               \/ kube[b].state = "active"
               \/ b \in BuildId /\ builds[b].status = "running"
    BY <1>1, JobCreated DEF StartFails
  <1> QED
    BY <1>1, <1>2, SleepKeeps
-----------------------------------------------------------------------------
(* Moves that write the row of one build.                                  *)

LEMMA RowMove ==
  ASSUME BuildsInv, NEW w \in BuildWorkers, NEW l, Moves(w, l),
         NEW b \in BuildId, NEW e \in BuildRow, builds' = [builds EXCEPT ![b] = e],
         kube' = kube, kills' = kills,
         e.status = "queued" => builds[b].status = "queued",
         l.todo \subseteq worker[w].todo,
         l.step \in {"inspect", "advance", "count"},
         l.step = "inspect" => l.build = b,
         OneWorker =>
           /\ \/ e.status = builds[b].status
              \/ builds[b].status = "running" /\ kube[b].state # "active" /\ b \notin l.todo
           /\ l.step = "inspect" => e.status = "running" /\ l.log = e.log /\ b \notin l.todo
  PROVE  BuildsInv'
  <1>1. /\ builds' \in Seq(BuildRow) /\ Len(builds') = Len(builds)
        /\ builds'[b] = e
        /\ \A c \in BuildId : c # b => builds'[c] = builds[c]
    BY OwnState, RowWritten
  <1>2. kube' \in [1 .. MaxBuilds -> KubeJob] /\ kills' \in Nat /\ Sound
    BY OwnState, Typed DEF TypeOK, BuildsInv
  <1>3. /\ l.step \notin Starting /\ l.step # "finish" /\ l.step # "claim"
        /\ l.step \in Busy => l.build = b
    BY DEF Starting, Busy
  <1>4. l.todo \subseteq BuildId
    BY OwnState
  <1>5. Sound'
    BY <1>1, <1>2, <1>3, <1>4, MoveKeepsSound
  <1>6. ASSUME OneWorker PROVE Orderly'
    <2>1. Orderly /\ Knows(worker[w])
      BY <1>6, KnowsNow DEF BuildsInv
    <2>2. \A c \in BuildId : builds'[c].status = "running" => builds[c].status = "running"
      BY <1>1, <1>6
    <2>3. \A c \in 1 .. MaxBuilds : kube'[c].state = "active" =>
            /\ kube[c].state = "active"
            /\ c \in BuildId => builds'[c].status = builds[c].status
      BY <1>1, <1>6
    <2>4. \A c \in l.todo : builds'[c].status = "running"
      <3>1. \A c \in l.todo : c \in BuildId /\ builds[c].status = "running"
        BY <1>4, <2>1 DEF Knows
      <3> QED
        BY <1>1, <1>6, <3>1
    <2>5. l.step = "inspect" =>
            /\ builds'[l.build].status = "running"
            /\ l.log = builds'[l.build].log
            /\ l.build \notin l.todo
      BY <1>1, <1>6
    <2> QED
      BY <1>1, <1>2, <1>3, <1>6, <2>1, <2>2, <2>3, <2>4, <2>5, MoveKeepsOrder
  <1> QED
    BY <1>5, <1>6 DEF BuildsInv, OneWorker

\* What MirrorLog stores, and what the worker keeps of it.
LEMMA Mirrored ==
  ASSUME TypeOK, NEW w \in BuildWorkers, worker[w].todo \subseteq BuildId, MirrorLog(w)
  PROVE  \E b \in worker[w].todo : \E merged \in Seq(Bytes) :
           /\ Len(merged) >= Len(builds[b].log)
           /\ builds' = [builds EXCEPT ![b] = [builds[b] EXCEPT !.log = merged]]
           /\ worker' = [worker EXCEPT ![w] =
                [worker[w] EXCEPT !.step = "inspect", !.todo = worker[w].todo \ {b}, !.build = b,
                                  !.loaded = builds[b].status, !.log = merged]]
  <1>1. PICK b \in worker[w].todo :
          \E n \in 0 .. Len(kube[b].output) :
            LET fresh == SubSeq(kube[b].output, n + 1, Len(kube[b].output))
                merged == MergeLog(builds[b].log, fresh)
            IN /\ builds' = [builds EXCEPT ![b].log = merged]
               /\ worker' = [worker EXCEPT ![w].step = "inspect", ![w].todo = @ \ {b},
                    ![w].build = b, ![w].loaded = builds[b].status, ![w].log = merged]
    BY Zenon DEF MirrorLog
  <1>2. PICK n \in 0 .. Len(kube[b].output) :
          LET fresh == SubSeq(kube[b].output, n + 1, Len(kube[b].output))
              merged == MergeLog(builds[b].log, fresh)
          IN /\ builds' = [builds EXCEPT ![b].log = merged]
             /\ worker' = [worker EXCEPT ![w].step = "inspect", ![w].todo = @ \ {b},
                  ![w].build = b, ![w].loaded = builds[b].status, ![w].log = merged]
    BY <1>1, Zenon
  <1> DEFINE fresh == SubSeq(kube[b].output, n + 1, Len(kube[b].output))
             merged == MergeLog(builds[b].log, fresh)
  <1>3. b \in BuildId /\ b \in 1 .. MaxBuilds
    BY DEF TypeOK
  <1>4. builds[b] \in BuildRow /\ kube[b] \in KubeJob
    BY <1>3, Typed
  <1>5. builds[b].log \in Seq(Bytes) /\ kube[b].output \in Seq(Bytes)
    BY <1>4 DEF BuildRow, KubeJob
  <1>6. fresh \in Seq(Bytes)
    BY <1>5, RestTyped
  <1>7. merged \in Seq(Bytes) /\ Len(merged) >= Len(builds[b].log)
    BY <1>5, <1>6, MergeGrows
  <1>8. builds' = [builds EXCEPT ![b].log = merged]
    BY <1>2
  <1>9. worker' = [worker EXCEPT ![w].step = "inspect", ![w].todo = @ \ {b},
          ![w].build = b, ![w].loaded = builds[b].status, ![w].log = merged]
    BY <1>2
  <1> HIDE DEF merged
  <1>10. builds' = [builds EXCEPT ![b] = [builds[b] EXCEPT !.log = merged]]
    BY <1>8
  <1>11. worker' = [worker EXCEPT ![w] =
           [worker[w] EXCEPT !.step = "inspect", !.todo = worker[w].todo \ {b}, !.build = b,
                             !.loaded = builds[b].status, !.log = merged]]
    BY <1>9, Typed
  <1> QED
    BY <1>7, <1>10, <1>11

LEMMA MirrorLogKeeps ==
  ASSUME BuildsInv, NEW w \in BuildWorkers, MirrorLog(w)
  PROVE  BuildsInv'
  <1>1. PICK b \in worker[w].todo, merged \in Seq(Bytes) :
          /\ Len(merged) >= Len(builds[b].log)
          /\ builds' = [builds EXCEPT ![b] = [builds[b] EXCEPT !.log = merged]]
          /\ worker' = [worker EXCEPT ![w] =
               [worker[w] EXCEPT !.step = "inspect", !.todo = worker[w].todo \ {b}, !.build = b,
                                 !.loaded = builds[b].status, !.log = merged]]
    BY OwnState, Mirrored
  <1> DEFINE e == [builds[b] EXCEPT !.log = merged]
             l == [worker[w] EXCEPT !.step = "inspect", !.todo = worker[w].todo \ {b}, !.build = b,
                                    !.loaded = builds[b].status, !.log = merged]
  <1>2. b \in BuildId /\ builds[b] \in BuildRow /\ b \in 0 .. MaxBuilds /\ b \in 1 .. MaxBuilds
    BY OwnState, Typed
  <1>3. e \in BuildRow /\ e.status = builds[b].status /\ e.log = merged
    BY <1>2 DEF BuildRow
  <1>4. builds[b].status \in {"queued", "running", "succeeded", "failed"}
    BY <1>2 DEF BuildRow
  <1>5. /\ l \in WorkerState
        /\ l.step = "inspect" /\ l.todo = worker[w].todo \ {b} /\ l.build = b /\ l.log = merged
    BY <1>2, <1>4, OwnState DEF WorkerState, Steps
  <1>6. Moves(w, l) /\ builds' = [builds EXCEPT ![b] = e]
    BY <1>1, <1>5 DEF Moves
  <1> HIDE DEF e, l
  <1>7. OneWorker => builds[b].status = "running"
    BY KnowsNow DEF Knows
  <1>8. kube' = kube /\ kills' = kills
    BY DEF MirrorLog
  <1> QED
    BY <1>2, <1>3, <1>5, <1>6, <1>7, <1>8, RowMove

LEMMA RecordJobKeeps ==
  ASSUME BuildsInv, NEW w \in BuildWorkers, RecordJob(w)
  PROVE  BuildsInv'
  <1> DEFINE b == worker[w].build
             e == [builds[b] EXCEPT !.jobId = TRUE]
             l == [worker[w] EXCEPT !.step = "count"]
  <1>1. b \in BuildId /\ builds[b] \in BuildRow
    BY OwnState, Typed DEF RecordJob, At, Busy
  <1>2. e \in BuildRow /\ e.status = builds[b].status
    BY <1>1 DEF BuildRow
  <1>3. /\ l \in WorkerState /\ l.step = "count" /\ l.todo = worker[w].todo
    BY OwnState DEF WorkerState, Steps
  <1>4. builds' = [builds EXCEPT ![b] = e] /\ kube' = kube /\ kills' = kills
    BY <1>1 DEF RecordJob
  <1>5. worker' = [worker EXCEPT ![w] = l]
    BY OwnState, Typed DEF RecordJob
  <1>6. Moves(w, l)
    BY <1>3, <1>5 DEF Moves
  <1> HIDE DEF b, e, l
  <1> QED
    BY <1>1, <1>2, <1>3, <1>4, <1>6, RowMove

\* What Finish stores: the row as it was, or closed with the last lines.
LEMMA Finished ==
  ASSUME BuildsInv, NEW w \in BuildWorkers, Finish(w)
  PROVE  LET b == worker[w].build
         IN \E e \in BuildRow :
              /\ builds' = [builds EXCEPT ![b] = e]
              /\ e.status = "queued" => builds[b].status = "queued"
              /\ \/ e = builds[b]
                 \/ e.log = builds[b].log
                 \/ \E line \in Seq(Bytes) : e.log = worker[w].log \o line
  <1> DEFINE b == worker[w].build
             d == worker[w].decision
             log == IF d.line = << >> THEN builds[b].log ELSE worker[w].log \o d.line
  <1>1. b \in BuildId /\ builds[b] \in BuildRow
    BY OwnState, Typed DEF Finish, At, Busy
  <1>2. CASE ~CanTransition(worker[w].loaded, d.status)
    <2>1. builds' = builds
      BY <1>2 DEF Finish
    <2>2. builds' = [builds EXCEPT ![b] = builds[b]]
      BY <1>1, <2>1, OwnState, Typed
    <2> QED
      BY <1>1, <2>2
  <1>3. CASE CanTransition(worker[w].loaded, d.status)
    <2> DEFINE e == [builds[b] EXCEPT !.status = d.status, !.image = @ \/ d.image, !.log = log]
    <2>1. d \in DecisionRow /\ worker[w].log \in Seq(Bytes)
      BY OwnState DEF WorkerState
    <2>2. d.status \in {"running", "succeeded", "failed"} /\ d.line \in Seq(Bytes)
      BY <2>1 DEF DecisionRow
    <2>3. log \in Seq(Bytes)
      BY <1>1, <2>1, <2>2, ConcatProperties DEF BuildRow
    <2>4. builds' = [builds EXCEPT ![b] = e]
      BY <1>1, <1>3 DEF Finish
    <2> HIDE DEF d
    <2>5. /\ log = builds[b].log \/ \E line \in Seq(Bytes) : log = worker[w].log \o line
      BY <2>2
    <2> HIDE DEF log, b
    <2>6. e \in BuildRow /\ e.status = d.status /\ e.log = log
      BY <1>1, <2>2, <2>3 DEF BuildRow
    <2> HIDE DEF e
    <2>7. e.status # "queued"
      BY <2>2, <2>6
    <2> QED
      BY <2>4, <2>5, <2>6, <2>7 DEF b
  <1> QED
    BY <1>2, <1>3

LEMMA FinishKeeps ==
  ASSUME BuildsInv, NEW w \in BuildWorkers, Finish(w)
  PROVE  BuildsInv'
  <1> DEFINE b == worker[w].build
             l == [worker[w] EXCEPT !.step = "advance"]
  <1>1. b \in BuildId /\ worker[w].step = "finish" /\ kube' = kube /\ kills' = kills
    BY OwnState DEF Finish, At, Busy
  <1>2. /\ l \in WorkerState /\ l.step = "advance" /\ l.todo = worker[w].todo
    BY OwnState DEF WorkerState, Steps
  <1>3. worker' = [worker EXCEPT ![w] = l]
    BY OwnState, Typed DEF Finish
  <1>4. Moves(w, l)
    BY <1>2, <1>3 DEF Moves
  <1> HIDE DEF l
  <1>5. PICK e \in BuildRow : /\ builds' = [builds EXCEPT ![b] = e]
                              /\ e.status = "queued" => builds[b].status = "queued"
    BY Finished
  <1>6. OneWorker => builds[b].status = "running" /\ kube[b].state # "active" /\ b \notin l.todo
    BY <1>1, <1>2, KnowsNow DEF Knows
  <1> HIDE DEF b
  <1> QED
    BY <1>1, <1>2, <1>4, <1>5, <1>6, RowMove

\* The oldest queued build is claimed: one more build runs, and there was room.
LEMMA ClaimNextBuildKeeps ==
  ASSUME BuildsInv, NEW w \in BuildWorkers, ClaimNextBuild(w)
  PROVE  BuildsInv'
  <1>1. PICK b \in Queued : /\ builds' = [builds EXCEPT ![b].status = "running"]
                            /\ worker' = [worker EXCEPT ![w].step = "create", ![w].build = b]
    BY DEF ClaimNextBuild
  <1>2. /\ worker[w].step = "claim" /\ kube' = kube /\ kills' = kills /\ TypeOK /\ Sound
        /\ kube \in [1 .. MaxBuilds -> KubeJob] /\ kills \in Nat
    BY OwnState DEF ClaimNextBuild, At, TypeOK, BuildsInv
  <1> DEFINE e == [builds[b] EXCEPT !.status = "running"]
             l == [worker[w] EXCEPT !.step = "create", !.build = b]
  <1>3. b \in BuildId /\ builds[b].status = "queued" /\ builds[b] \in BuildRow
        /\ b \in 0 .. MaxBuilds
    BY <1>2, OwnState, Typed DEF Queued
  <1>4. e \in BuildRow /\ e.status = "running"
    BY <1>3 DEF BuildRow
  <1>5. builds' = [builds EXCEPT ![b] = e]
    BY <1>1, <1>3
  <1>6. l \in WorkerState /\ l.step = "create" /\ l.todo = worker[w].todo /\ l.build = b
    BY <1>3, OwnState DEF WorkerState, Steps
  <1>7. worker' = [worker EXCEPT ![w] = l]
    BY <1>1, OwnState, Typed
  <1>8. Moves(w, l)
    BY <1>6, <1>7 DEF Moves
  <1> HIDE DEF e, l
  <1>9. /\ builds' \in Seq(BuildRow) /\ Len(builds') = Len(builds)
        /\ builds'[b] = e
        /\ \A c \in BuildId : c # b => builds'[c] = builds[c]
    BY <1>2, <1>3, <1>4, <1>5, RowWritten
  <1>10. worker[w].todo \subseteq BuildId /\ l.step \notin {"inspect", "finish", "claim"}
    BY <1>6, OwnState
  <1>11. Sound'
    BY <1>2, <1>3, <1>4, <1>6, <1>8, <1>9, <1>10, MoveKeepsSound
  <1>12. ASSUME OneWorker PROVE Orderly'
    <2>1. Orderly /\ Knows(worker[w])
      BY <1>12, KnowsNow DEF BuildsInv
    <2>2. BuildId' = BuildId
      BY <1>9 DEF BuildId
    <2>3. worker'[w] = l
      BY <1>2, <1>8, Typed DEF Moves
    <2>4. KnowsPass(w)'
      <3>1. \A c \in l.todo : builds'[c].status = "running"
        <4>1. \A c \in worker[w].todo : c \in BuildId /\ builds[c].status = "running"
          BY <1>10, <2>1 DEF Knows
        <4> QED
          BY <1>4, <1>6, <1>9, <4>1
      <3>2. builds'[l.build].status = "running"
        BY <1>4, <1>6, <1>9
      <3> QED
        BY <1>6, <1>10, <2>3, <3>1, <3>2 DEF KnowsPass
    <2>5. \A v \in BuildWorkers : KnowsPass(v)'
      BY <1>12, <2>4, Lone
    <2>6. \A c \in 1 .. MaxBuilds :
            kube'[c].state = "active" => c \in BuildId' /\ builds'[c].status = "running"
      BY <1>2, <1>4, <1>9, <2>1, <2>2 DEF Orderly
    <2>7. Running' = Running \cup {b} /\ b \notin Running
      BY <1>3, <1>4, <1>9, <2>2 DEF Running
    <2>8. IsFiniteSet(Running) /\ Cardinality(Running) \in Nat
      <3>1. IsFiniteSet(BuildId)
        BY <1>2, Typed, FS_Interval DEF BuildId
      <3>2. Running \subseteq BuildId
        BY DEF Running
      <3> QED
        BY <3>1, <3>2, FS_Subset, FS_CardinalityType
    <2>9. Cardinality(Running) < MaxInFlight
      BY <1>2, <2>1 DEF Knows
    <2>10. Cardinality(Running') = Cardinality(Running) + 1
      BY <2>7, <2>8, FS_AddElement
    <2>11. Cardinality(Running') <= MaxInFlight
      BY <1>2, <2>8, <2>9, <2>10, Typed
    <2> QED
      BY <2>5, <2>6, <2>11 DEF Orderly
  <1> QED
    BY <1>11, <1>12 DEF BuildsInv, OneWorker
-----------------------------------------------------------------------------
(* Steps of others.                                                        *)

\* A request queues a build: the rows that were there stay as they were.
LEMMA CreateBuildKeeps ==
  ASSUME BuildsInv, NEW a \in Artifacts, CreateBuild(a)
  PROVE  BuildsInv'
  <1> DEFINE e == [artifact |-> a, status |-> "queued", jobId |-> FALSE,
                   image |-> FALSE, log |-> << >>]
  <1>1. e \in BuildRow /\ e.status = "queued"
    BY EmptySeq DEF BuildRow
  <1>2. builds' = Append(builds, e)
    BY DEF CreateBuild
  <1> HIDE DEF e
  <1>3. /\ kube' = kube /\ worker' = worker /\ kills' = kills
        /\ Len(builds) < MaxBuilds /\ Sound /\ TypeOK
    BY DEF CreateBuild, BuildsInv, Sound
  <1>4. /\ builds' \in Seq(BuildRow) /\ Len(builds') = Len(builds) + 1
        /\ builds'[Len(builds) + 1] = e
        /\ \A b \in BuildId : builds'[b] = builds[b]
    BY <1>1, <1>2, <1>3, Typed, AppendProperties DEF BuildId
  <1>5. BuildId' = BuildId \cup {Len(builds) + 1} /\ Len(builds) + 1 \notin BuildId
    BY <1>3, <1>4, Typed DEF BuildId
  <1>6. Len(builds') <= MaxBuilds
    BY <1>3, <1>4, Typed
  <1>7. TypeOK'
    BY <1>3, <1>4 DEF TypeOK
  <1>8. ASSUME NEW w \in BuildWorkers PROVE Refers(w)'
    BY <1>3, <1>4, <1>5 DEF Sound, Refers
  <1>9. Sound'
    BY <1>3, <1>6, <1>7, <1>8 DEF Sound, ClaimedOnce
  <1>10. Running' = Running
    BY <1>1, <1>4, <1>5 DEF Running
  <1>11. ASSUME OneWorker PROVE Orderly'
    <2>1. Orderly
      BY <1>11 DEF BuildsInv
    <2>2. ASSUME NEW w \in BuildWorkers PROVE KnowsPass(w)'
      <3>1. KnowsPass(w) /\ Refers(w)
        BY <1>3, <2>1 DEF Orderly, Sound
      <3> QED
        BY <1>3, <1>4, <1>10, <3>1 DEF KnowsPass, Refers
    <2>3. \A b \in 1 .. MaxBuilds :
            kube'[b].state = "active" => b \in BuildId' /\ builds'[b].status = "running"
      BY <1>3, <1>4, <1>5, <2>1 DEF Orderly
    <2> QED
      BY <1>10, <2>1, <2>2, <2>3 DEF Orderly
  <1> QED
    BY <1>9, <1>11 DEF BuildsInv, OneWorker

\* In the cluster no Job becomes active by itself.
LEMMA ClusterKeeps ==
  ASSUME BuildsInv, UNCHANGED <<builds, worker, kills>>,
         kube' \in [1 .. MaxBuilds -> KubeJob],
         \A b \in 1 .. MaxBuilds : kube'[b].state = "active" => kube[b].state = "active"
  PROVE  BuildsInv'
  <1>1. Sound /\ TypeOK
    BY DEF BuildsInv, Sound
  <1>2. TypeOK'
    BY <1>1 DEF TypeOK
  <1>3. \A w \in BuildWorkers : Refers(w)'
    BY <1>1 DEF Sound, Refers, BuildId
  <1>4. Sound'
    BY <1>1, <1>2, <1>3 DEF Sound, ClaimedOnce
  <1>5. ASSUME OneWorker PROVE Orderly'
    <2>1. Orderly
      BY <1>5 DEF BuildsInv
    <2>2. Running' = Running /\ BuildId' = BuildId
      BY DEF Running, BuildId
    <2>3. ASSUME NEW w \in BuildWorkers PROVE KnowsPass(w)'
      <3>1. KnowsPass(w) /\ Refers(w) /\ BuildId \subseteq 1 .. MaxBuilds
        BY <1>1, <2>1, OwnState DEF Orderly, Sound
      <3> QED
        BY <2>2, <3>1 DEF KnowsPass, Refers
    <2> QED
      BY <2>1, <2>2, <2>3 DEF Orderly
  <1> QED
    BY <1>4, <1>5 DEF BuildsInv, OneWorker

\* What a Job writes are bytes.
LEMMA ByteTyped ==
  ASSUME NEW n \in Nat
  PROVE  Byte(n) \in Bytes
  BY DEF Byte, Bytes

LEMMA ClusterStepKeeps ==
  ASSUME BuildsInv, NEW b \in 1 .. MaxBuilds, JobWrites(b) \/ JobEnds(b) \/ JobExpires(b)
  PROVE  BuildsInv'
  <1>1. kube \in [1 .. MaxBuilds -> KubeJob] /\ kube[b] \in KubeJob /\ TypeOK
    BY Typed DEF BuildsInv, Sound
  <1>2. CASE JobWrites(b)
    <2> DEFINE n == Len(kube[b].output) + 1
               job == [kube[b] EXCEPT !.output = Append(kube[b].output, Byte(n))]
    <2>1. kube[b].output \in Seq(Bytes) /\ kube[b].state = "active"
      BY <1>1, <1>2 DEF KubeJob, JobWrites
    <2>2. n \in Nat
      BY <2>1, LenProperties
    <2>3. kube' = [kube EXCEPT ![b] = job]
      BY <1>1, <1>2 DEF JobWrites
    <2> HIDE DEF n
    <2>4. Append(kube[b].output, Byte(n)) \in Seq(Bytes)
      BY <2>1, <2>2, ByteTyped, AppendProperties
    <2>5. job \in KubeJob /\ job.state = "active"
      BY <1>1, <2>1, <2>4 DEF KubeJob
    <2> HIDE DEF job
    <2>6. /\ kube' \in [1 .. MaxBuilds -> KubeJob]
          /\ \A c \in 1 .. MaxBuilds : kube'[c].state = "active" => kube[c].state = "active"
      BY <1>1, <2>1, <2>3, <2>5
    <2> QED
      BY <1>2, <2>6, ClusterKeeps DEF JobWrites
  <1>3. CASE JobEnds(b)
    <2>1. PICK flag \in BOOLEAN :
            kube' \in {[kube EXCEPT ![b].state = "complete", ![b].reports = flag],
                       [kube EXCEPT ![b].state = "failed", ![b].evicted = flag]}
      BY <1>3 DEF JobEnds
    <2> DEFINE done == [kube[b] EXCEPT !.state = "complete", !.reports = flag]
               lost == [kube[b] EXCEPT !.state = "failed", !.evicted = flag]
    <2>2. kube' = [kube EXCEPT ![b] = done] \/ kube' = [kube EXCEPT ![b] = lost]
      BY <1>1, <2>1
    <2>3. /\ done \in KubeJob /\ done.state = "complete"
          /\ lost \in KubeJob /\ lost.state = "failed"
      BY <1>1 DEF KubeJob
    <2> HIDE DEF done, lost
    <2>4. /\ kube' \in [1 .. MaxBuilds -> KubeJob]
          /\ \A c \in 1 .. MaxBuilds : kube'[c].state = "active" => kube[c].state = "active"
      BY <1>1, <2>2, <2>3
    <2> QED
      BY <1>3, <2>4, ClusterKeeps DEF JobEnds
  <1>4. CASE JobExpires(b)
    <2>1. kube' = [kube EXCEPT ![b] = NoJob] /\ UNCHANGED <<builds, worker, kills>>
      BY <1>4 DEF JobExpires
    <2>2. /\ kube' \in [1 .. MaxBuilds -> KubeJob]
          /\ \A c \in 1 .. MaxBuilds : kube'[c].state = "active" => kube[c].state = "active"
      BY <1>1, <2>1, ActiveJob
    <2> QED
      BY <2>1, <2>2, ClusterKeeps
  <1> QED
    BY <1>2, <1>3, <1>4

-----------------------------------------------------------------------------
(* The invariant.                                                          *)

LEMMA BuildsInitially ==
  ASSUME Init PROVE BuildsInv
  <1>1. /\ builds = << >> /\ builds \in Seq(BuildRow) /\ Len(builds) = 0
        /\ kube = [b \in 1 .. MaxBuilds |-> NoJob]
        /\ worker = [w \in BuildWorkers |-> Asleep] /\ kills = 0
    BY EmptySeq DEF Init
  <1>2. BuildId = {}
    BY <1>1 DEF BuildId
  <1>3. \A w \in BuildWorkers : worker[w] = Asleep
    BY <1>1
  <1>4. TypeOK
    <2>1. kube \in [1 .. MaxBuilds -> KubeJob] /\ worker \in [BuildWorkers -> WorkerState]
      BY <1>1, ActiveJob, AsleepTyped
    <2> QED
      BY <1>1, <2>1 DEF TypeOK, WorkerState, DecisionRow
  <1>5. \A w \in BuildWorkers : Refers(w) /\ KnowsPass(w)
    BY <1>3, AsleepTyped DEF Refers, KnowsPass
  <1>6. Sound
    BY <1>1, <1>3, <1>4, <1>5, AsleepTyped, BuildAssumption DEF Sound, ClaimedOnce
  <1>7. Cardinality(Running) <= MaxInFlight
    <2>1. Running = {}
      BY <1>2 DEF Running
    <2> QED
      BY <2>1, FS_EmptySet, BuildAssumption
  <1>8. \A b \in 1 .. MaxBuilds : kube[b].state # "active"
    BY <1>1, ActiveJob
  <1> QED
    BY <1>5, <1>6, <1>7, <1>8 DEF BuildsInv, Orderly

LEMMA PassStepKeeps ==
  ASSUME BuildsInv, NEW w \in BuildWorkers, PassStep(w)
  PROVE  BuildsInv'
  BY StartPassKeeps, MirrorLogKeeps, InspectJobKeeps, InspectFailsKeeps, FinishKeeps,
     CountRunningKeeps, ClaimNextBuildKeeps, NothingToClaimKeeps, CreateJobKeeps,
     RecordJobKeeps, StartFailsKeeps, Zenon DEF PassStep

LEMMA BuildsStep ==
  ASSUME BuildsInv, [Next]_vars
  PROVE  BuildsInv'
  <1>1. CASE UNCHANGED vars
    <2>1. builds' = builds /\ kube' = kube /\ worker' = worker /\ kills' = kills
          /\ kube \in [1 .. MaxBuilds -> KubeJob]
      BY <1>1, Typed DEF vars, BuildsInv, Sound
    <2> QED
      BY <2>1, ClusterKeeps
  <1>2. ASSUME NEW a \in Artifacts, CreateBuild(a) PROVE BuildsInv'
    BY <1>2, CreateBuildKeeps
  <1>3. ASSUME NEW w \in BuildWorkers, PassStep(w) \/ KillWorker(w) PROVE BuildsInv'
    BY <1>3, PassStepKeeps, KillWorkerKeeps
  <1>4. ASSUME NEW b \in 1 .. MaxBuilds, JobWrites(b) \/ JobEnds(b) \/ JobExpires(b)
        PROVE  BuildsInv'
    BY <1>4, ClusterStepKeeps
  <1> QED
    BY <1>1, <1>2, <1>3, <1>4 DEF Next

\* However many workers overlap and are killed, what each refers to exists and
\* no two start the same build; a lone worker in addition knows its pass
\* (build_worker.py:run_pass).
THEOREM BuildsInvariance == Spec => []BuildsInv
  <1>1. Init => BuildsInv
    BY BuildsInitially
  <1>2. BuildsInv /\ [Next]_vars => BuildsInv'
    BY BuildsStep
  <1> QED
    BY <1>1, <1>2, PTL DEF Spec

\* The Jobs in the cluster are those of running rows, and no more of them run
\* than build_max_in_flight, with one worker, wherever a pass is cut short.
THEOREM JobsStayMatched == Spec => []JobsMatchRows
  <1>1. BuildsInv => JobsMatchRows
    <2> SUFFICES ASSUME BuildsInv PROVE JobsMatchRows
      OBVIOUS
    <2>1. TypeOK
      BY DEF BuildsInv, Sound
    <2>2. NoOrphanJob
      BY DEF BuildsInv, Orderly, NoOrphanJob
    <2>3. ASSUME OneWorker
          PROVE  Cardinality({b \in 1 .. MaxBuilds : kube[b].state = "active"}) <= MaxInFlight
      <3> DEFINE active == {b \in 1 .. MaxBuilds : kube[b].state = "active"}
      <3>1. active \subseteq Running /\ Cardinality(Running) <= MaxInFlight
        BY <2>3 DEF BuildsInv, Orderly, Running
      <3>2. IsFiniteSet(Running)
        <4>1. IsFiniteSet(BuildId)
          BY <2>1, Typed, FS_Interval DEF BuildId
        <4> QED
          BY <4>1, FS_Subset DEF Running
      <3>3. /\ Cardinality(active) <= Cardinality(Running)
            /\ Cardinality(active) \in Nat /\ Cardinality(Running) \in Nat
        BY <3>1, <3>2, FS_Subset, FS_CardinalityType
      <3> QED
        BY <2>1, <3>1, <3>3, Typed
    <2> QED
      BY <2>1, <2>2, <2>3 DEF JobsMatchRows, InFlightLimit
  <1> QED
    BY <1>1, BuildsInvariance, PTL

\* Two build workers never create the Job of the same build
\* (_claim_next_build locks the row).
THEOREM BuildsClaimedOnce == Spec => []ClaimedOnce
  <1>1. BuildsInv => ClaimedOnce
    BY DEF BuildsInv, Sound
  <1> QED
    BY <1>1, BuildsInvariance, PTL
-----------------------------------------------------------------------------
(* Rows only grow.                                                         *)

\* What a step may do to the row of build b.
Grows(b) ==
  /\ builds[b].status \notin OpenStatuses =>
       builds'[b].status = builds[b].status /\ builds'[b].image = builds[b].image
  /\ Len(builds'[b].log) >= Len(builds[b].log)

LEMMA SameGrows ==
  ASSUME TypeOK, NEW b \in BuildId, builds'[b] = builds[b]
  PROVE  Grows(b)
  <1>1. Len(builds[b].log) \in Nat
    BY Typed, LenProperties DEF BuildRow
  <1> QED
    BY <1>1 DEF Grows

\* One row is written, and that one grows.
LEMMA WriteGrows ==
  ASSUME TypeOK, NEW b \in BuildId, NEW e \in BuildRow, builds' = [builds EXCEPT ![b] = e],
         builds[b].status \notin OpenStatuses =>
           e.status = builds[b].status /\ e.image = builds[b].image,
         Len(e.log) >= Len(builds[b].log),
         NEW c \in BuildId
  PROVE  Grows(c)
  <1>1. builds'[b] = e /\ (c # b => builds'[c] = builds[c])
    BY RowWritten
  <1>2. CASE c = b
    BY <1>1, <1>2 DEF Grows
  <1>3. CASE c # b
    BY <1>1, <1>3, SameGrows
  <1> QED
    BY <1>2, <1>3

LEMMA MirrorLogGrows ==
  ASSUME BuildsInv, NEW w \in BuildWorkers, MirrorLog(w), NEW c \in BuildId
  PROVE  Grows(c)
  <1>1. PICK b \in worker[w].todo, merged \in Seq(Bytes) :
          /\ Len(merged) >= Len(builds[b].log)
          /\ builds' = [builds EXCEPT ![b] = [builds[b] EXCEPT !.log = merged]]
          /\ worker' = [worker EXCEPT ![w] =
               [worker[w] EXCEPT !.step = "inspect", !.todo = worker[w].todo \ {b}, !.build = b,
                                 !.loaded = builds[b].status, !.log = merged]]
    BY OwnState, Mirrored
  <1> DEFINE e == [builds[b] EXCEPT !.log = merged]
  <1>2. b \in BuildId /\ builds[b] \in BuildRow /\ TypeOK
    BY OwnState, Typed
  <1>3. /\ e \in BuildRow /\ e.log = merged
        /\ e.status = builds[b].status /\ e.image = builds[b].image
    BY <1>2 DEF BuildRow
  <1>4. builds' = [builds EXCEPT ![b] = e]
    BY <1>1
  <1> HIDE DEF e
  <1> QED
    BY <1>1, <1>2, <1>3, <1>4, WriteGrows

LEMMA RecordJobGrows ==
  ASSUME BuildsInv, NEW w \in BuildWorkers, RecordJob(w), NEW c \in BuildId
  PROVE  Grows(c)
  <1> DEFINE b == worker[w].build
             e == [builds[b] EXCEPT !.jobId = TRUE]
  <1>1. b \in BuildId /\ builds[b] \in BuildRow /\ TypeOK
    BY OwnState, Typed DEF RecordJob, At, Busy
  <1>2. /\ e \in BuildRow /\ e.log = builds[b].log
        /\ e.status = builds[b].status /\ e.image = builds[b].image
    BY <1>1 DEF BuildRow
  <1>3. Len(e.log) >= Len(builds[b].log)
    <2>1. Len(builds[b].log) \in Nat
      BY <1>1, LenProperties DEF BuildRow
    <2> QED
      BY <1>2, <2>1
  <1>4. builds' = [builds EXCEPT ![b] = e]
    BY <1>1 DEF RecordJob
  <1> HIDE DEF b, e
  <1> QED
    BY <1>1, <1>2, <1>3, <1>4, WriteGrows

LEMMA ClaimNextBuildGrows ==
  ASSUME BuildsInv, NEW w \in BuildWorkers, ClaimNextBuild(w), NEW c \in BuildId
  PROVE  Grows(c)
  <1>1. PICK b \in Queued : builds' = [builds EXCEPT ![b].status = "running"]
    BY DEF ClaimNextBuild
  <1> DEFINE e == [builds[b] EXCEPT !.status = "running"]
  <1>2. b \in BuildId /\ builds[b].status = "queued" /\ builds[b] \in BuildRow /\ TypeOK
    BY OwnState, Typed DEF Queued
  <1>3. e \in BuildRow /\ e.log = builds[b].log
    BY <1>2 DEF BuildRow
  <1>4. Len(e.log) >= Len(builds[b].log) /\ builds[b].status \in OpenStatuses
    <2>1. Len(builds[b].log) \in Nat
      BY <1>2, LenProperties DEF BuildRow
    <2> QED
      BY <1>2, <1>3, <2>1 DEF OpenStatuses
  <1>5. builds' = [builds EXCEPT ![b] = e]
    BY <1>1, <1>2
  <1> HIDE DEF e
  <1> QED
    BY <1>2, <1>3, <1>4, <1>5, WriteGrows

\* Finish writes the log its worker loaded: with one worker that is the stored
\* one, and the row it closes was open.
LEMMA FinishGrows ==
  ASSUME BuildsInv, OneWorker, NEW w \in BuildWorkers, Finish(w), NEW c \in BuildId
  PROVE  Grows(c)
  <1> DEFINE b == worker[w].build
  <1>1. b \in BuildId /\ builds[b] \in BuildRow /\ TypeOK /\ worker[w].step = "finish"
    BY OwnState, Typed DEF Finish, At, Busy
  <1>2. builds[b].status = "running" /\ worker[w].log = builds[b].log
    BY <1>1, KnowsNow DEF Knows
  <1>3. PICK e \in BuildRow :
          /\ builds' = [builds EXCEPT ![b] = e]
          /\ \/ e = builds[b]
             \/ e.log = builds[b].log
             \/ \E line \in Seq(Bytes) : e.log = worker[w].log \o line
    BY Finished
  <1> HIDE DEF b
  <1>4. builds[b].log \in Seq(Bytes) /\ Len(builds[b].log) \in Nat
    BY <1>1, LenProperties DEF BuildRow
  <1>5. Len(e.log) >= Len(builds[b].log)
    <2>1. \A line \in Seq(Bytes) : Len(worker[w].log \o line) >= Len(builds[b].log)
      BY <1>2, <1>4, ConcatProperties, LenProperties
    <2> QED
      BY <1>3, <1>4, <2>1
  <1>6. builds[b].status \in OpenStatuses
    BY <1>2 DEF OpenStatuses
  <1> QED
    BY <1>1, <1>3, <1>5, <1>6, WriteGrows

LEMMA CreateBuildGrows ==
  ASSUME BuildsInv, NEW a \in Artifacts, CreateBuild(a), NEW c \in BuildId
  PROVE  Grows(c)
  <1> DEFINE e == [artifact |-> a, status |-> "queued", jobId |-> FALSE,
                   image |-> FALSE, log |-> << >>]
  <1>1. e \in BuildRow
    BY EmptySeq DEF BuildRow
  <1>2. builds' = Append(builds, e)
    BY DEF CreateBuild
  <1> HIDE DEF e
  <1>3. TypeOK
    BY DEF BuildsInv, Sound
  <1>4. builds'[c] = builds[c]
    BY <1>1, <1>2, <1>3, Typed, AppendProperties DEF BuildId
  <1> QED
    BY <1>3, <1>4, SameGrows

LEMMA RowsGrow ==
  ASSUME BuildsInv, OneWorker, Next, NEW c \in BuildId
  PROVE  Grows(c)
  <1>1. builds' = builds => Grows(c)
    BY SameGrows DEF BuildsInv, Sound
  <1>2. ASSUME NEW a \in Artifacts, CreateBuild(a) PROVE Grows(c)
    BY <1>2, CreateBuildGrows
  <1>3. ASSUME NEW w \in BuildWorkers, PassStep(w) \/ KillWorker(w) PROVE Grows(c)
    <2>1. CASE MirrorLog(w)
      BY <2>1, MirrorLogGrows
    <2>2. CASE Finish(w)
      BY <2>2, FinishGrows
    <2>3. CASE ClaimNextBuild(w)
      BY <2>3, ClaimNextBuildGrows
    <2>4. CASE RecordJob(w)
      BY <2>4, RecordJobGrows
    <2>5. CASE \/ StartPass(w) \/ InspectJob(w) \/ InspectFails(w) \/ CountRunning(w)
               \/ NothingToClaim(w) \/ CreateJob(w) \/ StartFails(w) \/ KillWorker(w)
      BY <1>1, <2>5 DEF StartPass, InspectJob, InspectFails, CountRunning, NothingToClaim,
                        CreateJob, StartFails, KillWorker
    <2> QED
      BY <1>3, <2>1, <2>2, <2>3, <2>4, <2>5 DEF PassStep
  <1>4. ASSUME NEW b \in 1 .. MaxBuilds, JobWrites(b) \/ JobEnds(b) \/ JobExpires(b)
        PROVE  Grows(c)
    BY <1>1, <1>4 DEF JobWrites, JobEnds, JobExpires
  <1> QED
    BY <1>2, <1>3, <1>4, Zenon DEF Next

\* With one worker a closed build is final and no step shortens a stored log:
\* what a client has read of a build stays true (transition_to, merge_log,
\* _finish).
THEOREM RowsStayGrown == Spec => RowsOnlyGrow
  <1>1. BuildsInv /\ [Next]_vars =>
          [OneWorker =>
             \A b \in BuildId : builds[b].status \notin OpenStatuses =>
               builds'[b].status = builds[b].status /\ builds'[b].image = builds[b].image]_vars
    BY RowsGrow DEF Grows
  <1>2. BuildsInv /\ [Next]_vars =>
          [OneWorker => \A b \in BuildId : Len(builds'[b].log) >= Len(builds[b].log)]_vars
    BY RowsGrow DEF Grows
  <1>3. Spec => FinishedIsFinal
    BY <1>1, BuildsInvariance, PTL DEF Spec, FinishedIsFinal
  <1>4. Spec => LogNeverShrinks
    BY <1>2, BuildsInvariance, PTL DEF Spec, LogNeverShrinks
  <1> QED
    BY <1>3, <1>4 DEF RowsOnlyGrow
================================================================================
