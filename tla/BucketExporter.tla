--------------------------- MODULE BucketExporter ---------------------------
(* The bucket exporter (daemons/bucket-exporter): one bucket's size is read *)
(* per turn, turns alternating between the buckets its request log shows as *)
(* written and the bucket tried longest ago; a refresh of the bucket list   *)
(* and of the log runs beside the reads, and a restart keeps nothing but    *)
(* the sizes Prometheus remembers.                                          *)
(*                                                                          *)
(* There is no clock: a time is kept as the order of the events it stamps.  *)
(* A bucket's size is the number of writes it has taken. Aliases are        *)
(* numbers, so that ties are broken by alias as the code breaks them.       *)
EXTENDS Integers, FiniteSets, FiniteSetsExt

CONSTANTS Buckets,       \* aliases of the deployment buckets that may exist
          MaxWrites,     \* bound: writes to a bucket
          MaxOutages     \* bound: failed calls, lost marks, restarts and list changes

ASSUME ExporterAssumption ==
  /\ Buckets \subseteq Nat /\ IsFiniteSet(Buckets) /\ {MaxWrites, MaxOutages} \subseteq Nat

VARIABLES
  exists,      \* buckets Garage holds
  actual,      \* actual[b]: b's size now, NoSize before it is made
  unread,      \* buckets with writes in the log past the cursor
  listed,      \* buckets the exporter knows
  tried,       \* for each it has tried, those it had tried longer ago
  size,        \* size[b]: the published size, NoSize while none is known
  changed,     \* buckets marked as written after their last read began
  reading,     \* the read in progress
  changedTurn, activityOK,
  dirty,       \* history: buckets written since their last successful read began
  dropped,     \* history: buckets whose writes the exporter learned of and ignored
  waited,      \* history: turns since b was tried, or since the list last changed
  outages

exporterVars == <<exists, actual, unread, listed, tried, size, changed, reading, changedTurn,
                  activityOK, dirty, dropped, waited, outages>>

NoSize == -1
NoneTried == [b \in {} |-> {}]
NotReading == [bucket |-> -1, from |-> 0, marked |-> FALSE, dirty |-> {}, dropped |-> {}]

\* NewState.
ExporterInit ==
  /\ exists \in SUBSET Buckets /\ actual = [b \in Buckets |-> IF b \in exists THEN 0 ELSE NoSize]
  /\ unread = {}
  /\ listed = {} /\ tried = NoneTried /\ size = [b \in Buckets |-> NoSize]
  /\ changed = {} /\ reading = NotReading
  /\ changedTurn = TRUE /\ activityOK = FALSE
  /\ dirty = {} /\ dropped = {} /\ waited = [b \in Buckets |-> 0] /\ outages = 0

-----------------------------------------------------------------------------
(* Garage.                                                                  *)

WriteObject(b) ==
  /\ b \in exists /\ actual[b] < MaxWrites
  /\ actual' = [actual EXCEPT ![b] = @ + 1]
  /\ unread' = unread \union {b} /\ dirty' = dirty \union {b}
  /\ UNCHANGED <<exists, listed, tried, size, changed, reading, changedTurn, activityOK, dropped,
                 waited, outages>>

\* A bucket is made, or removed with its deployment; an alias names the
\* deployment and is not used again.
ChangeBuckets(b) ==
  /\ outages < MaxOutages /\ outages' = outages + 1
  /\ \/ b \in exists /\ exists' = exists \ {b} /\ UNCHANGED actual
     \/ actual[b] = NoSize /\ exists' = exists \union {b} /\ actual' = [actual EXCEPT ![b] = 0]
  /\ UNCHANGED <<unread, listed, tried, size, changed, reading, changedTurn, activityOK, dirty,
                 dropped, waited>>

-----------------------------------------------------------------------------
(* The reads.                                                               *)

\* oldest: of the buckets of S, one never tried, else the one tried longest ago.
Oldest(S) ==
  LET untried == S \ DOMAIN tried IN
  IF untried # {} THEN Min(untried) ELSE CHOOSE b \in S : tried[b] \intersect S = {}

\* Next: turns alternate; a changed turn without a changed bucket falls through.
NextBucket ==
  LET hot == IF changedTurn /\ activityOK THEN changed \intersect listed ELSE {} IN
  Oldest(IF hot # {} THEN hot ELSE listed)

\* ReadOne up to the call: the turn is taken and the bucket counts as tried.
BeginRead ==
  LET b == NextBucket IN
  /\ reading = NotReading /\ listed # {}
  /\ changedTurn' = ~changedTurn
  /\ tried' = [c \in DOMAIN tried \union {b} |-> (IF c = b THEN DOMAIN tried ELSE tried[c]) \ {b}]
  /\ reading' = [bucket |-> b, from |-> actual[b], marked |-> FALSE,
                 dirty |-> dirty \intersect {b}, dropped |-> dropped \intersect {b}]
  /\ waited' = [c \in Buckets |-> IF c = b \/ c \notin listed THEN 0 ELSE waited[c] + 1]
  /\ dirty' = dirty \ {b} /\ dropped' = dropped \ {b}
  /\ UNCHANGED <<exists, actual, unread, listed, size, changed, activityOK, outages>>

\* Mutant of FinishRead: a finished read always clears the mark.
FinishRead_ClearsMark ==
  LET b == reading.bucket IN
  /\ b \in exists
  /\ IF b \in listed
       THEN /\ \E v \in reading.from..actual[b] : size' = [size EXCEPT ![b] = v]
            /\ changed' = changed \ {b}
       ELSE UNCHANGED <<size, changed>>
  /\ reading' = NotReading
  /\ UNCHANGED <<exists, actual, unread, listed, tried, changedTurn, activityOK, dirty, dropped,
                 waited, outages>>

\* Read: the size is one the bucket had during the call; a mark made meanwhile
\* for a write after the call began outlives it.
FinishRead ==
  LET b == reading.bucket IN
  /\ b \in exists
  /\ IF b \in listed
       THEN /\ \E v \in reading.from..actual[b] : size' = [size EXCEPT ![b] = v]
            /\ changed' = IF reading.marked THEN changed ELSE changed \ {b}
       ELSE UNCHANGED <<size, changed>>
  /\ reading' = NotReading
  /\ UNCHANGED <<exists, actual, unread, listed, tried, changedTurn, activityOK, dirty, dropped,
                 waited, outages>>

\* ReadFailed: the bucket is gone, or Garage did not answer. What was written
\* before this read began is unread still.
FailRead ==
  LET b == reading.bucket IN
  /\ reading # NotReading
  /\ \/ b \notin exists /\ UNCHANGED outages
     \/ b \in exists /\ outages < MaxOutages /\ outages' = outages + 1
  /\ reading' = NotReading
  /\ dirty' = dirty \union reading.dirty /\ dropped' = dropped \union reading.dropped
  /\ UNCHANGED <<exists, actual, unread, listed, tried, size, changed, changedTurn, activityOK, waited>>

-----------------------------------------------------------------------------
(* The refresh.                                                             *)

\* SetBuckets: new buckets unread, vanished ones dropped.
SetBuckets(present) ==
  /\ listed' = present
  /\ tried' = [b \in DOMAIN tried \intersect present |-> tried[b] \intersect present]
  /\ size' = [b \in Buckets |-> IF b \in present THEN size[b] ELSE NoSize]
  /\ waited' = IF present = listed THEN waited ELSE [b \in Buckets |-> 0]

\* The list cannot be read: it is kept.
KeepBuckets ==
  /\ outages < MaxOutages /\ outages' = outages + 1
  /\ UNCHANGED <<listed, tried, size, waited>>

\* Activity.Writes and MarkWritten: the log is read up to its lag, so writes of
\* the buckets in `left` may still be ahead of the cursor. A mark carries the
\* end of the range: it is later than the last read, or than the read in
\* progress, whenever the write was, and may be later when the write was not.
MarkWritten(names, left) ==
  LET sure == (names \ left) \intersect (dirty \union reading.dirty) IN
  \E marks \in {m \in SUBSET (names \intersect listed') : sure \intersect listed' \subseteq m} :
    /\ changed' = (changed \intersect listed') \union marks
    /\ \E during \in BOOLEAN :
         /\ during => reading.bucket \in marks
         /\ reading.bucket \in (sure \intersect dirty) => during
         /\ reading' = [reading EXCEPT !.marked = @ \/ during]

\* Exporter.Refresh: the list, then the log. The cursor moves on a successful
\* read even when the cross-check then finds the signal broken, and the marks
\* of that range are lost.
Refresh1(keep) ==
  /\ IF keep THEN KeepBuckets ELSE SetBuckets(exists) /\ UNCHANGED outages
  /\ \E left \in SUBSET unread :
       \E names \in {n \in SUBSET unread : n \union left = unread} :
         /\ unread' = left /\ activityOK' = TRUE
         /\ MarkWritten(names, left)
         /\ dropped' = dropped \union (names \ listed')
  /\ UNCHANGED <<exists, actual, changedTurn, dirty>>

RefreshBuckets == Refresh1(FALSE)
RefreshListFails == Refresh1(TRUE)

\* The log cannot be read, or is found broken: reads go in plain order.
RefreshSignalFails ==
  /\ outages < MaxOutages /\ outages' = outages + 1
  /\ SetBuckets(exists)
  /\ activityOK' = FALSE
  /\ changed' = changed \intersect exists
  /\ \/ UNCHANGED <<unread, dropped>>
     \/ unread' = {} /\ dropped' = dropped \union unread
  /\ UNCHANGED <<exists, actual, reading, changedTurn, dirty>>

\* A restart, and Start: the sizes Prometheus recovered are seeded, if it
\* answers, before the first refresh; everything else is new.
ExporterRestart ==
  /\ outages < MaxOutages /\ outages' = outages + 1
  /\ \E seeded \in {{}, {b \in Buckets : size[b] # NoSize}} :
       /\ listed' = seeded
       /\ size' = [b \in Buckets |-> IF b \in seeded THEN size[b] ELSE NoSize]
  /\ tried' = NoneTried /\ changed' = {} /\ reading' = NotReading
  /\ changedTurn' = TRUE /\ activityOK' = FALSE
  /\ dropped' = dropped \union unread \union dirty /\ unread' = {}
  /\ waited' = [b \in Buckets |-> 0]
  /\ UNCHANGED <<exists, actual, dirty>>

ExporterNext ==
  \/ \E b \in Buckets : WriteObject(b) \/ ChangeBuckets(b)
  \/ BeginRead \/ FinishRead \/ FailRead
  \/ RefreshBuckets \/ RefreshListFails \/ RefreshSignalFails \/ ExporterRestart

ExporterSpec == ExporterInit /\ [][ExporterNext]_exporterVars

\* The two tickers of run keep firing.
ExporterFairness == WF_exporterVars(BeginRead) /\ WF_exporterVars(FinishRead) /\ WF_exporterVars(FailRead)
                    /\ WF_exporterVars(RefreshBuckets)

-----------------------------------------------------------------------------
ExporterTypeOK ==
  /\ exists \subseteq Buckets /\ listed \subseteq Buckets /\ unread \subseteq Buckets
  /\ actual \in [Buckets -> NoSize..MaxWrites] /\ size \in [Buckets -> NoSize..MaxWrites]
  /\ DOMAIN tried \subseteq listed /\ changed \subseteq listed
  /\ reading.bucket \in Buckets \union {-1}

\* "at least every other read goes to the longest-ago bucket, which bounds every
\* bucket's staleness at 2 x buckets reads" (State.Next): however many buckets
\* are written and marked, and however reads fail, none is passed over longer.
NoBucketStarves == \A b \in listed : waited[b] < 2 * Cardinality(listed)

\* A write that was not seen by the last read is never forgotten: it is still
\* ahead of the log's cursor, or its bucket is marked as changed, unless the
\* exporter dropped the mark on a failure -- and then the bucket still has its
\* turn (NoBucketStarves).
WritesAreMarked ==
  \A b \in (dirty \ dropped) \intersect listed : b \in unread \/ b \in changed

\* Once nothing is written any more, what is published is what each bucket
\* holds, through failed reads, a lost signal and restarts.
SizesConverge == <>[](\A b \in exists : size[b] = actual[b])

\* Published sizes keep up with the buckets, whichever are written.
SizesKeepUp == ExporterTypeOK /\ NoBucketStarves /\ WritesAreMarked
=============================================================================
