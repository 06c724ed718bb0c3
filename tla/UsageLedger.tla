----------------------------- MODULE UsageLedger -----------------------------
(* The usage ledger (api/app/services/usage): the sampler that records      *)
(* closed windows of every measurement source, each from a position derived *)
(* from what is recorded; the recording of builds; and the report.          *)
(*                                                                          *)
(* Time runs in ticks, Window of them to a window; a window is named by its *)
(* index on the grid. What a source measured for a window is rigid; whether *)
(* it can be reached when it is read is not.                                *)
EXTENDS Integers, FiniteSets, FiniteSetsExt

CONSTANTS Sources, Builds,
          Window,       \* usage_window_seconds, in ticks
          Settle,       \* usage_settle_seconds, in ticks
          Lookback,     \* usage_first_run_lookback_seconds, in ticks
          MaxPerPass,   \* usage_max_windows_per_pass
          RunOf,        \* RunOf[b]: a build's clocks, and whether it measured itself
          Rates,        \* usage_rate: {[from, price]}, from a window on
          NoSource,
          MaxTick,      \* bound: the clock stops here
          MaxFaults     \* bound: deaths of the sampler and failed reads

ASSUME LedgerAssumption ==
  /\ Window \in Nat \ {0} /\ {Settle, Lookback, MaxPerPass, MaxTick, MaxFaults} \subseteq Nat
  /\ RunOf \in [Builds -> [started : Nat, finished : Nat, usageStarted : Nat, usageFinished : Nat,
                           measured : BOOLEAN]]
  /\ Rates \subseteq [from : Nat, price : Nat]
  /\ NoSource \notin Sources

Windows == 0..(MaxTick \div Window)

VARIABLES
  tick,
  quality,   \* quality[s][w]: "down", "empty" or "data": what s measured over w
  recorded,  \* recorded[s]: windows with samples of the metrics only s records
  measured,  \* history: measured[s], windows read as usable, the empty ones too
  pass,      \* the sampling pass in progress
  buildRows, \* {<<b, w>>}: samples of builds
  billed,    \* builds whose usage_recorded_at is set
  faults

ledgerVars == <<tick, quality, recorded, measured, pass, buildRows, billed, faults>>

NoPass == [now |-> -1, todo |-> {}, src |-> NoSource, next |-> 0, stop |-> 0]

LedgerInit ==
  /\ tick = 0
  /\ quality \in [Sources -> [Windows -> {"down", "empty", "data"}]]
  /\ recorded = [s \in Sources |-> {}] /\ measured = [s \in Sources |-> {}]
  /\ pass = NoPass
  /\ buildRows = {} /\ billed = {} /\ faults = 0

-----------------------------------------------------------------------------
(* The sampler.                                                             *)

\* align: the window a moment falls in; moments before the epoch do not occur.
Align(t) == IF t < 0 THEN 0 ELSE t \div Window

\* resume_from: one window past what is recorded, a bounded lookback when
\* nothing is.
ResumeFrom(s, now) == IF recorded[s] # {} THEN Max(recorded[s]) + 1 ELSE Align(now - Lookback)

\* recordable_until: the first window that has not closed and settled.
RecordableUntil(now) == Align(now - Settle)

\* pending_windows: [next, stop), oldest first and bounded.
PendingStop(s, now) ==
  LET start == ResumeFrom(s, now)
      count == Max({0, RecordableUntil(now) - start}) IN
  start + Min({MaxPerPass, count})

BeginPass ==
  /\ pass.now = -1
  /\ pass' = [NoPass EXCEPT !.now = tick, !.todo = Sources]
  /\ UNCHANGED <<tick, quality, recorded, measured, buildRows, billed, faults>>

BeginSource(s) ==
  /\ pass.now # -1 /\ pass.src = NoSource /\ s \in pass.todo
  /\ pass' = [pass EXCEPT !.todo = @ \ {s}, !.src = s,
                          !.next = ResumeFrom(s, pass.now), !.stop = PendingStop(s, pass.now)]
  /\ UNCHANGED <<tick, quality, recorded, measured, buildRows, billed, faults>>

\* One window is read and committed: its samples, or nothing when it is empty.
RecordWindow ==
  LET s == pass.src
      w == pass.next IN
  /\ s # NoSource /\ w < pass.stop
  /\ quality[s][w] # "down"
  /\ recorded' = IF quality[s][w] = "data" THEN [recorded EXCEPT ![s] = @ \union {w}] ELSE recorded
  /\ measured' = [measured EXCEPT ![s] = @ \union {w}]
  /\ pass' = [pass EXCEPT !.next = w + 1]
  /\ UNCHANGED <<tick, quality, buildRows, billed, faults>>

\* Mutant of StopSource: an unusable window is skipped and the source goes on.
StopSource_GoesOn ==
  /\ pass.src # NoSource /\ pass.next < pass.stop
  /\ \/ quality[pass.src][pass.next] = "down" /\ UNCHANGED faults
     \/ quality[pass.src][pass.next] # "down" /\ faults < MaxFaults /\ faults' = faults + 1
  /\ pass' = [pass EXCEPT !.next = @ + 1]
  /\ UNCHANGED <<tick, quality, recorded, measured, buildRows, billed>>

\* The window is unusable -- the exporter was down over it, or cannot be asked
\* now -- or the source raises: the source stops here for this pass.
StopSource ==
  /\ pass.src # NoSource /\ pass.next < pass.stop
  /\ \/ quality[pass.src][pass.next] = "down" /\ UNCHANGED faults
     \/ quality[pass.src][pass.next] # "down" /\ faults < MaxFaults /\ faults' = faults + 1
  /\ pass' = [pass EXCEPT !.src = NoSource]
  /\ UNCHANGED <<tick, quality, recorded, measured, buildRows, billed>>

FinishSource ==
  /\ pass.src # NoSource /\ pass.next >= pass.stop
  /\ pass' = [pass EXCEPT !.src = NoSource]
  /\ UNCHANGED <<tick, quality, recorded, measured, buildRows, billed, faults>>

EndPass ==
  /\ pass.now # -1 /\ pass.src = NoSource /\ pass.todo = {}
  /\ pass' = NoPass
  /\ UNCHANGED <<tick, quality, recorded, measured, buildRows, billed, faults>>

\* The worker dies; what was not committed is gone.
SamplerCrash ==
  /\ pass.now # -1 /\ faults < MaxFaults
  /\ faults' = faults + 1 /\ pass' = NoPass
  /\ UNCHANGED <<tick, quality, recorded, measured, buildRows, billed>>

-----------------------------------------------------------------------------
(* Builds.                                                                  *)

\* run_of: the container's own run when it reported, else the worker's.
RunStart(b) == IF RunOf[b].measured THEN RunOf[b].usageStarted ELSE RunOf[b].started
RunEnd(b) == IF RunOf[b].measured THEN RunOf[b].usageFinished ELSE RunOf[b].finished

\* window_quantities: the windows from the one the run starts in up to its
\* end, each with the ticks of the run that fall within it.
WindowsOf(b) == {w \in Windows : Align(RunStart(b)) <= w /\ w * Window < RunEnd(b)}
Overlap(b, w) == Min({RunEnd(b), (w + 1) * Window}) - Max({RunStart(b), w * Window})

\* record_settled_builds: the oldest finished build whose windows have all
\* settled, its samples and its mark in one transaction.
EndOf(b) == IF RunOf[b].measured THEN Max({RunOf[b].finished, RunOf[b].usageFinished}) ELSE RunOf[b].finished
RecordBuild(b) ==
  /\ b \notin billed /\ RunOf[b].finished <= tick
  /\ EndOf(b) < RecordableUntil(tick) * Window
  /\ buildRows' = IF RunEnd(b) <= RunStart(b) THEN buildRows
                  ELSE buildRows \union {<<b, w>> : w \in WindowsOf(b)}
  /\ billed' = billed \union {b}
  /\ UNCHANGED <<tick, quality, recorded, measured, pass, faults>>

LedgerTick ==
  /\ tick < MaxTick /\ tick' = tick + 1
  /\ UNCHANGED <<quality, recorded, measured, pass, buildRows, billed, faults>>

LedgerNext ==
  \/ BeginPass \/ RecordWindow \/ StopSource \/ FinishSource \/ EndPass \/ SamplerCrash \/ LedgerTick
  \/ \E s \in Sources : BeginSource(s)
  \/ \E b \in Builds : RecordBuild(b)

\* The worker repeats its pass until it is signalled, and the build worker its
\* recording; faults are bounded.
LedgerFairness ==
  /\ WF_ledgerVars(BeginPass \/ RecordWindow \/ StopSource \/ FinishSource \/ EndPass
                    \/ \E s \in Sources : BeginSource(s))
  /\ \A b \in Builds : WF_ledgerVars(RecordBuild(b))

-----------------------------------------------------------------------------
(* The report: samples of [lo, hi), each at the rate in effect at its       *)
(* window. A recorded window of a source counts one unit, a build its ticks.*)
RateAt(w) == LET past == {r \in Rates : r.from <= w} IN
             IF past = {} THEN 0 ELSE (CHOOSE r \in past : \A q \in past : q.from <= r.from).price
Cost(lo, hi) ==
    MapThenSumSet(LAMBDA s : MapThenSumSet(RateAt, {w \in recorded[s] : lo <= w /\ w < hi}), Sources)
  + MapThenSumSet(LAMBDA x : Overlap(x[1], x[2]) * RateAt(x[2]), {x \in buildRows : lo <= x[2] /\ x[2] < hi})

-----------------------------------------------------------------------------
LedgerTypeOK ==
  /\ tick \in 0..MaxTick /\ faults \in 0..MaxFaults
  /\ quality \in [Sources -> [Windows -> {"down", "empty", "data"}]]
  /\ recorded \in [Sources -> SUBSET Windows] /\ measured \in [Sources -> SUBSET Windows]
  /\ pass \in [now : -1..MaxTick, todo : SUBSET Sources, src : Sources \union {NoSource},
               next : Nat, stop : Nat]
  /\ buildRows \subseteq Builds \X Windows /\ billed \subseteq Builds

\* A source's position is the newest window it recorded, so a window recorded
\* past an unmeasured one would strand it for good: between the windows a source
\* recorded lies none it did not measure.
NoStrandedWindow ==
  \A s \in Sources : \A v, w \in recorded[s] : \A x \in Windows :
    v < x /\ x < w => x \in measured[s]

\* Nothing is recorded for a window that was still open or still settling, from
\* the sampler or from a build, whichever clock says the build ended.
OnlySettledWindows ==
  \A w \in (UNION {recorded[s] : s \in Sources}) \union {x[2] : x \in buildRows} :
    (w + 1) * Window + Settle <= tick

\* A recorded build's windows hold the whole of its run, however it falls on the
\* grid: nothing twice, nothing lost at an edge.
BuildsAreWhole ==
  \A b \in billed :
    MapThenSumSet(LAMBDA w : Overlap(b, w), {w \in Windows : <<b, w>> \in buildRows})
      = Max({0, RunEnd(b) - RunStart(b)})

\* Reports of two adjoining periods add up to the report of both. (From the
\* first window: other periods are differences of these.)
ReportsAddUp ==
  \A mid, hi \in Windows : mid <= hi => Cost(0, hi) = Cost(0, mid) + Cost(mid, hi)

\* A source that can be read catches up: with no window down before it and
\* never a whole pass of empty ones, every settled window is measured; and every
\* build is recorded once its windows have settled.
CatchesUp ==
  /\ \A s \in Sources, w \in Windows :
       (/\ (w + 1) * Window + Settle <= tick
        /\ \A v \in Windows : v <= w => quality[s][v] # "down"
        /\ \A v \in Windows : \E x \in v..(v + MaxPerPass - 1) : x >= w \/ quality[s][x] = "data")
       ~> (w \in measured[s] \/ \E v \in recorded[s] : w < v)
  /\ \A b \in Builds : (EndOf(b) + Window + Settle <= tick) ~> (b \in billed)

\* What is recorded is what was measured, each window and each build once, and
\* nothing that could still be recorded is out of reach.
LedgerHolds == LedgerTypeOK /\ NoStrandedWindow /\ OnlySettledWindows /\ BuildsAreWhole /\ ReportsAddUp
=============================================================================
