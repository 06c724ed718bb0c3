--------------------------- MODULE ProductUpgrader --------------------------
(***************************************************************************)
(* The product upgrader (ops/upgrader/upgrader): runs over the catalog,    *)
(* started each night or from the dashboard, one at a time; each product   *)
(* gets a session of its own, which may be asked to repair its result      *)
(* once, and whose proposal the service publishes itself.  The owner may   *)
(* cancel the run, a session may hang or leave processes behind, GitHub    *)
(* may fail, and the container may restart at any moment.                  *)
(*                                                                         *)
(* One target version per product: a product stands for its branch.        *)
(***************************************************************************)
EXTENDS Naturals, FiniteSets, Sequences, SequencesExt

CONSTANTS
    Catalogs,      \* per run, the eligible products on master, in slug order
    Scopes,        \* what the owner asks for: a product, or Unset for all of them
    MaxRuns,       \* bound: runs in a behaviour
    MaxContainerRestarts,   \* bound: deaths of the container
    MaxCancels     \* bound: cancel requests that are accepted

Unset == "unset"       \* no product, no end, no verdict

\* The products a run may meet: the eligible ones, and those asked for by name.
Slugs == (UNION {Range(Catalogs[r]) : r \in 1 .. MaxRuns}) \cup (Scopes \ {Unset})

ASSUME UpgraderAssumption ==
    /\ MaxRuns \in Nat /\ \A r \in 1 .. MaxRuns : Catalogs[r] \in Seq(Slugs)

VARIABLES
    runLock,    \* Scheduler.lock: the thread that holds it, or "free"
    threads,    \* what the nightly thread and a manual run's thread do
    cancel,     \* Cancellation
    runs,       \* the runs table
    results,    \* the product_results table
    procs,      \* results whose session has live processes
    main,       \* what the session that is waited for has done
    hub,        \* branches and pull requests on GitHub
    asked,      \* runs whose cancel was accepted
    signals,    \* interrupts of an accepted cancel not yet sent
    deaths

upgraderVars == <<runLock, threads, cancel, runs, results, procs, main, hub, asked,
                  signals, deaths>>

Threads == {"nightly", "manual"}
NoWork == [at |-> "idle", run |-> 0, left |-> <<>>, slug |-> Unset, row |-> 0,
         ended |-> Unset, verdict |-> Unset, repaired |-> FALSE]
NotWatching == [run |-> 0, watching |-> FALSE, asked |-> FALSE]
Running(rows) == {k \in DOMAIN rows : ~ rows[k].finished}

UpgraderInit ==
    /\ runLock = "free"
    /\ threads = [t \in Threads |-> NoWork]
    /\ cancel = NotWatching
    /\ runs = <<>> /\ results = <<>>
    /\ procs = {} /\ main = "none"
    /\ hub = [branches |-> {}, pulls |-> {}]
    /\ asked = {} /\ signals = {} /\ deaths = 0

Does(t, change) == threads' = [threads EXCEPT ![t] = change]
Moves(t, at) == Does(t, [threads[t] EXCEPT !.at = at])

-----------------------------------------------------------------------------
(* Scheduler: a run is refused while one is active; the nightly one waits. *)

Request ==
    /\ runLock = "free" /\ threads["manual"].at = "idle" /\ Len(runs) < MaxRuns
    /\ \E scope \in Scopes :
           Does("manual", [NoWork EXCEPT !.at = "starting", !.slug = scope])
    /\ runLock' = "manual"
    /\ UNCHANGED <<cancel, runs, results, procs, main, hub, asked, signals, deaths>>

Due ==
    /\ threads["nightly"].at = "idle" /\ Len(runs) < MaxRuns
    /\ Moves("nightly", "due")
    /\ UNCHANGED <<runLock, cancel, runs, results, procs, main, hub, asked, signals, deaths>>

\* Mutant of RunNightly: the nightly run does not wait for the lock.
RunNightly_NoWait ==
    /\ threads["nightly"].at = "due"
    /\ runLock' = "nightly"
    /\ Moves("nightly", "starting")
    /\ UNCHANGED <<cancel, runs, results, procs, main, hub, asked, signals, deaths>>

RunNightly ==
    /\ threads["nightly"].at = "due"
    /\ runLock = "free"
    /\ runLock' = "nightly"
    /\ Moves("nightly", "starting")
    /\ UNCHANGED <<cancel, runs, results, procs, main, hub, asked, signals, deaths>>

-----------------------------------------------------------------------------
(* execute_run *)

\* What a run works through: the product it was asked for, or all of them.
Eligible(slug, r) == IF slug = Unset THEN Catalogs[r] ELSE <<slug>>

StartRun(t) ==
    /\ threads[t].at = "starting" /\ Len(runs) < MaxRuns
    /\ \E dry \in BOOLEAN :
           runs' = Append(runs, [state |-> "running", dry |-> dry, finished |-> FALSE])
    /\ Does(t, [threads[t] EXCEPT !.at = "registering", !.run = Len(runs) + 1,
                                  !.left = Eligible(threads[t].slug, Len(runs) + 1)])
    /\ UNCHANGED <<runLock, cancel, results, procs, main, hub, asked, signals, deaths>>

RegisterRun(t) ==
    /\ threads[t].at = "registering"
    /\ cancel' = [NotWatching EXCEPT !.run = threads[t].run]
    /\ Moves(t, "next")
    /\ UNCHANGED <<runLock, runs, results, procs, main, hub, asked, signals, deaths>>

NewResult(t, outcome) ==
    Append(results, [run |-> threads[t].run, slug |-> Head(threads[t].left),
                     outcome |-> outcome, finished |-> outcome # "running"])

\* Not eligible on master, or no access to GitHub: recorded without a session.
RecordFailed(t) ==
    /\ threads[t].at = "next" /\ threads[t].left # <<>> /\ ~ cancel.asked
    /\ results' = NewResult(t, "failed")
    /\ Does(t, [threads[t] EXCEPT !.left = Tail(@)])
    /\ UNCHANGED <<runLock, cancel, runs, procs, main, hub, asked, signals, deaths>>

\* The row is committed, then the workspace made. A mkdtemp that raises there
\* is left out: it would close the run and leave this row open to the restart.
StartProduct(t) ==
    /\ threads[t].at = "next" /\ threads[t].left # <<>> /\ ~ cancel.asked
    /\ results' = NewResult(t, "running")
    /\ Does(t, [threads[t] EXCEPT !.at = "preparing", !.left = Tail(@), !.slug = Head(threads[t].left),
                                  !.row = Len(results) + 1, !.ended = Unset, !.verdict = Unset,
                                  !.repaired = FALSE])
    /\ UNCHANGED <<runLock, cancel, runs, procs, main, hub, asked, signals, deaths>>

NoMoreProducts(t) ==
    /\ threads[t].at = "next" /\ (threads[t].left = <<>> \/ cancel.asked)
    /\ Moves(t, "closing")
    /\ UNCHANGED <<runLock, cancel, runs, results, procs, main, hub, asked, signals, deaths>>

\* cancel.stop and, in a transaction after it, the run's state.
StopCancel(t) ==
    /\ threads[t].at = "closing"
    /\ Does(t, [threads[t] EXCEPT !.at = "recording",
                                  !.ended = IF cancel.asked THEN "canceled" ELSE "completed"])
    /\ cancel' = NotWatching
    /\ UNCHANGED <<runLock, runs, results, procs, main, hub, asked, signals, deaths>>

CloseRun(t) ==
    /\ threads[t].at = "recording"
    /\ runs' = [runs EXCEPT ![threads[t].run].state = threads[t].ended,
                            ![threads[t].run].finished = TRUE]
    /\ Moves(t, "leaving")
    /\ UNCHANGED <<runLock, cancel, results, procs, main, hub, asked, signals, deaths>>

ReleaseLock(t) ==
    /\ threads[t].at = "leaving"
    /\ runLock' = "free"
    /\ Does(t, NoWork)
    /\ UNCHANGED <<cancel, runs, results, procs, main, hub, asked, signals, deaths>>

-----------------------------------------------------------------------------
(* execute_product: the clones, the session and what it leaves. *)

PrepareFails(t) ==
    /\ threads[t].at = "preparing"
    /\ Does(t, [threads[t] EXCEPT !.at = "finishing", !.verdict = "failed"])
    /\ UNCHANGED <<runLock, cancel, runs, results, procs, main, hub, asked, signals, deaths>>

\* _run_pi: popen, for the first turn or the repair turn.
Launch(t) ==
    /\ threads[t].at = "preparing"
    /\ procs' = procs \cup {threads[t].row}
    /\ main' = "working"
    /\ Moves(t, "launched")
    /\ UNCHANGED <<runLock, cancel, runs, results, hub, asked, signals, deaths>>

WatchSession(t) ==
    /\ threads[t].at = "launched"
    /\ cancel' = [cancel EXCEPT !.watching = TRUE]
    /\ Does(t, [threads[t] EXCEPT !.at = IF cancel.asked THEN "ending" ELSE "waiting",
                                  !.ended = IF cancel.asked THEN "canceled" ELSE Unset])
    /\ UNCHANGED <<runLock, runs, results, procs, main, hub, asked, signals, deaths>>

\* The session ends, with a result or without; processes it started may live on.
SessionEnds ==
    /\ main = "working"
    /\ main' \in {"would_open", "skipped", "no_result"}
    /\ UNCHANGED <<runLock, threads, cancel, runs, results, procs, hub, asked, signals, deaths>>

\* Mutant of WaitEnds: a session may take as long as it likes.
WaitEnds_NoTimeout(t) ==
    /\ threads[t].at = "waiting"
    /\ \E ended \in {Unset, "canceled"} :
           /\ ended = Unset => main # "working"
           /\ (ended = "canceled") = cancel.asked
           /\ Does(t, [threads[t] EXCEPT !.at = "ending", !.ended = ended])
    /\ UNCHANGED <<runLock, cancel, runs, results, procs, main, hub, asked, signals, deaths>>

\* Of the three ends of the wait, the flag is looked at again after the first.
WaitEnds(t) ==
    /\ threads[t].at = "waiting"
    /\ \E ended \in {Unset, "canceled", "timed_out"} :
           /\ ended = Unset => main # "working"
           /\ (ended = "canceled") = cancel.asked
           /\ Does(t, [threads[t] EXCEPT !.at = "ending", !.ended = ended])
    /\ UNCHANGED <<runLock, cancel, runs, results, procs, main, hub, asked, signals, deaths>>

\* Agent.terminate: every process of the session's user, asked and then killed.
Terminate(t) ==
    /\ threads[t].at = "ending"
    /\ cancel' = [cancel EXCEPT !.watching = FALSE]
    /\ procs' = {}
    /\ main' = IF main = "working" THEN "no_result" ELSE main
    /\ Moves(t, IF threads[t].ended = Unset THEN "judging" ELSE "storing")
    /\ UNCHANGED <<runLock, runs, results, hub, asked, signals, deaths>>

\* _judge: a result that is refused gets one more turn, if there is a transcript.
Judge(t) ==
    /\ threads[t].at = "judging"
    /\ \E accepted \in BOOLEAN, transcript \in BOOLEAN :
           /\ accepted => main # "no_result"
           /\ Does(t, IF accepted
                      THEN [threads[t] EXCEPT !.at = "storing", !.verdict = main]
                      ELSE IF transcript /\ ~ threads[t].repaired
                      THEN [threads[t] EXCEPT !.at = "preparing", !.repaired = TRUE]
                      ELSE [threads[t] EXCEPT !.at = "storing", !.verdict = "failed"])
    /\ UNCHANGED <<runLock, cancel, runs, results, procs, main, hub, asked, signals, deaths>>

\* _store_files comes before _publish; what it raises is the product's outcome.
StoreFiles(t) ==
    /\ threads[t].at = "storing"
    /\ \E stored \in BOOLEAN :
           Does(t, IF ~ stored
                   THEN [threads[t] EXCEPT !.at = "finishing", !.ended = Unset, !.verdict = "failed"]
                   ELSE IF threads[t].verdict = "would_open" /\ ~ runs[threads[t].run].dry
                   THEN [threads[t] EXCEPT !.at = "pushing"]
                   ELSE [threads[t] EXCEPT !.at = "finishing"])
    /\ UNCHANGED <<runLock, cancel, runs, results, procs, main, hub, asked, signals, deaths>>

\* Clone.publish: a branch that exists is refused.
Push(t) ==
    /\ threads[t].at = "pushing"
    /\ \/ /\ threads[t].slug \notin hub.branches
          /\ hub' = [hub EXCEPT !.branches = @ \cup {threads[t].slug}]
          /\ Moves(t, "opening")
       \/ /\ UNCHANGED hub
          /\ Does(t, [threads[t] EXCEPT !.at = "finishing", !.verdict = "failed"])
    /\ UNCHANGED <<runLock, cancel, runs, results, procs, main, asked, signals, deaths>>

OpenPullRequest(t) ==
    /\ threads[t].at = "opening"
    /\ \/ /\ hub' = [hub EXCEPT !.pulls = @ \cup {threads[t].slug}]
          /\ Does(t, [threads[t] EXCEPT !.at = "finishing", !.verdict = "opened"])
       \/ /\ UNCHANGED hub
          /\ Does(t, [threads[t] EXCEPT !.at = "finishing", !.verdict = "failed"])
    /\ UNCHANGED <<runLock, cancel, runs, results, procs, main, asked, signals, deaths>>

OutcomeOf(work) == IF work.ended # Unset THEN work.ended ELSE work.verdict

FinishProduct(t) ==
    /\ threads[t].at = "finishing"
    /\ results' = [results EXCEPT ![threads[t].row].outcome = OutcomeOf(threads[t]),
                                  ![threads[t].row].finished = TRUE]
    /\ main' = "none"
    /\ Does(t, [NoWork EXCEPT !.at = "next", !.run = threads[t].run, !.left = threads[t].left])
    /\ UNCHANGED <<runLock, cancel, runs, procs, hub, asked, signals, deaths>>

-----------------------------------------------------------------------------
(* The owner, and the container. *)

\* Cancellation.request: the flag under the lock, the signal after it.
Cancel(r) ==
    /\ Cardinality(asked) < MaxCancels
    /\ ~ runs[r].finished
    /\ cancel.run = r
    /\ cancel' = [cancel EXCEPT !.asked = TRUE]
    /\ signals' = IF cancel.watching THEN signals \cup {r} ELSE signals
    /\ asked' = asked \cup {r}
    /\ UNCHANGED <<runLock, threads, runs, results, procs, main, hub, deaths>>

\* Agent.interrupt: every process of the session's user is asked to end.
InterruptSession(r) ==
    /\ signals' = signals \ {r}
    /\ main' \in (IF main = "working" THEN {"working", "no_result"} ELSE {main})
    /\ UNCHANGED <<runLock, threads, cancel, runs, results, procs, hub, asked, deaths>>

\* The container restarts, and lifespan closes what it had begun.
RestartUpgrader ==
    /\ deaths < MaxContainerRestarts
    /\ deaths' = deaths + 1
    /\ runLock' = "free"
    /\ threads' = [t \in Threads |-> NoWork]
    /\ cancel' = NotWatching
    /\ procs' = {} /\ main' = "none" /\ signals' = {}
    /\ runs' = [k \in DOMAIN runs |->
                   IF runs[k].finished THEN runs[k]
                   ELSE [runs[k] EXCEPT !.state = "interrupted", !.finished = TRUE]]
    /\ results' = [k \in DOMAIN results |->
                   IF results[k].finished THEN results[k]
                   ELSE [results[k] EXCEPT !.outcome = "interrupted", !.finished = TRUE]]
    /\ UNCHANGED <<hub, asked>>

ThreadStep(t) ==
    \/ StartRun(t) \/ RegisterRun(t) \/ RecordFailed(t) \/ StartProduct(t)
    \/ NoMoreProducts(t) \/ StopCancel(t) \/ CloseRun(t) \/ ReleaseLock(t)
    \/ PrepareFails(t) \/ Launch(t) \/ WatchSession(t) \/ WaitEnds(t) \/ Terminate(t)
    \/ Judge(t) \/ StoreFiles(t) \/ Push(t) \/ OpenPullRequest(t) \/ FinishProduct(t)

UpgraderNext ==
    \/ Request \/ Due \/ RunNightly \/ SessionEnds \/ RestartUpgrader
    \/ \E t \in Threads : ThreadStep(t)
    \/ \E r \in DOMAIN runs : Cancel(r)
    \/ \E r \in signals : InterruptSession(r)

\* A thread goes on, and the timeout ends a session that does not.
UpgraderFairness == \A t \in Threads : WF_upgraderVars(ThreadStep(t))

UpgraderSpec == UpgraderInit /\ [][UpgraderNext]_upgraderVars /\ UpgraderFairness

-----------------------------------------------------------------------------
(* Properties *)

\* Types of the upgrader's state.
UpgraderTypeOK ==
    /\ runLock \in Threads \cup {"free"}
    /\ cancel \in [run : 0 .. MaxRuns, watching : BOOLEAN, asked : BOOLEAN]
    /\ \A k \in DOMAIN runs :
           runs[k].state \in {"running", "completed", "canceled", "interrupted"}
    /\ \A k \in DOMAIN results :
           /\ results[k].run \in DOMAIN runs /\ results[k].slug \in Slugs
           /\ results[k].outcome \in {"running", "opened", "would_open", "skipped", "failed",
                                      "timed_out", "canceled", "interrupted"}
    /\ procs \subseteq DOMAIN results

\* The lock, the nightly thread's wait for it and the rows closed at a restart:
\* never two runs without a finish time, nor two products, nor a product that
\* outlives its run (scheduler.py, db.py close_interrupted).
OneActiveRun ==
    /\ Cardinality(Running(runs)) <= 1
    /\ Cardinality(Running(results)) <= 1
    /\ \A k \in Running(results) : ~ runs[results[k].run].finished

\* A cancel ends the run it names, at whatever moment it was accepted, and no
\* other: exactly the runs that were asked to end are recorded canceled, but for
\* those a restart closed first (cancel.py, start, stop and request).
CancelIsExact ==
    \A r \in DOMAIN runs :
        /\ runs[r].state = "canceled" => r \in asked
        /\ r \in asked /\ runs[r].finished => runs[r].state \in {"canceled", "interrupted"}

\* A session, and whatever it started, has ended before its product is recorded,
\* so that none is there for the next (agent.py terminate, runner.py _run_pi).
SessionsEndFirst ==
    /\ Cardinality(procs) <= 1
    /\ \A k \in procs : ~ results[k].finished

\* A product recorded opened has its pull request, opened by that result alone,
\* and only a real run ever publishes (runner.py _publish, proposal.py publish).
OpenedOnce ==
    \A slug \in Slugs :
        LET opened == {k \in DOMAIN results :
                          results[k].slug = slug /\ results[k].outcome = "opened"}
        IN /\ Cardinality(opened) <= 1
           /\ opened # {} => slug \in hub.pulls
           /\ \A k \in opened : ~ runs[results[k].run].dry
           /\ slug \in hub.branches =>
                \E k \in DOMAIN results : results[k].slug = slug /\ ~ runs[results[k].run].dry

\* Every run ends, whatever its sessions do.
RunsEnd == \A r \in 1 .. MaxRuns : (r \in Running(runs)) ~> (r \notin Running(runs))

\* Runs, their sessions and their proposals do not get into each other's way,
\* whatever is requested, cancelled and restarted.
RunsKeepApart == UpgraderTypeOK /\ OneActiveRun /\ CancelIsExact /\ SessionsEndFirst /\ OpenedOnce

\* Runs of several products, one session after the other, keep apart and end.
RunsEndApart == RunsEnd /\ []RunsKeepApart
=============================================================================
