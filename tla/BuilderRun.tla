----------------------------- MODULE BuilderRun -----------------------------
(* One build's pod (products/custom/builder/build.py, and the Job made for  *)
(* it by services/build_jobs.py): an archive is extracted as it arrives,    *)
(* built and pushed, while a thread of the same process samples the memory  *)
(* it uses; the outcome and the usage leave the pod in one termination      *)
(* message, which the build worker parses.                                  *)
EXTENDS Naturals, Sequences, FiniteSets, FiniteSetsExt

CONSTANTS
  Archives,        \* records [members, end]: what the artifact's URL yields
  MaxArchive,      \* limit of the bytes received
  MaxEntries,      \* limit of the entries
  MaxExtracted,    \* limit of the bytes extracted
  Levels,          \* working sets the cgroup may show
  KeepsPeak,       \* the cgroup has a high-water mark of its own (v2)
  MaxErrorChars, MessageCap, FrameSize, UsageSize, \* sizes of a termination message
  MaxTransient,    \* bound: probes of the egress gate that fail before the jail is up
  MaxTicks         \* bound: how often the clock moves

ArchiveMember == [kind : {"file", "directory", "link", "absolute", "escapes"}, size : Nat, packed : Nat,
           dockerfile : BOOLEAN, chars : Nat, width : Nat]

ASSUME BuilderAssumption ==
  /\ Archives \subseteq [members : Seq(ArchiveMember), end : {"complete", "cut"}]
  /\ {MaxArchive, MaxEntries, MaxExtracted, MaxErrorChars, MessageCap, FrameSize, UsageSize, MaxTicks} \subseteq Nat
  /\ Levels \subseteq Nat /\ KeepsPeak \in BOOLEAN /\ MaxTransient \in {0, 1}

VARIABLES
  pod,       \* "gate", "running", "completed", "failed", "deleted"
  gate,      \* the egress gate: its refusals in a row, whether the jail is up
  pc,        \* where main is
  archive,   \* the archive, the members already taken from it, bytes received
  tree,      \* the extracted tree: entries, bytes, whether it has a Dockerfile
  image,     \* of the build tool: pushed or not, and the metadata file
  outcome,   \* the payload that main reports
  message,   \* the termination message
  meter,     \* the fields of UsageMeter and its thread
  lock,      \* holder of its lock
  cgroup,    \* the working set and its high-water mark
  clock,     \* the monotonic clock
  wallBack,  \* the wall clock has been set back during the run
  readings   \* ghost: the readings made, by whom

builderVars == <<pod, gate, pc, archive, tree, image, outcome, message, meter, lock, cgroup, clock, wallBack, readings>>

NoReading == [at |-> 0, level |-> 0, known |-> FALSE]
NoOutcome == [image |-> FALSE, error |-> 0, width |-> 0]
NoMessage == [written |-> FALSE, cut |-> FALSE, image |-> FALSE, usage |-> {}, backwards |-> FALSE]

BuilderInit ==
  /\ pod = "gate" /\ pc = "start" /\ gate = [refused |-> 0, jailed |-> FALSE, transient |-> 0]
  /\ archive \in {[members |-> a.members, end |-> a.end, received |-> 0] : a \in Archives}
  /\ tree = [entries |-> 0, bytes |-> 0, dockerfile |-> FALSE]
  /\ image = [pushed |-> FALSE, digest |-> "none"]
  /\ outcome = NoOutcome /\ message = NoMessage
  /\ meter = [thread |-> "none", stopped |-> FALSE, failed |-> FALSE, last |-> NoReading,
              doubled |-> 0, max |-> 0, now |-> 0, woken |-> 0]
  /\ lock = "free" /\ cgroup \in [level : Levels, peak : {0}]
  /\ clock = 0 /\ wallBack = FALSE /\ readings = <<>>

MainAt(place) == pod = "running" /\ pc = place
KeepsMeter == UNCHANGED <<meter, lock, readings>>
KeepsWork == UNCHANGED <<archive, tree, image>>
Outside == UNCHANGED <<cgroup, clock, wallBack>>

----------------------------------------------------------------------------
(* The egress gate, an init container that runs before the build's          *)

ByGate == UNCHANGED <<pc, outcome, message>> /\ KeepsMeter /\ KeepsWork /\ Outside

\* The namespace's policy is programmed for the pod some time after it starts.
JailComesUp ==
  /\ pod = "gate" /\ ~gate.jailed /\ gate' = [gate EXCEPT !.jailed = TRUE]
  /\ UNCHANGED pod /\ ByGate

\* One refusal may be a failure of another kind.
Enough(refused) == refused >= 2

\* A probe of the API server: refused by the jail, or failing for a moment
\* before that; refusals count only in a row.
Probe ==
  /\ pod = "gate"
  /\ \/ /\ gate.jailed \/ gate.transient < MaxTransient
        /\ gate' = [gate EXCEPT !.refused = @ + 1, !.transient = IF gate.jailed THEN @ ELSE @ + 1]
        /\ pod' = IF Enough(gate'.refused) THEN "running" ELSE "gate"
     \/ ~gate.jailed /\ gate' = [gate EXCEPT !.refused = 0] /\ UNCHANGED pod
  /\ ByGate

\* Past its deadline the gate fails the pod.
GateFails ==
  /\ pod = "gate" /\ pod' = "failed"
  /\ UNCHANGED gate /\ ByGate

GateStep == JailComesUp \/ Probe \/ GateFails

----------------------------------------------------------------------------
(* The meter *)

\* sample takes the lock and the time ...
Locks(who) ==
  /\ lock = "free" /\ lock' = who
  /\ meter' = [meter EXCEPT !.now = clock, !.thread = IF who = "thread" THEN "reads" ELSE @]

\* ... reads the working set, and adds the trapezoid since the last reading.
\* One unreadable file is remembered for good.
Reads(who) ==
  /\ lock = who /\ lock' = "free"
  /\ \/ /\ meter' = [meter EXCEPT
              !.doubled = IF meter.last.known
                          THEN @ + (meter.last.level + cgroup.level) * (meter.now - meter.last.at) ELSE @,
              !.last = [at |-> meter.now, level |-> cgroup.level, known |-> TRUE],
              !.max = IF cgroup.level > @ THEN cgroup.level ELSE @,
              !.thread = IF who = "thread" THEN "waits" ELSE @, !.woken = clock]
        /\ readings' = Append(readings, [at |-> meter.now, level |-> cgroup.level, by |-> who])
     \/ /\ meter' = [meter EXCEPT !.failed = TRUE, !.thread = IF who = "thread" THEN "waits" ELSE @,
                                  !.woken = clock]
        /\ UNCHANGED readings

\* The thread: Event.wait ends with the interval, or with the stop.
Wakes ==
  /\ pod = "running" /\ meter.thread = "waits" /\ (meter.stopped \/ clock > meter.woken)
  /\ meter' = [meter EXCEPT !.thread = IF meter.stopped THEN "ended" ELSE "wants"]
  /\ UNCHANGED <<lock, readings>>

Samples ==
  /\ pod = "running"
  /\ \/ meter.thread = "wants" /\ Locks("thread") /\ UNCHANGED readings
     \/ meter.thread = "reads" /\ Reads("thread")

MeterStep ==
  /\ Wakes \/ Samples
  /\ UNCHANGED <<pod, gate, pc, outcome, message>> /\ KeepsWork /\ Outside

----------------------------------------------------------------------------
(* main *)

\* UsageMeter.start: a first reading, then the thread.
FirstReading ==
  /\ \/ MainAt("start") /\ Locks("main") /\ pc' = "first" /\ UNCHANGED readings
     \/ MainAt("first") /\ Reads("main") /\ pc' = "begin"
  /\ UNCHANGED <<pod, gate, outcome, message>> /\ KeepsWork /\ Outside

StartThread ==
  /\ MainAt("begin") /\ pc' = "prepare"
  /\ meter' = [meter EXCEPT !.thread = "waits", !.woken = clock]
  /\ UNCHANGED <<pod, gate, outcome, message, lock, readings>> /\ KeepsWork /\ Outside

\* Every failure is caught, and only its text is reported.
Fails(chars, width) ==
  outcome' = [image |-> FALSE, error |-> IF chars > MaxErrorChars THEN MaxErrorChars ELSE chars, width |-> width]
  /\ pc' = "stop"

\* A setting is missing or no number, a configuration file cannot be
\* written, or the URL answers with an error.
Passes(here, next) ==
  /\ MainAt(here)
  /\ Fails(1, 1) \/ (pc' = next /\ UNCHANGED outcome)
  /\ UNCHANGED <<pod, gate, message>> /\ KeepsMeter /\ KeepsWork /\ Outside

ReadSettings == Passes("prepare", "configure")
WriteConfigs == Passes("configure", "open")
OpenArtifact == Passes("open", "extract")

\* A member that would pass a limit is not written.
Breaches(m) == tree.entries + 1 > MaxEntries \/ (m.kind = "file" /\ tree.bytes + m.size > MaxExtracted)

Refused(m) == m.kind \in {"absolute", "escapes"}

\* One member of the stream: the bytes received are bounded before it is
\* seen, then the entries, its path and its size.
ExtractMember ==
  /\ MainAt("extract") /\ archive.members # <<>>
  /\ LET m == Head(archive.members)
         received == archive.received + m.packed
     IN /\ archive' = [archive EXCEPT !.members = Tail(@), !.received = received]
        /\ IF received > MaxArchive \/ Breaches(m) THEN Fails(1, 1) /\ UNCHANGED tree
           ELSE IF Refused(m) THEN Fails(m.chars, m.width) /\ UNCHANGED tree
           ELSE /\ tree' = [entries |-> tree.entries + 1,
                            bytes |-> IF m.kind = "file" THEN tree.bytes + m.size ELSE tree.bytes,
                            dockerfile |-> tree.dockerfile \/ m.dockerfile]
                /\ UNCHANGED <<outcome, pc>>
  /\ UNCHANGED <<pod, gate, message, image>> /\ KeepsMeter /\ Outside

\* The project's own Dockerfile is built; else its stack is detected first.
SelectedStage == IF tree.dockerfile THEN "build" ELSE "plan"

\* The end of the stream: complete, or broken off or corrupt; a disk that
\* cannot be written fails the extraction at any member.
EndExtraction ==
  /\ MainAt("extract")
  /\ \/ archive.members = <<>> /\ archive.end = "complete"
        /\ pc' = SelectedStage /\ UNCHANGED outcome
     \/ archive.members = <<>> /\ archive.end # "complete" /\ Fails(1, 1)
     \/ archive.members # <<>> /\ Fails(1, 1)
  /\ UNCHANGED <<pod, gate, message>> /\ KeepsMeter /\ KeepsWork /\ Outside

\* railpack: it fails, or writes no plan, or a plan.
PreparePlan == Passes("plan", "build")

\* The build tool pushes the image under the build's tag. What it does with
\* the owner's layer cache never fails a build.
PushImage ==
  /\ MainAt("build") /\ ~image.pushed
  /\ \E digest \in {"none", "malformed", "true"} : image' = [pushed |-> TRUE, digest |-> digest]
  /\ UNCHANGED <<pod, gate, pc, outcome, message, archive, tree>> /\ KeepsMeter /\ Outside

\* The tool ends, with status zero only after the push.
BuildEnds ==
  /\ MainAt("build")
  /\ Fails(1, 1) \/ (image.pushed /\ pc' = "digest" /\ UNCHANGED outcome)
  /\ UNCHANGED <<pod, gate, message>> /\ KeepsMeter /\ KeepsWork /\ Outside

\* The digest is read from the tool's metadata file, or there is none.
ReadDigest ==
  /\ MainAt("digest")
  /\ IF image.digest = "true" THEN pc' = "inspect" /\ UNCHANGED outcome ELSE Fails(1, 1)
  /\ UNCHANGED <<pod, gate, message>> /\ KeepsMeter /\ KeepsWork /\ Outside

\* The image's config is fetched for a warning. A registry that refuses, or
\* sends nonsense, costs the warning; a body cut short is an error of another
\* class, and fails the build.
InspectImage ==
  /\ MainAt("inspect")
  /\ \/ outcome' = [image |-> TRUE, error |-> 0, width |-> 0] /\ pc' = "stop"
     \/ Fails(1, 1)
  /\ UNCHANGED <<pod, gate, message>> /\ KeepsMeter /\ KeepsWork /\ Outside

\* UsageMeter.finish: stop the thread, wait for its end, read once more.
StopMeter ==
  /\ MainAt("stop") /\ pc' = "join" /\ meter' = [meter EXCEPT !.stopped = TRUE]
  /\ UNCHANGED <<pod, gate, outcome, message, lock, readings>> /\ KeepsWork /\ Outside

\* Mutant of ThreadGone: the thread is told to stop and not waited for.
ThreadGone_NotAwaited == TRUE
ThreadGone == meter.thread = "ended"

LastReading ==
  /\ \/ MainAt("join") /\ ThreadGone /\ Locks("main") /\ pc' = "last" /\ UNCHANGED readings
     \/ MainAt("last") /\ Reads("main") /\ pc' = "report"
  /\ UNCHANGED <<pod, gate, outcome, message>> /\ KeepsWork /\ Outside

\* What is measured is reported whole or not at all.
Usage(readable) ==
  IF meter.failed \/ ~readable THEN {}
  ELSE {[doubled |-> meter.doubled, peak |-> IF KeepsPeak THEN cgroup.peak ELSE meter.max]}

\* JSON escapes what is not ASCII, and Kubernetes cuts a message at its cap.
IsCut(usage) == FrameSize + outcome.error * outcome.width + Cardinality(usage) * UsageSize > MessageCap

\* The message. One that cannot be written changes nothing else.
Report ==
  /\ MainAt("report")
  /\ \E readable \in BOOLEAN :
       message' \in {NoMessage, [written |-> TRUE, cut |-> IsCut(Usage(readable)), image |-> outcome.image,
                                usage |-> Usage(readable), backwards |-> wallBack]}
  /\ pc' = "exit"
  /\ UNCHANGED <<pod, gate, outcome>> /\ KeepsMeter /\ KeepsWork /\ Outside

Exit ==
  /\ MainAt("exit") /\ pc' = "gone"
  /\ pod' = IF outcome.image THEN "completed" ELSE "failed"
  /\ UNCHANGED <<gate, outcome, message>> /\ KeepsMeter /\ KeepsWork /\ Outside

MainStep ==
  \/ FirstReading \/ StartThread \/ ReadSettings \/ WriteConfigs \/ OpenArtifact \/ ExtractMember \/ EndExtraction \/ PreparePlan \/ PushImage
  \/ BuildEnds \/ ReadDigest \/ InspectImage \/ StopMeter \/ LastReading \/ Report \/ Exit

----------------------------------------------------------------------------
(* Around it *)

\* The pod is killed (memory, eviction), keeping a message already written,
\* or the Job's deadline deletes it; nothing is tried again.
Killed ==
  /\ pod \in {"gate", "running"}
  /\ \/ pod' = "failed" /\ UNCHANGED message
     \/ pod' = "deleted" /\ message' = NoMessage
  /\ pc' = "gone"
  /\ UNCHANGED <<gate, outcome>> /\ KeepsMeter /\ KeepsWork /\ Outside

\* Time passes and the memory in use changes; the wall clock may be set back.
Tick ==
  /\ pod = "running" /\ clock < MaxTicks
  /\ clock' = clock + 1
  /\ \E l \in Levels, back \in BOOLEAN :
       /\ cgroup' = [level |-> l, peak |-> Max({cgroup.peak, cgroup.level, l})]
       /\ wallBack' = (wallBack \/ back)
  /\ UNCHANGED <<pod, gate, pc, outcome, message>> /\ KeepsMeter /\ KeepsWork

BuilderNext == GateStep \/ MainStep \/ MeterStep \/ Killed \/ Tick

BuilderSpec == BuilderInit /\ [][BuilderNext]_builderVars

----------------------------------------------------------------------------
(* What the build worker makes of it *)

\* A message is there once its container has ended; one that was cut is no JSON.
Payload == IF pod \in {"completed", "failed"} /\ ~message.cut THEN message ELSE NoMessage

ImageIn == Payload.image

\* Times that run backwards are not believed.
UsageIn == IF Payload.backwards THEN {} ELSE Payload.usage

----------------------------------------------------------------------------
(* Properties *)

\* No build step runs before the pod is jailed, though a probe may fail once
\* for another reason ("so a single transient failure is not mistaken").
BuildIsJailed == pod = "running" => gate.jailed

\* What the worker may take for an image was pushed by this build, whose main
\* ended well: a failure never carries one, whenever the pod is killed.
ImageIsPushed ==
  /\ ImageIn => image = [pushed |-> TRUE, digest |-> "true"] /\ outcome.image
  /\ pod = "completed" => image.pushed /\ outcome.image

\* The disk holds no more than the limits, not even for a moment.
TreeIsBounded == tree.entries <= MaxEntries /\ tree.bytes <= MaxExtracted

\* Twice the area under the readings up to the k-th.
Doubled(i) == (readings[i].level + readings[i + 1].level) * (readings[i + 1].at - readings[i].at)
Area[k \in 1..Len(readings)] == IF k = 1 THEN 0 ELSE Area[k - 1] + Doubled(k - 1)

\* A reported usage is the whole run's: it integrates every reading from
\* main's first to main's last, in order of time, and its peak is above all.
UsageIsExact ==
  \A u \in UsageIn :
    LET n == Len(readings)
    IN /\ n >= 2 /\ ~meter.failed
       /\ \A i \in 1..n : (readings[i].by = "main") <=> i \in {1, n}
       /\ \A i \in 1..(n - 1) : readings[i].at <= readings[i + 1].at
       /\ u.doubled = Area[n]
       /\ ~KeepsPeak => \A i \in 1..n : readings[i].level <= u.peak

\* The parts of what a build's pod promises.
BuildsReportTruly == BuildIsJailed /\ ImageIsPushed /\ TreeIsBounded /\ UsageIsExact
============================================================================
