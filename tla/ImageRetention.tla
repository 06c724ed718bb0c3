--------------------------- MODULE ImageRetention ---------------------------
(* Which of an owner's images the registry keeps: the rule that computes    *)
(* retention from the release ledger and the builds                         *)
(* (services/image_retention.py), the writes that check it before they name *)
(* an image (services/deployments.py), and the daily prune that lists tags, *)
(* reads the ledger and untags the rest (services/registry_prune.py).       *)
(*                                                                          *)
(* A build's tag is the build; what it points at is ImageOf[b], and two     *)
(* builds may have produced the same image.                                 *)
EXTENDS Integers, FiniteSets, Sequences

CONSTANTS OwnedApps, ImageBuilds, ImageOf,
          RetainedPast,     \* registry_retained_past_images
          MaxAppReleases,  \* bound: releases of a deployment
          MaxPrunes         \* bound: runs of the prune

Images == {ImageOf[b] : b \in ImageBuilds}

ASSUME RetentionAssumption == {RetainedPast, MaxAppReleases, MaxPrunes} \subseteq Nat

VARIABLES
  build,     \* build[b]: "none", "open", "failed", "fresh" or "old"
  tags,      \* builds whose tag is in the registry
  ledger,    \* ledger[d]: the images of d's releases, in order
  applied,   \* applied[d]: the number of d's applied release, 0 for none
  ready,     \* deployments in the state an update accepts
  goneApps,  \* deployments deleted
  checked,   \* checked[d]: the image of the write in flight that was found retained
  prune,     \* the prune in progress
  left,      \* history: images that have left retention since a build last made them
  prunes

retentionVars == <<build, tags, ledger, applied, ready, goneApps, checked, prune, left, prunes>>

NoImage == "none"
NoPrune == [at |-> "idle", listed |-> {}, doomed |-> {}]

RetentionInit ==
  /\ build = [b \in ImageBuilds |-> "none"] /\ tags = {}
  /\ ledger = [d \in OwnedApps |-> <<>>] /\ applied = [d \in OwnedApps |-> 0]
  /\ ready = OwnedApps /\ goneApps = {}
  /\ checked = [d \in OwnedApps |-> NoImage]
  /\ prune = NoPrune /\ left = {} /\ prunes = 0

-----------------------------------------------------------------------------
(* The rule.                                                                *)

\* The images of d's desired and applied releases.
Current(d) == {ledger[d][n] : n \in {applied[d], Len(ledger[d])} \ {0}}

\* _retention: a live deployment keeps its current images and, walking its
\* earlier releases from the newest, its latest RetainedPast others.
KeptBy(d) ==
  LET last(i) == CHOOSE n \in DOMAIN ledger[d] :
                   /\ ledger[d][n] = i
                   /\ \A m \in DOMAIN ledger[d] : ledger[d][m] = i => m <= n
      past == {ledger[d][n] : n \in DOMAIN ledger[d]} \ Current(d)
  IN Current(d) \union
     {i \in past : Cardinality({j \in past : last(j) > last(i)}) < RetainedPast}

\* Mutant of FreshBuilds: only builds that succeeded are spared.
FreshBuilds_Succeeded == {b \in ImageBuilds : build[b] = "fresh"}

\* _is_fresh: a build that is open, or succeeded within the grace period.
FreshBuilds == {b \in ImageBuilds : build[b] \in {"open", "fresh"}}

\* An open build has recorded no image yet.
Retained ==
  (UNION {KeptBy(d) : d \in OwnedApps \ goneApps}) \union {ImageOf[b] : b \in {c \in ImageBuilds : build[c] = "fresh"}}

\* What a build that succeeds in this step has made.
Made == {ImageOf[b] : b \in {c \in ImageBuilds : build[c] # "fresh" /\ build'[c] = "fresh"}}

\* What leaves retention in this step.
LeavesRetention == left' = (left \union (Retained \ Retained')) \ Made

-----------------------------------------------------------------------------
(* Builds: open, then pushed, then recorded.                                *)

OpenBuild(b) ==
  /\ build[b] = "none" /\ build' = [build EXCEPT ![b] = "open"]
  /\ UNCHANGED <<tags, ledger, applied, ready, goneApps, checked, prune, left, prunes>>

PushTag(b) ==
  /\ build[b] = "open" /\ tags' = tags \union {b}
  /\ UNCHANGED <<build, ledger, applied, ready, goneApps, checked, prune, left, prunes>>

EndBuild(b) ==
  /\ build[b] = "open"
  /\ \/ b \in tags /\ build' = [build EXCEPT ![b] = "fresh"]
     \/ build' = [build EXCEPT ![b] = "failed"]
  /\ UNCHANGED <<tags, ledger, applied, ready, goneApps, checked, prune, prunes>>
  /\ LeavesRetention

\* registry_prune_grace_hours have gone by.
GraceOver(b) ==
  /\ build[b] = "fresh" /\ build' = [build EXCEPT ![b] = "old"]
  /\ UNCHANGED <<tags, ledger, applied, ready, goneApps, checked, prune, prunes>>
  /\ LeavesRetention

-----------------------------------------------------------------------------
(* Deployment writes.                                                       *)

\* _validate_retained_images: judged from the ledger before the write, which
\* commits later.
CheckImage(d, i) ==
  /\ d \notin goneApps /\ checked[d] = NoImage /\ Len(ledger[d]) < MaxAppReleases
  /\ i \in Retained
  /\ checked' = [checked EXCEPT ![d] = i]
  /\ UNCHANGED <<build, tags, ledger, applied, ready, goneApps, prune, left, prunes>>

\* The guarded UPDATE of update_deployment: a release only of a ready one.
WriteRelease(d) ==
  /\ checked[d] # NoImage
  /\ checked' = [checked EXCEPT ![d] = NoImage]
  /\ IF d \in ready /\ d \notin goneApps
       THEN /\ ledger' = [ledger EXCEPT ![d] = Append(@, checked[d])]
            /\ ready' = ready \ {d}
       ELSE UNCHANGED <<ledger, ready>>
  /\ UNCHANGED <<build, tags, applied, goneApps, prune, prunes>>
  /\ LeavesRetention

\* The reconcile succeeds, or fails and leaves what was applied.
Reconciled(d) ==
  /\ d \notin ready /\ ready' = ready \union {d}
  /\ \/ applied' = [applied EXCEPT ![d] = Len(ledger[d])]
     \/ UNCHANGED applied
  /\ UNCHANGED <<build, tags, ledger, goneApps, checked, prune, prunes>>
  /\ LeavesRetention

DropApp(d) ==
  /\ d \notin goneApps /\ goneApps' = goneApps \union {d}
  /\ UNCHANGED <<build, tags, ledger, applied, ready, checked, prune, prunes>>
  /\ LeavesRetention

-----------------------------------------------------------------------------
(* registry_prune.prune.                                                    *)

\* The registry first ...
ListTags ==
  /\ prune.at = "idle" /\ prunes < MaxPrunes /\ prunes' = prunes + 1
  /\ prune' = [NoPrune EXCEPT !.at = "listed", !.listed = tags]
  /\ UNCHANGED <<build, tags, ledger, applied, ready, goneApps, checked, left>>

\* ... then the ledger, in one statement: a tag goes when its build is not fresh
\* and its image is not retained.
ReadLedger ==
  /\ prune.at = "listed"
  /\ prune' = [prune EXCEPT !.at = "removing",
                            !.doomed = {b \in prune.listed \ FreshBuilds : ImageOf[b] \notin Retained}]
  /\ UNCHANGED <<build, tags, ledger, applied, ready, goneApps, checked, left, prunes>>

\* A tag is removed, or could not be and is left for another day.
DeleteTag(b) ==
  /\ b \in prune.doomed
  /\ prune' = [prune EXCEPT !.doomed = @ \ {b}]
  /\ tags' \in {tags, tags \ {b}}
  /\ UNCHANGED <<build, ledger, applied, ready, goneApps, checked, left, prunes>>

EndPrune ==
  /\ prune.at = "removing" /\ prune.doomed = {}
  /\ prune' = NoPrune
  /\ UNCHANGED <<build, tags, ledger, applied, ready, goneApps, checked, left, prunes>>

RetentionNext ==
  \/ \E b \in ImageBuilds : OpenBuild(b) \/ PushTag(b) \/ EndBuild(b) \/ GraceOver(b) \/ DeleteTag(b)
  \/ \E d \in OwnedApps : WriteRelease(d) \/ Reconciled(d) \/ DropApp(d)
                      \/ \E i \in Images : CheckImage(d, i)
  \/ ListTags \/ ReadLedger \/ EndPrune

RetentionSpec == RetentionInit /\ [][RetentionNext]_retentionVars

-----------------------------------------------------------------------------
RetentionTypeOK ==
  /\ build \in [ImageBuilds -> {"none", "open", "failed", "fresh", "old"}] /\ tags \subseteq ImageBuilds
  /\ \A d \in OwnedApps : ledger[d] \in Seq(Images) /\ applied[d] \in 0..Len(ledger[d])
  /\ checked \in [OwnedApps -> Images \union {NoImage}]
  /\ prune.listed \subseteq ImageBuilds /\ prune.doomed \subseteq prune.listed

\* An image in the registry that retention keeps, and has kept since it was
\* built, is not removed, whatever is built, released and deleted while a prune
\* runs: it can be pulled, and no tag the prune has doomed is the last that
\* names it.
RetainedCanBePulled ==
  \A i \in Retained \ left : \E b \in tags \ prune.doomed : ImageOf[b] = i

\* A release of d whose image is already one of d's earlier ones, written while
\* the applied and the desired release carry the same image: of the images the
\* window counts one fewer is left, and it reaches one image further back.
RollsBack(d) ==
  /\ ledger'[d] # ledger[d] /\ checked[d] \in KeptBy(d) \ Current(d)
  /\ applied[d] # 0 /\ ledger[d][applied[d]] = ledger[d][Len(ledger[d])]

\* Nothing but a build, a write that had been checked before its image left, and
\* a rollback bring an image back into retention (_retention; the specification
\* of tenant images knows the first alone).
ReturnsAreKnown ==
  [][\A i \in Retained' \ Retained :
       i \in Made \/ (\E d \in OwnedApps : checked[d] = i) \/ (\E d \in OwnedApps : RollsBack(d))]_retentionVars

\* What retention keeps can be pulled, and what it let go comes back in these
\* ways only.
RetentionHolds == [](RetentionTypeOK /\ RetainedCanBePulled) /\ ReturnsAreKnown
=============================================================================
