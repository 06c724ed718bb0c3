-------------------------- MODULE Components_proofs --------------------------
(* What TLAPS proves about the components that share no state with another: *)
(* images under retention, the runs of the product upgrader, the following  *)
(* of a log, the pod of a build, object storage, a deploy from the command  *)
(* line, and vars. Each part is a specification, its inductive invariant,   *)
(* and the property that the runs check on an instance.                     *)
EXTENDS ImageRetention, ProductUpgrader, LogFollow, BuilderRun, ObjectStorage, ClientDeploy, DeploymentVars,
        FiniteSetTheorems, WellFoundedInduction, TLAPS

-----------------------------------------------------------------------------
(* Numbers and finite sets.                                                 *)

Below == {p \in Nat \X Nat : p[1] < p[2]}

\* The order of the natural numbers is well founded.
LEMMA NatIsWellFounded == IsWellFoundedOn(Below, Nat)
  BY NatLessThanWellFounded DEF Below, OpToRel

\* A nonempty set of natural numbers has a least one.
LEMMA HasLeast ==
  ASSUME NEW S \in SUBSET Nat, S # {}
  PROVE  \E m \in S : \A k \in S : m <= k
<1>1. PICK m \in S : \A k \in S : <<k, m>> \notin Below
  BY NatIsWellFounded, WFMin
<1>2. ASSUME NEW k \in S PROVE m <= k
  <2>1. k \in Nat /\ m \in Nat /\ <<k, m>> \in Nat \X Nat /\ <<k, m>>[1] = k /\ <<k, m>>[2] = m
    OBVIOUS
  <2>2. ~(k < m)
    BY <1>1, <2>1 DEF Below
  <2> QED
    BY <2>1, <2>2
<1> QED
  BY <1>2

\* A nonempty set of positions has a greatest one.
LEMMA HasGreatest ==
  ASSUME NEW n \in Nat, NEW S \in SUBSET (1..n), S # {}
  PROVE  \E m \in S : \A k \in S : k <= m
<1> DEFINE T == {d \in Nat : n - d \in S}
<1>1. T \in SUBSET Nat
  OBVIOUS
<1>2. \A k \in S : n - k \in T /\ k \in Nat
  OBVIOUS
<1>3. PICK m \in T : \A k \in T : m <= k
  <2>1. T # {}
    BY <1>2
  <2> HIDE DEF T
  <2> QED
    BY <1>1, <2>1, HasLeast
<1>4. n - m \in S /\ m \in Nat
  OBVIOUS
<1>5. \A k \in S : k <= n - m
  BY <1>2, <1>3, <1>4
<1> QED
  BY <1>4, <1>5

-----------------------------------------------------------------------------
(* The window of a deployment's past images, as a function of its releases. *)

LastIn(s, i) == CHOOSE n \in DOMAIN s : s[n] = i /\ \A m \in DOMAIN s : s[m] = i => m <= n
CurrentOf(s, a) == {s[n] : n \in {a, Len(s)} \ {0}}
PastOf(s, a) == {s[n] : n \in DOMAIN s} \ CurrentOf(s, a)
NewerIn(s, a, i) == {j \in PastOf(s, a) : LastIn(s, j) > LastIn(s, i)}
KeptOf(s, a) == CurrentOf(s, a) \union {i \in PastOf(s, a) : Cardinality(NewerIn(s, a, i)) < RetainedPast}

\* KeptBy is that function of the deployment's releases, before and after a step.
LEMMA KeptIsOf ==
  \A d : /\ KeptBy(d) = KeptOf(ledger[d], applied[d]) /\ Current(d) = CurrentOf(ledger[d], applied[d])
         /\ KeptBy(d)' = KeptOf(ledger'[d], applied'[d])
BY DEF KeptBy, Current, KeptOf, CurrentOf, PastOf, NewerIn, LastIn

\* The last position of an image in the releases.
LEMMA LastIsIn ==
  ASSUME NEW X, NEW s \in Seq(X), NEW p \in DOMAIN s
  PROVE  /\ LastIn(s, s[p]) \in DOMAIN s /\ s[LastIn(s, s[p])] = s[p]
         /\ \A m \in DOMAIN s : s[m] = s[p] => m <= LastIn(s, s[p])
<1> DEFINE S == {n \in DOMAIN s : s[n] = s[p]}
<1>1. Len(s) \in Nat /\ DOMAIN s = 1..Len(s) /\ S \in SUBSET (1..Len(s)) /\ S # {}
  OBVIOUS
<1>2. PICK m \in S : \A k \in S : k <= m
  <2> HIDE DEF S
  <2> QED
    BY <1>1, HasGreatest
<1>3. \E n \in DOMAIN s : s[n] = s[p] /\ \A k \in DOMAIN s : s[k] = s[p] => k <= n
  BY <1>2
<1> QED
  BY <1>3 DEF LastIn

\* Appending another image does not move the last position of this one.
LEMMA LastStays ==
  ASSUME NEW X, NEW s \in Seq(X), NEW c \in X, NEW p \in DOMAIN s, s[p] # c
  PROVE  LastIn(Append(s, c), s[p]) = LastIn(s, s[p])
<1> DEFINE t == Append(s, c)
           l == LastIn(s, s[p])
           k == LastIn(t, s[p])
<1>1. /\ t \in Seq(X) /\ Len(t) = Len(s) + 1 /\ DOMAIN s = 1..Len(s) /\ DOMAIN t = 1..(Len(s) + 1) /\ Len(s) \in Nat
      /\ t[Len(s) + 1] = c /\ \A n \in DOMAIN s : n \in DOMAIN t /\ t[n] = s[n]
  OBVIOUS
<1>2. l \in DOMAIN s /\ s[l] = s[p] /\ \A m \in DOMAIN s : s[m] = s[p] => m <= l
  BY LastIsIn
<1>3. p \in DOMAIN t /\ t[p] = s[p]
  BY <1>1
<1>4. k \in DOMAIN t /\ t[k] = s[p] /\ \A m \in DOMAIN t : t[m] = s[p] => m <= k
  <2> HIDE DEF t
  <2>1. LastIn(t, t[p]) \in DOMAIN t /\ t[LastIn(t, t[p])] = t[p] /\ \A m \in DOMAIN t : t[m] = t[p] => m <= LastIn(t, t[p])
    BY <1>1, <1>3, LastIsIn
  <2> QED
    BY <2>1, <1>3
<1>5. k # Len(s) + 1
  BY <1>1, <1>4
<1> HIDE DEF t, l, k
<1>6. k \in DOMAIN s /\ s[k] = s[p]
  BY <1>1, <1>4, <1>5
<1>7. k <= l /\ l <= k
  BY <1>1, <1>2, <1>4, <1>6
<1>8. k \in Nat /\ l \in Nat
  BY <1>1, <1>2, <1>6
<1>9. k = l
  BY <1>7, <1>8
<1> QED
  BY <1>9 DEF k, l, t

\* There are finitely many past images.
LEMMA PastIsFinite ==
  ASSUME NEW X, NEW s \in Seq(X), NEW a
  PROVE  IsFiniteSet(PastOf(s, a)) /\ \A i : IsFiniteSet(NewerIn(s, a, i)) /\ Cardinality(NewerIn(s, a, i)) \in Nat
<1> DEFINE R == {s[n] : n \in DOMAIN s}
<1>1. IsFiniteSet(1..Len(s)) /\ DOMAIN s = 1..Len(s)
  BY FS_Interval
<1>2. IsFiniteSet(R)
  <2> DEFINE f == [n \in DOMAIN s |-> s[n]]
  <2>1. f \in Surjection(DOMAIN s, R)
    BY DEF Surjection
  <2> HIDE DEF f, R
  <2> QED
    BY <1>1, <2>1, FS_Surjection
<1>3. PastOf(s, a) \subseteq R
  BY DEF PastOf
<1> HIDE DEF R
<1>4. IsFiniteSet(PastOf(s, a))
  BY <1>2, <1>3, FS_Subset
<1>5. \A i : NewerIn(s, a, i) \subseteq PastOf(s, a)
  BY DEF NewerIn
<1> QED
  BY <1>4, <1>5, FS_Subset, FS_CardinalityType

\* What a window counts as newer than i, when more is counted: i is in it no longer.
LEMMA FewerIsKept ==
  ASSUME NEW S, NEW T, IsFiniteSet(T), S \subseteq T, Cardinality(T) < RetainedPast
  PROVE  Cardinality(S) < RetainedPast
<1>1. IsFiniteSet(S) /\ Cardinality(S) <= Cardinality(T)
  BY FS_Subset
<1>2. Cardinality(S) \in Nat /\ Cardinality(T) \in Nat /\ RetainedPast \in Nat
  BY <1>1, FS_CardinalityType, RetentionAssumption
<1> QED
  BY <1>1, <1>2

\* A release that is applied brings no image back: the one it replaces is one
\* more that the window counts.
LEMMA ApplyingKeepsNoMore ==
  ASSUME NEW X, NEW s \in Seq(X), NEW a \in 0..Len(s)
  PROVE  KeptOf(s, Len(s)) \subseteq KeptOf(s, a)
<1>1. CurrentOf(s, Len(s)) \subseteq CurrentOf(s, a) /\ PastOf(s, a) \subseteq PastOf(s, Len(s))
  BY DEF CurrentOf, PastOf
<1>2. SUFFICES ASSUME NEW i \in PastOf(s, Len(s)), Cardinality(NewerIn(s, Len(s), i)) < RetainedPast, i \notin CurrentOf(s, a)
               PROVE  i \in PastOf(s, a) /\ Cardinality(NewerIn(s, a, i)) < RetainedPast
  BY <1>1 DEF KeptOf
<1>3. i \in PastOf(s, a)
  BY <1>2 DEF PastOf
<1>4. NewerIn(s, a, i) \subseteq NewerIn(s, Len(s), i)
  BY <1>1 DEF NewerIn
<1> QED
  BY <1>2, <1>3, <1>4, PastIsFinite, FewerIsKept

\* A release keeps no image that was not kept, but its own -- unless it goes
\* back to a past image while what is applied is what is desired.
LEMMA WritingKeepsNoMore ==
  ASSUME NEW X, NEW s \in Seq(X), NEW a \in 0..Len(s), NEW c \in X,
         ~(c \in KeptOf(s, a) \ CurrentOf(s, a) /\ a # 0 /\ s[a] = s[Len(s)])
  PROVE  KeptOf(Append(s, c), a) \subseteq KeptOf(s, a) \union {c}
<1> DEFINE t == Append(s, c)
           L == Len(s)
<1>1. /\ t \in Seq(X) /\ Len(t) = L + 1 /\ DOMAIN s = 1..L /\ DOMAIN t = 1..(L + 1) /\ L \in Nat /\ a \in 0..L
      /\ t[L + 1] = c /\ \A n \in DOMAIN s : n \in DOMAIN t /\ t[n] = s[n]
  OBVIOUS
<1> HIDE DEF t, L
<1>2. CurrentOf(t, a) \subseteq CurrentOf(s, a) \union {c}
  BY <1>1 DEF CurrentOf
<1>3. SUFFICES ASSUME NEW i \in PastOf(t, a), Cardinality(NewerIn(t, a, i)) < RetainedPast, i # c, i \notin CurrentOf(s, a)
               PROVE  i \in PastOf(s, a) /\ Cardinality(NewerIn(s, a, i)) < RetainedPast
  BY <1>2 DEF KeptOf, t
<1>4. i \in PastOf(s, a)
  BY <1>1, <1>3 DEF PastOf
<1>5. ASSUME NEW j \in PastOf(s, a), j # c
      PROVE  /\ j \in PastOf(t, a) /\ LastIn(t, j) = LastIn(s, j) /\ LastIn(s, j) \in DOMAIN s /\ s[LastIn(s, j)] = j
  <2>1. PICK p \in DOMAIN s : s[p] = j
    BY DEF PastOf
  <2>2. LastIn(t, j) = LastIn(s, j)
    BY <1>5, <2>1, LastStays DEF t
  <2>3. LastIn(s, j) \in DOMAIN s /\ s[LastIn(s, j)] = j
    BY <2>1, LastIsIn
  <2>4. j \notin CurrentOf(t, a)
    BY <1>1, <1>2, <1>5 DEF PastOf
  <2>5. j \in {t[n] : n \in DOMAIN t}
    BY <1>1, <2>1
  <2> QED
    BY <2>2, <2>3, <2>4, <2>5 DEF PastOf
<1>6. NewerIn(s, a, i) \ {c} \subseteq NewerIn(t, a, i)
  BY <1>3, <1>4, <1>5 DEF NewerIn
<1>7. IsFiniteSet(NewerIn(t, a, i)) /\ IsFiniteSet(NewerIn(s, a, i))
  BY <1>1, PastIsFinite
<1>8. CASE c \notin NewerIn(s, a, i)
  <2>1. NewerIn(s, a, i) \subseteq NewerIn(t, a, i)
    BY <1>6, <1>8
  <2> QED
    BY <1>3, <1>4, <1>7, <2>1, FewerIsKept
<1>9. CASE c \in NewerIn(s, a, i) /\ c \notin KeptOf(s, a)
  <2>1. c \in PastOf(s, a) /\ LastIn(s, c) > LastIn(s, i)
    BY <1>9 DEF NewerIn
  <2>2. ~(Cardinality(NewerIn(s, a, c)) < RetainedPast)
    BY <1>9, <2>1 DEF KeptOf
  <2>3. LastIn(s, i) \in Nat /\ LastIn(s, c) \in Nat /\ \A j \in PastOf(s, a) : LastIn(s, j) \in Nat
    <3>1. \A j \in PastOf(s, a) : \E p \in DOMAIN s : s[p] = j
      BY DEF PastOf
    <3>2. \A j \in PastOf(s, a) : LastIn(s, j) \in DOMAIN s
      BY <3>1, LastIsIn
    <3> QED
      BY <1>1, <1>4, <2>1, <3>2
  <2>4. NewerIn(s, a, c) \subseteq NewerIn(s, a, i) \ {c}
    BY <2>1, <2>3 DEF NewerIn
  <2>5. NewerIn(s, a, c) \subseteq NewerIn(t, a, i)
    BY <1>6, <2>4
  <2> QED
    BY <1>3, <1>7, <2>2, <2>5, FewerIsKept
<1>10. CASE c \in NewerIn(s, a, i) /\ c \in KeptOf(s, a)
  <2>1. c \in PastOf(s, a)
    BY <1>10 DEF NewerIn
  <2>2. ~(a # 0 /\ s[a] = s[L])
    BY <1>10, <2>1 DEF PastOf, L
  <2>3. PICK p \in DOMAIN s : s[p] = i
    BY <1>4 DEF PastOf
  <2>4. L \in DOMAIN s /\ s[L] \in CurrentOf(s, a)
    <3>1. L \in DOMAIN s
      BY <1>1, <2>3
    <3>2. L \in {a, Len(s)} \ {0}
      BY <1>1, <3>1 DEF L
    <3> QED
      BY <3>1, <3>2 DEF CurrentOf
  <2>5. s[L] # c /\ s[L] \notin PastOf(s, a) /\ s[L] # i
    BY <1>4, <2>1, <2>4 DEF PastOf
  <2>6. s[L] \notin CurrentOf(t, a)
    <3>1. CurrentOf(t, a) = {t[n] : n \in {a, L + 1} \ {0}}
      BY <1>1 DEF CurrentOf
    <3>2. a # 0 => t[a] = s[a]
      BY <1>1
    <3> QED
      BY <1>1, <2>2, <2>5, <3>1, <3>2
  <2>7. s[L] \in PastOf(t, a)
    BY <1>1, <2>4, <2>6 DEF PastOf
  <2>8. LastIn(t, s[L]) = LastIn(s, s[L]) /\ LastIn(s, s[L]) \in DOMAIN s /\ L <= LastIn(s, s[L])
    BY <2>4, <2>5, LastStays, LastIsIn DEF t
  <2>9. LastIn(t, i) = LastIn(s, i) /\ LastIn(s, i) \in DOMAIN s /\ LastIn(s, i) # L
    BY <1>3, <1>4, <1>5, <2>5
  <2>10. LastIn(t, s[L]) > LastIn(t, i)
    BY <1>1, <2>8, <2>9
  <2>11. s[L] \in NewerIn(t, a, i) /\ s[L] \notin NewerIn(s, a, i)
    BY <2>5, <2>7, <2>10 DEF NewerIn
  <2> DEFINE N == NewerIn(s, a, i)
  <2>12. (N \ {c}) \union {s[L]} \subseteq NewerIn(t, a, i)
    BY <1>6, <2>11
  <2>13. Cardinality((N \ {c}) \union {s[L]}) < RetainedPast
    BY <1>3, <1>7, <2>12, FewerIsKept
  <2>14. IsFiniteSet(N \ {c}) /\ Cardinality(N \ {c}) = Cardinality(N) - 1
    BY <1>7, <1>10, FS_RemoveElement
  <2>15. Cardinality((N \ {c}) \union {s[L]}) = Cardinality(N \ {c}) + 1
    BY <2>11, <2>14, FS_AddElement
  <2>16. Cardinality(N) \in Nat
    BY <1>7, FS_CardinalityType
  <2> QED
    BY <1>4, <2>13, <2>14, <2>15, <2>16
<1> QED
  BY <1>8, <1>9, <1>10

-----------------------------------------------------------------------------
(* Images under retention.                                                  *)

\* The types, and where the prune's tags come from: a tag is of a build that was
\* opened, and a doomed one of a build that will not be fresh again.
RetentionTyped ==
  /\ RetentionTypeOK
  /\ ledger \in [OwnedApps -> Seq(Images)] /\ applied \in [OwnedApps -> Nat]
  /\ prune \in [at : {"idle", "listed", "removing"}, listed : SUBSET ImageBuilds, doomed : SUBSET ImageBuilds]
  /\ \A b \in tags \union prune.listed : build[b] # "none"
  /\ \A b \in prune.doomed : build[b] \in {"failed", "old"}

\* An image is kept, or it is recorded to have left.
Seen(i) == i \in Retained \union left

\* What was released, and what a write in flight was checked for, has been seen.
NamedIsSeen ==
  \A d \in OwnedApps : /\ \A n \in DOMAIN ledger[d] : Seen(ledger[d][n])
                       /\ checked[d] # NoImage => Seen(checked[d])

RetentionInv == RetentionTyped /\ NamedIsSeen /\ RetainedCanBePulled

\* What a deployment keeps, it has released.
LEMMA KeptIsReleased ==
  ASSUME NEW X, NEW s \in Seq(X), NEW a \in 0..Len(s)
  PROVE  KeptOf(s, a) \subseteq {s[n] : n \in DOMAIN s}
<1>1. {a, Len(s)} \ {0} \subseteq DOMAIN s
  OBVIOUS
<1> QED
  BY <1>1 DEF KeptOf, CurrentOf, PastOf

\* The types are preserved.
LEMMA RetentionTypes ==
  ASSUME RetentionTyped, [RetentionNext]_retentionVars
  PROVE  RetentionTyped'
<1> USE DEF RetentionTyped, RetentionTypeOK
<1>1. ASSUME NEW b \in ImageBuilds, OpenBuild(b) PROVE RetentionTyped'
  BY <1>1 DEF OpenBuild
<1>2. ASSUME NEW b \in ImageBuilds, PushTag(b) PROVE RetentionTyped'
  BY <1>2 DEF PushTag
<1>3. ASSUME NEW b \in ImageBuilds, EndBuild(b) PROVE RetentionTyped'
  BY <1>3 DEF EndBuild
<1>4. ASSUME NEW b \in ImageBuilds, GraceOver(b) PROVE RetentionTyped'
  BY <1>4 DEF GraceOver
<1>5. ASSUME NEW b \in ImageBuilds, DeleteTag(b) PROVE RetentionTyped'
  BY <1>5 DEF DeleteTag
<1>6. ASSUME NEW d \in OwnedApps, WriteRelease(d) PROVE RetentionTyped'
  <2>1. checked[d] \in Images /\ checked' \in [OwnedApps -> Images \union {NoImage}]
    BY <1>6 DEF WriteRelease
  <2>2. /\ ledger' \in [OwnedApps -> Seq(Images)]
        /\ \A e \in OwnedApps : Len(ledger[e]) <= Len(ledger'[e]) /\ Len(ledger'[e]) \in Nat /\ Len(ledger[e]) \in Nat
    <3> DEFINE l == Append(ledger[d], checked[d])
    <3>1. ledger[d] \in Seq(Images) /\ \A e \in OwnedApps : Len(ledger[e]) \in Nat
      OBVIOUS
    <3>2. l \in Seq(Images) /\ Len(l) = Len(ledger[d]) + 1
      BY <2>1, <3>1
    <3>3. ledger' = ledger \/ ledger' = [ledger EXCEPT ![d] = l]
      BY <1>6 DEF WriteRelease
    <3> HIDE DEF l
    <3>4. CASE ledger' = [ledger EXCEPT ![d] = l]
      <4>1. \A e \in OwnedApps : ledger'[e] = IF e = d THEN l ELSE ledger[e]
        BY <3>4
      <4> QED
        BY <3>1, <3>2, <3>4, <4>1
    <3>5. CASE ledger' = ledger
      BY <3>1, <3>5
    <3> QED
      BY <3>3, <3>4, <3>5
  <2>3. \A e \in OwnedApps : applied'[e] \in 0..Len(ledger'[e])
    BY <1>6, <2>2 DEF WriteRelease
  <2>4. UNCHANGED <<build, tags, applied, prune>>
    BY <1>6 DEF WriteRelease
  <2> QED
    BY <2>1, <2>2, <2>3, <2>4
<1>7. ASSUME NEW d \in OwnedApps, Reconciled(d) PROVE RetentionTyped'
  <2>1. \A e \in OwnedApps : Len(ledger[e]) \in Nat /\ applied'[e] \in {applied[e], Len(ledger[e])}
    BY <1>7 DEF Reconciled
  <2>2. applied' \in [OwnedApps -> Nat] /\ \A e \in OwnedApps : applied'[e] \in 0..Len(ledger[e])
    BY <1>7, <2>1 DEF Reconciled
  <2> QED
    BY <1>7, <2>2 DEF Reconciled
<1>8. ASSUME NEW d \in OwnedApps, DropApp(d) PROVE RetentionTyped'
  BY <1>8 DEF DropApp
<1>9. ASSUME NEW d \in OwnedApps, NEW i \in Images, CheckImage(d, i) PROVE RetentionTyped'
  BY <1>9 DEF CheckImage
<1>10. CASE ListTags
  BY <1>10 DEF ListTags, NoPrune
<1>11. CASE ReadLedger
  BY <1>11 DEF ReadLedger, FreshBuilds
<1>12. CASE EndPrune
  BY <1>12 DEF EndPrune, NoPrune
<1>13. CASE UNCHANGED retentionVars
  BY <1>13 DEF retentionVars
<1> QED
  BY <1>1, <1>2, <1>3, <1>4, <1>5, <1>6, <1>7, <1>8, <1>9, <1>10, <1>11, <1>12, <1>13 DEF RetentionNext

\* What a step lets go is recorded.
LEMMA SeenStays ==
  ASSUME LeavesRetention
  PROVE  \A i : Seen(i) => Seen(i)'
<1>1. Made \subseteq Retained'
  BY DEF Made, Retained
<1> QED
  BY <1>1 DEF LeavesRetention, Seen

\* Where every release names what has been seen, only what has been seen or is
\* made now can be kept.
LEMMA KeptIsSeen ==
  ASSUME RetentionTyped', \A d \in OwnedApps : \A n \in DOMAIN ledger'[d] : Seen(ledger'[d][n])
  PROVE  Retained' \subseteq Retained \union left \union Made
<1>1. ASSUME NEW d \in OwnedApps, NEW i \in KeptBy(d)' PROVE Seen(i)
  <2>1. ledger'[d] \in Seq(Images) /\ applied'[d] \in 0..Len(ledger'[d])
    BY DEF RetentionTyped, RetentionTypeOK
  <2>2. KeptOf(ledger'[d], applied'[d]) \subseteq {ledger'[d][n] : n \in DOMAIN ledger'[d]}
    BY <2>1, KeptIsReleased
  <2> QED
    BY <1>1, <2>2, KeptIsOf
<1>2. ASSUME NEW b \in ImageBuilds, build'[b] = "fresh" PROVE ImageOf[b] \in Retained \union Made
  BY <1>2 DEF Retained, Made
<1> QED
  BY <1>1, <1>2 DEF Retained, Seen

\* A step that lets images go, removes no tag, and makes only what has one,
\* leaves what is kept where it can be pulled.
LEMMA PulledStays ==
  ASSUME RetainedCanBePulled, LeavesRetention, UNCHANGED <<tags, prune>>,
         Retained' \subseteq Retained \union left \union Made,
         \A i \in Made : \E b \in tags \ prune.doomed : ImageOf[b] = i
  PROVE  RetainedCanBePulled'
BY DEF RetainedCanBePulled, LeavesRetention

\* What is named has been seen, and stays so.
LEMMA NamesStay ==
  ASSUME RetentionInv, [RetentionNext]_retentionVars, RetentionTyped'
  PROVE  /\ \A d \in OwnedApps : \A n \in DOMAIN ledger'[d] : Seen(ledger'[d][n])
         /\ \A d \in OwnedApps : checked'[d] # NoImage => Seen(checked'[d])
<1> USE DEF RetentionInv, NamedIsSeen
<1>1. ASSUME NEW d \in OwnedApps, NEW i \in Images, CheckImage(d, i)
      PROVE  ledger' = ledger /\ \A e \in OwnedApps : checked'[e] = checked[e] \/ Seen(checked'[e])
  <2>1. Seen(i)
    BY <1>1 DEF CheckImage, Seen
  <2> QED
    BY <1>1, <2>1 DEF CheckImage, RetentionTyped, RetentionTypeOK
<1>2. ASSUME NEW d \in OwnedApps, WriteRelease(d)
      PROVE  /\ \A e \in OwnedApps : \A n \in DOMAIN ledger'[e] : Seen(ledger'[e][n])
             /\ \A e \in OwnedApps : checked'[e] # NoImage => checked'[e] = checked[e]
  <2>1. Seen(checked[d])
    BY <1>2 DEF WriteRelease
  <2>2. \A e \in OwnedApps : checked'[e] # NoImage => checked'[e] = checked[e]
    BY <1>2 DEF WriteRelease, RetentionTyped, RetentionTypeOK
  <2>3. ledger \in [OwnedApps -> Seq(Images)] /\ checked[d] \in Images
    BY <1>2 DEF WriteRelease, RetentionTyped, RetentionTypeOK
  <2>4. ASSUME NEW n \in DOMAIN Append(ledger[d], checked[d]) PROVE Seen(Append(ledger[d], checked[d])[n])
    <3>1. \/ n \in DOMAIN ledger[d] /\ Append(ledger[d], checked[d])[n] = ledger[d][n]
          \/ Append(ledger[d], checked[d])[n] = checked[d]
      BY <2>3
    <3> QED
      BY <2>1, <3>1
  <2>5. ledger' = ledger \/ ledger' = [ledger EXCEPT ![d] = Append(ledger[d], checked[d])]
    BY <1>2 DEF WriteRelease
  <2>6. \A e \in OwnedApps : ledger'[e] = ledger[e] \/ (e = d /\ ledger'[e] = Append(ledger[d], checked[d]))
    BY <2>3, <2>5
  <2>7. \A e \in OwnedApps : \A n \in DOMAIN ledger'[e] : Seen(ledger'[e][n])
    BY <2>4, <2>6
  <2> QED
    BY <2>2, <2>7
<1>3. ASSUME NEW b \in ImageBuilds, OpenBuild(b) \/ PushTag(b) \/ EndBuild(b) \/ GraceOver(b) \/ DeleteTag(b)
      PROVE  UNCHANGED <<ledger, checked>>
  BY <1>3 DEF OpenBuild, PushTag, EndBuild, GraceOver, DeleteTag
<1>4. ASSUME NEW d \in OwnedApps, Reconciled(d) \/ DropApp(d) PROVE UNCHANGED <<ledger, checked>>
  BY <1>4 DEF Reconciled, DropApp
<1>5. ASSUME ListTags \/ ReadLedger \/ EndPrune \/ UNCHANGED retentionVars PROVE UNCHANGED <<ledger, checked>>
  BY <1>5 DEF ListTags, ReadLedger, EndPrune, retentionVars
<1>6. CASE UNCHANGED <<ledger, checked>>
  BY <1>6
<1>7. CASE \E d \in OwnedApps, i \in Images : CheckImage(d, i)
  BY <1>1, <1>7
<1>8. CASE \E d \in OwnedApps : WriteRelease(d)
  BY <1>2, <1>8
<1> QED
  BY <1>3, <1>4, <1>5, <1>6, <1>7, <1>8 DEF RetentionNext

\* The steps that change what is kept, and what they leave alone; the others
\* change nothing that retention reads.
LEMMA KeepingSteps ==
  ASSUME RetentionInv, [RetentionNext]_retentionVars
  PROVE  \/ LeavesRetention /\ UNCHANGED <<tags, prune>> /\ \A i \in Made : \E b \in tags \ prune.doomed : ImageOf[b] = i
         \/ /\ Retained' = Retained /\ left' = left
            /\ \A b \in tags \ prune.doomed : ImageOf[b] \in Retained => b \in tags' \ prune'.doomed
<1> USE DEF RetentionInv, RetentionTyped, RetentionTypeOK
<1> DEFINE Kept == Retained' = Retained /\ left' = left
           Ok == \A b \in tags \ prune.doomed : ImageOf[b] \in Retained => b \in tags' \ prune'.doomed
           Pulled == \A i \in Made : \E b \in tags \ prune.doomed : ImageOf[b] = i
<1>1. ASSUME UNCHANGED <<ledger, applied, goneApps, left>>,
             \A b \in ImageBuilds : build'[b] = "fresh" <=> build[b] = "fresh"
      PROVE  Kept
  <2>1. \A d : KeptBy(d)' = KeptBy(d)
    BY <1>1 DEF KeptBy, Current
  <2>2. {b \in ImageBuilds : build'[b] = "fresh"} = {b \in ImageBuilds : build[b] = "fresh"}
    BY <1>1
  <2> QED
    BY <1>1, <2>1, <2>2 DEF Retained
<1>2. ASSUME NEW b \in ImageBuilds, OpenBuild(b) PROVE Kept /\ Ok
  <2>1. \A c \in ImageBuilds : build'[c] = "fresh" <=> build[c] = "fresh"
    BY <1>2 DEF OpenBuild
  <2> QED
    BY <1>1, <1>2, <2>1 DEF OpenBuild
<1>3. ASSUME NEW b \in ImageBuilds, PushTag(b) PROVE Kept /\ Ok
  BY <1>1, <1>3 DEF PushTag
<1>4. ASSUME NEW b \in ImageBuilds, EndBuild(b) PROVE LeavesRetention /\ UNCHANGED <<tags, prune>> /\ Pulled
  <2>1. \A c \in ImageBuilds : build[c] # "fresh" /\ build'[c] = "fresh" => c = b /\ b \in tags
    BY <1>4 DEF EndBuild
  <2>2. build[b] = "open" /\ b \notin prune.doomed
    BY <1>4 DEF EndBuild
  <2> QED
    BY <1>4, <2>1, <2>2 DEF EndBuild, Made
<1>5. ASSUME NEW b \in ImageBuilds, GraceOver(b) PROVE LeavesRetention /\ UNCHANGED <<tags, prune>> /\ Pulled
  <2>1. \A c \in ImageBuilds : ~(build[c] # "fresh" /\ build'[c] = "fresh")
    BY <1>5 DEF GraceOver
  <2> QED
    BY <1>5, <2>1 DEF GraceOver, Made
<1>6. ASSUME NEW b \in ImageBuilds, DeleteTag(b) PROVE Kept /\ Ok
  BY <1>1, <1>6 DEF DeleteTag
<1>7. ASSUME NEW d \in OwnedApps, WriteRelease(d) \/ Reconciled(d) \/ DropApp(d)
      PROVE  LeavesRetention /\ UNCHANGED <<tags, prune>> /\ Pulled
  BY <1>7 DEF WriteRelease, Reconciled, DropApp, Made
<1>8. ASSUME NEW d \in OwnedApps, NEW i \in Images, CheckImage(d, i) PROVE Kept /\ Ok
  BY <1>1, <1>8 DEF CheckImage
<1>9. CASE ListTags
  BY <1>1, <1>9 DEF ListTags, NoPrune
<1>10. CASE ReadLedger
  BY <1>1, <1>10 DEF ReadLedger
<1>11. CASE EndPrune
  BY <1>1, <1>11 DEF EndPrune, NoPrune
<1>12. CASE UNCHANGED retentionVars
  BY <1>1, <1>12 DEF retentionVars
<1> QED
  BY <1>2, <1>3, <1>4, <1>5, <1>6, <1>7, <1>8, <1>9, <1>10, <1>11, <1>12 DEF RetentionNext

\* The invariant is inductive.
LEMMA RetentionKeepsInv ==
  ASSUME RetentionInv, [RetentionNext]_retentionVars
  PROVE  RetentionInv'
<1>1. RetentionTyped'
  BY RetentionTypes DEF RetentionInv
<1>2. /\ \A d \in OwnedApps : \A n \in DOMAIN ledger'[d] : Seen(ledger'[d][n])
      /\ \A d \in OwnedApps : checked'[d] # NoImage => Seen(checked'[d])
  BY <1>1, NamesStay
<1>3. CASE LeavesRetention /\ UNCHANGED <<tags, prune>> /\ \A i \in Made : \E b \in tags \ prune.doomed : ImageOf[b] = i
  <2>1. \A i : Seen(i) => Seen(i)'
    BY <1>3, SeenStays
  <2>2. NamedIsSeen'
    BY <1>2, <2>1 DEF NamedIsSeen
  <2>3. Retained' \subseteq Retained \union left \union Made
    BY <1>1, <1>2, KeptIsSeen
  <2>4. RetainedCanBePulled'
    BY <1>3, <2>3, PulledStays DEF RetentionInv
  <2> QED
    BY <1>1, <2>2, <2>4 DEF RetentionInv
<1>4. CASE /\ Retained' = Retained /\ left' = left
           /\ \A b \in tags \ prune.doomed : ImageOf[b] \in Retained => b \in tags' \ prune'.doomed
  <2>1. NamedIsSeen'
    BY <1>2, <1>4 DEF NamedIsSeen, Seen
  <2>2. RetainedCanBePulled'
    BY <1>4 DEF RetentionInv, RetainedCanBePulled
  <2> QED
    BY <1>1, <2>1, <2>2 DEF RetentionInv
<1> QED
  BY <1>3, <1>4, KeepingSteps

\* The window of a deployment reaches back in a rollback only.
LEMMA WindowsShrink ==
  ASSUME RetentionTyped, [RetentionNext]_retentionVars, NEW e \in OwnedApps, ~RollsBack(e)
  PROVE  KeptBy(e)' \subseteq KeptBy(e) \union {checked[e]}
<1> DEFINE s == ledger[e]
           a == applied[e]
<1>1. s \in Seq(Images) /\ a \in 0..Len(s)
  BY DEF RetentionTyped, RetentionTypeOK
<1>2. CASE ledger'[e] = ledger[e] /\ applied'[e] = applied[e]
  BY <1>2, KeptIsOf
<1>3. CASE ledger'[e] = ledger[e] /\ applied'[e] = Len(ledger[e])
  <2>1. KeptOf(s, Len(s)) \subseteq KeptOf(s, a)
    BY <1>1, ApplyingKeepsNoMore
  <2> QED
    BY <1>3, <2>1, KeptIsOf
<1>4. CASE ledger'[e] = Append(ledger[e], checked[e]) /\ applied'[e] = applied[e] /\ checked[e] \in Images
  <2> DEFINE c == checked[e]
  <2>1. ledger'[e] # ledger[e]
    BY <1>1, <1>4
  <2>2. ~(c \in KeptOf(s, a) \ CurrentOf(s, a) /\ a # 0 /\ s[a] = s[Len(s)])
    BY <2>1, KeptIsOf DEF RollsBack
  <2> HIDE DEF s, a, c
  <2>3. KeptOf(Append(s, c), a) \subseteq KeptOf(s, a) \union {c}
    BY <1>1, <1>4, <2>2, WritingKeepsNoMore DEF c
  <2> QED
    BY <1>4, <2>3, KeptIsOf DEF s, a, c
<1>5. ASSUME NEW d \in OwnedApps, WriteRelease(d)
      PROVE  \/ ledger'[e] = ledger[e] /\ applied'[e] = applied[e]
             \/ ledger'[e] = Append(ledger[e], checked[e]) /\ applied'[e] = applied[e] /\ checked[e] \in Images
  <2>1. checked[d] \in Images
    BY <1>5 DEF WriteRelease, RetentionTyped, RetentionTypeOK
  <2> QED
    BY <1>5, <2>1 DEF WriteRelease, RetentionTyped
<1>6. ASSUME NEW d \in OwnedApps, Reconciled(d)
      PROVE  ledger'[e] = ledger[e] /\ applied'[e] \in {applied[e], Len(ledger[e])}
  BY <1>6 DEF Reconciled, RetentionTyped
<1>7. ASSUME NEW b \in ImageBuilds, OpenBuild(b) \/ PushTag(b) \/ EndBuild(b) \/ GraceOver(b) \/ DeleteTag(b)
      PROVE  ledger' = ledger /\ applied' = applied
  BY <1>7 DEF OpenBuild, PushTag, EndBuild, GraceOver, DeleteTag
<1>8. ASSUME NEW d \in OwnedApps, DropApp(d) \/ \E i \in Images : CheckImage(d, i) PROVE ledger' = ledger /\ applied' = applied
  BY <1>8 DEF DropApp, CheckImage
<1>9. ASSUME ListTags \/ ReadLedger \/ EndPrune \/ UNCHANGED retentionVars PROVE ledger' = ledger /\ applied' = applied
  BY <1>9 DEF ListTags, ReadLedger, EndPrune, retentionVars
<1> HIDE DEF s, a
<1>10. \/ ledger'[e] = ledger[e] /\ applied'[e] \in {applied[e], Len(ledger[e])}
       \/ ledger'[e] = Append(ledger[e], checked[e]) /\ applied'[e] = applied[e] /\ checked[e] \in Images
  BY <1>5, <1>6, <1>7, <1>8, <1>9 DEF RetentionNext
<1> QED
  BY <1>2, <1>3, <1>4, <1>10

\* What comes back comes from a build, a checked write or a rollback.
LEMMA RetentionReturns ==
  ASSUME RetentionTyped, [RetentionNext]_retentionVars, NEW i \in Retained' \ Retained
  PROVE  i \in Made \/ (\E d \in OwnedApps : checked[d] = i) \/ (\E d \in OwnedApps : RollsBack(d))
<1>1. goneApps \subseteq goneApps'
  BY DEF RetentionNext, OpenBuild, PushTag, EndBuild, GraceOver, DeleteTag, WriteRelease, Reconciled, DropApp, CheckImage,
         ListTags, ReadLedger, EndPrune, retentionVars
<1>2. CASE \E b \in ImageBuilds : build'[b] = "fresh" /\ ImageOf[b] = i
  BY <1>2 DEF Retained, Made
<1>3. ASSUME NEW e \in OwnedApps \ goneApps', i \in KeptBy(e)' PROVE RollsBack(e) \/ checked[e] = i
  <2>1. i \notin KeptBy(e)
    BY <1>1, <1>3 DEF Retained
  <2> QED
    BY <1>3, <2>1, WindowsShrink
<1>4. (\E b \in ImageBuilds : build'[b] = "fresh" /\ ImageOf[b] = i) \/ \E e \in OwnedApps \ goneApps' : i \in KeptBy(e)'
  BY DEF Retained
<1> QED
  BY <1>2, <1>3, <1>4

\* What retention keeps can be pulled, and what it let go comes back only by a
\* build, a checked write or a rollback.
THEOREM RetentionIsSound == RetentionSpec => RetentionHolds
<1>1. RetentionInit => RetentionInv
  <2> SUFFICES ASSUME RetentionInit PROVE RetentionInv
    OBVIOUS
  <2> USE DEF RetentionInit
  <2>1. RetentionTyped
    <3>1. <<>> \in Seq(Images) /\ Len(<<>>) = 0
      OBVIOUS
    <3> QED
      BY <3>1 DEF RetentionTyped, RetentionTypeOK, NoPrune
  <2>2. NamedIsSeen
    <3>1. DOMAIN <<>> = {}
      OBVIOUS
    <3> QED
      BY <3>1 DEF NamedIsSeen
  <2>3. RetainedCanBePulled
    <3>1. ASSUME NEW d \in OwnedApps PROVE KeptBy(d) = {}
      <4>1. ledger[d] \in Seq(Images) /\ applied[d] \in 0..Len(ledger[d]) /\ DOMAIN ledger[d] = {}
        OBVIOUS
      <4> QED
        BY <4>1, KeptIsReleased, KeptIsOf
    <3>2. Retained = {}
      BY <3>1 DEF Retained
    <3> QED
      BY <3>2 DEF RetainedCanBePulled
  <2> QED
    BY <2>1, <2>2, <2>3 DEF RetentionInv
<1>2. RetentionInv /\ [RetentionNext]_retentionVars => RetentionInv'
  BY RetentionKeepsInv
<1>3. RetentionInv /\ [RetentionNext]_retentionVars =>
        [\A i \in Retained' \ Retained :
           i \in Made \/ (\E d \in OwnedApps : checked[d] = i) \/ (\E d \in OwnedApps : RollsBack(d))]_retentionVars
  BY RetentionReturns DEF RetentionInv
<1>4. RetentionInv => RetentionTypeOK /\ RetainedCanBePulled
  BY DEF RetentionInv, RetentionTyped
<1> QED
  BY <1>1, <1>2, <1>3, <1>4, PTL DEF RetentionSpec, RetentionHolds, ReturnsAreKnown
-----------------------------------------------------------------------------
(* The product upgrader. A thread that holds the lock is somewhere in       *)
(* execute_run, and perhaps in execute_product or in a session.             *)

InSession == {"launched", "waiting", "ending"}
InProduct == InSession \union {"preparing", "judging", "storing", "pushing", "opening", "finishing"}
InRun == InProduct \union {"registering", "next", "closing", "recording"}
InLock == InRun \union {"starting", "leaving"}

IsAt(t, places) == threads[t].at \in places
Outcomes == {"running", "opened", "would_open", "skipped", "failed", "timed_out", "canceled", "interrupted"}

Work == [at : InLock \union {"idle", "due"}, run : Nat, left : Seq(Slugs), slug : Slugs \union {Unset}, row : Nat,
         ended : {Unset, "canceled", "timed_out", "completed"},
         verdict : {Unset, "failed", "would_open", "skipped", "opened"}, repaired : BOOLEAN]

RunRow == [state : {"running", "completed", "canceled", "interrupted"}, dry : BOOLEAN, finished : BOOLEAN]
ResultRow == [run : Nat, slug : Slugs, outcome : Outcomes, finished : BOOLEAN]

UpgraderTyped ==
  /\ runLock \in Threads \union {"free"} /\ threads \in [Threads -> Work]
  /\ cancel \in [run : 0 .. MaxRuns, watching : BOOLEAN, asked : BOOLEAN]
  /\ runs \in Seq(RunRow)
  /\ Len(runs) <= MaxRuns /\ asked \subseteq DOMAIN runs
  /\ results \in Seq(ResultRow)
  /\ main \in {"none", "working", "would_open", "skipped", "no_result"}
  /\ hub \in [branches : SUBSET Slugs, pulls : SUBSET Slugs]

\* The lock: a thread that is in a run holds it.
OneHolder == \A t \in Threads : IsAt(t, InLock) <=> runLock = t

\* The runs table: the run that is not finished is the one its thread is in.
RunsFit ==
  /\ \A t \in Threads : IsAt(t, InRun) => threads[t].run \in DOMAIN runs
  /\ \A r \in DOMAIN runs :
       /\ ~ runs[r].finished <=> \E t \in Threads : IsAt(t, InRun) /\ threads[t].run = r
       /\ runs[r].finished <=> runs[r].state # "running"

\* The product_results table, in the same way.
ResultsFit ==
  /\ \A t \in Threads : IsAt(t, InProduct) =>
       /\ threads[t].row \in DOMAIN results
       /\ results[threads[t].row].run = threads[t].run /\ results[threads[t].row].slug = threads[t].slug
  /\ \A k \in DOMAIN results :
       /\ ~ results[k].finished <=> \E t \in Threads : IsAt(t, InProduct) /\ threads[t].row = k
       /\ results[k].run \in DOMAIN runs

\* The cancellation: it names the run whose products are being worked on, and
\* its flag is what was asked of that run.
Cancelable == InProduct \union {"next", "closing"}
CancelFits ==
  /\ \A t \in Threads :
       /\ IsAt(t, Cancelable) => cancel.run = threads[t].run /\ (cancel.asked <=> threads[t].run \in asked)
       /\ IsAt(t, {"registering"}) => threads[t].run \notin asked
       /\ IsAt(t, {"recording"}) =>
            threads[t].ended \in {"canceled", "completed"} /\ (threads[t].ended = "canceled" <=> threads[t].run \in asked)
  /\ (\A t \in Threads : ~ IsAt(t, Cancelable)) => cancel = NotWatching
  /\ CancelIsExact

\* The session: its processes are of the product that waits for it, and what the
\* thread has decided so far.
SessionFits ==
  /\ \A k \in procs : \E t \in Threads : IsAt(t, InSession) /\ threads[t].row = k
  /\ \A t \in Threads :
       /\ IsAt(t, {"preparing", "launched", "judging"}) => threads[t].ended = Unset
       /\ IsAt(t, InSession \union {"preparing", "judging"}) => threads[t].verdict = Unset
       /\ IsAt(t, {"waiting", "ending"}) => threads[t].ended # "completed"
       /\ IsAt(t, InSession \union {"judging"}) => main # "none"
       /\ IsAt(t, {"judging"}) => main # "working"
       /\ IsAt(t, {"storing"}) => threads[t].verdict # "opened" /\ (threads[t].ended = Unset <=> threads[t].verdict # Unset)
       /\ IsAt(t, {"pushing", "opening"}) => threads[t].ended = Unset /\ threads[t].verdict = "would_open"
       /\ IsAt(t, {"storing", "finishing"}) => threads[t].ended # "completed"
       /\ IsAt(t, {"finishing"}) => (threads[t].ended = Unset <=> threads[t].verdict # Unset)

\* What is on GitHub: a branch is of a real run, and of at most one result that
\* opened its pull request.
IsOpened(k) == results[k].outcome = "opened"
Opens(t) == IsAt(t, {"opening"}) \/ (IsAt(t, {"finishing"}) /\ threads[t].verdict = "opened")
HubFits ==
  /\ \A t \in Threads :
       /\ IsAt(t, {"pushing"}) \/ Opens(t) => ~ runs[threads[t].run].dry
       /\ Opens(t) => /\ threads[t].slug \in hub.branches
                      /\ \A k \in DOMAIN results : IsOpened(k) => results[k].slug # threads[t].slug
       /\ Opens(t) /\ IsAt(t, {"finishing"}) => threads[t].slug \in hub.pulls
  /\ \A k \in DOMAIN results : IsOpened(k) =>
       results[k].slug \in hub.pulls \intersect hub.branches /\ ~ runs[results[k].run].dry
  /\ \A j, k \in DOMAIN results : IsOpened(j) /\ IsOpened(k) /\ results[j].slug = results[k].slug => j = k
  /\ \A slug \in hub.branches : \E k \in DOMAIN results : results[k].slug = slug /\ ~ runs[results[k].run].dry

UpgraderInv == UpgraderTyped /\ OneHolder /\ RunsFit /\ ResultsFit /\ CancelFits /\ SessionFits /\ HubFits

\* A thread takes a turn of its own.
Turns(t) == threads' \in [Threads -> Work] /\ \A u \in Threads \ {t} : threads'[u] = threads[u]
LEMMA TurnIs ==
  ASSUME UpgraderTyped, NEW t \in Threads, NEW w \in Work, Does(t, w)
  PROVE  Turns(t) /\ threads'[t] = w
BY DEF UpgraderTyped, Does, Turns

\* The places nest, and the holder of the lock is alone in it.
LEMMA HolderIsAlone ==
  ASSUME UpgraderInv, NEW t \in Threads, IsAt(t, InLock)
  PROVE  runLock = t /\ \A u \in Threads \ {t} : threads[u].at \in {"idle", "due"}
BY DEF UpgraderInv, UpgraderTyped, OneHolder, IsAt, Work

\* A step within a product: of the same run, the same product and the same row.
ProductTurn(t) ==
  /\ Turns(t) /\ IsAt(t, InProduct) /\ threads'[t].at \in InProduct
  /\ threads'[t].run = threads[t].run /\ threads'[t].row = threads[t].row /\ threads'[t].slug = threads[t].slug
  /\ UNCHANGED <<runLock, runs, results, asked>>
  /\ cancel'.run = cancel.run /\ cancel'.asked = cancel.asked

\* It disturbs neither the lock, nor the tables, nor the cancellation.
LEMMA ProductTurnKeeps ==
  ASSUME UpgraderInv, NEW t \in Threads, ProductTurn(t)
  PROVE  OneHolder' /\ RunsFit' /\ ResultsFit' /\ CancelFits'
<1> USE DEF ProductTurn, Turns, IsAt, InLock, InRun, InProduct, InSession
<1>1. \A u \in Threads \ {t} : threads[u].at \in {"idle", "due"} /\ threads'[u].at \in {"idle", "due"}
  BY HolderIsAlone
<1>2. OneHolder'
  BY <1>1 DEF OneHolder, UpgraderInv
<1>3. RunsFit'
  BY <1>1 DEF RunsFit, UpgraderInv
<1>4. ResultsFit'
  BY <1>1 DEF ResultsFit, UpgraderInv
<1>5. CancelFits'
  BY <1>1 DEF CancelFits, Cancelable, CancelIsExact, UpgraderInv
<1> QED
  BY <1>2, <1>3, <1>4, <1>5

\* While no thread is in a session, no process is.
LEMMA NoProcsElsewhere ==
  ASSUME UpgraderInv, NEW t \in Threads, IsAt(t, InLock), ~ IsAt(t, InSession)
  PROVE  procs = {}
BY HolderIsAlone DEF UpgraderInv, SessionFits, IsAt, InSession

\* execute_product: the clones could not be made.
LEMMA KeepsPrepareFails ==
  ASSUME UpgraderInv, NEW t \in Threads, PrepareFails(t)
  PROVE  UpgraderInv'
<1> USE DEF IsAt, InLock, InRun, InProduct, InSession
<1>1. threads[t] \in Work /\ threads[t].at = "preparing" /\ UpgraderTyped
  BY DEF PrepareFails, UpgraderInv, UpgraderTyped
<1>2. Turns(t) /\ threads'[t] = [threads[t] EXCEPT !.at = "finishing", !.verdict = "failed"]
  <2>1. [threads[t] EXCEPT !.at = "finishing", !.verdict = "failed"] \in Work
    BY <1>1 DEF Work, Unset
  <2> QED
    BY <1>1, <2>1, TurnIs DEF PrepareFails, Moves
<1>3. /\ threads'[t].at = "finishing" /\ threads'[t].verdict = "failed" /\ threads'[t].ended = threads[t].ended
      /\ threads'[t].run = threads[t].run /\ threads'[t].row = threads[t].row /\ threads'[t].slug = threads[t].slug
  BY <1>1, <1>2 DEF Work, Unset
<1>4. ProductTurn(t)
  BY <1>1, <1>2, <1>3 DEF PrepareFails, ProductTurn, UpgraderTyped
<1>5. \A u \in Threads \ {t} : threads[u].at \in {"idle", "due"} /\ threads'[u].at \in {"idle", "due"}
  BY <1>1, <1>2, HolderIsAlone DEF Turns
<1>6. UpgraderTyped'
  BY <1>1, <1>2 DEF PrepareFails, UpgraderTyped, Turns
<1>7. SessionFits'
  <2>1. procs' = {}
    BY <1>1, NoProcsElsewhere DEF PrepareFails
  <2> QED
    BY <1>1, <1>3, <1>5, <2>1 DEF PrepareFails, UpgraderInv, SessionFits, Unset
<1>8. HubFits'
  BY <1>1, <1>3, <1>5 DEF PrepareFails, UpgraderInv, HubFits, IsOpened, Opens
<1> QED
  BY <1>4, <1>6, <1>7, <1>8, ProductTurnKeeps DEF UpgraderInv

\* _run_pi: the session is started; its processes are the only ones.
LEMMA KeepsLaunch ==
  ASSUME UpgraderInv, NEW t \in Threads, Launch(t)
  PROVE  UpgraderInv'
<1> USE DEF IsAt, InLock, InRun, InProduct, InSession
<1>1. threads[t] \in Work /\ threads[t].at = "preparing" /\ UpgraderTyped
  BY DEF Launch, UpgraderInv, UpgraderTyped
<1>2. Turns(t) /\ threads'[t] = [threads[t] EXCEPT !.at = "launched"]
  <2>1. [threads[t] EXCEPT !.at = "launched"] \in Work
    BY <1>1 DEF Work, Unset
  <2> QED
    BY <1>1, <2>1, TurnIs DEF Launch, Moves
<1>3. /\ threads'[t].at = "launched" /\ threads'[t].verdict = threads[t].verdict /\ threads'[t].ended = threads[t].ended
      /\ threads'[t].run = threads[t].run /\ threads'[t].row = threads[t].row /\ threads'[t].slug = threads[t].slug
  BY <1>1, <1>2 DEF Work, Unset
<1>4. ProductTurn(t)
  BY <1>1, <1>2, <1>3 DEF Launch, ProductTurn, UpgraderTyped
<1>5. \A u \in Threads \ {t} : threads[u].at \in {"idle", "due"} /\ threads'[u].at \in {"idle", "due"}
  BY <1>1, <1>2, HolderIsAlone DEF Turns
<1>6. UpgraderTyped'
  BY <1>1, <1>2 DEF Launch, UpgraderTyped, Turns
<1>7. SessionFits'
  <2>1. procs' = {threads[t].row}
    BY <1>1, NoProcsElsewhere DEF Launch
  <2> QED
    BY <1>1, <1>3, <1>5, <2>1 DEF Launch, UpgraderInv, SessionFits, Unset
<1>8. HubFits'
  BY <1>1, <1>3, <1>5 DEF Launch, UpgraderInv, HubFits, IsOpened, Opens
<1> QED
  BY <1>4, <1>6, <1>7, <1>8, ProductTurnKeeps DEF UpgraderInv

\* The session is watched, unless the run has been canceled.
LEMMA KeepsWatchSession ==
  ASSUME UpgraderInv, NEW t \in Threads, WatchSession(t)
  PROVE  UpgraderInv'
<1> USE DEF IsAt, InLock, InRun, InProduct, InSession
<1>1. threads[t] \in Work /\ threads[t].at = "launched" /\ UpgraderTyped
  BY DEF WatchSession, UpgraderInv, UpgraderTyped
<1>2. Turns(t) /\ threads'[t] = [threads[t] EXCEPT !.at = IF cancel.asked THEN "ending" ELSE "waiting",
                                                  !.ended = IF cancel.asked THEN "canceled" ELSE Unset]
  <2>1. [threads[t] EXCEPT !.at = IF cancel.asked THEN "ending" ELSE "waiting",
                                                  !.ended = IF cancel.asked THEN "canceled" ELSE Unset] \in Work
    BY <1>1 DEF Work, Unset
  <2> QED
    BY <1>1, <2>1, TurnIs DEF WatchSession, Moves
<1>3. /\ threads'[t].at \in {"waiting", "ending"} /\ threads'[t].verdict = threads[t].verdict /\ threads'[t].ended \in {Unset, "canceled"}
      /\ threads'[t].run = threads[t].run /\ threads'[t].row = threads[t].row /\ threads'[t].slug = threads[t].slug
  BY <1>1, <1>2 DEF Work, Unset
<1>4. ProductTurn(t)
  BY <1>1, <1>2, <1>3 DEF WatchSession, ProductTurn, UpgraderTyped
<1>5. \A u \in Threads \ {t} : threads[u].at \in {"idle", "due"} /\ threads'[u].at \in {"idle", "due"}
  BY <1>1, <1>2, HolderIsAlone DEF Turns
<1>6. UpgraderTyped'
  BY <1>1, <1>2 DEF WatchSession, UpgraderTyped, Turns
<1>7. SessionFits'
  BY <1>1, <1>3, <1>5 DEF WatchSession, UpgraderInv, SessionFits, Unset
<1>8. HubFits'
  BY <1>1, <1>3, <1>5 DEF WatchSession, UpgraderInv, HubFits, IsOpened, Opens
<1> QED
  BY <1>4, <1>6, <1>7, <1>8, ProductTurnKeeps DEF UpgraderInv

\* The wait ends, by the session, the timeout or a cancel.
LEMMA KeepsWaitEnds ==
  ASSUME UpgraderInv, NEW t \in Threads, WaitEnds(t)
  PROVE  UpgraderInv'
<1> USE DEF IsAt, InLock, InRun, InProduct, InSession
<1>1. threads[t] \in Work /\ threads[t].at = "waiting" /\ UpgraderTyped
  BY DEF WaitEnds, UpgraderInv, UpgraderTyped
<1>2. PICK e \in {Unset, "canceled", "timed_out"} : Turns(t) /\ threads'[t] = [threads[t] EXCEPT !.at = "ending", !.ended = e]
  <2>1. \A e \in {Unset, "canceled", "timed_out"} : [threads[t] EXCEPT !.at = "ending", !.ended = e] \in Work
    BY <1>1 DEF Work, Unset
  <2> QED
    BY <1>1, <2>1, TurnIs DEF WaitEnds
<1>3. /\ threads'[t].at = "ending" /\ threads'[t].verdict = threads[t].verdict /\ threads'[t].ended = e
      /\ threads'[t].run = threads[t].run /\ threads'[t].row = threads[t].row /\ threads'[t].slug = threads[t].slug
  BY <1>1, <1>2 DEF Work, Unset
<1>4. ProductTurn(t)
  BY <1>1, <1>2, <1>3 DEF WaitEnds, ProductTurn, UpgraderTyped
<1>5. \A u \in Threads \ {t} : threads[u].at \in {"idle", "due"} /\ threads'[u].at \in {"idle", "due"}
  BY <1>1, <1>2, HolderIsAlone DEF Turns
<1>6. UpgraderTyped'
  BY <1>1, <1>2 DEF WaitEnds, UpgraderTyped, Turns
<1>7. SessionFits'
  <2>1. procs' = procs /\ main' = main
    BY DEF WaitEnds
  <2>2. e # "completed"
    BY <1>2 DEF Unset
  <2> QED
    BY <1>1, <1>3, <1>5, <2>1, <2>2 DEF UpgraderInv, SessionFits, Unset
<1>8. HubFits'
  BY <1>1, <1>3, <1>5 DEF WaitEnds, UpgraderInv, HubFits, IsOpened, Opens
<1> QED
  BY <1>4, <1>6, <1>7, <1>8, ProductTurnKeeps DEF UpgraderInv

\* Agent.terminate: no process of the session is left.
LEMMA KeepsTerminate ==
  ASSUME UpgraderInv, NEW t \in Threads, Terminate(t)
  PROVE  UpgraderInv'
<1> USE DEF IsAt, InLock, InRun, InProduct, InSession
<1>1. threads[t] \in Work /\ threads[t].at = "ending" /\ UpgraderTyped
  BY DEF Terminate, UpgraderInv, UpgraderTyped
<1>2. Turns(t) /\ threads'[t] = [threads[t] EXCEPT !.at = IF threads[t].ended = Unset THEN "judging" ELSE "storing"]
  <2>1. [threads[t] EXCEPT !.at = IF threads[t].ended = Unset THEN "judging" ELSE "storing"] \in Work
    BY <1>1 DEF Work, Unset
  <2> QED
    BY <1>1, <2>1, TurnIs DEF Terminate, Moves
<1>3. /\ threads'[t].at = (IF threads[t].ended = Unset THEN "judging" ELSE "storing") /\ threads'[t].verdict = threads[t].verdict /\ threads'[t].ended = threads[t].ended
      /\ threads'[t].run = threads[t].run /\ threads'[t].row = threads[t].row /\ threads'[t].slug = threads[t].slug
  BY <1>1, <1>2 DEF Work, Unset
<1>4. ProductTurn(t)
  BY <1>1, <1>2, <1>3 DEF Terminate, ProductTurn, UpgraderTyped
<1>5. \A u \in Threads \ {t} : threads[u].at \in {"idle", "due"} /\ threads'[u].at \in {"idle", "due"}
  BY <1>1, <1>2, HolderIsAlone DEF Turns
<1>6. UpgraderTyped'
  BY <1>1, <1>2 DEF Terminate, UpgraderTyped, Turns
<1>7. SessionFits'
  BY <1>1, <1>3, <1>5 DEF Terminate, UpgraderInv, SessionFits, Unset
<1>8. HubFits'
  BY <1>1, <1>3, <1>5 DEF Terminate, UpgraderInv, HubFits, IsOpened, Opens
<1> QED
  BY <1>4, <1>6, <1>7, <1>8, ProductTurnKeeps DEF UpgraderInv

\* _judge: accepted, asked for once more, or failed.
LEMMA KeepsJudge ==
  ASSUME UpgraderInv, NEW t \in Threads, Judge(t)
  PROVE  UpgraderInv'
<1> USE DEF IsAt, InLock, InRun, InProduct, InSession
<1>1. threads[t] \in Work /\ threads[t].at = "judging" /\ UpgraderTyped
  BY DEF Judge, UpgraderInv, UpgraderTyped
<1>2. /\ Turns(t) /\ main \in {"would_open", "skipped", "no_result"}
      /\ \/ threads'[t] = [threads[t] EXCEPT !.at = "storing", !.verdict = main] /\ main # "no_result"
         \/ threads'[t] = [threads[t] EXCEPT !.at = "preparing", !.repaired = TRUE]
         \/ threads'[t] = [threads[t] EXCEPT !.at = "storing", !.verdict = "failed"]
  <2>1. main \in {"would_open", "skipped", "no_result"}
    BY <1>1 DEF UpgraderInv, UpgraderTyped, SessionFits
  <2>2. CASE main # "no_result" /\ Does(t, [threads[t] EXCEPT !.at = "storing", !.verdict = main])
    <3>1. [threads[t] EXCEPT !.at = "storing", !.verdict = main] \in Work
      BY <1>1, <2>1, <2>2 DEF Work, Unset
    <3> QED
      BY <1>1, <2>1, <2>2, <3>1, TurnIs
  <2>3. CASE Does(t, [threads[t] EXCEPT !.at = "preparing", !.repaired = TRUE])
    <3>1. [threads[t] EXCEPT !.at = "preparing", !.repaired = TRUE] \in Work
      BY <1>1 DEF Work, Unset
    <3> QED
      BY <1>1, <2>1, <2>3, <3>1, TurnIs
  <2>4. CASE Does(t, [threads[t] EXCEPT !.at = "storing", !.verdict = "failed"])
    <3>1. [threads[t] EXCEPT !.at = "storing", !.verdict = "failed"] \in Work
      BY <1>1 DEF Work, Unset
    <3> QED
      BY <1>1, <2>1, <2>4, <3>1, TurnIs
  <2> QED
    BY <2>2, <2>3, <2>4 DEF Judge
<1>3. /\ \/ threads'[t].at = "storing" /\ threads'[t].verdict \in {"would_open", "skipped", "failed"}
         \/ threads'[t].at = "preparing" /\ threads'[t].verdict = threads[t].verdict
      /\ threads'[t].ended = threads[t].ended
      /\ threads'[t].run = threads[t].run /\ threads'[t].row = threads[t].row /\ threads'[t].slug = threads[t].slug
  BY <1>1, <1>2 DEF Work, Unset
<1>4. ProductTurn(t)
  BY <1>1, <1>2, <1>3 DEF Judge, ProductTurn, UpgraderTyped
<1>5. \A u \in Threads \ {t} : threads[u].at \in {"idle", "due"} /\ threads'[u].at \in {"idle", "due"}
  BY <1>1, <1>2, HolderIsAlone DEF Turns
<1>6. UpgraderTyped'
  BY <1>1, <1>2 DEF Judge, UpgraderTyped, Turns
<1>7. SessionFits'
  <2>1. procs' = {}
    BY <1>1, NoProcsElsewhere DEF Judge
  <2> QED
    BY <1>1, <1>3, <1>5, <2>1 DEF Judge, UpgraderInv, SessionFits, Unset
<1>8. HubFits'
  BY <1>1, <1>3, <1>5 DEF Judge, UpgraderInv, HubFits, IsOpened, Opens
<1> QED
  BY <1>4, <1>6, <1>7, <1>8, ProductTurnKeeps DEF UpgraderInv

\* _store_files, before anything is published.
LEMMA KeepsStoreFiles ==
  ASSUME UpgraderInv, NEW t \in Threads, StoreFiles(t)
  PROVE  UpgraderInv'
<1> USE DEF IsAt, InLock, InRun, InProduct, InSession
<1>1. threads[t] \in Work /\ threads[t].at = "storing" /\ UpgraderTyped
  BY DEF StoreFiles, UpgraderInv, UpgraderTyped
<1>2. /\ Turns(t)
      /\ \/ threads'[t] = [threads[t] EXCEPT !.at = "finishing", !.ended = Unset, !.verdict = "failed"]
         \/ /\ threads'[t] = [threads[t] EXCEPT !.at = "pushing"]
            /\ threads[t].verdict = "would_open" /\ ~ runs[threads[t].run].dry
         \/ threads'[t] = [threads[t] EXCEPT !.at = "finishing"]
  <2>1. /\ [threads[t] EXCEPT !.at = "finishing", !.ended = Unset, !.verdict = "failed"] \in Work
        /\ [threads[t] EXCEPT !.at = "pushing"] \in Work /\ [threads[t] EXCEPT !.at = "finishing"] \in Work
    BY <1>1 DEF Work, Unset
  <2> QED
    BY <1>1, <2>1, TurnIs DEF StoreFiles
<1>3. /\ \/ threads'[t].at = "finishing" /\ threads'[t].verdict = "failed" /\ threads'[t].ended = Unset
         \/ /\ threads'[t].at = "pushing" /\ threads'[t].verdict = threads[t].verdict /\ threads'[t].ended = threads[t].ended
            /\ threads[t].verdict = "would_open" /\ ~ runs[threads[t].run].dry
         \/ threads'[t].at = "finishing" /\ threads'[t].verdict = threads[t].verdict /\ threads'[t].ended = threads[t].ended
      /\ threads'[t].run = threads[t].run /\ threads'[t].row = threads[t].row /\ threads'[t].slug = threads[t].slug
  BY <1>1, <1>2 DEF Work, Unset
<1>4. ProductTurn(t)
  BY <1>1, <1>2, <1>3 DEF StoreFiles, ProductTurn, UpgraderTyped
<1>5. \A u \in Threads \ {t} : threads[u].at \in {"idle", "due"} /\ threads'[u].at \in {"idle", "due"}
  BY <1>1, <1>2, HolderIsAlone DEF Turns
<1>6. UpgraderTyped'
  BY <1>1, <1>2 DEF StoreFiles, UpgraderTyped, Turns
<1>7. SessionFits'
  <2>1. procs' = {}
    BY <1>1, NoProcsElsewhere DEF StoreFiles
  <2> QED
    BY <1>1, <1>3, <1>5, <2>1 DEF StoreFiles, UpgraderInv, SessionFits, Unset
<1>8. HubFits'
  <2>1. threads[t].verdict # "opened"
    BY <1>1 DEF UpgraderInv, SessionFits
  <2> QED
    BY <1>1, <1>3, <1>5, <2>1 DEF StoreFiles, UpgraderInv, HubFits, IsOpened, Opens
<1> QED
  BY <1>4, <1>6, <1>7, <1>8, ProductTurnKeeps DEF UpgraderInv

\* Clone.publish: the branch is new, or the push is refused.
LEMMA KeepsPush ==
  ASSUME UpgraderInv, NEW t \in Threads, Push(t)
  PROVE  UpgraderInv'
<1> USE DEF IsAt, InLock, InRun, InProduct, InSession
<1>1. threads[t] \in Work /\ threads[t].at = "pushing" /\ UpgraderTyped
  BY DEF Push, UpgraderInv, UpgraderTyped
<1>2. /\ Turns(t)
      /\ \/ /\ threads'[t] = [threads[t] EXCEPT !.at = "opening"] /\ threads[t].slug \notin hub.branches
            /\ hub' = [hub EXCEPT !.branches = @ \cup {threads[t].slug}]
         \/ threads'[t] = [threads[t] EXCEPT !.at = "finishing", !.verdict = "failed"] /\ hub' = hub
  <2>1. [threads[t] EXCEPT !.at = "opening"] \in Work /\ [threads[t] EXCEPT !.at = "finishing", !.verdict = "failed"] \in Work
    BY <1>1 DEF Work, Unset
  <2> QED
    BY <1>1, <2>1, TurnIs DEF Push, Moves
<1>3. /\ \/ threads'[t].at = "opening" /\ threads'[t].verdict = threads[t].verdict /\ threads'[t].ended = threads[t].ended
         \/ threads'[t].at = "finishing" /\ threads'[t].verdict = "failed" /\ threads'[t].ended = threads[t].ended
      /\ threads'[t].run = threads[t].run /\ threads'[t].row = threads[t].row /\ threads'[t].slug = threads[t].slug
  BY <1>1, <1>2 DEF Work, Unset
<1>4. ProductTurn(t)
  BY <1>1, <1>2, <1>3 DEF Push, ProductTurn, UpgraderTyped
<1>5. \A u \in Threads \ {t} : threads[u].at \in {"idle", "due"} /\ threads'[u].at \in {"idle", "due"}
  BY <1>1, <1>2, HolderIsAlone DEF Turns
<1>6. UpgraderTyped'
  <2>1. threads[t].slug \in Slugs
    <3>1. threads[t].row \in DOMAIN results /\ results[threads[t].row].slug = threads[t].slug
      BY <1>1 DEF UpgraderInv, ResultsFit
    <3>2. \A k \in DOMAIN results : results[k] \in ResultRow
      BY <1>1 DEF UpgraderTyped
    <3> QED
      BY <3>1, <3>2 DEF ResultRow
  <2>2. threads' \in [Threads -> Work] /\ hub' \in [branches : SUBSET Slugs, pulls : SUBSET Slugs]
    BY <1>1, <1>2, <2>1 DEF UpgraderTyped, Turns
  <2> QED
    BY <1>1, <2>2 DEF Push, UpgraderTyped
<1>7. SessionFits'
  <2>1. procs' = {}
    BY <1>1, NoProcsElsewhere DEF Push
  <2> QED
    BY <1>1, <1>3, <1>5, <2>1 DEF Push, UpgraderInv, SessionFits, Unset
<1>8. HubFits'
  <2>1. /\ hub'.pulls = hub.pulls /\ hub.branches \subseteq hub'.branches /\ hub'.branches \subseteq hub.branches \union {threads[t].slug}
        /\ threads'[t].at = "opening" => threads[t].slug \notin hub.branches /\ threads[t].slug \in hub'.branches
    <3>1. \/ hub' = hub /\ threads'[t].at # "opening"
          \/ threads[t].slug \notin hub.branches /\ hub' = [hub EXCEPT !.branches = @ \cup {threads[t].slug}]
      BY <1>1, <1>2 DEF Work, Unset
    <3>2. hub \in [branches : SUBSET Slugs, pulls : SUBSET Slugs]
      BY <1>1 DEF UpgraderTyped
    <3> QED
      BY <3>1, <3>2
  <2>2. /\ threads[t].row \in DOMAIN results /\ results[threads[t].row].slug = threads[t].slug
        /\ ~ runs[results[threads[t].row].run].dry
    BY <1>1 DEF UpgraderInv, ResultsFit, HubFits
  <2> QED
    BY <1>1, <1>3, <1>5, <2>1, <2>2 DEF Push, UpgraderInv, HubFits, IsOpened, Opens
<1> QED
  BY <1>4, <1>6, <1>7, <1>8, ProductTurnKeeps DEF UpgraderInv

\* proposal.publish: the pull request of the branch just pushed.
LEMMA KeepsOpenPullRequest ==
  ASSUME UpgraderInv, NEW t \in Threads, OpenPullRequest(t)
  PROVE  UpgraderInv'
<1> USE DEF IsAt, InLock, InRun, InProduct, InSession
<1>1. threads[t] \in Work /\ threads[t].at = "opening" /\ UpgraderTyped
  BY DEF OpenPullRequest, UpgraderInv, UpgraderTyped
<1>2. /\ Turns(t)
      /\ \/ /\ threads'[t] = [threads[t] EXCEPT !.at = "finishing", !.verdict = "opened"]
            /\ hub' = [hub EXCEPT !.pulls = @ \cup {threads[t].slug}]
         \/ threads'[t] = [threads[t] EXCEPT !.at = "finishing", !.verdict = "failed"] /\ hub' = hub
  <2>1. /\ [threads[t] EXCEPT !.at = "finishing", !.verdict = "opened"] \in Work
        /\ [threads[t] EXCEPT !.at = "finishing", !.verdict = "failed"] \in Work
    BY <1>1 DEF Work, Unset
  <2> QED
    BY <1>1, <2>1, TurnIs DEF OpenPullRequest
<1>3. /\ \/ threads'[t].verdict = "opened" /\ hub' = [hub EXCEPT !.pulls = @ \cup {threads[t].slug}]
         \/ threads'[t].verdict = "failed" /\ hub' = hub
      /\ threads'[t].at = "finishing" /\ threads'[t].ended = threads[t].ended
      /\ threads'[t].run = threads[t].run /\ threads'[t].row = threads[t].row /\ threads'[t].slug = threads[t].slug
  BY <1>1, <1>2 DEF Work, Unset
<1>4. ProductTurn(t)
  BY <1>1, <1>2, <1>3 DEF OpenPullRequest, ProductTurn, UpgraderTyped
<1>5. \A u \in Threads \ {t} : threads[u].at \in {"idle", "due"} /\ threads'[u].at \in {"idle", "due"}
  BY <1>1, <1>2, HolderIsAlone DEF Turns
<1>6. UpgraderTyped'
  <2>1. threads[t].slug \in Slugs
    <3>1. threads[t].row \in DOMAIN results /\ results[threads[t].row].slug = threads[t].slug
      BY <1>1 DEF UpgraderInv, ResultsFit
    <3>2. \A k \in DOMAIN results : results[k] \in ResultRow
      BY <1>1 DEF UpgraderTyped
    <3> QED
      BY <3>1, <3>2 DEF ResultRow
  <2>2. threads' \in [Threads -> Work] /\ hub' \in [branches : SUBSET Slugs, pulls : SUBSET Slugs]
    BY <1>1, <1>2, <2>1 DEF UpgraderTyped, Turns
  <2> QED
    BY <1>1, <2>2 DEF OpenPullRequest, UpgraderTyped
<1>7. SessionFits'
  <2>1. procs' = {}
    BY <1>1, NoProcsElsewhere DEF OpenPullRequest
  <2> QED
    BY <1>1, <1>3, <1>5, <2>1 DEF OpenPullRequest, UpgraderInv, SessionFits, Unset
<1>8. HubFits'
  <2>1. /\ hub'.branches = hub.branches /\ hub.pulls \subseteq hub'.pulls
        /\ threads'[t].verdict = "opened" => threads[t].slug \in hub'.pulls
    <3>1. hub \in [branches : SUBSET Slugs, pulls : SUBSET Slugs]
      BY <1>1 DEF UpgraderTyped
    <3> QED
      BY <1>3, <3>1
  <2> QED
    BY <1>1, <1>3, <1>5, <2>1 DEF OpenPullRequest, UpgraderInv, HubFits, IsOpened, Opens
<1> QED
  BY <1>4, <1>6, <1>7, <1>8, ProductTurnKeeps DEF UpgraderInv

\* execute_run: the run is recorded, the only one that is not finished.
LEMMA KeepsStartRun ==
  ASSUME UpgraderInv, NEW t \in Threads, StartRun(t)
  PROVE  UpgraderInv'
<1> USE DEF IsAt, InLock, InRun, InProduct, InSession
<1>1. threads[t] \in Work /\ threads[t].at = "starting" /\ UpgraderTyped
  BY DEF StartRun, UpgraderInv, UpgraderTyped
<1>2. Turns(t) /\ threads'[t] = [threads[t] EXCEPT !.at = "registering", !.run = Len(runs) + 1,
                                     !.left = Eligible(threads[t].slug, Len(runs) + 1)]
  <2>1. [threads[t] EXCEPT !.at = "registering", !.run = Len(runs) + 1,
                                     !.left = Eligible(threads[t].slug, Len(runs) + 1)] \in Work
    <3>1. Len(runs) + 1 \in 1 .. MaxRuns
      BY <1>1, UpgraderAssumption DEF StartRun, UpgraderTyped
    <3>2. Eligible(threads[t].slug, Len(runs) + 1) \in Seq(Slugs)
      <4>1. Catalogs[Len(runs) + 1] \in Seq(Slugs)
        BY <3>1, UpgraderAssumption
      <4>2. threads[t].slug \in Slugs => <<threads[t].slug>> \in Seq(Slugs)
        OBVIOUS
      <4>3. threads[t].slug \in Slugs \union {Unset}
        BY <1>1 DEF Work, Unset
      <4> QED
        BY <4>1, <4>2, <4>3 DEF Eligible
    <3> DEFINE l == Eligible(threads[t].slug, Len(runs) + 1)
    <3>3. l \in Seq(Slugs) /\ Len(runs) + 1 \in Nat
      BY <3>1, <3>2
    <3> HIDE DEF l
    <3>4. [threads[t] EXCEPT !.at = "registering", !.run = Len(runs) + 1, !.left = l] \in Work
      BY <1>1, <3>3 DEF Work
    <3> QED
      BY <3>4 DEF l
  <2> QED
    BY <1>1, <2>1, TurnIs DEF StartRun, Moves
<1>3. threads'[t].at = "registering" /\ threads'[t].run = Len(runs) + 1
  BY <1>1, <1>2 DEF Work, Unset
<1>4. \A u \in Threads \ {t} : threads[u].at \in {"idle", "due"} /\ threads'[u].at \in {"idle", "due"}
  BY <1>1, <1>2, HolderIsAlone DEF Turns
<1>5. /\ DOMAIN runs = 1 .. Len(runs) /\ DOMAIN runs' = 1 .. (Len(runs) + 1) /\ Len(runs) \in Nat /\ Len(runs') <= MaxRuns
      /\ runs' \in Seq(RunRow)
      /\ \A r \in DOMAIN runs : runs'[r] = runs[r]
      /\ Len(runs) + 1 \notin asked
      /\ ~ runs'[Len(runs) + 1].finished /\ runs'[Len(runs) + 1].state = "running"
  <2>1. PICK dry \in BOOLEAN : runs' = Append(runs, [state |-> "running", dry |-> dry, finished |-> FALSE])
    BY DEF StartRun
  <2> DEFINE row == [state |-> "running", dry |-> dry, finished |-> FALSE]
  <2>2. row \in RunRow /\ row.state = "running" /\ ~ row.finished
    BY DEF RunRow
  <2>3. Len(runs) < MaxRuns /\ Len(runs) \in Nat /\ MaxRuns \in Nat
    BY <1>1, UpgraderAssumption DEF StartRun, UpgraderTyped
  <2>4. runs \in Seq(RunRow) /\ runs' = Append(runs, row) /\ asked \subseteq 1 .. Len(runs)
    BY <1>1, <2>1 DEF UpgraderTyped
  <2> HIDE DEF row
  <2> QED
    BY <2>2, <2>3, <2>4
<1>6. UpgraderTyped'
  BY <1>1, <1>3, <1>4, <1>5, <1>2 DEF StartRun, UpgraderInv, UpgraderTyped, Turns
<1>7. OneHolder'
  BY <1>1, <1>3, <1>4, <1>5 DEF StartRun, UpgraderInv, OneHolder
<1>8. RunsFit'
  BY <1>1, <1>3, <1>4, <1>5 DEF StartRun, UpgraderInv, RunsFit
<1>9. ResultsFit'
  BY <1>1, <1>3, <1>4, <1>5 DEF StartRun, UpgraderInv, ResultsFit
<1>10. CancelFits'
  BY <1>1, <1>3, <1>4, <1>5 DEF StartRun, UpgraderInv, CancelFits, Cancelable, CancelIsExact
<1>11. SessionFits'
  BY <1>1, <1>3, <1>4, <1>5, NoProcsElsewhere DEF StartRun, UpgraderInv, SessionFits, Unset
<1>12. HubFits'
  BY <1>1, <1>3, <1>4, <1>5 DEF StartRun, UpgraderInv, HubFits, ResultsFit, RunsFit, IsOpened, Opens
<1> QED
  BY <1>6, <1>7, <1>8, <1>9, <1>10, <1>11, <1>12 DEF UpgraderInv

\* cancel.start: the run can be canceled from here on.
LEMMA KeepsRegisterRun ==
  ASSUME UpgraderInv, NEW t \in Threads, RegisterRun(t)
  PROVE  UpgraderInv'
<1> USE DEF IsAt, InLock, InRun, InProduct, InSession
<1>1. threads[t] \in Work /\ threads[t].at = "registering" /\ UpgraderTyped
  BY DEF RegisterRun, UpgraderInv, UpgraderTyped
<1>2. Turns(t) /\ threads'[t] = [threads[t] EXCEPT !.at = "next"]
  <2>1. [threads[t] EXCEPT !.at = "next"] \in Work
    BY <1>1 DEF Work, Unset
  <2> QED
    BY <1>1, <2>1, TurnIs DEF RegisterRun, Moves
<1>3. threads'[t].at = "next" /\ threads'[t].run = threads[t].run
  BY <1>1, <1>2 DEF Work, Unset
<1>4. \A u \in Threads \ {t} : threads[u].at \in {"idle", "due"} /\ threads'[u].at \in {"idle", "due"}
  BY <1>1, <1>2, HolderIsAlone DEF Turns
<1>5. cancel'.run = threads[t].run /\ ~ cancel'.asked /\ cancel' \in [run : 0 .. MaxRuns, watching : BOOLEAN, asked : BOOLEAN]
  <2>1. threads[t].run \in 1 .. Len(runs) /\ Len(runs) \in Nat /\ Len(runs) <= MaxRuns
    BY <1>1 DEF UpgraderInv, UpgraderTyped, RunsFit
  <2>2. threads[t].run \in 0 .. MaxRuns
    BY <2>1, UpgraderAssumption
  <2>3. cancel' = [run |-> threads[t].run, watching |-> FALSE, asked |-> FALSE]
    BY DEF RegisterRun, NotWatching
  <2> QED
    BY <2>2, <2>3
<1>6. UpgraderTyped'
  BY <1>1, <1>3, <1>4, <1>5, <1>2 DEF RegisterRun, UpgraderInv, UpgraderTyped, Turns
<1>7. OneHolder'
  BY <1>1, <1>3, <1>4, <1>5 DEF RegisterRun, UpgraderInv, OneHolder
<1>8. RunsFit'
  BY <1>1, <1>3, <1>4, <1>5 DEF RegisterRun, UpgraderInv, RunsFit
<1>9. ResultsFit'
  BY <1>1, <1>3, <1>4, <1>5 DEF RegisterRun, UpgraderInv, ResultsFit
<1>10. CancelFits'
  BY <1>1, <1>3, <1>4, <1>5 DEF RegisterRun, UpgraderInv, CancelFits, Cancelable, CancelIsExact
<1>11. SessionFits'
  BY <1>1, <1>3, <1>4, <1>5, NoProcsElsewhere DEF RegisterRun, UpgraderInv, SessionFits, Unset
<1>12. HubFits'
  BY <1>1, <1>3, <1>4, <1>5 DEF RegisterRun, UpgraderInv, HubFits, ResultsFit, RunsFit, IsOpened, Opens
<1> QED
  BY <1>6, <1>7, <1>8, <1>9, <1>10, <1>11, <1>12 DEF UpgraderInv

\* A product that gets no session is recorded at once.
LEMMA KeepsRecordFailed ==
  ASSUME UpgraderInv, NEW t \in Threads, RecordFailed(t)
  PROVE  UpgraderInv'
<1> USE DEF IsAt, InLock, InRun, InProduct, InSession
<1>1. threads[t] \in Work /\ threads[t].at = "next" /\ UpgraderTyped
  BY DEF RecordFailed, UpgraderInv, UpgraderTyped
<1>2. Turns(t) /\ threads'[t] = [threads[t] EXCEPT !.left = Tail(@)]
  <2>1. [threads[t] EXCEPT !.left = Tail(@)] \in Work
    <3>1. Tail(threads[t].left) \in Seq(Slugs)
      BY <1>1 DEF RecordFailed, UpgraderTyped, Work
    <3> QED
      BY <1>1, <3>1 DEF Work
  <2> QED
    BY <1>1, <2>1, TurnIs DEF RecordFailed, Moves
<1>3. threads'[t].at = "next" /\ threads'[t].run = threads[t].run
  BY <1>1, <1>2 DEF Work, Unset
<1>4. \A u \in Threads \ {t} : threads[u].at \in {"idle", "due"} /\ threads'[u].at \in {"idle", "due"}
  BY <1>1, <1>2, HolderIsAlone DEF Turns
<1>5. /\ DOMAIN results = 1 .. Len(results) /\ DOMAIN results' = 1 .. (Len(results) + 1) /\ Len(results) \in Nat
      /\ results' \in Seq(ResultRow)
      /\ \A k \in DOMAIN results : results'[k] = results[k]
      /\ results'[Len(results) + 1].run = threads[t].run /\ results'[Len(results) + 1].slug = Head(threads[t].left)
      /\ results'[Len(results) + 1].outcome = "failed" /\ (results'[Len(results) + 1].finished <=> "failed" = "failed")
      /\ threads[t].run \in DOMAIN runs
  <2> DEFINE row == [run |-> threads[t].run, slug |-> Head(threads[t].left), outcome |-> "failed", finished |-> "failed" # "running"]
  <2>1. Head(threads[t].left) \in Slugs /\ threads[t].run \in Nat /\ threads[t].run \in DOMAIN runs
    BY <1>1 DEF RecordFailed, Work, UpgraderInv, RunsFit
  <2>2. row \in ResultRow
    BY <2>1 DEF Outcomes, ResultRow
  <2>3. results' = Append(results, row)
    BY DEF RecordFailed, NewResult
  <2>4. row.run = threads[t].run /\ row.slug = Head(threads[t].left) /\ row.outcome = "failed" /\ (row.finished <=> "failed" = "failed")
    OBVIOUS
  <2> HIDE DEF row
  <2> QED
    BY <1>1, <2>1, <2>2, <2>3, <2>4 DEF UpgraderTyped
<1>6. UpgraderTyped'
  BY <1>1, <1>3, <1>4, <1>5, <1>2 DEF RecordFailed, UpgraderInv, UpgraderTyped, Turns
<1>7. OneHolder'
  BY <1>1, <1>3, <1>4, <1>5 DEF RecordFailed, UpgraderInv, OneHolder
<1>8. RunsFit'
  BY <1>1, <1>3, <1>4, <1>5 DEF RecordFailed, UpgraderInv, RunsFit
<1>9. ResultsFit'
  BY <1>1, <1>3, <1>4, <1>5 DEF RecordFailed, UpgraderInv, ResultsFit
<1>10. CancelFits'
  BY <1>1, <1>3, <1>4, <1>5 DEF RecordFailed, UpgraderInv, CancelFits, Cancelable, CancelIsExact
<1>11. SessionFits'
  BY <1>1, <1>3, <1>4, <1>5, NoProcsElsewhere DEF RecordFailed, UpgraderInv, SessionFits, Unset
<1>12. HubFits'
  <2>1. UNCHANGED <<runs, hub>>
    BY DEF RecordFailed
  <2>2. ASSUME NEW u \in Threads PROVE ~IsAt(u, {"pushing"})' /\ ~Opens(u)'
    BY <1>3, <1>4 DEF Opens
  <2>3. ASSUME NEW k \in DOMAIN results', IsOpened(k)' PROVE k \in DOMAIN results /\ results'[k] = results[k] /\ IsOpened(k)
    BY <1>5, <2>3 DEF IsOpened
  <2>4. HubFits
    BY DEF UpgraderInv
  <2>5. ASSUME NEW k \in DOMAIN results', IsOpened(k)'
        PROVE  results'[k].slug \in hub.pulls \intersect hub.branches /\ ~ runs[results'[k].run].dry
    BY <2>3, <2>4, <2>5 DEF HubFits
  <2>6. ASSUME NEW j \in DOMAIN results', NEW k \in DOMAIN results', IsOpened(j)', IsOpened(k)',
               results'[j].slug = results'[k].slug
        PROVE  j = k
    BY <2>3, <2>4, <2>6 DEF HubFits
  <2>7. ASSUME NEW slug \in hub.branches
        PROVE  \E k \in DOMAIN results' : results'[k].slug = slug /\ ~ runs[results'[k].run].dry
    BY <1>5, <2>4 DEF HubFits
  <2> QED
    BY <2>1, <2>2, <2>5, <2>6, <2>7 DEF HubFits
<1> QED
  BY <1>6, <1>7, <1>8, <1>9, <1>10, <1>11, <1>12 DEF UpgraderInv

\* A product is begun: the only result that is not finished.
LEMMA KeepsStartProduct ==
  ASSUME UpgraderInv, NEW t \in Threads, StartProduct(t)
  PROVE  UpgraderInv'
<1> USE DEF IsAt, InLock, InRun, InProduct, InSession
<1>1. threads[t] \in Work /\ threads[t].at = "next" /\ UpgraderTyped
  BY DEF StartProduct, UpgraderInv, UpgraderTyped
<1>2. Turns(t) /\ threads'[t] = [threads[t] EXCEPT !.at = "preparing", !.left = Tail(@), !.slug = Head(threads[t].left),
                                     !.row = Len(results) + 1, !.ended = Unset, !.verdict = Unset, !.repaired = FALSE]
  <2>1. [threads[t] EXCEPT !.at = "preparing", !.left = Tail(@), !.slug = Head(threads[t].left),
                                     !.row = Len(results) + 1, !.ended = Unset, !.verdict = Unset, !.repaired = FALSE] \in Work
    <3>1. Len(results) + 1 \in Nat /\ Head(threads[t].left) \in Slugs /\ Tail(threads[t].left) \in Seq(Slugs)
      BY <1>1 DEF StartProduct, UpgraderTyped, Work
    <3> QED
      BY <1>1, <3>1 DEF Work, Unset
  <2> QED
    BY <1>1, <2>1, TurnIs DEF StartProduct, Moves
<1>3. /\ threads'[t].at = "preparing" /\ threads'[t].run = threads[t].run /\ threads'[t].row = Len(results) + 1
      /\ threads'[t].slug = Head(threads[t].left) /\ threads'[t].ended = Unset /\ threads'[t].verdict = Unset
  BY <1>1, <1>2 DEF Work, Unset
<1>4. \A u \in Threads \ {t} : threads[u].at \in {"idle", "due"} /\ threads'[u].at \in {"idle", "due"}
  BY <1>1, <1>2, HolderIsAlone DEF Turns
<1>5. /\ DOMAIN results = 1 .. Len(results) /\ DOMAIN results' = 1 .. (Len(results) + 1) /\ Len(results) \in Nat
      /\ results' \in Seq(ResultRow)
      /\ \A k \in DOMAIN results : results'[k] = results[k]
      /\ results'[Len(results) + 1].run = threads[t].run /\ results'[Len(results) + 1].slug = Head(threads[t].left)
      /\ results'[Len(results) + 1].outcome = "running" /\ (results'[Len(results) + 1].finished <=> "running" = "failed")
      /\ threads[t].run \in DOMAIN runs
  <2> DEFINE row == [run |-> threads[t].run, slug |-> Head(threads[t].left), outcome |-> "running", finished |-> "running" # "running"]
  <2>1. Head(threads[t].left) \in Slugs /\ threads[t].run \in Nat /\ threads[t].run \in DOMAIN runs
    BY <1>1 DEF StartProduct, Work, UpgraderInv, RunsFit
  <2>2. row \in ResultRow
    BY <2>1 DEF Outcomes, ResultRow
  <2>3. results' = Append(results, row)
    BY DEF StartProduct, NewResult
  <2>4. row.run = threads[t].run /\ row.slug = Head(threads[t].left) /\ row.outcome = "running" /\ (row.finished <=> "running" = "failed")
    OBVIOUS
  <2> HIDE DEF row
  <2> QED
    BY <1>1, <2>1, <2>2, <2>3, <2>4 DEF UpgraderTyped
<1>6. UpgraderTyped'
  BY <1>1, <1>3, <1>4, <1>5, <1>2 DEF StartProduct, UpgraderInv, UpgraderTyped, Turns
<1>7. OneHolder'
  BY <1>1, <1>3, <1>4, <1>5 DEF StartProduct, UpgraderInv, OneHolder
<1>8. RunsFit'
  BY <1>1, <1>3, <1>4, <1>5 DEF StartProduct, UpgraderInv, RunsFit
<1>9. ResultsFit'
  BY <1>1, <1>3, <1>4, <1>5 DEF StartProduct, UpgraderInv, ResultsFit
<1>10. CancelFits'
  BY <1>1, <1>3, <1>4, <1>5 DEF StartProduct, UpgraderInv, CancelFits, Cancelable, CancelIsExact
<1>11. SessionFits'
  BY <1>1, <1>3, <1>4, <1>5, NoProcsElsewhere DEF StartProduct, UpgraderInv, SessionFits, Unset
<1>12. HubFits'
  <2>1. \A k \in DOMAIN results' : results'[k].outcome = "opened" => k \in DOMAIN results /\ results'[k] = results[k]
    BY <1>5
  <2>2. \A k \in DOMAIN results : results[k].run \in DOMAIN runs
    BY DEF UpgraderInv, ResultsFit
  <2>3. DOMAIN results \subseteq DOMAIN results' /\ runs' = runs /\ hub' = hub
    BY <1>5 DEF StartProduct
  <2> QED
    BY <1>1, <1>3, <1>4, <1>5, <2>1, <2>2, <2>3 DEF UpgraderInv, HubFits, IsOpened, Opens
<1> QED
  BY <1>6, <1>7, <1>8, <1>9, <1>10, <1>11, <1>12 DEF UpgraderInv

\* The last product is done, or the run is to end.
LEMMA KeepsNoMoreProducts ==
  ASSUME UpgraderInv, NEW t \in Threads, NoMoreProducts(t)
  PROVE  UpgraderInv'
<1> USE DEF IsAt, InLock, InRun, InProduct, InSession
<1>1. threads[t] \in Work /\ threads[t].at = "next" /\ UpgraderTyped
  BY DEF NoMoreProducts, UpgraderInv, UpgraderTyped
<1>2. Turns(t) /\ threads'[t] = [threads[t] EXCEPT !.at = "closing"]
  <2>1. [threads[t] EXCEPT !.at = "closing"] \in Work
    BY <1>1 DEF Work, Unset
  <2> QED
    BY <1>1, <2>1, TurnIs DEF NoMoreProducts, Moves
<1>3. threads'[t].at = "closing" /\ threads'[t].run = threads[t].run
  BY <1>1, <1>2 DEF Work, Unset
<1>4. \A u \in Threads \ {t} : threads[u].at \in {"idle", "due"} /\ threads'[u].at \in {"idle", "due"}
  BY <1>1, <1>2, HolderIsAlone DEF Turns
<1>5. UpgraderTyped'
  BY <1>1, <1>3, <1>4, <1>2 DEF NoMoreProducts, UpgraderInv, UpgraderTyped, Turns
<1>6. OneHolder'
  BY <1>1, <1>3, <1>4 DEF NoMoreProducts, UpgraderInv, OneHolder
<1>7. RunsFit'
  BY <1>1, <1>3, <1>4 DEF NoMoreProducts, UpgraderInv, RunsFit
<1>8. ResultsFit'
  BY <1>1, <1>3, <1>4 DEF NoMoreProducts, UpgraderInv, ResultsFit
<1>9. CancelFits'
  BY <1>1, <1>3, <1>4 DEF NoMoreProducts, UpgraderInv, CancelFits, Cancelable, CancelIsExact
<1>10. SessionFits'
  BY <1>1, <1>3, <1>4, NoProcsElsewhere DEF NoMoreProducts, UpgraderInv, SessionFits, Unset
<1>11. HubFits'
  BY <1>1, <1>3, <1>4 DEF NoMoreProducts, UpgraderInv, HubFits, ResultsFit, RunsFit, IsOpened, Opens
<1> QED
  BY <1>5, <1>6, <1>7, <1>8, <1>9, <1>10, <1>11 DEF UpgraderInv

\* cancel.stop: what was asked until now decides how the run ends.
LEMMA KeepsStopCancel ==
  ASSUME UpgraderInv, NEW t \in Threads, StopCancel(t)
  PROVE  UpgraderInv'
<1> USE DEF IsAt, InLock, InRun, InProduct, InSession
<1>1. threads[t] \in Work /\ threads[t].at = "closing" /\ UpgraderTyped
  BY DEF StopCancel, UpgraderInv, UpgraderTyped
<1>2. Turns(t) /\ threads'[t] = [threads[t] EXCEPT !.at = "recording", !.ended = IF cancel.asked THEN "canceled" ELSE "completed"]
  <2>1. [threads[t] EXCEPT !.at = "recording", !.ended = IF cancel.asked THEN "canceled" ELSE "completed"] \in Work
    BY <1>1 DEF Work, Unset
  <2> QED
    BY <1>1, <2>1, TurnIs DEF StopCancel, Moves
<1>3. /\ threads'[t].at = "recording" /\ threads'[t].run = threads[t].run
      /\ threads'[t].ended = (IF cancel.asked THEN "canceled" ELSE "completed")
  BY <1>1, <1>2 DEF Work, Unset
<1>4. \A u \in Threads \ {t} : threads[u].at \in {"idle", "due"} /\ threads'[u].at \in {"idle", "due"}
  BY <1>1, <1>2, HolderIsAlone DEF Turns
<1>5. UpgraderTyped'
  BY <1>1, <1>2, UpgraderAssumption DEF StopCancel, UpgraderTyped, Turns, NotWatching
<1>6. OneHolder'
  BY <1>1, <1>3, <1>4 DEF StopCancel, UpgraderInv, OneHolder
<1>7. RunsFit'
  BY <1>1, <1>3, <1>4 DEF StopCancel, UpgraderInv, RunsFit
<1>8. ResultsFit'
  BY <1>1, <1>3, <1>4 DEF StopCancel, UpgraderInv, ResultsFit
<1>9. CancelFits'
  BY <1>1, <1>3, <1>4 DEF StopCancel, UpgraderInv, CancelFits, Cancelable, CancelIsExact
<1>10. SessionFits'
  BY <1>1, <1>3, <1>4, NoProcsElsewhere DEF StopCancel, UpgraderInv, SessionFits, Unset
<1>11. HubFits'
  BY <1>1, <1>3, <1>4 DEF StopCancel, UpgraderInv, HubFits, ResultsFit, RunsFit, IsOpened, Opens
<1> QED
  BY <1>5, <1>6, <1>7, <1>8, <1>9, <1>10, <1>11 DEF UpgraderInv

\* The run is recorded as it ended.
LEMMA KeepsCloseRun ==
  ASSUME UpgraderInv, NEW t \in Threads, CloseRun(t)
  PROVE  UpgraderInv'
<1> USE DEF IsAt, InLock, InRun, InProduct, InSession
<1>1. threads[t] \in Work /\ threads[t].at = "recording" /\ UpgraderTyped
  BY DEF CloseRun, UpgraderInv, UpgraderTyped
<1>2. Turns(t) /\ threads'[t] = [threads[t] EXCEPT !.at = "leaving"]
  <2>1. [threads[t] EXCEPT !.at = "leaving"] \in Work
    BY <1>1 DEF Work, Unset
  <2> QED
    BY <1>1, <2>1, TurnIs DEF CloseRun, Moves
<1>3. threads'[t].at = "leaving" /\ threads'[t].run = threads[t].run
  BY <1>1, <1>2 DEF Work, Unset
<1>4. \A u \in Threads \ {t} : threads[u].at \in {"idle", "due"} /\ threads'[u].at \in {"idle", "due"}
  BY <1>1, <1>2, HolderIsAlone DEF Turns
<1>5. /\ DOMAIN runs' = DOMAIN runs /\ Len(runs') = Len(runs) /\ threads[t].run \in DOMAIN runs
      /\ runs' \in Seq(RunRow)
      /\ \A r \in DOMAIN runs : r # threads[t].run => runs'[r] = runs[r]
      /\ runs'[threads[t].run].finished /\ runs'[threads[t].run].state = threads[t].ended
      /\ threads[t].ended \in {"canceled", "completed"}
      /\ \A r \in DOMAIN runs : runs'[r].dry = runs[r].dry
  <2> DEFINE r == threads[t].run
  <2>1. r \in DOMAIN runs /\ threads[t].ended \in {"canceled", "completed"}
    BY <1>1 DEF UpgraderInv, RunsFit, CancelFits
  <2>2. runs' = [runs EXCEPT ![r] = [runs[r] EXCEPT !.state = threads[t].ended, !.finished = TRUE]]
    BY <1>1, <2>1 DEF CloseRun, UpgraderTyped
  <2>3. runs \in Seq(RunRow) /\ runs[r] \in RunRow
    BY <1>1, <2>1 DEF UpgraderTyped
  <2>4. [runs[r] EXCEPT !.state = threads[t].ended, !.finished = TRUE] \in RunRow
    BY <2>1, <2>3 DEF RunRow
  <2> DEFINE done == [runs[r] EXCEPT !.state = threads[t].ended, !.finished = TRUE]
  <2>5. done.finished /\ done.state = threads[t].ended /\ done.dry = runs[r].dry
    BY <2>3 DEF RunRow
  <2>6. done \in RunRow /\ runs' = [runs EXCEPT ![r] = done]
    BY <2>2, <2>4
  <2> HIDE DEF done
  <2> QED
    BY <2>1, <2>3, <2>5, <2>6
<1>6. UpgraderTyped'
  BY <1>1, <1>3, <1>4, <1>5, <1>2 DEF CloseRun, UpgraderInv, UpgraderTyped, Turns
<1>7. OneHolder'
  BY <1>1, <1>3, <1>4, <1>5 DEF CloseRun, UpgraderInv, OneHolder
<1>8. RunsFit'
  BY <1>1, <1>3, <1>4, <1>5 DEF CloseRun, UpgraderInv, RunsFit
<1>9. ResultsFit'
  BY <1>1, <1>3, <1>4, <1>5 DEF CloseRun, UpgraderInv, ResultsFit
<1>10. CancelFits'
  BY <1>1, <1>3, <1>4, <1>5 DEF CloseRun, UpgraderInv, CancelFits, Cancelable, CancelIsExact
<1>11. SessionFits'
  BY <1>1, <1>3, <1>4, <1>5, NoProcsElsewhere DEF CloseRun, UpgraderInv, SessionFits, Unset
<1>12. HubFits'
  BY <1>1, <1>3, <1>4, <1>5 DEF CloseRun, UpgraderInv, HubFits, ResultsFit, RunsFit, IsOpened, Opens
<1> QED
  BY <1>6, <1>7, <1>8, <1>9, <1>10, <1>11, <1>12 DEF UpgraderInv

\* The lock is free again.
LEMMA KeepsReleaseLock ==
  ASSUME UpgraderInv, NEW t \in Threads, ReleaseLock(t)
  PROVE  UpgraderInv'
<1> USE DEF IsAt, InLock, InRun, InProduct, InSession
<1>1. threads[t] \in Work /\ threads[t].at = "leaving" /\ UpgraderTyped
  BY DEF ReleaseLock, UpgraderInv, UpgraderTyped
<1>2. Turns(t) /\ threads'[t] = NoWork
  <2>1. NoWork \in Work
    BY DEF Work, Unset, NoWork
  <2> QED
    BY <1>1, <2>1, TurnIs DEF ReleaseLock, Moves
<1>3. threads'[t].at = "idle"
  BY <1>2 DEF NoWork
<1>4. \A u \in Threads \ {t} : threads[u].at \in {"idle", "due"} /\ threads'[u].at \in {"idle", "due"}
  BY <1>1, <1>2, HolderIsAlone DEF Turns
<1>5. UpgraderTyped'
  BY <1>1, <1>3, <1>4, <1>2 DEF ReleaseLock, UpgraderInv, UpgraderTyped, Turns
<1>6. OneHolder'
  BY <1>1, <1>3, <1>4 DEF ReleaseLock, UpgraderInv, OneHolder, Threads
<1>7. RunsFit'
  BY <1>1, <1>3, <1>4 DEF ReleaseLock, UpgraderInv, RunsFit
<1>8. ResultsFit'
  BY <1>1, <1>3, <1>4 DEF ReleaseLock, UpgraderInv, ResultsFit
<1>9. CancelFits'
  BY <1>1, <1>3, <1>4 DEF ReleaseLock, UpgraderInv, CancelFits, Cancelable, CancelIsExact
<1>10. SessionFits'
  BY <1>1, <1>3, <1>4, NoProcsElsewhere DEF ReleaseLock, UpgraderInv, SessionFits, Unset
<1>11. HubFits'
  BY <1>1, <1>3, <1>4 DEF ReleaseLock, UpgraderInv, HubFits, ResultsFit, RunsFit, IsOpened, Opens
<1> QED
  BY <1>5, <1>6, <1>7, <1>8, <1>9, <1>10, <1>11 DEF UpgraderInv

\* The product is recorded: its session has ended.
LEMMA KeepsFinishProduct ==
  ASSUME UpgraderInv, NEW t \in Threads, FinishProduct(t)
  PROVE  UpgraderInv'
<1> USE DEF IsAt, InLock, InRun, InProduct, InSession
<1>1. threads[t] \in Work /\ threads[t].at = "finishing" /\ UpgraderTyped
  BY DEF FinishProduct, UpgraderInv, UpgraderTyped
<1>2. Turns(t) /\ threads'[t] = [NoWork EXCEPT !.at = "next", !.run = threads[t].run, !.left = threads[t].left]
  <2>1. [NoWork EXCEPT !.at = "next", !.run = threads[t].run, !.left = threads[t].left] \in Work
    BY <1>1 DEF Work, Unset, NoWork
  <2> QED
    BY <1>1, <2>1, TurnIs DEF FinishProduct, Moves
<1>3. threads'[t].at = "next" /\ threads'[t].run = threads[t].run
  BY <1>1, <1>2 DEF NoWork
<1>4. \A u \in Threads \ {t} : threads[u].at \in {"idle", "due"} /\ threads'[u].at \in {"idle", "due"}
  BY <1>1, <1>2, HolderIsAlone DEF Turns
<1>5. /\ DOMAIN results' = DOMAIN results /\ threads[t].row \in DOMAIN results
      /\ results' \in Seq(ResultRow)
      /\ \A k \in DOMAIN results : k # threads[t].row => results'[k] = results[k]
      /\ results'[threads[t].row].finished /\ results'[threads[t].row].outcome = OutcomeOf(threads[t])
      /\ \A k \in DOMAIN results : results'[k].run = results[k].run /\ results'[k].slug = results[k].slug
  <2> DEFINE k == threads[t].row
             v == OutcomeOf(threads[t])
  <2>1. k \in DOMAIN results /\ v \in Outcomes
    BY <1>1 DEF UpgraderInv, ResultsFit, SessionFits, OutcomeOf, Outcomes, Work, Unset
  <2> HIDE DEF v
  <2>2. results' = [results EXCEPT ![k] = [results[k] EXCEPT !.outcome = v, !.finished = TRUE]]
    BY <1>1, <2>1 DEF FinishProduct, UpgraderTyped, v
  <2>3. results[k] \in ResultRow /\ results \in Seq(ResultRow)
    BY <1>1, <2>1 DEF UpgraderTyped
  <2>4. [results[k] EXCEPT !.outcome = v, !.finished = TRUE] \in ResultRow
    BY <2>1, <2>3 DEF ResultRow
  <2> DEFINE done == [results[k] EXCEPT !.outcome = v, !.finished = TRUE]
  <2>5. done.finished /\ done.outcome = OutcomeOf(threads[t]) /\ done.run = results[k].run /\ done.slug = results[k].slug
    BY <2>3 DEF ResultRow, v
  <2>6. done \in ResultRow /\ results' = [results EXCEPT ![k] = done]
    BY <2>2, <2>4
  <2> HIDE DEF done
  <2> QED
    BY <2>1, <2>3, <2>5, <2>6
<1>6. UpgraderTyped'
  BY <1>1, <1>3, <1>4, <1>5, <1>2 DEF FinishProduct, UpgraderInv, UpgraderTyped, Turns
<1>7. OneHolder'
  BY <1>1, <1>3, <1>4, <1>5 DEF FinishProduct, UpgraderInv, OneHolder
<1>8. RunsFit'
  BY <1>1, <1>3, <1>4, <1>5 DEF FinishProduct, UpgraderInv, RunsFit
<1>9. ResultsFit'
  <2>1. \A u \in Threads : threads'[u].at \notin InProduct
    BY <1>3, <1>4
  <2>2. \A k \in DOMAIN results : results[k].run \in DOMAIN runs /\ (k # threads[t].row => results[k].finished)
    BY <1>1, <1>4 DEF UpgraderInv, ResultsFit
  <2> QED
    BY <1>5, <2>1, <2>2 DEF FinishProduct, ResultsFit
<1>10. CancelFits'
  BY <1>1, <1>3, <1>4, <1>5 DEF FinishProduct, UpgraderInv, CancelFits, Cancelable, CancelIsExact
<1>11. SessionFits'
  BY <1>1, <1>3, <1>4, <1>5, NoProcsElsewhere DEF FinishProduct, UpgraderInv, SessionFits, Unset
<1>12. HubFits'
  <2>1. /\ threads[t].verdict = "opened" => threads[t].ended = Unset
        /\ OutcomeOf(threads[t]) = "opened" => threads[t].verdict = "opened"
    BY <1>1 DEF UpgraderInv, SessionFits, OutcomeOf, Work, Unset
  <2>2. results[threads[t].row].run = threads[t].run /\ results[threads[t].row].slug = threads[t].slug
    BY <1>1 DEF UpgraderInv, ResultsFit
  <2> QED
    BY <1>1, <1>3, <1>4, <1>5, <2>1, <2>2 DEF FinishProduct, UpgraderInv, HubFits, IsOpened, Opens
<1> QED
  BY <1>6, <1>7, <1>8, <1>9, <1>10, <1>11, <1>12 DEF UpgraderInv

\* A run is requested while the lock is free, and takes it.
LEMMA KeepsRequest ==
  ASSUME UpgraderInv, Request
  PROVE  UpgraderInv'
<1> USE DEF IsAt, InLock, InRun, InProduct, InSession
<1>1. threads["manual"] \in Work /\ threads["manual"].at = "idle" /\ UpgraderTyped /\ "manual" \in Threads
  BY DEF Request, UpgraderInv, UpgraderTyped, Threads
<1>2. PICK scope \in Scopes : Does("manual", [NoWork EXCEPT !.at = "starting", !.slug = scope])
  BY DEF Request
<1>3. [NoWork EXCEPT !.at = "starting", !.slug = scope] \in Work
  <2>1. scope \in Slugs \union {Unset}
    BY DEF Slugs
  <2>2. NoWork \in Work
    BY DEF Work, NoWork
  <2>3. \A w \in Work : [w EXCEPT !.at = "starting", !.slug = scope] \in Work
    BY <2>1 DEF Work
  <2> QED
    BY <2>2, <2>3
<1>4. Turns("manual") /\ threads'["manual"].at = "starting"
  BY <1>1, <1>2, <1>3, TurnIs DEF NoWork
<1>5. runLock' = "manual" /\ \A u \in Threads \ {"manual"} : ~ IsAt(u, InLock) /\ threads'[u] = threads[u]
  BY <1>4 DEF Request, UpgraderInv, OneHolder, Turns, Threads
<1>6. UpgraderTyped'
  BY <1>1, <1>4 DEF Request, UpgraderTyped, Turns
<1>7. OneHolder'
  BY <1>1, <1>4, <1>5 DEF OneHolder, Threads
<1>8. RunsFit'
  BY <1>1, <1>4, <1>5 DEF Request, UpgraderInv, RunsFit
<1>9. ResultsFit'
  BY <1>1, <1>4, <1>5 DEF Request, UpgraderInv, ResultsFit
<1>10. CancelFits'
  BY <1>1, <1>4, <1>5 DEF Request, UpgraderInv, CancelFits, Cancelable, CancelIsExact
<1>11. SessionFits'
  BY <1>1, <1>4, <1>5 DEF Request, UpgraderInv, SessionFits
<1>12. HubFits'
  BY <1>1, <1>4, <1>5 DEF Request, UpgraderInv, HubFits, IsOpened, Opens
<1> QED
  BY <1>6, <1>7, <1>8, <1>9, <1>10, <1>11, <1>12 DEF UpgraderInv

\* It is time for the nightly run.
LEMMA KeepsDue ==
  ASSUME UpgraderInv, Due
  PROVE  UpgraderInv'
<1> USE DEF IsAt, InLock, InRun, InProduct, InSession
<1>1. threads["nightly"] \in Work /\ threads["nightly"].at = "idle" /\ UpgraderTyped /\ "nightly" \in Threads
  BY DEF Due, UpgraderInv, UpgraderTyped, Threads
<1>2. [threads["nightly"] EXCEPT !.at = "due"] \in Work
  BY <1>1 DEF Work
<1>3. Turns("nightly") /\ threads'["nightly"].at = "due"
  BY <1>1, <1>2, TurnIs DEF Due, Moves, Work
<1>4. \A u \in Threads \ {"nightly"} : threads'[u] = threads[u]
  BY <1>3 DEF Turns
<1>5. UpgraderTyped'
  BY <1>1, <1>3 DEF Due, UpgraderTyped, Turns
<1>6. OneHolder'
  BY <1>1, <1>3, <1>4 DEF Due, UpgraderInv, OneHolder
<1>7. RunsFit'
  BY <1>1, <1>3, <1>4 DEF Due, UpgraderInv, RunsFit
<1>8. ResultsFit'
  BY <1>1, <1>3, <1>4 DEF Due, UpgraderInv, ResultsFit
<1>9. CancelFits'
  BY <1>1, <1>3, <1>4 DEF Due, UpgraderInv, CancelFits, Cancelable, CancelIsExact
<1>10. SessionFits'
  BY <1>1, <1>3, <1>4 DEF Due, UpgraderInv, SessionFits
<1>11. HubFits'
  BY <1>1, <1>3, <1>4 DEF Due, UpgraderInv, HubFits, IsOpened, Opens
<1> QED
  BY <1>5, <1>6, <1>7, <1>8, <1>9, <1>10, <1>11 DEF UpgraderInv

\* The nightly run has waited for the lock, and takes it.
LEMMA KeepsRunNightly ==
  ASSUME UpgraderInv, RunNightly
  PROVE  UpgraderInv'
<1> USE DEF IsAt, InLock, InRun, InProduct, InSession
<1>1. threads["nightly"] \in Work /\ threads["nightly"].at = "due" /\ UpgraderTyped /\ "nightly" \in Threads
  BY DEF RunNightly, UpgraderInv, UpgraderTyped, Threads
<1>2. [threads["nightly"] EXCEPT !.at = "starting"] \in Work
  BY <1>1 DEF Work
<1>3. Turns("nightly") /\ threads'["nightly"].at = "starting"
  BY <1>1, <1>2, TurnIs DEF RunNightly, Moves, Work
<1>4. runLock' = "nightly" /\ \A u \in Threads \ {"nightly"} : ~ IsAt(u, InLock) /\ threads'[u] = threads[u]
  BY <1>3 DEF RunNightly, UpgraderInv, OneHolder, Turns, Threads
<1>5. UpgraderTyped'
  BY <1>1, <1>3 DEF RunNightly, UpgraderTyped, Turns
<1>6. OneHolder'
  BY <1>1, <1>3, <1>4 DEF OneHolder, Threads
<1>7. RunsFit'
  BY <1>1, <1>3, <1>4 DEF RunNightly, UpgraderInv, RunsFit
<1>8. ResultsFit'
  BY <1>1, <1>3, <1>4 DEF RunNightly, UpgraderInv, ResultsFit
<1>9. CancelFits'
  BY <1>1, <1>3, <1>4 DEF RunNightly, UpgraderInv, CancelFits, Cancelable, CancelIsExact
<1>10. SessionFits'
  BY <1>1, <1>3, <1>4 DEF RunNightly, UpgraderInv, SessionFits
<1>11. HubFits'
  BY <1>1, <1>3, <1>4 DEF RunNightly, UpgraderInv, HubFits, IsOpened, Opens
<1> QED
  BY <1>5, <1>6, <1>7, <1>8, <1>9, <1>10, <1>11 DEF UpgraderInv

\* The session ends, by itself or because it was interrupted.
LEMMA KeepsSession ==
  ASSUME UpgraderInv, SessionEnds \/ \E r \in signals : InterruptSession(r)
  PROVE  UpgraderInv'
<1>1. /\ UNCHANGED <<runLock, threads, cancel, runs, results, procs, hub, asked>>
      /\ main' = main \/ (main = "working" /\ main' \in {"would_open", "skipped", "no_result"})
  BY DEF SessionEnds, InterruptSession
<1>2. UpgraderTyped'
  BY <1>1 DEF UpgraderInv, UpgraderTyped
<1>3. OneHolder' /\ RunsFit' /\ ResultsFit'
  BY <1>1 DEF UpgraderInv, OneHolder, RunsFit, ResultsFit, IsAt
<1>4. CancelFits'
  BY <1>1 DEF UpgraderInv, CancelFits, CancelIsExact, IsAt
<1>5. SessionFits'
  BY <1>1 DEF UpgraderInv, SessionFits, IsAt, InSession
<1>6. HubFits'
  BY <1>1 DEF UpgraderInv, HubFits, IsOpened, Opens, IsAt
<1> QED
  BY <1>2, <1>3, <1>4, <1>5, <1>6 DEF UpgraderInv

\* Cancellation.request: only the run it is registered for, while its products
\* are worked on.
LEMMA KeepsCancel ==
  ASSUME UpgraderInv, NEW r \in DOMAIN runs, Cancel(r)
  PROVE  UpgraderInv'
<1> USE DEF IsAt, InLock, InRun, InProduct, InSession, Cancelable
<1>1. UpgraderTyped /\ cancel.run = r /\ ~ runs[r].finished /\ r \in Nat \ {0}
  BY DEF Cancel, UpgraderInv, UpgraderTyped
<1>2. PICK t \in Threads : IsAt(t, Cancelable)
  <2>1. cancel # NotWatching
    BY <1>1 DEF NotWatching
  <2> QED
    BY <2>1 DEF UpgraderInv, CancelFits
<1>3. threads[t].run = r /\ \A u \in Threads \ {t} : threads[u].at \in {"idle", "due"}
  BY <1>1, <1>2, HolderIsAlone DEF UpgraderInv, CancelFits
<1>4. /\ cancel'.run = cancel.run /\ cancel'.asked
      /\ cancel' \in [run : 0 .. MaxRuns, watching : BOOLEAN, asked : BOOLEAN]
  BY <1>1 DEF Cancel, UpgraderTyped
<1>5. asked' = asked \union {r} /\ UNCHANGED <<runLock, threads, runs, results, procs, main, hub>>
  BY DEF Cancel
<1>6. UpgraderTyped'
  BY <1>1, <1>4, <1>5 DEF UpgraderTyped
<1>7. OneHolder' /\ RunsFit' /\ ResultsFit'
  BY <1>5 DEF UpgraderInv, OneHolder, RunsFit, ResultsFit
<1>8. CancelFits'
  <2>1. runs[r].state = "running"
    BY <1>1 DEF UpgraderInv, RunsFit
  <2> QED
    BY <1>1, <1>2, <1>3, <1>4, <1>5, <2>1 DEF UpgraderInv, CancelFits, CancelIsExact
<1>9. SessionFits'
  BY <1>5 DEF UpgraderInv, SessionFits
<1>10. HubFits'
  BY <1>5 DEF UpgraderInv, HubFits, IsOpened, Opens
<1> QED
  BY <1>6, <1>7, <1>8, <1>9, <1>10 DEF UpgraderInv

\* The container restarts: no thread is in a run, and no row is left open.
LEMMA KeepsRestartUpgrader ==
  ASSUME UpgraderInv, RestartUpgrader
  PROVE  UpgraderInv'
<1> USE DEF IsAt, InLock, InRun, InProduct, InSession, Cancelable
<1>1. UpgraderTyped
  BY DEF UpgraderInv
<1>2. \A t \in Threads : threads'[t] = NoWork /\ threads'[t].at = "idle"
  BY DEF RestartUpgrader, NoWork
<1>3. NoWork \in Work
  BY DEF NoWork, Work
<1> DEFINE closed(r) == [runs[r] EXCEPT !.state = "interrupted", !.finished = TRUE]
<1>4. /\ runs' \in Seq(RunRow) /\ DOMAIN runs' = DOMAIN runs /\ Len(runs') = Len(runs)
      /\ \A r \in DOMAIN runs :
           /\ runs'[r].finished /\ runs'[r].dry = runs[r].dry /\ runs'[r].state # "running"
           /\ runs'[r].state = "interrupted" \/ (runs[r].finished /\ runs'[r].state = runs[r].state)
  <2>1. runs' = [r \in DOMAIN runs |-> IF runs[r].finished THEN runs[r] ELSE closed(r)]
    BY DEF RestartUpgrader
  <2>2. \A r \in DOMAIN runs : runs[r] \in RunRow /\ (runs[r].finished => runs[r].state # "running")
    BY <1>1 DEF UpgraderTyped, UpgraderInv, RunsFit
  <2>3. \A r \in DOMAIN runs :
          closed(r) \in RunRow /\ closed(r).finished /\ closed(r).dry = runs[r].dry /\ closed(r).state = "interrupted"
    BY <2>2 DEF RunRow
  <2> HIDE DEF closed
  <2>4. runs \in Seq(RunRow)
    BY <1>1 DEF UpgraderTyped
  <2>5. DOMAIN runs' = 1 .. Len(runs) /\ Len(runs) \in Nat /\ \A r \in DOMAIN runs : runs'[r] \in RunRow
    BY <2>1, <2>2, <2>3, <2>4
  <2>6. runs' \in Seq(RunRow) /\ Len(runs') = Len(runs)
    BY <2>1, <2>4, <2>5
  <2> QED
    BY <2>1, <2>2, <2>3, <2>4, <2>6
<1> DEFINE shut(k) == [results[k] EXCEPT !.outcome = "interrupted", !.finished = TRUE]
<1>5. /\ results' \in Seq(ResultRow) /\ DOMAIN results' = DOMAIN results
      /\ \A k \in DOMAIN results :
           /\ results'[k].finished /\ results'[k].run = results[k].run /\ results'[k].slug = results[k].slug
           /\ results'[k].outcome = "opened" => results[k].outcome = "opened"
  <2>1. results' = [k \in DOMAIN results |-> IF results[k].finished THEN results[k] ELSE shut(k)]
    BY DEF RestartUpgrader
  <2>2. \A k \in DOMAIN results : results[k] \in ResultRow
    BY <1>1 DEF UpgraderTyped
  <2>3. \A k \in DOMAIN results :
          /\ shut(k) \in ResultRow /\ shut(k).finished /\ shut(k).run = results[k].run
          /\ shut(k).slug = results[k].slug /\ shut(k).outcome = "interrupted"
    BY <2>2 DEF ResultRow, Outcomes
  <2> HIDE DEF shut
  <2>4. results \in Seq(ResultRow)
    BY <1>1 DEF UpgraderTyped
  <2>5. DOMAIN results' = 1 .. Len(results) /\ Len(results) \in Nat /\ \A k \in DOMAIN results : results'[k] \in ResultRow
    BY <2>1, <2>2, <2>3, <2>4
  <2>6. results' \in Seq(ResultRow)
    BY <2>1, <2>4, <2>5
  <2> QED
    BY <2>1, <2>2, <2>3, <2>6
<1> HIDE DEF closed, shut
<1>6. UpgraderTyped'
  <2>1. cancel' \in [run : 0 .. MaxRuns, watching : BOOLEAN, asked : BOOLEAN]
    <3>1. cancel' = NotWatching
      BY DEF RestartUpgrader
    <3>2. NotWatching \in [run : 0 .. MaxRuns, watching : BOOLEAN, asked : BOOLEAN]
      BY UpgraderAssumption DEF NotWatching
    <3> QED
      BY <3>1, <3>2
  <2> QED
    BY <1>1, <1>3, <1>4, <1>5, <2>1 DEF RestartUpgrader, UpgraderTyped
<1>7. OneHolder'
  BY <1>2 DEF RestartUpgrader, OneHolder, Threads
<1>8. RunsFit'
  BY <1>2, <1>4 DEF RunsFit
<1>9. ResultsFit'
  BY <1>2, <1>4, <1>5 DEF UpgraderInv, ResultsFit
<1>10. CancelFits'
  BY <1>2, <1>4 DEF RestartUpgrader, UpgraderInv, CancelFits, CancelIsExact
<1>11. SessionFits'
  BY <1>2 DEF RestartUpgrader, SessionFits
<1>12. HubFits'
  <2>1. \A k \in DOMAIN results : results[k].run \in DOMAIN runs
    BY DEF UpgraderInv, ResultsFit
  <2>2. hub' = hub /\ \A t \in Threads : ~ Opens(t)' /\ ~ IsAt(t, {"pushing"})'
    BY <1>2 DEF RestartUpgrader, Opens
  <2> QED
    BY <1>4, <1>5, <2>1, <2>2 DEF UpgraderInv, HubFits, IsOpened
<1> QED
  BY <1>6, <1>7, <1>8, <1>9, <1>10, <1>11, <1>12 DEF UpgraderInv

\* Before the first run.
LEMMA UpgraderInvFirst ==
  ASSUME UpgraderInit
  PROVE  UpgraderInv
<1> USE DEF UpgraderInit, IsAt, InLock, InRun, InProduct, InSession, Cancelable
<1>1. NoWork \in Work /\ NoWork.at = "idle"
  BY DEF NoWork, Work
<1>2. NotWatching \in [run : 0 .. MaxRuns, watching : BOOLEAN, asked : BOOLEAN]
  BY UpgraderAssumption DEF NotWatching
<1>3. UpgraderTyped
  BY <1>1, <1>2, UpgraderAssumption DEF UpgraderTyped
<1>4. OneHolder /\ RunsFit /\ ResultsFit
  BY <1>1 DEF OneHolder, RunsFit, ResultsFit, Threads
<1>5. CancelFits /\ SessionFits /\ HubFits
  BY <1>1 DEF CancelFits, CancelIsExact, SessionFits, HubFits, IsOpened, Opens
<1> QED
  BY <1>3, <1>4, <1>5 DEF UpgraderInv

\* Every step keeps the invariant.
LEMMA UpgraderInvNext ==
  ASSUME UpgraderInv, [UpgraderNext]_upgraderVars
  PROVE  UpgraderInv'
<1>1. CASE UNCHANGED upgraderVars
  BY <1>1 DEF upgraderVars, UpgraderInv, UpgraderTyped, OneHolder, RunsFit, ResultsFit, CancelFits, CancelIsExact,
              SessionFits, HubFits, IsOpened, Opens, IsAt
<1>2. CASE Request \/ Due \/ RunNightly \/ RestartUpgrader
  BY <1>2, KeepsRequest, KeepsDue, KeepsRunNightly, KeepsRestartUpgrader
<1>3. CASE SessionEnds \/ \E r \in signals : InterruptSession(r)
  BY <1>3, KeepsSession
<1>4. ASSUME NEW t \in Threads, ThreadStep(t)
      PROVE  UpgraderInv'
  <2>1. CASE StartRun(t) \/ RegisterRun(t) \/ RecordFailed(t) \/ StartProduct(t) \/ NoMoreProducts(t)
    BY <2>1, KeepsStartRun, KeepsRegisterRun, KeepsRecordFailed, KeepsStartProduct, KeepsNoMoreProducts
  <2>2. CASE StopCancel(t) \/ CloseRun(t) \/ ReleaseLock(t) \/ PrepareFails(t) \/ Launch(t) \/ WatchSession(t)
    BY <2>2, KeepsStopCancel, KeepsCloseRun, KeepsReleaseLock, KeepsPrepareFails, KeepsLaunch, KeepsWatchSession
  <2>3. CASE WaitEnds(t) \/ Terminate(t) \/ Judge(t) \/ StoreFiles(t)
    BY <2>3, KeepsWaitEnds, KeepsTerminate, KeepsJudge, KeepsStoreFiles
  <2>4. CASE Push(t) \/ OpenPullRequest(t) \/ FinishProduct(t)
    BY <2>4, KeepsPush, KeepsOpenPullRequest, KeepsFinishProduct
  <2> QED
    BY <1>4, <2>1, <2>2, <2>3, <2>4 DEF ThreadStep
<1>5. CASE \E r \in DOMAIN runs : Cancel(r)
  BY <1>5, KeepsCancel
<1> QED
  BY <1>1, <1>2, <1>3, <1>4, <1>5 DEF UpgraderNext

\* A set without two different members has at most one.
LEMMA AtMostOne ==
  ASSUME NEW S, \A x, y \in S : x = y
  PROVE  Cardinality(S) <= 1
<1>1. CASE S = {}
  BY <1>1, FS_EmptySet
<1>2. CASE S # {}
  <2>1. PICK x \in S : S = {x}
    BY <1>2
  <2> QED
    BY <2>1, FS_Singleton
<1> QED
  BY <1>1, <1>2

\* What the invariant says of the tables, the sessions and GitHub.
LEMMA ApartWhenInv ==
  ASSUME UpgraderInv
  PROVE  RunsKeepApart
<1> USE DEF IsAt, InLock, InRun, InProduct, InSession
<1>1. \A t, u \in Threads : IsAt(t, InLock) /\ IsAt(u, InLock) => t = u
  BY DEF UpgraderInv, OneHolder
<1>2. UpgraderTypeOK
  <2>1. \A r \in DOMAIN runs : runs[r] \in RunRow
    BY DEF UpgraderInv, UpgraderTyped
  <2>2. \A k \in DOMAIN results : results[k] \in ResultRow
    BY DEF UpgraderInv, UpgraderTyped
  <2>3. procs \subseteq DOMAIN results
    BY DEF UpgraderInv, SessionFits, ResultsFit
  <2> QED
    BY <2>1, <2>2, <2>3 DEF UpgraderTypeOK, UpgraderInv, UpgraderTyped, ResultsFit, RunRow, ResultRow, Outcomes
<1>3. OneActiveRun
  <2>1. Cardinality(Running(runs)) <= 1
    BY <1>1, AtMostOne DEF UpgraderInv, RunsFit, Running
  <2>2. Cardinality(Running(results)) <= 1
    BY <1>1, AtMostOne DEF UpgraderInv, ResultsFit, Running
  <2>3. \A k \in Running(results) : ~ runs[results[k].run].finished
    BY DEF UpgraderInv, RunsFit, ResultsFit, Running
  <2> QED
    BY <2>1, <2>2, <2>3 DEF OneActiveRun
<1>4. SessionsEndFirst
  <2>1. Cardinality(procs) <= 1
    BY <1>1, AtMostOne DEF UpgraderInv, SessionFits
  <2>2. \A k \in procs : ~ results[k].finished
    BY DEF UpgraderInv, SessionFits, ResultsFit
  <2> QED
    BY <2>1, <2>2 DEF SessionsEndFirst
<1>5. OpenedOnce
  <2> SUFFICES ASSUME NEW slug \in Slugs
               PROVE  LET opened == {k \in DOMAIN results : results[k].slug = slug /\ results[k].outcome = "opened"}
                      IN /\ Cardinality(opened) <= 1
                         /\ opened # {} => slug \in hub.pulls
                         /\ \A k \in opened : ~ runs[results[k].run].dry
                         /\ slug \in hub.branches =>
                              \E k \in DOMAIN results : results[k].slug = slug /\ ~ runs[results[k].run].dry
    BY DEF OpenedOnce
  <2> DEFINE opened == {k \in DOMAIN results : results[k].slug = slug /\ results[k].outcome = "opened"}
  <2>1. \A j, k \in opened : j = k
    BY DEF UpgraderInv, HubFits, IsOpened
  <2>2. Cardinality(opened) <= 1
    BY <2>1, AtMostOne
  <2>3. opened # {} => slug \in hub.pulls
    BY DEF UpgraderInv, HubFits, IsOpened
  <2>4. \A k \in opened : ~ runs[results[k].run].dry
    BY DEF UpgraderInv, HubFits, IsOpened
  <2>5. slug \in hub.branches => \E k \in DOMAIN results : results[k].slug = slug /\ ~ runs[results[k].run].dry
    BY DEF UpgraderInv, HubFits
  <2> QED
    BY <2>2, <2>3, <2>4, <2>5
<1> QED
  BY <1>2, <1>3, <1>4, <1>5 DEF RunsKeepApart, UpgraderInv, CancelFits

\* Runs, their sessions and their proposals keep apart: whatever is requested,
\* canceled and restarted, for any catalog and any number of runs, at most one
\* run and one product are open, a cancel ends the run it names and no other, no
\* process outlives its product's row, and a pull request is of one real result
\* (scheduler.py, runner.py, cancel.py, agent.py and db.py close_interrupted).
THEOREM RunsStayApart == UpgraderSpec => []RunsKeepApart
<1>1. UpgraderInit => UpgraderInv
  BY UpgraderInvFirst
<1>2. UpgraderInv /\ [UpgraderNext]_upgraderVars => UpgraderInv'
  BY UpgraderInvNext
<1>3. UpgraderInv => RunsKeepApart
  BY ApartWhenInv
<1> QED
  BY <1>1, <1>2, <1>3, PTL DEF UpgraderSpec

-----------------------------------------------------------------------------
(* The follow loop.                                                         *)

StreamRow == [open : BOOLEAN, cursor : Int, at : SUBSET Nat, batch : Nat, polling : Int]
ClientRow == [state : {"connect", "reading", "failed", "gaveup"}, cursor : Int, failures : Nat,
              first : BOOLEAN, progress : BOOLEAN]

Reading == client.state = "reading"
OnWire(l) == \E i \in DOMAIN wire : wire[i] = l
Marks == {LifetimeEvent, ErrorEvent}

FollowTyped ==
  /\ stamp \in Seq(Nat \ {0}) /\ junk \subseteq Lines /\ printed \subseteq Lines /\ sent \subseteq Lines
  /\ stream \in StreamRow /\ client \in ClientRow
  /\ streams \in 0..MaxStreams /\ streams >= (IF stream.open THEN 1 ELSE 0)
  /\ wire \in Seq(Int) /\ \A i \in DOMAIN wire : wire[i] \in Marks \union (sent \ junk)
  /\ twice = FALSE

\* The store holds its lines in the order of their nanoseconds.
StampsAscend == \A i, j \in Lines : i <= j => stamp[i] <= stamp[j]

\* s holds the newest nanosecond of some lines, and its lines.
HoldsNewest(s, out) ==
  /\ s.at = {l \in out : stamp[l] = s.cursor}
  /\ \A l \in out : stamp[l] <= s.cursor
  /\ s.cursor # None => \E l \in out : stamp[l] = s.cursor

\* The cursor of an open stream is the newest nanosecond it has emitted, with
\* the lines of that nanosecond; a poll in the air is from there.
CursorFits ==
  /\ ~stream.open => stream = Closed
  /\ stream.open =>
       /\ HoldsNewest(stream, sent)
       /\ stream.cursor # None => stream.polling \in {None, stream.cursor}
       /\ client.cursor <= stream.cursor

\* Nothing is left out after the first of some lines.
Whole(out) == \A s, b \in out, l \in Lines : s <= l /\ stamp[l] < stamp[b] => l \in out

\* What was emitted is printed or still to be read, in order, and an end of
\* the stream is the last thing on the wire.
WireFits ==
  /\ ~Reading => wire = <<>> /\ ~stream.open
  /\ Reading => \A l \in sent \ junk : l \in printed \/ OnWire(l)
  /\ \A i \in DOMAIN wire : wire[i] \in Marks => i = Len(wire) /\ ~stream.open
  /\ \A i \in DOMAIN wire : wire[i] \notin Marks => stamp[wire[i]] >= client.cursor
  /\ \A i, j \in DOMAIN wire : i <= j /\ wire[i] \notin Marks /\ wire[j] \notin Marks => stamp[wire[i]] <= stamp[wire[j]]

\* The client's cursor is the newest nanosecond printed, and no line before
\* it and after a printed one is missing.
PrintedFits ==
  /\ client.cursor = None <=> printed = {}
  /\ client.cursor # None => \E l \in printed : stamp[l] = client.cursor
  /\ \A l \in printed : stamp[l] <= client.cursor
  /\ \A l \in Lines \ (printed \union junk) :
       (\E a \in printed : stamp[a] < stamp[l]) => stamp[l] >= client.cursor

\* A stream starts no later than the client's cursor.
SentReachesBack ==
  Reading /\ printed # {} =>
    /\ sent # {}
    /\ \A l \in Lines : (\E a \in printed : stamp[a] < stamp[l]) /\ stamp[l] >= client.cursor
         => \E s \in sent : s <= l

FollowInv ==
  /\ FollowTyped /\ StampsAscend /\ CursorFits /\ Whole(sent) /\ WireFits /\ PrintedFits /\ SentReachesBack

-----------------------------------------------------------------------------
(* Positions in order, and what a query of the store returns.               *)

Ascends(e) == \A i, j \in DOMAIN e : i < j => e[i] < e[j]

LEMMA PositionsAreFinite ==
  ASSUME NEW n \in Nat, NEW S \in SUBSET (1..n)
  PROVE  IsFiniteSet(S) /\ Cardinality(S) \in Nat
<1>1. IsFiniteSet(1..n)
  BY FS_Interval
<1>2. IsFiniteSet(S)
  BY <1>1, FS_Subset
<1> QED
  BY <1>2, FS_CardinalityType

\* Every set of positions has an enumeration in order.
LEMMA HasOrder ==
  ASSUME NEW n \in Nat, NEW S \in SUBSET (1..n)
  PROVE  \E e \in [1..Cardinality(S) -> S] : Ascends(e)
<1> DEFINE Good(T) == \E e \in [1..Cardinality(T) -> T] : Ascends(e)
           Bad == {k \in Nat : \E T \in SUBSET (1..n) : Cardinality(T) = k /\ ~Good(T)}
<1>1. ASSUME NEW T \in SUBSET (1..n) PROVE IsFiniteSet(T) /\ Cardinality(T) \in Nat
  BY PositionsAreFinite
<1>2. Bad = {}
  <2>1. SUFFICES ASSUME Bad # {} PROVE FALSE
    OBVIOUS
  <2>2. PICK k \in Bad : \A j \in Bad : k <= j
    <3> HIDE DEF Bad
    <3>1. Bad \in SUBSET Nat
      BY DEF Bad
    <3> QED
      BY <2>1, <3>1, HasLeast
  <2>3. PICK T \in SUBSET (1..n) : Cardinality(T) = k /\ ~Good(T)
    BY <2>2
  <2>4. T # {}
    <3>1. SUFFICES ASSUME T = {} PROVE FALSE
      OBVIOUS
    <3>2. Cardinality(T) = 0
      BY <3>1, FS_EmptySet
    <3>3. [i \in 1..0 |-> i] \in [1..Cardinality(T) -> T] /\ Ascends([i \in 1..0 |-> i])
      BY <3>2 DEF Ascends
    <3> QED
      BY <3>3, <2>3
  <2>5. PICK m \in T : \A l \in T : l <= m
    BY <2>4, HasGreatest
  <2> DEFINE R == T \ {m}
  <2>6. Cardinality(R) = k - 1 /\ R \in SUBSET (1..n) /\ Cardinality(R) \in Nat /\ k \in Nat
    BY <1>1, <2>2, <2>3, FS_RemoveElement
  <2>7. PICK e \in [1..(k - 1) -> R] : Ascends(e)
    <3>1. k - 1 \notin Bad
      BY <2>2, <2>6
    <3> QED
      BY <3>1, <2>6
  <2> DEFINE f == [i \in 1..k |-> IF i = k THEN m ELSE e[i]]
  <2>8. f \in [1..k -> T]
    BY <2>6, <2>7
  <2>9. ASSUME NEW i \in 1..k, NEW j \in 1..k, i < j PROVE f[i] < f[j]
    <3>1. i \in 1..(k - 1) /\ f[i] = e[i] /\ e[i] \in R
      BY <2>6, <2>7, <2>9
    <3>2. CASE j = k
      <4>1. e[i] \in T /\ e[i] # m
        BY <3>1
      <4>2. T \subseteq Nat
        OBVIOUS
      <4>3. e[i] \in Nat /\ m \in Nat /\ e[i] <= m
        BY <4>1, <4>2, <2>5
      <4>4. f[j] = m
        BY <3>2
      <4>5. e[i] < m
        BY <4>1, <4>3
      <4> QED
        BY <4>4, <4>5, <3>1
    <3>3. CASE j # k
      <4>1. j \in 1..(k - 1) /\ f[j] = e[j]
        BY <3>3, <2>6
      <4> QED
        BY <4>1, <3>1, <2>7, <2>9 DEF Ascends
    <3> QED
      BY <3>2, <3>3
  <2>10. Ascends(f)
    BY <2>9 DEF Ascends
  <2> QED
    BY <2>3, <2>8, <2>10
<1>3. Cardinality(S) \in Nat
  BY <1>1
<1> QED
  BY <1>2, <1>3

\* InOrder is one: a sequence of the set's positions, each of them, ascending.
LEMMA InOrderIs ==
  ASSUME NEW n \in Nat, NEW S \in SUBSET (1..n)
  PROVE  /\ InOrder(S) \in Seq(S) /\ Ascends(InOrder(S))
         /\ \A l \in S : \E i \in DOMAIN InOrder(S) : InOrder(S)[i] = l
<1> DEFINE e == InOrder(S)
<1>1. e \in [1..Cardinality(S) -> S] /\ Ascends(e)
  BY HasOrder DEF InOrder, Ascends
<1>2. IsFiniteSet(S) /\ Cardinality(S) \in Nat
  BY PositionsAreFinite
<1> HIDE DEF e
<1>3. e \in Injection(1..Cardinality(S), S)
  <2>1. ASSUME NEW i \in 1..Cardinality(S), NEW j \in 1..Cardinality(S), e[i] = e[j] PROVE i = j
    <3>1. e[i] \in S /\ e[j] \in S
      BY <1>1
    <3>2. S \subseteq Nat
      OBVIOUS
    <3>3. e[i] \in Nat /\ e[j] \in Nat
      BY <3>1, <3>2
    <3>4. DOMAIN e = 1..Cardinality(S)
      BY <1>1
    <3> QED
      BY <3>3, <3>4, <2>1, <1>1, <1>2 DEF Ascends
  <2> QED
    BY <2>1, <1>1 DEF Injection, IsInjective
<1>4. Cardinality(1..Cardinality(S)) = Cardinality(S)
  BY <1>2, FS_Interval
<1>5. e \in Surjection(1..Cardinality(S), S)
  BY <1>2, <1>3, <1>4, FS_Injection
<1>6. e \in Seq(S)
  BY <1>1, <1>2
<1>7. \A l \in S : \E i \in DOMAIN e : e[i] = l
  BY <1>1, <1>5 DEF Surjection
<1> QED
  BY <1>1, <1>6, <1>7 DEF e

StampsFit == stamp \in Seq(Nat \ {0}) /\ StampsAscend

\* The nanosecond of the newest of some lines.
LEMMA NewestIs ==
  ASSUME StampsFit, NEW S \in SUBSET Lines, S # {}
  PROVE  /\ \E l \in S : stamp[l] = Max({stamp[k] : k \in S})
         /\ \A l \in S : stamp[l] <= Max({stamp[k] : k \in S})
<1>1. Len(stamp) \in Nat /\ Lines = 1..Len(stamp)
  BY DEF StampsFit, Lines
<1>2. PICK m \in S : \A l \in S : l <= m
  BY <1>1, HasGreatest
<1>3. \A l \in S : stamp[l] <= stamp[m] /\ stamp[l] \in Nat
  BY <1>1, <1>2 DEF StampsFit, StampsAscend, Lines
<1> DEFINE T == {stamp[k] : k \in S}
<1>4. stamp[m] \in T /\ \A t \in T : stamp[m] >= t
  BY <1>3
<1>5. Max(T) \in T /\ \A t \in T : Max(T) >= t
  BY <1>4 DEF Max
<1>6. \A t \in T : t \in Nat
  BY <1>3
<1> QED
  BY <1>5, <1>6

\* A query forward returns the first lines from its nanosecond on.
LEMMA ForwardIs ==
  ASSUME StampsFit, NEW start \in Int, NEW limit \in Nat
  PROVE  /\ Forward(start, limit) \subseteq Lines
         /\ \A l \in Forward(start, limit) : stamp[l] >= start
         /\ \A b \in Forward(start, limit), l \in Lines : l <= b /\ stamp[l] >= start => l \in Forward(start, limit)
         /\ limit >= 1 /\ (\E l \in Lines : stamp[l] >= start)
              => \E m \in Forward(start, limit) : \A l \in Lines : stamp[l] >= start => m <= l
<1> DEFINE From == {l \in Lines : stamp[l] >= start}
           UpTo(l) == {m \in Lines : stamp[m] >= start /\ m <= l}
<1>1. Len(stamp) \in Nat /\ Lines = 1..Len(stamp) /\ Lines \subseteq Nat
  BY DEF StampsFit, Lines
<1>2. ASSUME NEW l \in Lines PROVE IsFiniteSet(UpTo(l)) /\ Cardinality(UpTo(l)) \in Nat
  BY <1>1, PositionsAreFinite
<1>3. ASSUME NEW b \in Forward(start, limit), NEW l \in Lines, l <= b, stamp[l] >= start
      PROVE  l \in Forward(start, limit)
  <2>1. b \in Lines /\ Cardinality(UpTo(b)) <= limit
    BY DEF Forward
  <2>2. UpTo(l) \in SUBSET UpTo(b)
    BY <1>1, <1>3, <2>1
  <2>3. Cardinality(UpTo(l)) <= Cardinality(UpTo(b)) /\ Cardinality(UpTo(l)) \in Nat /\ Cardinality(UpTo(b)) \in Nat
    BY <1>2, <2>1, <2>2, FS_Subset
  <2>4. Cardinality(UpTo(l)) <= limit
    BY <2>1, <2>3
  <2> QED
    BY <1>3, <2>4 DEF Forward
<1>4. ASSUME limit >= 1, NEW l \in Lines, stamp[l] >= start
      PROVE  \E m \in Forward(start, limit) : \A k \in Lines : stamp[k] >= start => m <= k
  <2>1. From \in SUBSET Nat /\ From # {}
    BY <1>1, <1>4
  <2>2. PICK m \in From : \A k \in From : m <= k
    <3> HIDE DEF From
    <3> QED
      BY <2>1, HasLeast
  <2>3. UpTo(m) = {m}
    BY <1>1, <2>2
  <2>4. Cardinality(UpTo(m)) = 1
    BY <2>3, FS_Singleton
  <2>5. m \in Forward(start, limit)
    BY <2>2, <2>4, <1>4 DEF Forward
  <2> QED
    BY <2>2, <2>5
<1> QED
  BY <1>3, <1>4 DEF Forward

\* A query backward returns the last lines.
LEMMA BackwardIs ==
  ASSUME StampsFit, NEW limit \in Nat
  PROVE  /\ Backward(limit) \subseteq Lines
         /\ \A b \in Backward(limit), l \in Lines : b <= l => l \in Backward(limit)
  BY DEF Backward, Lines, StampsFit

-----------------------------------------------------------------------------
(* One batch: what of it is new, and where it leaves the cursor.            *)

\* Advance keeps the cursor on the newest nanosecond, and what it emits is new.
LEMMA AdvanceHoldsNewest ==
  ASSUME StampsFit, NEW s \in StreamRow, NEW out \in SUBSET Lines, HoldsNewest(s, out),
         s.cursor >= None, NEW batch \in SUBSET Lines
  PROVE  /\ Advance(s, batch) \in StreamRow
         /\ HoldsNewest(Advance(s, batch), out \union Emitted(s, batch))
         /\ Emitted(s, batch) \intersect out = {}
         /\ \A l \in Emitted(s, batch) : stamp[l] >= s.cursor
         /\ Advance(s, batch).cursor >= s.cursor
         /\ Advance(s, batch).open = s.open
         /\ Emitted(s, batch) = {} => Advance(s, batch) = s
<1> DEFINE new == Emitted(s, batch)
<1>1. Lines = 1..Len(stamp) /\ Len(stamp) \in Nat /\ \A l \in Lines : stamp[l] \in Nat /\ stamp[l] > 0
  BY DEF StampsFit, Lines
<1>2. new \in SUBSET Lines /\ \A l \in new : stamp[l] >= s.cursor
  <2>1. s.cursor \in Int /\ None = -1
    BY DEF StreamRow, None
  <2>2. new \in SUBSET Lines
    BY DEF Emitted
  <2>3. ASSUME NEW l \in new PROVE stamp[l] >= s.cursor
    <3>1. s.cursor = None \/ stamp[l] > s.cursor \/ stamp[l] = s.cursor
      BY DEF Emitted
    <3>2. stamp[l] \in Nat
      BY <1>1, <2>2
    <3> HIDE DEF new
    <3> QED
      BY <2>1, <3>1, <3>2
  <2> QED
    BY <2>2, <2>3
<1>3. new \intersect out = {}
  <2>1. ASSUME NEW l \in new, l \in out PROVE FALSE
    <3>1. stamp[l] <= s.cursor /\ s.cursor # None /\ s.cursor \in Int
      BY <1>1, <2>1 DEF HoldsNewest, None, StreamRow
    <3>2. stamp[l] = s.cursor /\ l \notin s.at
      BY <1>1, <2>1, <3>1 DEF Emitted
    <3> QED
      BY <2>1, <3>2 DEF HoldsNewest
  <2> QED
    BY <2>1
<1>4. CASE new = {}
  BY <1>3, <1>4 DEF Advance, StreamRow
<1>5. CASE new # {}
  <2> DEFINE top == Max({stamp[l] : l \in new})
             here == {l \in new : stamp[l] = top}
  <2>1. (\E l \in new : stamp[l] = top) /\ \A l \in new : stamp[l] <= top
    <3> HIDE DEF new
    <3> QED
      BY <1>2, <1>5, NewestIs
  <2>2. top \in Nat /\ top > 0 /\ top >= s.cursor
    BY <1>1, <1>2, <2>1
  <2>3. Advance(s, batch) = [s EXCEPT !.cursor = top, !.at = IF top = s.cursor THEN s.at \union here ELSE here]
    BY <1>5 DEF Advance
  <2>4. here \in SUBSET Nat /\ s.at \in SUBSET Nat
    BY <1>1, <1>2 DEF StreamRow
  <2> HIDE DEF top, here, new
  <2>5. /\ Advance(s, batch) \in StreamRow /\ Advance(s, batch).cursor = top /\ Advance(s, batch).open = s.open
        /\ Advance(s, batch).at = IF top = s.cursor THEN s.at \union here ELSE here
    <3> DEFINE at == IF top = s.cursor THEN s.at \union here ELSE here
    <3>1. top \in Int
      BY <2>2
    <3>2. s.at \union here \in SUBSET Nat
      BY <2>4
    <3>3. at \in SUBSET Nat
      BY <2>4, <3>2
    <3>4. Advance(s, batch) = [s EXCEPT !.cursor = top, !.at = at]
      BY <2>3
    <3> HIDE DEF at
    <3>5. /\ Advance(s, batch) \in StreamRow /\ Advance(s, batch).cursor = top
          /\ Advance(s, batch).open = s.open /\ Advance(s, batch).at = at
      BY <3>1, <3>3, <3>4 DEF StreamRow
    <3> QED
      BY <3>5 DEF at
  <2>6. \A l \in out : stamp[l] <= s.cursor /\ stamp[l] \in Nat /\ s.cursor \in Int
    BY <1>1 DEF HoldsNewest, StreamRow
  <2>7. \A l \in out \union new : stamp[l] <= top
    <3>1. ASSUME NEW l \in out PROVE stamp[l] <= top
      BY <2>2, <2>6
    <3> QED
      BY <3>1, <2>1
  <2>8. (IF top = s.cursor THEN s.at \union here ELSE here) = {l \in out \union new : stamp[l] = top}
    <3>1. CASE top = s.cursor
      BY <3>1 DEF HoldsNewest, here
    <3>2. CASE top # s.cursor
      <4>1. \A l \in out : stamp[l] # top
        BY <2>2, <2>6, <3>2
      <4> QED
        BY <3>2, <4>1 DEF here
    <3> QED
      BY <3>1, <3>2
  <2>9. HoldsNewest(Advance(s, batch), out \union new)
    BY <2>1, <2>5, <2>7, <2>8 DEF HoldsNewest
  <2> QED
    BY <1>2, <1>3, <1>5, <2>2, <2>5, <2>9 DEF new
<1> QED
  BY <1>4, <1>5

\* The events of a batch: its lines but the skipped ones, in order.
LEMMA EventsAre ==
  ASSUME StampsFit, NEW S \in SUBSET Lines
  PROVE  /\ Events(S) \in Seq(S \ junk) /\ Events(S) \in Seq(Int)
         /\ \A l \in S \ junk : \E i \in DOMAIN Events(S) : Events(S)[i] = l
         /\ \A i, j \in DOMAIN Events(S) : i <= j => stamp[Events(S)[i]] <= stamp[Events(S)[j]]
<1> DEFINE e == Events(S)
<1>1. Lines = 1..Len(stamp) /\ Len(stamp) \in Nat
  BY DEF StampsFit, Lines
<1>2. S \ junk \in SUBSET (1..Len(stamp))
  BY <1>1
<1>3. e \in Seq(S \ junk) /\ Ascends(e) /\ \A l \in S \ junk : \E i \in DOMAIN e : e[i] = l
  BY <1>1, <1>2, InOrderIs DEF Events
<1> HIDE DEF e
<1>4. ASSUME NEW i \in DOMAIN e, NEW j \in DOMAIN e, i <= j PROVE stamp[e[i]] <= stamp[e[j]]
  <2>1. e[i] \in Lines /\ e[j] \in Lines
    BY <1>2, <1>3
  <2>2. e[i] <= e[j]
    BY <1>1, <1>3, <1>4, <2>1 DEF Ascends
  <2> QED
    BY <2>1, <2>2 DEF StampsFit, StampsAscend
<1>5. S \ junk \subseteq Int
  BY <1>2
<1>6. e \in Seq(Int)
  BY <1>3, <1>5
<1> QED
  BY <1>3, <1>4, <1>6 DEF e

-----------------------------------------------------------------------------
(* Each step keeps the invariant.                                           *)

\* What the parts of the invariant say of the types.
LEMMA FollowTypes ==
  ASSUME FollowInv
  PROVE  /\ StampsFit /\ Lines = 1..Len(stamp) /\ Len(stamp) \in Nat
         /\ \A l \in Lines : stamp[l] \in Nat /\ stamp[l] > 0
         /\ client.cursor \in Int /\ client.cursor >= None /\ stream.cursor \in Int /\ stream.cursor >= None
         /\ DOMAIN wire = 1..Len(wire) /\ Len(wire) \in Nat
         /\ \A i \in DOMAIN wire : wire[i] \in Lines <=> wire[i] \notin Marks
<1>1. StampsFit /\ Lines = 1..Len(stamp) /\ Len(stamp) \in Nat
  BY DEF FollowInv, FollowTyped, StampsFit, Lines
<1>2. \A l \in Lines : stamp[l] \in Nat /\ stamp[l] > 0
  BY <1>1 DEF StampsFit
<1>3. client.cursor \in Int /\ stream.cursor \in Int /\ wire \in Seq(Int)
  BY DEF FollowInv, FollowTyped, StreamRow, ClientRow
<1>4. client.cursor >= None
  <2>1. CASE client.cursor = None
    BY <2>1 DEF None
  <2>2. CASE client.cursor # None
    <3>1. PICK l \in printed : stamp[l] = client.cursor
      BY <2>2 DEF FollowInv, PrintedFits
    <3>2. l \in Lines
      BY <3>1 DEF FollowInv, FollowTyped
    <3> QED
      BY <1>2, <3>1, <3>2 DEF None
  <2> QED
    BY <2>1, <2>2
<1>5. stream.cursor >= None
  <2>1. CASE ~stream.open
    BY <2>1 DEF FollowInv, CursorFits, Closed, None
  <2>2. CASE stream.open /\ stream.cursor # None
    <3>1. PICK l \in sent : stamp[l] = stream.cursor
      BY <2>2 DEF FollowInv, CursorFits, HoldsNewest
    <3>2. l \in Lines
      BY <3>1 DEF FollowInv, FollowTyped
    <3> QED
      BY <1>2, <3>1, <3>2 DEF None
  <2>3. CASE stream.cursor = None
    BY <2>3 DEF None
  <2> QED
    BY <2>1, <2>2, <2>3
<1>6. \A i \in DOMAIN wire : wire[i] \in Lines <=> wire[i] \notin Marks
  <2>1. \A l \in Lines : l \notin Marks
    BY <1>1 DEF Marks, LifetimeEvent, ErrorEvent
  <2>2. \A i \in DOMAIN wire : wire[i] \in Marks \/ wire[i] \in sent
    BY DEF FollowInv, FollowTyped
  <2>3. sent \subseteq Lines
    BY DEF FollowInv, FollowTyped
  <2> QED
    BY <2>1, <2>2, <2>3
<1> QED
  BY <1>1, <1>2, <1>3, <1>4, <1>5, <1>6

LEMMA FollowStarts ==
  ASSUME FollowInit
  PROVE  FollowInv
<1>1. PICK n \in 0..MaxLines : stamp = [l \in 1..n |-> 1]
  BY DEF FollowInit
<1>2. n \in Nat /\ Lines = 1..n
  BY <1>1, FollowAssumption DEF Lines
<1>3. stamp \in Seq(Nat \ {0}) /\ \A l \in Lines : stamp[l] = 1
  BY <1>1, <1>2
<1>4. StampsAscend
  BY <1>3 DEF StampsAscend
<1>5. stream \in StreamRow /\ ~stream.open /\ stream = Closed
  BY FollowAssumption DEF FollowInit, StreamRow, Closed, None
<1>6. client \in ClientRow /\ ~Reading /\ client.cursor = None
  BY DEF FollowInit, ClientRow, Reading, None
<1>7. wire = <<>> /\ wire \in Seq(Int) /\ DOMAIN wire = {} /\ printed = {} /\ sent = {} /\ streams = 0 /\ twice = FALSE
      /\ junk \subseteq Lines
  BY DEF FollowInit
<1>8. FollowTyped
  BY <1>3, <1>5, <1>6, <1>7, FollowAssumption DEF FollowTyped
<1>9. CursorFits /\ Whole(sent)
  BY <1>5, <1>7 DEF CursorFits, Whole
<1>10. WireFits
  BY <1>5, <1>6, <1>7 DEF WireFits
<1>11. PrintedFits /\ SentReachesBack
  BY <1>6, <1>7 DEF PrintedFits, SentReachesBack
<1> QED
  BY <1>4, <1>8, <1>9, <1>10, <1>11 DEF FollowInv

\* The application writes a line after all the others.
LEMMA KeepsAppLogs ==
  ASSUME FollowInv, NEW t \in 1..MaxLines, NEW skip \in BOOLEAN, AppLogs(t, skip)
  PROVE  FollowInv'
<1>1. /\ StampsFit /\ Lines = 1..Len(stamp) /\ Len(stamp) \in Nat /\ \A l \in Lines : stamp[l] \in Nat
  BY FollowTypes
<1>2. t \in Nat \ {0}
  BY FollowAssumption
<1>3. stamp' \in Seq(Nat \ {0}) /\ Lines' = 1..(Len(stamp) + 1)
  BY <1>1, <1>2 DEF AppLogs, StampsFit, Lines
<1>4. \A l \in Lines : stamp'[l] = stamp[l] /\ stamp[l] <= t
  BY <1>1, <1>2 DEF AppLogs, StampsFit
<1>5. stamp'[Len(stamp) + 1] = t
  BY <1>1, <1>2 DEF AppLogs, StampsFit
<1>6. Lines \subseteq Lines' /\ \A l \in Lines' : l \in Lines \/ l = Len(stamp) + 1
  BY <1>1, <1>3
<1>7. junk' \subseteq Lines' /\ junk \subseteq junk' /\ \A l \in Lines : l \in junk' => l \in junk
  <2>1. junk \subseteq Lines /\ junk' = IF skip THEN junk \union {Len(stamp) + 1} ELSE junk
    BY DEF AppLogs, FollowInv, FollowTyped
  <2>2. Len(stamp) + 1 \notin Lines /\ Len(stamp) + 1 \in Lines'
    BY <1>1, <1>3
  <2> QED
    BY <1>6, <2>1, <2>2
<1>8. UNCHANGED <<stream, streams, wire, client, printed, sent, twice>>
  BY DEF AppLogs
<1>9. sent \subseteq Lines /\ printed \subseteq Lines
  BY DEF FollowInv, FollowTyped
<1>10. FollowTyped'
  <2>1. \A i \in DOMAIN wire : wire[i] \in Marks \union (sent \ junk')
    BY <1>7, <1>9 DEF FollowInv, FollowTyped
  <2>2. Marks' = Marks
    BY DEF Marks
  <2> QED
    BY <1>3, <1>6, <1>7, <1>8, <1>9, <2>1, <2>2 DEF FollowInv, FollowTyped
<1>11. StampsAscend'
  <2>1. ASSUME NEW i \in Lines', NEW j \in Lines', i <= j PROVE stamp'[i] <= stamp'[j]
    <3>1. CASE j \in Lines
      <4>1. i \in Lines
        BY <1>1, <1>3, <2>1, <3>1
      <4> QED
        BY <1>4, <2>1, <3>1, <4>1 DEF FollowInv, StampsAscend
    <3>2. CASE j = Len(stamp) + 1 /\ i \in Lines
      BY <1>4, <1>5, <3>2
    <3>3. CASE j = Len(stamp) + 1 /\ i = j
      BY <1>2, <1>5, <3>3
    <3> QED
      BY <1>1, <1>3, <1>6, <2>1, <3>1, <3>2, <3>3
  <2> QED
    BY <2>1 DEF StampsAscend
<1>12. CursorFits'
  <2>1. ASSUME stream.open PROVE HoldsNewest(stream, sent)'
    <3>1. HoldsNewest(stream, sent)
      BY <2>1 DEF FollowInv, CursorFits
    <3> QED
      BY <1>4, <1>8, <1>9, <3>1 DEF HoldsNewest
  <2> QED
    BY <1>8, <2>1 DEF FollowInv, CursorFits, Closed
<1>13. Whole(sent)'
  <2>1. ASSUME NEW s \in sent, NEW b \in sent, NEW l \in Lines', s <= l, stamp'[l] < stamp'[b] PROVE l \in sent
    <3>1. CASE l \in Lines
      BY <1>4, <1>9, <2>1, <3>1 DEF FollowInv, Whole
    <3>2. CASE l = Len(stamp) + 1
      <4>1. stamp'[b] <= t /\ stamp'[b] \in Nat /\ stamp'[l] = t /\ t \in Nat
        BY <1>1, <1>2, <1>4, <1>5, <1>9, <3>2
      <4> QED
        BY <2>1, <4>1
    <3> QED
      BY <1>6, <3>1, <3>2
  <2> QED
    BY <1>8, <2>1 DEF Whole
<1>14. WireFits'
  <2>1. \A i \in DOMAIN wire : wire[i] \notin Marks => stamp'[wire[i]] = stamp[wire[i]]
    BY <1>4, FollowTypes
  <2>2. Marks' = Marks /\ Reading' = Reading /\ \A l : OnWire(l)' = OnWire(l)
    BY <1>8 DEF Marks, Reading, OnWire
  <2>3. sent \ junk' \subseteq sent \ junk
    BY <1>7
  <2>4. WireFits
    BY DEF FollowInv
  <2> QED
    BY <1>8, <2>1, <2>2, <2>3, <2>4 DEF WireFits
<1>15. PrintedFits'
  <2>1. PrintedFits
    BY DEF FollowInv
  <2>2. ASSUME NEW l \in Lines' \ (printed \union junk'), NEW a \in printed, stamp'[a] < stamp'[l]
        PROVE  stamp'[l] >= client.cursor
    <3>1. CASE l \in Lines
      BY <1>4, <1>7, <1>9, <2>1, <2>2, <3>1 DEF PrintedFits
    <3>2. CASE l = Len(stamp) + 1
      <4>1. client.cursor # None
        BY <2>1, <2>2 DEF PrintedFits
      <4>2. PICK p \in printed : stamp[p] = client.cursor
        BY <2>1, <4>1 DEF PrintedFits
      <4> QED
        BY <1>4, <1>5, <1>9, <3>2, <4>2
    <3> QED
      BY <1>6, <2>2, <3>1, <3>2
  <2> QED
    BY <1>4, <1>8, <1>9, <2>1, <2>2 DEF PrintedFits
<1>16. SentReachesBack'
  <2>1. ASSUME Reading, printed # {} PROVE sent # {}
    BY <2>1 DEF FollowInv, SentReachesBack
  <2>2. ASSUME Reading, printed # {}, NEW l \in Lines', NEW a \in printed, stamp'[a] < stamp'[l], stamp'[l] >= client.cursor
        PROVE  \E s \in sent : s <= l
    <3>1. CASE l \in Lines
      BY <1>4, <1>9, <2>2, <3>1 DEF FollowInv, SentReachesBack
    <3>2. CASE l = Len(stamp) + 1
      <4>1. PICK s \in sent : TRUE
        BY <2>1, <2>2
      <4> QED
        BY <1>1, <1>9, <3>2, <4>1
    <3> QED
      BY <1>6, <3>1, <3>2
  <2> QED
    BY <1>8, <2>1, <2>2 DEF SentReachesBack, Reading
<1> QED
  BY <1>10, <1>11, <1>12, <1>13, <1>14, <1>15, <1>16 DEF FollowInv

\* A step that leaves the lines and the client's cursor alone.
LEMMA LinesStay ==
  ASSUME FollowInv, UNCHANGED <<stamp, junk, printed, sent, twice>>, client'.cursor = client.cursor
  PROVE  /\ Lines' = Lines /\ Marks' = Marks
         /\ StampsAscend' /\ Whole(sent)' /\ PrintedFits'
         /\ (Reading' => Reading) => SentReachesBack'
<1>1. Lines' = Lines /\ Marks' = Marks
  BY DEF Lines, Marks
<1>2. StampsAscend'
  BY <1>1 DEF FollowInv, StampsAscend
<1>3. Whole(sent)'
  BY <1>1 DEF FollowInv, Whole
<1>4. PrintedFits'
  BY <1>1 DEF FollowInv, PrintedFits
<1>5. ASSUME Reading' => Reading PROVE SentReachesBack'
  BY <1>1, <1>5 DEF FollowInv, SentReachesBack
<1> QED
  BY <1>1, <1>2, <1>3, <1>4, <1>5

LEMMA KeepsRefuse ==
  ASSUME FollowInv, Refuse
  PROVE  FollowInv'
<1>1. UNCHANGED <<stamp, junk, stream, streams, wire, printed, sent, twice>> /\ client.state = "connect"
  BY DEF Refuse
<1>2. client' \in ClientRow /\ client'.cursor = client.cursor /\ ~Reading' /\ ~Reading
  BY DEF Refuse, FollowInv, FollowTyped, ClientRow, Reading
<1>3. /\ Lines' = Lines /\ Marks' = Marks /\ StampsAscend' /\ Whole(sent)' /\ PrintedFits' /\ SentReachesBack'
  BY <1>1, <1>2, LinesStay
<1>4. FollowTyped'
  BY <1>1, <1>2, <1>3 DEF FollowInv, FollowTyped
<1>5. CursorFits'
  BY <1>1, <1>2 DEF FollowInv, CursorFits, HoldsNewest, Closed, Lines
<1>6. WireFits'
  BY <1>1, <1>2, <1>3 DEF FollowInv, WireFits
<1> QED
  BY <1>3, <1>4, <1>5, <1>6 DEF FollowInv

LEMMA KeepsPollBegins ==
  ASSUME FollowInv, PollBegins
  PROVE  FollowInv'
<1>1. UNCHANGED <<stamp, junk, streams, wire, client, printed, sent, twice>> /\ stream.open
  BY DEF PollBegins
<1>2. Present \in Int
  <2>1. stamp # <<>> => Len(stamp) \in Lines /\ Last(stamp) = stamp[Len(stamp)]
    BY FollowTypes DEF Last, StampsFit
  <2> QED
    BY <2>1, FollowTypes DEF Present
<1>3. /\ stream' \in StreamRow /\ stream'.open /\ stream'.cursor = stream.cursor /\ stream'.at = stream.at
      /\ stream.cursor # None => stream'.polling = stream.cursor
  BY <1>2 DEF PollBegins, FollowInv, FollowTyped, StreamRow
<1>4. /\ Lines' = Lines /\ Marks' = Marks /\ Reading' = Reading
      /\ StampsAscend' /\ Whole(sent)' /\ PrintedFits' /\ SentReachesBack'
  BY <1>1, LinesStay DEF Reading
<1>5. FollowTyped'
  BY <1>1, <1>3, <1>4 DEF FollowInv, FollowTyped
<1>6. CursorFits'
  BY <1>1, <1>3 DEF FollowInv, CursorFits, HoldsNewest
<1>7. WireFits'
  BY <1>1, <1>3, <1>4 DEF FollowInv, WireFits, OnWire
<1> QED
  BY <1>4, <1>5, <1>6, <1>7 DEF FollowInv

LEMMA KeepsNoticeGone ==
  ASSUME FollowInv, NoticeGone
  PROVE  FollowInv'
<1>1. UNCHANGED <<stamp, junk, stream, wire, client, printed, sent, twice>> /\ streams' = streams - 1
      /\ streams > (IF stream.open THEN 1 ELSE 0)
  BY DEF NoticeGone
<1>2. /\ Lines' = Lines /\ Marks' = Marks /\ Reading' = Reading
      /\ StampsAscend' /\ Whole(sent)' /\ PrintedFits' /\ SentReachesBack'
  BY <1>1, LinesStay DEF Reading
<1>3. streams' \in 0..MaxStreams /\ streams' >= (IF stream.open THEN 1 ELSE 0)
  <2>1. streams \in 0..MaxStreams /\ MaxStreams \in Nat
    BY FollowAssumption DEF FollowInv, FollowTyped
  <2> QED
    BY <1>1, <2>1
<1>4. FollowTyped'
  BY <1>1, <1>2, <1>3 DEF FollowInv, FollowTyped
<1>5. CursorFits'
  BY <1>1 DEF FollowInv, CursorFits, HoldsNewest, Closed
<1>6. WireFits'
  BY <1>1, <1>2 DEF FollowInv, WireFits, OnWire
<1> QED
  BY <1>2, <1>4, <1>5, <1>6 DEF FollowInv

\* The stream's end is the last thing sent.
LEMMA KeepsStreamEnds ==
  ASSUME FollowInv, NEW mark \in Marks, stream.open, stream' = Closed, streams' = streams - 1,
         wire' = Append(wire, mark), UNCHANGED <<stamp, junk, client, printed, sent, twice>>
  PROVE  FollowInv'
<1>1. /\ Lines' = Lines /\ Marks' = Marks /\ Reading' = Reading
      /\ StampsAscend' /\ Whole(sent)' /\ PrintedFits' /\ SentReachesBack'
  BY LinesStay DEF Reading
<1>2. stream' \in StreamRow /\ ~stream'.open
  BY FollowAssumption DEF Closed, StreamRow, None
<1>3. streams' \in 0..MaxStreams /\ streams' >= 0
  <2>1. streams \in 0..MaxStreams /\ MaxStreams \in Nat /\ streams >= 1
    BY FollowAssumption DEF FollowInv, FollowTyped
  <2> QED
    BY <2>1
<1>4. /\ wire \in Seq(Int) /\ mark \in Int /\ Len(wire) \in Nat /\ DOMAIN wire = 1..Len(wire)
      /\ wire' \in Seq(Int) /\ Len(wire') = Len(wire) + 1 /\ DOMAIN wire' = 1..(Len(wire) + 1)
      /\ wire'[Len(wire) + 1] = mark /\ \A i \in DOMAIN wire : wire'[i] = wire[i]
  BY DEF FollowInv, FollowTyped, Marks, LifetimeEvent, ErrorEvent
<1>5. \A i \in DOMAIN wire' : i \in DOMAIN wire \/ i = Len(wire) + 1
  BY <1>4
<1>6. FollowTyped'
  <2>1. \A i \in DOMAIN wire' : wire'[i] \in Marks \union (sent \ junk)
    BY <1>4, <1>5 DEF FollowInv, FollowTyped
  <2> QED
    BY <1>1, <1>2, <1>3, <1>4, <2>1 DEF FollowInv, FollowTyped
<1>7. CursorFits'
  BY <1>2 DEF CursorFits, Closed
<1>8. WireFits'
  <2>1. WireFits
    BY DEF FollowInv
  <2>2. Reading
    BY <2>1 DEF WireFits
  <2>3. \A i \in DOMAIN wire : wire[i] \notin Marks
    BY <2>1 DEF WireFits
  <2>4. ASSUME NEW l \in sent \ junk PROVE l \in printed \/ OnWire(l)'
    BY <1>4, <2>1, <2>2 DEF WireFits, OnWire
  <2>5. \A i \in DOMAIN wire' : wire'[i] \in Marks => i = Len(wire')
    BY <1>4, <1>5, <2>3
  <2>6. \A i \in DOMAIN wire' : wire'[i] \notin Marks => i \in DOMAIN wire
    BY <1>4, <1>5
  <2> QED
    BY <1>1, <1>2, <1>4, <2>1, <2>2, <2>4, <2>5, <2>6 DEF WireFits
<1> QED
  BY <1>1, <1>6, <1>7, <1>8 DEF FollowInv

\* The client reads no more, and nothing of the stream is left.
LEMMA KeepsLeaving ==
  ASSUME FollowInv, client' \in ClientRow, client'.cursor = client.cursor, ~Reading',
         wire' = <<>>, stream' = Closed, UNCHANGED <<stamp, junk, streams, printed, sent, twice>>
  PROVE  FollowInv'
<1>1. /\ Lines' = Lines /\ Marks' = Marks /\ StampsAscend' /\ Whole(sent)' /\ PrintedFits' /\ SentReachesBack'
  BY LinesStay
<1>2. stream' \in StreamRow /\ ~stream'.open
  BY FollowAssumption DEF Closed, StreamRow, None
<1>3. streams' \in 0..MaxStreams /\ streams' >= 0
  BY DEF FollowInv, FollowTyped
<1>4. wire' \in Seq(Int) /\ DOMAIN wire' = {}
  OBVIOUS
<1>5. FollowTyped'
  BY <1>1, <1>2, <1>3, <1>4 DEF FollowInv, FollowTyped
<1>6. CursorFits'
  BY <1>2 DEF CursorFits, Closed
<1>7. WireFits'
  BY <1>2, <1>4 DEF WireFits
<1> QED
  BY <1>1, <1>5, <1>6, <1>7 DEF FollowInv

LEMMA KeepsEnds ==
  ASSUME FollowInv, StreamFails \/ LifetimeEnds \/ Reconnects \/ Interrupted \/ Drop
  PROVE  FollowInv'
<1>1. CASE StreamFails \/ LifetimeEnds
  <2>1. \E mark \in Marks : wire' = Append(wire, mark)
    BY <1>1 DEF StreamFails, LifetimeEnds, Marks
  <2> QED
    BY <1>1, <2>1, KeepsStreamEnds DEF StreamFails, LifetimeEnds
<1>2. CASE Reconnects \/ Interrupted
  <2>1. Len(wire) \in Nat /\ DOMAIN wire = 1..Len(wire) /\ wire # <<>>
    BY <1>2, FollowTypes DEF Reconnects, Interrupted
  <2>2. wire[1] \in Marks /\ 1 \in DOMAIN wire
    BY <1>2, <2>1 DEF Reconnects, Interrupted, Marks, FollowInv, FollowTyped
  <2>3. stream = Closed
    BY <2>2 DEF FollowInv, WireFits, CursorFits
  <2>4. client' \in ClientRow /\ client'.cursor = client.cursor /\ ~Reading'
    <3>1. client \in ClientRow
      BY DEF FollowInv, FollowTyped
    <3>2. (IF client.progress THEN 0 ELSE client.failures) \in Nat
      BY <3>1 DEF ClientRow
    <3>3. CASE Reconnects
      BY <3>1, <3>2, <3>3 DEF Reconnects, ClientRow, Reading
    <3>4. CASE Interrupted
      BY <3>1, <3>4 DEF Interrupted, ClientRow, Reading
    <3> QED
      BY <1>2, <3>3, <3>4
  <2> QED
    BY <1>2, <2>3, <2>4, KeepsLeaving DEF Reconnects, Interrupted
<1>3. CASE Drop
  <2>1. client \in ClientRow
    BY DEF FollowInv, FollowTyped
  <2>2. PICK f \in Nat : Retry(f)
    BY <1>3, <2>1 DEF Drop, ClientRow
  <2>3. client' \in ClientRow /\ client'.cursor = client.cursor /\ ~Reading'
    BY <2>1, <2>2 DEF Retry, ClientRow, Reading
  <2> QED
    BY <1>3, <2>3, KeepsLeaving DEF Drop
<1> QED
  BY <1>1, <1>2, <1>3

\* A line printed is the next one: what is before it is printed already.
LEMMA KeepsPrintLine ==
  ASSUME FollowInv, PrintLine
  PROVE  FollowInv'
<1> DEFINE w == wire[1]
<1>1. /\ w \in Lines /\ wire' = SubSeq(wire, 2, Len(wire)) /\ printed' = printed \union {w}
      /\ client' = [client EXCEPT !.cursor = stamp[w], !.progress = TRUE]
      /\ wire # <<>> /\ Reading /\ UNCHANGED <<stamp, junk, stream, streams, sent, twice>>
  BY DEF PrintLine, Reading
<1>2. /\ StampsFit /\ Lines = 1..Len(stamp) /\ Len(stamp) \in Nat /\ DOMAIN wire = 1..Len(wire) /\ Len(wire) \in Nat
      /\ \A l \in Lines : stamp[l] \in Nat /\ stamp[l] > 0
      /\ client.cursor \in Int /\ client.cursor >= None /\ stream.cursor \in Int
      /\ \A i \in DOMAIN wire : wire[i] \in Lines <=> wire[i] \notin Marks
  BY FollowTypes
<1>3. Lines' = Lines /\ Marks' = Marks
  BY <1>1 DEF Lines, Marks
<1>4. 1 \in DOMAIN wire /\ Len(wire) >= 1
  BY <1>1, <1>2
<1>5. /\ wire' \in Seq(Int) /\ Len(wire') = Len(wire) - 1 /\ DOMAIN wire' = 1..(Len(wire) - 1)
      /\ \A i \in DOMAIN wire' : wire'[i] = wire[i + 1] /\ i + 1 \in DOMAIN wire
  <2>1. wire \in Seq(Int)
    BY DEF FollowInv, FollowTyped
  <2> QED
    BY <1>1, <1>2, <1>4, <2>1
<1>6. /\ client' \in ClientRow /\ client'.cursor = stamp[w] /\ Reading'
  <2>1. client \in ClientRow /\ stamp[w] \in Int
    BY <1>1, <1>2 DEF FollowInv, FollowTyped
  <2> HIDE DEF w
  <2> QED
    BY <1>1, <2>1 DEF ClientRow, Reading
<1>7. w \in sent \ junk /\ w \notin Marks /\ sent \subseteq Lines /\ printed \subseteq Lines
  BY <1>1, <1>2, <1>4 DEF FollowInv, FollowTyped
<1>8. client.cursor <= stamp[w]
  BY <1>1, <1>2, <1>4, <1>7 DEF FollowInv, WireFits
<1>9. FollowTyped'
  BY <1>1, <1>3, <1>5, <1>6, <1>7 DEF FollowInv, FollowTyped
<1>10. StampsAscend' /\ Whole(sent)'
  BY <1>1, <1>3 DEF FollowInv, StampsAscend, Whole
<1>11. CursorFits'
  <2>1. ASSUME stream.open PROVE HoldsNewest(stream, sent)' /\ client'.cursor <= stream.cursor
    BY <1>1, <1>6, <1>7, <2>1 DEF FollowInv, CursorFits, HoldsNewest
  <2> QED
    BY <1>1, <2>1 DEF FollowInv, CursorFits, Closed
<1>12. WireFits'
  <2>1. WireFits
    BY DEF FollowInv
  <2>2. ASSUME NEW l \in sent \ junk PROVE l \in printed' \/ OnWire(l)'
    <3>1. CASE l \in printed \/ l = w
      BY <1>1, <3>1
    <3>2. CASE l \notin printed /\ l # w
      <4>1. PICK i \in DOMAIN wire : wire[i] = l
        BY <1>1, <2>1, <3>2 DEF WireFits, OnWire
      <4>2. i # 1
        BY <3>2, <4>1
      <4>3. i - 1 \in DOMAIN wire' /\ wire'[i - 1] = l
        BY <1>2, <1>5, <4>1, <4>2
      <4> QED
        BY <4>3 DEF OnWire
    <3> QED
      BY <3>1, <3>2
  <2>3. ASSUME NEW i \in DOMAIN wire', wire'[i] \in Marks PROVE i = Len(wire') /\ ~stream.open
    <3>1. i + 1 = Len(wire) /\ ~stream.open
      BY <1>5, <2>1, <2>3 DEF WireFits
    <3> QED
      BY <1>2, <1>5, <3>1
  <2>4. ASSUME NEW i \in DOMAIN wire', wire'[i] \notin Marks PROVE stamp[wire'[i]] >= stamp[w]
    <3>1. i + 1 \in DOMAIN wire /\ 1 <= i + 1 /\ wire[i + 1] \notin Marks
      BY <1>2, <1>5, <2>4
    <3>2. stamp[w] <= stamp[wire[i + 1]]
      BY <1>4, <1>7, <2>1, <3>1 DEF WireFits
    <3>3. wire[i + 1] \in Lines
      BY <1>2, <3>1
    <3> QED
      BY <1>1, <1>2, <1>5, <3>2, <3>3
  <2>5. ASSUME NEW i \in DOMAIN wire', NEW j \in DOMAIN wire', i <= j, wire'[i] \notin Marks, wire'[j] \notin Marks
        PROVE  stamp[wire'[i]] <= stamp[wire'[j]]
    <3>1. i + 1 \in DOMAIN wire /\ j + 1 \in DOMAIN wire /\ i + 1 <= j + 1
      BY <1>2, <1>5, <2>5
    <3>2. wire[i + 1] \notin Marks /\ wire[j + 1] \notin Marks
      BY <1>5, <2>5
    <3>3. stamp[wire[i + 1]] <= stamp[wire[j + 1]]
      BY <2>1, <3>1, <3>2 DEF WireFits
    <3> QED
      BY <1>5, <3>3
  <2> QED
    BY <1>1, <1>3, <1>6, <2>2, <2>3, <2>4, <2>5 DEF WireFits
<1>13. PrintedFits'
  <2>1. PrintedFits
    BY DEF FollowInv
  <2>2. stamp[w] # None
    BY <1>1, <1>2 DEF None
  <2>3. \A l \in printed' : stamp[l] <= stamp[w]
    BY <1>1, <1>2, <1>7, <1>8, <2>1 DEF PrintedFits
  <2>4. ASSUME NEW l \in Lines \ (printed' \union junk), NEW a \in printed', stamp[a] < stamp[l], ~(stamp[l] >= stamp[w])
        PROVE  FALSE
    <3>1. stamp[l] < stamp[w] /\ l # w /\ l \notin printed /\ l \notin junk
      BY <1>1, <1>2, <2>4
    <3>2. a \in printed /\ a # w
      BY <1>1, <1>2, <2>4, <3>1
    <3>3. stamp[l] >= client.cursor
      BY <2>1, <2>4, <3>1, <3>2 DEF PrintedFits
    <3>4. PICK s \in sent : s <= l
      BY <1>1, <2>4, <3>2, <3>3 DEF FollowInv, SentReachesBack
    <3>5. l \in sent
      BY <1>7, <3>1, <3>4 DEF FollowInv, Whole
    <3>6. PICK i \in DOMAIN wire : wire[i] = l
      BY <1>1, <3>1, <3>5 DEF FollowInv, WireFits, OnWire
    <3>7. wire[i] \notin Marks /\ 1 <= i
      BY <1>2, <3>6
    <3>8. stamp[w] <= stamp[l]
      BY <1>4, <1>7, <3>6, <3>7 DEF FollowInv, WireFits
    <3> QED
      BY <1>1, <1>2, <3>1, <3>8
  <2> QED
    BY <1>1, <1>3, <1>6, <2>2, <2>3, <2>4 DEF PrintedFits
<1>14. SentReachesBack'
  <2>1. ASSUME NEW l \in Lines, NEW a \in printed', stamp[a] < stamp[l], stamp[l] >= stamp[w]
        PROVE  \E s \in sent : s <= l
    <3>1. CASE a = w
      <4>1. ~(l < w)
        BY <1>1, <1>2, <2>1, <3>1 DEF StampsFit, StampsAscend
      <4> QED
        BY <1>1, <1>2, <1>7, <4>1
    <3>2. CASE a \in printed
      <4>1. stamp[l] >= client.cursor
        BY <1>1, <1>2, <1>8, <2>1
      <4> QED
        BY <1>1, <2>1, <3>2, <4>1 DEF FollowInv, SentReachesBack
    <3> QED
      BY <1>1, <2>1, <3>1, <3>2
  <2> QED
    BY <1>1, <1>3, <1>6, <1>7, <2>1 DEF SentReachesBack
<1> QED
  BY <1>9, <1>10, <1>11, <1>12, <1>13, <1>14 DEF FollowInv

\* A stream begins at the client's cursor, or with the last lines.
LEMMA KeepsConnect ==
  ASSUME FollowInv, Connect
  PROVE  FollowInv'
<1> DEFINE limit == IF client.first THEN TailLines ELSE DefaultTail
           initial == IF client.cursor = None THEN Backward(limit) ELSE Forward(client.cursor, limit)
           opened == [Closed EXCEPT !.open = TRUE]
<1>1. /\ client.state = "connect" /\ streams < MaxStreams /\ streams' = streams + 1
      /\ stream' = Advance(opened, initial) /\ wire' = Events(initial) /\ sent' = initial
      /\ client' = [client EXCEPT !.state = "reading", !.progress = FALSE]
      /\ UNCHANGED <<stamp, junk, printed, twice>>
  BY DEF Connect
<1>2. /\ StampsFit /\ Lines = 1..Len(stamp) /\ Len(stamp) \in Nat
      /\ \A l \in Lines : stamp[l] \in Nat /\ stamp[l] > 0
      /\ client.cursor \in Int /\ client.cursor >= None
  BY FollowTypes
<1>3. Lines' = Lines /\ Marks' = Marks
  BY <1>1 DEF Lines, Marks
<1>4. limit \in Nat /\ limit >= 1
  BY FollowAssumption
<1>5. initial \in SUBSET Lines /\ \A l \in initial : stamp[l] >= client.cursor
  <2>1. CASE client.cursor = None
    <3>1. initial \in SUBSET Lines
      BY <1>2, <1>4, <2>1, BackwardIs
    <3> QED
      BY <1>2, <2>1, <3>1 DEF None
  <2>2. CASE client.cursor # None
    BY <1>2, <1>4, <2>2, ForwardIs
  <2> QED
    BY <2>1, <2>2
<1>6. Whole(initial)
  <2>1. ASSUME NEW s \in initial, NEW b \in initial, NEW l \in Lines, s <= l, stamp[l] < stamp[b] PROVE l \in initial
    <3>1. CASE client.cursor = None
      BY <1>2, <1>4, <2>1, <3>1, BackwardIs
    <3>2. CASE client.cursor # None
      <4>1. stamp[s] <= stamp[l] /\ stamp[s] >= client.cursor
        BY <1>5, <2>1 DEF FollowInv, StampsAscend
      <4>2. stamp[l] >= client.cursor
        BY <1>2, <1>5, <2>1, <4>1
      <4>3. ~(b < l)
        BY <1>2, <1>5, <2>1 DEF FollowInv, StampsAscend
      <4>4. l <= b
        BY <1>2, <1>5, <4>3
      <4>5. b \in Forward(client.cursor, limit)
        BY <2>1, <3>2
      <4>6. l \in Forward(client.cursor, limit)
        <5> HIDE DEF limit
        <5> QED
          BY <1>2, <1>4, <4>2, <4>4, <4>5, ForwardIs
      <4> QED
        BY <3>2, <4>6
    <3> QED
      BY <3>1, <3>2
  <2> QED
    BY <2>1 DEF Whole
<1>7. ASSUME client.cursor # None
      PROVE  \E m \in initial : \A l \in Lines : stamp[l] >= client.cursor => m <= l
  <2>1. PICK p \in printed : stamp[p] = client.cursor
    BY <1>7 DEF FollowInv, PrintedFits
  <2>2. p \in Lines /\ stamp[p] >= client.cursor
    BY <1>2, <2>1 DEF FollowInv, FollowTyped
  <2>3. \E m \in Forward(client.cursor, limit) : \A l \in Lines : stamp[l] >= client.cursor => m <= l
    <3> HIDE DEF limit
    <3> QED
      BY <1>2, <1>4, <2>2, ForwardIs
  <2> QED
    BY <1>7, <2>3
<1> HIDE DEF initial, limit
<1>8. opened \in StreamRow /\ opened.cursor = None /\ opened.at = {} /\ opened.open /\ opened.polling = None
  <2>1. Closed \in StreamRow
    BY FollowAssumption DEF Closed, StreamRow, None
  <2>2. Closed.cursor = None /\ Closed.at = {} /\ Closed.polling = None
    BY DEF Closed
  <2> QED
    BY <2>1, <2>2 DEF StreamRow
<1>9. HoldsNewest(opened, {})
  BY <1>8 DEF HoldsNewest
<1>10. Emitted(opened, initial) = initial
  BY <1>8 DEF Emitted
<1>11. None >= None
  BY DEF None
<1>12. /\ stream' \in StreamRow /\ HoldsNewest(stream', initial) /\ stream'.open /\ stream'.cursor >= None
  <2> HIDE DEF opened
  <2>0. {} \in SUBSET Lines /\ opened.cursor >= None
    BY <1>8, <1>11
  <2>1. /\ Advance(opened, initial) \in StreamRow
        /\ HoldsNewest(Advance(opened, initial), {} \union Emitted(opened, initial))
        /\ Advance(opened, initial).cursor >= opened.cursor
        /\ Advance(opened, initial).open = opened.open
    BY <1>2, <1>5, <1>8, <1>9, <2>0, AdvanceHoldsNewest
  <2> QED
    BY <1>1, <1>8, <1>10, <2>1
<1>13. stream'.polling = None
  <2>1. CASE Emitted(opened, initial) = {}
    BY <1>1, <1>8, <2>1 DEF Advance
  <2>2. CASE Emitted(opened, initial) # {}
    BY <1>1, <1>8, <2>2 DEF Advance, Closed
  <2> QED
    BY <2>1, <2>2
<1>14. client' \in ClientRow /\ client'.cursor = client.cursor /\ Reading'
  <2>1. client \in ClientRow
    BY DEF FollowInv, FollowTyped
  <2> QED
    BY <1>1, <2>1 DEF ClientRow, Reading
<1>15. /\ wire' \in Seq(initial \ junk) /\ wire' \in Seq(Int)
       /\ \A l \in initial \ junk : \E i \in DOMAIN wire' : wire'[i] = l
       /\ \A i, j \in DOMAIN wire' : i <= j => stamp[wire'[i]] <= stamp[wire'[j]]
  BY <1>1, <1>2, <1>5, EventsAre
<1>16. \A i \in DOMAIN wire' : wire'[i] \in initial \ junk
  BY <1>15
<1>17. \A i \in DOMAIN wire' : wire'[i] \notin Marks
  BY <1>2, <1>5, <1>16 DEF Marks, LifetimeEvent, ErrorEvent
<1>18. FollowTyped'
  <2>1. streams' \in 0..MaxStreams /\ streams' >= 1
    BY <1>1, FollowAssumption DEF FollowInv, FollowTyped
  <2> QED
    BY <1>1, <1>3, <1>5, <1>12, <1>14, <1>15, <1>16, <2>1 DEF FollowInv, FollowTyped
<1>19. StampsAscend' /\ Whole(sent)'
  BY <1>1, <1>3, <1>6 DEF FollowInv, StampsAscend, Whole
<1>20. CursorFits'
  <2>1. HoldsNewest(stream, sent)'
    BY <1>1, <1>12 DEF HoldsNewest
  <2>2. client.cursor <= stream'.cursor
    <3>1. CASE client.cursor = None
      BY <1>12, <3>1 DEF None, StreamRow
    <3>2. CASE client.cursor # None
      <4>1. PICK m \in initial : TRUE
        BY <1>7, <3>2
      <4>2. stamp[m] >= client.cursor /\ stamp[m] <= stream'.cursor /\ stamp[m] \in Nat
        BY <1>2, <1>5, <1>12 DEF HoldsNewest
      <4>3. stream'.cursor \in Int
        BY <1>12 DEF StreamRow
      <4> QED
        BY <1>2, <4>2, <4>3
    <3> QED
      BY <3>1, <3>2
  <2> QED
    BY <1>12, <1>13, <1>14, <2>1, <2>2 DEF CursorFits
<1>21. WireFits'
  <2>1. \A l \in (sent \ junk)' : OnWire(l)'
    BY <1>1, <1>15 DEF OnWire
  <2>2. \A i \in DOMAIN wire' : stamp[wire'[i]] >= client.cursor
    BY <1>5, <1>16
  <2> QED
    BY <1>1, <1>3, <1>14, <1>15, <1>17, <2>1, <2>2 DEF WireFits
<1>22. PrintedFits'
  BY <1>1, <1>3, <1>14 DEF FollowInv, PrintedFits
<1>23. SentReachesBack'
  <2>1. printed # {} => client.cursor # None
    BY DEF FollowInv, PrintedFits
  <2> QED
    BY <1>1, <1>3, <1>7, <1>14, <2>1 DEF SentReachesBack
<1> QED
  BY <1>18, <1>19, <1>20, <1>21, <1>22, <1>23 DEF FollowInv

\* Two sequences of numbers end to end.
LEMMA JoinIs ==
  ASSUME NEW s \in Seq(Int), NEW t \in Seq(Int)
  PROVE  /\ s \o t \in Seq(Int) /\ Len(s \o t) = Len(s) + Len(t)
         /\ \A i \in 1..Len(s) : (s \o t)[i] = s[i]
         /\ \A i \in 1..Len(t) : (s \o t)[Len(s) + i] = t[i]
<1>1. s \o t \in Seq(Int) /\ Len(s \o t) = Len(s) + Len(t)
  OBVIOUS
<1>2. \A i \in 1..Len(s) : (s \o t)[i] = s[i]
  OBVIOUS
<1>3. \A i \in 1..Len(t) : (s \o t)[Len(s) + i] = t[i]
  OBVIOUS
<1> QED
  BY <1>1, <1>2, <1>3

\* A poll sends what follows the lines sent, and none of those again.
LEMMA KeepsPollEnds ==
  ASSUME FollowInv, PollEnds
  PROVE  FollowInv'
<1> DEFINE batch == Forward(stream.polling, stream.batch)
           new == Emitted(stream, batch)
           ev == Events(new)
<1>1. /\ stream.open /\ stream.polling # None /\ wire' = wire \o ev /\ sent' = sent \union new
      /\ twice' = (twice \/ new \intersect sent # {})
      /\ UNCHANGED <<stamp, junk, streams, client, printed>>
  BY DEF PollEnds
<1>2. /\ StampsFit /\ Lines = 1..Len(stamp) /\ Len(stamp) \in Nat
      /\ \A l \in Lines : stamp[l] \in Nat /\ stamp[l] > 0
      /\ client.cursor \in Int /\ client.cursor >= None /\ stream.cursor \in Int /\ stream.cursor >= None
      /\ DOMAIN wire = 1..Len(wire) /\ Len(wire) \in Nat
      /\ \A i \in DOMAIN wire : wire[i] \in Lines <=> wire[i] \notin Marks
  BY FollowTypes
<1>3. /\ stream \in StreamRow /\ sent \in SUBSET Lines /\ printed \subseteq Lines /\ twice = FALSE /\ wire \in Seq(Int)
      /\ stream.polling \in Int /\ stream.batch \in Nat
  BY DEF FollowInv, FollowTyped, StreamRow
<1>4. Lines' = Lines /\ Marks' = Marks /\ Reading' = Reading /\ Reading
  BY <1>1 DEF Lines, Marks, Reading, FollowInv, WireFits
<1>5. /\ batch \in SUBSET Lines /\ \A l \in batch : stamp[l] >= stream.polling
      /\ \A b \in batch, l \in Lines : l <= b /\ stamp[l] >= stream.polling => l \in batch
  BY <1>2, <1>3, ForwardIs
<1>6. /\ HoldsNewest(stream, sent) /\ client.cursor <= stream.cursor
      /\ stream.cursor # None => stream.polling = stream.cursor
  BY <1>1 DEF FollowInv, CursorFits
<1> HIDE DEF batch
<1>7. /\ Advance(stream, batch) \in StreamRow
      /\ HoldsNewest(Advance(stream, batch), sent \union new)
      /\ new \intersect sent = {}
      /\ \A l \in new : stamp[l] >= stream.cursor
      /\ Advance(stream, batch).cursor >= stream.cursor
      /\ Advance(stream, batch).open = stream.open
  BY <1>2, <1>3, <1>5, <1>6, AdvanceHoldsNewest
<1>8. new \in SUBSET batch /\ new \in SUBSET Lines
  BY <1>5 DEF Emitted
<1>9. /\ stream' \in StreamRow /\ stream'.open /\ stream'.polling = None
      /\ stream'.cursor = Advance(stream, batch).cursor /\ stream'.at = Advance(stream, batch).at
  <2> DEFINE adv == Advance(stream, batch)
             size == IF new # {} THEN Batch ELSE IF Cardinality(batch) >= stream.batch THEN stream.batch * 2 ELSE stream.batch
  <2>1. stream' = [adv EXCEPT !.polling = None, !.batch = size]
    BY DEF PollEnds, batch
  <2>2. size \in Nat /\ adv \in StreamRow /\ None \in Int /\ adv.open
    BY <1>1, <1>3, <1>7, FollowAssumption DEF None
  <2> HIDE DEF adv, size
  <2>3. /\ stream' \in StreamRow /\ stream'.open /\ stream'.polling = None
        /\ stream'.cursor = adv.cursor /\ stream'.at = adv.at
    BY <2>1, <2>2 DEF StreamRow
  <2> QED
    BY <2>3 DEF adv
<1>10. Whole(sent \union new)
  <2>1. ASSUME NEW s \in sent \union new, NEW b \in sent \union new, NEW l \in Lines,
               s <= l, stamp[l] < stamp[b], l \notin sent
        PROVE  l \in new
    <3>1. s \in Lines /\ b \in Lines /\ stamp[s] <= stamp[l]
      BY <1>3, <1>8, <2>1 DEF FollowInv, StampsAscend
    <3>2. l <= b
      <4>1. ~(b < l)
        BY <1>2, <2>1, <3>1 DEF FollowInv, StampsAscend
      <4> QED
        BY <1>2, <3>1, <4>1
    <3>3. CASE stream.cursor = None
      <4>1. sent = {}
        <5>1. \A k \in sent : FALSE
          BY <1>2, <1>3, <1>6, <3>3 DEF HoldsNewest, None
        <5> QED
          BY <5>1
      <4>2. s \in batch /\ b \in batch
        BY <1>8, <2>1, <4>1
      <4>3. stamp[l] >= stream.polling
        BY <1>2, <1>3, <1>5, <3>1, <4>2
      <4>4. l \in batch
        BY <1>5, <3>2, <4>2, <4>3
      <4> QED
        BY <3>3, <4>4 DEF Emitted
    <3>4. CASE stream.cursor # None
      <4>1. PICK c \in sent : stamp[c] = stream.cursor
        BY <1>6, <3>4 DEF HoldsNewest
      <4>2. stamp[l] >= stream.cursor
        <5>1. SUFFICES ASSUME stamp[l] < stream.cursor PROVE FALSE
          BY <1>2
        <5>2. s \in sent
          <6>1. stamp[s] < stream.cursor
            BY <1>2, <3>1, <5>1
          <6>2. \A k \in new : stamp[k] >= stream.cursor /\ stamp[k] \in Nat
            BY <1>2, <1>7, <1>8
          <6>3. s \notin new
            <7> HIDE DEF new
            <7> QED
              BY <1>2, <6>1, <6>2
          <6> QED
            BY <2>1, <6>3
        <5> QED
          BY <2>1, <4>1, <5>1, <5>2 DEF FollowInv, Whole
      <4>3. b \in new
        <5>1. \A k \in sent : stamp[k] <= stream.cursor /\ stamp[k] \in Nat
          BY <1>2, <1>3, <1>6 DEF HoldsNewest
        <5>2. stamp[b] > stream.cursor
          BY <1>2, <2>1, <3>1, <4>2
        <5>3. b \notin sent
          BY <1>2, <5>1, <5>2
        <5> QED
          BY <2>1, <5>3
      <4>4. l \in batch
        BY <1>5, <1>6, <1>8, <3>2, <3>4, <4>2, <4>3
      <4>5. l \notin stream.at
        BY <1>6, <2>1 DEF HoldsNewest
      <4> QED
        BY <1>2, <4>2, <4>4, <4>5 DEF Emitted
    <3> QED
      BY <3>3, <3>4
  <2> HIDE DEF new
  <2> QED
    BY <2>1 DEF Whole
<1> HIDE DEF new
<1>11. /\ ev \in Seq(new \ junk) /\ ev \in Seq(Int)
       /\ \A l \in new \ junk : \E i \in DOMAIN ev : ev[i] = l
       /\ \A i, j \in DOMAIN ev : i <= j => stamp[ev[i]] <= stamp[ev[j]]
  BY <1>2, <1>8, EventsAre
<1> HIDE DEF ev
<1>12. Len(ev) \in Nat /\ DOMAIN ev = 1..Len(ev) /\ \A i \in DOMAIN ev : ev[i] \in new \ junk
  BY <1>11
<1>13. /\ wire' \in Seq(Int) /\ Len(wire') = Len(wire) + Len(ev) /\ DOMAIN wire' = 1..(Len(wire) + Len(ev))
       /\ \A i \in DOMAIN wire : wire'[i] = wire[i] /\ i \in DOMAIN wire'
       /\ \A i \in DOMAIN ev : wire'[Len(wire) + i] = ev[i] /\ Len(wire) + i \in DOMAIN wire'
  <2>1. /\ wire \o ev \in Seq(Int) /\ Len(wire \o ev) = Len(wire) + Len(ev)
        /\ \A i \in 1..Len(wire) : (wire \o ev)[i] = wire[i]
        /\ \A i \in 1..Len(ev) : (wire \o ev)[Len(wire) + i] = ev[i]
    BY <1>3, <1>11, JoinIs
  <2>2. DOMAIN wire' = 1..(Len(wire) + Len(ev))
    BY <1>1, <2>1
  <2>3. \A i \in DOMAIN wire : i \in DOMAIN wire'
    BY <1>2, <1>12, <2>2
  <2>4. \A i \in DOMAIN ev : Len(wire) + i \in DOMAIN wire'
    BY <1>2, <1>12, <2>2
  <2> QED
    BY <1>1, <1>2, <1>12, <2>1, <2>2, <2>3, <2>4
<1>14. \A i \in DOMAIN wire' : i \in DOMAIN wire \/ (i - Len(wire) \in DOMAIN ev /\ wire'[i] = ev[i - Len(wire)])
  <2>1. ASSUME NEW i \in DOMAIN wire', i \notin DOMAIN wire
        PROVE  i - Len(wire) \in DOMAIN ev /\ wire'[i] = ev[i - Len(wire)]
    <3>1. i - Len(wire) \in DOMAIN ev
      BY <1>2, <1>12, <1>13, <2>1
    <3>2. Len(wire) + (i - Len(wire)) = i
      BY <1>2, <1>13
    <3> QED
      BY <1>13, <3>1, <3>2
  <2> QED
    BY <2>1
<1>15. \A i \in DOMAIN wire : wire[i] \notin Marks /\ wire[i] \in sent \ junk
  BY <1>1 DEF FollowInv, FollowTyped, WireFits
<1>16. \A l \in Lines : l \notin Marks
  BY <1>2 DEF Marks, LifetimeEvent, ErrorEvent
<1>17. \A i \in DOMAIN wire' : wire'[i] \in (sent \union new) \ junk /\ wire'[i] \notin Marks
  BY <1>3, <1>8, <1>12, <1>13, <1>14, <1>15, <1>16
<1>18. FollowTyped'
  BY <1>1, <1>3, <1>4, <1>7, <1>8, <1>9, <1>13, <1>17 DEF FollowInv, FollowTyped
<1>19. StampsAscend' /\ Whole(sent)'
  BY <1>1, <1>4, <1>10 DEF FollowInv, StampsAscend, Whole
<1>20. CursorFits'
  <2>1. HoldsNewest(stream, sent)'
    BY <1>1, <1>7, <1>9 DEF HoldsNewest
  <2>2. stream'.cursor \in Int
    BY <1>9 DEF StreamRow
  <2>3. client.cursor <= stream'.cursor
    BY <1>2, <1>6, <1>7, <1>9, <2>2
  <2> QED
    BY <1>1, <1>9, <2>1, <2>3 DEF CursorFits
<1>21. WireFits'
  <2>1. WireFits
    BY DEF FollowInv
  <2>2. ASSUME NEW l \in (sent \union new) \ junk PROVE l \in printed \/ OnWire(l)'
    <3>1. CASE l \in sent
      BY <1>4, <1>13, <2>1, <2>2, <3>1 DEF WireFits, OnWire
    <3>2. CASE l \in new
      BY <1>11, <1>13, <2>2, <3>2 DEF OnWire
    <3> QED
      BY <2>2, <3>1, <3>2
  <2>3. \A l \in new : stamp[l] >= client.cursor /\ stamp[l] >= stream.cursor
    BY <1>2, <1>6, <1>7, <1>8
  <2>4. \A l \in sent : stamp[l] <= stream.cursor
    BY <1>6 DEF HoldsNewest
  <2>5. \A i \in DOMAIN wire' : stamp[wire'[i]] >= client.cursor
    BY <1>12, <1>13, <1>14, <1>15, <2>1, <2>3 DEF WireFits
  <2>6. ASSUME NEW i \in DOMAIN wire', NEW j \in DOMAIN wire', i <= j PROVE stamp[wire'[i]] <= stamp[wire'[j]]
    <3>1. CASE i \in DOMAIN wire /\ j \in DOMAIN wire
      BY <1>13, <1>15, <2>1, <2>6, <3>1 DEF WireFits
    <3>2. CASE i \in DOMAIN wire /\ j \notin DOMAIN wire
      <4>1. wire'[i] \in sent /\ wire'[j] \in new
        BY <1>12, <1>13, <1>14, <1>15, <3>2
      <4>2. stamp[wire'[i]] \in Nat /\ stamp[wire'[j]] \in Nat
        BY <1>2, <1>3, <1>8, <4>1
      <4> QED
        BY <1>2, <2>3, <2>4, <4>1, <4>2
    <3>3. CASE i \notin DOMAIN wire
      <4>1. j \notin DOMAIN wire
        BY <1>2, <1>13, <2>6, <3>3
      <4>2. i - Len(wire) <= j - Len(wire)
        BY <1>2, <1>13, <2>6
      <4> QED
        BY <1>11, <1>14, <3>3, <4>1, <4>2
    <3> QED
      BY <3>1, <3>2, <3>3
  <2> QED
    BY <1>1, <1>4, <1>17, <2>2, <2>5, <2>6 DEF WireFits
<1>22. PrintedFits'
  BY <1>1, <1>4 DEF FollowInv, PrintedFits
<1>23. SentReachesBack'
  BY <1>1, <1>4 DEF FollowInv, SentReachesBack
<1> QED
  BY <1>18, <1>19, <1>20, <1>21, <1>22, <1>23 DEF FollowInv

\* The invariant says what the property does.
LEMMA FollowInvIsExact ==
  ASSUME FollowInv
  PROVE  StreamsAreExact
<1>1. /\ Lines = 1..Len(stamp) /\ Len(stamp) \in Nat /\ \A l \in Lines : stamp[l] \in Nat /\ stamp[l] > 0
      /\ client.cursor \in Int
  BY FollowTypes
<1>2. stream.cursor \in {None} \union Range(stamp)
  <2>1. CASE ~stream.open
    BY <2>1 DEF FollowInv, CursorFits, Closed
  <2>2. CASE stream.open /\ stream.cursor # None
    <3>1. PICK l \in sent : stamp[l] = stream.cursor
      BY <2>2 DEF FollowInv, CursorFits, HoldsNewest
    <3>2. l \in DOMAIN stamp
      BY <3>1 DEF FollowInv, FollowTyped, Lines
    <3> QED
      BY <3>1, <3>2 DEF Range
  <2>3. CASE stream.cursor = None
    BY <2>3
  <2> QED
    BY <2>1, <2>2, <2>3
<1>3. FollowTypeOK
  <2>1. client.state \in {"connect", "reading", "failed", "gaveup"}
    BY DEF FollowInv, FollowTyped, ClientRow
  <2> QED
    BY <1>2, <2>1 DEF FollowInv, FollowTyped, FollowTypeOK
<1>4. NoGap
  <2>1. ASSUME NEW l \in Lines \ (printed \union junk), NEW a \in printed, NEW b \in printed,
               stamp[a] < stamp[l], stamp[l] < stamp[b]
        PROVE  FALSE
    <3>1. stamp[l] >= client.cursor /\ stamp[b] <= client.cursor
      BY <2>1 DEF FollowInv, PrintedFits
    <3>2. b \in Lines
      BY DEF FollowInv, FollowTyped
    <3> QED
      BY <1>1, <2>1, <3>1, <3>2
  <2> QED
    BY <2>1 DEF NoGap
<1>5. OncePerStream
  BY DEF FollowInv, FollowTyped, OncePerStream
<1> QED
  BY <1>3, <1>4, <1>5 DEF StreamsAreExact

\* Nothing the follower is shown has a gap or comes twice in a stream, whatever
\* is lost, cut short, resumed or shares a nanosecond (_Cursor and stream in
\* log_stream.py, follow_stream in logs.py).
THEOREM FollowingIsExact == FollowSpec => []StreamsAreExact
<1>1. FollowInit => FollowInv
  BY FollowStarts
<1>2. FollowInv /\ [FollowNext]_followVars => FollowInv'
  <2> SUFFICES ASSUME FollowInv, [FollowNext]_followVars PROVE FollowInv'
    OBVIOUS
  <2>1. CASE UNCHANGED followVars
    <3>1. UNCHANGED <<stamp, junk, stream, streams, wire, client, printed, sent, twice>>
      BY <2>1 DEF followVars
    <3>2. Lines' = Lines
      BY <3>1 DEF Lines
    <3> QED
      BY <3>1, <3>2 DEF FollowInv, FollowTyped, StampsAscend, CursorFits, HoldsNewest, Whole, WireFits, PrintedFits,
                        SentReachesBack, Reading, OnWire, Marks, Closed
  <2>2. CASE FollowNext
    BY <2>2, KeepsAppLogs, KeepsConnect, KeepsRefuse, KeepsPollBegins, KeepsPollEnds, KeepsEnds, KeepsNoticeGone,
       KeepsPrintLine DEF FollowNext
  <2> QED
    BY <2>1, <2>2
<1>3. FollowInv => StreamsAreExact
  BY FollowInvIsExact
<1> QED
  BY <1>1, <1>2, <1>3, PTL DEF FollowSpec

-----------------------------------------------------------------------------
(* The pod of a build.                                                      *)

Reader == {"main", "thread"}
ReadingRow == [at : Nat, level : Nat, by : Reader]
LastRow == [at : Nat, level : Nat, known : BOOLEAN]
MeterRow == [thread : {"none", "waits", "wants", "reads", "ended"}, stopped : BOOLEAN, failed : BOOLEAN,
             last : LastRow, doubled : Int, max : Nat, now : Nat, woken : Nat]
Ending == {"stop", "join", "last", "report", "exit", "gone"}
Working == {"prepare", "configure", "open", "extract", "plan", "build", "digest", "inspect", "stop", "join", "last"}

BuilderTyped ==
  /\ gate \in [refused : Nat, jailed : BOOLEAN, transient : Nat]
  /\ archive \in [members : Seq(ArchiveMember), end : {"complete", "cut"}, received : Nat]
  /\ tree \in [entries : Nat, bytes : Nat, dockerfile : BOOLEAN]
  /\ image \in [pushed : BOOLEAN, digest : {"none", "malformed", "true"}]
  /\ meter \in MeterRow /\ readings \in Seq(ReadingRow)
  /\ cgroup.level \in Nat /\ clock \in Nat

\* Before the jail is up a refusal is a transient failure, and one is not enough.
GateFits ==
  /\ ~gate.jailed => gate.refused <= gate.transient /\ gate.transient <= MaxTransient
  /\ pod = "running" => gate.jailed

\* Only a push with its digest read leads to an image, and only main says so.
WorkFits ==
  /\ TreeIsBounded
  /\ pc \in {"digest", "inspect"} => image.pushed
  /\ pc = "inspect" => image.digest = "true"
  /\ outcome.image => pc \in Ending /\ image.pushed /\ image.digest = "true"
  /\ message.image => outcome.image
  /\ pod = "completed" => outcome.image /\ pc = "gone"

\* sum holds the area under the readings up to each of them.
Sums(sum) ==
  /\ sum \in Seq(Int) /\ Len(sum) = Len(readings)
  /\ Len(sum) > 0 => sum[1] = 0 /\ sum[Len(sum)] = meter.doubled
  /\ \A i \in 1..(Len(sum) - 1) : sum[i + 1] = sum[i] + Doubled(i)

\* The meter's fields are those of the readings made, in order of time.
MeterFits ==
  /\ meter.now <= clock
  /\ \A i \in DOMAIN readings : readings[i].at <= clock /\ readings[i].level <= meter.max
  /\ lock # "free" => \A i \in DOMAIN readings : readings[i].at <= meter.now
  /\ \A i, j \in DOMAIN readings : i <= j => readings[i].at <= readings[j].at
  /\ meter.last.known <=> readings # <<>>
  /\ readings # <<>> => /\ meter.last.at = readings[Len(readings)].at
                        /\ meter.last.level = readings[Len(readings)].level
  /\ readings = <<>> => meter.doubled = 0
  /\ \E sum : Sums(sum)

\* Main reads first and last, the thread in between.
Begun == Len(readings) >= 1 /\ \A i \in DOMAIN readings : (readings[i].by = "main") <=> i = 1
Complete == Len(readings) >= 2 /\ \A i \in DOMAIN readings : (readings[i].by = "main") <=> i \in {1, Len(readings)}

PlaceFits ==
  /\ pod = "gate" => pc = "start"
  /\ pod = "running" => pc \in {"start", "first", "begin", "report", "exit"} \union Working
  /\ pc \in {"start", "first"} => readings = <<>> /\ meter.thread = "none"
  /\ pc = "begin" => meter.thread = "none" /\ (meter.failed \/ Begun)
  /\ pc \in Working => meter.failed \/ Begun
  /\ pc \in {"last", "report", "exit"} => meter.thread = "ended"
  /\ pc \in {"report", "exit"} => meter.failed \/ Complete
  /\ pc \in {"first", "last"} => lock = "main"
  /\ meter.thread = "reads" => lock = "thread"

\* A message tells of the readings, all of them made.
MessageFits ==
  message.usage # {} =>
    /\ pc \in {"exit", "gone"} /\ meter.thread = "ended" /\ ~meter.failed /\ Complete
    /\ \A u \in message.usage : u.doubled = meter.doubled /\ (~KeepsPeak => u.peak = meter.max)

BuilderInv == BuilderTyped /\ GateFits /\ WorkFits /\ MeterFits /\ PlaceFits /\ MessageFits

LEMMA BuilderStarts ==
  ASSUME BuilderInit
  PROVE  BuilderInv
<1> USE DEF BuilderInit, NoReading, NoOutcome, NoMessage
<1>1. PICK a \in Archives : archive = [members |-> a.members, end |-> a.end, received |-> 0]
  OBVIOUS
<1>2. a \in [members : Seq(ArchiveMember), end : {"complete", "cut"}]
  BY BuilderAssumption
<1>3. archive \in [members : Seq(ArchiveMember), end : {"complete", "cut"}, received : Nat]
  BY <1>1, <1>2
<1>4. cgroup.level \in Nat
  BY BuilderAssumption
<1>5. meter \in MeterRow
  BY DEF MeterRow, LastRow
<1>6. BuilderTyped
  BY <1>3, <1>4, <1>5 DEF BuilderTyped
<1>7. GateFits
  BY BuilderAssumption DEF GateFits
<1>8. WorkFits
  BY BuilderAssumption DEF WorkFits, TreeIsBounded
<1>9. MeterFits
  <2>1. Sums(<<>>)
    BY DEF Sums
  <2> QED
    BY <2>1 DEF MeterFits
<1>10. PlaceFits /\ MessageFits
  BY DEF PlaceFits, MessageFits, Working
<1> QED
  BY <1>6, <1>7, <1>8, <1>9, <1>10 DEF BuilderInv

\* A reading is the next point of the curve, or a failure for good.
LEMMA ReadsFit ==
  ASSUME BuilderTyped, MeterFits, NEW who \in Reader, Reads(who), clock' = clock
  PROVE  /\ MeterFits' /\ meter' \in MeterRow /\ readings' \in Seq(ReadingRow) /\ lock' = "free"
         /\ meter'.thread = (IF who = "thread" THEN "waits" ELSE meter.thread) /\ meter'.stopped = meter.stopped
         /\ meter'.failed \/ (/\ ~meter'.failed <=> ~meter.failed
                              /\ readings' = Append(readings, [at |-> meter.now, level |-> cgroup.level, by |-> who]))
<1>1. /\ meter \in MeterRow /\ readings \in Seq(ReadingRow) /\ cgroup.level \in Nat /\ clock \in Nat /\ lock = who
      /\ Len(readings) \in Nat /\ DOMAIN readings = 1..Len(readings) /\ lock' = "free"
  BY DEF BuilderTyped, Reads
<1>2. /\ meter.now \in Nat /\ meter.last.at \in Nat /\ meter.last.level \in Nat /\ meter.doubled \in Int /\ meter.max \in Nat
      /\ meter.last \in LastRow
  BY <1>1 DEF MeterRow, LastRow
<1>3. CASE /\ meter' = [meter EXCEPT !.failed = TRUE, !.thread = IF who = "thread" THEN "waits" ELSE @, !.woken = clock]
           /\ UNCHANGED readings
  <2> DEFINE thread == IF who = "thread" THEN "waits" ELSE meter.thread
  <2>1. thread \in {"none", "waits", "wants", "reads", "ended"}
    BY <1>1 DEF MeterRow
  <2>2. meter' = [meter EXCEPT !.failed = TRUE, !.thread = thread, !.woken = clock]
    BY <1>3
  <2> HIDE DEF thread
  <2>3. /\ meter' \in MeterRow /\ meter'.failed /\ meter'.thread = thread /\ meter'.stopped = meter.stopped
        /\ meter'.doubled = meter.doubled /\ meter'.last = meter.last /\ meter'.max = meter.max /\ meter'.now = meter.now
    BY <1>1, <2>1, <2>2 DEF MeterRow
  <2>4. PICK sum : Sums(sum)
    BY DEF MeterFits
  <2>5. Sums(sum)'
    BY <1>3, <2>3, <2>4 DEF Sums, Doubled
  <2>6. MeterFits'
    BY <1>1, <1>3, <2>3, <2>5 DEF MeterFits
  <2> QED
    BY <1>1, <1>3, <2>3, <2>6 DEF thread
<1>4. CASE /\ meter' = [meter EXCEPT
                 !.doubled = IF meter.last.known
                             THEN @ + (meter.last.level + cgroup.level) * (meter.now - meter.last.at) ELSE @,
                 !.last = [at |-> meter.now, level |-> cgroup.level, known |-> TRUE],
                 !.max = IF cgroup.level > @ THEN cgroup.level ELSE @,
                 !.thread = IF who = "thread" THEN "waits" ELSE @, !.woken = clock]
           /\ readings' = Append(readings, [at |-> meter.now, level |-> cgroup.level, by |-> who])
  <2> DEFINE thread == IF who = "thread" THEN "waits" ELSE meter.thread
             step == (meter.last.level + cgroup.level) * (meter.now - meter.last.at)
             area == IF meter.last.known THEN meter.doubled + step ELSE meter.doubled
             last == [at |-> meter.now, level |-> cgroup.level, known |-> TRUE]
             max == IF cgroup.level > meter.max THEN cgroup.level ELSE meter.max
             r == [at |-> meter.now, level |-> cgroup.level, by |-> who]
  <2>0. PICK n \in Nat : n = Len(readings)
    BY <1>1
  <2>1. thread \in {"none", "waits", "wants", "reads", "ended"}
    BY <1>1 DEF MeterRow
  <2>2. meter' = [meter EXCEPT !.doubled = area, !.last = last, !.max = max, !.thread = thread, !.woken = clock]
    BY <1>4
  <2>3. step \in Int
    BY <1>1, <1>2
  <2>4. area \in Int
    <3> HIDE DEF step
    <3> QED
      BY <1>2, <2>3
  <2>5. last \in LastRow /\ last.at = meter.now /\ last.level = cgroup.level /\ last.known = TRUE
    BY <1>1, <1>2 DEF LastRow
  <2>6. max \in Nat /\ max >= meter.max /\ max >= cgroup.level
    BY <1>1, <1>2
  <2>7. r \in ReadingRow /\ r.at = meter.now /\ r.level = cgroup.level /\ r.by = who
    BY <1>1, <1>2 DEF ReadingRow
  <2>8. readings' = Append(readings, r)
    BY <1>4
  <2>9. step = (meter.last.level + r.level) * (r.at - meter.last.at)
    BY <2>7
  <2> HIDE DEF thread, step, last, max, r
  <2>10. meter'.doubled = area
    <3> HIDE DEF area
    <3> QED
      BY <1>1, <2>2, <2>4 DEF MeterRow
  <2>11. /\ meter' \in MeterRow /\ meter'.failed = meter.failed /\ meter'.thread = thread /\ meter'.stopped = meter.stopped
         /\ meter'.last = last /\ meter'.max = max /\ meter'.now = meter.now
    <3> HIDE DEF area
    <3> QED
      BY <1>1, <2>1, <2>2, <2>4, <2>5, <2>6 DEF MeterRow
  <2>12. /\ readings' \in Seq(ReadingRow) /\ Len(readings') = n + 1 /\ DOMAIN readings' = 1..(n + 1)
         /\ readings'[n + 1] = r /\ \A i \in DOMAIN readings : readings'[i] = readings[i]
    BY <1>1, <2>0, <2>7, <2>8
  <2>13. \A i \in DOMAIN readings' : i \in DOMAIN readings \/ i = n + 1
    BY <1>1, <2>0, <2>12
  <2>14. \A i \in DOMAIN readings : readings[i].at \in Nat /\ readings[i].level \in Nat
    <3>1. \A i \in DOMAIN readings : readings[i] \in ReadingRow
      BY <1>1
    <3> QED
      BY <3>1 DEF ReadingRow
  <2>15. /\ meter.now <= clock
         /\ \A i \in DOMAIN readings : readings[i].at <= clock /\ readings[i].level <= meter.max /\ readings[i].at <= meter.now
    BY <1>1 DEF MeterFits, Reader
  <2>16. \A i \in DOMAIN readings' : readings'[i].at <= clock /\ readings'[i].level <= max
    BY <1>1, <1>2, <2>6, <2>7, <2>12, <2>13, <2>14, <2>15
  <2>17. ASSUME NEW i \in DOMAIN readings', NEW j \in DOMAIN readings', i <= j PROVE readings'[i].at <= readings'[j].at
    <3>1. CASE j \in DOMAIN readings
      <4>1. i \in DOMAIN readings
        BY <1>1, <2>0, <2>12, <2>17, <3>1
      <4> QED
        BY <2>12, <2>17, <3>1, <4>1 DEF MeterFits
    <3>2. CASE j = n + 1
      BY <1>2, <2>7, <2>12, <2>13, <2>15, <3>2
    <3> QED
      BY <2>13, <3>1, <3>2
  <2>18. \E sum : Sums(sum)'
    <3>1. PICK sum : Sums(sum)
      BY DEF MeterFits
    <3>0. PICK new : new = Append(sum, area)
      OBVIOUS
    <3>2. /\ sum \in Seq(Int) /\ Len(sum) = n
          /\ new \in Seq(Int) /\ Len(new) = n + 1 /\ new[n + 1] = area /\ \A i \in 1..n : new[i] = sum[i]
      <4> HIDE DEF area
      <4> QED
        BY <3>0, <3>1, <1>1, <2>0, <2>4 DEF Sums
    <3>3. new[1] = 0
      <4>1. CASE n = 0
        BY <4>1, <1>1, <2>0, <3>2 DEF MeterFits
      <4>2. CASE n # 0
        <5>1. 1 \in 1..n /\ sum[1] = 0
          BY <4>2, <1>1, <2>0, <3>1, <3>2 DEF Sums
        <5> QED
          BY <3>2, <5>1
      <4> QED
        BY <4>1, <4>2
    <3>4. ASSUME NEW i \in 1..n PROVE new[i + 1] = new[i] + Doubled(i)'
      <4>1. CASE i < n
        <5>1. i \in 1..(Len(sum) - 1) /\ i + 1 \in 1..n /\ i \in DOMAIN readings /\ i + 1 \in DOMAIN readings
          BY <1>1, <2>0, <3>2, <3>4, <4>1
        <5>2. sum[i + 1] = sum[i] + Doubled(i)
          BY <3>1, <5>1 DEF Sums
        <5>3. Doubled(i)' = Doubled(i)
          BY <2>12, <5>1 DEF Doubled
        <5>4. new[i + 1] = sum[i + 1] /\ new[i] = sum[i]
          BY <3>2, <5>1
        <5> QED
          BY <5>2, <5>3, <5>4
      <4>2. CASE i = n
        <5>1. n >= 1 /\ readings # <<>> /\ n \in DOMAIN readings
          BY <1>1, <2>0, <4>2
        <5>2. meter.last.known /\ meter.last.at = readings[n].at /\ meter.last.level = readings[n].level
          BY <2>0, <5>1 DEF MeterFits
        <5>3. Doubled(n)' = step
          BY <2>9, <2>12, <5>1, <5>2 DEF Doubled
        <5>4. new[n + 1] = meter.doubled + step
          BY <3>2, <5>2
        <5>5. new[n] = meter.doubled
          BY <1>1, <2>0, <3>1, <3>2, <5>1 DEF Sums
        <5> QED
          BY <4>2, <5>3, <5>4, <5>5
      <4>3. i < n \/ i = n
        BY <2>0
      <4> QED
        BY <4>1, <4>2, <4>3
    <3>5. Len(new) - 1 = n /\ Len(new) = Len(readings')
      BY <1>1, <2>0, <2>12, <3>2
    <3>6. Sums(new)'
      <4> HIDE DEF area
      <4> QED
        BY <2>10, <3>2, <3>3, <3>4, <3>5 DEF Sums
    <3> QED
      BY <3>6
  <2>19. MeterFits'
    BY <1>1, <2>0, <2>5, <2>7, <2>11, <2>12, <2>15, <2>16, <2>17, <2>18 DEF MeterFits
  <2> QED
    BY <1>1, <2>0, <2>8, <2>11, <2>12, <2>19 DEF thread, r
<1> QED
  BY <1>3, <1>4 DEF Reads

\* A step that makes no reading.
LEMMA MeterStays ==
  ASSUME BuilderTyped, MeterFits, clock' \in Nat, clock' >= clock, readings' = readings, meter' \in MeterRow,
         meter'.doubled = meter.doubled, meter'.last = meter.last, meter'.max = meter.max,
         (meter'.now = meter.now /\ lock' \in {lock, "free"}) \/ meter'.now = clock
  PROVE  MeterFits'
<1>1. /\ meter \in MeterRow /\ clock \in Nat /\ DOMAIN readings = 1..Len(readings)
      /\ \A i \in DOMAIN readings : readings[i] \in ReadingRow
  BY DEF BuilderTyped
<1>2. meter.now \in Nat /\ meter'.now \in Nat /\ \A i \in DOMAIN readings : readings[i].at \in Nat
  BY <1>1 DEF MeterRow, ReadingRow
<1>3. \E sum : Sums(sum)'
  <2>1. PICK sum : Sums(sum)
    BY DEF MeterFits
  <2>2. Sums(sum)'
    BY <2>1 DEF Sums, Doubled
  <2> QED
    BY <2>2
<1>4. meter.now <= clock /\ \A i \in DOMAIN readings : readings[i].at <= clock /\ readings[i].level <= meter.max
  BY DEF MeterFits
<1>5. meter'.now <= clock' /\ \A i \in DOMAIN readings' : readings'[i].at <= clock' /\ readings'[i].level <= meter'.max
  BY <1>1, <1>2, <1>4
<1>6. lock' # "free" => \A i \in DOMAIN readings : readings[i].at <= meter'.now
  BY <1>2, <1>4 DEF MeterFits
<1> QED
  BY <1>3, <1>5, <1>6 DEF MeterFits

LEMMA KeepsGate ==
  ASSUME BuilderInv, GateStep
  PROVE  BuilderInv'
<1>1. /\ UNCHANGED <<pc, outcome, message, meter, lock, readings, archive, tree, image, cgroup, clock>>
      /\ pod = "gate" /\ pc = "start"
  BY DEF GateStep, JailComesUp, Probe, GateFails, ByGate, KeepsMeter, KeepsWork, Outside, BuilderInv, PlaceFits
<1>2. gate \in [refused : Nat, jailed : BOOLEAN, transient : Nat]
  BY DEF BuilderInv, BuilderTyped
<1>3. /\ gate' \in [refused : Nat, jailed : BOOLEAN, transient : Nat] /\ pod' \in {"gate", "running", "failed"}
      /\ GateFits'
  <2>1. ~gate.jailed => gate.refused <= gate.transient /\ gate.transient <= MaxTransient
    BY DEF BuilderInv, GateFits
  <2>2. CASE JailComesUp
    BY <1>1, <1>2, <2>2 DEF JailComesUp, GateFits
  <2>3. CASE GateFails
    BY <1>2, <2>1, <2>3 DEF GateFails, GateFits
  <2>4. CASE Probe /\ ~gate.jailed
    <3>1. gate.refused \in Nat /\ gate.transient \in Nat /\ MaxTransient \in {0, 1}
      BY <1>2, BuilderAssumption
    <3>2. CASE /\ gate.transient < MaxTransient
               /\ gate' = [gate EXCEPT !.refused = @ + 1, !.transient = IF gate.jailed THEN @ ELSE @ + 1]
               /\ pod' = IF Enough(gate'.refused) THEN "running" ELSE "gate"
      <4>1. gate' = [gate EXCEPT !.refused = gate.refused + 1, !.transient = gate.transient + 1]
        BY <2>4, <3>2
      <4>2. /\ gate' \in [refused : Nat, jailed : BOOLEAN, transient : Nat] /\ ~gate'.jailed
            /\ gate'.refused = gate.refused + 1 /\ gate'.transient = gate.transient + 1
        <5>1. PICK a \in Nat, b \in Nat : a = gate.refused + 1 /\ b = gate.transient + 1
          BY <3>1
        <5>2. gate' = [gate EXCEPT !.refused = a, !.transient = b]
          BY <4>1, <5>1
        <5> QED
          BY <1>2, <2>4, <5>1, <5>2
      <4>3. gate.transient = 0 /\ gate.refused = 0 /\ MaxTransient = 1
        BY <2>1, <2>4, <3>1, <3>2
      <4>4. pod' = "gate"
        BY <3>2, <4>2, <4>3 DEF Enough
      <4> QED
        BY <4>2, <4>3, <4>4 DEF GateFits
    <3>3. CASE gate' = [gate EXCEPT !.refused = 0] /\ pod' = pod
      BY <1>1, <1>2, <2>1, <2>4, <3>1, <3>3 DEF GateFits
    <3> QED
      BY <2>4, <3>2, <3>3 DEF Probe
  <2>5. CASE Probe /\ gate.jailed
    <3>1. /\ gate' = [gate EXCEPT !.refused = gate.refused + 1, !.transient = gate.transient]
          /\ pod' = IF Enough(gate'.refused) THEN "running" ELSE "gate"
      BY <2>5 DEF Probe
    <3>2. gate.refused + 1 \in Nat /\ gate.transient \in Nat
      BY <1>2
    <3>3. gate' \in [refused : Nat, jailed : BOOLEAN, transient : Nat] /\ gate'.jailed
      BY <1>2, <2>5, <3>1, <3>2
    <3> QED
      BY <3>1, <3>3 DEF GateFits
  <2> QED
    BY <2>2, <2>3, <2>4, <2>5 DEF GateStep
<1>4. BuilderTyped'
  BY <1>1, <1>3 DEF BuilderInv, BuilderTyped
<1>5. WorkFits'
  BY <1>1, <1>3 DEF BuilderInv, WorkFits, TreeIsBounded
<1>6. MeterFits'
  BY <1>1, MeterStays DEF BuilderInv, BuilderTyped
<1>7. PlaceFits'
  BY <1>1, <1>3 DEF BuilderInv, PlaceFits, Begun, Complete
<1>8. MessageFits'
  BY <1>1 DEF BuilderInv, MessageFits, Complete
<1> QED
  BY <1>3, <1>4, <1>5, <1>6, <1>7, <1>8 DEF BuilderInv

\* Main works on, and the meter is its thread's.
LEMMA MainWorks ==
  ASSUME BuilderInv, pod = "running", pc \in Working, pc' \in Working \ {"last"},
         UNCHANGED <<pod, gate, message, meter, lock, readings, cgroup, clock>>, BuilderTyped', WorkFits'
  PROVE  BuilderInv'
<1>1. GateFits'
  BY DEF BuilderInv, GateFits
<1>2. MeterFits'
  BY MeterStays DEF BuilderInv, BuilderTyped
<1>3. PlaceFits'
  BY DEF BuilderInv, PlaceFits, Begun, Working
<1>4. MessageFits'
  BY DEF BuilderInv, MessageFits, Working
<1> QED
  BY <1>1, <1>2, <1>3, <1>4 DEF BuilderInv

\* What a failure reports is no image.
LEMMA KeepsWorkSteps ==
  ASSUME BuilderInv,
         \/ ReadSettings \/ WriteConfigs \/ OpenArtifact \/ ExtractMember \/ EndExtraction \/ PreparePlan
         \/ PushImage \/ BuildEnds \/ ReadDigest \/ InspectImage
  PROVE  BuilderInv'
<1> USE DEF Working, Ending
<1>1. BuilderTyped /\ WorkFits
  BY DEF BuilderInv
<1>2. ASSUME NEW here, NEW next, Passes(here, next), here \in {"prepare", "configure", "open", "plan"},
             next \in {"configure", "open", "extract", "build"}
      PROVE  BuilderInv'
  <2>1. /\ pod = "running" /\ pc = here /\ pc' \in {"stop", next} /\ outcome'.image = FALSE
        /\ UNCHANGED <<pod, gate, message, meter, lock, readings, archive, tree, image, cgroup, clock>>
    BY <1>1, <1>2 DEF Passes, MainAt, Fails, KeepsMeter, KeepsWork, Outside, WorkFits
  <2>2. BuilderTyped' /\ WorkFits'
    BY <1>1, <1>2, <2>1 DEF BuilderTyped, WorkFits, TreeIsBounded
  <2> QED
    BY <1>2, <2>1, <2>2, MainWorks
<1>3. CASE ReadSettings \/ WriteConfigs \/ OpenArtifact \/ PreparePlan
  BY <1>2, <1>3 DEF ReadSettings, WriteConfigs, OpenArtifact, PreparePlan
<1>4. CASE ExtractMember
  <2> DEFINE m == Head(archive.members)
             received == archive.received + m.packed
  <2>1. /\ pod = "running" /\ pc = "extract" /\ pc' \in {"stop", "extract"} /\ outcome'.image = FALSE
        /\ UNCHANGED <<pod, gate, message, image, meter, lock, readings, cgroup, clock>>
    BY <1>1, <1>4 DEF ExtractMember, MainAt, Fails, KeepsMeter, Outside, WorkFits
  <2>2. archive \in [members : Seq(ArchiveMember), end : {"complete", "cut"}, received : Nat] /\ archive.members # <<>>
        /\ tree \in [entries : Nat, bytes : Nat, dockerfile : BOOLEAN]
    BY <1>1, <1>4 DEF BuilderTyped, ExtractMember
  <2>3. m \in ArchiveMember /\ Tail(archive.members) \in Seq(ArchiveMember)
    <3>1. archive.members \in Seq(ArchiveMember) /\ archive.members # <<>>
      BY <2>2
    <3> QED
      BY <3>1
  <2>4. received \in Nat /\ m.size \in Nat /\ m.dockerfile \in BOOLEAN
    BY <2>2, <2>3 DEF ArchiveMember
  <2>5. archive' = [archive EXCEPT !.members = Tail(archive.members), !.received = received]
    BY <1>4 DEF ExtractMember
  <2>6. archive' \in [members : Seq(ArchiveMember), end : {"complete", "cut"}, received : Nat]
    <3> HIDE DEF m, received
    <3> QED
      BY <2>2, <2>3, <2>4, <2>5
  <2>7. \/ tree' = tree
        \/ /\ ~Breaches(m)
           /\ tree' = [entries |-> tree.entries + 1,
                       bytes |-> IF m.kind = "file" THEN tree.bytes + m.size ELSE tree.bytes,
                       dockerfile |-> tree.dockerfile \/ m.dockerfile]
    BY <1>4 DEF ExtractMember
  <2>8. tree' \in [entries : Nat, bytes : Nat, dockerfile : BOOLEAN] /\ TreeIsBounded'
    <3>1. CASE tree' = tree
      BY <1>1, <2>2, <3>1 DEF WorkFits, TreeIsBounded
    <3>2. CASE /\ ~Breaches(m)
               /\ tree' = [entries |-> tree.entries + 1,
                           bytes |-> IF m.kind = "file" THEN tree.bytes + m.size ELSE tree.bytes,
                           dockerfile |-> tree.dockerfile \/ m.dockerfile]
      <4> DEFINE bytes == IF m.kind = "file" THEN tree.bytes + m.size ELSE tree.bytes
                 dockerfile == tree.dockerfile \/ m.dockerfile
      <4>1. tree.entries \in Nat /\ tree.bytes \in Nat /\ MaxEntries \in Nat /\ MaxExtracted \in Nat
        BY <2>2, BuilderAssumption
      <4>2. bytes \in Nat /\ bytes <= MaxExtracted /\ tree.entries + 1 <= MaxEntries
        BY <1>1, <2>4, <3>2, <4>1 DEF Breaches, WorkFits, TreeIsBounded
      <4>3. dockerfile \in BOOLEAN
        OBVIOUS
      <4>4. tree' = [entries |-> tree.entries + 1, bytes |-> bytes, dockerfile |-> dockerfile]
        BY <3>2
      <4> HIDE DEF bytes, dockerfile
      <4> QED
        BY <4>1, <4>2, <4>3, <4>4 DEF TreeIsBounded
    <3> QED
      BY <2>7, <3>1, <3>2
  <2>9. BuilderTyped'
    BY <1>1, <2>1, <2>6, <2>8 DEF BuilderTyped
  <2>10. WorkFits'
    BY <1>1, <2>1, <2>8 DEF WorkFits
  <2> QED
    BY <2>1, <2>9, <2>10, MainWorks
<1>5. CASE EndExtraction
  <2>1. /\ pod = "running" /\ pc = "extract" /\ pc' \in {"stop", "build", "plan"} /\ outcome'.image = FALSE
        /\ UNCHANGED <<pod, gate, message, meter, lock, readings, archive, tree, image, cgroup, clock>>
    BY <1>1, <1>5 DEF EndExtraction, SelectedStage, MainAt, Fails, KeepsMeter, KeepsWork, Outside, WorkFits
  <2>2. BuilderTyped' /\ WorkFits'
    BY <1>1, <2>1 DEF BuilderTyped, WorkFits, TreeIsBounded
  <2> QED
    BY <2>1, <2>2, MainWorks
<1>6. CASE PushImage
  <2>1. /\ pod = "running" /\ pc = "build" /\ UNCHANGED <<pod, gate, pc, outcome, message, meter, lock, readings, archive, tree, cgroup, clock>>
        /\ image' \in [pushed : BOOLEAN, digest : {"none", "malformed", "true"}]
    BY <1>6 DEF PushImage, MainAt, KeepsMeter, Outside
  <2>2. BuilderTyped' /\ WorkFits'
    BY <1>1, <2>1 DEF BuilderTyped, WorkFits, TreeIsBounded
  <2> QED
    BY <2>1, <2>2, MainWorks
<1>7. CASE BuildEnds \/ ReadDigest
  <2>1. /\ pod = "running" /\ pc \in {"build", "digest"} /\ outcome'.image = FALSE
        /\ pc' = "stop" \/ (pc' = "digest" /\ image.pushed) \/ (pc' = "inspect" /\ image.pushed /\ image.digest = "true")
        /\ UNCHANGED <<pod, gate, message, meter, lock, readings, archive, tree, image, cgroup, clock>>
    BY <1>1, <1>7 DEF BuildEnds, ReadDigest, MainAt, Fails, KeepsMeter, KeepsWork, Outside, WorkFits
  <2>2. BuilderTyped' /\ WorkFits'
    BY <1>1, <2>1 DEF BuilderTyped, WorkFits, TreeIsBounded
  <2> QED
    BY <2>1, <2>2, MainWorks
<1>8. CASE InspectImage
  <2>1. /\ pod = "running" /\ pc = "inspect" /\ pc' = "stop"
        /\ UNCHANGED <<pod, gate, message, meter, lock, readings, archive, tree, image, cgroup, clock>>
    BY <1>8 DEF InspectImage, MainAt, Fails, KeepsMeter, KeepsWork, Outside
  <2>2. BuilderTyped' /\ WorkFits'
    BY <1>1, <2>1 DEF BuilderTyped, WorkFits, TreeIsBounded
  <2> QED
    BY <2>1, <2>2, MainWorks
<1> QED
  BY <1>3, <1>4, <1>5, <1>6, <1>7, <1>8

\* Taking the lock takes the time.
LEMMA LocksFit ==
  ASSUME BuilderTyped, MeterFits, NEW who \in Reader, Locks(who), UNCHANGED <<readings, clock>>
  PROVE  /\ MeterFits' /\ meter' \in MeterRow /\ lock' = who
         /\ meter'.thread = (IF who = "thread" THEN "reads" ELSE meter.thread)
         /\ meter'.failed = meter.failed /\ meter'.doubled = meter.doubled /\ meter'.max = meter.max
<1> DEFINE thread == IF who = "thread" THEN "reads" ELSE meter.thread
<1>1. meter \in MeterRow /\ clock \in Nat
  BY DEF BuilderTyped
<1>2. thread \in {"none", "waits", "wants", "reads", "ended"}
  BY <1>1 DEF MeterRow
<1>3. meter' = [meter EXCEPT !.now = clock, !.thread = thread] /\ lock' = who
  BY DEF Locks
<1> HIDE DEF thread
<1>4. /\ meter' \in MeterRow /\ meter'.thread = thread /\ meter'.now = clock /\ meter'.last = meter.last
      /\ meter'.failed = meter.failed /\ meter'.doubled = meter.doubled /\ meter'.max = meter.max
  BY <1>1, <1>2, <1>3 DEF MeterRow
<1>5. MeterFits'
  BY <1>1, <1>4, MeterStays
<1> QED
  BY <1>3, <1>4, <1>5 DEF thread

\* The thread reads between main's first reading and its last.
LEMMA KeepsMeterStep ==
  ASSUME BuilderInv, MeterStep
  PROVE  BuilderInv'
<1>1. BuilderTyped /\ MeterFits /\ PlaceFits /\ MessageFits /\ meter \in MeterRow /\ readings \in Seq(ReadingRow) /\ clock \in Nat
  BY DEF BuilderInv, BuilderTyped
<1>2. pod = "running" /\ UNCHANGED <<pod, gate, pc, outcome, message, archive, tree, image, cgroup, clock>>
  BY DEF MeterStep, Wakes, Samples, KeepsWork, Outside
<1>3. meter.thread \in {"waits", "wants", "reads"}
  BY DEF MeterStep, Wakes, Samples
<1>4. pc \in Working \ {"last"} /\ message.usage = {}
  BY <1>1, <1>2, <1>3 DEF PlaceFits, MessageFits
<1>5. /\ MeterFits' /\ meter' \in MeterRow /\ readings' \in Seq(ReadingRow)
      /\ meter'.thread = "reads" => lock' = "thread"
      /\ meter'.failed \/ Begun'
  <2>1. CASE Wakes
    <3>1. meter' = [meter EXCEPT !.thread = IF meter.stopped THEN "ended" ELSE "wants"] /\ UNCHANGED <<lock, readings>>
      BY <2>1 DEF Wakes
    <3>2. /\ meter' \in MeterRow /\ meter'.thread # "reads" /\ meter'.now = meter.now /\ meter'.last = meter.last
          /\ meter'.failed = meter.failed /\ meter'.doubled = meter.doubled /\ meter'.max = meter.max
      BY <1>1, <3>1 DEF MeterRow
    <3>3. MeterFits'
      BY <1>1, <1>2, <3>1, <3>2, MeterStays
    <3> QED
      BY <1>1, <1>4, <3>1, <3>2, <3>3 DEF PlaceFits, Begun
  <2>2. CASE Locks("thread") /\ UNCHANGED readings
    <3>1. MeterFits' /\ meter' \in MeterRow /\ lock' = "thread" /\ meter'.failed = meter.failed
      BY <1>1, <1>2, <2>2, LocksFit DEF Reader
    <3> QED
      BY <1>1, <1>4, <2>2, <3>1 DEF PlaceFits, Begun
  <2>3. CASE Reads("thread")
    <3> DEFINE r == [at |-> meter.now, level |-> cgroup.level, by |-> "thread"]
    <3>1. /\ MeterFits' /\ meter' \in MeterRow /\ readings' \in Seq(ReadingRow) /\ meter'.thread = "waits"
          /\ meter'.failed \/ (~meter.failed /\ readings' = Append(readings, r))
      BY <1>1, <1>2, <2>3, ReadsFit DEF Reader
    <3>2. ASSUME ~meter'.failed PROVE Begun'
      <4>1. readings' = Append(readings, r) /\ Begun /\ r.by = "thread"
        BY <1>1, <1>4, <3>1, <3>2 DEF PlaceFits
      <4> HIDE DEF r
      <4>2. /\ Len(readings) \in Nat /\ DOMAIN readings = 1..Len(readings) /\ DOMAIN readings' = 1..(Len(readings) + 1)
            /\ Len(readings') = Len(readings) + 1 /\ readings'[Len(readings) + 1] = r
            /\ \A i \in DOMAIN readings : readings'[i] = readings[i]
        BY <1>1, <4>1
      <4>3. ASSUME NEW i \in DOMAIN readings' PROVE (readings'[i].by = "main") <=> i = 1
        <5>1. CASE i \in DOMAIN readings
          BY <4>1, <4>2, <5>1 DEF Begun
        <5>2. CASE i = Len(readings) + 1
          BY <4>1, <4>2, <5>2 DEF Begun
        <5> QED
          BY <4>2, <5>1, <5>2
      <4> QED
        BY <4>1, <4>2, <4>3 DEF Begun
    <3> QED
      BY <3>1, <3>2
  <2> QED
    BY <2>1, <2>2, <2>3 DEF MeterStep, Samples
<1>6. BuilderTyped'
  BY <1>1, <1>2, <1>5 DEF BuilderTyped
<1>7. GateFits' /\ WorkFits'
  BY <1>2 DEF BuilderInv, GateFits, WorkFits, TreeIsBounded
<1>8. PlaceFits'
  BY <1>1, <1>2, <1>4, <1>5 DEF PlaceFits, Working
<1>9. MessageFits'
  BY <1>2, <1>4 DEF MessageFits
<1> QED
  BY <1>5, <1>6, <1>7, <1>8, <1>9 DEF BuilderInv

\* Main's own readings, and its hold on the thread.
LEMMA KeepsMainReadings ==
  ASSUME BuilderInv, FirstReading \/ StartThread \/ StopMeter \/ LastReading
  PROVE  BuilderInv'
<1>1. BuilderTyped /\ MeterFits /\ PlaceFits /\ MessageFits /\ meter \in MeterRow /\ readings \in Seq(ReadingRow) /\ clock \in Nat
  BY DEF BuilderInv, BuilderTyped
<1>2. pod = "running" /\ UNCHANGED <<pod, gate, outcome, message, archive, tree, image, cgroup, clock>>
  BY DEF FirstReading, StartThread, StopMeter, LastReading, MainAt, KeepsWork, Outside
<1>3. <<pc, pc'>> \in {<<"start", "first">>, <<"first", "begin">>, <<"begin", "prepare">>,
                       <<"stop", "join">>, <<"join", "last">>, <<"last", "report">>}
  BY DEF FirstReading, StartThread, StopMeter, LastReading, MainAt
<1>4. message.usage = {}
  BY <1>1, <1>3 DEF MessageFits
<1>5. GateFits' /\ MessageFits'
  BY <1>2, <1>4 DEF BuilderInv, GateFits, MessageFits
<1>6. WorkFits'
  BY <1>2, <1>3 DEF BuilderInv, WorkFits, TreeIsBounded, Ending
<1>7. MeterFits' /\ meter' \in MeterRow /\ readings' \in Seq(ReadingRow) /\ PlaceFits'
  <2>1. CASE FirstReading /\ pc = "start"
    <3>1. Locks("main") /\ UNCHANGED readings /\ pc' = "first"
      BY <2>1 DEF FirstReading, MainAt
    <3>2. MeterFits' /\ meter' \in MeterRow /\ lock' = "main" /\ meter'.thread = meter.thread
      BY <1>1, <1>2, <3>1, LocksFit DEF Reader
    <3> QED
      BY <1>1, <1>2, <2>1, <3>1, <3>2 DEF PlaceFits, Working
  <2>2. CASE FirstReading /\ pc = "first"
    <3> DEFINE r == [at |-> meter.now, level |-> cgroup.level, by |-> "main"]
    <3>1. Reads("main") /\ pc' = "begin"
      BY <2>2 DEF FirstReading, MainAt
    <3>2. /\ MeterFits' /\ meter' \in MeterRow /\ readings' \in Seq(ReadingRow) /\ meter'.thread = meter.thread
          /\ meter'.failed \/ readings' = Append(readings, r)
      BY <1>1, <1>2, <3>1, ReadsFit DEF Reader
    <3>3. readings = <<>> /\ meter.thread = "none"
      BY <1>1, <2>2 DEF PlaceFits
    <3>4. ASSUME readings' = Append(readings, r) PROVE Begun'
      <4>1. Len(readings') = 1 /\ DOMAIN readings' = 1..1 /\ readings'[1] = r /\ r.by = "main"
        BY <3>3, <3>4
      <4> HIDE DEF r
      <4> QED
        BY <4>1 DEF Begun
    <3> QED
      BY <1>1, <1>2, <3>1, <3>2, <3>3, <3>4 DEF PlaceFits, Working
  <2>3. CASE StartThread \/ StopMeter
    <3>1. /\ (meter'.thread # "reads") \/ (meter'.thread = meter.thread)
          /\ meter' \in MeterRow /\ meter'.now = meter.now /\ meter'.last = meter.last
          /\ meter'.failed = meter.failed /\ meter'.doubled = meter.doubled /\ meter'.max = meter.max
          /\ UNCHANGED <<lock, readings>>
      BY <1>1, <2>3 DEF StartThread, StopMeter, MeterRow
    <3>2. MeterFits'
      BY <1>1, <1>2, <3>1, MeterStays
    <3>3. pc \in {"begin", "stop"} /\ pc' \in {"prepare", "join"}
      BY <2>3 DEF StartThread, StopMeter, MainAt
    <3>4. meter'.failed \/ Begun'
      BY <1>1, <3>1, <3>3 DEF PlaceFits, Begun, Working
    <3> QED
      BY <1>1, <1>2, <3>1, <3>2, <3>3, <3>4 DEF PlaceFits, Working
  <2>4. CASE LastReading /\ pc = "join"
    <3>1. Locks("main") /\ UNCHANGED readings /\ pc' = "last" /\ meter.thread = "ended"
      BY <2>4 DEF LastReading, MainAt, ThreadGone
    <3>2. MeterFits' /\ meter' \in MeterRow /\ lock' = "main" /\ meter'.thread = meter.thread /\ meter'.failed = meter.failed
      BY <1>1, <1>2, <3>1, LocksFit DEF Reader
    <3>3. meter'.failed \/ Begun'
      BY <1>1, <2>4, <3>1, <3>2 DEF PlaceFits, Begun, Working
    <3> QED
      BY <1>1, <1>2, <3>1, <3>2, <3>3 DEF PlaceFits, Working
  <2>5. CASE LastReading /\ pc = "last"
    <3> DEFINE r == [at |-> meter.now, level |-> cgroup.level, by |-> "main"]
    <3>1. Reads("main") /\ pc' = "report"
      BY <2>5 DEF LastReading, MainAt
    <3>2. /\ MeterFits' /\ meter' \in MeterRow /\ readings' \in Seq(ReadingRow) /\ meter'.thread = meter.thread
          /\ meter'.failed \/ (~meter.failed /\ readings' = Append(readings, r))
      BY <1>1, <1>2, <3>1, ReadsFit DEF Reader
    <3>3. meter.thread = "ended" /\ (meter.failed \/ Begun)
      BY <1>1, <2>5 DEF PlaceFits, Working
    <3>4. ASSUME ~meter'.failed PROVE Complete'
      <4>1. readings' = Append(readings, r) /\ Begun /\ r.by = "main"
        BY <3>2, <3>3, <3>4
      <4> HIDE DEF r
      <4>2. /\ Len(readings) \in Nat /\ DOMAIN readings = 1..Len(readings) /\ DOMAIN readings' = 1..(Len(readings) + 1)
            /\ Len(readings') = Len(readings) + 1 /\ readings'[Len(readings) + 1] = r
            /\ \A i \in DOMAIN readings : readings'[i] = readings[i]
        BY <1>1, <4>1
      <4>3. ASSUME NEW i \in DOMAIN readings' PROVE (readings'[i].by = "main") <=> i \in {1, Len(readings')}
        <5>1. CASE i \in DOMAIN readings
          <6>1. i # Len(readings')
            BY <4>2, <5>1
          <6> QED
            BY <4>1, <4>2, <5>1, <6>1 DEF Begun
        <5>2. CASE i = Len(readings) + 1
          BY <4>1, <4>2, <5>2
        <5> QED
          BY <4>2, <5>1, <5>2
      <4>4. Len(readings') >= 2
        BY <4>1, <4>2 DEF Begun
      <4> QED
        BY <4>3, <4>4 DEF Complete
    <3> QED
      BY <1>1, <1>2, <3>1, <3>2, <3>3, <3>4 DEF PlaceFits, Working
  <2> QED
    BY <2>1, <2>2, <2>3, <2>4, <2>5 DEF FirstReading, LastReading, MainAt
<1>8. BuilderTyped'
  BY <1>1, <1>2, <1>7 DEF BuilderTyped
<1> QED
  BY <1>5, <1>6, <1>7, <1>8 DEF BuilderInv

\* The end: the message, the exit, or a death at any moment.
LEMMA KeepsEnd ==
  ASSUME BuilderInv, Report \/ Exit \/ Killed \/ Tick
  PROVE  BuilderInv'
<1>1. BuilderTyped /\ MeterFits /\ PlaceFits /\ MessageFits /\ WorkFits /\ GateFits /\ meter \in MeterRow
  BY DEF BuilderInv, BuilderTyped
<1>2. UNCHANGED <<gate, outcome, meter, lock, readings, archive, tree, image>>
  BY DEF Report, Exit, Killed, Tick, KeepsMeter, KeepsWork
<1>3. clock' \in Nat /\ clock' >= clock /\ cgroup'.level \in Nat
  <2>1. CASE Report \/ Exit \/ Killed
    BY <1>1, <2>1 DEF Report, Exit, Killed, Outside, BuilderTyped
  <2>2. CASE Tick
    <3>1. PICK l \in Levels : cgroup' = [level |-> l, peak |-> Max({cgroup.peak, cgroup.level, l})]
      BY <2>2 DEF Tick
    <3>2. cgroup'.level = l /\ l \in Nat
      BY <3>1, BuilderAssumption
    <3> QED
      BY <1>1, <2>2, <3>2 DEF Tick, BuilderTyped
  <2> QED
    BY <2>1, <2>2
<1>4. BuilderTyped'
  BY <1>1, <1>2, <1>3 DEF BuilderTyped
<1>5. MeterFits'
  BY <1>1, <1>2, <1>3, MeterStays
<1>6. CASE Report
  <2>1. /\ pod = "running" /\ pc = "report" /\ pc' = "exit" /\ pod' = pod
        /\ \E readable \in BOOLEAN :
             message' \in {NoMessage, [written |-> TRUE, cut |-> IsCut(Usage(readable)), image |-> outcome.image,
                                      usage |-> Usage(readable), backwards |-> wallBack]}
    BY <1>6 DEF Report, MainAt
  <2>2. PICK readable \in BOOLEAN :
             message' \in {NoMessage, [written |-> TRUE, cut |-> IsCut(Usage(readable)), image |-> outcome.image,
                                      usage |-> Usage(readable), backwards |-> wallBack]}
    BY <2>1
  <2>3. message'.image => outcome.image
    BY <2>2 DEF NoMessage
  <2>4. message'.usage \in {{}, Usage(readable)}
    BY <2>2 DEF NoMessage
  <2>5. meter.thread = "ended" /\ (meter.failed \/ Complete)
    BY <1>1, <2>1 DEF PlaceFits
  <2>6. \A u \in message'.usage : ~meter.failed /\ u.doubled = meter.doubled /\ (~KeepsPeak => u.peak = meter.max)
    BY <2>4 DEF Usage
  <2>7. MessageFits'
    BY <1>2, <2>1, <2>5, <2>6 DEF MessageFits, Complete
  <2>8. PlaceFits'
    BY <1>1, <1>2, <2>1, <2>5 DEF PlaceFits, Complete, Working
  <2>9. WorkFits'
    BY <1>1, <1>2, <2>1, <2>3 DEF WorkFits, TreeIsBounded, Ending
  <2>10. GateFits'
    BY <1>1, <1>2, <2>1 DEF GateFits
  <2> QED
    BY <1>4, <1>5, <2>7, <2>8, <2>9, <2>10 DEF BuilderInv
<1>7. CASE Exit \/ Killed
  <2>1. /\ pc' = "gone" /\ pod' \in {"completed", "failed", "deleted"}
        /\ pod' = "completed" => outcome.image
        /\ message' \in {message, NoMessage}
    BY <1>7 DEF Exit, Killed
  <2>2. GateFits' /\ PlaceFits'
    BY <1>1, <1>2, <2>1 DEF GateFits, PlaceFits, Working
  <2>3. WorkFits'
    BY <1>1, <1>2, <2>1 DEF WorkFits, TreeIsBounded, Ending, NoMessage
  <2>4. MessageFits'
    BY <1>1, <1>2, <2>1 DEF MessageFits, Complete, NoMessage
  <2> QED
    BY <1>4, <1>5, <2>2, <2>3, <2>4 DEF BuilderInv
<1>8. CASE Tick
  <2>1. UNCHANGED <<pod, pc, message>>
    BY <1>8 DEF Tick
  <2>2. GateFits' /\ WorkFits'
    BY <1>1, <1>2, <2>1 DEF GateFits, WorkFits, TreeIsBounded
  <2>3. PlaceFits' /\ MessageFits'
    BY <1>1, <1>2, <2>1 DEF PlaceFits, MessageFits, Complete, Begun
  <2> QED
    BY <1>4, <1>5, <2>2, <2>3 DEF BuilderInv
<1> QED
  BY <1>6, <1>7, <1>8

\* Area is the last of the sums.
LEMMA AreaIsSum ==
  ASSUME NEW sum, Sums(sum), readings \in Seq(ReadingRow), Len(readings) >= 1
  PROVE  Area[Len(readings)] = meter.doubled
<1>1. PICK n \in Nat : n = Len(readings) /\ n >= 1
  OBVIOUS
<1> DEFINE F(f) == [k \in 1..n |-> IF k = 1 THEN 0 ELSE f[k - 1] + Doubled(k - 1)]
           g == [k \in 1..n |-> sum[k]]
<1>2. /\ sum \in Seq(Int) /\ Len(sum) = n /\ sum[1] = 0 /\ sum[n] = meter.doubled
      /\ \A i \in 1..(n - 1) : sum[i + 1] = sum[i] + Doubled(i)
  BY <1>1 DEF Sums
<1>3. g = F(g)
  <2>1. ASSUME NEW k \in 1..n PROVE g[k] = IF k = 1 THEN 0 ELSE g[k - 1] + Doubled(k - 1)
    <3>1. CASE k = 1
      BY <1>1, <1>2, <3>1
    <3>2. CASE k # 1
      <4>1. k - 1 \in 1..(n - 1) /\ (k - 1) + 1 = k /\ k - 1 \in 1..n
        BY <1>1, <3>2
      <4>2. sum[k] = sum[k - 1] + Doubled(k - 1)
        BY <1>2, <4>1
      <4> QED
        BY <3>2, <4>1, <4>2
    <3> QED
      BY <3>1, <3>2
  <2> QED
    BY <2>1
<1>4. Area = F(Area)
  <2> HIDE DEF g
  <2> QED
    BY <1>1, <1>3 DEF Area
<1> DEFINE Bad == {k \in Nat : k \in 1..n /\ Area[k] # sum[k]}
<1>5. Bad = {}
  <2>1. SUFFICES ASSUME Bad # {} PROVE FALSE
    OBVIOUS
  <2>2. PICK k \in Bad : \A j \in Bad : k <= j
    <3>1. Bad \in SUBSET Nat
      OBVIOUS
    <3> HIDE DEF Bad
    <3> QED
      BY <2>1, <3>1, HasLeast
  <2>3. Area[k] = IF k = 1 THEN 0 ELSE Area[k - 1] + Doubled(k - 1)
    BY <1>4, <2>2
  <2>4. k # 1
    BY <1>2, <2>2, <2>3
  <2>5. k - 1 \in 1..(n - 1) /\ (k - 1) + 1 = k /\ k - 1 \in Nat /\ k - 1 \in 1..n
    BY <1>1, <2>2, <2>4
  <2>6. k - 1 \notin Bad
    <3> HIDE DEF Bad
    <3>1. k \in Nat
      BY <2>2 DEF Bad
    <3> QED
      BY <2>2, <2>5, <3>1
  <2>7. Area[k - 1] = sum[k - 1]
    BY <2>5, <2>6
  <2>8. sum[k] = sum[k - 1] + Doubled(k - 1)
    BY <1>2, <2>5
  <2> QED
    BY <2>2, <2>3, <2>4, <2>7, <2>8
<1> QED
  BY <1>1, <1>2, <1>5

LEMMA BuilderInvIsTrue ==
  ASSUME BuilderInv
  PROVE  BuildsReportTruly
<1>1. BuilderTyped /\ MeterFits /\ MessageFits /\ WorkFits /\ GateFits /\ readings \in Seq(ReadingRow)
  BY DEF BuilderInv, BuilderTyped
<1>2. Payload \in {message, NoMessage}
  BY DEF Payload
<1>3. BuildIsJailed
  BY <1>1 DEF GateFits, BuildIsJailed
<1>4. ImageIsPushed
  <2>1. ImageIn => message.image
    BY <1>2 DEF ImageIn, NoMessage
  <2>2. image \in [pushed : BOOLEAN, digest : {"none", "malformed", "true"}]
    BY <1>1 DEF BuilderTyped
  <2>3. ASSUME outcome.image PROVE image = [pushed |-> TRUE, digest |-> "true"]
    BY <1>1, <2>2, <2>3 DEF WorkFits
  <2> QED
    BY <1>1, <2>1, <2>3 DEF WorkFits, ImageIsPushed
<1>5. ASSUME NEW u \in UsageIn
      PROVE  /\ Len(readings) >= 2 /\ ~meter.failed
             /\ \A i \in 1..Len(readings) : (readings[i].by = "main") <=> i \in {1, Len(readings)}
             /\ \A i \in 1..(Len(readings) - 1) : readings[i].at <= readings[i + 1].at
             /\ u.doubled = Area[Len(readings)]
             /\ ~KeepsPeak => \A i \in 1..Len(readings) : readings[i].level <= u.peak
  <2>1. u \in message.usage
    BY <1>2 DEF UsageIn, NoMessage
  <2>2. /\ ~meter.failed /\ Complete /\ u.doubled = meter.doubled /\ (~KeepsPeak => u.peak = meter.max)
    BY <1>1, <2>1 DEF MessageFits
  <2>3. Len(readings) \in Nat /\ Len(readings) >= 2 /\ DOMAIN readings = 1..Len(readings)
    BY <1>1, <2>2 DEF Complete
  <2>4. \A i \in 1..(Len(readings) - 1) : readings[i].at <= readings[i + 1].at
    BY <1>1, <2>3 DEF MeterFits
  <2>5. PICK sum : Sums(sum)
    BY <1>1 DEF MeterFits
  <2>6. u.doubled = Area[Len(readings)]
    BY <1>1, <2>2, <2>3, <2>5, AreaIsSum
  <2>7. ASSUME ~KeepsPeak, NEW i \in 1..Len(readings) PROVE readings[i].level <= u.peak
    BY <1>1, <2>2, <2>3, <2>7 DEF MeterFits
  <2> QED
    BY <2>2, <2>3, <2>4, <2>6, <2>7 DEF Complete
<1>6. UsageIsExact
  BY <1>5 DEF UsageIsExact
<1> QED
  BY <1>1, <1>3, <1>4, <1>6 DEF WorkFits, BuildsReportTruly

\* No build runs outside the jail, an image reported was pushed, the disk holds
\* no more than the limits, and a usage reported is the whole run's, whatever the
\* thread, the clock or a death do (build.py, UsageMeter and main).
THEOREM BuildsStayTrue == BuilderSpec => []BuildsReportTruly
<1>1. BuilderInit => BuilderInv
  BY BuilderStarts
<1>2. BuilderInv /\ [BuilderNext]_builderVars => BuilderInv'
  <2> SUFFICES ASSUME BuilderInv, [BuilderNext]_builderVars PROVE BuilderInv'
    OBVIOUS
  <2>1. CASE UNCHANGED builderVars
    <3>1. UNCHANGED <<pod, gate, pc, archive, tree, image, outcome, message, meter, lock, cgroup, clock, readings>>
      BY <2>1 DEF builderVars
    <3>2. BuilderTyped' /\ GateFits' /\ WorkFits' /\ PlaceFits' /\ MessageFits'
      BY <3>1 DEF BuilderInv, BuilderTyped, GateFits, WorkFits, TreeIsBounded, PlaceFits, MessageFits, Begun, Complete
    <3>3. MeterFits'
      BY <3>1, MeterStays DEF BuilderInv, BuilderTyped
    <3> QED
      BY <3>2, <3>3 DEF BuilderInv
  <2>2. CASE BuilderNext
    BY <2>2, KeepsGate, KeepsWorkSteps, KeepsMainReadings, KeepsEnd, KeepsMeterStep DEF BuilderNext, MainStep
  <2> QED
    BY <2>1, <2>2
<1>3. BuilderInv => BuildsReportTruly
  BY BuilderInvIsTrue
<1> QED
  BY <1>1, <1>2, <1>3, PTL DEF BuilderSpec
-----------------------------------------------------------------------------
(* A deployment's bucket and key.                                           *)

Rules == {"none", "default", "own", "expiry"}
AfterGrant == {"look", "update", "publish", "helm"}      \* steps after the grant
AfterBucket == {"grant"} \union AfterGrant                      \* steps after the bucket
AfterKey == {"bucket"} \union AfterBucket                   \* steps after the key
Tearing == {"revoke", "expire", "uninstall"}

StorageTyped ==
  /\ offer \in [optedIn : BOOLEAN, allowance : Nat, deleted : BOOLEAN]
  /\ keys \subseteq KeyIds /\ secret \in KeyIds \union {0}
  /\ bucket \in [exists : BOOLEAN, grants : SUBSET KeyIds, quota : Nat, cors : BOOLEAN, rules : Rules]
  /\ known \subseteq KeyIds
  /\ storageJob \in [step : {"none", "quota", "key"} \union AfterKey \union Tearing, key : Nat,
                     allowance : Nat, hasRules : BOOLEAN]
  /\ jobEnd \in {"none", "error", "ready", "deleted"} /\ ruled \in BOOLEAN

\* What a reconcile that provisions has done already still stands.
StepsStand ==
  /\ storageJob.step \in {"bucket", "grant", "look", "update", "publish"} => storageJob.key # 0
  /\ storageJob.step \in {"none", "quota", "key"} \union Tearing => storageJob.key = 0
  /\ storageJob.step = "key" => storageJob.allowance > 0
  /\ storageJob.key # 0 =>
       /\ storageJob.allowance > 0 /\ keys = {storageJob.key}
       /\ storageJob.step \in AfterBucket => bucket.exists
       /\ storageJob.step \in AfterGrant => storageJob.key \in bucket.grants
       /\ storageJob.step \in {"publish", "helm"} => bucket.quota = storageJob.allowance /\ bucket.cors
       /\ storageJob.step = "helm" => secret = storageJob.key

\* What the job saw of the rules is so, unless the tenant has written since.
RulesAreSeen ==
  /\ storageJob.step = "update" /\ ~ruled => (storageJob.hasRules <=> bucket.rules # "none")
  /\ storageJob.step \in {"publish", "helm"} /\ storageJob.key # 0 /\ bucket.rules = "none" => ruled

\* There is one key at most, and a pod is given one only after the quota.
KeysFit ==
  /\ \A j, k \in keys : j = k
  /\ bucket.quota > 0 => bucket.exists
  /\ secret # 0 => bucket.quota > 0

\* A teardown is not followed by anything that provisions.
TornDown ==
  /\ storageJob.step \in Tearing \/ bucket.rules = "expiry" \/ jobEnd = "deleted" => offer.deleted
  /\ storageJob.step = "expire" => keys = {}
  /\ bucket.rules = "expiry" => keys = {} /\ storageJob.step \in {"none", "helm"} \union Tearing
  /\ bucket.rules = "expiry" => storageJob.key = 0
  /\ jobEnd = "deleted" => storageJob.step = "none"
  /\ (storageJob.step = "uninstall" \/ jobEnd = "deleted") /\ offer.optedIn =>
       keys = {} /\ (bucket.exists => bucket.rules = "expiry")

StorageInv == StorageTyped /\ StepsStand /\ RulesAreSeen /\ KeysFit /\ TornDown

LEMMA StorageStarts == StorageInit => StorageInv
<1> SUFFICES ASSUME StorageInit PROVE StorageInv
  OBVIOUS
<1>1. /\ bucket = NoBucket /\ storageJob = NoStorageJob /\ keys = {} /\ known = {} /\ secret = 0
      /\ jobEnd = "none" /\ ruled = FALSE
  BY DEF StorageInit
<1>2. offer \in [optedIn : BOOLEAN, allowance : Nat, deleted : BOOLEAN]
  BY StorageAssumption DEF StorageInit
<1>3. /\ bucket \in [exists : BOOLEAN, grants : SUBSET KeyIds, quota : Nat, cors : BOOLEAN, rules : Rules]
      /\ bucket.quota = 0 /\ bucket.rules = "none"
  BY <1>1 DEF NoBucket, Rules
<1>4. /\ storageJob \in [step : {"none", "quota", "key"} \union AfterKey \union Tearing, key : Nat,
                          allowance : Nat, hasRules : BOOLEAN]
      /\ storageJob.step = "none" /\ storageJob.key = 0
  BY <1>1 DEF NoStorageJob
<1>5. StorageTyped
  BY <1>1, <1>2, <1>3, <1>4 DEF StorageTyped
<1> QED
  BY <1>1, <1>3, <1>4, <1>5 DEF StorageInv, StepsStand, RulesAreSeen, KeysFit, TornDown, Tearing

\* A job that ends in an error leaves what its last call did.
LEMMA KeepsFailed ==
  ASSUME StorageInv, storageJob' = NoStorageJob, jobEnd' \in {"error", "ready"}, jobEnd # "deleted",
         UNCHANGED <<offer, known>>,
         keys' \subseteq KeyIds, bucket' \in [exists : BOOLEAN, grants : SUBSET KeyIds, quota : Nat, cors : BOOLEAN, rules : Rules],
         secret' \in KeyIds \union {0}, ruled' \in BOOLEAN,
         KeysFit', bucket'.rules = "expiry" => keys' = {} /\ offer.deleted
  PROVE  StorageInv'
<1>1. /\ storageJob'.step = "none" /\ storageJob'.key = 0
      /\ storageJob' \in [step : {"none", "quota", "key"} \union AfterKey \union Tearing, key : Nat,
                     allowance : Nat, hasRules : BOOLEAN]
  BY DEF NoStorageJob
<1> QED
  BY <1>1 DEF StorageInv, StorageTyped, StepsStand, RulesAreSeen, TornDown, AfterKey, AfterBucket, AfterGrant, Tearing

\* A call that is answered, or fails with or without its effect.
LEMMA KeepsCall ==
  ASSUME StorageInv, NEW here, NEW next, OnStep(here), here # "none", here # "helm", here # "uninstall", ByReconciler,
         keys' \subseteq KeyIds, bucket' \in [exists : BOOLEAN, grants : SUBSET KeyIds, quota : Nat, cors : BOOLEAN, rules : Rules],
         secret' \in KeyIds \union {0}, ruled' \in BOOLEAN,
         KeysFit', bucket'.rules = "expiry" => keys' = {} /\ offer.deleted,
         next \in [step : {"none", "quota", "key"} \union AfterKey \union Tearing, key : Nat,
                   allowance : Nat, hasRules : BOOLEAN],
         \/ storageJob' = next /\ StepsStand' /\ RulesAreSeen' /\ TornDown' /\ jobEnd' = jobEnd
         \/ EndsJob("error")
  PROVE  StorageInv'
<1>1. jobEnd # "deleted" /\ UNCHANGED <<offer, known>>
  BY DEF StorageInv, TornDown, OnStep, ByReconciler
<1>2. CASE storageJob' = next /\ StepsStand' /\ RulesAreSeen' /\ TornDown' /\ jobEnd' = jobEnd
  <2>1. StorageTyped'
    BY <1>1, <1>2 DEF StorageInv, StorageTyped
  <2> QED
    BY <1>2, <2>1 DEF StorageInv
<1>3. CASE EndsJob("error")
  BY <1>1, <1>3, KeepsFailed DEF EndsJob
<1> QED
  BY <1>2, <1>3

\* Only what a step names of the job changes.
LEMMA GoIs ==
  ASSUME StorageTyped, NEW step
  PROVE  /\ Go(step).step = step /\ Go(step).key = storageJob.key
         /\ Go(step).allowance = storageJob.allowance /\ Go(step).hasRules = storageJob.hasRules
         /\ step \in {"none", "quota", "key"} \union AfterKey \union Tearing =>
              Go(step) \in [step : {"none", "quota", "key"} \union AfterKey \union Tearing, key : Nat,
                            allowance : Nat, hasRules : BOOLEAN]
  BY DEF StorageTyped, Go

LEMMA KeepsEnsureKey ==
  ASSUME StorageInv, EnsureKey
  PROVE  StorageInv'
<1> DEFINE next == [Go("bucket") EXCEPT !.key = CHOOSE k \in keys' : TRUE]
<1>1. /\ OnStep("key") /\ ByReconciler /\ (MintKey \/ UNCHANGED <<keys, bucket, secret, ruled>>)
      /\ (MintKey /\ storageJob' = next /\ UNCHANGED <<jobEnd, spentFaults>>) \/ EndsJob("error")
  BY DEF EnsureKey, Call
<1>2. StorageTyped /\ KeysFit /\ StepsStand /\ TornDown
  BY DEF StorageInv
<1>3. UNCHANGED <<bucket, secret, ruled>>
  BY <1>1 DEF MintKey
<1>4. bucket.rules # "expiry" /\ storageJob.allowance > 0 /\ storageJob.key = 0 /\ storageJob.step = "key"
  BY <1>1, <1>2 DEF TornDown, StepsStand, OnStep, Tearing
<1>5. MintKey => keys' # {}
  BY DEF MintKey
<1>6. keys' \subseteq KeyIds /\ \A j, k \in keys' : j = k
  <2>1. CASE MintKey
    <3>1. keys = {} => FreshKey \in KeyIds
      BY <2>1 DEF MintKey, FreshKey, Unused
    <3> QED
      BY <1>2, <2>1, <3>1 DEF MintKey, StorageTyped, KeysFit
  <2> QED
    BY <1>1, <1>2, <2>1 DEF StorageTyped, KeysFit
<1>7. KeysFit'
  BY <1>2, <1>3, <1>6 DEF KeysFit
<1>8. MintKey => /\ next.step = "bucket" /\ next.key # 0 /\ keys' = {next.key} /\ next.allowance = storageJob.allowance
                 /\ next \in [step : {"none", "quota", "key"} \union AfterKey \union Tearing, key : Nat,
                              allowance : Nat, hasRules : BOOLEAN]
  <2> SUFFICES ASSUME MintKey
               PROVE  /\ next.step = "bucket" /\ next.key # 0 /\ keys' = {next.key} /\ next.allowance = storageJob.allowance
                      /\ next \in [step : {"none", "quota", "key"} \union AfterKey \union Tearing, key : Nat,
                                   allowance : Nat, hasRules : BOOLEAN]
    OBVIOUS
  <2>1. PICK k : k = CHOOSE j \in keys' : TRUE
    OBVIOUS
  <2>2. k \in keys' /\ k \in Nat /\ k # 0 /\ keys' = {k}
    BY <1>5, <1>6, <2>1, StorageAssumption
  <2>3. next = [Go("bucket") EXCEPT !.key = k]
    BY <2>1
  <2>4. "bucket" \in {"none", "quota", "key"} \union AfterKey \union Tearing
    BY DEF AfterKey
  <2>5. /\ Go("bucket").step = "bucket" /\ Go("bucket").allowance = storageJob.allowance
        /\ Go("bucket") \in [step : {"none", "quota", "key"} \union AfterKey \union Tearing, key : Nat,
                              allowance : Nat, hasRules : BOOLEAN]
    BY <1>2, <2>4, GoIs
  <2> HIDE DEF next
  <2> QED
    BY <2>2, <2>3, <2>5
<1> HIDE DEF next
<1>9. CASE EndsJob("error")
  <2>1. jobEnd # "deleted" /\ UNCHANGED <<offer, known>>
    BY <1>1, <1>2 DEF TornDown, OnStep, ByReconciler
  <2> QED
    BY <1>2, <1>3, <1>4, <1>6, <1>7, <1>9, <2>1, KeepsFailed DEF EndsJob, StorageTyped
<1>10. CASE MintKey /\ storageJob' = next /\ UNCHANGED <<jobEnd, spentFaults>>
  <2>1. StepsStand' /\ RulesAreSeen'
    BY <1>4, <1>8, <1>10 DEF StepsStand, RulesAreSeen, AfterBucket, AfterGrant, Tearing
  <2>2. TornDown'
    BY <1>1, <1>2, <1>3, <1>4, <1>8, <1>10 DEF TornDown, Tearing, ByReconciler
  <2>3. StorageTyped'
    BY <1>1, <1>2, <1>3, <1>6, <1>8, <1>10 DEF StorageTyped, ByReconciler
  <2> QED
    BY <1>7, <2>1, <2>2, <2>3 DEF StorageInv
<1> QED
  BY <1>1, <1>9, <1>10

LEMMA KeepsEnsureBucket ==
  ASSUME StorageInv, EnsureBucket
  PROVE  StorageInv'
<1> DEFINE next == Go("grant")
<1>1. /\ OnStep("bucket") /\ ByReconciler /\ (MakeBucket \/ UNCHANGED <<keys, bucket, secret, ruled>>)
      /\ (MakeBucket /\ storageJob' = next /\ UNCHANGED <<jobEnd, spentFaults>>) \/ EndsJob("error")
  BY DEF EnsureBucket, Call
<1>2. StorageTyped /\ KeysFit /\ StepsStand /\ TornDown
  BY DEF StorageInv
<1>3. storageJob.step = "bucket" /\ storageJob.key # 0 /\ bucket.rules # "expiry" /\ UNCHANGED <<keys, secret, ruled>>
  BY <1>1, <1>2 DEF StepsStand, TornDown, OnStep, Tearing, MakeBucket
<1>4. /\ bucket' \in [exists : BOOLEAN, grants : SUBSET KeyIds, quota : Nat, cors : BOOLEAN, rules : Rules]
      /\ bucket'.rules # "expiry" /\ (bucket'.quota > 0 => bucket'.exists) /\ (bucket' = bucket \/ ~bucket.exists)
      /\ MakeBucket => bucket'.exists
  <2>1. CASE MakeBucket /\ ~bucket.exists
    <3>1. bucket' = [exists |-> TRUE, grants |-> {}, quota |-> 0, cors |-> FALSE, rules |-> "none"]
      BY <2>1 DEF MakeBucket, NoBucket
    <3> QED
      BY <2>1, <3>1 DEF Rules
  <2>2. CASE bucket' = bucket
    BY <1>2, <1>3, <2>2 DEF StorageTyped, KeysFit, MakeBucket
  <2> QED
    BY <1>1, <2>1, <2>2 DEF MakeBucket
<1>5. KeysFit'
  BY <1>2, <1>3, <1>4 DEF KeysFit
<1>6. /\ next.step = "grant" /\ next.key = storageJob.key /\ next.allowance = storageJob.allowance
      /\ next \in [step : {"none", "quota", "key"} \union AfterKey \union Tearing, key : Nat,
                   allowance : Nat, hasRules : BOOLEAN]
  <2>1. "grant" \in {"none", "quota", "key"} \union AfterKey \union Tearing
    BY DEF AfterKey, AfterBucket
  <2> QED
    BY <1>2, <2>1, GoIs
<1> HIDE DEF next
<1>7. ASSUME MakeBucket, storageJob' = next, jobEnd' = jobEnd PROVE StepsStand' /\ RulesAreSeen' /\ TornDown'
  <2>1. StepsStand' /\ RulesAreSeen'
    BY <1>2, <1>3, <1>4, <1>6, <1>7 DEF StepsStand, RulesAreSeen, AfterBucket, AfterGrant, Tearing
  <2>2. TornDown'
    BY <1>1, <1>2, <1>3, <1>4, <1>6, <1>7 DEF TornDown, Tearing, ByReconciler
  <2> QED
    BY <2>1, <2>2
<1>8. keys' \subseteq KeyIds /\ secret' \in KeyIds \union {0} /\ ruled' \in BOOLEAN
  BY <1>2, <1>3 DEF StorageTyped
<1>9. \/ storageJob' = next /\ StepsStand' /\ RulesAreSeen' /\ TornDown' /\ jobEnd' = jobEnd
      \/ EndsJob("error")
  BY <1>1, <1>7
<1>10. bucket'.rules = "expiry" => keys' = {} /\ offer.deleted
  BY <1>4
<1> QED
  BY <1>1, <1>4, <1>5, <1>6, <1>8, <1>9, <1>10, KeepsCall

\* The order of a teardown.
LEMMA TornIs == TornNext("revoke") = "expire" /\ TornNext("expire") = "uninstall"
<1>1. TeardownOrder[1] = "revoke" /\ TeardownOrder[2] = "expire" /\ TeardownOrder[3] = "uninstall"
  BY DEF TeardownOrder
<1>2. ASSUME NEW i \in 1..2 PROVE i = 1 \/ i = 2
  OBVIOUS
<1>3. (CHOOSE i \in 1..2 : TeardownOrder[i] = "revoke") = 1
  BY <1>1, <1>2
<1>4. (CHOOSE i \in 1..2 : TeardownOrder[i] = "expire") = 2
  BY <1>1, <1>2
<1> QED
  BY <1>1, <1>3, <1>4 DEF TornNext

LEMMA KeepsAllowKey ==
  ASSUME StorageInv, AllowKey
  PROVE  StorageInv'
<1> DEFINE next == Go("look")
<1>1. /\ OnStep("grant") /\ ByReconciler /\ (Grant \/ UNCHANGED <<keys, bucket, secret, ruled>>)
      /\ (Grant /\ storageJob' = next /\ UNCHANGED <<jobEnd, spentFaults>>) \/ EndsJob("error")
  BY DEF AllowKey, Call
<1>2. StorageTyped /\ KeysFit /\ StepsStand /\ TornDown /\ RulesAreSeen
  BY DEF StorageInv
<1>3. storageJob.step = "grant" /\ storageJob.key # 0 /\ bucket.exists /\ bucket.rules # "expiry" /\ keys = {storageJob.key} /\ storageJob.allowance > 0 /\ UNCHANGED <<keys, secret, ruled>>
  BY <1>1, <1>2 DEF StepsStand, TornDown, OnStep, Tearing, AfterBucket, AfterGrant, Grant
<1>4. /\ bucket' \in [exists : BOOLEAN, grants : SUBSET KeyIds, quota : Nat, cors : BOOLEAN, rules : Rules]
      /\ bucket'.exists /\ bucket'.rules = bucket.rules /\ bucket'.quota = bucket.quota
      /\ Grant => storageJob.key \in bucket'.grants
  BY <1>1, <1>2, <1>3 DEF StorageTyped, Grant, Rules
<1>5. keys' \subseteq KeyIds /\ secret' \in KeyIds \union {0} /\ ruled' \in BOOLEAN
  BY <1>1, <1>2, <1>3 DEF StorageTyped, Grant
<1>6. KeysFit'
  BY <1>1, <1>2, <1>3, <1>4 DEF KeysFit, Grant
<1>7. /\ next.step = "look" /\ next.key = storageJob.key /\ next.allowance = storageJob.allowance
      /\ next \in [step : {"none", "quota", "key"} \union AfterKey \union Tearing, key : Nat,
                   allowance : Nat, hasRules : BOOLEAN]
  <2>1. "look" \in {"none", "quota", "key"} \union AfterKey \union Tearing
    BY DEF AfterKey, AfterBucket, AfterGrant, Tearing
  <2> QED
    BY <1>2, <2>1, GoIs
<1> HIDE DEF next
<1>8. ASSUME Grant, storageJob' = next, jobEnd' = jobEnd PROVE StepsStand' /\ RulesAreSeen' /\ TornDown'
  <2>1. StepsStand' /\ RulesAreSeen'
    BY <1>1, <1>2, <1>3, <1>4, <1>7, <1>8 DEF StepsStand, RulesAreSeen, AfterBucket, AfterGrant, Tearing, Grant
  <2>2. TornDown'
    BY <1>1, <1>2, <1>3, <1>4, <1>7, <1>8 DEF TornDown, Tearing, ByReconciler, OnStep, Grant
  <2> QED
    BY <2>1, <2>2
<1>9. \/ storageJob' = next /\ StepsStand' /\ RulesAreSeen' /\ TornDown' /\ jobEnd' = jobEnd
      \/ EndsJob("error")
  BY <1>1, <1>8
<1>10. bucket'.rules = "expiry" => keys' = {} /\ offer.deleted
  BY <1>1, <1>2, <1>3, <1>4 DEF TornDown, Grant
<1> QED
  BY <1>1, <1>4, <1>5, <1>6, <1>7, <1>9, <1>10, KeepsCall

LEMMA KeepsLookAtBucket ==
  ASSUME StorageInv, LookAtBucket
  PROVE  StorageInv'
<1> DEFINE next == [Go("update") EXCEPT !.hasRules = bucket.rules # "none"]
<1>1. /\ OnStep("look") /\ ByReconciler /\ (Look \/ UNCHANGED <<keys, bucket, secret, ruled>>)
      /\ (Look /\ storageJob' = next /\ UNCHANGED <<jobEnd, spentFaults>>) \/ EndsJob("error")
  BY DEF LookAtBucket, Call
<1>2. StorageTyped /\ KeysFit /\ StepsStand /\ TornDown /\ RulesAreSeen
  BY DEF StorageInv
<1>3. storageJob.step = "look" /\ storageJob.key # 0 /\ bucket.exists /\ bucket.rules # "expiry" /\ keys = {storageJob.key} /\ storageJob.allowance > 0 /\ UNCHANGED <<keys, secret, bucket>>
  BY <1>1, <1>2 DEF StepsStand, TornDown, OnStep, Tearing, AfterBucket, AfterGrant, Look
<1>4. /\ bucket' \in [exists : BOOLEAN, grants : SUBSET KeyIds, quota : Nat, cors : BOOLEAN, rules : Rules]
      /\ bucket' = bucket
  BY <1>1, <1>2, <1>3 DEF StorageTyped, Look, Rules
<1>5. keys' \subseteq KeyIds /\ secret' \in KeyIds \union {0} /\ ruled' \in BOOLEAN
  BY <1>1, <1>2, <1>3 DEF StorageTyped, Look
<1>6. KeysFit'
  BY <1>1, <1>2, <1>3, <1>4 DEF KeysFit, Look
<1>7. /\ next.step = "update" /\ next.key = storageJob.key /\ next.allowance = storageJob.allowance
      /\ next.hasRules = (bucket.rules # "none")
      /\ next \in [step : {"none", "quota", "key"} \union AfterKey \union Tearing, key : Nat,
                   allowance : Nat, hasRules : BOOLEAN]
  <2>1. "update" \in {"none", "quota", "key"} \union AfterKey \union Tearing
    BY DEF AfterKey, AfterBucket, AfterGrant, Tearing
  <2>2. /\ Go("update").step = "update" /\ Go("update").key = storageJob.key /\ Go("update").allowance = storageJob.allowance
        /\ Go("update") \in [step : {"none", "quota", "key"} \union AfterKey \union Tearing, key : Nat,
                           allowance : Nat, hasRules : BOOLEAN]
    BY <1>2, <2>1, GoIs
  <2>3. PICK seen \in BOOLEAN : seen = (bucket.rules # "none")
    OBVIOUS
  <2>4. next = [Go("update") EXCEPT !.hasRules = seen]
    BY <2>3
  <2> HIDE DEF next
  <2> QED
    BY <2>2, <2>3, <2>4
<1> HIDE DEF next
<1>8. ASSUME Look, storageJob' = next, jobEnd' = jobEnd PROVE StepsStand' /\ RulesAreSeen' /\ TornDown'
  <2>1. StepsStand' /\ RulesAreSeen'
    BY <1>1, <1>2, <1>3, <1>4, <1>7, <1>8 DEF StepsStand, RulesAreSeen, AfterBucket, AfterGrant, Tearing, Look
  <2>2. TornDown'
    BY <1>1, <1>2, <1>3, <1>4, <1>7, <1>8 DEF TornDown, Tearing, ByReconciler, OnStep, Look
  <2> QED
    BY <2>1, <2>2
<1>9. \/ storageJob' = next /\ StepsStand' /\ RulesAreSeen' /\ TornDown' /\ jobEnd' = jobEnd
      \/ EndsJob("error")
  BY <1>1, <1>8
<1>10. bucket'.rules = "expiry" => keys' = {} /\ offer.deleted
  BY <1>1, <1>2, <1>3, <1>4 DEF TornDown, Look
<1> QED
  BY <1>1, <1>4, <1>5, <1>6, <1>7, <1>9, <1>10, KeepsCall

LEMMA KeepsUpdateBucket ==
  ASSUME StorageInv, UpdateBucket
  PROVE  StorageInv'
<1> DEFINE next == Go("publish")
<1>1. /\ OnStep("update") /\ ByReconciler /\ (Configure \/ UNCHANGED <<keys, bucket, secret, ruled>>)
      /\ (Configure /\ storageJob' = next /\ UNCHANGED <<jobEnd, spentFaults>>) \/ EndsJob("error")
  BY DEF UpdateBucket, Call
<1>2. StorageTyped /\ KeysFit /\ StepsStand /\ TornDown /\ RulesAreSeen
  BY DEF StorageInv
<1>3. storageJob.step = "update" /\ storageJob.key # 0 /\ bucket.exists /\ bucket.rules # "expiry" /\ keys = {storageJob.key} /\ storageJob.allowance > 0 /\ UNCHANGED <<keys, secret, ruled>>
  BY <1>1, <1>2 DEF StepsStand, TornDown, OnStep, Tearing, AfterBucket, AfterGrant, Configure
<1>4. /\ bucket' \in [exists : BOOLEAN, grants : SUBSET KeyIds, quota : Nat, cors : BOOLEAN, rules : Rules]
      /\ bucket'.exists /\ bucket'.rules # "expiry" /\ bucket'.grants = bucket.grants /\ (bucket.quota > 0 => bucket'.quota > 0)
      /\ Configure => bucket'.quota = storageJob.allowance /\ bucket'.cors /\ (bucket'.rules = "none" => storageJob.hasRules /\ bucket.rules = "none")
  BY <1>1, <1>2, <1>3 DEF StorageTyped, Configure, Rules
<1>5. keys' \subseteq KeyIds /\ secret' \in KeyIds \union {0} /\ ruled' \in BOOLEAN
  BY <1>1, <1>2, <1>3 DEF StorageTyped, Configure
<1>6. KeysFit'
  BY <1>1, <1>2, <1>3, <1>4 DEF KeysFit, Configure
<1>7. /\ next.step = "publish" /\ next.key = storageJob.key /\ next.allowance = storageJob.allowance
      /\ next \in [step : {"none", "quota", "key"} \union AfterKey \union Tearing, key : Nat,
                   allowance : Nat, hasRules : BOOLEAN]
  <2>1. "publish" \in {"none", "quota", "key"} \union AfterKey \union Tearing
    BY DEF AfterKey, AfterBucket, AfterGrant, Tearing
  <2> QED
    BY <1>2, <2>1, GoIs
<1> HIDE DEF next
<1>8. ASSUME Configure, storageJob' = next, jobEnd' = jobEnd PROVE StepsStand' /\ RulesAreSeen' /\ TornDown'
  <2>1. StepsStand' /\ RulesAreSeen'
    BY <1>1, <1>2, <1>3, <1>4, <1>7, <1>8 DEF StepsStand, RulesAreSeen, AfterBucket, AfterGrant, Tearing, Configure
  <2>2. TornDown'
    BY <1>1, <1>2, <1>3, <1>4, <1>7, <1>8 DEF TornDown, Tearing, ByReconciler, OnStep, Configure
  <2> QED
    BY <2>1, <2>2
<1>9. \/ storageJob' = next /\ StepsStand' /\ RulesAreSeen' /\ TornDown' /\ jobEnd' = jobEnd
      \/ EndsJob("error")
  BY <1>1, <1>8
<1>10. bucket'.rules = "expiry" => keys' = {} /\ offer.deleted
  BY <1>1, <1>2, <1>3, <1>4 DEF TornDown, Configure
<1> QED
  BY <1>1, <1>4, <1>5, <1>6, <1>7, <1>9, <1>10, KeepsCall

LEMMA KeepsPublishSecret ==
  ASSUME StorageInv, PublishSecret
  PROVE  StorageInv'
<1> DEFINE next == Go("helm")
<1>1. /\ OnStep("publish") /\ ByReconciler /\ (Publish \/ UNCHANGED <<keys, bucket, secret, ruled>>)
      /\ (Publish /\ storageJob' = next /\ UNCHANGED <<jobEnd, spentFaults>>) \/ EndsJob("error")
  BY DEF PublishSecret, Call
<1>2. StorageTyped /\ KeysFit /\ StepsStand /\ TornDown /\ RulesAreSeen
  BY DEF StorageInv
<1>3. storageJob.step = "publish" /\ storageJob.key # 0 /\ bucket.exists /\ bucket.rules # "expiry" /\ keys = {storageJob.key} /\ storageJob.allowance > 0 /\ UNCHANGED <<keys, bucket, ruled>>
      /\ bucket.quota > 0
  BY <1>1, <1>2 DEF StepsStand, TornDown, OnStep, Tearing, AfterBucket, AfterGrant, Publish
<1>4. /\ bucket' \in [exists : BOOLEAN, grants : SUBSET KeyIds, quota : Nat, cors : BOOLEAN, rules : Rules]
      /\ bucket' = bucket
  BY <1>1, <1>2, <1>3 DEF StorageTyped, Publish, Rules
<1>5. keys' \subseteq KeyIds /\ secret' \in KeyIds \union {0} /\ ruled' \in BOOLEAN
  BY <1>1, <1>2, <1>3 DEF StorageTyped, Publish
<1>6. KeysFit'
  BY <1>1, <1>2, <1>3, <1>4 DEF KeysFit, Publish
<1>7. /\ next.step = "helm" /\ next.key = storageJob.key /\ next.allowance = storageJob.allowance
      /\ next \in [step : {"none", "quota", "key"} \union AfterKey \union Tearing, key : Nat,
                   allowance : Nat, hasRules : BOOLEAN]
  <2>1. "helm" \in {"none", "quota", "key"} \union AfterKey \union Tearing
    BY DEF AfterKey, AfterBucket, AfterGrant, Tearing
  <2> QED
    BY <1>2, <2>1, GoIs
<1> HIDE DEF next
<1>8. ASSUME Publish, storageJob' = next, jobEnd' = jobEnd PROVE StepsStand' /\ RulesAreSeen' /\ TornDown'
  <2>1. StepsStand' /\ RulesAreSeen'
    BY <1>1, <1>2, <1>3, <1>4, <1>7, <1>8 DEF StepsStand, RulesAreSeen, AfterBucket, AfterGrant, Tearing, Publish
  <2>2. TornDown'
    BY <1>1, <1>2, <1>3, <1>4, <1>7, <1>8 DEF TornDown, Tearing, ByReconciler, OnStep, Publish
  <2> QED
    BY <2>1, <2>2
<1>9. \/ storageJob' = next /\ StepsStand' /\ RulesAreSeen' /\ TornDown' /\ jobEnd' = jobEnd
      \/ EndsJob("error")
  BY <1>1, <1>8
<1>10. bucket'.rules = "expiry" => keys' = {} /\ offer.deleted
  BY <1>1, <1>2, <1>3, <1>4 DEF TornDown, Publish
<1> QED
  BY <1>1, <1>4, <1>5, <1>6, <1>7, <1>9, <1>10, KeepsCall

LEMMA KeepsRevokeKey ==
  ASSUME StorageInv, RevokeKey
  PROVE  StorageInv'
<1> DEFINE next == Go("expire")
<1>1. /\ OnStep("revoke") /\ ByReconciler /\ (DropKey \/ UNCHANGED <<keys, bucket, secret, ruled>>)
      /\ (DropKey /\ storageJob' = next /\ UNCHANGED <<jobEnd, spentFaults>>) \/ EndsJob("error")
  BY TornIs DEF RevokeKey, Call
<1>2. StorageTyped /\ KeysFit /\ StepsStand /\ TornDown /\ RulesAreSeen
  BY DEF StorageInv
<1>3. storageJob.step = "revoke" /\ storageJob.key = 0 /\ offer.deleted /\ UNCHANGED <<bucket, secret, ruled>>
  BY <1>1, <1>2 DEF StepsStand, TornDown, OnStep, Tearing, AfterBucket, AfterGrant, DropKey
<1>4. /\ bucket' \in [exists : BOOLEAN, grants : SUBSET KeyIds, quota : Nat, cors : BOOLEAN, rules : Rules]
      /\ bucket' = bucket
  BY <1>1, <1>2, <1>3 DEF StorageTyped, DropKey, Rules
<1>5. keys' \subseteq KeyIds /\ secret' \in KeyIds \union {0} /\ ruled' \in BOOLEAN
  BY <1>1, <1>2, <1>3 DEF StorageTyped, DropKey
<1>6. KeysFit'
  BY <1>1, <1>2, <1>3, <1>4 DEF KeysFit, DropKey
<1>7. /\ next.step = "expire" /\ next.key = storageJob.key /\ next.allowance = storageJob.allowance
      /\ next \in [step : {"none", "quota", "key"} \union AfterKey \union Tearing, key : Nat,
                   allowance : Nat, hasRules : BOOLEAN]
  <2>1. "expire" \in {"none", "quota", "key"} \union AfterKey \union Tearing
    BY DEF AfterKey, AfterBucket, AfterGrant, Tearing
  <2> QED
    BY <1>2, <2>1, GoIs
<1> HIDE DEF next
<1>8. ASSUME DropKey, storageJob' = next, jobEnd' = jobEnd PROVE StepsStand' /\ RulesAreSeen' /\ TornDown'
  <2>1. StepsStand' /\ RulesAreSeen'
    BY <1>1, <1>2, <1>3, <1>4, <1>7, <1>8 DEF StepsStand, RulesAreSeen, AfterBucket, AfterGrant, Tearing, DropKey
  <2>2. TornDown'
    BY <1>1, <1>2, <1>3, <1>4, <1>7, <1>8 DEF TornDown, Tearing, ByReconciler, OnStep, DropKey
  <2> QED
    BY <2>1, <2>2
<1>9. \/ storageJob' = next /\ StepsStand' /\ RulesAreSeen' /\ TornDown' /\ jobEnd' = jobEnd
      \/ EndsJob("error")
  BY <1>1, <1>8
<1>10. bucket'.rules = "expiry" => keys' = {} /\ offer.deleted
  BY <1>1, <1>2, <1>3, <1>4 DEF TornDown, DropKey
<1> QED
  BY <1>1, <1>4, <1>5, <1>6, <1>7, <1>9, <1>10, KeepsCall

LEMMA KeepsSetExpiry ==
  ASSUME StorageInv, SetExpiry
  PROVE  StorageInv'
<1> DEFINE next == Go("uninstall")
<1>1. /\ OnStep("expire") /\ ByReconciler /\ (Expire \/ UNCHANGED <<keys, bucket, secret, ruled>>)
      /\ (Expire /\ storageJob' = next /\ UNCHANGED <<jobEnd, spentFaults>>) \/ EndsJob("error")
  BY TornIs DEF SetExpiry, Call
<1>2. StorageTyped /\ KeysFit /\ StepsStand /\ TornDown /\ RulesAreSeen
  BY DEF StorageInv
<1>3. storageJob.step = "expire" /\ storageJob.key = 0 /\ offer.deleted /\ keys = {} /\ UNCHANGED <<keys, secret, ruled>>
  BY <1>1, <1>2 DEF StepsStand, TornDown, OnStep, Tearing, AfterBucket, AfterGrant, Expire
<1>4. /\ bucket' \in [exists : BOOLEAN, grants : SUBSET KeyIds, quota : Nat, cors : BOOLEAN, rules : Rules]
      /\ bucket'.exists = bucket.exists /\ bucket'.quota = bucket.quota
      /\ Expire /\ bucket.exists => bucket'.rules = "expiry"
  BY <1>1, <1>2, <1>3 DEF StorageTyped, Expire, Rules
<1>5. keys' \subseteq KeyIds /\ secret' \in KeyIds \union {0} /\ ruled' \in BOOLEAN
  BY <1>1, <1>2, <1>3 DEF StorageTyped, Expire
<1>6. KeysFit'
  BY <1>1, <1>2, <1>3, <1>4 DEF KeysFit, Expire
<1>7. /\ next.step = "uninstall" /\ next.key = storageJob.key /\ next.allowance = storageJob.allowance
      /\ next \in [step : {"none", "quota", "key"} \union AfterKey \union Tearing, key : Nat,
                   allowance : Nat, hasRules : BOOLEAN]
  <2>1. "uninstall" \in {"none", "quota", "key"} \union AfterKey \union Tearing
    BY DEF AfterKey, AfterBucket, AfterGrant, Tearing
  <2> QED
    BY <1>2, <2>1, GoIs
<1> HIDE DEF next
<1>8. ASSUME Expire, storageJob' = next, jobEnd' = jobEnd PROVE StepsStand' /\ RulesAreSeen' /\ TornDown'
  <2>1. StepsStand' /\ RulesAreSeen'
    BY <1>1, <1>2, <1>3, <1>4, <1>7, <1>8 DEF StepsStand, RulesAreSeen, AfterBucket, AfterGrant, Tearing, Expire
  <2>2. TornDown'
    BY <1>1, <1>2, <1>3, <1>4, <1>7, <1>8 DEF TornDown, Tearing, ByReconciler, OnStep, Expire
  <2> QED
    BY <2>1, <2>2
<1>9. \/ storageJob' = next /\ StepsStand' /\ RulesAreSeen' /\ TornDown' /\ jobEnd' = jobEnd
      \/ EndsJob("error")
  BY <1>1, <1>8
<1>10. bucket'.rules = "expiry" => keys' = {} /\ offer.deleted
  BY <1>1, <1>2, <1>3, <1>4 DEF TornDown, Expire
<1> QED
  BY <1>1, <1>4, <1>5, <1>6, <1>7, <1>9, <1>10, KeepsCall

LEMMA KeepsBegin ==
  ASSUME StorageInv, BeginStorageJob
  PROVE  StorageInv'
<1>1. StorageTyped /\ KeysFit /\ TornDown /\ StepsStand
  BY DEF StorageInv
<1> DEFINE step == CASE offer.optedIn /\ offer.deleted -> TeardownOrder[1]
                     [] offer.optedIn /\ ~offer.deleted -> "quota"
                     [] ~offer.optedIn /\ offer.deleted -> "uninstall"
                     [] OTHER -> "helm"
<1>2. /\ storageJob.step = "none" /\ jobEnd # "deleted" /\ UNCHANGED <<offer, keys, bucket, secret, known, jobEnd, ruled>>
      /\ storageJob' = [NoStorageJob EXCEPT !.allowance = offer.allowance, !.step = step]
  BY DEF BeginStorageJob, OnStep
<1>3. /\ offer.optedIn /\ offer.deleted => step = "revoke"
      /\ offer.optedIn /\ ~offer.deleted => step = "quota"
      /\ ~offer.optedIn /\ offer.deleted => step = "uninstall"
      /\ ~offer.optedIn /\ ~offer.deleted => step = "helm"
  BY DEF TeardownOrder
<1>4. offer.optedIn \in BOOLEAN /\ offer.deleted \in BOOLEAN /\ offer.allowance \in Nat
  BY <1>1 DEF StorageTyped
<1> HIDE DEF step
<1>5. /\ storageJob'.step = step /\ storageJob'.key = 0 /\ storageJob'.allowance = offer.allowance /\ storageJob'.hasRules = FALSE
      /\ storageJob' \in [step : {"none", "quota", "key"} \union AfterKey \union Tearing, key : Nat,
                          allowance : Nat, hasRules : BOOLEAN]
  <2>1. step \in {"none", "quota", "key"} \union AfterKey \union Tearing
    BY <1>3, <1>4 DEF AfterKey, AfterBucket, AfterGrant, Tearing
  <2>2. NoStorageJob \in [step : {"none", "quota", "key"} \union AfterKey \union Tearing, key : Nat,
                          allowance : Nat, hasRules : BOOLEAN]
    BY DEF NoStorageJob
  <2> QED
    BY <1>2, <1>4, <2>1, <2>2 DEF NoStorageJob
<1>6. StorageTyped'
  BY <1>1, <1>2, <1>5 DEF StorageTyped
<1>7. StepsStand' /\ RulesAreSeen'
  BY <1>3, <1>4, <1>5 DEF StepsStand, RulesAreSeen, AfterBucket, AfterGrant, Tearing
<1>8. TornDown'
  BY <1>1, <1>2, <1>3, <1>4, <1>5 DEF TornDown, Tearing
<1> QED
  BY <1>1, <1>2, <1>6, <1>7, <1>8 DEF StorageInv, KeysFit

LEMMA KeepsQuota ==
  ASSUME StorageInv, ResolveQuota
  PROVE  StorageInv'
<1>1. StorageTyped /\ KeysFit /\ TornDown /\ StepsStand
  BY DEF StorageInv
<1>2. storageJob.step = "quota" /\ jobEnd # "deleted" /\ UNCHANGED <<offer, keys, bucket, secret, known, ruled>>
  BY <1>1 DEF ResolveQuota, OnStep, ByReconciler, TornDown
<1>3. CASE EndsJob("error")
  BY <1>1, <1>2, <1>3, KeepsFailed DEF EndsJob, StorageTyped, KeysFit, TornDown
<1>4. CASE storageJob.allowance # 0 /\ storageJob' = [storageJob EXCEPT !.step = "key"] /\ UNCHANGED jobEnd
  <2>1. /\ storageJob'.step = "key" /\ storageJob'.key = storageJob.key /\ storageJob'.allowance = storageJob.allowance
        /\ storageJob.allowance > 0
        /\ storageJob' \in [step : {"none", "quota", "key"} \union AfterKey \union Tearing, key : Nat,
                            allowance : Nat, hasRules : BOOLEAN]
    BY <1>1, <1>4 DEF StorageTyped
  <2>2. StorageTyped'
    BY <1>1, <1>2, <1>4, <2>1 DEF StorageTyped
  <2>3. StepsStand' /\ RulesAreSeen'
    BY <1>1, <1>2, <2>1 DEF StepsStand, RulesAreSeen, AfterBucket, AfterGrant, Tearing
  <2>4. TornDown'
    BY <1>1, <1>2, <1>4, <2>1 DEF TornDown, Tearing
  <2> QED
    BY <1>1, <1>2, <2>2, <2>3, <2>4 DEF StorageInv, KeysFit
<1> QED
  BY <1>3, <1>4 DEF ResolveQuota

LEMMA KeepsFinish ==
  ASSUME StorageInv, FinishStorageJob
  PROVE  StorageInv'
<1>1. StorageTyped /\ KeysFit /\ TornDown /\ StepsStand
  BY DEF StorageInv
<1>2. /\ storageJob.step \in {"helm", "uninstall"} /\ jobEnd # "deleted" /\ UNCHANGED <<offer, keys, bucket, known, ruled>>
      /\ secret' \in {0, secret} /\ storageJob' = NoStorageJob
  BY <1>1 DEF FinishStorageJob, OnStep, ByReconciler, TornDown, EndsJob
<1>3. KeysFit'
  BY <1>1, <1>2 DEF KeysFit
<1>4. CASE jobEnd' \in {"error", "ready"}
  BY <1>1, <1>2, <1>3, <1>4, KeepsFailed DEF StorageTyped, TornDown
<1>5. CASE jobEnd' = "deleted" /\ storageJob.step = "uninstall"
  <2>1. /\ storageJob'.step = "none" /\ storageJob'.key = 0
        /\ storageJob' \in [step : {"none", "quota", "key"} \union AfterKey \union Tearing, key : Nat,
                            allowance : Nat, hasRules : BOOLEAN]
    BY <1>2 DEF NoStorageJob
  <2>2. StorageTyped'
    BY <1>1, <1>2, <1>5, <2>1 DEF StorageTyped
  <2>3. StepsStand' /\ RulesAreSeen'
    BY <2>1 DEF StepsStand, RulesAreSeen, Tearing
  <2>4. TornDown'
    BY <1>1, <1>2, <1>5, <2>1 DEF TornDown, Tearing
  <2> QED
    BY <1>3, <2>2, <2>3, <2>4 DEF StorageInv
<1> QED
  BY <1>4, <1>5 DEF FinishStorageJob, EndsJob, OnStep

\* What the owner, the tenant and an operator do.
LEMMA KeepsOthers ==
  ASSUME StorageInv, ChangeOffer \/ ReadCredentials \/ WriteRules \/ RemovedByHand
  PROVE  StorageInv'
<1>1. StorageTyped /\ KeysFit /\ TornDown /\ StepsStand /\ RulesAreSeen
  BY DEF StorageInv
<1>2. UNCHANGED <<storageJob, jobEnd, secret>>
  BY DEF ChangeOffer, ReadCredentials, WriteRules, RemovedByHand, ByOthers
<1>3. CASE ChangeOffer
  <2>1. /\ ~offer.deleted /\ UNCHANGED <<keys, bucket, known, ruled>>
        /\ offer' \in [optedIn : BOOLEAN, allowance : Nat, deleted : BOOLEAN]
    BY <1>1, <1>3, StorageAssumption DEF ChangeOffer, StorageTyped
  <2>2. StorageTyped'
    BY <1>1, <1>2, <2>1 DEF StorageTyped
  <2>3. StepsStand' /\ RulesAreSeen' /\ KeysFit'
    BY <1>1, <1>2, <2>1 DEF StepsStand, RulesAreSeen, KeysFit
  <2>4. TornDown'
    BY <1>1, <1>2, <2>1 DEF TornDown, Tearing
  <2> QED
    BY <2>2, <2>3, <2>4 DEF StorageInv
<1>4. CASE ReadCredentials
  <2>1. UNCHANGED <<offer, keys, bucket, ruled>> /\ known' \subseteq KeyIds
    BY <1>1, <1>4 DEF ReadCredentials, StorageTyped
  <2> QED
    BY <1>1, <1>2, <2>1 DEF StorageInv, StorageTyped, StepsStand, RulesAreSeen, KeysFit, TornDown
<1>5. CASE WriteRules
  <2>1. /\ keys # {} /\ ruled' = TRUE /\ UNCHANGED <<offer, keys, known>>
        /\ bucket' \in [exists : BOOLEAN, grants : SUBSET KeyIds, quota : Nat, cors : BOOLEAN, rules : Rules]
        /\ bucket'.rules # "expiry" /\ bucket'.exists = bucket.exists /\ bucket'.grants = bucket.grants
        /\ bucket'.quota = bucket.quota /\ bucket'.cors = bucket.cors
    <3>1. PICK rules \in {"none", "own"} : bucket' = [bucket EXCEPT !.rules = rules]
      BY <1>5 DEF WriteRules
    <3>2. rules \in Rules
      BY DEF Rules
    <3> QED
      BY <1>1, <1>5, <3>1, <3>2 DEF WriteRules, HasAccess, StorageTyped
  <2>2. StorageTyped'
    BY <1>1, <1>2, <2>1 DEF StorageTyped
  <2>3. StepsStand' /\ RulesAreSeen' /\ KeysFit'
    BY <1>1, <1>2, <2>1 DEF StepsStand, RulesAreSeen, KeysFit
  <2>4. TornDown'
    BY <1>1, <1>2, <2>1 DEF TornDown
  <2> QED
    BY <2>2, <2>3, <2>4 DEF StorageInv
<1>6. CASE RemovedByHand
  <2>1. /\ storageJob.step = "none" /\ UNCHANGED <<offer, known, ruled>> /\ keys' \in {keys, {}}
        /\ bucket' \in [exists : BOOLEAN, grants : SUBSET KeyIds, quota : Nat, cors : BOOLEAN, rules : Rules]
        /\ bucket'.rules = bucket.rules /\ bucket'.exists = bucket.exists /\ bucket'.quota = bucket.quota
    <3>1. \/ bucket' = [bucket EXCEPT !.grants = {}] /\ UNCHANGED keys
          \/ keys' = {} /\ bucket' = [bucket EXCEPT !.grants = @ \ keys]
      BY <1>6 DEF RemovedByHand
    <3>2. bucket.grants \ keys \in SUBSET KeyIds /\ {} \in SUBSET KeyIds
      BY <1>1 DEF StorageTyped
    <3> QED
      BY <1>1, <1>6, <3>1, <3>2 DEF RemovedByHand, OnStep, StorageTyped
  <2>2. StorageTyped'
    BY <1>1, <1>2, <2>1 DEF StorageTyped
  <2>3. StepsStand' /\ RulesAreSeen' /\ KeysFit'
    BY <1>1, <1>2, <2>1 DEF StepsStand, RulesAreSeen, KeysFit
  <2>4. TornDown'
    BY <1>1, <1>2, <2>1 DEF TornDown
  <2> QED
    BY <2>2, <2>3, <2>4 DEF StorageInv
<1> QED
  BY <1>3, <1>4, <1>5, <1>6

LEMMA StorageStep ==
  ASSUME StorageInv, [StorageNext]_storageVars
  PROVE  StorageInv'
<1>1. CASE UNCHANGED storageVars
  <2>1. UNCHANGED <<offer, keys, bucket, secret, known, storageJob, jobEnd, ruled>>
    BY <1>1 DEF storageVars
  <2> QED
    BY <2>1 DEF StorageInv, StorageTyped, StepsStand, RulesAreSeen, KeysFit, TornDown
<1>2. CASE StorageJobStep
  BY <1>2, KeepsBegin, KeepsQuota, KeepsEnsureKey, KeepsEnsureBucket, KeepsAllowKey, KeepsLookAtBucket, KeepsUpdateBucket,
     KeepsPublishSecret, KeepsRevokeKey, KeepsSetExpiry, KeepsFinish DEF StorageJobStep
<1>3. CASE ChangeOffer \/ ReadCredentials \/ WriteRules \/ RemovedByHand
  BY <1>3, KeepsOthers
<1> QED
  BY <1>1, <1>2, <1>3 DEF StorageNext

LEMMA StorageInvIsWhole ==
  ASSUME StorageInv
  PROVE  ProvisionedIsWhole /\ NoPodUnbounded /\ TeardownHolds
<1>1. StorageTyped /\ KeysFit /\ TornDown /\ StepsStand /\ RulesAreSeen
  BY DEF StorageInv
<1>2. ProvisionedIsWhole
  BY <1>1 DEF ProvisionedIsWhole, OnStep, StorageTyped, StepsStand, RulesAreSeen, AfterBucket, AfterGrant
<1>3. NoPodUnbounded
  BY <1>1 DEF NoPodUnbounded, KeysFit
<1>4. TeardownHolds
  BY <1>1 DEF TeardownHolds, TornDown
<1> QED
  BY <1>2, <1>3, <1>4

\* Only the publication changes the Secret, and it names the only key.
LEMMA SecretsOnlyFollow ==
  ASSUME StorageInv, StorageNext
  PROVE  secret' \in {secret, 0} \/ secret \notin keys'
<1>1. StepsStand
  BY DEF StorageInv
<1>2. CASE PublishSecret
  BY <1>1, <1>2 DEF PublishSecret, Call, Publish, OnStep, StepsStand
<1>3. CASE ~PublishSecret
  BY <1>3 DEF StorageNext, StorageJobStep, BeginStorageJob, ResolveQuota, EnsureKey, EnsureBucket, AllowKey, LookAtBucket,
     UpdateBucket, RevokeKey, SetExpiry, FinishStorageJob, Call, MintKey, MakeBucket, Grant, Look, Configure, DropKey, Expire,
     ChangeOffer, ReadCredentials, WriteRules, RemovedByHand
<1> QED
  BY <1>2, <1>3

\* The default rules are written over the tenant's only if it wrote meanwhile.
LEMMA RulesOnlyRace ==
  ASSUME StorageInv, StorageNext, bucket.rules = "own", bucket'.rules = "default"
  PROVE  ruled
<1>1. StorageTyped /\ RulesAreSeen
  BY DEF StorageInv
<1>2. CASE UpdateBucket
  BY <1>1, <1>2 DEF UpdateBucket, Call, Configure, OnStep, RulesAreSeen, StorageTyped
<1>3. CASE ~UpdateBucket
  <2>1. bucket' # bucket
    OBVIOUS
  <2>2. EnsureBucket \/ AllowKey \/ SetExpiry \/ WriteRules \/ RemovedByHand
    BY <1>3, <2>1 DEF StorageNext, StorageJobStep, BeginStorageJob, ResolveQuota, EnsureKey, LookAtBucket,
       PublishSecret, RevokeKey, FinishStorageJob, Call, MintKey, Look, Publish, DropKey, ChangeOffer, ReadCredentials
  <2>3. CASE EnsureBucket
    BY <2>3 DEF EnsureBucket, Call, MakeBucket, NoBucket
  <2>4. CASE AllowKey
    BY <1>1, <2>4 DEF AllowKey, Call, Grant, StorageTyped
  <2>5. CASE SetExpiry
    BY <1>1, <2>5 DEF SetExpiry, Call, Expire, StorageTyped
  <2>6. CASE WriteRules
    BY <1>1, <2>6 DEF WriteRules, StorageTyped
  <2>7. CASE RemovedByHand
    BY <1>1, <2>7 DEF RemovedByHand, StorageTyped
  <2> QED
    BY <2>2, <2>3, <2>4, <2>5, <2>6, <2>7
<1> QED
  BY <1>2, <1>3

\* Whatever call fails with or without its effect, and whatever the tenant and
\* the owner do meanwhile: what is provisioned is whole, no pod has a bucket
\* without a quota, a teardown leaves no key, a published key stays, and a
\* tenant's own rules are not overwritten unseen (services/object_storage.py).
THEOREM StorageStaysWhole == StorageSpec => StorageHolds
<1>1. StorageInit => StorageInv
  BY StorageStarts
<1>2. StorageInv /\ [StorageNext]_storageVars => StorageInv'
  BY StorageStep
<1>3. StorageInv => ProvisionedIsWhole /\ NoPodUnbounded /\ TeardownHolds
  BY StorageInvIsWhole
<1>4. StorageInv /\ [StorageNext]_storageVars => [secret' \in {secret, 0} \/ secret \notin keys']_storageVars
  BY SecretsOnlyFollow
<1>5. StorageInv /\ [StorageNext]_storageVars => [(bucket.rules = "own" /\ bucket'.rules = "default") => ruled]_storageVars
  BY RulesOnlyRace
<1> QED
  BY <1>1, <1>2, <1>3, <1>4, <1>5, PTL DEF StorageSpec, StorageHolds, CredentialsStay, OwnRulesStay
-----------------------------------------------------------------------------
(* A deploy from the command line, interrupted anywhere.                    *)

Releasing == {"upload", "submit", "follow", "settle", "put", "rollout"}
Removing == {"confirm", "request", "forget", "gone"}
Building == {"create", "record", "upload", "submit", "follow"}

\* A pointer names a deployment; the running command has the file as it is.
FileFits ==
  /\ PointerFits /\ projectFile.app \in {NoApp} \union DOMAIN apps
  /\ command.step \notin {"idle", "gone"} => command.project = projectFile

\* What the command is, by where it is.
KindFits ==
  /\ command.step \in {"values"} \union Building \union Releasing => command.kind \in {"deploy", "roll"}
  /\ command.step \in Building => command.kind = "deploy"
  /\ command.step \in Building \union Releasing => command.project.host \in Hosts
  /\ command.step \in Removing => command.kind = "delete"
  /\ command.kind = "delete" /\ command.step = "read" =>
       projectFile.app # NoApp /\ command.env = projectFile.env /\ command.app = NoApp
  /\ command.step \in {"read", "values", "create", "record", "upload"} => command.tries \in {0, 1}
  /\ command.step # "idle" => command.kind # "none" /\ command.report = "none"

\* The deployment the command is about.
AppFits ==
  /\ command.step \in {"read", "create"} => command.app = NoApp
  /\ command.step = "values" => command.app \in {NoApp} \union DOMAIN apps
  /\ command.step = "values" /\ command.kind = "roll" => command.app # NoApp
  /\ command.step \in {"record"} \union Releasing \union Removing => command.app \in DOMAIN apps
  /\ command.step = "record" => apps[command.app].env = command.env
  /\ command.step \in Removing \ {"gone"} =>
       command.app = projectFile.app /\ command.env = projectFile.env
  /\ command.step = "forget" => apps[command.app].deletion # "no"

\* The build the command is about, and its release.
BuildFits ==
  /\ command.step = "follow" => command.build \in DOMAIN clientBuilds
  /\ command.kind = "deploy" /\ command.step \in {"settle", "put", "rollout"} =>
       command.build \in DOMAIN clientBuilds /\ clientBuilds[command.build].status = "succeeded"
  /\ command.step = "rollout" =>
       /\ command.generation \in DOMAIN apps[command.app].rolls
       /\ apps[command.app].rolls[command.generation].build = command.build
  /\ \A a \in DOMAIN apps : Len(apps[a].rolls) >= 1

ClientInv ==
  ClientTypeOK /\ FileFits /\ KindFits /\ AppFits /\ BuildFits /\ NothingStranded /\ ArchivesAreWhole /\ LogIsShown

LEMMA ClientStarts == ClientInit => ClientInv
<1> SUFFICES ASSUME ClientInit PROVE ClientInv
  OBVIOUS
<1>1. /\ apps = <<>> /\ clientBuilds = <<>> /\ letGo = {} /\ command = Idle
      /\ spent = [commands |-> 0, outside |-> 0]
      /\ projectFile \in Project /\ projectFile.app = NoApp
  BY ClientAssumption DEF ClientInit, Project, NoApp
<1>2. command \in ClientCommand /\ command.step = "idle" /\ command.kind = "none" /\ command.report = "none"
  BY <1>1, ClientAssumption DEF Idle, ClientCommand, Steps, Project, NoApp
<1>3. ClientTypeOK
  BY <1>1, <1>2, ClientAssumption DEF ClientTypeOK
<1>4. FileFits /\ NothingStranded /\ ArchivesAreWhole /\ LogIsShown
  BY <1>1, <1>2 DEF FileFits, PointerFits, NothingStranded, ArchivesAreWhole, LogIsShown
<1>5. KindFits /\ AppFits /\ BuildFits
  BY <1>1, <1>2 DEF KindFits, AppFits, BuildFits, Building, Releasing, Removing
<1> QED
  BY <1>3, <1>4, <1>5 DEF ClientInv

LEMMA AppIs ==
  ASSUME ClientTypeOK, NEW a \in DOMAIN apps
  PROVE  apps \in Seq(App) /\ apps[a] \in App /\ apps[a].rolls \in Seq(Rollout)
<1>1. apps \in Seq(App)
  BY DEF ClientTypeOK
<1>2. apps[a] \in App
  BY <1>1
<1> QED
  BY <1>1, <1>2 DEF App

\* Deployments go on: none disappears, a deletion is never taken back, and a
\* release stays the one it was.
AppGoesOn(a) ==
  /\ apps'[a].env = apps[a].env
  /\ apps[a].deletion # "no" => apps'[a].deletion # "no"
  /\ Len(apps'[a].rolls) >= Len(apps[a].rolls)
  /\ \A g \in DOMAIN apps[a].rolls :
       g \in DOMAIN apps'[a].rolls /\ apps'[a].rolls[g].build = apps[a].rolls[g].build
AppsGoOn ==
  /\ apps' \in Seq(App) /\ DOMAIN apps' = DOMAIN apps /\ Len(apps') = Len(apps)
  /\ \A a \in DOMAIN apps : AppGoesOn(a)

\* Changing one deployment in a way that goes on.
LEMMA OneGoesOn ==
  ASSUME ClientTypeOK, NEW a \in DOMAIN apps, NEW app \in App, apps' = [apps EXCEPT ![a] = app],
         app.env = apps[a].env, apps[a].deletion # "no" => app.deletion # "no",
         Len(app.rolls) >= Len(apps[a].rolls),
         \A g \in DOMAIN apps[a].rolls : g \in DOMAIN app.rolls /\ app.rolls[g].build = apps[a].rolls[g].build
  PROVE  AppsGoOn
<1>1. apps \in Seq(App) /\ apps' \in Seq(App) /\ DOMAIN apps' = DOMAIN apps /\ Len(apps') = Len(apps)
  BY DEF ClientTypeOK
<1>2. ASSUME NEW b \in DOMAIN apps PROVE AppGoesOn(b)
  <2>1. CASE b = a
    <3>1. apps'[a] = app
      BY <1>1
    <3> QED
      BY <2>1, <3>1 DEF AppGoesOn
  <2>2. CASE b # a
    <3>1. apps'[b] = apps[b] /\ apps[b] \in App
      BY <1>1, <2>2
    <3>2. Len(apps[b].rolls) \in Nat
      BY <3>1 DEF App
    <3> QED
      BY <3>1, <3>2 DEF AppGoesOn
  <2> QED
    BY <2>1, <2>2
<1> QED
  BY <1>1, <1>2 DEF AppsGoOn

\* The last rollout of a deployment ends.
LEMMA RollEnds ==
  ASSUME ClientTypeOK, NEW a \in DOMAIN apps, Generation(a) >= 1, NEW how \in {"running", "ok", "failed"},
         apps' = [apps EXCEPT ![a].rolls[Generation(a)].outcome = how]
  PROVE  AppsGoOn
<1>1. apps[a] \in App /\ apps[a].rolls \in Seq(Rollout)
  BY AppIs
<1>2. PICK n \in Nat : n = Generation(a) /\ n \in DOMAIN apps[a].rolls /\ n = Len(apps[a].rolls)
  BY <1>1 DEF Generation
<1> DEFINE roll == [apps[a].rolls[n] EXCEPT !.outcome = how]
           rolls == [apps[a].rolls EXCEPT ![n] = roll]
           app == [apps[a] EXCEPT !.rolls = rolls]
<1>3. roll \in Rollout /\ roll.build = apps[a].rolls[n].build
  <2>1. apps[a].rolls[n] \in Rollout
    BY <1>1, <1>2
  <2> QED
    BY <2>1 DEF Rollout
<1>4. /\ rolls \in Seq(Rollout) /\ Len(rolls) = Len(apps[a].rolls) /\ DOMAIN rolls = DOMAIN apps[a].rolls
      /\ \A g \in DOMAIN apps[a].rolls : rolls[g].build = apps[a].rolls[g].build
  <2> HIDE DEF roll
  <2> QED
    BY <1>1, <1>2, <1>3
<1>5. app \in App /\ app.env = apps[a].env /\ app.deletion = apps[a].deletion /\ app.rolls = rolls
  <2> HIDE DEF rolls
  <2> QED
    BY <1>1, <1>4 DEF App
<1>6. apps' = [apps EXCEPT ![a] = app]
  BY <1>2 DEF Generation
<1> HIDE DEF app, rolls
<1>7. /\ Len(app.rolls) >= Len(apps[a].rolls)
      /\ \A g \in DOMAIN apps[a].rolls : g \in DOMAIN app.rolls /\ app.rolls[g].build = apps[a].rolls[g].build
  BY <1>1, <1>4, <1>5
<1>8. apps[a].deletion # "no" => app.deletion # "no"
  BY <1>5
<1> QED
  BY <1>5, <1>6, <1>7, <1>8, OneGoesOn

\* The deletion of a deployment moves on.
LEMMA DeletionGoesOn ==
  ASSUME ClientTypeOK, NEW a \in DOMAIN apps, NEW how \in {"asked", "failed", "done"},
         apps' = [apps EXCEPT ![a].deletion = how]
  PROVE  AppsGoOn /\ apps'[a].deletion # "no"
<1> DEFINE app == [apps[a] EXCEPT !.deletion = how]
<1>1. apps[a] \in App /\ apps \in Seq(App)
  BY AppIs
<1>2. app \in App /\ app.env = apps[a].env /\ app.deletion = how /\ app.rolls = apps[a].rolls
  BY <1>1 DEF App
<1>3. apps' = [apps EXCEPT ![a] = app]
  OBVIOUS
<1> HIDE DEF app
<1>4. Len(app.rolls) >= Len(apps[a].rolls) /\ how # "no"
  BY <1>1, <1>2 DEF App
<1>5. AppsGoOn
  BY <1>2, <1>3, <1>4, OneGoesOn
<1> QED
  BY <1>1, <1>2, <1>3, <1>4, <1>5

\* A deployment is released anew.
LEMMA UpdateGoesOn ==
  ASSUME ClientTypeOK, NEW a \in DOMAIN apps, NEW h \in Hosts, NEW b \in Nat, apps' = Updated(a, h, b)
  PROVE  /\ AppsGoOn /\ Generation(a) + 1 \in DOMAIN apps'[a].rolls
         /\ apps'[a].rolls[Generation(a) + 1].build = b
<1> DEFINE roll == [build |-> b, outcome |-> "running"]
           rolls == Append(apps[a].rolls, roll)
           app == [apps[a] EXCEPT !.rolls = rolls, !.host = h]
<1>1. apps[a] \in App /\ apps \in Seq(App) /\ apps[a].rolls \in Seq(Rollout)
  BY AppIs
<1>2. roll \in Rollout /\ roll.build = b
  BY DEF Rollout
<1> HIDE DEF roll
<1>3. PICK n \in Nat : n = Len(apps[a].rolls) /\ DOMAIN apps[a].rolls = 1 .. n
  BY <1>1
<1>4. /\ rolls \in Seq(Rollout) /\ Len(rolls) = n + 1 /\ DOMAIN rolls = 1 .. (n + 1) /\ rolls[n + 1] = roll
      /\ \A g \in 1 .. n : rolls[g] = apps[a].rolls[g]
  BY <1>1, <1>2, <1>3
<1>5. app \in App /\ app.env = apps[a].env /\ app.deletion = apps[a].deletion /\ app.rolls = rolls
  <2> HIDE DEF rolls
  <2> QED
    BY <1>1, <1>4 DEF App
<1>6. apps' = [apps EXCEPT ![a] = app]
  BY DEF Updated, roll
<1> HIDE DEF app, rolls
<1>7. /\ Len(app.rolls) >= Len(apps[a].rolls)
      /\ \A g \in DOMAIN apps[a].rolls : g \in DOMAIN app.rolls /\ app.rolls[g].build = apps[a].rolls[g].build
  BY <1>3, <1>4, <1>5
<1>8. AppsGoOn
  BY <1>5, <1>6, <1>7, OneGoesOn
<1>9. apps'[a] = app
  BY <1>1, <1>6
<1> QED
  BY <1>2, <1>3, <1>4, <1>5, <1>8, <1>9 DEF Generation

\* What a command knows of deployments survives what others do to them.
LEMMA AppsFit ==
  ASSUME ClientInv, AppsGoOn, UNCHANGED <<projectFile, clientBuilds, command, letGo>>,
         spent' \in [commands : 0 .. MaxCommands, outside : 0 .. MaxOutside]
  PROVE  ClientInv'
<1>1. /\ ClientTypeOK /\ FileFits /\ KindFits /\ AppFits /\ BuildFits /\ NothingStranded
      /\ apps \in Seq(App) /\ apps' \in Seq(App) /\ DOMAIN apps' = DOMAIN apps /\ Len(apps') = Len(apps)
      /\ \A a \in DOMAIN apps : AppGoesOn(a)
  BY DEF ClientInv, AppsGoOn, ClientTypeOK
<1>2. ClientTypeOK'
  BY <1>1 DEF ClientTypeOK
<1>3. FileFits'
  BY <1>1 DEF FileFits, PointerFits, AppGoesOn, NoApp
<1>4. KindFits'
  BY <1>1 DEF KindFits
<1>5. AppFits'
  BY <1>1 DEF AppFits, AppGoesOn, Releasing, Removing
<1>6. BuildFits'
  <2>1. ASSUME NEW a \in DOMAIN apps PROVE Len(apps'[a].rolls) >= 1
    <3>1. apps[a].rolls \in Seq(Rollout) /\ apps'[a] \in App
      BY <1>1, AppIs
    <3>2. Len(apps[a].rolls) \in Nat /\ Len(apps'[a].rolls) \in Nat /\ Len(apps[a].rolls) >= 1
      BY <1>1, <3>1 DEF BuildFits, App
    <3> QED
      BY <1>1, <3>2 DEF AppGoesOn
  <2> QED
    BY <1>1, <2>1 DEF BuildFits, AppFits, AppGoesOn, Releasing
<1>7. NothingStranded'
  BY <1>1 DEF NothingStranded, AppGoesOn, At
<1>8. ArchivesAreWhole' /\ LogIsShown'
  BY DEF ClientInv, ArchivesAreWhole, LogIsShown
<1> QED
  BY <1>2, <1>3, <1>4, <1>5, <1>6, <1>7, <1>8 DEF ClientInv

\* An end of a command, with or without its address announced.
LEMMA Ends ==
  ASSUME ClientInv, UNCHANGED <<projectFile, apps, clientBuilds, spent>>,
         command' \in {Idle, [Idle EXCEPT !.report = "live"]},
         letGo' = letGo \union (IF At("record") THEN {command.app} ELSE {})
  PROVE  ClientInv'
<1>1. /\ ClientTypeOK /\ FileFits /\ KindFits /\ AppFits /\ BuildFits /\ NothingStranded
      /\ apps \in Seq(App) /\ Len(apps) <= MaxApps
  BY DEF ClientInv, ClientTypeOK
<1>2. command' \in ClientCommand /\ command'.step = "idle" /\ command'.kind = "none"
  <2>1. Idle \in ClientCommand /\ Idle.step = "idle" /\ Idle.kind = "none"
    BY ClientAssumption DEF Idle, ClientCommand, Steps, Project, NoApp
  <2> QED
    BY <2>1 DEF ClientCommand
<1>3. At("record") => command.app \in 1 .. MaxApps
  BY <1>1, ClientAssumption DEF At, AppFits
<1>4. ClientTypeOK'
  BY <1>1, <1>2, <1>3 DEF ClientTypeOK
<1>5. FileFits'
  BY <1>1, <1>2 DEF FileFits, PointerFits
<1>6. KindFits' /\ AppFits' /\ BuildFits'
  BY <1>1, <1>2 DEF KindFits, AppFits, BuildFits, Building, Releasing, Removing
<1>7. NothingStranded'
  BY <1>1, <1>2 DEF NothingStranded, At
<1>8. ArchivesAreWhole' /\ LogIsShown'
  BY <1>2 DEF ClientInv, ArchivesAreWhole, LogIsShown
<1> QED
  BY <1>4, <1>5, <1>6, <1>7, <1>8 DEF ClientInv

LEMMA KeepsFail ==
  ASSUME ClientInv, UNCHANGED <<projectFile, apps, clientBuilds, letGo, spent>>, Fail, ~At("record")
  PROVE  ClientInv'
  BY Ends DEF Fail

\* What the platform and other people do.
LEMMA KeepsWorld ==
  ASSUME ClientInv, NEW a \in DOMAIN apps, Reconcile(a) \/ SomebodyElse(a)
  PROVE  ClientInv'
<1>1. /\ ClientTypeOK /\ UNCHANGED <<projectFile, clientBuilds, command, letGo>>
      /\ apps[a] \in App /\ Generation(a) >= 1
  BY AppIs DEF ClientInv, BuildFits, Generation, Reconcile, SomebodyElse
<1>2. spent' \in [commands : 0 .. MaxCommands, outside : 0 .. MaxOutside]
  <2>1. spent \in [commands : 0 .. MaxCommands, outside : 0 .. MaxOutside]
    BY <1>1 DEF ClientTypeOK
  <2>2. CASE Reconcile(a)
    BY <2>1, <2>2 DEF Reconcile
  <2>3. CASE SomebodyElse(a)
    BY <2>1, <2>3, ClientAssumption DEF SomebodyElse
  <2> QED
    BY <2>2, <2>3
<1>3. AppsGoOn
  <2>1. CASE Reconcile(a)
    <3>1. \/ \E how \in {"ok", "failed"} : apps' = [apps EXCEPT ![a].rolls[Generation(a)].outcome = how]
          \/ \E how \in {"done", "failed"} : apps' = [apps EXCEPT ![a].deletion = how]
      BY <2>1 DEF Reconcile
    <3> QED
      BY <1>1, <3>1, RollEnds, DeletionGoesOn
  <2>2. CASE SomebodyElse(a)
    <3>1. \/ apps' = [apps EXCEPT ![a].deletion = "asked"]
          \/ apps' = Updated(a, apps[a].host, OthersImage)
      BY <2>2 DEF SomebodyElse
    <3>2. apps[a].host \in Hosts /\ OthersImage \in Nat
      BY <1>1 DEF App, OthersImage
    <3> QED
      BY <1>1, <3>1, <3>2, DeletionGoesOn, UpdateGoesOn
  <2> QED
    BY <2>1, <2>2
<1> QED
  BY <1>1, <1>2, <1>3, AppsFit

LEMMA KeepsBuild ==
  ASSUME ClientInv, NEW b \in DOMAIN clientBuilds, BuildProceeds(b)
  PROVE  ClientInv'
<1>1. /\ ClientTypeOK /\ UNCHANGED <<projectFile, apps, command, letGo, spent>>
      /\ clientBuilds \in Seq(ClientBuild) /\ clientBuilds[b].status = "open"
  BY DEF ClientInv, ClientTypeOK, BuildProceeds
<1>2. clientBuilds[b] \in ClientBuild
  BY <1>1
<1>3. PICK current \in ClientBuild : clientBuilds' = [clientBuilds EXCEPT ![b] = current] /\ current.archive = clientBuilds[b].archive
  <2>1. CASE clientBuilds[b].log < LogSize /\ clientBuilds' = [clientBuilds EXCEPT ![b].log = @ + 1]
    <3>1. [clientBuilds[b] EXCEPT !.log = @ + 1] \in ClientBuild
      BY <1>2, <2>1, ClientAssumption DEF ClientBuild
    <3>2. [clientBuilds[b] EXCEPT !.log = @ + 1].archive = clientBuilds[b].archive
      BY <1>2 DEF ClientBuild
    <3> QED
      BY <2>1, <3>1, <3>2
  <2>2. CASE \E status \in {"succeeded", "failed"} : clientBuilds' = [clientBuilds EXCEPT ![b].status = status]
    <3>1. PICK status \in {"succeeded", "failed"} : clientBuilds' = [clientBuilds EXCEPT ![b].status = status]
      BY <2>2
    <3>2. /\ [clientBuilds[b] EXCEPT !.status = status] \in ClientBuild
          /\ [clientBuilds[b] EXCEPT !.status = status].archive = clientBuilds[b].archive
      BY <1>2 DEF ClientBuild
    <3> QED
      BY <3>1, <3>2
  <2> QED
    BY <2>1, <2>2 DEF BuildProceeds
<1>4. /\ clientBuilds' \in Seq(ClientBuild) /\ DOMAIN clientBuilds' = DOMAIN clientBuilds
      /\ clientBuilds'[b] = current /\ \A c \in DOMAIN clientBuilds : c # b => clientBuilds'[c] = clientBuilds[c]
  BY <1>1, <1>3
<1>5. ClientTypeOK'
  BY <1>1, <1>4 DEF ClientTypeOK
<1>6. FileFits' /\ KindFits' /\ AppFits' /\ NothingStranded'
  BY <1>1 DEF ClientInv, FileFits, PointerFits, KindFits, AppFits, NothingStranded, At
<1>7. BuildFits' /\ LogIsShown'
  BY <1>1, <1>4 DEF ClientInv, BuildFits, LogIsShown
<1>8. ArchivesAreWhole'
  BY <1>3, <1>4 DEF ClientInv, ArchivesAreWhole
<1> QED
  BY <1>5, <1>6, <1>7, <1>8 DEF ClientInv

\* What the user does to the file between commands.
LEMMA KeepsFile ==
  ASSUME ClientInv, (\E h \in Hosts \union {"none"} : EditFile(h)) \/ (\E env \in Envs, h \in Hosts : InitForce(env, h))
  PROVE  ClientInv'
<1>1. /\ ClientTypeOK /\ FileFits /\ NothingStranded /\ command.step = "idle"
      /\ projectFile \in Project /\ spent \in [commands : 0 .. MaxCommands, outside : 0 .. MaxOutside]
      /\ letGo \subseteq 1 .. MaxApps
      /\ UNCHANGED <<apps, clientBuilds, command>>
  BY DEF ClientInv, EditFile, InitForce, At, ClientTypeOK
<1>2. /\ projectFile' \in Project /\ spent' \in [commands : 0 .. MaxCommands, outside : 0 .. MaxOutside]
      /\ projectFile'.app = NoApp \/ (projectFile'.app = projectFile.app /\ projectFile'.env = projectFile.env)
      /\ letGo' \subseteq 1 .. MaxApps /\ letGo \subseteq letGo'
      /\ projectFile.app \in {NoApp, projectFile'.app} \union letGo'
  <2>1. CASE \E h \in Hosts \union {"none"} : EditFile(h)
    <3>1. PICK h \in Hosts \union {"none"} : EditFile(h)
      BY <2>1
    <3> QED
      BY <1>1, <3>1, ClientAssumption DEF EditFile, Project
  <2>2. CASE \E env \in Envs, h \in Hosts : InitForce(env, h)
    <3>1. PICK env \in Envs, h \in Hosts : InitForce(env, h)
      BY <2>2
    <3> QED
      BY <1>1, <3>1, ClientAssumption DEF InitForce, Project, NoApp
  <2> QED
    BY <2>1, <2>2
<1>3. ClientTypeOK'
  BY <1>1, <1>2 DEF ClientTypeOK
<1>4. FileFits' /\ KindFits' /\ AppFits' /\ BuildFits'
  BY <1>1, <1>2 DEF ClientInv, FileFits, PointerFits, KindFits, AppFits, BuildFits, Building, Releasing, Removing
<1>5. NothingStranded'
  BY <1>1, <1>2, AppIs DEF NothingStranded, At, NoApp
<1>6. ArchivesAreWhole' /\ LogIsShown'
  BY <1>1 DEF ClientInv, ArchivesAreWhole, LogIsShown
<1> QED
  BY <1>3, <1>4, <1>5, <1>6 DEF ClientInv

\* A command that goes on with the pointer and the deployments as they are.
LEMMA Proceeds ==
  ASSUME ClientInv, UNCHANGED <<apps, clientBuilds, letGo>>, ~At("record"),
         projectFile' \in Project, projectFile'.app = projectFile.app, projectFile'.env = projectFile.env,
         spent' \in [commands : 0 .. MaxCommands, outside : 0 .. MaxOutside],
         command' \in ClientCommand, command'.step \notin {"idle", "gone"} => command'.project = projectFile',
         KindFits', AppFits', BuildFits', LogIsShown'
  PROVE  ClientInv'
<1>1. ClientTypeOK' /\ FileFits'
  BY DEF ClientInv, ClientTypeOK, FileFits, PointerFits
<1>2. NothingStranded' /\ ArchivesAreWhole'
  BY DEF ClientInv, NothingStranded, ArchivesAreWhole, At
<1> QED
  BY <1>1, <1>2 DEF ClientInv

LEMMA ClientTyped ==
  ASSUME ClientInv
  PROVE  /\ ClientTypeOK /\ FileFits /\ KindFits /\ AppFits /\ BuildFits /\ LogIsShown
         /\ command \in ClientCommand /\ projectFile \in Project /\ apps \in Seq(App) /\ clientBuilds \in Seq(ClientBuild)
         /\ spent \in [commands : 0 .. MaxCommands, outside : 0 .. MaxOutside]
         /\ command.step \notin {"idle", "gone"} => command.project = projectFile
         /\ \A a \in DOMAIN apps : Readable(command.env, a) <=> apps[a].env = command.env /\ apps[a].deletion # "done"
  BY ClientAssumption DEF ClientInv, ClientTypeOK, FileFits, Readable, NoApp

LEMMA Continues ==
  ASSUME ClientInv, UNCHANGED <<projectFile, apps, clientBuilds, letGo>>, ~At("record"),
         spent' \in [commands : 0 .. MaxCommands, outside : 0 .. MaxOutside],
         command' \in ClientCommand, command'.step \notin {"idle", "gone"} => command'.project = projectFile,
         KindFits', AppFits', BuildFits', LogIsShown'
  PROVE  ClientInv'
  BY ClientTyped, Proceeds

\* Only the step changes.
LEMMA GotoIs ==
  ASSUME ClientInv, NEW step \in Steps, Goto(step)
  PROVE  /\ command' \in ClientCommand /\ command'.step = step
         /\ command'.kind = command.kind /\ command'.env = command.env /\ command'.project = command.project
         /\ command'.app = command.app /\ command'.build = command.build /\ command'.printed = command.printed
         /\ command'.tries = command.tries /\ command'.report = command.report /\ command'.recreate = command.recreate
  BY ClientTyped DEF Goto, ClientCommand

LEMMA KeepsStart ==
  ASSUME ClientInv, NEW kind \in {"deploy", "roll", "delete"}, NEW env \in Envs, NEW recreate \in BOOLEAN,
         StartCommand(kind, env, recreate)
  PROVE  ClientInv'
<1>1. /\ command.step = "idle" /\ EnvFits(kind, env, recreate) /\ (recreate => kind = "deploy")
      /\ kind = "delete" => projectFile.app # NoApp
      /\ command' = [Idle EXCEPT !.kind = kind, !.env = env, !.recreate = recreate,
                                 !.project = projectFile, !.step = "read"]
      /\ UNCHANGED <<projectFile, apps, clientBuilds, letGo>>
  BY DEF StartCommand, At
<1>2. spent' \in [commands : 0 .. MaxCommands, outside : 0 .. MaxOutside]
  BY ClientTyped, ClientAssumption DEF StartCommand
<1>3. Idle \in ClientCommand /\ Idle.app = NoApp /\ Idle.report = "none" /\ Idle.tries = 0
  BY ClientAssumption DEF Idle, ClientCommand, Steps, Project, NoApp
<1>4. /\ command' \in ClientCommand /\ command'.step = "read" /\ command'.kind = kind /\ command'.env = env
      /\ command'.project = projectFile /\ command'.app = NoApp /\ command'.report = "none" /\ command'.tries = 0
  <2>1. projectFile \in Project
    BY ClientTyped
  <2> QED
    BY <1>1, <1>3, <2>1 DEF ClientCommand, Steps
<1>5. KindFits'
  BY <1>1, <1>4 DEF KindFits, Building, Releasing, Removing, EnvFits
<1>6. AppFits' /\ BuildFits' /\ LogIsShown'
  BY <1>1, <1>4 DEF ClientInv, AppFits, BuildFits, LogIsShown, Releasing, Removing
<1> QED
  BY <1>1, <1>2, <1>4, <1>5, <1>6, Continues DEF At

\* A build that was applied is one of those released.
LEMMA AppliedIsBuild ==
  ASSUME ClientTypeOK, NEW a \in DOMAIN apps
  PROVE  AppliedBuild(a) \in Nat
<1> DEFINE ok == {g \in DOMAIN apps[a].rolls : apps[a].rolls[g].outcome = "ok"}
<1>1. apps[a].rolls \in Seq(Rollout)
  BY AppIs
<1>2. CASE ok = {}
  BY <1>2 DEF AppliedBuild, Placeholder
<1>3. CASE ok # {}
  <2>1. PICK n \in Nat : DOMAIN apps[a].rolls = 1 .. n
    BY <1>1
  <2>2. ok \in SUBSET (1 .. n)
    BY <2>1
  <2> HIDE DEF ok
  <2>3. \E g \in ok : \A f \in ok : f <= g
    BY <1>3, <2>1, <2>2, HasGreatest
  <2>4. PICK g : g = CHOOSE h \in ok : \A f \in ok : f <= h
    OBVIOUS
  <2>5. g \in ok
    BY <2>3, <2>4
  <2>6. apps[a].rolls[g] \in Rollout
    BY <1>1, <2>1, <2>2, <2>5
  <2> QED
    BY <1>3, <2>4, <2>6 DEF AppliedBuild, Rollout, ok
<1> QED
  BY <1>2, <1>3

LEMMA KeepsReadDeployment ==
  ASSUME ClientInv, ReadDeployment
  PROVE  ClientInv'
<1>1. /\ command.step = "read" /\ command.kind # "delete" /\ UNCHANGED <<projectFile, apps, clientBuilds, letGo, spent>>
      /\ ~At("record") /\ command.project = projectFile /\ command.report = "none" /\ command.app = NoApp /\ command.kind \in {"deploy", "roll"}
  BY ClientTyped DEF ReadDeployment, At, KindFits, AppFits, ClientCommand
<1>2. CASE Fail
  BY <1>1, <1>2, KeepsFail
<1>3. CASE Goto("values") /\ command.kind # "roll"
  <2>1. "values" \in Steps
    BY DEF Steps
  <2>2. KindFits'
    BY <1>1, <1>3, <2>1, GotoIs, ClientTyped DEF KindFits, Building, Releasing, Removing, ClientCommand
  <2>3. AppFits' /\ BuildFits' /\ LogIsShown'
    BY <1>1, <1>3, <2>1, GotoIs, ClientTyped DEF AppFits, BuildFits, LogIsShown, Releasing, Removing
  <2> QED
    BY <1>1, <1>3, <2>1, <2>2, <2>3, GotoIs, ClientTyped, Continues
<1>4. CASE ~Fail /\ ~(Goto("values") /\ command.kind # "roll")
  <2>1. PICK a : a = command.project.app
    OBVIOUS
  <2>2. /\ a # NoApp /\ Readable(command.env, a)
        /\ command' = [command EXCEPT !.step = "values", !.app = a, !.settled = Settled(a),
                          !.build = IF command.kind = "roll" THEN AppliedBuild(a) ELSE 0]
    BY <1>4, <2>1 DEF ReadDeployment
  <2>3. a \in DOMAIN apps /\ a \in 0 .. MaxApps
    BY <1>1, <2>1, <2>2, ClientTyped DEF FileFits, Project
  <2>4. PICK settled \in BOOLEAN : settled = Settled(a)
    BY DEF Settled
  <2>5. PICK b \in Nat : b = IF command.kind = "roll" THEN AppliedBuild(a) ELSE 0
    BY <2>3, AppliedIsBuild, ClientTyped
  <2>6. command' = [command EXCEPT !.step = "values", !.app = a, !.settled = settled, !.build = b]
    BY <2>2, <2>4, <2>5
  <2>7. /\ command' \in ClientCommand /\ command'.step = "values" /\ command'.app = a /\ command'.kind = command.kind
        /\ command'.project = projectFile /\ command'.report = "none" /\ command'.tries = command.tries
    BY <1>1, <2>3, <2>4, <2>5, <2>6, ClientTyped DEF ClientCommand, Steps
  <2>8. KindFits'
    BY <1>1, <2>7, ClientTyped DEF KindFits, Building, Releasing, Removing, ClientCommand
  <2>9. AppFits' /\ BuildFits' /\ LogIsShown'
    BY <1>1, <2>2, <2>3, <2>7, ClientTyped DEF AppFits, BuildFits, LogIsShown, Releasing, Removing
  <2> QED
    BY <1>1, <2>7, <2>8, <2>9, ClientTyped, Continues
<1> QED
  BY <1>2, <1>3, <1>4

LEMMA AfterIs ==
  ASSUME ClientInv, command.step = "values"
  PROVE  /\ AfterValues \in Steps /\ AfterValues \in {"create", "settle", "upload"}
         /\ AfterValues = "create" <=> command.app = NoApp
         /\ AfterValues \in {"create", "upload"} => command.kind = "deploy"
         /\ AfterValues = "settle" => command.kind = "roll"
  BY ClientTyped DEF AfterValues, Steps, AppFits, KindFits

LEMMA KeepsSettleValues ==
  ASSUME ClientInv, SettleValues
  PROVE  ClientInv'
<1>1. /\ command.step = "values" /\ UNCHANGED <<apps, clientBuilds, letGo, spent>> /\ ~At("record")
      /\ command.project = projectFile /\ command.project \in Project
  BY ClientTyped DEF SettleValues, At
<1>2. CASE Fail /\ UNCHANGED projectFile
  BY <1>1, <1>2, KeepsFail
<1>3. CASE ~(Fail /\ UNCHANGED projectFile)
  <2>1. /\ command' \in ClientCommand /\ command'.step = AfterValues /\ command'.project = projectFile'
        /\ projectFile' \in Project /\ projectFile'.app = projectFile.app /\ projectFile'.env = projectFile.env
        /\ projectFile'.host \in Hosts
        /\ command'.app = command.app /\ command'.kind = command.kind /\ command'.report = command.report
        /\ command'.env = command.env /\ command'.tries = command.tries
    <3>1. CASE command.project.host # "none"
      <4>1. Goto(AfterValues) /\ UNCHANGED projectFile
        BY <1>3, <3>1 DEF SettleValues
      <4> QED
        BY <1>1, <3>1, <4>1, AfterIs, GotoIs DEF Project
    <3>2. CASE command.project.host = "none"
      <4>1. PICK h \in Hosts : /\ projectFile' = [command.project EXCEPT !.host = h]
                               /\ command' = [command EXCEPT !.project = projectFile', !.step = AfterValues]
        BY <3>2 DEF SettleValues
      <4>2. projectFile' \in Project /\ projectFile'.app = projectFile.app /\ projectFile'.env = projectFile.env
            /\ projectFile'.host = h
        BY <1>1, <4>1 DEF Project
      <4>3. AfterValues \in Steps
        BY <1>1, AfterIs
      <4> QED
        BY <4>1, <4>2, <4>3, ClientTyped DEF ClientCommand
    <3> QED
      BY <3>1, <3>2
  <2>2. KindFits'
    BY <1>1, <2>1, AfterIs, ClientTyped DEF KindFits, Building, Releasing, Removing
  <2>3. AppFits' /\ BuildFits' /\ LogIsShown'
    BY <1>1, <2>1, AfterIs, ClientTyped DEF AppFits, BuildFits, LogIsShown, Releasing, Removing
  <2> QED
    BY <1>1, <2>1, <2>2, <2>3, ClientTyped, Proceeds
<1> QED
  BY <1>2, <1>3

LEMMA KeepsCreateApp ==
  ASSUME ClientInv, CreateApp
  PROVE  ClientInv'
<1>1. /\ command.step = "create" /\ UNCHANGED <<projectFile, clientBuilds, letGo, spent>> /\ ~At("record")
      /\ command.project = projectFile /\ command.project.host \in Hosts
  BY ClientTyped DEF CreateApp, At, KindFits, Building
<1>2. CASE Fail /\ UNCHANGED apps
  BY <1>1, <1>2, KeepsFail
<1>3. CASE ~(Fail /\ UNCHANGED apps)
  <2> DEFINE app == [env |-> command.env, host |-> command.project.host,
                     rolls |-> <<[build |-> Placeholder, outcome |-> "running"]>>, deletion |-> "no"]
  <2>1. /\ Len(apps) < MaxApps /\ apps' = Append(apps, app)
        /\ command' = [command EXCEPT !.step = "record", !.app = Len(apps) + 1]
    BY <1>3 DEF CreateApp
  <2>2. app \in App /\ app.env = command.env /\ Len(app.rolls) = 1
    <3>1. [build |-> Placeholder, outcome |-> "running"] \in Rollout
      BY DEF Rollout, Placeholder
    <3>2. <<[build |-> Placeholder, outcome |-> "running"]>> \in Seq(Rollout)
      BY <3>1
    <3>3. command.env \in Envs
      BY ClientTyped DEF ClientCommand
    <3> QED
      BY <1>1, <3>2, <3>3 DEF App
  <2> HIDE DEF app
  <2>3. PICK n \in Nat : n = Len(apps) /\ DOMAIN apps = 1 .. n /\ n + 1 <= MaxApps
    BY <2>1, ClientTyped, ClientAssumption
  <2>4. /\ apps' \in Seq(App) /\ Len(apps') = n + 1 /\ DOMAIN apps' = 1 .. (n + 1) /\ apps'[n + 1] = app
        /\ \A a \in 1 .. n : apps'[a] = apps[a]
    BY <2>1, <2>2, <2>3, ClientTyped
  <2>5. /\ command' \in ClientCommand /\ command'.step = "record" /\ command'.app = n + 1 /\ command'.env = command.env
        /\ command'.project = command.project /\ command'.kind = command.kind /\ command'.report = command.report
        /\ command'.tries = command.tries
    <3>1. n + 1 \in 0 .. MaxApps
      BY <2>3, ClientAssumption
    <3> QED
      BY <2>1, <2>3, <3>1, ClientTyped DEF ClientCommand, Steps
  <2>6. ClientTypeOK'
    BY <1>1, <2>3, <2>4, <2>5 DEF ClientInv, ClientTypeOK
  <2>7. FileFits'
    BY <1>1, <2>3, <2>4, <2>5, ClientTyped DEF FileFits, PointerFits, NoApp
  <2>8. KindFits'
    BY <1>1, <2>5, ClientTyped DEF KindFits, Building, Releasing, Removing
  <2>9. AppFits' /\ LogIsShown'
    BY <1>1, <2>2, <2>4, <2>5 DEF AppFits, LogIsShown, Releasing, Removing
  <2>10. BuildFits'
    <3>1. ASSUME NEW a \in DOMAIN apps' PROVE Len(apps'[a].rolls) >= 1
      <4>1. CASE a = n + 1
        <5>1. apps'[a] = app
          BY <2>4, <4>1
        <5>2. Len(apps'[a].rolls) = 1
          <6>1. Len(app.rolls) = 1
            BY <2>2
          <6> QED
            BY <5>1, <6>1, Zenon
        <5> QED
          BY <5>2
      <4>2. CASE a # n + 1
        <5>1. a \in 1 .. n
          BY <2>3, <2>4, <4>2
        <5> QED
          BY <2>3, <2>4, <5>1, ClientTyped DEF BuildFits
      <4> QED
        BY <4>1, <4>2
    <3> QED
      BY <2>5, <3>1 DEF BuildFits
  <2>11. NothingStranded'
    <3>1. ASSUME NEW a \in DOMAIN apps'
          PROVE  projectFile'.app = a \/ apps'[a].deletion # "no" \/ a \in letGo' \/ (command'.step = "record" /\ command'.app = a)
      <4>1. CASE a = n + 1
        BY <2>5, <4>1
      <4>2. CASE a # n + 1
        <5>1. a \in 1 .. n
          BY <2>3, <2>4, <4>2
        <5> QED
          BY <1>1, <2>3, <2>4, <5>1 DEF ClientInv, NothingStranded, At
      <4> QED
        BY <4>1, <4>2
    <3> QED
      BY <3>1 DEF NothingStranded, At
  <2>12. ArchivesAreWhole'
    BY <1>1 DEF ClientInv, ArchivesAreWhole
  <2> QED
    BY <2>6, <2>7, <2>8, <2>9, <2>10, <2>11, <2>12 DEF ClientInv
<1> QED
  BY <1>2, <1>3

LEMMA KeepsRecord ==
  ASSUME ClientInv, RecordDeployment
  PROVE  ClientInv'
<1>1. /\ command.step = "record" /\ UNCHANGED <<apps, clientBuilds, spent>>
      /\ command.project = projectFile /\ command.project.host \in Hosts
      /\ command.app \in DOMAIN apps /\ apps[command.app].env = command.env
      /\ command.kind = "deploy" /\ command.report = "none" /\ command.tries \in {0, 1}
  BY ClientTyped DEF RecordDeployment, At, KindFits, AppFits, Building
<1>2. /\ projectFile' = [command.project EXCEPT !.app = command.app, !.env = command.env]
      /\ letGo' = letGo \union ({projectFile.app} \ {NoApp})
      /\ command' = [command EXCEPT !.project = projectFile', !.step = "upload"]
  BY DEF RecordDeployment
<1>3. projectFile' \in Project /\ projectFile'.app = command.app /\ projectFile'.env = command.env
      /\ projectFile'.host = command.project.host
  BY <1>2, ClientTyped DEF ClientCommand, Project
<1>4. /\ command' \in ClientCommand /\ command'.step = "upload" /\ command'.project = projectFile'
      /\ command'.app = command.app /\ command'.kind = command.kind /\ command'.report = command.report
      /\ command'.tries = command.tries
  BY <1>2, <1>3, ClientTyped DEF ClientCommand, Steps
<1>5. letGo' \subseteq 1 .. MaxApps
  <2>1. projectFile.app \in 0 .. MaxApps /\ letGo \subseteq 1 .. MaxApps
    BY ClientTyped DEF Project, ClientTypeOK
  <2> QED
    BY <1>2, <2>1, ClientAssumption DEF NoApp
<1>6. ClientTypeOK'
  BY <1>1, <1>3, <1>4, <1>5 DEF ClientInv, ClientTypeOK
<1>7. FileFits'
  BY <1>1, <1>3, <1>4 DEF FileFits, PointerFits
<1>8. KindFits'
  BY <1>1, <1>3, <1>4 DEF KindFits, Building, Releasing, Removing
<1>9. AppFits' /\ BuildFits' /\ LogIsShown'
  BY <1>1, <1>4, ClientTyped DEF AppFits, BuildFits, LogIsShown, Releasing, Removing
<1>10. NothingStranded'
  <2>1. ASSUME NEW a \in DOMAIN apps PROVE projectFile'.app = a \/ apps[a].deletion # "no" \/ a \in letGo'
    <3>1. a # NoApp
      BY ClientTyped DEF NoApp
    <3> QED
      BY <1>1, <1>2, <1>3, <3>1 DEF ClientInv, NothingStranded, At
  <2> QED
    BY <1>1, <2>1 DEF NothingStranded
<1>11. ArchivesAreWhole'
  BY <1>1 DEF ClientInv, ArchivesAreWhole
<1> QED
  BY <1>6, <1>7, <1>8, <1>9, <1>10, <1>11 DEF ClientInv

\* A command that changes a deployment, and goes on.
LEMMA Advances ==
  ASSUME ClientInv, AppsGoOn, UNCHANGED <<projectFile, clientBuilds, letGo, spent>>, ~At("record"),
         command' \in ClientCommand, command'.project = projectFile, KindFits', AppFits', LogIsShown',
         command'.kind = "deploy" /\ command'.step \in {"settle", "put", "rollout"} =>
           command'.build \in DOMAIN clientBuilds /\ clientBuilds[command'.build].status = "succeeded",
         command'.step # "follow",
         command'.step = "rollout" =>
           /\ command'.generation \in DOMAIN apps'[command'.app].rolls
           /\ apps'[command'.app].rolls[command'.generation].build = command'.build
  PROVE  ClientInv'
<1>1. /\ ClientTypeOK /\ FileFits /\ BuildFits /\ NothingStranded
      /\ apps \in Seq(App) /\ apps' \in Seq(App) /\ DOMAIN apps' = DOMAIN apps /\ Len(apps') = Len(apps)
      /\ \A a \in DOMAIN apps : AppGoesOn(a)
  BY DEF ClientInv, AppsGoOn, ClientTypeOK
<1>2. ClientTypeOK'
  BY <1>1 DEF ClientTypeOK
<1>3. FileFits'
  BY <1>1 DEF FileFits, PointerFits, AppGoesOn, NoApp
<1>4. BuildFits'
  <2>1. ASSUME NEW a \in DOMAIN apps PROVE Len(apps'[a].rolls) >= 1
    <3>1. apps[a].rolls \in Seq(Rollout) /\ apps'[a] \in App
      BY <1>1, AppIs
    <3>2. Len(apps[a].rolls) \in Nat /\ Len(apps'[a].rolls) \in Nat /\ Len(apps[a].rolls) >= 1
      BY <1>1, <3>1 DEF BuildFits, App
    <3> QED
      BY <1>1, <3>2 DEF AppGoesOn
  <2> QED
    BY <1>1, <2>1 DEF BuildFits
<1>5. NothingStranded'
  BY <1>1 DEF NothingStranded, AppGoesOn, At
<1>6. ArchivesAreWhole'
  BY DEF ClientInv, ArchivesAreWhole
<1> QED
  BY <1>2, <1>3, <1>4, <1>5, <1>6 DEF ClientInv

LEMMA KeepsMintSlot ==
  ASSUME ClientInv, MintSlot
  PROVE  ClientInv'
<1>1. /\ command.step = "upload" /\ UNCHANGED <<projectFile, apps, clientBuilds, letGo, spent>> /\ ~At("record")
      /\ command' = [command EXCEPT !.step = "submit", !.tries = @ + 1] /\ command.tries \in {0, 1}
  BY ClientTyped DEF MintSlot, At, KindFits
<1>2. command.tries + 1 \in 0 .. 2
  BY <1>1
<1>3. /\ command' \in ClientCommand /\ command'.step = "submit" /\ command'.project = command.project
      /\ command'.app = command.app /\ command'.kind = command.kind /\ command'.report = command.report
  BY <1>1, <1>2, ClientTyped DEF ClientCommand, Steps
<1>4. KindFits'
  BY <1>1, <1>3, ClientTyped DEF KindFits, Building, Releasing, Removing
<1>5. AppFits' /\ BuildFits' /\ LogIsShown'
  BY <1>1, <1>3, ClientTyped DEF AppFits, BuildFits, LogIsShown, Releasing, Removing
<1> QED
  BY <1>1, <1>3, <1>4, <1>5, ClientTyped, Continues

LEMMA KeepsSubmit ==
  ASSUME ClientInv, SubmitArchive
  PROVE  ClientInv'
<1>1. /\ command.step = "submit" /\ UNCHANGED <<projectFile, apps, letGo, spent>> /\ ~At("record")
      /\ command.kind = "deploy" /\ command.app \in DOMAIN apps /\ command.project.host \in Hosts /\ command.report = "none"
  BY ClientTyped DEF SubmitArchive, At, KindFits, AppFits, Building, Releasing
<1>2. CASE Fail /\ UNCHANGED clientBuilds
  BY <1>1, <1>2, KeepsFail
<1>3. CASE /\ command.tries = 1 /\ UNCHANGED clientBuilds
           /\ \E n \in 0 .. ArchiveSize : command' = [command EXCEPT !.step = "upload", !.reader = n]
  <2>1. /\ command' \in ClientCommand /\ command'.step = "upload" /\ command'.project = command.project
        /\ command'.app = command.app /\ command'.kind = command.kind /\ command'.report = command.report
        /\ command'.tries = 1
    <3>1. PICK n \in 0 .. ArchiveSize : command' = [command EXCEPT !.step = "upload", !.reader = n]
      BY <1>3
    <3> QED
      BY <1>3, <3>1, ClientTyped DEF ClientCommand, Steps
  <2>2. KindFits'
    BY <1>1, <2>1 DEF KindFits, Building, Releasing, Removing
  <2>3. AppFits' /\ BuildFits' /\ LogIsShown'
    BY <1>1, <1>3, <2>1, ClientTyped DEF AppFits, BuildFits, LogIsShown, Releasing, Removing
  <2> QED
    BY <1>1, <1>3, <2>1, <2>2, <2>3, ClientTyped, Continues
<1>4. CASE /\ clientBuilds' = Append(clientBuilds, [app |-> command.app, status |-> "open",
                              log |-> 0, archive |-> ArchiveSize - 0])
           /\ command' = [command EXCEPT !.step = "follow", !.reader = 0, !.tries = 0, !.build = Len(clientBuilds) + 1]
  <2> DEFINE current == [app |-> command.app, status |-> "open", log |-> 0, archive |-> ArchiveSize - 0]
  <2>1. PICK n \in Nat : n = Len(clientBuilds) /\ DOMAIN clientBuilds = 1 .. n
    BY ClientTyped
  <2>2. current \in ClientBuild /\ current.archive = ArchiveSize
    <3>1. ArchiveSize - 0 = ArchiveSize /\ ArchiveSize \in 0 .. ArchiveSize /\ 0 \in 0 .. LogSize
      BY ClientAssumption
    <3>2. command.app \in 1 .. MaxApps
      BY <1>1, ClientTyped, ClientAssumption DEF ClientTypeOK
    <3> QED
      BY <3>1, <3>2 DEF ClientBuild
  <2>3. clientBuilds' = Append(clientBuilds, current)
    BY <1>4
  <2> HIDE DEF current
  <2>4. /\ clientBuilds' \in Seq(ClientBuild) /\ DOMAIN clientBuilds' = 1 .. (n + 1) /\ clientBuilds'[n + 1] = current
        /\ \A b \in 1 .. n : clientBuilds'[b] = clientBuilds[b]
    BY <2>1, <2>2, <2>3, ClientTyped
  <2>5. /\ command' \in ClientCommand /\ command'.step = "follow" /\ command'.project = command.project
        /\ command'.app = command.app /\ command'.kind = command.kind /\ command'.report = command.report
        /\ command'.build = n + 1
    <3>1. 0 \in 0 .. ArchiveSize /\ 0 \in 0 .. 2 /\ n + 1 \in Nat
      BY <2>1, ClientAssumption
    <3> QED
      BY <1>4, <2>1, <3>1, ClientTyped DEF ClientCommand, Steps
  <2>6. ClientTypeOK'
    BY <1>1, <2>4, <2>5 DEF ClientInv, ClientTypeOK
  <2>7. FileFits' /\ KindFits'
    BY <1>1, <2>5, ClientTyped DEF FileFits, PointerFits, KindFits, Building, Releasing, Removing
  <2>8. AppFits' /\ LogIsShown'
    BY <1>1, <2>5, ClientTyped DEF AppFits, LogIsShown, Releasing, Removing
  <2>9. BuildFits'
    <3>1. n + 1 \in DOMAIN clientBuilds'
      BY <2>1, <2>4
    <3> QED
      BY <1>1, <2>5, <3>1, ClientTyped DEF BuildFits
  <2>10. NothingStranded'
    BY <1>1, <2>5 DEF ClientInv, NothingStranded, At
  <2>11. ArchivesAreWhole'
    <3>1. ASSUME NEW b \in DOMAIN clientBuilds' PROVE clientBuilds'[b].archive = ArchiveSize
      <4>1. CASE b = n + 1
        BY <2>2, <2>4, <4>1
      <4>2. CASE b # n + 1
        <5>1. b \in 1 .. n
          BY <2>1, <2>4, <4>2
        <5> QED
          BY <2>1, <2>4, <5>1 DEF ClientInv, ArchivesAreWhole
      <4> QED
        BY <4>1, <4>2
    <3> QED
      BY <3>1 DEF ArchivesAreWhole
  <2> QED
    BY <2>6, <2>7, <2>8, <2>9, <2>10, <2>11 DEF ClientInv
<1> QED
  BY <1>2, <1>3, <1>4 DEF SubmitArchive, Rewound, Fail

LEMMA KeepsFollowBuild ==
  ASSUME ClientInv, FollowBuild
  PROVE  ClientInv'
<1>1. /\ command.step = "follow" /\ UNCHANGED <<projectFile, apps, clientBuilds, letGo, spent>> /\ ~At("record")
      /\ command.build \in DOMAIN clientBuilds /\ command.kind = "deploy"
  BY ClientTyped DEF FollowBuild, At, KindFits, BuildFits, Building
<1>2. CASE Fail
  BY <1>1, <1>2, KeepsFail
<1>3. CASE ~Fail
  <2>1. PICK current \in ClientBuild : current = clientBuilds[command.build]
    BY <1>1, ClientTyped
  <2>2. PICK step \in {"settle", "follow"} : /\ (step = "settle") <=> current.status = "succeeded"
                                            /\ command' = [command EXCEPT !.printed = current.log, !.step = step]
    BY <1>3, <2>1 DEF FollowBuild, Fail
  <2>3. /\ command' \in ClientCommand /\ command'.step = step /\ command'.project = command.project
        /\ command'.app = command.app /\ command'.kind = command.kind /\ command'.report = command.report
        /\ command'.build = command.build /\ command'.printed = current.log
    BY <2>1, <2>2, ClientTyped DEF ClientCommand, ClientBuild, Steps
  <2>4. KindFits'
    BY <1>1, <2>2, <2>3, ClientTyped DEF KindFits, Building, Releasing, Removing
  <2>5. AppFits' /\ BuildFits' /\ LogIsShown'
    BY <1>1, <2>1, <2>2, <2>3, ClientTyped DEF AppFits, BuildFits, LogIsShown, Releasing, Removing
  <2> QED
    BY <1>1, <2>2, <2>3, <2>4, <2>5, ClientTyped, Continues
<1> QED
  BY <1>2, <1>3

LEMMA KeepsWaitSettled ==
  ASSUME ClientInv, WaitUntilSettled
  PROVE  ClientInv'
<1>1. /\ command.step = "settle" /\ UNCHANGED <<projectFile, apps, clientBuilds, letGo, spent>> /\ ~At("record")
      /\ Fail \/ Goto("put")
  BY DEF WaitUntilSettled, At
<1>2. CASE Fail
  BY <1>1, <1>2, KeepsFail
<1>3. CASE Goto("put")
  <2>1. "put" \in Steps
    BY DEF Steps
  <2>2. KindFits'
    BY <1>1, <1>3, <2>1, GotoIs, ClientTyped DEF KindFits, Building, Releasing, Removing
  <2>3. AppFits' /\ BuildFits' /\ LogIsShown'
    BY <1>1, <1>3, <2>1, GotoIs, ClientTyped DEF AppFits, BuildFits, LogIsShown, Releasing, Removing
  <2> QED
    BY <1>1, <1>3, <2>1, <2>2, <2>3, GotoIs, ClientTyped, Continues
<1> QED
  BY <1>1, <1>2, <1>3

LEMMA KeepsPut ==
  ASSUME ClientInv, PutRelease
  PROVE  ClientInv'
<1>1. /\ command.step = "put" /\ UNCHANGED <<projectFile, clientBuilds, letGo, spent>> /\ ~At("record")
      /\ command.app \in DOMAIN apps /\ command.project = projectFile /\ command.project.host \in Hosts
      /\ command.kind \in {"deploy", "roll"} /\ command.report = "none" /\ command.build \in Nat
  BY ClientTyped DEF PutRelease, At, KindFits, AppFits, Building, Releasing, ClientCommand
<1>2. CASE Fail /\ UNCHANGED apps
  BY <1>1, <1>2, KeepsFail
<1>3. CASE /\ apps' = Updated(command.app, command.project.host, command.build)
           /\ command' = [command EXCEPT !.step = "rollout", !.generation = Generation(command.app) + 1]
  <2>1. /\ AppsGoOn /\ Generation(command.app) + 1 \in DOMAIN apps'[command.app].rolls
        /\ apps'[command.app].rolls[Generation(command.app) + 1].build = command.build
    BY <1>1, <1>3, UpdateGoesOn, ClientTyped
  <2>2. PICK n \in Nat : n = Generation(command.app) + 1
    <3>1. apps[command.app].rolls \in Seq(Rollout)
      BY <1>1, AppIs, ClientTyped
    <3> QED
      BY <3>1 DEF Generation
  <2>3. /\ command' \in ClientCommand /\ command'.step = "rollout" /\ command'.project = command.project
        /\ command'.app = command.app /\ command'.kind = command.kind /\ command'.report = command.report
        /\ command'.build = command.build /\ command'.printed = command.printed /\ command'.generation = n
    BY <1>3, <2>2, ClientTyped DEF ClientCommand, Steps
  <2>4. KindFits'
    BY <1>1, <2>3 DEF KindFits, Building, Releasing, Removing
  <2>5. AppFits'
    BY <1>1, <2>1, <2>3 DEF AppFits, Releasing, Removing, AppsGoOn
  <2>6. LogIsShown'
    BY <1>1, <2>3, ClientTyped DEF LogIsShown
  <2>7. command'.kind = "deploy" => command'.build \in DOMAIN clientBuilds /\ clientBuilds[command'.build].status = "succeeded"
    BY <1>1, <2>3, ClientTyped DEF BuildFits
  <2> QED
    BY <1>1, <2>1, <2>2, <2>3, <2>4, <2>5, <2>6, <2>7, Advances
<1> QED
  BY <1>2, <1>3 DEF PutRelease

LEMMA KeepsFollowRollout ==
  ASSUME ClientInv, FollowRollout
  PROVE  ClientInv'
<1>1. command.step = "rollout" /\ UNCHANGED <<projectFile, apps, clientBuilds, letGo, spent>> /\ ~At("record")
  BY DEF FollowRollout, At
<1>2. command' \in {Idle, [Idle EXCEPT !.report = "live"]}
  BY DEF FollowRollout, Fail
<1> QED
  BY <1>1, <1>2, Ends

\* What is announced is the command's own release, or a later one.
LEMMA AnnouncesLive ==
  ASSUME ClientInv, ClientNext, command.step = "rollout", command'.report = "live"
  PROVE  LET app == apps[command.app] IN
           \/ Len(app.rolls) > command.generation
           \/ app.rolls[command.generation] = [build |-> command.build, outcome |-> "ok"]
<1>1. command.report = "none" /\ command.app \in DOMAIN apps
  BY ClientTyped DEF KindFits, AppFits, Releasing
<1>2. command' # command /\ command' # Idle
  BY <1>1 DEF Idle
<1>3. FollowRollout /\ command' = [Idle EXCEPT !.report = "live"]
  <2>1. ~Interrupt
    BY <1>2 DEF Interrupt, Fail
  <2>2. FollowRollout
    BY <1>2, <2>1 DEF ClientNext, Reconcile, SomebodyElse, BuildProceeds, EditFile, InitForce, StartCommand, ReadDeployment, SettleValues,
       CreateApp, RecordDeployment, MintSlot, SubmitArchive, FollowBuild, WaitUntilSettled, PutRelease,
       ReadForDeletion, Confirm, RequestDeletion, Forget, WaitUntilGone, At
  <2> QED
    BY <1>2, <2>2 DEF FollowRollout, Fail
<1>4. PICK n \in Nat : n = Len(apps[command.app].rolls) /\ DOMAIN apps[command.app].rolls = 1 .. n
  <2>1. apps[command.app].rolls \in Seq(Rollout)
    BY <1>1, AppIs, ClientTyped
  <2> QED
    BY <2>1
<1>5. /\ command.generation \in 1 .. n /\ apps[command.app].rolls[command.generation].build = command.build
  BY <1>4, ClientTyped DEF BuildFits
<1>6. Settled(command.app) /\ Latest(command.app).outcome # "failed"
  BY <1>2, <1>3 DEF FollowRollout, Fail
<1>7. CASE n > command.generation
  BY <1>4, <1>7
<1>8. CASE n = command.generation
  <2>1. apps[command.app].rolls[n] \in Rollout
    <3>1. apps[command.app].rolls \in Seq(Rollout)
      BY <1>1, AppIs, ClientTyped
    <3> QED
      BY <1>4, <1>5, <3>1
  <2>2. apps[command.app].rolls[n].outcome = "ok"
    BY <1>4, <1>6, <2>1 DEF Settled, Latest, Generation, Rollout
  <2> QED
    BY <1>5, <1>8, <2>1, <2>2 DEF Rollout
<1> QED
  BY <1>4, <1>5, <1>7, <1>8

LEMMA KeepsReadForDeletion ==
  ASSUME ClientInv, ReadForDeletion
  PROVE  ClientInv'
<1>1. /\ command.step = "read" /\ command.kind = "delete" /\ UNCHANGED <<projectFile, apps, clientBuilds, letGo, spent>>
      /\ ~At("record") /\ command.project = projectFile /\ command.report = "none"
      /\ projectFile.app # NoApp /\ command.env = projectFile.env /\ projectFile.app \in DOMAIN apps
      /\ apps[projectFile.app].env = command.env
  BY ClientTyped DEF ReadForDeletion, At, KindFits, FileFits, PointerFits
<1>2. PICK step \in {"forget", "confirm"} :
        /\ command' = [command EXCEPT !.app = projectFile.app, !.step = step]
        /\ step = "forget" => ~Readable(command.env, projectFile.app) \/ apps[projectFile.app].deletion = "asked"
  BY <1>1 DEF ReadForDeletion
<1>3. projectFile.app \in 0 .. MaxApps
  BY ClientTyped DEF Project
<1>4. /\ command' \in ClientCommand /\ command'.step = step /\ command'.project = command.project
      /\ command'.app = projectFile.app /\ command'.kind = "delete" /\ command'.report = "none" /\ command'.env = command.env
  BY <1>1, <1>2, <1>3, ClientTyped DEF ClientCommand, Steps
<1>5. KindFits'
  BY <1>4 DEF KindFits, Building, Releasing, Removing
<1>6. step = "forget" => apps[projectFile.app].deletion # "no"
  BY <1>1, <1>2, ClientTyped
<1>7. AppFits' /\ BuildFits' /\ LogIsShown'
  BY <1>1, <1>4, <1>6, ClientTyped DEF AppFits, BuildFits, LogIsShown, Releasing, Removing
<1> QED
  BY <1>1, <1>4, <1>5, <1>7, ClientTyped, Continues

LEMMA RemovingIs ==
  ASSUME ClientInv, command.step \in {"confirm", "request", "forget"}
  PROVE  /\ command.kind = "delete" /\ command.project = projectFile /\ command.report = "none"
         /\ command.app \in DOMAIN apps /\ command.app = projectFile.app /\ command.env = projectFile.env
         /\ apps[command.app].env = command.env /\ ~At("record")
  BY ClientTyped DEF KindFits, AppFits, Removing, FileFits, PointerFits, At, NoApp

LEMMA KeepsGoingOn ==
  ASSUME ClientInv, UNCHANGED <<projectFile, apps, clientBuilds, letGo, spent>>,
         command.step \in {"confirm", "request"}, NEW step \in {"request", "forget"}, Goto(step),
         step = "forget" => apps[command.app].deletion # "no"
  PROVE  ClientInv'
<1>1. step \in Steps
  BY DEF Steps
<1>2. KindFits'
  BY <1>1, GotoIs, RemovingIs DEF KindFits, Building, Releasing, Removing
<1>3. AppFits' /\ BuildFits' /\ LogIsShown'
  BY <1>1, GotoIs, RemovingIs, ClientTyped DEF AppFits, BuildFits, LogIsShown, Releasing, Removing
<1> QED
  BY <1>1, <1>2, <1>3, GotoIs, RemovingIs, ClientTyped, Continues

LEMMA KeepsRequestDeletion ==
  ASSUME ClientInv, RequestDeletion
  PROVE  ClientInv'
<1>1. command.step = "request" /\ UNCHANGED <<projectFile, clientBuilds, letGo, spent>>
  BY DEF RequestDeletion, At
<1>2. CASE Fail /\ UNCHANGED apps
  BY <1>1, <1>2, RemovingIs, KeepsFail
<1>3. CASE /\ ~Readable(command.env, command.app) \/ apps[command.app].deletion = "asked"
           /\ Goto("forget") /\ UNCHANGED apps
  <2>1. apps[command.app].deletion # "no"
    BY <1>1, <1>3, RemovingIs, ClientTyped
  <2> QED
    BY <1>1, <1>3, <2>1, KeepsGoingOn
<1>4. CASE apps' = [apps EXCEPT ![command.app].deletion = "asked"] /\ Goto("forget")
  <2>1. AppsGoOn /\ apps'[command.app].deletion # "no"
    BY <1>1, <1>4, RemovingIs, DeletionGoesOn, ClientTyped
  <2>2. "forget" \in Steps
    BY DEF Steps
  <2>3. KindFits'
    BY <1>1, <1>4, <2>2, GotoIs, RemovingIs DEF KindFits, Building, Releasing, Removing
  <2>4. AppFits' /\ LogIsShown'
    BY <1>1, <1>4, <2>1, <2>2, GotoIs, RemovingIs DEF AppFits, LogIsShown, Releasing, Removing, AppsGoOn
  <2> QED
    BY <1>1, <1>4, <2>1, <2>2, <2>3, <2>4, GotoIs, RemovingIs, Advances
<1> QED
  BY <1>2, <1>3, <1>4 DEF RequestDeletion

LEMMA KeepsForget ==
  ASSUME ClientInv, Forget
  PROVE  ClientInv'
<1>1. /\ command.step = "forget" /\ UNCHANGED <<apps, clientBuilds, letGo, spent>> /\ Goto("gone")
      /\ projectFile' = [projectFile EXCEPT !.app = NoApp]
  BY RemovingIs DEF Forget, At
<1>2. "gone" \in Steps
  BY DEF Steps
<1>3. /\ command' \in ClientCommand /\ command'.step = "gone" /\ command'.kind = "delete" /\ command'.app = command.app
      /\ command'.report = "none"
  BY <1>1, <1>2, GotoIs, RemovingIs
<1>4. projectFile' \in Project /\ projectFile'.app = NoApp
  BY <1>1, ClientTyped, ClientAssumption DEF Project, NoApp
<1>5. ClientTypeOK' /\ FileFits'
  BY <1>1, <1>3, <1>4 DEF ClientInv, ClientTypeOK, FileFits, PointerFits
<1>6. KindFits'
  BY <1>3 DEF KindFits, Building, Releasing, Removing
<1>7. AppFits' /\ BuildFits' /\ LogIsShown'
  BY <1>1, <1>3, RemovingIs, ClientTyped DEF AppFits, BuildFits, LogIsShown, Releasing, Removing
<1>8. NothingStranded'
  <2>1. apps[projectFile.app].deletion # "no"
    BY <1>1, RemovingIs, ClientTyped DEF AppFits
  <2> QED
    BY <1>1, <2>1 DEF ClientInv, NothingStranded, At
<1>9. ArchivesAreWhole'
  BY <1>1 DEF ClientInv, ArchivesAreWhole
<1> QED
  BY <1>5, <1>6, <1>7, <1>8, <1>9 DEF ClientInv

LEMMA KeepsInterruptions ==
  ASSUME ClientInv, Interrupt \/ WaitUntilGone
  PROVE  ClientInv'
  BY Ends DEF Interrupt, WaitUntilGone, Fail, At

LEMMA ClientStep ==
  ASSUME ClientInv, [ClientNext]_clientVars
  PROVE  ClientInv'
<1>1. CASE UNCHANGED clientVars
  <2>1. UNCHANGED <<projectFile, apps, clientBuilds, command, letGo, spent>>
    BY <1>1 DEF clientVars
  <2> QED
    BY <2>1 DEF ClientInv, ClientTypeOK, FileFits, PointerFits, KindFits, AppFits, BuildFits, NothingStranded,
       ArchivesAreWhole, LogIsShown, At
<1>2. CASE Confirm
  <2>1. command.step = "confirm" /\ Goto("request") /\ UNCHANGED <<projectFile, apps, clientBuilds, letGo, spent>>
    BY <1>2 DEF Confirm, At
  <2> QED
    BY <2>1, KeepsGoingOn
<1>3. CASE ClientNext /\ ~Confirm
  BY <1>3, KeepsWorld, KeepsBuild, KeepsFile, KeepsStart, KeepsReadDeployment, KeepsSettleValues, KeepsCreateApp, KeepsRecord,
     KeepsMintSlot, KeepsSubmit, KeepsFollowBuild, KeepsWaitSettled, KeepsPut, KeepsFollowRollout,
     KeepsReadForDeletion, KeepsRequestDeletion, KeepsForget, KeepsInterruptions DEF ClientNext
<1> QED
  BY <1>1, <1>2, <1>3

\* Wherever a command is interrupted and whatever others do meanwhile: the
\* pointer is one of its environment, no deployment is lost but in the one known
\* window, what is built is the whole archive, the whole log is shown, and what
\* is announced as live is (deploy.py, project.py).
THEOREM CheckoutStaysSound == ClientSpec => CheckoutHolds
<1>1. ClientInit => ClientInv
  BY ClientStarts
<1>2. ClientInv /\ [ClientNext]_clientVars => ClientInv'
  BY ClientStep
<1>3. ClientInv => ClientTypeOK /\ PointerFits /\ NothingStranded /\ ArchivesAreWhole /\ LogIsShown
  BY DEF ClientInv, FileFits
<1>4. ClientInv /\ [ClientNext]_clientVars =>
        [command.step = "rollout" /\ command'.report = "live" =>
           LET app == apps[command.app] IN
             \/ Len(app.rolls) > command.generation
             \/ app.rolls[command.generation] = [build |-> command.build, outcome |-> "ok"]]_clientVars
  BY AnnouncesLive
<1> QED
  BY <1>1, <1>2, <1>3, <1>4, PTL DEF ClientSpec, CheckoutHolds, AnnouncedIsLive
-----------------------------------------------------------------------------
(* The vars of a deployment, edited concurrently.                           *)

VarRequest == [kind : {"none", "merge", "replace", "update"}, entries : [VarKeys -> Entry],
               chart : ChartValues \union {"none"}, plan : Seq(VarRow), locked : BOOLEAN]

VarsTyped ==
  /\ VarsTypeOK
  /\ state \in {"ready", "provisioning", "deleting"}
  /\ shipped \in Seq([vars : SUBSET Nat, chart : ChartValues])
  /\ request \in [VarWriters -> VarRequest]
  /\ \A w \in VarWriters : request[w].kind # "none" => request[w].chart \in ChartValues

\* The row lock is held by the one request that has planned.
LockFits == \A w \in VarWriters : request[w].locked <=> rowLock = w

\* A plan was made from the head as it is: nobody has written since.
PlansAreFresh ==
  \A w \in VarWriters : request[w].locked =>
    LET r == request[w] IN
    /\ r.kind # "none" /\ r.plan = Changes(rows, r.entries, r.kind = "replace")
    /\ \A k \in VarKeys : Acceptable(rows, k, r.entries[k])
    /\ Agrees(r.chart, Content(rows \o r.plan, HeadOf(rows \o r.plan)))

VarsInv == VarsTyped /\ LockFits /\ PlansAreFresh

\* SetToSeq lists every element of a finite set once.
LEMMA SetToSeqLists ==
  ASSUME NEW S, IsFiniteSet(S)
  PROVE  /\ SetToSeq(S) \in Seq(S)
         /\ \A x \in S : \E n \in DOMAIN SetToSeq(S) : SetToSeq(S)[n] = x
         /\ \A m, n \in DOMAIN SetToSeq(S) : SetToSeq(S)[m] = SetToSeq(S)[n] => m = n
<1> DEFINE N == 1 .. Cardinality(S)
           f == SetToSeq(S)
<1>1. Cardinality(S) \in Nat /\ \E g \in [N -> S] : IsInjective(g)
  BY FS_CardinalityType DEF ExistsBijection, Bijection, Injection
<1>2. f \in [N -> S] /\ IsInjective(f)
  BY <1>1 DEF SetToSeq
<1>3. f \in Seq(S)
  BY <1>1, <1>2
<1>4. f \in Surjection(N, S)
  <2>1. IsFiniteSet(N) /\ Cardinality(N) = Cardinality(S)
    BY <1>1, FS_Interval
  <2>2. f \in Injection(N, S)
    BY <1>2 DEF Injection
  <2> HIDE DEF f, N
  <2> QED
    BY <2>1, <2>2, FS_Injection
<1>5. \A x \in S : \E n \in DOMAIN f : f[n] = x
  BY <1>2, <1>4 DEF Surjection
<1>6. \A m, n \in DOMAIN f : f[m] = f[n] => m = n
  BY <1>2 DEF IsInjective
<1> QED
  BY <1>3, <1>5, <1>6

\* The last row of a key decides what the head has of it.
LEMMA LastRowWins ==
  ASSUME NEW rs \in Seq(VarRow), NEW n \in DOMAIN rs, NEW k \in VarKeys, rs[n].key = k,
         \A m \in DOMAIN rs : rs[m].key = k => m <= n
  PROVE  RowOf(rs, k) = {r \in {rs[n]} : r.value # Gone}
<1>1. \A m \in HeadOf(rs) : rs[m].key = k => m = n
  <2>1. ASSUME NEW m \in HeadOf(rs), rs[m].key = k PROVE m = n
    <3>1. m \in DOMAIN rs /\ m <= n /\ n <= m
      BY <2>1 DEF HeadOf
    <3> QED
      BY <3>1
  <2> QED
    BY <2>1
<1>2. rs[n].value # Gone <=> n \in HeadOf(rs)
  BY DEF HeadOf
<1> QED
  BY <1>1, <1>2 DEF RowOf

\* A key of no row is not in the head.
LEMMA NoRowIsEmpty ==
  ASSUME NEW rs \in Seq(VarRow), NEW k \in VarKeys, \A m \in DOMAIN rs : rs[m].key # k
  PROVE  RowOf(rs, k) = {}
  BY DEF RowOf, HeadOf

\* The head has one row of a key, or none.
LEMMA HeadHasOne ==
  ASSUME NEW rs \in Seq(VarRow), NEW k \in VarKeys
  PROVE  \/ RowOf(rs, k) = {}
         \/ \E r \in VarRow : r.key = k /\ r.value # Gone /\ RowOf(rs, k) = {r}
<1> DEFINE K == {n \in DOMAIN rs : rs[n].key = k}
<1>1. CASE K = {}
  <2>1. \A m \in DOMAIN rs : rs[m].key # k
    BY <1>1
  <2> QED
    BY <2>1, NoRowIsEmpty
<1>2. CASE K # {}
  <2>1. Len(rs) \in Nat /\ DOMAIN rs = 1 .. Len(rs)
    OBVIOUS
  <2>2. K \in SUBSET (1 .. Len(rs))
    BY <2>1
  <2>3. PICK n \in K : \A m \in K : m <= n
    <3> HIDE DEF K
    <3> QED
      BY <1>2, <2>1, <2>2, HasGreatest
  <2>4. RowOf(rs, k) = {r \in {rs[n]} : r.value # Gone}
    BY <2>3, LastRowWins
  <2>5. rs[n] \in VarRow /\ rs[n].key = k
    BY <2>3
  <2> QED
    BY <2>4, <2>5
<1> QED
  BY <1>1, <1>2

\* What a write leaves of a key is one row of that key, or none.
LEMMA OneIsWanted ==
  ASSUME NEW rs \in Seq(VarRow), NEW k \in VarKeys, NEW entry \in Entry, NEW replace \in BOOLEAN
  PROVE  \/ Wanted(rs, k, entry, replace) = {}
         \/ \E r \in VarRow : r.key = k /\ r.value # Gone /\ Wanted(rs, k, entry, replace) = {r}
<1> DEFINE existing == RowOf(rs, k)
<1>1. CASE entry.says \in {"delete", "nothing"}
  BY <1>1, HeadHasOne DEF Wanted
<1>2. Sensitive(k, entry, existing) \in BOOLEAN
  BY VarsAssumption DEF Sensitive
<1>3. CASE entry.says = "keep"
  <2>1. Wanted(rs, k, entry, replace) = {[r EXCEPT !.sensitive = Sensitive(k, entry, existing)] : r \in existing}
    BY <1>3 DEF Wanted
  <2>2. CASE existing = {}
    BY <2>1, <2>2
  <2>3. ASSUME NEW r \in VarRow, r.key = k, r.value # Gone, existing = {r}
        PROVE  \E n \in VarRow : n.key = k /\ n.value # Gone /\ Wanted(rs, k, entry, replace) = {n}
    <3> DEFINE s == Sensitive(k, entry, existing)
               n == [r EXCEPT !.sensitive = s]
    <3>1. s \in BOOLEAN
      BY <1>2
    <3>2. Wanted(rs, k, entry, replace) = {n}
      BY <2>1, <2>3
    <3> HIDE DEF s
    <3>3. n \in VarRow /\ n.key = k /\ n.value # Gone
      BY <2>3, <3>1 DEF VarRow
    <3> QED
      BY <3>2, <3>3
  <2> QED
    BY <2>2, <2>3, HeadHasOne
<1>4. CASE entry.says \notin {"delete", "nothing", "keep"}
  <2> DEFINE s == Sensitive(k, entry, existing)
             n == [key |-> k, value |-> entry.says, sensitive |-> s]
  <2>1. Wanted(rs, k, entry, replace) = {n}
    BY <1>4 DEF Wanted
  <2>2. s \in BOOLEAN
    BY <1>2
  <2>3. entry.says \in VarValues /\ entry.says # Gone
    BY <1>4, VarsAssumption DEF Entry
  <2> HIDE DEF s
  <2>4. n \in VarRow /\ n.key = k /\ n.value # Gone
    BY <2>2, <2>3 DEF VarRow
  <2> QED
    BY <2>1, <2>4
<1> QED
  BY <1>1, <1>3, <1>4

\* A row per key of a finite set, listed: no other row has such a key.
LEMMA RowsOfKeys ==
  ASSUME NEW K \in SUBSET VarKeys, NEW f \in [K -> VarRow], \A k \in K : f[k].key = k
  PROVE  LET s == SetToSeq({f[k] : k \in K}) IN
         /\ s \in Seq(VarRow)
         /\ \A n \in DOMAIN s : s[n].key \in K
         /\ \A k \in K : \E n \in DOMAIN s : /\ s[n] = f[k]
                                             /\ \A m \in DOMAIN s : s[m].key = k => m = n
<1> DEFINE S == {f[k] : k \in K}
           s == SetToSeq(S)
<1>1. IsFiniteSet(K)
  BY VarsAssumption, FS_Subset
<1>2. f \in Surjection(K, S)
  BY DEF Surjection
<1>3. IsFiniteSet(S)
  BY <1>1, <1>2, FS_Surjection
<1>4. S \subseteq VarRow /\ \A x \in S : x.key \in K /\ x = f[x.key]
  OBVIOUS
<1>5. /\ s \in Seq(S)
      /\ \A x \in S : \E n \in DOMAIN s : s[n] = x
      /\ \A m, n \in DOMAIN s : s[m] = s[n] => m = n
  <2> HIDE DEF S
  <2> QED
    BY <1>3, SetToSeqLists
<1>6. \A k \in K : f[k] \in S
  OBVIOUS
<1> HIDE DEF S, s
<1>7. s \in Seq(VarRow) /\ \A n \in DOMAIN s : s[n] \in S
  BY <1>4, <1>5
<1>8. ASSUME NEW k \in K
      PROVE  \E n \in DOMAIN s : s[n] = f[k] /\ \A m \in DOMAIN s : s[m].key = k => m = n
  <2>1. PICK n \in DOMAIN s : s[n] = f[k]
    BY <1>5, <1>6
  <2>2. ASSUME NEW m \in DOMAIN s, s[m].key = k PROVE m = n
    <3>1. s[m] = f[k]
      BY <1>4, <1>7, <2>2
    <3> QED
      BY <1>5, <2>1, <3>1
  <2> QED
    BY <2>1, <2>2
<1>9. \A n \in DOMAIN s : s[n].key \in K
  BY <1>4, <1>7
<1> QED
  BY <1>7, <1>8, <1>9 DEF s, S

\* The rows a write appends make of every key what the write wants of it.
LEMMA ChangesAreExact ==
  ASSUME NEW rs \in Seq(VarRow), NEW entries \in [VarKeys -> Entry], NEW replace \in BOOLEAN
  PROVE  /\ Changes(rs, entries, replace) \in Seq(VarRow)
         /\ \A k \in VarKeys : RowOf(rs \o Changes(rs, entries, replace), k) = Wanted(rs, k, entries[k], replace)
<1> DEFINE wanted(k) == Wanted(rs, k, entries[k], replace)
           set == {k \in VarKeys : wanted(k) # {} /\ wanted(k) # RowOf(rs, k)}
           del == {k \in VarKeys : wanted(k) = {} /\ RowOf(rs, k) # {}}
           row(k) == CHOOSE r \in wanted(k) : TRUE
           stone(k) == [key |-> k, value |-> Gone, sensitive |-> FALSE]
           added == SetToSeq({row(k) : k \in set})
           removed == SetToSeq({stone(k) : k \in del})
           after == rs \o (added \o removed)
<1>1. Changes(rs, entries, replace) = added \o removed
  BY DEF Changes
<1>2. \A k \in VarKeys : \/ wanted(k) = {}
                         \/ \E r \in VarRow : r.key = k /\ r.value # Gone /\ wanted(k) = {r}
  BY OneIsWanted
<1>3. ASSUME NEW k \in set PROVE row(k) \in VarRow /\ row(k).key = k /\ row(k).value # Gone /\ wanted(k) = {row(k)}
  <2>1. PICK r \in VarRow : r.key = k /\ r.value # Gone /\ wanted(k) = {r}
    BY <1>2
  <2> HIDE DEF wanted
  <2>2. row(k) = r
    BY <2>1
  <2> QED
    BY <2>1, <2>2
<1>4. /\ added \in Seq(VarRow)
      /\ \A n \in DOMAIN added : added[n].key \in set
      /\ \A k \in set : \E n \in DOMAIN added : /\ added[n] = row(k)
                                                /\ \A m \in DOMAIN added : added[m].key = k => m = n
  <2> DEFINE f == [k \in set |-> row(k)]
  <2>1. \A k \in set : f[k] = row(k)
    OBVIOUS
  <2>2. {f[k] : k \in set} = {row(k) : k \in set}
    BY <2>1
  <2>3. f \in [set -> VarRow] /\ \A k \in set : f[k].key = k
    BY <1>3
  <2>4. set \in SUBSET VarKeys
    OBVIOUS
  <2> HIDE DEF set, f, row
  <2>5. LET s == SetToSeq({f[k] : k \in set}) IN
         /\ s \in Seq(VarRow)
         /\ \A n \in DOMAIN s : s[n].key \in set
         /\ \A k \in set : \E n \in DOMAIN s : /\ s[n] = f[k]
                                             /\ \A m \in DOMAIN s : s[m].key = k => m = n
    BY <2>3, <2>4, RowsOfKeys
  <2> QED
    BY <2>1, <2>2, <2>5
<1>5. /\ removed \in Seq(VarRow)
      /\ \A n \in DOMAIN removed : removed[n].key \in del
      /\ \A k \in del : \E n \in DOMAIN removed : /\ removed[n] = stone(k)
                                                  /\ \A m \in DOMAIN removed : removed[m].key = k => m = n
  <2> DEFINE f == [k \in del |-> stone(k)]
  <2>1. \A k \in del : f[k] = stone(k)
    OBVIOUS
  <2>2. {f[k] : k \in del} = {stone(k) : k \in del}
    BY <2>1
  <2>3. f \in [del -> VarRow] /\ \A k \in del : f[k].key = k
    BY DEF VarRow
  <2>4. del \in SUBSET VarKeys
    OBVIOUS
  <2> HIDE DEF del, f, stone
  <2>5. LET s == SetToSeq({f[k] : k \in del}) IN
         /\ s \in Seq(VarRow)
         /\ \A n \in DOMAIN s : s[n].key \in del
         /\ \A k \in del : \E n \in DOMAIN s : /\ s[n] = f[k]
                                             /\ \A m \in DOMAIN s : s[m].key = k => m = n
    BY <2>3, <2>4, RowsOfKeys
  <2> QED
    BY <2>1, <2>2, <2>5
<1>6. \A k \in VarKeys : /\ (k \in set) <=> (wanted(k) # {} /\ wanted(k) # RowOf(rs, k))
                         /\ (k \in del) <=> (wanted(k) = {} /\ RowOf(rs, k) # {})
  OBVIOUS
<1>7. \A k \in del : stone(k).value = Gone
  OBVIOUS
<1> HIDE DEF wanted, set, del, row, stone, added, removed
<1>8. /\ after \in Seq(VarRow) /\ Len(rs) \in Nat /\ Len(added) \in Nat /\ Len(removed) \in Nat
      /\ DOMAIN after = 1 .. (Len(rs) + Len(added) + Len(removed))
      /\ DOMAIN rs = 1 .. Len(rs) /\ DOMAIN added = 1 .. Len(added) /\ DOMAIN removed = 1 .. Len(removed)
  BY <1>4, <1>5
<1>9. \A n \in DOMAIN after : \/ n \in DOMAIN rs /\ after[n] = rs[n]
                              \/ n - Len(rs) \in DOMAIN added /\ after[n] = added[n - Len(rs)]
                              \/ /\ n - Len(rs) - Len(added) \in DOMAIN removed
                                 /\ after[n] = removed[n - Len(rs) - Len(added)]
  BY <1>4, <1>5, <1>8
<1>10. /\ \A n \in DOMAIN rs : n \in DOMAIN after /\ after[n] = rs[n]
       /\ \A n \in DOMAIN added : Len(rs) + n \in DOMAIN after /\ after[Len(rs) + n] = added[n]
       /\ \A n \in DOMAIN removed : /\ Len(rs) + Len(added) + n \in DOMAIN after
                                    /\ after[Len(rs) + Len(added) + n] = removed[n]
  BY <1>4, <1>5, <1>8
<1> HIDE DEF after
<1>11. ASSUME NEW k \in VarKeys PROVE RowOf(after, k) = wanted(k)
  <2>1. CASE k \in set
    <3>1. PICK n \in DOMAIN added : added[n] = row(k) /\ \A m \in DOMAIN added : added[m].key = k => m = n
      BY <1>4, <2>1
    <3>2. k \notin del
      BY <1>6, <2>1
    <3>3. ASSUME NEW m \in DOMAIN after, after[m].key = k PROVE m <= Len(rs) + n
      <4>1. m \in DOMAIN rs \/ m - Len(rs) = n
        BY <1>5, <1>9, <3>1, <3>2, <3>3
      <4> QED
        BY <1>8, <3>1, <4>1
    <3>4. Len(rs) + n \in DOMAIN after /\ after[Len(rs) + n] = row(k)
      BY <1>10, <3>1
    <3>5. row(k).key = k /\ row(k).value # Gone /\ wanted(k) = {row(k)}
      BY <1>3, <2>1
    <3>6. RowOf(after, k) = {r \in {row(k)} : r.value # Gone}
      BY <1>8, <3>3, <3>4, <3>5, LastRowWins
    <3> QED
      BY <3>5, <3>6
  <2>2. CASE k \in del
    <3>1. PICK n \in DOMAIN removed : removed[n] = stone(k) /\ \A m \in DOMAIN removed : removed[m].key = k => m = n
      BY <1>5, <2>2
    <3>2. k \notin set
      BY <1>6, <2>2
    <3>3. ASSUME NEW m \in DOMAIN after, after[m].key = k PROVE m <= Len(rs) + Len(added) + n
      <4>1. m \in DOMAIN rs \/ m - Len(rs) - Len(added) = n
        BY <1>4, <1>9, <3>1, <3>2, <3>3
      <4> QED
        BY <1>8, <3>1, <4>1
    <3>4. /\ Len(rs) + Len(added) + n \in DOMAIN after
          /\ after[Len(rs) + Len(added) + n] = stone(k)
      BY <1>10, <3>1
    <3>5. stone(k).key = k
      BY DEF stone
    <3>6. RowOf(after, k) = {r \in {stone(k)} : r.value # Gone}
      BY <1>8, <3>3, <3>4, <3>5, LastRowWins
    <3>7. wanted(k) = {}
      BY <1>6, <2>2
    <3> QED
      BY <1>7, <2>2, <3>6, <3>7
  <2>3. CASE k \notin set /\ k \notin del
    <3>1. \A m \in DOMAIN after : after[m].key = k => m \in DOMAIN rs
      BY <1>4, <1>5, <1>9, <2>3
    <3>2. RowOf(after, k) = RowOf(rs, k)
      <4>1. \A m \in DOMAIN rs : rs[m].key = k => (m \in HeadOf(after) <=> m \in HeadOf(rs))
        BY <1>10, <3>1 DEF HeadOf
      <4>2. HeadOf(after) \subseteq DOMAIN after /\ HeadOf(rs) \subseteq DOMAIN rs
        BY DEF HeadOf
      <4>3. \A m \in DOMAIN rs : after[m] = rs[m]
        BY <1>10
      <4>4. {m \in HeadOf(after) : after[m].key = k} = {m \in HeadOf(rs) : rs[m].key = k}
        BY <3>1, <4>1, <4>2, <4>3
      <4>5. \A m \in {m \in HeadOf(rs) : rs[m].key = k} : after[m] = rs[m]
        BY <4>2, <4>3
      <4> QED
        BY <4>4, <4>5 DEF RowOf
    <3>3. wanted(k) = RowOf(rs, k)
      BY <1>6, <2>3
    <3> QED
      BY <3>2, <3>3
  <2> QED
    BY <2>1, <2>2, <2>3
<1>12. (added \o removed) \in Seq(VarRow)
  BY <1>4, <1>5
<1> QED
  BY <1>1, <1>11, <1>12 DEF wanted, after

\* What a request holds, and the request that holds nothing.
LEMMA RequestFacts ==
  ASSUME VarsInv, NEW w \in VarWriters
  PROVE  /\ request[w] \in VarRequest /\ request[w].plan \in Seq(VarRow) /\ request[w].entries \in [VarKeys -> Entry]
         /\ request[w].kind \in {"none", "merge", "replace", "update"} /\ request[w].locked \in BOOLEAN
         /\ request[w].chart \in ChartValues \union {"none"} /\ rows \in Seq(VarRow)
  BY DEF VarsInv, VarsTyped, VarsTypeOK, VarRequest

LEMMA NoRequestIsOne ==
  NoRequest \in VarRequest /\ NoRequest.kind = "none" /\ ~NoRequest.locked
<1>1. [says |-> "nothing", sensitive |-> "unsaid"] \in Entry
  BY DEF Entry
<1>2. [k \in VarKeys |-> [says |-> "nothing", sensitive |-> "unsaid"]] \in [VarKeys -> Entry]
  BY <1>1
<1>3. <<>> \in Seq(VarRow)
  OBVIOUS
<1> QED
  BY <1>2, <1>3 DEF NoRequest, VarRequest

LEMMA VarsBegin == VarsInit => VarsInv
<1> SUFFICES ASSUME VarsInit PROVE VarsInv
  OBVIOUS
<1> DEFINE first == [vars |-> {}, chart |-> chart]
<1>1. /\ rows = <<>> /\ chart \in ChartValues /\ state = "ready" /\ shipped = <<first>> /\ running = 1
      /\ rowLock = NoVarWriter /\ request = [w \in VarWriters |-> NoRequest]
  BY DEF VarsInit
<1>2. /\ rows \in Seq(VarRow) /\ shipped \in Seq([vars : SUBSET Nat, chart : ChartValues])
      /\ running \in 0 .. Len(shipped)
  <2>1. first \in [vars : SUBSET Nat, chart : ChartValues]
    BY <1>1
  <2> HIDE DEF first
  <2> QED
    BY <1>1, <2>1
<1>3. request \in [VarWriters -> VarRequest] /\ \A w \in VarWriters : request[w] = NoRequest
  BY <1>1, NoRequestIsOne
<1>4. VarsTyped
  BY <1>1, <1>2, <1>3, NoRequestIsOne DEF VarsTyped, VarsTypeOK
<1>5. LockFits
  BY <1>1, <1>3, NoRequestIsOne, VarsAssumption DEF LockFits
<1>6. PlansAreFresh
  BY <1>3, NoRequestIsOne DEF PlansAreFresh
<1> QED
  BY <1>4, <1>5, <1>6 DEF VarsInv

\* Loading takes no lock and plans nothing.
LEMMA KeepsLoad ==
  ASSUME VarsInv, NEW w \in VarWriters, request[w] = NoRequest, NEW new \in VarRequest,
         new.kind # "none", new.chart \in ChartValues, ~new.locked,
         request' = [request EXCEPT ![w] = new], UNCHANGED <<rows, chart, state, shipped, running, rowLock>>
  PROVE  VarsInv'
<1>1. /\ request' \in [VarWriters -> VarRequest] /\ request'[w] = new
      /\ \A v \in VarWriters : v # w => request'[v] = request[v]
  BY DEF VarsInv, VarsTyped
<1>2. VarsTyped'
  BY <1>1 DEF VarsInv, VarsTyped, VarsTypeOK
<1>3. LockFits'
  BY <1>1, NoRequestIsOne DEF VarsInv, LockFits
<1>4. PlansAreFresh'
  BY <1>1 DEF VarsInv, PlansAreFresh
<1> QED
  BY <1>2, <1>3, <1>4 DEF VarsInv

LEMMA KeepsLoadForWrite ==
  ASSUME VarsInv, NEW w \in VarWriters, NEW entries \in Bodies, NEW kind \in {"merge", "replace"},
         LoadForWrite(w, kind, entries)
  PROVE  VarsInv'
<1> DEFINE new == [NoRequest EXCEPT !.kind = kind, !.entries = entries, !.chart = chart]
<1>1. entries \in [VarKeys -> Entry] /\ chart \in ChartValues
  BY DEF Bodies, VarsInv, VarsTyped, VarsTypeOK
<1>2. new \in VarRequest /\ new.kind # "none" /\ new.chart \in ChartValues /\ ~new.locked
  BY <1>1, NoRequestIsOne DEF VarRequest
<1> HIDE DEF new
<1> QED
  BY <1>2, KeepsLoad DEF LoadForWrite, new

LEMMA KeepsLoadForUpdate ==
  ASSUME VarsInv, NEW w \in VarWriters, NEW entries \in Bodies, NEW values \in ChartValues,
         LoadForUpdate(w, entries, values)
  PROVE  VarsInv'
<1> DEFINE new == [NoRequest EXCEPT !.kind = "update", !.entries = entries, !.chart = values]
<1>1. entries \in [VarKeys -> Entry]
  BY DEF Bodies
<1>2. new \in VarRequest /\ new.kind # "none" /\ new.chart \in ChartValues /\ ~new.locked
  BY <1>1, NoRequestIsOne DEF VarRequest
<1> HIDE DEF new
<1> QED
  BY <1>2, KeepsLoad DEF LoadForUpdate, new

LEMMA KeepsLockAndPlan ==
  ASSUME VarsInv, NEW w \in VarWriters, LockAndPlan(w)
  PROVE  VarsInv'
<1> DEFINE plan == Changes(rows, request[w].entries, request[w].kind = "replace")
           after == rows \o plan
<1>1. /\ request[w].kind # "none" /\ ~request[w].locked /\ rowLock = NoVarWriter
      /\ UNCHANGED <<rows, chart, state, shipped, running, requests>>
  BY DEF LockAndPlan
<1>2. CASE /\ request[w].kind = "update" => state = "ready"
           /\ \A k \in VarKeys : Acceptable(rows, k, request[w].entries[k])
           /\ Agrees(request[w].chart, Content(after, HeadOf(after)))
  <2>1. rowLock' = w /\ request' = [request EXCEPT ![w].plan = plan, ![w].locked = TRUE]
    BY <1>2 DEF LockAndPlan
  <2>2. plan \in Seq(VarRow)
    BY RequestFacts, ChangesAreExact
  <2> HIDE DEF plan
  <2>3. /\ request' \in [VarWriters -> VarRequest]
        /\ request'[w].plan = plan /\ request'[w].locked /\ request'[w].kind = request[w].kind
        /\ request'[w].entries = request[w].entries /\ request'[w].chart = request[w].chart
        /\ \A v \in VarWriters : v # w => request'[v] = request[v]
    BY <2>1, <2>2, RequestFacts DEF VarsInv, VarsTyped, VarRequest
  <2>4. VarsTyped'
    BY <1>1, <2>1, <2>3 DEF VarsInv, VarsTyped, VarsTypeOK
  <2>5. LockFits'
    BY <1>1, <2>1, <2>3, VarsAssumption DEF VarsInv, LockFits
  <2>6. PlansAreFresh'
    <3>1. \A v \in VarWriters : v # w => ~request[v].locked
      BY <1>1, VarsAssumption DEF VarsInv, LockFits
    <3> QED
      BY <1>1, <1>2, <2>3, <3>1 DEF PlansAreFresh, plan
  <2> QED
    BY <2>4, <2>5, <2>6 DEF VarsInv
<1>3. CASE ~ (/\ request[w].kind = "update" => state = "ready"
              /\ \A k \in VarKeys : Acceptable(rows, k, request[w].entries[k])
              /\ Agrees(request[w].chart, Content(after, HeadOf(after))))
  <2>1. rowLock' = rowLock /\ request' = [request EXCEPT ![w] = NoRequest]
    BY <1>3 DEF LockAndPlan
  <2>2. /\ request' \in [VarWriters -> VarRequest] /\ request'[w] = NoRequest
        /\ \A v \in VarWriters : v # w => request'[v] = request[v]
    BY <2>1, NoRequestIsOne DEF VarsInv, VarsTyped
  <2>3. VarsTyped'
    BY <1>1, <2>1, <2>2, NoRequestIsOne DEF VarsInv, VarsTyped, VarsTypeOK
  <2>4. LockFits'
    BY <1>1, <2>1, <2>2, NoRequestIsOne, VarsAssumption DEF VarsInv, LockFits
  <2>5. PlansAreFresh'
    BY <1>1, <2>2, NoRequestIsOne DEF VarsInv, PlansAreFresh
  <2> QED
    BY <2>3, <2>4, <2>5 DEF VarsInv
<1> QED
  BY <1>2, <1>3

\* The commit, by its effect: one lock holder, whose rows are the plan made
\* from these very rows.
LEMMA CommitIs ==
  ASSUME VarsInv, NEW w \in VarWriters, CommitVars(w)
  PROVE  /\ rowLock = w /\ rowLock' = NoVarWriter /\ rows' = rows \o request[w].plan /\ rows' \in Seq(VarRow)
         /\ \A v \in VarWriters : v # w => ~request[v].locked /\ request'[v] = request[v]
         /\ request'[w] = NoRequest /\ request' \in [VarWriters -> VarRequest]
         /\ \A k \in VarKeys :
              /\ RowOf(rows', k) = Wanted(rows, k, request[w].entries[k], request[w].kind = "replace")
              /\ Acceptable(rows, k, request[w].entries[k])
         /\ Agrees(request[w].chart, Content(rows', HeadOf(rows')))
<1>1. request[w].locked /\ rows' = rows \o request[w].plan /\ request' = [request EXCEPT ![w] = NoRequest]
  BY DEF CommitVars
<1>2. rowLock = w /\ rowLock' = NoVarWriter
  BY <1>1 DEF CommitVars, VarsInv, LockFits
<1>3. \A v \in VarWriters : v # w => ~request[v].locked
  BY <1>2 DEF VarsInv, LockFits
<1>4. request'[w] = NoRequest /\ request' \in [VarWriters -> VarRequest]
      /\ \A v \in VarWriters : v # w => request'[v] = request[v]
  BY <1>1, NoRequestIsOne DEF VarsInv, VarsTyped
<1>5. /\ request[w].plan = Changes(rows, request[w].entries, request[w].kind = "replace")
      /\ \A k \in VarKeys : Acceptable(rows, k, request[w].entries[k])
      /\ Agrees(request[w].chart, Content(rows', HeadOf(rows')))
  BY <1>1 DEF VarsInv, PlansAreFresh
<1>6. /\ rows' \in Seq(VarRow)
      /\ \A k \in VarKeys : RowOf(rows', k) = Wanted(rows, k, request[w].entries[k], request[w].kind = "replace")
  <2>1. rows \in Seq(VarRow) /\ request[w].entries \in [VarKeys -> Entry] /\ request[w].plan \in Seq(VarRow)
    BY RequestFacts
  <2> DEFINE replace == request[w].kind = "replace"
  <2>2. replace \in BOOLEAN
    OBVIOUS
  <2>3. request[w].plan = Changes(rows, request[w].entries, replace)
    BY <1>5
  <2> HIDE DEF replace
  <2>4. \A k \in VarKeys : RowOf(rows \o request[w].plan, k) = Wanted(rows, k, request[w].entries[k], replace)
    BY <2>1, <2>2, <2>3, ChangesAreExact
  <2>5. rows \o request[w].plan \in Seq(VarRow)
    BY <2>1
  <2> QED
    BY <1>1, <2>4, <2>5 DEF replace
<1> QED
  BY <1>1, <1>2, <1>3, <1>4, <1>5, <1>6

LEMMA KeepsCommitVars ==
  ASSUME VarsInv, NEW w \in VarWriters, CommitVars(w)
  PROVE  VarsInv'
<1>1. \A v \in VarWriters : ~request'[v].locked
  BY CommitIs, NoRequestIsOne
<1>2. /\ shipped' \in Seq([vars : SUBSET Nat, chart : ChartValues]) /\ Len(shipped) <= Len(shipped')
      /\ chart' \in ChartValues /\ state' \in {"ready", "provisioning", "deleting"}
  <2>1. CASE request[w].kind = "update"
    <3> DEFINE new == [vars |-> HeadOf(rows'), chart |-> request[w].chart]
    <3>1. shipped' = Append(shipped, new) /\ chart' = request[w].chart /\ state' = "provisioning"
      BY <2>1 DEF CommitVars
    <3>2. request[w].chart \in ChartValues
      BY <2>1 DEF VarsInv, VarsTyped
    <3>3. HeadOf(rows') \subseteq Nat
      <4>1. HeadOf(rows') \subseteq DOMAIN rows' /\ rows' \in Seq(VarRow)
        BY CommitIs DEF HeadOf
      <4> QED
        BY <4>1
    <3>4. new \in [vars : SUBSET Nat, chart : ChartValues]
      BY <3>2, <3>3
    <3> HIDE DEF new
    <3> QED
      BY <3>1, <3>2, <3>4 DEF VarsInv, VarsTyped
  <2>2. CASE request[w].kind # "update"
    BY <2>2 DEF CommitVars, VarsInv, VarsTyped, VarsTypeOK
  <2> QED
    BY <2>1, <2>2
<1>3. running' \in 0 .. Len(shipped')
  BY <1>2 DEF CommitVars, VarsInv, VarsTyped, VarsTypeOK
<1>4. \A v \in VarWriters : request'[v].kind # "none" => request'[v].chart \in ChartValues
  BY CommitIs, NoRequestIsOne DEF VarsInv, VarsTyped
<1>5. VarsTyped'
  BY <1>2, <1>3, <1>4, CommitIs DEF VarsTyped, VarsTypeOK
<1>6. LockFits' /\ PlansAreFresh'
  BY <1>1, CommitIs, VarsAssumption DEF LockFits, PlansAreFresh
<1> QED
  BY <1>5, <1>6 DEF VarsInv

LEMMA KeepsReconcileVars ==
  ASSUME VarsInv, ReconcileVars \/ DeleteApp
  PROVE  VarsInv'
<1>1. /\ UNCHANGED <<rows, chart, shipped, rowLock, request>>
      /\ state' \in {"ready", "provisioning", "deleting"} /\ running' \in {running, Len(shipped)}
  BY DEF ReconcileVars, DeleteApp
<1>2. running' \in 0 .. Len(shipped)
  BY <1>1 DEF VarsInv, VarsTyped, VarsTypeOK
<1>3. VarsTyped'
  BY <1>1, <1>2 DEF VarsInv, VarsTyped, VarsTypeOK
<1>4. LockFits' /\ PlansAreFresh'
  BY <1>1 DEF VarsInv, LockFits, PlansAreFresh
<1> QED
  BY <1>3, <1>4 DEF VarsInv

LEMMA VarsStep ==
  ASSUME VarsInv, [VarsNext]_varsVars
  PROVE  VarsInv'
<1>1. CASE VarsNext
  BY <1>1, KeepsLoadForWrite, KeepsLoadForUpdate, KeepsLockAndPlan, KeepsCommitVars, KeepsReconcileVars DEF VarsNext
<1>2. CASE UNCHANGED varsVars
  BY <1>2 DEF varsVars, VarsInv, VarsTyped, VarsTypeOK, LockFits, PlansAreFresh
<1> QED
  BY <1>1, <1>2

\* Only a commit writes rows or ends a request that had planned.
LEMMA OnlyCommitsWrite ==
  ASSUME VarsInv, [VarsNext]_varsVars
  PROVE  \/ \E w \in VarWriters : CommitVars(w)
         \/ /\ UNCHANGED <<rows, shipped>>
            /\ \A w \in VarWriters : request[w].locked => request'[w] = request[w]
<1>1. ASSUME NEW w \in VarWriters, ~request[w].locked, NEW new, request' = [request EXCEPT ![w] = new]
      PROVE  \A v \in VarWriters : request[v].locked => request'[v] = request[v]
  BY <1>1 DEF VarsInv, VarsTyped
<1>2. ASSUME NEW w \in VarWriters, LockAndPlan(w)
      PROVE  UNCHANGED <<rows, shipped>> /\ \A v \in VarWriters : request[v].locked => request'[v] = request[v]
  BY <1>2 DEF LockAndPlan, VarsInv, VarsTyped
<1>3. ASSUME NEW w \in VarWriters, NEW entries, NEW kind, LoadForWrite(w, kind, entries)
      PROVE  UNCHANGED <<rows, shipped>> /\ \A v \in VarWriters : request[v].locked => request'[v] = request[v]
  BY <1>1, <1>3, NoRequestIsOne DEF LoadForWrite
<1>4. ASSUME NEW w \in VarWriters, NEW entries, NEW values, LoadForUpdate(w, entries, values)
      PROVE  UNCHANGED <<rows, shipped>> /\ \A v \in VarWriters : request[v].locked => request'[v] = request[v]
  BY <1>1, <1>4, NoRequestIsOne DEF LoadForUpdate
<1>5. CASE ReconcileVars \/ DeleteApp
  BY <1>5 DEF ReconcileVars, DeleteApp
<1>6. CASE UNCHANGED varsVars
  BY <1>6 DEF varsVars
<1> QED
  BY <1>2, <1>3, <1>4, <1>5, <1>6 DEF VarsNext

\* A release is the head and the chart values that were checked together.
LEMMA StepReleasesWhole ==
  ASSUME VarsInv, [VarsNext]_varsVars, Len(shipped') > Len(shipped)
  PROVE  LET new == shipped'[Len(shipped')] IN
         new.vars = HeadOf(rows') /\ Agrees(new.chart, Content(rows', new.vars))
<1>1. Len(shipped) \in Nat
  BY DEF VarsInv, VarsTyped
<1>2. PICK w \in VarWriters : CommitVars(w)
  BY <1>1, OnlyCommitsWrite
<1>3. request[w].kind = "update" /\ shipped' = Append(shipped, [vars |-> HeadOf(rows'), chart |-> request[w].chart])
  BY <1>1, <1>2 DEF CommitVars
<1>4. shipped'[Len(shipped')] = [vars |-> HeadOf(rows'), chart |-> request[w].chart]
  BY <1>3 DEF VarsInv, VarsTyped
<1> QED
  BY <1>2, <1>4, CommitIs

LEMMA StepWritesExactly ==
  ASSUME VarsInv, [VarsNext]_varsVars, NEW w \in VarWriters, request[w].locked, request'[w] = NoRequest,
         NEW k \in VarKeys
  PROVE  RowOf(rows', k) = Wanted(rows, k, request[w].entries[k], request[w].kind = "replace")
<1>1. PICK v \in VarWriters : CommitVars(v)
  BY OnlyCommitsWrite, NoRequestIsOne
<1>2. v = w
  BY <1>1, CommitIs
<1> QED
  BY <1>1, <1>2, CommitIs

LEMMA StepExposesNothing ==
  ASSUME VarsInv, [VarsNext]_varsVars, NEW k \in VarKeys, NEW r \in RowOf(rows, k), NEW n \in RowOf(rows', k),
         r.sensitive, ~n.sensitive
  PROVE  \E w \in VarWriters : request'[w] = NoRequest /\ request[w].entries[k].says \in VarValues
<1>1. rows \in Seq(VarRow)
  BY DEF VarsInv, VarsTyped, VarsTypeOK
<1>2. RowOf(rows, k) = {r} /\ r \in VarRow
  BY <1>1, HeadHasOne
<1>3. PICK w \in VarWriters : CommitVars(w)
  BY <1>2, OnlyCommitsWrite
<1> DEFINE entry == request[w].entries[k]
<1>4. /\ request'[w] = NoRequest /\ n \in Wanted(rows, k, entry, request[w].kind = "replace")
      /\ Acceptable(rows, k, entry)
  BY <1>3, CommitIs
<1>5. entry \in Entry
  BY RequestFacts
<1> HIDE DEF entry
<1>6. entry.says \notin {"delete", "nothing"}
  BY <1>2, <1>4 DEF Wanted
<1>7. ASSUME entry.says = "keep" PROVE FALSE
  <2>1. Sensitive(k, entry, {r})
    BY <1>2, <1>4, <1>7 DEF Acceptable
  <2>2. n = [r EXCEPT !.sensitive = Sensitive(k, entry, {r})]
    BY <1>2, <1>4, <1>7 DEF Wanted
  <2> QED
    BY <1>2, <2>1, <2>2 DEF VarRow
<1>8. entry.says \in VarValues
  BY <1>5, <1>6, <1>7 DEF Entry
<1> QED
  BY <1>4, <1>8 DEF entry

\* Whatever PATCHes, PUTs, DELETEs and updates of one deployment's vars run
\* beside each other, and however many keys, values and writers there are: a
\* release froze the head and chart values that were checked together, a write
\* does to the head exactly what it says, and no sensitive value is exposed
\* (write_vars and snapshot_release in services/vars.py).
THEOREM VarsStayWhole == VarsSpec => VarsCompose
<1>1. VarsInit => VarsInv
  BY VarsBegin
<1>2. VarsInv /\ [VarsNext]_varsVars => VarsInv'
  BY VarsStep
<1>3. VarsInv => VarsTypeOK
  BY DEF VarsInv, VarsTyped
<1>4. VarsInv /\ [VarsNext]_varsVars =>
        [Len(shipped') > Len(shipped) =>
           LET new == shipped'[Len(shipped')] IN
           new.vars = HeadOf(rows') /\ Agrees(new.chart, Content(rows', new.vars))]_varsVars
  BY StepReleasesWhole
<1>5. VarsInv /\ [VarsNext]_varsVars =>
        [\A w \in VarWriters :
           request[w].locked /\ request'[w] = NoRequest =>
             \A k \in VarKeys :
               RowOf(rows', k) = Wanted(rows, k, request[w].entries[k], request[w].kind = "replace")]_varsVars
  BY StepWritesExactly
<1>6. VarsInv /\ [VarsNext]_varsVars =>
        [\A k \in VarKeys : \A r \in RowOf(rows, k) : \A n \in RowOf(rows', k) :
           r.sensitive /\ ~n.sensitive =>
             \E w \in VarWriters : request'[w] = NoRequest /\ request[w].entries[k].says \in VarValues]_varsVars
  BY StepExposesNothing
<1> QED
  BY <1>1, <1>2, <1>3, <1>4, <1>5, <1>6, PTL DEF VarsSpec, VarsCompose, ReleasesAreWhole, WritesAreExact, NeverExposed

=============================================================================
