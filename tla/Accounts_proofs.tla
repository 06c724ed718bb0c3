---------------------------- MODULE Accounts_proofs ----------------------------
(***************************************************************************)
(* Accounts for any number of people, addresses, handles and concurrent    *)
(* requests: who acts on an account, whose names and whose keys it has.    *)
(***************************************************************************)
EXTENDS Accounts, SequenceTheorems, TLAPS

Ladder == {"bySubject", "byEmail", "address", "email", "adopt", "insert"}
HoldsRecord == {"address", "email", "adopt", "load", "loaded", "commit"}

\* What a request r, a key and a deployment name exists.
Refers(r) ==
  /\ r.step \in Ladder => r.email \in Emails
  /\ r.step \in HoldsRecord => r.user \in UserId
  /\ r.step = "commit" /\ r.plan.write = "hostname" => r.plan.app \in {0} \union AppId

Resolved ==
  /\ \A c \in Calls : Refers(request[c])
  /\ \A a \in AppId : apps[a].user \in UserId
  /\ \A k \in keys : k.user \in UserId

\* A handle has one holder, deleted or not.
HandlesAreUnique ==
  \A u, v \in UserId :
    users[u].handle = users[v].handle /\ users[u].handle # NoHandle => u = v \/ {u, v} \intersect crossed # {}

\* What a person's request knows of the record it goes on with.
KnowsWho(r) ==
  /\ r.step \in {"address", "email", "adopt"} => r.subject # Nobody
  /\ r.step = "adopt" => r.bound = Nobody
  /\ r.step \in HoldsRecord \ {"adopt"} /\ r.subject # Nobody =>
       r.user \in crossed \/ users[r.user].subject = r.subject

\* What it knows of the account's name, and what it has decided with that.
KnowsName(r) ==
  /\ r.step = "loaded" => r.user \in crossed \/ r.handle \in {NoHandle, users[r.user].handle}
  /\ r.step = "commit" /\ r.plan.write = "hostname" =>
       r.plan.handle # NoHandle /\ (r.user \in crossed \/ r.plan.handle = users[r.user].handle)
  /\ r.step = "commit" /\ r.plan.write = "handle" => r.plan.own = NoHandle /\ r.plan.held = {}

Knows(r) == KnowsWho(r) /\ KnowsName(r)

KeyIsOwners(k) == k.user \in crossed \/ (Live(k.user) /\ k.by \in {Nobody, users[k.user].subject})

NameIsOwners(app) == app.user \in crossed \/ app.handle = users[app.user].handle

AccountsInv ==
  /\ AccountsTypeOK /\ Resolved /\ HandlesAreUnique
  /\ \A c \in Calls : Knows(request[c])
  /\ \A k \in keys : KeyIsOwners(k)
  /\ \A a \in AppId : NameIsOwners(apps[a])
-----------------------------------------------------------------------------
(* The invariant is enough.                                                *)

LEMMA InvIsEnough == AccountsInv => AccountsAreSound
  <1> SUFFICES ASSUME AccountsInv PROVE AccountsAreSound
    OBVIOUS
  <1> USE DEF AccountsInv
  <1>1. AccountsTypeOK
    OBVIOUS
  <1>2. OnePersonPerAccount
    BY DEF Knows, KnowsWho, HoldsRecord, OnePersonPerAccount
  <1>3. SuffixesAreOwners
    <2> SUFFICES ASSUME NEW a \in AppId
                 PROVE  LET owner == apps[a].user
                        IN /\ owner \in crossed \/ apps[a].handle = users[owner].handle
                           /\ \A u \in Holders(apps[a].handle) \ {owner} : {u, owner} \intersect crossed # {}
      BY DEF SuffixesAreOwners
    <2>1. (apps[a].user \in crossed \/ apps[a].handle = users[apps[a].user].handle) /\ apps[a].user \in UserId
      BY DEF NameIsOwners, Resolved
    <2>2. apps[a].handle # NoHandle
      <3>1. apps[a] \in AppRow
        BY ElementOfSeq DEF AccountsTypeOK, AppId
      <3> QED BY <3>1, AccountsAssumption DEF AppRow
    <2> QED BY <2>1, <2>2 DEF HandlesAreUnique, Holders
  <1>4. AppsOpenToOwners
    BY DEF KeyIsOwners, Opens, AppsOpenToOwners
  <1> QED BY <1>1, <1>2, <1>3, <1>4 DEF AccountsAreSound

LEMMA InvInit == AccountsInit => AccountsInv
  <1> SUFFICES ASSUME AccountsInit PROVE AccountsInv
    OBVIOUS
  <1> USE DEF AccountsInit
  <1>0. Len(users) = 0 /\ Len(apps) = 0
    OBVIOUS
  <1>1. \A c \in Calls : request[c] = Idle
    OBVIOUS
  <1>2. Idle \in Request
    BY DEF Idle, Request, NoPlan, Plan
  <1>3. AccountsTypeOK
    BY <1>2 DEF AccountsTypeOK
  <1>4. Resolved
    BY <1>0, <1>1 DEF Resolved, Refers, Idle, Ladder, HoldsRecord, AppId
  <1>5. HandlesAreUnique
    BY <1>0 DEF HandlesAreUnique, UserId
  <1>6. \A c \in Calls : Knows(request[c])
    BY <1>1 DEF Knows, KnowsWho, KnowsName, Idle, HoldsRecord
  <1>7. \A a \in AppId : NameIsOwners(apps[a])
    BY <1>0 DEF AppId
  <1> QED BY <1>3, <1>4, <1>5, <1>6, <1>7 DEF AccountsInv
-----------------------------------------------------------------------------
(* The tables of a state.                                                  *)

LEMMA RowTypes ==
  ASSUME AccountsTypeOK
  PROVE  /\ Len(users) \in Nat /\ Len(apps) \in Nat
         /\ \A u \in UserId : users[u] \in UserRow
         /\ \A a \in AppId : apps[a] \in AppRow
         /\ \A c \in Calls : request[c] \in Request
  <1> USE DEF AccountsTypeOK
  <1>1. Len(users) \in Nat /\ Len(apps) \in Nat
    BY LenProperties
  <1>2. \A u \in UserId : users[u] \in UserRow
    BY ElementOfSeq DEF UserId
  <1>3. \A a \in AppId : apps[a] \in AppRow
    BY ElementOfSeq DEF AppId
  <1> QED BY <1>1, <1>2, <1>3

\* A table in which one record is replaced, or to which one is added.
LEMMA ReplacedRow ==
  ASSUME NEW S, NEW table \in Seq(S), NEW i \in 1 .. Len(table), NEW row \in S
  PROVE  LET next == [table EXCEPT ![i] = row]
         IN /\ next \in Seq(S) /\ Len(next) = Len(table)
            /\ next[i] = row
            /\ \A j \in 1 .. Len(table) : j # i => next[j] = table[j]
  BY ExceptSeq, Len(table) \in Nat, LenProperties

LEMMA AddedRow ==
  ASSUME NEW S, NEW table \in Seq(S), NEW row \in S
  PROVE  LET next == Append(table, row)
         IN /\ next \in Seq(S) /\ Len(next) = Len(table) + 1
            /\ next[Len(table) + 1] = row
            /\ \A j \in 1 .. Len(table) : next[j] = table[j]
  BY AppendProperties, LenProperties

LEMMA IdleIsFine == Idle \in Request /\ Refers(Idle) /\ Knows(Idle)
  BY DEF Idle, Request, NoPlan, Plan, Refers, Knows, KnowsWho, KnowsName, Ladder, HoldsRecord

-----------------------------------------------------------------------------
(* A step of a request that leaves the tables alone.                       *)

\* It keeps the invariant if what the request becomes is in order.
LEMMA RequestMoves ==
  ASSUME AccountsInv, NEW c \in Calls, NEW r \in Request, UNCHANGED <<users, keys, apps, crossed>>,
         request' = [request EXCEPT ![c] = r],
         Refers(r), Knows(r)
  PROVE  AccountsInv'
  <1> USE DEF AccountsInv
  <1>1. AccountsTypeOK'
    BY DEF AccountsTypeOK, UserId
  <1>2. request \in [Calls -> Request]
    BY DEF AccountsTypeOK
  <1>3. \A d \in Calls : request'[d] = IF d = c THEN r ELSE request[d]
    BY <1>2
  <1>4. Resolved'
    BY <1>3 DEF Resolved, Refers, UserId, AppId
  <1>5. HandlesAreUnique'
    BY DEF HandlesAreUnique, UserId
  <1>6. \A d \in Calls : Knows(request[d])'
    <2> SUFFICES ASSUME NEW d \in Calls PROVE Knows(request[d])'
      OBVIOUS
    <2>1. Knows(request'[d])
      BY <1>3
    <2> QED BY <2>1 DEF Knows, KnowsWho, KnowsName
  <1>7. (\A k \in keys : KeyIsOwners(k))' /\ (\A a \in AppId : NameIsOwners(apps[a]))'
    BY DEF KeyIsOwners, NameIsOwners, Live, AppId
  <1> QED BY <1>1, <1>4, <1>5, <1>6, <1>7

\* It may always end.
LEMMA RequestEnds ==
  ASSUME AccountsInv, NEW c \in Calls, UNCHANGED <<users, keys, apps, crossed>>, Ends(c)
  PROVE  AccountsInv'
  BY RequestMoves, IdleIsFine DEF Ends

LEMMA RequestRetries ==
  ASSUME AccountsInv, NEW c \in Calls, request[c].step \in Ladder,
         UNCHANGED <<users, keys, apps, crossed>>, Retries(c)
  PROVE  AccountsInv'
  <1> DEFINE r == [request[c] EXCEPT !.step = "bySubject", !.user = 0, !.bound = Nobody, !.retried = TRUE]
  <1>1. CASE request[c].retried
    BY <1>1, RequestEnds DEF Retries, Ends
  <1>2. CASE ~request[c].retried
    <2>1. request' = [request EXCEPT ![c] = r]
      BY <1>2 DEF Retries
    <2>2. request[c] \in Request
      BY RowTypes DEF AccountsInv
    <2>3. r \in Request /\ r.step = "bySubject" /\ r.email = request[c].email
      BY <2>2 DEF Request
    <2> HIDE DEF r
    <2>5. request[c].email \in Emails
      BY DEF AccountsInv, Resolved, Refers
    <2>4. Refers(r) /\ Knows(r)
      BY <2>3, <2>5 DEF Refers, Knows, KnowsWho, KnowsName, HoldsRecord
    <2> QED BY <2>1, <2>3, <2>4, RequestMoves
  <1> QED BY <1>1, <1>2

\* The record it loads has its subject.
LEMMA RequestLoads ==
  ASSUME AccountsInv, NEW c \in Calls, NEW u \in UserId, UNCHANGED <<users, keys, apps, crossed>>, Loads(c, u),
         request[c].subject # Nobody => u \in crossed \/ users[u].subject = request[c].subject
  PROVE  AccountsInv'
  <1> DEFINE r == [Idle EXCEPT !.step = "loaded", !.subject = request[c].subject, !.user = u,
                               !.handle = users[u].handle, !.deleted = users[u].deleted]
  <1>1. request[c] \in Request /\ users[u] \in UserRow /\ u \in Nat
    BY RowTypes DEF AccountsInv, UserId
  <1>2. /\ r \in Request /\ r.step = "loaded" /\ r.user = u /\ r.subject = request[c].subject
        /\ r.handle = users[u].handle
    <2>1. /\ request[c].subject \in People \union {Nobody}
          /\ users[u].handle \in Handles \union {NoHandle} /\ users[u].deleted \in BOOLEAN
      BY <1>1 DEF Request, UserRow
    <2> QED BY <1>1, <2>1, IdleIsFine DEF Idle, Request
  <1>3. request' = [request EXCEPT ![c] = r]
    BY DEF Loads
  <1> HIDE DEF r
  <1>4. Refers(r) /\ Knows(r)
    BY <1>2 DEF Refers, Knows, KnowsWho, KnowsName, Ladder, HoldsRecord
  <1> QED BY <1>2, <1>3, <1>4, RequestMoves

\* It goes on at a step that does not name a record, or names the one it found.
LEMMA RequestGoesOn ==
  ASSUME AccountsInv, NEW c \in Calls, request[c].step \in Ladder, UNCHANGED <<users, keys, apps, crossed>>,
         NEW step \in {"byEmail", "insert", "address", "email"}, NEW u \in {request[c].user} \union UserId,
         request' = [request EXCEPT ![c].step = step, ![c].user = u],
         step \in {"address", "email"} =>
           /\ u \in UserId /\ request[c].subject # Nobody
           /\ u \in crossed \/ users[u].subject = request[c].subject
  PROVE  AccountsInv'
  <1> DEFINE r == [request[c] EXCEPT !.step = step, !.user = u]
  <1>1. request[c] \in Request /\ request[c].user \in Nat /\ u \in Nat
    BY RowTypes DEF AccountsInv, UserId, Request
  <1>2. /\ r \in Request /\ r.step = step /\ r.user = u
        /\ r.email = request[c].email /\ r.subject = request[c].subject
    BY <1>1 DEF Request
  <1>3. request[c].email \in Emails
    BY DEF AccountsInv, Resolved, Refers
  <1>4. request' = [request EXCEPT ![c] = r]
    BY DEF AccountsInv, AccountsTypeOK
  <1> HIDE DEF r
  <1>5. Refers(r) /\ Knows(r)
    BY <1>2, <1>3 DEF Refers, Knows, KnowsWho, KnowsName, HoldsRecord
  <1> QED BY <1>2, <1>4, <1>5, RequestMoves

\* It decides to write.
LEMMA RequestDecides ==
  ASSUME AccountsInv, NEW c \in Calls, NEW plan \in Plan, UNCHANGED <<users, keys, apps, crossed>>,
         At(c, "loaded"), Decides(c, plan),
         plan.write = "hostname" =>
           plan.app \in {0} \union AppId /\ plan.handle = request[c].handle /\ plan.handle # NoHandle,
         plan.write = "handle" => plan.own = NoHandle /\ plan.held = {}
  PROVE  AccountsInv'
  <1> DEFINE r == [Idle EXCEPT !.step = "commit", !.subject = request[c].subject, !.user = request[c].user,
                               !.plan = plan]
  <1>1. /\ request[c].subject \in People \union {Nobody} /\ request[c].user \in Nat
        /\ Refers(request[c]) /\ Knows(request[c]) /\ request[c].step = "loaded"
    BY RowTypes DEF AccountsInv, Resolved, Request, At
  <1>2. /\ r \in Request /\ r.step = "commit" /\ r.plan = plan
        /\ r.user = request[c].user /\ r.subject = request[c].subject
    BY <1>1, IdleIsFine DEF Idle, Request
  <1>3. request' = [request EXCEPT ![c] = r]
    BY DEF Decides
  <1> HIDE DEF r
  <1>4. Refers(r) /\ Knows(r)
    BY <1>1, <1>2 DEF Refers, Knows, KnowsWho, KnowsName, Ladder, HoldsRecord
  <1> QED BY <1>2, <1>3, <1>4, RequestMoves

LEMMA ReadStep ==
  ASSUME AccountsInv, NEW c \in Calls,
         \/ Arrive(c) \/ FindBySubject(c) \/ CheckAddress(c) \/ FindByEmail(c) \/ LoadAgain(c)
         \/ CheckHandle(c) \/ CheckHostname(c) \/ CheckKey(c) \/ Answer(c)
  PROVE  AccountsInv'
  <1>0. request[c] \in Request /\ request \in [Calls -> Request]
    BY RowTypes DEF AccountsInv, AccountsTypeOK
  <1>1. UNCHANGED <<users, keys, apps, crossed>>
    BY DEF Arrive, FindBySubject, CheckAddress, FindByEmail, LoadAgain, CheckHandle, CheckHostname, CheckKey, Answer
  <1>11. ASSUME FindBySubject(c) \/ CheckAddress(c) \/ FindByEmail(c) PROVE request[c].step \in Ladder
    BY <1>11 DEF FindBySubject, CheckAddress, FindByEmail, At, Ladder
  <1>2. CASE Arrive(c)
    <2>1. PICK who \in Callers :
            request' = [request EXCEPT ![c] = [Idle EXCEPT !.step = "bySubject", !.subject = who.subject,
                                                           !.email = who.email]]
      BY <1>2 DEF Arrive
    <2> DEFINE r == [Idle EXCEPT !.step = "bySubject", !.subject = who.subject, !.email = who.email]
    <2>2. who.subject \in People \union {Nobody} /\ who.email \in Emails
      BY AccountsAssumption
    <2>3. r \in Request /\ r.step = "bySubject" /\ r.email \in Emails
      BY <2>2 DEF Idle, Request, NoPlan, Plan
    <2>5. request' = [request EXCEPT ![c] = r]
      BY <2>1
    <2> HIDE DEF r
    <2>4. Refers(r) /\ Knows(r)
      BY <2>3 DEF Refers, Knows, KnowsWho, KnowsName, HoldsRecord
    <2> QED BY <1>1, <2>3, <2>4, <2>5, RequestMoves
  <1>3. CASE FindBySubject(c)
    <2>1. CASE Goes(c, "byEmail")
      <3>1. request' = [request EXCEPT ![c].step = "byEmail", ![c].user = request[c].user]
        BY <1>0, <2>1 DEF Goes, Request
      <3> QED BY <1>11, <1>3, <3>1, <1>1, RequestGoesOn
    <2>2. ASSUME NEW u \in Bound(request[c].subject), request[c].subject # Nobody,
                 IF users[u].email = request[c].email THEN Loads(c, u)
                 ELSE request' = [request EXCEPT ![c].step = "address", ![c].user = u]
          PROVE  AccountsInv'
      <3>1. u \in UserId /\ users[u].subject = request[c].subject
        BY DEF Bound
      <3> QED BY <1>11, <1>3, <2>2, <3>1, <1>1, RequestLoads, RequestGoesOn
    <2> QED BY <1>3, <2>1, <2>2 DEF FindBySubject
  <1>4. CASE CheckAddress(c)
    <2>1. CASE Goes(c, "email")
      <3>1. request' = [request EXCEPT ![c].step = "email", ![c].user = request[c].user]
        BY <1>0, <2>1 DEF Goes, Request
      <3>2. request[c].user \in UserId
        BY <1>4 DEF CheckAddress, At, AccountsInv, Resolved, Refers, HoldsRecord
      <3>3. /\ request[c].subject # Nobody
            /\ request[c].user \in crossed \/ users[request[c].user].subject = request[c].subject
        BY <1>4 DEF CheckAddress, At, AccountsInv, Knows, KnowsWho, HoldsRecord
      <3> QED BY <1>11, <1>4, <3>1, <3>2, <3>3, <1>1, RequestGoesOn
    <2> QED BY <1>1, <1>4, <2>1, RequestEnds DEF CheckAddress
  <1>5. CASE FindByEmail(c)
    <2>1. CASE Goes(c, "insert")
      <3>1. request' = [request EXCEPT ![c].step = "insert", ![c].user = request[c].user]
        BY <1>0, <2>1 DEF Goes, Request
      <3> QED BY <1>11, <1>5, <3>1, <1>1, RequestGoesOn
    <2>2. ASSUME NEW u \in Addressed(request[c].email), request[c].subject = Nobody, Loads(c, u)
          PROVE  AccountsInv'
      BY <2>2, <1>1, RequestLoads DEF Addressed
    <2>3. ASSUME NEW u \in Addressed(request[c].email), request[c].subject # Nobody, Adoptable(u),
                 request' = [request EXCEPT ![c].step = "adopt", ![c].user = u, ![c].bound = users[u].subject]
          PROVE  AccountsInv'
      <3> DEFINE r == [request[c] EXCEPT !.step = "adopt", !.user = u, !.bound = users[u].subject]
      <3>1. u \in UserId /\ u \in Nat /\ users[u].subject = Nobody
        BY <2>3 DEF Addressed, UserId, Adoptable
      <3>2. /\ r \in Request /\ r.step = "adopt" /\ r.user = u /\ r.bound = Nobody
            /\ r.email = request[c].email /\ r.subject = request[c].subject
        BY <1>0, <3>1 DEF Request
      <3>3. request[c].email \in Emails
        BY <1>11, <1>5 DEF AccountsInv, Resolved, Refers
      <3>4. request' = [request EXCEPT ![c] = r]
        BY <1>0, <2>3
      <3> HIDE DEF r
      <3>5. Refers(r) /\ Knows(r)
        BY <2>3, <3>1, <3>2, <3>3 DEF Refers, Knows, KnowsWho, KnowsName, HoldsRecord
      <3> QED BY <1>1, <3>2, <3>4, <3>5, RequestMoves
    <2>4. CASE Ends(c)
      BY <1>1, <2>4, RequestEnds
    <2> QED BY <1>5, <2>1, <2>2, <2>3, <2>4 DEF FindByEmail
  <1>6. CASE LoadAgain(c)
    <2>1. request[c].user \in UserId
      BY <1>6 DEF LoadAgain, At, AccountsInv, Resolved, Refers, HoldsRecord
    <2>2. request[c].subject # Nobody =>
            request[c].user \in crossed \/ users[request[c].user].subject = request[c].subject
      BY <1>6 DEF LoadAgain, At, AccountsInv, Knows, KnowsWho, HoldsRecord
    <2> QED BY <1>1, <1>6, <2>1, <2>2, RequestLoads DEF LoadAgain
  <1>7. CASE CheckHandle(c)
    <2> DEFINE plan(h) == [write |-> "handle", handle |-> h, own |-> NoHandle, held |-> {}]
    <2>1. PICK h \in Handles : Decides(c, plan(h))
      BY <1>7 DEF CheckHandle
    <2>2. plan(h) \in Plan
      BY DEF Plan
    <2> QED BY <1>1, <1>7, <2>1, <2>2, RequestDecides DEF CheckHandle
  <1>8. CASE CheckHostname(c)
    <2>1. PICK label \in Labels, a \in {0} \union {b \in AppId : apps[b].user = request[c].user} :
            Decides(c, [write |-> "hostname", app |-> a, label |-> label, handle |-> request[c].handle])
      BY <1>8 DEF CheckHostname
    <2>2. request[c].handle \in Handles /\ a \in Nat /\ a \in {0} \union AppId
      BY <1>0, <1>8 DEF CheckHostname, Request, AppId
    <2> DEFINE plan == [write |-> "hostname", app |-> a, label |-> label, handle |-> request[c].handle]
    <2>3. /\ plan \in Plan /\ plan.write = "hostname" /\ plan.app = a /\ plan.handle = request[c].handle
          /\ plan.handle # NoHandle
      BY <2>2, AccountsAssumption DEF Plan
    <2>4. Decides(c, plan)
      BY <2>1
    <2> HIDE DEF plan
    <2> QED BY <1>1, <1>8, <2>2, <2>3, <2>4, RequestDecides DEF CheckHostname
  <1>9. CASE CheckKey(c)
    <2>1. PICK f \in Fingerprints : Decides(c, [write |-> "key", fingerprint |-> f])
      BY <1>9 DEF CheckKey
    <2>2. [write |-> "key", fingerprint |-> f] \in Plan
      BY DEF Plan
    <2> QED BY <1>1, <1>9, <2>1, <2>2, RequestDecides DEF CheckKey
  <1>10. CASE Answer(c)
    BY <1>1, <1>10, RequestEnds DEF Answer
  <1> QED BY <1>2, <1>3, <1>4, <1>5, <1>6, <1>7, <1>8, <1>9, <1>10

-----------------------------------------------------------------------------
(* A step of a request that writes to an account.                          *)

\* A record gets another address, a subject or a handle.  Unless the record is
\* crossed then, it had no subject or keeps it, and had no handle and gets one
\* that is nobody's, or keeps it: nobody who goes on with it is wrong about it.
LEMMA RecordChanges ==
  ASSUME AccountsInv, NEW c \in Calls, NEW u \in UserId, NEW row \in UserRow, NEW r \in Request,
         users' = [users EXCEPT ![u] = row], UNCHANGED <<keys, apps>>,
         crossed' \in {crossed, crossed \union {u}},
         request' = [request EXCEPT ![c] = r],
         r = Idle \/ (r.step = "load" /\ r.user = u),
         r.subject # Nobody => u \in crossed' \/ row.subject = r.subject,
         row.deleted = users[u].deleted,
         u \in crossed' \/ users[u].subject \in {Nobody, row.subject},
         \/ u \in crossed'
         \/ row.handle = users[u].handle
         \/ users[u].handle = NoHandle /\ Holders(row.handle) \subseteq {u}
  PROVE  AccountsInv'
  <1> USE DEF AccountsInv
  <1>1. /\ users \in Seq(UserRow) /\ u \in 1 .. Len(users) /\ request \in [Calls -> Request]
        /\ Len(users) \in Nat /\ Len(apps) \in Nat
    BY RowTypes DEF AccountsTypeOK, UserId
  <1>2. /\ users' \in Seq(UserRow) /\ Len(users') = Len(users) /\ UserId' = UserId /\ AppId' = AppId
        /\ users'[u] = row
        /\ \A v \in UserId : v # u => users'[v] = users[v]
    BY <1>1, ReplacedRow DEF UserId, AppId
  <1>3. \A d \in Calls : request'[d] = IF d = c THEN r ELSE request[d]
    BY <1>1
  <1>4. AccountsTypeOK'
    BY <1>1, <1>2 DEF AccountsTypeOK
  <1>5. Resolved'
    <2>1. Refers(r)
      BY DEF Refers, Idle, Ladder, HoldsRecord
    <2> QED BY <1>2, <1>3, <2>1 DEF Resolved, Refers
  <1>6. HandlesAreUnique'
    <2> SUFFICES ASSUME NEW v \in UserId, NEW w \in UserId,
                        users'[v].handle = users'[w].handle, users'[v].handle # NoHandle,
                        v # w, v \notin crossed', w \notin crossed'
                 PROVE  FALSE
      BY <1>2 DEF HandlesAreUnique
    <2>1. v \notin crossed /\ w \notin crossed
      OBVIOUS
    <2>2. CASE v # u /\ w # u
      BY <1>2, <2>1, <2>2 DEF HandlesAreUnique
    <2>3. CASE v = u
      BY <1>2, <2>1, <2>3 DEF HandlesAreUnique, Holders
    <2>4. CASE w = u
      BY <1>2, <2>1, <2>4 DEF HandlesAreUnique, Holders
    <2> QED BY <2>2, <2>3, <2>4
  <1>7. \A d \in Calls : Knows(request[d])'
    <2> SUFFICES ASSUME NEW d \in Calls PROVE Knows(request[d])'
      OBVIOUS
    <2>1. CASE d # c
      <3>1. Knows(request[d]) /\ Refers(request[d]) /\ request'[d] = request[d]
        BY <1>3, <2>1 DEF Resolved
      <3>2. request[d].step \in HoldsRecord => request[d].user \in UserId
        BY <3>1 DEF Refers
      <3>3. KnowsWho(request[d])'
        BY <1>2, <3>1, <3>2 DEF Knows, KnowsWho, HoldsRecord
      <3>4. KnowsName(request[d])'
        BY <1>2, <3>1, <3>2 DEF Knows, KnowsName, HoldsRecord
      <3> QED BY <3>3, <3>4 DEF Knows
    <2>2. CASE d = c
      <3>1. request'[d] = r /\ r.step \in {"idle", "load"} /\ (r.step = "load" => r.user = u)
        BY <1>3, <2>2 DEF Idle
      <3> QED BY <1>2, <3>1 DEF Knows, KnowsWho, KnowsName, HoldsRecord
    <2> QED BY <2>1, <2>2
  <1>8. \A k \in keys' : KeyIsOwners(k)'
    <2> SUFFICES ASSUME NEW k \in keys PROVE KeyIsOwners(k)'
      OBVIOUS
    <2>1. KeyIsOwners(k) /\ k.user \in UserId
      BY DEF Resolved
    <2> QED BY <1>2, <2>1 DEF KeyIsOwners, Live
  <1>9. \A a \in AppId' : NameIsOwners(apps[a])'
    <2> SUFFICES ASSUME NEW a \in AppId PROVE NameIsOwners(apps[a])'
      BY <1>2
    <2>1. apps[a].user \in UserId /\ NameIsOwners(apps[a])
      BY DEF Resolved
    <2>2. apps[a].handle # NoHandle
      BY RowTypes, AccountsAssumption DEF AppRow
    <2> QED BY <1>2, <2>1, <2>2 DEF NameIsOwners
  <1> QED BY <1>4, <1>5, <1>6, <1>7, <1>8, <1>9

\* What the request becomes that has written to record u.
LEMMA CommitsIsTyped ==
  ASSUME NEW c \in Calls, request[c] \in Request, NEW u \in Nat
  PROVE  LET r == [Idle EXCEPT !.step = "load", !.subject = request[c].subject, !.user = u]
         IN r \in Request /\ r.step = "load" /\ r.user = u /\ r.subject = request[c].subject
  BY DEF Idle, Request, NoPlan, Plan

LEMMA UpdateEmailStep ==
  ASSUME AccountsInv, NEW c \in Calls, UpdateEmail(c)
  PROVE  AccountsInv'
  <1> DEFINE u == request[c].user
             row == [users[u] EXCEPT !.email = request[c].email]
             r == [Idle EXCEPT !.step = "load", !.subject = request[c].subject, !.user = u]
  <1>0. request[c].step = "email" /\ UNCHANGED <<keys, apps, crossed>>
    BY DEF UpdateEmail, At
  <1>1. CASE Retries(c) /\ UNCHANGED users
    BY <1>0, <1>1, RequestRetries DEF Ladder
  <1>2. CASE users' = [users EXCEPT ![u].email = request[c].email] /\ CommitsTo(c, u)
    <2>1. u \in UserId /\ u \in Nat /\ users[u] \in UserRow /\ request[c] \in Request
      BY <1>0, RowTypes DEF AccountsInv, Resolved, Refers, HoldsRecord, UserId
    <2>2. request[c].email \in Emails
      BY <1>0 DEF AccountsInv, Resolved, Refers, Ladder
    <2>3. /\ row \in UserRow /\ row.deleted = users[u].deleted
          /\ row.handle = users[u].handle /\ row.subject = users[u].subject
      BY <2>1, <2>2 DEF UserRow
    <2>4. r \in Request /\ r.step = "load" /\ r.user = u /\ r.subject = request[c].subject
      BY <2>1, CommitsIsTyped
    <2>5. r.subject # Nobody => u \in crossed \/ row.subject = r.subject
      BY <1>0, <2>3, <2>4 DEF AccountsInv, Knows, KnowsWho, HoldsRecord
    <2>6. users' = [users EXCEPT ![u] = row] /\ request' = [request EXCEPT ![c] = r]
      BY <1>2 DEF CommitsTo
    <2> HIDE DEF u, row, r
    <2> QED BY <1>0, <2>1, <2>3, <2>4, <2>5, <2>6, RecordChanges
  <1> QED BY <1>1, <1>2 DEF UpdateEmail

LEMMA AdoptStep ==
  ASSUME AccountsInv, NEW c \in Calls, Adopt(c)
  PROVE  AccountsInv'
  <1> DEFINE u == request[c].user
             row == [users[u] EXCEPT !.subject = request[c].subject]
             r == [Idle EXCEPT !.step = "load", !.subject = request[c].subject, !.user = u]
  <1>0. request[c].step = "adopt" /\ UNCHANGED <<keys, apps>>
    BY DEF Adopt, At
  <1>1. CASE Retries(c) /\ UNCHANGED <<users, crossed>>
    BY <1>0, <1>1, RequestRetries DEF Ladder
  <1>2. CASE /\ users' = [users EXCEPT ![u].subject = request[c].subject] /\ CommitsTo(c, u)
             /\ Marks(u, users[u].subject \notin {request[c].bound, request[c].subject})
    <2>1. /\ u \in UserId /\ u \in Nat /\ users[u] \in UserRow /\ request[c] \in Request
          /\ request[c].subject \in People \union {Nobody}
      BY <1>0, RowTypes DEF AccountsInv, Resolved, Refers, HoldsRecord, UserId, Request
    <2>2. /\ row \in UserRow /\ row.deleted = users[u].deleted
          /\ row.handle = users[u].handle /\ row.subject = request[c].subject
      BY <2>1 DEF UserRow
    <2>3. r \in Request /\ r.step = "load" /\ r.user = u /\ r.subject = request[c].subject
      BY <2>1, CommitsIsTyped
    <2>4. crossed' \in {crossed, crossed \union {u}}
      BY <1>2 DEF Marks
    <2>5. u \in crossed' \/ users[u].subject \in {Nobody, row.subject}
      BY <1>0, <1>2, <2>2 DEF Marks, AccountsInv, Knows, KnowsWho
    <2>6. users' = [users EXCEPT ![u] = row] /\ request' = [request EXCEPT ![c] = r]
      BY <1>2 DEF CommitsTo
    <2> HIDE DEF u, row, r
    <2> QED BY <1>0, <2>1, <2>2, <2>3, <2>4, <2>5, <2>6, RecordChanges
  <1> QED BY <1>1, <1>2 DEF Adopt

LEMMA ClaimHandleStep ==
  ASSUME AccountsInv, NEW c \in Calls, ClaimHandle(c)
  PROVE  AccountsInv'
  <1> DEFINE u == request[c].user
             h == request[c].plan.handle
             row == [users[u] EXCEPT !.handle = h]
  <1>0. request[c].step = "commit" /\ request[c].plan.write = "handle" /\ Ends(c) /\ UNCHANGED <<keys, apps>>
    BY DEF ClaimHandle, At
  <1>1. CASE UNCHANGED <<users, crossed>>
    BY <1>0, <1>1, RequestEnds
  <1>2. CASE /\ users' = [users EXCEPT ![u].handle = h]
             /\ Marks(u, \/ users[u].handle \notin {request[c].plan.own, h}
                           \/ ~(Holders(h) \subseteq request[c].plan.held \union {u}))
    <2>1. u \in UserId /\ users[u] \in UserRow /\ request[c] \in Request
      BY <1>0, RowTypes DEF AccountsInv, Resolved, Refers, HoldsRecord
    <2>2. h \in Handles
      BY <1>0, <2>1 DEF Request, Plan, NoPlan
    <2>3. /\ row \in UserRow /\ row.deleted = users[u].deleted
          /\ row.handle = h /\ row.subject = users[u].subject
      BY <2>1, <2>2 DEF UserRow
    <2>4. crossed' \in {crossed, crossed \union {u}}
      BY <1>2 DEF Marks
    <2>5. request[c].plan.own = NoHandle /\ request[c].plan.held = {}
      BY <1>0 DEF AccountsInv, Knows, KnowsName
    <2>6. \/ u \in crossed'
          \/ row.handle = users[u].handle
          \/ users[u].handle = NoHandle /\ Holders(row.handle) \subseteq {u}
      BY <1>2, <2>3, <2>5 DEF Marks
    <2>7. users' = [users EXCEPT ![u] = row] /\ request' = [request EXCEPT ![c] = Idle]
      BY <1>0, <1>2 DEF Ends
    <2>8. Idle.subject = Nobody
      BY DEF Idle
    <2> HIDE DEF u, row, h
    <2> QED BY <1>0, <2>1, <2>3, <2>4, <2>6, <2>7, <2>8, RecordChanges, IdleIsFine
  <1> QED BY <1>1, <1>2 DEF ClaimHandle

\* A new record is nobody's but its own request's, and has no handle.
LEMMA RecordAdded ==
  ASSUME AccountsInv, NEW row \in UserRow, row.handle = NoHandle,
         users' = Append(users, row), UNCHANGED <<keys, apps, crossed>>,
         request' \in [Calls -> Request],
         \A d \in Calls : \/ request'[d] = request[d]
                          \/ /\ request'[d].step = "load" /\ request'[d].user = Len(users) + 1
                             /\ request'[d].subject = row.subject
  PROVE  AccountsInv'
  <1> USE DEF AccountsInv
  <1>1. users \in Seq(UserRow) /\ Len(users) \in Nat
    BY RowTypes DEF AccountsTypeOK
  <1>2. /\ users' \in Seq(UserRow) /\ UserId' = UserId \union {Len(users) + 1} /\ AppId' = AppId
        /\ Len(users) + 1 \notin UserId
        /\ users'[Len(users) + 1] = row
        /\ \A v \in UserId : users'[v] = users[v]
    BY <1>1, AddedRow DEF UserId, AppId
  <1>3. AccountsTypeOK'
    BY <1>1, <1>2 DEF AccountsTypeOK
  <1>4. Resolved'
    <2>1. \A d \in Calls : Refers(request[d])'
      <3> SUFFICES ASSUME NEW d \in Calls PROVE Refers(request[d])'
        OBVIOUS
      <3>1. Refers(request[d])
        BY DEF Resolved
      <3>2. CASE request'[d] = request[d]
        BY <1>2, <3>1, <3>2 DEF Refers
      <3>3. CASE request'[d].step = "load" /\ request'[d].user = Len(users) + 1
        BY <1>2, <3>3 DEF Refers, Ladder
      <3> QED BY <3>2, <3>3
    <2> QED BY <1>2, <2>1 DEF Resolved
  <1>5. HandlesAreUnique'
    <2> SUFFICES ASSUME NEW u \in UserId', NEW v \in UserId',
                        users'[u].handle = users'[v].handle, users'[u].handle # NoHandle
                 PROVE  u = v \/ {u, v} \intersect crossed # {}
      BY DEF HandlesAreUnique
    <2>1. u \in UserId /\ v \in UserId
      BY <1>2
    <2> QED BY <1>2, <2>1 DEF HandlesAreUnique
  <1>6. \A d \in Calls : Knows(request[d])'
    <2> SUFFICES ASSUME NEW d \in Calls PROVE Knows(request[d])'
      OBVIOUS
    <2>1. Knows(request[d]) /\ Refers(request[d])
      BY DEF Resolved
    <2>2. CASE request'[d] = request[d]
      <3>1. request[d].step \in HoldsRecord => request[d].user \in UserId
        BY <2>1 DEF Refers
      <3> QED BY <1>2, <2>1, <2>2, <3>1 DEF Knows, KnowsWho, KnowsName, HoldsRecord
    <2>3. CASE /\ request'[d].step = "load" /\ request'[d].user = Len(users) + 1
               /\ request'[d].subject = row.subject
      BY <1>2, <2>3 DEF Knows, KnowsWho, KnowsName
    <2> QED BY <2>2, <2>3
  <1>7. \A k \in keys' : KeyIsOwners(k)'
    BY <1>2 DEF KeyIsOwners, Resolved, Live
  <1>8. \A a \in AppId' : NameIsOwners(apps[a])'
    BY <1>2 DEF NameIsOwners, Resolved
  <1> QED BY <1>3, <1>4, <1>5, <1>6, <1>7, <1>8

LEMMA InsertStep ==
  ASSUME AccountsInv, NEW c \in Calls, Insert(c)
  PROVE  AccountsInv'
  <1> DEFINE row == NewUser(request[c].email, request[c].subject)
             r == [Idle EXCEPT !.step = "load", !.subject = request[c].subject, !.user = Len(users) + 1]
  <1>0. request[c].step = "insert" /\ UNCHANGED <<keys, apps, crossed>>
    BY DEF Insert, At
  <1>1. CASE Retries(c) /\ UNCHANGED users
    BY <1>0, <1>1, RequestRetries DEF Ladder
  <1>2. CASE users' = Append(users, row) /\ CommitsTo(c, Len(users) + 1)
    <2>1. /\ request \in [Calls -> Request] /\ request[c] \in Request /\ Len(users) + 1 \in Nat
          /\ request[c].subject \in People \union {Nobody}
      BY RowTypes DEF AccountsInv, AccountsTypeOK, Request
    <2>2. request[c].email \in Emails
      BY <1>0 DEF AccountsInv, Resolved, Refers, Ladder
    <2>3. row \in UserRow /\ row.handle = NoHandle /\ row.subject = request[c].subject
      BY <2>1, <2>2 DEF UserRow, NewUser
    <2>4. r \in Request /\ r.step = "load" /\ r.user = Len(users) + 1 /\ r.subject = request[c].subject
      BY <2>1, CommitsIsTyped
    <2>5. request' = [request EXCEPT ![c] = r]
      BY <1>2 DEF CommitsTo
    <2> HIDE DEF row, r
    <2>6. request' \in [Calls -> Request]
      BY <2>1, <2>4, <2>5
    <2>7. \A d \in Calls : \/ request'[d] = request[d]
                          \/ /\ request'[d].step = "load" /\ request'[d].user = Len(users) + 1
                             /\ request'[d].subject = row.subject
      BY <2>1, <2>3, <2>4, <2>5
    <2> QED BY <1>0, <1>2, <2>3, <2>6, <2>7, RecordAdded
  <1> QED BY <1>1, <1>2 DEF Insert

LEMMA CreateUserStep ==
  ASSUME AccountsInv, CreateUser
  PROVE  AccountsInv'
  <1>1. PICK e \in Emails : users' = Append(users, NewUser(e, Nobody))
    BY DEF CreateUser
  <1>2. NewUser(e, Nobody) \in UserRow /\ NewUser(e, Nobody).handle = NoHandle
    BY DEF NewUser, UserRow
  <1>3. request \in [Calls -> Request]
    BY DEF AccountsInv, AccountsTypeOK
  <1> QED BY <1>1, <1>2, <1>3, RecordAdded DEF CreateUser

-----------------------------------------------------------------------------
(* Hostnames, keys, deletions.                                             *)

\* An answer, or nothing, keeps what the requests know as long as the accounts
\* and the deployments there were are still there.
LEMMA RequestsStay ==
  ASSUME AccountsInv, UNCHANGED users, AppId \subseteq AppId', crossed \subseteq crossed',
         request' = request \/ \E c \in Calls : Ends(c)
  PROVE  /\ request' \in [Calls -> Request]
         /\ \A d \in Calls : Refers(request[d])' /\ Knows(request[d])'
  <1> USE DEF AccountsInv
  <1>1. request \in [Calls -> Request]
    BY DEF AccountsTypeOK
  <1>2. request' \in [Calls -> Request] /\ \A d \in Calls : request'[d] \in {request[d], Idle}
    BY <1>1, IdleIsFine DEF Ends
  <1>3. UserId' = UserId
    BY DEF UserId
  <1>4. \A d \in Calls : Refers(request[d])'
    BY <1>2, <1>3, IdleIsFine DEF Resolved, Refers
  <1>5. ASSUME NEW d \in Calls PROVE Knows(request[d])'
    <2>1. Knows(request'[d])
      BY <1>2, IdleIsFine
    <2> QED BY <2>1 DEF Knows, KnowsWho, KnowsName
  <1> QED BY <1>2, <1>4, <1>5

LEMMA WriteHostnameStep ==
  ASSUME AccountsInv, NEW c \in Calls, WriteHostname(c)
  PROVE  AccountsInv'
  <1> DEFINE plan == request[c].plan
             row == [user |-> request[c].user, label |-> plan.label, handle |-> plan.handle,
                     status |-> "provisioning"]
  <1> USE DEF AccountsInv
  <1>0. /\ request[c].step = "commit" /\ plan.write = "hostname"
        /\ UNCHANGED <<users, keys, crossed>> /\ Ends(c)
    BY DEF WriteHostname, At
  <1>1. /\ apps \in Seq(AppRow) /\ Len(apps) \in Nat /\ request[c] \in Request /\ UserId' = UserId
        /\ request[c].user \in UserId /\ request[c].user \in Nat
        /\ plan.app = 0 \/ plan.app \in AppId
    BY <1>0, RowTypes DEF AccountsTypeOK, Resolved, Refers, HoldsRecord, UserId
  <1>2. row \in AppRow /\ row.user = request[c].user /\ row.handle = plan.handle
    <2>1. plan.label \in Labels /\ plan.handle \in Handles
      BY <1>0, <1>1 DEF Request, Plan, NoPlan
    <2> QED BY <1>1, <2>1 DEF AppRow
  <1>3. NameIsOwners(row)
    BY <1>0, <1>2 DEF Knows, KnowsName, NameIsOwners
  <1>4. \/ UNCHANGED apps
        \/ apps' = Append(apps, row)
        \/ plan.app \in AppId /\ apps' = [apps EXCEPT ![plan.app] = row]
    BY <1>1 DEF WriteHostname
  <1> HIDE DEF plan, row
  <1>5. /\ apps' \in Seq(AppRow) /\ AppId \subseteq AppId'
        /\ \A a \in AppId' : (a \in AppId /\ apps'[a] = apps[a]) \/ apps'[a] = row
    <2>1. CASE UNCHANGED apps
      BY <1>1, <2>1 DEF AppId
    <2>2. CASE apps' = Append(apps, row)
      BY <1>1, <1>2, <2>2, AddedRow DEF AppId
    <2>3. CASE plan.app \in AppId /\ apps' = [apps EXCEPT ![plan.app] = row]
      BY <1>1, <1>2, <2>3, ReplacedRow DEF AppId
    <2> QED BY <1>4, <2>1, <2>2, <2>3
  <1>6. /\ request' \in [Calls -> Request]
        /\ \A d \in Calls : Refers(request[d])' /\ Knows(request[d])'
    BY <1>0, <1>5, RequestsStay
  <1>7. AccountsTypeOK'
    BY <1>0, <1>1, <1>5, <1>6 DEF AccountsTypeOK
  <1>8. Resolved'
    BY <1>0, <1>1, <1>2, <1>5, <1>6 DEF Resolved
  <1>9. HandlesAreUnique'
    BY <1>0, <1>1 DEF HandlesAreUnique
  <1>10. (\A k \in keys : KeyIsOwners(k))' /\ (\A a \in AppId : NameIsOwners(apps[a]))'
    BY <1>0, <1>3, <1>5 DEF KeyIsOwners, NameIsOwners, Live
  <1> QED BY <1>6, <1>7, <1>8, <1>9, <1>10

LEMMA KeyStep ==
  ASSUME AccountsInv, NEW c \in Calls, AddKey(c) \/ DeleteKey(c)
  PROVE  AccountsInv'
  <1> DEFINE new == [user |-> request[c].user, fingerprint |-> request[c].plan.fingerprint,
                     by |-> request[c].subject]
  <1> USE DEF AccountsInv
  <1>0. UNCHANGED <<users, apps>> /\ Ends(c) /\ UserId' = UserId /\ AppId' = AppId
    BY DEF AddKey, DeleteKey, UserId, AppId
  <1>1. \/ keys' \subseteq keys /\ crossed' = crossed
        \/ /\ AddKey(c) /\ keys' = keys \union {new}
           /\ crossed' = IF Live(new.user) THEN crossed ELSE crossed \union {new.user}
    BY DEF AddKey, DeleteKey, Marks
  <1>2. ASSUME AddKey(c)
        PROVE  /\ new \in KeyRow /\ new.user \in UserId
               /\ new.user \in crossed \/ new.by \in {Nobody, users[new.user].subject}
    <2>1. request[c] \in Request /\ request[c].step = "commit" /\ request[c].plan.write = "key"
      BY <1>2, RowTypes DEF AddKey, At
    <2>2. request[c].user \in UserId /\ request[c].user \in Nat /\ request[c].subject \in People \union {Nobody}
      BY <2>1 DEF Resolved, Refers, HoldsRecord, UserId, Request
    <2>3. request[c].plan.fingerprint \in Fingerprints
      BY <2>1 DEF Request, Plan, NoPlan
    <2>4. new.user \in crossed \/ new.by \in {Nobody, users[new.user].subject}
      BY <2>1 DEF Knows, KnowsWho, HoldsRecord
    <2> QED BY <2>2, <2>3, <2>4 DEF KeyRow
  <1> HIDE DEF new
  <1>3. crossed \subseteq crossed' /\ crossed' \subseteq UserId
    BY <1>1, <1>2 DEF AccountsTypeOK
  <1>4. \A k \in keys' : k \in KeyRow /\ k.user \in UserId /\ KeyIsOwners(k)'
    <2> SUFFICES ASSUME NEW k \in keys' PROVE k \in KeyRow /\ k.user \in UserId /\ KeyIsOwners(k)'
      OBVIOUS
    <2>1. CASE k \in keys
      BY <1>0, <1>3, <2>1 DEF AccountsTypeOK, Resolved, KeyIsOwners, Live
    <2>2. CASE k = new /\ AddKey(c) /\ crossed' = IF Live(new.user) THEN crossed ELSE crossed \union {new.user}
      BY <1>0, <1>2, <2>2 DEF KeyIsOwners, Live
    <2> QED BY <1>1, <2>1, <2>2
  <1>5. /\ request' \in [Calls -> Request]
        /\ \A d \in Calls : Refers(request[d])' /\ Knows(request[d])'
    BY <1>0, <1>3, RequestsStay
  <1>6. AccountsTypeOK'
    BY <1>0, <1>3, <1>4, <1>5 DEF AccountsTypeOK
  <1>7. Resolved'
    BY <1>0, <1>4, <1>5 DEF Resolved
  <1>8. HandlesAreUnique'
    BY <1>0, <1>3 DEF HandlesAreUnique
  <1>9. \A a \in AppId' : NameIsOwners(apps[a])'
    BY <1>0, <1>3 DEF NameIsOwners
  <1> QED BY <1>4, <1>5, <1>6, <1>7, <1>8, <1>9

LEMMA AppMovesStep ==
  ASSUME AccountsInv, NEW a \in AppId, AppMoves(a)
  PROVE  AccountsInv'
  <1> USE DEF AccountsInv
  <1>0. UNCHANGED <<users, keys, request, crossed>> /\ UserId' = UserId
    BY DEF AppMoves, UserId
  <1>1. PICK s \in {"ready", "error", "deleted"} : apps' = [apps EXCEPT ![a].status = s]
    BY DEF AppMoves
  <1> DEFINE row == [apps[a] EXCEPT !.status = s]
  <1>2. apps \in Seq(AppRow) /\ Len(apps) \in Nat /\ a \in 1 .. Len(apps) /\ apps[a] \in AppRow
    BY RowTypes DEF AccountsTypeOK, AppId
  <1>3. row \in AppRow /\ row.user = apps[a].user /\ row.handle = apps[a].handle
    BY <1>2 DEF AppRow
  <1>4. apps' = [apps EXCEPT ![a] = row]
    BY <1>1
  <1> HIDE DEF row
  <1>5. /\ apps' \in Seq(AppRow) /\ AppId' = AppId
        /\ \A b \in AppId : apps'[b].user = apps[b].user /\ apps'[b].handle = apps[b].handle
    BY <1>2, <1>3, <1>4, ReplacedRow DEF AppId
  <1>6. /\ request' \in [Calls -> Request]
        /\ \A d \in Calls : Refers(request[d])' /\ Knows(request[d])'
    BY <1>0, <1>5, RequestsStay
  <1>7. AccountsTypeOK'
    BY <1>0, <1>5, <1>6 DEF AccountsTypeOK
  <1>8. Resolved'
    BY <1>0, <1>5, <1>6 DEF Resolved
  <1>9. HandlesAreUnique'
    BY <1>0 DEF HandlesAreUnique
  <1>10. (\A k \in keys : KeyIsOwners(k))' /\ (\A b \in AppId : NameIsOwners(apps[b]))'
    BY <1>0, <1>5 DEF KeyIsOwners, NameIsOwners, Live
  <1> QED BY <1>6, <1>7, <1>8, <1>9, <1>10

\* The record stays, and so does who is bound to it.
LEMMA DeleteUserStep ==
  ASSUME AccountsInv, NEW u \in UserId, DeleteUser(u)
  PROVE  AccountsInv'
  <1> USE DEF AccountsInv
  <1>0. UNCHANGED <<apps, request, crossed>> /\ AppId' = AppId /\ keys' = {k \in keys : k.user # u}
    BY DEF DeleteUser, AppId
  <1> DEFINE row == [users[u] EXCEPT !.deleted = TRUE]
  <1>1. users \in Seq(UserRow) /\ Len(users) \in Nat /\ u \in 1 .. Len(users) /\ users[u] \in UserRow
    BY RowTypes DEF AccountsTypeOK, UserId
  <1>2. /\ row \in UserRow /\ row.deleted = TRUE
        /\ row.subject = users[u].subject /\ row.handle = users[u].handle
    BY <1>1 DEF UserRow
  <1>3. users' = [users EXCEPT ![u] = row]
    BY DEF DeleteUser
  <1> HIDE DEF row
  <1>4. /\ users' \in Seq(UserRow) /\ UserId' = UserId
        /\ \A v \in UserId : users'[v].subject = users[v].subject /\ users'[v].handle = users[v].handle
        /\ \A v \in UserId \ {u} : users'[v] = users[v]
        /\ users'[u].deleted
    BY <1>1, <1>2, <1>3, ReplacedRow DEF UserId
  <1>5. AccountsTypeOK'
    BY <1>0, <1>4 DEF AccountsTypeOK
  <1>6. Resolved'
    BY <1>0, <1>4 DEF Resolved, Refers
  <1>7. HandlesAreUnique'
    BY <1>0, <1>4 DEF HandlesAreUnique
  <1>8. ASSUME NEW d \in Calls PROVE Knows(request[d])'
    <2>1. Knows(request[d])
      OBVIOUS
    <2>2. request[d].step \in HoldsRecord => request[d].user \in UserId
      BY DEF Resolved, Refers
    <2> QED BY <1>0, <1>4, <2>1, <2>2 DEF Knows, KnowsWho, KnowsName, HoldsRecord
  <1>9. \A k \in keys' : KeyIsOwners(k)'
    BY <1>0, <1>4 DEF KeyIsOwners, Resolved, Live
  <1>10. \A a \in AppId' : NameIsOwners(apps[a])'
    BY <1>0, <1>4 DEF NameIsOwners, Resolved
  <1> QED BY <1>0, <1>5, <1>6, <1>7, <1>8, <1>9, <1>10

-----------------------------------------------------------------------------
(* The theorem.                                                            *)

LEMMA InvStep == AccountsInv /\ [AccountsNext]_accountVars => AccountsInv'
  <1> SUFFICES ASSUME AccountsInv, [AccountsNext]_accountVars PROVE AccountsInv'
    OBVIOUS
  <1>1. ASSUME NEW c \in Calls, RequestStep(c) PROVE AccountsInv'
    BY <1>1, ReadStep, UpdateEmailStep, AdoptStep, InsertStep, ClaimHandleStep, WriteHostnameStep, KeyStep
    DEF RequestStep
  <1>2. CASE CreateUser
    BY <1>2, CreateUserStep
  <1>3. ASSUME NEW u \in UserId, DeleteUser(u) PROVE AccountsInv'
    BY <1>3, DeleteUserStep
  <1>4. ASSUME NEW a \in AppId, AppMoves(a) PROVE AccountsInv'
    BY <1>4, AppMovesStep
  <1>5. CASE UNCHANGED accountVars
    BY <1>5 DEF accountVars, AccountsInv, AccountsTypeOK, Resolved, Refers, HandlesAreUnique,
                Knows, KnowsWho, KnowsName, KeyIsOwners, NameIsOwners, Live, UserId, AppId
  <1> QED BY <1>1, <1>2, <1>3, <1>4, <1>5 DEF AccountsNext

\* Accounts stay their owners' for any number of people, addresses, handles,
\* labels, keys and concurrent requests, which cross each other and the deletion
\* of their account at every step: whoever acts on an account is the person it
\* is bound to, the names under a handle are one account's for good, and the
\* keys that open its apps are the ones its person registered; except for the
\* records to which a request wrote over a change that it had not seen, and for
\* nobody else's (services/users.py, deps.py, resolve.go).
THEOREM AccountsSound == AccountsSpec => []AccountsAreSound
  <1>1. AccountsSpec => []AccountsInv
    BY InvInit, InvStep, PTL DEF AccountsSpec
  <1>2. AccountsInv => AccountsAreSound
    BY InvIsEnough
  <1> QED BY <1>1, <1>2, PTL
=============================================================================
