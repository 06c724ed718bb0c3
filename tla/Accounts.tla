------------------------------- MODULE Accounts -------------------------------
(***************************************************************************)
(* Who an account belongs to: the records of users (services/users.py),    *)
(* how a request finds its caller's (deps.py), the handle an account       *)
(* claims and the hostnames made of it (services/hostnames.py), and its    *)
(* SSH keys, with which the edge lets into its apps                        *)
(* (services/ssh_keys.py, src/daemons/ssh-auth).                           *)
(*                                                                         *)
(* Nothing is locked.  A request reads in statements of their own, decides,*)
(* and writes; unique indexes over live records are what is left to refuse *)
(* a write, and an update names its row by id alone.  Requests of one      *)
(* account, and its deletion, cross at every step; `crossed' keeps which   *)
(* accounts were written to by a request that had not seen a change.       *)
(***************************************************************************)
EXTENDS Integers, Sequences, FiniteSets

CONSTANTS
  People,          \* Keycloak subjects
  Nobody,          \* a null subject: an unbound record, a request without one
  Emails,
  Callers,         \* the identities that requests present: a subject and an address
  Handles,         \* well-formed handles that are not reserved
  NoHandle,
  Labels,          \* application labels
  Fingerprints,    \* SSH keys
  Calls,           \* requests that may be in progress at once
  MaxUsers, MaxApps  \* bounds: records and deployments ever made

ASSUME AccountsAssumption ==
  /\ Callers \subseteq [subject : People \union {Nobody}, email : Emails]
  /\ Nobody \notin People \union Emails /\ NoHandle \notin Handles
  /\ MaxUsers \in Nat /\ MaxApps \in Nat

VARIABLES
  users,   \* the user table; a record's id is its position
  keys,    \* user_ssh_key: the account, the key, and (history) who registered it
  apps,    \* deployments: owner, hostname and status
  request, \* request[c]: what request c has found, loaded and decided
  crossed  \* history: records a request wrote to over a change it had not seen

accountVars == <<users, keys, apps, request, crossed>>

UserId == 1 .. Len(users)
AppId == 1 .. Len(apps)

UserRow == [email : Emails, subject : People \union {Nobody}, handle : Handles \union {NoHandle},
            deleted : BOOLEAN]
AppRow == [user : Nat, label : Labels, handle : Handles,
           status : {"provisioning", "ready", "error", "deleted"}]
KeyRow == [user : Nat, fingerprint : Fingerprints, by : People \union {Nobody}]

\* Nothing decided, a handle to claim (with, as history, the account's own and
\* the accounts that had it), a hostname for a new deployment (app 0) or for one
\* that exists, a key to register.
NoPlan == [write |-> "nothing"]
Plan == {NoPlan}
        \union [write : {"handle"}, handle : Handles, own : Handles \union {NoHandle}, held : SUBSET Nat]
        \union [write : {"hostname"}, app : Nat, label : Labels, handle : Handles]
        \union [write : {"key"}, fingerprint : Fingerprints]

Request == [step : {"idle", "bySubject", "byEmail", "address", "email", "adopt", "insert", "load",
                    "loaded", "commit"},
            subject : People \union {Nobody}, email : Emails \union {Nobody}, retried : BOOLEAN, user : Nat,
            bound : People \union {Nobody}, \* (history) whose the record to adopt was when it was found
            handle : Handles \union {NoHandle}, deleted : BOOLEAN, plan : Plan]

AccountsTypeOK ==
  /\ users \in Seq(UserRow) /\ apps \in Seq(AppRow)
  /\ keys \subseteq KeyRow
  /\ request \in [Calls -> Request]
  /\ crossed \subseteq UserId

Idle == [step |-> "idle", subject |-> Nobody, email |-> Nobody,
         retried |-> FALSE, user |-> 0, bound |-> Nobody, handle |-> NoHandle, deleted |-> FALSE, plan |-> NoPlan]

AccountsInit ==
  /\ users = << >> /\ keys = {} /\ apps = << >> /\ crossed = {}
  /\ request = [c \in Calls |-> Idle]

-----------------------------------------------------------------------------
(* The tables and their partial unique indexes.                            *)

Live(u) == ~users[u].deleted
Bound(s) == {u \in UserId : Live(u) /\ users[u].subject = s}
Addressed(e) == {u \in UserId : Live(u) /\ users[u].email = e}
Holders(h) == {u \in UserId : users[u].handle = h}

\* uq_hostname_active.
Named(label, handle) ==
  {a \in AppId : apps[a].status # "deleted" /\ apps[a].label = label /\ apps[a].handle = handle}

\* May record u, if it is live, take what the records in taken have?
Free(u, taken) == users[u].deleted \/ taken \subseteq {u}

\* A request goes on at a step, or ends with an answer.
At(c, step) == request[c].step = step
Goes(c, step) == request' = [request EXCEPT ![c].step = step]
Ends(c) == request' = [request EXCEPT ![c] = Idle]

\* The record u that a request found is loaded as it is now.
Loads(c, u) ==
  request' = [request EXCEPT ![c] = [Idle EXCEPT !.step = "loaded", !.subject = request[c].subject, !.user = u,
                                                 !.handle = users[u].handle, !.deleted = users[u].deleted]]

\* Its own write to record u is committed; it reads the record again.
CommitsTo(c, u) ==
  request' = [request EXCEPT ![c] = [Idle EXCEPT !.step = "load", !.subject = request[c].subject, !.user = u]]

\* A write that an index refuses: get_current_user rolls back and starts again,
\* once.
Retries(c) ==
  request' = [request EXCEPT ![c] = IF request[c].retried THEN Idle
                                    ELSE [request[c] EXCEPT !.step = "bySubject", !.user = 0,
                                                            !.bound = Nobody, !.retried = TRUE]]

\* A write to record u commits; it is late if the request had not seen what it
\* is committed over.
Marks(u, late) == crossed' = IF late THEN crossed \union {u} ELSE crossed
-----------------------------------------------------------------------------
(* get_current_user: the ladder of _resolve_user.                          *)

Arrive(c) ==
  /\ At(c, "idle")
  /\ \E who \in Callers :
       request' = [request EXCEPT ![c] = [Idle EXCEPT !.step = "bySubject", !.subject = who.subject,
                                                      !.email = who.email]]
  /\ UNCHANGED <<users, keys, apps, crossed>>

\* The record bound to the subject, with the address it presents or another.
FindBySubject(c) ==
  /\ At(c, "bySubject")
  /\ LET found == IF request[c].subject = Nobody THEN {} ELSE Bound(request[c].subject)
     IN \/ found = {} /\ Goes(c, "byEmail")
        \/ \E u \in found :
             IF users[u].email = request[c].email THEN Loads(c, u)
             ELSE request' = [request EXCEPT ![c].step = "address", ![c].user = u]
  /\ UNCHANGED <<users, keys, apps, crossed>>

\* The new address must not be another live record's.
CheckAddress(c) ==
  /\ At(c, "address")
  /\ IF Addressed(request[c].email) = {} THEN Goes(c, "email") ELSE Ends(c)
  /\ UNCHANGED <<users, keys, apps, crossed>>

UpdateEmail(c) ==
  /\ At(c, "email")
  /\ LET u == request[c].user
     IN IF Free(u, Addressed(request[c].email))
        THEN users' = [users EXCEPT ![u].email = request[c].email] /\ CommitsTo(c, u)
        ELSE UNCHANGED users /\ Retries(c)
  /\ UNCHANGED <<keys, apps, crossed>>

\* Mutant of Adoptable: a record that is bound is adopted as well.
Adoptable_Bound(u) == TRUE

\* The record holding the address may be taken over: nobody is bound to it.
Adoptable(u) == users[u].subject = Nobody

\* Else the record with the address: one that is bound refuses, an unbound one
\* is adopted, or serves a request without a subject as it is.
FindByEmail(c) ==
  /\ At(c, "byEmail")
  /\ LET found == Addressed(request[c].email)
     IN \/ found = {} /\ Goes(c, "insert")
        \/ \E u \in found :
             IF request[c].subject = Nobody THEN Loads(c, u)
             ELSE IF Adoptable(u)
                  THEN request' = [request EXCEPT ![c].step = "adopt", ![c].user = u,
                                                  ![c].bound = users[u].subject]
                  ELSE Ends(c)
  /\ UNCHANGED <<users, keys, apps, crossed>>

\* The update names the record's id; whether it is still unbound is not asked.
Adopt(c) ==
  /\ At(c, "adopt")
  /\ LET u == request[c].user
     IN IF Free(u, Bound(request[c].subject))
        THEN /\ users' = [users EXCEPT ![u].subject = request[c].subject]
             /\ Marks(u, users[u].subject \notin {request[c].bound, request[c].subject})
             /\ CommitsTo(c, u)
        ELSE UNCHANGED <<users, crossed>> /\ Retries(c)
  /\ UNCHANGED <<keys, apps>>

NewUser(email, subject) ==
  [email |-> email, subject |-> subject, handle |-> NoHandle, deleted |-> FALSE]

\* Else a new record, bound from the beginning.
Insert(c) ==
  /\ At(c, "insert") /\ Len(users) < MaxUsers
  /\ LET taken == Addressed(request[c].email)
                  \union (IF request[c].subject = Nobody THEN {} ELSE Bound(request[c].subject))
     IN IF taken = {}
        THEN /\ users' = Append(users, NewUser(request[c].email, request[c].subject))
             /\ CommitsTo(c, Len(users) + 1)
        ELSE UNCHANGED users /\ Retries(c)
  /\ UNCHANGED <<keys, apps, crossed>>

\* A commit expired the record; the handler's first look at it reads it again.
LoadAgain(c) ==
  /\ At(c, "load")
  /\ Loads(c, request[c].user)
  /\ UNCHANGED <<users, keys, apps, crossed>>

-----------------------------------------------------------------------------
(* What the requests do: checks, then one commit.                          *)

Decides(c, plan) ==
  request' = [request EXCEPT ![c] = [Idle EXCEPT !.step = "commit", !.subject = request[c].subject,
                                                 !.user = request[c].user, !.plan = plan]]

\* claim_handle: for an account without one, and a handle nobody holds, the
\* deleted accounts included.
CheckHandle(c) ==
  /\ At(c, "loaded")
  /\ request[c].handle = NoHandle
  /\ \E h \in Handles :
       /\ Holders(h) = {}
       /\ Decides(c, [write |-> "handle", handle |-> h, own |-> request[c].handle, held |-> Holders(h)])
  /\ UNCHANGED <<users, keys, apps, crossed>>

ClaimHandle(c) ==
  /\ At(c, "commit") /\ request[c].plan.write = "handle"
  /\ LET u == request[c].user
         plan == request[c].plan
         h == plan.handle
     IN IF Free(u, {v \in Holders(h) : Live(v)})
        THEN /\ users' = [users EXCEPT ![u].handle = h]
             /\ Marks(u, \/ users[u].handle \notin {plan.own, h}
                           \/ ~(Holders(h) \subseteq plan.held \union {u}))
        ELSE UNCHANGED <<users, crossed>>
  /\ Ends(c)
  /\ UNCHANGED <<keys, apps>>

\* create_deployment and update_deployment: a tenant hostname ends in the
\* owner's handle and is not in use (require_valid_hostname_for_deployment).
CheckHostname(c) ==
  /\ At(c, "loaded")
  /\ request[c].handle # NoHandle
  /\ \E label \in Labels, a \in {0} \union {b \in AppId : apps[b].user = request[c].user} :
       /\ IF a = 0 THEN ~request[c].deleted ELSE apps[a].status # "deleted"
       /\ Named(label, request[c].handle) \subseteq {a}
       /\ Decides(c, [write |-> "hostname", app |-> a, label |-> label, handle |-> request[c].handle])
  /\ UNCHANGED <<users, keys, apps, crossed>>

\* A new deployment, or one whose release is replaced while it is ready.
WriteHostname(c) ==
  /\ At(c, "commit") /\ request[c].plan.write = "hostname"
  /\ LET plan == request[c].plan
         row == [user |-> request[c].user, label |-> plan.label, handle |-> plan.handle,
                 status |-> "provisioning"]
         free == Named(plan.label, plan.handle) \subseteq {plan.app}
     IN apps' = IF plan.app = 0
                THEN IF free /\ Len(apps) < MaxApps THEN Append(apps, row) ELSE apps
                ELSE IF free /\ apps[plan.app].status = "ready"
                     THEN [apps EXCEPT ![plan.app] = row] ELSE apps
  /\ Ends(c)
  /\ UNCHANGED <<users, keys, crossed>>

\* add_key: not one the account has; delete_key.
KeysOf(u) == {k.fingerprint : k \in {j \in keys : j.user = u}}

CheckKey(c) ==
  /\ At(c, "loaded")
  /\ \E f \in Fingerprints \ KeysOf(request[c].user) :
       Decides(c, [write |-> "key", fingerprint |-> f])
  /\ UNCHANGED <<users, keys, apps, crossed>>

AddKey(c) ==
  /\ At(c, "commit") /\ request[c].plan.write = "key"
  /\ LET u == request[c].user
         f == request[c].plan.fingerprint
     IN IF f \in KeysOf(u) THEN UNCHANGED <<keys, crossed>>
        ELSE /\ keys' = keys \union {[user |-> u, fingerprint |-> f, by |-> request[c].subject]}
             /\ Marks(u, ~Live(u)) \* it was found live
  /\ Ends(c)
  /\ UNCHANGED <<users, apps>>

DeleteKey(c) ==
  /\ At(c, "loaded")
  /\ \E k \in keys : k.user = request[c].user /\ keys' = keys \ {k}
  /\ Ends(c)
  /\ UNCHANGED <<users, apps, crossed>>

\* Every other answer, reads and refusals included.
Answer(c) == At(c, "loaded") /\ Ends(c) /\ UNCHANGED <<users, keys, apps, crossed>>

RequestStep(c) ==
  \/ Arrive(c) \/ FindBySubject(c) \/ CheckAddress(c) \/ UpdateEmail(c)
  \/ FindByEmail(c) \/ Adopt(c) \/ Insert(c) \/ LoadAgain(c)
  \/ CheckHandle(c) \/ ClaimHandle(c) \/ CheckHostname(c) \/ WriteHostname(c)
  \/ CheckKey(c) \/ AddKey(c) \/ DeleteKey(c) \/ Answer(c)

-----------------------------------------------------------------------------
(* Records made and deleted by hand, and what happens to deployments.      *)

\* create_user: an unbound record.
CreateUser ==
  /\ Len(users) < MaxUsers
  /\ \E e \in Emails : Addressed(e) = {} /\ users' = Append(users, NewUser(e, Nobody))
  /\ UNCHANGED <<keys, apps, request, crossed>>

\* delete_user: the record stays, its keys go.
DeleteUser(u) ==
  /\ Live(u)
  /\ users' = [users EXCEPT ![u].deleted = TRUE]
  /\ keys' = {k \in keys : k.user # u}
  /\ UNCHANGED <<apps, request, crossed>>

\* Reconciles move a deployment as DeploymentLifecycle says.
AppMoves(a) ==
  /\ \E s \in {"ready", "error", "deleted"} :
       /\ apps[a].status \notin {s, "deleted"}
       /\ apps' = [apps EXCEPT ![a].status = s]
  /\ UNCHANGED <<users, keys, request, crossed>>

AccountsNext ==
  \/ \E c \in Calls : RequestStep(c)
  \/ CreateUser \/ \E u \in UserId : DeleteUser(u)
  \/ \E a \in AppId : AppMoves(a)

AccountsSpec == AccountsInit /\ [][AccountsNext]_accountVars

\* resolve of the SSH edge: a key opens an app that is up or broken, if the
\* account that owns the app has registered it.
Reachable == {"ready", "error"}
Opens(k, a) == apps[a].user = k.user /\ apps[a].status \in Reachable

-----------------------------------------------------------------------------
(* Properties.                                                             *)

\* Who acts on an account is who it is bound to: a request that has found or
\* adopted the record for a person's subject finds that subject in it until it
\* answers, whatever others create, adopt, rename or delete meanwhile
\* (_resolve_user), unless two people's adoptions of the record crossed.
OnePersonPerAccount ==
  \A c \in Calls :
    request[c].step \in {"load", "loaded", "commit"} /\ request[c].subject # Nobody
      => request[c].user \in crossed \/ users[request[c].user].subject = request[c].subject

\* The names under a handle are one account's, a deleted one's included: a
\* deployment's suffix stays its owner's, and nobody else has it (claim_handle,
\* _check_tenant_label), unless claims for one of the two crossed.
SuffixesAreOwners ==
  \A a \in AppId :
    LET owner == apps[a].user
    IN /\ owner \in crossed \/ apps[a].handle = users[owner].handle
       /\ \A u \in Holders(apps[a].handle) \ {owner} : {u, owner} \intersect crossed # {}

\* Into an app gets who holds a key that its owner registered: the person who
\* did is the one the account is bound to, and no key outlives its account
\* (add_key, delete_user, resolve), unless the account was adopted by two, or
\* deleted while the key was registered.
AppsOpenToOwners ==
  \A k \in keys, a \in AppId : Opens(k, a) =>
    \/ apps[a].user \in crossed
    \/ Live(apps[a].user) /\ k.by \in {Nobody, users[apps[a].user].subject}

\* Accounts, their names and their keys stay their owners'; what requests that
\* cross do wrong stays with the records they wrote to.
AccountsAreSound ==
  AccountsTypeOK /\ OnePersonPerAccount /\ SuffixesAreOwners /\ AppsOpenToOwners

-----------------------------------------------------------------------------
(* Statements of the code's comments and specifications that it does not   *)
(* keep: each shows what a record in `crossed' may come to.                *)

\* claim_handle: a claim is accepted only for an account holding no handle, and
\* never reversible.
ClaimIsFinal ==
  [][\A u \in UserId : users[u].handle # NoHandle => users'[u].handle = users[u].handle]_accountVars

\* delete_user: no key outlives its owner, in any state.
KeysGoWithAccount == \A k \in keys : Live(k.user)
=============================================================================
