----------------------------- MODULE AppSignOut -----------------------------
(* Signing a browser out of the apps it used (daemons/app-auth).            *)
(*                                                                          *)
(* A browser signs in to Keycloak once and then to tenant apps through the  *)
(* login host. A header app keeps a sealed session cookie that names the    *)
(* Keycloak session; an OIDC app keeps a session of its own under a `sid`.  *)
(* When the Keycloak session ends, Keycloak reports it, app-auth records it *)
(* and tells the OIDC apps, and the verifier applies it to header cookies   *)
(* from a copy of the records that it refreshes incrementally.              *)
(*                                                                          *)
(* Time is the model's clock; the units of the lifetimes are arbitrary.     *)
EXTENDS Integers

CONSTANTS Tabs,           \* sign-ins of a browser to an app, one each
          Logins,         \* Keycloak sessions, begun at clock 0
          SessionTTL,     \* sessionTTL of a header cookie
          CodeTTL,        \* codeTTL
          ConsentTTL,     \* consentTTL
          EndedRetention, \* endedRetention
          EndedLookback,  \* endedLookback
          SignInRetention,\* signInRetention
          LoginLifespan,  \* Keycloak's sso_session_max_lifespan
          TxTimeout,      \* the request timeout that bounds endSession
          TokenAge,       \* logoutTokenAge
          MaxClock,       \* bound: the clock stops here
          MaxRestarts,    \* bound: restarts of the process
          MaxRotations    \* bound: rotations of the sealing keyring

ASSUME SignOutAssumption ==
  /\ {SessionTTL, CodeTTL, ConsentTTL, EndedRetention, EndedLookback, SignInRetention,
      LoginLifespan, TxTimeout, TokenAge, MaxClock, MaxRestarts, MaxRotations} \subseteq Nat
  /\ TxTimeout <= EndedLookback /\ SessionTTL <= EndedRetention
  /\ LoginLifespan <= SignInRetention /\ Logins # {}

NoTime == -1

VARIABLES
  protocol,   \* how the app signs people in: "header" or "oidc"
  clock,
  tab,        \* tab[t]: where the sign-in stands (sealed cookies, codes, sessions)
  notice,     \* notice[l]: Keycloak's report of l's end
  endedRow,   \* app_auth_ended_session: l -> ended_at, or NoTime
  signInRow,  \* app_auth_sign_in for the OIDC app: l -> [at, sid], at = NoTime if absent
  deliveries, \* sign-ins whose app is still to be sent a logout token
  key,        \* the keyring's first key, from which a sid is derived
  held,       \* endedCache.ids
  latest,     \* endedCache.latest
  loaded,     \* endedCache.loaded
  restarts,
  endedAt,    \* history: when l was recorded as ended
  covered     \* history: logins already recorded when this process last refreshed

signOutVars == <<protocol, clock, tab, notice, endedRow, signInRow, deliveries, key,
                 held, latest, loaded, restarts, endedAt, covered>>

NoSignIn == [st |-> "away", login |-> CHOOSE l \in Logins : TRUE,
         since |-> NoTime, till |-> NoTime, sid |-> 0]
NoSignInRow == [at |-> NoTime, sid |-> 0]

SignOutInit ==
  /\ protocol \in {"header", "oidc"}
  /\ clock = 0
  /\ tab = [t \in Tabs |-> NoSignIn]
  /\ notice = [l \in Logins |-> [st |-> "none", at |-> NoTime]]
  /\ endedRow = [l \in Logins |-> NoTime]
  /\ signInRow = [l \in Logins |-> NoSignInRow]
  /\ deliveries = {} /\ key = 1
  /\ held = [l \in Logins |-> NoTime] /\ latest = NoTime /\ loaded = FALSE
  /\ restarts = 0 /\ endedAt = [l \in Logins |-> NoTime] /\ covered = {}

-----------------------------------------------------------------------------
(* Signing in.                                                              *)

\* A code is stored for the app to redeem. For an OIDC app the sign-in is
\* recorded in the same transaction, and an existing record keeps its sid.
IssueCode(t, l) ==
  LET sid == IF signInRow[l].at = NoTime THEN key ELSE signInRow[l].sid IN
  /\ tab' = [tab EXCEPT ![t] = [st |-> "code", login |-> l,
                                since |-> NoTime, till |-> clock + CodeTTL,
                                sid |-> IF protocol = "oidc" THEN sid ELSE 0]]
  /\ signInRow' = IF protocol = "oidc" THEN [signInRow EXCEPT ![l] = [at |-> clock, sid |-> sid]]
                                       ELSE signInRow

\* The Keycloak leg returns: with a consent on record a code is issued at
\* once, otherwise the identity waits, sealed, for the consent page.
ReturnFromKeycloak(t, l) ==
  /\ tab[t].st = "away" /\ notice[l].st = "none" /\ clock < LoginLifespan
  /\ \/ IssueCode(t, l)
     \/ /\ tab' = [tab EXCEPT ![t] = [st |-> "consent", login |-> l,
                                      since |-> NoTime, till |-> clock + ConsentTTL, sid |-> 0]]
        /\ UNCHANGED signInRow
  /\ UNCHANGED <<protocol, clock, notice, endedRow, deliveries, key, held, latest, loaded, restarts, endedAt, covered>>

\* The consent page is answered while its cookie still opens.
AnswerConsent(t) ==
  /\ tab[t].st = "consent" /\ clock < tab[t].till
  /\ \/ IssueCode(t, tab[t].login)
     \/ tab' = [tab EXCEPT ![t].st = "closed"] /\ UNCHANGED signInRow
  /\ UNCHANGED <<protocol, clock, notice, endedRow, deliveries, key, held, latest, loaded, restarts, endedAt, covered>>

\* The code is redeemed: burnt, and worth a session only while it is fresh.
\* Neither redemption looks at the ended sessions.
RedeemCode(t) ==
  /\ tab[t].st = "code"
  /\ tab' = IF tab[t].till > clock
            THEN [tab EXCEPT ![t].st = "signedIn", ![t].since = clock, ![t].till = clock + SessionTTL]
            ELSE [tab EXCEPT ![t].st = "closed"]
  /\ UNCHANGED <<protocol, clock, notice, endedRow, signInRow, deliveries, key, held, latest, loaded, restarts, endedAt, covered>>

\* Rotating the sealing keys changes the sids derived from now on.
RotateKeys ==
  /\ key <= MaxRotations
  /\ key' = key + 1
  /\ UNCHANGED <<protocol, clock, tab, notice, endedRow, signInRow, deliveries, held, latest, loaded, restarts, endedAt, covered>>

-----------------------------------------------------------------------------
(* Signing out.                                                             *)

\* Signing out of a header app: the verifier drops the cookie and the broker
\* sends the browser to Keycloak, which asks before it ends the session.
SignOutOfHeaderApp(t) ==
  /\ protocol = "header" /\ tab[t].st = "signedIn"
  /\ tab' = [tab EXCEPT ![t].st = "closed"]
  /\ UNCHANGED <<protocol, clock, notice, endedRow, signInRow, deliveries, key, held, latest, loaded, restarts, endedAt, covered>>

\* Signing out of an OIDC app: it ends its own session and sends the browser
\* to the end-session endpoint, which keeps the sign-in on record until
\* Keycloak says that the session ended.
SignOutOfOidcApp(t) ==
  /\ protocol = "oidc" /\ tab[t].st = "signedIn"
  /\ tab' = [tab EXCEPT ![t].st = "closed"]
  /\ UNCHANGED <<protocol, clock, notice, endedRow, signInRow, deliveries, key, held, latest, loaded, restarts, endedAt, covered>>

\* Keycloak ends the session and signs a logout token that may be lost.
KeycloakEnds(l) ==
  /\ notice[l].st = "none"
  /\ notice' = [notice EXCEPT ![l] = [st |-> "sent", at |-> clock]]
  /\ UNCHANGED <<protocol, clock, tab, endedRow, signInRow, deliveries, key, held, latest, loaded, restarts, endedAt, covered>>

\* backchannelLogout takes a token that is not too old and begins the
\* transaction of endSession; ended_at is the time the transaction began.
BeginEnd(l) ==
  /\ notice[l].st = "sent"
  /\ notice' = [notice EXCEPT ![l] = IF clock - notice[l].at > TokenAge
                                     THEN [st |-> "refused", at |-> clock]
                                     ELSE [st |-> "ending", at |-> clock]]
  /\ UNCHANGED <<protocol, clock, tab, endedRow, signInRow, deliveries, key, held, latest, loaded, restarts, endedAt, covered>>

\* It commits, possibly later than rows that began after it: the session is
\* ended, and its sign-ins are taken for delivery.
CommitEnd(l) ==
  /\ notice[l].st = "ending"
  /\ notice' = [notice EXCEPT ![l].st = "answered"]
  /\ endedRow' = [endedRow EXCEPT ![l] = notice[l].at]
  /\ endedAt' = [endedAt EXCEPT ![l] = notice[l].at]
  /\ deliveries' = IF signInRow[l].at = NoTime THEN deliveries
                   ELSE deliveries \union {[login |-> l, sid |-> signInRow[l].sid]}
  /\ signInRow' = [signInRow EXCEPT ![l] = NoSignInRow]
  /\ UNCHANGED <<protocol, clock, tab, key, held, latest, loaded, restarts, covered>>

\* The app is sent its logout token, once: it ends the sessions of that sid,
\* or the delivery fails and is never retried.
DeliverLogout(d) ==
  /\ d \in deliveries
  /\ deliveries' = deliveries \ {d}
  /\ \/ tab' = [t \in Tabs |->
                 IF tab[t].st = "signedIn" /\ tab[t].login = d.login /\ tab[t].sid = d.sid
                 THEN [tab[t] EXCEPT !.st = "closed"] ELSE tab[t]]
     \/ UNCHANGED tab
  /\ UNCHANGED <<protocol, clock, notice, endedRow, signInRow, key, held, latest, loaded, restarts, endedAt, covered>>

\* Mutant of Refresh: it reads on from the latest row, without looking back.
Refresh_NoLookback ==
  LET since == IF loaded THEN latest ELSE NoTime
      rows == {l \in Logins : endedRow[l] # NoTime /\ endedRow[l] > since}
      grown == [l \in Logins |-> IF l \in rows THEN endedRow[l] ELSE held[l]]
      after == {endedRow[l] : l \in rows} \union {latest} IN
  /\ held' = [l \in Logins |-> IF grown[l] < clock - EndedRetention THEN NoTime ELSE grown[l]]
  /\ latest' = CHOOSE m \in after : \A x \in after : x <= m
  /\ loaded' = TRUE
  /\ covered' = covered \union {l \in Logins : endedRow[l] # NoTime}
  /\ UNCHANGED <<protocol, clock, tab, notice, endedRow, signInRow, deliveries, key, restarts, endedAt>>

\* The verifier reads the sessions that ended since the latest it holds, less
\* the lookback, and forgets those past the retention.
Refresh ==
  LET since == IF loaded THEN latest - EndedLookback ELSE NoTime
      rows == {l \in Logins : endedRow[l] # NoTime /\ endedRow[l] >= since}
      grown == [l \in Logins |-> IF l \in rows THEN endedRow[l] ELSE held[l]]
      after == {endedRow[l] : l \in rows} \union {latest} IN
  /\ held' = [l \in Logins |-> IF grown[l] < clock - EndedRetention THEN NoTime ELSE grown[l]]
  /\ latest' = CHOOSE m \in after : \A x \in after : x <= m
  /\ loaded' = TRUE
  /\ covered' = covered \union {l \in Logins : endedRow[l] # NoTime}
  /\ UNCHANGED <<protocol, clock, tab, notice, endedRow, signInRow, deliveries, key, restarts, endedAt>>

\* purgeLoop removes sign-out records past their retention.
PurgeSignOuts ==
  /\ endedRow' = [l \in Logins |-> IF endedRow[l] < clock - EndedRetention THEN NoTime ELSE endedRow[l]]
  /\ signInRow' = [l \in Logins |-> IF signInRow[l].at < clock - SignInRetention THEN NoSignInRow ELSE signInRow[l]]
  /\ UNCHANGED <<protocol, clock, tab, notice, deliveries, key, held, latest, loaded, restarts, endedAt, covered>>

\* The process restarts: its copy and the deliveries in flight are lost.
Restart ==
  /\ restarts < MaxRestarts /\ restarts' = restarts + 1
  /\ held' = [l \in Logins |-> NoTime] /\ latest' = NoTime /\ loaded' = FALSE
  /\ deliveries' = {} /\ covered' = {}
  /\ UNCHANGED <<protocol, clock, tab, notice, endedRow, signInRow, key, endedAt>>

\* Time passes; no transaction outlives its request's timeout.
Tick ==
  /\ clock < MaxClock
  /\ \A l \in Logins : notice[l].st = "ending" => clock - notice[l].at < TxTimeout
  /\ clock' = clock + 1
  /\ UNCHANGED <<protocol, tab, notice, endedRow, signInRow, deliveries, key, held, latest, loaded, restarts, endedAt, covered>>

SignOutNext ==
  \/ \E t \in Tabs, l \in Logins : ReturnFromKeycloak(t, l)
  \/ \E t \in Tabs : AnswerConsent(t) \/ RedeemCode(t) \/ SignOutOfHeaderApp(t) \/ SignOutOfOidcApp(t)
  \/ \E l \in Logins : KeycloakEnds(l) \/ BeginEnd(l) \/ CommitEnd(l)
  \/ \E d \in deliveries : DeliverLogout(d)
  \/ RotateKeys \/ Refresh \/ PurgeSignOuts \/ Restart \/ Tick

SignOutSpec == SignOutInit /\ [][SignOutNext]_signOutVars

SignOutFairness == WF_signOutVars(Refresh)

-----------------------------------------------------------------------------
\* The verifier lets t's cookie through: a copy has been read, the cookie has
\* not expired, and its Keycloak session is not known to have ended.
Serves(t) ==
  /\ loaded
  /\ tab[t].st = "signedIn" /\ protocol = "header" /\ clock < tab[t].till
  /\ held[tab[t].login] = NoTime

SignOutTypeOK ==
  /\ protocol \in {"header", "oidc"} /\ clock \in 0..MaxClock /\ key \in 1..(MaxRotations + 1) /\ restarts \in 0..MaxRestarts
  /\ loaded \in BOOLEAN /\ latest \in NoTime..MaxClock /\ covered \subseteq Logins
  /\ endedRow \in [Logins -> NoTime..MaxClock] /\ endedAt \in [Logins -> NoTime..MaxClock]
  /\ held \in [Logins -> NoTime..MaxClock]
  /\ signInRow \in [Logins -> [at : NoTime..MaxClock, sid : 0..(MaxRotations + 1)]]
  /\ deliveries \subseteq [login : Logins, sid : 1..(MaxRotations + 1)]
  /\ notice \in [Logins -> [st : {"none", "sent", "refused", "ending", "answered"}, at : NoTime..MaxClock]]
  /\ \A t \in Tabs : tab[t].st \in {"away", "consent", "code", "signedIn", "closed"} /\ tab[t].login \in Logins

\* Once the verifier has read its records after a sign-out was recorded, no
\* cookie issued up to that sign-out is served again: not when the record was
\* committed behind one already read, not after the record is forgotten, and
\* not after a restart.
SignOutHolds ==
  \A t \in Tabs : tab[t].login \in covered /\ tab[t].since <= endedAt[tab[t].login] => ~Serves(t)

\* A logout token names the session the app holds: until a sign-in can have
\* been purged it is on record, and every code and session issued from it
\* carries the recorded sid, across rotations of the keys sids derive from.
SidsAgree ==
  clock <= SignInRetention =>
    \A t \in Tabs : /\ protocol = "oidc" /\ tab[t].st \in {"code", "signedIn"}
                    /\ endedAt[tab[t].login] = NoTime
                    => signInRow[tab[t].login].at # NoTime /\ signInRow[tab[t].login].sid = tab[t].sid

\* A recorded sign-out reaches the header apps: the verifier comes to refuse
\* for good the cookies issued up to it, whatever restarts, late commits and
\* purges come in between.
SignOutIsApplied ==
  \A t \in Tabs : (endedAt[tab[t].login] # NoTime /\ tab[t].since <= endedAt[tab[t].login])
                  ~> [](~Serves(t) \/ tab[t].since > endedAt[tab[t].login])

\* Signing out of Keycloak signs out of the apps: what this module promises of
\* every interleaving of sign-ins, sign-outs, refreshes, purges and restarts.
SignOutsHold == SignOutTypeOK /\ SignOutHolds /\ SidsAgree
=============================================================================
