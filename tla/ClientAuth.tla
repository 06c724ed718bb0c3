----------------------------- MODULE ClientAuth -----------------------------
(* The credentials of the command line (cli/src/freepod/auth.py) and the    *)
(* requests made with them (api.py): sign-in by a loopback redirect or a    *)
(* device code, a token cache shared by all commands of a machine, and for  *)
(* every request at most one renewal and, where it is safe, retries.        *)
EXTENDS Naturals, FiniteSets

CONSTANTS
  Commands,       \* processes of one user on one machine
  EnvOf,          \* the environment of each
  KindOf,         \* "login", "use" or "logout"
  Safe,           \* those whose request changes nothing
  Nonmember,      \* environments whose group the user is not in
  MaxSends,       \* MAX_ATTEMPTS
  MaxNetFaults, MaxRevocations, MaxExpiries \* bounds

ASSUME AuthAssumption ==
  /\ IsFiniteSet(Commands) /\ MaxSends \in Nat \ {0} /\ {MaxNetFaults, MaxRevocations, MaxExpiries} \subseteq Nat
  /\ \A c \in Commands : KindOf[c] \in {"login", "use", "logout"}

Envs == {EnvOf[c] : c \in Commands}
NoToken == [env |-> "none", id |-> 0]

VARIABLES
  cli,       \* each command, with the tokens of its Session and the cache as it loaded it
  cache,     \* the file: by environment a refresh token, or none
  issued,    \* tokens Keycloak has issued
  honoured,  \* refresh tokens it still honours
  verified,  \* access tokens an edge still verifies
  netFaults, revocations, expiries

authVars == <<cli, cache, issued, honoured, verified, netFaults, revocations, expiries>>

NewSession == [step |-> "start", access |-> NoToken, refresh |-> NoToken, copy |-> <<>>, renewed |-> FALSE,
               sends |-> 0, attempt |-> 1, applied |-> 0, logins |-> 0, why |-> "none"]

\* Each environment may have a credential of an earlier login.
AuthInit ==
  /\ cli = [c \in Commands |-> NewSession]
  /\ issued = {[env |-> e, id |-> 1] : e \in Envs} /\ honoured = issued
  /\ cache \in {f \in [Envs -> issued \union {NoToken}] : \A e \in Envs : f[e].env \in {e, "none"}}
  /\ verified = {} /\ netFaults = 0 /\ revocations = 0 /\ expiries = 0

In(c, step) == cli[c].step = step
Turn(c, session) == cli' = [cli EXCEPT ![c] = session]
Stop(c, why) == Turn(c, [cli[c] EXCEPT !.step = "end", !.why = why])
KeepsTokens == UNCHANGED <<issued, honoured, verified>>
NoFaults == UNCHANGED <<netFaults, revocations, expiries>>

\* A call whose server is not reached, or fails.
Unreachable == netFaults < MaxNetFaults /\ netFaults' = netFaults + 1 /\ UNCHANGED <<revocations, expiries>>

----------------------------------------------------------------------------
(* The cache file, read and replaced whole *)

LoadCache(c, next) == Turn(c, [cli[c] EXCEPT !.step = next, !.copy = cache]) /\ UNCHANGED cache

SaveCache(c, token, next) ==
  /\ cache' = [cli[c].copy EXCEPT ![EnvOf[c]] = token]
  /\ Turn(c, [cli[c] EXCEPT !.step = next, !.copy = <<>>])

\* logout drops this environment's entry, on this machine only.
Logout(c) ==
  /\ KindOf[c] = "logout"
  /\ \/ In(c, "start") /\ LoadCache(c, "forget")
     \/ In(c, "forget") /\ cli[c].copy[EnvOf[c]] = NoToken /\ Stop(c, "done") /\ UNCHANGED cache
     \/ In(c, "forget") /\ cli[c].copy[EnvOf[c]] # NoToken /\ SaveCache(c, NoToken, "end")
  /\ KeepsTokens /\ NoFaults

\* store_refresh_token, which every apply ends with.
StoreRefreshToken(c) ==
  /\ \/ In(c, "store") /\ LoadCache(c, "save")
     \/ In(c, "save") /\ SaveCache(c, cli[c].refresh, "request")
  /\ KeepsTokens /\ NoFaults

----------------------------------------------------------------------------
(* Signing in *)

\* A cached credential is tried first, save by login --force; without one a
\* command that is no login stops.
Authenticate(c) ==
  /\ KindOf[c] # "logout" /\ In(c, "start")
  /\ \/ /\ cache[EnvOf[c]] # NoToken
        /\ Turn(c, [cli[c] EXCEPT !.step = "refresh", !.refresh = cache[EnvOf[c]]])
     \/ cache[EnvOf[c]] = NoToken /\ KindOf[c] = "use" /\ Stop(c, "not authenticated")
     \/ KindOf[c] = "login" /\ Turn(c, [cli[c] EXCEPT !.step = "authorize"])
  /\ UNCHANGED cache /\ KeepsTokens /\ NoFaults

NextToken(e) == [env |-> e, id |-> Cardinality({t \in issued : t.env = e}) + 1]

\* apply: a refresh need not return a new refresh token, and here does not.
Applies(c, new, refresh) ==
  /\ issued' = issued \union {new} /\ verified' = verified \union {new}
  /\ Turn(c, [cli[c] EXCEPT !.step = "store", !.access = new, !.refresh = refresh,
                            !.logins = @ + (IF In(c, "exchange") THEN 1 ELSE 0)])
  /\ UNCHANGED cache

\* A refresh that Keycloak refuses, or answers with a 5xx, is followed by a
\* login, if the command is one or was in the middle of a request.
RefreshTokens(c) ==
  /\ In(c, "refresh")
  /\ \/ /\ cli[c].refresh \in honoured /\ Applies(c, NextToken(EnvOf[c]), cli[c].refresh)
        /\ UNCHANGED honoured /\ NoFaults
     \/ /\ (cli[c].refresh \notin honoured /\ NoFaults) \/ Unreachable
        /\ IF cli[c].renewed \/ KindOf[c] = "login" THEN Turn(c, [cli[c] EXCEPT !.step = "authorize"])
           ELSE Stop(c, "not authenticated")
        /\ UNCHANGED cache /\ KeepsTokens
     \/ Unreachable /\ Stop(c, "unreachable") /\ UNCHANGED cache /\ KeepsTokens

\* Either flow: the redirect with this flow's state, or an approval of its
\* device code, lets the code be exchanged.
Approved(c) ==
  /\ In(c, "authorize") /\ Turn(c, [cli[c] EXCEPT !.step = "exchange"])
  /\ UNCHANGED cache /\ KeepsTokens /\ NoFaults

\* A redirect with another state or an error, a denial, or the end of the wait.
FlowEnds(c) ==
  /\ In(c, "authorize")
  /\ \E why \in {"state mismatch", "refused", "timed out"} : Stop(c, why)
  /\ UNCHANGED cache /\ KeepsTokens /\ NoFaults

ExchangeCode(c) ==
  /\ In(c, "exchange")
  /\ \/ LET new == NextToken(EnvOf[c])
        IN Applies(c, new, new) /\ honoured' = honoured \union {new} /\ NoFaults
     \/ Unreachable /\ Stop(c, "unreachable") /\ UNCHANGED cache /\ KeepsTokens

----------------------------------------------------------------------------
(* One request, through the edge to the API *)

Member(c) == EnvOf[c] \notin Nonmember
Verified(c) == cli[c].access \in verified /\ cli[c].access.env = EnvOf[c]

\* Mutant of MayRepeat: what failed is sent again, whatever it does.
MayRepeat_Always(c) == cli[c].attempt < MaxSends

\* Only a request that changes nothing is sent again.
MayRepeat(c) == c \in Safe /\ cli[c].attempt < MaxSends

\* The request is sent, and the session becomes this one.
Sent(c, session) == Turn(c, [session EXCEPT !.sends = @ + 1])
KeepsAll == UNCHANGED cache /\ KeepsTokens

\* 401 of the edge: the token is good, the user not a member. No login helps.
NotAMember(c) ==
  /\ In(c, "request") /\ Verified(c) /\ ~Member(c)
  /\ Sent(c, [cli[c] EXCEPT !.step = "end", !.why = "401"]) /\ KeepsAll /\ NoFaults

\* 403 of the edge: the token is not verified. It is renewed once.
RefusedByEdge(c) ==
  /\ In(c, "request") /\ ~Verified(c)
  /\ IF cli[c].renewed THEN Sent(c, [cli[c] EXCEPT !.step = "end", !.why = "403"])
     ELSE Sent(c, [cli[c] EXCEPT !.step = "refresh", !.renewed = TRUE, !.attempt = 1])
  /\ KeepsAll /\ NoFaults

\* 403 of the API, for a reason of its own: no renewal would help.
RefusedByApi(c) ==
  /\ In(c, "request") /\ Verified(c) /\ Member(c)
  /\ Sent(c, [cli[c] EXCEPT !.step = "end", !.why = "403 detail"]) /\ KeepsAll /\ NoFaults

Answered(c) ==
  /\ In(c, "request") /\ Verified(c) /\ Member(c)
  /\ Sent(c, [cli[c] EXCEPT !.step = "end", !.why = "done", !.applied = cli[c].applied + 1])
  /\ KeepsAll /\ NoFaults

\* The request or its answer is lost, or the answer is a 5xx; it may have
\* been carried out.
SendFails(c) ==
  /\ In(c, "request") /\ Unreachable
  /\ \E n \in IF Verified(c) /\ Member(c) THEN {0, 1} ELSE {0} :
       IF MayRepeat(c) THEN Sent(c, [cli[c] EXCEPT !.attempt = cli[c].attempt + 1, !.applied = cli[c].applied + n])
       ELSE Sent(c, [cli[c] EXCEPT !.step = "end", !.why = "unreachable", !.applied = cli[c].applied + n])
  /\ KeepsAll

CommandStep(c) ==
  \/ Logout(c) \/ StoreRefreshToken(c) \/ Authenticate(c) \/ RefreshTokens(c) \/ Approved(c) \/ FlowEnds(c)
  \/ ExchangeCode(c) \/ NotAMember(c) \/ RefusedByEdge(c) \/ RefusedByApi(c) \/ Answered(c) \/ SendFails(c)

----------------------------------------------------------------------------
(* Keycloak, and the clock *)

TokenExpires ==
  /\ expiries < MaxExpiries /\ expiries' = expiries + 1
  /\ \E t \in verified : verified' = verified \ {t}
  /\ UNCHANGED <<cli, cache, issued, honoured, netFaults, revocations>>

\* The user revokes a session, or it has been idle too long.
SessionRevoked ==
  /\ revocations < MaxRevocations /\ revocations' = revocations + 1
  /\ \E t \in honoured : honoured' = honoured \ {t}
  /\ UNCHANGED <<cli, cache, issued, verified, netFaults, expiries>>

\* A command that is scheduled goes on until it ends.
ClientFairness == \A c \in Commands : WF_authVars(CommandStep(c))

AuthNext == TokenExpires \/ SessionRevoked \/ \E c \in Commands : CommandStep(c)

AuthSpec == AuthInit /\ [][AuthNext]_authVars

----------------------------------------------------------------------------
(* Properties *)

\* A credential obtained for one environment is never stored or presented for another.
EnvironmentsApart ==
  /\ \A e \in Envs : cache[e].env \in {e, "none"}
  /\ \A c \in Commands : {cli[c].access.env, cli[c].refresh.env} \subseteq {EnvOf[c], "none"}

\* A request that changes something is carried out at most once, whatever is
\* lost, refused or renewed, and once if the user is told so.
CarriedOutOnce ==
  \A c \in Commands \ Safe : cli[c].applied <= 1 /\ (cli[c].why = "done" /\ KindOf[c] # "logout" => cli[c].applied = 1)

\* No refusal makes a command loop: one renewal, so at most two rounds of
\* sends, and a login only in that renewal or before the request of a login.
RenewedOnce ==
  \A c \in Commands :
    /\ cli[c].sends <= 2 * MaxSends
    /\ cli[c].logins <= (IF cli[c].renewed THEN 1 ELSE 0) + (IF KindOf[c] = "login" THEN 1 ELSE 0)

\* Every command that was begun ends.
CommandsEnd == <>[](\A c \in Commands : cli[c].step \in {"start", "end"})

\* The parts of what the client promises about credentials and requests.
ClientHolds == EnvironmentsApart /\ CarriedOutOnce /\ RenewedOnce
============================================================================
