------------------------------ MODULE MCAccess ------------------------------
(* Instances for TLC of the sign-in, the sign-out, the log stream   *)
(* and the client's credentials.  The four share no state; `focus' is the   *)
(* one whose steps a behaviour takes.                                       *)
EXTENDS AppSignIn, AppSignOut, LogFollow, ClientAuth

CONSTANT E0, E1, Writer, Leaver, Guest

VARIABLE focus

accessVars == <<focus, signInVars, signOutVars, followVars, authVars>>

\* Everybody has the address on the list, and the owner is somebody else.
MCEmailOf == [p \in People |-> E1]
MCOwnerOf == [a \in Apps |-> [subject |-> Nobody, email |-> E0]]

\* A write and a logout in one environment, a login to another whose group
\* the user may not be in.
MCEnvOf == [c \in Commands |-> IF c = Guest THEN "dev" ELSE "prod"]
MCKindOf == [c \in Commands |-> CASE c = Writer -> "use" [] c = Leaver -> "logout" [] c = Guest -> "login"]

\* Two scenarios of the sign-out: header apps with one browser, two Keycloak
\* sessions and a restart; OIDC apps with two browsers, one Keycloak session
\* and a rotation of the keys, where the verifier's copy, which is for header
\* cookies, is never read.
Scenario ==
  \E t \in Tabs, l \in Logins :
    IF protocol = "header"
    THEN /\ tab = [u \in Tabs |-> IF u = t THEN [NoSignIn EXCEPT !.st = "closed"] ELSE NoSignIn]
         /\ t = CHOOSE u \in Tabs : TRUE
         /\ notice = [m \in Logins |-> [st |-> "none", at |-> NoTime]]
         /\ key = MaxRotations + 1 /\ restarts = 0
    ELSE /\ notice = [m \in Logins |-> IF m = l THEN [st |-> "refused", at |-> 0]
                                       ELSE [st |-> "none", at |-> NoTime]]
         /\ l = CHOOSE m \in Logins : TRUE
         /\ tab = [u \in Tabs |-> NoSignIn] /\ key = 1 /\ restarts = MaxRestarts

SignOutStart ==
  /\ protocol \in {"header", "oidc"} /\ Scenario
  /\ clock = 0 /\ deliveries = {} /\ latest = NoTime /\ loaded = FALSE /\ covered = {}
  /\ endedRow = [l \in Logins |-> NoTime] /\ endedAt = [l \in Logins |-> NoTime]
  /\ signInRow = [l \in Logins |-> NoSignInRow] /\ held = [l \in Logins |-> NoTime]

AccessInit ==
  /\ focus \in {"signin", "signout", "follow", "client"}
  /\ SignInInit /\ SignOutStart /\ FollowInit /\ AuthInit
  /\ focus # "signin" => auth = [a \in Apps |-> CHOOSE s \in AuthSettings : TRUE]
  /\ focus # "signout" => protocol = "header"
  /\ focus # "follow" => stamp = <<>>
  /\ focus # "client" => \A e \in Envs : cache[e] = NoToken

AccessNext ==
  /\ UNCHANGED focus
  /\ \/ focus = "signin" /\ SignInNext /\ UNCHANGED <<signOutVars, followVars, authVars>>
     \/ /\ focus = "signout" /\ SignOutNext /\ (protocol = "oidc" => UNCHANGED loaded)
        /\ UNCHANGED <<signInVars, followVars, authVars>>
     \/ focus = "follow" /\ FollowNext /\ UNCHANGED <<signInVars, signOutVars, authVars>>
     \/ focus = "client" /\ AuthNext /\ UNCHANGED <<signInVars, signOutVars, followVars>>

\* SignOutFairness, FollowFairness and ClientFairness, each for its own behaviours.
AccessFairness ==
  /\ WF_signOutVars(focus = "signout" /\ protocol = "header" /\ Refresh)
  /\ WF_followVars(focus = "follow" /\ PollBegins) /\ WF_followVars(focus = "follow" /\ PollEnds)
  /\ WF_followVars(focus = "follow" /\ NoticeGone) /\ WF_followVars(focus = "follow" /\ Connect)
  /\ WF_followVars(focus = "follow" /\ PrintLine) /\ WF_followVars(focus = "follow" /\ Reconnects)
  /\ WF_followVars(focus = "follow" /\ Interrupted)
  /\ \A c \in Commands : WF_authVars(focus = "client" /\ CommandStep(c))

AccessSpec == AccessInit /\ [][AccessNext]_accessVars /\ AccessFairness

\* What was begun comes through: the lines of a followed log, a recorded
\* sign-out, a command (logs._resume, endedCache.refresh, api.request).
AllComeThrough == LinesArrive /\ SignOutIsApplied /\ CommandsEnd
=============================================================================
