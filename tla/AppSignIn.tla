------------------------------ MODULE AppSignIn ------------------------------
(* Signing in to a tenant app through the login host (daemons/app-auth),    *)
(* and the access list that decides who may (api/app/services/app_access).  *)
(*                                                                          *)
(* A flow is one sign-in of one browser to one app: to a header app through *)
(* the verifier's login cookie, or to an OIDC app through /oidc/authorize.  *)
(* Both pass through Keycloak, the access list and the consent page, and    *)
(* end in a single-use code. The database statements of one request are     *)
(* separate steps wherever another request can come between them.           *)
EXTENDS Integers, FiniteSets

CONSTANTS Flows, Apps, People,
          Emails,       \* addresses of access-list entries and of people
          EmailOf,      \* EmailOf[p]: the verified address of p's account
          OwnerOf,      \* OwnerOf[a]: [subject, email] of the deployment's owner
          PkceApps,     \* OIDC apps whose template requires PKCE
          Nobody,       \* no subject
          NoFlow,       \* no login cookie, no verifier
          MaxEntries,   \* bound: entries ever added
          MaxReleases   \* bound: changes of an app's auth settings

ASSUME SignInAssumption ==
  /\ EmailOf \in [People -> Emails]
  /\ OwnerOf \in [Apps -> [subject : People \union {Nobody}, email : Emails]]
  /\ PkceApps \subseteq Apps /\ Nobody \notin People /\ NoFlow \notin Flows
  /\ MaxEntries \in Nat /\ MaxReleases \in Nat

\* The effective `auth` values of the applied release.
AuthOff == [protocol |-> "off", listed |-> FALSE]
AuthSettings == [protocol : {"header", "oidc"}, listed : BOOLEAN] \union {AuthOff}

\* An address with no entry has id 0.
NoEntry == [id |-> 0, subject |-> Nobody]

VARIABLES
  auth,      \* auth[a]: settings of a's applied release
  entry,     \* entry[a][e]: a's access-list entry for address e
  added,     \* entries added so far: the next id
  leaving,   \* {<<a, e>>}: entries whose rows a removal has locked
  releases,
  consents,  \* {<<p, a>>}: p agreed to disclose their identity to a
  flow,      \* flow[f]: where the sign-in stands
  login,     \* login[p][a]: the flow whose nonce p's login cookie on a's host holds
  sessions,  \* sessions apps gave out
  through    \* history: {<<entry id, subject>>}: codes were stored for subject by that entry

signInVars == <<auth, entry, added, leaving, releases, consents, flow, login, sessions, through>>

NewFlow == [pc |-> "idle", app |-> CHOOSE a \in Apps : TRUE, who |-> Nobody, protocol |-> "off",
            prompt |-> "", listed |-> FALSE, entry |-> 0, via |-> {}, fresh |-> FALSE]

SignInInit ==
  /\ auth \in [Apps -> AuthSettings]
  /\ entry = [a \in Apps |-> [e \in Emails |-> NoEntry]]
  /\ added = 0 /\ leaving = {} /\ releases = 0 /\ consents = {}
  /\ flow = [f \in Flows |-> NewFlow]
  /\ login = [p \in People |-> [a \in Apps |-> NoFlow]]
  /\ sessions = {} /\ through = {}

-----------------------------------------------------------------------------
(* accessList.admit: the owner, then an entry bound to the subject, then an *)
(* unbound entry with the address, whose id is returned to be bound.        *)
IsOwner(a, p) == IF OwnerOf[a].subject # Nobody THEN p = OwnerOf[a].subject
                                                ELSE EmailOf[p] = OwnerOf[a].email
BoundEntries(a, p) == {x \in {entry[a][e] : e \in Emails} : x.id # 0 /\ x.subject = p}
IsBound(a, p) == BoundEntries(a, p) # {}
Unbound(a, p) == LET x == entry[a][EmailOf[p]] IN IF x.id # 0 /\ x.subject = Nobody THEN x.id ELSE 0
Admit(a, p) ==
  IF IsOwner(a, p) \/ IsBound(a, p) THEN [ok |-> TRUE, bind |-> 0]
  ELSE [ok |-> Unbound(a, p) # 0, bind |-> Unbound(a, p)]

\* History: the entries, but for the owner, that admit p without being bound now.
Via(a, p) == IF IsOwner(a, p) THEN {} ELSE {x.id : x \in BoundEntries(a, p)}

\* The app still offers this way of signing in, and whoever it lists.
Offers(a, p) == auth[a].protocol = p
Admits(a, p) == auth[a].listed => Admit(a, p).ok

FlowTo(f, pc) == flow' = [flow EXCEPT ![f].pc = pc]

-----------------------------------------------------------------------------
(* The broker.                                                              *)

\* The verifier sets the login cookie (the last one wins) and the broker,
\* finding the host eligible, sends the browser to Keycloak.
Start(f, p, a) ==
  /\ flow[f].pc = "idle" /\ Offers(a, "header")
  /\ flow' = [flow EXCEPT ![f] = [NewFlow EXCEPT !.pc = "keycloak", !.app = a, !.who = p, !.protocol = "header"]]
  /\ login' = [login EXCEPT ![p][a] = f]
  /\ UNCHANGED <<auth, entry, added, leaving, releases, consents, sessions, through>>

\* A valid authorization request of an OIDC app.
Authorize(f, p, a, prompt) ==
  /\ flow[f].pc = "idle" /\ Offers(a, "oidc")
  /\ flow' = [flow EXCEPT ![f] = [NewFlow EXCEPT !.pc = "keycloak", !.app = a, !.who = p,
                                                 !.protocol = "oidc", !.prompt = prompt]]
  /\ UNCHANGED <<auth, entry, added, leaving, releases, consents, login, sessions, through>>

\* The sign-in ends without a code: cancelled, failed at Keycloak, an
\* unverified address, no session named, or a sealed cookie that expired.
Abandon(f) ==
  /\ flow[f].pc \in {"keycloak", "consent"}
  /\ FlowTo(f, "done")
  /\ UNCHANGED <<auth, entry, added, leaving, releases, consents, login, sessions, through>>

\* Back from Keycloak: the app must still use this protocol and admit the
\* person; then consent on record leads to a code, and none to the page.
Callback(f) ==
  LET x == flow[f] IN
  /\ x.pc = "keycloak"
  /\ flow' = [flow EXCEPT ![f].listed = auth[x.app].listed,
                ![f].pc = IF ~Offers(x.app, x.protocol) \/ ~Admits(x.app, x.who) THEN "done"
                          ELSE IF <<x.who, x.app>> \in consents /\ x.prompt # "consent" THEN "issuing"
                          ELSE IF x.prompt = "none" THEN "done"
                          ELSE "consent"]
  /\ UNCHANGED <<auth, entry, added, leaving, releases, consents, login, sessions, through>>

\* The consent page: everything is checked again, the consent recorded.
Consent(f, allow) ==
  LET x == flow[f]
      on == allow /\ Offers(x.app, x.protocol) /\ Admits(x.app, x.who) IN
  /\ x.pc = "consent"
  /\ flow' = [flow EXCEPT ![f].listed = auth[x.app].listed, ![f].pc = IF on THEN "issuing" ELSE "done"]
  /\ consents' = IF on THEN consents \union {<<x.who, x.app>>} ELSE consents
  /\ UNCHANGED <<auth, entry, added, leaving, releases, login, sessions, through>>

\* issueCode applies the list once more, this time to bind: the read.
ReadList(f) ==
  LET x == flow[f]
      m == Admit(x.app, x.who) IN
  /\ x.pc = "issuing"
  /\ flow' = [flow EXCEPT ![f].entry = IF x.listed THEN m.bind ELSE 0,
                          ![f].via = IF x.listed THEN Via(x.app, x.who) ELSE {},
                          ![f].pc = IF ~x.listed THEN "storing"
                                    ELSE IF ~m.ok THEN "done"
                                    ELSE IF m.bind = 0 THEN "storing" ELSE "binding"]
  /\ UNCHANGED <<auth, entry, added, leaving, releases, consents, login, sessions, through>>

\* Mutant of BindEntry: the entry read before is bound, whatever it is now.
BindEntry_Blind(f) ==
  /\ flow[f].pc = "binding"
  /\ entry' = [entry EXCEPT ![flow[f].app][EmailOf[flow[f].who]].subject = flow[f].who]
  /\ flow' = [flow EXCEPT ![f].pc = "storing", ![f].via = {flow[f].entry}]
  /\ UNCHANGED <<auth, added, leaving, releases, consents, login, sessions, through>>

\* The write: the entry is bound only if it is still there and unbound, and
\* only if the subject has no other entry of the app. It waits for a removal.
BindEntry(f) ==
  LET x == flow[f]
      e == EmailOf[x.who]
      can == entry[x.app][e].id = x.entry /\ entry[x.app][e].subject = Nobody /\ ~IsBound(x.app, x.who) IN
  /\ x.pc = "binding" /\ <<x.app, e>> \notin leaving
  /\ entry' = IF can THEN [entry EXCEPT ![x.app][e].subject = x.who] ELSE entry
  /\ flow' = [flow EXCEPT ![f].pc = IF can THEN "storing" ELSE "rereading",
                          ![f].via = IF can THEN {x.entry} ELSE {}]
  /\ UNCHANGED <<auth, added, leaving, releases, consents, login, sessions, through>>

\* Bound by someone in between: it admits only if that was the same person.
RereadList(f) ==
  LET x == flow[f]
      m == Admit(x.app, x.who) IN
  /\ x.pc = "rereading"
  /\ flow' = [flow EXCEPT ![f].pc = IF m.ok /\ m.bind = 0 THEN "storing" ELSE "done",
                          ![f].via = Via(x.app, x.who)]
  /\ UNCHANGED <<auth, entry, added, leaving, releases, consents, login, sessions, through>>

\* The code is stored and handed to the app through the browser.
StoreCode(f) ==
  LET x == flow[f] IN
  /\ x.pc = "storing"
  /\ flow' = [flow EXCEPT ![f].pc = "coded", ![f].fresh = TRUE]
  /\ through' = through \union {<<i, x.who>> : i \in x.via}
  /\ UNCHANGED <<auth, entry, added, leaving, releases, consents, login, sessions>>

CodeExpires(f) ==
  /\ flow[f].pc = "coded" /\ flow[f].fresh
  /\ flow' = [flow EXCEPT ![f].fresh = FALSE]
  /\ UNCHANGED <<auth, entry, added, leaving, releases, consents, login, sessions, through>>

-----------------------------------------------------------------------------
(* Redemption. Presenting a code burns it, whatever is found wrong with it. *)

\* The reserved callback path of a header app's host, in p's browser.
RedeemHeader(f, p, a) ==
  LET x == flow[f] IN
  /\ x.pc = "coded" /\ x.protocol = "header" /\ Offers(a, "header")
  /\ FlowTo(f, "done")
  /\ sessions' = IF x.fresh /\ x.app = a /\ login[p][a] = f
                 THEN sessions \union {[app |-> a, who |-> x.who, browser |-> p, flow |-> f]} ELSE sessions
  /\ login' = [login EXCEPT ![p][a] = NoFlow]
  /\ UNCHANGED <<auth, entry, added, leaving, releases, consents, through>>

\* The token endpoint: an OIDC client presents a code with the verifier of
\* flow v, or with none.
Token(f, client, v) ==
  LET x == flow[f] IN
  /\ x.pc = "coded" /\ x.protocol = "oidc" /\ Offers(client, "oidc")
  /\ FlowTo(f, "done")
  /\ sessions' = IF /\ x.fresh /\ x.app = client
                    /\ Admits(client, x.who)
                    /\ v = IF client \in PkceApps THEN f ELSE NoFlow
                 THEN sessions \union {[app |-> client, who |-> x.who, browser |-> x.who, flow |-> f]}
                 ELSE sessions
  /\ UNCHANGED <<auth, entry, added, leaving, releases, consents, login, through>>

-----------------------------------------------------------------------------
(* The platform's side: the access list, and the release that serves.       *)

AddEntry(a, e) ==
  /\ added < MaxEntries
  /\ auth[a].listed /\ entry[a][e].id = 0 /\ e # OwnerOf[a].email
  /\ added' = added + 1
  /\ entry' = [entry EXCEPT ![a][e] = [id |-> added + 1, subject |-> Nobody]]
  /\ UNCHANGED <<auth, leaving, releases, consents, flow, login, sessions, through>>

\* remove_entry locks the entry; the person it is bound to is first signed out
\* of an OIDC app, unless its template names no logout path on the host.
LockEntry(a, e) ==
  /\ entry[a][e].id # 0 /\ <<a, e>> \notin leaving
  /\ leaving' = leaving \union {<<a, e>>}
  /\ \/ UNCHANGED sessions
     \/ /\ entry[a][e].subject # Nobody /\ Offers(a, "oidc")
        /\ sessions' = {s \in sessions : ~(s.app = a /\ s.who = entry[a][e].subject)}
  /\ UNCHANGED <<auth, entry, added, releases, consents, flow, login, through>>

\* The commit; or the app did not accept the logout, or its answer was lost,
\* and the entry stays.
RemoveEntry(a, e) ==
  /\ <<a, e>> \in leaving
  /\ leaving' = leaving \ {<<a, e>>}
  /\ entry' = [entry EXCEPT ![a][e] = NoEntry] \/ UNCHANGED entry
  /\ UNCHANGED <<auth, added, releases, consents, flow, login, sessions, through>>

ServeRelease(a, settings) ==
  /\ releases < MaxReleases /\ settings # auth[a]
  /\ releases' = releases + 1
  /\ auth' = [auth EXCEPT ![a] = settings]
  /\ UNCHANGED <<entry, added, leaving, consents, flow, login, sessions, through>>

SignInNext ==
  \/ \E f \in Flows, p \in People, a \in Apps :
       \/ Start(f, p, a) \/ RedeemHeader(f, p, a)
       \/ \E prompt \in {"", "none", "consent"} : Authorize(f, p, a, prompt)
  \/ \E f \in Flows : \/ Abandon(f) \/ Callback(f) \/ ReadList(f) \/ BindEntry(f) \/ RereadList(f)
                      \/ StoreCode(f) \/ CodeExpires(f)
                      \/ \E allow \in BOOLEAN : Consent(f, allow)
                      \/ \E c \in Apps, v \in Flows \union {NoFlow} : Token(f, c, v)
  \/ \E a \in Apps, e \in Emails : AddEntry(a, e) \/ LockEntry(a, e) \/ RemoveEntry(a, e)
  \/ \E a \in Apps, s \in AuthSettings : ServeRelease(a, s)

SignInSpec == SignInInit /\ [][SignInNext]_signInVars

-----------------------------------------------------------------------------
SignInTypeOK ==
  /\ auth \in [Apps -> AuthSettings]
  /\ entry \in [Apps -> [Emails -> [id : 0..MaxEntries, subject : People \union {Nobody}]]]
  /\ added \in 0..MaxEntries /\ leaving \subseteq Apps \X Emails /\ releases \in 0..MaxReleases
  /\ consents \subseteq People \X Apps
  /\ login \in [People -> [Apps -> Flows \union {NoFlow}]]
  /\ sessions \subseteq [app : Apps, who : People, browser : People, flow : Flows]
  /\ through \subseteq (1..MaxEntries) \X People

\* Whoever first signs in with an entry is admitted, and from then on only that
\* account: two accounts with the entry's address that sign in at the same time
\* never both get a code through it.
OneAccountPerEntry == \A x, y \in through : x[1] = y[1] => x[2] = y[2]

\* A session in a browser comes from a sign-in that this browser began at this
\* app: a code that travels to another browser or another app is worth nothing.
SessionIsItsBrowsers ==
  \A s \in sessions : s.browser = flow[s.flow].who /\ s.app = flow[s.flow].app

\* Nobody's identity reaches an app they did not agree to disclose it to, on
\* any of the paths that skip the consent page.
NothingWithoutConsent ==
  /\ \A f \in Flows : flow[f].pc = "coded" => <<flow[f].who, flow[f].app>> \in consents
  /\ \A s \in sessions : <<s.who, s.app>> \in consents

\* Whom an app lets in: what this module promises of concurrent sign-ins,
\* claims of invitations and changes of the access list.
SignInsAreSound == SignInTypeOK /\ OneAccountPerEntry /\ SessionIsItsBrowsers /\ NothingWithoutConsent
=============================================================================
