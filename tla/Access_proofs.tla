-------------------------- MODULE Access_proofs --------------------------
(***************************************************************************)
(* Signing in to a tenant app, for any number of sign-ins, apps, people,   *)
(* addresses and entries: whoever is let in through an entry of the access *)
(* list is one account for ever, a session belongs to the browser and the  *)
(* app its sign-in began with, and nothing is disclosed without consent.   *)
(* Then signing out of the apps again, and the credentials and requests of *)
(* the command line.                                                       *)
(***************************************************************************)
EXTENDS AppSignIn, AppSignOut, ClientAuth, FiniteSetTheorems, WellFoundedInduction, TLAPS

PCs == {"idle", "keycloak", "consent", "issuing", "binding", "rereading", "storing", "coded", "done"}

\* From here on a sign-in no longer looks at the consents.
Agreed == {"issuing", "binding", "rereading", "storing", "coded"}

FlowRow == [pc : PCs, app : Apps \union {NewFlow.app}, who : People \union {Nobody},
            protocol : {"off", "header", "oidc"}, prompt : {"", "none", "consent"},
            listed : BOOLEAN, entry : 0 .. MaxEntries, via : SUBSET (1 .. MaxEntries),
            fresh : BOOLEAN]

FlowsTyped ==
  /\ flow \in [Flows -> FlowRow]
  /\ \A f \in Flows : flow[f].pc # "idle" => flow[f].app \in Apps /\ flow[f].who \in People
  /\ \A f \in Flows : flow[f].pc = "binding" => flow[f].entry # 0

\* Entry ids are given out once, and only an entry that exists is bound.
ListOrderly ==
  /\ \A a \in Apps, e \in Emails :
       /\ entry[a][e].id <= added
       /\ entry[a][e].id = 0 => entry[a][e].subject = Nobody
  /\ \A a, b \in Apps, e, g \in Emails :
       entry[a][e].id = entry[b][g].id /\ entry[a][e].id # 0 => a = b /\ e = g

\* p has a code by entry i, or is about to get one.
Granted(i, p) ==
  \/ <<i, p>> \in through
  \/ \E f \in Flows : flow[f].pc = "storing" /\ flow[f].who = p /\ i \in flow[f].via

\* An entry that let somebody in is bound to them as long as it exists, and its
\* id is not given out again.
GrantsHold ==
  \A i \in 1 .. MaxEntries, p \in People : Granted(i, p) =>
    /\ i <= added
    /\ \A a \in Apps, e \in Emails : entry[a][e].id = i => entry[a][e].subject = p
    /\ \A q \in People : Granted(i, q) => p = q

\* A login cookie is that of a sign-in its browser began on that host.
LoginsHold ==
  \A p \in People, a \in Apps : login[p][a] # NoFlow =>
    LET x == flow[login[p][a]] IN x.pc # "idle" /\ x.who = p /\ x.app = a

AgreedHold == \A f \in Flows : flow[f].pc \in Agreed => <<flow[f].who, flow[f].app>> \in consents

\* A session is the end of its sign-in.
SessionsHold ==
  \A s \in sessions :
    /\ flow[s.flow].pc = "done" /\ s.browser = flow[s.flow].who /\ s.app = flow[s.flow].app
    /\ <<s.who, s.app>> \in consents

SignInInv ==
  /\ SignInTypeOK /\ FlowsTyped /\ ListOrderly /\ GrantsHold
  /\ LoginsHold /\ AgreedHold /\ SessionsHold
-----------------------------------------------------------------------------
(* One sign-in moves.                                                      *)

LEMMA SignInTyped ==
  ASSUME SignInInv
  PROVE  /\ flow \in [Flows -> FlowRow]
         /\ entry \in [Apps -> [Emails -> [id : 0..MaxEntries, subject : People \union {Nobody}]]]
         /\ login \in [People -> [Apps -> Flows \union {NoFlow}]]
         /\ added \in 0 .. MaxEntries /\ MaxEntries \in Nat
         /\ EmailOf \in [People -> Emails] /\ Nobody \notin People /\ NoFlow \notin Flows
         /\ through \subseteq (1..MaxEntries) \X People
         /\ consents \subseteq People \X Apps
         /\ auth \in [Apps -> AuthSettings]
         /\ \A s \in sessions : s.flow \in Flows
  BY SignInAssumption DEF SignInInv, SignInTypeOK, FlowsTyped

LEMMA NewFlowTyped ==
  ASSUME MaxEntries \in Nat
  PROVE  NewFlow \in FlowRow /\ NewFlow.pc = "idle"
  BY DEF NewFlow, FlowRow, PCs

\* By entry i person p may be given a code: it is bound to p, or was.
Fits(i, p) ==
  /\ i \in 1 .. MaxEntries /\ i <= added
  /\ \A a \in Apps, e \in Emails : entry[a][e].id = i => entry[a][e].subject = p
  /\ \A q \in People : Granted(i, q) => p = q

\* An entry bound to p fits.
LEMMA BoundFits ==
  ASSUME SignInInv, NEW a \in Apps, NEW e \in Emails, NEW p \in People,
         entry[a][e].id # 0, entry[a][e].subject = p
  PROVE  Fits(entry[a][e].id, p)
  <1> DEFINE i == entry[a][e].id
  <1>1. /\ i \in 1 .. MaxEntries /\ i <= added
        /\ \A b \in Apps, g \in Emails : entry[b][g].id = i => b = a /\ g = e
    BY SignInTyped DEF SignInInv, ListOrderly
  <1>2. \A q \in People : Granted(i, q) => p = q
    BY <1>1 DEF SignInInv, GrantsHold
  <1> QED
    BY <1>1, <1>2 DEF Fits

LEMMA ViaFits ==
  ASSUME SignInInv, NEW a \in Apps, NEW p \in People
  PROVE  Via(a, p) \subseteq 1 .. MaxEntries /\ \A i \in Via(a, p) : Fits(i, p)
  <1>1. ASSUME NEW i \in Via(a, p) PROVE Fits(i, p)
    <2>1. PICK e \in Emails : entry[a][e].id # 0 /\ entry[a][e].subject = p /\ i = entry[a][e].id
      BY <1>1 DEF Via, BoundEntries
    <2> QED
      BY <2>1, BoundFits
  <1> QED
    BY <1>1 DEF Fits

\* Sign-in f goes on as x, not a start and not a redemption.
GoesOn(f, x) ==
  /\ x \in FlowRow /\ flow' = [flow EXCEPT ![f] = x]
  /\ flow[f].pc \notin {"idle", "done"} /\ x.pc # "idle"
  /\ x.who = flow[f].who /\ x.app = flow[f].app
  /\ x.pc = "binding" => x.entry # 0

\* No code is given but by entries that fit.
LEMMA GoesOnKeeps ==
  ASSUME SignInInv, NEW f \in Flows, NEW x, GoesOn(f, x), SignInTypeOK',
         UNCHANGED <<entry, added, login, sessions>>, consents \subseteq consents',
         x.pc \in Agreed => <<x.who, x.app>> \in consents',
         x.pc = "storing" => \A i \in x.via : Fits(i, x.who),
         \A i \in 1 .. MaxEntries, p \in People : <<i, p>> \in through' => Granted(i, p)
  PROVE  SignInInv'
  <1>1. /\ flow' \in [Flows -> FlowRow] /\ flow'[f] = x
        /\ \A g \in Flows : g # f => flow'[g] = flow[g]
    BY SignInTyped DEF GoesOn
  <1>2. FlowsTyped'
    BY <1>1 DEF SignInInv, FlowsTyped, GoesOn
  <1>3. ListOrderly'
    BY DEF SignInInv, ListOrderly
  <1>4. GrantsHold'
    <2>1. ASSUME NEW i \in 1 .. MaxEntries, NEW p \in People, Granted(i, p)'
          PROVE  Fits(i, p)
      <3>1. CASE Granted(i, p)
        BY <3>1 DEF SignInInv, GrantsHold, Fits
      <3>2. CASE ~Granted(i, p)
        <4>1. PICK g \in Flows : flow'[g].pc = "storing" /\ flow'[g].who = p /\ i \in flow'[g].via
          BY <2>1, <3>2 DEF Granted
        <4>2. g = f
          BY <1>1, <3>2, <4>1 DEF Granted
        <4> QED
          BY <1>1, <4>1, <4>2
      <3> QED
        BY <3>1, <3>2
    <2>2. ASSUME NEW i \in 1 .. MaxEntries, NEW p \in People, NEW q \in People,
                 Granted(i, p)', Granted(i, q)'
          PROVE  p = q
      <3>1. Fits(i, p) /\ Fits(i, q)
        BY <2>1, <2>2
      <3>2. CASE Granted(i, p) \/ Granted(i, q)
        BY <3>1, <3>2 DEF Fits
      <3>3. CASE ~Granted(i, p) /\ ~Granted(i, q)
        <4>1. \E g \in Flows : flow'[g].pc = "storing" /\ flow'[g].who = p /\ i \in flow'[g].via
          BY <2>2, <3>3 DEF Granted
        <4>2. \E g \in Flows : flow'[g].pc = "storing" /\ flow'[g].who = q /\ i \in flow'[g].via
          BY <2>2, <3>3 DEF Granted
        <4>3. x.who = p /\ x.who = q
          BY <1>1, <3>3, <4>1, <4>2 DEF Granted
        <4> QED
          BY <4>3
      <3> QED
        BY <3>2, <3>3
    <2> QED
      BY <2>1, <2>2 DEF GrantsHold, Fits
  <1>5. LoginsHold'
    <2> SUFFICES ASSUME NEW p \in People, NEW a \in Apps, login[p][a] # NoFlow
                 PROVE  LET y == flow'[login[p][a]] IN y.pc # "idle" /\ y.who = p /\ y.app = a
      BY DEF LoginsHold
    <2>1. login[p][a] \in Flows
      BY SignInTyped
    <2>2. LET y == flow[login[p][a]] IN y.pc # "idle" /\ y.who = p /\ y.app = a
      BY DEF SignInInv, LoginsHold
    <2> QED
      BY <1>1, <2>1, <2>2 DEF GoesOn
  <1>6. AgreedHold'
    BY <1>1 DEF SignInInv, AgreedHold
  <1>7. SessionsHold'
    <2>1. \A s \in sessions : s.flow \in Flows /\ s.flow # f
      BY SignInTyped DEF SignInInv, SessionsHold, GoesOn
    <2> QED
      BY <1>1, <2>1 DEF SignInInv, SessionsHold
  <1> QED
    BY <1>2, <1>3, <1>4, <1>5, <1>6, <1>7 DEF SignInInv

\* What holds of a sign-in that is under way.
LEMMA UnderWay ==
  ASSUME SignInInv, NEW f \in Flows, flow[f].pc # "idle"
  PROVE  flow[f] \in FlowRow /\ flow[f].app \in Apps /\ flow[f].who \in People
  BY SignInTyped DEF SignInInv, FlowsTyped

LEMMA ListedTyped ==
  ASSUME SignInInv, NEW a \in Apps
  PROVE  auth[a].listed \in BOOLEAN
  <1>1. auth[a] \in AuthSettings
    BY SignInTyped
  <1>2. CASE auth[a] \in [protocol : {"header", "oidc"}, listed : BOOLEAN]
    BY <1>2
  <1>3. CASE auth[a] = AuthOff
    BY <1>3 DEF AuthOff
  <1> QED
    BY <1>1, <1>2, <1>3 DEF AuthSettings

LEMMA AbandonKeeps ==
  ASSUME SignInInv, NEW f \in Flows, Abandon(f)
  PROVE  SignInInv'
  <1> DEFINE x == [flow[f] EXCEPT !.pc = "done"]
  <1>1. flow[f].pc \in {"keycloak", "consent"} /\ flow[f] \in FlowRow
    BY UnderWay DEF Abandon
  <1>2. x \in FlowRow /\ x.pc = "done" /\ x.who = flow[f].who /\ x.app = flow[f].app
    BY <1>1 DEF FlowRow, PCs
  <1>3. flow' = [flow EXCEPT ![f] = x]
    BY SignInTyped DEF Abandon, FlowTo
  <1>4. GoesOn(f, x)
    BY <1>1, <1>2, <1>3 DEF GoesOn
  <1> HIDE DEF x
  <1>5. SignInTypeOK'
    BY DEF Abandon, SignInInv, SignInTypeOK
  <1> QED
    BY <1>2, <1>4, <1>5, GoesOnKeeps DEF Abandon, Granted, Agreed

LEMMA CallbackKeeps ==
  ASSUME SignInInv, NEW f \in Flows, Callback(f)
  PROVE  SignInInv'
  <1> DEFINE y == flow[f]
             pc == IF ~Offers(y.app, y.protocol) \/ ~Admits(y.app, y.who) THEN "done"
                   ELSE IF <<y.who, y.app>> \in consents /\ y.prompt # "consent" THEN "issuing"
                   ELSE IF y.prompt = "none" THEN "done"
                   ELSE "consent"
             x == [flow[f] EXCEPT !.listed = auth[flow[f].app].listed, !.pc = pc]
  <1>1. flow[f].pc = "keycloak" /\ flow[f] \in FlowRow /\ flow[f].app \in Apps
    BY UnderWay DEF Callback
  <1>2. /\ pc \in {"done", "issuing", "consent"}
        /\ pc = "issuing" => <<flow[f].who, flow[f].app>> \in consents
    OBVIOUS
  <1>3. flow' = [flow EXCEPT ![f].listed = auth[flow[f].app].listed, ![f].pc = pc]
    BY Zenon DEF Callback
  <1> HIDE DEF pc
  <1>4. flow' = [flow EXCEPT ![f] = x]
    BY <1>3, SignInTyped
  <1>5. auth[flow[f].app].listed \in BOOLEAN
    BY <1>1, ListedTyped
  <1>6. x \in FlowRow /\ x.pc = pc /\ x.who = flow[f].who /\ x.app = flow[f].app
    BY <1>1, <1>2, <1>5 DEF FlowRow, PCs
  <1>7. GoesOn(f, x)
    BY <1>1, <1>2, <1>4, <1>6 DEF GoesOn
  <1> HIDE DEF x
  <1>8. SignInTypeOK'
    BY DEF Callback, SignInInv, SignInTypeOK
  <1> QED
    BY <1>2, <1>6, <1>7, <1>8, GoesOnKeeps DEF Callback, Granted, Agreed

LEMMA ConsentKeeps ==
  ASSUME SignInInv, NEW f \in Flows, NEW allow \in BOOLEAN, Consent(f, allow)
  PROVE  SignInInv'
  <1> DEFINE on == allow /\ Offers(flow[f].app, flow[f].protocol) /\ Admits(flow[f].app, flow[f].who)
             x == [flow[f] EXCEPT !.listed = auth[flow[f].app].listed,
                                  !.pc = IF on THEN "issuing" ELSE "done"]
  <1>1. flow[f].pc = "consent" /\ flow[f] \in FlowRow /\ flow[f].app \in Apps /\ flow[f].who \in People
    BY UnderWay DEF Consent
  <1>2. /\ flow' = [flow EXCEPT ![f].listed = auth[flow[f].app].listed,
                                ![f].pc = IF on THEN "issuing" ELSE "done"]
        /\ consents' = IF on THEN consents \union {<<flow[f].who, flow[f].app>>} ELSE consents
        /\ UNCHANGED <<auth, entry, added, leaving, releases, login, sessions, through>>
    BY Zenon DEF Consent
  <1> HIDE DEF on
  <1>3. flow' = [flow EXCEPT ![f] = x]
    BY <1>2, SignInTyped
  <1>4. auth[flow[f].app].listed \in BOOLEAN
    BY <1>1, ListedTyped
  <1>5. /\ x \in FlowRow /\ x.pc = IF on THEN "issuing" ELSE "done"
        /\ x.who = flow[f].who /\ x.app = flow[f].app
    BY <1>1, <1>4 DEF FlowRow, PCs
  <1>6. GoesOn(f, x)
    BY <1>1, <1>3, <1>5 DEF GoesOn
  <1> HIDE DEF x
  <1>7. SignInTypeOK'
    BY <1>1, <1>2 DEF SignInInv, SignInTypeOK
  <1> QED
    BY <1>2, <1>5, <1>6, <1>7, GoesOnKeeps DEF Granted, Agreed
-----------------------------------------------------------------------------
(* The entry that lets somebody in.                                        *)

LEMMA AdmitTyped ==
  ASSUME SignInInv, NEW a \in Apps, NEW p \in People
  PROVE  Admit(a, p).bind \in 0 .. MaxEntries
  <1>1. EmailOf[p] \in Emails /\ entry[a][EmailOf[p]].id \in 0 .. MaxEntries
    BY SignInTyped
  <1>2. Unbound(a, p) \in 0 .. MaxEntries
    BY <1>1, SignInTyped DEF Unbound
  <1> QED
    BY <1>2, SignInTyped DEF Admit

LEMMA ReadListKeeps ==
  ASSUME SignInInv, NEW f \in Flows, ReadList(f)
  PROVE  SignInInv'
  <1> DEFINE m == Admit(flow[f].app, flow[f].who)
             bind == IF flow[f].listed THEN m.bind ELSE 0
             via == IF flow[f].listed THEN Via(flow[f].app, flow[f].who) ELSE {}
             pc == IF ~flow[f].listed THEN "storing"
                   ELSE IF ~m.ok THEN "done"
                   ELSE IF m.bind = 0 THEN "storing" ELSE "binding"
             x == [flow[f] EXCEPT !.entry = bind, !.via = via, !.pc = pc]
  <1>1. /\ flow[f].pc = "issuing" /\ flow[f] \in FlowRow
        /\ flow[f].app \in Apps /\ flow[f].who \in People
    BY UnderWay DEF ReadList
  <1>2. bind \in 0 .. MaxEntries
    BY <1>1, AdmitTyped, SignInTyped
  <1>3. via \subseteq 1 .. MaxEntries /\ \A i \in via : Fits(i, flow[f].who)
    BY <1>1, ViaFits
  <1>4. pc \in {"storing", "done", "binding"} /\ (pc = "binding" => bind # 0)
    OBVIOUS
  <1>5. flow' = [flow EXCEPT ![f].entry = bind, ![f].via = via, ![f].pc = pc]
    BY Zenon DEF ReadList
  <1> HIDE DEF m, bind, via, pc
  <1>6. flow' = [flow EXCEPT ![f] = x]
    BY <1>5, SignInTyped
  <1>7. /\ x \in FlowRow /\ x.pc = pc /\ x.who = flow[f].who /\ x.app = flow[f].app
        /\ x.entry = bind /\ x.via = via
    BY <1>1, <1>2, <1>3, <1>4 DEF FlowRow, PCs
  <1>8. GoesOn(f, x)
    BY <1>1, <1>4, <1>6, <1>7 DEF GoesOn
  <1> HIDE DEF x
  <1>9. SignInTypeOK' /\ UNCHANGED <<entry, added, login, sessions, consents, through>>
    BY DEF ReadList, SignInInv, SignInTypeOK
  <1>10. <<x.who, x.app>> \in consents
    BY <1>1, <1>7 DEF SignInInv, AgreedHold, Agreed
  <1> QED
    BY <1>3, <1>7, <1>8, <1>9, <1>10, GoesOnKeeps DEF Granted

LEMMA RereadListKeeps ==
  ASSUME SignInInv, NEW f \in Flows, RereadList(f)
  PROVE  SignInInv'
  <1> DEFINE m == Admit(flow[f].app, flow[f].who)
             via == Via(flow[f].app, flow[f].who)
             pc == IF m.ok /\ m.bind = 0 THEN "storing" ELSE "done"
             x == [flow[f] EXCEPT !.pc = pc, !.via = via]
  <1>1. /\ flow[f].pc = "rereading" /\ flow[f] \in FlowRow
        /\ flow[f].app \in Apps /\ flow[f].who \in People
    BY UnderWay DEF RereadList
  <1>2. via \subseteq 1 .. MaxEntries /\ \A i \in via : Fits(i, flow[f].who)
    BY <1>1, ViaFits
  <1>3. pc \in {"storing", "done"}
    OBVIOUS
  <1>4. flow' = [flow EXCEPT ![f].pc = pc, ![f].via = via]
    BY Zenon DEF RereadList
  <1> HIDE DEF m, via, pc
  <1>5. flow' = [flow EXCEPT ![f] = x]
    BY <1>4, SignInTyped
  <1>6. x \in FlowRow /\ x.pc = pc /\ x.who = flow[f].who /\ x.app = flow[f].app /\ x.via = via
    BY <1>1, <1>2, <1>3 DEF FlowRow, PCs
  <1>7. GoesOn(f, x)
    BY <1>1, <1>3, <1>5, <1>6 DEF GoesOn
  <1> HIDE DEF x
  <1>8. SignInTypeOK' /\ UNCHANGED <<entry, added, login, sessions, consents, through>>
    BY DEF RereadList, SignInInv, SignInTypeOK
  <1>9. <<x.who, x.app>> \in consents
    BY <1>1, <1>6 DEF SignInInv, AgreedHold, Agreed
  <1> QED
    BY <1>2, <1>6, <1>7, <1>8, <1>9, GoesOnKeeps DEF Granted

LEMMA StoreCodeKeeps ==
  ASSUME SignInInv, NEW f \in Flows, StoreCode(f)
  PROVE  SignInInv'
  <1> DEFINE x == [flow[f] EXCEPT !.pc = "coded", !.fresh = TRUE]
  <1>1. /\ flow[f].pc = "storing" /\ flow[f] \in FlowRow
        /\ flow[f].app \in Apps /\ flow[f].who \in People
    BY UnderWay DEF StoreCode
  <1>2. flow' = [flow EXCEPT ![f] = x]
    BY SignInTyped DEF StoreCode
  <1>3. x \in FlowRow /\ x.pc = "coded" /\ x.who = flow[f].who /\ x.app = flow[f].app
    BY <1>1 DEF FlowRow, PCs
  <1>4. GoesOn(f, x)
    BY <1>1, <1>2, <1>3 DEF GoesOn
  <1> HIDE DEF x
  <1>5. through' = through \union {<<i, flow[f].who>> : i \in flow[f].via}
    BY DEF StoreCode
  <1>6. flow[f].via \subseteq 1 .. MaxEntries
    BY <1>1 DEF FlowRow
  <1>7. SignInTypeOK' /\ UNCHANGED <<entry, added, login, sessions, consents>>
    BY <1>1, <1>5, <1>6 DEF StoreCode, SignInInv, SignInTypeOK
  <1>8. <<x.who, x.app>> \in consents
    BY <1>1, <1>3 DEF SignInInv, AgreedHold, Agreed
  <1>9. \A i \in 1 .. MaxEntries, p \in People : <<i, p>> \in through' => Granted(i, p)
    BY <1>1, <1>5 DEF Granted
  <1> QED
    BY <1>3, <1>4, <1>7, <1>8, <1>9, GoesOnKeeps

LEMMA CodeExpiresKeeps ==
  ASSUME SignInInv, NEW f \in Flows, CodeExpires(f)
  PROVE  SignInInv'
  <1> DEFINE x == [flow[f] EXCEPT !.fresh = FALSE]
  <1>1. flow[f].pc = "coded" /\ flow[f] \in FlowRow
    BY UnderWay DEF CodeExpires
  <1>2. flow' = [flow EXCEPT ![f] = x]
    BY SignInTyped DEF CodeExpires
  <1>3. x \in FlowRow /\ x.pc = "coded" /\ x.who = flow[f].who /\ x.app = flow[f].app
    BY <1>1 DEF FlowRow, PCs
  <1>4. GoesOn(f, x)
    BY <1>1, <1>2, <1>3 DEF GoesOn
  <1> HIDE DEF x
  <1>5. SignInTypeOK' /\ UNCHANGED <<entry, added, login, sessions, consents, through>>
    BY DEF CodeExpires, SignInInv, SignInTypeOK
  <1>6. <<x.who, x.app>> \in consents
    BY <1>1, <1>3 DEF SignInInv, AgreedHold, Agreed
  <1> QED
    BY <1>3, <1>4, <1>5, <1>6, GoesOnKeeps DEF Granted

\* Binding is a test and a set in one statement: of two that read the entry
\* unbound, one binds it.
LEMMA BindEntryKeeps ==
  ASSUME SignInInv, NEW f \in Flows, BindEntry(f)
  PROVE  SignInInv'
  <1> DEFINE a == flow[f].app
             p == flow[f].who
             e == EmailOf[p]
             can == entry[a][e].id = flow[f].entry /\ entry[a][e].subject = Nobody /\ ~IsBound(a, p)
             i == flow[f].entry
  <1>1. /\ flow[f].pc = "binding" /\ flow[f] \in FlowRow
        /\ a \in Apps /\ p \in People /\ e \in Emails /\ i # 0
    BY UnderWay, SignInTyped DEF BindEntry, SignInInv, FlowsTyped
  <1>2. /\ entry' = IF can THEN [entry EXCEPT ![a][e].subject = p] ELSE entry
        /\ flow' = [flow EXCEPT ![f].pc = IF can THEN "storing" ELSE "rereading",
                                ![f].via = IF can THEN {i} ELSE {}]
        /\ UNCHANGED <<auth, added, leaving, releases, consents, login, sessions, through>>
    BY Zenon DEF BindEntry
  <1>3. <<p, a>> \in consents
    BY <1>1 DEF SignInInv, AgreedHold, Agreed
  <1>4. CASE ~can
    <2> DEFINE x == [flow[f] EXCEPT !.pc = "rereading", !.via = {}]
    <2>1. flow' = [flow EXCEPT ![f] = x]
      BY <1>2, <1>4, SignInTyped
    <2>2. x \in FlowRow /\ x.pc = "rereading" /\ x.who = p /\ x.app = a
      BY <1>1 DEF FlowRow, PCs
    <2>3. GoesOn(f, x)
      BY <1>1, <2>1, <2>2 DEF GoesOn
    <2> HIDE DEF x
    <2>4. SignInTypeOK' /\ UNCHANGED <<entry, added, login, sessions, consents, through>>
      BY <1>2, <1>4 DEF SignInInv, SignInTypeOK
    <2> QED
      BY <1>3, <2>2, <2>3, <2>4, GoesOnKeeps DEF Granted
  <1>5. CASE can
    <2> DEFINE x == [flow[f] EXCEPT !.pc = "storing", !.via = {i}]
    <2>1. /\ i \in 1 .. MaxEntries /\ i <= added
          /\ entry[a][e].id = i /\ entry[a][e].subject = Nobody
      BY <1>1, <1>5, SignInTyped DEF SignInInv, ListOrderly
    <2>2. /\ flow' = [flow EXCEPT ![f] = x]
          /\ x \in FlowRow /\ x.pc = "storing" /\ x.who = p /\ x.app = a /\ x.via = {i}
      <3>1. flow' = [flow EXCEPT ![f].pc = "storing", ![f].via = {i}]
        BY <1>2, <1>5
      <3>2. flow' = [flow EXCEPT ![f] = x]
        BY <3>1, SignInTyped
      <3> QED
        BY <1>1, <2>1, <3>2 DEF FlowRow, PCs
    <2> HIDE DEF x, can
    <2>3. /\ flow' \in [Flows -> FlowRow] /\ flow'[f] = x
          /\ \A g \in Flows : g # f => flow'[g] = flow[g]
      BY <2>2, SignInTyped
    <2>4. /\ entry' \in [Apps -> [Emails -> [id : 0..MaxEntries, subject : People \union {Nobody}]]]
          /\ \A b \in Apps, g \in Emails :
               /\ entry'[b][g].id = entry[b][g].id
               /\ entry'[b][g].subject = IF b = a /\ g = e THEN p ELSE entry[b][g].subject
      <3>1. entry' = [entry EXCEPT ![a][e].subject = p]
        BY <1>2, <1>5
      <3> HIDE DEF a, p, e
      <3>2. a \in Apps /\ p \in People /\ e \in Emails
        BY <1>1
      <3> DEFINE Row == [id : 0..MaxEntries, subject : People \union {Nobody}]
                 new == [entry[a][e] EXCEPT !.subject = p]
      <3>3. entry \in [Apps -> [Emails -> Row]]
        BY SignInTyped
      <3>4. new \in Row /\ new.id = entry[a][e].id /\ new.subject = p
        BY <3>2, <3>3
      <3>5. entry' = [entry EXCEPT ![a][e] = new]
        BY <3>1, <3>2, <3>3
      <3> HIDE DEF new, Row
      <3>6. entry' \in [Apps -> [Emails -> Row]]
        BY <3>2, <3>3, <3>4, <3>5
      <3>7. \A b \in Apps, g \in Emails : entry'[b][g] = IF b = a /\ g = e THEN new ELSE entry[b][g]
        BY <3>2, <3>3, <3>5
      <3> QED
        BY <3>4, <3>6, <3>7 DEF Row
    <2> HIDE DEF a, p, e, i
    <2>5. SignInTypeOK'
      BY <1>2, <2>4 DEF SignInInv, SignInTypeOK
    <2>6. FlowsTyped'
      BY <1>1, <2>2, <2>3 DEF SignInInv, FlowsTyped
    <2>7. ListOrderly'
      <3>1. ListOrderly /\ UNCHANGED added /\ i # 0
        BY <1>2, <2>1 DEF SignInInv
      <3>2. \A b \in Apps, g \in Emails :
              /\ entry'[b][g].id <= added
              /\ entry'[b][g].id = 0 => entry'[b][g].subject = Nobody
        BY <2>1, <2>4, <3>1, SMTT(30) DEF ListOrderly
      <3>3. \A b, c \in Apps, g, h \in Emails :
              entry'[b][g].id = entry'[c][h].id /\ entry'[b][g].id # 0 => b = c /\ g = h
        BY <2>4, <3>1 DEF ListOrderly
      <3> QED
        BY <3>1, <3>2, <3>3 DEF ListOrderly
    <2>8. \A b \in Apps, g \in Emails : entry[b][g].id = i => b = a /\ g = e
      BY <1>1, <2>1 DEF SignInInv, ListOrderly
    \* nobody had a code by this entry: it was not bound
    <2>9. \A q \in People : ~Granted(i, q)
      <3> SUFFICES ASSUME NEW q \in People, Granted(i, q) PROVE FALSE
        OBVIOUS
      <3>1. GrantsHold
        BY DEF SignInInv
      <3>2. a \in Apps /\ e \in Emails /\ Nobody \notin People
        BY <1>1, SignInAssumption
      <3>3. entry[a][e].subject = q
        BY <2>1, <3>1, <3>2 DEF GrantsHold
      <3> QED
        BY <2>1, <3>2, <3>3
    <2>10. \A j \in 1 .. MaxEntries, q \in People : Granted(j, q)' => Granted(j, q) \/ (j = i /\ q = p)
      BY <1>1, <1>2, <2>2, <2>3 DEF Granted
    <2>11. GrantsHold'
      <3> SUFFICES ASSUME NEW j \in 1 .. MaxEntries, NEW q \in People, Granted(j, q)'
                   PROVE  /\ j <= added'
                          /\ \A b \in Apps, g \in Emails : entry'[b][g].id = j => entry'[b][g].subject = q
                          /\ \A r \in People : Granted(j, r)' => q = r
        BY DEF GrantsHold
      <3>1. CASE Granted(j, q)
        <4>1. j # i
          BY <2>9, <3>1
        <4>2. \A r \in People : Granted(j, r)' => Granted(j, r)
          BY <2>10, <4>1
        <4>3. \A b \in Apps, g \in Emails : entry[b][g].id = j => ~(b = a /\ g = e)
          BY <2>1, <4>1
        <4> QED
          BY <1>2, <2>4, <3>1, <4>2, <4>3 DEF SignInInv, GrantsHold
      <3>2. CASE j = i /\ q = p
        <4>1. \A r \in People : Granted(j, r)' => q = r
          BY <2>9, <2>10, <3>2
        <4>2. \A b \in Apps, g \in Emails : entry'[b][g].id = j => entry'[b][g].subject = q
          BY <2>4, <2>8, <3>2
        <4> QED
          BY <1>2, <2>1, <3>2, <4>1, <4>2
      <3> QED
        BY <2>10, <3>1, <3>2
    <2>12. LoginsHold'
      <3>1. login' = login
        BY <1>2
      <3>2. ASSUME NEW q \in People, NEW b \in Apps, login[q][b] # NoFlow
            PROVE  LET y == flow'[login[q][b]] IN y.pc # "idle" /\ y.who = q /\ y.app = b
        <4>1. login[q][b] \in Flows
          BY <3>2, SignInTyped
        <4>2. LET y == flow[login[q][b]] IN y.pc # "idle" /\ y.who = q /\ y.app = b
          BY <3>2 DEF SignInInv, LoginsHold
        <4> QED
          BY <2>2, <2>3, <4>1, <4>2 DEF a, p
      <3> QED
        BY <3>1, <3>2 DEF LoginsHold
    <2>13. AgreedHold'
      BY <1>2, <1>3, <2>2, <2>3 DEF SignInInv, AgreedHold
    <2>14. SessionsHold'
      <3>1. \A s \in sessions : s.flow \in Flows /\ s.flow # f
        BY <1>1, SignInTyped DEF SignInInv, SessionsHold
      <3> QED
        BY <1>2, <2>3, <3>1 DEF SignInInv, SessionsHold
    <2> QED
      BY <2>5, <2>6, <2>7, <2>11, <2>12, <2>13, <2>14 DEF SignInInv
  <1> QED
    BY <1>4, <1>5
-----------------------------------------------------------------------------
(* Sign-ins begin and end.                                                 *)

\* Sign-in f, idle so far, begins as x.
LEMMA BeginsKeeps ==
  ASSUME SignInInv, NEW f \in Flows, flow[f].pc = "idle", NEW x \in FlowRow,
         x.pc = "keycloak", x.app \in Apps, x.who \in People,
         flow' = [flow EXCEPT ![f] = x],
         login' \in {login, [login EXCEPT ![x.who][x.app] = f]},
         UNCHANGED <<auth, entry, added, leaving, releases, consents, sessions, through>>
  PROVE  SignInInv'
  <1>1. /\ flow' \in [Flows -> FlowRow] /\ flow'[f] = x
        /\ \A g \in Flows : g # f => flow'[g] = flow[g]
    BY SignInTyped
  <1>2. /\ login' \in [People -> [Apps -> Flows \union {NoFlow}]]
        /\ \A p \in People, a \in Apps :
             login'[p][a] = login[p][a] \/ (login'[p][a] = f /\ p = x.who /\ a = x.app)
    <2>1. CASE login' = login
      BY <2>1, SignInTyped
    <2>2. CASE login' = [login EXCEPT ![x.who][x.app] = f]
      BY <2>2, SignInTyped
    <2> QED
      BY <2>1, <2>2
  <1>3. SignInTypeOK'
    BY <1>2 DEF SignInInv, SignInTypeOK
  <1>4. FlowsTyped'
    BY <1>1 DEF SignInInv, FlowsTyped
  <1>5. ListOrderly'
    BY DEF SignInInv, ListOrderly
  <1>6. GrantsHold'
    <2>1. \A i, p : Granted(i, p)' => Granted(i, p)
      BY <1>1 DEF Granted
    <2> QED
      BY <2>1 DEF SignInInv, GrantsHold
  <1>7. LoginsHold'
    <2>1. ASSUME NEW p \in People, NEW a \in Apps, login'[p][a] # NoFlow
          PROVE  LET y == flow'[login'[p][a]] IN y.pc # "idle" /\ y.who = p /\ y.app = a
      <3>1. CASE login'[p][a] = login[p][a]
        <4>1. login[p][a] \in Flows
          BY <2>1, <3>1, SignInTyped
        <4>2. LET y == flow[login[p][a]] IN y.pc # "idle" /\ y.who = p /\ y.app = a
          BY <2>1, <3>1 DEF SignInInv, LoginsHold
        <4> QED
          BY <1>1, <3>1, <4>1, <4>2
      <3>2. CASE login'[p][a] = f /\ p = x.who /\ a = x.app
        BY <1>1, <3>2
      <3> QED
        BY <1>2, <3>1, <3>2
    <2> QED
      BY <2>1 DEF LoginsHold
  <1>8. AgreedHold'
    BY <1>1 DEF SignInInv, AgreedHold, Agreed
  <1>9. SessionsHold'
    <2>1. \A s \in sessions : s.flow \in Flows /\ s.flow # f
      BY SignInTyped DEF SignInInv, SessionsHold
    <2> QED
      BY <1>1, <2>1 DEF SignInInv, SessionsHold
  <1> QED
    BY <1>3, <1>4, <1>5, <1>6, <1>7, <1>8, <1>9 DEF SignInInv

LEMMA StartKeeps ==
  ASSUME SignInInv, NEW f \in Flows, NEW p \in People, NEW a \in Apps, Start(f, p, a)
  PROVE  SignInInv'
  <1> DEFINE x == [NewFlow EXCEPT !.pc = "keycloak", !.app = a, !.who = p, !.protocol = "header"]
  <1>1. x \in FlowRow /\ x.pc = "keycloak" /\ x.app = a /\ x.who = p
    BY NewFlowTyped, SignInTyped DEF FlowRow, PCs
  <1>2. flow' = [flow EXCEPT ![f] = x]
    BY DEF Start
  <1> HIDE DEF x
  <1> QED
    BY <1>1, <1>2, BeginsKeeps DEF Start

LEMMA AuthorizeKeeps ==
  ASSUME SignInInv, NEW f \in Flows, NEW p \in People, NEW a \in Apps,
         NEW prompt \in {"", "none", "consent"}, Authorize(f, p, a, prompt)
  PROVE  SignInInv'
  <1> DEFINE x == [NewFlow EXCEPT !.pc = "keycloak", !.app = a, !.who = p,
                                  !.protocol = "oidc", !.prompt = prompt]
  <1>1. x \in FlowRow /\ x.pc = "keycloak" /\ x.app = a /\ x.who = p
    BY NewFlowTyped, SignInTyped DEF FlowRow, PCs
  <1>2. flow' = [flow EXCEPT ![f] = x]
    BY DEF Authorize
  <1> HIDE DEF x
  <1> QED
    BY <1>1, <1>2, BeginsKeeps DEF Authorize

\* The code of sign-in f is burnt, for a session of its own browser at most.
LEMMA BurnsKeeps ==
  ASSUME SignInInv, NEW f \in Flows, flow[f].pc = "coded", FlowTo(f, "done"),
         sessions' \in {sessions, sessions \union
           {[app |-> flow[f].app, who |-> flow[f].who, browser |-> flow[f].who, flow |-> f]}},
         login' \in [People -> [Apps -> Flows \union {NoFlow}]],
         \A p \in People, a \in Apps : login'[p][a] \in {login[p][a], NoFlow},
         UNCHANGED <<auth, entry, added, leaving, releases, consents, through>>
  PROVE  SignInInv'
  <1> DEFINE x == [flow[f] EXCEPT !.pc = "done"]
  <1>1. flow[f] \in FlowRow /\ flow[f].app \in Apps /\ flow[f].who \in People
    BY UnderWay
  <1>2. x \in FlowRow /\ x.pc = "done" /\ x.who = flow[f].who /\ x.app = flow[f].app
    BY <1>1 DEF FlowRow, PCs
  <1>3. flow' = [flow EXCEPT ![f] = x]
    BY SignInTyped DEF FlowTo
  <1> HIDE DEF x
  <1>4. /\ flow' \in [Flows -> FlowRow] /\ flow'[f] = x
        /\ \A g \in Flows : g # f => flow'[g] = flow[g]
    BY <1>2, <1>3, SignInTyped
  <1>5. <<flow[f].who, flow[f].app>> \in consents
    BY DEF SignInInv, AgreedHold, Agreed
  <1>6. \A s \in sessions' :
          \/ s \in sessions /\ s.flow \in Flows /\ s.flow # f
          \/ s.flow = f /\ s.app = flow[f].app /\ s.who = flow[f].who /\ s.browser = flow[f].who
    <2>1. \A s \in sessions : s.flow \in Flows /\ s.flow # f
      BY SignInTyped DEF SignInInv, SessionsHold
    <2> QED
      BY <2>1
  <1>7. SignInTypeOK'
    <2>1. sessions' \subseteq [app : Apps, who : People, browser : People, flow : Flows]
      BY <1>1 DEF SignInInv, SignInTypeOK
    <2> QED
      BY <2>1 DEF SignInInv, SignInTypeOK
  <1>8. FlowsTyped'
    BY <1>1, <1>2, <1>4 DEF SignInInv, FlowsTyped
  <1>9. ListOrderly'
    BY DEF SignInInv, ListOrderly
  <1>10. GrantsHold'
    <2>1. \A i, p : Granted(i, p)' => Granted(i, p)
      BY <1>2, <1>4 DEF Granted
    <2> QED
      BY <2>1 DEF SignInInv, GrantsHold
  <1>11. LoginsHold'
    <2>1. ASSUME NEW p \in People, NEW a \in Apps, login'[p][a] # NoFlow
          PROVE  LET y == flow'[login'[p][a]] IN y.pc # "idle" /\ y.who = p /\ y.app = a
      <3>1. login'[p][a] = login[p][a] /\ login[p][a] \in Flows
        BY <2>1, SignInTyped
      <3>2. LET y == flow[login[p][a]] IN y.pc # "idle" /\ y.who = p /\ y.app = a
        BY <2>1, <3>1 DEF SignInInv, LoginsHold
      <3> QED
        BY <1>2, <1>4, <3>1, <3>2
    <2> QED
      BY <2>1 DEF LoginsHold
  <1>12. AgreedHold'
    BY <1>2, <1>4 DEF SignInInv, AgreedHold, Agreed
  <1>13. SessionsHold'
    BY <1>2, <1>4, <1>5, <1>6 DEF SignInInv, SessionsHold
  <1> QED
    BY <1>7, <1>8, <1>9, <1>10, <1>11, <1>12, <1>13 DEF SignInInv

LEMMA RedeemHeaderKeeps ==
  ASSUME SignInInv, NEW f \in Flows, NEW p \in People, NEW a \in Apps, RedeemHeader(f, p, a)
  PROVE  SignInInv'
  <1>1. /\ flow[f].pc = "coded" /\ FlowTo(f, "done")
        /\ sessions' = IF flow[f].fresh /\ flow[f].app = a /\ login[p][a] = f
                       THEN sessions \union
                              {[app |-> a, who |-> flow[f].who, browser |-> p, flow |-> f]}
                       ELSE sessions
        /\ login' = [login EXCEPT ![p][a] = NoFlow]
        /\ UNCHANGED <<auth, entry, added, leaving, releases, consents, through>>
    BY Zenon DEF RedeemHeader
  <1>2. login[p][a] = f => flow[f].who = p
    <2>1. f # NoFlow
      BY SignInTyped
    <2>2. \A q \in People, b \in Apps : login[q][b] # NoFlow => flow[login[q][b]].who = q
      BY DEF SignInInv, LoginsHold
    <2> QED
      BY <2>1, <2>2
  <1>3. sessions' \in {sessions, sessions \union
          {[app |-> flow[f].app, who |-> flow[f].who, browser |-> flow[f].who, flow |-> f]}}
    BY <1>1, <1>2
  <1>4. /\ login' \in [People -> [Apps -> Flows \union {NoFlow}]]
        /\ \A q \in People, b \in Apps : login'[q][b] \in {login[q][b], NoFlow}
    <2>1. login' = [login EXCEPT ![p][a] = NoFlow]
      BY <1>1
    <2> QED
      BY <2>1, SignInTyped
  <1> QED
    BY <1>1, <1>3, <1>4, BurnsKeeps

LEMMA TokenKeeps ==
  ASSUME SignInInv, NEW f \in Flows, NEW c \in Apps, NEW v \in Flows \union {NoFlow}, Token(f, c, v)
  PROVE  SignInInv'
  <1>1. /\ flow[f].pc = "coded" /\ FlowTo(f, "done")
        /\ \/ sessions' = sessions
           \/ /\ flow[f].app = c
              /\ sessions' = sessions \union
                   {[app |-> c, who |-> flow[f].who, browser |-> flow[f].who, flow |-> f]}
        /\ UNCHANGED <<auth, entry, added, leaving, releases, consents, login, through>>
    BY DEF Token
  <1>2. sessions' \in {sessions, sessions \union
          {[app |-> flow[f].app, who |-> flow[f].who, browser |-> flow[f].who, flow |-> f]}}
    BY <1>1
  <1>3. /\ login' \in [People -> [Apps -> Flows \union {NoFlow}]]
        /\ \A q \in People, b \in Apps : login'[q][b] \in {login[q][b], NoFlow}
    BY <1>1, SignInTyped
  <1> QED
    BY <1>1, <1>2, <1>3, BurnsKeeps
-----------------------------------------------------------------------------
(* The access list and the releases change.                                *)

\* Whatever changes besides the sign-ins, they stand where they stood, and no
\* session is new.
LEMMA AsideKeeps ==
  ASSUME SignInInv, SignInTypeOK', ListOrderly', GrantsHold',
         UNCHANGED <<flow, login, consents>>, sessions' \subseteq sessions
  PROVE  SignInInv'
  <1>1. FlowsTyped' /\ LoginsHold' /\ AgreedHold'
    BY DEF SignInInv, FlowsTyped, LoginsHold, AgreedHold
  <1>2. SessionsHold'
    BY DEF SignInInv, SessionsHold
  <1> QED
    BY <1>1, <1>2 DEF SignInInv

LEMMA AddEntryKeeps ==
  ASSUME SignInInv, NEW a \in Apps, NEW e \in Emails, AddEntry(a, e)
  PROVE  SignInInv'
  <1> DEFINE x == [id |-> added + 1, subject |-> Nobody]
  <1>1. /\ added < MaxEntries /\ added' = added + 1
        /\ entry' = [entry EXCEPT ![a][e] = x]
        /\ UNCHANGED <<auth, leaving, releases, consents, flow, login, sessions, through>>
    BY DEF AddEntry
  <1>2. x \in [id : 0..MaxEntries, subject : People \union {Nobody}]
        /\ x.id = added + 1 /\ x.subject = Nobody
    BY <1>1, SignInTyped
  <1> HIDE DEF x
  <1>3. /\ entry' \in [Apps -> [Emails -> [id : 0..MaxEntries, subject : People \union {Nobody}]]]
        /\ \A b \in Apps, g \in Emails :
             entry'[b][g] = IF b = a /\ g = e THEN x ELSE entry[b][g]
    BY <1>1, <1>2, SignInTyped
  <1>4. SignInTypeOK'
    <2>1. added' \in 0 .. MaxEntries
      BY <1>1, SignInTyped
    <2> QED
      BY <1>1, <1>3, <2>1 DEF SignInInv, SignInTypeOK
  <1>5. \A b \in Apps, g \in Emails : entry[b][g].id \in 0 .. added
    BY SignInTyped DEF SignInInv, ListOrderly
  <1>6. ListOrderly'
    <2>1. \A b \in Apps, g \in Emails :
            /\ entry'[b][g].id <= added'
            /\ entry'[b][g].id = 0 => entry'[b][g].subject = Nobody
      BY <1>1, <1>2, <1>3, <1>5, SignInTyped DEF SignInInv, ListOrderly
    <2>2. ASSUME NEW b \in Apps, NEW c \in Apps, NEW g \in Emails, NEW h \in Emails,
                 entry'[b][g].id = entry'[c][h].id, entry'[b][g].id # 0
          PROVE  b = c /\ g = h
      <3>1. entry[b][g].id # added + 1 /\ entry[c][h].id # added + 1
        BY <1>5, SignInTyped
      <3>2. CASE b = a /\ g = e
        BY <1>2, <1>3, <2>2, <3>1, <3>2
      <3>3. CASE ~(b = a /\ g = e)
        <4>1. entry'[b][g] = entry[b][g]
          BY <1>3, <3>3
        <4>2. ~(c = a /\ h = e)
          BY <1>2, <1>3, <2>2, <3>1, <4>1
        <4>3. entry'[c][h] = entry[c][h]
          BY <1>3, <4>2
        <4> QED
          BY <2>2, <4>1, <4>3 DEF SignInInv, ListOrderly
      <3> QED
        BY <3>2, <3>3
    <2> QED
      BY <2>1, <2>2 DEF ListOrderly
  <1>7. GrantsHold'
    <2>1. \A i, p : Granted(i, p)' <=> Granted(i, p)
      BY <1>1 DEF Granted
    <2>2. ASSUME NEW i \in 1 .. MaxEntries, NEW p \in People, Granted(i, p)
          PROVE  /\ i <= added'
                 /\ \A b \in Apps, g \in Emails : entry'[b][g].id = i => entry'[b][g].subject = p
                 /\ \A q \in People : Granted(i, q) => p = q
      <3>1. /\ i <= added
            /\ \A b \in Apps, g \in Emails : entry[b][g].id = i => entry[b][g].subject = p
            /\ \A q \in People : Granted(i, q) => p = q
        BY <2>2 DEF SignInInv, GrantsHold
      <3> QED
        BY <1>1, <1>2, <1>3, <3>1, SignInTyped
    <2> QED
      BY <2>1, <2>2 DEF GrantsHold
  <1> QED
    BY <1>1, <1>4, <1>6, <1>7, AsideKeeps

LEMMA RemoveEntryKeeps ==
  ASSUME SignInInv, NEW a \in Apps, NEW e \in Emails, LockEntry(a, e) \/ RemoveEntry(a, e)
  PROVE  SignInInv'
  <1>1. /\ entry' = entry \/ entry' = [entry EXCEPT ![a][e] = NoEntry]
        /\ UNCHANGED <<auth, added, releases, consents, flow, login, through>>
    BY DEF LockEntry, RemoveEntry
  <1>2. NoEntry \in [id : 0..MaxEntries, subject : People \union {Nobody}]
        /\ NoEntry.id = 0 /\ NoEntry.subject = Nobody
    BY SignInTyped DEF NoEntry
  <1>3. /\ entry' \in [Apps -> [Emails -> [id : 0..MaxEntries, subject : People \union {Nobody}]]]
        /\ \A b \in Apps, g \in Emails :
             entry'[b][g] = entry[b][g] \/ entry'[b][g] = NoEntry
    <2>1. CASE entry' = entry
      BY <2>1, SignInTyped
    <2>2. CASE entry' = [entry EXCEPT ![a][e] = NoEntry]
      BY <2>2, <1>2, SignInTyped
    <2> QED
      BY <1>1, <2>1, <2>2
  <1>4. sessions' \subseteq sessions /\ leaving' \subseteq Apps \X Emails
    BY DEF LockEntry, RemoveEntry, SignInInv, SignInTypeOK
  <1>5. SignInTypeOK'
    BY <1>1, <1>3, <1>4 DEF SignInInv, SignInTypeOK
  <1>6. ListOrderly'
    <2>1. \A b \in Apps, g \in Emails :
            /\ entry'[b][g].id <= added'
            /\ entry'[b][g].id = 0 => entry'[b][g].subject = Nobody
      BY <1>1, <1>2, <1>3, SignInTyped DEF SignInInv, ListOrderly
    <2>2. \A b, c \in Apps, g, h \in Emails :
            entry'[b][g].id = entry'[c][h].id /\ entry'[b][g].id # 0 => b = c /\ g = h
      <3> TAKE b, c \in Apps, g, h \in Emails
      <3> HAVE entry'[b][g].id = entry'[c][h].id /\ entry'[b][g].id # 0
      <3>1. entry'[b][g] = entry[b][g]
        BY <1>2, <1>3
      <3>2. entry'[c][h] = entry[c][h]
        BY <1>2, <1>3
      <3> QED
        BY <3>1, <3>2 DEF SignInInv, ListOrderly
    <2> QED
      BY <2>1, <2>2 DEF ListOrderly
  <1>7. GrantsHold'
    <2>1. \A i, p : Granted(i, p)' <=> Granted(i, p)
      BY <1>1 DEF Granted
    <2>2. \A i \in 1 .. MaxEntries : \A b \in Apps, g \in Emails :
            entry'[b][g].id = i => entry'[b][g] = entry[b][g]
      BY <1>2, <1>3
    <2> QED
      BY <1>1, <2>1, <2>2 DEF SignInInv, GrantsHold
  <1> QED
    BY <1>1, <1>4, <1>5, <1>6, <1>7, AsideKeeps

LEMMA ServeReleaseKeeps ==
  ASSUME SignInInv, NEW a \in Apps, NEW settings \in AuthSettings, ServeRelease(a, settings)
  PROVE  SignInInv'
  <1>1. /\ releases < MaxReleases /\ releases' = releases + 1
        /\ auth' = [auth EXCEPT ![a] = settings]
        /\ UNCHANGED <<entry, added, leaving, consents, flow, login, sessions, through>>
    BY DEF ServeRelease
  <1>2. SignInTypeOK'
    BY <1>1, SignInAssumption DEF SignInInv, SignInTypeOK
  <1>3. ListOrderly'
    BY <1>1 DEF SignInInv, ListOrderly
  <1>4. GrantsHold'
    BY <1>1 DEF SignInInv, GrantsHold, Granted
  <1> QED
    BY <1>1, <1>2, <1>3, <1>4, AsideKeeps
-----------------------------------------------------------------------------
(* The invariant.                                                          *)

LEMMA SignInInitially ==
  ASSUME SignInInit PROVE SignInInv
  <1>1. /\ auth \in [Apps -> AuthSettings]
        /\ entry = [a \in Apps |-> [e \in Emails |-> NoEntry]]
        /\ added = 0 /\ leaving = {} /\ releases = 0 /\ consents = {}
        /\ flow = [f \in Flows |-> NewFlow]
        /\ login = [p \in People |-> [a \in Apps |-> NoFlow]]
        /\ sessions = {} /\ through = {}
        /\ MaxEntries \in Nat /\ MaxReleases \in Nat
    BY SignInAssumption DEF SignInInit
  <1>2. /\ NoEntry \in [id : 0..MaxEntries, subject : People \union {Nobody}]
        /\ NoEntry.id = 0 /\ NoEntry.subject = Nobody
    BY <1>1 DEF NoEntry
  <1>3. flow \in [Flows -> FlowRow] /\ \A f \in Flows : flow[f].pc = "idle"
    BY <1>1, NewFlowTyped
  <1>4. SignInTypeOK
    BY <1>1, <1>2 DEF SignInTypeOK
  <1>5. FlowsTyped /\ AgreedHold
    BY <1>3 DEF FlowsTyped, AgreedHold, Agreed
  <1>6. ListOrderly
    BY <1>1, <1>2 DEF ListOrderly
  <1>7. GrantsHold
    BY <1>1, <1>3 DEF GrantsHold, Granted
  <1>8. LoginsHold /\ SessionsHold
    BY <1>1 DEF LoginsHold, SessionsHold
  <1> QED
    BY <1>4, <1>5, <1>6, <1>7, <1>8 DEF SignInInv

LEMMA SignInStep ==
  ASSUME SignInInv, [SignInNext]_signInVars
  PROVE  SignInInv'
  <1>1. CASE UNCHANGED signInVars
    <2>1. SignInTypeOK' /\ ListOrderly'
      BY <1>1 DEF signInVars, SignInInv, SignInTypeOK, ListOrderly
    <2>2. GrantsHold'
      BY <1>1 DEF signInVars, SignInInv, GrantsHold, Granted
    <2> QED
      BY <1>1, <2>1, <2>2, AsideKeeps DEF signInVars
  <1>2. ASSUME NEW f \in Flows, NEW p \in People, NEW a \in Apps,
               \/ Start(f, p, a) \/ RedeemHeader(f, p, a)
               \/ \E prompt \in {"", "none", "consent"} : Authorize(f, p, a, prompt)
        PROVE  SignInInv'
    BY <1>2, StartKeeps, RedeemHeaderKeeps, AuthorizeKeeps
  <1>3. ASSUME NEW f \in Flows,
               \/ Abandon(f) \/ Callback(f) \/ ReadList(f) \/ BindEntry(f) \/ RereadList(f)
               \/ StoreCode(f) \/ CodeExpires(f)
               \/ \E allow \in BOOLEAN : Consent(f, allow)
               \/ \E c \in Apps, v \in Flows \union {NoFlow} : Token(f, c, v)
        PROVE  SignInInv'
    BY <1>3, AbandonKeeps, CallbackKeeps, ReadListKeeps, BindEntryKeeps, RereadListKeeps,
       StoreCodeKeeps, CodeExpiresKeeps, ConsentKeeps, TokenKeeps
  <1>4. ASSUME NEW a \in Apps, NEW e \in Emails, AddEntry(a, e) \/ LockEntry(a, e) \/ RemoveEntry(a, e)
        PROVE  SignInInv'
    BY <1>4, AddEntryKeeps, RemoveEntryKeeps
  <1>5. ASSUME NEW a \in Apps, NEW s \in AuthSettings, ServeRelease(a, s)
        PROVE  SignInInv'
    BY <1>5, ServeReleaseKeeps
  <1> QED
    BY <1>1, <1>2, <1>3, <1>4, <1>5, Zenon DEF SignInNext

\* The invariant of the sign-ins, whatever requests, list changes and releases
\* come between two statements of one of them (issueCode, admitted).
THEOREM SignInInvariance == SignInSpec => []SignInInv
  <1>1. SignInInit => SignInInv
    BY SignInInitially
  <1>2. SignInInv /\ [SignInNext]_signInVars => SignInInv'
    BY SignInStep
  <1> QED
    BY <1>1, <1>2, PTL DEF SignInSpec

\* Through one entry of the list one account gets in; a session belongs to the
\* browser and the app its sign-in began with; nobody is disclosed unasked
\* (accessList.admit, bindEntry, verify.callback, token).
THEOREM SignInsStaySound == SignInSpec => []SignInsAreSound
  <1>1. SignInInv => SignInsAreSound
    <2> SUFFICES ASSUME SignInInv PROVE SignInsAreSound
      OBVIOUS
    <2>1. OneAccountPerEntry
      <3> SUFFICES ASSUME NEW x \in through, NEW y \in through, x[1] = y[1]
                   PROVE  x[2] = y[2]
        BY DEF OneAccountPerEntry
      <3>1. /\ x[1] \in 1 .. MaxEntries /\ x[2] \in People /\ y[2] \in People
            /\ <<x[1], x[2]>> \in through /\ <<x[1], y[2]>> \in through
        <4>1. x \in (1 .. MaxEntries) \X People /\ y \in (1 .. MaxEntries) \X People
          BY SignInTyped
        <4>2. x = <<x[1], x[2]>> /\ y = <<x[1], y[2]>>
          BY <4>1
        <4> QED
          BY <4>1, <4>2
      <3> QED
        BY <3>1 DEF SignInInv, GrantsHold, Granted
    <2>2. SessionIsItsBrowsers
      BY DEF SignInInv, SessionsHold, SessionIsItsBrowsers
    <2>3. NothingWithoutConsent
      BY DEF SignInInv, SessionsHold, AgreedHold, Agreed, NothingWithoutConsent
    <2> QED
      BY <2>1, <2>2, <2>3 DEF SignInsAreSound, SignInInv
  <1> QED
    BY <1>1, SignInInvariance, PTL
-----------------------------------------------------------------------------
(* Signing out *)

TabRow == [st : {"away", "consent", "code", "signedIn", "closed"}, login : Logins,
           since : NoTime .. MaxClock, till : Int, sid : 0 .. (MaxRotations + 1)]

\* A cookie lives for SessionTTL, and was issued in the past.
CookiesExpire ==
  \A t \in Tabs : tab[t].st = "signedIn" =>
    tab[t].since \in 0 .. clock /\ tab[t].till = tab[t].since + SessionTTL

\* A record of l's end is made once, at most TxTimeout after its time, and
\* what the table and the verifier's copy say of l is that record or nothing.
EndIsOnce(l) ==
  /\ notice[l].at <= clock
  /\ notice[l].st = "ending" => notice[l].at \in 0 .. clock /\ clock - notice[l].at <= TxTimeout
  /\ notice[l].st = "answered" => endedAt[l] \in 0 .. clock
  /\ notice[l].st # "answered" => endedAt[l] = NoTime /\ l \notin covered
  /\ endedRow[l] \in {NoTime, endedAt[l]} /\ held[l] \in {NoTime, endedAt[l]}

Outlived(l) == endedAt[l] < clock - EndedRetention

\* The copy holds what has been read, until the cookies of that login have
\* expired; what it has not read lies where the next refresh looks.
CopyIsCurrent(l) ==
  /\ l \in covered => held[l] = endedAt[l] \/ Outlived(l)
  /\ loaded /\ endedRow[l] # NoTime =>
       held[l] = endedAt[l] \/ endedRow[l] >= latest - EndedLookback \/ Outlived(l)

\* A sign-in on record has a sid, and nothing is purged before its time.
RecordsHold ==
  /\ \A l \in Logins : /\ signInRow[l].at <= clock
                       /\ signInRow[l].at # NoTime => signInRow[l].at >= 0 /\ signInRow[l].sid > 0
  /\ SidsAgree

SignOutInv ==
  /\ SignOutTypeOK /\ tab \in [Tabs -> TabRow] /\ latest <= clock
  /\ CookiesExpire /\ RecordsHold
  /\ \A l \in Logins : EndIsOnce(l) /\ CopyIsCurrent(l)

LEMMA SignOutNats ==
  /\ SessionTTL \in Nat /\ CodeTTL \in Nat /\ ConsentTTL \in Nat /\ EndedRetention \in Nat
  /\ EndedLookback \in Nat /\ SignInRetention \in Nat /\ LoginLifespan \in Nat /\ TxTimeout \in Nat
  /\ TokenAge \in Nat /\ MaxClock \in Nat /\ MaxRestarts \in Nat /\ MaxRotations \in Nat
  /\ TxTimeout <= EndedLookback /\ SessionTTL <= EndedRetention
  BY SignOutAssumption

\* A set of times has a latest.
LEMMA HasLatest ==
  ASSUME NEW S \in SUBSET (NoTime .. MaxClock), S # {}
  PROVE  \E m \in S : \A x \in S : x <= m
  <1> DEFINE Below == {p \in Nat \X Nat : p[1] < p[2]}
             T == {d \in Nat : MaxClock - d \in S}
  <1>1. IsWellFoundedOn(Below, Nat)
    BY NatLessThanWellFounded DEF OpToRel
  <1>2. \A x \in S : x \in Int /\ MaxClock - x \in Nat /\ MaxClock - (MaxClock - x) = x
    BY SignOutNats DEF NoTime
  <1>3. T # {} /\ T \subseteq Nat
    BY <1>2
  <1>4. PICK d \in T : \A e \in T : <<e, d>> \notin Below
    BY <1>1, <1>3, WFMin
  <1>5. MaxClock - d \in S /\ d \in Nat
    BY <1>4
  <1>6. ASSUME NEW x \in S PROVE x <= MaxClock - d
    <2>1. MaxClock - x \in T /\ MaxClock - x \in Nat /\ x \in Int
      BY <1>2
    <2>2. ~ (MaxClock - x < d)
      <3>1. <<MaxClock - x, d>> \in Nat \X Nat /\ <<MaxClock - x, d>>[1] = MaxClock - x
            /\ <<MaxClock - x, d>>[2] = d
        BY <1>5, <2>1
      <3>2. <<MaxClock - x, d>> \notin Below
        BY <1>4, <2>1
      <3> QED
        BY <3>1, <3>2
    <2> QED
      BY <1>5, <2>1, <2>2, SignOutNats
  <1> QED
    BY <1>5, <1>6

LEMMA SignOutTyped ==
  ASSUME SignOutInv
  PROVE  /\ clock \in 0 .. MaxClock /\ tab \in [Tabs -> TabRow]
         /\ notice \in [Logins -> [st : {"none", "sent", "refused", "ending", "answered"}, at : NoTime .. MaxClock]]
         /\ endedRow \in [Logins -> NoTime .. MaxClock] /\ endedAt \in [Logins -> NoTime .. MaxClock]
         /\ held \in [Logins -> NoTime .. MaxClock] /\ latest \in NoTime .. MaxClock
         /\ signInRow \in [Logins -> [at : NoTime .. MaxClock, sid : 0 .. (MaxRotations + 1)]]
         /\ key \in 1 .. (MaxRotations + 1) /\ loaded \in BOOLEAN /\ latest <= clock
  BY DEF SignOutInv, SignOutTypeOK

LEMMA TabTyped ==
  ASSUME SignOutInv, NEW t \in Tabs
  PROVE  tab[t] \in TabRow /\ tab[t].login \in Logins
  BY SignOutTyped DEF TabRow

\* What the parts of the invariant about one login look at.
LEMMA LoginKept ==
  ASSUME SignOutInv, NEW l \in Logins, clock' = clock, latest' = latest, loaded' = loaded,
         covered' = covered, notice'[l] = notice[l], endedAt'[l] = endedAt[l],
         endedRow'[l] = endedRow[l], held'[l] = held[l]
  PROVE  (EndIsOnce(l) /\ CopyIsCurrent(l))'
  BY DEF SignOutInv, EndIsOnce, CopyIsCurrent, Outlived

\* A step that leaves the records and the copy alone.
LEMMA EndsKept ==
  ASSUME SignOutInv, UNCHANGED <<clock, latest, loaded, covered, notice, endedAt, endedRow, held>>
  PROVE  \A l \in Logins : (EndIsOnce(l) /\ CopyIsCurrent(l))'
  BY LoginKept

\* A step of t alone, that issues no code.
LEMMA TabKeeps ==
  ASSUME SignOutInv, NEW t \in Tabs, NEW x \in TabRow, tab' = [tab EXCEPT ![t] = x],
         UNCHANGED <<protocol, clock, notice, endedRow, signInRow, deliveries, key, held, latest,
                     loaded, restarts, endedAt, covered>>,
         x.st = "signedIn" => x.since \in 0 .. clock /\ x.till = x.since + SessionTTL,
         x.st \in {"code", "signedIn"} =>
           tab[t].st \in {"code", "signedIn"} /\ x.login = tab[t].login /\ x.sid = tab[t].sid
  PROVE  SignOutInv'
  <1>1. tab' \in [Tabs -> TabRow] /\ \A u \in Tabs : tab'[u] = IF u = t THEN x ELSE tab[u]
    BY SignOutTyped
  <1>2. SignOutTypeOK'
    <2>1. \A u \in Tabs : tab'[u].st \in {"away", "consent", "code", "signedIn", "closed"} /\ tab'[u].login \in Logins
      BY <1>1 DEF TabRow
    <2> QED
      BY <2>1 DEF SignOutInv, SignOutTypeOK
  <1>3. CookiesExpire'
    BY <1>1 DEF SignOutInv, CookiesExpire
  <1>4. SidsAgree'
    BY <1>1 DEF SignOutInv, RecordsHold, SidsAgree
  <1>5. RecordsHold'
    BY <1>4 DEF SignOutInv, RecordsHold
  <1> QED
    BY <1>1, <1>2, <1>3, <1>5, EndsKept DEF SignOutInv

LEMMA IssueKeeps ==
  ASSUME SignOutInv, NEW t \in Tabs, NEW l \in Logins, IssueCode(t, l),
         UNCHANGED <<protocol, clock, notice, endedRow, deliveries, key, held, latest, loaded,
                     restarts, endedAt, covered>>
  PROVE  SignOutInv'
  <1> DEFINE sid == IF signInRow[l].at = NoTime THEN key ELSE signInRow[l].sid
             x == [st |-> "code", login |-> l, since |-> NoTime, till |-> clock + CodeTTL,
                   sid |-> IF protocol = "oidc" THEN sid ELSE 0]
             row == [at |-> clock, sid |-> sid]
  <1>1. tab' = [tab EXCEPT ![t] = x]
        /\ signInRow' = IF protocol = "oidc" THEN [signInRow EXCEPT ![l] = row] ELSE signInRow
    BY DEF IssueCode
  <1>2. /\ clock \in 0 .. MaxClock /\ clock \in Nat
        /\ signInRow[l] \in [at : NoTime .. MaxClock, sid : 0 .. (MaxRotations + 1)]
    BY SignOutTyped, SignOutNats
  <1>3. sid \in 1 .. (MaxRotations + 1)
    <2>1. signInRow[l].at # NoTime => signInRow[l].sid > 0
      BY DEF SignOutInv, RecordsHold
    <2> QED
      BY <1>2, <2>1, SignOutTyped, SignOutNats
  <1> HIDE DEF sid
  <1>4. x \in TabRow /\ row \in [at : NoTime .. MaxClock, sid : 0 .. (MaxRotations + 1)]
    BY <1>2, <1>3, SignOutNats DEF TabRow, NoTime
  <1>5. /\ x.st = "code" /\ x.login = l /\ (protocol = "oidc" => x.sid = sid)
        /\ row.at = clock /\ row.sid = sid
    OBVIOUS
  <1> HIDE DEF x, row
  <1>6. tab' \in [Tabs -> TabRow] /\ \A u \in Tabs : tab'[u] = IF u = t THEN x ELSE tab[u]
    BY <1>1, <1>4, SignOutTyped
  <1>7. /\ signInRow' \in [Logins -> [at : NoTime .. MaxClock, sid : 0 .. (MaxRotations + 1)]]
        /\ \A m \in Logins : signInRow'[m] = IF protocol = "oidc" /\ m = l THEN row ELSE signInRow[m]
    BY <1>1, <1>4, SignOutTyped
  <1>8. SignOutTypeOK'
    <2>1. \A u \in Tabs : tab'[u].st \in {"away", "consent", "code", "signedIn", "closed"} /\ tab'[u].login \in Logins
      BY <1>6 DEF TabRow
    <2> QED
      BY <1>7, <2>1 DEF SignOutInv, SignOutTypeOK
  <1>9. CookiesExpire'
    BY <1>5, <1>6 DEF SignOutInv, CookiesExpire
  <1>10. SidsAgree'
    <2> SUFFICES ASSUME clock <= SignInRetention, NEW u \in Tabs, protocol = "oidc",
                        tab'[u].st \in {"code", "signedIn"}, endedAt[tab'[u].login] = NoTime
                 PROVE  signInRow'[tab'[u].login].at # NoTime /\ signInRow'[tab'[u].login].sid = tab'[u].sid
      BY DEF SidsAgree
    <2>1. clock # NoTime
      BY <1>2 DEF NoTime
    <2>2. CASE u = t
      BY <1>5, <1>6, <1>7, <2>1, <2>2
    <2>3. CASE u # t
      <3>1. /\ tab'[u] = tab[u] /\ tab[u].login \in Logins
            /\ signInRow[tab[u].login].at # NoTime /\ signInRow[tab[u].login].sid = tab[u].sid
        BY <1>6, <2>3, TabTyped DEF SignOutInv, RecordsHold, SidsAgree
      <3> QED
        BY <1>5, <1>7, <2>1, <3>1 DEF sid
    <2> QED
      BY <2>2, <2>3
  <1>11. RecordsHold'
    <2>1. \A m \in Logins : /\ signInRow'[m].at <= clock
                            /\ signInRow'[m].at # NoTime => signInRow'[m].at >= 0 /\ signInRow'[m].sid > 0
      BY <1>2, <1>3, <1>5, <1>7 DEF SignOutInv, RecordsHold
    <2> QED
      BY <1>10, <2>1 DEF RecordsHold
  <1> QED
    BY <1>6, <1>8, <1>9, <1>11, EndsKept DEF SignOutInv

LEMMA TabStepKeeps ==
  ASSUME SignOutInv, NEW t \in Tabs,
         \/ AnswerConsent(t) \/ RedeemCode(t) \/ SignOutOfHeaderApp(t) \/ SignOutOfOidcApp(t)
         \/ \E l \in Logins : ReturnFromKeycloak(t, l)
  PROVE  SignOutInv'
  <1>1. tab[t] \in TabRow /\ clock \in 0 .. MaxClock /\ clock \in Nat
    BY TabTyped, SignOutTyped, SignOutNats
  <1>2. ASSUME tab' = [tab EXCEPT ![t].st = "closed"],
               UNCHANGED <<protocol, clock, notice, endedRow, signInRow, deliveries, key, held, latest,
                           loaded, restarts, endedAt, covered>>
        PROVE  SignOutInv'
    <2> DEFINE x == [tab[t] EXCEPT !.st = "closed"]
    <2>1. x \in TabRow /\ x.st = "closed" /\ tab' = [tab EXCEPT ![t] = x]
      BY <1>1, <1>2, SignOutTyped DEF TabRow
    <2> HIDE DEF x
    <2> QED
      BY <1>2, <2>1, TabKeeps
  <1>3. CASE AnswerConsent(t)
    BY <1>1, <1>2, <1>3, IssueKeeps DEF AnswerConsent, TabRow
  <1>4. CASE RedeemCode(t)
    <2>1. CASE tab[t].till > clock
      <3> DEFINE x == [tab[t] EXCEPT !.st = "signedIn", !.since = clock, !.till = clock + SessionTTL]
      <3>1. tab' = [tab EXCEPT ![t] = x]
        BY <1>4, <2>1, SignOutTyped DEF RedeemCode
      <3>2. /\ x \in TabRow /\ x.st = "signedIn" /\ x.since = clock /\ x.till = clock + SessionTTL
            /\ x.login = tab[t].login /\ x.sid = tab[t].sid
        <4>1. clock \in NoTime .. MaxClock /\ clock + SessionTTL \in Int
          BY <1>1, SignOutNats DEF NoTime
        <4> QED
          BY <1>1, <4>1 DEF TabRow
      <3>3. clock \in 0 .. clock /\ tab[t].st = "code"
        BY <1>1, <1>4 DEF RedeemCode
      <3>4. UNCHANGED <<protocol, clock, notice, endedRow, signInRow, deliveries, key, held, latest,
                        loaded, restarts, endedAt, covered>>
        BY <1>4 DEF RedeemCode
      <3> HIDE DEF x
      <3> QED
        BY <3>1, <3>2, <3>3, <3>4, TabKeeps
    <2>2. CASE ~ (tab[t].till > clock)
      BY <1>2, <1>4, <2>2 DEF RedeemCode
    <2> QED
      BY <2>1, <2>2
  <1>5. CASE SignOutOfHeaderApp(t)
    BY <1>2, <1>5 DEF SignOutOfHeaderApp
  <1>6. CASE SignOutOfOidcApp(t)
    BY <1>2, <1>6 DEF SignOutOfOidcApp
  <1>7. ASSUME NEW l \in Logins, ReturnFromKeycloak(t, l) PROVE SignOutInv'
    <2> DEFINE x == [st |-> "consent", login |-> l, since |-> NoTime, till |-> clock + ConsentTTL, sid |-> 0]
    <2>1. CASE IssueCode(t, l)
      BY <1>7, <2>1, IssueKeeps DEF ReturnFromKeycloak
    <2>2. CASE tab' = [tab EXCEPT ![t] = x] /\ UNCHANGED signInRow
      <3>1. x \in TabRow /\ x.st = "consent"
        BY <1>1, SignOutNats DEF TabRow, NoTime
      <3> HIDE DEF x
      <3> QED
        BY <1>7, <2>2, <3>1, TabKeeps DEF ReturnFromKeycloak
    <2> QED
      BY <1>7, <2>1, <2>2 DEF ReturnFromKeycloak
  <1> QED
    BY <1>3, <1>4, <1>5, <1>6, <1>7

LEMMA DeliverKeeps ==
  ASSUME SignOutInv, NEW d \in deliveries, DeliverLogout(d)
  PROVE  SignOutInv'
  <1>1. deliveries' \subseteq deliveries
        /\ UNCHANGED <<protocol, clock, notice, endedRow, signInRow, key, held, latest, loaded, restarts, endedAt, covered>>
    BY DEF DeliverLogout
  <1>2. tab' \in [Tabs -> TabRow]
        /\ \A u \in Tabs : tab'[u] = tab[u] \/ tab'[u] = [tab[u] EXCEPT !.st = "closed"]
    <2>1. \A u \in Tabs : tab[u] \in TabRow /\ [tab[u] EXCEPT !.st = "closed"] \in TabRow
      BY TabTyped DEF TabRow
    <2>2. CASE UNCHANGED tab
      BY <2>2, SignOutTyped
    <2>3. CASE tab' = [t \in Tabs |->
                        IF tab[t].st = "signedIn" /\ tab[t].login = d.login /\ tab[t].sid = d.sid
                        THEN [tab[t] EXCEPT !.st = "closed"] ELSE tab[t]]
      BY <2>1, <2>3
    <2> QED
      BY <2>2, <2>3 DEF DeliverLogout
  <1>3. \A u \in Tabs : tab'[u] \in TabRow /\ (tab'[u] = tab[u] \/ tab'[u].st = "closed")
    <2>1. \A u \in Tabs : [tab[u] EXCEPT !.st = "closed"].st = "closed"
      BY TabTyped DEF TabRow
    <2> QED
      BY <1>2, <2>1
  <1>4. SignOutTypeOK'
    <2>1. \A u \in Tabs : tab'[u].st \in {"away", "consent", "code", "signedIn", "closed"} /\ tab'[u].login \in Logins
      BY <1>3 DEF TabRow
    <2> QED
      BY <1>1, <2>1 DEF SignOutInv, SignOutTypeOK
  <1>5. CookiesExpire'
    BY <1>1, <1>3 DEF SignOutInv, CookiesExpire
  <1>6. SidsAgree'
    BY <1>1, <1>3 DEF SignOutInv, RecordsHold, SidsAgree
  <1>7. RecordsHold'
    BY <1>1, <1>6 DEF SignOutInv, RecordsHold
  <1> QED
    BY <1>1, <1>2, <1>4, <1>5, <1>7, EndsKept DEF SignOutInv

\* Keycloak's report of l: sent, taken or refused.
LEMMA NoticeKeeps ==
  ASSUME SignOutInv, NEW l \in Logins, KeycloakEnds(l) \/ BeginEnd(l)
  PROVE  SignOutInv'
  <1> DEFINE x == notice'[l]
  <1>1. /\ clock \in 0 .. MaxClock /\ clock \in Nat /\ notice[l].st \in {"none", "sent"}
        /\ UNCHANGED <<protocol, clock, tab, endedRow, signInRow, deliveries, key, held, latest, loaded, restarts, endedAt, covered>>
    BY SignOutTyped, SignOutNats DEF KeycloakEnds, BeginEnd
  <1>2. PICK st \in {"sent", "refused", "ending"} : notice' = [notice EXCEPT ![l] = [st |-> st, at |-> clock]]
    <2>1. CASE KeycloakEnds(l)
      BY <2>1 DEF KeycloakEnds
    <2>2. CASE BeginEnd(l)
      BY <2>2 DEF BeginEnd
    <2> QED
      BY <2>1, <2>2
  <1>3. /\ notice' \in [Logins -> [st : {"none", "sent", "refused", "ending", "answered"}, at : NoTime .. MaxClock]]
        /\ \A m \in Logins : m # l => notice'[m] = notice[m]
        /\ notice'[l].st # "answered" /\ notice'[l].at = clock
    BY <1>1, <1>2, SignOutTyped DEF NoTime
  <1>4. SignOutTypeOK'
    BY <1>1, <1>3 DEF SignOutInv, SignOutTypeOK
  <1>5. (CookiesExpire /\ RecordsHold)'
    BY <1>1 DEF SignOutInv, CookiesExpire, RecordsHold, SidsAgree
  <1>6. (EndIsOnce(l) /\ CopyIsCurrent(l))'
    <2>1. clock - clock <= TxTimeout
      BY <1>1, SignOutNats
    <2> QED
      BY <1>1, <1>3, <2>1 DEF SignOutInv, EndIsOnce, CopyIsCurrent, Outlived
  <1>7. \A m \in Logins : (EndIsOnce(m) /\ CopyIsCurrent(m))'
    BY <1>1, <1>3, <1>6, LoginKept
  <1> QED
    BY <1>1, <1>4, <1>5, <1>7 DEF SignOutInv

LEMMA CommitKeeps ==
  ASSUME SignOutInv, NEW l \in Logins, CommitEnd(l)
  PROVE  SignOutInv'
  <1> DEFINE at == notice[l].at
  <1>1. /\ notice[l].st = "ending" /\ endedRow' = [endedRow EXCEPT ![l] = at]
        /\ endedAt' = [endedAt EXCEPT ![l] = at] /\ signInRow' = [signInRow EXCEPT ![l] = NoSignInRow]
        /\ notice' = [notice EXCEPT ![l].st = "answered"]
        /\ UNCHANGED <<protocol, clock, tab, key, held, latest, loaded, restarts, covered>>
    BY DEF CommitEnd
  <1>2. /\ clock \in 0 .. MaxClock /\ clock \in Nat /\ at \in 0 .. clock /\ clock - at <= TxTimeout
        /\ endedAt[l] = NoTime /\ l \notin covered /\ held[l] = NoTime
    BY <1>1, SignOutTyped, SignOutNats DEF SignOutInv, EndIsOnce
  <1> HIDE DEF at
  <1>3. /\ at \in NoTime .. MaxClock /\ NoSignInRow \in [at : NoTime .. MaxClock, sid : 0 .. (MaxRotations + 1)]
        /\ NoSignInRow.at = NoTime
    BY <1>2, SignOutNats DEF NoTime, NoSignInRow
  <1>4. /\ endedRow' \in [Logins -> NoTime .. MaxClock] /\ endedAt' \in [Logins -> NoTime .. MaxClock]
        /\ endedRow'[l] = at /\ endedAt'[l] = at
        /\ \A m \in Logins : m # l => endedRow'[m] = endedRow[m] /\ endedAt'[m] = endedAt[m]
    BY <1>1, <1>3, SignOutTyped
  <1>5. /\ notice' \in [Logins -> [st : {"none", "sent", "refused", "ending", "answered"}, at : NoTime .. MaxClock]]
        /\ notice'[l].st = "answered" /\ notice'[l].at = at
        /\ \A m \in Logins : m # l => notice'[m] = notice[m]
    BY <1>1, SignOutTyped DEF at
  <1>6. /\ signInRow' \in [Logins -> [at : NoTime .. MaxClock, sid : 0 .. (MaxRotations + 1)]]
        /\ \A m \in Logins : signInRow'[m] = IF m = l THEN NoSignInRow ELSE signInRow[m]
    BY <1>1, <1>3, SignOutTyped
  <1>7. deliveries' \subseteq [login : Logins, sid : 1 .. (MaxRotations + 1)]
    <2>1. deliveries \subseteq [login : Logins, sid : 1 .. (MaxRotations + 1)]
      BY DEF SignOutInv, SignOutTypeOK
    <2>2. signInRow[l].at # NoTime => signInRow[l].sid \in 1 .. (MaxRotations + 1)
      BY SignOutTyped, SignOutNats DEF SignOutInv, RecordsHold
    <2> QED
      BY <2>1, <2>2 DEF CommitEnd
  <1>8. SignOutTypeOK'
    BY <1>1, <1>4, <1>5, <1>6, <1>7 DEF SignOutInv, SignOutTypeOK
  <1>9. CookiesExpire'
    BY <1>1 DEF SignOutInv, CookiesExpire
  <1>10. SidsAgree'
    <2>1. at # NoTime
      BY <1>2 DEF NoTime
    <2> QED
      BY <1>1, <1>4, <1>6, <2>1, TabTyped DEF SignOutInv, RecordsHold, SidsAgree
  <1>11. RecordsHold'
    BY <1>1, <1>2, <1>3, <1>6, <1>10 DEF SignOutInv, RecordsHold, NoTime
  <1>12. (EndIsOnce(l) /\ CopyIsCurrent(l))'
    <2>1. latest <= clock /\ latest \in Int
      BY SignOutTyped, SignOutNats DEF NoTime
    <2>2. at >= latest - EndedLookback
      BY <1>2, <2>1, SignOutNats
    <2> QED
      BY <1>1, <1>2, <1>4, <1>5, <2>2 DEF EndIsOnce, CopyIsCurrent, Outlived
  <1>13. \A m \in Logins : (EndIsOnce(m) /\ CopyIsCurrent(m))'
    BY <1>1, <1>4, <1>5, <1>12, LoginKept
  <1> QED
    BY <1>1, <1>8, <1>9, <1>11, <1>13, SignOutTyped DEF SignOutInv

LEMMA RefreshKeeps ==
  ASSUME SignOutInv, Refresh
  PROVE  SignOutInv'
  <1> DEFINE since == IF loaded THEN latest - EndedLookback ELSE NoTime
             rows == {l \in Logins : endedRow[l] # NoTime /\ endedRow[l] >= since}
             grown == [l \in Logins |-> IF l \in rows THEN endedRow[l] ELSE held[l]]
             after == {endedRow[l] : l \in rows} \union {latest}
  <1>1. /\ held' = [l \in Logins |-> IF grown[l] < clock - EndedRetention THEN NoTime ELSE grown[l]]
        /\ latest' = CHOOSE m \in after : \A x \in after : x <= m
        /\ loaded' = TRUE /\ covered' = covered \union {l \in Logins : endedRow[l] # NoTime}
        /\ UNCHANGED <<protocol, clock, tab, notice, endedRow, signInRow, deliveries, key, restarts, endedAt>>
    BY Zenon DEF Refresh
  <1>2. \A l \in Logins : endedRow[l] <= clock /\ endedRow[l] \in NoTime .. MaxClock
    <2> SUFFICES ASSUME NEW l \in Logins PROVE endedRow[l] <= clock /\ endedRow[l] \in NoTime .. MaxClock
      OBVIOUS
    <2>1. EndIsOnce(l)
      BY DEF SignOutInv
    <2> QED
      BY <2>1, SignOutTyped, SignOutNats DEF EndIsOnce, NoTime
  <1>3. latest' \in NoTime .. MaxClock /\ latest' <= clock
    <2>1. after \subseteq NoTime .. MaxClock /\ after # {} /\ \A x \in after : x <= clock
      BY <1>2, SignOutTyped
    <2>2. \E m \in after : \A x \in after : x <= m
      BY <2>1, HasLatest
    <2> HIDE DEF after
    <2>3. latest' \in after
      BY <1>1, <2>2
    <2> QED
      BY <2>1, <2>3
  <1>4. ASSUME NEW l \in Logins
        PROVE  /\ held'[l] \in NoTime .. MaxClock
               /\ (EndIsOnce(l))' /\ (CopyIsCurrent(l))'
    <2>1. EndIsOnce(l) /\ CopyIsCurrent(l)
      BY DEF SignOutInv
    <2>2. /\ grown[l] \in {NoTime, endedAt[l]}
          /\ held'[l] = IF grown[l] < clock - EndedRetention THEN NoTime ELSE grown[l]
      BY <1>1, <2>1 DEF EndIsOnce
    <2>3. /\ held[l] \in NoTime .. MaxClock /\ endedAt[l] \in NoTime .. MaxClock
          /\ endedRow[l] \in NoTime .. MaxClock /\ clock \in 0 .. MaxClock /\ latest \in NoTime .. MaxClock
          /\ NoTime \in NoTime .. MaxClock
      BY SignOutTyped, SignOutNats DEF NoTime
    <2>4. held'[l] \in {NoTime, endedAt[l]} /\ held'[l] \in NoTime .. MaxClock
      BY <2>2, <2>3
    <2>5. held[l] = endedAt[l] => grown[l] = endedAt[l]
      BY <2>1 DEF EndIsOnce
    <2>6. endedRow[l] # NoTime => grown[l] = endedAt[l] \/ Outlived(l)
      <3> SUFFICES ASSUME endedRow[l] # NoTime, ~ Outlived(l) PROVE grown[l] = endedAt[l]
        OBVIOUS
      <3>1. endedRow[l] = endedAt[l]
        BY <2>1 DEF EndIsOnce
      <3>2. CASE held[l] = endedAt[l]
        BY <2>5, <3>2
      <3>3. CASE held[l] # endedAt[l]
        <4>1. loaded => endedRow[l] >= latest - EndedLookback
          BY <2>1, <3>3 DEF CopyIsCurrent
        <4>2. endedRow[l] >= since
          BY <2>3, <4>1, SignOutNats DEF NoTime
        <4>3. l \in rows
          BY <4>2
        <4> QED
          BY <3>1, <4>3
      <3> QED
        BY <3>2, <3>3
    <2> HIDE DEF grown
    <2>7. l \in covered' => grown[l] = endedAt[l] \/ Outlived(l)
      BY <1>1, <2>1, <2>5, <2>6 DEF CopyIsCurrent
    <2>8. grown[l] = endedAt[l] => held'[l] = endedAt[l] \/ Outlived(l)
      BY <2>2, <2>3 DEF Outlived
    <2>9. l \in covered' => notice[l].st = "answered"
      BY <1>1, <2>1 DEF EndIsOnce
    <2>10. (Outlived(l))' <=> Outlived(l)
      BY <1>1 DEF Outlived
    <2>11. (EndIsOnce(l))'
      BY <1>1, <2>1, <2>4, <2>9 DEF EndIsOnce
    <2>12. (CopyIsCurrent(l))'
      BY <1>1, <2>6, <2>7, <2>8, <2>10 DEF CopyIsCurrent
    <2> QED
      BY <2>4, <2>11, <2>12
  <1>5. held' \in [Logins -> NoTime .. MaxClock]
    BY <1>1, <1>4
  <1>6. SignOutTypeOK'
    BY <1>1, <1>3, <1>5 DEF SignOutInv, SignOutTypeOK
  <1>7. (CookiesExpire /\ RecordsHold)'
    BY <1>1 DEF SignOutInv, CookiesExpire, RecordsHold, SidsAgree
  <1> QED
    BY <1>1, <1>3, <1>4, <1>6, <1>7, SignOutTyped DEF SignOutInv

LEMMA PurgeKeeps ==
  ASSUME SignOutInv, PurgeSignOuts
  PROVE  SignOutInv'
  <1>1. /\ endedRow' = [l \in Logins |-> IF endedRow[l] < clock - EndedRetention THEN NoTime ELSE endedRow[l]]
        /\ signInRow' = [l \in Logins |-> IF signInRow[l].at < clock - SignInRetention THEN NoSignInRow ELSE signInRow[l]]
        /\ UNCHANGED <<protocol, clock, tab, notice, deliveries, key, held, latest, loaded, restarts, endedAt, covered>>
    BY DEF PurgeSignOuts
  <1>2. /\ NoSignInRow \in [at : NoTime .. MaxClock, sid : 0 .. (MaxRotations + 1)] /\ NoSignInRow.at = NoTime
        /\ NoTime \in NoTime .. MaxClock /\ clock \in 0 .. MaxClock /\ clock \in Nat /\ NoTime <= clock
    BY SignOutTyped, SignOutNats DEF NoTime, NoSignInRow
  <1>3. /\ endedRow' \in [Logins -> NoTime .. MaxClock]
        /\ signInRow' \in [Logins -> [at : NoTime .. MaxClock, sid : 0 .. (MaxRotations + 1)]]
    BY <1>1, <1>2, SignOutTyped
  <1>4. \A l \in Logins : /\ endedRow'[l] \in {NoTime, endedRow[l]}
                          /\ signInRow'[l] = NoSignInRow \/ signInRow'[l] = signInRow[l]
    BY <1>1
  <1>5. SignOutTypeOK'
    BY <1>1, <1>3 DEF SignOutInv, SignOutTypeOK
  <1>6. CookiesExpire'
    BY <1>1 DEF SignOutInv, CookiesExpire
  <1>7. SidsAgree'
    <2> SUFFICES ASSUME clock <= SignInRetention, NEW t \in Tabs, protocol = "oidc",
                        tab[t].st \in {"code", "signedIn"}, endedAt[tab[t].login] = NoTime
                 PROVE  signInRow'[tab[t].login].at # NoTime /\ signInRow'[tab[t].login].sid = tab[t].sid
      BY <1>1 DEF SidsAgree
    <2> DEFINE l == tab[t].login
    <2>1. l \in Logins /\ signInRow[l].at # NoTime /\ signInRow[l].sid = tab[t].sid
      BY TabTyped DEF SignOutInv, RecordsHold, SidsAgree
    <2>2. signInRow[l].at >= 0 /\ signInRow[l].at \in Int
      BY <2>1, SignOutTyped, SignOutNats DEF SignOutInv, RecordsHold, NoTime
    <2>3. ~ (signInRow[l].at < clock - SignInRetention)
      BY <1>2, <2>2, SignOutNats
    <2> QED
      BY <1>1, <2>1, <2>3
  <1>8. RecordsHold'
    BY <1>1, <1>2, <1>4, <1>7 DEF SignOutInv, RecordsHold
  <1>9. \A l \in Logins : (EndIsOnce(l) /\ CopyIsCurrent(l))'
    BY <1>1, <1>4 DEF SignOutInv, EndIsOnce, CopyIsCurrent, Outlived
  <1> QED
    BY <1>1, <1>5, <1>6, <1>8, <1>9, SignOutTyped DEF SignOutInv

LEMMA RestartKeeps ==
  ASSUME SignOutInv, Restart
  PROVE  SignOutInv'
  <1>1. /\ restarts < MaxRestarts /\ restarts' = restarts + 1
        /\ held' = [l \in Logins |-> NoTime] /\ latest' = NoTime /\ loaded' = FALSE
        /\ deliveries' = {} /\ covered' = {}
        /\ UNCHANGED <<protocol, clock, tab, notice, endedRow, signInRow, key, endedAt>>
    BY DEF Restart
  <1>2. NoTime \in NoTime .. MaxClock /\ NoTime <= clock
    BY SignOutTyped, SignOutNats DEF NoTime
  <1>3. restarts' \in 0 .. MaxRestarts
    BY <1>1, SignOutNats DEF SignOutInv, SignOutTypeOK
  <1>4. SignOutTypeOK'
    BY <1>1, <1>2, <1>3 DEF SignOutInv, SignOutTypeOK
  <1>5. (CookiesExpire /\ RecordsHold)'
    BY <1>1 DEF SignOutInv, CookiesExpire, RecordsHold, SidsAgree
  <1>6. \A l \in Logins : (EndIsOnce(l) /\ CopyIsCurrent(l))'
    BY <1>1 DEF SignOutInv, EndIsOnce, CopyIsCurrent
  <1> QED
    BY <1>1, <1>2, <1>4, <1>5, <1>6, SignOutTyped DEF SignOutInv

LEMMA RotateKeeps ==
  ASSUME SignOutInv, RotateKeys
  PROVE  SignOutInv'
  <1>1. /\ key <= MaxRotations /\ key' = key + 1
        /\ UNCHANGED <<protocol, clock, tab, notice, endedRow, signInRow, deliveries, held, latest, loaded,
                       restarts, endedAt, covered>>
    BY DEF RotateKeys
  <1>2. key' \in 1 .. (MaxRotations + 1)
    BY <1>1, SignOutTyped, SignOutNats
  <1>3. SignOutTypeOK'
    BY <1>1, <1>2 DEF SignOutInv, SignOutTypeOK
  <1>4. (CookiesExpire /\ RecordsHold)'
    BY <1>1 DEF SignOutInv, CookiesExpire, RecordsHold, SidsAgree
  <1> QED
    BY <1>1, <1>3, <1>4, EndsKept, SignOutTyped DEF SignOutInv

LEMMA TickKeeps ==
  ASSUME SignOutInv, Tick
  PROVE  SignOutInv'
  <1>1. /\ clock < MaxClock /\ clock' = clock + 1
        /\ \A l \in Logins : notice[l].st = "ending" => clock - notice[l].at < TxTimeout
        /\ UNCHANGED <<protocol, tab, notice, endedRow, signInRow, deliveries, key, held, latest, loaded,
                       restarts, endedAt, covered>>
    BY DEF Tick
  <1>2. clock \in Nat /\ clock' \in 0 .. MaxClock /\ latest' <= clock'
    BY <1>1, SignOutTyped, SignOutNats DEF NoTime
  <1>3. SignOutTypeOK'
    BY <1>1, <1>2 DEF SignOutInv, SignOutTypeOK
  <1>4. CookiesExpire'
    <2> SUFFICES ASSUME NEW t \in Tabs, tab[t].st = "signedIn"
                 PROVE  tab[t].since \in 0 .. (clock + 1) /\ tab[t].till = tab[t].since + SessionTTL
      BY <1>1 DEF CookiesExpire
    <2>1. tab[t].since \in 0 .. clock /\ tab[t].till = tab[t].since + SessionTTL
      BY DEF SignOutInv, CookiesExpire
    <2> QED
      BY <1>2, <2>1
  <1>5. SidsAgree'
    BY <1>1, <1>2, SignOutNats DEF SignOutInv, RecordsHold, SidsAgree
  <1>6. RecordsHold'
    <2>1. \A l \in Logins : signInRow[l].at \in Int /\ signInRow[l].at <= clock
      BY SignOutTyped, SignOutNats DEF SignOutInv, RecordsHold, NoTime
    <2>2. \A l \in Logins : signInRow[l].at <= clock + 1
      BY <1>2, <2>1
    <2> QED
      BY <1>1, <1>5, <2>2 DEF SignOutInv, RecordsHold
  <1>7. ASSUME NEW l \in Logins PROVE (EndIsOnce(l) /\ CopyIsCurrent(l))'
    <2>1. EndIsOnce(l) /\ CopyIsCurrent(l)
      BY DEF SignOutInv
    <2>2. notice[l].at \in Int /\ endedAt[l] \in Int
      BY SignOutTyped, SignOutNats DEF NoTime
    <2>3. (EndIsOnce(l))'
      BY <1>1, <1>2, <2>1, <2>2, SignOutNats DEF EndIsOnce
    <2>4. Outlived(l) => (Outlived(l))'
      BY <1>1, <1>2, <2>2, SignOutNats DEF Outlived
    <2> QED
      BY <1>1, <2>1, <2>3, <2>4 DEF CopyIsCurrent
  <1> QED
    BY <1>1, <1>2, <1>3, <1>4, <1>6, <1>7, SignOutTyped DEF SignOutInv

LEMMA SignOutStarts == SignOutInit => SignOutInv
  <1> SUFFICES ASSUME SignOutInit PROVE SignOutInv
    OBVIOUS
  <1>1. NoTime \in NoTime .. MaxClock /\ 0 \in 0 .. MaxClock /\ NoTime <= 0
        /\ 1 \in 1 .. (MaxRotations + 1) /\ 0 \in 0 .. (MaxRotations + 1) /\ 0 \in 0 .. MaxRestarts
    BY SignOutNats DEF NoTime
  <1>2. NoSignIn \in TabRow /\ NoSignIn.st = "away"
    <2>1. (CHOOSE l \in Logins : TRUE) \in Logins
      BY SignOutAssumption
    <2>2. NoTime \in Int
      BY DEF NoTime
    <2> QED
      BY <1>1, <2>1, <2>2 DEF NoSignIn, TabRow
  <1>3. tab = [t \in Tabs |-> NoSignIn] /\ tab \in [Tabs -> TabRow]
    BY <1>2 DEF SignOutInit
  <1>4. NoSignInRow \in [at : NoTime .. MaxClock, sid : 0 .. (MaxRotations + 1)] /\ NoSignInRow.at = NoTime
    BY <1>1 DEF NoSignInRow
  <1>5. SignOutTypeOK
    <2>1. \A t \in Tabs : tab[t].st \in {"away", "consent", "code", "signedIn", "closed"} /\ tab[t].login \in Logins
      BY <1>3 DEF TabRow
    <2> QED
      BY <1>1, <1>4, <2>1 DEF SignOutInit, SignOutTypeOK
  <1>6. CookiesExpire /\ RecordsHold
    BY <1>1, <1>2, <1>3, <1>4 DEF SignOutInit, CookiesExpire, RecordsHold, SidsAgree
  <1>7. \A l \in Logins : EndIsOnce(l) /\ CopyIsCurrent(l)
    BY <1>1 DEF SignOutInit, EndIsOnce, CopyIsCurrent
  <1> QED
    BY <1>1, <1>3, <1>5, <1>6, <1>7 DEF SignOutInit, SignOutInv

LEMMA SignOutInvariance == SignOutSpec => []SignOutInv
  <1>1. SignOutInv /\ [SignOutNext]_signOutVars => SignOutInv'
    <2> SUFFICES ASSUME SignOutInv, [SignOutNext]_signOutVars PROVE SignOutInv'
      OBVIOUS
    <2>1. CASE UNCHANGED signOutVars
      <3>1. (CookiesExpire /\ RecordsHold)'
        BY <2>1 DEF signOutVars, SignOutInv, CookiesExpire, RecordsHold, SidsAgree
      <3> QED
        BY <2>1, <3>1, EndsKept DEF signOutVars, SignOutInv, SignOutTypeOK
    <2>2. CASE SignOutNext
      BY <2>2, TabStepKeeps, NoticeKeeps, CommitKeeps, DeliverKeeps, RotateKeeps, RefreshKeeps,
         PurgeKeeps, RestartKeeps, TickKeeps DEF SignOutNext
    <2> QED
      BY <2>1, <2>2
  <1> QED
    BY <1>1, SignOutStarts, PTL DEF SignOutSpec

\* However sign-ins, ends of logins, late commits, refreshes, purges, restarts
\* and key rotations fall together: once the verifier has read a recorded end,
\* no cookie issued up to it is served, and a logout token names the session
\* the app holds (endedCache.refresh, store.endSession, insertOIDCCode).
THEOREM SignOutStays == SignOutSpec => []SignOutsHold
  <1>1. SignOutInv => SignOutsHold
    <2> SUFFICES ASSUME SignOutInv PROVE SignOutsHold
      OBVIOUS
    <2>1. SignOutHolds
      <3> SUFFICES ASSUME NEW t \in Tabs, tab[t].login \in covered,
                          tab[t].since <= endedAt[tab[t].login], Serves(t)
                   PROVE  FALSE
        BY DEF SignOutHolds
      <3> DEFINE l == tab[t].login
      <3>1. l \in Logins /\ EndIsOnce(l) /\ CopyIsCurrent(l)
        BY TabTyped DEF SignOutInv
      <3>2. endedAt[l] \in 0 .. clock /\ held[l] = NoTime
        BY <3>1 DEF EndIsOnce, Serves
      <3>3. Outlived(l)
        BY <3>1, <3>2 DEF CopyIsCurrent, NoTime
      <3>4. tab[t].since \in 0 .. clock /\ clock < tab[t].since + SessionTTL
        BY DEF Serves, SignOutInv, CookiesExpire
      <3> QED
        BY <3>2, <3>3, <3>4, SignOutTyped, SignOutNats DEF Outlived
    <2> QED
      BY <2>1 DEF SignOutInv, RecordsHold, SignOutsHold
  <1> QED
    BY <1>1, SignOutInvariance, PTL
-----------------------------------------------------------------------------
(* The credentials of the command line, and the requests made with them *)

Steps == {"start", "forget", "refresh", "authorize", "exchange", "store", "save", "request", "end"}

Whys == {"none", "done", "not authenticated", "unreachable", "state mismatch", "refused",
         "timed out", "401", "403", "403 detail"}

Tokens == [env : Envs \union {"none"}, id : Nat]

\* A cache file in which every credential stands under its own environment.
Clean(f) == f \in [Envs -> Tokens] /\ \A e \in Envs : f[e].env \in {e, "none"}

Copies == {<<>>} \union [Envs -> Tokens]

Session == [step : Steps, access : Tokens, refresh : Tokens, copy : Copies,
            renewed : BOOLEAN, sends : Nat, attempt : 1 .. MaxSends, applied : Nat, logins : Nat, why : Whys]

\* The logins a command may have made: one if it is a login, one if it renewed.
OwnLogin(c) == IF KindOf[c] = "login" THEN 1 ELSE 0
Renewal(s) == IF s.renewed THEN 1 ELSE 0

\* The session of c between two of its steps.
Orderly(c, s) ==
  /\ s.access.env \in {EnvOf[c], "none"} /\ s.refresh.env \in {EnvOf[c], "none"}
  /\ s.step \in {"forget", "save"} => Clean(s.copy)
  /\ s.step # "end" => s.sends + 1 <= (IF s.renewed THEN MaxSends ELSE 0) + s.attempt
  /\ s.step = "end" => s.sends <= 2 * MaxSends
  /\ s.logins <= Renewal(s) + OwnLogin(c)
  /\ s.step = "start" => s.logins = 0 /\ ~ s.renewed
  /\ s.step = "refresh" => s.logins <= IF s.renewed THEN OwnLogin(c) ELSE 0
  /\ s.step \in {"authorize", "exchange"} => s.logins + 1 <= Renewal(s) + OwnLogin(c)
  /\ c \notin Safe /\ s.step # "end" => s.applied = 0 /\ s.why = "none"
  /\ c \notin Safe /\ s.step = "end" =>
       s.applied <= 1 /\ (s.why = "done" /\ KindOf[c] # "logout" => s.applied = 1)

\* Every session is orderly, the file is clean, and token ids are numbers.
ClientInv ==
  /\ cli \in [Commands -> Session] /\ \A c \in Commands : Orderly(c, cli[c])
  /\ Clean(cache) /\ IsFiniteSet(issued)

LEMMA ClientTyped ==
  ASSUME ClientInv, NEW c \in Commands
  PROVE  cli[c] \in Session /\ Orderly(c, cli[c]) /\ EnvOf[c] \in Envs
  BY DEF ClientInv, Envs

LEMMA NoTokenTyped == NoToken \in Tokens /\ NoToken.env = "none"
  BY DEF NoToken, Tokens

LEMMA NextTokenTyped ==
  ASSUME ClientInv, NEW c \in Commands
  PROVE  /\ NextToken(EnvOf[c]) \in Tokens /\ NextToken(EnvOf[c]).env = EnvOf[c]
         /\ IsFiniteSet(issued \union {NextToken(EnvOf[c])})
  <1>1. IsFiniteSet({t \in issued : t.env = EnvOf[c]})
    BY FS_Subset DEF ClientInv
  <1>2. Cardinality({t \in issued : t.env = EnvOf[c]}) + 1 \in Nat
    BY <1>1, FS_CardinalityType
  <1>3. IsFiniteSet(issued \union {NextToken(EnvOf[c])})
    BY FS_AddElement DEF ClientInv
  <1> QED
    BY <1>2, <1>3, ClientTyped DEF NextToken, Tokens

\* Before its last round a command has sent fewer than two rounds.
LEMMA SentTwice ==
  ASSUME NEW c \in Commands, NEW s \in Session, Orderly(c, s), s.step # "end"
  PROVE  s.sends <= 2 * MaxSends /\ s.sends + 1 <= 2 * MaxSends /\ s.sends \in Nat /\ s.sends + 1 <= MaxSends + s.attempt
  <1>1. s.sends \in Nat /\ s.attempt \in 1 .. MaxSends /\ MaxSends \in Nat
    BY AuthAssumption DEF Session
  <1>2. s.sends + 1 <= (IF s.renewed THEN MaxSends ELSE 0) + s.attempt
    BY DEF Orderly
  <1> QED
    BY <1>1, <1>2

\* A step of c that leaves it an orderly session, and the file clean.
LEMMA TurnKeeps ==
  ASSUME ClientInv, NEW c \in Commands, NEW x \in Session, Orderly(c, x), Turn(c, x),
         Clean(cache'), IsFiniteSet(issued')
  PROVE  ClientInv'
  <1>1. cli' \in [Commands -> Session] /\ \A d \in Commands : cli'[d] = IF d = c THEN x ELSE cli[d]
    BY DEF ClientInv, Turn
  <1>2. \A d \in Commands : Orderly(d, cli'[d])
    BY <1>1 DEF ClientInv
  <1>3. (Clean(cache))' <=> Clean(cache')
    BY DEF Clean
  <1>4. (\A d \in Commands : Orderly(d, cli[d]))'
    BY <1>2 DEF Orderly, Clean
  <1> QED
    BY <1>1, <1>3, <1>4 DEF ClientInv

LEMMA CacheKept ==
  ASSUME ClientInv, UNCHANGED cache
  PROVE  Clean(cache')
  BY DEF ClientInv

LEMMA StopKeeps ==
  ASSUME ClientInv, NEW c \in Commands, NEW why \in Whys, Stop(c, why), UNCHANGED <<cache, issued>>,
         cli[c].step # "end", why = "done" => KindOf[c] = "logout"
  PROVE  ClientInv'
  <1> DEFINE x == [cli[c] EXCEPT !.step = "end", !.why = why]
  <1>1. cli[c] \in Session /\ Orderly(c, cli[c])
    BY ClientTyped
  <1>2. x \in Session
    BY <1>1 DEF Session, Steps
  <1>3. /\ x.step = "end" /\ x.why = why
        /\ x.access = cli[c].access /\ x.refresh = cli[c].refresh /\ x.copy = cli[c].copy
        /\ x.renewed = cli[c].renewed /\ x.sends = cli[c].sends /\ x.attempt = cli[c].attempt
        /\ x.applied = cli[c].applied /\ x.logins = cli[c].logins
    BY <1>1 DEF Session
  <1>4. Turn(c, x)
    BY DEF Stop
  <1> HIDE DEF x
  <1>9. cli[c].sends <= 2 * MaxSends
    BY <1>1, SentTwice
  <1>5. Orderly(c, x)
    BY <1>1, <1>3, <1>9 DEF Orderly, Renewal
  <1> QED
    BY <1>2, <1>4, <1>5, CacheKept, TurnKeeps DEF ClientInv

LEMMA LoadKeeps ==
  ASSUME ClientInv, NEW c \in Commands, NEW next \in {"forget", "save"}, LoadCache(c, next),
         UNCHANGED issued, cli[c].step \in {"start", "store"}
  PROVE  ClientInv'
  <1> DEFINE x == [cli[c] EXCEPT !.step = next, !.copy = cache]
  <1>1. cli[c] \in Session /\ Orderly(c, cli[c]) /\ Clean(cache) /\ cache \in Copies
    BY ClientTyped DEF ClientInv, Clean, Copies
  <1>2. x \in Session
    BY <1>1 DEF Session, Steps
  <1>3. /\ x.step = next /\ x.copy = cache
        /\ x.access = cli[c].access /\ x.refresh = cli[c].refresh /\ x.renewed = cli[c].renewed
        /\ x.sends = cli[c].sends /\ x.attempt = cli[c].attempt /\ x.applied = cli[c].applied
        /\ x.logins = cli[c].logins /\ x.why = cli[c].why
    BY <1>1 DEF Session
  <1>5. Turn(c, x) /\ UNCHANGED cache
    BY DEF LoadCache
  <1> HIDE DEF x
  <1>4. Orderly(c, x)
    BY <1>1, <1>3 DEF Orderly, Renewal
  <1> QED
    BY <1>2, <1>4, <1>5, CacheKept, TurnKeeps DEF ClientInv

LEMMA SaveKeeps ==
  ASSUME ClientInv, NEW c \in Commands, NEW next \in {"end", "request"}, NEW token \in Tokens,
         token.env \in {EnvOf[c], "none"}, SaveCache(c, token, next),
         UNCHANGED issued, cli[c].step \in {"forget", "save"}, next = "end" => KindOf[c] = "logout"
  PROVE  ClientInv'
  <1> DEFINE x == [cli[c] EXCEPT !.step = next, !.copy = <<>>]
  <1>1. /\ cli[c] \in Session /\ Orderly(c, cli[c]) /\ Clean(cli[c].copy)
        /\ EnvOf[c] \in Envs /\ <<>> \in Copies
    BY ClientTyped DEF Orderly, Copies
  <1>2. x \in Session
    BY <1>1 DEF Session, Steps
  <1>6. /\ x.step = next /\ x.copy = <<>>
        /\ x.access = cli[c].access /\ x.refresh = cli[c].refresh /\ x.renewed = cli[c].renewed
        /\ x.sends = cli[c].sends /\ x.attempt = cli[c].attempt /\ x.applied = cli[c].applied
        /\ x.logins = cli[c].logins /\ x.why = cli[c].why
    BY <1>1 DEF Session
  <1>4. Turn(c, x) /\ cache' = [cli[c].copy EXCEPT ![EnvOf[c]] = token]
    BY DEF SaveCache
  <1>5. Clean(cache')
    BY <1>1, <1>4 DEF Clean
  <1> HIDE DEF x
  <1>9. cli[c].sends <= 2 * MaxSends
    BY <1>1, SentTwice
  <1>3. Orderly(c, x)
    BY <1>1, <1>6, <1>9 DEF Orderly, Renewal
  <1> QED
    BY <1>2, <1>3, <1>4, <1>5, TurnKeeps DEF ClientInv

LEMMA AppliesKeeps ==
  ASSUME ClientInv, NEW c \in Commands, NEW token \in Tokens, token.env \in {EnvOf[c], "none"},
         cli[c].step \in {"refresh", "exchange"}, Applies(c, NextToken(EnvOf[c]), token)
  PROVE  ClientInv'
  <1> DEFINE new == NextToken(EnvOf[c])
             n == cli[c].logins + (IF In(c, "exchange") THEN 1 ELSE 0)
             x == [cli[c] EXCEPT !.step = "store", !.access = new, !.refresh = token, !.logins = n]
  <1>1. cli[c] \in Session /\ Orderly(c, cli[c])
    BY ClientTyped
  <1>2. new \in Tokens /\ new.env = EnvOf[c]
    BY NextTokenTyped
  <1>3. Turn(c, x) /\ issued' = issued \union {new} /\ UNCHANGED cache
    BY Zenon, <1>1 DEF Applies, Session
  <1>4. /\ n \in Nat
        /\ cli[c].step = "refresh" => n = cli[c].logins
        /\ cli[c].step = "exchange" => n = cli[c].logins + 1
    BY <1>1 DEF Session, In
  <1> HIDE DEF new, n
  <1>5. x \in Session
    <2>1. [cli[c] EXCEPT !.step = "store", !.access = new] \in Session
      BY <1>1, <1>2 DEF Session, Steps
    <2>2. [[cli[c] EXCEPT !.step = "store", !.access = new] EXCEPT !.refresh = token, !.logins = n] \in Session
      BY <2>1, <1>4 DEF Session
    <2> QED
      BY <2>2
  <1>6. /\ x.step = "store" /\ x.access = new /\ x.refresh = token /\ x.logins = n
        /\ x.sends = cli[c].sends /\ x.attempt = cli[c].attempt /\ x.renewed = cli[c].renewed
        /\ x.applied = cli[c].applied /\ x.why = cli[c].why
    BY <1>1 DEF Session
  <1> HIDE DEF x
  <1>7. Orderly(c, x)
    <2>1. n <= Renewal(cli[c]) + OwnLogin(c)
      <3>1. cli[c].logins \in Nat /\ cli[c].renewed \in BOOLEAN
        BY <1>1 DEF Session
      <3> QED
        BY <1>1, <1>4, <3>1 DEF Orderly, Renewal, OwnLogin
    <2> QED
      BY <1>1, <1>2, <1>6, <2>1 DEF Orderly, Renewal, OwnLogin
  <1>8. IsFiniteSet(issued')
    BY <1>3, NextTokenTyped DEF new
  <1> QED
    BY <1>3, <1>5, <1>7, <1>8, CacheKept, TurnKeeps

LEMMA LogoutKeeps ==
  ASSUME ClientInv, NEW c \in Commands, Logout(c)
  PROVE  ClientInv'
  <1>1. KindOf[c] = "logout" /\ UNCHANGED issued
    BY DEF Logout, KeepsTokens
  <1>2. CASE In(c, "start") /\ LoadCache(c, "forget")
    BY <1>1, <1>2, LoadKeeps DEF In
  <1>3. CASE In(c, "forget") /\ Stop(c, "done") /\ UNCHANGED cache
    BY <1>1, <1>3, StopKeeps DEF In, Whys
  <1>4. CASE In(c, "forget") /\ SaveCache(c, NoToken, "end")
    BY <1>1, <1>4, SaveKeeps, NoTokenTyped DEF In
  <1> QED
    BY <1>2, <1>3, <1>4 DEF Logout

LEMMA StoreKeeps ==
  ASSUME ClientInv, NEW c \in Commands, StoreRefreshToken(c)
  PROVE  ClientInv'
  <1>1. UNCHANGED issued
    BY DEF StoreRefreshToken, KeepsTokens
  <1>2. CASE In(c, "store") /\ LoadCache(c, "save")
    BY <1>1, <1>2, LoadKeeps DEF In
  <1>3. CASE In(c, "save") /\ SaveCache(c, cli[c].refresh, "request")
    <2>1. cli[c].refresh \in Tokens /\ cli[c].refresh.env \in {EnvOf[c], "none"}
      BY ClientTyped DEF Session, Orderly
    <2> QED
      BY <1>1, <1>3, <2>1, SaveKeeps DEF In
  <1> QED
    BY <1>2, <1>3 DEF StoreRefreshToken

\* On to the sign-in page, if the command may log in once more.
LEMMA SignInPageKeeps ==
  ASSUME ClientInv, NEW c \in Commands, UNCHANGED <<cache, issued>>,
         NEW next \in {"authorize", "exchange"}, Turn(c, [cli[c] EXCEPT !.step = next]),
         \/ cli[c].step = "authorize"
         \/ cli[c].step = "start" /\ KindOf[c] = "login"
         \/ cli[c].step = "refresh" /\ (cli[c].renewed \/ KindOf[c] = "login")
  PROVE  ClientInv'
  <1> DEFINE x == [cli[c] EXCEPT !.step = next]
  <1>1. cli[c] \in Session /\ Orderly(c, cli[c])
    BY ClientTyped
  <1>2. x \in Session
    BY <1>1 DEF Session, Steps
  <1>3. /\ x.step = next
        /\ x.access = cli[c].access /\ x.refresh = cli[c].refresh /\ x.copy = cli[c].copy
        /\ x.renewed = cli[c].renewed /\ x.sends = cli[c].sends /\ x.attempt = cli[c].attempt
        /\ x.applied = cli[c].applied /\ x.logins = cli[c].logins /\ x.why = cli[c].why
    BY <1>1 DEF Session
  <1>4. Turn(c, x)
    OBVIOUS
  <1> HIDE DEF x
  <1>5. cli[c].logins + 1 <= Renewal(cli[c]) + OwnLogin(c)
    <2>1. cli[c].logins \in Nat /\ cli[c].renewed \in BOOLEAN
      BY <1>1 DEF Session
    <2> QED
      BY <1>1, <2>1 DEF Orderly, Renewal, OwnLogin
  <1>6. cli[c].logins <= Renewal(cli[c]) + OwnLogin(c)
    BY <1>1 DEF Orderly
  <1>7. Orderly(c, x)
    BY <1>1, <1>3, <1>5, <1>6 DEF Orderly, Renewal
  <1> QED
    BY <1>2, <1>4, <1>7, CacheKept, TurnKeeps DEF ClientInv

LEMMA AuthenticateKeeps ==
  ASSUME ClientInv, NEW c \in Commands, Authenticate(c)
  PROVE  ClientInv'
  <1>1. In(c, "start") /\ UNCHANGED <<cache, issued>>
    BY DEF Authenticate, KeepsTokens
  <1>2. CASE Turn(c, [cli[c] EXCEPT !.step = "refresh", !.refresh = cache[EnvOf[c]]])
    <2> DEFINE x == [cli[c] EXCEPT !.step = "refresh", !.refresh = cache[EnvOf[c]]]
    <2>1. cli[c] \in Session /\ Orderly(c, cli[c])
      BY ClientTyped
    <2>2. cache[EnvOf[c]] \in Tokens /\ cache[EnvOf[c]].env \in {EnvOf[c], "none"}
      BY ClientTyped DEF ClientInv, Clean
    <2>3. x \in Session
      BY <2>1, <2>2 DEF Session, Steps
    <2>4. /\ x.step = "refresh" /\ x.refresh = cache[EnvOf[c]]
          /\ x.access = cli[c].access /\ x.renewed = cli[c].renewed /\ x.sends = cli[c].sends
          /\ x.attempt = cli[c].attempt /\ x.applied = cli[c].applied
          /\ x.logins = cli[c].logins /\ x.why = cli[c].why
      BY <2>1 DEF Session
    <2>5. Turn(c, x)
      BY <1>2
    <2> HIDE DEF x
    <2>6. Orderly(c, x)
      BY <1>1, <2>1, <2>2, <2>4 DEF Orderly, Renewal, In
    <2> QED
      BY <1>1, <2>3, <2>5, <2>6, CacheKept, TurnKeeps DEF ClientInv
  <1>3. CASE Stop(c, "not authenticated")
    BY <1>1, <1>3, StopKeeps DEF In, Whys
  <1>4. CASE KindOf[c] = "login" /\ Turn(c, [cli[c] EXCEPT !.step = "authorize"])
    BY <1>1, <1>4, SignInPageKeeps DEF In
  <1> QED
    BY <1>2, <1>3, <1>4 DEF Authenticate

LEMMA RefreshTokensKeeps ==
  ASSUME ClientInv, NEW c \in Commands, RefreshTokens(c)
  PROVE  ClientInv'
  <1>1. cli[c].step = "refresh"
    BY DEF RefreshTokens, In
  <1>2. CASE Applies(c, NextToken(EnvOf[c]), cli[c].refresh)
    <2>1. cli[c].refresh \in Tokens /\ cli[c].refresh.env \in {EnvOf[c], "none"}
      BY ClientTyped DEF Session, Orderly
    <2> QED
      BY <1>1, <1>2, <2>1, AppliesKeeps
  <1>3. CASE /\ cli[c].renewed \/ KindOf[c] = "login"
             /\ Turn(c, [cli[c] EXCEPT !.step = "authorize"]) /\ UNCHANGED <<cache, issued>>
    BY <1>1, <1>3, SignInPageKeeps
  <1>4. CASE Stop(c, "not authenticated") /\ UNCHANGED <<cache, issued>>
    BY <1>1, <1>4, StopKeeps DEF Whys
  <1>5. CASE Stop(c, "unreachable") /\ UNCHANGED <<cache, issued>>
    BY <1>1, <1>5, StopKeeps DEF Whys
  <1> QED
    BY Zenon, <1>2, <1>3, <1>4, <1>5 DEF RefreshTokens, KeepsTokens

LEMMA FlowKeeps ==
  ASSUME ClientInv, NEW c \in Commands, Approved(c) \/ FlowEnds(c) \/ ExchangeCode(c)
  PROVE  ClientInv'
  <1>1. CASE Approved(c)
    BY <1>1, SignInPageKeeps DEF Approved, In, KeepsTokens
  <1>2. CASE FlowEnds(c)
    <2>1. PICK why \in {"state mismatch", "refused", "timed out"} : Stop(c, why)
      BY <1>2 DEF FlowEnds
    <2> QED
      BY <1>2, <2>1, StopKeeps DEF FlowEnds, In, KeepsTokens, Whys
  <1>3. CASE ExchangeCode(c)
    <2>1. cli[c].step = "exchange"
      BY <1>3 DEF ExchangeCode, In
    <2>2. CASE Applies(c, NextToken(EnvOf[c]), NextToken(EnvOf[c]))
      BY <2>1, <2>2, NextTokenTyped, AppliesKeeps
    <2>3. CASE Stop(c, "unreachable") /\ UNCHANGED <<cache, issued>>
      BY <2>1, <2>3, StopKeeps DEF Whys
    <2> QED
      BY Zenon, <1>3, <2>2, <2>3 DEF ExchangeCode, KeepsTokens
  <1> QED
    BY <1>1, <1>2, <1>3

\* A request that is sent, and what its session says of it afterwards.
LEMMA SentKeeps ==
  ASSUME ClientInv, NEW c \in Commands, NEW s \in Session, Sent(c, s), KeepsAll, In(c, "request"),
         s.access = cli[c].access, s.refresh = cli[c].refresh, s.sends = cli[c].sends,
         s.logins = cli[c].logins,
         \/ s.step = "end" /\ s.renewed = cli[c].renewed
         \/ s.step = "refresh" /\ s.renewed /\ ~ cli[c].renewed /\ s.attempt = 1
         \/ s.step = "request" /\ s.renewed = cli[c].renewed /\ s.attempt = cli[c].attempt + 1,
         s.step # "end" => c \in Safe \/ (s.applied = cli[c].applied /\ s.why = cli[c].why),
         s.step = "end" => s.applied <= cli[c].applied + 1,
         s.step = "end" /\ s.why = "done" => s.applied = cli[c].applied + 1
  PROVE  ClientInv'
  <1> DEFINE x == [s EXCEPT !.sends = @ + 1]
  <1>1. cli[c] \in Session /\ Orderly(c, cli[c]) /\ cli[c].step = "request"
    BY ClientTyped DEF In
  <1>2. x \in Session
    BY DEF Session
  <1>3. /\ x.step = s.step /\ x.sends = s.sends + 1
        /\ x.access = s.access /\ x.refresh = s.refresh /\ x.renewed = s.renewed
        /\ x.attempt = s.attempt /\ x.applied = s.applied /\ x.logins = s.logins /\ x.why = s.why
    BY DEF Session
  <1>4. Turn(c, x) /\ UNCHANGED <<cache, issued>>
    BY DEF Sent, KeepsAll, KeepsTokens
  <1> HIDE DEF x
  <1>5. /\ cli[c].sends \in Nat /\ cli[c].attempt \in 1 .. MaxSends /\ MaxSends \in Nat
        /\ cli[c].logins \in Nat /\ cli[c].renewed \in BOOLEAN /\ cli[c].applied \in Nat
        /\ s.renewed \in BOOLEAN /\ s.applied \in Nat
    BY <1>1, AuthAssumption DEF Session
  <1>6. /\ x.step = "end" => x.sends <= 2 * MaxSends
        /\ x.step # "end" => x.sends + 1 <= (IF x.renewed THEN MaxSends ELSE 0) + x.attempt
    <2>1. cli[c].sends + 1 <= (IF cli[c].renewed THEN MaxSends ELSE 0) + cli[c].attempt
      BY <1>1 DEF Orderly
    <2> QED
      BY <1>3, <1>5, <2>1
  <1>7. /\ x.logins <= Renewal(x) + OwnLogin(c)
        /\ x.step = "refresh" => x.logins <= IF x.renewed THEN OwnLogin(c) ELSE 0
    <2>1. cli[c].logins <= Renewal(cli[c]) + OwnLogin(c)
      BY <1>1 DEF Orderly
    <2> QED
      BY <1>3, <1>5, <2>1 DEF Renewal, OwnLogin
  <1>8. c \notin Safe => cli[c].applied = 0 /\ cli[c].why = "none"
    BY <1>1 DEF Orderly
  <1>9. Orderly(c, x)
    BY <1>1, <1>3, <1>5, <1>6, <1>7, <1>8 DEF Orderly
  <1> QED
    BY <1>2, <1>4, <1>9, CacheKept, TurnKeeps DEF ClientInv

LEMMA RequestKeeps ==
  ASSUME ClientInv, NEW c \in Commands,
         NotAMember(c) \/ RefusedByEdge(c) \/ RefusedByApi(c) \/ Answered(c) \/ SendFails(c)
  PROVE  ClientInv'
  <1>1. /\ cli[c] \in Session /\ cli[c].applied \in Nat
        /\ cli[c].attempt \in 1 .. MaxSends /\ 1 \in 1 .. MaxSends /\ MaxSends \in Nat
    BY ClientTyped, AuthAssumption DEF Session
  <1>2. ASSUME NEW why \in Whys \ {"done"}, In(c, "request"), KeepsAll,
               Sent(c, [cli[c] EXCEPT !.step = "end", !.why = why])
        PROVE  ClientInv'
    <2> DEFINE s == [cli[c] EXCEPT !.step = "end", !.why = why]
    <2>1. s \in Session
      BY <1>1 DEF Session, Steps
    <2>2. /\ s.step = "end" /\ s.why = why
          /\ s.access = cli[c].access /\ s.refresh = cli[c].refresh /\ s.sends = cli[c].sends
          /\ s.logins = cli[c].logins /\ s.renewed = cli[c].renewed /\ s.applied = cli[c].applied
      BY <1>1 DEF Session
    <2> HIDE DEF s
    <2>3. Sent(c, s)
      BY <1>2 DEF s
    <2> QED
      BY <1>1, <1>2, <2>1, <2>2, <2>3, SentKeeps
  <1>3. CASE RefusedByEdge(c) /\ ~ cli[c].renewed
    <2> DEFINE s == [cli[c] EXCEPT !.step = "refresh", !.renewed = TRUE, !.attempt = 1]
    <2>1. s \in Session
      BY <1>1 DEF Session, Steps
    <2>2. /\ s.step = "refresh" /\ s.why = cli[c].why /\ s.renewed /\ s.attempt = 1
          /\ s.access = cli[c].access /\ s.refresh = cli[c].refresh /\ s.sends = cli[c].sends
          /\ s.logins = cli[c].logins /\ s.applied = cli[c].applied
      BY <1>1 DEF Session
    <2>3. Sent(c, s) /\ In(c, "request") /\ KeepsAll
      BY Zenon, <1>3 DEF RefusedByEdge
    <2> HIDE DEF s
    <2> QED
      BY <1>3, <2>1, <2>2, <2>3, SentKeeps
  <1>4. ASSUME NEW n \in {0, 1}, NEW why \in Whys, why = "done" => n = 1, In(c, "request"), KeepsAll,
               Sent(c, [cli[c] EXCEPT !.step = "end", !.why = why, !.applied = cli[c].applied + n])
        PROVE  ClientInv'
    <2> DEFINE s == [cli[c] EXCEPT !.step = "end", !.why = why, !.applied = cli[c].applied + n]
    <2>0. cli[c].applied + n \in Nat
      BY <1>1
    <2>1. s \in Session
      BY <1>1, <2>0 DEF Session, Steps
    <2>2. /\ s.step = "end" /\ s.why = why /\ s.applied = cli[c].applied + n
          /\ s.access = cli[c].access /\ s.refresh = cli[c].refresh /\ s.sends = cli[c].sends
          /\ s.logins = cli[c].logins /\ s.renewed = cli[c].renewed
      BY <1>1 DEF Session
    <2>3. Sent(c, s)
      BY <1>4
    <2> HIDE DEF s
    <2> QED
      BY <1>1, <1>4, <2>1, <2>2, <2>3, SentKeeps
  <1>5. ASSUME NEW n \in {0, 1}, MayRepeat(c), In(c, "request"), KeepsAll,
               Sent(c, [cli[c] EXCEPT !.attempt = cli[c].attempt + 1, !.applied = cli[c].applied + n])
        PROVE  ClientInv'
    <2> DEFINE s == [cli[c] EXCEPT !.attempt = cli[c].attempt + 1, !.applied = cli[c].applied + n]
    <2>0. cli[c].applied + n \in Nat /\ cli[c].attempt + 1 \in 1 .. MaxSends
      BY <1>1, <1>5 DEF MayRepeat
    <2>1. s \in Session
      BY <1>1, <2>0 DEF Session
    <2>2. /\ s.step = "request" /\ s.attempt = cli[c].attempt + 1
          /\ s.access = cli[c].access /\ s.refresh = cli[c].refresh /\ s.sends = cli[c].sends
          /\ s.logins = cli[c].logins /\ s.renewed = cli[c].renewed
      BY <1>1, <1>5 DEF Session, In
    <2>3. Sent(c, s) /\ c \in Safe
      BY <1>5 DEF MayRepeat
    <2> HIDE DEF s
    <2> QED
      BY <1>5, <2>1, <2>2, <2>3, SentKeeps
  <1>6. CASE NotAMember(c)
    BY <1>2, <1>6 DEF NotAMember, Whys
  <1>7. CASE RefusedByEdge(c) /\ cli[c].renewed
    BY <1>2, <1>7 DEF RefusedByEdge, Whys
  <1>8. CASE RefusedByApi(c)
    BY <1>2, <1>8 DEF RefusedByApi, Whys
  <1>9. CASE Answered(c)
    BY <1>4, <1>9 DEF Answered, Whys
  <1>10. CASE SendFails(c)
    <2>1. PICK n \in {0, 1} :
            IF MayRepeat(c)
            THEN Sent(c, [cli[c] EXCEPT !.attempt = cli[c].attempt + 1, !.applied = cli[c].applied + n])
            ELSE Sent(c, [cli[c] EXCEPT !.step = "end", !.why = "unreachable", !.applied = cli[c].applied + n])
      BY <1>10 DEF SendFails
    <2>2. In(c, "request") /\ KeepsAll
      BY <1>10 DEF SendFails
    <2>3. "unreachable" \in Whys
      BY DEF Whys
    <2> QED
      BY <1>4, <1>5, <2>1, <2>2, <2>3
  <1> QED
    BY <1>3, <1>6, <1>7, <1>8, <1>9, <1>10

LEMMA ClientStarts == AuthInit => ClientInv
  <1> SUFFICES ASSUME AuthInit PROVE ClientInv
    OBVIOUS
  <1>1. \A c \in Commands : cli[c] = NewSession /\ EnvOf[c] \in Envs
    BY DEF AuthInit, Envs
  <1>2. NewSession \in Session
    BY NoTokenTyped, AuthAssumption DEF NewSession, Session, Steps, Whys, Copies
  <1>3. \A c \in Commands : Orderly(c, NewSession)
    BY NoTokenTyped, AuthAssumption DEF NewSession, Orderly, Renewal, OwnLogin
  <1>4. IsFiniteSet(Envs) /\ IsFiniteSet(issued)
    <2> DEFINE tokens == {[env |-> e, id |-> 1] : e \in Envs}
    <2>1. IsFiniteSet(Envs)
      <3> DEFINE f == [c \in Commands |-> EnvOf[c]]
      <3>1. f \in Surjection(Commands, Envs)
        BY DEF Envs, Surjection
      <3> QED
        BY <3>1, AuthAssumption, FS_Surjection
    <2>2. IsFiniteSet(tokens)
      <3> DEFINE f == [e \in Envs |-> [env |-> e, id |-> 1]]
      <3>1. f \in Surjection(Envs, tokens)
        BY DEF Surjection
      <3> QED
        BY <2>1, <3>1, FS_Surjection
    <2> QED
      BY <2>1, <2>2 DEF AuthInit
  <1>5. issued \subseteq Tokens
    BY DEF AuthInit, Tokens
  <1>6. Clean(cache)
    BY <1>5, NoTokenTyped DEF AuthInit, Clean
  <1>7. cli \in [Commands -> Session]
    BY <1>1, <1>2 DEF AuthInit
  <1> QED
    BY <1>1, <1>3, <1>4, <1>6, <1>7 DEF ClientInv

LEMMA ClientInvariance == AuthSpec => []ClientInv
  <1>1. ClientInv /\ [AuthNext]_authVars => ClientInv'
    <2> SUFFICES ASSUME ClientInv, [AuthNext]_authVars PROVE ClientInv'
      OBVIOUS
    <2>1. CASE UNCHANGED <<cli, cache, issued>>
      BY <2>1 DEF ClientInv, Orderly, Clean
    <2>2. CASE TokenExpires \/ SessionRevoked
      BY <2>1, <2>2 DEF TokenExpires, SessionRevoked
    <2>3. ASSUME NEW c \in Commands, CommandStep(c) PROVE ClientInv'
      BY <2>3, LogoutKeeps, StoreKeeps, AuthenticateKeeps, RefreshTokensKeeps, FlowKeeps, RequestKeeps
         DEF CommandStep
    <2>4. CASE UNCHANGED authVars
      BY <2>1, <2>4 DEF authVars
    <2> QED
      BY <2>2, <2>3, <2>4 DEF AuthNext
  <1> QED
    BY <1>1, ClientStarts, PTL DEF AuthSpec

\* However many commands share a machine's cache, whatever is lost, revoked or
\* expires: a credential stays in its environment, a request that changes
\* something is carried out at most once, and no refusal makes a command loop
\* (auth.store_refresh_token, api.request).
THEOREM ClientStaysSound == AuthSpec => []ClientHolds
  <1>1. ClientInv => ClientHolds
    <2> SUFFICES ASSUME ClientInv PROVE ClientHolds
      OBVIOUS
    <2>1. EnvironmentsApart
      BY DEF EnvironmentsApart, ClientInv, Clean, Orderly
    <2>2. CarriedOutOnce
      <3> SUFFICES ASSUME NEW c \in Commands \ Safe
                   PROVE  cli[c].applied <= 1 /\ (cli[c].why = "done" /\ KindOf[c] # "logout" => cli[c].applied = 1)
        BY DEF CarriedOutOnce
      <3>1. Orderly(c, cli[c])
        BY DEF ClientInv
      <3> QED
        BY <3>1 DEF Orderly
    <2>3. RenewedOnce
      <3> SUFFICES ASSUME NEW c \in Commands
                   PROVE  /\ cli[c].sends <= 2 * MaxSends
                          /\ cli[c].logins <= (IF cli[c].renewed THEN 1 ELSE 0) + (IF KindOf[c] = "login" THEN 1 ELSE 0)
        BY DEF RenewedOnce
      <3>1. cli[c] \in Session /\ Orderly(c, cli[c])
        BY ClientTyped
      <3>2. cli[c].sends <= 2 * MaxSends
        BY <3>1, SentTwice DEF Orderly
      <3> QED
        BY <3>1, <3>2 DEF Orderly, Renewal, OwnLogin
    <2> QED
      BY <2>1, <2>2, <2>3 DEF ClientHolds
  <1> QED
    BY <1>1, ClientInvariance, PTL
=============================================================================
