-------------------------- MODULE Housekeeping_proofs ----------------------
(***************************************************************************)
(* Proofs about what is stored: secrets under the rotation of the encryption *)
(* key, for any keys, processes and rows, a tenant's database under the      *)
(* reconciler and the housekeeping worker, the sizes that the bucket         *)
(* exporter publishes, and the catalog's rows under rollouts and             *)
(* administrators.                                                           *)
(*                                                                         *)
(* That a serving process reads everything is not inductive alone: what is *)
(* stored next is under the first key of some other process, so the lists  *)
(* of all processes must cover each other's first keys, and that holds     *)
(* only because a list is edited when every process has the present one.   *)
(***************************************************************************)
EXTENDS KeyRotation, TenantDatabase, BucketExporter, Catalog, SequenceTheorems, FiniteSetTheorems,
        WellFoundedInduction, TLAPS

\* The lists of one or two keys.
KeyLists == {keys \in Seq(Secrets) : Len(keys) \in 1..2}

Row == [column : {"var", "database"}, id : Nat, key : Secrets]

Live(p) == server[p].st # "down"

RotationTyped ==
  /\ config \in KeyLists
  /\ server \in [Servers -> [st : {"down", "verifies", "serves"}, keys : Seq(Secrets)]]
  /\ \A p \in Servers : Live(p) => server[p].keys \in KeyLists
  /\ stored \in SUBSET Row
  /\ nextId \in Nat
  /\ \A r \in stored : r.id < nextId
  /\ writing \in [Servers -> [column : {"none", "var", "database"}, key : Secrets \union {NoSecret}]]
  /\ sweep \in [Servers -> [column : 0..2, batch : SUBSET Row, rolled : BOOLEAN]]

\* Every process holds the key that any other, or the next to start, writes with.
HeadsAreHeld ==
  \A p \in Servers : Live(p) =>
    /\ Head(server[p].keys) \in HeldBy(config)
    /\ Head(config) \in HeldBy(server[p].keys)
    /\ \A q \in Servers : Live(q) => Head(server[q].keys) \in HeldBy(server[p].keys)

\* An open transaction writes with the first key of its process.
WritesAreCurrent ==
  \A p \in Servers : writing[p] # NoWriting =>
    /\ Live(p)
    /\ writing[p].column \in {"var", "database"}
    /\ writing[p].key = Head(server[p].keys)

\* A sweep runs beside a process that is up.
SweepersLive ==
  \A p \in Servers :
    /\ sweep[p].column # 0 => Live(p)
    /\ sweep[p].batch # {} => sweep[p].column # 0

\* Nobody writes with another key than k.
AllWriteWith(k) ==
  /\ Head(config) = k
  /\ \A q \in Servers : Live(q) => Head(server[q].keys) = k

VarsSwept(k) == \A r \in stored : r.column = "var" => r.key = k

\* A sweep that began with every process rolled out: the list has been turned
\* round since, or what the sweep has behind it stays swept.
SweepsAreFirm ==
  \A p \in Servers : sweep[p].column # 0 /\ sweep[p].rolled =>
    LET k == Head(server[p].keys) IN
      \/ AllWriteWith(k) /\ (sweep[p].column = 2 => VarsSwept(k))
      \/ Len(config) = 2 /\ config # server[p].keys /\ Head(config) # k

\* The inductive invariant.
RotationInv ==
  /\ RotationTyped
  /\ HeadsAreHeld
  /\ WritesAreCurrent
  /\ SweepersLive
  /\ AllReadable
  /\ SweepsAreFirm

-----------------------------------------------------------------------------
(* Lists of keys.                                                          *)

\* A list holds its first key.
LEMMA HeadHeld ==
  ASSUME NEW keys \in KeyLists
  PROVE  Head(keys) \in HeldBy(keys) /\ Head(keys) \in Secrets
  <1>1. keys \in Seq(Secrets) /\ keys # <<>> /\ Len(keys) \in Nat /\ 1 \in 1..Len(keys) /\ DOMAIN keys = 1..Len(keys)
    BY DEF KeyLists
  <1>2. Head(keys) = keys[1] /\ keys[1] \in Secrets
    BY <1>1
  <1> QED
    BY <1>1, <1>2 DEF HeldBy

\* Distributing a key keeps what the list holds, and its first key.
LEMMA Appended ==
  ASSUME NEW keys \in KeyLists, Len(keys) = 1, NEW k \in Secrets,
         NEW new, new = Append(keys, k)
  PROVE  /\ new \in KeyLists
         /\ Head(new) = Head(keys)
         /\ HeldBy(keys) \subseteq HeldBy(new)
  <1>1. keys \in Seq(Secrets) /\ DOMAIN keys = 1..1
    BY DEF KeyLists
  <1>2. new \in Seq(Secrets) /\ Len(new) = 2
    <2>1. Append(keys, k) \in Seq(Secrets) /\ Len(Append(keys, k)) = Len(keys) + 1
      BY <1>1, AppendProperties
    <2> QED
      BY <2>1
  <1>3. new[1] = keys[1]
    BY <1>1
  <1>4. DOMAIN new = 1..2
    BY <1>2, LenProperties
  <1>5. Head(new) = Head(keys)
    BY <1>1, <1>2, <1>3
  <1>6. HeldBy(keys) = {keys[1]}
    BY <1>1 DEF HeldBy
  <1>7. new[1] \in HeldBy(new)
    BY <1>4 DEF HeldBy
  <1> QED
    BY <1>2, <1>3, <1>5, <1>6, <1>7 DEF KeyLists

\* Promoting the second key keeps what the list holds.
LEMMA Turned ==
  ASSUME NEW keys \in KeyLists, Len(keys) = 2
  PROVE  /\ <<keys[2], keys[1]>> \in KeyLists
         /\ Head(<<keys[2], keys[1]>>) = keys[2]
         /\ HeldBy(<<keys[2], keys[1]>>) = HeldBy(keys)
         /\ Head(keys) = keys[1]
         /\ keys[2] # keys[1] => <<keys[2], keys[1]>> # keys
         /\ keys[2] \in HeldBy(keys)
  <1>1. keys \in Seq(Secrets) /\ DOMAIN keys = 1..2 /\ keys[1] \in Secrets /\ keys[2] \in Secrets
    <2>1. keys \in Seq(Secrets) /\ Len(keys) = 2
      BY DEF KeyLists
    <2> QED
      BY <2>1, LenProperties, ElementOfSeq
  <1>2. HeldBy(keys) = {keys[1], keys[2]}
    BY <1>1 DEF HeldBy
  <1>3. HeldBy(<<keys[2], keys[1]>>) = {keys[1], keys[2]}
    BY DEF HeldBy
  <1>4. <<keys[2], keys[1]>> \in KeyLists
    BY <1>1 DEF KeyLists
  <1>5. Head(keys) = keys[1]
    BY <1>1
  <1> QED
    BY <1>1, <1>2, <1>3, <1>4, <1>5

\* Retiring the second key keeps the first.
LEMMA Shortened ==
  ASSUME NEW keys \in KeyLists, Len(keys) = 2
  PROVE  /\ <<keys[1]>> \in KeyLists
         /\ Head(<<keys[1]>>) = Head(keys)
         /\ Head(keys) \in HeldBy(<<keys[1]>>)
  <1>1. keys \in Seq(Secrets) /\ keys[1] \in Secrets /\ Head(keys) = keys[1]
    BY DEF KeyLists
  <1>2. <<keys[1]>> \in KeyLists /\ Head(<<keys[1]>>) = keys[1]
    BY <1>1 DEF KeyLists
  <1> QED
    BY <1>1, <1>2, HeadHeld

\* The registry names the two columns, the variables first.
LEMMA TwoColumns ==
  /\ HeldBy(EncryptedColumns) = {"var", "database"}
  /\ HeldBy(Columns) = {"var", "database"}
  /\ Len(EncryptedColumns) = 2
  /\ EncryptedColumns[1] = "var" /\ EncryptedColumns[2] = "database"
  BY DEF HeldBy, EncryptedColumns, Columns

-----------------------------------------------------------------------------
(* The invariant holds initially and every step keeps it.                  *)

\* Nothing is stored and nothing runs at first.
LEMMA RotationInitEstablishes == RotationInit => RotationInv
  <1> SUFFICES ASSUME RotationInit PROVE RotationInv
    OBVIOUS
  <1>1. PICK k \in Secrets : config = <<k>>
    BY DEF RotationInit
  <1>2. config \in KeyLists
    BY <1>1 DEF KeyLists
  <1>3. /\ server = [p \in Servers |-> [st |-> "down", keys |-> <<>>]]
        /\ stored = {} /\ nextId = 1
        /\ writing = [p \in Servers |-> [column |-> "none", key |-> NoSecret]]
        /\ sweep = [p \in Servers |-> [column |-> 0, batch |-> {}, rolled |-> FALSE]]
    BY DEF RotationInit, Down, NoWriting, NoSweep
  <1>4. RotationTyped
    BY <1>2, <1>3, EmptySeq DEF RotationTyped, Live
  <1>5. HeadsAreHeld /\ AllReadable
    BY <1>3 DEF HeadsAreHeld, AllReadable, Live
  <1>6. WritesAreCurrent
    BY <1>3 DEF WritesAreCurrent, NoWriting
  <1>7. SweepersLive /\ SweepsAreFirm
    BY <1>3 DEF SweepersLive, SweepsAreFirm
  <1> QED
    BY <1>4, <1>5, <1>6, <1>7 DEF RotationInv

\* Distributing a key keeps the invariant: what the operator's list holds
\* only grows and its first key stays.
LEMMA DistributeKeeps ==
  ASSUME RotationInv, Distribute
  PROVE  RotationInv'
  <1>1. PICK k \in Secrets : Len(config) = 1 /\ config' = Append(config, k)
    BY DEF Distribute, Edits
  <1>2. UNCHANGED <<server, stored, nextId, writing, sweep>>
    BY DEF Distribute, Edits
  <1>3. /\ config' \in KeyLists
        /\ Head(config') = Head(config)
        /\ HeldBy(config) \subseteq HeldBy(config')
    BY <1>1, Appended DEF RotationInv, RotationTyped
  <1>4. RotationTyped'
    BY <1>2, <1>3 DEF RotationInv, RotationTyped, Live
  <1>5. HeadsAreHeld'
    BY <1>2, <1>3 DEF RotationInv, HeadsAreHeld, Live
  <1>6. WritesAreCurrent' /\ SweepersLive' /\ AllReadable'
    BY <1>2 DEF RotationInv, WritesAreCurrent, SweepersLive, AllReadable, Live
  <1>7. SweepsAreFirm'
    BY <1>1, <1>2, <1>3 DEF RotationInv, SweepsAreFirm, AllWriteWith, VarsSwept, Live
  <1> QED
    BY <1>4, <1>5, <1>6, <1>7 DEF RotationInv

\* Promoting a key keeps the invariant, since every process has the list; a
\* sweep that is under way will not end under the list's first key.
LEMMA PromoteKeeps ==
  ASSUME RotationInv, Promote
  PROVE  RotationInv'
  <1>1. Len(config) = 2 /\ Rolled /\ config' = <<config[2], config[1]>>
    BY DEF Promote, Edits
  <1>2. UNCHANGED <<server, stored, nextId, writing, sweep>>
    BY DEF Promote, Edits
  <1>3. /\ config' \in KeyLists /\ Len(config') = 2
        /\ Head(config') = config[2]
        /\ HeldBy(config') = HeldBy(config)
        /\ Head(config) = config[1]
        /\ config[2] # config[1] => config' # config
        /\ config[2] \in HeldBy(config)
    BY <1>1, Turned DEF RotationInv, RotationTyped
  <1>4. \A p \in Servers : Live(p) => server[p].keys = config
    BY <1>1 DEF Rolled, Live
  <1>5. RotationTyped'
    BY <1>2, <1>3 DEF RotationInv, RotationTyped, Live
  <1>6. HeadsAreHeld'
    BY <1>2, <1>3, <1>4 DEF RotationInv, HeadsAreHeld, Live
  <1>7. WritesAreCurrent' /\ SweepersLive' /\ AllReadable'
    BY <1>2 DEF RotationInv, WritesAreCurrent, SweepersLive, AllReadable, Live
  <1>8. SweepsAreFirm'
    <2> SUFFICES ASSUME NEW p \in Servers, sweep[p].column # 0, sweep[p].rolled
                 PROVE  \/ AllWriteWith(Head(server[p].keys))' /\ (sweep[p].column = 2 => VarsSwept(Head(server[p].keys))')
                        \/ config' # server[p].keys /\ Head(config') # Head(server[p].keys)
      BY <1>2, <1>3 DEF SweepsAreFirm
    <2>1. server[p].keys = config
      BY <1>4 DEF RotationInv, SweepersLive
    <2>2. AllWriteWith(Head(config)) /\ (sweep[p].column = 2 => VarsSwept(Head(config)))
      BY <2>1 DEF RotationInv, SweepsAreFirm
    <2>3. CASE config[2] = config[1]
      BY <1>2, <1>3, <2>1, <2>2, <2>3 DEF AllWriteWith, VarsSwept, Live
    <2>4. CASE config[2] # config[1]
      BY <1>3, <2>1, <2>4
    <2> QED
      BY <2>3, <2>4
  <1> QED
    BY <1>5, <1>6, <1>7, <1>8 DEF RotationInv

\* Retiring a key keeps the invariant: every process writes with the other.
LEMMA RetireKeeps ==
  ASSUME RotationInv, Retire
  PROVE  RotationInv'
  <1>1. Len(config) = 2 /\ Rolled /\ config' = <<config[1]>>
    BY DEF Retire, Edits
  <1>2. UNCHANGED <<server, stored, nextId, writing, sweep>>
    BY DEF Retire, Edits
  <1>3. /\ config' \in KeyLists
        /\ Head(config') = Head(config)
        /\ Head(config) \in HeldBy(config')
    BY <1>1, Shortened DEF RotationInv, RotationTyped
  <1>4. \A p \in Servers : Live(p) => server[p].keys = config
    BY <1>1 DEF Rolled, Live
  <1>5. RotationTyped'
    BY <1>2, <1>3 DEF RotationInv, RotationTyped, Live
  <1>6. HeadsAreHeld'
    BY <1>2, <1>3, <1>4 DEF RotationInv, HeadsAreHeld, Live
  <1>7. WritesAreCurrent' /\ SweepersLive' /\ AllReadable'
    BY <1>2 DEF RotationInv, WritesAreCurrent, SweepersLive, AllReadable, Live
  <1>8. SweepsAreFirm'
    BY <1>2, <1>3, <1>4 DEF RotationInv, SweepsAreFirm, SweepersLive, AllWriteWith, VarsSwept, Live
  <1> QED
    BY <1>5, <1>6, <1>7, <1>8 DEF RotationInv

\* A process that starts takes the list as it is now, which holds every first
\* key, and whose first key every process holds.
LEMMA StartsKeeps ==
  ASSUME RotationInv, NEW p \in Servers, Starts(p)
  PROVE  RotationInv'
  <1>1. /\ server' = [server EXCEPT ![p] = [st |-> "verifies", keys |-> config]]
        /\ ~Live(p)
        /\ UNCHANGED <<config, stored, nextId, writing, sweep>>
    BY DEF Starts, Becomes, Live
  <1>2. /\ server'[p] = [st |-> "verifies", keys |-> config]
        /\ \A q \in Servers : q # p => server'[q] = server[q]
        /\ config \in KeyLists /\ config \in Seq(Secrets)
    BY <1>1 DEF RotationInv, RotationTyped, KeyLists
  <1>3. Head(config) \in HeldBy(config)
    BY <1>2, HeadHeld
  <1>4. RotationTyped'
    BY <1>1, <1>2 DEF RotationInv, RotationTyped, Live
  <1>5. HeadsAreHeld'
    BY <1>1, <1>2, <1>3 DEF RotationInv, HeadsAreHeld, Live
  <1>6. WritesAreCurrent' /\ SweepersLive'
    BY <1>1, <1>2 DEF RotationInv, WritesAreCurrent, SweepersLive, Live
  <1>7. AllReadable'
    BY <1>1, <1>2 DEF RotationInv, AllReadable
  <1>8. SweepsAreFirm'
    BY <1>1, <1>2 DEF RotationInv, SweepsAreFirm, SweepersLive, AllWriteWith, VarsSwept, Live
  <1> QED
    BY <1>4, <1>5, <1>6, <1>7, <1>8 DEF RotationInv

\* A process that ends takes its transaction and its sweep with it.
LEMMA ExitsKeeps ==
  ASSUME RotationInv, NEW p \in Servers, Exits(p)
  PROVE  RotationInv'
  <1>1. /\ server' = [server EXCEPT ![p] = Down]
        /\ writing' = [writing EXCEPT ![p] = NoWriting]
        /\ sweep' = [sweep EXCEPT ![p] = NoSweep]
        /\ UNCHANGED <<config, stored, nextId>>
    BY DEF Exits, Becomes
  <1>2. /\ server'[p] = Down /\ writing'[p] = NoWriting /\ sweep'[p] = NoSweep
        /\ \A q \in Servers : q # p =>
             server'[q] = server[q] /\ writing'[q] = writing[q] /\ sweep'[q] = sweep[q]
    BY <1>1 DEF RotationInv, RotationTyped
  <1>3. Down \in [st : {"down", "verifies", "serves"}, keys : Seq(Secrets)] /\ Down.st = "down"
    BY EmptySeq DEF Down
  <1>4. RotationTyped'
    BY <1>1, <1>2, <1>3 DEF RotationInv, RotationTyped, NoWriting, NoSweep, Live
  <1>5. HeadsAreHeld'
    BY <1>1, <1>2, <1>3 DEF RotationInv, HeadsAreHeld, Live
  <1>6. WritesAreCurrent' /\ SweepersLive'
    BY <1>2, <1>3 DEF RotationInv, WritesAreCurrent, SweepersLive, NoSweep, Live
  <1>7. AllReadable'
    BY <1>1, <1>2, <1>3 DEF RotationInv, AllReadable
  <1>8. SweepsAreFirm'
    BY <1>1, <1>2, <1>3 DEF RotationInv, SweepsAreFirm, AllWriteWith, VarsSwept, NoSweep, Live
  <1> QED
    BY <1>4, <1>5, <1>6, <1>7, <1>8 DEF RotationInv

\* A process serves only if its list covers what is stored (verify_keyring).
LEMMA VerifyKeeps ==
  ASSUME RotationInv, NEW p \in Servers, VerifyKeyring(p)
  PROVE  RotationInv'
  <1>1. CASE Exits(p)
    BY <1>1, ExitsKeeps
  <1>2. CASE ~Exits(p)
    <2>1. /\ server[p].st = "verifies"
          /\ StoredKeys \subseteq HeldBy(server[p].keys)
          /\ server' = [server EXCEPT ![p] = [server[p] EXCEPT !.st = "serves"]]
          /\ UNCHANGED <<config, stored, nextId, writing, sweep>>
      BY <1>2 DEF VerifyKeyring, Becomes
    <2>2. server[p] \in [st : {"down", "verifies", "serves"}, keys : Seq(Secrets)]
      BY DEF RotationInv, RotationTyped
    <2>3. /\ server'[p].st = "serves" /\ server'[p].keys = server[p].keys
          /\ server'[p] \in [st : {"down", "verifies", "serves"}, keys : Seq(Secrets)]
          /\ \A q \in Servers : q # p => server'[q] = server[q]
      BY <2>1, <2>2 DEF RotationInv, RotationTyped
    <2>4. \A q \in Servers : (Live(q)' <=> Live(q)) /\ server'[q].keys = server[q].keys
      BY <2>1, <2>3 DEF Live
    <2>5. \A r \in stored : r.key \in HeldBy(server[p].keys)
      BY <2>1, TwoColumns DEF StoredKeys, RotationInv, RotationTyped, Row
    <2>6. RotationTyped'
      <3>1. server' \in [Servers -> [st : {"down", "verifies", "serves"}, keys : Seq(Secrets)]]
        BY <2>1, <2>3 DEF RotationInv, RotationTyped
      <3> QED
        BY <2>1, <2>4, <3>1 DEF RotationInv, RotationTyped
    <2>7. HeadsAreHeld' /\ WritesAreCurrent' /\ SweepersLive'
      BY <2>1, <2>4 DEF RotationInv, HeadsAreHeld, WritesAreCurrent, SweepersLive
    <2>8. AllReadable'
      BY <2>1, <2>3, <2>5 DEF RotationInv, AllReadable
    <2>9. SweepsAreFirm'
      BY <2>1, <2>4 DEF RotationInv, SweepsAreFirm, AllWriteWith, VarsSwept
    <2> QED
      BY <2>6, <2>7, <2>8, <2>9 DEF RotationInv
  <1> QED
    BY <1>1, <1>2

\* encrypt opens a transaction under the process's first key.
LEMMA EncryptKeeps ==
  ASSUME RotationInv, NEW p \in Servers, Encrypt(p)
  PROVE  RotationInv'
  <1> DEFINE k == Head(server[p].keys)
  <1>1. PICK c \in {"var", "database"} : writing' = [writing EXCEPT ![p] = [column |-> c, key |-> k]]
    BY TwoColumns DEF Encrypt
  <1>2. /\ server[p].st = "serves"
        /\ UNCHANGED <<config, server, stored, nextId, sweep>>
    BY DEF Encrypt
  <1>3. k \in Secrets
    BY <1>2, HeadHeld DEF RotationInv, RotationTyped, Live
  <1>4. /\ writing'[p] = [column |-> c, key |-> k]
        /\ \A q \in Servers : q # p => writing'[q] = writing[q]
    BY <1>1 DEF RotationInv, RotationTyped
  <1>5. RotationTyped'
    BY <1>1, <1>2, <1>3, <1>4 DEF RotationInv, RotationTyped, Live
  <1>6. WritesAreCurrent'
    BY <1>2, <1>4 DEF RotationInv, WritesAreCurrent, Live
  <1>7. HeadsAreHeld' /\ SweepersLive' /\ AllReadable' /\ SweepsAreFirm'
    BY <1>2 DEF RotationInv, HeadsAreHeld, SweepersLive, AllReadable, SweepsAreFirm,
                AllWriteWith, VarsSwept, Live
  <1> QED
    BY <1>5, <1>6, <1>7 DEF RotationInv

\* A row is stored under the first key of a process that is up, which every
\* other holds.
LEMMA CommitSecretKeeps ==
  ASSUME RotationInv, NEW p \in Servers, CommitSecret(p)
  PROVE  RotationInv'
  <1> DEFINE new == [column |-> writing[p].column, id |-> nextId, key |-> writing[p].key]
  <1>1. /\ writing[p] # NoWriting
        /\ stored' = stored \union {new} /\ nextId' = nextId + 1
        /\ writing' = [writing EXCEPT ![p] = NoWriting]
        /\ UNCHANGED <<config, server, sweep>>
    BY DEF CommitSecret
  <1>2. /\ Live(p) /\ server[p].keys \in KeyLists
        /\ writing[p].column \in {"var", "database"}
        /\ writing[p].key = Head(server[p].keys)
    BY <1>1 DEF RotationInv, RotationTyped, WritesAreCurrent
  <1>3. writing[p].key \in Secrets
    BY <1>2, HeadHeld
  <1>4. new \in Row /\ nextId \in Nat
    BY <1>2, <1>3 DEF Row, RotationInv, RotationTyped
  <1>5. /\ writing'[p] = NoWriting
        /\ \A q \in Servers : q # p => writing'[q] = writing[q]
    BY <1>1 DEF RotationInv, RotationTyped
  <1>6. RotationTyped'
    BY <1>1, <1>4, <1>5 DEF RotationInv, RotationTyped, NoWriting, Row, Live
  <1>7. WritesAreCurrent'
    BY <1>1, <1>5 DEF RotationInv, WritesAreCurrent, Live
  <1>8. HeadsAreHeld' /\ SweepersLive'
    BY <1>1 DEF RotationInv, HeadsAreHeld, SweepersLive, Live
  <1>9. AllReadable'
    BY <1>1, <1>2 DEF RotationInv, AllReadable, HeadsAreHeld, Live
  <1>10. SweepsAreFirm'
    BY <1>1, <1>2 DEF RotationInv, SweepsAreFirm, AllWriteWith, VarsSwept, Live
  <1> QED
    BY <1>6, <1>7, <1>8, <1>9, <1>10 DEF RotationInv

\* Rows that go take nothing with them.
LEMMA RemoveKeeps ==
  ASSUME RotationInv, RemoveSecret
  PROVE  RotationInv'
  <1>1. stored' \subseteq stored /\ UNCHANGED <<config, server, nextId, writing, sweep>>
    BY DEF RemoveSecret
  <1>2. RotationTyped'
    BY <1>1 DEF RotationInv, RotationTyped, Live
  <1>3. HeadsAreHeld' /\ WritesAreCurrent' /\ SweepersLive' /\ AllReadable'
    BY <1>1 DEF RotationInv, HeadsAreHeld, WritesAreCurrent, SweepersLive, AllReadable, Live
  <1>4. SweepsAreFirm'
    BY <1>1 DEF RotationInv, SweepsAreFirm, AllWriteWith, VarsSwept, Live
  <1> QED
    BY <1>2, <1>3, <1>4 DEF RotationInv

\* A sweep that starts knows whether every process has the list.
LEMMA BeginKeeps ==
  ASSUME RotationInv, NEW p \in Servers, BeginSecretSweep(p)
  PROVE  RotationInv'
  <1>1. /\ Live(p) /\ UNCHANGED <<config, server, stored, nextId, writing>>
        /\ sweep' = [sweep EXCEPT ![p] = [column |-> 1, batch |-> {}, rolled |-> Rolled]]
    BY DEF BeginSecretSweep, Sweeps, Live
  <1>2. /\ sweep'[p] = [column |-> 1, batch |-> {}, rolled |-> Rolled]
        /\ \A q \in Servers : q # p => sweep'[q] = sweep[q]
    BY <1>1 DEF RotationInv, RotationTyped
  <1>3. Rolled \in BOOLEAN
    BY DEF Rolled
  <1>4. RotationTyped'
    <2>1. [column |-> 1, batch |-> {}, rolled |-> Rolled] \in [column : 0..2, batch : SUBSET Row, rolled : BOOLEAN]
      BY <1>3
    <2> QED
      BY <1>1, <2>1 DEF RotationInv, RotationTyped, Live
  <1>5. HeadsAreHeld' /\ WritesAreCurrent' /\ AllReadable'
    BY <1>1 DEF RotationInv, HeadsAreHeld, WritesAreCurrent, AllReadable, Live
  <1>6. SweepersLive'
    BY <1>1, <1>2 DEF RotationInv, SweepersLive, Live
  <1>7. SweepsAreFirm'
    <2> SUFFICES ASSUME Rolled
                 PROVE  AllWriteWith(Head(server[p].keys))
      BY <1>1, <1>2 DEF RotationInv, SweepsAreFirm, AllWriteWith, VarsSwept, Live
    <2> QED
      BY <1>1 DEF Rolled, AllWriteWith, Live
  <1> QED
    BY <1>4, <1>5, <1>6, <1>7 DEF RotationInv

\* A sweep that has ended.
LEMMA NoSweepTyped ==
  /\ NoSweep \in [column : 0..2, batch : SUBSET Row, rolled : BOOLEAN]
  /\ NoSweep.column = 0 /\ NoSweep.batch = {}
  BY DEF NoSweep

\* What a sweep reads: a column with nothing left in it is behind it.
LEMMA ReadBatchKeeps ==
  ASSUME RotationInv, NEW p \in Servers, ReadBatch(p)
  PROVE  RotationInv'
  <1>1. /\ sweep[p].column # 0 /\ sweep[p].batch = {}
        /\ UNCHANGED <<config, server, stored, nextId, writing>>
    BY DEF ReadBatch, Sweeps
  <1>2. sweep[p] \in [column : 0..2, batch : SUBSET Row, rolled : BOOLEAN] /\ Live(p)
    BY <1>1 DEF RotationInv, RotationTyped, SweepersLive
  <1>3. PICK new \in [column : 0..2, batch : SUBSET Row, rolled : BOOLEAN] :
          /\ sweep' = [sweep EXCEPT ![p] = new]
          /\ new.batch # {} => new.column # 0
          /\ \/ new.column = 0
             \/ new.column = sweep[p].column /\ new.rolled = sweep[p].rolled
             \/ new.column = 2 /\ sweep[p].column = 1 /\ new.rolled = sweep[p].rolled /\ Unswept(p) = {}
    <2>1. CASE Unswept(p) = {} /\ sweep[p].column < Len(EncryptedColumns)
      <3>1. sweep' = [sweep EXCEPT ![p] = [sweep[p] EXCEPT !.column = sweep[p].column + 1]]
        BY <2>1 DEF ReadBatch, Sweeps
      <3>2. sweep[p].column = 1
        BY <1>1, <1>2, <2>1, TwoColumns
      <3>3. [sweep[p] EXCEPT !.column = sweep[p].column + 1] = [column |-> 2, batch |-> {}, rolled |-> sweep[p].rolled]
        BY <1>1, <1>2, <3>2
      <3>4. [column |-> 2, batch |-> {}, rolled |-> sweep[p].rolled] \in [column : 0..2, batch : SUBSET Row, rolled : BOOLEAN]
        BY <1>2
      <3> QED
        BY <2>1, <3>1, <3>2, <3>3, <3>4
    <2>2. CASE Unswept(p) = {} /\ ~(sweep[p].column < Len(EncryptedColumns))
      <3>1. sweep' = [sweep EXCEPT ![p] = NoSweep]
        BY <2>2 DEF ReadBatch, Sweeps
      <3> QED
        BY <3>1, NoSweepTyped
    <2>3. CASE Unswept(p) # {}
      <3>1. FirstBatch(Unswept(p)) \subseteq Row
        BY DEF FirstBatch, Unswept, RotationInv, RotationTyped
      <3> DEFINE new == [column |-> sweep[p].column, batch |-> FirstBatch(Unswept(p)), rolled |-> sweep[p].rolled]
      <3>2. \/ sweep' = [sweep EXCEPT ![p] = [sweep[p] EXCEPT !.batch = FirstBatch(Unswept(p))]]
            \/ sweep' = [sweep EXCEPT ![p] = NoSweep]
        BY <2>3 DEF ReadBatch, Sweeps
      <3>3. [sweep[p] EXCEPT !.batch = FirstBatch(Unswept(p))] = new
        BY <1>2
      <3>4. /\ new \in [column : 0..2, batch : SUBSET Row, rolled : BOOLEAN]
            /\ new.column = sweep[p].column /\ new.rolled = sweep[p].rolled
        BY <1>2, <3>1
      <3>5. CASE sweep' = [sweep EXCEPT ![p] = new]
        BY <1>1, <3>4, <3>5
      <3>6. CASE sweep' = [sweep EXCEPT ![p] = NoSweep]
        BY <3>6, NoSweepTyped
      <3> QED
        BY <3>2, <3>3, <3>5, <3>6
    <2> QED
      BY <2>1, <2>2, <2>3
  <1>4. /\ sweep'[p] = new
        /\ \A q \in Servers : q # p => sweep'[q] = sweep[q]
    BY <1>3 DEF RotationInv, RotationTyped
  <1>5. RotationTyped'
    BY <1>1, <1>3 DEF RotationInv, RotationTyped, Live
  <1>6. HeadsAreHeld' /\ WritesAreCurrent' /\ AllReadable'
    BY <1>1 DEF RotationInv, HeadsAreHeld, WritesAreCurrent, AllReadable, Live
  <1>7. SweepersLive'
    BY <1>1, <1>2, <1>3, <1>4 DEF RotationInv, SweepersLive, Live
  <1>8. SweepsAreFirm'
    <2>1. sweep[p].column = 1 /\ Unswept(p) = {} => VarsSwept(Head(server[p].keys))
      BY TwoColumns DEF Unswept, VarsSwept
    <2> QED
      BY <1>1, <1>3, <1>4, <2>1 DEF RotationInv, SweepsAreFirm, AllWriteWith, VarsSwept, Live
  <1> QED
    BY <1>5, <1>6, <1>7, <1>8 DEF RotationInv

\* A committed batch is under the first key of a process that is up.
LEMMA CommitBatchKeeps ==
  ASSUME RotationInv, NEW p \in Servers, CommitBatch(p)
  PROVE  RotationInv'
  <1> DEFINE k == Head(server[p].keys)
             ids == Ids(sweep[p].batch)
  <1>1. /\ ids # {} /\ UNCHANGED <<config, server, nextId, writing>>
    BY DEF CommitBatch, Sweeps
  <1>2. /\ sweep[p] \in [column : 0..2, batch : SUBSET Row, rolled : BOOLEAN]
        /\ Live(p) /\ k \in Secrets
    BY <1>1, HeadHeld DEF Ids, RotationInv, RotationTyped, SweepersLive
  <1>3. \/ /\ stored' = stored
           /\ sweep' = [sweep EXCEPT ![p] = NoSweep]
        \/ /\ stored' = {IF r.id \in ids THEN [r EXCEPT !.key = k] ELSE r : r \in stored}
           /\ sweep' = [sweep EXCEPT ![p] = [sweep[p] EXCEPT !.batch = {}]]
    BY DEF CommitBatch, Sweeps
  <1>4. \A r \in stored' :
          \E s \in stored : r.column = s.column /\ r.id = s.id /\ r \in Row /\ r.key \in {s.key, k}
    <2> SUFFICES ASSUME NEW r \in stored'
                 PROVE  \E s \in stored : r.column = s.column /\ r.id = s.id /\ r \in Row /\ r.key \in {s.key, k}
      OBVIOUS
    <2>1. \A s \in stored : s \in Row
      BY DEF RotationInv, RotationTyped
    <2>2. PICK s \in stored : r = s \/ r = [s EXCEPT !.key = k]
      BY <1>3
    <2>3. CASE r = s
      BY <2>1, <2>3
    <2>4. CASE r = [s EXCEPT !.key = k]
      <3>1. /\ r.column = s.column /\ r.id = s.id /\ r.key = k
            /\ r \in Row
        BY <1>2, <2>1, <2>4 DEF Row
      <3> QED
        BY <3>1
    <2> QED
      BY <2>2, <2>3, <2>4
  <1>5. /\ sweep'[p].column \in {0, sweep[p].column} /\ sweep'[p].batch = {}
        /\ sweep'[p].column # 0 => sweep'[p].rolled = sweep[p].rolled
        /\ sweep' \in [Servers -> [column : 0..2, batch : SUBSET Row, rolled : BOOLEAN]]
        /\ \A q \in Servers : q # p => sweep'[q] = sweep[q]
    <2> DEFINE new == [column |-> sweep[p].column, batch |-> {}, rolled |-> sweep[p].rolled]
    <2>1. [sweep[p] EXCEPT !.batch = {}] = new
      BY <1>2
    <2>2. new \in [column : 0..2, batch : SUBSET Row, rolled : BOOLEAN]
      BY <1>2
    <2>3. sweep \in [Servers -> [column : 0..2, batch : SUBSET Row, rolled : BOOLEAN]]
      BY DEF RotationInv, RotationTyped
    <2>4. CASE sweep' = [sweep EXCEPT ![p] = NoSweep]
      BY <2>3, <2>4, NoSweepTyped
    <2>5. CASE sweep' = [sweep EXCEPT ![p] = new]
      BY <2>2, <2>3, <2>5
    <2> QED
      BY <1>3, <2>1, <2>4, <2>5
  <1>6. RotationTyped'
    BY <1>1, <1>4, <1>5 DEF RotationInv, RotationTyped, Live
  <1>7. HeadsAreHeld' /\ WritesAreCurrent'
    BY <1>1 DEF RotationInv, HeadsAreHeld, WritesAreCurrent, Live
  <1>8. SweepersLive'
    BY <1>1, <1>5 DEF RotationInv, SweepersLive, Live
  <1>9. AllReadable'
    BY <1>1, <1>2, <1>4 DEF RotationInv, AllReadable, HeadsAreHeld, Live
  <1>10. SweepsAreFirm'
    BY <1>1, <1>2, <1>4, <1>5 DEF RotationInv, SweepsAreFirm, AllWriteWith, VarsSwept, Live
  <1> QED
    BY <1>6, <1>7, <1>8, <1>9, <1>10 DEF RotationInv

\* Steps that leave everything alone keep the invariant.
LEMMA RotationStutterKeeps ==
  ASSUME RotationInv, UNCHANGED rotationVars
  PROVE  RotationInv'
  BY DEF rotationVars, RotationInv, RotationTyped, HeadsAreHeld, WritesAreCurrent, SweepersLive,
         AllReadable, SweepsAreFirm, AllWriteWith, VarsSwept, Live

\* Every step keeps the invariant.
LEMMA RotationStepKeeps == RotationInv /\ [RotationNext]_rotationVars => RotationInv'
  <1> SUFFICES ASSUME RotationInv, [RotationNext]_rotationVars
               PROVE  RotationInv'
    OBVIOUS
  <1>1. CASE Distribute
    BY <1>1, DistributeKeeps
  <1>2. CASE Promote
    BY <1>2, PromoteKeeps
  <1>3. CASE Retire
    BY <1>3, RetireKeeps
  <1>4. CASE RemoveSecret
    BY <1>4, RemoveKeeps
  <1>5. ASSUME NEW p \in Servers,
               \/ Starts(p) \/ VerifyKeyring(p) \/ Exits(p) \/ Encrypt(p) \/ CommitSecret(p)
               \/ BeginSecretSweep(p) \/ ReadBatch(p) \/ CommitBatch(p)
        PROVE  RotationInv'
    BY <1>5, StartsKeeps, VerifyKeeps, ExitsKeeps, EncryptKeeps, CommitSecretKeeps,
       BeginKeeps, ReadBatchKeeps, CommitBatchKeeps
  <1>6. CASE UNCHANGED rotationVars
    BY <1>6, RotationStutterKeeps
  <1> QED
    BY <1>1, <1>2, <1>3, <1>4, <1>5, <1>6 DEF RotationNext

-----------------------------------------------------------------------------
(* The theorems.                                                           *)

\* The invariant covers the types the runs check.
LEMMA InvImpliesReadable == RotationInv => RotationTypeOK /\ AllReadable
  <1> SUFFICES ASSUME RotationInv PROVE RotationTypeOK
    BY DEF RotationInv
  <1>1. Len(config) \in 1..2
    BY DEF RotationInv, RotationTyped, KeyLists
  <1>2. \A p \in Servers : server[p].st \in {"down", "verifies", "serves"}
    BY DEF RotationInv, RotationTyped
  <1>3. \A r \in stored : r.column \in HeldBy(Columns) /\ r.key \in Secrets /\ r.id < nextId
    BY TwoColumns DEF RotationInv, RotationTyped, Row
  <1> QED
    BY <1>1, <1>2, <1>3 DEF RotationTypeOK

\* A sweep that began with every process rolled out and ends under the list it
\* has leaves nothing under another key: the list was not turned round, so the
\* variables it has behind it stayed swept.
LEMMA SweepEndsClean ==
  ASSUME RotationInv, NEW p \in Servers,
         sweep[p].rolled, sweep[p].column = Len(EncryptedColumns),
         Unswept(p) = {}, config = server[p].keys
  PROVE  \A r \in stored : r.key = Head(config)
  <1>1. sweep[p].column = 2 /\ EncryptedColumns[sweep[p].column] = "database"
    BY TwoColumns
  <1>2. VarsSwept(Head(config))
    BY <1>1 DEF RotationInv, SweepsAreFirm
  <1>3. \A r \in stored : r.column = "database" => r.key = Head(config)
    BY <1>1 DEF Unswept
  <1>4. \A r \in stored : r.column \in {"var", "database"}
    BY DEF RotationInv, RotationTyped, Row
  <1> QED
    BY <1>2, <1>3, <1>4 DEF VarsSwept

\* Rotating the key loses no secret, whatever the keys, the processes, the size
\* of a batch and the moments at which processes come and go (verify_keyring,
\* encrypt, rotate_encrypted_values).
THEOREM SecretsAlwaysReadable == RotationSpec => SecretsStayReadable
  <1>1. RotationInv => [\A p \in Servers :
          (/\ sweep[p].rolled /\ sweep[p].column = Len(EncryptedColumns) /\ sweep[p].batch = {}
           /\ sweep'[p] = NoSweep /\ Unswept(p) = {} /\ server'[p] = server[p]
           /\ config = server[p].keys)
            => \A r \in stored : r.key = Head(config)]_rotationVars
    BY SweepEndsClean
  <1> QED
    BY <1>1, RotationInitEstablishes, RotationStepKeeps, InvImpliesReadable, PTL
    DEF RotationSpec, SecretsStayReadable, SweepsAreComplete

-----------------------------------------------------------------------------
(* A tenant's database                                                      *)

Rows == [there : BOOLEAN, purge : BOOLEAN, quota : {"ok", "warned", "readonly", "blocked"}, warned : 0 .. 3]
Views == [level : Levels, warned : 0 .. 3]

\* The statements of evaluate_quota_state, of ensure_database from its first
\* commit on, and of purge_database.
Evaluating == {"evaluate", "readonly", "login", "record"}
Ensuring == {"role", "password", "database", "revoke"} \union Evaluating
Purging == {"dropdb", "droprole", "forget"}

TenantTyped ==
  /\ row \in Rows /\ seen \in [Processes -> Views] /\ level \in Levels
  /\ role \in {"none", "login", "nologin"} /\ db \in {"none", "public", "private"}
  /\ job \in {"none", "apply", "delete"}
  /\ password \in BOOLEAN /\ readonly \in BOOLEAN /\ due \in BOOLEAN /\ handed \in BOOLEAN
  /\ pc \in [Processes -> {"idle", "mark"} \union Ensuring \union Purging]

\* A process works for the job it has, or on a row that is there.
CallsHold ==
  /\ pc["reconcile"] \in Ensuring => job = "apply" /\ row.there
  /\ pc["reconcile"] = "mark" => job = "delete"
  /\ pc["reconcile"] \notin Purging
  /\ pc["worker"] \in {"idle"} \union Evaluating \union Purging
  /\ pc["worker"] \in Evaluating => row.there

\* What awaits its purge was deleted, and what was deleted is not provisioned.
DeletionHolds ==
  /\ row.purge => deleted /\ row.there
  /\ job = "apply" => ~deleted
  /\ job = "delete" => deleted

\* How far a purge has come.
PurgeHolds ==
  /\ pc["worker"] \in Purging => row.purge /\ due
  /\ pc["worker"] \in {"droprole", "forget"} => db = "none"
  /\ pc["worker"] = "forget" => role = "none"

\* How far ensure_database has come.
EnsuredHolds ==
  /\ pc["reconcile"] \in {"password", "database", "revoke"} \union Evaluating => role # "none"
  /\ pc["reconcile"] \in {"database", "revoke"} \union Evaluating => password
  /\ pc["reconcile"] = "revoke" => db # "none"
  /\ pc["reconcile"] \in Evaluating => db = "private"
  /\ handed => row.there

TenantInv ==
  /\ TenantTyped /\ CallsHold /\ DeletionHolds /\ PurgeHolds /\ EnsuredHolds
  /\ NoOrphans /\ HandedIsUsable

LEMMA TenantStarts == TenantInit => TenantInv
  <1> SUFFICES ASSUME TenantInit PROVE TenantInv
    OBVIOUS
  <1>1. /\ NoDatabase \in Rows /\ ~NoDatabase.there /\ ~NoDatabase.purge
        /\ NothingSeen \in Views /\ 0 \in Levels
    BY DEF NoDatabase, NothingSeen, Rows, Views, Levels
  <1>2. /\ pc = [p \in Processes |-> "idle"] /\ pc["reconcile"] = "idle" /\ pc["worker"] = "idle"
        /\ seen = [p \in Processes |-> NothingSeen]
    BY DEF TenantInit, Processes
  <1>3. TenantTyped
    BY <1>1, <1>2 DEF TenantInit, TenantTyped
  <1> QED
    BY <1>1, <1>2, <1>3 DEF TenantInit, TenantInv, CallsHold, DeletionHolds, PurgeHolds, EnsuredHolds,
       NoOrphans, HandedIsUsable, Evaluating, Ensuring, Purging

\* Where the processes are after a statement of p.
LEMMA StatementMoves ==
  ASSUME TenantInv, NEW p \in Processes, NEW here, NEW next \in {"idle", "mark"} \union Ensuring \union Purging,
         AtStatement(p, here, next)
  PROVE  /\ pc[p] = here /\ pc' \in [Processes -> {"idle", "mark"} \union Ensuring \union Purging]
         /\ pc'[p] = next /\ \A q \in Processes : q # p => pc'[q] = pc[q]
  BY DEF TenantInv, TenantTyped, AtStatement

LEMMA ReconcilerKeeps ==
  ASSUME TenantInv, ReconcilerStep
  PROVE  TenantInv'
  <1>1. CASE StorePassword
    <2>1. /\ pc["reconcile"] = "idle" /\ pc'["reconcile"] = "role"
          /\ \A q \in Processes : q # "reconcile" => pc'[q] = pc[q]
          /\ pc' \in [Processes -> {"idle", "mark"} \union Ensuring \union Purging]
      BY <1>1, StatementMoves DEF StorePassword, Processes, Ensuring, Evaluating, Purging
    <2> QED
      BY <1>1, <2>1
         DEF StorePassword, bookkeeping, TenantInv, TenantTyped, CallsHold, DeletionHolds, PurgeHolds,
       EnsuredHolds, NoOrphans, HandedIsUsable, Rows, Processes, Evaluating, Ensuring, Purging
  <1>2. CASE CreateRole
    <2>1. /\ pc["reconcile"] = "role" /\ pc'["reconcile"] = "password"
          /\ \A q \in Processes : q # "reconcile" => pc'[q] = pc[q]
          /\ pc' \in [Processes -> {"idle", "mark"} \union Ensuring \union Purging]
      BY <1>2, StatementMoves DEF CreateRole, Processes, Ensuring, Evaluating, Purging
    <2> QED
      BY <1>2, <2>1
         DEF CreateRole, bookkeeping, TenantInv, TenantTyped, CallsHold, DeletionHolds, PurgeHolds,
       EnsuredHolds, NoOrphans, HandedIsUsable, Rows, Processes, Evaluating, Ensuring, Purging
  <1>3. CASE SetPassword
    <2>1. /\ pc["reconcile"] = "password" /\ pc'["reconcile"] = "database"
          /\ \A q \in Processes : q # "reconcile" => pc'[q] = pc[q]
          /\ pc' \in [Processes -> {"idle", "mark"} \union Ensuring \union Purging]
      BY <1>3, StatementMoves DEF SetPassword, Processes, Ensuring, Evaluating, Purging
    <2> QED
      BY <1>3, <2>1
         DEF SetPassword, bookkeeping, TenantInv, TenantTyped, CallsHold, DeletionHolds, PurgeHolds,
       EnsuredHolds, NoOrphans, HandedIsUsable, Rows, Processes, Evaluating, Ensuring, Purging
  <1>4. CASE CreateDatabase
    <2>1. /\ pc["reconcile"] = "database" /\ pc'["reconcile"] = "revoke"
          /\ \A q \in Processes : q # "reconcile" => pc'[q] = pc[q]
          /\ pc' \in [Processes -> {"idle", "mark"} \union Ensuring \union Purging]
      BY <1>4, StatementMoves DEF CreateDatabase, Processes, Ensuring, Evaluating, Purging
    <2> QED
      BY <1>4, <2>1
         DEF CreateDatabase, bookkeeping, TenantInv, TenantTyped, CallsHold, DeletionHolds, PurgeHolds,
       EnsuredHolds, NoOrphans, HandedIsUsable, Rows, Processes, Evaluating, Ensuring, Purging
  <1>5. CASE RevokePublicAccess
    <2>1. /\ pc["reconcile"] = "revoke" /\ pc'["reconcile"] = "evaluate"
          /\ \A q \in Processes : q # "reconcile" => pc'[q] = pc[q]
          /\ pc' \in [Processes -> {"idle", "mark"} \union Ensuring \union Purging]
      BY <1>5, StatementMoves DEF RevokePublicAccess, Processes, Ensuring, Evaluating, Purging
    <2> QED
      BY <1>5, <2>1
         DEF RevokePublicAccess, bookkeeping, TenantInv, TenantTyped, CallsHold, DeletionHolds, PurgeHolds,
       EnsuredHolds, NoOrphans, HandedIsUsable, Rows, Processes, Evaluating, Ensuring, Purging
  <1>6. CASE RevokeLogin
    <2>1. /\ pc["reconcile"] = "idle" /\ pc'["reconcile"] = "mark"
          /\ \A q \in Processes : q # "reconcile" => pc'[q] = pc[q]
          /\ pc' \in [Processes -> {"idle", "mark"} \union Ensuring \union Purging]
      BY <1>6, StatementMoves DEF RevokeLogin, Processes, Ensuring, Evaluating, Purging
    <2> QED
      BY <1>6, <2>1
         DEF RevokeLogin, bookkeeping, TenantInv, TenantTyped, CallsHold, DeletionHolds, PurgeHolds,
       EnsuredHolds, NoOrphans, HandedIsUsable, Rows, Processes, Evaluating, Ensuring, Purging
  <1>7. CASE SetDeadline
    <2>1. /\ pc["reconcile"] = "mark" /\ pc'["reconcile"] = "idle"
          /\ \A q \in Processes : q # "reconcile" => pc'[q] = pc[q]
          /\ pc' \in [Processes -> {"idle", "mark"} \union Ensuring \union Purging]
      BY <1>7, StatementMoves DEF SetDeadline, Processes, Ensuring, Evaluating, Purging
    <2> QED
      BY <1>7, <2>1
         DEF SetDeadline, bookkeeping, TenantInv, TenantTyped, CallsHold, DeletionHolds, PurgeHolds,
       EnsuredHolds, NoOrphans, HandedIsUsable, Rows, Processes, Evaluating, Ensuring, Purging
  <1> QED
    BY <1>1, <1>2, <1>3, <1>4, <1>5, <1>6, <1>7 DEF ReconcilerStep

LEMMA WorkerKeeps ==
  ASSUME TenantInv, BeginSweep \/ PurgeStep
  PROVE  TenantInv'
  <1>1. CASE BeginSweep
    <2>1. /\ pc["worker"] = "idle" /\ pc'["worker"] = "evaluate"
          /\ \A q \in Processes : q # "worker" => pc'[q] = pc[q]
          /\ pc' \in [Processes -> {"idle", "mark"} \union Ensuring \union Purging]
      BY <1>1, StatementMoves DEF BeginSweep, Processes, Ensuring, Evaluating, Purging
    <2> QED
      BY <1>1, <2>1
         DEF BeginSweep, bookkeeping, TenantInv, TenantTyped, CallsHold, DeletionHolds, PurgeHolds,
       EnsuredHolds, NoOrphans, HandedIsUsable, Rows, Processes, Evaluating, Ensuring, Purging
  <1>2. CASE BeginPurge
    <2>1. /\ pc["worker"] = "idle" /\ pc'["worker"] = "dropdb"
          /\ \A q \in Processes : q # "worker" => pc'[q] = pc[q]
          /\ pc' \in [Processes -> {"idle", "mark"} \union Ensuring \union Purging]
      BY <1>2, StatementMoves DEF BeginPurge, Processes, Ensuring, Evaluating, Purging
    <2> QED
      BY <1>2, <2>1
         DEF BeginPurge, bookkeeping, TenantInv, TenantTyped, CallsHold, DeletionHolds, PurgeHolds,
       EnsuredHolds, NoOrphans, HandedIsUsable, Rows, Processes, Evaluating, Ensuring, Purging
  <1>3. CASE DropDatabase
    <2>1. /\ pc["worker"] = "dropdb" /\ pc'["worker"] = "droprole"
          /\ \A q \in Processes : q # "worker" => pc'[q] = pc[q]
          /\ pc' \in [Processes -> {"idle", "mark"} \union Ensuring \union Purging]
      BY <1>3, StatementMoves DEF DropDatabase, Processes, Ensuring, Evaluating, Purging
    <2> QED
      BY <1>3, <2>1
         DEF DropDatabase, bookkeeping, TenantInv, TenantTyped, CallsHold, DeletionHolds, PurgeHolds,
       EnsuredHolds, NoOrphans, HandedIsUsable, Rows, Processes, Evaluating, Ensuring, Purging
  <1>4. CASE DropRole
    <2>1. /\ pc["worker"] = "droprole" /\ pc'["worker"] = "forget"
          /\ \A q \in Processes : q # "worker" => pc'[q] = pc[q]
          /\ pc' \in [Processes -> {"idle", "mark"} \union Ensuring \union Purging]
      BY <1>4, StatementMoves DEF DropRole, Processes, Ensuring, Evaluating, Purging
    <2> QED
      BY <1>4, <2>1
         DEF DropRole, bookkeeping, TenantInv, TenantTyped, CallsHold, DeletionHolds, PurgeHolds,
       EnsuredHolds, NoOrphans, HandedIsUsable, Rows, Processes, Evaluating, Ensuring, Purging
  <1>5. CASE ForgetRow
    <2>1. /\ pc["worker"] = "forget" /\ pc'["worker"] = "idle"
          /\ \A q \in Processes : q # "worker" => pc'[q] = pc[q]
          /\ pc' \in [Processes -> {"idle", "mark"} \union Ensuring \union Purging]
      BY <1>5, StatementMoves DEF ForgetRow, Processes, Ensuring, Evaluating, Purging
    <2>2. /\ row' = NoDatabase /\ due' = FALSE /\ handed' = FALSE
          /\ UNCHANGED <<role, password, db, readonly, level, job, seen, deleted>>
      BY <1>5 DEF ForgetRow
    <2>3. NoDatabase \in Rows /\ ~NoDatabase.there /\ ~NoDatabase.purge
      BY DEF NoDatabase, Rows
    <2>4. job # "apply" /\ role = "none" /\ db = "none" /\ pc'["reconcile"] = pc["reconcile"]
      BY <2>1 DEF TenantInv, DeletionHolds, PurgeHolds, Purging, Processes
    <2> QED
      BY <2>1, <2>2, <2>3, <2>4
         DEF TenantInv, TenantTyped, CallsHold, DeletionHolds, PurgeHolds,
       EnsuredHolds, NoOrphans, HandedIsUsable, Processes, Evaluating, Ensuring, Purging
  <1> QED
    BY <1>1, <1>2, <1>3, <1>4, <1>5 DEF PurgeStep

LEMMA EvaluationKeeps ==
  ASSUME TenantInv, NEW p \in Processes, EvaluateStep(p)
  PROVE  TenantInv'
  <1>1. CASE Measure(p)
    <2>1. /\ pc[p] = "evaluate" /\ pc'[p] = "readonly" /\ \A q \in Processes : q # p => pc'[q] = pc[q]
          /\ pc' \in [Processes -> {"idle", "mark"} \union Ensuring \union Purging]
      BY <1>1, StatementMoves DEF Measure, Ensuring, Evaluating
    <2> QED
      BY <1>1, <2>1
         DEF Measure, bookkeeping, TenantInv, TenantTyped, CallsHold, DeletionHolds, PurgeHolds,
       EnsuredHolds, NoOrphans, HandedIsUsable, Rows, Processes, Evaluating, Ensuring, Purging, Views, StateFor
  <1>2. CASE NothingToMeasure(p)
    <2>1. /\ pc[p] = "evaluate" /\ pc'[p] = "idle" /\ \A q \in Processes : q # p => pc'[q] = pc[q]
          /\ pc' \in [Processes -> {"idle", "mark"} \union Ensuring \union Purging]
      BY <1>2, StatementMoves DEF NothingToMeasure, Ensuring, Evaluating
    <2> QED
      BY <1>2, <2>1
         DEF NothingToMeasure, bookkeeping, TenantInv, TenantTyped, CallsHold, DeletionHolds, PurgeHolds,
       EnsuredHolds, NoOrphans, HandedIsUsable, Rows, Processes, Evaluating, Ensuring, Purging, Views, StateFor
  <1>3. CASE ApplyReadOnly(p)
    <2>1. /\ pc[p] = "readonly" /\ pc'[p] = "login" /\ \A q \in Processes : q # p => pc'[q] = pc[q]
          /\ pc' \in [Processes -> {"idle", "mark"} \union Ensuring \union Purging]
      BY <1>3, StatementMoves DEF ApplyReadOnly, Ensuring, Evaluating
    <2> QED
      BY <1>3, <2>1
         DEF ApplyReadOnly, bookkeeping, TenantInv, TenantTyped, CallsHold, DeletionHolds, PurgeHolds,
       EnsuredHolds, NoOrphans, HandedIsUsable, Rows, Processes, Evaluating, Ensuring, Purging, Views, StateFor
  <1>4. CASE ApplyLogin(p)
    <2>1. /\ pc[p] = "login" /\ pc'[p] = "record" /\ \A q \in Processes : q # p => pc'[q] = pc[q]
          /\ pc' \in [Processes -> {"idle", "mark"} \union Ensuring \union Purging]
      BY <1>4, StatementMoves DEF ApplyLogin, Ensuring, Evaluating
    <2> QED
      BY <1>4, <2>1
         DEF ApplyLogin, bookkeeping, TenantInv, TenantTyped, CallsHold, DeletionHolds, PurgeHolds,
       EnsuredHolds, NoOrphans, HandedIsUsable, Rows, Processes, Evaluating, Ensuring, Purging, Views, StateFor
  <1>5. CASE RecordState(p)
    <2>1. /\ pc[p] = "record" /\ pc'[p] = "idle" /\ \A q \in Processes : q # p => pc'[q] = pc[q]
          /\ pc' \in [Processes -> {"idle", "mark"} \union Ensuring \union Purging]
      BY <1>5, StatementMoves DEF RecordState, Ensuring, Evaluating
    <2>2. /\ seen[p] \in Views /\ row \in Rows
      BY DEF TenantInv, TenantTyped
    <2>3. /\ row' \in Rows /\ row'.there = row.there /\ row'.purge = row.purge
      <3>1. PICK sent \in BOOLEAN :
              row' = [row EXCEPT !.quota = StateFor(seen[p].level),
                                 !.warned = CASE seen[p].level = 0 -> 0 [] sent -> Crossed(seen[p].level)
                                              [] OTHER -> row.warned]
        BY <1>5, <2>2 DEF RecordState, Rows
      <3>2. seen[p].level \in Levels /\ row.warned \in 0 .. 3
        BY <2>2 DEF Views, Rows
      <3>3. /\ StateFor(seen[p].level) \in {"ok", "warned", "readonly", "blocked"}
            /\ Crossed(seen[p].level) \in 0 .. 3
        BY <3>2 DEF StateFor, Crossed, Levels
      <3>4. (CASE seen[p].level = 0 -> 0 [] sent -> Crossed(seen[p].level) [] OTHER -> row.warned) \in 0 .. 3
        BY <3>2, <3>3
      <3> QED
        BY <2>2, <3>1, <3>3, <3>4 DEF Rows
    <2>4. seen' \in [Processes -> Views]
      <3>1. NothingSeen \in Views
        BY DEF NothingSeen, Views, Levels
      <3> QED
        BY <1>5, <3>1 DEF RecordState, TenantInv, TenantTyped
    <2>5. /\ IF p = "reconcile" THEN handed' = TRUE /\ job' = "none" ELSE UNCHANGED <<handed, job>>
          /\ UNCHANGED <<role, password, db, readonly, level, due, deleted>>
      BY <1>5 DEF RecordState
    <2> QED
      BY <2>1, <2>3, <2>4, <2>5
         DEF TenantInv, TenantTyped, CallsHold, DeletionHolds, PurgeHolds,
       EnsuredHolds, NoOrphans, HandedIsUsable, Processes, Evaluating, Ensuring, Purging
  <1> QED
    BY <1>1, <1>2, <1>3, <1>4, <1>5 DEF EvaluateStep

LEMMA OthersKeep ==
  ASSUME TenantInv, \/ AskApply \/ AskDelete \/ GraceEnds \/ \E l \in Levels : Resize(l)
                    \/ \E p \in Processes : StatementFails(p)
  PROVE  TenantInv'
  <1>1. CASE AskApply
    BY <1>1
       DEF AskApply, bookkeeping, TenantInv, TenantTyped, CallsHold, DeletionHolds, PurgeHolds,
       EnsuredHolds, NoOrphans, HandedIsUsable, Rows, Processes, Evaluating, Ensuring, Purging
  <1>2. CASE AskDelete
    BY <1>2
       DEF AskDelete, bookkeeping, TenantInv, TenantTyped, CallsHold, DeletionHolds, PurgeHolds,
       EnsuredHolds, NoOrphans, HandedIsUsable, Rows, Processes, Evaluating, Ensuring, Purging
  <1>3. CASE GraceEnds
    BY <1>3
       DEF GraceEnds, bookkeeping, TenantInv, TenantTyped, CallsHold, DeletionHolds, PurgeHolds,
       EnsuredHolds, NoOrphans, HandedIsUsable, Rows, Processes, Evaluating, Ensuring, Purging
  <1>4. ASSUME NEW l \in Levels, Resize(l) PROVE TenantInv'
    BY <1>4
       DEF Resize, bookkeeping, TenantInv, TenantTyped, CallsHold, DeletionHolds, PurgeHolds,
       EnsuredHolds, NoOrphans, HandedIsUsable, Rows, Processes, Evaluating, Ensuring, Purging
  <1>5. ASSUME NEW p \in Processes, StatementFails(p) PROVE TenantInv'
    BY <1>5
       DEF StatementFails, bookkeeping, TenantInv, TenantTyped, CallsHold, DeletionHolds, PurgeHolds,
       EnsuredHolds, NoOrphans, HandedIsUsable, Rows, Processes, Evaluating, Ensuring, Purging, Views, NothingSeen, Levels
  <1> QED
    BY <1>1, <1>2, <1>3, <1>4, <1>5

LEMMA TenantInvariance == TenantSpec => []TenantInv
  <1>1. TenantInv /\ [TenantNext]_tenantVars => TenantInv'
    <2> SUFFICES ASSUME TenantInv, [TenantNext]_tenantVars PROVE TenantInv'
      OBVIOUS
    <2>1. CASE UNCHANGED tenantVars
      BY <2>1 DEF tenantVars, TenantInv, TenantTyped, CallsHold, DeletionHolds, PurgeHolds,
         EnsuredHolds, NoOrphans, HandedIsUsable
    <2>2. CASE TenantNext
      BY <2>2, ReconcilerKeeps, WorkerKeeps, EvaluationKeeps, OthersKeep DEF TenantNext
    <2> QED
      BY <2>1, <2>2
  <1> QED
    BY <1>1, TenantStarts, PTL DEF TenantSpec

\* However the reconciler and the housekeeping worker fall together, and
\* wherever either dies: nothing stands on the cluster without its row, what a
\* release was handed opens its database, and data is dropped only after its
\* deployment was deleted and its deadline passed
\* (relational_storage.ensure_database, purge_database).
THEOREM DatabasesStayTrue == TenantSpec => DatabasesHold
  <1>1. TenantInv => TenantTypeOK /\ NoOrphans /\ HandedIsUsable
    BY DEF TenantInv, TenantTyped, TenantTypeOK, Rows
  <1>2. TenantInv /\ [TenantNext]_tenantVars =>
          [/\ db # "none" /\ db' = "none" => row.purge /\ due
           /\ role # "none" /\ role' = "none" => row.purge /\ due /\ db = "none"]_tenantVars
    <2> SUFFICES ASSUME TenantInv, TenantNext
                 PROVE  /\ db # "none" /\ db' = "none" => row.purge /\ due
                        /\ role # "none" /\ role' = "none" => row.purge /\ due /\ db = "none"
      OBVIOUS
    <2>1. CASE DropDatabase
      BY <2>1 DEF DropDatabase, AtStatement, TenantInv, PurgeHolds, Purging
    <2>2. CASE DropRole
      BY <2>2 DEF DropRole, AtStatement, TenantInv, PurgeHolds, Purging
    <2>3. CASE ~DropDatabase /\ ~DropRole
      <3>1. (db' = db \/ db' # "none") /\ (role' = role \/ role' # "none")
        BY <2>3 DEF TenantNext, ReconcilerStep, PurgeStep, EvaluateStep, AskApply, AskDelete, GraceEnds,
           Resize, StatementFails, StorePassword, CreateRole, SetPassword, CreateDatabase,
           RevokePublicAccess, BeginSweep, Measure, NothingToMeasure, ApplyReadOnly, ApplyLogin,
           RecordState, RevokeLogin, SetDeadline, BeginPurge, ForgetRow
      <3> QED
        BY <3>1
    <2> QED
      BY <2>1, <2>2, <2>3
  <1> QED
    BY <1>1, <1>2, TenantInvariance, PTL DEF TenantSpec, DatabasesHold, OnlyDueIsDropped

-----------------------------------------------------------------------------
(* The bucket exporter *)

Below == {p \in Nat \X Nat : p[1] < p[2]}

\* A nonempty set of natural numbers has a least one.
LEMMA HasLeast ==
  ASSUME NEW S \in SUBSET Nat, S # {}
  PROVE  \E m \in S : \A k \in S : m <= k
<1>1. IsWellFoundedOn(Below, Nat)
  BY NatLessThanWellFounded DEF Below, OpToRel
<1>2. PICK m \in S : \A k \in S : <<k, m>> \notin Below
  BY <1>1, WFMin
<1>3. ASSUME NEW k \in S PROVE m <= k
  <2>1. k \in Nat /\ m \in Nat /\ <<k, m>> \in Nat \X Nat /\ <<k, m>>[1] = k /\ <<k, m>>[2] = m
    OBVIOUS
  <2>2. ~(k < m)
    BY <1>2, <2>1 DEF Below
  <2> QED
    BY <2>1, <2>2
<1> QED
  BY <1>3

Reads == [bucket : Buckets \union {-1}, from : NoSize .. MaxWrites, marked : BOOLEAN,
          dirty : SUBSET Buckets, dropped : SUBSET Buckets]

ExporterTyped ==
  /\ exists \subseteq Buckets /\ listed \subseteq Buckets /\ unread \subseteq Buckets /\ changed \subseteq listed
  /\ actual \in [Buckets -> NoSize .. MaxWrites] /\ size \in [Buckets -> NoSize .. MaxWrites]
  /\ reading \in Reads /\ changedTurn \in BOOLEAN /\ waited \in [Buckets -> Nat]

\* The buckets tried are in an order, of which tried[b] are those before b.
TriesAreOrdered ==
  /\ DOMAIN tried \subseteq listed
  /\ \A b \in DOMAIN tried :
       /\ tried[b] \subseteq DOMAIN tried \ {b}
       /\ \A c \in tried[b] : tried[c] \subseteq tried[b]
       /\ \A c \in DOMAIN tried \ {b} : c \in tried[b] \/ b \in tried[c]

\* c is read before b in plain order.
Precedes(c, b) ==
  IF b \in DOMAIN tried THEN c \notin DOMAIN tried \/ c \in tried[b]
                        ELSE c \notin DOMAIN tried /\ c < b

Ahead(b) == {c \in listed \ {b} : Precedes(c, b)}

\* The turns b may still have to wait: two for each bucket ahead of it, and one
\* if a changed bucket is next.
StillWaits(b) == 2 * Cardinality(Ahead(b)) + (IF changedTurn THEN 1 ELSE 0)

TurnsAreFair == \A b \in listed : waited[b] + StillWaits(b) < 2 * Cardinality(listed)

\* A write the last read may not have seen is ahead of the cursor or marked;
\* one since the read in progress began is marked so that the mark outlives it.
WritesHold ==
  \A b \in listed \union exists :
    /\ b \in dirty \ dropped => b \in unread \/ b \in changed
    /\ b = reading.bucket /\ b \in dirty \ dropped => b \in unread \/ (reading.marked /\ b \in changed)
    /\ b \in reading.dirty \ (reading.dropped \union dropped) => b \in unread \/ b \in changed

\* A bucket that was never made has not been written.
UnmadeIsUnwritten ==
  \A b \in Buckets : actual[b] = NoSize => b \notin exists \union dirty \union reading.dirty

ExporterInv == ExporterTyped /\ UnmadeIsUnwritten /\ TriesAreOrdered /\ TurnsAreFair /\ WritesHold

\* Sets of buckets are finite.
LEMMA BucketsFinite ==
  ASSUME NEW S \in SUBSET Buckets
  PROVE  IsFiniteSet(S) /\ Cardinality(S) \in Nat /\ S \in SUBSET Nat
  BY ExporterAssumption, FS_Subset, FS_CardinalityType

\* Of some buckets that have been tried, one was tried longest ago.
LEMMA SomeIsFirst ==
  ASSUME ExporterTyped, TriesAreOrdered, NEW S \in SUBSET DOMAIN tried, S # {}
  PROVE  \E b \in S : tried[b] \intersect S = {}
<1> DEFINE N(b) == Cardinality(tried[b])
           K == {n \in Nat : \E b \in S : N(b) = n}
<1>1. \A b \in S : tried[b] \in SUBSET Buckets /\ N(b) \in Nat
  BY BucketsFinite DEF TriesAreOrdered, ExporterTyped
<1>2. K \in SUBSET Nat /\ K # {}
  BY <1>1
<1>3. PICK m \in K : \A k \in K : m <= k
  <2> HIDE DEF K
  <2> QED
    BY <1>2, HasLeast
<1>4. PICK b \in S : N(b) = m
  OBVIOUS
<1>5. ASSUME NEW c \in tried[b], c \in S PROVE FALSE
  <2>1. tried[c] \in SUBSET tried[b] /\ c \notin tried[c]
    BY <1>5 DEF TriesAreOrdered
  <2>2. IsFiniteSet(tried[b]) /\ N(c) \in Nat /\ N(b) \in Nat
    BY <1>1, <1>5, BucketsFinite
  <2>3. N(c) <= N(b) /\ (N(b) = N(c) => tried[b] = tried[c])
    BY <2>1, <2>2, FS_Subset
  <2>4. N(c) < N(b)
    BY <2>1, <2>2, <2>3, <1>5
  <2>5. N(c) \in K
    BY <1>5, <2>2
  <2> QED
    BY <1>3, <1>4, <2>2, <2>4, <2>5
<1> QED
  BY <1>5

\* oldest takes, of some buckets, the one that is before all others.
LEMMA OldestIsFirst ==
  ASSUME ExporterTyped, TriesAreOrdered, NEW S \in SUBSET listed, S # {}
  PROVE  Oldest(S) \in S /\ \A c \in S \ {Oldest(S)} : Precedes(Oldest(S), c)
<1>1. CASE S \ DOMAIN tried # {}
  <2> DEFINE U == S \ DOMAIN tried
  <2>1. U \in SUBSET Nat /\ U # {}
    BY <1>1, BucketsFinite DEF ExporterTyped
  <2>2. Min(U) \in U /\ \A c \in U : Min(U) <= c
    <3> HIDE DEF U
    <3> QED
      BY <2>1, HasLeast DEF Min
  <2>3. Oldest(S) = Min(U)
    BY <1>1 DEF Oldest
  <2>4. \A c \in U \ {Min(U)} : Min(U) < c
    BY <2>1, <2>2
  <2> QED
    BY <2>2, <2>3, <2>4 DEF Precedes
<1>2. CASE S \ DOMAIN tried = {}
  <2>1. S \in SUBSET DOMAIN tried
    BY <1>2
  <2>2. Oldest(S) = CHOOSE b \in S : tried[b] \intersect S = {}
    BY <1>2 DEF Oldest
  <2>3. Oldest(S) \in S /\ tried[Oldest(S)] \intersect S = {}
    BY <2>1, <2>2, SomeIsFirst
  <2> QED
    BY <2>1, <2>3 DEF Precedes, TriesAreOrdered
<1> QED
  BY <1>1, <1>2

\* A bucket has at most all the others ahead of it.
LEMMA OthersAreFewer ==
  ASSUME NEW S \in SUBSET Buckets, NEW b \in S, NEW A \in SUBSET (S \ {b})
  PROVE  /\ IsFiniteSet(A) /\ Cardinality(A) \in Nat /\ Cardinality(S) \in Nat
         /\ Cardinality(A) < Cardinality(S)
<1>1. IsFiniteSet(S) /\ Cardinality(S) \in Nat
  BY BucketsFinite
<1>2. IsFiniteSet(S \ {b}) /\ Cardinality(S \ {b}) = Cardinality(S) - 1
  BY <1>1, FS_RemoveElement
<1>3. IsFiniteSet(A) /\ Cardinality(A) <= Cardinality(S \ {b})
  BY <1>2, FS_Subset
<1> QED
  BY <1>1, <1>2, <1>3, FS_CardinalityType

\* The bucket whose turn it is goes to the end; nobody gets behind anybody.
LEMMA ReadOrders ==
  ASSUME ExporterInv, BeginRead
  PROVE  /\ NextBucket \in listed
         /\ TriesAreOrdered'
         /\ \A c \in listed \ {NextBucket} : Ahead(c)' \subseteq Ahead(c) \ {NextBucket}
         /\ ~ changedTurn => \A c \in listed \ {NextBucket} : NextBucket \in Ahead(c)
<1> DEFINE b == NextBucket
           hot == IF changedTurn /\ activityOK THEN changed \intersect listed ELSE {}
<1>1. listed # {} /\ hot \in SUBSET listed /\ listed' = listed
  BY DEF BeginRead
<1>2. b \in listed /\ (hot = {} => \A c \in listed \ {b} : Precedes(b, c))
  <2>1. CASE hot # {}
    <3>1. b = Oldest(hot)
      BY <2>1 DEF NextBucket
    <3> HIDE DEF hot, b
    <3> QED
      BY <1>1, <2>1, <3>1, OldestIsFirst DEF ExporterInv
  <2>2. CASE hot = {}
    <3>1. b = Oldest(listed)
      BY <2>2 DEF NextBucket
    <3> HIDE DEF hot, b
    <3> QED
      BY <1>1, <2>2, <3>1, OldestIsFirst DEF ExporterInv
  <2> QED
    BY <2>1, <2>2
<1>3. tried' = [c \in DOMAIN tried \union {b} |-> (IF c = b THEN DOMAIN tried ELSE tried[c]) \ {b}]
  BY DEF BeginRead
<1>4. ~ changedTurn => hot = {}
  OBVIOUS
<1> HIDE DEF hot, b
<1>5. /\ DOMAIN tried' = DOMAIN tried \union {b} /\ tried'[b] = DOMAIN tried \ {b}
      /\ \A c \in DOMAIN tried \ {b} : tried'[c] = tried[c] \ {b}
  BY <1>3
<1>6. TriesAreOrdered'
  <2>1. DOMAIN tried' \subseteq listed'
    BY <1>1, <1>2, <1>5 DEF ExporterInv, TriesAreOrdered
  <2>2. ASSUME NEW x \in DOMAIN tried'
        PROVE  /\ tried'[x] \subseteq DOMAIN tried' \ {x}
               /\ \A c \in tried'[x] : tried'[c] \subseteq tried'[x]
               /\ \A c \in DOMAIN tried' \ {x} : c \in tried'[x] \/ x \in tried'[c]
    BY <1>5, <2>2 DEF ExporterInv, TriesAreOrdered
  <2> QED
    BY <2>1, <2>2 DEF TriesAreOrdered
<1>7. \A c \in listed \ {b} : Ahead(c)' \subseteq Ahead(c) \ {b}
  BY <1>1, <1>5 DEF Ahead, Precedes
<1>8. hot = {} => \A c \in listed \ {b} : b \in Ahead(c)
  BY <1>2 DEF Ahead
<1> QED
  BY <1>2, <1>4, <1>6, <1>7, <1>8 DEF b

\* Each turn that passes b over is a changed bucket's, or shortens its queue.
LEMMA ReadIsFair ==
  ASSUME ExporterInv, BeginRead
  PROVE  TurnsAreFair'
<1> DEFINE b == NextBucket
           T == IF changedTurn THEN 1 ELSE 0
           N == Cardinality(listed)
<1>1. /\ b \in listed /\ \A c \in listed \ {b} : Ahead(c)' \subseteq Ahead(c) \ {b}
      /\ ~ changedTurn => \A c \in listed \ {b} : b \in Ahead(c)
  BY ReadOrders
<1>2. /\ listed' = listed /\ changedTurn' = ~ changedTurn
      /\ waited' = [c \in Buckets |-> IF c = b \/ c \notin listed THEN 0 ELSE waited[c] + 1]
  BY DEF BeginRead
<1>3. listed \in SUBSET Buckets /\ waited \in [Buckets -> Nat] /\ changedTurn \in BOOLEAN
  BY DEF ExporterInv, ExporterTyped
<1> HIDE DEF b
<1>4. ASSUME NEW c \in listed
      PROVE  waited'[c] + StillWaits(c)' < 2 * N
  <2> DEFINE before == Cardinality(Ahead(c))
             after == Cardinality(Ahead(c)')
             T2 == IF changedTurn' THEN 1 ELSE 0
  <2>0. StillWaits(c)' = 2 * after + T2 /\ StillWaits(c) = 2 * before + T
    BY DEF StillWaits
  <2>1. Ahead(c)' \in SUBSET (listed \ {c}) /\ Ahead(c) \in SUBSET (listed \ {c})
    BY <1>2 DEF Ahead
  <2>2. before \in Nat /\ after \in Nat /\ N \in Nat /\ after < N /\ IsFiniteSet(Ahead(c))
    BY <1>3, <2>1, OthersAreFewer
  <2>3. T \in {0, 1} /\ T2 = 1 - T
    <3>1. CASE changedTurn
      <4>1. ~ changedTurn'
        BY <1>2, <3>1
      <4> QED
        BY <3>1, <4>1
    <3>2. CASE ~ changedTurn
      <4>1. changedTurn'
        BY <1>2, <3>2
      <4> QED
        BY <3>2, <4>1
    <3> QED
      BY <3>1, <3>2
  <2>4. CASE c = b
    <3>1. waited'[c] = 0
      BY <1>2, <1>3, <2>4
    <3> HIDE DEF after, N, T, T2
    <3> QED
      BY <2>0, <2>2, <2>3, <3>1
  <2>5. CASE c # b
    <3>1. waited'[c] = waited[c] + 1 /\ waited[c] \in Nat
      BY <1>2, <1>3, <2>5
    <3>2. waited[c] + StillWaits(c) < 2 * N
      BY DEF ExporterInv, TurnsAreFair
    <3>3. IsFiniteSet(Ahead(c) \ {b})
          /\ Cardinality(Ahead(c) \ {b}) = IF b \in Ahead(c) THEN before - 1 ELSE before
      BY <2>2, FS_RemoveElement
    <3>4. after <= Cardinality(Ahead(c) \ {b})
      BY <1>1, <2>5, <3>3, FS_Subset
    <3>5. T = 0 => b \in Ahead(c)
      BY <1>1, <2>5
    <3>6. after <= before /\ (T = 0 => after <= before - 1)
      <4> HIDE DEF after, before, T
      <4> QED
        BY <2>2, <3>3, <3>4, <3>5
    <3> HIDE DEF after, before, N, T, T2
    <3> QED
      BY <2>0, <2>2, <2>3, <3>1, <3>2, <3>6
  <2> QED
    BY <2>4, <2>5
<1> QED
  BY <1>2, <1>4 DEF TurnsAreFair

\* When the turns, the list and what was tried stay, so does their fairness.
LEMMA OrderKept ==
  ASSUME ExporterInv, UNCHANGED <<listed, tried, changedTurn, waited>>
  PROVE  TriesAreOrdered' /\ TurnsAreFair'
<1>1. TriesAreOrdered'
  BY DEF ExporterInv, TriesAreOrdered
<1>2. \A c \in listed : Ahead(c)' = Ahead(c)
  BY DEF Ahead, Precedes
<1>3. TurnsAreFair'
  BY <1>2 DEF ExporterInv, TurnsAreFair, StillWaits
<1> QED
  BY <1>1, <1>3

\* A new list starts every wait again and keeps the order.
LEMMA ListOrders ==
  ASSUME ExporterInv, NEW present \in SUBSET Buckets, SetBuckets(present), UNCHANGED changedTurn
  PROVE  /\ TriesAreOrdered' /\ TurnsAreFair' /\ listed' = present
         /\ waited' \in [Buckets -> Nat] /\ size' \in [Buckets -> NoSize .. MaxWrites]
<1>1. /\ listed' = present /\ tried' = [b \in DOMAIN tried \intersect present |-> tried[b] \intersect present]
      /\ waited' = IF present = listed THEN waited ELSE [b \in Buckets |-> 0]
  BY DEF SetBuckets
<1>2. waited \in [Buckets -> Nat] /\ size \in [Buckets -> NoSize .. MaxWrites] /\ listed \in SUBSET Buckets
      /\ changedTurn \in BOOLEAN /\ MaxWrites \in Nat
  BY ExporterAssumption DEF ExporterInv, ExporterTyped
<1>3. waited' \in [Buckets -> Nat]
  BY <1>1, <1>2
<1>4. size' \in [Buckets -> NoSize .. MaxWrites]
  BY <1>2 DEF SetBuckets, NoSize
<1>5. /\ DOMAIN tried' = DOMAIN tried \intersect present
      /\ \A b \in DOMAIN tried' : tried'[b] = tried[b] \intersect present
  BY <1>1
<1>6. TriesAreOrdered'
  BY <1>1, <1>5 DEF ExporterInv, TriesAreOrdered
<1>7. ASSUME NEW c \in present PROVE waited'[c] + StillWaits(c)' < 2 * Cardinality(present)
  <2>1. Ahead(c)' \in SUBSET (present \ {c})
    BY <1>1 DEF Ahead
  <2>2. Cardinality(Ahead(c)') \in Nat /\ Cardinality(present) \in Nat /\ Cardinality(Ahead(c)') < Cardinality(present)
    BY <2>1, OthersAreFewer
  <2>3. CASE present = listed
    <3>1. DOMAIN tried' = DOMAIN tried /\ \A b \in DOMAIN tried : tried'[b] = tried[b]
      BY <1>5, <2>3 DEF ExporterInv, TriesAreOrdered
    <3>2. Ahead(c)' = Ahead(c)
      BY <1>1, <2>3, <3>1 DEF Ahead, Precedes
    <3>3. waited[c] + StillWaits(c) < 2 * Cardinality(listed)
      BY <2>3 DEF ExporterInv, TurnsAreFair
    <3> QED
      BY <1>1, <2>3, <3>2, <3>3 DEF StillWaits
  <2>4. CASE present # listed
    <3>1. waited'[c] = 0
      BY <1>1, <2>4
    <3> QED
      BY <1>2, <2>2, <3>1 DEF StillWaits
  <2> QED
    BY <2>3, <2>4
<1>8. TurnsAreFair'
  BY <1>1, <1>7 DEF TurnsAreFair
<1> QED
  BY <1>1, <1>3, <1>4, <1>6, <1>8

LEMMA ExporterStarts == ExporterInit => ExporterInv
<1> SUFFICES ASSUME ExporterInit PROVE ExporterInv
  OBVIOUS
<1>1. MaxWrites \in Nat /\ NoSize = -1
  BY ExporterAssumption DEF NoSize
<1>2. NotReading \in Reads
  BY <1>1 DEF NotReading, Reads
<1>3. ExporterTyped
  BY <1>1, <1>2 DEF ExporterInit, ExporterTyped
<1>4. TriesAreOrdered
  BY DEF ExporterInit, TriesAreOrdered, NoneTried
<1>5. TurnsAreFair
  BY DEF ExporterInit, TurnsAreFair
<1>6. WritesHold
  BY DEF ExporterInit, WritesHold, NotReading
<1>7. UnmadeIsUnwritten
  BY <1>1 DEF ExporterInit, UnmadeIsUnwritten, NotReading
<1> QED
  BY <1>3, <1>4, <1>5, <1>6, <1>7 DEF ExporterInv

LEMMA GarageKeeps ==
  ASSUME ExporterInv, NEW b \in Buckets, WriteObject(b) \/ ChangeBuckets(b)
  PROVE  ExporterInv'
<1>1. UNCHANGED <<listed, tried, changedTurn, waited, reading, size, changed, dropped>>
  BY DEF WriteObject, ChangeBuckets
<1>2. TriesAreOrdered' /\ TurnsAreFair'
  BY <1>1, OrderKept
<1>3. MaxWrites \in Nat /\ NoSize = -1
  BY ExporterAssumption DEF NoSize
<1>4. CASE WriteObject(b)
  <2>1. /\ b \in exists /\ actual[b] < MaxWrites /\ actual' = [actual EXCEPT ![b] = actual[b] + 1]
        /\ unread' = unread \union {b} /\ dirty' = dirty \union {b} /\ exists' = exists
    BY <1>4 DEF WriteObject
  <2>2. actual[b] + 1 \in 0 .. MaxWrites /\ actual[b] # NoSize
    BY <1>3, <2>1 DEF ExporterInv, ExporterTyped, UnmadeIsUnwritten
  <2>3. actual' \in [Buckets -> NoSize .. MaxWrites]
    BY <1>3, <2>1, <2>2 DEF ExporterInv, ExporterTyped
  <2>4. ExporterTyped'
    BY <1>1, <2>1, <2>3 DEF ExporterInv, ExporterTyped
  <2>5. WritesHold'
    BY <1>1, <2>1 DEF ExporterInv, WritesHold
  <2>6. UnmadeIsUnwritten'
    <3>1. \A x \in Buckets : actual'[x] = NoSize => actual[x] = NoSize /\ x # b
      BY <1>3, <2>1, <2>2 DEF ExporterInv, ExporterTyped
    <3> QED
      BY <1>1, <2>1, <3>1 DEF ExporterInv, UnmadeIsUnwritten
  <2> QED
    BY <1>2, <2>4, <2>5, <2>6 DEF ExporterInv
<1>5. CASE ChangeBuckets(b)
  <2>1. UNCHANGED <<unread, dirty>>
    BY <1>5 DEF ChangeBuckets
  <2>2. CASE exists' = exists \ {b} /\ actual' = actual
    <3>1. ExporterTyped' /\ UnmadeIsUnwritten'
      BY <1>1, <2>1, <2>2 DEF ExporterInv, ExporterTyped, UnmadeIsUnwritten
    <3>2. WritesHold'
      BY <1>1, <2>1, <2>2 DEF ExporterInv, WritesHold
    <3> QED
      BY <1>2, <3>1, <3>2 DEF ExporterInv
  <2>3. CASE actual[b] = NoSize /\ exists' = exists \union {b} /\ actual' = [actual EXCEPT ![b] = 0]
    <3>1. actual' \in [Buckets -> NoSize .. MaxWrites]
      BY <1>3, <2>3 DEF ExporterInv, ExporterTyped
    <3>2. \A x \in Buckets : actual'[x] = NoSize => actual[x] = NoSize /\ x # b
      BY <1>3, <2>3 DEF ExporterInv, ExporterTyped
    <3>3. ExporterTyped' /\ UnmadeIsUnwritten'
      BY <1>1, <2>1, <2>3, <3>1, <3>2 DEF ExporterInv, ExporterTyped, UnmadeIsUnwritten
    <3>4. b \notin dirty \union reading.dirty
      BY <2>3 DEF ExporterInv, UnmadeIsUnwritten
    <3>5. WritesHold'
      BY <1>1, <2>1, <2>3, <3>4 DEF ExporterInv, WritesHold
    <3> QED
      BY <1>2, <3>3, <3>5 DEF ExporterInv
  <2> QED
    BY <1>5, <2>2, <2>3 DEF ChangeBuckets
<1> QED
  BY <1>4, <1>5

LEMMA BeginReadKeeps == ExporterInv /\ BeginRead => ExporterInv'
<1> SUFFICES ASSUME ExporterInv, BeginRead PROVE ExporterInv'
  OBVIOUS
<1> DEFINE b == NextBucket
           new == [bucket |-> b, from |-> actual[b], marked |-> FALSE,
                   dirty |-> dirty \intersect {b}, dropped |-> dropped \intersect {b}]
<1>1. b \in listed /\ TriesAreOrdered' /\ TurnsAreFair'
  BY ReadOrders, ReadIsFair
<1>2. /\ reading' = new /\ dirty' = dirty \ {b} /\ dropped' = dropped \ {b} /\ changedTurn' = ~ changedTurn
      /\ waited' = [c \in Buckets |-> IF c = b \/ c \notin listed THEN 0 ELSE waited[c] + 1]
      /\ UNCHANGED <<exists, actual, unread, listed, size, changed>>
  BY DEF BeginRead
<1> HIDE DEF b
<1>3. new.bucket = b /\ new.dirty = dirty \intersect {b} /\ new.dropped = dropped \intersect {b}
  OBVIOUS
<1>4. new \in Reads /\ waited' \in [Buckets -> Nat]
  BY <1>1, <1>2 DEF ExporterInv, ExporterTyped, Reads
<1> HIDE DEF new
<1>5. ExporterTyped'
  BY <1>2, <1>4 DEF ExporterInv, ExporterTyped
<1>6. UnmadeIsUnwritten'
  BY <1>2, <1>3 DEF ExporterInv, UnmadeIsUnwritten
<1>7. WritesHold'
  BY <1>2, <1>3 DEF ExporterInv, WritesHold
<1> QED
  BY <1>1, <1>5, <1>6, <1>7 DEF ExporterInv

LEMMA EndReadKeeps == ExporterInv /\ (FinishRead \/ FailRead) => ExporterInv'
<1> SUFFICES ASSUME ExporterInv, FinishRead \/ FailRead PROVE ExporterInv'
  OBVIOUS
<1> DEFINE b == reading.bucket
<1>1. /\ UNCHANGED <<exists, actual, unread, listed, tried, changedTurn, waited>>
      /\ reading' = NotReading
  BY DEF FinishRead, FailRead
<1>2. TriesAreOrdered' /\ TurnsAreFair'
  BY <1>1, OrderKept
<1>3. MaxWrites \in Nat /\ NoSize = -1
  BY ExporterAssumption DEF NoSize
<1>4. NotReading \in Reads /\ NotReading.bucket \notin Buckets /\ NotReading.dirty = {}
  BY <1>3, ExporterAssumption DEF NotReading, Reads
<1>5. CASE FinishRead
  <2>1. b \in exists /\ UNCHANGED <<dirty, dropped>> /\ reading \in Reads /\ b \in Buckets
        /\ reading.from \in NoSize .. MaxWrites
    BY <1>5 DEF FinishRead, ExporterInv, ExporterTyped, Reads
  <2>2. changed' = changed \/ (~ reading.marked /\ changed' = changed \ {b})
    BY <1>5 DEF FinishRead
  <2>3. size' \in [Buckets -> NoSize .. MaxWrites]
    <3>1. CASE size' = size
      BY <3>1 DEF ExporterInv, ExporterTyped
    <3>2. CASE \E v \in reading.from .. actual[b] : size' = [size EXCEPT ![b] = v]
      <4>1. PICK v \in reading.from .. actual[b] : size' = [size EXCEPT ![b] = v]
        BY <3>2
      <4>2. v \in NoSize .. MaxWrites
        BY <1>3, <2>1, <4>1 DEF ExporterInv, ExporterTyped
      <4> QED
        BY <4>1, <4>2 DEF ExporterInv, ExporterTyped
    <3> QED
      BY <1>5, <3>1, <3>2 DEF FinishRead
  <2>4. ExporterTyped'
    BY <1>1, <1>4, <2>2, <2>3 DEF ExporterInv, ExporterTyped
  <2>5. UnmadeIsUnwritten'
    BY <1>1, <1>4, <2>1 DEF ExporterInv, UnmadeIsUnwritten
  <2>6. WritesHold'
    <3>1. \A x \in listed \union exists : x \in dirty \ dropped => x \in unread \/ x \in changed'
      BY <2>2 DEF ExporterInv, WritesHold
    <3>2. \A x \in listed \union exists : x # NotReading.bucket
      BY <1>4 DEF ExporterInv, ExporterTyped
    <3> QED
      BY <1>1, <1>4, <2>1, <3>1, <3>2 DEF WritesHold
  <2> QED
    BY <1>2, <2>4, <2>5, <2>6 DEF ExporterInv
<1>6. CASE FailRead
  <2>1. UNCHANGED <<size, changed>> /\ dirty' = dirty \union reading.dirty /\ dropped' = dropped \union reading.dropped
    BY <1>6 DEF FailRead
  <2>2. ExporterTyped'
    BY <1>1, <1>4, <2>1 DEF ExporterInv, ExporterTyped
  <2>3. UnmadeIsUnwritten'
    BY <1>1, <1>4, <2>1 DEF ExporterInv, UnmadeIsUnwritten
  <2>4. WritesHold'
    <3>1. \A x \in listed \union exists : x \in dirty' \ dropped' => x \in unread \/ x \in changed
      BY <2>1 DEF ExporterInv, WritesHold
    <3>2. \A x \in listed \union exists : x # NotReading.bucket
      BY <1>4 DEF ExporterInv, ExporterTyped
    <3> QED
      BY <1>1, <1>4, <2>1, <3>1, <3>2 DEF WritesHold
  <2> QED
    BY <1>2, <2>2, <2>3, <2>4 DEF ExporterInv
<1> QED
  BY <1>5, <1>6

\* A mark is made of every write the cursor passes and the last read may have
\* missed, so that whatever of it the list still has stays marked.
LEMMA MarksHold ==
  ASSUME ExporterInv, NEW left \in SUBSET unread, NEW names \in SUBSET unread, names \union left = unread,
         listed' \in {listed, exists}, unread' = left, MarkWritten(names, left),
         dropped' = dropped \union (names \ listed'), UNCHANGED <<exists, actual, dirty>>
  PROVE  /\ reading' \in Reads /\ changed' \in SUBSET listed' /\ unread' \in SUBSET Buckets
         /\ WritesHold' /\ UnmadeIsUnwritten'
<1> DEFINE sure == (names \ left) \intersect (dirty \union reading.dirty)
<1>1. PICK marks \in SUBSET (names \intersect listed'), during \in BOOLEAN :
        /\ sure \intersect listed' \subseteq marks
        /\ changed' = (changed \intersect listed') \union marks
        /\ during => reading.bucket \in marks
        /\ reading.bucket \in (sure \intersect dirty) => during
        /\ reading' = [reading EXCEPT !.marked = reading.marked \/ during]
  BY DEF MarkWritten
<1>2. reading \in Reads
  BY DEF ExporterInv, ExporterTyped
<1>3. /\ reading' \in Reads /\ reading'.marked = (reading.marked \/ during)
      /\ reading'.bucket = reading.bucket /\ reading'.dirty = reading.dirty /\ reading'.dropped = reading.dropped
  <2>1. reading.marked \in BOOLEAN /\ (reading.marked \/ during) \in BOOLEAN
    BY <1>2 DEF Reads
  <2> QED
    BY <1>1, <1>2, <2>1 DEF Reads
<1>4. changed' \in SUBSET listed' /\ unread' \in SUBSET Buckets
  BY <1>1 DEF ExporterInv, ExporterTyped
<1>5. UnmadeIsUnwritten'
  BY <1>3 DEF ExporterInv, UnmadeIsUnwritten
<1>6. ASSUME NEW x \in listed' \union exists
      PROVE  /\ x \in dirty \ dropped' => x \in left \/ x \in changed'
             /\ x = reading.bucket /\ x \in dirty \ dropped' => x \in left \/ (reading'.marked /\ x \in changed')
             /\ x \in reading.dirty \ (reading.dropped \union dropped') => x \in left \/ x \in changed'
  <2>1. x \in listed \union exists
    OBVIOUS
  <2>2. CASE x \in names
    <3>1. x \in listed' \/ x \in dropped'
      BY <2>2
    <3>2. x \in dirty \union reading.dirty => x \in left \/ x \in marks \/ x \in dropped'
      BY <1>1, <2>2, <3>1
    <3>3. x = reading.bucket /\ x \in dirty \ dropped' => x \in left \/ (during /\ x \in marks)
      BY <1>1, <2>2, <3>1
    <3> QED
      BY <1>1, <1>3, <3>2, <3>3
  <2>3. CASE x \notin names
    <3>1. x \in unread => x \in left
      BY <2>3
    <3>2. x \in changed => x \in changed'
      BY <1>1 DEF ExporterInv, ExporterTyped
    <3> QED
      BY <1>3, <2>1, <3>1, <3>2 DEF ExporterInv, WritesHold
  <2> QED
    BY <2>2, <2>3
<1>7. WritesHold'
  BY <1>3, <1>6 DEF WritesHold
<1> QED
  BY <1>3, <1>4, <1>5, <1>7

LEMMA RefreshKeeps ==
  ASSUME ExporterInv, NEW keep \in BOOLEAN, Refresh1(keep)
  PROVE  ExporterInv'
<1>1. UNCHANGED <<exists, actual, changedTurn, dirty>>
  BY DEF Refresh1
<1>2. /\ TriesAreOrdered' /\ TurnsAreFair' /\ listed' \in {listed, exists}
      /\ waited' \in [Buckets -> Nat] /\ size' \in [Buckets -> NoSize .. MaxWrites]
  <2>1. CASE keep
    <3>1. UNCHANGED <<listed, tried, size, waited>>
      BY <2>1 DEF Refresh1, KeepBuckets
    <3> QED
      BY <1>1, <3>1, OrderKept DEF ExporterInv, ExporterTyped
  <2>2. CASE ~ keep
    <3>1. SetBuckets(exists) /\ exists \in SUBSET Buckets
      BY <2>2 DEF Refresh1, ExporterInv, ExporterTyped
    <3> QED
      BY <1>1, <3>1, ListOrders
  <2> QED
    BY <2>1, <2>2
<1>3. PICK left \in SUBSET unread, names \in SUBSET unread :
        /\ names \union left = unread /\ unread' = left
        /\ MarkWritten(names, left) /\ dropped' = dropped \union (names \ listed')
  <2>1. PICK left \in SUBSET unread : \E names \in {n \in SUBSET unread : n \union left = unread} :
          /\ unread' = left /\ MarkWritten(names, left) /\ dropped' = dropped \union (names \ listed')
    BY DEF Refresh1
  <2> QED
    BY <2>1
<1>4. /\ reading' \in Reads /\ changed' \in SUBSET listed' /\ unread' \in SUBSET Buckets
      /\ WritesHold' /\ UnmadeIsUnwritten'
  BY <1>1, <1>2, <1>3, MarksHold
<1>5. ExporterTyped'
  BY <1>1, <1>2, <1>4 DEF ExporterInv, ExporterTyped
<1> QED
  BY <1>2, <1>4, <1>5 DEF ExporterInv

LEMMA SignalKeeps == ExporterInv /\ RefreshSignalFails => ExporterInv'
<1> SUFFICES ASSUME ExporterInv, RefreshSignalFails PROVE ExporterInv'
  OBVIOUS
<1>1. /\ SetBuckets(exists) /\ UNCHANGED <<exists, actual, reading, changedTurn, dirty>>
      /\ changed' = changed \intersect exists /\ exists \in SUBSET Buckets
      /\ (unread' = unread /\ dropped' = dropped) \/ (unread' = {} /\ dropped' = dropped \union unread)
  BY DEF RefreshSignalFails, ExporterInv, ExporterTyped
<1>2. /\ TriesAreOrdered' /\ TurnsAreFair' /\ listed' = exists
      /\ waited' \in [Buckets -> Nat] /\ size' \in [Buckets -> NoSize .. MaxWrites]
  BY <1>1, ListOrders
<1>3. ExporterTyped'
  BY <1>1, <1>2 DEF ExporterInv, ExporterTyped
<1>4. UnmadeIsUnwritten'
  BY <1>1 DEF ExporterInv, UnmadeIsUnwritten
<1>5. WritesHold'
  BY <1>1, <1>2 DEF ExporterInv, WritesHold
<1> QED
  BY <1>2, <1>3, <1>4, <1>5 DEF ExporterInv

LEMMA RestartsAfresh == ExporterInv /\ ExporterRestart => ExporterInv'
<1> SUFFICES ASSUME ExporterInv, ExporterRestart PROVE ExporterInv'
  OBVIOUS
<1>1. PICK seeded \in {{}, {b \in Buckets : size[b] # NoSize}} :
        /\ listed' = seeded
        /\ size' = [b \in Buckets |-> IF b \in seeded THEN size[b] ELSE NoSize]
  BY DEF ExporterRestart
<1>2. /\ tried' = NoneTried /\ changed' = {} /\ reading' = NotReading /\ changedTurn' = TRUE
      /\ dropped' = dropped \union unread \union dirty /\ unread' = {}
      /\ waited' = [b \in Buckets |-> 0] /\ UNCHANGED <<exists, actual, dirty>>
  BY DEF ExporterRestart
<1>3. MaxWrites \in Nat /\ NoSize = -1
  BY ExporterAssumption DEF NoSize
<1>4. NotReading \in Reads /\ NotReading.bucket \notin Buckets /\ NotReading.dirty = {}
  BY <1>3, ExporterAssumption DEF NotReading, Reads
<1>5. size' \in [Buckets -> NoSize .. MaxWrites] /\ waited' \in [Buckets -> Nat] /\ listed' \in SUBSET Buckets
  BY <1>1, <1>2, <1>3 DEF ExporterInv, ExporterTyped
<1>6. ExporterTyped'
  BY <1>2, <1>4, <1>5 DEF ExporterInv, ExporterTyped
<1>7. TriesAreOrdered' /\ DOMAIN tried' = {}
  BY <1>2 DEF TriesAreOrdered, NoneTried
<1>8. TurnsAreFair'
  <2>1. ASSUME NEW c \in listed' PROVE waited'[c] + StillWaits(c)' < 2 * Cardinality(listed')
    <3>1. Ahead(c)' \in SUBSET (listed' \ {c})
      BY DEF Ahead
    <3>2. Cardinality(Ahead(c)') \in Nat /\ Cardinality(listed') \in Nat /\ Cardinality(Ahead(c)') < Cardinality(listed')
      BY <1>5, <3>1, OthersAreFewer
    <3>3. waited'[c] = 0 /\ StillWaits(c)' = 2 * Cardinality(Ahead(c)') + 1
      BY <1>2, <1>5 DEF StillWaits
    <3> QED
      BY <3>2, <3>3
  <2> QED
    BY <2>1 DEF TurnsAreFair
<1>9. UnmadeIsUnwritten'
  BY <1>2, <1>4 DEF ExporterInv, UnmadeIsUnwritten
<1>10. WritesHold'
  BY <1>2, <1>4 DEF WritesHold
<1> QED
  BY <1>6, <1>7, <1>8, <1>9, <1>10 DEF ExporterInv

LEMMA ExporterInvariance == ExporterSpec => []ExporterInv
<1>1. ExporterInv /\ [ExporterNext]_exporterVars => ExporterInv'
  <2> SUFFICES ASSUME ExporterInv, [ExporterNext]_exporterVars PROVE ExporterInv'
    OBVIOUS
  <2>1. ASSUME NEW b \in Buckets, WriteObject(b) \/ ChangeBuckets(b) PROVE ExporterInv'
    BY <2>1, GarageKeeps
  <2>2. CASE BeginRead
    BY <2>2, BeginReadKeeps
  <2>3. CASE FinishRead \/ FailRead
    BY <2>3, EndReadKeeps
  <2>4. CASE RefreshBuckets
    BY <2>4, RefreshKeeps DEF RefreshBuckets
  <2>5. CASE RefreshListFails
    BY <2>5, RefreshKeeps DEF RefreshListFails
  <2>6. CASE RefreshSignalFails
    BY <2>6, SignalKeeps
  <2>7. CASE ExporterRestart
    BY <2>7, RestartsAfresh
  <2>8. CASE UNCHANGED exporterVars
    <3>1. UNCHANGED <<exists, actual, unread, listed, tried, size, changed, reading, changedTurn, dirty, dropped, waited>>
      BY <2>8 DEF exporterVars
    <3>2. TriesAreOrdered' /\ TurnsAreFair'
      BY <3>1, OrderKept
    <3>3. ExporterTyped' /\ UnmadeIsUnwritten' /\ WritesHold'
      BY <3>1 DEF ExporterInv, ExporterTyped, UnmadeIsUnwritten, WritesHold
    <3> QED
      BY <3>2, <3>3 DEF ExporterInv
  <2> QED
    BY <2>1, <2>2, <2>3, <2>4, <2>5, <2>6, <2>7, <2>8 DEF ExporterNext
<1> QED
  BY <1>1, ExporterStarts, PTL DEF ExporterSpec

\* Published sizes keep up: however buckets are written, made and removed, and
\* however reads, lists and the log fail, no bucket waits for longer than two
\* turns for each on the list (State.Next), and a write that the last read may
\* not have seen is ahead of the log's cursor or marked, unless the exporter
\* itself dropped the mark (MarkWritten, Read).
THEOREM SizesStayCurrent == ExporterSpec => []SizesKeepUp
<1>1. ExporterInv => SizesKeepUp
  <2> SUFFICES ASSUME ExporterInv PROVE SizesKeepUp
    OBVIOUS
  <2>1. ExporterTypeOK
    BY DEF ExporterInv, ExporterTyped, TriesAreOrdered, ExporterTypeOK, Reads
  <2>2. NoBucketStarves
    <3>1. ASSUME NEW b \in listed PROVE waited[b] < 2 * Cardinality(listed)
      <4>1. Ahead(b) \in SUBSET (listed \ {b}) /\ listed \in SUBSET Buckets /\ waited[b] \in Nat
        BY DEF Ahead, ExporterInv, ExporterTyped
      <4>2. Cardinality(Ahead(b)) \in Nat /\ Cardinality(listed) \in Nat
        BY <4>1, OthersAreFewer
      <4>3. waited[b] + StillWaits(b) < 2 * Cardinality(listed)
        BY DEF ExporterInv, TurnsAreFair
      <4>4. StillWaits(b) \in Nat
        BY <4>2 DEF StillWaits
      <4> QED
        BY <4>1, <4>2, <4>3, <4>4
    <3> QED
      BY <3>1 DEF NoBucketStarves
  <2>3. WritesAreMarked
    BY DEF ExporterInv, WritesHold, WritesAreMarked
  <2> QED
    BY <2>1, <2>2, <2>3 DEF SizesKeepUp
<1> QED
  BY <1>1, ExporterInvariance, PTL

-----------------------------------------------------------------------------
(* The catalog *)

IsFunction(f) == f = [i \in DOMAIN f |-> f[i]]

\* A table of products, one of templates; ids begin at 1.
IsProducts(rows) ==
  /\ IsFunction(rows) /\ DOMAIN rows \subseteq Nat \ {Null}
  /\ \A p \in DOMAIN rows : IsProduct(rows[p])
IsTemplates(rows) ==
  /\ IsFunction(rows) /\ DOMAIN rows \subseteq Nat \ {Null}
  /\ \A t \in DOMAIN rows : IsTemplate(rows[t])

TablesTyped ==
  /\ IsProducts(products) /\ IsTemplates(templates) /\ IsFunction(releaseNotes)
  /\ draft = [products |-> draft.products, templates |-> draft.templates, releases |-> draft.releases]
  /\ IsProducts(draft.products) /\ IsTemplates(draft.templates) /\ IsFunction(draft.releases)
  /\ copied = [product |-> copied.product, image |-> copied.image]

RunFields == {"step", "image", "dry", "todo", "doc", "product", "seen"}
IsRun(run) == run = [f \in RunFields |-> run[f]]

InApply == {"resolve", "write", "match"}
WithDocument == {"write", "match"}

\* The images, and what each rollout has of its own still to do; the one in its transaction
\* holds the lock.
RolloutsFit ==
  /\ \A i \in DOMAIN merged : IsImage(merged[i])
  /\ rollout = [r \in Rollouts |-> rollout[r]]
  /\ \A r \in Rollouts :
       /\ IsRun(rollout[r]) /\ rollout[r].step \in {"idle", "loaded"} \union InApply
       /\ rollout[r].step \in InApply <=> advisoryLock = r
       /\ rollout[r].step # "idle" => /\ rollout[r].image \in DOMAIN merged
                                      /\ rollout[r].todo \subseteq merged[rollout[r].image]
       /\ rollout[r].step = "loaded" => rollout[r].todo = merged[rollout[r].image]
       /\ rollout[r].step \in WithDocument => rollout[r].doc \in merged[rollout[r].image] \ rollout[r].todo
  /\ advisoryLock \in Rollouts \union {Null} /\ (advisoryLock = Null => draft = NoDraft)

\* What a request has read holds still: names, ids and what a template belongs to.
RequestsFit ==
  /\ admin = [a \in Admins |-> admin[a]]
  /\ \A a \in Admins :
       /\ admin[a].op = "create" => admin[a].name \in ProductNames
       /\ admin[a].op = "update" =>
            /\ admin[a].product \in DOMAIN products
            /\ admin[a].column \in {"visibility", "name", "template", "icon"}
            /\ admin[a].column = "name" => admin[a].value \in ProductNames
            /\ admin[a].column = "template" => /\ admin[a].value \in DOMAIN templates
                                               /\ templates[admin[a].value].product = admin[a].product
       /\ admin[a].op = "delete" => admin[a].product \in DOMAIN products
       /\ admin[a].op = "drop" => /\ admin[a].template \in DOMAIN templates
                                  /\ admin[a].product = templates[admin[a].template].product

\* A product's template is one of its own.
PointersFit(rows, versions) ==
  \A p \in DOMAIN rows : rows[p].template # Null => /\ rows[p].template \in DOMAIN versions
                                                    /\ versions[rows[p].template].product = p

TablesFit ==
  /\ AreUnique(products) /\ AreUnique(ProductsSeen)
  /\ PointersFit(products, templates) /\ PointersFit(draft.products, TemplatesSeen)
  /\ HaveNoDuplicates(templates) /\ HaveNoDuplicates(TemplatesSeen)

\* The documents an apply has taken up, and those it has finished with.
TakenUp(r) == merged[rollout[r].image] \ rollout[r].todo
Done(r) == IF rollout[r].step \in WithDocument THEN TakenUp(r) \ {rollout[r].doc} ELSE TakenUp(r)

\* The row p as the apply sees it is d's: p had its slug, or was adopted by its name.
BelongsTo(p, d) ==
  LET entry == ProductsSeen[p] IN
  /\ p \in DOMAIN ProductsSeen /\ entry.slug = d.slug
  /\ p \in touched \/ (entry.name = d.name /\ entry.listing = d.listing /\ ~entry.deleted)
  /\ (p \in DOMAIN products /\ p \notin touched) =>
       /\ ~products[p].deleted
       /\ products[p].slug = d.slug \/ (products[p].slug = Null /\ products[p].name = d.name)
       /\ entry.icon \in {d.icon, products[p].icon}

\* What is flushed belongs to documents taken up, and leaves to a row what is not theirs.
DraftFits ==
  \A r \in Rollouts : advisoryLock = r =>
    /\ \A p \in DOMAIN draft.products :
         /\ \E d \in IF rollout[r].step = "match" THEN TakenUp(r) ELSE Done(r) : BelongsTo(p, d)
         /\ p \in DOMAIN products => draft.products[p].visibility = products[p].visibility
    /\ \A t \in DOMAIN draft.templates :
         LET entry == draft.templates[t] IN
         /\ t \in DOMAIN templates => /\ Lasting(entry) = Lasting(templates[t])
                                      /\ entry.deleted = templates[t].deleted
                                      /\ templates[t].version # Null => entry.version = templates[t].version
         /\ t \notin DOMAIN templates =>
              /\ \E d \in Done(r) : /\ entry.product \in DOMAIN ProductsSeen
                                    /\ ProductsSeen[entry.product].slug = d.slug /\ entry.spec = d.spec
              /\ entry.product \in touched \/ \A s \in LiveIn(templates) :
                                              templates[s].product = entry.product => templates[s].spec # entry.spec

\* Between two steps the apply knows the row it works on, unless somebody writes to it.
KnowsItsRow(r) ==
  LET run == rollout[r]
      p == run.product IN
  /\ (run.step = "write" /\ p = Null) => run.seen = NewProduct(run.doc)
  /\ (run.step = "write" /\ p # Null) =>
       /\ p \in DOMAIN products \ DOMAIN draft.products /\ IsProduct(run.seen) /\ ~run.seen.deleted
       /\ run.seen.slug = products[p].slug
       /\ run.seen.slug = run.doc.slug \/ (run.seen.slug = Null /\ run.seen.name = run.doc.name)
       /\ p \in touched \/ run.seen = products[p]
  /\ run.step = "match" =>
       /\ BelongsTo(p, run.doc) /\ IsProduct(run.seen) /\ run.seen = Described(run.seen, run.doc)
       /\ p \in touched \/ run.seen = ProductsSeen[p]
KnowsRow == \A r \in Rollouts : KnowsItsRow(r)

\* The product p of these tables is as d declares it.
IsDeclared(rows, versions, notes, p, d) ==
  LET entry == rows[p]
      t == entry.template IN
  /\ ~entry.deleted /\ entry.name = d.name /\ entry.listing = d.listing /\ entry.shots = d.shots
  /\ d.icon # Null => entry.icon = d.icon
  /\ t \in LiveIn(versions) /\ versions[t].spec = d.spec /\ versions[t].product = p
  /\ p \in DOMAIN notes /\ notes[p] = d.releases
  /\ \A s \in LiveIn(versions) :
       (versions[s].product = p /\ versions[s].version = Null) => d.versions[versions[s].spec] = Null

\* A document the apply is done with has its row, as declared unless somebody wrote to it.
DoneIsDeclared ==
  \A r \in Rollouts : advisoryLock = r => \A d \in Done(r) : \E p \in DOMAIN ProductsSeen :
    /\ ProductsSeen[p].slug = d.slug
    /\ p \in touched \/ IsDeclared(ProductsSeen, TemplatesSeen, ReleasesSeen, p, d)
    /\ rollout[r].dry \/ Pictures(d) \subseteq storage

\* The image last applied is what the tables say, until somebody writes to them.
SettledIsDeclared ==
  \A i \in settled :
    /\ i \in DOMAIN merged
    /\ \A d \in merged[i] : \E p \in LiveIn(products) : products[p].slug = d.slug
    /\ \A d \in merged[i], p \in LiveIn(products) :
         products[p].slug = d.slug => IsDeclared(products, templates, releaseNotes, p, d)
    /\ \A p \in LiveIn(products) : products[p].curated => \E d \in merged[i] : d.slug = products[p].slug

SameButPointer(x, y) == [x EXCEPT !.template = Null] = [y EXCEPT !.template = Null]

\* An apply of the image last applied has changed nothing but pointers.
Again(r) == \E i \in settled : merged[i] = merged[rollout[r].image]
AgainIsQuiet ==
  \A r \in Rollouts : (advisoryLock = r /\ Again(r)) =>
    /\ \A p \in DOMAIN draft.products : p \in DOMAIN products /\ SameButPointer(draft.products[p], products[p])
    /\ \A t \in DOMAIN draft.templates : t \in DOMAIN templates /\ draft.templates[t] = templates[t]
    /\ \A p \in DOMAIN draft.releases : p \in DOMAIN releaseNotes /\ draft.releases[p] = releaseNotes[p]
    /\ rollout[r].step \in WithDocument =>
         LET p == rollout[r].product IN
         /\ p \in LiveIn(products) /\ products[p].slug = rollout[r].doc.slug
         /\ SameButPointer(rollout[r].seen, products[p])

\* What curate wrote is in its image, and says of the product what its row does.
CopyIsTrue ==
  copied # NotCopied =>
    LET p == copied.product IN
    /\ copied.image \in DOMAIN merged /\ p \in LiveIn(products)
    /\ products[p].template \in LiveIn(templates)
    /\ \E d \in merged[copied.image] :
         /\ d.name = products[p].name /\ d.listing = products[p].listing /\ d.icon = products[p].icon
         /\ d.spec = templates[products[p].template].spec
         /\ products[p].slug \in {Null, d.slug}

CatalogInv ==
  /\ TablesTyped /\ RolloutsFit /\ RequestsFit /\ TablesFit /\ DraftFits /\ KnowsRow
  /\ DoneIsDeclared /\ SettledIsDeclared /\ AgainIsQuiet /\ CopyIsTrue

\* Over(f, g) is f where f has a value, else g.
LEMMA OverIs ==
  ASSUME NEW f, NEW g
  PROVE  /\ IsFunction(Over(f, g)) /\ DOMAIN Over(f, g) = DOMAIN f \union DOMAIN g
         /\ \A i \in DOMAIN f : Over(f, g)[i] = f[i]
         /\ \A i \in DOMAIN g : i \notin DOMAIN f => Over(f, g)[i] = g[i]
  BY DEF Over, IsFunction

LEMMA SingleIs ==
  ASSUME NEW i, NEW x
  PROVE  IsFunction(Single(i, x)) /\ DOMAIN Single(i, x) = {i} /\ Single(i, x)[i] = x
  BY DEF Single, IsFunction

\* Writing the row x at i.
LEMMA OverSingle ==
  ASSUME NEW i, NEW x, NEW g
  PROVE  /\ IsFunction(Over(Single(i, x), g)) /\ DOMAIN Over(Single(i, x), g) = DOMAIN g \union {i}
         /\ Over(Single(i, x), g)[i] = x
         /\ \A j \in DOMAIN g : j # i => Over(Single(i, x), g)[j] = g[j]
<1> DEFINE s == Single(i, x)
           h == Over(s, g)
<1>1. DOMAIN s = {i} /\ s[i] = x
  BY SingleIs
<1>2. /\ IsFunction(h) /\ DOMAIN h = DOMAIN s \union DOMAIN g
      /\ \A j \in DOMAIN s : h[j] = s[j]
      /\ \A j \in DOMAIN g : j \notin DOMAIN s => h[j] = g[j]
  BY OverIs
<1> HIDE DEF s, h
<1>3. DOMAIN h = DOMAIN g \union {i} /\ h[i] = x /\ \A j \in DOMAIN g : j # i => h[j] = g[j]
  BY <1>1, <1>2
<1> QED
  BY <1>2, <1>3 DEF s, h

\* Functions with the same values on the same domain are the same.
LEMMA SameFunction ==
  ASSUME NEW f, NEW g, IsFunction(f), IsFunction(g), DOMAIN f = DOMAIN g, \A i \in DOMAIN f : f[i] = g[i]
  PROVE  f = g
  BY DEF IsFunction

\* Nothing is drafted outside an apply.
LEMMA NoDraftIs ==
  /\ NoDraft = [products |-> NoDraft.products, templates |-> NoDraft.templates, releases |-> NoDraft.releases]
  /\ IsProducts(NoDraft.products) /\ IsTemplates(NoDraft.templates) /\ IsFunction(NoDraft.releases)
  /\ DOMAIN NoDraft.products = {} /\ DOMAIN NoDraft.templates = {} /\ DOMAIN NoDraft.releases = {}
  BY DEF NoDraft, Nowhere, IsProducts, IsTemplates, IsFunction

\* What the transaction sees, row by row.
SeenIs ==
  /\ DOMAIN ProductsSeen = DOMAIN draft.products \union DOMAIN products
  /\ \A p \in DOMAIN draft.products : ProductsSeen[p] = draft.products[p]
  /\ \A p \in DOMAIN products : p \notin DOMAIN draft.products => ProductsSeen[p] = products[p]
  /\ DOMAIN TemplatesSeen = DOMAIN draft.templates \union DOMAIN templates
  /\ \A t \in DOMAIN draft.templates : TemplatesSeen[t] = draft.templates[t]
  /\ \A t \in DOMAIN templates : t \notin DOMAIN draft.templates => TemplatesSeen[t] = templates[t]
  /\ DOMAIN ReleasesSeen = DOMAIN draft.releases \union DOMAIN releaseNotes
  /\ \A p \in DOMAIN draft.releases : ReleasesSeen[p] = draft.releases[p]
  /\ \A p \in DOMAIN releaseNotes : p \notin DOMAIN draft.releases => ReleasesSeen[p] = releaseNotes[p]
  /\ IsFunction(ProductsSeen) /\ IsFunction(TemplatesSeen) /\ IsFunction(ReleasesSeen)

LEMMA SeenRows == SeenIs
<1>1. /\ IsFunction(ProductsSeen) /\ DOMAIN ProductsSeen = DOMAIN draft.products \union DOMAIN products
      /\ \A p \in DOMAIN draft.products : ProductsSeen[p] = draft.products[p]
      /\ \A p \in DOMAIN products : p \notin DOMAIN draft.products => ProductsSeen[p] = products[p]
  BY OverIs DEF ProductsSeen
<1>2. /\ IsFunction(TemplatesSeen) /\ DOMAIN TemplatesSeen = DOMAIN draft.templates \union DOMAIN templates
      /\ \A t \in DOMAIN draft.templates : TemplatesSeen[t] = draft.templates[t]
      /\ \A t \in DOMAIN templates : t \notin DOMAIN draft.templates => TemplatesSeen[t] = templates[t]
  BY OverIs DEF TemplatesSeen
<1>3. /\ IsFunction(ReleasesSeen) /\ DOMAIN ReleasesSeen = DOMAIN draft.releases \union DOMAIN releaseNotes
      /\ \A p \in DOMAIN draft.releases : ReleasesSeen[p] = draft.releases[p]
      /\ \A p \in DOMAIN releaseNotes : p \notin DOMAIN draft.releases => ReleasesSeen[p] = releaseNotes[p]
  BY OverIs DEF ReleasesSeen
<1> QED
  BY <1>1, <1>2, <1>3 DEF SeenIs

\* ... in tables of products and templates.
LEMMA SeenTyped ==
  TablesTyped => IsProducts(ProductsSeen) /\ IsTemplates(TemplatesSeen)
  BY SeenRows DEF SeenIs, TablesTyped, IsProducts, IsTemplates

\* Outside an apply that is what is committed.
LEMMA NothingDrafted ==
  (TablesTyped /\ draft = NoDraft)
    => (ProductsSeen = products /\ TemplatesSeen = templates /\ ReleasesSeen = releaseNotes)
<1> SUFFICES ASSUME TablesTyped, draft = NoDraft
             PROVE  ProductsSeen = products /\ TemplatesSeen = templates /\ ReleasesSeen = releaseNotes
  OBVIOUS
<1>1. IsFunction(products) /\ IsFunction(templates) /\ IsFunction(releaseNotes)
  BY DEF TablesTyped, IsProducts, IsTemplates
<1>2. DOMAIN draft.products = {} /\ DOMAIN draft.templates = {} /\ DOMAIN draft.releases = {}
  BY NoDraftIs
<1>3. ProductsSeen = products
  BY <1>1, <1>2, SeenRows, SameFunction DEF SeenIs
<1>4. TemplatesSeen = templates
  BY <1>1, <1>2, SeenRows, SameFunction DEF SeenIs
<1>5. ReleasesSeen = releaseNotes
  BY <1>1, <1>2, SeenRows, SameFunction DEF SeenIs
<1> QED
  BY <1>3, <1>4, <1>5

\* What a document makes of a row; again, the same.
LEMMA DescribedIs ==
  ASSUME NEW x, NEW d, IsProduct(x), d.name \in ProductNames, d.slug \in Nat \ {Null}
  PROVE  LET y == Described(x, d) IN
         /\ IsProduct(y) /\ y.name = d.name /\ y.listing = d.listing /\ y.slug = d.slug /\ y.curated = TRUE
         /\ y.visibility = x.visibility /\ y.template = x.template /\ y.icon = x.icon /\ y.shots = x.shots
         /\ y.deleted = x.deleted
         /\ Described(y, d) = y
<1> DEFINE y == Described(x, d)
<1>1. /\ y = [c \in ProductColumns |-> y[c]] /\ y.name = d.name /\ y.listing = d.listing /\ y.slug = d.slug
      /\ y.curated = TRUE /\ y.visibility = x.visibility /\ y.template = x.template /\ y.icon = x.icon
      /\ y.shots = x.shots /\ y.deleted = x.deleted
  BY DEF Described, IsProduct, ProductColumns
<1>2. LET z == Described(y, d) IN
      /\ z = [c \in ProductColumns |-> z[c]] /\ z.name = d.name /\ z.listing = d.listing /\ z.slug = d.slug
      /\ z.curated = TRUE /\ z.visibility = y.visibility /\ z.template = y.template /\ z.icon = y.icon
      /\ z.shots = y.shots /\ z.deleted = y.deleted
  <2> HIDE DEF y
  <2> QED
    BY <1>1 DEF Described, ProductColumns
<1> HIDE DEF y
<1>3. Described(y, d) = y
  <2> DEFINE z == Described(y, d)
  <2>1. z = [c \in ProductColumns |-> z[c]] /\ y = [c \in ProductColumns |-> y[c]]
    BY <1>1, <1>2
  <2>2. z.name = y.name /\ z.listing = y.listing /\ z.slug = y.slug /\ z.curated = y.curated
        /\ z.visibility = y.visibility /\ z.template = y.template /\ z.icon = y.icon
        /\ z.shots = y.shots /\ z.deleted = y.deleted
    BY <1>1, <1>2
  <2> HIDE DEF z
  <2>3. \A c \in ProductColumns : z[c] = y[c]
    BY <2>2 DEF ProductColumns
  <2>4. z = y
    BY <2>1, <2>3
  <2> QED
    BY <2>4 DEF z
<1>4. IsProduct(y)
  BY <1>1 DEF IsProduct, Null
<1> QED
  BY <1>1, <1>3, <1>4 DEF y

\* A flush writes the columns that were changed.
LEMMA FlushedIs ==
  ASSUME NEW x, NEW before, NEW entry, IsProduct(x), IsProduct(before), IsProduct(entry)
  PROVE  LET y == Flushed(x, before, entry) IN
         /\ y = [c \in ProductColumns |-> y[c]]
         /\ y.name = IF entry.name = before.name THEN x.name ELSE entry.name
         /\ y.listing = IF entry.listing = before.listing THEN x.listing ELSE entry.listing
         /\ y.slug = IF entry.slug = before.slug THEN x.slug ELSE entry.slug
         /\ y.curated = IF entry.curated = before.curated THEN x.curated ELSE entry.curated
         /\ y.visibility = IF entry.visibility = before.visibility THEN x.visibility ELSE entry.visibility
         /\ y.template = IF entry.template = before.template THEN x.template ELSE entry.template
         /\ y.icon = IF entry.icon = before.icon THEN x.icon ELSE entry.icon
         /\ y.shots = IF entry.shots = before.shots THEN x.shots ELSE entry.shots
         /\ y.deleted = IF entry.deleted = before.deleted THEN x.deleted ELSE entry.deleted
         /\ x = before => y = entry
  BY DEF Flushed, IsProduct, ProductColumns

\* Rows that nobody has read differently are those of the last writer.
LEMMA SameProduct ==
  ASSUME NEW x, NEW y, IsProduct(x), IsProduct(y), x.name = y.name, x.listing = y.listing, x.slug = y.slug,
         x.visibility = y.visibility, x.template = y.template, x.icon = y.icon, x.shots = y.shots,
         x.deleted = y.deleted
  PROVE  x = y
  BY DEF IsProduct, ProductColumns

\* The first document of some is one of them.
LEMMA FirstIsOne ==
  ASSUME NEW docs, IsImage(docs), docs # {}
  PROVE  FirstOf(docs) \in docs
<1> DEFINE S == {d.slug : d \in docs}
<1>1. S \in SUBSET Nat /\ S # {}
  BY DEF IsImage
<1>2. PICK m \in S : \A k \in S : m <= k
  BY <1>1, HasLeast
<1>3. \E d \in docs : \A e \in docs : d.slug <= e.slug
  BY <1>2
<1> QED
  BY <1>3 DEF FirstOf

\* What a step of a rollout makes of its record.
LEMMA TurnsIs ==
  ASSUME RolloutsFit, NEW r \in Rollouts, NEW changes, DOMAIN changes \subseteq RunFields, Turns(r, changes)
  PROVE  /\ rollout' = [q \in Rollouts |-> rollout'[q]] /\ IsRun(rollout'[r])
         /\ \A q \in Rollouts : q # r => rollout'[q] = rollout[q]
         /\ \A f \in RunFields : rollout'[r][f] = IF f \in DOMAIN changes THEN changes[f] ELSE rollout[r][f]
<1> DEFINE run == Over(changes, rollout[r])
<1>1. IsRun(rollout[r]) /\ rollout = [q \in Rollouts |-> rollout[q]]
  BY DEF RolloutsFit
<1>2. DOMAIN rollout[r] = RunFields
  BY <1>1 DEF IsRun
<1>3. /\ IsFunction(run) /\ DOMAIN run = RunFields
      /\ \A f \in RunFields : run[f] = IF f \in DOMAIN changes THEN changes[f] ELSE rollout[r][f]
  BY <1>2 DEF Over, IsFunction
<1>4. rollout' = [rollout EXCEPT ![r] = run]
  BY DEF Turns
<1> HIDE DEF run
<1>5. IsRun(run)
  BY <1>3 DEF IsRun, IsFunction
<1> QED
  BY <1>1, <1>3, <1>4, <1>5

\* While nobody holds the lock there is nothing more to say than that the tables are sound.
LEMMA UnlockedFits ==
  (/\ TablesTyped /\ RolloutsFit /\ advisoryLock = Null
   /\ AreUnique(products) /\ PointersFit(products, templates) /\ HaveNoDuplicates(templates))
  => (TablesFit /\ DraftFits /\ KnowsRow /\ DoneIsDeclared /\ AgainIsQuiet)
<1> SUFFICES ASSUME TablesTyped, RolloutsFit, advisoryLock = Null, AreUnique(products),
                    PointersFit(products, templates), HaveNoDuplicates(templates)
             PROVE  TablesFit /\ DraftFits /\ KnowsRow /\ DoneIsDeclared /\ AgainIsQuiet
  OBVIOUS
<1>1. draft = NoDraft
  BY DEF RolloutsFit
<1>2. ProductsSeen = products /\ TemplatesSeen = templates
  BY <1>1, NothingDrafted
<1>3. PointersFit(draft.products, TemplatesSeen)
  BY <1>1, NoDraftIs DEF PointersFit
<1>4. TablesFit
  BY <1>2, <1>3 DEF TablesFit
<1>5. \A r \in Rollouts : advisoryLock # r /\ rollout[r].step \notin InApply
  BY CatalogAssumption DEF RolloutsFit
<1>6. DraftFits /\ DoneIsDeclared /\ AgainIsQuiet
  BY <1>5 DEF DraftFits, DoneIsDeclared, AgainIsQuiet
<1>7. KnowsRow
  BY <1>5 DEF KnowsRow, KnowsItsRow, InApply
<1> QED
  BY <1>4, <1>6, <1>7

LEMMA CatalogStarts == CatalogInit => CatalogInv
<1> SUFFICES ASSUME CatalogInit PROVE CatalogInv
  OBVIOUS
<1> USE DEF CatalogInit
<1>1. TablesTyped
  <2>1. IsProducts(products) /\ IsTemplates(templates)
    BY CatalogAssumption DEF IsProducts, IsTemplates, IsFunction
  <2>2. IsFunction(releaseNotes)
    BY DEF IsFunction
  <2> QED
    BY <2>1, <2>2, NoDraftIs DEF TablesTyped, NotCopied
<1>2. RolloutsFit
  <2>1. \A i \in DOMAIN merged : IsImage(merged[i])
    BY CatalogAssumption
  <2>2. IsRun(IdleRun) /\ IdleRun.step = "idle"
    BY DEF IsRun, IdleRun, RunFields
  <2>3. \A r \in Rollouts : rollout[r] = IdleRun
    OBVIOUS
  <2>4. \A r \in Rollouts : /\ IsRun(rollout[r]) /\ rollout[r].step = "idle" /\ advisoryLock # r
    BY <2>2, <2>3, CatalogAssumption
  <2> QED
    BY <2>1, <2>4 DEF RolloutsFit, InApply, WithDocument
<1>3. RequestsFit
  <2>1. \A a \in Admins : admin[a].op = "none"
    BY DEF NoAdminRequest
  <2> QED
    BY <2>1 DEF RequestsFit
<1>4. AreUnique(products) /\ PointersFit(products, templates) /\ HaveNoDuplicates(templates)
  BY CatalogAssumption DEF PointersFit
<1>5. SettledIsDeclared /\ CopyIsTrue
  BY DEF SettledIsDeclared, CopyIsTrue
<1> QED
  BY <1>1, <1>2, <1>3, <1>4, <1>5, UnlockedFits DEF CatalogInv

\* What depends on the tables and the lock holder's record alone.
LEMMA HolderKeeps ==
  ASSUME CatalogInv, RolloutsFit',
         UNCHANGED <<merged, products, templates, releaseNotes, advisoryLock, draft, touched, settled, copied>>,
         storage \subseteq storage',
         \A q \in Rollouts : advisoryLock = q => rollout'[q] = rollout[q]
  PROVE  /\ TablesTyped' /\ TablesFit' /\ DraftFits' /\ KnowsRow' /\ DoneIsDeclared' /\ SettledIsDeclared'
         /\ AgainIsQuiet' /\ CopyIsTrue'
<1> USE DEF CatalogInv
<1>1. ProductsSeen' = ProductsSeen /\ TemplatesSeen' = TemplatesSeen /\ ReleasesSeen' = ReleasesSeen
  BY DEF ProductsSeen, TemplatesSeen, ReleasesSeen
<1>2. TablesTyped' /\ TablesFit' /\ SettledIsDeclared' /\ CopyIsTrue'
  BY <1>1 DEF TablesTyped, TablesFit, SettledIsDeclared, CopyIsTrue
<1>3. \A q \in Rollouts : advisoryLock' = q =>
        /\ advisoryLock = q /\ rollout'[q] = rollout[q] /\ Done(q)' = Done(q) /\ TakenUp(q)' = TakenUp(q)
        /\ Again(q)' = Again(q)
  BY DEF Done, TakenUp, Again
<1>4. \A p, d : BelongsTo(p, d)' = BelongsTo(p, d)
  BY <1>1 DEF BelongsTo
<1>5. DraftFits'
  BY <1>1, <1>3, <1>4 DEF DraftFits
<1>6. KnowsRow'
  <2>1. \A q \in Rollouts : rollout'[q].step \in InApply => rollout'[q] = rollout[q]
    BY <1>3 DEF RolloutsFit
  <2>2. SUFFICES ASSUME NEW q \in Rollouts, rollout'[q].step \in InApply
                 PROVE  KnowsItsRow(q)'
    BY DEF KnowsRow, KnowsItsRow, InApply
  <2>3. rollout'[q] = rollout[q]
    BY <2>1, <2>2
  <2> QED
    BY <1>1, <1>4, <2>3 DEF KnowsRow, KnowsItsRow
<1>7. DoneIsDeclared'
  <2> SUFFICES ASSUME NEW q \in Rollouts, advisoryLock' = q, NEW d \in Done(q)'
               PROVE  \E p \in DOMAIN ProductsSeen' :
                        /\ ProductsSeen'[p].slug = d.slug
                        /\ p \in touched' \/ IsDeclared(ProductsSeen, TemplatesSeen, ReleasesSeen, p, d)'
                        /\ rollout'[q].dry \/ Pictures(d) \subseteq storage'
    BY DEF DoneIsDeclared
  <2>1. PICK p \in DOMAIN ProductsSeen :
          /\ ProductsSeen[p].slug = d.slug
          /\ p \in touched \/ IsDeclared(ProductsSeen, TemplatesSeen, ReleasesSeen, p, d)
          /\ rollout[q].dry \/ Pictures(d) \subseteq storage
    BY <1>3 DEF DoneIsDeclared
  <2> QED
    BY <1>1, <1>3, <2>1
<1>8. AgainIsQuiet'
  BY <1>1, <1>3 DEF AgainIsQuiet
<1> QED
  BY <1>2, <1>5, <1>6, <1>7, <1>8

\* At the end of an apply the lock is free and its rollout idle.
LEMMA ApplyEnds ==
  ASSUME CatalogInv, NEW r \in Rollouts, advisoryLock = r, advisoryLock' = Null, draft' = NoDraft,
         Turns(r, IdleRun), UNCHANGED merged
  PROVE  RolloutsFit'
<1> USE DEF CatalogInv
<1>3. /\ rollout' = [q \in Rollouts |-> rollout'[q]] /\ IsRun(rollout'[r])
      /\ \A q \in Rollouts : q # r => rollout'[q] = rollout[q]
      /\ rollout'[r].step = "idle"
  <2>1. DOMAIN IdleRun = RunFields /\ IdleRun.step = "idle" /\ "step" \in RunFields
    BY DEF IdleRun, RunFields
  <2> QED
    BY <2>1, TurnsIs
<1>4. \A q \in Rollouts : rollout'[q].step \notin InApply /\ advisoryLock' # q
  BY <1>3, CatalogAssumption DEF RolloutsFit, InApply
<1>5. ASSUME NEW q \in Rollouts
      PROVE  /\ IsRun(rollout'[q]) /\ rollout'[q].step \in {"idle", "loaded"}
             /\ rollout'[q].step # "idle" => q # r
  BY <1>3, <1>4 DEF RolloutsFit
<1> QED
  BY <1>3, <1>4, <1>5 DEF RolloutsFit, InApply, WithDocument

\* The end of an apply without a commit leaves nothing.
LEMMA RollbackKeeps ==
  ASSUME CatalogInv, NEW r \in Rollouts, advisoryLock = r, Rollback(r), UNCHANGED <<merged, admin>>
  PROVE  CatalogInv'
<1> USE DEF CatalogInv
<1>1. draft' = NoDraft /\ advisoryLock' = Null
      /\ UNCHANGED <<products, templates, releaseNotes, settled, copied, touched>>
  BY DEF Rollback, KeepsRows
<1>2. TablesTyped'
  BY <1>1, NoDraftIs DEF TablesTyped
<1>4. RolloutsFit'
  BY <1>1, ApplyEnds DEF Rollback
<1>5. RequestsFit' /\ SettledIsDeclared' /\ CopyIsTrue'
  BY <1>1 DEF RequestsFit, SettledIsDeclared, CopyIsTrue
<1>6. AreUnique(products') /\ PointersFit(products', templates') /\ HaveNoDuplicates(templates')
  BY <1>1 DEF TablesFit
<1>7. (TablesFit /\ DraftFits /\ KnowsRow /\ DoneIsDeclared /\ AgainIsQuiet)'
  <2>1. ((/\ TablesTyped /\ RolloutsFit /\ advisoryLock = Null
          /\ AreUnique(products) /\ PointersFit(products, templates) /\ HaveNoDuplicates(templates))
         => (TablesFit /\ DraftFits /\ KnowsRow /\ DoneIsDeclared /\ AgainIsQuiet))'
    BY UnlockedFits, PTL
  <2> QED
    BY <1>1, <1>2, <1>4, <1>6, <2>1
<1> QED
  BY <1>2, <1>4, <1>5, <1>7

LEMMA StartApplyKeeps ==
  ASSUME CatalogInv, NEW r \in Rollouts, StartApply(r)
  PROVE  CatalogInv'
<1> USE DEF CatalogInv
<1>1. UNCHANGED <<merged, products, templates, releaseNotes, storage, advisoryLock, draft, touched, settled, copied, admin>>
  BY DEF StartApply, KeepsRows, ByRollout
<1>2. PICK i \in DOMAIN merged, dry \in BOOLEAN :
        Turns(r, [step |-> "loaded", image |-> i, dry |-> dry, todo |-> merged[i]])
  BY DEF StartApply
<1>3. /\ rollout' = [q \in Rollouts |-> rollout'[q]] /\ IsRun(rollout'[r])
      /\ \A q \in Rollouts : q # r => rollout'[q] = rollout[q]
      /\ rollout'[r].step = "loaded" /\ rollout'[r].image = i /\ rollout'[r].todo = merged[i]
  <2> DEFINE c == [step |-> "loaded", image |-> i, dry |-> dry, todo |-> merged[i]]
  <2>1. DOMAIN c = {"step", "image", "dry", "todo"} /\ c.step = "loaded" /\ c.image = i /\ c.todo = merged[i]
    OBVIOUS
  <2> HIDE DEF c
  <2>2. Turns(r, c)
    BY <1>2 DEF c
  <2> QED
    BY <2>1, <2>2, TurnsIs DEF RunFields
<1>4. advisoryLock # r
  BY DEF StartApply, RolloutsFit, InApply
<1>5. RolloutsFit'
  BY <1>1, <1>3, <1>4 DEF RolloutsFit, InApply, WithDocument
<1>6. RequestsFit'
  BY <1>1 DEF RequestsFit
<1> QED
  BY <1>1, <1>3, <1>4, <1>5, <1>6, HolderKeeps

LEMMA TakeLockKeeps ==
  ASSUME CatalogInv, NEW r \in Rollouts, TakeLock(r)
  PROVE  CatalogInv'
<1> USE DEF CatalogInv
<1>1. /\ rollout[r].step = "loaded" /\ advisoryLock = Null /\ advisoryLock' = r /\ touched' = {}
      /\ UNCHANGED <<merged, products, templates, releaseNotes, storage, draft, settled, copied, admin>>
  BY DEF TakeLock, KeepsRows, ByRollout
<1>2. /\ rollout' = [q \in Rollouts |-> rollout'[q]] /\ IsRun(rollout'[r])
      /\ \A q \in Rollouts : q # r => rollout'[q] = rollout[q]
      /\ rollout'[r].step = "resolve" /\ rollout'[r].image = rollout[r].image /\ rollout'[r].todo = rollout[r].todo
  <2> DEFINE c == [step |-> "resolve"]
  <2>1. DOMAIN c = {"step"} /\ c.step = "resolve"
    OBVIOUS
  <2> HIDE DEF c
  <2>2. Turns(r, c)
    BY DEF c, TakeLock
  <2> QED
    BY <2>1, <2>2, TurnsIs DEF RunFields
<1>3. RolloutsFit'
  BY <1>1, <1>2, CatalogAssumption DEF RolloutsFit, InApply, WithDocument
<1>4. draft = NoDraft
  BY <1>1 DEF RolloutsFit
<1>5. /\ TablesTyped' /\ RequestsFit' /\ SettledIsDeclared' /\ CopyIsTrue'
      /\ ProductsSeen' = ProductsSeen /\ TemplatesSeen' = TemplatesSeen /\ TablesFit'
  BY <1>1 DEF TablesTyped, RequestsFit, SettledIsDeclared, CopyIsTrue, ProductsSeen, TemplatesSeen, TablesFit
<1>6. TakenUp(r)' = {} /\ Done(r)' = {}
  BY <1>1, <1>2 DEF RolloutsFit, TakenUp, Done
<1>7. /\ DOMAIN draft'.products = {} /\ DOMAIN draft'.templates = {} /\ DOMAIN draft'.releases = {}
  BY <1>1, <1>4, NoDraftIs
<1>8. DraftFits'
  BY <1>1, <1>7 DEF DraftFits
<1>9. \A q \in Rollouts : rollout'[q].step \notin WithDocument
  BY <1>1, <1>2, CatalogAssumption DEF RolloutsFit, InApply, WithDocument
<1>10. KnowsRow'
  BY <1>9 DEF KnowsRow, KnowsItsRow, WithDocument
<1>11. DoneIsDeclared'
  BY <1>1, <1>6 DEF DoneIsDeclared
<1>12. AgainIsQuiet'
  BY <1>7, <1>9 DEF AgainIsQuiet
<1> QED
  BY <1>3, <1>5, <1>8, <1>10, <1>11, <1>12

\* A row that an apply takes for a document has its slug, or neither a slug nor another name.
LEMMA CandidateIs ==
  ASSUME TablesTyped, NEW d, d.slug \in Nat \ {Null}, NEW p \in Candidates(d)
  PROVE  /\ p # Null => /\ p \in LiveIn(ProductsSeen)
                        /\ ProductsSeen[p].slug = d.slug \/ (ProductsSeen[p].slug = Null /\ ProductsSeen[p].name = d.name)
         /\ (\E q \in LiveIn(ProductsSeen) : ProductsSeen[q].slug = d.slug) =>
              p \in LiveIn(ProductsSeen) /\ ProductsSeen[p].slug = d.slug
<1>1. \A q \in LiveIn(ProductsSeen) : ProductsSeen[q].curated = (ProductsSeen[q].slug # Null)
  BY SeenTyped DEF IsProducts, IsProduct, LiveIn
<1> DEFINE own == {q \in LiveIn(ProductsSeen) : ProductsSeen[q].curated /\ ProductsSeen[q].slug = d.slug}
           adoptable == {q \in LiveIn(ProductsSeen) : /\ ~ProductsSeen[q].curated /\ ProductsSeen[q].slug = Null
                                                      /\ ProductsSeen[q].name = d.name}
<1>2. p \in IF own # {} THEN own ELSE IF adoptable # {} THEN adoptable ELSE {Null}
  BY DEF Candidates
<1>3. CASE own # {}
  BY <1>2, <1>3
<1>4. CASE own = {}
  <2>1. ~ \E q \in LiveIn(ProductsSeen) : ProductsSeen[q].slug = d.slug
    BY <1>1, <1>4
  <2>2. p = Null \/ p \in adoptable
    BY <1>2, <1>4
  <2> QED
    BY <2>1, <2>2
<1> QED
  BY <1>3, <1>4

\* What is drafted belongs to the documents done, so a document still to do has none of it.
LEMMA TodoHasNoDraft ==
  ASSUME CatalogInv, NEW r \in Rollouts, advisoryLock = r, rollout[r].step = "resolve",
         NEW d \in rollout[r].todo
  PROVE  \A p \in DOMAIN draft.products : draft.products[p].slug \notin {d.slug, Null}
<1> USE DEF CatalogInv
<1>1. d \in merged[rollout[r].image] /\ IsImage(merged[rollout[r].image])
  BY DEF RolloutsFit
<1>2. ASSUME NEW p \in DOMAIN draft.products PROVE draft.products[p].slug \notin {d.slug, Null}
  <2>1. PICK e \in TakenUp(r) : BelongsTo(p, e)
    BY DEF DraftFits, Done, WithDocument
  <2>2. ProductsSeen[p] = draft.products[p]
    BY SeenRows DEF SeenIs
  <2>3. e \in merged[rollout[r].image] /\ e # d
    BY <2>1 DEF TakenUp
  <2>4. e.slug # d.slug /\ e.slug # Null
    BY <1>1, <2>3 DEF IsImage
  <2> QED
    BY <2>1, <2>2, <2>4 DEF BelongsTo
<1> QED
  BY <1>2

LEMMA ResolveKeeps ==
  ASSUME CatalogInv, NEW r \in Rollouts, ResolveProduct(r)
  PROVE  CatalogInv'
<1> USE DEF CatalogInv
<1> DEFINE doc == FirstOf(rollout[r].todo)
           image == merged[rollout[r].image]
<1>1. /\ rollout[r].step = "resolve" /\ rollout[r].todo # {}
      /\ UNCHANGED <<merged, products, templates, releaseNotes, storage, advisoryLock, draft, touched, settled, copied, admin>>
  BY DEF ResolveProduct, KeepsRows, ByRollout
<1>2. /\ advisoryLock = r /\ IsImage(image) /\ rollout[r].todo \subseteq image /\ rollout[r].image \in DOMAIN merged
  BY <1>1 DEF RolloutsFit, InApply
<1>3. doc \in rollout[r].todo
  <2>1. IsImage(rollout[r].todo)
    BY <1>2 DEF IsImage
  <2> QED
    BY <1>1, <2>1, FirstIsOne
<1>4. doc \in image /\ doc.slug \in Nat \ {Null} /\ doc.name \in ProductNames
  BY <1>2, <1>3 DEF IsImage
<1>5. PICK p \in Candidates(doc) :
        Turns(r, [step |-> "write", doc |-> doc, product |-> p, todo |-> rollout[r].todo \ {doc},
                  seen |-> IF p = Null THEN NewProduct(doc) ELSE ProductsSeen[p]])
  BY DEF ResolveProduct
<1> HIDE DEF doc
<1> DEFINE before == IF p = Null THEN NewProduct(doc) ELSE ProductsSeen[p]
           todo == rollout[r].todo \ {doc}
<1>6. Turns(r, [step |-> "write", doc |-> doc, product |-> p, todo |-> todo, seen |-> before])
  BY <1>5
<1> HIDE DEF before, todo
<1>7. /\ rollout' = [q \in Rollouts |-> rollout'[q]] /\ IsRun(rollout'[r])
      /\ \A q \in Rollouts : q # r => rollout'[q] = rollout[q]
      /\ rollout'[r].step = "write" /\ rollout'[r].image = rollout[r].image /\ rollout'[r].todo = todo
      /\ rollout'[r].doc = doc /\ rollout'[r].product = p /\ rollout'[r].seen = before
      /\ rollout'[r].dry = rollout[r].dry
  <2> DEFINE c == [step |-> "write", doc |-> doc, product |-> p, todo |-> todo, seen |-> before]
  <2>1. DOMAIN c = {"step", "doc", "product", "todo", "seen"} /\ c.step = "write" /\ c.doc = doc
        /\ c.product = p /\ c.todo = todo /\ c.seen = before
    OBVIOUS
  <2> HIDE DEF c
  <2>2. Turns(r, c)
    BY <1>6 DEF c
  <2> QED
    BY <2>1, <2>2, TurnsIs DEF RunFields
<1>8. RolloutsFit'
  <2>1. todo \subseteq image /\ doc \notin todo
    BY <1>2 DEF todo
  <2> QED
    BY <1>1, <1>2, <1>4, <1>7, <2>1 DEF RolloutsFit, InApply, WithDocument
<1>9. ProductsSeen' = ProductsSeen /\ TemplatesSeen' = TemplatesSeen /\ ReleasesSeen' = ReleasesSeen
  BY <1>1 DEF ProductsSeen, TemplatesSeen, ReleasesSeen
<1>10. TablesTyped' /\ RequestsFit' /\ TablesFit' /\ SettledIsDeclared' /\ CopyIsTrue'
  BY <1>1, <1>9 DEF TablesTyped, RequestsFit, TablesFit, SettledIsDeclared, CopyIsTrue
<1>11. Done(r)' = Done(r) /\ Done(r) = image \ rollout[r].todo
  BY <1>1, <1>3, <1>7 DEF Done, TakenUp, WithDocument, todo
<1>12. \A q, d : BelongsTo(q, d)' = BelongsTo(q, d)
  BY <1>1, <1>9 DEF BelongsTo
<1>13. DraftFits'
  <2>1. Done(r) = TakenUp(r)
    BY <1>1 DEF Done, WithDocument
  <2> QED
    BY <1>1, <1>2, <1>7, <1>9, <1>11, <1>12, <2>1 DEF DraftFits
<1>14. DoneIsDeclared'
  BY <1>1, <1>2, <1>7, <1>9, <1>11 DEF DoneIsDeclared
<1>15. p # Null => p \in DOMAIN products \ DOMAIN draft.products
  <2> SUFFICES ASSUME p # Null PROVE p \in DOMAIN products \ DOMAIN draft.products
    OBVIOUS
  <2>1. p \in DOMAIN ProductsSeen /\ ProductsSeen[p].slug \in {doc.slug, Null}
    BY <1>4, <1>5, CandidateIs DEF LiveIn
  <2>2. p \notin DOMAIN draft.products
    BY <1>1, <1>2, <1>3, <2>1, TodoHasNoDraft, SeenRows DEF SeenIs
  <2> QED
    BY <2>1, <2>2, SeenRows DEF SeenIs
<1>16. KnowsRow'
  <2>1. \A q \in Rollouts : q # r => rollout'[q].step \notin InApply
    BY <1>1, <1>2, <1>7 DEF RolloutsFit
  <2>2. CASE p = Null
    <3>1. before = NewProduct(doc)
      BY <2>2 DEF before
    <3> QED
      BY <1>7, <2>1, <2>2, <3>1 DEF KnowsRow, KnowsItsRow, InApply
  <2>3. CASE p # Null
    <3>1. /\ p \in LiveIn(ProductsSeen) /\ before = ProductsSeen[p]
          /\ before.slug = doc.slug \/ (before.slug = Null /\ before.name = doc.name)
      BY <1>4, <1>5, <2>3, CandidateIs DEF before
    <3>2. before = products[p] /\ IsProduct(before) /\ ~before.deleted
      BY <1>15, <2>3, <3>1, SeenRows DEF SeenIs, LiveIn, TablesTyped, IsProducts
    <3> QED
      BY <1>1, <1>7, <1>15, <2>1, <2>3, <3>1, <3>2 DEF KnowsRow, KnowsItsRow, InApply
  <2> QED
    BY <2>2, <2>3
<1>17. AgainIsQuiet'
  <2> SUFFICES ASSUME Again(r)'
               PROVE  /\ \A q \in DOMAIN draft.products : q \in DOMAIN products /\ SameButPointer(draft.products[q], products[q])
                      /\ \A t \in DOMAIN draft.templates : t \in DOMAIN templates /\ draft.templates[t] = templates[t]
                      /\ \A q \in DOMAIN draft.releases : q \in DOMAIN releaseNotes /\ draft.releases[q] = releaseNotes[q]
                      /\ p \in LiveIn(products) /\ products[p].slug = doc.slug /\ SameButPointer(before, products[p])
    BY <1>1, <1>2, <1>7 DEF AgainIsQuiet
  <2>1. Again(r)
    BY <1>1, <1>7 DEF Again
  <2>2. /\ \A q \in DOMAIN draft.products : q \in DOMAIN products /\ SameButPointer(draft.products[q], products[q])
        /\ \A t \in DOMAIN draft.templates : t \in DOMAIN templates /\ draft.templates[t] = templates[t]
        /\ \A q \in DOMAIN draft.releases : q \in DOMAIN releaseNotes /\ draft.releases[q] = releaseNotes[q]
    BY <1>2, <2>1 DEF AgainIsQuiet
  <2>3. PICK q \in LiveIn(products) : products[q].slug = doc.slug
    BY <1>4, <2>1 DEF SettledIsDeclared, Again
  <2>4. q \notin DOMAIN draft.products
    <3>1. SUFFICES ASSUME q \in DOMAIN draft.products PROVE FALSE
      OBVIOUS
    <3>2. draft.products[q].slug # doc.slug
      BY <1>1, <1>2, <1>3, <3>1, TodoHasNoDraft
    <3>3. draft.products[q].slug = products[q].slug
      BY <2>2, <3>1 DEF SameButPointer, TablesTyped, IsProducts, IsProduct, ProductColumns
    <3> QED
      BY <2>3, <3>2, <3>3
  <2>5. q \in LiveIn(ProductsSeen) /\ ProductsSeen[q].slug = doc.slug
    BY <2>3, <2>4, SeenRows DEF SeenIs, LiveIn
  <2>6. p \in LiveIn(ProductsSeen) /\ ProductsSeen[p].slug = doc.slug
    BY <1>4, <1>5, <2>5, CandidateIs
  <2>7. p # Null
    BY <2>6, SeenTyped DEF IsProducts, LiveIn
  <2>8. before = products[p] /\ p \in LiveIn(products)
    BY <1>15, <2>6, <2>7, SeenRows DEF SeenIs, LiveIn, before
  <2> QED
    BY <2>2, <2>6, <2>7, <2>8 DEF SameButPointer, before
<1> QED
  BY <1>8, <1>10, <1>13, <1>14, <1>16, <1>17

\* A row that collides with none may be written among unique ones.
LEMMA UniqueOver ==
  ASSUME NEW rows, NEW more, NEW p, AreUnique(rows), DOMAIN more = DOMAIN rows \union {p},
         \A q \in DOMAIN rows : q # p => more[q] = rows[q],
         ~Collides(rows, p, more[p])
  PROVE  AreUnique(more)
<1> SUFFICES ASSUME NEW q \in LiveIn(more), NEW s \in LiveIn(more), q # s
             PROVE  more[q].name # more[s].name /\ (more[q].slug # Null => more[q].slug # more[s].slug)
  BY DEF AreUnique
<1>1. \A t \in LiveIn(more) : t # p => t \in LiveIn(rows) /\ more[t] = rows[t]
  BY DEF LiveIn
<1>2. CASE q # p /\ s # p
  BY <1>1, <1>2 DEF AreUnique
<1>3. CASE q = p
  <2>1. ~more[p].deleted /\ s \in LiveIn(rows) \ {p} /\ more[s] = rows[s]
    BY <1>1, <1>3 DEF LiveIn
  <2> QED
    BY <1>3, <2>1 DEF Collides
<1>4. CASE s = p
  <2>1. ~more[p].deleted /\ q \in LiveIn(rows) \ {p} /\ more[q] = rows[q]
    BY <1>1, <1>4 DEF LiveIn
  <2> QED
    BY <1>4, <2>1 DEF Collides
<1> QED
  BY <1>2, <1>3, <1>4

\* Templates stay those of their products in what an apply sees.
LEMMA LastingIs ==
  ASSUME NEW x, NEW y, Lasting(x) = Lasting(y)
  PROVE  x.product = y.product /\ x.spec = y.spec /\ x.catalog = y.catalog
<1>1. /\ Lasting(x).product = x.product /\ Lasting(x).spec = x.spec /\ Lasting(x).catalog = x.catalog
      /\ Lasting(y).product = y.product /\ Lasting(y).spec = y.spec /\ Lasting(y).catalog = y.catalog
  BY DEF Lasting
<1> QED
  BY <1>1

LEMMA TemplatesLast ==
  ASSUME CatalogInv
  PROVE  \A t \in DOMAIN templates :
           /\ t \in DOMAIN TemplatesSeen /\ Lasting(TemplatesSeen[t]) = Lasting(templates[t])
           /\ TemplatesSeen[t].product = templates[t].product /\ TemplatesSeen[t].spec = templates[t].spec
           /\ TemplatesSeen[t].catalog = templates[t].catalog /\ TemplatesSeen[t].deleted = templates[t].deleted
           /\ templates[t].version # Null => TemplatesSeen[t].version = templates[t].version
<1> SUFFICES ASSUME NEW t \in DOMAIN templates
             PROVE  /\ t \in DOMAIN TemplatesSeen /\ Lasting(TemplatesSeen[t]) = Lasting(templates[t])
                    /\ TemplatesSeen[t].deleted = templates[t].deleted
                    /\ templates[t].version # Null => TemplatesSeen[t].version = templates[t].version
  BY LastingIs
<1>1. t \in DOMAIN TemplatesSeen
  BY SeenRows DEF SeenIs
<1>2. CASE t \notin DOMAIN draft.templates
  BY <1>1, <1>2, SeenRows DEF SeenIs
<1>3. CASE t \in DOMAIN draft.templates
  <2>1. TemplatesSeen[t] = draft.templates[t]
    BY <1>3, SeenRows DEF SeenIs
  <2>2. advisoryLock # Null
    BY <1>3, NoDraftIs DEF CatalogInv, RolloutsFit
  <2>3. PICK r \in Rollouts : advisoryLock = r
    BY <2>2 DEF CatalogInv, RolloutsFit
  <2> QED
    BY <1>1, <1>3, <2>1, <2>3 DEF CatalogInv, DraftFits
<1> QED
  BY <1>2, <1>3

\* What is seen points to what is seen.
LEMMA SeenPointers ==
  ASSUME CatalogInv
  PROVE  PointersFit(ProductsSeen, TemplatesSeen)
<1> SUFFICES ASSUME NEW p \in DOMAIN ProductsSeen, ProductsSeen[p].template # Null
             PROVE  /\ ProductsSeen[p].template \in DOMAIN TemplatesSeen
                    /\ TemplatesSeen[ProductsSeen[p].template].product = p
  BY DEF PointersFit
<1>1. CASE p \in DOMAIN draft.products
  BY <1>1, SeenRows DEF SeenIs, CatalogInv, TablesFit, PointersFit
<1>2. CASE p \notin DOMAIN draft.products
  <2>1. p \in DOMAIN products /\ ProductsSeen[p] = products[p]
    BY <1>2, SeenRows DEF SeenIs
  <2>2. products[p].template \in DOMAIN templates /\ templates[products[p].template].product = p
    BY <2>1 DEF CatalogInv, TablesFit, PointersFit
  <2> QED
    BY <2>1, <2>2, TemplatesLast
<1> QED
  BY <1>1, <1>2

\* The row that an apply creates.
LEMMA NewProductIs ==
  ASSUME NEW d, d.name \in ProductNames, d.slug \in Nat \ {Null}
  PROVE  LET x == NewProduct(d) IN
         /\ IsProduct(x) /\ x.name = d.name /\ x.slug = d.slug /\ ~x.deleted /\ x.template = Null
  BY DEF NewProduct, IsProduct, ProductColumns, Null

\* An apply of the image last applied has nothing to write to a row.
LEMMA AgainWritesNothing ==
  ASSUME CatalogInv, NEW r \in Rollouts, rollout[r].step = "write", Again(r)
  PROVE  rollout[r].product # Null /\ Described(rollout[r].seen, rollout[r].doc) = rollout[r].seen
<1> USE DEF CatalogInv
<1> DEFINE p == rollout[r].product
           doc == rollout[r].doc
           before == rollout[r].seen
<1>1. advisoryLock = r /\ doc \in merged[rollout[r].image] /\ IsImage(merged[rollout[r].image])
  BY DEF RolloutsFit, InApply, WithDocument
<1>2. p \in LiveIn(products) /\ products[p].slug = doc.slug /\ SameButPointer(before, products[p])
  BY <1>1 DEF AgainIsQuiet, WithDocument
<1>3. p # Null /\ IsProduct(products[p])
  BY <1>2 DEF TablesTyped, IsProducts, LiveIn
<1>4. IsProduct(before)
  BY <1>3 DEF KnowsRow, KnowsItsRow
<1>5. products[p].name = doc.name /\ products[p].listing = doc.listing
  BY <1>1, <1>2 DEF SettledIsDeclared, Again, IsDeclared
<1>6. before.name = products[p].name /\ before.listing = products[p].listing /\ before.slug = products[p].slug
  BY <1>2, <1>3, <1>4 DEF SameButPointer, IsProduct, ProductColumns
<1>7. doc.name \in ProductNames /\ doc.slug \in Nat \ {Null}
  BY <1>1 DEF IsImage
<1> HIDE DEF p, doc, before
<1>8. Described(before, doc) = before
  <2> DEFINE entry == Described(before, doc)
  <2>1. /\ IsProduct(entry) /\ entry.name = doc.name /\ entry.listing = doc.listing /\ entry.slug = doc.slug
        /\ entry.visibility = before.visibility /\ entry.template = before.template /\ entry.icon = before.icon
        /\ entry.shots = before.shots /\ entry.deleted = before.deleted
    BY <1>4, <1>7, DescribedIs
  <2> HIDE DEF entry
  <2>2. entry = before
    BY <1>2, <1>4, <1>5, <1>6, <2>1, SameProduct
  <2> QED
    BY <2>2 DEF entry
<1> QED
  BY <1>3, <1>8 DEF p, doc, before

\* What the flush of a described row at p leaves, as the next steps need it.
Wrote(r, p) ==
  LET doc == rollout[r].doc
      entry == Described(rollout[r].seen, doc) IN
  /\ Turns(r, [step |-> "match", product |-> p, seen |-> entry])
  /\ UNCHANGED <<products, templates, releaseNotes, advisoryLock, touched, settled, copied>>
  /\ draft'.templates = draft.templates /\ draft'.releases = draft.releases
  /\ draft' = [products |-> draft'.products, templates |-> draft'.templates, releases |-> draft'.releases]
  /\ IsProducts(draft'.products)
  /\ IsProduct(entry) /\ entry = Described(entry, doc) /\ ~entry.deleted
  /\ DOMAIN draft'.products \subseteq DOMAIN draft.products \union {p}
  /\ DOMAIN draft.products \subseteq DOMAIN draft'.products
  /\ p \notin DOMAIN draft.products
  /\ \A q \in DOMAIN draft.products : draft'.products[q] = draft.products[q]
  /\ p \in DOMAIN ProductsSeen'
  /\ DOMAIN ProductsSeen' = DOMAIN ProductsSeen \union {p}
  /\ \A q \in DOMAIN ProductsSeen : q # p => ProductsSeen'[q] = ProductsSeen[q]
  /\ ProductsSeen'[p].slug = doc.slug
  /\ p \in touched \/ ProductsSeen'[p] = entry
  /\ p \in DOMAIN products =>
       /\ ProductsSeen'[p].visibility = products[p].visibility
       /\ ProductsSeen'[p].template = products[p].template
       /\ ProductsSeen[p].slug \in {doc.slug, Null}
       /\ p \notin touched =>
            /\ ~products[p].deleted /\ entry.icon = products[p].icon
            /\ products[p].slug = doc.slug \/ (products[p].slug = Null /\ products[p].name = doc.name)
  /\ p \notin DOMAIN products => p \notin DOMAIN ProductsSeen /\ ProductsSeen'[p].template = Null
  /\ AreUnique(ProductsSeen')
  /\ Again(r) => draft' = draft /\ entry = rollout[r].seen /\ p = rollout[r].product

\* A row is flushed, as described where nobody else has written to it; or the apply ends.
LEMMA WriteIs ==
  ASSUME CatalogInv, NEW r \in Rollouts, WriteProduct(r)
  PROVE  (Rollback(r) /\ ~Again(r)) \/ \E p \in Nat \ {Null} : Wrote(r, p)
<1> USE DEF CatalogInv
<1> DEFINE doc == rollout[r].doc
           before == rollout[r].seen
           entry == Described(before, doc)
           new == rollout[r].product = Null
           differs == new \/ entry # before
           Target == IF new THEN FreshIn(ProductsSeen, MaxProducts) ELSE {rollout[r].product}
<1>1. rollout[r].step = "write" /\ advisoryLock = r
  BY DEF WriteProduct, RolloutsFit, InApply
<1>2. doc \in merged[rollout[r].image] /\ IsImage(merged[rollout[r].image])
  BY <1>1 DEF RolloutsFit, WithDocument
<1>3. doc.name \in ProductNames /\ doc.slug \in Nat \ {Null}
  BY <1>2 DEF IsImage
<1>4. new => before = NewProduct(doc)
  BY <1>1 DEF KnowsRow, KnowsItsRow
<1>5. ~new => LET p == rollout[r].product IN
         /\ p \in DOMAIN products \ DOMAIN draft.products /\ IsProduct(before) /\ ~before.deleted
         /\ before.slug = products[p].slug
         /\ before.slug = doc.slug \/ (before.slug = Null /\ before.name = doc.name)
         /\ p \in touched \/ before = products[p]
  BY <1>1 DEF KnowsRow, KnowsItsRow
<1>6. PICK p \in Target :
        LET lands == IF new THEN entry ELSE Flushed(ProductsSeen[p], before, entry) IN
        IF differs /\ Collides(ProductsSeen, p, lands)
        THEN Rollback(r)
        ELSE /\ draft' = IF differs THEN [draft EXCEPT !.products = Over(Single(p, lands), @)] ELSE draft
             /\ Turns(r, [step |-> "match", product |-> p, seen |-> entry])
             /\ KeepsRows /\ UNCHANGED <<advisoryLock, touched>>
  BY DEF WriteProduct
<1> DEFINE lands == IF new THEN entry ELSE Flushed(ProductsSeen[p], before, entry)
<1>7. IsProduct(before) /\ ~before.deleted
  BY <1>3, <1>4, <1>5, NewProductIs
<1>8. /\ IsProduct(entry) /\ entry.name = doc.name /\ entry.listing = doc.listing /\ entry.slug = doc.slug
      /\ entry.curated = TRUE /\ entry.visibility = before.visibility /\ entry.template = before.template
      /\ entry.icon = before.icon /\ entry.shots = before.shots /\ entry.deleted = before.deleted /\ Described(entry, doc) = entry
  <2> HIDE DEF doc, before
  <2>1. LET x == Described(before, doc) IN
        /\ IsProduct(x) /\ x.name = doc.name /\ x.listing = doc.listing /\ x.slug = doc.slug
        /\ x.curated = TRUE /\ x.visibility = before.visibility /\ x.template = before.template
        /\ x.icon = before.icon /\ x.shots = before.shots /\ x.deleted = before.deleted /\ Described(x, doc) = x
    <3>1. IsProduct(before)
      BY <1>7
    <3> QED
      BY <1>3, <3>1, DescribedIs
  <2> QED
    BY <2>1
<1>9. Again(r) => ~differs
  <2> SUFFICES ASSUME Again(r) PROVE ~differs
    OBVIOUS
  <2>1. rollout[r].product # Null /\ Described(rollout[r].seen, rollout[r].doc) = rollout[r].seen
    BY <1>1, AgainWritesNothing
  <2> QED
    BY <2>1
<1>10. /\ new => p \in Nat \ {Null} /\ p \notin DOMAIN ProductsSeen
       /\ ~new => p = rollout[r].product
  BY CatalogAssumption DEF FreshIn, Null
<1>11. ~new => /\ p \in DOMAIN products \ DOMAIN draft.products /\ before.slug = products[p].slug
               /\ before.slug = doc.slug \/ (before.slug = Null /\ before.name = doc.name)
               /\ p \in touched \/ before = products[p]
               /\ p \in DOMAIN ProductsSeen /\ ProductsSeen[p] = products[p] /\ p \in Nat \ {Null}
               /\ IsProduct(products[p])
  BY <1>5, <1>10, SeenRows DEF SeenIs, TablesTyped, IsProducts
<1> HIDE DEF doc, before, new, entry
<1>12. /\ IsProduct(lands) /\ lands.slug = doc.slug
       /\ new => lands = entry
       /\ ~new => lands.visibility = products[p].visibility /\ lands.template = products[p].template
       /\ p \in touched \/ lands = entry
  <2>1. CASE new
    BY <1>8, <2>1
  <2>2. CASE ~new
    <3> DEFINE y == Flushed(products[p], before, entry)
    <3>1. /\ y = [c \in ProductColumns |-> y[c]]
          /\ y.name = IF entry.name = before.name THEN products[p].name ELSE entry.name
          /\ y.slug = IF entry.slug = before.slug THEN products[p].slug ELSE entry.slug
          /\ y.curated = IF entry.curated = before.curated THEN products[p].curated ELSE entry.curated
          /\ y.visibility = IF entry.visibility = before.visibility THEN products[p].visibility ELSE entry.visibility
          /\ y.template = IF entry.template = before.template THEN products[p].template ELSE entry.template
          /\ y.deleted = IF entry.deleted = before.deleted THEN products[p].deleted ELSE entry.deleted
          /\ products[p] = before => y = entry
      BY <1>7, <1>8, <1>11, <2>2, FlushedIs
    <3>2. lands = y
      BY <1>11, <2>2
    <3> HIDE DEF y, lands
    <3>3. y.slug = doc.slug /\ y.visibility = products[p].visibility /\ y.template = products[p].template
      BY <1>8, <1>11, <2>2, <3>1
    <3>4. y.name \in ProductNames /\ y.deleted \in BOOLEAN
      BY <1>8, <1>11, <2>2, <3>1 DEF IsProduct
    <3>5. y.curated = TRUE
      BY <1>3, <1>7, <1>8, <1>11, <2>2, <3>1 DEF IsProduct
    <3>6. IsProduct(y)
      BY <1>3, <3>1, <3>3, <3>4, <3>5 DEF IsProduct
    <3> QED
      BY <1>11, <2>2, <3>1, <3>2, <3>3, <3>6
  <2> QED
    BY <2>1, <2>2
<1> HIDE DEF lands
<1>13. CASE differs /\ Collides(ProductsSeen, p, lands)
  BY <1>6, <1>9, <1>13 DEF lands
<1>14. CASE ~(differs /\ Collides(ProductsSeen, p, lands))
  <2>1. /\ draft' = IF differs THEN [draft EXCEPT !.products = Over(Single(p, lands), @)] ELSE draft
        /\ Turns(r, [step |-> "match", product |-> p, seen |-> entry])
        /\ UNCHANGED <<products, templates, releaseNotes, advisoryLock, touched, settled, copied>>
    BY <1>6, <1>14 DEF KeepsRows, lands
  <2>2. p \in Nat \ {Null} /\ p \notin DOMAIN draft.products /\ IsFunction(draft.products)
    BY <1>10, <1>11, SeenRows DEF SeenIs, TablesTyped, IsProducts
  <2> DEFINE more == Over(Single(p, lands), draft.products)
  <2>3. /\ IsFunction(more) /\ DOMAIN more = DOMAIN draft.products \union {p} /\ more[p] = lands
        /\ \A q \in DOMAIN draft.products : q # p => more[q] = draft.products[q]
    <3> DEFINE base == draft.products
    <3> HIDE DEF base
    <3>1. LET h == Over(Single(p, lands), base) IN
          /\ IsFunction(h) /\ DOMAIN h = DOMAIN base \union {p} /\ h[p] = lands
          /\ \A q \in DOMAIN base : q # p => h[q] = base[q]
      BY DEF Over, Single, IsFunction
    <3> QED
      BY <3>1 DEF base
  <2> HIDE DEF more
  <2>4. draft = [products |-> draft.products, templates |-> draft.templates, releases |-> draft.releases]
    BY DEF TablesTyped
  <2>5. /\ draft'.products = IF differs THEN more ELSE draft.products
        /\ draft'.templates = draft.templates /\ draft'.releases = draft.releases
        /\ draft' = [products |-> draft'.products, templates |-> draft'.templates, releases |-> draft'.releases]
    <3>1. draft' = IF differs THEN [draft EXCEPT !.products = more] ELSE draft
      BY <2>1 DEF more
    <3> HIDE DEF differs
    <3> QED
      BY <2>4, <3>1
  <2>6. /\ DOMAIN draft'.products = IF differs THEN DOMAIN draft.products \union {p} ELSE DOMAIN draft.products
        /\ \A q \in DOMAIN draft.products : draft'.products[q] = draft.products[q]
        /\ differs => draft'.products[p] = lands
        /\ IsFunction(draft'.products)
    <3> HIDE DEF differs
    <3> QED
      BY <2>2, <2>3, <2>5
  <2>7. IsProducts(draft'.products)
    <3> HIDE DEF differs
    <3> QED
      BY <1>12, <2>2, <2>6 DEF TablesTyped, IsProducts
  <2>8. /\ IsFunction(ProductsSeen') /\ DOMAIN ProductsSeen' = DOMAIN draft'.products \union DOMAIN products
        /\ \A q \in DOMAIN draft'.products : ProductsSeen'[q] = draft'.products[q]
        /\ \A q \in DOMAIN products : q \notin DOMAIN draft'.products => ProductsSeen'[q] = products[q]
    <3>1. SeenIs'
      BY SeenRows, PTL
    <3> QED
      BY <2>1, <3>1 DEF SeenIs
  <2>9. ~differs => p \in DOMAIN products /\ ProductsSeen'[p] = products[p] /\ entry = before /\ ~new
    BY <1>11, <2>6, <2>8
  <2>10. /\ DOMAIN ProductsSeen' = DOMAIN ProductsSeen \union {p}
         /\ \A q \in DOMAIN ProductsSeen : q # p => ProductsSeen'[q] = ProductsSeen[q]
         /\ differs => ProductsSeen'[p] = lands
    <3> HIDE DEF differs
    <3> QED
      BY <2>6, <2>8, <2>9, SeenRows DEF SeenIs
  <2>11. ProductsSeen'[p].slug = doc.slug /\ (p \in touched \/ ProductsSeen'[p] = entry)
    <3>1. CASE differs
      BY <1>12, <2>10, <3>1
    <3>2. CASE ~differs
      BY <1>8, <1>11, <2>9, <3>2
    <3> QED
      BY <3>1, <3>2
  <2>12. ~new => /\ ProductsSeen'[p].visibility = products[p].visibility
                 /\ ProductsSeen'[p].template = products[p].template
                 /\ ProductsSeen[p].slug \in {doc.slug, Null}
                 /\ p \notin touched =>
                      /\ ~products[p].deleted /\ entry.icon = products[p].icon
                      /\ products[p].slug = doc.slug \/ (products[p].slug = Null /\ products[p].name = doc.name)
    <3>1. ~new => /\ ProductsSeen'[p].visibility = products[p].visibility
                  /\ ProductsSeen'[p].template = products[p].template
      <4> HIDE DEF differs
      <4> QED
        BY <1>12, <2>9, <2>10
    <3>2. ~new => /\ ProductsSeen[p].slug \in {doc.slug, Null}
                  /\ p \notin touched =>
                      /\ ~products[p].deleted /\ entry.icon = products[p].icon
                      /\ products[p].slug = doc.slug \/ (products[p].slug = Null /\ products[p].name = doc.name)
      BY <1>7, <1>8, <1>11
    <3> QED
      BY <3>1, <3>2
  <2>13. new => /\ p \notin DOMAIN products /\ p \notin DOMAIN ProductsSeen /\ ProductsSeen'[p] = entry
                /\ ProductsSeen'[p].template = Null
    <3>1. new => p \notin DOMAIN products /\ p \notin DOMAIN ProductsSeen /\ ProductsSeen'[p] = entry
      BY <1>10, <1>12, <2>10, SeenRows DEF SeenIs
    <3>2. new => entry.template = Null
      BY <1>3, <1>4, <1>8, NewProductIs
    <3> QED
      BY <3>1, <3>2
  <2>14. AreUnique(ProductsSeen')
    <3>1. CASE differs
      <4>1. ~Collides(ProductsSeen, p, ProductsSeen'[p])
        BY <1>14, <2>10, <3>1
      <4>2. AreUnique(ProductsSeen)
        BY DEF TablesFit
      <4> QED
        BY <2>10, <4>1, <4>2, UniqueOver
    <3>2. CASE ~differs
      <4>1. ProductsSeen' = ProductsSeen
        BY <2>1, <2>5, <3>2 DEF ProductsSeen
      <4> QED
        BY <4>1 DEF TablesFit
    <3> QED
      BY <3>1, <3>2
  <2>15. ~differs => draft' = draft /\ entry = before /\ ~new
    BY <2>1
  <2>16. ~new => p = rollout[r].product
    BY <1>10
  <2>17. /\ DOMAIN draft'.products \subseteq DOMAIN draft.products \union {p}
         /\ DOMAIN draft.products \subseteq DOMAIN draft'.products
    <3> HIDE DEF differs
    <3> QED
      BY <2>6
  <2>18. IsProduct(entry) /\ entry = Described(entry, doc) /\ ~entry.deleted
    BY <1>7, <1>8
  <2>19. /\ p \in DOMAIN ProductsSeen'
         /\ p \in DOMAIN products =>
              /\ ProductsSeen'[p].visibility = products[p].visibility
              /\ ProductsSeen'[p].template = products[p].template
              /\ ProductsSeen[p].slug \in {doc.slug, Null}
              /\ p \notin touched =>
                   /\ ~products[p].deleted /\ entry.icon = products[p].icon
                   /\ products[p].slug = doc.slug \/ (products[p].slug = Null /\ products[p].name = doc.name)
         /\ p \notin DOMAIN products => p \notin DOMAIN ProductsSeen /\ ProductsSeen'[p].template = Null
    BY <1>11, <2>10, <2>12, <2>13
  <2>20. Again(r) => draft' = draft /\ entry = before /\ p = rollout[r].product
    BY <1>9, <2>15, <2>16
  <2> HIDE DEF differs
  <2>21. Wrote(r, p)
    BY <2>1, <2>2, <2>5, <2>6, <2>7, <2>10, <2>11, <2>14, <2>17, <2>18, <2>19, <2>20
    DEF Wrote, doc, before, entry
  <2> QED
    BY <2>2, <2>21
<1> QED
  BY <1>13, <1>14

LEMMA WriteKeeps ==
  ASSUME CatalogInv, NEW r \in Rollouts, WriteProduct(r)
  PROVE  CatalogInv'
<1> USE DEF CatalogInv
<1>0. PICK doc : doc = rollout[r].doc
  OBVIOUS
<1> DEFINE entry == Described(rollout[r].seen, doc)
           image == merged[rollout[r].image]
<1>1. /\ rollout[r].step = "write" /\ advisoryLock = r /\ UNCHANGED <<merged, admin, storage>>
  BY DEF WriteProduct, ByRollout, RolloutsFit, InApply
<1>2. doc \in image \ rollout[r].todo /\ IsImage(image) /\ rollout[r].todo \subseteq image
      /\ rollout[r].image \in DOMAIN merged
  BY <1>0, <1>1 DEF RolloutsFit, WithDocument
<1>3. doc.slug \in Nat \ {Null} /\ doc.name \in ProductNames
  BY <1>2 DEF IsImage
<1>4. CASE Rollback(r)
  BY <1>1, <1>4, RollbackKeeps
<1>5. ASSUME NEW p \in Nat \ {Null}, Wrote(r, p) PROVE CatalogInv'
  <2>1. /\ UNCHANGED <<products, templates, releaseNotes, advisoryLock, touched, settled, copied>>
        /\ draft'.templates = draft.templates /\ draft'.releases = draft.releases
        /\ draft' = [products |-> draft'.products, templates |-> draft'.templates, releases |-> draft'.releases]
        /\ IsProducts(draft'.products)
    BY <1>0, <1>5 DEF Wrote
  <2>2. /\ rollout' = [q \in Rollouts |-> rollout'[q]] /\ IsRun(rollout'[r])
        /\ \A q \in Rollouts : q # r => rollout'[q] = rollout[q]
        /\ rollout'[r].step = "match" /\ rollout'[r].image = rollout[r].image /\ rollout'[r].todo = rollout[r].todo
        /\ rollout'[r].doc = doc /\ rollout'[r].product = p /\ rollout'[r].seen = entry
        /\ rollout'[r].dry = rollout[r].dry
    <3> DEFINE c == [step |-> "match", product |-> p, seen |-> entry]
    <3>1. DOMAIN c = {"step", "product", "seen"} /\ c.step = "match" /\ c.product = p /\ c.seen = entry
      OBVIOUS
    <3>2. Turns(r, c)
      BY <1>0, <1>5 DEF Wrote
    <3> HIDE DEF c, entry
    <3> QED
      BY <1>0, <3>1, <3>2, TurnsIs DEF RunFields
  <2>3. TablesTyped'
    BY <2>1 DEF TablesTyped
  <2>4. RolloutsFit'
    BY <1>1, <1>2, <2>1, <2>2, CatalogAssumption DEF RolloutsFit, InApply, WithDocument
  <2>5. RequestsFit' /\ SettledIsDeclared' /\ CopyIsTrue'
    BY <1>1, <2>1 DEF RequestsFit, SettledIsDeclared, CopyIsTrue
  <2>6. TemplatesSeen' = TemplatesSeen /\ ReleasesSeen' = ReleasesSeen
    BY <2>1 DEF TemplatesSeen, ReleasesSeen
  <2>7. /\ Done(r)' = Done(r) /\ Done(r) \subseteq TakenUp(r)' /\ doc \in TakenUp(r)'
        /\ Done(r) \subseteq image \ {doc}
    BY <1>0, <1>1, <1>2, <2>2 DEF Done, TakenUp, WithDocument
  <2>8. /\ p \in DOMAIN ProductsSeen' /\ DOMAIN ProductsSeen' = DOMAIN ProductsSeen \union {p}
        /\ \A q \in DOMAIN ProductsSeen : q # p => ProductsSeen'[q] = ProductsSeen[q]
    BY <1>0, <1>5 DEF Wrote
  <2>9. ASSUME NEW d \in Done(r), NEW q \in DOMAIN ProductsSeen, ProductsSeen[q].slug = d.slug
        PROVE  q # p /\ q \in DOMAIN ProductsSeen' /\ ProductsSeen'[q] = ProductsSeen[q]
    <3>1. d.slug # doc.slug /\ d.slug # Null
      BY <1>2, <2>7 DEF IsImage
    <3>2. q # p
      BY <1>0, <1>5, <2>9, <3>1 DEF Wrote
    <3> QED
      BY <2>8, <3>2
  <2>10. ASSUME NEW q, NEW d \in Done(r), BelongsTo(q, d) PROVE BelongsTo(q, d)'
    <3>1. q \in DOMAIN ProductsSeen /\ ProductsSeen[q].slug = d.slug
      BY <2>10 DEF BelongsTo
    <3>2. q \in DOMAIN ProductsSeen' /\ ProductsSeen'[q] = ProductsSeen[q]
      BY <2>9, <3>1
    <3> QED
      BY <2>1, <2>10, <3>2 DEF BelongsTo
  <2>11. /\ IsProduct(entry) /\ ~entry.deleted /\ entry = Described(entry, doc)
         /\ p \in touched \/ ProductsSeen'[p] = entry
    BY <1>0, <1>5 DEF Wrote
  <2>12. entry.name = doc.name /\ entry.listing = doc.listing
    <3> HIDE DEF entry
    <3>1. IsProduct(entry)
      BY <2>11
    <3>2. Described(entry, doc).name = doc.name /\ Described(entry, doc).listing = doc.listing
      BY <1>3, <3>1, DescribedIs
    <3> QED
      BY <2>11, <3>2
  <2>13. BelongsTo(p, doc)'
    <3>1. ProductsSeen'[p].slug = doc.slug
      BY <1>0, <1>5 DEF Wrote
    <3>2. (p \in DOMAIN products /\ p \notin touched) =>
            /\ ~products[p].deleted /\ entry.icon = products[p].icon
            /\ products[p].slug = doc.slug \/ (products[p].slug = Null /\ products[p].name = doc.name)
      BY <1>0, <1>5 DEF Wrote
    <3> HIDE DEF entry
    <3> QED
      BY <2>1, <2>8, <2>11, <2>12, <3>1, <3>2 DEF BelongsTo
  <2>14. DraftFits'
    <3>1. SUFFICES ASSUME advisoryLock' = r
                   PROVE  /\ \A q \in DOMAIN draft'.products :
                               /\ \E d \in TakenUp(r)' : BelongsTo(q, d)'
                               /\ q \in DOMAIN products => draft'.products[q].visibility = products[q].visibility
                          /\ \A t \in DOMAIN draft.templates :
                               LET x == draft.templates[t] IN
                               /\ t \in DOMAIN templates => /\ Lasting(x) = Lasting(templates[t])
                                                            /\ x.deleted = templates[t].deleted
                                                            /\ templates[t].version # Null => x.version = templates[t].version
                               /\ t \notin DOMAIN templates =>
                                    /\ \E d \in Done(r) : /\ x.product \in DOMAIN ProductsSeen'
                                                          /\ ProductsSeen'[x.product].slug = d.slug /\ x.spec = d.spec
                                    /\ x.product \in touched \/ \A s \in LiveIn(templates) :
                                              templates[s].product = x.product => templates[s].spec # x.spec
      BY <1>1, <2>1, <2>2, <2>7 DEF DraftFits
    <3>2. ASSUME NEW q \in DOMAIN draft'.products
          PROVE  /\ \E d \in TakenUp(r)' : BelongsTo(q, d)'
                 /\ q \in DOMAIN products => draft'.products[q].visibility = products[q].visibility
      <4>1. CASE q = p
        <5>1. SeenIs'
          BY SeenRows, PTL
        <5>2. draft'.products[p] = ProductsSeen'[p]
          BY <3>2, <4>1, <5>1 DEF SeenIs
        <5>3. p \in DOMAIN products => ProductsSeen'[p].visibility = products[p].visibility
          BY <1>0, <1>5 DEF Wrote
        <5> QED
          <6>1. \E d \in TakenUp(r)' : BelongsTo(q, d)'
            BY <2>7, <2>13, <4>1
          <6> QED
            BY <4>1, <5>2, <5>3, <6>1
      <4>2. CASE q # p
        <5>1. q \in DOMAIN draft.products /\ draft'.products[q] = draft.products[q]
          BY <1>0, <1>5, <3>2, <4>2 DEF Wrote
        <5>2. PICK d \in Done(r) : BelongsTo(q, d)
          BY <1>1, <5>1 DEF DraftFits
        <5>3. q \in DOMAIN products => draft.products[q].visibility = products[q].visibility
          BY <1>1, <5>1 DEF DraftFits
        <5> QED
          BY <2>7, <2>10, <5>1, <5>2, <5>3
      <4> QED
        BY <4>1, <4>2
    <3>3. ASSUME NEW t \in DOMAIN draft.templates, t \notin DOMAIN templates
          PROVE  \E d \in Done(r) : /\ draft.templates[t].product \in DOMAIN ProductsSeen'
                                    /\ ProductsSeen'[draft.templates[t].product].slug = d.slug
                                    /\ draft.templates[t].spec = d.spec
      <4>1. PICK d \in Done(r) : /\ draft.templates[t].product \in DOMAIN ProductsSeen
                                 /\ ProductsSeen[draft.templates[t].product].slug = d.slug
                                 /\ draft.templates[t].spec = d.spec
        BY <1>1, <3>3 DEF DraftFits
      <4> QED
        BY <2>9, <4>1
    <3> QED
      BY <1>1, <3>2, <3>3 DEF DraftFits
  <2>15. KnowsRow'
    <3>1. \A q \in Rollouts : q # r => rollout'[q].step \notin InApply
      BY <1>1, <2>2 DEF RolloutsFit
    <3>2. KnowsItsRow(r)'
      BY <1>0, <2>1, <2>2, <2>11, <2>13 DEF KnowsItsRow
    <3> QED
      BY <3>1, <3>2 DEF KnowsRow, KnowsItsRow, InApply
  <2>16. TablesFit'
    <3>1. AreUnique(ProductsSeen')
      BY <1>0, <1>5 DEF Wrote
    <3>2. PointersFit(draft'.products, TemplatesSeen)
      <4> SUFFICES ASSUME NEW q \in DOMAIN draft'.products, draft'.products[q].template # Null
                   PROVE  /\ draft'.products[q].template \in DOMAIN TemplatesSeen
                          /\ TemplatesSeen[draft'.products[q].template].product = q
        BY DEF PointersFit
      <4>1. CASE q = p
        <5>1. SeenIs'
          BY SeenRows, PTL
        <5>2. draft'.products[p] = ProductsSeen'[p]
          BY <4>1, <5>1 DEF SeenIs
        <5>3. p \in DOMAIN products /\ ProductsSeen'[p].template = products[p].template
          BY <1>0, <1>5, <4>1, <5>2 DEF Wrote
        <5>4. p \notin DOMAIN draft.products
          BY <1>0, <1>5 DEF Wrote
        <5>5. p \in DOMAIN ProductsSeen /\ ProductsSeen[p] = products[p]
          BY <5>3, <5>4, SeenRows DEF SeenIs
        <5> QED
          BY <4>1, <5>2, <5>3, <5>5, SeenPointers DEF PointersFit
      <4>2. CASE q # p
        <5>1. q \in DOMAIN draft.products /\ draft'.products[q] = draft.products[q]
          BY <1>0, <1>5, <4>2 DEF Wrote
        <5> QED
          BY <5>1 DEF TablesFit, PointersFit
      <4> QED
        BY <4>1, <4>2
    <3> QED
      BY <2>1, <2>6, <3>1, <3>2 DEF TablesFit
  <2>17. DoneIsDeclared'
    <3> SUFFICES ASSUME NEW d \in Done(r)
                 PROVE  \E q \in DOMAIN ProductsSeen' :
                          /\ ProductsSeen'[q].slug = d.slug
                          /\ q \in touched \/ IsDeclared(ProductsSeen', TemplatesSeen, ReleasesSeen, q, d)
                          /\ rollout[r].dry \/ Pictures(d) \subseteq storage
      BY <1>1, <2>1, <2>2, <2>6, <2>7 DEF DoneIsDeclared
    <3>1. PICK q \in DOMAIN ProductsSeen :
            /\ ProductsSeen[q].slug = d.slug
            /\ q \in touched \/ IsDeclared(ProductsSeen, TemplatesSeen, ReleasesSeen, q, d)
            /\ rollout[r].dry \/ Pictures(d) \subseteq storage
      BY <1>1 DEF DoneIsDeclared
    <3>2. q \in DOMAIN ProductsSeen' /\ ProductsSeen'[q] = ProductsSeen[q]
      BY <2>9, <3>1
    <3> QED
      BY <3>1, <3>2 DEF IsDeclared
  <2>18. AgainIsQuiet'
    <3> SUFFICES ASSUME Again(r)'
                 PROVE  /\ \A q \in DOMAIN draft'.products : q \in DOMAIN products /\ SameButPointer(draft'.products[q], products[q])
                        /\ \A t \in DOMAIN draft.templates : t \in DOMAIN templates /\ draft.templates[t] = templates[t]
                        /\ \A q \in DOMAIN draft.releases : q \in DOMAIN releaseNotes /\ draft.releases[q] = releaseNotes[q]
                        /\ p \in LiveIn(products) /\ products[p].slug = doc.slug /\ SameButPointer(entry, products[p])
      BY <1>1, <2>1, <2>2 DEF AgainIsQuiet
    <3>1. Again(r)
      BY <1>1, <2>1, <2>2 DEF Again
    <3>2. draft' = draft /\ entry = rollout[r].seen /\ p = rollout[r].product
      BY <1>0, <1>5, <3>1 DEF Wrote
    <3> HIDE DEF entry
    <3> QED
      BY <1>0, <1>1, <3>1, <3>2 DEF AgainIsQuiet, WithDocument
  <2> QED
    BY <2>3, <2>4, <2>5, <2>14, <2>15, <2>16, <2>17, <2>18
<1> QED
  BY <1>4, <1>5, WriteIs

\* What the pictures and the template make of a row.
Filled(x, d, t) == [Pictured(x, d) EXCEPT !.template = t]

LEMMA FilledIs ==
  ASSUME NEW x, NEW d, NEW t, IsProduct(x)
  PROVE  LET y == Filled(x, d, t) IN
         /\ IsProduct(y) /\ y.icon = (IF d.icon = Null THEN x.icon ELSE d.icon) /\ y.shots = d.shots
         /\ y.template = t /\ y.name = x.name /\ y.listing = x.listing /\ y.slug = x.slug
         /\ y.curated = x.curated /\ y.visibility = x.visibility /\ y.deleted = x.deleted
<1> DEFINE y == Filled(x, d, t)
<1>1. /\ y = [c \in ProductColumns |-> y[c]]
      /\ y.icon = (IF d.icon = Null THEN x.icon ELSE d.icon) /\ y.shots = d.shots
      /\ y.template = t /\ y.name = x.name /\ y.listing = x.listing /\ y.slug = x.slug
      /\ y.curated = x.curated /\ y.visibility = x.visibility /\ y.deleted = x.deleted
  BY DEF Filled, Pictured, IsProduct, ProductColumns
<1> HIDE DEF y
<1>2. IsProduct(y)
  BY <1>1 DEF IsProduct
<1> QED
  BY <1>1, <1>2 DEF y

\* A version is filled in where there is none and the document has one.
LEMMA StampedIs ==
  ASSUME NEW rows, NEW p, NEW d, IsTemplates(rows)
  PROVE  LET st == Stamped(rows, p, d) IN
         /\ IsFunction(st) /\ DOMAIN st \subseteq LiveIn(rows)
         /\ \A s \in DOMAIN st :
              /\ IsTemplate(st[s]) /\ st[s].product = rows[s].product /\ st[s].spec = rows[s].spec
              /\ st[s].catalog = rows[s].catalog /\ st[s].deleted = rows[s].deleted /\ st[s].version # Null
              /\ rows[s].product = p /\ rows[s].version = Null /\ d.versions[rows[s].spec] # Null
         /\ \A s \in LiveIn(rows) :
              (rows[s].product = p /\ rows[s].version = Null /\ d.versions[rows[s].spec] # Null) => s \in DOMAIN st
<1> DEFINE waiting == {s \in LiveIn(rows) : /\ rows[s].product = p /\ rows[s].version = Null
                                            /\ d.versions[rows[s].spec] # Null}
           st == [s \in waiting |-> [rows[s] EXCEPT !.version = d.versions[rows[s].spec]]]
<1>1. ASSUME NEW s \in waiting
      PROVE  /\ IsTemplate(st[s]) /\ st[s].product = rows[s].product /\ st[s].spec = rows[s].spec
             /\ st[s].catalog = rows[s].catalog /\ st[s].deleted = rows[s].deleted /\ st[s].version # Null
  <2>1. IsTemplate(rows[s])
    BY DEF IsTemplates, LiveIn
  <2>2. st[s] = [rows[s] EXCEPT !.version = d.versions[rows[s].spec]]
    OBVIOUS
  <2>3. d.versions[rows[s].spec] # Null
    OBVIOUS
  <2> HIDE DEF st
  <2> QED
    BY <2>1, <2>2, <2>3 DEF IsTemplate, TemplateColumns
<1>2. DOMAIN st = waiting /\ IsFunction(st)
  BY DEF IsFunction
<1> HIDE DEF st
<1>3. st = Stamped(rows, p, d)
  BY DEF Stamped, st
<1> QED
  BY <1>1, <1>2, <1>3

\* Names, slugs and deletions decide whether rows are unique.
LEMMA UniqueSame ==
  ASSUME NEW rows, NEW more, AreUnique(rows), DOMAIN more = DOMAIN rows,
         \A q \in DOMAIN rows : more[q].name = rows[q].name /\ more[q].slug = rows[q].slug
                                /\ more[q].deleted = rows[q].deleted
  PROVE  AreUnique(more)
  BY DEF AreUnique, LiveIn

\* What the rest of a document leaves in the draft, as the next steps need it: of p's row
\* the pictures and the template, among the templates t, and p's release notes.
Depicted(doc, p, before, t) ==
  LET entry == Filled(before, doc, t) IN
  /\ draft' = [products |-> draft'.products, templates |-> draft'.templates, releases |-> draft'.releases]
  /\ IsProducts(draft'.products) /\ IsTemplates(draft'.templates) /\ IsFunction(draft'.releases)
  /\ DOMAIN draft'.products \subseteq DOMAIN draft.products \union {p}
  /\ DOMAIN ProductsSeen' = DOMAIN ProductsSeen
  /\ \A q \in DOMAIN ProductsSeen : q # p => ProductsSeen'[q] = ProductsSeen[q]
  /\ LET x == ProductsSeen[p]
         y == ProductsSeen'[p] IN
     /\ y.name = x.name /\ y.listing = x.listing /\ y.slug = x.slug /\ y.visibility = x.visibility
     /\ y.deleted = x.deleted /\ y.template \in {x.template, t}
     /\ y.icon = IF entry.icon = before.icon THEN x.icon ELSE entry.icon
     /\ y.shots = IF entry.shots = before.shots THEN x.shots ELSE entry.shots
     /\ p \in touched \/ y = entry
  /\ DOMAIN TemplatesSeen' = DOMAIN TemplatesSeen \union {t}
  /\ IF Matching(p, doc) = {} THEN t \in Nat \ (DOMAIN TemplatesSeen \union {Null}) ELSE t \in Matching(p, doc)
  /\ LET new == TemplatesSeen'[t] IN
     /\ new.product = p /\ new.spec = doc.spec /\ ~new.deleted
  /\ \A s \in DOMAIN TemplatesSeen :
       LET x == TemplatesSeen[s]
           y == TemplatesSeen'[s] IN
       /\ y.product = x.product /\ y.spec = x.spec /\ y.catalog = x.catalog /\ y.deleted = x.deleted
       /\ x.version # Null => y.version = x.version
       /\ x.product # p => y = x
  /\ \A s \in LiveIn(TemplatesSeen') :
       (TemplatesSeen'[s].product = p /\ TemplatesSeen'[s].version = Null)
         => doc.versions[TemplatesSeen'[s].spec] = Null
  /\ \A s \in DOMAIN draft'.templates : s \in DOMAIN templates => s \in DOMAIN TemplatesSeen
  /\ (/\ Matching(p, doc) # {}
      /\ \A s \in LiveIn(TemplatesSeen) : (TemplatesSeen[s].product = p /\ TemplatesSeen[s].version = Null)
                                            => doc.versions[TemplatesSeen[s].spec] = Null)
     => /\ DOMAIN draft'.templates = DOMAIN draft.templates
        /\ \A s \in DOMAIN draft.templates : draft'.templates[s] = draft.templates[s]
  /\ DOMAIN draft'.releases = DOMAIN draft.releases \union {p} /\ draft'.releases[p] = doc.releases
  /\ \A q \in DOMAIN draft.releases : q # p => draft'.releases[q] = draft.releases[q]
  /\ DOMAIN ReleasesSeen' = DOMAIN ReleasesSeen \union {p} /\ ReleasesSeen'[p] = doc.releases
  /\ \A q \in DOMAIN ReleasesSeen : q # p => ReleasesSeen'[q] = ReleasesSeen[q]

LEMMA DescribeIs ==
  ASSUME CatalogInv, NEW r \in Rollouts, DescribeProduct(r)
  PROVE  \E t : Depicted(rollout[r].doc, rollout[r].product, rollout[r].seen, t)
<1> USE DEF CatalogInv
<1>0. PICK doc, p, before : doc = rollout[r].doc /\ p = rollout[r].product /\ before = rollout[r].seen
  OBVIOUS
<1> DEFINE found == Matching(p, doc)
<1>1. /\ rollout[r].step = "match" /\ advisoryLock = r
      /\ UNCHANGED <<products, templates, releaseNotes, advisoryLock, touched, settled, copied>>
  BY DEF DescribeProduct, KeepsRows, RolloutsFit, InApply
<1>2. PICK t \in (IF found = {} THEN FreshIn(TemplatesSeen, MaxTemplates) ELSE found) :
        LET inserted == [i \in {t} \ found |-> NewTemplate(p, doc.spec, doc.versions[doc.spec], TRUE)]
            entry == Filled(before, doc, t)
        IN draft' = [products |-> IF entry = before THEN draft.products
                                  ELSE Over(Single(p, Flushed(ProductsSeen[p], before, entry)), draft.products),
                     templates |-> Over(Stamped(Over(inserted, TemplatesSeen), p, doc),
                                        Over(inserted, draft.templates)),
                     releases |-> Over(Single(p, doc.releases), draft.releases)]
  BY <1>0 DEF DescribeProduct, Filled
<1> DEFINE inserted == [i \in {t} \ found |-> NewTemplate(p, doc.spec, doc.versions[doc.spec], TRUE)]
           entry == Filled(before, doc, t)
           F == Flushed(ProductsSeen[p], before, entry)
           base == Over(inserted, TemplatesSeen)
           st == Stamped(base, p, doc)
<1>3. /\ draft'.products = IF entry = before THEN draft.products ELSE Over(Single(p, F), draft.products)
      /\ draft'.templates = Over(st, Over(inserted, draft.templates))
      /\ draft'.releases = Over(Single(p, doc.releases), draft.releases)
      /\ draft' = [products |-> draft'.products, templates |-> draft'.templates, releases |-> draft'.releases]
  BY <1>2
<1>4. /\ BelongsTo(p, doc) /\ IsProduct(before) /\ (p \in touched \/ before = ProductsSeen[p])
  BY <1>0, <1>1 DEF KnowsRow, KnowsItsRow
<1>5. p \in DOMAIN ProductsSeen /\ IsProduct(ProductsSeen[p]) /\ p \in Nat \ {Null}
  BY <1>4, SeenTyped DEF BelongsTo, IsProducts
<1>6. SeenIs'
  BY SeenRows, PTL
\* The row.
<1> HIDE DEF entry
<1>7. /\ IsProduct(entry) /\ entry.icon = (IF doc.icon = Null THEN before.icon ELSE doc.icon) /\ entry.shots = doc.shots
      /\ entry.template = t /\ entry.name = before.name /\ entry.listing = before.listing /\ entry.slug = before.slug
      /\ entry.curated = before.curated /\ entry.visibility = before.visibility /\ entry.deleted = before.deleted
  <2>1. IsProduct(before)
    BY <1>4
  <2>2. LET x == Filled(before, doc, t) IN
        /\ IsProduct(x) /\ x.icon = (IF doc.icon = Null THEN before.icon ELSE doc.icon) /\ x.shots = doc.shots
        /\ x.template = t /\ x.name = before.name /\ x.listing = before.listing /\ x.slug = before.slug
        /\ x.curated = before.curated /\ x.visibility = before.visibility /\ x.deleted = before.deleted
    BY <2>1, FilledIs
  <2> QED
    BY <2>2 DEF entry
<1> DEFINE y == IF entry = before THEN ProductsSeen[p] ELSE F
<1>8. LET x == ProductsSeen[p] IN
      /\ IsProduct(y)
      /\ y.name = x.name /\ y.listing = x.listing /\ y.slug = x.slug /\ y.visibility = x.visibility
      /\ y.deleted = x.deleted /\ y.template \in {x.template, t}
      /\ y.icon = (IF entry.icon = before.icon THEN x.icon ELSE entry.icon)
      /\ y.shots = (IF entry.shots = before.shots THEN x.shots ELSE entry.shots)
      /\ p \in touched \/ y = entry
  <2>0. PICK x : x = ProductsSeen[p]
    OBVIOUS
  <2>1. CASE entry = before
    BY <1>4, <1>5, <2>1
  <2>2. CASE entry # before
    <3>1. LET z == Flushed(x, before, entry) IN
          /\ z = [c \in ProductColumns |-> z[c]] /\ z.name = x.name /\ z.listing = x.listing /\ z.slug = x.slug
          /\ z.curated = x.curated /\ z.visibility = x.visibility
          /\ z.template = IF entry.template = before.template THEN x.template ELSE entry.template
          /\ z.icon = IF entry.icon = before.icon THEN x.icon ELSE entry.icon
          /\ z.shots = IF entry.shots = before.shots THEN x.shots ELSE entry.shots
          /\ z.deleted = x.deleted
          /\ x = before => z = entry
      BY <1>4, <1>5, <1>7, <2>0, FlushedIs
    <3>2. y = Flushed(x, before, entry)
      BY <2>0, <2>2
    <3> HIDE DEF y
    <3>3. IsProduct(y)
      <4>1. IsProduct(x)
        BY <1>5, <2>0
      <4> QED
        BY <3>1, <3>2, <4>1 DEF IsProduct
    <3>4. p \in touched \/ y = entry
      BY <1>4, <2>0, <3>1, <3>2
    <3>5. y.template \in {x.template, t}
      BY <1>7, <3>1, <3>2
    <3> QED
      BY <2>0, <3>1, <3>2, <3>3, <3>4, <3>5
  <2> QED
    BY <2>1, <2>2
<1>9. /\ IsProducts(draft'.products)
      /\ DOMAIN draft'.products \subseteq DOMAIN draft.products \union {p}
      /\ DOMAIN draft.products \subseteq DOMAIN draft'.products
      /\ \A q \in DOMAIN draft.products : q # p => draft'.products[q] = draft.products[q]
      /\ p \in DOMAIN draft'.products => draft'.products[p] = y
      /\ p \notin DOMAIN draft'.products => y = ProductsSeen[p]
  <2>1. IsProducts(draft.products)
    BY DEF TablesTyped
  <2>2. CASE entry = before
    BY <1>3, <2>1, <2>2, SeenRows DEF SeenIs
  <2>3. CASE entry # before
    <3> DEFINE h == draft'.products
               g == draft.products
    <3>1. h = Over(Single(p, F), g) /\ y = F
      BY <1>3, <2>3
    <3>2. IsProduct(F)
      BY <1>8, <3>1
    <3> HIDE DEF h, g, F, y
    <3>3. IsFunction(h) /\ DOMAIN h = DOMAIN g \union {p} /\ h[p] = F /\ \A q \in DOMAIN g : q # p => h[q] = g[q]
      BY <3>1 DEF Over, Single, IsFunction
    <3>4. IsProducts(h)
      BY <1>5, <2>1, <3>2, <3>3 DEF IsProducts, g
    <3> QED
      BY <3>1, <3>3, <3>4 DEF h, g
  <2> QED
    BY <2>2, <2>3
<1>10. /\ DOMAIN ProductsSeen' = DOMAIN ProductsSeen
       /\ \A q \in DOMAIN ProductsSeen : q # p => ProductsSeen'[q] = ProductsSeen[q]
       /\ ProductsSeen'[p] = y
  <2> HIDE DEF y
  <2>1. DOMAIN ProductsSeen' = DOMAIN ProductsSeen
    BY <1>1, <1>5, <1>6, <1>9, SeenRows DEF SeenIs
  <2>2. ASSUME NEW q \in DOMAIN ProductsSeen, q # p PROVE ProductsSeen'[q] = ProductsSeen[q]
    BY <1>1, <1>6, <1>9, <2>2, SeenRows DEF SeenIs
  <2>3. ProductsSeen'[p] = y
    <3>1. CASE p \in DOMAIN draft'.products
      BY <1>6, <1>9, <3>1 DEF SeenIs
    <3>2. CASE p \notin DOMAIN draft'.products
      BY <1>1, <1>5, <1>6, <1>9, <3>2, SeenRows DEF SeenIs
    <3> QED
      BY <3>1, <3>2
  <2> QED
    BY <2>1, <2>2, <2>3
\* The templates.
<1>11. IF found = {} THEN t \in Nat \ (DOMAIN TemplatesSeen \union {Null}) ELSE t \in found
  BY <1>2, CatalogAssumption DEF FreshIn, Null
<1>12. \A s \in found : s \in LiveIn(TemplatesSeen) /\ TemplatesSeen[s].product = p /\ TemplatesSeen[s].spec = doc.spec
  BY DEF Matching
<1> HIDE DEF found, F, y
<1> DEFINE fresh == NewTemplate(p, doc.spec, doc.versions[doc.spec], TRUE)
<1>13. /\ IsTemplate(fresh) /\ fresh.product = p /\ fresh.spec = doc.spec
       /\ fresh.version = doc.versions[doc.spec] /\ fresh.catalog = TRUE /\ fresh.deleted = FALSE
  <2>1. PICK s, v : s = doc.spec /\ v = doc.versions[doc.spec]
    OBVIOUS
  <2>2. LET x == NewTemplate(p, s, v, TRUE) IN
        IsTemplate(x) /\ x.product = p /\ x.spec = s /\ x.version = v /\ x.catalog = TRUE /\ x.deleted = FALSE
    BY DEF NewTemplate, IsTemplate, TemplateColumns
  <2> QED
    BY <2>1, <2>2
<1>14. inserted = [i \in {t} \ found |-> fresh]
  OBVIOUS
<1> HIDE DEF inserted, fresh
<1>15. /\ DOMAIN inserted = IF found = {} THEN {t} ELSE {}
       /\ found = {} => inserted[t] = fresh
  BY <1>11, <1>14
<1>16. /\ IsTemplates(base) /\ DOMAIN base = DOMAIN TemplatesSeen \union {t}
       /\ \A s \in DOMAIN TemplatesSeen : base[s] = TemplatesSeen[s]
       /\ base[t].product = p /\ base[t].spec = doc.spec /\ ~base[t].deleted
  <2>1. /\ IsFunction(base) /\ DOMAIN base = DOMAIN inserted \union DOMAIN TemplatesSeen
        /\ \A i \in DOMAIN inserted : base[i] = inserted[i]
        /\ \A i \in DOMAIN TemplatesSeen : i \notin DOMAIN inserted => base[i] = TemplatesSeen[i]
    BY OverIs
  <2> HIDE DEF base
  <2>2. CASE found = {}
    <3>1. DOMAIN base = DOMAIN TemplatesSeen \union {t} /\ base[t] = fresh
          /\ \A s \in DOMAIN TemplatesSeen : base[s] = TemplatesSeen[s]
      BY <1>11, <1>15, <2>1, <2>2
    <3>2. IsTemplates(base)
      BY <1>11, <1>13, <2>1, <2>2, <3>1, SeenTyped DEF IsTemplates
    <3> QED
      BY <1>13, <3>1, <3>2
  <2>3. CASE found # {}
    <3>1. /\ DOMAIN base = DOMAIN TemplatesSeen /\ t \in DOMAIN TemplatesSeen
          /\ \A s \in DOMAIN TemplatesSeen : base[s] = TemplatesSeen[s]
      BY <1>11, <1>12, <1>15, <2>1, <2>3 DEF LiveIn
    <3>2. IsTemplates(base)
      BY <2>1, <3>1, SeenTyped DEF IsTemplates
    <3>3. base[t].product = p /\ base[t].spec = doc.spec /\ ~base[t].deleted
      BY <1>11, <1>12, <2>3, <3>1 DEF LiveIn
    <3> QED
      BY <3>1, <3>2, <3>3
  <2> QED
    BY <2>2, <2>3
<1> HIDE DEF base
<1>17. /\ IsFunction(st) /\ DOMAIN st \subseteq LiveIn(base)
       /\ \A s \in DOMAIN st :
            /\ IsTemplate(st[s]) /\ st[s].product = base[s].product /\ st[s].spec = base[s].spec
            /\ st[s].catalog = base[s].catalog /\ st[s].deleted = base[s].deleted /\ st[s].version # Null
            /\ base[s].product = p /\ base[s].version = Null /\ doc.versions[base[s].spec] # Null
       /\ \A s \in LiveIn(base) :
            (base[s].product = p /\ base[s].version = Null /\ doc.versions[base[s].spec] # Null) => s \in DOMAIN st
  BY <1>16, StampedIs
<1> HIDE DEF st
<1>18. /\ IsFunction(draft'.templates)
       /\ DOMAIN draft'.templates = DOMAIN st \union DOMAIN inserted \union DOMAIN draft.templates
       /\ \A s \in DOMAIN st : draft'.templates[s] = st[s]
       /\ \A s \in DOMAIN inserted : s \notin DOMAIN st => draft'.templates[s] = inserted[s]
       /\ \A s \in DOMAIN draft.templates :
            (s \notin DOMAIN st /\ s \notin DOMAIN inserted) => draft'.templates[s] = draft.templates[s]
  <2> DEFINE g == draft.templates
             k == Over(inserted, g)
             h == Over(st, k)
  <2>1. h = draft'.templates
    BY <1>3
  <2> HIDE DEF g
  <2>2. /\ DOMAIN k = DOMAIN inserted \union DOMAIN g
        /\ \A i \in DOMAIN inserted : k[i] = inserted[i]
        /\ \A i \in DOMAIN g : i \notin DOMAIN inserted => k[i] = g[i]
    BY OverIs
  <2> HIDE DEF k
  <2>3. /\ IsFunction(h) /\ DOMAIN h = DOMAIN st \union DOMAIN k
        /\ \A i \in DOMAIN st : h[i] = st[i]
        /\ \A i \in DOMAIN k : i \notin DOMAIN st => h[i] = k[i]
    BY OverIs
  <2> HIDE DEF h
  <2> QED
    BY <2>1, <2>2, <2>3 DEF g
<1>19. \A s \in DOMAIN base : s \in DOMAIN TemplatesSeen'
           /\ TemplatesSeen'[s] = IF s \in DOMAIN st THEN st[s] ELSE base[s]
  <2> SUFFICES ASSUME NEW s \in DOMAIN base
               PROVE  s \in DOMAIN TemplatesSeen' /\ TemplatesSeen'[s] = IF s \in DOMAIN st THEN st[s] ELSE base[s]
    OBVIOUS
  <2>1. CASE s \in DOMAIN st
    BY <1>6, <1>18, <2>1 DEF SeenIs
  <2>2. CASE s \notin DOMAIN st /\ s \in DOMAIN inserted
    <3>1. s = t /\ found = {}
      BY <1>15, <2>2
    <3>2. base[s] = inserted[s]
      <4>1. \A i \in DOMAIN inserted : base[i] = inserted[i]
        BY OverIs DEF base
      <4> QED
        BY <2>2, <4>1
    <3> QED
      BY <1>6, <1>18, <2>2, <3>2 DEF SeenIs
  <2>3. CASE s \notin DOMAIN st /\ s \notin DOMAIN inserted
    <3>1. s \in DOMAIN TemplatesSeen /\ base[s] = TemplatesSeen[s]
      BY <1>11, <1>12, <1>15, <1>16, <2>3 DEF LiveIn
    <3>2. CASE s \in DOMAIN draft.templates
      BY <1>6, <1>18, <2>3, <3>1, <3>2, SeenRows DEF SeenIs
    <3>3. CASE s \notin DOMAIN draft.templates
      BY <1>1, <1>6, <1>18, <2>3, <3>1, <3>3, SeenRows DEF SeenIs
    <3> QED
      BY <3>2, <3>3
  <2> QED
    BY <2>1, <2>2, <2>3
<1>20. DOMAIN TemplatesSeen' = DOMAIN TemplatesSeen \union {t} /\ DOMAIN TemplatesSeen' = DOMAIN base
  <2>1. DOMAIN TemplatesSeen' = DOMAIN draft'.templates \union DOMAIN templates
    BY <1>1, <1>6 DEF SeenIs
  <2>2. DOMAIN TemplatesSeen = DOMAIN draft.templates \union DOMAIN templates
    BY SeenRows DEF SeenIs
  <2>3. DOMAIN st \subseteq DOMAIN base
    BY <1>17 DEF LiveIn
  <2>4. DOMAIN inserted \subseteq {t}
    BY <1>15
  <2>5. DOMAIN TemplatesSeen' \subseteq DOMAIN base
    BY <1>16, <1>18, <2>1, <2>2, <2>3, <2>4
  <2> QED
    BY <1>16, <1>19, <2>5
<1>21. /\ IsTemplates(draft'.templates)
  <2>1. ASSUME NEW s \in DOMAIN draft'.templates PROVE IsTemplate(draft'.templates[s]) /\ s \in Nat \ {Null}
    <3>1. s \in DOMAIN TemplatesSeen' /\ TemplatesSeen'[s] = draft'.templates[s]
      BY <1>6 DEF SeenIs
    <3> QED
      BY <1>16, <1>17, <1>19, <1>20, <3>1 DEF IsTemplates
  <2> QED
    BY <1>18, <2>1 DEF IsTemplates
<1>22. LET new == TemplatesSeen'[t] IN new.product = p /\ new.spec = doc.spec /\ ~new.deleted
  BY <1>16, <1>17, <1>19
<1>23. ASSUME NEW s \in DOMAIN TemplatesSeen
       PROVE  LET x == TemplatesSeen[s]
                  z == TemplatesSeen'[s] IN
              /\ z.product = x.product /\ z.spec = x.spec /\ z.catalog = x.catalog /\ z.deleted = x.deleted
              /\ x.version # Null => z.version = x.version
              /\ x.product # p => z = x
  BY <1>16, <1>17, <1>19
<1>24. ASSUME NEW s \in LiveIn(TemplatesSeen'), TemplatesSeen'[s].product = p, TemplatesSeen'[s].version = Null
       PROVE  doc.versions[TemplatesSeen'[s].spec] = Null
  <2>1. s \in DOMAIN base /\ ~TemplatesSeen'[s].deleted
    BY <1>20 DEF LiveIn
  <2>2. s \notin DOMAIN st
    BY <1>17, <1>19, <1>24, <2>1
  <2>3. TemplatesSeen'[s] = base[s] /\ s \in LiveIn(base)
    BY <1>19, <2>1, <2>2 DEF LiveIn
  <2> QED
    BY <1>17, <1>24, <2>2, <2>3
<1>25. ASSUME found # {},
              \A s \in LiveIn(TemplatesSeen) : (TemplatesSeen[s].product = p /\ TemplatesSeen[s].version = Null)
                                                 => doc.versions[TemplatesSeen[s].spec] = Null
       PROVE  /\ DOMAIN draft'.templates = DOMAIN draft.templates
              /\ \A s \in DOMAIN draft.templates : draft'.templates[s] = draft.templates[s]
  <2>1. DOMAIN inserted = {}
    BY <1>15, <1>25
  <2>2. DOMAIN base = DOMAIN TemplatesSeen
    BY <1>11, <1>12, <1>16, <1>25 DEF LiveIn
  <2>3. ASSUME NEW s \in DOMAIN st PROVE FALSE
    <3>1. s \in LiveIn(TemplatesSeen) /\ base[s] = TemplatesSeen[s]
      BY <1>16, <1>17, <2>2 DEF LiveIn
    <3> QED
      BY <1>17, <1>25, <3>1
  <2> QED
    BY <1>18, <2>1, <2>3
\* The release notes.
<1>26. /\ IsFunction(draft'.releases)
       /\ DOMAIN draft'.releases = DOMAIN draft.releases \union {p} /\ draft'.releases[p] = doc.releases
       /\ \A q \in DOMAIN draft.releases : q # p => draft'.releases[q] = draft.releases[q]
  <2> DEFINE g == draft.releases
             x == doc.releases
             h == draft'.releases
  <2>1. h = Over(Single(p, x), g)
    BY <1>3
  <2> HIDE DEF g, x, h
  <2>2. IsFunction(h) /\ DOMAIN h = DOMAIN g \union {p} /\ h[p] = x /\ \A q \in DOMAIN g : q # p => h[q] = g[q]
    BY <2>1 DEF Over, Single, IsFunction
  <2> QED
    BY <2>2 DEF g, x, h
<1>27. /\ DOMAIN ReleasesSeen' = DOMAIN ReleasesSeen \union {p} /\ ReleasesSeen'[p] = doc.releases
       /\ \A q \in DOMAIN ReleasesSeen : q # p => ReleasesSeen'[q] = ReleasesSeen[q]
  BY <1>1, <1>6, <1>26, SeenRows DEF SeenIs
<1>28. \A s \in DOMAIN templates : s \in DOMAIN TemplatesSeen
  BY SeenRows DEF SeenIs
<1>29. \A s \in DOMAIN TemplatesSeen :
         LET x == TemplatesSeen[s]
             z == TemplatesSeen'[s] IN
         /\ z.product = x.product /\ z.spec = x.spec /\ z.catalog = x.catalog /\ z.deleted = x.deleted
         /\ x.version # Null => z.version = x.version
         /\ x.product # p => z = x
  BY <1>23
<1>30. \A s \in LiveIn(TemplatesSeen') :
         (TemplatesSeen'[s].product = p /\ TemplatesSeen'[s].version = Null)
           => doc.versions[TemplatesSeen'[s].spec] = Null
  BY <1>24
<1>31. (/\ found # {}
        /\ \A s \in LiveIn(TemplatesSeen) : (TemplatesSeen[s].product = p /\ TemplatesSeen[s].version = Null)
                                              => doc.versions[TemplatesSeen[s].spec] = Null)
       => /\ DOMAIN draft'.templates = DOMAIN draft.templates
          /\ \A s \in DOMAIN draft.templates : draft'.templates[s] = draft.templates[s]
  BY <1>25
<1>32. Depicted(doc, p, before, t)
  <2>1. /\ draft' = [products |-> draft'.products, templates |-> draft'.templates, releases |-> draft'.releases]
        /\ IsProducts(draft'.products) /\ IsTemplates(draft'.templates) /\ IsFunction(draft'.releases)
        /\ DOMAIN draft'.products \subseteq DOMAIN draft.products \union {p}
        /\ DOMAIN ProductsSeen' = DOMAIN ProductsSeen
        /\ \A q \in DOMAIN ProductsSeen : q # p => ProductsSeen'[q] = ProductsSeen[q]
    BY <1>3, <1>9, <1>10, <1>21, <1>26
  <2>2. LET x == ProductsSeen[p]
            z == ProductsSeen'[p] IN
        /\ z.name = x.name /\ z.listing = x.listing /\ z.slug = x.slug /\ z.visibility = x.visibility
        /\ z.deleted = x.deleted /\ z.template \in {x.template, t}
        /\ z.icon = IF entry.icon = before.icon THEN x.icon ELSE entry.icon
        /\ z.shots = IF entry.shots = before.shots THEN x.shots ELSE entry.shots
        /\ p \in touched \/ z = entry
    BY <1>8, <1>10
  <2> QED
    BY <1>11, <1>20, <1>22, <1>26, <1>27, <1>28, <1>29, <1>30, <1>31, <2>1, <2>2 DEF Depicted, entry, found
<1> QED
  BY <1>0, <1>32


\* Rows that differ in their pointer at most.
LEMMA SamePointerIs ==
  ASSUME NEW x, NEW y, IsProduct(x), IsProduct(y)
  PROVE  SameButPointer(x, y) <=>
           /\ x.name = y.name /\ x.listing = y.listing /\ x.slug = y.slug /\ x.visibility = y.visibility
           /\ x.icon = y.icon /\ x.shots = y.shots /\ x.deleted = y.deleted
<1> DEFINE a == [x EXCEPT !.template = Null]
           b == [y EXCEPT !.template = Null]
<1>1. /\ IsProduct(a) /\ a.name = x.name /\ a.listing = x.listing /\ a.slug = x.slug /\ a.visibility = x.visibility
      /\ a.icon = x.icon /\ a.shots = x.shots /\ a.deleted = x.deleted /\ a.template = Null
  BY DEF IsProduct, ProductColumns
<1>2. /\ IsProduct(b) /\ b.name = y.name /\ b.listing = y.listing /\ b.slug = y.slug /\ b.visibility = y.visibility
      /\ b.icon = y.icon /\ b.shots = y.shots /\ b.deleted = y.deleted /\ b.template = Null
  BY DEF IsProduct, ProductColumns
<1>3. SameButPointer(x, y) <=> a = b
  BY DEF SameButPointer
<1> HIDE DEF a, b
<1>4. ASSUME x.name = y.name, x.listing = y.listing, x.slug = y.slug, x.visibility = y.visibility,
             x.icon = y.icon, x.shots = y.shots, x.deleted = y.deleted
      PROVE  a = b
  BY <1>1, <1>2, <1>4, SameProduct
<1>5. ASSUME a = b
      PROVE  /\ x.name = y.name /\ x.listing = y.listing /\ x.slug = y.slug /\ x.visibility = y.visibility
             /\ x.icon = y.icon /\ x.shots = y.shots /\ x.deleted = y.deleted
  BY <1>1, <1>2, <1>5
<1> QED
  BY <1>3, <1>4, <1>5

\* An apply leaves a product's visibility as it is.
LEMMA SeenVisibility ==
  ASSUME CatalogInv
  PROVE  \A p \in DOMAIN products : p \in DOMAIN ProductsSeen /\ ProductsSeen[p].visibility = products[p].visibility
<1> SUFFICES ASSUME NEW p \in DOMAIN products
             PROVE  p \in DOMAIN ProductsSeen /\ ProductsSeen[p].visibility = products[p].visibility
  OBVIOUS
<1>1. CASE p \notin DOMAIN draft.products
  BY <1>1, SeenRows DEF SeenIs
<1>2. CASE p \in DOMAIN draft.products
  <2>1. PICK r \in Rollouts : advisoryLock = r
    BY <1>2, NoDraftIs DEF CatalogInv, RolloutsFit
  <2> QED
    BY <1>2, <2>1, SeenRows DEF SeenIs, CatalogInv, DraftFits
<1> QED
  BY <1>1, <1>2

LEMMA DescribeKeeps ==
  ASSUME CatalogInv, NEW r \in Rollouts, DescribeProduct(r)
  PROVE  CatalogInv'
<1> USE DEF CatalogInv
<1>0. PICK doc, p, before : doc = rollout[r].doc /\ p = rollout[r].product /\ before = rollout[r].seen
  OBVIOUS
<1> DEFINE image == merged[rollout[r].image]
<1>1. /\ rollout[r].step = "match" /\ advisoryLock = r
      /\ UNCHANGED <<merged, admin, products, templates, releaseNotes, advisoryLock, touched, settled, copied>>
      /\ storage' = IF rollout[r].dry THEN storage ELSE storage \union Pictures(doc)
  BY <1>0 DEF DescribeProduct, KeepsRows, ByRollout, RolloutsFit, InApply
<1>2. /\ rollout' = [q \in Rollouts |-> rollout'[q]] /\ IsRun(rollout'[r])
      /\ \A q \in Rollouts : q # r => rollout'[q] = rollout[q]
      /\ rollout'[r].step = "resolve" /\ rollout'[r].image = rollout[r].image /\ rollout'[r].todo = rollout[r].todo
      /\ rollout'[r].dry = rollout[r].dry
  <2> DEFINE c == [step |-> "resolve", doc |-> Null, product |-> Null, seen |-> Null]
  <2>1. DOMAIN c = {"step", "doc", "product", "seen"} /\ c.step = "resolve"
    OBVIOUS
  <2> HIDE DEF c
  <2>2. Turns(r, c)
    BY DEF c, DescribeProduct
  <2> QED
    BY <2>1, <2>2, TurnsIs DEF RunFields
<1>3. PICK t : Depicted(doc, p, before, t)
  BY <1>0, DescribeIs
<1>4. doc \in image \ rollout[r].todo /\ IsImage(image) /\ rollout[r].todo \subseteq image
      /\ rollout[r].image \in DOMAIN merged /\ doc.slug \in Nat \ {Null} /\ doc.name \in ProductNames
  BY <1>0, <1>1 DEF RolloutsFit, WithDocument, IsImage
<1>5. /\ BelongsTo(p, doc) /\ IsProduct(before) /\ before = Described(before, doc)
      /\ p \in touched \/ before = ProductsSeen[p]
  BY <1>0, <1>1 DEF KnowsRow, KnowsItsRow
<1>6. before.name = doc.name /\ before.listing = doc.listing /\ before.slug = doc.slug
  <2>1. IsProduct(before)
    BY <1>5
  <2>2. LET x == Described(before, doc) IN x.name = doc.name /\ x.listing = doc.listing /\ x.slug = doc.slug
    BY <1>4, <2>1, DescribedIs
  <2> QED
    BY <1>5, <2>2
<1> DEFINE entry == Filled(before, doc, t)
<1>7. /\ entry.icon = (IF doc.icon = Null THEN before.icon ELSE doc.icon) /\ entry.shots = doc.shots
      /\ entry.template = t /\ entry.name = before.name /\ entry.listing = before.listing /\ entry.slug = before.slug
  <2>1. IsProduct(before)
    BY <1>5
  <2> QED
    BY <2>1, FilledIs
<1> DEFINE x == ProductsSeen[p]
           y == ProductsSeen'[p]
<1>8. /\ y.name = x.name /\ y.listing = x.listing /\ y.slug = x.slug /\ y.visibility = x.visibility
      /\ y.deleted = x.deleted /\ y.template \in {x.template, t}
      /\ y.icon = IF entry.icon = before.icon THEN x.icon ELSE entry.icon
      /\ y.shots = IF entry.shots = before.shots THEN x.shots ELSE entry.shots
      /\ p \in touched \/ y = entry
  BY <1>3 DEF Depicted
<1>9. /\ draft' = [products |-> draft'.products, templates |-> draft'.templates, releases |-> draft'.releases]
      /\ IsProducts(draft'.products) /\ IsTemplates(draft'.templates) /\ IsFunction(draft'.releases)
      /\ DOMAIN draft'.products \subseteq DOMAIN draft.products \union {p}
      /\ DOMAIN ProductsSeen' = DOMAIN ProductsSeen /\ p \in DOMAIN ProductsSeen
      /\ \A q \in DOMAIN ProductsSeen : q # p => ProductsSeen'[q] = ProductsSeen[q]
  BY <1>3, <1>5 DEF Depicted, BelongsTo
<1>10. /\ DOMAIN TemplatesSeen' = DOMAIN TemplatesSeen \union {t}
       /\ IF Matching(p, doc) = {} THEN t \in Nat \ (DOMAIN TemplatesSeen \union {Null}) ELSE t \in Matching(p, doc)
       /\ TemplatesSeen'[t].product = p /\ TemplatesSeen'[t].spec = doc.spec /\ ~TemplatesSeen'[t].deleted
  BY <1>3 DEF Depicted
<1>11. \A s \in DOMAIN TemplatesSeen :
         LET u == TemplatesSeen[s]
             v == TemplatesSeen'[s] IN
         /\ v.product = u.product /\ v.spec = u.spec /\ v.catalog = u.catalog /\ v.deleted = u.deleted
         /\ u.version # Null => v.version = u.version
         /\ u.product # p => v = u
  BY <1>3 DEF Depicted
<1>12. \A s \in LiveIn(TemplatesSeen') :
         (TemplatesSeen'[s].product = p /\ TemplatesSeen'[s].version = Null)
           => doc.versions[TemplatesSeen'[s].spec] = Null
  BY <1>3 DEF Depicted
<1>13. (/\ Matching(p, doc) # {}
        /\ \A s \in LiveIn(TemplatesSeen) : (TemplatesSeen[s].product = p /\ TemplatesSeen[s].version = Null)
                                              => doc.versions[TemplatesSeen[s].spec] = Null)
       => /\ DOMAIN draft'.templates = DOMAIN draft.templates
          /\ \A s \in DOMAIN draft.templates : draft'.templates[s] = draft.templates[s]
  BY <1>3 DEF Depicted
<1>14. /\ DOMAIN draft'.releases = DOMAIN draft.releases \union {p} /\ draft'.releases[p] = doc.releases
       /\ \A q \in DOMAIN draft.releases : q # p => draft'.releases[q] = draft.releases[q]
       /\ DOMAIN ReleasesSeen' = DOMAIN ReleasesSeen \union {p} /\ ReleasesSeen'[p] = doc.releases
       /\ \A q \in DOMAIN ReleasesSeen : q # p => ReleasesSeen'[q] = ReleasesSeen[q]
  BY <1>3 DEF Depicted
<1> HIDE DEF entry, x, y
<1>15. \A s \in Matching(p, doc) :
         s \in LiveIn(TemplatesSeen) /\ TemplatesSeen[s].product = p /\ TemplatesSeen[s].spec = doc.spec
  BY DEF Matching
<1>16. \A s \in LiveIn(TemplatesSeen) :
         (TemplatesSeen[s].product = p /\ TemplatesSeen[s].spec = doc.spec) => s \in Matching(p, doc)
  BY DEF Matching
<1>17. SeenIs'
  BY SeenRows, PTL
<1>18. TablesTyped'
  BY <1>1, <1>9 DEF TablesTyped
<1>19. RolloutsFit'
  BY <1>1, <1>2, <1>4, CatalogAssumption DEF RolloutsFit, InApply, WithDocument
<1>20. RequestsFit' /\ SettledIsDeclared' /\ CopyIsTrue'
  BY <1>1 DEF RequestsFit, SettledIsDeclared, CopyIsTrue
<1>21. /\ Done(r)' = Done(r) \union {doc} /\ Done(r) \subseteq image \ {doc}
       /\ Done(r)' = TakenUp(r)' /\ TakenUp(r)' = TakenUp(r)
  BY <1>0, <1>1, <1>2, <1>4 DEF Done, TakenUp, WithDocument
<1>22. x.slug = doc.slug /\ y.slug = doc.slug
  BY <1>5, <1>8 DEF BelongsTo, x
<1>23. \A d \in Done(r), q \in DOMAIN ProductsSeen : ProductsSeen[q].slug = d.slug =>
         q # p /\ q \in DOMAIN ProductsSeen' /\ ProductsSeen'[q] = ProductsSeen[q]
  <2> SUFFICES ASSUME NEW d \in Done(r), NEW q \in DOMAIN ProductsSeen, ProductsSeen[q].slug = d.slug
               PROVE  q # p /\ q \in DOMAIN ProductsSeen' /\ ProductsSeen'[q] = ProductsSeen[q]
    OBVIOUS
  <2>1. d.slug # doc.slug
    BY <1>4, <1>21 DEF IsImage
  <2>2. q # p
    BY <1>22, <2>1 DEF x
  <2> QED
    BY <1>9, <2>2
<1>24. \A q \in DOMAIN ProductsSeen : ProductsSeen'[q].slug = ProductsSeen[q].slug
  BY <1>9, <1>22 DEF x, y
<1>25. ASSUME NEW q, NEW d \in Done(r), BelongsTo(q, d) PROVE BelongsTo(q, d)'
  <2>1. q \in DOMAIN ProductsSeen /\ ProductsSeen[q].slug = d.slug
    BY <1>25 DEF BelongsTo
  <2>2. q \in DOMAIN ProductsSeen' /\ ProductsSeen'[q] = ProductsSeen[q]
    BY <1>23, <2>1
  <2> QED
    BY <1>1, <1>25, <2>2 DEF BelongsTo
<1>26. BelongsTo(p, doc)'
  <2>1. p \in DOMAIN ProductsSeen' /\ y.slug = doc.slug
    BY <1>9, <1>22
  <2>2. p \in touched \/ (y.name = doc.name /\ y.listing = doc.listing /\ ~y.deleted)
    BY <1>5, <1>8 DEF BelongsTo, x
  <2>3. (p \in DOMAIN products /\ p \notin touched) =>
          /\ ~products[p].deleted
          /\ products[p].slug = doc.slug \/ (products[p].slug = Null /\ products[p].name = doc.name)
          /\ y.icon \in {doc.icon, products[p].icon}
    BY <1>5, <1>7, <1>8 DEF BelongsTo, x
  <2> QED
    BY <1>1, <2>1, <2>2, <2>3 DEF BelongsTo, y
<1>27. DraftFits'
  <2>1. SUFFICES ASSUME advisoryLock' = r
                 PROVE  /\ \A q \in DOMAIN draft'.products :
                             /\ \E d \in Done(r)' : BelongsTo(q, d)'
                             /\ q \in DOMAIN products => draft'.products[q].visibility = products[q].visibility
                        /\ \A s \in DOMAIN draft'.templates :
                             LET u == draft'.templates[s] IN
                             /\ s \in DOMAIN templates => /\ Lasting(u) = Lasting(templates[s])
                                                          /\ u.deleted = templates[s].deleted
                                                          /\ templates[s].version # Null => u.version = templates[s].version
                             /\ s \notin DOMAIN templates =>
                                  /\ \E d \in Done(r)' : /\ u.product \in DOMAIN ProductsSeen'
                                                         /\ ProductsSeen'[u.product].slug = d.slug /\ u.spec = d.spec
                                  /\ u.product \in touched \/ \A z \in LiveIn(templates) :
                                            templates[z].product = u.product => templates[z].spec # u.spec
    BY <1>1, <1>2 DEF DraftFits
  <2>2. ASSUME NEW q \in DOMAIN draft'.products
        PROVE  /\ \E d \in Done(r)' : BelongsTo(q, d)'
               /\ q \in DOMAIN products => draft'.products[q].visibility = products[q].visibility
    <3>1. \E d \in Done(r)' : BelongsTo(q, d)'
      <4>1. CASE q = p
        BY <1>21, <1>26, <4>1
      <4>2. CASE q # p
        <5>1. q \in DOMAIN draft.products
          BY <1>9, <4>2
        <5>2. PICK d \in TakenUp(r) : BelongsTo(q, d)
          BY <1>1, <5>1 DEF DraftFits
        <5>3. q \in DOMAIN ProductsSeen /\ ProductsSeen[q].slug = d.slug
          BY <5>2 DEF BelongsTo
        <5>4. CASE d = doc
          <6>1. BelongsTo(q, doc)'
            <7>1. ProductsSeen'[q] = ProductsSeen[q] /\ q \in DOMAIN ProductsSeen'
              BY <1>9, <4>2, <5>3
            <7> QED
              BY <1>1, <5>2, <5>4, <7>1 DEF BelongsTo
          <6> QED
            BY <1>21, <6>1
        <5>5. CASE d # doc
          <6>1. d \in Done(r)
            BY <1>0, <1>1, <5>5 DEF Done, WithDocument
          <6> QED
            BY <1>21, <1>25, <5>2, <6>1
        <5> QED
          BY <5>4, <5>5
      <4> QED
        BY <4>1, <4>2
    <3>2. ASSUME q \in DOMAIN products PROVE draft'.products[q].visibility = products[q].visibility
      <4>1. q \in DOMAIN ProductsSeen /\ ProductsSeen[q].visibility = products[q].visibility
        BY <3>2, SeenVisibility
      <4>2. ProductsSeen'[q].visibility = ProductsSeen[q].visibility
        BY <1>8, <1>9, <4>1 DEF x, y
      <4>3. draft'.products[q] = ProductsSeen'[q]
        BY <1>17 DEF SeenIs
      <4> QED
        BY <4>1, <4>2, <4>3
    <3> QED
      BY <3>1, <3>2
  <2>3. ASSUME NEW s \in DOMAIN draft'.templates
        PROVE  draft'.templates[s] = TemplatesSeen'[s] /\ s \in DOMAIN TemplatesSeen'
    BY <1>17 DEF SeenIs
  <2>4. ASSUME NEW s \in DOMAIN draft'.templates, s \in DOMAIN templates
        PROVE  LET u == draft'.templates[s] IN
               /\ Lasting(u) = Lasting(templates[s]) /\ u.deleted = templates[s].deleted
               /\ templates[s].version # Null => u.version = templates[s].version
    <3>1. /\ s \in DOMAIN TemplatesSeen
          /\ TemplatesSeen[s].product = templates[s].product /\ TemplatesSeen[s].spec = templates[s].spec
          /\ TemplatesSeen[s].catalog = templates[s].catalog /\ TemplatesSeen[s].deleted = templates[s].deleted
          /\ templates[s].version # Null => TemplatesSeen[s].version = templates[s].version
      BY <2>4, TemplatesLast
    <3> QED
      BY <1>11, <2>3, <3>1 DEF Lasting
  <2>5. ASSUME NEW s \in DOMAIN draft'.templates, s \notin DOMAIN templates
        PROVE  LET u == draft'.templates[s] IN
               /\ \E d \in Done(r)' : /\ u.product \in DOMAIN ProductsSeen'
                                      /\ ProductsSeen'[u.product].slug = d.slug /\ u.spec = d.spec
               /\ u.product \in touched \/ \A z \in LiveIn(templates) :
                         templates[z].product = u.product => templates[z].spec # u.spec
    <3>1. CASE s \in DOMAIN draft.templates
      <4>1. TemplatesSeen[s] = draft.templates[s] /\ s \in DOMAIN TemplatesSeen
        BY <3>1, SeenRows DEF SeenIs
      <4>2. /\ draft'.templates[s].product = draft.templates[s].product
            /\ draft'.templates[s].spec = draft.templates[s].spec
        BY <1>11, <2>3, <4>1
      <4>3. PICK d \in Done(r) : /\ draft.templates[s].product \in DOMAIN ProductsSeen
                                 /\ ProductsSeen[draft.templates[s].product].slug = d.slug
                                 /\ draft.templates[s].spec = d.spec
        BY <1>1, <2>5, <3>1 DEF DraftFits
      <4>4. draft.templates[s].product \in touched \/ \A z \in LiveIn(templates) :
                templates[z].product = draft.templates[s].product => templates[z].spec # draft.templates[s].spec
        BY <1>1, <2>5, <3>1 DEF DraftFits
      <4>5. d \in Done(r)'
        BY <1>21
      <4> QED
        BY <1>9, <1>24, <4>2, <4>3, <4>4, <4>5
    <3>2. CASE s \notin DOMAIN draft.templates
      <4>1. s = t /\ Matching(p, doc) = {}
        <5>1. s \notin DOMAIN TemplatesSeen
          BY <2>5, <3>2, SeenRows DEF SeenIs
        <5>2. s = t
          BY <1>10, <2>3, <5>1
        <5> QED
          BY <1>10, <1>15, <5>1, <5>2 DEF LiveIn
      <4>2. draft'.templates[s].product = p /\ draft'.templates[s].spec = doc.spec
        BY <1>10, <2>3, <4>1
      <4>3. ASSUME NEW z \in LiveIn(templates), templates[z].product = p PROVE templates[z].spec # doc.spec
        <5>1. /\ z \in DOMAIN TemplatesSeen /\ TemplatesSeen[z].product = templates[z].product
              /\ TemplatesSeen[z].spec = templates[z].spec /\ TemplatesSeen[z].deleted = templates[z].deleted
          BY TemplatesLast DEF LiveIn
        <5>2. z \in LiveIn(TemplatesSeen)
          BY <5>1 DEF LiveIn
        <5> QED
          BY <1>16, <4>1, <4>3, <5>1, <5>2
      <4>4. p \in DOMAIN ProductsSeen' /\ ProductsSeen'[p].slug = doc.slug /\ doc \in Done(r)'
        BY <1>9, <1>21, <1>22 DEF y
      <4> QED
        BY <4>2, <4>3, <4>4
    <3> QED
      BY <3>1, <3>2
  <2> QED
    BY <2>2, <2>4, <2>5
<1>28. KnowsRow'
  <2>1. \A q \in Rollouts : rollout'[q].step \notin WithDocument
    BY <1>1, <1>2 DEF RolloutsFit, InApply, WithDocument
  <2> QED
    BY <2>1 DEF KnowsRow, KnowsItsRow, WithDocument
<1>29. TablesFit'
  <2>1. AreUnique(ProductsSeen')
    <3>1. \A q \in DOMAIN ProductsSeen :
            /\ ProductsSeen'[q].name = ProductsSeen[q].name /\ ProductsSeen'[q].slug = ProductsSeen[q].slug
            /\ ProductsSeen'[q].deleted = ProductsSeen[q].deleted
      BY <1>8, <1>9 DEF x, y
    <3>2. AreUnique(ProductsSeen) /\ DOMAIN ProductsSeen' = DOMAIN ProductsSeen
      BY <1>9 DEF TablesFit
    <3> QED
      BY <3>1, <3>2, UniqueSame
  <2>2. PointersFit(draft'.products, TemplatesSeen')
    <3> SUFFICES ASSUME NEW q \in DOMAIN draft'.products, draft'.products[q].template # Null
                 PROVE  /\ draft'.products[q].template \in DOMAIN TemplatesSeen'
                        /\ TemplatesSeen'[draft'.products[q].template].product = q
      BY DEF PointersFit
    <3>1. draft'.products[q] = ProductsSeen'[q] /\ q \in DOMAIN ProductsSeen
      BY <1>9, <1>17 DEF SeenIs
    <3>2. CASE q = p /\ y.template = t
      BY <1>10, <3>1, <3>2 DEF y
    <3>3. CASE ~(q = p /\ y.template = t)
      <4>1. ProductsSeen'[q].template = ProductsSeen[q].template
        BY <1>8, <1>9, <3>1, <3>3 DEF x, y
      <4>2. /\ ProductsSeen[q].template \in DOMAIN TemplatesSeen
            /\ TemplatesSeen[ProductsSeen[q].template].product = q
        BY <3>1, <4>1, SeenPointers DEF PointersFit
      <4> QED
        BY <1>10, <1>11, <3>1, <4>1, <4>2
    <3> QED
      BY <3>2, <3>3
  <2>3. HaveNoDuplicates(TemplatesSeen')
    <3> SUFFICES ASSUME NEW s \in LiveIn(TemplatesSeen'), NEW u \in LiveIn(TemplatesSeen'), s # u,
                        TemplatesSeen'[s].catalog, TemplatesSeen'[u].catalog,
                        TemplatesSeen'[s].product = TemplatesSeen'[u].product,
                        TemplatesSeen'[s].spec = TemplatesSeen'[u].spec
                 PROVE  FALSE
      BY DEF HaveNoDuplicates
    <3>1. \A z \in LiveIn(TemplatesSeen') : z \in DOMAIN TemplatesSeen =>
            /\ z \in LiveIn(TemplatesSeen) /\ TemplatesSeen[z].catalog = TemplatesSeen'[z].catalog
            /\ TemplatesSeen[z].product = TemplatesSeen'[z].product /\ TemplatesSeen[z].spec = TemplatesSeen'[z].spec
      BY <1>11 DEF LiveIn
    <3>2. \A z \in LiveIn(TemplatesSeen') : z \notin DOMAIN TemplatesSeen => z = t /\ Matching(p, doc) = {}
      BY <1>10, <1>15 DEF LiveIn
    <3>3. CASE s \in DOMAIN TemplatesSeen /\ u \in DOMAIN TemplatesSeen
      BY <3>1, <3>3 DEF TablesFit, HaveNoDuplicates
    <3>4. CASE s \notin DOMAIN TemplatesSeen
      BY <1>10, <1>16, <3>1, <3>2, <3>4
    <3>5. CASE u \notin DOMAIN TemplatesSeen
      BY <1>10, <1>16, <3>1, <3>2, <3>5
    <3> QED
      BY <3>3, <3>4, <3>5
  <2> QED
    BY <1>1, <2>1, <2>2, <2>3 DEF TablesFit
<1>30. DoneIsDeclared'
  <2> SUFFICES ASSUME NEW d \in Done(r) \union {doc}
               PROVE  \E q \in DOMAIN ProductsSeen' :
                        /\ ProductsSeen'[q].slug = d.slug
                        /\ q \in touched \/ IsDeclared(ProductsSeen', TemplatesSeen', ReleasesSeen', q, d)
                        /\ rollout[r].dry \/ Pictures(d) \subseteq storage'
    BY <1>1, <1>2, <1>21 DEF DoneIsDeclared
  <2>1. CASE d \in Done(r)
    <3>1. PICK q \in DOMAIN ProductsSeen :
            /\ ProductsSeen[q].slug = d.slug
            /\ q \in touched \/ IsDeclared(ProductsSeen, TemplatesSeen, ReleasesSeen, q, d)
            /\ rollout[r].dry \/ Pictures(d) \subseteq storage
      BY <1>1, <2>1 DEF DoneIsDeclared
    <3>2. q # p /\ q \in DOMAIN ProductsSeen' /\ ProductsSeen'[q] = ProductsSeen[q]
      BY <1>23, <2>1, <3>1
    <3>3. ASSUME IsDeclared(ProductsSeen, TemplatesSeen, ReleasesSeen, q, d)
          PROVE  IsDeclared(ProductsSeen', TemplatesSeen', ReleasesSeen', q, d)
      <4> DEFINE k == ProductsSeen[q].template
      <4>1. k \in LiveIn(TemplatesSeen) /\ TemplatesSeen[k].spec = d.spec /\ TemplatesSeen[k].product = q
        BY <3>3 DEF IsDeclared
      <4>2. k \in LiveIn(TemplatesSeen') /\ TemplatesSeen'[k].spec = d.spec /\ TemplatesSeen'[k].product = q
        BY <1>10, <1>11, <4>1 DEF LiveIn
      <4>3. q \in DOMAIN ReleasesSeen' /\ ReleasesSeen'[q] = d.releases
        BY <1>14, <3>2, <3>3 DEF IsDeclared
      <4>4. ASSUME NEW s \in LiveIn(TemplatesSeen'), TemplatesSeen'[s].product = q, TemplatesSeen'[s].version = Null
            PROVE  d.versions[TemplatesSeen'[s].spec] = Null
        <5>1. s \in DOMAIN TemplatesSeen
          BY <1>10, <3>2, <4>4 DEF LiveIn
        <5>2. TemplatesSeen'[s] = TemplatesSeen[s] /\ s \in LiveIn(TemplatesSeen)
          BY <1>11, <3>2, <4>4, <5>1 DEF LiveIn
        <5> QED
          BY <3>3, <4>4, <5>2 DEF IsDeclared
      <4> QED
        BY <3>2, <3>3, <4>2, <4>3, <4>4 DEF IsDeclared
    <3> QED
      BY <1>1, <3>1, <3>2, <3>3
  <2>2. CASE d = doc
    <3>1. p \in DOMAIN ProductsSeen' /\ ProductsSeen'[p].slug = doc.slug
      BY <1>9, <1>22 DEF y
    <3>2. ASSUME p \notin touched
          PROVE  IsDeclared(ProductsSeen', TemplatesSeen', ReleasesSeen', p, doc)
      <4>1. /\ ~y.deleted /\ y.name = doc.name /\ y.listing = doc.listing /\ y.shots = doc.shots
            /\ doc.icon # Null => y.icon = doc.icon
            /\ y.template = t
        BY <1>5, <1>6, <1>7, <1>8, <3>2 DEF BelongsTo, x
      <4>2. t \in LiveIn(TemplatesSeen')
        BY <1>10 DEF LiveIn
      <4> QED
        BY <1>10, <1>12, <1>14, <4>1, <4>2 DEF IsDeclared, y
    <3>3. rollout[r].dry \/ Pictures(doc) \subseteq storage'
      BY <1>1
    <3> QED
      BY <2>2, <3>1, <3>2, <3>3
  <2> QED
    BY <2>1, <2>2
<1>31. AgainIsQuiet'
  <2> SUFFICES ASSUME Again(r)'
               PROVE  /\ \A q \in DOMAIN draft'.products : q \in DOMAIN products /\ SameButPointer(draft'.products[q], products[q])
                      /\ \A s \in DOMAIN draft'.templates : s \in DOMAIN templates /\ draft'.templates[s] = templates[s]
                      /\ \A q \in DOMAIN draft'.releases : q \in DOMAIN releaseNotes /\ draft'.releases[q] = releaseNotes[q]
    BY <1>1, <1>2 DEF AgainIsQuiet, WithDocument
  <2>1. Again(r)
    BY <1>1, <1>2 DEF Again
  <2>2. /\ \A q \in DOMAIN draft.products : q \in DOMAIN products /\ SameButPointer(draft.products[q], products[q])
        /\ \A s \in DOMAIN draft.templates : s \in DOMAIN templates /\ draft.templates[s] = templates[s]
        /\ \A q \in DOMAIN draft.releases : q \in DOMAIN releaseNotes /\ draft.releases[q] = releaseNotes[q]
        /\ p \in LiveIn(products) /\ products[p].slug = doc.slug /\ SameButPointer(before, products[p])
    BY <1>0, <1>1, <2>1 DEF AgainIsQuiet, WithDocument
  <2>3. IsDeclared(products, templates, releaseNotes, p, doc)
    BY <1>4, <2>1, <2>2 DEF SettledIsDeclared, Again
  <2>4. \A s \in DOMAIN TemplatesSeen : s \in DOMAIN templates /\ TemplatesSeen[s] = templates[s]
    BY <2>2, SeenRows DEF SeenIs
  <2>5. Matching(p, doc) # {}
    <3> DEFINE k == products[p].template
    <3>1. k \in LiveIn(templates) /\ templates[k].spec = doc.spec /\ templates[k].product = p
      BY <2>3 DEF IsDeclared
    <3>2. k \in LiveIn(TemplatesSeen) /\ TemplatesSeen[k] = templates[k]
      BY <2>4, <3>1, SeenRows DEF SeenIs, LiveIn
    <3> QED
      BY <1>16, <3>1, <3>2
  <2>6. ASSUME NEW s \in LiveIn(TemplatesSeen), TemplatesSeen[s].product = p, TemplatesSeen[s].version = Null
        PROVE  doc.versions[TemplatesSeen[s].spec] = Null
    <3>1. s \in LiveIn(templates) /\ TemplatesSeen[s] = templates[s]
      BY <2>4 DEF LiveIn
    <3> QED
      BY <2>3, <2>6, <3>1 DEF IsDeclared
  <2>7. \A s \in DOMAIN draft'.templates : s \in DOMAIN templates /\ draft'.templates[s] = templates[s]
    BY <1>13, <2>2, <2>5, <2>6
  <2>8. \A q \in DOMAIN draft'.releases : q \in DOMAIN releaseNotes /\ draft'.releases[q] = releaseNotes[q]
    BY <1>14, <2>2, <2>3 DEF IsDeclared
  <2>9. ASSUME NEW q \in DOMAIN draft'.products
        PROVE  q \in DOMAIN products /\ SameButPointer(draft'.products[q], products[q])
    <3>1. draft'.products[q] = ProductsSeen'[q]
      BY <1>17 DEF SeenIs
    <3>2. CASE q # p
      <4>1. q \in DOMAIN draft.products /\ ProductsSeen[q] = draft.products[q] /\ q \in DOMAIN ProductsSeen
        BY <1>9, <3>2, SeenRows DEF SeenIs
      <4> QED
        BY <1>9, <2>2, <3>1, <3>2, <4>1
    <3>3. CASE q = p
      <4> DEFINE z == products[p]
      <4>1. p \in DOMAIN products /\ IsProduct(z) /\ IsProduct(x)
        BY <1>9, <2>2, SeenTyped DEF TablesTyped, IsProducts, LiveIn, x
      <4>2. SameButPointer(x, z)
        <5>1. CASE p \in DOMAIN draft.products
          BY <2>2, <5>1, SeenRows DEF SeenIs, x
        <5>2. CASE p \notin DOMAIN draft.products
          BY <4>1, <5>2, SeenRows DEF SeenIs, SameButPointer, x
        <5> QED
          BY <5>1, <5>2
      <4>3. IsProduct(y)
        BY <1>9, <3>1, <3>3 DEF IsProducts, y
      <4>4. IsProduct(before) /\ SameButPointer(before, z)
        BY <1>5, <2>2
      <4>5. doc.icon # Null => z.icon = doc.icon
        BY <2>3 DEF IsDeclared
      <4>6. z.shots = doc.shots
        BY <2>3 DEF IsDeclared
      <4> HIDE DEF z
      <4>7. before.icon = z.icon /\ before.shots = z.shots
        BY <4>1, <4>4, SamePointerIs
      <4>8. y.icon = x.icon /\ y.shots = x.shots
        BY <1>7, <1>8, <4>5, <4>6, <4>7
      <4>9. /\ x.name = z.name /\ x.listing = z.listing /\ x.slug = z.slug /\ x.visibility = z.visibility
            /\ x.icon = z.icon /\ x.shots = z.shots /\ x.deleted = z.deleted
        BY <4>1, <4>2, SamePointerIs
      <4>10. SameButPointer(y, z)
        BY <1>8, <4>1, <4>3, <4>8, <4>9, SamePointerIs
      <4> QED
        BY <3>1, <3>3, <4>1, <4>10 DEF z, y
    <3> QED
      BY <3>2, <3>3
  <2> QED
    BY <2>7, <2>8, <2>9
<1> QED
  BY <1>18, <1>19, <1>20, <1>27, <1>28, <1>29, <1>30, <1>31


\* What a commit makes of the rows: those that no document declares lose their slug.
Committed(r) ==
  /\ advisoryLock = r /\ advisoryLock' = Null /\ draft' = NoDraft /\ Turns(r, IdleRun)
  /\ UNCHANGED <<merged, admin, storage, touched>>
  /\ rollout[r].image \in DOMAIN merged /\ IsImage(merged[rollout[r].image])
  /\ templates' = TemplatesSeen /\ releaseNotes' = ReleasesSeen
  /\ settled' = (IF touched = {} THEN {rollout[r].image} ELSE {}) /\ copied' = NotCopied
  /\ IsProducts(products') /\ DOMAIN products' = DOMAIN ProductsSeen
  /\ \A p \in DOMAIN ProductsSeen :
       LET x == ProductsSeen[p]
           y == products'[p] IN
       /\ y.name = x.name /\ y.listing = x.listing /\ y.visibility = x.visibility /\ y.template = x.template
       /\ y.icon = x.icon /\ y.shots = x.shots /\ y.deleted = x.deleted
       /\ IF p \in Released(r) THEN y.slug = Null ELSE y = x
  /\ AreUnique(products')
  /\ \A d \in merged[rollout[r].image] : \E p \in DOMAIN products' :
       /\ products'[p].slug = d.slug
       /\ p \in touched \/ IsDeclared(products', templates', releaseNotes', p, d)
       /\ Pictures(d) \subseteq storage
  /\ \A p \in LiveIn(products') : products'[p].curated => \E d \in merged[rollout[r].image] : d.slug = products'[p].slug

LEMMA CommitIs ==
  ASSUME CatalogInv, NEW r \in Rollouts, FinishApply(r), ~rollout[r].dry
  PROVE  Committed(r)
<1> USE DEF CatalogInv
<1> DEFINE image == merged[rollout[r].image]
           rel == [p \in Released(r) |-> [ProductsSeen[p] EXCEPT !.curated = FALSE, !.slug = Null]]
<1>1. /\ rollout[r].step = "resolve" /\ rollout[r].todo = {} /\ advisoryLock = r
      /\ advisoryLock' = Null /\ draft' = NoDraft /\ Turns(r, IdleRun)
      /\ UNCHANGED <<merged, admin, storage, touched>>
      /\ templates' = TemplatesSeen /\ releaseNotes' = ReleasesSeen
      /\ settled' = (IF touched = {} THEN {rollout[r].image} ELSE {}) /\ copied' = NotCopied
      /\ products' = Over(rel, ProductsSeen)
  BY DEF FinishApply, ByRollout, RolloutsFit, InApply
<1>2. rollout[r].image \in DOMAIN merged /\ IsImage(image)
  BY <1>1 DEF RolloutsFit
<1>3. /\ IsProducts(ProductsSeen) /\ AreUnique(ProductsSeen)
  BY SeenTyped DEF TablesFit
<1>4. Released(r) \subseteq LiveIn(ProductsSeen) /\ Released(r) \subseteq DOMAIN ProductsSeen
  BY DEF Released, LiveIn
<1>5. ASSUME NEW p \in Released(r)
      PROVE  LET x == ProductsSeen[p]
                 y == rel[p] IN
             /\ IsProduct(y) /\ y.name = x.name /\ y.listing = x.listing /\ y.visibility = x.visibility
             /\ y.template = x.template /\ y.icon = x.icon /\ y.shots = x.shots /\ y.deleted = x.deleted
             /\ y.slug = Null /\ y.curated = FALSE
  <2>0. PICK x : x = ProductsSeen[p]
    OBVIOUS
  <2>1. IsProduct(x)
    BY <1>3, <1>4, <2>0 DEF IsProducts
  <2> DEFINE y == [x EXCEPT !.curated = FALSE, !.slug = Null]
  <2>2. /\ IsProduct(y) /\ y.name = x.name /\ y.listing = x.listing /\ y.visibility = x.visibility
        /\ y.template = x.template /\ y.icon = x.icon /\ y.shots = x.shots /\ y.deleted = x.deleted
        /\ y.slug = Null /\ y.curated = FALSE
    BY <2>1 DEF IsProduct, ProductColumns, Null
  <2>3. rel[p] = y
    BY <2>0
  <2> HIDE DEF y
  <2> QED
    BY <2>0, <2>2, <2>3
<1>6. /\ IsFunction(products') /\ DOMAIN products' = DOMAIN rel \union DOMAIN ProductsSeen
      /\ \A p \in DOMAIN rel : products'[p] = rel[p]
      /\ \A p \in DOMAIN ProductsSeen : p \notin DOMAIN rel => products'[p] = ProductsSeen[p]
  <2> DEFINE h == Over(rel, ProductsSeen)
  <2>1. products' = h
    BY <1>1
  <2> HIDE DEF rel
  <2>2. /\ IsFunction(h) /\ DOMAIN h = DOMAIN rel \union DOMAIN ProductsSeen
        /\ \A p \in DOMAIN rel : h[p] = rel[p]
        /\ \A p \in DOMAIN ProductsSeen : p \notin DOMAIN rel => h[p] = ProductsSeen[p]
    BY OverIs
  <2> HIDE DEF h
  <2> QED
    BY <2>1, <2>2
<1>7. DOMAIN rel = Released(r)
  OBVIOUS
<1> HIDE DEF rel
<1>8. DOMAIN products' = DOMAIN ProductsSeen
  BY <1>4, <1>6, <1>7
<1>9. \A p \in DOMAIN ProductsSeen :
        LET x == ProductsSeen[p]
            y == products'[p] IN
        /\ y.name = x.name /\ y.listing = x.listing /\ y.visibility = x.visibility /\ y.template = x.template
        /\ y.icon = x.icon /\ y.shots = x.shots /\ y.deleted = x.deleted
        /\ IF p \in Released(r) THEN y.slug = Null ELSE y = x
  BY <1>5, <1>6, <1>7
<1>10. IsProducts(products')
  BY <1>3, <1>5, <1>6, <1>7, <1>8 DEF IsProducts
<1>11. LiveIn(products') = LiveIn(ProductsSeen)
  BY <1>8, <1>9 DEF LiveIn
<1>12. AreUnique(products')
  <2> SUFFICES ASSUME NEW p \in LiveIn(ProductsSeen), NEW q \in LiveIn(ProductsSeen), p # q
               PROVE  /\ products'[p].name # products'[q].name
                      /\ products'[p].slug # Null => products'[p].slug # products'[q].slug
    BY <1>11 DEF AreUnique
  <2>1. p \in DOMAIN ProductsSeen /\ q \in DOMAIN ProductsSeen
    BY DEF LiveIn
  <2>2. products'[p].name = ProductsSeen[p].name /\ products'[q].name = ProductsSeen[q].name
    BY <1>9, <2>1
  <2>3. /\ products'[p].slug \in {ProductsSeen[p].slug, Null}
        /\ products'[q].slug \in {ProductsSeen[q].slug, Null}
    BY <1>9, <2>1
  <2> QED
    BY <1>3, <2>2, <2>3 DEF AreUnique
<1>13. Done(r) = image
  BY <1>1 DEF Done, TakenUp, WithDocument
<1>14. ASSUME NEW d \in image
       PROVE  \E p \in DOMAIN products' :
                /\ products'[p].slug = d.slug
                /\ p \in touched \/ IsDeclared(products', templates', releaseNotes', p, d)
                /\ Pictures(d) \subseteq storage
  <2>1. PICK p \in DOMAIN ProductsSeen :
          /\ ProductsSeen[p].slug = d.slug
          /\ p \in touched \/ IsDeclared(ProductsSeen, TemplatesSeen, ReleasesSeen, p, d)
          /\ Pictures(d) \subseteq storage
    BY <1>1, <1>13 DEF DoneIsDeclared
  <2>2. p \notin Released(r)
    BY <2>1 DEF Released
  <2>3. p \in DOMAIN products' /\ products'[p] = ProductsSeen[p]
    BY <1>8, <1>9, <2>2
  <2> QED
    BY <1>1, <2>1, <2>3 DEF IsDeclared
<1>15. ASSUME NEW p \in LiveIn(products'), products'[p].curated
       PROVE  \E d \in image : d.slug = products'[p].slug
  <2>1. p \in LiveIn(ProductsSeen) /\ p \in DOMAIN ProductsSeen
    BY <1>11 DEF LiveIn
  <2>2. p \notin Released(r)
    BY <1>5, <1>6, <1>7, <1>15
  <2>3. products'[p] = ProductsSeen[p]
    BY <1>9, <2>1, <2>2
  <2> QED
    BY <1>15, <2>1, <2>2, <2>3 DEF Released
<1> QED
  BY <1>1, <1>2, <1>8, <1>9, <1>10, <1>12, <1>14, <1>15 DEF Committed

LEMMA CommitKeeps ==
  ASSUME CatalogInv, NEW r \in Rollouts, Committed(r)
  PROVE  CatalogInv'
<1> USE DEF CatalogInv
<1> DEFINE image == merged[rollout[r].image]
<1>1. /\ advisoryLock = r /\ advisoryLock' = Null /\ draft' = NoDraft /\ Turns(r, IdleRun)
      /\ UNCHANGED <<merged, admin, storage, touched>>
      /\ rollout[r].image \in DOMAIN merged /\ IsImage(image)
      /\ templates' = TemplatesSeen /\ releaseNotes' = ReleasesSeen
      /\ settled' = (IF touched = {} THEN {rollout[r].image} ELSE {}) /\ copied' = NotCopied
      /\ IsProducts(products') /\ DOMAIN products' = DOMAIN ProductsSeen /\ AreUnique(products')
  BY DEF Committed
<1>2. TablesTyped'
  BY <1>1, NoDraftIs, SeenTyped, SeenRows DEF TablesTyped, SeenIs, NotCopied
<1>3. RolloutsFit'
  BY <1>1, ApplyEnds
<1>4. \A p \in DOMAIN products : p \in DOMAIN products'
  BY <1>1, SeenRows DEF SeenIs
<1>5. RequestsFit'
  <2>1. \A t \in DOMAIN templates : t \in DOMAIN templates' /\ templates'[t].product = templates[t].product
    BY <1>1, TemplatesLast
  <2> QED
    BY <1>1, <1>4, <2>1 DEF RequestsFit
<1>6. PointersFit(products', templates')
  <2> SUFFICES ASSUME NEW p \in DOMAIN ProductsSeen, products'[p].template # Null
               PROVE  /\ products'[p].template \in DOMAIN TemplatesSeen
                      /\ TemplatesSeen[products'[p].template].product = p
    BY <1>1 DEF PointersFit
  <2>1. products'[p].template = ProductsSeen[p].template
    BY DEF Committed
  <2> QED
    BY <2>1, SeenPointers DEF PointersFit
<1>7. HaveNoDuplicates(templates')
  BY <1>1 DEF TablesFit
<1>8. (TablesFit /\ DraftFits /\ KnowsRow /\ DoneIsDeclared /\ AgainIsQuiet)'
  <2>1. ((/\ TablesTyped /\ RolloutsFit /\ advisoryLock = Null
          /\ AreUnique(products) /\ PointersFit(products, templates) /\ HaveNoDuplicates(templates))
         => (TablesFit /\ DraftFits /\ KnowsRow /\ DoneIsDeclared /\ AgainIsQuiet))'
    BY UnlockedFits, PTL
  <2> QED
    BY <1>1, <1>2, <1>3, <1>6, <1>7, <2>1
<1>9. SettledIsDeclared'
  <2> SUFFICES ASSUME touched = {}
               PROVE  /\ \A d \in image : \E p \in LiveIn(products') : products'[p].slug = d.slug
                      /\ \A d \in image, p \in LiveIn(products') :
                           products'[p].slug = d.slug => IsDeclared(products', templates', releaseNotes', p, d)
                      /\ \A p \in LiveIn(products') : products'[p].curated => \E d \in image : d.slug = products'[p].slug
    BY <1>1 DEF SettledIsDeclared
  <2>1. \A d \in image : \E p \in LiveIn(products') :
          products'[p].slug = d.slug /\ IsDeclared(products', templates', releaseNotes', p, d)
    BY DEF Committed, IsDeclared, LiveIn
  <2>2. ASSUME NEW d \in image, NEW p \in LiveIn(products'), products'[p].slug = d.slug
        PROVE  IsDeclared(products', templates', releaseNotes', p, d)
    <3>1. PICK q \in LiveIn(products') :
            products'[q].slug = d.slug /\ IsDeclared(products', templates', releaseNotes', q, d)
      BY <2>1
    <3>2. d.slug # Null
      BY <1>1 DEF IsImage
    <3>3. p = q
      BY <1>1, <2>2, <3>1, <3>2 DEF AreUnique
    <3> QED
      BY <3>1, <3>3
  <2>3. \A p \in LiveIn(products') : products'[p].curated => \E d \in image : d.slug = products'[p].slug
    BY DEF Committed
  <2> QED
    BY <2>1, <2>2, <2>3
<1>10. CopyIsTrue'
  BY <1>1 DEF CopyIsTrue
<1> QED
  BY <1>2, <1>3, <1>5, <1>8, <1>9, <1>10

\* Each step of a rollout.
LEMMA RolloutKeeps ==
  ASSUME CatalogInv, NEW r \in Rollouts, RolloutStep(r)
  PROVE  CatalogInv'
<1>1. CASE StartApply(r)
  BY <1>1, StartApplyKeeps
<1>2. CASE TakeLock(r)
  BY <1>2, TakeLockKeeps
<1>3. CASE ResolveProduct(r)
  BY <1>3, ResolveKeeps
<1>4. CASE WriteProduct(r)
  BY <1>4, WriteKeeps
<1>5. CASE DescribeProduct(r)
  BY <1>5, DescribeKeeps
<1>6. CASE FinishApply(r)
  <2>1. CASE rollout[r].dry
    <3>1. advisoryLock = r
      BY <1>6 DEF FinishApply, CatalogInv, RolloutsFit, InApply
    <3> QED
      BY <1>6, <2>1, <3>1, RollbackKeeps DEF FinishApply, ByRollout
  <2>2. CASE ~rollout[r].dry
    BY <1>6, <2>2, CommitIs, CommitKeeps
  <2> QED
    BY <2>1, <2>2
<1>7. CASE AbortApply(r)
  BY <1>7, RollbackKeeps DEF AbortApply, ByRollout
<1> QED
  BY <1>1, <1>2, <1>3, <1>4, <1>5, <1>6, <1>7 DEF RolloutStep


\* What a request reads holds of the tables.
LEMMA AdminReadsKeeps ==
  ASSUME CatalogInv, NEW a \in Admins, AdminReads(a)
  PROVE  CatalogInv'
<1> USE DEF CatalogInv
<1>1. UNCHANGED <<merged, products, templates, releaseNotes, storage, advisoryLock, draft, rollout, touched, settled, copied>>
  BY DEF AdminReads, KeepsRows, ByAdmin
<1>2. RolloutsFit'
  BY <1>1 DEF RolloutsFit
<1>3. ASSUME NEW request, Asks(a, request),
             request.op = "create" => request.name \in ProductNames,
             request.op = "update" =>
               /\ request.product \in DOMAIN products
               /\ request.column \in {"visibility", "name", "template", "icon"}
               /\ request.column = "name" => request.value \in ProductNames
               /\ request.column = "template" => /\ request.value \in DOMAIN templates
                                                 /\ templates[request.value].product = request.product,
             request.op = "delete" => request.product \in DOMAIN products,
             request.op = "drop" => /\ request.template \in DOMAIN templates
                                    /\ request.product = templates[request.template].product
      PROVE  RequestsFit'
  <2>1. admin' = [admin EXCEPT ![a] = request]
    BY <1>3 DEF Asks
  <2>2. /\ admin' = [b \in Admins |-> admin'[b]] /\ admin'[a] = request
        /\ \A b \in Admins : b # a => admin'[b] = admin[b]
    BY <2>1 DEF RequestsFit
  <2>3. ASSUME NEW b \in Admins
        PROVE  /\ admin'[b].op = "create" => admin'[b].name \in ProductNames
               /\ admin'[b].op = "update" =>
                    /\ admin'[b].product \in DOMAIN products
                    /\ admin'[b].column \in {"visibility", "name", "template", "icon"}
                    /\ admin'[b].column = "name" => admin'[b].value \in ProductNames
                    /\ admin'[b].column = "template" => /\ admin'[b].value \in DOMAIN templates
                                                        /\ templates[admin'[b].value].product = admin'[b].product
               /\ admin'[b].op = "delete" => admin'[b].product \in DOMAIN products
               /\ admin'[b].op = "drop" => /\ admin'[b].template \in DOMAIN templates
                                           /\ admin'[b].product = templates[admin'[b].template].product
    <3>1. CASE b = a
      BY <1>3, <2>2, <3>1
    <3>2. CASE b # a
      BY <2>2, <3>2 DEF RequestsFit
    <3> QED
      BY <3>1, <3>2
  <2> QED
    BY <1>1, <2>2, <2>3 DEF RequestsFit
<1>4. RequestsFit'
  <2>1. CASE Creates(a)
    <3>1. PICK n \in ProductNames : Asks(a, [op |-> "create", name |-> n])
      BY <2>1 DEF Creates
    <3> QED
      BY <1>3, <3>1
  <2>2. CASE Updates(a)
    <3>1. PICK p \in LiveIn(products), force \in BOOLEAN :
            \/ \E v \in {"admin", "public"} \ {products[p].visibility} :
                 Asks(a, [op |-> "update", product |-> p, column |-> "visibility", value |-> v])
            \/ \E n \in ProductNames \ {products[p].name} :
                 Asks(a, [op |-> "update", product |-> p, column |-> "name", value |-> n])
            \/ \E t \in {t \in LiveIn(templates) \ {products[p].template} : templates[t].product = p} :
                 Asks(a, [op |-> "update", product |-> p, column |-> "template", value |-> t])
      BY <2>2 DEF Updates
    <3>2. p \in DOMAIN products
      BY DEF LiveIn
    <3>3. ASSUME NEW v, Asks(a, [op |-> "update", product |-> p, column |-> "visibility", value |-> v])
          PROVE  RequestsFit'
      BY <1>3, <3>2, <3>3
    <3>4. ASSUME NEW n \in ProductNames, Asks(a, [op |-> "update", product |-> p, column |-> "name", value |-> n])
          PROVE  RequestsFit'
      BY <1>3, <3>2, <3>4
    <3>5. ASSUME NEW t \in LiveIn(templates), templates[t].product = p,
                 Asks(a, [op |-> "update", product |-> p, column |-> "template", value |-> t])
          PROVE  RequestsFit'
      <4>1. t \in DOMAIN templates
        BY DEF LiveIn
      <4> QED
        BY <1>3, <3>2, <3>5, <4>1
    <3> QED
      BY <3>1, <3>3, <3>4, <3>5
  <2>3. CASE UploadsIcon(a)
    <3>1. PICK p \in LiveIn(products) :
            Asks(a, [op |-> "update", product |-> p, column |-> "icon", value |-> 9])
      BY <2>3 DEF UploadsIcon
    <3>2. p \in DOMAIN products
      BY DEF LiveIn
    <3> QED
      BY <1>3, <3>1, <3>2
  <2>4. CASE Deletes(a)
    <3>1. PICK p \in LiveIn(products) : Asks(a, [op |-> "delete", product |-> p])
      BY <2>4 DEF Deletes
    <3>2. p \in DOMAIN products
      BY DEF LiveIn
    <3> QED
      BY <1>3, <3>1, <3>2
  <2>5. CASE CreatesTemplate(a)
    <3>1. PICK p, s : Asks(a, [op |-> "template", product |-> p, spec |-> s])
      BY <2>5 DEF CreatesTemplate
    <3> QED
      BY <1>3, <3>1
  <2>6. CASE DeletesTemplate(a)
    <3>1. PICK t \in DOMAIN templates :
            Asks(a, [op |-> "drop", product |-> templates[t].product, template |-> t])
      BY <2>6 DEF DeletesTemplate
    <3> QED
      BY <1>3, <3>1
  <2> QED
    BY <2>1, <2>2, <2>3, <2>4, <2>5, <2>6 DEF AdminReads
<1> QED
  BY <1>1, <1>2, <1>4, HolderKeeps

\* What a write of an administrator may do to the tables: to the product w, its templates
\* and its notes, where the apply has not flushed them, and never to a slug.
AdminWrote(w) ==
  /\ settled' = {} /\ copied' = NotCopied /\ touched' = touched \union {w} /\ storage \subseteq storage'
  /\ IsProducts(products') /\ DOMAIN products \subseteq DOMAIN products'
  /\ DOMAIN products' \subseteq DOMAIN products \union {w}
  /\ \A p \in DOMAIN products : products'[p].slug = products[p].slug /\ (p # w => products'[p] = products[p])
  /\ products' # products =>
       /\ w \in DOMAIN products' /\ w \notin DOMAIN draft.products
       /\ ~Collides(products, w, products'[w]) /\ ~Collides(draft.products, w, products'[w])
  /\ PointersFit(products', templates')
  /\ IsTemplates(templates') /\ DOMAIN templates \subseteq DOMAIN templates'
  /\ \A t \in DOMAIN templates :
       /\ templates'[t].product = templates[t].product /\ templates'[t].spec = templates[t].spec
       /\ templates'[t].catalog = templates[t].catalog /\ templates'[t].version = templates[t].version
       /\ templates[t].deleted => templates'[t].deleted
       /\ t \in DOMAIN draft.templates \/ templates[t].product # w => templates'[t] = templates[t]
  /\ \A t \in DOMAIN templates' \ DOMAIN templates :
       t \notin DOMAIN draft.templates /\ templates'[t].product = w /\ templates'[t].catalog = FALSE
  /\ IsFunction(releaseNotes')
  /\ \A p \in DOMAIN releaseNotes : p # w => p \in DOMAIN releaseNotes' /\ releaseNotes'[p] = releaseNotes[p]

LEMMA AdminWroteKeeps ==
  ASSUME CatalogInv, NEW a \in Admins, NEW w, AdminWrote(w), Asks(a, NoAdminRequest), ByAdmin
  PROVE  CatalogInv'
<1> USE DEF CatalogInv
<1>1. UNCHANGED <<merged, advisoryLock, draft, rollout>>
  BY DEF ByAdmin
<1>2. /\ settled' = {} /\ copied' = NotCopied /\ touched' = touched \union {w} /\ storage \subseteq storage'
      /\ IsProducts(products') /\ DOMAIN products \subseteq DOMAIN products'
      /\ DOMAIN products' \subseteq DOMAIN products \union {w}
      /\ \A p \in DOMAIN products : products'[p].slug = products[p].slug /\ (p # w => products'[p] = products[p])
      /\ PointersFit(products', templates')
  BY DEF AdminWrote
<1>3. products' # products =>
        /\ w \in DOMAIN products' /\ w \notin DOMAIN draft.products
        /\ ~Collides(products, w, products'[w]) /\ ~Collides(draft.products, w, products'[w])
  BY DEF AdminWrote
<1>4. /\ IsTemplates(templates') /\ DOMAIN templates \subseteq DOMAIN templates'
      /\ \A t \in DOMAIN templates :
           /\ templates'[t].product = templates[t].product /\ templates'[t].spec = templates[t].spec
           /\ templates'[t].catalog = templates[t].catalog /\ templates'[t].version = templates[t].version
           /\ templates[t].deleted => templates'[t].deleted
           /\ t \in DOMAIN draft.templates \/ templates[t].product # w => templates'[t] = templates[t]
      /\ \A t \in DOMAIN templates' \ DOMAIN templates :
           t \notin DOMAIN draft.templates /\ templates'[t].product = w /\ templates'[t].catalog = FALSE
  BY DEF AdminWrote
<1>5. /\ IsFunction(releaseNotes')
      /\ \A p \in DOMAIN releaseNotes : p # w => p \in DOMAIN releaseNotes' /\ releaseNotes'[p] = releaseNotes[p]
  BY DEF AdminWrote
<1>6. SeenIs'
  BY SeenRows, PTL
<1>7. TablesTyped'
  BY <1>1, <1>2, <1>4, <1>5 DEF TablesTyped, NotCopied
<1>8. RolloutsFit'
  BY <1>1 DEF RolloutsFit
<1>9. RequestsFit'
  <2>1. admin' = [admin EXCEPT ![a] = NoAdminRequest]
    BY DEF Asks
  <2>2. /\ admin' = [b \in Admins |-> admin'[b]] /\ admin'[a] = NoAdminRequest
        /\ \A b \in Admins : b # a => admin'[b] = admin[b]
    BY <2>1 DEF RequestsFit
  <2>3. NoAdminRequest.op = "none"
    BY DEF NoAdminRequest
  <2> QED
    BY <1>2, <1>4, <2>2, <2>3 DEF RequestsFit
\* What the apply sees of it.
<1>10. /\ \A p \in DOMAIN ProductsSeen : p \in DOMAIN ProductsSeen' /\ ProductsSeen'[p].slug = ProductsSeen[p].slug
       /\ \A p \in DOMAIN ProductsSeen : p # w => ProductsSeen'[p] = ProductsSeen[p]
       /\ DOMAIN ProductsSeen' \subseteq DOMAIN ProductsSeen \union {w}
  BY <1>1, <1>2, <1>6, SeenRows DEF SeenIs
<1>11. /\ \A t \in DOMAIN TemplatesSeen :
            /\ t \in DOMAIN TemplatesSeen'
            /\ TemplatesSeen'[t].product = TemplatesSeen[t].product /\ TemplatesSeen'[t].spec = TemplatesSeen[t].spec
            /\ TemplatesSeen'[t].catalog = TemplatesSeen[t].catalog
            /\ TemplatesSeen[t].deleted => TemplatesSeen'[t].deleted
            /\ TemplatesSeen[t].product # w => TemplatesSeen'[t] = TemplatesSeen[t]
       /\ \A t \in DOMAIN TemplatesSeen' \ DOMAIN TemplatesSeen :
            TemplatesSeen'[t].product = w /\ TemplatesSeen'[t].catalog = FALSE
  <2>1. ASSUME NEW t \in DOMAIN TemplatesSeen
        PROVE  /\ t \in DOMAIN TemplatesSeen'
               /\ TemplatesSeen'[t].product = TemplatesSeen[t].product /\ TemplatesSeen'[t].spec = TemplatesSeen[t].spec
               /\ TemplatesSeen'[t].catalog = TemplatesSeen[t].catalog
               /\ TemplatesSeen[t].deleted => TemplatesSeen'[t].deleted
               /\ TemplatesSeen[t].product # w => TemplatesSeen'[t] = TemplatesSeen[t]
    <3>1. CASE t \in DOMAIN draft.templates
      BY <1>1, <1>6, <3>1, SeenRows DEF SeenIs
    <3>2. CASE t \notin DOMAIN draft.templates
      <4>1. t \in DOMAIN templates /\ TemplatesSeen[t] = templates[t]
        BY <3>2, SeenRows DEF SeenIs
      <4>2. t \in DOMAIN templates' /\ t \in DOMAIN TemplatesSeen' /\ TemplatesSeen'[t] = templates'[t]
        BY <1>1, <1>4, <1>6, <3>2, <4>1 DEF SeenIs
      <4> QED
        BY <1>4, <4>1, <4>2
    <3> QED
      BY <3>1, <3>2
  <2>2. ASSUME NEW t \in DOMAIN TemplatesSeen' \ DOMAIN TemplatesSeen
        PROVE  TemplatesSeen'[t].product = w /\ TemplatesSeen'[t].catalog = FALSE
    <3>1. t \notin DOMAIN draft.templates /\ t \notin DOMAIN templates
      BY SeenRows DEF SeenIs
    <3>2. t \in DOMAIN templates' /\ TemplatesSeen'[t] = templates'[t]
      BY <1>1, <1>6, <3>1 DEF SeenIs
    <3> QED
      BY <1>4, <3>1, <3>2
  <2> QED
    BY <2>1, <2>2
<1>12. \A p \in DOMAIN ReleasesSeen : p # w => p \in DOMAIN ReleasesSeen' /\ ReleasesSeen'[p] = ReleasesSeen[p]
  BY <1>1, <1>5, <1>6, SeenRows DEF SeenIs
<1>13. \A q \in Rollouts : Done(q)' = Done(q) /\ TakenUp(q)' = TakenUp(q)
  BY <1>1 DEF Done, TakenUp
<1>14. ASSUME NEW q, NEW d, BelongsTo(q, d) PROVE BelongsTo(q, d)'
  <2>1. q \in DOMAIN ProductsSeen' /\ ProductsSeen'[q].slug = d.slug
    BY <1>10, <1>14 DEF BelongsTo
  <2>2. CASE q = w
    BY <1>2, <2>1, <2>2 DEF BelongsTo
  <2>3. CASE q # w
    <3>1. ProductsSeen'[q] = ProductsSeen[q]
      BY <1>10, <1>14, <2>3 DEF BelongsTo
    <3>2. q \in DOMAIN products' => q \in DOMAIN products /\ products'[q] = products[q]
      BY <1>2, <2>3
    <3>3. q \in touched' <=> q \in touched
      BY <1>2, <2>3
    <3> QED
      BY <1>14, <2>1, <3>1, <3>2, <3>3 DEF BelongsTo
  <2> QED
    BY <2>2, <2>3
<1>15. TablesFit'
  <2>1. AreUnique(products')
    <3>1. CASE products' = products
      BY <3>1 DEF TablesFit
    <3>2. CASE products' # products
      <4>1. DOMAIN products' = DOMAIN products \union {w} /\ ~Collides(products, w, products'[w])
        BY <1>2, <1>3, <3>2
      <4> QED
        BY <1>2, <4>1, UniqueOver DEF TablesFit
    <3> QED
      BY <3>1, <3>2
  <2>2. AreUnique(ProductsSeen')
    <3>1. CASE products' = products
      <4>1. ProductsSeen' = ProductsSeen
        BY <1>1, <3>1 DEF ProductsSeen
      <4> QED
        BY <4>1 DEF TablesFit
    <3>2. CASE products' # products
      <4>1. w \in DOMAIN products' /\ w \notin DOMAIN draft.products
        BY <1>3, <3>2
      <4>2. DOMAIN ProductsSeen' = DOMAIN ProductsSeen \union {w} /\ ProductsSeen'[w] = products'[w]
        BY <1>1, <1>6, <1>10, <4>1 DEF SeenIs
      <4>3. ~Collides(ProductsSeen, w, products'[w])
        <5> SUFFICES ASSUME Collides(ProductsSeen, w, products'[w]) PROVE FALSE
          OBVIOUS
        <5> DEFINE entry == products'[w]
        <5>1. ~entry.deleted
          BY DEF Collides
        <5>2. PICK q \in LiveIn(ProductsSeen) \ {w} :
                ProductsSeen[q].name = entry.name \/ (entry.slug # Null /\ ProductsSeen[q].slug = entry.slug)
          BY DEF Collides
        <5>3. CASE q \in DOMAIN draft.products
          <6>1. q \in LiveIn(draft.products) \ {w} /\ ProductsSeen[q] = draft.products[q]
            BY <5>3, SeenRows DEF SeenIs, LiveIn
          <6>2. Collides(draft.products, w, entry)
            BY <5>1, <5>2, <6>1 DEF Collides
          <6> QED
            BY <1>3, <3>2, <6>2
        <5>4. CASE q \notin DOMAIN draft.products
          <6>1. q \in LiveIn(products) \ {w} /\ ProductsSeen[q] = products[q]
            BY <5>4, SeenRows DEF SeenIs, LiveIn
          <6>2. Collides(products, w, entry)
            BY <5>1, <5>2, <6>1 DEF Collides
          <6> QED
            BY <1>3, <3>2, <6>2
        <5> QED
          BY <5>3, <5>4
      <4> QED
        BY <1>10, <4>2, <4>3, UniqueOver DEF TablesFit
    <3> QED
      BY <3>1, <3>2
  <2>3. PointersFit(draft'.products, TemplatesSeen')
    BY <1>1, <1>11 DEF TablesFit, PointersFit
  <2>4. HaveNoDuplicates(templates')
    <3> SUFFICES ASSUME NEW s \in LiveIn(templates'), NEW t \in LiveIn(templates'), s # t,
                        templates'[s].catalog, templates'[t].catalog, templates'[s].product = templates'[t].product
                 PROVE  templates'[s].spec # templates'[t].spec
      BY DEF HaveNoDuplicates
    <3>1. s \in DOMAIN templates /\ t \in DOMAIN templates
      BY <1>4 DEF LiveIn
    <3>2. s \in LiveIn(templates) /\ t \in LiveIn(templates)
      BY <1>4, <3>1 DEF LiveIn
    <3> QED
      BY <1>4, <3>1, <3>2 DEF TablesFit, HaveNoDuplicates
  <2>5. HaveNoDuplicates(TemplatesSeen')
    <3> SUFFICES ASSUME NEW s \in LiveIn(TemplatesSeen'), NEW t \in LiveIn(TemplatesSeen'), s # t,
                        TemplatesSeen'[s].catalog, TemplatesSeen'[t].catalog,
                        TemplatesSeen'[s].product = TemplatesSeen'[t].product
                 PROVE  TemplatesSeen'[s].spec # TemplatesSeen'[t].spec
      BY DEF HaveNoDuplicates
    <3>1. s \in DOMAIN TemplatesSeen /\ t \in DOMAIN TemplatesSeen
      BY <1>11 DEF LiveIn
    <3>2. s \in LiveIn(TemplatesSeen) /\ t \in LiveIn(TemplatesSeen)
      BY <1>11, <3>1 DEF LiveIn
    <3> QED
      BY <1>11, <3>1, <3>2 DEF TablesFit, HaveNoDuplicates
  <2> QED
    BY <1>2, <2>1, <2>2, <2>3, <2>4, <2>5 DEF TablesFit
<1>16. DraftFits'
  <2> SUFFICES ASSUME NEW r \in Rollouts, advisoryLock = r
               PROVE  /\ \A p \in DOMAIN draft.products :
                           /\ \E d \in IF rollout[r].step = "match" THEN TakenUp(r) ELSE Done(r) : BelongsTo(p, d)'
                           /\ p \in DOMAIN products' => draft.products[p].visibility = products'[p].visibility
                      /\ \A t \in DOMAIN draft.templates :
                           LET entry == draft.templates[t] IN
                           /\ t \in DOMAIN templates' => /\ Lasting(entry) = Lasting(templates'[t])
                                                         /\ entry.deleted = templates'[t].deleted
                                                         /\ templates'[t].version # Null => entry.version = templates'[t].version
                           /\ t \notin DOMAIN templates' =>
                                /\ \E d \in Done(r) : /\ entry.product \in DOMAIN ProductsSeen'
                                                      /\ ProductsSeen'[entry.product].slug = d.slug /\ entry.spec = d.spec
                                /\ entry.product \in touched' \/ \A s \in LiveIn(templates') :
                                          templates'[s].product = entry.product => templates'[s].spec # entry.spec
    BY <1>1, <1>13 DEF DraftFits
  <2>1. ASSUME NEW p \in DOMAIN draft.products
        PROVE  /\ \E d \in IF rollout[r].step = "match" THEN TakenUp(r) ELSE Done(r) : BelongsTo(p, d)'
               /\ p \in DOMAIN products' => draft.products[p].visibility = products'[p].visibility
    <3>1. \E d \in IF rollout[r].step = "match" THEN TakenUp(r) ELSE Done(r) : BelongsTo(p, d)
      BY DEF DraftFits
    <3>2. p \in DOMAIN products' => p \in DOMAIN products /\ products'[p] = products[p]
      BY <1>2, <1>3
    <3> QED
      BY <1>14, <3>1, <3>2 DEF DraftFits
  <2>2. ASSUME NEW t \in DOMAIN draft.templates, t \in DOMAIN templates'
        PROVE  /\ Lasting(draft.templates[t]) = Lasting(templates'[t])
               /\ draft.templates[t].deleted = templates'[t].deleted
               /\ templates'[t].version # Null => draft.templates[t].version = templates'[t].version
    <3>1. t \in DOMAIN templates /\ templates'[t] = templates[t]
      BY <1>4, <2>2
    <3> QED
      BY <3>1 DEF DraftFits
  <2>3. ASSUME NEW t \in DOMAIN draft.templates, t \notin DOMAIN templates'
        PROVE  LET entry == draft.templates[t] IN
               /\ \E d \in Done(r) : /\ entry.product \in DOMAIN ProductsSeen'
                                     /\ ProductsSeen'[entry.product].slug = d.slug /\ entry.spec = d.spec
               /\ entry.product \in touched' \/ \A s \in LiveIn(templates') :
                         templates'[s].product = entry.product => templates'[s].spec # entry.spec
    <3> DEFINE entry == draft.templates[t]
    <3>1. t \notin DOMAIN templates
      BY <1>4, <2>3
    <3>2. PICK d \in Done(r) : /\ entry.product \in DOMAIN ProductsSeen
                               /\ ProductsSeen[entry.product].slug = d.slug /\ entry.spec = d.spec
      BY <3>1 DEF DraftFits
    <3>3. entry.product \in touched \/ \A s \in LiveIn(templates) :
            templates[s].product = entry.product => templates[s].spec # entry.spec
      BY <3>1 DEF DraftFits
    <3>4. ASSUME entry.product \notin touched', NEW s \in LiveIn(templates'), templates'[s].product = entry.product
          PROVE  templates'[s].spec # entry.spec
      <4>1. entry.product # w /\ entry.product \notin touched
        BY <1>2, <3>4
      <4>2. s \in DOMAIN templates /\ templates[s].product # w
        BY <1>4, <3>4, <4>1 DEF LiveIn
      <4>3. templates'[s] = templates[s] /\ s \in LiveIn(templates)
        BY <1>4, <4>2 DEF LiveIn
      <4> QED
        BY <3>3, <3>4, <4>1, <4>3
    <3> HIDE DEF entry
    <3>5. entry.product \in DOMAIN ProductsSeen' /\ ProductsSeen'[entry.product].slug = d.slug
      BY <1>10, <3>2
    <3> QED
      BY <3>2, <3>4, <3>5 DEF entry
  <2> QED
    BY <2>1, <2>2, <2>3
<1>17. KnowsRow'
  <2> SUFFICES ASSUME NEW r \in Rollouts PROVE KnowsItsRow(r)'
    BY DEF KnowsRow
  <2>0. PICK doc, p, before : doc = rollout[r].doc /\ p = rollout[r].product /\ before = rollout[r].seen
    OBVIOUS
  <2>1. KnowsItsRow(r)
    BY DEF KnowsRow
  <2>2. (rollout[r].step = "write" /\ p # Null) =>
          /\ p \in DOMAIN products' \ DOMAIN draft.products /\ IsProduct(before) /\ ~before.deleted
          /\ before.slug = products'[p].slug
          /\ before.slug = doc.slug \/ (before.slug = Null /\ before.name = doc.name)
          /\ p \in touched' \/ before = products'[p]
    BY <1>2, <2>0, <2>1 DEF KnowsItsRow
  <2>3. rollout[r].step = "match" =>
          /\ BelongsTo(p, doc)' /\ IsProduct(before) /\ before = Described(before, doc)
          /\ p \in touched' \/ before = ProductsSeen'[p]
    <3>1. rollout[r].step = "match" =>
            /\ BelongsTo(p, doc) /\ IsProduct(before) /\ before = Described(before, doc)
            /\ p \in touched \/ before = ProductsSeen[p]
      BY <2>0, <2>1 DEF KnowsItsRow
    <3>2. BelongsTo(p, doc) => p \in DOMAIN ProductsSeen
      BY DEF BelongsTo
    <3> QED
      BY <1>2, <1>10, <1>14, <3>1, <3>2
  <2> QED
    BY <1>1, <2>0, <2>1, <2>2, <2>3 DEF KnowsItsRow
<1>18. DoneIsDeclared'
  <2> SUFFICES ASSUME NEW r \in Rollouts, advisoryLock = r, NEW d \in Done(r)
               PROVE  \E p \in DOMAIN ProductsSeen' :
                        /\ ProductsSeen'[p].slug = d.slug
                        /\ p \in touched' \/ IsDeclared(ProductsSeen', TemplatesSeen', ReleasesSeen', p, d)
                        /\ rollout[r].dry \/ Pictures(d) \subseteq storage'
    BY <1>1, <1>13 DEF DoneIsDeclared
  <2>1. PICK p \in DOMAIN ProductsSeen :
          /\ ProductsSeen[p].slug = d.slug
          /\ p \in touched \/ IsDeclared(ProductsSeen, TemplatesSeen, ReleasesSeen, p, d)
          /\ rollout[r].dry \/ Pictures(d) \subseteq storage
    BY DEF DoneIsDeclared
  <2>2. p \in DOMAIN ProductsSeen' /\ ProductsSeen'[p].slug = d.slug
    BY <1>10, <2>1
  <2>3. rollout[r].dry \/ Pictures(d) \subseteq storage'
    BY <1>2, <2>1
  <2>4. ASSUME p \notin touched'
        PROVE  IsDeclared(ProductsSeen', TemplatesSeen', ReleasesSeen', p, d)
    <3>1. p # w /\ ProductsSeen'[p] = ProductsSeen[p] /\ IsDeclared(ProductsSeen, TemplatesSeen, ReleasesSeen, p, d)
      BY <1>2, <1>10, <2>1, <2>4
    <3> DEFINE k == ProductsSeen[p].template
    <3>2. k \in LiveIn(TemplatesSeen) /\ TemplatesSeen[k].spec = d.spec /\ TemplatesSeen[k].product = p
      BY <3>1 DEF IsDeclared
    <3>3. k \in LiveIn(TemplatesSeen') /\ TemplatesSeen'[k].spec = d.spec /\ TemplatesSeen'[k].product = p
      BY <1>11, <3>1, <3>2 DEF LiveIn
    <3>4. p \in DOMAIN ReleasesSeen' /\ ReleasesSeen'[p] = d.releases
      BY <1>12, <3>1 DEF IsDeclared
    <3>5. ASSUME NEW s \in LiveIn(TemplatesSeen'), TemplatesSeen'[s].product = p, TemplatesSeen'[s].version = Null
          PROVE  d.versions[TemplatesSeen'[s].spec] = Null
      <4>1. s \in DOMAIN TemplatesSeen
        BY <1>11, <3>1, <3>5 DEF LiveIn
      <4>2. TemplatesSeen'[s] = TemplatesSeen[s] /\ s \in LiveIn(TemplatesSeen)
        BY <1>11, <3>1, <3>5, <4>1 DEF LiveIn
      <4> QED
        BY <3>1, <3>5, <4>2 DEF IsDeclared
    <3> QED
      BY <3>1, <3>3, <3>4, <3>5 DEF IsDeclared
  <2> QED
    BY <2>2, <2>3, <2>4
<1>19. SettledIsDeclared' /\ CopyIsTrue'
  BY <1>2 DEF SettledIsDeclared, CopyIsTrue
<1>20. AgainIsQuiet'
  BY <1>2 DEF AgainIsQuiet, Again
<1> QED
  BY <1>7, <1>8, <1>9, <1>15, <1>16, <1>17, <1>18, <1>19, <1>20


\* A write that an index refuses leaves the tables as they are.
LEMMA RefusalKeeps ==
  ASSUME CatalogInv, NEW a \in Admins, Asks(a, NoAdminRequest), ByAdmin,
         UNCHANGED <<products, templates, releaseNotes, touched, settled, copied>>, storage \subseteq storage'
  PROVE  CatalogInv'
<1> USE DEF CatalogInv
<1>1. UNCHANGED <<merged, advisoryLock, draft, rollout>>
  BY DEF ByAdmin
<1>2. RolloutsFit'
  BY <1>1 DEF RolloutsFit
<1>3. RequestsFit'
  <2>1. admin' = [admin EXCEPT ![a] = NoAdminRequest]
    BY DEF Asks
  <2>2. /\ admin' = [b \in Admins |-> admin'[b]] /\ admin'[a] = NoAdminRequest
        /\ \A b \in Admins : b # a => admin'[b] = admin[b]
    BY <2>1 DEF RequestsFit
  <2>3. NoAdminRequest.op = "none"
    BY DEF NoAdminRequest
  <2> QED
    BY <2>2, <2>3 DEF RequestsFit
<1> QED
  BY <1>1, <1>2, <1>3, HolderKeeps

\* No write but an insert or a deletion concerns the templates.
LEMMA TemplatesStay ==
  ASSUME CatalogInv, NEW w, UNCHANGED templates
  PROVE  /\ IsTemplates(templates') /\ DOMAIN templates \subseteq DOMAIN templates'
         /\ \A t \in DOMAIN templates :
              /\ templates'[t].product = templates[t].product /\ templates'[t].spec = templates[t].spec
              /\ templates'[t].catalog = templates[t].catalog /\ templates'[t].version = templates[t].version
              /\ templates[t].deleted => templates'[t].deleted
              /\ t \in DOMAIN draft.templates \/ templates[t].product # w => templates'[t] = templates[t]
         /\ \A t \in DOMAIN templates' \ DOMAIN templates :
              t \notin DOMAIN draft.templates /\ templates'[t].product = w /\ templates'[t].catalog = FALSE
  BY DEF CatalogInv, TablesTyped

LEMMA ProductsStay ==
  ASSUME CatalogInv, NEW w, UNCHANGED <<products, releaseNotes>>
  PROVE  /\ IsProducts(products') /\ DOMAIN products \subseteq DOMAIN products'
         /\ DOMAIN products' \subseteq DOMAIN products \union {w}
         /\ \A p \in DOMAIN products : products'[p].slug = products[p].slug /\ (p # w => products'[p] = products[p])
         /\ IsFunction(releaseNotes')
         /\ \A p \in DOMAIN releaseNotes : p # w => p \in DOMAIN releaseNotes' /\ releaseNotes'[p] = releaseNotes[p]
  BY DEF CatalogInv, TablesTyped

LEMMA InsertProductIs ==
  ASSUME CatalogInv, NEW a \in Admins, NEW p, InsertProduct(a, p)
  PROVE  \/ AdminWrote(p)
         \/ UNCHANGED <<products, templates, releaseNotes, touched, settled, copied>> /\ storage \subseteq storage'
<1> USE DEF CatalogInv
<1>0. PICK entry : entry = [NewProduct([name |-> admin[a].name, slug |-> Null]) EXCEPT !.curated = FALSE]
  OBVIOUS
<1>1. /\ admin[a].op = "create" /\ p \in FreshIn(ProductsSeen, MaxProducts) /\ ~Waits(p, entry)
      /\ IF Collides(products, p, entry) THEN UNCHANGED <<products, releaseNotes, touched, settled, copied>>
         ELSE products' = Over(Single(p, entry), products) /\ releaseNotes' = Over(Single(p, <<>>), releaseNotes) /\ Writes(p)
      /\ UNCHANGED <<templates, storage>>
  BY <1>0 DEF InsertProduct
<1>2. CASE Collides(products, p, entry)
  BY <1>1, <1>2
<1>3. CASE ~Collides(products, p, entry)
  <2>1. /\ products' = Over(Single(p, entry), products) /\ releaseNotes' = Over(Single(p, <<>>), releaseNotes)
        /\ settled' = {} /\ copied' = NotCopied /\ touched' = touched \union {p}
        /\ templates' = templates /\ storage \subseteq storage'
    BY <1>1, <1>3 DEF Writes
  <2>2. IsProduct(entry) /\ entry.template = Null
    <3>1. PICK n : n = admin[a].name
      OBVIOUS
    <3>2. n \in ProductNames
      BY <1>1, <3>1 DEF RequestsFit
    <3>3. entry = [NewProduct([name |-> n, slug |-> Null]) EXCEPT !.curated = FALSE]
      BY <1>0, <3>1
    <3> QED
      BY <3>2, <3>3 DEF NewProduct, IsProduct, ProductColumns, Null
  <2>3. p \in Nat \ {Null} /\ p \notin DOMAIN ProductsSeen
    BY <1>1, CatalogAssumption DEF FreshIn, Null
  <2>4. p \notin DOMAIN products /\ p \notin DOMAIN draft.products
    BY <2>3, SeenRows DEF SeenIs
  <2>5. /\ IsFunction(products') /\ DOMAIN products' = DOMAIN products \union {p} /\ products'[p] = entry
        /\ \A q \in DOMAIN products : q # p => products'[q] = products[q]
    BY <2>1 DEF Over, Single, IsFunction
  <2>6. /\ IsFunction(releaseNotes')
        /\ \A q \in DOMAIN releaseNotes : q # p => q \in DOMAIN releaseNotes' /\ releaseNotes'[q] = releaseNotes[q]
    <3>1. PICK e : e = <<>>
      OBVIOUS
    <3>2. releaseNotes' = Over(Single(p, e), releaseNotes)
      BY <2>1, <3>1
    <3> QED
      BY <3>2 DEF Over, Single, IsFunction
  <2>7. IsProducts(products')
    BY <2>2, <2>3, <2>5 DEF TablesTyped, IsProducts
  <2>8. \A q \in DOMAIN products : products'[q].slug = products[q].slug /\ (q # p => products'[q] = products[q])
    BY <2>4, <2>5
  <2>9. ~Collides(products, p, products'[p]) /\ ~Collides(draft.products, p, products'[p])
    BY <1>1, <1>3, <2>5 DEF Waits
  <2>10. PointersFit(products', templates')
    BY <2>1, <2>2, <2>4, <2>5 DEF TablesFit, PointersFit
  <2> QED
    BY <2>1, <2>4, <2>5, <2>6, <2>7, <2>8, <2>9, <2>10, TemplatesStay DEF AdminWrote
<1> QED
  BY <1>2, <1>3

LEMMA UpdateProductIs ==
  ASSUME CatalogInv, NEW a \in Admins, UpdateProduct(a)
  PROVE  \/ AdminWrote(admin[a].product)
         \/ UNCHANGED <<products, templates, releaseNotes, touched, settled, copied>> /\ storage \subseteq storage'
<1> USE DEF CatalogInv
<1>0. PICK p, column, value : p = admin[a].product /\ column = admin[a].column /\ value = admin[a].value
  OBVIOUS
<1>1. PICK entry : entry = [products[p] EXCEPT ![column] = value]
  OBVIOUS
<1>2. /\ admin[a].op = "update" /\ ~Waits(p, entry)
      /\ storage' = IF column = "icon" THEN storage \union {value} ELSE storage
      /\ IF Collides(products, p, entry) THEN UNCHANGED <<products, touched, settled, copied>>
         ELSE products' = [products EXCEPT ![p] = entry] /\ Writes(p)
      /\ UNCHANGED <<templates, releaseNotes>>
  BY <1>0, <1>1 DEF UpdateProduct
<1>3. storage \subseteq storage'
  BY <1>2
<1>4. CASE Collides(products, p, entry)
  BY <1>2, <1>3, <1>4
<1>5. CASE ~Collides(products, p, entry)
  <2>1. /\ products' = [products EXCEPT ![p] = entry]
        /\ settled' = {} /\ copied' = NotCopied /\ touched' = touched \union {p}
        /\ templates' = templates /\ releaseNotes' = releaseNotes
    BY <1>2, <1>5 DEF Writes
  <2>2. /\ p \in DOMAIN products /\ column \in {"visibility", "name", "template", "icon"}
        /\ column = "name" => value \in ProductNames
        /\ column = "template" => value \in DOMAIN templates /\ templates[value].product = p
    BY <1>0, <1>2 DEF RequestsFit
  <2>3. IsProduct(products[p]) /\ p \in Nat \ {Null} /\ IsFunction(products)
    BY <2>2 DEF TablesTyped, IsProducts
  <2>4. /\ IsProduct(entry) /\ entry.slug = products[p].slug
        /\ entry.template = IF column = "template" THEN value ELSE products[p].template
    <3>1. PICK x : x = products[p]
      OBVIOUS
    <3>2. entry = [x EXCEPT ![column] = value] /\ IsProduct(x)
      BY <1>1, <2>3, <3>1
    <3>3. CASE column = "visibility"
      BY <3>1, <3>2, <3>3 DEF IsProduct, ProductColumns
    <3>4. CASE column = "name"
      BY <2>2, <3>1, <3>2, <3>4 DEF IsProduct, ProductColumns
    <3>5. CASE column = "template"
      BY <3>1, <3>2, <3>5 DEF IsProduct, ProductColumns
    <3>6. CASE column = "icon"
      BY <3>1, <3>2, <3>6 DEF IsProduct, ProductColumns
    <3> QED
      BY <2>2, <3>3, <3>4, <3>5, <3>6
  <2>5. /\ IsFunction(products') /\ DOMAIN products' = DOMAIN products /\ products'[p] = entry
        /\ \A q \in DOMAIN products : q # p => products'[q] = products[q]
    BY <2>1, <2>2, <2>3 DEF IsFunction
  <2>6. IsProducts(products')
    BY <2>4, <2>5 DEF TablesTyped, IsProducts
  <2>7. \A q \in DOMAIN products : products'[q].slug = products[q].slug /\ (q # p => products'[q] = products[q])
    BY <2>4, <2>5
  <2>8. /\ p \notin DOMAIN draft.products
        /\ ~Collides(products, p, products'[p]) /\ ~Collides(draft.products, p, products'[p])
    BY <1>2, <1>5, <2>5 DEF Waits
  <2>9. PointersFit(products', templates')
    BY <2>1, <2>2, <2>4, <2>5 DEF TablesFit, PointersFit
  <2>10. /\ IsFunction(releaseNotes')
         /\ \A q \in DOMAIN releaseNotes : q # p => q \in DOMAIN releaseNotes' /\ releaseNotes'[q] = releaseNotes[q]
    BY <2>1 DEF TablesTyped
  <2>11. AdminWrote(p)
    BY <1>3, <2>1, <2>2, <2>5, <2>6, <2>7, <2>8, <2>9, <2>10, TemplatesStay DEF AdminWrote
  <2> QED
    BY <1>0, <2>11
<1> QED
  BY <1>4, <1>5

LEMMA DeleteProductIs ==
  ASSUME CatalogInv, NEW a \in Admins, DeleteProduct(a)
  PROVE  AdminWrote(admin[a].product)
<1> USE DEF CatalogInv
<1>0. PICK p : p = admin[a].product
  OBVIOUS
<1>1. /\ admin[a].op = "delete" /\ p \notin DOMAIN draft.products
      /\ products' = [products EXCEPT ![p].deleted = TRUE]
      /\ settled' = {} /\ copied' = NotCopied /\ touched' = touched \union {p}
      /\ templates' = templates /\ releaseNotes' = releaseNotes /\ storage' = storage
  BY <1>0 DEF DeleteProduct, Writes
<1>2. p \in DOMAIN products
  BY <1>0, <1>1 DEF RequestsFit
<1>3. IsProduct(products[p]) /\ IsFunction(products)
  BY <1>2 DEF TablesTyped, IsProducts
<1>4. PICK entry : entry = [products[p] EXCEPT !.deleted = TRUE]
  OBVIOUS
<1>5. IsProduct(entry) /\ entry.slug = products[p].slug /\ entry.template = products[p].template /\ entry.deleted = TRUE
  <2>1. PICK x : x = products[p]
    OBVIOUS
  <2> QED
    BY <1>3, <1>4, <2>1 DEF IsProduct, ProductColumns
<1>6. /\ IsFunction(products') /\ DOMAIN products' = DOMAIN products /\ products'[p] = entry
      /\ \A q \in DOMAIN products : q # p => products'[q] = products[q]
  <2>1. products' = [products EXCEPT ![p] = entry]
    BY <1>1, <1>4
  <2> QED
    BY <1>2, <1>3, <2>1 DEF IsFunction
<1>7. IsProducts(products')
  BY <1>5, <1>6 DEF TablesTyped, IsProducts
<1>8. \A q \in DOMAIN products : products'[q].slug = products[q].slug /\ (q # p => products'[q] = products[q])
  BY <1>5, <1>6
<1>9. ~Collides(products, p, products'[p]) /\ ~Collides(draft.products, p, products'[p])
  BY <1>5, <1>6 DEF Collides
<1>10. PointersFit(products', templates')
  BY <1>1, <1>5, <1>6 DEF TablesFit, PointersFit
<1>11. /\ IsFunction(releaseNotes')
       /\ \A q \in DOMAIN releaseNotes : q # p => q \in DOMAIN releaseNotes' /\ releaseNotes'[q] = releaseNotes[q]
  BY <1>1 DEF TablesTyped
<1>12. AdminWrote(p)
  BY <1>1, <1>2, <1>6, <1>7, <1>8, <1>9, <1>10, <1>11, TemplatesStay DEF AdminWrote
<1> QED
  BY <1>0, <1>12

LEMMA InsertTemplateIs ==
  ASSUME CatalogInv, NEW a \in Admins, NEW t, InsertTemplate(a, t)
  PROVE  AdminWrote(admin[a].product)
<1> USE DEF CatalogInv
<1>0. PICK p, s : p = admin[a].product /\ s = admin[a].spec
  OBVIOUS
<1>1. PICK entry : entry = NewTemplate(p, s, Null, FALSE)
  OBVIOUS
<1>2. /\ t \in FreshIn(TemplatesSeen, MaxTemplates)
      /\ templates' = Over(Single(t, entry), templates)
      /\ settled' = {} /\ copied' = NotCopied /\ touched' = touched \union {p}
      /\ products' = products /\ releaseNotes' = releaseNotes /\ storage' = storage
  BY <1>0, <1>1 DEF InsertTemplate, Writes
<1>3. IsTemplate(entry) /\ entry.product = p /\ entry.catalog = FALSE
  BY <1>1 DEF NewTemplate, IsTemplate, TemplateColumns
<1>4. t \in Nat \ {Null} /\ t \notin DOMAIN TemplatesSeen
  BY <1>2, CatalogAssumption DEF FreshIn, Null
<1>5. t \notin DOMAIN templates /\ t \notin DOMAIN draft.templates
  BY <1>4, SeenRows DEF SeenIs
<1>6. /\ IsFunction(templates') /\ DOMAIN templates' = DOMAIN templates \union {t} /\ templates'[t] = entry
      /\ \A u \in DOMAIN templates : u # t => templates'[u] = templates[u]
  BY <1>2 DEF Over, Single, IsFunction
<1>7. IsTemplates(templates')
  BY <1>3, <1>4, <1>6 DEF TablesTyped, IsTemplates
<1>8. \A u \in DOMAIN templates : u \in DOMAIN templates' /\ templates'[u] = templates[u]
  BY <1>5, <1>6
<1>9. \A u \in DOMAIN templates' \ DOMAIN templates :
        u \notin DOMAIN draft.templates /\ templates'[u].product = p /\ templates'[u].catalog = FALSE
  BY <1>3, <1>5, <1>6
<1>10. PointersFit(products', templates')
  BY <1>2, <1>8 DEF TablesFit, PointersFit
<1>11. AdminWrote(p)
  BY <1>2, <1>6, <1>7, <1>8, <1>9, <1>10, ProductsStay DEF AdminWrote
<1> QED
  BY <1>0, <1>11

LEMMA DeleteTemplateIs ==
  ASSUME CatalogInv, NEW a \in Admins, DeleteTemplate(a)
  PROVE  AdminWrote(admin[a].product)
<1> USE DEF CatalogInv
<1>0. PICK p, t : p = admin[a].product /\ t = admin[a].template
  OBVIOUS
<1>1. /\ admin[a].op = "drop" /\ t \notin DOMAIN draft.templates
      /\ templates' = [templates EXCEPT ![t].deleted = TRUE]
      /\ settled' = {} /\ copied' = NotCopied /\ touched' = touched \union {p}
      /\ products' = products /\ releaseNotes' = releaseNotes /\ storage' = storage
  BY <1>0 DEF DeleteTemplate, Writes
<1>2. t \in DOMAIN templates /\ templates[t].product = p
  BY <1>0, <1>1 DEF RequestsFit
<1>3. IsTemplate(templates[t]) /\ IsFunction(templates)
  BY <1>2 DEF TablesTyped, IsTemplates
<1>4. PICK entry : entry = [templates[t] EXCEPT !.deleted = TRUE]
  OBVIOUS
<1>5. LET x == templates[t] IN
      /\ IsTemplate(entry) /\ entry.product = x.product /\ entry.spec = x.spec /\ entry.catalog = x.catalog
      /\ entry.version = x.version /\ entry.deleted = TRUE
  <2>1. PICK x : x = templates[t]
    OBVIOUS
  <2> QED
    BY <1>3, <1>4, <2>1 DEF IsTemplate, TemplateColumns
<1>6. /\ IsFunction(templates') /\ DOMAIN templates' = DOMAIN templates /\ templates'[t] = entry
      /\ \A u \in DOMAIN templates : u # t => templates'[u] = templates[u]
  <2>1. templates' = [templates EXCEPT ![t] = entry]
    BY <1>1, <1>4
  <2> QED
    BY <1>2, <1>3, <2>1 DEF IsFunction
<1>7. IsTemplates(templates')
  BY <1>5, <1>6 DEF TablesTyped, IsTemplates
<1>8. \A u \in DOMAIN templates :
        /\ templates'[u].product = templates[u].product /\ templates'[u].spec = templates[u].spec
        /\ templates'[u].catalog = templates[u].catalog /\ templates'[u].version = templates[u].version
        /\ templates[u].deleted => templates'[u].deleted
        /\ u \in DOMAIN draft.templates \/ templates[u].product # p => templates'[u] = templates[u]
  BY <1>1, <1>2, <1>5, <1>6
<1>9. PointersFit(products', templates')
  BY <1>1, <1>6, <1>8 DEF TablesFit, PointersFit
<1>10. AdminWrote(p)
  BY <1>1, <1>6, <1>7, <1>8, <1>9, ProductsStay DEF AdminWrote
<1> QED
  BY <1>0, <1>10

\* So an administrator's second half writes, or is refused.
LEMMA AdminWritesAre ==
  ASSUME CatalogInv, NEW a \in Admins, AdminWrites(a)
  PROVE  /\ Asks(a, NoAdminRequest) /\ ByAdmin
         /\ \/ \E w : AdminWrote(w)
            \/ UNCHANGED <<products, templates, releaseNotes, touched, settled, copied>> /\ storage \subseteq storage'
<1>1. Asks(a, NoAdminRequest) /\ ByAdmin
  BY DEF AdminWrites
<1>2. CASE \E p \in 1..MaxProducts : InsertProduct(a, p)
  BY <1>1, <1>2, InsertProductIs
<1>3. CASE UpdateProduct(a)
  BY <1>1, <1>3, UpdateProductIs
<1>4. CASE DeleteProduct(a)
  BY <1>1, <1>4, DeleteProductIs
<1>5. CASE \E t \in 1..MaxTemplates : InsertTemplate(a, t)
  BY <1>1, <1>5, InsertTemplateIs
<1>6. CASE DeleteTemplate(a)
  BY <1>1, <1>6, DeleteTemplateIs
<1> QED
  BY <1>2, <1>3, <1>4, <1>5, <1>6 DEF AdminWrites

LEMMA AdminWritesKeeps ==
  ASSUME CatalogInv, NEW a \in Admins, AdminWrites(a)
  PROVE  CatalogInv'
  BY AdminWritesAre, AdminWroteKeeps, RefusalKeeps

\* Every image is one of a sequence.
ImagesSeq == \E S : merged \in Seq(S) /\ Len(merged) >= 1

LEMMA AppendedIs ==
  ASSUME ImagesSeq, NEW image, merged' = Append(merged, image)
  PROVE  /\ ImagesSeq' /\ Len(merged) \in Nat /\ Len(merged) + 1 \in DOMAIN merged'
         /\ Len(merged) \in DOMAIN merged /\ Null \notin DOMAIN merged
         /\ merged'[Len(merged) + 1] = image
         /\ \A i \in DOMAIN merged : i \in DOMAIN merged' /\ merged'[i] = merged[i]
         /\ \A i \in DOMAIN merged' : i \in DOMAIN merged \/ i = Len(merged) + 1
<1>1. PICK S : merged \in Seq(S) /\ Len(merged) >= 1
  BY DEF ImagesSeq
<1>2. merged \in Seq(S \union {image})
  BY <1>1
<1>3. merged' \in Seq(S \union {image}) /\ Len(merged') = Len(merged) + 1
  BY <1>2
<1>4. DOMAIN merged = 1..Len(merged) /\ DOMAIN merged' = 1..(Len(merged) + 1) /\ Len(merged) \in Nat
  BY <1>2, <1>3
<1>5. merged'[Len(merged) + 1] = image /\ \A i \in 1..Len(merged) : merged'[i] = merged[i]
  BY <1>2
<1>6. ImagesSeq'
  BY <1>1, <1>3, <1>4 DEF ImagesSeq
<1> QED
  BY <1>1, <1>4, <1>5, <1>6 DEF Null

\* Another image changes nothing for those there are.
LEMMA MergedKeeps ==
  ASSUME CatalogInv, ByHand, CopyIsTrue', copied' = [product |-> copied'.product, image |-> copied'.image],
         \A i \in DOMAIN merged : i \in DOMAIN merged' /\ merged'[i] = merged[i],
         \A i \in DOMAIN merged' : IsImage(merged'[i])
  PROVE  CatalogInv'
<1> USE DEF CatalogInv
<1>1. UNCHANGED <<products, templates, releaseNotes, storage, advisoryLock, draft, rollout, admin, touched, settled>>
  BY DEF ByHand
<1>2. ProductsSeen' = ProductsSeen /\ TemplatesSeen' = TemplatesSeen /\ ReleasesSeen' = ReleasesSeen
  BY <1>1 DEF ProductsSeen, TemplatesSeen, ReleasesSeen
<1>3. TablesTyped' /\ RequestsFit' /\ TablesFit'
  BY <1>1, <1>2 DEF TablesTyped, RequestsFit, TablesFit
<1>4. \A r \in Rollouts : rollout[r].step # "idle" =>
        rollout[r].image \in DOMAIN merged' /\ merged'[rollout[r].image] = merged[rollout[r].image]
  BY DEF RolloutsFit
<1>5. RolloutsFit'
  <2>1. ASSUME NEW r \in Rollouts
        PROVE  /\ rollout[r].step # "idle" => /\ rollout[r].image \in DOMAIN merged'
                                              /\ rollout[r].todo \subseteq merged'[rollout[r].image]
               /\ rollout[r].step = "loaded" => rollout[r].todo = merged'[rollout[r].image]
               /\ rollout[r].step \in WithDocument => rollout[r].doc \in merged'[rollout[r].image] \ rollout[r].todo
    BY <1>4 DEF RolloutsFit, WithDocument
  <2> QED
    BY <1>1, <2>1 DEF RolloutsFit
<1>6. \A r \in Rollouts : advisoryLock = r =>
        Done(r)' = Done(r) /\ TakenUp(r)' = TakenUp(r) /\ merged'[rollout[r].image] = merged[rollout[r].image]
  <2> SUFFICES ASSUME NEW r \in Rollouts, advisoryLock = r
               PROVE  Done(r)' = Done(r) /\ TakenUp(r)' = TakenUp(r)
                      /\ merged'[rollout[r].image] = merged[rollout[r].image]
    OBVIOUS
  <2>1. rollout[r].step # "idle"
    BY DEF RolloutsFit, InApply
  <2> QED
    BY <1>1, <1>4, <2>1 DEF Done, TakenUp
<1>7. \A p, d : BelongsTo(p, d)' = BelongsTo(p, d)
  BY <1>1, <1>2 DEF BelongsTo
<1>8. DraftFits'
  BY <1>1, <1>2, <1>6, <1>7 DEF DraftFits
<1>9. KnowsRow'
  BY <1>1, <1>2, <1>7 DEF KnowsRow, KnowsItsRow
<1>10. DoneIsDeclared'
  BY <1>1, <1>2, <1>6 DEF DoneIsDeclared
<1>11. SettledIsDeclared'
  BY <1>1 DEF SettledIsDeclared
<1>12. AgainIsQuiet'
  <2>1. \A r \in Rollouts : (advisoryLock = r /\ Again(r)') => Again(r)
    BY <1>1, <1>6 DEF Again, SettledIsDeclared
  <2> QED
    BY <1>1, <2>1 DEF AgainIsQuiet
<1> QED
  BY <1>3, <1>5, <1>8, <1>9, <1>10, <1>11, <1>12

LEMMA MergeKeeps ==
  ASSUME CatalogInv, ImagesSeq, Merge
  PROVE  CatalogInv' /\ ImagesSeq'
<1> USE DEF CatalogInv
<1>1. PICK image : /\ \/ \E e \in Documents : image = {d \in Newest : d.slug # e.slug} \union {e}
                      \/ \E e \in Newest : image = Newest \ {e}
                   /\ merged' = Append(merged, image)
  BY DEF Merge
<1>2. ByHand /\ copied' = copied
  BY DEF Merge
<1>3. /\ ImagesSeq' /\ Len(merged) \in DOMAIN merged
      /\ merged'[Len(merged) + 1] = image
      /\ \A i \in DOMAIN merged : i \in DOMAIN merged' /\ merged'[i] = merged[i]
      /\ \A i \in DOMAIN merged' : i \in DOMAIN merged \/ i = Len(merged) + 1
  BY <1>1, AppendedIs
<1>4. IsImage(Newest)
  BY <1>3 DEF Newest, RolloutsFit
<1>5. IsImage(image)
  <2>1. CASE \E e \in Documents : image = {d \in Newest : d.slug # e.slug} \union {e}
    <3>1. PICK e \in Documents : image = {d \in Newest : d.slug # e.slug} \union {e}
      BY <2>1
    <3>2. IsImage({e})
      BY CatalogAssumption
    <3> QED
      BY <1>4, <3>1, <3>2 DEF IsImage
  <2>2. CASE \E e \in Newest : image = Newest \ {e}
    BY <1>4, <2>2 DEF IsImage
  <2> QED
    BY <1>1, <2>1, <2>2
<1>6. \A i \in DOMAIN merged' : IsImage(merged'[i])
  BY <1>3, <1>5 DEF RolloutsFit
<1>7. CopyIsTrue'
  BY <1>2, <1>3 DEF CopyIsTrue, ByHand
<1>8. copied' = [product |-> copied'.product, image |-> copied'.image]
  BY <1>2 DEF TablesTyped
<1> QED
  BY <1>2, <1>3, <1>6, <1>7, <1>8, MergedKeeps

LEMMA CurateKeeps ==
  ASSUME CatalogInv, ImagesSeq, Curate
  PROVE  CatalogInv' /\ ImagesSeq'
<1> USE DEF CatalogInv
<1>1. PICK p, slug :
        /\ p \in LiveIn(products)
        /\ slug = IF products[p].slug # Null THEN products[p].slug ELSE SlugOf[products[p].name]
        /\ products[p].template \in LiveIn(templates)
        /\ merged' = Append(merged, {d \in Newest : d.slug # slug} \union {DocumentOf(p, slug)})
        /\ copied' = [product |-> p, image |-> Len(merged) + 1]
  BY DEF Curate
<1>2. ByHand
  BY DEF Curate
<1>3. PICK doc : doc = DocumentOf(p, slug)
  OBVIOUS
<1> DEFINE image == {d \in Newest : d.slug # slug} \union {doc}
<1>4. merged' = Append(merged, image)
  BY <1>1, <1>3
<1> HIDE DEF image
<1>5. /\ ImagesSeq' /\ Len(merged) \in DOMAIN merged /\ Len(merged) + 1 \in DOMAIN merged'
      /\ merged'[Len(merged) + 1] = image
      /\ \A i \in DOMAIN merged : i \in DOMAIN merged' /\ merged'[i] = merged[i]
      /\ \A i \in DOMAIN merged' : i \in DOMAIN merged \/ i = Len(merged) + 1
  BY <1>4, AppendedIs
<1>6. IsImage(Newest)
  BY <1>5 DEF Newest, RolloutsFit
<1>7. p \in DOMAIN products /\ IsProduct(products[p])
  BY <1>1 DEF LiveIn, TablesTyped, IsProducts
<1>8. /\ doc.slug = slug /\ doc.name = products[p].name /\ doc.listing = products[p].listing
      /\ doc.icon = products[p].icon /\ doc.spec = templates[products[p].template].spec
  BY <1>3 DEF DocumentOf
<1>9. slug \in Nat \ {Null} /\ products[p].name \in ProductNames
  BY <1>1, <1>7, CatalogAssumption DEF IsProduct
<1>10. IsImage(image)
  BY <1>6, <1>8, <1>9 DEF IsImage, image
<1>11. \A i \in DOMAIN merged' : IsImage(merged'[i])
  BY <1>5, <1>10 DEF RolloutsFit
<1>12. /\ copied'.product = p /\ copied'.image = Len(merged) + 1
       /\ copied' = [product |-> copied'.product, image |-> copied'.image]
  BY <1>1
<1>13. CopyIsTrue'
  <2>1. products' = products /\ templates' = templates
    BY <1>2 DEF ByHand
  <2>2. doc \in merged'[copied'.image] /\ copied'.image \in DOMAIN merged'
    BY <1>5, <1>12 DEF image
  <2>3. products[p].slug \in {Null, doc.slug}
    BY <1>1, <1>8
  <2> QED
    BY <1>1, <1>8, <1>12, <2>1, <2>2, <2>3 DEF CopyIsTrue
<1> QED
  BY <1>2, <1>5, <1>11, <1>12, <1>13, MergedKeeps

\* No step but those two adds an image.
LEMMA OthersAddNone ==
  ASSUME CatalogInv,
         (\E r \in Rollouts : RolloutStep(r)) \/ (\E a \in Admins : AdminReads(a) \/ AdminWrites(a))
  PROVE  UNCHANGED merged
  BY DEF RolloutStep, StartApply, TakeLock, ResolveProduct, WriteProduct, DescribeProduct, FinishApply, AbortApply,
         ByRollout, AdminReads, AdminWrites, ByAdmin

\* The invariant of the catalog: what an apply has flushed is of the documents it has taken up,
\* what it is done with is declared, and what it has only read is as it was unless an
\* administrator wrote to it.
LEMMA CatalogKeeps ==
  CatalogInv /\ ImagesSeq /\ [CatalogNext]_catalogVars => CatalogInv' /\ ImagesSeq'
<1> SUFFICES ASSUME CatalogInv, ImagesSeq, [CatalogNext]_catalogVars
             PROVE  CatalogInv' /\ ImagesSeq'
  OBVIOUS
<1>1. CASE \E r \in Rollouts : RolloutStep(r)
  <2>1. CatalogInv'
    BY <1>1, RolloutKeeps
  <2>2. ImagesSeq'
    BY <1>1, OthersAddNone DEF ImagesSeq
  <2> QED
    BY <2>1, <2>2
<1>2. CASE \E a \in Admins : AdminReads(a) \/ AdminWrites(a)
  <2>1. CatalogInv'
    BY <1>2, AdminReadsKeeps, AdminWritesKeeps
  <2>2. ImagesSeq'
    BY <1>2, OthersAddNone DEF ImagesSeq
  <2> QED
    BY <2>1, <2>2
<1>3. CASE Merge
  BY <1>3, MergeKeeps
<1>4. CASE Curate
  BY <1>4, CurateKeeps
<1>5. CASE UNCHANGED catalogVars
  <2>1. UNCHANGED <<merged, products, templates, releaseNotes, storage, advisoryLock, draft, rollout, admin, touched, settled, copied>>
    BY <1>5 DEF catalogVars
  <2>2. RolloutsFit' /\ RequestsFit'
    BY <2>1 DEF CatalogInv, RolloutsFit, RequestsFit
  <2>3. CatalogInv'
    BY <2>1, <2>2, HolderKeeps DEF CatalogInv
  <2> QED
    BY <2>1, <2>3 DEF ImagesSeq
<1> QED
  BY <1>1, <1>2, <1>3, <1>4, <1>5 DEF CatalogNext

\* The invariant holds at every step of rollouts, administrators, merges and curate
\* (services/catalog.py, services/products.py, services/templates.py).
THEOREM CatalogInvariance == CatalogSpec => [](CatalogInv /\ ImagesSeq)
<1>1. CatalogInit => CatalogInv /\ ImagesSeq
  <2>1. ASSUME CatalogInit PROVE ImagesSeq
    <3>1. PICK S : S = {FirstImage}
      OBVIOUS
    <3>2. merged \in Seq(S) /\ Len(merged) = 1
      BY <2>1, <3>1 DEF CatalogInit
    <3> QED
      BY <3>2 DEF ImagesSeq
  <2> QED
    BY <2>1, CatalogStarts
<1> QED
  BY <1>1, CatalogKeeps, PTL DEF CatalogSpec


\* While an apply runs, only its own steps take or free the lock.
LEMMA LockStays ==
  ASSUME CatalogInv, NEW r \in Rollouts,
         StartApply(r) \/ ResolveProduct(r) \/ DescribeProduct(r)
  PROVE  UNCHANGED <<products, templates, releaseNotes, advisoryLock>>
  BY DEF StartApply, ResolveProduct, DescribeProduct, KeepsRows

\* What ends an apply: a commit, or a rollback that leaves the tables as they were.
LEMMA StepIs ==
  ASSUME CatalogInv, NEW r \in Rollouts, RolloutStep(r)
  PROVE  \/ UNCHANGED <<products, templates, releaseNotes>>
         \/ Committed(r)
<1>1. CASE StartApply(r) \/ ResolveProduct(r) \/ DescribeProduct(r)
  BY <1>1, LockStays
<1>2. CASE TakeLock(r)
  BY <1>2 DEF TakeLock, KeepsRows
<1>3. CASE WriteProduct(r)
  BY <1>3, WriteIs DEF Rollback, KeepsRows, Wrote
<1>4. CASE FinishApply(r)
  <2>1. CASE rollout[r].dry
    BY <1>4, <2>1 DEF FinishApply, Rollback, KeepsRows
  <2>2. CASE ~rollout[r].dry
    BY <1>4, <2>2, CommitIs
  <2> QED
    BY <2>1, <2>2
<1>5. CASE AbortApply(r)
  BY <1>5 DEF AbortApply, Rollback, KeepsRows
<1> QED
  BY <1>1, <1>2, <1>3, <1>4, <1>5 DEF RolloutStep

LEMMA VisibilityStep ==
  ASSUME CatalogInv, [CatalogNext]_catalogVars, advisoryLock # Null, advisoryLock' = Null
  PROVE  \A p \in DOMAIN products : products'[p].visibility = products[p].visibility
<1>1. CASE \E r \in Rollouts : RolloutStep(r)
  <2>1. PICK r \in Rollouts : RolloutStep(r)
    BY <1>1
  <2>2. CASE UNCHANGED <<products, templates, releaseNotes>>
    BY <2>2
  <2>3. CASE Committed(r)
    <3> SUFFICES ASSUME NEW p \in DOMAIN products
                 PROVE  products'[p].visibility = products[p].visibility
      OBVIOUS
    <3>1. p \in DOMAIN ProductsSeen /\ ProductsSeen[p].visibility = products[p].visibility
      BY SeenVisibility
    <3>2. products'[p].visibility = ProductsSeen[p].visibility
      BY <2>3, <3>1 DEF Committed
    <3> QED
      BY <3>1, <3>2
  <2> QED
    BY <2>1, <2>2, <2>3, StepIs
<1>2. CASE \E a \in Admins : AdminReads(a) \/ AdminWrites(a)
  BY <1>2 DEF AdminReads, AdminWrites, ByAdmin
<1>3. CASE Merge \/ Curate \/ UNCHANGED catalogVars
  BY <1>3 DEF Merge, Curate, ByHand, catalogVars
<1> QED
  BY <1>1, <1>2, <1>3 DEF CatalogNext

HistoryStep ==
  \A t \in DOMAIN templates :
    /\ t \in DOMAIN templates'
    /\ Lasting(templates'[t]) = Lasting(templates[t])
    /\ templates[t].version # Null => templates'[t].version = templates[t].version
    /\ (templates'[t].deleted /\ ~templates[t].deleted) => \E a \in Admins : admin[a].op = "drop"

LEMMA HistoryHolds ==
  ASSUME CatalogInv, [CatalogNext]_catalogVars
  PROVE  HistoryStep
<1>0. ASSUME templates' = templates PROVE HistoryStep
  BY <1>0 DEF HistoryStep
<1>1. CASE \E r \in Rollouts : RolloutStep(r)
  <2>1. PICK r \in Rollouts : RolloutStep(r)
    BY <1>1
  <2>2. CASE Committed(r)
    <3>1. templates' = TemplatesSeen
      BY <2>2 DEF Committed
    <3> QED
      BY <3>1, TemplatesLast DEF HistoryStep
  <2> QED
    BY <1>0, <2>1, <2>2, StepIs
<1>2. CASE \E a \in Admins : AdminReads(a)
  BY <1>0, <1>2 DEF AdminReads, KeepsRows
<1>3. CASE \E a \in Admins : AdminWrites(a)
  <2>1. PICK a \in Admins : AdminWrites(a)
    BY <1>3
  <2>2. ASSUME NEW w, AdminWrote(w) PROVE HistoryStep
    <3>1. \A t \in DOMAIN templates :
            /\ t \in DOMAIN templates'
            /\ templates'[t].product = templates[t].product /\ templates'[t].spec = templates[t].spec
            /\ templates'[t].catalog = templates[t].catalog /\ templates'[t].version = templates[t].version
      BY <2>2 DEF AdminWrote
    <3>2. ASSUME admin[a].op # "drop" PROVE \A t \in DOMAIN templates : templates'[t] = templates[t]
      <4>1. CASE \E p \in 1..MaxProducts : InsertProduct(a, p)
        BY <4>1 DEF InsertProduct
      <4>2. CASE UpdateProduct(a) \/ DeleteProduct(a)
        BY <4>2 DEF UpdateProduct, DeleteProduct
      <4>3. CASE \E s \in 1..MaxTemplates : InsertTemplate(a, s)
        <5>1. PICK s, entry : s \in FreshIn(TemplatesSeen, MaxTemplates) /\ templates' = Over(Single(s, entry), templates)
          BY <4>3 DEF InsertTemplate
        <5>2. s \notin DOMAIN TemplatesSeen
          BY <5>1 DEF FreshIn
        <5>3. s \notin DOMAIN templates
          BY <5>2, SeenRows DEF SeenIs
        <5> QED
          BY <5>1, <5>3 DEF Over, Single
      <4>4. CASE DeleteTemplate(a)
        BY <3>2, <4>4 DEF DeleteTemplate
      <4> QED
        BY <2>1, <4>1, <4>2, <4>3, <4>4 DEF AdminWrites
    <3> QED
      BY <3>1, <3>2 DEF HistoryStep, Lasting
  <2> QED
    BY <1>0, <2>1, <2>2, AdminWritesAre
<1>4. CASE Merge \/ Curate \/ UNCHANGED catalogVars
  BY <1>0, <1>4 DEF Merge, Curate, ByHand, catalogVars
<1> QED
  BY <1>1, <1>2, <1>3, <1>4 DEF CatalogNext

LEMMA AppliedStep ==
  ASSUME CatalogInv, NEW r \in Rollouts, Commits(r)
  PROVE  LET image == merged[rollout[r].image]
             rows == {p \in LiveIn(products') \ touched : products'[p].curated}
         IN /\ \A d \in image : \E p \in DOMAIN products' :
                 products'[p].slug = d.slug /\ (p \in touched \/ IsApplied(p, d))
            /\ \A p \in rows : \E d \in image : d.slug = products'[p].slug
<1>1. Committed(r)
  BY CommitIs DEF Commits
<1> DEFINE image == merged[rollout[r].image]
<1>2. ASSUME NEW d \in image
      PROVE  \E p \in DOMAIN products' : products'[p].slug = d.slug /\ (p \in touched \/ IsApplied(p, d))
  <2>1. PICK p \in DOMAIN products' :
          /\ products'[p].slug = d.slug
          /\ p \in touched \/ IsDeclared(products', templates', releaseNotes', p, d)
          /\ Pictures(d) \subseteq storage
    BY <1>1 DEF Committed
  <2>2. ASSUME IsDeclared(products', templates', releaseNotes', p, d) PROVE IsApplied(p, d)
    <3>1. storage' = storage
      BY <1>1 DEF Committed
    <3> QED
      BY <2>1, <2>2, <3>1 DEF IsDeclared, IsApplied
  <2> QED
    BY <2>1, <2>2
<1>3. \A p \in LiveIn(products') : products'[p].curated => \E d \in image : d.slug = products'[p].slug
  BY <1>1 DEF Committed
<1> QED
  BY <1>2, <1>3

\* An apply of the image last applied is not refused.
LEMMA NotRefused ==
  ASSUME CatalogInv, NEW r \in Rollouts, WriteProduct(r), advisoryLock' = Null
  PROVE  touched # {} \/ merged[rollout[r].image] \notin {merged[i] : i \in settled}
<1>1. CASE Rollback(r) /\ ~Again(r)
  BY <1>1 DEF Again
<1>2. CASE \E p \in Nat \ {Null} : Wrote(r, p)
  <2>1. advisoryLock' = advisoryLock
    BY <1>2 DEF Wrote
  <2>2. advisoryLock = r
    BY DEF WriteProduct, CatalogInv, RolloutsFit, InApply
  <2> QED
    BY <2>1, <2>2, CatalogAssumption
<1> QED
  BY <1>1, <1>2, WriteIs

\* ... and changes nothing but pointers.
LEMMA AgainCommits ==
  ASSUME CatalogInv, NEW r \in Rollouts, Committed(r), Again(r)
  PROVE  templates' = templates /\ releaseNotes' = releaseNotes /\ \A p \in DOMAIN products : SameUpToPointer(p)
<1> USE DEF CatalogInv
<1>1. /\ advisoryLock = r /\ templates' = TemplatesSeen /\ releaseNotes' = ReleasesSeen
  BY DEF Committed
<1>2. /\ \A p \in DOMAIN draft.products : p \in DOMAIN products /\ SameButPointer(draft.products[p], products[p])
      /\ \A t \in DOMAIN draft.templates : t \in DOMAIN templates /\ draft.templates[t] = templates[t]
      /\ \A p \in DOMAIN draft.releases : p \in DOMAIN releaseNotes /\ draft.releases[p] = releaseNotes[p]
  BY <1>1 DEF AgainIsQuiet
<1>3. IsFunction(templates) /\ IsFunction(releaseNotes)
  BY DEF TablesTyped, IsTemplates
<1>4. TemplatesSeen = templates
  <2>1. /\ IsFunction(TemplatesSeen) /\ DOMAIN TemplatesSeen = DOMAIN templates
        /\ \A t \in DOMAIN templates : TemplatesSeen[t] = templates[t]
    BY <1>2, SeenRows DEF SeenIs
  <2> QED
    BY <1>3, <2>1, SameFunction
<1>5. ReleasesSeen = releaseNotes
  <2>1. /\ IsFunction(ReleasesSeen) /\ DOMAIN ReleasesSeen = DOMAIN releaseNotes
        /\ \A p \in DOMAIN releaseNotes : ReleasesSeen[p] = releaseNotes[p]
    BY <1>2, SeenRows DEF SeenIs
  <2> QED
    BY <1>3, <2>1, SameFunction
<1>6. ASSUME NEW p \in DOMAIN products PROVE SameUpToPointer(p)
  <2> DEFINE x == ProductsSeen[p]
             z == products[p]
  <2>1. p \in DOMAIN ProductsSeen /\ IsProduct(x) /\ IsProduct(z)
    BY SeenRows, SeenTyped DEF SeenIs, TablesTyped, IsProducts
  <2>2. SameButPointer(x, z)
    <3>1. CASE p \in DOMAIN draft.products
      BY <1>2, <3>1, SeenRows DEF SeenIs
    <3>2. CASE p \notin DOMAIN draft.products
      BY <3>2, SeenRows DEF SeenIs, SameButPointer
    <3> QED
      BY <3>1, <3>2
  <2> HIDE DEF x, z
  <2>3. x.slug = z.slug /\ x.deleted = z.deleted /\ x.curated = z.curated
    BY <2>1, <2>2, SamePointerIs DEF IsProduct
  <2>4. p \notin Released(r)
    <3> SUFFICES ASSUME p \in Released(r) PROVE FALSE
      OBVIOUS
    <3>1. /\ ~x.deleted /\ x.curated
          /\ \A d \in merged[rollout[r].image] : d.slug # x.slug
      BY DEF Released, LiveIn, x
    <3>2. p \in LiveIn(products) /\ products[p].curated
      BY <2>3, <3>1 DEF LiveIn, z
    <3>3. \E d \in merged[rollout[r].image] : d.slug = products[p].slug
      BY <3>2 DEF Again, SettledIsDeclared
    <3> QED
      BY <2>3, <3>1, <3>3 DEF z
  <2>5. products'[p] = x
    BY <2>1, <2>4 DEF Committed, x
  <2> QED
    BY <2>2, <2>5 DEF SameUpToPointer, SameButPointer, z
<1> QED
  BY <1>1, <1>4, <1>5, <1>6

\* A document that curate wrote adopts its product as it is.
LEMMA CopyCommits ==
  ASSUME CatalogInv, ImagesSeq, NEW r \in Rollouts, Committed(r), touched = {}, rollout[r].step = "resolve",
         rollout[r].todo = {}, ~rollout[r].dry, rollout[r].image = copied.image
  PROVE  LET p == copied.product
         IN /\ \A c \in {"name", "listing", "icon", "visibility", "deleted"} : products'[p][c] = products[p][c]
            /\ \A t \in DOMAIN templates' \ DOMAIN templates : templates'[t].product # p
<1> USE DEF CatalogInv
<1> DEFINE image == merged[rollout[r].image]
<1>0. PICK p : p = copied.product
  OBVIOUS
<1>1. /\ advisoryLock = r /\ templates' = TemplatesSeen /\ rollout[r].image \in DOMAIN merged /\ IsImage(image)
  BY DEF Committed
<1>2. copied # NotCopied
  <2>1. Null \notin DOMAIN merged
    BY DEF ImagesSeq, Null
  <2> QED
    BY <1>1, <2>1 DEF NotCopied
<1>3. PICK d \in image :
        /\ d.name = products[p].name /\ d.listing = products[p].listing /\ d.icon = products[p].icon
        /\ d.spec = templates[products[p].template].spec
        /\ products[p].slug \in {Null, d.slug}
  BY <1>0, <1>2 DEF CopyIsTrue
<1>4. p \in LiveIn(products) /\ products[p].template \in LiveIn(templates)
  BY <1>0, <1>2 DEF CopyIsTrue
<1>5. Done(r) = image
  BY DEF Done, TakenUp, WithDocument
<1>6. d.slug # Null
  BY <1>1 DEF IsImage
<1>7. PICK q \in DOMAIN ProductsSeen :
        ProductsSeen[q].slug = d.slug /\ IsDeclared(ProductsSeen, TemplatesSeen, ReleasesSeen, q, d)
  BY <1>1, <1>5 DEF DoneIsDeclared
<1>8. q \in LiveIn(ProductsSeen) /\ ProductsSeen[q].name = d.name /\ ProductsSeen[q].listing = d.listing
      /\ (d.icon # Null => ProductsSeen[q].icon = d.icon)
  BY <1>7 DEF IsDeclared, LiveIn
<1>9. AreUnique(ProductsSeen)
  BY DEF TablesFit
<1>10. ASSUME p \in DOMAIN draft.products
       PROVE  \E e \in image :
                /\ ProductsSeen[p].slug = e.slug /\ ProductsSeen[p].name = e.name /\ p \in LiveIn(ProductsSeen)
                /\ products[p].slug = e.slug \/ (products[p].slug = Null /\ products[p].name = e.name)
                /\ ProductsSeen[p].icon \in {e.icon, products[p].icon}
  <2>1. PICK e \in image : BelongsTo(p, e)
    BY <1>1, <1>5, <1>10 DEF DraftFits
  <2>2. p \in DOMAIN products
    BY <1>4 DEF LiveIn
  <2> QED
    BY <2>1, <2>2 DEF BelongsTo, LiveIn
<1>11. ASSUME p \notin DOMAIN draft.products
       PROVE  ProductsSeen[p] = products[p] /\ p \in LiveIn(ProductsSeen)
  BY <1>4, <1>11, SeenRows DEF SeenIs, LiveIn
<1>12. p = q
  <2>1. CASE p \notin DOMAIN draft.products
    BY <1>3, <1>8, <1>9, <1>11, <2>1 DEF AreUnique
  <2>2. CASE p \in DOMAIN draft.products
    <3>1. PICK e \in image :
            /\ ProductsSeen[p].slug = e.slug /\ ProductsSeen[p].name = e.name /\ p \in LiveIn(ProductsSeen)
            /\ products[p].slug = e.slug \/ (products[p].slug = Null /\ products[p].name = e.name)
      BY <1>10, <2>2
    <3>2. e.slug # Null
      BY <1>1 DEF IsImage
    <3>3. CASE products[p].slug = e.slug
      <4>1. e.slug = d.slug
        BY <1>3, <3>2, <3>3
      <4> QED
        BY <1>6, <1>7, <1>8, <1>9, <3>1, <4>1 DEF AreUnique
    <3>4. CASE products[p].name = e.name
      BY <1>3, <1>8, <1>9, <3>1, <3>4 DEF AreUnique
    <3> QED
      BY <3>1, <3>3, <3>4
  <2> QED
    BY <2>1, <2>2
<1>13. ProductsSeen[p].icon = products[p].icon
  <2>1. CASE p \notin DOMAIN draft.products
    BY <1>11, <2>1
  <2>2. CASE p \in DOMAIN draft.products
    <3>1. PICK e \in image : ProductsSeen[p].slug = e.slug /\ ProductsSeen[p].icon \in {e.icon, products[p].icon}
      BY <1>10, <2>2
    <3>2. e = d
      BY <1>1, <1>7, <1>12, <3>1 DEF IsImage
    <3> QED
      BY <1>3, <3>1, <3>2
  <2> QED
    BY <2>1, <2>2
<1>14. /\ p \in DOMAIN ProductsSeen /\ ProductsSeen[p].visibility = products[p].visibility
  BY <1>4, SeenVisibility DEF LiveIn
<1>15. ProductsSeen[p].deleted = products[p].deleted
  <2>1. IsProduct(ProductsSeen[p]) /\ IsProduct(products[p])
    BY <1>4, <1>14, SeenTyped DEF TablesTyped, IsProducts, LiveIn
  <2>2. ProductsSeen[p].deleted = FALSE
    BY <1>8, <1>12, <2>1 DEF LiveIn, IsProduct
  <2>3. products[p].deleted = FALSE
    BY <1>4, <2>1 DEF LiveIn, IsProduct
  <2> QED
    BY <2>2, <2>3
<1>16. /\ products'[p].name = products[p].name /\ products'[p].listing = products[p].listing
       /\ products'[p].icon = products[p].icon /\ products'[p].visibility = products[p].visibility
       /\ products'[p].deleted = products[p].deleted
  <2>1. /\ products'[p].name = ProductsSeen[p].name /\ products'[p].listing = ProductsSeen[p].listing
        /\ products'[p].icon = ProductsSeen[p].icon /\ products'[p].visibility = ProductsSeen[p].visibility
        /\ products'[p].deleted = ProductsSeen[p].deleted
    BY <1>14 DEF Committed
  <2> QED
    BY <1>3, <1>8, <1>12, <1>13, <1>14, <1>15, <2>1
<1>17. ASSUME NEW t \in DOMAIN templates' \ DOMAIN templates, templates'[t].product = p
       PROVE  FALSE
  <2>1. t \in DOMAIN draft.templates /\ draft.templates[t].product = p
    BY <1>1, <1>17, SeenRows DEF SeenIs
  <2>2. PICK e \in image : ProductsSeen[p].slug = e.slug /\ draft.templates[t].spec = e.spec
    BY <1>1, <1>5, <1>17, <2>1 DEF DraftFits
  <2>3. e = d
    BY <1>1, <1>7, <1>12, <2>2 DEF IsImage
  <2>4. \A s \in LiveIn(templates) : templates[s].product = p => templates[s].spec # d.spec
    BY <1>1, <1>17, <2>1, <2>2, <2>3 DEF DraftFits
  <2>5. products[p].template # Null
    BY <1>4 DEF TablesTyped, IsTemplates, LiveIn
  <2>6. templates[products[p].template].product = p
    BY <1>4, <2>5 DEF TablesFit, PointersFit, LiveIn
  <2> QED
    BY <1>3, <1>4, <2>4, <2>6
<1> QED
  BY <1>0, <1>16, <1>17

LEMMA AppliesOnceStep ==
  ASSUME CatalogInv, ImagesSeq, NEW r \in Rollouts, Commits(r), touched = {}
  PROVE  /\ (merged[rollout[r].image] \in {merged[i] : i \in settled}) =>
              templates' = templates /\ releaseNotes' = releaseNotes /\ \A p \in DOMAIN products : SameUpToPointer(p)
         /\ rollout[r].image = copied.image =>
              LET p == copied.product
              IN /\ \A c \in {"name", "listing", "icon", "visibility", "deleted"} : products'[p][c] = products[p][c]
                 /\ \A t \in DOMAIN templates' \ DOMAIN templates : templates'[t].product # p
<1>1. /\ Committed(r) /\ rollout[r].step = "resolve" /\ rollout[r].todo = {} /\ ~rollout[r].dry
  BY CommitIs DEF Commits, FinishApply
<1>2. ASSUME merged[rollout[r].image] \in {merged[i] : i \in settled} PROVE Again(r)
  BY <1>2 DEF Again
<1> QED
  BY <1>1, <1>2, AgainCommits, CopyCommits

\* What the catalog promises, for every number of rollouts, administrators and images: an apply
\* keeps what users are offered, templates are history, appliers insert no template twice, a
\* commit is its image as declared, and applying it again changes nothing (services/catalog.py).
THEOREM CatalogStaysTrue == CatalogSpec => CatalogHolds
<1>1. CatalogSpec => VisibilityIsKept
  <2>1. (CatalogInv /\ ImagesSeq) /\ [CatalogNext]_catalogVars =>
          [(advisoryLock # Null /\ advisoryLock' = Null) =>
             \A p \in DOMAIN products : products'[p].visibility = products[p].visibility]_catalogVars
    BY VisibilityStep
  <2> QED
    BY <2>1, CatalogInvariance, PTL DEF CatalogSpec, VisibilityIsKept
<1>2. CatalogSpec => TemplatesAreHistory
  <2>1. (CatalogInv /\ ImagesSeq) /\ [CatalogNext]_catalogVars =>
          [\A t \in DOMAIN templates :
             /\ t \in DOMAIN templates'
             /\ Lasting(templates'[t]) = Lasting(templates[t])
             /\ templates[t].version # Null => templates'[t].version = templates[t].version
             /\ (templates'[t].deleted /\ ~templates[t].deleted) => \E a \in Admins : admin[a].op = "drop"]_catalogVars
    BY HistoryHolds DEF HistoryStep
  <2> QED
    BY <2>1, CatalogInvariance, PTL DEF CatalogSpec, TemplatesAreHistory
<1>3. CatalogSpec => []NoDuplicates
  <2>1. CatalogInv /\ ImagesSeq => NoDuplicates
    BY DEF CatalogInv, TablesFit, NoDuplicates
  <2> QED
    BY <2>1, CatalogInvariance, PTL
<1>4. CatalogSpec => AppliedIsDeclared
  <2>1. (CatalogInv /\ ImagesSeq) /\ [CatalogNext]_catalogVars =>
          [\A r \in Rollouts : Commits(r) =>
             LET image == merged[rollout[r].image]
                 rows == {p \in LiveIn(products') \ touched : products'[p].curated}
             IN /\ \A d \in image : \E p \in DOMAIN products' :
                     products'[p].slug = d.slug /\ (p \in touched \/ IsApplied(p, d))
                /\ \A p \in rows : \E d \in image : d.slug = products'[p].slug]_catalogVars
    BY AppliedStep
  <2> QED
    BY <2>1, CatalogInvariance, PTL DEF CatalogSpec, AppliedIsDeclared
<1>5. CatalogSpec => AppliesOnce
  <2>1. (CatalogInv /\ ImagesSeq) /\ [CatalogNext]_catalogVars =>
          [/\ \A r \in Rollouts : (WriteProduct(r) /\ advisoryLock' = Null) =>
                touched # {} \/ merged[rollout[r].image] \notin {merged[i] : i \in settled}
           /\ \A r \in Rollouts : (Commits(r) /\ touched = {}) =>
                /\ (merged[rollout[r].image] \in {merged[i] : i \in settled}) =>
                     templates' = templates /\ releaseNotes' = releaseNotes /\ \A p \in DOMAIN products : SameUpToPointer(p)
                /\ rollout[r].image = copied.image =>
                     LET p == copied.product
                     IN /\ \A c \in {"name", "listing", "icon", "visibility", "deleted"} : products'[p][c] = products[p][c]
                        /\ \A t \in DOMAIN templates' \ DOMAIN templates : templates'[t].product # p]_catalogVars
    BY NotRefused, AppliesOnceStep
  <2> QED
    BY <2>1, CatalogInvariance, PTL DEF CatalogSpec, AppliesOnce
<1> QED
  BY <1>1, <1>2, <1>3, <1>4, <1>5 DEF CatalogHolds
=============================================================================
