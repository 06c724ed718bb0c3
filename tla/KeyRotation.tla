---------------------------- MODULE KeyRotation ----------------------------
(* The keyring that encrypts stored secrets (services/var_crypto.py) and    *)
(* its rotation: the operator distributes, promotes and retires a key (the  *)
(* procedure of tf/README.md), processes come and go with the list they     *)
(* started with, refuse to start when it does not cover what is stored, and *)
(* `keyring-rotate' (cli.py) rewrites the rows in batches. Plaintexts never *)
(* change once written, so a row is the column it is in, its id and the     *)
(* fingerprint of its key.                                                  *)
EXTENDS Naturals, Sequences, FiniteSets

CONSTANTS
  Secrets,   \* fingerprints of the operator's keys
  Servers,   \* processes that encrypt and decrypt: of the API, of the worker
  NoSecret,
  BatchSize, \* rows of one transaction of the sweep
  MaxStored, MaxEdits, MaxSweeps \* bounds: rows ever written, edits of the list, sweeps

ASSUME RotationAssumption ==
  /\ BatchSize \in Nat \ {0} /\ {MaxStored, MaxEdits, MaxSweeps} \subseteq Nat /\ NoSecret \notin Secrets

Columns == <<"var", "database">>

VARIABLES
  config,  \* the list in the operator's Secret, newest first
  edits,
  server,  \* each process: "down", "verifies" or "serves", and its list
  stored,  \* the rows that hold a ciphertext
  nextId,
  writing, \* each process's open transaction: the column and key of its new row
  sweep,   \* each process's keyring-rotate: the column it is at, the batch it has read
  sweeps

rotationVars == <<config, edits, server, stored, nextId, writing, sweep, sweeps>>

NoWriting == [column |-> "none", key |-> NoSecret]
NoSweep == [column |-> 0, batch |-> {}, rolled |-> FALSE]
Down == [st |-> "down", keys |-> <<>>]

RotationInit ==
  /\ config \in {<<k>> : k \in Secrets} /\ edits = 0
  /\ server = [p \in Servers |-> Down]
  /\ stored = {} /\ nextId = 1 /\ writing = [p \in Servers |-> NoWriting]
  /\ sweep = [p \in Servers |-> NoSweep] /\ sweeps = 0

HeldBy(keys) == {keys[i] : i \in DOMAIN keys}

\* Every process that is up started with the list as it is now.
Rolled == \A p \in Servers : server[p].st # "down" => server[p].keys = config

----------------------------------------------------------------------------
(* The operator *)

Edits(keys) ==
  /\ edits < MaxEdits /\ edits' = edits + 1 /\ config' = keys
  /\ UNCHANGED <<server, stored, nextId, writing, sweep, sweeps>>

\* Phase A: a key is added last, perhaps the same by mistake. Phase B, once
\* every process holds it: it comes first. Then the other is dropped, once
\* every process puts the new one first, whether or not a sweep has ended.
Distribute == \E k \in Secrets : Len(config) = 1 /\ Edits(Append(config, k))
Promote == Len(config) = 2 /\ Rolled /\ Edits(<<config[2], config[1]>>)
Retire == Len(config) = 2 /\ Rolled /\ Edits(<<config[1]>>)

----------------------------------------------------------------------------
(* Processes *)

Becomes(p, new) == server' = [server EXCEPT ![p] = new] /\ UNCHANGED <<config, edits, stored, nextId, sweeps>>

Starts(p) ==
  /\ server[p].st = "down" /\ Becomes(p, [st |-> "verifies", keys |-> config])
  /\ UNCHANGED <<writing, sweep>>

\* A process ends, with its transaction and a command that runs beside it.
Exits(p) ==
  /\ server[p].st # "down" /\ Becomes(p, Down)
  /\ writing' = [writing EXCEPT ![p] = NoWriting] /\ sweep' = [sweep EXCEPT ![p] = NoSweep]

\* Two keys of one fingerprint make no keyring.
IsKeyring(keys) == \A i, j \in DOMAIN keys : keys[i] = keys[j] => i = j

\* Mutant of EncryptedColumns: one column is missing in the registry.
EncryptedColumns_VarsOnly == <<"var">>

\* What the check and the sweep go through.
EncryptedColumns == Columns

StoredKeys == {r.key : r \in {s \in stored : s.column \in HeldBy(EncryptedColumns)}}

\* verify_keyring: a process whose list does not cover what is stored exits.
VerifyKeyring(p) ==
  /\ server[p].st = "verifies"
  /\ IF IsKeyring(server[p].keys) /\ StoredKeys \subseteq HeldBy(server[p].keys)
       THEN Becomes(p, [server[p] EXCEPT !.st = "serves"]) /\ UNCHANGED <<writing, sweep>>
       ELSE Exits(p)

\* encrypt: the first key of the list the process has.
Encrypt(p) ==
  /\ server[p].st = "serves" /\ writing[p] = NoWriting
  /\ \E c \in HeldBy(Columns) : writing' = [writing EXCEPT ![p] = [column |-> c, key |-> Head(server[p].keys)]]
  /\ UNCHANGED <<config, edits, server, stored, nextId, sweep, sweeps>>

CommitSecret(p) ==
  /\ writing[p] # NoWriting /\ nextId <= MaxStored
  /\ stored' = stored \union {[column |-> writing[p].column, id |-> nextId, key |-> writing[p].key]}
  /\ nextId' = nextId + 1 /\ writing' = [writing EXCEPT ![p] = NoWriting]
  /\ UNCHANGED <<config, edits, server, sweep, sweeps>>

\* A deployment goes, with its rows.
RemoveSecret ==
  /\ \E r \in stored : stored' = stored \ {r}
  /\ UNCHANGED <<config, edits, server, nextId, writing, sweep, sweeps>>

----------------------------------------------------------------------------
(* keyring-rotate, run in the container of a process *)

Sweeps(p, new) == sweep' = [sweep EXCEPT ![p] = new] /\ UNCHANGED <<config, edits, server, nextId, writing>>

BeginSecretSweep(p) ==
  /\ server[p].st # "down" /\ IsKeyring(server[p].keys)
  /\ sweep[p] = NoSweep /\ sweeps < MaxSweeps /\ sweeps' = sweeps + 1
  /\ Sweeps(p, [column |-> 1, batch |-> {}, rolled |-> Rolled]) /\ UNCHANGED stored

Unswept(p) ==
  {r \in stored : r.column = EncryptedColumns[sweep[p].column] /\ r.key # Head(server[p].keys)}

\* The first of them, in the order of their ids.
FirstBatch(rows) == {r \in rows : Cardinality({s \in rows : s.id <= r.id}) <= BatchSize}

\* A batch is read and decrypted; without one it is the next column's turn.
\* A key the process does not have ends the command.
ReadBatch(p) ==
  /\ sweep[p].column # 0 /\ sweep[p].batch = {}
  /\ LET batch == FirstBatch(Unswept(p)) IN
     \/ /\ Unswept(p) = {}
        /\ Sweeps(p, IF sweep[p].column < Len(EncryptedColumns) THEN [sweep[p] EXCEPT !.column = @ + 1] ELSE NoSweep)
     \/ /\ Unswept(p) # {}
        /\ Sweeps(p, IF {r.key : r \in batch} \subseteq HeldBy(server[p].keys)
                       THEN [sweep[p] EXCEPT !.batch = batch] ELSE NoSweep)
  /\ UNCHANGED <<stored, sweeps>>

Ids(rows) == {r.id : r \in rows}

\* The batch is committed whole: its rows are written by id, without a look
\* at what they hold by now. A row that is gone ends the command.
CommitBatch(p) ==
  LET ids == Ids(sweep[p].batch) IN
  /\ ids # {}
  /\ IF ids \subseteq Ids(stored)
       THEN /\ stored' = {IF r.id \in ids THEN [r EXCEPT !.key = Head(server[p].keys)] ELSE r : r \in stored}
            /\ Sweeps(p, [sweep[p] EXCEPT !.batch = {}])
       ELSE UNCHANGED stored /\ Sweeps(p, NoSweep)
  /\ UNCHANGED sweeps

RotationNext ==
  \/ Distribute \/ Promote \/ Retire \/ RemoveSecret
  \/ \E p \in Servers :
       Starts(p) \/ VerifyKeyring(p) \/ Exits(p) \/ Encrypt(p) \/ CommitSecret(p)
       \/ BeginSecretSweep(p) \/ ReadBatch(p) \/ CommitBatch(p)

RotationSpec == RotationInit /\ [][RotationNext]_rotationVars

----------------------------------------------------------------------------
(* Properties *)

RotationTypeOK ==
  /\ Len(config) \in 1..2 /\ \A p \in Servers : server[p].st \in {"down", "verifies", "serves"}
  /\ \A r \in stored : r.column \in HeldBy(Columns) /\ r.key \in Secrets /\ r.id < nextId

\* A process that serves can decrypt everything that is stored, at every
\* moment of a rotation: half swept, half rolled out, or with a key retired
\* too early, which stops processes from starting instead.
AllReadable ==
  \A p \in Servers : server[p].st = "serves" => \A r \in stored : r.key \in HeldBy(server[p].keys)

\* A sweep that began when every process was rolled out, and came to its end
\* before the list was edited again, leaves nothing under another key.
SweepsAreComplete ==
  [][\A p \in Servers :
       (/\ sweep[p].rolled /\ sweep[p].column = Len(EncryptedColumns) /\ sweep[p].batch = {}
        /\ sweep'[p] = NoSweep /\ Unswept(p) = {} /\ server'[p] = server[p]
        /\ config = server[p].keys)
         => \A r \in stored : r.key = Head(config)]_rotationVars

\* Rotating a key loses no secret.
SecretsStayReadable == [](RotationTypeOK /\ AllReadable) /\ SweepsAreComplete
============================================================================
