--------------------------- MODULE SecretRotation ---------------------------
(***************************************************************************)
(* Master-key rotation (connection/rotate.go, secretscli.go,               *)
(* secrets/keyring.go) running beside API processes that create and edit   *)
(* connections.  A credential is sealed under the current key of the       *)
(* keyring the process was started with, before the transaction that       *)
(* stores it; `secrets rotate` re-seals one row per transaction under a    *)
(* SELECT ... FOR UPDATE lock; `secrets status` counts rows per version;   *)
(* the operator edits SECRETS_KEYRING and restarts.                        *)
(*                                                                         *)
(* A sealed value is the plaintext and the key version it names: opening   *)
(* needs exactly that version (Keyring.Open), sealing uses exactly the     *)
(* current one (Keyring.Seal).                                             *)
(***************************************************************************)
EXTENDS Naturals

CONSTANTS
    Conns,          \* connection ids
    Secrets,        \* client secrets
    Servers,        \* API processes
    Rotators,       \* `secrets rotate` processes
    None

ASSUME RotationNoneAssumption == None \notin Secrets

\* The three keyrings of SECRET_KEY_ROTATION.md: before, both keys, old key removed.
Rings == {[held |-> {1}, current |-> 1],
          [held |-> {1, 2}, current |-> 2],
          [held |-> {2}, current |-> 2]}

FirstRing == CHOOSE k \in Rings : k.current = 1
BothKeys == CHOOSE k \in Rings : k.held = {1, 2}
LastRing == CHOOSE k \in Rings : 1 \notin k.held

Sealed == [plain : Secrets, version : {1, 2}]
NoRow == [plain |-> None, version |-> 0]

VARIABLES
    row,            \* the sealed columns of each connection
    wanted,         \* history: the credential the last committed request stored
    env,            \* SECRETS_KEYRING and SECRETS_KEY_CURRENT as they stand
    safe,           \* what the last `secrets status` reported as safe to remove
    ring,           \* the keyring each API process was started with
    write,          \* the sealed credential each API process is about to commit
    rot,            \* each rotation run
    lax             \* history: a command was run before every API process had been restarted

rotationVars == <<row, wanted, env, safe, ring, write, rot, lax>>

NoWrite == [conn |-> None, plain |-> None, version |-> 0, new |-> FALSE]
Writes == [conn : Conns, plain : Secrets, version : {1, 2}, new : BOOLEAN]
NoRun == [pc |-> "idle", ring |-> FirstRing, todo |-> {}, conn |-> None, read |-> NoRow,
          failed |-> FALSE]

Runs == [pc : {"idle", "next", "locked"}, ring : Rings, todo : SUBSET Conns,
         conn : Conns \cup {None}, read : Sealed \cup {NoRow}, failed : BOOLEAN]

RotationTypeOK ==
    /\ row \in [Conns -> Sealed \cup {NoRow}]
    /\ wanted \in [Conns -> Secrets \cup {None}]
    /\ env \in Rings
    /\ safe \subseteq {1, 2}
    /\ ring \in [Servers -> Rings]
    /\ write \in [Servers -> Writes \cup {NoWrite}]
    /\ rot \in [Rotators -> Runs]
    /\ \A r \in Rotators : rot[r].pc = "locked" => rot[r].conn \in Conns /\ rot[r].read \in Sealed
    /\ lax \in BOOLEAN

RotationInit ==
    /\ row = [c \in Conns |-> NoRow]
    /\ wanted = [c \in Conns |-> None]
    /\ env = FirstRing
    /\ safe = {}
    /\ ring = [s \in Servers |-> FirstRing]
    /\ write = [s \in Servers |-> NoWrite]
    /\ rot = [r \in Rotators |-> NoRun]
    /\ lax = FALSE

-----------------------------------------------------------------------------
\* Mutant: the row is read without FOR UPDATE.
NotLocked(c) == FALSE

\* The row lock of an open rotateOne transaction.
RowLocked(c) == \E r \in Rotators : rot[r].pc = "locked" /\ rot[r].conn = c

(* Service.Create / Service.Update up to InTx: Seal under the process's    *)
(* own current key.  An id without a row stands for a fresh id, which one  *)
(* request alone is creating.                                              *)
SealCredential(s, c, x) ==
    /\ write[s] = NoWrite
    /\ row[c] = NoRow => \A t \in Servers : write[t].conn # c
    /\ write' = [write EXCEPT ![s] = [conn |-> c, plain |-> x, version |-> ring[s].current,
                                      new |-> row[c] = NoRow]]
    /\ UNCHANGED <<row, wanted, env, safe, ring, rot, lax>>

\* The INSERT or UPDATE of the four secret columns commits; a row deleted meanwhile is not found.
CommitCredential(s) ==
    LET w == write[s]
        hit == w.new \/ row[w.conn] # NoRow
    IN  /\ w # NoWrite
        /\ ~RowLocked(w.conn)
        /\ row' = IF hit THEN [row EXCEPT ![w.conn] = [plain |-> w.plain, version |-> w.version]]
                         ELSE row
        /\ wanted' = IF hit THEN [wanted EXCEPT ![w.conn] = w.plain] ELSE wanted
        /\ write' = [write EXCEPT ![s] = NoWrite]
        /\ UNCHANGED <<env, safe, ring, rot, lax>>

DropConnection(c) ==
    /\ row[c] # NoRow
    /\ ~RowLocked(c)
    /\ row' = [row EXCEPT ![c] = NoRow]
    /\ wanted' = [wanted EXCEPT ![c] = None]
    /\ UNCHANGED <<env, safe, ring, write, rot, lax>>

\* A restart loads the keyring of the moment; the request under way is lost.
Restart(s) ==
    /\ ring' = [ring EXCEPT ![s] = env]
    /\ write' = [write EXCEPT ![s] = NoWrite]
    /\ UNCHANGED <<row, wanted, env, safe, rot, lax>>

-----------------------------------------------------------------------------
AllRestarted == \A s \in Servers : ring[s] = env

\* Step 1 of the procedure: SECRETS_KEYRING=1:..,2:.. and SECRETS_KEY_CURRENT=2.
AddKey ==
    /\ env = FirstRing
    /\ env' = BothKeys
    /\ UNCHANGED <<row, wanted, safe, ring, write, rot, lax>>

Census(v) == {c \in Conns : row[c] # NoRow /\ row[c].version = v}

\* Mutant: the versions the keyring can do without, whatever the rows need.
NotCurrent(k) == k.held \ {k.current}

\* SafeToRemove: held, not current, and no row needs it.
SafeToRemove(k) == {v \in k.held : v # k.current /\ Census(v) = {}}

\* Step 3: `secrets status`.
Status ==
    /\ safe' = SafeToRemove(env)
    /\ lax' = (lax \/ ~AllRestarted)
    /\ UNCHANGED <<row, wanted, env, ring, write, rot>>

\* Step 4: the old key leaves the keyring once status has called it safe to remove.
RemoveKey ==
    /\ env = BothKeys
    /\ 1 \in safe
    /\ env' = LastRing
    /\ UNCHANGED <<row, wanted, safe, ring, write, rot, lax>>

\* Step 2: Rotate lists the rows that are not on its current version.
RotateBegin(r) ==
    /\ rot[r].pc = "idle"
    /\ lax' = (lax \/ ~AllRestarted)
    /\ rot' = [rot EXCEPT ![r] = [NoRun EXCEPT
                  !.pc = "next", !.ring = env,
                  !.todo = {c \in Conns : row[c] # NoRow /\ row[c].version # env.current}]]
    /\ UNCHANGED <<row, wanted, env, safe, ring, write>>

\* rotateOne: lock and read one row; gone or current is nothing to do, a missing key fails it.
RotateRead(r, c) ==
    LET k == rot[r].ring
        rest == rot[r].todo \ {c}
    IN  /\ rot[r].pc = "next"
        /\ c \in rot[r].todo
        /\ ~RowLocked(c)
        /\ \/ /\ row[c] = NoRow \/ row[c].version = k.current
              /\ rot' = [rot EXCEPT ![r].todo = rest]
           \/ /\ row[c] # NoRow /\ row[c].version # k.current /\ row[c].version \notin k.held
              /\ rot' = [rot EXCEPT ![r].todo = rest, ![r].failed = TRUE]
           \/ /\ row[c] # NoRow /\ row[c].version # k.current /\ row[c].version \in k.held
              /\ rot' = [rot EXCEPT ![r].pc = "locked", ![r].todo = rest,
                                    ![r].conn = c, ![r].read = row[c]]
        /\ UNCHANGED <<row, wanted, env, safe, ring, write, lax>>

\* The guarded write of the re-sealed columns; a write that matches no row is a failure.
RotateWrite(r) ==
    LET c == rot[r].conn
        hit == row[c].version = rot[r].read.version
    IN  /\ rot[r].pc = "locked"
        /\ row' = IF hit THEN [row EXCEPT ![c] = [plain |-> rot[r].read.plain,
                                                  version |-> rot[r].ring.current]]
                         ELSE row
        /\ rot' = [rot EXCEPT ![r].pc = "next", ![r].conn = None, ![r].read = NoRow,
                              ![r].failed = @ \/ ~hit]
        /\ UNCHANGED <<wanted, env, safe, ring, write, lax>>

\* Mutant: the failed row is left out of the report.
RollbackUnreported(r) ==
    /\ rot[r].pc = "locked"
    /\ rot' = [rot EXCEPT ![r].pc = "next", ![r].conn = None, ![r].read = NoRow]
    /\ UNCHANGED <<row, wanted, env, safe, ring, write, lax>>

\* Seal or COMMIT fails: ROLLBACK, and the row is reported as failed.
RotateRollback(r) ==
    /\ rot[r].pc = "locked"
    /\ rot' = [rot EXCEPT ![r].pc = "next", ![r].conn = None, ![r].read = NoRow,
                          ![r].failed = TRUE]
    /\ UNCHANGED <<row, wanted, env, safe, ring, write, lax>>

\* Every listed row was visited: RotationReport.Complete says whether all rotated.
RotateEnd(r) ==
    /\ rot[r].pc = "next"
    /\ rot[r].todo = {}
    /\ rot' = [rot EXCEPT ![r] = NoRun]
    /\ UNCHANGED <<row, wanted, env, safe, ring, write, lax>>

\* The context is cancelled between rows, or the process dies (its lock goes with it).
RotateInterrupted(r) ==
    /\ rot[r].pc # "idle"
    /\ rot' = [rot EXCEPT ![r] = NoRun]
    /\ UNCHANGED <<row, wanted, env, safe, ring, write, lax>>

-----------------------------------------------------------------------------
RotationNext ==
    \/ \E s \in Servers : \/ \E c \in Conns, x \in Secrets : SealCredential(s, c, x)
                          \/ CommitCredential(s) \/ Restart(s)
    \/ \E c \in Conns : DropConnection(c)
    \/ AddKey \/ Status \/ RemoveKey
    \/ \E r \in Rotators : \/ RotateBegin(r) \/ (\E c \in Conns : RotateRead(r, c))
                           \/ RotateWrite(r) \/ RotateRollback(r) \/ RotateEnd(r)
                           \/ RotateInterrupted(r)

RotationSpec == RotationInit /\ [][RotationNext]_rotationVars

-----------------------------------------------------------------------------
(* Rotation never changes a credential: a row opens to what the last       *)
(* committed create or edit stored, whatever rotations, edits and          *)
(* interruptions overlap (rotate.go rotateOne: the interleaving "that      *)
(* would actually destroy data", resurrecting "a credential the operator   *)
(* just replaced").                                                        *)
CredentialSurvives == \A c \in Conns : row[c].plain = wanted[c]

(* When every API process is restarted before each command, as the         *)
(* procedure asks, no key is removed that a row, present or future, needs: *)
(* every stored credential opens with the configured keyring               *)
(* (secretscli.go: "No persisted secret needs these").                     *)
NoRowStranded == ~lax => \A c \in Conns : row[c] # NoRow => row[c].version \in env.held

AllOnCurrent(k) == \A c \in Conns : row[c] # NoRow => row[c].version = k.current

EndsComplete(r) == RotateEnd(r) /\ ~rot[r].failed /\ rot[r].ring = env

(* Under the same discipline, a run that ends with no failure leaves every *)
(* row on the current key, rows that were created and edited behind its    *)
(* listing included (rotate.go Rotate).                                    *)
CompleteOnceRestarted ==
    [][\A r \in Rotators : EndsComplete(r) /\ ~lax => AllOnCurrent(env)]_rotationVars
=============================================================================
