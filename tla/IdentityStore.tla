--------------------------- MODULE IdentityStore ---------------------------
(***************************************************************************)
(* The encrypted identity store (internal/store) and the store half of the *)
(* import transaction that drives it (internal/server/management_import.go).*)
(*                                                                         *)
(* One process owns the store.  Its mutating handlers are serialised by    *)
(* Server.mutationMu, and reconciliation runs before the HTTP server, so   *)
(* at most one mutation `op' is in flight; the data plane's Lookup runs at *)
(* any time.  The adversary is the environment: a write, a rename or a     *)
(* directory sync may fail, the process may die between any two steps, and *)
(* a power loss may undo every directory change that no successful         *)
(* directory sync has covered.                                             *)
(*                                                                         *)
(* Abstractions.  Digests are injective: an identity ID is the pair it is  *)
(* the digest of, and clientKeyHash holds the key it is the digest of.     *)
(* There is one file per ID, so `disk' is indexed by ID.  accountID stands *)
(* for all display metadata, being the only part validIdentity reads.      *)
(***************************************************************************)
EXTENDS Naturals

CONSTANTS
    Tokens,      \* upstream credentials
    Accounts,    \* ChatGPT workspaces
    Keys,        \* the client keys crypto/rand will return; bounds the imports
    NoAccount,   \* the empty account ID
    NoKey,       \* the empty client key of a version-1 record
    NoToken,     \* an absent token or ciphertext field
    None         \* no record, no file

LegacyHash == 1      \* identityVersionLegacyHash
Plaintext  == 2      \* identityVersionPlaintext
Encrypted  == 3      \* identityVersionEncrypted

Ids == Tokens \X (Accounts \cup {NoAccount})

IdentityID(token) == <<token, NoAccount>>
IdentityIDForAccount(token, accountID) == <<token, accountID>>

Identity ==
    [version : LegacyHash..Encrypted, id : Ids, token : Tokens,
     clientKey : Keys \cup {NoKey}, clientKeyHash : Keys,
     accountID : Accounts \cup {NoAccount}, accountScoped : BOOLEAN]

\* What a file holds: the token in the clear, or sealed with the ID as
\* additional authenticated data.
Persisted ==
    [version : LegacyHash..Encrypted, id : Ids, token : Tokens \cup {NoToken},
     sealed : (Ids \X Tokens) \cup {NoToken},
     clientKey : Keys \cup {NoKey}, clientKeyHash : Keys,
     accountID : Accounts \cup {NoAccount}, accountScoped : BOOLEAN]

ASSUME NoAccountAssumption == NoAccount \notin Accounts
ASSUME NoKeyAssumption     == NoKey \notin Keys
ASSUME NoTokenAssumption   == NoToken \notin Tokens /\ NoToken \notin (Ids \X Tokens)
ASSUME NoneAssumption      == None \notin Identity /\ None \notin Persisted

VARIABLES
    disk,       \* disk[i]: the file of identity i, or None
    shadow,     \* shadow[i]: older contents a power loss may bring back
    cipher,     \* whether the running process has a data encryption key
    phase,      \* "down", "opening" or "up"
    todo,       \* while opening: the files still to be loaded
    byID,       \* Store.byID
    byKeyHash,  \* Store.byKeyHash
    used,       \* the client keys drawn so far
    op,         \* the mutation in flight
    outcome     \* history: what the callers must be prepared to find for i

vars == <<disk, shadow, cipher, phase, todo, byID, byKeyHash, used, op, outcome>>

-----------------------------------------------------------------------------
(* Records                                                                 *)

validIdentity(r) ==
    /\ IF r.accountScoped
       THEN /\ r.accountID # NoAccount
            /\ r.id = IdentityIDForAccount(r.token, r.accountID)
       ELSE r.id = IdentityID(r.token)
    /\ IF r.clientKey = NoKey
       THEN r.version \in {LegacyHash, Encrypted}
       ELSE r.clientKeyHash = r.clientKey

\* Mutant: the record is written without checking it against its ID.
EncodableUnchecked(r) == cipher \/ r.version # Encrypted
Encodable(r) == validIdentity(r) /\ (cipher \/ r.version # Encrypted)

encodeIdentity(r) ==
    [version |-> IF cipher THEN Encrypted ELSE r.version,
     id |-> r.id,
     token |-> IF cipher THEN NoToken ELSE r.token,
     sealed |-> IF cipher THEN <<r.id, r.token>> ELSE NoToken,
     clientKey |-> r.clientKey, clientKeyHash |-> r.clientKeyHash,
     accountID |-> r.accountID, accountScoped |-> r.accountScoped]

\* decodeIdentity succeeds on p in a process with (c) or without a key.
Decodable(p, c) ==
    IF p.version = Encrypted
    THEN c /\ p.token = NoToken /\ p.sealed # NoToken /\ p.sealed[1] = p.id
    ELSE p.token # NoToken

decodeIdentity(p) ==
    [version |-> p.version, id |-> p.id,
     token |-> IF p.version = Encrypted THEN p.sealed[2] ELSE p.token,
     clientKey |-> p.clientKey, clientKeyHash |-> p.clientKeyHash,
     accountID |-> p.accountID, accountScoped |-> p.accountScoped]

\* An identity regardless of the format it is stored in.
Content(r) == IF r = None THEN None ELSE [r EXCEPT !.version = Encrypted]
FileContent(p) == IF p = None THEN None ELSE Content(decodeIdentity(p))

NoIdentities == [i \in Ids |-> None]
NoKeys == [k \in Keys |-> None]

-----------------------------------------------------------------------------
(* The mutation in flight: what it is, how far it got, the record it is    *)
(* about and, for an import, the identity the caller would roll back to    *)
(* (for a rollback, the imported identity that is being undone).           *)

Idle == [kind |-> "none", stage |-> "idle", rec |-> None, previous |-> None]

Mutation(kind, stage, rec, previous) ==
    [kind |-> kind, stage |-> stage, rec |-> rec, previous |-> previous]

Target == op.rec.id

\* The caller may find the old content or the new one until it is told which.
MayBecome(i, r) == outcome' = [outcome EXCEPT ![i] = @ \cup {Content(r)}]
Acknowledge(i, r) == outcome' = [outcome EXCEPT ![i] = {Content(r)}]

Init ==
    \* Files left by an older release: version 1 (no client key) or 2.
    /\ \E old \in SUBSET Tokens, v \in {LegacyHash, Plaintext}, key \in [Tokens -> Keys] :
         /\ \A s, t \in old : key[s] = key[t] => s = t
         /\ disk = [i \in Ids |->
              IF i[1] \in old /\ i[2] = NoAccount
              THEN [version |-> v, id |-> i, token |-> i[1], sealed |-> NoToken,
                    clientKey |-> IF v = LegacyHash THEN NoKey ELSE key[i[1]],
                    clientKeyHash |-> key[i[1]],
                    accountID |-> NoAccount, accountScoped |-> FALSE]
              ELSE None]
         /\ used = {key[t] : t \in old}
    /\ shadow = [i \in Ids |-> {}]
    /\ outcome = [i \in Ids |-> {FileContent(disk[i])}]
    /\ cipher = FALSE
    /\ phase = "down"
    /\ todo = {}
    /\ byID = NoIdentities
    /\ byKeyHash = NoKeys
    /\ op = Idle

-----------------------------------------------------------------------------
(* Open                                                                    *)

StartOpen ==
    /\ phase = "down"
    /\ phase' = "opening"
    /\ cipher' \in BOOLEAN
    /\ todo' = {i \in Ids : disk[i] # None}
    /\ UNCHANGED <<disk, shadow, byID, byKeyHash, used, op, outcome>>

\* Open returns an error, or the process dies: memory is gone.
Stop ==
    /\ phase' = "down"
    /\ todo' = {}
    /\ byID' = NoIdentities
    /\ byKeyHash' = NoKeys
    /\ op' = Idle

Acceptable(p) ==
    /\ Decodable(p, cipher)
    /\ validIdentity(decodeIdentity(p))
    /\ byID[p.id] = None
    /\ byKeyHash[p.clientKeyHash] = None

\* Mutant: only the oldest format is migrated.
MustMigrateLegacyOnly(p) == cipher /\ p.version = LegacyHash

MustMigrate(p) == cipher /\ p.version # Encrypted

Register(i, r) ==
    /\ byID' = [byID EXCEPT ![r.id] = r]
    /\ byKeyHash' = [byKeyHash EXCEPT ![r.clientKeyHash] = r]
    /\ todo' = todo \ {i}

\* The rename is visible, but a power loss may still undo it.
RenameInto(i, p) ==
    /\ disk' = [disk EXCEPT ![i] = p]
    /\ shadow' = [shadow EXCEPT ![i] = @ \cup {disk[i]}]

LoadRejected(i) ==
    /\ phase = "opening" /\ i \in todo
    /\ ~Acceptable(disk[i])
    /\ Stop
    /\ UNCHANGED <<disk, shadow, cipher, used, outcome>>

LoadFile(i) ==
    /\ phase = "opening" /\ i \in todo
    /\ Acceptable(disk[i])
    /\ ~MustMigrate(disk[i])
    /\ Register(i, decodeIdentity(disk[i]))
    /\ UNCHANGED <<disk, shadow, cipher, phase, used, op, outcome>>

Migrated(p) == [decodeIdentity(p) EXCEPT !.version = Encrypted]

MigrateFile(i) ==
    /\ phase = "opening" /\ i \in todo
    /\ Acceptable(disk[i])
    /\ MustMigrate(disk[i])
    /\ disk' = [disk EXCEPT ![i] = encodeIdentity(Migrated(disk[i]))]
    /\ shadow' = [j \in Ids |-> {}]
    /\ Register(i, Migrated(disk[i]))
    /\ UNCHANGED <<cipher, phase, used, op, outcome>>

\* The migration write fails, before or after its rename, and so does Open.
MigrateFails(i) ==
    /\ phase = "opening" /\ i \in todo
    /\ Acceptable(disk[i])
    /\ MustMigrate(disk[i])
    /\ \/ UNCHANGED <<disk, shadow>>
       \/ RenameInto(i, encodeIdentity(Migrated(disk[i])))
    /\ Stop
    /\ UNCHANGED <<cipher, used, outcome>>

FinishOpen ==
    /\ phase = "opening" /\ todo = {}
    /\ phase' = "up"
    /\ UNCHANGED <<disk, shadow, cipher, todo, byID, byKeyHash, used, op, outcome>>

-----------------------------------------------------------------------------
(* Mutations.  Each starts when no other is in flight.                     *)

MayMutate == phase = "up" /\ op = Idle

LookupByTokenAndAccount(token, accountID) ==
    LET legacy == byID[IdentityID(token)] IN
    IF byID[IdentityIDForAccount(token, accountID)] # None
    THEN byID[IdentityIDForAccount(token, accountID)]
    ELSE IF accountID # NoAccount /\ legacy # None
            /\ ~legacy.accountScoped /\ legacy.accountID = accountID
         THEN legacy
         ELSE None

\* The identity an import builds.  A selected account overrides the one the
\* inspection reports.
NewIdentity(token, selected, reported, key) ==
    [version |-> IF cipher THEN Encrypted ELSE Plaintext,
     id |-> IdentityIDForAccount(token, selected), token |-> token,
     clientKey |-> key, clientKeyHash |-> key,
     accountID |-> IF selected # NoAccount THEN selected ELSE reported,
     accountScoped |-> selected # NoAccount]

\* commitInspectedTokenLocked up to the first write of ImportWithMetadata.
ImportWithMetadata(token, selected, reported) ==
    /\ MayMutate
    /\ \E key \in Keys \ used :
         LET new == NewIdentity(token, selected, reported, key) IN
         /\ used' = used \cup {key}
         /\ op' = Mutation("import", "write", new, LookupByTokenAndAccount(token, selected))
         /\ MayBecome(new.id, new)
    /\ UNCHANGED <<disk, shadow, cipher, phase, todo, byID, byKeyHash>>

\* UpdateMetadata as a refresh or a reconciliation calls it: the scope is
\* kept, a record without a client key is left alone, an empty reported account
\* changes nothing, and a record whose ID no longer matches its account is
\* refused before anything is written.
Refreshed(i, reported) ==
    [byID[i] EXCEPT !.accountID = IF reported # NoAccount THEN reported ELSE @]

UpdateMetadata(i, reported) ==
    /\ MayMutate
    /\ byID[i] # None
    /\ byID[i].clientKey # NoKey
    /\ Encodable(Refreshed(i, reported))
    /\ op' = Mutation("update", "write", Refreshed(i, reported), None)
    /\ MayBecome(i, Refreshed(i, reported))
    /\ UNCHANGED <<disk, shadow, cipher, phase, todo, byID, byKeyHash, used>>

\* Delete forgets the identity first and removes its file afterwards.
Forget(i) ==
    /\ byKeyHash' = [byKeyHash EXCEPT ![byID[i].clientKeyHash] = None]
    /\ byID' = [byID EXCEPT ![i] = None]
    /\ op' = Mutation("delete", "remove", byID[i], None)
    /\ MayBecome(i, None)

Delete(i) ==
    /\ MayMutate
    /\ byID[i] # None
    /\ Forget(i)
    /\ UNCHANGED <<disk, shadow, cipher, phase, todo, used>>

-----------------------------------------------------------------------------
(* The steps of a mutation in flight                                       *)

\* writeOwnerOnlyAtomic fails before its rename, or os.Remove fails.
WriteFails ==
    /\ op.stage \in {"write", "remove"}
    /\ op' = Idle
    /\ UNCHANGED <<disk, shadow, cipher, phase, todo, byID, byKeyHash, used, outcome>>

Rename ==
    /\ op.stage = "write"
    /\ RenameInto(Target, encodeIdentity(op.rec))
    /\ op' = [op EXCEPT !.stage = "sync"]
    /\ UNCHANGED <<cipher, phase, todo, byID, byKeyHash, used, outcome>>

Remove ==
    /\ op.stage = "remove"
    /\ RenameInto(Target, None)
    /\ op' = [op EXCEPT !.stage = "sync"]
    /\ UNCHANGED <<cipher, phase, todo, byID, byKeyHash, used, outcome>>

SyncFails ==
    /\ op.stage = "sync"
    /\ op' = Idle
    /\ UNCHANGED <<disk, shadow, cipher, phase, todo, byID, byKeyHash, used, outcome>>

\* Mutant: the directory is never synced.
SyncSkipped ==
    /\ op.stage = "sync"
    /\ IF op.kind = "delete"
       THEN op' = Idle /\ Acknowledge(Target, None)
       ELSE op' = [op EXCEPT !.stage = "publish"] /\ UNCHANGED outcome
    /\ UNCHANGED <<disk, shadow, cipher, phase, todo, byID, byKeyHash, used>>

\* The directory sync succeeds: a deletion is done, a write goes on to publish.
SyncDirectory ==
    /\ op.stage = "sync"
    /\ shadow' = [i \in Ids |-> {}]
    /\ IF op.kind = "delete"
       THEN op' = Idle /\ Acknowledge(Target, None)
       ELSE op' = [op EXCEPT !.stage = "publish"] /\ UNCHANGED outcome
    /\ UNCHANGED <<disk, cipher, phase, todo, byID, byKeyHash, used>>

\* Mutant: the replaced identity keeps its entry in byKeyHash.
PublishKeepingOldKey ==
    /\ op.stage = "publish"
    /\ byID' = [byID EXCEPT ![Target] = op.rec]
    /\ byKeyHash' = [byKeyHash EXCEPT ![op.rec.clientKeyHash] = op.rec]
    /\ op' = IF op.kind = "import" THEN [op EXCEPT !.stage = "cpa"] ELSE Idle
    /\ Acknowledge(Target, op.rec)
    /\ UNCHANGED <<disk, shadow, cipher, phase, todo, used>>

\* The two maps change together, under Store.mu.
Publish ==
    /\ op.stage = "publish"
    /\ byID' = [byID EXCEPT ![Target] = op.rec]
    /\ byKeyHash' = [k \in Keys |->
         IF k = op.rec.clientKeyHash THEN op.rec
         ELSE IF byID[Target] # None /\ k = byID[Target].clientKeyHash THEN None
         ELSE byKeyHash[k]]
    /\ op' = IF op.kind = "import" THEN [op EXCEPT !.stage = "cpa"] ELSE Idle
    /\ Acknowledge(Target, op.rec)
    /\ UNCHANGED <<disk, shadow, cipher, phase, todo, used>>

\* commitInspectedTokenLocked after the store accepted the import: CPA either
\* takes the auth file, or the store is rolled back and errors are ignored.
SyncedToCPA ==
    /\ op.stage = "cpa"
    /\ op' = Idle
    /\ UNCHANGED <<disk, shadow, cipher, phase, todo, byID, byKeyHash, used, outcome>>

Restore ==
    /\ op.stage = "cpa" /\ op.previous # None
    /\ LET old == [op.previous EXCEPT !.version = IF cipher THEN Encrypted ELSE @] IN
       /\ op' = Mutation("restore", "write", old, op.rec)
       /\ MayBecome(old.id, old)
    /\ UNCHANGED <<disk, shadow, cipher, phase, todo, byID, byKeyHash, used>>

DropImported ==
    /\ op.stage = "cpa" /\ op.previous = None
    /\ Forget(Target)
    /\ UNCHANGED <<disk, shadow, cipher, phase, todo, used>>

-----------------------------------------------------------------------------
(* The environment                                                         *)

Crash ==
    /\ phase # "down"
    /\ Stop
    /\ UNCHANGED <<disk, shadow, cipher, used, outcome>>

PowerLoss ==
    /\ \E old \in SUBSET {i \in Ids : shadow[i] # {}} :
       \E pick \in [old -> UNION {shadow[i] : i \in Ids}] :
         /\ \A i \in old : pick[i] \in shadow[i]
         /\ disk' = [i \in Ids |-> IF i \in old THEN pick[i] ELSE disk[i]]
    /\ shadow' = [i \in Ids |-> {}]
    /\ Stop
    /\ UNCHANGED <<cipher, used, outcome>>

Next ==
    \/ StartOpen \/ FinishOpen
    \/ \E i \in Ids : LoadRejected(i) \/ LoadFile(i) \/ MigrateFile(i) \/ MigrateFails(i)
    \/ \E t \in Tokens, selected, reported \in Accounts \cup {NoAccount} :
         ImportWithMetadata(t, selected, reported)
    \/ \E i \in Ids, reported \in Accounts \cup {NoAccount} : UpdateMetadata(i, reported)
    \/ \E i \in Ids : Delete(i)
    \/ WriteFails \/ Rename \/ Remove \/ SyncFails \/ SyncDirectory \/ Publish
    \/ SyncedToCPA \/ Restore \/ DropImported
    \/ Crash \/ PowerLoss

Spec == Init /\ [][Next]_vars

-----------------------------------------------------------------------------
(* Properties                                                              *)

\* Every variable stays within its type.  During a mutation op.rec is the
\* identity it is about.
TypeOK ==
    /\ disk \in [Ids -> Persisted \cup {None}]
    /\ shadow \in [Ids -> SUBSET (Persisted \cup {None})]
    /\ cipher \in BOOLEAN
    /\ phase \in {"down", "opening", "up"}
    /\ todo \in SUBSET Ids
    /\ byID \in [Ids -> Identity \cup {None}]
    /\ byKeyHash \in [Keys -> Identity \cup {None}]
    /\ used \in SUBSET Keys
    /\ outcome \in [Ids -> SUBSET (Identity \cup {None})]
    /\ op \in [kind : {"none", "import", "update", "restore", "delete"},
              stage : {"idle", "write", "remove", "sync", "publish", "cpa"},
              rec : Identity \cup {None}, previous : Identity \cup {None}]
    /\ op.rec = None <=> op = Idle

\* The two indexes describe the same identities: a client key resolves (Lookup)
\* exactly when it is the current key of a listed identity.  A key that was
\* rotated by a re-import or revoked by a delete resolves to nothing, although
\* import, restore and delete touch the maps in separate statements.
IndexCoherent ==
    /\ \A i \in Ids : byID[i] # None =>
         byID[i].id = i /\ byKeyHash[byID[i].clientKeyHash] = byID[i]
    /\ \A k \in Keys : byKeyHash[k] # None =>
         byKeyHash[k].clientKeyHash = k /\ byID[byKeyHash[k].id] = byKeyHash[k]

\* Everything a restart can find.
Possible(i) == {disk[i]} \cup shadow[i]

\* A mutation that returned without error survives a crash and a power loss,
\* and one that returned an error, or never returned, leaves either its old or
\* its new content, never a third one.  The running process serves one of the
\* same contents, so after a mutation that succeeded memory and disk agree.
AckedIsDurable ==
    \A i \in Ids :
      /\ \A p \in Possible(i) : FileContent(p) \in outcome[i]
      /\ phase = "up" => Content(byID[i]) \in outcome[i]

\* Open with the encryption key can load whatever a crash or a power loss
\* leaves behind: every file decodes, is valid, has its own name, and no two
\* files carry the same client-key hash.  (One bad file fails the whole Open.)
Reopenable ==
    \A i, j \in Ids : \A p \in Possible(i), q \in Possible(j) :
      p # None =>
        /\ Decodable(p, TRUE)
        /\ validIdentity(decodeIdentity(p))
        /\ p.id = i
        /\ (q # None /\ p.clientKeyHash = q.clientKeyHash) => i = j

\* Once Open has returned with an encryption key, no file holds a token in the
\* clear, including files an older release or a plaintext run wrote.
EncryptedAtRest ==
    (phase = "up" /\ cipher) => \A i \in Ids : disk[i] # None => disk[i].token = NoToken

\* When the rollback of a failed import is published, the client key that the
\* import drew no longer resolves: the failed add left nothing behind.
FailedImportRevokesItsKey ==
    [][(op.kind = "restore" /\ Publish) => byKeyHash'[op.previous.clientKeyHash] = None]_vars

-----------------------------------------------------------------------------
(* Refinement                                                              *)

Contents == {Content(r) : r \in Identity}

Kept == [i \in Ids |-> FileContent(disk[i])]
Served == [i \in Ids |-> IF phase = "up" THEN Content(byID[i]) ELSE None]

Vault == INSTANCE CredentialVault WITH
    kept <- Kept, may <- outcome, served <- Served, up <- phase = "up"

\* The directory of files, its renames and syncs, the migration and the two maps
\* implement CredentialVault: no step of a mutation, a start, a crash or a power
\* loss is visible as anything but a change that was asked for, and a change that
\* was acknowledged stays.
ImplementsVault == Vault!Spec
=============================================================================
