--------------------------- MODULE ManagementPlane ---------------------------
(***************************************************************************)
(* The management handlers of the server and the reconciliation at start:  *)
(* each takes a stored identity and its CPA auth files through several     *)
(* steps and compensates for the steps done when a later one fails.        *)
(*                                                                         *)
(* The store and cpa.Manager appear by what one call of theirs may do,     *)
(* which IdentityStore and CPAManager model in detail: a store write may   *)
(* fail before or after its rename; a failed CPA transaction has put       *)
(* everything back or, its rollback having failed, has not.                *)
(* Server.mutationMu lets one handler run at a time.  The process may die  *)
(* between any two steps, and the CPA user edits files at any time.        *)
(*                                                                         *)
(* Abstractions.  Identities are numbered in the order of a batch.  The    *)
(* auth file of an identity for a metadata value stands for the canonical  *)
(* file and the historical ones that match it.  CPA management is          *)
(* configured, and every record has its client key.  Authorisation,        *)
(* parsing and handlers without effect (preview, list) are left out.       *)
(***************************************************************************)
EXTENDS Naturals, FiniteSets

CONSTANTS
    Ids,      \* identities
    Metas,    \* metadata of credentials
    Reported, \* what inspecting an identity can report: an agent identity token
              \* states its metadata, a personal access token's may change
    Legacy,   \* of an identity imported for a workspace: the one that the same
              \* token has when it is imported without
    Workspace,\* and the metadata that names that workspace
    Keys,     \* client keys; bound: one for each import
    None

ASSUME IdsAssumption == Ids \subseteq Nat /\ IsFiniteSet(Ids)
ASSUME ReportedAssumption == Reported \in [Ids -> (SUBSET Metas) \ {{}}]
ASSUME LegacyAssumption ==
    Legacy \in [Ids -> Ids \cup {None}] /\ Workspace \in [Ids -> SUBSET Metas]
ASSUME NoneAssumption == None \notin Ids /\ None \notin Metas /\ None \notin Keys

Record == [key : Keys, meta : Metas]
File == [key : Keys, disabled : BOOLEAN]

ASSUME RecordAssumption == None \notin Record /\ None \notin File

VARIABLES
    mem,       \* Store.byID
    disk,      \* the store's files
    files,     \* CPA auth files: by identity and by the metadata of their name
    cache,     \* Manager.personalAccessTokens: never expires
    unused,    \* client keys not drawn yet
    starting,  \* identities reconcileStoredCredentials has still to visit
    h,         \* the handler under mutationMu, or how the last one ended
    status,    \* what a batch reports of each identity
    before,    \* history: store and CPA when the handler started
    disturbed, \* history: the user has changed a file since
    botched    \* history: a compensation of it failed, or one was impossible

vars == <<mem, disk, files, cache, unused, starting, h, status, before, disturbed, botched>>
environment == <<cache, unused, starting>>
history == <<before, disturbed>>

Statuses == {"none", "ready", "duplicate", "invalid", "imported", "failed", "aborted",
             "rolled_back", "rollback_failed"}

Ended == {"ok", "error"}

\* A handler: the identity it is at, the record it would go back to and whose that
\* is, the metadata inspected; for a batch the identities to import and those imported; for a
\* delete the record in its backup and the auth file it removed.
Handler ==
    [kind : {"none", "import", "batch", "delete", "disable", "refresh", "reconcile"},
     stage : Ended \cup {"store", "sync", "undo", "next", "unsync", "unstore",
                         "backup", "remove", "erase", "putback", "set", "route", "meta", "upsert"},
     id : Ids \cup {None}, owner : Ids \cup {None}, previous : Record \cup {None},
     meta : Metas \cup {None}, todo : SUBSET Ids, imported : SUBSET Ids, atomic : BOOLEAN,
     backup : Record \cup {None}, removed : File \cup {None}]

Fresh(kind, stage, i, previous) ==
    [kind |-> kind, stage |-> stage, id |-> i, owner |-> i, previous |-> previous,
     meta |-> None, todo |-> {}, imported |-> {}, atomic |-> FALSE, backup |-> None,
     removed |-> None]

NoRecords == [i \in Ids |-> None]
NoFiles == [i \in Ids |-> [m \in Metas |-> None]]
NoStatus == [i \in Ids |-> "none"]
Nothing == [mem |-> NoRecords, disk |-> NoRecords, files |-> NoFiles]

Init ==
    /\ mem = NoRecords /\ disk = NoRecords /\ files = NoFiles
    /\ cache = NoRecords
    /\ unused = Keys
    /\ starting = {}
    /\ h = Fresh("none", "ok", None, None)
    /\ status = NoStatus
    /\ before = Nothing /\ disturbed = FALSE /\ botched = FALSE

-----------------------------------------------------------------------------
(* What one call of the store may do                                       *)

\* The record is written and published.
Stored(i, r) == disk' = [disk EXCEPT ![i] = r] /\ mem' = [mem EXCEPT ![i] = r]

\* An error: before the rename, or after it, when the new file stays although
\* memory keeps the old record.
StoreFailed(i, r) ==
    /\ UNCHANGED mem
    /\ \/ UNCHANGED <<disk, botched>>
       \/ disk' = [disk EXCEPT ![i] = r] /\ botched' = TRUE

\* Mutant: a record of the token counts whatever workspace it is for.
LookupInAnyWorkspace(i) ==
    IF mem[i] # None THEN i
    ELSE IF Legacy[i] # None /\ mem[Legacy[i]] # None THEN Legacy[i] ELSE None

\* Whose record an import finds to be there already: its own, or the one the token
\* has without a workspace, if that is for the same one.
LookupByTokenAndAccount(i) ==
    IF mem[i] # None THEN i
    ELSE IF Legacy[i] # None /\ mem[Legacy[i]] # None /\ mem[Legacy[i]].meta \in Workspace[i]
    THEN Legacy[i] ELSE None

\* Store.Delete forgets the record first.
Erased(i) == disk' = [disk EXCEPT ![i] = None] /\ mem' = [mem EXCEPT ![i] = None]
EraseFailed(i) ==
    /\ mem' = [mem EXCEPT ![i] = None]
    /\ (UNCHANGED disk \/ disk' = [disk EXCEPT ![i] = None])

-----------------------------------------------------------------------------
(* What one transaction of cpa.Manager may do                              *)

SetFile(i, m, f) == files' = [files EXCEPT ![i][m] = f]

\* Mutant: the file keeps its key.
UpsertedWithOldKey(i, m, k) ==
    [key |-> IF files[i][m] = None THEN k ELSE files[i][m].key,
     disabled |-> files[i][m] # None /\ files[i][m].disabled]

\* The file UpsertIdentity installs.
Upserted(i, m, k) == [key |-> k, disabled |-> files[i][m] # None /\ files[i][m].disabled]

UpsertIdentity(i, m, k) == SetFile(i, m, Upserted(i, m, k)) /\ UNCHANGED botched

\* An error with everything put back, or with the rollback failed too.
UpsertFailed(i, m, k) ==
    \/ UNCHANGED <<files, botched>>
    \/ \E f \in {Upserted(i, m, k), files[i][m], None} : SetFile(i, m, f) /\ botched' = TRUE

RemoveFailed(i, m) ==
    \/ UNCHANGED <<files, botched>>
    \/ SetFile(i, m, None) /\ botched' = TRUE

\* The identity's auth files without those for the metadata in gone.
Without(i, gone) ==
    files' = [files EXCEPT ![i] = [m \in Metas |-> IF m \in gone THEN None ELSE files[i][m]]]

\* RemoveIdentity finds what CPA lists: a disabled file may be left out.
RemoveIdentity(i) ==
    \E hidden \in SUBSET {m \in Metas : files[i][m] # None /\ files[i][m].disabled} :
      Without(i, Metas \ hidden)

-----------------------------------------------------------------------------
(* Handlers                                                                *)

Idle == h.stage \in Ended

Begin(handler) ==
    /\ Idle
    /\ h' = handler
    /\ before' = [mem |-> mem, disk |-> disk, files |-> files]
    /\ disturbed' = FALSE /\ botched' = FALSE

Goto(stage) == h' = [h EXCEPT !.stage = stage]

\* InspectForAccount: the cache, or the credential service.
Inspected(i, m) ==
    /\ cache[i] \in {None, m}
    /\ cache' = [cache EXCEPT ![i] = m]

\* How commitInspectedTokenLocked returns to handleImport and to a batch.
Committed(i) ==
    IF h.kind = "import" THEN Goto("ok") /\ UNCHANGED status
    ELSE /\ h' = [h EXCEPT !.stage = "next", !.imported = h.imported \cup {i}]
         /\ status' = [status EXCEPT ![i] = "imported"]

Failed(i) ==
    IF h.kind = "import" THEN Goto("error") /\ UNCHANGED status
    ELSE IF h.atomic
    THEN /\ h' = [h EXCEPT !.stage = "unsync", !.todo = {}]
         /\ status' = [j \in Ids |-> IF j = i THEN "failed"
                                     ELSE IF j \in h.todo THEN "aborted" ELSE status[j]]
    ELSE Goto("next") /\ status' = [status EXCEPT ![i] = "failed"]

\* handleImport: a credential that does not pass inspection changes nothing.
HandleImport(i) ==
    LET owner == LookupByTokenAndAccount(i)
        previous == IF owner = None THEN None ELSE mem[owner]
    IN
    /\ starting = {} /\ unused # {}
    /\ \E m \in Reported[i] :
         /\ Inspected(i, m)
         /\ Begin([Fresh("import", "store", i, previous) EXCEPT !.owner = owner, !.meta = m])
    /\ UNCHANGED <<mem, disk, files, unused, starting, status>>

\* handleBatchImport as far as validation: duplicates are set aside, the others
\* inspected, and an atomic batch goes no further unless all of them are ready.
HandleBatch(batch, ready, atomic) ==
    LET pending == {i \in batch : LookupByTokenAndAccount(i) = None}
        blocked == atomic /\ ready # pending
    IN
    /\ starting = {} /\ batch # {} /\ ready \subseteq pending
    /\ Cardinality(unused) >= Cardinality(ready)
    /\ cache' \in {c \in [Ids -> Metas \cup {None}] : \A i \in Ids :
                     c[i] \in IF i \in ready /\ cache[i] = None THEN Reported[i] ELSE {cache[i]}}
    /\ Begin([Fresh("batch", IF blocked THEN "error" ELSE "next", None, None) EXCEPT
                !.todo = IF blocked THEN {} ELSE ready, !.atomic = atomic])
    /\ status' = [i \in Ids |-> IF i \in ready THEN (IF blocked THEN "aborted" ELSE "ready")
                                ELSE IF i \in pending THEN "invalid"
                                ELSE IF i \in batch THEN "duplicate" ELSE "none"]
    /\ UNCHANGED <<mem, disk, files, unused, starting>>

\* The next item of a batch, in order; an item before it may have stored its token.
NextItem ==
    /\ h.stage = "next"
    /\ \/ h.todo = {} /\ Goto("ok") /\ UNCHANGED status
       \/ \E i \in h.todo :
            /\ \A j \in h.todo : i <= j
            /\ \/ /\ LookupByTokenAndAccount(i) = None
                  /\ h' = [h EXCEPT !.stage = "store", !.id = i, !.meta = cache[i], !.todo = h.todo \ {i}]
                  /\ UNCHANGED status
               \/ /\ LookupByTokenAndAccount(i) # None
                  /\ h' = [h EXCEPT !.todo = h.todo \ {i}]
                  /\ status' = [status EXCEPT ![i] = "duplicate"]
    /\ UNCHANGED <<mem, disk, files, environment, history, botched>>

\* ImportWithMetadata, with a new client key.
ImportWithMetadata ==
    /\ h.stage = "store"
    /\ \E k \in unused :
         LET r == [key |-> k, meta |-> h.meta] IN
         /\ unused' = unused \ {k}
         /\ \/ Stored(h.id, r) /\ Goto("sync") /\ UNCHANGED <<status, botched>>
            \/ StoreFailed(h.id, r) /\ Failed(h.id)
    /\ UNCHANGED <<files, cache, starting, history>>

Sync ==
    LET i == h.id IN
    /\ h.stage = "sync"
    /\ \/ UpsertIdentity(i, h.meta, mem[i].key) /\ Committed(i)
       \/ UpsertFailed(i, h.meta, mem[i].key) /\ Goto("undo") /\ UNCHANGED status
    /\ UNCHANGED <<mem, disk, environment, history>>

\* Mutant: the identity is deleted also when it replaced an earlier import.
UndoImportDeleting ==
    /\ h.stage = "undo"
    /\ Erased(h.id) /\ UNCHANGED botched
    /\ Failed(h.id)
    /\ UNCHANGED <<files, environment, history>>

\* Restore what was there, under the identity it was found at, or Delete; the
\* error of either is ignored.
UndoImport ==
    /\ h.stage = "undo"
    /\ IF h.previous # None
       THEN \/ Stored(h.owner, h.previous) /\ UNCHANGED botched
            \/ UNCHANGED mem /\ botched' = TRUE
               /\ (UNCHANGED disk \/ disk' = [disk EXCEPT ![h.owner] = h.previous])
       ELSE \/ Erased(h.id) /\ UNCHANGED botched
            \/ EraseFailed(h.id) /\ botched' = TRUE
    /\ Failed(h.id)
    /\ UNCHANGED <<files, environment, history>>

\* rollbackBatchImports, in reverse order: first CPA ...
RollbackSync ==
    /\ h.stage = "unsync"
    /\ \/ h.imported = {} /\ Goto("error") /\ UNCHANGED <<files, status, botched>>
       \/ \E i \in h.imported :
            /\ \A j \in h.imported : i >= j
            /\ \/ /\ RemoveIdentity(i)
                  /\ h' = [h EXCEPT !.stage = "unstore", !.id = i]
                  /\ UNCHANGED <<status, botched>>
               \/ /\ \E gone \in SUBSET Metas : Without(i, gone)
                  /\ h' = [h EXCEPT !.imported = h.imported \ {i}]
                  /\ status' = [status EXCEPT ![i] = "rollback_failed"]
                  /\ botched' = TRUE
    /\ UNCHANGED <<mem, disk, environment, history>>

\* Mutant: an item counts as rolled back whatever Store.Delete returns.
RollbackStoreUnchecked ==
    LET i == h.id IN
    /\ h.stage = "unstore"
    /\ Erased(i) \/ EraseFailed(i)
    /\ status' = [status EXCEPT ![i] = "rolled_back"]
    /\ h' = [h EXCEPT !.stage = "unsync", !.imported = h.imported \ {i}]
    /\ UNCHANGED <<files, environment, history, botched>>

\* ... then the store.
RollbackStore ==
    LET i == h.id IN
    /\ h.stage = "unstore"
    /\ \/ Erased(i) /\ status' = [status EXCEPT ![i] = "rolled_back"] /\ UNCHANGED botched
       \/ EraseFailed(i) /\ status' = [status EXCEPT ![i] = "rollback_failed"] /\ botched' = TRUE
    /\ h' = [h EXCEPT !.stage = "unsync", !.imported = h.imported \ {i}]
    /\ UNCHANGED <<files, environment, history>>

-----------------------------------------------------------------------------
(* handleIdentity                                                          *)

HandleIdentity(i, kind, stage) ==
    /\ starting = {} /\ mem[i] # None
    /\ Begin(Fresh(kind, stage, i, mem[i]))
    /\ UNCHANGED <<mem, disk, files, environment, status>>

\* createIdentityDeleteBackup: the store's file and the matching auth files,
\* written and read back, or an error.
Backup ==
    /\ h.stage = "backup"
    /\ \/ Goto("error")
       \/ disk[h.id] # None /\ h' = [h EXCEPT !.stage = "remove", !.backup = disk[h.id]]
    /\ UNCHANGED <<mem, disk, files, environment, status, history, botched>>

\* RemoveCredentialWithSnapshot.
RemoveCPA ==
    LET i == h.id
        m == h.previous.meta
    IN
    /\ h.stage = "remove"
    /\ \/ /\ SetFile(i, m, None)
          /\ h' = [h EXCEPT !.stage = "erase", !.removed = files[i][m]]
          /\ UNCHANGED botched
       \/ RemoveFailed(i, m) /\ Goto("error")
    /\ UNCHANGED <<mem, disk, environment, status, history>>

\* Mutant: the handler returns without putting the auth files back.
EraseWithoutPutback ==
    /\ h.stage = "erase"
    /\ \/ Erased(h.id) /\ Goto("ok")
       \/ EraseFailed(h.id) /\ Goto("error")
    /\ UNCHANGED <<files, environment, status, history, botched>>

Erase ==
    /\ h.stage = "erase"
    /\ \/ Erased(h.id) /\ Goto("ok")
       \/ EraseFailed(h.id) /\ Goto(IF h.removed = None THEN "error" ELSE "putback")
    /\ UNCHANGED <<files, environment, status, history, botched>>

\* RestoreAuthFiles.
Putback ==
    /\ h.stage = "putback"
    /\ \/ SetFile(h.id, h.previous.meta, h.removed) /\ UNCHANGED botched
       \/ (UNCHANGED files \/ SetFile(h.id, h.previous.meta, h.removed)) /\ botched' = TRUE
    /\ Goto("error")
    /\ UNCHANGED <<mem, disk, environment, status, history>>

\* SetIdentityDisabledForCredential: there must be a file to change.
SetDisabled ==
    LET f == files[h.id][h.previous.meta] IN
    /\ h.stage = "set"
    /\ \/ /\ f # None
          /\ \E d \in BOOLEAN : SetFile(h.id, h.previous.meta, [key |-> f.key, disabled |-> d])
          /\ \/ Goto("ok") /\ UNCHANGED botched
             \/ Goto("error") /\ botched' = TRUE
       \/ Goto("error") /\ UNCHANGED <<files, botched>>
    /\ UNCHANGED <<mem, disk, environment, status, history>>

\* A refresh, and reconciliation: the route needs an auth file, then the
\* credential is inspected.
RouteAndInspect ==
    /\ h.stage = "route"
    /\ \/ Goto("error") /\ UNCHANGED cache
       \/ /\ \E m \in Metas : files[h.id][m] # None
          /\ \E m \in Reported[h.id] :
               Inspected(h.id, m) /\ h' = [h EXCEPT !.stage = "meta", !.meta = m]
    /\ UNCHANGED <<mem, disk, files, unused, starting, status, history, botched>>

\* UpdateMetadata, whose error only a refresh heeds.
UpdateMetadata ==
    LET r == [h.previous EXCEPT !.meta = h.meta] IN
    /\ h.stage = "meta"
    /\ \/ Stored(h.id, r) /\ Goto("upsert") /\ UNCHANGED botched
       \/ StoreFailed(h.id, r) /\ Goto(IF h.kind = "refresh" THEN "error" ELSE "upsert")
    /\ UNCHANGED <<files, environment, status, history>>

\* The metadata just stored is not taken back on an error.
RefreshUpsert ==
    /\ h.stage = "upsert"
    /\ \/ UpsertIdentity(h.id, h.meta, h.previous.key) /\ Goto("ok")
       \/ UpsertFailed(h.id, h.meta, h.previous.key) /\ Goto("error")
    /\ UNCHANGED <<mem, disk, environment, status, history>>

\* reconcileStoredCredentials, one identity after the other, before the server
\* listens.
Reconcile(i) ==
    /\ i \in starting
    /\ Begin(Fresh("reconcile", "route", i, mem[i]))
    /\ starting' = starting \ {i}
    /\ UNCHANGED <<mem, disk, files, cache, unused, status>>

-----------------------------------------------------------------------------
(* The environment                                                         *)

\* The process dies; Open loads what the disk holds.
Restart ==
    /\ mem' = disk
    /\ cache' = NoRecords
    /\ starting' = {i \in Ids : disk[i] # None}
    /\ h' = Fresh("none", "ok", None, None)
    /\ status' = NoStatus
    /\ before' = Nothing /\ disturbed' = FALSE /\ botched' = FALSE
    /\ UNCHANGED <<disk, files, unused>>

\* The user disables, enables or deletes a file in CPA.
UserEdit(i, m) ==
    /\ files[i][m] # None
    /\ \/ SetFile(i, m, [key |-> files[i][m].key, disabled |-> ~files[i][m].disabled])
       \/ SetFile(i, m, None)
    /\ before' = [before EXCEPT !.files = NoFiles] /\ disturbed' = TRUE
    /\ UNCHANGED <<mem, disk, environment, h, status, botched>>

Next ==
    \/ \E i \in Ids : HandleImport(i) \/ Reconcile(i)
    \/ \E batch, ready \in SUBSET Ids, atomic \in BOOLEAN : HandleBatch(batch, ready, atomic)
    \/ \E i \in Ids : HandleIdentity(i, "delete", "backup")
                   \/ HandleIdentity(i, "disable", "set")
                   \/ HandleIdentity(i, "refresh", "route")
    \/ NextItem \/ ImportWithMetadata \/ Sync \/ UndoImport \/ RollbackSync \/ RollbackStore
    \/ Backup \/ RemoveCPA \/ Erase \/ Putback \/ SetDisabled
    \/ RouteAndInspect \/ UpdateMetadata \/ RefreshUpsert
    \/ Restart
    \/ \E i \in Ids, m \in Metas : UserEdit(i, m)

Spec == Init /\ [][Next]_vars

-----------------------------------------------------------------------------
(* Properties                                                              *)

\* Every variable stays within its type.
TypeOK ==
    /\ mem \in [Ids -> Record \cup {None}] /\ disk \in [Ids -> Record \cup {None}]
    /\ files \in [Ids -> [Metas -> File \cup {None}]]
    /\ cache \in [Ids -> Metas \cup {None}]
    /\ unused \subseteq Keys /\ starting \subseteq Ids
    /\ h \in Handler
    /\ status \in [Ids -> Statuses]
    /\ before \in [mem : [Ids -> Record \cup {None}], disk : [Ids -> Record \cup {None}],
                   files : [Ids -> [Metas -> File \cup {None}]]]
    /\ disturbed \in BOOLEAN /\ botched \in BOOLEAN

Returned(kinds, result) == h.kind \in kinds /\ h.stage = result /\ ~disturbed

\* The identity's record is in memory and on disk, and CPA's file for the
\* metadata has its client key.
InStep(i, m) ==
    mem[i] # None /\ mem[i] = disk[i] /\ files[i][m] # None /\ files[i][m].key = mem[i].key

\* A successful import, reconciliation or batch item leaves the client key that
\* CPA sends known to the store, on disk too, whatever was left over from
\* handlers that failed or were cut short.
SuccessIsInStep ==
    /\ Returned({"import"}, "ok") => InStep(h.id, h.meta)
    /\ (Returned({"reconcile", "refresh"}, "ok") /\ ~botched) => InStep(h.id, h.meta)
    /\ Returned({"batch"}, "ok") => \A i \in Ids : status[i] = "imported" => \E m \in Metas : InStep(i, m)

\* The handler imports for a workspace a token that was stored without one.
ImportsLegacy(i) ==
    /\ h.kind = "import" /\ h.id = i /\ before.mem[i] = None
    /\ Legacy[i] # None /\ before.mem[Legacy[i]] # None
    /\ before.mem[Legacy[i]].meta \in Workspace[i]

\* A failed import leaves the store, memory and CPA as they were, unless a
\* compensation failed; so does an atomic batch, except that rolling back an item
\* also takes away auth files left over from before it was imported.  One record
\* may stay: importing for a workspace a token that is stored without one, the
\* handler puts back the old record, which was never touched, and the new one is
\* left, the same in memory and on disk (IdentityStore shows what its key is then
\* good for).
FailureIsUndone ==
    (Returned({"import", "batch"}, "error") /\ ~botched /\ before.mem = before.disk) =>
      /\ \A i \in Ids : IF ImportsLegacy(i) THEN mem[i] = disk[i]
                         ELSE mem[i] = before.mem[i] /\ disk[i] = before.disk[i]
      /\ \A i \in Ids : files[i] # before.files[i] =>
                          status[i] = "rolled_back" /\ before.files[i] # NoFiles[i]

\* An item reported as rolled back has no record in memory or on disk and no
\* enabled auth file, also when items after it could not be rolled back.
RolledBackIsGone ==
    (h.kind = "batch" /\ ~disturbed) =>
      \A i \in Ids : status[i] = "rolled_back" =>
        mem[i] = None /\ disk[i] = None /\ \A m \in Metas : files[i][m] = None \/ files[i][m].disabled

\* A stored credential leaves the disk only when a delete has it in its backup,
\* or when the handler that undoes an import is the one that brought it: no
\* rollback erases a credential that was there before.
CredentialNeverLost ==
    [][\A i \in Ids : (disk[i] # None /\ disk'[i] = None) =>
         (h.kind = "delete" /\ h.backup = disk[i]) \/ before.mem[i] = None]_vars

\* A delete that fails leaves the auth files and the store's file as they were,
\* unless the store's file is gone and its directory could not be synchronised.
FailedDeleteKeepsFiles ==
    (Returned({"delete"}, "error") /\ ~botched) =>
      files = before.files /\ disk[h.id] \in {before.disk[h.id], None}

\* An atomic batch that reports its transaction as rolled back, no item being
\* reported as rollback_failed, leaves no credential behind.
RolledBackLeavesNothing ==
    (Returned({"batch"}, "error") /\ before.mem = before.disk
       /\ \A i \in Ids : status[i] # "rollback_failed") => disk = before.disk
=============================================================================
