------------------------ MODULE ManagementPlaneProofs ------------------------
(***************************************************************************)
(* Proofs about ManagementPlane for every set of identities, metadata and  *)
(* client keys.  None of its properties is inductive.  The invariant says  *)
(* which handler is at which stage and with what (StageInv), what an       *)
(* import would go back to (PreviousInv), where a batch is (BatchInv),     *)
(* that an import has changed only what it would undo or leave             *)
(* (UndoneInv), that what was committed is in step (StepInv), that what    *)
(* was rolled back is gone (GoneInv), and that a delete has changed only   *)
(* what it would put back (DeleteInv).                                     *)
(***************************************************************************)
EXTENDS ManagementPlane, TLAPS

Importing == {"store", "sync", "undo"}

StageInv ==
    /\ h.stage \in Importing => h.kind \in {"import", "batch"} /\ h.meta \in Metas
    /\ h.stage \in Importing /\ h.kind = "batch" => h.id \in Ids
    /\ h.stage \in {"next", "unsync", "unstore"} => h.kind = "batch"
    /\ h.stage \in {"unsync", "unstore"} => h.todo = {}
    /\ h.stage = "unstore" => h.id \in h.imported
    /\ h.stage \in {"backup", "remove", "erase", "putback"} => h.kind = "delete"
    /\ h.stage = "set" => h.kind = "disable"
    /\ h.stage \in {"route", "meta", "upsert"} => h.kind \in {"refresh", "reconcile"}
    /\ h.stage \in {"meta", "upsert"} => h.meta \in Metas
    /\ h.kind \in {"delete", "disable", "refresh", "reconcile"} => h.id \in Ids /\ h.previous \in Record
    /\ h.kind = "import" => h.id \in Ids /\ h.imported = {} /\ h.todo = {}
    /\ h.kind = "batch" => h.previous = None
    /\ h.kind = "batch" /\ h.stage = "error" => h.imported = {}
    /\ starting # {} => h.kind \in {"none", "reconcile"}
    /\ h.kind = "reconcile" => h.id \notin starting
    /\ \A i \in starting : mem[i] # None /\ mem[i] = disk[i]

\* What an import would go back to: the identity's own record, the one the token
\* has without a workspace, or nothing.
PreviousInv ==
    h.kind = "import" =>
      \/ h.owner = h.id /\ h.previous = before.mem[h.id] /\ h.previous # None
      \/ h.previous = None /\ before.mem[h.id] = None
      \/ h.owner \in Ids /\ h.previous = before.mem[h.owner] /\ h.previous # None /\ ImportsLegacy(h.id)

BatchInv ==
    h.kind = "batch" =>
      /\ \A i \in h.todo : status[i] = "ready" /\ cache[i] \in Metas /\ before.mem[i] = None
      /\ \A i \in h.imported : before.mem[i] = None
      /\ \A i \in Ids : status[i] = "imported" <=> i \in h.imported
      /\ h.stage \in Importing => status[h.id] = "ready" /\ h.id \notin h.todo /\ before.mem[h.id] = None

\* The identity whose record and files are between two states.
Midway(i) == i = h.id /\ h.stage \in {"sync", "undo"}

\* What the failed import of a token stored without a workspace leaves.
LeftOver(i) == h.stage = "error" /\ ImportsLegacy(i) /\ mem[i] = disk[i]

UndoneInv ==
    (h.kind \in {"import", "batch"} /\ h.stage # "ok" /\ ~disturbed /\ ~botched /\ before.mem = before.disk) =>
      \A i \in Ids :
        /\ i \notin h.imported /\ ~Midway(i) =>
             (mem[i] = before.mem[i] /\ disk[i] = before.disk[i]) \/ LeftOver(i)
        /\ i \notin h.imported =>
             \/ files[i] = before.files[i]
             \/ status[i] = "rolled_back" /\ before.files[i] # NoFiles[i]
        /\ i \in h.imported /\ before.files[i] = NoFiles[i] =>
             /\ \A m \in Metas : files[i][m] = None \/ ~files[i][m].disabled
             /\ (i = h.id /\ h.stage = "unstore") => files[i] = NoFiles[i]

StepInv ==
    /\ h.stage \in {"sync", "undo"} => mem[h.id] # None /\ mem[h.id] = disk[h.id]
    /\ h.kind = "reconcile" /\ h.stage \in {"route", "meta"} => mem[h.id] = h.previous /\ disk[h.id] = h.previous
    /\ h.stage = "upsert" /\ ~botched => mem[h.id] = disk[h.id] /\ mem[h.id] # None /\ mem[h.id].key = h.previous.key
    /\ h.kind = "batch" /\ h.stage \in {"next", "ok"} \cup Importing /\ ~disturbed =>
         \A i \in h.imported : \E m \in Metas : InStep(i, m)
    /\ Returned({"import"}, "ok") => InStep(h.id, h.meta)
    /\ (Returned({"reconcile", "refresh"}, "ok") /\ ~botched) => InStep(h.id, h.meta)

Hidden(i) == \A m \in Metas : files[i][m] = None \/ files[i][m].disabled

GoneInv ==
    (h.kind = "batch" /\ ~disturbed) =>
      /\ \A i \in Ids : status[i] = "rolled_back" => mem[i] = None /\ disk[i] = None /\ Hidden(i)
      /\ h.stage = "unstore" => Hidden(h.id)

\* The auth files without the one a delete removes.
Removed(f) == [f EXCEPT ![h.id][h.previous.meta] = None]

DeleteInv ==
    h.kind = "delete" =>
      /\ h.stage \in {"remove", "erase"} => h.backup = disk[h.id]
      /\ ~disturbed /\ ~botched =>
           /\ h.stage \in {"backup", "remove", "error"} => files = before.files
           /\ h.stage \in {"erase", "putback"} =>
                files = Removed(before.files) /\ h.removed = before.files[h.id][h.previous.meta]
           /\ h.stage \in {"backup", "remove", "erase"} => disk[h.id] = before.disk[h.id]
           /\ h.stage \in {"putback", "error"} => disk[h.id] \in {before.disk[h.id], None}

Inv == TypeOK /\ StageInv /\ PreviousInv /\ BatchInv /\ UndoneInv /\ StepInv /\ GoneInv /\ DeleteInv

-----------------------------------------------------------------------------
(* Types                                                                   *)

LEMMA FreshType ==
    ASSUME NEW kind \in {"none", "import", "batch", "delete", "disable", "refresh", "reconcile"},
           NEW stage \in {"ok", "error", "store", "next", "backup", "set", "route"},
           NEW i \in Ids \cup {None}, NEW r \in Record \cup {None}
    PROVE  Fresh(kind, stage, i, r) \in Handler
BY DEF Fresh, Handler, Ended

\* A handler goes to another stage.
LEMMA GotoType ==
    ASSUME TypeOK,
           NEW s \in {"ok", "error", "store", "sync", "undo", "next", "unsync", "unstore", "backup", "remove",
                      "erase", "putback", "set", "route", "meta", "upsert"}
    PROVE  [h EXCEPT !.stage = s] \in Handler
BY Zenon DEF TypeOK, Handler, Ended

\* A compensating call of the store, and a file of CPA, keep the types.
LEMMA StoreType ==
    ASSUME TypeOK, NEW i \in Ids, NEW r \in Record \cup {None}
    PROVE  /\ [mem EXCEPT ![i] = r] \in [Ids -> Record \cup {None}]
           /\ [disk EXCEPT ![i] = r] \in [Ids -> Record \cup {None}]
BY DEF TypeOK

LEMMA StoreCallType ==
    ASSUME TypeOK, NEW i \in Ids, NEW r \in Record
    PROVE  /\ Stored(i, r) \/ StoreFailed(i, r) =>
                mem' \in [Ids -> Record \cup {None}] /\ disk' \in [Ids -> Record \cup {None}]
           /\ StoreFailed(i, r) => botched' \in BOOLEAN
<1>0. StoreFailed(i, r) => UNCHANGED mem /\ (UNCHANGED disk \/ disk' = [disk EXCEPT ![i] = r])
  BY Zenon DEF StoreFailed
<1>1. Stored(i, r) \/ StoreFailed(i, r) =>
        mem' \in [Ids -> Record \cup {None}] /\ disk' \in [Ids -> Record \cup {None}]
  <2>1. /\ [mem EXCEPT ![i] = r] \in [Ids -> Record \cup {None}]
        /\ [disk EXCEPT ![i] = r] \in [Ids -> Record \cup {None}]
    BY StoreType
  <2> QED
    BY <1>0, <2>1, Zenon DEF Stored, TypeOK
<1>2. StoreFailed(i, r) => botched' \in BOOLEAN
  BY Zenon DEF StoreFailed, TypeOK
<1> QED
  BY <1>1, <1>2, Zenon

LEMMA FileType ==
    ASSUME TypeOK, NEW i \in Ids, NEW m \in Metas, NEW f \in File \cup {None}, SetFile(i, m, f)
    PROVE  files' \in [Ids -> [Metas -> File \cup {None}]]
BY DEF TypeOK, SetFile

LEMMA UpsertedType ==
    ASSUME TypeOK, NEW i \in Ids, NEW m \in Metas, NEW k \in Keys
    PROVE  /\ Upserted(i, m, k) \in File /\ files[i][m] \in File \cup {None}
           /\ UpsertIdentity(i, m, k) \/ UpsertFailed(i, m, k) =>
                files' \in [Ids -> [Metas -> File \cup {None}]] /\ botched' \in BOOLEAN
<1>1. Upserted(i, m, k) \in File
  BY DEF Upserted, File
<1>2. files[i][m] \in File \cup {None}
  BY DEF TypeOK
<1>3. ASSUME UpsertIdentity(i, m, k) \/ UpsertFailed(i, m, k) PROVE botched' \in BOOLEAN
  BY <1>3, Zenon DEF UpsertIdentity, UpsertFailed, TypeOK
<1>4. ASSUME UpsertIdentity(i, m, k) \/ UpsertFailed(i, m, k)
      PROVE  files' \in [Ids -> [Metas -> File \cup {None}]]
  <2>1. CASE UNCHANGED files
    BY <2>1 DEF TypeOK
  <2>2. ASSUME NEW f \in File \cup {None}, SetFile(i, m, f) PROVE files' \in [Ids -> [Metas -> File \cup {None}]]
    BY <2>2, FileType
  <2> QED
    BY <2>1, <2>2, <1>1, <1>2, <1>4, Zenon DEF UpsertIdentity, UpsertFailed
<1> QED
  BY <1>1, <1>2, <1>3, <1>4, Zenon

LEMMA WithoutType ==
    ASSUME TypeOK, NEW i \in Ids, NEW gone, Without(i, gone)
    PROVE  files' \in [Ids -> [Metas -> File \cup {None}]]
BY DEF TypeOK, Without

\* How an import or a batch item ends.
LEMMA EndType ==
    ASSUME TypeOK, NEW i \in Ids
    PROVE  /\ Committed(i) => h' \in Handler /\ status' \in [Ids -> Statuses]
           /\ Failed(i) => h' \in Handler /\ status' \in [Ids -> Statuses]
<1>1. [h EXCEPT !.stage = "next", !.imported = h.imported \cup {i}] \in Handler
  BY Zenon DEF TypeOK, Handler
<1>2. [h EXCEPT !.stage = "unsync", !.todo = {}] \in Handler
  BY Zenon DEF TypeOK, Handler
<1>3. Committed(i) => h' \in Handler
  BY <1>1, GotoType, Zenon DEF Committed, Goto
<1>4. Failed(i) => h' \in Handler
  BY <1>2, GotoType, Zenon DEF Failed, Goto
<1>5. Committed(i) \/ Failed(i) => status' \in [Ids -> Statuses]
  BY DEF Committed, Failed, Statuses, TypeOK
<1> QED
  BY <1>3, <1>4, <1>5

LEMMA BeginType ==
    ASSUME TypeOK, NEW handler \in Handler, Begin(handler)
    PROVE  /\ h' \in Handler /\ disturbed' \in BOOLEAN /\ botched' \in BOOLEAN
           /\ before' \in [mem : [Ids -> Record \cup {None}], disk : [Ids -> Record \cup {None}],
                           files : [Ids -> [Metas -> File \cup {None}]]]
BY Zenon DEF TypeOK, Begin

LEMMA InspectedType ==
    ASSUME TypeOK, NEW i \in Ids, NEW m \in Reported[i], Inspected(i, m)
    PROVE  cache' \in [Ids -> Metas \cup {None}] /\ m \in Metas
BY ReportedAssumption, Zenon DEF TypeOK, Inspected

\* What the lookup of an import finds.
LEMMA LookupFacts ==
    ASSUME TypeOK, NEW i \in Ids
    PROVE  LET owner == LookupByTokenAndAccount(i)
               previous == IF owner = None THEN None ELSE mem[owner]
           IN
           /\ owner \in Ids \cup {None} /\ previous \in Record \cup {None}
           /\ \/ owner = i /\ previous = mem[i] /\ previous # None
              \/ owner = None /\ previous = None /\ mem[i] = None
              \/ /\ owner \in Ids /\ owner = Legacy[i] /\ previous = mem[owner] /\ previous # None
                 /\ mem[i] = None /\ previous.meta \in Workspace[i]
BY LegacyAssumption, NoneAssumption DEF LookupByTokenAndAccount, TypeOK

LEMMA TypeStep ==
    ASSUME Inv, [Next]_vars
    PROVE  TypeOK'
<1> USE DEF environment, history
<1>0. TypeOK /\ StageInv /\ PreviousInv /\ BatchInv /\ StepInv
  BY DEF Inv
<1>1. ASSUME NEW i \in Ids, HandleImport(i) PROVE TypeOK'
  <2>0. PICK owner \in Ids \cup {None}, previous \in Record \cup {None} :
          \E m \in Reported[i] :
            /\ Inspected(i, m)
            /\ Begin([Fresh("import", "store", i, previous) EXCEPT !.owner = owner, !.meta = m])
    BY <1>0, <1>1, LookupFacts DEF HandleImport
  <2>1. PICK m \in Reported[i] :
            /\ Inspected(i, m)
            /\ Begin([Fresh("import", "store", i, previous) EXCEPT !.owner = owner, !.meta = m])
    BY <2>0
  <2>2. cache' \in [Ids -> Metas \cup {None}] /\ m \in Metas
    BY <2>1, <1>0, InspectedType
  <2>4. [Fresh("import", "store", i, previous) EXCEPT !.owner = owner, !.meta = m] \in Handler
    BY <2>2, Zenon DEF Fresh, Handler
  <2> QED
    BY <2>1, <2>2, <2>4, <1>0, <1>1, BeginType DEF HandleImport, TypeOK
<1>2. ASSUME NEW i \in Ids, Reconcile(i) PROVE TypeOK'
  <2>1. Fresh("reconcile", "route", i, mem[i]) \in Handler
    BY <1>0, FreshType DEF TypeOK
  <2> QED
    BY <2>1, <1>0, <1>2, BeginType DEF Reconcile, TypeOK
<1>3. ASSUME NEW batch \in SUBSET Ids, NEW ready \in SUBSET Ids, NEW atomic \in BOOLEAN,
             HandleBatch(batch, ready, atomic)
      PROVE  TypeOK'
  <2> DEFINE pending == {i \in batch : LookupByTokenAndAccount(i) = None}
             blocked == atomic /\ ready # pending
  <2>1. [Fresh("batch", IF blocked THEN "error" ELSE "next", None, None) EXCEPT
                !.todo = IF blocked THEN {} ELSE ready, !.atomic = atomic] \in Handler
    BY Zenon DEF Fresh, Handler, Ended
  <2>2. cache' \in [Ids -> Metas \cup {None}]
    BY <1>3 DEF HandleBatch
  <2>3. status' \in [Ids -> Statuses]
    BY <1>3 DEF HandleBatch, Statuses
  <2>4. Begin([Fresh("batch", IF blocked THEN "error" ELSE "next", None, None) EXCEPT
                !.todo = IF blocked THEN {} ELSE ready, !.atomic = atomic])
    BY <1>3 DEF HandleBatch
  <2>5. UNCHANGED <<mem, disk, files, unused, starting>>
    BY <1>3 DEF HandleBatch
  <2> HIDE DEF pending, blocked
  <2> QED
    BY <2>1, <2>2, <2>3, <2>4, <2>5, <1>0, BeginType DEF TypeOK
<1>4. ASSUME NEW i \in Ids, NEW kind \in {"delete", "disable", "refresh"}, NEW stage \in {"backup", "set", "route"},
             HandleIdentity(i, kind, stage)
      PROVE  TypeOK'
  <2>1. Fresh(kind, stage, i, mem[i]) \in Handler
    BY <1>0, FreshType DEF TypeOK
  <2> QED
    BY <2>1, <1>0, <1>4, BeginType DEF HandleIdentity, TypeOK
<1>5. ASSUME NextItem PROVE TypeOK'
  <2>1. CASE h.todo = {}
    BY <2>1, <1>0, <1>5, GotoType, Zenon DEF NextItem, Goto, TypeOK
  <2>2. CASE h.todo # {}
    <3>1. h.todo \in SUBSET Ids
      BY <1>0 DEF TypeOK, Handler
    <3>2. PICK i \in h.todo :
            \/ /\ h' = [h EXCEPT !.stage = "store", !.id = i, !.meta = cache[i], !.todo = h.todo \ {i}]
               /\ UNCHANGED status
            \/ /\ h' = [h EXCEPT !.todo = h.todo \ {i}]
               /\ status' = [status EXCEPT ![i] = "duplicate"]
      BY <2>2, <1>5, Zenon DEF NextItem
    <3>3. i \in Ids /\ cache[i] \in Metas \cup {None}
      BY <3>1, <1>0 DEF TypeOK
    <3>4. h' \in Handler
      <4>1. [h EXCEPT !.stage = "store", !.id = i, !.meta = cache[i], !.todo = h.todo \ {i}] \in Handler
        BY <3>1, <3>3, <1>0, Zenon DEF TypeOK, Handler
      <4>2. [h EXCEPT !.todo = h.todo \ {i}] \in Handler
        BY <3>1, <1>0, Zenon DEF TypeOK, Handler
      <4> QED
        BY <4>1, <4>2, <3>2, Zenon
    <3>5. status' \in [Ids -> Statuses]
      BY <3>2, <1>0, Zenon DEF TypeOK, Statuses
    <3> QED
      BY <3>4, <3>5, <1>0, <1>5, Zenon DEF NextItem, TypeOK
  <2> QED
    BY <2>1, <2>2
<1>6. ASSUME ImportWithMetadata PROVE TypeOK'
  <2>0. h.id \in Ids /\ h.meta \in Metas
    BY <1>0, <1>6 DEF ImportWithMetadata, StageInv, Importing
  <2>1. PICK k \in unused :
         LET r == [key |-> k, meta |-> h.meta] IN
         /\ unused' = unused \ {k}
         /\ \/ Stored(h.id, r) /\ Goto("sync") /\ UNCHANGED <<status, botched>>
            \/ StoreFailed(h.id, r) /\ Failed(h.id)
    BY <1>6 DEF ImportWithMetadata
  <2>2. [key |-> k, meta |-> h.meta] \in Record
    BY <2>0, <1>0 DEF TypeOK, Record
  <2>3. h' \in Handler /\ status' \in [Ids -> Statuses]
    BY <2>0, <2>1, <1>0, EndType, Zenon DEF Goto, TypeOK, Handler, Ended
  <2>4. mem' \in [Ids -> Record \cup {None}] /\ disk' \in [Ids -> Record \cup {None}] /\ botched' \in BOOLEAN
    BY <2>0, <2>1, <2>2, <1>0, StoreCallType, Zenon DEF TypeOK
  <2> QED
    BY <2>1, <2>3, <2>4, <1>0, <1>6 DEF ImportWithMetadata, TypeOK
<1>7. ASSUME Sync PROVE TypeOK'
  <2>0. h.id \in Ids /\ h.meta \in Metas /\ mem[h.id].key \in Keys
    BY <1>0, <1>7 DEF Sync, StageInv, StepInv, Importing, TypeOK, Record
  <2>1. files' \in [Ids -> [Metas -> File \cup {None}]] /\ botched' \in BOOLEAN
    BY <2>0, <1>0, <1>7, UpsertedType DEF Sync
  <2>2. h' \in Handler /\ status' \in [Ids -> Statuses]
    BY <2>0, <1>0, <1>7, EndType, Zenon DEF Sync, Goto, TypeOK, Handler
  <2> QED
    BY <2>1, <2>2, <1>0, <1>7 DEF Sync, TypeOK
<1>8. ASSUME UndoImport PROVE TypeOK'
  <2>0. h.id \in Ids /\ h.previous \in Record \cup {None} /\ (h.previous # None => h.owner \in Ids)
    BY <1>0, <1>8 DEF UndoImport, StageInv, PreviousInv, Importing, TypeOK, Handler
  <2>1. mem' \in [Ids -> Record \cup {None}] /\ disk' \in [Ids -> Record \cup {None}] /\ botched' \in BOOLEAN
    BY <2>0, <1>0, <1>8, StoreType, Zenon DEF UndoImport, Stored, Erased, EraseFailed, TypeOK
  <2>2. h' \in Handler /\ status' \in [Ids -> Statuses]
    BY <2>0, <1>0, <1>8, EndType DEF UndoImport
  <2> QED
    BY <2>1, <2>2, <1>0, <1>8 DEF UndoImport, TypeOK
<1>9. ASSUME RollbackSync PROVE TypeOK'
  <2>0. h.imported \in SUBSET Ids
    BY <1>0 DEF TypeOK, Handler
  <2>1. CASE h.imported = {}
    BY <2>1, <1>0, <1>9, GotoType, Zenon DEF RollbackSync, Goto, TypeOK
  <2>2. CASE h.imported # {}
    <3>1. PICK i \in h.imported :
            \/ /\ RemoveIdentity(i)
               /\ h' = [h EXCEPT !.stage = "unstore", !.id = i]
               /\ UNCHANGED <<status, botched>>
            \/ /\ \E gone \in SUBSET Metas : Without(i, gone)
               /\ h' = [h EXCEPT !.imported = h.imported \ {i}]
               /\ status' = [status EXCEPT ![i] = "rollback_failed"]
               /\ botched' = TRUE
      BY <2>2, <1>9, Zenon DEF RollbackSync
    <3>i. i \in Ids
      BY <2>0
    <3>2. files' \in [Ids -> [Metas -> File \cup {None}]]
      BY <3>1, <3>i, <1>0, WithoutType, Zenon DEF RemoveIdentity
    <3>3. [h EXCEPT !.stage = "unstore", !.id = i] \in Handler /\ [h EXCEPT !.imported = h.imported \ {i}] \in Handler
      BY <3>i, <1>0, ZenonT(30) DEF TypeOK, Handler
    <3>4. [status EXCEPT ![i] = "rollback_failed"] \in [Ids -> Statuses]
      BY <1>0, Zenon DEF TypeOK, Statuses
    <3>5. h' \in Handler /\ status' \in [Ids -> Statuses] /\ botched' \in BOOLEAN
      BY <3>1, <3>3, <3>4, <1>0, Zenon DEF TypeOK
    <3> QED
      BY <3>2, <3>5, <1>0, <1>9, Zenon DEF RollbackSync, TypeOK
  <2> QED
    BY <2>1, <2>2
<1>10. ASSUME RollbackStore PROVE TypeOK'
  <2>0. h.id \in Ids
    BY <1>0, <1>10 DEF RollbackStore, StageInv, TypeOK, Handler
  <2>1. mem' \in [Ids -> Record \cup {None}] /\ disk' \in [Ids -> Record \cup {None}] /\ botched' \in BOOLEAN
    BY <2>0, <1>0, <1>10, StoreType, Zenon DEF RollbackStore, Erased, EraseFailed, TypeOK
  <2>2. h' \in Handler /\ status' \in [Ids -> Statuses]
    BY <2>0, <1>0, <1>10, Zenon DEF RollbackStore, TypeOK, Handler, Statuses
  <2> QED
    BY <2>1, <2>2, <1>0, <1>10 DEF RollbackStore, TypeOK
<1>11. ASSUME Backup PROVE TypeOK'
  <2>0. h.id \in Ids
    BY <1>0, <1>11 DEF Backup, StageInv
  <2>1. [h EXCEPT !.stage = "remove", !.backup = disk[h.id]] \in Handler
    BY <2>0, <1>0, Zenon DEF TypeOK, Handler
  <2>2. h' \in Handler
    BY <2>1, <1>0, <1>11, GotoType, Zenon DEF Backup, Goto
  <2> QED
    BY <2>2, <1>0, <1>11 DEF Backup, TypeOK
<1>12. ASSUME RemoveCPA PROVE TypeOK'
  <2>0. h.id \in Ids /\ h.previous.meta \in Metas /\ files[h.id][h.previous.meta] \in File \cup {None}
    BY <1>0, <1>12 DEF RemoveCPA, StageInv, Record, TypeOK
  <2>1. files' \in [Ids -> [Metas -> File \cup {None}]] /\ botched' \in BOOLEAN
    <3>1. botched' \in BOOLEAN
      BY <1>0, <1>12, Zenon DEF RemoveCPA, RemoveFailed, TypeOK
    <3>2. files' \in [Ids -> [Metas -> File \cup {None}]]
      BY <2>0, <1>0, <1>12, FileType, SMT DEF RemoveCPA, RemoveFailed, TypeOK
    <3> QED
      BY <3>1, <3>2
  <2>3. [h EXCEPT !.stage = "erase", !.removed = files[h.id][h.previous.meta]] \in Handler
    BY <2>0, <1>0, Zenon DEF TypeOK, Handler
  <2>2. h' \in Handler
    BY <2>3, <1>0, <1>12, GotoType, Zenon DEF RemoveCPA, Goto
  <2> QED
    BY <2>1, <2>2, <1>0, <1>12 DEF RemoveCPA, TypeOK
<1>13. ASSUME Erase PROVE TypeOK'
  <2>0. h.id \in Ids
    BY <1>0, <1>13 DEF Erase, StageInv
  <2>1. mem' \in [Ids -> Record \cup {None}] /\ disk' \in [Ids -> Record \cup {None}]
    BY <2>0, <1>0, <1>13, StoreType, Zenon DEF Erase, Erased, EraseFailed, TypeOK
  <2>2. h' \in Handler
    BY <1>0, <1>13, GotoType DEF Erase, Goto
  <2> QED
    BY <2>1, <2>2, <1>0, <1>13 DEF Erase, TypeOK
<1>14. ASSUME Putback PROVE TypeOK'
  <2>0. h.id \in Ids /\ h.previous.meta \in Metas /\ h.removed \in File \cup {None}
    BY <1>0, <1>14 DEF Putback, StageInv, Record, TypeOK, Handler
  <2>1. files' \in [Ids -> [Metas -> File \cup {None}]] /\ botched' \in BOOLEAN
    <3>1. botched' \in BOOLEAN
      BY <1>0, <1>14, Zenon DEF Putback, TypeOK
    <3>2. files' \in [Ids -> [Metas -> File \cup {None}]]
      BY <2>0, <1>0, <1>14, FileType, SMT DEF Putback, TypeOK
    <3> QED
      BY <3>1, <3>2
  <2>2. h' \in Handler
    BY <1>0, <1>14, GotoType, SMTT(30) DEF Putback, Goto
  <2> QED
    BY <2>1, <2>2, <1>0, <1>14 DEF Putback, TypeOK
<1>15. ASSUME SetDisabled PROVE TypeOK'
  <2>0. h.id \in Ids /\ h.previous.meta \in Metas /\ files[h.id][h.previous.meta] \in File \cup {None}
    BY <1>0, <1>15 DEF SetDisabled, StageInv, Record, TypeOK
  <2>1. ASSUME NEW d \in BOOLEAN, files[h.id][h.previous.meta] # None
        PROVE  [key |-> files[h.id][h.previous.meta].key, disabled |-> d] \in File
    BY <2>0, <2>1 DEF File
  <2>2. files' \in [Ids -> [Metas -> File \cup {None}]] /\ botched' \in BOOLEAN
    <3>1. botched' \in BOOLEAN
      BY <1>0, <1>15, Zenon DEF SetDisabled, TypeOK
    <3>2. files' \in [Ids -> [Metas -> File \cup {None}]]
      <4>1. \/ UNCHANGED files
            \/ /\ files[h.id][h.previous.meta] # None
               /\ \E d \in BOOLEAN : SetFile(h.id, h.previous.meta, [key |-> files[h.id][h.previous.meta].key,
                                                                      disabled |-> d])
        BY <1>15, Zenon DEF SetDisabled
      <4>2. \/ UNCHANGED files
            \/ \E f \in File : SetFile(h.id, h.previous.meta, f)
        BY <4>1, <2>1, ZenonT(30)
      <4> QED
        BY <4>2, <2>0, <1>0, FileType DEF TypeOK
    <3> QED
      BY <3>1, <3>2
  <2>3. h' \in Handler
    BY <1>0, <1>15, GotoType, Zenon DEF SetDisabled, Goto
  <2> QED
    BY <2>2, <2>3, <1>0, <1>15, Zenon DEF SetDisabled, TypeOK
<1>16. ASSUME RouteAndInspect PROVE TypeOK'
  <2>0. h.id \in Ids
    BY <1>0, <1>16, Zenon DEF RouteAndInspect, StageInv
  <2>1. CASE Goto("error") /\ UNCHANGED cache
    BY <2>1, <1>0, <1>16, Zenon DEF RouteAndInspect, Goto, TypeOK, Handler, Ended
  <2>2. ASSUME NEW m \in Reported[h.id], Inspected(h.id, m), h' = [h EXCEPT !.stage = "meta", !.meta = m]
        PROVE  TypeOK'
    <3>1. cache' \in [Ids -> Metas \cup {None}] /\ m \in Metas
      BY <2>0, <2>2, <1>0, InspectedType
    <3> QED
      BY <3>1, <2>2, <1>0, <1>16, Zenon DEF RouteAndInspect, TypeOK, Handler
  <2> QED
    BY <2>1, <2>2, <1>16, Zenon DEF RouteAndInspect
<1>17. ASSUME UpdateMetadata PROVE TypeOK'
  <2>0. h.id \in Ids /\ [h.previous EXCEPT !.meta = h.meta] \in Record
    BY <1>0, <1>17 DEF UpdateMetadata, StageInv, Record
  <2>1. mem' \in [Ids -> Record \cup {None}] /\ disk' \in [Ids -> Record \cup {None}] /\ botched' \in BOOLEAN
    BY <2>0, <1>0, <1>17, StoreCallType, Zenon DEF UpdateMetadata, TypeOK
  <2>2. h' \in Handler
    BY <1>0, <1>17, GotoType, Zenon DEF UpdateMetadata, Goto
  <2> QED
    BY <2>1, <2>2, <1>0, <1>17 DEF UpdateMetadata, TypeOK
<1>18. ASSUME RefreshUpsert PROVE TypeOK'
  <2>0. h.id \in Ids /\ h.meta \in Metas /\ h.previous.key \in Keys
    BY <1>0, <1>18 DEF RefreshUpsert, StageInv, Record
  <2>1. files' \in [Ids -> [Metas -> File \cup {None}]] /\ botched' \in BOOLEAN
    BY <2>0, <1>0, <1>18, UpsertedType DEF RefreshUpsert
  <2>2. h' \in Handler
    BY <1>0, <1>18, GotoType DEF RefreshUpsert, Goto
  <2> QED
    BY <2>1, <2>2, <1>0, <1>18 DEF RefreshUpsert, TypeOK
<1>19. ASSUME Restart PROVE TypeOK'
  <2>1. Fresh("none", "ok", None, None) \in Handler
    BY FreshType
  <2> QED
    BY <2>1, <1>0, <1>19, Zenon DEF Restart, TypeOK, NoRecords, NoFiles, NoStatus, Nothing, Statuses
<1>20. ASSUME NEW i \in Ids, NEW m \in Metas, UserEdit(i, m) PROVE TypeOK'
  <2>1. [key |-> files[i][m].key, disabled |-> ~files[i][m].disabled] \in File
    <3>1. files[i][m] \in File
      BY <1>0, <1>20 DEF UserEdit, TypeOK
    <3>2. (~files[i][m].disabled) \in BOOLEAN
      OBVIOUS
    <3> QED
      BY <3>1, <3>2, Zenon DEF File
  <2>2. files' \in [Ids -> [Metas -> File \cup {None}]]
    BY <2>1, <1>0, <1>20, FileType, Zenon DEF UserEdit
  <2> QED
    BY <2>2, <1>0, <1>20, Zenon DEF UserEdit, TypeOK, NoFiles
<1>21. CASE UNCHANGED vars
  BY <1>0, <1>21 DEF TypeOK, vars
<1> QED
  BY <1>1, <1>2, <1>3, <1>4, <1>5, <1>6, <1>7, <1>8, <1>9, <1>10, <1>11, <1>12, <1>13,
     <1>14, <1>15, <1>16, <1>17, <1>18, <1>19, <1>20, <1>21 DEF Next

-----------------------------------------------------------------------------
(* What a step leaves alone                                                *)

Rest == StageInv /\ BatchInv /\ UndoneInv /\ StepInv /\ GoneInv /\ DeleteInv

\* Only an import or a batch has something to say about BatchInv, UndoneInv and
\* GoneInv; only a delete about DeleteInv.
LEMMA Alone ==
    ASSUME h'.kind \notin {"import", "batch"}
    PROVE  BatchInv' /\ UndoneInv' /\ GoneInv'
BY DEF BatchInv, UndoneInv, GoneInv

LEMMA NotDelete ==
    ASSUME h'.kind # "delete"
    PROVE  DeleteInv'
BY DEF DeleteInv

LEMMA GotoFields ==
    ASSUME TypeOK, NEW s, Goto(s)
    PROVE  /\ h'.stage = s /\ h'.kind = h.kind /\ h'.id = h.id /\ h'.previous = h.previous /\ h'.meta = h.meta
           /\ h'.todo = h.todo /\ h'.imported = h.imported /\ h'.backup = h.backup /\ h'.removed = h.removed
BY DEF TypeOK, Handler, Goto

\* An item that failed keeps its place in the handler and changes no final status.
LEMMA FailedFields ==
    ASSUME Inv, h.stage \in Importing, Failed(h.id)
    PROVE  /\ h.id \in Ids /\ h.kind \in {"import", "batch"} /\ h'.kind = h.kind /\ h'.id = h.id
           /\ h'.previous = h.previous /\ h'.meta = h.meta
           /\ h'.imported = h.imported /\ h'.todo \subseteq h.todo
           /\ h.kind = "import" => h'.stage = "error" /\ h'.todo = h.todo
           /\ h.kind = "batch" => h'.stage \in {"next", "unsync"}
           /\ h'.stage = "unsync" => h'.todo = {}
           /\ \A j \in Ids : status'[j] = status[j]
                               \/ (h.kind = "batch" /\ status[j] = "ready" /\ status'[j] \in {"failed", "aborted"})
           /\ \A j \in h'.todo : status'[j] = status[j]
<1>0. h.id \in Ids /\ h.kind \in {"import", "batch"} /\ h \in Handler /\ status \in [Ids -> Statuses]
      /\ h.todo \in SUBSET Ids
  BY DEF Inv, StageInv, TypeOK, Handler
<1>1. CASE h.kind = "import"
  <2>1. Goto("error") /\ UNCHANGED status
    BY <1>1 DEF Failed
  <2> QED
    BY <1>0, <1>1, <2>1, GotoFields DEF Inv
<1>2. CASE h.kind = "batch" /\ h.atomic
  <2>1. h' = [h EXCEPT !.stage = "unsync", !.todo = {}]
        /\ status' = [j \in Ids |-> IF j = h.id THEN "failed"
                                    ELSE IF j \in h.todo THEN "aborted" ELSE status[j]]
    BY <1>2 DEF Failed
  <2>2. /\ h'.stage = "unsync" /\ h'.kind = h.kind /\ h'.id = h.id /\ h'.previous = h.previous /\ h'.meta = h.meta
        /\ h'.todo = {} /\ h'.imported = h.imported
    BY <1>0, <2>1 DEF Handler
  <2>3. \A j \in h.todo : status[j] = "ready"
    BY <1>2 DEF Inv, BatchInv
  <2>4. status[h.id] = "ready"
    BY <1>2 DEF Inv, BatchInv
  <2> QED
    BY <1>0, <1>2, <2>1, <2>2, <2>3, <2>4
<1>3. CASE h.kind = "batch" /\ ~h.atomic
  <2>1. Goto("next") /\ status' = [status EXCEPT ![h.id] = "failed"]
    BY <1>3 DEF Failed
  <2>2. status[h.id] = "ready" /\ h.id \notin h.todo
    BY <1>3 DEF Inv, BatchInv
  <2> QED
    BY <1>0, <1>3, <2>1, <2>2, GotoFields DEF Inv
<1> QED
  BY <1>0, <1>1, <1>2, <1>3

\* An item fails: everything of other identities stays, and its own record is back
\* where it was or, next to one without a workspace, left, unless a compensation
\* failed.
Undoes ==
    /\ h.stage \in Importing /\ Failed(h.id)
    /\ UNCHANGED <<files, cache, starting, before, disturbed>>
    /\ h.kind = "batch" => \A j \in Ids \ {h.id} : mem'[j] = mem[j] /\ disk'[j] = disk[j]
    /\ (~botched' /\ ~disturbed /\ before.mem = before.disk) =>
         /\ ~botched
         /\ \A j \in Ids \ {h.id} : mem'[j] = mem[j] /\ disk'[j] = disk[j]
         /\ \/ mem'[h.id] = before.mem[h.id] /\ disk'[h.id] = before.disk[h.id]
            \/ ImportsLegacy(h.id) /\ mem'[h.id] = disk'[h.id]

LEMMA UndoesInv ==
    ASSUME Inv, Undoes
    PROVE  Rest'
<1> DEFINE Facts ==
           /\ h.id \in Ids /\ h.kind \in {"import", "batch"} /\ h'.kind = h.kind /\ h'.id = h.id
           /\ h'.previous = h.previous /\ h'.meta = h.meta
           /\ h'.imported = h.imported /\ h'.todo \subseteq h.todo
           /\ h.kind = "import" => h'.stage = "error" /\ h'.todo = h.todo
           /\ h.kind = "batch" => h'.stage \in {"next", "unsync"}
           /\ h'.stage = "unsync" => h'.todo = {}
           /\ \A j \in Ids : status'[j] = status[j]
                               \/ (h.kind = "batch" /\ status[j] = "ready" /\ status'[j] \in {"failed", "aborted"})
           /\ \A j \in h'.todo : status'[j] = status[j]
<1>1. Facts
  BY FailedFields DEF Undoes
<1>2. h.stage \in Importing /\ h.stage \notin {"unstore", "ok"}
  BY DEF Undoes, Importing
<1>3. StageInv /\ BatchInv /\ UndoneInv /\ StepInv /\ GoneInv /\ h.todo \in SUBSET Ids /\ h.imported \in SUBSET Ids
  BY DEF Inv, TypeOK, Handler
<1>4. h.id \notin h.imported
  BY <1>1, <1>2, <1>3 DEF StageInv, BatchInv
<1>5. StageInv'
  BY <1>1, <1>2, <1>3, Zenon DEF Undoes, StageInv, Importing
<1>6. BatchInv'
  BY <1>1, <1>2, <1>3 DEF Undoes, BatchInv, Importing
<1>7. UndoneInv'
  <2> SUFFICES ASSUME ~disturbed, ~botched', before.mem = before.disk, NEW i \in Ids
      PROVE /\ i \notin h'.imported /\ ~Midway(i)' =>
                 (mem'[i] = before.mem[i] /\ disk'[i] = before.disk[i]) \/ LeftOver(i)'
            /\ i \notin h'.imported =>
                 \/ files[i] = before.files[i]
                 \/ status'[i] = "rolled_back" /\ before.files[i] # NoFiles[i]
            /\ i \in h'.imported /\ before.files[i] = NoFiles[i] =>
                 /\ \A m \in Metas : files[i][m] = None \/ ~files[i][m].disabled
                 /\ (i = h'.id /\ h'.stage = "unstore") => files[i] = NoFiles[i]
    BY DEF UndoneInv, Undoes, Midway, LeftOver
  <2>1. /\ ~botched
        /\ \A j \in Ids \ {h.id} : mem'[j] = mem[j] /\ disk'[j] = disk[j]
        /\ (mem'[h.id] = before.mem[h.id] /\ disk'[h.id] = before.disk[h.id]) \/ LeftOver(h.id)'
    <3>1. ASSUME ImportsLegacy(h.id) PROVE ImportsLegacy(h.id)' /\ h'.stage = "error"
      BY <3>1, <1>1, Zenon DEF ImportsLegacy, Undoes
    <3>2. /\ ~botched
          /\ \A j \in Ids \ {h.id} : mem'[j] = mem[j] /\ disk'[j] = disk[j]
          /\ \/ mem'[h.id] = before.mem[h.id] /\ disk'[h.id] = before.disk[h.id]
             \/ ImportsLegacy(h.id) /\ mem'[h.id] = disk'[h.id]
      BY DEF Undoes
    <3>3. h'.id = h.id
      BY <1>1
    <3> QED
      BY <3>1, <3>2, <3>3, Zenon DEF LeftOver
  <2>2. h.kind \in {"import", "batch"} /\ h.stage # "ok"
    BY <1>1, <1>2
  <2>3. /\ i \notin h.imported /\ ~Midway(i) => mem[i] = before.mem[i] /\ disk[i] = before.disk[i]
        /\ i \notin h.imported =>
             \/ files[i] = before.files[i]
             \/ status[i] = "rolled_back" /\ before.files[i] # NoFiles[i]
        /\ i \in h.imported /\ before.files[i] = NoFiles[i] =>
             \A m \in Metas : files[i][m] = None \/ ~files[i][m].disabled
    BY <2>1, <2>2, <1>2, <1>3 DEF UndoneInv, LeftOver, Importing
  <2>4. i # h.id => ~Midway(i) /\ mem'[i] = mem[i] /\ disk'[i] = disk[i]
    BY <2>1 DEF Midway
  <2>5. h'.stage # "unstore"
    BY <1>1
  <2>6. status[i] = "rolled_back" => status'[i] = "rolled_back"
    BY <1>1
  <2> QED
    BY <2>1, <2>3, <2>4, <2>5, <2>6, <1>1
<1>8. StepInv'
  <2>1. h'.stage \in {"error", "next", "unsync"} /\ h'.kind \notin {"reconcile", "refresh"}
    BY <1>1
  <2>2. ASSUME h.kind = "batch", ~disturbed, NEW i \in h.imported
        PROVE  \E m \in Metas : InStep(i, m)'
    <3>1. PICK m \in Metas : InStep(i, m)
      BY <2>2, <1>2, <1>3 DEF StepInv
    <3>2. mem'[i] = mem[i] /\ disk'[i] = disk[i] /\ files' = files
      BY <2>2, <1>3, <1>4 DEF Undoes
    <3> QED
      BY <3>1, <3>2 DEF InStep
  <2> QED
    BY <2>1, <2>2, <1>1 DEF StepInv, Returned, Undoes
<1>9. GoneInv'
  <2>1. h'.stage # "unstore"
    BY <1>1
  <2>2. ASSUME h.kind = "batch", ~disturbed, NEW i \in Ids, status'[i] = "rolled_back"
        PROVE  mem'[i] = None /\ disk'[i] = None /\ Hidden(i)'
    <3>1. status[i] = "rolled_back" /\ status[h.id] = "ready"
      BY <2>2, <1>1, <1>2, <1>3 DEF BatchInv
    <3>2. mem'[i] = mem[i] /\ disk'[i] = disk[i] /\ files' = files
      BY <3>1, <2>2 DEF Undoes
    <3> QED
      BY <3>1, <3>2, <2>2, <1>3 DEF GoneInv, Hidden
  <2> QED
    BY <2>1, <2>2, <1>1 DEF GoneInv, Undoes
<1>10. DeleteInv'
  BY <1>1, NotDelete
<1> QED
  BY <1>5, <1>6, <1>7, <1>8, <1>9, <1>10 DEF Rest

-----------------------------------------------------------------------------
(* Imports and batches                                                     *)

LEMMA ImportInv ==
    ASSUME Inv, ImportWithMetadata
    PROVE  Rest'
<1>0. /\ StageInv /\ BatchInv /\ UndoneInv /\ StepInv /\ GoneInv /\ TypeOK
      /\ h.todo \in SUBSET Ids /\ h.imported \in SUBSET Ids
  BY DEF Inv, TypeOK, Handler
<1>1. h.id \in Ids /\ h.meta \in Metas /\ h.kind \in {"import", "batch"} /\ h.stage = "store"
  BY <1>0 DEF ImportWithMetadata, StageInv, Importing
<1>2. PICK k \in unused :
        LET r == [key |-> k, meta |-> h.meta] IN
           \/ Stored(h.id, r) /\ Goto("sync") /\ UNCHANGED <<status, botched>>
           \/ StoreFailed(h.id, r) /\ Failed(h.id)
  BY DEF ImportWithMetadata
<1>3. PICK r : r = [key |-> k, meta |-> h.meta]
  BY Zenon
<1>4. r # None
  BY <1>0, <1>1, <1>3, RecordAssumption DEF TypeOK, Record
<1>5. UNCHANGED <<files, cache, starting, before, disturbed>>
  BY DEF ImportWithMetadata, history
<1>6. h.id \notin h.imported /\ (h.kind = "batch" => status[h.id] = "ready")
  BY <1>0, <1>1 DEF StageInv, BatchInv, Importing
<1>7. CASE Stored(h.id, r) /\ Goto("sync") /\ UNCHANGED <<status, botched>>
  <2>1. /\ h'.stage = "sync" /\ h'.kind = h.kind /\ h'.id = h.id /\ h'.previous = h.previous /\ h'.meta = h.meta
        /\ h'.todo = h.todo /\ h'.imported = h.imported
    BY <1>0, <1>7, GotoFields
  <2>2. /\ mem'[h.id] = r /\ disk'[h.id] = r
        /\ \A j \in Ids \ {h.id} : mem'[j] = mem[j] /\ disk'[j] = disk[j]
    BY <1>0, <1>1, <1>7 DEF Stored, TypeOK
  <2>3. StageInv'
    BY <2>1, <1>0, <1>1, <1>5 DEF StageInv, Importing
  <2>4. BatchInv'
    BY <2>1, <1>0, <1>1, <1>5, <1>7, Zenon DEF BatchInv, Importing
  <2>5. UndoneInv'
    BY <2>1, <2>2, <1>0, <1>1, <1>5, <1>7 DEF UndoneInv, Midway, LeftOver
  <2>6. StepInv'
    <3>1. ASSUME h.kind = "batch", ~disturbed, NEW i \in h.imported
          PROVE  \E m \in Metas : InStep(i, m)'
      <4>1. PICK m \in Metas : InStep(i, m)
        BY <3>1, <1>0, <1>1 DEF StepInv, Importing
      <4> QED
        BY <3>1, <4>1, <2>2, <1>0, <1>5, <1>6 DEF InStep
    <3> QED
      BY <3>1, <2>1, <2>2, <1>1, <1>4, <1>5 DEF StepInv, Returned
  <2>7. GoneInv'
    BY <2>1, <2>2, <1>0, <1>1, <1>5, <1>6, <1>7 DEF GoneInv, Hidden
  <2>8. DeleteInv'
    BY <2>1, <1>1, NotDelete
  <2> QED
    BY <2>3, <2>4, <2>5, <2>6, <2>7, <2>8 DEF Rest
<1>8. CASE StoreFailed(h.id, r) /\ Failed(h.id)
  <2>1. \A j \in Ids \ {h.id} : mem'[j] = mem[j] /\ disk'[j] = disk[j]
    <3>1. UNCHANGED mem /\ (UNCHANGED disk \/ disk' = [disk EXCEPT ![h.id] = r])
      BY <1>8, Zenon DEF StoreFailed
    <3> QED
      BY <3>1, <1>0 DEF TypeOK
  <2>2. ~botched' => ~botched /\ UNCHANGED <<mem, disk>>
    BY <1>8, Zenon DEF StoreFailed
  <2>3. ~botched /\ ~disturbed /\ before.mem = before.disk =>
          mem[h.id] = before.mem[h.id] /\ disk[h.id] = before.disk[h.id]
    BY <1>0, <1>1, <1>6 DEF UndoneInv, Midway, LeftOver
  <2>4. Undoes
    BY <2>1, <2>2, <2>3, <1>1, <1>5, <1>8 DEF Undoes, Importing
  <2> QED
    BY <2>4, UndoesInv
<1> QED
  BY <1>2, <1>3, <1>7, <1>8

LEMMA SyncInv ==
    ASSUME Inv, Sync
    PROVE  Rest'
<1>0. /\ StageInv /\ BatchInv /\ UndoneInv /\ StepInv /\ GoneInv /\ TypeOK
      /\ h.todo \in SUBSET Ids /\ h.imported \in SUBSET Ids
  BY DEF Inv, TypeOK, Handler
<1>1. h.id \in Ids /\ h.meta \in Metas /\ h.kind \in {"import", "batch"} /\ h.stage = "sync"
  BY <1>0, Zenon DEF Sync, StageInv, Importing
<1>2. mem[h.id] # None /\ mem[h.id] = disk[h.id] /\ mem[h.id].key \in Keys
  BY <1>0, <1>1 DEF StepInv, TypeOK, Record
<1>3. UNCHANGED <<mem, disk, cache, starting, before, disturbed>>
  BY DEF Sync, history, environment
<1>4. h.id \notin h.imported /\ (h.kind = "batch" => status[h.id] = "ready")
  BY <1>0, <1>1 DEF StageInv, BatchInv, Importing
<1>5. CASE UpsertIdentity(h.id, h.meta, mem[h.id].key) /\ Committed(h.id)
  <2>1. PICK f \in File : f = Upserted(h.id, h.meta, mem[h.id].key)
    BY <1>0, <1>1, <1>2, UpsertedType
  <2>2. files' = [files EXCEPT ![h.id][h.meta] = f] /\ UNCHANGED botched
    BY <1>5, <2>1 DEF UpsertIdentity, SetFile
  <2>3. \A j \in Ids \ {h.id} : files'[j] = files[j]
    BY <2>2, <1>0 DEF TypeOK
  <2>4. InStep(h.id, h.meta)'
    <3>1. files'[h.id][h.meta] = f
      BY <2>2, <1>0, <1>1 DEF TypeOK
    <3>2. f # None /\ f.key = mem[h.id].key
      BY <2>1, RecordAssumption DEF Upserted
    <3>3. mem'[h.id] # None /\ mem'[h.id] = disk'[h.id] /\ files'[h.id][h.meta] # None
          /\ files'[h.id][h.meta].key = mem'[h.id].key
      BY <3>1, <3>2, <1>2, <1>3
    <3>4. CASE h.kind = "import"
      <4>1. h'.id = h.id /\ h'.meta = h.meta
        BY <3>4, <1>0, <1>5, GotoFields DEF Committed
      <4> QED
        BY <3>3, <4>1 DEF InStep
    <3>5. CASE h.kind # "import"
      <4>1. h'.id = h.id /\ h'.meta = h.meta
        BY <3>5, <1>0, <1>5, Zenon DEF Committed, TypeOK, Handler
      <4> QED
        BY <3>3, <4>1 DEF InStep
    <3> QED
      BY <3>4, <3>5
  <2>5. CASE h.kind = "import"
    <3>1. /\ h'.stage = "ok" /\ h'.kind = h.kind /\ h'.id = h.id /\ h'.previous = h.previous /\ h'.meta = h.meta
          /\ h'.todo = h.todo /\ h'.imported = h.imported /\ UNCHANGED status
      BY <2>5, <1>0, <1>5, GotoFields DEF Committed
    <3>2. StageInv'
      BY <3>1, <2>5, <1>0, <1>1, <1>3, Zenon DEF StageInv, Importing
    <3>3. BatchInv' /\ UndoneInv' /\ GoneInv' /\ DeleteInv'
      BY <3>1, <2>5, Zenon DEF BatchInv, UndoneInv, GoneInv, DeleteInv
    <3>4. StepInv'
      BY <3>1, <2>4, <2>5 DEF StepInv, Returned
    <3> QED
      BY <3>2, <3>3, <3>4 DEF Rest
  <2>6. CASE h.kind = "batch"
    <3>1. h' = [h EXCEPT !.stage = "next", !.imported = h.imported \cup {h.id}]
          /\ status' = [status EXCEPT ![h.id] = "imported"]
      BY <2>6, <1>5 DEF Committed
    <3>2. /\ h'.stage = "next" /\ h'.kind = "batch" /\ h'.id = h.id /\ h'.previous = h.previous
          /\ h'.todo = h.todo /\ h'.imported = h.imported \cup {h.id}
      BY <2>6, <3>1, <1>0 DEF TypeOK, Handler
    <3>3. status'[h.id] = "imported" /\ \A j \in Ids \ {h.id} : status'[j] = status[j]
      BY <3>1, <1>0, <1>1 DEF TypeOK
    <3>4. StageInv'
      BY <3>2, <2>6, <1>0, <1>1, <1>3, Zenon DEF StageInv, Importing
    <3>5. BatchInv'
      BY <3>2, <3>3, <2>6, <1>0, <1>1, <1>3, SMTT(30) DEF BatchInv, Importing
    <3>6. UndoneInv'
      <4>1. ASSUME ~disturbed, ~botched, before.mem = before.disk, before.files[h.id] = NoFiles[h.id],
                   NEW m \in Metas
            PROVE  files'[h.id][m] = None \/ ~files'[h.id][m].disabled
        <5>1. files[h.id] = NoFiles[h.id]
          BY <4>1, <1>0, <1>1, <1>4, <2>6 DEF UndoneInv
        <5>2. \A n \in Metas : files[h.id][n] = None
          BY <5>1, <1>1 DEF NoFiles
        <5>3. ~f.disabled
          BY <5>2, <2>1, <1>1, Zenon DEF Upserted
        <5> QED
          BY <5>2, <5>3, <2>2, <1>0, <1>1, Zenon DEF TypeOK
      <4> QED
        BY <4>1, <3>2, <3>3, <2>2, <2>3, <2>6, <1>0, <1>1, <1>3, <1>4, SMTT(30) DEF UndoneInv, Midway, LeftOver
    <3>7. StepInv'
      <4>1. ASSUME ~disturbed, NEW i \in h.imported
            PROVE  \E m \in Metas : InStep(i, m)'
        <5>1. PICK m \in Metas : InStep(i, m)
          BY <4>1, <2>6, <1>0, <1>1 DEF StepInv, Importing
        <5> QED
          BY <5>1, <4>1, <2>3, <1>0, <1>3, <1>4 DEF InStep
      <4>2. \E m \in Metas : InStep(h.id, m)'
        <5>1. h'.meta = h.meta /\ h'.id = h.id
          BY <2>6, <3>1, <1>0 DEF TypeOK, Handler
        <5> QED
          BY <5>1, <2>4, <1>1 DEF InStep
      <4> QED
        BY <4>1, <4>2, <3>2, <1>3 DEF StepInv, Returned, InStep
    <3>8. GoneInv'
      BY <3>2, <3>3, <2>3, <2>6, <1>0, <1>3, Zenon DEF GoneInv, Hidden
    <3>9. DeleteInv'
      BY <3>2, NotDelete
    <3> QED
      BY <3>4, <3>5, <3>6, <3>7, <3>8, <3>9 DEF Rest
  <2> QED
    BY <2>5, <2>6, <1>1
<1>6. CASE UpsertFailed(h.id, h.meta, mem[h.id].key) /\ Goto("undo") /\ UNCHANGED status
  <2>1. /\ h'.stage = "undo" /\ h'.kind = h.kind /\ h'.id = h.id /\ h'.previous = h.previous /\ h'.meta = h.meta
        /\ h'.todo = h.todo /\ h'.imported = h.imported /\ status' = status
    BY <1>0, <1>6, GotoFields
  <2>2. ~botched' => ~botched /\ UNCHANGED files
    BY <1>6, Zenon DEF UpsertFailed
  <2>3. \A j \in Ids \ {h.id} : files'[j] = files[j]
    <3>1. UNCHANGED files \/ \E f : files' = [files EXCEPT ![h.id][h.meta] = f]
      BY <1>6, Zenon DEF UpsertFailed, SetFile
    <3> QED
      BY <3>1, <1>0, Zenon DEF TypeOK
  <2>4. StageInv'
    BY <2>1, <1>0, <1>1, <1>3, Zenon DEF StageInv, Importing
  <2>5. BatchInv'
    BY <2>1, <1>0, <1>1, <1>3, Zenon DEF BatchInv, Importing
  <2>6. UndoneInv'
    BY <2>1, <2>2, <1>0, <1>1, <1>3 DEF UndoneInv, Midway, LeftOver
  <2>7. StepInv'
    <3>1. ASSUME h.kind = "batch", ~disturbed, NEW i \in h.imported
          PROVE  \E m \in Metas : InStep(i, m)'
      <4>1. PICK m \in Metas : InStep(i, m)
        BY <3>1, <1>0, <1>1 DEF StepInv, Importing
      <4> QED
        BY <3>1, <4>1, <2>3, <1>0, <1>3, <1>4 DEF InStep
    <3>2. mem'[h'.id] # None /\ mem'[h'.id] = disk'[h'.id]
      BY <2>1, <1>2, <1>3
    <3> QED
      BY <3>1, <3>2, <2>1, <1>1, <1>3, Zenon DEF StepInv, Returned
  <2>8. GoneInv'
    BY <2>1, <2>3, <1>0, <1>1, <1>3, <1>4 DEF GoneInv, Hidden
  <2>9. DeleteInv'
    BY <2>1, <1>1, NotDelete
  <2> QED
    BY <2>4, <2>5, <2>6, <2>7, <2>8, <2>9 DEF Rest
<1> QED
  BY <1>5, <1>6 DEF Sync

LEMMA UndoImportInv ==
    ASSUME Inv, UndoImport
    PROVE  Rest'
<1>0. StageInv /\ PreviousInv /\ BatchInv /\ UndoneInv /\ StepInv /\ TypeOK
  BY DEF Inv
<1>1. h.id \in Ids /\ h.kind \in {"import", "batch"} /\ h.stage = "undo" /\ Failed(h.id)
  BY <1>0, Zenon DEF UndoImport, StageInv, Importing
<1>2. UNCHANGED <<files, cache, starting, before, disturbed>>
  BY DEF UndoImport, environment, history
<1>3. CASE h.previous = None
  <2>1. before.mem[h.id] = None
    BY <1>0, <1>1, <1>3, Zenon DEF PreviousInv, BatchInv, Importing
  <2>2. \A j \in Ids \ {h.id} : mem'[j] = mem[j] /\ disk'[j] = disk[j]
    BY <1>0, <1>1, <1>3 DEF UndoImport, Erased, EraseFailed, TypeOK
  <2>3. ~botched' => ~botched /\ Erased(h.id)
    BY <1>0, <1>3, Zenon DEF UndoImport
  <2>4. ~botched' => mem'[h.id] = None /\ disk'[h.id] = None
    BY <2>3, <1>0, <1>1 DEF Erased, TypeOK
  <2>5. Undoes
    BY <2>1, <2>2, <2>3, <2>4, <1>1, <1>2 DEF Undoes, Importing
  <2> QED
    BY <2>5, UndoesInv
<1>4. CASE h.previous # None
  <2>1. h.kind = "import"
    BY <1>0, <1>1, <1>4, Zenon DEF StageInv
  <2>2. h.owner \in Ids /\ h.previous = before.mem[h.owner] /\ (h.owner = h.id \/ ImportsLegacy(h.id))
    BY <2>1, <1>0, <1>1, <1>4, Zenon DEF PreviousInv
  <2>3. ~botched' => ~botched /\ Stored(h.owner, h.previous)
    BY <1>0, <1>4, Zenon DEF UndoImport
  <2>4. ~botched' => /\ mem'[h.owner] = h.previous /\ disk'[h.owner] = h.previous
                     /\ \A j \in Ids \ {h.owner} : mem'[j] = mem[j] /\ disk'[j] = disk[j]
    BY <2>2, <2>3, <1>0 DEF Stored, TypeOK
  <2>5. ASSUME ~botched', ~disturbed, before.mem = before.disk, NEW j \in Ids \ {h.id}
        PROVE  mem'[j] = mem[j] /\ disk'[j] = disk[j]
    <3>1. mem[j] = before.mem[j] /\ disk[j] = before.mem[j]
      BY <2>1, <2>3, <2>5, <1>0, <1>1 DEF UndoneInv, StageInv, Midway, LeftOver
    <3> QED
      BY <3>1, <2>2, <2>4, <2>5
  <2>6. ASSUME ~botched', before.mem = before.disk
        PROVE  \/ mem'[h.id] = before.mem[h.id] /\ disk'[h.id] = before.disk[h.id]
               \/ ImportsLegacy(h.id) /\ mem'[h.id] = disk'[h.id]
    <3>1. CASE h.owner = h.id
      BY <3>1, <2>2, <2>4, <2>6
    <3>2. CASE h.owner # h.id
      <4>1. mem[h.id] = disk[h.id]
        BY <1>0, <1>1 DEF StepInv
      <4> QED
        BY <3>2, <4>1, <2>2, <2>4, <2>6, <1>1
    <3> QED
      BY <3>1, <3>2
  <2>7. Undoes
    BY <2>1, <2>3, <2>5, <2>6, <1>1, <1>2 DEF Undoes, Importing
  <2> QED
    BY <2>7, UndoesInv
<1> QED
  BY <1>3, <1>4

LEMMA NextItemInv ==
    ASSUME Inv, NextItem
    PROVE  Rest'
<1>0. /\ StageInv /\ BatchInv /\ UndoneInv /\ StepInv /\ GoneInv /\ TypeOK
      /\ h.todo \in SUBSET Ids /\ h.imported \in SUBSET Ids
  BY DEF Inv, TypeOK, Handler
<1>1. h.kind = "batch" /\ h.stage = "next"
  BY <1>0, Zenon DEF NextItem, StageInv
<1>2. UNCHANGED <<mem, disk, files, cache, starting, before, disturbed, botched>>
  BY Zenon DEF NextItem, environment, history
<1>3. CASE h.todo = {}
  <2>1. /\ h'.stage = "ok" /\ h'.kind = h.kind /\ h'.id = h.id /\ h'.previous = h.previous /\ h'.meta = h.meta
        /\ h'.todo = h.todo /\ h'.imported = h.imported /\ UNCHANGED status
    BY <1>0, <1>3, GotoFields DEF NextItem
  <2>2. StageInv'
    BY <2>1, <1>0, <1>1, <1>2, Zenon DEF StageInv, Importing
  <2>3. BatchInv'
    BY <2>1, <1>0, <1>1, <1>2, Zenon DEF BatchInv, Importing
  <2>4. UndoneInv' /\ GoneInv' /\ DeleteInv'
    BY <2>1, <1>0, <1>1, <1>2, Zenon DEF UndoneInv, GoneInv, Hidden, DeleteInv, LeftOver
  <2>5. StepInv'
    BY <2>1, <1>0, <1>1, <1>2, Zenon DEF StepInv, Returned, InStep
  <2> QED
    BY <2>2, <2>3, <2>4, <2>5 DEF Rest
<1>4. CASE h.todo # {}
  <2>0. PICK i \in h.todo :
          \/ /\ h' = [h EXCEPT !.stage = "store", !.id = i, !.meta = cache[i], !.todo = h.todo \ {i}]
             /\ UNCHANGED status
          \/ /\ h' = [h EXCEPT !.todo = h.todo \ {i}]
             /\ status' = [status EXCEPT ![i] = "duplicate"]
    BY <1>4, Zenon DEF NextItem
  <2>1. i \in Ids /\ cache[i] \in Metas /\ status[i] = "ready" /\ before.mem[i] = None
    BY <2>0, <1>0, <1>1 DEF BatchInv
  <2>2. CASE /\ h' = [h EXCEPT !.stage = "store", !.id = i, !.meta = cache[i], !.todo = h.todo \ {i}]
             /\ UNCHANGED status
    <3>1. /\ h'.stage = "store" /\ h'.kind = "batch" /\ h'.id = i /\ h'.previous = h.previous /\ h'.meta = cache[i]
          /\ h'.todo = h.todo \ {i} /\ h'.imported = h.imported /\ UNCHANGED status
      BY <2>2, <1>0, <1>1 DEF TypeOK, Handler
    <3>2. StageInv'
      BY <3>1, <2>1, <1>0, <1>1, <1>2, Zenon DEF StageInv, Importing
    <3>3. BatchInv'
      BY <3>1, <2>1, <1>0, <1>1, <1>2, Zenon DEF BatchInv, Importing
    <3>4. UndoneInv'
      BY <3>1, <1>0, <1>1, <1>2, Zenon DEF UndoneInv, Midway, LeftOver
    <3>5. StepInv'
      BY <3>1, <1>0, <1>1, <1>2, Zenon DEF StepInv, Returned, InStep
    <3>6. GoneInv' /\ DeleteInv'
      BY <3>1, <1>0, <1>1, <1>2, Zenon DEF GoneInv, Hidden, DeleteInv
    <3> QED
      BY <3>2, <3>3, <3>4, <3>5, <3>6 DEF Rest
  <2>3. CASE /\ h' = [h EXCEPT !.todo = h.todo \ {i}]
             /\ status' = [status EXCEPT ![i] = "duplicate"]
    <3>1. /\ h'.stage = "next" /\ h'.kind = "batch" /\ h'.id = h.id /\ h'.previous = h.previous
          /\ h'.todo = h.todo \ {i} /\ h'.imported = h.imported
      BY <2>3, <1>0, <1>1 DEF TypeOK, Handler
    <3>2. status'[i] = "duplicate" /\ \A j \in Ids \ {i} : status'[j] = status[j]
      BY <2>1, <2>3, <1>0 DEF TypeOK
    <3>3. StageInv'
      BY <3>1, <1>0, <1>1, <1>2, Zenon DEF StageInv, Importing
    <3>4. BatchInv'
      BY <3>1, <3>2, <2>1, <1>0, <1>1, <1>2 DEF BatchInv, Importing
    <3>5. UndoneInv'
      BY <3>1, <3>2, <2>1, <1>0, <1>1, <1>2 DEF UndoneInv, Midway, LeftOver
    <3>6. StepInv'
      BY <3>1, <1>0, <1>1, <1>2, Zenon DEF StepInv, Returned, InStep
    <3>7. GoneInv' /\ DeleteInv'
      BY <3>1, <3>2, <1>0, <1>1, <1>2 DEF GoneInv, Hidden, DeleteInv
    <3> QED
      BY <3>3, <3>4, <3>5, <3>6, <3>7 DEF Rest
  <2> QED
    BY <2>0, <2>2, <2>3, Zenon
<1> QED
  BY <1>3, <1>4

LEMMA RollbackSyncInv ==
    ASSUME Inv, RollbackSync
    PROVE  Rest'
<1>0. /\ StageInv /\ BatchInv /\ UndoneInv /\ GoneInv /\ TypeOK
      /\ h.todo \in SUBSET Ids /\ h.imported \in SUBSET Ids
  BY DEF Inv, TypeOK, Handler
<1>1. h.kind = "batch" /\ h.stage = "unsync" /\ h.todo = {}
  BY <1>0, Zenon DEF RollbackSync, StageInv
<1>2. UNCHANGED <<mem, disk, cache, starting, before, disturbed>>
  BY Zenon DEF RollbackSync, environment, history
<1>3. CASE h.imported = {}
  <2>1. /\ h'.stage = "error" /\ h'.kind = h.kind /\ h'.id = h.id /\ h'.previous = h.previous /\ h'.meta = h.meta
        /\ h'.todo = h.todo /\ h'.imported = h.imported /\ UNCHANGED <<files, status, botched>>
    BY <1>0, <1>3, GotoFields DEF RollbackSync
  <2>2. StageInv'
    BY <2>1, <1>0, <1>1, <1>2, <1>3, Zenon DEF StageInv, Importing
  <2>3. BatchInv'
    BY <2>1, <1>0, <1>1, <1>2, Zenon DEF BatchInv, Importing
  <2>4. UndoneInv' /\ GoneInv' /\ DeleteInv'
    BY <2>1, <1>0, <1>1, <1>2, <1>3, Zenon DEF UndoneInv, GoneInv, Hidden, DeleteInv, Midway, LeftOver
  <2>5. StepInv'
    BY <2>1, <1>1 DEF StepInv, Returned, Importing
  <2> QED
    BY <2>2, <2>3, <2>4, <2>5 DEF Rest
<1>4. CASE h.imported # {}
  <2>0. PICK i \in h.imported :
          \/ /\ RemoveIdentity(i)
             /\ h' = [h EXCEPT !.stage = "unstore", !.id = i]
             /\ UNCHANGED <<status, botched>>
          \/ /\ \E gone \in SUBSET Metas : Without(i, gone)
             /\ h' = [h EXCEPT !.imported = h.imported \ {i}]
             /\ status' = [status EXCEPT ![i] = "rollback_failed"]
             /\ botched' = TRUE
    BY <1>4, Zenon DEF RollbackSync
  <2>1. i \in Ids /\ status[i] = "imported" /\ before.mem[i] = None
    BY <2>0, <1>0, <1>1 DEF BatchInv
  <2>2. CASE RemoveIdentity(i) /\ h' = [h EXCEPT !.stage = "unstore", !.id = i] /\ UNCHANGED <<status, botched>>
    <3>1. /\ h'.stage = "unstore" /\ h'.kind = "batch" /\ h'.id = i /\ h'.previous = h.previous
          /\ h'.todo = {} /\ h'.imported = h.imported
      BY <2>2, <1>0, <1>1 DEF TypeOK, Handler
    <3>2. PICK hidden \in SUBSET {m \in Metas : files[i][m] # None /\ files[i][m].disabled} :
            files' = [files EXCEPT ![i] = [m \in Metas |-> IF m \in Metas \ hidden THEN None ELSE files[i][m]]]
      BY <2>2, Zenon DEF RemoveIdentity, Without
    <3>3. \A j \in Ids \ {i} : files'[j] = files[j]
      BY <3>2, <1>0 DEF TypeOK
    <3>4. files'[i] = [m \in Metas |-> IF m \in Metas \ hidden THEN None ELSE files[i][m]]
      BY <3>2, <2>1, <1>0 DEF TypeOK
    <3>5. Hidden(i)'
      BY <3>4 DEF Hidden
    <3>6. StageInv'
      BY <3>1, <2>0, <1>0, <1>1, <1>2 DEF StageInv, Importing
    <3>7. BatchInv'
      BY <3>1, <2>2, <1>0, <1>1, <1>2 DEF BatchInv, Importing
    <3>8. UndoneInv'
      <4>1. ASSUME ~disturbed, ~botched, before.mem = before.disk, before.files[i] = NoFiles[i]
            PROVE  files'[i] = NoFiles[i] /\ \A m \in Metas : files'[i][m] = None
        <5>1. \A m \in Metas : files[i][m] = None \/ ~files[i][m].disabled
          BY <4>1, <2>0, <2>1, <1>0, <1>1 DEF UndoneInv
        <5>2. hidden = {}
          BY <5>1, <3>2
        <5> QED
          BY <5>2, <3>4, <2>1 DEF NoFiles
      <4> QED
        BY <4>1, <3>1, <3>3, <2>0, <2>1, <2>2, <1>0, <1>1, <1>2 DEF UndoneInv, Midway, LeftOver
    <3>9. StepInv'
      BY <3>1, Zenon DEF StepInv, Returned, Importing
    <3>10. GoneInv'
      BY <3>1, <3>3, <3>5, <2>1, <2>2, <1>0, <1>1, <1>2 DEF GoneInv, Hidden
    <3>11. DeleteInv'
      BY <3>1, NotDelete
    <3> QED
      BY <3>6, <3>7, <3>8, <3>9, <3>10, <3>11 DEF Rest
  <2>3. CASE /\ \E gone \in SUBSET Metas : Without(i, gone)
             /\ h' = [h EXCEPT !.imported = h.imported \ {i}]
             /\ status' = [status EXCEPT ![i] = "rollback_failed"]
             /\ botched' = TRUE
    <3>1. /\ h'.stage = "unsync" /\ h'.kind = "batch" /\ h'.id = h.id /\ h'.previous = h.previous
          /\ h'.todo = {} /\ h'.imported = h.imported \ {i}
      BY <2>3, <1>0, <1>1 DEF TypeOK, Handler
    <3>2. \A j \in Ids \ {i} : files'[j] = files[j]
      BY <2>3, <1>0 DEF TypeOK, Without
    <3>3. status'[i] = "rollback_failed" /\ \A j \in Ids \ {i} : status'[j] = status[j]
      BY <2>1, <2>3, <1>0, SMTT(30) DEF TypeOK
    <3>4. StageInv'
      BY <3>1, <1>0, <1>1, <1>2, Zenon DEF StageInv, Importing
    <3>5. BatchInv'
      BY <3>1, <3>3, <1>0, <1>1, <1>2, Zenon DEF BatchInv, Importing
    <3>6. UndoneInv'
      BY <2>3 DEF UndoneInv
    <3>7. StepInv'
      BY <3>1 DEF StepInv, Returned, Importing
    <3>8. GoneInv'
      BY <3>1, <3>2, <3>3, <1>0, <1>1, <1>2 DEF GoneInv, Hidden
    <3>9. DeleteInv'
      BY <3>1, NotDelete
    <3> QED
      BY <3>4, <3>5, <3>6, <3>7, <3>8, <3>9 DEF Rest
  <2> QED
    BY <2>0, <2>2, <2>3, Zenon
<1> QED
  BY <1>3, <1>4

LEMMA RollbackStoreInv ==
    ASSUME Inv, RollbackStore
    PROVE  Rest'
<1>0. /\ StageInv /\ BatchInv /\ UndoneInv /\ GoneInv /\ TypeOK
      /\ h.todo \in SUBSET Ids /\ h.imported \in SUBSET Ids
  BY DEF Inv, TypeOK, Handler
<1>1. h.kind = "batch" /\ h.stage = "unstore" /\ h.todo = {} /\ h.id \in h.imported
  BY <1>0 DEF RollbackStore, StageInv
<1>2. UNCHANGED <<files, cache, starting, before, disturbed>>
  BY DEF RollbackStore, environment, history
<1>3. h.id \in Ids /\ status[h.id] = "imported" /\ before.mem[h.id] = None
  BY <1>0, <1>1 DEF BatchInv
<1>4. /\ h'.stage = "unsync" /\ h'.kind = "batch" /\ h'.id = h.id /\ h'.previous = h.previous
      /\ h'.todo = {} /\ h'.imported = h.imported \ {h.id}
  BY <1>0, <1>1 DEF RollbackStore, TypeOK, Handler
<1>5. \A j \in Ids \ {h.id} : mem'[j] = mem[j] /\ disk'[j] = disk[j] /\ status'[j] = status[j]
  BY <1>0, <1>3 DEF RollbackStore, Erased, EraseFailed, TypeOK
<1>6. status'[h.id] \in {"rolled_back", "rollback_failed"}
  BY <1>0, <1>3 DEF RollbackStore, TypeOK
<1>7. status'[h.id] = "rolled_back" \/ ~botched' => Erased(h.id) /\ UNCHANGED botched
  BY <1>0, <1>3 DEF RollbackStore, TypeOK
<1>8. Erased(h.id) => mem'[h.id] = None /\ disk'[h.id] = None
  BY <1>0, <1>3 DEF Erased, TypeOK
<1>9. StageInv'
  BY <1>0, <1>1, <1>2, <1>4, Zenon DEF StageInv, Importing
<1>10. BatchInv'
  BY <1>0, <1>1, <1>2, <1>4, <1>5, <1>6, SMTT(30) DEF BatchInv, Importing
<1>11. UndoneInv'
  <2>1. ~botched' => status'[h.id] = "rolled_back" /\ ~botched
    BY <1>0, <1>3, <1>7 DEF RollbackStore, TypeOK
  <2> QED
    BY <2>1, <1>0, <1>1, <1>2, <1>3, <1>4, <1>5, <1>7, <1>8 DEF UndoneInv, Midway, LeftOver
<1>12. StepInv'
  BY <1>4, Zenon DEF StepInv, Returned, Importing
<1>13. GoneInv'
  BY <1>0, <1>1, <1>2, <1>3, <1>4, <1>5, <1>7, <1>8, ZenonT(30) DEF GoneInv, Hidden
<1>14. DeleteInv'
  BY <1>4, NotDelete
<1> QED
  BY <1>9, <1>10, <1>11, <1>12, <1>13, <1>14 DEF Rest

LEMMA HandleImportInv ==
    ASSUME Inv, NEW i \in Ids, HandleImport(i)
    PROVE  Rest'
<1>0. TypeOK
  BY DEF Inv
<1>9. PICK owner, previous : \E m \in Reported[i] :
        /\ Inspected(i, m)
        /\ Begin([Fresh("import", "store", i, previous) EXCEPT !.owner = owner, !.meta = m])
  BY Zenon DEF HandleImport
<1>1. PICK m \in Reported[i] :
        /\ Inspected(i, m)
        /\ Begin([Fresh("import", "store", i, previous) EXCEPT !.owner = owner, !.meta = m])
  BY <1>9
<1>2. m \in Metas
  BY <1>0, <1>1, InspectedType
<1>3. /\ h'.stage = "store" /\ h'.kind = "import" /\ h'.id = i /\ h'.meta = m
      /\ h'.todo = {} /\ h'.imported = {}
  BY <1>1 DEF Begin, Fresh
<1>4. /\ before' = [mem |-> mem, disk |-> disk, files |-> files]
      /\ starting' = {} /\ UNCHANGED <<mem, disk, files, status>>
  BY <1>1 DEF HandleImport, Begin
<1>5. StageInv'
  BY <1>2, <1>3, <1>4 DEF StageInv, Importing
<1>6. BatchInv' /\ GoneInv' /\ DeleteInv'
  BY <1>3, Zenon DEF BatchInv, GoneInv, DeleteInv
<1>7. UndoneInv'
  BY <1>3, <1>4, Zenon DEF UndoneInv, Midway, LeftOver
<1>8. StepInv'
  BY <1>3 DEF StepInv, Returned
<1> QED
  BY <1>5, <1>6, <1>7, <1>8 DEF Rest

LEMMA HandleBatchInv ==
    ASSUME Inv, NEW batch \in SUBSET Ids, NEW ready \in SUBSET Ids, NEW atomic \in BOOLEAN,
           HandleBatch(batch, ready, atomic)
    PROVE  Rest'
<1> DEFINE pending == {i \in batch : LookupByTokenAndAccount(i) = None}
           blocked == atomic /\ ready # pending
<1>0. TypeOK
  BY DEF Inv
<1>1. /\ h'.stage = (IF blocked THEN "error" ELSE "next") /\ h'.kind = "batch" /\ h'.previous = None
      /\ h'.todo = (IF blocked THEN {} ELSE ready) /\ h'.imported = {}
  BY DEF HandleBatch, Begin, Fresh
<1>2. /\ before' = [mem |-> mem, disk |-> disk, files |-> files]
      /\ starting' = {} /\ UNCHANGED <<mem, disk, files>>
  BY DEF HandleBatch, Begin
<1>3. \A i \in ready : i \in Ids /\ mem[i] = None /\ cache'[i] \in Metas
  <2> SUFFICES ASSUME NEW i \in ready PROVE i \in Ids /\ mem[i] = None /\ cache'[i] \in Metas
    OBVIOUS
  <2>0. i \in Ids /\ mem[i] = None
    <3>1. LookupByTokenAndAccount(i) = None
      BY DEF HandleBatch
    <3> QED
      BY <3>1, NoneAssumption DEF LookupByTokenAndAccount
  <2>1. cache'[i] \in IF cache[i] = None THEN Reported[i] ELSE {cache[i]}
    BY DEF HandleBatch
  <2>2. cache[i] \in Metas \cup {None} /\ Reported[i] \subseteq Metas
    BY <1>0, <2>0, ReportedAssumption DEF TypeOK
  <2> QED
    BY <2>0, <2>1, <2>2
<1>4. /\ \A i \in Ids : status'[i] \notin {"imported", "rolled_back"}
      /\ ~blocked => \A i \in ready : status'[i] = "ready"
  BY DEF HandleBatch
<1> HIDE DEF pending, blocked
<1>5. StageInv'
  BY <1>1, <1>2, Zenon DEF StageInv, Importing
<1>6. BatchInv'
  BY <1>1, <1>2, <1>3, <1>4, Zenon DEF BatchInv, Importing
<1>7. UndoneInv'
  BY <1>1, <1>2 DEF UndoneInv, Midway, LeftOver
<1>8. StepInv'
  BY <1>1 DEF StepInv, Returned
<1>9. GoneInv' /\ DeleteInv'
  BY <1>1, <1>4 DEF GoneInv, DeleteInv
<1> QED
  BY <1>5, <1>6, <1>7, <1>8, <1>9 DEF Rest

-----------------------------------------------------------------------------
(* The other handlers                                                      *)

LEMMA HandleIdentityInv ==
    ASSUME Inv, NEW i \in Ids,
           NEW kind \in {"delete", "disable", "refresh"}, NEW stage \in {"backup", "set", "route"},
           kind = "delete" <=> stage = "backup", kind = "disable" <=> stage = "set",
           HandleIdentity(i, kind, stage)
    PROVE  Rest'
<1>0. TypeOK
  BY DEF Inv
<1>1. h'.stage = stage /\ h'.kind = kind /\ h'.id = i /\ h'.previous = mem[i]
  BY Zenon DEF HandleIdentity, Begin, Fresh
<1>2. /\ before' = [mem |-> mem, disk |-> disk, files |-> files]
      /\ starting' = {} /\ UNCHANGED <<mem, disk, files>>
  BY DEF HandleIdentity, Begin, environment
<1>3. mem[i] \in Record
  BY <1>0 DEF HandleIdentity, TypeOK
<1>4. StageInv'
  BY <1>1, <1>2, <1>3, Zenon DEF StageInv, Importing
<1>5. BatchInv' /\ UndoneInv' /\ GoneInv'
  BY <1>1, Alone, SMTT(30)
<1>6. StepInv'
  BY <1>1, Zenon DEF StepInv, Returned
<1>7. DeleteInv'
  BY <1>1, <1>2, Zenon DEF DeleteInv
<1> QED
  BY <1>4, <1>5, <1>6, <1>7 DEF Rest

LEMMA ReconcileInv ==
    ASSUME Inv, NEW i \in Ids, Reconcile(i)
    PROVE  Rest'
<1>0. TypeOK /\ StageInv
  BY DEF Inv
<1>1. h'.stage = "route" /\ h'.kind = "reconcile" /\ h'.id = i /\ h'.previous = mem[i]
  BY Zenon DEF Reconcile, Begin, Fresh
<1>2. i \in starting /\ starting' = starting \ {i} /\ UNCHANGED <<mem, disk, files>>
  BY DEF Reconcile
<1>3. mem[i] \in Record /\ mem[i] = disk[i]
  BY <1>0, <1>2, Zenon DEF StageInv, TypeOK
<1>4. StageInv'
  BY <1>0, <1>1, <1>2, <1>3, Zenon DEF StageInv, Importing
<1>5. BatchInv' /\ UndoneInv' /\ GoneInv' /\ DeleteInv'
  BY <1>1, Alone, NotDelete
<1>6. StepInv'
  BY <1>1, <1>2, <1>3, Zenon DEF StepInv, Returned
<1> QED
  BY <1>4, <1>5, <1>6 DEF Rest

LEMMA BackupInv ==
    ASSUME Inv, Backup
    PROVE  Rest'
<1>0. TypeOK /\ StageInv /\ DeleteInv
  BY DEF Inv
<1>1. h.stage = "backup" /\ h.kind = "delete" /\ UNCHANGED <<mem, disk, files, starting, before, disturbed, botched>>
  BY <1>0 DEF Backup, StageInv, environment, history
<1>2. /\ h'.kind = h.kind /\ h'.id = h.id /\ h'.previous = h.previous
      /\ h'.stage \in {"error", "remove"} /\ (h'.stage = "remove" => h'.backup = disk[h.id])
  BY <1>0, Zenon DEF Backup, Goto, TypeOK, Handler
<1>3. StageInv'
  BY <1>0, <1>1, <1>2, Zenon DEF StageInv, Importing
<1>4. BatchInv' /\ UndoneInv' /\ GoneInv'
  BY <1>1, <1>2, Alone, Zenon
<1>5. StepInv'
  BY <1>1, <1>2, Zenon DEF StepInv, Returned
<1>6. DeleteInv'
  BY <1>0, <1>1, <1>2, Zenon DEF DeleteInv
<1> QED
  BY <1>3, <1>4, <1>5, <1>6 DEF Rest

LEMMA RemoveInv ==
    ASSUME Inv, RemoveCPA
    PROVE  Rest'
<1>0. TypeOK /\ StageInv /\ DeleteInv
  BY DEF Inv
<1>1. /\ h.stage = "remove" /\ h.kind = "delete" /\ h.id \in Ids
      /\ UNCHANGED <<mem, disk, starting, before, disturbed>>
  BY <1>0 DEF RemoveCPA, StageInv, environment, history
<1>2. /\ h'.kind = h.kind /\ h'.id = h.id /\ h'.previous = h.previous /\ h'.backup = h.backup
      /\ h'.stage \in {"error", "erase"}
      /\ h'.stage = "erase" =>
           /\ h'.removed = files[h.id][h.previous.meta] /\ UNCHANGED botched
           /\ files' = [files EXCEPT ![h.id][h.previous.meta] = None]
  BY <1>0, ZenonT(30) DEF RemoveCPA, Goto, SetFile, TypeOK, Handler
<1>3. h'.stage = "error" /\ ~botched' => ~botched /\ UNCHANGED files
  <2>1. CASE h' = [h EXCEPT !.stage = "erase", !.removed = files[h.id][h.previous.meta]]
    BY <2>1, <1>0 DEF TypeOK, Handler
  <2>2. CASE RemoveFailed(h.id, h.previous.meta)
    BY <2>2, Zenon DEF RemoveFailed
  <2> QED
    BY <2>1, <2>2 DEF RemoveCPA
<1>4. StageInv'
  BY <1>0, <1>1, <1>2, Zenon DEF StageInv, Importing
<1>5. BatchInv' /\ UndoneInv' /\ GoneInv'
  BY <1>1, <1>2, Alone
<1>6. StepInv'
  BY <1>1, <1>2 DEF StepInv, Returned
<1>7. DeleteInv'
  BY <1>0, <1>1, <1>2, <1>3, SMTT(30) DEF DeleteInv, Removed
<1> QED
  BY <1>4, <1>5, <1>6, <1>7 DEF Rest

LEMMA EraseInv ==
    ASSUME Inv, Erase
    PROVE  Rest'
<1>0. TypeOK /\ StageInv /\ DeleteInv
  BY DEF Inv
<1>1. /\ h.stage = "erase" /\ h.kind = "delete" /\ h.id \in Ids
      /\ UNCHANGED <<files, starting, before, disturbed, botched>>
  BY <1>0, Zenon DEF Erase, StageInv, environment, history
<1>2. /\ h'.kind = h.kind /\ h'.id = h.id /\ h'.previous = h.previous /\ h'.removed = h.removed
      /\ h'.stage \in {"ok", "error", "putback"} /\ (h'.stage = "error" => h.removed = None)
  BY <1>0, GotoFields DEF Erase
<1>3. disk'[h.id] \in {disk[h.id], None}
  BY <1>0, <1>1, Zenon DEF Erase, Erased, EraseFailed, TypeOK
<1>4. StageInv'
  BY <1>0, <1>1, <1>2, Zenon DEF StageInv, Importing
<1>5. BatchInv' /\ UndoneInv' /\ GoneInv'
  BY <1>1, <1>2, Alone, SMTT(30)
<1>6. StepInv'
  BY <1>1, <1>2, Zenon DEF StepInv, Returned
<1>7. DeleteInv'
  <2>1. ASSUME ~disturbed, ~botched, h.removed = None PROVE files = before.files
    <3>1. files = Removed(before.files) /\ before.files[h.id][h.previous.meta] = None
      BY <2>1, <1>0, <1>1, Zenon DEF DeleteInv
    <3>2. before.files \in [Ids -> [Metas -> File \cup {None}]] /\ h.previous.meta \in Metas
      BY <1>0, <1>1, Zenon DEF TypeOK, StageInv, Record
    <3> QED
      BY <3>1, <3>2, <1>1, Zenon DEF Removed
  <2> QED
    BY <2>1, <1>0, <1>1, <1>2, <1>3, Zenon DEF DeleteInv, Removed
<1> QED
  BY <1>4, <1>5, <1>6, <1>7 DEF Rest

LEMMA PutbackInv ==
    ASSUME Inv, Putback
    PROVE  Rest'
<1>0. TypeOK /\ StageInv /\ DeleteInv
  BY DEF Inv
<1>1. /\ h.stage = "putback" /\ h.kind = "delete" /\ h.id \in Ids
      /\ UNCHANGED <<mem, disk, starting, before, disturbed>>
  BY <1>0, Zenon DEF Putback, StageInv, environment, history
<1>2. h'.kind = h.kind /\ h'.id = h.id /\ h'.previous = h.previous /\ h'.stage = "error"
  BY <1>0, GotoFields, Zenon DEF Putback
<1>3. ~botched' => ~botched /\ SetFile(h.id, h.previous.meta, h.removed)
  BY Zenon DEF Putback
<1>4. StageInv'
  BY <1>0, <1>1, <1>2, Zenon DEF StageInv, Importing
<1>5. BatchInv' /\ UndoneInv' /\ GoneInv'
  BY <1>1, <1>2, Alone
<1>6. StepInv'
  BY <1>1, <1>2, SMTT(30) DEF StepInv, Returned
<1>7. DeleteInv'
  <2>1. ASSUME ~disturbed, ~botched' PROVE files' = before.files
    <3>1. files = Removed(before.files) /\ h.removed = before.files[h.id][h.previous.meta]
      BY <2>1, <1>0, <1>1, <1>3, Zenon DEF DeleteInv
    <3>2. before.files \in [Ids -> [Metas -> File \cup {None}]] /\ h.previous.meta \in Metas
      BY <1>0, <1>1, Zenon DEF TypeOK, StageInv, Record
    <3>3. files' = [Removed(before.files) EXCEPT ![h.id][h.previous.meta] = before.files[h.id][h.previous.meta]]
      BY <3>1, <2>1, <1>3 DEF SetFile
    <3> QED
      BY <3>2, <3>3, <1>1, Zenon DEF Removed
  <2> QED
    BY <2>1, <1>0, <1>1, <1>2, <1>3, Zenon DEF DeleteInv
<1> QED
  BY <1>4, <1>5, <1>6, <1>7 DEF Rest

LEMMA SetDisabledInv ==
    ASSUME Inv, SetDisabled
    PROVE  Rest'
<1>0. TypeOK /\ StageInv
  BY SMTT(30) DEF Inv
<1>1. h.stage = "set" /\ h.kind = "disable" /\ UNCHANGED <<mem, disk, starting, before>>
  BY <1>0, Zenon DEF SetDisabled, StageInv, environment, history
<1>2. h'.kind = h.kind /\ h'.id = h.id /\ h'.previous = h.previous /\ h'.stage \in {"ok", "error"}
  BY <1>0, GotoFields, Zenon DEF SetDisabled
<1>3. StageInv'
  BY <1>0, <1>1, <1>2, Zenon DEF StageInv, Importing
<1>4. BatchInv' /\ UndoneInv' /\ GoneInv' /\ DeleteInv'
  BY <1>1, <1>2, Alone, NotDelete
<1>5. StepInv'
  BY <1>1, <1>2 DEF StepInv, Returned
<1> QED
  BY <1>3, <1>4, <1>5 DEF Rest

LEMMA RouteInv ==
    ASSUME Inv, RouteAndInspect
    PROVE  Rest'
<1>0. TypeOK /\ StageInv /\ StepInv
  BY DEF Inv
<1>1. /\ h.stage = "route" /\ h.kind \in {"refresh", "reconcile"} /\ h.id \in Ids
      /\ UNCHANGED <<mem, disk, files, starting, before>>
  BY <1>0, Zenon DEF RouteAndInspect, StageInv, history
<1>2. \A m \in Reported[h.id] : m \in Metas
  BY <1>1, ReportedAssumption
<1>3. /\ h'.kind = h.kind /\ h'.id = h.id /\ h'.previous = h.previous
      /\ h'.stage \in {"error", "meta"} /\ (h'.stage = "meta" => h'.meta \in Metas)
  BY <1>0, <1>2, ZenonT(30) DEF RouteAndInspect, Goto, TypeOK, Handler
<1>4. StageInv'
  BY <1>0, <1>1, <1>3, Zenon DEF StageInv, Importing
<1>5. BatchInv' /\ UndoneInv' /\ GoneInv' /\ DeleteInv'
  BY <1>1, <1>3, Alone, NotDelete, Zenon
<1>6. StepInv'
  BY <1>0, <1>1, <1>3, Zenon DEF StepInv, Returned
<1> QED
  BY <1>4, <1>5, <1>6 DEF Rest

LEMMA UpdateInv ==
    ASSUME Inv, UpdateMetadata
    PROVE  Rest'
<1>0. TypeOK /\ StageInv /\ StepInv
  BY DEF Inv
<1>1. /\ h.stage = "meta" /\ h.kind \in {"refresh", "reconcile"} /\ h.id \in Ids
      /\ h.previous \in Record /\ h.meta \in Metas
      /\ UNCHANGED <<files, starting, before>>
  BY <1>0 DEF UpdateMetadata, StageInv, environment, history
<1>2. PICK r \in Record : r = [h.previous EXCEPT !.meta = h.meta] /\ r.key = h.previous.key
  <2>1. [h.previous EXCEPT !.meta = h.meta] \in Record
    BY <1>1 DEF Record
  <2>2. [h.previous EXCEPT !.meta = h.meta].key = h.previous.key
    BY <1>1 DEF Record
  <2> QED
    BY <2>1, <2>2, Zenon
<1>3. /\ h'.kind = h.kind /\ h'.id = h.id /\ h'.previous = h.previous /\ h'.meta = h.meta
      /\ h'.stage \in {"error", "upsert"}
  BY <1>0, GotoFields DEF UpdateMetadata
<1>4. \/ Stored(h.id, r) /\ UNCHANGED botched
      \/ StoreFailed(h.id, r) /\ Goto(IF h.kind = "refresh" THEN "error" ELSE "upsert")
  BY <1>2, Zenon DEF UpdateMetadata
<1>5. \A j \in Ids \ {h.id} : mem'[j] = mem[j] /\ disk'[j] = disk[j]
  <2>1. StoreFailed(h.id, r) => UNCHANGED mem /\ (UNCHANGED disk \/ disk' = [disk EXCEPT ![h.id] = r])
    BY Zenon DEF StoreFailed
  <2> QED
    BY <2>1, <1>0, <1>4 DEF Stored, TypeOK
<1>6. ASSUME h'.stage = "upsert", ~botched'
      PROVE  mem'[h.id] = disk'[h.id] /\ mem'[h.id] # None /\ mem'[h.id].key = h.previous.key
  <2>1. CASE Stored(h.id, r)
    <3>1. mem'[h.id] = r /\ disk'[h.id] = r
      BY <2>1, <1>0, <1>1 DEF Stored, TypeOK
    <3> QED
      BY <3>1, <1>2, RecordAssumption
  <2>2. CASE StoreFailed(h.id, r) /\ Goto(IF h.kind = "refresh" THEN "error" ELSE "upsert")
    <3>1. h.kind = "reconcile"
      <4>1. h'.stage = (IF h.kind = "refresh" THEN "error" ELSE "upsert")
        BY <2>2, <1>0, GotoFields, Zenon
      <4> QED
        BY <4>1, <1>1, <1>6
    <3>2. UNCHANGED <<mem, disk>>
      BY <2>2, <1>6, Zenon DEF StoreFailed
    <3>3. mem[h.id] = h.previous /\ disk[h.id] = h.previous
      BY <3>1, <1>0, <1>1, Zenon DEF StepInv
    <3> QED
      BY <3>2, <3>3, <1>1, RecordAssumption
  <2> QED
    BY <2>1, <2>2, <1>4, Zenon
<1>7. StageInv'
  BY <1>0, <1>1, <1>3, <1>5, ZenonT(30) DEF StageInv, Importing, TypeOK
<1>8. BatchInv' /\ UndoneInv' /\ GoneInv' /\ DeleteInv'
  BY <1>1, <1>3, Alone, NotDelete, Zenon
<1>9. StepInv'
  BY <1>1, <1>3, <1>6, Zenon DEF StepInv, Returned
<1> QED
  BY <1>7, <1>8, <1>9 DEF Rest

LEMMA RefreshUpsertInv ==
    ASSUME Inv, RefreshUpsert
    PROVE  Rest'
<1>0. TypeOK /\ StageInv /\ StepInv
  BY DEF Inv
<1>1. /\ h.stage = "upsert" /\ h.kind \in {"refresh", "reconcile"} /\ h.id \in Ids
      /\ h.previous \in Record /\ h.meta \in Metas
      /\ UNCHANGED <<mem, disk, starting, before, disturbed>>
  BY <1>0, Zenon DEF RefreshUpsert, StageInv, environment, history
<1>2. /\ h'.kind = h.kind /\ h'.id = h.id /\ h'.previous = h.previous /\ h'.meta = h.meta
      /\ h'.stage \in {"ok", "error"}
      /\ h'.stage = "ok" => UpsertIdentity(h.id, h.meta, h.previous.key)
  BY <1>0, GotoFields DEF RefreshUpsert
<1>3. ASSUME h'.stage = "ok", ~botched' PROVE InStep(h.id, h.meta)'
  <2>1. h.previous.key \in Keys
    BY <1>1 DEF Record
  <2>2. PICK f \in File : f = Upserted(h.id, h.meta, h.previous.key)
    BY <2>1, <1>0, <1>1, UpsertedType, Zenon
  <2>3. files' = [files EXCEPT ![h.id][h.meta] = f] /\ ~botched
    BY <2>2, <1>2, <1>3 DEF UpsertIdentity, SetFile
  <2>4. files'[h.id][h.meta] = f
    BY <2>3, <1>0, <1>1, Zenon DEF TypeOK
  <2>5. f # None /\ f.key = h.previous.key
    BY <2>2, RecordAssumption, Zenon DEF Upserted
  <2>6. mem[h.id] = disk[h.id] /\ mem[h.id] # None /\ mem[h.id].key = h.previous.key
    BY <2>3, <1>0, <1>1 DEF StepInv
  <2> QED
    BY <2>4, <2>5, <2>6, <1>1, <1>2, Zenon DEF InStep
<1>4. StageInv'
  BY <1>0, <1>1, <1>2, Zenon DEF StageInv, Importing
<1>5. BatchInv' /\ UndoneInv' /\ GoneInv' /\ DeleteInv'
  BY <1>1, <1>2, Alone, NotDelete, Zenon
<1>6. StepInv'
  BY <1>1, <1>2, <1>3, Zenon DEF StepInv, Returned, InStep
<1> QED
  BY <1>4, <1>5, <1>6 DEF Rest

-----------------------------------------------------------------------------
(* The environment                                                         *)

LEMMA RestartInv ==
    ASSUME Inv, Restart
    PROVE  Rest'
<1>1. h'.stage = "ok" /\ h'.kind = "none"
  BY Zenon DEF Restart, Fresh
<1>2. mem' = disk /\ disk' = disk /\ starting' = {i \in Ids : disk[i] # None}
  BY DEF Restart
<1>3. StageInv'
  BY <1>1, <1>2, Zenon DEF StageInv, Importing
<1>4. BatchInv' /\ UndoneInv' /\ GoneInv' /\ DeleteInv'
  BY <1>1, Alone, NotDelete
<1>5. StepInv'
  BY <1>1, Zenon DEF StepInv, Returned
<1> QED
  BY <1>3, <1>4, <1>5 DEF Rest

LEMMA UserEditInv ==
    ASSUME Inv, NEW i \in Ids, NEW m \in Metas, UserEdit(i, m)
    PROVE  Rest'
<1>0. Rest /\ TypeOK
  BY DEF Inv, Rest
<1>1. /\ UNCHANGED <<mem, disk, cache, starting, h, status, botched>> /\ disturbed' = TRUE
      /\ before'.mem = before.mem
  BY <1>0, SMTT(30) DEF UserEdit, environment, TypeOK
<1>2. StageInv' /\ BatchInv'
  BY <1>0, <1>1, Zenon DEF Rest, StageInv, BatchInv
<1>3. UndoneInv' /\ GoneInv'
  BY <1>1, Zenon DEF UndoneInv, GoneInv
<1>4. StepInv'
  BY <1>0, <1>1, Zenon DEF Rest, StepInv, Returned
<1>5. DeleteInv'
  BY <1>0, <1>1, Zenon DEF Rest, DeleteInv
<1> QED
  BY <1>2, <1>3, <1>4, <1>5 DEF Rest

LEMMA StutterInv ==
    ASSUME Inv, UNCHANGED vars
    PROVE  Rest'
<1>1. Rest
  BY DEF Inv, Rest
<1>2. UNCHANGED <<mem, disk, files, cache, starting, h, status, before, disturbed, botched>>
  BY DEF vars
<1>3. StageInv' /\ BatchInv'
  BY <1>1, <1>2, Zenon DEF Rest, StageInv, BatchInv
<1>4. UndoneInv'
  BY <1>1, <1>2, Zenon DEF Rest, UndoneInv, Midway, LeftOver, ImportsLegacy
<1>5. StepInv'
  BY <1>1, <1>2, Zenon DEF Rest, StepInv, Returned, InStep
<1>6. GoneInv'
  BY <1>1, <1>2, Zenon DEF Rest, GoneInv, Hidden
<1>7. DeleteInv'
  BY <1>1, <1>2, Zenon DEF Rest, DeleteInv, Removed
<1> QED
  BY <1>3, <1>4, <1>5, <1>6, <1>7 DEF Rest

\* What an import would go back to is found once and does not change.
LEMMA PreviousNext ==
    ASSUME Inv, [Next]_vars
    PROVE  PreviousInv'
<1> USE DEF environment, history
<1>0. TypeOK /\ StageInv /\ PreviousInv
  BY DEF Inv
<1>1. CASE h'.kind # "import"
  BY <1>1 DEF PreviousInv
<1>2. CASE /\ h'.kind = h.kind /\ h'.id = h.id /\ h'.owner = h.owner /\ h'.previous = h.previous
           /\ before'.mem = before.mem
  BY <1>0, <1>2, Zenon DEF PreviousInv, ImportsLegacy
<1>3. ASSUME NEW i \in Ids, HandleImport(i) PROVE PreviousInv'
  <2>0. PICK owner : owner = LookupByTokenAndAccount(i)
    BY Zenon
  <2>1. PICK previous : previous = IF owner = None THEN None ELSE mem[owner]
    BY Zenon
  <2>2. PICK m \in Reported[i] :
          Begin([Fresh("import", "store", i, previous) EXCEPT !.owner = owner, !.meta = m])
    BY <2>0, <2>1, <1>3 DEF HandleImport
  <2>3. h'.kind = "import" /\ h'.id = i /\ h'.owner = owner /\ h'.previous = previous /\ before'.mem = mem
    BY <2>2 DEF Begin, Fresh
  <2>4. /\ \/ owner = i /\ previous = mem[i] /\ previous # None
           \/ owner = None /\ previous = None /\ mem[i] = None
           \/ /\ owner \in Ids /\ owner = Legacy[i] /\ previous = mem[owner] /\ previous # None
              /\ mem[i] = None /\ previous.meta \in Workspace[i]
    BY <2>0, <2>1, <1>0, LookupFacts
  <2> QED
    BY <2>3, <2>4, NoneAssumption DEF PreviousInv, ImportsLegacy
<1>4. ASSUME NEW s, Goto(s), UNCHANGED before PROVE PreviousInv'
  BY <1>0, <1>2, <1>4, GotoFields DEF TypeOK, Handler, Goto
<1>5. ASSUME h.kind # "import", h'.kind = h.kind PROVE PreviousInv'
  BY <1>1, <1>5
<1>6. CASE ImportWithMetadata \/ Sync \/ UndoImport
  <2>1. UNCHANGED before
    BY <1>6, Zenon DEF ImportWithMetadata, Sync, UndoImport
  <2>2. h.kind = "import" => \E s : Goto(s)
    BY <1>6, Zenon DEF ImportWithMetadata, Sync, UndoImport, Committed, Failed
  <2>3. h.kind # "import" => h'.kind = h.kind
    BY <1>0, <1>6, Zenon DEF ImportWithMetadata, Sync, UndoImport, Committed, Failed, Goto, TypeOK, Handler
  <2> QED
    BY <2>1, <2>2, <2>3, <1>4, <1>5, Zenon
<1>7. CASE NextItem \/ RollbackSync \/ RollbackStore
  <2>1. h.kind = "batch"
    BY <1>0, <1>7, Zenon DEF NextItem, RollbackSync, RollbackStore, StageInv
  <2>2. h'.kind = h.kind
    BY <1>0, <1>7, Zenon DEF NextItem, RollbackSync, RollbackStore, Goto, TypeOK, Handler
  <2> QED
    BY <2>1, <2>2, <1>5
<1>8. CASE \/ Backup \/ RemoveCPA \/ Erase \/ Putback \/ SetDisabled \/ RouteAndInspect \/ UpdateMetadata
           \/ RefreshUpsert
  <2>1. h.kind # "import"
    BY <1>0, <1>8, Zenon DEF Backup, RemoveCPA, Erase, Putback, SetDisabled, RouteAndInspect, UpdateMetadata,
                             RefreshUpsert, StageInv
  <2>2. h'.kind = h.kind
    BY <1>0, <1>8, Zenon DEF Backup, RemoveCPA, Erase, Putback, SetDisabled, RouteAndInspect, UpdateMetadata,
                             RefreshUpsert, Goto, TypeOK, Handler
  <2> QED
    BY <2>1, <2>2, <1>5
<1>9. CASE \/ \E i \in Ids : Reconcile(i)
           \/ \E batch, ready \in SUBSET Ids, atomic \in BOOLEAN : HandleBatch(batch, ready, atomic)
           \/ \E i \in Ids : HandleIdentity(i, "delete", "backup")
                          \/ HandleIdentity(i, "disable", "set")
                          \/ HandleIdentity(i, "refresh", "route")
           \/ Restart
  <2>1. ASSUME NEW kind \in {"none", "reconcile", "delete", "disable", "refresh"}, NEW stage, NEW i, NEW previous,
               h' = Fresh(kind, stage, i, previous)
        PROVE  h'.kind # "import"
    BY <2>1 DEF Fresh
  <2>2. ASSUME NEW batch \in SUBSET Ids, NEW ready \in SUBSET Ids, NEW atomic \in BOOLEAN,
               HandleBatch(batch, ready, atomic)
        PROVE  h'.kind # "import"
    <3>1. PICK stage, todo :
            h' = [Fresh("batch", stage, None, None) EXCEPT !.todo = todo, !.atomic = atomic]
      BY <2>2, Zenon DEF HandleBatch, Begin
    <3> QED
      BY <3>1 DEF Fresh
  <2>3. h'.kind # "import"
    BY <2>1, <2>2, <1>9, Zenon DEF Reconcile, HandleIdentity, Restart, Begin
  <2> QED
    BY <2>3, <1>1
<1>10. CASE (\E i \in Ids, m \in Metas : UserEdit(i, m)) \/ UNCHANGED vars
  <2>1. UNCHANGED h /\ before'.mem = before.mem
    BY <1>0, <1>10 DEF UserEdit, vars, TypeOK
  <2> QED
    BY <2>1, <1>2
<1> QED
  BY <1>3, <1>6, <1>7, <1>8, <1>9, <1>10, ZenonT(30) DEF Next

-----------------------------------------------------------------------------
(* Theorems                                                                *)

LEMMA InitInv ==
    ASSUME Init
    PROVE  Inv
<1>1. h.stage = "ok" /\ h.kind = "none" /\ starting = {}
  BY Zenon DEF Init, Fresh
<1>2. TypeOK
  <2>1. h \in Handler
    BY FreshType DEF Init
  <2>2. before \in [mem : [Ids -> Record \cup {None}], disk : [Ids -> Record \cup {None}],
                    files : [Ids -> [Metas -> File \cup {None}]]]
    BY DEF Init, Nothing, NoRecords, NoFiles
  <2> QED
    BY <2>1, <2>2, Zenon DEF Init, TypeOK, NoRecords, NoFiles, NoStatus, Statuses
<1>4. PreviousInv
  BY <1>1 DEF PreviousInv
<1>3. Rest
  BY <1>1, Zenon DEF Rest, StageInv, Importing, BatchInv, UndoneInv, StepInv, Returned, GoneInv, DeleteInv
<1> QED
  BY <1>2, <1>3, <1>4 DEF Inv, Rest

LEMMA NextInv ==
    ASSUME Inv, [Next]_vars
    PROVE  Inv'
<1>1. Rest'
  <2>1. ASSUME NEW i \in Ids, HandleIdentity(i, "delete", "backup") PROVE Rest'
    BY <2>1, HandleIdentityInv
  <2>2. ASSUME NEW i \in Ids, HandleIdentity(i, "disable", "set") PROVE Rest'
    BY <2>2, HandleIdentityInv
  <2>3. ASSUME NEW i \in Ids, HandleIdentity(i, "refresh", "route") PROVE Rest'
    BY <2>3, HandleIdentityInv
  <2> QED
    BY <2>1, <2>2, <2>3, HandleImportInv, ReconcileInv, HandleBatchInv, NextItemInv, ImportInv, SyncInv,
       UndoImportInv, RollbackSyncInv, RollbackStoreInv, BackupInv, RemoveInv, EraseInv, PutbackInv,
       SetDisabledInv, RouteInv, UpdateInv, RefreshUpsertInv, RestartInv, UserEditInv, StutterInv,
       Zenon, ZenonT(30) DEF Next
<1> QED
  BY <1>1, TypeStep, PreviousNext DEF Inv, Rest

\* The conjunction of what the management handlers keep true, for every set of
\* identities, metadata and client keys.
THEOREM Invariance == Spec => []Inv
<1>1. Init => Inv
  BY InitInv
<1>2. Inv /\ [Next]_vars => Inv'
  BY NextInv
<1> QED
  BY <1>1, <1>2, PTL DEF Spec

\* Type correctness of the management handlers.
THEOREM TypeCorrect == Spec => []TypeOK
<1>1. Inv => TypeOK
  BY DEF Inv
<1> QED
  BY <1>1, Invariance, PTL

\* A successful import, refresh, reconciliation or batch item leaves store, disk
\* and CPA in step.
THEOREM SuccessInStep == Spec => []SuccessIsInStep
<1>1. Inv => SuccessIsInStep
  BY Zenon DEF Inv, StepInv, BatchInv, SuccessIsInStep, Returned
<1> QED
  BY <1>1, Invariance, PTL

\* A failed import or atomic batch is undone unless a compensation failed, but for
\* the record that importing a token stored without a workspace leaves.
THEOREM FailureUndone == Spec => []FailureIsUndone
<1>1. ASSUME Inv PROVE FailureIsUndone
  <2> SUFFICES ASSUME Returned({"import", "batch"}, "error"), ~botched, before.mem = before.disk
               PROVE  /\ \A i \in Ids : IF ImportsLegacy(i) THEN mem[i] = disk[i]
                                         ELSE mem[i] = before.mem[i] /\ disk[i] = before.disk[i]
                      /\ \A i \in Ids : files[i] # before.files[i] =>
                                          status[i] = "rolled_back" /\ before.files[i] # NoFiles[i]
    BY Zenon DEF FailureIsUndone
  <2>1. h.imported = {} /\ h.kind \in {"import", "batch"} /\ h.stage = "error" /\ ~disturbed
    BY <1>1, Zenon DEF Inv, StageInv, Returned
  <2>2. \A i \in Ids : /\ (mem[i] = before.mem[i] /\ disk[i] = before.disk[i]) \/ LeftOver(i)
                       /\ files[i] # before.files[i] => status[i] = "rolled_back" /\ before.files[i] # NoFiles[i]
    BY <2>1, <1>1, Zenon DEF Inv, UndoneInv, Midway
  <2> QED
    BY <2>2, SMT DEF LeftOver
<1> QED
  BY <1>1, Invariance, PTL

\* An item reported as rolled back is gone from memory, disk and CPA.
THEOREM RolledBackGone == Spec => []RolledBackIsGone
<1>1. Inv => RolledBackIsGone
  BY DEF Inv, GoneInv, Hidden, RolledBackIsGone
<1> QED
  BY <1>1, Invariance, PTL

\* A failed delete leaves the auth files.
THEOREM FailedDeleteHarmless == Spec => []FailedDeleteKeepsFiles
<1>1. Inv => FailedDeleteKeepsFiles
  BY Zenon DEF Inv, DeleteInv, FailedDeleteKeepsFiles, Returned
<1> QED
  BY <1>1, Invariance, PTL

\* A record leaves the disk only by a delete that has it in its backup, or by the
\* handler that brought it.
THEOREM NeverLost == Spec => CredentialNeverLost
<1> DEFINE Kept == \A i \in Ids : (disk[i] # None /\ disk'[i] = None) =>
                     (h.kind = "delete" /\ h.backup = disk[i]) \/ before.mem[i] = None
<1>1. ASSUME Inv, [Next]_vars PROVE [Kept]_vars
  <2>0. TypeOK /\ StageInv /\ PreviousInv /\ BatchInv /\ DeleteInv /\ h.imported \in SUBSET Ids
    BY <1>1, Zenon DEF Inv, TypeOK, Handler
  <2>1. CASE UNCHANGED disk
    BY <2>1, SMTT(30)
  <2>2. ASSUME NEW i \in Ids, NEW r \in Record, disk' = [disk EXCEPT ![i] = r] PROVE Kept
    BY <2>0, <2>2, RecordAssumption, Zenon DEF TypeOK
  <2>3. ASSUME disk' = [disk EXCEPT ![h.id] = None],
               (h.kind = "delete" /\ h.backup = disk[h.id]) \/ before.mem[h.id] = None
        PROVE  Kept
    BY <2>0, <2>3, Zenon DEF TypeOK
  <2>4. CASE ImportWithMetadata
    <3>1. PICK k \in unused : LET r == [key |-> k, meta |-> h.meta] IN Stored(h.id, r) \/ StoreFailed(h.id, r)
      BY <2>4, SMTT(30) DEF ImportWithMetadata
    <3>2. h.id \in Ids /\ [key |-> k, meta |-> h.meta] \in Record
      BY <2>0, <2>4, Zenon DEF ImportWithMetadata, StageInv, Importing, TypeOK, Record
    <3>3. UNCHANGED disk \/ disk' = [disk EXCEPT ![h.id] = [key |-> k, meta |-> h.meta]]
      BY <3>1, ZenonT(30) DEF Stored, StoreFailed
    <3> QED
      BY <3>2, <3>3, <2>1, <2>2, Zenon
  <2>5. CASE UndoImport
    <3>1. h.kind \in {"import", "batch"} /\ h.stage = "undo" /\ h.previous \in Record \cup {None}
      BY <2>0, <2>5, Zenon DEF UndoImport, StageInv, Importing, TypeOK, Handler
    <3>2. CASE h.previous = None
      <4>1. before.mem[h.id] = None
        BY <2>0, <3>1, <3>2, Zenon DEF PreviousInv, BatchInv, Importing
      <4>2. UNCHANGED disk \/ disk' = [disk EXCEPT ![h.id] = None]
        BY <2>5, <3>2, ZenonT(30) DEF UndoImport, Erased, EraseFailed
      <4> QED
        BY <4>1, <4>2, <2>1, <2>3, Zenon
    <3>3. CASE h.previous # None
      <4>1. h.owner \in Ids /\ h.previous \in Record
        BY <2>0, <3>1, <3>3, Zenon DEF PreviousInv, StageInv
      <4>2. UNCHANGED disk \/ disk' = [disk EXCEPT ![h.owner] = h.previous]
        BY <2>5, <3>3, ZenonT(30) DEF UndoImport, Stored
      <4> QED
        BY <4>1, <4>2, <2>1, <2>2, Zenon
    <3> QED
      BY <3>2, <3>3
  <2>6. CASE RollbackStore
    <3>1. before.mem[h.id] = None
      BY <2>0, <2>6 DEF RollbackStore, StageInv, BatchInv
    <3>2. UNCHANGED disk \/ disk' = [disk EXCEPT ![h.id] = None]
      BY <2>6, Zenon DEF RollbackStore, Erased, EraseFailed
    <3> QED
      BY <3>1, <3>2, <2>1, <2>3, Zenon
  <2>7. CASE Erase
    <3>1. h.kind = "delete" /\ h.backup = disk[h.id]
      BY <2>0, <2>7, Zenon DEF Erase, StageInv, DeleteInv
    <3>2. UNCHANGED disk \/ disk' = [disk EXCEPT ![h.id] = None]
      BY <2>7, Zenon DEF Erase, Erased, EraseFailed
    <3> QED
      BY <3>1, <3>2, <2>1, <2>3, Zenon
  <2>8. CASE UpdateMetadata
    <3>1. h.id \in Ids /\ [h.previous EXCEPT !.meta = h.meta] \in Record
      BY <2>0, <2>8 DEF UpdateMetadata, StageInv, Record
    <3>2. UNCHANGED disk \/ disk' = [disk EXCEPT ![h.id] = [h.previous EXCEPT !.meta = h.meta]]
      BY <2>8, Zenon DEF UpdateMetadata, Stored, StoreFailed
    <3> QED
      BY <3>1, <3>2, <2>1, <2>2
  <2>9. CASE \/ \E i \in Ids : HandleImport(i) \/ Reconcile(i)
             \/ \E batch, ready \in SUBSET Ids, atomic \in BOOLEAN : HandleBatch(batch, ready, atomic)
             \/ \E i \in Ids : HandleIdentity(i, "delete", "backup")
                            \/ HandleIdentity(i, "disable", "set")
                            \/ HandleIdentity(i, "refresh", "route")
             \/ \E i \in Ids, m \in Metas : UserEdit(i, m)
    BY <2>9, <2>1, Zenon DEF HandleImport, Reconcile, HandleBatch, HandleIdentity, UserEdit
  <2>10. CASE \/ NextItem \/ Sync \/ RollbackSync \/ Backup \/ RemoveCPA \/ Putback \/ SetDisabled
              \/ RouteAndInspect \/ RefreshUpsert \/ Restart
    BY <2>10, <2>1, Zenon DEF NextItem, Sync, RollbackSync, Backup, RemoveCPA, Putback, SetDisabled, RouteAndInspect,
                       RefreshUpsert, Restart
  <2> HIDE DEF Kept
  <2> QED
    BY <1>1, <2>4, <2>5, <2>6, <2>7, <2>8, <2>9, <2>10, ZenonT(30) DEF Next
<1> QED
  BY <1>1, Invariance, PTL DEF Spec, CredentialNeverLost
=============================================================================
