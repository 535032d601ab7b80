------------------------ MODULE IdentityStoreProofs ------------------------
(***************************************************************************)
(* Proofs about IdentityStore for every choice of tokens, accounts and     *)
(* client keys.  The inductive invariant Inv adds to the five properties   *)
(* what a mutation in flight knows about the disk (OpInv), what Open has   *)
(* established so far (PhaseInv), that every record in memory can be       *)
(* written back (MemoryOK), and that a client key only ever belongs to one *)
(* identity wherever a record of it survives (KeyInv).                     *)
(***************************************************************************)
EXTENDS IdentityStore, TLAPS

\* A file of identity i that Open accepts.
FileOK(i, p) ==
    p # None => p.id = i /\ Decodable(p, TRUE) /\ validIdentity(decodeIdentity(p))

FilesOK == \A i \in Ids : \A p \in Possible(i) : FileOK(i, p)

MemOK(r) == r # None => Encodable(r)

MemoryOK == (\A i \in Ids : MemOK(byID[i])) /\ MemOK(op.rec) /\ MemOK(op.previous)

\* Some record of identity i with key k may still be read back.
Carries(r, i, k) == r # None /\ r.id = i /\ r.clientKeyHash = k
Holds(i, k) ==
    \/ \E p \in Possible(i) : Carries(p, i, k)
    \/ Carries(byID[i], i, k)
    \/ Carries(op.rec, i, k)
    \/ Carries(op.previous, i, k)

KeyInv ==
    /\ \A i \in Ids, k \in Keys : Holds(i, k) => k \in used
    /\ \A i, j \in Ids, k \in Keys : Holds(i, k) /\ Holds(j, k) => i = j

Sealed(i) == (cipher /\ disk[i] # None) => disk[i].token = NoToken

PhaseInv ==
    /\ phase = "down" => byID = NoIdentities /\ byKeyHash = NoKeys
    /\ phase # "up" => op = Idle
    /\ phase = "opening" => \A i \in Ids :
         /\ i \in todo => disk[i] # None /\ byID[i] = None
         /\ i \notin todo => Content(byID[i]) = FileContent(disk[i]) /\ Sealed(i)
    /\ phase = "up" => \A i \in Ids : Sealed(i)

OpInv ==
    /\ op.stage = "idle" <=> op = Idle
    /\ op.stage = "remove" => op.kind = "delete"
    /\ op.stage = "cpa" => byID[Target] = op.rec
    /\ op.kind = "delete" =>
         op.stage \in {"remove", "sync"} /\ byID[Target] = None /\ None \in outcome[Target]
    /\ (op.kind # "delete" /\ op.stage \in {"write", "sync", "publish"}) =>
         Content(op.rec) \in outcome[Target]
    /\ op.stage = "sync" =>
         disk[Target] = IF op.kind = "delete" THEN None ELSE encodeIdentity(op.rec)
    /\ op.stage = "publish" => disk[Target] = encodeIdentity(op.rec) /\ shadow[Target] = {}

Inv ==
    /\ TypeOK /\ IndexCoherent /\ AckedIsDurable
    /\ FilesOK /\ MemoryOK /\ KeyInv /\ PhaseInv /\ OpInv

-----------------------------------------------------------------------------
(* Records                                                                 *)

\* Encoding an encodable identity yields a well-typed file that keeps its ID
\* and key hash, that Open accepts, and that holds the same content.
LEMMA EncodeFacts ==
    ASSUME cipher \in BOOLEAN, NEW r \in Identity, Encodable(r)
    PROVE  /\ encodeIdentity(r) \in Persisted
           /\ encodeIdentity(r) # None
           /\ encodeIdentity(r).id = r.id
           /\ encodeIdentity(r).clientKeyHash = r.clientKeyHash
           /\ Decodable(encodeIdentity(r), TRUE)
           /\ decodeIdentity(encodeIdentity(r)) = [r EXCEPT !.version = IF cipher THEN Encrypted ELSE @]
           /\ validIdentity(decodeIdentity(encodeIdentity(r)))
           /\ FileContent(encodeIdentity(r)) = Content(r)
           /\ cipher => encodeIdentity(r).token = NoToken
<1> USE NoTokenAssumption, NoneAssumption
<1> DEFINE p == encodeIdentity(r)
           d == [r EXCEPT !.version = IF cipher THEN Encrypted ELSE @]
<1>1. r.id \in Ids /\ r.token \in Tokens /\ r # None
  BY DEF Identity
<1>2. p \in Persisted /\ p # None /\ p.id = r.id /\ p.clientKeyHash = r.clientKeyHash
  BY <1>1 DEF encodeIdentity, Identity, Persisted, LegacyHash, Encrypted
<1>3. Decodable(p, TRUE)
  BY <1>1 DEF encodeIdentity, Identity, Decodable, Encodable, LegacyHash, Encrypted
<1>4. decodeIdentity(p) = d
  BY <1>1 DEF encodeIdentity, decodeIdentity, Identity, Encodable, LegacyHash, Encrypted
<1>5. validIdentity(d)
  BY DEF Encodable, validIdentity, Identity, LegacyHash, Encrypted
<1>6. d # None
  BY DEF Identity, LegacyHash, Encrypted
<1>7. FileContent(p) = Content(r)
  BY <1>1, <1>2, <1>4, <1>6, Zenon DEF FileContent, Content, Identity
<1>8. cipher => p.token = NoToken
  BY DEF encodeIdentity
<1> QED
  BY <1>2, <1>3, <1>4, <1>5, <1>7, <1>8, Zenon

\* Decoding a file that Open can decode yields an identity with the file's ID
\* and key hash.
LEMMA DecodeFacts ==
    ASSUME NEW p \in Persisted, NEW c \in BOOLEAN, Decodable(p, c)
    PROVE  /\ decodeIdentity(p) \in Identity
           /\ decodeIdentity(p) # None
           /\ decodeIdentity(p).version = p.version
           /\ decodeIdentity(p).id = p.id
           /\ decodeIdentity(p).clientKeyHash = p.clientKeyHash
<1>1. p.version = Encrypted => p.sealed[2] \in Tokens
  BY DEF Decodable, Persisted
<1>2. p.version # Encrypted => p.token \in Tokens
  BY DEF Decodable, Persisted
<1> QED
  BY <1>1, <1>2, NoneAssumption DEF decodeIdentity, Persisted, Identity

\* The content of an identity is an identity, and an identity is never None.
LEMMA ContentFacts ==
    ASSUME NEW r \in Identity
    PROVE  r # None /\ Content(r) \in Identity /\ Content(r) # None
BY NoneAssumption DEF Content, Identity, LegacyHash, Encrypted

\* What Open makes of a file it must migrate.
LEMMA MigratedFacts ==
    ASSUME cipher \in BOOLEAN, NEW p \in Persisted, Acceptable(p), MustMigrate(p)
    PROVE  /\ Migrated(p) \in Identity
           /\ Encodable(Migrated(p))
           /\ Migrated(p).id = p.id
           /\ Migrated(p).clientKeyHash = p.clientKeyHash
           /\ Content(Migrated(p)) = FileContent(p)
<1>1. decodeIdentity(p) \in Identity /\ decodeIdentity(p).id = p.id
      /\ decodeIdentity(p).clientKeyHash = p.clientKeyHash
  BY DecodeFacts DEF Acceptable
<1>2. Migrated(p) \in Identity /\ Migrated(p).id = p.id /\ Migrated(p).clientKeyHash = p.clientKeyHash
  BY <1>1 DEF Migrated, Identity, LegacyHash, Encrypted
<1>3. Encodable(Migrated(p))
  BY <1>1 DEF Migrated, Identity, Encodable, Acceptable, MustMigrate, validIdentity, LegacyHash, Encrypted
<1>4. Content(Migrated(p)) = FileContent(p)
  BY <1>1, <1>2, NoneAssumption, Zenon DEF Content, FileContent, Migrated, Identity
<1> QED
  BY <1>2, <1>3, <1>4

\* Client keys stay with their identity when a step brings in no new record.
LEMMA KeyFrame ==
    ASSUME KeyInv, used \subseteq used',
           \A i \in Ids, k \in Keys : Holds(i, k)' => Holds(i, k)
    PROVE  KeyInv'
BY DEF KeyInv

\* Steps that leave the files, or the maps, alone.
LEMMA FilesFrame ==
    ASSUME Inv, UNCHANGED <<disk, shadow>>
    PROVE  FilesOK' /\ \A i \in Ids : Possible(i)' = Possible(i)
<1>1. \A i \in Ids : Possible(i)' = Possible(i)
  BY DEF Possible
<1> QED
  BY <1>1, Zenon DEF Inv, FilesOK, FileOK

\* Neither index changes, so they still agree.
LEMMA MapsFrame ==
    ASSUME Inv, UNCHANGED <<byID, byKeyHash>>
    PROVE  IndexCoherent'
BY DEF Inv, IndexCoherent

-----------------------------------------------------------------------------
(* The invariant holds initially                                           *)

\* The directory an older release left satisfies the invariant.
LEMMA InitInv == Init => Inv
<1> SUFFICES ASSUME Init PROVE Inv
  OBVIOUS
<1>1. PICK old \in SUBSET Tokens, v \in {LegacyHash, Plaintext}, key \in [Tokens -> Keys] :
        /\ \A s, t \in old : key[s] = key[t] => s = t
        /\ disk = [i \in Ids |->
             IF i[1] \in old /\ i[2] = NoAccount
             THEN [version |-> v, id |-> i, token |-> i[1], sealed |-> NoToken,
                   clientKey |-> IF v = LegacyHash THEN NoKey ELSE key[i[1]],
                   clientKeyHash |-> key[i[1]],
                   accountID |-> NoAccount, accountScoped |-> FALSE]
             ELSE None]
        /\ used = {key[t] : t \in old}
  BY Zenon DEF Init
<1>2. \A i \in Ids : disk[i] # None =>
        /\ disk[i] \in Persisted
        /\ i[1] \in old /\ i = <<i[1], NoAccount>>
        /\ disk[i].id = i /\ disk[i].clientKeyHash = key[i[1]]
        /\ Decodable(disk[i], TRUE)
        /\ validIdentity(decodeIdentity(disk[i]))
  BY <1>1, NoTokenAssumption, NoKeyAssumption
     DEF Ids, Persisted, Decodable, decodeIdentity, validIdentity, IdentityID, LegacyHash, Plaintext, Encrypted
<1>3. \A i \in Ids : FileContent(disk[i]) \in Identity \cup {None}
  BY <1>2, DecodeFacts, ContentFacts, Zenon DEF FileContent
<1>4. \A i \in Ids : byID[i] = None /\ shadow[i] = {} /\ outcome[i] = {FileContent(disk[i])}
  BY Zenon DEF Init, NoIdentities
<1>5. TypeOK
  <2>1. disk \in [Ids -> Persisted \cup {None}]
    BY <1>1, <1>2, Zenon
  <2>2. used \in SUBSET Keys
    BY <1>1
  <2>3. outcome \in [Ids -> SUBSET (Identity \cup {None})]
    <3>1. outcome = [i \in Ids |-> {FileContent(disk[i])}]
      BY Zenon DEF Init
    <3> QED
      BY <1>3, <3>1
  <2> QED
    BY <2>1, <2>2, <2>3, Zenon DEF Init, TypeOK, NoIdentities, NoKeys, Idle
<1>6. FilesOK
  BY <1>2, <1>4, ZenonT(30) DEF FilesOK, FileOK, Possible
<1>7. IndexCoherent
  BY <1>4, Zenon DEF Init, IndexCoherent, NoKeys
<1>8. AckedIsDurable
  BY <1>4, Zenon DEF Init, AckedIsDurable, Possible
<1>9. KeyInv
  <2>1. \A i \in Ids, k \in Keys : Holds(i, k) => i[1] \in old /\ i = <<i[1], NoAccount>> /\ k = key[i[1]]
    BY <1>2, <1>4, Zenon DEF Holds, Carries, Possible, Init, Idle
  <2> QED
    BY <1>1, <2>1 DEF KeyInv
<1>10. MemoryOK /\ PhaseInv /\ OpInv
  BY <1>4, Zenon DEF Init, MemoryOK, MemOK, PhaseInv, OpInv, Idle
<1> QED
  BY <1>5, <1>6, <1>7, <1>8, <1>9, <1>10 DEF Inv

-----------------------------------------------------------------------------
(* Steps that end the process                                              *)

\* Losing memory keeps the invariant as long as the files that remain are
\* among those a restart could already find, or among the acknowledged and
\* attempted contents.
LEMMA StopStep ==
    ASSUME Inv, Stop, UNCHANGED <<cipher, used, outcome>>,
           disk' \in [Ids -> Persisted \cup {None}],
           shadow' \in [Ids -> SUBSET (Persisted \cup {None})],
           \A i \in Ids : \A p \in Possible(i)' :
             FileOK(i, p) /\ FileContent(p) \in outcome[i]
             /\ (p # None => \E q \in Possible(i) : q # None /\ q.clientKeyHash = p.clientKeyHash)
    PROVE  Inv'
<1>1. TypeOK'
  BY DEF Inv, TypeOK, Stop, Idle, NoIdentities, NoKeys
<1>2. IndexCoherent'
  BY DEF Stop, IndexCoherent, NoIdentities, NoKeys
<1>3. AckedIsDurable'
  BY DEF Stop, AckedIsDurable
<1>4. FilesOK'
  BY Zenon DEF FilesOK, FileOK
<1>5. MemoryOK'
  BY DEF Stop, MemoryOK, MemOK, Idle, NoIdentities
<1>6. KeyInv'
  <2>1. ASSUME NEW i \in Ids, NEW k \in Keys, Holds(i, k)' PROVE Holds(i, k)
    <3>1. byID'[i] = None /\ op'.rec = None /\ op'.previous = None
      BY DEF Stop, Idle, NoIdentities
    <3>2. PICK p \in Possible(i)' : Carries(p, i, k)
      BY <2>1, <3>1 DEF Holds, Carries
    <3>3. PICK q \in Possible(i) : q # None /\ q.clientKeyHash = k
      BY <3>2 DEF Carries
    <3>4. q.id = i
      BY <3>3, Zenon DEF Inv, FilesOK, FileOK
    <3> QED
      BY <3>3, <3>4 DEF Holds, Carries
  <2> QED
    BY <2>1, KeyFrame DEF Inv
<1>7. PhaseInv' /\ OpInv'
  BY DEF Stop, PhaseInv, OpInv, Idle
<1> QED
  BY <1>1, <1>2, <1>3, <1>4, <1>5, <1>6, <1>7 DEF Inv

\* A crash and a rejected file change no file.
LEMMA CrashStep == Inv /\ (Crash \/ \E i \in Ids : LoadRejected(i)) => Inv'
<1> SUFFICES ASSUME Inv, Stop, UNCHANGED <<disk, shadow, cipher, used, outcome>> PROVE Inv'
  BY DEF Crash, LoadRejected
<1>1. \A i \in Ids : Possible(i)' = Possible(i)
  BY DEF Possible
<1>2. \A i \in Ids : \A p \in Possible(i) : FileOK(i, p) /\ FileContent(p) \in outcome[i]
  BY DEF Inv, FilesOK, AckedIsDurable
<1>3. disk' \in [Ids -> Persisted \cup {None}] /\ shadow' \in [Ids -> SUBSET (Persisted \cup {None})]
  BY DEF Inv, TypeOK
<1> QED
  BY <1>1, <1>2, <1>3, StopStep

\* A power loss leaves, for each identity, one of the contents possible before.
LEMMA PowerLossStep == Inv /\ PowerLoss => Inv'
<1> SUFFICES ASSUME Inv, PowerLoss PROVE Inv'
  OBVIOUS
<1>1. PICK old \in SUBSET {i \in Ids : shadow[i] # {}} :
      \E pick \in [old -> UNION {shadow[i] : i \in Ids}] :
         /\ \A i \in old : pick[i] \in shadow[i]
         /\ disk' = [i \in Ids |-> IF i \in old THEN pick[i] ELSE disk[i]]
  BY DEF PowerLoss
<1>2. PICK pick \in [old -> UNION {shadow[i] : i \in Ids}] :
         /\ \A i \in old : pick[i] \in shadow[i]
         /\ disk' = [i \in Ids |-> IF i \in old THEN pick[i] ELSE disk[i]]
  BY <1>1
<1>3. \A i \in Ids : disk'[i] \in Possible(i)
  BY <1>2 DEF Possible
<1>4. \A i \in Ids : shadow'[i] = {}
  BY DEF PowerLoss
<1>5. \A i \in Ids : Possible(i)' \subseteq Possible(i)
  BY <1>3, <1>4 DEF Possible
<1>6. \A i \in Ids : \A p \in Possible(i) : FileOK(i, p) /\ FileContent(p) \in outcome[i]
  BY DEF Inv, FilesOK, AckedIsDurable
<1>7. \A i \in Ids : Possible(i) \subseteq Persisted \cup {None}
  BY DEF Inv, TypeOK, Possible
<1>8. disk' \in [Ids -> Persisted \cup {None}] /\ shadow' \in [Ids -> SUBSET (Persisted \cup {None})]
  BY <1>2, <1>3, <1>7 DEF PowerLoss
<1> QED
  BY <1>5, <1>6, <1>8, StopStep DEF PowerLoss

\* A failed migration leaves the old file, or the encrypted one over it.
LEMMA MigrateFailsStep == ASSUME NEW i \in Ids, Inv, MigrateFails(i) PROVE Inv'
<1> DEFINE p == disk[i]
           q == encodeIdentity(Migrated(disk[i]))
<1>1. p \in Persisted /\ p # None /\ p.id = i /\ cipher \in BOOLEAN
  BY Zenon DEF Inv, TypeOK, PhaseInv, MigrateFails, FilesOK, FileOK, Possible
<1>2. /\ q \in Persisted /\ FileOK(i, q) /\ q.clientKeyHash = p.clientKeyHash
      /\ FileContent(q) = FileContent(p)
  BY <1>1, MigratedFacts, EncodeFacts, Zenon DEF MigrateFails, FileOK
<1>3. \A j \in Ids : \A f \in Possible(j) : FileOK(j, f) /\ FileContent(f) \in outcome[j]
  BY DEF Inv, FilesOK, AckedIsDurable
<1>4. \A j \in Ids : Possible(j)' \subseteq Possible(j) \cup (IF j = i THEN {q} ELSE {})
  BY DEF Possible, MigrateFails, RenameInto, Inv, TypeOK
<1>5. disk' \in [Ids -> Persisted \cup {None}] /\ shadow' \in [Ids -> SUBSET (Persisted \cup {None})]
  BY <1>2 DEF MigrateFails, RenameInto, Inv, TypeOK
<1>6. p \in Possible(i)
  BY DEF Possible
<1> QED
  BY <1>1, <1>2, <1>3, <1>4, <1>5, <1>6, StopStep DEF MigrateFails

-----------------------------------------------------------------------------
(* Open                                                                    *)

\* Open starts with empty maps and every file to be loaded.
LEMMA StartOpenStep == Inv /\ StartOpen => Inv'
<1> SUFFICES ASSUME Inv, StartOpen PROVE Inv'
  OBVIOUS
<1>1. byID = NoIdentities /\ byKeyHash = NoKeys /\ op = Idle
  BY DEF Inv, PhaseInv, StartOpen
<1>2. TypeOK'
  BY DEF Inv, TypeOK, StartOpen
<1>3. IndexCoherent' /\ FilesOK' /\ \A i \in Ids : Possible(i)' = Possible(i)
  BY FilesFrame, MapsFrame DEF StartOpen
<1>7. KeyInv' /\ AckedIsDurable'
  <2>1. \A i \in Ids, k \in Keys : Holds(i, k)' => Holds(i, k)
    BY <1>3 DEF StartOpen, Holds
  <2> QED
    BY <1>3, <2>1, KeyFrame DEF Inv, StartOpen, AckedIsDurable
<1>4. MemoryOK'
  BY <1>1 DEF StartOpen, MemoryOK, MemOK, Idle, NoIdentities
<1>5. PhaseInv'
  BY <1>1 DEF StartOpen, PhaseInv, NoIdentities, Content, FileContent, Sealed
<1>6. OpInv'
  BY <1>1 DEF StartOpen, OpInv, Idle
<1> QED
  BY <1>2, <1>3, <1>4, <1>5, <1>6, <1>7 DEF Inv

\* Open returns: what was loaded agrees with the disk.
LEMMA FinishOpenStep == Inv /\ FinishOpen => Inv'
<1> SUFFICES ASSUME Inv, FinishOpen PROVE Inv'
  OBVIOUS
<1>1. op = Idle
  BY DEF Inv, PhaseInv, FinishOpen
<1>2. TypeOK'
  BY DEF Inv, TypeOK, FinishOpen
<1>3. IndexCoherent' /\ FilesOK' /\ \A i \in Ids : Possible(i)' = Possible(i)
  BY FilesFrame, MapsFrame DEF FinishOpen
<1>8. KeyInv'
  <2>1. \A i \in Ids, k \in Keys : Holds(i, k)' => Holds(i, k)
    BY <1>3 DEF FinishOpen, Holds
  <2> QED
    BY <2>1, KeyFrame DEF Inv, FinishOpen
<1>4. AckedIsDurable'
  BY DEF Inv, FinishOpen, AckedIsDurable, Possible, PhaseInv
<1>5. MemoryOK'
  BY DEF Inv, FinishOpen, MemoryOK, MemOK, Encodable
<1>6. PhaseInv'
  BY <1>1 DEF Inv, FinishOpen, PhaseInv, Sealed
<1>7. OpInv'
  BY <1>1 DEF FinishOpen, OpInv, Idle
<1> QED
  BY <1>2, <1>3, <1>4, <1>5, <1>6, <1>7, <1>8 DEF Inv

\* Loading one file, migrated (the sync clears every shadow) or as it is.
LEMMA RegisterStep ==
    ASSUME NEW i \in Ids, NEW r \in Identity, Inv,
           phase = "opening", i \in todo, Acceptable(disk[i]), Register(i, r),
           r.id = i, r.clientKeyHash = disk[i].clientKeyHash, Encodable(r),
           disk'[i] \in Persisted, FileOK(i, disk'[i]), disk'[i] # None,
           disk'[i].clientKeyHash = disk[i].clientKeyHash,
           cipher => disk'[i].token = NoToken,
           FileContent(disk'[i]) = FileContent(disk[i]), Content(r) = FileContent(disk[i]),
           disk' = [disk EXCEPT ![i] = disk'[i]],
           shadow' = shadow \/ shadow' = [j \in Ids |-> {}],
           UNCHANGED <<cipher, phase, used, op, outcome>>
    PROVE  Inv'
<1>1. op = Idle /\ disk[i] \in Persisted /\ disk[i] # None /\ disk[i].id = i /\ byID[i] = None
  BY ZenonT(30) DEF Inv, PhaseInv, TypeOK, FilesOK, FileOK, Possible
<1>2. byKeyHash[r.clientKeyHash] = None /\ r.clientKeyHash \in Keys /\ r # None
  BY ContentFacts, Zenon DEF Acceptable, Identity
<1>3. \A j \in Ids : Possible(j)' \subseteq Possible(j) \cup (IF j = i THEN {disk'[i]} ELSE {})
  BY Zenon DEF Possible, Inv, TypeOK
<1>4. TypeOK'
  BY Zenon DEF Inv, TypeOK, Register
<1>5. IndexCoherent'
  <2>1. byID' = [byID EXCEPT ![i] = r] /\ byKeyHash' = [byKeyHash EXCEPT ![r.clientKeyHash] = r]
    BY Zenon DEF Register
  <2>2. ASSUME NEW j \in Ids, byID'[j] # None
        PROVE  byID'[j].id = j /\ byKeyHash'[byID'[j].clientKeyHash] = byID'[j]
    BY <1>2, <2>1, <2>2, SMTT(30) DEF Inv, TypeOK, IndexCoherent
  <2>3. ASSUME NEW k \in Keys, byKeyHash'[k] # None
        PROVE  byKeyHash'[k].clientKeyHash = k /\ byID'[byKeyHash'[k].id] = byKeyHash'[k]
    BY <1>1, <1>2, <2>1, <2>3, SMTT(30) DEF Inv, TypeOK, IndexCoherent
  <2> QED
    BY <2>2, <2>3, Zenon DEF IndexCoherent
<1>6. AckedIsDurable'
  <2>1. FileContent(disk[i]) \in outcome[i]
    BY Zenon DEF Inv, AckedIsDurable, Possible
  <2> QED
    BY <1>3, <2>1, Zenon DEF Inv, AckedIsDurable
<1>7. FilesOK'
  BY <1>3, Zenon DEF Inv, FilesOK, FileOK
<1>8. MemoryOK'
  BY <1>1, Zenon DEF Inv, MemoryOK, MemOK, Encodable, Register, TypeOK
<1>9. KeyInv'
  <2>1. Holds(i, r.clientKeyHash)
    BY <1>1, Zenon DEF Holds, Carries, Possible
  <2>2. ASSUME NEW j \in Ids, NEW k \in Keys, Holds(j, k)' PROVE Holds(j, k)
    <3>1. byID'[j] = IF j = i THEN r ELSE byID[j]
      BY Zenon DEF Register, Inv, TypeOK
    <3> QED
      BY <1>3, <2>1, <2>2, <3>1 DEF Holds, Carries
  <2> QED
    BY <2>2, KeyFrame, Zenon DEF Inv
<1>10. PhaseInv'
  <2>1. ASSUME NEW j \in Ids
        PROVE  /\ j \in todo' => disk'[j] # None /\ byID'[j] = None
               /\ j \notin todo' => Content(byID'[j]) = FileContent(disk'[j]) /\ Sealed(j)'
    <3>1. CASE j = i
      BY <3>1, Zenon DEF Inv, TypeOK, Register, Sealed
    <3>2. CASE j # i
      <4>1. disk'[j] = disk[j] /\ byID'[j] = byID[j] /\ (j \in todo' <=> j \in todo)
        BY <3>2, Zenon DEF Inv, TypeOK, Register
      <4> QED
        BY <4>1, Zenon DEF Inv, PhaseInv, Sealed
    <3> QED
      BY <3>1, <3>2, Zenon
  <2> QED
    BY <1>1, <2>1, Zenon DEF PhaseInv
<1>11. OpInv'
  BY <1>1, Zenon DEF OpInv, Idle
<1> QED
  BY <1>4, <1>5, <1>6, <1>7, <1>8, <1>9, <1>10, <1>11 DEF Inv

\* Open loads a file that needs no migration.
LEMMA LoadFileStep == ASSUME NEW i \in Ids, Inv, LoadFile(i) PROVE Inv'
<1> DEFINE r == decodeIdentity(disk[i])
<1>1. disk[i] \in Persisted /\ disk[i] # None /\ FileOK(i, disk[i]) /\ cipher \in BOOLEAN
      /\ disk = [disk EXCEPT ![i] = disk[i]]
  BY DEF Inv, TypeOK, PhaseInv, LoadFile, FilesOK, Possible
<1>2. r \in Identity /\ r.id = i /\ r.clientKeyHash = disk[i].clientKeyHash /\ r.version = disk[i].version
  BY <1>1, DecodeFacts DEF LoadFile, Acceptable, FileOK
<1>3. Encodable(r) /\ (cipher => disk[i].token = NoToken)
  BY <1>1, <1>2 DEF LoadFile, Acceptable, MustMigrate, Encodable, Decodable
<1>4. Content(r) = FileContent(disk[i])
  BY <1>1 DEF FileContent
<1> QED
  BY <1>1, <1>2, <1>3, <1>4, RegisterStep DEF LoadFile

\* Open rewrites a file and loads it.
LEMMA MigrateFileStep == ASSUME NEW i \in Ids, Inv, MigrateFile(i) PROVE Inv'
<1> DEFINE r == Migrated(disk[i])
<1>1. disk[i] \in Persisted /\ disk[i] # None /\ disk[i].id = i /\ cipher \in BOOLEAN
  BY Zenon DEF Inv, TypeOK, PhaseInv, MigrateFile, FilesOK, FileOK, Possible
<1>2. /\ r \in Identity /\ Encodable(r) /\ r.id = i /\ r.clientKeyHash = disk[i].clientKeyHash
      /\ Content(r) = FileContent(disk[i])
  BY <1>1, MigratedFacts, Zenon DEF MigrateFile
<1>3. disk'[i] = encodeIdentity(r) /\ disk' = [disk EXCEPT ![i] = disk'[i]]
  BY DEF Inv, TypeOK, MigrateFile
<1>4. /\ disk'[i] \in Persisted /\ disk'[i] # None /\ FileOK(i, disk'[i])
      /\ disk'[i].clientKeyHash = disk[i].clientKeyHash
      /\ FileContent(disk'[i]) = FileContent(disk[i])
      /\ cipher => disk'[i].token = NoToken
  BY <1>1, <1>2, <1>3, EncodeFacts, Zenon DEF FileOK
<1> QED
  BY <1>2, <1>3, <1>4, RegisterStep, Zenon DEF MigrateFile

-----------------------------------------------------------------------------
(* Starting a mutation                                                     *)

\* An operation that will write r starts: r is already known under its key, or
\* its key is fresh.
LEMMA BeginWriteStep ==
    ASSUME Inv, NEW kind \in {"import", "update", "restore"}, NEW r \in Identity,
           NEW old \in Identity \cup {None},
           phase = "up", Encodable(r), MemOK(old),
           op' = Mutation(kind, "write", r, old), MayBecome(r.id, r),
           old # None => Holds(old.id, old.clientKeyHash),
           \/ Holds(r.id, r.clientKeyHash) /\ used' = used
           \/ r.clientKeyHash \notin used /\ used' = used \cup {r.clientKeyHash},
           UNCHANGED <<disk, shadow, cipher, phase, todo, byID, byKeyHash>>
    PROVE  Inv'
<1>1. r # None /\ r.id \in Ids /\ r.clientKeyHash \in Keys /\ Content(r) \in Identity
  BY ContentFacts DEF Identity
<1>2. /\ op'.kind = kind /\ op'.stage = "write" /\ op'.rec = r /\ op'.previous = old
      /\ op' # Idle
  BY <1>1 DEF Mutation, Idle
<1>3. /\ Content(r) \in outcome'[r.id]
      /\ \A i \in Ids : outcome[i] \subseteq outcome'[i]
  BY <1>1 DEF MayBecome, Inv, TypeOK
<1>4. IndexCoherent' /\ FilesOK' /\ \A i \in Ids : Possible(i)' = Possible(i)
  BY FilesFrame, MapsFrame
<1>5. TypeOK'
  <2>1. outcome' \in [Ids -> SUBSET (Identity \cup {None})]
    BY <1>1, Zenon DEF MayBecome, Inv, TypeOK
  <2>2. used' \in SUBSET Keys
    BY <1>1 DEF Inv, TypeOK
  <2>3. op' \in [kind : {"none", "import", "update", "restore", "delete"},
              stage : {"idle", "write", "remove", "sync", "publish", "cpa"},
              rec : Identity \cup {None}, previous : Identity \cup {None}]
    BY DEF Mutation
  <2> QED
    BY <1>1, <1>2, <2>1, <2>2, <2>3, Zenon DEF Inv, TypeOK
<1>6. AckedIsDurable'
  BY <1>3, <1>4, Zenon DEF Inv, AckedIsDurable
<1>7. MemoryOK'
  BY <1>2, Zenon DEF Inv, MemoryOK, MemOK, Encodable
<1>8. KeyInv'
  <2>1. ASSUME NEW i \in Ids, NEW k \in Keys, Holds(i, k)'
        PROVE  Holds(i, k) \/ (i = r.id /\ k = r.clientKeyHash)
    BY <1>2, <1>4, <2>1, Zenon DEF Holds, Carries
  <2>2. CASE Holds(r.id, r.clientKeyHash) /\ used' = used
    BY <2>1, <2>2, KeyFrame DEF Inv
  <2>3. CASE r.clientKeyHash \notin used /\ used' = used \cup {r.clientKeyHash}
    <3>1. \A i \in Ids : ~Holds(i, r.clientKeyHash)
      BY <1>1, <2>3 DEF Inv, KeyInv
    <3> QED
      BY <2>1, <2>3, <3>1 DEF Inv, KeyInv
  <2> QED
    BY <2>2, <2>3
<1>9. PhaseInv'
  BY Zenon DEF Inv, PhaseInv, Sealed
<1>10. OpInv'
  BY <1>2, <1>3, Zenon DEF OpInv, Target
<1> QED
  BY <1>4, <1>5, <1>6, <1>7, <1>8, <1>9, <1>10 DEF Inv

\* A listed identity is well formed and holds its key.
LEMMA ListedFacts ==
    ASSUME Inv, NEW i \in Ids, byID[i] # None
    PROVE  /\ byID[i] \in Identity /\ byID[i].id = i /\ Encodable(byID[i])
           /\ byID[i].clientKeyHash \in Keys
           /\ Holds(i, byID[i].clientKeyHash)
<1>1. byID[i] \in Identity /\ byID[i].id = i /\ Encodable(byID[i])
  BY DEF Inv, TypeOK, IndexCoherent, MemoryOK, MemOK
<1> QED
  BY <1>1, Zenon DEF Identity, Holds, Carries

\* ImportWithMetadata draws a fresh key and starts to write.
LEMMA ImportStep ==
    ASSUME NEW t \in Tokens, NEW selected \in Accounts \cup {NoAccount},
           NEW reported \in Accounts \cup {NoAccount},
           Inv, ImportWithMetadata(t, selected, reported)
    PROVE  Inv'
<1>1. PICK key \in Keys \ used :
         LET new == NewIdentity(t, selected, reported, key) IN
         /\ used' = used \cup {key}
         /\ op' = Mutation("import", "write", new, LookupByTokenAndAccount(t, selected))
         /\ MayBecome(new.id, new)
  BY DEF ImportWithMetadata
<1> DEFINE new == NewIdentity(t, selected, reported, key)
           old == LookupByTokenAndAccount(t, selected)
<1>2. cipher \in BOOLEAN /\ phase = "up"
  BY DEF Inv, TypeOK, ImportWithMetadata, MayMutate
<1>3. new \in Identity /\ new.clientKeyHash = key
  BY <1>2 DEF NewIdentity, Identity, Ids, IdentityIDForAccount, LegacyHash, Plaintext, Encrypted
<1>4. Encodable(new)
  <2>1. /\ new.version = IF cipher THEN Encrypted ELSE Plaintext
        /\ new.id = <<t, selected>> /\ new.token = t
        /\ new.clientKey = key /\ new.clientKeyHash = key
        /\ new.accountID = IF selected # NoAccount THEN selected ELSE reported
        /\ new.accountScoped = (selected # NoAccount)
    BY Zenon DEF NewIdentity, IdentityIDForAccount
  <2> HIDE DEF new
  <2>2. validIdentity(new)
    BY <2>1, NoKeyAssumption, Zenon DEF validIdentity, IdentityIDForAccount, IdentityID
  <2> QED
    BY <2>1, <2>2 DEF Encodable, Plaintext, Encrypted
<1>5. /\ old \in Identity \cup {None} /\ MemOK(old)
      /\ old # None => Holds(old.id, old.clientKeyHash)
  <2>1. IdentityID(t) \in Ids /\ IdentityIDForAccount(t, selected) \in Ids
    BY DEF Ids, IdentityID, IdentityIDForAccount
  <2>2. old = None \/ \E i \in Ids : byID[i] # None /\ old = byID[i]
    BY <2>1 DEF LookupByTokenAndAccount
  <2> QED
    BY <2>2, ListedFacts, Zenon DEF MemOK
<1> HIDE DEF new, old
<1>6. used' = used \cup {new.clientKeyHash} /\ new.clientKeyHash \notin used
      /\ op' = Mutation("import", "write", new, old) /\ MayBecome(new.id, new)
  BY <1>1, <1>3, Zenon DEF new, old
<1> QED
  BY <1>2, <1>3, <1>4, <1>5, <1>6, BeginWriteStep, Zenon DEF ImportWithMetadata

\* UpdateMetadata starts to write the record with new metadata.
LEMMA UpdateStep ==
    ASSUME NEW i \in Ids, NEW reported \in Accounts \cup {NoAccount},
           Inv, UpdateMetadata(i, reported)
    PROVE  Inv'
<1> DEFINE r == Refreshed(i, reported)
<1>1. byID[i] # None /\ phase = "up"
  BY DEF UpdateMetadata, MayMutate
<1>2. r \in Identity /\ r.id = i /\ r.clientKeyHash = byID[i].clientKeyHash
  BY <1>1, ListedFacts DEF Refreshed, Identity
<1>3. Holds(r.id, r.clientKeyHash) /\ Encodable(r)
  BY <1>1, <1>2, ListedFacts, Zenon DEF UpdateMetadata
<1>4. op' = Mutation("update", "write", r, None) /\ MayBecome(r.id, r)
  BY <1>2, Zenon DEF UpdateMetadata
<1> HIDE DEF r
<1> QED
  BY <1>1, <1>2, <1>3, <1>4, BeginWriteStep, Zenon DEF UpdateMetadata, MemOK

\* Restore starts to write the previous record.
LEMMA RestoreStep == Inv /\ Restore => Inv'
<1> SUFFICES ASSUME Inv, Restore PROVE Inv'
  OBVIOUS
<1> DEFINE p == op.previous
           r == [op.previous EXCEPT !.version = IF cipher THEN Encrypted ELSE @]
<1>1. /\ p \in Identity /\ Encodable(p) /\ op.rec \in Identity /\ MemOK(op.rec)
      /\ cipher \in BOOLEAN /\ phase = "up"
  BY DEF Inv, TypeOK, Restore, MemoryOK, MemOK, PhaseInv, OpInv, Idle
<1>2. r \in Identity /\ r.id = p.id /\ r.clientKeyHash = p.clientKeyHash
  BY <1>1 DEF Identity, LegacyHash, Encrypted
<1>3. Encodable(r)
  BY <1>1 DEF Identity, Encodable, validIdentity, LegacyHash, Encrypted
<1>4. Holds(r.id, r.clientKeyHash)
  BY <1>2 DEF Holds, Carries, Restore
<1>5. Holds(op.rec.id, op.rec.clientKeyHash)
  BY <1>1, ContentFacts, Zenon DEF Holds, Carries
<1>6. op' = Mutation("restore", "write", r, op.rec) /\ MayBecome(r.id, r)
  BY DEF Restore
<1> HIDE DEF r
<1> QED
  BY <1>1, <1>2, <1>3, <1>4, <1>5, <1>6, BeginWriteStep DEF Restore

\* Delete, and the rollback of an import that had no predecessor.
LEMMA ForgetStep ==
    ASSUME Inv, NEW i \in Ids, byID[i] # None, phase = "up", Forget(i),
           UNCHANGED <<disk, shadow, cipher, phase, todo, used>>
    PROVE  Inv'
<1> DEFINE r == byID[i]
<1>1. /\ r \in Identity /\ r.id = i /\ Encodable(r) /\ r.clientKeyHash \in Keys
      /\ Holds(i, r.clientKeyHash)
  BY ListedFacts
<1>2. /\ byID' \in [Ids -> Identity \cup {None}] /\ byKeyHash' \in [Keys -> Identity \cup {None}]
      /\ \A j \in Ids : byID'[j] = IF j = i THEN None ELSE byID[j]
      /\ \A k \in Keys : byKeyHash'[k] = IF k = r.clientKeyHash THEN None ELSE byKeyHash[k]
  BY <1>1, Zenon DEF Forget, Inv, TypeOK
<1>3. /\ op'.kind = "delete" /\ op'.stage = "remove" /\ op'.rec = r /\ op'.previous = None
      /\ op' # Idle
  BY DEF Forget, Mutation, Idle
<1>4. /\ outcome' \in [Ids -> SUBSET (Identity \cup {None})]
      /\ None \in outcome'[i]
      /\ \A j \in Ids : outcome[j] \subseteq outcome'[j]
  BY DEF Forget, MayBecome, Content, Inv, TypeOK
<1>5. FilesOK' /\ \A j \in Ids : Possible(j)' = Possible(j)
  BY FilesFrame DEF Possible
<1>6. TypeOK'
  <2>1. op' \in [kind : {"none", "import", "update", "restore", "delete"},
              stage : {"idle", "write", "remove", "sync", "publish", "cpa"},
              rec : Identity \cup {None}, previous : Identity \cup {None}]
    BY <1>1, Zenon DEF Forget, Mutation
  <2> QED
    BY <1>2, <1>3, <1>4, <2>1, Zenon DEF Inv, TypeOK
<1>7. IndexCoherent'
  <2>1. ASSUME NEW j \in Ids, byID'[j] # None
        PROVE  byID'[j].id = j /\ byKeyHash'[byID'[j].clientKeyHash] = byID'[j]
    <3>1. j # i /\ byID'[j] = byID[j] /\ byID[j] # None
      BY <1>2, <2>1
    <3>2. byID[j].clientKeyHash \in Keys /\ Holds(j, byID[j].clientKeyHash)
      BY <3>1, ListedFacts
    <3>3. byID[j].clientKeyHash # r.clientKeyHash
      BY <1>1, <3>1, <3>2, Zenon DEF Inv, KeyInv
    <3> QED
      BY <1>2, <3>1, <3>2, <3>3 DEF Inv, IndexCoherent
  <2>2. ASSUME NEW k \in Keys, byKeyHash'[k] # None
        PROVE  byKeyHash'[k].clientKeyHash = k /\ byID'[byKeyHash'[k].id] = byKeyHash'[k]
    <3>1. k # r.clientKeyHash /\ byKeyHash'[k] = byKeyHash[k] /\ byKeyHash[k] # None
      BY <1>2, <2>2, Zenon
    <3>2. /\ byKeyHash[k] \in Identity /\ byKeyHash[k].id \in Ids
          /\ byKeyHash[k].clientKeyHash = k /\ byID[byKeyHash[k].id] = byKeyHash[k]
      BY <3>1, Zenon DEF Inv, TypeOK, IndexCoherent, Identity
    <3>3. byKeyHash[k].id # i
      BY <3>1, <3>2, Zenon
    <3> QED
      BY <1>2, <3>1, <3>2, <3>3, Zenon
  <2> QED
    BY <2>1, <2>2, Zenon DEF IndexCoherent
<1>8. AckedIsDurable'
  BY <1>2, <1>4, <1>5, Zenon DEF Inv, AckedIsDurable, Content
<1>9. MemoryOK'
  BY <1>1, <1>2, <1>3, Zenon DEF Inv, MemoryOK, MemOK, Encodable
<1>10. KeyInv'
  <2>1. ASSUME NEW j \in Ids, NEW k \in Keys, Holds(j, k)'
        PROVE  Holds(j, k)
    <3>1. CASE \E p \in Possible(j)' : Carries(p, j, k)
      BY <1>5, <3>1, Zenon DEF Holds
    <3>2. CASE Carries(byID'[j], j, k)
      BY <1>2, <3>2, Zenon DEF Holds, Carries
    <3>3. CASE Carries(op'.rec, j, k)
      BY <1>1, <1>3, <3>3, Zenon DEF Holds, Carries
    <3>4. ~Carries(op'.previous, j, k)
      BY <1>3, Zenon DEF Carries
    <3> QED
      BY <2>1, <3>1, <3>2, <3>3, <3>4, Zenon DEF Holds
  <2> QED
    BY <2>1, KeyFrame DEF Inv
<1>11. PhaseInv'
  BY Zenon DEF Inv, PhaseInv, Sealed
<1>12. OpInv'
  BY <1>1, <1>2, <1>3, <1>4, Zenon DEF OpInv, Target
<1> QED
  BY <1>5, <1>6, <1>7, <1>8, <1>9, <1>10, <1>11, <1>12 DEF Inv

-----------------------------------------------------------------------------
(* The steps of a mutation in flight                                       *)

\* The operation ends and changes nothing else.
LEMMA EndStep ==
    ASSUME Inv, op' = Idle,
           UNCHANGED <<disk, shadow, cipher, phase, todo, byID, byKeyHash, used, outcome>>
    PROVE  Inv'
<1>1. op'.kind = "none" /\ op'.stage = "idle" /\ op'.rec = None /\ op'.previous = None
  BY DEF Idle
<1>2. FilesOK' /\ IndexCoherent' /\ \A j \in Ids : Possible(j)' = Possible(j)
  BY FilesFrame, MapsFrame
<1>3. TypeOK'
  BY <1>1, Zenon DEF Inv, TypeOK, Idle
<1>4. AckedIsDurable'
  BY <1>2 DEF Inv, AckedIsDurable
<1>5. MemoryOK'
  BY <1>1, Zenon DEF Inv, MemoryOK, MemOK, Encodable
<1>6. KeyInv'
  <2>1. \A j \in Ids, k \in Keys : Holds(j, k)' => Holds(j, k)
    BY <1>1, <1>2, Zenon DEF Holds, Carries
  <2> QED
    BY <2>1, KeyFrame DEF Inv
<1>7. PhaseInv' /\ OpInv'
  BY <1>1, Zenon DEF Inv, PhaseInv, Sealed, OpInv
<1> QED
  BY <1>2, <1>3, <1>4, <1>5, <1>6, <1>7 DEF Inv

\* The identity that a mutation in flight is about.
LEMMA TargetFacts ==
    ASSUME Inv, op.stage # "idle"
    PROVE  /\ op.rec \in Identity /\ op.rec # None /\ Target \in Ids /\ Encodable(op.rec)
           /\ op.rec.clientKeyHash \in Keys /\ Holds(Target, op.rec.clientKeyHash)
           /\ op # Idle /\ phase = "up" /\ cipher \in BOOLEAN
<1>1. op.rec \in Identity /\ op.rec # None /\ op # Idle
  BY Zenon DEF Inv, TypeOK, OpInv
<1> QED
  BY <1>1, Zenon DEF Inv, TypeOK, MemoryOK, MemOK, PhaseInv, Target, Identity, Holds, Carries

\* The stage advances and nothing else of op changes.
LEMMA StageFacts ==
    ASSUME Inv, NEW s \in {"sync", "publish", "cpa"}, op.stage # "idle",
           op' = [op EXCEPT !.stage = s]
    PROVE  /\ op'.kind = op.kind /\ op'.stage = s /\ op'.rec = op.rec
           /\ op'.previous = op.previous /\ op' # Idle /\ op'.rec # None /\ Target' = Target
           /\ op' \in [kind : {"none", "import", "update", "restore", "delete"},
                        stage : {"idle", "write", "remove", "sync", "publish", "cpa"},
                        rec : Identity \cup {None}, previous : Identity \cup {None}]
BY TargetFacts DEF Inv, TypeOK, Idle, Target

\* Rename and Remove: p becomes visible and the old file goes to the shadow.
LEMMA ReplaceStep ==
    ASSUME Inv, op.stage \in {"write", "remove"},
           NEW p \in Persisted \cup {None},
           p = IF op.kind = "delete" THEN None ELSE encodeIdentity(op.rec),
           RenameInto(Target, p), op' = [op EXCEPT !.stage = "sync"],
           UNCHANGED <<cipher, phase, todo, byID, byKeyHash, used, outcome>>
    PROVE  Inv'
<1> DEFINE r == op.rec
<1>1. /\ r \in Identity /\ Target \in Ids /\ Encodable(r) /\ Target = r.id
      /\ Holds(Target, r.clientKeyHash) /\ phase = "up" /\ cipher \in BOOLEAN
  BY TargetFacts DEF Target
<1>2. /\ op'.kind = op.kind /\ op'.stage = "sync" /\ op'.rec = r
      /\ op'.previous = op.previous /\ op' # Idle /\ op'.rec # None /\ Target' = Target
  BY StageFacts
<1>3. /\ disk' \in [Ids -> Persisted \cup {None}]
      /\ shadow' \in [Ids -> SUBSET (Persisted \cup {None})]
      /\ disk'[Target] = p
      /\ \A j \in Ids : j # Target => disk'[j] = disk[j]
      /\ \A j \in Ids : Possible(j)' = IF j = Target THEN Possible(j) \cup {p} ELSE Possible(j)
  BY <1>1 DEF RenameInto, Inv, TypeOK, Possible
<1>4. op.kind # "delete" =>
        /\ p.id = Target /\ p.clientKeyHash = r.clientKeyHash
        /\ Decodable(p, TRUE) /\ validIdentity(decodeIdentity(p))
        /\ FileContent(p) = Content(r) /\ (cipher => p.token = NoToken)
  BY <1>1, EncodeFacts, Zenon
<1>5. FileContent(p) \in outcome[Target]
  BY <1>4, Zenon DEF Inv, OpInv, FileContent
<1>6. FileOK(Target, p)
  BY <1>4, Zenon DEF FileOK
<1>7. TypeOK'
  BY <1>2, <1>3, StageFacts DEF Inv, TypeOK
<1>8. IndexCoherent'
  BY MapsFrame
<1>9. AckedIsDurable'
  BY <1>3, <1>5 DEF Inv, AckedIsDurable
<1>10. FilesOK'
  <2>1. \A j \in Ids : \A f \in Possible(j)' : FileOK(j, f)
    BY <1>3, <1>6 DEF Inv, FilesOK
  <2> QED
    BY <2>1, Zenon DEF FilesOK, FileOK
<1>11. MemoryOK'
  BY <1>2 DEF Inv, MemoryOK, MemOK, Encodable
<1>12. KeyInv'
  <2>1. ASSUME NEW j \in Ids, NEW k \in Keys, Holds(j, k)'
        PROVE  Holds(j, k)
    <3>1. Holds(j, k) \/ (j = Target /\ Carries(p, j, k))
      BY <1>2, <1>3, <2>1 DEF Holds, Carries
    <3>2. Carries(p, j, k) => k = r.clientKeyHash
      BY <1>4, Zenon DEF Carries
    <3> QED
      BY <1>1, <3>1, <3>2
  <2> QED
    BY <2>1, KeyFrame DEF Inv
<1>13. PhaseInv'
  BY <1>1, <1>3, <1>4, Zenon DEF Inv, PhaseInv, Sealed
<1>14. OpInv'
  <2>1. encodeIdentity(r)' = encodeIdentity(r)
    BY <1>2 DEF encodeIdentity
  <2> QED
    BY <1>2, <1>3, <2>1 DEF Inv, OpInv, encodeIdentity
<1> QED
  BY <1>7, <1>8, <1>9, <1>10, <1>11, <1>12, <1>13, <1>14 DEF Inv

\* The new content, or the absence of a deleted file, becomes visible.
LEMMA RenameStep == Inv /\ (Rename \/ Remove) => Inv'
<1>1. ASSUME Inv, Rename PROVE Inv'
  <2>1. encodeIdentity(op.rec) \in Persisted /\ op.kind # "delete"
    BY <1>1, TargetFacts, EncodeFacts, Zenon DEF Rename, Inv, OpInv
  <2> QED
    BY <1>1, <2>1, ReplaceStep DEF Rename
<1>2. ASSUME Inv, Remove PROVE Inv'
  <2>1. op.kind = "delete"
    BY <1>2 DEF Remove, Inv, OpInv
  <2> QED
    BY <1>2, <2>1, ReplaceStep DEF Remove
<1> QED
  BY <1>1, <1>2

\* The directory is synced: older contents can no longer come back.
LEMMA SyncStep == Inv /\ SyncDirectory => Inv'
<1> SUFFICES ASSUME Inv, SyncDirectory PROVE Inv'
  OBVIOUS
<1> DEFINE r == op.rec
<1>1. /\ r \in Identity /\ Target \in Ids /\ Encodable(r) /\ phase = "up" /\ cipher \in BOOLEAN
      /\ op.stage = "sync"
  BY TargetFacts DEF SyncDirectory
<1>2. /\ shadow' \in [Ids -> SUBSET (Persisted \cup {None})]
      /\ \A j \in Ids : shadow'[j] = {} /\ Possible(j)' = {disk[j]}
  BY DEF SyncDirectory, Possible
<1>3. \A j \in Ids : Possible(j)' \subseteq Possible(j)
  BY <1>2 DEF Possible
<1>4. FilesOK' /\ IndexCoherent'
  BY <1>3, MapsFrame, Zenon DEF Inv, FilesOK, FileOK, SyncDirectory
<1>5. CASE op.kind = "delete"
  <2>1. /\ op'.kind = "none" /\ op'.stage = "idle" /\ op'.rec = None /\ op'.previous = None
        /\ op' = Idle
    BY <1>5 DEF SyncDirectory, Idle
  <2>2. /\ outcome' \in [Ids -> SUBSET (Identity \cup {None})]
        /\ outcome'[Target] = {None}
        /\ \A j \in Ids : j # Target => outcome'[j] = outcome[j]
    BY <1>1, <1>5 DEF SyncDirectory, Acknowledge, Content, Inv, TypeOK
  <2>3. disk[Target] = None /\ byID[Target] = None
    BY <1>1, <1>5, Zenon DEF Inv, OpInv
  <2>4. TypeOK'
    BY <1>2, <2>1, <2>2 DEF Inv, TypeOK, SyncDirectory, Idle
  <2>5. AckedIsDurable'
    BY <1>2, <1>3, <2>2, <2>3 DEF Inv, AckedIsDurable, SyncDirectory, Content, FileContent
  <2>6. MemoryOK'
    BY <2>1 DEF Inv, MemoryOK, MemOK, Encodable, SyncDirectory
  <2>7. KeyInv'
    <3>1. \A j \in Ids, k \in Keys : Holds(j, k)' => Holds(j, k)
      BY <1>3, <2>1 DEF Holds, Carries, SyncDirectory
    <3> QED
      BY <3>1, KeyFrame DEF Inv, SyncDirectory
  <2>8. PhaseInv' /\ OpInv'
    BY <1>1, <2>1 DEF Inv, PhaseInv, Sealed, OpInv, SyncDirectory
  <2> QED
    BY <1>4, <2>4, <2>5, <2>6, <2>7, <2>8 DEF Inv
<1>6. CASE op.kind # "delete"
  <2>1. op' = [op EXCEPT !.stage = "publish"] /\ outcome' = outcome
    BY <1>6 DEF SyncDirectory
  <2>2. /\ op'.kind = op.kind /\ op'.stage = "publish" /\ op'.rec = r
        /\ op'.previous = op.previous /\ op' # Idle /\ op'.rec # None /\ Target' = Target
    BY <1>1, <2>1, StageFacts
  <2>3. TypeOK'
    BY <1>1, <1>2, <2>1, <2>2, StageFacts DEF Inv, TypeOK, SyncDirectory
  <2>4. AckedIsDurable'
    BY <1>3, <2>1 DEF Inv, AckedIsDurable, SyncDirectory
  <2>5. MemoryOK'
    BY <2>2 DEF Inv, MemoryOK, MemOK, Encodable, SyncDirectory
  <2>6. KeyInv'
    <3>1. \A j \in Ids, k \in Keys : Holds(j, k)' => Holds(j, k)
      BY <1>3, <2>2 DEF Holds, Carries, SyncDirectory
    <3> QED
      BY <3>1, KeyFrame DEF Inv, SyncDirectory
  <2>7. PhaseInv'
    BY <1>1 DEF Inv, PhaseInv, Sealed, SyncDirectory
  <2>8. OpInv'
    <3>1. disk'[Target] = encodeIdentity(r) /\ shadow'[Target] = {} /\ cipher' = cipher
      BY <1>1, <1>2, <1>6 DEF Inv, OpInv, SyncDirectory
    <3> QED
      BY <1>1, <1>6, <2>1, <2>2, <3>1 DEF Inv, OpInv, encodeIdentity
  <2> QED
    BY <1>4, <2>3, <2>4, <2>5, <2>6, <2>7, <2>8 DEF Inv
<1> QED
  BY <1>5, <1>6

\* Both maps take the record that is on disk.
LEMMA PublishStep == Inv /\ Publish => Inv'
<1> SUFFICES ASSUME Inv, Publish PROVE Inv'
  OBVIOUS
<1> DEFINE r == op.rec
           t == Target
<1>1. /\ r \in Identity /\ r # None /\ t \in Ids /\ t = r.id /\ Encodable(r)
      /\ r.clientKeyHash \in Keys /\ Holds(t, r.clientKeyHash)
      /\ phase = "up" /\ cipher \in BOOLEAN /\ op.stage = "publish"
  BY TargetFacts DEF Publish, Target
<1>2. op.kind # "delete" /\ disk[t] = encodeIdentity(r) /\ shadow[t] = {}
  BY <1>1, Zenon DEF Inv, OpInv
<1>3. /\ byID' \in [Ids -> Identity \cup {None}] /\ byKeyHash' \in [Keys -> Identity \cup {None}]
      /\ byID'[t] = r /\ \A j \in Ids : j # t => byID'[j] = byID[j]
      /\ byKeyHash'[r.clientKeyHash] = r
      /\ \A k \in Keys : k # r.clientKeyHash => byKeyHash'[k] =
           IF byID[t] # None /\ k = byID[t].clientKeyHash THEN None ELSE byKeyHash[k]
  BY <1>1 DEF Publish, Inv, TypeOK
<1>4. /\ outcome' \in [Ids -> SUBSET (Identity \cup {None})]
      /\ outcome'[t] = {Content(r)}
      /\ \A j \in Ids : j # t => outcome'[j] = outcome[j]
  BY <1>1, ContentFacts DEF Publish, Acknowledge, Inv, TypeOK
<1>5. FilesOK' /\ \A j \in Ids : Possible(j)' = Possible(j)
  BY FilesFrame DEF Publish
<1>6. /\ op' = Idle \/ op' = [op EXCEPT !.stage = "cpa"]
      /\ op' \in [kind : {"none", "import", "update", "restore", "delete"},
                   stage : {"idle", "write", "remove", "sync", "publish", "cpa"},
                   rec : Identity \cup {None}, previous : Identity \cup {None}]
      /\ (op'.rec = None) <=> (op' = Idle)
      /\ op'.rec \in {None, r} /\ op'.previous \in {None, op.previous}
      /\ op'.stage = "idle" <=> op' = Idle
      /\ op' # Idle => op'.stage = "cpa" /\ op'.kind = op.kind /\ Target' = t
  <2>1. CASE op.kind = "import"
    <3>1. op' = [op EXCEPT !.stage = "cpa"]
      BY <2>1 DEF Publish
    <3> QED
      BY <1>1, <3>1, StageFacts
  <2>2. CASE op.kind # "import"
    BY <2>2 DEF Publish, Idle
  <2> QED
    BY <2>1, <2>2
<1>7. TypeOK'
  BY <1>3, <1>4, <1>6 DEF Inv, TypeOK, Publish
<1>8. IndexCoherent'
  <2>1. ASSUME NEW j \in Ids, byID'[j] # None
        PROVE  byID'[j].id = j /\ byKeyHash'[byID'[j].clientKeyHash] = byID'[j]
    <3>1. CASE j = t
      BY <1>1, <1>3, <3>1, Zenon
    <3>2. CASE j # t
      <4>1. byID'[j] = byID[j] /\ byID[j] # None
        BY <1>3, <2>1, <3>2, Zenon
      <4>2. byID[j].clientKeyHash \in Keys /\ Holds(j, byID[j].clientKeyHash)
        BY <4>1, ListedFacts, Zenon
      <4>3. byID[j].clientKeyHash # r.clientKeyHash
        BY <1>1, <3>2, <4>2, Zenon DEF Inv, KeyInv
      <4>4. byID[t] # None => byID[j].clientKeyHash # byID[t].clientKeyHash
        BY <1>1, <3>2, <4>2, ListedFacts, Zenon DEF Inv, KeyInv
      <4> QED
        BY <1>3, <4>1, <4>2, <4>3, <4>4 DEF Inv, IndexCoherent
    <3> QED
      BY <3>1, <3>2, Zenon
  <2>2. ASSUME NEW k \in Keys, byKeyHash'[k] # None
        PROVE  byKeyHash'[k].clientKeyHash = k /\ byID'[byKeyHash'[k].id] = byKeyHash'[k]
    <3>1. CASE k = r.clientKeyHash
      BY <1>1, <1>3, <3>1, Zenon
    <3>2. CASE k # r.clientKeyHash
      <4>1. /\ byKeyHash'[k] = byKeyHash[k] /\ byKeyHash[k] # None
            /\ ~(byID[t] # None /\ k = byID[t].clientKeyHash)
        BY <1>3, <2>2, <3>2, Zenon
      <4>2. /\ byKeyHash[k] \in Identity /\ byKeyHash[k].id \in Ids
            /\ byKeyHash[k].clientKeyHash = k /\ byID[byKeyHash[k].id] = byKeyHash[k]
        BY <4>1, Zenon DEF Inv, TypeOK, IndexCoherent, Identity
      <4>3. byKeyHash[k].id # t
        BY <4>1, <4>2, Zenon
      <4> QED
        BY <1>3, <4>1, <4>2, <4>3, Zenon
    <3> QED
      BY <3>1, <3>2
  <2> QED
    BY <2>1, <2>2 DEF IndexCoherent
<1>9. AckedIsDurable'
  <2>1. FileContent(disk[t]) = Content(r) /\ Possible(t) = {disk[t]}
    BY <1>1, <1>2, EncodeFacts, Zenon DEF Possible
  <2> QED
    BY <1>1, <1>3, <1>4, <1>5, <2>1 DEF Inv, AckedIsDurable, Publish
<1>10. MemoryOK'
  BY <1>1, <1>3, <1>6 DEF Inv, MemoryOK, MemOK, Encodable, Publish
<1>11. KeyInv'
  <2>1. \A j \in Ids, k \in Keys : Holds(j, k)' => Holds(j, k)
    BY <1>1, <1>3, <1>5, <1>6 DEF Holds, Carries
  <2> QED
    BY <2>1, KeyFrame DEF Inv, Publish
<1>12. PhaseInv'
  BY <1>1 DEF Inv, PhaseInv, Sealed, Publish
<1>13. OpInv'
  <2>1. CASE op' = Idle
    BY <2>1, Zenon DEF OpInv, Idle
  <2>2. CASE op' # Idle
    <3>1. op'.rec = r
      BY <1>6, <2>2
    <3> QED
      BY <1>2, <1>3, <1>6, <2>2, <3>1 DEF OpInv
  <2> QED
    BY <2>1, <2>2
<1> QED
  BY <1>5, <1>7, <1>8, <1>9, <1>10, <1>11, <1>12, <1>13 DEF Inv

-----------------------------------------------------------------------------
(* The theorems                                                            *)

\* Every step keeps the invariant.
LEMMA NextInv == Inv /\ [Next]_vars => Inv'
<1> SUFFICES ASSUME Inv, [Next]_vars PROVE Inv'
  OBVIOUS
<1>1. CASE UNCHANGED vars
  <2>1. UNCHANGED <<disk, shadow, cipher, phase, todo, byID, byKeyHash, used, op, outcome>>
    BY <1>1 DEF vars
  <2>2. FilesOK' /\ IndexCoherent' /\ \A i \in Ids : Possible(i)' = Possible(i)
    BY <2>1, FilesFrame, MapsFrame
  <2>3. \A i \in Ids, k \in Keys : Holds(i, k)' => Holds(i, k)
    BY <2>1, <2>2, Zenon DEF Holds
  <2>4. TypeOK' /\ AckedIsDurable' /\ KeyInv'
    BY <2>1, <2>2, <2>3, KeyFrame, Zenon DEF Inv, TypeOK, AckedIsDurable
  <2>5. MemoryOK' /\ PhaseInv'
    BY <2>1, ZenonT(30) DEF Inv, MemoryOK, MemOK, Encodable, PhaseInv, Sealed
  <2>6. OpInv'
    BY <2>1, Zenon DEF Inv, OpInv, Target, encodeIdentity
  <2> QED
    BY <2>2, <2>4, <2>5, <2>6 DEF Inv
<1>2. CASE StartOpen \/ FinishOpen
  BY <1>2, StartOpenStep, FinishOpenStep
<1>3. CASE \E i \in Ids : LoadRejected(i) \/ LoadFile(i) \/ MigrateFile(i) \/ MigrateFails(i)
  BY <1>3, CrashStep, LoadFileStep, MigrateFileStep, MigrateFailsStep
<1>4. CASE \E t \in Tokens, selected, reported \in Accounts \cup {NoAccount} :
             ImportWithMetadata(t, selected, reported)
  BY <1>4, ImportStep
<1>5. CASE \E i \in Ids, reported \in Accounts \cup {NoAccount} : UpdateMetadata(i, reported)
  BY <1>5, UpdateStep
<1>6. CASE \E i \in Ids : Delete(i)
  BY <1>6, ForgetStep DEF Delete, MayMutate
<1>7. CASE WriteFails \/ SyncFails \/ SyncedToCPA
  BY <1>7, EndStep DEF WriteFails, SyncFails, SyncedToCPA
<1>8. CASE Rename \/ Remove
  BY <1>8, RenameStep
<1>9. CASE SyncDirectory \/ Publish \/ Restore
  BY <1>9, SyncStep, PublishStep, RestoreStep
<1>10. CASE DropImported
  <2>1. Target \in Ids /\ byID[Target] # None /\ phase = "up"
    BY <1>10, TargetFacts, Zenon DEF DropImported, Inv, OpInv
  <2> QED
    BY <1>10, <2>1, ForgetStep DEF DropImported
<1>11. CASE Crash \/ PowerLoss
  BY <1>11, CrashStep, PowerLossStep
<1> QED
  BY <1>1, <1>2, <1>3, <1>4, <1>5, <1>6, <1>7, <1>8, <1>9, <1>10, <1>11 DEF Next

\* The inductive invariant holds of every behaviour of the store.
THEOREM StoreInvariant == Spec => []Inv
<1>1. Init => Inv
  BY InitInv
<1>2. Inv /\ [Next]_vars => Inv'
  BY NextInv
<1> QED
  BY <1>1, <1>2, PTL DEF Spec

\* The store's variables keep their types.
THEOREM TypeCorrect == Spec => []TypeOK
<1>1. Inv => TypeOK
  BY DEF Inv
<1> QED
  BY <1>1, StoreInvariant, PTL

\* Store.byID and Store.byKeyHash always describe the same identities, so a
\* rotated or deleted client key never resolves.
THEOREM IndexesAgree == Spec => []IndexCoherent
<1>1. Inv => IndexCoherent
  BY DEF Inv
<1> QED
  BY <1>1, StoreInvariant, PTL

\* What ImportWithMetadata, UpdateMetadata, Restore and Delete acknowledged is
\* what a crash, a power loss and a reopening find.
THEOREM Durability == Spec => []AckedIsDurable
<1>1. Inv => AckedIsDurable
  BY DEF Inv
<1> QED
  BY <1>1, StoreInvariant, PTL

\* Whatever a crash or a power loss leaves, Open accepts it.
THEOREM AlwaysReopenable == Spec => []Reopenable
<1>1. Inv => Reopenable
  <2> SUFFICES ASSUME Inv, NEW i \in Ids, NEW j \in Ids,
                      NEW p \in Possible(i), NEW q \in Possible(j), p # None
               PROVE  /\ Decodable(p, TRUE)
                      /\ validIdentity(decodeIdentity(p))
                      /\ p.id = i
                      /\ (q # None /\ p.clientKeyHash = q.clientKeyHash) => i = j
    BY Zenon DEF Reopenable
  <2>1. FileOK(i, p) /\ FileOK(j, q)
    BY DEF Inv, FilesOK
  <2>2. p \in Persisted /\ p.clientKeyHash \in Keys
    BY SMTT(30) DEF Inv, TypeOK, Possible, Persisted
  <2>3. Holds(i, p.clientKeyHash)
    BY <2>1, Zenon DEF Holds, Carries, FileOK
  <2>4. q # None => Holds(j, q.clientKeyHash)
    BY <2>1, Zenon DEF Holds, Carries, FileOK
  <2> QED
    BY <2>1, <2>2, <2>3, <2>4, Zenon DEF FileOK, Inv, KeyInv
<1> QED
  BY <1>1, StoreInvariant, PTL

\* A store opened with an encryption key keeps no token in the clear.
THEOREM SealedAtRest == Spec => []EncryptedAtRest
<1>1. Inv => EncryptedAtRest
  BY Zenon DEF Inv, PhaseInv, Sealed, EncryptedAtRest
<1> QED
  BY <1>1, StoreInvariant, PTL

-----------------------------------------------------------------------------
(* The store implements CredentialVault                                    *)

\* The contents of files that Open can decode.
LEMMA FilesKept ==
    ASSUME NEW d \in [Ids -> Persisted \cup {None}], \A i \in Ids : d[i] # None => Decodable(d[i], TRUE)
    PROVE  [i \in Ids |-> FileContent(d[i])] \in [Ids -> Contents \cup {None}]
<1> SUFFICES ASSUME NEW i \in Ids PROVE FileContent(d[i]) \in Contents \cup {None}
  BY Zenon
<1>1. CASE d[i] = None
  BY <1>1, Zenon DEF FileContent
<1>2. CASE d[i] # None
  <2>1. d[i] \in Persisted /\ Decodable(d[i], TRUE)
    BY <1>2
  <2>2. decodeIdentity(d[i]) \in Identity
    BY <2>1, DecodeFacts
  <2> QED
    BY <1>2, <2>2, Zenon DEF FileContent, Contents
<1> QED
  BY <1>1, <1>2

\* Nothing is served unless the store is open.
LEMMA ServedFacts ==
    /\ phase # "up" => Served = Vault!Nothing
    /\ phase' # "up" => Served' = Vault!Nothing
BY Zenon DEF Served, Vault!Nothing

\* Steps that change neither the content of a file nor what is served.
LEMMA QuietVault ==
    ASSUME \A i \in Ids : FileContent(disk'[i]) = FileContent(disk[i]), outcome' = outcome,
           phase' = phase \/ (phase # "up" /\ phase' # "up"), byID' = byID \/ phase # "up"
    PROVE  UNCHANGED Vault!vars
<1>1. Kept' = Kept
  BY Zenon DEF Kept
<1>2. Served' = Served
  BY Zenon DEF Served
<1>3. (phase' = "up") <=> (phase = "up")
  BY Zenon
<1> QED
  BY <1>1, <1>2, <1>3 DEF Vault!vars

\* A process or a machine that stops leaves for each identity something it may.
LEMMA StopVault ==
    ASSUME Inv', phase' = "down", outcome' = outcome
    PROVE  Vault!Stop
<1>1. Kept' \in [Ids -> Contents \cup {None}]
  <2>1. disk' \in [Ids -> Persisted \cup {None}]
    BY Zenon DEF Inv, TypeOK
  <2>2. \A i \in Ids : disk'[i] # None => Decodable(disk'[i], TRUE)
    BY Zenon DEF Inv, FilesOK, FileOK, Possible
  <2> QED
    BY <2>1, <2>2, FilesKept, Zenon DEF Kept
<1>2. \A i \in Ids : Kept'[i] \in outcome[i]
  BY Zenon DEF Inv, AckedIsDurable, Possible, Kept
<1>3. phase' # "up"
  OBVIOUS
<1>4. Served' = Vault!Nothing
  BY <1>3, ServedFacts, Zenon
<1> QED
  BY <1>1, <1>2, <1>3, <1>4, Zenon DEF Vault!Stop

\* The start that ends serves what is kept.
LEMMA OpenVault == ASSUME Inv, FinishOpen PROVE Vault!Open
<1>1. phase = "opening" /\ phase' = "up" /\ todo = {} /\ UNCHANGED <<disk, byID, outcome>>
  BY DEF FinishOpen
<1>2. \A i \in Ids : Content(byID[i]) = FileContent(disk[i])
  BY <1>1, Zenon DEF Inv, PhaseInv
<1>3. Kept' = Kept /\ Served' = Kept
  BY <1>1, <1>2, Zenon DEF Kept, Served
<1> QED
  BY <1>1, <1>3 DEF Vault!Open

\* Loading and migrating are not visible: a migrated file has the same content.
LEMMA LoadVault ==
    ASSUME Inv, StartOpen \/ \E i \in Ids : LoadFile(i) \/ MigrateFile(i)
    PROVE  UNCHANGED Vault!vars
<1>1. phase # "up" /\ phase' # "up" /\ outcome' = outcome
  BY DEF StartOpen, LoadFile, MigrateFile
<1>2. CASE disk' = disk
  BY <1>1, <1>2, QuietVault, Zenon
<1>3. ASSUME NEW i \in Ids, MigrateFile(i)
      PROVE  UNCHANGED Vault!vars
  <2>1. /\ disk \in [Ids -> Persisted \cup {None}] /\ cipher \in BOOLEAN
        /\ disk[i] # None
    BY <1>3, Zenon DEF MigrateFile, Inv, TypeOK, PhaseInv
  <2>2. disk[i] \in Persisted
    BY <2>1
  <2>3. /\ Migrated(disk[i]) \in Identity /\ Encodable(Migrated(disk[i]))
        /\ Content(Migrated(disk[i])) = FileContent(disk[i])
    BY <1>3, <2>1, <2>2, MigratedFacts, Zenon DEF MigrateFile
  <2>4. FileContent(encodeIdentity(Migrated(disk[i]))) = FileContent(disk[i])
    BY <2>1, <2>3, EncodeFacts, Zenon
  <2>5. disk' = [disk EXCEPT ![i] = encodeIdentity(Migrated(disk[i]))]
    BY <1>3 DEF MigrateFile
  <2>6. \A j \in Ids : FileContent(disk'[j]) = FileContent(disk[j])
    BY <2>1, <2>4, <2>5, Zenon
  <2> QED
    BY <1>1, <2>6, QuietVault, Zenon
<1> QED
  BY <1>2, <1>3 DEF StartOpen, LoadFile

\* A mutation that starts asks for its record.
LEMMA BeginVault ==
    ASSUME phase = "up", NEW i \in Ids, NEW r \in Identity, MayBecome(i, r),
           UNCHANGED <<disk, phase, byID>>
    PROVE  Content(r) \in Contents \cup {None} /\ Vault!Begin(i, Content(r))
<1>1. Content(r) \in Contents /\ Content(r) # None
  BY ContentFacts, Zenon DEF Contents
<1>2. Kept' = Kept /\ Served' = Served
  BY Zenon DEF Kept, Served
<1>3. outcome' = [outcome EXCEPT ![i] = @ \cup {Content(r)}]
  BY DEF MayBecome
<1> QED
  BY <1>1, <1>2, <1>3, Zenon DEF Vault!Begin

\* Delete and the rollback of an import stop serving before the file is removed.
LEMMA ForgetVault ==
    ASSUME Inv, phase = "up", NEW i \in Ids, Forget(i), UNCHANGED <<disk, phase>>
    PROVE  Vault!Begin(i, None)
<1>1. byID' = [byID EXCEPT ![i] = None] /\ outcome' = [outcome EXCEPT ![i] = @ \cup {None}]
  BY Zenon DEF Forget, MayBecome, Content
<1>2. byID \in [Ids -> Identity \cup {None}]
  BY DEF Inv, TypeOK
<1>3. Kept' = Kept
  BY Zenon DEF Kept
<1>4. Served' = [Served EXCEPT ![i] = None]
  <2>1. \A j \in Ids : Served'[j] = [Served EXCEPT ![i] = None][j]
    BY <1>1, <1>2, Zenon DEF Served, Content
  <2> QED
    BY <2>1, Zenon DEF Served
<1> QED
  BY <1>1, <1>3, <1>4, Zenon DEF Vault!Begin

\* A rename and a removal put in place what the mutation asked for.
LEMMA RenameVault == ASSUME Inv, Rename \/ Remove PROVE Vault!Write(Target)
<1>1. /\ op.rec \in Identity /\ Target \in Ids /\ Encodable(op.rec) /\ phase = "up" /\ cipher \in BOOLEAN
  BY TargetFacts, Zenon DEF Rename, Remove
<1>2. /\ disk \in [Ids -> Persisted \cup {None}] /\ UNCHANGED <<phase, byID, outcome>>
  BY DEF Rename, Remove, Inv, TypeOK
<1>3. PICK p : /\ disk' = [disk EXCEPT ![Target] = p]
               /\ FileContent(p) \in outcome[Target]
  <2>1. CASE Rename
    <3>1. disk' = [disk EXCEPT ![Target] = encodeIdentity(op.rec)]
      BY <2>1, Zenon DEF Rename, RenameInto
    <3>2. Content(op.rec) \in outcome[Target]
      BY <2>1, Zenon DEF Rename, Inv, OpInv
    <3>3. FileContent(encodeIdentity(op.rec)) = Content(op.rec)
      BY <1>1, EncodeFacts, Zenon
    <3> QED
      BY <3>1, <3>2, <3>3, Zenon
  <2>2. CASE Remove
    <3>1. disk' = [disk EXCEPT ![Target] = None]
      BY <2>2, Zenon DEF Remove, RenameInto
    <3>2. None \in outcome[Target]
      BY <2>2, Zenon DEF Remove, Inv, OpInv
    <3>3. FileContent(None) = None
      BY Zenon DEF FileContent
    <3> QED
      BY <3>1, <3>2, <3>3, Zenon
  <2> QED
    BY <2>1, <2>2
<1>4. Served' = Served
  BY <1>2, Zenon DEF Served
<1>5. Kept' = [Kept EXCEPT ![Target] = FileContent(p)]
  <2>1. \A j \in Ids : Kept'[j] = [Kept EXCEPT ![Target] = FileContent(p)][j]
    BY <1>2, <1>3, Zenon DEF Kept
  <2> QED
    BY <2>1, Zenon DEF Kept
<1> QED
  BY <1>1, <1>2, <1>3, <1>4, <1>5, Zenon DEF Vault!Write

\* A deletion is acknowledged when the directory is synced.
LEMMA SyncVault == ASSUME Inv, SyncDirectory PROVE Vault!Done(Target) \/ UNCHANGED Vault!vars
<1>1. Target \in Ids /\ phase = "up" /\ UNCHANGED <<disk, phase, byID>>
  BY TargetFacts, Zenon DEF SyncDirectory
<1>2. CASE op.kind = "delete"
  <2>1. disk[Target] = None /\ byID[Target] = None /\ outcome' = [outcome EXCEPT ![Target] = {None}]
    BY <1>2, Zenon DEF SyncDirectory, Acknowledge, Content, Inv, OpInv
  <2>2. Kept' = Kept /\ Served' = Served
    BY <1>1, Zenon DEF Kept, Served
  <2>3. Kept[Target] = None /\ Served[Target] = None
    BY <1>1, <2>1, Zenon DEF Kept, Served, FileContent, Content
  <2>4. Served = [Served EXCEPT ![Target] = None]
    <3>1. \A j \in Ids : Served[j] = [Served EXCEPT ![Target] = None][j]
      BY <2>3, Zenon DEF Served
    <3> QED
      BY <3>1, Zenon DEF Served
  <2> QED
    BY <1>1, <2>1, <2>2, <2>3, <2>4, Zenon DEF Vault!Done
<1>3. CASE op.kind # "delete"
  <2>1. outcome' = outcome
    BY <1>3 DEF SyncDirectory
  <2> QED
    BY <1>1, <2>1, QuietVault, Zenon
<1> QED
  BY <1>2, <1>3

\* A write is acknowledged when it is published.
LEMMA PublishVault == ASSUME Inv, Publish PROVE Vault!Done(Target)
<1>1. /\ op.rec \in Identity /\ Target \in Ids /\ Encodable(op.rec) /\ phase = "up" /\ cipher \in BOOLEAN
      /\ UNCHANGED <<disk, phase>>
  BY TargetFacts, Zenon DEF Publish
<1>2. Kept[Target] = Content(op.rec)
  <2>1. disk[Target] = encodeIdentity(op.rec)
    BY Zenon DEF Publish, Inv, OpInv
  <2> QED
    BY <1>1, <2>1, EncodeFacts, Zenon DEF Kept
<1>3. outcome' = [outcome EXCEPT ![Target] = {Content(op.rec)}] /\ byID' = [byID EXCEPT ![Target] = op.rec]
  BY Zenon DEF Publish, Acknowledge
<1>4. byID \in [Ids -> Identity \cup {None}]
  BY DEF Inv, TypeOK
<1>5. Kept' = Kept
  BY <1>1, Zenon DEF Kept
<1>6. Served' = [Served EXCEPT ![Target] = Content(op.rec)]
  <2>1. \A j \in Ids : Served'[j] = [Served EXCEPT ![Target] = Content(op.rec)][j]
    BY <1>1, <1>3, <1>4, Zenon DEF Served
  <2> QED
    BY <2>1, Zenon DEF Served
<1> QED
  BY <1>1, <1>2, <1>3, <1>5, <1>6, Zenon DEF Vault!Done

\* Every step of the store is a step of the vault, or is not visible there.
LEMMA VaultNext == Inv /\ [Next]_vars => [Vault!Next]_(Vault!vars)
<1> SUFFICES ASSUME Inv, [Next]_vars PROVE Vault!Next \/ UNCHANGED Vault!vars
  BY Zenon
<1>0. Inv'
  BY NextInv
<1>1. CASE UNCHANGED vars
  BY <1>1, QuietVault DEF vars
<1>2. CASE StartOpen
  BY <1>2, LoadVault
<1>3. CASE FinishOpen
  BY <1>3, OpenVault, Zenon DEF Vault!Next
<1>4. ASSUME NEW i \in Ids, LoadRejected(i) \/ LoadFile(i) \/ MigrateFile(i) \/ MigrateFails(i)
      PROVE  Vault!Next \/ UNCHANGED Vault!vars
  <2>1. CASE LoadFile(i) \/ MigrateFile(i)
    BY <2>1, LoadVault
  <2>2. CASE LoadRejected(i) \/ MigrateFails(i)
    <3>1. phase' = "down" /\ outcome' = outcome
      BY <2>2, Zenon DEF LoadRejected, MigrateFails, Stop
    <3> QED
      BY <1>0, <3>1, StopVault, Zenon DEF Vault!Next
  <2> QED
    BY <1>4, <2>1, <2>2
<1>5. ASSUME NEW t \in Tokens, NEW selected \in Accounts \cup {NoAccount},
             NEW reported \in Accounts \cup {NoAccount}, ImportWithMetadata(t, selected, reported)
      PROVE  Vault!Next
  <2>1. PICK key \in Keys :
          LET new == NewIdentity(t, selected, reported, key) IN
          /\ op' = Mutation("import", "write", new, LookupByTokenAndAccount(t, selected))
          /\ MayBecome(new.id, new)
    BY <1>5, Zenon DEF ImportWithMetadata
  <2>2. PICK new : new = NewIdentity(t, selected, reported, key)
    BY Zenon
  <2>3. op'.stage = "write" /\ op'.rec = new
    BY <2>1, <2>2, Zenon DEF Mutation
  <2>4. new \in Identity /\ new.id \in Ids
    BY <2>2 DEF NewIdentity, Identity, Ids, IdentityIDForAccount, LegacyHash, Plaintext, Encrypted
  <2>5. phase = "up" /\ MayBecome(new.id, new) /\ UNCHANGED <<disk, phase, byID>>
    BY <1>5, <2>1, <2>2, Zenon DEF ImportWithMetadata, MayMutate
  <2> QED
    BY <2>4, <2>5, BeginVault, Zenon DEF Vault!Next
<1>6. ASSUME NEW i \in Ids, NEW reported \in Accounts \cup {NoAccount}, UpdateMetadata(i, reported)
      PROVE  Vault!Next
  <2>1. Refreshed(i, reported) \in Identity
    <3>1. byID[i] \in Identity
      BY <1>6, Zenon DEF UpdateMetadata, Inv, TypeOK
    <3> QED
      BY <3>1 DEF Refreshed, Identity
  <2>2. phase = "up" /\ MayBecome(i, Refreshed(i, reported)) /\ UNCHANGED <<disk, phase, byID>>
    BY <1>6, Zenon DEF UpdateMetadata, MayMutate
  <2> QED
    BY <2>1, <2>2, BeginVault, Zenon DEF Vault!Next
<1>7. CASE Restore
  <2>1. PICK old : old = [op.previous EXCEPT !.version = IF cipher THEN Encrypted ELSE @]
    BY Zenon
  <2>2. op.previous \in Identity /\ phase = "up" /\ cipher \in BOOLEAN
    BY <1>7, TargetFacts, Zenon DEF Restore, Inv, TypeOK
  <2>3. old \in Identity /\ old.id \in Ids
    BY <2>1, <2>2 DEF Identity, LegacyHash, Encrypted
  <2>4. MayBecome(old.id, old) /\ UNCHANGED <<disk, phase, byID>>
    BY <1>7, <2>1, Zenon DEF Restore
  <2> QED
    BY <2>2, <2>3, <2>4, BeginVault, Zenon DEF Vault!Next
<1>8. ASSUME NEW i \in Ids, Delete(i) PROVE Vault!Next
  <2>1. phase = "up" /\ Forget(i) /\ UNCHANGED <<disk, phase>>
    BY <1>8, Zenon DEF Delete, MayMutate
  <2> QED
    BY <2>1, ForgetVault, Zenon DEF Vault!Next
<1>9. CASE DropImported
  <2>1. Target \in Ids /\ phase = "up" /\ Forget(Target) /\ UNCHANGED <<disk, phase>>
    BY <1>9, TargetFacts, Zenon DEF DropImported
  <2> QED
    BY <2>1, ForgetVault, Zenon DEF Vault!Next
<1>10. CASE WriteFails \/ SyncFails \/ SyncedToCPA
  BY <1>10, QuietVault DEF WriteFails, SyncFails, SyncedToCPA
<1>11. CASE Rename \/ Remove
  <2>1. Target \in Ids
    BY <1>11, TargetFacts, Zenon DEF Rename, Remove
  <2> QED
    BY <1>11, <2>1, RenameVault, Zenon DEF Vault!Next
<1>12. CASE SyncDirectory \/ Publish
  <2>1. Target \in Ids
    BY <1>12, TargetFacts, Zenon DEF SyncDirectory, Publish
  <2> QED
    BY <1>12, <2>1, SyncVault, PublishVault, Zenon DEF Vault!Next
<1>13. CASE Crash \/ PowerLoss
  <2>1. phase' = "down" /\ outcome' = outcome
    BY <1>13, Zenon DEF Crash, PowerLoss, Stop
  <2> QED
    BY <1>0, <2>1, StopVault, Zenon DEF Vault!Next
<1> QED
  BY <1>1, <1>2, <1>3, <1>4, <1>5, <1>6, <1>7, <1>8, <1>9, <1>10, <1>11, <1>12, <1>13 DEF Next

\* store.Store implements CredentialVault: behind its files, renames, syncs, formats
\* and indexes, a change that was acknowledged is kept and served, one that was not is
\* found done or undone, and nothing else is ever found.
THEOREM RefinesVault == Spec => ImplementsVault
<1>1. Init => Vault!Init
  <2> SUFFICES ASSUME Init PROVE Vault!Init
    OBVIOUS
  <2>1. Inv /\ phase # "up"
    BY InitInv DEF Init
  <2>2. disk \in [Ids -> Persisted \cup {None}] /\ \A i \in Ids : disk[i] # None => Decodable(disk[i], TRUE)
    BY <2>1, Zenon DEF Inv, TypeOK, FilesOK, FileOK, Possible
  <2>3. Kept \in [Ids -> Contents \cup {None}]
    BY <2>2, FilesKept, Zenon DEF Kept
  <2>4. outcome = [i \in Ids |-> {Kept[i]}]
    BY Zenon DEF Init, Kept
  <2> QED
    BY <2>1, <2>3, <2>4, ServedFacts, Zenon DEF Vault!Init
<1> QED
  BY <1>1, VaultNext, StoreInvariant, PTL DEF Spec, ImplementsVault, Vault!Spec
=============================================================================
