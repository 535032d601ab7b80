--------------------------- MODULE CPAManagerProofs ---------------------------
(***************************************************************************)
(* Proofs about CPAManager for every set of names, metadata, keys and user *)
(* fields.  None of its properties is inductive.  The invariant says which *)
(* transaction is at which stage (StageInv), that the names it works on    *)
(* are matches it found (SeenInv), that files keep to their names          *)
(* (NamedInv), that what it has changed is what it would restore           *)
(* (FrameInv), and that it overlooked no match and has dealt with the      *)
(* names before the current one (DoneInv).  A second one says that no name *)
(* it may write to is one it found to be somebody else's (ForeignInv).     *)
(***************************************************************************)
EXTENDS CPAManager, TLAPS, WellFoundedInduction

\* The canonical name of the credential, and the files found that match it.
Canon == authFileName(op.cred)
Matched == matchingManagedFileNames(op.seen, op.cred)

\* The types of what the transactions read and write.
Typed ==
    /\ files \in [Names -> File \cup {Absent, Foreign}]
    /\ op \in Transaction
    /\ before \in [Names -> File \cup {Absent, Foreign}]
    /\ disturbed \in BOOLEAN /\ botched \in BOOLEAN

\* An upsert that has checked its canonical file.
Upserting == op.kind = "upsert" /\ op.stage \notin {"list", "check"} \cup Ended

\* Which transaction is at which stage, and with what.
StageInv ==
    /\ op.stage = "list" => op.kind \in {"upsert", "remove", "disable"}
    /\ op.stage \in {"check", "upload", "verify", "confirm", "undo", "undone"} => op.kind = "upsert"
    /\ op.stage \in {"delete", "gone"} => op.kind \in {"upsert", "remove"}
    /\ op.stage \in {"set", "state"} => op.kind = "disable"
    /\ op.stage \in {"delete", "gone", "set", "state"} => op.left # {}
    /\ op.stage = "restored" => op.saved # {}
    /\ op.stage \in {"list", "check", "upload", "verify"} => op.left = {} /\ op.saved = {}
    /\ op.stage \in {"list", "check"} => op.previous = Absent
    /\ op.stage = "confirm" => op.left = {}
    /\ op.stage = "set" => op.left \cap op.saved = {}
    /\ op.stage = "state" => op.left \cap op.saved \subseteq {Current}
    /\ op.kind \in {"upsert", "disable"} => op.cred \in Credential
    /\ botched => op.stage = "error" \/ (op.kind = "upsert" /\ op.stage \in {"undone", "restore", "restored"})

\* The names a transaction still has to process or to restore are among the
\* matches it found.
SeenInv ==
    /\ op.left \cup op.saved \subseteq Matched
    /\ op.kind = "upsert" => Canon \notin op.left \cup op.saved

\* A file under no historical name states the metadata its name was made from.
Named(n, f) ==
    (n \in Names \ Historical /\ Own(f)) => f.meta \in Metas /\ CanonicalName[f.meta] = n

NamedInv ==
    /\ \A n \in Names : Named(n, files[n]) /\ Named(n, op.seen[n])
    /\ Named(Canon, op.previous)
    /\ Upserting => op.body \in File /\ op.body.meta = op.cred.meta /\ op.body.key = op.cred.key

\* The files outside S are as the transaction found them.
Same(S) == \A n \in Names \ S : files[n] = before[n]

\* As long as the user changes nothing: what the transaction knows of the files is
\* right, and what differs from before is what it is going to restore.
FrameInv ==
    ~disturbed =>
      /\ \A n \in Names : op.seen[n] # Absent => op.seen[n] = before[n]
      /\ op.stage \in {"list", "check", "upload"} => files = before
      /\ Upserting => op.previous = before[Canon]
      /\ op.stage \in {"verify", "delete", "gone", "confirm", "undo", "undone"} /\ op.kind = "upsert"
           => Same(op.saved \cup {Canon})
      /\ op.stage \in {"delete", "gone", "set", "state"} /\ op.kind # "upsert" => Same(op.saved)
      /\ op.stage \in {"restore", "restored"} /\ ~botched => Same(op.saved)
      /\ op.kind = "remove" /\ op.stage = "ok" => Same(Matched)
      /\ op.stage = "error" /\ ~botched => files = before
      /\ op.kind = "restore" /\ op.stage = "ok" => files = before

\* The body of an upsert, against the files that stood for its credential.
Inherits(body) ==
    IF Standing(op.cred) = {} THEN ~body.disabled /\ body.user = DefaultUser
    ELSE \E f \in Standing(op.cred) :
           /\ body.disabled = f.disabled /\ body.user = f.user
           /\ (\E g \in Standing(op.cred) : g.key = op.cred.key) => f.key = op.cred.key

\* The list shows every file that can match.
Shown == op.cred \in Credential \/ \A n \in Names : Own(before[n]) => ~before[n].disabled

\* As long as the user changes nothing: no match was overlooked, and the names
\* already processed are as they should be.
DoneInv ==
    ~disturbed =>
      /\ Shown /\ op.kind # "restore" /\ op.stage \notin {"list"} \cup Ended =>
           \A n \in Names : Matches(before[n], op.cred) => op.seen[n] # Absent
      /\ Upserting => Inherits(op.body)
      /\ op.kind = "upsert" /\ op.stage \in {"verify", "delete", "gone", "confirm"} => files[Canon] = op.body
      /\ op.kind = "upsert" /\ op.stage \in {"delete", "gone", "confirm"} =>
           \A n \in Matched \ (op.left \cup {Canon}) : files[n] = Absent
      /\ op.kind = "remove" /\ op.stage \in {"delete", "gone"} =>
           \A n \in Matched \ op.left : files[n] = Absent
      /\ op.stage \in {"set", "state"} =>
           \A n \in Matched \ op.left : files[n] = setManagedCredentialDisabled(op.seen[n], op.want)
      /\ op.stage = "state" => files[Current] = setManagedCredentialDisabled(op.seen[Current], op.want)
      /\ UpsertComplete /\ RemoveComplete /\ DisableComplete

Inv == Typed /\ StageInv /\ SeenInv /\ NamedInv /\ FrameInv /\ DoneInv

-----------------------------------------------------------------------------
\* The names in sorted order: a set of names that is not empty has a first one.
LEMMA First ==
    ASSUME NEW S \in SUBSET Names, S # {}
    PROVE  Min(S) \in S
<1>1. S \subseteq Nat
  BY NamesAssumption
<1>2. PICK x \in S : \A y \in S : ~(<<y, x>> \in OpToRel(<, Nat))
  BY <1>1, NatLessThanWellFounded, WFMin, Zenon
<1>3. ASSUME NEW y \in S PROVE x =< y
  <2>1. <<y, x>> \in Nat \X Nat /\ <<y, x>>[1] = y /\ <<y, x>>[2] = x
    BY <1>1, <1>2, Zenon
  <2>2. ~(y < x)
    BY <1>2, <2>1, Zenon DEF OpToRel
  <2>3. x \in Nat /\ y \in Nat
    BY <1>1
  <2> QED
    BY <2>2, <2>3
<1> QED
  BY <1>2, <1>3, Zenon DEF Min

\* What the canonical name, the matches and the bodies are.
LEMMA NameType ==
    ASSUME NEW c \in Credential \cup IdentityOnly
    PROVE  /\ authFileName(c) \in Names
           /\ c \in Credential => authFileName(c) = CanonicalName[c.meta] /\ c.meta \in Metas
BY NamesAssumption, BlankAssumption DEF authFileName, Credential, IdentityOnly

LEMMA MatchType ==
    ASSUME NEW found, NEW c
    PROVE  /\ matchingManagedFileNames(found, c) \in SUBSET Names
           /\ \A n \in matchingManagedFileNames(found, c) : found[n] # Absent /\ Own(found[n]) /\ Matches(found[n], c)
BY DEF matchingManagedFileNames, Matches, Own

\* The file an upsert inherits from: the canonical one if it matches, else one with
\* the current key if there is one, else any match.
LEMMA Preferred ==
    ASSUME NEW found \in [Names -> File \cup {Absent}], NEW c \in Credential \cup IdentityOnly
    PROVE  LET names == matchingManagedFileNames(found, c)
               best  == preferredManagedFile(found, c)
           IN /\ names = {} => best = Absent
              /\ authFileName(c) \in names => best = found[authFileName(c)]
              /\ names # {} => \E n \in names : best = found[n]
              /\ (names # {} /\ authFileName(c) \notin names /\ \E m \in names : found[m].key = c.key)
                   => best.key = c.key
<1> DEFINE names == matchingManagedFileNames(found, c)
           score(n) == managedCredentialMatchScore(found[n], c)
           best == {n \in names : \A m \in names : score(n) >= score(m)}
<1>1. names \in SUBSET Names
  BY MatchType
<1>2. \A n \in names : /\ score(n) \in {4, 27, 1003, 1026}
                       /\ found[n].key = c.key => score(n) \in {1003, 1026}
                       /\ found[n].key # c.key => score(n) \in {4, 27}
  BY DEF managedCredentialMatchScore
<1>3. CASE names = {}
  BY <1>3 DEF preferredManagedFile
<1>4. CASE authFileName(c) \in names
  BY <1>4 DEF preferredManagedFile
<1>5. CASE names # {} /\ authFileName(c) \notin names
  <2>1. preferredManagedFile(found, c) = found[Min(best)]
    BY <1>5 DEF preferredManagedFile
  <2>2. PICK top \in names : \A m \in names : score(top) >= score(m)
    <3> HIDE DEF score, names
    <3>1. CASE \E n \in names : score(n) = 1026
      BY <3>1, <1>2
    <3>2. CASE (\E n \in names : score(n) = 1003) /\ ~(\E n \in names : score(n) = 1026)
      BY <3>2, <1>2
    <3>3. CASE (\E n \in names : score(n) = 27) /\ ~(\E n \in names : score(n) \in {1003, 1026})
      BY <3>3, <1>2
    <3>4. CASE \A n \in names : score(n) = 4
      BY <3>4, <1>2, <1>5
    <3> QED
      BY <3>1, <3>2, <3>3, <3>4, <1>2
  <2> HIDE DEF score
  <2>3. Min(best) \in best
    BY <2>2, <1>1, First
  <2>4. (\E m \in names : found[m].key = c.key) => found[Min(best)].key = c.key
    BY <2>3, <1>2
  <2> QED
    BY <1>5, <2>1, <2>3, <2>4, Zenon
<1> QED
  BY <1>3, <1>4, <1>5

LEMMA EncodeIs ==
    ASSUME NEW c \in Credential, NEW prior \in File \cup {Absent}
    PROVE  /\ Encode(c, prior) \in File
           /\ Encode(c, prior).meta = c.meta /\ Encode(c, prior).key = c.key
           /\ prior = Absent => ~Encode(c, prior).disabled /\ Encode(c, prior).user = DefaultUser
           /\ prior # Absent => Encode(c, prior).disabled = prior.disabled /\ Encode(c, prior).user = prior.user
BY UserAssumption, Zenon DEF Encode, mergeManagedAuthFields, credentialJSONWithDisabled, managedCredentialDisabled,
                      Credential, File

-----------------------------------------------------------------------------

\* What Finish leaves of the transaction.
LEMMA FinishIs ==
    ASSUME Typed, NEW result \in Ended, Finish(result)
    PROVE  /\ op' \in Transaction /\ op'.kind = op.kind /\ op'.stage = result
           /\ op'.cred = op.cred /\ op'.want = op.want
           /\ op'.previous = Absent /\ op'.left = {} /\ op'.saved = {}
           /\ op'.seen = IF op.kind = "remove" /\ result = "ok" THEN op.seen ELSE NoFiles
<1>1. PICK t : t = Fresh(op.kind, result, op.cred, op.want)
  OBVIOUS
<1>2. /\ op.kind \in {"none", "upsert", "remove", "disable", "restore"} /\ op.want \in BOOLEAN
      /\ op.cred \in Credential \cup IdentityOnly /\ op.seen \in [Names -> File \cup {Absent}]
  BY DEF Typed, Transaction
<1>3. /\ t \in Transaction /\ t.kind = op.kind /\ t.stage = result /\ t.cred = op.cred /\ t.want = op.want
      /\ t.previous = Absent /\ t.left = {} /\ t.saved = {} /\ t.seen = NoFiles
  BY <1>1, <1>2 DEF Fresh, Transaction, NoFiles
<1>4. PICK seen \in [Names -> File \cup {Absent}] :
        seen = IF op.kind = "remove" /\ result = "ok" THEN op.seen ELSE NoFiles
  BY <1>2, Zenon DEF NoFiles
<1>5. op' = [t EXCEPT !.seen = seen]
  BY <1>1, <1>4, Zenon DEF Finish
<1> QED
  BY <1>3, <1>4, <1>5 DEF Transaction

\* What a step may do to the files: one under no historical name keeps to its name.
FilesKept ==
    /\ files' \in [Names -> File \cup {Absent, Foreign}]
    /\ \A n \in Names : Named(n, files'[n])

LEMMA UnchangedKept ==
    ASSUME Inv, UNCHANGED files
    PROVE  FilesKept
BY DEF Inv, Typed, NamedInv, FilesKept, Named, Own

LEMMA PutKept ==
    ASSUME Inv, NEW n \in Names, NEW f \in File \cup {Absent, Foreign}, Named(n, f), MaybePut(n, f)
    PROVE  /\ FilesKept
           /\ \A m \in Names : m # n => files'[m] = files[m]
           /\ files'[n] \in {files[n], f}
BY FileAssumption DEF Inv, Typed, NamedInv, FilesKept, MaybePut, Put, Named, Own

\* The initial states, whatever CPA holds.
LEMMA InitInv == Init => Inv
<1> SUFFICES ASSUME Init PROVE Inv
  OBVIOUS
<1>1. PICK c \in Credential : op = Fresh("none", "ok", c, FALSE)
  BY Zenon DEF Init
<1>2. /\ op \in Transaction /\ op.kind = "none" /\ op.stage = "ok" /\ op.cred = c
      /\ op.previous = Absent /\ op.left = {} /\ op.saved = {} /\ op.seen = NoFiles
  BY <1>1 DEF Fresh, Transaction, NoFiles, Ended
<1>3. Typed
  BY <1>2, Zenon DEF Init, Typed, NoFiles
<1>4. StageInv /\ SeenInv
  BY <1>2, Zenon DEF Init, StageInv, SeenInv, Upserting, NoFiles
<1>5. NamedInv
  BY <1>2, Zenon DEF Init, NamedInv, Upserting, Named, Own, NoFiles
<1>6. FrameInv /\ DoneInv
  BY DEF Init, FrameInv, DoneInv
<1> QED
  BY <1>3, <1>4, <1>5, <1>6 DEF Inv

\* A transaction that ends in an error, having restored what it could.
LEMMA ErrorInv ==
    ASSUME Inv, Finish("error"), FilesKept, UNCHANGED <<before, disturbed>>, botched' \in BOOLEAN,
           ~disturbed /\ ~botched' => files' = before
    PROVE  Inv'
<1>1. /\ op' \in Transaction /\ op'.kind = op.kind /\ op'.stage = "error"
      /\ op'.cred = op.cred /\ op'.want = op.want
      /\ op'.previous = Absent /\ op'.left = {} /\ op'.saved = {} /\ op'.seen = NoFiles
  BY FinishIs DEF Inv, Ended
<1>2. Typed'
  BY <1>1 DEF Inv, Typed, FilesKept
<1>3. StageInv' /\ SeenInv'
  BY <1>1 DEF Inv, StageInv, SeenInv, Upserting, NoFiles, Ended
<1>4. NamedInv'
  BY <1>1 DEF FilesKept, NamedInv, Upserting, Named, Own, NoFiles, Ended
<1>5. FrameInv'
  BY <1>1 DEF FrameInv, Upserting, NoFiles, Ended
<1>6. DoneInv'
  BY <1>1 DEF DoneInv, Upserting, Ended, UpsertComplete, RemoveComplete, DisableComplete, Returned
<1> QED
  BY <1>2, <1>3, <1>4, <1>5, <1>6 DEF Inv

\* A call of the forward part failed: what the transaction has changed is what the
\* rollback is going to restore.
LEMMA AbortInv ==
    ASSUME Inv, NEW saved \in SUBSET Matched, Abort(saved), FilesKept,
           UNCHANGED <<before, disturbed, botched>>,
           op.stage \in {"upload", "verify", "delete", "gone", "confirm", "set", "state"},
           op.kind = "upsert" => Canon \notin saved,
           ~disturbed => \A n \in Names \ saved :
             files'[n] = before[n] \/ (op.kind = "upsert" /\ n = Canon)
    PROVE  Inv'
<1> DEFINE stage == IF op.kind = "upsert" THEN "undo" ELSE "restore"
<1> USE DEF Inv
<1>1. saved \in SUBSET Names
  BY MatchType DEF Matched
<1>2. op' = [op EXCEPT !.stage = stage, !.saved = saved] /\ stage \in Stages
  BY DEF Abort, Stages
<1> HIDE DEF stage
<1>3. /\ op' \in Transaction /\ op'.kind = op.kind /\ op'.stage = stage
      /\ op'.cred = op.cred /\ op'.want = op.want /\ op'.seen = op.seen
      /\ op'.previous = op.previous /\ op'.body = op.body /\ op'.left = op.left /\ op'.saved = saved
  BY <1>1, <1>2, Zenon DEF Typed, Transaction
<1>4. op.kind \in {"upsert", "remove", "disable"} /\ ~botched
  BY DEF StageInv
<1>5. stage \in {"undo", "restore"} /\ (stage = "undo" <=> op.kind = "upsert")
  BY DEF stage
<1>6. Typed'
  BY <1>3 DEF Typed, FilesKept
<1>7. StageInv'
  BY <1>3, <1>4, <1>5 DEF StageInv
<1>8. Matched' = Matched /\ Canon' = Canon
  BY <1>3 DEF Matched, Canon
<1>9. Upserting' <=> Upserting
  BY <1>3, <1>5 DEF Upserting, Ended
<1>10. SeenInv'
  BY <1>3, <1>8, <1>9, NameType DEF SeenInv, FilesKept, Canon, Typed, Transaction
<1>11. NamedInv'
  BY <1>3, <1>8, <1>9 DEF NamedInv, FilesKept, Named, Own
<1>12. FrameInv'
  BY <1>3, <1>4, <1>5, <1>8, <1>9 DEF FrameInv, Same
<1>13. DoneInv'
  <2>1. Inherits(op.body) => Inherits(op.body)'
    BY <1>3, ZenonT(30) DEF Inherits, Standing
  <2>2. Shown' = Shown
    BY <1>3 DEF Shown, Own
  <2> QED
    BY <1>3, <1>5, <1>9, <2>1, <2>2, Zenon
       DEF DoneInv, Ended, UpsertComplete, RemoveComplete, DisableComplete, Returned, Matches, Own
<1> QED
  BY <1>6, <1>7, <1>10, <1>11, <1>12, <1>13

-----------------------------------------------------------------------------
(* The steps of a transaction                                              *)

LEMMA BeginInv ==
    ASSUME Inv, NEW kind \in {"upsert", "remove", "disable"}, NEW cred \in Credential \cup IdentityOnly,
           NEW want \in BOOLEAN, kind \in {"upsert", "disable"} => cred \in Credential,
           Begin(kind, cred, want)
    PROVE  Inv'
<1> USE DEF Inv
<1>1. /\ op' \in Transaction /\ op'.kind = kind /\ op'.stage = "list" /\ op'.cred = cred
      /\ op'.previous = Absent /\ op'.left = {} /\ op'.saved = {} /\ op'.seen = NoFiles
  BY DEF Begin, Fresh, Transaction, NoFiles, Stages
<1>2. FilesKept /\ files' = files /\ before' = files /\ ~disturbed' /\ ~botched'
  BY UnchangedKept DEF Begin
<1>3. Typed'
  BY <1>1, <1>2, Zenon DEF Typed, Begin
<1>4. StageInv' /\ SeenInv'
  BY <1>1, <1>2 DEF StageInv, SeenInv, Upserting, NoFiles
<1>5. NamedInv'
  BY <1>1, <1>2 DEF FilesKept, NamedInv, Upserting, Named, Own, NoFiles
<1>6. FrameInv'
  BY <1>1, <1>2 DEF FrameInv, Upserting, NoFiles
<1>7. DoneInv'
  BY <1>1 DEF DoneInv, Upserting, UpsertComplete, RemoveComplete, DisableComplete, Returned
<1> QED
  BY <1>3, <1>4, <1>5, <1>6, <1>7

\* What the list and the downloads find: files of the identity as they are, and
\* every match, since CPA leaves out of its list only names that are probed or
\* cannot match.
LEMMA FoundIs ==
    ASSUME Inv, NEW hidden \in Unlisted(op.cred)
    PROVE  /\ Found(hidden) \in [Names -> File \cup {Absent}]
           /\ \A n \in Names : /\ Found(hidden)[n] # Absent => Found(hidden)[n] = files[n] /\ files[n] # Foreign
                               /\ Named(n, Found(hidden)[n])
           /\ (op.cred \in Credential \/ \A n \in Names : Own(files[n]) => ~files[n].disabled)
                => \A n \in Names : Matches(files[n], op.cred) => Found(hidden)[n] # Absent
<1> USE DEF Inv
<1>1. Found(hidden) \in [Names -> File \cup {Absent}]
  BY DEF Found, Typed, Own
<1>2. \A n \in Names : /\ Found(hidden)[n] # Absent => Found(hidden)[n] = files[n] /\ files[n] # Foreign
                       /\ Named(n, Found(hidden)[n])
  BY DEF Found, NamedInv, Named, Own
<1>3. ASSUME op.cred \in Credential \/ \A n \in Names : Own(files[n]) => ~files[n].disabled,
             NEW n \in Names, Matches(files[n], op.cred)
      PROVE  Found(hidden)[n] # Absent
  <2>1. Own(files[n])
    BY <1>3 DEF Matches
  <2>2. SUFFICES n \notin hidden
    BY <2>1 DEF Found, Own
  <2>3. CASE op.cred \in Credential
    <3>1. op.cred.meta \in Metas /\ op.cred.meta # Blank /\ authFileName(op.cred) = CanonicalName[op.cred.meta]
      BY <2>3, NameType, BlankAssumption
    <3>2. n \in Historical \/ n = authFileName(op.cred)
      BY <1>3, <2>1, <3>1, BlankAssumption DEF Matches, NamedInv, Named
    <3> QED
      BY <3>1, <3>2 DEF Unlisted, managedAuthFileCandidates
  <2>4. CASE ~files[n].disabled
    BY <2>4 DEF Unlisted
  <2> QED
    BY <1>3, <2>1, <2>3, <2>4
<1> QED
  BY <1>1, <1>2, <1>3

\* A transaction that ends well.
LEMMA OkInv ==
    ASSUME Inv, Finish("ok"), UNCHANGED <<files, before, disturbed, botched>>, ~botched,
           ~disturbed /\ op.kind = "remove" => Same(Matched),
           ~disturbed /\ op.kind = "restore" => files = before,
           (UpsertComplete /\ RemoveComplete /\ DisableComplete)'
    PROVE  Inv'
<1> USE DEF Inv
<1>1. /\ op' \in Transaction /\ op'.kind = op.kind /\ op'.stage = "ok"
      /\ op'.cred = op.cred /\ op'.want = op.want
      /\ op'.previous = Absent /\ op'.left = {} /\ op'.saved = {}
      /\ op'.seen = IF op.kind = "remove" THEN op.seen ELSE NoFiles
  BY FinishIs DEF Ended
<1>2. FilesKept
  BY UnchangedKept
<1>3. Typed'
  BY <1>1 DEF Typed
<1>4. StageInv' /\ SeenInv'
  BY <1>1 DEF StageInv, SeenInv, Upserting, NoFiles, Ended
<1>5. NamedInv'
  BY <1>1 DEF NamedInv, Upserting, Named, Own, NoFiles, Ended
<1>6. FrameInv'
  BY <1>1 DEF FrameInv, Upserting, NoFiles, Ended, Same, Matched
<1>7. DoneInv'
  BY <1>1 DEF DoneInv, Upserting, Ended
<1> QED
  BY <1>3, <1>4, <1>5, <1>6, <1>7

\* The files found are taken over.
LEMMA ListedInv ==
    ASSUME Inv, At("list"), NEW hidden \in Unlisted(op.cred), NEW stage \in Stages, NEW left,
           op' = [op EXCEPT !.stage = stage, !.seen = Found(hidden), !.left = left],
           \/ op.kind = "upsert" /\ stage = "check" /\ left = {}
           \/ /\ op.kind = "remove" /\ stage = "delete"
              /\ left = matchingManagedFileNames(Found(hidden), op.cred) /\ left # {}
           \/ /\ op.kind = "disable" /\ stage = "set"
              /\ left = matchingManagedFileNames(Found(hidden), op.cred) /\ left # {},
           UNCHANGED <<files, before, disturbed, botched>>
    PROVE  Inv'
<1> USE DEF Inv
<1>1. PICK found : found = Found(hidden)
  OBVIOUS
<1>2. /\ found \in [Names -> File \cup {Absent}]
      /\ \A n \in Names : /\ found[n] # Absent => found[n] = files[n] /\ files[n] # Foreign
                          /\ Named(n, found[n])
      /\ (op.cred \in Credential \/ \A n \in Names : Own(files[n]) => ~files[n].disabled)
           => \A n \in Names : Matches(files[n], op.cred) => found[n] # Absent
  BY <1>1, FoundIs
<1>3. left \in SUBSET Names /\ left \subseteq matchingManagedFileNames(found, op.cred)
  BY <1>1, MatchType
<1>4. /\ op' \in Transaction /\ op'.kind = op.kind /\ op'.stage = stage
      /\ op'.cred = op.cred /\ op'.want = op.want /\ op'.seen = found
      /\ op'.previous = Absent /\ op'.left = left /\ op'.saved = {}
  BY <1>1, <1>2, <1>3, Zenon DEF At, StageInv, Typed, Transaction
<1>5. Typed'
  BY <1>4 DEF Typed
<1>6. StageInv'
  BY <1>4 DEF StageInv, At
<1>7. ~Upserting'
  BY <1>4 DEF Upserting
<1>8. SeenInv'
  BY <1>2, <1>3, <1>4, <1>7 DEF SeenInv, Matched
<1>9. NamedInv'
  BY <1>2, <1>4, <1>7 DEF NamedInv, Named, Own
<1>10. FrameInv'
  BY <1>2, <1>4, <1>7 DEF FrameInv, At, Same
<1>11. DoneInv'
  <2>1. ~disturbed => files = before
    BY DEF FrameInv, At
  <2>2. Shown' = Shown
    BY <1>4 DEF Shown, Own
  <2> QED
    BY <1>1, <1>2, <1>4, <1>7, <2>1, <2>2
       DEF DoneInv, Shown, Matched, UpsertComplete, RemoveComplete, DisableComplete, Returned
<1> QED
  BY <1>5, <1>6, <1>8, <1>9, <1>10, <1>11

LEMMA ListInv ==
    ASSUME Inv, managedAuthFilesForCredentials
    PROVE  Inv'
<1>0. op.stage = "list" /\ At("list") /\ UNCHANGED <<files, before, disturbed, botched>>
  BY Zenon DEF managedAuthFilesForCredentials, At
<1>1. CASE Finish("error")
  BY <1>0, <1>1, ErrorInv, UnchangedKept, Zenon DEF Inv, Typed, FrameInv
<1>2. ASSUME NEW hidden \in Unlisted(op.cred),
             LET found == Found(hidden)
                 names == matchingManagedFileNames(found, op.cred)
             IN CASE op.kind = "upsert" ->
                       op' = [op EXCEPT !.stage = "check", !.seen = found]
                  [] op.kind = "remove" /\ names # {} ->
                       op' = [op EXCEPT !.stage = "delete", !.seen = found, !.left = names]
                  [] op.kind = "remove" /\ names = {} -> Finish("ok")
                  [] op.kind = "disable" /\ names # {} ->
                       op' = [op EXCEPT !.stage = "set", !.seen = found, !.left = names]
                  [] op.kind = "disable" /\ names = {} -> Finish("error")
      PROVE  Inv'
  <2> DEFINE found == Found(hidden)
             names == matchingManagedFileNames(found, op.cred)
  <2>1. CASE op.kind = "upsert"
    <3>1. op' = [op EXCEPT !.stage = "check", !.seen = found]
      BY <1>2, <2>1, Zenon
    <3>2. op.left = {}
      BY <1>0, Zenon DEF Inv, StageInv
    <3>3. op' = [op EXCEPT !.stage = "check", !.seen = found, !.left = {}]
      BY <3>1, <3>2, Zenon DEF Inv, Typed, Transaction
    <3> QED
      BY <2>1, <3>3, <1>0, ListedInv, Zenon DEF Stages
  <2>2. CASE op.kind = "remove" /\ names # {}
    <3>1. op' = [op EXCEPT !.stage = "delete", !.seen = found, !.left = names]
      BY <1>2, <2>2, Zenon
    <3> QED
      BY <2>2, <3>1, <1>0, ListedInv, Zenon DEF Stages
  <2>3. CASE op.kind = "remove" /\ names = {}
    <3>1. Finish("ok")
      BY <1>2, <2>3, Zenon
    <3>2. ~disturbed => files = before
      BY <1>0, Zenon DEF Inv, FrameInv
    <3>3. ~botched
      BY <1>0 DEF Inv, StageInv
    <3>4. /\ op'.kind = "remove" /\ op'.stage = "ok" /\ op'.cred = op.cred
      BY <2>3, <3>1, FinishIs, Zenon DEF Inv, Ended
    <3>5. RemoveComplete'
      <4>1. SUFFICES ASSUME ~disturbed, op.cred \in Credential \/ \A n \in Names : Own(before[n]) => ~before[n].disabled,
                            NEW n \in Names
                     PROVE  ~Matches(before[n], op.cred)
        BY <1>0, <3>2, <3>4, Zenon DEF RemoveComplete, Returned, Own, Matches
      <4>2. Matches(files[n], op.cred) => found[n] # Absent /\ found[n] = files[n]
        BY <3>2, <4>1, FoundIs, Zenon
      <4> QED
        BY <2>3, <3>2, <4>1, <4>2, Zenon DEF matchingManagedFileNames
    <3>6. UpsertComplete' /\ DisableComplete'
      BY <3>4, Zenon DEF UpsertComplete, DisableComplete, Returned
    <3> QED
      BY <2>3, <3>1, <3>2, <3>3, <3>5, <3>6, <1>0, OkInv, Zenon DEF Same
  <2>4. CASE op.kind = "disable" /\ names # {}
    <3>1. op' = [op EXCEPT !.stage = "set", !.seen = found, !.left = names]
      BY <1>2, <2>4, Zenon
    <3> QED
      BY <2>4, <3>1, <1>0, ListedInv, Zenon DEF Stages
  <2>5. CASE op.kind = "disable" /\ names = {}
    <3>1. Finish("error")
      BY <1>2, <2>5, Zenon
    <3> QED
      BY <1>1, <3>1, Zenon
  <2>6. op.kind \in {"upsert", "remove", "disable"}
    BY <1>0 DEF Inv, StageInv
  <2> QED
    BY <2>1, <2>2, <2>3, <2>4, <2>5, <2>6, Zenon
<1> QED
  BY <1>1, <1>2, ZenonT(30) DEF managedAuthFilesForCredentials

\* The canonical file is the identity's or absent: what it was is remembered, and
\* the body takes over what stood for the credential.
LEMMA CheckInv ==
    ASSUME Inv, CheckCanonical
    PROVE  Inv'
<1> DEFINE previous == IF Own(files[Canon]) THEN files[Canon] ELSE op.seen[Canon]
           prior == IF previous # Absent THEN previous ELSE preferredManagedFile(op.seen, op.cred)
           body == Encode(op.cred, prior)
           stage == IF previous = body THEN "verify" ELSE "upload"
<1>1. CASE Finish("error")
  BY <1>1, ErrorInv, UnchangedKept DEF CheckCanonical, Inv, Typed, FrameInv, At
<1>2. CASE /\ files[Canon] # Foreign
           /\ op' = [op EXCEPT !.previous = previous, !.body = body, !.stage = stage]
  <2> USE DEF Inv
  <2>1. /\ op.stage = "check" /\ op.kind = "upsert" /\ op.cred \in Credential /\ Canon \in Names
        /\ op.left = {} /\ op.saved = {} /\ ~botched
        /\ UNCHANGED <<files, before, disturbed, botched>>
    BY NameType DEF CheckCanonical, At, StageInv, Canon
  <2>2. previous \in File \cup {Absent} /\ Named(Canon, previous)
    BY <2>1, Zenon DEF Typed, Transaction, NamedInv, Own, Named
  <2>3. prior \in File \cup {Absent}
    <3>1. op.seen \in [Names -> File \cup {Absent}]
      BY DEF Typed, Transaction
    <3>2. preferredManagedFile(op.seen, op.cred) \in File \cup {Absent}
      BY <2>1, <3>1, Preferred, MatchType
    <3> HIDE DEF previous
    <3> QED
      BY <2>2, <3>2
  <2>4. /\ body \in File /\ body.meta = op.cred.meta /\ body.key = op.cred.key
        /\ prior = Absent => ~body.disabled /\ body.user = DefaultUser
        /\ prior # Absent => body.disabled = prior.disabled /\ body.user = prior.user
    <3> HIDE DEF prior
    <3> QED
      BY <2>1, <2>3, EncodeIs
  <2>5. stage \in {"verify", "upload"} /\ stage \in Stages
    BY DEF Stages
  <2>6. ~disturbed => files = before /\ previous = before[Canon]
    BY <1>2, <2>1 DEF FrameInv, Typed, Own
  <2>7. ~disturbed => Inherits(body)
    <3> SUFFICES ASSUME ~disturbed PROVE Inherits(body)
      OBVIOUS
    <3>1. CASE Own(before[Canon])
      <4>1. prior = before[Canon] /\ prior # Absent
        BY <2>6, <3>1 DEF Own
      <4>2. Standing(op.cred) = {prior}
        BY <3>1, <4>1, Zenon DEF Standing, Canon
      <4> HIDE DEF prior, body
      <4> QED
        BY <2>4, <4>1, <4>2 DEF Inherits
    <3>2. CASE ~Own(before[Canon])
      <4>1. previous = Absent /\ prior = preferredManagedFile(op.seen, op.cred)
        BY <1>2, <2>6, <3>2 DEF Own
      <4>2. \A n \in Names : Matches(op.seen[n], op.cred) \/ Matches(before[n], op.cred)
                               => op.seen[n] = before[n]
        BY <2>1, Zenon DEF DoneInv, Shown, Ended, FrameInv, Matches, Own
      <4>3. matchingManagedFileNames(before, op.cred) = Matched
        BY <4>2 DEF matchingManagedFileNames, Matched
      <4>4. /\ \A n \in Matched : n \in Names /\ op.seen[n] = before[n] /\ before[n] # Absent
            /\ authFileName(op.cred) \notin Matched
        BY <3>2, <4>2, Zenon DEF matchingManagedFileNames, Matched, Canon, Matches, Own
      <4>5. Standing(op.cred) = {before[n] : n \in Matched}
        BY <3>2, <4>3, Zenon DEF Standing, Canon
      <4>6. /\ Matched = {} => prior = Absent
            /\ Matched # {} => \E n \in Matched : prior = op.seen[n]
            /\ (Matched # {} /\ \E m \in Matched : op.seen[m].key = op.cred.key) => prior.key = op.cred.key
        <5>1. op.seen \in [Names -> File \cup {Absent}] /\ op.cred \in Credential \cup IdentityOnly
          BY DEF Typed, Transaction
        <5> QED
          BY <4>1, <4>4, <5>1, Preferred, Zenon DEF Matched
      <4> HIDE DEF prior, body
      <4>7. CASE Matched = {}
        BY <2>4, <4>5, <4>6, <4>7 DEF Inherits
      <4>8. CASE Matched # {}
        <5>1. PICK n \in Matched : prior = before[n] /\ prior # Absent
          BY <4>4, <4>6, <4>8
        <5>2. prior \in Standing(op.cred)
          BY <4>5, <5>1
        <5>3. (\E g \in Standing(op.cred) : g.key = op.cred.key) => prior.key = op.cred.key
          BY <4>4, <4>5, <4>6, <4>8
        <5> QED
          BY <2>4, <5>1, <5>2, <5>3 DEF Inherits
      <4> QED
        BY <4>7, <4>8
    <3> QED
      BY <3>1, <3>2
  <2>8. ~disturbed /\ stage = "verify" => files[Canon] = body
    BY <2>6
  <2> HIDE DEF previous, prior, body, stage
  <2>9. /\ op' \in Transaction /\ op'.kind = op.kind /\ op'.stage = stage
        /\ op'.cred = op.cred /\ op'.want = op.want /\ op'.seen = op.seen
        /\ op'.previous = previous /\ op'.body = body /\ op'.left = {} /\ op'.saved = {}
    BY <1>2, <2>1, <2>2, <2>4, <2>5, Zenon DEF Typed, Transaction
  <2>10. Typed'
    BY <2>1, <2>9 DEF Typed
  <2>11. StageInv'
    BY <2>1, <2>5, <2>9 DEF StageInv
  <2>12. Canon' = Canon /\ Matched' = Matched
    BY <2>9 DEF Canon, Matched
  <2>13. SeenInv'
    BY <1>2, <2>1, <2>9, <2>12 DEF SeenInv
  <2>14. NamedInv'
    BY <2>1, <2>2, <2>4, <2>9, <2>12, Zenon DEF NamedInv, Named, Own
  <2>15. FrameInv'
    BY <2>1, <2>5, <2>6, <2>9, <2>12, Zenon DEF FrameInv, Same
  <2>16. DoneInv'
    <3>1. Inherits(body) => Inherits(op.body)'
      BY <2>1, <2>9, ZenonT(30) DEF Inherits, Standing
    <3>2. Shown' = Shown
      BY <2>1, <2>9 DEF Shown, Own
    <3> QED
      BY <2>1, <2>5, <2>7, <2>8, <2>9, <2>12, <3>1, <3>2
         DEF DoneInv, Ended, UpsertComplete, RemoveComplete, DisableComplete, Returned, Matches, Own
  <2> QED
    BY <2>10, <2>11, <2>13, <2>14, <2>15, <2>16
<1> QED
  BY <1>1, <1>2 DEF CheckCanonical, Canon

\* The body an upsert uploads.
LEMMA BodyIs ==
    ASSUME Inv, Upserting
    PROVE  /\ Canon \in Names /\ op.body \in File /\ Named(Canon, op.body)
           /\ Own(op.body) /\ Matches(op.body, op.cred)
<1>1. op.cred \in Credential /\ op.cred.meta \in Metas /\ Canon = CanonicalName[op.cred.meta] /\ Canon \in Names
  BY NameType DEF Inv, StageInv, Upserting, Canon
<1>2. op.body \in File /\ op.body.meta = op.cred.meta
  BY DEF Inv, NamedInv
<1> QED
  BY <1>1, <1>2, FileAssumption DEF Named, Own, Matches

\* A call of the forward part has worked, and the transaction moves on.
Moves(stage, left, saved) ==
    /\ stage \in {"verify", "delete", "gone", "confirm", "set", "state"}
    /\ left \in SUBSET Matched /\ saved \in SUBSET Matched
    /\ op' = [op EXCEPT !.stage = stage, !.left = left, !.saved = saved]
    /\ FilesKept
    /\ UNCHANGED <<before, disturbed, botched>>
    /\ op.stage \in {"upload", "verify", "delete", "gone", "set", "state"}
    /\ stage \in {"verify", "confirm"} => op.kind = "upsert" /\ left = {}
    /\ stage \in {"delete", "gone"} => op.kind \in {"upsert", "remove"}
    /\ stage \in {"set", "state"} => op.kind = "disable"
    /\ stage \in {"delete", "gone", "set", "state"} => left # {}
    /\ stage = "verify" => saved = {}
    /\ stage = "set" => left \cap saved = {}
    /\ stage = "state" => left \cap saved \subseteq {Min(left)}
    /\ op.kind = "upsert" => Canon \notin left \cup saved
    /\ ~disturbed =>
         /\ \A n \in Names \ saved : files'[n] = before[n] \/ (op.kind = "upsert" /\ n = Canon)
         /\ op.kind = "upsert" => files'[Canon] = op.body
         /\ stage \in {"delete", "gone", "confirm"} =>
              \A n \in Matched \ left : files'[n] = Absent \/ (op.kind = "upsert" /\ n = Canon)
         /\ stage \in {"set", "state"} =>
              \A n \in Matched \ left : files'[n] = setManagedCredentialDisabled(op.seen[n], op.want)
         /\ stage = "state" => files'[Min(left)] = setManagedCredentialDisabled(op.seen[Min(left)], op.want)

LEMMA MoveInv ==
    ASSUME Inv, NEW stage, NEW left, NEW saved, Moves(stage, left, saved)
    PROVE  Inv'
<1> USE DEF Moves
<1> USE DEF Inv
<1>1. left \in SUBSET Names /\ saved \in SUBSET Names /\ stage \in Stages
  BY MatchType DEF Matched, Stages
<1>2. /\ op' \in Transaction /\ op'.kind = op.kind /\ op'.stage = stage
      /\ op'.cred = op.cred /\ op'.want = op.want /\ op'.seen = op.seen
      /\ op'.previous = op.previous /\ op'.body = op.body /\ op'.left = left /\ op'.saved = saved
  BY <1>1, Zenon DEF Typed, Transaction
<1>3. Canon' = Canon /\ Matched' = Matched /\ (Upserting' <=> Upserting) /\ Canon \in Names
  BY <1>2, NameType DEF Canon, Matched, Upserting, Ended, Typed, Transaction
<1>4. ~botched
  BY DEF StageInv
<1>5. Typed'
  BY <1>2 DEF Typed, FilesKept
<1>6. StageInv'
  BY <1>2, <1>4 DEF StageInv, Current
<1>7. SeenInv'
  BY <1>2, <1>3 DEF SeenInv, FilesKept
<1>8. NamedInv'
  BY <1>2, <1>3 DEF NamedInv, FilesKept, Named, Own
<1>9. FrameInv'
  BY <1>2, <1>3 DEF FrameInv, Same
<1>10. DoneInv'
  <2>0. before' = before
    OBVIOUS
  <2> HIDE DEF Inv, Moves
  <2>1. Inherits(op.body) => Inherits(op.body)'
    BY <1>2, <2>0, ZenonT(30) DEF Inherits, Standing
  <2>2. Shown' = Shown
    BY <1>2, <2>0 DEF Shown, Own
  <2> USE DEF Inv, Moves
  <2>3. Current' = Min(left)
    BY <1>2 DEF Current
  <2> QED
    BY <1>2, <1>3, <2>1, <2>2, <2>3
       DEF DoneInv, Ended, UpsertComplete, RemoveComplete, DisableComplete, Returned, Matches, Own
<1> QED
  BY <1>5, <1>6, <1>7, <1>8, <1>9, <1>10

LEMMA UploadInv ==
    ASSUME Inv, Upload
    PROVE  Inv'
<1>1. /\ op.stage = "upload" /\ op.kind = "upsert" /\ op.left = {} /\ op.saved = {} /\ Upserting
      /\ UNCHANGED <<before, disturbed, botched>>
  BY DEF Upload, At, Inv, StageInv, Upserting, Ended
<1>2. Canon \in Names /\ op.body \in File /\ Named(Canon, op.body)
  BY <1>1, BodyIs
<1>3. ~disturbed => files = before
  BY <1>1 DEF Inv, FrameInv
<1>4. CASE Put(Canon, op.body) /\ Goto("verify")
  <2>1. FilesKept /\ \A m \in Names : m # Canon => files'[m] = files[m]
    BY <1>2, <1>4, PutKept DEF MaybePut
  <2>2. files'[Canon] = op.body
    BY <1>2, <1>4 DEF Put, Inv, Typed
  <2>3. op' = [op EXCEPT !.stage = "verify", !.left = {}, !.saved = {}]
    BY <1>1, <1>4, Zenon DEF Goto, Inv, Typed, Transaction
  <2>4. Moves("verify", {}, {})
    BY <1>1, <1>3, <2>1, <2>2, <2>3 DEF Moves
  <2> QED
    BY <2>4, MoveInv, Zenon
<1>5. CASE MaybePut(Canon, op.body) /\ Abort({})
  <2>1. FilesKept /\ \A m \in Names : m # Canon => files'[m] = files[m]
    BY <1>2, <1>5, PutKept
  <2> QED
    BY <1>1, <1>3, <1>5, <2>1, AbortInv
<1> QED
  BY <1>4, <1>5 DEF Upload, Canon

\* An upsert whose upload is verified moves on to the stale names.
LEMMA VerifyInv ==
    ASSUME Inv, Verify
    PROVE  Inv'
<1>1. /\ op.stage = "verify" /\ op.kind = "upsert" /\ op.left = {} /\ op.saved = {}
      /\ UNCHANGED <<files, before, disturbed, botched>>
  BY DEF Verify, At, Inv, StageInv
<1>2. FilesKept
  BY <1>1, UnchangedKept
<1>3. ~disturbed => /\ \A n \in Names : files[n] = before[n] \/ n = Canon
                    /\ files[Canon] = op.body
  BY <1>1, Zenon DEF Inv, FrameInv, DoneInv, Same
<1>4. CASE op' = [op EXCEPT !.left = StaleNames,
                            !.stage = IF StaleNames = {} THEN "confirm" ELSE "delete"]
  <2> DEFINE stage == IF StaleNames = {} THEN "confirm" ELSE "delete"
  <2>1. StaleNames = Matched \ {Canon}
    BY DEF StaleNames, Matched, Canon
  <2>2. op' = [op EXCEPT !.stage = stage, !.left = StaleNames, !.saved = {}]
    BY <1>1, <1>4, Zenon DEF Inv, Typed, Transaction
  <2>3. stage \in {"confirm", "delete"} /\ (stage = "delete" <=> StaleNames # {})
    OBVIOUS
  <2> HIDE DEF stage
  <2>4. Moves(stage, StaleNames, {})
    BY <1>1, <1>2, <1>3, <2>1, <2>2, <2>3 DEF Moves
  <2> QED
    BY <2>4, MoveInv, Zenon
<1>5. CASE Abort({})
  BY <1>1, <1>2, <1>3, <1>5, AbortInv
<1> QED
  BY <1>4, <1>5 DEF Verify

\* The name a transaction works on is one of the matches it found.
LEMMA CurrentIs ==
    ASSUME Inv, op.left # {}
    PROVE  /\ Current \in op.left /\ Current \in Matched /\ Current \in Names
           /\ op.seen[Current] \in File /\ op.seen[Current] # Absent /\ Named(Current, op.seen[Current])
           /\ op.kind = "upsert" => Current # Canon
<1>1. op.left \in SUBSET Names
  BY DEF Inv, Typed, Transaction
<1>2. Current \in op.left
  BY <1>1, First DEF Current
<1>3. Current \in Matched
  BY <1>2 DEF Inv, SeenInv
<1>4. op.seen[Current] # Absent /\ op.seen[Current] \in File
  BY <1>1, <1>2, <1>3, MatchType DEF Matched, Inv, Typed, Transaction
<1> QED
  BY <1>1, <1>2, <1>3, <1>4 DEF Inv, SeenInv, NamedInv

LEMMA DeleteInv ==
    ASSUME Inv, Delete
    PROVE  Inv'
<1> DEFINE saved == op.saved \cup {Current}
<1>1. /\ op.stage = "delete" /\ op.kind \in {"upsert", "remove"} /\ op.left # {}
      /\ UNCHANGED <<before, disturbed, botched>>
  BY DEF Delete, At, Inv, StageInv
<1>2. Current \in op.left /\ Current \in Names /\ (op.kind = "upsert" => Current # Canon)
  BY <1>1, CurrentIs
<1>3. saved \in SUBSET Matched /\ op.left \in SUBSET Matched /\ (op.kind = "upsert" => Canon \notin op.left \cup saved)
  BY <1>1, CurrentIs DEF Inv, SeenInv
<1>4. MaybePut(Current, Absent)
  BY DEF Delete, MaybePut
<1>5. FilesKept /\ \A m \in Names : m # Current => files'[m] = files[m]
  BY <1>2, <1>4, PutKept DEF Named, Own
<1>6. Canon \in Names
  BY NameType DEF Canon, Inv, Typed, Transaction
<1>7. ~disturbed => /\ \A n \in Names \ saved : files'[n] = before[n] \/ (op.kind = "upsert" /\ n = Canon)
                    /\ op.kind = "upsert" => files'[Canon] = op.body
                    /\ \A n \in Matched \ op.left : files'[n] = Absent \/ (op.kind = "upsert" /\ n = Canon)
  <2>1. Matched \in SUBSET Names
    BY MatchType DEF Matched
  <2> QED
    BY <1>1, <1>2, <1>5, <1>6, <2>1, Zenon DEF Inv, FrameInv, DoneInv, Same
<1>8. CASE op' = [op EXCEPT !.stage = "gone", !.saved = saved]
  <2>1. op' = [op EXCEPT !.stage = "gone", !.left = op.left, !.saved = saved]
    BY <1>8, Zenon DEF Inv, Typed, Transaction
  <2>2. Moves("gone", op.left, saved)
    BY <1>1, <1>3, <1>5, <1>7, <2>1 DEF Moves
  <2> QED
    BY <2>2, MoveInv, Zenon
<1>9. CASE Abort(saved)
  BY <1>1, <1>3, <1>5, <1>7, <1>9, AbortInv, SMTT(30)
<1> QED
  BY <1>8, <1>9 DEF Delete

\* The matches that were processed, when none was overlooked, are all there were.
LEMMA MatchedIs ==
    ASSUME Inv, ~disturbed, Shown, op.kind # "restore", op.stage \notin {"list"} \cup Ended
    PROVE  \A n \in Names : n \in Matched <=> Matches(before[n], op.cred)
BY Zenon DEF Inv, FrameInv, DoneInv, Matched, matchingManagedFileNames, Matches, Own

\* A name whose file is gone is done; the last one ends a removal.
LEMMA GoneInv ==
    ASSUME Inv, Gone
    PROVE  Inv'
<1> DEFINE left == op.left \ {Current}
<1>1. /\ op.stage = "gone" /\ op.kind \in {"upsert", "remove"} /\ op.left # {} /\ ~botched
      /\ UNCHANGED <<files, before, disturbed, botched>>
  BY Zenon DEF Gone, At, Inv, StageInv
<1>2. FilesKept
  BY <1>1, UnchangedKept, Zenon
<1>3. /\ op.saved \in SUBSET Matched /\ op.left \in SUBSET Matched /\ Matched \in SUBSET Names
      /\ op.kind = "upsert" => Canon \notin op.left \cup op.saved
      /\ Current \in op.left
  BY <1>1, CurrentIs, MatchType, Zenon DEF Inv, SeenInv, Matched
<1>4. ~disturbed => /\ \A n \in Names \ op.saved : files[n] = before[n] \/ (op.kind = "upsert" /\ n = Canon)
                    /\ op.kind = "upsert" => files[Canon] = op.body
                    /\ \A n \in Matched \ op.left : files[n] = Absent \/ (op.kind = "upsert" /\ n = Canon)
  BY <1>1, <1>3, Zenon DEF Inv, FrameInv, DoneInv, Same
<1>5. CASE files[Current] = Absent /\ Advance("delete", IF op.kind = "upsert" THEN "confirm" ELSE "ok")
  <2>1. CASE left # {}
    <3>1. op' = [op EXCEPT !.stage = "delete", !.left = left, !.saved = op.saved]
      BY <1>5, <2>1, Zenon DEF Advance, Inv, Typed, Transaction
    <3>2. Moves("delete", left, op.saved)
      BY <1>1, <1>2, <1>3, <1>4, <1>5, <2>1, <3>1 DEF Moves
    <3> QED
      BY <3>2, MoveInv, Zenon
  <2>2. CASE left = {} /\ op.kind = "upsert"
    <3>1. op' = [op EXCEPT !.stage = "confirm", !.left = {}, !.saved = op.saved]
      BY <1>5, <2>2, Zenon DEF Advance, Inv, Typed, Transaction
    <3>2. Moves("confirm", {}, op.saved)
      BY <1>1, <1>2, <1>3, <1>4, <1>5, <2>2, <3>1 DEF Moves
    <3> QED
      BY <3>2, MoveInv, Zenon
  <2>3. CASE left = {} /\ op.kind = "remove"
    <3>1. Finish("ok")
      BY <1>5, <2>3 DEF Advance
    <3>2. op'.kind = "remove" /\ op'.stage = "ok" /\ op'.cred = op.cred
      BY <2>3, <3>1, FinishIs DEF Inv, Ended
    <3>3. ~disturbed => /\ \A n \in Matched : files[n] = Absent
                        /\ \A n \in Names \ Matched : files[n] = before[n]
      BY <1>3, <1>4, <1>5, <2>3
    <3>4. RemoveComplete'
      <4>1. SUFFICES ASSUME ~disturbed, Shown, NEW n \in Names
                     PROVE  files[n] = IF Matches(before[n], op.cred) THEN Absent ELSE before[n]
        BY <1>1, <3>2 DEF RemoveComplete, Returned, Shown, Own, Matches
      <4>2. n \in Matched <=> Matches(before[n], op.cred)
        BY <1>1, <4>1, MatchedIs DEF Ended
      <4> QED
        BY <3>3, <4>1, <4>2
    <3>5. UpsertComplete' /\ DisableComplete'
      BY <3>2 DEF UpsertComplete, DisableComplete, Returned
    <3> QED
      BY <1>1, <2>3, <3>1, <3>3, <3>4, <3>5, OkInv DEF Same
  <2> QED
    BY <1>1, <2>1, <2>2, <2>3
<1>6. CASE Abort(op.saved)
  BY <1>1, <1>2, <1>3, <1>4, <1>6, AbortInv
<1> QED
  BY <1>5, <1>6, SMTT(30) DEF Gone

\* The upsert ends well once its file is confirmed.
LEMMA ConfirmInv ==
    ASSUME Inv, Confirm
    PROVE  Inv'
<1>1. /\ op.stage = "confirm" /\ op.kind = "upsert" /\ op.left = {} /\ ~botched /\ Upserting
      /\ op.cred \in Credential /\ UNCHANGED <<files, before, disturbed, botched>>
  BY DEF Confirm, At, Inv, StageInv, Upserting, Ended
<1>2. FilesKept
  BY <1>1, UnchangedKept
<1>3. op.saved \in SUBSET Matched /\ Canon \notin op.saved /\ Matched \in SUBSET Names
  BY <1>1, MatchType DEF Inv, SeenInv, Matched
<1>4. ~disturbed => /\ \A n \in Names \ op.saved : files[n] = before[n] \/ n = Canon
                    /\ files[Canon] = op.body
                    /\ \A n \in Matched : files[n] = Absent \/ n = Canon
  BY <1>1, Zenon DEF Inv, FrameInv, DoneInv, Same
<1>5. CASE Finish("ok")
  <2>1. op'.kind = "upsert" /\ op'.stage = "ok" /\ op'.cred = op.cred
    BY <1>1, <1>5, FinishIs DEF Inv, Ended
  <2>2. UpsertComplete'
    <3>1. SUFFICES ASSUME ~disturbed
                   PROVE  /\ Own(op.body) /\ op.body.meta = op.cred.meta /\ op.body.key = op.cred.key
                          /\ Inherits(op.body)
                          /\ \A n \in Names \ {Canon} :
                               files[n] = IF Matches(before[n], op.cred) THEN Absent ELSE before[n]
      <4>1. Standing(op.cred)' = Standing(op.cred)
        BY <1>1, <2>1, SMTT(30) DEF Standing, Own, matchingManagedFileNames, Matches
      <4> QED
        BY <1>1, <1>4, <2>1, <4>1, SMTT(30) DEF UpsertComplete, Returned, Canon, Inherits, Own, Matches
    <3>2. Own(op.body) /\ op.body.meta = op.cred.meta /\ op.body.key = op.cred.key
      BY <1>1, BodyIs, Zenon DEF Inv, NamedInv
    <3>3. Inherits(op.body)
      BY <1>1, <3>1, Zenon DEF Inv, DoneInv
    <3>4. \A n \in Names : n \in Matched <=> Matches(before[n], op.cred)
      BY <1>1, <3>1, MatchedIs DEF Shown, Ended
    <3> QED
      BY <1>3, <1>4, <3>1, <3>2, <3>3, <3>4, Zenon
  <2>3. RemoveComplete' /\ DisableComplete'
    BY <2>1 DEF RemoveComplete, DisableComplete, Returned
  <2> QED
    BY <1>1, <1>5, <2>2, <2>3, OkInv
<1>6. CASE Abort(op.saved)
  BY <1>1, <1>2, <1>3, <1>4, <1>6, AbortInv
<1> QED
  BY <1>5, <1>6 DEF Confirm

\* One file is rewritten.
LEMMA SetDisabledInv ==
    ASSUME Inv, SetDisabled
    PROVE  Inv'
<1> DEFINE next == setManagedCredentialDisabled(op.seen[Current], op.want)
           saved == op.saved \cup {Current}
<1>1. /\ op.stage = "set" /\ op.kind = "disable" /\ op.left # {} /\ op.left \cap op.saved = {}
      /\ UNCHANGED <<before, disturbed, botched>>
  BY DEF SetDisabled, At, Inv, StageInv
<1>2. /\ Current \in op.left /\ Current \in Matched /\ Current \in Names
      /\ op.seen[Current] \in File /\ Named(Current, op.seen[Current]) /\ op.seen[Current] # Absent
  BY <1>1, CurrentIs
<1>3. next \in File /\ Named(Current, next)
  <2>1. op.want \in BOOLEAN
    BY DEF Inv, Typed, Transaction
  <2>2. next \in File /\ next.meta = op.seen[Current].meta
    BY <1>2, <2>1 DEF setManagedCredentialDisabled, File
  <2> QED
    BY <1>2, <2>2, FileAssumption, Zenon DEF Named, Own
<1>4. saved \in SUBSET Matched /\ op.left \in SUBSET Matched /\ Matched \in SUBSET Names
  BY <1>1, <1>2, MatchType, Zenon DEF Inv, SeenInv, Matched
<1>5. ~disturbed => files[Current] = op.seen[Current]
  BY <1>1, <1>2 DEF Inv, FrameInv, Same
<1> HIDE DEF next
<1>6. MaybePut(Current, next)
  BY DEF SetDisabled, MaybePut, next
<1>7. FilesKept /\ \A m \in Names : m # Current => files'[m] = files[m]
  BY <1>2, <1>3, <1>6, PutKept, SMTT(30)
<1>8. ~disturbed => /\ \A n \in Names \ saved : files'[n] = before[n]
                    /\ \A n \in Matched \ op.left : files'[n] = setManagedCredentialDisabled(op.seen[n], op.want)
  BY <1>1, <1>2, <1>4, <1>7, Zenon DEF Inv, FrameInv, DoneInv, Same
<1>9. CASE /\ IF next = op.seen[Current] THEN UNCHANGED files ELSE Put(Current, next)
           /\ op' = [op EXCEPT !.stage = "state", !.saved = saved]
  <2>1. op' = [op EXCEPT !.stage = "state", !.left = op.left, !.saved = saved]
    BY <1>9, Zenon DEF Inv, Typed, Transaction
  <2>2. ~disturbed => files'[Current] = next
    BY <1>2, <1>5, <1>9 DEF Put, Inv, Typed
  <2>3. Moves("state", op.left, saved)
    BY <1>1, <1>2, <1>4, <1>7, <1>8, <2>1, <2>2 DEF Moves, Current, next
  <2> QED
    BY <2>3, MoveInv, Zenon
<1>10. CASE Abort(saved)
  BY <1>1, <1>4, <1>7, <1>8, <1>10, AbortInv, Zenon
<1> QED
  BY <1>9, <1>10 DEF SetDisabled, next

\* A file that shows the flag is done; the last one ends the transaction.
LEMMA StateVerifiedInv ==
    ASSUME Inv, StateVerified
    PROVE  Inv'
<1> DEFINE left == op.left \ {Current}
<1>1. /\ op.stage = "state" /\ op.kind = "disable" /\ op.left # {} /\ op.left \cap op.saved \subseteq {Current}
      /\ op.cred \in Credential /\ ~botched /\ UNCHANGED <<files, before, disturbed, botched>>
  BY Zenon DEF StateVerified, At, Inv, StageInv
<1>2. FilesKept
  BY <1>1, UnchangedKept, Zenon
<1>3. /\ op.saved \in SUBSET Matched /\ op.left \in SUBSET Matched /\ Matched \in SUBSET Names
      /\ Current \in op.left
  BY <1>1, CurrentIs, MatchType, Zenon DEF Inv, SeenInv, Matched
<1>4. ~disturbed => /\ \A n \in Names \ op.saved : files[n] = before[n]
                    /\ \A n \in Matched \ left : files[n] = setManagedCredentialDisabled(op.seen[n], op.want)
  BY <1>1, <1>3, Zenon DEF Inv, FrameInv, DoneInv, Same
<1>5. CASE Advance("set", "ok")
  <2>1. CASE left # {}
    <3>1. op' = [op EXCEPT !.stage = "set", !.left = left, !.saved = op.saved]
      BY <1>5, <2>1, Zenon DEF Advance, Inv, Typed, Transaction
    <3>2. Moves("set", left, op.saved)
      BY <1>1, <1>2, <1>3, <1>4, <2>1, <3>1 DEF Moves
    <3> QED
      BY <3>2, MoveInv, Zenon
  <2>2. CASE left = {}
    <3>1. Finish("ok")
      BY <1>5, <2>2 DEF Advance
    <3>2. op'.kind = "disable" /\ op'.stage = "ok" /\ op'.cred = op.cred /\ op'.want = op.want
      BY <1>1, <3>1, FinishIs DEF Inv, Ended
    <3>3. DisableComplete'
      <4>1. SUFFICES ASSUME ~disturbed
                     PROVE  /\ matchingManagedFileNames(before, op.cred) # {}
                            /\ \A n \in Names :
                                 files[n] = IF Matches(before[n], op.cred)
                                            THEN [before[n] EXCEPT !.disabled = op.want] ELSE before[n]
        BY <1>1, <3>2 DEF DisableComplete, Returned, Matches, Own, matchingManagedFileNames
      <4>2. \A n \in Names : n \in Matched <=> Matches(before[n], op.cred)
        BY <1>1, <4>1, MatchedIs, Zenon DEF Shown, Ended
      <4>3. \A n \in Matched : op.seen[n] = before[n]
        BY <1>3, <4>1, MatchType, Zenon DEF Inv, FrameInv, Matched
      <4>4. \A n \in Matched : files[n] = [before[n] EXCEPT !.disabled = op.want]
        BY <1>4, <2>2, <4>1, <4>3 DEF setManagedCredentialDisabled
      <4>5. \A n \in Names \ Matched : files[n] = before[n]
        BY <1>3, <1>4, <4>1, Zenon
      <4>6. matchingManagedFileNames(before, op.cred) # {}
        BY <1>3, <4>2 DEF matchingManagedFileNames
      <4> QED
        BY <4>2, <4>4, <4>5, <4>6
    <3>4. UpsertComplete' /\ RemoveComplete'
      BY <3>2, Zenon DEF UpsertComplete, RemoveComplete, Returned
    <3> QED
      BY <1>1, <3>1, <3>3, <3>4, OkInv
  <2> QED
    BY <2>1, <2>2
<1>6. CASE Abort(op.saved)
  BY <1>1, <1>2, <1>3, <1>4, <1>6, AbortInv, Zenon
<1> QED
  BY <1>5, <1>6 DEF StateVerified

-----------------------------------------------------------------------------
(* Rollback and the environment                                            *)

\* A step of the rollback.
RollsBack(stage, saved) ==
    /\ stage \in {"undone", "restore", "restored"} /\ saved \subseteq op.saved
    /\ op' = [op EXCEPT !.stage = stage, !.saved = saved]
    /\ FilesKept
    /\ UNCHANGED <<before, disturbed>> /\ botched' \in BOOLEAN
    /\ op.stage \in {"undo", "undone", "restore", "restored"}
    /\ stage = "undone" => op.kind = "upsert"
    /\ stage = "restored" => saved # {}
    /\ botched' => op.kind = "upsert"
    /\ ~disturbed =>
         /\ stage = "undone" => \A n \in Names \ (saved \cup {Canon}) : files'[n] = before[n]
         /\ stage # "undone" /\ ~botched' => \A n \in Names \ saved : files'[n] = before[n]

LEMMA RollbackInv ==
    ASSUME Inv, NEW stage, NEW saved, RollsBack(stage, saved)
    PROVE  Inv'
<1> USE DEF Inv, RollsBack
<1>1. saved \in SUBSET Names /\ stage \in Stages
  BY DEF Stages, Typed, Transaction
<1>2. /\ op' \in Transaction /\ op'.kind = op.kind /\ op'.stage = stage
      /\ op'.cred = op.cred /\ op'.want = op.want /\ op'.seen = op.seen
      /\ op'.previous = op.previous /\ op'.body = op.body /\ op'.left = op.left /\ op'.saved = saved
  BY <1>1, Zenon DEF Typed, Transaction
<1>3. Canon' = Canon /\ Matched' = Matched /\ (Upserting' <=> Upserting) /\ Canon \in Names
  BY <1>2, NameType DEF Canon, Matched, Upserting, Ended, Typed, Transaction
<1>4. Typed'
  BY <1>2 DEF Typed, FilesKept
<1>5. StageInv'
  BY <1>2 DEF StageInv
<1>6. SeenInv'
  BY <1>2, <1>3 DEF SeenInv, FilesKept
<1>7. NamedInv'
  BY <1>2, <1>3 DEF NamedInv, FilesKept, Named, Own
<1>8. FrameInv'
  BY <1>2, <1>3 DEF FrameInv, Same
<1>9. DoneInv'
  <2>1. before' = before
    OBVIOUS
  <2> HIDE DEF Inv, RollsBack
  <2>2. Inherits(op.body) => Inherits(op.body)'
    BY <1>2, <2>1, ZenonT(30) DEF Inherits, Standing
  <2>3. Shown' = Shown
    BY <1>2, <2>1 DEF Shown, Own
  <2> USE DEF Inv, RollsBack
  <2> QED
    BY <1>2, <1>3, <2>2, <2>3, Zenon
       DEF DoneInv, Ended, UpsertComplete, RemoveComplete, DisableComplete, Returned, Matches, Own
<1> QED
  BY <1>4, <1>5, <1>6, <1>7, <1>8, <1>9

LEMMA UndoInv ==
    ASSUME Inv, Undo
    PROVE  Inv'
<1>1. /\ op.stage = "undo" /\ op.kind = "upsert" /\ botched = FALSE /\ UNCHANGED <<before, disturbed>>
  BY Zenon DEF Undo, At, Inv, StageInv, Typed
<1>2. Canon \in Names /\ op.previous \in File \cup {Absent} /\ Named(Canon, op.previous)
  BY NameType, Zenon DEF Canon, Inv, Typed, Transaction, NamedInv
<1>3. MaybePut(Canon, op.previous)
  BY DEF Undo, MaybePut, Canon
<1>4. FilesKept /\ \A m \in Names : m # Canon => files'[m] = files[m]
  BY <1>2, <1>3, PutKept
<1>5. ~disturbed => \A n \in Names \ (op.saved \cup {Canon}) : files'[n] = before[n]
  BY <1>1, <1>4 DEF Inv, FrameInv, Same
<1>6. PICK stage \in {"undone", "restore"} :
        op' = [op EXCEPT !.stage = stage] /\ botched' \in BOOLEAN /\ (stage = "restore" => botched')
  <2>1. CASE Goto("undone") /\ UNCHANGED botched
    BY <1>1, <2>1, Zenon DEF Goto
  <2>2. CASE Goto("undone") /\ botched' = TRUE
    BY <2>2 DEF Goto
  <2>3. CASE Goto("restore") /\ botched' = TRUE
    BY <2>3 DEF Goto
  <2> QED
    BY <2>1, <2>2, <2>3, Zenon DEF Undo
<1>7. op' = [op EXCEPT !.stage = stage, !.saved = op.saved]
  BY <1>6, Zenon DEF Inv, Typed, Transaction
<1>8. RollsBack(stage, op.saved)
  BY <1>1, <1>4, <1>5, <1>6, <1>7, Zenon DEF RollsBack
<1> QED
  BY <1>8, RollbackInv, Zenon

LEMMA UndoneInv ==
    ASSUME Inv, Undone
    PROVE  Inv'
<1>1. /\ op.stage = "undone" /\ op.kind = "upsert" /\ Upserting /\ UNCHANGED <<files, before, disturbed>>
      /\ botched' \in BOOLEAN /\ (~botched' => files[Canon] = op.previous)
  BY Zenon DEF Undone, At, Inv, StageInv, Upserting, Ended, Typed, Canon
<1>2. FilesKept
  BY <1>1, UnchangedKept
<1>3. op' = [op EXCEPT !.stage = "restore", !.saved = op.saved]
  BY Zenon DEF Undone, Goto, Inv, Typed, Transaction
<1>4. ~disturbed /\ ~botched' => \A n \in Names \ op.saved : files[n] = before[n]
  BY <1>1, Zenon DEF Inv, FrameInv, Same
<1>5. RollsBack("restore", op.saved)
  BY <1>1, <1>2, <1>3, <1>4 DEF RollsBack
<1> QED
  BY <1>5, RollbackInv, Zenon

\* The first of the names still to be restored.
LEMMA SavedIs ==
    ASSUME Inv, op.saved # {}
    PROVE  LET n == Min(op.saved)
           IN /\ n \in op.saved /\ n \in Names /\ op.seen[n] \in File \cup {Absent} /\ op.seen[n] # Absent
              /\ Named(n, op.seen[n])
              /\ ~disturbed => op.seen[n] = before[n]
<1> DEFINE n == Min(op.saved)
<1>1. op.saved \in SUBSET Names
  BY DEF Inv, Typed, Transaction
<1>2. n \in op.saved
  BY <1>1, First, Zenon
<1> HIDE DEF n
<1>3. n \in Names /\ n \in Matched
  BY <1>1, <1>2 DEF Inv, SeenInv
<1>4. op.seen[n] # Absent
  BY <1>3, MatchType, SMTT(30) DEF Matched
<1>5. op.seen[n] \in File \cup {Absent} /\ Named(n, op.seen[n]) /\ (~disturbed => op.seen[n] = before[n])
  BY <1>3, <1>4, Zenon DEF Inv, Typed, Transaction, NamedInv, FrameInv
<1> QED
  BY <1>2, <1>3, <1>4, <1>5, Zenon DEF n

LEMMA RestoreInv ==
    ASSUME Inv, Restore
    PROVE  Inv'
<1>1. op.stage = "restore" /\ UNCHANGED <<before, disturbed>> /\ (botched => op.kind = "upsert") /\ botched \in BOOLEAN
  BY Zenon DEF Restore, At, Inv, StageInv, Typed
<1>2. ~disturbed /\ ~botched => \A n \in Names \ op.saved : files[n] = before[n]
  BY <1>1, Zenon DEF Inv, FrameInv, Same
<1>3. CASE op.saved = {}
  <2>1. Finish(IF op.kind = "restore" THEN "ok" ELSE "error") /\ UNCHANGED <<files, botched>>
    BY <1>3, Zenon DEF Restore
  <2>2. ~disturbed /\ ~botched => files = before
    BY <1>2, <1>3 DEF Inv, Typed
  <2>3. CASE op.kind = "restore"
    <3>1. Finish("ok")
      BY <2>1, <2>3
    <3>2. op'.kind = "restore"
      BY <2>3, <3>1, FinishIs DEF Inv, Ended
    <3>3. (UpsertComplete /\ RemoveComplete /\ DisableComplete)'
      BY <3>2 DEF UpsertComplete, RemoveComplete, DisableComplete, Returned
    <3> QED
      BY <1>1, <2>1, <2>2, <2>3, <3>1, <3>3, OkInv
  <2>4. CASE op.kind # "restore"
    <3>1. Finish("error")
      BY <2>1, <2>4
    <3> QED
      BY <1>1, <2>1, <2>2, <3>1, ErrorInv, UnchangedKept
  <2> QED
    BY <2>3, <2>4, SMTT(30)
<1>4. CASE op.saved # {}
  <2>1. PICK n : n = Min(op.saved)
    OBVIOUS
  <2>2. /\ n \in op.saved /\ n \in Names /\ op.seen[n] \in File \cup {Absent}
        /\ Named(n, op.seen[n])
    BY <1>4, <2>1, SavedIs, Zenon
  <2>3. MaybePut(n, op.seen[n])
    BY <1>4, <2>1 DEF Restore, MaybePut
  <2>4. FilesKept /\ \A m \in Names : m # n => files'[m] = files[m]
    BY <2>2, <2>3, PutKept
  <2>5. CASE Goto("restored") /\ UNCHANGED botched
    <3>1. op' = [op EXCEPT !.stage = "restored", !.saved = op.saved]
      BY <2>5, Zenon DEF Goto, Inv, Typed, Transaction
    <3>2. ~disturbed /\ ~botched => \A m \in Names \ op.saved : files'[m] = before[m]
      BY <1>2, <2>2, <2>4, Zenon
    <3>3. RollsBack("restored", op.saved)
      BY <1>1, <1>4, <2>4, <2>5, <3>1, <3>2 DEF RollsBack
    <3> QED
      BY <3>3, RollbackInv, Zenon
  <2>6. CASE Finish("error") /\ botched' = TRUE
    BY <1>1, <2>4, <2>6, ErrorInv
  <2> QED
    BY <1>4, <2>5, <2>6, Zenon DEF Restore
<1> QED
  BY <1>3, <1>4

LEMMA RestoredInv ==
    ASSUME Inv, Restored
    PROVE  Inv'
<1>1. /\ op.stage = "restored" /\ op.saved # {} /\ UNCHANGED <<files, before, disturbed>>
      /\ (botched => op.kind = "upsert") /\ botched \in BOOLEAN
  BY DEF Restored, At, Inv, StageInv, Typed
<1>2. FilesKept
  BY <1>1, UnchangedKept
<1>3. PICK n : n = Min(op.saved)
  OBVIOUS
<1>4. n \in op.saved /\ n \in Names /\ (~disturbed => op.seen[n] = before[n])
  BY <1>1, <1>3, SavedIs, Zenon
<1>5. CASE /\ files[n] = op.seen[n]
           /\ op' = [op EXCEPT !.saved = @ \ {n}, !.stage = "restore"]
           /\ UNCHANGED botched
  <2>1. op' = [op EXCEPT !.stage = "restore", !.saved = op.saved \ {n}]
    BY <1>5, Zenon DEF Inv, Typed, Transaction
  <2>2. ~disturbed /\ ~botched => \A m \in Names \ (op.saved \ {n}) : files[m] = before[m]
    BY <1>1, <1>4, <1>5 DEF Inv, FrameInv, Same
  <2>3. RollsBack("restore", op.saved \ {n})
    BY <1>1, <1>2, <1>5, <2>1, <2>2 DEF RollsBack
  <2> QED
    BY <2>3, RollbackInv, Zenon
<1>6. CASE Finish("error") /\ botched' = TRUE
  BY <1>1, <1>2, <1>6, ErrorInv
<1> QED
  BY <1>3, <1>5, <1>6, Zenon DEF Restored

\* The server gives back what the last removal returned.
LEMMA RestoreAuthFilesInv ==
    ASSUME Inv, RestoreAuthFiles
    PROVE  Inv'
<1> USE DEF Inv
<1>1. /\ op.kind = "remove" /\ op.stage = "ok" /\ ~botched
      /\ UNCHANGED <<files, before, disturbed, botched>>
      /\ op' = [op EXCEPT !.kind = "restore", !.stage = "restore", !.saved = Matched]
  BY DEF RestoreAuthFiles, At, StageInv, Matched
<1>2. Matched \in SUBSET Names
  BY MatchType DEF Matched
<1>3. /\ op' \in Transaction /\ op'.kind = "restore" /\ op'.stage = "restore"
      /\ op'.cred = op.cred /\ op'.want = op.want /\ op'.seen = op.seen
      /\ op'.previous = op.previous /\ op'.left = op.left /\ op'.saved = Matched
  BY <1>1, <1>2, Zenon DEF Typed, Transaction, Stages
<1>4. Canon' = Canon /\ Matched' = Matched /\ ~Upserting'
  BY <1>3, Zenon DEF Canon, Matched, Upserting
<1>5. Typed' /\ StageInv' /\ SeenInv' /\ NamedInv'
  BY <1>1, <1>3, <1>4 DEF Typed, StageInv, SeenInv, NamedInv, Named, Own
<1>6. FrameInv'
  BY <1>1, <1>3, <1>4 DEF FrameInv, Same
<1>7. DoneInv'
  BY <1>3, <1>4 DEF DoneInv, UpsertComplete, RemoveComplete, DisableComplete, Returned
<1> QED
  BY <1>5, <1>6, <1>7

\* The sidecar dies: the files stay as they are, the locals are gone.
LEMMA CrashInv ==
    ASSUME Inv, Crash
    PROVE  Inv'
<1> USE DEF Inv
<1>1. op.cred \in Credential \cup IdentityOnly
  BY DEF Typed, Transaction
<1>2. /\ op' \in Transaction /\ op'.kind = "none" /\ op'.stage = "ok" /\ op'.cred = op.cred
      /\ op'.previous = Absent /\ op'.left = {} /\ op'.saved = {} /\ op'.seen = NoFiles
  BY <1>1, Zenon DEF Crash, Fresh, Transaction, NoFiles, Ended
<1>3. Typed'
  BY <1>2, Zenon DEF Crash, Typed, NoFiles
<1>4. StageInv' /\ SeenInv'
  BY <1>2, Zenon DEF Crash, StageInv, SeenInv, Upserting, NoFiles
<1>5. NamedInv'
  BY <1>2, Zenon DEF Crash, NamedInv, Upserting, Named, Own, NoFiles
<1>6. FrameInv' /\ DoneInv'
  BY Zenon DEF Crash, FrameInv, DoneInv
<1> QED
  BY <1>3, <1>4, <1>5, <1>6

LEMMA UserEditInv ==
    ASSUME Inv, NEW n \in Names, UserEdit(n)
    PROVE  Inv'
<1> USE DEF Inv
<1>1. UNCHANGED <<op, botched>> /\ before' = NoFiles /\ disturbed' = TRUE
  BY Zenon DEF UserEdit
<1>2. PICK f \in File \cup {Absent, Foreign} : Put(n, f) /\ Named(n, f)
  <2>1. CASE Put(n, Absent) \/ Put(n, Foreign)
    BY <2>1, Zenon DEF Named, Own
  <2>2. ASSUME Own(files[n]), NEW d \in BOOLEAN, NEW u \in Users,
               Put(n, [files[n] EXCEPT !.disabled = d, !.user = u])
        PROVE  \E f \in File \cup {Absent, Foreign} : Put(n, f) /\ Named(n, f)
    <3>1. PICK f : f = [files[n] EXCEPT !.disabled = d, !.user = u]
      OBVIOUS
    <3>2. f \in File /\ f.meta = files[n].meta
      BY <2>2, <3>1, Zenon DEF File, Typed, Own
    <3>3. Named(n, f)
      BY <2>2, <3>2, Zenon DEF NamedInv, Named
    <3> QED
      BY <2>2, <3>1, <3>2, <3>3
  <2> QED
    BY <2>1, <2>2, Zenon DEF UserEdit
<1>3. FilesKept
  BY <1>2, PutKept DEF MaybePut
<1>4. Typed'
  BY <1>1, <1>3, SMTT(30) DEF Typed, FilesKept, NoFiles
<1>5. Canon' = Canon /\ Matched' = Matched /\ Upserting' = Upserting /\ Current' = Current /\ Canon \in Names
  BY <1>1, NameType, Zenon DEF Canon, Matched, Upserting, Current, Typed, Transaction
<1>6. StageInv'
  BY <1>1, <1>5, ZenonT(30) DEF StageInv
<1>7. SeenInv'
  BY <1>1, <1>3, <1>5, Zenon DEF SeenInv, FilesKept
<1>8. NamedInv'
  BY <1>1, <1>3, <1>5, Zenon DEF NamedInv, FilesKept, Named, Own
<1>9. FrameInv' /\ DoneInv'
  BY <1>1, Zenon DEF FrameInv, DoneInv
<1> QED
  BY <1>4, <1>6, <1>7, <1>8, <1>9

-----------------------------------------------------------------------------
(* The theorems                                                            *)

LEMMA NextInv == Inv /\ [Next]_vars => Inv'
<1> SUFFICES ASSUME Inv, [Next]_vars PROVE Inv'
  OBVIOUS
<1>1. ASSUME NEW c \in Credential, Begin("upsert", c, FALSE) PROVE Inv'
  BY <1>1, BeginInv, Zenon
<1>2. ASSUME NEW c \in Credential \cup IdentityOnly, Begin("remove", c, FALSE) PROVE Inv'
  BY <1>2, BeginInv, Zenon
<1>3. ASSUME NEW c \in Credential, NEW want \in BOOLEAN, Begin("disable", c, want) PROVE Inv'
  BY <1>3, BeginInv
<1>4. CASE Step
  BY <1>4, ListInv, CheckInv, UploadInv, VerifyInv, DeleteInv, GoneInv, ConfirmInv, SetDisabledInv,
     StateVerifiedInv, UndoInv, UndoneInv, RestoreInv, RestoredInv, Zenon DEF Step
<1>5. CASE RestoreAuthFiles \/ Crash
  BY <1>5, RestoreAuthFilesInv, CrashInv
<1>6. ASSUME NEW n \in Names, UserEdit(n) PROVE Inv'
  BY <1>6, UserEditInv
<1>7. CASE UNCHANGED vars
  <2>1. UNCHANGED <<files, op, before, disturbed, botched>>
    BY <1>7 DEF vars
  <2>2. Canon' = Canon /\ Matched' = Matched /\ Upserting' = Upserting /\ Current' = Current /\ Shown' = Shown
    BY <2>1 DEF Canon, Matched, Upserting, Current, Shown, Own
  <2>3. Inherits(op.body) => Inherits(op.body)'
    BY <2>1, ZenonT(30) DEF Inherits, Standing
  <2>4. Typed' /\ StageInv' /\ SeenInv' /\ NamedInv' /\ FrameInv'
    <3>1. Typed' /\ StageInv'
      BY <2>1, <2>2, Zenon DEF Inv, Typed, StageInv
    <3>2. SeenInv' /\ NamedInv'
      BY <2>1, <2>2, Zenon DEF Inv, SeenInv, NamedInv, Named, Own
    <3>3. FrameInv'
      BY <2>1, <2>2, Zenon DEF Inv, FrameInv, Same
    <3> QED
      BY <3>1, <3>2, <3>3
  <2>5. UpsertComplete' = UpsertComplete /\ RemoveComplete' = RemoveComplete /\ DisableComplete' = DisableComplete
    BY <2>1, SMTT(30) DEF UpsertComplete, RemoveComplete, DisableComplete, Returned, Standing, Own, Matches,
                matchingManagedFileNames
  <2>6. DoneInv'
    BY <2>1, <2>2, <2>3, <2>5, Zenon DEF Inv, DoneInv, Matches, Own
  <2> QED
    BY <2>4, <2>6 DEF Inv
<1> QED
  BY <1>1, <1>2, <1>3, <1>4, <1>5, <1>6, <1>7, Zenon DEF Next

\* The invariant holds in every behaviour of the manager, its CPA and the user.
THEOREM Invariance == Spec => []Inv
<1>1. Init => Inv
  BY InitInv
<1>2. Inv /\ [Next]_vars => Inv'
  BY NextInv
<1> QED
  BY <1>1, <1>2, PTL DEF Spec

\* A transaction that fails, and whose rollback met no failure of its own, leaves
\* CPA's files as it found them, lost answers included (UpsertIdentity,
\* RemoveCredentialWithSnapshot, SetIdentityDisabledForCredential).
THEOREM FailureLeavesFiles == Spec => []FailureRestores
<1>1. Inv => FailureRestores
  BY Zenon DEF Inv, FrameInv, FailureRestores
<1> QED
  BY <1>1, Invariance, PTL

\* RestoreAuthFiles undoes a removal completely.
THEOREM RestoreUndoesRemove == Spec => []RestoreComplete
<1>1. Inv => RestoreComplete
  BY Zenon DEF Inv, FrameInv, RestoreComplete, Returned
<1> QED
  BY <1>1, Invariance, PTL

\* UpsertIdentity, when it returns success, has installed the credential, taken
\* over the disabled flag and the user's fields, and removed every stale match.
THEOREM UpsertInstalls == Spec => []UpsertComplete
<1>1. Inv => UpsertComplete
  BY ZenonT(30) DEF Inv, DoneInv, UpsertComplete, Returned
<1> QED
  BY <1>1, Invariance, PTL

\* RemoveCredentialWithSnapshot, when it returns success, has deleted every match
\* and nothing else.
THEOREM RemoveRemoves == Spec => []RemoveComplete
<1>1. Inv => RemoveComplete
  BY Zenon DEF Inv, DoneInv, RemoveComplete, Returned
<1> QED
  BY <1>1, Invariance, PTL

\* SetIdentityDisabledForCredential, when it returns success, has reached every
\* match and changed nothing else.
THEOREM DisableReaches == Spec => []DisableComplete
<1>1. Inv => DisableComplete
  BY DEF Inv, DoneInv, DisableComplete, Returned
<1> QED
  BY <1>1, Invariance, PTL

\* UpsertIdentity never leaves an identity that had a matching file without one, at
\* whichever point before its rollback the sidecar dies.
THEOREM NeverWithoutFile == Spec => []MakeBeforeBreak
<1>1. Inv => MakeBeforeBreak
  <2> SUFFICES ASSUME Inv, op.kind = "upsert", ~disturbed,
                      op.stage \notin {"undo", "undone", "restore", "restored", "error"},
                      \E n \in Names : Matches(before[n], op.cred)
               PROVE  \E n \in Names : Matches(files[n], op.cred)
    BY Zenon DEF MakeBeforeBreak
  <2>1. CASE op.stage \in {"list", "check", "upload"}
    BY <2>1, Zenon DEF Inv, FrameInv
  <2>2. CASE op.stage \in {"verify", "delete", "gone", "confirm"}
    <3>1. Upserting
      BY <2>2 DEF Upserting, Ended
    <3>2. Canon \in Names /\ Matches(op.body, op.cred)
      BY <3>1, BodyIs
    <3>3. files[Canon] = op.body
      BY <2>2, Zenon DEF Inv, DoneInv
    <3> QED
      BY <3>2, <3>3, Zenon
  <2>3. CASE op.stage = "ok"
    <3>1. Canon \in Names
      BY NameType, Zenon DEF Canon, Inv, Typed, Transaction
    <3>2. Own(files[Canon]) /\ files[Canon].meta = op.cred.meta
      BY <2>3, Zenon DEF Inv, DoneInv, UpsertComplete, Returned, Canon
    <3> QED
      BY <3>1, <3>2 DEF Matches
  <2>4. op.stage \in {"list", "check", "upload", "verify", "delete", "gone", "confirm", "ok"}
    BY Zenon DEF Inv, StageInv, Typed, Transaction, Stages, Ended
  <2> QED
    BY <2>1, <2>2, <2>3, <2>4
<1> QED
  BY <1>1, Invariance, PTL

-----------------------------------------------------------------------------
(* Files of somebody else                                                  *)

\* A name found to be somebody else's is none the transaction may write to: no match
\* of its list, and not the canonical name of an upsert that has checked it.
ForeignInv ==
    /\ foreign \in SUBSET Names
    /\ ForeignUntouched
    /\ op.stage = "list" => op.seen = NoFiles
    /\ \A n \in Names : op.seen[n] # Absent => n \notin foreign
    /\ Upserting => Canon \notin foreign

\* A step that does not look: what the transaction knows stays or is forgotten.
LEMMA LocalsKept ==
    ASSUME Inv,
           \/ Upload \/ Verify \/ Delete \/ Gone \/ Confirm \/ SetDisabled \/ StateVerified
           \/ Undo \/ Undone \/ Restore \/ Restored
    PROVE  /\ op'.cred = op.cred /\ op'.seen \in {op.seen, NoFiles}
           /\ op'.stage # "list" /\ (Upserting' => Upserting)
<1> DEFINE Kept == /\ op'.cred = op.cred /\ op'.kind = op.kind /\ op'.stage # "list"
                   /\ op'.seen \in {op.seen, NoFiles}
           Later == (Stages \cup Ended) \ {"list"}
<1> USE DEF Stages, Ended
<1>1. ASSUME NEW result \in Ended, Finish(result) PROVE Kept
  BY <1>1, FinishIs DEF Inv
<1>2. ASSUME NEW stage \in Later, Goto(stage) PROVE Kept
  BY <1>2, Zenon DEF Goto, Inv, Typed, Transaction
<1>3. ASSUME NEW saved, Abort(saved) PROVE Kept
  BY <1>3, Zenon DEF Abort, Inv, Typed, Transaction
<1>4. ASSUME NEW more \in Later, NEW done \in Later, Advance(more, done) PROVE Kept
  <2>1. CASE Finish("ok")
    BY <1>1, <2>1 DEF Ended
  <2>2. ASSUME NEW left, NEW stage \in Later, op' = [op EXCEPT !.left = left, !.stage = stage] PROVE Kept
    BY <2>2, Zenon DEF Inv, Typed, Transaction
  <2> QED
    BY <1>4, <2>1, <2>2, Zenon DEF Advance
<1>5. ASSUME NEW stage \in Later, NEW left, op' = [op EXCEPT !.left = left, !.stage = stage] PROVE Kept
  BY <1>5, Zenon DEF Inv, Typed, Transaction
<1>6. ASSUME NEW stage \in Later, NEW saved, op' = [op EXCEPT !.stage = stage, !.saved = saved] PROVE Kept
  BY <1>6, Zenon DEF Inv, Typed, Transaction
<1>7. ASSUME NEW stage \in Later, NEW saved, op' = [op EXCEPT !.saved = saved, !.stage = stage] PROVE Kept
  BY <1>7, Zenon DEF Inv, Typed, Transaction
<1> HIDE DEF Kept
<1>8. Kept
  <2>1. CASE Upload \/ Undo \/ Undone
    BY <1>2, <1>3, <2>1, Zenon DEF Upload, Undo, Undone
  <2>2. CASE Verify
    BY <1>3, <1>5, <2>2, Zenon DEF Verify
  <2>3. CASE Delete \/ SetDisabled
    BY <1>3, <1>6, <2>3, Zenon DEF Delete, SetDisabled
  <2>4. CASE Gone \/ StateVerified
    BY <1>3, <1>4, <2>4, Zenon DEF Gone, StateVerified
  <2>5. CASE Confirm
    BY <1>1, <1>3, <2>5, Zenon DEF Confirm, Ended
  <2>6. CASE Restore
    <3>1. (IF op.kind = "restore" THEN "ok" ELSE "error") \in Ended /\ "error" \in Ended
      BY DEF Ended
    <3> QED
      BY <1>1, <1>2, <2>6, <3>1, Zenon DEF Restore
  <2>7. CASE Restored
    BY <1>1, <1>7, <2>7, Zenon DEF Restored, Ended
  <2> QED
    BY <2>1, <2>2, <2>3, <2>4, <2>5, <2>6, <2>7
<1>9. op.stage \notin {"list", "check"} \cup Ended
  BY Zenon DEF Upload, Verify, Delete, Gone, Confirm, SetDisabled, StateVerified, Undo, Undone, Restore,
               Restored, At, Ended
<1> QED
  BY <1>8, <1>9 DEF Upserting, Kept

\* A step that neither looks nor changes a file found to be somebody else's.
LEMMA ForeignKept ==
    ASSUME Inv, ForeignInv, foreign' = foreign, \A n \in foreign : files'[n] = files[n],
           op'.cred = op.cred, op'.seen \in {op.seen, NoFiles},
           op'.stage # "list", Upserting' => Upserting
    PROVE  ForeignInv'
<1>1. Canon' = Canon
  BY DEF Canon, authFileName
<1>2. ForeignUntouched'
  BY Zenon DEF ForeignInv, ForeignUntouched
<1>3. \A n \in Names : op'.seen[n] # Absent => n \notin foreign
  BY Zenon DEF ForeignInv, NoFiles
<1> QED
  BY <1>1, <1>2, <1>3, Zenon DEF ForeignInv

\* A call for a name that was not found to be somebody else's.
LEMMA PutElsewhere ==
    ASSUME Inv, ForeignInv, NEW m \in Names, NEW f, m \notin foreign, MaybePut(m, f)
    PROVE  \A n \in foreign : files'[n] = files[n]
BY DEF MaybePut, Put, Inv, Typed, ForeignInv

\* The steps that write, each to a name that was not found to be somebody else's.
LEMMA WriteKept ==
    ASSUME Inv, ForeignInv, Upload \/ Undo \/ Delete \/ SetDisabled \/ Restore
    PROVE  \A n \in foreign : files'[n] = files[n]
<1>1. Matched \in SUBSET Names /\ \A n \in Matched : n \notin foreign
  BY MatchType, Zenon DEF Matched, ForeignInv
<1>2. Canon \in Names
  BY NameType DEF Canon, Inv, Typed, Transaction
<1>3. CASE Upload \/ Undo
  <2>1. Upserting
    BY <1>3, Zenon DEF Upload, Undo, At, Inv, StageInv, Upserting, Ended
  <2>2. Canon \notin foreign /\ (MaybePut(Canon, op.body) \/ MaybePut(Canon, op.previous))
    BY <1>3, <2>1, Zenon DEF ForeignInv, Upload, Undo, MaybePut, Canon
  <2> QED
    BY <1>2, <2>2, PutElsewhere, Zenon
<1>4. CASE Delete \/ SetDisabled
  <2>1. op.left # {}
    BY <1>4 DEF Delete, SetDisabled, At, Inv, StageInv
  <2>2. Current \in Names /\ Current \notin foreign
    BY <1>1, <2>1, CurrentIs, Zenon
  <2>3. \E f : MaybePut(Current, f)
    BY <1>4 DEF Delete, SetDisabled, MaybePut
  <2> QED
    BY <2>2, <2>3, PutElsewhere, Zenon
<1>5. CASE Restore
  <2>1. CASE op.saved = {}
    BY <1>5, <2>1, Zenon DEF Restore
  <2>2. CASE op.saved # {}
    <3>1. PICK n : n = Min(op.saved)
      OBVIOUS
    <3>2. n \in Names /\ n \notin foreign
      BY <1>1, <2>2, <3>1, SavedIs, Zenon DEF Inv, SeenInv
    <3>3. MaybePut(n, op.seen[n])
      BY <1>5, <2>2, <3>1 DEF Restore, MaybePut
    <3> QED
      BY <3>2, <3>3, PutElsewhere, Zenon
  <2> QED
    BY <2>1, <2>2, Zenon
<1> QED
  BY <1>3, <1>4, <1>5

\* The steps that look: the list, and the upsert at its canonical name.
LEMMA LookInv ==
    ASSUME Inv, ForeignInv, managedAuthFilesForCredentials \/ CheckCanonical
    PROVE  ForeignInv'
<1>1. files' = files /\ files \in [Names -> File \cup {Absent, Foreign}]
  BY Zenon DEF managedAuthFilesForCredentials, CheckCanonical, Inv, Typed
<1>2. CASE managedAuthFilesForCredentials
  <2>1. foreign' = {n \in Names : files[n] = Foreign}
    BY <1>2, Zenon DEF managedAuthFilesForCredentials
  <2>2. /\ ~Upserting' /\ op'.stage # "list"
        /\ \A n \in Names : op'.seen[n] # Absent => files[n] # Foreign
    <3>1. op.stage = "list" /\ op.seen = NoFiles
      BY <1>2, Zenon DEF managedAuthFilesForCredentials, At, ForeignInv
    <3>2. CASE Finish("error") \/ (Finish("ok") /\ op.kind = "remove")
      <4>1. /\ op'.stage \in Ended /\ op'.kind = op.kind /\ op'.seen = NoFiles
        BY <3>1, <3>2, FinishIs DEF Inv, Ended
      <4> QED
        BY <4>1 DEF Upserting, NoFiles, Ended
    <3>3. ASSUME NEW hidden \in Unlisted(op.cred), NEW stage \in {"check", "delete", "set"}, NEW left,
                 op' = [op EXCEPT !.stage = stage, !.seen = Found(hidden), !.left = left],
                 stage = "check" \/ op.kind # "upsert"
          PROVE  /\ ~Upserting' /\ op'.stage # "list"
                 /\ \A n \in Names : op'.seen[n] # Absent => files[n] # Foreign
      <4>1. op'.stage = stage /\ op'.kind = op.kind /\ op'.seen = Found(hidden)
        BY <3>3, Zenon DEF Inv, Typed, Transaction
      <4> QED
        BY <3>3, <4>1 DEF Upserting, Found, Own
    <3>4. op.left = {} /\ op.kind \in {"upsert", "remove", "disable"}
      BY <3>1 DEF Inv, StageInv
    <3>5. ASSUME NEW seen, op' = [op EXCEPT !.stage = "check", !.seen = seen]
          PROVE  op' = [op EXCEPT !.stage = "check", !.seen = seen, !.left = {}]
      BY <3>4, <3>5, Zenon DEF Inv, Typed, Transaction
    <3>6. ASSUME NEW hidden \in Unlisted(op.cred),
                 LET found == Found(hidden)
                     names == matchingManagedFileNames(found, op.cred)
                 IN CASE op.kind = "upsert" ->
                           op' = [op EXCEPT !.stage = "check", !.seen = found]
                      [] op.kind = "remove" /\ names # {} ->
                           op' = [op EXCEPT !.stage = "delete", !.seen = found, !.left = names]
                      [] op.kind = "remove" /\ names = {} -> Finish("ok")
                      [] op.kind = "disable" /\ names # {} ->
                           op' = [op EXCEPT !.stage = "set", !.seen = found, !.left = names]
                      [] op.kind = "disable" /\ names = {} -> Finish("error")
          PROVE  /\ ~Upserting' /\ op'.stage # "list"
                 /\ \A n \in Names : op'.seen[n] # Absent => files[n] # Foreign
      <4> DEFINE names == matchingManagedFileNames(Found(hidden), op.cred)
      <4>1. CASE op.kind = "upsert"
        <5>1. op' = [op EXCEPT !.stage = "check", !.seen = Found(hidden), !.left = {}]
          BY <3>5, <3>6, <4>1, Zenon
        <5> QED
          BY <3>3, <5>1, Zenon
      <4>2. CASE op.kind = "remove" /\ names # {}
        <5>1. op' = [op EXCEPT !.stage = "delete", !.seen = Found(hidden), !.left = names]
          BY <3>6, <4>2, Zenon
        <5> QED
          BY <3>3, <4>2, <5>1, Zenon
      <4>3. CASE op.kind = "disable" /\ names # {}
        <5>1. op' = [op EXCEPT !.stage = "set", !.seen = Found(hidden), !.left = names]
          BY <3>6, <4>3, Zenon
        <5> QED
          BY <3>3, <4>3, <5>1, Zenon
      <4>4. CASE op.kind \in {"remove", "disable"} /\ names = {}
        BY <3>2, <3>6, <4>4, Zenon
      <4> QED
        BY <3>4, <4>1, <4>2, <4>3, <4>4, Zenon
    <3> QED
      BY <1>2, <3>2, <3>6, ZenonT(30) DEF managedAuthFilesForCredentials
  <2> QED
    BY <1>1, <2>1, <2>2 DEF ForeignInv, ForeignUntouched
<1>3. CASE CheckCanonical
  <2>1. /\ foreign' = foreign \cup {n \in {Canon} : files[n] = Foreign} /\ op.stage = "check" /\ Canon \in Names
        /\ op.kind = "upsert"
    BY <1>3, NameType, Zenon DEF CheckCanonical, At, Canon, Inv, StageInv, Typed, Transaction
  <2>2. foreign' \in SUBSET Names /\ ForeignUntouched'
    BY <1>1, <2>1 DEF ForeignInv, ForeignUntouched
  <2>3. CASE Finish("error")
    <3>1. op'.seen = NoFiles /\ op'.stage = "error"
      BY <2>3, FinishIs DEF Inv, Ended
    <3> QED
      BY <2>2, <3>1, Zenon DEF ForeignInv, NoFiles, Upserting, Ended
  <2>4. ASSUME files[Canon] # Foreign, NEW previous, NEW body, NEW stage \in {"verify", "upload"},
               op' = [op EXCEPT !.previous = previous, !.body = body, !.stage = stage]
        PROVE  ForeignInv'
    <3>1. op'.cred = op.cred /\ op'.seen = op.seen /\ op'.stage = stage
      BY <2>4, Zenon DEF Inv, Typed, Transaction
    <3>2. Canon' = Canon /\ foreign' = foreign
      BY <2>1, <2>4, <3>1 DEF Canon, authFileName
    <3>3. Canon \notin foreign
      BY <2>4 DEF ForeignInv, ForeignUntouched
    <3> QED
      BY <2>2, <2>4, <3>1, <3>2, <3>3 DEF ForeignInv
  <2> QED
    BY <1>3, <2>3, <2>4, Zenon DEF CheckCanonical, Canon
<1> QED
  BY <1>2, <1>3

LEMMA ForeignNext == Inv /\ ForeignInv /\ [Next]_vars => ForeignInv'
<1> SUFFICES ASSUME Inv, ForeignInv, [Next]_vars PROVE ForeignInv'
  OBVIOUS
<1>1. ASSUME NEW kind, NEW cred, NEW want, Begin(kind, cred, want) PROVE ForeignInv'
  BY <1>1, Zenon DEF Begin, Fresh, ForeignInv, ForeignUntouched, Upserting
<1>2. CASE Crash
  BY <1>2, Zenon DEF Crash, Fresh, ForeignInv, ForeignUntouched, Upserting
<1>3. CASE managedAuthFilesForCredentials \/ CheckCanonical
  BY <1>3, LookInv
<1>4. CASE Upload \/ Verify \/ Delete \/ Gone \/ Confirm \/ SetDisabled \/ StateVerified
           \/ Undo \/ Undone \/ Restore \/ Restored
  <2>1. foreign' = foreign
    BY <1>4, Zenon DEF Upload, Verify, Delete, Gone, Confirm, SetDisabled, StateVerified, Undo, Undone,
                       Restore, Restored
  <2>2. \A n \in foreign : files'[n] = files[n]
    BY <1>4, WriteKept, Zenon DEF Verify, Gone, Confirm, StateVerified, Undone, Restored
  <2> QED
    BY <1>4, <2>1, <2>2, LocalsKept, ForeignKept, Zenon
<1>5. CASE RestoreAuthFiles
  <2>1. UNCHANGED <<files, foreign>> /\ op'.cred = op.cred /\ op'.seen = op.seen /\ op'.kind = "restore" /\ op'.stage = "restore"
    BY <1>5, Zenon DEF RestoreAuthFiles, Inv, Typed, Transaction
  <2> QED
    BY <2>1, ForeignKept DEF Upserting
<1>6. ASSUME NEW n \in Names, UserEdit(n) PROVE ForeignInv'
  <2>1. op' = op /\ foreign' = foreign \ {n} /\ \E f : Put(n, f)
    BY <1>6, Zenon DEF UserEdit
  <2>2. Canon' = Canon /\ Upserting' = Upserting
    BY <2>1, Zenon DEF Canon, Upserting
  <2>3. \A m \in foreign' : files'[m] = Foreign
    BY <2>1 DEF Put, ForeignInv, ForeignUntouched, Inv, Typed
  <2> QED
    BY <2>1, <2>2, <2>3, Zenon DEF ForeignInv, ForeignUntouched
<1>7. CASE UNCHANGED vars
  <2>1. UNCHANGED <<files, op, foreign>>
    BY <1>7 DEF vars
  <2> QED
    BY <2>1, Zenon DEF ForeignInv, ForeignUntouched, Upserting, Canon
<1> QED
  BY <1>1, <1>2, <1>3, <1>4, <1>5, <1>6, <1>7, Zenon DEF Next, Step

\* Both invariants together.
LEMMA ForeignInvariance == Spec => [](Inv /\ ForeignInv)
<1>1. ASSUME Init PROVE ForeignInv
  <2>1. PICK c \in Credential : op = Fresh("none", "ok", c, FALSE)
    BY <1>1, Zenon DEF Init
  <2>2. op.kind = "none" /\ op.stage = "ok" /\ foreign = {}
    BY <1>1, <2>1 DEF Fresh, Init
  <2> QED
    BY <2>2, Zenon DEF ForeignInv, ForeignUntouched, Upserting
<1> QED
  BY <1>1, ForeignNext, Invariance, PTL DEF Spec

\* Whatever the user does meanwhile, no upload, deletion, rollback or restoration
\* changes a file that the list or the check of the canonical name found to be
\* somebody else's.
THEOREM ForeignSafe == Spec => []ForeignUntouched
<1>1. ForeignInv => ForeignUntouched
  BY DEF ForeignInv
<1> QED
  BY <1>1, ForeignInvariance, PTL

\* Every variable of the model keeps its type.
THEOREM TypeCorrect == Spec => []TypeOK
<1>1. Inv /\ ForeignInv => TypeOK
  BY Zenon DEF Inv, Typed, ForeignInv, TypeOK
<1> QED
  BY <1>1, ForeignInvariance, PTL
=============================================================================
