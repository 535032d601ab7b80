----------------------------- MODULE CPAManager -----------------------------
(***************************************************************************)
(* The auth-file transactions of cpa.Manager for one identity: upsert,     *)
(* remove, enable/disable and restore, against CPA's file store.           *)
(*                                                                         *)
(* CPA's management API is unreliable.  A call may fail without effect, or *)
(* take effect and lose its answer; a verification may time out although   *)
(* the file is there; the list may leave out disabled runtime-only files;  *)
(* and the CPA user edits, deletes and replaces files at any time.         *)
(* Manager.mu lets one transaction run at a time; the sidecar may die in   *)
(* the middle of it.                                                       *)
(*                                                                         *)
(* Abstractions.  Names are numbered in lexical order.  Metadata (e-mail,  *)
(* account, user, plan and kind together) is one value, of which the       *)
(* canonical name is a function: user and kind do not enter it.  `key'     *)
(* stands for client key and token, `user' for the fields that belong to   *)
(* the CPA user.  A file that is not managed, or is managed for another    *)
(* identity, is Foreign.  Every stored credential has an e-mail address;   *)
(* metadata Blank is an identity ID on its own.  The attempts of one call  *)
(* are a single step: only whether it took effect and what it answered     *)
(* matters.                                                                *)
(***************************************************************************)
EXTENDS Naturals, FiniteSets, FiniteSetsExt

CONSTANTS
    Names,        \* auth-file names
    Metas,        \* credential metadata
    CanonicalName,\* the file name each yields
    Historical,   \* names older releases used, probed whatever the metadata
    LegacyName,   \* the one of them derived from the identity ID alone
    Keys,         \* client keys and tokens
    Users,        \* values of the user's own fields
    DefaultUser,  \* the value a new file starts with
    Blank,        \* no metadata
    Absent,       \* no file
    Foreign       \* a file of somebody else

File == [meta : Metas \cup {Blank}, key : Keys, disabled : BOOLEAN, user : Users]

ASSUME NamesAssumption ==
    /\ Names \subseteq Nat /\ IsFiniteSet(Names)
    /\ CanonicalName \in [Metas -> Names]
    /\ Historical \subseteq Names /\ LegacyName \in Historical
ASSUME UserAssumption == DefaultUser \in Users
ASSUME FileAssumption == Absent \notin File /\ Foreign \notin File /\ Absent # Foreign
ASSUME BlankAssumption == Blank \notin Metas

VARIABLES
    files,       \* CPA's auth files
    op,          \* the transaction under Manager.mu, or how the last one ended
    before,      \* history: the files when it started
    disturbed,   \* history: the user has changed a file since
    botched,     \* history: a call of its rollback failed
    foreign      \* history: the names it has found to be somebody else's

vars == <<files, op, before, disturbed, botched, foreign>>

\* What the store knows of the identity, and its ID alone.
Credential == [meta : Metas, key : Keys]
IdentityOnly == [meta : {Blank}, key : Keys]

\* A transaction: the files it found, the canonical file before its upload, the
\* body it uploads, the names it has still to process and those it must restore.
Stages == {"list", "check", "upload", "verify", "delete", "gone", "confirm",
           "set", "state", "undo", "undone", "restore", "restored"}

Ended == {"ok", "error"}

Transaction ==
    [kind : {"none", "upsert", "remove", "disable", "restore"}, stage : Stages \cup Ended,
     cred : Credential \cup IdentityOnly, want : BOOLEAN,
     seen : [Names -> File \cup {Absent}], previous : File \cup {Absent},
     body : File \cup {Absent}, left : SUBSET Names, saved : SUBSET Names]

NoFiles == [n \in Names |-> Absent]

\* A transaction with no locals: before its first call, and after its last.
Fresh(kind, stage, cred, want) ==
    [kind |-> kind, stage |-> stage, cred |-> cred, want |-> want, seen |-> NoFiles,
     previous |-> Absent, body |-> Absent, left |-> {}, saved |-> {}]

-----------------------------------------------------------------------------
(* Recognising files                                                       *)

\* isManagedCredential, for the identity of the transaction.
Own(f) == f \notin {Absent, Foreign}

authFileName(c) == IF c.meta = Blank THEN LegacyName ELSE CanonicalName[c.meta]

\* Mutant: the historical names are not probed.
CandidatesCanonicalOnly(c) == {authFileName(c)}

\* managedAuthFileCandidates: names probed even if CPA does not list them.
managedAuthFileCandidates(c) ==
    {authFileName(c)} \cup (IF c.meta = Blank THEN {} ELSE Historical)

\* managedCredentialMatchScore accepts f: missing metadata is no mismatch.
Matches(f, c) == Own(f) /\ (c.meta = Blank \/ f.meta \in {c.meta, Blank})

\* ... and the score it gives.
managedCredentialMatchScore(f, c) ==
    1 + (IF f.key = c.key THEN 1000 ELSE 1) + (IF f.meta = c.meta THEN 25 ELSE 2)

matchingManagedFileNames(found, c) == {n \in Names : Matches(found[n], c)}

preferredManagedFile(found, c) ==
    LET names == matchingManagedFileNames(found, c)
        best  == {n \in names : \A m \in names :
                    managedCredentialMatchScore(found[n], c) >= managedCredentialMatchScore(found[m], c)}
    IN IF names = {} THEN Absent
       ELSE IF authFileName(c) \in names THEN found[authFileName(c)]
       ELSE found[Min(best)]

\* Mutant: the user's fields are reset.
EncodeWithDefaults(c, prior) ==
    [meta |-> c.meta, key |-> c.key,
     disabled |-> IF prior = Absent THEN FALSE ELSE prior.disabled, user |-> DefaultUser]

\* A file that is not there is not disabled.
managedCredentialDisabled(f) == f # Absent /\ f.disabled

credentialJSONWithDisabled(c, disabled) ==
    [meta |-> c.meta, key |-> c.key, disabled |-> disabled, user |-> DefaultUser]

\* The user's fields are taken over.
mergeManagedAuthFields(body, prior) ==
    IF prior = Absent THEN body ELSE [body EXCEPT !.user = prior.user]

\* The body of an upsert.
Encode(c, prior) ==
    mergeManagedAuthFields(credentialJSONWithDisabled(c, managedCredentialDisabled(prior)), prior)

\* managedCredentialMatches: of the user's fields only websockets is compared,
\* which `user' does not tell apart.
managedCredentialMatches(f, body) ==
    Own(f) /\ f.meta = body.meta /\ f.key = body.key /\ f.disabled = body.disabled

\* Mutant: the document is rebuilt instead of edited.
setDisabledRebuilding(f, disabled) == [f EXCEPT !.disabled = disabled, !.user = DefaultUser]

setManagedCredentialDisabled(f, disabled) == [f EXCEPT !.disabled = disabled]

managedCredentialStateMatches(f, c, disabled) == Matches(f, c) /\ f.disabled = disabled

-----------------------------------------------------------------------------
(* Calls and how a transaction moves on                                    *)

At(stage) == op.stage = stage
Goto(stage) == op' = [op EXCEPT !.stage = stage]

Finish(result) ==
    op' = [Fresh(op.kind, result, op.cred, op.want) EXCEPT
             !.seen = IF op.kind = "remove" /\ result = "ok" THEN op.seen ELSE NoFiles]

\* uploadAuthFile or deleteAuthFile (f = Absent) takes effect, or does not.
Put(n, f) == files' = [files EXCEPT ![n] = f]
MaybePut(n, f) == Put(n, f) \/ UNCHANGED files

\* A failed call of the forward part: upsert undoes its upload first, the
\* others only restore what they have touched.
Abort(saved) ==
    op' = [op EXCEPT !.stage = IF op.kind = "upsert" THEN "undo" ELSE "restore", !.saved = saved]

\* The next name, in sorted order.
Current == Min(op.left)

\* The current name is done.
Advance(more, done) ==
    LET left == op.left \ {Current} IN
    IF left # {} THEN op' = [op EXCEPT !.left = left, !.stage = more]
    ELSE IF done = "ok" THEN Finish("ok")
    ELSE op' = [op EXCEPT !.left = left, !.stage = done]

-----------------------------------------------------------------------------
(* Initial states: any set of files older releases, CPA and its user can   *)
(* have left.  A file under no historical name states the metadata its     *)
(* name was made from.                                                     *)

Init ==
    /\ files \in [Names -> File \cup {Absent, Foreign}]
    /\ \A n \in Names \ Historical :
         Own(files[n]) => files[n].meta \in Metas /\ CanonicalName[files[n].meta] = n
    /\ \E c \in Credential : op = Fresh("none", "ok", c, FALSE)
    /\ before = NoFiles
    /\ disturbed = TRUE
    /\ botched = FALSE
    /\ foreign = {}

-----------------------------------------------------------------------------
(* The transactions                                                        *)

\* Manager.mu is taken by UpsertIdentity, RemoveCredentialWithSnapshot (by
\* RemoveIdentity for the ID alone) or SetIdentityDisabledForCredential.
Begin(kind, cred, want) ==
    /\ op.stage \in Ended
    /\ op' = Fresh(kind, "list", cred, want)
    /\ before' = files
    /\ disturbed' = FALSE
    /\ botched' = FALSE
    /\ foreign' = {}
    /\ UNCHANGED files

\* The identity's files among those downloaded.
Found(hidden) == [n \in Names |-> IF Own(files[n]) /\ n \notin hidden THEN files[n] ELSE Absent]

\* listAuthFileEntries: what CPA may leave out of its list, disabled files whose
\* name is not probed anyway.
Unlisted(c) ==
    SUBSET {n \in Names \ managedAuthFileCandidates(c) : Own(files[n]) /\ files[n].disabled}

managedAuthFilesForCredentials ==
    /\ At("list")
    /\ \/ Finish("error")
       \/ \E hidden \in Unlisted(op.cred) :
            LET found == Found(hidden)
                names == matchingManagedFileNames(found, op.cred)
            IN CASE op.kind = "upsert" ->
                      op' = [op EXCEPT !.stage = "check", !.seen = found]
                 [] op.kind = "remove" /\ names # {} ->
                      op' = [op EXCEPT !.stage = "delete", !.seen = found, !.left = names]
                 [] op.kind = "remove" /\ names = {} -> Finish("ok")
                 [] op.kind = "disable" /\ names # {} ->
                      op' = [op EXCEPT !.stage = "set", !.seen = found, !.left = names]
                 [] op.kind = "disable" /\ names = {} -> Finish("error")
    /\ foreign' = {n \in Names : files[n] = Foreign}
    /\ UNCHANGED <<files, before, disturbed, botched>>

\* Mutant: an existing file is overwritten whoever owns it.
CheckCanonicalUnowned ==
    LET name == authFileName(op.cred)
        previous == IF Own(files[name]) THEN files[name] ELSE op.seen[name]
        prior == IF previous # Absent THEN previous ELSE preferredManagedFile(op.seen, op.cred)
        body == Encode(op.cred, prior)
    IN /\ At("check")
       /\ \/ Finish("error")
          \/ op' = [op EXCEPT !.previous = previous, !.body = body,
                              !.stage = IF previous = body THEN "verify" ELSE "upload"]
       /\ foreign' = foreign \cup {n \in {name} : files[n] = Foreign}
       /\ UNCHANGED <<files, before, disturbed, botched>>

\* UpsertIdentity downloads the canonical file, refuses a foreign one, and
\* builds the body from the best earlier file.
CheckCanonical ==
    LET name == authFileName(op.cred)
        previous == IF Own(files[name]) THEN files[name] ELSE op.seen[name]
        prior == IF previous # Absent THEN previous ELSE preferredManagedFile(op.seen, op.cred)
        body == Encode(op.cred, prior)
    IN /\ At("check")
       /\ \/ Finish("error")
          \/ /\ files[name] # Foreign
             /\ op' = [op EXCEPT !.previous = previous, !.body = body,
                                 !.stage = IF previous = body THEN "verify" ELSE "upload"]
       /\ foreign' = foreign \cup {n \in {name} : files[n] = Foreign}
       /\ UNCHANGED <<files, before, disturbed, botched>>

StaleNames == matchingManagedFileNames(op.seen, op.cred) \ {authFileName(op.cred)}

\* Mutant: the stale names are deleted before the upload is known to have worked.
UploadUnverified ==
    /\ At("upload")
    /\ MaybePut(authFileName(op.cred), op.body)
    /\ op' = [op EXCEPT !.left = StaleNames, !.stage = IF StaleNames = {} THEN "confirm" ELSE "delete"]
    /\ UNCHANGED <<before, disturbed, botched, foreign>>

Upload ==
    /\ At("upload")
    /\ \/ Put(authFileName(op.cred), op.body) /\ Goto("verify")
       \/ MaybePut(authFileName(op.cred), op.body) /\ Abort({})
    /\ UNCHANGED <<before, disturbed, botched, foreign>>

\* waitForAuthFile after the upload; then the stale names, if any.
Verify ==
    /\ At("verify")
    /\ \/ /\ managedCredentialMatches(files[authFileName(op.cred)], op.body)
          /\ op' = [op EXCEPT !.left = StaleNames,
                              !.stage = IF StaleNames = {} THEN "confirm" ELSE "delete"]
       \/ Abort({})
    /\ UNCHANGED <<files, before, disturbed, botched, foreign>>

\* Mutant: the bytes are recorded once the delete was acknowledged.
DeleteRecordedLate ==
    /\ At("delete")
    /\ \/ Put(Current, Absent) /\ op' = [op EXCEPT !.stage = "gone", !.saved = @ \cup {Current}]
       \/ MaybePut(Current, Absent) /\ Abort(op.saved)
    /\ UNCHANGED <<before, disturbed, botched, foreign>>

\* A stale name of an upsert, or a name of a removal: the bytes are recorded
\* before the call.
Delete ==
    /\ At("delete")
    /\ \/ Put(Current, Absent) /\ op' = [op EXCEPT !.stage = "gone", !.saved = @ \cup {Current}]
       \/ MaybePut(Current, Absent) /\ Abort(op.saved \cup {Current})
    /\ UNCHANGED <<before, disturbed, botched, foreign>>

\* waitForAuthFileAbsent.
Gone ==
    /\ At("gone")
    /\ \/ files[Current] = Absent /\ Advance("delete", IF op.kind = "upsert" THEN "confirm" ELSE "ok")
       \/ Abort(op.saved)
    /\ UNCHANGED <<files, before, disturbed, botched, foreign>>

Confirm ==
    /\ At("confirm")
    /\ \/ managedCredentialMatches(files[authFileName(op.cred)], op.body) /\ Finish("ok")
       \/ Abort(op.saved)
    /\ UNCHANGED <<files, before, disturbed, botched, foreign>>

\* SetIdentityDisabledForCredential rewrites one file, having registered its
\* rollback image ...
SetDisabled ==
    LET next == setManagedCredentialDisabled(op.seen[Current], op.want)
        saved == op.saved \cup {Current}
    IN /\ At("set")
       /\ \/ /\ IF next = op.seen[Current] THEN UNCHANGED files ELSE Put(Current, next)
             /\ op' = [op EXCEPT !.stage = "state", !.saved = saved]
          \/ next # op.seen[Current] /\ MaybePut(Current, next) /\ Abort(saved)
       /\ UNCHANGED <<before, disturbed, botched, foreign>>

\* ... and verifies it before the next.
StateVerified ==
    /\ At("state")
    /\ \/ managedCredentialStateMatches(files[Current], op.cred, op.want) /\ Advance("set", "ok")
       \/ Abort(op.saved)
    /\ UNCHANGED <<files, before, disturbed, botched, foreign>>

-----------------------------------------------------------------------------
(* Rollback                                                                *)

\* rollbackManagedFiles: the canonical file first.  Only a failed upload skips
\* its verification.
Undo ==
    /\ At("undo")
    /\ \/ Put(authFileName(op.cred), op.previous) /\ Goto("undone") /\ UNCHANGED botched
       \/ /\ MaybePut(authFileName(op.cred), op.previous)
          /\ Goto(IF op.previous = Absent THEN "undone" ELSE "restore")
          /\ botched' = TRUE
    /\ UNCHANGED <<before, disturbed, foreign>>

Undone ==
    /\ At("undone")
    /\ botched' \in IF files[authFileName(op.cred)] = op.previous THEN {botched, TRUE} ELSE {TRUE}
    /\ Goto("restore")
    /\ UNCHANGED <<files, before, disturbed, foreign>>

\* restoreManagedFilesWithContext and RestoreAuthFiles: one name after the other,
\* giving up at the first failure.
Restore ==
    /\ At("restore")
    /\ IF op.saved = {}
       THEN /\ Finish(IF op.kind = "restore" THEN "ok" ELSE "error")
            /\ UNCHANGED <<files, botched>>
       ELSE LET n == Min(op.saved) IN
            \/ Put(n, op.seen[n]) /\ Goto("restored") /\ UNCHANGED botched
            \/ MaybePut(n, op.seen[n]) /\ Finish("error") /\ botched' = TRUE
    /\ UNCHANGED <<before, disturbed, foreign>>

Restored ==
    LET n == Min(op.saved) IN
    /\ At("restored")
    /\ \/ /\ files[n] = op.seen[n]
          /\ op' = [op EXCEPT !.saved = @ \ {n}, !.stage = "restore"]
          /\ UNCHANGED botched
       \/ Finish("error") /\ botched' = TRUE
    /\ UNCHANGED <<files, before, disturbed, foreign>>

\* Mutant: the snapshot leaves out disabled files.
RestoreEnabledFiles ==
    /\ op.kind = "remove" /\ At("ok")
    /\ op' = [op EXCEPT !.kind = "restore", !.stage = "restore",
                        !.saved = {n \in matchingManagedFileNames(op.seen, op.cred) : ~op.seen[n].disabled}]
    /\ UNCHANGED <<files, before, disturbed, botched, foreign>>

\* The server puts back what the last removal returned, its own deletion having
\* failed.
RestoreAuthFiles ==
    /\ op.kind = "remove" /\ At("ok")
    /\ op' = [op EXCEPT !.kind = "restore", !.stage = "restore",
                        !.saved = matchingManagedFileNames(op.seen, op.cred)]
    /\ UNCHANGED <<files, before, disturbed, botched, foreign>>

-----------------------------------------------------------------------------
(* The environment                                                         *)

Crash ==
    /\ op.stage \notin Ended
    /\ op' = Fresh("none", "ok", op.cred, FALSE)
    /\ before' = NoFiles /\ disturbed' = TRUE /\ botched' = FALSE /\ foreign' = {}
    /\ UNCHANGED files

\* The user edits, disables or enables a file of the identity, deletes a file of
\* whoever it is, or puts one of their own under the name, new or instead of
\* what was there.
UserEdit(n) ==
    /\ \/ /\ Own(files[n])
          /\ \E d \in BOOLEAN, u \in Users :
               /\ <<d, u>> # <<files[n].disabled, files[n].user>>
               /\ Put(n, [files[n] EXCEPT !.disabled = d, !.user = u])
       \/ files[n] # Absent /\ Put(n, Absent)
       \/ files[n] # Foreign /\ Put(n, Foreign)
    /\ before' = NoFiles /\ disturbed' = TRUE /\ foreign' = foreign \ {n}
    /\ UNCHANGED <<op, botched>>

Step ==
    \/ managedAuthFilesForCredentials \/ CheckCanonical \/ Upload \/ Verify \/ Delete \/ Gone
    \/ Confirm \/ SetDisabled \/ StateVerified \/ Undo \/ Undone \/ Restore \/ Restored

Next ==
    \/ \E c \in Credential : Begin("upsert", c, FALSE)
    \/ \E c \in Credential \cup IdentityOnly : Begin("remove", c, FALSE)
    \/ \E c \in Credential, want \in BOOLEAN : Begin("disable", c, want)
    \/ Step \/ RestoreAuthFiles \/ Crash
    \/ \E n \in Names : UserEdit(n)

Spec == Init /\ [][Next]_vars

-----------------------------------------------------------------------------
(* Properties                                                              *)

\* Every variable stays within its type.
TypeOK ==
    /\ files \in [Names -> File \cup {Absent, Foreign}]
    /\ op \in Transaction
    /\ before \in [Names -> File \cup {Absent, Foreign}]
    /\ disturbed \in BOOLEAN /\ botched \in BOOLEAN /\ foreign \in SUBSET Names

\* A file that a transaction found to be somebody else's, when it listed the files
\* or when an upsert looked at its canonical name, is still there: no upload,
\* deletion, rollback or restoration of that transaction has changed it.  Only
\* these looks protect it: a name that the user gives to another file later is
\* overwritten by a write, rollback or restoration that was due there.
ForeignUntouched == \A n \in foreign : files[n] = Foreign

\* The transaction has ended, and only it has changed files since it started.
Returned(kind, result) == op.kind = kind /\ op.stage = result /\ ~disturbed

\* A transaction that returns an error, and whose rollback met no error of its
\* own, leaves CPA exactly as it found it, including calls that took effect
\* although their answer was lost.
FailureRestores ==
    (op.stage = "error" /\ ~disturbed /\ ~botched) => files = before

\* The files of before that stood for credential c: the canonical one if it is the
\* identity's, else every match.
Standing(c) ==
    IF Own(before[authFileName(c)]) THEN {before[authFileName(c)]}
    ELSE {before[n] : n \in matchingManagedFileNames(before, c)}

\* An upsert that returns success has installed the credential under its
\* canonical name, with the disabled flag and the user's fields of a file that
\* stood for it before (one with the current key if there is one), has removed
\* every other file that matches it, and has touched nothing else.
UpsertComplete ==
    Returned("upsert", "ok") =>
      LET c == op.cred
          new == files[authFileName(c)]
      IN /\ Own(new) /\ new.meta = c.meta /\ new.key = c.key
         /\ IF Standing(c) = {} THEN ~new.disabled /\ new.user = DefaultUser
            ELSE \E f \in Standing(c) :
                   /\ new.disabled = f.disabled /\ new.user = f.user
                   /\ (\E g \in Standing(c) : g.key = c.key) => f.key = c.key
         /\ \A n \in Names \ {authFileName(c)} :
              files[n] = IF Matches(before[n], c) THEN Absent ELSE before[n]

\* A removal that returns success has deleted every file that matches the
\* credential, hidden ones included, and nothing else.  With the identity ID
\* alone this takes that no file is disabled, since only listed files are found.
RemoveComplete ==
    (Returned("remove", "ok")
       /\ (op.cred \in Credential \/ \A n \in Names : Own(before[n]) => ~before[n].disabled))
      => \A n \in Names : files[n] = IF Matches(before[n], op.cred) THEN Absent ELSE before[n]

\* ... and restoring what it returned brings every file back.
RestoreComplete ==
    Returned("restore", "ok") => files = before

\* Enabling or disabling that returns success has reached every file that
\* matches the credential, of which there is one, and changed nothing else.
DisableComplete ==
    Returned("disable", "ok") =>
      /\ matchingManagedFileNames(before, op.cred) # {}
      /\ \A n \in Names :
           files[n] = IF Matches(before[n], op.cred) THEN [before[n] EXCEPT !.disabled = op.want]
                      ELSE before[n]

\* An upsert makes before it breaks: as long as it is not rolling back, it has
\* never left an identity that had a matching file without one, so that a crash
\* at any of these points loses no credential.
MakeBeforeBreak ==
    (op.kind = "upsert" /\ ~disturbed /\ op.stage \notin {"undo", "undone", "restore", "restored", "error"}
       /\ \E n \in Names : Matches(before[n], op.cred))
      => \E n \in Names : Matches(files[n], op.cred)

\* Refreshing an identity, all of whose files are disabled, keeps it disabled.
RefreshKeepsDisabled ==
    (Returned("upsert", "ok") /\ \A n \in Names : Own(before[n]) => before[n].disabled)
      => ((\E n \in Names : Own(before[n])) => \A n \in Names : Own(files[n]) => files[n].disabled)
=============================================================================
