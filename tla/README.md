# A verification project for cpa-codex-agent-identity

TLA+ modules that model the sidecar, TLC configurations that check them on small
instances, and TLAPS proofs that hold for every instance. Paths below are
relative to the repository root (`src/` in PROJECT.json). PROJECT.json lists
every component, run, mutant, mapped definition, finding, hazard and theorem.

## 1. Inventory

The sidecar keeps Codex credentials (Agent Identity JWTs and personal access
tokens, PATs) encrypted on disk, gives each a client key (`cais_...`), writes
them as auth files into CPA (CLIProxyAPI) through CPA's management API, and
forwards the requests that CPA sends with a client key to the upstream.

| Part | State | Operations |
|---|---|---|
| Identity store (`internal/store`) | one file per identity; `byID`, `byKeyHash` | Open (with migration), ImportWithMetadata, UpdateMetadata, Restore, Delete, Lookup |
| Task manager (`internal/identity`) | `materials`, `personalAccessTokens`, `tasks`, `flights` | AuthorizeForAccount, task, registerTask, InvalidateTask, Inspect |
| Proxy handler (`internal/server/server.go`) | none of its own | handleProxy, the 401 retry of authorizationRetryTransport |
| CPA manager (`internal/cpa`) | CPA's auth files, remotely | UpsertIdentity, RemoveCredentialWithSnapshot, SetIdentityDisabled, RestoreAuthFiles, ProxyForIdentity |
| Management handlers (`internal/server`) | `mutationMu` | import, batch import, delete, enable, disable, refresh |
| Start (`cmd/sidecar/main.go`) | | Open, reconcileStoredCredentials, then listen |
| Outbound transport (`cmd/sidecar/proxy.go`) | `effective`, `lastError`, `nextCheck`, `failureDelay`, `activeRaw`, `current`, `routeReady`, `routes` | RoundTrip, refresh, Watch |
| Data-plane lookups (`internal/cpa/egress.go`, `server.go`, `internal/quota`) | none of their own; `Manager.mu` | handleProxy's routing, handleCPAAPICall, IdentityIDForAuthIndex, ProxyForIdentity |
| Image bridge (`internal/server/direct_images.go`) | the accumulator of one answer | handleCodexDirectImage, scanCodexResponsesSSE, the collected and the streamed answer |
| CPA plugin and its page (`plugin/codex-agent-identity`) | `runtimeState`; the page's candidates and timers; the application's key, timer and calls | configuration, forwarding target, frame policy; candidate fallback; key bridge |
| Parsers, release versions, release scripts | none | pure translations |

How they interact. Management handlers run one at a time under `mutationMu`;
each calls the store and the CPA manager in turn and compensates by hand when
the second fails. Reconciliation does the same before the server listens. The
data plane runs concurrently with all of it: it reads the store, asks the CPA
manager for the credential's proxy, authorises through the task manager and
sends through the outbound transport. Its lookups take the same `Manager.mu` as
the transactions. The plugin runs inside CPA: it serves the page that frames the
application, and forwards the application's calls to the sidecar.

What makes this hard: several steps on two stores without a common transaction;
a remote API that loses answers; a CPA user who edits the same files; process
death and power loss between any two steps; concurrent requests that share one
registration, one check and one backoff; caches that outlive what they cache;
event streams that break off; two browser windows that race each other's timers
with messages that may come from a frame already left.

What it must do: acknowledged changes survive; a failed change leaves nothing
behind; nobody else's file is touched; a revoked key stops working; a rejected
task or an expired token is not used again; a request leaves by the route in
force; and every request is answered.

## 2. Modules and how they correspond to the code

`PROJECT.json` maps each definition to the lines it translates. Names are the
source's wherever the model has a single counterpart.

**IdentityStore**, with **CredentialVault** as its abstract specification. `disk`
is what the directory shows, `shadow` the older contents a power loss may bring
back until `syncDirectory` has succeeded. Open is StartOpen, one
LoadFile/MigrateFile per file and FinishOpen. A mutation goes through the stages
of `writeOwnerOnlyAtomic` (write, rename, sync) and then Publish, which updates
both maps. The import handler's compensation (Restore or DropImported) is part of
the module because the store is only correct together with it. `outcome` is
history: the contents a caller must be ready to find. CredentialVault knows only
what is kept for an identity, what a restart may find and what is served: a
change is asked for, written and acknowledged, and a stop leaves one of the
contents that may be found. IdentityStore implements it under kept <- the
contents of the files, may <- outcome, served <- the contents of the records in
memory while the store is open.

**TaskManager**, with **TaskSlots** as its abstract specification. A step is one
critical section of `Manager.mu`, one answer of an HTTP call, or one branch of a
`select`. TaskSlots knows only slots that are empty, being filled, or filled;
TaskManager implements it under the mapping held <- tasks, busy <- keys with a
flight, issued <- flights that ended well.

**CPAManager.** The transactions of one identity, stage by stage: list, check
the canonical file, upload, verify, delete stale names, confirm, and the
rollback. Each API call may fail without effect or take effect and lose its
answer. Names are numbered in lexical order because the code processes them
sorted. The user may edit, delete or replace a file between any two steps, also
by a file of somebody else. `before`, `disturbed`, `botched` and `foreign`, the
names a look has found to be somebody else's, are history.

**ProxyReload.** `proxyConfigSource` and `hotReloadTransport`, with requests and
the watcher as processes, `refreshMu` as the places between fetch and return,
and `nextCheck` as ticks left. `fetchCPAProxy` and `Finish` are separate steps
because the setting may change between them.

**ManagementPlane** composes the two stores: every handler under `mutationMu`
and the reconciliation, step by step. A store or CPA call appears by what it may
do, as IdentityStore and CPAManager show in detail: a write fails before or after
its rename; a failed CPA transaction has put everything back or has not. A token
imported without a workspace and again for one makes two identities; `Legacy`
relates them and LookupByTokenAndAccount may find the first when the second is
imported, so that what an import would restore is another identity's record.

**DataPlane** is where requests meet the transactions: a lookup is one step to
take the mutex and list, one per download, and one to decide; a quota call looks
its identity up in the store between two such lookups, without the mutex. CPAManager's
transactions appear as anything they may do to the identity's files while they
hold the mutex. `held` and `managed` are history: which proxies a file has had
since it was listed, and whether an index has named an enabled file of the stored
identity ever since the call arrived. TaskManager, ProxyReload and ImageBridge
continue where a request is authorised, sent and answered.

**ImageBridge.** One image request, the lines of the upstream's event stream as
they come, and both ways to answer. An event is only what the accumulator looks
at. `frames` groups what was streamed by the line it was written at, one group for
each line read and, when the stream ends, one for the last flush and one for the
error. `lines` is history; the properties say from it, without the scanner's
state, which event ends at each line (EventsOf) and what the images (AreImages),
the usage (IsUsage) and the frames (AreFrames) of these events are.

**PluginPage.** Three parties: the plugin (`state`, from the configuration and
the environment), the shell (`shell`, the page of plugin.go) with its iframe
(`frame`), and the application in it (`child`, `calls`, from ui/app.js), joined
by two queues of messages. A navigation that ends discards the old document and
what was sent to it, not what it has sent. An address is its origin and the kind
of its path. Go's rules (what is framable, where calls go) and JavaScript's (the
list of candidates) are separate operators, as they are separate code.

`MC*` modules add only the model values, the constant functions, the symmetry
sets and the state constraint that the configurations name. `*Proofs` modules
hold the theorems of section 4.

## 3. Runs

Passing runs, with the distinct states TLC finds:

| Run | Configuration | Instance | States |
|---|---|---|---|
| identity_store | MCIdentityStore | 1 token, 2 workspaces (3 identities), 2 keys | 539,213 |
| task_manager | TaskManager | 2 requests, a JWT and a PAT, 2 sessions, fair | 55,212 |
| cpa_manager | CPAManager | 4 names (2 canonical, 2 historical), or 2 names with 2 keys and 2 user values; one credential | 3,816,913 |
| proxy_reload | ProxyReload | 2 requests and the watcher, 2 versions, a valid and an invalid proxy, fair | 216,168 |
| management_plane | ManagementPlane | 2 identities of one token, 2 metadata values, 2 imports | 1,146,971 |
| data_plane | DataPlane | a request, a quota call and transactions, 2 files, with and without a proxy, fair | 88,152 |
| image_bridge | ImageBridge | 7 events, one of them split, noise, up to 5 lines, fair | 1,047,596 |
| plugin_page | PluginPage | 5 configurations, 2 places to run in, a right and a wrong key, fair | 298,490 |

What they show:

- *identity_store*: a key resolves exactly when it is the current key of a listed
  identity; what was acknowledged survives, what failed is old or new; the
  directory can always be opened; nothing is in the clear once a key is in use.
- *task_manager*: one registration per key at a time, at most one more per 401;
  no rejected task, foreign task or expired token is sent; at most one retry;
  every admitted request is answered; the cache implements TaskSlots.
- *cpa_manager*: a failed transaction whose rollback met no error leaves CPA as
  it was; a successful one has done exactly its work; an upsert never leaves an
  identity without a file on its way; a file that a transaction has found to be
  somebody else's is not changed by it.
- *proxy_reload*: no request uses a route older than the setting it found or,
  with a check in flight, than what that check had read; the route never goes back; failures are followed by silence; every request is
  answered and the route catches up.
- *management_plane*: success means store and CPA hold the same key; failure is
  undone unless a compensation failed, but for the record that failed_import is
  about; a rolled-back item is gone; no rollback erases a credential that was
  there before.
- *data_plane*: an index that has named an enabled file of the stored identity
  all along is never forwarded to CPA; a request goes by a proxy that every file
  shown all along has had; no request waits for ever on the mutex.
- *image_bridge*: the collected answer has the images of the stream, each once
  and in order, with image usage before general usage; the streamed frames are
  those of the events read, and end in an error exactly when the stream was cut,
  failed, or never completed; a silent upstream ends by the timeout.
- *plugin_page*: the policy Go sends allows every candidate JavaScript lists; the
  shell becomes ready or shows the failure; an application that cannot reach the
  sidecar is replaced; the application itself never stays at "connecting", and
  the key CPA keeps reaches it even after it gave up waiting for one.

Every property has a mutant, a plausible bug in one mapped definition, with
which TLC finds it violated under the same configuration.

Bounds. Two requests are a leader and a follower, or a latecomer after a 401;
for any number the safety properties are proved (section 4). Three identities
that share a token cover the legacy fallback of LookupByTokenAndAccount; two keys
allow one rotation, or one import after a migration. Four names allow a
canonical file with historical ones sorted before and after it. Names and fields
multiply, so the constraint NamesOrFields follows behaviours along one of them:
three files of the four names, one of them somebody else's, with one key, or two
names with every field, in either case for one credential or its ID alone; the
proofs have no such limit. Two versions are an edit during a check. Two
identities are a committed batch item and one that fails after it; they are
the legacy and the workspace identity of one token, and metadata decides whether
the workspace is the same, so both branches of the lookup occur. Two files are
the fewest that can disagree on a proxy. Five lines are two events with their
empty lines and one more, or a split event and another. The configurations of
the page are one for each branch of the rules; one message under way at a time
in either direction is enough for a late one to meet the wrong candidate. The
application has one call under way at a time. Imports (`Keys`),
requests, `MaxVersion` and `MaxLines` bound the behaviours; everything else
repeats without limit.

Deadlock is checked except in task_manager and image_bridge, where all requests
end.

Fairness. TaskManager: a handler that can move does, since every call of
identity.Manager has a client timeout and every select a timer or a channel; the
upstream round trip has no deadline of its own and is assumed to end, in an
answer or in the error that the client's hanging up makes of it. ProxyReload:
`sync.Mutex` is starvation-free (strong fairness for taking it), the fetch has a
two-second timeout, time passes and the ticker ticks. EventuallyCurrent is
conditional on CPA answering in the end. DataPlane: strong fairness for taking
`Manager.mu`, since Go's mutex is starvation-free; every call to CPA and every
quota call upstream has a client timeout, and the proxied round trip is assumed
to end as in TaskManager; a transaction ends, which its own timeouts ensure.
ImageBridge: the call returns and the three-minute timeout fires; that the
upstream sends anything is not assumed. PluginPage: timers fire, both event
loops run, and a call ends by the plugin client's timeout of a minute; that a
page ever loads is not assumed. The application's message event is strongly fair
because only the bound on calls ever makes it wait. No fairness is assumed of clients, users or CPA.

### Runs that TLC refutes

Four runs state what a comment or a document says, and TLC shows the code doing
otherwise. PROJECT.json quotes the lines.

1. *failed_import*: importing a token for a workspace when a legacy identity of
   the token exists, and failing in CPA, restores the legacy record and leaves
   the new identity with a valid key.
2. *refresh_disabled*: after the plan, e-mail or account of a credential
   changed, refresh writes an enabled file beside the disabled one.
3. *outage_route*: one failed reading of CPA's setting closes the last usable
   route, and requests that read nothing themselves are refused until a later
   check succeeds. README.md:435 promises the opposite; the changelog and
   TestGlobalProxyFailureRemainsClosedThroughBackoff side with the code, which is
   why NotOlderThanCheck, a passing property, is stated for a closed route.
4. *batch_rollback*: an atomic batch says `rolled_back` although the failed item
   left its credential on disk.

Met while reading, and not runs:

- README.md:433 says new requests use the new route. A request that arrives after
  an edit, while a check that read the old setting is in flight, leaves by the old
  route: `markSuccess` of that check makes its own check superfluous.
  NotOlderThanCheck says exactly how old the route may be.
- cmd/sidecar/main.go:102 says refreshes "never delay model traffic", while
  RoundTrip waits for one.
- Neither refresh nor reconciliation recreates a lost auth file, because
  ProxyForIdentity refuses an identity without files. A crash in a delete, after
  the CPA files are gone and before the record is, therefore leaves an identity
  that only a new import revives.
- Refresh keeps the metadata it has stored when CPA then refuses the upsert.
- The ownership of a file is checked when it is listed and, for the canonical
  name, once more (manager.go:232). A file of somebody else that appears under the
  name after that is overwritten or deleted by the writes at 273 and 300 or by the
  rollback at 1375. ForeignUntouched is stated for files that a look has seen.
- The rollback of an upsert deletes the canonical file before it restores the old
  names: in between the identity has no file.
- An item of a batch that is a duplicate of an earlier item's token stays
  "duplicate" when that earlier item is rolled back.
- The shell tells announcements apart by origin only. The first two candidates may
  share one: a late announcement of the first then shows the second as ready.
- When `sidecar_url` is CPA's own absolute address with the default path and the
  page is local, the page lists the loopback listener, which
  localSidecarFallbackEnabled does not put into the policy; CandidatesFramable is
  stated for the other configurations, and the cost is one timeout per candidate.

## 4. Proofs

The proofs are for arbitrary constants, under the ASSUMEs of the modules they
extend: the model values for "nothing" differ from the things they stand apart
from, names and identities are numbers, the sets that are searched for a first or
last member are finite, PATs are identities, intervals are ordered. Each `Inv`
was first checked by TLC on the run's instance. In each module there is one lemma
per action, and Invariance (StoreInvariant, TaskInvariant) combines them.

**IdentityStoreProofs.** `Inv` strengthens the properties by five facts.
FilesOK: every content a restart may find decodes and is its identity's own.
MemoryOK: every record in memory can be encoded. KeyInv: a key that occurs
anywhere, on disk, in `shadow`, in memory or in the mutation, is used and belongs
to one identity; without it a power loss could bring back a key another identity
has meanwhile. PhaseInv: what Open has loaded agrees with the disk. OpInv: what
each stage of a mutation has done so far. One lemma per action shows that it is
kept; ReplaceStep and BeginWriteStep are shared by the mutations.
From it: TypeCorrect, IndexesAgree, Durability, AlwaysReopenable, SealedAtRest.

RefinesVault is the refinement of CredentialVault, one lemma per kind of step. A
rename or a removal is the vault's Write, Publish or the directory sync of a
deletion its Done, the end of Open its Open, and a crash, a power loss or a
rejected file its Stop; a migration, a failed write and a sync before Publish are
not visible. A Stop may change what is kept only within `may`, which is where the
order of rename, sync and acknowledgement matters. The configurations do not
repeat the property; TLC found no violation of ImplementsVault on the instance of
identity_store.

**TaskManagerProofs.** `Inv` is TypeOK with FlightInv (a flight has exactly one
leader, which holds it; a flight not yet led is open), TaskInv (a cached task was
issued for its key and has not been rejected), and, per request, what it has in
hand, how often it was sent and whether it was late. The point of NoStaleTask is
that a task can only be rejected after it was issued, and a request can only wait
for a flight that is open, so what it waits for is not among the tasks rejected
before it started. From it: TypeCorrect, OneFlightPerKey, RejectedTaskNotReused,
TaskIsOwn, RetriedOnce, ExpiredIsRefused, and RefinesSlots, the safety part of
the refinement.

PaidPer401 counts, with CountInv beside `Inv`: a key without a task has had at
most one successful registration per request that met a 401, a key with one at
most one more.

**CPAManagerProofs.** `Inv` is TypeOK with StageInv (which transaction is at
which stage, and with what), SeenInv (the names it writes to are its own),
NamedInv (they keep their metadata), FrameInv (what it has changed is what it
would restore) and DoneInv (it overlooked no match and has dealt with all names
before the current one). FrameInv carries FailureLeavesFiles, and is the reason a
name must be recorded before the call that changes it: an answer may be lost.
From it: FailureLeavesFiles, UpsertInstalls, RemoveRemoves, RestoreUndoesRemove,
DisableReaches and NeverWithoutFile. ForeignSafe rests on a second invariant,
ForeignInv: a name found foreign, and still foreign, is not among those the
transaction will write to, delete or put back. The user may change any file at
any moment, so it cannot be read off `Inv`, which speaks of undisturbed
transactions.

**ManagementPlaneProofs.** `Inv` is TypeOK with StageInv (which handler is at
which stage, and with what), BatchInv (the items of a batch were not stored when
it began, and those marked as imported are those a rollback will visit),
UndoneInv (an import has changed only what it would undo), StepInv (what was
committed is in step), GoneInv (what was rolled back is gone), DeleteInv (a
delete has changed only what it would put back) and PreviousInv (what an import
would restore is what its lookup found, its own record or the untouched legacy
one). FailureUndone leaves out one record, the new one of a workspace import that
met the legacy record of its token, and says of it that memory and disk agree. Without BatchInv a rollback that
deletes its items could delete a record that was there before. From it:
SuccessInStep, FailureUndone, RolledBackGone, FailedDeleteHarmless and the action
property NeverLost. What ManagementPlane assumes of a store or CPA
call is what the theorems of the two modules above establish: a failed write
leaves old or new (Durability), a failed CPA transaction has put everything back
unless its rollback failed (FailureLeavesFiles), a successful one has done its
work (UpsertInstalls, RemoveRemoves, RestoreUndoesRemove). The step from those
theorems to the composition is by reading; it is not a machine-checked refinement.

**ProxyReloadProofs.** `Inv` is TypeOK with MutexInv (one process inside
`refreshMu`), VersionInv (what the transport, the source and the check in flight
know grows in this order), FloorInv (a request that finds nothing to check finds
a setting it may use) and DelayInv (how the delay after a failure is split into
ticks gone and ticks left). From it: NeverOlder, NeverBack, StaysQuiet, and
DelayGrows, which no run repeats. TypeCorrect includes that no delay exceeds
`maxInterval` and that at most `maxRoutes` transports are kept.

**DataPlaneProofs.** `Inv` is TypeOK with LockInv (only the holder of the mutex
is looking), HeldInv (a file shown all along still has a recorded proxy), ReadInv
(it is yet to be downloaded, or one of its proxies has been seen) and ManagedInv
(a managed index still names an enabled file of the stored identity). From it:
NeverForwardsOwn and ProxyAgreed.

**PluginPageProofs.** `Inv` is TypeOK with FrameInv (the shell points at a
candidate while it is open, and calls and keys under way have a document) and
SourceInv (where the address in force came from). From it: TypeCorrect, and
KeysStayTrusted, which no run repeats:
over plain HTTP a key goes to this machine or to the service the environment
names. PolicyCoversCandidates compares JavaScript's list of candidates with Go's
policy, for CandidatesFramable; it follows from SourceInv and the two definitions.

**ImageBridgeProofs.** The properties relate an accumulator that is fed event by
event to a definition over the whole stream. `Inv` is TypeOK with PhaseInv (what
was done before reading), BlockInv (the block held is the tail of the lines read
since the last empty one), AccInv (results, usage and completion are those of the
events that ended so far) and FramesInv (one group of frames per line, and every
completion so far had an image, else the stream would have ended). The argument
has three parts. Consuming one more event takes "the images and usage of the
events up to n" to the same for n + 1 (ConsumedImages, ConsumedUsage); the loop
over the response's output is in turn an induction over its length
(AppendItemsLists). A line read changes no event that ended before it, and the
event that ends at an empty line is what the scanner decodes from its block
(LineRead, HeldEvent). So a flush extends AccInv by one line (Flushed) and yields
that line's frames (FlushedFrames). Induction over numbers is a lemma about sets
(Induction), obtained from the least number outside the set, since a theorem with
an operator as parameter could not be used. From it: TypeCorrect,
CollectedIsRight, StreamedIsRight.

Only model-checked: liveness (EventuallyAnswered, EventuallyCurrent,
EventuallySettled, EventuallyReplaced, ChildSettles, KeyReachesChild, the fair refinement), which
needs ENABLED. Every type invariant, and every invariant and action property that
a passing run checks, has a theorem.

## 5. Not modelled

- Cryptography and JSON beyond what they decide; the retries inside one
  management call; effects of a call that arrive after its answer was given up.
- What becomes of a user's edit between download and upload of a transaction: the
  edits occur in CPAManager, and its properties, ForeignUntouched excepted, are
  stated for transactions without them.
- The batch parser, release versions, the plugin's credential parsing and refresh
  schedule: pure functions on text or on three numbers, where a model would spell
  out what unit tests enumerate.
- The plugin's C entry points and method dispatch, header filtering, HTML and
  themes, static assets: no state.
- The batch form and the per-identity buttons of the application: each calls one
  management handler, which ManagementPlane has. One hazard of the form is listed
  in PROJECT.json: the atomic checkbox is read again after the preview's await.
- Two calls of the application under way at once: the code does not order their
  answers, and no property says which one wins.
- Release scripts: outside the running system.

## 6. What could follow

1. An auth-file contract that CPAManager implements, as IdentityStore implements
   CredentialVault, and a ManagementPlane that instantiates both, so that the
   composition rests on a checked refinement.
2. DataPlane joined with TaskManager and ProxyReload into one specification of a
   request's whole way; each is already checked for every answer of the others.
3. The batch form, with the handlers it calls.
