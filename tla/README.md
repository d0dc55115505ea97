# TLA+ verification of the Secrets Store Sync Controller

The controller copies secrets from external stores into Kubernetes Secrets. A
`SecretSync` object names a `SecretProviderClass` and describes a Secret; the
controller fetches the data through a provider plugin, applies the Secret with a
server-side patch and records the outcome in the status of the `SecretSync`.

This directory models that controller in TLA+, model-checks small instances with
TLC and proves the central safety properties with TLAPS for all instances.

## 1. Inventory

| Component | State | Operations | Hard behaviour |
|---|---|---|---|
| Reconcile loop (`internal/controller/secretsync_controller.go`) | the working copy `ss`, `prevSecretHash`, `prevTime`, `datamap` | `Reconcile`, `validateLabelsAnnotations`, `fetchSecretsFromProvider`, `serverSidePatchSecret`, `computeCurrentStateHash` | works on a cached object; two writes (Secret, status) that are not atomic; rollback in memory; every error is retried |
| Conditions (`conditions.go`) | `status.conditions` | `initConditions`, `updateStatusConditions` | the error of the status write is only logged |
| Predicate, queue, cache (`shouldReconcilePredicate`, controller-runtime) | informer cache, work queue | watch events, relists, retries | events coalesce, caches are stale, generations restart on recreation |
| Polling (`providerPollingFunc`) | ticker, channel of 1024 events | tick, list, send, shutdown | a blocking send, one worker, a `Mount` and a token request without a deadline, retries of deleted names |
| State hash (`computeCurrentStateHash`) | none | encode and hash | is the encoding injective? |
| Secret data (`pkg/util/secretutil`) | the map being built | `BuildKubeSecretData`, `GetCertPart`, `getCert`, `getPrivateKey` | the whole file is stored before its part is extracted; a half-built map is returned with the error |
| Token manager (`pkg/token`) | token cache | `GetServiceAccountToken`, `cleanup` | refresh and expiry windows, concurrent refreshes |
| Provider clients (`pkg/provider`) | maps of clients and connections, a lock | `Get`, `Cleanup`, `HealthCheck`, `MountContent` | two critical sections in `Get`; RPCs under the lock |
| Admission policies (`charts/`) | none | CEL rules on Secrets and token requests | patches that are rejected until a user acts |
| Process (`cmd/main.go`) | flags | start, leader election, audiences, shutdown | leader election is off by default; the audiences travel from the chart through a flag |
| Metrics, version, generated deep copies | none | output only | none |

Interactions: users and the provider change objects and contents at any time; the
API server notifies the informers; the predicate decides which events enter the
queue; the worker takes a name from the queue, reads the caches, calls the provider
(token manager, provider client, `MountContent`, `BuildKubeSecretData`), patches the
Secret and updates the status with the resourceVersion it read; the garbage collector
deletes a Secret whose owner is gone.

What makes it correct: the status tells the truth about the Secret (whatever fails in
between); stale copies never overwrite newer records; no event is lost; a SecretSync
that can be synchronised is, in the end; one that cannot says why; the Secret of a
deleted SecretSync goes away. `PROJECT.json` lists the hazards line by line.

## 2. Modules

| Module | What it is |
|---|---|
| `Conditions` | condition types, reasons and the operations on the condition list |
| `Admission` | which Secrets the API server admits from the controller |
| `SecretSyncReconciler` | the reconcile loop with API server, informer, queue, provider and users; instantiates `Admission` |
| `SyncContract` | what the controller promises to the readers of a `SecretSync` and its Secret |
| `MCReconciler` | values of constants for TLC, symmetry of controllers |
| `SecretSyncReconcilerProofs` | types, status and recorded sync of `SecretSyncReconciler` |
| `EventProofs` | no event is lost |
| `SyncContractProofs` | `SecretSyncReconciler` implements `SyncContract` |
| `ObservedDataProofs` | the Secret has the data that was last observed |
| `PollingLoop` | ticker, channel, queue, worker and shutdown, for several names |
| `SecretData`, `MCSecretData` | from the provider's answer to the data of the Secret and the bytes that are hashed; files and specs for TLC |
| `SecretDataProofs`, `HashProofs` | data is whole and its parts stay apart; the bytes that are hashed tell all states apart |
| `PluginClients`, `PluginClientsProofs` | the map of provider clients: `Get`, `Cleanup`, `HealthCheck` and their lock |
| `TokenManager`, `TokenManagerProofs` | service account tokens: cache, refresh, fallback, cleanup |
| `AudienceFlag` | the audiences from the chart's values through the flag to the reconciler |
| `MCTokenManager` | the audiences for TLC |

Each component is a module of its own, and what one needs of another is in it as an
outcome: a fetch of the reconciler fails with the reason that `PluginClients`,
`TokenManager` or `SecretData` lead to. `SecretData` justifies the abstraction of the
hash, `Admission` is shared, and `PollingLoop` keeps of a reconcile what decides whether
the only worker comes free again.

### How `SecretSyncReconciler` corresponds to the code

One `SecretSync` name is modelled, with the Secret and the `SecretProviderClass` that
belong to it. Reconciles of different names share nothing but the worker, the token
cache and the provider clients.

A reconcile is cut where it calls out. `pc[c]` says where it is:

| `pc` | The code is | Next actions |
|---|---|---|
| `idle` | waiting for the queue | `Reconcile` (lines 111-134, the cache read) |
| `init` | in the `Status().Update` of `initConditions` | `initConditions` |
| `sync` | validating, reading the class, fetching (136-181) | `ValidationFails`, `SecretProviderClassNotFound`, `FetchFails`, `ParametersPanic`, `AlreadyInSync`, `StartSync` |
| `patch` | in the server-side patch (198-199) | `serverSidePatchSecret`, `PatchRejected`, `PatchFails` |
| `report` | in the `Status().Update` of `updateStatusConditions` | `ReportFailure` |
| `commit` | in the last `Status().Update` (211) | `UpdateStatus` |

`copy`, `prev`, `datamap` are the local variables of the same meaning. A status update
succeeds, conflicts, is lost, or is applied and its answer is lost; so is the patch, which
in addition is rejected when `Admission!Admits` is false: the type is not allowed or would
change, or the Secret that is there was made by somebody else.
`clock` is `time.Now()` of every process. `Crash` loses all memory of a controller. `WatchEvent` brings a cache up to date and
applies the predicate; `RelistEvent` does so after a broken watch, when a recreated
object arrives as an update. `Poll` is a tick of the poll interval.

Abstractions:

- A resourceVersion is only ever compared for equality. Instead of numbers the model
  keeps the sets `freshCache` and `freshCopy` of the controllers that still hold the
  current one. A write that changes nothing leaves the resourceVersion alone, as the
  API server does.
- The hash is the tuple of its inputs: `HashProofs` proves that the encoding of the
  inputs is injective, and PBKDF2 is taken to be free of collisions.
- A spec is an opaque value; the sets `LabelSpecs` and `AnnotationSpecs` are those that
  `validateLabelsAnnotations` rejects. The provider's data is a number.
- A condition is its reason: the code determines the status by the reason.
- The retries of a name that is not in the cache change nothing and are not steps here;
  `PollingLoop` has them.
- A Secret that a user made has neither owner nor label of the controller. The policies
  are those of the chart's defaults (`applyPolicies: true`).
- `applied` and `outcome` are history variables: the hashes under which the Secret was
  patched, and what the last reconcile that returned nil had read. No guard reads them.

Users start with a `SecretProviderClass` that exists already; they may delete it first.

`SyncContract` has no controllers, caches or queues, only the object, the Secret and the
states that have been applied. The refinement mapping drops the conditions and the spec
(`ObjectView`, `SecretView`) and maps `applied` to itself. Its `Record` says what a status
may say: a state of this very object and its present generation that was applied before,
at no earlier time than the last; its `Apply` never touches a Secret of another maker.

### How `PluginClients` corresponds to the code

Goroutines call `Get`; its two critical sections are `Load` and `Register`, with `Dial`
or `GetFails` between them, and `Release` is the caller's last use of the client. A
critical section without calls is one step. `HealthCheck` calls providers while it holds
the read lock, so it is cut into `HealthTick`, one `Version` per client and
`HealthUnlock`. The mutex is external: `CanRead` and `CanWrite` state when `RLock` and
`Lock` return, with Go's rule that a waiting writer keeps new readers out. The maps
`clients` and `conns` are always written together and are one map, from provider to the
number of its connection.

The model has several callers of `Get`, for which the code is written (its comment at
lines 161-162), and health checks. In the controller of this commit one worker calls `Get`
and nobody calls `HealthCheck`; `Cleanup` runs when the manager stops, which may be before
a slow reconcile has ended. A client is in use from `RUnlock` on: `Cleanup` may close it
before `Get` has returned it, and the call on it then fails, which the reconcile retries or
the end of the process forgets. With several callers, the one that loses the race drops its
connection without closing it, and `Cleanup` does not know of it.

### How `TokenManager` corresponds to the code

`SecretProviderServiceAccountTokenAttrs` asks `GetServiceAccountToken` for a token for each
audience in turn. `UseCached` and `RequestToken` are the cache lookup with
`requiresRefresh`, whose jitter is any member of `Jitters`; `Issue` is the API server's
answer and `Save` its arrival, between which time may pass; `UseOld` and `RequestFails` are
the outcomes of a failed request. The lifetime in the answer is the API server's choice
(`TTLs`) and it always sets one, so the early return for a missing lifetime is left out.
`cleanup` may run at any time. The history variable `saved` holds the token that was last
saved under each key. `Issue` is guarded by the policy on token
requests: the audience must be one of the chart's values. `AudienceFlag` computes
`Audiences` from the flag, which is a sequence of symbols: what `strings.Split` does with
the blank after the comma is the point.

### How `SecretData` corresponds to the code

One SecretSync is fetched again and again. `MountContent` and `MountFails` are the answer
of the provider, `BuildEntry`, `FileMissing` and `PartFails` one iteration of
`BuildKubeSecretData`, `Sync` the hash and its comparison with the recorded one. Between
two fetches the files, the spec or the class change, or the class is recreated.

A content is a sequence of blocks with a PEM type and what its DER bytes parse as, in PEM
or PFX format, or anything else. `pem.Decode`, `pkcs12.ToPEM` and the parsers of
`crypto/x509` are external. `getPrivateKey` takes the last block that is not a certificate;
when no parser accepts it, or a PFX file has no key, the result is an empty block and no
error, and so it is in the model. The bytes that are hashed are a sequence of symbols:
length, data, UIDs, generations in decimal and `forceSynchronization`, with the code's
separators. `Symbols` is what such sequences are made of. A symbol may be a whole word (a
PEM type, DER bytes, a key): the JSON is that of `json.Marshal` up to the spelling of
words, which have no comma in them because contents are in base64 and keys follow the
pattern of the CRD.

### How `PollingLoop` corresponds to the code

`poll` is where the goroutine of `providerPollingFunc` is: before `WaitForCacheSync`, in
the outer `select`, or sending the items of the list; each `select` is a choice between its
cases. `ChannelEvent` is the channel source of `SetupWithManager`. Queue, backoff and
shutdown are those of client-go and controller-runtime. The worker holds a name while it
is in one of two calls: the token request of `prepareCSIProviderParams`, made with
`context.TODO()`, which returns, fails, or does neither for ever; and `Mount`, which
returns, fails, or does neither until the context ends. A cached token is a request that
returns at once; what fails before `Mount` for other reasons is retried like a failed
request. The patch and the status writes have the context of the reconcile and return.

## 3. Runs

| Run | Shows |
|---|---|
| `reconcile` | two controllers without leader election, users' own Secrets, classes with and without parameters, 2 changes, 1 fault, 2 instants: the types; condition and hash agree; a recorded hash was applied; no event or error is forgotten; `lastSuccessfulSyncTime` moves only after an acknowledged patch; the recorded sync never goes back; the contract is implemented |
| `converge` | fair, one controller, polling, relists, rotations, three specs (one invalid, one of another type), 3 changes, 1 fault: when the status says so and nothing is pending, the Secret has the data last observed; Secret and status catch up; the Secret of a deleted SecretSync is gone for good; an invalid spec, a missing class or a rejected patch ends up in the condition of the right type |
| `secret_data` | 11 contents, 12 specs, up to 2 changes: parts of a TLS Secret stay apart; data is complete or not used; the key survives every encoding; the hashed bytes differ exactly when the state does |
| `polling` | fair, two names, a channel of one event: whoever stays is fetched again and again unless a `Mount` or a token request never returns; shutdown ends polling, with a full channel too, and the worker, with a `Mount` that hangs too, but not with a token request that hangs |
| `plugin_clients` | fair, two goroutines, two providers and an invalid name, up to three dials: registered clients are open, callers share them, health checks see open clients only, and every lock is granted |
| `tokens` | two service accounts, two audiences, two lifetimes: a successful call has a token for every audience, issued to its account for that audience; no expired token is served from the cache or after a failed refresh; a call fails only if the last token it had has expired; expired tokens leave the cache |

Bounds. `MaxChanges` counts operations of users and rotations, `MaxFaults` failed calls and
crashes, `MaxClock` seconds. In `reconcile` two changes are create and edit, delete, or a
foreign Secret, between which two controllers race; one fault separates a patch from its
status write. What needs more changes (create, delete, recreate) is covered by `converge`
with one controller, and the safety properties for all bounds by the proofs. In
`secret_data` the generations 1, 2 and 11 and UIDs made of digits are chosen such that
parts without separators would run into each other. In `polling` a channel of one event
and two names fill the channel as 1024 events and more names do. In `tokens` the lifetimes
are 2 and 5 and the maximal age is 3: the short one is refreshed near its expiry, the long
one because of its age, and four seconds are enough for a token to be refreshed, to
expire, and to be dropped. `NoNeedlessError` is about one worker, as the controller has.

`reconcile` uses the symmetry of the controllers. `CHECK_DEADLOCK FALSE`: with no
SecretSync, or with polling off, the controller rightly has nothing to do; a fetch sequence
of `secret_data` ends with its last change; after shutdown `PollingLoop` is at rest.

Fairness:

- `SecretSyncReconciler`: weak fairness of each controller's reconcile step (the worker
  loop always runs and the queue's backoff is finite), of its watches, of the poll ticker,
  and of the garbage collector. Nothing is assumed of users, the provider, faults, crashes
  or relists. Faults are bounded, which is the assumption that calls do not fail for ever.
- `PollingLoop`: weak fairness of the goroutines, the ticker and the retry timers, and
  strong fairness of the `ctx.Done()` case: a Go `select` chooses at random among the cases
  that are ready, so that it does not lose for ever. Nothing is assumed of `Mount` before
  the context ends; afterwards gRPC cancels it. Nothing at all is assumed of a token
  request: the properties say what happens if each one returns. (If one does not, the
  manager gives up waiting for the worker after its graceful shutdown period.)
- `PluginClients`: weak fairness of a `Get` and a `Cleanup` under way, and of a health
  check that holds the lock, whose calls have a deadline of five seconds. Nothing is assumed
  of the ticker, of callers, or of how long they use a client.
- `TokenManager`: weak fairness of `cleanup`, which `wait.Forever` repeats every minute.

### Where the code departs from its documents

| Run | What the counterexample shows |
|---|---|
| `updated_not_created` | the first patch fails; the rollback restores hash and time but not the conditions, so `SecretUpdated` is True although nothing was ever written |
| `sticky_failure` | an update fails in the provider, the failed condition reaches the cache, the retry has the same hash, patches, writes its status and returns nil, and the failed condition stays; every poll patches again |
| `rotated_back` | the patch succeeds, its status write does not, the provider goes back to the recorded content: the hashes agree and the Secret keeps the content in between |
| `relist` | a recreated object arrives as an update between two generations 1 and is filtered out; without polling it is never reconciled |
| `no_parameters` | a class without parameters makes each reconcile panic, and no condition says so |
| `audience_flag` | the chart joins the audiences with a comma and a blank, `main` splits at the comma: the second audience is requested with a leading blank, and the chart's policy denies it |

`SecretHasObservedData` holds in `converge`, where the provider only moves forward, and
`NoLostEvent` in `reconcile`, where watches do not break: the two violations need exactly
that. With two controllers `SecretHasObservedData` is not checked: patches of the Secret
carry no resourceVersion, so that a slow controller may apply older data after a newer
sync was recorded.

Two more differences have no run, since the model follows the code in them:

- The comment of `syncHash` (`secretsync_types.go:130-134`) says that the Secret is updated
  when the hash is different, when `lastSuccessfulSyncTime` "indicates a rotation is
  required", or after a failure, and lines 176-178 name a condition for an update "at the
  end of the poll interval" without a change of value. The code never compares
  `lastSuccessfulSyncTime`: a poll whose hash is the recorded one returns at lines 179-181
  without an update. It never reads the Secret either, so that one that a user deleted stays
  away until the hash changes or a condition has failed. `Converges` therefore is about
  Secrets that nobody but the collector deletes, or a user for whom the patch is rejected.
- The comment of `conditions` (`secretsync_types.go:147-205`) names conditions that the
  code does not write. `Conditions` has the code's, which the unit and end-to-end tests
  assert (`conditions.go:29-50`):

  | The comment | The code |
  |---|---|
  | types Create, Update | `SecretCreated`, `SecretUpdated` |
  | CreateSucceeded | `CreateSuccessful` |
  | NoValueChange, ValueChangeOrForceUpdateDetected | `SecretUpToDate`, only when the hash has changed |
  | ControllerSPCError | `SecretProviderClassMisconfigured` |
  | ValidatingAdmissionPolicyCheckFailed, UserInputValidationFailed | `ControllerPatchError`, as for every failed patch |
  | ControllerInternalError | `ControllerSyncError` |
  | UnknownError, and the status Unknown for it | the status Unknown only with `SyncStarting` and `NoUpdatesAttemptedYet`, before the first attempt |
  | none | `RemoteSecretStoreFetchFailed` |

## 4. Proofs

`SecretSyncReconcilerProofs` holds, for any set of controllers, any specs and versions
and any bounds:

- `TypeCorrect`: `Spec => []TypeOK`. Not inductive alone: the steps of a reconcile read
  fields of `copy[c]`, `prev[c]` and `ss`. `PhaseOK` says that they exist in the phases
  that read them, and `CacheOK` that a cache with the current resourceVersion has the
  current object (needed when `Reconcile` takes it over as a fresh copy).
- `CreatedIffHashHolds` and `HashWasAppliedHolds`: from `StatusInv`, which says of the
  object, of every cache and of every working copy that condition and hash agree
  (`Consistent`) and that the hash was applied (`Recorded`), with the exception of the
  phase `patch`, in which the copy is ahead and `prev` holds what the rollback restores.
- `NoStatusRegressHolds` and `SyncTimeOnlyAfterPatchHolds`: from `SyncInv`. As long as a controller's resourceVersion is
  current, its copy records the same sync as the object, or (from `StartSync` to the
  status write) one that is of the object's generation and not older. `RecordOK` bounds
  recorded times by the clock and recorded generations by the object's.

`EventProofs`: `NoLostEventHolds`, if no informer relists. `EventInv` says that the
generation in a cache is queued, or under way, or done; the invariant itself says nothing
of a controller that is busy, so that a returning reconcile could not be shown to have
looked at the generation that is cached now.

`ObservedDataProofs`: `SecretHasObservedDataHolds`, for one controller, a provider that does
not go back and a Secret that users delete only when it is in the way; relists, Secrets of
users, faults, edits and recreations are as they may be. The property speaks of a controller
at rest and rests on a history of writes of which no status knows: a patch whose answer or
whose status write was lost has changed the Secret all the same. The invariant follows the
hashes that were `applied`, recorded or not:

- `LineInv`: caches, working copies, outcomes and applied hashes are of the SecretSync as
  it is or as it was earlier (`Before` orders UIDs and generations), and a working copy is
  not younger than the cache.
- `NewestInv`: the one controller never falls behind what it has itself applied. This
  fails with two.
- `ForwardInv`: what was applied is not newer than the provider's content, and what a
  reconcile is about to write is not older than what was applied. This fails when the
  provider goes back.
- `HeldInv`: once a hash of the current generation was applied, the Secret is of this
  generation and its data not older than the hash's. So when a reconcile finds the
  recorded hash to be current, the data of the Secret is at least and at most the
  provider's.

The steps of the model are first sorted into kinds (`ControllerKinds`, `EnvironmentKinds`:
a reconcile starts, works, fetches, patches, gives up, completes...), and each part of the
invariant is shown for the kinds.

`SyncContractProofs`: `ContractImplemented`, from `StatusInv`, `SyncInv` and `OwnerInv`. A step of the
code is the step of the contract of the same meaning, or none; to see that a status write is
`Record`, `OwnerInv` says that the hash in a working copy is of its own object, and that
UIDs are given out in order, so that nothing was applied for a new object before.

`TokenManagerProofs`, for any accounts, audiences, callers, lifetimes and jitters:

- `TokenTypeCorrect`: from `TypeOK` and what each phase of a call holds (`PhaseOK`).
- `TokensOfCallerHolds`: `OwnerInv` says that tokens in the cache and on their way belong
  to their key, and that a call has tokens for the audiences it has passed (`Progress`).
- `NoExpiredTokenHolds`: an action property, from the types and the lemma that a token
  which needs no refresh has not expired.
- `NoNeedlessErrorHolds`, for one worker: `KeepInv` says that the cache, and the call that
  wants to refresh a token, have what was last saved under the key unless that has expired.
  With two workers it is false: one fails with an old token while the other has a new one.

`PluginClientsProofs` holds, for any providers and any number of goroutines:

- `ClientsTypeCorrect`: `TypeOK`, inductive as it stands.
- `RegisteredOpenHolds`, `SharedClientHolds`, `HealthChecksOpenHolds`: from `ClientsInv`,
  which adds that a connection waiting to be registered is open (`DialedOpen`) and known
  to one goroutine only (`DialedOwned`): otherwise `Cleanup` could close it and `Get`
  register it afterwards. `IdleHealth` lets writers, who wait until `HealthCheck` has
  released the lock, change what it walks.

`SecretDataProofs`, for answers with any files, contents with any number of blocks, and
specs with any number of entries: `DataCompleteHolds`, `PartsApartHolds` and
`KeyPreservedHolds`, from `DataInv`. It says that the map under construction has the parts
of the entries that were passed, none of them an error (`BuiltOK`), and that the files are
labelled as the answer has them (`FilesOK`). The lemmas about the parts say what the loops
of `getCert` and `getPrivateKey` return.

`HashProofs`: `HashTellsChangeHolds`, an action property. `HashInv` says that `syncHash` is
the encoding of what was synced; the rest is that the encoding is injective
(`HashInputInjective`): the decimal length has no colon, so it ends at the first one and
tells where the JSON ends (`ItoaInjective`); the JSON ends each field with a comma, so the
fields can be told apart one after the other (`EncodeInjective`, `MarshalInjective`); UIDs
are of equal length, decimal generations have no bar, and `forceSynchronization`, in which
anything may stand, comes last, as the comment in the code demands.

Both need induction over lengths and numbers. The library's induction theorems take an
operator as a parameter, which the provers cannot instantiate; the lemma `LeastNat`, that
a non-empty set of natural numbers has a least member, takes a set, and serves as well.

Assumptions: `None` is none of the values it stands beside (`NoneAssumption`,
`NoClientAssumption`, `NoTokenAssumption`) and the constants have their types
(`SpecsAssumption`, `VersionsAssumption`, `FlagsAssumption`, `BoundsAssumption`,
`InvalidAssumption`, `MaxDialsAssumption`, `AudiencesAssumption`, `TimesAssumption`). For
`SecretData` they are the types of answers and specs (`SymbolsAssumption`,
`ResponsesAssumption`), that target keys are unique and known (`SpecsAssumption`,
`KeyOrderAssumption`: the list is keyed by them), that UIDs are of equal length
(`IdsAssumption`: they are UUIDs), and that PEM types tell the truth (`LabelsAssumption`: a
private key under the label CERTIFICATE would end up in `tls.crt`, since `getCert` looks at
labels only). TLC evaluates each of them in the runs of its module.

One assumption is in the shape of the model: all controllers have one clock. Without leader
election two processes on two machines may have clocks that differ; then a controller whose
clock is behind can record an earlier `lastSuccessfulSyncTime` than the one before. The part
of `NoStatusRegress` and of the contract's `Record` that is about time holds for clocks that
agree; the part about hashes and generations does not depend on them.

Every invariant and every action property that a passing run checks is proved. Only model-checked:
the liveness properties (`Converges`, `OrphanCollected`, `ReportsFailure`, `LocksGranted`,
`ExpiredDropped`, and those of `PollingLoop`, which has no others), because fairness is out
of the prover's reach.

## 5. Not modelled

- Metrics and version output: nothing depends on them. Generated deep copies: values in
  TLA+ are never aliased.
- The policy that forbids the controller to delete Secrets (it never does) and those on the
  format of labels and annotations, which are regular expressions on what users write.
- `TrimSpace` and the checks for empty names in `BuildKubeSecretData`: the patterns of the
  CRD admit neither blanks nor empty names, and `targetKey` is the key of the list, so that
  no two entries share one.
- The parsers (PEM, PKCS#12, DER), PBKDF2, the gRPC transport and its message size limit,
  probes, logging and message texts.

What could be added: the safety that the liveness of `PollingLoop` rests on (no name is lost
between channel, queue and backoff) as invariants of their own; for two controllers, how far
behind the recorded sync the Secret may fall.
