------------------------ MODULE SecretSyncReconciler ------------------------
(***************************************************************************)
(* The reconcile loop of internal/controller/secretsync_controller.go for  *)
(* one SecretSync name, with what it talks to: the API server (SecretSync, *)
(* SecretProviderClass, Secret, garbage collector), the informer caches    *)
(* and the work queue of controller-runtime, and the provider.             *)
(*                                                                         *)
(* A reconcile is cut where it calls the API server or the provider; what  *)
(* it does between two calls is one step.  Controllers is a set: one       *)
(* member with leader election, several without it (the flag's default).   *)
(*                                                                         *)
(* The resourceVersion of a SecretSync is only ever compared, so it is     *)
(* modelled by who still holds the current one: freshCache and freshCopy.  *)
(***************************************************************************)
EXTENDS Conditions, Integers

CONSTANTS
  Controllers,          \* controller processes
  Specs,                \* values of SecretSync.spec
  LabelSpecs,           \* those that set the reserved label to a value
  AnnotationSpecs,      \* those that carry the reserved annotation
  ForceSynchronization, \* [Specs -> Nat], the field of that name
  SecretType,           \* [Specs -> types], the field secretObject.type
  allowedSecretTypes,   \* of the admission policies
  deniedSecretTypes,    \* of the admission policies
  Versions,             \* contents the provider may hold, numbered
  RotatesBack,          \* may the provider go back to an earlier content?
  PollingEnabled,       \* --rotation-poll-interval > 0
  HasParameters,        \* may spec.parameters be set (TRUE), or be nil (FALSE)?
  Relists,              \* may an informer replace its cache with a new list?
  ForeignSecrets,       \* may a user make a Secret of the SecretSync's name?
  SecretDeletable,      \* may a user delete a Secret that is not in the way?
  MaxChanges,           \* bound: operations of users and rotations
  MaxClock,             \* bound: seconds
  MaxFaults             \* bound: failed calls and crashes

ASSUME SpecsAssumption ==
  /\ LabelSpecs \subseteq Specs
  /\ AnnotationSpecs \subseteq Specs
  /\ ForceSynchronization \in [Specs -> Nat]
ASSUME VersionsAssumption == Versions \subseteq Nat
ASSUME FlagsAssumption == HasParameters \cup
  {RotatesBack, PollingEnabled, Relists, ForeignSecrets, SecretDeletable} \subseteq BOOLEAN
ASSUME BoundsAssumption ==
  {MaxChanges, MaxClock, MaxFaults} \subseteq Nat

VARIABLES
  ss,         \* the SecretSync in the API server, or None
  spc,        \* the SecretProviderClass in the API server, or None
  secret,     \* the Secret in the API server, or None
  store,      \* the content the provider serves
  nextUID,    \* the UID of the next object
  clock,      \* time.Now() of every process, in seconds: clocks are not skewed
  changes,    \* operations of users and rotations so far
  faults,     \* failed calls and crashes so far
  cache,      \* cache[c]: the SecretSync in c's informer cache
  freshCache, \* the controllers whose cache[c] has the current resourceVersion
  spcCache,   \* spcCache[c]: the SecretProviderClass in c's informer cache
  queued,     \* queued[c]: the name waits in c's work queue (or its backoff)
  pc,         \* pc[c]: where the reconcile of c is
  copy,       \* copy[c]: ss, the object the reconcile of c works on
  freshCopy,  \* the controllers whose copy[c] has the current resourceVersion
  prev,       \* prev[c]: prevSecretHash and prevTime
  datamap,    \* datamap[c]: the data fetched by the reconcile of c
  applied,    \* history: the hashes under which the Secret has been patched
  outcome     \* history: what c's last reconcile that returned nil had read

cluster == <<spc, secret, store, nextUID, clock, changes>>
informer == <<cache, freshCache, spcCache>>
work == <<pc, copy, freshCopy, prev, datamap>>
vars == <<ss, cluster, faults, informer, queued, work, applied, outcome>>

-----------------------------------------------------------------------------
(* Objects *)

UIDs == Nat
Generations == Nat
Times == Nat

\* The result of computeCurrentStateHash, as the tuple of what is hashed: the
\* encoding is injective and PBKDF2 is taken to be free of collisions.
Hashes == [data : Versions, spcUID : UIDs, spcGeneration : Generations,
           ssUID : UIDs, ssGeneration : Generations, force : Nat]

Statuses == [conditions : [ConditionTypes -> Reasons \cup {None}],
             syncHash : Hashes \cup {None},
             lastSuccessfulSyncTime : Times \cup {None}]

SecretSyncs == [uid : UIDs, generation : Generations, spec : Specs, status : Statuses]
SecretProviderClasses == [uid : UIDs, generation : Generations, parameters : BOOLEAN]

\* Labels, annotations and type of the Secret come from the spec.
Secrets == [owner : UIDs \cup {None}, spec : Specs, data : Versions]

\* What prevSecretHash and prevTime hold.
SyncRecords == [syncHash : Hashes \cup {None}, lastSuccessfulSyncTime : Times \cup {None}]

\* What a reconcile that returned nil had read.
Outcomes == [uid : UIDs, generation : Generations, data : Versions]

\* What SyncContract sees of the two objects.
ObjectViews == [uid : UIDs, generation : Generations, recorded : Hashes \cup {None},
                time : Times \cup {None}]
SecretViews == [owner : UIDs \cup {None}, data : Versions]

ASSUME NoneAssumption ==
  None \notin Nat \cup Reasons \cup Hashes \cup SecretSyncs \cup Secrets \cup SyncRecords
              \cup Outcomes \cup ObjectViews \cup SecretViews

EmptyStatus == [conditions |-> NoConditions, syncHash |-> None,
                lastSuccessfulSyncTime |-> None]

\* Mutant: the generation of the SecretSync is left out.
computeCurrentStateHash_NoGeneration(data, class, s) ==
  [data |-> data, spcUID |-> class.uid, spcGeneration |-> class.generation,
   ssUID |-> s.uid, ssGeneration |-> 0,
   force |-> ForceSynchronization[s.spec]]

\* Mutant: the data is left out.
computeCurrentStateHash_NoData(data, class, s) ==
  [data |-> 0, spcUID |-> class.uid, spcGeneration |-> class.generation,
   ssUID |-> s.uid, ssGeneration |-> s.generation,
   force |-> ForceSynchronization[s.spec]]

computeCurrentStateHash(data, class, s) ==
  [data |-> data, spcUID |-> class.uid, spcGeneration |-> class.generation,
   ssUID |-> s.uid, ssGeneration |-> s.generation,
   force |-> ForceSynchronization[s.spec]]

\* An empty hash means that the secret is still to be created.
ConditionType(status) ==
  IF status.syncHash = None THEN ConditionTypeCreate ELSE ConditionTypeUpdate

validateLabelsAnnotations(spec) ==
  CASE spec \in LabelSpecs      -> "InvalidClusterSecretLabelError"
    [] spec \in AnnotationSpecs -> "InvalidClusterSecretAnnotationError"
    [] OTHER                    -> None

-----------------------------------------------------------------------------
Init ==
  /\ ss = None /\ secret = None
  /\ \E p \in HasParameters : spc = [uid |-> 0, generation |-> 1, parameters |-> p]
  /\ store \in Versions
  /\ nextUID = 1 /\ clock = 0 /\ changes = 0 /\ faults = 0
  /\ cache = [c \in Controllers |-> None]
  /\ freshCache = Controllers
  /\ spcCache = [c \in Controllers |-> None]
  /\ queued = [c \in Controllers |-> FALSE]
  /\ pc = [c \in Controllers |-> "idle"]
  /\ copy = [c \in Controllers |-> None]
  /\ freshCopy = {}
  /\ prev = [c \in Controllers |-> None]
  /\ datamap = [c \in Controllers |-> None]
  /\ applied = {}
  /\ outcome = [c \in Controllers |-> None]

-----------------------------------------------------------------------------
(* Calls of the API server *)

Fault == faults < MaxFaults /\ faults' = faults + 1

\* A write of the SecretSync gives it a new resourceVersion, a write that
\* changes nothing does not: every other holder of the old one becomes stale.
StaleCaches == freshCache' = IF ss' = ss THEN freshCache ELSE {}

\* Status().Update(ctx, ss): the status is replaced as a whole, if the
\* resourceVersion of the caller's object is still the current one.
StatusUpdateOk(c, status) ==
  /\ c \in freshCopy
  /\ ss' = [ss EXCEPT !.status = status]
  /\ StaleCaches
  /\ UNCHANGED faults

StatusUpdateErr(c, status) ==
  \/ c \notin freshCopy /\ UNCHANGED <<ss, freshCache, faults>>  \* conflict, or gone
  \/ Fault /\ UNCHANGED <<ss, freshCache>>                       \* request lost
  \/ /\ Fault                                                    \* response lost
     /\ c \in freshCopy
     /\ ss' = [ss EXCEPT !.status = status]
     /\ StaleCaches

-----------------------------------------------------------------------------
(* Reconcile *)

Done(c) ==
  /\ pc' = [pc EXCEPT ![c] = "idle"]
  /\ copy' = [copy EXCEPT ![c] = None]
  /\ prev' = [prev EXCEPT ![c] = None]
  /\ datamap' = [datamap EXCEPT ![c] = None]
  /\ freshCopy' = IF ss' = ss THEN freshCopy \ {c} ELSE {}

\* Mutant: a failed reconcile is forgotten.
ReturnErr_NoRetry(c) == Done(c) /\ UNCHANGED <<queued, outcome>>

\* return ctrl.Result{}, err: the name is queued again, with backoff.
ReturnErr(c) ==
  /\ Done(c)
  /\ queued' = [queued EXCEPT ![c] = TRUE]
  /\ UNCHANGED outcome

\* return ctrl.Result{}, nil
ReturnNil(c, data) ==
  /\ Done(c)
  /\ outcome' = [outcome EXCEPT ![c] = [uid |-> copy[c].uid,
                                        generation |-> copy[c].generation,
                                        data |-> data]]
  /\ UNCHANGED queued

\* Mutant: every failure is reported as a failure to create.
Fail_AlwaysCreate(c, status, reason) ==
  /\ copy' = [copy EXCEPT ![c].status =
       [status EXCEPT !.conditions =
          SetStatusCondition(status.conditions, ConditionTypeCreate, reason)]]
  /\ pc' = [pc EXCEPT ![c] = "report"]

\* updateStatusConditions(..., ConditionFalse, reason, ..., true), up to its
\* Status().Update, which is the step ReportFailure.
Fail(c, status, reason) ==
  /\ copy' = [copy EXCEPT ![c].status =
       [status EXCEPT !.conditions =
          SetStatusCondition(status.conditions, ConditionType(status), reason)]]
  /\ pc' = [pc EXCEPT ![c] = "report"]

\* The name is taken off the queue and read from the cache.  If the cache
\* does not have it, Get fails and the name goes back to the queue: nothing
\* changes, and the controller retries for as long as the object is missing.
Reconcile(c) ==
  /\ pc[c] = "idle" /\ queued[c] /\ cache[c] # None
  /\ queued' = [queued EXCEPT ![c] = FALSE]
  /\ copy' = [copy EXCEPT ![c] = cache[c]]
  /\ freshCopy' = IF c \in freshCache THEN freshCopy \cup {c} ELSE freshCopy \ {c}
  /\ pc' = [pc EXCEPT ![c] =
       IF MissingConditions(cache[c].status.conditions) THEN "init" ELSE "sync"]
  /\ UNCHANGED <<ss, cluster, faults, informer, prev, datamap, applied, outcome>>

initConditions(c) ==
  /\ pc[c] = "init"
  /\ LET status == [copy[c].status EXCEPT !.conditions = InitialConditions(@)]
     IN  \/ /\ StatusUpdateOk(c, status)
            /\ copy' = [copy EXCEPT ![c].status = status]
            /\ freshCopy' = IF ss' = ss THEN freshCopy ELSE {c}
            /\ pc' = [pc EXCEPT ![c] = "sync"]
            /\ UNCHANGED <<queued, prev, datamap, outcome>>
         \/ StatusUpdateErr(c, status) /\ ReturnErr(c)
  /\ UNCHANGED <<cluster, cache, spcCache, applied>>

ValidationFails(c) ==
  /\ pc[c] = "sync"
  /\ validateLabelsAnnotations(copy[c].spec) # None
  /\ Fail(c, copy[c].status, validateLabelsAnnotations(copy[c].spec))
  /\ UNCHANGED <<ss, cluster, faults, informer, queued, freshCopy, prev, datamap,
                 applied, outcome>>

\* The next actions start here: the spec is valid.
Fetching(c) ==
  /\ pc[c] = "sync"
  /\ validateLabelsAnnotations(copy[c].spec) = None

SecretProviderClassNotFound(c) ==
  /\ Fetching(c)
  /\ spcCache[c] = None
  /\ Fail(c, copy[c].status, "SecretProviderClassMisconfigured")
  /\ UNCHANGED <<ss, cluster, faults, informer, queued, freshCopy, prev, datamap,
                 applied, outcome>>

\* fetchSecretsFromProvider: no client for the provider, no service account
\* token; then, the parameters being ready, a failed Mount or a missing file.
FetchErrors(class) ==
  {"SecretProviderClassMisconfigured", "ControllerSyncError"} \cup
  (IF class.parameters THEN {"ProviderError", "RemoteSecretStoreFetchFailed"} ELSE {})

FetchFails(c) ==
  /\ Fetching(c)
  /\ spcCache[c] # None
  /\ Fault
  /\ \E reason \in FetchErrors(spcCache[c]) : Fail(c, copy[c].status, reason)
  /\ UNCHANGED <<ss, cluster, informer, queued, freshCopy, prev, datamap,
                 applied, outcome>>

\* prepareCSIProviderParams: maps.Clone of a nil map is nil, and the write into
\* it panics; controller-runtime recovers and returns the panic as an error.
ParametersPanic(c) ==
  /\ Fetching(c)
  /\ spcCache[c] # None /\ ~spcCache[c].parameters
  /\ UNCHANGED ss
  /\ ReturnErr(c)
  /\ UNCHANGED <<cluster, faults, informer, applied>>

\* The provider is read now, the two objects were read from the caches.
Fetched(c) ==
  /\ Fetching(c)
  /\ spcCache[c] # None /\ spcCache[c].parameters

SyncNeeded(status, hash) ==
  HasFailedCondition(status.conditions) \/ hash # status.syncHash

AlreadyInSync(c) ==
  /\ Fetched(c)
  /\ ~SyncNeeded(copy[c].status, computeCurrentStateHash(store, spcCache[c], copy[c]))
  /\ UNCHANGED ss
  /\ ReturnNil(c, store)
  /\ UNCHANGED <<cluster, faults, informer, applied>>

\* The conditions set, in memory, before the secret is patched.
SuccessConditions(status, hash) ==
  CASE ConditionType(status) = ConditionTypeCreate ->
         SetStatusCondition(
           SetStatusCondition(status.conditions, ConditionTypeCreate, "CreateSuccessful"),
           ConditionTypeUpdate, "SecretUpToDate")
    [] ConditionType(status) # ConditionTypeCreate /\ hash # status.syncHash ->
         SetStatusCondition(status.conditions, ConditionTypeUpdate, "SecretUpToDate")
    [] OTHER -> status.conditions

StartSync(c) ==
  LET status == copy[c].status
      hash == computeCurrentStateHash(store, spcCache[c], copy[c])
  IN  /\ Fetched(c)
      /\ SyncNeeded(status, hash)
      /\ copy' = [copy EXCEPT ![c].status =
                    [conditions |-> SuccessConditions(status, hash),
                     syncHash |-> hash,
                     lastSuccessfulSyncTime |-> clock]]
      /\ prev' = [prev EXCEPT ![c] =
                    [syncHash |-> status.syncHash,
                     lastSuccessfulSyncTime |-> status.lastSuccessfulSyncTime]]
      /\ datamap' = [datamap EXCEPT ![c] = store]
      /\ pc' = [pc EXCEPT ![c] = "patch"]
      /\ UNCHANGED <<ss, cluster, faults, informer, queued, freshCopy, applied, outcome>>

\* What serverSidePatchSecret applies.
PatchData(c) == [owner |-> copy[c].uid, spec |-> copy[c].spec, data |-> datamap[c]]

Policies == INSTANCE Admission

\* Mutant: a Secret without an owner reference, where no policy asks for one.
Patched_NoOwner(c) ==
  /\ secret' = [PatchData(c) EXCEPT !.owner = None]
  /\ applied' = applied \cup {copy[c].status.syncHash}

\* The API server admits the patch and applies it.
Patched(c) ==
  /\ Policies!Admits(secret, PatchData(c))
  /\ secret' = PatchData(c)
  /\ applied' = applied \cup {copy[c].status.syncHash}

serverSidePatchSecret(c) ==
  /\ pc[c] = "patch"
  /\ Patched(c)
  /\ pc' = [pc EXCEPT ![c] = "commit"]
  /\ UNCHANGED <<ss, spc, store, nextUID, clock, changes, faults, informer, queued, copy,
                 freshCopy, prev, datamap, outcome>>

\* Mutant: the hash is not rolled back.
RolledBack_KeepsHash(c) ==
  [copy[c].status EXCEPT !.lastSuccessfulSyncTime = prev[c].lastSuccessfulSyncTime]

\* Mutant: the time is not rolled back.
RolledBack_KeepsTime(c) == [copy[c].status EXCEPT !.syncHash = prev[c].syncHash]

\* The status after the rollback of hash and time; the conditions stay.
RolledBack(c) ==
  [copy[c].status EXCEPT !.syncHash = prev[c].syncHash,
                         !.lastSuccessfulSyncTime = prev[c].lastSuccessfulSyncTime]

\* The API server does not admit the patch, and will not until the Secret that
\* is in the way is deleted or the spec is edited.
PatchRejected(c) ==
  /\ pc[c] = "patch"
  /\ ~Policies!Admits(secret, PatchData(c))
  /\ Fail(c, RolledBack(c), "ControllerPatchError")
  /\ UNCHANGED <<ss, cluster, faults, informer, queued, freshCopy, prev, datamap,
                 applied, outcome>>

\* The request is lost, or it is carried out and the response is lost.
PatchFails(c) ==
  /\ pc[c] = "patch"
  /\ Fault
  /\ \/ UNCHANGED <<secret, applied>>
     \/ Patched(c)
  /\ Fail(c, RolledBack(c), "ControllerPatchError")
  /\ UNCHANGED <<ss, spc, store, nextUID, clock, changes, informer, queued, freshCopy, prev,
                 datamap, outcome>>

\* The Status().Update of updateStatusConditions: its error is only logged.
ReportFailure(c) ==
  /\ pc[c] = "report"
  /\ StatusUpdateOk(c, copy[c].status) \/ StatusUpdateErr(c, copy[c].status)
  /\ ReturnErr(c)
  /\ UNCHANGED <<cluster, cache, spcCache, applied>>

\* Mutant: the status is written without regard to the resourceVersion.
UpdateStatus_ForcesWrite(c) ==
  /\ pc[c] = "commit" /\ ss # None
  /\ ss' = [ss EXCEPT !.status = copy[c].status]
  /\ StaleCaches
  /\ ReturnNil(c, datamap[c])
  /\ UNCHANGED <<cluster, faults, cache, spcCache, applied>>

\* The last Status().Update of Reconcile.
UpdateStatus(c) ==
  /\ pc[c] = "commit"
  /\ \/ StatusUpdateOk(c, copy[c].status) /\ ReturnNil(c, datamap[c])
     \/ StatusUpdateErr(c, copy[c].status) /\ ReturnErr(c)
  /\ UNCHANGED <<cluster, cache, spcCache, applied>>

ReconcileStep(c) ==
  \/ Reconcile(c)
  \/ initConditions(c)
  \/ ValidationFails(c)
  \/ SecretProviderClassNotFound(c)
  \/ FetchFails(c)
  \/ ParametersPanic(c)
  \/ AlreadyInSync(c)
  \/ StartSync(c)
  \/ serverSidePatchSecret(c)
  \/ PatchRejected(c)
  \/ PatchFails(c)
  \/ ReportFailure(c)
  \/ UpdateStatus(c)

-----------------------------------------------------------------------------
(* Watches, polling, crashes *)

processIfSecretChanged(old, new) == old.generation # new.generation

\* shouldReconcilePredicate on the event that takes the cache from old to new.
ShouldReconcile(old, new) ==
  CASE new = None -> FALSE                         \* DeleteFunc
    [] new # None /\ old = None -> TRUE            \* CreateFunc
    [] OTHER -> processIfSecretChanged(old, new)   \* UpdateFunc

Enqueue(c, b) == queued' = [queued EXCEPT ![c] = @ \/ b]

\* The watch delivers what happened since the cache was last current.  An
\* object that was recreated meanwhile arrives as a deletion and a creation.
WatchEvent(c) ==
  /\ c \notin freshCache
  /\ cache' = [cache EXCEPT ![c] = ss]
  /\ freshCache' = freshCache \cup {c}
  /\ Enqueue(c, IF ss # None /\ cache[c] # None /\ ss.uid # cache[c].uid
                THEN ShouldReconcile(None, ss)
                ELSE ShouldReconcile(cache[c], ss))
  /\ UNCHANGED <<ss, cluster, faults, spcCache, work, applied, outcome>>

\* A broken watch is replaced by a new list: an object that was recreated
\* meanwhile arrives as an update, because the name was in the cache.
RelistEvent(c) ==
  /\ Relists
  /\ ss # None /\ cache[c] # None /\ ss.uid # cache[c].uid
  /\ cache' = [cache EXCEPT ![c] = ss]
  /\ freshCache' = freshCache \cup {c}
  /\ Enqueue(c, ShouldReconcile(cache[c], ss))
  /\ UNCHANGED <<ss, cluster, faults, spcCache, work, applied, outcome>>

\* SecretProviderClasses are read through a cache, their events wake nobody.
SpcWatchEvent(c) ==
  /\ spcCache[c] # spc
  /\ spcCache' = [spcCache EXCEPT ![c] = spc]
  /\ UNCHANGED <<ss, cluster, faults, cache, freshCache, queued, work, applied, outcome>>

\* A tick of providerPollingFunc: every SecretSync of the cache is queued.
Poll(c) ==
  /\ PollingEnabled
  /\ cache[c] # None
  /\ ~queued[c]
  /\ Enqueue(c, TRUE)
  /\ UNCHANGED <<ss, cluster, faults, informer, work, applied, outcome>>

\* The process dies and is restarted with empty caches and an empty queue.
Crash(c) ==
  /\ Fault
  /\ UNCHANGED ss
  /\ Done(c)
  /\ cache' = [cache EXCEPT ![c] = None]
  /\ spcCache' = [spcCache EXCEPT ![c] = None]
  /\ freshCache' = freshCache \ {c}
  /\ queued' = [queued EXCEPT ![c] = FALSE]
  /\ outcome' = [outcome EXCEPT ![c] = None]
  /\ UNCHANGED <<cluster, applied>>

-----------------------------------------------------------------------------
(* Users, provider, garbage collector, time *)

Change == changes < MaxChanges /\ changes' = changes + 1

SecretSyncWritten == Change /\ freshCache' = {} /\ freshCopy' = {}

CreateSecretSync ==
  /\ ss = None
  /\ \E spec \in Specs :
       ss' = [uid |-> nextUID, generation |-> 1, spec |-> spec, status |-> EmptyStatus]
  /\ nextUID' = nextUID + 1
  /\ SecretSyncWritten
  /\ UNCHANGED <<spc, secret, store, clock, faults, cache, spcCache, queued, pc, copy,
                 prev, datamap, applied, outcome>>

EditSecretSync ==
  /\ ss # None
  /\ \E spec \in Specs \ {ss.spec} :
       ss' = [ss EXCEPT !.spec = spec, !.generation = @ + 1]
  /\ SecretSyncWritten
  /\ UNCHANGED <<spc, secret, store, nextUID, clock, faults, cache, spcCache, queued,
                 pc, copy, prev, datamap, applied, outcome>>

DeleteSecretSync ==
  /\ ss # None
  /\ ss' = None
  /\ SecretSyncWritten
  /\ UNCHANGED <<spc, secret, store, nextUID, clock, faults, cache, spcCache, queued,
                 pc, copy, prev, datamap, applied, outcome>>

OtherObjects == UNCHANGED <<ss, clock, faults, informer, queued, work, applied, outcome>>

CreateSecretProviderClass ==
  /\ spc = None
  /\ \E p \in HasParameters : spc' = [uid |-> nextUID, generation |-> 1, parameters |-> p]
  /\ nextUID' = nextUID + 1
  /\ Change /\ OtherObjects /\ UNCHANGED <<secret, store>>

EditSecretProviderClass ==
  /\ spc # None
  /\ \E p \in HasParameters : spc' = [spc EXCEPT !.generation = @ + 1, !.parameters = p]
  /\ Change /\ OtherObjects /\ UNCHANGED <<secret, store, nextUID>>

DeleteSecretProviderClass ==
  /\ spc # None
  /\ spc' = None
  /\ Change /\ OtherObjects /\ UNCHANGED <<secret, store, nextUID>>

RotateSecret ==
  /\ \E v \in Versions \ {store} : (RotatesBack \/ v > store) /\ store' = v
  /\ Change /\ OtherObjects /\ UNCHANGED <<spc, secret, nextUID>>

\* The Secret that belongs to the SecretSync, with these contents.
SecretOf(s, data) == [owner |-> s.uid, spec |-> s.spec, data |-> data]

\* The Secret of the SecretSync is not admitted as things stand.
Blocked == ss # None /\ ~Policies!Admits(secret, SecretOf(ss, store))

\* A Secret of the same name that the controller has not made.
CreateSecret ==
  /\ ForeignSecrets
  /\ secret = None
  /\ \E spec \in Specs, v \in Versions :
       secret' = [owner |-> None, spec |-> spec, data |-> v]
  /\ Change /\ OtherObjects /\ UNCHANGED <<spc, store, nextUID>>

DeleteSecret ==
  /\ secret # None
  /\ SecretDeletable \/ Blocked
  /\ secret' = None
  /\ Change /\ OtherObjects /\ UNCHANGED <<spc, store, nextUID>>

\* The owner reference of the Secret is all the deletion there is.
GarbageCollect ==
  /\ secret # None /\ secret.owner # None
  /\ ~(ss # None /\ ss.uid = secret.owner)
  /\ secret' = None
  /\ OtherObjects /\ UNCHANGED <<spc, store, nextUID, changes>>

Tick ==
  /\ clock < MaxClock
  /\ clock' = clock + 1
  /\ UNCHANGED <<ss, spc, secret, store, nextUID, changes, faults, informer, queued, work,
                 applied, outcome>>

-----------------------------------------------------------------------------
Environment ==
  \/ CreateSecretSync
  \/ EditSecretSync
  \/ DeleteSecretSync
  \/ CreateSecretProviderClass
  \/ EditSecretProviderClass
  \/ DeleteSecretProviderClass
  \/ RotateSecret
  \/ CreateSecret
  \/ DeleteSecret
  \/ GarbageCollect
  \/ Tick

Next ==
  \/ \E c \in Controllers :
       \/ ReconcileStep(c)
       \/ WatchEvent(c)
       \/ RelistEvent(c)
       \/ SpcWatchEvent(c)
       \/ Poll(c)
       \/ Crash(c)
  \/ Environment

Spec == Init /\ [][Next]_vars

\* What keeps running: the worker of each controller, its watches, its poll
\* ticker, and the garbage collector.  Users, the provider, faults and crashes
\* owe nothing.
Fairness ==
  /\ \A c \in Controllers :
       /\ WF_vars(ReconcileStep(c))
       /\ WF_vars(WatchEvent(c))
       /\ WF_vars(SpcWatchEvent(c))
       /\ WF_vars(Poll(c))
  /\ WF_vars(GarbageCollect)

FairSpec == Spec /\ Fairness

-----------------------------------------------------------------------------
(* Properties *)

\* The type invariant: objects, caches and working copies of Reconcile are what
\* the API server can hold, at every point where a reconcile can be.
TypeOK ==
  /\ ss \in SecretSyncs \cup {None}
  /\ spc \in SecretProviderClasses \cup {None}
  /\ secret \in Secrets \cup {None}
  /\ store \in Versions
  /\ nextUID \in UIDs
  /\ clock \in Times
  /\ changes \in 0 .. MaxChanges
  /\ faults \in 0 .. MaxFaults
  /\ cache \in [Controllers -> SecretSyncs \cup {None}]
  /\ freshCache \subseteq Controllers
  /\ spcCache \in [Controllers -> SecretProviderClasses \cup {None}]
  /\ queued \in [Controllers -> BOOLEAN]
  /\ pc \in [Controllers -> {"idle", "init", "sync", "patch", "report", "commit"}]
  /\ copy \in [Controllers -> SecretSyncs \cup {None}]
  /\ freshCopy \subseteq Controllers
  /\ prev \in [Controllers -> SyncRecords \cup {None}]
  /\ datamap \in [Controllers -> Versions \cup {None}]
  /\ applied \subseteq Hashes
  /\ outcome \in [Controllers -> Outcomes \cup {None}]

\* Controller c has nothing to do: no reconcile runs and none is queued.
Idle(c) == pc[c] = "idle" /\ ~queued[c]

Condition(s, type) == s.status.conditions[type]

\* The status says CreateSuccessful exactly when it records a hash.  Reconcile
\* chooses between creation and update by the hash alone (line 125), users read
\* the condition: no failure, retry, conflict or restart may set them apart.
CreatedIffHash ==
  ss # None => (   Condition(ss, ConditionTypeCreate) = "CreateSuccessful"
                <=> ss.status.syncHash # None)

\* A recorded hash is the hash of a state that reached the Secret: it is stored
\* before the patch in memory only, and the rollback undoes it (lines 191-204).
HashWasApplied == ss # None => ss.status.syncHash \in applied \cup {None}

\* lastSuccessfulSyncTime moves only when a reconcile whose patch was
\* acknowledged writes its status: never with the status of a failure.
SyncTimeOnlyAfterPatch ==
  [][ ss # None /\ ss' # None /\ ss.uid = ss'.uid
      /\ ss.status.lastSuccessfulSyncTime # ss'.status.lastSuccessfulSyncTime
      => \E c \in Controllers : pc[c] = "commit" /\ pc'[c] = "idle" ]_vars

\* A controller at rest has completed a reconcile of the generation it sees: no
\* event, error or restart between two reconciles loses the work (lines 404-428,
\* and every return of an error).
NoLostEvent ==
  \A c \in Controllers :
    Idle(c) /\ cache[c] # None =>
      /\ outcome[c] # None
      /\ outcome[c].uid = cache[c].uid
      /\ outcome[c].generation = cache[c].generation

\* "Secret contains last observed values": when the status says so and the
\* controllers are at rest, having reconciled this generation, the Secret has
\* the data that the last reconcile got from the provider.
SecretHasObservedData ==
  ss # None /\ Condition(ss, ConditionTypeUpdate) = "SecretUpToDate" =>
    \A c \in Controllers :
      (/\ \A d \in Controllers : Idle(d)
       /\ outcome[c] # None
       /\ outcome[c].uid = ss.uid /\ outcome[c].generation = ss.generation)
      => secret = SecretOf(ss, outcome[c].data)

\* The recorded sync of one object never goes back, to an earlier time or to an
\* earlier generation, whichever controller writes last.  For the time this takes
\* controllers whose clocks agree.
NoStatusRegress ==
  [][ (/\ ss # None /\ ss' # None /\ ss.uid = ss'.uid
       /\ ss.status.syncHash # None)
      => /\ ss'.status.syncHash # None
         /\ ss'.status.syncHash.ssGeneration >= ss.status.syncHash.ssGeneration
         /\ ss'.status.lastSuccessfulSyncTime >= ss.status.lastSuccessfulSyncTime ]_vars

\* What the contract sees of the SecretSync and of the Secret.
ObjectView ==
  IF ss = None THEN None
  ELSE [uid |-> ss.uid, generation |-> ss.generation, recorded |-> ss.status.syncHash,
        time |-> ss.status.lastSuccessfulSyncTime]

SecretView ==
  IF secret = None THEN None ELSE [owner |-> secret.owner, data |-> secret.data]

Contract == INSTANCE SyncContract WITH object <- ObjectView, secret <- SecretView

\* The controllers, their stale caches, retries, lost answers and restarts
\* implement the contract: what the status records was applied, for this object
\* and the generation it had when it was recorded, and a Secret that a user made
\* is never written (lines 183-217).
ImplementsContract == Contract!Spec

\* A SecretSync that can be synchronised.
Serviceable ==
  /\ ss # None /\ validateLabelsAnnotations(ss.spec) = None
  /\ spc # None /\ spc.parameters
  /\ ~Blocked

\* A SecretSync that stays serviceable is synchronised in the end: the Secret
\* has the provider's data and the status records the state that was applied,
\* whatever failed, crashed, rotated or was edited on the way.
Converges ==
  <>[]Serviceable =>
    <>[](/\ ss # None /\ spc # None
         /\ secret = SecretOf(ss, store)
         /\ ss.status.syncHash = computeCurrentStateHash(store, spc, ss))

\* The Secret of a SecretSync that was deleted goes away, and no reconcile that
\* was under way brings it back for good (the owner reference, line 339).
OrphanCollected == <>[](ss = None) => <>[](secret = None)

\* The reason with which a SecretSync must fail as things stand.
MustFail(reason) ==
  /\ ss # None
  /\ \/ reason = validateLabelsAnnotations(ss.spec)
     \/ /\ validateLabelsAnnotations(ss.spec) = None /\ spc = None
        /\ reason = "SecretProviderClassMisconfigured"
     \/ /\ validateLabelsAnnotations(ss.spec) = None
        /\ spc # None /\ spc.parameters /\ Blocked
        /\ reason = "ControllerPatchError"

\* A SecretSync that cannot be synchronised says why, in the condition of the
\* phase it is in, although errors of that status write are only logged.
ReportsFailure ==
  \A reason \in FailedConditionsTriggeringRetry :
    <>[]MustFail(reason) =>
      <>[](ss # None /\ Condition(ss, ConditionType(ss.status)) = reason)

-----------------------------------------------------------------------------
(* What the documentation says and the code does not do *)

\* "The status is set to True if the secret was created or updated successfully"
\* (api/v1alpha1/secretsync_types.go:143): SecretUpdated is True only when some
\* sync was recorded.
UpdatedImpliesSynced ==
  ss # None /\ Condition(ss, ConditionTypeUpdate) = "SecretUpToDate"
    => ss.status.syncHash # None

\* The same sentence after a success: a reconcile that has patched the Secret,
\* written its status and returned nil leaves no failed condition behind.  (A
\* return with an error would queue the name, a crash would clear the outcome.)
SuccessClearsFailure ==
  [][ \A c \in Controllers :
        (/\ pc[c] = "commit" /\ pc'[c] = "idle"
         /\ ~queued'[c] /\ outcome'[c] # None)
        => ~HasFailedCondition(ss'.status.conditions) ]_vars

\* "The status is set to False if the secret create or update failed" (the same
\* file, line 144), for a SecretProviderClass without parameters.
ReportsMissingParameters ==
  <>[](/\ ss # None /\ validateLabelsAnnotations(ss.spec) = None
       /\ spc # None /\ ~spc.parameters)
    => <>(ss # None /\ HasFailedCondition(ss.status.conditions))
=============================================================================
