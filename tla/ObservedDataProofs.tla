------------------------- MODULE ObservedDataProofs -------------------------
(***************************************************************************)
(* "Secret contains last observed values", for a single controller (one    *)
(* replica, or leader election), a provider that does not go back to       *)
(* earlier contents, and a Secret that nobody deletes unless it is in the  *)
(* way of the SecretSync, whatever the other constants are.                *)
(*                                                                         *)
(* The three assumptions are needed, because Reconcile never reads the     *)
(* Secret.  The run rotated_back shows it for the provider; a Secret that  *)
(* a user deletes is missing until the hash changes; and a second          *)
(* controller with an old cache can write over what the first has written. *)
(* Nothing is assumed of relists or of Secrets that users make, and the    *)
(* condition in the status, which the property asks for, is not used.      *)
(***************************************************************************)
EXTENDS EventProofs, SyncContractProofs

\* --leader-elect, or a deployment of one replica (cmd/main.go, lines 50 and 95).
OneController == \E c : Controllers = {c}

-----------------------------------------------------------------------------
(* What a step can do, as far as the argument goes *)

KeepsObject ==
  ss' = ss \/ (ss # None /\ ss' # None /\ Same(ss', ss) /\ ss'.spec = ss.spec)
KeepsCopy(c) == Same(copy'[c], copy[c]) /\ copy'[c].spec = copy[c].spec

\* A reconcile begins with what the cache has.
Starts(c) ==
  /\ pc[c] = "idle" /\ pc'[c] \in {"init", "sync"}
  /\ cache[c] # None /\ copy'[c] = cache[c]
  /\ UNCHANGED <<ss, secret, store, nextUID, applied, cache, outcome>>

\* It goes on, or fails without having written the Secret.
Works(c) ==
  /\ pc[c] # "idle" /\ pc'[c] \in {"sync", "report"}
  /\ KeepsCopy(c) /\ KeepsObject
  /\ UNCHANGED <<secret, store, nextUID, applied, cache, outcome>>

\* It has fetched data to write.
Fetches(c) ==
  /\ pc[c] = "sync" /\ pc'[c] = "patch" /\ datamap'[c] = store
  /\ KeepsCopy(c)
  /\ UNCHANGED <<ss, secret, store, nextUID, applied, cache, outcome>>

\* It writes the Secret, and may not come to know.
Patches(c) ==
  /\ pc[c] = "patch" /\ Patched(c)
  /\ \/ pc'[c] = "commit" /\ copy'[c] = copy[c] /\ datamap'[c] = datamap[c]
     \/ pc'[c] = "report" /\ KeepsCopy(c)
  /\ UNCHANGED <<ss, store, nextUID, cache, outcome>>

\* It returns an error.
GivesUp(c) ==
  /\ pc[c] # "idle" /\ pc'[c] = "idle" /\ queued'[c]
  /\ KeepsObject
  /\ UNCHANGED <<secret, store, nextUID, applied, cache, outcome>>

\* It returns nil: after a sync, or because the recorded hash is the current one.
Completes(c) ==
  /\ pc[c] # "idle" /\ pc'[c] = "idle"
  /\ outcome'[c].uid = copy[c].uid /\ outcome'[c].generation = copy[c].generation
  /\ \/ pc[c] = "commit" /\ outcome'[c].data = datamap[c]
     \/ LET h == copy[c].status.syncHash
        IN  /\ pc[c] = "sync" /\ outcome'[c].data = store
            /\ h \in Hashes
            /\ h.ssUID = copy[c].uid /\ h.ssGeneration = copy[c].generation /\ h.data = store
  /\ KeepsObject
  /\ UNCHANGED <<secret, store, nextUID, applied, cache>>

\* The cache or the queue is fed.
Hears(c) ==
  /\ cache'[c] = cache[c] \/ cache'[c] = ss
  /\ queued[c] => queued'[c]
  /\ UNCHANGED <<ss, secret, store, nextUID, applied, pc, copy, datamap, outcome>>

Dies(c) ==
  /\ pc'[c] = "idle" /\ cache'[c] = None /\ outcome'[c] = None
  /\ UNCHANGED <<ss, secret, store, nextUID, applied>>

ControllerMoves(c) ==
  Starts(c) \/ Works(c) \/ Fetches(c) \/ Patches(c) \/ GivesUp(c) \/ Completes(c)
  \/ Hears(c) \/ Dies(c)

\* The SecretSync is created or edited.
Created == ss = None /\ ss' # None /\ ss'.uid = nextUID /\ nextUID' = nextUID + 1
Edited == /\ ss # None /\ ss' # None /\ ss'.uid = ss.uid /\ ss'.generation = ss.generation + 1
          /\ UNCHANGED nextUID

\* A Secret is made by a user, or goes away because it is in the way of the
\* SecretSync or because its owner has gone.
SecretAppears == secret = None /\ secret' # None /\ secret'.owner = None
SecretGoes ==
  /\ secret # None /\ secret' = None
  /\ Blocked \/ (secret.owner # None /\ ~(ss # None /\ ss.uid = secret.owner))

EnvironmentMoves ==
  /\ UNCHANGED <<applied, cache, pc, copy, datamap, outcome, queued>>
  /\ \/ (Created \/ Edited \/ (ss' = None /\ UNCHANGED nextUID)) /\ UNCHANGED <<secret, store>>
     \/ /\ ss' = ss /\ nextUID' >= nextUID /\ store' >= store
        /\ UNCHANGED secret \/ SecretAppears \/ SecretGoes

\* A write of the status leaves the object, its generation and its spec alone.
LEMMA StatusUpdateKeeps ==
  ASSUME TypeInv, NEW c \in Controllers, NEW st \in Statuses,
         StatusUpdateOk(c, st) \/ StatusUpdateErr(c, st)
  PROVE  KeepsObject
  <1>1. c \in freshCopy => ss \in SecretSyncs /\ ss # None
    BY DEF TypeInv, TypeOK, PhaseOK
  <1>2. CASE c \in freshCopy /\ ss' = [ss EXCEPT !.status = st]
    <2>1. ss' \in SecretSyncs /\ Same(ss', ss) /\ ss'.spec = ss.spec
      BY <1>1, <1>2, StatusReplaced DEF Same
    <2>2. ss' # None
      BY <2>1, NoneAssumption
    <2> QED BY <1>1, <1>2, <2>1, <2>2 DEF KeepsObject
  <1>3. CASE ss' = ss
    BY <1>3 DEF KeepsObject
  <1> QED BY <1>2, <1>3 DEF StatusUpdateOk, StatusUpdateErr

\* A step of the controller is one of these.
LEMMA ControllerKinds ==
  ASSUME TypeInv, TypeInv', NEW c \in Controllers,
         \/ ReconcileStep(c) \/ WatchEvent(c) \/ RelistEvent(c) \/ SpcWatchEvent(c)
         \/ Poll(c) \/ Crash(c)
  PROVE  ControllerMoves(c)
  <1> USE DEF ControllerMoves
  <1>1. CASE Reconcile(c)
    BY <1>1 DEF Reconcile, Starts, cluster, informer, TypeInv, TypeOK
  <1>2. ASSUME NEW st \in Statuses, pc[c] # "idle", copy' = [copy EXCEPT ![c].status = st]
        PROVE  KeepsCopy(c)
    <2>1. copy[c] \in SecretSyncs
      BY <1>2, CopyType
    <2>2. copy'[c] = [copy[c] EXCEPT !.status = st]
      BY <1>2 DEF TypeInv, TypeOK
    <2> QED BY <2>1, <2>2, StatusReplaced DEF KeepsCopy, Same
  <1>3. ASSUME ReturnErr(c), pc[c] # "idle", KeepsObject,
               UNCHANGED <<secret, store, nextUID, applied, cache>>
        PROVE  GivesUp(c)
    BY <1>3 DEF GivesUp, ReturnErr, Done, TypeInv, TypeOK
  <1>4. CASE initConditions(c)
    <2> DEFINE st == [copy[c].status EXCEPT !.conditions = InitialConditions(@)]
    <2>1. copy[c].status \in Statuses /\ pc[c] = "init"
      BY <1>4, CopyType DEF initConditions
    <2>2. st \in Statuses
      BY <2>1, StatusFields, InitialConditionsType DEF Statuses
    <2>3. \/ /\ StatusUpdateOk(c, st) /\ copy' = [copy EXCEPT ![c].status = st]
             /\ pc' = [pc EXCEPT ![c] = "sync"] /\ outcome' = outcome
          \/ StatusUpdateErr(c, st) /\ ReturnErr(c)
      BY <1>4 DEF initConditions
    <2>4. UNCHANGED <<secret, store, nextUID, applied, cache>>
      BY <1>4 DEF initConditions, cluster
    <2> HIDE DEF st
    <2>5. KeepsObject
      BY <2>2, <2>3, StatusUpdateKeeps
    <2>6. CASE StatusUpdateErr(c, st) /\ ReturnErr(c)
      BY <1>3, <2>1, <2>4, <2>5, <2>6
    <2>7. CASE /\ StatusUpdateOk(c, st) /\ copy' = [copy EXCEPT ![c].status = st]
               /\ pc' = [pc EXCEPT ![c] = "sync"] /\ outcome' = outcome
      <3>1. KeepsCopy(c) /\ pc'[c] = "sync"
        BY <1>2, <2>1, <2>2, <2>7 DEF TypeInv, TypeOK
      <3> QED BY <2>1, <2>4, <2>5, <2>7, <3>1 DEF Works
    <2> QED BY <2>3, <2>6, <2>7
  <1>5. ASSUME NEW st \in Statuses, NEW reason \in Reasons, pc[c] # "idle", Fail(c, st, reason)
        PROVE  KeepsCopy(c) /\ pc'[c] = "report"
    <2>1. FailStatus(st, reason) \in Statuses
      BY FailStatusType
    <2>2. copy' = [copy EXCEPT ![c].status = FailStatus(st, reason)]
      BY <1>5 DEF Fail, FailStatus
    <2>3. pc'[c] = "report"
      BY <1>5 DEF Fail, TypeInv, TypeOK
    <2> QED BY <1>2, <1>5, <2>1, <2>2, <2>3
  <1>6. CASE ValidationFails(c) \/ SecretProviderClassNotFound(c) \/ FetchFails(c)
    <2>1. /\ pc[c] = "sync"
          /\ UNCHANGED <<ss, secret, store, nextUID, applied, cache, outcome>>
          /\ \E reason \in Reasons : Fail(c, copy[c].status, reason)
      BY <1>6, ValidationReason, FailureReasons
      DEF ValidationFails, SecretProviderClassNotFound, FetchFails, Fetching, informer, cluster
    <2>2. KeepsCopy(c) /\ pc'[c] = "report"
      BY <1>5, <2>1, CopyType
    <2> QED BY <2>1, <2>2 DEF Works, KeepsObject
  <1>7. CASE ParametersPanic(c)
    BY <1>3, <1>7 DEF ParametersPanic, Fetching, KeepsObject, cluster, informer
  <1>8. CASE AlreadyInSync(c)
    <2> DEFINE h == computeCurrentStateHash(store, spcCache[c], copy[c])
    <2>1. /\ pc[c] = "sync" /\ spcCache[c] # None /\ h = copy[c].status.syncHash
          /\ UNCHANGED <<ss, secret, store, nextUID, applied, cache>> /\ ReturnNil(c, store)
      BY <1>8 DEF AlreadyInSync, Fetched, Fetching, SyncNeeded, cluster, informer
    <2>2. copy[c] \in SecretSyncs /\ store \in Versions /\ spcCache[c] \in SecretProviderClasses
      BY <2>1, CopyType DEF TypeInv, TypeOK
    <2>3. h \in Hashes /\ h.ssGeneration = copy[c].generation /\ h.ssUID = copy[c].uid
          /\ h.data = store
      BY <2>2, HashComputed
    <2>4. /\ pc'[c] = "idle" /\ outcome'[c].uid = copy[c].uid
          /\ outcome'[c].generation = copy[c].generation /\ outcome'[c].data = store
      BY <2>1 DEF ReturnNil, Done, TypeInv, TypeOK
    <2> HIDE DEF h
    <2> QED BY <2>1, <2>3, <2>4 DEF Completes, KeepsObject
  <1>9. CASE StartSync(c)
    <2> DEFINE hash == computeCurrentStateHash(store, spcCache[c], copy[c])
               st == [conditions |-> SuccessConditions(copy[c].status, hash),
                      syncHash |-> hash, lastSuccessfulSyncTime |-> clock]
    <2>1. pc[c] = "sync" /\ spcCache[c] \in SecretProviderClasses /\ store \in Versions
      BY <1>9 DEF StartSync, Fetched, Fetching, TypeInv, TypeOK
    <2>2. copy[c] \in SecretSyncs /\ copy[c].status \in Statuses
      BY <2>1, CopyType
    <2>3. hash \in Hashes
      BY <2>1, <2>2, HashComputed
    <2>4. st \in Statuses
      BY <2>2, <2>3, SuccessConditionsType DEF Statuses, TypeInv, TypeOK
    <2>5. /\ copy' = [copy EXCEPT ![c].status = st] /\ pc' = [pc EXCEPT ![c] = "patch"]
          /\ datamap' = [datamap EXCEPT ![c] = store]
          /\ UNCHANGED <<ss, secret, store, nextUID, applied, cache, outcome>>
      BY <1>9 DEF StartSync, informer, cluster
    <2> HIDE DEF hash, st
    <2>6. KeepsCopy(c) /\ pc'[c] = "patch" /\ datamap'[c] = store
      BY <1>2, <2>1, <2>4, <2>5 DEF TypeInv, TypeOK
    <2> QED BY <2>1, <2>5, <2>6 DEF Fetches
  <1>10. CASE serverSidePatchSecret(c)
    BY <1>10 DEF serverSidePatchSecret, Patches, informer, TypeInv, TypeOK
  <1>11. CASE PatchRejected(c) \/ PatchFails(c)
    <2>1. /\ pc[c] = "patch" /\ Fail(c, RolledBack(c), "ControllerPatchError")
          /\ UNCHANGED <<ss, store, nextUID, cache, outcome>>
          /\ Patched(c) \/ UNCHANGED <<secret, applied>>
      BY <1>11 DEF PatchRejected, PatchFails, informer, cluster
    <2>2. copy[c].status \in Statuses /\ prev[c] \in SyncRecords
      BY <2>1, CopyType DEF TypeInv, TypeOK, PhaseOK
    <2>3. RolledBack(c) \in Statuses
      BY <2>2 DEF RolledBack, Statuses, SyncRecords
    <2>4. KeepsCopy(c) /\ pc'[c] = "report"
      BY <1>5, <2>1, <2>3, FailureReasons
    <2> QED BY <2>1, <2>4 DEF Works, Patches, KeepsObject
  <1>12. CASE ReportFailure(c) \/ UpdateStatus(c)
    <2>1. /\ pc[c] \in {"report", "commit"}
          /\ StatusUpdateOk(c, copy[c].status) \/ StatusUpdateErr(c, copy[c].status)
          /\ UNCHANGED <<secret, store, nextUID, applied, cache>>
          /\ ReturnErr(c) \/ (pc[c] = "commit" /\ ReturnNil(c, datamap[c]))
      BY <1>12 DEF ReportFailure, UpdateStatus, cluster
    <2>2. KeepsObject
      BY <2>1, CopyType, StatusUpdateKeeps
    <2>3. CASE ReturnErr(c)
      BY <1>3, <2>1, <2>2, <2>3
    <2>4. CASE pc[c] = "commit" /\ ReturnNil(c, datamap[c])
      <3>1. /\ pc'[c] = "idle" /\ outcome'[c].uid = copy[c].uid
            /\ outcome'[c].generation = copy[c].generation /\ outcome'[c].data = datamap[c]
        BY <2>4 DEF ReturnNil, Done, TypeInv, TypeOK
      <3> QED BY <2>1, <2>2, <2>4, <3>1 DEF Completes
    <2> QED BY <2>1, <2>3, <2>4
  <1>13. CASE WatchEvent(c) \/ RelistEvent(c) \/ SpcWatchEvent(c) \/ Poll(c)
    BY <1>13 DEF WatchEvent, RelistEvent, SpcWatchEvent, Poll, Enqueue, Hears, cluster,
                 informer, work, TypeInv, TypeOK
  <1>14. CASE Crash(c)
    BY <1>14 DEF Crash, Done, Dies, cluster, TypeInv, TypeOK
  <1> QED
    BY <1>1, <1>4, <1>6, <1>7, <1>8, <1>9, <1>10, <1>11, <1>12, <1>13, <1>14
    DEF ReconcileStep

\* So is a step of the rest.
LEMMA EnvironmentKinds ==
  ASSUME ~RotatesBack, ~SecretDeletable, TypeInv, TypeInv', Environment \/ UNCHANGED vars
  PROVE  EnvironmentMoves
  <1>1. nextUID \in Nat /\ store \in Nat /\ store' \in Nat
    BY VersionsAssumption DEF TypeInv, TypeOK, UIDs
  <1>2. UNCHANGED <<applied, cache, pc, copy, datamap, outcome, queued>>
    BY DEF Environment, CreateSecretSync, EditSecretSync, DeleteSecretSync,
           CreateSecretProviderClass, EditSecretProviderClass, DeleteSecretProviderClass,
           RotateSecret, CreateSecret, DeleteSecret, GarbageCollect, Tick, OtherObjects,
           informer, work, vars
  <1> USE DEF EnvironmentMoves
  <1>3. CASE CreateSecretSync
    <2>1. PICK spec \in Specs :
            ss' = [uid |-> nextUID, generation |-> 1, spec |-> spec, status |-> EmptyStatus]
      BY <1>3 DEF CreateSecretSync
    <2>2. ss' \in SecretSyncs \cup {None} /\ NoConditions \in [ConditionTypes -> Reasons \cup {None}]
      BY DEF TypeInv, TypeOK, NoConditions
    <2>3. ss' \in SecretSyncs
      BY <1>1, <2>1, <2>2 DEF SecretSyncs, Statuses, EmptyStatus, UIDs, Generations
    <2>4. ss' # None
      BY <2>3, NoneAssumption
    <2> QED BY <1>2, <1>3, <2>1, <2>4 DEF CreateSecretSync, Created
  <1>4. CASE EditSecretSync
    <2>1. ss \in SecretSyncs /\ ss # None
      BY <1>4 DEF EditSecretSync, TypeInv, TypeOK
    <2>2. PICK spec \in Specs : ss' = [ss EXCEPT !.spec = spec, !.generation = @ + 1]
      BY <1>4 DEF EditSecretSync
    <2>3. ss.generation + 1 \in Generations
      BY <2>1, SecretSyncFields DEF Generations
    <2> DEFINE g == ss.generation + 1
    <2>4. ss' = [ss EXCEPT !.spec = spec, !.generation = g]
      BY <2>2
    <2> HIDE DEF g
    <2>5. ss' \in SecretSyncs /\ ss'.uid = ss.uid /\ ss'.generation = g
      BY <2>1, <2>3, <2>4 DEF SecretSyncs, g
    <2>6. ss' # None
      BY <2>5, NoneAssumption
    <2> QED BY <1>2, <1>4, <2>1, <2>5, <2>6 DEF EditSecretSync, Edited, g
  <1>5. CASE DeleteSecretSync
    BY <1>2, <1>5 DEF DeleteSecretSync
  <1>6. CASE \/ CreateSecretProviderClass \/ EditSecretProviderClass
             \/ DeleteSecretProviderClass \/ Tick \/ UNCHANGED vars
    <2>1. UNCHANGED <<ss, secret, store>> /\ (nextUID' = nextUID \/ nextUID' = nextUID + 1)
      BY <1>6
      DEF CreateSecretProviderClass, EditSecretProviderClass, DeleteSecretProviderClass, Tick,
          OtherObjects, vars, cluster
    <2> QED BY <1>1, <1>2, <2>1
  <1>7. CASE RotateSecret
    <2>1. store' > store /\ UNCHANGED <<ss, secret, nextUID>>
      BY <1>7 DEF RotateSecret, OtherObjects
    <2> QED BY <1>1, <1>2, <2>1
  <1>8. CASE CreateSecret
    <2>1. PICK spec \in Specs, v \in Versions : secret' = [owner |-> None, spec |-> spec, data |-> v]
      BY <1>8 DEF CreateSecret
    <2>2. secret' \in Secrets
      BY <2>1 DEF Secrets
    <2>3. secret' # None
      BY <2>2, NoneAssumption
    <2> QED BY <1>1, <1>2, <1>8, <2>1, <2>3 DEF CreateSecret, SecretAppears, OtherObjects
  <1>9. CASE DeleteSecret \/ GarbageCollect
    BY <1>1, <1>2, <1>9 DEF DeleteSecret, GarbageCollect, SecretGoes, OtherObjects
  <1> QED
    BY <1>3, <1>4, <1>5, <1>6, <1>7, <1>8, <1>9 DEF Environment

-----------------------------------------------------------------------------
(* The generations of an object *)

\* x is of an object as old as y's, or older, and of a generation not later.
Before(x, y) == x.uid < y.uid \/ (x.uid = y.uid /\ x.generation <= y.generation)

\* The object and the generation that a hash was computed for.
Stamp(h) == [uid |-> h.ssUID, generation |-> h.ssGeneration]

\* x is the SecretSync as it was at some time.
Past(x) == ss # None => Before(x, ss) /\ (Same(x, ss) => x.spec = ss.spec)

\* Caches, working copies, hashes and outcomes are about the past, and a working
\* copy is not younger than the cache.
LineInv ==
  /\ ss # None => \A h \in applied : Before(Stamp(h), ss)
  /\ \A c \in Controllers :
       /\ cache[c] # None => Past(cache[c])
       /\ pc[c] # "idle" => Past(copy[c])
       /\ pc[c] # "idle" /\ cache[c] # None => Before(copy[c], cache[c])
       /\ outcome[c] # None => /\ outcome[c].uid < nextUID
                               /\ ss # None => Before(outcome[c], ss)

\* What there is to compare has numbers.
LEMMA Numbers ==
  ASSUME TypeInv, NEW c \in Controllers
  PROVE  /\ nextUID \in Nat /\ store \in Nat
         /\ ss # None => ss.uid \in Nat /\ ss.generation \in Nat
         /\ cache[c] # None => cache[c].uid \in Nat /\ cache[c].generation \in Nat
         /\ pc[c] # "idle" => copy[c].uid \in Nat /\ copy[c].generation \in Nat
         /\ outcome[c] # None => outcome[c].uid \in Nat /\ outcome[c].generation \in Nat
         /\ \A h \in applied : /\ h.ssUID \in Nat /\ h.ssGeneration \in Nat /\ h.data \in Nat
                               /\ Stamp(h).uid = h.ssUID /\ Stamp(h).generation = h.ssGeneration
         /\ pc[c] \in {"patch", "commit"} => datamap[c] \in Nat
         /\ secret # None => secret.data \in Nat
  <1>1. \A s \in SecretSyncs : s.uid \in Nat /\ s.generation \in Nat
    BY SecretSyncFields DEF UIDs, Generations
  <1>2. pc[c] # "idle" => copy[c] \in SecretSyncs
    BY CopyType
  <1>3. \A o \in Outcomes : o.uid \in Nat /\ o.generation \in Nat
    BY DEF Outcomes, UIDs, Generations
  <1>4. \A h \in Hashes : h.ssUID \in Nat /\ h.ssGeneration \in Nat /\ h.data \in Nat
    BY VersionsAssumption DEF Hashes, UIDs, Generations
  <1>5. \A s \in Secrets : s.data \in Nat
    BY VersionsAssumption DEF Secrets
  <1>6. /\ nextUID \in Nat /\ store \in Nat /\ applied \subseteq Hashes
        /\ ss \in SecretSyncs \cup {None} /\ secret \in Secrets \cup {None}
        /\ cache[c] \in SecretSyncs \cup {None} /\ outcome[c] \in Outcomes \cup {None}
        /\ pc[c] \in {"patch", "commit"} => datamap[c] \in Versions
    BY VersionsAssumption DEF TypeInv, TypeOK, PhaseOK, UIDs
  <1> QED BY <1>1, <1>2, <1>3, <1>4, <1>5, <1>6, VersionsAssumption DEF Stamp

\* The hash that a reconcile is about to record is of its own object.
LEMMA OwnStamp ==
  ASSUME SyncInv, OwnerInv, NEW c \in Controllers, pc[c] = "patch"
  PROVE  LET h == copy[c].status.syncHash
         IN  /\ h.ssUID = copy[c].uid /\ h.ssGeneration = copy[c].generation
             /\ h.data = datamap[c]
             /\ Stamp(h).uid = copy[c].uid /\ Stamp(h).generation = copy[c].generation
  BY DEF SyncInv, Ahead, OwnerInv, OwnObject, Stamp

\* The steps of the controller preserve LineInv.
LEMMA LineControllerStep ==
  ASSUME TypeInv, TypeInv', SyncInv, OwnerInv, LineInv,
         NEW c, Controllers = {c}, ControllerMoves(c)
  PROVE  LineInv'
  <1> DEFINE Line ==
        /\ ss # None => \A h \in applied : Before(Stamp(h), ss)
        /\ cache[c] # None => Past(cache[c])
        /\ pc[c] # "idle" => Past(copy[c])
        /\ pc[c] # "idle" /\ cache[c] # None => Before(copy[c], cache[c])
        /\ outcome[c] # None => /\ outcome[c].uid < nextUID
                                /\ ss # None => Before(outcome[c], ss)
  <1>1. Line
    BY DEF LineInv
  <1> SUFFICES Line'
    BY DEF LineInv
  <1>2. /\ nextUID \in Nat
        /\ ss # None => ss.uid \in Nat /\ ss.generation \in Nat
        /\ cache[c] # None => cache[c].uid \in Nat /\ cache[c].generation \in Nat
        /\ pc[c] # "idle" => copy[c].uid \in Nat /\ copy[c].generation \in Nat
        /\ outcome[c] # None => outcome[c].uid \in Nat /\ outcome[c].generation \in Nat
    BY Numbers
  <1>3. pc[c] # "idle" => copy[c].uid < nextUID
    BY DEF OwnerInv, OwnObject
  <1> USE DEF Before, Past, Same
  <1>4. CASE Starts(c)
    BY <1>1, <1>2, <1>4 DEF Starts
  <1>5. CASE Works(c)
    BY <1>1, <1>2, <1>5 DEF Works, KeepsCopy, KeepsObject
  <1>6. CASE Fetches(c)
    BY <1>1, <1>2, <1>6 DEF Fetches, KeepsCopy
  <1>7. CASE Patches(c)
    <2> DEFINE h == copy[c].status.syncHash
    <2>1. pc[c] = "patch" /\ applied' = applied \cup {h}
      BY <1>7 DEF Patches, Patched
    <2>2. Stamp(h).uid = copy[c].uid /\ Stamp(h).generation = copy[c].generation
      BY <2>1, OwnStamp
    <2> HIDE DEF h
    <2>3. ss # None => \A g \in applied' : Before(Stamp(g), ss)
      BY <1>1, <2>1, <2>2
    <2> QED BY <1>1, <1>2, <1>7, <2>3 DEF Patches, KeepsCopy
  <1>8. CASE GivesUp(c)
    BY <1>1, <1>2, <1>8 DEF GivesUp, KeepsObject
  <1>9. CASE Completes(c)
    BY <1>1, <1>2, <1>3, <1>9 DEF Completes, KeepsObject
  <1>10. CASE Hears(c)
    BY <1>1, <1>2, <1>10 DEF Hears
  <1>11. CASE Dies(c)
    BY <1>1, <1>2, <1>11 DEF Dies
  <1> QED
    BY <1>4, <1>5, <1>6, <1>7, <1>8, <1>9, <1>10, <1>11 DEF ControllerMoves

\* So do the others.
LEMMA LineEnvironmentStep ==
  ASSUME TypeInv, TypeInv', OwnerInv, LineInv, EnvironmentMoves
  PROVE  LineInv'
  <1>1. UNCHANGED <<applied, cache, pc, copy, outcome>>
    BY DEF EnvironmentMoves
  <1>2. \/ Created \/ Edited \/ (ss' = None /\ UNCHANGED nextUID)
        \/ (ss' = ss /\ nextUID' >= nextUID)
    BY Zenon DEF EnvironmentMoves
  <1>3. \A h \in applied : h.ssUID < nextUID
    BY DEF OwnerInv
  <1>4. nextUID \in Nat /\ nextUID' \in Nat /\ (ss # None => ss.uid \in Nat /\ ss.generation \in Nat)
    BY SecretSyncFields DEF TypeInv, TypeOK, UIDs, Generations
  <1>5. ASSUME NEW x, x.uid \in Nat, x.generation \in Nat, x.uid < nextUID,
               ss # None => Before(x, ss)
        PROVE  /\ x.uid < nextUID'
               /\ ss' # None => /\ Before(x, ss')
                                /\ Same(x, ss') => ss' = ss
    <2>1. CASE Created
      BY <1>5, <1>4, <2>1 DEF Created, Before, Same
    <2>2. CASE Edited
      BY <1>5, <1>4, <2>2 DEF Edited, Before, Same
    <2>3. CASE ss' = None /\ UNCHANGED nextUID
      BY <1>5, <2>3
    <2>4. CASE ss' = ss /\ nextUID' >= nextUID
      BY <1>5, <1>4, <2>4
    <2> QED BY <1>2, <2>1, <2>2, <2>3, <2>4, Zenon
  <1>6. ss' # None => \A h \in applied' : Before(Stamp(h), ss')
    <2> SUFFICES ASSUME ss' # None, NEW h \in applied PROVE Before(Stamp(h), ss')
      BY <1>1
    <2>1. h.ssUID \in Nat /\ h.ssGeneration \in Nat
      BY DEF TypeInv, TypeOK, Hashes, UIDs, Generations
    <2>2. /\ Stamp(h).uid \in Nat /\ Stamp(h).generation \in Nat
          /\ Stamp(h).uid < nextUID /\ (ss # None => Before(Stamp(h), ss))
      BY <1>3, <2>1 DEF Stamp, LineInv
    <2> QED BY <1>5, <1>4, <2>2
  <1>7. ASSUME NEW c \in Controllers
        PROVE  /\ cache'[c] # None => Past(cache[c])'
               /\ pc'[c] # "idle" => Past(copy[c])'
               /\ pc'[c] # "idle" /\ cache'[c] # None => Before(copy[c], cache[c])'
               /\ outcome'[c] # None => /\ outcome'[c].uid < nextUID'
                                        /\ ss' # None => Before(outcome'[c], ss')
    <2>1. /\ cache[c] # None => cache[c].uid \in Nat /\ cache[c].generation \in Nat
          /\ pc[c] # "idle" => copy[c].uid \in Nat /\ copy[c].generation \in Nat
          /\ outcome[c] # None => outcome[c].uid \in Nat /\ outcome[c].generation \in Nat
      BY Numbers
    <2>2. /\ cache[c] # None => cache[c].uid < nextUID /\ Past(cache[c])
          /\ pc[c] # "idle" => copy[c].uid < nextUID /\ Past(copy[c])
          /\ pc[c] # "idle" /\ cache[c] # None => Before(copy[c], cache[c])
          /\ outcome[c] # None => /\ outcome[c].uid < nextUID
                                  /\ ss # None => Before(outcome[c], ss)
      BY DEF LineInv, OwnerInv, OwnObject
    <2>3. cache[c] # None => (ss' # None => Before(cache[c], ss') /\ (Same(cache[c], ss') => ss' = ss))
      BY <1>5, <1>4, <2>1, <2>2 DEF Past
    <2>4. pc[c] # "idle" => (ss' # None => Before(copy[c], ss') /\ (Same(copy[c], ss') => ss' = ss))
      BY <1>5, <1>4, <2>1, <2>2 DEF Past
    <2>5. outcome[c] # None => /\ outcome[c].uid < nextUID'
                               /\ ss' # None => Before(outcome[c], ss')
      BY <1>5, <1>4, <2>1, <2>2
    <2> QED BY <1>1, <2>2, <2>3, <2>4, <2>5 DEF Past
  <1> QED BY <1>6, <1>7 DEF LineInv

-----------------------------------------------------------------------------
(* The contents of the Secret *)

\* The provider goes forward: what was written is not newer than what it serves,
\* and what a reconcile is about to write is not older than what was written.  A
\* Secret that the controller has written was admitted.
ForwardInv ==
  /\ \A h \in applied : h.data <= store
  /\ secret # None /\ secret.owner # None =>
       secret.data <= store /\ Policies!CreatePolicies(secret)
  /\ \A c \in Controllers : pc[c] \in {"patch", "commit"} =>
       datamap[c] <= store /\ \A h \in applied : h.data <= datamap[c]

\* The controller does not fall behind what it has written.
NewestInv ==
  \A c \in Controllers :
    /\ cache[c] # None => \A h \in applied : Before(Stamp(h), cache[c])
    /\ pc[c] # "idle" => \A h \in applied : Before(Stamp(h), copy[c])

\* The Secret is that of the SecretSync as it is, with data not older than d.
Holds(d) ==
  /\ secret # None
  /\ secret.owner = ss.uid /\ secret.spec = ss.spec
  /\ d <= secret.data

\* If the SecretSync is still what x says, its Secret has data d.
Kept(x, d) == ss # None /\ Same(x, ss) => secret = SecretOf(ss, d)

\* Once a hash was applied for the current generation, the Secret stays the one of
\* this generation; after a reconcile its data is the data of that reconcile.
HeldInv ==
  /\ ss # None => \A h \in applied : Same(Stamp(h), ss) => Holds(h.data)
  /\ \A c \in Controllers :
       /\ pc[c] = "commit" => Kept(copy[c], datamap[c])
       /\ Idle(c) /\ outcome[c] # None => Kept(outcome[c], outcome[c].data)

\* What a patch leaves.
LEMMA PatchLeaves ==
  ASSUME TypeInv, SyncInv, OwnerInv, NEW c \in Controllers, pc[c] = "patch", Patched(c)
  PROVE  /\ secret' = PatchData(c) /\ secret' # None
         /\ secret'.owner = copy[c].uid /\ secret'.spec = copy[c].spec
         /\ secret'.data = datamap[c]
         /\ Policies!CreatePolicies(secret')
         /\ \A h \in applied' : \/ h \in applied
                                \/ /\ Stamp(h).uid = copy[c].uid
                                   /\ Stamp(h).generation = copy[c].generation
                                   /\ h.data = datamap[c]
  <1>1. /\ secret' = PatchData(c) /\ applied' = applied \cup {copy[c].status.syncHash}
        /\ Policies!CreatePolicies(PatchData(c))
    BY DEF Patched, Policies!Admits
  <1>2. copy[c] \in SecretSyncs /\ datamap[c] \in Versions
    BY CopyType DEF TypeInv, TypeOK, PhaseOK
  <1>3. PatchData(c) \in Secrets
    BY <1>2 DEF PatchData, Secrets, SecretSyncs
  <1>4. secret' # None
    BY <1>1, <1>3, NoneAssumption
  <1>5. /\ PatchData(c).owner = copy[c].uid /\ PatchData(c).spec = copy[c].spec
        /\ PatchData(c).data = datamap[c]
    BY DEF PatchData
  <1> QED BY <1>1, <1>4, <1>5, OwnStamp

\* Every step preserves ForwardInv.
LEMMA ForwardStep ==
  ASSUME TypeInv, TypeInv', SyncInv, OwnerInv, ForwardInv, NEW c, Controllers = {c},
         ControllerMoves(c) \/ EnvironmentMoves
  PROVE  ForwardInv'
  <1> DEFINE Forward ==
        /\ \A h \in applied : h.data <= store
        /\ secret # None /\ secret.owner # None =>
             secret.data <= store /\ Policies!CreatePolicies(secret)
        /\ pc[c] \in {"patch", "commit"} =>
             datamap[c] <= store /\ \A h \in applied : h.data <= datamap[c]
  <1>1. Forward
    BY DEF ForwardInv
  <1> SUFFICES Forward'
    BY DEF ForwardInv
  <1>2. /\ store \in Nat /\ store' \in Nat /\ \A h \in applied : h.data \in Nat
        /\ pc[c] \in {"patch", "commit"} => datamap[c] \in Nat
        /\ secret # None => secret.data \in Nat
    <2>1. store' \in Nat
      BY VersionsAssumption DEF TypeInv, TypeOK
    <2> QED BY <2>1, Numbers
  <1>3. CASE Starts(c) \/ Works(c) \/ GivesUp(c) \/ Completes(c) \/ Hears(c) \/ Dies(c)
    BY <1>1, <1>3 DEF Starts, Works, GivesUp, Completes, Hears, Dies
  <1>4. CASE Fetches(c)
    BY <1>1, <1>2, <1>4 DEF Fetches
  <1>5. CASE Patches(c)
    <2>1. pc[c] = "patch" /\ Patched(c) /\ store' = store
      BY <1>5 DEF Patches
    <2>2. pc'[c] = "report" \/ (pc'[c] = "commit" /\ datamap'[c] = datamap[c])
      BY <1>5 DEF Patches
    <2>3. \A h \in applied' : h.data <= datamap[c]
      BY <1>1, <1>2, <2>1, PatchLeaves
    <2>4. datamap[c] <= store /\ \A h \in applied' : h.data <= store
      <3>1. \A h \in applied' : h \in applied \/ h.data = datamap[c]
        BY <2>1, PatchLeaves
      <3> QED BY <1>1, <2>1, <3>1
    <2>5. secret'.data <= store /\ Policies!CreatePolicies(secret')
      BY <2>1, <2>4, PatchLeaves
    <2> QED BY <2>1, <2>2, <2>3, <2>4, <2>5
  <1>6. CASE EnvironmentMoves
    <2>1. UNCHANGED <<applied, pc, datamap>>
      BY <1>6 DEF EnvironmentMoves
    <2>2. /\ store' = store \/ store' >= store
          /\ secret' = secret \/ secret' = None \/ secret'.owner = None
      BY <1>6 DEF EnvironmentMoves, SecretAppears, SecretGoes
    <2>3. \A n \in Nat : n <= store => n <= store'
      BY <1>2, <2>2
    <2>4. \A h \in applied' : h.data <= store'
      BY <1>1, <1>2, <2>1, <2>3
    <2>5. pc'[c] \in {"patch", "commit"} =>
            datamap'[c] <= store' /\ \A h \in applied' : h.data <= datamap'[c]
      BY <1>1, <1>2, <2>1, <2>3
    <2>6. secret' # None /\ secret'.owner # None =>
            secret'.data <= store' /\ Policies!CreatePolicies(secret')
      BY <1>1, <1>2, <2>2, <2>3
    <2> QED BY <2>4, <2>5, <2>6
  <1> QED BY <1>3, <1>4, <1>5, <1>6 DEF ControllerMoves

\* Every step preserves NewestInv.
LEMMA NewestStep ==
  ASSUME TypeInv, SyncInv, OwnerInv, LineInv, NewestInv, NEW c, Controllers = {c},
         ControllerMoves(c) \/ EnvironmentMoves
  PROVE  NewestInv'
  <1> DEFINE Newest ==
        /\ cache[c] # None => \A h \in applied : Before(Stamp(h), cache[c])
        /\ pc[c] # "idle" => \A h \in applied : Before(Stamp(h), copy[c])
  <1>1. Newest
    BY DEF NewestInv
  <1> SUFFICES Newest'
    BY DEF NewestInv
  <1>2. CASE Starts(c)
    BY <1>1, <1>2 DEF Starts
  <1>3. CASE Works(c)
    BY <1>1, <1>3 DEF Works, KeepsCopy, Before, Same
  <1>4. CASE Fetches(c)
    BY <1>1, <1>4 DEF Fetches, KeepsCopy, Before, Same
  <1>5. CASE Patches(c)
    <2>1. pc[c] = "patch" /\ Patched(c) /\ cache' = cache /\ pc'[c] # "idle"
          /\ (copy'[c] = copy[c] \/ KeepsCopy(c))
      BY <1>5 DEF Patches
    <2>2. \A h \in applied' : \/ h \in applied
                              \/ /\ Stamp(h).uid = copy[c].uid
                                 /\ Stamp(h).generation = copy[c].generation
      BY <2>1, PatchLeaves
    <2>3. copy[c].generation \in Nat /\ (cache[c] # None => Before(copy[c], cache[c]))
      BY <2>1, Numbers DEF LineInv
    <2>4. \A h \in applied' : /\ Before(Stamp(h), copy[c])
                              /\ cache[c] # None => Before(Stamp(h), cache[c])
      BY <1>1, <2>1, <2>2, <2>3 DEF Before
    <2> QED BY <2>1, <2>4 DEF KeepsCopy, Before, Same
  <1>6. CASE GivesUp(c) \/ Completes(c) \/ Dies(c)
    BY <1>1, <1>6 DEF GivesUp, Completes, Dies
  <1>7. CASE Hears(c)
    <2>1. ss # None => \A h \in applied : Before(Stamp(h), ss)
      BY DEF LineInv
    <2> QED BY <1>1, <1>7, <2>1 DEF Hears
  <1>8. CASE EnvironmentMoves
    BY <1>1, <1>8 DEF EnvironmentMoves
  <1> QED BY <1>2, <1>3, <1>4, <1>5, <1>6, <1>7, <1>8 DEF ControllerMoves

\* The Secret of the SecretSync as it is stays: it is not in the way of the
\* SecretSync, and not without an owner.
LEMMA SecretStays ==
  ASSUME TypeInv, ForwardInv, ss # None, secret # None, secret.owner = ss.uid,
         secret.spec = ss.spec
  PROVE  ~SecretGoes /\ ~SecretAppears
  <1>1. ss.uid \in Nat /\ ss.uid # None
    BY SecretSyncFields, NoneAssumption DEF TypeInv, TypeOK, UIDs
  <1>2. Policies!CreatePolicies(secret)
    BY <1>1 DEF ForwardInv
  <1>3. /\ SecretOf(ss, store).spec = secret.spec /\ SecretOf(ss, store).owner = secret.owner
    BY DEF SecretOf
  <1>4. Policies!Admits(secret, SecretOf(ss, store))
    BY <1>1, <1>2, <1>3
    DEF Policies!Admits, Policies!CreatePolicies, Policies!UpdatePolicies,
        Policies!TypeUnchanged, Policies!hasOneSecretSyncOwner
  <1>5. ~Blocked
    BY <1>4 DEF Blocked
  <1> QED BY <1>5 DEF SecretGoes, SecretAppears

\* A patch puts the Secret where the SecretSync wants it, unless the controller is
\* behind: what was applied before is not of a later generation than its copy.
LEMMA PatchHolds ==
  ASSUME TypeInv, SyncInv, OwnerInv, LineInv, ForwardInv, NewestInv, NEW c \in Controllers,
         pc[c] = "patch", Patched(c), ss # None
  PROVE  /\ \A h \in applied' : Same(Stamp(h), ss) =>
              /\ secret' # None /\ secret'.owner = ss.uid /\ secret'.spec = ss.spec
              /\ h.data <= secret'.data
         /\ Same(copy[c], ss) => secret' = SecretOf(ss, datamap[c])
  <1>1. /\ secret' = PatchData(c) /\ secret' # None
        /\ secret'.owner = copy[c].uid /\ secret'.spec = copy[c].spec
        /\ secret'.data = datamap[c]
    BY PatchLeaves
  <1>2. /\ ss.uid \in Nat /\ ss.generation \in Nat
        /\ copy[c].uid \in Nat /\ copy[c].generation \in Nat /\ datamap[c] \in Nat
    BY Numbers
  <1>3. Before(copy[c], ss) /\ (Same(copy[c], ss) => copy[c].spec = ss.spec)
    BY DEF LineInv, Past
  <1>4. ASSUME NEW h \in applied', Same(Stamp(h), ss)
        PROVE  /\ secret' # None /\ secret'.owner = ss.uid /\ secret'.spec = ss.spec
               /\ h.data <= secret'.data
    <2>1. \/ h \in applied
          \/ /\ Stamp(h).uid = copy[c].uid /\ Stamp(h).generation = copy[c].generation
             /\ h.data = datamap[c]
      BY PatchLeaves
    <2>2. Same(copy[c], ss) /\ h.data <= datamap[c]
      <3>1. CASE h \in applied
        <4>1. Before(Stamp(h), copy[c]) /\ h.data <= datamap[c]
          BY <3>1 DEF NewestInv, ForwardInv
        <4> QED BY <1>2, <1>3, <1>4, <4>1 DEF Before, Same
      <3>2. CASE /\ Stamp(h).uid = copy[c].uid /\ Stamp(h).generation = copy[c].generation
                 /\ h.data = datamap[c]
        BY <1>2, <1>4, <3>2 DEF Same
      <3> QED BY <2>1, <3>1, <3>2
    <2> QED BY <1>1, <1>3, <2>2 DEF Same
  <1>5. Same(copy[c], ss) => secret' = SecretOf(ss, datamap[c])
    BY <1>1, <1>3 DEF PatchData, SecretOf, Same
  <1> QED BY <1>4, <1>5

\* A reconcile that finds the recorded hash to be the current one leaves a Secret
\* that has the provider's data.
LEMMA InSyncHolds ==
  ASSUME TypeInv, StatusInv, ForwardInv, HeldInv, NEW c \in Controllers, pc[c] = "sync",
         ss # None, Same(copy[c], ss), copy[c].status.syncHash \in Hashes,
         copy[c].status.syncHash.ssUID = copy[c].uid,
         copy[c].status.syncHash.ssGeneration = copy[c].generation,
         copy[c].status.syncHash.data = store
  PROVE  secret = SecretOf(ss, store)
  <1> DEFINE h == copy[c].status.syncHash
  <1>1. h \in applied
    BY NoneAssumption DEF StatusInv, Recorded
  <1>2. Same(Stamp(h), ss) /\ h.data = store
    BY DEF Same, Stamp
  <1> HIDE DEF h
  <1>3. /\ secret # None /\ secret.owner = ss.uid /\ secret.spec = ss.spec
        /\ store <= secret.data
    BY <1>1, <1>2 DEF HeldInv, Holds
  <1>4. ss.uid # None
    BY SecretSyncFields, NoneAssumption DEF TypeInv, TypeOK, UIDs
  <1>5. secret.data <= store
    BY <1>3, <1>4 DEF ForwardInv
  <1>6. secret.data = store
    BY <1>3, <1>5, Numbers
  <1>7. secret \in Secrets
    BY <1>3 DEF TypeInv, TypeOK
  <1> QED BY <1>3, <1>6, <1>7 DEF SecretOf, Secrets

\* The steps of the controller preserve HeldInv.
LEMMA HeldControllerStep ==
  ASSUME TypeInv, TypeInv', StatusInv, SyncInv, OwnerInv, LineInv, ForwardInv, NewestInv, HeldInv,
         NEW c, Controllers = {c}, ControllerMoves(c)
  PROVE  HeldInv'
  <1> DEFINE Has(x, d) == ss' # None /\ Same(x, ss') => secret' = SecretOf(ss', d)
             Applied == ss # None => \A h \in applied : Same(Stamp(h), ss) => Holds(h.data)
  <1>1. /\ Applied
        /\ pc[c] = "commit" => Kept(copy[c], datamap[c])
        /\ Idle(c) /\ outcome[c] # None => Kept(outcome[c], outcome[c].data)
    BY DEF HeldInv
  <1>2. SUFFICES /\ Applied'
                 /\ pc'[c] = "commit" => Has(copy'[c], datamap'[c])
                 /\ pc'[c] = "idle" /\ ~queued'[c] /\ outcome'[c] # None =>
                      Has(outcome'[c], outcome'[c].data)
    BY DEF HeldInv, Kept, Idle
  <1>3. ASSUME KeepsObject, UNCHANGED <<secret, applied>>
        PROVE  /\ Applied'
               /\ \A x, d : Kept(x, d) => Has(x, d)
    BY <1>1, <1>3 DEF KeepsObject, Same, Holds, Kept, SecretOf
  <1>4. CASE Starts(c) \/ Works(c) \/ Fetches(c) \/ GivesUp(c)
    <2>1. KeepsObject /\ UNCHANGED <<secret, applied>>
      BY <1>4 DEF Starts, Works, Fetches, GivesUp, KeepsObject
    <2>2. pc'[c] # "commit" /\ (pc'[c] = "idle" => queued'[c])
      BY <1>4 DEF Starts, Works, Fetches, GivesUp
    <2> QED BY <1>3, <2>1, <2>2
  <1>5. CASE Patches(c)
    <2>1. /\ pc[c] = "patch" /\ Patched(c) /\ ss' = ss /\ pc'[c] # "idle"
          /\ pc'[c] = "commit" => copy'[c] = copy[c] /\ datamap'[c] = datamap[c]
      BY <1>5 DEF Patches
    <2>2. ss # None =>
            /\ \A h \in applied' : Same(Stamp(h), ss) =>
                 /\ secret' # None /\ secret'.owner = ss.uid /\ secret'.spec = ss.spec
                 /\ h.data <= secret'.data
            /\ Same(copy[c], ss) => secret' = SecretOf(ss, datamap[c])
      BY <2>1, PatchHolds
    <2>3. Applied'
      BY <2>1, <2>2 DEF Holds
    <2>4. pc'[c] = "commit" => Has(copy'[c], datamap'[c])
      BY <2>1, <2>2
    <2> QED BY <2>1, <2>3, <2>4
  <1>6. CASE Completes(c)
    <2> DEFINE h == copy[c].status.syncHash
    <2>1. /\ pc'[c] = "idle" /\ KeepsObject /\ UNCHANGED <<secret, applied>>
          /\ outcome'[c].uid = copy[c].uid /\ outcome'[c].generation = copy[c].generation
          /\ \/ pc[c] = "commit" /\ outcome'[c].data = datamap[c]
             \/ /\ pc[c] = "sync" /\ outcome'[c].data = store
                /\ h \in Hashes
                /\ h.ssUID = copy[c].uid /\ h.ssGeneration = copy[c].generation /\ h.data = store
      BY <1>6 DEF Completes
    <2>2. Kept(copy[c], outcome'[c].data)
      <3>1. CASE pc[c] = "commit" /\ outcome'[c].data = datamap[c]
        BY <1>1, <3>1
      <3>2. CASE /\ pc[c] = "sync" /\ outcome'[c].data = store
                 /\ h \in Hashes
                 /\ h.ssUID = copy[c].uid /\ h.ssGeneration = copy[c].generation /\ h.data = store
        BY <3>2, InSyncHolds DEF Kept
      <3> QED BY <2>1, <3>1, <3>2
    <2>3. Applied' /\ Has(copy[c], outcome'[c].data)
      BY <1>3, <2>1, <2>2
    <2>4. Has(outcome'[c], outcome'[c].data)
      BY <2>1, <2>3 DEF Same
    <2> QED BY <2>1, <2>3, <2>4
  <1>7. CASE Hears(c)
    <2>1. /\ UNCHANGED <<ss, secret, applied, pc, copy, datamap, outcome>>
          /\ ~queued'[c] => ~queued[c]
      BY <1>7 DEF Hears
    <2> QED BY <1>1, <2>1 DEF Idle, Kept, Holds
  <1>8. CASE Dies(c)
    <2>1. KeepsObject /\ UNCHANGED <<secret, applied>>
      BY <1>8 DEF Dies, KeepsObject
    <2> QED BY <1>3, <1>8, <2>1 DEF Dies
  <1> QED BY <1>4, <1>5, <1>6, <1>7, <1>8 DEF ControllerMoves

\* So do the others.
LEMMA HeldEnvironmentStep ==
  ASSUME TypeInv, TypeInv', OwnerInv, LineInv, ForwardInv, HeldInv, NEW c, Controllers = {c},
         EnvironmentMoves
  PROVE  HeldInv'
  <1> DEFINE Has(x, d) == ss' # None /\ Same(x, ss') => secret' = SecretOf(ss', d)
             Applied == ss # None => \A h \in applied : Same(Stamp(h), ss) => Holds(h.data)
  <1>1. /\ Applied
        /\ pc[c] = "commit" => Kept(copy[c], datamap[c])
        /\ Idle(c) /\ outcome[c] # None => Kept(outcome[c], outcome[c].data)
    BY DEF HeldInv
  <1>2. UNCHANGED <<applied, pc, copy, datamap, outcome, queued>>
    BY DEF EnvironmentMoves
  <1>3. SUFFICES /\ Applied'
                 /\ pc[c] = "commit" => Has(copy[c], datamap[c])
                 /\ Idle(c) /\ outcome[c] # None => Has(outcome[c], outcome[c].data)
    BY <1>2 DEF HeldInv, Kept, Idle
  <1>4. /\ nextUID \in Nat /\ \A h \in applied : Stamp(h).uid \in Nat /\ Stamp(h).generation \in Nat
        /\ ss # None => ss.uid \in Nat /\ ss.generation \in Nat
        /\ pc[c] # "idle" => copy[c].uid \in Nat /\ copy[c].generation \in Nat
        /\ outcome[c] # None => outcome[c].uid \in Nat /\ outcome[c].generation \in Nat
    <2>1. \A h \in applied : Stamp(h).uid \in Nat /\ Stamp(h).generation \in Nat
      BY Numbers
    <2> QED BY <2>1, Numbers
  <1>5. /\ \A h \in applied : Stamp(h).uid < nextUID /\ (ss # None => Before(Stamp(h), ss))
        /\ pc[c] # "idle" => copy[c].uid < nextUID /\ (ss # None => Before(copy[c], ss))
        /\ outcome[c] # None => outcome[c].uid < nextUID /\ (ss # None => Before(outcome[c], ss))
    <2>1. \A h \in applied : Stamp(h).uid = h.ssUID /\ h.ssUID < nextUID
      BY Numbers DEF OwnerInv
    <2> QED BY <2>1 DEF LineInv, Past, OwnerInv, OwnObject
  <1>6. CASE Created \/ Edited \/ ss' = None
    <2>1. ASSUME NEW x, x.uid \in Nat, x.generation \in Nat, x.uid < nextUID,
                 ss # None => Before(x, ss)
          PROVE  ~(ss' # None /\ Same(x, ss'))
      BY <1>4, <1>6, <2>1 DEF Created, Edited, Before, Same
    <2>2. \A h \in applied : ~(ss' # None /\ Same(Stamp(h), ss'))
      BY <1>4, <1>5, <2>1
    <2>3. Applied'
      BY <1>2, <2>2
    <2>4. pc[c] = "commit" => ~(ss' # None /\ Same(copy[c], ss'))
      BY <1>4, <1>5, <2>1
    <2>5. outcome[c] # None => ~(ss' # None /\ Same(outcome[c], ss'))
      BY <1>4, <1>5, <2>1
    <2> QED BY <2>3, <2>4, <2>5
  <1>7. CASE ss' = ss /\ (UNCHANGED secret \/ SecretAppears \/ SecretGoes)
    <2>1. ss # None /\ secret # None /\ secret.owner = ss.uid /\ secret.spec = ss.spec
          => secret' = secret
      BY <1>7, SecretStays
    <2>2. \A d : ss # None /\ Holds(d) => Holds(d)'
      BY <1>7, <2>1 DEF Holds
    <2>3. Applied'
      BY <1>1, <1>2, <1>7, <2>2
    <2>4. ss # None => \A d \in Versions : secret = SecretOf(ss, d) => secret' = secret
      <3> SUFFICES ASSUME ss # None, NEW d \in Versions, secret = SecretOf(ss, d)
                   PROVE  secret' = secret
        OBVIOUS
      <3>1. SecretOf(ss, d) \in Secrets
        BY DEF SecretOf, Secrets, TypeInv, TypeOK, SecretSyncs
      <3>2. secret # None
        BY <3>1, NoneAssumption
      <3> QED BY <2>1, <3>2 DEF SecretOf
    <2>5. /\ pc[c] = "commit" => datamap[c] \in Versions
          /\ outcome[c] # None => outcome[c].data \in Versions
      BY DEF TypeInv, TypeOK, PhaseOK, Outcomes
    <2> QED BY <1>1, <1>7, <2>3, <2>4, <2>5 DEF Kept
  <1> QED BY <1>6, <1>7, Zenon DEF EnvironmentMoves

-----------------------------------------------------------------------------
\* A controller that runs alone, before a provider that goes forward and with
\* users who let its Secret be, leaves the Secret with what it read: when it is at
\* rest after a reconcile of this generation that returned nil, the Secret is the
\* one of this SecretSync, with the data that reconcile fetched, whether it wrote
\* them or found the recorded hash to be current (Reconcile, lines 115-219).
THEOREM SecretHasObservedDataHolds ==
  ASSUME OneController, ~RotatesBack, ~SecretDeletable
  PROVE  Spec => []SecretHasObservedData
  <1> DEFINE IInv == /\ TypeInv /\ StatusInv /\ SyncInv /\ OwnerInv
                     /\ LineInv /\ ForwardInv /\ NewestInv /\ HeldInv
  <1>1. Init => IInv
    <2>1. Init => StatusInv /\ SyncInv /\ OwnerInv
      BY DEF Init, StatusInv, SyncInv, Ahead, OwnerInv, OwnObject
    <2>2. Init => LineInv /\ ForwardInv /\ NewestInv /\ HeldInv
      BY DEF Init, LineInv, ForwardInv, NewestInv, HeldInv
    <2> QED BY <2>1, <2>2, TypeInit
  <1>2. IInv /\ [Next]_vars => IInv'
    <2> SUFFICES ASSUME IInv, [Next]_vars PROVE IInv'
      OBVIOUS
    <2>1. TypeInv' /\ StatusInv' /\ SyncInv' /\ OwnerInv'
      BY TypeStep, StatusStep, SyncStep, OwnerStep
    <2>2. PICK c : Controllers = {c}
      BY DEF OneController
    <2>3. ControllerMoves(c) \/ EnvironmentMoves
      <3>1. CASE Environment \/ UNCHANGED vars
        BY <2>1, <3>1, EnvironmentKinds
      <3>2. CASE \E d \in Controllers :
                   \/ ReconcileStep(d) \/ WatchEvent(d) \/ RelistEvent(d) \/ SpcWatchEvent(d)
                   \/ Poll(d) \/ Crash(d)
        <4>1. PICK d \in Controllers :
                   \/ ReconcileStep(d) \/ WatchEvent(d) \/ RelistEvent(d) \/ SpcWatchEvent(d)
                   \/ Poll(d) \/ Crash(d)
          BY <3>2, Zenon
        <4>2. ControllerMoves(d)
          BY <2>1, <4>1, ControllerKinds
        <4>3. d = c
          BY <2>2, <4>1, Zenon
        <4> QED BY <4>2, <4>3, Zenon
      <3> QED BY <3>1, <3>2, Zenon DEF Next
    <2>4. LineInv'
      BY <2>1, <2>2, <2>3, LineControllerStep, LineEnvironmentStep
    <2>5. ForwardInv' /\ NewestInv'
      BY <2>1, <2>2, <2>3, ForwardStep, NewestStep
    <2>6. HeldInv'
      BY <2>1, <2>2, <2>3, HeldControllerStep, HeldEnvironmentStep
    <2> QED BY <2>1, <2>4, <2>5, <2>6
  <1>3. IInv => SecretHasObservedData
    BY DEF HeldInv, Kept, Same, SecretHasObservedData
  <1> HIDE DEF IInv
  <1> QED BY <1>1, <1>2, <1>3, PTL DEF Spec
=============================================================================
