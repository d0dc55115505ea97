--------------------- MODULE SecretSyncReconcilerProofs ---------------------
(***************************************************************************)
(* Proofs about SecretSyncReconciler, for every number of controllers and  *)
(* every value of the other constants.                                     *)
(***************************************************************************)
EXTENDS SecretSyncReconciler, TLAPS

-----------------------------------------------------------------------------
(* Facts about the objects *)

\* Replacing the status of a SecretSync gives a SecretSync.
LEMMA StatusReplaced ==
  ASSUME NEW s \in SecretSyncs, NEW st \in Statuses
  PROVE  /\ [s EXCEPT !.status = st] \in SecretSyncs
         /\ [s EXCEPT !.status = st].status = st
         /\ [s EXCEPT !.status = st].uid = s.uid
         /\ [s EXCEPT !.status = st].generation = s.generation
         /\ [s EXCEPT !.status = st].spec = s.spec
  BY DEF SecretSyncs

\* An edit of the spec gives an object of the same type.
LEMMA SecretSyncEdited ==
  ASSUME NEW s \in SecretSyncs, NEW spec \in Specs, NEW g \in Generations
  PROVE  [s EXCEPT !.spec = spec, !.generation = g] \in SecretSyncs
  BY DEF SecretSyncs

\* So does an edit of a SecretProviderClass.
LEMMA SecretProviderClassEdited ==
  ASSUME NEW s \in SecretProviderClasses, NEW p \in BOOLEAN, NEW g \in Generations
  PROVE  [s EXCEPT !.generation = g, !.parameters = p] \in SecretProviderClasses
  BY DEF SecretProviderClasses

\* The fields of a SecretSync have their types.
LEMMA SecretSyncFields ==
  ASSUME NEW s \in SecretSyncs
  PROVE  /\ s.uid \in UIDs /\ s.generation \in Generations
         /\ s.spec \in Specs /\ s.status \in Statuses
  BY DEF SecretSyncs

\* The fields of a status have their types.
LEMMA StatusFields ==
  ASSUME NEW st \in Statuses
  PROVE  /\ st.conditions \in [ConditionTypes -> Reasons \cup {None}]
         /\ st.syncHash \in Hashes \cup {None}
         /\ st.lastSuccessfulSyncTime \in Times \cup {None}
  BY DEF Statuses

\* Setting a condition keeps the list well formed.
LEMMA ConditionSet ==
  ASSUME NEW conds \in [ConditionTypes -> Reasons \cup {None}],
         NEW type \in ConditionTypes, NEW reason \in Reasons
  PROVE  SetStatusCondition(conds, type, reason) \in [ConditionTypes -> Reasons \cup {None}]
  BY DEF SetStatusCondition

\* computeCurrentStateHash returns a hash.
LEMMA HashComputed ==
  ASSUME NEW data \in Versions, NEW class \in SecretProviderClasses, NEW s \in SecretSyncs
  PROVE  /\ computeCurrentStateHash(data, class, s) \in Hashes
         /\ computeCurrentStateHash(data, class, s).ssGeneration = s.generation
         /\ computeCurrentStateHash(data, class, s).ssUID = s.uid
         /\ computeCurrentStateHash(data, class, s).data = data
  BY SpecsAssumption DEF computeCurrentStateHash, Hashes, SecretProviderClasses, SecretSyncs

\* The new status that Fail stores in the working copy.
FailStatus(status, reason) ==
  [status EXCEPT !.conditions =
     SetStatusCondition(status.conditions, ConditionType(status), reason)]

\* A failure can be recorded in any status.
LEMMA FailStatusType ==
  ASSUME NEW st \in Statuses, NEW reason \in Reasons
  PROVE  /\ FailStatus(st, reason) \in Statuses
         /\ FailStatus(st, reason).syncHash = st.syncHash
         /\ FailStatus(st, reason).lastSuccessfulSyncTime = st.lastSuccessfulSyncTime
         /\ FailStatus(st, reason).conditions
              = SetStatusCondition(st.conditions, ConditionType(st), reason)
  <1>1. ConditionType(st) \in ConditionTypes
    BY DEF ConditionType, ConditionTypes
  <1>2. SetStatusCondition(st.conditions, ConditionType(st), reason)
          \in [ConditionTypes -> Reasons \cup {None}]
    BY <1>1, StatusFields, ConditionSet
  <1> QED BY <1>2 DEF FailStatus, Statuses

\* The conditions set before the patch, and those set at the start.
LEMMA SuccessConditionsType ==
  ASSUME NEW st \in Statuses, NEW hash
  PROVE  SuccessConditions(st, hash) \in [ConditionTypes -> Reasons \cup {None}]
  <1>1. /\ ConditionTypeCreate \in ConditionTypes
        /\ ConditionTypeUpdate \in ConditionTypes
        /\ "CreateSuccessful" \in Reasons /\ "SecretUpToDate" \in Reasons
    BY DEF ConditionTypes, Reasons, SuccessReasons
  <1> QED BY <1>1, StatusFields DEF SuccessConditions, SetStatusCondition

\* The initial conditions are conditions.
LEMMA InitialConditionsType ==
  ASSUME NEW conds \in [ConditionTypes -> Reasons \cup {None}]
  PROVE  InitialConditions(conds) \in [ConditionTypes -> Reasons \cup {None}]
  <1>1. /\ ConditionTypeCreate \in ConditionTypes
        /\ ConditionTypeUpdate \in ConditionTypes
        /\ "SyncStarting" \in Reasons /\ "NoUpdatesAttemptedYet" \in Reasons
    BY DEF ConditionTypes, Reasons, InitialReasons
  <1> QED BY <1>1 DEF InitialConditions, SetStatusCondition

\* A reason of validateLabelsAnnotations is one of the known reasons.
LEMMA ValidationReason ==
  ASSUME NEW spec, validateLabelsAnnotations(spec) # None
  PROVE  /\ validateLabelsAnnotations(spec) \in Reasons
         /\ validateLabelsAnnotations(spec) \in FailedConditionsTriggeringRetry
  <1>1. /\ "InvalidClusterSecretLabelError" \in FailedConditionsTriggeringRetry
        /\ "InvalidClusterSecretAnnotationError" \in FailedConditionsTriggeringRetry
        /\ FailedConditionsTriggeringRetry \subseteq Reasons
    BY DEF Reasons, FailedConditionsTriggeringRetry
  <1> QED BY <1>1 DEF validateLabelsAnnotations

\* The other reasons that Fail is called with.
LEMMA FailureReasons ==
  /\ "SecretProviderClassMisconfigured" \in FailedConditionsTriggeringRetry
  /\ "ControllerPatchError" \in FailedConditionsTriggeringRetry
  /\ \A class : FetchErrors(class) \subseteq FailedConditionsTriggeringRetry
  /\ FailedConditionsTriggeringRetry \subseteq Reasons
  BY DEF Reasons, FailedConditionsTriggeringRetry, FetchErrors

-----------------------------------------------------------------------------
(* Type correctness *)

\* What the phase of a reconcile says about its local variables: it has an
\* object while it runs, its rollback data and its secret data from StartSync
\* on, and an object it may still write exists.
PhaseOK ==
  \A c \in Controllers :
    /\ pc[c] # "idle" => copy[c] # None
    /\ pc[c] \in {"patch", "commit"} =>
         /\ prev[c] # None /\ datamap[c] # None
         /\ copy[c].status.syncHash # None
    /\ c \in freshCopy => ss # None /\ pc[c] # "idle"

\* A cache with the current resourceVersion has the current object.
CacheOK == \A c \in freshCache : cache[c] = ss

TypeInv == TypeOK /\ PhaseOK /\ CacheOK

\* The steps of a reconcile have an object of the right type to work on.
LEMMA CopyType ==
  ASSUME TypeInv, NEW c \in Controllers, pc[c] # "idle"
  PROVE  copy[c] \in SecretSyncs /\ copy[c] # None /\ copy[c].status \in Statuses
  BY SecretSyncFields DEF TypeInv, TypeOK, PhaseOK

\* Done clears the locals of c and keeps the other ones.
LEMMA DoneType ==
  ASSUME TypeInv, NEW c \in Controllers, Done(c),
         ss' \in SecretSyncs \cup {None}, ss # None => ss' # None
  PROVE  /\ pc' \in [Controllers -> {"idle", "init", "sync", "patch", "report", "commit"}]
         /\ copy' \in [Controllers -> SecretSyncs \cup {None}]
         /\ freshCopy' \subseteq Controllers
         /\ prev' \in [Controllers -> SyncRecords \cup {None}]
         /\ datamap' \in [Controllers -> Versions \cup {None}]
         /\ PhaseOK'
  BY DEF TypeInv, TypeOK, PhaseOK, Done

\* A status update leaves a SecretSync of the right type.
LEMMA StatusUpdateType ==
  ASSUME TypeInv, NEW c \in Controllers, NEW st \in Statuses,
         StatusUpdateOk(c, st) \/ StatusUpdateErr(c, st)
  PROVE  /\ ss' \in SecretSyncs \cup {None}
         /\ ss # None => ss' # None
         /\ freshCache' \subseteq Controllers
         /\ \A d \in freshCache' : cache[d] = ss'
         /\ faults' \in 0 .. MaxFaults
  <1>1. c \in freshCopy => ss \in SecretSyncs
    BY DEF TypeInv, TypeOK, PhaseOK
  <1>2. c \in freshCopy => [ss EXCEPT !.status = st] \in SecretSyncs
    BY <1>1, StatusReplaced
  <1>3. None \notin SecretSyncs
    BY NoneAssumption
  <1>4. Fault => faults' \in 0 .. MaxFaults
    BY BoundsAssumption DEF TypeInv, TypeOK, Fault
  <1> QED
    BY <1>1, <1>2, <1>3, <1>4
    DEF TypeInv, TypeOK, CacheOK, StatusUpdateOk, StatusUpdateErr, StaleCaches

\* Fail stores a status of the right type.
LEMMA FailType ==
  ASSUME TypeInv, NEW c \in Controllers, pc[c] # "idle",
         NEW st \in Statuses, NEW reason \in Reasons, Fail(c, st, reason)
  PROVE  /\ copy' \in [Controllers -> SecretSyncs \cup {None}]
         /\ copy' = [copy EXCEPT ![c] = [copy[c] EXCEPT !.status = FailStatus(st, reason)]]
         /\ copy'[c] # None
         /\ copy'[c].status = FailStatus(st, reason)
         /\ pc' = [pc EXCEPT ![c] = "report"]
  <1>1. copy[c] \in SecretSyncs
    BY CopyType
  <1>2. FailStatus(st, reason) \in Statuses
    BY FailStatusType
  <1>3. /\ [copy[c] EXCEPT !.status = FailStatus(st, reason)] \in SecretSyncs
        /\ [copy[c] EXCEPT !.status = FailStatus(st, reason)].status = FailStatus(st, reason)
    BY <1>1, <1>2, StatusReplaced
  <1>4. copy' = [copy EXCEPT ![c] = [copy[c] EXCEPT !.status = FailStatus(st, reason)]]
    BY DEF Fail, FailStatus, TypeInv, TypeOK
  <1>5. copy \in [Controllers -> SecretSyncs \cup {None}]
    BY DEF TypeInv, TypeOK
  <1> QED BY <1>3, <1>4, <1>5, NoneAssumption DEF Fail

\* Every step preserves the types and the facts about the phases.
LEMMA TypeStep ==
  ASSUME TypeInv, [Next]_vars
  PROVE  TypeInv'
  <1> USE DEF TypeInv, CacheOK
  <1>1. ASSUME NEW c \in Controllers, Reconcile(c) PROVE TypeInv'
    <2>1. c \in freshCache => ss # None
      BY <1>1 DEF Reconcile
    <2> QED BY <1>1, <2>1 DEF TypeOK, PhaseOK, Reconcile, cluster, informer
  <1>2. ASSUME NEW c \in Controllers, initConditions(c) PROVE TypeInv'
    <2> DEFINE st == [copy[c].status EXCEPT !.conditions = InitialConditions(@)]
    <2>1. copy[c] \in SecretSyncs /\ copy[c].status \in Statuses
      BY <1>2, CopyType DEF initConditions
    <2>2. st \in Statuses
      BY <2>1, StatusFields, InitialConditionsType DEF Statuses
    <2>3. [copy[c] EXCEPT !.status = st] \in SecretSyncs
      BY <2>1, <2>2, StatusReplaced
    <2>4. CASE StatusUpdateOk(c, st) /\ copy' = [copy EXCEPT ![c].status = st]
               /\ freshCopy' = (IF ss' = ss THEN freshCopy ELSE {c})
               /\ pc' = [pc EXCEPT ![c] = "sync"]
               /\ UNCHANGED <<queued, prev, datamap, outcome>>
      <3>1. /\ ss' \in SecretSyncs \cup {None} /\ (ss # None => ss' # None)
            /\ freshCache' \subseteq Controllers /\ faults' \in 0 .. MaxFaults
            /\ \A d \in freshCache' : cache[d] = ss'
        BY <2>2, <2>4, StatusUpdateType
      <3>2. ss # None /\ c \in freshCopy
        BY <2>4 DEF StatusUpdateOk, PhaseOK
      <3>3. /\ copy' \in [Controllers -> SecretSyncs \cup {None}]
            /\ copy'[c] # None
            /\ \A d \in Controllers \ {c} : copy'[d] = copy[d]
        BY <2>3, <2>4, NoneAssumption DEF TypeOK
      <3> QED BY <1>2, <2>4, <3>1, <3>2, <3>3 DEF TypeOK, PhaseOK, initConditions, cluster
    <2>5. CASE StatusUpdateErr(c, st) /\ ReturnErr(c)
      <3>1. /\ ss' \in SecretSyncs \cup {None} /\ (ss # None => ss' # None)
            /\ freshCache' \subseteq Controllers /\ faults' \in 0 .. MaxFaults
            /\ \A d \in freshCache' : cache[d] = ss'
        BY <2>2, <2>5, StatusUpdateType
      <3> QED BY <1>2, <2>5, <3>1, DoneType DEF TypeOK, ReturnErr, initConditions, cluster
    <2> QED BY <1>2, <2>4, <2>5 DEF initConditions
  <1>3. ASSUME NEW c \in Controllers, NEW st \in Statuses, NEW reason \in Reasons,
               pc[c] # "idle", Fail(c, st, reason),
               /\ UNCHANGED <<ss, spc, store, nextUID, clock, changes, informer, queued,
                              freshCopy, prev, datamap, outcome>>
               /\ faults' \in 0 .. MaxFaults
               /\ secret' \in Secrets \cup {None} /\ applied' \subseteq Hashes
        PROVE TypeInv'
    BY <1>3, FailType DEF TypeOK, PhaseOK, informer
  <1>4. ASSUME NEW c \in Controllers, ValidationFails(c) PROVE TypeInv'
    BY <1>3, <1>4, CopyType, ValidationReason DEF ValidationFails, TypeOK, cluster
  <1>5. ASSUME NEW c \in Controllers, SecretProviderClassNotFound(c) PROVE TypeInv'
    BY <1>3, <1>5, CopyType, FailureReasons
    DEF SecretProviderClassNotFound, Fetching, TypeOK, cluster
  <1>6. ASSUME NEW c \in Controllers, FetchFails(c) PROVE TypeInv'
    <2>1. faults' \in 0 .. MaxFaults
      BY <1>6, BoundsAssumption DEF FetchFails, Fault, TypeOK
    <2> QED BY <1>3, <1>6, <2>1, CopyType, FailureReasons
            DEF FetchFails, Fetching, TypeOK, cluster
  <1>7. ASSUME NEW c \in Controllers, ParametersPanic(c) PROVE TypeInv'
    BY <1>7, DoneType DEF ParametersPanic, ReturnErr, TypeOK, cluster, informer
  <1>8. ASSUME NEW c \in Controllers, pc[c] # "idle", NEW data \in Versions, ReturnNil(c, data),
               /\ ss' \in SecretSyncs \cup {None} /\ (ss # None => ss' # None)
               /\ freshCache' \subseteq Controllers /\ faults' \in 0 .. MaxFaults
               /\ \A d \in freshCache' : cache[d] = ss'
               /\ UNCHANGED <<cluster, cache, spcCache, applied>>
        PROVE TypeInv'
    <2>1. outcome' \in [Controllers -> Outcomes \cup {None}]
      BY <1>8, CopyType, SecretSyncFields DEF ReturnNil, Outcomes, TypeOK
    <2> QED BY <1>8, <2>1, DoneType DEF ReturnNil, TypeOK, cluster
  <1>9. ASSUME NEW c \in Controllers, AlreadyInSync(c) PROVE TypeInv'
    BY <1>8, <1>9 DEF AlreadyInSync, Fetched, Fetching, TypeOK, informer
  <1>10. ASSUME NEW c \in Controllers, StartSync(c) PROVE TypeInv'
    <2> DEFINE hash == computeCurrentStateHash(store, spcCache[c], copy[c])
               st == [conditions |-> SuccessConditions(copy[c].status, hash),
                      syncHash |-> hash, lastSuccessfulSyncTime |-> clock]
               old == [syncHash |-> copy[c].status.syncHash,
                       lastSuccessfulSyncTime |-> copy[c].status.lastSuccessfulSyncTime]
    <2>1. pc[c] = "sync" /\ spcCache[c] \in SecretProviderClasses /\ store \in Versions
      BY <1>10 DEF StartSync, Fetched, Fetching, TypeOK
    <2>2. copy[c] \in SecretSyncs /\ copy[c].status \in Statuses
      BY <2>1, CopyType
    <2>3. hash \in Hashes
      BY <2>1, <2>2, HashComputed
    <2>4. st \in Statuses /\ st.syncHash = hash
      BY <2>2, <2>3, SuccessConditionsType DEF Statuses, TypeOK
    <2>5. old \in SyncRecords
      BY <2>2, StatusFields DEF SyncRecords
    <2>6. /\ [copy[c] EXCEPT !.status = st] \in SecretSyncs
          /\ [copy[c] EXCEPT !.status = st].status = st
      BY <2>2, <2>4, StatusReplaced
    <2>7. copy' = [copy EXCEPT ![c].status = st] /\ prev' = [prev EXCEPT ![c] = old]
      BY <1>10 DEF StartSync
    <2> HIDE DEF hash, st, old
    <2>8. /\ copy' \in [Controllers -> SecretSyncs \cup {None}]
          /\ copy'[c] # None /\ copy'[c].status.syncHash # None
          /\ \A d \in Controllers \ {c} : copy'[d] = copy[d]
      BY <2>3, <2>4, <2>6, <2>7, NoneAssumption DEF TypeOK
    <2>9. /\ prev' \in [Controllers -> SyncRecords \cup {None}] /\ prev'[c] # None
          /\ \A d \in Controllers \ {c} : prev'[d] = prev[d]
      BY <2>5, <2>7, NoneAssumption DEF TypeOK
    <2>10. store # None
      BY <2>1, VersionsAssumption, NoneAssumption
    <2> QED BY <1>10, <2>8, <2>9, <2>10 DEF StartSync, TypeOK, PhaseOK, cluster, informer
  <1>11. ASSUME NEW c \in Controllers, pc[c] = "patch", Patched(c)
         PROVE secret' \in Secrets \cup {None} /\ applied' \subseteq Hashes
    <2>1. /\ copy[c] \in SecretSyncs /\ copy[c].status.syncHash \in Hashes
          /\ datamap[c] \in Versions
      BY <1>11, CopyType, StatusFields DEF TypeOK, PhaseOK
    <2>2. PatchData(c) \in Secrets
      BY <2>1, SecretSyncFields DEF PatchData, Secrets
    <2> QED BY <1>11, <2>1, <2>2 DEF Patched, TypeOK
  <1>12. ASSUME NEW c \in Controllers, serverSidePatchSecret(c) PROVE TypeInv'
    BY <1>11, <1>12 DEF serverSidePatchSecret, TypeOK, PhaseOK, informer
  <1>13. ASSUME NEW c \in Controllers, PatchRejected(c) \/ PatchFails(c) PROVE TypeInv'
    <2>1. RolledBack(c) \in Statuses
      <3>1. copy[c].status \in Statuses /\ prev[c] \in SyncRecords
        BY <1>13, CopyType DEF PatchRejected, PatchFails, TypeOK, PhaseOK
      <3> QED BY <3>1 DEF RolledBack, Statuses, SyncRecords
    <2>2. faults' \in 0 .. MaxFaults
      BY <1>13, BoundsAssumption DEF PatchRejected, PatchFails, Fault, TypeOK
    <2>3. secret' \in Secrets \cup {None} /\ applied' \subseteq Hashes
      BY <1>11, <1>13 DEF PatchRejected, PatchFails, TypeOK, cluster
    <2> QED BY <1>3, <1>13, <2>1, <2>2, <2>3, FailureReasons
            DEF PatchRejected, PatchFails, cluster
  <1>14. ASSUME NEW c \in Controllers, ReportFailure(c) PROVE TypeInv'
    <2>1. copy[c].status \in Statuses
      BY <1>14, CopyType DEF ReportFailure
    <2> QED BY <1>14, <2>1, StatusUpdateType, DoneType
            DEF ReportFailure, ReturnErr, TypeOK, cluster
  <1>15. ASSUME NEW c \in Controllers, UpdateStatus(c) PROVE TypeInv'
    <2>1. copy[c].status \in Statuses /\ datamap[c] \in Versions
      BY <1>15, CopyType DEF UpdateStatus, TypeOK, PhaseOK
    <2>2. CASE StatusUpdateOk(c, copy[c].status) /\ ReturnNil(c, datamap[c])
      BY <1>8, <1>15, <2>1, <2>2, StatusUpdateType DEF UpdateStatus
    <2>3. CASE StatusUpdateErr(c, copy[c].status) /\ ReturnErr(c)
      BY <1>15, <2>1, <2>3, StatusUpdateType, DoneType
      DEF UpdateStatus, ReturnErr, TypeOK, cluster
    <2> QED BY <1>15, <2>2, <2>3 DEF UpdateStatus
  <1>16. ASSUME NEW c \in Controllers,
                WatchEvent(c) \/ RelistEvent(c) \/ SpcWatchEvent(c) \/ Poll(c)
         PROVE TypeInv'
    <2>1. queued' \in [Controllers -> BOOLEAN]
      <3>1. \A b : Enqueue(c, b) => queued' \in [Controllers -> BOOLEAN]
        BY DEF Enqueue, TypeOK
      <3> QED BY <1>16, <3>1 DEF WatchEvent, RelistEvent, SpcWatchEvent, Poll, TypeOK
    <2>2. CASE WatchEvent(c) \/ RelistEvent(c)
      BY <2>1, <2>2 DEF WatchEvent, RelistEvent, TypeOK, PhaseOK, cluster, work
    <2>3. CASE SpcWatchEvent(c)
      BY <2>1, <2>3 DEF SpcWatchEvent, TypeOK, PhaseOK, cluster, work
    <2>4. CASE Poll(c)
      BY <2>1, <2>4 DEF Poll, TypeOK, PhaseOK, cluster, informer, work
    <2> QED BY <1>16, <2>2, <2>3, <2>4
  <1>17. ASSUME NEW c \in Controllers, Crash(c) PROVE TypeInv'
    <2>1. faults' \in 0 .. MaxFaults
      BY <1>17, BoundsAssumption DEF Crash, Fault, TypeOK
    <2> QED BY <1>17, <2>1, DoneType DEF Crash, TypeOK, cluster
  <1>18. Change => changes' \in 0 .. MaxChanges
    BY BoundsAssumption DEF Change, TypeOK
  <1>19. CASE CreateSecretSync
    <2>1. EmptyStatus \in Statuses
      BY DEF EmptyStatus, NoConditions, Statuses
    <2>2. ss' \in SecretSyncs
      BY <1>19, <2>1 DEF CreateSecretSync, SecretSyncs, UIDs, Generations, TypeOK
    <2> QED BY <1>18, <1>19, <2>2
            DEF CreateSecretSync, SecretSyncWritten, TypeOK, PhaseOK, UIDs
  <1>20. CASE EditSecretSync
    <2>1. ss' \in SecretSyncs
      <3>1. ss \in SecretSyncs
        BY <1>20 DEF EditSecretSync, TypeOK
      <3>2. PICK spec \in Specs : ss' = [ss EXCEPT !.spec = spec, !.generation = @ + 1]
        BY <1>20 DEF EditSecretSync
      <3>3. ss.generation + 1 \in Generations
        BY <3>1, SecretSyncFields DEF Generations
      <3> QED BY <3>1, <3>2, <3>3, SecretSyncEdited
    <2> QED BY <1>18, <1>20, <2>1 DEF EditSecretSync, SecretSyncWritten, TypeOK, PhaseOK
  <1>21. CASE DeleteSecretSync
    BY <1>18, <1>21 DEF DeleteSecretSync, SecretSyncWritten, TypeOK, PhaseOK
  <1>22. CASE CreateSecretProviderClass \/ EditSecretProviderClass \/ DeleteSecretProviderClass
    <2>1. CASE CreateSecretProviderClass
      <3>1. PICK p \in HasParameters :
              spc' = [uid |-> nextUID, generation |-> 1, parameters |-> p]
        BY <2>1 DEF CreateSecretProviderClass
      <3>2. nextUID \in Nat /\ nextUID' = nextUID + 1
        BY <2>1 DEF CreateSecretProviderClass, TypeOK, UIDs
      <3>3. spc' \in SecretProviderClasses /\ nextUID' \in UIDs
        BY <3>1, <3>2, FlagsAssumption DEF SecretProviderClasses, UIDs, Generations
      <3> QED BY <1>18, <2>1, <3>3
              DEF CreateSecretProviderClass, OtherObjects, TypeOK, PhaseOK, informer, work
    <2>2. CASE EditSecretProviderClass
      <3>1. spc \in SecretProviderClasses
        BY <2>2 DEF EditSecretProviderClass, TypeOK
      <3>2. PICK p \in HasParameters :
              spc' = [spc EXCEPT !.generation = @ + 1, !.parameters = p]
        BY <2>2 DEF EditSecretProviderClass
      <3>3. spc.generation + 1 \in Generations
        BY <3>1 DEF SecretProviderClasses, Generations
      <3>4. p \in BOOLEAN
        BY FlagsAssumption
      <3>5. spc' \in SecretProviderClasses
        BY <3>1, <3>2, <3>3, <3>4, SecretProviderClassEdited
      <3> QED BY <1>18, <2>2, <3>5
              DEF EditSecretProviderClass, OtherObjects, TypeOK, PhaseOK, informer, work
    <2>3. CASE DeleteSecretProviderClass
      BY <1>18, <2>3
      DEF DeleteSecretProviderClass, OtherObjects, TypeOK, PhaseOK, informer, work
    <2> QED BY <1>22, <2>1, <2>2, <2>3
  <1>23. CASE RotateSecret \/ CreateSecret \/ DeleteSecret \/ GarbageCollect
    <2>1. secret' \in Secrets \cup {None}
      BY <1>23 DEF RotateSecret, CreateSecret, DeleteSecret, GarbageCollect, TypeOK, Secrets
    <2> QED BY <1>18, <1>23, <2>1
            DEF RotateSecret, CreateSecret, DeleteSecret, GarbageCollect, OtherObjects,
                TypeOK, PhaseOK, informer, work
  <1>24. CASE Tick
    BY <1>24 DEF Tick, TypeOK, PhaseOK, Times, informer, work
  <1>25. CASE UNCHANGED vars
    BY <1>25 DEF vars, TypeOK, PhaseOK, cluster, informer, work
  <1> QED
    BY <1>1, <1>2, <1>4, <1>5, <1>6, <1>7, <1>9, <1>10, <1>12, <1>13, <1>14, <1>15,
       <1>16, <1>17, <1>19, <1>20, <1>21, <1>22, <1>23, <1>24, <1>25
    DEF Next, ReconcileStep, Environment

\* Every initial state is well typed.
LEMMA TypeInit == Init => TypeInv
  <1>1. \A p \in HasParameters :
          [uid |-> 0, generation |-> 1, parameters |-> p] \in SecretProviderClasses
    BY FlagsAssumption DEF SecretProviderClasses, UIDs, Generations
  <1> QED
    BY <1>1, BoundsAssumption DEF Init, TypeInv, TypeOK, PhaseOK, CacheOK, UIDs, Times

\* Objects, caches and working copies always have their types: no interleaving of
\* reconciles, watches, users, faults and restarts lets Reconcile work on a missing
\* object, or patch a Secret with missing data.
THEOREM TypeCorrect == Spec => []TypeOK
  <1>1. TypeInv /\ [Next]_vars => TypeInv'
    BY TypeStep
  <1>2. TypeInv => TypeOK
    BY DEF TypeInv
  <1> QED BY TypeInit, <1>1, <1>2, PTL DEF Spec

-----------------------------------------------------------------------------
(* The recorded status tells the truth about the Secret *)

\* Condition and hash agree, and an object without conditions has no hash.
Consistent(st) ==
  /\ st.conditions[ConditionTypeCreate] = "CreateSuccessful" <=> st.syncHash # None
  /\ st.conditions[ConditionTypeUpdate] = None => st.syncHash = None

\* The hash, if there is one, is of a state that was applied.
Recorded(st, hashes) == st.syncHash \in hashes \cup {None}

\* Both hold of the object, and of every copy of it that may be written back: the
\* working copy of a reconcile runs ahead of the Secret only in the phase "patch",
\* and there prev has what the rollback puts back.
StatusInv ==
  /\ ss # None => Consistent(ss.status) /\ Recorded(ss.status, applied)
  /\ \A c \in Controllers :
       /\ cache[c] # None => Consistent(cache[c].status) /\ Recorded(cache[c].status, applied)
       /\ pc[c] # "idle" => Consistent(copy[c].status)
       /\ pc[c] \in {"init", "sync", "report", "commit"} => Recorded(copy[c].status, applied)
       /\ pc[c] = "patch" => Recorded(prev[c], applied)
       /\ pc[c] = "init" => copy[c].status.syncHash = None

\* A failure is recorded under the type of its phase, so it never separates the
\* two; neither does it when hash and time have been rolled back.
LEMMA FailConsistent ==
  ASSUME NEW st \in Statuses, NEW reason \in FailedConditionsTriggeringRetry,
         \/ Consistent(st)
         \/ st.conditions[ConditionTypeCreate] = "CreateSuccessful"
  PROVE  Consistent(FailStatus(st, reason))
  <1>1. /\ reason \in Reasons /\ reason # "CreateSuccessful" /\ reason # None
    BY NoneAssumption DEF FailedConditionsTriggeringRetry, Reasons
  <1>2. /\ FailStatus(st, reason).syncHash = st.syncHash
        /\ FailStatus(st, reason).conditions
             = SetStatusCondition(st.conditions, ConditionType(st), reason)
    BY <1>1, FailStatusType
  <1>3. /\ st.conditions \in [ConditionTypes -> Reasons \cup {None}]
        /\ ConditionTypeCreate \in ConditionTypes /\ ConditionTypeUpdate \in ConditionTypes
        /\ ConditionTypeCreate # ConditionTypeUpdate
    BY StatusFields DEF ConditionTypes, ConditionTypeCreate, ConditionTypeUpdate
  <1> QED BY <1>1, <1>2, <1>3 DEF Consistent, SetStatusCondition, ConditionType

\* The conditions of a success agree with its hash.
LEMMA SuccessConsistent ==
  ASSUME NEW st \in Statuses, Consistent(st), NEW hash \in Hashes, NEW time
  PROVE  Consistent([conditions |-> SuccessConditions(st, hash), syncHash |-> hash,
                     lastSuccessfulSyncTime |-> time])
  <1>1. /\ st.conditions \in [ConditionTypes -> Reasons \cup {None}]
        /\ ConditionTypeCreate \in ConditionTypes /\ ConditionTypeUpdate \in ConditionTypes
        /\ ConditionTypeCreate # ConditionTypeUpdate
    BY StatusFields DEF ConditionTypes, ConditionTypeCreate, ConditionTypeUpdate
  <1>2. hash # None /\ "SecretUpToDate" # None
    BY NoneAssumption DEF Reasons, SuccessReasons
  <1>3. CASE st.syncHash = None
    <2>1. SuccessConditions(st, hash)
            = [[st.conditions EXCEPT ![ConditionTypeCreate] = "CreateSuccessful"]
                 EXCEPT ![ConditionTypeUpdate] = "SecretUpToDate"]
      BY <1>3 DEF SuccessConditions, SetStatusCondition, ConditionType
    <2> QED BY <1>1, <1>2, <2>1 DEF Consistent
  <1>4. CASE st.syncHash # None
    <2>1. \/ SuccessConditions(st, hash) = st.conditions
          \/ SuccessConditions(st, hash)
               = [st.conditions EXCEPT ![ConditionTypeUpdate] = "SecretUpToDate"]
      BY <1>1, <1>4 DEF SuccessConditions, SetStatusCondition, ConditionType
    <2> QED BY <1>1, <1>2, <1>4, <2>1 DEF Consistent
  <1> QED BY <1>3, <1>4

\* initConditions starts from a status without a hash.
LEMMA InitialConsistent ==
  ASSUME NEW st \in Statuses, st.syncHash = None
  PROVE  Consistent([st EXCEPT !.conditions = InitialConditions(st.conditions)])
  <1>1. /\ st.conditions \in [ConditionTypes -> Reasons \cup {None}]
        /\ ConditionTypeCreate \in ConditionTypes /\ ConditionTypeUpdate \in ConditionTypes
        /\ ConditionTypeCreate # ConditionTypeUpdate
    BY StatusFields DEF ConditionTypes, ConditionTypeCreate, ConditionTypeUpdate
  <1>2. InitialConditions(st.conditions)[ConditionTypeCreate] = "SyncStarting"
    BY <1>1 DEF InitialConditions, SetStatusCondition
  <1>3. /\ [st EXCEPT !.conditions = InitialConditions(st.conditions)].conditions
             = InitialConditions(st.conditions)
        /\ [st EXCEPT !.conditions = InitialConditions(st.conditions)].syncHash = None
    BY DEF Statuses
  <1> QED BY <1>2, <1>3 DEF Consistent

\* An object that lacks a condition has no hash yet.
LEMMA MissingMeansNoHash ==
  ASSUME NEW st \in Statuses, Consistent(st), MissingConditions(st.conditions)
  PROVE  st.syncHash = None
  <1>1. "CreateSuccessful" # None
    BY NoneAssumption DEF Reasons, SuccessReasons
  <1> QED BY <1>1 DEF MissingConditions, ConditionTypes, Consistent

\* A status update writes the given status, or nothing.
LEMMA StatusUpdateCases ==
  ASSUME TypeInv, NEW c \in Controllers, NEW st \in Statuses,
         StatusUpdateOk(c, st) \/ StatusUpdateErr(c, st)
  PROVE  \/ ss' = ss
         \/ /\ c \in freshCopy /\ ss \in SecretSyncs /\ ss' \in SecretSyncs
            /\ ss'.status = st /\ ss'.uid = ss.uid /\ ss'.generation = ss.generation
  <1>1. c \in freshCopy => ss \in SecretSyncs
    BY DEF TypeInv, TypeOK, PhaseOK
  <1>2. CASE c \in freshCopy /\ ss' = [ss EXCEPT !.status = st]
    BY <1>1, <1>2, StatusReplaced
  <1>3. CASE ss' = ss
    BY <1>3
  <1> QED BY <1>2, <1>3 DEF StatusUpdateOk, StatusUpdateErr

\* Every step preserves the truth of the status.
LEMMA StatusStep ==
  ASSUME TypeInv, TypeInv', StatusInv, [Next]_vars
  PROVE  StatusInv'
  \* What is left to show when the objects are where they were.
  <1>0. ASSUME applied \subseteq applied',
               ss' = ss \/ (ss' # None => Consistent(ss'.status) /\ Recorded(ss'.status, applied')),
               \A d \in Controllers :
                 /\ \/ cache'[d] = cache[d]
                    \/ cache'[d] = ss
                    \/ cache'[d] = None
                 /\ \/ pc'[d] = "idle"
                    \/ pc'[d] = pc[d] /\ copy'[d] = copy[d] /\ prev'[d] = prev[d]
                    \/ /\ Consistent(copy'[d].status)
                       /\ pc'[d] # "patch" => Recorded(copy'[d].status, applied')
                       /\ pc'[d] = "patch" => Recorded(prev'[d], applied')
                       /\ pc'[d] = "init" => copy'[d].status.syncHash = None
        PROVE StatusInv'
    BY <1>0 DEF StatusInv, Recorded, TypeInv, TypeOK
  <1>1. ASSUME NEW c \in Controllers, Reconcile(c) PROVE StatusInv'
    <2>1. /\ pc' = [pc EXCEPT ![c] = IF MissingConditions(cache[c].status.conditions)
                                     THEN "init" ELSE "sync"]
          /\ copy' = [copy EXCEPT ![c] = cache[c]]
          /\ cache[c] # None
          /\ UNCHANGED <<ss, cache, prev, applied>>
      BY <1>1 DEF Reconcile, informer
    <2>2. cache[c].status \in Statuses /\ Consistent(cache[c].status)
          /\ Recorded(cache[c].status, applied)
      BY <2>1, SecretSyncFields DEF StatusInv, TypeInv, TypeOK
    <2>3. MissingConditions(cache[c].status.conditions) => cache[c].status.syncHash = None
      BY <2>2, MissingMeansNoHash
    <2> QED BY <1>0, <2>1, <2>2, <2>3 DEF TypeInv, TypeOK
  <1>2. ASSUME NEW c \in Controllers, initConditions(c) PROVE StatusInv'
    <2> DEFINE st == [copy[c].status EXCEPT !.conditions = InitialConditions(@)]
    <2>1. /\ copy[c] \in SecretSyncs /\ copy[c].status \in Statuses
          /\ copy[c].status.syncHash = None
      BY <1>2, CopyType DEF initConditions, StatusInv
    <2>2. st \in Statuses
      BY <2>1, StatusFields, InitialConditionsType DEF Statuses
    <2>3. Consistent(st)
      BY <2>1, InitialConsistent
    <2>4. st.syncHash = None
      BY <2>1 DEF Statuses
    <2>5. [copy[c] EXCEPT !.status = st].status = st
      BY <2>1, <2>2, StatusReplaced
    <2>6. \/ StatusUpdateOk(c, st) /\ copy' = [copy EXCEPT ![c].status = st]
             /\ pc' = [pc EXCEPT ![c] = "sync"] /\ prev' = prev
          \/ StatusUpdateErr(c, st) /\ Done(c)
      BY <1>2 DEF initConditions, ReturnErr
    <2>7. UNCHANGED <<cache, applied>>
      BY <1>2 DEF initConditions
    <2> HIDE DEF st
    <2>8. ss' = ss \/ (Consistent(ss'.status) /\ Recorded(ss'.status, applied'))
      BY <2>2, <2>3, <2>4, <2>6, StatusUpdateCases DEF Recorded
    <2>9. \A d \in Controllers :
            \/ pc'[d] = "idle"
            \/ pc'[d] = pc[d] /\ copy'[d] = copy[d] /\ prev'[d] = prev[d]
            \/ pc'[d] = "sync" /\ copy'[d].status = st
      BY <2>5, <2>6 DEF TypeInv, TypeOK, Done
    <2> QED BY <1>0, <2>3, <2>4, <2>7, <2>8, <2>9 DEF Recorded
  <1>3. ASSUME NEW c \in Controllers, NEW st \in Statuses,
               NEW reason \in FailedConditionsTriggeringRetry,
               pc[c] # "idle", Fail(c, st, reason),
               UNCHANGED <<ss, cache, prev>>, applied \subseteq applied',
               \/ Consistent(st)
               \/ st.conditions[ConditionTypeCreate] = "CreateSuccessful",
               Recorded(st, applied)
        PROVE StatusInv'
    <2>1. reason \in Reasons
      BY FailureReasons
    <2>2. /\ copy' = [copy EXCEPT ![c] = [copy[c] EXCEPT !.status = FailStatus(st, reason)]]
          /\ copy'[c].status = FailStatus(st, reason)
          /\ pc' = [pc EXCEPT ![c] = "report"]
      BY <1>3, <2>1, FailType
    <2>3. Consistent(FailStatus(st, reason)) /\ FailStatus(st, reason).syncHash = st.syncHash
      BY <1>3, <2>1, FailConsistent, FailStatusType
    <2> QED BY <1>0, <1>3, <2>2, <2>3 DEF Recorded, TypeInv, TypeOK
  <1>4. ASSUME NEW c \in Controllers,
               ValidationFails(c) \/ SecretProviderClassNotFound(c) \/ FetchFails(c)
        PROVE StatusInv'
    <2>1. /\ pc[c] = "sync" /\ UNCHANGED <<ss, cache, prev, applied>>
          /\ \E reason \in FailedConditionsTriggeringRetry : Fail(c, copy[c].status, reason)
      BY <1>4, ValidationReason, FailureReasons
      DEF ValidationFails, SecretProviderClassNotFound, FetchFails, Fetching, informer
    <2>2. /\ copy[c].status \in Statuses /\ Consistent(copy[c].status)
          /\ Recorded(copy[c].status, applied)
      BY <2>1, CopyType DEF StatusInv
    <2> QED BY <1>3, <2>1, <2>2
  <1>5. ASSUME NEW c \in Controllers, Done(c), UNCHANGED <<ss, cache, applied>>
        PROVE StatusInv'
    BY <1>0, <1>5 DEF Done, TypeInv, TypeOK
  <1>6. ASSUME NEW c \in Controllers, ParametersPanic(c) \/ AlreadyInSync(c) PROVE StatusInv'
    BY <1>5, <1>6 DEF ParametersPanic, AlreadyInSync, ReturnErr, ReturnNil, informer
  <1>7. ASSUME NEW c \in Controllers, StartSync(c) PROVE StatusInv'
    <2> DEFINE hash == computeCurrentStateHash(store, spcCache[c], copy[c])
               st == [conditions |-> SuccessConditions(copy[c].status, hash),
                      syncHash |-> hash, lastSuccessfulSyncTime |-> clock]
    <2>1. pc[c] = "sync" /\ spcCache[c] \in SecretProviderClasses /\ store \in Versions
      BY <1>7 DEF StartSync, Fetched, Fetching, TypeInv, TypeOK
    <2>2. /\ copy[c] \in SecretSyncs /\ copy[c].status \in Statuses
          /\ Consistent(copy[c].status) /\ Recorded(copy[c].status, applied)
      BY <2>1, CopyType DEF StatusInv
    <2>3. hash \in Hashes
      BY <2>1, <2>2, HashComputed
    <2>4. st \in Statuses /\ Consistent(st)
      BY <2>2, <2>3, SuccessConditionsType, SuccessConsistent DEF Statuses, TypeInv, TypeOK
    <2>5. [copy[c] EXCEPT !.status = st].status = st
      BY <2>2, <2>4, StatusReplaced
    <2>6. /\ copy' = [copy EXCEPT ![c].status = st] /\ pc' = [pc EXCEPT ![c] = "patch"]
          /\ prev' = [prev EXCEPT ![c] =
               [syncHash |-> copy[c].status.syncHash,
                lastSuccessfulSyncTime |-> copy[c].status.lastSuccessfulSyncTime]]
          /\ UNCHANGED <<ss, cache, applied>>
      BY <1>7 DEF StartSync, informer
    <2> HIDE DEF hash, st
    <2>7. /\ pc'[c] = "patch" /\ copy'[c].status = st
          /\ prev'[c].syncHash = copy[c].status.syncHash
          /\ \A d \in Controllers \ {c} :
               pc'[d] = pc[d] /\ copy'[d] = copy[d] /\ prev'[d] = prev[d]
      BY <2>5, <2>6 DEF TypeInv, TypeOK
    <2>8. Recorded(prev'[c], applied')
      BY <2>2, <2>6, <2>7 DEF Recorded
    <2> QED BY <1>0, <2>4, <2>6, <2>7, <2>8
  <1>8. ASSUME NEW c \in Controllers, serverSidePatchSecret(c) PROVE StatusInv'
    <2>1. /\ pc[c] = "patch" /\ pc' = [pc EXCEPT ![c] = "commit"]
          /\ applied' = applied \cup {copy[c].status.syncHash}
          /\ UNCHANGED <<ss, cache, copy, prev>>
      BY <1>8 DEF serverSidePatchSecret, Patched, informer
    <2>2. Consistent(copy[c].status)
      BY <2>1 DEF StatusInv
    <2> QED BY <1>0, <2>1, <2>2 DEF Recorded, TypeInv, TypeOK
  <1>9. ASSUME NEW c \in Controllers, PatchRejected(c) \/ PatchFails(c) PROVE StatusInv'
    <2>1. /\ pc[c] = "patch" /\ Fail(c, RolledBack(c), "ControllerPatchError")
          /\ UNCHANGED <<ss, cache, prev>> /\ applied \subseteq applied'
      BY <1>9 DEF PatchRejected, PatchFails, Patched, informer
    <2>2. /\ copy[c].status \in Statuses /\ prev[c] \in SyncRecords
          /\ Consistent(copy[c].status) /\ copy[c].status.syncHash # None
          /\ Recorded(prev[c], applied)
      BY <2>1, CopyType DEF TypeInv, TypeOK, PhaseOK, StatusInv
    <2>3. /\ RolledBack(c) \in Statuses /\ RolledBack(c).syncHash = prev[c].syncHash
          /\ RolledBack(c).conditions = copy[c].status.conditions
      BY <2>2 DEF RolledBack, Statuses, SyncRecords
    <2>4. RolledBack(c).conditions[ConditionTypeCreate] = "CreateSuccessful"
      BY <2>2, <2>3 DEF Consistent
    <2>5. Recorded(RolledBack(c), applied)
      BY <2>2, <2>3 DEF Recorded
    <2> QED BY <1>3, <2>1, <2>3, <2>4, <2>5, FailureReasons
  <1>10. ASSUME NEW c \in Controllers, ReportFailure(c) \/ UpdateStatus(c) PROVE StatusInv'
    <2>1. /\ pc[c] \in {"report", "commit"} /\ Done(c) /\ UNCHANGED <<cache, applied>>
          /\ StatusUpdateOk(c, copy[c].status) \/ StatusUpdateErr(c, copy[c].status)
      BY <1>10 DEF ReportFailure, UpdateStatus, ReturnErr, ReturnNil
    <2>2. /\ copy[c].status \in Statuses /\ Consistent(copy[c].status)
          /\ Recorded(copy[c].status, applied)
      BY <2>1, CopyType DEF StatusInv
    <2>3. ss' = ss \/ (Consistent(ss'.status) /\ Recorded(ss'.status, applied'))
      BY <2>1, <2>2, StatusUpdateCases
    <2>4. \A d \in Controllers :
            \/ pc'[d] = "idle"
            \/ pc'[d] = pc[d] /\ copy'[d] = copy[d] /\ prev'[d] = prev[d]
      BY <2>1 DEF Done, TypeInv, TypeOK
    <2> QED BY <1>0, <2>1, <2>3, <2>4
  <1>11. ASSUME NEW c \in Controllers,
                WatchEvent(c) \/ RelistEvent(c) \/ SpcWatchEvent(c) \/ Poll(c)
         PROVE StatusInv'
    BY <1>0, <1>11
    DEF WatchEvent, RelistEvent, SpcWatchEvent, Poll, TypeInv, TypeOK, informer, work
  <1>12. ASSUME NEW c \in Controllers, Crash(c) PROVE StatusInv'
    <2>1. \A d \in Controllers :
            /\ cache'[d] = cache[d] \/ cache'[d] = None
            /\ \/ pc'[d] = "idle"
               \/ pc'[d] = pc[d] /\ copy'[d] = copy[d] /\ prev'[d] = prev[d]
      BY <1>12 DEF Crash, Done, TypeInv, TypeOK
    <2>2. ss' = ss /\ applied' = applied
      BY <1>12 DEF Crash
    <2> QED BY <1>0, <2>1, <2>2
  <1>13. ASSUME UNCHANGED <<cache, pc, copy, prev, applied>>,
                ss' = ss \/ (ss' # None => Consistent(ss'.status)
                                           /\ Recorded(ss'.status, applied'))
         PROVE StatusInv'
    BY <1>0, <1>13
  <1>14. CASE CreateSecretSync
    <2>1. ss'.status = EmptyStatus
      BY <1>14 DEF CreateSecretSync
    <2>2. EmptyStatus.syncHash = None /\ EmptyStatus.conditions = NoConditions
      BY DEF EmptyStatus
    <2>3. "CreateSuccessful" # None /\ NoConditions[ConditionTypeCreate] = None
      BY NoneAssumption DEF Reasons, SuccessReasons, NoConditions, ConditionTypes
    <2> QED BY <1>13, <1>14, <2>1, <2>2, <2>3 DEF CreateSecretSync, Consistent, Recorded
  <1>15. CASE EditSecretSync
    <2>1. ss \in SecretSyncs
      BY <1>15 DEF EditSecretSync, TypeInv, TypeOK
    <2>2. ss'.status = ss.status
      BY <1>15, <2>1 DEF EditSecretSync, SecretSyncs
    <2>3. UNCHANGED <<cache, pc, copy, prev, applied>> /\ ss # None
      BY <1>15 DEF EditSecretSync
    <2> QED BY <1>13, <2>2, <2>3 DEF StatusInv
  <1>16. CASE \/ DeleteSecretSync \/ CreateSecretProviderClass \/ EditSecretProviderClass
              \/ DeleteSecretProviderClass \/ RotateSecret \/ CreateSecret
              \/ DeleteSecret \/ GarbageCollect \/ Tick
    BY <1>13, <1>16
    DEF DeleteSecretSync, CreateSecretProviderClass, EditSecretProviderClass,
        DeleteSecretProviderClass, RotateSecret, CreateSecret, DeleteSecret,
        GarbageCollect, Tick, OtherObjects, informer, work
  <1>17. CASE UNCHANGED vars
    BY <1>13, <1>17 DEF vars, informer, work
  <1> QED
    BY <1>1, <1>2, <1>4, <1>6, <1>7, <1>8, <1>9, <1>10, <1>11, <1>12, <1>14, <1>15,
       <1>16, <1>17
    DEF Next, ReconcileStep, Environment

\* The inductive invariant of both theorems.
LEMMA StatusInductive == Spec => [](TypeInv /\ StatusInv)
  <1>1. Init => StatusInv
    BY DEF Init, StatusInv
  <1>2. TypeInv /\ StatusInv /\ [Next]_vars => (TypeInv /\ StatusInv)'
    BY TypeStep, StatusStep
  <1> QED BY TypeInit, <1>1, <1>2, PTL DEF Spec

\* However reconciles fail, conflict and restart, the status says CreateSuccessful
\* exactly when it records a hash: what users read and what line 125 reads agree.
THEOREM CreatedIffHashHolds == Spec => []CreatedIffHash
  <1>1. StatusInv => CreatedIffHash
    BY DEF StatusInv, Consistent, CreatedIffHash, Condition
  <1> QED BY StatusInductive, <1>1, PTL

\* However many controllers race, the hash in the status belongs to a state that
\* was applied to the Secret: the in-memory assignment of line 196 never escapes.
THEOREM HashWasAppliedHolds == Spec => []HashWasApplied
  <1>1. StatusInv => HashWasApplied
    BY DEF StatusInv, Recorded, HashWasApplied
  <1> QED BY StatusInductive, <1>1, PTL

-----------------------------------------------------------------------------
(* The recorded sync never goes back *)

\* The sync recorded in a status is of the past: of a generation that the object
\* has reached and of a time that has come.
RecordOK(generation, st, now) ==
  /\ st.syncHash # None => /\ st.lastSuccessfulSyncTime # None
                           /\ st.syncHash.ssGeneration <= generation
  /\ st.lastSuccessfulSyncTime # None => st.lastSuccessfulSyncTime <= now

\* The status s records the same sync as t.
SameSync(s, t) ==
  /\ s.syncHash = t.syncHash
  /\ s.lastSuccessfulSyncTime = t.lastSuccessfulSyncTime

\* What the reconcile of c holds, and how it relates to the object it may write as
\* long as its resourceVersion is current: the same sync until StartSync and after
\* a rollback, a sync that is not older in between.
Ahead(c) ==
  /\ pc[c] # "idle" => RecordOK(copy[c].generation, copy[c].status, clock)
  /\ pc[c] = "patch" => RecordOK(copy[c].generation, prev[c], clock)
  /\ pc[c] \in {"patch", "commit"} =>
       copy[c].status.syncHash.ssGeneration = copy[c].generation
  /\ c \in freshCopy =>
       /\ ss.generation = copy[c].generation
       /\ pc[c] \in {"init", "sync", "report"} => SameSync(copy[c].status, ss.status)
       /\ pc[c] = "patch" => SameSync(prev[c], ss.status)
       /\ pc[c] \in {"patch", "commit"} /\ ss.status.syncHash # None =>
            copy[c].status.lastSuccessfulSyncTime >= ss.status.lastSuccessfulSyncTime

SyncInv ==
  /\ ss # None => RecordOK(ss.generation, ss.status, clock)
  /\ \A c \in Controllers : cache[c] # None => RecordOK(cache[c].generation, cache[c].status, clock)
  /\ \A c \in Controllers : Ahead(c)

\* What is past stays past.
LEMMA RecordStays ==
  ASSUME NEW generation, NEW st, st.lastSuccessfulSyncTime \in Nat \cup {None},
         NEW now \in Nat, NEW then \in Nat, now <= then, RecordOK(generation, st, now)
  PROVE  RecordOK(generation, st, then)
  BY DEF RecordOK

\* Every step preserves SyncInv.
LEMMA SyncStep ==
  ASSUME TypeInv, TypeInv', SyncInv, [Next]_vars
  PROVE  SyncInv'
  <1>t. clock \in Nat /\ clock' \in Nat /\ ss \in SecretSyncs \cup {None}
    BY DEF TypeInv, TypeOK, Times
  <1>k. \A d \in Controllers : /\ cache[d] \in SecretSyncs \cup {None}
                               /\ pc[d] # "idle" => copy[d] \in SecretSyncs
                               /\ pc[d] = "patch" => prev[d] \in SyncRecords
    BY CopyType DEF TypeInv, TypeOK, PhaseOK
  <1>s. /\ \A s \in SecretSyncs : s.status.lastSuccessfulSyncTime \in Nat \cup {None}
        /\ \A r \in SyncRecords : r.lastSuccessfulSyncTime \in Nat \cup {None}
    BY SecretSyncFields, StatusFields DEF SyncRecords, Times
  \* What is left to show when the objects are where they were.
  <1>0. ASSUME clock <= clock',
               ss' = ss \/ (ss' # None => RecordOK(ss'.generation, ss'.status, clock')),
               \A d \in Controllers :
                 /\ cache'[d] = cache[d] \/ cache'[d] = ss \/ cache'[d] = None
                 /\ \/ pc'[d] = "idle"
                    \/ /\ pc'[d] = pc[d] /\ copy'[d] = copy[d] /\ prev'[d] = prev[d]
                       /\ d \in freshCopy' => d \in freshCopy /\ ss' = ss
                    \/ Ahead(d)'
        PROVE SyncInv'
    <2>1. ss # None => RecordOK(ss.generation, ss.status, clock')
      BY <1>0, <1>s, <1>t, RecordStays DEF SyncInv
    <2>2. \A d \in Controllers : cache[d] # None => RecordOK(cache[d].generation, cache[d].status, clock')
      BY <1>0, <1>k, <1>s, <1>t, RecordStays DEF SyncInv
    <2>3. \A d \in Controllers : pc[d] # "idle" => RecordOK(copy[d].generation, copy[d].status, clock')
      BY <1>0, <1>k, <1>s, <1>t, RecordStays DEF SyncInv, Ahead
    <2>5. \A d \in Controllers :
            pc[d] = "patch" => RecordOK(copy[d].generation, prev[d], clock')
      BY <1>0, <1>k, <1>s, <1>t, RecordStays DEF SyncInv, Ahead
    <2>4. ASSUME NEW d \in Controllers PROVE Ahead(d)'
      <3>1. CASE pc'[d] = "idle"
        BY <3>1 DEF Ahead, TypeInv, PhaseOK
      <3>2. CASE /\ pc'[d] = pc[d] /\ copy'[d] = copy[d] /\ prev'[d] = prev[d]
                 /\ d \in freshCopy' => d \in freshCopy /\ ss' = ss
        BY <2>3, <2>5, <3>2 DEF SyncInv, Ahead
      <3> QED BY <1>0, <3>1, <3>2
    <2> QED BY <1>0, <2>1, <2>2, <2>4 DEF SyncInv
  <1>1. ASSUME NEW c \in Controllers, Reconcile(c) PROVE SyncInv'
    <2>1. /\ pc'[c] \in {"init", "sync"} /\ copy'[c] = cache[c] /\ cache[c] # None
          /\ c \in freshCopy' => c \in freshCache
          /\ UNCHANGED <<ss, clock, cache, prev>>
          /\ \A d \in Controllers \ {c} :
               /\ pc'[d] = pc[d] /\ copy'[d] = copy[d]
               /\ d \in freshCopy' => d \in freshCopy
      BY <1>1 DEF Reconcile, cluster, informer, TypeInv, TypeOK
    <2>2. c \in freshCopy' => ss = cache[c]
      BY <2>1 DEF TypeInv, CacheOK
    <2>3. RecordOK(cache[c].generation, cache[c].status, clock)
      BY <2>1 DEF SyncInv
    <2>4. Ahead(c)'
      BY <2>1, <2>2, <2>3 DEF Ahead, SameSync
    <2> QED BY <1>0, <1>t, <2>1, <2>4
  \* A status write that carries the sync on, or repeats it.
  <1>2. ASSUME NEW c \in Controllers, NEW st \in Statuses, pc[c] # "idle",
               StatusUpdateOk(c, st) \/ StatusUpdateErr(c, st),
               RecordOK(copy[c].generation, copy[c].status, clock), SameSync(st, copy[c].status)
        PROVE ss' = ss \/ RecordOK(ss'.generation, ss'.status, clock)
    <2>1. CASE ss' = ss
      BY <2>1
    <2>2. CASE /\ c \in freshCopy /\ ss' \in SecretSyncs /\ ss'.status = st
               /\ ss'.generation = ss.generation
      <3>1. ss'.generation = copy[c].generation
        BY <2>2 DEF SyncInv, Ahead
      <3> QED BY <1>2, <2>2, <3>1 DEF RecordOK, SameSync
    <2> QED BY <1>2, <2>1, <2>2, StatusUpdateCases
  <1>3. ASSUME NEW c \in Controllers, initConditions(c) PROVE SyncInv'
    <2> DEFINE st == [copy[c].status EXCEPT !.conditions = InitialConditions(@)]
    <2>1. /\ pc[c] = "init" /\ copy[c] \in SecretSyncs /\ copy[c].status \in Statuses
          /\ RecordOK(copy[c].generation, copy[c].status, clock)
      BY <1>3, CopyType DEF initConditions, SyncInv, Ahead
    <2>2. st \in Statuses
      BY <2>1, StatusFields, InitialConditionsType DEF Statuses
    <2>3. SameSync(st, copy[c].status)
      BY <2>1 DEF SameSync, Statuses
    <2>4. UNCHANGED <<cache, clock>>
      BY <1>3 DEF initConditions, cluster
    <2>5. CASE /\ StatusUpdateOk(c, st) /\ copy' = [copy EXCEPT ![c].status = st]
               /\ freshCopy' = (IF ss' = ss THEN freshCopy ELSE {c})
               /\ pc' = [pc EXCEPT ![c] = "sync"] /\ prev' = prev
      <3>1. /\ copy'[c].status = st /\ copy'[c].generation = copy[c].generation
            /\ pc'[c] = "sync"
            /\ \A d \in Controllers \ {c} :
                 /\ pc'[d] = pc[d] /\ copy'[d] = copy[d] /\ prev'[d] = prev[d]
                 /\ d \in freshCopy' => d \in freshCopy /\ ss' = ss
        <4> HIDE DEF st
        <4> QED BY <2>1, <2>2, <2>5, StatusReplaced DEF TypeInv, TypeOK
      <3>2. ss' = ss \/ RecordOK(ss'.generation, ss'.status, clock)
        BY <1>2, <2>1, <2>2, <2>3, <2>5
      <3>3. /\ c \in freshCopy /\ ss \in SecretSyncs
        BY <2>5 DEF StatusUpdateOk, TypeInv, TypeOK, PhaseOK
      <3>4. ss'.generation = copy[c].generation /\ ss'.status = st
        <4>1. ss' = [ss EXCEPT !.status = st]
          BY <2>5 DEF StatusUpdateOk
        <4>2. ss.generation = copy[c].generation
          BY <3>3 DEF SyncInv, Ahead
        <4> HIDE DEF st
        <4> QED BY <2>2, <3>3, <4>1, <4>2, StatusReplaced
      <3>5. Ahead(c)'
        <4> HIDE DEF st
        <4> QED BY <2>1, <2>3, <2>4, <3>1, <3>4 DEF Ahead, SameSync, RecordOK
      <3> QED BY <1>0, <1>t, <2>4, <3>1, <3>2, <3>5
    <2>6. CASE StatusUpdateErr(c, st) /\ Done(c)
      <3>1. ss' = ss \/ RecordOK(ss'.generation, ss'.status, clock)
        BY <1>2, <2>1, <2>2, <2>3, <2>6
      <3>2. \A d \in Controllers :
              \/ pc'[d] = "idle"
              \/ /\ pc'[d] = pc[d] /\ copy'[d] = copy[d] /\ prev'[d] = prev[d]
                 /\ d \in freshCopy' => d \in freshCopy /\ ss' = ss
        BY <2>6 DEF Done, TypeInv, TypeOK
      <3> QED BY <1>0, <1>t, <2>4, <3>1, <3>2
    <2> QED BY <1>3, <2>5, <2>6 DEF initConditions, ReturnErr
  <1>4. ASSUME NEW c \in Controllers, NEW st \in Statuses, NEW reason \in Reasons,
               pc[c] # "idle", Fail(c, st, reason),
               UNCHANGED <<ss, clock, cache, prev, freshCopy>>,
               RecordOK(copy[c].generation, st, clock),
               c \in freshCopy => SameSync(st, ss.status)
        PROVE SyncInv'
    <2>1. /\ copy' = [copy EXCEPT ![c] = [copy[c] EXCEPT !.status = FailStatus(st, reason)]]
          /\ copy'[c].status = FailStatus(st, reason)
          /\ pc' = [pc EXCEPT ![c] = "report"]
      BY <1>4, FailType
    <2>2. SameSync(FailStatus(st, reason), st)
      BY FailStatusType DEF SameSync
    <2>3. /\ [copy[c] EXCEPT !.status = st].status = st
          /\ [copy[c] EXCEPT !.status = st].generation = copy[c].generation
          /\ copy'[c].generation = copy[c].generation
      BY <1>4, <1>k, <2>1, StatusReplaced, FailStatusType DEF TypeInv, TypeOK
    <2>4. RecordOK(copy'[c].generation, copy'[c].status, clock)
      BY <1>4, <2>1, <2>2, <2>3 DEF RecordOK, SameSync
    <2>5. pc'[c] = "report"
      BY <2>1 DEF TypeInv, TypeOK
    <2>6. Ahead(c)'
      BY <1>4, <2>1, <2>2, <2>3, <2>4, <2>5 DEF Ahead, SameSync, SyncInv
    <2>7. \A d \in Controllers \ {c} : pc'[d] = pc[d] /\ copy'[d] = copy[d]
      BY <2>1 DEF TypeInv, TypeOK
    <2> QED BY <1>0, <1>4, <1>t, <2>6, <2>7
  <1>5. ASSUME NEW c \in Controllers,
               ValidationFails(c) \/ SecretProviderClassNotFound(c) \/ FetchFails(c)
        PROVE SyncInv'
    <2>1. /\ pc[c] = "sync" /\ UNCHANGED <<ss, clock, cache, prev, freshCopy>>
          /\ \E reason \in Reasons : Fail(c, copy[c].status, reason)
      BY <1>5, ValidationReason, FailureReasons
      DEF ValidationFails, SecretProviderClassNotFound, FetchFails, Fetching, informer, cluster
    <2>2. /\ copy[c] \in SecretSyncs /\ copy[c].status \in Statuses
          /\ RecordOK(copy[c].generation, copy[c].status, clock)
          /\ c \in freshCopy => SameSync(copy[c].status, ss.status)
      BY <2>1, CopyType DEF SyncInv, Ahead
    <2> QED BY <1>4, <2>1, <2>2
  <1>6. ASSUME NEW c \in Controllers, Done(c), UNCHANGED <<cache, clock>>,
               ss' = ss \/ RecordOK(ss'.generation, ss'.status, clock)
        PROVE SyncInv'
    <2>1. \A d \in Controllers :
            \/ pc'[d] = "idle"
            \/ /\ pc'[d] = pc[d] /\ copy'[d] = copy[d] /\ prev'[d] = prev[d]
               /\ d \in freshCopy' => d \in freshCopy /\ ss' = ss
      BY <1>6 DEF Done, TypeInv, TypeOK
    <2> QED BY <1>0, <1>6, <1>t, <2>1
  <1>7. ASSUME NEW c \in Controllers, ParametersPanic(c) \/ AlreadyInSync(c) PROVE SyncInv'
    BY <1>6, <1>7 DEF ParametersPanic, AlreadyInSync, ReturnErr, ReturnNil, informer, cluster
  <1>8. ASSUME NEW c \in Controllers, StartSync(c) PROVE SyncInv'
    <2> DEFINE hash == computeCurrentStateHash(store, spcCache[c], copy[c])
               st == [conditions |-> SuccessConditions(copy[c].status, hash),
                      syncHash |-> hash, lastSuccessfulSyncTime |-> clock]
    <2>1. pc[c] = "sync" /\ spcCache[c] \in SecretProviderClasses /\ store \in Versions
      BY <1>8 DEF StartSync, Fetched, Fetching, TypeInv, TypeOK
    <2>2. copy[c] \in SecretSyncs /\ copy[c].status \in Statuses
      BY <2>1, CopyType
    <2>3. hash \in Hashes /\ hash.ssGeneration = copy[c].generation
      BY <2>1, <2>2, HashComputed
    <2>4. st \in Statuses /\ st.syncHash = hash /\ st.lastSuccessfulSyncTime = clock
      BY <2>2, <2>3, SuccessConditionsType DEF Statuses, TypeInv, TypeOK
    <2>5. /\ copy' = [copy EXCEPT ![c].status = st] /\ pc' = [pc EXCEPT ![c] = "patch"]
          /\ prev' = [prev EXCEPT ![c] =
               [syncHash |-> copy[c].status.syncHash,
                lastSuccessfulSyncTime |-> copy[c].status.lastSuccessfulSyncTime]]
          /\ UNCHANGED <<ss, clock, cache, freshCopy>>
      BY <1>8 DEF StartSync, informer, cluster
    <2> HIDE DEF hash, st
    <2>6. /\ pc'[c] = "patch" /\ copy'[c].status = st
          /\ copy'[c].generation = copy[c].generation
          /\ SameSync(prev'[c], copy[c].status)
          /\ \A d \in Controllers \ {c} :
               pc'[d] = pc[d] /\ copy'[d] = copy[d] /\ prev'[d] = prev[d]
      BY <2>2, <2>4, <2>5, StatusReplaced DEF SameSync, TypeInv, TypeOK
    <2>7. copy[c].generation \in Nat
      BY <2>2, SecretSyncFields DEF Generations
    <2>8. RecordOK(copy'[c].generation, copy'[c].status, clock) /\ copy'[c].status.syncHash.ssGeneration = copy'[c].generation
      BY <1>t, <2>3, <2>4, <2>6, <2>7, NoneAssumption DEF RecordOK
    <2>9. c \in freshCopy => /\ ss.generation = copy[c].generation
                             /\ SameSync(copy[c].status, ss.status)
                             /\ ss # None /\ RecordOK(ss.generation, ss.status, clock)
      BY <2>1 DEF SyncInv, Ahead, TypeInv, PhaseOK
    <2>10. c \in freshCopy /\ ss.status.syncHash # None =>
             clock >= ss.status.lastSuccessfulSyncTime
      <3>1. ss # None => ss.status.lastSuccessfulSyncTime \in Nat \cup {None}
        BY <1>t, SecretSyncFields, StatusFields DEF Times
      <3> QED BY <1>t, <2>9, <3>1 DEF RecordOK
    <2>11. RecordOK(copy[c].generation, prev'[c], clock)
      BY <2>1, <2>6 DEF SyncInv, Ahead, RecordOK, SameSync
    <2>12. Ahead(c)'
      BY <2>11, <2>4, <2>5, <2>6, <2>8, <2>9, <2>10 DEF Ahead, SameSync
    <2> QED BY <1>0, <1>t, <2>5, <2>6, <2>12
  <1>9. ASSUME NEW c \in Controllers, serverSidePatchSecret(c) PROVE SyncInv'
    <2>1. /\ pc[c] = "patch" /\ pc' = [pc EXCEPT ![c] = "commit"]
          /\ UNCHANGED <<ss, clock, cache, copy, prev, freshCopy>>
      BY <1>9 DEF serverSidePatchSecret, informer
    <2>2. pc'[c] = "commit" /\ \A d \in Controllers \ {c} : pc'[d] = pc[d]
      BY <2>1 DEF TypeInv, TypeOK
    <2>3. Ahead(c)'
      BY <2>1, <2>2 DEF SyncInv, Ahead
    <2> QED BY <1>0, <1>t, <2>1, <2>2, <2>3
  <1>10. ASSUME NEW c \in Controllers, PatchRejected(c) \/ PatchFails(c) PROVE SyncInv'
    <2>1. /\ pc[c] = "patch" /\ Fail(c, RolledBack(c), "ControllerPatchError")
          /\ UNCHANGED <<ss, clock, cache, prev, freshCopy>>
      BY <1>10 DEF PatchRejected, PatchFails, informer, cluster
    <2>2. copy[c] \in SecretSyncs /\ copy[c].status \in Statuses /\ prev[c] \in SyncRecords
      BY <2>1, CopyType DEF TypeInv, TypeOK, PhaseOK
    <2>3. RolledBack(c) \in Statuses /\ SameSync(RolledBack(c), prev[c])
      BY <2>2 DEF RolledBack, Statuses, SyncRecords, SameSync
    <2>4. c \in freshCopy => SameSync(RolledBack(c), ss.status)
      BY <2>1, <2>3 DEF SyncInv, Ahead, SameSync
    <2>5. RecordOK(copy[c].generation, RolledBack(c), clock)
      BY <2>1, <2>3 DEF SyncInv, Ahead, RecordOK, SameSync
    <2> QED BY <1>4, <2>1, <2>3, <2>4, <2>5, FailureReasons
  <1>11. ASSUME NEW c \in Controllers, ReportFailure(c) \/ UpdateStatus(c) PROVE SyncInv'
    <2>1. /\ pc[c] \in {"report", "commit"} /\ Done(c) /\ UNCHANGED <<cache, clock>>
          /\ StatusUpdateOk(c, copy[c].status) \/ StatusUpdateErr(c, copy[c].status)
      BY <1>11 DEF ReportFailure, UpdateStatus, ReturnErr, ReturnNil, cluster
    <2>2. /\ copy[c].status \in Statuses
          /\ RecordOK(copy[c].generation, copy[c].status, clock)
      BY <2>1, CopyType DEF SyncInv, Ahead
    <2>3. ss' = ss \/ RecordOK(ss'.generation, ss'.status, clock)
      BY <1>2, <2>1, <2>2 DEF SameSync
    <2> QED BY <1>6, <2>1, <2>3
  <1>12. ASSUME NEW c \in Controllers,
                WatchEvent(c) \/ RelistEvent(c) \/ SpcWatchEvent(c) \/ Poll(c)
         PROVE SyncInv'
    <2>1. UNCHANGED <<ss, clock, pc, copy, prev, freshCopy>>
      BY <1>12 DEF WatchEvent, RelistEvent, SpcWatchEvent, Poll, cluster, work
    <2>2. \A d \in Controllers : cache'[d] = cache[d] \/ cache'[d] = ss
      BY <1>12 DEF WatchEvent, RelistEvent, SpcWatchEvent, Poll, informer, TypeInv, TypeOK
    <2> QED BY <1>0, <1>t, <2>1, <2>2
  <1>13. ASSUME NEW c \in Controllers, Crash(c) PROVE SyncInv'
    <2>1. \A d \in Controllers :
            /\ cache'[d] = cache[d] \/ cache'[d] = None
            /\ \/ pc'[d] = "idle"
               \/ /\ pc'[d] = pc[d] /\ copy'[d] = copy[d] /\ prev'[d] = prev[d]
                  /\ d \in freshCopy' => d \in freshCopy
      BY <1>13 DEF Crash, Done, TypeInv, TypeOK
    <2>2. ss' = ss /\ clock' = clock
      BY <1>13 DEF Crash, cluster
    <2> QED BY <1>0, <1>t, <2>1, <2>2
  <1>14. ASSUME UNCHANGED <<cache, pc, copy, prev>>, clock <= clock',
                \/ ss' = ss /\ freshCopy' = freshCopy
                \/ /\ freshCopy' = {}
                   /\ ss' # None => RecordOK(ss'.generation, ss'.status, clock')
         PROVE SyncInv'
    BY <1>0, <1>14
  <1>15. CASE CreateSecretSync
    <2>1. ss'.status = EmptyStatus
      BY <1>15 DEF CreateSecretSync
    <2>2. EmptyStatus.syncHash = None /\ EmptyStatus.lastSuccessfulSyncTime = None
      BY DEF EmptyStatus
    <2>3. /\ UNCHANGED <<cache, pc, copy, prev, clock>> /\ freshCopy' = {}
      BY <1>15 DEF CreateSecretSync, SecretSyncWritten
    <2> QED BY <1>14, <1>t, <2>1, <2>2, <2>3 DEF RecordOK
  <1>16. CASE EditSecretSync
    <2>1. ss \in SecretSyncs /\ ss # None
      BY <1>16 DEF EditSecretSync, TypeInv, TypeOK
    <2>2. ss'.status = ss.status /\ ss'.generation = ss.generation + 1
      BY <1>16, <2>1 DEF EditSecretSync, SecretSyncs
    <2>3. UNCHANGED <<cache, pc, copy, prev, clock>> /\ freshCopy' = {}
      BY <1>16 DEF EditSecretSync, SecretSyncWritten
    <2>4. /\ ss.generation \in Nat
          /\ ss.status.syncHash # None => ss.status.syncHash.ssGeneration \in Nat
      BY <2>1, SecretSyncFields, StatusFields DEF Generations, Hashes
    <2>5. RecordOK(ss.generation, ss.status, clock)
      BY <2>1 DEF SyncInv
    <2>6. RecordOK(ss'.generation, ss'.status, clock)
      BY <2>2, <2>4, <2>5 DEF RecordOK
    <2> QED BY <1>14, <1>t, <2>3, <2>6
  <1>17. CASE DeleteSecretSync
    <2>1. /\ ss' = None /\ freshCopy' = {}
          /\ UNCHANGED <<cache, pc, copy, prev, clock>>
      BY <1>17 DEF DeleteSecretSync, SecretSyncWritten
    <2> QED BY <1>14, <1>t, <2>1
  <1>18. CASE \/ CreateSecretProviderClass \/ EditSecretProviderClass
              \/ DeleteSecretProviderClass \/ RotateSecret \/ CreateSecret \/ DeleteSecret
              \/ GarbageCollect
    <2>1. UNCHANGED <<ss, cache, pc, copy, prev, clock, freshCopy>>
      BY <1>18
      DEF CreateSecretProviderClass, EditSecretProviderClass, DeleteSecretProviderClass,
          RotateSecret, CreateSecret, DeleteSecret, GarbageCollect, OtherObjects,
          informer, work
    <2> QED BY <1>14, <1>t, <2>1
  <1>19. CASE Tick
    <2>1. UNCHANGED <<ss, cache, pc, copy, prev, freshCopy>> /\ clock' = clock + 1
      BY <1>19 DEF Tick, informer, work
    <2> QED BY <1>14, <1>t, <2>1
  <1>20. CASE UNCHANGED vars
    BY <1>14, <1>t, <1>20 DEF vars, cluster, informer, work
  <1> QED
    BY <1>1, <1>3, <1>5, <1>7, <1>8, <1>9, <1>10, <1>11, <1>12, <1>13, <1>15, <1>16,
       <1>17, <1>18, <1>19, <1>20
    DEF Next, ReconcileStep, Environment

\* A status write never takes the recorded sync back.
LEMMA NoRegressStep ==
  ASSUME TypeInv, SyncInv, [Next]_vars, ss # None, ss' # None, ss.uid = ss'.uid,
         ss.status.syncHash # None
  PROVE  /\ ss'.status.syncHash # None
         /\ ss'.status.syncHash.ssGeneration >= ss.status.syncHash.ssGeneration
         /\ ss'.status.lastSuccessfulSyncTime >= ss.status.lastSuccessfulSyncTime
  <1>1. /\ ss \in SecretSyncs /\ ss.generation \in Nat
        /\ ss.status.syncHash.ssGeneration \in Nat
        /\ ss.status.syncHash.ssGeneration <= ss.generation
        /\ ss.status.lastSuccessfulSyncTime \in Nat
    BY SecretSyncFields, StatusFields
    DEF TypeInv, TypeOK, SyncInv, RecordOK, Generations, Hashes, Times
  <1>2. CASE ss'.status = ss.status
    BY <1>1, <1>2
  <1>3. ASSUME NEW c \in Controllers, NEW st \in Statuses, pc[c] # "idle",
               StatusUpdateOk(c, st) \/ StatusUpdateErr(c, st),
               SameSync(st, copy[c].status)
        PROVE \/ ss' = ss
              \/ ss'.status = st /\ SameSync(st, ss.status)
              \/ /\ ss'.status = st /\ st.syncHash # None
                 /\ st.syncHash.ssGeneration = ss.generation
                 /\ st.lastSuccessfulSyncTime >= ss.status.lastSuccessfulSyncTime
    <2>1. CASE ss' = ss
      BY <2>1
    <2>2. CASE c \in freshCopy /\ ss'.status = st
      <3>1. CASE pc[c] \in {"init", "sync", "report"}
        BY <1>3, <2>2, <3>1 DEF SyncInv, Ahead, SameSync
      <3>2. CASE pc[c] \in {"patch", "commit"}
        BY <1>3, <2>2, <3>2 DEF SyncInv, Ahead, SameSync, TypeInv, PhaseOK
      <3> QED BY <1>3, <3>1, <3>2 DEF TypeInv, TypeOK
    <2> QED BY <1>3, <2>1, <2>2, StatusUpdateCases
  <1>4. ASSUME NEW c \in Controllers, NEW st \in Statuses, pc[c] # "idle",
               StatusUpdateOk(c, st) \/ StatusUpdateErr(c, st),
               SameSync(st, copy[c].status)
        PROVE /\ ss'.status.syncHash # None
              /\ ss'.status.syncHash.ssGeneration >= ss.status.syncHash.ssGeneration
              /\ ss'.status.lastSuccessfulSyncTime >= ss.status.lastSuccessfulSyncTime
    BY <1>1, <1>3, <1>4 DEF SameSync
  <1>5. ASSUME NEW c \in Controllers, initConditions(c)
        PROVE \E st \in Statuses : /\ StatusUpdateOk(c, st) \/ StatusUpdateErr(c, st)
                                   /\ SameSync(st, copy[c].status) /\ pc[c] # "idle"
    <2> DEFINE st == [copy[c].status EXCEPT !.conditions = InitialConditions(@)]
    <2>1. copy[c].status \in Statuses
      BY <1>5, CopyType DEF initConditions
    <2>2. st \in Statuses /\ SameSync(st, copy[c].status)
      BY <2>1, StatusFields, InitialConditionsType DEF Statuses, SameSync
    <2> QED BY <1>5, <2>2 DEF initConditions
  <1>6. ASSUME NEW c \in Controllers, ReportFailure(c) \/ UpdateStatus(c)
        PROVE \E st \in Statuses : /\ StatusUpdateOk(c, st) \/ StatusUpdateErr(c, st)
                                   /\ SameSync(st, copy[c].status) /\ pc[c] # "idle"
    BY <1>6, CopyType DEF ReportFailure, UpdateStatus, SameSync
  <1>7. CASE EditSecretSync
    BY <1>1, <1>2, <1>7 DEF EditSecretSync, SecretSyncs
  <1>8. CASE UNCHANGED ss
    BY <1>2, <1>8
  <1>9. ASSUME NEW c \in Controllers, ReconcileStep(c)
        PROVE initConditions(c) \/ ReportFailure(c) \/ UpdateStatus(c) \/ UNCHANGED ss
    BY <1>9
    DEF ReconcileStep, Reconcile, ValidationFails, SecretProviderClassNotFound, FetchFails,
        ParametersPanic, AlreadyInSync, StartSync, serverSidePatchSecret, PatchRejected,
        PatchFails
  <1>10. ASSUME NEW c \in Controllers,
                WatchEvent(c) \/ RelistEvent(c) \/ SpcWatchEvent(c) \/ Poll(c) \/ Crash(c)
         PROVE UNCHANGED ss
    BY <1>10 DEF WatchEvent, RelistEvent, SpcWatchEvent, Poll, Crash
  <1>11. CASE Environment
    BY <1>7, <1>8, <1>11
    DEF Environment, CreateSecretSync, DeleteSecretSync, CreateSecretProviderClass,
        EditSecretProviderClass, DeleteSecretProviderClass, RotateSecret, CreateSecret,
        DeleteSecret, GarbageCollect, Tick, OtherObjects
  <1> QED
    BY <1>4, <1>5, <1>6, <1>8, <1>9, <1>10, <1>11 DEF Next, vars

\* Whatever stale caches, lost answers and races of several controllers do, the
\* sync that the status records never goes back to an earlier generation or time:
\* the conflict check of Status().Update is enough for that.
THEOREM NoStatusRegressHolds == Spec => NoStatusRegress
  <1>1. Init => SyncInv
    BY DEF Init, SyncInv, Ahead
  <1>2. TypeInv /\ SyncInv /\ [Next]_vars => (TypeInv /\ SyncInv)'
    BY TypeStep, SyncStep
  <1>3. Spec => [](TypeInv /\ SyncInv)
    BY TypeInit, <1>1, <1>2, PTL DEF Spec
  <1>4. TypeInv /\ SyncInv /\ [Next]_vars =>
          [ (/\ ss # None /\ ss' # None /\ ss.uid = ss'.uid
             /\ ss.status.syncHash # None)
            => /\ ss'.status.syncHash # None
               /\ ss'.status.syncHash.ssGeneration >= ss.status.syncHash.ssGeneration
               /\ ss'.status.lastSuccessfulSyncTime >= ss.status.lastSuccessfulSyncTime ]_vars
    BY NoRegressStep
  <1> QED BY <1>3, <1>4, PTL DEF Spec, NoStatusRegress

\* A status write that moves lastSuccessfulSyncTime ends a reconcile whose patch
\* was acknowledged.
LEMMA SyncTimeStep ==
  ASSUME TypeInv, SyncInv, [Next]_vars, ss # None, ss' # None, ss.uid = ss'.uid,
         ss.status.lastSuccessfulSyncTime # ss'.status.lastSuccessfulSyncTime
  PROVE  \E c \in Controllers : pc[c] = "commit" /\ pc'[c] = "idle"
  <1>1. ss \in SecretSyncs
    BY DEF TypeInv, TypeOK
  <1>2. ASSUME NEW c \in Controllers, pc[c] \in {"init", "report"}, NEW st \in Statuses,
               StatusUpdateOk(c, st) \/ StatusUpdateErr(c, st),
               SameSync(st, copy[c].status)
        PROVE FALSE
    <2>1. c \in freshCopy /\ ss'.status = st
      BY <1>2, StatusUpdateCases
    <2> QED BY <1>2, <2>1 DEF SyncInv, Ahead, SameSync
  <1>3. ASSUME NEW c \in Controllers, initConditions(c) PROVE FALSE
    <2> DEFINE st == [copy[c].status EXCEPT !.conditions = InitialConditions(@)]
    <2>1. copy[c].status \in Statuses
      BY <1>3, CopyType DEF initConditions
    <2>2. st \in Statuses /\ SameSync(st, copy[c].status)
      BY <2>1, StatusFields, InitialConditionsType DEF Statuses, SameSync
    <2>3. pc[c] = "init" /\ (StatusUpdateOk(c, st) \/ StatusUpdateErr(c, st))
      BY <1>3 DEF initConditions
    <2> HIDE DEF st
    <2> QED BY <1>2, <2>2, <2>3
  <1>4. ASSUME NEW c \in Controllers, ReportFailure(c) PROVE FALSE
    <2>1. copy[c].status \in Statuses /\ SameSync(copy[c].status, copy[c].status)
      BY <1>4, CopyType DEF ReportFailure, SameSync
    <2> QED BY <1>2, <1>4, <2>1 DEF ReportFailure
  <1>5. ASSUME NEW c \in Controllers, UpdateStatus(c)
        PROVE  pc[c] = "commit" /\ pc'[c] = "idle"
    BY <1>5 DEF UpdateStatus, ReturnNil, ReturnErr, Done, TypeInv, TypeOK
  <1>6. CASE EditSecretSync
    BY <1>1, <1>6 DEF EditSecretSync, SecretSyncs
  <1>7. ASSUME NEW c \in Controllers, ReconcileStep(c)
        PROVE initConditions(c) \/ ReportFailure(c) \/ UpdateStatus(c) \/ UNCHANGED ss
    BY <1>7
    DEF ReconcileStep, Reconcile, ValidationFails, SecretProviderClassNotFound, FetchFails,
        ParametersPanic, AlreadyInSync, StartSync, serverSidePatchSecret, PatchRejected,
        PatchFails
  <1>8. ASSUME NEW c \in Controllers,
               WatchEvent(c) \/ RelistEvent(c) \/ SpcWatchEvent(c) \/ Poll(c) \/ Crash(c)
        PROVE UNCHANGED ss
    BY <1>8 DEF WatchEvent, RelistEvent, SpcWatchEvent, Poll, Crash
  <1>9. CASE Environment
    BY <1>6, <1>9
    DEF Environment, CreateSecretSync, DeleteSecretSync, CreateSecretProviderClass,
        EditSecretProviderClass, DeleteSecretProviderClass, RotateSecret, CreateSecret,
        DeleteSecret, GarbageCollect, Tick, OtherObjects
  <1> QED
    BY <1>3, <1>4, <1>5, <1>7, <1>8, <1>9 DEF Next, vars

\* lastSuccessfulSyncTime moves only with the last status write of a reconcile whose
\* patch was acknowledged (lines 191-217), however many controllers report failures
\* from stale copies at the same time.
THEOREM SyncTimeOnlyAfterPatchHolds == Spec => SyncTimeOnlyAfterPatch
  <1>1. Init => SyncInv
    BY DEF Init, SyncInv, Ahead
  <1>2. TypeInv /\ SyncInv /\ [Next]_vars => (TypeInv /\ SyncInv)'
    BY TypeStep, SyncStep
  <1>3. TypeInv /\ SyncInv /\ [Next]_vars =>
          [ ss # None /\ ss' # None /\ ss.uid = ss'.uid
            /\ ss.status.lastSuccessfulSyncTime # ss'.status.lastSuccessfulSyncTime
            => \E c \in Controllers : pc[c] = "commit" /\ pc'[c] = "idle" ]_vars
    BY SyncTimeStep
  <1> QED BY TypeInit, <1>1, <1>2, <1>3, PTL DEF Spec, SyncTimeOnlyAfterPatch
=============================================================================
