------------------------- MODULE SyncContractProofs -------------------------
(***************************************************************************)
(* SecretSyncReconciler implements SyncContract, for every number of       *)
(* controllers and every value of the other constants.                     *)
(***************************************************************************)
EXTENDS SecretSyncReconcilerProofs

\* What the reconcile of c holds is about its own object, and that is the object
\* it may still write.
OwnObject(c) ==
  /\ pc[c] # "idle" => copy[c].uid < nextUID
  /\ pc[c] \in {"patch", "commit"} => copy[c].status.syncHash.ssUID = copy[c].uid
  /\ pc[c] = "patch" => copy[c].status.syncHash.data = datamap[c]
  /\ c \in freshCopy => copy[c].uid = ss.uid

\* UIDs are given out in order, so that a new object has one that no state that
\* was applied, no cache and no working copy has.
OwnerInv ==
  /\ \A s \in applied : s.ssUID < nextUID
  /\ ss # None => ss.uid < nextUID
  /\ \A c \in Controllers : cache[c] # None => cache[c].uid < nextUID
  /\ \A c \in Controllers : OwnObject(c)

\* Every step preserves OwnerInv.
LEMMA OwnerStep ==
  ASSUME TypeInv, TypeInv', OwnerInv, [Next]_vars
  PROVE  OwnerInv'
  <1>t. /\ nextUID \in Nat /\ nextUID' \in Nat
        /\ \A s \in SecretSyncs : s.uid \in Nat
        /\ \A h \in Hashes : h.ssUID \in Nat
        /\ applied \subseteq Hashes
        /\ ss \in SecretSyncs \cup {None}
        /\ \A d \in Controllers : /\ cache[d] \in SecretSyncs \cup {None}
                                  /\ pc[d] # "idle" => copy[d] \in SecretSyncs
    BY CopyType DEF TypeInv, TypeOK, UIDs, SecretSyncs, Hashes
  \* What is left to show when the objects are where they were.
  <1>0. ASSUME nextUID <= nextUID',
               \A s \in applied' : s \in applied \/ s.ssUID < nextUID',
               ss' = ss \/ (ss' # None => ss'.uid < nextUID'),
               \A d \in Controllers :
                 /\ cache'[d] = cache[d] \/ cache'[d] = ss \/ cache'[d] = None
                 /\ \/ pc'[d] = "idle"
                    \/ /\ pc'[d] = pc[d] /\ copy'[d] = copy[d] /\ datamap'[d] = datamap[d]
                       /\ d \in freshCopy' => d \in freshCopy /\ ss'.uid = ss.uid
                    \/ OwnObject(d)'
        PROVE OwnerInv'
    <2>1. \A s \in applied' : s.ssUID < nextUID'
      BY <1>0, <1>t DEF OwnerInv
    <2>2. ss' # None => ss'.uid < nextUID'
      BY <1>0, <1>t DEF OwnerInv
    <2>3. \A d \in Controllers : cache'[d] # None => cache'[d].uid < nextUID'
      BY <1>0, <1>t DEF OwnerInv
    <2>4. ASSUME NEW d \in Controllers PROVE OwnObject(d)'
      <3>1. CASE pc'[d] = "idle"
        BY <3>1 DEF OwnObject, TypeInv, PhaseOK
      <3>2. CASE /\ pc'[d] = pc[d] /\ copy'[d] = copy[d] /\ datamap'[d] = datamap[d]
                 /\ d \in freshCopy' => d \in freshCopy /\ ss'.uid = ss.uid
        <4>1. pc[d] # "idle" => copy[d].uid < nextUID'
          BY <1>0, <1>t DEF OwnerInv, OwnObject
        <4> QED BY <3>2, <4>1 DEF OwnerInv, OwnObject
      <3> QED BY <1>0, <3>1, <3>2
    <2> QED BY <2>1, <2>2, <2>3, <2>4 DEF OwnerInv
  <1>1. ASSUME NEW c \in Controllers, Reconcile(c) PROVE OwnerInv'
    <2>1. /\ pc'[c] \in {"init", "sync"} /\ copy'[c] = cache[c] /\ cache[c] # None
          /\ c \in freshCopy' => c \in freshCache
          /\ UNCHANGED <<ss, cache, applied, nextUID>>
          /\ \A d \in Controllers \ {c} :
               /\ pc'[d] = pc[d] /\ copy'[d] = copy[d] /\ datamap'[d] = datamap[d]
               /\ d \in freshCopy' => d \in freshCopy
      BY <1>1 DEF Reconcile, informer, cluster, TypeInv, TypeOK
    <2>2. OwnObject(c)'
      BY <2>1 DEF OwnObject, OwnerInv, TypeInv, CacheOK
    <2> QED BY <1>0, <1>t, <2>1, <2>2
  <1>2. ASSUME NEW c \in Controllers, Done(c), UNCHANGED <<cache, nextUID, applied>>,
               ss' = ss \/ (ss # None /\ ss'.uid = ss.uid)
        PROVE OwnerInv'
    <2>1. \A d \in Controllers :
            \/ pc'[d] = "idle"
            \/ /\ pc'[d] = pc[d] /\ copy'[d] = copy[d] /\ datamap'[d] = datamap[d]
               /\ d \in freshCopy' => d \in freshCopy /\ ss' = ss
      BY <1>2 DEF Done, TypeInv, TypeOK
    <2>2. ss' = ss \/ ss'.uid < nextUID'
      BY <1>2 DEF OwnerInv
    <2> QED BY <1>0, <1>2, <1>t, <2>1, <2>2
  <1>3. ASSUME NEW c \in Controllers, NEW st \in Statuses,
               StatusUpdateOk(c, st) \/ StatusUpdateErr(c, st)
        PROVE ss' = ss \/ (ss # None /\ ss'.uid = ss.uid)
    BY <1>3, StatusUpdateCases DEF TypeInv, PhaseOK
  <1>4. ASSUME NEW c \in Controllers, initConditions(c) PROVE OwnerInv'
    <2> DEFINE st == [copy[c].status EXCEPT !.conditions = InitialConditions(@)]
    <2>1. copy[c] \in SecretSyncs /\ copy[c].status \in Statuses /\ pc[c] = "init"
      BY <1>4, CopyType DEF initConditions
    <2>2. st \in Statuses
      BY <2>1, StatusFields, InitialConditionsType DEF Statuses
    <2>3. \/ /\ StatusUpdateOk(c, st) /\ copy' = [copy EXCEPT ![c].status = st]
             /\ pc' = [pc EXCEPT ![c] = "sync"] /\ datamap' = datamap
             /\ freshCopy' = (IF ss' = ss THEN freshCopy ELSE {c})
          \/ StatusUpdateErr(c, st) /\ Done(c)
      BY <1>4 DEF initConditions, ReturnErr
    <2>4. UNCHANGED <<cache, nextUID, applied>>
      BY <1>4 DEF initConditions, cluster
    <2> HIDE DEF st
    <2>5. ss' = ss \/ (ss # None /\ ss'.uid = ss.uid)
      BY <1>3, <2>2, <2>3
    <2>6. CASE StatusUpdateErr(c, st) /\ Done(c)
      BY <1>2, <2>4, <2>5, <2>6
    <2>7. CASE /\ StatusUpdateOk(c, st) /\ copy' = [copy EXCEPT ![c].status = st]
               /\ pc' = [pc EXCEPT ![c] = "sync"] /\ datamap' = datamap
               /\ freshCopy' = (IF ss' = ss THEN freshCopy ELSE {c})
      <3>1. /\ pc'[c] = "sync" /\ copy'[c].uid = copy[c].uid
            /\ \A d \in Controllers \ {c} : pc'[d] = pc[d] /\ copy'[d] = copy[d]
        BY <2>1, <2>2, <2>7, StatusReplaced DEF TypeInv, TypeOK
      <3>2. c \in freshCopy
        BY <2>7 DEF StatusUpdateOk
      <3>3. OwnObject(c)'
        BY <2>1, <2>4, <2>5, <3>1, <3>2 DEF OwnObject, OwnerInv
      <3>4. ss' = ss \/ ss'.uid < nextUID'
        BY <2>4, <2>5 DEF OwnerInv
      <3> QED BY <1>0, <1>t, <2>4, <2>7, <3>1, <3>3, <3>4
    <2> QED BY <2>3, <2>6, <2>7
  <1>5. ASSUME NEW c \in Controllers, NEW st \in Statuses, NEW reason \in Reasons,
               pc[c] # "idle", Fail(c, st, reason),
               UNCHANGED <<ss, cache, nextUID, freshCopy, datamap>>,
               \A s \in applied' : s \in applied \/ s.ssUID < nextUID
        PROVE OwnerInv'
    <2>1. /\ copy' = [copy EXCEPT ![c] = [copy[c] EXCEPT !.status = FailStatus(st, reason)]]
          /\ pc' = [pc EXCEPT ![c] = "report"]
      BY <1>5, FailType
    <2>2. copy[c] \in SecretSyncs /\ FailStatus(st, reason) \in Statuses
      BY <1>5, CopyType, FailStatusType
    <2>3. /\ pc'[c] = "report" /\ copy'[c].uid = copy[c].uid
          /\ \A d \in Controllers \ {c} : pc'[d] = pc[d] /\ copy'[d] = copy[d]
      BY <1>t, <2>1, <2>2, StatusReplaced DEF TypeInv, TypeOK
    <2>4. OwnObject(c)'
      BY <1>5, <2>3 DEF OwnObject, OwnerInv
    <2> QED BY <1>0, <1>5, <1>t, <2>3, <2>4
  <1>6. ASSUME NEW c \in Controllers,
               ValidationFails(c) \/ SecretProviderClassNotFound(c) \/ FetchFails(c)
        PROVE OwnerInv'
    <2>1. /\ pc[c] = "sync" /\ UNCHANGED <<ss, cache, nextUID, freshCopy, datamap, applied>>
          /\ \E reason \in Reasons : Fail(c, copy[c].status, reason)
      BY <1>6, ValidationReason, FailureReasons
      DEF ValidationFails, SecretProviderClassNotFound, FetchFails, Fetching, informer, cluster
    <2> QED BY <1>5, <2>1, CopyType
  <1>7. ASSUME NEW c \in Controllers, ParametersPanic(c) \/ AlreadyInSync(c) PROVE OwnerInv'
    BY <1>2, <1>7 DEF ParametersPanic, AlreadyInSync, ReturnErr, ReturnNil, informer, cluster
  <1>8. ASSUME NEW c \in Controllers, StartSync(c) PROVE OwnerInv'
    <2> DEFINE hash == computeCurrentStateHash(store, spcCache[c], copy[c])
               st == [conditions |-> SuccessConditions(copy[c].status, hash),
                      syncHash |-> hash, lastSuccessfulSyncTime |-> clock]
    <2>1. pc[c] = "sync" /\ spcCache[c] \in SecretProviderClasses /\ store \in Versions
      BY <1>8 DEF StartSync, Fetched, Fetching, TypeInv, TypeOK
    <2>2. copy[c] \in SecretSyncs /\ copy[c].status \in Statuses
      BY <2>1, CopyType
    <2>3. hash \in Hashes /\ hash.ssUID = copy[c].uid /\ hash.data = store
      BY <2>1, <2>2, HashComputed
    <2>4. st \in Statuses /\ st.syncHash = hash
      BY <2>2, <2>3, SuccessConditionsType DEF Statuses, TypeInv, TypeOK
    <2>5. /\ copy' = [copy EXCEPT ![c].status = st] /\ pc' = [pc EXCEPT ![c] = "patch"]
          /\ datamap' = [datamap EXCEPT ![c] = store]
          /\ UNCHANGED <<ss, cache, nextUID, freshCopy, applied>>
      BY <1>8 DEF StartSync, informer, cluster
    <2> HIDE DEF hash, st
    <2>6. /\ pc'[c] = "patch" /\ copy'[c].status = st /\ copy'[c].uid = copy[c].uid
          /\ datamap'[c] = store
          /\ \A d \in Controllers \ {c} :
               pc'[d] = pc[d] /\ copy'[d] = copy[d] /\ datamap'[d] = datamap[d]
      BY <2>2, <2>4, <2>5, StatusReplaced DEF TypeInv, TypeOK
    <2>7. OwnObject(c)'
      BY <2>1, <2>3, <2>4, <2>5, <2>6 DEF OwnObject, OwnerInv
    <2> QED BY <1>0, <1>t, <2>5, <2>6, <2>7
  <1>9. ASSUME NEW c \in Controllers, pc[c] = "patch", Patched(c), UNCHANGED nextUID
        PROVE \A s \in applied' : s \in applied \/ s.ssUID < nextUID'
    BY <1>9 DEF Patched, OwnerInv, OwnObject
  <1>10. ASSUME NEW c \in Controllers, serverSidePatchSecret(c) PROVE OwnerInv'
    <2>1. /\ pc[c] = "patch" /\ pc' = [pc EXCEPT ![c] = "commit"] /\ Patched(c)
          /\ UNCHANGED <<ss, cache, copy, nextUID, freshCopy, datamap>>
      BY <1>10 DEF serverSidePatchSecret, informer
    <2>2. pc'[c] = "commit" /\ \A d \in Controllers \ {c} : pc'[d] = pc[d]
      BY <2>1 DEF TypeInv, TypeOK
    <2>3. OwnObject(c)'
      BY <2>1, <2>2 DEF OwnObject, OwnerInv
    <2> QED BY <1>0, <1>9, <1>t, <2>1, <2>2, <2>3
  <1>11. ASSUME NEW c \in Controllers, PatchRejected(c) \/ PatchFails(c) PROVE OwnerInv'
    <2>1. /\ pc[c] = "patch" /\ Fail(c, RolledBack(c), "ControllerPatchError")
          /\ UNCHANGED <<ss, cache, nextUID, freshCopy, datamap>>
          /\ Patched(c) \/ UNCHANGED applied
      BY <1>11 DEF PatchRejected, PatchFails, informer, cluster
    <2>2. copy[c].status \in Statuses /\ prev[c] \in SyncRecords
      BY <2>1, CopyType DEF TypeInv, TypeOK, PhaseOK
    <2>3. RolledBack(c) \in Statuses
      BY <2>2 DEF RolledBack, Statuses, SyncRecords
    <2>4. \A s \in applied' : s \in applied \/ s.ssUID < nextUID
      BY <1>9, <2>1
    <2> QED BY <1>5, <2>1, <2>3, <2>4, FailureReasons
  <1>12. ASSUME NEW c \in Controllers, ReportFailure(c) \/ UpdateStatus(c) PROVE OwnerInv'
    <2>1. /\ pc[c] \in {"report", "commit"} /\ Done(c)
          /\ UNCHANGED <<cache, nextUID, applied>>
          /\ StatusUpdateOk(c, copy[c].status) \/ StatusUpdateErr(c, copy[c].status)
      BY <1>12 DEF ReportFailure, UpdateStatus, ReturnErr, ReturnNil, cluster
    <2>2. copy[c].status \in Statuses
      BY <2>1, CopyType
    <2> QED BY <1>2, <1>3, <2>1, <2>2
  <1>13. ASSUME NEW c \in Controllers,
                WatchEvent(c) \/ RelistEvent(c) \/ SpcWatchEvent(c) \/ Poll(c)
         PROVE OwnerInv'
    <2>1. UNCHANGED <<ss, nextUID, applied, pc, copy, datamap, freshCopy>>
      BY <1>13 DEF WatchEvent, RelistEvent, SpcWatchEvent, Poll, cluster, work
    <2>2. \A d \in Controllers : cache'[d] = cache[d] \/ cache'[d] = ss
      BY <1>13 DEF WatchEvent, RelistEvent, SpcWatchEvent, Poll, informer, TypeInv, TypeOK
    <2> QED BY <1>0, <1>t, <2>1, <2>2
  <1>14. ASSUME NEW c \in Controllers, Crash(c) PROVE OwnerInv'
    <2>1. \A d \in Controllers :
            /\ cache'[d] = cache[d] \/ cache'[d] = None
            /\ \/ pc'[d] = "idle"
               \/ /\ pc'[d] = pc[d] /\ copy'[d] = copy[d] /\ datamap'[d] = datamap[d]
                  /\ d \in freshCopy' => d \in freshCopy
      BY <1>14 DEF Crash, Done, TypeInv, TypeOK
    <2>2. UNCHANGED <<ss, nextUID, applied>>
      BY <1>14 DEF Crash, cluster
    <2> QED BY <1>0, <1>t, <2>1, <2>2
  <1>15. ASSUME UNCHANGED <<cache, pc, copy, datamap, applied>>, nextUID <= nextUID',
                \/ ss' = ss /\ freshCopy' = freshCopy
                \/ /\ freshCopy' = {}
                   /\ ss' # None => ss'.uid < nextUID'
         PROVE OwnerInv'
    BY <1>0, <1>15
  <1>16. CASE CreateSecretSync
    <2>1. /\ ss'.uid = nextUID /\ nextUID' = nextUID + 1 /\ freshCopy' = {}
          /\ UNCHANGED <<cache, pc, copy, datamap, applied>>
      BY <1>16 DEF CreateSecretSync, SecretSyncWritten
    <2> QED BY <1>15, <1>t, <2>1
  <1>17. CASE EditSecretSync
    <2>1. ss \in SecretSyncs /\ ss # None
      BY <1>17 DEF EditSecretSync, TypeInv, TypeOK
    <2>2. ss'.uid = ss.uid
      BY <1>17, <2>1 DEF EditSecretSync, SecretSyncs
    <2>3. UNCHANGED <<cache, pc, copy, datamap, applied, nextUID>> /\ freshCopy' = {}
      BY <1>17 DEF EditSecretSync, SecretSyncWritten
    <2> QED BY <1>15, <1>t, <2>1, <2>2, <2>3 DEF OwnerInv
  <1>18. CASE DeleteSecretSync
    <2>1. /\ ss' = None /\ freshCopy' = {}
          /\ UNCHANGED <<cache, pc, copy, datamap, applied, nextUID>>
      BY <1>18 DEF DeleteSecretSync, SecretSyncWritten
    <2> QED BY <1>15, <1>t, <2>1
  <1>19. CASE \/ CreateSecretProviderClass \/ EditSecretProviderClass
              \/ DeleteSecretProviderClass \/ RotateSecret \/ CreateSecret \/ DeleteSecret
              \/ GarbageCollect \/ Tick
    <2>1. UNCHANGED <<ss, cache, pc, copy, datamap, applied, freshCopy>>
      BY <1>19
      DEF CreateSecretProviderClass, EditSecretProviderClass, DeleteSecretProviderClass,
          RotateSecret, CreateSecret, DeleteSecret, GarbageCollect, Tick, OtherObjects,
          informer, work
    <2>2. nextUID' = nextUID \/ nextUID' = nextUID + 1
      BY <1>19
      DEF CreateSecretProviderClass, EditSecretProviderClass, DeleteSecretProviderClass,
          RotateSecret, CreateSecret, DeleteSecret, GarbageCollect, Tick
    <2> QED BY <1>15, <1>t, <2>1, <2>2
  <1>20. CASE UNCHANGED vars
    BY <1>15, <1>t, <1>20 DEF vars, cluster, informer, work
  <1> QED
    BY <1>1, <1>4, <1>6, <1>7, <1>8, <1>10, <1>11, <1>12, <1>13, <1>14, <1>16, <1>17,
       <1>18, <1>19, <1>20
    DEF Next, ReconcileStep, Environment
-----------------------------------------------------------------------------
(* Every step is a step of the contract *)

\* What the contract sees of a SecretSync.
View(s) == [uid |-> s.uid, generation |-> s.generation, recorded |-> s.status.syncHash,
            time |-> s.status.lastSuccessfulSyncTime]

\* The view of an object is not None.
LEMMA ViewNotNone ==
  ASSUME NEW s \in SecretSyncs PROVE View(s) # None
  <1>1. View(s) \in ObjectViews
    BY SecretSyncFields, StatusFields DEF View, ObjectViews
  <1> QED BY <1>1, NoneAssumption

\* The API server admits a patch only where nothing is, or over a Secret that has
\* an owner.
LEMMA AdmitsOwned ==
  ASSUME NEW old, NEW new, Policies!Admits(old, new), old # None
  PROVE  old.owner # None
  BY DEF Policies!Admits, Policies!UpdatePolicies, Policies!hasOneSecretSyncOwner

\* A patch, acknowledged or not, is an Apply of the contract.
LEMMA PatchApplies ==
  ASSUME TypeInv, OwnerInv, NEW c \in Controllers, pc[c] = "patch", Patched(c),
         UNCHANGED ss
  PROVE  Contract!Apply
  <1> DEFINE h == copy[c].status.syncHash
  <1>1. /\ secret' = PatchData(c) /\ applied' = applied \cup {h}
        /\ Policies!Admits(secret, PatchData(c))
    BY DEF Patched
  <1>2. copy[c] \in SecretSyncs /\ datamap[c] \in Versions
    BY CopyType DEF TypeInv, TypeOK, PhaseOK
  <1>3. PatchData(c) \in Secrets
    BY <1>2 DEF PatchData, Secrets, SecretSyncs
  <1>4. secret' # None
    BY <1>1, <1>3, NoneAssumption
  <1>5. h.ssUID = copy[c].uid /\ h.data = datamap[c]
    BY DEF OwnerInv, OwnObject
  <1>6. SecretView' = [owner |-> h.ssUID, data |-> h.data]
    BY <1>1, <1>4, <1>5 DEF SecretView, PatchData
  <1>7. SecretView # None => SecretView.owner # None
    <2>1. secret # None => secret.owner # None
      BY <1>1, AdmitsOwned
    <2> QED BY <2>1 DEF SecretView
  <1>8. UNCHANGED ObjectView
    BY DEF ObjectView
  <1> QED BY <1>1, <1>6, <1>7, <1>8 DEF Contract!Apply

\* A status that is written records what the object records already, or, after
\* an acknowledged patch, is a Record of the contract.
LEMMA StatusRecords ==
  ASSUME TypeInv, StatusInv, SyncInv, OwnerInv, NEW c \in Controllers, NEW st \in Statuses,
         pc[c] # "idle", pc[c] # "patch", SameSync(st, copy[c].status),
         StatusUpdateOk(c, st) \/ StatusUpdateErr(c, st), UNCHANGED <<secret, applied>>
  PROVE  Contract!Record \/ UNCHANGED Contract!vars
  <1>1. CASE ss' = ss
    BY <1>1 DEF Contract!vars, ObjectView, SecretView
  <1>2. CASE /\ c \in freshCopy /\ ss \in SecretSyncs /\ ss' \in SecretSyncs
             /\ ss'.status = st /\ ss'.uid = ss.uid /\ ss'.generation = ss.generation
    <2>0. ss # None /\ ss' # None
      BY <1>2, NoneAssumption
    <2>1. ObjectView = View(ss) /\ ObjectView' = View(ss')
      BY <2>0 DEF ObjectView, View
    <2>2. CASE pc[c] \in {"init", "sync", "report"}
      <3>1. SameSync(st, ss.status)
        BY <1>2, <2>2 DEF SyncInv, Ahead, SameSync
      <3>2. View(ss') = View(ss)
        BY <1>2, <3>1 DEF View, SameSync
      <3> QED BY <2>1, <3>2 DEF Contract!vars, SecretView
    <2>3. CASE pc[c] = "commit"
      <3> DEFINE h == copy[c].status.syncHash
                 t == st.lastSuccessfulSyncTime
      <3>1. h \in applied /\ h # None
        BY <2>3 DEF StatusInv, Recorded, TypeInv, PhaseOK
      <3>2. h.ssUID = ss.uid /\ h.ssGeneration = ss.generation
        BY <1>2, <2>3 DEF OwnerInv, OwnObject, SyncInv, Ahead
      <3>3. ss.status.syncHash # None => t >= ss.status.lastSuccessfulSyncTime
        BY <1>2, <2>3 DEF SyncInv, Ahead, SameSync
      <3>4. st.syncHash = h
        BY DEF SameSync
      <3>5. View(ss') = [uid |-> ss.uid, generation |-> ss.generation, recorded |-> h, time |-> t]
        BY <1>2, <3>4 DEF View
      <3> HIDE DEF h, t
      <3>7. /\ View(ss).uid = ss.uid /\ View(ss).generation = ss.generation
            /\ View(ss).recorded = ss.status.syncHash
            /\ View(ss).time = ss.status.lastSuccessfulSyncTime
            /\ View(ss').time = t
        BY <3>5 DEF View
      <3>8. ObjectView # None /\ ObjectView' # None
        BY <2>0, <2>1, ViewNotNone, <1>2
      <3>9. UNCHANGED <<SecretView, applied>>
        BY DEF SecretView
      <3> HIDE DEF View
      <3> QED BY <2>1, <3>1, <3>2, <3>3, <3>5, <3>7, <3>8, <3>9 DEF Contract!Record
    <2> QED BY <2>2, <2>3 DEF TypeInv, TypeOK
  <1> QED BY <1>1, <1>2, StatusUpdateCases

\* Every step of the controllers and of their environment is a step of the
\* contract, or invisible to it.
LEMMA ContractStep ==
  ASSUME TypeInv, TypeInv', StatusInv, SyncInv, OwnerInv, [Next]_vars
  PROVE  [Contract!Next]_(Contract!vars)
  <1>1. CASE UNCHANGED <<ss, secret, applied>>
    BY <1>1 DEF Contract!vars, ObjectView, SecretView
  <1>2. ASSUME NEW c \in Controllers, serverSidePatchSecret(c) \/ PatchFails(c)
        PROVE  [Contract!Next]_(Contract!vars)
    <2>1. /\ pc[c] = "patch" /\ UNCHANGED ss
          /\ Patched(c) \/ UNCHANGED <<secret, applied>>
      BY <1>2 DEF serverSidePatchSecret, PatchFails
    <2> QED BY <1>1, <2>1, PatchApplies DEF Contract!Next
  <1>3. ASSUME NEW c \in Controllers,
               initConditions(c) \/ ReportFailure(c) \/ UpdateStatus(c)
        PROVE  [Contract!Next]_(Contract!vars)
    <2> DEFINE init == [copy[c].status EXCEPT !.conditions = InitialConditions(@)]
    <2>1. /\ pc[c] # "idle" /\ pc[c] # "patch" /\ UNCHANGED <<secret, applied>>
      BY <1>3 DEF initConditions, ReportFailure, UpdateStatus, cluster
    <2>2. copy[c].status \in Statuses
      BY <2>1, CopyType
    <2>3. init \in Statuses /\ SameSync(init, copy[c].status)
      BY <2>2, StatusFields, InitialConditionsType DEF Statuses, SameSync
    <2>4. PICK st \in {init, copy[c].status} : StatusUpdateOk(c, st) \/ StatusUpdateErr(c, st)
      BY <1>3 DEF initConditions, ReportFailure, UpdateStatus
    <2>5. st \in Statuses /\ SameSync(st, copy[c].status)
      BY <2>2, <2>3 DEF SameSync
    <2> HIDE DEF init
    <2> QED BY <2>1, <2>4, <2>5, StatusRecords DEF Contract!Next
  <1>4. ASSUME NEW c \in Controllers, ReconcileStep(c)
        PROVE  [Contract!Next]_(Contract!vars)
    <2>1. \/ serverSidePatchSecret(c) \/ PatchFails(c)
          \/ initConditions(c) \/ ReportFailure(c) \/ UpdateStatus(c)
          \/ UNCHANGED <<ss, secret, applied>>
      BY <1>4
      DEF ReconcileStep, Reconcile, ValidationFails, SecretProviderClassNotFound, FetchFails,
          ParametersPanic, AlreadyInSync, StartSync, PatchRejected, cluster
    <2> QED BY <1>1, <1>2, <1>3, <2>1
  <1>5. ASSUME NEW c \in Controllers,
               WatchEvent(c) \/ RelistEvent(c) \/ SpcWatchEvent(c) \/ Poll(c) \/ Crash(c)
        PROVE  UNCHANGED <<ss, secret, applied>>
    BY <1>5 DEF WatchEvent, RelistEvent, SpcWatchEvent, Poll, Crash, cluster
  <1>6. CASE CreateSecretSync
    <2>1. PICK spec \in Specs :
            ss' = [uid |-> nextUID, generation |-> 1, spec |-> spec, status |-> EmptyStatus]
      BY <1>6 DEF CreateSecretSync
    <2>2. EmptyStatus \in Statuses /\ nextUID \in UIDs
      BY DEF EmptyStatus, NoConditions, Statuses, TypeInv, TypeOK
    <2>3. ss' \in SecretSyncs
      BY <2>1, <2>2 DEF SecretSyncs, Generations
    <2>9. ss = None /\ UNCHANGED <<secret, applied>> /\ ss' # None
      BY <1>6, <2>3, NoneAssumption DEF CreateSecretSync
    <2>4. ObjectView = None /\ ObjectView' = View(ss')
      BY <2>9 DEF ObjectView, View
    <2>5. View(ss') = [uid |-> nextUID, generation |-> 1, recorded |-> None, time |-> None]
      BY <2>1 DEF View, EmptyStatus
    <2>6. View(ss') # None
      BY <2>3, ViewNotNone
    <2>7. View(ss').uid = nextUID /\ \A s \in applied : s.ssUID # nextUID
      <3>1. \A s \in applied : s.ssUID \in Nat /\ s.ssUID < nextUID /\ nextUID \in Nat
        BY DEF OwnerInv, TypeInv, TypeOK, Hashes, UIDs
      <3> QED BY <2>5, <3>1
    <2>8. UNCHANGED <<SecretView, applied>>
      BY <2>9 DEF SecretView
    <2> HIDE DEF View
    <2> QED BY <2>4, <2>5, <2>6, <2>7, <2>8 DEF Contract!Next, Contract!Create
  <1>7. CASE EditSecretSync
    <2>1. /\ ss # None /\ UNCHANGED <<secret, applied>> /\ ss \in SecretSyncs
          /\ \E spec \in Specs : ss' = [ss EXCEPT !.spec = spec, !.generation = ss.generation + 1]
      BY <1>7 DEF EditSecretSync, TypeInv, TypeOK
    <2>2. ss.generation + 1 \in Generations /\ ss.generation \in Nat
      BY <2>1, SecretSyncFields DEF Generations
    <2>3. /\ ss' \in SecretSyncs /\ ss'.uid = ss.uid /\ ss'.status = ss.status
          /\ ss'.generation = ss.generation + 1
      BY <2>1, <2>2, SecretSyncEdited DEF SecretSyncs
    <2>4. ObjectView = View(ss) /\ ObjectView' = View(ss')
      BY <2>1, <2>3, NoneAssumption DEF ObjectView, View
    <2>5. View(ss') = [uid |-> ss.uid, generation |-> ss'.generation,
                       recorded |-> ss.status.syncHash, time |-> ss.status.lastSuccessfulSyncTime]
      BY <2>3 DEF View
    <2>6. View(ss') = [View(ss) EXCEPT !.generation = ss'.generation]
      BY <2>5 DEF View
    <2>7. View(ss).generation + 1 = ss'.generation
      BY <2>3 DEF View
    <2>8. View(ss) # None
      BY <2>1, ViewNotNone
    <2>9. UNCHANGED <<SecretView, applied>>
      BY <2>1 DEF SecretView
    <2>10. View(ss') = [View(ss) EXCEPT !.generation = View(ss).generation + 1]
      BY <2>6, <2>7, Zenon
    <2> HIDE DEF View
    <2> QED BY <2>4, <2>8, <2>9, <2>10, Zenon DEF Contract!Next, Contract!Edit
  <1>8. CASE DeleteSecretSync
    <2>1. ss # None /\ ss' = None /\ UNCHANGED <<secret, applied>> /\ ss \in SecretSyncs
      BY <1>8 DEF DeleteSecretSync, TypeInv, TypeOK
    <2>2. ObjectView # None /\ ObjectView' = None /\ UNCHANGED <<SecretView, applied>>
      BY <2>1, ViewNotNone DEF ObjectView, SecretView, View
    <2> QED BY <2>2 DEF Contract!Next, Contract!Delete
  <1>9. CASE CreateSecret
    <2>1. PICK spec \in Specs, v \in Versions :
            secret' = [owner |-> None, spec |-> spec, data |-> v]
      BY <1>9 DEF CreateSecret
    <2>2. secret = None /\ UNCHANGED <<ss, applied>> /\ secret' # None
      <3>1. [owner |-> None, spec |-> spec, data |-> v] \in Secrets
        BY DEF Secrets
      <3> QED BY <1>9, <2>1, <3>1, NoneAssumption DEF CreateSecret, OtherObjects
    <2>3. SecretView' = [owner |-> None, data |-> v]
      BY <2>1, <2>2 DEF SecretView
    <2>4. [owner |-> None, data |-> v] \in SecretViews
      BY DEF SecretViews
    <2>5. SecretView = None /\ SecretView' # None /\ UNCHANGED <<ObjectView, applied>>
      BY <2>2, <2>3, <2>4, NoneAssumption DEF SecretView, ObjectView
    <2> QED BY <2>3, <2>5 DEF Contract!Next, Contract!Occupy
  <1>10. CASE DeleteSecret \/ GarbageCollect
    <2>1. secret # None /\ secret' = None /\ UNCHANGED <<ss, applied>> /\ secret \in Secrets
      BY <1>10 DEF DeleteSecret, GarbageCollect, OtherObjects, TypeInv, TypeOK
    <2>2. [owner |-> secret.owner, data |-> secret.data] \in SecretViews
      BY <2>1 DEF Secrets, SecretViews
    <2>3. SecretView # None /\ SecretView' = None /\ UNCHANGED <<ObjectView, applied>>
      BY <2>1, <2>2, NoneAssumption DEF SecretView, ObjectView
    <2> QED BY <2>3 DEF Contract!Next, Contract!Remove
  <1>11. CASE Environment
    BY <1>1, <1>6, <1>7, <1>8, <1>9, <1>10, <1>11
    DEF Environment, CreateSecretProviderClass, EditSecretProviderClass,
        DeleteSecretProviderClass, RotateSecret, Tick, OtherObjects
  <1>12. CASE UNCHANGED vars
    BY <1>1, <1>12 DEF vars, cluster
  <1> QED BY <1>1, <1>4, <1>5, <1>11, <1>12 DEF Next

\* Controllers in any number, with stale caches, lost answers, retries and
\* restarts, implement the contract: a status records only states that were applied
\* for its own object at the generation it then had, in order of time, and a Secret
\* that a user made is never overwritten (Reconcile, lines 115-219).
THEOREM ContractImplemented == Spec => ImplementsContract
  <1> DEFINE IInv == TypeInv /\ StatusInv /\ SyncInv /\ OwnerInv
  <1>1. Init => IInv
    <2>1. Init => StatusInv /\ SyncInv /\ OwnerInv
      BY DEF Init, StatusInv, SyncInv, Ahead, OwnerInv, OwnObject
    <2> QED BY <2>1, TypeInit
  <1>2. IInv /\ [Next]_vars => IInv'
    BY TypeStep, StatusStep, SyncStep, OwnerStep
  <1>3. Init => Contract!Init
    BY DEF Init, Contract!Init, ObjectView, SecretView
  <1>4. IInv /\ IInv' /\ [Next]_vars => [Contract!Next]_(Contract!vars)
    BY ContractStep
  <1> HIDE DEF IInv
  <1> QED BY <1>1, <1>2, <1>3, <1>4, PTL DEF Spec, ImplementsContract, Contract!Spec
=============================================================================
