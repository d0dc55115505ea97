----------------------------- MODULE EventProofs -----------------------------
(***************************************************************************)
(* No event is lost, for every number of controllers and every value of    *)
(* the other constants: as long as no informer replaces its cache with a   *)
(* new list, a controller at rest has reconciled what its cache holds.     *)
(***************************************************************************)
EXTENDS SecretSyncReconcilerProofs

\* x and y are the same object at the same generation.
Same(x, y) == x.uid = y.uid /\ x.generation = y.generation

\* The generation that c sees is waiting, under way, or done.
Attended(c) ==
  cache[c] # None =>
    \/ queued[c]
    \/ pc[c] # "idle" /\ Same(copy[c], cache[c])
    \/ pc[c] = "idle" /\ outcome[c] # None /\ Same(outcome[c], cache[c])

EventInv == \A c \in Controllers : Attended(c)

\* A reconcile that ends has queued the name again, or it has done the work.
LEMMA ReturnAttended ==
  ASSUME TypeInv, EventInv, NEW c \in Controllers, pc[c] # "idle", UNCHANGED cache,
         ReturnErr(c) \/ \E data \in Versions : ReturnNil(c, data)
  PROVE  EventInv'
  <1>1. /\ \A d \in Controllers \ {c} : /\ pc'[d] = pc[d] /\ copy'[d] = copy[d]
                                        /\ queued'[d] = queued[d]
                                        /\ outcome'[d] = outcome[d]
        /\ pc'[c] = "idle"
    BY DEF ReturnErr, ReturnNil, Done, TypeInv, TypeOK
  <1>2. CASE ReturnErr(c)
    BY <1>1, <1>2 DEF ReturnErr, EventInv, Attended, TypeInv, TypeOK
  <1>3. ASSUME NEW data \in Versions, ReturnNil(c, data) PROVE EventInv'
    <2>1. /\ outcome'[c] = [uid |-> copy[c].uid, generation |-> copy[c].generation,
                            data |-> data]
          /\ UNCHANGED queued
      BY <1>3 DEF ReturnNil, TypeInv, TypeOK
    <2>2. copy[c] \in SecretSyncs
      BY CopyType
    <2>3. outcome'[c] # None
      <3>1. [uid |-> copy[c].uid, generation |-> copy[c].generation, data |-> data] \in Outcomes
        BY <2>2, SecretSyncFields DEF Outcomes
      <3> QED BY <2>1, <3>1, NoneAssumption
    <2> QED BY <1>1, <2>1, <2>3 DEF EventInv, Attended, Same
  <1> QED BY <1>2, <1>3

\* Every step preserves EventInv.
LEMMA EventStep ==
  ASSUME ~Relists, TypeInv, TypeInv', EventInv, [Next]_vars
  PROVE  EventInv'
  \* What is left to show when nothing is returned and no event arrives.
  <1>0. ASSUME UNCHANGED <<cache, outcome>>,
               \A d \in Controllers :
                 /\ queued[d] => queued'[d]
                 /\ pc'[d] = pc[d] \/ (pc[d] # "idle" /\ pc'[d] # "idle")
                 /\ pc[d] # "idle" => Same(copy'[d], copy[d])
        PROVE EventInv'
    BY <1>0 DEF EventInv, Attended, Same
  <1>1. ASSUME NEW c \in Controllers, Reconcile(c) PROVE EventInv'
    <2>1. /\ pc'[c] # "idle" /\ copy'[c] = cache[c] /\ UNCHANGED <<cache, outcome>>
          /\ \A d \in Controllers \ {c} :
               pc'[d] = pc[d] /\ copy'[d] = copy[d] /\ queued'[d] = queued[d]
      BY <1>1 DEF Reconcile, informer, TypeInv, TypeOK
    <2> QED BY <2>1 DEF EventInv, Attended, Same
  <1>2. ASSUME NEW c \in Controllers, NEW st \in Statuses, NEW phase \in {"sync", "report", "patch"},
               pc[c] # "idle", copy' = [copy EXCEPT ![c].status = st],
               pc' = [pc EXCEPT ![c] = phase], UNCHANGED <<cache, outcome, queued>>
        PROVE EventInv'
    <2>1. copy[c] \in SecretSyncs
      BY <1>2, CopyType
    <2>2. /\ pc'[c] = phase /\ Same(copy'[c], copy[c])
          /\ \A d \in Controllers \ {c} : pc'[d] = pc[d] /\ copy'[d] = copy[d]
      BY <1>2, <2>1, StatusReplaced DEF TypeInv, TypeOK, Same
    <2> QED BY <1>0, <1>2, <2>2 DEF Same
  <1>3. ASSUME NEW c \in Controllers, initConditions(c) PROVE EventInv'
    <2> DEFINE st == [copy[c].status EXCEPT !.conditions = InitialConditions(@)]
    <2>1. pc[c] = "init" /\ UNCHANGED cache
      BY <1>3 DEF initConditions
    <2>2. copy[c].status \in Statuses
      BY <2>1, CopyType
    <2>3. st \in Statuses
      BY <2>2, StatusFields, InitialConditionsType DEF Statuses
    <2>4. \/ /\ copy' = [copy EXCEPT ![c].status = st]
             /\ pc' = [pc EXCEPT ![c] = "sync"] /\ UNCHANGED <<queued, outcome>>
          \/ ReturnErr(c)
      BY <1>3 DEF initConditions
    <2> HIDE DEF st
    <2> QED BY <1>2, <2>1, <2>3, <2>4, ReturnAttended
  <1>4. ASSUME NEW c \in Controllers, NEW st \in Statuses, NEW reason \in Reasons,
               pc[c] # "idle", Fail(c, st, reason), UNCHANGED <<cache, outcome, queued>>
        PROVE EventInv'
    <2>1. FailStatus(st, reason) \in Statuses
      BY FailStatusType
    <2>2. /\ copy' = [copy EXCEPT ![c].status = FailStatus(st, reason)]
          /\ pc' = [pc EXCEPT ![c] = "report"]
      BY <1>4 DEF Fail, FailStatus
    <2> QED BY <1>2, <1>4, <2>1, <2>2
  <1>5. ASSUME NEW c \in Controllers,
               ValidationFails(c) \/ SecretProviderClassNotFound(c) \/ FetchFails(c)
        PROVE EventInv'
    <2>1. /\ pc[c] = "sync" /\ UNCHANGED <<cache, outcome, queued>>
          /\ \E reason \in Reasons : Fail(c, copy[c].status, reason)
      BY <1>5, ValidationReason, FailureReasons
      DEF ValidationFails, SecretProviderClassNotFound, FetchFails, Fetching, informer
    <2> QED BY <1>4, <2>1, CopyType
  <1>6. ASSUME NEW c \in Controllers, ParametersPanic(c) \/ AlreadyInSync(c) PROVE EventInv'
    <2>1. store \in Versions
      BY DEF TypeInv, TypeOK
    <2> QED BY <1>6, <2>1, ReturnAttended
            DEF ParametersPanic, AlreadyInSync, Fetched, Fetching, informer
  <1>7. ASSUME NEW c \in Controllers, StartSync(c) PROVE EventInv'
    <2> DEFINE hash == computeCurrentStateHash(store, spcCache[c], copy[c])
               st == [conditions |-> SuccessConditions(copy[c].status, hash),
                      syncHash |-> hash, lastSuccessfulSyncTime |-> clock]
    <2>1. pc[c] = "sync" /\ spcCache[c] \in SecretProviderClasses /\ store \in Versions
      BY <1>7 DEF StartSync, Fetched, Fetching, TypeInv, TypeOK
    <2>2. copy[c] \in SecretSyncs /\ copy[c].status \in Statuses
      BY <2>1, CopyType
    <2>3. hash \in Hashes
      BY <2>1, <2>2, HashComputed
    <2>4. st \in Statuses
      BY <2>2, <2>3, SuccessConditionsType DEF Statuses, TypeInv, TypeOK
    <2>5. /\ copy' = [copy EXCEPT ![c].status = st] /\ pc' = [pc EXCEPT ![c] = "patch"]
          /\ UNCHANGED <<cache, outcome, queued>>
      BY <1>7 DEF StartSync, informer
    <2> HIDE DEF hash, st
    <2> QED BY <1>2, <2>1, <2>4, <2>5
  <1>8. ASSUME NEW c \in Controllers, serverSidePatchSecret(c) PROVE EventInv'
    <2>1. /\ pc[c] = "patch" /\ pc' = [pc EXCEPT ![c] = "commit"]
          /\ UNCHANGED <<cache, copy, outcome, queued>>
      BY <1>8 DEF serverSidePatchSecret, informer
    <2> QED BY <1>0, <2>1 DEF Same, TypeInv, TypeOK
  <1>9. ASSUME NEW c \in Controllers, PatchRejected(c) \/ PatchFails(c) PROVE EventInv'
    <2>1. /\ pc[c] = "patch" /\ Fail(c, RolledBack(c), "ControllerPatchError")
          /\ UNCHANGED <<cache, outcome, queued>>
      BY <1>9 DEF PatchRejected, PatchFails, informer
    <2>2. copy[c].status \in Statuses /\ prev[c] \in SyncRecords
      BY <2>1, CopyType DEF TypeInv, TypeOK, PhaseOK
    <2>3. RolledBack(c) \in Statuses
      BY <2>2 DEF RolledBack, Statuses, SyncRecords
    <2> QED BY <1>4, <2>1, <2>3, FailureReasons
  <1>10. ASSUME NEW c \in Controllers, ReportFailure(c) \/ UpdateStatus(c) PROVE EventInv'
    <2>1. /\ pc[c] \in {"report", "commit"} /\ UNCHANGED cache
          /\ ReturnErr(c) \/ (pc[c] = "commit" /\ ReturnNil(c, datamap[c]))
      BY <1>10 DEF ReportFailure, UpdateStatus
    <2>2. pc[c] = "commit" => datamap[c] \in Versions
      BY DEF TypeInv, TypeOK, PhaseOK
    <2> QED BY <2>1, <2>2, ReturnAttended
  <1>11. ASSUME NEW c \in Controllers, WatchEvent(c) PROVE EventInv'
    <2>1. /\ cache'[c] = ss /\ UNCHANGED <<pc, copy, outcome>>
          /\ \A d \in Controllers \ {c} : cache'[d] = cache[d] /\ queued'[d] = queued[d]
          /\ queued[c] => queued'[c]
      BY <1>11 DEF WatchEvent, Enqueue, work, TypeInv, TypeOK
    <2>2. ss # None /\ (cache[c] = None \/ ~Same(ss, cache[c])) => queued'[c]
      BY <1>11 DEF WatchEvent, Enqueue, ShouldReconcile, processIfSecretChanged, Same,
                   TypeInv, TypeOK
    <2> QED BY <2>1, <2>2 DEF EventInv, Attended, Same
  <1>12. ASSUME NEW c \in Controllers, RelistEvent(c) \/ SpcWatchEvent(c) \/ Poll(c)
         PROVE EventInv'
    <2>1. /\ UNCHANGED <<cache, pc, copy, outcome>>
          /\ \A d \in Controllers : queued[d] => queued'[d]
      BY <1>12 DEF RelistEvent, SpcWatchEvent, Poll, Enqueue, work, informer, TypeInv, TypeOK
    <2> QED BY <1>0, <2>1 DEF Same
  <1>13. ASSUME NEW c \in Controllers, Crash(c) PROVE EventInv'
    <2>1. /\ cache'[c] = None
          /\ \A d \in Controllers \ {c} :
               /\ cache'[d] = cache[d] /\ pc'[d] = pc[d] /\ copy'[d] = copy[d]
               /\ queued'[d] = queued[d] /\ outcome'[d] = outcome[d]
      BY <1>13 DEF Crash, Done, TypeInv, TypeOK
    <2> QED BY <2>1 DEF EventInv, Attended
  <1>14. CASE Environment \/ UNCHANGED vars
    <2>1. UNCHANGED <<cache, pc, copy, outcome, queued>>
      BY <1>14
      DEF Environment, CreateSecretSync, EditSecretSync, DeleteSecretSync,
          CreateSecretProviderClass, EditSecretProviderClass, DeleteSecretProviderClass,
          RotateSecret, CreateSecret, DeleteSecret, GarbageCollect, Tick, OtherObjects,
          informer, work, vars
    <2> QED BY <1>0, <2>1 DEF Same
  <1> QED
    BY <1>1, <1>3, <1>5, <1>6, <1>7, <1>8, <1>9, <1>10, <1>11, <1>12, <1>13, <1>14
    DEF Next, ReconcileStep

\* As long as no informer replaces its cache with a new list, no event, error,
\* lost answer or restart loses work: a controller at rest has completed a
\* reconcile of the object and the generation it sees (lines 404-428).  The run
\* that allows new lists shows that the assumption is needed.
THEOREM NoLostEventHolds ==
  ASSUME ~Relists PROVE Spec => []NoLostEvent
  <1>1. Init => EventInv
    BY DEF Init, EventInv, Attended
  <1>2. TypeInv /\ EventInv /\ [Next]_vars => (TypeInv /\ EventInv)'
    BY TypeStep, EventStep
  <1>3. EventInv => NoLostEvent
    BY DEF EventInv, Attended, Same, NoLostEvent, Idle
  <1> QED BY TypeInit, <1>1, <1>2, <1>3, PTL DEF Spec
=============================================================================
