----------------------------- MODULE Conditions -----------------------------
(***************************************************************************)
(* The status conditions of a SecretSync (internal/controller/             *)
(* conditions.go).  A condition is represented by its reason: at every     *)
(* call site of the code the reason fixes the status (True for the two     *)
(* success reasons, Unknown for the two initial ones, False for the        *)
(* failures), and the message is only text.  The Conditions list, keyed by *)
(* type, is a function; a type that is not in the list maps to None.       *)
(***************************************************************************)
CONSTANT None   \* an absent object, field or condition

ConditionTypeCreate == "SecretCreated"
ConditionTypeUpdate == "SecretUpdated"
ConditionTypes == {ConditionTypeCreate, ConditionTypeUpdate}

\* The reasons with which a reconcile of an existing secret is retried.
FailedConditionsTriggeringRetry ==
  { "SecretProviderClassMisconfigured",
    "InvalidClusterSecretAnnotationError",
    "InvalidClusterSecretLabelError",
    "ProviderError",
    "RemoteSecretStoreFetchFailed",
    "ControllerPatchError",
    "ControllerSyncError" }

InitialReasons == {"SyncStarting", "NoUpdatesAttemptedYet"}
SuccessReasons == {"CreateSuccessful", "SecretUpToDate"}
Reasons == FailedConditionsTriggeringRetry \cup InitialReasons \cup SuccessReasons

NoConditions == [t \in ConditionTypes |-> None]

\* meta.SetStatusCondition: replace the condition of that type, or add it.
SetStatusCondition(conds, type, reason) == [conds EXCEPT ![type] = reason]

\* Mutant: type and reason of the first condition are mixed up.
InitialConditions_Swapped(conds) ==
  SetStatusCondition(SetStatusCondition(conds, ConditionTypeCreate, ConditionTypeCreate),
                     ConditionTypeUpdate, "NoUpdatesAttemptedYet")

\* What initConditions leaves in the list before it writes the status.
InitialConditions(conds) ==
  SetStatusCondition(SetStatusCondition(conds, ConditionTypeCreate, "SyncStarting"),
                     ConditionTypeUpdate, "NoUpdatesAttemptedYet")

\* len(ss.Status.Conditions) < 2
MissingConditions(conds) == \E t \in ConditionTypes : conds[t] = None

\* The loop of Reconcile that looks for a failed condition.
HasFailedCondition(conds) ==
  \E t \in ConditionTypes : conds[t] \in FailedConditionsTriggeringRetry
=============================================================================
