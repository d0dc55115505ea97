----------------------------- MODULE Admission -----------------------------
(***************************************************************************)
(* The writes of Secrets that the API server admits from the controller:   *)
(* the ValidatingAdmissionPolicies of the Helm chart (templates/*.yaml,    *)
(* applied by default) and the API server's own rule that the type of a    *)
(* Secret does not change.  A Secret that a user made has no owner (None), *)
(* and lacks the label of the controller as well.                          *)
(***************************************************************************)
CONSTANTS
  None,
  SecretType,          \* [Specs -> types], spec.secretObject.type
  allowedSecretTypes,  \* values.yaml
  deniedSecretTypes    \* values.yaml

\* variables.hasOneSecretSyncOwner.  The policy compares names, not UIDs, and the
\* one owner that the controller ever writes has the name of the Secret.
hasOneSecretSyncOwner(s) == s.owner # None

\* create_update_secrets_types.yaml and create_update_token_request_deny.yaml
CreatePolicies(object) ==
  /\ SecretType[object.spec] \in allowedSecretTypes
  /\ SecretType[object.spec] \notin deniedSecretTypes
  /\ hasOneSecretSyncOwner(object)

\* Mutant: the new object is checked where the old one should be.
UpdatePolicies_NewObject(oldObject, object) == hasOneSecretSyncOwner(object)

\* update_owners_check_old_object.yaml and update_secrets_based_on_label.yaml:
\* the controller updates only what it has made.
UpdatePolicies(oldObject, object) == hasOneSecretSyncOwner(oldObject)

\* ValidateSecretUpdate of Kubernetes: the field is immutable.
TypeUnchanged(oldObject, object) == SecretType[oldObject.spec] = SecretType[object.spec]

\* May object be applied when oldObject (None: nothing) is there?
Admits(oldObject, object) ==
  /\ CreatePolicies(object)
  /\ oldObject # None => /\ UpdatePolicies(oldObject, object)
                         /\ TypeUnchanged(oldObject, object)
=============================================================================
