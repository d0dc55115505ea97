---------------------------- MODULE MCReconciler ----------------------------
(***************************************************************************)
(* Values for the constants of SecretSyncReconciler that a configuration   *)
(* file cannot express.                                                    *)
(***************************************************************************)
EXTENDS SecretSyncReconciler, TLC

CONSTANT TlsSpecs  \* the specs of another type than the rest

\* Editing a spec need not touch its forceSynchronization field.
NoForce == [s \in Specs |-> 0]

TypeOfSpec == [s \in Specs |-> IF s \in TlsSpecs THEN "kubernetes.io/tls" ELSE "Opaque"]

\* Controllers are interchangeable; only safety runs use this.
Symmetry == Permutations(Controllers)
=============================================================================
