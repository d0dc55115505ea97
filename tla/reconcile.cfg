SPECIFICATION Spec

CONSTANTS
  None = None
  c1 = c1
  c2 = c2
  s1 = s1
  s2 = s2
  Controllers = {c1, c2}
  Specs = {s1, s2}
  TlsSpecs = {s2}
  LabelSpecs = {}
  AnnotationSpecs = {}
  ForceSynchronization <- NoForce
  SecretType <- TypeOfSpec
  allowedSecretTypes = {"Opaque", "kubernetes.io/tls"}
  deniedSecretTypes = {"kubernetes.io/service-account-token"}
  Versions = {1}
  RotatesBack = FALSE
  PollingEnabled = FALSE
  HasParameters = {TRUE, FALSE}
  Relists = FALSE
  ForeignSecrets = TRUE
  SecretDeletable = TRUE
  MaxChanges = 2
  MaxClock = 1
  MaxFaults = 1

SYMMETRY Symmetry
INVARIANT TypeOK
INVARIANT CreatedIffHash
INVARIANT HashWasApplied
INVARIANT NoLostEvent
PROPERTY SyncTimeOnlyAfterPatch
PROPERTY NoStatusRegress
PROPERTY ImplementsContract
CHECK_DEADLOCK FALSE
