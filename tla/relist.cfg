SPECIFICATION Spec

CONSTANTS
  None = None
  c1 = c1
  s1 = s1
  s2 = s2
  Controllers = {c1}
  Specs = {s1, s2}
  TlsSpecs = {s2}
  LabelSpecs = {}
  AnnotationSpecs = {}
  ForceSynchronization <- NoForce
  SecretType <- TypeOfSpec
  allowedSecretTypes = {"Opaque", "kubernetes.io/tls"}
  deniedSecretTypes = {"kubernetes.io/service-account-token"}
  Versions = {1, 2}
  RotatesBack = FALSE
  PollingEnabled = FALSE
  HasParameters = {TRUE}
  Relists = TRUE
  ForeignSecrets = FALSE
  SecretDeletable = FALSE
  MaxChanges = 3
  MaxClock = 0
  MaxFaults = 1

INVARIANT NoLostEvent
CHECK_DEADLOCK FALSE
