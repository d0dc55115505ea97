SPECIFICATION FairSpec

CONSTANTS
  None = None
  c1 = c1
  s1 = s1
  s2 = s2
  Controllers = {c1}
  Specs = {s1, s2}
  TlsSpecs = {s2}
  LabelSpecs = {}
  AnnotationSpecs = {}
  ForceSynchronization <- NoForce
  SecretType <- TypeOfSpec
  allowedSecretTypes = {"Opaque", "kubernetes.io/tls"}
  deniedSecretTypes = {"kubernetes.io/service-account-token"}
  Versions = {1}
  RotatesBack = FALSE
  PollingEnabled = TRUE
  HasParameters = {FALSE}
  Relists = FALSE
  ForeignSecrets = FALSE
  SecretDeletable = FALSE
  MaxChanges = 1
  MaxClock = 0
  MaxFaults = 0

PROPERTY ReportsMissingParameters
CHECK_DEADLOCK FALSE
