SPECIFICATION Spec
CONSTANTS
  d1 = d1
  r1 = r1
  Refs = {r1, r2}
  Digests = {d1}
  Digest <- OneDigest
  Keys = {k1}
  Handlers = {h1, h2}
  Attempts = {a1}
  NoAttempt = NoAttempt
  Package <- OneCoordinate
  MaxWorks = 2
  MaxRevision = 3
  FreeRevisions = 2
  FaultKinds = {"crash", "provider", "timeout", "content", "docker", "sick"}
  Weight <- CrashesAreFree
  Main = {r1}
  MaxLoad = 2
SYMMETRY Symmetry
CHECK_DEADLOCK FALSE
INVARIANTS
  SlaveTypeOK
  DesiredIsSavedFirst
  RowIsCurrent
  PendingIsCurrent
  StoppedIsGone
  ReadyRuns
  AttemptsAgree
  KeptIsNotRerun
