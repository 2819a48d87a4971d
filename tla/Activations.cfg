SPECIFICATION FairActivationSpec
CONSTANTS
  r1 = r1
  d1 = d1
  Refs = {r1}
  Digests = {d1}
  Digest <- OneDigest
  Keys = {"on", "off", "again", "run"}
  Handlers = {h1, h2}
  Attempts = {}
  NoAttempt = NoAttempt
  Package <- NoPackage
  MaxWorks = 0
  Requests <- OnOffOn
  Spare <- Another
  MaxRevision = 0
  FreeRevisions = 3
  FaultKinds = {"crash", "lost", "docker", "driver", "sick", "timeout",
                "provider"}
  Weight <- AllCount
  Main = {r1}
  MaxLoad = 1
CHECK_DEADLOCK FALSE
PROPERTIES
  KeepsContract
  
