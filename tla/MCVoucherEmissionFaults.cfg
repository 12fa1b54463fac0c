SPECIFICATION Spec
CONSTANTS
  r1 = r1 r2 = r2 r3 = r3 key = key plain = plain other = other
  shop = shop twin = twin cuit = cuit big = big small = small
  Cuits = {cuit}
  Looks = {big, small}
  CuitOf <- OneCuit
  Scheduler = Scheduler
  None = None
  Requests = {r1, r2, r3}
  Docs = {key, plain}
  DocOf <- KeyTwice
  Keyed = {key}
  LooksOf <- AllDistinct
  Issuers = {shop, twin}
  IssuerOf <- TwoIssuers
  MaxRetries = 2
  BatchSize = 1
  MaxNumber = 3
  Faults = {"network", "reply", "retryReply", "late", "date", "rejection",
            "query", "onboardingDb", "recordDb", "idempotencyDb", "queueDb", "crash"}
  MaxFaults = 3
INVARIANTS
  EmissionInv IssuedIsRecorded SnapshotStaysPending
PROPERTIES
  QueuedNeverDropped ImplementsIssuing
SYMMETRY
  PostsOfKey
