SPECIFICATION Spec
CONSTANTS
  r1 = r1 r2 = r2 r3 = r3 key = key plain = plain other = other
  shop = shop twin = twin cuit = cuit big = big small = small
  Cuits = {cuit}
  Looks = {big, small}
  CuitOf <- OneCuit
  Scheduler = Scheduler
  None = None
  Requests = {r1, r2, r3}
  Docs = {key, plain}
  DocOf <- KeyTwice
  Keyed = {key}
  LooksOf <- AllDistinct
  Issuers = {shop}
  IssuerOf <- OneIssuer
  MaxRetries = 2
  BatchSize = 2
  MaxNumber = 3
  Faults = {"network", "retryReply"}
  MaxFaults = 2
INVARIANT NoCaeOrphaned
