SPECIFICATION FairSpec
CONSTANTS
  r1 = r1 r2 = r2 r3 = r3 key = key plain = plain other = other
  shop = shop twin = twin cuit = cuit big = big small = small
  Cuits = {cuit}
  Looks = {big, small}
  CuitOf <- OneCuit
  Scheduler = Scheduler
  None = None
  Requests = {r1, r2, r3}
  Docs = {key, plain}
  DocOf <- KeyTwice
  Keyed = {key}
  LooksOf <- AllDistinct
  Issuers = {shop}
  IssuerOf <- OneIssuer
  MaxRetries = 3
  BatchSize = 2
  MaxNumber = 3
  Faults = {"network", "reply"}
  MaxFaults = 3
INVARIANTS
  ChosenNumberIsNext RecordedAsAuthorized NoCaeOrphaned OneCaePerKey
PROPERTIES
  RequestsAnswered QueueSettles
