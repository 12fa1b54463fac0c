SPECIFICATION Spec
CONSTANTS
  None = None
  Posts = {x1, x2}
  IssuerCuit <- MCIssuerCuit
  ExportInputs <- MCExportInputs
  Groups = {"domestic", "export"}
  ExportGroups = {"export"}
  MaxNumber = 2
  Requests = {q1, q2, q3}
  CsvFiles <- MCCsvFiles
  ManualInvoices <- MCManualInvoices
  Updates <- MCUpdates
  MaxPurchaseRows = 3
  NoUser = NoUser
  Users = {u1, u2}
  MaxPushCalls = 3
  ApiClients = {"a", "b"}
  Endpoints = {1, 2, 3}
  EndpointOwner <- MCEndpointOwner
  Events = {e1}
  MaxAttempts = 3
  Certificates = {1, 2}
  TicksPerDay = 4
  EndsIn = {3}
  MaxMornings = 3
  MaxDelay = 1
  LastDigits = {0, 9}
  FirstDay = 330
  LastDay = 425
  HorizonDays = 90
  CertificateEnds = {40, 365}
  DaysBack = {0, 20}
  DaysAhead = {0, 40}
  Nothing = Nothing
  Lookups = {l1, l2}
  Environments = {"homologation", "production"}
  Days = {0, 7, 30}
  MaxVersion = 2
  Keys = {"k1", "k2"}
  MaxPerWindow = 2
  WindowTicks = 3
  MaxTracked = 1
  MaxTick = 5
  MaxArrivals = 5
  Nobody = Nobody
  Owners = {o1}
  Clients = {c1}
  Cuits = {"t1", "t2"}
  MaxIssuers = 2
  MaxRequests = 2
  Absent = Absent
  Tasks = {t1, t2, t3}
  Documents = {d1, d2}
  PointNumbers = {1, 2}
  Expectations <- MCExpectations
  Plan <- MCPlan
  SummaryWindow = 2
  MaxPage = 1
  Retention = 2
  Drafts <- MCDrafts
  FormClients <- MCFormClients
  Registered <- MCRegistered
  Quote <- MCQuote
  EnabledTypes = {{1, 201}}
  Typed <- MCTyped
  TypedInItem <- MCTypedInItem
  TypedInTribute <- MCTypedInTribute
  MaxEdits = 2
  MaxEmissions = 2
CHECK_DEADLOCK FALSE
INVARIANTS
  PartsTypeOK ExportsHold MissingIsReported PurchasesHold NoticesHold ServicesHold FormHolds
