SPECIFICATION Spec
CONSTANTS
  None = None
  Drafts <- MCDrafts
  Purchases <- MCPurchases
  Accounts <- MCAccounts
  Legacy <- MCLegacy
  MaxSales = 2
  MaxVouchers = 3
  MaxPurchases = 1
  MaxMonth = 1
  ItemsPerPage = 15
  ExtrasPerPage = 6
INVARIANTS
  TypeOK  NoteDraftIsAccepted NoteCancels  
