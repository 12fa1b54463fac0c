SPECIFICATION Spec
CONSTANTS
  p1 = p1 p2 = p2 shop = shop own = own representative = representative
  None = None
  Calls = {p1, p2}
  Issuers = {shop}
  Holders = {own, representative}
  OwnCuit <- OwnCuitOfShop
  MaxKeys = 2
SYMMETRY AnyCall
INVARIANTS
  AccessInv  StatusHasEvidence  LoadedMatchesDeclared PairMatches
PROPERTIES
  ForgetsOnlyByOverlap
