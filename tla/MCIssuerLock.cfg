SPECIFICATION FairSpec
CONSTANTS
  t1 = t1 t2 = t2 t3 = t3 t4 = t4 t5 = t5 shop = shop farm = farm
  Tasks = {t1, t2, t3, t4, t5}
  Keys = {shop, farm}
  KeyOf <- TwoKeys
  None = None
INVARIANTS
  PromiseChainIsQueue MutualExclusion ArrivalOrder
PROPERTIES
  EveryoneServed ImplementsExclusiveSection
