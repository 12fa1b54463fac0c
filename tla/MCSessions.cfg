SPECIFICATION Spec
CONSTANTS
  c1 = c1 c2 = c2
  None = None
  Calls = {c1, c2}
  MaxPairs = 3
SYMMETRY AnyCall
INVARIANTS
  SessionsInv EndsOneWay SettledDevice
 
CONSTRAINT FewSpent
