SPECIFICATION Spec
CONSTANTS
  p = p
  q = q
  f = f
  g = g
  k = k
  Pages <- MCPages
  Frames <- MCFrames
  Fault = Fault
  May <- MCMay
  LineOf <- MCLineOf
  Ids = {b1, b2}
  None = None
  Careful = TRUE
  MaxGen = 2
INVARIANTS
  TypeOK
  NoSkippedFault
PROPERTY DispatchDescends
SYMMETRY MCSymmetry
