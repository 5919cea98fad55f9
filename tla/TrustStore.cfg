\* Every set of at most MaxFiles root files, in every order.
CONSTANTS
  Prefix4 <- MCPrefix4
  OnCurve <- MCOnCurve
  CurveOrder <- MCCurveOrder
  Options <- MCOptions
  MaxFiles = 4
SPECIFICATION Spec
INVARIANTS
  TypeOK
  TrustsOwnRoots
  FailsOnBadRoot
PROPERTY CallsReturn
