CONSTANTS
  a = a
  b = b
  c = c
  VIN <- ThreeVehicles
  MaxWorking = 2
SPECIFICATION FairSpec
INVARIANTS OverlapOnlyWhenTorn PanicNeedsThree
PROPERTY FrontIsReleased
