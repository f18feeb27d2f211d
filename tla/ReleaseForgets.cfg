CONSTANTS
  a = a
  b = b
  c = c
  VIN <- TwoVehicles
  MaxWorking = 2
SPECIFICATION Spec
PROPERTY ReleaseForgetsVIN
