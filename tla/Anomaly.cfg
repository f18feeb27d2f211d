CONSTANTS
  a = a
  b = b
  VIN <- OneVehicle
  Configs <- OnlyOn
  MaxSoC = 2
  Limits <- Two
  Amps <- One
  MaxFails = 2
  BackoffStep = 1
  AdjustEvery = 0
  Grace = 1
  AnomalyFrom = 0
  AnomalyTo = 3
  DataEvery = 0
  SelfStart = FALSE
  Weather <- Changing
  DriveAmps = 1
  Ticks <- OneTick
  Telemetry = TRUE
  LateReports = FALSE
  Autodetect = FALSE
  MaxPlugJobs = 1
  Setups <- Quiet
SPECIFICATION Spec
PROPERTIES AnomalyStopsLeftoversOnly
