CONSTANTS
  a = a
  b = b
  VIN <- OneVehicle
  Configs <- BriefHalfCheap
  MaxSoC = 0
  Limits <- OneTwo
  Amps <- One
  MaxFails = 2
  BackoffStep = 0
  AdjustEvery = 0
  Grace = 0
  AnomalyFrom = 0
  AnomalyTo = 0
  DataEvery = 0
  SelfStart = TRUE
  Weather <- SunnyAndCheap
  DriveAmps = 1
  Ticks <- OneTick
  Telemetry = TRUE
  LateReports = TRUE
  Autodetect = TRUE
  MaxPlugJobs = 2
  Setups <- Plugs
SPECIFICATION FairSpec
PROPERTIES PlugStateSettles PluggedInIsCharged
