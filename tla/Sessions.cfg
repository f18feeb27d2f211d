CONSTANTS
  a = a
  b = b
  VIN <- OneVehicle
  Configs <- OnLessStrong
  MaxSoC = 2
  Limits <- OneTwo
  Amps <- OneThree
  MaxFails = 2
  BackoffStep = 1
  AdjustEvery = 0
  Grace = 1
  AnomalyFrom = 0
  AnomalyTo = 2
  DataEvery = 0
  SelfStart = FALSE
  Weather <- Changing
  DriveAmps = 1
  Ticks <- OneTick
  Telemetry = TRUE
  LateReports = FALSE
  Autodetect = FALSE
  MaxPlugJobs = 1
  Setups <- Session
SPECIFICATION Spec
INVARIANTS TypeOK BusyIsRegistered
PROPERTIES PollerKeepsLiveSession MinChargeTimeHonoured
