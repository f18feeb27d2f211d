CONSTANTS
  a = a
  b = b
  VIN <- OneVehicle
  Configs <- BriefAndOff
  MaxSoC = 2
  Limits <- Two
  Amps <- One
  MaxFails = 2
  BackoffStep = 0
  AdjustEvery = 0
  Grace = 0
  AnomalyFrom = 0
  AnomalyTo = 0
  DataEvery = 0
  SelfStart = FALSE
  Weather <- Sunny
  DriveAmps = 1
  Ticks <- OneTick
  Telemetry = TRUE
  LateReports = FALSE
  Autodetect = FALSE
  MaxPlugJobs = 1
  Setups <- Recoveries
SPECIFICATION FairSpec
INVARIANTS ChargingHasStartEvent
PROPERTIES DisabledVehicleStops TestDriveEnds PhantomSessionEnds
