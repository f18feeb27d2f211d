CONSTANTS
  a = a
  b = b
  VIN <- TwoVehicles
  Configs <- OnlyOn
  MaxSoC = 2
  Limits <- Two
  Amps <- One
  MaxFails = 1
  BackoffStep = 0
  AdjustEvery = 0
  Grace = 0
  AnomalyFrom = 0
  AnomalyTo = 0
  DataEvery = 0
  SelfStart = FALSE
  Weather <- Sunny
  DriveAmps = 1
  Ticks <- TwoTicks
  Telemetry = FALSE
  LateReports = FALSE
  Autodetect = FALSE
  MaxPlugJobs = 1
  Setups <- Quiet
SPECIFICATION Spec
INVARIANT RoundIsSkippedWhileProcessing
