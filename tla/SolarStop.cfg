SPECIFICATION Spec
CONSTANTS
    a = a
    VIN <- Alone
    NumPhases = 1
    MaxAmps = 16
    MinSurplus = 1000
    Buffer = 200
    MinChargeTime = 3
    Window = 3
    AdjustEvery = 3
    ReportEvery = 2
    Suns <- Skies
    Bounds <- Clouds
    Cap = 10
PROPERTIES StopNeedsLowSamples
