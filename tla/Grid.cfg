SPECIFICATION Spec
CONSTANTS
    HoursPerDay = 6
    AfterHour = 2
    Ahead = 1
    Slot = 30
    LastHour = 11
    DaysPerWeek = 2
    MaxAmps = 16
    NumPhases = 3
    Gains = {6}
    Setups <- SomeSetups
INVARIANTS TypeOK PlanNeverPanics DepartureIsNext NeverAboveLimit ChargedAtDeparture OnlyCheapestHours
PROPERTIES HourIsUsedToTheEnd TomorrowIsStored
