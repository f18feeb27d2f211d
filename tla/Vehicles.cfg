CONSTANTS
  a = a
  b = b
  q1 = q1
  q2 = q2
  VIN <- TwoVehicles
  Req <- TwoRequests
  MaxReports = 3
  MaxSecond = 2
  Setups <- All
SPECIFICATION FairSpec
INVARIANTS TypeOK RowIsRegistered SessionHasEvent PollerKnowsVehicles SubscriberIsCurrent
PROPERTIES ReportsInOrder LatestReportArrives
