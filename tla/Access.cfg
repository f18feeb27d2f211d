CONSTANTS
  a = a
  b = b
  Caller <- TwoCallers
  TokenLife = 3
  Lead = 2
  Delay = 1
  MaxTries <- TwoAndOne
  SessionLife = 2
  MaxTokens = 2
  Faults = 1
SPECIFICATION FairSpec
INVARIANTS TypeOK RepeatsWereUnanswered TokenStillGood GrantIsKept CacheNeverOverstates
PROPERTIES CallsEnd
