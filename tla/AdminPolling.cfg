SPECIFICATION FairSpec
CONSTANTS
  r1 = r1
  r2 = r2
  Rows <- MCRows
  Pages <- PollingPages
  Clicks = 1
  MaxSends <- PollingSends
  MaxBusy = 1
  MaxFails = 1
  MaxForeign = 1
  Timed <- Polling
  MaxPolls = 2
  MaxTags = 9
PROPERTIES
  PollCatchesUp
CHECK_DEADLOCK FALSE
