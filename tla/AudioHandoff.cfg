CONSTANTS
  NumDevices = 2
  NULL = NULL
  MaxSends <- MCMaxSends
SPECIFICATION FairSpec
INVARIANTS TypeOK NoDataRace NeverAgain NothingLost EndsCountedOnce EndsCounted
PROPERTIES EndsNotified IsMailbox
