SPECIFICATION Spec
CONSTANTS
  Keys = {k1}
  RecentLimit = 1
  MaxSignals = 2
  MaxFaults = 2
INVARIANTS
  MailboxValid
  NothingLost
  NoReplay
  HonestOutcomes
  ConsumedWasTaken
PROPERTIES
  OnlyNamedStalls
CHECK_DEADLOCK FALSE
