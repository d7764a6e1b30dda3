SPECIFICATION FairSpec
CONSTANTS
  MaxWindows = 2
  MaxDeaths = 2
  MaxDrift = 1
INVARIANTS RecoveryQuiesced
PROPERTIES ForeignEditKept CloseRestores WindowCloses
CHECK_DEADLOCK FALSE
