SPECIFICATION FairSpec
CONSTANTS
  MaxPush = 3
  Loads <- OnlyPaced
CHECK_DEADLOCK FALSE
PROPERTY CacheIsExchanged
