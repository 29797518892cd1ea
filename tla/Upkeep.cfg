\* A day of 24 hours of four ticks; the clock is set, a pass is long or the process ends twice.
CONSTANTS
  Missing = Missing
  Broken = Broken
  Unset = Unset
  Bad = Bad
  File <- MCFile
  Env <- MCEnv
  Slot = 4
  MaxLag = 1
  MaxPass = 1
  LongPass = 6
  Shift <- MCShift
  Upsets = 2
SPECIFICATION FairSpec
INVARIANTS TypeOK Usable Punctual NoRepeat
PROPERTY EveryHourServed
