\* The process is started without a config file.
CONSTANTS
  Missing = Missing
  Broken = Broken
  Unset = Unset
  Bad = Bad
  File <- MCFile
  Env <- MCEnv
  Slot = 4
  MaxLag = 1
  MaxPass = 1
  LongPass = 6
  Shift <- MCShift
  Upsets = 2
SPECIFICATION Spec
INVARIANT MissingMeansDefaults
