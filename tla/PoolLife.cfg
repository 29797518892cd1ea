\* Two accounts, two fingerprints and a disk that never fails: the pool implements AccountLife.
CONSTANTS
  Uid = {u1, u2}
  Login = {l1}
  NoLogin = NoLogin
  Fp = {f1, f2}
  NoFp = NoFp
  Balance = {0, 1}
  Absent = Absent
  HardCooldown = 3
  SoftCooldown = 2
  ErrCooldown = 1
  ErrThreshold = 2
  DiskMayFail = FALSE
SPECIFICATION PoolSpec
SYMMETRY Symmetry
INVARIANT PoolTypeOK
PROPERTIES ImplementsLife FingerprintKept EarlyThawNeedsCredits
