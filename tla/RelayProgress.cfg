\* A request and a pass on one account, with a disk that may fail; fairness.
CONSTANTS
  Uid = {u1}
  Login = {l1}
  NoLogin = NoLogin
  Fp = {f1}
  NoFp = NoFp
  Balance = {0, 1}
  Absent = Absent
  HardCooldown = 1
  SoftCooldown = 1
  ErrCooldown = 1
  ErrThreshold = 2
  DiskMayFail = TRUE
  Request = {r1}
  Pass = {p}
  Poll = {q1}
  QuotaCooldown = 1
  MaxRotate = 2
  Good = {}
SPECIFICATION FairSpec
INVARIANTS Durable RelayTypeOK
PROPERTIES DisabledWithCause RequestEnds PassEnds
