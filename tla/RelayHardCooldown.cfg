\* Two requests that used the same account are refused one after the other.
CONSTANTS
  Uid = {u1}
  Login = {l1}
  NoLogin = NoLogin
  Fp = {f1}
  NoFp = NoFp
  Balance = {0, 1}
  Absent = Absent
  HardCooldown = 3
  SoftCooldown = 1
  ErrCooldown = 1
  ErrThreshold = 2
  DiskMayFail = FALSE
  Request = {r1, r2}
  Pass = {}
  Poll = {q1}
  QuotaCooldown = 1
  MaxRotate = 3
  Good = {}
SPECIFICATION Spec
PROPERTY HardCooldownHolds
