\* A login for an account that was disabled.
CONSTANTS
  Uid = {u1}
  Login = {l1, l2}
  NoLogin = NoLogin
  Fp = {f1}
  NoFp = NoFp
  Balance = {0, 1}
  Absent = Absent
  HardCooldown = 2
  SoftCooldown = 1
  ErrCooldown = 1
  ErrThreshold = 2
  DiskMayFail = FALSE
  Request = {r1}
  Pass = {}
  Poll = {q1}
  QuotaCooldown = 1
  MaxRotate = 3
  Good = {}
SPECIFICATION Spec
PROPERTY LoginEnables
