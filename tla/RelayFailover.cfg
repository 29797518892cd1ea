\* Two requests over two accounts of which one never fails, with crossing logins, deletions and restarts.
CONSTANTS
  Uid = {u1, u2}
  Login = {l1, l2}
  NoLogin = NoLogin
  Fp = {f1}
  NoFp = NoFp
  Balance = {0, 1}
  Absent = Absent
  HardCooldown = 1
  SoftCooldown = 1
  ErrCooldown = 1
  ErrThreshold = 1
  DiskMayFail = FALSE
  Request = {r1, r2}
  Pass = {}
  Poll = {q1, q2}
  QuotaCooldown = 1
  MaxRotate = 2
  Good = {u1}
SPECIFICATION Spec
SYMMETRY SymLogin
INVARIANTS AlwaysServed FileInPool
PROPERTY DisabledWithCause
