\* Two users, one of them with the role of an administrator; two requests at a time.
CONSTANTS
  User = {u1, u2}
  Name = {n1, n2}
  Account = {a1}
  Worker = {w1, w2}
  Session = {s1}
  AdminRole = {u1}
  Admin = admin
  Absent = Absent
SPECIFICATION Spec
SYMMETRY Symmetry
INVARIANTS TenancyTypeOK NobodyForgotten DeletedStaysDeleted EveryUserHasPool OwnAccounts
PROPERTY FallbackOnlyInTransit
