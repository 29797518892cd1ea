\* Three callers; the fairness of the Go mutex and of the HTTP timeout.
CONSTANTS
  Caller = {c1, c2, c3}
  Nobody = Nobody
  Unset = Unset
  Life = 3
  Margin = 1
SPECIFICATION FairSpec
INVARIANTS TypeOK SingleFlight LoginKept DeadOnlyIfLost
PROPERTY EnsureReturns
