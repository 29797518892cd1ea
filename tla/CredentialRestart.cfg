\* One caller is enough for a restart to lose a login.
CONSTANTS
  Caller = {c1}
  Nobody = Nobody
  Unset = Unset
  Life = 3
  Margin = 1
SPECIFICATION Spec
INVARIANT InvalidMeansDead
