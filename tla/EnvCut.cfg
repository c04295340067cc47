\* One script at a time, which may die; JWT_SECRET may be removed by hand once.
SPECIFICATION Spec
CONSTANTS
  Runs = {r1}
  Emails = {admin}
  MaxSecrets = 6
  MaxEdits = 1
  MaxKills = 1
INVARIANT
  KeyNeverReplaced
