\* One request at a time: the handlers mean what their docstrings say.
SPECIFICATION Spec
CONSTANTS
  Requests = {t1}
  Keys = {k1, k2}
  NoKey = NoKey
  MaxAttempts = 2
  LockMinutes = 2
  PreauthTtl = 1
  SessionTtl = 2
  CodeCount = 2
  MayDeactivate = TRUE
  MaxSecrets = 2
  MaxRestarts = 1
INVARIANTS
  TypeOK
  LockIffSpent
  EnrolledSecretProven
  UsedCodesAreGone
PROPERTIES
  ImplementsSerial
