\* Two verifications that overlap: does a recovery code still open one session?
SPECIFICATION Spec
CONSTANTS
  Requests = {t1, t2}
  Keys = {k1}
  NoKey = NoKey
  MaxAttempts = 2
  LockMinutes = 1
  PreauthTtl = 1
  SessionTtl = 1
  CodeCount = 1
  MayDeactivate = FALSE
  MaxSecrets = 2
  MaxRestarts = 0
PROPERTIES
  RecoveryCodeOpensOnce
