\* TOTP_AT_REST_KEY is replaced: does a recovery code still open a session?
SPECIFICATION Spec
CONSTANTS
  Requests = {t1}
  Keys = {k1, k2}
  NoKey = NoKey
  MaxAttempts = 2
  LockMinutes = 2
  PreauthTtl = 2
  SessionTtl = 2
  CodeCount = 2
  MayDeactivate = TRUE
  MaxSecrets = 2
  MaxRestarts = 1
INVARIANTS
  RecoveryOutlivesKey
