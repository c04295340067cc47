\* Two requests interleave, commits fail; time has no bound, so a lock always lapses.
SPECIFICATION Spec
CONSTANTS
  Requests = {t1, t2}
  Keys = {k1}
  NoKey = NoKey
  MaxAttempts = 1
  LockMinutes = 2
  PreauthTtl = 1
  SessionTtl = 1
  CodeCount = 1
  MayDeactivate = FALSE
  MaxSecrets = 2
  MaxRestarts = 0
INVARIANTS
  EnrolledIsUsable
  CodesReachOwner
PROPERTIES
  ImplementsLifecycle
  LockLapses
