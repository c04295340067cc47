\* Two scripts that overlap and die, one email, up to four secrets, one edit, one death
\* of the service.
SPECIFICATION BoundedSpec
CONSTANTS
  Runs = {r1, r2}
  Emails = {admin}
  MaxSecrets = 4
  MaxEdits = 1
  MaxKills = 1
INVARIANTS
  KeysSurvive
  MigrationSticks
  DeploymentHolds
PROPERTIES
  ComesUp
