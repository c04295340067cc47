\* Two calls and a poll in flight, two secrets, a user who waits for the enrol.
SPECIFICATION Spec
CONSTANTS
  Slots = {s1, s2}
  Poller = poller
  MaxSecrets = 2
  Impatient = FALSE
INVARIANTS
  StepsFollowAccount
PROPERTIES
  CodesAreGated
  FormComesBack
  GhostConsoleEnds
  KeepsLifecycle
