\* The user submits the password again while the enrol is pending.
SPECIFICATION Spec
CONSTANTS
  Slots = {s1, s2}
  Poller = poller
  MaxSecrets = 2
  Impatient = TRUE
PROPERTIES
  CodesAreGated
