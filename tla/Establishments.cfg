\* Two names, two creations, three keys, two pushes that overlap a listing of one row.
SPECIFICATION RegistrySpec
CONSTANTS
  Etabs = {1, 2, 3}
  Threads = {t1, t2}
  Payloads <- Beats
  StartClock = 0
  MaxClock = 1
  MaxPushes = 2
  DayLength = 1
  Names = {n1, n2}
  Creators = {c1, c2}
  MaxKeys = 3
  PageLimit = 1
SYMMETRY Symmetry
INVARIANTS
  ShownKeyOpens
  OnlyHoldersPush
  ListingIsCurrent
PROPERTIES
  DeactivatedFallsSilent
