\* Two calls overlap, over a list, two addresses of the detail page and a page
\* that makes no call; no bound on time.
SPECIFICATION Spec
CONSTANTS
  Lists = {fleet}
  Details = {d1, d2}
  Placeholders = {text}
  NoPage = NoPage
  Calls = {c1, c2}
  MaxVersion = 1
INVARIANTS
  ShownIsOfPage
  NeverBlank
PROPERTIES
  Converges
  SessionLossNoticed
  MarkedWhileAnswered
