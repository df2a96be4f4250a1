\* One request at a time: cards, moved within their column too.
SPECIFICATION Spec
CONSTANTS
  r1 = r1  r2 = r2
  Requests = {r1, r2}
  MaxColumns = 3
  MaxCards = 2
  MaxVersion = 2
  Workloads <- JustSameColumn
PROPERTY MovesAsAsked
CHECK_DEADLOCK FALSE
