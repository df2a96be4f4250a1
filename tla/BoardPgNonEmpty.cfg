\* Two requests: a column is deleted while cards are created.
SPECIFICATION Spec
CONSTANTS
  r1 = r1  r2 = r2
  Requests = {r1, r2}
  MaxColumns = 3
  MaxCards = 1
  MaxVersion = 2
  Workloads <- JustDeletion
PROPERTY NoCardDeleted
CHECK_DEADLOCK FALSE
