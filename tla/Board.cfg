\* The board, its sprints and its page, one workload per behaviour.
SPECIFICATION PlanSpec
CONSTANTS
  r1 = r1  r2 = r2
  s1 = s1  NoSprint = NoSprint
  Requests = {r1, r2}
  Sprints = {s1}
  MaxColumns = 4
  MaxCards = 2
  MaxVersion = 4
  LastDay = 2
  MaxSprintDays = 2
  Workloads <- TheWorkloads
SYMMETRY RequestSymmetry
INVARIANTS
  PlanTypeOK
  EachCardOnce
  NoLostEdit
  MoverHoldsItsCard
  CardsHaveAColumn
  CardsInRealSprints
  WindowsAreValid
PROPERTIES
  MovesAsAsked
  StaysCompleted
  ContractSpec
  SaveMovesOnlyIfPicked
  PastIsKept
CHECK_DEADLOCK FALSE
