\* Pages, documents and rooms, one workload per behaviour.
SPECIFICATION CollabSpec
CONSTANTS
  p1 = p1  p2 = p2  p3 = p3  d1 = d1
  r1 = r1  r2 = r2  e1 = e1  e2 = e2
  First = First  Root = Root  NoDoc = NoDoc
  Pages = {p1, p2, p3}
  Docs = {d1}
  Requests = {r1, r2}
  Editors = {e1, e2}
  Statuses = {"draft", "published"}
  PublishedStatuses = {"published"}
  Titles = {"old", "new"}
  MaxPageVersions = 2
  MaxCopies = 4
  Bodies <- MCBodies
  FirstBody <- MCFirst
  Workloads <- TheWorkloads
INVARIANTS
  CollabTypeOK
  CycleOnlyFromOverlap
  ReadersAgree
  TextIsAVersion
  NeitherLostNorDoubled
PROPERTIES
  ContractUntilRaced
  MoveKeepsTexts
  MemoryKeepsEdits
  ReceivedReachesPage
CHECK_DEADLOCK FALSE
