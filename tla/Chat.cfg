\* One page that posts, three messages, every fault.
SPECIFICATION Spec
CONSTANTS
  Tabs = {t1}
  Writers = {t1}
  Users = {ann}
  UserOf <- OneUser
  MaxMessages = 3
  MaxCalls = 2
  Faults = {"drop", "fail", "expire"}
INVARIANTS
  TypeOK
  NoDuplicates
  LastSeqIsNewest
  ReadNotForgotten
PROPERTY MarksWhatItShows
