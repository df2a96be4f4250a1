\* A page that posts, three messages, a socket that loses what it likes.
SPECIFICATION FairSpec
CONSTANTS
  Tabs = {t1}
  Writers = {t1}
  Users = {ann}
  UserOf <- OneUser
  MaxMessages = 3
  MaxCalls = 2
  Faults = {"drop"}
PROPERTIES
  LogSpec
  EventuallyShown
