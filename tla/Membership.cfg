\* Two concurrent requests, one invitation of up to two uses.
CONSTANTS
  Users = {ann, bob, cyd}
  Requests = {r1, r2}
  Invites = {i1}
  MaxUses = 2
  TTLs = {1}
  MaxClock = 1
  Addressees = {}
  Nobody = Nobody
SYMMETRY Symmetry
SPECIFICATION Spec
INVARIANTS TypeOK SoleOwner AuthorityHolds UsesBounded AuditedJoinsAreUses
PROPERTY ApiSpec
