CONSTANTS
  Users = {ann, bob}
  Requests = {r1, r2}
  Invites = {i1}
  MaxUses = 1
  TTLs = {1}
  MaxClock = 0
  Addressees = {ann, bob}
  Nobody = Nobody
SYMMETRY Symmetry
SPECIFICATION Spec
PROPERTY EmailBinding
