CONSTANTS
  c1 = c1
  c2 = c2
  c3 = c3
  u1 = u1
  u2 = u2
  Calls = {c1, c2, c3}
  Users = {u1, u2}
  Admin = Admin
  Accountant = Accountant
  Origin = Origin
  NoToken = NoToken
  NoAccount = NoAccount
  NoRequest = NoRequest
SYMMETRY MCSymmetry
CHECK_DEADLOCK FALSE
SPECIFICATION Spec
INVARIANTS
  OneHeir
  ShutOut
  AdministratorRemains
  SessionKept
