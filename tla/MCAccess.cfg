SPECIFICATION BothSpec

CONSTANTS
  a = a
  r1 = r1
  r2 = r2
  x = x
  b = b
  c = c
  People = {a, b, c}
  AdminEmails = {b}
  FacultyEmails = {c}
  MaxNumber = 2
  MaxKeys = 2
  Passwords = {x}
  Requests = {r1, r2}
  MaxBegun = 3
  ReadsFail = TRUE
  NoRow = NoRow
  Idle = Idle
  i1 = i1
  i2 = i2
  e1 = e1
  e2 = e2
  Instances = {i1, i2}
  Entries = {e1, e2}
  MaxToggles = 2
  MaxPages = 1
  NoMemo = NoMemo
  AtRest = AtRest
  Upstash = Upstash

CHECK_DEADLOCK FALSE

SYMMETRY Symmetric

INVARIANT TypeOK
INVARIANT OneTablePerAddress
INVARIANT OneAccountPerInvite
INVARIANT KeyStaysValid
INVARIANT Kept
PROPERTY SignInKeepsRole
