SPECIFICATION BothSpec

CONSTANTS
  a = a
  r1 = r1
  r2 = r2
  x = x
  b = b
  c = c
  People = {a}
  AdminEmails = {}
  FacultyEmails = {}
  MaxNumber = 1
  MaxKeys = 0
  Passwords = {x}
  Requests = {r1, r2}
  MaxBegun = 0
  ReadsFail = TRUE
  NoRow = NoRow
  Idle = Idle
  i1 = i1
  i2 = i2
  e1 = e1
  e2 = e2
  Instances = {i1}
  Entries = {e1, e2}
  MaxToggles = 2
  MaxPages = 0
  NoMemo = NoMemo
  AtRest = AtRest
  Upstash = Upstash

CHECK_DEADLOCK FALSE

PROPERTY NeverWiped
