SPECIFICATION RecordsSpec

CHECK_DEADLOCK FALSE

CONSTANTS
  u1 = u1
  u2 = u2
  r1 = r1
  r2 = r2
  Students = {1, 2, 3}
  Audience = {u1, u2}
  Requests = {r1, r2}
  Backend = "sqlite"
  MayCrash = TRUE
  Idle = Idle
  p = p
  q = q
  t1 = t1
  t2 = t2
  k = k
  l = l
  Own = {p, q}
  Teams = {t1, t2}
  Heavies = {k}
  Lights = {l}
  MaxPushes = 1
  NoRow = NoRow
  NoSync = NoSync
  None = None
  x = x
  y = y
  i1 = i1
  i2 = i2
  Instances = {i1, i2}
  Pupils = {x, y}
  Staff = Staff
  MaxSaves = 2
  NoMemo = NoMemo

SYMMETRY Symmetric

INVARIANT TypeOK
INVARIANT ToldTwiceOnlyBySlip
INVARIANT NeverMore
INVARIANT OffExactly
PROPERTY AnnouncementSpec
PROPERTY LoweredOnlyByMiss
