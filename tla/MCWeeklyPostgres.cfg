SPECIFICATION FairSpec

CHECK_DEADLOCK FALSE

CONSTANTS
  u1 = u1
  r1 = r1
  r2 = r2
  Students = {1, 2, 3}
  Audience = {u1}
  Requests = {r1}
  Backend = "postgres"
  MayCrash = FALSE
  Idle = Idle

PROPERTY WeekPublished
