SPECIFICATION AllSpec

CONSTANTS
  Handles = {h1, h2, h3}
  Servers = {s1}
  Batch = 2
  Reach = 2
  NoMap = NoMap
  NoCall = NoCall
  None = None
  Unscored = Unscored
  Accounts = {1, 2, 3}
  Users = {g1, g2}
  Owned = {p, q}
  Others = {t, u}
  Classes <- SomeClasses
  Filters <- SomeFilters
  Teachings <- SomeTeachings
  PageSize = 2
  NoSnap = NoSnap
  MaxNotes = 2
  Limit = 1
  Clicks = {c1, c2}
  Streams = {s4, s5, s6}
  Slots = 2
  Ticks = 3
  NoList = NoList
  Idle = Idle

CHECK_DEADLOCK FALSE

INVARIANT NeverRaised
INVARIANT PagesAgree
INVARIANT BellTrue
PROPERTY HandlesRefreshed
PROPERTY BellSettles
