SPECIFICATION StaffSpec

CONSTANTS
  t1 = t1
  r1 = r1
  r2 = r2
  x = x
  y = y
  Tickets = {t1}
  Requests = {r1, r2}
  Texts = {x, y}
  Blank = Blank
  MayCrash = TRUE
  NoTicket = NoTicket
  Idle = Idle
  c1 = c1
  Certs = {c1}
  Deciders = {r1, r2}
  NoRequest = NoRequest

CHECK_DEADLOCK FALSE

SYMMETRY Symmetric

INVARIANT TypeOK
INVARIANT FollowUpAnswerable
INVARIANT ResolutionTold
INVARIANT PhotoOfReply
INVARIANT ToldAsDecided
PROPERTY TicketLifeSpec
