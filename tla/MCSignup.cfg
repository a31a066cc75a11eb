SPECIFICATION Spec

CONSTANTS
  e1 = e1
  p1 = p1
  b1 = b1
  Emails = {e1}
  Prns = {p1}
  Browsers = {b1}
  MaxInFlight = 2
  n1 = n1
  n2 = n2
  Nonces = {n1}
  ReadsMayFail = TRUE
  Anonymous = {"linkedin"}
  NoDraft = NoDraft
  NoPrn = NoPrn
  NoAccount = NoAccount
  NoFlow = NoFlow

INVARIANT TypeOK
INVARIANT PhaseGate
INVARIANT PrefsFollowAccount
PROPERTY DoneMeansStored
PROPERTY LinksKeptWithoutOverlap
