SPECIFICATION Spec

CONSTANTS
  s1 = s1
  s2 = s2
  adm = adm
  i1 = i1
  i2 = i2
  p1 = p1
  p2 = p2
  h1 = h1
  Emails = {s1, s2, adm}
  Staff = {adm}
  Prns = {p1, p2}
  Handles = {h1}
  Instances <- TwoLoops
  Postgres = TRUE
  ReadsMayFail = TRUE
  MaxId = 2
  MaxJobs = 1
  NoPrn = NoPrn
  NoHandle = NoHandle

SYMMETRY LoopSymmetry

INVARIANT TypeOK
INVARIANT VerifiedIffApproved
PROPERTY PrnClashExplained
PROPERTY PrnChangeExplained
PROPERTY OrphanOnlyByLateSync
PROPERTY LifecycleSpec
