SPECIFICATION ViewSpec

CONSTANTS
  a1 = a1
  a2 = a2
  w1 = w1
  w2 = w2
  i1 = i1
  Accounts = {a1}
  Workers = {w1, w2}
  Instances = {i1}
  InstanceOf <- OneInstance
  ReadsFail = TRUE
  Ops = {"light", "forced", "single"}
  NoSnap = NoSnap
  Idle = Idle

PROPERTY LostOnlyByErrorOrOverlap
PROPERTY GoodRowKept
PROPERTY SelfHeals
