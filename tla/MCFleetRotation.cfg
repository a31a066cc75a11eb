SPECIFICATION SyncSpec

CONSTANTS
  a1 = a1
  a2 = a2
  w1 = w1
  w2 = w2
  i1 = i1
  Accounts = {a1, a2}
  Workers = {w1}
  Instances = {i1}
  InstanceOf <- OneInstance
  ReadsFail = FALSE
  Ops = {"light", "forced", "next", "single"}
  NoSnap = NoSnap
  Idle = Idle

PROPERTY RotatesAlone
