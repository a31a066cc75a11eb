SPECIFICATION Spec

CONSTANTS
  a1 = a1
  a2 = a2
  w1 = w1
  w2 = w2
  i1 = i1
  Accounts = {a1}
  Workers = {w1}
  Instances = {i1}
  InstanceOf <- OneInstance
  ReadsFail = FALSE
  Ops = {"light", "single"}
  NoSnap = NoSnap
  Idle = Idle

PROPERTY LimitKeepsFigures
