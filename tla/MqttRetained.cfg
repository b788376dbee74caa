\* Delivery of retained messages over a connection that does not break.
SPECIFICATION FairSpec
CONSTANTS
  Brokers = {b1}
  Clients = {k1}
  Topics = {t1}
  Msgs = {m1}
  Results = {r1, r2}
  None = None
  Capacity = 2
  Faults = {}
  Ops = {"sub", "pub", "unsub"}
PROPERTIES RetainedArrives
