\* Liveness over connections that break, one topic and one result.
SPECIFICATION FairSpec
CONSTANTS
  Brokers = {b1}
  Clients = {k1}
  Topics = {t1}
  Msgs = {m1}
  Results = {r1}
  None = None
  Capacity = 2
  Faults = {"connect", "thread", "loss", "reject"}
  Ops = {"sub", "pub", "unsub", "disconnect"}
PROPERTIES EveryCallReturns Reconnects
