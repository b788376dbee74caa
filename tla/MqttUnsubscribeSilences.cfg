\* A statement of the sources that the code does not keep.
SPECIFICATION Spec
CONSTANTS
  Brokers = {b1}
  Clients = {k1}
  Topics = {t1}
  Msgs = {m1}
  Results = {r1}
  None = None
  Capacity = 2
  Faults = {}
  Ops = {"sub", "pub", "unsub", "disconnect"}
PROPERTIES UnsubscribeSilences
