\* One unreliable broker: every interleaving of all the calls on one topic.
SPECIFICATION Spec
CONSTANTS
  Brokers = {b1}
  Clients = {k1, k2}
  Topics = {t1}
  Msgs = {m1}
  Results = {r1, r2}
  None = None
  Capacity = 2
  Faults = {"connect", "thread", "loss", "reject"}
  Ops = {"init", "sub", "pub", "unsub", "disconnect", "recCfg"}
SYMMETRY ClientResultSymmetry
INVARIANTS TypeOK AckedIsKnown QuietWhenErased NoStraySubscription JoinEnds NeverStranded
PROPERTIES ImplementsTopicBoard
