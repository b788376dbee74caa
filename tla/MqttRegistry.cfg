\* Two brokers, two client objects, two topics: what subscribing and unsubscribing
\* at one does to the others.
SPECIFICATION Spec
CONSTANTS
  Brokers = {b1, b2}
  Clients = {k1, k2}
  Topics = {t1, t2}
  Msgs = {m1}
  Results = {r1}
  None = None
  Capacity = 2
  Faults = {}
  Ops = {"sub", "unsub"}
SYMMETRY EverySymmetry
INVARIANTS NoStraySubscription
PROPERTIES WritesOnlyPromised
