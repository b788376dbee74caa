---------------------------- MODULE MCMqttClients ----------------------------
(* Instances of MqttClients for TLC. *)
EXTENDS MqttClients, TLC

\* Client objects, brokers, topics and result strings are interchangeable.
ClientResultSymmetry == Permutations(Clients) \cup Permutations(Results)
EverySymmetry == Permutations(Clients) \cup Permutations(Brokers) \cup Permutations(Topics)
=============================================================================
