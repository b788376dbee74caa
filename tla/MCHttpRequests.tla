--------------------------- MODULE MCHttpRequests ---------------------------
(* Instances of HttpRequests for TLC. *)
EXTENDS HttpRequests

Kind(maker, cfg) == [maker |-> maker, cfg |-> cfg]
\* Tasks under the global configuration, under one that the caller keeps, and
\* under one that is gone; of every maker.
MixedKinds == {Kind("common", "global"), Kind("commonSend", "on"), Kind("send", "temporary")}
\* A task that any status function can hear of, with the retry feature off.
FeatureOffKinds == {Kind("commonSend", "off")}
=============================================================================
