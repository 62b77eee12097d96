--------------------------- MODULE MCThreatHintAdapter ---------------------------
(* Small instances of ThreatHintAdapter: hints without common keys, all observed at *)
(* the same time, in the order h1, h2 of their digests.                             *)
EXTENDS ThreatHintAdapter, TLC

CONSTANTS h1, h2, MaxTime

MCDigestRank == (h1 :> 1) @@ (h2 :> 2)
MCUnique == MCDigestRank
MCObservedAt == [h \in Hints |-> 1]
MCTimes == 1 .. MaxTime

================================================================================
