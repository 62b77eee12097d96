--------------------------- MODULE MCThreatHintIngress ---------------------------
(* Small instances of ThreatHintIngress: h1 and h2 commit to the same threat with  *)
(* different nonces, and h2 is observed when h1 is about to expire.  The proof of   *)
(* h1 verifies for both networks, that of h2 for one of them only.                  *)
EXTENDS ThreatHintIngress, TLC

CONSTANTS h1, h2, n1, n2, MaxTime

MCNonce == (h1 :> "a") @@ (h2 :> "b")
MCThreatHash == (h1 :> "t") @@ (h2 :> "t")
MCObservedAt == (h1 :> 1) @@ (h2 :> 3)
MCProofNetworks == (h1 :> {n1, n2}) @@ (h2 :> {n1})
MCTimes == 1 .. MaxTime
MCSymmetry == Permutations(Conns)

================================================================================
