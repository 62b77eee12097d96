--------------------------- MODULE MCObservableOutbox ---------------------------
(* Three epochs of one network: g1 and g3 have the same key and scope and          *)
(* overlapping windows, g2 another key and no durable outbox.  a2 carries the      *)
(* bundle of a1, a5 its nonce; a3 belongs to g2.                                   *)
EXTENDS ObservableOutbox, TLC

CONSTANTS a1, a2, a3, a4, a5, g1, g2, g3, net, MaxTime

MCApprovals == {a1, a2, a3, a4, a5}
MCIdOrder == (a1 :> 2) @@ (a2 :> 1) @@ (a3 :> 3) @@ (a4 :> 4) @@ (a5 :> 5)
MCSignerOf == (a1 :> "k") @@ (a2 :> "k") @@ (a3 :> "q") @@ (a4 :> "k") @@ (a5 :> "k")
MCNonceOf == (a1 :> "n1") @@ (a2 :> "n2") @@ (a3 :> "n3") @@ (a4 :> "n4") @@ (a5 :> "n1")
MCStatementOf == (a1 :> "s1") @@ (a2 :> "s2") @@ (a3 :> "s3") @@ (a4 :> "s4") @@ (a5 :> "s5")
MCCommitmentOf == (a1 :> "c1") @@ (a2 :> "c1") @@ (a3 :> "c3") @@ (a4 :> "c4") @@ (a5 :> "c5")
MCNotBefore == (a1 :> 1) @@ (a2 :> 3) @@ (a3 :> 1) @@ (a4 :> 2) @@ (a5 :> 4)
MCExpiresAt == (a1 :> 1) @@ (a2 :> 3) @@ (a3 :> 2) @@ (a4 :> 3) @@ (a5 :> 4)

MCBindings == {g1, g2, g3}
MCNetwork == [g \in MCBindings |-> net]
MCIdentity == (g1 :> "k") @@ (g2 :> "q") @@ (g3 :> "k")
MCEpoch == (g1 :> 1) @@ (g2 :> 2) @@ (g3 :> 3)
MCAuthorityFrom == (g1 :> 1) @@ (g2 :> 1) @@ (g3 :> 2)
MCAuthorityUntil == (g1 :> 4) @@ (g2 :> 4) @@ (g3 :> 5)
MCDurable == {g1, g3}
MCMaxPending == (g1 :> 1) @@ (g2 :> 1) @@ (g3 :> 2)
MCMaxRetention == (g1 :> 2) @@ (g2 :> 2) @@ (g3 :> 3)
MCTimes == 1 .. MaxTime
MCSymmetry == Permutations(Wires)
=================================================================================
