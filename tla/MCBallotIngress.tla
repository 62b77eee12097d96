--------------------------- MODULE MCBallotIngress ---------------------------
(* One session; g1 signs b1 and, to the contrary, e1.  The session is over   *)
(* at time 3, so a prune may come while frames are in work.                  *)
EXTENDS BallotIngress, TLC

CONSTANTS s1, b1, e1, c3

MCSessions == {s1}
MCTwoBallots == {b1, e1}
MCCommittee == (s1 :> {"g1", "g2"})
MCValidFrom == (s1 :> 1)
MCValidUntil == (s1 :> 3)
MCSessionOf == [b \in Ballots |-> s1]
MCGuardianOf == (b1 :> "g1") @@ (e1 :> "g1")
MCNonceOf == (b1 :> 1) @@ (e1 :> 11)
MCIssuedAt == [b \in Ballots |-> 1]
MCExpiresAt == [b \in Ballots |-> 3]
MCTimes == 1..MaxTime
Symmetric == Permutations(Conns \ {c3})

(* Bound: two clients send ballots, the third what is none. *)
Sends(c, f) == (f \in Ballots) <=> (c # c3)

MCNext == ServerNext \/ \E c \in Conns, f \in Frames : Sends(c, f) /\ Submit(c, f)
MCSpec == IngressInit /\ [][MCNext]_ingressVars
=============================================================================
