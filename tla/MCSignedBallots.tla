----------------------------- MODULE MCSignedBallots -----------------------------
(* The ballot ledger, and the commitments a signed ballot carries.  The two share  *)
(* no state, so a behaviour follows one of them while the other rests.             *)
EXTENDS BallotLedger, BallotProtocol, TLC

VARIABLE part    \* what this behaviour follows

----------------------------------------------------------------------------------
(* One session with a committee of five, the smallest the code admits.  g1 signs   *)
(* two ballots, b1 to approve and e1 to reject, and b4 repeats the nonce of b5;    *)
(* the decision hangs on which ballot of g1 counts.  c4 is the honest retry of g4. *)
(* f3 is an approval in the name of g3 whose signature does not verify.            *)

CONSTANTS s1, b1, b2, b3, b4, b5, c4, e1, f3, MaxTime

MCSessions == {s1}
MCBallots == {b1, b2, b3, b4, b5, c4, e1, f3}
MCCommittee == (s1 :> {"g1", "g2", "g3", "g4", "g5"})
MCValidFrom == (s1 :> 1)
MCValidUntil == (s1 :> 3)
MCSessionOf == [b \in Ballots |-> s1]
MCGuardianOf == (b1 :> "g1") @@ (e1 :> "g1") @@ (b2 :> "g2") @@ (b3 :> "g3") @@ (f3 :> "g3")
                @@ (b4 :> "g4") @@ (c4 :> "g4") @@ (b5 :> "g5")
MCNonceOf == (b1 :> 1) @@ (e1 :> 11) @@ (b2 :> 2) @@ (b3 :> 3) @@ (f3 :> 13)
             @@ (b4 :> 5) @@ (c4 :> 4) @@ (b5 :> 5)
MCIssuedAt == [b \in Ballots |-> IF b = b2 THEN 2 ELSE 1]
MCExpiresAt == [b \in Ballots |-> 3]
MCAuthentic == Ballots \ {f3}
MCApproving == {b1, b2, b3, f3}
MCTimes == 1 .. MaxTime

----------------------------------------------------------------------------------
(* Commitments, in two parts with a bound each.  "carriage": an honest guardian    *)
(* asks for one ballot that is changed up to three times, or for two that are      *)
(* changed up to twice, with the help of a faulty guardian's signer.  "decision":  *)
(* the whole committee of three votes, up to MaxRequests ballots over two          *)
(* contents; nothing is changed and nothing lost.                                  *)

\* A session 0..2, and one that is too long; ballots within it and beyond it.
MCSessionWindows == {<<0, 2>>, <<0, 3>>}
MCBallotWindows == {<<0, 2>>, <<1, 3>>}

CarriageBound ==
    /\ Cardinality(requests) <= 2
    /\ Cardinality(requests) + alterations <= 4
    /\ \A r \in requests : r.guardian = 1
DecisionBound ==
    /\ alterations = 0
    /\ \A x \in established : x.session.network = "n1"
    /\ carried # Nothing => carried.envelope.issued = 0
    /\ carried = Nothing => Cardinality(votes) = Cardinality(requests)

\* The bounds of the part are used up.
AtBound == part # "ledger" /\ carried = Nothing

BallotsInit ==
    /\ BallotInit /\ ProtocolInit
    /\ part \in {"ledger", "carriage", "decision"}

BallotsNext ==
    \/ part = "ledger" /\ BallotNext /\ UNCHANGED <<part, protocolVars>>
    \/ part = "carriage" /\ ProtocolNext /\ CarriageBound' /\ UNCHANGED <<part, ballotVars>>
    \/ part = "decision" /\ ProtocolNext /\ DecisionBound' /\ UNCHANGED <<part, ballotVars>>
    \/ AtBound /\ UNCHANGED <<part, ballotVars, protocolVars>>

BallotsSpec == BallotsInit /\ [][BallotsNext]_<<part, ballotVars, protocolVars>>
==================================================================================
