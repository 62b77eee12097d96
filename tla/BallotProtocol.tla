------------------------- MODULE BallotProtocol -------------------------
(***************************************************************************)
(* The commitments of jaeger/ensemble.py and jaeger/signed_ballots.py at   *)
(* the level of their fields: a candidate commits to a rule, a snapshot to *)
(* a committee, a session to both and to the signers' keys, and a signed   *)
(* ballot to a vote in a session.  A guardian makes a signing request and  *)
(* signs it elsewhere; an untrusted carrier may change every field of the  *)
(* envelope; the verifier checks it against objects its caller may have    *)
(* changed; EnsembleVoter.evaluate decides on verified votes.              *)
(*                                                                         *)
(* A digest is its domain and what was hashed, a signature its key and the *)
(* digest that was signed.  Formats of identifiers and the random nonces   *)
(* that tell otherwise equal sessions and ballots apart are left out.      *)
(***************************************************************************)
EXTENDS Integers, Sequences, FiniteSets, FiniteSetsExt

CONSTANTS
    Guardians,      \* guardian ids; a guardian's key is the guardian itself
    Faulty,         \* guardians whose signer signs whatever it is given
    Contents,       \* contents of YARA rules
    Artifacts,      \* model artifact digests
    CarrierArtifacts, \* those a carrier may write into an envelope
    Networks,
    MinMembers,     \* MIN_ENSEMBLE_MEMBERS
    Full,           \* 10_000
    MinConfidence,  \* MIN_CONFIDENCE_BPS
    RuleConfidences, Confidences,    \* confidences a rule and a vote may carry
    MaxSessionLife, MaxBallotLife, MaxSkew, VerifyTimes,
    SessionWindows, BallotWindows,   \* pairs of times that are tried
    MaxSessions, MaxRequests, MaxAlterations

ASSUME ProtocolAssumption ==
    /\ Faulty \subseteq Guardians /\ IsFiniteSet(Guardians)
    /\ {MinMembers, Full} \subseteq Nat \ {0}
    /\ MinConfidence \in 0..Full
    /\ {MaxSessionLife, MaxBallotLife, MaxSkew, MaxSessions, MaxRequests, MaxAlterations} \subseteq Nat
    /\ VerifyTimes \subseteq Nat /\ RuleConfidences \union Confidences \subseteq Nat
    /\ SessionWindows \union BallotWindows \subseteq Nat \X Nat

VARIABLES
    established, \* established sessions: [candidate, snapshot, session]
    requests,   \* what honest guardians asked their signers to sign
    signatures, \* every signature made
    carried,    \* the envelope in flight, and the objects it is checked against
    alterations,
    votes       \* verified votes: [vote, context], with what they were verified against

protocolVars == <<established, requests, signatures, carried, alterations, votes>>

Nothing == [what |-> "nothing"]
Digest(domain, payload) == [domain |-> domain, of |-> payload]

ProtocolInit ==
    /\ established = {} /\ requests = {} /\ signatures = {}
    /\ carried = Nothing
    /\ alterations = 0
    /\ votes = {}

(***************************************************************************)
(* ensemble.py: candidates and snapshots.                                  *)
(***************************************************************************)
CandidateDigest(c) ==
    Digest("candidate", [content |-> c.content, bps |-> c.bps, artifact |-> c.artifact, rule |-> c.rule])

\* EnsembleCandidate.create on a rule; refuses one below the submission policy.
Candidate(content, bps, artifact) ==
    LET body == [content |-> content, bps |-> bps, artifact |-> artifact,
                 rule |-> Digest("rule", content), digest |-> Nothing]
    IN [body EXCEPT !.digest = CandidateDigest(body)]

IsValidCandidate(c) ==
    /\ c.bps \in MinConfidence..Full
    /\ c.rule = Digest("rule", c.content)
    /\ c.digest = CandidateDigest(c)

ValidMembers(members) == Cardinality(members) >= MinMembers

\* MembershipSnapshot.create: the members with the artifact each is pinned to.
Snapshot(members, artifactOf) ==
    [members |-> members, artifactOf |-> artifactOf,
     id |-> Digest("snapshot", [members |-> members, artifactOf |-> artifactOf])]

IsValidSnapshot(s) ==
    /\ ValidMembers(s.members)
    /\ s.id = Digest("snapshot", [members |-> s.members, artifactOf |-> s.artifactOf])

IsValidVote(v, candidate, snapshot) ==
    /\ v.guardian \in snapshot.members
    /\ v.snapshot = snapshot.id
    /\ v.candidate = candidate.digest
    /\ v.decision \in {"approve", "reject"}
    /\ v.bps \in 0..Full
    /\ v.artifact = snapshot.artifactOf[v.guardian]
    /\ v.artifact = candidate.artifact

IsValidGuardianVote(v, candidate, snapshot) ==
    /\ IsValidCandidate(candidate) /\ IsValidSnapshot(snapshot)
    /\ IsValidVote(v, candidate, snapshot)

(***************************************************************************)
(* signed_ballots.py: sessions.                                            *)
(***************************************************************************)
\* Identities and keys are unique, and the signers are the committee.
ValidatedSigners(signers, snapshot) ==
    /\ DOMAIN signers = snapshot.members
    /\ \A g, h \in DOMAIN signers : signers[g] = signers[h] => g = h

SessionId(s) ==
    Digest("session", [network |-> s.network, snapshot |-> s.snapshot, candidate |-> s.candidate,
                       from |-> s.from, until |-> s.until, signers |-> s.signers])

ValidWindow(from, until) == until - from \in 1..MaxSessionLife

IsValidSession(s, candidate, snapshot) ==
    /\ ValidWindow(s.from, s.until)
    /\ s.id = SessionId(s)
    /\ s.snapshot = snapshot.id /\ s.candidate = candidate.digest
    /\ IsValidCandidate(candidate) /\ IsValidSnapshot(snapshot)
    /\ ValidatedSigners(s.signers, snapshot)

(* BallotSession.create over a new candidate and snapshot.                 *)
CreateSession(content, bps, artifact, artifactOf, network, from, until) ==
    LET candidate == Candidate(content, bps, artifact)
        snapshot == Snapshot(Guardians, artifactOf)
        signers == [g \in Guardians |-> g]
        body == [network |-> network, snapshot |-> snapshot.id, candidate |-> candidate.digest,
                 from |-> from, until |-> until, signers |-> signers, id |-> Nothing]
        session == [body EXCEPT !.id = SessionId(body)]
    IN /\ Cardinality(established) < MaxSessions
       /\ IsValidCandidate(candidate) /\ IsValidSnapshot(snapshot)
       /\ ValidatedSigners(signers, snapshot)
       /\ ValidWindow(from, until)
       /\ established' = established \union
            {[candidate |-> candidate, snapshot |-> snapshot, session |-> session]}
       /\ UNCHANGED <<requests, signatures, carried, alterations, votes>>

(***************************************************************************)
(* signed_ballots.py: requests and envelopes.                              *)
(***************************************************************************)
SignedFields == {"session", "network", "guardian", "snapshot", "candidate",
                 "decision", "bps", "artifact", "issued", "expires"}

PayloadDigest(e) == Digest("ballot", [f \in SignedFields |-> e[f]])

BallotWindow(s, issued, expires) ==
    issued >= s.from /\ expires <= s.until /\ expires - issued \in 1..MaxBallotLife

(* BallotSigningRequest.create by guardian g, signed by its own signer and *)
(* attached to the envelope that is now on its way.                        *)
RequestAndSign(x, g, decision, bps, issued, expires) ==
    LET body == [session |-> x.session.id, network |-> x.session.network, guardian |-> g,
                 snapshot |-> x.snapshot.id, candidate |-> x.candidate.digest,
                 decision |-> decision, bps |-> bps, artifact |-> x.snapshot.artifactOf[g],
                 issued |-> issued, expires |-> expires, payload |-> Nothing, signature |-> Nothing]
        digest == PayloadDigest(body)
        signature == [key |-> g, digest |-> digest]
    IN /\ carried = Nothing
       /\ Cardinality(requests) < MaxRequests
       /\ IsValidSession(x.session, x.candidate, x.snapshot)
       /\ IsValidGuardianVote(body, x.candidate, x.snapshot)
       /\ BallotWindow(x.session, issued, expires)
       /\ requests' = requests \union
            {[guardian |-> g, decision |-> decision, bps |-> bps, content |-> x.candidate.content,
              network |-> x.session.network, session |-> x.session.id]}
       /\ signatures' = signatures \union {signature}
       /\ carried' = [envelope |-> [body EXCEPT !.payload = digest, !.signature = signature],
                      context |-> x, tampered |-> FALSE]
       /\ UNCHANGED <<established, alterations, votes>>

(***************************************************************************)
(* The carrier, a faulty guardian's signer, and the verifier's caller.     *)
(***************************************************************************)
Alter(changed) ==
    /\ carried # Nothing
    /\ alterations < MaxAlterations
    /\ alterations' = alterations + 1
    /\ changed # carried
    /\ carried' = [changed EXCEPT !.tampered = TRUE]
    /\ UNCHANGED <<established, requests, votes>>

AlterField ==
    /\ \/ \E g \in Guardians : Alter([carried EXCEPT !.envelope.guardian = g])
       \/ \E d \in {"approve", "reject"} : Alter([carried EXCEPT !.envelope.decision = d])
       \/ \E b \in Confidences : Alter([carried EXCEPT !.envelope.bps = b])
       \/ \E t \in VerifyTimes : Alter([carried EXCEPT !.envelope.issued = t])
       \/ \E t \in VerifyTimes : Alter([carried EXCEPT !.envelope.expires = t])
       \/ \E a \in CarrierArtifacts : Alter([carried EXCEPT !.envelope.artifact = a])
       \/ \E i \in {x.snapshot.id : x \in established} \union {Nothing} :
            Alter([carried EXCEPT !.envelope.snapshot = i])
       \/ \E x \in established : Alter([carried EXCEPT !.envelope.session = x.session.id,
                                                    !.envelope.network = x.session.network,
                                                    !.envelope.candidate = x.candidate.digest])
    /\ UNCHANGED signatures

AlterDigest ==
    Alter([carried EXCEPT !.envelope.payload = PayloadDigest(carried.envelope)]) /\ UNCHANGED signatures

AlterSignature ==
    /\ \E s \in signatures : Alter([carried EXCEPT !.envelope.signature = s])
    /\ UNCHANGED signatures

FaultySigns ==
    \E g \in Faulty :
        LET s == [key |-> g, digest |-> carried.envelope.payload]
        IN /\ Alter([carried EXCEPT !.envelope.signature = s])
           /\ signatures' = signatures \union {s}

\* The objects of another session, or a candidate with another content.
AlterContext ==
    /\ \/ \E x \in established : Alter([carried EXCEPT !.context = x])
       \/ \E c \in Contents : Alter([carried EXCEPT !.context.candidate.content = c])
    /\ UNCHANGED signatures

Lose ==
    /\ carried # Nothing
    /\ carried' = Nothing
    /\ UNCHANGED <<established, requests, signatures, alterations, votes>>

(***************************************************************************)
(* BallotVerifier.verify.                                                  *)
(***************************************************************************)
\* Mutant: the digest of the envelope is signed but not recomputed.
IsValidEnvelopeShapeAsGiven(e) ==
    e.decision \in {"approve", "reject"} /\ e.bps \in 0..Full

IsValidEnvelopeShape(e) ==
    /\ e.decision \in {"approve", "reject"} /\ e.bps \in 0..Full
    /\ e.payload = PayloadDigest(e)

IsFreshAt(e, s, now) ==
    /\ s.from <= e.issued /\ e.expires <= s.until
    /\ e.issued <= now + MaxSkew /\ now < e.expires
    /\ e.expires - e.issued \in 1..MaxBallotLife

VerifySignature(key, e) == e.signature = [key |-> key, digest |-> e.payload]

\* SignedGuardianBallot.to_vote
Vote(e) ==
    [guardian |-> e.guardian, snapshot |-> e.snapshot, candidate |-> e.candidate,
     decision |-> e.decision, bps |-> e.bps, artifact |-> e.artifact]

Verifies(e, x, now) ==
    /\ IsValidSession(x.session, x.candidate, x.snapshot)
    /\ IsValidEnvelopeShape(e)
    /\ e.session = x.session.id /\ e.network = x.session.network
    /\ e.snapshot = x.snapshot.id /\ e.candidate = x.candidate.digest
    /\ IsFreshAt(e, x.session, now)
    /\ IsValidGuardianVote(Vote(e), x.candidate, x.snapshot)
    /\ e.guardian \in DOMAIN x.session.signers
    /\ VerifySignature(x.session.signers[e.guardian], e)

VerifyEnvelope(now) ==
    /\ carried # Nothing
    /\ Verifies(carried.envelope, carried.context, now)
    /\ votes' = votes \union {[vote |-> Vote(carried.envelope), context |-> carried.context]}
    /\ carried' = Nothing
    /\ UNCHANGED <<established, requests, signatures, alterations>>

\* The bounds are used up.
Exhausted ==
    /\ carried = Nothing
    /\ Cardinality(established) = MaxSessions /\ Cardinality(requests) = MaxRequests
    /\ UNCHANGED protocolVars

ProtocolNext ==
    \/ \E content \in Contents, bps \in RuleConfidences, a \in Artifacts, n \in Networks,
          artifactOf \in [Guardians -> Artifacts], w \in SessionWindows :
          CreateSession(content, bps, a, artifactOf, n, w[1], w[2])
    \/ \E x \in established, g \in Guardians, d \in {"approve", "reject"}, bps \in Confidences,
          w \in BallotWindows : RequestAndSign(x, g, d, bps, w[1], w[2])
    \/ AlterField \/ AlterDigest \/ AlterSignature \/ FaultySigns \/ AlterContext \/ Lose
    \/ \E now \in VerifyTimes : VerifyEnvelope(now)
    \/ Exhausted

ProtocolSpec == ProtocolInit /\ [][ProtocolNext]_protocolVars

(***************************************************************************)
(* EnsembleVoter.evaluate on a sequence of votes.                          *)
(***************************************************************************)
ValidateBallot(ballot, x) ==
    /\ Len(ballot) = Cardinality(x.snapshot.members)
    /\ \A i \in DOMAIN ballot : IsValidVote(ballot[i], x.candidate, x.snapshot)
    /\ \A i, j \in DOMAIN ballot : ballot[i].guardian = ballot[j].guardian => i = j
    /\ \A i \in DOMAIN ballot : ballot[i].decision = "approve" => ballot[i].bps >= MinConfidence

Approvals(ballot) == {i \in DOMAIN ballot : ballot[i].decision = "approve"}

EvaluateVotes(ballot, x) ==
    /\ IsValidCandidate(x.candidate) /\ IsValidSnapshot(x.snapshot)
    /\ \A g \in x.snapshot.members : x.snapshot.artifactOf[g] = x.candidate.artifact
    /\ ValidateBallot(ballot, x)
    /\ Cardinality(Approvals(ballot)) > Cardinality(x.snapshot.members) \div 2

\* Mutant: the confidence is that of the most confident vote.
AggregateOfBest(ballot, x) ==
    Max({ballot[i].bps : i \in Approvals(ballot)})

AggregateConfidence(ballot, x) ==
    Min({x.candidate.bps} \union {ballot[i].bps : i \in Approvals(ballot)})

(***************************************************************************)
(* Properties.                                                             *)
(***************************************************************************)
Honest == Guardians \ Faulty

(* A vote accepted in an honest guardian's name is one that guardian asked *)
(* to have signed: same decision, confidence, network and session, about   *)
(* the very rule content the verifier holds.  Carrier, faulty signers and  *)
(* changed objects included (BallotVerifier.verify).                       *)
VerifiedWasRequested ==
    \A v \in votes : v.vote.guardian \in Honest =>
        \E r \in requests :
            /\ r.guardian = v.vote.guardian /\ r.decision = v.vote.decision /\ r.bps = v.vote.bps
            /\ r.session = v.context.session.id /\ r.network = v.context.session.network
            /\ r.content = v.context.candidate.content

(* What create and attach_signature let out, verify takes: an envelope     *)
(* nobody altered verifies at every time between its issue and its expiry. *)
SignedIsVerified ==
    (carried # Nothing /\ ~carried.tampered) =>
        \A now \in VerifyTimes :
            (carried.envelope.issued <= now /\ now < carried.envelope.expires) =>
                Verifies(carried.envelope, carried.context, now)

(* An approved decision is earned: for every ballot the verified votes     *)
(* allow, approval means that every honest member signed a vote on this    *)
(* content, and the published confidence is at most that of the rule and   *)
(* of every approving member, yet within the policy.                       *)
DecisionIsEarned ==
    \A x \in established :
      \A ballot \in [1..Cardinality(x.snapshot.members) -> {v.vote : v \in votes}] :
        EvaluateVotes(ballot, x) =>
            LET confidence == AggregateConfidence(ballot, x)
            IN /\ confidence \in MinConfidence..x.candidate.bps
               /\ \A g \in x.snapshot.members \intersect Honest :
                    \E r \in requests :
                       /\ r.guardian = g /\ r.content = x.candidate.content
                       /\ r.decision = "approve" => r.bps >= confidence

(* A ballot is genuine from the request to the vote: nobody votes in an    *)
(* honest guardian's name, and nothing that was signed as it should be is  *)
(* turned away.                                                            *)
BallotsAreGenuine == VerifiedWasRequested /\ SignedIsVerified
=============================================================================
