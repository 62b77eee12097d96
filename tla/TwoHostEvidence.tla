--------------------------- MODULE TwoHostEvidence ---------------------------
(***************************************************************************)
(* Two operator tools that leave evidence of a delivery.                   *)
(*                                                                         *)
(* scripts/development_threat_hint_v1_boundary.py: each process receives   *)
(* one v1 payload on a socket, writes a receipt and answers "rejected" or  *)
(* "busy"; it knows no other status.                                       *)
(*                                                                         *)
(* scripts/gh238_v2_execution_evidence.py: each of two hosts attests what  *)
(* it ran in a v2 delivery and one record is built from two attestations.  *)
(*                                                                         *)
(* The tools share no state and neither reads what the other wrote.  A     *)
(* digest is the value it is taken of.  The clients, the network and the   *)
(* operator are external: connections break at any point, processes are    *)
(* killed, files are taken away, artifacts are redeployed and challenges   *)
(* made while attestations of earlier ones lie around.  How one file is    *)
(* read is OwnerFile, how one is published PublishedFile.                  *)
(***************************************************************************)
EXTENDS Integers, FiniteSets

CONSTANTS
    Boundaries,       \* the boundary processes, started with the same paths
    NoSocket,         \* the socket path without an entry
    Payloads,         \* the payloads a client may send
    Expected,         \* --expected-sha256 of the boundary
    Challenges,       \* 32-byte challenges
    NoChallenge,      \* a host without a challenge file
    Artifacts,        \* executables
    Observations,     \* what attest is given: source commit, payload file, time
    EarliestObservation,
    MaxRedeploys,     \* bound: how often an executable is replaced
    MaxAttestations   \* bound: attestation files and running attest processes

ASSUME TwoHostAssumption ==
    /\ NoSocket \notin Boundaries
    /\ NoChallenge \notin Challenges
    /\ EarliestObservation \in Int
    /\ \A o \in Observations : o.day \in Int
    /\ MaxRedeploys \in Nat /\ MaxAttestations \in Nat

Roles == {"sender", "guardian"}
Statuses == {"rejected", "busy"}
Nothing == [kind |-> "nothing"]

VARIABLES
    boundary,     \* [Boundaries -> where the process is and what it holds]
    socket,       \* the process whose socket is at the path, or NoSocket
    receipt,      \* the receipt at its path
    taken,        \* history: receipts the operator took away
    client        \* a client, its connection and what it was answered

VARIABLES
    challenge,    \* [Roles -> the challenge file the host's operator names]
    made,         \* history: challenges made so far
    artifact,     \* [Roles -> Artifacts]: the executable of each host
    since,        \* history: [Challenges -> <<role, executable>> there since it was made]
    redeploys,    \* how often an executable was replaced
    attester,     \* [Roles -> the attest process of the host]
    attested,     \* attestation files
    record        \* the record at its path

boundaryVars == <<boundary, socket, receipt, taken, client>>
recordVars == <<challenge, made, artifact, since, redeploys, attester, attested, record>>
twoHostVars == <<boundaryVars, recordVars>>

BoundaryInit ==
    /\ boundary \in [Boundaries -> [pc : {"new"}, status : Statuses]]
    /\ socket = NoSocket
    /\ receipt = Nothing
    /\ taken = {}
    /\ client = [pc |-> "idle"]

RecordInit ==
    /\ challenge = [r \in Roles |-> NoChallenge]
    /\ made = {}
    /\ artifact \in [Roles -> Artifacts]
    /\ since = [c \in Challenges |-> {}]
    /\ redeploys = 0
    /\ attester = [r \in Roles |-> [pc |-> "idle"]]
    /\ attested = {}
    /\ record = Nothing

---------------------------------------------------------------------------
(* The boundary: one connection, one payload, one receipt, one answer. *)

In(b, pc) == boundary[b].pc = pc
Moves(b, pc) ==
    boundary' = [boundary EXCEPT ![b] = [pc |-> pc, status |-> boundary[b].status]]
Holds(b, pc, p) ==
    boundary' = [boundary EXCEPT ![b] =
                   [pc |-> pc, status |-> boundary[b].status, payload |-> p]]

(* validate_target, for the socket and for the receipt.                    *)
ValidateTargets(b) ==
    /\ In(b, "new")
    /\ Moves(b, IF socket = NoSocket /\ receipt = Nothing THEN "valid" ELSE "done")
    /\ UNCHANGED <<socket, receipt, taken, client>>

(* bind refuses a path that exists by now.                                 *)
Bind(b) ==
    /\ In(b, "valid")
    /\ IF socket = NoSocket
       THEN socket' = b /\ Moves(b, "listening")
       ELSE socket' = socket /\ Moves(b, "done")
    /\ UNCHANGED <<receipt, taken, client>>

Accept(b) ==
    /\ In(b, "listening")
    /\ client.pc = "connecting" /\ client.run = b
    /\ Moves(b, "reading")
    /\ client' = [client EXCEPT !.pc = "sending"]
    /\ UNCHANGED <<socket, receipt, taken>>

(* read_frame: prefix, payload and end of file.                            *)
ReadFrame(b) ==
    /\ In(b, "sentTo")
    /\ Holds(b, "received", boundary[b].payload)
    /\ UNCHANGED <<socket, receipt, taken, client>>

ReceiptOf(b) ==
    [kind |-> "receipt", run |-> b, status |-> boundary[b].status,
     payload |-> boundary[b].payload]

\* Mutant: a receipt that cannot be linked is not an error.
WriteReceiptIgnored(b) ==
    /\ In(b, "received")
    /\ boundary[b].payload = Expected
    /\ receipt' = IF receipt = Nothing THEN ReceiptOf(b) ELSE receipt
    /\ Holds(b, "receipted", boundary[b].payload)
    /\ UNCHANGED <<socket, taken, client>>

(* The digest is compared, then write_receipt: the link refuses a path that *)
(* exists, and the process ends without an answer.                          *)
WriteReceipt(b) ==
    /\ In(b, "received")
    /\ IF boundary[b].payload = Expected /\ receipt = Nothing
       THEN receipt' = ReceiptOf(b) /\ Holds(b, "receipted", boundary[b].payload)
       ELSE receipt' = receipt /\ Moves(b, "closing")
    /\ UNCHANGED <<socket, taken, client>>

(* canonical_ack: a busy answer carries no digest.                         *)
CanonicalAck(status, p) ==
    [status |-> status, digest |-> IF status = "busy" THEN {} ELSE {p}]

(* The answer is sent; the client may have gone.                           *)
Acknowledge(b) ==
    /\ In(b, "receipted")
    /\ client' = IF client.pc = "sent" /\ client.run = b
                 THEN [pc |-> "answered", payload |-> client.payload, run |-> b,
                       answer |-> CanonicalAck(boundary[b].status, boundary[b].payload)]
                 ELSE client
    /\ Moves(b, "closing")
    /\ UNCHANGED <<socket, receipt, taken>>

(* A timeout, a framing error, a broken connection, a receipt that cannot
   be written.                                                             *)
BoundaryFails(b) ==
    /\ boundary[b].pc \in {"listening", "reading", "sentTo", "received", "receipted"}
    /\ Moves(b, "closing")
    /\ UNCHANGED <<socket, receipt, taken, client>>

(* cleanup_socket: an lstat that must show the socket this process bound,   *)
(* and then an unlink of whatever is at the path.                           *)
LookAtSocket(b) ==
    /\ In(b, "closing")
    /\ Moves(b, IF socket = b THEN "unlinking" ELSE "done")
    /\ UNCHANGED <<socket, receipt, taken, client>>

UnlinkSocket(b) ==
    /\ In(b, "unlinking")
    /\ socket' = NoSocket
    /\ Moves(b, "done")
    /\ UNCHANGED <<receipt, taken, client>>

(* The process is killed: its socket stays at the path.                    *)
BoundaryKilled(b) ==
    /\ ~In(b, "done")
    /\ Moves(b, "done")
    /\ UNCHANGED <<socket, receipt, taken, client>>

(* The client, the network and the operator.                               *)
Connect(p) ==
    /\ client.pc \in {"idle", "broken"}
    /\ socket # NoSocket
    /\ client' = [pc |-> "connecting", payload |-> p, run |-> socket]
    /\ UNCHANGED <<boundary, socket, receipt, taken>>

(* What was sent stays readable when the client goes away.                 *)
Send ==
    /\ client.pc = "sending"
    /\ client' = [client EXCEPT !.pc = "sent"]
    /\ IF In(client.run, "reading")
       THEN Holds(client.run, "sentTo", client.payload)
       ELSE boundary' = boundary
    /\ UNCHANGED <<socket, receipt, taken>>

ConnectionBreaks ==
    /\ client.pc \in {"connecting", "sending", "sent"}
    /\ client' = [client EXCEPT !.pc = "broken"]
    /\ UNCHANGED <<boundary, socket, receipt, taken>>

RemoveSocket ==
    /\ socket # NoSocket
    /\ socket' = NoSocket
    /\ UNCHANGED <<boundary, receipt, taken, client>>

TakeReceipt ==
    /\ receipt # Nothing
    /\ taken' = taken \union {receipt}
    /\ receipt' = Nothing
    /\ UNCHANGED <<boundary, socket, client>>

BoundaryStep(b) ==
    \/ ValidateTargets(b) \/ Bind(b) \/ Accept(b) \/ ReadFrame(b) \/ WriteReceipt(b)
    \/ Acknowledge(b) \/ BoundaryFails(b) \/ LookAtSocket(b) \/ UnlinkSocket(b)
    \/ BoundaryKilled(b)

BoundaryNext ==
    \/ \E b \in Boundaries : BoundaryStep(b)
    \/ Send \/ ConnectionBreaks \/ RemoveSocket \/ TakeReceipt
    \/ \E p \in Payloads : Connect(p)

---------------------------------------------------------------------------
(* Challenges, attestations and the record. *)

(* create-challenge: 32 random bytes, never made before.                   *)
CreateChallenge(r, c) ==
    /\ c \notin made
    /\ made' = made \union {c}
    /\ challenge' = [challenge EXCEPT ![r] = c]
    /\ since' = [since EXCEPT ![c] = {<<q, artifact[q]>> : q \in Roles}]
    /\ UNCHANGED <<artifact, redeploys, attester, attested, record>>

(* The operator copies the challenge to the other host.                    *)
CopyChallenge(r, q) ==
    /\ challenge[q] # NoChallenge
    /\ challenge' = [challenge EXCEPT ![r] = challenge[q]]
    /\ UNCHANGED <<made, artifact, since, redeploys, attester, attested, record>>

Redeploy(r, a) ==
    /\ redeploys < MaxRedeploys
    /\ redeploys' = redeploys + 1
    /\ artifact' = [artifact EXCEPT ![r] = a]
    /\ since' = [c \in Challenges |-> IF c \in made THEN since[c] \union {<<r, a>>} ELSE since[c]]
    /\ UNCHANGED <<challenge, made, attester, attested, record>>

(* attest: the time is validated and the challenge read, then the executable
   hashed, then the payload, and the attestation printed.                  *)
ReadChallenge(r, o) ==
    /\ attester[r].pc = "idle"
    /\ Cardinality(attested) + Cardinality({q \in Roles : attester[q].pc # "idle"})
         < MaxAttestations
    /\ o.day >= EarliestObservation
    /\ challenge[r] # NoChallenge
    /\ attester' = [attester EXCEPT ![r] =
                      [pc |-> "challenge", seen |-> o, challenge |-> challenge[r]]]
    /\ UNCHANGED <<challenge, made, artifact, since, redeploys, attested, record>>

HashArtifact(r) ==
    /\ attester[r].pc = "challenge"
    /\ attester' = [attester EXCEPT ![r] =
                      [pc |-> "artifact", seen |-> attester[r].seen,
                       challenge |-> attester[r].challenge, artifact |-> artifact[r]]]
    /\ UNCHANGED <<challenge, made, artifact, since, redeploys, attested, record>>

(* The framed digest over everything an attestation says: each field is    *)
(* preceded by its length, so no two tuples of fields have one frame.      *)
ExecutionAttestation(r, c, commit, a, p, day) == <<r, c, commit, a, p, day>>

\* Mutant: the challenge's own digest is taken from the file read a second time.
AttestRereads(r) ==
    /\ attester[r].pc = "artifact"
    /\ attested' = attested \union
         {[role |-> r, challenge |-> challenge[r], artifact |-> attester[r].artifact,
           commit |-> attester[r].seen.commit, payload |-> attester[r].seen.payload,
           day |-> attester[r].seen.day,
           digest |-> ExecutionAttestation(r, attester[r].challenge, attester[r].seen.commit,
                        attester[r].artifact, attester[r].seen.payload, attester[r].seen.day)]}
    /\ attester' = [attester EXCEPT ![r] = [pc |-> "idle"]]
    /\ UNCHANGED <<challenge, made, artifact, since, redeploys, record>>

Attest(r) ==
    /\ attester[r].pc = "artifact"
    /\ attested' = attested \union
         {[role |-> r, challenge |-> attester[r].challenge, artifact |-> attester[r].artifact,
           commit |-> attester[r].seen.commit, payload |-> attester[r].seen.payload,
           day |-> attester[r].seen.day,
           digest |-> ExecutionAttestation(r, attester[r].challenge, attester[r].seen.commit,
                        attester[r].artifact, attester[r].seen.payload, attester[r].seen.day)]}
    /\ attester' = [attester EXCEPT ![r] = [pc |-> "idle"]]
    /\ UNCHANGED <<challenge, made, artifact, since, redeploys, record>>

(* A file is refused, or the process is killed.                            *)
AttestFails(r) ==
    /\ attester[r].pc # "idle"
    /\ attester' = [attester EXCEPT ![r] = [pc |-> "idle"]]
    /\ UNCHANGED <<challenge, made, artifact, since, redeploys, attested, record>>

(* read_attestation takes a file of the role it expects.                   *)
ReadAttestation(a, r) == a.role = r /\ a.day >= EarliestObservation

(* build_record_document: what both hosts must say alike, and what must    *)
(* differ.                                                                 *)
Matching(s, g) ==
    /\ s.commit = g.commit
    /\ s.challenge = g.challenge
    /\ s.payload = g.payload
    /\ s.day = g.day
    /\ s.artifact # g.artifact
    /\ s.digest # g.digest

BuildRecord(s, g) ==
    /\ record = Nothing
    /\ ReadAttestation(s, "sender")
    /\ ReadAttestation(g, "guardian")
    /\ Matching(s, g)
    /\ record' = [kind |-> "record", commit |-> s.commit, challenge |-> s.challenge,
                  payload |-> s.payload, day |-> s.day,
                  client |-> s.artifact, guardian |-> g.artifact,
                  sender_sha256 |-> s.digest, guardian_sha256 |-> g.digest]
    /\ UNCHANGED <<challenge, made, artifact, since, redeploys, attester, attested>>

HostStep(r) ==
    \/ HashArtifact(r) \/ Attest(r) \/ AttestFails(r)
    \/ \E c \in Challenges : CreateChallenge(r, c)
    \/ \E q \in Roles : CopyChallenge(r, q)
    \/ \E a \in Artifacts : Redeploy(r, a)
    \/ \E o \in Observations : ReadChallenge(r, o)

RecordNext ==
    \/ \E r \in Roles : HostStep(r)
    \/ \E s, g \in attested : BuildRecord(s, g)

---------------------------------------------------------------------------

TwoHostInit == BoundaryInit /\ RecordInit

TwoHostNext ==
    \/ BoundaryNext /\ UNCHANGED recordVars
    \/ RecordNext /\ UNCHANGED boundaryVars

TwoHostSpec == TwoHostInit /\ [][TwoHostNext]_twoHostVars

---------------------------------------------------------------------------
(* Properties. *)

(* A client that got an answer sent the expected payload, and the very
   process that answered had published a receipt with that status, which is
   at its path until the operator takes it: whoever else was started with the
   same paths, was killed, or lost the path in between.  The answer never
   claims more than "rejected" or "busy".                                  *)
AnsweredHasReceipt ==
    client.pc = "answered" =>
        /\ client.answer.status \in {"rejected", "busy"}
        /\ client.payload = Expected /\ client.answer.digest \subseteq {Expected}
        /\ [kind |-> "receipt", run |-> client.run, status |-> client.answer.status,
            payload |-> Expected] \in taken \union {receipt}

(* The record is of one challenge: both digests it publishes were framed over
   its challenge, commit, payload and time, by hosts with different
   executables, and each executable was on its host at some moment after the
   challenge was made, although challenges and executables are replaced while
   a host attests.                                                         *)
RecordIsFresh ==
    record # Nothing =>
        /\ record.sender_sha256 =
             <<"sender", record.challenge, record.commit, record.client, record.payload, record.day>>
        /\ record.guardian_sha256 =
             <<"guardian", record.challenge, record.commit, record.guardian, record.payload,
               record.day>>
        /\ record.client # record.guardian
        /\ {<<"sender", record.client>>, <<"guardian", record.guardian>>}
             \subseteq since[record.challenge]

(* What either tool leaves behind is evidence of what its comment says.    *)
EvidenceIsSound == AnsweredHasReceipt /\ RecordIsFresh

=============================================================================
