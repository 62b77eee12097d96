-------------------------- MODULE ThreatHintServiceProofs --------------------------
(***************************************************************************)
(* The two users of a Guardian's hint ledger, for any number of            *)
(* connections, adapters, hints and networks.  ThreatHintIngress: an       *)
(* answer is durable and given once, jobs carry the network of their       *)
(* proof, permits balance, and the ledger keeps its promises although its  *)
(* callers bring stale times, are cancelled, die and are started again.    *)
(* ThreatHintAdapter: what pending_jobs returns, and that only an analysed *)
(* job counts as delivered.                                                *)
(***************************************************************************)
EXTENDS ThreatHintIngress, ThreatHintAdapter, ThreatHintLedgerProofs,
        FiniteSetTheorems, SequenceTheorems

-----------------------------------------------------------------------------
(* The ingress server. *)

Working == {"reading", "verifying"} \cup InLedger

\* One connection on its own: a permit belongs to unfinished work, a handler that
\* reads and a worker that verifies have one, and what a worker takes to the ledger
\* was parsed and proved for the network it carries.
ConnOK(r) ==
    /\ r \in Connections
    /\ r.permit => r.pc \in Working
    /\ r.pc \in {"reading", "verifying"} => r.permit
    /\ r.pc \in {"verifying", "admitting"} => Parses(r.hint)
    /\ r.pc = "admitting" => Verifies(r.hint, r.net)

\* The strengthening: an acknowledgement is of an accepted hint, so a hint that is
\* accepted now has neither been acknowledged nor is about to be.
IngressInv ==
    /\ LedgerInv
    /\ IngressTypeOK
    /\ \A c \in Conns : ConnOK(conn[c])
    /\ PermitsBalanced
    /\ AckIsDurable
    /\ acked \subseteq accepted
    /\ AcceptedSaidOnce
    /\ JobNetworkProved

\* A slot without a connection.
LEMMA ClosedOK == ConnOK(Closed) /\ Closed.pc = "closed" /\ ~ Closed.permit
<1>1. (CHOOSE h \in Hints : TRUE) \in Hints
  BY IngressAssumption
<1>2. (CHOOSE n \in Networks : TRUE) \in Networks
  BY HintAssumption
<1> QED
  BY <1>1, <1>2 DEF ConnOK, Closed, Connections, Statuses, InLedger, Working,
     Parses, Verifies

\* The connections that hold a permit.
Held(f) == {d \in Conns : f[d].permit}

\* How a change of one connection changes the number of permits that are held.
LEMMA PermitCount ==
  ASSUME NEW f \in [Conns -> Connections], NEW c \in Conns, NEW r \in Connections
  PROVE  /\ Cardinality(Held(f)) \in Nat
         /\ Cardinality(Held([f EXCEPT ![c] = r])) =
              IF r.permit THEN IF f[c].permit THEN Cardinality(Held(f))
                                              ELSE Cardinality(Held(f)) + 1
                          ELSE IF f[c].permit THEN Cardinality(Held(f)) - 1
                                              ELSE Cardinality(Held(f))
<1> DEFINE g == [f EXCEPT ![c] = r]
<1>1. IsFiniteSet(Held(f)) /\ Cardinality(Held(f)) \in Nat
  <2>1. Held(f) \subseteq Conns
    BY DEF Held
  <2> QED
    BY <2>1, IngressAssumption, FS_Subset, FS_CardinalityType
<1>2. c \in Held(f) <=> f[c].permit
  BY DEF Held
<1>3. g[c] = r /\ \A d \in Conns \ {c} : g[d] = f[d]
  OBVIOUS
<1>4. r.permit => Held(g) = Held(f) \cup {c}
  BY <1>3 DEF Held
<1>5. ~ r.permit => Held(g) = Held(f) \ {c}
  BY <1>3 DEF Held
<1>6. Cardinality(Held(f) \cup {c}) = IF c \in Held(f) THEN Cardinality(Held(f))
                                                       ELSE Cardinality(Held(f)) + 1
  BY <1>1, FS_AddElement
<1>7. Cardinality(Held(f) \ {c}) = IF c \in Held(f) THEN Cardinality(Held(f)) - 1
                                                    ELSE Cardinality(Held(f))
  BY <1>1, FS_RemoveElement
<1> HIDE DEF g
<1>8. Cardinality(Held(g)) =
              IF r.permit THEN IF f[c].permit THEN Cardinality(Held(f))
                                              ELSE Cardinality(Held(f)) + 1
                          ELSE IF f[c].permit THEN Cardinality(Held(f)) - 1
                                              ELSE Cardinality(Held(f))
  BY <1>1, <1>2, <1>4, <1>5, <1>6, <1>7
<1> QED
  BY <1>1, <1>8 DEF g

\* A connection takes, keeps or returns its permit and _active follows.
LEMMA BalanceStep ==
  ASSUME IngressInv, NEW c \in Conns, NEW r \in Connections,
         conn' = [conn EXCEPT ![c] = r],
         active' = IF r.permit THEN IF conn[c].permit THEN active ELSE active + 1
                               ELSE IF conn[c].permit THEN active - 1 ELSE active,
         r.permit /\ ~ conn[c].permit => active < MaxConnections
  PROVE  PermitsBalanced' /\ active' \in Nat
<1>0. conn \in [Conns -> Connections]
  BY DEF IngressInv, IngressTypeOK
<1> DEFINE held == Cardinality(Held(conn))
           heldThen == Cardinality(Held(conn'))
<1>1. /\ held \in Nat
      /\ heldThen = IF r.permit THEN IF conn[c].permit THEN held ELSE held + 1
                                ELSE IF conn[c].permit THEN held - 1 ELSE held
  <2>1. Held(conn') = Held([conn EXCEPT ![c] = r])
    OBVIOUS
  <2> QED
    BY <1>0, <2>1, PermitCount
<1>2. heldThen \in Nat
  <2>1. Held(conn') \subseteq Conns
    BY DEF Held
  <2> QED
    BY <2>1, IngressAssumption, FS_Subset, FS_CardinalityType
<1>3. active = held /\ active <= MaxConnections /\ MaxConnections \in Nat
  BY IngressAssumption DEF IngressInv, PermitsBalanced, Held
<1> HIDE DEF held, heldThen
<1>4. active' = heldThen /\ active' <= MaxConnections
  BY <1>1, <1>2, <1>3
<1> QED
  BY <1>2, <1>4 DEF heldThen, PermitsBalanced, Held

\* A step of one connection that leaves the ledger alone and neither answers
\* "accepted" nor "duplicate" for a hint that was not admitted.
LEMMA OneConnection ==
  ASSUME IngressInv, NEW c \in Conns, NEW r, ConnOK(r),
         conn' = [conn EXCEPT ![c] = r],
         UNCHANGED <<ledgerVars, clock, up, network>>,
         acked' \in SUBSET accepted,
         \A d \in Conns \ {c} : conn[d].pc = "replying" /\ conn[d].ack = "accepted"
             => conn[d].hint \notin acked',
         active' = IF r.permit THEN IF conn[c].permit THEN active ELSE active + 1
                               ELSE IF conn[c].permit THEN active - 1 ELSE active,
         r.permit /\ ~ conn[c].permit => active < MaxConnections,
         r.pc = "replying" => /\ r.ack # "accepted"
                              /\ r.ack = "duplicate" => r.hint \in accepted
  PROVE  IngressInv'
<1> USE DEF IngressInv
<1>1. /\ conn \in [Conns -> Connections] /\ r \in Connections
      /\ conn' \in [Conns -> Connections]
      /\ conn'[c] = r /\ \A d \in Conns \ {c} : conn'[d] = conn[d]
  BY DEF IngressTypeOK, ConnOK
<1>2. LedgerInv'
  BY DEF ledgerVars, LedgerInv, LedgerTypeOK, ForgottenIsExpired, RowsConsistent,
     NoJobLost, DeliveredWasAccepted, ExpiresAt, SharesKey
<1>3. PermitsBalanced' /\ active' \in Nat
  BY <1>1, BalanceStep
<1>4. IngressTypeOK'
  BY <1>1, <1>2, <1>3 DEF IngressTypeOK, LedgerInv, ledgerVars, LedgerTypeOK
<1>5. (\A d \in Conns : ConnOK(conn[d]))'
  BY <1>1 DEF ConnOK, Working, InLedger, Parses, Verifies, Connections
<1>6. AckIsDurable'
  BY <1>1 DEF AckIsDurable, ledgerVars
<1>7. acked' \subseteq accepted'
  BY DEF ledgerVars
<1>8. AcceptedSaidOnce'
  BY <1>1 DEF AcceptedSaidOnce
<1>9. JobNetworkProved'
  BY DEF JobNetworkProved, ledgerVars, Parses, Verifies
<1> QED
  BY <1>2, <1>3, <1>4, <1>5, <1>6, <1>7, <1>8, <1>9

\* The same for a step that acknowledges nothing.
LEMMA QuietConnection ==
  ASSUME IngressInv, NEW c \in Conns, NEW r, ConnOK(r),
         conn' = [conn EXCEPT ![c] = r],
         UNCHANGED <<ledgerVars, clock, up, network, acked>>,
         active' = IF r.permit THEN IF conn[c].permit THEN active ELSE active + 1
                               ELSE IF conn[c].permit THEN active - 1 ELSE active,
         r.permit /\ ~ conn[c].permit => active < MaxConnections,
         r.pc = "replying" => /\ r.ack # "accepted"
                              /\ r.ack = "duplicate" => r.hint \in accepted
  PROVE  IngressInv'
<1>1. acked' \in SUBSET accepted
  BY DEF IngressInv
<1>2. \A d \in Conns \ {c} : conn[d].pc = "replying" /\ conn[d].ack = "accepted"
             => conn[d].hint \notin acked'
  BY DEF IngressInv, AcceptedSaidOnce
<1>3. UNCHANGED <<ledgerVars, clock, up, network>>
  OBVIOUS
<1> QED
  BY <1>1, <1>2, <1>3, OneConnection

\* A worker that ends without having committed: its permit goes back, and its
\* handler, if any, answers.
LEMMA WorkerReturnsInv ==
  ASSUME IngressInv, NEW c \in Conns, NEW status \in Statuses \ {"accepted"},
         conn[c].pc \in Working,
         status = "duplicate" => conn[c].hint \in accepted,
         WorkerReturns(c, status),
         UNCHANGED <<ledgerVars, clock, up, network, acked>>
  PROVE  IngressInv'
<1> DEFINE r == IF conn[c].attended
                THEN [conn[c] EXCEPT !.pc = "replying", !.permit = FALSE, !.ack = status]
                ELSE Closed
<1>1. conn \in [Conns -> Connections] /\ conn[c] \in Connections /\ ConnOK(conn[c])
  BY DEF IngressInv, IngressTypeOK
<1>2. conn' = [conn EXCEPT ![c] = r]
  BY <1>1 DEF WorkerReturns
<1>3. ConnOK(r) /\ ~ r.permit
  BY <1>1, ClosedOK DEF ConnOK, Connections, Working, InLedger, Statuses
<1>4. r.pc = "replying" => r.ack = status /\ r.hint = conn[c].hint
  BY <1>1, ClosedOK DEF Connections
<1>5. active' = IF r.permit THEN IF conn[c].permit THEN active ELSE active + 1
                            ELSE IF conn[c].permit THEN active - 1 ELSE active
  BY <1>3 DEF WorkerReturns
<1>6. r.pc = "replying" => /\ r.ack # "accepted"
                           /\ r.ack = "duplicate" => r.hint \in accepted
  BY <1>4
<1>7. r.permit /\ ~ conn[c].permit => active < MaxConnections
  BY <1>3
<1> HIDE DEF r
<1> QED
  BY <1>2, <1>3, <1>5, <1>6, <1>7, QuietConnection

\* A handler takes a permit.
LEMMA ConnectInv ==
  ASSUME IngressInv, NEW c \in Conns, NEW h \in Hints, Connect(c, h)
  PROVE  IngressInv'
<1> DEFINE r == [conn[c] EXCEPT !.pc = "reading", !.hint = h, !.net = network,
                                !.permit = TRUE, !.attended = TRUE]
<1>1. conn \in [Conns -> Connections] /\ conn[c] \in Connections /\ ConnOK(conn[c])
  BY DEF IngressInv, IngressTypeOK
<1>2. conn' = [conn EXCEPT ![c] = r]
  BY <1>1 DEF Connect
<1>3. ConnOK(r) /\ r.permit /\ r.pc = "reading"
  BY <1>1 DEF ConnOK, Connections, Working, InLedger, IngressInv, IngressTypeOK
<1>4. ~ conn[c].permit
  BY <1>1 DEF Connect, ConnOK, Working, InLedger
<1>5. active' = active + 1 /\ active < MaxConnections
  BY DEF Connect
<1>6. UNCHANGED <<ledgerVars, clock, up, network, acked>>
  BY DEF Connect
<1> HIDE DEF r
<1> QED
  BY <1>2, <1>3, <1>4, <1>5, <1>6, QuietConnection

\* A connection is dropped: while its frame is read, the permit goes back; while the
\* answer is written, there is none any more.
LEMMA DroppedInv ==
  ASSUME IngressInv, NEW c \in Conns, ReadFails(c) \/ ReplyLost(c)
  PROVE  IngressInv'
<1>1. conn' = [conn EXCEPT ![c] = Closed]
  BY DEF ReadFails, ReplyLost
<1>2. UNCHANGED <<ledgerVars, clock, up, network, acked>>
  BY DEF ReadFails, ReplyLost
<1>3. ConnOK(conn[c]) /\ ConnOK(Closed) /\ Closed.pc # "replying" /\ ~ Closed.permit
  BY ClosedOK DEF IngressInv
<1>4. active' = IF conn[c].permit THEN active - 1 ELSE active
  BY <1>3 DEF ReadFails, ReplyLost, ConnOK, Working, InLedger
<1> QED
  BY <1>1, <1>2, <1>3, <1>4, QuietConnection

\* A change of a connection's stage or attention that keeps its permit.
LEMMA ProceedsInv ==
  ASSUME IngressInv, NEW c \in Conns,
         \/ HandlerTimeout(c) \/ ProofVerified(c) \/ AdmitConflict(c)
         \/ Receive(c) /\ UNCHANGED active /\ conn'[c].pc = "verifying"
  PROVE  IngressInv'
<1> DEFINE r == conn'[c]
<1>1. conn \in [Conns -> Connections] /\ conn[c] \in Connections /\ ConnOK(conn[c])
      /\ clock \in Nat
  BY DEF IngressInv, IngressTypeOK
<1>2. UNCHANGED <<ledgerVars, clock, up, network, acked, active>>
  BY DEF HandlerTimeout, ProofVerified, AdmitConflict, Receive
<1>3. CASE HandlerTimeout(c)
  <2>1. conn' = [conn EXCEPT ![c] = [conn[c] EXCEPT !.attended = FALSE]]
    BY <1>1, <1>3 DEF HandlerTimeout
  <2>2. /\ conn' = [conn EXCEPT ![c] = r] /\ ConnOK(r) /\ r.pc = conn[c].pc
        /\ r.permit = conn[c].permit
    BY <1>1, <2>1 DEF ConnOK, Connections
  <2>3. r.pc # "replying"
    BY <1>3, <2>2 DEF HandlerTimeout, InLedger
  <2> HIDE DEF r
  <2> QED
    BY <1>2, <2>2, <2>3, QuietConnection
<1>4. CASE ProofVerified(c)
  <2>1. conn' = [conn EXCEPT ![c] = [conn[c] EXCEPT !.pc = "admitting"]]
    BY <1>1, <1>4 DEF ProofVerified
  <2>2. /\ conn' = [conn EXCEPT ![c] = r] /\ ConnOK(r) /\ r.pc = "admitting"
        /\ r.permit = conn[c].permit
    BY <1>1, <1>4, <2>1 DEF ConnOK, Connections, ProofVerified, InLedger, Working
  <2> HIDE DEF r
  <2> QED
    BY <1>2, <2>2, QuietConnection
<1>5. CASE AdmitConflict(c)
  <2>1. conn' = [conn EXCEPT ![c] = [conn[c] EXCEPT !.pc = "lookup"]]
    BY <1>1, <1>5 DEF AdmitConflict
  <2>2. /\ conn' = [conn EXCEPT ![c] = r] /\ ConnOK(r) /\ r.pc = "lookup"
        /\ r.permit = conn[c].permit
    BY <1>1, <1>5, <2>1 DEF ConnOK, Connections, AdmitConflict, InLedger, Working
  <2> HIDE DEF r
  <2> QED
    BY <1>2, <2>2, QuietConnection
<1>6. CASE Receive(c) /\ UNCHANGED active /\ conn'[c].pc = "verifying"
  <2>1. /\ conn[c].pc = "reading" /\ conn[c].permit
    BY <1>1, <1>6 DEF Receive, ConnOK
  <2>2. /\ Parses(conn[c].hint)
        /\ conn' = [conn EXCEPT ![c] = [conn[c] EXCEPT !.pc = "verifying", !.now = clock]]
    <3>1. ~ WorkerReturns(c, "rejected")
      BY <1>1, <1>6, <2>1, ClosedOK DEF WorkerReturns, Connections
    <3> QED
      BY <1>1, <1>6, <3>1 DEF Receive
  <2>3. /\ conn' = [conn EXCEPT ![c] = r] /\ ConnOK(r) /\ r.pc = "verifying"
        /\ r.permit = conn[c].permit
    BY <1>1, <2>1, <2>2 DEF ConnOK, Connections, InLedger, Working
  <2> HIDE DEF r
  <2> QED
    BY <1>2, <2>3, QuietConnection
<1> QED
  BY <1>3, <1>4, <1>5, <1>6

\* A worker that ends with a refusal, a duplicate or busy.
LEMMA RefusedInv ==
  ASSUME IngressInv, NEW c \in Conns,
         \/ Receive(c) \/ ProofRefused(c) \/ VerifierUnavailable(c)
         \/ AdmitClockBehind(c) \/ Lookup(c) \/ LedgerBusy(c)
  PROVE  IngressInv'
<1>1. UNCHANGED <<ledgerVars, clock, up, network, acked>>
  BY DEF Receive, ProofRefused, VerifierUnavailable, AdmitClockBehind, Lookup, LedgerBusy
<1>2. admissions \subseteq accepted
  BY DEF IngressInv, LedgerInv, RowsConsistent
<1>3. CASE Receive(c)
  <2>1. conn \in [Conns -> Connections] /\ conn[c] \in Connections
    BY DEF IngressInv, IngressTypeOK
  <2>2. CASE UNCHANGED active /\ conn'[c].pc = "verifying"
    BY <1>3, <2>2, ProceedsInv
  <2>3. CASE ~ (UNCHANGED active /\ conn'[c].pc = "verifying")
    <3>1. WorkerReturns(c, "rejected")
      BY <1>3, <2>1, <2>3 DEF Receive, Connections
    <3> QED
      BY <1>1, <1>3, <3>1, WorkerReturnsInv DEF Receive, Working, Statuses
  <2> QED
    BY <2>2, <2>3
<1>4. CASE ProofRefused(c)
  BY <1>1, <1>4, WorkerReturnsInv DEF ProofRefused, Working, Statuses
<1>5. CASE VerifierUnavailable(c)
  BY <1>1, <1>5, WorkerReturnsInv DEF VerifierUnavailable, Working, Statuses
<1>6. CASE AdmitClockBehind(c)
  BY <1>1, <1>6, WorkerReturnsInv DEF AdmitClockBehind, Working, InLedger, Statuses
<1>7. CASE Lookup(c)
  <2> DEFINE status == IF conn[c].hint \in admissions THEN "duplicate" ELSE "rejected"
  <2>1. /\ status \in Statuses \ {"accepted"}
        /\ status = "duplicate" => conn[c].hint \in accepted
        /\ conn[c].pc \in Working
    BY <1>2, <1>7 DEF Lookup, Working, InLedger, Statuses
  <2>2. WorkerReturns(c, status)
    BY <1>7 DEF Lookup
  <2> HIDE DEF status
  <2> QED
    BY <1>1, <2>1, <2>2, WorkerReturnsInv
<1>8. CASE LedgerBusy(c)
  BY <1>1, <1>8, WorkerReturnsInv DEF LedgerBusy, Working, Statuses
<1> QED
  BY <1>3, <1>4, <1>5, <1>6, <1>7, <1>8

\* The answer goes out: an acknowledged hint was accepted and no other answer says so.
LEMMA ReplyInv ==
  ASSUME IngressInv, NEW c \in Conns, Reply(c)
  PROVE  IngressInv'
<1>1. conn' = [conn EXCEPT ![c] = Closed] /\ UNCHANGED <<ledgerVars, clock, up, network>>
  BY DEF Reply
<1>2. ConnOK(conn[c]) /\ ConnOK(Closed) /\ Closed.pc # "replying" /\ ~ Closed.permit
  BY ClosedOK DEF IngressInv
<1>3. ~ conn[c].permit /\ active' = active
  BY <1>2 DEF Reply, ConnOK, Working, InLedger
<1>4. acked' \in SUBSET accepted
  BY DEF Reply, IngressInv, AckIsDurable
<1>5. \A d \in Conns \ {c} : conn[d].pc = "replying" /\ conn[d].ack = "accepted"
             => conn[d].hint \notin acked'
  BY DEF Reply, IngressInv, AcceptedSaidOnce
<1> QED
  BY <1>1, <1>2, <1>3, <1>4, <1>5, OneConnection

\* admit commits: the hint is new, so nobody was or is being told of it.
LEMMA AdmitInvIngress ==
  ASSUME IngressInv, NEW c \in Conns, Admit(c)
  PROVE  IngressInv'
<1> DEFINE h == conn[c].hint
           now == conn[c].now
           net == conn[c].net
           r == IF conn[c].attended
                THEN [conn[c] EXCEPT !.pc = "replying", !.permit = FALSE, !.ack = "accepted"]
                ELSE Closed
<1>1. /\ conn \in [Conns -> Connections] /\ conn[c] \in Connections /\ ConnOK(conn[c])
      /\ h \in Hints /\ now \in Nat /\ net \in Networks
      /\ Parses(h) /\ Verifies(h, net)
  BY DEF IngressInv, IngressTypeOK, Admit, ConnOK, Connections
<1>2. AdmitCommit(h, now, net) /\ UNCHANGED <<clock, up, network, acked>>
  BY DEF Admit
<1>3. LedgerInv'
  BY <1>1, <1>2, AdmitInv DEF IngressInv
<1>4. h \notin accepted /\ accepted' = accepted \cup {h}
  BY <1>1, <1>2, CommitIsNew DEF IngressInv, AdmitCommit
<1>5. conn' = [conn EXCEPT ![c] = r]
  BY <1>1 DEF Admit, WorkerReturns
<1>6. ConnOK(r) /\ ~ r.permit
  BY <1>1, ClosedOK DEF ConnOK, Connections, Working, InLedger, Statuses
<1>7. r.pc = "replying" => r.hint = h
  BY <1>1, ClosedOK DEF Connections
<1>8. /\ conn' \in [Conns -> Connections]
      /\ conn'[c] = r /\ \A d \in Conns \ {c} : conn'[d] = conn[d]
  BY <1>1, <1>5, <1>6 DEF ConnOK
<1>9. PermitsBalanced' /\ active' \in Nat
  <2>1. r \in Connections
    BY <1>6 DEF ConnOK
  <2>2. active' = IF r.permit THEN IF conn[c].permit THEN active ELSE active + 1
                              ELSE IF conn[c].permit THEN active - 1 ELSE active
    BY <1>6 DEF Admit, WorkerReturns
  <2> HIDE DEF r
  <2> QED
    BY <1>5, <1>6, <2>1, <2>2, BalanceStep
<1> HIDE DEF h, now, net, r
<1>10. IngressTypeOK'
  BY <1>2, <1>3, <1>8, <1>9 DEF IngressInv, IngressTypeOK, LedgerInv
<1>11. (\A d \in Conns : ConnOK(conn[d]))'
  BY <1>6, <1>8 DEF IngressInv, ConnOK, Working, InLedger, Parses, Verifies, Connections
<1>12. AckIsDurable'
  BY <1>4, <1>7, <1>8 DEF IngressInv, AckIsDurable
<1>13. (acked \subseteq accepted)'
  BY <1>2, <1>4 DEF IngressInv
<1>14. AcceptedSaidOnce'
  <2>1. h \notin acked'
    BY <1>2, <1>4 DEF IngressInv
  <2>2. \A d \in Conns \ {c} : conn[d].pc = "replying" /\ conn[d].ack = "accepted"
           => conn[d].hint # h
    BY <1>4 DEF IngressInv, AckIsDurable
  <2>3. acked' = acked
    BY <1>2
  <2> QED
    BY <1>7, <1>8, <2>1, <2>2, <2>3 DEF IngressInv, AcceptedSaidOnce
<1>15. JobNetworkProved'
  <2>1. network_of' = [network_of EXCEPT ![h] = net] /\ network_of \in [Hints -> Networks]
    BY <1>2 DEF AdmitCommit, IngressInv, LedgerInv, LedgerTypeOK
  <2>2. accepted \subseteq Hints
    BY DEF IngressInv, LedgerInv, LedgerTypeOK
  <2> QED
    BY <1>1, <1>4, <2>1, <2>2 DEF IngressInv, JobNetworkProved, Parses, Verifies, h, net
<1> QED
  BY <1>3, <1>9, <1>10, <1>11, <1>12, <1>13, <1>14, <1>15 DEF IngressInv

\* The service is stopped, dies or is started again, the host's clock moves, the
\* adapter marks a job.
LEMMA HostInv ==
  ASSUME IngressInv, HostNext \/ Deliver
  PROVE  IngressInv'
<1> USE DEF IngressInv
<1>1. CASE Stop \/ Crash
  <2>1. /\ UNCHANGED <<ledgerVars, clock, network, acked>>
        /\ active' = 0 /\ up' = FALSE
    BY <1>1 DEF Stop, Crash
  <2>2. LedgerInv'
    BY <2>1 DEF ledgerVars, LedgerInv, LedgerTypeOK, ForgottenIsExpired, RowsConsistent,
       NoJobLost, DeliveredWasAccepted, ExpiresAt, SharesKey
  <2>3. \A c \in Conns : /\ ConnOK(conn'[c])
                         /\ ~ conn'[c].permit
                         /\ conn'[c].pc # "replying"
    <3> SUFFICES ASSUME NEW c \in Conns
                 PROVE  ConnOK(conn'[c]) /\ ~ conn'[c].permit /\ conn'[c].pc # "replying"
      OBVIOUS
    <3>1. ConnOK(conn[c]) /\ conn[c] \in Connections
      BY DEF ConnOK
    <3>2. CASE conn'[c] = Closed
      BY <3>2, ClosedOK
    <3>3. CASE conn[c].pc \in InLedger
               /\ conn'[c] = [conn[c] EXCEPT !.permit = FALSE, !.attended = FALSE]
      BY <3>1, <3>3 DEF ConnOK, Connections, InLedger, Working
    <3>4. CASE Crash
      BY <3>2, <3>4 DEF Crash
    <3>5. CASE Stop
      <4>1. conn'[c] = IF conn[c].pc \in InLedger
                       THEN [conn[c] EXCEPT !.permit = FALSE, !.attended = FALSE]
                       ELSE Closed
        BY <3>5, Zenon DEF Stop
      <4> QED
        BY <3>2, <3>3, <4>1, Zenon
    <3> QED
      BY <1>1, <3>4, <3>5
  <2>4. PermitsBalanced'
    <3>1. Held(conn') = {}
      BY <2>3 DEF Held
    <3>2. Cardinality(Held(conn')) = 0
      BY <3>1, FS_EmptySet
    <3>3. 0 <= MaxConnections
      BY IngressAssumption
    <3> QED
      BY <2>1, <3>2, <3>3 DEF PermitsBalanced, Held
  <2>5. conn' \in [Conns -> Connections]
    <3>1. conn' = [c \in Conns |-> conn'[c]]
      BY <1>1 DEF Stop, Crash
    <3> QED
      BY <2>3, <3>1 DEF ConnOK
  <2>6. IngressTypeOK'
    BY <2>1, <2>2, <2>5 DEF IngressTypeOK, LedgerInv
  <2>7. AckIsDurable' /\ AcceptedSaidOnce'
    BY <2>3 DEF AckIsDurable, AcceptedSaidOnce
  <2>8. JobNetworkProved' /\ (acked \subseteq accepted)'
    BY <2>1 DEF JobNetworkProved, ledgerVars, Parses, Verifies
  <2>9. (\A c \in Conns : ConnOK(conn[c]))'
    BY <2>3 DEF ConnOK
  <2> QED
    BY <2>2, <2>4, <2>6, <2>7, <2>8, <2>9
<1>2. CASE Start \/ Tick \/ StepBack
  <2>1. /\ UNCHANGED <<ledgerVars, active, conn, acked>>
        /\ clock' \in Nat /\ up' \in BOOLEAN /\ network' \in Networks
    BY <1>2, HintAssumption DEF Start, Tick, StepBack, IngressTypeOK
  <2>2. LedgerInv'
    BY <2>1 DEF ledgerVars, LedgerInv, LedgerTypeOK, ForgottenIsExpired, RowsConsistent,
       NoJobLost, DeliveredWasAccepted, ExpiresAt, SharesKey
  <2>3. PermitsBalanced' /\ AckIsDurable' /\ AcceptedSaidOnce' /\ JobNetworkProved'
    BY <2>1 DEF PermitsBalanced, AckIsDurable, AcceptedSaidOnce, JobNetworkProved,
       ledgerVars, Parses, Verifies
  <2>4. IngressTypeOK'
    BY <2>1, <2>2 DEF IngressTypeOK, LedgerInv
  <2> QED
    BY <2>1, <2>2, <2>3, <2>4 DEF ConnOK, ledgerVars, Parses, Verifies
<1>3. CASE Deliver
  <2>1. PICK h \in Undelivered : MarkDelivered(h, clock)
    BY <1>3 DEF Deliver
  <2>2. h \in Hints /\ clock \in Nat
    BY DEF Undelivered, LedgerInv, LedgerTypeOK, IngressTypeOK
  <2>3. LedgerInv'
    BY <2>1, <2>2, MarkInv
  <2>4. UNCHANGED <<network_of, accepted, clock, up, network, active, conn, acked>>
    BY <1>3, <2>1 DEF Deliver, MarkDelivered, serverVars
  <2>5. PermitsBalanced' /\ AckIsDurable' /\ AcceptedSaidOnce' /\ JobNetworkProved'
    BY <2>4 DEF PermitsBalanced, AckIsDurable, AcceptedSaidOnce, JobNetworkProved,
       Parses, Verifies
  <2>6. IngressTypeOK'
    BY <2>3, <2>4 DEF IngressTypeOK, LedgerInv
  <2> QED
    BY <2>3, <2>4, <2>5, <2>6 DEF ConnOK, Parses, Verifies
<1> QED
  BY <1>1, <1>2, <1>3 DEF HostNext

\* The invariant holds in every state of the service, through restarts and crashes.
THEOREM IngressInvariant == IngressSpec => []IngressInv
<1>1. IngressInit => IngressInv
  <2> SUFFICES ASSUME IngressInit PROVE IngressInv
    OBVIOUS
  <2> USE DEF IngressInit
  <2>1. LedgerInv /\ accepted = {}
    BY LedgerInitInv DEF LedgerInit
  <2>2. \A c \in Conns : ConnOK(conn[c]) /\ ~ conn[c].permit /\ conn[c].pc = "closed"
    BY ClosedOK
  <2>3. Closed \in Connections
    BY ClosedOK DEF ConnOK
  <2>4. IngressTypeOK
    BY <2>1, <2>3 DEF IngressTypeOK, LedgerInv
  <2>5. PermitsBalanced
    <3>1. {c \in Conns : conn[c].permit} = {}
      BY <2>2
    <3> QED
      BY <3>1, FS_EmptySet, IngressAssumption DEF PermitsBalanced
  <2> QED
    BY <2>1, <2>2, <2>4, <2>5 DEF IngressInv, AckIsDurable, AcceptedSaidOnce,
       JobNetworkProved
<1>2. IngressInv /\ [IngressNext]_ingressVars => IngressInv'
  <2> SUFFICES ASSUME IngressInv, [IngressNext]_ingressVars PROVE IngressInv'
    OBVIOUS
  <2>1. CASE UNCHANGED ingressVars
    <3>1. UNCHANGED <<ledgerVars, clock, up, network, active, conn, acked>>
      BY <2>1 DEF ingressVars, serverVars
    <3>2. LedgerInv'
      BY <3>1 DEF IngressInv, ledgerVars, LedgerInv, LedgerTypeOK, ForgottenIsExpired,
         RowsConsistent, NoJobLost, DeliveredWasAccepted, ExpiresAt, SharesKey
    <3>3. PermitsBalanced' /\ AckIsDurable' /\ AcceptedSaidOnce' /\ JobNetworkProved'
      BY <3>1 DEF IngressInv, PermitsBalanced, AckIsDurable, AcceptedSaidOnce,
         JobNetworkProved, ledgerVars, Parses, Verifies
    <3>4. IngressTypeOK'
      BY <3>1, <3>2 DEF IngressInv, IngressTypeOK, LedgerInv
    <3> QED
      BY <3>1, <3>2, <3>3, <3>4 DEF IngressInv, ConnOK, ledgerVars, Parses, Verifies
  <2>2. CASE ConnectRefused
    BY <2>1, <2>2 DEF ConnectRefused
  <2>3. ASSUME NEW c \in Conns, HandlerNext(c) PROVE IngressInv'
    BY <2>3, ConnectInv, DroppedInv, ProceedsInv, ReplyInv DEF HandlerNext
  <2>4. ASSUME NEW c \in Conns, WorkerNext(c) PROVE IngressInv'
    BY <2>4, RefusedInv, ProceedsInv, AdmitInvIngress DEF WorkerNext
  <2> QED
    BY <2>1, <2>2, <2>3, <2>4, HostInv DEF IngressNext
<1> QED
  BY <1>1, <1>2, PTL DEF IngressSpec

\* "accepted" and "duplicate" are only said of a hint that is committed with its job.
THEOREM IngressAckIsDurable == IngressSpec => []AckIsDurable
BY IngressInvariant, PTL DEF IngressInv

\* Over all connections, retries, restarts and prunes one submitter is told "accepted".
THEOREM IngressAcceptedSaidOnce == IngressSpec => []AcceptedSaidOnce
BY IngressInvariant, PTL DEF IngressInv

\* A job carries the network its proof was verified for, also across a restart.
THEOREM IngressJobNetworkProved == IngressSpec => []JobNetworkProved
BY IngressInvariant, PTL DEF IngressInv

\* _active is the number of permits in use and never above max_connections.
THEOREM IngressPermitsBalanced == IngressSpec => []PermitsBalanced
BY IngressInvariant, PTL DEF IngressInv

\* The ingress with its workers loses no accepted job.
THEOREM IngressKeepsJobs == IngressSpec => []NoJobLost
BY IngressInvariant, PTL DEF IngressInv, LedgerInv

\* Behind the ingress, whose workers bring times read before the verifier ran, the
\* ledger still implements ReplayGuard.
THEOREM IngressReplaySafe == IngressSpec => ReplaySafe
<1>1. IngressInit => Guard!Init
  BY DEF IngressInit, LedgerInit, Guard!Init
<1>2. IngressInv /\ [IngressNext]_ingressVars => [Guard!Next]_(Guard!guardVars)
  <2> SUFFICES ASSUME IngressInv, [IngressNext]_ingressVars
               PROVE  [Guard!Next]_(Guard!guardVars)
    OBVIOUS
  <2>1. ASSUME NEW c \in Conns, Admit(c) PROVE Guard!Next
    <3>1. /\ conn[c].hint \in Hints /\ conn[c].now \in Nat /\ conn[c].net \in Networks
      BY DEF IngressInv, IngressTypeOK, Connections
    <3>2. Guard!Use(conn[c].hint)
      BY <2>1, <3>1, CommitIsUse DEF IngressInv, Admit
    <3> QED
      BY <3>1, <3>2 DEF Guard!Next
  <2>2. CASE Deliver
    BY <2>2 DEF Deliver, MarkDelivered, Guard!guardVars
  <2>3. CASE UNCHANGED ledgerVars
    BY <2>3 DEF ledgerVars, Guard!guardVars
  <2>4. CASE HostNext \/ ConnectRefused \/ UNCHANGED ingressVars
    BY <2>3, <2>4 DEF HostNext, Stop, Crash, Start, Tick, StepBack, ConnectRefused, ingressVars
  <2>5. ASSUME NEW c \in Conns, HandlerNext(c) PROVE UNCHANGED ledgerVars
    BY <2>5 DEF HandlerNext, Connect, ReadFails, HandlerTimeout, Reply, ReplyLost
  <2>6. ASSUME NEW c \in Conns, WorkerNext(c), ~ Admit(c) PROVE UNCHANGED ledgerVars
    BY <2>6 DEF WorkerNext, Receive, ProofVerified, ProofRefused, VerifierUnavailable,
       AdmitClockBehind, AdmitConflict, Lookup, LedgerBusy
  <2> QED
    BY <2>1, <2>2, <2>3, <2>4, <2>5, <2>6 DEF IngressNext
<1> QED
  BY <1>1, <1>2, IngressInvariant, PTL DEF IngressSpec, ReplaySafe, Guard!Spec

-----------------------------------------------------------------------------
(* The analyzer adapter. *)

Before(h) == {g \in Undelivered : Older(g, h)}

-----------------------------------------------------------------------------
(* pending_jobs *)

\* ORDER BY admitted_at, payload_digest is a strict total order of the rows.
LEMMA OlderOrders ==
  ASSUME LedgerTypeOK, NEW f \in Hints, NEW g \in Hints, NEW h \in Hints
  PROVE  /\ ~ Older(h, h)
         /\ Older(f, g) /\ Older(g, h) => Older(f, h)
         /\ g # h => Older(g, h) \/ Older(h, g)
<1>1. \A k \in Hints : admitted_at[k] \in Nat /\ DigestRank[k] \in Nat
  BY AdapterAssumption DEF LedgerTypeOK
<1>2. DigestRank[g] = DigestRank[h] => g = h
  BY AdapterAssumption
<1> QED
  BY <1>1, <1>2 DEF Older

\* The position of a job is a number below the number of jobs, and an older job has
\* a smaller one.
LEMMA PositionOrders ==
  ASSUME LedgerTypeOK, IsFiniteSet(Undelivered), NEW g \in Undelivered, NEW h \in Undelivered
  PROVE  /\ Position(h) \in 0 .. Cardinality(Undelivered) - 1
         /\ Older(g, h) => Position(g) < Position(h)
         /\ Position(g) = Position(h) => g = h
<1>1. Undelivered \subseteq Hints
  BY DEF Undelivered, LedgerTypeOK
<1>2. ASSUME NEW k \in Undelivered
      PROVE  /\ Before(k) \subseteq Undelivered \ {k}
             /\ IsFiniteSet(Before(k)) /\ Cardinality(Before(k)) \in Nat
  <2>1. Before(k) \subseteq Undelivered \ {k}
    BY <1>1, OlderOrders DEF Before
  <2> QED
    BY <2>1, FS_Subset, FS_CardinalityType
<1>3. ASSUME NEW j \in Undelivered, NEW k \in Undelivered, Older(j, k)
      PROVE  Cardinality(Before(j)) < Cardinality(Before(k))
  <2>1. Before(j) \subseteq Before(k) /\ j \in Before(k) /\ j \notin Before(j)
    BY <1>1, <1>3, OlderOrders DEF Before
  <2>2. Before(j) # Before(k)
    BY <2>1
  <2>3. /\ IsFiniteSet(Before(k))
        /\ Cardinality(Before(j)) \in Nat /\ Cardinality(Before(k)) \in Nat
    BY <1>2
  <2> QED
    BY <2>1, <2>2, <2>3, FS_Subset
<1>4. /\ Cardinality(Undelivered) \in Nat
      /\ Cardinality(Before(h)) < Cardinality(Undelivered)
  <2>1. Before(h) \subseteq Undelivered /\ Before(h) # Undelivered
    BY <1>2
  <2> QED
    BY <1>2, <2>1, FS_Subset, FS_CardinalityType
<1>5. Position(g) = Cardinality(Before(g)) /\ Position(h) = Cardinality(Before(h))
  BY DEF Position, Before
<1>6. Position(h) \in 0 .. Cardinality(Undelivered) - 1
  BY <1>2, <1>4, <1>5
<1>7. Position(g) = Position(h) => g = h
  <2> SUFFICES ASSUME g # h PROVE Position(g) # Position(h)
    OBVIOUS
  <2>1. Older(g, h) \/ Older(h, g)
    BY <1>1, OlderOrders
  <2>2. Cardinality(Before(g)) \in Nat /\ Cardinality(Before(h)) \in Nat
    BY <1>2
  <2>3. CASE Older(g, h)
    BY <1>3, <1>5, <2>2, <2>3
  <2>4. CASE Older(h, g)
    BY <1>3, <1>5, <2>2, <2>4
  <2> QED
    BY <2>1, <2>3, <2>4
<1> QED
  BY <1>3, <1>5, <1>6, <1>7

\* Every position is taken.
LEMMA PositionsTaken ==
  ASSUME LedgerTypeOK, IsFiniteSet(Undelivered), NEW i \in 0 .. Cardinality(Undelivered) - 1
  PROVE  \E h \in Undelivered : Position(h) = i
<1> DEFINE n == Cardinality(Undelivered)
           f == [h \in Undelivered |-> Position(h)]
<1>1. n \in Nat
  BY FS_CardinalityType
<1>2. f \in Injection(Undelivered, 0 .. n - 1)
  BY PositionOrders DEF Injection, IsInjective
<1>3. IsFiniteSet(0 .. n - 1) /\ Cardinality(0 .. n - 1) = n
  BY <1>1, FS_Interval
<1>4. f \in Surjection(Undelivered, 0 .. n - 1)
  BY <1>2, <1>3, FS_Injection
<1> QED
  BY <1>4 DEF Surjection

\* pending_jobs returns, oldest first and without repetition, undelivered jobs, and
\* with a job every undelivered one that is older.
THEOREM PendingJobsOldest ==
  ASSUME LedgerTypeOK, IsFiniteSet(Undelivered), NEW limit \in Nat
  PROVE  LET jobs == PendingJobs(limit) IN
         /\ jobs \in Seq(Undelivered)
         /\ Len(jobs) <= limit /\ Len(jobs) <= Cardinality(Undelivered)
         /\ limit > 0 /\ Undelivered # {} => jobs # <<>>
         /\ \A i, j \in 1 .. Len(jobs) : i < j => Older(jobs[i], jobs[j])
         /\ \A i \in 1 .. Len(jobs), g \in Undelivered :
                Older(g, jobs[i]) => \E j \in 1 .. i - 1 : jobs[j] = g
<1> DEFINE n == Cardinality(Undelivered)
           k == Least(limit, n)
           jobs == PendingJobs(limit)
<1>1. n \in Nat /\ k \in Nat /\ k <= n /\ k <= limit /\ (limit > 0 /\ n > 0 => k > 0)
  BY FS_CardinalityType DEF Least
<1>2. Undelivered # {} => n > 0
  BY <1>1, FS_EmptySet
<1>3. ASSUME NEW i \in 1 .. k
      PROVE  jobs[i] \in Undelivered /\ Position(jobs[i]) = i - 1
  <2>1. i - 1 \in 0 .. n - 1
    BY <1>1
  <2>2. jobs[i] = CHOOSE h \in Undelivered : Position(h) = i - 1
    BY DEF PendingJobs
  <2> QED
    BY <2>1, <2>2, PositionsTaken
<1>4. jobs \in [1 .. k -> Undelivered]
  BY <1>3 DEF PendingJobs
<1>5. jobs \in Seq(Undelivered) /\ Len(jobs) = k
  BY <1>1, <1>4
<1>6. Undelivered \subseteq Hints
  BY DEF Undelivered, LedgerTypeOK
<1> HIDE DEF n, k, jobs
<1>7. ASSUME NEW i \in 1 .. k, NEW j \in 1 .. k, i < j
      PROVE  Older(jobs[i], jobs[j])
  <2>1. jobs[i] \in Hints /\ jobs[j] \in Hints
    BY <1>3, <1>6
  <2>2. Position(jobs[i]) < Position(jobs[j])
    BY <1>3, <1>7
  <2>3. ~ Older(jobs[j], jobs[i]) /\ jobs[i] # jobs[j]
    BY <1>3, <1>1, <2>2, PositionOrders
  <2> QED
    BY <2>1, <2>3, OlderOrders
<1>8. ASSUME NEW i \in 1 .. k, NEW g \in Undelivered, Older(g, jobs[i])
      PROVE  \E j \in 1 .. i - 1 : jobs[j] = g
  <2>1. Position(g) \in 0 .. n - 1 /\ Position(g) < i - 1
    BY <1>3, <1>8, PositionOrders DEF n
  <2>2. Position(g) + 1 \in 1 .. i - 1 /\ Position(g) + 1 \in 1 .. k
    BY <1>1, <2>1
  <2>3. Position(jobs[Position(g) + 1]) = Position(g)
    BY <1>3, <2>1, <2>2
  <2>4. jobs[Position(g) + 1] = g
    BY <1>3, <2>2, <2>3, PositionOrders
  <2> QED
    BY <2>2, <2>4
<1>9. limit > 0 /\ Undelivered # {} => jobs # <<>>
  BY <1>1, <1>2, <1>5
<1> QED
  BY <1>1, <1>5, <1>7, <1>8, <1>9 DEF n, k, jobs

-----------------------------------------------------------------------------
(* The pipeline *)

Drains == [pc : {"idle", "job", "mark"}, jobs : Seq(Hints), at : Nat \cup {Null}]

\* One drain, with done for analysed: the jobs of its batch were admitted, and one that is being marked was
\* analysed and has a delivery time that is not before its admission.
DrainOK(d, done) ==
    /\ d \in Drains
    /\ d.pc # "idle" => d.jobs # <<>>
    /\ \A i \in 1 .. Len(d.jobs) : d.jobs[i] \in accepted
    /\ d.pc = "mark" => /\ Head(d.jobs) \in done
                        /\ d.at \in Nat /\ d.at >= admitted_at[Head(d.jobs)]

\* The strengthening of DeliveredWasAnalysed.  That a batch only holds accepted hints
\* is what keeps a later admission from moving an admission time under a drain.
PipelineInv ==
    /\ LedgerInv
    /\ IsFiniteSet(accepted)
    /\ hostClock \in Nat
    /\ expected \in Networks
    /\ analysed \in SUBSET Hints
    /\ drain \in [Adapters -> Drains]
    /\ \A a \in Adapters : DrainOK(drain[a], analysed)
    /\ DeliveredWasAnalysed

\* An idle drain.
LEMMA IdleOK == ASSUME NEW done PROVE DrainOK(Idle, done)
<1>1. <<>> \in Seq(Hints) /\ Len(<<>>) = 0
  OBVIOUS
<1> QED
  BY <1>1 DEF DrainOK, Idle, Drains, Null

\* The rest of a batch.
LEMMA AdvancedOK ==
  ASSUME NEW d, NEW done, DrainOK(d, done), d.pc # "idle"
  PROVE  DrainOK(Advanced(d), done)
<1>1. d.jobs \in Seq(Hints) /\ d.jobs # <<>> /\ Len(d.jobs) \in Nat
  BY DEF DrainOK, Drains
<1>2. CASE Len(d.jobs) = 1
  BY <1>2, IdleOK DEF Advanced
<1>3. CASE Len(d.jobs) # 1
  <2> DEFINE s == d.jobs
             t == Tail(s)
  <2>1. /\ t \in Seq(Hints) /\ Len(t) = Len(s) - 1 /\ Len(s) \in Nat \ {0, 1}
        /\ \A i \in 1 .. Len(t) : t[i] = s[i + 1]
    BY <1>1, <1>3, HeadTailProperties, EmptySeq
  <2>2. \A i \in 1 .. Len(t) : t[i] = s[i + 1] /\ i + 1 \in 1 .. Len(s)
    <3> HIDE DEF s, t
    <3> QED
      BY <2>1
  <2>3. t # <<>>
    <3> HIDE DEF s, t
    <3> QED
      BY <2>1
  <2>4. \A i \in 1 .. Len(t) : t[i] \in accepted
    BY <2>2 DEF DrainOK
  <2>5. Advanced(d) = [pc |-> "job", jobs |-> t, at |-> Null]
    BY <1>3 DEF Advanced
  <2> HIDE DEF s, t
  <2> QED
    BY <2>1, <2>3, <2>4, <2>5 DEF DrainOK, Drains
<1> QED
  BY <1>2, <1>3

\* A step of one drain over an unchanged ledger.
LEMMA DrainStep ==
  ASSUME PipelineInv, NEW a \in Adapters, NEW d,
         UNCHANGED <<ledgerVars, hostClock, expected>>,
         analysed \subseteq analysed', analysed' \in SUBSET Hints,
         drain' = [drain EXCEPT ![a] = d],
         DrainOK(d, analysed')
  PROVE  PipelineInv'
<1> USE DEF PipelineInv
<1>1. LedgerInv'
  BY DEF ledgerVars, LedgerInv, LedgerTypeOK, ForgottenIsExpired, RowsConsistent,
     NoJobLost, DeliveredWasAccepted, ExpiresAt, SharesKey
<1>2. UNCHANGED <<admitted_at, accepted, delivered_at>>
  BY DEF ledgerVars
<1>3. d \in Drains
  BY DEF DrainOK
<1>4. drain' \in [Adapters -> Drains]
  BY <1>3
<1>5. (\A b \in Adapters : DrainOK(drain[b], analysed))'
  <2> SUFFICES ASSUME NEW b \in Adapters PROVE DrainOK(drain[b], analysed)'
    OBVIOUS
  <2>1. CASE b = a
    BY <1>2, <2>1 DEF DrainOK
  <2>2. CASE b # a
    BY <1>2, <2>2 DEF DrainOK
  <2> QED
    BY <2>1, <2>2
<1>6. DeliveredWasAnalysed'
  BY <1>2 DEF DeliveredWasAnalysed
<1> QED
  BY <1>1, <1>2, <1>4, <1>5, <1>6

\* The steps of a drain.
LEMMA DrainNextInv ==
  ASSUME PipelineInv, NEW a \in Adapters, DrainNext(a)
  PROVE  PipelineInv'
<1> USE DEF PipelineInv
<1>1. DrainOK(drain[a], analysed) /\ drain[a] \in Drains
  OBVIOUS
<1>2. IsFiniteSet(Undelivered) /\ Undelivered \subseteq accepted
  <2>1. Undelivered \subseteq accepted
    BY DEF Undelivered, LedgerInv, RowsConsistent
  <2> QED
    BY <2>1, FS_Subset
<1>3. CASE ReadBatch(a)
  <2> DEFINE jobs == PendingJobs(BatchLimit)
             d == [pc |-> "job", jobs |-> jobs, at |-> Null]
  <2>1. /\ jobs \in Seq(Undelivered) /\ jobs # <<>>
    BY <1>2, <1>3, AdapterAssumption, PendingJobsOldest DEF ReadBatch, LedgerInv
  <2>2. \A i \in 1 .. Len(jobs) : jobs[i] \in accepted
    BY <1>2, <2>1, ElementOfSeq
  <2>3. jobs \in Seq(Hints)
    <3>1. Undelivered \subseteq Hints
      BY <1>2 DEF LedgerInv, LedgerTypeOK
    <3> HIDE DEF jobs
    <3> QED
      BY <2>1, <3>1
  <2> HIDE DEF jobs
  <2>4. DrainOK(d, analysed)
    BY <2>1, <2>2, <2>3 DEF DrainOK, Drains
  <2>5. /\ UNCHANGED <<ledgerVars, hostClock, expected>> /\ analysed' = analysed
        /\ drain' = [drain EXCEPT ![a] = d]
    BY <1>3 DEF ReadBatch, jobs
  <2> HIDE DEF d
  <2> QED
    BY <2>4, <2>5, DrainStep
<1>4. CASE AdaptFails(a) \/ AnalysisFails(a) \/ MarkFails(a)
  <2>1. /\ UNCHANGED <<ledgerVars, hostClock, expected>> /\ analysed' = analysed
        /\ drain' = [drain EXCEPT ![a] = Advanced(drain[a])]
        /\ drain[a].pc # "idle"
    BY <1>4 DEF AdaptFails, AnalysisFails, MarkFails
  <2>2. DrainOK(Advanced(drain[a]), analysed)
    BY <1>1, <2>1, AdvancedOK
  <2> QED
    BY <2>1, <2>2, DrainStep
<1>5. CASE Cancel(a)
  BY <1>5, IdleOK, DrainStep DEF Cancel
<1>6. CASE Analyse(a)
  <2> DEFINE h == Head(drain[a].jobs)
             d == [drain[a] EXCEPT !.pc = "mark", !.at = hostClock]
  <2>1. /\ drain[a].pc = "job" /\ drain[a].jobs \in Seq(Hints) /\ drain[a].jobs # <<>>
    BY <1>1, <1>6 DEF Analyse, DrainOK, Drains
  <2>2. h \in accepted /\ h \in Hints
    <3>1. h = drain[a].jobs[1] /\ 1 \in 1 .. Len(drain[a].jobs)
      BY <2>1, EmptySeq
    <3> QED
      BY <1>1, <3>1 DEF DrainOK, LedgerInv, LedgerTypeOK
  <2>3. /\ UNCHANGED <<ledgerVars, hostClock, expected>> /\ analysed' = analysed \cup {h}
    BY <1>6 DEF Analyse
  <2>4. DrainOK(drain[a], analysed')
    BY <1>1, <2>1 DEF DrainOK
  <2>5. CASE hostClock < admitted_at[h]
    <3>1. drain' = [drain EXCEPT ![a] = Advanced(drain[a])]
      BY <1>6, <2>5 DEF Analyse
    <3>2. DrainOK(Advanced(drain[a]), analysed')
      BY <2>1, <2>4, AdvancedOK
    <3> QED
      BY <2>2, <2>3, <3>1, <3>2, DrainStep
  <2>6. CASE ~ (hostClock < admitted_at[h])
    <3>1. drain' = [drain EXCEPT ![a] = d]
      BY <1>6, <2>6 DEF Analyse
    <3>2. admitted_at[h] \in Nat /\ hostClock \in Nat
      BY <2>2 DEF LedgerInv, LedgerTypeOK
    <3>3. /\ d \in Drains /\ d.pc = "mark" /\ d.jobs = drain[a].jobs /\ d.at = hostClock
      BY <1>1, <3>2 DEF Drains
    <3> HIDE DEF d
    <3>4. DrainOK(d, analysed')
      BY <2>1, <2>3, <2>4, <2>6, <3>2, <3>3 DEF DrainOK
    <3> QED
      BY <2>2, <2>3, <3>1, <3>4, DrainStep
  <2> QED
    BY <2>5, <2>6
<1>7. CASE Mark(a)
  <2> DEFINE h == Head(drain[a].jobs)
             t == drain[a].at
  <2>1. /\ MarkDelivered(h, t) /\ drain[a].pc = "mark"
        /\ drain' = [drain EXCEPT ![a] = Advanced(drain[a])]
        /\ UNCHANGED <<hostClock, expected, analysed>>
    BY <1>7 DEF Mark
  <2>2. h \in analysed /\ h \in Hints /\ t \in Nat /\ t >= admitted_at[h]
    BY <1>1, <2>1 DEF DrainOK
  <2>3. LedgerInv'
    BY <2>1, <2>2, MarkInv
  <2>4. /\ UNCHANGED <<admitted_at, accepted>>
        /\ delivered_at' = [delivered_at EXCEPT ![h] = IF @ = Null THEN t ELSE @]
    BY <2>1 DEF MarkDelivered
  <2>5. DrainOK(Advanced(drain[a]), analysed)
    BY <1>1, <2>1, AdvancedOK
  <2>6. drain' \in [Adapters -> Drains]
    BY <2>1, <2>5 DEF DrainOK
  <2>7. (\A b \in Adapters : DrainOK(drain[b], analysed))'
    <3> SUFFICES ASSUME NEW b \in Adapters PROVE DrainOK(drain[b], analysed)'
      OBVIOUS
    <3>1. DrainOK(drain'[b], analysed)
      BY <2>1, <2>5
    <3> QED
      BY <2>1, <2>4, <3>1 DEF DrainOK
  <2>8. DeliveredWasAnalysed'
    <3>1. delivered_at \in [Hints -> Nat \cup {Null}] /\ analysed' = analysed
      BY <2>1 DEF LedgerInv, LedgerTypeOK
    <3> HIDE DEF h, t
    <3> QED
      BY <2>2, <2>4, <3>1 DEF DeliveredWasAnalysed
  <2> QED
    BY <2>1, <2>3, <2>4, <2>6, <2>7, <2>8
<1> QED
  BY <1>3, <1>4, <1>5, <1>6, <1>7 DEF DrainNext

\* An admission while drains are under way: its hint is new, so it is in no batch and
\* no admission time that a drain relies on moves.
LEMMA ArriveInv ==
  ASSUME PipelineInv, Arrive
  PROVE  PipelineInv'
<1> USE DEF PipelineInv
<1>1. PICK h \in Hints, net \in Networks : AdmitCommit(h, hostClock, net)
  BY DEF Arrive
<1>2. LedgerInv'
  BY <1>1, AdmitInv
<1>3. h \notin accepted /\ accepted' = accepted \cup {h}
  BY <1>1, CommitIsNew DEF AdmitCommit
<1>4. IsFiniteSet(accepted')
  BY <1>3, FS_AddElement
<1>5. UNCHANGED <<hostClock, expected, drain, analysed>>
  BY DEF Arrive, adapterVars
<1>6. /\ admitted_at' = [admitted_at EXCEPT ![h] = hostClock]
      /\ delivered_at' = [delivered_at EXCEPT ![h] = Null]
      /\ admitted_at \in [Hints -> Nat] /\ delivered_at \in [Hints -> Nat \cup {Null}]
      /\ accepted \subseteq Hints
  BY <1>1 DEF AdmitCommit, LedgerInv, LedgerTypeOK
<1>7. (\A a \in Adapters : DrainOK(drain[a], analysed))'
  <2> SUFFICES ASSUME NEW a \in Adapters PROVE DrainOK(drain[a], analysed)'
    OBVIOUS
  <2>1. DrainOK(drain[a], analysed)
    OBVIOUS
  <2>2. CASE drain[a].pc = "mark"
    <3> DEFINE g == Head(drain[a].jobs)
    <3>1. drain[a].jobs \in Seq(Hints) /\ drain[a].jobs # <<>>
      BY <2>1, <2>2 DEF DrainOK, Drains
    <3>2. g = drain[a].jobs[1] /\ 1 \in 1 .. Len(drain[a].jobs)
      BY <3>1, EmptySeq
    <3>3. g \in accepted /\ g # h
      BY <1>3, <2>1, <3>2 DEF DrainOK
    <3>4. admitted_at'[g] = admitted_at[g]
      BY <1>6, <3>3
    <3> HIDE DEF g
    <3> QED
      BY <1>3, <1>5, <2>1, <2>2, <3>4 DEF DrainOK, g
  <2>3. CASE drain[a].pc # "mark"
    BY <1>3, <1>5, <2>1, <2>3 DEF DrainOK
  <2> QED
    BY <2>2, <2>3
<1>8. DeliveredWasAnalysed'
  BY <1>5, <1>6 DEF DeliveredWasAnalysed
<1> QED
  BY <1>2, <1>4, <1>5, <1>7, <1>8

\* The invariant holds in every state of adapters over a growing ledger.
THEOREM PipelineInvariant == PipelineSpec => []PipelineInv
<1>1. PipelineInit => PipelineInv
  <2> SUFFICES ASSUME PipelineInit PROVE PipelineInv
    OBVIOUS
  <2> USE DEF PipelineInit, AdapterInit
  <2>1. LedgerInv
    BY LedgerInitInv
  <2>2. accepted = {} /\ delivered_at = [h \in Hints |-> Null] /\ drain = [a \in Adapters |-> Idle]
    BY DEF LedgerInit
  <2>3. DrainOK(Idle, analysed) /\ Idle \in Drains
    BY IdleOK DEF DrainOK
  <2> QED
    BY <2>1, <2>2, <2>3, FS_EmptySet DEF PipelineInv, DeliveredWasAnalysed
<1>2. PipelineInv /\ [PipelineNext]_pipelineVars => PipelineInv'
  <2> SUFFICES ASSUME PipelineInv, [PipelineNext]_pipelineVars PROVE PipelineInv'
    OBVIOUS
  <2>1. ASSUME UNCHANGED ledgerVars, analysed' = analysed,
               hostClock' \in Nat, expected' \in Networks,
               drain' = drain \/ drain' = [a \in Adapters |-> Idle]
        PROVE  PipelineInv'
    <3>1. LedgerInv'
      BY <2>1 DEF PipelineInv, ledgerVars, LedgerInv, LedgerTypeOK, ForgottenIsExpired,
         RowsConsistent, NoJobLost, DeliveredWasAccepted, ExpiresAt, SharesKey
    <3>2. UNCHANGED <<admitted_at, accepted, delivered_at>>
      BY <2>1 DEF ledgerVars
    <3>3. /\ drain' \in [Adapters -> Drains]
          /\ \A a \in Adapters : DrainOK(drain'[a], analysed)
      BY <2>1, IdleOK DEF PipelineInv, DrainOK
    <3>4. (\A a \in Adapters : DrainOK(drain[a], analysed))'
      BY <2>1, <3>2, <3>3 DEF DrainOK
    <3>5. DeliveredWasAnalysed'
      BY <2>1, <3>2 DEF PipelineInv, DeliveredWasAnalysed
    <3> QED
      BY <2>1, <3>1, <3>2, <3>3, <3>4, <3>5 DEF PipelineInv
  <2>2. CASE HostTick \/ HostStepBack \/ AdapterRestart
    BY <2>1, <2>2, HintAssumption DEF HostTick, HostStepBack, AdapterRestart, PipelineInv
  <2>3. CASE UNCHANGED pipelineVars
    BY <2>1, <2>3 DEF pipelineVars, adapterVars, PipelineInv
  <2> QED
    BY <2>2, <2>3, ArriveInv, DrainNextInv DEF PipelineNext
<1> QED
  BY <1>1, <1>2, PTL DEF PipelineSpec

\* A job counts as delivered only after the safe analysis of its hint, no earlier than
\* its admission, whichever adapter did it and however often drains were repeated.
THEOREM PipelineDeliveredWasAnalysed == PipelineSpec => []DeliveredWasAnalysed
BY PipelineInvariant, PTL DEF PipelineInv

\* Until it is analysed an accepted hint is pending.
THEOREM PipelineUnanalysedIsPending == PipelineSpec => []UnanalysedIsPending
<1>1. PipelineInv => UnanalysedIsPending
  BY DEF PipelineInv, LedgerInv, LedgerTypeOK, NoJobLost, DeliveredWasAnalysed,
     UnanalysedIsPending, Undelivered
<1> QED
  BY <1>1, PipelineInvariant, PTL

\* No drain, whatever fails in it, and no prune loses an undelivered job.
THEOREM PipelineKeepsJobs == PipelineSpec => []NoJobLost
BY PipelineInvariant, PTL DEF PipelineInv, LedgerInv
=============================================================================
