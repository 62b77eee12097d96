----------------------------- MODULE MCLedgerFiles -----------------------------
(* The two ledger files that are migrated when a process opens them: the          *)
(* membership authority's and the approval ledger's.  They share no state, so a   *)
(* behaviour follows one of them while the other rests in an initial state.       *)
EXTENDS MembershipAuthority, ApprovalLedgerSchema, TLC

CONSTANTS
    k0, k1, k2, m0, m1, f1, m2, m3, MaxTime,    \* the authority
    Procs, y1, y2, NoLedger                     \* the approval ledger

VARIABLE part    \* the ledger this behaviour follows

(* Three keys and five sources.  Two transitions fork the bootstrap source, one    *)
(* skips an epoch; the step from m1 is signed by k0 and, anew, by k1; another one   *)
(* repeats a nonce.  Rotations to k1 name either the bootstrap membership or m1;    *)
(* one of the second rotations would bring k0 back.                                 *)
MCKeys == {k0, k1, k2}
MCSources == {m0, m1, f1, m2, m3}
MCSourceEpoch == (m0 :> 0) @@ (m1 :> 1) @@ (f1 :> 1) @@ (m2 :> 2) @@ (m3 :> 3)
MCTimes == 1 .. MaxTime

Transition(n, p, q, from, until, key) ==
    [nonce |-> n, previous_epoch |-> MCSourceEpoch[p], previous_source |-> p,
     next_epoch |-> MCSourceEpoch[q], next_source |-> q,
     not_before |-> from, not_after |-> until, signer |-> key]

Rotation(n, e, key, next, m) ==
    [nonce |-> n, previous_epoch |-> e, previous_key |-> key,
     next_epoch |-> e + 1, next_key |-> next,
     membership_epoch |-> MCSourceEpoch[m], membership_source |-> m,
     not_before |-> 1, not_after |-> MaxTime + 1,
     authorised_by |-> key, possessed_by |-> next]

MCTransitions ==
    {Transition("a", m0, m1, 1, 3, k0), Transition("b", m0, f1, 1, 3, k0),
     Transition("c", m0, m2, 2, 4, k0), Transition("d", m1, m2, 1, 4, k0),
     Transition("e", m1, m2, 2, 4, k1), Transition("a", f1, m2, 1, 3, k0),
     Transition("f", m2, m3, 1, 4, k1), Transition("g", m2, m3, 1, 4, k2)}

MCRotations ==
    {Rotation("a", 0, k0, k1, m0), Rotation("b", 0, k0, k1, m1),
     Rotation("c", 1, k1, k2, m2), Rotation("d", 1, k1, k0, m1),
     Rotation("e", 0, k0, k2, m2)}

(* Two processes, two versions of each policy file: the second version of the  *)
(* consumption policy names another identity, that of retention and of         *)
(* promotion another set of kinds.                                             *)
MCProcesses == Procs
MCApprovals == {y1, y2}
MCGenerations ==
    [f \in Policies |-> IF f \in {"consumption", "retention", "promotion"}
                        THEN 1..2 ELSE {1}]
MCIdentityOf ==
    [f \in Policies |-> [g \in 1..2 |->
        IF f = "consumption" /\ g = 2 THEN "other" ELSE "own"]]
MCKindsOf ==
    [f \in Policies |-> [g \in 1..2 |->
        IF f \in {"retention", "promotion"} /\ g = 2 THEN "wide" ELSE "narrow"]]

Older(v, consumed, outbox, results, paired) ==
    [version |-> v, shape |-> ShapeAt(v), consumed |-> consumed,
     outbox |-> outbox, results |-> results, paired |-> paired]

MCOlderLedgersValue ==
    {NoLedger,
     Older(1, {y1}, {}, {}, {}), Older(2, {y1}, {}, {}, {}),
     Older(3, {y1}, {}, {}, {}), Older(3, {y1}, {y1}, {}, {}),
     Older(4, {y1}, {}, {}, {}), Older(4, {y1}, {y1}, {}, {}),
     Older(4, {y1}, {}, {y1}, {}), Older(5, {y1}, {y1}, {}, {y1}),
     \* an outbox and a pairing table hidden under an earlier version
     [Older(1, {y1}, {y1}, {}, {}) EXCEPT !.shape["outbox"] = "v3"],
     [Older(2, {y1}, {}, {}, {y1}) EXCEPT !.shape["pairings"] = "ok"],
     \* foreign columns, and a version this release does not know
     [Older(2, {y1}, {}, {}, {}) EXCEPT !.shape["authority"] = "odd"],
     [Older(5, {y1}, {}, {}, {}) EXCEPT !.version = 6]}
MCOlderLedgers == MCOlderLedgersValue

-----------------------------------------------------------------------------

AuthorityRests == AuthorityInit /\ schema = 2
SchemaRests ==
    /\ SchemaInit
    /\ ledger = NoLedger
    /\ \A f \in Policies : disk[f] = 1

LedgersInit ==
    \/ part = "authority" /\ AuthorityInit /\ SchemaRests
    \/ part = "approvals" /\ SchemaInit /\ AuthorityRests

LedgersNext ==
    \/ part = "authority" /\ AuthorityNext /\ UNCHANGED <<part, schemaVars>>
    \/ part = "approvals" /\ SchemaNext /\ UNCHANGED <<part, authorityVars>>

LedgersSpec == LedgersInit /\ [][LedgersNext]_<<part, authorityVars, schemaVars>>

ProcSymmetry == Permutations(Procs)
=============================================================================
