------------------------- MODULE ApprovalLedgerSchema -------------------------
(***************************************************************************)
(* How a service over the approval ledger comes up, jaeger/                *)
(* observable_approval_consumption.py with threat_hint_v2_acceptance.py    *)
(* and threat_hint_v2_promotion.py: the owner's policy files are read one  *)
(* after the other and compared, the ledger file is looked for and created *)
(* and its schema is validated, migrated or refused in one transaction.    *)
(*                                                                         *)
(* Several processes, legacy and governed, come up on one path while the   *)
(* owner replaces policy files.  A transaction that raises is rolled back: *)
(* it changes nothing but the process.  What the ledger says of a single   *)
(* record is ObservableOutbox; here a table is its column shape and the    *)
(* approvals that have a row in it.                                        *)
(***************************************************************************)
EXTENDS Integers, Sequences

CONSTANTS
    Processes,        \* the processes that open the ledger
    Approvals,        \* verified approvals
    Generations,      \* [policy -> Nats]: the versions of each policy file
    IdentityOf,       \* [policy -> [Nats -> network, approver, scope]]
    KindsOf,          \* [policy -> [Nats -> observable kinds]]
    Absent,           \* there is no ledger file
    OlderLedgers      \* ledgers that earlier releases may have left

Policies == {"promotion", "preflight", "consumption", "governance", "retention"}
Tables == {"consumptions", "state", "authority", "outbox", "results", "pairings"}
Shapes == {"none", "v3", "ok", "odd"}
ServiceModes == {"legacy", "accepting", "governed", "durable"}

Unread == [f \in Policies |-> 0]

Ledgers ==
    [version : Int, shape : [Tables -> Shapes], consumed : SUBSET Approvals,
     outbox : SUBSET Approvals, results : SUBSET Approvals,
     paired : SUBSET Approvals]

(* A table that is not there has no rows, and a version 5 ledger is one
   that this release wrote.                                               *)
RowsAreSound(db) ==
    /\ db.shape["outbox"] = "none" => db.outbox = {}
    /\ db.shape["results"] = "none" => db.results = {}
    /\ db.shape["pairings"] = "none" => db.paired = {}
    /\ db.version = 5 => /\ db.outbox \union db.results \subseteq db.paired
                         /\ db.paired \subseteq db.consumed

ASSUME SchemaAssumption ==
    /\ Generations \in [Policies -> SUBSET (Nat \ {0})]
    /\ Absent \notin Ledgers
    /\ OlderLedgers \subseteq Ledgers \union {Absent}
    /\ \A db \in OlderLedgers \ {Absent} : RowsAreSound(db)

VARIABLES
    disk,       \* [Policies -> Nat]: the policy files in place
    ledger,     \* the ledger file
    proc,       \* [Processes -> what each process does, in which mode]
    got,        \* [Processes -> [Policies -> 0 or the generation it loaded]]
    expired,    \* the approvals whose row has reached its retention deadline
    consumedAs  \* history: [Approvals -> mode and schema of their consumption]

schemaVars == <<disk, ledger, proc, got, expired, consumedAs>>

Down == [pc |-> "down", mode |-> "legacy"]

Governed(m) == m \in {"governed", "durable"}

(* The files a constructor reads, in the order it reads them. *)
ReadOrder(m) ==
    IF m = "legacy" THEN <<"consumption">>
    ELSE IF m = "accepting" THEN <<"preflight", "consumption">>
    ELSE <<"promotion", "preflight", "consumption", "governance", "retention">>

FilesOf(m) == {ReadOrder(m)[i] : i \in DOMAIN ReadOrder(m)}

SchemaInit ==
    /\ disk \in [Policies -> UNION {Generations[f] : f \in Policies}]
    /\ \A f \in Policies : disk[f] \in Generations[f]
    /\ ledger \in OlderLedgers
    /\ proc = [p \in Processes |-> Down]
    /\ got = [p \in Processes |-> Unread]
    /\ expired = {}
    /\ consumedAs = [a \in Approvals |-> <<>>]

---------------------------------------------------------------------------
(* The policy files. *)

(* The owner puts another version of one file in place.                    *)
ReplacePolicy(f, g) ==
    /\ g \in Generations[f] \ {disk[f]}
    /\ disk' = [disk EXCEPT ![f] = g]
    /\ UNCHANGED <<ledger, proc, got, expired, consumedAs>>

StartUp(p, m) ==
    /\ proc[p].pc = "down"
    /\ proc' = [proc EXCEPT ![p] = [pc |-> "load", mode |-> m]]
    /\ UNCHANGED <<disk, ledger, got, expired, consumedAs>>

(* A constructor raises, or the process ends: what it had loaded is gone.  *)
GivesUp(p) ==
    /\ proc' = [proc EXCEPT ![p] = Down]
    /\ got' = [got EXCEPT ![p] = Unread]

(* The file a process reads next.                                          *)
NextFile(p, f) ==
    /\ proc[p].pc = "load"
    /\ \E i \in DOMAIN ReadOrder(proc[p].mode) :
         /\ ReadOrder(proc[p].mode)[i] = f
         /\ got[p][f] = 0
         /\ \A j \in 1..(i - 1) : got[p][ReadOrder(proc[p].mode)[j]] # 0

(* consumption, governance and retention are held to the preflight identity
   as each is read.  The promotion policy names no identity.              *)
IdentityAgrees(g) ==
    LET named == {f \in Policies \ {"promotion"} : g[f] # 0}
    IN \A f, h \in named : IdentityOf[f][g[f]] = IdentityOf[h][g[h]]

(* Both kind sets equal the promotion policy's once all files are read.    *)
KindsAgree(g) ==
    \A f \in {"governance", "retention"} :
        KindsOf[f][g[f]] = KindsOf["promotion"][g["promotion"]]

\* Mutant: the ledger is opened before the retention policy is compared.
PoliciesAgreeExceptRetention(m, g) ==
    /\ \A f \in FilesOf(m) : g[f] # 0
    /\ IdentityAgrees([g EXCEPT !["retention"] = 0])

PoliciesAgree(m, g) ==
    /\ \A f \in FilesOf(m) : g[f] # 0
    /\ IdentityAgrees(g)
    /\ Governed(m) => KindsAgree(g)

(* One file is read.  A policy that names another identity ends the        *)
(* constructor; the last file is followed by the comparison of the kinds   *)
(* and the ledger path.                                                    *)
LoadPolicy(p, f) ==
    /\ NextFile(p, f)
    /\ LET g == [got[p] EXCEPT ![f] = disk[f]]
           m == proc[p].mode
           more == IdentityAgrees(g) /\ \E h \in FilesOf(m) : g[h] = 0
       IN /\ got' = [got EXCEPT ![p] = IF more \/ PoliciesAgree(m, g) THEN g ELSE Unread]
          /\ proc' = [proc EXCEPT ![p] = IF more THEN @
                                         ELSE IF PoliciesAgree(m, g)
                                         THEN [@ EXCEPT !.pc = "look"] ELSE Down]
    /\ UNCHANGED <<disk, ledger, expired, consumedAs>>

---------------------------------------------------------------------------
(* The ledger path. *)

LookForLedger(p) ==
    /\ proc[p].pc = "look"
    /\ proc' = [proc EXCEPT ![p].pc = IF ledger = Absent THEN "create" ELSE "open"]
    /\ UNCHANGED <<disk, ledger, got, expired, consumedAs>>

EmptyLedger ==
    [version |-> 0, shape |-> [t \in Tables |-> "none"], consumed |-> {},
     outbox |-> {}, results |-> {}, paired |-> {}]

(* O_CREAT with O_EXCL: the process that finds the file made by another    *)
(* since it looked gives up.                                               *)
CreateLedger(p) ==
    /\ proc[p].pc = "create"
    /\ IF ledger = Absent
       THEN /\ ledger' = EmptyLedger
            /\ proc' = [proc EXCEPT ![p].pc = "open"]
            /\ got' = got
       ELSE ledger' = ledger /\ GivesUp(p)
    /\ UNCHANGED <<disk, expired, consumedAs>>

---------------------------------------------------------------------------
(* The schema. *)

(* _validate_schema: the tables a version has, each with its own columns,  *)
(* and the version number itself.                                          *)
ShapeAt(v) ==
    [t \in Tables |->
        CASE t \in {"consumptions", "state"} -> "ok"
          [] t = "authority" -> IF v >= 2 THEN "ok" ELSE "none"
          [] t = "outbox" -> IF v >= 4 THEN "ok" ELSE IF v = 3 THEN "v3" ELSE "none"
          [] t = "results" -> IF v >= 4 THEN "ok" ELSE "none"
          [] t = "pairings" -> IF v >= 5 THEN "ok" ELSE "none"]

ValidSchema(db, v) ==
    /\ db.version = v
    /\ \A t \in Tables : ShapeAt(v)[t] # "none" => db.shape[t] = ShapeAt(v)[t]

\* Mutant: a legacy service opens whatever version it finds.
OpenableAny(m) == 0..5

(* The versions each kind of service opens at all.                         *)
Openable(m) == IF Governed(m) THEN 0..5 ELSE {0, 1}

(* Tables a version must not have yet: one left behind is refused before   *)
(* anything is created.                                                    *)
NoTableAhead(db, m) ==
    /\ Governed(m) /\ db.version \in {0, 1} => db.shape["authority"] = "none"
    /\ Governed(m) /\ db.version \notin {3, 4, 5} => db.shape["outbox"] = "none"
    /\ Governed(m) /\ db.version \notin {4, 5} => db.shape["results"] = "none"
    /\ db.version # 5 => db.shape["pairings"] = "none"

\* Mutant: the rows of a version 3 outbox go with the table.
DrainedVersion4Only(db, m) ==
    Governed(m) /\ db.version = 4 =>
        ValidSchema(db, 4) /\ db.outbox = {} /\ db.results = {}

(* A version 3 or 4 ledger is migrated only when it is valid and drained.  *)
Drained(db, m) ==
    /\ Governed(m) /\ db.version = 3 => ValidSchema(db, 3) /\ db.outbox = {}
    /\ Governed(m) /\ db.version = 4 =>
         ValidSchema(db, 4) /\ db.outbox = {} /\ db.results = {}

Admissible(db, m) ==
    /\ db.version \in Openable(m)
    /\ db.version = 1 => ValidSchema(db, 1)
    /\ NoTableAhead(db, m)
    /\ Drained(db, m)

(* CREATE TABLE IF NOT EXISTS: a table that is there keeps its shape.      *)
Created(shape, tables) ==
    [t \in Tables |->
        IF t \in tables /\ shape[t] = "none" THEN "ok" ELSE shape[t]]

(* The ledger after the statements of _initialize_schema.                  *)
Migrated(db, m) ==
    LET first == IF db.version = 0
                 THEN Created(db.shape, {"consumptions", "state"}) ELSE db.shape
        dropped == IF db.version = 3 THEN [first EXCEPT !["outbox"] = "none"]
                   ELSE first
    IN IF Governed(m)
       THEN IF db.version = 5 THEN db
            ELSE [db EXCEPT !.version = 5,
                            !.shape = Created(dropped, Tables \ {"consumptions", "state"}),
                            !.outbox = IF db.version = 3 THEN {} ELSE @]
       ELSE [db EXCEPT !.version = 1, !.shape = first]

TargetVersion(m) == IF Governed(m) THEN 5 ELSE 1

(* The constructor's transaction commits when the old schema is admissible *)
(* and what the statements leave is valid; otherwise it rolls back.        *)
Opens(db, m) ==
    Admissible(db, m) /\ ValidSchema(Migrated(db, m), TargetVersion(m))

OpenLedger(p) ==
    /\ proc[p].pc = "open"
    /\ ledger # Absent
    /\ IF Opens(ledger, proc[p].mode)
       THEN /\ ledger' = Migrated(ledger, proc[p].mode)
            /\ proc' = [proc EXCEPT ![p].pc = "serving"]
            /\ got' = got
       ELSE ledger' = ledger /\ GivesUp(p)
    /\ UNCHANGED <<disk, expired, consumedAs>>

---------------------------------------------------------------------------
(* Serving.  Every operation on the outbox first deletes, in its own        *)
(* transaction, the rows and results whose deadline lies behind the time    *)
(* it was called with: some of the expired ones, since callers bring their  *)
(* own times.                                                               *)
Retained(db, gone) ==
    [db EXCEPT !.outbox = @ \ gone, !.results = @ \ gone]

(* The clock reaches the retention deadline of a row or a result.           *)
Expire(a) ==
    /\ ledger # Absent
    /\ a \in (ledger.outbox \union ledger.results) \ expired
    /\ expired' = expired \union {a}
    /\ UNCHANGED <<disk, ledger, proc, got, consumedAs>>

ServesGoverned(p) ==
    /\ proc[p].pc = "serving" /\ Governed(proc[p].mode)
    /\ ledger # Absent

(* The legacy consumption does not look at the version; the governed one    *)
(* reads it again in its own transaction.  Only the durable one has a row   *)
(* to queue, and cleans up before it.                                       *)
Consume(p, a, gone) ==
    LET m == proc[p].mode
        kept == Retained(ledger, gone)
    IN /\ proc[p].pc = "serving"
       /\ ledger # Absent
       /\ a \notin ledger.consumed \union ledger.paired
       /\ Governed(m) => ledger.version = 5
       /\ m # "durable" => gone = {}
       /\ ledger' = IF m = "durable"
                    THEN [kept EXCEPT !.consumed = @ \union {a},
                                      !.outbox = @ \union {a},
                                      !.paired = @ \union {a}]
                    ELSE [ledger EXCEPT !.consumed = @ \union {a}]
       /\ consumedAs' = [consumedAs EXCEPT ![a] = <<m, ledger.version>>]
       /\ UNCHANGED <<disk, proc, got, expired>>

(* A claim leases a row, or finds none: the cleanup commits either way.     *)
ClaimRecord(p, gone) ==
    /\ ServesGoverned(p)
    /\ ledger.version = 5
    /\ ledger' = Retained(ledger, gone)
    /\ UNCHANGED <<disk, proc, got, expired, consumedAs>>

(* A worker completes a record that is still there, or repeats a            *)
(* completion whose result is.                                              *)
CompleteRecord(p, a, gone) ==
    LET kept == Retained(ledger, gone)
    IN /\ ServesGoverned(p)
       /\ ledger.version = 5
       /\ a \in kept.outbox \union kept.results
       /\ ledger' = IF a \in kept.outbox
                    THEN [kept EXCEPT !.outbox = @ \ {a}, !.results = @ \union {a}]
                    ELSE kept
       /\ UNCHANGED <<disk, proc, got, expired, consumedAs>>

(* Reading a result deletes the expired results only.                       *)
ReadResult(p, gone) ==
    /\ ServesGoverned(p)
    /\ ledger.version = 5
    /\ ledger' = [ledger EXCEPT !.results = @ \ gone]
    /\ UNCHANGED <<disk, proc, got, expired, consumedAs>>

(* The process stops or crashes; open transactions have rolled back.       *)
Stop(p) ==
    /\ proc[p].pc # "down"
    /\ GivesUp(p)
    /\ UNCHANGED <<disk, ledger, expired, consumedAs>>

ProcessStep(p) ==
    \/ \E m \in ServiceModes : StartUp(p, m)
    \/ \E f \in Policies : LoadPolicy(p, f)
    \/ LookForLedger(p)
    \/ CreateLedger(p)
    \/ OpenLedger(p)
    \/ \E gone \in SUBSET expired :
          \/ \E a \in Approvals : Consume(p, a, gone) \/ CompleteRecord(p, a, gone)
          \/ ClaimRecord(p, gone)
          \/ ReadResult(p, gone)
    \/ Stop(p)

SchemaNext ==
    \/ \E p \in Processes : ProcessStep(p)
    \/ \E f \in Policies : \E g \in Generations[f] : ReplacePolicy(f, g)
    \/ \E a \in Approvals : Expire(a)

SchemaSpec == SchemaInit /\ [][SchemaNext]_schemaVars

---------------------------------------------------------------------------
(* Properties. *)

SchemaTypeOK ==
    /\ disk \in [Policies -> Nat]
    /\ ledger \in Ledgers \union {Absent}
    /\ proc \in [Processes ->
                   [pc : {"down", "load", "look", "create", "open", "serving"},
                    mode : ServiceModes]]
    /\ got \in [Processes -> [Policies -> Nat]]
    /\ expired \subseteq Approvals

(* Rows that leave the outbox without a result, and results that go.       *)
Lost == (ledger.outbox \ (ledger'.outbox \union ledger'.results))
            \union (ledger.results \ ledger'.results)

RecordsKept ==
    ledger # Absent =>
        /\ ledger' # Absent
        /\ ledger.consumed \subseteq ledger'.consumed
        /\ ledger.paired \subseteq ledger'.paired
        /\ Lost \subseteq expired
        /\ Lost # {} => /\ \E p \in Processes : ServesGoverned(p)
                        /\ UNCHANGED proc

(* Whatever the order in which old and new services open the ledger, none
   of its consumptions and pairings is ever lost and the file is never found
   absent again.  A queued record leaves the outbox for its result or because
   its retention deadline has passed, a result only because of the deadline,
   and never while a service opens the file: _initialize_schema migrates in
   place and drops only an empty outbox; the deletions by deadline are those
   of a governed service's enqueueing, claim, complete and result.         *)
RecordsSurvive == [][RecordsKept]_schemaVars

(* A governed service that serves always has the complete version 5 schema
   under it, also when legacy services come up on the same path after it:
   no opening takes a ledger back.                                         *)
GovernedOnCurrent ==
    \A p \in Processes :
        proc[p].pc = "serving" /\ Governed(proc[p].mode) =>
            ledger # Absent /\ ValidSchema(ledger, 5)

(* In a version 5 ledger every queued record and every result has the
   pairing that keeps its statement from being used again: rows of the
   earlier versions, which had none, never cross the migration.            *)
CurrentRecordsPaired ==
    ledger # Absent /\ ledger.version = 5 =>
        /\ ledger.outbox \union ledger.results \subseteq ledger.paired
        /\ ledger.paired \subseteq ledger.consumed

(* The ledger is created, migrated or written only by a process whose own
   policies name one identity and, when governed, one set of kinds, even
   though the owner replaces files between its reads ("Any mismatch fails
   before the ledger file is created or opened").                          *)
UntouchedUntilAgreed ==
    [][ledger' # ledger =>
         \E p \in Processes :
            /\ proc[p].pc \in {"create", "open", "serving"}
            /\ IdentityAgrees(got[p])
            /\ Governed(proc[p].mode) => KindsAgree(got[p])
            /\ \A f \in FilesOf(proc[p].mode) : got[p][f] # 0]_schemaVars

(* memory/SCHEMA.md: "Only governed ledgers migrate to schema v3. Legacy
   consumption remains schema v1."                                         *)
LegacyStaysV1 ==
    \A a \in Approvals :
        consumedAs[a] # <<>> /\ ~Governed(consumedAs[a][1]) =>
            consumedAs[a][2] = 1

(* Services find the schema they were written for, whoever migrated the
   file in between.                                                        *)
SchemaIsSound == GovernedOnCurrent /\ CurrentRecordsPaired

=============================================================================
