# Prometheus, in TLA+

This directory models the stateful core of Prometheus, an open protocol project
for decentralised threat intelligence on Kaspa, and checks it: TLC explores small
instances of the models completely, and TLAPS proves the central invariants for
every value of the constants. The reference is the code under `src/`; each
definition names the lines it stands for in the `map` of `PROJECT.json`.

The most important behaviour of the repository is in the Guardian node
(`src/modules/guardian-node/jaeger`). It is a set of small services that admit
untrusted, authenticated items (threat hints, signed committee ballots, membership
transitions, approvals to analyse) exactly once, keep them in owner-only SQLite
files, and hand them on. Nearly every promise the docs make about them is about
*replay*: nothing is admitted twice, nothing that was admitted is lost, and pruning
old rows, restarting, racing requests or a host clock that goes back must not change
that. These are the promises this project states and checks.

## 1. Inventory

### Guardian node (Python, asyncio and SQLite)

| Part | State | Operations | What is hard |
|---|---|---|---|
| ThreatHint replay ledger (`threat_hint_ingress.py`) | `hint_admissions`, `analyzer_outbox`, `ledger_state.high_water_seconds` | `admit`, `pending_jobs`, `mark_delivered` | pruning against replay, clock rollback, an outbox row that keeps its admission alive |
| ThreatHint ingress server (`threat_hint_ingress.py`, `threat_hint_service.py`) | `_active` permits, worker tasks, open connections | connect, read, verify, admit, acknowledge, close, restart | the clock is read before two awaits; a handler times out while its worker commits; crash between commit and acknowledgement |
| Analyzer adapter (`threat_hint_adapter.py`) | the drain lock and the batch being drained | `drain_once`, `adapt_job` | cancellation inside a drain, several adapters on one file, a job that can never be delivered |
| Signed ballots (`signed_ballots.py`) and ensemble (`ensemble.py`) | `accepted_ballots`, `high_water_ms` | `accept_wire`, `prune_expired`, `evaluate` | equivocation, pruning against replay, evaluation at different times |
| Ballot ingress (`ballot_ingress.py`) | registered sessions, `_active` permits, connections with handler and worker | `establish_session`, `process`, `start`, `close`, prune | sessions live in memory, ballots on disk; the handler gives up while its worker consumes; the clock is read before the thread runs |
| Membership authority (`guardian_membership_transition.py`, `guardian_membership_source.py`) | current source, authority key and epoch, transition and rotation history, clock | `apply_transition`, `rotate_authority`, `current_source` | concurrent transitions, forked chains, retired authority keys, reopening and revalidating the file |
| Observable approvals and outbox (`observable_approval_consumption.py`, `observable_analysis_worker.py`) | consumptions, pairings, authority epochs, outbox rows with leases, results, the schema version | `consume`, `consume_governed`, `claim`, `complete`, `result`, opening and migration | leases that expire while a worker analyses, retries of a lost completion, capacity and retention, authority changes under a claim, processes of several releases on one path |
| v2 intake (`threat_hint_v2_*.py`, `relation_manifest_v2.py`, `observable_approval.py`, `threat_observable.py`) | connections, executor and socket of the server, the verifier lock, sessions, the relation manifest | transport, resolve, promote, preflight, verify, accept, consume | a thread that nobody can cancel, one time for the whole call, a lost acknowledgement, wires of several reports mixed, objects changed after they were checked |
| Owner-file readers (`outbox_retention_policy.py` and a dozen copies) | one descriptor | lstat, open, fstat, read, compare | the owner changes the path or the file between any two calls |
| Model provenance (`model_provenance.py`, `model_evidence.py`) | a stack of directory descriptors, the manifest being built | `build_manifest`, `verify_manifest` | a tree that changes while it is hashed |
| Hint analysis (`analyzer.py`, `llm_server.py`, `hybrid_router.py`, `yara_generator.py`) | the counter of generated rules, one coroutine per hint | analyse, draft, escalate, fail closed | a model server that answers anything, late or never; two hints interleaved at every await |
| YARA boundary (`yara_validation.py`, `observable_semantic_draft.py`) | the state of a one-pass scanner | scan, render, compile | where strings, regular expressions and comments end |
| Confidence evaluation (`confidence_calibration.py`, `model_evidence.py`) | counters and bins; documents on disk | capture, bind, evaluate, verify | rounding against exact limits, files edited between two reads |
| YARA semantic quality (`yara_semantic_quality.py`) | parsed corpus objects, the pinned report | parse, evaluate, verify | objects rebuilt by the caller, the source replaced between two hashes |

### The other modules

| Part | State | Operations | What is hard |
|---|---|---|---|
| Validator node (Rust) | commits, reveals, stakes | commit, reveal, tally, slash | commit/reveal windows, saturating arithmetic |
| Light client (Rust) | rule checkpoint, quarantine, sync state | sync, verify, scan, quarantine | crash between files, rollback of rules |
| Guardian P2P (Rust, libp2p) | admission counters, peers, queues | admit, relay, rate-limit | bounded queues under load |
| Genesis deployer (Rust) | one-shot journal | prepare, import, broadcast | exactly one broadcast through crashes |
| Contracts (SilverScript) | UTXO state | commit, vote, claim, slash | covenants over transactions |
| ThreatHint codec and proof (Rust) | none | canonical encoding, Groth16 | cryptography |
| Two-host evidence (`scripts/gh238_v2_execution_evidence.py`, `scripts/development_threat_hint_v1_boundary.py`) and published files | receipt, attestations, temporary and published names | receive, attest, build the record, publish | power loss between write, sync and link; a clean-up that looks and then unlinks; attestations of other challenges |
| other `scripts/`, CI, site, docs | none | release checks over fixed files | not part of the running system |

### How the parts interact

A client (or P2P bridge) connects to the ingress socket; the ingress admits a hint
to the ledger after the pinned verifier accepted its proof; the adapter drains the
ledger's outbox through the analyzer. Guardians sign ballots over the candidate the
analyzer produced; the ballot ingress accepts them for sessions established under
the membership authority's lock and the ensemble decides. Observables are released
for analysis by authorised approvals, consumed once, queued in a second outbox and
leased to workers. The v2 intake
puts such approvals into that outbox: it takes a report from its socket, checks its
wires against one another and against the owner's policy files, has its proof verified
and consumes the approval, in one call. Policies and manifests are owner files; models,
calibration and quality evidence are files too, written by one tool and read by the next.
All parts share nothing but SQLite files, other files and the host clock.

### What makes each part correct

* Replay ledgers: no two items with a common key are ever admitted, although rows
  are pruned; nothing admitted is lost before it was delivered.
* Servers: an acknowledgement is only given for what is durable; permits balance.
* Adapter and worker: only analysed jobs count as delivered, each once; every safe
  job is eventually delivered.
* Ballots: one ballot per member and session, one outcome per session, no approval
  without a strict majority of the committee.
* Authority: one unbroken chain of membership sources, each step signed by the key
  that was current, retired keys retired for ever; the file never locks its owner out.
* v2 intake: what is consumed was verified, as one report, and is accepted once; a
  server that says it stopped has stopped.
* Approval ledger: a migration keeps every record, and nothing is created or migrated
  under policies that disagree.
* Files: what a reader returns is what it checked; what a writer reports is complete and
  durable and replaced nothing; a manifest lists contents that were on disk.
* Analysis and evaluation: a submitted rule was assessed for that very hint; the scanner
  sees the tokens a compiler would see; reports agree with the cases, the corpus and the
  digests they name.

## 2. Plan

Most important first: the ledgers that everything else rests on, then the processes
that race over them, then the remaining modules.

| Step | Modules | State |
|---|---|---|
| 1 | `ReplayGuard` (abstract), `ThreatHintLedger`, its proofs | done |
| 2 | `ThreatHintIngress` and `ThreatHintAdapter`, both over `ThreatHintLedger` | done |
| 3 | `BallotLedger` over `ReplayGuard`, its proofs | done |
| 4 | `MembershipAuthority` with the sessions established over it, its proofs | done |
| 5 | `ObservableOutbox`, its proofs, `ObservableWorker` over it | done |
| 6 | `BallotProtocol` and `BallotIngress` over `BallotLedger`; `ApprovalLedgerSchema` | done |
| 7 | `ThreatHintV2Wire`, `ThreatHintV2Binding`, `ThreatHintV2Intake` over `ObservableOutbox` | done |
| 8 | `OwnerFile`, `ModelProvenance`, `PublishedFile`, `TwoHostEvidence` | done |
| 9 | `GuardianAnalysis`, `YaraScanner`, `ConfidenceMetrics`, `ConfidenceEvidence`, `SemanticQuality` | done |
| 10 | Proofs over whole components: the two socket servers and the adapter over their ledgers, the ballot protocol, the approval ledger's openings and migrations, the v2 intake and its binding, readers and writers of files, the two-host evidence | done |
| 11 | Proofs of `ModelProvenance`, `GuardianAnalysis`, `ConfidenceEvidence`, `SemanticQuality`, `ConfidenceMetrics`, and of the drafts in `YaraScanner` | done |
| 12 | An abstract one-shot work queue that `ThreatHintAdapter` and `ObservableWorker` both implement | later |
| 13 | Light client (its files follow `PublishedFile`), validator node, genesis deployer journal, P2P admission | later |

Abstract specifications: `ReplayGuard` is what the two replay ledgers promise and is
shown to be implemented by both. The work queue of step 12 is the second one worth
stating: enqueue once, lease to one, finish once.

## 3. Modules and code

Each module keeps the column and method names of the code. An operation that raises
and rolls its transaction back leaves no trace in a model unless somebody observes
the failure (an acknowledgement, a report, a semaphore slot). Wires, digests, keys
and signatures are opaque values; whether a wire is canonical, fresh, authentic or
proved is a set or a function given as a constant. In each module the operators
marked *Mutant* are altered forms of the definition that follows them; no
specification uses them, they document which error each property catches.

**`ReplayGuard`**. A guard that never forgets: `mark`, the largest committed time, and
`used`, every item ever accepted. `Use(i)` requires that `i` is not expired at the new
mark and that no used item that shares a unique key with it is still acceptable.

**`ThreatHintLedger`** (`ThreatHintReplayLedger`). `admissions` and `outbox` are the
row sets of `hint_admissions` and `analyzer_outbox`, `high_water` is `ledger_state`;
`accepted` is history. `AdmitCommit` is the whole transaction of `admit`: advance the
time, the two DELETEs in their order, the two INSERTs with the unique columns.
`MarkDelivered` keeps the first delivery time, as `COALESCE` does. Callers supply any
times in any order.

**`ThreatHintIngress`** (`ThreatHintIngressServer`, `ThreatHintIngress.process`, the
service). Per connection: the handler, its shielded worker and the thread the worker
awaits. `Receive` reads the clock; `ProofVerified` and `Admit` come after the awaits
and use that old value. `HandlerTimeout` detaches the handler. `AdmitConflict` and
`Lookup` are the two transactions of the IntegrityError path. `Stop` cancels the
workers but not a thread inside `admit`; `Crash` ends that too; `Start` may bring the
service up for another network over the same file. `Deliver` is the adapter, reduced to its
`mark_delivered`; without it no row would ever be pruned.

**`ThreatHintAdapter`** (`ThreatHintAnalyzerAdapter`). `drain_once` as `ReadBatch`, then
per job (oldest first: `PendingJobs` gives the job that i - 1 others precede as the i-th)
`AdaptFails`, `AnalysisFails`, `Analyse` (with the "clock" category in it),
`Mark` or `MarkFails`. `Cancel` ends a drain anywhere but in the marking, which
`_mark_delivered_cancellation_safe` protects. `Arrive` is the ingress, reduced to its
commits.

**`BallotLedger`** (`BallotVerifier`, `ReplayLedger`, `AuthenticatedBallotCollector`,
`EnsembleVoter`). `Consume` is `accept_wire`, `PruneExpired` and `Evaluate` are the
methods of these names; `outcomes` is the history of decisions on complete ballots.

**`MembershipAuthority`** (`GuardianMembershipAuthority`, `establish_session`). The
tables of the file, `schema` (1 before migration), the lock that `current_source`
holds between `OpenSource` and `RegisterSession` or `RegisterFails`, and the sessions
registered. Every operation is guarded by `ValidLedger`, the row checks of
`_validate_ledger`, and by `LockFree`, the BEGIN IMMEDIATE.

**`ObservableOutbox`** (`_ObservableApprovalLedger`, `ObservableApprovalOutbox`).
`ConsumeDurable` is `consume_governed` with the outbox: authority snapshot, time,
replay, cleanup, capacity, row and pairing are one transaction. `Claim` cleans up and
leases the oldest eligible row; the n-th claim's token is n. `Complete` and
`RetryComplete` are the two branches of `complete`. Only consumption holds its time
against the high-water mark, so the other operations run at any times.

**`ObservableWorker`** (`ObservableAnalysisWorker`). Callers with the time they
read, the semaphore, the analyzer with its timeout, and the host clock.

**`ApprovalLedgerSchema`** (`_ObservableApprovalLedger` before its first operation,
`ThreatHintV2AcceptanceService`). A service reads up to five policy files one after the
other (`LoadPolicy`), compares them, looks for the ledger file, creates it or opens it;
opening validates, migrates or refuses in one transaction. A table is its column shape
and the approvals that have a row in it. Processes of the legacy, governed and durable
modes come up in any order while `ReplacePolicy` changes the owner's files. `Consume`,
`ClaimRecord`, `CompleteRecord` and `ReadResult` are what runs on the file afterwards, each
with its DELETEs of rows and results past their deadline (`Retained`); which of the expired
ones go depends on the time the caller brings, so any may (`gone`). Ledgers found
at the start (`OlderLedgers`) satisfy `RowsAreSound`: a table that is not there has no rows,
and a version 5 file is one this release wrote.

**`BallotIngress`** (`BallotIngressServer`, `BallotIngress.process`,
`submit_to_ingress`). Handlers and shielded workers as in `ThreatHintIngress`, but the
lookup after a conflict (`ContainsWire`) is in the same thread as `consume`, and
`Prune` may come between the two. A frame of a bad size keeps its permit until the refusal
is written (`WriteRefusal`).

**`BallotProtocol`** (`ensemble.py` and `signed_ballots.py`, field by field). A candidate
commits to a rule, a snapshot to a committee, a session to both, an envelope to a vote.
The carrier alters any field of an envelope, a faulty guardian signs anything, the caller
mixes objects of two sessions (`established` holds what `CreateSession` returned);
`VerifyEnvelope` and `EvaluateVotes` are the code's checks in their order. A digest is its domain and what was hashed.

**`ThreatHintV2Wire`** holds the wires of a v2 report and one operator per reader
(`ParsesTransport`, `VerifiesApproval`, `Preflights`, `BindingIntact` ...). A wire is a value
and the spelling it came in, so "canonical" is a real condition. **`ThreatHintV2Binding`**
runs one report through the readers, with a binding whose objects change between two
reads. **`ThreatHintV2Intake`** is the server: the tasks `close` cancels, at the opening of
their connection too, where the permit is not yet in the care of a `finally` (`leaked` counts
those); the executor's threads it cannot cancel; `start`, which may be called as soon as
`close` has forgotten the executor; and `process` gate by gate (`ParseTransport`, `Resolve`, `ReadClock`,
`Promote`, `VerifiedPreflight`, `AcquireVerifier`, `InvokeVerifier`, then `ConsumeAccepted`,
`ConsumeRefused` or `LedgerBusy`), each gate one step, because each touches one shared
thing: sessions, clock, manifest file, lock or ledger.

**`OwnerFile`**. The readers are copies of one procedure that differ in what they ask;
`Profile` records the differences (parent check, times compared, limits, executables).
The evidence tools ask only that the parent is a real directory, except for the artifact's,
which must not be writable by others (`Evidence`). One reader runs against an owner who renames, links, cuts, grows and rewrites.

**`ModelProvenance`**. The recursive scan as a stack of open directories; the fstat with
which a directory is opened and compared and the one with which its listing begins
(`BeginDirectory`) are two calls, as in the code. A file is two
chunks that are read one after the other; every change of an inode moves the stamp
that stands for the compared metadata.

**`PublishedFile`**. The ways to publish, which differ in temporary name, link, inode
comparison and directory sync. Each system call that touches the path is a step and may
fail; in the clean-up the lstat (`LookBeforeUnlink`) and the unlink (`RemovePath`) are two, and
`late` and `swept` record when something came in between. For the temporary name, which no
other process uses, the two calls are one step. `WriteBack` and `PowerLoss` decide what of
unsynced contents and names survives.

**`TwoHostEvidence`**. Two operator tools that share no state. The v1 boundary
(`ValidateTargets` to `UnlinkSocket`): several processes started on the same socket and
receipt paths, a client whose connection may break, an operator who removes the socket or
takes the receipt away; it answers "rejected" or "busy" and nothing else. `Bind` is bind, chmod
and the lstat that notes the identity. The v2 evidence (`CreateChallenge` to `BuildRecord`): each
host's `attest` reads challenge and executable in two steps while both are replaced,
and the record is built from any two attestation files. `attest` knows nothing of the
delivery it attests and trusts its operator, so no property says that the payload
arrived; `build-record` does not recompute the digests, so nothing is said of
attestation files edited by hand.

**`GuardianAnalysis`**. One coroutine per hint: route to the small tier, escalate to the
large one, fail closed. `Answered` is the model server or a foreign tier, which returns
anything, raises, or never does either. The rule counter is shared.

**`YaraScanner`**. `ScanStep` is one iteration of the scanner's loop over symbols; the
reference reads the same document from the items it was put together from (words,
strings, regular expressions, hex strings, comments, also inside hex strings), so the two
share no code. For documents with a comment inside a hex string the two differ:
`ScanReadsGrammar` leaves them out and `ScanReadsHexComments`, which does not, is false, see
section 6.
The renderer of `observable_semantic_draft.py` supplies drafts, which must pass too.

**`ConfidenceMetrics`** is the loop of `evaluate_confidence` and the report in integers,
with the code's half-up rounding and exact gate products. **`ConfidenceEvidence`** is
capture and evaluation over documents on disk that are edited between any two reads.
**`SemanticQuality`** parses recipes, lets a caller rebuild what was parsed, evaluates and
compares with the pinned report.

MC modules give the constants values. Five of them put components
that share no state into one specification: a variable `part`, chosen initially, says
which of them a behaviour follows while the others rest in an initial state. This is
one exploration of each component after the other, and not their product; where
components do share state, the modules themselves are composed (`ThreatHintIngress`,
`ThreatHintAdapter`, `BallotIngress`, `ObservableWorker` and `ThreatHintV2Intake` extend the
ledger they work on).

## 4. Runs

| Run | What it shows | Instance |
|---|---|---|
| `hint_ingress` | acknowledgements are durable and "accepted" is said once, jobs carry their proof's network and are not lost, permits balance, and the ledger implements `ReplayGuard` under all of it | 2 connections, 2 hints of one threat, the second observed when the first is about to expire, 2 networks, times 1..3 with age 1, a clock that may step back: prunes, blocked replays and re-admissions after expiry happen |
| `adapter` | only analysed jobs leave the outbox; safe jobs leave it when the batch limit exceeds the poison jobs | 2 adapters, one of them called again and again, 2 hints, 2 networks, limit 2, times 1..3, a clock that may step back |
| `adapter_starvation` | finding 1 | 1 adapter, limit 1 |
| `signed_ballots` | one ballot per member and nonce and one outcome per session; an accepted envelope is what its member signed for that session; a decision is earned by the votes of its session | ledger: committee of 5 (the code's minimum), 8 ballots with an equivocation, a shared nonce, a retry and a forgery; protocol: 3 members, one faulty, 2 contents, 2 networks, up to 3 alterations, or all decisions over 4 ballots |
| `ballot_ingress` | permits balance, what a client was told is in the ledger, a ballot that was ever accepted is refused only when its session or window is over, although prunes, other ballots and refused times race with its retransmission | 3 connections on 2 permits, two of them sending 2 contradicting ballots of one member, the third frames that do not parse or cannot be answered, times 1..3, a clock that may step back, crashes |
| `ledger_files` | the membership file always validates, retired keys stay retired, sessions follow the chain; the approval file keeps its records through migrations, until their retention deadline, and is untouched until policies agree | 3 keys, 5 sources, 8 transitions (a fork, a skip, a stale signer, a repeated nonce), 5 rotations, new and legacy files; 2 processes of any mode, 2 approvals, ledgers of versions 1 to 5 with and without rows, 2 generations of three of the policies |
| `observable_outbox` | last lease wins, no approval lost, nothing analysed under two approvals, epochs follow time | 5 approvals (one repeats a bundle, one a nonce), 3 epochs, capacity 1 and 2, retention 2 and 3, 3 claims, 2 results, times 1..4 |
| `observable_worker` | every record is completed within its retention although an analysis may fail; a submitted result was assessed for its hint, and a hint whose own calls return ends | 2 callers, 2 slots, 2 approvals, lease 2, timeout 1, times 1..4, one failure; 2 hints, both tiers, confidences around both thresholds, malformed, foreign and missing answers |
| `worker_late` | finding 2 | the same with 1 slot |
| `hint_v2` | what is consumed was verified as one report, accepted once, and close leaves no task, call or socket behind; no mixture of wires and no change of a bound object is read as a report | 2 connections, 5 reports (one repeats a bundle under a new approval, one is of a kind that is not promoted, one of the next epoch, one with a proof that does not verify), times 2 and 3 with an approval that ends at 2 and one that begins at 3, 2 manifests, a session that opens and ends, 2 starts; all reports of 2 nonces, 6 bundle, 6 envelope and 5 approval wires (respelled, reordered, of another network, digest, key or window) |
| `local_files` | what is returned was checked, a manifest lists contents that were on disk, what was published is durable and replaced nothing, an answer has its receipt, a record is of one challenge | all 16 reader profiles with 2 owner changes; trees of 2 directories and 2 files with 2 edits; 2 writers of each way, of one chunk that is written or not, and 1 owner step; 2 boundary processes and 2 payloads; 2 challenges, 2 artifacts, 5 observations, 1 redeployment and 2 attestations |
| `rule_evaluation` | the scanner agrees with the grammar, the report with the cases, the evidence with its corpus, the quality report with its recipes | all documents of up to 3 items, comments inside hex strings among them, and all drafts of 2 observables; all corpora of 4 to 5 cases with confidences 0, 7, 8, 10 of 10; 2 cases and 2 edits; 2 recipes of 2 segments |

**Bounds.** `MaxTime` and `MaxClock` bound the clocks, `MaxClaims` the leases, `MaxFailures`
the failed analyses, `FirstTime` and `MaxStarts` the first time and the starts of a server, `MaxRedeploys` and `MaxAttestations` what operators do,
`MaxChanges`, `MaxTreeEdits`, `MaxOwnerSteps` and `MaxEdits` what an owner does to files,
`MaxSessions`, `MaxRequests` and `MaxAlterations` (with `CarriageBound` and
`DecisionBound` of `MCSignedBallots`) what guardians and carrier do. Every hazard needs at
most two racing actors, three keys in conflict, a clock that passes one expiry and one
retention, or two changes by an owner (one to get past a check and one to undo it); the
instances are the smallest in which those cases occur, and each property has an altered
definition (the `mutants` of `PROJECT.json`) that breaks it within the same bounds. Times
are small integers because the code only compares and adds them, and Python's integers do
not overflow; the 64-bit limits the code itself checks are `U64Max` and `LifetimeMax`.

**Deadlock** is checked in every run but `local_files` and `hint_v2`. Services can always
take a step (a retry, a refused request, a cleanup). A reader or writer that is done, and
a report that does not bind, have none.

**Fairness.**
* Adapter: the adapters in `Running` are called again and again (weak fairness of
  `ReadBatch`), and for each job adapting, analysing and marking succeed if they are tried
  for ever (strong fairness): the v1 analysis is a deterministic function of the job that
  calls neither model nor YARA, and another connection's lock on the file is held for
  one transaction only. Cancellations, restarts and failures may still happen
  any number of times in between. An adapter refuses to mark a job before the time it
  was admitted at, so progress is claimed for hosts whose clock is not behind that time.
* Worker: the clock runs, every caller calls again, a free slot is taken by some
  waiting call (`asyncio.Semaphore` wakes its waiters in order), and an analysis
  returns or is superseded unless it fails, `wait_for` bounding it. Failures are
  bounded by `MaxFailures` and only happen while the bounded clock can still reach the
  end of the lease they leave behind; retention exceeds the clock's bound.
* Hint analysis: none is assumed. The router awaits its tiers without a timeout, and the
  sixty seconds of the model client are for each network operation, so a call need not
  end. `AnsweredHintsEnd` says instead that a hint ends if its own calls return
  (`CallsReturn`, the hypothesis of the property), whatever happens to those of others.

The socket servers state no fairness: a peer may stay silent for ever, and what their
timeouts end is checked as safety.

Symmetry is used for connections, processes, result wires, file contents, texts and
writers in runs that check invariants and action properties only.

## 5. Proofs

TLAPS proves the following for every value of the constants that satisfies the
`ASSUME` of the module: any number of connections, hints, ballots, approvals, guardians,
adapters, writers, files, changes and restarts. TLC evaluates the assumptions in every
run. They say what the constants are: times and limits are naturals, functions have
their domains, committees and the sets of connections are finite (`IsFiniteSet(Conns)`: the
servers count them), there is a hint at all, digests and ranks are distinct, a wire has
its fields (`BindingAssumption`), ledgers found at the start have no rows in tables they lack
(`RowsAreSound`), and no writer is named like the path it publishes to. Limits that the code
has as positive literals are positive (bins, the size of a bin, the least number of cases,
the least precision, the length of a rule's name), raw segments are records of a kind, integers and a count
(`QualityAssumption`), and values of observables are sequences of symbols. Each invariant
marked *Inv* below was an invariant of a TLC run before it was proved.

* **`ThreatHintLedgerProofs`**. `LedgerInv` = types, `ForgottenIsExpired`,
  `RowsConsistent`, `NoJobLost` and "only accepted hints have a delivery time". None of
  these is inductive alone: that a pruned hint was delivered needs outbox and
  admissions to be the same set, and that a new admission conflicts with no forgotten
  one needs forgotten hints to be expired at the high-water time. `PruneLemma` says
  what the two DELETEs leave. From it `ReplaySafe`, the refinement of `ReplayGuard`
  (with `used` mapped to the history and `mark` to `high_water`): initial states map to
  initial states, an admission maps to `Use`, a delivery to a stutter.
* **`ThreatHintServiceProofs`**. *Server* over that ledger: `IngressInv` adds to
  `LedgerInv`, per connection, which steps hold a permit and that a hint that is being
  admitted parses and was proved for the network of the thread that admits it; this is what
  carries `JobNetworkProved` across a restart for another network. `AckIsDurable` needs
  the history of the ledger and not its rows, since a row may be pruned between the
  commit and the reply; `AcceptedSaidOnce` needs both the acknowledged hints and the replies
  under way to lie in that history. `PermitCount` and `BalanceStep` are the counting lemmas:
  one connection changes, the number of permits changes by what it took or gave back.
  The server's steps use the ledger's lemmas at any time, not only at the ledger's own
  times, so `NoJobLost` and the refinement of `ReplayGuard` hold of the server too.
  *Adapter*: `PendingJobsOldest` is about the operator alone: for every
  outbox and limit the batch is the longest prefix of the jobs in their order, and every
  job older than a member is before it. `PipelineInv` says that the jobs of a batch were
  admitted and that a job being marked was analysed, with a delivery time that is not
  before its admission: hence `DeliveredWasAnalysed`, with other adapters, cancellations
  and restarts in between, and `NoJobLost` of the whole pipeline.
* **`BallotProofs`**, in three parts.
  *Ledger*: `BallotInv` adds that pruned ballots belong to sessions that are over at the
  high-water time, that accepted ballots were verified, and that each outcome is what the
  ensemble says of a complete set of accepted ballots. `OutcomeStable` follows because two
  complete sets, one ballot per member each, drawn from a history with one ballot per
  member are the same set; `ApprovalBacked` is a counting argument on finite sets.
  *Socket*: `SocketInv` pairs each handler with its worker (`PairOK`): a handler waits for a
  worker of its own frame, or has none, unless it gave up and left one behind.
  `BooksAreKept` counts both. `RetransmissionIsKnown` is an action property on top: a ballot
  that was accepted and whose session is not over by the ledger's time has not been pruned
  (`BallotInv`), so neither a refused time nor a conflict leads to "rejected".
  *Protocol*: `ProtocolInv` says of what is under way that its signature was made by
  somebody, of signatures under honest keys that the guardian asked for just that digest
  (`HonestSigned`), and of verified votes that they are on their context's candidate. The
  carrier may alter any field any number of times; the lemmas `Replaced` to `AlteredInv` are
  one per kind of alteration. `BallotsAreGenuine` follows since a digest determines its
  fields; `DecisionIsEarned` also needs that as many distinct votes as members means a vote of
  every member (`EverybodyVotes`, the pigeonhole principle) and that the confidence of the
  decision is the least one (`LeastOf`).
* **`LedgerFileProofs`**. *Membership authority*: `AuthorityInv` adds `SchemaShape` (what
  legacy and migrated files look like) and `WithinCurrent` (no row lies beyond the current
  epochs). The latter is what makes the replay check and the chain agree: a new
  transition's epoch is larger than all recorded ones, so it can continue only the end.
  `LedgerValidates` needs the cardinalities of rotation and key history to move together.
  *Approval ledger*: `SchemaInv` says that a process past its files holds policies that
  agree, and that governed processes serve only the current version of a file whose rows
  are sound. `MigrationKeepsRows` follows the four migrations in their order: a table is
  dropped only when it is empty, so what leaves a table leaves it in `Consume`, `ClaimRecord`,
  `CompleteRecord` or `ReadResult` of a governed service, and was expired or completed. From it `SchemaIsSound`, and the action properties
  `RecordsSurvive` and `UntouchedUntilAgreed`.
* **`ObservableOutboxProofs`**. `OutboxInv` adds that a row's lease is the last claim
  issued for its record (`LeaseIsLast`), that completed records have left the outbox
  and every claim is of a paired approval (`RowsNamed`), the unique columns
  (`KeysUnique`), and that the pinned authority and the high-water time bound all
  consumptions (`AuthorityBounds`). `LastLeaseWins` and `LeasesDisjoint` rest on
  `LeaseIsLast`; `AnalysedUnderOneApproval` rests on pairings that are never deleted;
  `EpochsFollowTime` on `AuthorityBounds`.
* **`ThreatHintV2Proofs`**. `IntakeInv` has `OutboxInv` as the ledger's part; `GateOK` says what
  the gates passed so far have established for the time the call has read, so that what
  reaches `ConsumeAccepted` was verified as one report (`ConsumedWasVerified`), and
  `AcceptsKept` that "accepted" is said by the call that paired the approval (`AcceptedOnce`).
  `IntakeIsOrderly` needs the exact count of permits, `active` = tasks + `leaked`, and that
  `close` returns only when no thread of the executor it took still runs; it makes no
  assumption on when `start` is called. That a start finds no call of an earlier one, and
  that all permits come back, is false, see below. `BindingInv` is the snapshot taken at the binding; `ReportIsOne` further needs
  that a list of observables that ascends in rank is determined by its set, which is an
  induction over data, done as the least index at which two such lists differ.
* **`LocalFileProofs`**. *Readers*: `FileInv` says that while the times of the file looked at
  are those first seen its content is what was first seen, that until it is edited in
  place it only grew, and that what was read begins what is there. So a reader that
  compares times, or whose file was not edited in place, returns what it checked
  (`ReturnedIsChecked`). *Writers*: `PublishInv` says of every writer what its entries, in
  memory and on disk, may hold (`ContentOK`) and what each step has established
  (`StageOK`): a power failure may choose between an entry as it was and as it is, so both
  must be whole; and that a writer about to unlink the path either finds its own inode there
  or is in `late`, which is what `NeverReplaced` allows. `SuccessIsThere` needs that something is
  swept only after the owner removed a file. *Two hosts*: `HostInv` ties each connection to the
  process that accepted it and that process to the receipt it linked, so that an answer
  is of a receipt that was at the path; and says of every attestation, under way or written,
  that its digest is over its own fields and its executable was there since its challenge.
  *Model provenance*: `ProvenanceInv` says that the open directories are nested frames, each
  of an inode entered through the one below; that what a frame has found so far is what the
  directory holds as long as its times are those of the listing; and that the blocks hashed
  so far are those of a content the file had as long as its times are those of the open. The
  comparisons at the end of a file and of a directory then turn "as long as" into
  "is" (`ManifestIsSound`, `ListedAtOneInstant`). That the whole manifest was the tree at one
  instant does not follow and is false, see `ManifestWasTree` in the next section.
* **`AnalysisProofs`**, in five parts that share no state.
  *Routed analysis*: `AnalysisInv` says of each coroutine what its await has in hand, that
  numbers given out are not above the counter of their generator, and that a confident 8B
  assessment is the answer in the very step in which it was given (`Kept`): the router has
  no await between the two, which is why no other hint can come in between. From it
  `AnswersAreSound`; `AnalysisOnlyAdvances` is the measure behind `AnsweredHintsEnd`.
  *Evaluation documents*: `EvidenceInv` says that a captured document, in its file or read,
  holds only answers the model gave for the corpus it names, whatever the owner replaced
  since (`EvidenceFits`).
  *Semantic quality*: `QualityInv` says of every stage which payload belongs to which
  segment; the lemmas on `ParseSegment`, `CanonicalSegment` and `RevalidateSegment` show that
  canonical bytes parse back to what they came from, so that a digest that holds fixes the
  cases (`QualityIsBound`), and one of an untouched corpus holds (`ParsedIsEvaluated`).
  *Metrics*: `MetricsInv` says that after each case every counter is the count, or the sum, of
  the cases before it. `ReportIsConsistent` then needs facts on sums over arbitrary finite
  sets: a sum splits over the bins, the triangle inequality, and Cauchy's inequality for
  the bound of the gap by the squared error.
  *Drafts*: `DraftInv` labels a rendered draft with places (`Arrow` is the automaton of the
  rendering, `Leads` a labelling) and says that the scanner's state is a function of its
  place. `PathsJoin` puts labellings together, so every bundle leads from the head of
  a rule to its end (`DraftPath`), whatever its length; `SeenMoves` is one step of the scanner at
  each place. Hence `DraftPassesScan`, the part of `ScanIsRight` that is about drafts.

Induction over data is done where it is needed as a descent to the least counterexample
(`WFMin` on the naturals, `LeastNumber`): the recursive functions behind `SumFunctionOnSet` and
`FlattenSeq` are shown to exist and to satisfy their equations in this way, and lists that
ascend in rank to be determined by their sets.

`ForgottenIsExpired`, `RowsConsistent`, `DeliveryIsFinal`, `ApprovalBacked`, `OneChain`,
`KeysNeverReused`, `HistoryGrows`, `LeasesDisjoint`, `LeaseWithinRetention`,
`UnanalysedIsPending`, the type invariants and the refinement of `ReplayGuard` by the ballot
ledger are proved here for all constants and are not repeated in the runs; each can be
added to the configuration of the run over its module.

Only model-checked:
* `SafeJobsNotStarved`, `WorkCompletes` and `AnsweredHintsEnd`: liveness under fairness, with ENABLED, is
  outside of what this prover handles.
* `ScanReadsGrammar`, the other part of `ScanIsRight`: the scanner against the grammar, for
  documents put together from the items that `MCRuleEvaluation` gives. It is a statement about
  those items: with items that are not what they claim to be it is false, and a proof
  would first have to characterise every lexeme of YARA the items stand for.
* The two properties that a run refutes, and those of the next section's table.

## 6. Where code and documents differ

Two of these have a run that TLC ends with a counterexample.

1. `adapter_starvation`. `docs/guardian-guide.md:107` says that a poison job stays pending
   without starving later safe jobs. That holds within one batch. Across batches, as
   many undeliverable jobs as `batch_limit` are read again and again and nothing
   younger ever is.
2. `worker_late`. `memory/API.md:877` says that `complete` requires the unexpired lease.
   The worker passes the time its caller read before it claimed, so the check cannot
   fail for expiry. `LastLeaseWins` still holds, since the token is compared as well:
   a result is stored late only if nobody has taken the record over.

The following are stated as properties too. Added to the configuration named, each gives
a counterexample.

| Property, configuration | Code | What it is held against |
|---|---|---|
| `RollbackIsRollback`, `MCThreatHintIngress` with `ClockMayStepBack = FALSE` | `threat_hint_ingress.py`: a hint whose verification was overtaken by a later commit | the error text "clock rollback detected"; the clock never went back. The hint is refused, not lost: a retry reads the clock again |
| `RollbackWasRollback`, `MCBallotIngress` with `ClockMayStepBack = FALSE` | `ballot_ingress.py:361` reads the time before the thread that consumes, `signed_ballots.py:424` refuses | the same for ballots |
| `SameIdentityWindowsDisjoint`, `MCObservableOutbox` | `observable_approval_consumption.py:754` compares the preceding epoch only | `WHITEPAPER.md:833`, same-identity authority windows must not overlap: with another key's epoch in between, the first key returns with an overlapping window |
| `StartedAfterStopped`, `MCThreatHintV2` | `threat_hint_v2_ingress.py:355` forgets the executor before its threads have ended | the check at line 312, "still stopping", passes although calls of the earlier start still run |
| `PermitsComeBack`, `MCThreatHintV2` | `threat_hint_v2_ingress.py:418-424`: a task cancelled while it opens its connection, or before its first step, is not yet in the `try` whose `finally` lowers `_active` | the bounded connections of line 387: a server that is stopped and started again counts a connection that is gone |
| `NothingSwept`, `MCLocalFiles` | `gh238_v2_execution_evidence.py:696-698`, also `:211-217` and `development_threat_hint_v1_boundary.py:200-202`: lstat, then unlink | the comparison of inodes just before: the owner removes a failing writer's file between the two calls, a second writer publishes, and the unlink takes that file |
| `ScanReadsHexComments`, `MCRuleEvaluation` | `yara_validation.py:143` ends a hex string at the first closing brace, also of a comment in it | the docstring of `validate_candidate_rule_source`, which promises False for multi-rule sources: for the scanner the comment's rest stands in the body, where a quote may hide what follows. Whether such a source is accepted in the end depends on the compiler, which is external |
| `RejectedAsReplay`, `MCThreatHintV2` with reports r1, r2 and nonces n1, n2 | `observable_approval_consumption.py:836`: a report overtaken by another's later commit is rejected for its time | `guardian-node/README.md:685`, local unavailability maps to `busy` |
| `LegacyStaysV1`, `MCLedgerFiles` | `observable_approval_consumption.py:595`: the legacy service consumes on the schema it finds | `memory/SCHEMA.md:793`, legacy consumption remains schema v1 |
| `ManifestWasTree`, `MCLocalFiles` | `model_provenance.py:449`: a file is compared right after it is hashed, not at the end | `model_provenance.py:21`, any mid-scan mutation fails closed: a file hashed early is changed while a later one is hashed |

## 7. Not modelled

* Byte formats, canonical JSON, hashing, BIP340 and Groth16: a wire has a value and a
  spelling, a digest is what was hashed, a signature names its key and its digest, and a
  proof is valid or not. The YARA-X compiler and the model runtime are environments that
  answer anything. Sizes in bytes are left out except where a limit decides.
* The command lines, JSON layouts and remote shells around the two-host evidence.
* Validator node: commit, reveal and slashing keep their state in the memory of one process
  behind `&mut self`, and nothing in the repository interleaves them.
* Light client, genesis deployer and P2P sidecar: see the plan. The sidecar needs a model
  of libp2p's swarm and streams before its bounded queues say anything.
* Contracts: what a covenant enforces across transactions is defined by the SilverScript
  compiler and Kaspa's consensus, which are not part of the repository.
* The other scripts, CI, site and documents check fixed files and are not part of the
  running system.
