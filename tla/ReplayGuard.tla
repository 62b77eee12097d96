------------------------------ MODULE ReplayGuard ------------------------------
(***************************************************************************)
(* What every durable replay ledger of the Guardian node promises, whatever*)
(* its tables look like.  Items (hints, ballots, approvals) may be used    *)
(* until LastUse[i]; two items in Conflict may not both be used while the  *)
(* first one is still usable, and no item is ever used twice.  The ledger  *)
(* serialises its users on a time mark that never moves back.              *)
(*                                                                         *)
(* ThreatHintLedger and BallotLedger keep rows and throw them away; that   *)
(* they still implement this specification is the reason why pruning a     *)
(* replay table is safe.                                                   *)
(***************************************************************************)
EXTENDS Integers

CONSTANTS
    Items,            \* what can be used at most once
    LastUse,          \* [Items -> Nat]: the last moment an item is acceptable
    ConflictPairs     \* pairs of items that share a unique key

VARIABLES
    mark,             \* the largest time the ledger has committed
    used              \* every item ever accepted

guardVars == <<mark, used>>

Init ==
    /\ mark = 0
    /\ used = {}

\* Time may be recorded without an acceptance (a prune transaction).
Advance ==
    /\ mark' \in Nat
    /\ mark' >= mark
    /\ UNCHANGED used

\* Accept i at the new mark: not expired, never used, no live item in conflict.
Use(i) ==
    /\ mark' \in Nat
    /\ mark' >= mark
    /\ mark' <= LastUse[i]
    /\ i \notin used
    /\ \A j \in used : <<i, j>> \in ConflictPairs => LastUse[j] < mark'
    /\ used' = used \cup {i}

Next == Advance \/ \E i \in Items : Use(i)

Spec == Init /\ [][Next]_guardVars
================================================================================
