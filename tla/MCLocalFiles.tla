----------------------------- MODULE MCLocalFiles -----------------------------
(* What the programs do with files of the host: reading an owner's file,       *)
(* scanning a model directory, publishing a file, the one-shot boundary and    *)
(* the two-host record.  The five share no state, so a behaviour follows one   *)
(* of them while the others rest in one of their initial states.               *)
EXTENDS OwnerFile, ModelProvenance, PublishedFile, TwoHostEvidence, TLC

CONSTANTS
    RootDir, Dir, F1, F2, NoEntry, A, B    \* the model directory

VARIABLE part    \* the component this behaviour follows

(* Every reader has a limit of one block. *)
MCLimit == [p \in {"governance", "retention", "promotion", "consumption", "membership_source",
                   "membership_policy", "preflight", "service", "verified_preflight",
                   "executable", "v1_executable", "challenge", "payload",
                   "attestation", "artifact", "model"} |-> 1]

(* A root with two names and one directory below it, two files, each placed in *)
(* either, hard links included.                                                *)
MCDirectories == {Dir}
MCFiles == {F1, F2}
MCNames == {A, B}
MCNameRank == A :> 1 @@ B :> 2
MCChunks == {"old", "new"}
MCTreesValue ==
    {[d \in {RootDir, Dir} |->
        IF d = RootDir THEN A :> x @@ B :> y ELSE A :> z @@ B :> NoEntry] :
       x \in {Dir, F1}, y \in {F1, F2, Dir, NoEntry}, z \in {F2, NoEntry}}
MCTrees == {t \in MCTreesValue : Cardinality({n \in MCNames : t[RootDir][n] = Dir}) <= 1}

(* One observation and others that differ in one field; one is too early.      *)
MCObservations ==
    LET base == [commit |-> "m", payload |-> "p", day |-> 1] IN
    {base, [base EXCEPT !.commit = "n"], [base EXCEPT !.payload = "q"],
     [base EXCEPT !.day = 2], [base EXCEPT !.day = 0]}

-----------------------------------------------------------------------------
(* A component at rest: one of its initial states. *)

FileRests ==
    /\ FileInit
    /\ parent = "private" /\ profile = ModelFile /\ inodes[1].mode = "private"
    /\ inodes[1].content = <<CHOOSE b \in Blocks : TRUE>>

ProvenanceRests ==
    /\ ProvenanceInit
    /\ entries = (CHOOSE t \in Trees : TRUE)

PublishRests ==
    /\ PublishInit
    /\ dir[Out] = NoFile
    /\ \A w \in Writers : writer[w].way = PredictionsWriter

BoundaryRests ==
    /\ BoundaryInit
    /\ \A b \in Boundaries : boundary[b].status = "busy"

RecordRests ==
    /\ RecordInit
    /\ artifact = [r \in Roles |-> CHOOSE a \in Artifacts : TRUE]

TwoHostRests == BoundaryRests /\ RecordRests

FilesInit ==
    \/ part = "read" /\ FileInit
       /\ ProvenanceRests /\ PublishRests /\ TwoHostRests
    \/ part = "scan" /\ ProvenanceInit
       /\ FileRests /\ PublishRests /\ TwoHostRests
    \/ part = "publish" /\ PublishInit
       /\ FileRests /\ ProvenanceRests /\ TwoHostRests
    \/ part = "boundary" /\ BoundaryInit
       /\ FileRests /\ ProvenanceRests /\ PublishRests /\ RecordRests
    \/ part = "record" /\ RecordInit
       /\ FileRests /\ ProvenanceRests /\ PublishRests /\ BoundaryRests

FilesNext ==
    \/ part = "read" /\ FileNext
       /\ UNCHANGED <<part, provenanceVars, publishVars, twoHostVars>>
    \/ part = "scan" /\ ProvenanceNext
       /\ UNCHANGED <<part, fileVars, publishVars, twoHostVars>>
    \/ part = "publish" /\ PublishNext
       /\ UNCHANGED <<part, fileVars, provenanceVars, twoHostVars>>
    \/ part = "boundary" /\ BoundaryNext
       /\ UNCHANGED <<part, fileVars, provenanceVars, publishVars, recordVars>>
    \/ part = "record" /\ RecordNext
       /\ UNCHANGED <<part, fileVars, provenanceVars, publishVars, boundaryVars>>

filesVars == <<part, fileVars, provenanceVars, publishVars, twoHostVars>>

FilesSpec == FilesInit /\ [][FilesNext]_filesVars

FilesSymmetry == Permutations(Blocks) \union Permutations(Writers)
=============================================================================
