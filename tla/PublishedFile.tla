----------------------------- MODULE PublishedFile -----------------------------
(***************************************************************************)
(* How the tools publish a new file: write_model_provenance,               *)
(* write_predictions_atomically, the two-host evidence record, the         *)
(* boundary's receipt and the challenge files.                             *)
(*                                                                         *)
(* All of them create, write, fsync and never overwrite; they differ in    *)
(* whether they go through a temporary name and a hard link, compare the   *)
(* published inode with their own, and fsync the directory.  Writers race  *)
(* for one path, any call may fail, the owner may remove or create the     *)
(* path, and the machine may lose power.  Each writer makes one inode,     *)
(* which has the writer's name; so has its temporary entry.                *)
(***************************************************************************)
EXTENDS Integers, FiniteSets

CONSTANTS
    Writers,          \* the processes that publish
    Mine,             \* the owner's own file at the path
    NoFile,           \* a name with no entry
    Length,           \* chunks of a complete file
    MaxOwnerSteps     \* bound: the owner's changes of the path

ASSUME PublishAssumption ==
    /\ Length \in Nat \ {0}
    /\ MaxOwnerSteps \in Nat
    /\ Mine \notin Writers /\ NoFile \notin Writers \union {Mine}
    /\ "out" \notin Writers

Out == "out"
Entries == {Out} \union Writers
FileIds == Writers \union {Mine}

(* A way to publish: through a temporary entry, after looking for the path,
   knowing its inode, with an fsync of the directory that must succeed, is
   tried, or is not made.                                                  *)
Way(temp, looks, identity, sync) ==
    [temp |-> temp, looks |-> looks, identity |-> identity, sync |-> sync]

ModelProvenanceWriter == Way(TRUE, FALSE, FALSE, "try")
PredictionsWriter == Way(TRUE, TRUE, FALSE, "try")
EvidenceRecordWriter == Way(TRUE, TRUE, TRUE, "must")
BoundaryReceiptWriter == Way(TRUE, TRUE, TRUE, "no")
EvidenceChallengeWriter == Way(FALSE, TRUE, TRUE, "no")
AttestationChallengeWriter == Way(FALSE, TRUE, TRUE, "no")

Ways == {ModelProvenanceWriter, PredictionsWriter, EvidenceRecordWriter,
         BoundaryReceiptWriter, EvidenceChallengeWriter, AttestationChallengeWriter}

VARIABLES
    dir,        \* [Entries -> inode]: the directory as processes see it
    dirDisk,    \* the directory as it is on disk
    length,     \* [Writers -> 0..Length]: chunks in the inode
    synced,     \* [Writers -> 0..Length]: of which on disk
    writer,     \* [Writers -> where the process is, and its way]
    published,  \* writers whose link was made
    removed,    \* history: inodes the owner removed from the path
    swept,      \* history: inodes another writer's clean-up removed from it
    late,       \* history: writers whose inode left the path between their own
                \* last look at it and their unlink
    leftover,   \* history: writers whose own unlink failed
    powerLost,  \* history: the power has failed
    ownerSteps  \* how often the owner changed the path

publishVars == <<dir, dirDisk, length, synced, writer, published,
                 removed, swept, late, leftover, powerLost, ownerSteps>>

(* What only the owner and the power supply change.                        *)
aroundVars == <<removed, powerLost, ownerSteps>>
contentVars == <<length, synced>>
raceVars == <<swept, late>>

PublishInit ==
    /\ dir \in {[n \in Entries |-> NoFile],
                [n \in Entries |-> IF n = Out THEN Mine ELSE NoFile]}
    /\ dirDisk = dir
    /\ length = [w \in Writers |-> 0]
    /\ synced = [w \in Writers |-> 0]
    /\ writer \in [Writers -> [pc : {"look"}, way : Ways]]
    /\ published = {}
    /\ removed = {}
    /\ swept = {}
    /\ late = {}
    /\ leftover = {}
    /\ powerLost = FALSE
    /\ ownerSteps = 0

At(w, pc) == writer[w].pc = pc
Goes(w, pc) == writer' = [writer EXCEPT ![w].pc = pc]
Running(w) == writer[w].pc \notin {"ok", "failed", "dead"}
PathOf(w) == IF writer[w].way.temp THEN w ELSE Out

(* st_nlink of a writer's inode.                                           *)
Links(w) == Cardinality({n \in Entries : dir[n] = w})

---------------------------------------------------------------------------
(* The writer. *)

LookForPath(w) ==
    /\ At(w, "look")
    /\ Goes(w, IF writer[w].way.looks /\ dir[Out] # NoFile THEN "failed" ELSE "create")
    /\ UNCHANGED <<dir, dirDisk, contentVars, published, leftover, raceVars, aroundVars>>

(* O_CREAT with O_EXCL, or mkstemp, which makes a name of its own.         *)
CreateFile(w) ==
    /\ At(w, "create")
    /\ IF dir[PathOf(w)] # NoFile
       THEN Goes(w, "failed") /\ dir' = dir
       ELSE /\ dir' = [dir EXCEPT ![PathOf(w)] = w]
            /\ Goes(w, "identify")
    /\ UNCHANGED <<dirDisk, contentVars, published, leftover, raceVars, aroundVars>>

(* fchmod and fstat: from here the writer can tell its inode from another. *)
Identify(w) ==
    /\ At(w, "identify")
    /\ Goes(w, "write")
    /\ UNCHANGED <<dir, dirDisk, contentVars, published, leftover, raceVars, aroundVars>>

WriteChunk(w) ==
    /\ At(w, "write")
    /\ length[w] < Length
    /\ length' = [length EXCEPT ![w] = @ + 1]
    /\ UNCHANGED <<dir, dirDisk, synced, writer, published, leftover, raceVars, aroundVars>>

\* Mutant: the file is published without an fsync.
SyncFileNever(w) ==
    /\ At(w, "write")
    /\ length[w] = Length
    /\ Goes(w, IF writer[w].way.temp THEN "link" ELSE "ok")
    /\ UNCHANGED <<dir, dirDisk, contentVars, published, leftover, raceVars, aroundVars>>

SyncFile(w) ==
    /\ At(w, "write")
    /\ length[w] = Length
    /\ synced' = [synced EXCEPT ![w] = length[w]]
    /\ Goes(w, IF writer[w].way.temp THEN "link" ELSE "ok")
    /\ UNCHANGED <<dir, dirDisk, length, published, leftover, raceVars, aroundVars>>

(* link(2) refuses a path that exists.                                     *)
LinkFile(w) ==
    /\ At(w, "link")
    /\ IF dir[Out] # NoFile
       THEN Goes(w, "cleanup") /\ UNCHANGED <<dir, published>>
       ELSE /\ dir' = [dir EXCEPT ![Out] = w]
            /\ published' = published \union {w}
            /\ Goes(w, IF writer[w].way.identity THEN "compare" ELSE "unlink")
    /\ UNCHANGED <<dirDisk, contentVars, leftover, raceVars, aroundVars>>

(* The path is looked at again and must lead to the inode just written.    *)
ComparePublished(w) ==
    /\ At(w, "compare")
    /\ Goes(w, IF dir[Out] = w THEN "unlink" ELSE "cleanup")
    /\ UNCHANGED <<dir, dirDisk, contentVars, published, leftover, raceVars, aroundVars>>

UnlinkTemporary(w) ==
    /\ At(w, "unlink")
    /\ dir' = [dir EXCEPT ![w] = NoFile]
    /\ Goes(w, IF writer[w].way.identity THEN "alone" ELSE "sync")
    /\ UNCHANGED <<dirDisk, contentVars, published, leftover, raceVars, aroundVars>>

(* An lstat of the path: one link, whichever inode it now is.              *)
CheckAlone(w) ==
    /\ At(w, "alone")
    /\ Goes(w, IF dir[Out] \in Writers => Links(dir[Out]) = 1
               THEN IF dir[Out] = NoFile THEN "cleanup" ELSE "sync"
               ELSE "cleanup")
    /\ UNCHANGED <<dir, dirDisk, contentVars, published, leftover, raceVars, aroundVars>>

(* fsync of the directory, where the writer makes one; the best-effort one
   may fail unnoticed.                                                     *)
SyncDirectory(w) ==
    /\ At(w, "sync")
    /\ \/ writer[w].way.sync # "no" /\ dirDisk' = dir
       \/ writer[w].way.sync # "must" /\ dirDisk' = dirDisk
    /\ Goes(w, "ok")
    /\ UNCHANGED <<dir, contentVars, published, leftover, raceVars, aroundVars>>

(* Any call may raise.  One that fails before the inode is known leaves no
   way to clean up; the best-effort unlink of a writer without identities
   has already published.                                                  *)
FailsTo(w) ==
    CASE At(w, "create") -> "failed"
      [] At(w, "identify") /\ writer[w].way.identity -> "failed"
      [] At(w, "unlink") /\ ~writer[w].way.identity -> "sync"
      [] OTHER -> "cleanup"

CallFails(w) ==
    /\ writer[w].pc \in {"create", "identify", "write", "link", "compare",
                         "unlink", "alone", "sync"}
    /\ At(w, "sync") => writer[w].way.sync = "must"
    /\ Goes(w, FailsTo(w))
    /\ leftover' = IF ~At(w, "create") /\ FailsTo(w) # "cleanup"
                   THEN leftover \union {w} ELSE leftover
    /\ UNCHANGED <<dir, dirDisk, contentVars, published, raceVars, aroundVars>>

(* The finally clause: the published entry goes and then the temporary one, *)
(* each after an lstat has shown the writer's own inode.  Only the path can *)
(* change between the two calls; the temporary name is the writer's own.    *)
MayRemove(w) == w \in published \/ ~writer[w].way.temp

\* Mutant: the path is unlinked without a look at what is there now.
OwnsPathUnseen(w) == MayRemove(w)

OwnsPath(w) == MayRemove(w) /\ dir[Out] = w

LookBeforeUnlink(w) ==
    /\ At(w, "cleanup")
    /\ \/ Goes(w, IF OwnsPath(w) THEN "remove" ELSE "tidy") /\ leftover' = leftover
       \/ MayRemove(w) /\ Goes(w, "tidy") /\ leftover' = leftover \union {w}
    /\ UNCHANGED <<dir, dirDisk, contentVars, published, raceVars, aroundVars>>

(* Writers that have looked at the path and will now unlink what is there,  *)
(* when it stops being theirs through a step of someone else.               *)
Overtaken(v) == {w \in Writers \ {v} : At(w, "remove") /\ dir[Out] = w}

(* unlink(2) takes the entry, whatever it leads to by now.                  *)
RemovePath(w) ==
    /\ At(w, "remove")
    /\ \/ /\ dir' = [dir EXCEPT ![Out] = NoFile]
          /\ swept' = swept \union ({dir[Out]} \ {w, NoFile})
          /\ late' = late \union Overtaken(w)
          /\ leftover' = leftover
       \/ leftover' = leftover \union {w} /\ UNCHANGED <<dir, raceVars>>
    /\ Goes(w, "tidy")
    /\ UNCHANGED <<dirDisk, contentVars, published, aroundVars>>

RemoveTemporary(w) ==
    /\ At(w, "tidy")
    /\ \/ dir' = [dir EXCEPT ![w] = NoFile] /\ leftover' = leftover
       \/ dir[w] = w /\ dir' = dir /\ leftover' = leftover \union {w}
    /\ Goes(w, "failed")
    /\ UNCHANGED <<dirDisk, contentVars, published, raceVars, aroundVars>>

---------------------------------------------------------------------------
(* The owner, the kernel and the power supply. *)

ChangePath ==
    /\ ownerSteps < MaxOwnerSteps
    /\ ownerSteps' = ownerSteps + 1
    /\ IF dir[Out] = NoFile
       THEN dir' = [dir EXCEPT ![Out] = Mine] /\ UNCHANGED <<removed, late>>
       ELSE /\ dir' = [dir EXCEPT ![Out] = NoFile]
            /\ removed' = removed \union {dir[Out]}
            /\ late' = late \union Overtaken(NoFile)
    /\ UNCHANGED <<dirDisk, contentVars, writer, published, leftover, swept, powerLost>>

WriteBack(n) ==
    /\ dirDisk[n] # dir[n]
    /\ dirDisk' = [dirDisk EXCEPT ![n] = dir[n]]
    /\ UNCHANGED <<dir, contentVars, writer, published, leftover, raceVars, aroundVars>>

Kill(w) ==
    /\ Running(w)
    /\ Goes(w, "dead")
    /\ UNCHANGED <<dir, dirDisk, contentVars, published, leftover, raceVars, aroundVars>>

(* Each entry is on disk as it was or as it is, data that was not fsynced
   may be gone, and no process runs on.                                    *)
PowerLoss ==
    /\ \E lost \in SUBSET {n \in Entries : dirDisk[n] # dir[n]} :
           dir' = [n \in Entries |-> IF n \in lost THEN dirDisk[n] ELSE dir[n]]
    /\ dirDisk' = dir'
    /\ length' = [w \in Writers |-> synced[w]]
    /\ powerLost' = TRUE
    /\ writer' = [w \in Writers |->
                    IF Running(w) THEN [writer[w] EXCEPT !.pc = "dead"] ELSE writer[w]]
    /\ UNCHANGED <<synced, published, removed, raceVars, leftover, ownerSteps>>

WriterStep(w) ==
    \/ LookForPath(w) \/ CreateFile(w) \/ Identify(w) \/ WriteChunk(w)
    \/ SyncFile(w) \/ LinkFile(w) \/ ComparePublished(w) \/ UnlinkTemporary(w)
    \/ CheckAlone(w) \/ SyncDirectory(w) \/ CallFails(w)
    \/ LookBeforeUnlink(w) \/ RemovePath(w) \/ RemoveTemporary(w)

PublishNext ==
    \/ \E w \in Writers : WriterStep(w) \/ Kill(w)
    \/ ChangePath
    \/ \E n \in Entries : WriteBack(n)
    \/ PowerLoss

PublishSpec == PublishInit /\ [][PublishNext]_publishVars

---------------------------------------------------------------------------
(* Properties. *)

(* What is at the path is complete whenever it came through a link: no
   reader, and no restart after a power failure, finds a part of it ("no
   partial output remains").                                               *)
PublishedIsComplete ==
    \A w \in Writers :
        dir[Out] = w /\ writer[w].way.temp => length[w] = Length

(* No writer replaces what is at the path, and a writer that fails removes
   only the inode it made itself, unless that inode left the path between the
   writer's lstat and its unlink: then the unlink takes whatever came there. *)
NeverReplaced ==
    [][\A w \in Writers :
         WriterStep(w) /\ dir[Out] # NoFile /\ dir'[Out] # dir[Out] =>
             dir'[Out] = NoFile /\ (dir[Out] = w \/ w \in late)]_publishVars

(* A writer that reported success has its content on disk and, while the
   power is on, at the path; the record, whose directory fsync must succeed,
   is there after a power failure too.  That ends when the owner removes the
   file or another writer's late unlink does, and no unlink is late unless
   the owner has removed a file.                                           *)
SuccessIsThere ==
    /\ \A w \in Writers :
         At(w, "ok") /\ w \notin removed \union swept =>
            /\ synced[w] = Length
            /\ ~powerLost => dir[Out] = w
            /\ writer[w].way.sync = "must" => dir[Out] = w /\ dirDisk[Out] = w
    /\ swept # {} => removed # {}

(* False of this code, and not checked: no writer ever removes another's
   file.  The owner takes a failing writer's file away between its lstat and
   its unlink, a second writer publishes, and the unlink takes that.       *)
NothingSwept == swept = {}

(* While the power is on, a writer that has ended, was not killed and could
   unlink, leaves no temporary entry, and one that failed leaves nothing at the path.        *)
NothingLeftBehind ==
    \A w \in Writers :
        (At(w, "ok") \/ At(w, "failed")) /\ w \notin leftover /\ ~powerLost =>
            /\ dir[w] = NoFile
            /\ At(w, "failed") => dir[Out] # w

(* Published whole, kept once reported, and nothing else left behind, for
   every way of publishing.                                                *)
PublishedIsDurable == PublishedIsComplete /\ SuccessIsThere /\ NothingLeftBehind

=============================================================================
