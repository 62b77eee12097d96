-------------------------------- MODULE OwnerFile --------------------------------
(***************************************************************************)
(* Reading an owner-controlled file while its owner goes on changing it.   *)
(* Every policy, configuration, membership source and verifier executable  *)
(* is read by a copy of one procedure: look at the parent, lstat, open     *)
(* without following links, fstat, read up to a limit, compare the length. *)
(* The copies differ in what they ask, which is what a Profile records.    *)
(*                                                                         *)
(* Readers do not disturb each other, so one reader of any profile runs    *)
(* against the owner.  A content is a sequence of blocks, and one read     *)
(* returns some of the blocks that follow.  Inode numbers are not reused   *)
(* while a read is under way.                                              *)
(***************************************************************************)
EXTENDS Naturals, Sequences, FiniteSets

CONSTANTS
    Blocks,          \* contents of a block
    Limit,           \* [Profiles -> largest size read]
    MaxSize,         \* bound: size the owner lets a file grow to
    MaxInodes,       \* bound: files the owner creates
    MaxChanges,      \* bound: changes the owner makes to files
    None, Link

ASSUME OwnerFileAssumption ==
    /\ \A p \in DOMAIN Limit : Limit[p] \in Nat \ {0}
    /\ MaxSize \in Nat
    /\ MaxInodes \in Nat \ {0}
    /\ MaxChanges \in Nat

\* Modes a file is given; "shared" is one that no reader accepts.
Modes == {"private", "executable"}
ParentModes == {"private", "readable", "shared"}

VARIABLES
    parent,          \* mode of the parent directory: "private", "readable", "shared"
    name,            \* what the path names: None, Link or an inode
    inodes,          \* sequence of files: content, mode, stamp (times), edited (in place)
    profile,         \* which reader runs
    pc, fd, before, buf,
    checked          \* history: content at lstat

ownerVars == <<parent, name, inodes>>
readerVars == <<profile, pc, fd, before, buf, checked>>
fileVars == <<ownerVars, readerVars>>

-----------------------------------------------------------------------------
(* The readers *)

\* A policy: private file in a private directory, both stats asked the same.
Policy(limit) ==
    [limit |-> limit, least |-> 1, parents |-> {"private"}, modes |-> {"private"},
     looks |-> TRUE, rechecks |-> TRUE, after |-> FALSE, stamped |-> FALSE, exact |-> FALSE]

\* The file is looked at once more when it has been read.
Guarded(p) == [p EXCEPT !.after = TRUE]

\* The opened file need only be regular, and the one that was looked at.
Lenient(p) == [p EXCEPT !.rechecks = FALSE]

\* No lstat: the descriptor is looked at before and after, times included.
\* require_real_parent asks nothing of the parent's mode or owner.
Evidence(p, parents) ==
    [p EXCEPT !.looks = FALSE, !.after = TRUE, !.stamped = TRUE, !.exact = TRUE,
              !.parents = parents]

\* A program: nobody else may write it or the directories above it.
Program(limit) ==
    [Lenient(Policy(limit)) EXCEPT !.parents = {"private", "readable"}, !.modes = {"executable"}]

GovernancePolicyFile == Policy(Limit["governance"])
RetentionPolicyFile == Policy(Limit["retention"])
PromotionPolicyFile == Policy(Limit["promotion"])
ConsumptionPolicyFile == Policy(Limit["consumption"])
MembershipSourceFile == Policy(Limit["membership_source"])
MembershipPolicyFile == Policy(Limit["membership_policy"])
PreflightPolicyFile == Guarded(Policy(Limit["preflight"]))
ServiceConfigFile == Guarded(Policy(Limit["service"]))
VerifiedPreflightFile == Lenient(Policy(Limit["verified_preflight"]))
VerifierExecutable == Program(Limit["executable"])
V1VerifierExecutable == [Program(Limit["v1_executable"]) EXCEPT !.exact = TRUE]
EvidenceChallengeFile == Evidence(Policy(Limit["challenge"]), ParentModes)
EvidencePayloadFile == Evidence(Policy(Limit["payload"]), ParentModes)
EvidenceAttestationFile == Evidence(Policy(Limit["attestation"]), ParentModes)
EvidenceArtifact == Evidence(Program(Limit["artifact"]), {"private", "readable"})

\* _scan_regular_file: an entry of a model directory.
ModelFile ==
    [Guarded(Policy(Limit["model"])) EXCEPT
        !.least = 0, !.modes = {"private", "executable"}, !.parents = {"private", "readable"},
        !.stamped = TRUE, !.exact = TRUE]

ReaderProfiles ==
    {GovernancePolicyFile, RetentionPolicyFile, PromotionPolicyFile, ConsumptionPolicyFile,
     MembershipSourceFile, MembershipPolicyFile, PreflightPolicyFile, ServiceConfigFile,
     VerifiedPreflightFile, VerifierExecutable, V1VerifierExecutable, EvidenceChallengeFile,
     EvidencePayloadFile, EvidenceAttestationFile, EvidenceArtifact, ModelFile}

-----------------------------------------------------------------------------

Size(i) == Len(inodes[i].content)

\* _is_safe_policy_file of an inode.
SafeFile(i) ==
    inodes[i].mode \in profile.modes /\ Size(i) \in profile.least .. profile.limit

StatOf(i) == [ino |-> i, size |-> Size(i), stamp |-> inodes[i].stamp]

\* Device, inode and size are what they were; mode and times too, where compared.
SameFile(i) ==
    /\ i = before.ino /\ Size(i) = before.size
    /\ profile.stamped => inodes[i].stamp = before.stamp

\* The reading loops end one block past this.
Cap == IF profile.exact THEN before.size ELSE profile.limit

FileInit ==
    /\ parent \in ParentModes
    /\ name = 1
    /\ \E b \in Blocks, m \in Modes :
           inodes = <<[content |-> <<b>>, mode |-> m, stamp |-> 0, edited |-> FALSE]>>
    /\ profile \in ReaderProfiles
    /\ pc = "parent"
    /\ fd = 0
    /\ before = [ino |-> 0, size |-> 0, stamp |-> 0]
    /\ buf = <<>>
    /\ checked = <<>>

Step(from, to, safe) ==
    /\ pc = from
    /\ pc' = IF safe THEN to ELSE "failed"
    /\ UNCHANGED <<ownerVars, profile>>

\* path.parent.resolve, parent.stat.
LookAtParent ==
    /\ Step("parent", IF profile.looks THEN "lstat" ELSE "open", parent \in profile.parents)
    /\ UNCHANGED <<fd, before, buf, checked>>

\* path.lstat and the checks on it.
LookAtFile ==
    /\ name \in 1 .. Len(inodes)
    /\ Step("lstat", "open", SafeFile(name))
    /\ before' = StatOf(name)
    /\ checked' = inodes[name].content
    /\ UNCHANGED <<fd, buf>>

\* os.open with O_NOFOLLOW.
OpenFile ==
    /\ name \in 1 .. Len(inodes)
    /\ Step("open", "fstat", TRUE)
    /\ fd' = name
    /\ UNCHANGED <<before, buf, checked>>

\* A missing file or a link at the path.
PathFails ==
    /\ name \in {None, Link}
    /\ \/ Step("lstat", "failed", TRUE)
       \/ Step("open", "failed", TRUE)
    /\ UNCHANGED <<fd, before, buf, checked>>

\* Mutant: the opened file is looked at by itself.
StatUnlinked ==
    /\ profile.looks
    /\ Step("fstat", "read", profile.rechecks => SafeFile(fd))
    /\ UNCHANGED <<fd, before, buf, checked>>

\* os.fstat of the descriptor.
StatDescriptor ==
    /\ profile.looks
    /\ Step("fstat", "read", SameFile(fd) /\ (profile.rechecks => SafeFile(fd)))
    /\ UNCHANGED <<fd, before, buf, checked>>

\* The same where there was no lstat: what is seen now is what is compared later.
StatFirst ==
    /\ ~ profile.looks
    /\ Step("fstat", "read", SafeFile(fd))
    /\ before' = StatOf(fd)
    /\ checked' = inodes[fd].content
    /\ UNCHANGED <<fd, buf>>

Rest(i) == SubSeq(inodes[i].content, Len(buf) + 1, Size(i))

\* One os.read of at most what remains of the cap and one more.
ReadSome(n) ==
    /\ Step("read", "read", TRUE)
    /\ n \in 1 .. Len(Rest(fd))
    /\ Len(buf) + n <= Cap + 1
    /\ buf' = buf \o SubSeq(Rest(fd), 1, n)
    /\ UNCHANGED <<fd, before, checked>>

\* End of file, or nothing remains of the limit; the descriptor is looked at again.
ReadEnds ==
    /\ Step("read", "compare", /\ Len(buf) <= Cap
                               /\ profile.after => SameFile(fd) /\ SafeFile(fd))
    /\ Len(Rest(fd)) = 0 \/ Len(buf) = Cap + 1
    /\ UNCHANGED <<fd, before, buf, checked>>

\* The length read is the length lstat saw.
Return ==
    /\ Step("compare", "returned", Len(buf) = before.size)
    /\ UNCHANGED <<fd, before, buf, checked>>

-----------------------------------------------------------------------------
(* The owner *)

\* Another file is put at the path, as rename does.
Swap(content, mode) ==
    /\ Len(inodes) < MaxInodes
    /\ inodes' = Append(inodes, [content |-> content, mode |-> mode, stamp |-> 0, edited |-> FALSE])
    /\ name' = Len(inodes')
    /\ UNCHANGED <<parent, readerVars>>

PlantLinkOrRemove ==
    /\ name' \in {None, Link}
    /\ UNCHANGED <<parent, inodes, readerVars>>

Grow(i, b) ==
    /\ Size(i) < MaxSize /\ ~ inodes[i].edited
    /\ inodes' = [inodes EXCEPT ![i].content = Append(@, b), ![i].stamp = @ + 1]
    /\ UNCHANGED <<parent, name, readerVars>>

\* The file is cut, or a block of it is written over.
Cut(i) ==
    /\ Size(i) > 0 /\ ~ inodes[i].edited
    /\ inodes' = [inodes EXCEPT ![i].content = SubSeq(@, 1, Len(@) - 1),
                                ![i].stamp = @ + 1, ![i].edited = TRUE]
    /\ UNCHANGED <<parent, name, readerVars>>

Overwrite(i, j, b) ==
    /\ ~ inodes[i].edited
    /\ inodes' = [inodes EXCEPT ![i].content[j] = b, ![i].stamp = @ + 1,
                                ![i].edited = TRUE]
    /\ UNCHANGED <<parent, name, readerVars>>

\* The file is opened to others; a file made private again is a Swap.
Chmod(i) ==
    /\ inodes[i].mode # "shared"
    /\ inodes' = [inodes EXCEPT ![i].mode = "shared", ![i].stamp = @ + 1]
    /\ UNCHANGED <<parent, name, readerVars>>

ChangesMade ==
    Cardinality({c \in (1 .. Len(inodes)) \X (1 .. MaxChanges) : c[2] <= inodes[c[1]].stamp})

\* The owner is followed until the read ends, and a file until its first edit:
\* nothing is claimed of what is read from it afterwards.
OwnerStep ==
    /\ pc \notin {"returned", "failed"}
    /\ \/ \E b \in Blocks, m \in Modes : Swap(<<b>>, m)
       \/ PlantLinkOrRemove
       \/ /\ ChangesMade < MaxChanges
          /\ \E i \in 1 .. Len(inodes) :
                 \/ Cut(i)
                 \/ \E b \in Blocks :
                        Grow(i, b) \/ \E j \in 1 .. Size(i) : Overwrite(i, j, b)
                 \/ Chmod(i)

ReaderStep ==
    \/ LookAtParent \/ LookAtFile \/ OpenFile \/ PathFails \/ StatDescriptor \/ StatFirst
    \/ (\E n \in 1 .. MaxSize : ReadSome(n))
    \/ ReadEnds \/ Return

FileNext == OwnerStep \/ ReaderStep

FileSpec == FileInit /\ [][FileNext]_fileVars

-----------------------------------------------------------------------------
(* Properties *)

\* outbox_retention_policy.py: "Short reads, growth, swaps, symlinks ... all fail
\* closed".  What a reader returns is what it first looked at and checked.  Only a
\* file cut or written over in place escapes, which the project's status names as
\* its residual assumption, and that not from readers that compare times:
\* "reject concurrent mutation".  Nothing past the limit is returned.
ReturnedIsChecked ==
    pc = "returned" =>
        /\ fd = before.ino
        /\ buf = checked \/ (inodes[fd].edited /\ ~ profile.stamped)
        /\ Len(buf) \in profile.least .. profile.limit

=============================================================================
