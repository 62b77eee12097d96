--------------------------- MODULE LocalFileProofs ---------------------------
(***************************************************************************)
(* Theorems about what the programs do with files of the host: reading an  *)
(* owner's file (OwnerFile), building the manifest of a model directory    *)
(* (ModelProvenance), publishing a new file (PublishedFile) and the        *)
(* two-host evidence (TwoHostEvidence).  The four share no state; each     *)
(* part has an inductive invariant of its own.                             *)
(***************************************************************************)
EXTENDS OwnerFile, ModelProvenance, PublishedFile, TwoHostEvidence, FiniteSetTheorems,
        WellFoundedInduction, TLAPS

-----------------------------------------------------------------------------
(* Reading an owner's file. *)

FileRecords ==
    [content : Seq(Blocks), mode : {"private", "executable", "shared"}, stamp : Nat, edited : BOOLEAN]

\* One sequence begins another.
Begins(s, t) == Len(s) <= Len(t) /\ \A k \in 1 .. Len(s) : s[k] = t[k]

FileTypeOK ==
    /\ inodes \in Seq(FileRecords)
    /\ name \in {None, Link} \/ name \in 1 .. Len(inodes)
    /\ profile \in ReaderProfiles
    /\ pc \in {"parent", "lstat", "open", "fstat", "read", "compare", "returned", "failed"}
    /\ buf \in Seq(Blocks) /\ checked \in Seq(Blocks)
    /\ fd \in Nat
    /\ before \in [ino : Nat, size : Nat, stamp : Nat]

\* The file has been looked at.
Looked ==
    \/ pc \in {"read", "compare", "returned"}
    \/ profile.looks /\ pc \in {"open", "fstat"}

\* While its times are those first seen, the file is what was first seen; until it is
\* edited in place, it only grew.
LookedOK ==
    /\ before.ino \in 1 .. Len(inodes)
    /\ before.size = Len(checked) /\ before.size \in profile.least .. profile.limit
    /\ before.stamp <= inodes[before.ino].stamp
    /\ inodes[before.ino].stamp = before.stamp => inodes[before.ino].content = checked
    /\ ~ inodes[before.ino].edited => Begins(checked, inodes[before.ino].content)

\* What was read comes from the file that was looked at.
ReadOK ==
    /\ pc \in {"parent", "lstat", "open", "fstat"} => buf = <<>>
    /\ pc = "fstat" => fd \in 1 .. Len(inodes)
    /\ pc \in {"read", "compare", "returned"} =>
         /\ fd = before.ino
         /\ inodes[fd].stamp = before.stamp \/ ~ inodes[fd].edited
              => Begins(buf, inodes[fd].content)
    /\ pc \in {"compare", "returned"} /\ profile.stamped => Begins(buf, checked)
    /\ pc = "returned" => Len(buf) = before.size

\* The inductive invariant.
FileInv == FileTypeOK /\ (Looked => LookedOK) /\ ReadOK

\* A reader that compares times looks at the file once more at the end.
LEMMA StampedLooksAfter ==
  ASSUME NEW p \in ReaderProfiles
  PROVE  p.stamped => p.after
<1>1. ASSUME NEW l
      PROVE  ~ Policy(l).stamped /\ ~ Guarded(Policy(l)).stamped /\ ~ Lenient(Policy(l)).stamped
             /\ ~ Program(l).stamped
  BY DEF Policy, Guarded, Lenient, Program
<1>2. ASSUME NEW l
      PROVE  ~ [Program(l) EXCEPT !.exact = TRUE].stamped
  BY DEF Policy, Lenient, Program
<1>3. ASSUME NEW l, NEW ps
      PROVE  Evidence(Policy(l), ps).after /\ Evidence(Program(l), ps).after
  BY DEF Policy, Lenient, Program, Evidence
<1>4. ModelFile.after
  BY DEF ModelFile, Guarded, Policy
<1> QED
  BY <1>1, <1>2, <1>3, <1>4 DEF ReaderProfiles, GovernancePolicyFile, RetentionPolicyFile,
     PromotionPolicyFile, ConsumptionPolicyFile, MembershipSourceFile, MembershipPolicyFile,
     PreflightPolicyFile, ServiceConfigFile, VerifiedPreflightFile, VerifierExecutable,
     V1VerifierExecutable, EvidenceChallengeFile, EvidencePayloadFile,
     EvidenceAttestationFile, EvidenceArtifact

\* What a change of one file leaves of the readers' knowledge: its times move on, and
\* unless it is edited in place it only grows.
LEMMA EditKeeps ==
  ASSUME FileInv, NEW i \in 1 .. Len(inodes), NEW e \in FileRecords,
         inodes' = [inodes EXCEPT ![i] = e],
         e.stamp = inodes[i].stamp + 1,
         ~ e.edited => ~ inodes[i].edited /\ Begins(inodes[i].content, e.content),
         UNCHANGED <<parent, name, readerVars>>
  PROVE  FileInv'
<1>1. /\ FileTypeOK /\ ReadOK /\ (Looked => LookedOK)
      /\ inodes \in Seq(FileRecords)
  BY DEF FileInv, FileTypeOK
<1>2. /\ name' = name /\ profile' = profile /\ pc' = pc /\ fd' = fd /\ before' = before
      /\ buf' = buf /\ checked' = checked
  BY DEF readerVars
<1>3. /\ inodes' \in Seq(FileRecords) /\ Len(inodes') = Len(inodes) /\ inodes'[i] = e
      /\ \A k \in 1 .. Len(inodes) \ {i} : inodes'[k] = inodes[k]
  BY <1>1
<1>4. FileTypeOK'
  BY <1>1, <1>2, <1>3 DEF FileTypeOK
<1>5. \A k \in 1 .. Len(inodes) : inodes[k] \in FileRecords
  BY <1>1
<1>6. ASSUME NEW k \in 1 .. Len(inodes)
      PROVE  \/ inodes'[k] = inodes[k]
             \/ /\ inodes'[k].stamp = inodes[k].stamp + 1 /\ inodes[k].stamp \in Nat
                /\ ~ inodes'[k].edited => ~ inodes[k].edited /\ Begins(inodes[k].content, inodes'[k].content)
  BY <1>3, <1>5 DEF FileRecords
<1>7. ASSUME Looked'
      PROVE  LookedOK'
  <2>1. LookedOK
    BY <1>1, <1>2, <1>7 DEF Looked
  <2>2. before \in [ino : Nat, size : Nat, stamp : Nat] /\ checked \in Seq(Blocks)
    BY <1>1 DEF FileTypeOK
  <2>3. before.ino \in 1 .. Len(inodes) /\ before.stamp \in Nat
    BY <2>1, <2>2 DEF LookedOK
  <2>4. /\ inodes[before.ino].content \in Seq(Blocks) /\ inodes'[before.ino].content \in Seq(Blocks)
    BY <1>3, <1>5, <2>3 DEF FileRecords
  <2>5. CASE inodes'[before.ino] = inodes[before.ino]
    BY <1>2, <1>3, <2>1, <2>5 DEF LookedOK
  <2>6. CASE inodes'[before.ino] # inodes[before.ino]
    <3>1. /\ inodes'[before.ino].stamp = inodes[before.ino].stamp + 1
          /\ inodes[before.ino].stamp \in Nat
          /\ ~ inodes'[before.ino].edited =>
                /\ ~ inodes[before.ino].edited
                /\ Begins(inodes[before.ino].content, inodes'[before.ino].content)
      BY <1>6, <2>3, <2>6
    <3>2. ~ inodes'[before.ino].edited => Begins(checked, inodes'[before.ino].content)
      BY <2>1, <2>2, <2>4, <3>1 DEF LookedOK, Begins
    <3>3. before.stamp < inodes'[before.ino].stamp
      BY <2>1, <2>3, <3>1 DEF LookedOK
    <3> QED
      BY <1>2, <1>3, <2>1, <2>3, <3>1, <3>2, <3>3 DEF LookedOK
  <2> QED
    BY <2>5, <2>6
<1>8. ReadOK'
  <2>1. ASSUME pc \in {"read", "compare", "returned"},
               inodes'[fd].stamp = before.stamp \/ ~ inodes'[fd].edited
        PROVE  Begins(buf, inodes'[fd].content)
    <3>1. fd = before.ino /\ LookedOK /\ buf \in Seq(Blocks)
          /\ before \in [ino : Nat, size : Nat, stamp : Nat]
      BY <1>1, <2>1 DEF ReadOK, Looked, FileTypeOK
    <3>2. fd \in 1 .. Len(inodes) /\ before.stamp \in Nat /\ before.stamp <= inodes[fd].stamp
      BY <3>1 DEF LookedOK
    <3>3. inodes[fd].content \in Seq(Blocks) /\ inodes'[fd].content \in Seq(Blocks)
      BY <1>3, <1>5, <3>2 DEF FileRecords
    <3>4. CASE inodes'[fd] = inodes[fd]
      BY <1>1, <2>1, <3>4 DEF ReadOK
    <3>5. CASE inodes'[fd] # inodes[fd]
      <4>1. /\ inodes'[fd].stamp = inodes[fd].stamp + 1 /\ inodes[fd].stamp \in Nat
            /\ ~ inodes'[fd].edited => ~ inodes[fd].edited /\ Begins(inodes[fd].content, inodes'[fd].content)
        BY <1>6, <3>2, <3>5
      <4>2. ~ inodes[fd].edited /\ Begins(inodes[fd].content, inodes'[fd].content)
        BY <2>1, <3>2, <4>1
      <4>3. Begins(buf, inodes[fd].content)
        BY <1>1, <2>1, <4>2 DEF ReadOK
      <4> QED
        BY <3>1, <3>3, <4>2, <4>3 DEF Begins
    <3> QED
      BY <3>4, <3>5
  <2>2. pc = "fstat" => fd \in 1 .. Len(inodes')
    BY <1>1, <1>3 DEF ReadOK
  <2> QED
    BY <1>1, <1>2, <2>1, <2>2 DEF ReadOK, Begins
<1> QED
  BY <1>4, <1>7, <1>8 DEF FileInv

\* The owner edits a file, puts another at the path, or changes the path.
LEMMA OwnerPreserves ==
  ASSUME FileInv, OwnerStep
  PROVE  FileInv'
<1>1. /\ FileTypeOK /\ ReadOK /\ (Looked => LookedOK)
      /\ inodes \in Seq(FileRecords)
  BY DEF FileInv, FileTypeOK
<1>2. CASE PlantLinkOrRemove
  <2>1. /\ name' \in {None, Link} /\ inodes' = inodes /\ profile' = profile /\ pc' = pc /\ fd' = fd
        /\ before' = before /\ buf' = buf /\ checked' = checked
    BY <1>2 DEF PlantLinkOrRemove, readerVars
  <2> QED
    BY <1>1, <2>1 DEF FileInv, FileTypeOK, Looked, LookedOK, ReadOK
<1>3. ASSUME NEW b \in Blocks, NEW m \in Modes, Swap(<<b>>, m)
      PROVE  FileInv'
  <2> DEFINE e == [content |-> <<b>>, mode |-> m, stamp |-> 0, edited |-> FALSE]
  <2>1. /\ inodes' = Append(inodes, e) /\ name' = Len(inodes') /\ profile' = profile /\ pc' = pc
        /\ fd' = fd /\ before' = before /\ buf' = buf /\ checked' = checked
    BY <1>3 DEF Swap, readerVars
  <2>2. e \in FileRecords
    BY DEF FileRecords, Modes
  <2> HIDE DEF e
  <2>3. /\ inodes' \in Seq(FileRecords) /\ Len(inodes') = Len(inodes) + 1
        /\ \A k \in 1 .. Len(inodes) : inodes'[k] = inodes[k]
    BY <1>1, <2>1, <2>2
  <2>4. FileTypeOK'
    BY <1>1, <2>1, <2>3 DEF FileTypeOK
  <2>5. Looked' => LookedOK'
    BY <1>1, <2>1, <2>3 DEF Looked, LookedOK
  <2>6. ReadOK'
    <3>1. pc \in {"read", "compare", "returned"} => fd \in 1 .. Len(inodes)
      BY <1>1 DEF ReadOK, Looked, LookedOK
    <3> QED
      BY <1>1, <2>1, <2>3, <3>1 DEF ReadOK
  <2> QED
    BY <2>4, <2>5, <2>6 DEF FileInv
<1>4. ASSUME NEW i \in 1 .. Len(inodes), NEW b,
             \/ Cut(i) \/ Chmod(i)
             \/ b \in Blocks /\ (Grow(i, b) \/ \E j \in 1 .. Size(i) : Overwrite(i, j, b))
      PROVE  FileInv'
  <2>1. inodes[i] \in FileRecords
    BY <1>1
  <2>2. /\ inodes[i].content \in Seq(Blocks) /\ inodes[i].stamp \in Nat
        /\ inodes[i].edited \in BOOLEAN
        /\ inodes[i].mode \in {"private", "executable", "shared"}
    BY <2>1, Zenon DEF FileRecords
  <2>3. UNCHANGED <<parent, name, readerVars>>
    BY <1>4 DEF Cut, Grow, Chmod, Overwrite
  <2>4. ASSUME NEW c \in Seq(Blocks), NEW d \in Nat, NEW q \in BOOLEAN,
               NEW m \in {"private", "executable", "shared"}
        PROVE  [content |-> c, mode |-> m, stamp |-> d, edited |-> q] \in FileRecords
    BY Zenon DEF FileRecords
  <2>r. ASSUME NEW c, NEW d, NEW q
        PROVE  /\ [[inodes[i] EXCEPT !.content = c] EXCEPT !.stamp = d]
                    = [content |-> c, mode |-> inodes[i].mode, stamp |-> d, edited |-> inodes[i].edited]
               /\ [[[inodes[i] EXCEPT !.content = c] EXCEPT !.stamp = d] EXCEPT !.edited = q]
                    = [content |-> c, mode |-> inodes[i].mode, stamp |-> d, edited |-> q]
    <3> DEFINE old == inodes[i]
    <3>1. old = [content |-> old.content, mode |-> old.mode, stamp |-> old.stamp, edited |-> old.edited]
      BY <2>1 DEF FileRecords
    <3> HIDE DEF old
    <3> DEFINE f == [old EXCEPT !.content = c]
               g == [f EXCEPT !.stamp = d]
    <3>2. f = [content |-> c, mode |-> old.mode, stamp |-> old.stamp, edited |-> old.edited]
      BY <3>1
    <3> HIDE DEF f
    <3>3. /\ f = [content |-> f.content, mode |-> f.mode, stamp |-> f.stamp, edited |-> f.edited]
          /\ f.content = c /\ f.mode = old.mode /\ f.edited = old.edited
      BY <3>2
    <3>4. g = [content |-> f.content, mode |-> f.mode, stamp |-> d, edited |-> f.edited]
      BY <3>3
    <3> HIDE DEF g
    <3>5. /\ g = [content |-> g.content, mode |-> g.mode, stamp |-> g.stamp, edited |-> g.edited]
          /\ g.content = c /\ g.mode = old.mode /\ g.stamp = d /\ g.edited = old.edited
      BY <3>3, <3>4
    <3>6. [g EXCEPT !.edited = q] = [content |-> g.content, mode |-> g.mode, stamp |-> g.stamp, edited |-> q]
      BY <3>5
    <3> QED
      BY <3>5, <3>6, Zenon DEF f, g, old
  <2>5. CASE Cut(i)
    <3> DEFINE c == SubSeq(inodes[i].content, 1, Len(inodes[i].content) - 1)
               d == inodes[i].stamp + 1
               e == [content |-> c, mode |-> inodes[i].mode, stamp |-> d, edited |-> TRUE]
    <3>1. inodes' = [inodes EXCEPT ![i].content = SubSeq(@, 1, Len(@) - 1),
                                ![i].stamp = @ + 1, ![i].edited = TRUE] /\ Size(i) > 0
      BY <2>5 DEF Cut
    <3>2. inodes' = [inodes EXCEPT ![i] =
                       [[[inodes[i] EXCEPT !.content = c] EXCEPT !.stamp = d] EXCEPT !.edited = TRUE]]
      BY <1>1, <2>1, <3>1
    <3>3. c \in Seq(Blocks) /\ d \in Nat
      BY <2>2, <3>1 DEF Size
    <3> HIDE DEF c, d
    <3>r. [[[inodes[i] EXCEPT !.content = c] EXCEPT !.stamp = d] EXCEPT !.edited = TRUE] = e
      BY <2>r, Zenon
    <3>4. inodes' = [inodes EXCEPT ![i] = e]
      BY <3>2, <3>r
    <3>5. e \in FileRecords
      BY <2>2, <2>4, <3>3
    <3>6. e.stamp = d /\ e.edited
      OBVIOUS
    <3> HIDE DEF e
    <3>7. e.stamp = inodes[i].stamp + 1
      BY <3>6 DEF d
    <3> QED
      BY <2>3, <3>4, <3>5, <3>6, <3>7, EditKeeps
  <2>6. CASE b \in Blocks /\ Grow(i, b)
    <3> DEFINE c == Append(inodes[i].content, b)
               d == inodes[i].stamp + 1
               e == [content |-> c, mode |-> inodes[i].mode, stamp |-> d, edited |-> inodes[i].edited]
    <3>1. inodes' = [inodes EXCEPT ![i].content = Append(@, b), ![i].stamp = @ + 1] /\ ~ inodes[i].edited
      BY <2>6 DEF Grow
    <3>2. inodes' = [inodes EXCEPT ![i] = [[inodes[i] EXCEPT !.content = c] EXCEPT !.stamp = d]]
      BY <1>1, <2>1, <3>1
    <3>3. c \in Seq(Blocks) /\ d \in Nat /\ Begins(inodes[i].content, c)
      BY <2>2, <2>6 DEF Begins
    <3> HIDE DEF c, d
    <3>r. [[inodes[i] EXCEPT !.content = c] EXCEPT !.stamp = d] = e
      BY <2>r, Zenon
    <3>4. inodes' = [inodes EXCEPT ![i] = e]
      BY <3>2, <3>r
    <3>5. e \in FileRecords
      BY <2>2, <2>4, <3>3
    <3>6. e.stamp = d /\ e.content = c
      OBVIOUS
    <3> HIDE DEF e
    <3>7. e.stamp = inodes[i].stamp + 1
      BY <3>6 DEF d
    <3> QED
      BY <2>3, <3>1, <3>3, <3>4, <3>5, <3>6, <3>7, EditKeeps
  <2>7. ASSUME NEW j \in 1 .. Size(i), b \in Blocks, Overwrite(i, j, b)
        PROVE  FileInv'
    <3> DEFINE c == [inodes[i].content EXCEPT ![j] = b]
               d == inodes[i].stamp + 1
               e == [content |-> c, mode |-> inodes[i].mode, stamp |-> d, edited |-> TRUE]
    <3>1. inodes' = [inodes EXCEPT ![i].content[j] = b, ![i].stamp = @ + 1, ![i].edited = TRUE]
      BY <2>7 DEF Overwrite
    <3>2. inodes' = [inodes EXCEPT ![i] =
                       [[[inodes[i] EXCEPT !.content = c] EXCEPT !.stamp = d] EXCEPT !.edited = TRUE]]
      BY <1>1, <2>1, <3>1
    <3>3. c \in Seq(Blocks) /\ d \in Nat
      BY <2>2, <2>7 DEF Size
    <3> HIDE DEF c, d
    <3>r. [[[inodes[i] EXCEPT !.content = c] EXCEPT !.stamp = d] EXCEPT !.edited = TRUE] = e
      BY <2>r, Zenon
    <3>4. inodes' = [inodes EXCEPT ![i] = e]
      BY <3>2, <3>r
    <3>5. e \in FileRecords
      BY <2>2, <2>4, <3>3
    <3>6. e.stamp = d /\ e.edited
      OBVIOUS
    <3> HIDE DEF e
    <3>7. e.stamp = inodes[i].stamp + 1
      BY <3>6 DEF d
    <3> QED
      BY <2>3, <3>4, <3>5, <3>6, <3>7, EditKeeps
  <2>8. CASE Chmod(i)
    <3> DEFINE d == inodes[i].stamp + 1
               e == [inodes[i] EXCEPT !.mode = "shared"]
               f == [e EXCEPT !.stamp = d]
    <3>1. inodes' = [inodes EXCEPT ![i].mode = "shared", ![i].stamp = @ + 1]
      BY <2>8 DEF Chmod
    <3>2. inodes' = [inodes EXCEPT ![i] = f]
      BY <1>1, <2>1, <3>1
    <3>3. d \in Nat
      BY <2>2
    <3> HIDE DEF d
    <3>4. /\ e \in FileRecords /\ e.content = inodes[i].content /\ e.edited = inodes[i].edited
      BY <2>1, <2>2 DEF FileRecords
    <3> HIDE DEF e
    <3>5. /\ f \in FileRecords /\ f.content = inodes[i].content /\ f.edited = inodes[i].edited
          /\ f.stamp = d
      BY <3>3, <3>4 DEF FileRecords
    <3> HIDE DEF f
    <3>6. Begins(inodes[i].content, f.content) /\ f.stamp = inodes[i].stamp + 1
      BY <2>2, <3>5 DEF Begins, d
    <3> QED
      BY <2>3, <3>2, <3>5, <3>6, EditKeeps
  <2> QED
    BY <1>4, <2>5, <2>6, <2>7, <2>8
<1> QED
  BY <1>2, <1>3, <1>4 DEF OwnerStep

\* What a file that is looked at is known by.
LEMMA LookingKnows ==
  ASSUME FileInv, NEW i \in 1 .. Len(inodes), SafeFile(i),
         before' = StatOf(i), checked' = inodes[i].content, inodes' = inodes, profile' = profile
  PROVE  LookedOK' /\ before' \in [ino : Nat, size : Nat, stamp : Nat] /\ checked' \in Seq(Blocks)
<1>1. inodes[i] \in FileRecords
  BY DEF FileInv, FileTypeOK
<1>2. inodes[i].content \in Seq(Blocks) /\ inodes[i].stamp \in Nat
  BY <1>1 DEF FileRecords
<1>3. /\ before'.ino = i /\ before'.size = Size(i) /\ before'.stamp = inodes[i].stamp
      /\ before' \in [ino : Nat, size : Nat, stamp : Nat] /\ Size(i) = Len(checked')
  BY <1>2 DEF StatOf, Size
<1>4. Size(i) \in profile.least .. profile.limit
  BY DEF SafeFile
<1> QED
  BY <1>2, <1>3, <1>4 DEF LookedOK, Begins

\* The reader goes on, or gives up.
LEMMA ReaderPreserves ==
  ASSUME FileInv, ReaderStep
  PROVE  FileInv'
<1>1. /\ FileTypeOK /\ ReadOK /\ (Looked => LookedOK)
      /\ inodes \in Seq(FileRecords) /\ buf \in Seq(Blocks) /\ checked \in Seq(Blocks)
      /\ before \in [ino : Nat, size : Nat, stamp : Nat] /\ fd \in Nat
      /\ profile \in ReaderProfiles
  BY DEF FileInv, FileTypeOK
<1>s. \A from, to, safe : Step(from, to, safe) =>
        /\ pc = from /\ ((pc' = to /\ safe) \/ pc' = "failed")
        /\ parent' = parent /\ name' = name /\ inodes' = inodes /\ profile' = profile
  BY DEF Step, ownerVars
<1>2. CASE LookAtParent
  <2>1. /\ pc = "parent" /\ pc' \in {"lstat", "open", "failed"} /\ (pc' = "open" => ~ profile.looks)
        /\ name' = name /\ inodes' = inodes /\ profile' = profile
        /\ fd' = fd /\ before' = before /\ buf' = buf /\ checked' = checked
    BY <1>2, <1>s DEF LookAtParent
  <2> QED
    BY <1>1, <2>1 DEF FileInv, FileTypeOK, Looked, ReadOK
<1>3. CASE LookAtFile
  <2>1. /\ pc = "lstat" /\ ((pc' = "open" /\ SafeFile(name)) \/ pc' = "failed")
        /\ name' = name /\ inodes' = inodes /\ profile' = profile /\ name \in 1 .. Len(inodes)
        /\ before' = StatOf(name) /\ checked' = inodes[name].content /\ fd' = fd /\ buf' = buf
    BY <1>3, <1>s DEF LookAtFile
  <2>2. inodes[name] \in FileRecords
    BY <1>1, <2>1
  <2>3. /\ checked' \in Seq(Blocks) /\ before' \in [ino : Nat, size : Nat, stamp : Nat]
    BY <2>1, <2>2 DEF FileRecords, StatOf, Size
  <2>4. pc' = "open" => LookedOK'
    BY <2>1, LookingKnows
  <2> QED
    BY <1>1, <2>1, <2>3, <2>4 DEF FileInv, FileTypeOK, Looked, ReadOK
<1>4. CASE OpenFile
  <2>1. /\ pc = "open" /\ pc' \in {"fstat", "failed"}
        /\ name' = name /\ inodes' = inodes /\ profile' = profile /\ name \in 1 .. Len(inodes)
        /\ fd' = name /\ before' = before /\ buf' = buf /\ checked' = checked
    BY <1>4, <1>s DEF OpenFile
  <2> QED
    BY <1>1, <2>1 DEF FileInv, FileTypeOK, Looked, LookedOK, ReadOK
<1>5. CASE PathFails
  <2>1. /\ pc' = "failed"
        /\ name' = name /\ inodes' = inodes /\ profile' = profile
        /\ fd' = fd /\ before' = before /\ buf' = buf /\ checked' = checked
    BY <1>5, <1>s DEF PathFails
  <2> QED
    BY <1>1, <2>1 DEF FileInv, FileTypeOK, Looked, ReadOK
<1>6. CASE StatDescriptor
  <2>1. /\ pc = "fstat" /\ ((pc' = "read" /\ SameFile(fd)) \/ pc' = "failed") /\ profile.looks
        /\ name' = name /\ inodes' = inodes /\ profile' = profile
        /\ fd' = fd /\ before' = before /\ buf' = buf /\ checked' = checked
    BY <1>6, <1>s DEF StatDescriptor
  <2>2. LookedOK /\ buf = <<>>
    BY <1>1, <2>1 DEF Looked, ReadOK
  <2>i. before.ino \in 1 .. Len(inodes)
    BY <2>2 DEF LookedOK
  <2>r. inodes[before.ino] \in FileRecords
    BY <1>1, <2>i
  <2>3. inodes[before.ino].content \in Seq(Blocks)
    BY <2>r DEF FileRecords
  <2>4. pc' = "read" => fd = before.ino
    BY <2>1 DEF SameFile
  <2>5. pc' = "read" => Begins(buf, inodes[fd].content)
    BY <2>2, <2>3, <2>4 DEF Begins
  <2> QED
    BY <1>1, <2>1, <2>2, <2>4, <2>5 DEF FileInv, FileTypeOK, Looked, LookedOK, ReadOK
<1>7. CASE StatFirst
  <2>1. /\ pc = "fstat" /\ ((pc' = "read" /\ SafeFile(fd)) \/ pc' = "failed")
        /\ name' = name /\ inodes' = inodes /\ profile' = profile
        /\ before' = StatOf(fd) /\ checked' = inodes[fd].content /\ fd' = fd /\ buf' = buf
    BY <1>7, <1>s DEF StatFirst
  <2>2. fd \in 1 .. Len(inodes) /\ buf = <<>>
    BY <1>1, <2>1 DEF ReadOK
  <2>3. inodes[fd] \in FileRecords
    BY <1>1, <2>2
  <2>4. /\ checked' \in Seq(Blocks) /\ before' \in [ino : Nat, size : Nat, stamp : Nat]
        /\ before'.ino = fd /\ inodes[fd].content \in Seq(Blocks)
    BY <2>1, <2>2, <2>3 DEF FileRecords, StatOf, Size
  <2>5. pc' = "read" => LookedOK'
    BY <2>1, <2>2, LookingKnows
  <2>6. Begins(buf, inodes[fd].content)
    BY <2>2, <2>4 DEF Begins
  <2> QED
    BY <1>1, <2>1, <2>2, <2>4, <2>5, <2>6 DEF FileInv, FileTypeOK, Looked, ReadOK
<1>8. ASSUME NEW n \in 1 .. MaxSize, ReadSome(n)
      PROVE  FileInv'
  <2>1. /\ pc = "read" /\ pc' \in {"read", "failed"}
        /\ name' = name /\ inodes' = inodes /\ profile' = profile
        /\ buf' = buf \o SubSeq(Rest(fd), 1, n) /\ n \in 1 .. Len(Rest(fd))
        /\ fd' = fd /\ before' = before /\ checked' = checked
    BY <1>8, <1>s DEF ReadSome
  <2>2. LookedOK /\ fd = before.ino
    BY <1>1, <2>1 DEF Looked, ReadOK
  <2>3. fd \in 1 .. Len(inodes) /\ inodes[fd] \in FileRecords
    BY <1>1, <2>2 DEF LookedOK
  <2>4. inodes[fd].content \in Seq(Blocks)
    BY <2>3 DEF FileRecords
  <2> DEFINE c == inodes[fd].content
             r == SubSeq(c, Len(buf) + 1, Len(c))
             m == SubSeq(r, 1, n)
  <2>5. Rest(fd) = r
    BY DEF Rest, Size
  <2>6. c \in Seq(Blocks) /\ n \in 1 .. Len(r) /\ buf' = buf \o m
    BY <2>1, <2>4, <2>5
  <2> HIDE DEF c
  <2>7. /\ r \in Seq(Blocks) /\ Len(buf) + Len(r) = Len(c)
        /\ \A k \in 1 .. Len(r) : r[k] = c[Len(buf) + k]
    BY <1>1, <2>6
  <2> HIDE DEF r
  <2>8. /\ m \in Seq(Blocks) /\ Len(m) = n /\ \A k \in 1 .. n : m[k] = r[k]
    BY <2>6, <2>7
  <2> HIDE DEF m
  <2>9. buf' \in Seq(Blocks)
    BY <1>1, <2>6, <2>8
  <2>10. Begins(buf, c) => Begins(buf', c)
    <3> SUFFICES ASSUME Begins(buf, c) PROVE Begins(buf', c)
      OBVIOUS
    <3>n. /\ Len(buf) \in Nat /\ Len(c) \in Nat /\ Len(r) \in Nat /\ n \in Nat /\ n <= Len(r)
      BY <1>1, <2>6, <2>7
    <3>m. buf \in Seq(Blocks) /\ m \in Seq(Blocks) /\ buf' = buf \o m
      BY <1>1, <2>6, <2>8
    <3>l. Len(buf') = Len(buf) + Len(m)
      BY <3>m
    <3>1. Len(buf') = Len(buf) + n /\ Len(buf') <= Len(c)
      BY <2>7, <2>8, <3>n, <3>l
    <3>2. ASSUME NEW k \in 1 .. Len(buf')
          PROVE  buf'[k] = c[k]
      <4>1. CASE k <= Len(buf)
        BY <1>1, <2>6, <2>8, <3>1, <4>1 DEF Begins
      <4>2. CASE k > Len(buf)
        <5>1. k - Len(buf) \in 1 .. n /\ buf'[k] = m[k - Len(buf)]
          BY <1>1, <2>6, <2>8, <3>1, <4>2
        <5>n. k - Len(buf) \in 1 .. Len(r)
          BY <3>n, <5>1
        <5>m. m[k - Len(buf)] = r[k - Len(buf)]
          BY <2>8, <5>1
        <5>r. r[k - Len(buf)] = c[Len(buf) + (k - Len(buf))]
          BY <2>7, <5>n
        <5>2. m[k - Len(buf)] = r[k - Len(buf)] /\ r[k - Len(buf)] = c[Len(buf) + (k - Len(buf))]
          BY <5>m, <5>r
        <5> QED
          BY <1>1, <3>1, <5>1, <5>2
      <4> QED
        BY <1>1, <3>1, <4>1, <4>2
    <3> QED
      BY <3>1, <3>2 DEF Begins
  <2>11. inodes[fd].stamp = before.stamp \/ ~ inodes[fd].edited => Begins(buf', inodes[fd].content)
    BY <1>1, <2>1, <2>10 DEF ReadOK, c
  <2>12. FileTypeOK'
    BY <1>1, <2>1, <2>9 DEF FileTypeOK
  <2>13. LookedOK'
    BY <2>1, <2>2 DEF LookedOK
  <2>14. ReadOK'
    BY <2>1, <2>2, <2>11 DEF ReadOK
  <2> QED
    BY <2>12, <2>13, <2>14 DEF FileInv
<1>9. CASE ReadEnds
  <2>1. /\ pc = "read"
        /\ \/ pc' = "failed"
           \/ pc' = "compare" /\ (profile.after => SameFile(fd))
        /\ name' = name /\ inodes' = inodes /\ profile' = profile
        /\ fd' = fd /\ before' = before /\ buf' = buf /\ checked' = checked
    BY <1>9, <1>s DEF ReadEnds
  <2>2. LookedOK /\ fd = before.ino
    BY <1>1, <2>1 DEF Looked, ReadOK
  <2>3. pc' = "compare" /\ profile.stamped => Begins(buf, checked)
    <3> SUFFICES ASSUME pc' = "compare", profile.stamped PROVE Begins(buf, checked)
      OBVIOUS
    <3>1. profile.after
      BY <1>1, StampedLooksAfter
    <3>2. inodes[fd].stamp = before.stamp
      BY <2>1, <3>1 DEF SameFile
    <3> QED
      BY <1>1, <2>1, <2>2, <3>2 DEF LookedOK, ReadOK
  <2>4. FileTypeOK' /\ LookedOK'
    BY <1>1, <2>1, <2>2 DEF FileTypeOK, LookedOK
  <2>5. ReadOK'
    BY <1>1, <2>1, <2>2, <2>3 DEF ReadOK
  <2> QED
    BY <2>4, <2>5 DEF FileInv
<1>10. CASE Return
  <2>1. /\ pc = "compare" /\ ((pc' = "returned" /\ Len(buf) = before.size) \/ pc' = "failed")
        /\ name' = name /\ inodes' = inodes /\ profile' = profile
        /\ fd' = fd /\ before' = before /\ buf' = buf /\ checked' = checked
    BY <1>10, <1>s DEF Return
  <2>2. LookedOK
    BY <1>1, <2>1 DEF Looked
  <2>3. FileTypeOK' /\ LookedOK'
    BY <1>1, <2>1, <2>2 DEF FileTypeOK, LookedOK
  <2>4. ReadOK'
    BY <1>1, <2>1 DEF ReadOK
  <2> QED
    BY <2>3, <2>4 DEF FileInv
<1> QED
  BY <1>2, <1>3, <1>4, <1>5, <1>6, <1>7, <1>8, <1>9, <1>10 DEF ReaderStep

\* FileInv holds whatever the owner does: for every limit, block and size, and any
\* number of files and of changes.
THEOREM OwnerFileInvariant == FileSpec => []FileInv
<1>1. FileInit => FileInv
  <2> SUFFICES ASSUME FileInit PROVE FileInv
    OBVIOUS
  <2>1. PICK b \in Blocks, m \in Modes :
          inodes = <<[content |-> <<b>>, mode |-> m, stamp |-> 0, edited |-> FALSE]>>
    BY DEF FileInit
  <2>2. [content |-> <<b>>, mode |-> m, stamp |-> 0, edited |-> FALSE] \in FileRecords
    BY DEF FileRecords, Modes
  <2>3. inodes \in Seq(FileRecords) /\ Len(inodes) = 1
    BY <2>1, <2>2
  <2>4. /\ name = 1 /\ profile \in ReaderProfiles /\ pc = "parent" /\ fd = 0
        /\ before \in [ino : Nat, size : Nat, stamp : Nat]
        /\ buf = <<>> /\ checked = <<>> /\ buf \in Seq(Blocks) /\ checked \in Seq(Blocks)
    BY DEF FileInit
  <2> QED
    BY <2>3, <2>4 DEF FileInv, FileTypeOK, Looked, ReadOK
<1>2. FileInv /\ [FileNext]_fileVars => FileInv'
  <2>1. ASSUME FileInv, UNCHANGED fileVars
        PROVE  FileInv'
    BY <2>1 DEF fileVars, ownerVars, readerVars, FileInv, FileTypeOK, Looked, LookedOK, ReadOK
  <2> QED
    BY <2>1, OwnerPreserves, ReaderPreserves DEF FileNext
<1> QED
  BY <1>1, <1>2, PTL DEF FileSpec

\* What a reader returns is what it first looked at and checked, unless the file was
\* cut or written over in place and the reader compares no times: for each of the
\* sixteen readers, every limit and any number of changes by the owner.
THEOREM OwnerReturnsChecked == FileSpec => []ReturnedIsChecked
<1>1. FileInv => ReturnedIsChecked
  <2> SUFFICES ASSUME FileInv, pc = "returned"
               PROVE  /\ fd = before.ino
                      /\ buf = checked \/ (inodes[fd].edited /\ ~ profile.stamped)
                      /\ Len(buf) \in profile.least .. profile.limit
    BY DEF ReturnedIsChecked
  <2>1. /\ FileTypeOK /\ ReadOK /\ LookedOK
        /\ buf \in Seq(Blocks) /\ checked \in Seq(Blocks)
    BY DEF FileInv, FileTypeOK, Looked
  <2>2. /\ fd = before.ino /\ Len(buf) = before.size /\ Len(buf) = Len(checked)
        /\ Len(buf) \in profile.least .. profile.limit
    BY <2>1 DEF ReadOK, LookedOK
  <2>3. fd \in 1 .. Len(inodes)
    BY <2>1, <2>2 DEF LookedOK
  <2>r. inodes[fd] \in FileRecords
    BY <2>1, <2>3 DEF FileTypeOK
  <2>4. inodes[fd].content \in Seq(Blocks)
    BY <2>r DEF FileRecords
  <2>5. ASSUME Begins(buf, checked)
        PROVE  buf = checked
    BY <2>1, <2>2, <2>5 DEF Begins
  <2>6. profile.stamped => Begins(buf, checked)
    BY <2>1 DEF ReadOK
  <2>7. ~ inodes[fd].edited => Begins(buf, checked)
    <3> SUFFICES ASSUME ~ inodes[fd].edited PROVE Begins(buf, checked)
      OBVIOUS
    <3>1. Begins(buf, inodes[fd].content) /\ Begins(checked, inodes[fd].content)
      BY <2>1, <2>2 DEF ReadOK, LookedOK
    <3> QED
      BY <2>1, <2>2, <2>4, <3>1 DEF Begins
  <2> QED
    BY <2>2, <2>5, <2>6, <2>7
<1> QED
  BY <1>1, OwnerFileInvariant, PTL

-----------------------------------------------------------------------------
(* Publishing a file. *)

Places == {"look", "create", "identify", "write", "link", "cleanup", "compare", "unlink",
           "alone", "sync", "remove", "tidy", "ok", "failed", "dead"}

PublishTypeOK ==
    /\ dir \in [Entries -> FileIds \union {NoFile}]
    /\ dirDisk \in [Entries -> FileIds \union {NoFile}]
    /\ length \in [Writers -> 0..Length]
    /\ synced \in [Writers -> 0..Length]
    /\ writer \in [Writers -> [pc : Places, way : Ways]]

\* A temporary entry is its writer's; what was linked, or may be found linked after
\* a power failure, is on disk whole.
ContentOK(w) ==
    /\ dir[w] \in {w, NoFile} /\ dirDisk[w] \in {w, NoFile}
    /\ (dir[w] = w \/ dirDisk[w] = w) => writer[w].way.temp
    /\ (dir[Out] = w \/ dirDisk[Out] = w) /\ writer[w].way.temp => w \in published
    /\ w \in published => synced[w] = Length
    /\ synced[w] = Length => length[w] = Length

\* The owner or another writer has taken the writer's file from the path.
Taken(w) == w \in removed \union swept

\* How far a writer is: before it reports success its file is on disk, at the path
\* unless it was taken from there, and its temporary entry is gone; one about to
\* unlink the path has its own inode there, or was overtaken.
StageOK(w) ==
    /\ writer[w].pc \in {"link", "compare", "unlink", "alone", "sync"} => writer[w].way.temp
    /\ writer[w].pc \in {"link", "compare", "unlink", "alone", "sync", "ok"}
         => synced[w] = Length
    /\ (\/ writer[w].pc \in {"compare", "unlink", "alone", "sync", "ok"}
        \/ writer[w].pc \in {"identify", "write"} /\ ~ writer[w].way.temp)
         => Taken(w) \/ dir[Out] = w \/ (powerLost /\ writer[w].way.sync # "must")
    /\ writer[w].pc = "ok" /\ writer[w].way.sync = "must" /\ ~ Taken(w)
         => dirDisk[Out] = w
    /\ writer[w].pc = "remove" => dir[Out] = w \/ w \in late
    /\ w \notin leftover /\ ~ powerLost =>
         /\ writer[w].pc \in {"look", "create", "alone", "sync", "ok", "failed"} => dir[w] = NoFile
         /\ writer[w].pc \in {"look", "create", "tidy", "failed"} => dir[Out] # w

\* No unlink is late before the owner has removed a file.
RaceOK == (swept # {} => late # {}) /\ (late # {} => removed # {})

\* The inductive invariant.
PublishInv ==
    /\ PublishTypeOK
    /\ RaceOK
    /\ \A w \in Writers : ContentOK(w) /\ StageOK(w)

\* Writers that do not move keep what they had when another writer, the owner or
\* the kernel touches none of their entries.
LEMMA OthersKeep ==
  ASSUME PublishInv, NEW v \in Writers,
         writer'[v] = writer[v], length'[v] = length[v], synced'[v] = synced[v],
         v \in published' <=> v \in published, v \in leftover' <=> v \in leftover,
         Taken(v) => Taken(v)',
         powerLost' = powerLost,
         dir'[v] = dir[v], dir'[Out] = v => dir[Out] = v,
         dir[Out] = v => dir'[Out] = v \/ Taken(v)',
         v \in late => v \in late',
         At(v, "remove") /\ dir[Out] = v => dir'[Out] = v \/ v \in late',
         dirDisk'[v] \in {dirDisk[v], dir[v]}, dirDisk'[Out] \in {dirDisk[Out], dir[Out]}
  PROVE  ContentOK(v)' /\ StageOK(v)'
<1>1. ContentOK(v) /\ StageOK(v)
  BY DEF PublishInv
<1>2. ContentOK(v)'
  BY <1>1 DEF ContentOK
<1>3. StageOK(v)'
  BY <1>1 DEF StageOK, At, Taken
<1> QED
  BY <1>2, <1>3

\* A writer moves on, and touches no entry but its own and the path.
LEMMA WriterMoves ==
  ASSUME PublishInv, NEW w \in Writers, NEW to \in Places, Goes(w, to),
         dir' \in [Entries -> FileIds \union {NoFile}], dirDisk' \in {dirDisk, dir},
         length' \in [Writers -> 0..Length], synced' \in [Writers -> 0..Length],
         UNCHANGED <<removed, swept, late, powerLost>>,
         \A v \in Writers \ {w} :
            /\ length'[v] = length[v] /\ synced'[v] = synced[v]
            /\ v \in published' <=> v \in published
            /\ v \in leftover' <=> v \in leftover
            /\ dir'[v] = dir[v] /\ (dir'[Out] = v <=> dir[Out] = v),
         writer'[w].pc = to /\ writer'[w].way = writer[w].way => ContentOK(w)' /\ StageOK(w)'
  PROVE  PublishInv'
<1>1. PublishTypeOK
  BY DEF PublishInv
<1>2. /\ writer'[w].pc = to /\ writer'[w].way = writer[w].way
      /\ writer' \in [Writers -> [pc : Places, way : Ways]]
      /\ \A v \in Writers \ {w} : writer'[v] = writer[v]
  BY <1>1 DEF PublishTypeOK, Goes
<1>3. PublishTypeOK'
  BY <1>1, <1>2 DEF PublishTypeOK
<1>4. ASSUME NEW v \in Writers \ {w}
      PROVE  ContentOK(v)' /\ StageOK(v)'
  <2>1. dirDisk'[v] \in {dirDisk[v], dir[v]} /\ dirDisk'[Out] \in {dirDisk[Out], dir[Out]}
    OBVIOUS
  <2>2. (Taken(v) => Taken(v)') /\ (v \in late => v \in late')
    BY DEF Taken
  <2> QED
    BY <1>2, <2>1, <2>2, OthersKeep
<1>5. RaceOK'
  BY DEF PublishInv, RaceOK
<1> QED
  BY <1>2, <1>3, <1>4, <1>5 DEF PublishInv

\* The record's way, whose directory fsync must succeed, goes through a temporary
\* entry and knows its inode.
LEMMA MustIsRecord ==
  ASSUME NEW y \in Ways, y.sync = "must"
  PROVE  y.temp /\ y.identity
<1>1. y = EvidenceRecordWriter
  <2>1. /\ ModelProvenanceWriter.sync = "try" /\ PredictionsWriter.sync = "try"
        /\ BoundaryReceiptWriter.sync = "no" /\ EvidenceChallengeWriter.sync = "no"
        /\ AttestationChallengeWriter.sync = "no"
    BY DEF ModelProvenanceWriter, PredictionsWriter,
       BoundaryReceiptWriter, EvidenceChallengeWriter, AttestationChallengeWriter, Way
  <2> QED
    BY <2>1 DEF Ways
<1>2. EvidenceRecordWriter.temp /\ EvidenceRecordWriter.identity
  BY Zenon DEF EvidenceRecordWriter, Way
<1> QED
  BY <1>1, <1>2

\* What is known of a writer and of the entries it uses.
LEMMA WriterFacts ==
  ASSUME PublishInv, NEW w \in Writers
  PROVE  /\ ContentOK(w) /\ StageOK(w) /\ PublishTypeOK
         /\ Out \in Entries /\ w \in Entries /\ w # Out /\ w # NoFile
         /\ writer[w].pc \in Places /\ writer[w].way \in Ways
         /\ writer[w].way.sync = "must" => writer[w].way.temp /\ writer[w].way.identity
         /\ dir[Out] \in FileIds \union {NoFile}
         /\ length[w] \in 0..Length /\ synced[w] \in 0..Length /\ Length \in Nat \ {0}
<1>1. /\ ContentOK(w) /\ StageOK(w) /\ PublishTypeOK
      /\ Out \in Entries /\ w \in Entries /\ w # Out /\ w # NoFile
  BY PublishAssumption DEF PublishInv, Entries, Out
<1>2. writer[w].pc \in Places /\ writer[w].way \in Ways
  BY <1>1 DEF PublishTypeOK
<1>3. /\ dir[Out] \in FileIds \union {NoFile} /\ Length \in Nat \ {0}
      /\ length[w] \in 0..Length /\ synced[w] \in 0..Length
  BY <1>1, PublishAssumption DEF PublishTypeOK
<1>4. writer[w].way.sync = "must" => writer[w].way.temp /\ writer[w].way.identity
  BY <1>2, MustIsRecord
<1> QED
  BY <1>1, <1>2, <1>3, <1>4

\* A step that changes only where the writer is, and perhaps records a failed unlink.
LEMMA QuietStep ==
  ASSUME PublishInv, NEW w \in Writers, NEW to \in Places, Goes(w, to),
         UNCHANGED <<dir, dirDisk, contentVars, published, raceVars, aroundVars>>,
         leftover' \in {leftover, leftover \union {w}},
         writer'[w].pc = to /\ writer'[w].way = writer[w].way => StageOK(w)'
  PROVE  PublishInv'
<1>1. ContentOK(w) /\ PublishTypeOK
  BY WriterFacts
<1>2. /\ dir' = dir /\ dirDisk' = dirDisk /\ length' = length /\ synced' = synced
      /\ published' = published /\ UNCHANGED <<removed, swept, late, powerLost>>
  BY DEF contentVars, raceVars, aroundVars
<1>3. writer'[w].pc = to /\ writer'[w].way = writer[w].way => ContentOK(w)' /\ StageOK(w)'
  BY <1>1, <1>2 DEF ContentOK
<1>4. /\ dir' \in [Entries -> FileIds \union {NoFile}] /\ dirDisk' \in {dirDisk, dir}
      /\ length' \in [Writers -> 0..Length] /\ synced' \in [Writers -> 0..Length]
  BY <1>1, <1>2 DEF PublishTypeOK
<1>5. \A v \in Writers \ {w} :
            /\ length'[v] = length[v] /\ synced'[v] = synced[v]
            /\ v \in published' <=> v \in published
            /\ v \in leftover' <=> v \in leftover
            /\ dir'[v] = dir[v] /\ (dir'[Out] = v <=> dir[Out] = v)
  BY <1>2
<1> QED
  BY <1>2, <1>3, <1>4, <1>5, WriterMoves

\* Looking, fchmod and fstat, the two comparisons, a kill: the steps that only go on.
LEMMA LooksPreserve ==
  ASSUME PublishInv, NEW w \in Writers,
         \/ LookForPath(w) \/ Identify(w) \/ ComparePublished(w) \/ CheckAlone(w) \/ Kill(w)
  PROVE  PublishInv'
<1>1. /\ ContentOK(w) /\ StageOK(w) /\ w # NoFile
      /\ writer[w].way.sync = "must" => writer[w].way.temp /\ writer[w].way.identity
  BY WriterFacts
<1>2. PICK to \in {"failed", "create", "write", "unlink", "cleanup", "sync", "dead"} :
        /\ Goes(w, to)
        /\ to \in {"failed", "create"} => At(w, "look")
        /\ to = "failed" => dir[Out] # NoFile
        /\ to = "unlink" => At(w, "compare") /\ dir[Out] = w
        /\ to = "sync" => At(w, "alone")
        /\ to = "write" => At(w, "identify")
  BY Zenon DEF LookForPath, Identify, ComparePublished, CheckAlone, Kill
<1>3. UNCHANGED <<dir, dirDisk, contentVars, published, raceVars, aroundVars>> /\ leftover' = leftover
  BY DEF LookForPath, Identify, ComparePublished, CheckAlone, Kill
<1>4. ASSUME writer'[w].pc = to, writer'[w].way = writer[w].way
      PROVE  StageOK(w)'
  BY <1>1, <1>2, <1>3, <1>4 DEF StageOK, At, contentVars, raceVars, aroundVars, Taken
<1> QED
  BY <1>2, <1>3, <1>4, QuietStep DEF Places

\* A call that raises.
LEMMA FailurePreserves ==
  ASSUME PublishInv, NEW w \in Writers, CallFails(w)
  PROVE  PublishInv'
<1>1. /\ ContentOK(w) /\ StageOK(w) /\ w # NoFile
      /\ writer[w].way.sync = "must" => writer[w].way.temp /\ writer[w].way.identity
  BY WriterFacts
<1>2. /\ Goes(w, FailsTo(w))
      /\ leftover' = IF ~At(w, "create") /\ FailsTo(w) # "cleanup"
                     THEN leftover \union {w} ELSE leftover
      /\ UNCHANGED <<dir, dirDisk, contentVars, published, raceVars, aroundVars>>
  BY DEF CallFails
<1>3. PICK to \in {"failed", "cleanup", "sync"} :
        /\ to = FailsTo(w)
        /\ to = "failed" => At(w, "create") \/ At(w, "identify")
        /\ to = "sync" => At(w, "unlink") /\ ~ writer[w].way.identity
  BY DEF FailsTo, At
<1>4. to # "cleanup" /\ ~ At(w, "create") => w \in leftover'
  BY <1>2, <1>3
<1>5. ASSUME writer'[w].pc = to, writer'[w].way = writer[w].way
      PROVE  StageOK(w)'
  BY <1>1, <1>2, <1>3, <1>4, <1>5 DEF StageOK, At, contentVars, raceVars, aroundVars, Taken
<1> QED
  BY <1>2, <1>3, <1>5, QuietStep DEF Places

\* The steps of a writer that change the file, an entry or the disk.
LEMMA MakesPreserve ==
  ASSUME PublishInv, NEW w \in Writers,
         \/ CreateFile(w) \/ WriteChunk(w) \/ SyncFile(w) \/ LinkFile(w)
         \/ UnlinkTemporary(w) \/ SyncDirectory(w) \/ RemoveTemporary(w)
  PROVE  PublishInv'
<1>1. /\ ContentOK(w) /\ StageOK(w) /\ PublishTypeOK
      /\ Out \in Entries /\ w \in Entries /\ w # Out /\ w # NoFile
      /\ writer[w].pc \in Places /\ writer[w].way \in Ways
      /\ writer[w].way.sync = "must" => writer[w].way.temp /\ writer[w].way.identity
      /\ dir[Out] \in FileIds \union {NoFile}
      /\ length[w] \in 0..Length /\ synced[w] \in 0..Length /\ Length \in Nat \ {0}
  BY WriterFacts
<1>2. /\ dir \in [Entries -> FileIds \union {NoFile}]
      /\ dirDisk \in [Entries -> FileIds \union {NoFile}]
      /\ length \in [Writers -> 0..Length] /\ synced \in [Writers -> 0..Length]
      /\ w \in FileIds \union {NoFile} /\ NoFile \in FileIds \union {NoFile}
  BY <1>1 DEF PublishTypeOK, FileIds
<1>n. \A v \in Writers : v # Out /\ v # NoFile /\ v \in Entries
  BY PublishAssumption DEF Out, Entries
<1>3. CASE CreateFile(w) /\ dir[PathOf(w)] # NoFile
  <2>1. /\ Goes(w, "failed") /\ At(w, "create")
        /\ UNCHANGED <<dir, dirDisk, contentVars, published, raceVars, aroundVars>> /\ leftover' = leftover
    BY <1>3 DEF CreateFile
  <2>2. ASSUME writer'[w].pc = "failed", writer'[w].way = writer[w].way
        PROVE  StageOK(w)'
    BY <1>1, <2>1, <2>2 DEF StageOK, At, contentVars, raceVars, aroundVars, Taken
  <2> QED
    BY <2>1, <2>2, QuietStep DEF Places
<1>4. CASE CreateFile(w) /\ dir[PathOf(w)] = NoFile
  <2>1. /\ Goes(w, "identify") /\ At(w, "create") /\ dir' = [dir EXCEPT ![PathOf(w)] = w]
        /\ dirDisk' = dirDisk /\ length' = length /\ synced' = synced
        /\ published' = published /\ leftover' = leftover
        /\ removed' = removed /\ swept' = swept /\ late' = late /\ powerLost' = powerLost
    BY <1>4 DEF CreateFile, contentVars, raceVars, aroundVars
  <2>2. PathOf(w) \in {Out, w} /\ PathOf(w) \in Entries /\ (PathOf(w) = w <=> writer[w].way.temp)
    BY <1>1 DEF PathOf
  <2>3. /\ dir' \in [Entries -> FileIds \union {NoFile}]
        /\ \A n \in Entries : dir'[n] = IF n = PathOf(w) THEN w ELSE dir[n]
    BY <2>1, <2>2, <1>2
  <2>4. ASSUME writer'[w].pc = "identify", writer'[w].way = writer[w].way
        PROVE  ContentOK(w)' /\ StageOK(w)'
    <3>1. /\ dir'[w] \in {w, NoFile} /\ dirDisk'[w] = dirDisk[w] /\ dirDisk'[Out] = dirDisk[Out]
          /\ dir'[w] = w => dir[w] = w \/ writer[w].way.temp
          /\ dir'[Out] = w => dir[Out] = w \/ ~ writer[w].way.temp
      BY <1>1, <2>1, <2>2, <2>3 DEF ContentOK
    <3>2. length'[w] = length[w] /\ synced'[w] = synced[w] /\ published' = published
      BY <2>1
    <3>3. ContentOK(w)'
      BY <1>1, <3>1, <3>2, <2>4 DEF ContentOK
    <3>4. ~ writer[w].way.temp => dir'[Out] = w
      BY <1>1, <2>2, <2>3
    <3>5. StageOK(w)'
      BY <2>4, <3>4 DEF StageOK, Taken
    <3> QED
      BY <3>3, <3>5
  <2>5. \A v \in Writers \ {w} :
            /\ length'[v] = length[v] /\ synced'[v] = synced[v]
            /\ v \in published' <=> v \in published
            /\ v \in leftover' <=> v \in leftover
            /\ dir'[v] = dir[v] /\ (dir'[Out] = v <=> dir[Out] = v)
    BY <1>1, <1>4, <1>n, <2>1, <2>2, <2>3
  <2> QED
    BY <1>2, <2>1, <2>3, <2>4, <2>5, WriterMoves DEF Places
<1>5. CASE WriteChunk(w)
  <2>1. /\ At(w, "write") /\ length[w] < Length /\ length' = [length EXCEPT ![w] = @ + 1]
        /\ dir' = dir /\ dirDisk' = dirDisk /\ synced' = synced /\ writer' = writer
        /\ published' = published /\ leftover' = leftover
        /\ removed' = removed /\ swept' = swept /\ late' = late /\ powerLost' = powerLost
    BY <1>5 DEF WriteChunk, raceVars, aroundVars
  <2>2. length' \in [Writers -> 0..Length] /\ length'[w] = length[w] + 1
    BY <1>1, <1>2, <2>1
  <2>3. Goes(w, "write") /\ writer[w].pc = "write"
    BY <1>1, <2>1 DEF PublishTypeOK, Goes, At
  <2>4. ContentOK(w)' /\ StageOK(w)'
    <3>1. synced[w] # Length
      BY <1>1, <2>1 DEF ContentOK
    <3>2. ContentOK(w)'
      BY <1>1, <2>1, <3>1 DEF ContentOK
    <3>3. StageOK(w)'
      BY <1>1, <2>1, <2>3 DEF StageOK, At, Taken
    <3> QED
      BY <3>2, <3>3
  <2>5. \A v \in Writers \ {w} :
            /\ length'[v] = length[v] /\ synced'[v] = synced[v]
            /\ v \in published' <=> v \in published
            /\ v \in leftover' <=> v \in leftover
            /\ dir'[v] = dir[v] /\ (dir'[Out] = v <=> dir[Out] = v)
    BY <1>2, <2>1
  <2> QED
    BY <1>2, <2>1, <2>2, <2>3, <2>4, <2>5, WriterMoves DEF Places
<1>6. CASE SyncFile(w)
  <2> DEFINE to == IF writer[w].way.temp THEN "link" ELSE "ok"
  <2>1. /\ At(w, "write") /\ length[w] = Length /\ synced' = [synced EXCEPT ![w] = length[w]]
        /\ Goes(w, to)
        /\ dir' = dir /\ dirDisk' = dirDisk /\ length' = length
        /\ published' = published /\ leftover' = leftover
        /\ removed' = removed /\ swept' = swept /\ late' = late /\ powerLost' = powerLost
    BY <1>6 DEF SyncFile, raceVars, aroundVars
  <2>2. /\ to \in {"link", "ok"} /\ (to = "link" <=> writer[w].way.temp)
        /\ synced' \in [Writers -> 0..Length] /\ synced'[w] = Length
    BY <1>1, <1>2, <2>1
  <2>3. \A v \in Writers \ {w} :
            /\ length'[v] = length[v] /\ synced'[v] = synced[v]
            /\ v \in published' <=> v \in published
            /\ v \in leftover' <=> v \in leftover
            /\ dir'[v] = dir[v] /\ (dir'[Out] = v <=> dir[Out] = v)
    BY <1>2, <2>1
  <2> HIDE DEF to
  <2>4. ASSUME writer'[w].pc = to, writer'[w].way = writer[w].way
        PROVE  ContentOK(w)' /\ StageOK(w)'
    <3>1. ContentOK(w)'
      BY <1>1, <2>1, <2>2, <2>4 DEF ContentOK
    <3>2. StageOK(w)'
      BY <1>1, <2>1, <2>2, <2>4 DEF StageOK, ContentOK, At, Taken
    <3> QED
      BY <3>1, <3>2
  <2> QED
    BY <1>2, <2>1, <2>2, <2>3, <2>4, WriterMoves DEF Places
<1>7. CASE LinkFile(w) /\ dir[Out] # NoFile
  <2>1. /\ Goes(w, "cleanup") /\ At(w, "link")
        /\ UNCHANGED <<dir, dirDisk, contentVars, published, raceVars, aroundVars>> /\ leftover' = leftover
    BY <1>7 DEF LinkFile
  <2>2. ASSUME writer'[w].pc = "cleanup", writer'[w].way = writer[w].way
        PROVE  StageOK(w)'
    BY <1>1, <2>1, <2>2 DEF StageOK, At, contentVars, raceVars, aroundVars, Taken
  <2> QED
    BY <2>1, <2>2, QuietStep DEF Places
<1>8. CASE LinkFile(w) /\ dir[Out] = NoFile
  <2> DEFINE to == IF writer[w].way.identity THEN "compare" ELSE "unlink"
  <2>1. /\ At(w, "link") /\ dir' = [dir EXCEPT ![Out] = w] /\ published' = published \union {w}
        /\ Goes(w, to)
        /\ dirDisk' = dirDisk /\ length' = length /\ synced' = synced
        /\ leftover' = leftover /\ removed' = removed /\ swept' = swept /\ late' = late /\ powerLost' = powerLost
    BY <1>8 DEF LinkFile, contentVars, raceVars, aroundVars
  <2>2. /\ to \in {"compare", "unlink"}
        /\ dir' \in [Entries -> FileIds \union {NoFile}]
        /\ \A n \in Entries : dir'[n] = IF n = Out THEN w ELSE dir[n]
    BY <1>1, <1>2, <2>1
  <2>3. \A v \in Writers \ {w} :
            /\ length'[v] = length[v] /\ synced'[v] = synced[v]
            /\ v \in published' <=> v \in published
            /\ v \in leftover' <=> v \in leftover
            /\ dir'[v] = dir[v] /\ (dir'[Out] = v <=> dir[Out] = v)
    BY <1>1, <1>8, <1>n, <2>1, <2>2
  <2> HIDE DEF to
  <2>4. ASSUME writer'[w].pc = to, writer'[w].way = writer[w].way
        PROVE  ContentOK(w)' /\ StageOK(w)'
    <3>0. dir'[Out] = w /\ dir'[w] = dir[w]
      BY <1>1, <2>2
    <3>1. writer[w].way.temp /\ synced[w] = Length
      BY <1>1, <2>1 DEF StageOK, At, Taken
    <3>4. /\ dirDisk'[w] = dirDisk[w] /\ w \in published'
          /\ length'[w] = length[w] /\ synced'[w] = synced[w]
      BY <2>1
    <3>2. ContentOK(w)'
      BY <1>1, <3>0, <3>1, <3>4, <2>4 DEF ContentOK
    <3>3. StageOK(w)'
      <4>1. w \notin leftover /\ ~ powerLost => dir'[Out] = w
        BY <3>0
      <4>2. writer'[w].pc \in {"compare", "unlink"}
        BY <2>2, <2>4
      <4> QED
        BY <3>0, <3>1, <3>4, <2>4, <4>2 DEF StageOK, Taken
    <3> QED
      BY <3>2, <3>3
  <2> QED
    BY <1>2, <2>1, <2>2, <2>3, <2>4, WriterMoves DEF Places

<1>9. CASE UnlinkTemporary(w)
  <2> DEFINE to == IF writer[w].way.identity THEN "alone" ELSE "sync"
  <2>1. /\ At(w, "unlink") /\ dir' = [dir EXCEPT ![w] = NoFile] /\ Goes(w, to)
        /\ dirDisk' = dirDisk /\ length' = length /\ synced' = synced /\ published' = published
        /\ leftover' = leftover /\ removed' = removed /\ swept' = swept /\ late' = late /\ powerLost' = powerLost
    BY <1>9 DEF UnlinkTemporary, contentVars, raceVars, aroundVars
  <2>2. /\ to \in {"alone", "sync"}
        /\ dir' \in [Entries -> FileIds \union {NoFile}]
        /\ \A n \in Entries : dir'[n] = IF n = w THEN NoFile ELSE dir[n]
        /\ dir'[w] = NoFile /\ dir'[Out] = dir[Out]
    BY <1>1, <1>2, <2>1
  <2>3. \A v \in Writers \ {w} :
            /\ length'[v] = length[v] /\ synced'[v] = synced[v]
            /\ v \in published' <=> v \in published
            /\ v \in leftover' <=> v \in leftover
            /\ dir'[v] = dir[v] /\ (dir'[Out] = v <=> dir[Out] = v)
    BY <1>1, <1>n, <2>1, <2>2
  <2> HIDE DEF to
  <2>4. ASSUME writer'[w].pc = to, writer'[w].way = writer[w].way
        PROVE  ContentOK(w)' /\ StageOK(w)'
    <3>1. ContentOK(w)'
      BY <1>1, <2>1, <2>2, <2>4 DEF ContentOK
    <3>2. StageOK(w)'
      BY <1>1, <2>1, <2>2, <2>4 DEF StageOK, At, Taken
    <3> QED
      BY <3>1, <3>2
  <2> QED
    BY <1>2, <2>1, <2>2, <2>3, <2>4, WriterMoves DEF Places
<1>10. CASE SyncDirectory(w)
  <2>1. /\ At(w, "sync") /\ Goes(w, "ok")
        /\ \/ dirDisk' = dir
           \/ writer[w].way.sync # "must" /\ dirDisk' = dirDisk
        /\ dir' = dir /\ length' = length /\ synced' = synced /\ published' = published
        /\ leftover' = leftover /\ removed' = removed /\ swept' = swept /\ late' = late /\ powerLost' = powerLost
    BY <1>10 DEF SyncDirectory, contentVars, raceVars, aroundVars
  <2>2. \A v \in Writers \ {w} :
            /\ length'[v] = length[v] /\ synced'[v] = synced[v]
            /\ v \in published' <=> v \in published
            /\ v \in leftover' <=> v \in leftover
            /\ dir'[v] = dir[v] /\ (dir'[Out] = v <=> dir[Out] = v)
    BY <2>1
  <2>3. ASSUME writer'[w].pc = "ok", writer'[w].way = writer[w].way
        PROVE  ContentOK(w)' /\ StageOK(w)'
    <3>1. ContentOK(w)'
      BY <1>1, <2>1, <2>3 DEF ContentOK
    <3>2. StageOK(w)'
      BY <1>1, <2>1, <2>3 DEF StageOK, At, Taken
    <3> QED
      BY <3>1, <3>2
  <2> QED
    BY <1>2, <2>1, <2>2, <2>3, WriterMoves DEF Places
<1>11. CASE RemoveTemporary(w) /\ dir' = dir /\ leftover' = leftover \union {w}
  <2>1. /\ At(w, "tidy") /\ Goes(w, "failed")
        /\ UNCHANGED <<dir, dirDisk, contentVars, published, raceVars, aroundVars>>
    BY <1>11 DEF RemoveTemporary
  <2>2. ASSUME writer'[w].pc = "failed", writer'[w].way = writer[w].way
        PROVE  StageOK(w)'
    BY <1>1, <1>11, <2>1, <2>2 DEF StageOK, At, contentVars, raceVars, aroundVars, Taken
  <2> QED
    BY <1>11, <2>1, <2>2, QuietStep DEF Places
<1>12. CASE RemoveTemporary(w) /\ dir' = [dir EXCEPT ![w] = NoFile] /\ leftover' = leftover
  <2>1. /\ At(w, "tidy") /\ Goes(w, "failed")
        /\ dirDisk' = dirDisk /\ length' = length /\ synced' = synced /\ published' = published
        /\ leftover' = leftover /\ removed' = removed /\ swept' = swept /\ late' = late /\ powerLost' = powerLost
    BY <1>12 DEF RemoveTemporary, contentVars, raceVars, aroundVars
  <2>2. /\ dir' \in [Entries -> FileIds \union {NoFile}]
        /\ \A n \in Entries : dir'[n] = IF n = w THEN NoFile ELSE dir[n]
        /\ dir'[w] = NoFile /\ dir'[Out] = dir[Out]
    BY <1>1, <1>2, <1>12
  <2>3. \A v \in Writers \ {w} :
            /\ length'[v] = length[v] /\ synced'[v] = synced[v]
            /\ v \in published' <=> v \in published
            /\ v \in leftover' <=> v \in leftover
            /\ dir'[v] = dir[v] /\ (dir'[Out] = v <=> dir[Out] = v)
    BY <1>1, <1>n, <2>1, <2>2
  <2>4. ASSUME writer'[w].pc = "failed", writer'[w].way = writer[w].way
        PROVE  ContentOK(w)' /\ StageOK(w)'
    <3>1. ContentOK(w)'
      BY <1>1, <2>1, <2>2, <2>4 DEF ContentOK
    <3>2. StageOK(w)'
      BY <1>1, <2>1, <2>2, <2>4 DEF StageOK, At, Taken
    <3> QED
      BY <3>1, <3>2
  <2> QED
    BY <1>2, <2>1, <2>2, <2>3, <2>4, WriterMoves DEF Places
<1> QED
  BY <1>3, <1>4, <1>5, <1>6, <1>7, <1>8, <1>9, <1>10, <1>11, <1>12 DEF RemoveTemporary

\* The look at the path before it is unlinked, and an unlink that fails.
LEMMA LookBeforePreserves ==
  ASSUME PublishInv, NEW w \in Writers,
         \/ LookBeforeUnlink(w)
         \/ RemovePath(w) /\ leftover' = leftover \union {w} /\ UNCHANGED <<dir, raceVars>>
  PROVE  PublishInv'
<1>1. ContentOK(w) /\ StageOK(w)
  BY WriterFacts
<1>2. PICK to \in {"remove", "tidy"} :
        /\ Goes(w, to)
        /\ to = "remove" => dir[Out] = w
        /\ to = "tidy" => w \in leftover' \/ dir[Out] # w \/ ~ MayRemove(w)
        /\ leftover' \in {leftover, leftover \union {w}}
        /\ UNCHANGED <<dir, dirDisk, contentVars, published, raceVars, aroundVars>>
  <2>1. CASE LookBeforeUnlink(w)
    <3>1. PICK to \in {"remove", "tidy"} :
            /\ to = IF OwnsPath(w) THEN "remove" ELSE "tidy"
      BY DEF OwnsPath
    <3>2. CASE Goes(w, to) /\ leftover' = leftover
      <4>1. /\ to = "remove" => dir[Out] = w
            /\ to = "tidy" => dir[Out] # w \/ ~ MayRemove(w)
        BY <3>1 DEF OwnsPath
      <4> QED
        BY <2>1, <3>2, <4>1 DEF LookBeforeUnlink
    <3>3. CASE Goes(w, "tidy") /\ leftover' = leftover \union {w}
      BY <2>1, <3>3 DEF LookBeforeUnlink
    <3> QED
      BY <2>1, <3>1, <3>2, <3>3 DEF LookBeforeUnlink
  <2>2. CASE RemovePath(w) /\ leftover' = leftover \union {w} /\ UNCHANGED <<dir, raceVars>>
    BY <2>2 DEF RemovePath
  <2> QED
    BY <2>1, <2>2
<1>3. ~ MayRemove(w) => dir[Out] # w
  BY <1>1 DEF MayRemove, ContentOK
<1>4. ASSUME writer'[w].pc = to, writer'[w].way = writer[w].way
      PROVE  StageOK(w)'
  BY <1>1, <1>2, <1>3, <1>4 DEF StageOK, contentVars, raceVars, aroundVars, Taken
<1> QED
  BY <1>2, <1>4, QuietStep DEF Places

\* The unlink of the path: what it takes from another writer is counted as swept, and
\* then this writer was overtaken itself.
LEMMA RemovePreserves ==
  ASSUME PublishInv, NEW w \in Writers, RemovePath(w), leftover' = leftover,
         dir' = [dir EXCEPT ![Out] = NoFile],
         swept' = swept \union ({dir[Out]} \ {w, NoFile}), late' = late \union Overtaken(w)
  PROVE  PublishInv'
<1>1. /\ ContentOK(w) /\ StageOK(w) /\ PublishTypeOK
      /\ Out \in Entries /\ w \in Entries /\ w # Out /\ w # NoFile
  BY WriterFacts
<1>2. /\ At(w, "remove") /\ Goes(w, "tidy")
      /\ dirDisk' = dirDisk /\ length' = length /\ synced' = synced /\ published' = published
      /\ removed' = removed /\ powerLost' = powerLost
  BY DEF RemovePath, contentVars, aroundVars
<1>3. /\ dir \in [Entries -> FileIds \union {NoFile}] /\ dir' \in [Entries -> FileIds \union {NoFile}]
      /\ \A n \in Entries : dir'[n] = IF n = Out THEN NoFile ELSE dir[n]
  BY <1>1 DEF PublishTypeOK
<1>n. \A v \in Writers : v # Out /\ v # NoFile /\ v \in Entries
  BY PublishAssumption DEF Out, Entries
<1>4. /\ writer'[w].pc = "tidy" /\ writer'[w].way = writer[w].way
      /\ writer' \in [Writers -> [pc : Places, way : Ways]]
      /\ \A v \in Writers \ {w} : writer'[v] = writer[v]
  BY <1>1, <1>2 DEF PublishTypeOK, Goes, Places
<1>5. PublishTypeOK'
  BY <1>1, <1>2, <1>3, <1>4 DEF PublishTypeOK
<1>6. ContentOK(w)' /\ StageOK(w)'
  <2>1. dir'[w] = dir[w] /\ dir'[Out] = NoFile
    BY <1>1, <1>3
  <2>2. ContentOK(w)'
    BY <1>1, <1>2, <1>4, <2>1 DEF ContentOK
  <2>3. StageOK(w)'
    BY <1>1, <1>4, <2>1 DEF StageOK
  <2> QED
    BY <2>2, <2>3
<1>7. ASSUME NEW v \in Writers \ {w}
      PROVE  ContentOK(v)' /\ StageOK(v)'
  <2>1. /\ dir'[v] = dir[v] /\ dir'[Out] = NoFile /\ v # NoFile
    BY <1>1, <1>3, <1>n
  <2>2. /\ Taken(v) => Taken(v)'
        /\ dir[Out] = v => Taken(v)'
    BY <1>2, <2>1 DEF Taken
  <2>3. /\ v \in late => v \in late'
        /\ At(v, "remove") /\ dir[Out] = v => v \in late'
    BY DEF Overtaken
  <2>4. dirDisk'[v] \in {dirDisk[v], dir[v]} /\ dirDisk'[Out] \in {dirDisk[Out], dir[Out]}
    BY <1>2
  <2>5. /\ writer'[v] = writer[v] /\ length'[v] = length[v] /\ synced'[v] = synced[v]
        /\ (v \in published' <=> v \in published) /\ (v \in leftover' <=> v \in leftover)
        /\ powerLost' = powerLost
    BY <1>2, <1>4
  <2> QED
    BY <2>1, <2>2, <2>3, <2>4, <2>5, OthersKeep
<1>8. RaceOK'
  <2>1. RaceOK
    BY DEF PublishInv
  <2>2. dir[Out] \notin {w, NoFile} => w \in late
    BY <1>1, <1>2 DEF StageOK, At
  <2>3. Overtaken(w) # {} => dir[Out] \notin {w, NoFile}
    BY <1>n DEF Overtaken
  <2> QED
    BY <1>2, <2>1, <2>2, <2>3 DEF RaceOK
<1> QED
  BY <1>5, <1>6, <1>7, <1>8 DEF PublishInv

\* The owner puts a file at the path or removes what is there; the kernel writes an
\* entry back.
LEMMA SurroundingsPreserve ==
  ASSUME PublishInv,
         \/ ChangePath
         \/ \E n \in Entries : WriteBack(n)
  PROVE  PublishInv'
<1>1. /\ PublishTypeOK /\ Out \in Entries
      /\ dir \in [Entries -> FileIds \union {NoFile}]
      /\ dirDisk \in [Entries -> FileIds \union {NoFile}]
      /\ Mine \in FileIds /\ NoFile # Mine
      /\ \A v \in Writers : v # Out /\ v # NoFile /\ v # Mine /\ v \in Entries
  BY PublishAssumption DEF PublishInv, PublishTypeOK, Out, Entries, FileIds
<1>2. CASE ChangePath
  <2>1. /\ dirDisk' = dirDisk /\ length' = length /\ synced' = synced /\ writer' = writer
        /\ published' = published /\ leftover' = leftover /\ powerLost' = powerLost
        /\ swept' = swept
        /\ \/ /\ dir[Out] = NoFile /\ dir' = [dir EXCEPT ![Out] = Mine]
              /\ removed' = removed /\ late' = late
           \/ /\ dir[Out] # NoFile /\ dir' = [dir EXCEPT ![Out] = NoFile]
              /\ removed' = removed \union {dir[Out]}
              /\ late' = late \union Overtaken(NoFile)
    BY <1>2 DEF ChangePath, contentVars
  <2>2. dir' \in [Entries -> FileIds \union {NoFile}] /\ PublishTypeOK'
    <3>1. dir' \in [Entries -> FileIds \union {NoFile}]
      BY <1>1, <2>1
    <3> QED
      BY <1>1, <2>1, <3>1 DEF PublishTypeOK
  <2>3. ASSUME NEW v \in Writers
        PROVE  ContentOK(v)' /\ StageOK(v)'
    <3>1. /\ dir'[v] = dir[v] /\ (dir'[Out] = v => dir[Out] = v)
          /\ dir[Out] = v => dir'[Out] = v \/ Taken(v)'
          /\ Taken(v) => Taken(v)'
      BY <1>1, <2>1 DEF Taken
    <3>4. /\ v \in late => v \in late'
          /\ At(v, "remove") /\ dir[Out] = v => dir'[Out] = v \/ v \in late'
      BY <1>1, <2>1 DEF Overtaken
    <3>2. dirDisk'[v] \in {dirDisk[v], dir[v]} /\ dirDisk'[Out] \in {dirDisk[Out], dir[Out]}
      BY <2>1
    <3>3. /\ writer'[v] = writer[v] /\ length'[v] = length[v] /\ synced'[v] = synced[v]
          /\ (v \in published' <=> v \in published) /\ (v \in leftover' <=> v \in leftover)
      BY <2>1
    <3> QED
      BY <2>1, <3>1, <3>2, <3>3, <3>4, OthersKeep
  <2>4. RaceOK'
    BY <2>1 DEF PublishInv, RaceOK
  <2> QED
    BY <2>2, <2>3, <2>4 DEF PublishInv
<1>3. ASSUME NEW n \in Entries, WriteBack(n)
      PROVE  PublishInv'
  <2>1. /\ dirDisk' = [dirDisk EXCEPT ![n] = dir[n]]
        /\ dir' = dir /\ length' = length /\ synced' = synced /\ writer' = writer
        /\ published' = published /\ leftover' = leftover
        /\ removed' = removed /\ swept' = swept /\ late' = late /\ powerLost' = powerLost
    BY <1>3 DEF WriteBack, contentVars, raceVars, aroundVars
  <2>2. PublishTypeOK'
    <3>1. dirDisk' \in [Entries -> FileIds \union {NoFile}]
      BY <1>1, <2>1
    <3> QED
      BY <1>1, <2>1, <3>1 DEF PublishTypeOK
  <2>3. ASSUME NEW v \in Writers
        PROVE  ContentOK(v)' /\ StageOK(v)'
    <3>1. dirDisk'[v] \in {dirDisk[v], dir[v]} /\ dirDisk'[Out] \in {dirDisk[Out], dir[Out]}
      BY <1>1, <2>1
    <3>2. /\ writer'[v] = writer[v] /\ length'[v] = length[v] /\ synced'[v] = synced[v]
          /\ (v \in published' <=> v \in published) /\ (v \in leftover' <=> v \in leftover)
          /\ dir'[v] = dir[v] /\ (dir'[Out] = v => dir[Out] = v)
          /\ dir[Out] = v => dir'[Out] = v
          /\ (Taken(v) => Taken(v)') /\ (v \in late => v \in late')
      BY <2>1 DEF Taken
    <3> QED
      BY <2>1, <3>1, <3>2, OthersKeep
  <2>4. RaceOK'
    BY <2>1 DEF PublishInv, RaceOK
  <2> QED
    BY <2>2, <2>3, <2>4 DEF PublishInv
<1> QED
  BY <1>2, <1>3

\* The power fails: an entry is found as it was or as it is, and of a file what was
\* fsynced.
LEMMA PowerLossPreserves ==
  ASSUME PublishInv, PowerLoss
  PROVE  PublishInv'
<1>1. /\ PublishTypeOK /\ Out \in Entries /\ \A v \in Writers : v \in Entries
  BY DEF PublishInv, Out, Entries
<1>0. PICK lost \in SUBSET {n \in Entries : dirDisk[n] # dir[n]} :
          dir' = [n \in Entries |-> IF n \in lost THEN dirDisk[n] ELSE dir[n]]
  BY DEF PowerLoss
<1>2. /\ dir' \in [Entries -> FileIds \union {NoFile}]
      /\ \A n \in Entries : dir'[n] \in {dir[n], dirDisk[n]}
      /\ dirDisk' = dir' /\ length' = [w \in Writers |-> synced[w]] /\ powerLost' = TRUE
      /\ writer' = [w \in Writers |->
                    IF Running(w) THEN [writer[w] EXCEPT !.pc = "dead"] ELSE writer[w]]
      /\ synced' = synced /\ published' = published /\ removed' = removed
      /\ swept' = swept /\ late' = late
  <2>1. dir' \in [Entries -> FileIds \union {NoFile}] /\ \A n \in Entries : dir'[n] \in {dir[n], dirDisk[n]}
    BY <1>0, <1>1 DEF PublishTypeOK
  <2> QED
    BY <2>1 DEF PowerLoss, raceVars
<1>3. ASSUME NEW v \in Writers
      PROVE  /\ writer'[v] \in [pc : Places, way : Ways] /\ writer'[v].way = writer[v].way
             /\ \/ writer'[v].pc = "dead"
                \/ writer'[v].pc = writer[v].pc /\ writer[v].pc \in {"ok", "failed", "dead"}
  BY <1>1, <1>2 DEF PublishTypeOK, Running, Places
<1>4. PublishTypeOK'
  <2>1. length' \in [Writers -> 0..Length]
    BY <1>1, <1>2 DEF PublishTypeOK
  <2>2. writer' \in [Writers -> [pc : Places, way : Ways]]
    BY <1>2, <1>3
  <2> QED
    BY <1>1, <1>2, <2>1, <2>2 DEF PublishTypeOK
<1>5. ASSUME NEW v \in Writers
      PROVE  ContentOK(v)' /\ StageOK(v)'
  <2>1. ContentOK(v) /\ StageOK(v)
    BY DEF PublishInv
  <2>2. /\ dir'[v] \in {dir[v], dirDisk[v]} /\ dirDisk'[v] = dir'[v]
        /\ dir'[Out] \in {dir[Out], dirDisk[Out]} /\ dirDisk'[Out] = dir'[Out]
        /\ length'[v] = synced[v] /\ synced'[v] = synced[v]
        /\ (v \in published' <=> v \in published) /\ (Taken(v)' <=> Taken(v))
    BY <1>1, <1>2 DEF Taken
  <2>3. ContentOK(v)'
    BY <1>3, <2>1, <2>2 DEF ContentOK
  <2>4. StageOK(v)'
    BY <1>2, <1>3, <2>1, <2>2 DEF StageOK
  <2> QED
    BY <2>3, <2>4
<1>6. RaceOK'
  BY <1>2 DEF PublishInv, RaceOK
<1> QED
  BY <1>4, <1>5, <1>6 DEF PublishInv

\* PublishInv holds in every state of every behaviour: of any number of writers, each
\* publishing in any of the six ways, with any call failing, and across power losses.
THEOREM PublishInvariant == PublishSpec => []PublishInv
<1>1. PublishInit => PublishInv
  <2> SUFFICES ASSUME PublishInit PROVE PublishInv
    OBVIOUS
  <2>1. /\ \A n \in Entries : dir[n] = NoFile \/ (n = Out /\ dir[n] = Mine)
        /\ dir \in [Entries -> FileIds \union {NoFile}] /\ dirDisk = dir
    BY DEF PublishInit, FileIds
  <2>2. \A w \in Writers : w # Out /\ w # NoFile /\ w # Mine /\ w \in Entries /\ Out \in Entries
    BY PublishAssumption DEF Out, Entries
  <2>3. /\ length = [w \in Writers |-> 0] /\ synced = [w \in Writers |-> 0]
        /\ writer \in [Writers -> [pc : {"look"}, way : Ways]] /\ published = {}
        /\ Length \in Nat \ {0}
    BY PublishAssumption DEF PublishInit
  <2>4. writer \in [Writers -> [pc : Places, way : Ways]]
    BY <2>3 DEF Places
  <2>5. PublishTypeOK
    BY <2>1, <2>3, <2>4 DEF PublishTypeOK
  <2>6. ASSUME NEW w \in Writers
        PROVE  ContentOK(w) /\ StageOK(w)
    <3>1. /\ dir[w] = NoFile /\ dirDisk[w] = NoFile /\ dir[Out] # w /\ dirDisk[Out] # w
          /\ synced[w] = 0 /\ writer[w].pc = "look"
      BY <2>1, <2>2, <2>3
    <3>2. ContentOK(w)
      BY <2>2, <2>3, <3>1 DEF ContentOK
    <3>3. StageOK(w)
      BY <3>1 DEF StageOK, Taken
    <3> QED
      BY <3>2, <3>3
  <2>7. RaceOK
    BY DEF PublishInit, RaceOK
  <2> QED
    BY <2>5, <2>6, <2>7 DEF PublishInv
<1>2. PublishInv /\ [PublishNext]_publishVars => PublishInv'
  <2> SUFFICES ASSUME PublishInv, [PublishNext]_publishVars PROVE PublishInv'
    OBVIOUS
  <2>1. ASSUME NEW w \in Writers, WriterStep(w) \/ Kill(w) PROVE PublishInv'
    <3>1. CASE RemovePath(w)
      BY <3>1, LookBeforePreserves, RemovePreserves DEF RemovePath
    <3>2. CASE LookBeforeUnlink(w)
      BY <3>2, LookBeforePreserves
    <3> QED
      BY <2>1, <3>1, <3>2, LooksPreserve, FailurePreserves, MakesPreserve DEF WriterStep
  <2>2. CASE ChangePath \/ \E n \in Entries : WriteBack(n)
    BY <2>2, SurroundingsPreserve
  <2>3. CASE PowerLoss
    BY <2>3, PowerLossPreserves
  <2>4. CASE UNCHANGED publishVars
    BY <2>4 DEF publishVars, PublishInv, PublishTypeOK, RaceOK, ContentOK, StageOK, Taken
  <2> QED
    BY <2>1, <2>2, <2>3, <2>4 DEF PublishNext
<1> QED
  BY <1>1, <1>2, PTL DEF PublishSpec

\* What is found at the path through a link is whole; what was reported published is
\* there until the owner or another writer's late unlink takes it (the record's also
\* after a power failure), which needs the owner's removal of some file; and a writer
\* that ended leaves nothing behind: for any number of writers and any way.
THEOREM PublishStaysDurable == PublishSpec => []PublishedIsDurable
<1>1. PublishInv => PublishedIsDurable
  <2> SUFFICES ASSUME PublishInv
               PROVE  PublishedIsDurable
    OBVIOUS
  <2>1. ASSUME NEW w \in Writers
        PROVE  /\ dir[Out] = w /\ writer[w].way.temp => length[w] = Length
               /\ At(w, "ok") /\ w \notin removed \union swept =>
                    /\ synced[w] = Length
                    /\ ~powerLost => dir[Out] = w
                    /\ writer[w].way.sync = "must" => dir[Out] = w /\ dirDisk[Out] = w
               /\ (At(w, "ok") \/ At(w, "failed")) /\ w \notin leftover /\ ~powerLost =>
                    /\ dir[w] = NoFile
                    /\ At(w, "failed") => dir[Out] # w
    BY WriterFacts DEF ContentOK, StageOK, At, Taken
  <2>2. swept # {} => removed # {}
    BY DEF PublishInv, RaceOK
  <2> QED
    BY <2>1, <2>2 DEF PublishedIsDurable, PublishedIsComplete, SuccessIsThere, NothingLeftBehind
<1> QED
  BY <1>1, PublishInvariant, PTL

\* No writer ever replaces what is at the path, and what a failing writer removes
\* there is the inode it made itself, unless that one left the path between the
\* writer's last look and its unlink.
THEOREM PublishNeverReplaces == PublishSpec => NeverReplaced
<1>1. ASSUME PublishInv, NEW w \in Writers, WriterStep(w), dir[Out] # NoFile, dir'[Out] # dir[Out]
      PROVE  dir'[Out] = NoFile /\ (dir[Out] = w \/ w \in late)
  <2>1. /\ Out \in Entries /\ w \in Entries /\ w # Out /\ StageOK(w)
        /\ dir \in [Entries -> FileIds \union {NoFile}]
    BY <1>1, WriterFacts DEF PublishTypeOK
  <2>2. CASE CreateFile(w)
    <3>1. PathOf(w) \in {Out, w}
      BY DEF PathOf
    <3> QED
      BY <1>1, <2>1, <2>2, <3>1 DEF CreateFile
  <2>3. CASE LinkFile(w)
    BY <1>1, <2>3 DEF LinkFile
  <2>4. CASE UnlinkTemporary(w) \/ RemoveTemporary(w)
    BY <1>1, <2>1, <2>4 DEF UnlinkTemporary, RemoveTemporary
  <2>5. CASE RemovePath(w)
    <3>1. At(w, "remove") /\ dir' = [dir EXCEPT ![Out] = NoFile]
      BY <1>1, <2>5 DEF RemovePath
    <3>2. dir[Out] = w \/ w \in late
      BY <2>1, <3>1 DEF StageOK, At
    <3> QED
      BY <2>1, <3>1, <3>2
  <2>6. CASE \/ LookForPath(w) \/ Identify(w) \/ WriteChunk(w) \/ SyncFile(w)
             \/ ComparePublished(w) \/ CheckAlone(w) \/ SyncDirectory(w) \/ CallFails(w)
             \/ LookBeforeUnlink(w)
    <3>1. dir' = dir
      BY <2>6 DEF LookForPath, Identify, WriteChunk, SyncFile, ComparePublished, CheckAlone,
         SyncDirectory, CallFails, LookBeforeUnlink
    <3> QED
      BY <1>1, <3>1
  <2> QED
    BY <1>1, <2>2, <2>3, <2>4, <2>5, <2>6 DEF WriterStep
<1>2. PublishInv /\ [PublishNext]_publishVars
      => [\A w \in Writers :
            WriterStep(w) /\ dir[Out] # NoFile /\ dir'[Out] # dir[Out] =>
              dir'[Out] = NoFile /\ (dir[Out] = w \/ w \in late)]_publishVars
  BY <1>1
<1> QED
  BY <1>2, PublishInvariant, PTL DEF PublishSpec, NeverReplaced

-----------------------------------------------------------------------------
(* The two operator tools.  The boundary: what a process holds, what it has *)
(* written, and whose connection it answers.                               *)

Written(b, s) ==
    [kind |-> "receipt", run |-> b, status |-> s, payload |-> Expected] \in taken \union {receipt}

\* The connection a process reads from is the client's own.
ConnectionOK(b) ==
    client.pc # "idle" /\ client.run = b =>
        /\ client.pc = "sending" =>
             boundary[b].pc \in {"reading", "closing", "unlinking", "done"}
        /\ client.pc = "sent" /\ boundary[b].pc \in {"sentTo", "received", "receipted"} =>
             boundary[b].payload = client.payload

ProcessOK(b) ==
    /\ boundary[b].status \in Statuses
    /\ boundary[b].pc = "receipted" =>
          boundary[b].payload = Expected /\ Written(b, boundary[b].status)
    /\ ConnectionOK(b)

ClientOK ==
    /\ client.pc \in {"idle", "connecting", "sending", "sent", "broken", "answered"}
    /\ client.pc \in {"connecting", "sending", "sent", "broken"} =>
          client = [pc |-> client.pc, payload |-> client.payload, run |-> client.run]

BoundaryInv ==
    /\ boundary = [b \in Boundaries |-> boundary[b]]
    /\ \A b \in Boundaries : ProcessOK(b)
    /\ ClientOK
    /\ AnsweredHasReceipt

\* A process moves: what the step must show for that process.
LEMMA ProcessMoves ==
  ASSUME BoundaryInv, NEW b \in Boundaries, NEW x,
         boundary' = [boundary EXCEPT ![b] = x],
         x.status = boundary[b].status, x.pc # "receipted", client' = client,
         receipt' = receipt, taken' = taken,
         x.pc \in {"sentTo", "received"} =>
            boundary[b].pc \in {"sentTo", "received"} /\ x.payload = boundary[b].payload,
         x.pc \in {"closing", "unlinking", "done"}
            \/ ~(client.pc = "sending" /\ client.run = b)
  PROVE  BoundaryInv'
<1>1. /\ boundary' = [v \in Boundaries |-> boundary'[v]] /\ boundary'[b] = x
      /\ \A v \in Boundaries \ {b} : boundary'[v] = boundary[v]
  BY DEF BoundaryInv
<1>2. \A v, s : Written(v, s)' <=> Written(v, s)
  BY DEF Written
<1>3. ASSUME NEW v \in Boundaries
      PROVE  ProcessOK(v)'
  <2>1. CASE v # b
    BY <1>1, <1>2, <2>1 DEF BoundaryInv, ProcessOK, ConnectionOK
  <2>2. CASE v = b
    BY <1>1, <1>2, <2>2 DEF BoundaryInv, ProcessOK, ConnectionOK
  <2> QED
    BY <2>1, <2>2
<1>4. ClientOK' /\ AnsweredHasReceipt'
  BY DEF BoundaryInv, ClientOK, AnsweredHasReceipt
<1> QED
  BY <1>1, <1>3, <1>4 DEF BoundaryInv

\* A step of a boundary process.
LEMMA BoundaryKeeps ==
  ASSUME BoundaryInv, NEW b \in Boundaries, BoundaryStep(b)
  PROVE  BoundaryInv'
<1> DEFINE to(place) == [pc |-> place, status |-> boundary[b].status]
<1> DEFINE holding(place) == [pc |-> place, status |-> boundary[b].status,
                           payload |-> boundary[b].payload]
<1>1. ProcessOK(b) /\ ClientOK /\ AnsweredHasReceipt /\ boundary = [v \in Boundaries |-> boundary[v]]
  BY DEF BoundaryInv
<1>2. ASSUME NEW place \in {"valid", "listening", "closing", "unlinking", "done"},
             Moves(b, place), client' = client, receipt' = receipt, taken' = taken,
             place \in {"closing", "unlinking", "done"} \/ In(b, "new") \/ In(b, "valid")
      PROVE  BoundaryInv'
  <2>1. /\ boundary' = [boundary EXCEPT ![b] = to(place)]
        /\ to(place).pc = place /\ to(place).status = boundary[b].status
    BY <1>2 DEF Moves
  <2>2. place \in {"closing", "unlinking", "done"} \/ ~(client.pc = "sending" /\ client.run = b)
    BY <1>1, <1>2 DEF ProcessOK, ConnectionOK, In
  <2> HIDE DEF to
  <2> QED
    BY <1>2, <2>1, <2>2, ProcessMoves
<1>3. CASE ValidateTargets(b)
  <2>1. PICK place \in {"valid", "done"} : Moves(b, place)
    BY <1>3 DEF ValidateTargets
  <2> QED
    BY <1>2, <1>3, <2>1 DEF ValidateTargets
<1>4. CASE Bind(b)
  <2>1. PICK place \in {"listening", "done"} : Moves(b, place)
    BY <1>4 DEF Bind
  <2> QED
    BY <1>2, <1>4, <2>1 DEF Bind
<1>5. CASE BoundaryFails(b) \/ UnlinkSocket(b) \/ BoundaryKilled(b)
  BY <1>2, <1>5 DEF BoundaryFails, UnlinkSocket, BoundaryKilled
<1>6. CASE LookAtSocket(b)
  <2>1. PICK place \in {"unlinking", "done"} : Moves(b, place)
    BY <1>6 DEF LookAtSocket
  <2> QED
    BY <1>2, <1>6, <2>1 DEF LookAtSocket
<1>7. CASE ReadFrame(b)
  <2>1. /\ boundary' = [boundary EXCEPT ![b] = holding("received")] /\ In(b, "sentTo")
        /\ client' = client /\ receipt' = receipt /\ taken' = taken
        /\ holding("received").pc = "received" /\ holding("received").status = boundary[b].status
        /\ holding("received").payload = boundary[b].payload
    BY <1>7 DEF ReadFrame, Holds
  <2>2. ~(client.pc = "sending" /\ client.run = b)
    BY <1>1, <2>1 DEF ProcessOK, ConnectionOK, In
  <2> HIDE DEF holding
  <2> QED
    BY <2>1, <2>2, ProcessMoves DEF In
<1>8. CASE Accept(b)
  <2>1. /\ boundary' = [boundary EXCEPT ![b] = to("reading")]
        /\ client.pc = "connecting" /\ client.run = b
        /\ client' = [client EXCEPT !.pc = "sending"] /\ receipt' = receipt /\ taken' = taken
    BY <1>8 DEF Accept, Moves
  <2>2. client' = [pc |-> "sending", payload |-> client.payload, run |-> b]
    BY <1>1, <2>1 DEF ClientOK
  <2>3. /\ boundary' = [v \in Boundaries |-> boundary'[v]]
        /\ boundary'[b].pc = "reading" /\ boundary'[b].status = boundary[b].status
        /\ \A v \in Boundaries \ {b} : boundary'[v] = boundary[v]
    BY <1>1, <2>1
  <2>4. \A v, s : Written(v, s)' <=> Written(v, s)
    BY <2>1 DEF Written
  <2>5. ASSUME NEW v \in Boundaries
        PROVE  ProcessOK(v)'
    <3>1. CASE v # b
      BY <2>2, <2>3, <2>4, <3>1 DEF BoundaryInv, ProcessOK, ConnectionOK
    <3>2. CASE v = b
      BY <1>1, <2>2, <2>3, <3>2 DEF ProcessOK, ConnectionOK
    <3> QED
      BY <3>1, <3>2
  <2>6. ClientOK' /\ AnsweredHasReceipt'
    BY <2>2 DEF ClientOK, AnsweredHasReceipt
  <2> QED
    BY <2>3, <2>5, <2>6 DEF BoundaryInv
<1>9. CASE WriteReceipt(b)
  <2>1. CASE Moves(b, "closing") /\ receipt' = receipt
    BY <1>2, <1>9, <2>1 DEF WriteReceipt
  <2>2. CASE boundary[b].payload = Expected /\ receipt = Nothing
    <3>1. /\ receipt' = ReceiptOf(b) /\ In(b, "received")
          /\ boundary' = [boundary EXCEPT ![b] = holding("receipted")]
          /\ client' = client /\ taken' = taken
      BY <1>9, <2>2 DEF WriteReceipt, Holds
    <3>2. /\ boundary' = [v \in Boundaries |-> boundary'[v]]
          /\ boundary'[b] = holding("receipted")
          /\ \A v \in Boundaries \ {b} : boundary'[v] = boundary[v]
      BY <1>1, <3>1
    <3>3. /\ boundary'[b].pc = "receipted" /\ boundary'[b].status = boundary[b].status
          /\ boundary'[b].payload = boundary[b].payload
      BY <3>2
    <3>4. \A v, s : Written(v, s) => Written(v, s)'
      <4>1. ASSUME NEW v, NEW s, Written(v, s)
            PROVE  Written(v, s)'
        <5>1. [kind |-> "receipt", run |-> v, status |-> s, payload |-> Expected] # receipt
          BY <2>2 DEF Nothing
        <5> QED
          BY <3>1, <4>1, <5>1 DEF Written
      <4> QED
        BY <4>1
    <3>5. Written(b, boundary[b].status)'
      BY <2>2, <3>1, <3>3 DEF Written, ReceiptOf
    <3>6. ASSUME NEW v \in Boundaries
          PROVE  ProcessOK(v)'
      <4>1. CASE v # b
        BY <3>1, <3>2, <3>4, <4>1 DEF BoundaryInv, ProcessOK, ConnectionOK
      <4>2. CASE v = b
        BY <1>1, <2>2, <3>1, <3>3, <3>5, <4>2 DEF ProcessOK, ConnectionOK, In
      <4> QED
        BY <4>1, <4>2
    <3>7. ClientOK'
      BY <1>1, <3>1 DEF ClientOK
    <3>8. AnsweredHasReceipt'
      BY <1>1, <3>1, <3>4 DEF AnsweredHasReceipt, Written
    <3> QED
      BY <3>2, <3>6, <3>7, <3>8 DEF BoundaryInv
  <2> QED
    BY <1>9, <2>1, <2>2 DEF WriteReceipt
<1>10. CASE Acknowledge(b)
  <2>1. /\ boundary' = [boundary EXCEPT ![b] = to("closing")] /\ In(b, "receipted")
        /\ receipt' = receipt /\ taken' = taken /\ Moves(b, "closing")
    BY <1>10 DEF Acknowledge, Moves
  <2>2. CASE ~(client.pc = "sent" /\ client.run = b)
    <3>1. client' = client
      BY <1>10, <2>2 DEF Acknowledge
    <3> QED
      BY <1>2, <2>1, <3>1
  <2>3. CASE client.pc = "sent" /\ client.run = b
    <3>1. client' = [pc |-> "answered", payload |-> client.payload, run |-> b,
                     answer |-> CanonicalAck(boundary[b].status, boundary[b].payload)]
      BY <1>10, <2>3 DEF Acknowledge
    <3>2. /\ boundary[b].payload = Expected /\ client.payload = Expected
          /\ Written(b, boundary[b].status) /\ boundary[b].status \in Statuses
      BY <1>1, <2>1, <2>3 DEF ProcessOK, ConnectionOK, In
    <3>3. AnsweredHasReceipt'
      <4>1. /\ client'.pc = "answered" /\ client'.payload = Expected /\ client'.run = b
            /\ client'.answer.status = boundary[b].status
            /\ client'.answer.digest \subseteq {Expected}
        BY <3>1, <3>2 DEF CanonicalAck
      <4> QED
        BY <2>1, <3>2, <4>1 DEF AnsweredHasReceipt, Written, Statuses
    <3>4. /\ boundary' = [v \in Boundaries |-> boundary'[v]]
          /\ boundary'[b].pc = "closing" /\ boundary'[b].status = boundary[b].status
          /\ \A v \in Boundaries \ {b} : boundary'[v] = boundary[v]
      BY <1>1, <2>1
    <3>5. \A v, s : Written(v, s)' <=> Written(v, s)
      BY <2>1 DEF Written
    <3>6. ASSUME NEW v \in Boundaries
          PROVE  ProcessOK(v)'
      <4>1. CASE v # b
        BY <3>1, <3>4, <3>5, <4>1 DEF BoundaryInv, ProcessOK, ConnectionOK
      <4>2. CASE v = b
        BY <1>1, <3>1, <3>4, <4>2 DEF ProcessOK, ConnectionOK
      <4> QED
        BY <4>1, <4>2
    <3>7. ClientOK'
      BY <3>1 DEF ClientOK
    <3> QED
      BY <3>3, <3>4, <3>6, <3>7 DEF BoundaryInv
  <2> QED
    BY <2>2, <2>3
<1> QED
  BY <1>3, <1>4, <1>5, <1>6, <1>7, <1>8, <1>9, <1>10 DEF BoundaryStep

\* What the client, the network and the operator do.
LEMMA OutsideKeeps ==
  ASSUME BoundaryInv,
         Send \/ ConnectionBreaks \/ RemoveSocket \/ TakeReceipt \/ \E p \in Payloads : Connect(p)
  PROVE  BoundaryInv'
<1>1. ClientOK /\ AnsweredHasReceipt /\ boundary = [v \in Boundaries |-> boundary[v]]
  BY DEF BoundaryInv
<1>2. \A v, s : Written(v, s) => Written(v, s)'
  BY DEF Written, Send, ConnectionBreaks, RemoveSocket, TakeReceipt, Connect
<1>3. CASE RemoveSocket \/ TakeReceipt
  <2>1. boundary' = boundary /\ client' = client
    BY <1>3 DEF RemoveSocket, TakeReceipt
  <2>2. ClientOK' /\ \A v \in Boundaries : ProcessOK(v)'
    BY <1>2, <2>1 DEF BoundaryInv, ClientOK, ProcessOK, ConnectionOK
  <2>3. AnsweredHasReceipt'
    BY <1>1, <1>2, <2>1 DEF AnsweredHasReceipt, Written
  <2> QED
    BY <1>1, <2>1, <2>2, <2>3 DEF BoundaryInv
<1>4. ASSUME NEW place \in {"connecting", "broken"}, NEW p, NEW q,
             client' = [pc |-> place, payload |-> p, run |-> q], boundary' = boundary
      PROVE  BoundaryInv'
  <2>1. ClientOK' /\ AnsweredHasReceipt'
    BY <1>4 DEF ClientOK, AnsweredHasReceipt
  <2>2. \A v \in Boundaries : ProcessOK(v)'
    BY <1>2, <1>4 DEF BoundaryInv, ProcessOK, ConnectionOK
  <2> QED
    BY <1>1, <1>4, <2>1, <2>2 DEF BoundaryInv
<1>5. CASE ConnectionBreaks
  <2>1. client' = [pc |-> "broken", payload |-> client.payload, run |-> client.run]
    BY <1>1, <1>5 DEF ConnectionBreaks, ClientOK
  <2> QED
    BY <1>4, <1>5, <2>1 DEF ConnectionBreaks
<1>6. CASE \E p \in Payloads : Connect(p)
  BY <1>4, <1>6 DEF Connect
<1>7. CASE Send
  <2>1. /\ client.pc = "sending" /\ receipt' = receipt /\ taken' = taken
        /\ client' = [pc |-> "sent", payload |-> client.payload, run |-> client.run]
    BY <1>1, <1>7 DEF Send, ClientOK
  <2>2. ClientOK' /\ AnsweredHasReceipt'
    BY <2>1 DEF ClientOK, AnsweredHasReceipt
  <2>3. CASE In(client.run, "reading") /\ client.run \in Boundaries
    <3> DEFINE x == [pc |-> "sentTo", status |-> boundary[client.run].status,
                     payload |-> client.payload]
    <3>1. /\ boundary' = [boundary EXCEPT ![client.run] = x]
          /\ x.pc = "sentTo" /\ x.status = boundary[client.run].status
          /\ x.payload = client.payload
      BY <1>7, <2>3 DEF Send, Holds
    <3> HIDE DEF x
    <3>2. /\ boundary' = [v \in Boundaries |-> boundary'[v]] /\ boundary'[client.run] = x
          /\ \A v \in Boundaries \ {client.run} : boundary'[v] = boundary[v]
      BY <1>1, <2>3, <3>1
    <3>3. ASSUME NEW v \in Boundaries
          PROVE  ProcessOK(v)'
      <4>1. CASE v # client.run
        BY <1>2, <2>1, <3>2, <4>1 DEF BoundaryInv, ProcessOK, ConnectionOK
      <4>2. CASE v = client.run
        BY <2>1, <3>1, <3>2, <4>2 DEF BoundaryInv, ProcessOK, ConnectionOK
      <4> QED
        BY <4>1, <4>2
    <3> QED
      BY <2>2, <3>2, <3>3 DEF BoundaryInv
  <2>4. CASE ~ In(client.run, "reading") \/ client.run \notin Boundaries
    <3>1. boundary' = boundary
      <4>1. CASE ~ In(client.run, "reading")
        BY <1>7, <4>1 DEF Send
      <4>2. CASE client.run \notin Boundaries
        BY <1>1, <1>7, <4>2 DEF Send, Holds
      <4> QED
        BY <2>4, <4>1, <4>2
    <3>2. ASSUME NEW v \in Boundaries
          PROVE  ProcessOK(v)'
      <4>1. v = client.run => boundary[v].pc \in {"closing", "unlinking", "done"}
        BY <2>1, <2>4 DEF BoundaryInv, ProcessOK, ConnectionOK, In
      <4> QED
        BY <1>2, <2>1, <3>1, <4>1 DEF BoundaryInv, ProcessOK, ConnectionOK
    <3> QED
      BY <1>1, <2>2, <3>1, <3>2 DEF BoundaryInv
  <2> QED
    BY <2>3, <2>4
<1> QED
  BY <1>3, <1>5, <1>6, <1>7

(* The record: whatever an attestation or the record names was on its host  *)
(* since the challenge it names was made.                                   *)
Since(r, a, c) == c \in made /\ <<r, a>> \in since[c]

\* What the hosts hold now.
DeployedOK ==
    /\ made \subseteq Challenges
    /\ challenge \in [Roles -> made \union {NoChallenge}]
    /\ artifact \in [Roles -> Artifacts]
    /\ since = [c \in Challenges |-> since[c]]
    /\ \A r \in Roles, c \in made : <<r, artifact[r]>> \in since[c]

\* What an attest process has read.
AttesterOK(r) ==
    /\ attester[r].pc \in {"idle", "challenge", "artifact"}
    /\ attester[r].pc = "challenge" => attester[r].challenge \in made
    /\ attester[r].pc = "artifact" => Since(r, attester[r].artifact, attester[r].challenge)

AttestationOK(a) ==
    /\ Since(a.role, a.artifact, a.challenge)
    /\ a.digest = <<a.role, a.challenge, a.commit, a.artifact, a.payload, a.day>>

RecordInv ==
    /\ DeployedOK
    /\ attester = [r \in Roles |-> attester[r]]
    /\ \A r \in Roles : AttesterOK(r)
    /\ \A a \in attested : AttestationOK(a)
    /\ RecordIsFresh /\ (record # Nothing => record.challenge \in made)

\* What was on a host since a challenge stays so.
LEMMA SinceStays ==
  ASSUME RecordInv, DeployedOK', made \subseteq made',
         \A c \in made : since[c] \subseteq since'[c],
         attested' = attested, record' = record, attester' = attester
  PROVE  RecordInv'
<1>1. \A r, a, c : Since(r, a, c) => Since(r, a, c)'
  BY DEF Since
<1>2. \A r \in Roles : AttesterOK(r)'
  BY <1>1 DEF RecordInv, AttesterOK
<1>3. \A a \in attested' : AttestationOK(a)'
  BY <1>1 DEF RecordInv, AttestationOK
<1>4. RecordIsFresh' /\ (record' # Nothing => record'.challenge \in made')
  BY DEF RecordInv, RecordIsFresh
<1> QED
  BY <1>2, <1>3, <1>4 DEF RecordInv

\* A step of a host or of its operator.
LEMMA HostKeeps ==
  ASSUME RecordInv, NEW r \in Roles, HostStep(r)
  PROVE  RecordInv'
<1>1. DeployedOK /\ AttesterOK(r) /\ attester = [q \in Roles |-> attester[q]]
  BY DEF RecordInv
<1>2. CASE \E c \in Challenges : CreateChallenge(r, c)
  <2>1. PICK c \in Challenges : CreateChallenge(r, c)
    BY <1>2
  <2>2. /\ c \notin made /\ made' = made \union {c}
        /\ challenge' = [challenge EXCEPT ![r] = c]
        /\ since' = [since EXCEPT ![c] = {<<q, artifact[q]>> : q \in Roles}]
        /\ artifact' = artifact /\ attested' = attested /\ record' = record
        /\ attester' = attester
    BY <2>1 DEF CreateChallenge
  <2>3. /\ since' = [d \in Challenges |-> since'[d]]
        /\ since'[c] = {<<q, artifact[q]>> : q \in Roles}
        /\ \A d \in made : since'[d] = since[d]
    BY <1>1, <2>2 DEF DeployedOK
  <2>4. challenge' \in [Roles -> made' \union {NoChallenge}]
    BY <1>1, <2>2 DEF DeployedOK
  <2>5. DeployedOK'
    BY <1>1, <2>2, <2>3, <2>4 DEF DeployedOK
  <2> QED
    BY <2>2, <2>3, <2>5, SinceStays
<1>3. CASE \E q \in Roles : CopyChallenge(r, q)
  <2>1. PICK q \in Roles : CopyChallenge(r, q)
    BY <1>3
  <2>2. /\ challenge' = [challenge EXCEPT ![r] = challenge[q]]
        /\ UNCHANGED <<made, artifact, since, attester, attested, record>>
    BY <2>1 DEF CopyChallenge
  <2>3. DeployedOK'
    BY <1>1, <2>2 DEF DeployedOK
  <2> QED
    BY <2>2, <2>3, SinceStays
<1>4. CASE \E a \in Artifacts : Redeploy(r, a)
  <2>1. PICK a \in Artifacts : Redeploy(r, a)
    BY <1>4
  <2>2. /\ artifact' = [artifact EXCEPT ![r] = a]
        /\ since' = [c \in Challenges |->
                       IF c \in made THEN since[c] \union {<<r, a>>} ELSE since[c]]
        /\ UNCHANGED <<challenge, made, attester, attested, record>>
    BY <2>1 DEF Redeploy
  <2>3. \A c \in made : since'[c] = since[c] \union {<<r, a>>}
    BY <1>1, <2>2 DEF DeployedOK
  <2>4. artifact' \in [Roles -> Artifacts]
        /\ \A q \in Roles : artifact'[q] = IF q = r THEN a ELSE artifact[q]
    BY <1>1, <2>2 DEF DeployedOK
  <2>5. DeployedOK'
    BY <1>1, <2>2, <2>3, <2>4 DEF DeployedOK
  <2> QED
    BY <2>2, <2>3, <2>5, SinceStays
<1>5. ASSUME NEW x, attester' = [attester EXCEPT ![r] = x],
             UNCHANGED <<challenge, made, artifact, since, record>>,
             x.pc \in {"idle", "challenge", "artifact"},
             x.pc = "challenge" => x.challenge \in made,
             x.pc = "artifact" => Since(r, x.artifact, x.challenge),
             \A a \in attested' : AttestationOK(a)
      PROVE  RecordInv'
  <2>1. /\ attester' = [q \in Roles |-> attester'[q]] /\ attester'[r] = x
        /\ \A q \in Roles \ {r} : attester'[q] = attester[q]
    BY <1>1, <1>5
  <2>2. \A q, a, c : Since(q, a, c)' <=> Since(q, a, c)
    BY <1>5 DEF Since
  <2>3. ASSUME NEW q \in Roles
        PROVE  AttesterOK(q)'
    <3>1. CASE q = r
      BY <1>5, <2>1, <2>2, <3>1 DEF AttesterOK
    <3>2. CASE q # r
      BY <1>5, <2>1, <2>2, <3>2 DEF RecordInv, AttesterOK
    <3> QED
      BY <3>1, <3>2
  <2>4. \A a \in attested' : AttestationOK(a)'
    BY <1>5, <2>2 DEF AttestationOK
  <2>5. DeployedOK' /\ RecordIsFresh' /\ (record' # Nothing => record'.challenge \in made')
    BY <1>5 DEF RecordInv, DeployedOK, RecordIsFresh
  <2> QED
    BY <2>1, <2>3, <2>4, <2>5 DEF RecordInv
<1>o. \A a \in attested : AttestationOK(a)
  BY DEF RecordInv
<1>6. CASE \E o \in Observations : ReadChallenge(r, o)
  <2>1. PICK o \in Observations : ReadChallenge(r, o)
    BY <1>6
  <2> DEFINE x == [pc |-> "challenge", seen |-> o, challenge |-> challenge[r]]
  <2>2. /\ attester' = [attester EXCEPT ![r] = x] /\ challenge[r] # NoChallenge
        /\ UNCHANGED <<challenge, made, artifact, since, record>> /\ attested' = attested
        /\ x.pc = "challenge" /\ x.challenge = challenge[r]
    BY <2>1 DEF ReadChallenge
  <2>3. challenge[r] \in made
    BY <1>1, <2>2 DEF DeployedOK
  <2> HIDE DEF x
  <2> QED
    BY <1>5, <1>o, <2>2, <2>3
<1>7. CASE HashArtifact(r)
  <2> DEFINE x == [pc |-> "artifact", seen |-> attester[r].seen,
                   challenge |-> attester[r].challenge, artifact |-> artifact[r]]
  <2>1. /\ attester' = [attester EXCEPT ![r] = x] /\ attester[r].pc = "challenge"
        /\ UNCHANGED <<challenge, made, artifact, since, record>> /\ attested' = attested
        /\ x.pc = "artifact" /\ x.challenge = attester[r].challenge /\ x.artifact = artifact[r]
    BY <1>7 DEF HashArtifact
  <2> HIDE DEF x
  <2>2. Since(r, x.artifact, x.challenge)
    BY <1>1, <2>1 DEF DeployedOK, AttesterOK, Since
  <2> QED
    BY <1>5, <1>o, <2>1, <2>2
<1>8. CASE AttestFails(r)
  <2> DEFINE x == [pc |-> "idle"]
  <2>1. /\ attester' = [attester EXCEPT ![r] = x] /\ x.pc = "idle"
        /\ UNCHANGED <<challenge, made, artifact, since, record>> /\ attested' = attested
    BY <1>8 DEF AttestFails
  <2> HIDE DEF x
  <2> QED
    BY <1>5, <1>o, <2>1
<1>9. CASE Attest(r)
  <2> DEFINE x == [pc |-> "idle"]
  <2> DEFINE new ==
        [role |-> r, challenge |-> attester[r].challenge, artifact |-> attester[r].artifact,
         commit |-> attester[r].seen.commit, payload |-> attester[r].seen.payload,
         day |-> attester[r].seen.day,
         digest |-> <<r, attester[r].challenge, attester[r].seen.commit, attester[r].artifact,
                      attester[r].seen.payload, attester[r].seen.day>>]
  <2>1. /\ attester' = [attester EXCEPT ![r] = x] /\ x.pc = "idle"
        /\ UNCHANGED <<challenge, made, artifact, since, record>>
        /\ attested' = attested \union {new} /\ attester[r].pc = "artifact"
    BY <1>9 DEF Attest, ExecutionAttestation
  <2>2. AttestationOK(new)
    <3>1. /\ new.role = r /\ new.challenge = attester[r].challenge
          /\ new.artifact = attester[r].artifact
          /\ new.digest = <<new.role, new.challenge, new.commit, new.artifact, new.payload, new.day>>
      OBVIOUS
    <3>2. Since(r, attester[r].artifact, attester[r].challenge)
      BY <1>1, <2>1 DEF AttesterOK
    <3> HIDE DEF new
    <3> QED
      BY <3>1, <3>2 DEF AttestationOK
  <2> HIDE DEF new
  <2>3. \A a \in attested' : AttestationOK(a)
    BY <1>o, <2>1, <2>2
  <2> HIDE DEF x
  <2> QED
    BY <1>5, <2>1, <2>3
<1> QED
  BY <1>2, <1>3, <1>4, <1>6, <1>7, <1>8, <1>9 DEF HostStep

\* The record is built from two attestations.
LEMMA BuildKeeps ==
  ASSUME RecordInv, NEW s \in attested, NEW g \in attested, BuildRecord(s, g)
  PROVE  RecordInv'
<1>1. /\ AttestationOK(s) /\ AttestationOK(g) /\ s.role = "sender" /\ g.role = "guardian"
      /\ s.commit = g.commit /\ s.challenge = g.challenge /\ s.payload = g.payload
      /\ s.day = g.day /\ s.artifact # g.artifact
  BY DEF RecordInv, BuildRecord, ReadAttestation, Matching
<1>2. /\ record'.challenge = s.challenge /\ record'.commit = s.commit
      /\ record'.payload = s.payload /\ record'.day = s.day
      /\ record'.client = s.artifact /\ record'.guardian = g.artifact
      /\ record'.sender_sha256 = s.digest /\ record'.guardian_sha256 = g.digest
      /\ UNCHANGED <<challenge, made, artifact, since, attester, attested>>
  BY DEF BuildRecord
<1>3. RecordIsFresh' /\ record'.challenge \in made'
  BY <1>1, <1>2 DEF RecordIsFresh, AttestationOK, Since
<1>4. DeployedOK' /\ \A r \in Roles : AttesterOK(r)'
  BY <1>2 DEF RecordInv, DeployedOK, AttesterOK, Since
<1>5. \A a \in attested' : AttestationOK(a)'
  BY <1>2 DEF RecordInv, AttestationOK, Since
<1> QED
  BY <1>2, <1>3, <1>4, <1>5 DEF RecordInv

\* The inductive invariant of both tools.
HostInv == BoundaryInv /\ RecordInv

\* HostInv holds whatever breaks, is killed, redeployed or taken away, for any number
\* of boundary processes, payloads, challenges, executables and attestations.
THEOREM TwoHostInvariant == TwoHostSpec => []HostInv
<1>1. TwoHostInit => HostInv
  <2> SUFFICES ASSUME TwoHostInit PROVE HostInv
    OBVIOUS
  <2>1. BoundaryInv
    <3>1. \A b \in Boundaries : boundary[b].pc = "new" /\ boundary[b].status \in Statuses
      BY DEF TwoHostInit, BoundaryInit
    <3>2. client.pc = "idle" /\ boundary = [b \in Boundaries |-> boundary[b]]
      BY DEF TwoHostInit, BoundaryInit
    <3> QED
      BY <3>1, <3>2 DEF BoundaryInv, ProcessOK, ConnectionOK, ClientOK, AnsweredHasReceipt
  <2>2. RecordInv
    BY DEF TwoHostInit, RecordInit, RecordInv, DeployedOK, AttesterOK, RecordIsFresh
  <2> QED
    BY <2>1, <2>2 DEF HostInv
<1>2. HostInv /\ [TwoHostNext]_twoHostVars => HostInv'
  <2>1. ASSUME BoundaryInv, UNCHANGED boundaryVars
        PROVE  BoundaryInv'
    BY <2>1 DEF boundaryVars, BoundaryInv, ProcessOK, ConnectionOK, ClientOK, AnsweredHasReceipt,
       Written
  <2>2. ASSUME RecordInv, UNCHANGED recordVars
        PROVE  RecordInv'
    BY <2>2 DEF recordVars, RecordInv, DeployedOK, AttesterOK, AttestationOK, Since, RecordIsFresh
  <2>3. BoundaryInv /\ BoundaryNext => BoundaryInv'
    BY BoundaryKeeps, OutsideKeeps DEF BoundaryNext
  <2>4. RecordInv /\ RecordNext => RecordInv'
    BY HostKeeps, BuildKeeps DEF RecordNext
  <2> QED
    BY <2>1, <2>2, <2>3, <2>4 DEF HostInv, TwoHostNext, twoHostVars
<1> QED
  BY <1>1, <1>2, PTL DEF TwoHostSpec

\* EvidenceIsSound: whoever was answered by the boundary has a receipt of the process
\* that answered, and both executables a record names were on their hosts since its
\* challenge was made; for any number of processes, hosts' changes and attestations.
THEOREM TwoHostEvidenceIsSound == TwoHostSpec => []EvidenceIsSound
<1>1. HostInv => EvidenceIsSound
  BY DEF HostInv, BoundaryInv, RecordInv, EvidenceIsSound
<1> QED
  BY <1>1, TwoHostInvariant, PTL

-----------------------------------------------------------------------------
(* Scanning a model directory. *)

Stats == [inode : Inodes, stamp : Nat]
DirFrames ==
    [inode : DirectoryInodes, before : Stats, path : Seq(Names), todo : SUBSET Names,
     found : SUBSET (Names \X Inodes)]

InDirectory == {"list", "next", "child", "file", "hash"}
AtEntry == {"child", "file", "hash"}

TreeTypeOK ==
    /\ entries \in [DirectoryInodes -> [Names -> Inodes \union {NoInode}]]
    /\ bytes = [f \in Files |-> bytes[f]]
    /\ \A f \in Files : bytes[f] = [k \in 1 .. 2 |-> bytes[f][k]]
    /\ stamp \in [Inodes -> Nat]
    /\ held = [f \in Files |-> held[f]]

ScanTypeOK ==
    /\ scan.pc \in {"idle", "root", "done", "failed"} \union InDirectory
    /\ stack \in Seq(DirFrames)
    /\ scan.pc \in InDirectory <=> stack # <<>>
    /\ scan.pc \in {"idle", "root"} => files = {}
    /\ scan.pc \in AtEntry => scan.name \in Names /\ scan.name \notin Top.todo
    /\ \E S : manifest \in Seq(S)

\* Frames are nested: each lies one name deeper than the one below, under a name that one
\* is done with.
Nested ==
    \A k \in 1 .. Len(stack) :
        /\ Len(stack[k].path) = k - 1
        /\ \A j \in 1 .. (k - 1) :
             Begins(stack[j].path, stack[k].path) /\ stack[k].path[j] \notin stack[j].todo

\* A path is not one of those that begin with the base and a name of ns.
Past(path, base, ns) ==
    Begins(base, path) /\ Len(path) > Len(base) => path[Len(base) + 1] \notin ns

\* The files that are listed lie under no name that is still to be looked at or is being
\* looked at.
FilesArePast ==
    \A entry \in files :
        /\ entry[1] \in Seq(Names)
        /\ \A k \in 1 .. Len(stack) : Past(entry[1], stack[k].path, stack[k].todo)
        /\ scan.pc \in AtEntry => Past(entry[1], Top.path, {scan.name})
        /\ scan.pc = "list" => ~ Begins(Top.path, entry[1])

FilesAreListed ==
    /\ IsFiniteSet(files) /\ Cardinality(files) <= MaxModelFiles
    /\ \A x, y \in files : x[1] = y[1] => x = y

\* What a file's hash has read so far is what the file holds, unless its stamp moved.
HashOK ==
    scan.pc = "hash" =>
        /\ scan = [pc |-> "hash", name |-> scan.name, before |-> scan.before,
                   read |-> scan.read]
        /\ scan.before \in Stats /\ scan.before.inode \in Files
        /\ scan.before.stamp <= stamp[scan.before.inode]
        /\ \E S : scan.read \in Seq(S)
        /\ Len(scan.read) <= 2
        /\ stamp[scan.before.inode] = scan.before.stamp =>
             \A k \in 1 .. Len(scan.read) : scan.read[k] = bytes[scan.before.inode][k]

\* What a frame has left and has found is what its directory holds, unless the directory's
\* stamp moved since it was entered.
FrameOK(r, listing) ==
    /\ r.before.inode = r.inode
    /\ r.before.stamp <= stamp[r.inode]
    /\ listing => r.todo = {} /\ r.found = {}
    /\ stamp[r.inode] = r.before.stamp /\ ~ listing =>
         /\ \A n \in Names :
              (n \in r.todo \/ \E i \in Inodes : <<n, i>> \in r.found)
              <=> entries[r.inode][n] # NoInode
         /\ \A p \in r.found : entries[r.inode][p[1]] = p[2]

FramesOK ==
    \A k \in 1 .. Len(stack) :
        FrameOK(stack[k], scan.pc = "list" /\ k = Len(stack))

HeldOK == Scanning => \A f \in Files : bytes[f] \in held[f]

ProvenanceInv ==
    /\ TreeTypeOK /\ ScanTypeOK
    /\ Nested /\ FilesArePast /\ FilesAreListed
    /\ HashOK /\ FramesOK /\ HeldOK
    /\ ManifestIsSound

\* Nothing is scanned at the start.
LEMMA ProvenanceInitInv == ProvenanceInit => ProvenanceInv
<1> SUFFICES ASSUME ProvenanceInit PROVE ProvenanceInv
  OBVIOUS
<1>1. /\ scan.pc = "idle" /\ stack = <<>> /\ files = {} /\ manifest = <<>>
  BY DEF ProvenanceInit, NoScan
<1>2. TreeTypeOK
  <2>1. PICK c : c = CHOOSE x \in Chunks : TRUE
    OBVIOUS
  <2>2. bytes = [f \in Files |-> <<c, c>>]
    BY <2>1 DEF ProvenanceInit
  <2>3. \A f \in Files : bytes[f] = <<c, c>>
    BY <2>2
  <2>4. \A f \in Files : bytes[f] = [k \in 1 .. 2 |-> bytes[f][k]]
    BY <2>3
  <2> QED
    BY <2>2, <2>4, ProvenanceAssumption DEF ProvenanceInit, TreeTypeOK, DirectoryInodes
<1>3. ScanTypeOK
  <2>1. manifest \in Seq({})
    BY <1>1
  <2> QED
    BY <1>1, <2>1 DEF ScanTypeOK, InDirectory, AtEntry
<1>4. Len(stack) = 0 /\ DOMAIN manifest = {}
  BY <1>1
<1>5. Nested /\ FilesArePast /\ HashOK /\ FramesOK /\ HeldOK
  BY <1>1, <1>4 DEF Nested, FilesArePast, HashOK, FramesOK, HeldOK, Scanning
<1>6. FilesAreListed
  BY <1>1, FS_EmptySet, ProvenanceAssumption DEF FilesAreListed
<1>7. ManifestIsSound
  BY <1>1, <1>4 DEF ManifestIsSound, DigestsAreWhole, ManifestsAgree
<1> QED
  BY <1>2, <1>3, <1>5, <1>6, <1>7 DEF ProvenanceInv

\* What the owner's steps have in common: stamps only grow, of the directories whose
\* entries change and of the files whose bytes change, and the scan is not touched.
OwnerEdit ==
    /\ stamp' \in [Inodes -> Nat]
    /\ \A i \in Inodes : stamp[i] <= stamp'[i]
    /\ \A d \in DirectoryInodes : stamp'[d] = stamp[d] => entries'[d] = entries[d]
    /\ \A f \in Files : stamp'[f] = stamp[f] => bytes'[f] = bytes[f]
    /\ entries' \in [DirectoryInodes -> [Names -> Inodes \union {NoInode}]]
    /\ bytes' = [f \in Files |-> bytes'[f]]
    /\ \A f \in Files : bytes'[f] = [k \in 1 .. 2 |-> bytes'[f][k]]
    /\ UNCHANGED scanVars
    /\ Seen

\* Touching inodes moves their stamps and no others.
LEMMA TouchedStamps ==
  ASSUME TreeTypeOK, NEW is, Edit(is)
  PROVE  /\ stamp' \in [Inodes -> Nat]
         /\ \A i \in Inodes : stamp[i] <= stamp'[i]
         /\ \A i \in Inodes : i \in is => stamp'[i] # stamp[i]
BY DEF TreeTypeOK, Edit, Touched

\* Each of the owner's steps is such an edit.
LEMMA OwnerEdits ==
  ASSUME ProvenanceInv, TreeOwnerStep
  PROVE  OwnerEdit
<1> USE DEF ProvenanceInv
<1> DirectoryInodes \subseteq Inodes /\ Files \subseteq Inodes
  BY DEF DirectoryInodes, Inodes
<1>1. ASSUME NEW f \in Files, NEW k \in 1 .. 2, NEW c \in Chunks, Rewrite(f, k, c)
      PROVE  OwnerEdit
  <2>1. Edit({f}) /\ bytes' = [bytes EXCEPT ![f][k] = c]
        /\ UNCHANGED <<entries, shared, scanVars>> /\ Seen
    BY <1>1 DEF Rewrite
  <2>2. \A g \in Files : g # f => bytes'[g] = bytes[g]
    BY <2>1 DEF TreeTypeOK
  <2>3. bytes' = [g \in Files |-> bytes'[g]]
    BY <2>1 DEF TreeTypeOK
  <2>4. bytes'[f] = [bytes[f] EXCEPT ![k] = c]
    BY <2>1 DEF TreeTypeOK
  <2>5. bytes'[f] = [m \in 1 .. 2 |-> bytes'[f][m]]
    BY <2>4 DEF TreeTypeOK
  <2>6. \A g \in Files : bytes'[g] = [m \in 1 .. 2 |-> bytes'[g][m]]
    BY <2>2, <2>5 DEF TreeTypeOK
  <2>7. stamp'[f] # stamp[f]
    BY <2>1, TouchedStamps
  <2> QED
    BY <2>1, <2>2, <2>3, <2>6, <2>7, TouchedStamps DEF OwnerEdit, TreeTypeOK
<1>2. ASSUME NEW d \in DirectoryInodes, NEW e \in DirectoryInodes, NEW n \in Names,
             NEW m \in Names, Rename(d, n, e, m)
      PROVE  OwnerEdit
  <2>1. PICK i, is :
          /\ i \in Files /\ d \in is /\ e \in is
          /\ Edit(is)
          /\ entries' = [[entries EXCEPT ![d][n] = NoInode] EXCEPT ![e][m] = i]
          /\ UNCHANGED <<bytes, shared, scanVars>> /\ Seen
    BY <1>2 DEF Rename
  <2>2. PICK middle : middle = [entries EXCEPT ![d][n] = NoInode]
    OBVIOUS
  <2>3. middle \in [DirectoryInodes -> [Names -> Inodes \union {NoInode}]]
        /\ \A g \in DirectoryInodes : g # d => middle[g] = entries[g]
    BY <2>2 DEF TreeTypeOK
  <2>4. entries' = [middle EXCEPT ![e][m] = i]
    BY <2>1, <2>2
  <2>5. entries' \in [DirectoryInodes -> [Names -> Inodes \union {NoInode}]]
        /\ \A g \in DirectoryInodes : g # e => entries'[g] = middle[g]
    <3>1. i \in Inodes
      BY <2>1
    <3> QED
      BY <2>3, <2>4, <3>1
  <2>6. stamp'[d] # stamp[d] /\ stamp'[e] # stamp[e]
    BY <2>1, TouchedStamps
  <2>7. \A g \in DirectoryInodes : stamp'[g] = stamp[g] => entries'[g] = entries[g]
    BY <2>3, <2>5, <2>6
  <2>8. stamp' \in [Inodes -> Nat] /\ \A j \in Inodes : stamp[j] <= stamp'[j]
    BY <2>1, TouchedStamps
  <2>9. UNCHANGED <<bytes, scanVars>> /\ Seen
    BY <2>1
  <2> QED
    BY <2>5, <2>7, <2>8, <2>9 DEF OwnerEdit, TreeTypeOK
<1>3. ASSUME NEW d \in DirectoryInodes, NEW n \in Names, NEW i \in Files \union {NoInode},
             LinkOrUnlink(d, n, i)
      PROVE  OwnerEdit
  <2>1. d # NoInode
    BY ProvenanceAssumption
  <2>2. PICK is :
          /\ d \in is
          /\ Edit(is)
          /\ entries' = [entries EXCEPT ![d][n] = i]
          /\ UNCHANGED <<bytes, shared, scanVars>> /\ Seen
    BY <1>3, <2>1 DEF LinkOrUnlink
  <2>3. entries' \in [DirectoryInodes -> [Names -> Inodes \union {NoInode}]]
        /\ \A g \in DirectoryInodes : g # d => entries'[g] = entries[g]
    BY <2>2 DEF TreeTypeOK
  <2>4. stamp'[d] # stamp[d]
    BY <2>2, TouchedStamps
  <2> QED
    BY <2>2, <2>3, <2>4, TouchedStamps DEF OwnerEdit, TreeTypeOK
<1>4. ASSUME NEW i \in Inodes, ChangeMode(i) PROVE OwnerEdit
  <2>1. Edit({i}) /\ UNCHANGED <<entries, bytes, scanVars>> /\ Seen
    BY <1>4 DEF ChangeMode
  <2> QED
    BY <2>1, TouchedStamps DEF OwnerEdit, TreeTypeOK
<1> QED
  BY <1>1, <1>2, <1>3, <1>4 DEF TreeOwnerStep

\* The owner's edits keep the invariant: what an edit makes untrue of the scan has a new
\* stamp.
LEMMA OwnerKeepsScan ==
  ASSUME ProvenanceInv, OwnerEdit
  PROVE  ProvenanceInv'
<1>0. /\ scan' = scan /\ stack' = stack /\ files' = files /\ manifest' = manifest
      /\ Top' = Top
  BY DEF OwnerEdit, scanVars, Top
<1>1. /\ held' = [f \in Files |-> held'[f]]
      /\ \A f \in Files : held[f] \subseteq held'[f]
      /\ Scanning => \A f \in Files : bytes'[f] \in held'[f]
  BY DEF OwnerEdit, Seen, ProvenanceInv, TreeTypeOK
<1>2. TreeTypeOK'
  BY <1>1 DEF OwnerEdit, TreeTypeOK
<1>3. ScanTypeOK'
  BY <1>0 DEF ProvenanceInv, ScanTypeOK
<1>4. Nested' /\ FilesAreListed'
  BY <1>0 DEF ProvenanceInv, Nested, FilesAreListed
<1>5. FilesArePast'
  BY <1>0 DEF ProvenanceInv, FilesArePast, Past, Begins
<1>6. HashOK'
  <2>1. ASSUME scan.pc = "hash"
        PROVE  /\ scan.before.stamp <= stamp'[scan.before.inode]
               /\ stamp'[scan.before.inode] = scan.before.stamp =>
                    \A k \in 1 .. Len(scan.read) :
                       scan.read[k] = bytes'[scan.before.inode][k]
    <3>1. PICK f, s : f = scan.before.inode /\ s = scan.before.stamp
      OBVIOUS
    <3>2. f \in Files /\ f \in Inodes /\ s \in Nat /\ s <= stamp[f]
      BY <2>1, <3>1 DEF ProvenanceInv, HashOK, Stats
    <3>3. stamp[f] \in Nat /\ stamp'[f] \in Nat /\ stamp[f] <= stamp'[f]
      BY <3>2 DEF OwnerEdit, ProvenanceInv, TreeTypeOK
    <3>4. s <= stamp'[f]
      BY <3>2, <3>3
    <3>5. PICK x, y : x = stamp[f] /\ y = stamp'[f]
      OBVIOUS
    <3>6. stamp'[f] = s => stamp'[f] = stamp[f]
      <4>1. x \in Nat /\ y \in Nat /\ s \in Nat /\ s <= x /\ x <= y
        BY <3>2, <3>3, <3>5
      <4>2. y = s => y = x
        BY <4>1
      <4> QED
        BY <3>5, <4>2
    <3>7. stamp'[f] = stamp[f] => bytes'[f] = bytes[f]
      BY <3>2 DEF OwnerEdit
    <3> QED
      BY <2>1, <3>1, <3>4, <3>6, <3>7 DEF ProvenanceInv, HashOK
  <2> QED
    BY <1>0, <2>1 DEF ProvenanceInv, HashOK
<1>7. ASSUME NEW r \in DirFrames, NEW b, FrameOK(r, b) PROVE FrameOK(r, b)'
  <2>1. r.inode \in DirectoryInodes /\ r.inode \in Inodes /\ r.before.stamp \in Nat
    BY DEF DirFrames, Stats, DirectoryInodes, Inodes
  <2>2. stamp[r.inode] \in Nat /\ stamp'[r.inode] \in Nat
        /\ stamp[r.inode] <= stamp'[r.inode]
    BY <2>1 DEF OwnerEdit, ProvenanceInv, TreeTypeOK
  <2>3. r.before.stamp <= stamp'[r.inode]
    BY <1>7, <2>1, <2>2 DEF FrameOK
  <2>4. stamp'[r.inode] = r.before.stamp => stamp'[r.inode] = stamp[r.inode]
    <3>1. PICK s, x, y : s = r.before.stamp /\ x = stamp[r.inode] /\ y = stamp'[r.inode]
      OBVIOUS
    <3>2. s \in Nat /\ x \in Nat /\ y \in Nat /\ s <= x /\ x <= y
      BY <1>7, <2>1, <2>2, <3>1 DEF FrameOK
    <3>3. y = s => y = x
      BY <3>2
    <3> QED
      BY <3>1, <3>3
  <2>5. stamp'[r.inode] = stamp[r.inode] => entries'[r.inode] = entries[r.inode]
    BY <2>1 DEF OwnerEdit
  <2> QED
    BY <1>7, <2>3, <2>4, <2>5 DEF FrameOK
<1>8. FramesOK'
  <2>1. stack \in Seq(DirFrames)
    BY DEF ProvenanceInv, ScanTypeOK
  <2>2. ASSUME NEW k \in 1 .. Len(stack)
        PROVE  FrameOK(stack[k], scan.pc = "list" /\ k = Len(stack))'
    <3>1. PICK b, r : b = (scan.pc = "list" /\ k = Len(stack)) /\ r = stack[k]
      OBVIOUS
    <3>2. r \in DirFrames
      BY <2>1, <3>1
    <3>3. FrameOK(r, b)
      BY <3>1 DEF ProvenanceInv, FramesOK
    <3>4. FrameOK(r, b)'
      BY <1>7, <3>2, <3>3
    <3> QED
      BY <1>0, <3>1, <3>4 DEF FrameOK
  <2> QED
    BY <1>0, <2>2 DEF FramesOK
<1>9. HeldOK'
  BY <1>0, <1>1 DEF HeldOK, Scanning
<1>10. ManifestIsSound'
  BY <1>0, <1>1 DEF ProvenanceInv, ManifestIsSound, DigestsAreWhole, ManifestsAgree
<1> QED
  BY <1>2, <1>3, <1>4, <1>5, <1>6, <1>8, <1>9, <1>10 DEF ProvenanceInv

\* What is true of a scan step that neither lists a file nor ends the scan: the invariant
\* is about scan and stack alone.
LEMMA ScanStepKeeps ==
  ASSUME ProvenanceInv, UNCHANGED <<treeVars, held, trees, files, manifest>>,
         scan'.pc \in InDirectory, stack # <<>> \/ scan.pc = "root",
         ScanTypeOK', Nested', FilesArePast', HashOK', FramesOK'
  PROVE  ProvenanceInv'
<1>1. Scanning
  BY DEF Scanning, ProvenanceInv, ScanTypeOK, InDirectory
<1>2. TreeTypeOK' /\ HeldOK'
  BY <1>1 DEF ProvenanceInv, TreeTypeOK, HeldOK, treeVars
<1>3. FilesAreListed' /\ ManifestIsSound'
  BY DEF ProvenanceInv, FilesAreListed, ManifestIsSound, DigestsAreWhole, ManifestsAgree
<1> QED
  BY <1>2, <1>3 DEF ProvenanceInv

\* A failure clears the scan.
LEMMA FailsKeeps ==
  ASSUME ProvenanceInv, Fails
  PROVE  ProvenanceInv'
<1>1. /\ scan'.pc = "failed" /\ stack' = <<>> /\ files' = {} /\ Len(stack') = 0
      /\ UNCHANGED <<treeVars, manifest, listed, held, trees>>
  BY DEF Fails
<1>2. TreeTypeOK'
  BY <1>1 DEF ProvenanceInv, TreeTypeOK, treeVars
<1>3. ScanTypeOK'
  BY <1>1 DEF ProvenanceInv, ScanTypeOK, InDirectory, AtEntry
<1>4. Nested' /\ FilesArePast' /\ HashOK' /\ FramesOK' /\ HeldOK'
  BY <1>1 DEF Nested, FilesArePast, HashOK, FramesOK, HeldOK, Scanning
<1>5. FilesAreListed'
  BY <1>1, FS_EmptySet, ProvenanceAssumption DEF FilesAreListed
<1>6. ManifestIsSound'
  BY <1>1 DEF ProvenanceInv, ManifestIsSound, DigestsAreWhole, ManifestsAgree
<1> QED
  BY <1>2, <1>3, <1>4, <1>5, <1>6 DEF ProvenanceInv

\* The least name of a set, by its rank.
LEMMA FirstIn ==
  ASSUME NEW ns, ns \subseteq Names, ns # {}
  PROVE  First(ns) \in ns
<1> DEFINE R == {ss \in Nat \X Nat : ss[1] < ss[2]}
           ranks == {NameRank[n] : n \in ns}
<1>1. IsWellFoundedOn(R, Nat)
  BY NatLessThanWellFounded DEF OpToRel
<1>2. ranks \subseteq Nat /\ ranks # {}
  BY ProvenanceAssumption
<1>3. \A x \in Nat, y \in Nat : x < y => <<x, y>> \in R
  OBVIOUS
<1> HIDE DEF R
<1>4. PICK least \in ranks : \A x \in ranks : ~ (<<x, least>> \in R)
  <2> HIDE DEF ranks
  <2> QED
    BY <1>1, <1>2, WFMin
<1>5. \A x \in ranks : least <= x
  <2> HIDE DEF ranks
  <2>1. ASSUME NEW x \in ranks PROVE least <= x
    <3>1. x \in Nat /\ least \in Nat
      BY <1>2, <1>4
    <3>2. ~ (x < least)
      BY <1>3, <1>4, <3>1
    <3> QED
      BY <3>1, <3>2
  <2> QED
    BY <2>1
<1>6. PICK n \in ns : NameRank[n] = least
  BY <1>4
<1>7. \A m \in ns : NameRank[n] <= NameRank[m]
  BY <1>5, <1>6
<1> QED
  BY <1>7 DEF First

\* While a directory is open, the innermost frame is one.
LEMMA TopFrame ==
  ASSUME ProvenanceInv, scan.pc \in InDirectory
  PROVE  /\ stack \in Seq(DirFrames) /\ Len(stack) \in Nat \ {0}
         /\ Top \in DirFrames /\ Top = stack[Len(stack)]
         /\ Len(Top.path) = Len(stack) - 1
         /\ FrameOK(Top, scan.pc = "list")
<1>1. stack \in Seq(DirFrames) /\ stack # <<>>
  BY DEF ProvenanceInv, ScanTypeOK
<1>2. Len(stack) \in Nat \ {0} /\ Top \in DirFrames
  BY <1>1 DEF Top
<1>3. Len(stack) \in 1 .. Len(stack)
  BY <1>2
<1>4. Len(Top.path) = Len(stack) - 1
  BY <1>3 DEF ProvenanceInv, Nested, Top
<1>5. FrameOK(stack[Len(stack)], scan.pc = "list" /\ Len(stack) = Len(stack))
  BY <1>3 DEF ProvenanceInv, FramesOK
<1>6. FrameOK(Top, scan.pc = "list")
  BY <1>5 DEF Top, FrameOK
<1> QED
  BY <1>1, <1>2, <1>4, <1>6 DEF Top

\* Paths stay nested when the innermost frame is replaced by one for the same directory.
LEMMA TopReplaced ==
  ASSUME ProvenanceInv, scan.pc \in InDirectory, NEW r \in DirFrames, r.path = Top.path,
         stack' = [stack EXCEPT ![Len(stack)] = r]
  PROVE  /\ stack' \in Seq(DirFrames) /\ Len(stack') = Len(stack) /\ stack' # <<>>
         /\ Top' = r
         /\ \A k \in 1 .. Len(stack) : k # Len(stack) => stack'[k] = stack[k]
         /\ Nested'
<1> PICK n : n = Len(stack)
  OBVIOUS
<1>1. n \in Nat \ {0} /\ stack \in Seq(DirFrames)
  BY TopFrame
<1>2. stack' \in Seq(DirFrames) /\ Len(stack') = n
  <2>1. stack \in [1 .. n -> DirFrames]
    BY <1>1
  <2>2. stack' \in [1 .. n -> DirFrames]
    BY <2>1
  <2> QED
    BY <1>1, <2>2
<1>3. stack'[n] = r /\ \A k \in 1 .. n : k # n => stack'[k] = stack[k]
  BY <1>1
<1>4. stack' # <<>> /\ Top' = r
  BY <1>1, <1>2, <1>3 DEF Top
<1>5. ASSUME NEW k \in 1 .. n
      PROVE  /\ Len(stack'[k].path) = k - 1
             /\ \A j \in 1 .. (k - 1) : Begins(stack'[j].path, stack'[k].path)
                                       /\ stack'[k].path[j] \notin stack'[j].todo
  <2>1. stack'[k].path = stack[k].path
    BY <1>3 DEF Top
  <2>2. \A j \in 1 .. (k - 1) : stack'[j] = stack[j]
    BY <1>1, <1>3
  <2> QED
    BY <2>1, <2>2 DEF ProvenanceInv, Nested
<1>6. Nested'
  BY <1>2, <1>5 DEF Nested
<1> QED
  BY <1>2, <1>3, <1>4, <1>6

\* Starting a scan keeps the invariant: nothing is open yet.
LEMMA StartScanKeeps ==
  ASSUME ProvenanceInv, StartScan
  PROVE  ProvenanceInv'
<1>1. /\ scan'.pc = "root" /\ stack' = <<>> /\ files' = {} /\ Len(stack') = 0
      /\ held' = [f \in Files |-> {bytes[f]}]
      /\ UNCHANGED <<treeVars, manifest>>
  BY DEF StartScan
<1>2. TreeTypeOK'
  BY <1>1 DEF ProvenanceInv, TreeTypeOK, treeVars
<1>3. ScanTypeOK'
  BY <1>1 DEF ProvenanceInv, ScanTypeOK, InDirectory, AtEntry
<1>4. Nested' /\ FilesArePast' /\ HashOK' /\ FramesOK'
  BY <1>1 DEF Nested, FilesArePast, HashOK, FramesOK
<1>5. HeldOK'
  BY <1>1 DEF HeldOK, treeVars
<1>6. FilesAreListed'
  BY <1>1, FS_EmptySet, ProvenanceAssumption DEF FilesAreListed
<1>7. ManifestIsSound'
  BY <1>1 DEF ProvenanceInv, ManifestIsSound, DigestsAreWhole, ManifestsAgree
<1> QED
  BY <1>2, <1>3, <1>4, <1>5, <1>6, <1>7 DEF ProvenanceInv

\* Entering a directory keeps the invariant, at a path of its own that no listed file has.
LEMMA EnterKeeps ==
  ASSUME ProvenanceInv, NEW i \in DirectoryInodes, NEW path \in Seq(Names),
         Enter(i, path), scan.pc \in {"root", "child"},
         Len(path) = Len(stack),
         \A j \in 1 .. Len(stack) :
            Begins(stack[j].path, path) /\ path[j] \notin stack[j].todo,
         \A entry \in files : ~ Begins(path, entry[1])
  PROVE  ProvenanceInv'
<1> PICK r : r = [inode |-> i, before |-> Stat(i), path |-> path, todo |-> {}, found |-> {}]
  OBVIOUS
<1> PICK n : n = Len(stack)
  OBVIOUS
<1>0. i \in Inodes /\ stamp[i] \in Nat
  BY DEF DirectoryInodes, Inodes, ProvenanceInv, TreeTypeOK
<1>1. r \in DirFrames
  <2>1. Stat(i) \in Stats
    BY <1>0 DEF Stat, Stats
  <2> QED
    BY <2>1 DEF DirFrames
<1>2. /\ scan'.pc = "list" /\ stack' = Append(stack, r)
      /\ UNCHANGED <<treeVars, held, trees, files, manifest>>
  BY DEF Enter, ScanStep
<1>3. stack \in Seq(DirFrames) /\ n \in Nat
  BY DEF ProvenanceInv, ScanTypeOK
<1>4. /\ stack' \in Seq(DirFrames) /\ Len(stack') = n + 1 /\ stack' # <<>>
      /\ stack'[n + 1] = r
      /\ \A k \in 1 .. n : stack'[k] = stack[k]
  BY <1>1, <1>2, <1>3
<1>5. Top' = r
  BY <1>4 DEF Top
<1>6. ScanTypeOK'
  BY <1>2, <1>4 DEF ProvenanceInv, ScanTypeOK, InDirectory, AtEntry
<1>7. Nested'
  <2>1. ASSUME NEW k \in 1 .. (n + 1)
        PROVE  /\ Len(stack'[k].path) = k - 1
               /\ \A j \in 1 .. (k - 1) : Begins(stack'[j].path, stack'[k].path)
                                         /\ stack'[k].path[j] \notin stack'[j].todo
    <3>1. \A j \in 1 .. (k - 1) : j \in 1 .. n /\ stack'[j] = stack[j]
      BY <1>3, <1>4
    <3>2. ASSUME k = n + 1
          PROVE  /\ Len(stack'[k].path) = k - 1
                 /\ \A j \in 1 .. (k - 1) : Begins(stack'[j].path, stack'[k].path)
                                           /\ stack'[k].path[j] \notin stack'[j].todo
      <4>1. stack'[k].path = path
        BY <1>4, <3>2
      <4> QED
        BY <1>3, <3>1, <3>2, <4>1
    <3>3. ASSUME k # n + 1
          PROVE  /\ Len(stack'[k].path) = k - 1
                 /\ \A j \in 1 .. (k - 1) : Begins(stack'[j].path, stack'[k].path)
                                           /\ stack'[k].path[j] \notin stack'[j].todo
      <4>1. k \in 1 .. n /\ stack'[k] = stack[k]
        BY <1>3, <1>4, <3>3
      <4> QED
        BY <3>1, <4>1 DEF ProvenanceInv, Nested
    <3> QED
      BY <3>2, <3>3
  <2> QED
    BY <1>4, <2>1 DEF Nested
<1>8. FilesArePast'
  <2>1. ASSUME NEW entry \in files, NEW k \in 1 .. (n + 1)
        PROVE  Past(entry[1], stack'[k].path, stack'[k].todo)
    <3>1. k \in 1 .. n => Past(entry[1], stack'[k].path, stack'[k].todo)
      BY <1>4 DEF ProvenanceInv, FilesArePast
    <3>2. Past(entry[1], stack'[n + 1].path, stack'[n + 1].todo)
      BY <1>4 DEF Past
    <3>3. k \in 1 .. n \/ k = n + 1
      BY <1>3
    <3> QED
      BY <3>1, <3>2, <3>3
  <2>2. \A entry \in files : entry[1] \in Seq(Names) /\ ~ Begins(Top'.path, entry[1])
    BY <1>5 DEF ProvenanceInv, FilesArePast
  <2>3. \A entry \in files : \A k \in 1 .. (n + 1) :
          Past(entry[1], stack[k].path, stack[k].todo)'
          <=> Past(entry[1], stack'[k].path, stack'[k].todo)
    BY <1>2 DEF Past, Begins
  <2> QED
    BY <1>2, <1>4, <2>1, <2>2, <2>3 DEF FilesArePast, AtEntry, Past, Begins
<1>9. HashOK'
  BY <1>2 DEF HashOK
<1>10. FramesOK'
  <2>1. FrameOK(r, TRUE)
    BY <1>0 DEF FrameOK, Stat
  <2>2. stamp' = stamp /\ entries' = entries
    BY <1>2 DEF treeVars
  <2>3. scan.pc # "list"
    OBVIOUS
  <2>4. ASSUME NEW k \in 1 .. (n + 1)
        PROVE  FrameOK(stack'[k], scan'.pc = "list" /\ k = Len(stack'))
    <3>1. CASE k = n + 1
      BY <1>2, <1>4, <2>1, <3>1 DEF FrameOK
    <3>2. CASE k # n + 1
      <4>1. k \in 1 .. n
        BY <1>3, <3>2
      <4>2. FrameOK(stack[k], scan.pc = "list" /\ k = Len(stack))
        BY <4>1 DEF ProvenanceInv, FramesOK
      <4> QED
        BY <1>4, <2>3, <3>2, <4>1, <4>2 DEF FrameOK
    <3> QED
      BY <3>1, <3>2
  <2> QED
    BY <1>4, <2>2, <2>4 DEF FramesOK, FrameOK
<1> QED
  <2>1. stack # <<>> \/ scan.pc = "root"
    BY DEF ProvenanceInv, ScanTypeOK, InDirectory
  <2> QED
    BY <1>2, <1>6, <1>7, <1>8, <1>9, <1>10, <2>1, ScanStepKeeps DEF InDirectory

\* What is true when the innermost frame and the scan change and nothing else does.
LEMMA TopStepKeeps ==
  ASSUME ProvenanceInv, scan.pc \in InDirectory, NEW r \in DirFrames, r.path = Top.path,
         stack' = [stack EXCEPT ![Len(stack)] = r],
         UNCHANGED <<treeVars, held, trees, files, manifest>>,
         scan.pc \in {"list", "next"}, scan'.pc \in {"next", "file", "child"},
         scan'.pc \in AtEntry => scan'.name \in Names /\ scan'.name \notin r.todo,
         \A entry \in files :
            /\ Past(entry[1], Top.path, r.todo)
            /\ scan'.pc \in AtEntry => Past(entry[1], Top.path, {scan'.name}),
         FrameOK(r, FALSE)
  PROVE  ProvenanceInv'
<1> PICK n : n = Len(stack)
  OBVIOUS
<1>1. n \in Nat \ {0} /\ stack # <<>>
  BY TopFrame
<1>2. /\ stack' \in Seq(DirFrames) /\ Len(stack') = n /\ stack' # <<>>
      /\ Top' = r /\ stack'[n] = r
      /\ \A k \in 1 .. n : k # n => stack'[k] = stack[k]
      /\ Nested'
  <2>1. /\ stack' \in Seq(DirFrames) /\ Len(stack') = n /\ stack' # <<>>
        /\ Top' = r
        /\ \A k \in 1 .. n : k # n => stack'[k] = stack[k]
        /\ Nested'
    BY TopReplaced
  <2> QED
    BY <2>1 DEF Top
<1>3. ScanTypeOK'
  BY <1>2 DEF ProvenanceInv, ScanTypeOK, InDirectory, AtEntry
<1>4. FilesArePast'
  <2>1. ASSUME NEW entry \in files, NEW k \in 1 .. n
        PROVE  Past(entry[1], stack'[k].path, stack'[k].todo)
    <3>1. k = n => Past(entry[1], stack'[k].path, stack'[k].todo)
      BY <1>2
    <3>2. k # n => Past(entry[1], stack'[k].path, stack'[k].todo)
      BY <1>2 DEF ProvenanceInv, FilesArePast
    <3> QED
      BY <3>1, <3>2
  <2>2. \A entry \in files : entry[1] \in Seq(Names)
    BY DEF ProvenanceInv, FilesArePast
  <2>3. \A entry \in files : scan'.pc \in AtEntry => Past(entry[1], Top'.path, {scan'.name})
    BY <1>2
  <2>4. scan'.pc # "list"
    OBVIOUS
  <2> QED
    BY <1>2, <2>1, <2>2, <2>3, <2>4 DEF FilesArePast, AtEntry, Past, Begins
<1>5. HashOK'
  BY DEF HashOK
<1>6. FramesOK'
  <2>1. stamp' = stamp /\ entries' = entries
    BY DEF treeVars
  <2>2. ASSUME NEW k \in 1 .. n
        PROVE  FrameOK(stack'[k], FALSE)
    <3>1. CASE k = n
      BY <1>2, <3>1
    <3>2. CASE k # n
      <4>1. FrameOK(stack[k], scan.pc = "list" /\ k = Len(stack))
        BY DEF ProvenanceInv, FramesOK
      <4> QED
        BY <1>2, <3>2, <4>1 DEF FrameOK
    <3> QED
      BY <3>1, <3>2
  <2>3. scan'.pc # "list"
    OBVIOUS
  <2>4. \A k \in 1 .. n : FrameOK(stack[k], scan.pc = "list" /\ k = Len(stack))'
    BY <2>1, <2>2, <2>3 DEF FrameOK
  <2> QED
    BY <1>2, <2>4 DEF FramesOK
<1> QED
  BY <1>1, <1>2, <1>3, <1>4, <1>5, <1>6, ScanStepKeeps DEF InDirectory

\* The fstat a directory's scan begins with keeps the invariant: nothing is listed yet.
LEMMA BeginDirectoryKeeps ==
  ASSUME ProvenanceInv, BeginDirectory
  PROVE  ProvenanceInv'
<1>1. CASE Len(stack) - 1 > MaxModelDepth
  BY <1>1, FailsKeeps DEF BeginDirectory
<1>2. CASE ~ (Len(stack) - 1 > MaxModelDepth)
  <2> PICK n : n = Len(stack)
    OBVIOUS
  <2>0. scan.pc = "list" /\ scan.pc \in InDirectory
    BY DEF BeginDirectory, InDirectory
  <2>1. PICK b, r : b = Stat(Top.inode) /\ r = [Top EXCEPT !.before = b]
    OBVIOUS
  <2>2. /\ scan' = [pc |-> "list", begun |-> TRUE] /\ scan'.pc = "list"
        /\ stack' = [stack EXCEPT ![Len(stack)].before = b]
        /\ UNCHANGED <<treeVars, held, trees, files, manifest>>
    BY <1>2, <2>1 DEF BeginDirectory, ScanStep
  <2>3. /\ Top \in DirFrames /\ Top = stack[Len(stack)] /\ n \in Nat \ {0}
        /\ Top.todo = {} /\ Top.found = {}
    <3>1. FrameOK(Top, scan.pc = "list")
      BY <2>0, TopFrame
    <3> QED
      BY <2>0, <3>1, TopFrame DEF FrameOK
  <2>4. b \in Stats /\ b.inode = Top.inode /\ b.stamp = stamp[Top.inode]
    <3>1. Top.inode \in DirectoryInodes
      BY <2>3 DEF DirFrames
    <3>2. Top.inode \in Inodes /\ stamp[Top.inode] \in Nat
      BY <3>1 DEF DirectoryInodes, Inodes, ProvenanceInv, TreeTypeOK
    <3> QED
      BY <2>1, <3>2 DEF Stat, Stats
  <2>5. /\ r \in DirFrames /\ r.path = Top.path /\ r.inode = Top.inode
        /\ r.before = b /\ r.todo = {} /\ r.found = {}
    BY <2>1, <2>3, <2>4 DEF DirFrames
  <2>6. stack' = [stack EXCEPT ![Len(stack)] = r]
    BY <2>1, <2>2, <2>3
  <2>7. /\ stack' \in Seq(DirFrames) /\ Len(stack') = n /\ stack' # <<>>
        /\ Top' = r
        /\ \A k \in 1 .. n : k # n => stack'[k] = stack[k]
        /\ Nested'
    BY <2>0, <2>5, <2>6, TopReplaced
  <2>8. stack'[n] = r
    BY <2>7 DEF Top
  <2>9. ScanTypeOK'
    BY <2>0, <2>2, <2>7 DEF ProvenanceInv, ScanTypeOK, InDirectory, AtEntry
  <2>10. FilesArePast'
    <3>1. ASSUME NEW entry \in files, NEW k \in 1 .. n
          PROVE  Past(entry[1], stack'[k].path, stack'[k].todo)
      <4>1. k = n => Past(entry[1], stack'[k].path, stack'[k].todo)
        BY <2>5, <2>8 DEF Past
      <4>2. k # n => Past(entry[1], stack'[k].path, stack'[k].todo)
        BY <2>7 DEF ProvenanceInv, FilesArePast
      <4> QED
        BY <4>1, <4>2
    <3>2. \A entry \in files : entry[1] \in Seq(Names) /\ ~ Begins(Top'.path, entry[1])
      BY <2>0, <2>5, <2>7 DEF ProvenanceInv, FilesArePast
    <3> QED
      BY <2>2, <2>7, <3>1, <3>2 DEF FilesArePast, AtEntry, Past, Begins
  <2>11. HashOK'
    BY <2>2 DEF HashOK
  <2>12. FramesOK'
    <3>1. stamp' = stamp /\ entries' = entries
      BY <2>2 DEF treeVars
    <3>2. ASSUME NEW k \in 1 .. n
          PROVE  FrameOK(stack'[k], k = n)
      <4>1. CASE k = n
        <5>1. stamp[r.inode] \in Nat
          BY <2>4, <2>5 DEF Stats
        <5> QED
          BY <2>4, <2>5, <2>8, <4>1, <5>1 DEF FrameOK
      <4>2. CASE k # n
        <5>1. FrameOK(stack[k], scan.pc = "list" /\ k = Len(stack))
          BY DEF ProvenanceInv, FramesOK
        <5> QED
          BY <2>7, <4>2, <5>1 DEF FrameOK
      <4> QED
        BY <4>1, <4>2
    <3>3. \A k \in 1 .. n : FrameOK(stack[k], scan.pc = "list" /\ k = Len(stack))'
      BY <2>2, <2>7, <3>1, <3>2 DEF FrameOK
    <3> QED
      BY <2>7, <3>3 DEF FramesOK
  <2>13. stack # <<>>
    BY <2>0 DEF ProvenanceInv, ScanTypeOK
  <2> QED
    BY <2>0, <2>2, <2>7, <2>9, <2>10, <2>11, <2>12, <2>13, ScanStepKeeps DEF InDirectory
<1> QED
  BY <1>1, <1>2

\* Listing the names keeps the invariant: no file below this path is listed yet.
LEMMA ListNamesKeeps ==
  ASSUME ProvenanceInv, ListNames
  PROVE  ProvenanceInv'
<1>0. scan.pc = "list" /\ scan.pc \in InDirectory
  BY DEF ListNames, InDirectory
<1>1. PICK ns, r : /\ ns = {n \in Names : entries[Top.inode][n] # NoInode}
                   /\ r = [Top EXCEPT !.todo = ns]
  OBVIOUS
<1>2. /\ scan' = [pc |-> "next"]
      /\ stack' = [stack EXCEPT ![Len(stack)].todo = ns]
      /\ UNCHANGED <<treeVars, held, trees, files, manifest>>
  BY <1>1 DEF ListNames, ScanStep
<1>3. /\ Top \in DirFrames /\ Top = stack[Len(stack)]
      /\ FrameOK(Top, TRUE)
  <2>1. FrameOK(Top, scan.pc = "list")
    BY <1>0, TopFrame
  <2>2. FrameOK(Top, TRUE)
    BY <1>0, <2>1 DEF FrameOK
  <2> QED
    BY <1>0, <2>2, TopFrame
<1>4. /\ r \in DirFrames /\ r.path = Top.path /\ r.inode = Top.inode
      /\ r.before = Top.before /\ r.todo = ns /\ r.found = Top.found
  <2>1. ns \subseteq Names
    BY <1>1
  <2> QED
    BY <1>1, <1>3, <2>1 DEF DirFrames
<1>5. stack' = [stack EXCEPT ![Len(stack)] = r]
  BY <1>1, <1>2, <1>3
<1>6. FrameOK(r, FALSE)
  BY <1>1, <1>3, <1>4 DEF FrameOK
<1>7. \A entry \in files : Past(entry[1], Top.path, ns)
  BY <1>0 DEF ProvenanceInv, FilesArePast, Past
<1> QED
  BY <1>0, <1>2, <1>4, <1>5, <1>6, <1>7, TopStepKeeps DEF AtEntry

\* Looking at the next entry keeps the invariant: a name moves from what is left to what is
\* found, with the inode it leads to.
LEMMA StatEntryKeeps ==
  ASSUME ProvenanceInv, StatEntry
  PROVE  ProvenanceInv'
<1> PICK n, i : n = First(Top.todo) /\ i = entries[Top.inode][n]
  OBVIOUS
<1>0. /\ scan.pc = "next" /\ scan.pc \in InDirectory /\ Top.todo # {}
      /\ Fails \/ (/\ i # NoInode
                   /\ scan' = [pc |-> IF i \in Files THEN "file" ELSE "child",
                               name |-> n, before |-> Stat(i)]
                   /\ stack' = [stack EXCEPT ![Len(stack)].todo = @ \ {n},
                                        ![Len(stack)].found = @ \union {<<n, i>>}]
                   /\ ScanStep(<<files, manifest, listed>>))
  BY DEF StatEntry, InDirectory
<1>1. CASE Fails
  BY <1>1, FailsKeeps
<1>2. ASSUME ~ Fails PROVE ProvenanceInv'
  <2>1. PICK r : r = [[Top EXCEPT !.todo = @ \ {n}] EXCEPT !.found = @ \union {<<n, i>>}]
    OBVIOUS
  <2>2. /\ i # NoInode
        /\ scan' = [pc |-> IF i \in Files THEN "file" ELSE "child",
                    name |-> n, before |-> Stat(i)]
        /\ stack' = [stack EXCEPT ![Len(stack)].todo = @ \ {n},
                                  ![Len(stack)].found = @ \union {<<n, i>>}]
        /\ UNCHANGED <<treeVars, held, trees, files, manifest>>
    BY <1>0, <1>2 DEF ScanStep
  <2>3. /\ Top \in DirFrames /\ Top = stack[Len(stack)] /\ stack \in Seq(DirFrames)
        /\ Len(stack) \in Nat \ {0}
        /\ FrameOK(Top, FALSE)
    <3>1. FrameOK(Top, scan.pc = "list")
      BY <1>0, TopFrame
    <3>2. FrameOK(Top, FALSE)
      BY <1>0, <3>1 DEF FrameOK
    <3> QED
      BY <1>0, <3>2, TopFrame
  <2>4. n \in Top.todo /\ n \in Names
    <3>1. Top.todo \subseteq Names
      BY <2>3 DEF DirFrames
    <3> QED
      BY <1>0, <3>1, FirstIn
  <2>5. i \in Inodes
    <3>1. Top.inode \in DirectoryInodes
      BY <2>3 DEF DirFrames
    <3> QED
      BY <2>2, <2>4, <3>1 DEF ProvenanceInv, TreeTypeOK
  <2>6. /\ r \in DirFrames /\ r.path = Top.path /\ r.inode = Top.inode
        /\ r.before = Top.before /\ r.todo = Top.todo \ {n}
        /\ r.found = Top.found \union {<<n, i>>}
    <3>1. PICK t : t = [Top EXCEPT !.todo = @ \ {n}]
      OBVIOUS
    <3>2. /\ t \in DirFrames /\ t.path = Top.path /\ t.inode = Top.inode
          /\ t.before = Top.before /\ t.todo = Top.todo \ {n} /\ t.found = Top.found
      BY <2>3, <3>1 DEF DirFrames
    <3>3. r = [t EXCEPT !.found = @ \union {<<n, i>>}]
      BY <2>1, <3>1
    <3>4. PICK fs : fs = t.found \union {<<n, i>>}
      OBVIOUS
    <3>5. fs \in SUBSET (Names \X Inodes)
      BY <2>4, <2>5, <3>2, <3>4 DEF DirFrames
    <3>6. r = [t EXCEPT !.found = fs]
      BY <3>3, <3>4
    <3>7. r \in DirFrames /\ r.path = t.path /\ r.inode = t.inode /\ r.before = t.before
          /\ r.todo = t.todo /\ r.found = fs
      BY <3>2, <3>5, <3>6 DEF DirFrames
    <3> QED
      BY <3>2, <3>4, <3>7
  <2>7. stack' = [stack EXCEPT ![Len(stack)] = r]
    <3>1. PICK l, s1 : l = Len(stack) /\ s1 = [stack EXCEPT ![l].todo = @ \ {n}]
      OBVIOUS
    <3>2. l \in 1 .. Len(stack)
      BY <2>3, <3>1
    <3>3. stack' = [s1 EXCEPT ![l].found = @ \union {<<n, i>>}]
      BY <2>2, <3>1
    <3>4. PICK t : t = [Top EXCEPT !.todo = @ \ {n}]
      OBVIOUS
    <3>5. s1 = [stack EXCEPT ![l] = t]
      BY <2>3, <3>1, <3>4
    <3>6. s1[l] = t /\ l \in DOMAIN s1
      BY <2>3, <3>2, <3>5
    <3>7. r = [t EXCEPT !.found = @ \union {<<n, i>>}]
      BY <2>1, <3>4
    <3>8. stack' = [s1 EXCEPT ![l] = r]
      BY <3>3, <3>6, <3>7
    <3>9. stack' = [stack EXCEPT ![l] = r]
      BY <3>5, <3>8
    <3> QED
      BY <3>1, <3>9
  <2>8. FrameOK(r, FALSE)
    <3>1. ASSUME stamp[Top.inode] = Top.before.stamp, NEW m \in Names
          PROVE  (m \in r.todo \/ \E j \in Inodes : <<m, j>> \in r.found)
                 <=> entries[Top.inode][m] # NoInode
      <4>1. (m \in Top.todo \/ \E j \in Inodes : <<m, j>> \in Top.found)
            <=> entries[Top.inode][m] # NoInode
        BY <2>3, <3>1 DEF FrameOK
      <4>2. m = n => \E j \in Inodes : <<m, j>> \in r.found
        BY <2>5, <2>6
      <4>3. m # n => (m \in r.todo <=> m \in Top.todo)
        BY <2>6
      <4>4. \A j \in Inodes : m # n => (<<m, j>> \in r.found <=> <<m, j>> \in Top.found)
        BY <2>6
      <4> QED
        BY <2>4, <4>1, <4>2, <4>3, <4>4
    <3>2. ASSUME stamp[Top.inode] = Top.before.stamp, NEW p \in r.found
          PROVE  entries[Top.inode][p[1]] = p[2]
      BY <2>3, <2>6, <3>2 DEF FrameOK
    <3>3. r.inode = Top.inode /\ r.before = Top.before
      BY <2>6
    <3>4. Top.before.inode = Top.inode /\ Top.before.stamp <= stamp[Top.inode]
      BY <2>3 DEF FrameOK
    <3>5. /\ r.before.inode = r.inode
          /\ r.before.stamp <= stamp[r.inode]
      BY <3>3, <3>4
    <3>6. stamp[r.inode] = r.before.stamp =>
            /\ \A m \in Names :
                 (m \in r.todo \/ \E j \in Inodes : <<m, j>> \in r.found)
                 <=> entries[r.inode][m] # NoInode
            /\ \A p \in r.found : entries[r.inode][p[1]] = p[2]
      BY <3>1, <3>2, <3>3
    <3> QED
      BY <3>5, <3>6 DEF FrameOK
  <2>9. \A entry \in files :
          Past(entry[1], Top.path, Top.todo \ {n}) /\ Past(entry[1], Top.path, {n})
    <3>1. \A entry \in files : Past(entry[1], Top.path, Top.todo)
      BY <2>3 DEF ProvenanceInv, FilesArePast
    <3> QED
      BY <2>4, <3>1 DEF Past
  <2>10. scan'.pc \in {"file", "child"} /\ scan'.name = n
    BY <2>2
  <2> QED
    BY <1>0, <2>2, <2>4, <2>6, <2>7, <2>8, <2>9, <2>10, TopStepKeeps
<1> QED
  BY <1>1, <1>2

\* Opening the model directory keeps the invariant: its path is empty and no file is listed.
LEMMA OpenRootKeeps ==
  ASSUME ProvenanceInv, OpenRoot
  PROVE  ProvenanceInv'
<1>0. scan.pc = "root" /\ (Fails \/ Enter(Root, <<>>))
  BY DEF OpenRoot
<1>1. stack = <<>> /\ files = {}
  BY <1>0 DEF ProvenanceInv, ScanTypeOK, InDirectory
<1>2. Len(stack) = 0 /\ <<>> \in Seq(Names) /\ Root \in DirectoryInodes /\ Len(<<>>) = 0
  BY <1>1 DEF DirectoryInodes
<1>3. ASSUME Enter(Root, <<>>) PROVE ProvenanceInv'
  <2>1. PICK path, i : path = <<>> /\ i = Root
    OBVIOUS
  <2>2. path \in Seq(Names) /\ i \in DirectoryInodes /\ Enter(i, path)
        /\ Len(path) = Len(stack)
    BY <1>1, <1>2, <1>3, <2>1
  <2>3. \A j \in 1 .. Len(stack) :
           Begins(stack[j].path, path) /\ path[j] \notin stack[j].todo
    BY <1>2
  <2>4. \A entry \in files : ~ Begins(path, entry[1])
    BY <1>1
  <2>5. scan.pc \in {"root", "child"}
    BY <1>0
  <2> QED
    BY <2>2, <2>3, <2>4, <2>5, EnterKeeps
<1> QED
  BY <1>0, <1>3, FailsKeeps

\* The path of an entry of the innermost directory is one longer than the directory's, and
\* past what every frame has left.
LEMMA EntryPaths ==
  ASSUME ProvenanceInv, scan.pc \in AtEntry
  PROVE  /\ EntryPath(scan.name) \in Seq(Names)
         /\ Len(EntryPath(scan.name)) = Len(stack)
         /\ EntryPath(scan.name)[Len(stack)] = scan.name
         /\ \A j \in 1 .. Len(stack) :
              /\ Begins(stack[j].path, EntryPath(scan.name))
              /\ EntryPath(scan.name)[j] \notin stack[j].todo
         /\ \A entry \in files : ~ Begins(EntryPath(scan.name), entry[1])
<1> PICK n, a, base : n = Len(stack) /\ a = scan.name /\ base = Top.path
  OBVIOUS
<1>0. scan.pc \in InDirectory
  BY DEF InDirectory, AtEntry
<1>1. /\ stack \in Seq(DirFrames) /\ n \in Nat \ {0}
      /\ Top \in DirFrames /\ Top = stack[n] /\ Len(base) = n - 1
  BY <1>0, TopFrame
<1>2. a \in Names /\ a \notin Top.todo /\ base \in Seq(Names)
  BY <1>1 DEF ProvenanceInv, ScanTypeOK, DirFrames
<1> PICK path : path = Append(base, a)
  OBVIOUS
<1>3. EntryPath(scan.name) = path
  BY DEF EntryPath
<1>4. /\ path \in Seq(Names) /\ Len(path) = n /\ path[n] = a
      /\ \A j \in 1 .. (n - 1) : path[j] = base[j]
  BY <1>1, <1>2
<1>5. Begins(base, path)
  BY <1>1, <1>4 DEF Begins
<1>6. ASSUME NEW j \in 1 .. n
      PROVE  Begins(stack[j].path, path) /\ path[j] \notin stack[j].todo
  <2>1. CASE j = n
    BY <1>1, <1>2, <1>4, <1>5, <2>1
  <2>2. CASE j # n
    <3>1. j \in 1 .. (n - 1) /\ n \in 1 .. n /\ stack[n].path = base
      BY <1>1, <2>2
    <3>2. Begins(stack[j].path, base) /\ base[j] \notin stack[j].todo
      BY <3>1 DEF ProvenanceInv, Nested
    <3>3. Len(stack[j].path) = j - 1
      BY DEF ProvenanceInv, Nested
    <3>4. \A k \in 1 .. Len(stack[j].path) : stack[j].path[k] = base[k]
      BY <3>2 DEF Begins
    <3>5. \A k \in 1 .. (j - 1) : stack[j].path[k] = path[k]
      BY <1>4, <3>1, <3>3, <3>4
    <3> QED
      BY <1>1, <1>4, <3>1, <3>2, <3>3, <3>5 DEF Begins
  <2> QED
    BY <2>1, <2>2
<1>7. ASSUME NEW entry \in files, Begins(path, entry[1]) PROVE FALSE
  <2>1. PICK p : p = entry[1]
    OBVIOUS
  <2>2. Past(p, base, {a}) /\ p \in Seq(Names)
    BY <2>1 DEF ProvenanceInv, FilesArePast
  <2>3. PICK m \in Nat : m = Len(p)
    BY <2>2
  <2>4. n <= m /\ \A k \in 1 .. n : path[k] = p[k]
    BY <1>4, <1>7, <2>1, <2>3 DEF Begins
  <2>5. Begins(base, p) /\ Len(p) > Len(base) /\ p[Len(base) + 1] = a
    <3>1. \A k \in 1 .. (n - 1) : base[k] = p[k]
      BY <1>1, <1>4, <2>4
    <3>2. n - 1 <= m /\ m > n - 1 /\ (n - 1) + 1 = n /\ n \in 1 .. n
      BY <1>1, <2>4
    <3> QED
      BY <1>1, <1>4, <2>3, <2>4, <3>1, <3>2 DEF Begins
  <2> QED
    BY <2>2, <2>5 DEF Past
<1> QED
  BY <1>3, <1>4, <1>6, <1>7

\* Opening a directory keeps the invariant.
LEMMA OpenChildKeeps ==
  ASSUME ProvenanceInv, OpenChild
  PROVE  ProvenanceInv'
<1>0. scan.pc = "child" /\ scan.pc \in AtEntry
      /\ (Fails \/ (Found \in Directories /\ Enter(Found, EntryPath(scan.name))))
  BY DEF OpenChild, AtEntry
<1>1. ASSUME Found \in Directories, Enter(Found, EntryPath(scan.name)) PROVE ProvenanceInv'
  <2>1. PICK path, i : path = EntryPath(scan.name) /\ i = Found
    OBVIOUS
  <2>2. i \in DirectoryInodes /\ Enter(i, path)
    BY <1>1, <2>1 DEF DirectoryInodes
  <2>3. /\ path \in Seq(Names) /\ Len(path) = Len(stack)
        /\ \A j \in 1 .. Len(stack) :
              Begins(stack[j].path, path) /\ path[j] \notin stack[j].todo
        /\ \A entry \in files : ~ Begins(path, entry[1])
    BY <1>0, <2>1, EntryPaths
  <2> QED
    BY <1>0, <2>2, <2>3, EnterKeeps
<1> QED
  BY <1>0, <1>1, FailsKeeps

\* What is true when only what is at hand of a file changes.
LEMMA FileStepKeeps ==
  ASSUME ProvenanceInv, scan.pc \in AtEntry, scan'.pc = "hash", scan'.name = scan.name,
         UNCHANGED <<treeVars, held, trees, stack, files, manifest>>, HashOK'
  PROVE  ProvenanceInv'
<1>0. stack # <<>> /\ scan.pc # "list" /\ Top' = Top
  BY DEF ProvenanceInv, ScanTypeOK, InDirectory, AtEntry, Top
<1>1. ScanTypeOK'
  BY <1>0 DEF ProvenanceInv, ScanTypeOK, InDirectory, AtEntry
<1>2. Nested'
  BY DEF ProvenanceInv, Nested
<1>3. FilesArePast'
  <2>1. \A entry \in files :
          /\ entry[1] \in Seq(Names)
          /\ \A k \in 1 .. Len(stack) : Past(entry[1], stack[k].path, stack[k].todo)
          /\ Past(entry[1], Top.path, {scan.name})
    BY DEF ProvenanceInv, FilesArePast
  <2>2. /\ files' = files /\ stack' = stack /\ Top' = Top
        /\ scan'.pc # "list" /\ scan'.name = scan.name
    BY <1>0
  <2> QED
    BY <2>1, <2>2 DEF FilesArePast
<1>4. FramesOK'
  BY <1>0 DEF ProvenanceInv, FramesOK, FrameOK, treeVars, AtEntry
<1> QED
  BY <1>0, <1>1, <1>2, <1>3, <1>4, ScanStepKeeps DEF InDirectory

\* Opening a file keeps the invariant: nothing is read yet.
LEMMA OpenFileKeeps ==
  ASSUME ProvenanceInv, OpenModelFile
  PROVE  ProvenanceInv'
<1>1. ASSUME ~ Fails PROVE ProvenanceInv'
  <2>1. /\ scan.pc = "file" /\ scan.pc \in AtEntry
        /\ Found \in Files /\ Stat(Found) = scan.before
        /\ scan' = [pc |-> "hash", name |-> scan.name, before |-> scan.before, read |-> <<>>]
        /\ UNCHANGED <<treeVars, held, trees, stack, files, manifest>>
    BY <1>1 DEF OpenModelFile, SameMetadata, ScanStep, AtEntry
  <2>2. PICK f : f = Found
    OBVIOUS
  <2>3. f \in Files /\ f \in Inodes /\ stamp[f] \in Nat
    BY <2>1, <2>2 DEF Inodes, ProvenanceInv, TreeTypeOK
  <2>4. scan.before \in Stats /\ scan.before.inode = f /\ scan.before.stamp = stamp[f]
    BY <2>1, <2>2, <2>3 DEF Stat, Stats
  <2>5. scan'.read \in Seq({}) /\ Len(scan'.read) = 0
    BY <2>1
  <2>6. HashOK'
    BY <2>1, <2>3, <2>4, <2>5 DEF HashOK, treeVars
  <2> QED
    BY <2>1, <2>6, FileStepKeeps
<1> QED
  BY <1>1, FailsKeeps

\* Reading a chunk keeps the invariant: it is the file's, as it is now.
LEMMA HashChunkKeeps ==
  ASSUME ProvenanceInv, HashChunk
  PROVE  ProvenanceInv'
<1>0. scan.pc = "hash" /\ scan.pc \in AtEntry /\ Len(scan.read) < 2
      /\ UNCHANGED <<treeVars, held, trees, stack, files, manifest>>
  BY DEF HashChunk, AtEntry, ScanStep
<1>1. /\ scan = [pc |-> "hash", name |-> scan.name, before |-> scan.before,
                 read |-> scan.read]
      /\ scan.before \in Stats /\ scan.before.inode \in Files
      /\ scan.before.stamp <= stamp[scan.before.inode]
      /\ stamp[scan.before.inode] = scan.before.stamp =>
           \A k \in 1 .. Len(scan.read) : scan.read[k] = bytes[scan.before.inode][k]
  BY <1>0 DEF ProvenanceInv, HashOK
<1>2. PICK S : scan.read \in Seq(S)
  BY <1>0 DEF ProvenanceInv, HashOK
<1> PICK x, c, l : /\ x = Append(scan.read, c) /\ l = Len(scan.read)
                   /\ c = bytes[scan.before.inode][Len(scan.read) + 1]
  OBVIOUS
<1>3. scan' = [pc |-> "hash", name |-> scan.name, before |-> scan.before, read |-> x]
  <2>1. scan' = [scan EXCEPT !.read = x]
    BY DEF HashChunk
  <2>2. PICK n, b, r : scan = [pc |-> "hash", name |-> n, before |-> b, read |-> r]
    BY <1>1
  <2>3. scan.name = n /\ scan.before = b
    BY <2>2
  <2>4. scan' = [pc |-> "hash", name |-> n, before |-> b, read |-> x]
    BY <2>1, <2>2
  <2> QED
    BY <2>3, <2>4
<1>4. l \in Nat /\ l < 2
  BY <1>0, <1>2
<1>5. /\ x \in Seq(S \union {c}) /\ Len(x) = l + 1 /\ x[l + 1] = c
      /\ \A k \in 1 .. l : x[k] = scan.read[k]
  <2>1. scan.read \in Seq(S \union {c}) /\ c \in S \union {c}
    BY <1>2
  <2> QED
    BY <2>1
<1>6. scan'.pc = "hash" /\ scan'.name = scan.name /\ scan'.before = scan.before
      /\ scan'.read = x
  BY <1>3
<1>7. stamp[scan.before.inode] = scan.before.stamp =>
        \A k \in 1 .. Len(x) : x[k] = bytes[scan.before.inode][k]
  <2>1. ASSUME stamp[scan.before.inode] = scan.before.stamp, NEW k \in 1 .. (l + 1)
        PROVE  x[k] = bytes[scan.before.inode][k]
    <3>1. k \in 1 .. l \/ k = l + 1
      BY <1>4
    <3>2. k \in 1 .. l => x[k] = bytes[scan.before.inode][k]
      BY <1>1, <1>5, <2>1
    <3> QED
      BY <1>5, <3>1, <3>2
  <2> QED
    BY <1>5, <2>1
<1>8. HashOK'
  BY <1>0, <1>1, <1>3, <1>4, <1>5, <1>6, <1>7 DEF HashOK, treeVars
<1> QED
  BY <1>0, <1>6, <1>8, FileStepKeeps

\* A file that is done keeps the invariant: its path is new, and what was read is what it
\* holds.
LEMMA EndFileKeeps ==
  ASSUME ProvenanceInv, EndFile
  PROVE  ProvenanceInv'
<1>1. ASSUME ~ Fails PROVE ProvenanceInv'
  <2> PICK path, read, f :
        path = EntryPath(scan.name) /\ read = scan.read /\ f = scan.before.inode
    OBVIOUS
  <2>1. /\ scan.pc = "hash" /\ scan.pc \in AtEntry /\ Len(read) = 2
        /\ Stat(f) = scan.before /\ Cardinality(files) < MaxModelFiles
        /\ files' = files \union {<<path, read>>} /\ scan' = [pc |-> "next"]
        /\ UNCHANGED <<treeVars, held, trees, stack, manifest>>
    BY <1>1 DEF EndFile, SameMetadata, ScanStep, AtEntry
  <2>2. /\ path \in Seq(Names)
        /\ \A j \in 1 .. Len(stack) :
              Begins(stack[j].path, path) /\ path[j] \notin stack[j].todo
        /\ \A entry \in files : ~ Begins(path, entry[1])
    BY <2>1, EntryPaths
  <2>3. stack # <<>> /\ Scanning /\ Top' = Top
    BY <2>1 DEF ProvenanceInv, ScanTypeOK, InDirectory, Scanning, Top
  <2>4. TreeTypeOK' /\ HeldOK'
    BY <2>1, <2>3 DEF ProvenanceInv, TreeTypeOK, HeldOK, treeVars
  <2>5. ScanTypeOK'
    BY <2>1, <2>3 DEF ProvenanceInv, ScanTypeOK, InDirectory, AtEntry
  <2>6. Nested'
    BY <2>1 DEF ProvenanceInv, Nested
  <2>7. FilesArePast'
    <3>1. ASSUME NEW k \in 1 .. Len(stack) PROVE Past(path, stack[k].path, stack[k].todo)
      <4>1. Len(stack[k].path) = k - 1
        BY DEF ProvenanceInv, Nested
      <4>2. stack \in Seq(DirFrames)
        BY DEF ProvenanceInv, ScanTypeOK
      <4>3. k \in Nat
        BY <4>2
      <4>4. (k - 1) + 1 = k
        BY <4>3
      <4> QED
        BY <2>2, <4>1, <4>4 DEF Past
    <3>2. \A entry \in files :
             entry[1] \in Seq(Names)
             /\ \A k \in 1 .. Len(stack) : Past(entry[1], stack[k].path, stack[k].todo)
      BY DEF ProvenanceInv, FilesArePast
    <3>3. \A entry \in files' :
             entry[1] \in Seq(Names)
             /\ \A k \in 1 .. Len(stack) : Past(entry[1], stack[k].path, stack[k].todo)
      BY <2>1, <2>2, <3>1, <3>2
    <3>4. stack' = stack /\ scan'.pc = "next"
      BY <2>1
    <3> QED
      BY <3>3, <3>4 DEF FilesArePast, AtEntry, Past, Begins
  <2>8. ASSUME NEW x \in files PROVE x[1] # path
    <3>1. ~ Begins(path, x[1])
      BY <2>2
    <3> QED
      BY <3>1, <2>2 DEF Begins
  <2>9. FilesAreListed'
    <3>1. <<path, read>> \notin files
      BY <2>8
    <3>2. IsFiniteSet(files) /\ Cardinality(files) \in Nat /\ MaxModelFiles \in Nat
      BY FS_CardinalityType, ProvenanceAssumption DEF ProvenanceInv, FilesAreListed
    <3>3. IsFiniteSet(files') /\ Cardinality(files') = Cardinality(files) + 1
      BY <2>1, <3>1, <3>2, FS_AddElement
    <3>4. Cardinality(files') <= MaxModelFiles
      BY <2>1, <3>2, <3>3
    <3>5. \A x, y \in files' : x[1] = y[1] => x = y
      BY <2>1, <2>8 DEF ProvenanceInv, FilesAreListed
    <3> QED
      BY <3>3, <3>4, <3>5 DEF FilesAreListed
  <2>10. HashOK'
    BY <2>1 DEF HashOK
  <2>11. FramesOK'
    BY <2>1 DEF ProvenanceInv, FramesOK, FrameOK, treeVars
  <2>12. f \in Files /\ read \in held[f]
    <3>1. /\ f \in Files /\ \E S : read \in Seq(S)
          /\ stamp[f] = scan.before.stamp =>
               \A k \in 1 .. Len(read) : read[k] = bytes[f][k]
      BY <2>1 DEF ProvenanceInv, HashOK
    <3>2. stamp[f] = scan.before.stamp
      BY <2>1 DEF Stat
    <3>3. PICK S : read \in Seq(S)
      BY <3>1
    <3>4. read = [k \in 1 .. 2 |-> read[k]]
      BY <2>1, <3>3
    <3>5. [k \in 1 .. 2 |-> read[k]] = [k \in 1 .. 2 |-> bytes[f][k]]
      BY <2>1, <3>1, <3>2
    <3>6. bytes[f] = [k \in 1 .. 2 |-> bytes[f][k]]
      BY <3>1 DEF ProvenanceInv, TreeTypeOK
    <3>7. read = bytes[f]
      BY <3>4, <3>5, <3>6
    <3> QED
      BY <2>3, <3>1, <3>7 DEF ProvenanceInv, HeldOK
  <2>13. ManifestIsSound'
    <3>1. DigestsAreWhole'
      BY <2>1, <2>12 DEF ProvenanceInv, ManifestIsSound, DigestsAreWhole
    <3>2. ManifestsAgree'
      BY <2>1 DEF ProvenanceInv, ManifestIsSound, ManifestsAgree
    <3> QED
      BY <3>1, <3>2 DEF ManifestIsSound
  <2> QED
    BY <2>4, <2>5, <2>6, <2>7, <2>9, <2>10, <2>11, <2>13 DEF ProvenanceInv
<1> QED
  BY <1>1, FailsKeeps

\* The end of the scan keeps the invariant: a list that is empty or is not the first one
\* makes no manifest.
LEMMA EndScanKeeps ==
  ASSUME ProvenanceInv, scan.pc = "next", EndScan(files)
  PROVE  ProvenanceInv'
<1>1. /\ stack' = <<>> /\ Len(stack') = 0 /\ scan'.pc \in {"failed", "done"}
      /\ UNCHANGED <<treeVars, held, trees, files>>
  BY DEF EndScan, ScanStep
<1>2. TreeTypeOK' /\ HeldOK'
  BY <1>1 DEF ProvenanceInv, TreeTypeOK, HeldOK, Scanning, treeVars
<1>3. Nested' /\ HashOK' /\ FramesOK' /\ FilesAreListed'
  BY <1>1 DEF ProvenanceInv, Nested, HashOK, FramesOK, FilesAreListed
<1>4. FilesArePast'
  BY <1>1 DEF ProvenanceInv, FilesArePast, AtEntry
<1>5. PICK S : manifest \in Seq(S)
  BY DEF ProvenanceInv, ScanTypeOK
<1>6. (\E T : manifest' \in Seq(T)) /\ ManifestsAgree'
  <2>1. ASSUME manifest' = manifest PROVE (\E T : manifest' \in Seq(T)) /\ ManifestsAgree'
    BY <1>5, <2>1 DEF ProvenanceInv, ManifestIsSound, ManifestsAgree
  <2>2. ASSUME files # {}, manifest = <<>> \/ manifest[1] = files,
               manifest' = Append(manifest, files)
        PROVE  (\E T : manifest' \in Seq(T)) /\ ManifestsAgree'
    <3>1. PICK n, T : n = Len(manifest) /\ T = S \union {files}
      OBVIOUS
    <3>2. manifest \in Seq(T) /\ files \in T /\ n \in Nat
      BY <1>5, <3>1
    <3>3. /\ manifest' \in Seq(T) /\ DOMAIN manifest' = 1 .. (n + 1)
          /\ manifest'[n + 1] = files /\ \A k \in 1 .. n : manifest'[k] = manifest[k]
      BY <2>2, <3>1, <3>2
    <3>4. n = 0 \/ 1 \in 1 .. n
      BY <3>2
    <3>5. manifest'[1] = files
      <4>1. CASE n = 0
        BY <3>3, <4>1
      <4>2. CASE n # 0
        BY <2>2, <3>1, <3>3, <3>4, <4>2
      <4> QED
        BY <4>1, <4>2
    <3>6. Cardinality(files) \in 1 .. MaxModelFiles
          /\ \A x, y \in files : x[1] = y[1] => x = y
      <4>1. /\ IsFiniteSet(files) /\ Cardinality(files) <= MaxModelFiles
            /\ \A x, y \in files : x[1] = y[1] => x = y
        BY DEF ProvenanceInv, FilesAreListed
      <4>2. Cardinality(files) \in Nat /\ Cardinality(files) # 0
        BY <2>2, <4>1, FS_CardinalityType, FS_EmptySet
      <4>3. MaxModelFiles \in Nat
        BY ProvenanceAssumption
      <4> QED
        BY <4>1, <4>2, <4>3
    <3>7. \A k \in 1 .. (n + 1) : manifest'[k] = files
      <4>1. \A k \in 1 .. n : manifest[k] = manifest[1]
        BY <3>1, <3>2 DEF ProvenanceInv, ManifestIsSound, ManifestsAgree
      <4>2. \A k \in 1 .. n : manifest'[k] = manifest'[1]
        BY <3>3, <3>4, <4>1
      <4>3. \A k \in 1 .. (n + 1) : k \in 1 .. n \/ k = n + 1
        BY <3>2
      <4> QED
        BY <3>3, <3>5, <4>2, <4>3
    <3> QED
      BY <3>3, <3>5, <3>6, <3>7 DEF ManifestsAgree
  <2> QED
    BY <2>1, <2>2 DEF EndScan
<1>7. ScanTypeOK'
  BY <1>1, <1>6 DEF ScanTypeOK, InDirectory, AtEntry
<1>8. ManifestIsSound'
  <2>1. DigestsAreWhole'
    BY <1>1 DEF ProvenanceInv, ManifestIsSound, DigestsAreWhole
  <2> QED
    BY <1>6, <2>1 DEF ManifestIsSound
<1> QED
  BY <1>2, <1>3, <1>4, <1>7, <1>8 DEF ProvenanceInv

\* Leaving a directory keeps the invariant: fewer frames have less to say.
LEMMA EndDirectoryKeeps ==
  ASSUME ProvenanceInv, EndDirectory
  PROVE  ProvenanceInv'
<1> PICK n : n = Len(stack)
  OBVIOUS
<1>0. scan.pc = "next" /\ scan.pc \in InDirectory
  BY DEF EndDirectory, InDirectory
<1>1. stack \in Seq(DirFrames) /\ n \in Nat \ {0}
  BY <1>0, TopFrame
<1>2. ASSUME n # 1, stack' = SubSeq(stack, 1, n - 1),
             UNCHANGED <<scan, files, manifest, treeVars, held, trees>>
      PROVE  ProvenanceInv'
  <2>1. /\ stack' \in Seq(DirFrames) /\ Len(stack') = n - 1 /\ stack' # <<>>
        /\ \A k \in 1 .. (n - 1) : k \in 1 .. n /\ stack'[k] = stack[k]
    <3>1. 1 \in Nat /\ n - 1 \in 1 .. n
      BY <1>1, <1>2
    <3>2. stack' \in Seq(DirFrames) /\ Len(stack') = n - 1
          /\ \A k \in 1 .. (n - 1) : stack'[k] = stack[k]
      BY <1>1, <1>2, <3>1
    <3>3. \A k \in 1 .. (n - 1) : k \in 1 .. n
      BY <1>1
    <3>4. stack' # <<>>
      <4>1. n - 1 # 0
        BY <1>1, <1>2
      <4> QED
        BY <3>2, <4>1
    <3> QED
      BY <3>2, <3>3, <3>4
  <2>2. ScanTypeOK'
    BY <1>0, <1>2, <2>1 DEF ProvenanceInv, ScanTypeOK, InDirectory, AtEntry
  <2>3. Nested'
    <3>1. ASSUME NEW k \in 1 .. (n - 1), NEW j \in 1 .. (k - 1) PROVE j \in 1 .. (n - 1)
      BY <1>1
    <3>2. \A k \in 1 .. (n - 1) :
            /\ Len(stack[k].path) = k - 1
            /\ \A j \in 1 .. (k - 1) :
                 Begins(stack[j].path, stack[k].path) /\ stack[k].path[j] \notin stack[j].todo
      BY <2>1 DEF ProvenanceInv, Nested
    <3>3. \A k \in 1 .. (n - 1) :
            /\ Len(stack'[k].path) = k - 1
            /\ \A j \in 1 .. (k - 1) :
                 Begins(stack'[j].path, stack'[k].path)
                 /\ stack'[k].path[j] \notin stack'[j].todo
      BY <2>1, <3>1, <3>2
    <3> QED
      BY <2>1, <3>3 DEF Nested
  <2>4. FilesArePast'
    <3>1. \A entry \in files : \A k \in 1 .. (n - 1) :
             Past(entry[1], stack'[k].path, stack'[k].todo)
      BY <2>1 DEF ProvenanceInv, FilesArePast
    <3>2. \A entry \in files : entry[1] \in Seq(Names)
      BY DEF ProvenanceInv, FilesArePast
    <3> QED
      BY <1>0, <1>2, <2>1, <3>1, <3>2 DEF FilesArePast, AtEntry, Past, Begins
  <2>5. HashOK'
    BY <1>0, <1>2 DEF HashOK
  <2>6. FramesOK'
    <3>1. \A k \in 1 .. (n - 1) : FrameOK(stack'[k], FALSE)
      <4>1. ASSUME NEW k \in 1 .. (n - 1) PROVE FrameOK(stack'[k], FALSE)
        <5>1. FrameOK(stack[k], scan.pc = "list" /\ k = Len(stack))
          BY <2>1 DEF ProvenanceInv, FramesOK
        <5> QED
          BY <1>0, <2>1, <5>1 DEF FrameOK
      <4> QED
        BY <4>1
    <3>2. stamp' = stamp /\ entries' = entries /\ scan'.pc # "list"
      BY <1>0, <1>2 DEF treeVars
    <3>3. \A k \in 1 .. (n - 1) :
            FrameOK(stack'[k], scan'.pc = "list" /\ k = Len(stack'))
            <=> FrameOK(stack[k], scan.pc = "list" /\ k = Len(stack))'
      BY <3>2 DEF FrameOK
    <3>4. \A k \in 1 .. (n - 1) : FrameOK(stack[k], scan.pc = "list" /\ k = Len(stack))'
      BY <3>1, <3>2 DEF FrameOK
    <3> QED
      BY <2>1, <3>4 DEF FramesOK
  <2> QED
    BY <1>0, <1>2, <2>1, <2>2, <2>3, <2>4, <2>5, <2>6, ScanStepKeeps DEF ScanTypeOK
<1>3. Fails \/ EndScan(files)
      \/ (n # 1 /\ stack' = SubSeq(stack, 1, n - 1)
          /\ UNCHANGED <<scan, files, manifest, treeVars, held, trees>>)
  BY DEF EndDirectory, ScanStep
<1> QED
  BY <1>0, <1>2, <1>3, FailsKeeps, EndScanKeeps

\* What is at hand of a scan, and the tree, are a function of the variables.
LEMMA ProvenanceStutters ==
  ASSUME ProvenanceInv, UNCHANGED provenanceVars
  PROVE  ProvenanceInv'
<1>1. /\ UNCHANGED <<entries, bytes, stamp, scan, stack, files, manifest, held>>
      /\ Top' = Top
  BY DEF provenanceVars, treeVars, scanVars, Top
<1>2. TreeTypeOK' /\ ScanTypeOK'
  BY <1>1 DEF ProvenanceInv, TreeTypeOK, ScanTypeOK
<1>3. Nested' /\ FilesArePast' /\ FilesAreListed'
  BY <1>1 DEF ProvenanceInv, Nested, FilesArePast, FilesAreListed, Past, Begins
<1>4. HashOK' /\ FramesOK' /\ HeldOK'
  BY <1>1 DEF ProvenanceInv, HashOK, FramesOK, FrameOK, HeldOK, Scanning
<1>5. ManifestIsSound'
  BY <1>1 DEF ProvenanceInv, ManifestIsSound, DigestsAreWhole, ManifestsAgree
<1> QED
  BY <1>2, <1>3, <1>4, <1>5 DEF ProvenanceInv

\* The inductive invariant of model_provenance.py: every step of the scanner, and every edit
\* the owner of the directory makes between two of them, keeps the frames nested, the files
\* listed past, and what was read true of the inode as long as its metadata stands.
THEOREM ProvenanceInvariant == ProvenanceSpec => []ProvenanceInv
<1>1. ProvenanceInit => ProvenanceInv
  BY ProvenanceInitInv
<1>2. ASSUME ProvenanceInv, [ProvenanceNext]_provenanceVars PROVE ProvenanceInv'
  <2>1. CASE UNCHANGED provenanceVars
    BY <1>2, <2>1, ProvenanceStutters
  <2>2. CASE TreeOwnerStep
    BY <1>2, <2>2, OwnerEdits, OwnerKeepsScan
  <2>3. CASE ScannerStep
    BY <1>2, <2>3, StartScanKeeps, OpenRootKeeps, BeginDirectoryKeeps, ListNamesKeeps, StatEntryKeeps,
       OpenChildKeeps, OpenFileKeeps, HashChunkKeeps, EndFileKeeps, EndDirectoryKeeps
       DEF ScannerStep
  <2> QED
    BY <1>2, <2>1, <2>2, <2>3 DEF ProvenanceNext
<1> QED
  BY <1>1, <1>2, PTL DEF ProvenanceSpec

\* ManifestIsSound: every digest is that of one whole content its file had while the
\* directory was scanned, a manifest lists each path once and no more files than
\* MAX_MODEL_FILES, and verify_model_provenance accepts nothing that the first scan did not
\* list, whatever the owner does between two steps of the scanner.
THEOREM ProvenanceManifestIsSound == ProvenanceSpec => []ManifestIsSound
<1>1. ProvenanceInv => ManifestIsSound
  BY DEF ProvenanceInv
<1> QED
  BY <1>1, ProvenanceInvariant, PTL

\* A directory that passes the comparison of _scan_directory was listed and entered at one
\* instant: its names, and the inodes they led the scanner to, are what it holds then.
THEOREM ProvenanceListedAtOneInstant == ProvenanceSpec => ListedAtOneInstant
<1>1. ASSUME ProvenanceInv, [ProvenanceNext]_provenanceVars PROVE [ListedIsHeld]_provenanceVars
  <2>1. ASSUME NEW row \in listed' \ listed
        PROVE  EndDirectory /\ ~ Fails /\ row = <<Top.inode, Top.found>>
    <3>1. CASE UNCHANGED provenanceVars
      BY <2>1, <3>1 DEF provenanceVars, scanVars
    <3>2. CASE TreeOwnerStep
      BY <2>1, <3>2 DEF TreeOwnerStep, Rewrite, Rename, LinkOrUnlink, ChangeMode, scanVars
    <3>3. CASE StartScan \/ OpenRoot \/ BeginDirectory \/ ListNames \/ StatEntry \/ OpenChild
      BY <2>1, <3>3 DEF StartScan, OpenRoot, BeginDirectory, ListNames, StatEntry, OpenChild, Enter, Fails,
         ScanStep
    <3>4. CASE OpenModelFile \/ HashChunk \/ EndFile
      BY <2>1, <3>4 DEF OpenModelFile, HashChunk, EndFile, Fails, ScanStep
    <3>5. CASE EndDirectory
      BY <2>1, <3>5 DEF EndDirectory, EndScan, Fails, ScanStep
    <3> QED
      BY <1>1, <3>1, <3>2, <3>3, <3>4, <3>5 DEF ProvenanceNext, ScannerStep
  <2>2. ASSUME EndDirectory, ~ Fails
        PROVE  Top.found = {<<n, entries[Top.inode][n]>> : n \in
                              {m \in Names : entries[Top.inode][m] # NoInode}}
    <3>1. scan.pc = "next" /\ scan.pc \in InDirectory /\ Top.todo = {}
          /\ Stat(Top.inode) = Top.before
      BY <2>2 DEF EndDirectory, InDirectory, SameMetadata
    <3>2. Top \in DirFrames /\ FrameOK(Top, scan.pc = "list")
      BY <1>1, <3>1, TopFrame
    <3>3. FrameOK(Top, FALSE)
      BY <3>1, <3>2 DEF FrameOK
    <3>4. stamp[Top.inode] = Top.before.stamp
      BY <3>1 DEF Stat
    <3>5. /\ \A n \in Names : (\E i \in Inodes : <<n, i>> \in Top.found)
                              <=> entries[Top.inode][n] # NoInode
          /\ \A p \in Top.found : entries[Top.inode][p[1]] = p[2]
      BY <3>1, <3>3, <3>4 DEF FrameOK
    <3>6. Top.found \in SUBSET (Names \X Inodes)
      BY <3>2 DEF DirFrames
    <3>7. PICK e, found : e = entries[Top.inode] /\ found = Top.found
      OBVIOUS
    <3>8. ASSUME NEW p \in found
          PROVE  p \in {<<n, e[n]>> : n \in {m \in Names : e[m] # NoInode}}
      <4>1. PICK n \in Names, i \in Inodes : p = <<n, i>>
        BY <3>6, <3>7, <3>8
      <4>2. e[n] = i /\ e[n] # NoInode
        BY <3>5, <3>7, <3>8, <4>1
      <4> QED
        BY <4>1, <4>2
    <3>9. ASSUME NEW n \in Names, e[n] # NoInode PROVE <<n, e[n]>> \in found
      <4>1. PICK i \in Inodes : <<n, i>> \in found
        BY <3>5, <3>7, <3>9
      <4>2. e[n] = i
        BY <3>5, <3>7, <4>1
      <4> QED
        BY <4>1, <4>2
    <3> QED
      BY <3>7, <3>8, <3>9
  <2>3. \A row \in listed' \ listed :
           row[1] = Top.inode
           /\ row[2] = {<<n, entries[Top.inode][n]>> : n \in
                             {m \in Names : entries[Top.inode][m] # NoInode}}
    BY <2>1, <2>2
  <2> QED
    BY <2>3 DEF ListedIsHeld
<1> QED
  BY <1>1, ProvenanceInvariant, PTL DEF ProvenanceSpec, ListedAtOneInstant

=============================================================================
