---------------------------- MODULE ModelProvenance ----------------------------
(***************************************************************************)
(* Building and verifying the manifest of a model directory,               *)
(* jaeger/model_provenance.py, while the directory's owner works in it.    *)
(*                                                                         *)
(* The scanner holds one descriptor per directory level and compares the   *)
(* metadata of every file and directory before and after it reads it.      *)
(* Every change of an inode moves its stamp, which stands for the mode,    *)
(* size, mtime_ns and ctime_ns that are compared; a file is two chunks,    *)
(* read one after the other.  An open and the fstat that follows it are    *)
(* one step: a change in between fails the comparison.  A step that raises *)
(* ends the scan.                                                          *)
(***************************************************************************)
EXTENDS Integers, FiniteSets, Sequences

CONSTANTS
    Root,             \* the inode of the model directory
    Directories,      \* inodes of the directories below it
    Files,            \* inodes of regular files
    Names,            \* entry names
    NameRank,         \* [Names -> Nat]: their sorted order
    Chunks,           \* contents of one chunk
    NoInode,          \* a name that is not in a directory
    Trees,            \* the directory contents there may be at the start
    MaxModelFiles,    \* MAX_MODEL_FILES
    MaxModelDepth,    \* MAX_MODEL_DEPTH
    MaxTreeEdits          \* bound: changes the owner makes

Inodes == {Root} \union Directories \union Files
DirectoryInodes == {Root} \union Directories

ASSUME ProvenanceAssumption ==
    /\ NameRank \in [Names -> Nat]
    /\ \A m, n \in Names : NameRank[m] = NameRank[n] => m = n
    /\ NoInode \notin Inodes
    /\ Trees \subseteq [DirectoryInodes -> [Names -> Inodes \union {NoInode}]]
    /\ {MaxModelFiles, MaxModelDepth, MaxTreeEdits} \subseteq Nat

VARIABLES
    entries,    \* [DirectoryInodes -> [Names -> inode]]
    bytes,      \* [Files -> <<chunk, chunk>>]
    stamp,      \* [Inodes -> Nat]: the metadata that is compared
    shared,     \* inodes that are group or world writable
    edits,      \* how many changes the owner has made
    scan,       \* the scanner: what it does and what it has at hand
    stack,      \* one frame for each open directory, the innermost last
    tracked,    \* _ScanState.inodes
    files,      \* _ScanState.files: <<path, digest>>
    manifest,   \* the manifests built: the first, then the verified one
    held,       \* history: [Files -> contents it had since the scan began]
    listed,     \* history: <<directory, its names and inodes>> as scanned
    trees       \* history: the tree at each instant of the scan

treeVars == <<entries, bytes, stamp, shared, edits>>
scanVars == <<scan, stack, tracked, files, manifest, listed>>
provenanceVars == <<treeVars, scanVars, held, trees>>

NoScan == [pc |-> "idle"]

---------------------------------------------------------------------------
(* The directory. *)

LinkCount(i) ==
    Cardinality({at \in DirectoryInodes \X Names : entries[at[1]][at[2]] = i})

(* The files that can be reached, with their paths: two levels.            *)
TreeFiles(e, b) ==
    LET at(d, path) == {<<Append(path, n), b[e[d][n]]>> :
                          n \in {m \in Names : e[d][m] \in Files}}
    IN at(Root, <<>>) \union
       UNION {at(e[Root][n], <<n>>) : n \in {m \in Names : e[Root][m] \in Directories}}

Tree == TreeFiles(entries, bytes)

Scanning == scan.pc \notin {"idle", "done", "failed"}

(* The history of the tree while it is scanned.                            *)
Seen ==
    IF Scanning
    THEN /\ held' = [f \in Files |-> held[f] \union {bytes'[f]}]
         /\ trees' = trees \union {TreeFiles(entries', bytes')}
    ELSE UNCHANGED <<held, trees>>

Touched(is) == [i \in Inodes |-> IF i \in is THEN stamp[i] + 1 ELSE stamp[i]]

Edit(is) ==
    /\ edits < MaxTreeEdits
    /\ edits' = edits + 1
    /\ stamp' = Touched(is)

(* One chunk of a file is rewritten in place.                              *)
Rewrite(f, k, c) ==
    /\ bytes[f][k] # c
    /\ Edit({f})
    /\ bytes' = [bytes EXCEPT ![f][k] = c]
    /\ UNCHANGED <<entries, shared, scanVars>>
    /\ Seen

(* rename(2): the entry moves, over whatever had the new name.             *)
Rename(d, n, e, m) ==
    LET i == entries[d][n]
    IN /\ i \in Files
       /\ <<d, n>> # <<e, m>>
       /\ entries[e][m] \notin Directories
       /\ Edit({d, e, i} \union ({entries[e][m]} \ {NoInode}))
       /\ entries' = [[entries EXCEPT ![d][n] = NoInode] EXCEPT ![e][m] = i]
       /\ UNCHANGED <<bytes, shared, scanVars>>
       /\ Seen

LinkOrUnlink(d, n, i) ==
    /\ entries[d][n] \notin Directories
    /\ i \in (Files \union {NoInode}) \ {entries[d][n]}
    /\ Edit(({d, i, entries[d][n]}) \ {NoInode})
    /\ entries' = [entries EXCEPT ![d][n] = i]
    /\ UNCHANGED <<bytes, shared, scanVars>>
    /\ Seen

ChangeMode(i) ==
    /\ Edit({i})
    /\ shared' = (shared \ {i}) \union ({i} \ shared)
    /\ UNCHANGED <<entries, bytes, scanVars>>
    /\ Seen

TreeOwnerStep ==
    \/ \E f \in Files, k \in 1..2, c \in Chunks : Rewrite(f, k, c)
    \/ \E d, e \in DirectoryInodes, n, m \in Names : Rename(d, n, e, m)
    \/ \E d \in DirectoryInodes, n \in Names, i \in Files \union {NoInode} :
         LinkOrUnlink(d, n, i)
    \/ \E i \in Inodes : ChangeMode(i)

---------------------------------------------------------------------------
(* The scanner. *)

ProvenanceInit ==
    /\ entries \in Trees
    /\ bytes = [f \in Files |-> <<CHOOSE c \in Chunks : TRUE, CHOOSE c \in Chunks : TRUE>>]
    /\ stamp = [i \in Inodes |-> 0]
    /\ shared = {}
    /\ edits = 0
    /\ scan = NoScan
    /\ stack = <<>>
    /\ tracked = {}
    /\ files = {}
    /\ manifest = <<>>
    /\ held = [f \in Files |-> {bytes[f]}]
    /\ listed = {}
    /\ trees = {Tree}

(* _is_safe_directory and _is_safe_file.                                   *)
SafeDirectory(i) == i \notin shared
SafeModelFile(i) == i \notin shared /\ LinkCount(i) = 1

Stat(i) == [inode |-> i, stamp |-> stamp[i]]

(* _require_same_metadata, of an inode against an earlier stat.            *)
SameMetadata(before, i) == Stat(i) = before

Fails ==
    /\ scan' = [pc |-> "failed"]
    /\ stack' = <<>>
    /\ tracked' = {}
    /\ files' = {}
    /\ UNCHANGED <<treeVars, manifest, listed, held, trees>>

ScanStep(vars) == UNCHANGED <<treeVars, held, trees, vars>>

Top == stack[Len(stack)]
EntryPath(n) == Append(Top.path, n)

(* build_model_provenance: the accumulator is new, the root is looked at.  *)
StartScan ==
    /\ scan.pc \in {"idle", "failed"} \/ (scan.pc = "done" /\ Len(manifest) < 2)
    /\ SafeDirectory(Root)
    /\ scan' = [pc |-> "root", before |-> Stat(Root)]
    /\ stack' = <<>>
    /\ tracked' = {}
    /\ files' = {}
    /\ listed' = {}
    /\ held' = [f \in Files |-> {bytes[f]}]
    /\ trees' = {Tree}
    /\ UNCHANGED <<treeVars, manifest>>

(* A directory is opened and compared with the stat of its entry.          *)
Enter(i, path) ==
    /\ scan' = [pc |-> "list", begun |-> FALSE]
    /\ stack' = Append(stack, [inode |-> i, before |-> Stat(i), path |-> path,
                               todo |-> {}, found |-> {}])
    /\ tracked' = tracked \union {i}
    /\ ScanStep(<<files, manifest, listed>>)

OpenRoot ==
    /\ scan.pc = "root"
    /\ IF SameMetadata(scan.before, Root) /\ SafeDirectory(Root)
       THEN Enter(Root, <<>>)
       ELSE Fails

(* _scan_directory begins with an fstat of its own: a change since the open
   is not noticed.                                                         *)
BeginDirectory ==
    /\ scan.pc = "list" /\ ~scan.begun
    /\ IF Len(stack) - 1 > MaxModelDepth THEN Fails
       ELSE /\ scan' = [pc |-> "list", begun |-> TRUE]
            /\ stack' = [stack EXCEPT ![Len(stack)].before = Stat(Top.inode)]
            /\ ScanStep(<<tracked, files, manifest, listed>>)

(* The names are listed after the fstat they are compared with.            *)
ListNames ==
    /\ scan.pc = "list" /\ scan.begun
    /\ scan' = [pc |-> "next"]
    /\ stack' = [stack EXCEPT ![Len(stack)].todo =
                   {n \in Names : entries[Top.inode][n] # NoInode}]
    /\ ScanStep(<<tracked, files, manifest, listed>>)

First(ns) == CHOOSE n \in ns : \A m \in ns : NameRank[n] <= NameRank[m]

(* The next entry is looked at, relative to the open directory.            *)
StatEntry ==
    /\ scan.pc = "next"
    /\ Top.todo # {}
    /\ LET n == First(Top.todo)
           i == entries[Top.inode][n]
           safe == IF i \in Files THEN SafeModelFile(i) ELSE SafeDirectory(i)
       IN IF i = NoInode \/ i \in tracked \/ ~safe THEN Fails
          ELSE /\ scan' = [pc |-> IF i \in Files THEN "file" ELSE "child",
                           name |-> n, before |-> Stat(i)]
               /\ stack' = [stack EXCEPT ![Len(stack)].todo = @ \ {n},
                                         ![Len(stack)].found = @ \union {<<n, i>>}]
               /\ tracked' = tracked \union {i}
               /\ ScanStep(<<files, manifest, listed>>)

Found == entries[Top.inode][scan.name]

OpenChild ==
    /\ scan.pc = "child"
    /\ IF Found \in Directories /\ SameMetadata(scan.before, Found) /\ SafeDirectory(Found)
       THEN Enter(Found, EntryPath(scan.name))
       ELSE Fails

OpenModelFile ==
    /\ scan.pc = "file"
    /\ IF Found \in Files /\ SameMetadata(scan.before, Found) /\ SafeModelFile(Found)
       THEN /\ scan' = [pc |-> "hash", name |-> scan.name, before |-> scan.before,
                        read |-> <<>>]
            /\ ScanStep(<<stack, tracked, files, manifest, listed>>)
       ELSE Fails

(* _hash_file_descriptor reads the open inode, wherever its name is now.   *)
HashChunk ==
    /\ scan.pc = "hash"
    /\ Len(scan.read) < 2
    /\ scan' = [scan EXCEPT !.read =
                  Append(@, bytes[scan.before.inode][Len(scan.read) + 1])]
    /\ ScanStep(<<stack, tracked, files, manifest, listed>>)

EndFile ==
    /\ scan.pc = "hash"
    /\ Len(scan.read) = 2
    /\ LET entry == <<EntryPath(scan.name), scan.read>>
       IN IF /\ SameMetadata(scan.before, scan.before.inode)
             /\ Cardinality(files) < MaxModelFiles
          THEN /\ files' = files \union {entry}
               /\ scan' = [pc |-> "next"]
               /\ ScanStep(<<stack, tracked, manifest, listed>>)
          ELSE Fails

\* Mutant: verification does not compare the rebuilt manifest.
EndScanUncompared(found) ==
    /\ stack' = <<>>
    /\ listed' = listed \union {<<Top.inode, Top.found>>}
    /\ scan' = [pc |-> IF found = {} THEN "failed" ELSE "done"]
    /\ manifest' = IF found = {} THEN manifest ELSE Append(manifest, found)
    /\ ScanStep(<<tracked, files>>)

(* _assemble: canonical bytes are a function of the sorted entries, so two
   manifests are equal when their entries are; verify compares with the
   first.                                                                  *)
EndScan(found) ==
    /\ stack' = <<>>
    /\ listed' = listed \union {<<Top.inode, Top.found>>}
    /\ IF found = {} \/ (manifest # <<>> /\ manifest[1] # found)
       THEN scan' = [pc |-> "failed"] /\ manifest' = manifest
       ELSE scan' = [pc |-> "done"] /\ manifest' = Append(manifest, found)
    /\ ScanStep(<<tracked, files>>)

(* The directory is compared once its last entry is done.                  *)
EndDirectory ==
    /\ scan.pc = "next"
    /\ Top.todo = {}
    /\ IF ~SameMetadata(Top.before, Top.inode) THEN Fails
       ELSE IF Len(stack) = 1 THEN EndScan(files)
       ELSE /\ stack' = SubSeq(stack, 1, Len(stack) - 1)
            /\ listed' = listed \union {<<Top.inode, Top.found>>}
            /\ ScanStep(<<scan, tracked, files, manifest>>)

ScannerStep ==
    \/ StartScan \/ OpenRoot \/ BeginDirectory \/ ListNames \/ StatEntry \/ OpenChild
    \/ OpenModelFile \/ HashChunk \/ EndFile \/ EndDirectory

ProvenanceNext == ScannerStep \/ TreeOwnerStep
ProvenanceSpec == ProvenanceInit /\ [][ProvenanceNext]_provenanceVars

---------------------------------------------------------------------------
(* Properties. *)

(* A digest in a manifest is that of one content its file had, whole, while
   the directory was scanned: a rewrite between two reads of the hash never
   yields a mixture that was never on disk.                                *)
DigestsAreWhole ==
    \A entry \in files : \E f \in Files : entry[2] \in held[f]

(* A directory that passed its comparison was listed and entered at one
   instant: the names, and the inodes they led to, are those it had all
   through its scan, although the owner links, unlinks and renames between
   the listing and each entry.                                             *)
ListedIsHeld ==
    \A row \in listed' \ listed :
        row[2] = {<<n, entries[row[1]][n]>> : n \in {m \in Names : entries[row[1]][m] # NoInode}}
ListedAtOneInstant == [][ListedIsHeld]_provenanceVars

(* What verification accepts, the first manifest already was, and neither
   has more files than the limit, an empty list or a file twice.           *)
ManifestsAgree ==
    \A k \in DOMAIN manifest :
        /\ manifest[k] = manifest[1]
        /\ Cardinality(manifest[k]) \in 1..MaxModelFiles
        /\ \A x, y \in manifest[k] : x[1] = y[1] => x = y

(* model_provenance.py: "every file and directory is compared before and
   after ... so any mid-scan mutation fails closed": the manifest of a scan
   that succeeds is the tree as it was at some instant of the scan.        *)
ManifestWasTree ==
    scan.pc = "done" => manifest[Len(manifest)] \in trees

(* A manifest never mixes contents, and verification accepts nothing that
   the first scan did not list.                                            *)
ManifestIsSound == DigestsAreWhole /\ ManifestsAgree

=============================================================================
