-------------------------------- MODULE Ptch --------------------------------
(***************************************************************************)
(* The file patcher (source/utils/ptch.c with the file functions of        *)
(* utils.c).  At every start, before any file of the game is loaded, each  *)
(* patch that is not in the log is written into its target, which is       *)
(* backed up first unless a backup exists.                                 *)
(*                                                                         *)
(* Files are written by opening them for writing, which empties them, and  *)
(* then writing their contents.  The program may be closed at any moment;  *)
(* with TornWrites that may leave a file with a part of what was to be     *)
(* written.                                                                *)
(***************************************************************************)
EXTENDS Naturals, Sequences

CONSTANTS
  Files,        \* the target files
  Missing,      \* contents of a file that does not exist
  Original,     \* file -> its contents as installed, or Missing
  Patches,      \* the files *.ptch in the patches directory
  Patch,        \* patch -> its header and its records
  TornWrites,   \* can a write be cut off in the middle?
  IOErrors,     \* can opening or writing a file fail?
  MaxCrashes    \* bound on the interrupted runs

Byte == Nat
Contents == Seq(Byte) \cup {Missing}

ASSUME PtchAssumption ==
  /\ Missing \notin Seq(Byte)
  /\ Original \in [Files -> Contents]
  /\ Patch \in [Patches -> [wellFormed: BOOLEAN, file: Files, size: Nat, count: Nat,
                            records: Seq([offset: Nat, data: Seq(Byte)])]]
  /\ TornWrites \in BOOLEAN /\ IOErrors \in BOOLEAN
  /\ MaxCrashes \in Nat

VARIABLES
  target,       \* file -> contents on disk
  backup,       \* file -> contents of its .backup
  applied,      \* the patches with a line in .applied
  pc,           \* where the patcher is; "off" between runs, "game" after it
  todo,         \* patches that readdir has not returned yet
  patch,        \* the patch being applied
  data,         \* target_data
  crashes       \* interrupted runs so far

disk == <<target, backup, applied>>
vars == <<disk, pc, todo, patch, data, crashes>>

File == Patch[patch].file

TypeOK ==
  /\ target \in [Files -> Contents]
  /\ backup \in [Files -> Contents]
  /\ applied \subseteq Patches
  /\ pc \in {"off", "scan", "load", "backup", "copy", "records", "save", "mark", "game"}
  /\ todo \subseteq Patches
  /\ patch \in Patches
  /\ data \in Seq(Byte)
  /\ crashes \in Nat

Init ==
  /\ target = Original
  /\ backup = [f \in Files |-> Missing]
  /\ applied = {}
  /\ pc = "off" /\ todo = {} /\ patch \in Patches /\ data = <<>>
  /\ crashes = 0

-----------------------------------------------------------------------------
(* What a patch does to the contents of a file *)

\* The records that say something about byte i.
Covering(p, i) ==
  {k \in 1 .. Patch[p].count :
     LET r == Patch[p].records[k] IN i \in (r.offset + 1) .. (r.offset + Len(r.data))}

\* The records are copied in their order: the last one to cover a byte wins.
ByteOf(p, i) ==
  LET k == CHOOSE k \in Covering(p, i) : \A j \in Covering(p, i) : j <= k
  IN Patch[p].records[k].data[i - Patch[p].records[k].offset]

\* Mutant: the first record to cover a byte wins.
PatchedFirstWins(p, contents) ==
  [i \in 1 .. Len(contents) |->
     IF Covering(p, i) = {} THEN contents[i]
     ELSE LET k == CHOOSE k \in Covering(p, i) : \A j \in Covering(p, i) : k <= j
          IN Patch[p].records[k].data[i - Patch[p].records[k].offset]]

Patched(p, contents) ==
  [i \in 1 .. Len(contents) |-> IF Covering(p, i) = {} THEN contents[i] ELSE ByteOf(p, i)]

\* The records are all there and lie inside the target.
RecordsFit(p, length) ==
  /\ Patch[p].count <= Len(Patch[p].records)
  /\ \A k \in 1 .. Patch[p].count :
       Patch[p].records[k].offset + Len(Patch[p].records[k].data) <= length

\* Mutant: only the length of the patch is checked before it is written.
AcceptsPart(p, length) == Patch[p].count <= Len(Patch[p].records)

\* The loop over the records runs to its end.
Accepts(p, length) == RecordsFit(p, length)

\* The header suits the contents that are to be patched.
Suits(p, contents) ==
  /\ Patch[p].wellFormed
  /\ contents \notin {Missing, <<>>}
  /\ Len(contents) = Patch[p].size

-----------------------------------------------------------------------------
Start ==
  /\ pc = "off"
  /\ pc' = "scan"
  /\ todo' = Patches
  /\ UNCHANGED <<disk, patch, data, crashes>>

\* Mutant: the log is searched for the target's name.
AppliedToFile(p) == \E q \in applied : Patch[q].file = Patch[p].file

\* ptch_is_applied
IsApplied(p) == p \in applied

\* readdir returns the patches in any order.
SkipPatch(p) ==
  /\ pc = "scan" /\ p \in todo
  /\ IsApplied(p)
  /\ todo' = todo \ {p}
  /\ UNCHANGED <<disk, pc, patch, data, crashes>>

TakePatch(p) ==
  /\ pc = "scan" /\ p \in todo
  /\ ~IsApplied(p)
  /\ todo' = todo \ {p}
  /\ patch' = p
  /\ pc' = "load"
  /\ UNCHANGED <<disk, data, crashes>>

\* ptch_apply up to the backup.
LoadTarget ==
  /\ pc = "load"
  /\ IF Suits(patch, target[File])
     THEN data' = target[File] /\ pc' = "backup"
     ELSE pc' = "scan" /\ UNCHANGED data
  /\ UNCHANGED <<disk, todo, patch, crashes>>

\* Mutant: the backup is made anew each time.
AlwaysBackUp(f) == TRUE

NeedsBackup(f) == backup[f] = Missing

\* ptch_backup_file; when it fails the patch is applied without a backup.
KeepBackup ==
  /\ pc = "backup"
  /\ ~NeedsBackup(File) \/ IOErrors
  /\ pc' = "records"
  /\ UNCHANGED <<disk, todo, patch, data, crashes>>

OpenBackup ==
  /\ pc = "backup"
  /\ NeedsBackup(File)
  /\ backup' = [backup EXCEPT ![File] = <<>>]
  /\ pc' = "copy"
  /\ UNCHANGED <<target, applied, todo, patch, data, crashes>>

\* What fwrite leaves in a file: its result is not looked at, so a full disk
\* cuts the contents short and nobody notices.
Written(contents) ==
  {SubSeq(contents, 1, n) : n \in IF IOErrors THEN 0 .. Len(contents) ELSE {Len(contents)}}

WriteBackup ==
  /\ pc = "copy"
  /\ \E w \in Written(target[File]) : backup' = [backup EXCEPT ![File] = w]
  /\ pc' = "records"
  /\ UNCHANGED <<target, applied, todo, patch, data, crashes>>

\* A record is cut off or out of bounds, or the target cannot be opened:
\* nothing is written.
RefuseRecords ==
  /\ pc = "records"
  /\ ~Accepts(patch, Len(data)) \/ IOErrors
  /\ pc' = "scan"
  /\ data' = <<>>
  /\ UNCHANGED <<disk, todo, patch, crashes>>

\* The records are copied into the buffer, and file_save empties the target.
OpenTarget ==
  /\ pc = "records"
  /\ Accepts(patch, Len(data))
  /\ data' = Patched(patch, data)
  /\ target' = [target EXCEPT ![File] = <<>>]
  /\ pc' = "save"
  /\ UNCHANGED <<backup, applied, todo, patch, crashes>>

WriteTarget ==
  /\ pc = "save"
  /\ \E w \in Written(data) : target' = [target EXCEPT ![File] = w]
  /\ pc' = "mark"
  /\ data' = <<>>
  /\ UNCHANGED <<backup, applied, todo, patch, crashes>>

LogPatch == applied \cup {patch}

\* ptch_mark_applied; its result is ignored.
MarkApplied ==
  /\ pc = "mark"
  /\ applied' = LogPatch \/ (IOErrors /\ UNCHANGED applied)
  /\ pc' = "scan"
  /\ UNCHANGED <<target, backup, todo, patch, data, crashes>>

StartGame ==
  /\ pc = "scan" /\ todo = {}
  /\ pc' = "game"
  /\ UNCHANGED <<disk, todo, patch, data, crashes>>

QuitGame ==
  /\ pc = "game"
  /\ pc' = "off"
  /\ UNCHANGED <<disk, todo, patch, data, crashes>>

\* The program is closed while it patches.  A file that is being written is
\* left with a part of its contents.
Crash ==
  /\ pc \notin {"off", "game"}
  /\ crashes < MaxCrashes
  /\ pc \in {"copy", "save"} => TornWrites
  /\ pc' = "off"
  /\ todo' = {} /\ data' = <<>>
  /\ crashes' = crashes + 1
  /\ \E n \in 0 .. Len(data) :
       /\ backup' = IF pc = "copy" THEN [backup EXCEPT ![File] = SubSeq(target[File], 1, n)]
                    ELSE backup
       /\ target' = IF pc = "save" THEN [target EXCEPT ![File] = SubSeq(data, 1, n)]
                    ELSE target
  /\ UNCHANGED <<applied, patch>>

Run ==
  \/ Start
  \/ \E p \in Patches : SkipPatch(p) \/ TakePatch(p)
  \/ LoadTarget
  \/ KeepBackup \/ OpenBackup \/ WriteBackup
  \/ RefuseRecords
  \/ OpenTarget \/ WriteTarget \/ MarkApplied
  \/ StartGame \/ QuitGame

Next == Run \/ Crash

\* The program runs on, and is started again.
Spec == Init /\ [][Next]_vars /\ WF_vars(Run)

-----------------------------------------------------------------------------
(* Properties *)

Complete(f) == target[f] # Missing /\ Len(target[f]) = Len(Original[f])

\* The patches that can have been written to file f.
Candidates(f) ==
  {p \in Patches : /\ Patch[p].file = f
                   /\ Suits(p, Original[f]) /\ RecordsFit(p, Len(Original[f]))}

\* Byte i of contents c of file f is what a patch says.
FromPatch(f, c, i) == \E q \in Candidates(f) : Covering(q, i) # {} /\ c[i] = ByteOf(q, i)

\* Where patch p says something, contents c hold what a patch says.
Holds(p, f, c) == \A i \in 1 .. Len(c) : Covering(p, i) # {} => FromPatch(f, c, i)

\* A patch in the log is in its target, except where another patch that was
\* written later covers it: the log never runs ahead of the file, whenever
\* the program is closed and whatever the file system fails to do.
MarkedIsInFile ==
  \A p \in applied :
    Complete(Patch[p].file) => Holds(p, Patch[p].file, target[Patch[p].file])

\* A target that is complete holds each byte as installed or as some patch
\* that fits says: a patch that is refused, however late, has left no byte.
Whole(f, c) == \A i \in 1 .. Len(c) : c[i] = Original[f][i] \/ FromPatch(f, c, i)

OnlyWholePatches == \A f \in Files : Complete(f) => Whole(f, target[f])

\* The backup never holds anything but the file as installed, or a beginning
\* of it, however often the program is closed and in whatever order patches
\* for the same file come.
BackupIsOriginal ==
  \A f \in Files :
    backup[f] # Missing =>
      \E n \in 0 .. Len(Original[f]) : backup[f] = SubSeq(Original[f], 1, n)

\* A file is never changed before its backup is complete ("The game creates
\* automatic backups of files before applying patches").
BackedUpFirst ==
  \A f \in Files : target[f] # Original[f] => backup[f] = Original[f]

\* The backups are worth keeping: taken before the first change of a file and
\* never again from a file that was changed, whichever patch comes first and
\* wherever the program is closed.
BackupsKept == BackedUpFirst /\ BackupIsOriginal

\* Each patch that fits its target gets applied, however often the program
\* was closed before.
EveryPatchLands ==
  \A p \in Patches : p \in Candidates(Patch[p].file) => <>(p \in applied)
=============================================================================
