--------------------------- MODULE ContentsProofs ---------------------------
(***************************************************************************)
(* Bytes that come back as they were: the files of the patcher (Ptch) and  *)
(* the strings of the fake JNI (FalsoJNI).                                 *)
(*                                                                         *)
(* What survives a crash of the patcher, for any files and patches: the    *)
(* log is true (MarkedIsInFile) and files hold whole patches only          *)
(* (OnlyWholePatches), even when files are torn and writes fail.  For this *)
(* Inv follows the contents from the file into the buffer and back: what   *)
(* is in the buffer was read from the target, and once the records have    *)
(* been copied it holds the patch.  BackupInv does the same for the backup *)
(* when opening and writing a file do not fail, and WholeBackupInv when no *)
(* write is cut off either.                                                *)
(*                                                                         *)
(* What GetStringUTFChars returns, for any texts in UTF-8: a text that is  *)
(* converted to UTF-16 and back is the same, whatever the units behind it  *)
(* hold (TextIsBack), and JniInv follows the buffer of a string through    *)
(* the steps of all the threads that write it anew.                        *)
(***************************************************************************)
EXTENDS Ptch, FalsoJNI, SequenceTheorems, WellFoundedInduction, TLAPS

\* A file exists or not as installed, and never gets longer.
SameFiles ==
  \A f \in Files : /\ (target[f] = Missing) <=> (Original[f] = Missing)
                   /\ target[f] # Missing => Len(target[f]) <= Len(Original[f])

FullLength(c) == Len(c) = Len(Original[File])

\* Where the contents are while a patch is applied.
Applying == pc \in {"backup", "copy", "records"} => data = target[File] /\ Suits(patch, data)

Saving ==
  pc = "save" => /\ Original[File] # Missing
                 /\ Len(data) <= Len(Original[File])
                 /\ FullLength(data) =>
                      /\ Whole(File, data)
                      /\ Holds(patch, File, data)
                      /\ \A p \in applied : Patch[p].file = File => Holds(p, File, data)

Marking ==
  pc = "mark" => /\ Original[File] # Missing
                 /\ FullLength(target[File]) => Holds(patch, File, target[File])

Disk == SameFiles /\ MarkedIsInFile /\ OnlyWholePatches

Inv == TypeOK /\ Disk /\ Applying /\ Saving /\ Marking

-----------------------------------------------------------------------------
(* Contents *)

\* A bounded set of numbers that is not empty has a greatest element.
LEMMA MaxExists ==
  ASSUME NEW n \in Nat, NEW S \in SUBSET (1 .. n), S # {}
  PROVE  \E k \in S : \A j \in S : j <= k
<1> DEFINE T == {n - k : k \in S}
<1>1. T \subseteq Nat
  <2> SUFFICES ASSUME NEW k \in S PROVE n - k \in Nat
    OBVIOUS
  <2> QED
    OBVIOUS
<1>2. T # {}
  <2>1. PICK k \in S : TRUE
    OBVIOUS
  <2>2. n - k \in T
    BY <2>1
  <2> QED
    BY <2>2
<1>3. \E x \in T : \A y \in T : ~ (<<y, x>> \in OpToRel(<, Nat))
  <2> HIDE DEF T
  <2> QED
    BY <1>1, <1>2, NatLessThanWellFounded, WFMin
<1>4. PICK x \in T : \A y \in T : ~ (y < x)
  BY <1>1, <1>3 DEF OpToRel
<1>5. PICK k \in S : x = n - k
  BY <1>4
<1>6. ASSUME NEW j \in S PROVE j <= k
  <2>1. ~ (n - j < n - k)
    BY <1>4, <1>5
  <2>2. j \in Int /\ k \in Int
    OBVIOUS
  <2> QED
    BY <2>1, <2>2
<1> QED
  BY <1>6

\* The byte a patch writes is a byte of one of its records.
LEMMA ByteType ==
  ASSUME NEW p \in Patches, NEW i \in Nat,
         Patch[p].count <= Len(Patch[p].records), Covering(p, i) # {}
  PROVE  ByteOf(p, i) \in Byte
<1>1. Patch[p].count \in Nat /\ Covering(p, i) \in SUBSET (1 .. Patch[p].count)
  BY PtchAssumption DEF Covering
<1>2. PICK k \in Covering(p, i) : \A j \in Covering(p, i) : j <= k
  BY <1>1, MaxExists
<1> DEFINE m == CHOOSE l \in Covering(p, i) : \A j \in Covering(p, i) : j <= l
<1>3. m \in Covering(p, i)
  BY <1>2
<1> DEFINE r == Patch[p].records[m]
<1>4. r \in [offset: Nat, data: Seq(Byte)]
  <2>1. Patch[p].records \in Seq([offset: Nat, data: Seq(Byte)])
    BY PtchAssumption
  <2>2. m \in 1 .. Len(Patch[p].records)
    BY <1>1, <1>3, <2>1, LenProperties
  <2> QED
    BY <2>1, <2>2, ElementOfSeq
<1>5. i - r.offset \in 1 .. Len(r.data)
  <2>1. i \in (r.offset + 1) .. (r.offset + Len(r.data))
    BY <1>3 DEF Covering
  <2>2. Len(r.data) \in Nat /\ r.offset \in Nat
    BY <1>4, LenProperties
  <2> HIDE DEF r
  <2> QED
    BY <2>1, <2>2
<1>6. r.data[i - r.offset] \in Byte
  BY <1>4, <1>5, ElementOfSeq
<1> QED
  BY <1>6 DEF ByteOf

\* Patching keeps the length.
LEMMA PatchedType ==
  ASSUME NEW p \in Patches, NEW c \in Seq(Byte),
         Patch[p].count <= Len(Patch[p].records)
  PROVE  /\ Patched(p, c) \in Seq(Byte)
         /\ Len(Patched(p, c)) = Len(c)
         /\ \A i \in 1 .. Len(c) :
              Patched(p, c)[i] = IF Covering(p, i) = {} THEN c[i] ELSE ByteOf(p, i)
<1>1. Len(c) \in Nat /\ \A i \in 1 .. Len(c) : c[i] \in Byte
  BY LenProperties, ElementOfSeq
<1>2. \A i \in 1 .. Len(c) : Covering(p, i) # {} => ByteOf(p, i) \in Byte
  BY <1>1, ByteType
<1>3. Patched(p, c) \in [1 .. Len(c) -> Byte]
  BY <1>1, <1>2 DEF Patched
<1>4. Patched(p, c) \in Seq(Byte)
  BY <1>1, <1>3, SeqDef
<1>5. Len(Patched(p, c)) = Len(c)
  <2>1. DOMAIN Patched(p, c) = 1 .. Len(c)
    BY DEF Patched
  <2>2. DOMAIN Patched(p, c) = 1 .. Len(Patched(p, c)) /\ Len(Patched(p, c)) \in Nat
    BY <1>4, LenProperties
  <2> QED
    BY <1>1, <2>1, <2>2
<1> QED
  BY <1>4, <1>5 DEF Patched

\* Patching keeps contents whole, puts the patch in, and leaves no gap in
\* what was there.
LEMMA PatchedContents ==
  ASSUME NEW p \in Patches, NEW f \in Files, NEW c \in Seq(Byte),
         p \in Candidates(f), Whole(f, c)
  PROVE  /\ Whole(f, Patched(p, c))
         /\ Holds(p, f, Patched(p, c))
         /\ \A q \in Patches : Holds(q, f, c) => Holds(q, f, Patched(p, c))
<1>1. Patch[p].count <= Len(Patch[p].records)
  BY DEF Candidates, RecordsFit
<1> DEFINE d == Patched(p, c)
<1>2. Len(d) = Len(c) /\ \A i \in 1 .. Len(c) :
        d[i] = IF Covering(p, i) = {} THEN c[i] ELSE ByteOf(p, i)
  BY <1>1, PatchedType
<1> HIDE DEF d
<1>3. \A i \in 1 .. Len(c) : Covering(p, i) # {} => FromPatch(f, d, i)
  BY <1>2 DEF FromPatch
<1>4. \A i \in 1 .. Len(c) : FromPatch(f, c, i) => FromPatch(f, d, i)
  BY <1>2, <1>3 DEF FromPatch
<1>5. Whole(f, d)
  BY <1>2, <1>3, <1>4 DEF Whole
<1>6. Holds(p, f, d)
  BY <1>2, <1>3 DEF Holds
<1>7. \A q \in Patches : Holds(q, f, c) => Holds(q, f, d)
  BY <1>2, <1>4 DEF Holds
<1> QED
  BY <1>5, <1>6, <1>7 DEF d

\* A beginning of a sequence, and the whole of it.
LEMMA Beginning ==
  ASSUME NEW s \in Seq(Byte), NEW n \in 0 .. Len(s)
  PROVE  /\ SubSeq(s, 1, n) \in Seq(Byte)
         /\ Len(SubSeq(s, 1, n)) = n
         /\ n = Len(s) => SubSeq(s, 1, n) = s
<1>1. Len(s) \in Nat /\ \A i \in 1 .. n : s[i] \in Byte
  BY LenProperties, ElementOfSeq
<1>2. SubSeq(s, 1, n) \in Seq(Byte) /\ Len(SubSeq(s, 1, n)) = n
      /\ \A i \in 1 .. n : SubSeq(s, 1, n)[i] = s[i]
  BY <1>1, SubSeqProperties
<1>3. n = Len(s) => SubSeq(s, 1, n) = s
  BY <1>2, SeqEqual
<1> QED
  BY <1>2, <1>3

LEMMA WrittenType ==
  ASSUME NEW s \in Seq(Byte), NEW w \in Written(s)
  PROVE  w \in Seq(Byte) /\ (Len(w) = Len(s) => w = s) /\ (~IOErrors => w = s)
<1>1. Len(s) \in Nat
  BY LenProperties
<1>2. PICK n \in 0 .. Len(s) : w = SubSeq(s, 1, n) /\ (~IOErrors => n = Len(s))
  BY <1>1 DEF Written
<1> QED
  BY <1>2, Beginning

-----------------------------------------------------------------------------
(* The log and the files *)

LEMMA InitInv == Init => Inv
<1> SUFFICES ASSUME Init PROVE Inv
  OBVIOUS
<1> USE PtchAssumption DEF Init
<1>1. TypeOK
  <2>1. <<>> \in Seq(Byte)
    BY EmptySeq
  <2> QED
    BY <2>1 DEF TypeOK, Contents
<1>2. \A f \in Files : Original[f] # Missing => Len(Original[f]) \in Nat
  BY LenProperties DEF Contents
<1>3. SameFiles
  <2> SUFFICES ASSUME NEW f \in Files, target[f] # Missing
               PROVE  Len(target[f]) <= Len(Original[f])
    BY DEF SameFiles
  <2>1. target[f] = Original[f] /\ Len(Original[f]) \in Nat
    BY <1>2
  <2> HIDE DEF Init
  <2> QED
    BY <2>1
<1>4. MarkedIsInFile /\ OnlyWholePatches
  BY DEF MarkedIsInFile, OnlyWholePatches, Whole
<1> QED
  BY <1>1, <1>3, <1>4 DEF Inv, Disk, Applying, Saving, Marking

\* A step that leaves the targets and the log alone leaves Disk alone.
LEMMA DiskFrame ==
  ASSUME Disk, target' = target, applied' = applied
  PROVE  Disk'
BY DEF Disk, SameFiles, MarkedIsInFile, OnlyWholePatches, Complete

\* A step that writes contents w into the target: they need to be in order
\* if they have the full length.
LEMMA DiskWrite ==
  ASSUME TypeOK, Disk, applied' = applied, NEW w \in Seq(Byte),
         target' = [target EXCEPT ![File] = w],
         Original[File] # Missing, Len(w) <= Len(Original[File]),
         FullLength(w) =>
           /\ Whole(File, w)
           /\ \A p \in applied : Patch[p].file = File => Holds(p, File, w)
  PROVE  Disk'
<1> USE PtchAssumption
<1>1. target \in [Files -> Contents] /\ File \in Files /\ applied \subseteq Patches
  BY DEF TypeOK, File
<1>2. w # Missing
  OBVIOUS
<1>3. target'[File] = w /\ \A f \in Files : f # File => target'[f] = target[f]
  BY <1>1
<1>4. SameFiles'
  BY <1>2, <1>3 DEF Disk, SameFiles
<1>5. MarkedIsInFile'
  <2> SUFFICES ASSUME NEW p \in applied, Complete(Patch[p].file)'
               PROVE  Holds(p, Patch[p].file, target'[Patch[p].file])
    BY DEF MarkedIsInFile
  <2>1. Patch[p].file \in Files
    BY <1>1
  <2>2. CASE Patch[p].file = File
    BY <1>3, <2>2 DEF Complete, FullLength
  <2>3. CASE Patch[p].file # File
    BY <1>3, <2>1, <2>3 DEF Complete, Disk, MarkedIsInFile
  <2> QED
    BY <2>2, <2>3
<1>6. OnlyWholePatches'
  BY <1>3 DEF OnlyWholePatches, Complete, FullLength, Disk
<1> QED
  BY <1>4, <1>5, <1>6 DEF Disk

LEMMA EmptyIsWhole ==
  ASSUME NEW f \in Files
  PROVE  Whole(f, <<>>) /\ \A p \in Patches : Holds(p, f, <<>>)
BY DEF Whole, Holds

\* The patch in hand fits its target if the target has its full length.
LEMMA PatchIsCandidate ==
  ASSUME TypeOK, SameFiles, data = target[File], Suits(patch, data),
         RecordsFit(patch, Len(data)), FullLength(data)
  PROVE  patch \in Candidates(File) /\ Complete(File)
<1> USE PtchAssumption
<1>1. File \in Files /\ patch \in Patches /\ data \in Seq(Byte)
  BY DEF TypeOK, File
<1>2. target[File] # Missing /\ Original[File] # Missing
  BY <1>1 DEF Suits, SameFiles
<1>3. Original[File] \in Seq(Byte)
  BY <1>1, <1>2 DEF Contents
<1>4. Len(Original[File]) # 0 /\ Original[File] # <<>>
  BY <1>1, <1>3, EmptySeq DEF Suits, FullLength
<1>5. Suits(patch, Original[File])
  BY <1>2, <1>4 DEF Suits, FullLength
<1>6. RecordsFit(patch, Len(Original[File]))
  BY DEF FullLength
<1>7. Complete(File)
  BY <1>2 DEF Complete, FullLength
<1> QED
  BY <1>1, <1>5, <1>6, <1>7 DEF Candidates, File

LEMMA OpenTargetStep ==
  ASSUME Inv, OpenTarget
  PROVE  Inv'
<1> USE PtchAssumption DEF OpenTarget
<1>1. patch \in Patches /\ File \in Files /\ data \in Seq(Byte) /\ applied \subseteq Patches
  BY DEF Inv, TypeOK, File
<1>2. data = target[File] /\ Suits(patch, data)
  BY DEF Inv, Applying
<1>3. RecordsFit(patch, Len(data)) /\ Patch[patch].count <= Len(Patch[patch].records)
  BY DEF Accepts, RecordsFit
<1>4. data' \in Seq(Byte) /\ Len(data') = Len(data)
  BY <1>1, <1>3, PatchedType
<1>5. Original[File] # Missing
  BY <1>1, <1>2 DEF Inv, Disk, SameFiles, Suits
<1>6. <<>> \in Seq(Byte) /\ Len(<<>>) <= Len(Original[File])
  <2>1. Original[File] \in Seq(Byte)
    BY <1>1, <1>5 DEF Contents
  <2> QED
    BY <2>1, EmptySeq, LenProperties
<1>7. TypeOK'
  <2>1. target' \in [Files -> Contents]
    BY <1>6 DEF Inv, TypeOK, Contents
  <2> QED
    BY <1>4, <2>1 DEF Inv, TypeOK
<1>8. Disk'
  <2>1. Whole(File, <<>>) /\ \A p \in Patches : Holds(p, File, <<>>)
    BY <1>1, EmptyIsWhole
  <2> QED
    BY <1>1, <1>5, <1>6, <2>1, DiskWrite DEF Inv
<1>9. ASSUME FullLength(data')
      PROVE  /\ Whole(File, data')
             /\ Holds(patch, File, data')
             /\ \A p \in applied : Patch[p].file = File => Holds(p, File, data')
  <2>1. FullLength(data)
    BY <1>4, <1>9 DEF FullLength
  <2>2. patch \in Candidates(File) /\ Complete(File)
    BY <1>2, <1>3, <2>1, PatchIsCandidate DEF Inv, Disk
  <2>3. Whole(File, data)
    BY <1>1, <1>2, <2>2 DEF Inv, Disk, OnlyWholePatches
  <2>4. \A p \in applied : Patch[p].file = File => Holds(p, File, data)
    BY <1>2, <2>2 DEF Inv, Disk, MarkedIsInFile
  <2> QED
    BY <1>1, <2>2, <2>3, <2>4, PatchedContents
<1>10. Len(data') <= Len(Original[File])
  BY <1>1, <1>2, <1>4, <1>5 DEF Inv, Disk, SameFiles
<1>11. Saving'
  BY <1>5, <1>9, <1>10 DEF Saving, FullLength, File
<1> QED
  BY <1>7, <1>8, <1>11 DEF Inv, Applying, Marking

\* What is left of the buffer in the target, whole or not, is in order.
LEMMA BufferBeginning ==
  ASSUME TypeOK, Saving, pc = "save", NEW n \in 0 .. Len(data), NEW w, w = SubSeq(data, 1, n)
  PROVE  /\ w \in Seq(Byte) /\ Len(w) <= Len(Original[File])
         /\ FullLength(w) =>
              /\ Whole(File, w)
              /\ Holds(patch, File, w)
              /\ \A p \in applied : Patch[p].file = File => Holds(p, File, w)
<1>1. data \in Seq(Byte) /\ Original[File] \in Seq(Byte)
  BY PtchAssumption DEF TypeOK, Saving, Contents, File
<1>2. w \in Seq(Byte) /\ Len(w) = n /\ (n = Len(data) => w = data)
  BY <1>1, Beginning
<1>3. Len(data) \in Nat /\ Len(Original[File]) \in Nat /\ Len(data) <= Len(Original[File])
  BY <1>1, LenProperties DEF Saving
<1>4. FullLength(w) => w = data
  BY <1>2, <1>3 DEF FullLength
<1>5. Len(w) <= Len(Original[File])
  BY <1>2, <1>3
<1> QED
  BY <1>2, <1>4, <1>5 DEF Saving

LEMMA WriteTargetStep ==
  ASSUME Inv, WriteTarget
  PROVE  Inv'
<1> USE PtchAssumption DEF WriteTarget
<1>1. patch \in Patches /\ File \in Files /\ data \in Seq(Byte) /\ applied \subseteq Patches
  BY DEF Inv, TypeOK, File
<1>2. PICK n \in 0 .. Len(data) : target' = [target EXCEPT ![File] = SubSeq(data, 1, n)]
  <2>1. Len(data) \in Nat
    BY <1>1, LenProperties
  <2>2. PICK w \in Written(data) : target' = [target EXCEPT ![File] = w]
    OBVIOUS
  <2>3. PICK n \in 0 .. Len(data) : w = SubSeq(data, 1, n)
    BY <2>1 DEF Written
  <2> QED
    BY <2>2, <2>3
<1> DEFINE w == SubSeq(data, 1, n)
<1>3. /\ w \in Seq(Byte) /\ Len(w) <= Len(Original[File])
      /\ FullLength(w) =>
           /\ Whole(File, w)
           /\ Holds(patch, File, w)
           /\ \A p \in applied : Patch[p].file = File => Holds(p, File, w)
  BY BufferBeginning DEF Inv
<1>4. target' = [target EXCEPT ![File] = w] /\ target'[File] = w
  BY <1>1, <1>2 DEF Inv, TypeOK
<1> HIDE DEF w
<1>5. Original[File] # Missing
  BY DEF Inv, Saving
<1>6. TypeOK'
  <2>1. target' \in [Files -> Contents]
    BY <1>3, <1>4 DEF Inv, TypeOK, Contents
  <2>2. <<>> \in Seq(Byte)
    BY EmptySeq
  <2> QED
    BY <2>1, <2>2 DEF Inv, TypeOK
<1>7. Disk'
  BY <1>3, <1>4, <1>5, DiskWrite DEF Inv
<1>8. Marking'
  BY <1>3, <1>4, <1>5 DEF Marking, FullLength, File
<1> QED
  BY <1>6, <1>7, <1>8 DEF Inv, Applying, Saving

LEMMA MarkAppliedStep ==
  ASSUME Inv, MarkApplied
  PROVE  Inv'
<1> USE PtchAssumption DEF MarkApplied
<1>1. patch \in Patches /\ File \in Files
  BY DEF Inv, TypeOK, File
<1>2. TypeOK'
  BY DEF Inv, TypeOK, LogPatch
<1>3. MarkedIsInFile'
  <2> SUFFICES ASSUME NEW p \in applied', Complete(Patch[p].file)'
               PROVE  Holds(p, Patch[p].file, target[Patch[p].file])
    BY DEF MarkedIsInFile
  <2>1. Complete(Patch[p].file)
    BY DEF Complete
  <2>2. CASE p = patch
    BY <2>1, <2>2 DEF Inv, Marking, Complete, FullLength, File
  <2>3. CASE p # patch
    BY <2>1, <2>3 DEF Inv, Disk, MarkedIsInFile, LogPatch
  <2> QED
    BY <2>2, <2>3
<1>4. Disk'
  BY <1>3 DEF Inv, Disk, SameFiles, OnlyWholePatches, Complete
<1> QED
  BY <1>2, <1>4 DEF Inv, Applying, Saving, Marking

LEMMA CrashStep ==
  ASSUME Inv, Crash
  PROVE  Inv'
<1> USE PtchAssumption DEF Crash
<1>1. patch \in Patches /\ File \in Files /\ data \in Seq(Byte) /\ Len(data) \in Nat
  BY LenProperties DEF Inv, TypeOK, File
<1>2. PICK n \in 0 .. Len(data) :
        /\ backup' = IF pc = "copy" THEN [backup EXCEPT ![File] = SubSeq(target[File], 1, n)]
                     ELSE backup
        /\ target' = IF pc = "save" THEN [target EXCEPT ![File] = SubSeq(data, 1, n)]
                     ELSE target
  OBVIOUS
<1>3. <<>> \in Seq(Byte)
  BY EmptySeq
<1>4. backup' \in [Files -> Contents]
  <2>1. CASE pc = "copy"
    <3>1. target[File] = data
      BY <2>1 DEF Inv, Applying
    <3>2. SubSeq(target[File], 1, n) \in Seq(Byte)
      BY <1>1, <3>1, Beginning
    <3> QED
      BY <1>2, <2>1, <3>2 DEF Inv, TypeOK, Contents
  <2>2. CASE pc # "copy"
    BY <1>2, <2>2 DEF Inv, TypeOK
  <2> QED
    BY <2>1, <2>2
<1>5. target' \in [Files -> Contents] /\ Disk'
  <2>1. CASE pc = "save"
    <3> DEFINE w == SubSeq(data, 1, n)
    <3>1. /\ w \in Seq(Byte) /\ Len(w) <= Len(Original[File])
          /\ FullLength(w) =>
               /\ Whole(File, w)
               /\ \A p \in applied : Patch[p].file = File => Holds(p, File, w)
      BY <2>1, BufferBeginning DEF Inv
    <3>2. target' = [target EXCEPT ![File] = w]
      BY <1>2, <2>1
    <3> HIDE DEF w
    <3>3. Original[File] # Missing
      BY <2>1 DEF Inv, Saving
    <3>4. target' \in [Files -> Contents]
      BY <3>1, <3>2 DEF Inv, TypeOK, Contents
    <3>5. Disk'
      BY <3>1, <3>2, <3>3, DiskWrite DEF Inv
    <3> QED
      BY <3>4, <3>5
  <2>2. CASE pc # "save"
    BY <1>2, <2>2, DiskFrame DEF Inv, TypeOK
  <2> QED
    BY <2>1, <2>2
<1>6. TypeOK'
  BY <1>3, <1>4, <1>5 DEF Inv, TypeOK
<1> QED
  BY <1>5, <1>6 DEF Inv, Applying, Saving, Marking

\* Steps that change neither a target nor the log.
LEMMA QuietStep ==
  ASSUME Inv,
         \/ Start \/ (\E p \in Patches : SkipPatch(p) \/ TakePatch(p))
         \/ LoadTarget \/ KeepBackup \/ OpenBackup \/ WriteBackup \/ RefuseRecords
         \/ StartGame \/ QuitGame
  PROVE  Inv'
<1> USE PtchAssumption DEF Inv, disk
<1>1. <<>> \in Seq(Byte)
  BY EmptySeq
<1>2. patch \in Patches /\ File \in Files /\ target[File] \in Contents
  BY DEF TypeOK, File
<1>3. CASE Start
  BY <1>3, DiskFrame DEF Start, TypeOK, Applying, Saving, Marking
<1>4. ASSUME NEW p \in Patches, SkipPatch(p) PROVE Inv'
  BY <1>4, DiskFrame DEF SkipPatch, TypeOK, Applying, Saving, Marking
<1>5. ASSUME NEW p \in Patches, TakePatch(p) PROVE Inv'
  BY <1>5, DiskFrame DEF TakePatch, TypeOK, Applying, Saving, Marking
<1>6. CASE LoadTarget
  <2>1. Disk'
    BY <1>6, DiskFrame DEF LoadTarget
  <2>2. CASE Suits(patch, target[File])
    <3>1. target[File] \in Seq(Byte)
      BY <1>2, <2>2 DEF Suits, Contents
    <3> QED
      BY <1>6, <2>1, <2>2, <3>1 DEF LoadTarget, TypeOK, Applying, Saving, Marking, File
  <2>3. CASE ~Suits(patch, target[File])
    BY <1>6, <2>1, <2>3 DEF LoadTarget, TypeOK, Applying, Saving, Marking
  <2> QED
    BY <2>2, <2>3
<1>7. CASE KeepBackup
  BY <1>7, DiskFrame DEF KeepBackup, TypeOK, Applying, Saving, Marking, File
<1>8. CASE OpenBackup
  <2>1. backup' \in [Files -> Contents]
    BY <1>1, <1>8 DEF OpenBackup, TypeOK, Contents
  <2> QED
    BY <1>8, <2>1, DiskFrame DEF OpenBackup, TypeOK, Applying, Saving, Marking, File
<1>9. CASE WriteBackup
  <2>1. PICK w \in Written(target[File]) : backup' = [backup EXCEPT ![File] = w]
    BY <1>9 DEF WriteBackup
  <2>2. target[File] \in Seq(Byte)
    BY <1>9 DEF WriteBackup, Applying, TypeOK
  <2>3. backup' \in [Files -> Contents]
    BY <2>1, <2>2, WrittenType DEF TypeOK, Contents
  <2> QED
    BY <1>9, <2>3, DiskFrame DEF WriteBackup, TypeOK, Applying, Saving, Marking, File
<1>10. CASE RefuseRecords
  BY <1>1, <1>10, DiskFrame DEF RefuseRecords, TypeOK, Applying, Saving, Marking
<1>11. CASE StartGame
  BY <1>11, DiskFrame DEF StartGame, TypeOK, Applying, Saving, Marking
<1>12. CASE QuitGame
  BY <1>12, DiskFrame DEF QuitGame, TypeOK, Applying, Saving, Marking
<1> QED
  BY <1>3, <1>4, <1>5, <1>6, <1>7, <1>8, <1>9, <1>10, <1>11, <1>12

LEMMA NextInv == Inv /\ [Next]_vars => Inv'
<1> SUFFICES ASSUME Inv, [Next]_vars PROVE Inv'
  OBVIOUS
<1>1. CASE OpenTarget
  BY <1>1, OpenTargetStep
<1>2. CASE WriteTarget
  BY <1>2, WriteTargetStep
<1>3. CASE MarkApplied
  BY <1>3, MarkAppliedStep
<1>4. CASE Crash
  BY <1>4, CrashStep
<1>5. CASE UNCHANGED vars
  BY <1>5, DiskFrame DEF vars, disk, Inv, TypeOK, Applying, Saving, Marking, FullLength, File
<1> QED
  BY <1>1, <1>2, <1>3, <1>4, <1>5, QuietStep DEF Next, Run

\* Inv is inductive.
THEOREM Inductive == Spec => []Inv
BY InitInv, NextInv, PTL DEF Spec

\* Every reachable state of the patcher has its type, whatever is torn or
\* fails (ptch.c and the file functions of utils.c).
THEOREM TypeCorrect == Spec => []TypeOK
<1>1. Inv => TypeOK
  BY DEF Inv
<1> QED
  BY <1>1, Inductive, PTL

\* The log .applied is true of the files, for any patches, after any number
\* of crashes and failed writes (ptch_apply_from_dir marks after ptch_apply).
THEOREM LogIsTrue == Spec => []MarkedIsInFile
<1>1. Inv => MarkedIsInFile
  BY DEF Inv, Disk
<1> QED
  BY <1>1, Inductive, PTL

\* A patch that is refused leaves no byte in a complete file (ptch_apply
\* checks each record before it saves).
THEOREM NoPartialPatch == Spec => []OnlyWholePatches
<1>1. Inv => OnlyWholePatches
  BY DEF Inv, Disk
<1> QED
  BY <1>1, Inductive, PTL

-----------------------------------------------------------------------------
(* The backup *)

\* A target is changed only once it has a backup; what is copied into one is
\* the file as installed.
Backed ==
  /\ \A f \in Files : backup[f] = Missing => target[f] = Original[f]
  /\ pc = "copy" => target[File] = Original[File]
  /\ pc \in {"records", "save", "mark"} => backup[File] # Missing

BackupInv == Backed /\ BackupIsOriginal

\* Contents and beginnings of the file as installed.
LEMMA OriginalBeginning ==
  ASSUME NEW f \in Files, Original[f] # Missing
  PROVE  /\ Original[f] \in Seq(Byte) /\ Len(Original[f]) \in Nat
         /\ SubSeq(Original[f], 1, 0) = <<>>
         /\ SubSeq(Original[f], 1, Len(Original[f])) = Original[f]
<1>1. Original[f] \in Seq(Byte)
  BY PtchAssumption DEF Contents
<1>2. Len(Original[f]) \in Nat
  BY <1>1, LenProperties
<1>3. SubSeq(Original[f], 1, 0) = <<>>
  BY SubSeqEmpty
<1>4. SubSeq(Original[f], 1, Len(Original[f])) = Original[f]
  BY <1>1, <1>2, Beginning
<1> QED
  BY <1>1, <1>2, <1>3, <1>4

LEMMA BackupStep ==
  ASSUME ~IOErrors, Inv, Next, BackupInv
  PROVE  BackupInv'
<1> USE PtchAssumption DEF disk
<1>1. patch \in Patches /\ File \in Files /\ data \in Seq(Byte)
      /\ target \in [Files -> Contents] /\ backup \in [Files -> Contents]
  BY DEF Inv, TypeOK, File
<1>2. CASE Start
  BY <1>2 DEF Start, BackupInv, Backed, BackupIsOriginal
<1>3. ASSUME NEW p \in Patches, SkipPatch(p) \/ TakePatch(p) PROVE BackupInv'
  BY <1>3 DEF SkipPatch, TakePatch, BackupInv, Backed, BackupIsOriginal
<1>4. CASE LoadTarget
  BY <1>4 DEF LoadTarget, BackupInv, Backed, BackupIsOriginal
<1>5. CASE KeepBackup
  BY <1>5 DEF KeepBackup, NeedsBackup, BackupInv, Backed, BackupIsOriginal, File
<1>6. CASE OpenBackup
  <2>1. target[File] = data /\ data # Missing
    BY <1>1, <1>6 DEF OpenBackup, Inv, Applying
  <2>2. target[File] = Original[File]
    BY <1>1, <1>6 DEF OpenBackup, NeedsBackup, BackupInv, Backed
  <2>3. Original[File] # Missing
    BY <2>1, <2>2
  <2>4. <<>> # Missing /\ 0 \in 0 .. Len(Original[File]) /\ <<>> = SubSeq(Original[File], 1, 0)
    <3>1. <<>> \in Seq(Byte)
      BY EmptySeq
    <3>2. <<>> # Missing
      BY <3>1
    <3>3. Len(Original[File]) \in Nat /\ <<>> = SubSeq(Original[File], 1, 0)
      BY <1>1, <2>3, OriginalBeginning
    <3>4. 0 \in 0 .. Len(Original[File])
      BY <3>3
    <3> QED
      BY <3>2, <3>3, <3>4
  <2>5. backup' = [backup EXCEPT ![File] = <<>>]
    BY <1>6 DEF OpenBackup
  <2>6. Backed'
    BY <1>1, <1>6, <2>2, <2>4, <2>5 DEF OpenBackup, BackupInv, Backed, File
  <2>7. BackupIsOriginal'
    BY <1>1, <2>4, <2>5 DEF BackupInv, BackupIsOriginal
  <2> QED
    BY <2>6, <2>7 DEF BackupInv
<1>7. CASE WriteBackup
  <2>1. target[File] = Original[File] /\ target[File] = data /\ Original[File] # Missing
    BY <1>1, <1>7 DEF WriteBackup, BackupInv, Backed, Inv, Applying
  <2>2. PICK w \in Written(data) : backup' = [backup EXCEPT ![File] = w]
    BY <1>7, <2>1 DEF WriteBackup
  <2>3. w = Original[File]
    BY <1>1, <2>1, <2>2, WrittenType
  <2>4. Len(Original[File]) \in 0 .. Len(Original[File])
        /\ SubSeq(Original[File], 1, Len(Original[File])) = Original[File]
    BY <1>1, <2>1, OriginalBeginning
  <2>5. Backed'
    BY <1>1, <1>7, <2>1, <2>2, <2>3 DEF WriteBackup, BackupInv, Backed, File
  <2>6. BackupIsOriginal'
    BY <1>1, <2>2, <2>3, <2>4 DEF BackupInv, BackupIsOriginal
  <2> QED
    BY <2>5, <2>6 DEF BackupInv
<1>8. CASE RefuseRecords
  BY <1>8 DEF RefuseRecords, BackupInv, Backed, BackupIsOriginal
<1>9. CASE OpenTarget
  BY <1>1, <1>9 DEF OpenTarget, BackupInv, Backed, BackupIsOriginal, File
<1>10. CASE WriteTarget
  <2>1. PICK w : target' = [target EXCEPT ![File] = w]
    BY <1>10 DEF WriteTarget
  <2> QED
    BY <1>1, <1>10, <2>1 DEF WriteTarget, BackupInv, Backed, BackupIsOriginal, File
<1>11. CASE MarkApplied
  BY <1>11 DEF MarkApplied, BackupInv, Backed, BackupIsOriginal
<1>12. CASE StartGame \/ QuitGame
  BY <1>12 DEF StartGame, QuitGame, BackupInv, Backed, BackupIsOriginal
<1>13. CASE Crash
  <2>1. CASE pc = "copy"
    <3>1. target' = target /\ pc' = "off"
      BY <1>13, <2>1 DEF Crash
    <3>2. target[File] = Original[File] /\ target[File] = data /\ Original[File] # Missing
      BY <1>1, <2>1 DEF BackupInv, Backed, Inv, Applying
    <3>3. PICK n \in 0 .. Len(data) : backup' = [backup EXCEPT ![File] = SubSeq(data, 1, n)]
      BY <1>13, <2>1, <3>2 DEF Crash
    <3>4. SubSeq(data, 1, n) # Missing
      BY <1>1, Beginning
    <3>5. Backed'
      BY <1>1, <3>1, <3>3, <3>4 DEF BackupInv, Backed
    <3>6. BackupIsOriginal'
      BY <1>1, <3>2, <3>3 DEF BackupInv, BackupIsOriginal
    <3> QED
      BY <3>5, <3>6 DEF BackupInv
  <2>2. CASE pc # "copy"
    <3>1. backup' = backup /\ pc' = "off"
      BY <1>13, <2>2 DEF Crash
    <3>2. CASE pc = "save"
      <4>1. PICK w : target' = [target EXCEPT ![File] = w]
        BY <1>13, <3>2 DEF Crash
      <4> QED
        BY <1>1, <3>1, <3>2, <4>1 DEF BackupInv, Backed, BackupIsOriginal
    <3>3. CASE pc # "save"
      <4>1. target' = target
        BY <1>13, <3>3 DEF Crash
      <4> QED
        BY <3>1, <4>1 DEF BackupInv, Backed, BackupIsOriginal
    <3> QED
      BY <3>2, <3>3
  <2> QED
    BY <2>1, <2>2
<1> QED
  BY <1>2, <1>3, <1>4, <1>5, <1>6, <1>7, <1>8, <1>9, <1>10, <1>11, <1>12, <1>13
     DEF Next, Run

\* Unless the file system fails, a backup holds the installed file or a
\* beginning of it, for any patches and after any number of crashes
\* (ptch_backup_file never copies a file that has been patched).
THEOREM BackupSafe == ASSUME ~IOErrors PROVE Spec => []BackupIsOriginal
<1>1. Init => BackupInv
  BY DEF Init, BackupInv, Backed, BackupIsOriginal
<1>2. Inv /\ BackupInv /\ [Next]_vars => BackupInv'
  <2> SUFFICES ASSUME Inv, BackupInv, [Next]_vars PROVE BackupInv'
    OBVIOUS
  <2>1. CASE UNCHANGED vars
    BY <2>1 DEF vars, disk, BackupInv, Backed, BackupIsOriginal, File
  <2> QED
    BY <2>1, BackupStep
<1>3. BackupInv => BackupIsOriginal
  BY DEF BackupInv
<1> QED
  BY <1>1, <1>2, <1>3, Inductive, PTL DEF Spec

\* ... and if no write is cut off it holds the whole of it once it is there.
WholeBackup ==
  /\ \A f \in Files : backup[f] \in {Missing, Original[f]} \/ (pc = "copy" /\ f = File)
  /\ pc \in {"records", "save", "mark"} => backup[File] = Original[File]

LEMMA WholeBackupStep ==
  ASSUME ~IOErrors, ~TornWrites, Inv, Next, BackupInv, WholeBackup
  PROVE  WholeBackup'
<1> USE PtchAssumption DEF disk
<1>1. patch \in Patches /\ File \in Files /\ data \in Seq(Byte)
      /\ target \in [Files -> Contents] /\ backup \in [Files -> Contents]
  BY DEF Inv, TypeOK, File
<1>2. CASE Start
  BY <1>2 DEF Start, WholeBackup
<1>3. ASSUME NEW p \in Patches, SkipPatch(p) \/ TakePatch(p) PROVE WholeBackup'
  BY <1>3 DEF SkipPatch, TakePatch, WholeBackup
<1>4. CASE LoadTarget
  BY <1>4 DEF LoadTarget, WholeBackup, File
<1>5. CASE KeepBackup
  BY <1>1, <1>5 DEF KeepBackup, NeedsBackup, WholeBackup, File
<1>6. CASE OpenBackup
  BY <1>1, <1>6 DEF OpenBackup, WholeBackup, File
<1>7. CASE WriteBackup
  <2>1. target[File] = Original[File] /\ target[File] = data
    BY <1>7 DEF WriteBackup, BackupInv, Backed, Inv, Applying
  <2>2. PICK w \in Written(data) : backup' = [backup EXCEPT ![File] = w]
    BY <1>7, <2>1 DEF WriteBackup
  <2>3. w = Original[File]
    BY <1>1, <2>1, <2>2, WrittenType
  <2> QED
    BY <1>1, <1>7, <2>2, <2>3 DEF WriteBackup, WholeBackup, File
<1>8. CASE RefuseRecords
  BY <1>8 DEF RefuseRecords, WholeBackup
<1>9. CASE OpenTarget
  BY <1>9 DEF OpenTarget, WholeBackup, File
<1>10. CASE WriteTarget
  BY <1>10 DEF WriteTarget, WholeBackup, File
<1>11. CASE MarkApplied
  BY <1>11 DEF MarkApplied, WholeBackup
<1>12. CASE StartGame \/ QuitGame
  BY <1>12 DEF StartGame, QuitGame, WholeBackup
<1>13. CASE Crash
  BY <1>13 DEF Crash, WholeBackup
<1> QED
  BY <1>2, <1>3, <1>4, <1>5, <1>6, <1>7, <1>8, <1>9, <1>10, <1>11, <1>12, <1>13
     DEF Next, Run

\* Unless a write fails or is cut off, no target differs from the installed
\* file without its backup being that file (README.md: "automatic backups of
\* files before applying patches"), and no backup is ever anything else.
THEOREM BackupComesFirst == ASSUME ~IOErrors, ~TornWrites PROVE Spec => []BackupsKept
<1>1. Init => BackupInv /\ WholeBackup
  BY DEF Init, BackupInv, Backed, BackupIsOriginal, WholeBackup
<1>2. Inv /\ BackupInv /\ WholeBackup /\ [Next]_vars => BackupInv' /\ WholeBackup'
  <2> SUFFICES ASSUME Inv, BackupInv, WholeBackup, [Next]_vars
               PROVE  BackupInv' /\ WholeBackup'
    OBVIOUS
  <2>1. CASE UNCHANGED vars
    BY <2>1 DEF vars, disk, BackupInv, Backed, BackupIsOriginal, WholeBackup, File
  <2> QED
    BY <2>1, BackupStep, WholeBackupStep
<1>3. BackupInv /\ WholeBackup => BackupsKept
  BY DEF BackupInv, Backed, WholeBackup, BackedUpFirst, BackupsKept
<1> QED
  BY <1>1, <1>2, <1>3, Inductive, PTL DEF Spec
-----------------------------------------------------------------------------
(* Strings of the fake JNI: the characters of a text *)

LEMMA BytesAre == Bytes \subseteq Nat
BY DEF Bytes

\* The code points that have an encoding.
Scalars == {c \in Nat : c <= UNICODE_MAX /\ ~IsSurrogate(c)}

\* The bytes of a character.
LEMMA CharacterBytes ==
  ASSUME NEW s \in Seq(Bytes), NEW i \in Nat \ {0}, NEW n \in 1 .. 4, CharacterAt(s, i, n)
  PROVE  /\ i + n - 1 <= Len(s) /\ Len(s) \in Nat
         /\ \A j \in i .. i + n - 1 : s[j] \in Nat
         /\ \A j \in i + 1 .. i + n - 1 : 128 <= s[j] /\ s[j] <= 191
         /\ \/ n = 1 /\ 0 <= s[i] /\ s[i] <= 127
            \/ n = 2 /\ 194 <= s[i] /\ s[i] <= 223
            \/ /\ n = 3 /\ 224 <= s[i] /\ s[i] <= 239
               /\ (s[i] = 224 => s[i + 1] >= 160) /\ (s[i] = 237 => s[i + 1] < 160)
            \/ /\ n = 4 /\ 240 <= s[i] /\ s[i] <= 244
               /\ (s[i] = 240 => s[i + 1] >= 144) /\ (s[i] = 244 => s[i + 1] < 144)
<1>1. i + n - 1 <= Len(s) /\ Len(s) \in Nat
  BY DEF CharacterAt
<1>2. ASSUME NEW j \in i .. i + n - 1 PROVE s[j] \in Nat
  <2>1. j \in 1 .. Len(s)
    BY <1>1
  <2>2. s[j] \in Bytes
    BY <2>1, ElementOfSeq
  <2> QED
    BY <2>2, BytesAre
<1>3. ASSUME NEW j \in i + 1 .. i + n - 1 PROVE 128 <= s[j] /\ s[j] <= 191
  <2>1. \A k \in 2 .. n : 128 <= s[i + k - 1] /\ s[i + k - 1] <= 191
    BY DEF CharacterAt
  <2>2. j - i + 1 \in 2 .. n /\ i + (j - i + 1) - 1 = j
    OBVIOUS
  <2> QED
    BY <2>1, <2>2
<1>4. i + 1 - 1 = i /\ i + 2 - 1 = i + 1
  OBVIOUS
<1> QED
  BY <1>1, <1>2, <1>3, <1>4 DEF CharacterAt

LEMMA Announced ==
  ASSUME NEW s \in Seq(Bytes), NEW i \in Nat \ {0}, NEW n \in 1 .. 4, CharacterAt(s, i, n)
  PROVE  AnnouncedLen(s[i]) = n
<1> DEFINE b == s[i]
<1>1. b \in Nat
  <2>1. i \in i .. i + n - 1
    OBVIOUS
  <2> QED
    BY <2>1, CharacterBytes
<1>2. \/ n = 1 /\ b <= 127
      \/ n = 2 /\ 194 <= b /\ b <= 223
      \/ n = 3 /\ 224 <= b /\ b <= 239
      \/ n = 4 /\ 240 <= b /\ b <= 244
  BY CharacterBytes
<1> HIDE DEF b
<1>3. CASE n = 1 /\ b <= 127
  <2>1. b \div 32 # 6 /\ b < 128 /\ b \div 16 # 14 /\ b \div 8 # 30
    BY <1>1, <1>3
  <2> QED
    BY <1>3, <2>1 DEF AnnouncedLen, b
<1>4. CASE n = 2 /\ 194 <= b /\ b <= 223
  <2>1. b \div 32 = 6 /\ ~(b < 128) /\ b \div 16 # 14 /\ b \div 8 # 30
    BY <1>1, <1>4
  <2> QED
    BY <1>4, <2>1 DEF AnnouncedLen, b
<1>5. CASE n = 3 /\ 224 <= b /\ b <= 239
  <2>1. b \div 32 # 6 /\ ~(b < 128) /\ b \div 16 = 14 /\ b \div 8 # 30
    BY <1>1, <1>5
  <2> QED
    BY <1>5, <2>1 DEF AnnouncedLen, b
<1>6. CASE n = 4 /\ 240 <= b /\ b <= 244
  <2>1. b \div 32 # 6 /\ ~(b < 128) /\ b \div 16 # 14 /\ b \div 8 = 30
    BY <1>1, <1>6
  <2> QED
    BY <1>6, <2>1 DEF AnnouncedLen, b
<1> QED
  BY <1>2, <1>3, <1>4, <1>5, <1>6

LEMMA Followed ==
  ASSUME NEW s \in Seq(Bytes), NEW i \in Nat \ {0}, NEW n \in 1 .. 4, CharacterAt(s, i, n)
  PROVE  FollowingBytes(s, i, n - 1) = n - 1
<1> DEFINE Followers(k) == i + k <= Len(s) /\ \A j \in 1 .. k : IsContinuation(s[i + j])
           runs == {k \in 0 .. n - 1 : Followers(k)}
<1>1. n - 1 \in runs
  <2>1. \A b \in Nat : 128 <= b /\ b <= 191 => IsContinuation(b)
    BY DEF IsContinuation
  <2>2. ASSUME NEW j \in 1 .. n - 1 PROVE IsContinuation(s[i + j])
    <3>1. i + j \in i .. i + n - 1 /\ i + j \in i + 1 .. i + n - 1
      OBVIOUS
    <3>2. s[i + j] \in Nat /\ 128 <= s[i + j] /\ s[i + j] <= 191
      BY <3>1, CharacterBytes
    <3> QED
      BY <2>1, <3>2
  <2>3. i + (n - 1) <= Len(s)
    BY CharacterBytes
  <2>4. Followers(n - 1)
    BY <2>2, <2>3
  <2> HIDE DEF Followers
  <2> QED
    BY <2>4
<1>2. \A k \in runs : k \in Int /\ n - 1 >= k
  OBVIOUS
<1> HIDE DEF runs
<1>3. Max(runs) = n - 1
  <2>1. \A x, y \in runs : x >= y /\ y >= x => x = y
    BY <1>2
  <2> QED
    BY <1>1, <1>2, <2>1 DEF Max
<1> QED
  BY <1>3 DEF FollowingBytes, runs

LEMMA NumberOne ==
  ASSUME NEW b \in Nat, 0 <= b, b <= 127
  PROVE  /\ IsProper(b, 1) /\ b \in Scalars /\ EncodedByte(b, 1, 0) = b
         /\ Len(encode_utf16(b)) = 1
<1>1. calculate_utf8_len(b) = 1 /\ ~IsSurrogate(b) /\ b \in Scalars
  BY DEF calculate_utf8_len, IsSurrogate, Scalars, UNICODE_MAX
<1>2. EncodedByte(b, 1, 0) = b
  BY DEF EncodedByte, utf8_leading_bytes
<1>3. encode_utf16(b) = <<b>>
  BY DEF encode_utf16, BMP_END
<1> QED
  BY <1>1, <1>2, <1>3 DEF IsProper, UNICODE_MAX

\* The numbers that characters of two, three and four bytes stand for.
Two(b, b1) == (b - 192) * 64 + (b1 % 64)
Three(b, b1, b2) == ((b - 224) * 64 + (b1 % 64)) * 64 + (b2 % 64)
Four(b, b1, b2, b3) == (((b - 240) * 64 + (b1 % 64)) * 64 + (b2 % 64)) * 64 + (b3 % 64)

\* The bytes that such characters have.
ThreeBytes(b, b1, b2) ==
  /\ b \in Nat /\ 224 <= b /\ b <= 239
  /\ b1 \in Nat /\ 128 <= b1 /\ b1 <= 191 /\ b2 \in Nat /\ 128 <= b2 /\ b2 <= 191
  /\ (b = 224 => b1 >= 160) /\ (b = 237 => b1 < 160)

FourBytes(b, b1, b2, b3) ==
  /\ b \in Nat /\ 240 <= b /\ b <= 244
  /\ b1 \in Nat /\ 128 <= b1 /\ b1 <= 191 /\ b2 \in Nat /\ 128 <= b2 /\ b2 <= 191
  /\ b3 \in Nat /\ 128 <= b3 /\ b3 <= 191
  /\ (b = 240 => b1 >= 144) /\ (b = 244 => b1 < 144)

LEMMA NumberTwo ==
  ASSUME NEW b \in Nat, 194 <= b, b <= 223, NEW b1 \in Nat, 128 <= b1, b1 <= 191
  PROVE  /\ IsProper(Two(b, b1), 2) /\ Two(b, b1) \in Scalars
         /\ EncodedByte(Two(b, b1), 2, 0) = b /\ EncodedByte(Two(b, b1), 2, 1) = b1
         /\ Len(encode_utf16(Two(b, b1))) <= 2
<1> DEFINE c == Two(b, b1)
<1>0. c = (b - 192) * 64 + (b1 % 64)
  BY DEF Two
<1> HIDE DEF c
<1>1. b1 % 64 = b1 - 128
  OBVIOUS
<1>2. c = (b - 192) * 64 + (b1 - 128) /\ c \in Nat /\ 128 <= c /\ c <= 2047
  BY <1>0, <1>1
<1>3. c \div 64 = b - 192 /\ c % 64 = b1 - 128
  BY <1>2
<1>4. calculate_utf8_len(c) = 2
  BY <1>2 DEF calculate_utf8_len
<1>5. ~IsSurrogate(c)
  BY <1>2 DEF IsSurrogate
<1>6. EncodedByte(c, 2, 0) = b /\ EncodedByte(c, 2, 1) = b1
  BY <1>2, <1>3 DEF EncodedByte, utf8_leading_bytes
<1>8. encode_utf16(c) = <<c>>
  BY <1>2 DEF encode_utf16, BMP_END
<1>9. c \in Scalars /\ IsProper(c, 2)
  BY <1>2, <1>4, <1>5 DEF Scalars, IsProper, UNICODE_MAX
<1>10. Len(encode_utf16(c)) <= 2
  BY ONLY <1>8
<1> QED
  BY ONLY <1>6, <1>9, <1>10 DEF c

LEMMA NumberThree ==
  ASSUME NEW b, NEW b1, NEW b2, ThreeBytes(b, b1, b2)
  PROVE  /\ IsProper(Three(b, b1, b2), 3) /\ Three(b, b1, b2) \in Scalars
         /\ EncodedByte(Three(b, b1, b2), 3, 0) = b /\ EncodedByte(Three(b, b1, b2), 3, 1) = b1
              /\ EncodedByte(Three(b, b1, b2), 3, 2) = b2
         /\ Len(encode_utf16(Three(b, b1, b2))) <= 3
<1> DEFINE c == Three(b, b1, b2)
<1>0. c = ((b - 224) * 64 + (b1 % 64)) * 64 + (b2 % 64)
  BY DEF Three
<1> HIDE DEF c
<1> DEFINE x == b - 224
           y == b1 - 128
           z == b2 - 128
<1> USE DEF ThreeBytes
<1>1. b1 % 64 = y /\ b2 % 64 = z
  OBVIOUS
<1>2. x \in Nat /\ 0 <= x /\ x <= 15 /\ y \in Nat /\ 0 <= y /\ y <= 63 /\ z \in Nat /\ 0 <= z
        /\ z <= 63 /\ (x = 0 => y >= 32) /\ (x = 13 => y < 32)
      /\ b = 224 + x /\ b1 = 128 + y /\ b2 = 128 + z
  OBVIOUS
<1>3. c = x * 4096 + y * 64 + z
  BY <1>0, <1>1, <1>2
<1> HIDE DEF x, y, z
<1>4. c \in Nat /\ 2048 <= c /\ c <= 65535
  BY <1>2, <1>3
<1>5. c \div 64 = x * 64 + y /\ c % 64 = z
  BY <1>2, <1>3, SMT
<1>6. c \div 4096 = x
  BY <1>2, <1>3, SMT
<1>7. (x * 64 + y) % 64 = y
  BY <1>2, SMT
<1>8. calculate_utf8_len(c) = 3
  BY <1>4 DEF calculate_utf8_len
<1>9. ~IsSurrogate(c)
  <2>1. c < 55296 \/ c >= 57344
    BY <1>2, <1>3
  <2> QED
    BY <1>4, <2>1 DEF IsSurrogate
<1>10. EncodedByte(c, 3, 0) = b /\ EncodedByte(c, 3, 1) = b1 /\ EncodedByte(c, 3, 2) = b2
  <2>1. c \div 1 = c
    BY <1>4
  <2>2. EncodedByte(c, 3, 0) = 224 + x
    BY <1>6 DEF EncodedByte, utf8_leading_bytes
  <2>3. EncodedByte(c, 3, 1) = 128 + y
    BY <1>5, <1>7 DEF EncodedByte
  <2>4. EncodedByte(c, 3, 2) = 128 + z
    BY <1>5, <2>1 DEF EncodedByte
  <2> QED
    BY <1>2, <2>2, <2>3, <2>4
<1>12. encode_utf16(c) = <<c>>
  BY <1>4 DEF encode_utf16, BMP_END
<1>13. c \in Scalars /\ IsProper(c, 3)
  BY <1>4, <1>8, <1>9 DEF Scalars, IsProper, UNICODE_MAX
<1>14. Len(encode_utf16(c)) <= 3
  BY ONLY <1>12
<1> QED
  BY ONLY <1>10, <1>13, <1>14 DEF c

LEMMA NumberFour ==
  ASSUME NEW b, NEW b1, NEW b2, NEW b3, FourBytes(b, b1, b2, b3)
  PROVE  /\ IsProper(Four(b, b1, b2, b3), 4) /\ Four(b, b1, b2, b3) \in Scalars
         /\ EncodedByte(Four(b, b1, b2, b3), 4, 0) = b /\ EncodedByte(Four(b, b1, b2, b3), 4,
              1) = b1
         /\ EncodedByte(Four(b, b1, b2, b3), 4, 2) = b2 /\ EncodedByte(Four(b, b1, b2, b3), 4,
              3) = b3
         /\ Len(encode_utf16(Four(b, b1, b2, b3))) <= 4
<1> DEFINE c == Four(b, b1, b2, b3)
<1>0. c = (((b - 240) * 64 + (b1 % 64)) * 64 + (b2 % 64)) * 64 + (b3 % 64)
  BY DEF Four
<1> HIDE DEF c
<1> DEFINE x == b - 240
           y == b1 - 128
           z == b2 - 128
           w == b3 - 128
<1> USE DEF FourBytes
<1>1. b1 % 64 = y /\ b2 % 64 = z /\ b3 % 64 = w
  OBVIOUS
<1>2. /\ x \in Nat /\ 0 <= x /\ x <= 4 /\ y \in Nat /\ 0 <= y /\ y <= 63 /\ z \in Nat /\ 0 <= z
        /\ z <= 63 /\ w \in Nat /\ 0 <= w /\ w <= 63
      /\ (x = 0 => y >= 16) /\ (x = 4 => y < 16)
      /\ b = 240 + x /\ b1 = 128 + y /\ b2 = 128 + z /\ b3 = 128 + w
  OBVIOUS
<1>3. c = x * 262144 + y * 4096 + z * 64 + w
  BY <1>0, <1>1, <1>2
<1> HIDE DEF x, y, z, w
<1>4. c \in Nat /\ 65536 <= c /\ c <= 1114111
  BY <1>2, <1>3
<1>5. c \div 64 = x * 4096 + y * 64 + z /\ c % 64 = w
  BY <1>2, <1>3, SMT
<1>6. c \div 4096 = x * 64 + y
  BY <1>2, <1>3, SMT
<1>7. c \div 262144 = x
  BY <1>2, <1>3, SMT
<1>8. (x * 64 + y) % 64 = y /\ (x * 4096 + y * 64 + z) % 64 = z
  BY <1>2, SMT
<1>9. calculate_utf8_len(c) = 4
  BY <1>4 DEF calculate_utf8_len
<1>10. ~IsSurrogate(c)
  BY <1>4 DEF IsSurrogate
<1>11. /\ EncodedByte(c, 4, 0) = b /\ EncodedByte(c, 4, 1) = b1
       /\ EncodedByte(c, 4, 2) = b2 /\ EncodedByte(c, 4, 3) = b3
  <2>1. c \div 1 = c
    BY <1>4
  <2>2. EncodedByte(c, 4, 0) = 240 + x
    BY <1>7 DEF EncodedByte, utf8_leading_bytes
  <2>3. EncodedByte(c, 4, 1) = 128 + y
    BY <1>6, <1>8 DEF EncodedByte
  <2>4. EncodedByte(c, 4, 2) = 128 + z
    BY <1>5, <1>8 DEF EncodedByte
  <2>5. EncodedByte(c, 4, 3) = 128 + w
    BY <1>5, <2>1 DEF EncodedByte
  <2> QED
    BY <1>2, <2>2, <2>3, <2>4, <2>5
<1>13. Len(encode_utf16(c)) = 2
  BY <1>4 DEF encode_utf16, BMP_END
<1>14. c \in Scalars /\ IsProper(c, 4)
  BY <1>4, <1>9, <1>10 DEF Scalars, IsProper, UNICODE_MAX
<1>15. Len(encode_utf16(c)) <= 4
  BY ONLY <1>13
<1> QED
  BY ONLY <1>11, <1>14, <1>15 DEF c

\* A character is read whole, and written as it was.
LEMMA CharacterIsRead ==
  ASSUME NEW s \in Seq(Bytes), NEW i \in Nat \ {0}, NEW n \in 1 .. 4, CharacterAt(s, i, n)
  PROVE  \E c \in Scalars :
           /\ decode_utf8(s, i) = Code(c, i + n - 1)
           /\ encode_utf8(c) = [k \in 1 .. n |-> s[i + k - 1]]
           /\ Len(encode_utf16(c)) <= n
<1>1. s[i] \in Nat
  <2>1. i \in i .. i + n - 1
    OBVIOUS
  <2> QED
    BY <2>1, CharacterBytes
<1>2. AnnouncedLen(s[i]) = n /\ FollowingBytes(s, i, n - 1) = n - 1
  BY Announced, Followed
<1>3. n \in {1, 2, 3, 4}
  OBVIOUS
<1> DEFINE With(bits, j) == IF j <= n - 1 THEN bits * 64 + (s[i + j] % 64) ELSE bits
           c == With(With(With(s[i] - utf8_leading_bytes[n], 1), 2), 3)
<1>4. decode_utf8(s, i) = IF IsProper(c, n) THEN Code(c, i + (n - 1)) ELSE Code(INVALID_CODEPOINT,
        i + (n - 1))
  BY <1>2, <1>3 DEF decode_utf8
<1>5. i + (n - 1) = i + n - 1
  OBVIOUS
<1>6. IsProper(c, n) /\ c \in Scalars /\ Len(encode_utf16(c)) <= n
      /\ \A k \in 1 .. n : EncodedByte(c, n, k - 1) = s[i + k - 1]
  <2>1. CASE n = 1
    <3>1. 0 <= s[i] /\ s[i] <= 127
      BY <2>1, CharacterBytes
    <3>2. c = s[i]
      <4>1. ~(1 <= n - 1) /\ ~(2 <= n - 1) /\ ~(3 <= n - 1) /\ utf8_leading_bytes[n] = 0
        BY <2>1 DEF utf8_leading_bytes
      <4> QED
        BY <1>1, <4>1
    <3> HIDE DEF c
    <3>3. /\ IsProper(c, 1) /\ c \in Scalars /\ Len(encode_utf16(c)) <= 1
          /\ EncodedByte(c, 1, 0) = s[i]
      <4>1. c \in Nat /\ 0 <= c /\ c <= 127
        BY <1>1, <3>1, <3>2
      <4>2. IsProper(c, 1) /\ c \in Scalars /\ EncodedByte(c, 1, 0) = c /\ Len(encode_utf16(c)) = 1
        BY ONLY <4>1, NumberOne
      <4> QED
        BY <3>2, <4>2
    <3>4. \A k \in 1 .. 1 : /\ k - 1 \in 0 .. 0 /\ i + k - 1 = IF k = 1 THEN i ELSE i + (k - 1)
                            /\ k - 1 = 0
      OBVIOUS
    <3> QED
      BY <2>1, <3>3, <3>4
  <2>2. CASE n = 2
    <3>1. /\ 194 <= s[i] /\ s[i] <= 223
          /\ s[i + 1] \in Nat /\ 128 <= s[i + 1] /\ s[i + 1] <= 191
      <4>1. \A j \in 1 .. 1 : i + j \in i .. i + n - 1 /\ i + j \in i + 1 .. i + n - 1
        BY <2>2
      <4> QED
        BY <2>2, <4>1, CharacterBytes
    <3>2. c = Two(s[i], s[i + 1])
      BY <2>2 DEF utf8_leading_bytes, Two
    <3> HIDE DEF c
    <3>3. /\ IsProper(c, 2) /\ c \in Scalars /\ Len(encode_utf16(c)) <= 2
          /\ EncodedByte(c, 2, 0) = s[i] /\ EncodedByte(c, 2, 1) = s[i + 1]
      BY <1>1, <3>1, <3>2, NumberTwo
    <3>4. \A k \in 1 .. 2 : /\ k - 1 \in 0 .. 1 /\ i + k - 1 = IF k = 1 THEN i ELSE i + (k - 1)
                            /\ k - 1 = 0 \/ k - 1 = 1
      OBVIOUS
    <3> QED
      BY <2>2, <3>3, <3>4
  <2>3. CASE n = 3
    <3>1. /\ 224 <= s[i] /\ s[i] <= 239
          /\ s[i + 1] \in Nat /\ 128 <= s[i + 1] /\ s[i + 1] <= 191
          /\ s[i + 2] \in Nat /\ 128 <= s[i + 2] /\ s[i + 2] <= 191
          /\ (s[i] = 224 => s[i + 1] >= 160) /\ (s[i] = 237 => s[i + 1] < 160)
      <4>1. \A j \in 1 .. 2 : i + j \in i .. i + n - 1 /\ i + j \in i + 1 .. i + n - 1
        BY <2>3
      <4> QED
        BY <2>3, <4>1, CharacterBytes
    <3>2. c = Three(s[i], s[i + 1], s[i + 2])
      BY <2>3 DEF utf8_leading_bytes, Three
    <3> HIDE DEF c
    <3>3. /\ IsProper(c, 3) /\ c \in Scalars /\ Len(encode_utf16(c)) <= 3
          /\ EncodedByte(c, 3, 0) = s[i] /\ EncodedByte(c, 3, 1) = s[i + 1] /\ EncodedByte(c, 3,
               2) = s[i + 2]
      <4> DEFINE b == s[i]
                 b1 == s[i + 1]
                 b2 == s[i + 2]
      <4>1. /\ b \in Nat /\ 224 <= b /\ b <= 239
            /\ b1 \in Nat /\ 128 <= b1 /\ b1 <= 191
            /\ b2 \in Nat /\ 128 <= b2 /\ b2 <= 191
            /\ (b = 224 => b1 >= 160) /\ (b = 237 => b1 < 160)
        BY <1>1, <3>1
      <4>2. c = Three(b, b1, b2)
        BY <3>2
      <4> HIDE DEF b, b1, b2
      <4>3. /\ IsProper(Three(b, b1, b2), 3) /\ Three(b, b1, b2) \in Scalars
              /\ Len(encode_utf16(Three(b, b1, b2))) <= 3
            /\ EncodedByte(Three(b, b1, b2), 3, 0) = b /\ EncodedByte(Three(b, b1, b2), 3,
                 1) = b1 /\ EncodedByte(Three(b, b1, b2), 3, 2) = b2
        BY ONLY <4>1, NumberThree DEF ThreeBytes
      <4> QED
        BY <4>2, <4>3 DEF b, b1, b2
    <3>4. \A k \in 1 .. 3 : /\ k - 1 \in 0 .. 2 /\ i + k - 1 = IF k = 1 THEN i ELSE i + (k - 1)
                            /\ k - 1 = 0 \/ k - 1 = 1 \/ k - 1 = 2
      OBVIOUS
    <3> QED
      BY <2>3, <3>3, <3>4
  <2>4. CASE n = 4
    <3>1. /\ 240 <= s[i] /\ s[i] <= 244
          /\ s[i + 1] \in Nat /\ 128 <= s[i + 1] /\ s[i + 1] <= 191
          /\ s[i + 2] \in Nat /\ 128 <= s[i + 2] /\ s[i + 2] <= 191
          /\ s[i + 3] \in Nat /\ 128 <= s[i + 3] /\ s[i + 3] <= 191
          /\ (s[i] = 240 => s[i + 1] >= 144) /\ (s[i] = 244 => s[i + 1] < 144)
      <4>1. \A j \in 1 .. 3 : i + j \in i .. i + n - 1 /\ i + j \in i + 1 .. i + n - 1
        BY <2>4
      <4> QED
        BY <2>4, <4>1, CharacterBytes
    <3>2. c = Four(s[i], s[i + 1], s[i + 2], s[i + 3])
      BY <2>4 DEF utf8_leading_bytes, Four
    <3> HIDE DEF c
    <3>3. /\ IsProper(c, 4) /\ c \in Scalars /\ Len(encode_utf16(c)) <= 4
          /\ EncodedByte(c, 4, 0) = s[i] /\ EncodedByte(c, 4, 1) = s[i + 1] /\ EncodedByte(c, 4,
               2) = s[i + 2] /\ EncodedByte(c, 4, 3) = s[i + 3]
      <4> DEFINE b == s[i]
                 b1 == s[i + 1]
                 b2 == s[i + 2]
                 b3 == s[i + 3]
      <4>1. /\ b \in Nat /\ 240 <= b /\ b <= 244
            /\ b1 \in Nat /\ 128 <= b1 /\ b1 <= 191
            /\ b2 \in Nat /\ 128 <= b2 /\ b2 <= 191
            /\ b3 \in Nat /\ 128 <= b3 /\ b3 <= 191
            /\ (b = 240 => b1 >= 144) /\ (b = 244 => b1 < 144)
        BY <1>1, <3>1
      <4>2. c = Four(b, b1, b2, b3)
        BY <3>2
      <4> HIDE DEF b, b1, b2, b3
      <4>3. /\ IsProper(Four(b, b1, b2, b3), 4) /\ Four(b, b1, b2, b3) \in Scalars
              /\ Len(encode_utf16(Four(b, b1, b2, b3))) <= 4
            /\ EncodedByte(Four(b, b1, b2, b3), 4, 0) = b /\ EncodedByte(Four(b, b1, b2, b3), 4,
                 1) = b1 /\ EncodedByte(Four(b, b1, b2, b3), 4, 2) = b2 /\ EncodedByte(Four(b, b1,
                   b2, b3), 4, 3) = b3
        BY ONLY <4>1, NumberFour DEF FourBytes
      <4> QED
        BY <4>2, <4>3 DEF b, b1, b2, b3
    <3>4. \A k \in 1 .. 4 : /\ k - 1 \in 0 .. 3 /\ i + k - 1 = IF k = 1 THEN i ELSE i + (k - 1)
                            /\ k - 1 = 0 \/ k - 1 = 1 \/ k - 1 = 2 \/ k - 1 = 3
      OBVIOUS
    <3> QED
      BY <2>4, <3>3, <3>4
  <2> QED
    BY <1>3, <2>1, <2>2, <2>3, <2>4
<1> HIDE DEF c
<1>7. encode_utf8(c) = [k \in 1 .. n |-> s[i + k - 1]]
  BY <1>6 DEF encode_utf8, IsProper
<1> QED
  BY <1>4, <1>5, <1>6, <1>7

\* And so are the units that it is written with.
LEMMA UnitsAreRead ==
  ASSUME NEW s, Len(s) \in Nat, NEW u \in Nat \ {0}, NEW c \in Scalars,
         u + Len(encode_utf16(c)) - 1 <= Len(s),
         \A k \in 1 .. Len(encode_utf16(c)) : s[u + k - 1] = encode_utf16(c)[k]
  PROVE  decode_utf16(s, u) = Code(c, u + Len(encode_utf16(c)) - 1)
<1>1. c \in Nat /\ c <= 1114111 /\ ~IsSurrogate(c)
  BY SMT DEF Scalars, UNICODE_MAX
<1>2. CASE c <= 65535
  <2>1. encode_utf16(c) = <<c>>
    BY <1>2 DEF encode_utf16, BMP_END
  <2>2. s[u] = c /\ u + 1 - 1 = u
    <3>1. s[u + 1 - 1] = c
      BY <2>1
    <3> QED
      BY <3>1
  <2> QED
    BY <1>1, <2>1, <2>2 DEF decode_utf16
<1>3. CASE c > 65535
  <2> DEFINE high == 55296 + ((c - 65536) \div 1024)
             low == 56320 + ((c - 65536) % 1024)
  <2>1. encode_utf16(c) = <<high, low>>
    BY <1>3, <1>1 DEF encode_utf16, BMP_END
  <2>2. s[u] = high /\ s[u + 1] = low /\ u < Len(s) /\ u + 2 - 1 = u + 1
    <3>1. s[u + 1 - 1] = high /\ s[u + 2 - 1] = low /\ u + 2 - 1 <= Len(s)
      BY <2>1
    <3>2. u + 1 - 1 = u /\ u + 2 - 1 = u + 1
      OBVIOUS
    <3> QED
      BY <3>1, <3>2
  <2> DEFINE d == c - 65536
             x == d \div 1024
             y == d % 1024
  <2>3. x \in Nat /\ x <= 1023 /\ y \in Nat /\ y <= 1023 /\ d = x * 1024 + y
    <3>1. d \in Nat /\ d <= 1048575
      BY <1>1, <1>3, SMT
    <3> HIDE DEF d
    <3> QED
      BY <3>1, SMT
  <2>4. IsSurrogate(high) /\ IsHighSurrogate(high) /\ IsLowSurrogate(low)
        /\ high % 1024 = x /\ low % 1024 = y
    <3>1. high = 55296 + x /\ low = 56320 + y
      OBVIOUS
    <3> HIDE DEF x, y, high, low
    <3> QED
      BY <2>3, <3>1, SMT DEF IsSurrogate, IsHighSurrogate, IsLowSurrogate
  <2>6. 65536 + x * 1024 + y = c
    <3>1. c = d + 65536
      BY <1>1, SMT
    <3> HIDE DEF d, x, y
    <3> QED
      BY <2>3, <3>1, SMT
  <2>7. Len(encode_utf16(c)) = 2
    BY <2>1
  <2> HIDE DEF high, low, x, y
  <2> QED
    BY <2>2, <2>4, <2>6, <2>7 DEF decode_utf16
<1> QED
  BY <1>1, <1>2, <1>3

-----------------------------------------------------------------------------
(* The loops *)

LEMMA LeastOf ==
  ASSUME NEW S \in SUBSET Nat, S # {}
  PROVE  \E m \in S : \A k \in S : m <= k
<1>1. PICK m \in S : \A k \in S : ~(<<k, m>> \in OpToRel(<, Nat))
  BY NatLessThanWellFounded, WFMin
<1>2. \A k \in S : ~(k < m)
  BY <1>1 DEF OpToRel
<1> QED
  BY <1>2

AtFirst == [next |-> 1, out |-> <<>>]

Turns(f, to, s, room, n) ==
  f = [k \in 0 .. n |-> IF k = 0 THEN AtFirst ELSE Turn(to, s, room, f[k - 1])]

LEMMA TurnsExist ==
  ASSUME NEW to, NEW s, NEW room, NEW n \in Nat
  PROVE  \E f : Turns(f, to, s, room, n)
<1> DEFINE Bad == {m \in Nat : ~ \E f : Turns(f, to, s, room, m)}
<1>1. SUFFICES ASSUME Bad # {} PROVE FALSE
  OBVIOUS
<1>2. PICK m \in Bad : \A k \in Bad : m <= k
  <2>1. Bad \in SUBSET Nat
    OBVIOUS
  <2> HIDE DEF Bad
  <2> QED
    BY <1>1, <2>1, LeastOf
<1> DEFINE After(f, k) == IF k = 0 THEN AtFirst ELSE Turn(to, s, room, f[k - 1])
<1>3. m # 0
  <2>1. Turns([k \in 0 .. 0 |-> AtFirst], to, s, room, 0)
    BY DEF Turns
  <2> QED
    BY <1>2, <2>1
<1>4. m - 1 \in Nat /\ m - 1 \notin Bad
  BY <1>2, <1>3
<1>5. PICK g : Turns(g, to, s, room, m - 1)
  BY <1>4
<1> DEFINE h == [k \in 0 .. m |-> IF k < m THEN g[k] ELSE After(g, k)]
<1>6. ASSUME NEW k \in 0 .. m PROVE h[k] = After(h, k)
  <2>1. h[k] = After(g, k)
    <3>1. CASE k < m
      <4>1. g = [i \in 0 .. (m - 1) |-> After(g, i)]
        BY <1>5, Zenon DEF Turns
      <4>2. k \in 0 .. (m - 1)
        BY <1>4, <3>1
      <4>3. h[k] = g[k]
        BY <3>1
      <4> HIDE DEF After, h
      <4> QED
        BY <4>1, <4>2, <4>3
    <3>2. CASE k = m
      <4> HIDE DEF After
      <4> QED
        BY <3>2
    <3> QED
      BY <3>1, <3>2
  <2>2. k # 0 => h[k - 1] = g[k - 1]
    BY <1>2
  <2> HIDE DEF h
  <2> QED
    BY <2>1, <2>2
<1>7. h = [k \in 0 .. m |-> After(h, k)]
  <2>1. h = [k \in 0 .. m |-> h[k]]
    OBVIOUS
  <2> HIDE DEF h, After
  <2> QED
    BY <1>6, <2>1
<1>8. Turns(h, to, s, room, m)
  <2> HIDE DEF h
  <2> QED
    BY <1>7, Zenon DEF Turns
<1> QED
  BY <1>2, <1>8

\* Each turn of a conversion follows from the one before it.
LEMMA ConvertingIs ==
  ASSUME NEW to, NEW s, NEW room, Len(s) \in Nat
  PROVE  /\ Converting(to, s, room)[0] = AtFirst
         /\ \A k \in 1 .. Len(s) :
              Converting(to, s, room)[k] = Turn(to, s, room, Converting(to, s, room)[k - 1])
<1> DEFINE f == CHOOSE g : Turns(g, to, s, room, Len(s))
<1>1. Turns(f, to, s, room, Len(s))
  BY TurnsExist
<1>2. Converting(to, s, room) = f
  BY Zenon DEF Converting, Turns, AtFirst
<1> HIDE DEF f
<1>3. /\ f[0] = AtFirst
      /\ \A k \in 1 .. Len(s) : f[k] = Turn(to, s, room, f[k - 1])
  <2>1. \A k \in 0 .. Len(s) : f[k] = IF k = 0 THEN AtFirst ELSE Turn(to, s, room, f[k - 1])
    BY <1>1, Zenon DEF Turns
  <2>2. 0 \in 0 .. Len(s) /\ \A k \in 1 .. Len(s) : k \in 0 .. Len(s) /\ k # 0
    OBVIOUS
  <2> QED
    BY <2>1, <2>2
<1> QED
  BY <1>2, <1>3

-----------------------------------------------------------------------------
(* A text is the same after it has been converted to UTF-16 and back *)

IsSeq(s) == \E S : s \in Seq(S)

LEMMA LengthOfSeq ==
  ASSUME NEW s, IsSeq(s)
  PROVE  Len(s) \in Nat /\ DOMAIN s = 1 .. Len(s)
BY DEF IsSeq

LEMMA Appending ==
  ASSUME NEW s, IsSeq(s), NEW t, IsSeq(t)
  PROVE  /\ IsSeq(s \o t) /\ Len(s \o t) = Len(s) + Len(t)
         /\ \A k \in 1 .. Len(s) : (s \o t)[k] = s[k]
         /\ \A k \in 1 .. Len(t) : (s \o t)[Len(s) + k] = t[k]
<1>1. PICK S : s \in Seq(S)
  BY DEF IsSeq
<1>2. PICK T : t \in Seq(T)
  BY DEF IsSeq
<1>3. s \in Seq(S \cup T) /\ t \in Seq(S \cup T)
  BY <1>1, <1>2, SeqMonotonic
<1>4. s \o t \in Seq(S \cup T) /\ Len(s \o t) = Len(s) + Len(t)
  BY <1>3
<1>5. \A k \in 1 .. Len(s) + Len(t) : (s \o t)[k] = IF k <= Len(s) THEN s[k] ELSE t[k - Len(s)]
  BY <1>3
<1>6. Len(s) \in Nat /\ Len(t) \in Nat
  BY <1>3
<1>7. ASSUME NEW k \in 1 .. Len(s) PROVE (s \o t)[k] = s[k]
  BY <1>5, <1>6
<1>8. ASSUME NEW k \in 1 .. Len(t) PROVE (s \o t)[Len(s) + k] = t[k]
  <2>1. Len(s) + k \in 1 .. Len(s) + Len(t) /\ ~(Len(s) + k <= Len(s)) /\ Len(s) + k - Len(s) = k
    BY <1>6
  <2> QED
    BY <1>5, <2>1
<1> QED
  BY <1>4, <1>7, <1>8 DEF IsSeq

LEMMA FunctionIsSeq ==
  ASSUME NEW s, NEW n \in Nat, s = [i \in 1 .. n |-> s[i]]
  PROVE  IsSeq(s) /\ Len(s) = n
<1> DEFINE S == {s[i] : i \in 1 .. n}
<1>1. \A i \in 1 .. n : s[i] \in S
  OBVIOUS
<1> HIDE DEF S
<1>2. s \in [1 .. n -> S]
  BY <1>1
<1>3. s \in Seq(S)
  BY <1>2, SeqDef
<1>4. DOMAIN s = 1 .. n /\ DOMAIN s = 1 .. Len(s) /\ Len(s) \in Nat
  BY <1>2, <1>3
<1> QED
  BY <1>3, <1>4 DEF IsSeq

LEMMA Utf8IsShort ==
  ASSUME NEW c
  PROVE  IsSeq(encode_utf8(c)) /\ Len(encode_utf8(c)) \in 1 .. 4
<1> DEFINE n == calculate_utf8_len(c)
           s == encode_utf8(c)
<1>1. n \in 1 .. 4
  BY DEF calculate_utf8_len
<1> HIDE DEF n
<1>2. s = [k \in 1 .. n |-> EncodedByte(c, n, k - 1)]
  BY DEF encode_utf8, n
<1> HIDE DEF s
<1>3. s = [k \in 1 .. n |-> s[k]]
  BY <1>2
<1>4. IsSeq(s) /\ Len(s) = n
  BY <1>1, <1>3, FunctionIsSeq
<1> QED
  BY <1>1, <1>4 DEF s

LEMMA Utf16IsShort ==
  ASSUME NEW c \in Scalars
  PROVE  IsSeq(encode_utf16(c)) /\ Len(encode_utf16(c)) \in Nat \ {0}
<1>1. CASE c <= BMP_END
  <2>1. encode_utf16(c) = <<c>>
    BY <1>1 DEF encode_utf16
  <2>2. <<c>> \in Seq({c}) /\ Len(<<c>>) = 1
    OBVIOUS
  <2> QED
    BY <2>1, <2>2 DEF IsSeq
<1>2. CASE ~(c <= BMP_END)
  <2> DEFINE x == 55296 + ((c - 65536) \div 1024)
             y == 56320 + ((c - 65536) % 1024)
  <2>1. encode_utf16(c) = <<x, y>>
    BY <1>2 DEF encode_utf16
  <2> HIDE DEF x, y
  <2>2. <<x, y>> \in Seq({x, y}) /\ Len(<<x, y>>) = 2
    OBVIOUS
  <2>3. IsSeq(<<x, y>>)
    BY <2>2 DEF IsSeq
  <2>4. 2 \in Nat \ {0}
    OBVIOUS
  <2> QED
    BY ONLY <2>1, <2>2, <2>3, <2>4
<1> QED
  BY <1>1, <1>2

\* The characters of a text start at these bytes.
Starts(text, starts) ==
  /\ starts \in SUBSET (1 .. Len(text) + 1)
  /\ 1 \in starts
  /\ \A i \in starts \ {Len(text) + 1} : \E n \in 1 .. 4 : CharacterAt(text, i, n)
       /\ i + n \in starts

\* What has been read of a text, and how much has been written, after k turns.
HasRead(text, starts, a, k) ==
  /\ a.next \in starts
  /\ a.next > k \/ a.next = Len(text) + 1
  /\ IsSeq(a.out) /\ Len(a.out) <= a.next - 1

\* A turn that reads the m bytes of the character c.
ReadsCharacter(text, a, b, m, c) ==
  /\ CharacterAt(text, a.next, m)
  /\ b.next = a.next + m
  /\ b.out = a.out \o encode_utf16(c)
  /\ encode_utf8(c) = [k \in 1 .. m |-> text[a.next + k - 1]]
  /\ Len(encode_utf16(c)) <= m

LEMMA ReadTurn ==
  ASSUME NEW text \in Seq(Bytes), NEW starts, Starts(text, starts), NEW k \in Nat,
         NEW a, HasRead(text, starts, a, k), a.next <= Len(text)
  PROVE  LET b == Turn("utf16", text, Len(text), a)
         IN  /\ HasRead(text, starts, b, k + 1)
             /\ \E m \in 1 .. 4, c \in Scalars : ReadsCharacter(text, a, b, m, c)
<1> DEFINE i == a.next
           n == Len(text)
           b == Turn("utf16", text, n, a)
<1>0. n \in Nat /\ i \in 1 .. n /\ i \in starts \ {n + 1} /\ i > k
  <2>1. n \in Nat /\ starts \in SUBSET (1 .. n + 1)
    BY DEF Starts
  <2>2. i \in starts /\ (i > k \/ i = n + 1) /\ i <= n
    BY DEF HasRead
  <2> HIDE DEF i, n
  <2> QED
    BY <2>1, <2>2
<1>1. PICK m \in 1 .. 4 : CharacterAt(text, i, m) /\ i + m \in starts
  BY <1>0 DEF Starts
<1>2. PICK c \in Scalars :
        /\ decode_utf8(text, i) = Code(c, i + m - 1)
        /\ encode_utf8(c) = [j \in 1 .. m |-> text[i + j - 1]]
        /\ Len(encode_utf16(c)) <= m
  <2>1. i \in Nat \ {0}
    BY <1>0
  <2> HIDE DEF i
  <2> QED
    BY <1>1, <2>1, CharacterIsRead
<1>3. i + m - 1 <= n
  <2>1. i + m \in 1 .. n + 1
    BY <1>1 DEF Starts
  <2> QED
    BY <1>0, <2>1
<1>4. /\ Decoded("utf16", text, i) = Code(c, i + m - 1)
      /\ \A x : Encoded("utf16", x) = encode_utf16(x)
  BY <1>2 DEF Decoded, Encoded
<1>5. /\ IsSeq(encode_utf16(c)) /\ Len(encode_utf16(c)) \in Nat /\ Len(a.out) \in Nat
      /\ Len(a.out) + Len(encode_utf16(c)) <= i + m - 1
  <2>1. Len(a.out) <= i - 1 /\ IsSeq(a.out)
    BY DEF HasRead
  <2>2. IsSeq(encode_utf16(c)) /\ Len(encode_utf16(c)) \in Nat /\ Len(a.out) \in Nat
    BY <2>1, Utf16IsShort, LengthOfSeq
  <2> QED
    BY <1>0, <1>2, <2>1, <2>2
<1>6. b = [next |-> i + m, out |-> a.out \o encode_utf16(c)]
  <2>1. ~(i > n) /\ i + m - 1 + 1 = i + m /\ Len(a.out) + Len(encode_utf16(c)) <= n
    <3> HIDE DEF i, n
    <3> QED
      BY <1>0, <1>1, <1>3, <1>5
  <2>2. Code(c, i + m - 1).code = c /\ Code(c, i + m - 1).last = i + m - 1
    BY DEF Code
  <2> QED
    BY <1>4, <2>1, <2>2 DEF Turn
<1> HIDE DEF b
<1>7. HasRead(text, starts, b, k + 1)
  <2>1. b.next = i + m /\ b.next > k + 1
    BY <1>0, <1>1, <1>6
  <2>2. IsSeq(b.out) /\ Len(b.out) = Len(a.out) + Len(encode_utf16(c))
    <3>1. IsSeq(a.out)
      BY DEF HasRead
    <3> QED
      BY <1>5, <1>6, <3>1, Appending
  <2>3. Len(b.out) <= b.next - 1
    BY <1>0, <1>5, <2>1, <2>2
  <2> QED
    BY <1>1, <2>1, <2>2, <2>3 DEF HasRead
<1>8. ReadsCharacter(text, a, b, m, c)
  BY <1>1, <1>2, <1>6 DEF ReadsCharacter
<1> QED
  BY <1>7, <1>8 DEF b

\* The turns of reading a text.
Reads(text) == Converting("utf16", text, Len(text))

LEMMA EveryTurnReads ==
  ASSUME NEW text \in Seq(Bytes), NEW starts, Starts(text, starts)
  PROVE  \A k \in 0 .. Len(text) : HasRead(text, starts, Reads(text)[k], k)
<1> DEFINE n == Len(text)
           A == Reads(text)
           Bad == {k \in 0 .. n : ~ HasRead(text, starts, A[k], k)}
<1>1. SUFFICES ASSUME Bad # {} PROVE FALSE
  OBVIOUS
<1>2. n \in Nat
  OBVIOUS
<1>3. PICK k \in Bad : \A j \in Bad : k <= j
  <2>1. Bad \in SUBSET Nat
    BY <1>2
  <2> HIDE DEF Bad
  <2> QED
    BY <1>1, <2>1, LeastOf
<1>4. A[0] = AtFirst /\ \A j \in 1 .. n : A[j] = Turn("utf16", text, n, A[j - 1])
  BY <1>2, ConvertingIs DEF Reads
<1> HIDE DEF A
<1>5. k # 0
  <2>1. AtFirst.next = 1 /\ AtFirst.out = <<>>
    BY DEF AtFirst
  <2>2. <<>> \in Seq({}) /\ Len(<<>>) = 0
    OBVIOUS
  <2>3. IsSeq(<<>>)
    BY <2>2 DEF IsSeq
  <2>4. HasRead(text, starts, AtFirst, 0)
    BY <2>1, <2>2, <2>3 DEF HasRead, Starts
  <2> QED
    BY <1>3, <1>4, <2>4
<1>6. k \in 1 .. n /\ k - 1 \in 0 .. n /\ k - 1 \in Nat /\ k - 1 + 1 = k
  BY <1>2, <1>3, <1>5
<1>7. HasRead(text, starts, A[k - 1], k - 1)
  <2>1. k - 1 \notin Bad
    BY <1>3, <1>6
  <2> QED
    BY <1>6, <2>1
<1>8. A[k] = Turn("utf16", text, n, A[k - 1])
  BY <1>4, <1>6
<1>9. CASE A[k - 1].next <= n
  <2>1. HasRead(text, starts, A[k], k - 1 + 1)
    <3> HIDE DEF Bad
    <3> QED
      BY <1>6, <1>7, <1>8, <1>9, ReadTurn
  <2> QED
    BY <1>3, <1>6, <2>1
<1>10. CASE ~(A[k - 1].next <= n)
  <2>1. A[k - 1].next \in 1 .. n + 1
    BY <1>7 DEF HasRead, Starts
  <2>2. A[k - 1].next > n /\ A[k - 1].next = n + 1
    BY <1>2, <1>10, <2>1
  <2>3. A[k] = A[k - 1]
    BY <1>8, <2>2 DEF Turn
  <2>4. HasRead(text, starts, A[k], k)
    BY <1>7, <2>2, <2>3 DEF HasRead
  <2> QED
    BY <1>3, <2>4
<1> QED
  BY <1>9, <1>10

\* The turns only add to what is written.
Extends(t, s) ==
  /\ IsSeq(t) /\ Len(s) <= Len(t)
  /\ \A j \in 1 .. Len(s) : t[j] = s[j]

LEMMA LaterTurnsExtend ==
  ASSUME NEW text \in Seq(Bytes), NEW starts, Starts(text, starts), NEW k \in 0 .. Len(text)
  PROVE  \A m \in k .. Len(text) : Extends(Reads(text)[m].out, Reads(text)[k].out)
<1> DEFINE n == Len(text)
           A == Reads(text)
           Bad == {m \in k .. n : ~ Extends(A[m].out, A[k].out)}
<1>1. SUFFICES ASSUME Bad # {} PROVE FALSE
  OBVIOUS
<1>2. n \in Nat /\ k \in Nat
  OBVIOUS
<1>3. PICK m \in Bad : \A j \in Bad : m <= j
  <2>1. Bad \in SUBSET Nat
    BY <1>2
  <2> HIDE DEF Bad
  <2> QED
    BY <1>1, <2>1, LeastOf
<1>4. A[0] = AtFirst /\ \A j \in 1 .. n : A[j] = Turn("utf16", text, n, A[j - 1])
  BY <1>2, ConvertingIs DEF Reads
<1>5. \A j \in 0 .. n : HasRead(text, starts, A[j], j)
  BY EveryTurnReads
<1> HIDE DEF A
<1>6. \A j \in 0 .. n : IsSeq(A[j].out) /\ Len(A[j].out) \in Nat
  BY <1>5, LengthOfSeq DEF HasRead
<1>7. m # k
  <2>1. Extends(A[k].out, A[k].out)
    <3>1. k \in 0 .. n
      OBVIOUS
    <3> QED
      BY <1>6, <3>1 DEF Extends
  <2> QED
    BY <1>3, <2>1
<1>8. m \in k .. n /\ m \in 1 .. n /\ m \in 0 .. n /\ m - 1 \in 0 .. n /\ m - 1 \in k .. n
        /\ m - 1 \in Nat /\ m - 1 < m
  BY <1>2, <1>3, <1>7
<1>9. Extends(A[m - 1].out, A[k].out)
  <2>1. m - 1 \notin Bad
    BY <1>3, <1>8
  <2> QED
    BY <1>8, <2>1
<1>10. A[m] = Turn("utf16", text, n, A[m - 1])
  BY <1>4, <1>8
<1>11. Extends(A[m].out, A[m - 1].out)
  <2>1. CASE A[m - 1].next <= n
    <3>1. HasRead(text, starts, A[m - 1], m - 1)
      BY <1>5, <1>8
    <3>2. PICK i \in 1 .. 4, c \in Scalars : ReadsCharacter(text, A[m - 1], A[m], i, c)
      <4> HIDE DEF Bad
      <4> QED
        BY <1>8, <1>10, <2>1, <3>1, ReadTurn
    <3>3. A[m].out = A[m - 1].out \o encode_utf16(c)
      BY <3>2 DEF ReadsCharacter
    <3>4. IsSeq(A[m - 1].out) /\ IsSeq(encode_utf16(c)) /\ Len(encode_utf16(c)) \in Nat
            /\ Len(A[m - 1].out) \in Nat
      BY <1>6, <1>8, Utf16IsShort
    <3>5. /\ IsSeq(A[m].out) /\ Len(A[m].out) = Len(A[m - 1].out) + Len(encode_utf16(c))
          /\ \A j \in 1 .. Len(A[m - 1].out) : A[m].out[j] = A[m - 1].out[j]
      BY <3>3, <3>4, Appending
    <3>6. Len(A[m - 1].out) <= Len(A[m].out)
      BY <3>4, <3>5
    <3> QED
      BY <3>5, <3>6 DEF Extends
  <2>2. CASE ~(A[m - 1].next <= n)
    <3>1. A[m - 1].next \in 1 .. n + 1
      BY <1>5, <1>8 DEF HasRead, Starts
    <3>2. A[m] = A[m - 1]
      <4>1. A[m - 1].next > n
        BY <1>2, <2>2, <3>1
      <4> QED
        BY <1>10, <4>1 DEF Turn
    <3> QED
      BY <1>6, <1>8, <3>2 DEF Extends
  <2> QED
    BY <2>1, <2>2
<1>12. Extends(A[m].out, A[k].out)
  <2> DEFINE x == A[m].out
             y == A[m - 1].out
             z == A[k].out
  <2>1. Len(x) \in Nat /\ Len(y) \in Nat /\ Len(z) \in Nat
    BY <1>6, <1>8
  <2>2. Extends(x, y) /\ Extends(y, z)
    BY <1>9, <1>11
  <2> HIDE DEF x, y, z
  <2>3. Extends(x, z)
    BY <2>1, <2>2 DEF Extends
  <2> QED
    BY <2>3 DEF x, z
<1> QED
  BY <1>3, <1>8, <1>12

\* What the other conversion has written after k turns: the characters that the
\* first one had read by then; once that one is through, perhaps one byte more.
HasWritten(text, a, b, k) ==
  /\ IsSeq(b.out)
  /\ a.next - 1 <= Len(b.out) /\ Len(b.out) <= Len(text) + 1
  /\ \A j \in 1 .. a.next - 1 : b.out[j] = text[j]
  /\ a.next <= Len(text) => b.next = Len(a.out) + 1 /\ Len(b.out) = a.next - 1
  /\ Ascii(text) => a.next = k + 1 /\ Len(b.out) = k

\* The units of the text, and perhaps others behind them.
UnitsOf(units, text, out) ==
  /\ Len(units) = Len(text)
  /\ Len(out) <= Len(units)
  /\ \A j \in 1 .. Len(out) : units[j] = out[j]

\* A turn that writes a character of the text.
LEMMA CharacterIsWritten ==
  ASSUME NEW text \in Seq(Bytes), NEW starts, Starts(text, starts), NEW k \in Nat,
         NEW a, NEW b, NEW units, HasRead(text, starts, a, k), HasWritten(text, a, b, k),
         a.next <= Len(text),
         UnitsOf(units, text, Turn("utf16", text, Len(text), a).out)
  PROVE  HasWritten(text, Turn("utf16", text, Len(text), a),
                    Turn("utf8", units, Len(text) + 1, b), k + 1)
<1> DEFINE n == Len(text)
           i == a.next
           u == b.next
           a2 == Turn("utf16", text, n, a)
           b2 == Turn("utf8", units, n + 1, b)
<1>1. HasRead(text, starts, a2, k + 1)
  BY ReadTurn
<1>2. PICK m \in 1 .. 4, c \in Scalars : ReadsCharacter(text, a, a2, m, c)
  BY ReadTurn
<1> HIDE DEF a2
<1>3. /\ n \in Nat /\ i \in 1 .. n /\ a2.next = i + m /\ i + m \in 1 .. n + 1
      /\ Len(a.out) \in Nat /\ IsSeq(a.out) /\ Len(a.out) <= i - 1
  <2>1. n \in Nat /\ starts \in SUBSET (1 .. n + 1)
    BY DEF Starts
  <2>2. i \in starts /\ i <= n /\ IsSeq(a.out) /\ Len(a.out) <= i - 1
    BY DEF HasRead
  <2>3. a2.next \in starts /\ a2.next = i + m
    BY <1>1, <1>2 DEF HasRead, ReadsCharacter
  <2>4. Len(a.out) \in Nat
    BY <2>2, LengthOfSeq
  <2> HIDE DEF i, n
  <2> QED
    BY <2>1, <2>2, <2>3, <2>4
<1> DEFINE w == encode_utf16(c)
<1>4. /\ IsSeq(w) /\ Len(w) \in Nat \ {0} /\ Len(w) <= m
      /\ a2.out = a.out \o w /\ Len(a2.out) = Len(a.out) + Len(w)
      /\ \A j \in 1 .. Len(w) : a2.out[Len(a.out) + j] = w[j]
  <2>1. IsSeq(w) /\ Len(w) \in Nat \ {0}
    BY Utf16IsShort
  <2>2. Len(w) <= m /\ a2.out = a.out \o w
    BY <1>2 DEF ReadsCharacter
  <2> HIDE DEF w
  <2> QED
    BY <1>3, <2>1, <2>2, Appending
<1>5. u = Len(a.out) + 1 /\ Len(b.out) = i - 1 /\ IsSeq(b.out)
  BY DEF HasWritten
<1>6. /\ u \in Nat \ {0} /\ u + Len(w) - 1 = Len(a2.out) /\ Len(units) = n
      /\ Len(a2.out) <= n /\ u <= n
  <2>1. Len(units) = n /\ Len(a2.out) <= Len(units)
    BY DEF UnitsOf, a2
  <2> HIDE DEF u, n, w
  <2> QED
    BY <1>3, <1>4, <1>5, <2>1
<1>7. \A j \in 1 .. Len(w) : units[u + j - 1] = w[j]
  <2>1. \A j \in 1 .. Len(a2.out) : units[j] = a2.out[j]
    BY DEF UnitsOf, a2
  <2>2. ASSUME NEW j \in 1 .. Len(w) PROVE units[u + j - 1] = w[j]
    <3>1. u + j - 1 = Len(a.out) + j /\ Len(a.out) + j \in 1 .. Len(a2.out)
      <4> HIDE DEF u, w
      <4>1. j \in 1 .. Len(w)
        OBVIOUS
      <4>2. /\ Len(a.out) \in Nat /\ Len(w) \in Nat /\ u = Len(a.out) + 1
            /\ Len(a2.out) = Len(a.out) + Len(w)
        BY <1>3, <1>4, <1>5
      <4> QED
        BY ONLY <4>1, <4>2
    <3> HIDE DEF u, w
    <3> QED
      BY <1>4, <2>1, <3>1
  <2> QED
    BY <2>2
<1>8. Decoded("utf8", units, u) = Code(c, u + Len(w) - 1)
  <2>1. decode_utf16(units, u) = Code(c, u + Len(w) - 1)
    <3> HIDE DEF u
    <3> QED
      BY <1>3, <1>6, <1>7, UnitsAreRead
  <2> QED
    BY <2>1 DEF Decoded
<1> DEFINE bytes == encode_utf8(c)
<1>9. bytes = [j \in 1 .. m |-> text[i + j - 1]]
  BY <1>2 DEF ReadsCharacter
<1>10. IsSeq(bytes) /\ Len(bytes) = m /\ \A j \in 1 .. m : bytes[j] = text[i + j - 1]
  <2>1. \A j \in 1 .. m : bytes[j] = text[i + j - 1]
    <3> HIDE DEF bytes
    <3> QED
      BY <1>9
  <2>2. bytes = [j \in 1 .. m |-> bytes[j]]
    <3> HIDE DEF bytes
    <3> QED
      BY <1>9
  <2>3. m \in Nat
    BY <1>2
  <2> HIDE DEF bytes
  <2>4. IsSeq(bytes) /\ Len(bytes) = m
    BY ONLY <2>2, <2>3, FunctionIsSeq
  <2> QED
    BY ONLY <2>1, <2>4
<1>11. b2 = [next |-> u + Len(w), out |-> b.out \o bytes]
  <2>1. ~(u > Len(units)) /\ u + Len(w) - 1 + 1 = u + Len(w) /\ Len(b.out) + Len(bytes) <= n + 1
    <3> HIDE DEF u, w, bytes, n, i
    <3>1. u <= n /\ Len(units) = n /\ n \in Nat /\ u \in Nat /\ Len(w) \in Nat
      BY ONLY <1>3, <1>4, <1>6
    <3>2. Len(b.out) = i - 1 /\ Len(bytes) = m /\ i \in Nat /\ i + m <= n + 1 /\ m \in Nat
      BY <1>2, <1>3, <1>5, <1>10
    <3> QED
      BY ONLY <3>1, <3>2
  <2>2. Code(c, u + Len(w) - 1).code = c /\ Code(c, u + Len(w) - 1).last = u + Len(w) - 1
    BY DEF Code
  <2>3. Encoded("utf8", c) = bytes
    BY DEF Encoded
  <2> HIDE DEF w, bytes, n
  <2> QED
    BY <1>8, <2>1, <2>2, <2>3 DEF Turn
<1> HIDE DEF b2, u, w, bytes, n, i
<1>12. /\ IsSeq(b2.out) /\ Len(b2.out) = a2.next - 1 /\ b2.next = Len(a2.out) + 1
       /\ \A j \in 1 .. i - 1 : b2.out[j] = b.out[j]
       /\ \A j \in 1 .. m : b2.out[i - 1 + j] = bytes[j]
  <2>1. /\ IsSeq(b2.out) /\ Len(b2.out) = Len(b.out) + Len(bytes)
        /\ \A j \in 1 .. Len(b.out) : b2.out[j] = b.out[j]
        /\ \A j \in 1 .. Len(bytes) : b2.out[Len(b.out) + j] = bytes[j]
    <3>1. b2.out = b.out \o bytes /\ IsSeq(b.out) /\ IsSeq(bytes)
      BY <1>5, <1>10, <1>11
    <3> QED
      BY ONLY <3>1, Appending
  <2>2. Len(b2.out) = a2.next - 1 /\ b2.next = Len(a2.out) + 1
    BY <1>3, <1>4, <1>5, <1>6, <1>10, <1>11, <2>1
  <2> QED
    BY <1>5, <1>10, <2>1, <2>2
<1>13. ASSUME NEW j \in 1 .. a2.next - 1 PROVE b2.out[j] = text[j]
  <2>1. CASE j < i
    <3>1. j \in 1 .. i - 1
      BY <1>3, <2>1
    <3>2. \A x \in 1 .. i - 1 : b.out[x] = text[x]
      BY DEF HasWritten, i
    <3> QED
      BY <1>12, <3>1, <3>2
  <2>2. CASE ~(j < i)
    <3>1. j - i + 1 \in 1 .. m /\ i - 1 + (j - i + 1) = j /\ i + (j - i + 1) - 1 = j
      BY <1>3, <2>2
    <3> QED
      BY <1>10, <1>12, <3>1
  <2> QED
    BY <2>1, <2>2
<1>14. Ascii(text) => a2.next = k + 1 + 1 /\ Len(b2.out) = k + 1
  <2> SUFFICES ASSUME Ascii(text) PROVE a2.next = k + 1 + 1 /\ Len(b2.out) = k + 1
    OBVIOUS
  <2>1. i = k + 1
    BY DEF HasWritten, i
  <2>2. text[i] < 128 /\ text[i] \in Nat
    <3>1. i \in 1 .. Len(text)
      BY <1>3 DEF n
    <3>2. text[i] \in Bytes
      BY <3>1, ElementOfSeq
    <3>3. i \in DOMAIN text /\ Ascii(text)
      BY <3>1
    <3> QED
      BY ONLY <3>1, <3>2, <3>3, BytesAre DEF Ascii
  <2>3. m = 1
    <3>1. CharacterAt(text, i, m) /\ i \in Nat \ {0}
      BY <1>2, <1>3 DEF ReadsCharacter, i
    <3>2. n \in Nat /\ (m = 1 \/ 194 <= text[i])
      <4>1. \/ m = 1
            \/ 194 <= text[i]
            \/ 224 <= text[i]
            \/ 240 <= text[i]
        BY <3>1, CharacterBytes
      <4> QED
        BY <1>3, <2>2, <4>1
    <3> QED
      BY <2>2, <3>2
  <2> QED
    BY <1>3, <1>12, <2>1, <2>3
<1>15. a2.next \in Nat /\ a2.next - 1 <= n /\ Len(b2.out) <= n + 1 /\ a2.next - 1 <= Len(b2.out)
  BY <1>3, <1>12
<1>16. HasWritten(text, a2, b2, k + 1)
  BY ONLY <1>12, <1>13, <1>14, <1>15 DEF HasWritten, n
<1> QED
  BY <1>16 DEF a2, b2, n

\* A turn after the last character has been written: it may write what stands
\* behind the units of the text.
LEMMA MoreIsWritten ==
  ASSUME NEW text \in Seq(Bytes), NEW k \in Nat, k < Len(text),
         NEW a, NEW b, NEW units, HasWritten(text, a, b, k), a.next = Len(text) + 1
  PROVE  HasWritten(text, a, Turn("utf8", units, Len(text) + 1, b), k + 1)
<1> DEFINE n == Len(text)
           c == Decoded("utf8", units, b.next)
           more == Encoded("utf8", c.code)
           b2 == Turn("utf8", units, n + 1, b)
<1>1. n \in Nat /\ IsSeq(b.out) /\ Len(b.out) \in Nat /\ n <= Len(b.out) /\ Len(b.out) <= n + 1
      /\ \A j \in 1 .. n : b.out[j] = text[j]
  <2>1. n \in Nat /\ n + 1 - 1 = n
    OBVIOUS
  <2>2. IsSeq(b.out) /\ Len(b.out) \in Nat
    BY LengthOfSeq DEF HasWritten
  <2> QED
    BY <2>1, <2>2 DEF HasWritten
<1>2. ~Ascii(text)
  BY <1>1 DEF HasWritten
<1>3. IsSeq(more) /\ Len(more) \in 1 .. 4
  <2>1. more = encode_utf8(c.code)
    BY DEF Encoded
  <2> QED
    BY <2>1, Utf8IsShort
<1>4. b2.out = b.out \/ (b2.out = b.out \o more /\ Len(b.out) + Len(more) <= n + 1)
  <2>1. b2 = IF b.next > Len(units) THEN b
             ELSE [next |-> c.last + 1,
                   out |-> IF Len(b.out) + Len(more) <= n + 1 THEN b.out \o more ELSE b.out]
    BY DEF Turn
  <2> HIDE DEF b2, c, more, n
  <2> QED
    BY <2>1
<1> HIDE DEF b2, c, more
<1>5. IsSeq(b2.out) /\ n <= Len(b2.out) /\ Len(b2.out) <= n + 1
        /\ \A j \in 1 .. n : b2.out[j] = text[j]
  <2>1. CASE b2.out = b.out
    BY <1>1, <2>1
  <2>2. CASE b2.out = b.out \o more /\ Len(b.out) + Len(more) <= n + 1
    <3>1. /\ IsSeq(b2.out) /\ Len(b2.out) = Len(b.out) + Len(more)
          /\ \A j \in 1 .. Len(b.out) : b2.out[j] = b.out[j]
      BY <1>1, <1>3, <2>2, Appending
    <3> HIDE DEF n
    <3>2. n <= Len(b2.out) /\ Len(b2.out) <= n + 1
      BY <1>1, <1>3, <2>2, <3>1
    <3>3. \A j \in 1 .. n : j \in 1 .. Len(b.out)
      BY <1>1
    <3> QED
      BY <1>1, <3>1, <3>2, <3>3
  <2> QED
    BY <1>4, <2>1, <2>2
<1>6. a.next - 1 = n /\ ~(a.next <= n)
  BY <1>1
<1>7. HasWritten(text, a, b2, k + 1)
  BY ONLY <1>2, <1>5, <1>6 DEF HasWritten, n
<1> QED
  BY <1>7 DEF b2, n

LEMMA EveryTurnWrites ==
  ASSUME NEW text \in Seq(Bytes), NEW starts, Starts(text, starts), NEW units,
         UnitsOf(units, text, Reads(text)[Len(text)].out)
  PROVE  \A k \in 0 .. Len(text) :
           HasWritten(text, Reads(text)[k], Converting("utf8", units, Len(text) + 1)[k], k)
<1> DEFINE n == Len(text)
           A == Reads(text)
           B == Converting("utf8", units, n + 1)
           Bad == {k \in 0 .. n : ~ HasWritten(text, A[k], B[k], k)}
<1>1. SUFFICES ASSUME Bad # {} PROVE FALSE
  OBVIOUS
<1>2. n \in Nat /\ Len(units) = n
  BY DEF UnitsOf
<1>3. PICK k \in Bad : \A j \in Bad : k <= j
  <2>1. Bad \in SUBSET Nat
    BY <1>2
  <2> HIDE DEF Bad
  <2> QED
    BY <1>1, <2>1, LeastOf
<1>4. A[0] = AtFirst /\ \A j \in 1 .. n : A[j] = Turn("utf16", text, n, A[j - 1])
  BY <1>2, ConvertingIs DEF Reads
<1>5. B[0] = AtFirst /\ \A j \in 1 .. n : B[j] = Turn("utf8", units, n + 1, B[j - 1])
  BY <1>2, ConvertingIs
<1>6. \A j \in 0 .. n : HasRead(text, starts, A[j], j)
  BY EveryTurnReads
<1>7. UnitsOf(units, text, A[n].out)
  OBVIOUS
<1>8. \A j \in 0 .. n : Extends(A[n].out, A[j].out)
  <2>1. \A j \in 0 .. n : n \in j .. n
    BY <1>2
  <2> QED
    BY <2>1, LaterTurnsExtend
<1> HIDE DEF A, B
<1>9. k # 0
  <2>1. AtFirst.next = 1 /\ AtFirst.out = <<>> /\ Len(<<>>) = 0
    BY DEF AtFirst
  <2>2. <<>> \in Seq({})
    OBVIOUS
  <2>3. IsSeq(<<>>)
    BY <2>2 DEF IsSeq
  <2>4. HasWritten(text, AtFirst, AtFirst, 0)
    BY <1>2, <2>1, <2>3 DEF HasWritten
  <2> QED
    BY <1>3, <1>4, <1>5, <2>4
<1>10. k \in 1 .. n /\ k \in 0 .. n /\ k - 1 \in 0 .. n /\ k - 1 \in Nat /\ k - 1 + 1 = k
         /\ k - 1 < n
  BY <1>2, <1>3, <1>9
<1> DEFINE a == A[k - 1]
           b == B[k - 1]
<1>11. HasWritten(text, a, b, k - 1)
  <2>1. k - 1 \notin Bad
    BY <1>3, <1>10
  <2> QED
    BY <1>10, <2>1
<1>12. A[k] = Turn("utf16", text, n, a) /\ B[k] = Turn("utf8", units, n + 1, b)
  BY <1>4, <1>5, <1>10
<1>13. HasRead(text, starts, a, k - 1) /\ a.next \in 1 .. n + 1
  BY <1>6, <1>10 DEF HasRead, Starts
<1>14. UnitsOf(units, text, A[k].out)
  <2>1. Extends(A[n].out, A[k].out)
    BY <1>8, <1>10
  <2>2. HasRead(text, starts, A[k], k) /\ HasRead(text, starts, A[n], n)
    <3>1. n \in 0 .. n
      BY <1>2
    <3> QED
      BY <1>6, <1>10, <3>1
  <2>3. Len(A[k].out) \in Nat /\ Len(A[n].out) \in Nat
    BY <2>2, LengthOfSeq DEF HasRead
  <2> DEFINE x == A[n].out
             y == A[k].out
  <2> HIDE DEF x, y, n, Bad
  <2>4. UnitsOf(units, text, x) /\ Extends(x, y) /\ Len(x) \in Nat /\ Len(y) \in Nat
          /\ Len(units) \in Nat
    BY <1>2, <1>7, <2>1, <2>3 DEF x, y
  <2>5. UnitsOf(units, text, y)
    BY ONLY <2>4 DEF UnitsOf, Extends
  <2> QED
    BY <2>5 DEF y
<1>15. HasWritten(text, A[k], B[k], k - 1 + 1)
  <2>1. CASE a.next <= n
    <3>1. UnitsOf(units, text, Turn("utf16", text, n, a).out)
      BY <1>12, <1>14
    <3> HIDE DEF a, b, Bad
    <3> QED
      BY <1>10, <1>11, <1>12, <1>13, <2>1, <3>1, CharacterIsWritten
  <2>2. CASE ~(a.next <= n)
    <3> HIDE DEF a, b, Bad
    <3>1. a.next = n + 1 /\ a.next > n
      BY <1>2, <1>13, <2>2
    <3>2. A[k] = a
      BY <1>12, <3>1 DEF Turn
    <3> QED
      BY <1>10, <1>11, <1>12, <3>1, <3>2, MoreIsWritten
  <2> QED
    BY <2>1, <2>2
<1> QED
  BY <1>3, <1>10, <1>15

\* A buffer that begins with the text, and has one more byte.
Begins(buffer, text) ==
  /\ IsSeq(buffer) /\ Len(buffer) = Len(text) + 1
  /\ \A j \in 1 .. Len(text) : buffer[j] = text[j]

LEMMA OverIs ==
  ASSUME NEW buffer, NEW w, IsSeq(buffer)
  PROVE  /\ IsSeq(Over(buffer, w)) /\ Len(Over(buffer, w)) = Len(buffer)
         /\ \A j \in 1 .. Len(buffer) :
              Over(buffer, w)[j] = IF j <= Len(w) THEN w[j] ELSE buffer[j]
<1> DEFINE s == Over(buffer, w)
<1>1. DOMAIN buffer = 1 .. Len(buffer) /\ Len(buffer) \in Nat
  BY LengthOfSeq
<1>2. s = [j \in 1 .. Len(buffer) |-> IF j <= Len(w) THEN w[j] ELSE buffer[j]]
  BY <1>1 DEF Over
<1> HIDE DEF s
<1>3. s = [j \in 1 .. Len(buffer) |-> s[j]]
  BY <1>2
<1>4. IsSeq(s) /\ Len(s) = Len(buffer)
  BY <1>1, <1>3, FunctionIsSeq
<1>5. \A j \in 1 .. Len(buffer) : s[j] = IF j <= Len(w) THEN w[j] ELSE buffer[j]
  BY <1>2
<1> QED
  BY <1>4, <1>5 DEF s

\* What jda_alloc returns.
LEMMA FreshArray ==
  ASSUME NEW n \in Nat, NEW values, NEW fresh \in jda_alloc(n, values)
  PROVE  IsSeq(fresh) /\ Len(fresh) = n
<1>1. fresh \in [1 .. n -> values]
  BY DEF jda_alloc
<1>2. fresh = [j \in 1 .. n |-> fresh[j]]
  BY <1>1
<1> QED
  BY <1>2, FunctionIsSeq

LEMMA TextIsSeq ==
  ASSUME NEW text, WellFormed(text)
  PROVE  text \in Seq(Bytes) /\ IsSeq(text) /\ Len(text) \in Nat
BY DEF WellFormed, IsSeq

\* The units of a string have the length of its text.
LEMMA UnitsAreHeld ==
  ASSUME NEW text, WellFormed(text), NEW fresh \in Utf16Room(text)
  PROVE  /\ IsSeq(utf8_to_utf16(text, fresh))
         /\ Len(utf8_to_utf16(text, fresh)) = Len(text)
<1>1. Len(text) \in Nat
  BY TextIsSeq
<1>2. IsSeq(fresh) /\ Len(fresh) = Len(text)
  BY <1>1, FreshArray DEF Utf16Room
<1> QED
  BY <1>2, OverIs DEF utf8_to_utf16

\* What the units are converted to has the length of the buffer.
LEMMA BytesAreHeld ==
  ASSUME NEW units, NEW buffer, IsSeq(buffer)
  PROVE  /\ IsSeq(utf16_to_utf8(units, buffer))
         /\ Len(utf16_to_utf8(units, buffer)) = Len(buffer)
BY OverIs DEF utf16_to_utf8

\* A text comes back from its units, and an ASCII text leaves the last byte as it was.
LEMMA TextIsBack ==
  ASSUME NEW text, WellFormed(text), NEW fresh \in Utf16Room(text),
         NEW buffer, IsSeq(buffer), Len(buffer) = Len(text) + 1
  PROVE  LET back == utf16_to_utf8(utf8_to_utf16(text, fresh), buffer)
         IN  /\ Begins(back, text)
             /\ Ascii(text) => back[Len(text) + 1] = buffer[Len(text) + 1]
<1> DEFINE n == Len(text)
           w == Reads(text)[n].out
           units == utf8_to_utf16(text, fresh)
           B == Converting("utf8", units, n + 1)
           v == B[n].out
           back == utf16_to_utf8(units, buffer)
<1>1. text \in Seq(Bytes) /\ n \in Nat
  BY TextIsSeq
<1>2. PICK starts : Starts(text, starts)
  BY DEF WellFormed, Starts
<1>3. IsSeq(fresh) /\ Len(fresh) = n
  BY <1>1, FreshArray DEF Utf16Room
<1>4. HasRead(text, starts, Reads(text)[n], n) /\ n \in 0 .. n
  BY <1>1, <1>2, EveryTurnReads
<1>5. IsSeq(w) /\ Len(w) <= n /\ Len(w) \in Nat /\ Reads(text)[n].next = n + 1
  <2>1. Reads(text)[n].next \in 1 .. n + 1
          /\ (Reads(text)[n].next > n \/ Reads(text)[n].next = n + 1)
    BY <1>2, <1>4 DEF HasRead, Starts
  <2>2. IsSeq(w) /\ Len(w) <= Reads(text)[n].next - 1
    BY <1>4 DEF HasRead
  <2>3. Len(w) \in Nat
    BY <2>2, LengthOfSeq
  <2> HIDE DEF w, n
  <2> QED
    BY <1>1, <2>1, <2>2, <2>3
<1>6. units = Over(fresh, w)
  BY <1>3 DEF utf8_to_utf16, Reads
<1>7. UnitsOf(units, text, w)
  <2> HIDE DEF units, w
  <2>1. /\ Len(units) = n
        /\ \A j \in 1 .. n : units[j] = IF j <= Len(w) THEN w[j] ELSE fresh[j]
    BY <1>3, <1>6, OverIs
  <2> HIDE DEF n
  <2>2. \A j \in 1 .. Len(w) : j \in 1 .. n /\ j <= Len(w)
    BY <1>1, <1>5
  <2> QED
    BY <1>5, <2>1, <2>2 DEF UnitsOf, n
<1>8. HasWritten(text, Reads(text)[n], B[n], n)
  <2> HIDE DEF units
  <2> QED
    BY <1>1, <1>2, <1>4, <1>7, EveryTurnWrites
<1>9. /\ IsSeq(v) /\ Len(v) \in Nat /\ n <= Len(v)
      /\ \A j \in 1 .. n : v[j] = text[j]
      /\ Ascii(text) => Len(v) = n
  <2> HIDE DEF B, n
  <2>1. IsSeq(v) /\ Len(v) \in Nat
    BY <1>8, LengthOfSeq DEF HasWritten
  <2>2. n + 1 - 1 = n
    BY <1>1
  <2> DEFINE a == Reads(text)[n]
             b == B[n]
  <2> HIDE DEF a, b
  <2>3. HasWritten(text, a, b, n) /\ a.next = n + 1
    BY <1>5, <1>8 DEF a, b
  <2>4. n <= Len(b.out) /\ (\A j \in 1 .. n : b.out[j] = text[j]) /\ (Ascii(text) => Len(b.out) = n)
    <3>1. a.next - 1 = n
      BY ONLY <1>1, <2>2, <2>3
    <3>2. a.next - 1 <= Len(b.out) /\ (\A j \in 1 .. a.next - 1 : b.out[j] = text[j])
          /\ (Ascii(text) => Len(b.out) = n)
      BY ONLY <2>3 DEF HasWritten
    <3> QED
      BY ONLY <3>1, <3>2
  <2> QED
    BY <2>1, <2>4 DEF b
<1>10. back = Over(buffer, v)
  <2>1. Len(units) = n
    BY <1>7 DEF UnitsOf
  <2> HIDE DEF units
  <2> QED
    BY <2>1 DEF utf16_to_utf8
<1> HIDE DEF back, v
<1>11. /\ IsSeq(back) /\ Len(back) = n + 1
       /\ \A j \in 1 .. n + 1 : back[j] = IF j <= Len(v) THEN v[j] ELSE buffer[j]
  BY <1>10, OverIs
<1> HIDE DEF n
<1>12. \A j \in 1 .. n : back[j] = text[j]
  <2>1. \A j \in 1 .. n : j \in 1 .. n + 1 /\ j <= Len(v)
    BY <1>1, <1>9
  <2> QED
    BY <1>9, <1>11, <2>1
<1>13. Ascii(text) => back[n + 1] = buffer[n + 1]
  <2>1. n + 1 \in 1 .. n + 1 /\ (Len(v) = n => ~(n + 1 <= Len(v)))
    BY <1>1
  <2> QED
    BY <1>9, <1>11, <2>1
<1> QED
  BY <1>11, <1>12, <1>13 DEF Begins, n, back

LEMMA WithZero ==
  ASSUME NEW text, WellFormed(text)
  PROVE  /\ IsSeq(text \o <<0>>) /\ Len(text \o <<0>>) = Len(text) + 1
         /\ (text \o <<0>>)[Len(text) + 1] = 0
         /\ \A j \in 1 .. Len(text) : (text \o <<0>>)[j] = text[j]
<1>1. IsSeq(text)
  BY TextIsSeq
<1>2. <<0>> \in Seq({0}) /\ Len(<<0>>) = 1 /\ 1 \in 1 .. 1
  OBVIOUS
<1>3. IsSeq(<<0>>) /\ Len(<<0>>) = 1 /\ 1 \in 1 .. 1 /\ <<0>>[1] = 0
  BY <1>2 DEF IsSeq
<1> QED
  BY <1>1, <1>3, Appending

\* Writing the terminator makes a buffer that begins with the text the text.
LEMMA TerminatorCompletes ==
  ASSUME NEW text, WellFormed(text), NEW buffer, IsSeq(buffer), Len(buffer) = Len(text) + 1,
         \A j \in 1 .. Len(text) : buffer[j] = text[j], buffer[Len(text) + 1] = 0
  PROVE  buffer = text \o <<0>>
<1> DEFINE n == Len(text)
           t == text \o <<0>>
<1>1. n \in Nat
  BY TextIsSeq
<1>2. IsSeq(t) /\ Len(t) = n + 1 /\ t[n + 1] = 0 /\ \A j \in 1 .. n : t[j] = text[j]
  BY WithZero
<1> HIDE DEF t
<1>3. DOMAIN t = 1 .. n + 1 /\ DOMAIN buffer = 1 .. n + 1
  BY <1>2, LengthOfSeq
<1>4. \A j \in 1 .. n + 1 : t[j] = buffer[j]
  <2> HIDE DEF n
  <2>1. \A j \in 1 .. n + 1 : j \in 1 .. n \/ j = n + 1
    BY <1>1
  <2> QED
    BY <1>2, <2>1 DEF n
<1>5. PICK S : t \in Seq(S)
  BY <1>2 DEF IsSeq
<1>6. PICK T : buffer \in Seq(T)
  BY DEF IsSeq
<1> HIDE DEF n
<1> QED
  BY <1>3, <1>4, <1>5, <1>6 DEF t

LEMMA TerminatedIs ==
  ASSUME NEW buffer, IsSeq(buffer), Len(buffer) > 0
  PROVE  /\ IsSeq(Terminated(buffer)) /\ Len(Terminated(buffer)) = Len(buffer)
         /\ Terminated(buffer)[Len(buffer)] = 0
         /\ \A j \in 1 .. Len(buffer) : j < Len(buffer) => Terminated(buffer)[j] = buffer[j]
<1> DEFINE n == Len(buffer)
           t == Terminated(buffer)
<1>1. n \in Nat /\ DOMAIN buffer = 1 .. n
  BY LengthOfSeq
<1>2. t = [j \in 1 .. n |-> IF j = n THEN 0 ELSE buffer[j]]
  BY <1>1 DEF Terminated
<1> HIDE DEF t, n
<1>3. t = [j \in 1 .. n |-> t[j]]
  BY <1>2
<1>4. IsSeq(t) /\ Len(t) = n
  BY <1>1, <1>3, FunctionIsSeq
<1>5. \A j \in 1 .. n : t[j] = IF j = n THEN 0 ELSE buffer[j]
  BY <1>2
<1>6. n \in 1 .. n /\ \A j \in 1 .. n : j < n => j # n
  <2>1. n > 0
    BY DEF n
  <2> QED
    BY <1>1, <2>1
<1> QED
  BY <1>4, <1>5, <1>6 DEF t, n

\* Encoding and terminating the buffer of a string, as its readers do.
LEMMA TextIsRestored ==
  ASSUME NEW text, WellFormed(text), NEW buffer, Begins(buffer, text)
  PROVE  Terminated(buffer) = text \o <<0>>
<1>1. Len(text) \in Nat
  BY TextIsSeq
<1>2. IsSeq(buffer) /\ Len(buffer) = Len(text) + 1 /\ Len(buffer) > 0
  BY <1>1 DEF Begins
<1> DEFINE t == Terminated(buffer)
<1>3. /\ IsSeq(t) /\ Len(t) = Len(text) + 1 /\ t[Len(text) + 1] = 0
      /\ \A j \in 1 .. Len(buffer) : j < Len(buffer) => t[j] = buffer[j]
  BY <1>2, TerminatedIs
<1> HIDE DEF t
<1>4. \A j \in 1 .. Len(text) : t[j] = text[j]
  <2>1. \A j \in 1 .. Len(text) : j \in 1 .. Len(buffer) /\ j < Len(buffer)
    BY <1>1, <1>2
  <2> QED
    BY <1>3, <2>1 DEF Begins
<1>5. t = text \o <<0>>
  BY <1>3, <1>4, TerminatorCompletes
<1> QED
  BY <1>5 DEF t

-----------------------------------------------------------------------------
(* The tables of methods *)

LEMMA TablesAgree ==
  \A id \in MethodNames : id \in MethodTable(DeclaredType(id))
<1> SUFFICES ASSUME NEW id \in MethodNames PROVE id \in MethodTable(DeclaredType(id))
  OBVIOUS
<1> DEFINE voids == {1, 2, 6, 7, 14, 15, 16, 19, 23, 27, 28}
           ints == {3, 9, 11, 13, 21, 22, 30, 38, 44, 45, 48}
           booleans == {4, 10, 17, 20, 24, 31, 43, 49}
<1>1. CASE id \in voids
  <2>1. id \notin ints /\ id \notin booleans /\ id # 46
    BY <1>1
  <2>2. DeclaredType(id) = "void"
    BY <1>1, <2>1 DEF DeclaredType
  <2> QED
    BY <1>1, <2>2 DEF MethodTable
<1>2. CASE id \in ints
  <2>1. id \notin voids /\ id \notin booleans /\ id # 46
    BY <1>2
  <2>2. DeclaredType(id) = "int"
    BY <1>2, <2>1 DEF DeclaredType
  <2> QED
    BY <1>2, <2>2 DEF MethodTable
<1>3. CASE id \in booleans
  <2>1. id \notin voids /\ id \notin ints /\ id # 46
    BY <1>3
  <2>2. DeclaredType(id) = "boolean"
    BY <1>3, <2>1 DEF DeclaredType
  <2> QED
    BY <1>3, <2>2 DEF MethodTable
<1>4. CASE id = 46
  <2>1. 46 \notin voids /\ 46 \notin ints /\ 46 \notin booleans
    OBVIOUS
  <2>2. DeclaredType(46) = "float"
    BY <2>1 DEF DeclaredType
  <2> QED
    BY <1>4, <2>2 DEF MethodTable
<1>5. CASE id \notin voids /\ id \notin ints /\ id \notin booleans /\ id # 46
  <2>1. DeclaredType(id) = "object"
    BY <1>5 DEF DeclaredType
  <2>2. id \in ObjectTable
    BY <1>5 DEF MethodNames, ObjectTable
  <2> QED
    BY <2>1, <2>2 DEF MethodTable
<1> QED
  BY <1>1, <1>2, <1>3, <1>4, <1>5

\* A result that no property is about.
Plain(r) == r.kind # "copy" /\ (r.kind = "default" => ~r.promised)

LEMMA DefaultsArePlain ==
  ASSUME NEW types, NEW r \in Defaults(types)
  PROVE  Plain(r)
<1>1. PICK id \in MethodNames \cup {0}, type \in types :
        id \notin MethodTable(type) /\ r = Default(id, type)
  BY DEF Defaults
<1>2. id \in MethodNames => DeclaredType(id) # type
  BY <1>1, TablesAgree
<1> QED
  BY <1>1, <1>2 DEF Default, Plain

-----------------------------------------------------------------------------
(* The invariant of strings and of the calls that read them *)

\* What holds of a string at all times.
Held(x) ==
  /\ x = String(x.utf16, x.utf8, x.text, x.made)
  /\ IsSeq(x.utf16)
  /\ x.utf8 = NoBuffer \/ (IsSeq(x.utf8) /\ Len(x.utf8) = Len(x.utf16) + 1)
  /\ x.made = "utf8" =>
       /\ x.text \in Texts
       /\ x.utf8 # NoBuffer
       /\ \E fresh \in Utf16Room(x.text) : x.utf16 = utf8_to_utf16(x.text, fresh)
       /\ Ascii(x.text) => x.utf8 = x.text \o <<0>>

\* What holds of the string x for a call c that reads it.
Read(c, x) ==
  /\ x.kind = "string"
  /\ c.pc = "alloc" => x.made # "utf8"
  /\ c.pc \in {"encode", "terminate"} => x.utf8 # NoBuffer
  /\ ~c.overlapped /\ x.made = "utf8" =>
       /\ c.pc = "terminate" => Begins(x.utf8, x.text)
       /\ c.pc = "finish" => x.utf8 = x.text \o <<0>>

Shapes ==
  /\ obj = [o \in Objects |-> obj[o]] /\ call = [t \in Threads |-> call[t]]
  /\ \A t \in Threads : call[t] = [op |-> call[t].op, on |-> call[t].on, pc |-> call[t].pc,
                                   overlapped |-> call[t].overlapped]

StringsHeld == \A o \in Objects : IsString(o) => Held(obj[o])

CallsRead ==
  \A t \in Threads :
    \/ call[t] = Idle
    \/ call[t].pc # "idle" /\ call[t].on \in Objects /\ Read(call[t], obj[call[t].on])

\* A call of which no other one knows is alone with its string.
OverlapsKnown ==
  \A t, u \in Threads :
    t # u /\ call[t].on \in Objects /\ call[u].on = call[t].on => call[t].overlapped

JniInv == Shapes /\ StringsHeld /\ CallsRead /\ OverlapsKnown /\ CopyIsExact /\ EveryMethodAnswers

LEMMA PlainResult ==
  ASSUME Plain(result')
  PROVE  CopyIsExact' /\ EveryMethodAnswers'
BY DEF Plain, CopyIsExact, EveryMethodAnswers

LEMMA SameResult ==
  ASSUME CopyIsExact, EveryMethodAnswers, UNCHANGED result
  PROVE  CopyIsExact' /\ EveryMethodAnswers'
BY DEF CopyIsExact, EveryMethodAnswers

\* The state is as it was; the result may be new.
LEMMA SameObjects ==
  ASSUME JniInv, UNCHANGED <<obj, call>>, CopyIsExact', EveryMethodAnswers'
  PROVE  JniInv'
<1>1. obj' = obj /\ call' = call
  OBVIOUS
<1>2. Shapes' /\ StringsHeld' /\ CallsRead' /\ OverlapsKnown'
  BY <1>1 DEF JniInv, Shapes, StringsHeld, CallsRead, OverlapsKnown, IsString
<1> QED
  BY <1>2 DEF JniInv

LEMMA AnswersStep ==
  ASSUME JniInv, NEW t, NEW r, Answers(t, r), Plain(r)
  PROVE  JniInv'
<1>1. UNCHANGED <<obj, call>> /\ result' = r
  BY DEF Answers, Returns
<1> QED
  BY <1>1, PlainResult, SameObjects

LEMMA CreatesStep ==
  ASSUME JniInv, NEW t, NEW o \in Objects, NEW x, Creates(t, o, x), x.kind = "string" => Held(x)
  PROVE  JniInv'
<1>1. /\ obj[o] = Nothing /\ obj' = [obj EXCEPT ![o] = x]
      /\ call' = call /\ result' = Nothing
  BY DEF Creates, Returns
<1>2. obj = [p \in Objects |-> obj[p]]
  BY DEF JniInv, Shapes
<1>3. obj'[o] = x /\ (\A p \in Objects : p # o => obj'[p] = obj[p])
        /\ obj' = [p \in Objects |-> obj'[p]]
  BY <1>1, <1>2
<1>4. obj[o].kind # "string"
  BY <1>1 DEF Nothing
<1>5. Shapes'
  BY <1>1, <1>3 DEF JniInv, Shapes
<1>6. StringsHeld'
  BY <1>3 DEF JniInv, StringsHeld, IsString
<1>7. CallsRead'
  <2>1. \A t1 \in Threads : call[t1].on = o => call[t1] = Idle
    BY <1>4 DEF JniInv, CallsRead, Read
  <2> QED
    BY <1>1, <1>3, <2>1 DEF JniInv, CallsRead
<1>8. OverlapsKnown'
  BY <1>1 DEF JniInv, OverlapsKnown
<1>9. Plain(result')
  BY <1>1 DEF Plain, Nothing
<1> QED
  BY <1>5, <1>6, <1>7, <1>8, <1>9, PlainResult DEF JniInv

LEMMA StringIsHeld ==
  ASSUME NEW bytes \in Texts, NEW fresh \in Utf16Room(bytes)
  PROVE  Held(String(utf8_to_utf16(bytes, fresh), bytes \o <<0>>, bytes, "utf8"))
<1> DEFINE units == utf8_to_utf16(bytes, fresh)
           utf8 == bytes \o <<0>>
           x == String(units, utf8, bytes, "utf8")
<1>1. WellFormed(bytes)
  BY TextsAssumption
<1>2. IsSeq(units) /\ Len(units) = Len(bytes) /\ Len(bytes) \in Nat
  BY <1>1, UnitsAreHeld, TextIsSeq
<1>3. IsSeq(utf8) /\ Len(utf8) = Len(bytes) + 1
  BY <1>1, WithZero
<1>4. utf8 # NoBuffer
  <2>1. Len(NoBuffer) = 0
    BY DEF NoBuffer
  <2> HIDE DEF utf8
  <2> QED
    BY <1>2, <1>3, <2>1
<1>5. units = utf8_to_utf16(bytes, fresh)
  OBVIOUS
<1>6. utf8 = bytes \o <<0>>
  OBVIOUS
<1> HIDE DEF units, utf8
<1>7. x.utf16 = units /\ x.utf8 = utf8 /\ x.text = bytes /\ x.made = "utf8"
  BY DEF String
<1> HIDE DEF x
<1>8. x = String(x.utf16, x.utf8, x.text, x.made)
  BY <1>7 DEF x
<1>9. Held(x)
  BY <1>2, <1>3, <1>4, <1>5, <1>6, <1>7, <1>8 DEF Held
<1> QED
  BY <1>9 DEF x, units, utf8

LEMMA UnitStringIsHeld ==
  ASSUME NEW units \in UnitTexts, NEW utf8 \in {FirstUtf8(units), NoBuffer}
  PROVE  Held(String(units, utf8, units, "utf16"))
<1> DEFINE x == String(units, utf8, units, "utf16")
           zeros == [i \in 1 .. Len(units) + 1 |-> 0]
<1>1. units \in Seq(Units)
  BY UnitsAssumption, Zenon
<1>2. IsSeq(units) /\ Len(units) \in Nat
  <2>1. IsSeq(units)
    BY <1>1, Zenon DEF IsSeq
  <2> QED
    BY <2>1, LengthOfSeq
<1>3. IsSeq(zeros) /\ Len(zeros) = Len(units) + 1
  <2>1. Len(units) + 1 \in Nat /\ zeros = [i \in 1 .. Len(units) + 1 |-> zeros[i]]
    BY <1>2
  <2> HIDE DEF zeros
  <2> QED
    BY <2>1, FunctionIsSeq
<1> DEFINE back == utf16_to_utf8(units, zeros)
<1>4. IsSeq(back) /\ Len(back) = Len(units) + 1
  <2> HIDE DEF zeros
  <2> QED
    BY <1>3, BytesAreHeld
<1>5. FirstUtf8(units) = Terminated(back)
  BY DEF FirstUtf8
<1> HIDE DEF back
<1>6. IsSeq(FirstUtf8(units)) /\ Len(FirstUtf8(units)) = Len(units) + 1
  BY <1>2, <1>4, <1>5, TerminatedIs
<1>7. x.utf16 = units /\ x.utf8 = utf8 /\ x.text = units /\ x.made = "utf16"
  BY DEF String
<1> HIDE DEF x
<1>8. x = String(x.utf16, x.utf8, x.text, x.made)
  BY <1>7 DEF x
<1>9. Held(x)
  BY <1>2, <1>6, <1>7, <1>8 DEF Held
<1> QED
  BY <1>9 DEF x

\* DeleteGlobalRef of an object that no call uses.
LEMMA DeleteStep ==
  ASSUME JniInv, NEW t, NEW o \in Objects, DeleteGlobalRef(t, o)
  PROVE  JniInv'
<1>1. /\ obj' = [obj EXCEPT ![o] = Nothing] /\ \A u \in Threads : call[u].on # o
      /\ call' = call /\ result' = Nothing
  BY DEF DeleteGlobalRef, Returns
<1>2. obj = [p \in Objects |-> obj[p]]
  BY DEF JniInv, Shapes
<1>3. obj'[o] = Nothing /\ (\A p \in Objects : p # o => obj'[p] = obj[p])
        /\ obj' = [p \in Objects |-> obj'[p]]
  BY <1>1, <1>2
<1>4. Shapes'
  BY <1>1, <1>3 DEF JniInv, Shapes
<1>5. StringsHeld'
  <2>1. Nothing.kind # "string"
    BY DEF Nothing
  <2> QED
    BY <1>3, <2>1 DEF JniInv, StringsHeld, IsString
<1>6. CallsRead'
  BY <1>1, <1>3 DEF JniInv, CallsRead
<1>7. OverlapsKnown'
  BY <1>1 DEF JniInv, OverlapsKnown
<1>8. Plain(result')
  BY <1>1 DEF Plain, Nothing
<1> QED
  BY <1>4, <1>5, <1>6, <1>7, <1>8, PlainResult DEF JniInv

LEMMA Marked ==
  ASSUME NEW c, c = [op |-> c.op, on |-> c.on, pc |-> c.pc, overlapped |-> c.overlapped],
         NEW v, NEW d, d = [c EXCEPT !.overlapped = v]
  PROVE  /\ d.op = c.op /\ d.on = c.on /\ d.pc = c.pc /\ d.overlapped = v
         /\ d = [op |-> d.op, on |-> d.on, pc |-> d.pc, overlapped |-> d.overlapped]
OBVIOUS

\* A reader marks the others that read the same string.
LEMMA EnterStep ==
  ASSUME JniInv, NEW t \in Threads, NEW o \in Objects, EnterReader(t, o)
  PROVE  JniInv'
<1>1. PICK op \in Readers :
        call' = [u \in Threads |->
                   IF u = t THEN [op |-> op, on |-> o, pc |-> "check", overlapped |-> Shared(t, o)]
                   ELSE IF call[u].on = o THEN [call[u] EXCEPT !.overlapped = TRUE]
                   ELSE call[u]]
  BY DEF EnterReader
<1>2. obj' = obj /\ result' = result /\ IsString(o)
  BY DEF EnterReader
<1>3. call'[t] = [op |-> op, on |-> o, pc |-> "check", overlapped |-> Shared(t, o)]
  BY <1>1
<1>4. \A u \in Threads : call[u] = [op |-> call[u].op, on |-> call[u].on, pc |-> call[u].pc,
                                    overlapped |-> call[u].overlapped]
  BY DEF JniInv, Shapes
<1>5. ASSUME NEW u \in Threads, u # t, call[u].on = o
      PROVE  /\ call'[u].on = o /\ call'[u].pc = call[u].pc /\ call'[u].overlapped
             /\ call'[u] = [op |-> call'[u].op, on |-> call'[u].on, pc |-> call'[u].pc,
                            overlapped |-> call'[u].overlapped]
  <2> DEFINE v == TRUE
             d == call'[u]
             c == call[u]
  <2>1. d = [c EXCEPT !.overlapped = v]
    BY <1>1, <1>5
  <2>2. c = [op |-> c.op, on |-> c.on, pc |-> c.pc, overlapped |-> c.overlapped]
    BY <1>4
  <2> HIDE DEF v, d, c
  <2>3. /\ d.op = c.op /\ d.on = c.on /\ d.pc = c.pc /\ d.overlapped = v
        /\ d = [op |-> d.op, on |-> d.on, pc |-> d.pc, overlapped |-> d.overlapped]
    BY ONLY <2>1, <2>2, Marked
  <2>4. d.overlapped
    BY <2>3 DEF v
  <2> QED
    BY <1>5, <2>3, <2>4 DEF d, c
<1>6. \A u \in Threads : u # t /\ call[u].on # o => call'[u] = call[u]
  BY <1>1
<1>7. Shapes'
  <2>1. call' = [u \in Threads |-> call'[u]]
    BY <1>1
  <2>2. ASSUME NEW u \in Threads
        PROVE  call'[u] = [op |-> call'[u].op, on |-> call'[u].on, pc |-> call'[u].pc,
                           overlapped |-> call'[u].overlapped]
    BY <1>3, <1>4, <1>5, <1>6
  <2> QED
    BY <1>2, <2>1, <2>2 DEF JniInv, Shapes
<1>8. StringsHeld'
  BY <1>2 DEF JniInv, StringsHeld, IsString
<1>9. CallsRead'
  <2> SUFFICES ASSUME NEW u \in Threads
               PROVE  \/ call'[u] = Idle
                      \/ call'[u].pc # "idle" /\ call'[u].on \in Objects /\ Read(call'[u],
                           obj[call'[u].on])
    BY <1>2 DEF CallsRead
  <2>1. CASE u = t
    <3>1. Read(call'[t], obj[o])
      BY <1>2, <1>3 DEF Read, IsString
    <3> QED
      BY <1>3, <2>1, <3>1
  <2>2. CASE u # t /\ call[u].on = o
    <3>1. call[u] # Idle
      BY <2>2, NullAssumption DEF Idle
    <3>2. call[u].pc # "idle" /\ Read(call[u], obj[o])
      BY <2>2, <3>1 DEF JniInv, CallsRead
    <3>3. Read(call'[u], obj[o])
      BY <1>5, <2>2, <3>2 DEF Read
    <3> QED
      BY <1>5, <2>2, <3>2, <3>3
  <2>3. CASE u # t /\ call[u].on # o
    BY <1>6, <2>3 DEF JniInv, CallsRead
  <2> QED
    BY <2>1, <2>2, <2>3
<1>10. OverlapsKnown'
  <2> SUFFICES ASSUME NEW u \in Threads, NEW v \in Threads, u # v, call'[u].on \in Objects,
        call'[v].on = call'[u].on
               PROVE  call'[u].overlapped
    BY DEF OverlapsKnown
  <2>1. \A x \in Threads : x # t => call'[x].on = call[x].on
    BY <1>5, <1>6
  <2>2. CASE u = t
    <3>1. call[v].on = o /\ v # t
      BY <1>3, <2>1, <2>2
    <3> QED
      BY <1>3, <2>2, <3>1 DEF Shared
  <2>3. CASE u # t /\ call[u].on = o
    BY <1>5, <2>3
  <2>4. CASE u # t /\ call[u].on # o
    <3>1. v # t
      BY <1>3, <2>1, <2>4
    <3>2. call[u].on \in Objects /\ call[v].on = call[u].on
      BY <2>1, <2>4, <3>1
    <3> QED
      BY <1>6, <2>4, <3>2 DEF JniInv, OverlapsKnown
  <2> QED
    BY <2>2, <2>3, <2>4
<1> QED
  BY <1>2, <1>7, <1>8, <1>9, <1>10, SameResult DEF JniInv

\* A reader goes on with its string, which is x now.
Moves(t, o, place, x) ==
  /\ call' = [call EXCEPT ![t].pc = place]
  /\ obj' = [obj EXCEPT ![o] = x]
  /\ place # "idle" /\ call[t].on = o /\ call[t].pc # "idle"
  /\ Held(x) /\ x.kind = "string"
  /\ x = obj[o] \/ (x.utf8 # NoBuffer /\ x.made = obj[o].made)
  /\ Read([call[t] EXCEPT !.pc = place], x)
  /\ result' = result

LEMMA ReaderMoves ==
  ASSUME JniInv, NEW t \in Threads, NEW o \in Objects, NEW place, NEW x, Moves(t, o, place, x)
  PROVE  JniInv'
<1>1. obj = [p \in Objects |-> obj[p]] /\ call = [u \in Threads |-> call[u]]
  BY DEF JniInv, Shapes
<1>2. obj'[o] = x /\ (\A p \in Objects : p # o => obj'[p] = obj[p])
        /\ obj' = [p \in Objects |-> obj'[p]]
  BY <1>1 DEF Moves
<1>3. \A u \in Threads : call[u] = [op |-> call[u].op, on |-> call[u].on, pc |-> call[u].pc,
                                    overlapped |-> call[u].overlapped]
  BY DEF JniInv, Shapes
<1> DEFINE c == [call[t] EXCEPT !.pc = place]
<1>4. c = [op |-> call[t].op, on |-> o, pc |-> place, overlapped |-> call[t].overlapped]
  <2>1. call[t] = [op |-> call[t].op, on |-> o, pc |-> call[t].pc,
          overlapped |-> call[t].overlapped]
    BY <1>3 DEF Moves
  <2>2. [[op |-> call[t].op, on |-> o, pc |-> call[t].pc,
          overlapped |-> call[t].overlapped] EXCEPT !.pc = place]
        = [op |-> call[t].op, on |-> o, pc |-> place, overlapped |-> call[t].overlapped]
    OBVIOUS
  <2> QED
    BY <2>1, <2>2
<1>5. call'[t] = c /\ (\A u \in Threads : u # t => call'[u] = call[u])
        /\ call' = [u \in Threads |-> call'[u]]
  BY <1>1 DEF Moves
<1>6. Held(x) /\ x.kind = "string" /\ Read(c, x) /\ place # "idle" /\ call[t].on = o
        /\ result' = result
      /\ (x = obj[o] \/ (x.utf8 # NoBuffer /\ x.made = obj[o].made))
  BY DEF Moves
<1> HIDE DEF c
<1>7. Shapes'
  <2>1. ASSUME NEW u \in Threads
        PROVE  call'[u] = [op |-> call'[u].op, on |-> call'[u].on, pc |-> call'[u].pc,
                           overlapped |-> call'[u].overlapped]
    BY <1>3, <1>4, <1>5
  <2> QED
    BY <1>2, <1>5, <2>1 DEF Shapes
<1>8. StringsHeld'
  BY <1>2, <1>6 DEF JniInv, StringsHeld, IsString
<1>9. CallsRead'
  <2> SUFFICES ASSUME NEW u \in Threads
               PROVE  \/ call'[u] = Idle
                      \/ call'[u].pc # "idle" /\ call'[u].on \in Objects /\ Read(call'[u],
                           obj'[call'[u].on])
    BY DEF CallsRead
  <2>1. CASE u = t
    BY <1>2, <1>4, <1>5, <1>6, <2>1
  <2>2. CASE u # t /\ call[u].on = o
    <3>1. call[u] # Idle
      BY <2>2, NullAssumption DEF Idle
    <3>2. call[u].pc # "idle" /\ Read(call[u], obj[o])
      BY <2>2, <3>1 DEF JniInv, CallsRead
    <3>3. call[u].overlapped
      BY <1>6, <2>2 DEF JniInv, OverlapsKnown
    <3>4. Read(call[u], x)
      BY <1>6, <3>2, <3>3 DEF Read
    <3> QED
      BY <1>2, <1>5, <2>2, <3>2, <3>4
  <2>3. CASE u # t /\ call[u].on # o
    BY <1>2, <1>5, <2>3 DEF JniInv, CallsRead
  <2> QED
    BY <2>1, <2>2, <2>3
<1>10. OverlapsKnown'
  <2>1. \A u \in Threads : call'[u].on = call[u].on /\ call'[u].overlapped = call[u].overlapped
    BY <1>4, <1>5, <1>6
  <2> QED
    BY <2>1 DEF JniInv, OverlapsKnown
<1> QED
  BY <1>6, <1>7, <1>8, <1>9, <1>10, SameResult DEF JniInv

\* The string that a thread reads.
LEMMA ReaderHas ==
  ASSUME JniInv, NEW t \in Threads, call[t].pc # "idle"
  PROVE  /\ call[t].on \in Objects /\ Held(obj[call[t].on]) /\ Read(call[t], obj[call[t].on])
         /\ obj[call[t].on].kind = "string"
<1>1. call[t] # Idle
  BY DEF Idle
<1>2. call[t].on \in Objects /\ Read(call[t], obj[call[t].on])
  BY <1>1 DEF JniInv, CallsRead
<1>3. obj[call[t].on].kind = "string"
  BY <1>2 DEF Read
<1> QED
  BY <1>2, <1>3 DEF JniInv, StringsHeld, IsString

LEMMA WithPc ==
  ASSUME JniInv, NEW t \in Threads, NEW place
  PROVE  LET c == [call[t] EXCEPT !.pc = place]
         IN  c.pc = place /\ c.on = call[t].on /\ c.overlapped = call[t].overlapped
<1>1. call[t] = [op |-> call[t].op, on |-> call[t].on, pc |-> call[t].pc,
        overlapped |-> call[t].overlapped]
  BY DEF JniInv, Shapes
<1> QED
  BY <1>1

LEMMA CheckStep ==
  ASSUME JniInv, NEW t \in Threads, CheckBuffer(t)
  PROVE  JniInv'
<1> DEFINE o == call[t].on
           x == obj[o]
           place == IF x.utf8 = NoBuffer THEN "alloc" ELSE "encode"
           c == [call[t] EXCEPT !.pc = place]
<1>1. call[t].pc = "check" /\ call' = [call EXCEPT ![t].pc = place] /\ obj' = obj
        /\ result' = result
  BY DEF CheckBuffer, At, Goto
<1>2. o \in Objects /\ Held(x) /\ Read(call[t], x) /\ x.kind = "string"
  BY <1>1, ReaderHas
<1>3. c.pc = place
  BY WithPc
<1>4. obj' = [obj EXCEPT ![o] = x]
  <2>1. obj = [p \in Objects |-> obj[p]]
    BY DEF JniInv, Shapes
  <2>2. [obj EXCEPT ![o] = obj[o]] = [p \in Objects |-> obj[p]]
    BY <2>1
  <2> QED
    BY <1>1, <2>1, <2>2
<1>5. (place = "alloc" /\ x.utf8 = NoBuffer) \/ (place = "encode" /\ x.utf8 # NoBuffer)
  OBVIOUS
<1> HIDE DEF c, place, o, x
<1>6. Read(c, x)
  BY <1>2, <1>3, <1>5 DEF Read, Held
<1>7. place # "idle"
  BY <1>5
<1>8. Moves(t, o, place, x)
  BY <1>1, <1>2, <1>4, <1>6, <1>7 DEF Moves, o, x, c
<1> QED
  BY <1>2, <1>8, ReaderMoves

\* A string whose other buffer is b.
LEMMA WithUtf8 ==
  ASSUME NEW x, Held(x), NEW b
  PROVE  LET y == [x EXCEPT !.utf8 = b]
         IN  /\ y.utf16 = x.utf16 /\ y.utf8 = b /\ y.text = x.text /\ y.made = x.made
             /\ y.kind = "string" /\ y = String(y.utf16, y.utf8, y.text, y.made)
<1>1. x = [kind |-> "string", utf16 |-> x.utf16, utf8 |-> x.utf8, text |-> x.text, made |-> x.made]
  BY DEF Held, String
<1>2. [x EXCEPT !.utf8 = b] = [kind |-> "string", utf16 |-> x.utf16, utf8 |-> b, text |-> x.text,
        made |-> x.made]
  BY <1>1
<1> QED
  BY <1>2 DEF String

\* A call ends.
LEMMA ReaderLeaves ==
  ASSUME JniInv, NEW t \in Threads, obj' = obj, call' = [call EXCEPT ![t] = Idle],
         CopyIsExact', EveryMethodAnswers'
  PROVE  JniInv'
<1>1. call = [u \in Threads |-> call[u]]
  BY DEF JniInv, Shapes
<1>2. call'[t] = Idle /\ (\A u \in Threads : u # t => call'[u] = call[u])
        /\ call' = [u \in Threads |-> call'[u]]
  BY <1>1
<1>3. Shapes'
  <2>1. Idle = [op |-> Idle.op, on |-> Idle.on, pc |-> Idle.pc, overlapped |-> Idle.overlapped]
    BY DEF Idle
  <2>2. ASSUME NEW u \in Threads
        PROVE  call'[u] = [op |-> call'[u].op, on |-> call'[u].on, pc |-> call'[u].pc,
                           overlapped |-> call'[u].overlapped]
    BY <1>2, <2>1 DEF JniInv, Shapes
  <2> QED
    BY <1>2, <2>2 DEF JniInv, Shapes
<1>4. StringsHeld'
  BY DEF JniInv, StringsHeld, IsString
<1>5. CallsRead'
  BY <1>2 DEF JniInv, CallsRead
<1>6. OverlapsKnown'
  <2>1. Idle.on \notin Objects
    BY NullAssumption DEF Idle
  <2> QED
    BY <1>2, <2>1 DEF JniInv, OverlapsKnown
<1> QED
  BY <1>3, <1>4, <1>5, <1>6 DEF JniInv

LEMMA AllocStep ==
  ASSUME JniInv, NEW t \in Threads, AllocBuffer(t)
  PROVE  JniInv'
<1> DEFINE o == call[t].on
           x == obj[o]
<1>1. call[t].pc = "alloc" /\ result' = result
  BY DEF AllocBuffer, At
<1>2. o \in Objects /\ Held(x) /\ Read(call[t], x) /\ x.kind = "string"
  BY <1>1, ReaderHas
<1>3. x.made # "utf8"
  BY <1>1, <1>2 DEF Read
<1>4. CASE \E fresh \in jda_alloc(Len(x.utf16) + 1, {65}) : SetUtf8(o, fresh) /\ Goto(t, "encode")
  <2>1. PICK fresh \in jda_alloc(Len(x.utf16) + 1, {65}) : SetUtf8(o, fresh) /\ Goto(t, "encode")
    BY <1>4
  <2> DEFINE y == [x EXCEPT !.utf8 = fresh]
             c == [call[t] EXCEPT !.pc = "encode"]
  <2>2. call' = [call EXCEPT ![t].pc = "encode"] /\ obj' = [obj EXCEPT ![o] = y]
    BY <2>1 DEF SetUtf8, Goto
  <2>3. IsSeq(x.utf16) /\ Len(x.utf16) \in Nat
    BY <1>2, LengthOfSeq DEF Held
  <2>4. IsSeq(fresh) /\ Len(fresh) = Len(x.utf16) + 1
    BY <2>1, <2>3, FreshArray
  <2>5. fresh # NoBuffer
    <3>1. Len(NoBuffer) = 0
      BY DEF NoBuffer
    <3> QED
      BY <2>3, <2>4, <3>1
  <2>6. /\ y.utf16 = x.utf16 /\ y.utf8 = fresh /\ y.text = x.text /\ y.made = x.made
        /\ y.kind = "string" /\ y = String(y.utf16, y.utf8, y.text, y.made)
    BY <1>2, WithUtf8
  <2>7. c.pc = "encode"
    BY WithPc
  <2> HIDE DEF y, c, x, o
  <2>8. Held(y)
    BY <1>3, <2>3, <2>4, <2>6 DEF Held
  <2>9. Read(c, y)
    BY <1>3, <2>5, <2>6, <2>7 DEF Read
  <2>10. Moves(t, o, "encode", y)
    BY <1>1, <2>2, <2>5, <2>6, <2>8, <2>9 DEF Moves, o, c, x
  <2> QED
    BY <1>2, <2>10, ReaderMoves DEF o
<1>5. CASE obj' = obj /\ Goto(t, "finish")
  <2> DEFINE c == [call[t] EXCEPT !.pc = "finish"]
  <2>1. obj' = [obj EXCEPT ![o] = x]
    <3>1. obj = [p \in Objects |-> obj[p]]
      BY DEF JniInv, Shapes
    <3>2. [obj EXCEPT ![o] = obj[o]] = [p \in Objects |-> obj[p]]
      BY <3>1
    <3> QED
      BY <1>5, <3>1, <3>2
  <2>2. c.pc = "finish"
    BY WithPc
  <2>3. Read(c, x)
    <3> HIDE DEF c, x, o
    <3> QED
      BY <1>2, <1>3, <2>2 DEF Read
  <2>4. Moves(t, o, "finish", x)
    BY <1>1, <1>2, <1>5, <2>1, <2>3 DEF Moves, Goto
  <2> QED
    BY <1>2, <2>4, ReaderMoves
<1>6. CASE obj' = obj /\ call' = [call EXCEPT ![t] = Idle]
  BY <1>1, <1>6, ReaderLeaves, SameResult DEF JniInv
<1> QED
  BY <1>4, <1>5, <1>6 DEF AllocBuffer

LEMMA NotNoBuffer ==
  ASSUME NEW b, NEW n \in Nat, Len(b) = n + 1
  PROVE  b # NoBuffer
<1>1. Len(NoBuffer) = 0
  BY DEF NoBuffer
<1> QED
  BY <1>1

\* A step that puts the buffer b in the place of the one that a string has.
LEMMA BufferStep ==
  ASSUME JniInv, NEW t \in Threads, call[t].pc # "idle", obj[call[t].on].utf8 # NoBuffer,
         NEW b, IsSeq(b), Len(b) = Len(obj[call[t].on].utf8),
         NEW place, place \in {"terminate", "finish"},
         SetUtf8(call[t].on, b), Goto(t, place), UNCHANGED result,
         obj[call[t].on].made = "utf8" =>
           /\ Ascii(obj[call[t].on].text) => b = obj[call[t].on].text \o << 0 >>
           /\ place = "terminate" => Begins(b, obj[call[t].on].text)
           /\ place = "finish" /\ ~call[t].overlapped => b = obj[call[t].on].text \o << 0 >>
  PROVE  JniInv'
<1> DEFINE o == call[t].on
           x == obj[o]
           y == [x EXCEPT !.utf8 = b]
           c == [call[t] EXCEPT !.pc = place]
           text == x.text
<1>1. o \in Objects /\ Held(x) /\ Read(call[t], x)
  BY ReaderHas
<1>2. call' = [call EXCEPT ![t].pc = place] /\ obj' = [obj EXCEPT ![o] = y]
  BY DEF SetUtf8, Goto
<1>3. /\ y.utf16 = x.utf16 /\ y.utf8 = b /\ y.text = x.text /\ y.made = x.made
      /\ y.kind = "string" /\ y = String(y.utf16, y.utf8, y.text, y.made)
  <2> HIDE DEF o, x
  <2> QED
    BY ONLY <1>1, WithUtf8
<1>4. c.pc = place /\ c.overlapped = call[t].overlapped
  BY WithPc
<1>5. x.made = "utf8" =>
        /\ Ascii(text) => b = text \o <<0>>
        /\ place = "terminate" => Begins(b, text)
        /\ place = "finish" /\ ~call[t].overlapped => b = text \o <<0>>
  OBVIOUS
<1>6. x.utf8 # NoBuffer /\ Len(b) = Len(x.utf8) /\ call[t].pc # "idle"
  OBVIOUS
<1> HIDE DEF o, x, y, c, text
<1>7. IsSeq(x.utf16) /\ Len(b) = Len(x.utf16) + 1
  BY <1>1, <1>6 DEF Held
<1>8. b # NoBuffer
  BY <1>7, LengthOfSeq, NotNoBuffer
<1>9. Held(y)
  BY <1>1, <1>3, <1>5, <1>7, <1>8 DEF Held, text
<1>10. Read(c, y)
  BY <1>3, <1>4, <1>5, <1>8 DEF Read, text
<1>11. Moves(t, o, place, y)
  <2>1. place # "idle" /\ result' = result
    OBVIOUS
  <2> QED
    BY <1>2, <1>3, <1>6, <1>8, <1>9, <1>10, <2>1 DEF Moves, o, c, x
<1> QED
  BY <1>1, <1>11, ReaderMoves

\* What a string that NewStringUTF made has.
LEMMA TextIsHeld ==
  ASSUME NEW x, Held(x), x.made = "utf8"
  PROVE  /\ WellFormed(x.text)
         /\ \E fresh \in Utf16Room(x.text) : x.utf16 = utf8_to_utf16(x.text, fresh)
         /\ IsSeq(x.utf8) /\ Len(x.utf8) = Len(x.text) + 1 /\ Len(x.text) \in Nat
         /\ Ascii(x.text) => x.utf8 = x.text \o <<0>>
<1>1. WellFormed(x.text)
  BY TextsAssumption DEF Held
<1>2. PICK fresh \in Utf16Room(x.text) : x.utf16 = utf8_to_utf16(x.text, fresh)
  BY DEF Held
<1>3. Len(x.utf16) = Len(x.text)
  BY <1>1, <1>2, UnitsAreHeld
<1>4. Len(x.text) \in Nat
  BY <1>1, TextIsSeq
<1> QED
  BY <1>1, <1>2, <1>3, <1>4 DEF Held

LEMMA EncodeStep ==
  ASSUME JniInv, NEW t \in Threads, EncodeBuffer(t)
  PROVE  JniInv'
<1> DEFINE o == call[t].on
           x == obj[o]
           b == utf16_to_utf8(x.utf16, x.utf8)
           text == x.text
<1>1. call[t].pc = "encode" /\ SetUtf8(o, b) /\ Goto(t, "terminate") /\ result' = result
  BY DEF EncodeBuffer, At
<1>2. Held(x) /\ x.utf8 # NoBuffer
  <2>1. Held(x) /\ Read(call[t], x)
    BY <1>1, ReaderHas
  <2> QED
    BY <1>1, <2>1 DEF Read
<1>3. IsSeq(b) /\ Len(b) = Len(x.utf8)
  BY <1>2, BytesAreHeld DEF Held
<1>4. ASSUME x.made = "utf8"
      PROVE  Begins(b, text) /\ (Ascii(text) => b = text \o <<0>>)
  <2>1. /\ WellFormed(text) /\ Len(text) \in Nat
        /\ IsSeq(x.utf8) /\ Len(x.utf8) = Len(text) + 1
        /\ Ascii(text) => x.utf8 = text \o <<0>>
    BY <1>2, <1>4, TextIsHeld
  <2>2. PICK fresh \in Utf16Room(text) : x.utf16 = utf8_to_utf16(text, fresh)
    BY <1>2, <1>4, TextIsHeld
  <2>3. Begins(b, text) /\ (Ascii(text) => b[Len(text) + 1] = x.utf8[Len(text) + 1])
    <3> DEFINE back == utf16_to_utf8(utf8_to_utf16(text, fresh), x.utf8)
    <3>1. Begins(back, text) /\ (Ascii(text) => back[Len(text) + 1] = x.utf8[Len(text) + 1])
      BY <2>1, TextIsBack
    <3>2. b = back
      BY <2>2
    <3> QED
      BY <3>1, <3>2
  <2> HIDE DEF b, text, x
  <2>4. ASSUME Ascii(text) PROVE b = text \o <<0>>
    <3>1. b[Len(text) + 1] = 0
      BY <2>1, <2>3, <2>4, WithZero
    <3>2. IsSeq(b) /\ Len(b) = Len(text) + 1 /\ \A j \in 1 .. Len(text) : b[j] = text[j]
      BY <2>3 DEF Begins
    <3> QED
      BY <2>1, <3>1, <3>2, TerminatorCompletes
  <2> QED
    BY <2>3, <2>4
<1>5. "terminate" \in {"terminate", "finish"} /\ "terminate" # "finish" /\ "encode" # "idle"
  OBVIOUS
<1> HIDE DEF b
<1> QED
  BY <1>1, <1>2, <1>3, <1>4, <1>5, BufferStep

LEMMA TerminateStep ==
  ASSUME JniInv, NEW t \in Threads, TerminateBuffer(t)
  PROVE  JniInv'
<1> DEFINE o == call[t].on
           x == obj[o]
           b == Terminated(x.utf8)
           text == x.text
<1>1. call[t].pc = "terminate" /\ SetUtf8(o, b) /\ Goto(t, "finish") /\ result' = result
  BY DEF TerminateBuffer, At
<1>2. Held(x) /\ Read(call[t], x) /\ x.utf8 # NoBuffer
  <2>1. Held(x) /\ Read(call[t], x)
    BY <1>1, ReaderHas
  <2> QED
    BY <1>1, <2>1 DEF Read
<1>3. IsSeq(b) /\ Len(b) = Len(x.utf8)
  <2>1. IsSeq(x.utf8) /\ Len(x.utf8) = Len(x.utf16) + 1 /\ IsSeq(x.utf16)
    BY <1>2 DEF Held
  <2>2. Len(x.utf16) \in Nat
    BY <2>1, LengthOfSeq
  <2>3. Len(x.utf8) > 0
    BY <2>1, <2>2
  <2> QED
    BY <2>1, <2>3, TerminatedIs
<1>4. ASSUME x.made = "utf8"
      PROVE  /\ Ascii(text) => b = text \o <<0>>
             /\ ~call[t].overlapped => b = text \o <<0>>
  <2>1. /\ WellFormed(text) /\ IsSeq(x.utf8) /\ Len(x.utf8) = Len(text) + 1
        /\ Ascii(text) => x.utf8 = text \o <<0>>
    BY <1>2, <1>4, TextIsHeld
  <2>2. Ascii(text) \/ ~call[t].overlapped => Begins(x.utf8, text)
    <3>1. Ascii(text) => Begins(x.utf8, text)
      BY <2>1, WithZero DEF Begins
    <3>2. ~call[t].overlapped => Begins(x.utf8, text)
      BY <1>1, <1>2, <1>4 DEF Read
    <3> QED
      BY <3>1, <3>2
  <2> QED
    BY <2>1, <2>2, TextIsRestored
<1>5. "finish" \in {"terminate", "finish"} /\ "terminate" # "finish" /\ "terminate" # "idle"
  OBVIOUS
<1> HIDE DEF b
<1> QED
  BY <1>1, <1>2, <1>3, <1>4, <1>5, BufferStep

LEMMA FinishStep ==
  ASSUME JniInv, NEW t \in Threads, FinishReader(t)
  PROVE  JniInv'
<1> DEFINE o == call[t].on
           x == obj[o]
           r == Utf8Copy(t, o)
<1>1. call[t].pc = "finish" /\ call' = [call EXCEPT ![t] = Idle] /\ obj' = obj
  BY DEF FinishReader, At
<1>2. result' = r \/ result' = [kind |-> "length", length |-> Len(x.utf16)] \/ result' = Nothing
  BY DEF FinishReader
<1>3. Held(x) /\ Read(call[t], x)
  BY <1>1, ReaderHas
<1>4. CASE result' = r
  <2>1. /\ r.kind = "copy" /\ r.copy = x.utf8 /\ r.room = Len(x.utf16) + 1 /\ r.text = x.text
        /\ r.made = x.made /\ r.overlapped = call[t].overlapped
    BY DEF Utf8Copy
  <2> HIDE DEF r, x, o
  <2>2. Len(r.copy) <= r.room
    <3>1. IsSeq(x.utf16) /\ Len(x.utf16) \in Nat
      BY <1>3, LengthOfSeq DEF Held
    <3>2. x.utf8 = NoBuffer \/ Len(x.utf8) = Len(x.utf16) + 1
      BY <1>3 DEF Held
    <3>3. Len(NoBuffer) = 0
      BY DEF NoBuffer
    <3>4. Len(x.utf8) = 0 \/ Len(x.utf8) = Len(x.utf16) + 1
      BY <3>2, <3>3
    <3> QED
      BY <2>1, <3>1, <3>4
  <2>3. ASSUME r.made = "utf8", r.overlapped => Ascii(r.text) PROVE r.copy = r.text \o <<0>>
    <3>1. CASE Ascii(x.text)
      BY <1>3, <2>1, <2>3, <3>1 DEF Held
    <3>2. CASE ~call[t].overlapped
      BY <1>1, <1>3, <2>1, <2>3, <3>2 DEF Read
    <3> QED
      BY <2>1, <2>3, <3>1, <3>2
  <2>4. CopyIsExact' /\ EveryMethodAnswers'
    BY <1>4, <2>1, <2>2, <2>3 DEF CopyIsExact, EveryMethodAnswers
  <2> QED
    BY <1>1, <2>4, ReaderLeaves
<1>5. CASE result' = [kind |-> "length", length |-> Len(x.utf16)] \/ result' = Nothing
  <2>1. Plain(result')
    BY <1>5 DEF Plain, Nothing
  <2> QED
    BY <1>1, <2>1, PlainResult, ReaderLeaves
<1> QED
  BY <1>2, <1>4, <1>5

LEMMA ReadingStep ==
  ASSUME JniInv, NEW t \in Threads, Reading(t)
  PROVE  JniInv'
BY CheckStep, AllocStep, EncodeStep, TerminateStep, FinishStep DEF Reading

\* Strings made by NewStringUTF, from any call that makes one.
LEMMA NewStringUtfStep ==
  ASSUME JniInv, NEW t, NEW o \in Objects, NewStringUTF(t, o)
  PROVE  JniInv'
<1>1. PICK bytes \in Texts : \E fresh \in Utf16Room(bytes) :
        Creates(t, o, String(utf8_to_utf16(bytes, fresh), bytes \o <<0>>, bytes, "utf8"))
  BY DEF NewStringUTF
<1>2. PICK fresh \in Utf16Room(bytes) :
        Creates(t, o, String(utf8_to_utf16(bytes, fresh), bytes \o <<0>>, bytes, "utf8"))
  BY <1>1
<1> DEFINE x == String(utf8_to_utf16(bytes, fresh), bytes \o <<0>>, bytes, "utf8")
<1>3. Held(x)
  BY StringIsHeld
<1>4. Creates(t, o, x)
  BY <1>2
<1> HIDE DEF x
<1> QED
  BY <1>3, <1>4, CreatesStep

LEMMA NewStringStep ==
  ASSUME JniInv, NEW t, NEW o \in Objects, NewString(t, o)
  PROVE  JniInv'
<1>1. PICK units \in UnitTexts : \E utf8 \in {FirstUtf8(units), NoBuffer} :
        Creates(t, o, String(units, utf8, units, "utf16"))
  BY DEF NewString
<1>2. PICK utf8 \in {FirstUtf8(units), NoBuffer} : Creates(t, o, String(units, utf8, units,
        "utf16"))
  BY <1>1
<1> DEFINE x == String(units, utf8, units, "utf16")
<1>3. Held(x)
  BY UnitStringIsHeld
<1>4. Creates(t, o, x)
  BY <1>2
<1> HIDE DEF x
<1> QED
  BY <1>3, <1>4, CreatesStep

LEMMA NewArrayStep ==
  ASSUME JniInv, NEW t, NEW o \in Objects, NEW x, x = Class \/ \E n : x = Array(n), Creates(t, o, x)
  PROVE  JniInv'
<1>1. x.kind # "string"
  BY DEF Class, Array
<1> QED
  BY <1>1, CreatesStep

LEMMA ObjectCallStep ==
  ASSUME JniInv, NEW t, NEW o \in Objects, methodObjectCall(t, o)
  PROVE  JniInv'
<1>1. CASE \E default \in Defaults({"object"}) : Answers(t, default)
  BY <1>1, DefaultsArePlain, AnswersStep
<1>2. CASE TextMethod(t, o) \/ PathMethod(t, o) \/ LanguageMethod(t, o)
  BY <1>2, NewStringUtfStep DEF TextMethod, PathMethod, LanguageMethod
<1>3. CASE loadClass(t, o)
  BY <1>3, NewArrayStep DEF loadClass
<1>4. CASE initCloud(t)
  <2>1. Plain(Nothing)
    BY DEF Plain, Nothing
  <2> QED
    BY <1>4, <2>1, AnswersStep DEF initCloud
<1> QED
  BY <1>1, <1>2, <1>3, <1>4 DEF methodObjectCall

LEMMA CallStep ==
  ASSUME JniInv, NEW t, NEW types, methodCall(t, types)
  PROVE  JniInv'
<1>1. Plain(Nothing)
  BY DEF Plain, Nothing
<1>2. CASE \E default \in Defaults(types) : Answers(t, default)
  BY <1>2, DefaultsArePlain, AnswersStep
<1>3. CASE ConstantMethod(t)
  BY <1>1, <1>3, AnswersStep DEF ConstantMethod
<1> QED
  BY <1>2, <1>3 DEF methodCall

LEMMA AnswersOnObject ==
  ASSUME JniInv, NEW t, NEW o \in Objects,
         \/ ArrayRegion(t, o) \/ ArrayElements(t, o) \/ NewRef(t, o) \/ DeleteRef(t, o)
         \/ GetStringCritical(t, o) \/ GetStringRegion(t, o)
  PROVE  JniInv'
<1>1. Plain(Nothing)
  BY DEF Plain, Nothing
<1>2. CASE ArrayRegion(t, o)
  <2>1. PICK start \in -1 .. 1, length \in Lengths :
          Answers(t, [kind |-> "region", copied |-> AcceptsRegion(obj[o].len, start, length),
                      inside |-> start >= 0 /\ start + length <= obj[o].len])
    BY <1>2 DEF ArrayRegion
  <2> DEFINE copied == AcceptsRegion(obj[o].len, start, length)
             inside == start >= 0 /\ start + length <= obj[o].len
             r == [kind |-> "region", copied |-> copied, inside |-> inside]
  <2>2. Answers(t, r)
    BY <2>1
  <2> HIDE DEF copied, inside
  <2>3. Plain(r)
    BY DEF Plain
  <2> HIDE DEF r
  <2> QED
    BY <2>2, <2>3, AnswersStep
<1>3. CASE ~ArrayRegion(t, o)
  BY <1>1, <1>3, AnswersStep DEF ArrayElements, NewRef, DeleteRef, GetStringCritical,
    GetStringRegion
<1> QED
  BY <1>2, <1>3

LEMMA AnswersAlone ==
  ASSUME JniInv, NEW t,
         \/ GetMethodID(t) \/ GetStaticMethodID(t) \/ GetFieldID(t)
         \/ GetField(t) \/ SetField(t) \/ StaticField(t)
         \/ MonitorEnter(t) \/ AttachCurrentThread(t) \/ Throw(t) \/ ExceptionCheck(t)
  PROVE  JniInv'
<1>1. Plain(Nothing)
  BY DEF Plain, Nothing
<1>2. CASE GetMethodID(t) \/ GetStaticMethodID(t)
  <2>1. PICK name \in MethodNames \cup {0} : Answers(t, [kind |-> "id",
          found |-> getMethodIdByName(name) # 0])
    BY <1>2 DEF GetMethodID, GetStaticMethodID
  <2> DEFINE found == getMethodIdByName(name) # 0
             r == [kind |-> "id", found |-> found]
  <2>2. Answers(t, r)
    BY <2>1
  <2> HIDE DEF found
  <2>3. Plain(r)
    BY DEF Plain
  <2> HIDE DEF r
  <2> QED
    BY <2>2, <2>3, AnswersStep
<1>3. CASE GetFieldID(t)
  <2>1. PICK name \in FieldNames : Answers(t, [kind |-> "id", found |-> name # 0])
    BY <1>3 DEF GetFieldID
  <2> DEFINE found == name # 0
             r == [kind |-> "id", found |-> found]
  <2>2. Answers(t, r)
    BY <2>1
  <2> HIDE DEF found
  <2>3. Plain(r)
    BY DEF Plain
  <2> HIDE DEF r
  <2> QED
    BY <2>2, <2>3, AnswersStep
<1>4. CASE GetField(t) \/ SetField(t) \/ StaticField(t)
  <2>1. PICK id \in FieldNames, type \in {"int", "object"} : Answers(t, FieldValue(id, type))
    BY <1>4 DEF GetField, SetField, StaticField
  <2>2. Plain(FieldValue(id, type))
    BY DEF Plain, FieldValue, Nothing
  <2> QED
    BY <2>1, <2>2, AnswersStep
<1>5. CASE MonitorEnter(t) \/ AttachCurrentThread(t) \/ Throw(t) \/ ExceptionCheck(t)
  BY <1>1, <1>5, AnswersStep DEF MonitorEnter, AttachCurrentThread, Throw, ExceptionCheck
<1> QED
  BY <1>2, <1>3, <1>4, <1>5

LEMMA JniInvInit == JniInit => JniInv
<1> SUFFICES ASSUME JniInit PROVE JniInv
  OBVIOUS
<1>1. Shapes
  BY DEF JniInit, Shapes, Idle
<1>2. StringsHeld
  BY DEF JniInit, StringsHeld, IsString, Nothing
<1>3. CallsRead
  BY DEF JniInit, CallsRead
<1>4. OverlapsKnown
  BY NullAssumption DEF JniInit, OverlapsKnown, Idle
<1>5. CopyIsExact /\ EveryMethodAnswers
  BY DEF JniInit, CopyIsExact, EveryMethodAnswers, Nothing
<1> QED
  BY <1>1, <1>2, <1>3, <1>4, <1>5 DEF JniInv

LEMMA JniInvNext == JniInv /\ [JniNext]_jniVars => JniInv'
<1> SUFFICES ASSUME JniInv, [JniNext]_jniVars PROVE JniInv'
  OBVIOUS
<1>1. CASE UNCHANGED jniVars
  <2>1. UNCHANGED <<obj, call, result>>
    BY <1>1 DEF jniVars
  <2> QED
    BY <2>1, SameResult, SameObjects DEF JniInv
<1>2. ASSUME NEW t \in Threads, NEW o \in Objects,
        \/ FindClass(t, o) \/ NewArray(t, o) \/ NewStringUTF(t, o) \/ NewString(t, o)
        \/ CallMethod(t, o) \/ CallNonvirtualMethod(t, o) \/ CallStaticMethod(t,
             o) \/ NewObject(t, o)
      PROVE  JniInv'
  <2>1. CASE FindClass(t, o) \/ NewArray(t, o)
    BY <2>1, NewArrayStep DEF FindClass, NewArray
  <2>2. CASE NewStringUTF(t, o)
    BY <2>2, NewStringUtfStep
  <2>3. CASE NewString(t, o)
    BY <2>3, NewStringStep
  <2>4. CASE CallMethod(t, o) \/ CallNonvirtualMethod(t, o) \/ CallStaticMethod(t,
          o) \/ NewObject(t, o)
    BY <2>4, ObjectCallStep, CallStep DEF CallMethod, CallNonvirtualMethod, CallStaticMethod,
      NewObject
  <2> QED
    BY <1>2, <2>1, <2>2, <2>3, <2>4
<1>3. ASSUME NEW t \in Threads, NEW o \in Objects,
        \/ ArrayRegion(t, o) \/ ArrayElements(t, o) \/ NewRef(t, o) \/ DeleteRef(t, o)
        \/ GetStringCritical(t, o) \/ GetStringRegion(t, o)
      PROVE  JniInv'
  BY <1>3, AnswersOnObject
<1>4. ASSUME NEW t \in Threads, NEW o \in Objects, DeleteGlobalRef(t, o)
      PROVE  JniInv'
  BY <1>4, DeleteStep
<1>5. ASSUME NEW t \in Threads, NEW o \in Objects, EnterReader(t, o)
      PROVE  JniInv'
  BY <1>5, EnterStep
<1>6. ASSUME NEW t \in Threads,
        CallOtherMethod(t) \/ CallNonvirtualOtherMethod(t) \/ CallStaticOtherMethod(t)
      PROVE  JniInv'
  BY <1>6, CallStep DEF CallOtherMethod, CallNonvirtualOtherMethod, CallStaticOtherMethod
<1>7. ASSUME NEW t \in Threads,
        \/ GetMethodID(t) \/ GetStaticMethodID(t) \/ GetFieldID(t)
        \/ GetField(t) \/ SetField(t) \/ StaticField(t)
        \/ MonitorEnter(t) \/ AttachCurrentThread(t) \/ Throw(t) \/ ExceptionCheck(t)
      PROVE  JniInv'
  BY <1>7, AnswersAlone
<1>8. ASSUME NEW t \in Threads, FatalError(t) \/ Aborted
      PROVE  JniInv'
  <2>1. UNCHANGED <<obj, call, result>>
    BY <1>8 DEF FatalError, Aborted, jniVars
  <2> QED
    BY <2>1, SameResult, SameObjects DEF JniInv
<1>9. ASSUME NEW t \in Threads, Reading(t)
      PROVE  JniInv'
  BY <1>9, ReadingStep
<1> QED
  BY <1>1, <1>2, <1>3, <1>4, <1>5, <1>6, <1>7, <1>8, <1>9 DEF JniNext

\* CopyIsExact (GetStringUTFChars of FalsoJNI.c, jstr_utf16_to_utf8, converter.c):
\* for any texts in UTF-8 and any number of threads, the copy that
\* GetStringUTFChars returns is the text that NewStringUTF was given, if no other
\* thread was in a call for the same string, or the text is ASCII; and it fits
\* into the block that was allocated for it.
THEOREM CopiesAreAlwaysExact == JniSpec => []CopyIsExact
<1>1. JniInv => CopyIsExact
  BY DEF JniInv
<1> QED
  BY <1>1, JniInvInit, JniInvNext, PTL DEF JniSpec

\* EveryMethodAnswers (the tables of falso_jni_impl.c): a method that is called by
\* the number and by the type that the table of names gives it is implemented.
THEOREM MethodsAlwaysAnswer == JniSpec => []EveryMethodAnswers
<1>1. JniInv => EveryMethodAnswers
  BY DEF JniInv
<1> QED
  BY <1>1, JniInvInit, JniInvNext, PTL DEF JniSpec

=============================================================================
