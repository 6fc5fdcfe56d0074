---------------------------- MODULE ShaderPatch ----------------------------
(***************************************************************************)
(* patch_flat_shader (patches/shader_patch.h) with the files it writes     *)
(* (utils/utils.c): on the first start the shader is copied to a backup    *)
(* and replaced by one with two insertions; the backup is what tells later *)
(* starts that this has been done.  A file is saved by opening it, which   *)
(* empties it, and writing it; the program can be killed at any point.     *)
(* The card is assumed not to run full: short writes go unnoticed.         *)
(***************************************************************************)
EXTENDS Naturals

CONSTANT MaxStarts      \* bound: how often the program is started

ASSUME StartsAssumption == MaxStarts \in Nat

VARIABLES
  shader,       \* what flat.xvu contains
  backup,       \* what flat.xvu.backup contains
  data,         \* what patch_flat_shader has read
  copied,       \* what file_copy has read
  patchPc,      \* where the program is; "off" when it does not run
  starts

shaderVars == <<shader, backup, data, copied, patchPc, starts>>

Contents == {"missing", "empty", "original", "patched", "patched_twice"}
ShaderTypeOK ==
  /\ {shader, backup, data, copied} \subseteq Contents
  /\ patchPc \in {"off", "check", "copy", "fill_backup", "open", "fill_shader", "done"}
  /\ starts \in 0 .. MaxStarts

ShaderInit ==
  /\ shader = "missing" /\ backup = "missing"
  /\ data = "missing" /\ copied = "missing"
  /\ patchPc = "off" /\ starts = 0

\* The player installs the game's files.
InstallShader ==
  /\ patchPc = "off" /\ shader = "missing"
  /\ shader' = "original"
  /\ UNCHANGED <<backup, data, copied, patchPc, starts>>

StartProgram ==
  /\ patchPc = "off" /\ starts < MaxStarts
  /\ starts' = starts + 1
  /\ patchPc' = "check"
  /\ UNCHANGED <<shader, backup, data, copied>>

Exists(content) == content # "missing"

\* file_load: what is read, or "missing" when there is nothing, it cannot be
\* opened or there is no memory for it.
Loaded(content) == {"missing"} \cup (IF content = "empty" THEN {} ELSE {content})

\* Mutant: the backup is not looked for.
PatchAnyway(content) == Exists(shader)

ToBePatched(content) == ~Exists(content) /\ Exists(shader)

LoadShader ==
  /\ patchPc = "check"
  /\ IF ToBePatched(backup)
     THEN /\ data' \in Loaded(shader)
          /\ patchPc' = IF Exists(data') THEN "copy" ELSE "done"
     ELSE patchPc' = "done" /\ UNCHANGED data
  /\ UNCHANGED <<shader, backup, copied, starts>>

\* file_copy reads the shader again; any of its steps may fail, also the
\* making of the directories and the opening of the backup.
OpenBackup ==
  /\ patchPc = "copy"
  /\ copied' \in Loaded(shader)
  /\ \/ Exists(copied') /\ backup' = "empty" /\ patchPc' = "fill_backup"
     \/ patchPc' = "done" /\ UNCHANGED backup
  /\ UNCHANGED <<shader, data, starts>>

FillBackup ==
  /\ patchPc = "fill_backup"
  /\ backup' = copied
  /\ patchPc' = "open"
  /\ UNCHANGED <<shader, data, copied, starts>>

\* Both insertions in memory, then file_save.
OpenShader ==
  /\ patchPc = "open"
  /\ \/ shader' = "empty" /\ patchPc' = "fill_shader"
     \/ patchPc' = "done" /\ UNCHANGED shader
  /\ UNCHANGED <<backup, data, copied, starts>>

\* Where the anchors are not found nothing is inserted.
Inserted(content) ==
  {content, IF content = "original" THEN "patched" ELSE "patched_twice"}

FillShader ==
  /\ patchPc = "fill_shader"
  /\ shader' \in Inserted(data)
  /\ patchPc' = "done"
  /\ UNCHANGED <<backup, data, copied, starts>>

\* The program ends, or is killed.
Stop ==
  /\ patchPc # "off"
  /\ patchPc' = "off" /\ data' = "missing" /\ copied' = "missing"
  /\ UNCHANGED <<shader, backup, starts>>

ShaderNext ==
  \/ InstallShader \/ StartProgram \/ LoadShader \/ OpenBackup \/ FillBackup
  \/ OpenShader \/ FillShader \/ Stop


\* Wherever the program was killed, and however often it was started again:
\* the original is there, in its place or as the backup, and the insertions
\* are never made twice.
ShaderKept ==
  /\ Exists(shader) => "original" \in {shader, backup}
  /\ shader # "patched_twice"
=============================================================================
