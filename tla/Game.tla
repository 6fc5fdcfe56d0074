--------------------------------- MODULE Game ---------------------------------
(***************************************************************************)
(* The loader of the libraries, the hooks that so_patch installs in them   *)
(* and the game that runs through these hooks while it loads a world.      *)
(***************************************************************************)
EXTENDS SoLoad, World

gameVars == <<loadVars, hookVars, worldVars>>

GameInit == Init /\ HookInit /\ WorldInit

\* android_main starts when the libraries are loaded.
Play ==
  /\ At("running") /\ called = Null
  /\ PlayWorld
  /\ UNCHANGED loadVars

\* A world does not change what an import holds: only calls that are made
\* before the first world is loaded are looked at.
CallImport == Run /\ ~world.allocated /\ stack[Screen] = <<>> /\ stack[Loader] = <<>>

GameNext ==
  \/ (Boot \/ CallImport) /\ UNCHANGED worldVars
  \/ Play

GameSpec == GameInit /\ [][GameNext]_gameVars

-----------------------------------------------------------------------------
(* Properties *)

PatchIsBack ==
  \A f \in Hooked : instr[f] # Patch =>
    \/ stage.step # "running"
    \/ \E t \in HookThreads : \E i \in DOMAIN stack[t] : stack[t][i].of = f

\* Every call of a hooked function goes through its hook exactly once, with the
\* loader and the screen inside hooks at the same time and hooks inside the
\* functions that hooks continue into (SO_CONTINUE); and while the program runs
\* the patch of a function is in place whenever no thread is in its hook.
HooksHold == HookedOnce /\ PatchIsBack
===============================================================================
