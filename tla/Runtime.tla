------------------------------ MODULE Runtime ------------------------------
(***************************************************************************)
(* Parts of the running port that share nothing with each other.  Each is  *)
(* a module with its own variables; a behaviour is one of one part, so     *)
(* that the states of the parts add up instead of multiplying.             *)
(***************************************************************************)
EXTENDS Imports, Files, Threads, ShaderPatch, Frames, FdPools, Formatter, Errno

VARIABLE part

vars == <<part, importVars, filesVars, threadsVars, shaderVars, frameVars, poolVars, formatVars,
          errnoVars>>

Init ==
  /\ part \in {"imports", "files", "semaphores", "threads", "shader", "frames", "pools",
               "formatter", "errors"}
  /\ ImportsInit /\ FilesInit /\ ThreadsInit /\ ShaderInit /\ FramesInit /\ ErrnoInit
  /\ PoolsInit /\ (part # "pools" => kind = "epoll")
  /\ FormatterInit /\ (part # "formatter" => format = <<>>)

Next ==
  /\ UNCHANGED part
  /\ \/ /\ part = "imports" /\ ImportsNext
        /\ UNCHANGED <<filesVars, threadsVars, shaderVars, frameVars, poolVars, formatVars, errnoVars>>
     \/ /\ part = "files" /\ FilesNext
        /\ UNCHANGED <<importVars, threadsVars, shaderVars, frameVars, poolVars, formatVars, errnoVars>>
     \/ /\ part = "semaphores" /\ SemaphoresNext
        /\ UNCHANGED <<importVars, filesVars, shaderVars, frameVars, poolVars, formatVars, errnoVars>>
     \/ /\ part = "threads" /\ ThreadsNext
        /\ UNCHANGED <<importVars, filesVars, shaderVars, frameVars, poolVars, formatVars, errnoVars>>
     \/ /\ part = "shader" /\ ShaderNext
        /\ UNCHANGED <<importVars, filesVars, threadsVars, frameVars, poolVars, formatVars, errnoVars>>
     \/ /\ part = "frames" /\ FramesNext
        /\ UNCHANGED <<importVars, filesVars, threadsVars, shaderVars, poolVars, formatVars, errnoVars>>
     \/ /\ part = "pools" /\ PoolsNext
        /\ UNCHANGED <<importVars, filesVars, threadsVars, shaderVars, frameVars, formatVars, errnoVars>>
     \/ /\ part = "formatter" /\ FormatterNext
        /\ UNCHANGED <<importVars, filesVars, threadsVars, shaderVars, frameVars, poolVars, errnoVars>>
     \/ /\ part = "errors" /\ ErrnoNext
        /\ UNCHANGED <<importVars, filesVars, threadsVars, shaderVars, frameVars, poolVars, formatVars>>

Spec == Init /\ [][Next]_vars
=============================================================================
