------------------------------- MODULE MCPthr -------------------------------
(* Two threads, a mutex that is statically recursive, and a condition, in  *)
(* a registry with room for both, one or none of them.                     *)
EXTENDS Pthr, TLC

CONSTANTS t1, t2, mutex, cond, b1, b2, b3

MCThreads == {t1, t2}
MCBlocks == {b1, b2, b3}
MCMutexes == {mutex}
MCConds == {cond}
MCStatic == [o \in Objects |-> IF o = mutex THEN "recursive" ELSE "normal"]

\* Neither threads nor blocks are told apart, and only safety is checked.
Symmetric == Permutations(MCThreads) \cup Permutations(MCBlocks)
=============================================================================
