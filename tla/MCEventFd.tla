----------------------------- MODULE MCEventFd -----------------------------
(* A small pool: two descriptors, two threads, and a counter that fills up. *)
EXTENDS EventFd

CONSTANTS t1, t2

MCThreads == {t1, t2}
MCInitVals == {0, 2}
MCWriteVals == {1, 2}
=============================================================================
