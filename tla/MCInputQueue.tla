---------------------------- MODULE MCInputQueue ----------------------------
(* Two input threads, two threads that fetch, four event blocks. *)
EXTENDS InputQueue

CONSTANTS p1, p2, c1, c2, e1, e2, e3, e4

MCProducers == {p1, p2}
MCConsumers == {c1, c2}
MCEvents == {e1, e2, e3, e4}
=============================================================================
