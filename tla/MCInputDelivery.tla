-------------------------- MODULE MCInputDelivery --------------------------
(* One input thread, three event blocks, one looper. *)
EXTENDS InputDelivery

CONSTANTS p1, e1, e2, e3

MCProducers == {p1}
MCEvents == {e1, e2, e3}
MCEpollFds == {3, 4}
MCTimeouts == {0, -1}
=============================================================================
