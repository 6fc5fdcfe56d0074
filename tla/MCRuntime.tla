----------------------------- MODULE MCRuntime ------------------------------
(* A resource that is in the list and in the archive, and one that is in   *)
(* the archive only; every format of up to three items; success, ENOSYS,   *)
(* EOPNOTSUPP, ENOTSOCK and ENOTSUP, the last of which has in bionic the   *)
(* number of EOPNOTSUPP.                                                   *)
EXTENDS Runtime, TLC

MCResources == {"world.lmp", "unlisted.lmp"}
MCListed == {"world.lmp"}
MCArchived == {"world.lmp", "unlisted.lmp"}

MCItems ==
  [is: {"character", "percent", "c", "unknown"}, length: {1}]
    \cup [is: {"d", "s"}, length: 0 .. 2] \cup [is: {"f"}, length: {2}]
MCFormats == UNION {[1 .. n -> MCItems] : n \in 0 .. 3}

MCTranslation ==
  LET Entry(newlib, bionic) == [newlib |-> newlib, bionic |-> bionic]
  IN  <<Entry(0, 0), Entry(88, 38), Entry(95, 95), Entry(108, 88), Entry(134, 95)>>

MCSymmetry ==
  Permutations(Slots) \cup Permutations(Waiters) \cup Permutations(Threads)
=============================================================================
