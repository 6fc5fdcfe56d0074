---------------------------- MODULE PseudoEpoll ----------------------------
(***************************************************************************)
(* The interest list of one emulated epoll instance (PseudoEpoll.cpp) and  *)
(* what pseudo_epoll_ctl and the loop of pseudo_epoll_wait compute on it.  *)
(* An interest list maps a descriptor to the user data registered for it   *)
(* (the looper's sequence number) and the event mask.  The loop visits the *)
(* descriptors in the order of the std::map, that is by number.            *)
(***************************************************************************)
EXTENDS Integers

CONSTANTS
  EpollFd,     \* the number of this instance
  EpollFds     \* the range of numbers epoll instances have

Masks == SUBSET {"in", "out"}

\* std::map and std::unordered_map: emplace leaves a key that is there alone.
Emplace(map, key, val) ==
  IF key \in DOMAIN map THEN map
  ELSE [k \in DOMAIN map \cup {key} |-> IF k = key THEN val ELSE map[k]]

Without(map, key) == [k \in DOMAIN map \ {key} |-> map[k]]

\* What pseudo_epoll_ctl answers, in the order of its checks.  The test for
\* EPOLLEXCLUSIVE looks up the entry of the epoll instance itself, which no
\* interest list has: std::map::at throws, and nothing catches it.
CtlAnswer(interest, op, fd) ==
  IF fd < 0 THEN "EBADF"
  ELSE IF fd = EpollFd THEN "EINVAL"
  ELSE IF op = "ADD" /\ fd \in DOMAIN interest THEN "EEXIST"
  ELSE IF op # "ADD" /\ fd \notin DOMAIN interest THEN "ENOENT"
  ELSE IF op = "MOD" /\ EpollFd \notin DOMAIN interest THEN "throws"
  ELSE IF fd \in EpollFds THEN "ELOOP"
  ELSE "ok"

\* The interest list after a call that was answered "ok".  ADD and MOD share
\* one emplace.
AfterCtl(interest, op, fd, item) ==
  IF op = "DEL" THEN Without(interest, fd) ELSE Emplace(interest, fd, item)

\* The loop of pseudo_epoll_wait: the entry that comes after cursor, and
\* what an entry reports when its descriptor is ready for "ready".
After(interest, cursor) == {fd \in DOMAIN interest : fd > cursor}
IsNext(interest, cursor, fd) ==
  fd \in After(interest, cursor) /\ \A g \in After(interest, cursor) : fd <= g

\* Mutant: one event is not enough to end an unlimited wait.
WaitEndsLate(timeout, n, maxevents, elapsed) ==
  \/ timeout = 0
  \/ n >= maxevents
  \/ timeout = -1 /\ n > 1
  \/ timeout > 0 /\ elapsed

\* Whether the loop ends after a pass with n events in the buffer.  elapsed
\* is the test "now - time_started > timeout", an unsigned comparison that no
\* negative timeout ever passes.
WaitEnds(timeout, n, maxevents, elapsed) ==
  \/ timeout = 0
  \/ n >= maxevents
  \/ timeout = -1 /\ n > 0
  \/ timeout > 0 /\ elapsed
=============================================================================
