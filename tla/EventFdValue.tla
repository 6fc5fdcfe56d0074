--------------------------- MODULE EventFdValue ---------------------------
(***************************************************************************)
(* The counter behind one emulated eventfd, as polling/pseudo_eventfd.cpp  *)
(* keeps it: a 64-bit value that is never larger than MaxValue, and the    *)
(* two flags that change what read() and write() do.  Every operator is    *)
(* what one critical section of the code computes; the modules that own an *)
(* eventfd (EventFd, InputQueue, Looper) decide when it runs.              *)
(***************************************************************************)
EXTENDS Integers

CONSTANT MaxValue    \* 0xfffffffffffffffe in the code

ASSUME MaxValueAssumption == MaxValue \in Nat \ {0}

EventFdRecord == [value: 0 .. MaxValue, nonblock: BOOLEAN, semaphore: BOOLEAN]

NewEventFd(initval, nonblock, semaphore) ==
  [value |-> initval, nonblock |-> nonblock, semaphore |-> semaphore]

\* What pseudo_eventfd_status reports to epoll.
Readable(efd)  == efd.value > 0
Writeable(efd) == efd.value < MaxValue

\* Mutant: a semaphore read reports the whole counter.
ReadCountAll(efd) == efd.value

\* A read of a non-zero counter: what it hands out and what it leaves.
ReadCount(efd) == IF efd.semaphore THEN 1 ELSE efd.value
AfterRead(efd) == [efd EXCEPT !.value = IF efd.semaphore THEN @ - 1 ELSE 0]

\* A write of val is refused (or waits) while it would pass MaxValue.
HasRoomFor(efd, val) == val <= MaxValue - efd.value
AfterWrite(efd, val) == [efd EXCEPT !.value = @ + val]
=============================================================================
