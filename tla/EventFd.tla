------------------------------ MODULE EventFd ------------------------------
(***************************************************************************)
(* The pool of emulated eventfds, lib/AFakeNative/polling/                 *)
(* pseudo_eventfd.cpp.  Every call runs under the pool mutex and then the  *)
(* mutex of the descriptor, so a call that does not wait is one step.  A   *)
(* blocking read of zero (or a blocking write without room) drops both     *)
(* mutexes, sleeps and looks again: other threads run in between, and the  *)
(* retry is a step of its own.  There is no close: a slot is taken for     *)
(* good.                                                                   *)
(*                                                                         *)
(* "written" and "taken" are history: what the writers have put in         *)
(* (with the initial value) and what the readers have been handed.         *)
(***************************************************************************)
EXTENDS EventFdValue, FiniteSets

CONSTANTS
  Threads,     \* the threads that use the descriptors
  PoolSize,    \* EVENTFD_MAX
  InitVals,    \* initial values the callers pass
  WriteVals,   \* counts the callers write
  Budget       \* bound: no write is issued that would take a descriptor's
               \* written total past this

ASSUME EventFdAssumption ==
  /\ PoolSize \in Nat \ {0}
  /\ InitVals \subseteq 0 .. MaxValue
  /\ WriteVals \subseteq Nat \ {0}
  /\ Budget \in Nat

VARIABLES pool,      \* slot -> the eventfd in it, for the slots in use
          waiting,   \* thread -> the call it waits in
          got,       \* thread -> the count its last read returned
          written,   \* history: slot -> total put in
          taken      \* history: slot -> total handed out

vars == <<pool, waiting, got, written, taken>>

Slots == 1 .. PoolSize
Used == DOMAIN pool
NotWaiting == [op |-> "none", fd |-> 0, val |-> 0]
Calls == [op: {"none", "read", "write"}, fd: 0 .. PoolSize, val: {0} \cup WriteVals]

TypeOK ==
  /\ Used \subseteq Slots
  /\ pool \in [Used -> EventFdRecord]
  /\ waiting \in [Threads -> Calls]
  /\ got \in [Threads -> Nat]
  /\ written \in [Slots -> Nat]
  /\ taken \in [Slots -> Nat]

Init ==
  /\ pool = [s \in {} |-> NewEventFd(0, FALSE, FALSE)]
  /\ waiting = [t \in Threads |-> NotWaiting]
  /\ got = [t \in Threads |-> 1]
  /\ written = [s \in Slots |-> 0]
  /\ taken = [s \in Slots |-> 0]

\* pseudo_eventfd(): the first slot that is free; a full pool is EMFILE and
\* changes nothing.
Create(t, initval, nonblock, semaphore) ==
  /\ waiting[t] = NotWaiting
  /\ \E s \in Slots \ Used :
       /\ \A r \in Slots \ Used : s <= r
       /\ pool' = [r \in Used \cup {s} |->
                     IF r = s THEN NewEventFd(initval, nonblock, semaphore)
                     ELSE pool[r]]
       /\ written' = [written EXCEPT ![s] = initval]
  /\ UNCHANGED <<waiting, got, taken>>

\* The tail of pseudo_eventfd_read, once the counter is not zero.
TakeFrom(t, fd) ==
  /\ pool' = [pool EXCEPT ![fd] = AfterRead(@)]
  /\ got' = [got EXCEPT ![t] = ReadCount(pool[fd])]
  /\ taken' = [taken EXCEPT ![fd] = @ + ReadCount(pool[fd])]
  /\ UNCHANGED written

\* pseudo_eventfd_read: a zero counter is EAGAIN on a non-blocking
\* descriptor (nothing changes) and a wait on a blocking one.
Read(t, fd) ==
  /\ waiting[t] = NotWaiting
  /\ Readable(pool[fd])
  /\ TakeFrom(t, fd)
  /\ UNCHANGED waiting

ReadBlocks(t, fd) ==
  /\ waiting[t] = NotWaiting
  /\ ~Readable(pool[fd])
  /\ ~pool[fd].nonblock
  /\ waiting' = [waiting EXCEPT ![t] = [op |-> "read", fd |-> fd, val |-> 0]]
  /\ UNCHANGED <<pool, got, written, taken>>

\* One turn of the waiting loop that finds the counter non-zero.
ReadRetry(t) ==
  /\ waiting[t].op = "read"
  /\ Readable(pool[waiting[t].fd])
  /\ TakeFrom(t, waiting[t].fd)
  /\ waiting' = [waiting EXCEPT ![t] = NotWaiting]

PutInto(fd, val) ==
  /\ pool' = [pool EXCEPT ![fd] = AfterWrite(@, val)]
  /\ written' = [written EXCEPT ![fd] = @ + val]
  /\ UNCHANGED <<got, taken>>

\* pseudo_eventfd_write; Budget bounds the model, not the code.
Write(t, fd, val) ==
  /\ waiting[t] = NotWaiting
  /\ written[fd] + val <= Budget
  /\ HasRoomFor(pool[fd], val)
  /\ PutInto(fd, val)
  /\ UNCHANGED waiting

WriteBlocks(t, fd, val) ==
  /\ waiting[t] = NotWaiting
  /\ written[fd] + val <= Budget
  /\ ~HasRoomFor(pool[fd], val)
  /\ ~pool[fd].nonblock
  /\ waiting' = [waiting EXCEPT ![t] = [op |-> "write", fd |-> fd, val |-> val]]
  /\ UNCHANGED <<pool, got, written, taken>>

\* Mutant: a count that fits exactly goes on waiting.
WriteRetryStrict(t) ==
  /\ waiting[t].op = "write"
  /\ waiting[t].val < MaxValue - pool[waiting[t].fd].value
  /\ PutInto(waiting[t].fd, waiting[t].val)
  /\ waiting' = [waiting EXCEPT ![t] = NotWaiting]

WriteRetry(t) ==
  /\ waiting[t].op = "write"
  /\ HasRoomFor(pool[waiting[t].fd], waiting[t].val)
  /\ PutInto(waiting[t].fd, waiting[t].val)
  /\ waiting' = [waiting EXCEPT ![t] = NotWaiting]

Next ==
  \E t \in Threads :
    \/ \E v \in InitVals, n \in BOOLEAN, s \in BOOLEAN : Create(t, v, n, s)
    \/ \E fd \in Used : Read(t, fd) \/ ReadBlocks(t, fd)
    \/ \E fd \in Used, v \in WriteVals : Write(t, fd, v) \/ WriteBlocks(t, fd, v)
    \/ ReadRetry(t)
    \/ WriteRetry(t)

\* A waiting thread sleeps 10 ms and looks again for ever, so a retry that
\* stays possible is taken; nothing makes a caller issue a new call.
Fairness == \A t \in Threads : WF_vars(ReadRetry(t)) /\ WF_vars(WriteRetry(t))

Spec == Init /\ [][Next]_vars /\ Fairness

-----------------------------------------------------------------------------
(* Properties *)

\* No count is lost or invented: at every moment what was written to a
\* descriptor is what its readers were handed plus what is still in it,
\* whichever mix of semaphore and plain reads, waits and retries ran; and a
\* reader that waited and lost the race for the counter is not handed zero.
CountsConserved ==
  /\ \A fd \in Used : written[fd] = taken[fd] + pool[fd].value
  /\ \A t \in Threads : got[t] >= 1

\* A thread waits only for as long as its descriptor makes it: a waiting
\* reader whose counter stays positive returns, and so does a waiting
\* writer for whom there stays room.
WaiterReturns ==
  \A t \in Threads :
    /\ (waiting[t].op = "read" /\ Readable(pool[waiting[t].fd]))
         ~> (waiting[t].op # "read" \/ ~Readable(pool[waiting[t].fd]))
    /\ (waiting[t].op = "write" /\ HasRoomFor(pool[waiting[t].fd], waiting[t].val))
         ~> (waiting[t].op # "write" \/ ~HasRoomFor(pool[waiting[t].fd], waiting[t].val))
=============================================================================
