----------------------------- MODULE InputQueue -----------------------------
(***************************************************************************)
(* AInputQueue of lib/AFakeNative/AInput.cpp: a vector of pending events   *)
(* under mLock, and an eventfd (non-blocking, semaphore) that a looper     *)
(* watches to know that there is something to fetch.                       *)
(*                                                                         *)
(* The vector and the eventfd are guarded by different mutexes.  Writers   *)
(* and readers change both while they hold mLock, but whoever polls the    *)
(* eventfd takes only the eventfd's own mutex and sees every intermediate  *)
(* value.  So a call is several steps: take mLock and change the vector,   *)
(* one step per read or write of the eventfd, and the release of mLock.    *)
(*                                                                         *)
(* An event is a heap block: the producer allocates it                     *)
(* (AInputEvent_create), enqueueEvent passes it on, getEvent gives it to a *)
(* consumer and finishEvent frees it, after which the allocator may return *)
(* the same block again.                                                   *)
(***************************************************************************)
EXTENDS Sequences, EventFdValue

CONSTANTS
  Producers,   \* threads that create and enqueue events (controls_poll)
  Consumers,   \* threads that fetch and finish them (the game's app thread)
  Events,      \* heap blocks an event may occupy
  NoEvent,     \* the null pointer
  Nobody       \* mLock is free

ASSUME InputQueueAssumption ==
  /\ Producers \cap Consumers = {}
  /\ NoEvent \notin Events
  /\ Nobody \notin Producers \cup Consumers

VARIABLES
  mLock,       \* the thread that holds the queue's mutex
  pending,     \* mPendingEvents
  dispatch,    \* the eventfd behind mDispatchFd
  hand,        \* thread -> the event it owns
  pc           \* thread -> where it is

vars == <<mLock, pending, dispatch, hand, pc>>

Threads == Producers \cup Consumers

TypeOK ==
  /\ mLock \in Threads \cup {Nobody}
  /\ pending \in Seq(Events)
  /\ dispatch \in EventFdRecord
  /\ hand \in [Threads -> Events \cup {NoEvent}]
  /\ pc \in [Threads -> {"idle", "enqueue", "signal", "drain", "unlock", "handling"}]

\* AInputQueue_create
Init ==
  /\ mLock = Nobody
  /\ pending = <<>>
  /\ dispatch = NewEventFd(0, TRUE, TRUE)
  /\ hand = [t \in Threads |-> NoEvent]
  /\ pc = [t \in Threads |-> "idle"]

Goto(t, label) == pc' = [pc EXCEPT ![t] = label]

Allocated(e) ==
  \/ \E t \in Threads : hand[t] = e
  \/ \E i \in DOMAIN pending : pending[i] = e

\* AInputEvent_create: malloc returns a block that is not in use.
CreateEvent(p, e) ==
  /\ pc[p] = "idle"
  /\ ~Allocated(e)
  /\ hand' = [hand EXCEPT ![p] = e]
  /\ Goto(p, "enqueue")
  /\ UNCHANGED <<mLock, pending, dispatch>>

\* Mutant: the newest event goes first.
JoinFront(queue, e) == <<e>> \o queue

\* push_back, and the test "size() == 1" after it.
Join(queue, e) == Append(queue, e)
NeedsSignal(queue) == Len(queue) = 1

\* AInputQueue_enqueueEvent: lock, push_back, and decide on the wake-up by
\* the size the vector has now.
EnqueueEvent(p) ==
  /\ pc[p] = "enqueue"
  /\ mLock = Nobody
  /\ mLock' = p
  /\ pending' = Join(pending, hand[p])
  /\ hand' = [hand EXCEPT ![p] = NoEvent]
  /\ Goto(p, IF NeedsSignal(pending') THEN "signal" ELSE "unlock")
  /\ UNCHANGED dispatch

\* pseudo_write(mDispatchFd, 1); a full counter is EAGAIN, which is ignored.
Signal(p) ==
  /\ pc[p] = "signal"
  /\ dispatch' = IF HasRoomFor(dispatch, 1) THEN AfterWrite(dispatch, 1) ELSE dispatch
  /\ Goto(p, "unlock")
  /\ UNCHANGED <<mLock, pending, hand>>

UnlockProducer(p) ==
  /\ pc[p] = "unlock"
  /\ mLock' = Nobody
  /\ Goto(p, "idle")
  /\ UNCHANGED <<pending, dispatch, hand>>

\* Mutants: the event stays in the vector; the last one is not waited for.
RestAll(queue) == queue
DrainEarly(queue) == Len(queue) <= 1

\* erase(begin()), and the test "size() == 0" after it.
Rest(queue) == Tail(queue)
NeedsDrain(queue) == queue = <<>>

\* AInputQueue_getEvent: lock, take the first event if there is one, and go
\* on to empty the eventfd if the vector is empty now.
GetEvent(c) ==
  /\ pc[c] = "idle"
  /\ mLock = Nobody
  /\ mLock' = c
  /\ IF pending # <<>>
     THEN /\ hand' = [hand EXCEPT ![c] = Head(pending)]
          /\ pending' = Rest(pending)
     ELSE UNCHANGED <<hand, pending>>
  /\ Goto(c, IF NeedsDrain(pending') THEN "drain" ELSE "unlock")
  /\ UNCHANGED dispatch

\* One turn of "do ... while (nRead == 8)": the semaphore goes down by one
\* until the read says EAGAIN.
Drain(c) ==
  /\ pc[c] = "drain"
  /\ IF Readable(dispatch)
     THEN dispatch' = AfterRead(dispatch) /\ UNCHANGED pc
     ELSE Goto(c, "unlock") /\ UNCHANGED dispatch
  /\ UNCHANGED <<mLock, pending, hand>>

\* getEvent returns 0 with an event, or -EAGAIN without.
UnlockConsumer(c) ==
  /\ pc[c] = "unlock"
  /\ mLock' = Nobody
  /\ Goto(c, IF hand[c] = NoEvent THEN "idle" ELSE "handling")
  /\ UNCHANGED <<pending, dispatch, hand>>

\* AInputQueue_finishEvent frees the block.
FinishEvent(c) ==
  /\ pc[c] = "handling"
  /\ hand' = [hand EXCEPT ![c] = NoEvent]
  /\ Goto(c, "idle")
  /\ UNCHANGED <<mLock, pending, dispatch>>

ProducerStep(p) == EnqueueEvent(p) \/ Signal(p) \/ UnlockProducer(p)
ConsumerStep(c) == Drain(c) \/ UnlockConsumer(c) \/ FinishEvent(c)

Next ==
  \/ \E p \in Producers : ProducerStep(p) \/ \E e \in Events : CreateEvent(p, e)
  \/ \E c \in Consumers : ConsumerStep(c) \/ GetEvent(c)

Spec == Init /\ [][Next]_vars

-----------------------------------------------------------------------------
(* Properties *)

\* Whenever mLock is free, the eventfd is readable exactly when an event is
\* pending: no event waits unseen (a wake-up lost between push_back and the
\* write, or drained by a getEvent that raced an enqueue) and no looper is
\* woken for nothing.  The semaphore never holds more than one token, however
\* many events are queued, so the non-blocking write in enqueueEvent can never
\* be refused.
ReadableIffPending ==
  /\ mLock = Nobody => (Readable(dispatch) <=> pending # <<>>)
  /\ dispatch.value <= 1

\* Every event block has one owner: it is in one thread's hand or in one
\* place of the vector, so no event is delivered twice or freed while queued.
SingleOwner ==
  /\ \A t, u \in Threads : hand[t] = hand[u] /\ hand[t] # NoEvent => t = u
  /\ \A i, j \in DOMAIN pending : pending[i] = pending[j] => i = j
  /\ \A t \in Threads, i \in DOMAIN pending : hand[t] # pending[i]

\* The queue as its users see it.  An event pushed onto an empty vector
\* joins the abstract queue when the eventfd is written, and the last event
\* leaves it when the eventfd has been emptied; in between the holder of
\* mLock has it "in transit".
InTransit(c) == pc[c] = "drain" /\ Readable(dispatch)

VisibleQueue ==
  IF \E p \in Producers : pc[p] = "signal" THEN <<>>
  ELSE IF \E c \in Consumers : InTransit(c)
       THEN <<hand[CHOOSE c \in Consumers : InTransit(c)]>>
       ELSE pending

VisibleHeld ==
  [c \in Consumers |-> IF InTransit(c) THEN NoEvent ELSE hand[c]]

Abstract == INSTANCE NotifyQueue WITH
  queue <- VisibleQueue, ready <- Readable(dispatch), held <- VisibleHeld

\* The lock-protected vector and the eventfd together behave as one queue
\* whose readiness flag changes at the same instant as its contents.
ImplementsNotifyQueue == Abstract!Spec
=============================================================================
