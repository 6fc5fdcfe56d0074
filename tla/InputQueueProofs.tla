-------------------------- MODULE InputQueueProofs --------------------------
(***************************************************************************)
(* For any number of producers, consumers and event blocks: the readiness  *)
(* invariant of the input queue, the single ownership of its events, and   *)
(* the refinement of NotifyQueue.                                          *)
(*                                                                         *)
(* ReadableIffPending says nothing while mLock is held, so it is not       *)
(* inductive.  IInv adds who is inside the critical section, what the      *)
(* holder still owes to the eventfd (Tokens) and what each thread carries  *)
(* (Hands).                                                                *)
(***************************************************************************)
EXTENDS InputQueue, SequenceTheorems, TLAPS

\* The labels at which a thread is inside the critical section of mLock.
LockHeld ==
  \A t \in Threads : mLock = t <=> pc[t] \in {"signal", "drain", "unlock"}

Roles ==
  /\ \A p \in Producers : pc[p] \notin {"drain", "handling"}
  /\ \A c \in Consumers : pc[c] \notin {"enqueue", "signal"}

Hands ==
  /\ \A p \in Producers : hand[p] # NoEvent <=> pc[p] = "enqueue"
  /\ \A c \in Consumers : /\ pc[c] = "idle" => hand[c] = NoEvent
                          /\ pc[c] = "handling" => hand[c] # NoEvent

\* What the eventfd holds: one token iff an event is pending, except that a
\* signaller has yet to add it and a drainer has yet to take it.
Tokens ==
  /\ dispatch.semaphore
  /\ \A t \in Threads : pc[t] = "signal" => Len(pending) = 1 /\ dispatch.value = 0
  /\ \A t \in Threads : pc[t] = "drain" =>
       /\ pending = <<>>
       /\ dispatch.value = 0 \/ (dispatch.value = 1 /\ hand[t] # NoEvent)
  /\ (\A t \in Threads : pc[t] \notin {"signal", "drain"})
       => dispatch.value = IF pending = <<>> THEN 0 ELSE 1

IInv == TypeOK /\ LockHeld /\ Roles /\ Hands /\ Tokens /\ SingleOwner

-----------------------------------------------------------------------------
(* The inductive invariant *)

\* A number that is neither 0 nor 1.
LEMMA MoreThanOne == ASSUME NEW n \in Nat, n # 0, n # 1 PROVE n > 1
  OBVIOUS


LEMMA InitIInv == Init => IInv
BY InputQueueAssumption, MaxValueAssumption
   DEF Init, IInv, TypeOK, LockHeld, Roles, Hands, Tokens, SingleOwner, Threads,
       EventFdRecord, NewEventFd

\* A producer that allocates a block nobody has keeps the invariant.
LEMMA CreateEventStep ==
  ASSUME IInv, NEW p \in Producers, NEW e \in Events, CreateEvent(p, e)
  PROVE  IInv'
<1> USE InputQueueAssumption DEF IInv, CreateEvent, Goto, Threads
<1>1. TypeOK'
  BY DEF TypeOK
<1>2. LockHeld' /\ Roles' /\ Hands'
  BY DEF LockHeld, Roles, Hands, TypeOK
<1>3. Tokens'
  BY DEF Tokens, TypeOK, Roles
<1>4. SingleOwner'
  BY DEF SingleOwner, TypeOK, Allocated
<1>5. QED
  BY <1>1, <1>2, <1>3, <1>4

LEMMA EnqueueEventStep ==
  ASSUME IInv, NEW p \in Producers, EnqueueEvent(p)
  PROVE  IInv'
<1> USE InputQueueAssumption DEF IInv, EnqueueEvent, Join, NeedsSignal, Goto, Threads
<1>1. hand[p] \in Events
  BY DEF Hands, TypeOK
<1>2. /\ pending' \in Seq(Events)
      /\ Len(pending') = Len(pending) + 1
      /\ \A i \in DOMAIN pending : pending'[i] = pending[i]
      /\ pending'[Len(pending) + 1] = hand[p]
      /\ DOMAIN pending' = DOMAIN pending \cup {Len(pending) + 1}
  BY <1>1 DEF TypeOK
<1>3. TypeOK'
  BY <1>2 DEF TypeOK
<1>4. LockHeld' /\ Roles' /\ Hands'
  BY DEF LockHeld, Roles, Hands, TypeOK
<1>5. \A t \in Threads : pc[t] \notin {"signal", "drain", "unlock"}
  BY DEF LockHeld
<1>6. dispatch.value = IF pending = <<>> THEN 0 ELSE 1
  BY <1>5 DEF Tokens
<1>7. (pending = <<>> <=> Len(pending) = 0) /\ Len(pending) \in Nat
  BY DEF TypeOK
<1>8. Tokens'
  BY <1>2, <1>5, <1>6, <1>7 DEF Tokens, TypeOK
<1>9. SingleOwner'
  BY <1>1, <1>2 DEF SingleOwner, TypeOK
<1>10. QED
  BY <1>3, <1>4, <1>8, <1>9

LEMMA SignalStep ==
  ASSUME IInv, NEW p \in Producers, Signal(p)
  PROVE  IInv'
<1> USE InputQueueAssumption, MaxValueAssumption DEF IInv, Signal, Goto, Threads
<1>1. dispatch.value = 0 /\ Len(pending) = 1 /\ pending # <<>>
  <2>1. dispatch.value = 0 /\ Len(pending) = 1
    BY DEF Tokens
  <2>2. pending # <<>>
    BY <2>1
  <2>3. QED
    BY <2>1, <2>2
<1>2. dispatch' \in EventFdRecord /\ dispatch'.value = 1 /\ dispatch'.semaphore
  BY <1>1 DEF HasRoomFor, AfterWrite, TypeOK, EventFdRecord, Tokens
<1>3. TypeOK'
  BY <1>2 DEF TypeOK
<1>4. LockHeld' /\ Roles' /\ Hands'
  BY DEF LockHeld, Roles, Hands, TypeOK
<1>5. \A t \in Threads : t # p => pc[t] \notin {"signal", "drain", "unlock"}
  BY DEF LockHeld
<1>6. Tokens'
  BY <1>1, <1>2, <1>5 DEF Tokens, TypeOK
<1>7. SingleOwner'
  BY DEF SingleOwner
<1>8. QED
  BY <1>3, <1>4, <1>6, <1>7

\* Leaving the critical section, as a producer or as a consumer.
LEMMA UnlockStep ==
  ASSUME IInv,
         \/ \E p \in Producers : UnlockProducer(p)
         \/ \E c \in Consumers : UnlockConsumer(c)
  PROVE  IInv'
<1> USE InputQueueAssumption DEF IInv, UnlockProducer, UnlockConsumer, Goto, Threads
<1>1. TypeOK'
  BY DEF TypeOK
<1>2. LockHeld' /\ Roles'
  BY DEF LockHeld, Roles, TypeOK
<1>3. Hands'
  BY DEF Hands, TypeOK
<1>4. Tokens'
  BY DEF Tokens, TypeOK, LockHeld
<1>5. SingleOwner'
  BY DEF SingleOwner
<1>6. QED
  BY <1>1, <1>2, <1>3, <1>4, <1>5

LEMMA GetEventStep ==
  ASSUME IInv, NEW c \in Consumers, GetEvent(c)
  PROVE  IInv'
<1> USE InputQueueAssumption DEF IInv, GetEvent, Rest, NeedsDrain, Goto, Threads
<1>1. /\ \A t \in Threads : pc[t] \notin {"signal", "drain", "unlock"}
      /\ hand[c] = NoEvent
      /\ dispatch.value = IF pending = <<>> THEN 0 ELSE 1
  BY DEF LockHeld, Hands, Tokens
<1>2. CASE pending = <<>>
  <2>1. TypeOK' /\ LockHeld' /\ Roles' /\ Hands' /\ SingleOwner'
    BY <1>1, <1>2 DEF TypeOK, LockHeld, Roles, Hands, SingleOwner
  <2>2. Tokens'
    BY <1>1, <1>2 DEF Tokens, TypeOK
  <2>3. QED
    BY <2>1, <2>2
<1>3. CASE pending # <<>>
  <2>1. /\ pending' \in Seq(Events)
        /\ hand'[c] = pending[1] /\ pending[1] \in Events
        /\ DOMAIN pending' = 1 .. Len(pending) - 1
        /\ \A i \in DOMAIN pending' : pending'[i] = pending[i + 1]
        /\ DOMAIN pending = 1 .. Len(pending) /\ Len(pending) \in Nat \ {0}
    <3>1. pending \in Seq(Events) /\ c \in DOMAIN hand
      BY DEF TypeOK
    <3>2. /\ Head(pending) = pending[1] /\ pending[1] \in Events
          /\ DOMAIN pending = 1 .. Len(pending) /\ Len(pending) \in Nat \ {0}
      BY <1>3, <3>1, EmptySeq
    <3>3. /\ Tail(pending) \in Seq(Events) /\ Len(Tail(pending)) = Len(pending) - 1
          /\ \A i \in 1 .. Len(Tail(pending)) : Tail(pending)[i] = pending[i + 1]
      BY <1>3, <3>1, HeadTailProperties
    <3>4. pending' = Tail(pending) /\ hand' = [hand EXCEPT ![c] = Head(pending)]
      BY <1>3
    <3>5. DOMAIN Tail(pending) = 1 .. Len(Tail(pending))
      BY <3>3
    <3>6. QED
      BY <3>1, <3>2, <3>3, <3>4, <3>5
  <2>2. TypeOK'
    BY <1>3, <2>1 DEF TypeOK
  <2>3. LockHeld' /\ Roles'
    BY <1>3 DEF TypeOK, LockHeld, Roles
  <2>4. Hands'
    BY <1>3, <2>1 DEF TypeOK, Hands
  <2>5. Tokens'
    BY <1>1, <1>3, <2>1 DEF Tokens, TypeOK
  <2>6. SingleOwner'
    <3>1. \A t \in Threads \ {c} : hand'[t] = hand[t] /\ hand[t] # pending[1]
      BY <1>3, <2>1 DEF SingleOwner, TypeOK
    <3>2. \A i \in DOMAIN pending' : pending'[i] # pending[1]
      BY <2>1 DEF SingleOwner
    <3>3. \A i, j \in DOMAIN pending' : pending'[i] = pending'[j] => i = j
      BY <2>1 DEF SingleOwner
    <3>4. \A t \in Threads, i \in DOMAIN pending' : hand'[t] # pending'[i]
      BY <2>1, <3>1, <3>2 DEF SingleOwner
    <3>5. \A t, u \in Threads : hand'[t] = hand'[u] /\ hand'[t] # NoEvent => t = u
      BY <2>1, <3>1 DEF SingleOwner
    <3>6. QED
      BY <3>3, <3>4, <3>5 DEF SingleOwner
  <2>7. QED
    BY <2>2, <2>3, <2>4, <2>5, <2>6
<1>4. QED
  BY <1>2, <1>3

LEMMA DrainStep ==
  ASSUME IInv, NEW c \in Consumers, Drain(c)
  PROVE  IInv'
<1> USE InputQueueAssumption, MaxValueAssumption DEF IInv, Drain, Goto, Threads
<1>1. \A t \in Threads : t # c => pc[t] \notin {"signal", "drain", "unlock"}
  BY DEF LockHeld
<1>2. pending = <<>> /\ dispatch.value \in {0, 1} /\ dispatch.semaphore
  BY DEF Tokens
<1>3. dispatch' \in EventFdRecord /\ dispatch'.value = 0 /\ dispatch'.semaphore
  BY <1>2 DEF Readable, AfterRead, TypeOK, EventFdRecord
<1>4. TypeOK'
  BY <1>3 DEF TypeOK
<1>5. LockHeld' /\ Roles' /\ Hands'
  BY DEF LockHeld, Roles, Hands, TypeOK
<1>6. Tokens'
  BY <1>1, <1>2, <1>3 DEF Tokens, TypeOK
<1>7. SingleOwner'
  BY DEF SingleOwner
<1>8. QED
  BY <1>4, <1>5, <1>6, <1>7

LEMMA FinishEventStep ==
  ASSUME IInv, NEW c \in Consumers, FinishEvent(c)
  PROVE  IInv'
<1> USE InputQueueAssumption DEF IInv, FinishEvent, Goto, Threads
<1>1. TypeOK' /\ LockHeld' /\ Roles' /\ Hands'
  BY DEF TypeOK, LockHeld, Roles, Hands
<1>2. Tokens'
  BY DEF Tokens, TypeOK
<1>3. SingleOwner'
  BY DEF SingleOwner, TypeOK
<1>4. QED
  BY <1>1, <1>2, <1>3

\* IInv is inductive.
THEOREM Inductive == Spec => []IInv
<1>1. IInv /\ [Next]_vars => IInv'
  <2> SUFFICES ASSUME IInv, [Next]_vars PROVE IInv'
    OBVIOUS
  <2>1. CASE Next
    BY <2>1, CreateEventStep, EnqueueEventStep, SignalStep, UnlockStep, GetEventStep,
       DrainStep, FinishEventStep DEF Next, ProducerStep, ConsumerStep
  <2>2. CASE UNCHANGED vars
    BY <2>2 DEF vars, IInv, TypeOK, LockHeld, Roles, Hands, Tokens, SingleOwner
  <2>3. QED
    BY <2>1, <2>2
<1>2. QED
  BY <1>1, InitIInv, PTL DEF Spec

-----------------------------------------------------------------------------
(* Safety *)

\* Every variable of the input queue keeps its type.
THEOREM TypeCorrect == Spec => []TypeOK
<1>1. IInv => TypeOK
  BY DEF IInv
<1>2. QED
  BY <1>1, Inductive, PTL

\* With mLock free the eventfd is readable exactly when an event is pending:
\* no wake-up is lost between push_back and the write, none is spurious, and
\* the semaphore holds at most one token, however many events are queued.
THEOREM NoLostWakeup == Spec => []ReadableIffPending
<1>1. IInv => (mLock = Nobody => (Readable(dispatch) <=> pending # <<>>))
  BY InputQueueAssumption
     DEF IInv, LockHeld, Tokens, Readable, Threads
<1>2. IInv => dispatch.value <= 1
  <2> SUFFICES ASSUME IInv PROVE dispatch.value <= 1
    OBVIOUS
  <2>1. CASE \E t \in Threads : pc[t] \in {"signal", "drain"}
    BY <2>1 DEF IInv, Tokens
  <2>2. CASE \A t \in Threads : pc[t] \notin {"signal", "drain"}
    BY <2>2 DEF IInv, Tokens
  <2>3. QED
    BY <2>1, <2>2
<1>3. IInv => ReadableIffPending
  BY <1>1, <1>2 DEF ReadableIffPending
<1>4. QED
  BY <1>3, Inductive, PTL

\* No event is delivered twice, or freed while it is queued or in use.
THEOREM Ownership == Spec => []SingleOwner
<1>1. IInv => SingleOwner
  BY DEF IInv
<1>2. QED
  BY <1>1, Inductive, PTL

-----------------------------------------------------------------------------
(* Refinement of NotifyQueue *)

\* With nobody between the vector and the eventfd, the queue seen is the vector.
LEMMA SettledView ==
  ASSUME \A t \in Threads : pc[t] \notin {"signal", "drain"}
  PROVE  /\ VisibleQueue = pending
         /\ VisibleHeld = [c \in Consumers |-> hand[c]]
BY DEF VisibleQueue, VisibleHeld, InTransit, Threads

LEMMA SettledViewPrime ==
  ASSUME \A t \in Threads : pc'[t] \notin {"signal", "drain"}
  PROVE  /\ VisibleQueue' = pending'
         /\ VisibleHeld' = [c \in Consumers |-> hand'[c]]
BY DEF VisibleQueue, VisibleHeld, InTransit, Threads

\* While c is in its drain loop it is alone in the critical section; an event
\* it took last is still shown as queued for as long as the token is there.
LEMMA DrainView ==
  ASSUME IInv, NEW c \in Consumers, pc[c] = "drain"
  PROVE  /\ VisibleQueue = IF Readable(dispatch) THEN <<hand[c]>> ELSE <<>>
         /\ VisibleHeld = [d \in Consumers |->
              IF d = c /\ Readable(dispatch) THEN NoEvent ELSE hand[d]]
<1>1. \A t \in Threads : pc[t] \in {"signal", "drain"} => t = c
  BY InputQueueAssumption DEF IInv, LockHeld, Threads
<1>2. \A d \in Consumers : InTransit(d) <=> d = c /\ Readable(dispatch)
  BY <1>1 DEF InTransit, Threads
<1>3. ~ \E p \in Producers : pc[p] = "signal"
  BY <1>1, InputQueueAssumption DEF Threads
<1>4. pending = <<>>
  BY DEF IInv, Tokens, Threads
<1>5. VisibleHeld = [d \in Consumers |->
              IF d = c /\ Readable(dispatch) THEN NoEvent ELSE hand[d]]
  BY <1>2 DEF VisibleHeld
<1>6. CASE Readable(dispatch)
  <2>1. c = CHOOSE d \in Consumers : InTransit(d)
    BY <1>2, <1>6
  <2>2. VisibleQueue = <<hand[c]>>
    BY <1>2, <1>3, <1>6, <2>1 DEF VisibleQueue
  <2>3. QED
    BY <1>5, <1>6, <2>2
<1>7. CASE ~Readable(dispatch)
  BY <1>2, <1>3, <1>4, <1>5, <1>7 DEF VisibleQueue
<1>8. QED
  BY <1>6, <1>7

LEMMA DrainViewPrime ==
  ASSUME IInv', NEW c \in Consumers, pc'[c] = "drain"
  PROVE  /\ VisibleQueue' = IF Readable(dispatch)' THEN <<hand'[c]>> ELSE <<>>
         /\ VisibleHeld' = [d \in Consumers |->
              IF d = c /\ Readable(dispatch)' THEN NoEvent ELSE hand'[d]]
<1>1. \A t \in Threads : pc'[t] \in {"signal", "drain"} => t = c
  BY InputQueueAssumption DEF IInv, LockHeld, Threads
<1>2. \A d \in Consumers : InTransit(d)' <=> d = c /\ Readable(dispatch)'
  BY <1>1 DEF InTransit, Threads
<1>3. ~ \E p \in Producers : pc'[p] = "signal"
  BY <1>1, InputQueueAssumption DEF Threads
<1>4. pending' = <<>>
  BY DEF IInv, Tokens, Threads
<1>5. VisibleHeld' = [d \in Consumers |->
              IF d = c /\ Readable(dispatch)' THEN NoEvent ELSE hand'[d]]
  BY <1>2 DEF VisibleHeld
<1>6. CASE Readable(dispatch)'
  <2>1. c = CHOOSE d \in Consumers : InTransit(d)'
    BY <1>2, <1>6
  <2>2. VisibleQueue' = <<hand'[c]>>
    BY <1>2, <1>3, <1>6, <2>1 DEF VisibleQueue
  <2>3. QED
    BY <1>5, <1>6, <2>2
<1>7. CASE ~Readable(dispatch)'
  BY <1>2, <1>3, <1>4, <1>5, <1>7 DEF VisibleQueue
<1>8. QED
  BY <1>6, <1>7

\* A step outside the critical section changes neither the queue seen nor
\* what a consumer in its drain loop is shown to hold.
LEMMA OutsideView ==
  ASSUME IInv, IInv', UNCHANGED <<pending, dispatch>>,
         \A t \in Threads : /\ pc'[t] = "signal" <=> pc[t] = "signal"
                            /\ pc'[t] = "drain" <=> pc[t] = "drain"
                            /\ pc[t] = "drain" => hand'[t] = hand[t]
  PROVE  /\ VisibleQueue' = VisibleQueue
         /\ VisibleHeld' = [d \in Consumers |->
                              IF InTransit(d) THEN NoEvent ELSE hand'[d]]
<1>1. \A d \in Consumers : InTransit(d)' <=> InTransit(d)
  BY DEF InTransit, Threads, Readable
<1>2. CASE \E c \in Consumers : pc[c] = "drain"
  <2> PICK c \in Consumers : pc[c] = "drain"
    BY <1>2
  <2>1. c \in Threads /\ pc'[c] = "drain" /\ hand'[c] = hand[c]
    BY DEF Threads
  <2>2. VisibleQueue' = VisibleQueue
    BY <2>1, DrainView, DrainViewPrime DEF Readable
  <2>3. QED
    BY <1>1, <2>2 DEF VisibleHeld
<1>3. CASE \A c \in Consumers : pc[c] # "drain"
  <2>1. \A c \in Consumers : ~InTransit(c) /\ ~InTransit(c)'
    BY <1>1, <1>3 DEF InTransit
  <2>2. VisibleQueue' = VisibleQueue
    BY <2>1 DEF VisibleQueue, Threads
  <2>3. QED
    BY <1>1, <2>2 DEF VisibleHeld
<1>4. QED
  BY <1>2, <1>3

LEMMA RefineEnqueueEvent ==
  ASSUME IInv, IInv', NEW p \in Producers, EnqueueEvent(p)
  PROVE  [Abstract!Next]_(Abstract!nvars)
<1> USE InputQueueAssumption DEF Threads
<1>1. \A t \in Threads : pc[t] \notin {"signal", "drain"}
  BY DEF EnqueueEvent, Join, NeedsSignal, IInv, LockHeld
<1>2. VisibleQueue = pending /\ VisibleHeld = [c \in Consumers |-> hand[c]]
  BY <1>1, SettledView
<1>3. hand[p] \in Events /\ pending \in Seq(Events)
  BY DEF EnqueueEvent, Join, NeedsSignal, IInv, Hands, TypeOK
<1>4. \A c \in Consumers : hand'[c] = hand[c]
  BY DEF EnqueueEvent, Join, NeedsSignal, IInv, TypeOK
<1>5. CASE pending = <<>>
  <2>1. pc'[p] = "signal" /\ \A c \in Consumers : pc'[c] # "drain"
    BY <1>1, <1>3, <1>5 DEF EnqueueEvent, Join, NeedsSignal, Goto, IInv, TypeOK
  <2>2. VisibleQueue' = <<>> /\ VisibleHeld' = [c \in Consumers |-> hand'[c]]
    BY <2>1 DEF VisibleQueue, VisibleHeld, InTransit
  <2>3. QED
    BY <1>2, <1>4, <1>5, <2>2 DEF Abstract!nvars, EnqueueEvent, Join, NeedsSignal, Readable
<1>6. CASE pending # <<>>
  <2>1. pc' = [pc EXCEPT ![p] = "unlock"]
    <3>1. Len(pending) # 0 /\ Len(Append(pending, hand[p])) = Len(pending) + 1
      BY <1>3, <1>6
    <3>2. Len(pending') # 1
      BY <3>1, <1>3 DEF EnqueueEvent, Join, NeedsSignal
    <3>3. QED
      BY <3>2 DEF EnqueueEvent, Join, NeedsSignal, Goto
  <2>2. \A t \in Threads : pc'[t] \notin {"signal", "drain"}
    BY <1>1, <2>1 DEF IInv, TypeOK
  <2>3. VisibleQueue' = Append(VisibleQueue, hand[p]) /\ VisibleHeld' = VisibleHeld
    BY <1>2, <1>4, <2>2, SettledViewPrime DEF EnqueueEvent, Join, NeedsSignal
  <2>4. Readable(dispatch)'
    BY <1>1, <1>6 DEF IInv, Tokens, Readable, EnqueueEvent, Join, NeedsSignal
  <2>5. /\ \A i \in DOMAIN VisibleQueue : VisibleQueue[i] # hand[p]
        /\ \A c \in Consumers : VisibleHeld[c] # hand[p]
    BY <1>2, <1>3 DEF IInv, SingleOwner
  <2>6. Abstract!Send(hand[p])
    BY <2>3, <2>4, <2>5 DEF Abstract!Send
  <2>7. QED
    BY <1>3, <2>6 DEF Abstract!Next
<1>7. QED
  BY <1>5, <1>6

LEMMA RefineSignal ==
  ASSUME IInv, IInv', NEW p \in Producers, Signal(p)
  PROVE  [Abstract!Next]_(Abstract!nvars)
<1> USE InputQueueAssumption DEF Threads
<1>1. pc[p] = "signal" /\ \A c \in Consumers : pc[c] # "drain"
  BY DEF Signal, IInv, LockHeld
<1>2. VisibleQueue = <<>> /\ VisibleHeld = [c \in Consumers |-> hand[c]]
  BY <1>1 DEF VisibleQueue, VisibleHeld, InTransit
<1>3. \A t \in Threads : pc'[t] \notin {"signal", "drain"}
  BY DEF Signal, Goto, IInv, LockHeld, TypeOK
<1>4. VisibleQueue' = pending /\ VisibleHeld' = VisibleHeld
  BY <1>2, <1>3, SettledViewPrime DEF Signal
<1>5. Len(pending) = 1 /\ dispatch.value = 0 /\ pending \in Seq(Events)
  BY <1>1 DEF IInv, Tokens, TypeOK
<1>6. pending[1] \in Events /\ pending = Append(<<>>, pending[1])
  BY <1>5
<1>7. Readable(dispatch)'
  BY <1>5, MaxValueAssumption
     DEF Signal, HasRoomFor, AfterWrite, Readable, IInv, TypeOK, EventFdRecord
<1>8. \A c \in Consumers : VisibleHeld[c] # pending[1]
  BY <1>2, <1>5 DEF IInv, SingleOwner
<1>9. Abstract!Send(pending[1])
  BY <1>2, <1>4, <1>6, <1>7, <1>8 DEF Abstract!Send
<1>10. QED
  BY <1>6, <1>9 DEF Abstract!Next

LEMMA RefineGetEvent ==
  ASSUME IInv, IInv', NEW c \in Consumers, GetEvent(c)
  PROVE  [Abstract!Next]_(Abstract!nvars)
<1> USE InputQueueAssumption DEF Threads
<1>1. /\ \A t \in Threads : pc[t] \notin {"signal", "drain"}
      /\ hand[c] = NoEvent
      /\ dispatch.value = IF pending = <<>> THEN 0 ELSE 1
      /\ dispatch' = dispatch
      /\ pending \in Seq(Events)
  BY DEF GetEvent, Rest, NeedsDrain, IInv, LockHeld, Hands, Tokens, TypeOK
<1>2. VisibleQueue = pending /\ VisibleHeld = [d \in Consumers |-> hand[d]]
  BY <1>1, SettledView
<1>3. CASE pending = <<>>
  <2>1. pc'[c] = "drain" /\ hand' = hand
    BY <1>3 DEF GetEvent, Rest, NeedsDrain, Goto, IInv, TypeOK
  <2>2. ~Readable(dispatch)' /\ ~Readable(dispatch)
    BY <1>1, <1>3 DEF Readable
  <2>3. VisibleQueue' = <<>> /\ VisibleHeld' = [d \in Consumers |-> hand'[d]]
    BY <2>1, <2>2, DrainViewPrime
  <2>4. QED
    BY <1>1, <1>2, <1>3, <2>1, <2>3 DEF Abstract!nvars, Readable
<1>4. CASE Len(pending) = 1
  <2>1. pending # <<>> /\ pending' = <<>> /\ hand'[c] = pending[1]
    <3>1. pending # <<>>
      BY <1>4
    <3>2. Tail(pending) \in Seq(Events) /\ Len(Tail(pending)) = 0
      BY <1>1, <1>4, <3>1
    <3>3. Tail(pending) = <<>>
      BY <3>2, EmptySeq
    <3>4. /\ pending' = Tail(pending)
          /\ hand' = [hand EXCEPT ![c] = Head(pending)]
      BY <3>1 DEF GetEvent, Rest, NeedsDrain
    <3>5. Head(pending) = pending[1]
      BY <1>1, <3>1
    <3>6. hand'[c] = Head(pending)
      BY <3>4 DEF IInv, TypeOK
    <3>7. QED
      BY <3>1, <3>3, <3>4, <3>5, <3>6
  <2>2. pc'[c] = "drain" /\ \A d \in Consumers : d # c => hand'[d] = hand[d]
    BY <2>1 DEF GetEvent, Rest, NeedsDrain, Goto, IInv, TypeOK
  <2>3. Readable(dispatch)' /\ Readable(dispatch)
    BY <1>1, <2>1 DEF Readable
  <2>4. VisibleQueue' = <<pending[1]>>
    BY <2>1, <2>2, <2>3, DrainViewPrime
  <2>5. VisibleHeld' = VisibleHeld
    <3>1. VisibleHeld' = [d \in Consumers |-> IF d = c THEN NoEvent ELSE hand'[d]]
      BY <2>2, <2>3, DrainViewPrime
    <3>2. QED
      BY <3>1, <1>1, <1>2, <2>2
  <2>6. pending = <<pending[1]>>
    BY <1>1, <1>4
  <2>7. QED
    BY <1>1, <1>2, <2>4, <2>5, <2>6 DEF Abstract!nvars, Readable
<1>5. CASE pending # <<>> /\ Len(pending) # 1
  <2>1. /\ Len(pending) > 1 /\ pending' = Tail(pending) /\ Len(pending') = Len(pending) - 1
        /\ hand' = [hand EXCEPT ![c] = pending[1]] /\ pending[1] \in Events
    <3>1. Len(pending) \in Nat /\ Len(pending) # 0 /\ Len(pending) # 1
      BY <1>1, <1>5, EmptySeq
    <3>2. Len(pending) > 1
      BY <3>1, MoreThanOne
    <3>3. Head(pending) = pending[1] /\ pending[1] \in Events
      BY <1>1, <3>2
    <3>4. Len(Tail(pending)) = Len(pending) - 1
      BY <1>1, <1>5
    <3>5. pending' = Tail(pending) /\ hand' = [hand EXCEPT ![c] = Head(pending)]
      BY <1>5 DEF GetEvent, Rest, NeedsDrain
    <3>6. QED
      BY <3>2, <3>3, <3>4, <3>5
  <2>2. pending' # <<>>
    <3>1. Len(pending') # 0
      BY <1>1, <2>1
    <3>2. QED
      BY <3>1
  <2>3. pc' = [pc EXCEPT ![c] = "unlock"]
    BY <2>2 DEF GetEvent, Rest, NeedsDrain, Goto
  <2>4. \A t \in Threads : pc'[t] \notin {"signal", "drain"}
    BY <1>1, <2>3 DEF IInv, TypeOK
  <2>5. VisibleQueue' = Tail(VisibleQueue)
    BY <1>2, <2>1, <2>4, SettledViewPrime
  <2>6. VisibleHeld' = [VisibleHeld EXCEPT ![c] = VisibleQueue[1]]
    <3>1. VisibleHeld' = [d \in Consumers |-> hand'[d]]
      BY <2>4, SettledViewPrime
    <3>2. \A d \in Consumers : hand'[d] = IF d = c THEN pending[1] ELSE hand[d]
      BY <2>1 DEF IInv, TypeOK
    <3>3. QED
      BY <3>1, <3>2, <1>2
  <2>7. Readable(dispatch)' /\ VisibleHeld[c] = NoEvent
    BY <1>1, <1>2, <1>5 DEF Readable
  <2>8. Abstract!Receive(c)
    BY <1>2, <1>5, <2>1, <2>5, <2>6, <2>7 DEF Abstract!Receive
  <2>9. QED
    BY <2>8 DEF Abstract!Next
<1>6. QED
  BY <1>3, <1>4, <1>5

LEMMA RefineDrain ==
  ASSUME IInv, IInv', NEW c \in Consumers, Drain(c)
  PROVE  [Abstract!Next]_(Abstract!nvars)
<1> USE InputQueueAssumption DEF Threads
<1>1. /\ \A t \in Threads : t # c => pc[t] \notin {"signal", "drain"}
      /\ pc[c] = "drain" /\ hand' = hand /\ dispatch.semaphore
      /\ dispatch.value = 0 \/ (dispatch.value = 1 /\ hand[c] # NoEvent)
  BY DEF Drain, IInv, LockHeld, Tokens
<1>2. CASE Readable(dispatch)
  <2>1. pc'[c] = "drain" /\ ~Readable(dispatch)'
    BY <1>1, <1>2 DEF Drain, Readable, AfterRead, IInv, TypeOK, EventFdRecord
  <2>2. /\ VisibleQueue = <<hand[c]>> /\ VisibleQueue' = <<>>
        /\ VisibleHeld = [d \in Consumers |-> IF d = c THEN NoEvent ELSE hand[d]]
        /\ VisibleHeld' = [d \in Consumers |-> hand[d]]
    <3>1. /\ VisibleQueue = <<hand[c]>>
          /\ VisibleHeld = [d \in Consumers |-> IF d = c THEN NoEvent ELSE hand[d]]
      BY <1>1, <1>2, DrainView
    <3>2. /\ VisibleQueue' = <<>>
          /\ VisibleHeld' = [d \in Consumers |-> hand'[d]]
      BY <2>1, DrainViewPrime
    <3>3. QED
      BY <1>1, <3>1, <3>2
  <2>3. /\ VisibleQueue # <<>> /\ VisibleQueue[1] = hand[c]
        /\ Len(VisibleQueue) = 1 /\ Tail(VisibleQueue) = <<>>
    BY <2>2
  <2>4. VisibleHeld[c] = NoEvent /\ VisibleHeld' = [VisibleHeld EXCEPT ![c] = hand[c]]
    BY <2>2
  <2>5. Abstract!Receive(c)
    <3>1. Readable(dispatch)' = (Len(VisibleQueue) > 1)
      BY <2>1, <2>3, <1>1, <1>2
         DEF Drain, Readable, AfterRead, IInv, TypeOK, EventFdRecord
    <3>2. VisibleQueue' = Tail(VisibleQueue)
      BY <2>2, <2>3
    <3>3. QED
      BY <2>3, <2>4, <3>1, <3>2 DEF Abstract!Receive
  <2>6. QED
    BY <2>5 DEF Abstract!Next
<1>3. CASE ~Readable(dispatch)
  <2>1. pc' = [pc EXCEPT ![c] = "unlock"] /\ dispatch' = dispatch
    BY <1>3 DEF Drain, Goto
  <2>2. \A t \in Threads : pc'[t] \notin {"signal", "drain"}
    BY <1>1, <2>1 DEF IInv, TypeOK
  <2>3. pending = <<>> /\ pending' = <<>>
    BY <1>1 DEF Drain, IInv, Tokens
  <2>4. /\ VisibleQueue = <<>> /\ VisibleQueue' = <<>>
        /\ VisibleHeld = [d \in Consumers |-> hand[d]]
        /\ VisibleHeld' = [d \in Consumers |-> hand'[d]]
    BY <1>1, <1>3, <2>2, <2>3, DrainView, SettledViewPrime
  <2>5. QED
    BY <1>1, <2>1, <2>4 DEF Abstract!nvars, Readable
<1>4. QED
  BY <1>2, <1>3

\* Allocating, unlocking and freeing are invisible, except that freeing
\* gives up the event a consumer holds.
LEMMA RefineOutside ==
  ASSUME IInv, IInv',
         \/ \E p \in Producers : UnlockProducer(p) \/ \E e \in Events : CreateEvent(p, e)
         \/ \E c \in Consumers : UnlockConsumer(c)
  PROVE  [Abstract!Next]_(Abstract!nvars)
<1> USE InputQueueAssumption DEF Threads, UnlockProducer, UnlockConsumer, CreateEvent, Goto
<1>1. /\ UNCHANGED <<pending, dispatch>>
      /\ \A c \in Consumers : hand'[c] = hand[c]
      /\ \A t \in Threads : /\ pc'[t] = "signal" <=> pc[t] = "signal"
                            /\ pc'[t] = "drain" <=> pc[t] = "drain"
                            /\ pc[t] = "drain" => t \in Consumers
  BY DEF IInv, TypeOK, Roles
<1>2. /\ VisibleQueue' = VisibleQueue
      /\ VisibleHeld' = [d \in Consumers |-> IF InTransit(d) THEN NoEvent ELSE hand'[d]]
  BY <1>1, OutsideView
<1>3. VisibleHeld' = VisibleHeld
  BY <1>1, <1>2 DEF VisibleHeld
<1>4. QED
  BY <1>1, <1>2, <1>3 DEF Abstract!nvars, Readable

LEMMA RefineFinishEvent ==
  ASSUME IInv, IInv', NEW c \in Consumers, FinishEvent(c)
  PROVE  [Abstract!Next]_(Abstract!nvars)
<1> USE InputQueueAssumption DEF Threads
<1>1. /\ UNCHANGED <<pending, dispatch>>
      /\ pc[c] = "handling" /\ pc'[c] = "idle" /\ ~InTransit(c)
      /\ \A t \in Threads : t # c => pc'[t] = pc[t] /\ hand'[t] = hand[t]
      /\ hand[c] # NoEvent /\ hand'[c] = NoEvent
  BY DEF FinishEvent, Goto, IInv, TypeOK, Hands, InTransit
<1>2. /\ VisibleQueue' = VisibleQueue
      /\ VisibleHeld' = [d \in Consumers |-> IF InTransit(d) THEN NoEvent ELSE hand'[d]]
  BY <1>1, OutsideView
<1>3. VisibleHeld' = [VisibleHeld EXCEPT ![c] = NoEvent] /\ VisibleHeld[c] = hand[c]
  BY <1>1, <1>2 DEF VisibleHeld
<1>4. Abstract!Release(c)
  BY <1>1, <1>2, <1>3 DEF Abstract!Release, Readable
<1>5. QED
  BY <1>4 DEF Abstract!Next

\* The vector under mLock and the eventfd under its own mutex implement, for
\* every looper and every caller, one queue with an exact readiness flag.
THEOREM Refinement == Spec => ImplementsNotifyQueue
<1>1. Init => Abstract!Init
  <2> SUFFICES ASSUME Init PROVE Abstract!Init
    OBVIOUS
  <2>1. \A t \in Threads : pc[t] \notin {"signal", "drain"}
    BY DEF Init
  <2>2. VisibleQueue = <<>> /\ VisibleHeld = [c \in Consumers |-> NoEvent]
    BY <2>1, SettledView DEF Init, Threads
  <2>3. QED
    BY <2>2 DEF Abstract!Init, Init, NewEventFd, Readable
<1>2. IInv /\ IInv' /\ [Next]_vars => [Abstract!Next]_(Abstract!nvars)
  <2> SUFFICES ASSUME IInv, IInv', [Next]_vars PROVE [Abstract!Next]_(Abstract!nvars)
    OBVIOUS
  <2>1. CASE Next
    BY <2>1, RefineEnqueueEvent, RefineSignal, RefineGetEvent, RefineDrain,
       RefineOutside, RefineFinishEvent DEF Next, ProducerStep, ConsumerStep
  <2>2. CASE UNCHANGED vars
    BY <2>2 DEF vars, Abstract!nvars, VisibleQueue, VisibleHeld, InTransit, Readable
  <2>3. QED
    BY <2>1, <2>2
<1>3. QED
  BY <1>1, <1>2, Inductive, PTL DEF Spec, ImplementsNotifyQueue, Abstract!Spec
=============================================================================
