--------------------------- MODULE InputDelivery ---------------------------
(***************************************************************************)
(* The way of an input event: the input thread enqueues it (InputQueue),   *)
(* the application thread polls its looper (Looper), which watches the     *)
(* eventfd of the queue, and fetches the event once the looper says so.    *)
(* AInputQueue_attachLooper and detachLooper (AInput.cpp) tie the two      *)
(* together; both run under the queue's mLock and call into the looper.    *)
(*                                                                         *)
(* The application follows the contract of native_app_glue.h: it polls,    *)
(* and when the poll returns the identifier of the input queue it calls    *)
(* getEvent at least once before it polls again.                           *)
(***************************************************************************)
EXTENDS Integers, Sequences

CONSTANTS
  Producers, App, Events, NoEvent, Nobody,   \* as in InputQueue; App fetches
  DispatchFd,                                \* the looper's only descriptor
  Ident,                                     \* LOOPER_ID_INPUT
  WakeFd, EpollFd, EpollFds, Timeouts, MaxEvents, MaxSeq, MaxValue  \* as in Looper

ASSUME InputDeliveryAssumption ==
  /\ App \notin Producers /\ Nobody \notin Producers \cup {App}
  /\ NoEvent \notin Events
  /\ DispatchFd \in Nat \ (EpollFds \cup {EpollFd, WakeFd}) /\ WakeFd \in Nat
  /\ Ident \in Nat
  /\ Timeouts \subseteq Int /\ MaxEvents \in Nat \ {0}
  /\ MaxSeq \in Nat /\ MaxValue \in Nat \ {0}

VARIABLES
  mLock, pending, dispatch, hand, qpc,       \* InputQueue
  interest, requests, seqByFd, nextSeq, rebuild, wakeEvent,
  lpc, call, cursor, reported, responses, index, result, turn,
  running, returned, retired,                \* Looper
  attached,     \* the looper is in mAppLoopers
  due           \* the application owes a getEvent

queueVars == <<mLock, pending, dispatch, hand, qpc>>
looperVars == <<interest, requests, seqByFd, nextSeq, rebuild, wakeEvent, lpc, call,
                cursor, reported, responses, index, result, turn, running, returned,
                retired>>
vars == <<queueVars, looperVars, attached, due>>

Q == INSTANCE InputQueue WITH pc <- qpc, Consumers <- {App}

\* What pseudo_eventfd_status answers for the queue's eventfd, at any moment.
Ready == [fd \in {DispatchFd} |-> IF Q!Readable(dispatch) THEN {"in"} ELSE {}]

L == INSTANCE Looper WITH
  pc <- lpc, ready <- Ready, Fds <- {DispatchFd}, BadFds <- {}, Idents <- {Ident},
  AllowNonCallbacks <- TRUE, EventMasks <- {{"in"}}, RemoteCalls <- FALSE, Replace <- FALSE

TypeOK == Q!TypeOK /\ L!TypeOK /\ attached \in BOOLEAN /\ due \in BOOLEAN

Init == Q!Init /\ L!Init /\ attached = FALSE /\ due = FALSE

\* The application thread is in none of the calls of the queue.
AppIsFree == qpc[App] = "idle"

-----------------------------------------------------------------------------
InputMask == {"in"}     \* ALOOPER_EVENT_INPUT

\* AInputQueue_attachLooper; a looper that is attached stays as it is.
AttachLooper ==
  /\ lpc = "app" /\ AppIsFree /\ ~due
  /\ mLock = Nobody
  /\ ~attached
  /\ nextSeq < MaxSeq
  /\ attached' = TRUE
  /\ UNCHANGED <<queueVars, due>>
  /\ L!AddFd(DispatchFd, Ident, FALSE, InputMask, FALSE)

\* Mutant: the list of loopers is cleared and nothing else.
DeregisterNothing == UNCHANGED looperVars

Deregister == L!RemoveFd(DispatchFd, TRUE, FALSE)

\* AInputQueue_detachLooper
DetachLooper ==
  /\ lpc = "app" /\ AppIsFree /\ ~due
  /\ mLock = Nobody
  /\ attached
  /\ attached' = FALSE
  /\ UNCHANGED <<queueVars, due>>
  /\ Deregister

\* The input thread.
Produce(p) ==
  /\ Q!ProducerStep(p) \/ \E e \in Events : Q!CreateEvent(p, e)
  /\ UNCHANGED <<looperVars, attached, due>>

\* The application thread in ALooper_pollOnce or ALooper_pollAll.
StartPoll ==
  /\ AppIsFree /\ ~due
  /\ UNCHANGED <<queueVars, attached, due>>
  /\ L!Polls

PollStep ==
  /\ UNCHANGED <<queueVars, attached>>
  /\ L!Polling
  /\ due' = (due \/ (lpc' = "app" /\ returned' = DispatchFd))

\* The application thread in AInputQueue_getEvent: the call it owes, or one
\* more while it is at it.
Fetch ==
  /\ lpc = "app" /\ returned = DispatchFd
  /\ Q!GetEvent(App)
  /\ due' = FALSE
  /\ UNCHANGED <<looperVars, attached>>

FetchStep ==
  /\ Q!ConsumerStep(App)
  /\ UNCHANGED <<looperVars, attached, due>>

Next ==
  \/ AttachLooper \/ DetachLooper
  \/ \E p \in Producers : Produce(p)
  \/ StartPoll \/ PollStep
  \/ Fetch \/ FetchStep

\* Threads are scheduled, and the application keeps polling.  mLock is held
\* for a few instructions and its holders then sleep or wait (controls_poll
\* sleeps 16 ms a turn), so whoever keeps asking for it gets it.
Fairness ==
  /\ \A p \in Producers :
       /\ SF_vars(Q!EnqueueEvent(p) /\ UNCHANGED <<looperVars, attached, due>>)
       /\ WF_vars((Q!Signal(p) \/ Q!UnlockProducer(p))
                    /\ UNCHANGED <<looperVars, attached, due>>)
  /\ WF_vars(StartPoll) /\ WF_vars(PollStep) /\ WF_vars(FetchStep)
  /\ SF_vars(due /\ Fetch)

Spec == Init /\ [][Next]_vars /\ Fairness

-----------------------------------------------------------------------------
(* Properties *)

Queued(e) == \E i \in DOMAIN pending : pending[i] = e

\* Every event that is enqueued while a looper is attached is fetched: no
\* interleaving of the vector, the eventfd, the wait loop and the responses
\* that pollOnce keeps loses the wake-up.
EveryEventIsFetched == \A e \in Events : (Queued(e) /\ attached) ~> (~Queued(e) \/ ~attached)

\* When a poll that is not bounded by a time returns the queue's identifier,
\* the getEvent that follows finds an event: the application thread is not
\* woken for nothing.
PollTellsTheTruth == due => pending # <<>>

\* The queue's list of loopers and the looper's registrations agree.
AttachedIffRegistered == attached <=> DispatchFd \in DOMAIN seqByFd
=============================================================================
