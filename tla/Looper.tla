------------------------------- MODULE Looper -------------------------------
(***************************************************************************)
(* One ALooper (lib/AFakeNative/ALooper.cpp) over its emulated epoll       *)
(* instance (PseudoEpoll.cpp).  The looper thread polls, other threads     *)
(* make descriptors ready and may add and remove registrations.            *)
(*                                                                         *)
(* A critical section under mLock is one step: mLock is never held across  *)
(* a wait or a callback.  The wait is not: its loop visits one entry of    *)
(* the interest list per step, and pseudo_epoll_ctl does not take the      *)
(* epoll mutex, so a registration can change under the loop.  For a        *)
(* std::map that is undefined behaviour; it is modelled as "either the     *)
(* loop goes on as if nothing happened, or the process dies".              *)
(*                                                                         *)
(* wake() is only called when a rebuild is scheduled, and message          *)
(* envelopes are never created by this code.                               *)
(***************************************************************************)
EXTENDS PseudoEpoll, EventFdValue, Sequences, FiniteSets

CONSTANTS
  Fds,          \* descriptors callers register
  BadFds,       \* numbers callers pass that epoll refuses
  WakeFd,       \* mWakeEventFd
  Idents,       \* identifiers callers pass
  AllowNonCallbacks,   \* ALOOPER_PREPARE_ALLOW_NON_CALLBACKS
  EventMasks,   \* event masks callers ask for
  Timeouts,     \* timeouts callers pass to pollOnce and pollAll
  MaxEvents,    \* EPOLL_MAX_EVENTS
  RemoteCalls,  \* may other threads add and remove while the looper polls?
  Replace,      \* may a registered descriptor be added again?
  MaxSeq        \* bound: addFd stops when the sequence numbers reach it

CALLBACK == -2          \* ALOOPER_POLL_CALLBACK, as ident and as result
WAKE == -1              \* ALOOPER_POLL_WAKE
TIMEOUT == -3           \* ALOOPER_POLL_TIMEOUT
WakeSeq == 1            \* WAKE_EVENT_FD_SEQ

ASSUME LooperAssumption ==
  /\ Fds \subseteq Nat \ (EpollFds \cup {EpollFd})
  /\ WakeFd \in Nat \ (Fds \cup EpollFds \cup {EpollFd})
  /\ BadFds \subseteq {fd \in Int : fd < 0} \cup EpollFds \cup {EpollFd}
  /\ EpollFd \in Nat
  /\ Idents \subseteq Int
  /\ AllowNonCallbacks \in BOOLEAN
  /\ EventMasks \subseteq Masks
  /\ Timeouts \subseteq Int
  /\ MaxEvents \in Nat \ {0}
  /\ RemoteCalls \in BOOLEAN /\ Replace \in BOOLEAN

VARIABLES
  interest,     \* the epoll instance: fd -> [seq, events]
  requests,     \* mRequests: sequence number -> request
  seqByFd,      \* mSequenceNumberByFd
  nextSeq,      \* mNextRequestSeq
  rebuild,      \* mEpollRebuildRequired
  wakeEvent,    \* the eventfd mWakeEventFd
  ready,        \* fd -> what it is ready for
  pc,           \* where the looper thread is, or "dead" with the process
  call,         \* the call it executes: [timeout, all]
  cursor,       \* the wait loop: the entry visited last
  reported,     \* the wait loop: events in the buffer
  responses,    \* mResponses
  index,        \* mResponseIndex
  result,       \* result of the last pollInner
  turn,         \* the callback loop: index of the next response
  running,      \* sequence number whose callback runs, or 0
  returned,     \* descriptor pollOnce handed to the application last, or -1
  retired       \* history: registrations whose callback unregistered itself

registry == <<interest, requests, seqByFd, nextSeq, rebuild, wakeEvent>>
waitVars == <<cursor, reported>>
responseVars == <<responses, index, result, turn>>
callbackVars == <<running, retired>>
vars == <<registry, ready, pc, call, waitVars, responseVars, callbackVars, returned>>

AllFds == Fds \cup {WakeFd}
Request == [fd: Fds, ident: Nat \cup {CALLBACK}, events: EventMasks]
Item == [seq: Nat, events: Masks]

TypeOK ==
  /\ DOMAIN interest \subseteq AllFds /\ interest \in [DOMAIN interest -> Item]
  /\ DOMAIN requests \subseteq Nat /\ requests \in [DOMAIN requests -> Request]
  /\ DOMAIN seqByFd \subseteq Fds /\ seqByFd \in [DOMAIN seqByFd -> Nat]
  /\ nextSeq \in Nat
  /\ rebuild \in BOOLEAN
  /\ wakeEvent \in EventFdRecord
  /\ ready \in [Fds -> Masks]
  /\ pc \in {"app", "once", "scan", "handle", "dispatch", "callback", "dead"}
  /\ call \in [timeout: Timeouts \cup {0}, all: BOOLEAN]
  /\ cursor \in AllFds \cup {-1}
  /\ reported \in Seq([seq: Nat, events: Masks, fd: AllFds])
  /\ responses \in Seq([seq: Nat, events: Masks, request: Request])
  /\ index \in Nat /\ turn \in Nat
  /\ result \in {0, WAKE, CALLBACK, TIMEOUT}
  /\ running \in Nat /\ retired \subseteq Nat
  /\ returned \in Fds \cup {-1}

\* After ALooper_prepare: rebuildEpollLocked has registered the wake eventfd.
Init ==
  /\ interest = [fd \in {WakeFd} |-> [seq |-> WakeSeq, events |-> {"in"}]]
  /\ requests = [s \in {} |-> 0]
  /\ seqByFd = [fd \in {} |-> 0]
  /\ nextSeq = WakeSeq + 1
  /\ rebuild = FALSE
  /\ wakeEvent = NewEventFd(0, TRUE, FALSE)
  /\ ready = [fd \in Fds |-> {}]
  /\ pc = "app"
  /\ call = [timeout |-> 0, all |-> FALSE]
  /\ cursor = -1
  /\ reported = <<>>
  /\ responses = <<>>
  /\ index = 1 /\ turn = 1 /\ result = 0
  /\ running = 0 /\ retired = {}
  /\ returned = -1

-----------------------------------------------------------------------------
(* Registration *)

\* Application code runs on the looper thread between polls and in
\* callbacks; other threads run at any time.
OnLooperThread == pc \in {"app", "callback"}
MayCall == OnLooperThread \/ (RemoteCalls /\ pc # "dead")

\* A change of the interest list while the wait loop walks over it.
DataRace(dies) == pc' = IF pc = "scan" /\ dies THEN "dead" ELSE pc

\* The arguments ALooper_addFd takes; others are answered with -1.
Accepts(ident, callback) == callback \/ (AllowNonCallbacks /\ ident >= 0)

\* Mutant: the numbers wrap around and are used again.
SeqWraps(seq) == IF seq = WakeSeq + 2 THEN WakeSeq + 1 ELSE seq + 1

\* mNextRequestSeq after a number has been taken.
SeqAfter(seq) == seq + 1

\* ALooper_addFd of a descriptor that is not registered.
AddFd(fd, ident, callback, events, dies) ==
  LET request == [fd |-> fd, ident |-> IF callback THEN CALLBACK ELSE ident,
                  events |-> events]
  IN /\ MayCall
     /\ Accepts(ident, callback)
     /\ fd \notin DOMAIN seqByFd
     /\ CtlAnswer(interest, "ADD", fd) = "ok"
     /\ interest' = AfterCtl(interest, "ADD", fd, [seq |-> nextSeq, events |-> events])
     /\ requests' = Emplace(requests, nextSeq, request)
     /\ seqByFd' = Emplace(seqByFd, fd, nextSeq)
     /\ nextSeq' = SeqAfter(nextSeq)
     /\ DataRace(dies)
     /\ UNCHANGED <<rebuild, wakeEvent, ready, call, waitVars, responseVars,
                    callbackVars, returned>>

\* ... and one that epoll refuses: the sequence number is used up all the same.
AddFdRefused(fd) ==
  /\ MayCall
  /\ fd \notin DOMAIN seqByFd
  /\ CtlAnswer(interest, "ADD", fd) \in {"EBADF", "EINVAL", "EEXIST", "ELOOP"}
  /\ nextSeq' = SeqAfter(nextSeq)
  /\ UNCHANGED <<interest, requests, seqByFd, rebuild, wakeEvent, ready, pc,
                 call, waitVars, responseVars, callbackVars, returned>>

\* ALooper_addFd of a registered descriptor: EPOLL_CTL_MOD throws out of the
\* critical section and through the C interface, which ends the process.
AddFdAgain(fd) ==
  /\ MayCall
  /\ Replace
  /\ fd \in DOMAIN seqByFd
  /\ CtlAnswer(interest, "MOD", fd) = "throws"
  /\ pc' = "dead"
  /\ nextSeq' = SeqAfter(nextSeq)
  /\ UNCHANGED <<interest, requests, seqByFd, rebuild, wakeEvent, ready, call,
                 waitVars, responseVars, callbackVars, returned>>

\* Mutant: the second map is forgotten.
ForgetNothing(fd) == UNCHANGED seqByFd

ForgetFd(fd) == seqByFd' = Without(seqByFd, fd)

\* removeSequenceNumberLocked.  EPOLL_CTL_DEL of a descriptor that is not in
\* the interest list schedules a rebuild and wakes the poll.
RemoveSequenceNumber(seq) ==
  IF seq \notin DOMAIN requests
  THEN UNCHANGED <<interest, requests, seqByFd, rebuild, wakeEvent>>
  ELSE LET fd == requests[seq].fd
           removed == CtlAnswer(interest, "DEL", fd) = "ok"
       IN /\ requests' = Without(requests, seq)
          /\ ForgetFd(fd)
          /\ interest' = IF removed THEN AfterCtl(interest, "DEL", fd, 0) ELSE interest
          /\ rebuild' = (rebuild \/ ~removed)
          /\ wakeEvent' = IF removed \/ rebuild \/ ~HasRoomFor(wakeEvent, 1)
                          THEN wakeEvent ELSE AfterWrite(wakeEvent, 1)

\* ALooper_removeFd, on the looper thread (self) or on another one; a
\* descriptor that is not registered is answered with 0.
RemoveFd(fd, self, dies) ==
  /\ IF self THEN OnLooperThread ELSE RemoteCalls /\ pc # "dead"
  /\ fd \in DOMAIN seqByFd
  /\ RemoveSequenceNumber(seqByFd[fd])
  /\ DataRace(dies)
  /\ retired' = IF self /\ running = seqByFd[fd] THEN retired \cup {running} ELSE retired
  /\ UNCHANGED <<nextSeq, ready, call, waitVars, responseVars, running, returned>>

-----------------------------------------------------------------------------
(* Polling *)

\* ALooper_pollOnce (all = FALSE) and ALooper_pollAll.
Poll(timeout, all) ==
  /\ pc = "app"
  /\ pc' = "once"
  /\ call' = [timeout |-> timeout, all |-> all]
  /\ result' = 0
  /\ returned' = -1
  /\ UNCHANGED <<registry, ready, waitVars, responses, index, turn, callbackVars>>

\* The head of the loop in pollOnce: responses that are left and carry an
\* identifier are returned one per call, before anything is polled again.
Unreturned == {i \in index .. Len(responses) : responses[i].request.ident >= 0}

\* Mutant: the responses behind the one returned are dropped.
IndexAtEnd(i) == Len(responses) + 1

IndexAfter(i) == i + 1

ReturnIdent ==
  /\ pc = "once"
  /\ Unreturned # {}
  /\ LET i == CHOOSE k \in Unreturned : \A j \in Unreturned : k <= j
     IN /\ index' = IndexAfter(i)
        /\ returned' = responses[i].request.fd
  /\ pc' = "app"
  /\ UNCHANGED <<registry, ready, call, waitVars, responses, result, turn,
                 callbackVars>>

\* A result is there: pollAll goes round again after a callback.  With a
\* timeout it may give up instead, at the one instant when its unsigned
\* "endTime - now <= 0" holds.
ReturnResult(atEnd) ==
  /\ pc = "once"
  /\ Unreturned = {}
  /\ result # 0
  /\ index' = Len(responses) + 1
  /\ IF call.all /\ result = CALLBACK /\ ~(call.timeout > 0 /\ atEnd)
     THEN result' = 0 /\ UNCHANGED pc
     ELSE pc' = "app" /\ UNCHANGED result
  /\ UNCHANGED <<registry, ready, call, waitVars, responses, turn,
                 callbackVars, returned>>

\* pollInner up to the wait.
StartWait ==
  /\ pc = "once"
  /\ Unreturned = {}
  /\ result = 0
  /\ responses' = <<>>
  /\ index' = 1
  /\ pc' = "scan"
  /\ cursor' = -1
  /\ reported' = <<>>
  /\ UNCHANGED <<registry, ready, call, result, turn, callbackVars, returned>>

\* What the descriptor of an entry is ready for: pseudo_eventfd_status of the
\* wake eventfd, and the state of every other one.
ReadyFor(fd) ==
  IF fd # WakeFd THEN ready[fd]
  ELSE {k \in {"in", "out"} : IF k = "in" THEN Readable(wakeEvent) ELSE Writeable(wakeEvent)}

\* One turn of the loop over the interest list.
VisitEntry ==
  /\ pc = "scan"
  /\ Len(reported) < MaxEvents
  /\ \E fd \in DOMAIN interest :
       LET events == interest[fd].events \cap ReadyFor(fd)
       IN /\ IsNext(interest, cursor, fd)
          /\ cursor' = fd
          /\ reported' = IF events = {} THEN reported
                         ELSE Append(reported, [seq |-> interest[fd].seq,
                                                events |-> events, fd |-> fd])
  /\ UNCHANGED <<registry, ready, pc, call, responseVars, callbackVars, returned>>

\* The loop is through: return from the wait, or sleep 10 ms and walk again
\* over the list, with what has been reported so far still in the buffer.
EndPass(elapsed) ==
  /\ pc = "scan"
  /\ Len(reported) >= MaxEvents \/ After(interest, cursor) = {}
  /\ IF WaitEnds(call.timeout, Len(reported), MaxEvents, elapsed)
     THEN pc' = "handle" /\ UNCHANGED cursor
     ELSE cursor' = -1 /\ UNCHANGED pc
  /\ UNCHANGED <<registry, ready, call, reported, responseVars, callbackVars,
                 returned>>

\* rebuildEpollLocked: a new instance with the wake eventfd and mRequests.
Rebuilt ==
  [fd \in {WakeFd} \cup {requests[s].fd : s \in DOMAIN requests} |->
     IF fd = WakeFd THEN [seq |-> WakeSeq, events |-> {"in"}]
     ELSE LET s == CHOOSE s \in DOMAIN requests : requests[s].fd = fd
          IN [seq |-> s, events |-> requests[s].events]]

\* The responses to the reported events whose registration is still there.
ResponsesTo(events) ==
  LET upTo[i \in 0 .. Len(events)] ==
        IF i = 0 THEN <<>>
        ELSE IF events[i].seq \notin DOMAIN requests THEN upTo[i - 1]
        ELSE Append(upTo[i - 1], [seq |-> events[i].seq, events |-> events[i].events,
                                  request |-> requests[events[i].seq]])
  IN upTo[Len(events)]

WakeReported ==
  \E i \in DOMAIN reported : reported[i].seq = WakeSeq /\ "in" \in reported[i].events

\* pollInner from mLock taken to mLock released.
HandleEvents ==
  /\ pc = "handle"
  /\ pc' = "dispatch"
  /\ turn' = 1
  /\ rebuild' = FALSE
  /\ interest' = IF rebuild THEN Rebuilt ELSE interest
  /\ responses' = IF rebuild THEN <<>> ELSE ResponsesTo(reported)
  /\ wakeEvent' = IF ~rebuild /\ WakeReported /\ Readable(wakeEvent)
                  THEN AfterRead(wakeEvent) ELSE wakeEvent
  /\ result' = IF ~rebuild /\ reported = <<>> THEN TIMEOUT ELSE WAKE
  /\ UNCHANGED <<requests, seqByFd, nextSeq, ready, call, waitVars, index,
                 callbackVars, returned>>

\* The loop over the responses that have a callback.
Uncalled == {i \in turn .. Len(responses) : responses[i].request.ident = CALLBACK}

StartCallback ==
  /\ pc = "dispatch"
  /\ Uncalled # {}
  /\ LET i == CHOOSE k \in Uncalled : \A j \in Uncalled : k <= j
     IN /\ turn' = i + 1
        /\ running' = responses[i].seq
  /\ result' = CALLBACK
  /\ pc' = "callback"
  /\ UNCHANGED <<registry, ready, call, waitVars, responses, index, retired,
                 returned>>

\* Mutant: whatever is registered for the descriptor now is ended.
EndedByFd ==
  LET fd == responses[turn - 1].request.fd
  IN IF fd \in DOMAIN seqByFd THEN seqByFd[fd] ELSE 0

\* The registration a callback that returns 0 ends: the one it was called for.
EndedByCallback == running

\* The callback returns 1 to stay registered, or 0 to be unregistered.
CallbackReturns(stay) ==
  /\ pc = "callback"
  /\ pc' = "dispatch"
  /\ running' = 0
  /\ IF stay THEN UNCHANGED <<interest, requests, seqByFd, rebuild, wakeEvent, retired>>
     ELSE RemoveSequenceNumber(EndedByCallback) /\ retired' = retired \cup {running}
  /\ UNCHANGED <<nextSeq, ready, call, waitVars, responseVars, returned>>

EndPoll ==
  /\ pc = "dispatch"
  /\ Uncalled = {}
  /\ pc' = "once"
  /\ UNCHANGED <<registry, ready, call, waitVars, responseVars, callbackVars,
                 returned>>

-----------------------------------------------------------------------------
(* The descriptors: somebody writes to one, somebody reads it empty. *)

BecomeReady(fd, events) ==
  /\ pc # "dead"
  /\ ready' = [ready EXCEPT ![fd] = @ \cup events]
  /\ UNCHANGED <<registry, pc, call, waitVars, responseVars, callbackVars, returned>>

Consume(fd) ==
  /\ pc # "dead"
  /\ ready' = [ready EXCEPT ![fd] = {}]
  /\ UNCHANGED <<registry, pc, call, waitVars, responseVars, callbackVars, returned>>

-----------------------------------------------------------------------------
CallAddFd ==
  \/ \E fd \in Fds, ident \in Idents, c \in BOOLEAN, m \in EventMasks, d \in BOOLEAN :
       nextSeq < MaxSeq /\ AddFd(fd, ident, c, m, d)
  \/ \E fd \in BadFds : nextSeq < MaxSeq /\ AddFdRefused(fd)
  \/ \E fd \in Fds : nextSeq < MaxSeq /\ AddFdAgain(fd)

CallRemoveFd == \E fd \in Fds, self \in BOOLEAN, d \in BOOLEAN : RemoveFd(fd, self, d)

\* What the looper thread does once a poll has started.
Polling ==
  \/ ReturnIdent
  \/ \E atEnd \in BOOLEAN : ReturnResult(atEnd)
  \/ StartWait
  \/ VisitEntry
  \/ \E elapsed \in BOOLEAN : EndPass(elapsed)
  \/ HandleEvents
  \/ StartCallback
  \/ \E stay \in BOOLEAN : CallbackReturns(stay)
  \/ EndPoll

Polls == \E timeout \in Timeouts, all \in BOOLEAN : Poll(timeout, all)

Environment ==
  \E fd \in Fds :
    (\E m \in EventMasks : BecomeReady(fd, m)) \/ Consume(fd)

Next == CallAddFd \/ CallRemoveFd \/ Polls \/ Polling \/ Environment

\* The looper thread is scheduled, its callbacks return, and the application
\* keeps polling, as the main loop of an Android application does.
Fairness == WF_vars(Polling) /\ WF_vars(Polls)

Spec == Init /\ [][Next]_vars /\ Fairness

-----------------------------------------------------------------------------
(* Properties *)

\* The two maps under mLock describe the same registrations, one each.
MapsInSync ==
  /\ \A s \in DOMAIN requests :
       requests[s].fd \in DOMAIN seqByFd /\ seqByFd[requests[s].fd] = s
  /\ \A fd \in DOMAIN seqByFd :
       seqByFd[fd] \in DOMAIN requests /\ requests[seqByFd[fd]].fd = fd

\* The interest list is what a rebuild would make it.
InterestInSync == ~rebuild /\ interest = Rebuilt

\* Five paths change the two maps and the epoll instance one after the other,
\* from any thread.  They always describe the same registrations ("Both maps
\* must be kept in sync at all times"), and so no rebuild is ever scheduled:
\* the code that copes with one is never reached.
RegistrationsInSync == MapsInSync /\ InterestInSync

\* An event carries only a sequence number through the wait.  However the
\* registrations changed in the meantime, a number that is still registered
\* names the descriptor that was seen ready.
NotMisattributed ==
  \A i \in DOMAIN reported :
    reported[i].seq \in DOMAIN requests =>
      requests[reported[i].seq].fd = reported[i].fd

\* A callback that returns 0 ends its own registration and no other: the one
\* that may have replaced it on the same descriptor while it ran is left alone.
UnregistersItselfOnly ==
  [][pc = "callback" /\ pc' = "dispatch" =>
       \A fd \in DOMAIN seqByFd :
         seqByFd[fd] # running => fd \in DOMAIN seqByFd' /\ seqByFd'[fd] = seqByFd[fd]]_vars

\* A registration that was ended by its own callback is not called again.
NotCalledAgain ==
  [][running' # 0 /\ running' # running => running' \notin retired]_vars

\* The looper is level-triggered: a descriptor that is registered and stays
\* ready is handed to its callback or to the caller of pollOnce, unless the
\* process ends (AddFdAgain and the data race).
Wanted(fd) ==
  fd \in DOMAIN seqByFd /\ requests[seqByFd[fd]].events \cap ready[fd] # {}

Serves(fd) ==
  \/ returned = fd
  \/ running # 0 /\ running \in DOMAIN requests /\ requests[running].fd = fd

ReadyIsServed ==
  \A fd \in Fds : Wanted(fd) ~> (Serves(fd) \/ ~Wanted(fd) \/ pc = "dead")
=============================================================================
