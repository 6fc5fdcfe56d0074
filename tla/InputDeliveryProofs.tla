------------------------ MODULE InputDeliveryProofs ------------------------
(***************************************************************************)
(* The way of an input event, for any number of producers, events and      *)
(* polls: the queue's list of loopers agrees with the looper, and a poll   *)
(* that reports input tells the truth.                                     *)
(*                                                                         *)
(* The second joins everything an event passes: between the write of the   *)
(* eventfd and the fetch, "there is input" is believed in turn by the      *)
(* buffer of the wait, by mResponses and by the application.  Believed     *)
(* says for each of them that it is true as long as the application thread *)
(* is in the poll, since nobody else takes an event out.                   *)
(***************************************************************************)
EXTENDS InputDelivery, SequenceTheorems, WellFoundedInduction, TLAPS

-----------------------------------------------------------------------------
(* The registrations *)

WakeItem == [seq |-> L!WakeSeq, events |-> {"in"}]
ItemOf(s) == [seq |-> s, events |-> {"in"}]
RequestOf == [fd |-> DispatchFd, ident |-> Ident, events |-> {"in"}]

\* What the looper knows while the queue is attached under the number s.
RegisteredAs(s) ==
  /\ s # L!WakeSeq /\ s < nextSeq
  /\ seqByFd = [fd \in {DispatchFd} |-> s]
  /\ requests = [x \in {s} |-> RequestOf]
  /\ interest = [fd \in {WakeFd, DispatchFd} |->
                   IF fd = WakeFd THEN WakeItem ELSE ItemOf(s)]

\* ... and while it is not.
NotRegistered ==
  /\ seqByFd = [fd \in {} |-> 0]
  /\ requests = [s \in {} |-> 0]
  /\ interest = [fd \in {WakeFd} |-> WakeItem]

Registry ==
  /\ nextSeq \in Nat /\ nextSeq > L!WakeSeq
  /\ rebuild = FALSE
  /\ wakeEvent.value = 0
  /\ attached \in BOOLEAN
  /\ attached => \E s \in Nat : RegisteredAs(s)
  /\ ~attached => NotRegistered

\* Callbacks are never called: the only identifier is the application's.
Mask == SUBSET {"in", "out"}
Report == [seq : Nat, events : Mask, fd : {WakeFd, DispatchFd}]
Response == [seq : Nat, events : Mask, request : {RequestOf}]

Loop ==
  /\ lpc \in {"app", "once", "scan", "handle", "dispatch"}
  /\ running = 0
  /\ index \in Nat \ {0} /\ turn \in Nat \ {0}
  /\ reported \in Seq(Report)
  /\ responses \in Seq(Response)

RegistryInv == Registry /\ Loop

-----------------------------------------------------------------------------
(* The responses to a buffer of events *)

\* What the loop over the buffer is said to compute.
Answers(g, events, n) ==
  g = [i \in 0 .. n |->
         IF i = 0 THEN <<>>
         ELSE IF events[i].seq \notin DOMAIN requests THEN g[i - 1]
         ELSE Append(g[i - 1], [seq |-> events[i].seq, events |-> events[i].events,
                                request |-> requests[events[i].seq]])]

\* A set of numbers has a smallest one.
LEMMA SmallestNumber ==
  ASSUME NEW S \in SUBSET Nat, S # {}
  PROVE  \E m \in S : \A n \in S : m <= n
<1>1. \E x \in S : \A y \in S : ~ (<<y, x>> \in OpToRel(<, Nat))
  BY NatLessThanWellFounded, WFMin
<1>2. PICK x \in S : \A y \in S : ~ (y < x)
  BY <1>1 DEF OpToRel
<1>3. \A y \in S : x <= y
  BY <1>2
<1> QED
  BY <1>3

\* There is such a function, by the shortest buffer for which there is none.
LEMMA AnswersExist ==
  ASSUME NEW events, NEW n \in Nat
  PROVE  \E g : Answers(g, events, n)
<1> DEFINE Bad == {m \in Nat : ~ \E g : Answers(g, events, m)}
<1>1. SUFFICES ASSUME Bad # {} PROVE FALSE
  OBVIOUS
<1>2. PICK m \in Bad : \A k \in Bad : m <= k
  <2>1. Bad \in SUBSET Nat
    OBVIOUS
  <2> HIDE DEF Bad
  <2> QED
    BY <1>1, <2>1, SmallestNumber
<1>3. m # 0
  <2>1. Answers([i \in 0 .. 0 |-> <<>>], events, 0)
    BY DEF Answers
  <2> QED
    BY <1>2, <2>1
<1>4. m - 1 \in Nat /\ m - 1 \notin Bad
  BY <1>2, <1>3
<1>5. PICK g : Answers(g, events, m - 1)
  BY <1>4
<1> DEFINE Answer(f, i) ==
             IF i = 0 THEN <<>>
             ELSE IF events[i].seq \notin DOMAIN requests THEN f[i - 1]
             ELSE Append(f[i - 1], [seq |-> events[i].seq, events |-> events[i].events,
                                    request |-> requests[events[i].seq]])
           h == [i \in 0 .. m |-> IF i < m THEN g[i] ELSE Answer(g, i)]
<1>6. ASSUME NEW i \in 0 .. m PROVE h[i] = Answer(h, i)
  <2>1. h[i] = Answer(g, i)
    <3>1. CASE i < m
      <4>1. g = [k \in 0 .. (m - 1) |-> Answer(g, k)]
        BY <1>5, Zenon DEF Answers
      <4>2. i \in 0 .. (m - 1)
        BY <1>4, <3>1
      <4>3. h[i] = g[i]
        BY <3>1
      <4> HIDE DEF Answer, h
      <4> QED
        BY <4>1, <4>2, <4>3
    <3>2. CASE i = m
      <4> HIDE DEF Answer
      <4> QED
        BY <3>2
    <3> QED
      BY <3>1, <3>2
  <2>2. i # 0 => h[i - 1] = g[i - 1]
    BY <1>2
  <2> HIDE DEF h
  <2> QED
    BY <2>1, <2>2
<1>7. h = [i \in 0 .. m |-> Answer(h, i)]
  <2>1. h = [i \in 0 .. m |-> h[i]]
    OBVIOUS
  <2> HIDE DEF h, Answer
  <2> QED
    BY <1>6, <2>1
<1>8. Answers(h, events, m)
  <2> HIDE DEF h
  <2> QED
    BY <1>7, Zenon DEF Answers
<1> QED
  BY <1>2, <1>8

\* The responses, and what the loop has after each event.
LEMMA ResponsesAre ==
  ASSUME NEW events, Len(events) \in Nat
  PROVE  \E g : /\ Answers(g, events, Len(events))
                /\ L!ResponsesTo(events) = g[Len(events)]
<1> DEFINE g == CHOOSE f : Answers(f, events, Len(events))
<1>1. Answers(g, events, Len(events))
  BY AnswersExist
<1>2. L!ResponsesTo(events) = g[Len(events)]
  BY Zenon DEF L!ResponsesTo, Answers
<1> QED
  BY <1>1, <1>2

\* No response names another registration than the queue's.
LEMMA ResponsesAreTyped ==
  ASSUME NEW events \in Seq(Report),
         \A s \in DOMAIN requests : requests[s] = RequestOf
  PROVE  L!ResponsesTo(events) \in Seq(Response)
<1>1. PICK g : /\ Answers(g, events, Len(events))
               /\ L!ResponsesTo(events) = g[Len(events)]
  BY ResponsesAre
<1> DEFINE Bad == {m \in Nat : m <= Len(events) /\ g[m] \notin Seq(Response)}
<1>2. SUFFICES Bad = {}
  BY <1>1
<1>3. SUFFICES ASSUME Bad # {} PROVE FALSE
  OBVIOUS
<1>4. PICK m \in Bad : \A k \in Bad : m <= k
  <2>1. Bad \in SUBSET Nat
    OBVIOUS
  <2> HIDE DEF Bad
  <2> QED
    BY <1>3, <2>1, SmallestNumber
<1>5. g[m] = IF m = 0 THEN <<>>
             ELSE IF events[m].seq \notin DOMAIN requests THEN g[m - 1]
             ELSE Append(g[m - 1], [seq |-> events[m].seq, events |-> events[m].events,
                                    request |-> requests[events[m].seq]])
  <2>1. m \in 0 .. Len(events)
    BY <1>4
  <2> QED
    BY <1>1, <2>1, Zenon DEF Answers
<1>6. m # 0
  <2>1. <<>> \in Seq(Response) /\ g[m] \notin Seq(Response)
    BY <1>4
  <2> QED
    BY <1>5, <2>1
<1>7. m \in 1 .. Len(events) /\ g[m - 1] \in Seq(Response)
  BY <1>4, <1>6
<1>8. events[m] \in Report
  BY <1>7
<1>9. events[m].seq \in DOMAIN requests =>
        [seq |-> events[m].seq, events |-> events[m].events,
         request |-> requests[events[m].seq]] \in Response
  BY <1>8 DEF Report, Response
<1>10. g[m] \in Seq(Response)
  <2> DEFINE new == [seq |-> events[m].seq, events |-> events[m].events,
                     request |-> requests[events[m].seq]]
  <2>1. CASE events[m].seq \notin DOMAIN requests
    BY <1>5, <1>6, <1>7, <2>1
  <2>2. CASE events[m].seq \in DOMAIN requests
    <3>1. new \in Response
      BY <1>9, <2>2
    <3>2. g[m] = Append(g[m - 1], new)
      BY <1>5, <1>6, <2>2
    <3> HIDE DEF new
    <3> QED
      BY <1>7, <3>1, <3>2
  <2> QED
    BY <2>1, <2>2
<1> QED
  BY <1>4, <1>10

-----------------------------------------------------------------------------
(* The registrations are an invariant *)

LEMMA InitRegistry == Init => RegistryInv
<1> SUFFICES ASSUME Init PROVE RegistryInv
  OBVIOUS
<1>1. L!Init /\ attached = FALSE
  BY DEF Init
<1>2. NotRegistered
  BY <1>1 DEF L!Init, L!WakeSeq, NotRegistered, WakeItem
<1>3. nextSeq = 2 /\ rebuild = FALSE /\ wakeEvent.value = 0
  BY <1>1 DEF L!Init, L!WakeSeq, L!NewEventFd
<1>4. Loop
  BY <1>1 DEF L!Init, Loop
<1>5. nextSeq > L!WakeSeq
  BY <1>3 DEF L!WakeSeq
<1> QED
  BY <1>1, <1>2, <1>3, <1>4, <1>5, Zenon DEF RegistryInv, Registry

LEMMA AttachKeepsRegistry ==
  ASSUME RegistryInv, AttachLooper
  PROVE  RegistryInv'
<1> USE DEF RegistryInv, Registry
<1>1. ~attached /\ NotRegistered /\ attached' = TRUE
  BY DEF AttachLooper
<1>2. L!AddFd(DispatchFd, Ident, FALSE, {"in"}, FALSE)
  BY DEF AttachLooper, InputMask
<1>3. nextSeq' = nextSeq + 1
  BY <1>2 DEF L!AddFd, L!SeqAfter
<1>4. ASSUME NEW s \in Nat, s = nextSeq PROVE RegisteredAs(s)'
  <2>1. requests' = [x \in {s} |-> RequestOf]
    BY <1>1, <1>2, <1>4 DEF NotRegistered, L!AddFd, L!Emplace, RequestOf
  <2>2. seqByFd' = [fd \in {DispatchFd} |-> s]
    BY <1>1, <1>2, <1>4 DEF NotRegistered, L!AddFd, L!Emplace
  <2>3. interest' = [fd \in {WakeFd, DispatchFd} |->
                       IF fd = WakeFd THEN WakeItem ELSE ItemOf(s)]
    BY <1>1, <1>2, <1>4, InputDeliveryAssumption
       DEF NotRegistered, L!AddFd, L!AfterCtl, L!Emplace, ItemOf
  <2> QED
    BY <2>1, <2>2, <2>3, <1>3, <1>4 DEF RegisteredAs, L!WakeSeq
<1>5. Loop'
  BY <1>2 DEF L!AddFd, L!DataRace, L!waitVars, L!responseVars, L!callbackVars, Loop
<1>6. \E s \in Nat : RegisteredAs(s)'
  BY <1>4
<1>7. rebuild' = rebuild /\ wakeEvent' = wakeEvent
  BY <1>2 DEF L!AddFd
<1> QED
  BY <1>1, <1>3, <1>5, <1>6, <1>7 DEF L!WakeSeq

LEMMA DetachKeepsRegistry ==
  ASSUME RegistryInv, DetachLooper
  PROVE  RegistryInv'
<1> USE DEF RegistryInv, Registry
<1>1. attached /\ attached' = FALSE
  BY DEF DetachLooper
<1>2. PICK s \in Nat : RegisteredAs(s)
  BY <1>1
<1>3. L!RemoveFd(DispatchFd, TRUE, FALSE)
  BY DEF DetachLooper, Deregister
<1>4. L!RemoveSequenceNumber(s)
  BY <1>2, <1>3 DEF L!RemoveFd, RegisteredAs
<1>5. L!CtlAnswer(interest, "DEL", DispatchFd) = "ok"
  BY <1>2, InputDeliveryAssumption DEF L!CtlAnswer, RegisteredAs
<1>6. s \in DOMAIN requests /\ requests[s].fd = DispatchFd
  BY <1>2 DEF RegisteredAs, RequestOf
<1>7. /\ requests' = L!Without(requests, s)
      /\ seqByFd' = L!Without(seqByFd, DispatchFd)
      /\ interest' = L!Without(interest, DispatchFd)
      /\ rebuild' = rebuild /\ wakeEvent' = wakeEvent
  BY <1>4, <1>5, <1>6 DEF L!RemoveSequenceNumber, L!ForgetFd, L!AfterCtl
<1>8. NotRegistered'
  <2>1. requests' = [x \in {} |-> 0] /\ seqByFd' = [fd \in {} |-> 0]
    BY <1>2, <1>7 DEF RegisteredAs, L!Without
  <2>2. interest' = [fd \in {WakeFd} |-> WakeItem]
    BY <1>2, <1>7, InputDeliveryAssumption DEF RegisteredAs, L!Without
  <2> QED
    BY <2>1, <2>2 DEF NotRegistered
<1>9. Loop' /\ nextSeq' = nextSeq
  BY <1>3 DEF L!RemoveFd, L!DataRace, L!waitVars, L!responseVars, Loop
<1> QED
  BY <1>1, <1>7, <1>8, <1>9

\* The registry as the steps of a poll leave it.
RegistryUnchanged ==
  UNCHANGED <<interest, requests, seqByFd, nextSeq, rebuild, wakeEvent, attached>>

LEMMA RegistryStays == Registry /\ RegistryUnchanged => Registry'
<1> SUFFICES ASSUME Registry, RegistryUnchanged PROVE Registry'
  OBVIOUS
<1>1. \A s \in Nat : RegisteredAs(s) => RegisteredAs(s)'
  BY Zenon DEF RegistryUnchanged, RegisteredAs
<1>2. NotRegistered => NotRegistered'
  BY Zenon DEF RegistryUnchanged, NotRegistered
<1>3. (\E s \in Nat : RegisteredAs(s)) => \E s \in Nat : RegisteredAs(s)'
  BY <1>1, Zenon
<1> QED
  BY <1>2, <1>3, Zenon DEF RegistryUnchanged, Registry

\* Every entry of the interest list belongs to the queue or is the wake eventfd.
LEMMA Entries ==
  ASSUME RegistryInv
  PROVE  /\ DOMAIN interest \subseteq {WakeFd, DispatchFd}
         /\ \A fd \in DOMAIN interest :
              /\ interest[fd].seq \in Nat /\ interest[fd].events = {"in"}
              /\ interest[fd].seq = L!WakeSeq <=> fd = WakeFd
              /\ fd = DispatchFd => attached /\ interest[fd].seq = seqByFd[fd]
         /\ WakeFd \in DOMAIN interest
         /\ attached <=> DispatchFd \in DOMAIN interest
         /\ attached <=> DispatchFd \in DOMAIN seqByFd
         /\ \A s \in DOMAIN requests : requests[s] = RequestOf
         /\ attached => DOMAIN requests = {seqByFd[DispatchFd]}
         /\ ~attached => DOMAIN requests = {}
<1>1. CASE attached
  <2>1. PICK s \in Nat : RegisteredAs(s)
    BY <1>1 DEF RegistryInv, Registry
  <2> QED
    BY <1>1, <2>1, InputDeliveryAssumption DEF RegisteredAs, WakeItem, ItemOf, L!WakeSeq
<1>2. CASE ~attached
  BY <1>2, InputDeliveryAssumption
     DEF RegistryInv, Registry, NotRegistered, WakeItem, L!WakeSeq
<1> QED
  BY <1>1, <1>2

\* No response has a callback.
LEMMA NobodyIsCalled == Loop => L!Uncalled = {}
<1> SUFFICES ASSUME Loop, NEW i \in L!Uncalled PROVE FALSE
  OBVIOUS
<1>1. i \in 1 .. Len(responses) /\ responses[i].request.ident = -2
  BY DEF L!Uncalled, L!CALLBACK, Loop
<1>2. responses[i] \in Response
  BY <1>1 DEF Loop
<1> QED
  BY <1>1, <1>2, InputDeliveryAssumption DEF Response, RequestOf

LEMMA VisitKeepsLoop ==
  ASSUME RegistryInv, L!VisitEntry
  PROVE  Loop'
<1>1. PICK fd \in DOMAIN interest :
        LET events == interest[fd].events \cap L!ReadyFor(fd)
        IN reported' = IF events = {} THEN reported
                       ELSE Append(reported, [seq |-> interest[fd].seq,
                                              events |-> events, fd |-> fd])
  BY DEF L!VisitEntry
<1> DEFINE seen == interest[fd].events \cap L!ReadyFor(fd)
           entry == [seq |-> interest[fd].seq, events |-> seen, fd |-> fd]
<1>2. entry \in Report
  <2>1. interest[fd].seq \in Nat /\ seen \in Mask /\ fd \in {WakeFd, DispatchFd}
    BY Entries DEF Mask
  <2> HIDE DEF seen
  <2> QED
    BY <2>1 DEF Report
<1>3. reported' = reported \/ reported' = Append(reported, entry)
  BY <1>1
<1> HIDE DEF entry
<1>4. reported' \in Seq(Report)
  BY <1>2, <1>3 DEF RegistryInv, Loop
<1> QED
  BY <1>4 DEF L!VisitEntry, L!responseVars, L!callbackVars, RegistryInv, Loop

\* The wake eventfd is never written, and so it is never reported readable.
LEMMA HandleKeeps ==
  ASSUME RegistryInv, L!HandleEvents
  PROVE  /\ Loop' /\ UNCHANGED <<interest, requests, seqByFd, nextSeq, rebuild, wakeEvent>>
         /\ responses' = L!ResponsesTo(reported)
<1>1. rebuild = FALSE /\ ~ L!Readable(wakeEvent)
  BY DEF RegistryInv, Registry, L!Readable
<1>2. responses' = L!ResponsesTo(reported)
  BY <1>1 DEF L!HandleEvents
<1>3. responses' \in Seq(Response)
  BY <1>2, Entries, ResponsesAreTyped DEF RegistryInv, Loop
<1>4. UNCHANGED <<interest, requests, seqByFd, nextSeq, rebuild, wakeEvent>>
  BY <1>1 DEF L!HandleEvents
<1>5. Loop'
  BY <1>3 DEF L!HandleEvents, L!waitVars, L!callbackVars, RegistryInv, Loop
<1> QED
  BY <1>2, <1>4, <1>5

\* A poll that returns leaves nothing of the looper changed but its place.
LEMMA ReturnsKeepLoop ==
  ASSUME RegistryInv,
         L!ReturnIdent \/ \E atEnd \in BOOLEAN : L!ReturnResult(atEnd)
  PROVE  /\ Loop' /\ UNCHANGED <<interest, requests, seqByFd, nextSeq, rebuild, wakeEvent>>
<1> USE DEF RegistryInv, Loop, L!registry, L!waitVars, L!callbackVars
<1>1. Len(responses) \in Nat
  OBVIOUS
<1>2. CASE L!ReturnIdent
  <2> DEFINE i == CHOOSE k \in L!Unreturned : \A j \in L!Unreturned : k <= j
  <2>1. L!Unreturned \in SUBSET Nat /\ L!Unreturned # {}
    <3>1. index .. Len(responses) \subseteq Nat
      BY <1>1
    <3>2. L!Unreturned \subseteq index .. Len(responses)
      BY DEF L!Unreturned
    <3> QED
      BY <1>2, <3>1, <3>2 DEF L!ReturnIdent
  <2>2. i \in L!Unreturned
    BY <2>1, SmallestNumber
  <2>3. index' = i + 1
    BY <1>2, Zenon DEF L!ReturnIdent, L!IndexAfter
  <2>4. index' \in Nat \ {0}
    <3>1. i \in Nat
      BY <2>1, <2>2
    <3> HIDE DEF i
    <3> QED
      BY <2>3, <3>1
  <2> QED
    BY <1>2, <2>4 DEF L!ReturnIdent
<1>3. CASE \E atEnd \in BOOLEAN : L!ReturnResult(atEnd)
  BY <1>1, <1>3 DEF L!ReturnResult
<1> QED
  BY <1>2, <1>3

\* Every other step of a poll.
LEMMA PollKeepsRegistry ==
  ASSUME RegistryInv, PollStep
  PROVE  RegistryInv' /\ RegistryUnchanged
<1>1. attached' = attached
  BY DEF PollStep
<1>2. Loop' /\ UNCHANGED <<interest, requests, seqByFd, nextSeq, rebuild, wakeEvent>>
  <2> USE DEF L!registry
  <2>1. CASE L!ReturnIdent \/ \E atEnd \in BOOLEAN : L!ReturnResult(atEnd)
    BY <2>1, ReturnsKeepLoop
  <2>2. CASE L!StartWait
    BY <2>2 DEF L!StartWait, L!callbackVars, RegistryInv, Loop
  <2>3. CASE L!VisitEntry
    BY <2>3, VisitKeepsLoop DEF L!VisitEntry
  <2>4. CASE \E elapsed \in BOOLEAN : L!EndPass(elapsed)
    BY <2>4 DEF L!EndPass, L!responseVars, L!callbackVars, RegistryInv, Loop
  <2>5. CASE L!HandleEvents
    BY <2>5, HandleKeeps
  <2>6. ~ L!StartCallback
    BY NobodyIsCalled DEF L!StartCallback, RegistryInv
  <2>7. ASSUME NEW stay \in BOOLEAN PROVE ~ L!CallbackReturns(stay)
    BY DEF L!CallbackReturns, RegistryInv, Loop
  <2>8. CASE L!EndPoll
    BY <2>8 DEF L!EndPoll, L!waitVars, L!responseVars, L!callbackVars, RegistryInv, Loop
  <2> QED
    BY <2>1, <2>2, <2>3, <2>4, <2>5, <2>6, <2>7, <2>8 DEF PollStep, L!Polling
<1>3. RegistryUnchanged
  BY <1>1, <1>2 DEF RegistryUnchanged
<1> QED
  BY <1>2, <1>3, RegistryStays DEF RegistryInv

LEMMA RegistryStep == RegistryInv /\ [Next]_vars => RegistryInv'
<1> SUFFICES ASSUME RegistryInv, [Next]_vars PROVE RegistryInv'
  OBVIOUS
<1>1. ASSUME UNCHANGED <<looperVars, attached>> PROVE RegistryInv'
  BY <1>1, RegistryStays DEF looperVars, RegistryUnchanged, RegistryInv, Loop
<1>2. CASE UNCHANGED vars
  BY <1>1, <1>2 DEF vars
<1>3. CASE AttachLooper
  BY <1>3, AttachKeepsRegistry
<1>4. CASE DetachLooper
  BY <1>4, DetachKeepsRegistry
<1>5. CASE \E p \in Producers : Produce(p)
  BY <1>1, <1>5 DEF Produce
<1>6. CASE StartPoll
  <2>1. RegistryUnchanged
    BY <1>6 DEF StartPoll, L!Polls, L!Poll, L!registry, RegistryUnchanged
  <2>2. Loop'
    BY <1>6 DEF StartPoll, L!Polls, L!Poll, L!waitVars, L!callbackVars, RegistryInv, Loop
  <2> QED
    BY <2>1, <2>2, RegistryStays DEF RegistryInv
<1>7. CASE PollStep
  BY <1>7, PollKeepsRegistry
<1>8. CASE Fetch \/ FetchStep
  BY <1>1, <1>8 DEF Fetch, FetchStep
<1> QED
  BY <1>2, <1>3, <1>4, <1>5, <1>6, <1>7, <1>8 DEF Next

\* The queue's list of loopers and the looper's registrations agree, whatever
\* the timeouts are and whenever the application attaches and detaches.
THEOREM AttachedMeansRegistered == Spec => []AttachedIffRegistered
<1>1. RegistryInv => AttachedIffRegistered
  BY Entries DEF AttachedIffRegistered
<1> QED
  BY <1>1, InitRegistry, RegistryStep, PTL DEF Spec

-----------------------------------------------------------------------------
(* What is believed of the queue *)

\* Who is inside mLock, and that nobody who is about to write the eventfd
\* finds the vector empty.
Queue ==
  /\ pending \in Seq(Events \cup {NoEvent})
  /\ hand \in [Producers \cup {App} -> Events \cup {NoEvent}]
  /\ dispatch \in [value : Nat, nonblock : BOOLEAN, semaphore : BOOLEAN]
  /\ qpc \in [Producers \cup {App} -> {"idle", "enqueue", "signal", "drain", "unlock", "handling"}]
  /\ \A t \in Producers \cup {App} : qpc[t] \in {"signal", "drain", "unlock"} => mLock = t
  /\ \A p \in Producers : qpc[p] = "signal" => pending # <<>>
  /\ \A p \in Producers : qpc[p] # "drain"
  /\ qpc[App] # "signal" /\ qpc[App] # "enqueue"

\* The eventfd says that there is input, from the moment it is written.
BelievedByEventFd == qpc[App] # "drain" /\ Q!Readable(dispatch) => pending # <<>>

\* The wait puts the queue at most once into its buffer, as it ends with the
\* pass on which it did.
BelievedByWait ==
  lpc \in {"scan", "handle"} =>
    /\ responses = <<>> /\ index = 1
    /\ Len(reported) <= 1
    /\ reported # <<>> => pending # <<>>
    /\ lpc = "scan" => cursor \in {-1, WakeFd, DispatchFd}
    /\ lpc = "scan" /\ cursor < DispatchFd => reported = <<>>

\* pollOnce has at most one response, and returns it on its next turn.
BelievedByLooper ==
  /\ Len(responses) <= 1
  /\ lpc \in {"once", "dispatch"} /\ index <= Len(responses) => pending # <<>>
  /\ lpc = "app" => index > Len(responses)

\* The application fetches once it is told, and polls again after that.
BelievedByApp ==
  /\ due \in BOOLEAN
  /\ due => pending # <<>>
  /\ lpc # "app" => ~due /\ returned = -1
  /\ lpc # "app" \/ due => qpc[App] = "idle"

TimeoutOfCall == call.timeout \in {0, -1}

Believed ==
  /\ Queue /\ BelievedByEventFd /\ BelievedByWait /\ BelievedByLooper /\ BelievedByApp
  /\ TimeoutOfCall

IInv == RegistryInv /\ Believed

-----------------------------------------------------------------------------
(* Steps of the queue *)

LEMMA ProduceKeeps ==
  ASSUME Queue, BelievedByEventFd, NEW p \in Producers,
         Q!ProducerStep(p) \/ \E e \in Events : Q!CreateEvent(p, e)
  PROVE  /\ Queue' /\ BelievedByEventFd'
         /\ qpc'[App] = qpc[App]
         /\ pending # <<>> => pending' # <<>>
<1> USE InputDeliveryAssumption DEF Queue, BelievedByEventFd, Q!Readable
<1>1. CASE \E e \in Events : Q!CreateEvent(p, e)
  BY <1>1 DEF Q!CreateEvent, Q!Goto
<1>2. CASE Q!EnqueueEvent(p)
  <2>1. pending' = Append(pending, hand[p]) /\ pending' # <<>>
    BY <1>2 DEF Q!EnqueueEvent, Q!Join
  <2>2. pending' \in Seq(Events \cup {NoEvent}) /\ hand' \in [Producers \cup {App} -> Events \cup {NoEvent}]
    BY <1>2, <2>1 DEF Q!EnqueueEvent
  <2>3. PICK label \in {"signal", "unlock"} : qpc' = [qpc EXCEPT ![p] = label]
    BY <1>2 DEF Q!EnqueueEvent, Q!Goto
  <2>4. mLock = Nobody /\ mLock' = p /\ dispatch' = dispatch
    BY <1>2 DEF Q!EnqueueEvent
  <2>5. \A t \in Producers \cup {App} : t # p => qpc[t] \notin {"signal", "drain", "unlock"}
    BY <2>4
  <2> QED
    BY <2>1, <2>2, <2>3, <2>4, <2>5
<1>3. CASE Q!Signal(p)
  <2>1. dispatch' \in [value : Nat, nonblock : BOOLEAN, semaphore : BOOLEAN]
    BY <1>3 DEF Q!Signal, Q!HasRoomFor, Q!AfterWrite
  <2> QED
    BY <1>3, <2>1 DEF Q!Signal, Q!Goto
<1>4. CASE Q!UnlockProducer(p)
  BY <1>4 DEF Q!UnlockProducer, Q!Goto
<1> QED
  BY <1>1, <1>2, <1>3, <1>4 DEF Q!ProducerStep

LEMMA GetEventKeeps ==
  ASSUME Queue, BelievedByEventFd, Q!GetEvent(App)
  PROVE  Queue' /\ BelievedByEventFd'
<1> USE InputDeliveryAssumption DEF Queue, BelievedByEventFd, Q!Readable
<1>1. pending' \in Seq(Events \cup {NoEvent})
  BY DEF Q!GetEvent, Q!Rest
<1>2. hand' \in [Producers \cup {App} -> Events \cup {NoEvent}]
  <2>1. pending # <<>> => Head(pending) \in Events \cup {NoEvent}
    OBVIOUS
  <2> QED
    BY <2>1 DEF Q!GetEvent
<1>3. qpc' = [qpc EXCEPT ![App] = IF pending' = <<>> THEN "drain" ELSE "unlock"]
  BY DEF Q!GetEvent, Q!Goto, Q!NeedsDrain
<1>4. mLock = Nobody /\ mLock' = App /\ dispatch' = dispatch
  BY DEF Q!GetEvent
<1>5. \A t \in Producers \cup {App} : qpc[t] \notin {"signal", "drain", "unlock"}
  BY <1>4
<1> QED
  BY <1>1, <1>2, <1>3, <1>4, <1>5

LEMMA ConsumeKeeps ==
  ASSUME Queue, BelievedByEventFd, Q!ConsumerStep(App)
  PROVE  Queue' /\ BelievedByEventFd' /\ qpc[App] # "idle"
<1> USE InputDeliveryAssumption DEF Queue, BelievedByEventFd, Q!Readable
<1>1. CASE Q!Drain(App)
  <2>1. Q!Readable(dispatch) => dispatch' \in [value : Nat, nonblock : BOOLEAN, semaphore : BOOLEAN]
    BY <1>1 DEF Q!Drain, Q!AfterRead
  <2> QED
    BY <1>1, <2>1 DEF Q!Drain, Q!Goto
<1>2. CASE Q!UnlockConsumer(App)
  BY <1>2 DEF Q!UnlockConsumer, Q!Goto
<1>3. CASE Q!FinishEvent(App)
  BY <1>3 DEF Q!FinishEvent, Q!Goto
<1> QED
  BY <1>1, <1>2, <1>3 DEF Q!ConsumerStep

-----------------------------------------------------------------------------
(* Steps of a poll *)

\* What no step of the looper changes.
LEMMA QueueStays ==
  ASSUME Queue, BelievedByEventFd, UNCHANGED queueVars
  PROVE  Queue' /\ BelievedByEventFd'
BY DEF queueVars, Queue, BelievedByEventFd, Q!Readable

\* What is believed of the wait, of the looper and by the application.
Passed == BelievedByWait /\ BelievedByLooper /\ BelievedByApp /\ TimeoutOfCall

LEMMA ZeroOrOne ==
  /\ \A n \in Nat : n <= 1 => n = 0 \/ n = 1
  /\ \A n : n = 0 \/ n = 1 => n <= 1
OBVIOUS

LEMMA FirstOfOne ==
  ASSUME NEW S, NEW q \in Seq(S), Len(q) = 1
  PROVE  q[1] \in S
OBVIOUS

\* The buffer of one event becomes one response at most.
LEMMA OneResponse ==
  ASSUME NEW events \in Seq(Report), Len(events) <= 1
  PROVE  Len(L!ResponsesTo(events)) <= Len(events)
<1>1. PICK g : /\ Answers(g, events, Len(events))
               /\ L!ResponsesTo(events) = g[Len(events)]
  BY ResponsesAre
<1>2. g[0] = <<>>
  <2>1. 0 \in 0 .. Len(events)
    OBVIOUS
  <2> QED
    BY <1>1, <2>1, Zenon DEF Answers
<1>3. CASE Len(events) = 0
  BY <1>1, <1>2, <1>3
<1>4. CASE Len(events) = 1
  <2> DEFINE response == [seq |-> events[1].seq, events |-> events[1].events,
                          request |-> requests[events[1].seq]]
  <2>1. g[1] = g[0] \/ g[1] = Append(g[0], response)
    <3>1. 1 \in 0 .. Len(events) /\ 1 - 1 = 0 /\ 1 # 0
      BY <1>4
    <3>2. g[1] = IF 1 = 0 THEN <<>>
                 ELSE IF events[1].seq \notin DOMAIN requests THEN g[1 - 1]
                 ELSE Append(g[1 - 1], response)
      BY <1>1, <3>1, Zenon DEF Answers
    <3> HIDE DEF response
    <3> QED
      BY <3>1, <3>2
  <2> HIDE DEF response
  <2>2. Len(Append(<<>>, response)) = 1 /\ Len(<<>>) = 0
    OBVIOUS
  <2>3. Len(g[1]) = 0 \/ Len(g[1]) = 1
    BY <1>2, <2>1, <2>2, Zenon
  <2>4. Len(g[1]) <= 1
    BY <2>3, ZeroOrOne
  <2> QED
    BY <1>1, <1>4, <2>4, Zenon
<1>5. Len(events) \in Nat
  OBVIOUS
<1>6. Len(events) = 0 \/ Len(events) = 1
  BY <1>5, ZeroOrOne
<1> QED
  BY <1>3, <1>4, <1>6

LEMMA ShortResponses == IInv => Len(responses) \in {0, 1}
<1> SUFFICES ASSUME IInv PROVE Len(responses) \in {0, 1}
  OBVIOUS
<1>1. Len(responses) \in Nat
  BY DEF IInv, RegistryInv, Loop
<1>2. Len(responses) <= 1
  BY DEF IInv, Believed, BelievedByLooper
<1> QED
  BY <1>1, <1>2, ZeroOrOne

LEMMA ReturnIdentKeeps ==
  ASSUME IInv, PollStep, L!ReturnIdent
  PROVE  Passed'
<1> USE DEF IInv, Believed, BelievedByLooper, BelievedByApp
<1>1. Len(responses) \in {0, 1} /\ index \in Nat \ {0}
  BY ShortResponses DEF RegistryInv, Loop
<1>2. L!Unreturned = {1} /\ index = 1 /\ Len(responses) = 1
  BY <1>1 DEF L!ReturnIdent, L!Unreturned
<1>3. index' = 2 /\ returned' = responses[1].request.fd
  BY <1>2 DEF L!ReturnIdent, L!IndexAfter
<1>4. responses[1].request = RequestOf
  <2>1. responses[1] \in Response
    <3>1. responses \in Seq(Response)
      BY DEF RegistryInv, Loop
    <3> QED
      BY <1>2, <3>1, FirstOfOne
  <2> QED
    BY <2>1 DEF Response
<1>5. pending # <<>>
  BY <1>2 DEF L!ReturnIdent
<1>6. returned' = DispatchFd /\ lpc' = "app" /\ due' = TRUE
  <2>1. returned' = DispatchFd
    BY <1>3, <1>4 DEF RequestOf
  <2>2. lpc' = "app"
    BY DEF L!ReturnIdent
  <2> QED
    BY <2>1, <2>2 DEF PollStep
<1>7. UNCHANGED <<pending, qpc, responses, call>> /\ qpc[App] = "idle"
  BY DEF L!ReturnIdent, PollStep, queueVars
<1>8. BelievedByLooper'
  <2>1. Len(responses') = 1 /\ index' = 2
    BY <1>2, <1>3, <1>7
  <2>2. Len(responses') <= 1 /\ index' > Len(responses')
    BY <2>1
  <2> QED
    BY <1>6, <2>2, Zenon
<1>9. BelievedByApp'
  BY <1>5, <1>6, <1>7
<1> QED
  BY <1>6, <1>7, <1>8, <1>9 DEF Passed, BelievedByWait, TimeoutOfCall

LEMMA ReturnResultKeeps ==
  ASSUME IInv, PollStep, NEW atEnd \in BOOLEAN, L!ReturnResult(atEnd)
  PROVE  Passed'
<1> USE DEF IInv, Believed, BelievedByLooper, BelievedByApp
<1>1. Len(responses) \in {0, 1} /\ index' = Len(responses) + 1
  BY ShortResponses DEF L!ReturnResult
<1>2. returned' = -1 /\ lpc' \in {"app", "once"} /\ ~due
  BY DEF L!ReturnResult
<1>3. due' = FALSE
  BY <1>2, InputDeliveryAssumption DEF PollStep
<1>4. UNCHANGED <<pending, qpc, responses, call>> /\ qpc[App] = "idle"
  BY DEF L!ReturnResult, PollStep, queueVars
<1>5. BelievedByLooper'
  <2>1. Len(responses) <= 1 /\ index' > Len(responses) /\ ~(index' <= Len(responses))
    BY <1>1
  <2>2. responses' = responses
    BY <1>4
  <2> QED
    BY <2>1, <2>2, Zenon
<1>6. BelievedByApp'
  BY <1>2, <1>3, <1>4
<1> QED
  BY <1>2, <1>4, <1>5, <1>6 DEF Passed, BelievedByWait, TimeoutOfCall

\* What the steps inside the wait leave to the application.
LEMMA StillAway ==
  ASSUME IInv, PollStep, lpc # "app", lpc' # "app", returned' = returned
  PROVE  BelievedByApp'
BY DEF IInv, Believed, BelievedByApp, PollStep, queueVars

LEMMA StartWaitKeeps ==
  ASSUME IInv, PollStep, L!StartWait
  PROVE  Passed'
<1>1. BelievedByApp'
  BY StillAway DEF L!StartWait
<1>2. BelievedByWait' /\ BelievedByLooper' /\ TimeoutOfCall'
  BY DEF L!StartWait, IInv, Believed, BelievedByWait, BelievedByLooper, TimeoutOfCall
<1> QED
  BY <1>1, <1>2 DEF Passed

LEMMA VisitKeeps ==
  ASSUME IInv, PollStep, L!VisitEntry
  PROVE  Passed'
<1> USE DEF IInv, Believed
<1>1. BelievedByApp'
  BY StillAway DEF L!VisitEntry
<1>2. lpc = "scan" /\ UNCHANGED <<lpc, responses, index, call, pending>>
  BY DEF L!VisitEntry, L!responseVars, PollStep, queueVars
<1>3. PICK fd \in DOMAIN interest :
        /\ L!IsNext(interest, cursor, fd)
        /\ cursor' = fd
        /\ LET events == interest[fd].events \cap L!ReadyFor(fd)
           IN reported' = IF events = {} THEN reported
                          ELSE Append(reported, [seq |-> interest[fd].seq,
                                                 events |-> events, fd |-> fd])
  BY DEF L!VisitEntry
<1>4. fd > cursor /\ fd \in {WakeFd, DispatchFd} /\ interest[fd].events = {"in"}
  BY <1>3, Entries DEF L!IsNext, L!After
<1>5. CASE fd = WakeFd
  <2>1. "in" \notin L!ReadyFor(fd)
    BY <1>5 DEF L!ReadyFor, L!Readable, RegistryInv, Registry
  <2>2. reported' = reported
    BY <1>3, <1>4, <2>1
  <2>3. cursor \in Int /\ DispatchFd \in Int /\ fd \in Int
    BY <1>2, <1>4, InputDeliveryAssumption DEF BelievedByWait
  <2>4. cursor' < DispatchFd => cursor < DispatchFd
    BY <1>3, <1>4, <2>3
  <2> QED
    BY <1>1, <1>2, <1>3, <1>5, <2>2, <2>4
       DEF Passed, BelievedByWait, BelievedByLooper, TimeoutOfCall
<1>6. CASE fd = DispatchFd
  <2>1. reported = <<>>
    BY <1>2, <1>4, <1>6 DEF BelievedByWait
  <2>2. L!ReadyFor(fd) = IF Q!Readable(dispatch) THEN {"in"} ELSE {}
    BY <1>6, InputDeliveryAssumption DEF L!ReadyFor, Ready
  <2>3. qpc[App] = "idle"
    BY <1>2 DEF BelievedByApp
  <2>4. Len(reported') <= 1 /\ (reported' # <<>> => pending # <<>>)
    BY <1>3, <1>4, <2>1, <2>2, <2>3 DEF BelievedByEventFd
  <2>5. ~(cursor' < DispatchFd)
    BY <1>3, <1>6, InputDeliveryAssumption
  <2> QED
    BY <1>1, <1>2, <1>3, <1>6, <2>4, <2>5
       DEF Passed, BelievedByWait, BelievedByLooper, TimeoutOfCall
<1> QED
  BY <1>4, <1>5, <1>6

LEMMA EndPassKeeps ==
  ASSUME IInv, PollStep, NEW elapsed \in BOOLEAN, L!EndPass(elapsed)
  PROVE  Passed'
<1> USE DEF IInv, Believed
<1>1. BelievedByApp'
  BY StillAway DEF L!EndPass
<1>2. lpc = "scan" /\ UNCHANGED <<reported, responses, index, call, pending>>
  BY DEF L!EndPass, L!responseVars, PollStep, queueVars
<1>3. CASE L!WaitEnds(call.timeout, Len(reported), MaxEvents, elapsed)
  <2>1. lpc' = "handle"
    BY <1>3 DEF L!EndPass
  <2> QED
    BY <1>1, <1>2, <2>1 DEF Passed, BelievedByWait, BelievedByLooper, TimeoutOfCall
<1>4. CASE ~ L!WaitEnds(call.timeout, Len(reported), MaxEvents, elapsed)
  <2>1. lpc' = "scan" /\ cursor' = -1
    BY <1>2, <1>4 DEF L!EndPass
  <2>2. reported = <<>>
    <3>1. call.timeout = -1 /\ ~(Len(reported) > 0)
      BY <1>4 DEF L!WaitEnds, TimeoutOfCall
    <3> QED
      BY <3>1 DEF RegistryInv, Loop
  <2> QED
    BY <1>1, <1>2, <2>1, <2>2 DEF Passed, BelievedByWait, BelievedByLooper, TimeoutOfCall
<1> QED
  BY <1>3, <1>4

LEMMA HandlePasses ==
  ASSUME IInv, PollStep, L!HandleEvents
  PROVE  Passed'
<1> USE DEF IInv, Believed
<1>1. BelievedByApp'
  BY StillAway DEF L!HandleEvents
<1>2. responses' = L!ResponsesTo(reported) /\ responses' \in Seq(Response)
  BY HandleKeeps DEF Loop
<1>3. lpc = "handle" /\ lpc' = "dispatch" /\ UNCHANGED <<call, pending>> /\ index' = index
  BY DEF L!HandleEvents, PollStep, queueVars
<1>4. Len(responses') <= Len(reported) /\ Len(reported) <= 1
  BY <1>2, <1>3, OneResponse DEF RegistryInv, Loop, BelievedByWait
<1>5. Len(responses') \in Nat /\ Len(reported) \in Nat
  BY <1>2 DEF RegistryInv, Loop
<1>6. 1 <= Len(responses') => pending # <<>>
  BY <1>3, <1>4, <1>5 DEF BelievedByWait
<1> QED
  BY <1>1, <1>3, <1>4, <1>5, <1>6 DEF Passed, BelievedByWait, BelievedByLooper, TimeoutOfCall

LEMMA EndPollKeeps ==
  ASSUME IInv, PollStep, L!EndPoll
  PROVE  Passed'
<1>1. BelievedByApp'
  BY StillAway DEF L!EndPoll
<1> QED
  BY <1>1 DEF L!EndPoll, L!responseVars, PollStep, queueVars, IInv, Believed, Passed,
              BelievedByWait, BelievedByLooper, TimeoutOfCall

LEMMA PollKeeps ==
  ASSUME IInv, PollStep
  PROVE  Passed'
<1>1. ~ L!StartCallback
  BY NobodyIsCalled DEF L!StartCallback, IInv, RegistryInv
<1>2. ASSUME NEW stay \in BOOLEAN PROVE ~ L!CallbackReturns(stay)
  BY DEF L!CallbackReturns, IInv, RegistryInv, Loop
<1> QED
  BY <1>1, <1>2, ReturnIdentKeeps, ReturnResultKeeps, StartWaitKeeps, VisitKeeps,
     EndPassKeeps, HandlePasses, EndPollKeeps DEF PollStep, L!Polling

-----------------------------------------------------------------------------
(* The rest of the system *)

\* Outside of a poll, with the looper as it was and no event taken.
LEMMA IdleLooper ==
  ASSUME IInv, UNCHANGED looperVars, UNCHANGED due, Queue', BelievedByEventFd',
         qpc'[App] = qpc[App], pending # <<>> => pending' # <<>>
  PROVE  Believed'
<1> USE DEF looperVars, IInv, Believed
<1>1. BelievedByWait' /\ BelievedByLooper' /\ TimeoutOfCall'
  BY DEF BelievedByWait, BelievedByLooper, TimeoutOfCall
<1>2. BelievedByApp'
  BY DEF BelievedByApp
<1> QED
  BY <1>1, <1>2

\* Attaching and detaching, and the beginning of a poll.
LEMMA RegistrationBelieved ==
  ASSUME IInv, AttachLooper \/ DetachLooper
  PROVE  Believed'
<1>1. /\ lpc = "app" /\ lpc' = lpc
      /\ UNCHANGED <<queueVars, due, call, responses, index, returned>>
  BY DEF AttachLooper, DetachLooper, Deregister, L!AddFd, L!RemoveFd, L!DataRace,
         L!responseVars
<1>2. Queue' /\ BelievedByEventFd'
  BY <1>1, QueueStays DEF IInv, Believed
<1> QED
  BY <1>1, <1>2 DEF queueVars, IInv, Believed, BelievedByWait, BelievedByLooper,
                    BelievedByApp, TimeoutOfCall

LEMMA StartPollBelieved ==
  ASSUME IInv, StartPoll, Timeouts \subseteq {0, -1}
  PROVE  Believed'
<1>1. PICK timeout \in Timeouts, all \in BOOLEAN : L!Poll(timeout, all)
  BY DEF StartPoll, L!Polls
<1>2. /\ lpc = "app" /\ lpc' = "once" /\ call' = [timeout |-> timeout, all |-> all]
      /\ returned' = -1 /\ UNCHANGED <<queueVars, due, responses, index>>
      /\ ~due /\ qpc[App] = "idle"
  BY <1>1 DEF L!Poll, StartPoll, AppIsFree
<1>3. Queue' /\ BelievedByEventFd'
  BY <1>2, QueueStays DEF IInv, Believed
<1>4. BelievedByLooper'
  <2>1. index > Len(responses) /\ index \in Nat /\ Len(responses) \in Nat
    BY <1>2 DEF IInv, RegistryInv, Loop, Believed, BelievedByLooper
  <2>2. ~(index' <= Len(responses'))
    BY <1>2, <2>1
  <2>3. Len(responses') <= 1
    BY <1>2 DEF IInv, Believed, BelievedByLooper
  <2> QED
    BY <1>2, <2>2, <2>3 DEF BelievedByLooper
<1> QED
  BY <1>2, <1>3, <1>4 DEF queueVars, IInv, Believed, BelievedByWait, BelievedByApp, TimeoutOfCall

LEMMA FetchBelieved ==
  ASSUME IInv, Fetch
  PROVE  Believed'
<1>1. Queue' /\ BelievedByEventFd'
  BY GetEventKeeps DEF Fetch, IInv, Believed
<1>2. lpc = "app" /\ due' = FALSE /\ UNCHANGED looperVars
  BY DEF Fetch
<1> QED
  BY <1>1, <1>2 DEF looperVars, IInv, Believed, BelievedByWait, BelievedByLooper,
                    BelievedByApp, TimeoutOfCall

LEMMA FetchStepBelieved ==
  ASSUME IInv, FetchStep
  PROVE  Believed'
<1>1. Queue' /\ BelievedByEventFd' /\ qpc[App] # "idle"
  BY ConsumeKeeps DEF FetchStep, IInv, Believed
<1>2. lpc = "app" /\ due = FALSE
  BY <1>1 DEF IInv, Believed, BelievedByApp
<1> QED
  BY <1>1, <1>2 DEF FetchStep, looperVars, IInv, Believed, BelievedByWait, BelievedByLooper,
                    BelievedByApp, TimeoutOfCall

LEMMA InitBelieved == Init => Believed
<1> SUFFICES ASSUME Init PROVE Believed
  OBVIOUS
<1>1. Queue /\ BelievedByEventFd
  BY InputDeliveryAssumption
     DEF Init, Q!Init, Q!NewEventFd, Q!Threads, Queue, BelievedByEventFd, Q!Readable
<1>2. /\ lpc = "app" /\ responses = <<>> /\ index = 1 /\ due = FALSE
      /\ call = [timeout |-> 0, all |-> FALSE]
  BY DEF Init, L!Init
<1>3. Len(responses) = 0 /\ Len(responses) <= 1 /\ index > Len(responses)
  BY <1>2
<1>4. BelievedByLooper
  BY <1>2, <1>3 DEF BelievedByLooper
<1>5. BelievedByWait /\ BelievedByApp
  BY <1>2 DEF BelievedByWait, BelievedByApp
<1> QED
  BY <1>1, <1>2, <1>4, <1>5 DEF Believed, TimeoutOfCall

LEMMA BelievedStep ==
  ASSUME Timeouts \subseteq {0, -1}
  PROVE  IInv /\ [Next]_vars => IInv'
<1> SUFFICES ASSUME IInv, [Next]_vars PROVE Believed'
  BY RegistryStep DEF IInv
<1>1. CASE UNCHANGED vars
  <2>1. Queue' /\ BelievedByEventFd'
    BY <1>1, QueueStays DEF vars, IInv, Believed
  <2> QED
    BY <1>1, <2>1, IdleLooper DEF vars, queueVars
<1>2. CASE AttachLooper \/ DetachLooper
  BY <1>2, RegistrationBelieved
<1>3. ASSUME NEW p \in Producers, Produce(p) PROVE Believed'
  BY <1>3, ProduceKeeps, IdleLooper DEF Produce, IInv, Believed
<1>4. CASE StartPoll
  BY <1>4, StartPollBelieved
<1>5. CASE PollStep
  <2>1. Queue' /\ BelievedByEventFd'
    BY <1>5, QueueStays DEF PollStep, IInv, Believed
  <2> QED
    BY <1>5, <2>1, PollKeeps DEF Passed, Believed
<1>6. CASE Fetch
  BY <1>6, FetchBelieved
<1>7. CASE FetchStep
  BY <1>7, FetchStepBelieved
<1> QED
  BY <1>1, <1>2, <1>3, <1>4, <1>5, <1>6, <1>7 DEF Next

\* When no poll is bounded by a time, one that reports input is followed by a
\* getEvent that finds an event: no producer, no attach or detach and no
\* response left over from an earlier poll makes the report untrue.
THEOREM PollsTellTheTruth ==
  ASSUME Timeouts \subseteq {0, -1}
  PROVE  Spec => []PollTellsTheTruth
<1>1. Init => IInv
  BY InitRegistry, InitBelieved DEF IInv
<1>2. IInv /\ [Next]_vars => IInv'
  BY BelievedStep
<1>3. IInv => PollTellsTheTruth
  BY DEF IInv, Believed, BelievedByApp, PollTellsTheTruth
<1> QED
  BY <1>1, <1>2, <1>3, PTL DEF Spec

-----------------------------------------------------------------------------
(* The parts inside the whole *)

LEMMA QueueStep == [Next]_vars => [Q!Next]_(Q!vars)
<1> SUFFICES ASSUME [Next]_vars PROVE [Q!Next]_(Q!vars)
  OBVIOUS
<1> USE DEF Q!Next, Q!vars
<1>1. ASSUME UNCHANGED queueVars PROVE [Q!Next]_(Q!vars)
  BY <1>1 DEF queueVars
<1>2. CASE UNCHANGED vars \/ AttachLooper \/ DetachLooper \/ StartPoll \/ PollStep
  BY <1>1, <1>2 DEF vars, AttachLooper, DetachLooper, StartPoll, PollStep
<1>3. CASE \E p \in Producers : Produce(p)
  BY <1>3, Zenon DEF Produce
<1>4. CASE Fetch \/ FetchStep
  BY <1>4 DEF Fetch, FetchStep
<1> QED
  BY <1>2, <1>3, <1>4 DEF Next

\* The queue of the composition is an InputQueue with the application as its
\* only consumer: what is proved of InputQueue holds while a looper watches it.
THEOREM QueueBehavesAsSpecified == Spec => Q!Spec
<1>1. Init => Q!Init
  BY DEF Init
<1> QED
  BY <1>1, QueueStep, PTL DEF Spec, Q!Spec

LEMMA LooperStep == RegistryInv /\ [Next]_vars => [L!Next]_(L!vars)
<1> SUFFICES ASSUME RegistryInv, [Next]_vars PROVE [L!Next]_(L!vars)
  OBVIOUS
<1> USE DEF L!Next
\* The eventfd is written or emptied, or stays what it is to the looper.
<1>1. ASSUME UNCHANGED looperVars PROVE [L!Next]_(L!vars)
  <2> DEFINE now == IF Q!Readable(dispatch)' THEN {"in"} ELSE {}
  <2>1. Ready' = [fd \in {DispatchFd} |-> now]
    BY DEF Ready
  <2>2. CASE now = {}
    <3>1. L!Consume(DispatchFd)
      BY <1>1, <2>1, <2>2
         DEF L!Consume, looperVars, L!registry, L!waitVars, L!responseVars, L!callbackVars,
             RegistryInv, Loop, Ready
    <3> QED
      BY <3>1 DEF L!Environment
  <2>3. CASE now = {"in"}
    <3>1. L!BecomeReady(DispatchFd, {"in"})
      BY <1>1, <2>1, <2>3
         DEF L!BecomeReady, looperVars, L!registry, L!waitVars, L!responseVars,
             L!callbackVars, RegistryInv, Loop, Ready
    <3> QED
      BY <3>1 DEF L!Environment
  <2> QED
    BY <2>2, <2>3
<1>2. CASE UNCHANGED vars
  BY <1>1, <1>2 DEF vars
<1>3. CASE AttachLooper
  <2>1. nextSeq < MaxSeq /\ L!AddFd(DispatchFd, Ident, FALSE, {"in"}, FALSE)
    BY <1>3 DEF AttachLooper, InputMask
  <2> QED
    BY <2>1 DEF L!CallAddFd
<1>4. CASE DetachLooper
  BY <1>4 DEF DetachLooper, Deregister, L!CallRemoveFd
<1>5. CASE (\E p \in Producers : Produce(p)) \/ Fetch \/ FetchStep
  BY <1>1, <1>5 DEF Produce, Fetch, FetchStep
<1>6. CASE StartPoll \/ PollStep
  BY <1>6 DEF StartPoll, PollStep
<1> QED
  BY <1>2, <1>3, <1>4, <1>5, <1>6 DEF Next

\* The looper of the composition takes only steps of Looper, the eventfd of the
\* queue being its descriptor: what is proved of Looper holds in the whole.
THEOREM LooperBehavesAsSpecified == Spec => L!Init /\ [][L!Next]_(L!vars)
<1>1. Init => L!Init
  <2>1. Init => Ready = [fd \in {DispatchFd} |-> {}]
    BY DEF Init, Q!Init, Q!NewEventFd, Q!Readable, Ready
  <2> QED
    BY <2>1 DEF Init
<1> QED
  BY <1>1, InitRegistry, RegistryStep, LooperStep, PTL DEF Spec
=============================================================================
