---------------------------- MODULE LooperProofs ----------------------------
(***************************************************************************)
(* Proofs about the registrations of a looper, for every set of            *)
(* descriptors, every buffer size and any number of registrations, with    *)
(* other threads adding and removing them at any moment.                   *)
(*                                                                         *)
(* MapsInSync alone is not inductive: a new registration keeps the maps in *)
(* sync only because its sequence number is new, and a removal keeps the   *)
(* interest list in sync only because EPOLL_CTL_DEL cannot fail, which in  *)
(* turn needs the list to follow mSequenceNumberByFd entry by entry.       *)
(* Registry is that strengthening; Reports adds what is in flight in the   *)
(* buffer of the wait loop.                                                *)
(***************************************************************************)
EXTENDS Looper, SequenceTheorems, WellFoundedInduction, TLAPS

RegistryType ==
  /\ DOMAIN requests \subseteq Nat
  /\ DOMAIN seqByFd \subseteq Fds
  /\ nextSeq \in Nat
  /\ WakeSeq < nextSeq
  /\ \A s \in DOMAIN requests : WakeSeq < s /\ s < nextSeq /\ requests[s].events \in Masks

\* The interest list, entry by entry.
InterestFollows ==
  /\ interest = [fd \in {WakeFd} \cup DOMAIN seqByFd |->
                   IF fd = WakeFd THEN [seq |-> WakeSeq, events |-> {"in"}]
                   ELSE [seq |-> seqByFd[fd], events |-> requests[seqByFd[fd]].events]]
  /\ rebuild = FALSE

Registry == RegistryType /\ MapsInSync /\ InterestFollows

\* Events in the buffer were seen on registrations made before.
Reports ==
  /\ reported \in Seq([seq: Nat, events: Masks, fd: AllFds])
  /\ \A i \in DOMAIN reported : reported[i].seq < nextSeq
  /\ NotMisattributed

IInv == Registry /\ Reports

-----------------------------------------------------------------------------
LEMMA InterestIsRebuilt == Registry => InterestInSync
<1> SUFFICES ASSUME Registry PROVE interest = Rebuilt
  BY DEF Registry, InterestFollows, InterestInSync
<1>1. DOMAIN seqByFd = {requests[s].fd : s \in DOMAIN requests}
  BY DEF Registry, MapsInSync
<1>2. ASSUME NEW fd \in DOMAIN seqByFd
      PROVE  (CHOOSE s \in DOMAIN requests : requests[s].fd = fd) = seqByFd[fd]
  <2>1. seqByFd[fd] \in DOMAIN requests /\ requests[seqByFd[fd]].fd = fd
    BY DEF Registry, MapsInSync
  <2>2. \A s \in DOMAIN requests : requests[s].fd = fd => s = seqByFd[fd]
    BY DEF Registry, MapsInSync
  <2>3. QED
    BY <2>1, <2>2
<1>3. Rebuilt = [fd \in {WakeFd} \cup DOMAIN seqByFd |->
                   IF fd = WakeFd THEN [seq |-> WakeSeq, events |-> {"in"}]
                   ELSE LET s == CHOOSE s \in DOMAIN requests : requests[s].fd = fd
                        IN [seq |-> s, events |-> requests[s].events]]
  BY <1>1 DEF Rebuilt
<1>4. \A fd \in {WakeFd} \cup DOMAIN seqByFd : Rebuilt[fd] = interest[fd]
  BY <1>2, <1>3 DEF Registry, InterestFollows
<1>5. interest = [fd \in {WakeFd} \cup DOMAIN seqByFd |-> interest[fd]]
  BY DEF Registry, InterestFollows
<1>6. Rebuilt = [fd \in {WakeFd} \cup DOMAIN seqByFd |-> Rebuilt[fd]]
  BY <1>3
<1>7. QED
  BY <1>4, <1>5, <1>6

LEMMA InitRegistry == Init => IInv
<1> SUFFICES ASSUME Init PROVE IInv
  OBVIOUS
<1>1. Registry
  BY DEF Init, Registry, RegistryType, MapsInSync, InterestFollows, WakeSeq
<1>2. Reports
  BY DEF Init, Reports, NotMisattributed
<1>3. QED
  BY <1>1, <1>2 DEF IInv

\* The registrations after ALooper_addFd.
LEMMA AddFdStep ==
  ASSUME IInv, NEW fd \in Fds, NEW ident, NEW callback,
         NEW events \in EventMasks, NEW dies, AddFd(fd, ident, callback, events, dies)
  PROVE  IInv'
<1> DEFINE request == [fd |-> fd, ident |-> IF callback THEN CALLBACK ELSE ident,
                       events |-> events]
<1>1. nextSeq \notin DOMAIN requests /\ fd \notin DOMAIN seqByFd /\ fd # WakeFd
  BY LooperAssumption DEF AddFd, IInv, Registry, RegistryType
<1>2. requests' = [s \in DOMAIN requests \cup {nextSeq} |->
                     IF s = nextSeq THEN request ELSE requests[s]]
  BY <1>1 DEF AddFd, Emplace
<1>3. seqByFd' = [g \in DOMAIN seqByFd \cup {fd} |->
                    IF g = fd THEN nextSeq ELSE seqByFd[g]]
  BY <1>1 DEF AddFd, Emplace
<1>4. DOMAIN interest = {WakeFd} \cup DOMAIN seqByFd
  BY DEF IInv, Registry, InterestFollows
<1>5. interest' = [g \in DOMAIN interest \cup {fd} |->
                     IF g = fd THEN [seq |-> nextSeq, events |-> events] ELSE interest[g]]
  BY <1>1, <1>4 DEF AddFd, AfterCtl, Emplace
<1>6. nextSeq' = nextSeq + 1
  BY DEF AddFd, SeqAfter
<1>7. RegistryType'
  BY <1>1, <1>2, <1>3, <1>6, LooperAssumption DEF IInv, Registry, RegistryType, WakeSeq
<1>8. MapsInSync'
  BY <1>1, <1>2, <1>3 DEF IInv, Registry, MapsInSync
<1>9. InterestFollows'
  <2>1. rebuild' = FALSE
    BY DEF AddFd, IInv, Registry, InterestFollows
  <2>2. \A g \in DOMAIN seqByFd : seqByFd[g] \in DOMAIN requests /\ seqByFd[g] # nextSeq
    BY <1>1 DEF IInv, Registry, MapsInSync
  <2>3. QED
    BY <1>1, <1>2, <1>3, <1>4, <1>5, <2>1, <2>2 DEF IInv, Registry, InterestFollows
<1>10. Reports'
  <2>1. reported' = reported
    BY DEF AddFd, waitVars
  <2>2. \A i \in DOMAIN reported : reported[i].seq \in Nat /\ reported[i].seq < nextSeq
    <3>1. \A i \in DOMAIN reported : reported[i] \in [seq: Nat, events: Masks, fd: AllFds]
      BY LenProperties DEF IInv, Reports
    <3>2. QED
      BY <3>1 DEF IInv, Reports
  <2>3. \A i \in DOMAIN reported : reported[i].seq < nextSeq'
    BY <1>6, <2>2 DEF IInv, Registry, RegistryType
  <2>4. NotMisattributed'
    BY <1>2, <2>1, <2>2 DEF IInv, Registry, RegistryType, Reports, NotMisattributed
  <2>5. QED
    BY <2>1, <2>3, <2>4 DEF IInv, Reports, AllFds
<1>11. QED
  BY <1>7, <1>8, <1>9, <1>10 DEF IInv, Registry

\* removeSequenceNumberLocked never finds the interest list out of step.
LEMMA RemoveStep ==
  ASSUME Registry, NEW seq, RemoveSequenceNumber(seq), UNCHANGED nextSeq
  PROVE  /\ Registry'
         /\ DOMAIN requests' \subseteq DOMAIN requests
         /\ \A s \in DOMAIN requests' : requests'[s] = requests[s]
         /\ \A fd \in DOMAIN seqByFd : seqByFd[fd] # seq =>
              fd \in DOMAIN seqByFd' /\ seqByFd'[fd] = seqByFd[fd]
<1>1. CASE seq \notin DOMAIN requests
  <2>1. UNCHANGED <<interest, requests, seqByFd, rebuild>>
    BY <1>1 DEF RemoveSequenceNumber
  <2>2. QED
    BY <2>1 DEF Registry, RegistryType, MapsInSync, InterestFollows
<1>2. CASE seq \in DOMAIN requests
  <2> DEFINE fd == requests[seq].fd
  <2>1. fd \in DOMAIN seqByFd /\ seqByFd[fd] = seq /\ fd \in Fds /\ fd # WakeFd
    BY <1>2, LooperAssumption DEF Registry, RegistryType, MapsInSync
  <2>2. CtlAnswer(interest, "DEL", fd) = "ok"
    <3>1. fd \in DOMAIN interest
      BY <2>1 DEF Registry, InterestFollows
    <3>2. fd \in Nat /\ fd # EpollFd /\ fd \notin EpollFds
      BY <2>1, LooperAssumption
    <3>3. QED
      BY <3>1, <3>2 DEF CtlAnswer
  <2>3. /\ requests' = Without(requests, seq)
        /\ seqByFd' = Without(seqByFd, fd)
        /\ interest' = Without(interest, fd)
        /\ rebuild' = rebuild
    BY <1>2, <2>2 DEF RemoveSequenceNumber, ForgetFd, AfterCtl, Registry, InterestFollows
  <2>4. \A g \in DOMAIN seqByFd : g # fd => seqByFd[g] # seq
    BY <2>1 DEF Registry, MapsInSync
  <2>5. RegistryType'
    BY <2>3 DEF Without, Registry, RegistryType
  <2>6. MapsInSync'
    BY <2>1, <2>3, <2>4 DEF Without, Registry, MapsInSync
  <2>7. InterestFollows'
    BY <2>1, <2>3, <2>4 DEF Without, Registry, MapsInSync, InterestFollows
  <2>8. QED
    BY <2>1, <2>3, <2>5, <2>6, <2>7 DEF Registry, Without
<1>3. QED
  BY <1>1, <1>2

LEMMA RemovalReports ==
  ASSUME IInv, NEW seq, RemoveSequenceNumber(seq), UNCHANGED <<nextSeq, reported>>
  PROVE  IInv'
<1>1. /\ Registry' /\ DOMAIN requests' \subseteq DOMAIN requests
      /\ \A s \in DOMAIN requests' : requests'[s] = requests[s]
  BY RemoveStep DEF IInv
<1>2. Reports'
  BY <1>1 DEF IInv, Reports, NotMisattributed, AllFds
<1>3. QED
  BY <1>1, <1>2 DEF IInv

\* A step that leaves the registrations and the buffer alone.
LEMMA QuietStep ==
  ASSUME IInv, UNCHANGED <<interest, requests, seqByFd, nextSeq, rebuild>>,
         reported' \in {reported, <<>>}
  PROVE  IInv'
<1>1. Registry'
  BY DEF IInv, Registry, RegistryType, MapsInSync, InterestFollows
<1>2. Reports'
  <2>1. CASE reported' = reported
    BY <2>1 DEF IInv, Reports, NotMisattributed, AllFds
  <2>2. CASE reported' = <<>>
    BY <2>2 DEF Reports, NotMisattributed
  <2>3. QED
    BY <2>1, <2>2
<1>3. QED
  BY <1>1, <1>2 DEF IInv

\* A sequence number is used up by a registration that fails.
LEMMA NextNumberStep ==
  ASSUME IInv, UNCHANGED <<interest, requests, seqByFd, rebuild, reported>>,
         nextSeq' = nextSeq + 1
  PROVE  IInv'
<1>1. Registry'
  <2>1. RegistryType'
    BY DEF IInv, Registry, RegistryType, WakeSeq
  <2>2. MapsInSync' /\ InterestFollows'
    BY DEF IInv, Registry, MapsInSync, InterestFollows
  <2>3. QED
    BY <2>1, <2>2 DEF Registry
<1>2. \A i \in DOMAIN reported : reported[i].seq \in Nat /\ reported[i].seq < nextSeq
  <2>1. \A i \in DOMAIN reported : reported[i] \in [seq: Nat, events: Masks, fd: AllFds]
    BY LenProperties DEF IInv, Reports
  <2>2. QED
    BY <2>1 DEF IInv, Reports
<1>3. nextSeq \in Nat
  BY DEF IInv, Registry, RegistryType
<1>4. Reports'
  BY <1>2, <1>3 DEF IInv, Reports, NotMisattributed, AllFds
<1>5. QED
  BY <1>1, <1>4 DEF IInv

\* What the wait loop puts into the buffer comes from a registration that is
\* there at that moment.
LEMMA VisitStep == ASSUME IInv, VisitEntry PROVE IInv'
<1> DEFINE Report == [seq: Nat, events: Masks, fd: AllFds]
<1>1. PICK fd \in DOMAIN interest :
        LET events == interest[fd].events \cap ReadyFor(fd)
        IN reported' = IF events = {} THEN reported
                       ELSE Append(reported, [seq |-> interest[fd].seq,
                                              events |-> events, fd |-> fd])
  BY DEF VisitEntry
<1>2. UNCHANGED <<interest, requests, seqByFd, nextSeq, rebuild>>
  BY DEF VisitEntry, registry
<1> DEFINE events == interest[fd].events \cap ReadyFor(fd)
           report == [seq |-> interest[fd].seq, events |-> events, fd |-> fd]
<1>3. CASE events = {}
  BY <1>1, <1>2, <1>3, QuietStep
<1>4. CASE events # {}
  <2>1. reported' = Append(reported, report)
    BY <1>1, <1>4
  <2>2. fd \in AllFds /\ interest[fd].seq \in Nat /\ interest[fd].seq < nextSeq
    <3>1. CASE fd = WakeFd
      BY <3>1 DEF IInv, Registry, RegistryType, InterestFollows, AllFds, WakeSeq
    <3>2. CASE fd # WakeFd
      BY <3>2 DEF IInv, Registry, RegistryType, MapsInSync, InterestFollows, AllFds
    <3>3. QED
      BY <3>1, <3>2
  <2>3. interest[fd].seq \in DOMAIN requests => requests[interest[fd].seq].fd = fd
    BY DEF IInv, Registry, RegistryType, MapsInSync, InterestFollows, WakeSeq
  <2>4. events \in Masks
    <3>1. interest[fd].events \in Masks
      BY DEF IInv, Registry, RegistryType, MapsInSync, InterestFollows, Masks
    <3>2. QED
      BY <3>1 DEF Masks
  <2>5. report \in Report
    BY <2>2, <2>4
  <2>6. reported \in Seq(Report)
    BY DEF IInv, Reports
  <2>7. /\ reported' \in Seq(Report) /\ Len(reported') = Len(reported) + 1
        /\ \A i \in 1 .. Len(reported) : reported'[i] = reported[i]
        /\ reported'[Len(reported) + 1] = report
    BY <2>1, <2>5, <2>6, AppendProperties
  <2>8. \A i \in DOMAIN reported' : i \in DOMAIN reported \/ reported'[i] = report
    BY <2>6, <2>7, LenProperties
  <2>9. \A i \in DOMAIN reported' :
          /\ reported'[i].seq < nextSeq
          /\ reported'[i].seq \in DOMAIN requests => requests[reported'[i].seq].fd = reported'[i].fd
    <3> SUFFICES ASSUME NEW i \in DOMAIN reported'
                 PROVE  /\ reported'[i].seq < nextSeq
                        /\ reported'[i].seq \in DOMAIN requests =>
                             requests[reported'[i].seq].fd = reported'[i].fd
      OBVIOUS
    <3>1. CASE i \in DOMAIN reported
      <4>1. reported'[i] = reported[i]
        BY <2>6, <2>7, <3>1, LenProperties
      <4>2. QED
        BY <3>1, <4>1 DEF IInv, Reports, NotMisattributed
    <3>2. CASE reported'[i] = report
      BY <2>2, <2>3, <3>2
    <3>3. QED
      BY <2>8, <3>1, <3>2
  <2>10. Registry'
    BY <1>2 DEF IInv, Registry, RegistryType, MapsInSync, InterestFollows
  <2>11. QED
    BY <1>2, <2>7, <2>9, <2>10 DEF IInv, Reports, NotMisattributed, AllFds
<1>5. QED
  BY <1>3, <1>4

-----------------------------------------------------------------------------
LEMMA Inductive == IInv /\ [Next]_vars => IInv'
<1> SUFFICES ASSUME IInv, [Next]_vars PROVE IInv'
  OBVIOUS
<1>1. CASE CallAddFd
  <2>1. CASE \E fd \in Fds, ident \in Idents, c \in BOOLEAN, m \in EventMasks, d \in BOOLEAN :
               nextSeq < MaxSeq /\ AddFd(fd, ident, c, m, d)
    BY <2>1, AddFdStep
  <2>2. CASE \E fd \in BadFds : nextSeq < MaxSeq /\ AddFdRefused(fd)
    <3>1. UNCHANGED <<interest, requests, seqByFd, rebuild, reported>> /\ nextSeq' = nextSeq + 1
      BY <2>2 DEF AddFdRefused, SeqAfter, waitVars
    <3>2. QED
      BY <3>1, NextNumberStep
  <2>3. CASE \E fd \in Fds : nextSeq < MaxSeq /\ AddFdAgain(fd)
    <3>1. UNCHANGED <<interest, requests, seqByFd, rebuild, reported>> /\ nextSeq' = nextSeq + 1
      BY <2>3 DEF AddFdAgain, SeqAfter, waitVars
    <3>2. QED
      BY <3>1, NextNumberStep
  <2>4. QED
    BY <1>1, <2>1, <2>2, <2>3 DEF CallAddFd
<1>2. CASE CallRemoveFd
  BY <1>2, RemovalReports DEF CallRemoveFd, RemoveFd, waitVars
<1>3. CASE Polls
  BY <1>3, QuietStep DEF Polls, Poll, registry, waitVars
<1>4. CASE Polling
  <2>1. CASE ReturnIdent
    BY <2>1, QuietStep DEF ReturnIdent, registry, waitVars
  <2>2. CASE \E atEnd \in BOOLEAN : ReturnResult(atEnd)
    BY <2>2, QuietStep DEF ReturnResult, registry, waitVars
  <2>3. CASE StartWait
    BY <2>3, QuietStep DEF StartWait, registry, waitVars
  <2>4. CASE VisitEntry
    BY <2>4, VisitStep
  <2>5. CASE \E elapsed \in BOOLEAN : EndPass(elapsed)
    BY <2>5, QuietStep DEF EndPass, registry
  <2>6. CASE HandleEvents
    BY <2>6, QuietStep DEF HandleEvents, waitVars, IInv, Registry, InterestFollows
  <2>7. CASE StartCallback
    BY <2>7, QuietStep DEF StartCallback, registry, waitVars
  <2>8. CASE \E stay \in BOOLEAN : CallbackReturns(stay)
    <3>1. PICK stay \in BOOLEAN : CallbackReturns(stay)
      BY <2>8
    <3>2. UNCHANGED <<nextSeq, reported>>
      BY <3>1 DEF CallbackReturns, waitVars
    <3>3. CASE stay
      BY <3>1, <3>2, <3>3, QuietStep DEF CallbackReturns
    <3>4. CASE ~stay
      BY <3>1, <3>2, <3>4, RemovalReports DEF CallbackReturns
    <3>5. QED
      BY <3>3, <3>4
  <2>9. CASE EndPoll
    BY <2>9, QuietStep DEF EndPoll, registry, waitVars
  <2>10. QED
    BY <1>4, <2>1, <2>2, <2>3, <2>4, <2>5, <2>6, <2>7, <2>8, <2>9 DEF Polling
<1>5. CASE Environment
  BY <1>5, QuietStep DEF Environment, BecomeReady, Consume, registry, waitVars
<1>6. CASE UNCHANGED vars
  BY <1>6, QuietStep DEF vars, registry, waitVars
<1>7. QED
  BY <1>1, <1>2, <1>3, <1>4, <1>5, <1>6 DEF Next

LEMMA Always == Spec => []IInv
BY InitRegistry, Inductive, PTL DEF Spec

\* The two maps of a looper and the epoll interest list describe the same
\* registrations at every moment, whichever threads add and remove them (the
\* comment on mRequests and mSequenceNumberByFd in ALooper.cpp), and
\* EPOLL_CTL_DEL never fails, so rebuildEpollLocked runs in ALooper_prepare
\* and nowhere else.
THEOREM RegistrationsStayInSync == Spec => []RegistrationsInSync
<1>1. IInv => RegistrationsInSync
  BY InterestIsRebuilt DEF IInv, Registry, RegistrationsInSync
<1>2. QED
  BY <1>1, Always, PTL

\* A sequence number that comes out of the wait and is still registered
\* names the descriptor that was ready: pollInner never blames another one.
THEOREM ReportsNameTheirFd == Spec => []NotMisattributed
<1>1. IInv => NotMisattributed
  BY DEF IInv, Reports
<1>2. QED
  BY <1>1, Always, PTL

\* A callback that returns 0 never ends a registration made for the same
\* descriptor after its own.
THEOREM CallbackEndsItself == Spec => UnregistersItselfOnly
<1>1. ASSUME IInv, [Next]_vars
      PROVE  [pc = "callback" /\ pc' = "dispatch" =>
                \A fd \in DOMAIN seqByFd :
                  seqByFd[fd] # running =>
                    fd \in DOMAIN seqByFd' /\ seqByFd'[fd] = seqByFd[fd]]_vars
  <2> SUFFICES ASSUME Next, pc = "callback", pc' = "dispatch"
               PROVE  \A fd \in DOMAIN seqByFd :
                        seqByFd[fd] # running =>
                          fd \in DOMAIN seqByFd' /\ seqByFd'[fd] = seqByFd[fd]
    BY <1>1
  <2>1. PICK stay \in BOOLEAN : CallbackReturns(stay)
    BY DEF Next, CallAddFd, CallRemoveFd, Polls, Polling, Environment, AddFd, AddFdRefused,
       AddFdAgain, RemoveFd, DataRace, Poll, ReturnIdent, ReturnResult, StartWait,
       VisitEntry, EndPass, HandleEvents, StartCallback, EndPoll, BecomeReady, Consume
  <2>2. CASE stay
    BY <2>1, <2>2 DEF CallbackReturns
  <2>3. CASE ~stay
    BY <1>1, <2>1, <2>3, RemoveStep DEF CallbackReturns, EndedByCallback, IInv
  <2>4. QED
    BY <2>2, <2>3
<1>2. QED
  BY <1>1, Always, PTL DEF Spec, UnregistersItselfOnly
-----------------------------------------------------------------------------
(* The callbacks of one poll *)

\* A walk over the interest list visits each registration once, and without a
\* timeout above zero no second walk starts with reports in the buffer.
OneReportEach ==
  /\ cursor \in AllFds \cup {-1}
  /\ call.timeout \in {0, -1}
  /\ \A i, j \in DOMAIN reported :
       reported[i].seq # WakeSeq /\ reported[i].seq = reported[j].seq => i = j
  /\ pc = "scan" => \A i \in DOMAIN reported : reported[i].fd <= cursor

Answered(s) ==
  /\ \E S : s \in Seq(S)
  /\ \A i \in DOMAIN s : s[i].seq \in Nat
  /\ \A i, j \in DOMAIN s : s[i].seq = s[j].seq => i = j

\* So a poll has one response for a registration.
OneResponseEach ==
  /\ Answered(responses)
  /\ \A i \in DOMAIN responses : responses[i].seq < nextSeq

RetiredForGood == \A s \in retired : s \in Nat /\ s < nextSeq /\ s \notin DOMAIN requests

\* A registration that was ended has no response ahead of the callback loop.
NoneRetiredAhead ==
  /\ turn \in Nat \ {0}
  /\ running # 0 => pc \in {"callback", "dead"}
  /\ pc \in {"dispatch", "callback"} =>
       \A i \in DOMAIN responses : i >= turn => responses[i].seq \notin retired
  /\ pc = "callback" => turn - 1 \in DOMAIN responses /\ running = responses[turn - 1].seq

CallInv == OneReportEach /\ OneResponseEach /\ RetiredForGood /\ NoneRetiredAhead

\* A set of numbers has a smallest one.
LEMMA SmallestNumber ==
  ASSUME NEW S \in SUBSET Nat, S # {}
  PROVE  \E m \in S : \A n \in S : m <= n
<1>1. \E x \in S : \A y \in S : ~ (<<y, x>> \in OpToRel(<, Nat))
  BY NatLessThanWellFounded, WFMin
<1>2. PICK x \in S : \A y \in S : ~ (y < x)
  BY <1>1 DEF OpToRel
<1>3. \A y \in S : x <= y
  BY <1>2
<1> QED
  BY <1>3

ResponseTo(event) ==
  [seq |-> event.seq, events |-> event.events, request |-> requests[event.seq]]

\* What the loop over the buffer has after each of its first n events.
Answers(g, events, n) ==
  g = [i \in 0 .. n |->
         IF i = 0 THEN <<>>
         ELSE IF events[i].seq \notin DOMAIN requests THEN g[i - 1]
         ELSE Append(g[i - 1], ResponseTo(events[i]))]

\* There is such a function, by the shortest buffer for which there is none.
LEMMA AnswersExist ==
  ASSUME NEW events, NEW n \in Nat
  PROVE  \E g : Answers(g, events, n)
<1> DEFINE Bad == {m \in Nat : ~ \E g : Answers(g, events, m)}
<1>1. SUFFICES ASSUME Bad # {} PROVE FALSE
  OBVIOUS
<1>2. PICK m \in Bad : \A k \in Bad : m <= k
  <2>1. Bad \in SUBSET Nat
    OBVIOUS
  <2> HIDE DEF Bad
  <2> QED
    BY <1>1, <2>1, SmallestNumber
<1>3. m # 0
  <2>1. Answers([i \in 0 .. 0 |-> <<>>], events, 0)
    BY DEF Answers
  <2> QED
    BY <1>2, <2>1
<1>4. m - 1 \in Nat /\ m - 1 \notin Bad
  BY <1>2, <1>3
<1>5. PICK g : Answers(g, events, m - 1)
  BY <1>4
<1> DEFINE Answer(f, i) ==
             IF i = 0 THEN <<>>
             ELSE IF events[i].seq \notin DOMAIN requests THEN f[i - 1]
             ELSE Append(f[i - 1], ResponseTo(events[i]))
           h == [i \in 0 .. m |-> IF i < m THEN g[i] ELSE Answer(g, i)]
<1>6. ASSUME NEW i \in 0 .. m PROVE h[i] = Answer(h, i)
  <2>1. h[i] = Answer(g, i)
    <3>1. CASE i < m
      <4>1. g = [k \in 0 .. (m - 1) |-> Answer(g, k)]
        BY <1>5, Zenon DEF Answers
      <4>2. i \in 0 .. (m - 1)
        BY <1>4, <3>1
      <4>3. h[i] = g[i]
        BY <3>1
      <4> HIDE DEF Answer, h
      <4> QED
        BY <4>1, <4>2, <4>3
    <3>2. CASE i = m
      <4> HIDE DEF Answer
      <4> QED
        BY <3>2
    <3> QED
      BY <3>1, <3>2
  <2>2. i # 0 => h[i - 1] = g[i - 1]
    BY <1>2
  <2> HIDE DEF h
  <2> QED
    BY <2>1, <2>2
<1>7. h = [i \in 0 .. m |-> Answer(h, i)]
  <2>1. h = [i \in 0 .. m |-> h[i]]
    OBVIOUS
  <2> HIDE DEF h, Answer
  <2> QED
    BY <1>6, <2>1
<1>8. Answers(h, events, m)
  <2> HIDE DEF h
  <2> QED
    BY <1>7, Zenon DEF Answers
<1> QED
  BY <1>2, <1>8

LEMMA ResponsesAre ==
  ASSUME NEW events, Len(events) \in Nat
  PROVE  \E g : /\ Answers(g, events, Len(events))
                /\ ResponsesTo(events) = g[Len(events)]
<1> DEFINE g == CHOOSE f : Answers(f, events, Len(events))
<1>1. Answers(g, events, Len(events))
  BY AnswersExist
<1>2. ResponsesTo(events) = g[Len(events)]
  BY Zenon DEF ResponsesTo, Answers, ResponseTo
<1> QED
  BY <1>1, <1>2

\* Events of different registrations have responses of different registrations.
AnswersOnly(s, events, n) ==
  /\ Answered(s)
  /\ \A i \in DOMAIN s : \E k \in 1 .. n : s[i].seq = events[k].seq /\ events[k].seq \in DOMAIN requests

LEMMA ResponsesAreAnswers ==
  ASSUME NEW events, Len(events) \in Nat,
         DOMAIN requests \subseteq Nat \ {WakeSeq},
         \A i, j \in 1 .. Len(events) :
           events[i].seq # WakeSeq /\ events[i].seq = events[j].seq => i = j
  PROVE  AnswersOnly(ResponsesTo(events), events, Len(events))
<1>1. PICK g : /\ Answers(g, events, Len(events))
               /\ ResponsesTo(events) = g[Len(events)]
  BY ResponsesAre
<1> DEFINE Bad == {m \in Nat : m <= Len(events) /\ ~ AnswersOnly(g[m], events, m)}
<1>2. SUFFICES ASSUME Bad # {} PROVE FALSE
  BY <1>1
<1>3. PICK m \in Bad : \A k \in Bad : m <= k
  <2>1. Bad \in SUBSET Nat
    OBVIOUS
  <2> HIDE DEF Bad
  <2> QED
    BY <1>2, <2>1, SmallestNumber
<1>4. m \in Nat /\ m <= Len(events) /\ ~ AnswersOnly(g[m], events, m)
  BY <1>3
<1>5. g[m] = IF m = 0 THEN <<>>
             ELSE IF events[m].seq \notin DOMAIN requests THEN g[m - 1]
             ELSE Append(g[m - 1], ResponseTo(events[m]))
  <2>1. m \in 0 .. Len(events)
    BY <1>4
  <2> QED
    BY <1>1, <2>1, Zenon DEF Answers
<1>6. m # 0
  <2>1. AnswersOnly(<<>>, events, 0)
    BY DEF AnswersOnly, Answered
  <2> QED
    BY <1>4, <1>5, <2>1
<1>7. AnswersOnly(g[m - 1], events, m - 1)
  <2>1. m - 1 \in Nat /\ m - 1 <= Len(events) /\ m - 1 \notin Bad
    BY <1>3, <1>4, <1>6
  <2> QED
    BY <2>1
<1>8. CASE events[m].seq \notin DOMAIN requests
  <2>1. g[m] = g[m - 1]
    BY <1>5, <1>6, <1>8
  <2>2. 1 .. m - 1 \subseteq 1 .. m
    BY <1>4
  <2>3. AnswersOnly(g[m], events, m)
    BY <1>7, <2>1, <2>2 DEF AnswersOnly
  <2> QED
    BY <1>4, <2>3
<1>9. CASE events[m].seq \in DOMAIN requests
  <2> DEFINE s == g[m - 1]
             new == ResponseTo(events[m])
             t == Append(s, new)
  <2>1. g[m] = t
    BY <1>5, <1>6, <1>9
  <2>2. PICK S : s \in Seq(S)
    BY <1>7 DEF AnswersOnly, Answered
  <2>3. s \in Seq(S \cup {new})
    BY <2>2, SeqMonotonic
  <2>4. /\ t \in Seq(S \cup {new})
        /\ Len(t) = Len(s) + 1
        /\ \A i \in 1 .. Len(s) : t[i] = s[i]
        /\ t[Len(s) + 1] = new
    <3>1. new \in S \cup {new}
      OBVIOUS
    <3> HIDE DEF new, s
    <3> QED
      BY <2>3, <3>1, AppendProperties
  <2>5. Len(s) \in Nat /\ DOMAIN s = 1 .. Len(s) /\ DOMAIN t = 1 .. Len(s) + 1
    BY <2>3, <2>4, LenProperties
  <2>6. \A i \in DOMAIN t : (i \in DOMAIN s /\ t[i] = s[i]) \/ (i = Len(s) + 1 /\ t[i] = new)
    <3> HIDE DEF t, s
    <3> QED
      BY <2>4, <2>5
  <2>7. new.seq = events[m].seq /\ new.seq \in Nat \ {WakeSeq}
    BY <1>9 DEF ResponseTo
  <2>8. \A i \in DOMAIN s : s[i].seq \in Nat /\ s[i].seq # new.seq
    <3> SUFFICES ASSUME NEW i \in DOMAIN s PROVE s[i].seq \in Nat /\ s[i].seq # new.seq
      OBVIOUS
    <3>1. PICK k \in 1 .. m - 1 : s[i].seq = events[k].seq
      BY <1>7 DEF AnswersOnly
    <3>2. k \in 1 .. Len(events) /\ m \in 1 .. Len(events) /\ k # m
      BY <1>4, <1>6
    <3>3. events[m].seq # WakeSeq /\ events[m].seq # events[k].seq
      BY <2>7, <3>2
    <3> QED
      BY <1>7, <2>7, <3>1, <3>3 DEF AnswersOnly, Answered
  <2>9. Answered(t)
    <3>1. \A i \in DOMAIN t : t[i].seq \in Nat
      <4> HIDE DEF t, s, new
      <4> QED
        BY <2>6, <2>7, <2>8
    <3>2. \A i, j \in DOMAIN s : s[i].seq = s[j].seq => i = j
      BY <1>7 DEF AnswersOnly, Answered
    <3>3. \A i, j \in DOMAIN t : t[i].seq = t[j].seq => i = j
      <4> HIDE DEF t, s, new
      <4> QED
        BY <2>6, <2>7, <2>8, <3>2
    <3> QED
      BY <2>4, <3>1, <3>3 DEF Answered
  <2>10. \A i \in DOMAIN t : \E k \in 1 .. m : t[i].seq = events[k].seq /\ events[k].seq \in DOMAIN requests
    <3> SUFFICES ASSUME NEW i \in DOMAIN t
                 PROVE  \E k \in 1 .. m : t[i].seq = events[k].seq /\ events[k].seq \in DOMAIN requests
      OBVIOUS
    <3>1. CASE i \in DOMAIN s /\ t[i] = s[i]
      <4>1. \E k \in 1 .. m - 1 : s[i].seq = events[k].seq /\ events[k].seq \in DOMAIN requests
        BY <1>7, <3>1 DEF AnswersOnly
      <4>2. 1 .. m - 1 \subseteq 1 .. m
        BY <1>4
      <4> HIDE DEF t, s
      <4> QED
        BY <3>1, <4>1, <4>2
    <3>2. CASE t[i] = new
      <4>1. m \in 1 .. m
        BY <1>4, <1>6
      <4> HIDE DEF t, new
      <4> QED
        BY <1>9, <2>7, <3>2, <4>1
    <3> QED
      BY <2>6, <3>1, <3>2
  <2> QED
    BY <1>4, <2>1, <2>9, <2>10 DEF AnswersOnly
<1> QED
  BY <1>8, <1>9

LEMMA InitCalls == ASSUME Timeouts \subseteq {0, -1} PROVE Init => CallInv
<1> SUFFICES ASSUME Init PROVE CallInv
  OBVIOUS
<1>1. <<>> \in Seq(Nat) /\ DOMAIN <<>> = {}
  OBVIOUS
<1>2. OneResponseEach
  BY <1>1 DEF Init, OneResponseEach, Answered
<1> QED
  BY <1>1, <1>2 DEF Init, CallInv, OneReportEach, RetiredForGood, NoneRetiredAhead

\* A registration that is made or removed, by whichever thread.
LEMMA RegistrationKeepsCalls ==
  ASSUME CallInv, RetiredForGood',
         UNCHANGED <<cursor, call, reported, responses, turn, running>>,
         pc' \in {pc, "dead"}, nextSeq \in Nat, nextSeq' \in Nat, nextSeq <= nextSeq',
         \/ retired' = retired
         \/ running # 0 /\ pc \in {"app", "callback"} /\ retired' = retired \cup {running}
  PROVE  CallInv'
<1>1. OneReportEach'
  BY DEF CallInv, OneReportEach, AllFds
<1>2. OneResponseEach'
  BY DEF CallInv, OneResponseEach, Answered
<1>3. NoneRetiredAhead'
  <2>1. \A i \in DOMAIN responses :
          pc \in {"dispatch", "callback"} /\ i >= turn => responses[i].seq \notin retired'
    <3> SUFFICES ASSUME NEW i \in DOMAIN responses, pc \in {"dispatch", "callback"}, i >= turn
                 PROVE  responses[i].seq \notin retired'
      OBVIOUS
    <3>1. responses[i].seq \notin retired
      BY DEF CallInv, NoneRetiredAhead
    <3>2. CASE retired' = retired
      BY <3>1, <3>2
    <3>3. CASE pc = "callback" /\ retired' = retired \cup {running}
      <4>1. turn - 1 \in DOMAIN responses /\ running = responses[turn - 1].seq /\ turn \in Nat
        BY <3>3 DEF CallInv, NoneRetiredAhead
      <4>2. i # turn - 1
        <5>1. PICK S : responses \in Seq(S)
          BY DEF CallInv, OneResponseEach, Answered
        <5>2. i \in Nat
          BY <5>1, LenProperties
        <5> QED
          BY <4>1, <5>2
      <4>3. responses[i].seq # running
        BY <4>1, <4>2 DEF CallInv, OneResponseEach, Answered
      <4> QED
        BY <3>1, <3>3, <4>3
    <3> QED
      BY <3>2, <3>3
  <2> QED
    BY <2>1 DEF CallInv, NoneRetiredAhead
<1> QED
  BY <1>1, <1>2, <1>3 DEF CallInv

LEMMA NumberIsGone ==
  ASSUME Registry, NEW seq, RemoveSequenceNumber(seq)
  PROVE  seq \notin DOMAIN requests' /\ DOMAIN requests' \subseteq DOMAIN requests
BY DEF RemoveSequenceNumber, Without

LEMMA AddFdKeepsCalls ==
  ASSUME IInv, CallInv, CallAddFd
  PROVE  CallInv'
<1>1. /\ UNCHANGED <<cursor, call, reported, responses, turn, running, retired>>
      /\ pc' \in {pc, "dead"} /\ nextSeq' = nextSeq + 1
      /\ DOMAIN requests' \subseteq DOMAIN requests \cup {nextSeq}
  BY DEF CallAddFd, AddFd, AddFdRefused, AddFdAgain, DataRace, SeqAfter, waitVars, responseVars,
         callbackVars, Emplace
<1>2. nextSeq \in Nat
  BY DEF IInv, Registry, RegistryType
<1>3. RetiredForGood'
  BY <1>1, <1>2 DEF CallInv, RetiredForGood
<1> QED
  BY <1>1, <1>2, <1>3, RegistrationKeepsCalls

LEMMA RemoveFdKeepsCalls ==
  ASSUME IInv, CallInv, CallRemoveFd
  PROVE  CallInv'
<1>1. PICK fd \in Fds, self \in BOOLEAN, dies \in BOOLEAN : RemoveFd(fd, self, dies)
  BY DEF CallRemoveFd
<1>2. /\ UNCHANGED <<cursor, call, reported, responses, turn, running, nextSeq>>
      /\ pc' \in {pc, "dead"}
  BY <1>1 DEF RemoveFd, DataRace, waitVars, responseVars
<1>3. /\ seqByFd[fd] \notin DOMAIN requests' /\ DOMAIN requests' \subseteq DOMAIN requests
      /\ seqByFd[fd] \in DOMAIN requests
  BY <1>1, NumberIsGone DEF RemoveFd, IInv, Registry, MapsInSync
<1>4. nextSeq \in Nat /\ seqByFd[fd] \in Nat /\ 0 < seqByFd[fd] /\ seqByFd[fd] < nextSeq
  BY <1>3 DEF IInv, Registry, RegistryType, WakeSeq
<1>5. \/ retired' = retired
      \/ running = seqByFd[fd] /\ pc \in {"app", "callback"} /\ retired' = retired \cup {running}
  BY <1>1 DEF RemoveFd, OnLooperThread
<1>6. RetiredForGood'
  BY <1>2, <1>3, <1>4, <1>5 DEF CallInv, RetiredForGood
<1> QED
  BY <1>2, <1>4, <1>5, <1>6, RegistrationKeepsCalls

\* The callback returns, and may end its registration.
LEMMA CallbackReturnsKeepsCalls ==
  ASSUME IInv, CallInv, NEW stay \in BOOLEAN, CallbackReturns(stay)
  PROVE  CallInv'
<1>1. /\ UNCHANGED <<cursor, call, reported, responses, turn, nextSeq>>
      /\ pc = "callback" /\ pc' = "dispatch" /\ running' = 0
  BY DEF CallbackReturns, waitVars, responseVars
<1>2. /\ turn \in Nat /\ turn - 1 \in DOMAIN responses /\ running = responses[turn - 1].seq
      /\ running \in Nat /\ running < nextSeq
  BY <1>1 DEF CallInv, NoneRetiredAhead, OneResponseEach, Answered
<1>3. /\ DOMAIN requests' \subseteq DOMAIN requests
      /\ \/ retired' = retired
         \/ retired' = retired \cup {running} /\ running \notin DOMAIN requests'
  BY NumberIsGone DEF CallbackReturns, EndedByCallback, IInv
<1>4. RetiredForGood'
  BY <1>1, <1>2, <1>3 DEF CallInv, RetiredForGood
<1>5. \A i \in DOMAIN responses : i >= turn => responses[i].seq \notin retired'
  <2> SUFFICES ASSUME NEW i \in DOMAIN responses, i >= turn PROVE responses[i].seq \notin retired'
    OBVIOUS
  <2>1. responses[i].seq \notin retired
    BY <1>1 DEF CallInv, NoneRetiredAhead
  <2>2. i # turn - 1
    <3>1. PICK S : responses \in Seq(S)
      BY DEF CallInv, OneResponseEach, Answered
    <3>2. i \in Nat
      BY <3>1, LenProperties
    <3> QED
      BY <1>2, <3>2
  <2>3. responses[i].seq # running
    BY <1>2, <2>2 DEF CallInv, OneResponseEach, Answered
  <2> QED
    BY <1>3, <2>1, <2>3
<1>6. NoneRetiredAhead'
  BY <1>1, <1>2, <1>5 DEF CallInv, NoneRetiredAhead
<1>7. OneReportEach' /\ OneResponseEach'
  BY <1>1 DEF CallInv, OneReportEach, OneResponseEach, Answered, AllFds
<1> QED
  BY <1>4, <1>6, <1>7 DEF CallInv

\* An entry that comes after the cursor is another registration than those
\* reported before.
LEMMA VisitKeepsCalls ==
  ASSUME IInv, CallInv, VisitEntry
  PROVE  CallInv'
<1> DEFINE Report == [seq: Nat, events: Masks, fd: AllFds]
<1>1. PICK fd \in DOMAIN interest :
        /\ IsNext(interest, cursor, fd) /\ cursor' = fd
        /\ LET events == interest[fd].events \cap ReadyFor(fd)
           IN reported' = IF events = {} THEN reported
                          ELSE Append(reported, [seq |-> interest[fd].seq,
                                                 events |-> events, fd |-> fd])
  BY DEF VisitEntry
<1>2. /\ UNCHANGED <<call, responses, turn, running, retired, pc, nextSeq, requests>>
      /\ pc = "scan"
  BY DEF VisitEntry, registry, responseVars, callbackVars
<1>3. fd \in AllFds /\ AllFds \subseteq Nat /\ cursor < fd
  <2>1. fd \in AllFds
    BY DEF IInv, Registry, RegistryType, InterestFollows, AllFds
  <2>2. AllFds \subseteq Nat
    BY LooperAssumption DEF AllFds
  <2> QED
    BY <1>1, <2>1, <2>2 DEF IsNext, After
<1>4. reported \in Seq(Report) /\ DOMAIN reported = 1 .. Len(reported) /\ Len(reported) \in Nat
  BY LenProperties DEF IInv, Reports
<1>5. \A i \in DOMAIN reported : reported[i].fd \in Nat /\ reported[i].fd < fd
  <2> SUFFICES ASSUME NEW i \in DOMAIN reported PROVE reported[i].fd \in Nat /\ reported[i].fd < fd
    OBVIOUS
  <2>1. reported[i] \in Report
    BY <1>4, ElementOfSeq
  <2>2. reported[i].fd \in Nat /\ reported[i].fd <= cursor /\ cursor \in Int
    BY <1>2, <1>3, <2>1 DEF CallInv, OneReportEach
  <2> QED
    BY <1>3, <2>2
<1>6. OneReportEach'
  <2>1. CASE reported' = reported
    <3>1. \A i \in DOMAIN reported' : reported'[i].fd <= cursor'
      BY <1>1, <1>3, <1>5, <2>1
    <3>2. cursor' \in AllFds \cup {-1} /\ call'.timeout \in {0, -1}
      BY <1>1, <1>2, <1>3 DEF CallInv, OneReportEach
    <3> QED
      BY <2>1, <3>1, <3>2 DEF CallInv, OneReportEach, AllFds
  <2>2. CASE reported' # reported
    <3> DEFINE report == [seq |-> interest[fd].seq, events |-> interest[fd].events \cap ReadyFor(fd),
                          fd |-> fd]
    <3>1. reported' = Append(reported, report) /\ report.fd = fd /\ report.seq = interest[fd].seq
      BY <1>1, <2>2
    <3>2. reported \in Seq(Report \cup {report}) /\ report \in Report \cup {report}
      BY <1>4, SeqMonotonic
    <3> HIDE DEF report
    <3>3. /\ DOMAIN reported' = 1 .. Len(reported) + 1
          /\ \A i \in 1 .. Len(reported) : reported'[i] = reported[i]
          /\ reported'[Len(reported) + 1] = report
      BY <3>1, <3>2, AppendProperties, LenProperties
    <3>4. \A i \in DOMAIN reported' : (i \in DOMAIN reported /\ reported'[i] = reported[i])
                                      \/ (i = Len(reported) + 1 /\ reported'[i] = report)
      BY <1>4, <3>3
    <3>5. \A i \in DOMAIN reported : report.seq # WakeSeq => reported[i].seq # report.seq
      <4> SUFFICES ASSUME NEW i \in DOMAIN reported, report.seq # WakeSeq, reported[i].seq = report.seq
                   PROVE  FALSE
        OBVIOUS
      <4>1. report.seq \in DOMAIN requests /\ requests[report.seq].fd = fd
        BY <3>1 DEF IInv, Registry, InterestFollows, MapsInSync
      <4>2. reported[i].fd = fd
        BY <4>1 DEF IInv, Reports, NotMisattributed
      <4> QED
        BY <1>3, <1>5, <4>2
    <3>6. \A i, j \in DOMAIN reported' :
            reported'[i].seq # WakeSeq /\ reported'[i].seq = reported'[j].seq => i = j
      BY <3>4, <3>5 DEF CallInv, OneReportEach
    <3>7. \A i \in DOMAIN reported' : reported'[i].fd <= cursor'
      BY <1>1, <1>3, <1>5, <3>1, <3>4
    <3> QED
      BY <1>1, <1>2, <1>3, <3>6, <3>7 DEF CallInv, OneReportEach, AllFds
  <2> QED
    BY <2>1, <2>2
<1>7. OneResponseEach' /\ RetiredForGood' /\ NoneRetiredAhead'
  BY <1>2 DEF CallInv, OneResponseEach, Answered, RetiredForGood, NoneRetiredAhead
<1> QED
  BY <1>6, <1>7 DEF CallInv

\* A second walk starts with an empty buffer.
LEMMA EndPassKeepsCalls ==
  ASSUME IInv, CallInv, NEW elapsed \in BOOLEAN, EndPass(elapsed)
  PROVE  CallInv'
<1>1. UNCHANGED <<call, responses, turn, running, retired, reported, nextSeq, requests>> /\ pc = "scan"
  BY DEF EndPass, registry, responseVars, callbackVars
<1>2. \/ pc' = "handle" /\ cursor' = cursor
      \/ cursor' = -1 /\ pc' = "scan" /\ reported = <<>>
  <2>1. CASE WaitEnds(call.timeout, Len(reported), MaxEvents, elapsed)
    BY <2>1 DEF EndPass
  <2>2. CASE ~ WaitEnds(call.timeout, Len(reported), MaxEvents, elapsed)
    <3>1. call.timeout \in {0, -1}
      BY DEF CallInv, OneReportEach
    <3>2. Len(reported) \in Nat
      BY LenProperties DEF IInv, Reports
    <3>3. Len(reported) = 0
      BY <2>2, <3>1, <3>2 DEF WaitEnds
    <3>4. reported = <<>>
      BY <3>3, EmptySeq DEF IInv, Reports
    <3> QED
      BY <1>1, <2>2, <3>4 DEF EndPass
  <2> QED
    BY <2>1, <2>2
<1>3. OneReportEach'
  BY <1>1, <1>2 DEF CallInv, OneReportEach, AllFds
<1>4. OneResponseEach' /\ RetiredForGood' /\ NoneRetiredAhead'
  BY <1>1, <1>2 DEF CallInv, OneResponseEach, Answered, RetiredForGood, NoneRetiredAhead
<1> QED
  BY <1>3, <1>4 DEF CallInv

\* What is handed to the callbacks was registered when mLock was taken.
LEMMA HandleKeepsCalls ==
  ASSUME IInv, CallInv, HandleEvents
  PROVE  CallInv'
<1>1. /\ UNCHANGED <<requests, nextSeq, call, cursor, reported, running, retired>>
      /\ pc = "handle" /\ pc' = "dispatch" /\ turn' = 1
  BY DEF HandleEvents, waitVars, callbackVars
<1>2. responses' = ResponsesTo(reported)
  BY DEF HandleEvents, IInv, Registry, InterestFollows
<1>3. AnswersOnly(ResponsesTo(reported), reported, Len(reported))
  <2>1. Len(reported) \in Nat /\ DOMAIN reported = 1 .. Len(reported)
    BY LenProperties DEF IInv, Reports
  <2>2. DOMAIN requests \subseteq Nat \ {WakeSeq}
    BY DEF IInv, Registry, RegistryType, WakeSeq
  <2>3. \A i, j \in 1 .. Len(reported) :
          reported[i].seq # WakeSeq /\ reported[i].seq = reported[j].seq => i = j
    BY <2>1 DEF CallInv, OneReportEach
  <2> QED
    BY <2>1, <2>2, <2>3, ResponsesAreAnswers
<1>4. \A i \in DOMAIN responses' : responses'[i].seq \in DOMAIN requests
  BY <1>2, <1>3 DEF AnswersOnly
<1>5. OneResponseEach'
  BY <1>1, <1>2, <1>3, <1>4 DEF AnswersOnly, OneResponseEach, Answered, IInv, Registry, RegistryType
<1>6. NoneRetiredAhead'
  BY <1>1, <1>4 DEF CallInv, NoneRetiredAhead, RetiredForGood
<1>7. OneReportEach' /\ RetiredForGood'
  BY <1>1 DEF CallInv, OneReportEach, RetiredForGood, AllFds
<1> QED
  BY <1>5, <1>6, <1>7 DEF CallInv

LEMMA NextCallback ==
  ASSUME IInv, CallInv, StartCallback
  PROVE  /\ turn' - 1 \in DOMAIN responses /\ running' = responses[turn' - 1].seq
         /\ turn' \in Nat /\ turn' > turn /\ running' \notin retired
<1> DEFINE i == CHOOSE k \in Uncalled : \A j \in Uncalled : k <= j
<1>1. PICK S : responses \in Seq(S)
  BY DEF CallInv, OneResponseEach, Answered
<1>2. Len(responses) \in Nat /\ DOMAIN responses = 1 .. Len(responses)
  BY <1>1, LenProperties
<1>3. turn \in Nat /\ Uncalled \in SUBSET Nat /\ Uncalled # {}
  BY <1>2 DEF CallInv, NoneRetiredAhead, StartCallback, Uncalled
<1>4. \E k \in Uncalled : \A j \in Uncalled : k <= j
  BY <1>3, SmallestNumber
<1>5. i \in Uncalled
  BY <1>4
<1>6. turn' = i + 1 /\ running' = responses[i].seq /\ pc = "dispatch"
  BY DEF StartCallback
<1>7. i \in Nat /\ turn <= i /\ i <= Len(responses)
  BY <1>2, <1>3, <1>5 DEF Uncalled
<1>8. i \in DOMAIN responses
  <2>1. turn > 0
    BY DEF CallInv, NoneRetiredAhead
  <2> QED
    BY <1>2, <1>3, <1>7, <2>1
<1> HIDE DEF i
<1> QED
  BY <1>3, <1>6, <1>7, <1>8 DEF CallInv, NoneRetiredAhead

LEMMA StartCallbackKeepsCalls ==
  ASSUME IInv, CallInv, StartCallback
  PROVE  CallInv'
<1>1. /\ UNCHANGED <<requests, nextSeq, call, cursor, reported, responses, retired>>
      /\ pc = "dispatch" /\ pc' = "callback"
  BY DEF StartCallback, registry, waitVars
<1>2. /\ turn' - 1 \in DOMAIN responses /\ running' = responses[turn' - 1].seq
      /\ turn' \in Nat /\ turn' > turn
  BY NextCallback
<1>3. \A i \in DOMAIN responses : i >= turn' => responses[i].seq \notin retired
  <2> SUFFICES ASSUME NEW i \in DOMAIN responses, i >= turn' PROVE responses[i].seq \notin retired
    OBVIOUS
  <2>1. PICK S : responses \in Seq(S)
    BY DEF CallInv, OneResponseEach, Answered
  <2>2. i \in Nat /\ turn \in Nat
    BY <2>1, LenProperties DEF CallInv, NoneRetiredAhead
  <2>3. i >= turn
    BY <1>2, <2>2
  <2> QED
    BY <1>1, <2>3 DEF CallInv, NoneRetiredAhead
<1>4. NoneRetiredAhead'
  BY <1>1, <1>2, <1>3 DEF CallInv, NoneRetiredAhead
<1>5. OneReportEach' /\ OneResponseEach' /\ RetiredForGood'
  BY <1>1 DEF CallInv, OneReportEach, OneResponseEach, Answered, RetiredForGood, AllFds
<1> QED
  BY <1>4, <1>5 DEF CallInv

\* The rest of a poll, from its call to its result.
LEMMA PollKeepsCalls ==
  ASSUME Timeouts \subseteq {0, -1}, IInv, CallInv,
         UNCHANGED <<requests, nextSeq, turn, running, retired>>,
         \/ responses' = responses /\ UNCHANGED <<cursor, reported>>
         \/ responses' = <<>> /\ cursor' = -1 /\ reported' = <<>>,
         call' = call \/ call'.timeout \in Timeouts,
         pc' \in {"app", "once", "scan"}, pc \notin {"callback", "scan", "dead"},
         pc' = "scan" => reported' = <<>>
  PROVE  CallInv'
<1>1. OneReportEach'
  <2>1. call'.timeout \in {0, -1}
    <3>1. call.timeout \in {0, -1}
      BY DEF CallInv, OneReportEach
    <3> QED
      BY <3>1
  <2>2. CASE reported' = <<>>
    BY <2>1, <2>2 DEF CallInv, OneReportEach, AllFds
  <2>3. CASE reported' = reported /\ pc' # "scan"
    BY <2>1, <2>3 DEF CallInv, OneReportEach, AllFds
  <2> QED
    BY <2>2, <2>3
<1>2. OneResponseEach'
  <2>1. <<>> \in Seq(Nat) /\ DOMAIN <<>> = {}
    OBVIOUS
  <2> QED
    BY <2>1 DEF CallInv, OneResponseEach, Answered
<1>3. RetiredForGood' /\ NoneRetiredAhead'
  BY DEF CallInv, RetiredForGood, NoneRetiredAhead
<1> QED
  BY <1>1, <1>2, <1>3 DEF CallInv

LEMMA QuietKeepsCalls ==
  ASSUME CallInv, UNCHANGED <<requests, nextSeq, turn, running, retired, responses, cursor, reported,
                              call, pc>>
  PROVE  CallInv'
BY DEF CallInv, OneReportEach, OneResponseEach, Answered, RetiredForGood, NoneRetiredAhead, AllFds

LEMMA CallsStep ==
  ASSUME Timeouts \subseteq {0, -1}, IInv, CallInv, [Next]_vars
  PROVE  CallInv'
<1>1. CASE CallAddFd
  BY <1>1, AddFdKeepsCalls
<1>2. CASE CallRemoveFd
  BY <1>2, RemoveFdKeepsCalls
<1>3. CASE Polls
  <2>1. /\ UNCHANGED <<requests, nextSeq, turn, running, retired, responses, cursor, reported>>
        /\ call'.timeout \in Timeouts /\ pc = "app" /\ pc' = "once"
    BY <1>3 DEF Polls, Poll, registry, waitVars, callbackVars
  <2> QED
    BY <2>1, PollKeepsCalls
<1>4. CASE Polling
  <2>1. CASE ReturnIdent \/ (\E atEnd \in BOOLEAN : ReturnResult(atEnd))
    <3>1. /\ UNCHANGED <<requests, nextSeq, turn, running, retired, responses, cursor, reported, call>>
          /\ pc = "once" /\ pc' \in {"app", "once"}
      BY <2>1 DEF ReturnIdent, ReturnResult, registry, waitVars, callbackVars
    <3> QED
      BY <3>1, PollKeepsCalls
  <2>2. CASE StartWait
    <3>1. /\ UNCHANGED <<requests, nextSeq, turn, running, retired, call>>
          /\ pc = "once" /\ pc' = "scan" /\ responses' = <<>> /\ cursor' = -1 /\ reported' = <<>>
      BY <2>2 DEF StartWait, registry, callbackVars
    <3> QED
      BY <3>1, PollKeepsCalls
  <2>3. CASE VisitEntry
    BY <2>3, VisitKeepsCalls
  <2>4. CASE \E elapsed \in BOOLEAN : EndPass(elapsed)
    BY <2>4, EndPassKeepsCalls
  <2>5. CASE HandleEvents
    BY <2>5, HandleKeepsCalls
  <2>6. CASE StartCallback
    BY <2>6, StartCallbackKeepsCalls
  <2>7. CASE \E stay \in BOOLEAN : CallbackReturns(stay)
    BY <2>7, CallbackReturnsKeepsCalls
  <2>8. CASE EndPoll
    <3>1. /\ UNCHANGED <<requests, nextSeq, turn, running, retired, responses, cursor, reported, call>>
          /\ pc = "dispatch" /\ pc' = "once"
      BY <2>8 DEF EndPoll, registry, waitVars, responseVars, callbackVars
    <3> QED
      BY <3>1, PollKeepsCalls
  <2> QED
    BY <1>4, <2>1, <2>2, <2>3, <2>4, <2>5, <2>6, <2>7, <2>8 DEF Polling
<1>5. CASE Environment \/ UNCHANGED vars
  <2>1. UNCHANGED <<requests, nextSeq, turn, running, retired, responses, cursor, reported, call, pc>>
    BY <1>5 DEF Environment, BecomeReady, Consume, vars, registry, waitVars, responseVars, callbackVars
  <2> QED
    BY <2>1, QuietKeepsCalls
<1> QED
  BY <1>1, <1>2, <1>3, <1>4, <1>5 DEF Next

\* A registration whose callback has returned 0, or has removed its own
\* descriptor, is not called again, though other threads add and remove
\* registrations all the time: provided that no poll has a timeout above zero
\* or below -1, whose waits walk over the list more than once (ALooper.h:208-210).
THEOREM EndedIsNotCalledAgain ==
  ASSUME Timeouts \subseteq {0, -1}
  PROVE  Spec => NotCalledAgain
<1>1. Init => IInv /\ CallInv
  BY InitRegistry, InitCalls
<1>2. IInv /\ CallInv /\ [Next]_vars => (IInv /\ CallInv)'
  BY Inductive, CallsStep
<1>3. ASSUME IInv, CallInv, [Next]_vars
      PROVE  [running' # 0 /\ running' # running => running' \notin retired]_vars
  <2> SUFFICES ASSUME Next, running' # 0, running' # running PROVE running' \notin retired
    BY <1>3
  <2>1. StartCallback
    BY DEF Next, CallAddFd, CallRemoveFd, Polls, Polling, Environment, AddFd, AddFdRefused,
       AddFdAgain, RemoveFd, Poll, ReturnIdent, ReturnResult, StartWait, VisitEntry, EndPass,
       HandleEvents, CallbackReturns, EndPoll, BecomeReady, Consume, callbackVars
  <2> QED
    BY <1>3, <2>1, NextCallback
<1> QED
  BY <1>1, <1>2, <1>3, PTL DEF Spec, NotCalledAgain

=============================================================================
