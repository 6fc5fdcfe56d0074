--------------------------- MODULE PollingProofs ---------------------------
(***************************************************************************)
(* The two kinds of descriptors in polling/: the emulated eventfd          *)
(* (EventFd) and the emulated pipe, with main() and the application at its *)
(* ends (Startup).                                                         *)
(*                                                                         *)
(* No count of an emulated eventfd is lost or invented, for any number of  *)
(* threads, slots and units.  That written = taken + value is not          *)
(* inductive by itself: a retry trusts the slot and the count it recorded  *)
(* before it slept, and a new descriptor trusts that nothing was ever      *)
(* handed out of its slot.                                                 *)
(*                                                                         *)
(* The reader of the pipe never waits.  Each report of the pipe is about a *)
(* command of its own (Reports), through the flag, the buffer of responses *)
(* and the read itself, though the flag does not follow the contents.      *)
(***************************************************************************)
EXTENDS EventFd, Startup, SequenceTheorems, TLAPS

-----------------------------------------------------------------------------
(* The eventfd: the invariant *)

\* A waiting thread waits on a descriptor that exists (there is no close),
\* and a waiting writer still holds the count it was called with.
WaitersInUse ==
  \A t \in Threads :
    /\ waiting[t].op # "none" => waiting[t].fd \in Used
    /\ waiting[t].op = "write" => waiting[t].val \in WriteVals

\* Nothing was handed out of a slot that is not in use yet.
FreeSlotsAreFresh == \A s \in Slots \ Used : taken[s] = 0

IInv == TypeOK /\ WaitersInUse /\ FreeSlotsAreFresh /\ CountsConserved

-----------------------------------------------------------------------------
(* The counter of one descriptor *)

\* A read of a counter that is not zero hands out at least one, leaves the
\* rest and stays in range, with and without EFD_SEMAPHORE
\* (pseudo_eventfd_read).
LEMMA ReadSplitsTheCounter ==
  ASSUME NEW efd \in EventFdRecord, Readable(efd)
  PROVE  /\ AfterRead(efd) \in EventFdRecord
         /\ ReadCount(efd) \in Nat
         /\ ReadCount(efd) >= 1
         /\ ReadCount(efd) + AfterRead(efd).value = efd.value
BY MaxValueAssumption DEF EventFdRecord, Readable, AfterRead, ReadCount

\* A write that fits adds what it was given and stays in range
\* (pseudo_eventfd_write).
LEMMA WriteAddsToTheCounter ==
  ASSUME NEW efd \in EventFdRecord, NEW val \in Nat, HasRoomFor(efd, val)
  PROVE  /\ AfterWrite(efd, val) \in EventFdRecord
         /\ AfterWrite(efd, val).value = efd.value + val
BY MaxValueAssumption DEF EventFdRecord, HasRoomFor, AfterWrite

-----------------------------------------------------------------------------
(* The steps *)

LEMMA NotWaitingIsACall == NotWaiting \in Calls
BY EventFdAssumption DEF NotWaiting, Calls

LEMMA Start == Init => IInv
<1> SUFFICES ASSUME Init PROVE IInv
  OBVIOUS
<1>1. Used = {}
  BY DEF Init, Used
<1>2. TypeOK
  <2>1. waiting \in [Threads -> Calls]
    BY NotWaitingIsACall DEF Init
  <2>2. pool \in [Used -> EventFdRecord]
    BY <1>1 DEF Init, Used
  <2> QED
    BY <1>1, <2>1, <2>2 DEF Init, TypeOK
<1>3. WaitersInUse
  BY DEF Init, WaitersInUse, NotWaiting
<1>4. FreeSlotsAreFresh /\ CountsConserved
  BY <1>1 DEF Init, FreeSlotsAreFresh, CountsConserved
<1> QED
  BY <1>2, <1>3, <1>4 DEF IInv

\* A new descriptor starts with what its creator put in, in a slot out of
\* which nothing was ever taken.
LEMMA CreateKeeps ==
  ASSUME IInv, NEW t \in Threads, NEW v \in InitVals, NEW n \in BOOLEAN,
         NEW s \in BOOLEAN, Create(t, v, n, s)
  PROVE  IInv'
<1>1. PICK new \in Slots \ Used :
        /\ pool' = [r \in Used \cup {new} |->
                      IF r = new THEN NewEventFd(v, n, s) ELSE pool[r]]
        /\ written' = [written EXCEPT ![new] = v]
  BY DEF Create
<1>2. UNCHANGED <<waiting, got, taken>>
  BY DEF Create
<1>3. Used' = Used \cup {new} /\ Slots' = Slots
  BY <1>1 DEF Used, Slots
<1>4. v \in 0 .. MaxValue /\ v \in Nat
  BY EventFdAssumption, MaxValueAssumption
<1>5. NewEventFd(v, n, s) \in EventFdRecord /\ NewEventFd(v, n, s).value = v
  BY <1>4 DEF NewEventFd, EventFdRecord
<1>6. TypeOK'
  <2>1. Used' \subseteq Slots'
    BY <1>3 DEF IInv, TypeOK
  <2>2. pool' \in [Used' -> EventFdRecord]
    BY <1>1, <1>3, <1>5 DEF IInv, TypeOK
  <2>3. written' \in [Slots -> Nat]
    BY <1>1, <1>4 DEF IInv, TypeOK
  <2> QED
    BY <1>2, <1>3, <2>1, <2>2, <2>3 DEF IInv, TypeOK
<1>7. WaitersInUse'
  BY <1>2, <1>3 DEF IInv, WaitersInUse
<1>8. FreeSlotsAreFresh'
  BY <1>2, <1>3 DEF IInv, FreeSlotsAreFresh
<1>9. CountsConserved'
  <2>1. ASSUME NEW fd \in Used'
        PROVE  written'[fd] = taken'[fd] + pool'[fd].value
    <3>1. CASE fd = new
      <4>1. taken[new] = 0
        BY <1>1 DEF IInv, FreeSlotsAreFresh
      <4>2. written'[fd] = v /\ pool'[fd].value = v
        BY <1>1, <1>5, <3>1 DEF IInv, TypeOK
      <4> QED
        BY <1>2, <1>4, <3>1, <4>1, <4>2
    <3>2. CASE fd # new
      <4>1. fd \in Used
        BY <1>3, <2>1, <3>2
      <4>2. written'[fd] = written[fd] /\ pool'[fd] = pool[fd]
        BY <1>1, <3>2, <4>1 DEF IInv, TypeOK
      <4> QED
        BY <1>2, <4>1, <4>2 DEF IInv, CountsConserved
    <3> QED
      BY <3>1, <3>2
  <2> QED
    BY <1>2, <2>1 DEF IInv, CountsConserved
<1> QED
  BY <1>6, <1>7, <1>8, <1>9 DEF IInv

\* Whoever takes a readable counter, at once or after a wait, leaves it so
\* that the sums agree.
LEMMA TakeKeeps ==
  ASSUME IInv, NEW t \in Threads, NEW fd \in Used, Readable(pool[fd]),
         TakeFrom(t, fd)
  PROVE  /\ (Used \subseteq Slots)' /\ Used' = Used
         /\ (pool \in [Used -> EventFdRecord])'
         /\ got' \in [Threads -> Nat]
         /\ written' \in [Slots -> Nat]
         /\ taken' \in [Slots -> Nat]
         /\ FreeSlotsAreFresh'
         /\ CountsConserved'
<1>1. PICK n \in Nat, after \in EventFdRecord :
        /\ n >= 1
        /\ n + after.value = pool[fd].value
        /\ n = ReadCount(pool[fd])
        /\ after = AfterRead(pool[fd])
  BY ReadSplitsTheCounter DEF IInv, TypeOK
<1>2. /\ pool' = [pool EXCEPT ![fd] = after]
      /\ got' = [got EXCEPT ![t] = n]
      /\ taken' = [taken EXCEPT ![fd] = @ + n]
      /\ written' = written
  BY <1>1 DEF TakeFrom
<1>3. Used' = Used /\ Slots' = Slots /\ fd \in Slots
  BY <1>2 DEF IInv, TypeOK, Used, Slots
<1>4. /\ (Used \subseteq Slots)'
      /\ (pool \in [Used -> EventFdRecord])'
      /\ got' \in [Threads -> Nat]
      /\ written' \in [Slots -> Nat]
      /\ taken' \in [Slots -> Nat]
  BY <1>2, <1>3 DEF IInv, TypeOK
<1>5. FreeSlotsAreFresh'
  BY <1>2, <1>3 DEF IInv, FreeSlotsAreFresh, TypeOK
<1>6. CountsConserved'
  <2>1. ASSUME NEW r \in Used
        PROVE  written'[r] = taken'[r] + pool'[r].value
    <3>1. /\ written[r] = taken[r] + pool[r].value
          /\ written[r] \in Nat /\ taken[r] \in Nat /\ pool[r].value \in Nat
      BY MaxValueAssumption DEF IInv, CountsConserved, TypeOK, EventFdRecord
    <3>2. CASE r = fd
      <4>1. /\ pool'[r].value = after.value
            /\ taken'[r] = taken[r] + n
            /\ written'[r] = written[r]
        BY <1>2, <1>3, <3>2 DEF IInv, TypeOK
      <4>2. after.value \in Nat
        BY MaxValueAssumption DEF EventFdRecord
      <4> QED
        BY <1>1, <3>1, <3>2, <4>1, <4>2
    <3>3. CASE r # fd
      BY <1>2, <3>1, <3>3 DEF IInv, TypeOK
    <3> QED
      BY <3>2, <3>3
  <2>2. \A u \in Threads : got'[u] >= 1
    BY <1>1, <1>2 DEF IInv, CountsConserved, TypeOK
  <2> QED
    BY <1>3, <2>1, <2>2 DEF CountsConserved
<1> QED
  BY <1>3, <1>4, <1>5, <1>6

\* The same for whoever puts a count into a counter with room for it.
LEMMA PutKeeps ==
  ASSUME IInv, NEW fd \in Used, NEW val \in WriteVals,
         HasRoomFor(pool[fd], val), PutInto(fd, val)
  PROVE  /\ (Used \subseteq Slots)' /\ Used' = Used
         /\ (pool \in [Used -> EventFdRecord])'
         /\ got' \in [Threads -> Nat]
         /\ written' \in [Slots -> Nat]
         /\ taken' \in [Slots -> Nat]
         /\ FreeSlotsAreFresh'
         /\ CountsConserved'
<1>0. val \in Nat
  BY EventFdAssumption
<1>1. PICK after \in EventFdRecord :
        after = AfterWrite(pool[fd], val) /\ after.value = pool[fd].value + val
  BY <1>0, WriteAddsToTheCounter DEF IInv, TypeOK
<1>2. /\ pool' = [pool EXCEPT ![fd] = after]
      /\ written' = [written EXCEPT ![fd] = @ + val]
      /\ got' = got /\ taken' = taken
  BY <1>1 DEF PutInto
<1>3. Used' = Used /\ Slots' = Slots /\ fd \in Slots
  BY <1>2 DEF IInv, TypeOK, Used, Slots
<1>4. /\ (Used \subseteq Slots)'
      /\ (pool \in [Used -> EventFdRecord])'
      /\ got' \in [Threads -> Nat]
      /\ written' \in [Slots -> Nat]
      /\ taken' \in [Slots -> Nat]
  BY <1>0, <1>2, <1>3 DEF IInv, TypeOK
<1>5. FreeSlotsAreFresh'
  BY <1>2, <1>3 DEF IInv, FreeSlotsAreFresh
<1>6. CountsConserved'
  <2>1. ASSUME NEW r \in Used
        PROVE  written'[r] = taken'[r] + pool'[r].value
    <3>1. /\ written[r] = taken[r] + pool[r].value
          /\ written[r] \in Nat /\ taken[r] \in Nat /\ pool[r].value \in Nat
      BY MaxValueAssumption DEF IInv, CountsConserved, TypeOK, EventFdRecord
    <3>2. CASE r = fd
      <4>1. /\ pool'[r].value = pool[r].value + val
            /\ written'[r] = written[r] + val
        BY <1>1, <1>2, <1>3, <3>2 DEF IInv, TypeOK
      <4> QED
        BY <1>0, <1>2, <3>1, <4>1
    <3>3. CASE r # fd
      BY <1>2, <3>1, <3>3 DEF IInv, TypeOK
    <3> QED
      BY <3>2, <3>3
  <2> QED
    BY <1>2, <1>3, <2>1 DEF IInv, CountsConserved
<1> QED
  BY <1>3, <1>4, <1>5, <1>6

\* A call that starts to wait records a descriptor that is in use.
LEMMA BlockKeeps ==
  ASSUME IInv, NEW t \in Threads, NEW call \in Calls,
         call.fd \in Used, call.op = "write" => call.val \in WriteVals,
         waiting' = [waiting EXCEPT ![t] = call],
         UNCHANGED <<pool, got, written, taken>>
  PROVE  IInv'
<1>1. Used' = Used /\ Slots' = Slots
  BY DEF Used, Slots
<1>2. TypeOK'
  BY <1>1 DEF IInv, TypeOK
<1>3. WaitersInUse'
  BY <1>1 DEF IInv, WaitersInUse, TypeOK
<1>4. FreeSlotsAreFresh' /\ CountsConserved'
  BY <1>1 DEF IInv, FreeSlotsAreFresh, CountsConserved
<1> QED
  BY <1>2, <1>3, <1>4 DEF IInv

LEMMA StepKeeps == IInv /\ [Next]_vars => IInv'
<1> SUFFICES ASSUME IInv, [Next]_vars PROVE IInv'
  OBVIOUS
<1>1. ASSUME NEW t \in Threads, NEW v \in InitVals, NEW n \in BOOLEAN,
             NEW s \in BOOLEAN, Create(t, v, n, s)
      PROVE  IInv'
  BY <1>1, CreateKeeps
<1>2. ASSUME NEW t \in Threads, NEW fd \in Used, Read(t, fd)
      PROVE  IInv'
  <2>1. Readable(pool[fd]) /\ TakeFrom(t, fd) /\ waiting' = waiting
    BY <1>2 DEF Read
  <2> QED
    BY <2>1, TakeKeeps DEF IInv, TypeOK, WaitersInUse
<1>3. ASSUME NEW t \in Threads, NEW fd \in Used, ReadBlocks(t, fd)
      PROVE  IInv'
  <2> DEFINE call == [op |-> "read", fd |-> fd, val |-> 0]
  <2>1. call \in Calls
    BY DEF IInv, TypeOK, Calls, Slots
  <2> QED
    BY <1>3, <2>1, BlockKeeps DEF ReadBlocks
<1>4. ASSUME NEW t \in Threads, NEW fd \in Used, NEW v \in WriteVals, Write(t, fd, v)
      PROVE  IInv'
  <2>1. HasRoomFor(pool[fd], v) /\ PutInto(fd, v) /\ waiting' = waiting
    BY <1>4 DEF Write
  <2> QED
    BY <2>1, PutKeeps DEF IInv, TypeOK, WaitersInUse
<1>5. ASSUME NEW t \in Threads, NEW fd \in Used, NEW v \in WriteVals, WriteBlocks(t, fd, v)
      PROVE  IInv'
  <2> DEFINE call == [op |-> "write", fd |-> fd, val |-> v]
  <2>1. call \in Calls
    BY DEF IInv, TypeOK, Calls, Slots
  <2> QED
    BY <1>5, <2>1, BlockKeeps DEF WriteBlocks
<1>6. ASSUME NEW t \in Threads, ReadRetry(t)
      PROVE  IInv'
  <2>1. PICK fd \in Used : fd = waiting[t].fd
    BY <1>6 DEF ReadRetry, IInv, WaitersInUse
  <2>2. /\ Readable(pool[fd]) /\ TakeFrom(t, fd)
        /\ waiting' = [waiting EXCEPT ![t] = NotWaiting]
    BY <1>6, <2>1 DEF ReadRetry
  <2>3. waiting' \in [Threads -> Calls]
    BY <2>2, NotWaitingIsACall DEF IInv, TypeOK
  <2>4. Used' = Used
    BY <2>2, TakeKeeps
  <2>5. WaitersInUse'
    BY <2>2, <2>4 DEF IInv, TypeOK, WaitersInUse, NotWaiting
  <2> QED
    BY <2>2, <2>3, <2>5, TakeKeeps DEF IInv, TypeOK
<1>7. ASSUME NEW t \in Threads, WriteRetry(t)
      PROVE  IInv'
  <2>1. PICK fd \in Used, v \in WriteVals : fd = waiting[t].fd /\ v = waiting[t].val
    BY <1>7 DEF WriteRetry, IInv, WaitersInUse
  <2>2. /\ HasRoomFor(pool[fd], v) /\ PutInto(fd, v)
        /\ waiting' = [waiting EXCEPT ![t] = NotWaiting]
    BY <1>7, <2>1 DEF WriteRetry
  <2>3. waiting' \in [Threads -> Calls]
    BY <2>2, NotWaitingIsACall DEF IInv, TypeOK
  <2>4. Used' = Used
    BY <2>2, PutKeeps
  <2>5. WaitersInUse'
    BY <2>2, <2>4 DEF IInv, TypeOK, WaitersInUse, NotWaiting
  <2> QED
    BY <2>2, <2>3, <2>5, PutKeeps DEF IInv, TypeOK
<1>8. CASE UNCHANGED vars
  BY <1>8 DEF vars, IInv, TypeOK, WaitersInUse, FreeSlotsAreFresh,
              CountsConserved, Used, Slots
<1> QED
  BY <1>1, <1>2, <1>3, <1>4, <1>5, <1>6, <1>7, <1>8 DEF Next

-----------------------------------------------------------------------------
(* The theorem *)

\* For any number of threads, descriptors and units: what was written to an
\* eventfd is what its readers were handed plus what is still in it, and no
\* reader is handed zero (pseudo_eventfd.cpp, create, read and write).
THEOREM CountsAlwaysConserved == Spec => []CountsConserved
<1>1. IInv => CountsConserved
  BY DEF IInv
<1> QED
  BY Start, StepKeeps, <1>1, PTL DEF Spec

-----------------------------------------------------------------------------
(* The pipe: the invariant *)

\* What the wait has reported comes in the order of the walk, the pipe last.
Reported ==
  /\ responses \in {<<>>, <<"input">>, <<"commands">>, <<"input", "commands">>}
  /\ appPc = "pipe" => responses \in {<<>>, <<"input">>}
  /\ appPc \in {"read", "execute"} => responses = <<>>
  /\ appPc \in {"input", "pipe", "return", "read", "execute"}

\* Each report of the pipe is about a command of its own: the one that the
\* application is about to read, the one in responses, and the one that made
\* the flag true.
Reports ==
  (IF appPc = "read" THEN 1 ELSE 0)
  + (IF responses \in {<<"commands">>, <<"input", "commands">>} THEN 1 ELSE 0)
  + (IF pipe.readable THEN 1 ELSE 0)

Enough ==
  /\ pipe \in PipeRecord(Commands)
  /\ Reports <= Len(pipe.messages)

\* main() writes the command of its line.
Writing ==
  /\ line \in Nat \ {0}
  /\ mainPc = "writing" => Sending

PipeInv == Reported /\ Enough /\ Writing

LEMMA PipeInit == StartupInit => PipeInv
<1> SUFFICES ASSUME StartupInit PROVE PipeInv
  OBVIOUS
<1>1. /\ pipe = [messages |-> <<>>, readable |-> FALSE, writeable |-> TRUE]
      /\ appPc = "pipe" /\ responses = <<>> /\ line = 1 /\ mainPc = "next"
  BY DEF StartupInit, NewPipe
<1>2. pipe \in PipeRecord(Commands)
  BY <1>1 DEF PipeRecord
<1>3. Reports = 0
  <2>1. responses \notin {<<"commands">>, <<"input", "commands">>}
    BY <1>1
  <2> QED
    BY <1>1, <2>1 DEF Reports
<1>4. 0 <= Len(pipe.messages)
  BY <1>2 DEF PipeRecord
<1> QED
  BY <1>1, <1>2, <1>3, <1>4 DEF PipeInv, Reported, Enough, Writing

\* The lines that send have a command.
LEMMA LinesHaveCommands == Sending /\ line \in Nat \ {0} => Program[line].cmd \in Commands
<1> SUFFICES ASSUME Sending, line \in Nat \ {0} PROVE Program[line].cmd \in Commands
  OBVIOUS
<1>1. Len(Program) = 6
  BY DEF Program
<1>2. line <= 6
  <2>1. ~ (line > 6)
    BY <1>1, Zenon DEF Sending, Done
  <2> QED
    BY <2>1
<1>3. line = 1 \/ line = 2 \/ line = 3 \/ line = 4 \/ line = 5 \/ line = 6
  BY <1>2
<1>4. /\ Program[1].cmd = "START" /\ Program[3].cmd = "INPUT_CHANGED"
      /\ Program[4].cmd = "INIT_WINDOW" /\ Program[5].cmd = "GAINED_FOCUS"
  BY DEF Program
<1>5. Program[2].do = "create queue" /\ Program[6].do = "detect"
  BY DEF Program
<1>6. line # 2 /\ line # 6
  BY <1>5 DEF Sending
<1> QED
  BY <1>3, <1>4, <1>6, Zenon DEF Commands

LEMMA ReportedCommandIsThere == PipeInv => ReadNeverWaits
<1> SUFFICES ASSUME PipeInv, appPc = "read" PROVE CanReceive(pipe)
  BY DEF ReadNeverWaits
<1>1. 1 <= Len(pipe.messages)
  <2>1. Reports \in {1, 2} /\ Len(pipe.messages) \in Nat
    BY DEF PipeInv, Reported, Reports, Enough, PipeRecord
  <2> QED
    BY <2>1 DEF PipeInv, Enough
<1> QED
  BY <1>1 DEF CanReceive

LEMMA EndWriteKeeps ==
  ASSUME PipeInv, EndWrite
  PROVE  PipeInv'
<1>1. Program[line].cmd \in Commands
  <2>1. Sending /\ line \in Nat \ {0}
    BY DEF EndWrite, PipeInv, Writing
  <2> QED
    BY <2>1, LinesHaveCommands
<1>2. /\ pipe'.messages = Append(pipe.messages, Program[line].cmd)
      /\ pipe'.readable = TRUE
      /\ pipe' \in PipeRecord(Commands)
  <2> DEFINE new == Program[line].cmd
  <2>1. pipe' = [pipe EXCEPT !.messages = Append(@, new), !.readable = TRUE]
    BY DEF EndWrite, AfterSend
  <2>2. pipe \in [messages : Seq(Commands), readable : BOOLEAN, writeable : BOOLEAN]
    BY DEF PipeInv, Enough, PipeRecord
  <2> HIDE DEF new
  <2>3. Append(pipe.messages, new) \in Seq(Commands)
    BY <1>1, <2>2 DEF new
  <2> QED
    BY <2>1, <2>2, <2>3 DEF PipeRecord, new
<1>3. UNCHANGED <<appPc, responses>>
  BY DEF EndWrite, appVars
<1>4. Reported'
  BY <1>3 DEF PipeInv, Reported
<1>5. Reports' <= Reports + 1 /\ Reports \in Nat /\ Reports' \in Nat
  BY <1>2, <1>3 DEF Reports
<1>6. Len(pipe'.messages) = Len(pipe.messages) + 1 /\ Len(pipe.messages) \in Nat
  BY <1>1, <1>2 DEF PipeInv, Enough, PipeRecord
<1>7. Writing'
  BY DEF EndWrite, AfterLine, PipeInv, Writing
<1> QED
  BY <1>2, <1>4, <1>5, <1>6, <1>7 DEF PipeInv, Enough

LEMMA SecondElement == \A a, b : Append(<<a>>, b) = <<a, b>>
<1> SUFFICES ASSUME NEW a, NEW b PROVE Append(<<a>>, b) = <<a, b>>
  OBVIOUS
<1> DEFINE S == {a, b}
<1>1. <<a>> \in Seq(S) /\ <<a, b>> \in Seq(S) /\ b \in S
  OBVIOUS
<1> HIDE DEF S
<1>2. Append(<<a>>, b) \in Seq(S) /\ Len(Append(<<a>>, b)) = 2 /\ Len(<<a, b>>) = 2
  BY <1>1
<1>3. \A i \in 1 .. 2 : Append(<<a>>, b)[i] = <<a, b>>[i]
  <2>1. Append(<<a>>, b)[1] = a /\ Append(<<a>>, b)[2] = b
    BY <1>1
  <2> QED
    BY <2>1
<1> QED
  BY <1>1, <1>2, <1>3, SeqEqual

LEMMA VisitPipeKeeps ==
  ASSUME PipeInv, VisitPipe
  PROVE  PipeInv'
<1>1. pipe'.messages = pipe.messages /\ pipe'.readable = FALSE /\ pipe' \in PipeRecord(Commands)
  BY DEF VisitPipe, AfterStatus, PipeInv, Enough, PipeRecord
<1>2. responses \in {<<>>, <<"input">>} /\ appPc = "pipe" /\ appPc' = "return"
  BY DEF VisitPipe, PipeInv, Reported
<1>3. CASE pipe.readable
  <2>1. responses' \in {<<"commands">>, <<"input", "commands">>}
    <3>1. /\ Append(<<>>, "commands") = <<"commands">>
          /\ Append(<<"input">>, "commands") = <<"input", "commands">>
      <4>1. Append(<<>>, "commands") = <<"commands">>
        OBVIOUS
      <4> QED
        BY <4>1, SecondElement
    <3>2. responses' = Append(responses, "commands")
      BY <1>3 DEF VisitPipe
    <3> QED
      BY <1>2, <3>1, <3>2
  <2>2. Reports' = 1 /\ Reports = 1
    BY <1>1, <1>2, <1>3, <2>1 DEF Reports
  <2> QED
    BY <1>1, <1>2, <2>1, <2>2 DEF VisitPipe, mainVars, PipeInv, Reported, Enough, Writing, Sending, Done
<1>4. CASE ~ pipe.readable
  <2>1. responses' = responses
    BY <1>4 DEF VisitPipe
  <2>2. Reports' = 0 /\ Reports = 0
    BY <1>1, <1>2, <1>4, <2>1 DEF Reports
  <2> QED
    BY <1>1, <1>2, <2>1, <2>2 DEF VisitPipe, mainVars, PipeInv, Reported, Enough, Writing, Sending, Done
<1> QED
  BY <1>3, <1>4

LEMMA ReturnKeeps ==
  ASSUME PipeInv, ReturnResponse
  PROVE  PipeInv'
<1>1. UNCHANGED <<pipe, line, mainPc>> /\ appPc = "return"
  BY DEF ReturnResponse, mainVars
<1>2. Reported' /\ Reports' = Reports
  BY <1>1 DEF ReturnResponse, FirstEntry, PipeInv, Reported, Reports
<1> QED
  BY <1>1, <1>2 DEF PipeInv, Enough, Writing, Sending, Done

LEMMA EndReadKeeps ==
  ASSUME PipeInv, EndRead
  PROVE  PipeInv'
<1>1. /\ pipe'.messages = Tail(pipe.messages) /\ pipe'.readable = pipe.readable
      /\ pipe' \in PipeRecord(Commands) /\ Len(pipe.messages) \in Nat
      /\ Len(pipe'.messages) = Len(pipe.messages) - 1
  <2>1. pipe' = [pipe EXCEPT !.messages = Tail(@)] /\ pipe.messages # <<>>
    BY DEF EndRead, CanReceive, AfterReceive
  <2>2. pipe \in [messages : Seq(Commands), readable : BOOLEAN, writeable : BOOLEAN]
    BY DEF PipeInv, Enough, PipeRecord
  <2>3. /\ Tail(pipe.messages) \in Seq(Commands) /\ Len(pipe.messages) \in Nat
        /\ Len(Tail(pipe.messages)) = Len(pipe.messages) - 1
    BY <2>1, <2>2
  <2> QED
    BY <2>1, <2>2, <2>3 DEF PipeRecord
<1>2. appPc = "read" /\ appPc' = "execute" /\ UNCHANGED <<responses, line, mainPc>>
  BY DEF EndRead, mainVars
<1>3. Reports' = Reports - 1 /\ Reports \in Nat
  BY <1>1, <1>2 DEF Reports
<1>4. Reports' <= Len(pipe'.messages)
  BY <1>1, <1>3 DEF PipeInv, Enough
<1> QED
  BY <1>1, <1>2, <1>4 DEF PipeInv, Reported, Enough, Writing, Sending, Done

LEMMA PipeStep == PipeInv /\ [StartupNext]_startupVars => PipeInv'
<1> SUFFICES ASSUME PipeInv, [StartupNext]_startupVars PROVE PipeInv'
  OBVIOUS
<1> USE DEF mainVars, appVars
\* Whatever leaves the pipe and the application alone.
<1>1. ASSUME UNCHANGED <<pipe, appPc, responses>>, Writing' PROVE PipeInv'
  BY <1>1 DEF PipeInv, Reported, Enough, Reports
<1>2. ASSUME UNCHANGED <<line, mainPc>> PROVE Writing'
  BY <1>2 DEF PipeInv, Writing, Sending, Done
<1>3. CASE UNCHANGED startupVars \/ PollPads \/ Play
  BY <1>1, <1>2, <1>3 DEF startupVars, PollPads, Play
<1>4. CASE BeginWrite \/ CommandDone \/ BeginDetection \/ Detect \/ EndDetection
  <2>1. Writing'
    <3>1. CASE BeginWrite
      BY <3>1 DEF BeginWrite, PipeInv, Writing, Sending, Done
    <3>2. CASE CommandDone \/ EndDetection
      <4>1. line' = line + 1 /\ mainPc' = "next" /\ line \in Nat
        BY <3>2 DEF CommandDone, EndDetection, AfterLine, PipeInv, Writing
      <4>2. line' \in Nat \ {0}
        BY <4>1
      <4> QED
        BY <4>1, <4>2 DEF Writing
    <3>3. CASE BeginDetection
      BY <3>3 DEF BeginDetection, PipeInv, Writing
    <3>4. CASE Detect
      BY <1>2, <3>4 DEF Detect
    <3> QED
      BY <1>4, <3>1, <3>2, <3>3, <3>4
  <2> QED
    BY <1>1, <1>4, <2>1 DEF BeginWrite, CommandDone, BeginDetection, Detect, EndDetection
<1>5. CASE VisitInput
  <2>1. appPc = "input" /\ appPc' = "pipe" /\ responses' \in {<<>>, <<"input">>} /\ pipe' = pipe
    BY <1>5 DEF VisitInput, AfterInput
  <2>2. Reports' <= Reports /\ Reports' \in Nat /\ Reports \in Nat
    BY <2>1 DEF Reports
  <2>3. Len(pipe.messages) \in Nat
    BY DEF PipeInv, Enough, PipeRecord
  <2> QED
    BY <1>2, <1>5, <2>1, <2>2, <2>3 DEF VisitInput, PipeInv, Reported, Enough
<1>6. CASE BeginRead
  BY <1>1, <1>2, <1>6 DEF BeginRead
<1>7. CASE Execute
  <2>1. appPc = "execute" /\ appPc' = "return" /\ UNCHANGED <<responses, pipe>>
    BY <1>7 DEF Execute
  <2>2. Reports' = Reports
    BY <2>1 DEF Reports
  <2> QED
    BY <1>2, <1>7, <2>1, <2>2 DEF Execute, PipeInv, Reported, Enough
<1> QED
  BY <1>3, <1>4, <1>5, <1>6, <1>7, EndWriteKeeps, VisitPipeKeeps, ReturnKeeps, EndReadKeeps
     DEF StartupNext, Main, App

\* A read that follows a report finds its command, for a pipe of any size and
\* any pads: the kernel is never waited for with the pool mutex held by the
\* one reader that the writer needs.
THEOREM ReadsNeverWait == StartupSpec => []ReadNeverWaits
BY PipeInit, PipeStep, ReportedCommandIsThere, PTL DEF StartupSpec
=============================================================================
