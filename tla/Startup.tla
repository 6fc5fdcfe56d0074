------------------------------ MODULE Startup -------------------------------
(***************************************************************************)
(* From main() (source/main.c) to the running game: the main program sends *)
(* the lifecycle commands through an emulated pipe, creates the input      *)
(* queue, which starts the thread that polls the pads, and detects the     *)
(* pads again at the end; the application thread waits in pseudo_epoll_    *)
(* wait for commands and input.                                            *)
(*                                                                         *)
(* The glue between the two is the game's (native_app_glue): each command  *)
(* is one byte, and the sender waits until it has been executed, except    *)
(* for a change of focus.  The kernel's wait for a message pipe is inside  *)
(* the critical section of the pool mutex.                                 *)
(***************************************************************************)
EXTENDS Sequences, Controls

-----------------------------------------------------------------------------
(* One emulated pipe (polling/pseudo_pipe.cpp): a kernel message pipe and two *)
(* flags that tell epoll what the pipe is ready for.  The flags do not follow *)
(* the contents: a write sets "readable", and being asked for the status      *)
(* clears both.  A message is one command, a single byte.                     *)

CONSTANT PipeSize   \* 4 * 4096 bytes

ASSUME PipeAssumption == PipeSize \in Nat \ {0}

PipeRecord(Messages) == [messages: Seq(Messages), readable: BOOLEAN, writeable: BOOLEAN]

NewPipe == [messages |-> <<>>, readable |-> FALSE, writeable |-> TRUE]

\* sceKernelSendMsgPipe and sceKernelReceiveMsgPipe in mode FULL wait until
\* the whole message fits or is there.
CanSend(p) == Len(p.messages) < PipeSize
CanReceive(p) == p.messages # <<>>

AfterSend(p, m) == [p EXCEPT !.messages = Append(@, m), !.readable = TRUE]

\* The flag is cleared by a read of nothing only, which mode FULL excludes.
AfterReceive(p) == [p EXCEPT !.messages = Tail(@)]

\* Mutant: the status is only looked at.
StatusKept(p) == p

AfterStatus(p) == [p EXCEPT !.readable = FALSE, !.writeable = FALSE]

-----------------------------------------------------------------------------
(* The threads *)

\* What main() does, line by line.  The loading of the game before, the
\* announcement of the devices and the thread that looks for cheats after it
\* share nothing with this.
Program ==
  <<[do |-> "send and wait", cmd |-> "START"],
    [do |-> "create queue"],
    [do |-> "send and wait", cmd |-> "INPUT_CHANGED"],
    [do |-> "send and wait", cmd |-> "INIT_WINDOW"],
    [do |-> "send", cmd |-> "GAINED_FOCUS"],
    [do |-> "detect"]>>

Commands == {"START", "INPUT_CHANGED", "INIT_WINDOW", "GAINED_FOCUS"}

VARIABLES
  line,         \* main: the line that is executed
  mainPc,       \* main: "next", "writing", "waiting" or "detecting"
  pipe,         \* the command pipe
  poolMutex,    \* who waits in the kernel with pipefd_pool_mutex, or "free"
  executed,     \* commands the application has executed
  attached,     \* whether the application listens to the input queue
  inputReady,   \* whether the eventfd of the input queue is readable
  appPc,        \* the application thread
  responses,    \* what its wait has reported and pollOnce has not yet returned
  command       \* the command just read

mainVars == <<line, mainPc>>
appVars == <<executed, attached, appPc, responses, command>>
startupVars == <<mainVars, pipe, poolMutex, inputReady, appVars, controlVars>>

Sources == {"commands", "input"}
StartupTypeOK ==
  /\ ControlsTypeOK
  /\ line \in 1 .. Len(Program) + 1
  /\ mainPc \in {"next", "writing", "waiting", "detecting"}
  /\ pipe \in PipeRecord(Commands)
  /\ poolMutex \in {"free", "main", "app"}
  /\ executed \in Seq(Commands)
  /\ attached \in BOOLEAN /\ inputReady \in BOOLEAN
  /\ appPc \in {"input", "pipe", "return", "read", "execute"}
  /\ responses \in Seq(Sources)
  /\ command \in Commands \cup {""}

\* After ANativeActivity_onCreate: the application thread listens to the pipe.
StartupInit ==
  /\ ControlsInit
  /\ line = 1 /\ mainPc = "next"
  /\ pipe = NewPipe /\ poolMutex = "free"
  /\ executed = <<>> /\ attached = FALSE /\ inputReady = FALSE
  /\ appPc = "pipe" /\ responses = <<>> /\ command = ""

-----------------------------------------------------------------------------
(* The main program *)

Done == line > Len(Program)
Sending == ~Done /\ Program[line].do \in {"send", "send and wait"}
AfterLine == line' = line + 1 /\ mainPc' = "next"

\* pseudo_pipe_write up to sceKernelSendMsgPipe.
BeginWrite ==
  /\ mainPc = "next" /\ Sending
  /\ poolMutex = "free"
  /\ poolMutex' = "main"
  /\ mainPc' = "writing"
  /\ UNCHANGED <<line, pipe, inputReady, appVars, controlVars>>

EndWrite ==
  /\ mainPc = "writing"
  /\ CanSend(pipe)
  /\ pipe' = AfterSend(pipe, Program[line].cmd)
  /\ poolMutex' = "free"
  /\ IF Program[line].do = "send" THEN AfterLine
     ELSE mainPc' = "waiting" /\ UNCHANGED line
  /\ UNCHANGED <<inputReady, appVars, controlVars>>

CommandDone ==
  /\ mainPc = "waiting"
  /\ \E i \in DOMAIN executed : executed[i] = Program[line].cmd
  /\ AfterLine
  /\ UNCHANGED <<pipe, poolMutex, inputReady, appVars, controlVars>>

\* AInputQueue_create and its controls_init, or the detection in main.
BeginDetection ==
  /\ mainPc = "next" /\ ~Done
  /\ Program[line].do \in {"create queue", "detect"}
  /\ detecting' = "reset"
  /\ mainPc' = "detecting"
  /\ UNCHANGED <<line, pipe, poolMutex, inputReady, appVars, padVars, available,
                 numControllers, toldVars, portInfo, detectPort, sampleVars>>

Detect ==
  /\ mainPc = "detecting"
  /\ Detection
  /\ UNCHANGED <<mainVars, pipe, poolMutex, inputReady, appVars>>

\* The end of controls_init starts the polling thread.
EndDetection ==
  /\ mainPc = "detecting" /\ detecting = "no"
  /\ pollPc' = IF Program[line].do = "create queue" THEN "device" ELSE pollPc
  /\ AfterLine
  /\ UNCHANGED <<pipe, poolMutex, inputReady, appVars, padVars, available,
                 numControllers, toldVars, detectVars, device, port, sample>>

Main == BeginWrite \/ EndWrite \/ CommandDone \/ BeginDetection \/ Detect \/ EndDetection

-----------------------------------------------------------------------------
(* The polling thread *)

PollPads ==
  /\ Polling
  /\ inputReady' = (inputReady \/ (pollPc = "report" /\ Tells))
  /\ UNCHANGED <<mainVars, pipe, poolMutex, appVars>>

-----------------------------------------------------------------------------
(* The application thread: ALooper_pollAll over pseudo_epoll_wait, whose   *)
(* walk meets the eventfd of the input queue (256 and up) before the pipe  *)
(* (384 and up).  The sleep between two walks, and what pollInner does     *)
(* between the wait and the responses, touch nothing that is shared.       *)

FirstEntry == IF attached THEN "input" ELSE "pipe"

\* Mutant: the walk ends at the first descriptor that is ready.
EndAtFirst(ready) == IF ready THEN "return" ELSE "pipe"

\* Where the walk goes on after the input queue.
AfterInput(ready) == "pipe"

VisitInput ==
  /\ appPc = "input"
  /\ responses' = IF inputReady THEN <<"input">> ELSE <<>>
  /\ appPc' = AfterInput(inputReady)
  /\ UNCHANGED <<mainVars, pipe, poolMutex, inputReady, executed, attached,
                 command, controlVars>>

\* pseudo_pipe_status waits for the pool mutex and clears both flags.
VisitPipe ==
  /\ appPc = "pipe"
  /\ poolMutex = "free"
  /\ responses' = IF pipe.readable THEN Append(responses, "commands") ELSE responses
  /\ pipe' = AfterStatus(pipe)
  /\ appPc' = "return"
  /\ UNCHANGED <<mainVars, poolMutex, inputReady, executed, attached, command,
                 controlVars>>

\* pollOnce returns the responses one by one; when none is left, or none was
\* reported, the walk begins again.
ReturnResponse ==
  /\ appPc = "return"
  /\ IF responses = <<>>
     THEN appPc' = FirstEntry /\ UNCHANGED <<responses, inputReady>>
     ELSE /\ responses' = Tail(responses)
          /\ IF Head(responses) = "input"
             THEN inputReady' = FALSE /\ UNCHANGED appPc
             ELSE appPc' = "read" /\ UNCHANGED inputReady
  /\ UNCHANGED <<mainVars, pipe, poolMutex, executed, attached, command,
                 controlVars>>

\* process_cmd reads one command: pseudo_pipe_read up to
\* sceKernelReceiveMsgPipe, and its end.
BeginRead ==
  /\ appPc = "read"
  /\ poolMutex = "free"
  /\ poolMutex' = "app"
  /\ UNCHANGED <<mainVars, pipe, inputReady, appVars, controlVars>>

EndRead ==
  /\ appPc = "read"
  /\ poolMutex = "app"
  /\ CanReceive(pipe)
  /\ command' = Head(pipe.messages)
  /\ pipe' = AfterReceive(pipe)
  /\ poolMutex' = "free"
  /\ appPc' = "execute"
  /\ UNCHANGED <<mainVars, inputReady, executed, attached, responses,
                 controlVars>>

\* android_app_pre_exec_cmd attaches the input queue.
Execute ==
  /\ appPc = "execute"
  /\ executed' = Append(executed, command)
  /\ attached' = (attached \/ command = "INPUT_CHANGED")
  /\ command' = ""
  /\ appPc' = "return"
  /\ UNCHANGED <<mainVars, pipe, poolMutex, inputReady, responses,
                 controlVars>>

App ==
  \/ VisitInput \/ VisitPipe \/ ReturnResponse
  \/ BeginRead \/ EndRead \/ Execute

Play == Player /\ UNCHANGED <<mainVars, pipe, poolMutex, inputReady, appVars>>

StartupNext == Main \/ PollPads \/ App \/ Play

\* Each of the three threads is scheduled.  Who asks for the pool mutex gets
\* it: it is free except while its holder waits for the kernel.
StartupFairness ==
  /\ WF_startupVars(Main) /\ WF_startupVars(PollPads) /\ WF_startupVars(App)
  /\ SF_startupVars(BeginWrite) /\ SF_startupVars(VisitPipe) /\ SF_startupVars(BeginRead)

StartupSpec == StartupInit /\ [][StartupNext]_startupVars /\ StartupFairness

-----------------------------------------------------------------------------
(* Properties *)

\* A read that follows a report finds its command.  Otherwise it would wait
\* in the kernel with the pool mutex held, and no writer could end the wait.
ReadNeverWaits == appPc = "read" => CanReceive(pipe)

Sent == SelectSeq(Program, LAMBDA l : l.do \in {"send", "send and wait"})

\* Each command main sends is executed, in this order, whatever comes in
\* between: the flag that epoll reads says no more than that something was
\* written since it asked last.
EveryCommandIsExecuted ==
  <>[](executed = [i \in DOMAIN Sent |-> Sent[i].cmd])

\* The second detection is not hidden from the polling thread, which may read
\* wrong ports meanwhile and tell the game of buttons nobody pressed.  All of
\* it is taken back: once main is through and the player does nothing more,
\* the game knows each controller that answers as it is.
Held(i) == pad[PortOf(i)] \cup IF numControllers = 1 THEN rear ELSE {}
Axis == [LTRIGGER |-> "L2", RTRIGGER |-> "R2"]
KnownAsItIs(i) ==
  /\ keysDown[i] = Held(i) \cap Mapped
  /\ \A axis \in DOMAIN Axis :
       AxisValue(sendJoyEvent(joy[i]), axis) = (Axis[axis] \in Held(i))

PadsAreKnown ==
  \A i \in Devices : <>[](available[i] /\ Answers(PortOf(i)) => KnownAsItIs(i))
=============================================================================
