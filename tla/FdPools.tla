------------------------------ MODULE FdPools -------------------------------
(***************************************************************************)
(* The pools of emulated epoll instances, eventfds and pipes               *)
(* (PseudoEpoll.cpp, pseudo_eventfd.cpp, pseudo_pipe.cpp).  Each is a      *)
(* static array under one mutex, and the mutex is created by whoever comes *)
(* first: a compare-and-swap elects the creator, the others poll until it  *)
(* is done, or has failed.  The three copies of this code differ in the    *)
(* numbers and in what a slot needs from the kernel; nothing is closed.    *)
(***************************************************************************)
EXTENDS Integers, FiniteSets

CONSTANTS
  Callers,      \* threads that create and look up descriptors
  PoolSize      \* slots: EPOLL_FD_MAX, EVENTFD_MAX, half of PIPEFD_MAX

ASSUME FdPoolsAssumption == PoolSize \in Nat \ {0}

VARIABLES
  kind,         \* whose pool it is: "epoll", "eventfd" or "pipe"
  inited,       \* the atomic: 0, 1 while somebody creates the mutex, then 2
  mutex,        \* whether the mutex exists
  slots,        \* slot -> its number, -1 if it is free, Raw before that
  at,           \* caller -> where it is
  handed        \* history: caller -> the numbers it was given

poolVars == <<kind, inited, mutex, slots, at, handed>>

Entries == 1 .. PoolSize
Raw == 0      \* static memory

Margin == [epoll |-> 128, eventfd |-> 256, pipe |-> 384]

\* The number of a slot; a pipe has two, and this is the one that is read.
Number(s) == Margin[kind] + (IF kind = "pipe" THEN 2 * (s - 1) ELSE s - 1)

PoolsInit ==
  /\ kind \in {"epoll", "eventfd", "pipe"}
  /\ inited = 0 /\ mutex = FALSE
  /\ slots = [s \in Entries |-> IF kind = "epoll" THEN -1 ELSE Raw]
  /\ at = [t \in Callers |-> "idle"]
  /\ handed = [t \in Callers |-> {}]

Goto(t, place) == at' = [at EXCEPT ![t] = place]

-----------------------------------------------------------------------------
(* *_mutex_init_once, _check_init_lock *)

\* Mutant: a caller that comes while another one is at it starts as well.
ElectedToo == inited # 2

\* The compare-and-swap.
Elected == inited = 0

Arrive(t) ==
  /\ at[t] = "idle"
  /\ IF Elected THEN inited' = 1 /\ Goto(t, "creating")
     ELSE UNCHANGED inited /\ Goto(t, "waiting")
  /\ UNCHANGED <<kind, mutex, slots, handed>>

\* The kernel (or malloc, for an epoll pool) may refuse: the next caller
\* tries again, this one and those that wait go on without a mutex.
CreateMutex(t, refused) ==
  /\ at[t] = "creating"
  /\ IF refused THEN inited' = 0 /\ Goto(t, "checking") /\ UNCHANGED mutex
     ELSE mutex' = TRUE /\ Goto(t, "clearing") /\ UNCHANGED inited
  /\ UNCHANGED <<kind, slots, handed>>

ClearPool(t) ==
  /\ at[t] = "clearing"
  /\ slots' = [s \in Entries |-> -1]
  /\ Goto(t, "finishing")
  /\ UNCHANGED <<kind, inited, mutex, handed>>

FinishPool(t) ==
  /\ at[t] = "finishing"
  /\ inited' = 2
  /\ Goto(t, "checking")
  /\ UNCHANGED <<kind, mutex, slots, handed>>

\* The loop with the delay.
StopWaiting(t) ==
  /\ at[t] = "waiting"
  /\ inited # 1
  /\ Goto(t, "checking")
  /\ UNCHANGED <<kind, inited, mutex, slots, handed>>

\* "Initialization failed", "can't determine" and EAGAIN, or on to the mutex.
Check(t) ==
  /\ at[t] = "checking"
  /\ Goto(t, IF inited = 2 THEN "admitted" ELSE "idle")
  /\ UNCHANGED <<kind, inited, mutex, slots, handed>>

-----------------------------------------------------------------------------
(* Under the mutex, each in one step *)

Unused == {s \in Entries : slots[s] = -1}

\* pseudo_epoll_create1, pseudo_eventfd and pseudo_pipe take the first slot.
Create(t) ==
  /\ at[t] = "admitted"
  /\ \E s \in Unused :
       /\ \A r \in Unused : s <= r
       /\ slots' = [slots EXCEPT ![s] = Number(s)]
       /\ handed' = [handed EXCEPT ![t] = @ \cup {Number(s)}]
  /\ Goto(t, "idle")
  /\ UNCHANGED <<kind, inited, mutex>>

\* A pipe's message pipe comes first, and goes again when no slot is free.
CreateFails(t) ==
  /\ at[t] = "admitted"
  /\ Unused = {} \/ kind = "pipe"
  /\ Goto(t, "idle")
  /\ UNCHANGED <<kind, inited, mutex, slots, handed>>

\* is_eventfd, is_pipe, and the instance pseudo_epoll_wait works on.
LookUp(t) ==
  /\ at[t] = "admitted"
  /\ Goto(t, "idle")
  /\ UNCHANGED <<kind, inited, mutex, slots, handed>>

PoolsNext ==
  \E t \in Callers :
    \/ Arrive(t)
    \/ \E refused \in BOOLEAN : CreateMutex(t, refused)
    \/ ClearPool(t) \/ FinishPool(t) \/ StopWaiting(t) \/ Check(t)
    \/ Create(t) \/ CreateFails(t) \/ LookUp(t)


-----------------------------------------------------------------------------
(* Properties *)

Given == UNION {handed[t] : t \in Callers}

\* However the callers arrive and however often the kernel refuses the mutex:
\* whoever takes it found it created and the pool cleared, no number is
\* ever given to two callers or wiped out by a second clearing, and from the
\* first number on nobody is told that the pool is not there.
NumbersStay ==
  /\ \A t \in Callers : at[t] = "admitted" => mutex /\ \A s \in Entries : slots[s] # Raw
  /\ Given \subseteq {slots[s] : s \in Entries}
  /\ \A t, u \in Callers : t # u => handed[t] \cap handed[u] = {}
  /\ \A t \in Callers : at[t] = "checking" /\ Given # {} => inited = 2
=============================================================================
