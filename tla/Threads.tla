------------------------------ MODULE Threads ------------------------------
(***************************************************************************)
(* Semaphores and threads as the game gets them (reimpl/pthr.c): a         *)
(* semaphore is one of the kernel's, with waits put together from waits of *)
(* the kernel; attributes and threads are those of pthread-embedded, with  *)
(* every stack of 512 KB.  And what uses them from the port's side: the    *)
(* render thread (D3DDevice_AsyncRenderCB) and the thread of the loading   *)
(* screen, which nobody joins (patch.c).                                   *)
(***************************************************************************)
EXTENDS Naturals, FiniteSets

CONSTANTS
  Waiters,      \* threads of the game that use the semaphore
  Threads,      \* threads that can be created
  MaxPosts      \* bound: posts to the semaphore

ASSUME ThreadsAssumption == "none" \notin Threads

VARIABLES
  count,        \* the kernel's counter; the port has no other
  alive,        \* whether the semaphore exists
  posted,       \* history: posts that succeeded
  served,       \* history: waits that returned 0
  waiting,      \* waiter -> the wait it is in
  render,       \* where D3DDevice_AsyncRenderCB is
  hasRenderWork,
  attr,         \* the attributes the game sets: [magic, detached]
  thread,       \* thread -> [state, detached, meant]
  loading       \* the thread coreStartLoadingScreen has just started, or "none"

semVars == <<count, alive, posted, served, waiting, render, hasRenderWork>>
createVars == <<attr, thread, loading>>
threadsVars == <<semVars, createVars>>

NoAttributes == [magic |-> FALSE, detached |-> FALSE, meant |-> FALSE]
NotStarted == [state |-> "new", detached |-> FALSE, meant |-> FALSE]

ThreadsInit ==
  /\ count = 0 /\ alive = TRUE /\ posted = 0 /\ served = 0
  /\ waiting = [w \in Waiters |-> "no"]
  /\ render = "start" /\ hasRenderWork = TRUE
  /\ attr = NoAttributes
  /\ thread = [t \in Threads |-> NotStarted]
  /\ loading = "none"

-----------------------------------------------------------------------------
(* Semaphores *)

sem_post ==
  /\ alive /\ posted < MaxPosts
  /\ count' = count + 1 /\ posted' = posted + 1
  /\ UNCHANGED <<alive, served, waiting, render, hasRenderWork, createVars>>

\* Threads that wait for a semaphore that is deleted return with an error.
sem_destroy ==
  /\ alive
  /\ alive' = FALSE
  /\ UNCHANGED <<count, posted, served, waiting, render, hasRenderWork, createVars>>

\* sem_wait, sem_trywait and sem_timedwait with or without a deadline.
BeginWait(w) ==
  /\ waiting[w] = "no"
  /\ \E how \in {"forever", "briefly", "timed"} :
       waiting' = [waiting EXCEPT ![w] = how]
  /\ UNCHANGED <<count, alive, posted, served, render, hasRenderWork, createVars>>

\* Mutant: sem_timedwait goes on after its first wait.
WaitAgain(how) == IF how = "timed" THEN "until" ELSE "no"

\* What follows a wait of the kernel that got a token.
AfterToken(how) == "no"

TakeToken(w) ==
  /\ waiting[w] # "no" /\ alive /\ count > 0
  /\ count' = count - 1
  /\ waiting' = [waiting EXCEPT ![w] = AfterToken(waiting[w])]
  /\ served' = IF waiting'[w] = "no" THEN served + 1 ELSE served
  /\ UNCHANGED <<alive, posted, render, hasRenderWork, createVars>>

\* No token within the millisecond.  A deadline that is still ahead ends the
\* wait, one that is past is subtracted the wrong way round and makes a wait
\* of more than an hour.
GiveUp(w) ==
  /\ \/ waiting[w] \in {"briefly", "timed", "until"} /\ count = 0
     \/ waiting[w] # "no" /\ ~alive
  /\ \E deadline \in {"ahead", "past"} :
       waiting' = [waiting EXCEPT ![w] =
                     IF waiting[w] = "timed" /\ deadline = "past"
                     THEN "until" ELSE "no"]
  /\ UNCHANGED <<count, alive, posted, served, render, hasRenderWork, createVars>>

-----------------------------------------------------------------------------
(* D3DDevice_AsyncRenderCB: the context, a token, the commands, the context *)

Render(from, to) ==
  /\ render = from /\ render' = to
  /\ UNCHANGED <<alive, posted, waiting, createVars>>

AcquireContext ==
  Render("start", "waiting") /\ UNCHANGED <<count, served, hasRenderWork>>

\* The wait is repeated until it succeeds.
WaitForMain ==
  /\ Render("waiting", "reading")
  /\ alive /\ count > 0
  /\ count' = count - 1 /\ served' = served + 1
  /\ UNCHANGED hasRenderWork

\* The last command clears the flag.
ReadCommand ==
  /\ Render("reading", "reading")
  /\ hasRenderWork
  /\ hasRenderWork' \in BOOLEAN
  /\ UNCHANGED <<count, served>>

ReleaseContext ==
  /\ Render("reading", "done")
  /\ ~hasRenderWork
  /\ UNCHANGED <<count, served, hasRenderWork>>

-----------------------------------------------------------------------------
(* Attributes and threads *)

pthread_attr_init ==
  /\ ~attr.magic
  /\ attr' = [NoAttributes EXCEPT !.magic = TRUE]
  /\ UNCHANGED <<semVars, thread, loading>>

\* pthread-embedded has JOINABLE and DETACHED the other way round.
Swapped(state) == ~state
DetachedInLibrary(value) == ~value

\* Static initialisation of the attributes first.
pthread_attr_setdetachstate ==
  /\ \E state \in BOOLEAN :
       attr' = [magic |-> TRUE, meant |-> state,
                detached |-> DetachedInLibrary(Swapped(state))]
  /\ UNCHANGED <<semVars, thread, loading>>

pthread_attr_destroy ==
  /\ attr.magic
  /\ attr' = NoAttributes
  /\ UNCHANGED <<semVars, thread, loading>>

Running(detached, meant) == [state |-> "running", detached |-> detached, meant |-> meant]

pthread_create(t) ==
  /\ thread[t].state = "new" /\ loading = "none"
  /\ \/ /\ thread' = [thread EXCEPT ![t] = Running(FALSE, FALSE)]
        /\ UNCHANGED attr
     \/ /\ thread' = [thread EXCEPT ![t] = Running(attr.detached, attr.meant)]
        /\ attr' = [attr EXCEPT !.magic = TRUE]
  /\ UNCHANGED <<semVars, loading>>

\* The thread ends: its stack goes at once if it is detached, and otherwise
\* when somebody joins or detaches it.
ThreadEnds(t) ==
  /\ thread[t].state = "running"
  /\ thread' = [thread EXCEPT ![t].state = IF thread[t].detached THEN "gone" ELSE "ended"]
  /\ UNCHANGED <<semVars, attr, loading>>

pthread_join(t) ==
  /\ thread[t].state = "ended" /\ ~thread[t].detached /\ t # loading
  /\ thread' = [thread EXCEPT ![t].state = "gone"]
  /\ UNCHANGED <<semVars, attr, loading>>

\* Mutant: the call reaches running threads only.
DetachedRunning(r) == IF r.state = "running" THEN [r EXCEPT !.detached = TRUE] ELSE r

Detached(r) ==
  [r EXCEPT !.detached = TRUE, !.state = IF @ = "ended" THEN "gone" ELSE @]

\* The game detaches a thread it knows to be there.
pthread_detach(t) ==
  /\ thread[t].state \in {"running", "ended"} /\ ~thread[t].detached /\ t # loading
  /\ thread' = [thread EXCEPT ![t] = [Detached(@) EXCEPT !.meant = TRUE]]
  /\ UNCHANGED <<semVars, attr, loading>>

\* coreStartLoadingScreen: the game's function starts the thread, which may
\* be through before it is detached.
StartLoadingScreen(t) ==
  /\ thread[t].state = "new" /\ loading = "none"
  /\ thread' = [thread EXCEPT ![t] = Running(FALSE, TRUE)]
  /\ loading' = t
  /\ UNCHANGED <<semVars, attr>>

DetachLoadingScreen ==
  /\ loading # "none"
  /\ thread' = [thread EXCEPT ![loading] = Detached(@)]
  /\ loading' = "none"
  /\ UNCHANGED <<semVars, attr>>

-----------------------------------------------------------------------------

RenderThread == AcquireContext \/ WaitForMain \/ ReadCommand \/ ReleaseContext

SemaphoresNext ==
  \/ sem_post \/ sem_destroy
  \/ \E w \in Waiters : BeginWait(w) \/ TakeToken(w) \/ GiveUp(w)
  \/ RenderThread

ThreadsNext ==
  \/ pthread_attr_init \/ pthread_attr_setdetachstate \/ pthread_attr_destroy
  \/ \E t \in Threads :
       \/ pthread_create(t) \/ ThreadEnds(t) \/ pthread_join(t) \/ pthread_detach(t)
       \/ StartLoadingScreen(t)
  \/ DetachLoadingScreen


-----------------------------------------------------------------------------
(* Properties *)

\* However waits with and without a time limit, the render thread and posts
\* interleave, every token is in the semaphore or was the success of exactly
\* one wait.
TokensConserved == posted = count + served

\* A thread that is meant to be detached - created so, detached by the game,
\* or the loading screen, whose stack leaked with every loading screen - does
\* not outlive its end, whether it is detached before or after.
StacksAreReclaimed ==
  \A t \in Threads : thread[t].meant /\ t # loading => thread[t].state # "ended"
=============================================================================
