-------------------------------- MODULE Pthr --------------------------------
(***************************************************************************)
(* Mutexes and condition variables of bionic on top of the Vita's          *)
(* (source/reimpl/pthr.c).  The first word of a bionic object holds a      *)
(* static initialiser until the object is first used; then a real object   *)
(* is allocated, its address stored in that word, and the bionic object is *)
(* remembered in initializedObjects.  These are separate steps, and        *)
(* nothing keeps two threads from both taking them for the same object.    *)
(*                                                                         *)
(* An object whose first uses overlapped, or that initializedObjects had   *)
(* no room for, is spoiled: the properties are about all the others.       *)
(***************************************************************************)
EXTENDS Naturals, Sequences, FiniteSets

CONSTANTS
  Threads, Nobody,
  Mutexes, Conds,     \* bionic objects
  Static,             \* object -> the kind its static initialiser stands for
  Blocks,             \* memory for real objects
  NoObject,
  Other,              \* any other object of the game, used since long
  MaxObjects,         \* PTHR_MAX_OBJECTS
  MaxDepth            \* bound on how often a recursive mutex is locked

Objects == Mutexes \cup Conds
Kinds == {"normal", "recursive", "errorcheck"}
Slots == 1 .. MaxObjects

ASSUME PthrAssumption ==
  /\ Nobody \notin Threads /\ {NoObject, Other} \cap Objects = {} /\ Other # NoObject
  /\ Mutexes \cap Conds = {} /\ Blocks \cap Kinds = {}
  /\ Static \in [Objects -> Kinds]
  /\ MaxObjects \in Nat \ {0} /\ MaxDepth \in Nat \ {0}

VARIABLES
  initializedObjects,  \* slot -> object, Other or NoObject
  word,                \* object -> a static initialiser or a block
  real,                \* block -> what it holds
  pc,                  \* thread -> where it is
  call,                \* thread -> the call it executes
  holds,               \* history: thread, mutex -> times the thread has it locked
  asked,               \* history: mutex -> the kind it was initialised with
  spoiled              \* history: see above

vars == <<initializedObjects, word, real, pc, call, holds, asked, spoiled>>

Real == [type: {"free", "raw", "mutex", "cond"}, kind: Kinds,
         owner: Threads \cup {Nobody}, depth: Nat, waiters: SUBSET Threads]
Blank(type, kind) ==
  [type |-> type, kind |-> kind, owner |-> Nobody, depth |-> 0, waiters |-> {}]

NewMutex(kind) == Blank("mutex", kind)

\* _cond_t_static_init takes the steps of _mutex_t_static_init, for a condition.
NewCond == Blank("cond", "normal")

\* todo: the objects the call still has to initialise on first use.  kind:
\* from the attribute of an init call, then the local variable of that name.
Call == [op: {"none", "init", "lock", "trylock", "signal", "broadcast", "wait"},
         m: Mutexes \cup {NoObject}, c: Conds \cup {NoObject},
         todo: Seq(Objects), kind: Kinds, block: Blocks \cup {NoObject}]
NoCall == [op |-> "none", m |-> NoObject, c |-> NoObject, todo |-> <<>>,
           kind |-> "normal", block |-> NoObject]

TypeOK ==
  /\ initializedObjects \in [Slots -> Objects \cup {NoObject, Other}]
  /\ word \in [Objects -> Kinds \cup Blocks]
  /\ real \in [Blocks -> Real]
  /\ pc \in [Threads -> {"idle", "check", "kind", "publish", "init", "remember", "act",
                         "waiting", "reacquire", "stuck"}]
  /\ call \in [Threads -> Call]
  /\ holds \in [Threads -> [Mutexes -> 0 .. MaxDepth]]
  /\ asked \in [Objects -> Kinds]
  /\ spoiled \subseteq Objects

Init ==
  /\ initializedObjects \in [Slots -> {NoObject, Other}]
  /\ word = Static
  /\ real = [b \in Blocks |-> Blank("free", "normal")]
  /\ pc = [t \in Threads |-> "idle"]
  /\ call = [t \in Threads |-> NoCall]
  /\ holds = [t \in Threads |-> [m \in Mutexes |-> 0]]
  /\ asked = Static
  /\ spoiled = {}

Registered(o) == \E i \in Slots : initializedObjects[i] = o
Object(t) == Head(call[t].todo)
Initialising(t, o) ==
  pc[t] \in {"kind", "publish", "init", "remember"} /\ Object(t) = o

Goto(t, where) == pc' = [pc EXCEPT ![t] = where]
Return(t) == Goto(t, "idle") /\ call' = [call EXCEPT ![t] = NoCall]

\* The next object of the call, or its own work.
Ensured(t) ==
  /\ call' = [call EXCEPT ![t].todo = Tail(@)]
  /\ Goto(t, IF Len(call[t].todo) > 1 THEN "check" ELSE "act")

-----------------------------------------------------------------------------
(* Calls begin.  Nobody uses an object before its init call is through; a  *)
(* thread locks a mutex again only if it is recursive, and waits with a    *)
(* mutex that it holds once.                                               *)

InCall(t, o) == o \in {call[t].m, call[t].c}
BeingInited(o) == \E t \in Threads : call[t].op = "init" /\ InCall(t, o)
NotInUse(o) == word[o] \notin Blocks /\ \A t \in Threads : ~InCall(t, o)

Begin(t, op, m, c, kind, todo) ==
  /\ pc[t] = "idle"
  /\ call' = [call EXCEPT ![t] = [op |-> op, m |-> m, c |-> c, todo |-> todo,
                                  kind |-> kind, block |-> NoObject]]
  /\ Goto(t, "check")

\* pthread_mutex_init_soloader of memory that is not in use.
CallMutexInit(t, m, kind) ==
  /\ NotInUse(m)
  /\ asked' = [asked EXCEPT ![m] = kind]
  /\ Begin(t, "init", m, NoObject, kind, <<m>>)
  /\ UNCHANGED <<initializedObjects, word, real, holds, spoiled>>

\* pthread_cond_init_soloader, likewise.
CallCondInit(t, c) ==
  /\ NotInUse(c)
  /\ Begin(t, "init", NoObject, c, "normal", <<c>>)
  /\ UNCHANGED <<initializedObjects, word, real, holds, asked, spoiled>>

CallMutexLock(t, m, op) ==
  /\ op \in {"lock", "trylock"}
  /\ ~BeingInited(m)
  /\ holds[t][m] > 0 => asked[m] = "recursive" /\ holds[t][m] < MaxDepth
  /\ Begin(t, op, m, NoObject, "normal", <<m>>)
  /\ UNCHANGED <<initializedObjects, word, real, holds, asked, spoiled>>

CallCondSignal(t, c, op) ==
  /\ op \in {"signal", "broadcast"}
  /\ ~BeingInited(c)
  /\ Begin(t, op, NoObject, c, "normal", <<c>>)
  /\ UNCHANGED <<initializedObjects, word, real, holds, asked, spoiled>>

CallCondWait(t, c, m) ==
  /\ holds[t][m] = 1 /\ ~BeingInited(c)
  /\ Begin(t, "wait", m, c, "normal", <<c, m>>)
  /\ UNCHANGED <<initializedObjects, word, real, holds, asked, spoiled>>

-----------------------------------------------------------------------------
(* _mutex_t_static_init and _cond_t_static_init *)

\* isObjectInitialized
Check(t) ==
  /\ pc[t] = "check"
  /\ IF Registered(Object(t))
     THEN Ensured(t) /\ UNCHANGED spoiled
     ELSE /\ Goto(t, "kind")
          /\ spoiled' = IF \E u \in Threads \ {t} : Initialising(u, Object(t))
                        THEN spoiled \cup {Object(t)} ELSE spoiled
          /\ UNCHANGED call
  /\ UNCHANGED <<initializedObjects, word, real, holds, asked>>

\* The kind a static initialiser stands for; any other word means normal.
KindOf(o) == IF word[o] \in Kinds THEN word[o] ELSE "normal"

ReadKind(t) ==
  /\ pc[t] = "kind"
  /\ call' = [call EXCEPT ![t].kind = IF call[t].op = "init" THEN @ ELSE KindOf(Object(t))]
  /\ Goto(t, "publish")
  /\ UNCHANGED <<initializedObjects, word, real, holds, asked, spoiled>>

\* mutex->real_ptr = malloc(...)
Publish(t) ==
  /\ pc[t] = "publish"
  /\ \E b \in Blocks :
       /\ real[b].type = "free"
       /\ real' = [real EXCEPT ![b] = Blank("raw", "normal")]
       /\ word' = [word EXCEPT ![Object(t)] = b]
  /\ Goto(t, "init")
  /\ UNCHANGED <<initializedObjects, call, holds, asked, spoiled>>

\* pthread_mutex_init(mutex->real_ptr, ...) or pthread_cond_init.
InitReal(t) ==
  /\ pc[t] = "init"
  /\ real' = [real EXCEPT ![word[Object(t)]] =
                IF Object(t) \in Mutexes THEN NewMutex(call[t].kind) ELSE NewCond]
  /\ Goto(t, "remember")
  /\ UNCHANGED <<initializedObjects, word, call, holds, asked, spoiled>>

First(slots) == CHOOSE i \in slots : \A j \in slots : i <= j
InFirstEmpty(o) ==
  LET empty == {i \in Slots : initializedObjects[i] = NoObject}
  IN IF empty = {} THEN initializedObjects ELSE [initializedObjects EXCEPT ![First(empty)] = o]

\* Mutant: nothing is remembered.
RememberNothing(o) == initializedObjects

\* Mutant: conditions are not remembered.
RememberMutexes(o) == IF o \in Conds THEN initializedObjects ELSE InFirstEmpty(o)

\* rememberObject: the first slot that is empty, if any.
Remembered(o) == InFirstEmpty(o)

Remember(t) ==
  /\ pc[t] = "remember"
  /\ initializedObjects' = Remembered(Object(t))
  /\ spoiled' = IF \A i \in Slots : initializedObjects[i] # NoObject
                THEN spoiled \cup {Object(t)} ELSE spoiled
  /\ Ensured(t)
  /\ UNCHANGED <<word, real, holds, asked>>

-----------------------------------------------------------------------------
(* The calls on the real objects *)

Usable(o) ==
  word[o] \in Blocks /\ real[word[o]].type = IF o \in Mutexes THEN "mutex" ELSE "cond"

Acquire(t, m, b) ==
  /\ real' = [real EXCEPT ![b].owner = t, ![b].depth = @ + 1]
  /\ holds' = [holds EXCEPT ![t][m] = @ + 1]

CanAcquire(t, b) ==
  \/ real[b].owner = Nobody
  \/ real[b].owner = t /\ real[b].kind = "recursive"

\* pthread_mutex_lock and trylock, which give up where lock waits.
MutexLock(t) ==
  LET m == call[t].m  b == word[m]
  IN /\ pc[t] = "act" /\ call[t].op \in {"lock", "trylock"}
     /\ Usable(m)
     /\ \/ CanAcquire(t, b) /\ Acquire(t, m, b)
        \/ /\ ~CanAcquire(t, b)
           /\ call[t].op = "trylock" \/ (real[b].owner = t /\ real[b].kind = "errorcheck")
           /\ UNCHANGED <<real, holds>>
     /\ Return(t)
     /\ UNCHANGED <<initializedObjects, word, asked, spoiled>>

Inited(t) ==
  /\ pc[t] = "act" /\ call[t].op = "init"
  /\ Return(t)
  /\ UNCHANGED <<initializedObjects, word, real, holds, asked, spoiled>>

\* pthread_cond_signal wakes one waiter of the real object, broadcast all.
CondSignal(t) ==
  LET b == word[call[t].c]
  IN /\ pc[t] = "act" /\ call[t].op \in {"signal", "broadcast"}
     /\ Usable(call[t].c)
     /\ \E woken \in SUBSET real[b].waiters :
          /\ IF call[t].op = "broadcast" THEN woken = real[b].waiters
             ELSE Cardinality(woken) = IF real[b].waiters = {} THEN 0 ELSE 1
          /\ real' = [real EXCEPT ![b].waiters = @ \ woken]
          /\ pc' = [u \in Threads |-> IF u = t THEN "idle"
                                      ELSE IF u \in woken THEN "reacquire" ELSE pc[u]]
     /\ call' = [call EXCEPT ![t] = NoCall]
     /\ UNCHANGED <<initializedObjects, word, holds, asked, spoiled>>

\* pthread_cond_wait(cond->real_ptr, mutex->real_ptr)
CondWait(t) ==
  LET m == call[t].m  b == word[m]  w == word[call[t].c]
  IN /\ pc[t] = "act" /\ call[t].op = "wait"
     /\ Usable(m) /\ Usable(call[t].c)
     /\ real' = [real EXCEPT ![b].owner = Nobody, ![b].depth = 0, ![w].waiters = @ \cup {t}]
     /\ holds' = [holds EXCEPT ![t][m] = 0]
     /\ call' = [call EXCEPT ![t].block = b]
     /\ Goto(t, "waiting")
     /\ UNCHANGED <<initializedObjects, word, asked, spoiled>>

\* pthread_cond_timedwait gives up.
TimedOut(t) ==
  /\ pc[t] = "waiting"
  /\ real' = [b \in Blocks |-> [real[b] EXCEPT !.waiters = @ \ {t}]]
  /\ Goto(t, "reacquire")
  /\ UNCHANGED <<initializedObjects, word, call, holds, asked, spoiled>>

Reacquire(t) ==
  /\ pc[t] = "reacquire"
  /\ CanAcquire(t, call[t].block)
  /\ Acquire(t, call[t].m, call[t].block)
  /\ Return(t)
  /\ UNCHANGED <<initializedObjects, word, asked, spoiled>>

\* A real object that is missing or has not been initialised: anything may
\* happen to the thread that uses it.
UseBroken(t) ==
  /\ pc[t] = "act" /\ call[t].op # "init"
  /\ \E o \in {call[t].m, call[t].c} \ {NoObject} : ~Usable(o)
  /\ Goto(t, "stuck")
  /\ UNCHANGED <<initializedObjects, word, real, call, holds, asked, spoiled>>

\* pthread_mutex_unlock_soloader
MutexUnlock(t, m) ==
  LET b == word[m]
  IN /\ pc[t] = "idle" /\ holds[t][m] > 0
     /\ real' = IF real[b].owner # t /\ real[b].kind # "normal" THEN real
                ELSE IF real[b].depth > 1 THEN [real EXCEPT ![b].depth = @ - 1]
                ELSE [real EXCEPT ![b].owner = Nobody, ![b].depth = 0]
     /\ holds' = [holds EXCEPT ![t][m] = @ - 1]
     /\ UNCHANGED <<initializedObjects, word, pc, call, asked, spoiled>>

\* Mutant: a destroyed object stays in the registry.
ForgetNothing(o) == initializedObjects

\* forgetObject: the first slot that holds the object.
Forgotten(o) ==
  LET at == {i \in Slots : initializedObjects[i] = o}
  IN IF at = {} THEN initializedObjects
     ELSE [initializedObjects EXCEPT ![First(at)] = NoObject]

\* The object is not in use any more.  The memory then holds zero, which is
\* the static initialiser of a normal mutex and of a condition.
Destroy(t, o) ==
  /\ pc[t] = "idle" /\ word[o] \in Blocks
  /\ \A u \in Threads : ~InCall(u, o)
  /\ initializedObjects' = Forgotten(o)
  /\ real' = [real EXCEPT ![word[o]] = Blank("free", "normal")]
  /\ word' = [word EXCEPT ![o] = "normal"]
  /\ asked' = [asked EXCEPT ![o] = "normal"]
  /\ UNCHANGED <<pc, call, holds, spoiled>>

MutexDestroy(t, m) == (\A u \in Threads : holds[u][m] = 0) /\ Destroy(t, m)
CondDestroy(t, c) == Destroy(t, c)

Calls(t) ==
  \/ \E m \in Mutexes, kind \in Kinds : CallMutexInit(t, m, kind)
  \/ \E c \in Conds : CallCondInit(t, c) \/ CondDestroy(t, c)
  \/ \E m \in Mutexes, op \in {"lock", "trylock"} : CallMutexLock(t, m, op)
  \/ \E c \in Conds, op \in {"signal", "broadcast"} : CallCondSignal(t, c, op)
  \/ \E c \in Conds, m \in Mutexes : CallCondWait(t, c, m)
  \/ \E m \in Mutexes : MutexUnlock(t, m) \/ MutexDestroy(t, m)

FirstUse(t) == Check(t) \/ ReadKind(t) \/ Publish(t) \/ InitReal(t) \/ Remember(t)

Acts(t) ==
  \/ MutexLock(t) \/ Inited(t) \/ CondSignal(t) \/ CondWait(t)
  \/ TimedOut(t) \/ Reacquire(t) \/ UseBroken(t)

Next == \E t \in Threads : Calls(t) \/ FirstUse(t) \/ Acts(t)

Spec == Init /\ [][Next]_vars

-----------------------------------------------------------------------------
(* Properties *)

\* A mutex whose first use was not raced and that is in the registry keeps
\* threads apart, whatever its kind, through waits and destruction.
Exclusion ==
  \A m \in Mutexes \ spoiled :
    \A t, u \in Threads : holds[t][m] > 0 /\ holds[u][m] > 0 => t = u

\* A thread that waits for a condition waits on the real object signals go to.
SignalsReachWaiters ==
  \A t \in Threads :
    pc[t] = "waiting" /\ call[t].c \notin spoiled => t \in real[word[call[t].c]].waiters

\* The registry never points at an object whose real one is missing or not
\* initialised: who finds its object there can use it.  And a mutex behaves as
\* its static initialiser or attribute asked for: whoever holds a recursive one
\* can lock it again.
AsAsked(m) ==
  word[m] \in Blocks /\ real[word[m]].type = "mutex" => real[word[m]].kind = asked[m]

RegisteredIsUsable ==
  /\ \A o \in Objects \ spoiled : Registered(o) => Usable(o)
  /\ \A m \in Mutexes \ spoiled : AsAsked(m)
=============================================================================
