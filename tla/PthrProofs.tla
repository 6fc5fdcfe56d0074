----------------------------- MODULE PthrProofs -----------------------------
(***************************************************************************)
(* Mutexes and conditions (reimpl/pthr.c) for any number of threads,       *)
(* objects and slots of the registry.                                      *)
(*                                                                         *)
(* The invariant follows an object that is not spoiled through its life:   *)
(* a static initialiser; one thread that initialises it, alone; the        *)
(* registry, in one slot, with a real object that is all its own; and back *)
(* when it is destroyed, which nobody who still uses it can see.  Owner,   *)
(* depth and waiters of the real object then are what the threads believe. *)
(* About a spoiled object it only says that its blocks are no one else's.  *)
(***************************************************************************)
EXTENDS Pthr, Integers, WellFoundedInduction, TLAPS

First4 == {"kind", "publish", "init", "remember"}
Early == {"check"} \cup First4
Late == {"act", "waiting", "reacquire", "stuck"}

Types ==
  /\ initializedObjects \in [Slots -> Objects \cup {NoObject, Other}]
  /\ word \in [Objects -> Kinds \cup Blocks]
  /\ real \in [Blocks -> Real]
  /\ pc \in [Threads -> {"idle"} \cup Early \cup Late]
  /\ call \in [Threads -> Call]
  /\ holds \in [Threads -> [Mutexes -> Nat]]
  /\ asked \in [Objects -> Kinds]
  /\ spoiled \subseteq Objects

-----------------------------------------------------------------------------
(* Calls *)

\* Which objects a call still has to look at.
Todo(t) ==
  \/ pc[t] = "idle" /\ call[t] = NoCall
  \/ pc[t] \in Late /\ call[t].todo = <<>> /\ call[t].op # "none"
  \/ /\ pc[t] \in Early
     /\ \/ /\ call[t].op \in {"init", "lock", "trylock"} /\ call[t].m \in Mutexes
           /\ call[t].c = NoObject /\ call[t].todo = <<call[t].m>>
        \/ /\ call[t].op \in {"init", "signal", "broadcast"} /\ call[t].c \in Conds
           /\ call[t].m = NoObject /\ call[t].todo = <<call[t].c>>
        \/ /\ call[t].op = "wait" /\ call[t].c \in Conds /\ call[t].m \in Mutexes
           /\ call[t].todo \in {<<call[t].c, call[t].m>>, <<call[t].m>>}

\* The objects that it has been through with.
Pending(t, o) == \E i \in DOMAIN call[t].todo : call[t].todo[i] = o
Done(t, o) == pc[t] # "idle" /\ InCall(t, o) /\ ~Pending(t, o)

\* An object that an init call is for is nobody else's business.
InitAlone ==
  \A t \in Threads : \A o \in Objects :
    call[t].op = "init" /\ InCall(t, o) =>
      /\ \A u \in Threads \ {t} : ~InCall(u, o)
      /\ o \in Mutexes => /\ \A u \in Threads : holds[u][o] = 0
                          /\ asked[o] = call[t].kind

\* What each call is for; who waits for a condition has the mutex until it sleeps.
WaitsWithMutex ==
  \A t \in Threads :
    /\ call[t].op \in {"lock", "trylock"} => call[t].m \in Mutexes
    /\ call[t].op \in {"signal", "broadcast"} => call[t].c \in Conds
    /\ call[t].op = "wait" =>
         /\ call[t].m \in Mutexes /\ call[t].c \in Conds
         /\ pc[t] \in Early \cup {"act"} => holds[t][call[t].m] > 0

-----------------------------------------------------------------------------
(* Blocks, of any object *)

OwnBlocks ==
  /\ \A o \in Objects : word[o] \in Blocks => real[word[o]].type # "free"
  /\ \A o, p \in Objects : word[o] = word[p] /\ word[o] \in Blocks => o = p
  /\ \A t \in Threads : pc[t] \in {"init", "remember"} => word[Object(t)] \in Blocks
  /\ \A t \in Threads, m \in Mutexes : holds[t][m] > 0 => word[m] \in Blocks

\* The block a sleeping thread will lock again belongs to its mutex.
SleeperBlocks ==
  \A t \in Threads : pc[t] \in {"waiting", "reacquire"} =>
    /\ call[t].m \in Mutexes /\ call[t].c \in Conds
    /\ call[t].block \in Blocks /\ real[call[t].block].type # "free"
    /\ word[call[t].m] \in Blocks /\ call[t].op = "wait"
    /\ \A o \in Objects \ {call[t].m} : word[o] # call[t].block
    /\ call[t].m \notin spoiled => call[t].block = word[call[t].m]

\* A thread sleeps in one place.
OneBed ==
  \A t \in Threads, b \in Blocks : t \in real[b].waiters =>
    /\ pc[t] = "waiting"
    /\ \A d \in Blocks : t \in real[d].waiters => d = b

-----------------------------------------------------------------------------
(* An object that is not spoiled *)

FreshObject(o) ==
  /\ \A t, u \in Threads : Initialising(t, o) /\ Initialising(u, o) => t = u
  /\ \A i, j \in Slots : initializedObjects[i] = o /\ initializedObjects[j] = o => i = j
  /\ Registered(o) => Usable(o) /\ \A t \in Threads : ~Initialising(t, o)
  /\ word[o] \in Blocks =>
       Registered(o) \/ \E t \in Threads : pc[t] \in {"init", "remember"} /\ Object(t) = o
  /\ \A t \in Threads : Done(t, o) => Registered(o)
  /\ \A t \in Threads : pc[t] = "remember" /\ Object(t) = o => Usable(o)

FreshMutex(m) ==
  /\ AsAsked(m)
  /\ word[m] \in Kinds => word[m] = asked[m] \/ BeingInited(m)
  /\ \A t \in Threads : pc[t] \in {"publish", "init"} /\ Object(t) = m => call[t].kind = asked[m]
  /\ ~Registered(m) => \A t \in Threads : holds[t][m] = 0
  /\ Usable(m) =>
       /\ real[word[m]].owner = Nobody => real[word[m]].depth = 0
       /\ \A t \in Threads :
            holds[t][m] = IF real[word[m]].owner = t THEN real[word[m]].depth ELSE 0

FreshCond(c) ==
  \A t \in Threads : pc[t] = "waiting" /\ call[t].c = c => t \in real[word[c]].waiters

Fresh ==
  /\ \A o \in Objects \ spoiled : FreshObject(o)
  /\ \A m \in Mutexes \ spoiled : FreshMutex(m)
  /\ \A c \in Conds \ spoiled : FreshCond(c)

IInv ==
  /\ Types /\ \A t \in Threads : Todo(t)
  /\ InitAlone /\ WaitsWithMutex
  /\ OwnBlocks /\ SleeperBlocks /\ OneBed
  /\ Fresh

-----------------------------------------------------------------------------
(* Facts about calls *)

\* What the assumption on the constants says of the sets of objects.
LEMMA ConstantFacts ==
  /\ Mutexes \subseteq Objects /\ Conds \subseteq Objects
  /\ NoObject \notin Objects /\ Other \notin Objects /\ Other # NoObject
  /\ Mutexes \cap Conds = {} /\ Blocks \cap Kinds = {} /\ Nobody \notin Threads
BY PthrAssumption DEF Objects

\* In the first use of an object the call is for it and not through with it.
LEMMA ObjectFacts ==
  ASSUME NEW t \in Threads, Types, Todo(t), pc[t] \in Early
  PROVE  /\ Object(t) \in Objects /\ InCall(t, Object(t)) /\ Pending(t, Object(t))
         /\ call[t].op # "none"
         /\ call[t].op = "init" => call[t].todo = <<Object(t)>>
<1> USE ConstantFacts DEF Todo, Early, First4, Late, Types, Object, InCall, Pending
<1>1. CASE call[t].todo = <<call[t].m>> /\ call[t].m \in Mutexes /\ call[t].op # "none"
  BY <1>1
<1>2. CASE call[t].todo = <<call[t].c>> /\ call[t].c \in Conds /\ call[t].op # "none"
  BY <1>2
<1>3. CASE /\ call[t].todo = <<call[t].c, call[t].m>> /\ call[t].op = "wait"
           /\ call[t].c \in Conds /\ call[t].m \in Mutexes
  <2>1. Head(call[t].todo) = call[t].c /\ call[t].todo[1] = call[t].c
    BY <1>3
  <2>2. 1 \in DOMAIN call[t].todo
    BY <1>3
  <2>3. call[t].op # "init"
    BY <1>3
  <2> QED
    BY <1>3, <2>1, <2>2, <2>3
<1> QED
  BY <1>1, <1>2, <1>3

\* The end of a first use: the call is through with one object more.
LEMMA EnsuredFacts ==
  ASSUME NEW t \in Threads, Types, Todo(t), pc[t] \in Early, Ensured(t)
  PROVE  /\ pc' = [pc EXCEPT ![t] = pc'[t]] /\ pc'[t] \in {"check", "act"}
         /\ call' = [call EXCEPT ![t].todo = call'[t].todo]
         /\ pc' \in [Threads -> {"idle"} \cup Early \cup Late] /\ call' \in [Threads -> Call]
         /\ Todo(t)'
         /\ \A o \in Objects : Done(t, o)' => Done(t, o) \/ o = Object(t)
<1> USE ConstantFacts DEF Todo, Early, First4, Late, Types, Object, InCall, Pending, Ensured, Goto,
                          Done
<1>0. call[t] \in Call /\ call[t].todo \in Seq(Objects)
  BY DEF Call
<1> DEFINE rest == Tail(call[t].todo)
<1>4. pc' \in [Threads -> {"idle"} \cup Early \cup Late]
  OBVIOUS
<1>5. ASSUME rest \in Seq(Objects) PROVE call' \in [Threads -> Call]
  <2>1. call' = [call EXCEPT ![t] = [@ EXCEPT !.todo = rest]]
    OBVIOUS
  <2> HIDE DEF rest
  <2>2. [call[t] EXCEPT !.todo = rest] \in Call
    BY <1>0, <1>5 DEF Call
  <2> QED
    BY <2>1, <2>2
<1>1. CASE /\ call[t].todo = <<call[t].m>> /\ call[t].m \in Mutexes /\ call[t].op # "none"
  <2>1. Tail(call[t].todo) = <<>> /\ Len(call[t].todo) = 1 /\ Head(call[t].todo) = call[t].m
    BY <1>1
  <2> QED
    BY <1>0, <1>1, <1>4, <1>5, <2>1
<1>2. CASE call[t].todo = <<call[t].c>> /\ call[t].c \in Conds /\ call[t].op # "none"
  <2>1. Tail(call[t].todo) = <<>> /\ Len(call[t].todo) = 1 /\ Head(call[t].todo) = call[t].c
    BY <1>2
  <2> QED
    BY <1>0, <1>2, <1>4, <1>5, <2>1
<1>3. CASE /\ call[t].todo = <<call[t].c, call[t].m>> /\ call[t].op = "wait"
           /\ call[t].c \in Conds /\ call[t].m \in Mutexes
  <2>1. /\ Tail(call[t].todo) = <<call[t].m>> /\ Len(call[t].todo) = 2
        /\ Head(call[t].todo) = call[t].c
    BY <1>3
  <2> QED
    BY <1>0, <1>3, <1>4, <1>5, <2>1
<1> QED
  BY <1>1, <1>2, <1>3

-----------------------------------------------------------------------------
(* A call begins *)

\* What a call may ask for.
Form(op, m, c, todo) ==
  \/ op \in {"init", "lock", "trylock"} /\ m \in Mutexes /\ c = NoObject /\ todo = <<m>>
  \/ op \in {"init", "signal", "broadcast"} /\ c \in Conds /\ m = NoObject /\ todo = <<c>>
  \/ op = "wait" /\ c \in Conds /\ m \in Mutexes /\ todo = <<c, m>>

\* A call begins: its thread has every object before it, the others are where they were.
LEMMA BeginFacts ==
  ASSUME NEW t \in Threads, NEW op, NEW m, NEW c, NEW kind \in Kinds, NEW todo,
         Types, Todo(t), Form(op, m, c, todo), Begin(t, op, m, c, kind, todo)
  PROVE  /\ pc[t] = "idle" /\ pc' = [pc EXCEPT ![t] = "check"]
         /\ pc' \in [Threads -> {"idle"} \cup Early \cup Late]
         /\ \A u \in Threads \ {t} : call'[u] = call[u]
         /\ call'[t] = [op |-> op, m |-> m, c |-> c, todo |-> todo, kind |-> kind,
                        block |-> NoObject]
         /\ call' \in [Threads -> Call]
         /\ Todo(t)'
         /\ \A o \in Objects : ~InCall(t, o) /\ ~Done(t, o)'
         /\ call[t].op = "none"
<1> USE ConstantFacts DEF Types
<1>1. call[t] = NoCall /\ pc[t] = "idle"
  BY DEF Begin, Todo, Early, First4, Late
<1> DEFINE new == [op |-> op, m |-> m, c |-> c, todo |-> todo, kind |-> kind, block |-> NoObject]
<1>2. pc' = [pc EXCEPT ![t] = "check"] /\ call' = [call EXCEPT ![t] = new]
  BY DEF Begin, Goto
<1>3. new \in Call
  <2>1. todo \in Seq(Objects)
    <3>1. CASE todo = <<m>> /\ m \in Mutexes
      BY <3>1
    <3>2. CASE todo = <<c>> /\ c \in Conds
      BY <3>2
    <3>3. CASE todo = <<c, m>> /\ c \in Conds /\ m \in Mutexes
      BY <3>3
    <3> QED
      BY <3>1, <3>2, <3>3 DEF Form
  <2> QED
    BY <2>1 DEF Form, Call
<1>4. Todo(t)' /\ \A o \in Objects : InCall(t, o)' => Pending(t, o)'
  <2>1. call'[t] = new /\ pc'[t] = "check"
    BY <1>2
  <2>2. CASE todo = <<m>> /\ c = NoObject /\ m \in Mutexes
    BY <2>1, <2>2 DEF Form, Todo, Early, InCall, Pending
  <2>3. CASE todo = <<c>> /\ m = NoObject /\ c \in Conds
    BY <2>1, <2>3 DEF Form, Todo, Early, InCall, Pending
  <2>4. CASE todo = <<c, m>> /\ op = "wait"
    <3>1. DOMAIN todo = {1, 2} /\ todo[1] = c /\ todo[2] = m
      BY <2>4
    <3> QED
      <4>1. Todo(t)'
        BY <2>1, <2>4 DEF Form, Todo, Early
      <4>2. \A o \in Objects : InCall(t, o)' => Pending(t, o)'
        BY <2>1, <3>1 DEF InCall, Pending
      <4> QED
        BY <4>1, <4>2
  <2> QED
    BY <2>2, <2>3, <2>4 DEF Form
<1>5. \A o \in Objects : ~InCall(t, o) /\ ~Done(t, o)'
  BY <1>1, <1>4 DEF InCall, NoCall, Done
<1> HIDE DEF new
<1>6. pc' \in [Threads -> {"idle"} \cup Early \cup Late] /\ call' \in [Threads -> Call]
  BY <1>2, <1>3 DEF Early
<1>7. call[t].op = "none"
  BY <1>1 DEF NoCall
<1> QED
  BY <1>1, <1>2, <1>4, <1>5, <1>6, <1>7 DEF new

\* A thread whose place and call stay is where it was.
LEMMA SameThread ==
  ASSUME NEW u \in Threads, pc'[u] = pc[u], call'[u] = call[u]
  PROVE  /\ Todo(u) => Todo(u)'
         /\ Object(u)' = Object(u)
         /\ \A o \in Objects : /\ InCall(u, o)' <=> InCall(u, o)
                               /\ Done(u, o)' <=> Done(u, o)
                               /\ Initialising(u, o)' <=> Initialising(u, o)
<1>1. Todo(u) => Todo(u)'
  BY DEF Todo
<1>2. Object(u)' = Object(u)
  BY DEF Object
<1>3. ASSUME NEW o \in Objects
      PROVE  /\ InCall(u, o)' <=> InCall(u, o)
             /\ Done(u, o)' <=> Done(u, o)
             /\ Initialising(u, o)' <=> Initialising(u, o)
  BY DEF InCall, Done, Pending, Initialising, Object
<1> QED
  BY <1>1, <1>2, <1>3

\* Who initialises an object, or waits for its turn to, is in a call for it.
LEMMA InitialisingFacts ==
  ASSUME IInv, NEW t \in Threads, NEW o \in Objects, Initialising(t, o)
  PROVE  InCall(t, o) /\ ~Done(t, o)
<1>1. pc[t] \in Early /\ Object(t) = o
  BY DEF Initialising, Early, First4
<1>2. InCall(t, o) /\ Pending(t, o)
  BY <1>1, ObjectFacts DEF IInv
<1> QED
  BY <1>2 DEF Done

\* What the five Call* actions have in common: an init call is for memory that
\* is not in use, and no other call is for an object that is being initialised.
LEMMA BeginKeeps ==
  ASSUME IInv, NEW t \in Threads, NEW op, NEW m, NEW c, NEW kind \in Kinds, NEW todo,
         Form(op, m, c, todo), Begin(t, op, m, c, kind, todo),
         UNCHANGED <<initializedObjects, word, real, holds, spoiled>>,
         asked' \in [Objects -> Kinds],
         \A o \in Objects : asked'[o] # asked[o] => op = "init" /\ o = m,
         op = "init" => /\ \A o \in {m, c} \cap Objects : NotInUse(o)
                        /\ m \in Mutexes => asked'[m] = kind,
         op # "init" => \A o \in {m, c} \cap Objects :
                          ~BeingInited(o) \/ (o \in Mutexes /\ holds[t][o] > 0),
         op = "wait" => holds[t][m] > 0
  PROVE  IInv'
<1> USE ConstantFacts
<1>1. Types /\ Todo(t) /\ \A u \in Threads : Todo(u)
  BY DEF IInv
<1>2. /\ pc[t] = "idle" /\ pc' = [pc EXCEPT ![t] = "check"]
      /\ pc' \in [Threads -> {"idle"} \cup Early \cup Late]
      /\ \A u \in Threads \ {t} : call'[u] = call[u]
      /\ call'[t] = [op |-> op, m |-> m, c |-> c, todo |-> todo, kind |-> kind, block |-> NoObject]
      /\ call' \in [Threads -> Call]
      /\ Todo(t)'
      /\ \A o \in Objects : ~InCall(t, o) /\ ~Done(t, o)'
      /\ call[t].op = "none"
  BY <1>1, BeginFacts
<1>3. \A u \in Threads \ {t} :
        /\ pc'[u] = pc[u] /\ Todo(u)' /\ Object(u)' = Object(u)
        /\ \A o \in Objects : /\ InCall(u, o)' <=> InCall(u, o)
                              /\ Done(u, o)' <=> Done(u, o)
                              /\ Initialising(u, o)' <=> Initialising(u, o)
  BY <1>1, <1>2, SameThread DEF Types
<1>4. /\ pc'[t] = "check" /\ \A o \in Objects : ~Initialising(t, o) /\ ~Initialising(t, o)'
  BY <1>1, <1>2 DEF Types, Initialising
<1>5. \A o \in Objects : InCall(t, o)' => o \in {m, c} \cap Objects
  BY <1>2 DEF InCall
<1>6. \A o \in Objects : asked'[o] # asked[o] =>
        /\ o \in Mutexes /\ o = m /\ NotInUse(o)
  BY DEF Form
<1>7. Types' /\ \A u \in Threads : Todo(u)'
  BY <1>1, <1>2, <1>3 DEF Types
<1>8. InitAlone'
  <2> SUFFICES ASSUME NEW v \in Threads, NEW o \in Objects, call'[v].op = "init", InCall(v, o)'
               PROVE  /\ \A u \in Threads \ {v} : ~InCall(u, o)'
                      /\ o \in Mutexes => /\ \A u \in Threads : holds'[u][o] = 0
                                          /\ asked'[o] = call'[v].kind
    BY DEF InitAlone
  <2>1. CASE v = t
    <3>1. op = "init" /\ NotInUse(o) /\ (o \in Mutexes => asked'[o] = kind)
      BY <1>2, <1>5, <2>1 DEF Form
    <3>2. \A u \in Threads \ {v} : ~InCall(u, o)'
      BY <1>3, <2>1, <3>1 DEF NotInUse
    <3>3. o \in Mutexes => \A u \in Threads : holds'[u][o] = 0
      BY <1>1, <3>1 DEF NotInUse, IInv, OwnBlocks, Types
    <3> QED
      BY <1>2, <2>1, <3>1, <3>2, <3>3
  <2>2. CASE v # t
    <3>1. call[v].op = "init" /\ InCall(v, o) /\ call'[v] = call[v]
      BY <1>2, <1>3, <2>2
    <3>2. /\ \A u \in Threads \ {v} : ~InCall(u, o)
          /\ o \in Mutexes => /\ \A u \in Threads : holds[u][o] = 0
                              /\ asked[o] = call[v].kind
      BY <3>1 DEF IInv, InitAlone
    <3>3. asked'[o] = asked[o]
      BY <1>6, <3>1 DEF NotInUse
    <3>4. ~InCall(t, o)'
      <4>1. BeingInited(o) /\ ~NotInUse(o)
        BY <3>1 DEF BeingInited, NotInUse
      <4>2. o \in Mutexes => ~(holds[t][o] > 0)
        BY <3>2
      <4> QED
        BY <1>5, <4>1, <4>2
    <3> QED
      BY <1>3, <3>1, <3>2, <3>3, <3>4
  <2> QED
    BY <2>1, <2>2
<1>9. WaitsWithMutex'
  BY <1>1, <1>2, <1>3 DEF IInv, WaitsWithMutex, Form
<1>10. OwnBlocks' /\ SleeperBlocks'
  BY <1>2, <1>3, <1>4 DEF IInv, OwnBlocks, SleeperBlocks
<1>11. OneBed'
  BY <1>2, <1>3 DEF IInv, OneBed
<1>12. ASSUME NEW o \in Objects \ spoiled PROVE FreshObject(o)'
  <2>1. FreshObject(o)
    BY DEF IInv, Fresh
  <2>2. (Registered(o)' <=> Registered(o)) /\ (Usable(o)' <=> Usable(o))
    BY DEF Registered, Usable
  <2> QED
    BY <1>2, <1>3, <1>4, <2>1, <2>2 DEF FreshObject
<1>13. ASSUME NEW x \in Mutexes \ spoiled PROVE FreshMutex(x)'
  <2>1. FreshMutex(x)
    BY DEF IInv, Fresh
  <2>2. (Registered(x)' <=> Registered(x)) /\ (Usable(x)' <=> Usable(x))
    BY DEF Registered, Usable
  <2>3. AsAsked(x)'
    BY <1>6, <2>1 DEF FreshMutex, AsAsked, NotInUse
  <2>4. word'[x] \in Kinds => word'[x] = asked'[x] \/ BeingInited(x)'
    <3>1. CASE asked'[x] # asked[x]
      <4>1. call'[t].op = "init" /\ InCall(t, x)'
        BY <1>2, <3>1 DEF InCall
      <4> QED
        BY <4>1 DEF BeingInited
    <3>2. CASE asked'[x] = asked[x] /\ ~BeingInited(x)
      BY <2>1, <3>2 DEF FreshMutex
    <3>3. CASE BeingInited(x)
      <4>1. PICK u \in Threads : call[u].op = "init" /\ InCall(u, x)
        BY <3>3 DEF BeingInited
      <4>2. u # t
        BY <1>2, <4>1
      <4>3. call'[u].op = "init" /\ InCall(u, x)'
        BY <1>2, <1>3, <4>1, <4>2
      <4> QED
        BY <4>3 DEF BeingInited
    <3> QED
      BY <3>1, <3>2, <3>3
  <2>5. ASSUME NEW u \in Threads, pc'[u] \in {"publish", "init"}, Object(u)' = x
        PROVE  call'[u].kind = asked'[x]
    <3>1. u # t /\ pc[u] \in {"publish", "init"} /\ Object(u) = x /\ call'[u] = call[u]
      BY <1>2, <1>3, <1>4, <2>5
    <3>2. InCall(u, x)
      BY <3>1, InitialisingFacts DEF Initialising
    <3>3. asked'[x] = asked[x]
      BY <1>6, <3>2 DEF NotInUse
    <3> QED
      BY <2>1, <3>1, <3>3 DEF FreshMutex
  <2>6. /\ ~Registered(x)' => \A u \in Threads : holds'[u][x] = 0
        /\ Usable(x)' =>
             /\ real'[word'[x]].owner = Nobody => real'[word'[x]].depth = 0
             /\ \A u \in Threads :
                  holds'[u][x] = IF real'[word'[x]].owner = u THEN real'[word'[x]].depth ELSE 0
    BY <2>1, <2>2 DEF FreshMutex
  <2> QED
    BY <2>3, <2>4, <2>5, <2>6 DEF FreshMutex
<1>14. ASSUME NEW x \in Conds \ spoiled PROVE FreshCond(x)'
  <2>1. FreshCond(x)
    BY DEF IInv, Fresh
  <2> QED
    BY <1>2, <1>3, <1>4, <2>1 DEF FreshCond
<1> QED
  BY <1>7, <1>8, <1>9, <1>10, <1>11, <1>12, <1>13, <1>14 DEF IInv, Fresh

\* The five ways to begin a call.
LEMMA CallsKeep ==
  ASSUME IInv, NEW t \in Threads,
         \/ \E m \in Mutexes, kind \in Kinds : CallMutexInit(t, m, kind)
         \/ \E c \in Conds : CallCondInit(t, c)
         \/ \E m \in Mutexes, op \in {"lock", "trylock"} : CallMutexLock(t, m, op)
         \/ \E c \in Conds, op \in {"signal", "broadcast"} : CallCondSignal(t, c, op)
         \/ \E c \in Conds, m \in Mutexes : CallCondWait(t, c, m)
  PROVE  IInv'
<1> USE ConstantFacts DEF Form
<1>0. asked \in [Objects -> Kinds] /\ "normal" \in Kinds
  BY DEF IInv, Types, Kinds
<1>1. ASSUME NEW m \in Mutexes, NEW kind \in Kinds, CallMutexInit(t, m, kind) PROVE IInv'
  <2>1. /\ asked' \in [Objects -> Kinds] /\ asked'[m] = kind
        /\ \A o \in Objects : asked'[o] # asked[o] => o = m
    BY <1>0, <1>1 DEF CallMutexInit
  <2> QED
    BY <1>1, <2>1, BeginKeeps DEF CallMutexInit
<1>2. ASSUME NEW c \in Conds, CallCondInit(t, c) PROVE IInv'
  BY <1>0, <1>2, BeginKeeps DEF CallCondInit
<1>3. ASSUME NEW m \in Mutexes, NEW op \in {"lock", "trylock"}, CallMutexLock(t, m, op) PROVE IInv'
  BY <1>0, <1>3, BeginKeeps DEF CallMutexLock
<1>4. ASSUME NEW c \in Conds, NEW op \in {"signal", "broadcast"}, CallCondSignal(t, c, op)
      PROVE  IInv'
  BY <1>0, <1>4, BeginKeeps DEF CallCondSignal
<1>5. ASSUME NEW c \in Conds, NEW m \in Mutexes, CallCondWait(t, c, m) PROVE IInv'
  <2>1. holds[t][m] > 0
    BY <1>5 DEF CallCondWait
  <2> QED
    BY <1>0, <1>5, <2>1, BeginKeeps DEF CallCondWait
<1> QED
  BY <1>1, <1>2, <1>3, <1>4, <1>5

-----------------------------------------------------------------------------
(* First use *)

\* A call that is past its first uses has found its objects in the registry.
LEMMA LateFacts ==
  ASSUME IInv, NEW t \in Threads, NEW o \in Objects \ spoiled, pc[t] \in Late, InCall(t, o)
  PROVE  /\ Done(t, o) /\ Registered(o) /\ Usable(o) /\ word[o] \in Blocks
         /\ \A u \in Threads : ~Initialising(u, o)
<1>1. pc[t] # "idle" /\ pc[t] \notin Early
  BY DEF Late, Early, First4
<1>2. call[t].todo = <<>>
  BY <1>1 DEF IInv, Todo
<1>3. Done(t, o)
  BY <1>1, <1>2 DEF Done, Pending
<1> QED
  BY <1>3 DEF IInv, Fresh, FreshObject, Usable

\* An object in the registry is done with; the first to miss it initialises it alone.
LEMMA CheckKeeps == ASSUME IInv, NEW t \in Threads, Check(t) PROVE IInv'
<1> USE ConstantFacts
<1>1. Types /\ \A u \in Threads : Todo(u)
  BY DEF IInv
<1>2. pc[t] = "check" /\ pc[t] \in Early /\ pc[t] \notin Late
  BY DEF Check, Early, First4, Late
<1>3. Object(t) \in Objects
  BY <1>1, <1>2, ObjectFacts
<1>4. UNCHANGED <<initializedObjects, word, real, holds, asked>>
  BY DEF Check
<1>5. \A o \in Objects : ~Initialising(t, o)
  BY <1>2 DEF Initialising
<1>6. \A o \in Objects : (Registered(o)' <=> Registered(o)) /\ (Usable(o)' <=> Usable(o))
  BY <1>4 DEF Registered, Usable
<1>7. CASE Registered(Object(t))
  <2>1. Ensured(t) /\ spoiled' = spoiled
    BY <1>7 DEF Check
  <2>2. /\ pc' = [pc EXCEPT ![t] = pc'[t]] /\ pc'[t] \in {"check", "act"}
        /\ call' = [call EXCEPT ![t].todo = call'[t].todo]
        /\ pc' \in [Threads -> {"idle"} \cup Early \cup Late] /\ call' \in [Threads -> Call]
        /\ Todo(t)'
        /\ \A o \in Objects : Done(t, o)' => Done(t, o) \/ o = Object(t)
    BY <1>1, <1>2, <2>1, EnsuredFacts
  <2>3. /\ call'[t].op = call[t].op /\ call'[t].m = call[t].m /\ call'[t].c = call[t].c
        /\ call'[t].kind = call[t].kind
        /\ \A u \in Threads \ {t} : pc'[u] = pc[u] /\ call'[u] = call[u]
    BY <1>1, <2>2 DEF Types, Call
  <2>4. \A u \in Threads \ {t} :
          /\ Todo(u)' /\ Object(u)' = Object(u)
          /\ \A o \in Objects : /\ InCall(u, o)' <=> InCall(u, o)
                                /\ Done(u, o)' <=> Done(u, o)
                                /\ Initialising(u, o)' <=> Initialising(u, o)
    BY <1>1, <2>3, SameThread
  <2>5. \A o \in Objects : ~Initialising(t, o)' /\ (InCall(t, o)' <=> InCall(t, o))
    BY <2>2, <2>3 DEF Initialising, InCall
  <2>6. Types' /\ \A u \in Threads : Todo(u)'
    BY <1>1, <1>4, <2>1, <2>2, <2>4 DEF Types
  <2>7. InitAlone' /\ WaitsWithMutex'
    BY <1>2, <1>4, <2>2, <2>3, <2>4, <2>5 DEF IInv, InitAlone, WaitsWithMutex, Early
  <2>8. OwnBlocks' /\ SleeperBlocks' /\ OneBed'
    BY <1>2, <1>4, <2>1, <2>2, <2>3, <2>4 DEF IInv, OwnBlocks, SleeperBlocks, OneBed
  <2>9. ASSUME NEW o \in Objects \ spoiled' PROVE FreshObject(o)'
    <3>1. FreshObject(o)
      BY <2>1 DEF IInv, Fresh
    <3> QED
      BY <1>2, <1>4, <1>6, <1>7, <2>2, <2>3, <2>4, <2>5, <3>1 DEF FreshObject
  <2>10. ASSUME NEW x \in Mutexes \ spoiled' PROVE FreshMutex(x)'
    <3>1. FreshMutex(x)
      BY <2>1 DEF IInv, Fresh
    <3>2. BeingInited(x)' <=> BeingInited(x)
      BY <2>3, <2>4, <2>5 DEF BeingInited
    <3> QED
      BY <1>4, <1>6, <2>2, <2>3, <2>4, <3>1, <3>2 DEF FreshMutex, AsAsked
  <2>11. ASSUME NEW x \in Conds \ spoiled' PROVE FreshCond(x)'
    BY <1>4, <2>1, <2>2, <2>3 DEF IInv, Fresh, FreshCond
  <2> QED
    BY <2>6, <2>7, <2>8, <2>9, <2>10, <2>11 DEF IInv, Fresh
<1>8. CASE ~Registered(Object(t))
  <2>1. /\ pc' = [pc EXCEPT ![t] = "kind"] /\ call' = call
        /\ spoiled' = IF \E u \in Threads \ {t} : Initialising(u, Object(t))
                      THEN spoiled \cup {Object(t)} ELSE spoiled
    BY <1>8 DEF Check, Goto
  <2>2. pc'[t] = "kind" /\ \A u \in Threads \ {t} : pc'[u] = pc[u]
    BY <1>1, <2>1 DEF Types
  <2>3. \A u \in Threads : /\ Object(u)' = Object(u)
                           /\ \A o \in Objects : /\ InCall(u, o)' <=> InCall(u, o)
                                                 /\ Done(u, o)' <=> Done(u, o)
    BY <1>2, <2>1, <2>2 DEF Object, InCall, Done, Pending
  <2>4. \A o \in Objects : /\ Initialising(t, o)' <=> o = Object(t)
                           /\ \A u \in Threads \ {t} : Initialising(u, o)' <=> Initialising(u, o)
    BY <2>2, <2>3 DEF Initialising
  <2>5. spoiled \subseteq spoiled' /\ spoiled' \subseteq Objects
    BY <1>1, <1>3, <2>1 DEF Types
  <2>6. Types' /\ \A u \in Threads : Todo(u)'
    BY <1>1, <1>2, <1>4, <2>1, <2>2, <2>5 DEF Types, Todo, Early, First4, Late
  <2>7. InitAlone' /\ WaitsWithMutex'
    BY <1>2, <1>4, <2>1, <2>2, <2>3 DEF IInv, InitAlone, WaitsWithMutex, Early, First4
  <2>8. OwnBlocks' /\ SleeperBlocks' /\ OneBed'
    BY <1>2, <1>4, <2>1, <2>2, <2>3, <2>5 DEF IInv, OwnBlocks, SleeperBlocks, OneBed
  <2>9. ASSUME NEW o \in Objects \ spoiled' PROVE FreshObject(o)'
    <3>1. FreshObject(o)
      BY <2>5 DEF IInv, Fresh
    <3>2. o = Object(t) => \A u \in Threads \ {t} : ~Initialising(u, o)
      BY <2>1
    <3> QED
      BY <1>2, <1>4, <1>6, <1>8, <2>2, <2>3, <2>4, <3>1, <3>2 DEF FreshObject
  <2>10. ASSUME NEW x \in Mutexes \ spoiled' PROVE FreshMutex(x)'
    <3>1. FreshMutex(x)
      BY <2>5 DEF IInv, Fresh
    <3>2. BeingInited(x)' <=> BeingInited(x)
      BY <2>1, <2>3 DEF BeingInited
    <3> QED
      BY <1>4, <1>6, <2>1, <2>2, <2>3, <3>1, <3>2 DEF FreshMutex, AsAsked
  <2>11. ASSUME NEW x \in Conds \ spoiled' PROVE FreshCond(x)'
    BY <1>4, <2>1, <2>2, <2>5 DEF IInv, Fresh, FreshCond
  <2> QED
    BY <2>6, <2>7, <2>8, <2>9, <2>10, <2>11 DEF IInv, Fresh
<1> QED
  BY <1>7, <1>8

\* One step of a first use on the way: only the thread's place changes, and
\* the kind it has read.
Move(t, from, to, kind) ==
  pc[t] = from /\ pc' = [pc EXCEPT ![t] = to] /\ call' = [call EXCEPT ![t].kind = kind]

\* Such a step leaves every other thread and every call's objects alone.
LEMMA MoveFacts ==
  ASSUME IInv, NEW t \in Threads, NEW from \in First4, NEW to \in First4, NEW kind \in Kinds,
         Move(t, from, to, kind)
  PROVE  /\ Object(t) \in Objects /\ InCall(t, Object(t)) /\ Initialising(t, Object(t))
         /\ pc'[t] = to /\ call'[t].kind = kind
         /\ \A u \in Threads \ {t} : pc'[u] = pc[u] /\ call'[u] = call[u]
         /\ \A u \in Threads : /\ Todo(u)' /\ Object(u)' = Object(u)
                               /\ call'[u].op = call[u].op /\ call'[u].m = call[u].m
                               /\ call'[u].c = call[u].c /\ call'[u].block = call[u].block
         /\ \A u \in Threads : \A o \in Objects : /\ InCall(u, o)' <=> InCall(u, o)
                                                  /\ Done(u, o)' <=> Done(u, o)
                                                  /\ Initialising(u, o)' <=> Initialising(u, o)
         /\ \A o \in Objects : BeingInited(o)' <=> BeingInited(o)
         /\ pc' \in [Threads -> {"idle"} \cup Early \cup Late] /\ call' \in [Threads -> Call]
<1> USE DEF Move
<1>1. Types /\ \A u \in Threads : Todo(u)
  BY DEF IInv
<1>2. from \in Early /\ to \in Early /\ from \notin Late /\ from # "idle" /\ to # "idle"
  BY DEF First4, Early, Late
<1>3. Object(t) \in Objects /\ InCall(t, Object(t)) /\ Initialising(t, Object(t))
  BY <1>1, <1>2, ObjectFacts DEF Initialising, First4
<1>4. /\ pc'[t] = to /\ \A u \in Threads \ {t} : pc'[u] = pc[u] /\ call'[u] = call[u]
      /\ pc' \in [Threads -> {"idle"} \cup Early \cup Late]
  BY <1>1, <1>2 DEF Types
<1>5. /\ call'[t].kind = kind /\ call'[t].todo = call[t].todo
      /\ call'[t].op = call[t].op /\ call'[t].m = call[t].m /\ call'[t].c = call[t].c
      /\ call'[t].block = call[t].block
      /\ call' \in [Threads -> Call]
  BY <1>1 DEF Types, Call
<1>6. \A u \in Threads :
        /\ Object(u)' = Object(u)
        /\ \A o \in Objects : /\ InCall(u, o)' <=> InCall(u, o)
                              /\ Done(u, o)' <=> Done(u, o)
  BY <1>2, <1>4, <1>5 DEF Object, InCall, Done, Pending
<1>7. \A u \in Threads : \A o \in Objects : Initialising(u, o)' <=> Initialising(u, o)
  BY <1>4, <1>6 DEF Initialising, First4
<1>8. Todo(t)'
  BY <1>1, <1>2, <1>4, <1>5 DEF Todo
<1>9. \A u \in Threads \ {t} : Todo(u)'
  BY <1>1, <1>4, SameThread
<1>10. \A o \in Objects : BeingInited(o)' <=> BeingInited(o)
  BY <1>4, <1>5, <1>6 DEF BeingInited
<1> QED
  BY <1>3, <1>4, <1>5, <1>6, <1>7, <1>8, <1>9, <1>10

\* Alone with the object, the thread still finds the static initialiser of it.
LEMMA ReadKindKeeps == ASSUME IInv, NEW t \in Threads, ReadKind(t) PROVE IInv'
<1> USE ConstantFacts
<1> DEFINE o == Object(t)
<1>1. Types /\ \A u \in Threads : Todo(u)
  BY DEF IInv
<1>2. pc[t] = "kind" /\ "kind" \in First4 /\ "publish" \in First4 /\ "kind" \in Early
  BY DEF ReadKind, First4, Early
<1>3. o \in Objects
  BY <1>1, <1>2, ObjectFacts
<1>4. PICK kind \in Kinds : kind = IF call[t].op = "init" THEN call[t].kind ELSE KindOf(o)
  <2>1. call[t].kind \in Kinds
    BY <1>1 DEF Types, Call
  <2>2. KindOf(o) \in Kinds
    BY DEF KindOf, Kinds
  <2> QED
    BY <2>1, <2>2
<1>5. /\ pc' = [pc EXCEPT ![t] = "publish"] /\ call' = [call EXCEPT ![t].kind = kind]
      /\ UNCHANGED <<initializedObjects, word, real, holds, asked, spoiled>>
  BY <1>1, <1>4 DEF ReadKind, Goto, Types, Call
<1>6. /\ InCall(t, o) /\ Initialising(t, o)
      /\ pc'[t] = "publish" /\ call'[t].kind = kind
      /\ \A u \in Threads \ {t} : pc'[u] = pc[u] /\ call'[u] = call[u]
      /\ \A u \in Threads : /\ Todo(u)' /\ Object(u)' = Object(u)
                            /\ call'[u].op = call[u].op /\ call'[u].m = call[u].m
                            /\ call'[u].c = call[u].c /\ call'[u].block = call[u].block
      /\ \A u \in Threads : \A p \in Objects : /\ InCall(u, p)' <=> InCall(u, p)
                                               /\ Done(u, p)' <=> Done(u, p)
                                               /\ Initialising(u, p)' <=> Initialising(u, p)
      /\ \A p \in Objects : BeingInited(p)' <=> BeingInited(p)
      /\ pc' \in [Threads -> {"idle"} \cup Early \cup Late] /\ call' \in [Threads -> Call]
  <2>1. Move(t, "kind", "publish", kind)
    BY <1>2, <1>5 DEF Move
  <2> QED
    BY <1>2, <2>1, MoveFacts
<1>7. \A p \in Objects : (Registered(p)' <=> Registered(p)) /\ (Usable(p)' <=> Usable(p))
  BY <1>5 DEF Registered, Usable
<1>8. Types' /\ \A u \in Threads : Todo(u)'
  BY <1>1, <1>5, <1>6 DEF Types
<1>9. InitAlone' /\ WaitsWithMutex'
  <2>1. call[t].op = "init" => kind = call[t].kind
    BY <1>4
  <2> QED
    BY <1>2, <1>5, <1>6, <2>1 DEF IInv, InitAlone, WaitsWithMutex, Early, First4
<1>10. OwnBlocks' /\ SleeperBlocks' /\ OneBed'
  BY <1>2, <1>5, <1>6 DEF IInv, OwnBlocks, SleeperBlocks, OneBed
<1>11. ASSUME NEW p \in Objects \ spoiled PROVE FreshObject(p)'
  <2>1. FreshObject(p)
    BY DEF IInv, Fresh
  <2> QED
    BY <1>2, <1>5, <1>6, <1>7, <2>1 DEF FreshObject
<1>12. ASSUME NEW x \in Mutexes \ spoiled PROVE FreshMutex(x)'
  <2>1. FreshMutex(x) /\ FreshObject(x)
    BY DEF IInv, Fresh
  <2>2. o = x => kind = asked[x]
    <3> SUFFICES ASSUME o = x PROVE kind = asked[x]
      OBVIOUS
    <3>1. CASE call[t].op = "init"
      BY <1>4, <1>6, <3>1 DEF IInv, InitAlone
    <3>2. CASE call[t].op # "init"
      <4>1. ~BeingInited(x)
        BY <1>6, <3>2 DEF BeingInited, IInv, InitAlone
      <4>2. ~Registered(x) /\ \A u \in Threads \ {t} : ~Initialising(u, x)
        BY <1>6, <2>1 DEF FreshObject
      <4>3. word[x] \notin Blocks
        BY <1>2, <2>1, <4>2 DEF FreshObject, Initialising
      <4>4. word[x] \in Kinds /\ word[x] = asked[x]
        BY <1>1, <2>1, <4>1, <4>3 DEF Types, FreshMutex
      <4> QED
        BY <1>4, <3>2, <4>4 DEF KindOf
    <3> QED
      BY <3>1, <3>2
  <2> QED
    BY <1>5, <1>6, <1>7, <2>1, <2>2 DEF FreshMutex, AsAsked
<1>13. ASSUME NEW x \in Conds \ spoiled PROVE FreshCond(x)'
  BY <1>5, <1>6 DEF IInv, Fresh, FreshCond
<1> QED
  BY <1>5, <1>8, <1>9, <1>10, <1>11, <1>12, <1>13 DEF IInv, Fresh

\* The object's word gets a block that nobody has, while nobody can use the object.
LEMMA PublishKeeps == ASSUME IInv, NEW t \in Threads, Publish(t) PROVE IInv'
<1> USE ConstantFacts
<1> DEFINE o == Object(t)
<1>1. Types /\ \A u \in Threads : Todo(u)
  BY DEF IInv
<1>2. pc[t] = "publish" /\ "init" \in First4 /\ "publish" \in First4 /\ "publish" \in Early
  BY DEF Publish, First4, Early
<1>3. o \in Objects
  BY <1>1, <1>2, ObjectFacts
<1>4. PICK b \in Blocks :
        /\ real[b].type = "free"
        /\ real' = [real EXCEPT ![b] = Blank("raw", "normal")]
        /\ word' = [word EXCEPT ![o] = b]
  BY DEF Publish
<1>5. /\ pc' = [pc EXCEPT ![t] = "init"] /\ call' = [call EXCEPT ![t].kind = call[t].kind]
      /\ UNCHANGED <<initializedObjects, call, holds, asked, spoiled>>
  BY <1>1 DEF Publish, Goto, Types, Call
<1>6. call[t].kind \in Kinds
  BY <1>1 DEF Types, Call
<1>7. /\ InCall(t, o) /\ Initialising(t, o)
      /\ pc'[t] = "init"
      /\ \A u \in Threads \ {t} : pc'[u] = pc[u]
      /\ \A u \in Threads : Todo(u)' /\ Object(u)' = Object(u)
      /\ \A u \in Threads : \A p \in Objects : /\ InCall(u, p)' <=> InCall(u, p)
                                               /\ Done(u, p)' <=> Done(u, p)
                                               /\ Initialising(u, p)' <=> Initialising(u, p)
      /\ \A p \in Objects : BeingInited(p)' <=> BeingInited(p)
      /\ pc' \in [Threads -> {"idle"} \cup Early \cup Late]
  <2>1. Move(t, "publish", "init", call[t].kind)
    BY <1>2, <1>5 DEF Move
  <2> QED
    BY <1>2, <1>5, <1>6, <2>1, MoveFacts
<1>8. /\ word'[o] = b /\ \A p \in Objects \ {o} : word'[p] = word[p]
      /\ real'[b] = Blank("raw", "normal") /\ \A d \in Blocks \ {b} : real'[d] = real[d]
      /\ real' \in [Blocks -> Real] /\ word' \in [Objects -> Kinds \cup Blocks]
  <2>1. Blank("raw", "normal") \in Real
    BY DEF Blank, Real, Kinds
  <2> QED
    BY <1>1, <1>3, <1>4, <2>1 DEF Types
<1>9. /\ real'[b].type = "raw" /\ real'[b].waiters = {}
  BY <1>8 DEF Blank
<1>10. \A p \in Objects : word[p] \in Blocks => word[p] # b
  BY <1>4 DEF IInv, OwnBlocks
<1>11. \A p \in Objects \ {o} : (Registered(p)' <=> Registered(p)) /\ (Usable(p)' <=> Usable(p))
  BY <1>5, <1>8, <1>10 DEF Registered, Usable
<1>12. Types' /\ \A u \in Threads : Todo(u)'
  BY <1>1, <1>5, <1>7, <1>8 DEF Types
<1>13. InitAlone' /\ WaitsWithMutex'
  <2>1. InitAlone'
    BY <1>5, <1>7 DEF IInv, InitAlone
  <2>2. WaitsWithMutex'
    BY <1>2, <1>5, <1>7 DEF IInv, WaitsWithMutex
  <2> QED
    BY <2>1, <2>2
<1>14. OwnBlocks'
  <2>1. \A p \in Objects : word'[p] \in Blocks => real'[word'[p]].type # "free"
    BY <1>8, <1>9, <1>10 DEF IInv, OwnBlocks
  <2>2. \A p, q \in Objects : word'[p] = word'[q] /\ word'[p] \in Blocks => p = q
    BY <1>8, <1>10 DEF IInv, OwnBlocks
  <2>3. \A u \in Threads : pc'[u] \in {"init", "remember"} => word'[Object(u)'] \in Blocks
    <3> SUFFICES ASSUME NEW u \in Threads, pc'[u] \in {"init", "remember"}
                 PROVE  word'[Object(u)] \in Blocks
      BY <1>7
    <3>1. CASE u = t
      BY <1>8, <3>1
    <3>2. CASE u # t
      <4>1. pc[u] \in {"init", "remember"} /\ pc[u] \in Early
        BY <1>7, <3>2 DEF Early, First4
      <4>2. word[Object(u)] \in Blocks /\ Object(u) \in Objects
        BY <1>1, <4>1, ObjectFacts DEF IInv, OwnBlocks
      <4> QED
        BY <1>8, <4>2
    <3> QED
      BY <3>1, <3>2
  <2>4. \A u \in Threads, x \in Mutexes : holds'[u][x] > 0 => word'[x] \in Blocks
    BY <1>5, <1>8 DEF IInv, OwnBlocks
  <2> QED
    BY <2>1, <2>2, <2>3, <2>4 DEF OwnBlocks
<1>15. SleeperBlocks'
  <2> SUFFICES ASSUME NEW u \in Threads, pc'[u] \in {"waiting", "reacquire"}
               PROVE  /\ call[u].m \in Mutexes /\ call[u].c \in Conds
                      /\ call[u].block \in Blocks /\ real'[call[u].block].type # "free"
                      /\ word'[call[u].m] \in Blocks /\ call[u].op = "wait"
                      /\ \A p \in Objects \ {call[u].m} : word'[p] # call[u].block
                      /\ call[u].m \notin spoiled => call[u].block = word'[call[u].m]
    BY <1>5 DEF SleeperBlocks
  <2>1. pc[u] \in {"waiting", "reacquire"} /\ pc[u] \in Late
    BY <1>2, <1>7 DEF Late
  <2>2. /\ call[u].m \in Mutexes /\ call[u].c \in Conds
        /\ call[u].block \in Blocks /\ real[call[u].block].type # "free"
        /\ word[call[u].m] \in Blocks /\ call[u].op = "wait"
        /\ \A p \in Objects \ {call[u].m} : word[p] # call[u].block
        /\ call[u].m \notin spoiled => call[u].block = word[call[u].m]
    BY <2>1 DEF IInv, SleeperBlocks
  <2>3. call[u].m \notin spoiled => call[u].m # o
    BY <1>7, <2>1, <2>2, LateFacts DEF InCall
  <2> QED
    BY <1>4, <1>8, <2>2, <2>3
<1>16. OneBed'
  BY <1>2, <1>7, <1>8, <1>9 DEF IInv, OneBed
<1>17. ASSUME NEW p \in Objects \ spoiled PROVE FreshObject(p)'
  <2>1. FreshObject(p)
    BY DEF IInv, Fresh
  <2>2. CASE p # o
    BY <1>2, <1>5, <1>7, <1>8, <1>11, <2>1, <2>2 DEF FreshObject
  <2>3. CASE p = o
    <3>1. ~Registered(p) /\ ~Registered(p)' /\ \A u \in Threads \ {t} : ~Initialising(u, p)
      BY <1>5, <1>7, <2>1, <2>3 DEF FreshObject, Registered
    <3>2. \A u \in Threads : ~(pc'[u] = "remember" /\ Object(u)' = p)
      BY <1>7, <3>1 DEF Initialising
    <3> QED
      BY <1>5, <1>7, <2>1, <2>3, <3>1, <3>2 DEF FreshObject
  <2> QED
    BY <2>2, <2>3
<1>18. ASSUME NEW x \in Mutexes \ spoiled PROVE FreshMutex(x)'
  <2>1. FreshMutex(x) /\ FreshObject(x)
    BY DEF IInv, Fresh
  <2>2. \A u \in Threads : pc'[u] \in {"publish", "init"} /\ Object(u)' = x => call[u].kind = asked[x]
    BY <1>2, <1>7, <2>1 DEF FreshMutex
  <2>3. CASE x # o
    <3>1. word'[x] = word[x] /\ (word[x] \in Blocks => real'[word[x]] = real[word[x]])
      BY <1>8, <1>10, <2>3
    <3> QED
      BY <1>5, <1>7, <1>11, <2>1, <2>2, <2>3, <3>1 DEF FreshMutex, AsAsked, Usable
  <2>4. CASE x = o
    <3>1. ~Registered(x) /\ word'[x] \notin Kinds /\ ~Usable(x)'
      BY <1>7, <1>8, <1>9, <2>1, <2>4 DEF FreshObject, Usable
    <3>2. AsAsked(x)'
      BY <1>8, <1>9, <2>4 DEF AsAsked
    <3> QED
      BY <1>5, <2>1, <2>2, <3>1, <3>2 DEF FreshMutex
  <2> QED
    BY <2>3, <2>4
<1>19. ASSUME NEW x \in Conds \ spoiled PROVE FreshCond(x)'
  <2>1. FreshCond(x)
    BY DEF IInv, Fresh
  <2>2. ASSUME NEW u \in Threads, pc'[u] = "waiting", call[u].c = x
        PROVE  u \in real'[word'[x]].waiters
    <3>1. pc[u] = "waiting" /\ pc[u] \in Late /\ InCall(u, x)
      BY <1>2, <1>7, <2>2 DEF Late, InCall
    <3>2. word[x] \in Blocks /\ x # o
      BY <1>7, <3>1, LateFacts
    <3> QED
      BY <1>8, <1>10, <2>1, <2>2, <3>1, <3>2 DEF FreshCond
  <2> QED
    BY <1>5, <2>2 DEF FreshCond
<1> QED
  BY <1>5, <1>12, <1>13, <1>14, <1>15, <1>16, <1>17, <1>18, <1>19 DEF IInv, Fresh

\* The real object is of the kind asked for, and nobody has it locked.
LEMMA InitRealKeeps == ASSUME IInv, NEW t \in Threads, InitReal(t) PROVE IInv'
<1> USE ConstantFacts
<1> DEFINE o == Object(t)
<1>1. Types /\ \A u \in Threads : Todo(u)
  BY DEF IInv
<1>2. pc[t] = "init" /\ "init" \in First4 /\ "remember" \in First4 /\ "init" \in Early
  BY DEF InitReal, First4, Early
<1>3. o \in Objects
  BY <1>1, <1>2, ObjectFacts
<1>4. /\ call[t].kind \in Kinds
      /\ call' = [call EXCEPT ![t].kind = call[t].kind]
      /\ pc' = [pc EXCEPT ![t] = "remember"]
      /\ UNCHANGED <<initializedObjects, word, call, holds, asked, spoiled>>
  BY <1>1 DEF InitReal, Goto, Types, Call
<1>5. Move(t, "init", "remember", call[t].kind)
  BY <1>2, <1>4 DEF Move
<1>6. /\ InCall(t, o) /\ Initialising(t, o)
      /\ pc'[t] = "remember"
      /\ \A u \in Threads \ {t} : pc'[u] = pc[u]
      /\ \A u \in Threads : Todo(u)' /\ Object(u)' = Object(u)
      /\ \A u \in Threads : \A p \in Objects : /\ InCall(u, p)' <=> InCall(u, p)
                                               /\ Done(u, p)' <=> Done(u, p)
                                               /\ Initialising(u, p)' <=> Initialising(u, p)
      /\ \A p \in Objects : BeingInited(p)' <=> BeingInited(p)
      /\ pc' \in [Threads -> {"idle"} \cup Early \cup Late]
  BY <1>2, <1>4, <1>5, MoveFacts
<1>7. PICK b \in Blocks : b = word[o]
  BY <1>2 DEF IInv, OwnBlocks
<1>8. PICK fresh \in Real :
        /\ fresh = IF o \in Mutexes THEN NewMutex(call[t].kind) ELSE NewCond
        /\ fresh.type = IF o \in Mutexes THEN "mutex" ELSE "cond"
        /\ fresh.owner = Nobody /\ fresh.depth = 0 /\ fresh.waiters = {}
        /\ o \in Mutexes => fresh.kind = call[t].kind
  <2>1. CASE o \in Mutexes
    <3>1. NewMutex(call[t].kind) \in Real
      BY <1>4 DEF NewMutex, Blank, Real
    <3> QED
      BY <2>1, <3>1 DEF NewMutex, Blank
  <2>2. CASE o \notin Mutexes
    <3>1. NewCond \in Real
      BY DEF NewCond, Blank, Real, Kinds
    <3> QED
      BY <2>2, <3>1 DEF NewCond, Blank
  <2> QED
    BY <2>1, <2>2
<1>9. /\ real' = [real EXCEPT ![b] = fresh]
      /\ real'[b] = fresh /\ \A d \in Blocks \ {b} : real'[d] = real[d]
      /\ real' \in [Blocks -> Real]
  BY <1>1, <1>7, <1>8 DEF InitReal, Types
<1>10. \A p \in Objects \ {o} : word[p] # b
  BY <1>3, <1>7 DEF IInv, OwnBlocks
<1>11. /\ \A p \in Objects : Registered(p)' <=> Registered(p)
       /\ \A p \in Objects \ {o} : Usable(p)' <=> Usable(p)
       /\ Usable(o)'
  BY <1>3, <1>4, <1>6, <1>7, <1>8, <1>9, <1>10 DEF Registered, Usable
<1>12. Types' /\ \A u \in Threads : Todo(u)'
  BY <1>1, <1>4, <1>6, <1>9 DEF Types
<1>13. InitAlone' /\ WaitsWithMutex'
  <2>1. InitAlone'
    BY <1>4, <1>6 DEF IInv, InitAlone
  <2>2. WaitsWithMutex'
    BY <1>2, <1>4, <1>6 DEF IInv, WaitsWithMutex
  <2> QED
    BY <2>1, <2>2
<1>14. \A d \in Blocks : real'[d].type = "free" => real[d].type = "free" /\ d # b
  BY <1>8, <1>9
<1>15. OwnBlocks'
  <2>1. \A u \in Threads : pc'[u] \in {"init", "remember"} => word[Object(u)] \in Blocks
    BY <1>6, <1>7 DEF IInv, OwnBlocks
  <2> QED
    BY <1>4, <1>6, <1>14, <2>1 DEF IInv, OwnBlocks
<1>16. SleeperBlocks'
  BY <1>2, <1>4, <1>6, <1>14 DEF IInv, SleeperBlocks
<1>17. OneBed'
  BY <1>2, <1>6, <1>8, <1>9 DEF IInv, OneBed
<1>18. ASSUME NEW p \in Objects \ spoiled PROVE FreshObject(p)'
  <2>1. FreshObject(p)
    BY DEF IInv, Fresh
  <2>2. CASE p # o
    BY <1>2, <1>4, <1>6, <1>11, <2>1, <2>2 DEF FreshObject
  <2>3. CASE p = o
    BY <1>4, <1>6, <1>11, <2>1, <2>3 DEF FreshObject
  <2> QED
    BY <2>2, <2>3
<1>19. ASSUME NEW x \in Mutexes \ spoiled PROVE FreshMutex(x)'
  <2>1. FreshMutex(x) /\ FreshObject(x)
    BY DEF IInv, Fresh
  <2>2. \A u \in Threads : pc'[u] \in {"publish", "init"} /\ Object(u)' = x => call[u].kind = asked[x]
    BY <1>2, <1>6, <2>1 DEF FreshMutex
  <2>3. CASE x # o
    <3>1. word[x] \in Blocks => real'[word[x]] = real[word[x]]
      BY <1>9, <1>10, <2>3
    <3> QED
      BY <1>4, <1>6, <1>11, <2>1, <2>2, <2>3, <3>1 DEF FreshMutex, AsAsked, Usable
  <2>4. CASE x = o
    <3>1. ~Registered(x) /\ word[x] \notin Kinds /\ word[x] = b
      BY <1>6, <1>7, <2>1, <2>4 DEF FreshObject
    <3>2. call[t].kind = asked[x] /\ \A u \in Threads : holds[u][x] = 0
      BY <1>2, <2>1, <2>4, <3>1 DEF FreshMutex
    <3>3. AsAsked(x)'
      BY <1>4, <1>8, <1>9, <2>4, <3>1, <3>2 DEF AsAsked
    <3> QED
      BY <1>4, <1>8, <1>9, <2>2, <3>1, <3>2, <3>3 DEF FreshMutex
  <2> QED
    BY <2>3, <2>4
<1>20. ASSUME NEW x \in Conds \ spoiled PROVE FreshCond(x)'
  <2>1. FreshCond(x)
    BY DEF IInv, Fresh
  <2>2. ASSUME NEW u \in Threads, pc'[u] = "waiting", call[u].c = x
        PROVE  u \in real'[word'[x]].waiters
    <3>1. pc[u] = "waiting" /\ pc[u] \in Late /\ InCall(u, x)
      BY <1>2, <1>6, <2>2 DEF Late, InCall
    <3>2. word[x] \in Blocks /\ x # o
      BY <1>6, <3>1, LateFacts
    <3> QED
      BY <1>4, <1>9, <1>10, <2>1, <2>2, <3>1, <3>2 DEF FreshCond
  <2> QED
    BY <1>4, <2>2 DEF FreshCond
<1> QED
  BY <1>4, <1>12, <1>13, <1>15, <1>16, <1>17, <1>18, <1>19, <1>20 DEF IInv, Fresh

\* A set of numbers has a smallest one.
LEMMA SmallestExists ==
  ASSUME NEW S \in SUBSET Nat, S # {} PROVE \E k \in S : \A j \in S : k <= j
<1>1. \E x \in S : \A y \in S : ~ (<<y, x>> \in OpToRel(<, Nat))
  BY NatLessThanWellFounded, WFMin
<1>2. PICK x \in S : \A y \in S : ~ (y < x)
  BY <1>1 DEF OpToRel
<1> QED
  BY <1>2

\* So the first of a set of slots is one of them.
LEMMA FirstIsIn == ASSUME NEW S \in SUBSET Slots, S # {} PROVE First(S) \in S
<1>1. S \in SUBSET Nat
  BY DEF Slots
<1>2. \E k \in S : \A j \in S : k <= j
  BY <1>1, SmallestExists
<1> QED
  BY <1>2 DEF First

\* The registry: the first empty slot, if there is one, and nothing else.
LEMMA RememberedFacts ==
  ASSUME Types, NEW o \in Objects
  PROVE  /\ Remembered(o) \in [Slots -> Objects \cup {NoObject, Other}]
         /\ \A p \in Objects \ {o} : \A i \in Slots :
              Remembered(o)[i] = p <=> initializedObjects[i] = p
         /\ ~Registered(o) =>
              \A i, j \in Slots : Remembered(o)[i] = o /\ Remembered(o)[j] = o => i = j
         /\ (\E i \in Slots : initializedObjects[i] = NoObject) =>
               \E i \in Slots : Remembered(o)[i] = o
<1> USE ConstantFacts DEF Types
<1>1. PICK empty \in SUBSET Slots : empty = {i \in Slots : initializedObjects[i] = NoObject}
  OBVIOUS
<1>2. CASE empty = {}
  <2>1. Remembered(o) = initializedObjects
    BY <1>1, <1>2 DEF Remembered, InFirstEmpty
  <2> QED
    BY <1>1, <1>2, <2>1 DEF Registered
<1>3. CASE empty # {}
  <2>1. PICK k \in empty : k = First(empty)
    BY <1>3, FirstIsIn
  <2>2. Remembered(o) = [initializedObjects EXCEPT ![k] = o]
    BY <1>1, <1>3, <2>1 DEF Remembered, InFirstEmpty
  <2> QED
    BY <1>1, <2>1, <2>2 DEF Registered
<1> QED
  BY <1>2, <1>3

\* Who initialised an object enters it, in one slot, or it is spoiled.
LEMMA RememberKeeps == ASSUME IInv, NEW t \in Threads, Remember(t) PROVE IInv'
<1> USE ConstantFacts
<1> DEFINE o == Object(t)
<1>1. Types /\ \A u \in Threads : Todo(u)
  BY DEF IInv
<1>2. pc[t] = "remember" /\ pc[t] \in Early /\ pc[t] \in First4 /\ pc[t] \notin Late
  BY DEF Remember, Early, First4, Late
<1>3. o \in Objects /\ InCall(t, o) /\ Initialising(t, o)
  BY <1>1, <1>2, ObjectFacts DEF Initialising, First4
<1>4. /\ initializedObjects' = Remembered(o) /\ Ensured(t)
      /\ spoiled' = IF \A i \in Slots : initializedObjects[i] # NoObject
                    THEN spoiled \cup {o} ELSE spoiled
      /\ UNCHANGED <<word, real, holds, asked>>
  BY DEF Remember
<1>5. /\ pc' = [pc EXCEPT ![t] = pc'[t]] /\ pc'[t] \in {"check", "act"}
      /\ call' = [call EXCEPT ![t].todo = call'[t].todo]
      /\ pc' \in [Threads -> {"idle"} \cup Early \cup Late] /\ call' \in [Threads -> Call]
      /\ Todo(t)'
      /\ \A p \in Objects : Done(t, p)' => Done(t, p) \/ p = o
  BY <1>1, <1>2, <1>4, EnsuredFacts
<1>6. /\ call'[t].op = call[t].op /\ call'[t].m = call[t].m /\ call'[t].c = call[t].c
      /\ call'[t].kind = call[t].kind
      /\ \A u \in Threads \ {t} : pc'[u] = pc[u] /\ call'[u] = call[u]
  BY <1>1, <1>5 DEF Types, Call
<1>7. \A u \in Threads \ {t} :
        /\ Todo(u)' /\ Object(u)' = Object(u)
        /\ \A p \in Objects : /\ InCall(u, p)' <=> InCall(u, p)
                              /\ Done(u, p)' <=> Done(u, p)
                              /\ Initialising(u, p)' <=> Initialising(u, p)
  BY <1>1, <1>6, SameThread
<1>8. \A p \in Objects : ~Initialising(t, p)' /\ (InCall(t, p)' <=> InCall(t, p))
  BY <1>5, <1>6 DEF Initialising, InCall
<1>9. \A p \in Objects : Usable(p)' <=> Usable(p)
  BY <1>4 DEF Usable
<1>10. spoiled \subseteq spoiled' /\ spoiled' \subseteq Objects
  BY <1>1, <1>3, <1>4 DEF Types
<1>11. ASSUME NEW p \in Objects \ spoiled'
       PROVE  /\ FreshObject(p)
              /\ p # o => (Registered(p)' <=> Registered(p))
              /\ p = o => ~Registered(p) /\ Registered(p)'
              /\ \A i, j \in Slots : initializedObjects'[i] = p /\ initializedObjects'[j] = p => i = j
  <2>1. FreshObject(p)
    BY <1>10 DEF IInv, Fresh
  <2>2. CASE ~Registered(o)
    <3>1. /\ \A q \in Objects \ {o} : \A i \in Slots :
               initializedObjects'[i] = q <=> initializedObjects[i] = q
          /\ \A i, j \in Slots : initializedObjects'[i] = o /\ initializedObjects'[j] = o => i = j
          /\ (\E i \in Slots : initializedObjects[i] = NoObject) =>
               \E i \in Slots : initializedObjects'[i] = o
      BY <1>1, <1>3, <1>4, <2>2, RememberedFacts
    <3> QED
      BY <1>4, <2>1, <2>2, <3>1 DEF FreshObject, Registered
  <2>3. CASE Registered(o)
    <3>1. p # o
      BY <1>3, <2>1, <2>3 DEF FreshObject
    <3>2. \A i \in Slots : initializedObjects'[i] = p <=> initializedObjects[i] = p
      BY <1>1, <1>3, <1>4, <3>1, RememberedFacts
    <3> QED
      BY <2>1, <3>1, <3>2 DEF FreshObject, Registered
  <2> QED
    BY <2>2, <2>3
<1>12. Types' /\ \A u \in Threads : Todo(u)'
  <2>1. initializedObjects' \in [Slots -> Objects \cup {NoObject, Other}]
    BY <1>1, <1>3, <1>4, RememberedFacts
  <2> QED
    BY <1>1, <1>4, <1>5, <1>7, <1>10, <2>1 DEF Types
<1>13. InitAlone' /\ WaitsWithMutex'
  BY <1>2, <1>4, <1>5, <1>6, <1>7, <1>8 DEF IInv, InitAlone, WaitsWithMutex
<1>14. OwnBlocks' /\ SleeperBlocks' /\ OneBed'
  BY <1>2, <1>4, <1>5, <1>6, <1>7, <1>10 DEF IInv, OwnBlocks, SleeperBlocks, OneBed
<1>15. ASSUME NEW p \in Objects \ spoiled' PROVE FreshObject(p)'
  <2>1. FreshObject(p)
    BY <1>11
  <2>2. CASE p # o
    BY <1>2, <1>4, <1>5, <1>6, <1>7, <1>8, <1>9, <1>11, <2>1, <2>2 DEF FreshObject
  <2>3. CASE p = o
    <3>1. Usable(p) /\ \A u \in Threads \ {t} : ~Initialising(u, p)
      BY <1>2, <1>3, <2>1, <2>3 DEF FreshObject
    <3> QED
      BY <1>5, <1>7, <1>8, <1>9, <1>11, <2>3, <3>1 DEF FreshObject, Initialising
  <2> QED
    BY <2>2, <2>3
<1>16. ASSUME NEW x \in Mutexes \ spoiled' PROVE FreshMutex(x)'
  <2>1. FreshMutex(x)
    BY <1>10 DEF IInv, Fresh
  <2>2. BeingInited(x)' <=> BeingInited(x)
    BY <1>6, <1>7, <1>8 DEF BeingInited
  <2>3. ~Registered(x)' => ~Registered(x)
    BY <1>11
  <2> QED
    BY <1>4, <1>5, <1>6, <1>7, <1>9, <2>1, <2>2, <2>3 DEF FreshMutex, AsAsked
<1>17. ASSUME NEW x \in Conds \ spoiled' PROVE FreshCond(x)'
  BY <1>4, <1>5, <1>6, <1>10 DEF IInv, Fresh, FreshCond
<1> QED
  BY <1>12, <1>13, <1>14, <1>15, <1>16, <1>17 DEF IInv, Fresh

-----------------------------------------------------------------------------
(* The calls on the real objects *)

\* What a mutex and the threads believe of each other.
Owned(m) ==
  /\ real[word[m]].owner = Nobody => real[word[m]].depth = 0
  /\ \A t \in Threads :
       holds[t][m] = IF real[word[m]].owner = t THEN real[word[m]].depth ELSE 0

\* A thread that returns from a call, or goes on in it.
Returns(u) == pc[u] \in Late /\ pc'[u] = "idle" /\ call'[u] = NoCall
GoesOn(u) ==
  /\ pc[u] \in Late /\ pc'[u] \in Late \ {"act"}
  /\ call'[u].op = call[u].op /\ call'[u].m = call[u].m /\ call'[u].c = call[u].c
  /\ call'[u].todo = call[u].todo /\ call'[u].kind = call[u].kind

\* A step that changes no object but for its owner, depth and waiters.
Calm ==
  /\ UNCHANGED <<initializedObjects, word, asked, spoiled>>
  /\ real' \in [Blocks -> Real]
  /\ \A b \in Blocks : real'[b].type = real[b].type /\ real'[b].kind = real[b].kind
  /\ pc' \in [Threads -> {"idle"} \cup Early \cup Late] /\ call' \in [Threads -> Call]
  /\ holds' \in [Threads -> [Mutexes -> Nat]]
  /\ \A u \in Threads : Returns(u) \/ GoesOn(u) \/ (pc'[u] = pc[u] /\ call'[u] = call[u])

\* In such a step no thread comes to use an object, and no first use is touched.
LEMMA CalmFacts ==
  ASSUME IInv, Calm, NEW u \in Threads
  PROVE  /\ Todo(u)'
         /\ pc'[u] \in Early => pc'[u] = pc[u] /\ call'[u] = call[u] /\ Object(u)' = Object(u)
         /\ pc[u] \in Early => pc'[u] = pc[u] /\ call'[u] = call[u]
         /\ call'[u].op \in {"none", call[u].op}
         /\ call'[u].op # "none" => call'[u].m = call[u].m /\ call'[u].c = call[u].c
         /\ \A o \in Objects : /\ InCall(u, o)' => InCall(u, o)
                               /\ Done(u, o)' => Done(u, o)
                               /\ Initialising(u, o)' <=> Initialising(u, o)
<1> USE ConstantFacts
<1>1. Todo(u)
  BY DEF IInv
<1>2. \A s \in Late : s # "idle" /\ s \notin Early /\ s \notin First4
  BY DEF Late, Early, First4
<1>3. "idle" \notin Early /\ "idle" \notin Late /\ "idle" \notin First4
  BY DEF Late, Early, First4
<1>4. CASE Returns(u)
  <2>1. pc'[u] = "idle" /\ call'[u] = NoCall /\ pc[u] \in Late
    BY <1>4 DEF Returns
  <2>2. Todo(u)'
    BY <2>1 DEF Todo
  <2>3. \A o \in Objects : ~InCall(u, o)'
    BY <2>1 DEF InCall, NoCall
  <2>4. \A o \in Objects : ~Initialising(u, o)' /\ ~Initialising(u, o) /\ ~Done(u, o)'
    BY <1>2, <1>3, <2>1 DEF Initialising, First4, Done
  <2>5. call'[u].op = "none"
    BY <2>1 DEF NoCall
  <2> QED
    BY <1>2, <1>3, <2>1, <2>2, <2>3, <2>4, <2>5
<1>5. CASE GoesOn(u)
  <2>1. /\ pc[u] \in Late /\ pc'[u] \in Late
        /\ call'[u].op = call[u].op /\ call'[u].m = call[u].m /\ call'[u].c = call[u].c
        /\ call'[u].todo = call[u].todo
    BY <1>5 DEF GoesOn
  <2>2. Todo(u)'
    BY <1>1, <1>2, <2>1 DEF Todo
  <2>3. \A o \in Objects : /\ InCall(u, o)' <=> InCall(u, o)
                           /\ Done(u, o)' <=> Done(u, o)
    BY <1>2, <2>1 DEF InCall, Done, Pending
  <2>4. \A o \in Objects : ~Initialising(u, o)' /\ ~Initialising(u, o)
    BY <1>2, <2>1 DEF Initialising, First4
  <2> QED
    BY <1>2, <2>1, <2>2, <2>3, <2>4
<1>6. CASE pc'[u] = pc[u] /\ call'[u] = call[u]
  BY <1>1, <1>6, SameThread
<1> QED
  BY <1>4, <1>5, <1>6 DEF Calm

\* What the calls on the real objects have in common.
LEMMA CalmKeeps ==
  ASSUME IInv, Calm,
         \A t \in Threads, m \in Mutexes : holds'[t][m] > 0 =>
           \/ holds[t][m] > 0
           \/ /\ InCall(t, m) /\ call[t].op # "init" /\ word[m] \in Blocks
              /\ m \notin spoiled => Registered(m),
         \A t \in Threads, m \in Mutexes : holds[t][m] > 0 /\ pc'[t] \in Early \cup {"act"} =>
           holds'[t][m] > 0,
         SleeperBlocks', OneBed',
         \A m \in Mutexes \ spoiled : Usable(m) => Owned(m)',
         \A c \in Conds \ spoiled : FreshCond(c)'
  PROVE  IInv'
<1> USE ConstantFacts
<1>1. Types /\ \A u \in Threads : Todo(u)
  BY DEF IInv
<1>2. \A u \in Threads :
        /\ Todo(u)'
        /\ pc'[u] \in Early => pc'[u] = pc[u] /\ call'[u] = call[u] /\ Object(u)' = Object(u)
        /\ pc[u] \in Early => pc'[u] = pc[u] /\ call'[u] = call[u]
        /\ call'[u].op \in {"none", call[u].op}
        /\ call'[u].op # "none" => call'[u].m = call[u].m /\ call'[u].c = call[u].c
        /\ \A o \in Objects : /\ InCall(u, o)' => InCall(u, o)
                              /\ Done(u, o)' => Done(u, o)
                              /\ Initialising(u, o)' <=> Initialising(u, o)
  BY CalmFacts
<1>3. /\ UNCHANGED <<initializedObjects, word, asked, spoiled>>
      /\ \A b \in Blocks : real'[b].type = real[b].type /\ real'[b].kind = real[b].kind
  BY DEF Calm
<1>4. \A o \in Objects : (Registered(o)' <=> Registered(o)) /\ (Usable(o)' <=> Usable(o))
  BY <1>3 DEF Registered, Usable
<1>6. Types' /\ \A u \in Threads : Todo(u)'
  BY <1>1, <1>2 DEF Types, Calm
<1>7. \A u \in Threads, o \in Mutexes : holds'[u][o] \in Nat /\ holds[u][o] \in Nat
  BY <1>1, <1>6 DEF Types
<1>8. InitAlone'
  <2> SUFFICES ASSUME NEW v \in Threads, NEW o \in Objects, call'[v].op = "init", InCall(v, o)'
               PROVE  /\ \A u \in Threads \ {v} : ~InCall(u, o)'
                      /\ o \in Mutexes => /\ \A u \in Threads : holds'[u][o] = 0
                                          /\ asked'[o] = call'[v].kind
    BY DEF InitAlone
  <2>1. call[v].op = "init" /\ InCall(v, o)
    BY <1>2
  <2>2. /\ \A u \in Threads \ {v} : ~InCall(u, o)
        /\ o \in Mutexes => /\ \A u \in Threads : holds[u][o] = 0
                            /\ asked[o] = call[v].kind
    BY <2>1 DEF IInv, InitAlone
  <2>3. call'[v].kind = call[v].kind
    BY <1>2 DEF Calm, Returns, GoesOn, NoCall
  <2>4. o \in Mutexes => \A u \in Threads : holds'[u][o] = 0
    BY <1>7, <2>1, <2>2
  <2> QED
    BY <1>2, <1>3, <2>2, <2>3, <2>4
<1>9. WaitsWithMutex'
  <2> SUFFICES ASSUME NEW u \in Threads
               PROVE  /\ call'[u].op \in {"lock", "trylock"} => call'[u].m \in Mutexes
                      /\ call'[u].op \in {"signal", "broadcast"} => call'[u].c \in Conds
                      /\ call'[u].op = "wait" =>
                           /\ call'[u].m \in Mutexes /\ call'[u].c \in Conds
                           /\ pc'[u] \in Early \cup {"act"} => holds'[u][call'[u].m] > 0
    BY DEF WaitsWithMutex
  <2>1. call'[u].op = "none" \/ /\ call'[u].op = call[u].op
                                /\ call'[u].m = call[u].m /\ call'[u].c = call[u].c
    BY <1>2
  <2>2. pc'[u] \in Early \cup {"act"} => pc[u] = pc'[u]
    BY DEF Calm, Returns, GoesOn, Early, First4, Late
  <2> QED
    BY <2>1, <2>2 DEF IInv, WaitsWithMutex
<1>10. OwnBlocks'
  <2>1. \A u \in Threads : pc'[u] \in {"init", "remember"} => word'[Object(u)'] \in Blocks
    BY <1>2, <1>3 DEF IInv, OwnBlocks, Early, First4
  <2>2. \A u \in Threads, m \in Mutexes : holds'[u][m] > 0 => word'[m] \in Blocks
    BY <1>3 DEF IInv, OwnBlocks
  <2>3. \A o \in Objects : word'[o] \in Blocks => real'[word'[o]].type # "free"
    BY <1>3 DEF IInv, OwnBlocks
  <2>4. \A o, p \in Objects : word'[o] = word'[p] /\ word'[o] \in Blocks => o = p
    BY <1>3 DEF IInv, OwnBlocks
  <2> QED
    BY <2>1, <2>2, <2>3, <2>4 DEF OwnBlocks
<1>11. ASSUME NEW o \in Objects \ spoiled PROVE FreshObject(o)'
  <2>1. FreshObject(o)
    BY DEF IInv, Fresh
  <2>2. \A u \in Threads : pc'[u] \in {"init", "remember"} /\ Object(u)' = o <=>
                           pc[u] \in {"init", "remember"} /\ Object(u) = o
    BY <1>2 DEF Early, First4, Object
  <2>3. \A u \in Threads : pc'[u] = "remember" /\ Object(u)' = o => pc[u] = "remember" /\ Object(u) = o
    BY <1>2 DEF Early, First4
  <2> QED
    BY <1>2, <1>3, <1>4, <2>1, <2>2, <2>3 DEF FreshObject
<1>12. ASSUME NEW x \in Mutexes \ spoiled PROVE FreshMutex(x)'
  <2>1. FreshMutex(x) /\ FreshObject(x)
    BY DEF IInv, Fresh
  <2>2. AsAsked(x)'
    BY <1>3, <2>1 DEF FreshMutex, AsAsked
  <2>3. word'[x] \in Kinds => word'[x] = asked'[x] \/ BeingInited(x)'
    <3> SUFFICES ASSUME word[x] \in Kinds, BeingInited(x) PROVE BeingInited(x)'
      BY <1>3, <2>1 DEF FreshMutex
    <3>1. PICK u \in Threads : call[u].op = "init" /\ InCall(u, x)
      BY DEF BeingInited
    <3>2. pc[u] \notin Late
      BY <3>1, LateFacts
    <3>3. call'[u] = call[u]
      BY <3>2 DEF Calm, Returns, GoesOn
    <3> QED
      BY <3>1, <3>3 DEF BeingInited, InCall
  <2>4. \A u \in Threads : pc'[u] \in {"publish", "init"} /\ Object(u)' = x => call'[u].kind = asked'[x]
    BY <1>2, <1>3, <2>1 DEF FreshMutex, Early, First4
  <2>5. ~Registered(x)' => \A u \in Threads : holds'[u][x] = 0
    BY <1>4, <1>7, <2>1 DEF FreshMutex
  <2>6. Usable(x)' => Owned(x)'
    BY <1>4
  <2> QED
    BY <2>2, <2>3, <2>4, <2>5, <2>6 DEF FreshMutex, Owned
<1> QED
  BY <1>3, <1>6, <1>8, <1>9, <1>10, <1>11, <1>12 DEF IInv, Fresh

\* An invariant's conjuncts about one thread that holds or waits.
LEMMA SleepFacts ==
  ASSUME IInv, NEW t \in Threads, pc[t] \in {"waiting", "reacquire"}
  PROVE  /\ call[t].m \in Mutexes /\ call[t].c \in Conds
         /\ call[t].block \in Blocks /\ real[call[t].block].type # "free"
         /\ word[call[t].m] \in Blocks /\ call[t].op = "wait"
         /\ \A o \in Objects \ {call[t].m} : word[o] # call[t].block
         /\ call[t].m \notin spoiled => call[t].block = word[call[t].m]
BY DEF IInv, SleeperBlocks

\* A thread gets the mutex it asked for and returns.
Got(t, m, b) ==
  /\ CanAcquire(t, b) /\ Acquire(t, m, b) /\ Return(t)
  /\ UNCHANGED <<initializedObjects, word, asked, spoiled>>

\* The new owner's depth and count grow together, and no other thread has a count.
LEMMA AcquireKeeps ==
  ASSUME IInv, NEW t \in Threads, NEW m \in Mutexes, NEW b \in Blocks, Got(t, m, b),
         InCall(t, m), call[t].op # "init", pc[t] \in {"act", "reacquire"},
         word[m] \in Blocks, \A o \in Objects \ {m} : word[o] # b,
         m \notin spoiled => b = word[m]
  PROVE  IInv'
<1> USE ConstantFacts
<1>1. Types /\ \A u \in Threads : Todo(u)
  BY DEF IInv
<1>2. /\ real' = [real EXCEPT ![b].owner = t, ![b].depth = @ + 1]
      /\ holds' = [holds EXCEPT ![t][m] = @ + 1]
      /\ pc' = [pc EXCEPT ![t] = "idle"] /\ call' = [call EXCEPT ![t] = NoCall]
      /\ UNCHANGED <<initializedObjects, word, asked, spoiled>>
  BY DEF Got, Acquire, Return, Goto
<1>3. pc[t] \in Late /\ NoCall \in Call
  BY DEF Late, NoCall, Call, Kinds
<1>4. /\ real' \in [Blocks -> Real]
      /\ \A d \in Blocks \ {b} : real'[d] = real[d]
      /\ real'[b].type = real[b].type /\ real'[b].kind = real[b].kind
      /\ real'[b].owner = t /\ real'[b].depth = real[b].depth + 1
      /\ real'[b].waiters = real[b].waiters
  <2>1. real[b] \in Real /\ real \in [Blocks -> Real]
    BY <1>1 DEF Types
  <2>2. PICK owned \in [Blocks -> Real] : owned = [real EXCEPT ![b] = [real[b] EXCEPT !.owner = t]]
    <3>1. [real[b] EXCEPT !.owner = t] \in Real
      BY <2>1 DEF Real
    <3> QED
      BY <2>1, <3>1
  <2>3. owned[b].depth = real[b].depth /\ owned[b] = [real[b] EXCEPT !.owner = t]
    BY <2>1, <2>2 DEF Real
  <2>4. real' = [owned EXCEPT ![b] = [owned[b] EXCEPT !.depth = owned[b].depth + 1]]
    BY <1>2, <2>1, <2>2
  <2>5. [owned[b] EXCEPT !.depth = owned[b].depth + 1] \in Real
    <3>1. PICK r \in Real : r = owned[b]
      BY <2>2
    <3>2. [r EXCEPT !.depth = r.depth + 1] \in Real
      BY DEF Real
    <3> QED
      BY <3>1, <3>2
  <2> QED
    BY <2>1, <2>2, <2>3, <2>4, <2>5 DEF Real
<1>5. /\ holds' \in [Threads -> [Mutexes -> Nat]]
      /\ holds'[t][m] = holds[t][m] + 1 /\ holds[t][m] \in Nat
      /\ \A u \in Threads, x \in Mutexes : u # t \/ x # m => holds'[u][x] = holds[u][x]
  <2>1. holds[t] \in [Mutexes -> Nat]
    BY <1>1 DEF Types
  <2>2. holds' = [holds EXCEPT ![t] = [holds[t] EXCEPT ![m] = holds[t][m] + 1]]
    BY <1>1, <1>2, <2>1 DEF Types
  <2>3. [holds[t] EXCEPT ![m] = holds[t][m] + 1] \in [Mutexes -> Nat]
    BY <2>1
  <2> QED
    BY <1>1, <2>1, <2>2, <2>3 DEF Types
<1>6. /\ pc'[t] = "idle" /\ call'[t] = NoCall
      /\ \A u \in Threads \ {t} : pc'[u] = pc[u] /\ call'[u] = call[u]
      /\ pc' \in [Threads -> {"idle"} \cup Early \cup Late] /\ call' \in [Threads -> Call]
  BY <1>1, <1>2, <1>3 DEF Types
<1>7. Calm
  BY <1>2, <1>3, <1>4, <1>5, <1>6 DEF Calm, Returns
<1>8. m \notin spoiled => Registered(m)
  BY <1>3, LateFacts
<1>9. \A u \in Threads, x \in Mutexes : holds'[u][x] > 0 =>
        \/ holds[u][x] > 0
        \/ /\ InCall(u, x) /\ call[u].op # "init" /\ word[x] \in Blocks
           /\ x \notin spoiled => Registered(x)
  BY <1>5, <1>8
<1>10. \A u \in Threads, x \in Mutexes : holds[u][x] > 0 /\ pc'[u] \in Early \cup {"act"} =>
         holds'[u][x] > 0
  BY <1>5
<1>11. SleeperBlocks'
  BY <1>2, <1>4, <1>6 DEF IInv, SleeperBlocks
<1>12. OneBed'
  BY <1>4, <1>6 DEF IInv, OneBed
<1>13. ASSUME NEW x \in Mutexes \ spoiled, Usable(x) PROVE Owned(x)'
  <2>1. FreshMutex(x) /\ Owned(x) /\ word[x] \in Blocks
    BY <1>13 DEF IInv, Fresh, FreshMutex, Owned, Usable
  <2>2. CASE x # m
    BY <1>2, <1>4, <1>5, <2>1, <2>2 DEF Owned
  <2>3. CASE x = m
    <3>1. real[b].owner = Nobody \/ real[b].owner = t
      BY DEF Got, CanAcquire
    <3>2. \A u \in Threads : holds[u][m] = IF real[b].owner = u THEN real[b].depth ELSE 0
      BY <1>13, <2>1, <2>3 DEF Owned
    <3>3. holds[t][m] = real[b].depth
      BY <1>13, <2>1, <2>3, <3>1, <3>2 DEF Owned
    <3>4. \A u \in Threads \ {t} : holds'[u][m] = 0
      BY <1>5, <3>1, <3>2
    <3> QED
      BY <1>2, <1>4, <1>5, <1>13, <2>3, <3>3, <3>4 DEF Owned
  <2> QED
    BY <2>2, <2>3
<1>14. ASSUME NEW c \in Conds \ spoiled PROVE FreshCond(c)'
  <2> SUFFICES ASSUME NEW u \in Threads, pc'[u] = "waiting", call'[u].c = c
               PROVE  u \in real'[word'[c]].waiters
    BY DEF FreshCond
  <2>1. pc[u] = "waiting" /\ pc[u] \in Late /\ call[u].c = c /\ InCall(u, c)
    BY <1>6 DEF Late, InCall
  <2>2. u \in real[word[c]].waiters /\ word[c] \in Blocks
    BY <2>1, LateFacts DEF IInv, Fresh, FreshCond
  <2> QED
    BY <1>2, <1>4, <2>2
<1> QED
  BY <1>7, <1>9, <1>10, <1>11, <1>12, <1>13, <1>14, CalmKeeps

\* A thread that was woken takes the block it slept with.
LEMMA ReacquireKeeps == ASSUME IInv, NEW t \in Threads, Reacquire(t) PROVE IInv'
<1>1. pc[t] = "reacquire"
  BY DEF Reacquire
<1>2. /\ call[t].m \in Mutexes /\ call[t].block \in Blocks
      /\ word[call[t].m] \in Blocks /\ call[t].op = "wait"
      /\ \A o \in Objects \ {call[t].m} : word[o] # call[t].block
      /\ call[t].m \notin spoiled => call[t].block = word[call[t].m]
  BY <1>1, SleepFacts
<1>3. Got(t, call[t].m, call[t].block)
  BY DEF Reacquire, Got
<1>4. InCall(t, call[t].m)
  BY DEF InCall
<1> QED
  BY <1>1, <1>2, <1>3, <1>4, AcquireKeeps

\* A thread that only returns.
LEMMA ReturnKeeps ==
  ASSUME IInv, NEW t \in Threads, pc[t] = "act", Return(t),
         UNCHANGED <<initializedObjects, word, real, holds, asked, spoiled>>
  PROVE  IInv'
<1> USE ConstantFacts
<1>1. Types
  BY DEF IInv
<1>2. pc[t] \in Late /\ NoCall \in Call
  BY DEF Late, NoCall, Call, Kinds
<1>3. /\ pc'[t] = "idle" /\ call'[t] = NoCall
      /\ \A u \in Threads \ {t} : pc'[u] = pc[u] /\ call'[u] = call[u]
      /\ pc' \in [Threads -> {"idle"} \cup Early \cup Late] /\ call' \in [Threads -> Call]
  BY <1>1, <1>2 DEF Types, Return, Goto
<1>4. Calm
  BY <1>1, <1>2, <1>3 DEF Calm, Returns, Types
<1>5. SleeperBlocks' /\ OneBed'
  BY <1>3 DEF IInv, SleeperBlocks, OneBed
<1>6. ASSUME NEW x \in Mutexes \ spoiled, Usable(x) PROVE Owned(x)'
  BY <1>6 DEF IInv, Fresh, FreshMutex, Owned
<1>7. ASSUME NEW c \in Conds \ spoiled PROVE FreshCond(c)'
  BY <1>3 DEF IInv, Fresh, FreshCond
<1> QED
  BY <1>4, <1>5, <1>6, <1>7, CalmKeeps

\* Locking, or giving up.
LEMMA MutexLockKeeps == ASSUME IInv, NEW t \in Threads, MutexLock(t) PROVE IInv'
<1> USE ConstantFacts
<1>1. pc[t] = "act" /\ call[t].op \in {"lock", "trylock"} /\ Usable(call[t].m) /\ Return(t)
  BY DEF MutexLock
<1>2. call[t].m \in Mutexes /\ word[call[t].m] \in Blocks
  BY <1>1 DEF IInv, WaitsWithMutex, Usable
<1>3. CASE CanAcquire(t, word[call[t].m]) /\ Acquire(t, call[t].m, word[call[t].m])
  <2>1. Got(t, call[t].m, word[call[t].m])
    BY <1>3 DEF MutexLock, Got
  <2>2. \A o \in Objects \ {call[t].m} : word[o] # word[call[t].m]
    BY <1>2 DEF IInv, OwnBlocks
  <2>3. InCall(t, call[t].m)
    BY DEF InCall
  <2> QED
    BY <1>1, <1>2, <2>1, <2>2, <2>3, AcquireKeeps
<1>4. CASE UNCHANGED <<real, holds>>
  BY <1>1, <1>4, ReturnKeeps DEF MutexLock
<1> QED
  BY <1>3, <1>4 DEF MutexLock

\* The end of an init call.
LEMMA InitedKeeps == ASSUME IInv, NEW t \in Threads, Inited(t) PROVE IInv'
BY ReturnKeeps DEF Inited

\* The thread gives up, or nothing is said of what it does.
LEMMA MovedOn ==
  ASSUME IInv, NEW t \in Threads, NEW to \in Late \ {"act"},
         pc[t] \in {"act", "waiting"}, pc' = [pc EXCEPT ![t] = to],
         to = "reacquire" => pc[t] = "waiting", to # "waiting",
         UNCHANGED <<initializedObjects, word, call, holds, asked, spoiled>>,
         real' = [b \in Blocks |-> [real[b] EXCEPT !.waiters = @ \ {t}]]
  PROVE  IInv'
<1> USE ConstantFacts
<1>1. Types
  BY DEF IInv
<1>2. pc[t] \in Late
  BY DEF Late
<1>3. /\ pc'[t] = to /\ \A u \in Threads \ {t} : pc'[u] = pc[u]
      /\ pc' \in [Threads -> {"idle"} \cup Early \cup Late]
  BY <1>1 DEF Types
<1>4. /\ real' \in [Blocks -> Real]
      /\ \A b \in Blocks : /\ real'[b].type = real[b].type /\ real'[b].kind = real[b].kind
                           /\ real'[b].owner = real[b].owner /\ real'[b].depth = real[b].depth
                           /\ real'[b].waiters = real[b].waiters \ {t}
  <2>1. \A b \in Blocks : real[b] \in Real
    BY <1>1 DEF Types
  <2> QED
    BY <2>1 DEF Real
<1>5. Calm
  BY <1>1, <1>2, <1>3, <1>4 DEF Calm, GoesOn, Types
<1>6. SleeperBlocks'
  BY <1>3, <1>4 DEF IInv, SleeperBlocks
<1>7. OneBed'
  BY <1>3, <1>4 DEF IInv, OneBed
<1>8. ASSUME NEW x \in Mutexes \ spoiled, Usable(x) PROVE Owned(x)'
  <2>1. Owned(x) /\ word[x] \in Blocks
    BY <1>8 DEF IInv, Fresh, FreshMutex, Owned, Usable
  <2> QED
    BY <1>4, <2>1 DEF Owned
<1>9. ASSUME NEW c \in Conds \ spoiled PROVE FreshCond(c)'
  <2> SUFFICES ASSUME NEW u \in Threads, pc'[u] = "waiting", call'[u].c = c
               PROVE  u \in real'[word'[c]].waiters
    BY DEF FreshCond
  <2>1. u # t /\ pc[u] = "waiting" /\ pc[u] \in Late /\ call[u].c = c /\ InCall(u, c)
    BY <1>3 DEF Late, InCall
  <2>2. u \in real[word[c]].waiters /\ word[c] \in Blocks
    BY <2>1, LateFacts DEF IInv, Fresh, FreshCond
  <2> QED
    BY <1>4, <2>1, <2>2
<1> QED
  BY <1>5, <1>6, <1>7, <1>8, <1>9, CalmKeeps

\* Giving up waiting.
LEMMA TimedOutKeeps == ASSUME IInv, NEW t \in Threads, TimedOut(t) PROVE IInv'
<1>1. "reacquire" \in Late \ {"act"}
  BY DEF Late
<1> QED
  BY <1>1, MovedOn DEF TimedOut, Goto

\* A thread lost in a broken object.
LEMMA UseBrokenKeeps == ASSUME IInv, NEW t \in Threads, UseBroken(t) PROVE IInv'
<1>1. "stuck" \in Late \ {"act"} /\ pc[t] = "act"
  BY DEF Late, UseBroken
<1>2. real = [b \in Blocks |-> [real[b] EXCEPT !.waiters = @ \ {t}]]
  <2>1. \A b \in Blocks : t \notin real[b].waiters
    BY <1>1 DEF IInv, OneBed
  <2>2. \A b \in Blocks : real[b] \in Real /\ real[b].waiters \ {t} = real[b].waiters
    BY <2>1 DEF IInv, Types
  <2>3. \A b \in Blocks : [real[b] EXCEPT !.waiters = @ \ {t}] = real[b]
    BY <2>2 DEF Real
  <2> QED
    BY <2>3 DEF IInv, Types
<1> QED
  BY <1>1, <1>2, MovedOn DEF UseBroken, Goto

\* Who is woken slept on this condition only, and leaves its waiters.
LEMMA CondSignalKeeps == ASSUME IInv, NEW t \in Threads, CondSignal(t) PROVE IInv'
<1> USE ConstantFacts
<1>1. Types
  BY DEF IInv
<1>2. pc[t] = "act" /\ pc[t] \in Late /\ call[t].c \in Conds /\ NoCall \in Call
  BY DEF CondSignal, IInv, WaitsWithMutex, Late, NoCall, Call, Kinds
<1>3. PICK b \in Blocks : b = word[call[t].c]
  BY DEF CondSignal, Usable
<1>4. PICK woken \in SUBSET real[b].waiters :
        /\ real' = [real EXCEPT ![b].waiters = @ \ woken]
        /\ pc' = [u \in Threads |-> IF u = t THEN "idle"
                                    ELSE IF u \in woken THEN "reacquire" ELSE pc[u]]
  BY <1>3 DEF CondSignal
<1>5. \A u \in woken : u \in Threads /\ pc[u] = "waiting" /\ u # t
  BY <1>1, <1>2 DEF IInv, OneBed, Types, Real
<1>6. /\ UNCHANGED <<initializedObjects, word, holds, asked, spoiled>>
      /\ call' = [call EXCEPT ![t] = NoCall]
  BY DEF CondSignal
<1>7. /\ pc'[t] = "idle" /\ call'[t] = NoCall
      /\ \A u \in Threads \ {t} : call'[u] = call[u]
      /\ \A u \in woken : pc'[u] = "reacquire"
      /\ \A u \in Threads \ {t} : u \in woken \/ pc'[u] = pc[u]
      /\ pc' \in [Threads -> {"idle"} \cup Early \cup Late] /\ call' \in [Threads -> Call]
  BY <1>1, <1>2, <1>4, <1>5, <1>6 DEF Types, Late
<1>8. /\ real' \in [Blocks -> Real]
      /\ \A d \in Blocks : /\ real'[d].type = real[d].type /\ real'[d].kind = real[d].kind
                           /\ real'[d].owner = real[d].owner /\ real'[d].depth = real[d].depth
      /\ real'[b].waiters = real[b].waiters \ woken
      /\ \A d \in Blocks \ {b} : real'[d] = real[d]
  <2>1. real[b] \in Real
    BY <1>1 DEF Types
  <2>2. [real[b] EXCEPT !.waiters = @ \ woken] \in Real
    BY <2>1 DEF Real
  <2>3. real' = [real EXCEPT ![b] = [real[b] EXCEPT !.waiters = @ \ woken]]
    BY <1>1, <1>4 DEF Types
  <2> QED
    BY <1>1, <2>1, <2>2, <2>3 DEF Types, Real
<1>9. Calm
  <2>1. \A u \in Threads : Returns(u) \/ GoesOn(u) \/ (pc'[u] = pc[u] /\ call'[u] = call[u])
    BY <1>2, <1>5, <1>7 DEF Returns, GoesOn, Late
  <2> QED
    BY <1>1, <1>6, <1>7, <1>8, <2>1 DEF Calm, Types
<1>10. SleeperBlocks'
  <2> SUFFICES ASSUME NEW u \in Threads, pc'[u] \in {"waiting", "reacquire"}
               PROVE  /\ call'[u].m \in Mutexes /\ call'[u].c \in Conds
                      /\ call'[u].block \in Blocks /\ real'[call'[u].block].type # "free"
                      /\ word'[call'[u].m] \in Blocks /\ call'[u].op = "wait"
                      /\ \A o \in Objects \ {call'[u].m} : word'[o] # call'[u].block
                      /\ call'[u].m \notin spoiled' => call'[u].block = word'[call'[u].m]
    BY DEF SleeperBlocks
  <2>1. u # t /\ pc[u] \in {"waiting", "reacquire"} /\ call'[u] = call[u]
    BY <1>5, <1>7
  <2> QED
    BY <1>6, <1>8, <2>1, SleepFacts
<1>11. OneBed'
  <2>1. \A u \in Threads, d \in Blocks : u \in real'[d].waiters => u \in real[d].waiters
    BY <1>8
  <2>2. \A u \in Threads, d \in Blocks : u \in real'[d].waiters => u \notin woken /\ u # t
    BY <1>2, <1>4, <1>5, <1>8, <2>1 DEF IInv, OneBed
  <2> QED
    BY <1>7, <2>1, <2>2 DEF IInv, OneBed
<1>12. ASSUME NEW x \in Mutexes \ spoiled, Usable(x) PROVE Owned(x)'
  <2>1. Owned(x) /\ word[x] \in Blocks
    BY <1>12 DEF IInv, Fresh, FreshMutex, Owned, Usable
  <2> QED
    BY <1>6, <1>8, <2>1 DEF Owned
<1>13. ASSUME NEW c \in Conds \ spoiled PROVE FreshCond(c)'
  <2> SUFFICES ASSUME NEW u \in Threads, pc'[u] = "waiting", call'[u].c = c
               PROVE  u \in real'[word'[c]].waiters
    BY DEF FreshCond
  <2>1. /\ u # t /\ u \notin woken /\ pc[u] = "waiting" /\ pc[u] \in Late /\ call[u].c = c
        /\ InCall(u, c)
    BY <1>5, <1>7 DEF Late, InCall
  <2>2. u \in real[word[c]].waiters /\ word[c] \in Blocks
    BY <2>1, LateFacts DEF IInv, Fresh, FreshCond
  <2> QED
    BY <1>6, <1>8, <2>1, <2>2
<1> QED
  BY <1>6, <1>9, <1>10, <1>11, <1>12, <1>13, CalmKeeps

\* The mutex and the thread's count go to zero together, and it sleeps where signals go.
LEMMA CondWaitKeeps == ASSUME IInv, NEW t \in Threads, CondWait(t) PROVE IInv'
<1> USE ConstantFacts
<1>1. Types
  BY DEF IInv
<1>2. /\ pc[t] = "act" /\ pc[t] \in Late /\ "waiting" \in Late \ {"act"} /\ call[t].op = "wait"
      /\ Usable(call[t].m) /\ Usable(call[t].c)
  BY DEF CondWait, Late
<1>3. PICK m \in Mutexes, c \in Conds : m = call[t].m /\ c = call[t].c /\ holds[t][m] > 0
  BY <1>2 DEF IInv, WaitsWithMutex
<1>4. PICK b \in Blocks, w \in Blocks : b = word[m] /\ w = word[c] /\ b # w
  BY <1>2, <1>3 DEF Usable, IInv, OwnBlocks
<1>5. /\ real' = [real EXCEPT ![b].owner = Nobody, ![b].depth = 0, ![w].waiters = @ \cup {t}]
      /\ holds' = [holds EXCEPT ![t][m] = 0]
      /\ call' = [call EXCEPT ![t].block = b] /\ pc' = [pc EXCEPT ![t] = "waiting"]
      /\ UNCHANGED <<initializedObjects, word, asked, spoiled>>
  BY <1>3, <1>4 DEF CondWait, Goto
<1>6. /\ real' \in [Blocks -> Real]
      /\ \A d \in Blocks : real'[d].type = real[d].type /\ real'[d].kind = real[d].kind
      /\ \A d \in Blocks \ {b} : real'[d].owner = real[d].owner /\ real'[d].depth = real[d].depth
      /\ real'[b].owner = Nobody /\ real'[b].depth = 0
      /\ real'[w].waiters = real[w].waiters \cup {t}
      /\ \A d \in Blocks \ {w} : real'[d].waiters = real[d].waiters
  <2>1. real[b] \in Real /\ real[w] \in Real /\ real \in [Blocks -> Real]
    BY <1>1 DEF Types
  <2>2. PICK r \in Real : r = [real[b] EXCEPT !.owner = Nobody, !.depth = 0]
    BY <2>1 DEF Real
  <2>3. PICK s \in Real : s = [real[w] EXCEPT !.waiters = @ \cup {t}]
    BY <2>1 DEF Real
  <2>4. real' = [real EXCEPT ![b] = r, ![w] = s]
    BY <1>4, <1>5, <2>1, <2>2, <2>3
  <2>5. /\ r.owner = Nobody /\ r.depth = 0 /\ r.type = real[b].type /\ r.kind = real[b].kind
        /\ r.waiters = real[b].waiters
    BY <2>1, <2>2 DEF Real
  <2>6. /\ s.owner = real[w].owner /\ s.depth = real[w].depth /\ s.type = real[w].type
        /\ s.kind = real[w].kind /\ s.waiters = real[w].waiters \cup {t}
    BY <2>1, <2>3 DEF Real
  <2>7. /\ real' \in [Blocks -> Real] /\ real'[b] = r /\ real'[w] = s
        /\ \A d \in Blocks \ {b, w} : real'[d] = real[d]
    BY <1>4, <2>1, <2>4
  <2> QED
    BY <1>4, <2>5, <2>6, <2>7
<1>7. /\ holds' \in [Threads -> [Mutexes -> Nat]] /\ holds'[t][m] = 0
      /\ \A u \in Threads, x \in Mutexes : u # t \/ x # m => holds'[u][x] = holds[u][x]
  BY <1>1, <1>5 DEF Types
<1>8. /\ pc'[t] = "waiting" /\ call'[t].block = b
      /\ call'[t].op = call[t].op /\ call'[t].m = call[t].m /\ call'[t].c = call[t].c
      /\ call'[t].todo = call[t].todo /\ call'[t].kind = call[t].kind
      /\ \A u \in Threads \ {t} : pc'[u] = pc[u] /\ call'[u] = call[u]
      /\ pc' \in [Threads -> {"idle"} \cup Early \cup Late] /\ call' \in [Threads -> Call]
  <2>1. call[t] \in Call
    BY <1>1 DEF Types
  <2>2. [call[t] EXCEPT !.block = b] \in Call
    BY <2>1 DEF Call
  <2>3. call' = [call EXCEPT ![t] = [call[t] EXCEPT !.block = b]]
    BY <1>1, <1>5 DEF Types
  <2> QED
    BY <1>1, <1>2, <1>5, <2>1, <2>2, <2>3 DEF Types, Call
<1>9. Calm
  BY <1>2, <1>5, <1>6, <1>7, <1>8 DEF Calm, GoesOn
<1>10. \A u \in Threads, x \in Mutexes :
         holds[u][x] > 0 /\ pc'[u] \in Early \cup {"act"} => holds'[u][x] > 0
  BY <1>7, <1>8 DEF Early, First4
<1>11. SleeperBlocks'
  <2> SUFFICES ASSUME NEW u \in Threads, pc'[u] \in {"waiting", "reacquire"}
               PROVE  /\ call'[u].m \in Mutexes /\ call'[u].c \in Conds
                      /\ call'[u].block \in Blocks /\ real'[call'[u].block].type # "free"
                      /\ word'[call'[u].m] \in Blocks /\ call'[u].op = "wait"
                      /\ \A o \in Objects \ {call'[u].m} : word'[o] # call'[u].block
                      /\ call'[u].m \notin spoiled' => call'[u].block = word'[call'[u].m]
    BY DEF SleeperBlocks
  <2>1. CASE u = t
    <3>1. real[b].type # "free" /\ \A o \in Objects \ {m} : word[o] # b
      BY <1>4 DEF IInv, OwnBlocks
    <3>2. /\ call'[u].m = m /\ call'[u].c = c /\ call'[u].op = "wait" /\ call'[u].block = b
          /\ word'[m] = b /\ real'[b].type # "free"
      BY <1>2, <1>3, <1>4, <1>5, <1>6, <1>8, <2>1, <3>1
    <3> QED
      BY <1>5, <3>1, <3>2
  <2>2. CASE u # t
    BY <1>5, <1>6, <1>8, <2>2, SleepFacts
  <2> QED
    BY <2>1, <2>2
<1>12. OneBed'
  BY <1>2, <1>4, <1>6, <1>8 DEF IInv, OneBed
<1>13. ASSUME NEW x \in Mutexes \ spoiled, Usable(x) PROVE Owned(x)'
  <2>1. Owned(x) /\ word[x] \in Blocks
    BY <1>13 DEF IInv, Fresh, FreshMutex, Owned, Usable
  <2>2. CASE x # m
    <3>1. word[x] # b
      BY <1>4, <2>1, <2>2 DEF IInv, OwnBlocks
    <3> QED
      BY <1>5, <1>6, <1>7, <2>1, <2>2, <3>1 DEF Owned
  <2>3. CASE x = m
    <3>1. \A u \in Threads : holds[u][m] = IF real[b].owner = u THEN real[b].depth ELSE 0
      BY <1>4, <2>1, <2>3 DEF Owned
    <3>2. \A u \in Threads \ {t} : holds[u][m] = 0
      BY <1>3, <3>1
    <3>3. \A u \in Threads : holds'[u][m] = 0
      BY <1>7, <3>2
    <3> QED
      BY <1>4, <1>5, <1>6, <2>3, <3>3 DEF Owned
  <2> QED
    BY <2>2, <2>3
<1>14. ASSUME NEW x \in Conds \ spoiled PROVE FreshCond(x)'
  <2> SUFFICES ASSUME NEW u \in Threads, pc'[u] = "waiting", call'[u].c = x
               PROVE  u \in real'[word'[x]].waiters
    BY DEF FreshCond
  <2>1. CASE u = t
    BY <1>3, <1>4, <1>5, <1>6, <1>8, <2>1
  <2>2. CASE u # t
    <3>1. pc[u] = "waiting" /\ pc[u] \in Late /\ call[u].c = x /\ InCall(u, x)
      BY <1>8, <2>2 DEF Late, InCall
    <3>2. u \in real[word[x]].waiters /\ word[x] \in Blocks
      BY <3>1, LateFacts DEF IInv, Fresh, FreshCond
    <3> QED
      BY <1>5, <1>6, <3>2
  <2> QED
    BY <2>1, <2>2
<1>15. \A u \in Threads, x \in Mutexes : holds'[u][x] > 0 => holds[u][x] > 0
  BY <1>7
<1> QED
  BY <1>5, <1>9, <1>10, <1>11, <1>12, <1>13, <1>14, <1>15, CalmKeeps

\* Only the owner of a mutex that is not spoiled believes to have it.
LEMMA MutexUnlockKeeps ==
  ASSUME IInv, NEW t \in Threads, NEW m \in Mutexes, MutexUnlock(t, m) PROVE IInv'
<1> USE ConstantFacts
<1>1. Types
  BY DEF IInv
<1>2. pc[t] = "idle" /\ holds[t][m] > 0 /\ pc[t] \notin Early \cup {"act", "waiting"}
  BY DEF MutexUnlock, Early, First4
<1>3. PICK b \in Blocks : b = word[m]
  BY <1>2 DEF IInv, OwnBlocks
<1>4. PICK r \in Real :
        /\ real' = [real EXCEPT ![b] = r]
        /\ r.type = real[b].type /\ r.kind = real[b].kind /\ r.waiters = real[b].waiters
        /\ \/ r.owner = real[b].owner /\ r.depth = real[b].depth /\ real[b].owner # t
           \/ r.owner = real[b].owner /\ r.depth = real[b].depth - 1 /\ real[b].depth > 1
           \/ r.owner = Nobody /\ r.depth = 0 /\ ~(real[b].depth > 1)
  <2>1. real[b] \in Real /\ real \in [Blocks -> Real]
    BY <1>1 DEF Types
  <2>2. CASE real[b].owner # t /\ real[b].kind # "normal"
    <3>1. real' = real
      BY <1>3, <2>2 DEF MutexUnlock
    <3>2. real' = [real EXCEPT ![b] = real[b]]
      BY <2>1, <3>1
    <3> QED
      BY <2>1, <2>2, <3>2
  <2>3. CASE ~(real[b].owner # t /\ real[b].kind # "normal") /\ real[b].depth > 1
    <3>1. real' = [real EXCEPT ![b].depth = @ - 1]
      BY <1>3, <2>3 DEF MutexUnlock
    <3>2. PICK r \in Real : r = [real[b] EXCEPT !.depth = real[b].depth - 1]
      <4>1. PICK n \in Nat : n = real[b].depth - 1
        BY <2>1, <2>3 DEF Real
      <4>2. [real[b] EXCEPT !.depth = n] \in Real
        BY <2>1 DEF Real
      <4> QED
        BY <4>1, <4>2
    <3>3. real' = [real EXCEPT ![b] = r]
      BY <2>1, <3>1, <3>2
    <3>4. /\ r.type = real[b].type /\ r.kind = real[b].kind /\ r.waiters = real[b].waiters
          /\ r.owner = real[b].owner /\ r.depth = real[b].depth - 1
      BY <2>1, <3>2 DEF Real
    <3> QED
      BY <2>3, <3>3, <3>4
  <2>4. CASE ~(real[b].owner # t /\ real[b].kind # "normal") /\ ~(real[b].depth > 1)
    <3>1. real' = [real EXCEPT ![b].owner = Nobody, ![b].depth = 0]
      BY <1>3, <2>4 DEF MutexUnlock
    <3>2. PICK r \in Real : r = [real[b] EXCEPT !.owner = Nobody, !.depth = 0]
      BY <2>1 DEF Real
    <3>3. real' = [real EXCEPT ![b] = r]
      BY <2>1, <3>1, <3>2
    <3>4. /\ r.type = real[b].type /\ r.kind = real[b].kind /\ r.waiters = real[b].waiters
          /\ r.owner = Nobody /\ r.depth = 0
      BY <2>1, <3>2 DEF Real
    <3> QED
      BY <2>4, <3>3, <3>4
  <2> QED
    BY <2>2, <2>3, <2>4
<1>5. /\ real' \in [Blocks -> Real] /\ real'[b] = r /\ \A d \in Blocks \ {b} : real'[d] = real[d]
  BY <1>1, <1>4 DEF Types
<1>6. UNCHANGED <<initializedObjects, word, pc, call, asked, spoiled>>
  BY DEF MutexUnlock
<1>7. /\ holds' \in [Threads -> [Mutexes -> Nat]]
      /\ holds'[t][m] = holds[t][m] - 1 /\ holds[t][m] \in Nat
      /\ \A u \in Threads, x \in Mutexes : u # t \/ x # m => holds'[u][x] = holds[u][x]
  <2>1. PICK h \in [Mutexes -> Nat] : h = [holds[t] EXCEPT ![m] = holds[t][m] - 1]
    <3>1. PICK g \in [Mutexes -> Nat] : g = holds[t]
      BY <1>1 DEF Types
    <3>2. PICK n \in Nat : n = g[m] - 1
      BY <1>2, <3>1
    <3>3. [g EXCEPT ![m] = n] \in [Mutexes -> Nat]
      OBVIOUS
    <3> QED
      BY <3>1, <3>2, <3>3
  <2>2. holds' = [holds EXCEPT ![t] = h] /\ holds[t] \in [Mutexes -> Nat]
    BY <1>1, <2>1 DEF MutexUnlock, Types
  <2> QED
    BY <1>1, <2>1, <2>2 DEF Types
<1>8. Calm
  BY <1>1, <1>4, <1>5, <1>6, <1>7 DEF Calm, Types
<1>9. SleeperBlocks'
  BY <1>4, <1>5, <1>6 DEF IInv, SleeperBlocks
<1>10. OneBed'
  BY <1>4, <1>5, <1>6 DEF IInv, OneBed
<1>11. ASSUME NEW x \in Mutexes \ spoiled, Usable(x) PROVE Owned(x)'
  <2>1. Owned(x) /\ word[x] \in Blocks
    BY <1>11 DEF IInv, Fresh, FreshMutex, Owned, Usable
  <2>2. CASE x # m
    <3>1. word[x] # b
      BY <1>3, <2>1, <2>2 DEF IInv, OwnBlocks
    <3> QED
      BY <1>5, <1>6, <1>7, <2>1, <2>2, <3>1 DEF Owned
  <2>3. CASE x = m
    <3>1. \A u \in Threads : holds[u][m] = IF real[b].owner = u THEN real[b].depth ELSE 0
      BY <1>3, <2>1, <2>3 DEF Owned
    <3>2. real[b].owner = t /\ holds[t][m] = real[b].depth
      BY <1>2, <3>1
    <3>3. \A u \in Threads \ {t} : holds'[u][m] = 0
      BY <1>7, <3>1, <3>2
    <3> QED
      BY <1>2, <1>3, <1>4, <1>5, <1>6, <1>7, <2>3, <3>2, <3>3 DEF Owned
  <2> QED
    BY <2>2, <2>3
<1>12. ASSUME NEW c \in Conds \ spoiled PROVE FreshCond(c)'
  <2> SUFFICES ASSUME NEW u \in Threads, pc[u] = "waiting", call[u].c = c
               PROVE  u \in real'[word[c]].waiters
    BY <1>6 DEF FreshCond
  <2>1. pc[u] \in Late /\ InCall(u, c)
    BY DEF Late, InCall
  <2>2. u \in real[word[c]].waiters /\ word[c] \in Blocks
    BY <2>1, LateFacts DEF IInv, Fresh, FreshCond
  <2> QED
    BY <1>4, <1>5, <2>2
<1>13. \A u \in Threads, x \in Mutexes : holds'[u][x] > 0 => holds[u][x] > 0
  BY <1>7
<1>14. \A u \in Threads, x \in Mutexes :
         holds[u][x] > 0 /\ pc'[u] \in Early \cup {"act"} => holds'[u][x] > 0
  BY <1>2, <1>6, <1>7
<1> QED
  BY <1>6, <1>8, <1>9, <1>10, <1>11, <1>12, <1>13, <1>14, CalmKeeps

\* The registry again: the object's slot is empty, and nothing else changes.
LEMMA ForgottenFacts ==
  ASSUME Types, NEW o \in Objects
  PROVE  /\ Forgotten(o) \in [Slots -> Objects \cup {NoObject, Other}]
         /\ \A p \in Objects \ {o} : \A i \in Slots :
              Forgotten(o)[i] = p <=> initializedObjects[i] = p
         /\ (\A i, j \in Slots : initializedObjects[i] = o /\ initializedObjects[j] = o => i = j) =>
               \A i \in Slots : Forgotten(o)[i] # o
<1> USE ConstantFacts DEF Types
<1>1. PICK at \in SUBSET Slots : at = {i \in Slots : initializedObjects[i] = o}
  OBVIOUS
<1>2. CASE at = {}
  <2>1. Forgotten(o) = initializedObjects
    BY <1>1, <1>2 DEF Forgotten
  <2> QED
    BY <1>1, <1>2, <2>1
<1>3. CASE at # {}
  <2>1. PICK k \in at : k = First(at)
    BY <1>3, FirstIsIn
  <2>2. Forgotten(o) = [initializedObjects EXCEPT ![k] = NoObject]
    BY <1>1, <1>3, <2>1 DEF Forgotten
  <2> QED
    BY <1>1, <2>1, <2>2
<1> QED
  BY <1>2, <1>3

\* Nobody is in a call for the object, and the registry forgets the one slot it has.
LEMMA DestroyKeeps ==
  ASSUME IInv, NEW t \in Threads, NEW o \in Objects, Destroy(t, o),
         o \in Mutexes => \A u \in Threads : holds[u][o] = 0
  PROVE  IInv'
<1> USE ConstantFacts
<1>1. Types /\ \A u \in Threads : Todo(u)
  BY DEF IInv
<1>2. /\ \A u \in Threads : ~InCall(u, o)
      /\ initializedObjects' = Forgotten(o)
      /\ UNCHANGED <<pc, call, holds, spoiled>>
  BY DEF Destroy
<1>3. PICK b \in Blocks : b = word[o]
  BY DEF Destroy
<1>4. "normal" \in Kinds /\ "normal" \notin Blocks /\ Blank("free", "normal") \in Real
  BY DEF Kinds, Blank, Real
<1>5. PICK free \in Real : free = Blank("free", "normal") /\ free.type = "free" /\ free.waiters = {}
  BY <1>4 DEF Blank
<1>6. /\ real' \in [Blocks -> Real] /\ real'[b] = free /\ \A d \in Blocks \ {b} : real'[d] = real[d]
      /\ word' \in [Objects -> Kinds \cup Blocks]
      /\ word'[o] = "normal" /\ \A p \in Objects \ {o} : word'[p] = word[p] /\ word[p] # b
      /\ asked' \in [Objects -> Kinds]
      /\ asked'[o] = "normal" /\ \A p \in Objects \ {o} : asked'[p] = asked[p]
  BY <1>1, <1>3, <1>4, <1>5 DEF Destroy, Types, IInv, OwnBlocks
<1>7. /\ initializedObjects' \in [Slots -> Objects \cup {NoObject, Other}]
      /\ \A p \in Objects \ {o} : \A i \in Slots :
           initializedObjects'[i] = p <=> initializedObjects[i] = p
      /\ o \notin spoiled => \A i \in Slots : initializedObjects'[i] # o
  BY <1>1, <1>2, ForgottenFacts DEF IInv, Fresh, FreshObject
<1>8. \A p \in Objects \ {o} : (Registered(p)' <=> Registered(p)) /\ (Usable(p)' <=> Usable(p))
  BY <1>6, <1>7 DEF Registered, Usable
<1>9. \A u \in Threads :
        /\ Todo(u)' /\ Object(u)' = Object(u)
        /\ \A p \in Objects : /\ InCall(u, p)' <=> InCall(u, p)
                              /\ Done(u, p)' <=> Done(u, p)
                              /\ Initialising(u, p)' <=> Initialising(u, p)
  BY <1>1, <1>2, SameThread
<1>10. \A u \in Threads : pc[u] \in Early => Object(u) # o /\ Object(u) \in Objects
  BY <1>1, <1>2, ObjectFacts
<1>11. \A u \in Threads : call[u].m # o /\ call[u].c # o
  BY <1>2 DEF InCall
<1>12. Types' /\ \A u \in Threads : Todo(u)'
  BY <1>1, <1>2, <1>6, <1>7, <1>9 DEF Types
<1>13. InitAlone'
  BY <1>2, <1>6, <1>9 DEF IInv, InitAlone
<1>14. WaitsWithMutex'
  BY <1>2 DEF IInv, WaitsWithMutex
<1>15. OwnBlocks'
  <2>1. \A p \in Objects : word'[p] \in Blocks => real'[word'[p]].type # "free"
    BY <1>4, <1>6 DEF IInv, OwnBlocks
  <2>2. \A p, q \in Objects : word'[p] = word'[q] /\ word'[p] \in Blocks => p = q
    BY <1>4, <1>6 DEF IInv, OwnBlocks
  <2>3. \A u \in Threads : pc'[u] \in {"init", "remember"} => word'[Object(u)'] \in Blocks
    BY <1>2, <1>6, <1>9, <1>10 DEF IInv, OwnBlocks, Early, First4
  <2>4. \A u \in Threads, m \in Mutexes : holds'[u][m] > 0 => word'[m] \in Blocks
    BY <1>2, <1>6 DEF IInv, OwnBlocks
  <2> QED
    BY <2>1, <2>2, <2>3, <2>4 DEF OwnBlocks
<1>16. SleeperBlocks'
  <2> SUFFICES ASSUME NEW u \in Threads, pc[u] \in {"waiting", "reacquire"}
               PROVE  /\ call[u].m \in Mutexes /\ call[u].c \in Conds
                      /\ call[u].block \in Blocks /\ real'[call[u].block].type # "free"
                      /\ word'[call[u].m] \in Blocks /\ call[u].op = "wait"
                      /\ \A p \in Objects \ {call[u].m} : word'[p] # call[u].block
                      /\ call[u].m \notin spoiled => call[u].block = word'[call[u].m]
    BY <1>2 DEF SleeperBlocks
  <2>1. /\ call[u].m \in Mutexes /\ call[u].c \in Conds
        /\ call[u].block \in Blocks /\ real[call[u].block].type # "free"
        /\ word[call[u].m] \in Blocks /\ call[u].op = "wait"
        /\ \A p \in Objects \ {call[u].m} : word[p] # call[u].block
        /\ call[u].m \notin spoiled => call[u].block = word[call[u].m]
    BY SleepFacts
  <2>2. call[u].block # b
    BY <1>3, <1>11, <2>1
  <2> QED
    BY <1>4, <1>6, <1>11, <2>1, <2>2
<1>17. OneBed'
  BY <1>2, <1>5, <1>6 DEF IInv, OneBed
<1>18. ASSUME NEW p \in Objects \ spoiled PROVE FreshObject(p)'
  <2>1. FreshObject(p)
    BY DEF IInv, Fresh
  <2>2. CASE p # o
    BY <1>2, <1>6, <1>7, <1>8, <1>9, <2>1, <2>2 DEF FreshObject
  <2>3. CASE p = o
    <3>1. ~Registered(p)' /\ word'[p] \notin Blocks
      BY <1>4, <1>6, <1>7, <2>3 DEF Registered
    <3>2. \A u \in Threads : ~Done(u, p)'
      BY <1>2, <1>9, <2>3 DEF Done
    <3>3. \A u \in Threads : ~Initialising(u, p)'
      BY <1>2, <1>9, <2>3, InitialisingFacts
    <3>4. \A u \in Threads : ~(pc'[u] = "remember" /\ Object(u)' = p)
      BY <3>3 DEF Initialising
    <3> QED
      BY <1>7, <2>3, <3>1, <3>2, <3>3, <3>4 DEF FreshObject
  <2> QED
    BY <2>2, <2>3
<1>19. ASSUME NEW x \in Mutexes \ spoiled PROVE FreshMutex(x)'
  <2>1. FreshMutex(x)
    BY DEF IInv, Fresh
  <2>2. BeingInited(x)' <=> BeingInited(x)
    BY <1>2, <1>9 DEF BeingInited
  <2>3. CASE x # o
    <3>1. word'[x] = word[x] /\ (word[x] \in Blocks => real'[word[x]] = real[word[x]])
      BY <1>6, <2>3
    <3> QED
      BY <1>2, <1>6, <1>8, <1>9, <2>1, <2>2, <2>3, <3>1 DEF FreshMutex, AsAsked, Usable
  <2>4. CASE x = o
    <3>1. word'[x] = "normal" /\ asked'[x] = "normal" /\ word'[x] \notin Blocks
      BY <1>4, <1>6, <2>4
    <3>2. \A u \in Threads : ~(pc'[u] \in {"publish", "init"} /\ Object(u)' = x)
      BY <1>2, <1>9, <1>10, <2>4 DEF Early, First4
    <3>3. \A u \in Threads : holds'[u][x] = 0
      BY <1>2, <2>4
    <3> QED
      BY <3>1, <3>2, <3>3 DEF FreshMutex, AsAsked, Usable
  <2> QED
    BY <2>3, <2>4
<1>20. ASSUME NEW c \in Conds \ spoiled PROVE FreshCond(c)'
  <2> SUFFICES ASSUME NEW u \in Threads, pc[u] = "waiting", call[u].c = c
               PROVE  u \in real'[word'[c]].waiters
    BY <1>2 DEF FreshCond
  <2>1. pc[u] \in Late /\ InCall(u, c) /\ c # o
    BY <1>11 DEF Late, InCall
  <2>2. u \in real[word[c]].waiters /\ word[c] \in Blocks
    BY <2>1, LateFacts DEF IInv, Fresh, FreshCond
  <2> QED
    BY <1>6, <2>1, <2>2
<1> QED
  BY <1>2, <1>12, <1>13, <1>14, <1>15, <1>16, <1>17, <1>18, <1>19, <1>20 DEF IInv, Fresh

-----------------------------------------------------------------------------
(* The invariant is inductive *)

\* The invariant holds at first.
LEMMA InitHolds == Init => IInv
<1> SUFFICES ASSUME Init PROVE IInv
  OBVIOUS
<1> USE ConstantFacts
<1>1. /\ word = Static /\ asked = Static /\ spoiled = {}
      /\ real = [b \in Blocks |-> Blank("free", "normal")]
      /\ pc = [t \in Threads |-> "idle"] /\ call = [t \in Threads |-> NoCall]
      /\ holds = [t \in Threads |-> [m \in Mutexes |-> 0]]
      /\ initializedObjects \in [Slots -> {NoObject, Other}]
  BY DEF Init
<1>2. Static \in [Objects -> Kinds] /\ \A o \in Objects : word[o] \in Kinds /\ word[o] \notin Blocks
  BY <1>1, PthrAssumption
<1>3. Blank("free", "normal") \in Real /\ NoCall \in Call
      /\ \A b \in Blocks : real[b].waiters = {} /\ real[b].type = "free"
  BY <1>1 DEF Blank, Real, NoCall, Call, Kinds
<1>4. \A t \in Threads : /\ pc[t] = "idle" /\ call[t] = NoCall /\ call[t].op = "none"
                         /\ pc[t] \notin Early \cup Late \cup First4
  BY <1>1 DEF NoCall, Early, Late, First4
<1>5. Types /\ \A t \in Threads : Todo(t)
  BY <1>1, <1>2, <1>3, <1>4 DEF Types, Todo
<1>6. InitAlone /\ WaitsWithMutex
  BY <1>4 DEF InitAlone, WaitsWithMutex
<1>7. OwnBlocks /\ SleeperBlocks /\ OneBed
  BY <1>1, <1>2, <1>3, <1>4 DEF OwnBlocks, SleeperBlocks, OneBed
<1>8. \A o \in Objects : ~Registered(o)
  BY <1>1 DEF Registered
<1>9. ASSUME NEW o \in Objects PROVE FreshObject(o)
  BY <1>1, <1>2, <1>4, <1>8, <1>9 DEF FreshObject, Registered, Done, Initialising
<1>10. ASSUME NEW x \in Mutexes PROVE FreshMutex(x)
  BY <1>1, <1>2, <1>4, <1>8 DEF FreshMutex, AsAsked, Usable
<1>11. ASSUME NEW c \in Conds PROVE FreshCond(c)
  BY <1>4 DEF FreshCond
<1> QED
  BY <1>5, <1>6, <1>7, <1>9, <1>10, <1>11 DEF IInv, Fresh

\* Every step keeps it.
LEMMA StepKeeps == IInv /\ [Next]_vars => IInv'
<1> SUFFICES ASSUME IInv, [Next]_vars PROVE IInv'
  OBVIOUS
<1> USE ConstantFacts
<1>1. CASE UNCHANGED vars
  <2>1. UNCHANGED <<initializedObjects, word, real, pc, call, holds, asked, spoiled>>
    BY <1>1 DEF vars
  <2>2. \A t \in Threads : /\ Todo(t)' <=> Todo(t)
                           /\ \A o \in Objects : (Done(t, o)' <=> Done(t, o))
    BY <2>1 DEF Todo, Done, Pending, InCall
  <2>3. Types' /\ InitAlone' /\ WaitsWithMutex' /\ OwnBlocks' /\ SleeperBlocks' /\ OneBed'
    BY <2>1 DEF IInv, Types, InitAlone, WaitsWithMutex, OwnBlocks, SleeperBlocks, OneBed, InCall,
                Object
  <2>4. Fresh'
    BY <2>1, <2>2 DEF IInv, Fresh, FreshObject, FreshMutex, FreshCond, Registered, Usable,
                      Initialising, Object, AsAsked, BeingInited, InCall
  <2> QED
    BY <2>2, <2>3, <2>4 DEF IInv
<1>2. ASSUME NEW t \in Threads, Calls(t) PROVE IInv'
  <2>1. CASE \/ \E m \in Mutexes, kind \in Kinds : CallMutexInit(t, m, kind)
             \/ \E c \in Conds : CallCondInit(t, c)
             \/ \E m \in Mutexes, op \in {"lock", "trylock"} : CallMutexLock(t, m, op)
             \/ \E c \in Conds, op \in {"signal", "broadcast"} : CallCondSignal(t, c, op)
             \/ \E c \in Conds, m \in Mutexes : CallCondWait(t, c, m)
    BY <2>1, CallsKeep
  <2>2. CASE \E c \in Conds : CondDestroy(t, c)
    <3>1. PICK c \in Conds : Destroy(t, c)
      BY <2>2 DEF CondDestroy
    <3>2. c \in Objects /\ c \notin Mutexes
      OBVIOUS
    <3> QED
      BY <3>1, <3>2, DestroyKeeps
  <2>3. CASE \E m \in Mutexes : MutexDestroy(t, m)
    <3>1. PICK m \in Mutexes : Destroy(t, m) /\ \A u \in Threads : holds[u][m] = 0
      BY <2>3 DEF MutexDestroy
    <3> QED
      BY <3>1, DestroyKeeps
  <2>4. CASE \E m \in Mutexes : MutexUnlock(t, m)
    BY <2>4, MutexUnlockKeeps
  <2> QED
    BY <1>2, <2>1, <2>2, <2>3, <2>4 DEF Calls
<1>3. ASSUME NEW t \in Threads, FirstUse(t) PROVE IInv'
  BY <1>3, CheckKeeps, ReadKindKeeps, PublishKeeps, InitRealKeeps, RememberKeeps DEF FirstUse
<1>4. ASSUME NEW t \in Threads, Acts(t) PROVE IInv'
  BY <1>4, MutexLockKeeps, InitedKeeps, CondSignalKeeps, CondWaitKeeps, TimedOutKeeps,
     ReacquireKeeps, UseBrokenKeeps DEF Acts
<1> QED
  BY <1>1, <1>2, <1>3, <1>4 DEF Next

\* So it always holds.
LEMMA Inductive == Spec => []IInv
<1> QED
  BY InitHolds, StepKeeps, PTL DEF Spec

-----------------------------------------------------------------------------
(* The theorems *)

\* A mutex whose first use was not raced and that the registry had room for
\* keeps threads apart, for any number of threads and objects: when two hold it,
\* both counts are the depth of the one owner its real object has.
THEOREM MutexesExclude == Spec => []Exclusion
<1>1. IInv => Exclusion
  <2> SUFFICES ASSUME IInv, NEW m \in Mutexes \ spoiled, NEW t \in Threads, NEW u \in Threads,
                      holds[t][m] > 0, holds[u][m] > 0
               PROVE  t = u
    BY DEF Exclusion
  <2>1. FreshMutex(m) /\ FreshObject(m)
    BY ConstantFacts DEF IInv, Fresh
  <2>2. Registered(m)
    BY <2>1 DEF FreshMutex
  <2>3. Usable(m)
    BY <2>1, <2>2 DEF FreshObject
  <2>4. \A v \in Threads :
          holds[v][m] = IF real[word[m]].owner = v THEN real[word[m]].depth ELSE 0
    BY <2>1, <2>3 DEF FreshMutex
  <2>5. real[word[m]].owner = t /\ real[word[m]].owner = u
    BY <2>4
  <2> QED
    BY <2>5
<1> QED
  BY <1>1, Inductive, PTL

\* Whoever sleeps on a condition that is not spoiled sleeps on the real object
\* that the first word of the condition names, where every signal goes: no
\* initialisation puts another one there while somebody waits.
THEOREM SignalsAlwaysReachWaiters == Spec => []SignalsReachWaiters
<1>1. IInv => SignalsReachWaiters
  <2> SUFFICES ASSUME IInv, NEW t \in Threads, pc[t] = "waiting", call[t].c \notin spoiled
               PROVE  t \in real[word[call[t].c]].waiters
    BY DEF SignalsReachWaiters
  <2>1. call[t].c \in Conds \ spoiled
    BY SleepFacts
  <2> QED
    BY <2>1 DEF IInv, Fresh, FreshCond
<1> QED
  BY <1>1, Inductive, PTL

\* Who finds its object in the registry can use it, and the mutex it finds is of
\* the kind its static initialiser or attribute asked for.
THEOREM RegisteredIsAlwaysUsable == Spec => []RegisteredIsUsable
<1>1. IInv => RegisteredIsUsable
  BY ConstantFacts DEF IInv, Fresh, FreshObject, FreshMutex, RegisteredIsUsable
<1> QED
  BY <1>1, Inductive, PTL
=====
