----------------------------- MODULE GameProofs -----------------------------
(***************************************************************************)
(* The hooks of the game, the linking of its libraries and the loader of a *)
(* world, for any worlds, libraries and memory.  Each has an inductive     *)
(* invariant: HookInv says what each thread is in and what the first words *)
(* of each hooked function are, LoadInv what the places that are called    *)
(* through hold, RoomInv where the libraries are, WorldInv how far the     *)
(* textures of a world are created and DecodedInv what was decoded last.   *)
(***************************************************************************)
EXTENDS Game, SequenceTheorems, FiniteSetTheorems, WellFoundedInduction, TLAPS

-----------------------------------------------------------------------------
(* Numbers *)

\* A set of numbers has a least one.
LEMMA LeastNumber ==
  ASSUME NEW S \in SUBSET Nat, S # {}
  PROVE  Min(S) \in S /\ \A n \in S : Min(S) <= n
<1>1. \E x \in S : \A y \in S : ~ (<<y, x>> \in OpToRel(<, Nat))
  BY NatLessThanWellFounded, WFMin
<1>2. PICK x \in S : \A y \in S : ~ (y < x)
  BY <1>1 DEF OpToRel
<1>3. \A y \in S : x <= y
  BY <1>2
<1> QED
  BY <1>3 DEF Min

LEMMA FirstIsLeast ==
  ASSUME NEW S \in SUBSET Nat, S # {}
  PROVE  First(S) \in S /\ \A n \in S : First(S) <= n
<1>1. PICK x \in S : \A y \in S : x <= y
  BY LeastNumber
<1> QED
  BY <1>1 DEF First

\* A finite set of numbers has a greatest one, its smallest upper bound.
LEMMA GreatestNumber ==
  ASSUME NEW n \in Nat, NEW S \in SUBSET (0 .. n), S # {}
  PROVE  Max(S) \in S /\ \A y \in S : y <= Max(S)
<1> DEFINE Bounds == {k \in Nat : \A y \in S : y <= k}
<1>1. Bounds \in SUBSET Nat /\ n \in Bounds
  OBVIOUS
<1>2. Min(Bounds) \in Bounds /\ \A k \in Bounds : Min(Bounds) <= k
  BY <1>1, LeastNumber
<1>3. \A y \in S : y <= Min(Bounds)
  BY <1>2
<1>4. Min(Bounds) \in S
  <2> SUFFICES ASSUME Min(Bounds) \notin S PROVE FALSE
    OBVIOUS
  <2>1. \A y \in S : y <= Min(Bounds) - 1
    <3> TAKE y \in S
    <3>1. y <= Min(Bounds) /\ y # Min(Bounds) /\ y \in Nat /\ Min(Bounds) \in Nat
      BY <1>2, <1>3
    <3> HIDE DEF Bounds
    <3> QED
      BY <3>1
  <2>2. Min(Bounds) - 1 \in Nat
    <3>1. PICK y \in S : y \in 0 .. n
      <4>1. \E y \in S : TRUE
        OBVIOUS
      <4> QED
        BY <4>1
    <3>2. y <= Min(Bounds) - 1 /\ Min(Bounds) \in Nat
      BY <2>1, <1>2
    <3> HIDE DEF Bounds
    <3> QED
      BY <3>1, <3>2
  <2>3. Min(Bounds) - 1 \in Bounds
    BY <2>1, <2>2
  <2> QED
    BY <1>2, <2>2, <2>3
<1> HIDE DEF Bounds
<1> QED
  BY <1>3, <1>4 DEF Max

LEMMA Halved ==
  ASSUME NEW a \in Nat
  PROVE  a \div 2 \in Nat /\ 2 * (a \div 2) <= a /\ a <= 2 * (a \div 2) + 1
<1>1. a \div 2 \in Int /\ 2 * (a \div 2) <= a /\ a <= 2 * (a \div 2) + 1
  OBVIOUS
<1>2. \A q \in Int : a <= 2 * q + 1 => q \in Nat
  OBVIOUS
<1> QED
  BY <1>1, <1>2

LEMMA SomeIsNumber == \A n \in 1 .. 1000 : n \in Nat
OBVIOUS

-----------------------------------------------------------------------------
(* What runs where *)

\* The originals a hook of f may continue into.
Conts(f) ==
  IF f \in Replaced THEN {}
  ELSE IF f \in {"SetTexture", "SelectVertexShader"} THEN {f, "SetVertexShaderConstantNotInline"}
  ELSE IF f = "CreateTexture2" THEN {"XGSetTextureHeader"}
  ELSE {f}

\* What only the holder of the loading mutex calls, and what is called on the
\* thread that draws.
Guarded == {"CreateTexture2", "LockRect", "XGSetTextureHeader"}
Drawn == Drawing \cup {"SetVertexShaderConstantNotInline", "Clear"}
Owns(t) == (IF t = Loader THEN Loading ELSE Drawn) \cup (IF mutex = t THEN Guarded ELSE {})

\* Where a frame is while the words of its function may not be the patch.
Active == {"restore", "restoring", "continue", "repatch", "repatching"}

WordsOf(doing) ==
  CASE doing = "restore" -> Patch [] doing = "restoring" -> <<"orig1", "target">>
    [] doing = "repatching" -> <<"jump", "orig2">> [] OTHER -> Original

FrameType ==
  [at : Active \cup {"entry", "hook", "body"}, of : Hooked, todo : Seq(Hooked)]

\* A call is a frame in the hook, one in SO_CONTINUE and one in the original,
\* and one original makes one call.
Kind(i) ==
  IF i \in {1, 4} THEN {"entry", "hook"} ELSE IF i \in {2, 5} THEN Active ELSE {"entry", "body"}
Under(i) == IF i \in {1, 4} THEN "hook" ELSE IF i \in {2, 5} THEN "repatch" ELSE "body"
From(i, f) == IF i \in {1, 4} THEN Conts(f) ELSE IF i \in {2, 5} THEN {f} ELSE Callees(f)

Nested(s) ==
  /\ s \in Seq(FrameType) /\ Len(s) <= 6
  /\ \A i \in 1 .. Len(s) : s[i].at \in Kind(i) /\ s[i].todo \in Seq(Conts(s[i].of))
  /\ \A i \in 1 .. Len(s) - 1 : s[i].at = Under(i) /\ s[i + 1].of \in From(i, s[i].of)

Within(s, S) == \A i \in 1 .. Len(s) : s[i].of \in S

\* What is being done to the words of f.
Working(s, f) == {s[i].at : i \in {j \in 1 .. Len(s) : s[j].at \in Active /\ s[j].of = f}}

Does(x, f) == IF x.at \in Active /\ x.of = f THEN {x.at} ELSE {}

Stacks ==
  /\ stack \in [HookThreads -> Seq(FrameType)]
  /\ \A t \in HookThreads : Nested(stack[t]) /\ Within(stack[t], Owns(t))

Uploading == {"create", "fill", "crashed"}

Mutex ==
  /\ mutex \in {Null, Loader, Screen}
  /\ (mutex = Loader) <=> (pc \in Uploading)
  /\ (stack[Loader] # <<>>) => pc \in {"idle", "create", "fill"}

Words ==
  \A f \in Hooked :
    /\ \A t \in HookThreads : \A doing \in Working(stack[t], f) : instr[f] = WordsOf(doing)
    /\ instr[f] # Patch => \E t \in HookThreads : Working(stack[t], f) # {}

Patched ==
  \/ stage.step = "running"
  \/ stage.library = "game" /\ stage.step \in {"flush", "initialize"}

Booted ==
  /\ stage \in [library : {stage.library}, step : {stage.step}, segment : {stage.segment}, file : {stage.file}]
  /\ stage.step # "running" => \A t \in HookThreads : stack[t] = <<>>
  /\ Patched => Words

WordPairs == {"orig1", "jump"} \X {"orig2", "target"}

Instructions == instr \in [Hooked -> WordPairs]

HookInv == Instructions /\ Stacks /\ Mutex /\ Booted

-----------------------------------------------------------------------------
(* The functions *)

LEMMA ContsOf ==
  /\ \A f \in Hooked : Conts(f) \subseteq Hooked
  /\ Conts("Clear") = {"Clear"} /\ "Clear" # "RenderDelayedShadows"
  /\ Conts("RenderDelayedShadows") = {"RenderDelayedShadows"}
  /\ \A f \in Hooked : Callees(f) \subseteq {"Clear"}
  /\ \A f \in Hooked : Callees(f) # {} => f = "RenderDelayedShadows"
  /\ Callees("RenderDelayedShadows") = {"Clear"} /\ "Clear" \in Hooked
<1>1. \A f \in Hooked : Conts(f) \subseteq Hooked
  BY DEF Conts, Hooked, Replaced
<1>2. /\ Conts("Clear") = {"Clear"} /\ "Clear" # "RenderDelayedShadows"
      /\ Conts("RenderDelayedShadows") = {"RenderDelayedShadows"}
  BY DEF Conts, Replaced, patch_touch_ui
<1>3. "Clear" \in Hooked
  BY DEF Hooked, Shadows
<1> QED
  BY <1>1, <1>2, <1>3 DEF Callees

\* Sequences of up to two elements.
LEMMA Short ==
  ASSUME NEW S
  PROVE  /\ <<>> \in Seq(S)
         /\ (\A a \in S : <<a>> \in Seq(S))
         /\ (\A a, b \in S : <<a, b>> \in Seq(S))
<1>1. <<>> \in Seq(S)
  OBVIOUS
<1>2. \A a \in S : <<a>> \in Seq(S)
  OBVIOUS
<1>3. \A a, b \in S : <<a, b>> \in Seq(S)
  OBVIOUS
<1> QED
  BY <1>1, <1>2, <1>3

LEMMA FrontOfList ==
  ASSUME NEW S, NEW q \in Seq(S), q # <<>>
  PROVE  Head(q) \in S /\ Tail(q) \in Seq(S)
OBVIOUS

LEMMA ListOfMore ==
  ASSUME NEW S, NEW T, S \subseteq T, NEW q \in Seq(S)
  PROVE  q \in Seq(T)
<1>1. /\ Len(q) \in Nat /\ q = [i \in 1 .. Len(q) |-> q[i]]
      /\ \A i \in 1 .. Len(q) : q[i] \in T
  OBVIOUS
<1> QED
  BY <1>1, SeqDef

LEMMA GoesOn ==
  ASSUME NEW x \in FrameType, NEW q
  PROVE  [x EXCEPT !.todo = q] = [at |-> x.at, of |-> x.of, todo |-> q]
BY DEF FrameType

LEMMA Continued ==
  ASSUME NEW f \in Hooked, NEW todo \in Continues(f)
  PROVE  todo \in Seq(Conts(f))
<1>1. CASE f \in Replaced
  <2>1. todo = <<>>
    <3>1. f \notin {"SetTexture", "SelectVertexShader", "CreateTexture2", "ProcessAndUploadTexture",
                    "coreAddTask", "cdDirectoryLookup"}
      BY <1>1 DEF Replaced, patch_touch_ui
    <3> QED
      BY <1>1, <3>1 DEF Continues
  <2> QED
    BY <2>1, Short
<1>2. CASE f = "SetTexture"
  <2>1. f \notin Replaced
    BY <1>2 DEF Replaced, patch_touch_ui
  <2>2. todo = <<"SetTexture">> \/ todo = <<"SetVertexShaderConstantNotInline", "SetTexture">>
    BY <1>2, <2>1 DEF Continues, SetTexture
  <2>3. Conts(f) = {"SetTexture", "SetVertexShaderConstantNotInline"}
    BY <1>2, <2>1 DEF Conts
  <2> QED
    BY <2>2, <2>3, Short
<1>3. CASE f = "SelectVertexShader"
  <2>1. f \notin Replaced
    BY <1>3 DEF Replaced, patch_touch_ui
  <2>2. \/ todo = <<"SelectVertexShader">>
        \/ todo = <<"SelectVertexShader", "SetVertexShaderConstantNotInline">>
    BY <1>3, <2>1 DEF Continues
  <2>3. Conts(f) = {"SelectVertexShader", "SetVertexShaderConstantNotInline"}
    BY <1>3, <2>1 DEF Conts
  <2> QED
    BY <2>2, <2>3, Short
<1>4. CASE f = "CreateTexture2"
  <2>1. f \notin Replaced
    BY <1>4 DEF Replaced, patch_touch_ui
  <2>2. todo = <<"XGSetTextureHeader">>
    BY <1>4, <2>1 DEF Continues
  <2>3. Conts(f) = {"XGSetTextureHeader"}
    BY <1>4, <2>1 DEF Conts
  <2> QED
    BY <2>2, <2>3, Short
<1>5. CASE f \notin Replaced \cup {"SetTexture", "SelectVertexShader", "CreateTexture2"}
  <2>1. Continues(f) \subseteq {<<>>, <<f>>}
    BY <1>5 DEF Continues, coreAddTask, cdDirectoryLookup
  <2>2. Conts(f) = {f}
    BY <1>5 DEF Conts
  <2> QED
    BY <2>1, <2>2, Short
<1> QED
  BY <1>1, <1>2, <1>3, <1>4, <1>5

LEMMA Families ==
  ASSUME NEW t \in HookThreads
  PROVE  /\ Owns(t) \subseteq Hooked
         /\ \A f \in Owns(t) : Conts(f) \subseteq Owns(t) /\ Callees(f) \subseteq Owns(t)
         /\ \A u \in HookThreads \ {t} : Owns(t) \cap Owns(u) = {}
<1>1. Loading \subseteq Hooked /\ Drawn \subseteq Hooked /\ Guarded \subseteq Hooked
  BY DEF Loading, Drawn, Drawing, Guarded, Hooked, Replaced, Shadows, patch_touch_ui
<1>2. Loading \cap Drawn = {} /\ Loading \cap Guarded = {} /\ Drawn \cap Guarded = {}
  BY DEF Loading, Drawn, Drawing, Guarded
<1>3. \A f \in Loading : Conts(f) \subseteq Loading /\ Callees(f) = {}
  BY DEF Loading, Conts, Replaced, patch_touch_ui, Callees
<1>4. \A f \in Drawn : Conts(f) \subseteq Drawn /\ Callees(f) \subseteq Drawn
  BY DEF Drawn, Drawing, Conts, Replaced, patch_touch_ui, Callees
<1>5. \A f \in Guarded : Conts(f) \subseteq Guarded /\ Callees(f) = {}
  BY DEF Guarded, Conts, Replaced, patch_touch_ui, Callees
<1>6. Owns(t) \subseteq Hooked
  BY <1>1 DEF Owns
<1>7. \A f \in Owns(t) : Conts(f) \subseteq Owns(t) /\ Callees(f) \subseteq Owns(t)
  BY <1>3, <1>4, <1>5 DEF Owns
<1>8. \A u \in HookThreads \ {t} : Owns(t) \cap Owns(u) = {}
  BY <1>2, ThreadsAssumption DEF Owns
<1> QED
  BY <1>6, <1>7, <1>8

-----------------------------------------------------------------------------
(* Stacks *)

LEMMA TopAndFront ==
  ASSUME NEW F, NEW s \in Seq(F), s # <<>>
  PROVE  /\ Front(s) \in Seq(F) /\ Len(Front(s)) = Len(s) - 1
         /\ \A i \in 1 .. Len(s) - 1 : Front(s)[i] = s[i]
         /\ Last(s) = s[Len(s)] /\ Last(s) \in F
         /\ Len(s) \in Nat \ {0}
<1>1. Len(s) \in Nat /\ Len(s) # 0
  OBVIOUS
<1>2. Front(s) = SubSeq(s, 1, Len(s) - 1) /\ Last(s) = s[Len(s)]
  BY DEF Front, Last
<1>3. SubSeq(s, 1, Len(s) - 1) \in Seq(F)
  BY <1>1
<1>4. Len(SubSeq(s, 1, Len(s) - 1)) = Len(s) - 1
  BY <1>1
<1>5. \A i \in 1 .. Len(s) - 1 : SubSeq(s, 1, Len(s) - 1)[i] = s[i]
  BY <1>1
<1>6. s[Len(s)] \in F
  BY <1>1
<1> QED
  BY <1>1, <1>2, <1>3, <1>4, <1>5, <1>6

LEMMA Pushed ==
  ASSUME NEW s \in Seq(FrameType), NEW x \in FrameType
  PROVE  /\ Append(s, x) \in Seq(FrameType) /\ Len(Append(s, x)) = Len(s) + 1
         /\ \A i \in 1 .. Len(s) : Append(s, x)[i] = s[i]
         /\ Append(s, x)[Len(s) + 1] = x
OBVIOUS

LEMMA KindIs ==
  /\ \A i \in {1, 4} : Kind(i) = {"entry", "hook"} /\ Under(i) = "hook" /\ Kind(i + 1) = Active
  /\ \A i \in {2, 5} : Kind(i) = Active /\ Under(i) = "repatch" /\ Kind(i + 1) = {"entry", "body"}
  /\ \A i \in {3, 6} : Kind(i) = {"entry", "body"} /\ Under(i) = "body"
  /\ Kind(4) = {"entry", "hook"}
  /\ \A f : /\ \A i \in {1, 4} : From(i, f) = Conts(f)
            /\ \A i \in {2, 5} : From(i, f) = {f}
            /\ \A i \in {3, 6} : From(i, f) = Callees(f)
  /\ "entry" \notin Active /\ "hook" \notin Active /\ "body" \notin Active
<1>1. "entry" \notin Active /\ "hook" \notin Active /\ "body" \notin Active
  BY DEF Active
<1>2. \A i \in {1, 4} : Kind(i) = {"entry", "hook"} /\ Under(i) = "hook" /\ Kind(i + 1) = Active
  BY DEF Kind, Under
<1>3. \A i \in {2, 5} : Kind(i) = Active /\ Under(i) = "repatch" /\ Kind(i + 1) = {"entry", "body"}
  BY DEF Kind, Under
<1>4. \A i \in {3, 6} : Kind(i) = {"entry", "body"} /\ Under(i) = "body"
  BY DEF Kind, Under
<1>5. Kind(4) = {"entry", "hook"}
  BY DEF Kind
<1>6. \A f : /\ \A i \in {1, 4} : From(i, f) = Conts(f)
             /\ \A i \in {2, 5} : From(i, f) = {f}
             /\ \A i \in {3, 6} : From(i, f) = Callees(f)
  BY DEF From
<1> QED
  BY <1>1, <1>2, <1>3, <1>4, <1>5, <1>6

LEMMA PushedTwice ==
  ASSUME NEW s \in Seq(FrameType), NEW x \in FrameType, NEW y \in FrameType
  PROVE  s \o <<x, y>> = Append(Append(s, x), y)
<1>1. <<x, y>> \in Seq(FrameType) /\ Len(<<x, y>>) = 2
  OBVIOUS
<1>2. s \o <<x, y>> \in Seq(FrameType) /\ Append(Append(s, x), y) \in Seq(FrameType)
  BY <1>1
<1>3. Len(s \o <<x, y>>) = Len(s) + 2 /\ Len(Append(Append(s, x), y)) = Len(s) + 2
  OBVIOUS
<1>4. \A i \in 1 .. Len(s) + 2 : (s \o <<x, y>>)[i] = Append(Append(s, x), y)[i]
  OBVIOUS
<1> QED
  BY <1>2, <1>3, <1>4, SeqEqual

\* Nothing of the lower frames depends on the top one but its function.
LEMMA PopKeeps ==
  ASSUME NEW s, Nested(s), s # <<>>, NEW S, Within(s, S)
  PROVE  Nested(Front(s)) /\ Within(Front(s), S)
<1>1. s \in Seq(FrameType) /\ Len(s) \in Nat
  BY DEF Nested
<1> DEFINE r == Front(s)
<1>2. /\ r \in Seq(FrameType) /\ Len(r) = Len(s) - 1
      /\ \A i \in 1 .. Len(s) - 1 : r[i] = s[i]
  BY <1>1, TopAndFront
<1> HIDE DEF r
<1>3. \A i \in 1 .. Len(r) : r[i].at \in Kind(i) /\ r[i].todo \in Seq(Conts(r[i].of))
  BY <1>1, <1>2 DEF Nested
<1>4. \A i \in 1 .. Len(r) - 1 : r[i].at = Under(i) /\ r[i + 1].of \in From(i, r[i].of)
  <2> SUFFICES ASSUME NEW i \in 1 .. Len(r) - 1
               PROVE  r[i].at = Under(i) /\ r[i + 1].of \in From(i, r[i].of)
    OBVIOUS
  <2>1. i \in 1 .. Len(s) - 1 /\ i + 1 \in 1 .. Len(s) - 1
    BY <1>1, <1>2
  <2> QED
    BY <2>1, <1>2 DEF Nested
<1>5. Len(r) <= 6
  BY <1>1, <1>2 DEF Nested
<1>6. Within(r, S)
  BY <1>1, <1>2 DEF Within
<1>7. Nested(r)
  BY <1>2, <1>3, <1>4, <1>5 DEF Nested
<1> QED
  BY <1>6, <1>7 DEF r

LEMMA PushKeeps ==
  ASSUME NEW s, Nested(s), NEW S, Within(s, S),
         NEW x \in FrameType, x.of \in S, x.todo \in Seq(Conts(x.of)),
         x.at \in Kind(Len(s) + 1), Len(s) < 6,
         s # <<>> => Last(s).at = Under(Len(s)) /\ x.of \in From(Len(s), Last(s).of)
  PROVE  Nested(Append(s, x)) /\ Within(Append(s, x), S)
<1>1. s \in Seq(FrameType) /\ Len(s) \in Nat
  BY DEF Nested
<1> DEFINE r == Append(s, x)
<1>2. /\ r \in Seq(FrameType) /\ Len(r) = Len(s) + 1
      /\ \A i \in 1 .. Len(s) : r[i] = s[i]
      /\ r[Len(s) + 1] = x
  BY <1>1, Pushed
<1> HIDE DEF r
<1>3. \A i \in 1 .. Len(r) : r[i].at \in Kind(i) /\ r[i].todo \in Seq(Conts(r[i].of))
  <2> SUFFICES ASSUME NEW i \in 1 .. Len(r)
               PROVE  r[i].at \in Kind(i) /\ r[i].todo \in Seq(Conts(r[i].of))
    OBVIOUS
  <2>1. CASE i \in 1 .. Len(s)
    BY <2>1, <1>2 DEF Nested
  <2>2. CASE i = Len(s) + 1
    BY <2>2, <1>2
  <2> QED
    BY <2>1, <2>2, <1>1, <1>2
<1>4. \A i \in 1 .. Len(r) - 1 : r[i].at = Under(i) /\ r[i + 1].of \in From(i, r[i].of)
  <2> SUFFICES ASSUME NEW i \in 1 .. Len(r) - 1
               PROVE  r[i].at = Under(i) /\ r[i + 1].of \in From(i, r[i].of)
    OBVIOUS
  <2>1. CASE i \in 1 .. Len(s) - 1
    <3>1. i \in 1 .. Len(s) /\ i + 1 \in 1 .. Len(s)
      BY <2>1, <1>1
    <3> QED
      BY <2>1, <3>1, <1>2 DEF Nested
  <2>2. CASE i = Len(s)
    <3>1. s # <<>> /\ Last(s) = s[Len(s)]
      BY <2>2, <1>1 DEF Last
    <3>2. r[i] = Last(s) /\ r[i + 1] = x
      BY <2>2, <3>1, <1>1, <1>2
    <3> QED
      BY <2>2, <3>1, <3>2
  <2> QED
    BY <2>1, <2>2, <1>1, <1>2
<1>5. Len(r) <= 6
  BY <1>1, <1>2
<1>6. Within(r, S)
  <2> SUFFICES ASSUME NEW i \in 1 .. Len(r) PROVE r[i].of \in S
    BY DEF Within
  <2>1. CASE i \in 1 .. Len(s)
    BY <2>1, <1>2 DEF Within
  <2>2. CASE i = Len(s) + 1
    BY <2>2, <1>2
  <2> QED
    BY <2>1, <2>2, <1>1, <1>2
<1>7. Nested(r)
  BY <1>2, <1>3, <1>4, <1>5 DEF Nested
<1> QED
  BY <1>6, <1>7 DEF r

\* The words that are changed: those of the function of the top frame and of
\* what is below it.
LEMMA WorkingPushed ==
  ASSUME NEW s \in Seq(FrameType), NEW x \in FrameType, NEW f
  PROVE  Working(Append(s, x), f) =
           Working(s, f) \cup Does(x, f)
<1> DEFINE r == Append(s, x)
<1>1. /\ r \in Seq(FrameType) /\ Len(r) = Len(s) + 1
      /\ \A i \in 1 .. Len(s) : r[i] = s[i]
      /\ r[Len(s) + 1] = x /\ Len(s) \in Nat
  BY Pushed
<1> HIDE DEF r
<1>2. 1 .. Len(r) = 1 .. Len(s) \cup {Len(s) + 1} /\ Len(s) + 1 \notin 1 .. Len(s)
  BY <1>1
<1>3. Working(r, f) \subseteq Working(s, f) \cup Does(x, f)
  <2> SUFFICES ASSUME NEW i \in 1 .. Len(r), r[i].at \in Active, r[i].of = f
               PROVE  r[i].at \in Working(s, f) \cup Does(x, f)
    BY DEF Working
  <2>1. CASE i \in 1 .. Len(s)
    BY <2>1, <1>1 DEF Working
  <2>2. CASE i = Len(s) + 1
    BY <2>2, <1>1 DEF Does
  <2> QED
    BY <2>1, <2>2, <1>2
<1>4. Working(s, f) \subseteq Working(r, f)
  <2> SUFFICES ASSUME NEW i \in 1 .. Len(s), s[i].at \in Active, s[i].of = f
               PROVE  s[i].at \in Working(r, f)
    BY DEF Working
  <2>1. i \in 1 .. Len(r) /\ r[i] = s[i]
    BY <1>1, <1>2
  <2> QED
    BY <2>1 DEF Working
<1>5. x.at \in Active /\ x.of = f => x.at \in Working(r, f)
  BY <1>1, <1>2 DEF Working
<1> QED
  BY <1>3, <1>4, <1>5 DEF r, Does

LEMMA WorkingTop ==
  ASSUME NEW s \in Seq(FrameType), s # <<>>, NEW f
  PROVE  Working(s, f) = Working(Front(s), f)
           \cup Does(Last(s), f)
<1>1. /\ Front(s) \in Seq(FrameType) /\ Len(Front(s)) = Len(s) - 1
      /\ \A i \in 1 .. Len(s) - 1 : Front(s)[i] = s[i]
      /\ Last(s) = s[Len(s)] /\ Last(s) \in FrameType /\ Len(s) \in Nat \ {0}
  BY TopAndFront
<1> DEFINE r == Append(Front(s), Last(s))
<1>2. /\ r \in Seq(FrameType) /\ Len(r) = Len(s)
      /\ \A i \in 1 .. Len(s) - 1 : r[i] = s[i]
      /\ r[Len(s)] = s[Len(s)]
  BY <1>1, Pushed
<1>3. r = s
  BY <1>1, <1>2, SeqEqual
<1>4. Working(r, f) = Working(Front(s), f)
        \cup Does(Last(s), f)
  BY <1>1, WorkingPushed
<1> HIDE DEF r
<1> QED
  BY <1>3, <1>4

LEMMA NothingWorks ==
  ASSUME NEW s, Nested(s), NEW f, Working(s, f) # {}
  PROVE  /\ Len(s) >= 2
         /\ \E i \in {2, 5} : i <= Len(s) /\ s[i].at \in Active /\ s[i].of = f
<1>1. s \in Seq(FrameType) /\ Len(s) \in Nat /\ Len(s) <= 6
  BY DEF Nested
<1>2. PICK i \in 1 .. Len(s) : s[i].at \in Active /\ s[i].of = f
  BY DEF Working
<1>3. s[i].at \in Kind(i) /\ i \in {1, 2, 3, 4, 5, 6}
  BY <1>1, <1>2 DEF Nested
<1>4. i \in {2, 5}
  BY <1>2, <1>3 DEF Kind, Active
<1> QED
  BY <1>1, <1>2, <1>4

\* The second call of a thread is one of Clear, by RenderDelayedShadows.
LEMMA SecondCall ==
  ASSUME NEW s, Nested(s), Len(s) >= 4
  PROVE  /\ s[2].of = "RenderDelayedShadows" /\ s[3].of = "RenderDelayedShadows"
         /\ s[2].at = "repatch"
         /\ \A i \in 4 .. Len(s) : s[i].of = "Clear"
<1>1. s \in Seq(FrameType) /\ Len(s) \in Nat /\ Len(s) <= 6
  BY DEF Nested
<1>2. /\ 2 \in 1 .. Len(s) - 1 /\ 3 \in 1 .. Len(s) - 1
      /\ s[2] \in FrameType /\ s[3] \in FrameType /\ s[4] \in FrameType
  BY <1>1
<1> DEFINE Holds(i) == s[i].at = Under(i) /\ s[i + 1].of \in From(i, s[i].of)
<1>0. \A i \in 1 .. Len(s) - 1 : Holds(i)
  BY DEF Nested
<1>3. s[4].of \in Callees(s[3].of) /\ s[3].of = s[2].of /\ s[2].at = "repatch"
  <2>1. Holds(2) /\ Holds(3)
    BY <1>0, <1>2
  <2>2. s[2 + 1].of = s[3].of /\ s[3 + 1].of = s[4].of
    OBVIOUS
  <2> QED
    BY <2>1, <2>2 DEF From, Under
<1>4. s[3].of = "RenderDelayedShadows" /\ s[4].of = "Clear"
  BY <1>2, <1>3, ContsOf DEF FrameType
<1>5. Len(s) >= 5 => s[5].of = "Clear"
  <2> HAVE Len(s) >= 5
  <2>1. 4 \in 1 .. Len(s) - 1
    BY <1>1
  <2>2. s[5].of \in Conts(s[4].of)
    <3>1. Holds(4) /\ s[4 + 1].of = s[5].of
      BY <2>1, <1>0
    <3> QED
      BY <3>1 DEF From
  <2> QED
    BY <2>2, <1>4, ContsOf
<1>6. Len(s) >= 6 => s[6].of = "Clear"
  <2> HAVE Len(s) >= 6
  <2>1. 5 \in 1 .. Len(s) - 1
    BY <1>1
  <2>2. s[6].of = s[5].of
    <3>1. Holds(5) /\ s[5 + 1].of = s[6].of
      BY <2>1, <1>0
    <3> QED
      BY <3>1 DEF From
  <2> QED
    BY <2>2, <1>1, <1>5
<1>7. \A i \in 4 .. Len(s) : i = 4 \/ (i = 5 /\ Len(s) >= 5) \/ (i = 6 /\ Len(s) >= 6)
  BY <1>1
<1> QED
  BY <1>3, <1>4, <1>5, <1>6, <1>7

\* The words of a function are changed for one call of a thread at a time: not
\* for the one that is changing them again, nor when its hook is entered.
LEMMA NothingBelow ==
  ASSUME NEW s, Nested(s), s # <<>>, Last(s).at \in Active
  PROVE  Working(Front(s), Last(s).of) = {}
<1>1. /\ s \in Seq(FrameType) /\ Len(s) \in Nat /\ Len(s) <= 6
  BY DEF Nested
<1>2. /\ Len(Front(s)) = Len(s) - 1 /\ Last(s) = s[Len(s)]
      /\ \A i \in 1 .. Len(s) - 1 : Front(s)[i] = s[i]
      /\ Len(s) # 0
  BY <1>1, TopAndFront
<1>a. Within(s, {s[i].of : i \in 1 .. Len(s)})
  BY DEF Within
<1>b. Nested(Front(s))
  BY <1>a, PopKeeps
<1>3. Last(s).at \in Kind(Len(s)) /\ Len(s) \in {1, 2, 3, 4, 5, 6}
  <2>0. \A n \in Nat : n <= 6 /\ n # 0 => n \in 1 .. n /\ n \in {1, 2, 3, 4, 5, 6}
    OBVIOUS
  <2>1. Len(s) \in 1 .. Len(s) /\ Len(s) \in {1, 2, 3, 4, 5, 6}
    <3>1. Len(s) \in Nat /\ Len(s) <= 6 /\ Len(s) # 0
      BY <1>1, <1>2
    <3> QED
      BY <2>0, <3>1
  <2>2. \A i \in 1 .. Len(s) : s[i].at \in Kind(i)
    BY DEF Nested
  <2> QED
    BY <1>2, <2>1, <2>2
<1>4. Len(s) \in {2, 5}
  BY <1>3 DEF Kind, Active
<1> SUFFICES ASSUME Working(Front(s), Last(s).of) # {} PROVE FALSE
  OBVIOUS
<1>5. PICK i \in {2, 5} : i <= Len(s) - 1 /\ Front(s)[i].of = Last(s).of
  BY <1>2, <1>b, NothingWorks
<1>6. i = 2 /\ Len(s) = 5 /\ s[2].of = s[5].of
  BY <1>2, <1>4, <1>5
<1> QED
  BY <1>6, SecondCall, ContsOf

LEMMA NothingYet ==
  ASSUME NEW s, Nested(s), s # <<>>, Len(s) \in {1, 4},
         NEW f \in {Last(s).of} \cup Conts(Last(s).of)
  PROVE  Working(s, f) = {}
<1>1. s \in Seq(FrameType) /\ Last(s) = s[Len(s)]
  BY TopAndFront DEF Nested
<1> SUFFICES ASSUME Working(s, f) # {} PROVE FALSE
  OBVIOUS
<1>2. PICK i \in {2, 5} : i <= Len(s) /\ s[i].of = f
  BY NothingWorks
<1>3. i = 2 /\ Len(s) = 4
  BY <1>2
<1>4. s[2].of = "RenderDelayedShadows" /\ s[4].of = "Clear"
  BY <1>3, SecondCall
<1> QED
  BY <1>1, <1>2, <1>3, <1>4, ContsOf

LEMMA OriginalRuns ==
  ASSUME NEW s, Nested(s), s # <<>>, Len(s) \in {3, 6}
  PROVE  /\ s[Len(s) - 1].at = "repatch" /\ s[Len(s) - 1].of = Last(s).of
         /\ "repatch" \in Working(s, Last(s).of)
<1>1. s \in Seq(FrameType) /\ Last(s) = s[Len(s)] /\ Len(s) \in Nat
  BY TopAndFront DEF Nested
<1> DEFINE k == Len(s) - 1
<1>2. k \in 1 .. Len(s) - 1 /\ k \in 1 .. Len(s) /\ k \in {2, 5} /\ k + 1 = Len(s)
  BY <1>1
<1> HIDE DEF k
<1>3. s[k].at = "repatch" /\ s[k + 1].of \in {s[k].of}
  <2>1. \A i \in 1 .. Len(s) - 1 : s[i].at = Under(i) /\ s[i + 1].of \in From(i, s[i].of)
    BY DEF Nested
  <2>2. s[k].at = Under(k) /\ s[k + 1].of \in From(k, s[k].of)
    BY <1>2, <2>1
  <2> QED
    BY <1>2, <2>2 DEF Under, From
<1>4. s[k].of = Last(s).of
  BY <1>1, <1>2, <1>3
<1>5. "repatch" \in Working(s, Last(s).of)
  BY <1>2, <1>3, <1>4 DEF Working, Active
<1> QED
  BY <1>3, <1>4, <1>5 DEF k

\* No thread changes the words of a function that another one may be in.
LEMMA OwnWork ==
  ASSUME Stacks, NEW t \in HookThreads, NEW f
  PROVE  /\ Working(stack[t], f) # {} => f \in Owns(t)
         /\ f \in Owns(t) => \A u \in HookThreads \ {t} : Working(stack[u], f) = {}
<1>1. ASSUME NEW u \in HookThreads, Working(stack[u], f) # {}
      PROVE  f \in Owns(u)
  BY <1>1 DEF Stacks, Working, Within
<1> QED
  BY <1>1, Families

-----------------------------------------------------------------------------
(* Steps of the hooks *)

HookState == Instructions /\ Stacks /\ Words

\* The mutex is not taken from a thread that is in a call.
Kept == \A u \in HookThreads : stack[u] = <<>> \/ Owns(u) \subseteq Owns(u)'

LEMMA StackChange ==
  ASSUME Stacks, Kept, NEW t \in HookThreads, NEW s,
         Nested(s), Within(s, Owns(t)'), stack' = [stack EXCEPT ![t] = s]
  PROVE  Stacks' /\ \A u \in HookThreads : stack'[u] = IF u = t THEN s ELSE stack[u]
<1>1. stack' \in [HookThreads -> Seq(FrameType)]
  BY DEF Stacks, Nested
<1>2. \A u \in HookThreads : stack'[u] = IF u = t THEN s ELSE stack[u]
  BY DEF Stacks
<1>3. ASSUME NEW u \in HookThreads, u # t
      PROVE  Nested(stack'[u]) /\ Within(stack'[u], Owns(u)')
  <2>1. stack'[u] = stack[u] /\ Nested(stack[u]) /\ Within(stack[u], Owns(u))
    BY <1>2, <1>3 DEF Stacks
  <2>2. CASE stack[u] = <<>>
    BY <2>1, <2>2 DEF Within
  <2>3. CASE Owns(u) \subseteq Owns(u)'
    BY <2>1, <2>3 DEF Within
  <2> QED
    BY <2>1, <2>2, <2>3 DEF Kept
<1>4. \A u \in HookThreads : Nested(stack'[u]) /\ Within(stack'[u], Owns(u)')
  BY <1>2, <1>3
<1> QED
  BY <1>1, <1>2, <1>4 DEF Stacks

LEMMA StackStep ==
  ASSUME Stacks, mutex' = mutex, NEW t \in HookThreads, NEW s,
         Nested(s), Within(s, Owns(t)), stack' = [stack EXCEPT ![t] = s]
  PROVE  Stacks' /\ \A u \in HookThreads : stack'[u] = IF u = t THEN s ELSE stack[u]
<1>1. \A u \in HookThreads : Owns(u)' = Owns(u)
  BY DEF Owns
<1>2. Kept /\ Within(s, Owns(t)')
  BY <1>1 DEF Kept
<1> QED
  BY <1>2, StackChange

\* A step that changes at most the words of f, and what its thread does to them.
LEMMA WordsStep ==
  ASSUME HookState, NEW t \in HookThreads, NEW s, NEW f \in Owns(t),
         \A u \in HookThreads : stack'[u] = IF u = t THEN s ELSE stack[u],
         \A g \in Hooked \ {f} : Working(s, g) = Working(stack[t], g) /\ instr'[g] = instr[g],
         \A doing \in Working(s, f) : instr'[f] = WordsOf(doing),
         instr'[f] # Patch => Working(s, f) # {}
  PROVE  Words'
<1> SUFFICES ASSUME NEW g \in Hooked
             PROVE  /\ \A u \in HookThreads : \A doing \in Working(stack'[u], g) : instr'[g] = WordsOf(doing)
                    /\ instr'[g] # Patch => \E u \in HookThreads : Working(stack'[u], g) # {}
  BY DEF Words
<1>1. CASE g = f
  <2>1. \A u \in HookThreads \ {t} : Working(stack'[u], f) = {}
    BY OwnWork DEF HookState
  <2>2. Working(stack'[t], f) = Working(s, f)
    OBVIOUS
  <2> QED
    BY <1>1, <2>1, <2>2
<1>2. CASE g # f
  <2>1. \A u \in HookThreads : Working(stack'[u], g) = Working(stack[u], g)
    BY <1>2
  <2>2. instr'[g] = instr[g]
    BY <1>2
  <2> QED
    BY <2>1, <2>2 DEF HookState, Words
<1> QED
  BY <1>1, <1>2

\* The top frame, where it may be, and what the thread does below it.
LEMMA TopFrame ==
  ASSUME HookState, NEW t \in HookThreads, InCall(t)
  PROVE  LET s == stack[t]  x == Top(t) IN
         /\ s \in Seq(FrameType) /\ s # <<>> /\ Nested(s) /\ Within(s, Owns(t)) /\ x = Last(s)
         /\ Nested(Front(s)) /\ Within(Front(s), Owns(t)) /\ Front(s) \in Seq(FrameType)
         /\ Len(Front(s)) = Len(s) - 1 /\ Len(s) \in {1, 2, 3, 4, 5, 6}
         /\ x \in FrameType /\ x.at \in Kind(Len(s)) /\ x.of \in Owns(t)
         /\ x.todo \in Seq(Conts(x.of))
         /\ x.of \in Hooked /\ instr[x.of] \in WordPairs
         /\ Front(s) # <<>> => /\ Last(Front(s)).at = Under(Len(s) - 1)
                              /\ x.of \in From(Len(s) - 1, Last(Front(s)).of)
<1> DEFINE s == stack[t]
<1>1. /\ s \in Seq(FrameType) /\ s # <<>> /\ Nested(s) /\ Within(s, Owns(t)) /\ Top(t) = Last(s)
      /\ Len(s) \in Nat /\ Len(s) <= 6
  BY DEF HookState, Stacks, Nested, InCall, Top
<1> HIDE DEF s
<1>2. Nested(Front(s)) /\ Within(Front(s), Owns(t))
  BY <1>1, PopKeeps
<1>3. /\ Front(s) \in Seq(FrameType) /\ Len(Front(s)) = Len(s) - 1
      /\ Last(s) = s[Len(s)] /\ Last(s) \in FrameType /\ Len(s) # 0
      /\ \A i \in 1 .. Len(s) - 1 : Front(s)[i] = s[i]
  BY <1>1, TopAndFront
<1>4. Len(s) \in 1 .. Len(s) /\ Len(s) \in {1, 2, 3, 4, 5, 6}
  <2>1. \A n \in Nat : n <= 6 /\ n # 0 => n \in 1 .. n /\ n \in {1, 2, 3, 4, 5, 6}
    OBVIOUS
  <2>2. Len(s) \in Nat /\ Len(s) <= 6 /\ Len(s) # 0
    BY <1>1, <1>3
  <2> QED
    BY <2>1, <2>2
<1>5. /\ Last(s).at \in Kind(Len(s)) /\ Last(s).todo \in Seq(Conts(Last(s).of))
      /\ Last(s).of \in Owns(t)
  <2>1. /\ \A i \in 1 .. Len(s) : s[i].at \in Kind(i) /\ s[i].todo \in Seq(Conts(s[i].of))
        /\ \A i \in 1 .. Len(s) : s[i].of \in Owns(t)
    BY <1>1 DEF Nested, Within
  <2> QED
    BY <1>3, <1>4, <2>1
<1>6. Last(s).of \in Hooked /\ instr[Last(s).of] \in WordPairs
  BY <1>3 DEF FrameType, HookState, Instructions
<1>7. Front(s) # <<>> => /\ Last(Front(s)).at = Under(Len(s) - 1)
                        /\ Last(s).of \in From(Len(s) - 1, Last(Front(s)).of)
  <2> HAVE Front(s) # <<>>
  <2> DEFINE k == Len(Front(s))
  <2>1. Last(Front(s)) = Front(s)[k] /\ k \in Nat \ {0}
    BY <1>3, TopAndFront
  <2>0. k = Len(s) - 1
    BY <1>3
  <2> HIDE DEF k
  <2>2. k \in 1 .. Len(s) - 1 /\ k + 1 = Len(s)
    BY <1>1, <2>1, <2>0
  <2>3. Last(Front(s)) = s[k]
    BY <1>3, <2>1, <2>2
  <2>4. \A i \in 1 .. Len(s) - 1 : s[i].at = Under(i) /\ s[i + 1].of \in From(i, s[i].of)
    BY <1>1 DEF Nested
  <2>5. s[k].at = Under(k) /\ s[k + 1].of \in From(k, s[k].of)
    BY <2>2, <2>4
  <2>6. Last(Front(s)).at = Under(k) /\ Last(s).of \in From(k, Last(Front(s)).of)
    BY <1>3, <2>2, <2>3, <2>5
  <2> QED
    BY <2>0, <2>6
<1> QED
  BY <1>1, <1>2, <1>3, <1>4, <1>5, <1>6, <1>7 DEF s

LEMMA FrameOf ==
  ASSUME NEW where \in Active \cup {"entry", "hook", "body"}, NEW f \in Hooked
  PROVE  /\ Frame(where, f) \in FrameType
         /\ Frame(where, f).at = where /\ Frame(where, f).of = f
         /\ \A S : Frame(where, f).todo \in Seq(S)
<1>1. \A S : <<>> \in Seq(S)
  BY Short
<1>2. Frame(where, f) = [at |-> where, of |-> f, todo |-> <<>>]
  BY DEF Frame
<1> QED
  BY <1>1, <1>2 DEF FrameType

\* The top frame is replaced by one of the same function.
LEMMA ReplacedTop ==
  ASSUME HookState, NEW t \in HookThreads, InCall(t),
         NEW x \in FrameType, x.of = Top(t).of, x.todo \in Seq(Conts(x.of)), x.at \in Kind(Len(stack[t]))
  PROVE  LET s == Append(Front(stack[t]), x) IN
         /\ Nested(s) /\ Within(s, Owns(t)) /\ s \in Seq(FrameType)
         /\ s # <<>> /\ Last(s) = x /\ Len(s) = Len(stack[t])
         /\ \A g : Working(s, g) = Working(Front(stack[t]), g)
                      \cup Does(x, g)
<1> DEFINE r == Front(stack[t])
          s == Append(r, x)
<1>1. /\ Nested(r) /\ Within(r, Owns(t)) /\ r \in Seq(FrameType)
      /\ Len(r) = Len(stack[t]) - 1 /\ Len(stack[t]) \in {1, 2, 3, 4, 5, 6}
      /\ x.of \in Owns(t)
      /\ r # <<>> => Last(r).at = Under(Len(stack[t]) - 1) /\ x.of \in From(Len(stack[t]) - 1, Last(r).of)
  BY TopFrame
<1> HIDE DEF r
<1>2. Len(r) + 1 = Len(stack[t]) /\ Len(r) < 6
  <2>1. \A n, m : n \in {1, 2, 3, 4, 5, 6} /\ m = n - 1 => m + 1 = n /\ m < 6
    OBVIOUS
  <2>2. Len(r) = Len(stack[t]) - 1 /\ Len(stack[t]) \in {1, 2, 3, 4, 5, 6}
    BY <1>1
  <2> QED
    BY <2>1, <2>2
<1>3. Nested(s) /\ Within(s, Owns(t))
  BY <1>1, <1>2, PushKeeps
<1>4. s \in Seq(FrameType) /\ Len(s) = Len(r) + 1 /\ s[Len(r) + 1] = x
  BY <1>1, Pushed
<1>5. s # <<>> /\ Last(s) = x
  BY <1>1, <1>4 DEF Last
<1>6. \A g : Working(s, g) = Working(r, g) \cup Does(x, g)
  BY <1>1, WorkingPushed
<1> HIDE DEF s
<1>7. Len(s) = Len(stack[t])
  BY <1>2, <1>4
<1> QED
  BY <1>3, <1>4, <1>5, <1>6, <1>7 DEF s, r

LEMMA StepKeeps ==
  ASSUME HookState, mutex' = mutex, NEW t \in HookThreads, NEW s, NEW f \in Owns(t),
         Nested(s), Within(s, Owns(t)), stack' = [stack EXCEPT ![t] = s], Instructions',
         \A g \in Hooked \ {f} : Working(s, g) = Working(stack[t], g) /\ instr'[g] = instr[g],
         \A doing \in Working(s, f) : instr'[f] = WordsOf(doing),
         instr'[f] # Patch => Working(s, f) # {}
  PROVE  HookState'
<1>0. Stacks
  BY DEF HookState
<1>1. Stacks' /\ \A u \in HookThreads : stack'[u] = IF u = t THEN s ELSE stack[u]
  BY ONLY <1>0, StackStep, mutex' = mutex, t \in HookThreads, Nested(s), Within(s, Owns(t)),
          stack' = [stack EXCEPT ![t] = s]
<1>2. Words'
  BY <1>1, WordsStep
<1> QED
  BY <1>1, <1>2 DEF HookState

LEMMA StepAside ==
  ASSUME HookState, mutex' = mutex, NEW t \in HookThreads, NEW s,
         Nested(s), Within(s, Owns(t)), stack' = [stack EXCEPT ![t] = s], instr' = instr,
         \A g : Working(s, g) = Working(stack[t], g)
  PROVE  HookState'
<1>0. Stacks
  BY DEF HookState
<1>1. Stacks' /\ \A u \in HookThreads : stack'[u] = IF u = t THEN s ELSE stack[u]
  BY <1>0, StackStep, Zenon
<1>2. \A u \in HookThreads : \A g : Working(stack'[u], g) = Working(stack[u], g)
  BY <1>1
<1>3. Words'
  BY <1>2 DEF HookState, Words
<1> QED
  BY <1>1, <1>3 DEF HookState, Instructions

\* The top frame goes away: only when it is the last of SO_CONTINUE does the
\* thread do less to the words.
LEMMA ReturnKeeps ==
  ASSUME HookState, mutex' = mutex, NEW t \in HookThreads, InCall(t),
         Top(t).at \notin Active, Return(t), UNCHANGED instr
  PROVE  HookState'
<1>1. /\ stack[t] \in Seq(FrameType) /\ stack[t] # <<>> /\ Top(t) = Last(stack[t])
      /\ Nested(Front(stack[t])) /\ Within(Front(stack[t]), Owns(t))
  BY TopFrame
<1>2. \A g : Working(Front(stack[t]), g) = Working(stack[t], g)
  <2> TAKE g
  <2>1. Working(stack[t], g) = Working(Front(stack[t]), g) \cup Does(Last(stack[t]), g)
    BY <1>1, WorkingTop
  <2>2. Does(Last(stack[t]), g) = {}
    BY <1>1 DEF Does
  <2> QED
    BY ONLY <2>1, <2>2
<1>3. stack' = [stack EXCEPT ![t] = Front(stack[t])]
  BY DEF Return
<1> QED
  BY <1>1, <1>2, <1>3, StepAside

\* What the words of the function on top are.
LEMMA WordsOfTop ==
  ASSUME HookState, NEW t \in HookThreads, InCall(t)
  PROVE  /\ Top(t).at \in Active => /\ instr[Top(t).of] = WordsOf(Top(t).at)
                                    /\ Working(Front(stack[t]), Top(t).of) = {}
         /\ Len(stack[t]) \in {1, 4} =>
              \A f \in {Top(t).of} \cup Conts(Top(t).of) :
                instr[f] = Patch /\ Working(stack[t], f) = {} /\ f \in Owns(t)
         /\ Len(stack[t]) \in {3, 6} => instr[Top(t).of] = Original
<1> DEFINE s == stack[t]
           x == Top(t)
<1>1. /\ s \in Seq(FrameType) /\ s # <<>> /\ Nested(s) /\ x = Last(s)
      /\ x.of \in Owns(t) /\ x.of \in Hooked
  BY TopFrame
<1> HIDE DEF s, x
<1>2. \A f : Working(s, f) = Working(Front(s), f) \cup Does(x, f)
  BY <1>1, WorkingTop
<1>3. x.at \in Active => instr[x.of] = WordsOf(x.at) /\ Working(Front(s), x.of) = {}
  <2> HAVE x.at \in Active
  <2>1. Working(Front(s), x.of) = {}
    BY <1>1, NothingBelow
  <2>2. x.at \in Working(s, x.of)
    BY <1>2 DEF Does
  <2>3. instr[x.of] = WordsOf(x.at)
    BY <1>1, <2>2 DEF HookState, Words, s
  <2> QED
    BY <2>1, <2>3
<1>4. Len(s) \in {1, 4} =>
        \A f \in {x.of} \cup Conts(x.of) : instr[f] = Patch /\ Working(s, f) = {} /\ f \in Owns(t)
  <2> SUFFICES ASSUME Len(s) \in {1, 4}, NEW f \in {x.of} \cup Conts(x.of)
               PROVE  instr[f] = Patch /\ Working(s, f) = {} /\ f \in Owns(t)
    OBVIOUS
  <2>1. Working(s, f) = {}
    BY <1>1, NothingYet
  <2>2. f \in Owns(t) /\ f \in Hooked
    BY <1>1, Families
  <2>3. \A u \in HookThreads : Working(stack[u], f) = {}
    BY <2>1, <2>2, OwnWork DEF HookState, s
  <2>4. instr[f] = Patch
    BY <2>2, <2>3 DEF HookState, Words
  <2> QED
    BY <2>1, <2>2, <2>4
<1>5. Len(s) \in {3, 6} => instr[x.of] = Original
  <2> HAVE Len(s) \in {3, 6}
  <2>1. "repatch" \in Working(s, x.of)
    BY <1>1, OriginalRuns
  <2>2. instr[x.of] = WordsOf("repatch")
    BY <1>1, <2>1 DEF HookState, Words, s
  <2> QED
    BY <2>2 DEF WordsOf
<1> QED
  BY <1>3, <1>4, <1>5 DEF s, x

LEMMA EnterKeeps ==
  ASSUME HookState, mutex' = mutex, NEW t \in HookThreads, Enter(t)
  PROVE  HookState'
<1> DEFINE s == stack[t]
           f == Top(t).of
<1>1. InCall(t) /\ Top(t).at = "entry" /\ instr' = instr
  BY DEF Enter, Is
<1>2. /\ s \in Seq(FrameType) /\ s # <<>> /\ Top(t) = Last(s) /\ f \in Hooked
      /\ Len(s) \in {1, 2, 3, 4, 5, 6} /\ Top(t).at \in Kind(Len(s))
  BY <1>1, TopFrame
<1>3. Len(s) \in {1, 4} \/ Len(s) \in {3, 6}
  BY <1>1, <1>2 DEF Kind, Active
<1>4. ASSUME NEW x \in FrameType, x.of = f, x.todo \in Seq(Conts(f)), x.at \in Kind(Len(s)),
             x.at \notin Active, Becomes(t, x)
      PROVE  HookState'
  <2> DEFINE r == Append(Front(s), x)
  <2>1. /\ Nested(r) /\ Within(r, Owns(t))
        /\ \A g : Working(r, g) = Working(Front(s), g)
                     \cup Does(x, g)
    BY <1>1, <1>4, ReplacedTop
  <2>2. stack' = [stack EXCEPT ![t] = r]
    BY <1>4 DEF Becomes
  <2>3. \A g : Working(s, g) = Working(Front(s), g)
                  \cup Does(Top(t), g)
    BY <1>2, WorkingTop
  <2> HIDE DEF r
  <2>4. \A g : Working(r, g) = Working(s, g)
    BY <1>1, <1>4, <2>1, <2>3 DEF Active, Does
  <2> QED
    BY <1>1, <2>1, <2>2, <2>4, StepAside
<1>5. CASE Len(s) \in {1, 4}
  <2>1. instr[f] = Patch
    BY <1>1, <1>5, WordsOfTop
  <2>2. PICK todo \in Continues(f) : Becomes(t, [Frame("hook", f) EXCEPT !.todo = todo])
    BY <2>1 DEF Enter, Patch, Original
  <2> DEFINE x == [Frame("hook", f) EXCEPT !.todo = todo]
  <2>3. x = [at |-> "hook", of |-> f, todo |-> todo]
    BY DEF Frame
  <2>4. todo \in Seq(Conts(f)) /\ todo \in Seq(Hooked)
    BY <1>2, Continued, ContsOf
  <2>5. x \in FrameType /\ x.of = f /\ x.todo = todo /\ x.at = "hook"
    BY <1>2, <2>3, <2>4 DEF FrameType
  <2>6. x.at \in Kind(Len(s)) /\ x.at \notin Active
    BY <1>5, <2>5 DEF Kind, Active
  <2>7. Becomes(t, x)
    BY <2>2
  <2> HIDE DEF x
  <2> QED
    BY <1>4, <2>4, <2>5, <2>6, <2>7
<1>6. CASE Len(s) \in {3, 6}
  <2>1. instr[f] = Original
    BY <1>1, <1>6, WordsOfTop
  <2>2. Becomes(t, Frame("body", f))
    BY <2>1 DEF Enter, Patch, Original
  <2> DEFINE x == Frame("body", f)
  <2>3. x \in FrameType /\ x.of = f /\ x.todo \in Seq(Conts(f)) /\ x.at = "body"
    BY <1>2, FrameOf
  <2>4. x.at \in Kind(Len(s)) /\ x.at \notin Active
    BY <1>6, <2>3, KindIs
  <2>5. Becomes(t, x)
    BY <2>2
  <2> HIDE DEF x
  <2> QED
    BY <1>4, <2>3, <2>4, <2>5
<1> QED
  BY <1>3, <1>5, <1>6

LEMMA WriteKeeps ==
  ASSUME HookState, mutex' = mutex, NEW t \in HookThreads, InCall(t), Top(t).at \in Active,
         NEW next \in Active, NEW words \in WordPairs, words = WordsOf(next), Write(t, words, next)
  PROVE  HookState'
<1> DEFINE s == stack[t]
           f == Top(t).of
           x == Frame(next, f)
           r == Append(Front(s), x)
<1>1. /\ s \in Seq(FrameType) /\ s # <<>> /\ Top(t) = Last(s) /\ f \in Hooked /\ f \in Owns(t)
      /\ Len(s) \in {1, 2, 3, 4, 5, 6} /\ Top(t).at \in Kind(Len(s))
  BY TopFrame
<1>2. Kind(Len(s)) = Active
  BY <1>1, KindIs
<1>3. x \in FrameType /\ x.of = f /\ x.todo \in Seq(Conts(f)) /\ x.at = next
  BY <1>1, FrameOf
<1>4. /\ Nested(r) /\ Within(r, Owns(t))
      /\ \A g : Working(r, g) = Working(Front(s), g)
                   \cup Does(x, g)
  BY <1>2, <1>3, ReplacedTop
<1>5. \A g : Working(s, g) = Working(Front(s), g)
                \cup Does(Top(t), g)
  BY <1>1, WorkingTop
<1>6. Working(Front(s), f) = {}
  BY WordsOfTop
<1>7. stack' = [stack EXCEPT ![t] = r] /\ instr' = [instr EXCEPT ![f] = words]
  BY DEF Write, Becomes
<1> HIDE DEF r, x
<1>8. Working(r, f) = {next}
  BY <1>3, <1>4, <1>6 DEF Does
<1>9. instr' \in [Hooked -> WordPairs] /\ instr'[f] = words
      /\ \A g \in Hooked \ {f} : instr'[g] = instr[g]
  BY <1>1, <1>7 DEF HookState, Instructions
<1>10. \A g \in Hooked \ {f} : Working(r, g) = Working(s, g)
  BY <1>3, <1>4, <1>5 DEF Does
<1> HIDE DEF f, s
<1>11. \A doing \in Working(r, f) : instr'[f] = WordsOf(doing)
  BY <1>8, <1>9
<1>12. Instructions'
  BY <1>9 DEF Instructions
<1>13. Working(r, f) # {}
  BY <1>8
<1>14. \A g \in Hooked \ {f} : Working(r, g) = Working(stack[t], g) /\ instr'[g] = instr[g]
  BY <1>9, <1>10 DEF s
<1> QED
  BY <1>1, <1>4, <1>7, <1>11, <1>12, <1>13, <1>14, StepKeeps

LEMMA WordsAre ==
  /\ WordsOf("restore") = <<"jump", "target">> /\ WordsOf("restoring") = <<"orig1", "target">>
  /\ WordsOf("continue") = <<"orig1", "orig2">> /\ WordsOf("repatch") = <<"orig1", "orig2">>
  /\ WordsOf("repatching") = <<"jump", "orig2">>
  /\ \A doing \in Active : WordsOf(doing) \in WordPairs
  /\ {"restore", "restoring", "continue", "repatch", "repatching"} \subseteq Active
<1>1. /\ WordsOf("restore") = <<"jump", "target">> /\ WordsOf("restoring") = <<"orig1", "target">>
      /\ WordsOf("continue") = <<"orig1", "orig2">> /\ WordsOf("repatch") = <<"orig1", "orig2">>
      /\ WordsOf("repatching") = <<"jump", "orig2">>
  BY DEF WordsOf, Patch, Original
<1>2. \A doing \in Active : WordsOf(doing) \in WordPairs
  BY <1>1 DEF Active, WordPairs
<1> QED
  BY <1>1, <1>2 DEF Active

LEMMA WritesKeep ==
  ASSUME HookState, mutex' = mutex, NEW t \in HookThreads,
         Restore1(t) \/ Restore2(t) \/ Repatch1(t)
  PROVE  HookState'
<1> DEFINE w == instr[Top(t).of]
<1>1. CASE Restore1(t)
  <2>1. InCall(t) /\ Top(t).at = "restore" /\ Write(t, Restored(w, 1), "restoring")
    BY <1>1 DEF Restore1, Is
  <2>2. w = <<"jump", "target">>
    BY <2>1, WordsOfTop, WordsAre
  <2>3. Restored(w, 1) = <<"orig1", "target">>
    BY <2>2 DEF Restored, Original
  <2> QED
    BY <2>1, <2>3, WordsAre, WriteKeeps
<1>2. CASE Restore2(t)
  <2>1. InCall(t) /\ Top(t).at = "restoring" /\ Write(t, Restored(w, 2), "continue")
    BY <1>2 DEF Restore2, Is
  <2>2. w = <<"orig1", "target">>
    BY <2>1, WordsOfTop, WordsAre
  <2>3. Restored(w, 2) = <<"orig1", "orig2">>
    BY <2>2 DEF Restored, Original
  <2> QED
    BY <2>1, <2>3, WordsAre, WriteKeeps
<1>3. CASE Repatch1(t)
  <2>1. InCall(t) /\ Top(t).at = "repatch" /\ Write(t, [w EXCEPT ![1] = Patch[1]], "repatching")
    BY <1>3 DEF Repatch1, Is
  <2>2. w = <<"orig1", "orig2">>
    BY <2>1, WordsOfTop, WordsAre
  <2>3. [w EXCEPT ![1] = Patch[1]] = <<"jump", "orig2">>
    BY <2>2 DEF Patch
  <2> QED
    BY <2>1, <2>3, WordsAre, WriteKeeps
<1> QED
  BY <1>1, <1>2, <1>3

\* The top frame goes on and a new one is put on it.
GoesOnUnder(t, x, y) ==
  /\ InCall(t) /\ Len(stack[t]) < 6
  /\ x \in FrameType /\ x.of = Top(t).of /\ x.todo \in Seq(Conts(x.of))
  /\ x.at \in Kind(Len(stack[t])) /\ x.at = Under(Len(stack[t]))
  /\ y \in FrameType /\ y.of \in From(Len(stack[t]), x.of) /\ y.of \in Owns(t)
  /\ y.todo \in Seq(Conts(y.of)) /\ y.at \in Kind(Len(stack[t]) + 1)

DoesBoth(s, front, x, y) == \A g : Working(s, g) = (Working(front, g) \cup Does(x, g)) \cup Does(y, g)

LEMMA ReplacedAndPushed ==
  ASSUME HookState, NEW t \in HookThreads, NEW x, NEW y, GoesOnUnder(t, x, y),
         NEW r, r = Front(stack[t]) \o <<x, y>>
  PROVE  /\ Nested(r) /\ Within(r, Owns(t))
         /\ DoesBoth(r, Front(stack[t]), x, y)
<1>0. /\ InCall(t) /\ Len(stack[t]) < 6
      /\ x \in FrameType /\ x.of = Top(t).of /\ x.todo \in Seq(Conts(x.of))
      /\ x.at \in Kind(Len(stack[t])) /\ x.at = Under(Len(stack[t]))
      /\ y \in FrameType /\ y.of \in From(Len(stack[t]), x.of) /\ y.of \in Owns(t)
      /\ y.todo \in Seq(Conts(y.of)) /\ y.at \in Kind(Len(stack[t]) + 1)
  BY DEF GoesOnUnder
<1> DEFINE n == Len(stack[t])
           front == Front(stack[t])
           q == Append(front, x)
<1>1. /\ Nested(q) /\ Within(q, Owns(t)) /\ q \in Seq(FrameType)
      /\ q # <<>> /\ Last(q) = x /\ Len(q) = n
      /\ \A g : Working(q, g) = Working(front, g)
                   \cup Does(x, g)
  BY <1>0, ReplacedTop
<1>2. front \in Seq(FrameType)
  BY <1>0, TopFrame
<1>3. r = Append(q, y)
  BY <1>0, <1>2, PushedTwice
<1> HIDE DEF q, front
<1>4. Nested(r) /\ Within(r, Owns(t))
  <2>1. Nested(Append(q, y)) /\ Within(Append(q, y), Owns(t))
    BY <1>0, <1>1, PushKeeps
  <2> QED
    BY <1>3, <2>1
<1>5. \A g : Working(r, g) = Working(q, g) \cup Does(y, g)
  <2>1. \A g : Working(Append(q, y), g) =
                 Working(q, g) \cup Does(y, g)
    BY <1>0, <1>1, WorkingPushed
  <2> QED
    BY <1>3, <2>1
<1>6. \A g : Working(r, g) = (Working(front, g)
                \cup Does(x, g))
                \cup Does(y, g)
  BY <1>1, <1>5
<1> QED
  BY <1>4, <1>6 DEF front, DoesBoth

LEMMA HookKeeps ==
  ASSUME HookState, mutex' = mutex, NEW t \in HookThreads, Hook(t)
  PROVE  HookState'
<1> DEFINE s == stack[t]
           todo == Top(t).todo
<1>1. InCall(t) /\ Top(t).at = "hook" /\ instr' = instr
  BY DEF Hook, Is
<1>2. CASE todo = <<>>
  <2>1. Return(t)
    BY <1>2 DEF Hook
  <2> QED
    BY <1>1, <2>1, KindIs, ReturnKeeps
<1>3. CASE todo # <<>>
  <2> DEFINE f == Head(todo)
             x == [Top(t) EXCEPT !.todo = Tail(todo)]
             y == Frame("restore", f)
             r == Front(s) \o <<x, y>>
  <2>1. stack' = [stack EXCEPT ![t] = r]
    BY <1>3 DEF Hook
  <2>2. /\ s \in Seq(FrameType) /\ s # <<>> /\ Top(t) = Last(s) /\ Top(t) \in FrameType
        /\ Len(s) \in {1, 2, 3, 4, 5, 6} /\ Top(t).at \in Kind(Len(s))
        /\ Top(t).of \in Hooked /\ Top(t).of \in Owns(t)
        /\ todo \in Seq(Conts(Top(t).of))
    BY <1>1, TopFrame
  <2>3. Len(s) \in {1, 4}
    BY <1>1, <2>2 DEF Kind, Active
  <2>4. f \in Conts(Top(t).of) /\ Tail(todo) \in Seq(Conts(Top(t).of))
    BY <1>3, <2>2, FrontOfList
  <2>5. /\ instr[f] = Patch /\ Working(s, f) = {} /\ f \in Owns(t)
    BY <1>1, <2>3, <2>4, WordsOfTop
  <2>6. f \in Hooked /\ Tail(todo) \in Seq(Hooked)
    <3>1. Conts(Top(t).of) \subseteq Hooked
      BY <2>2, ContsOf
    <3> QED
      BY <2>4, <3>1, ListOfMore
  <2>7. x = [at |-> "hook", of |-> Top(t).of, todo |-> Tail(todo)]
    BY <1>1, <2>2, GoesOn
  <2>8. x \in FrameType /\ x.of = Top(t).of /\ x.todo = Tail(todo) /\ x.at = "hook"
    BY <2>2, <2>6, <2>7 DEF FrameType
  <2>9. y \in FrameType /\ y.of = f /\ y.at = "restore" /\ y.todo \in Seq(Conts(f)) /\ y.at \in Active
    BY <2>6, FrameOf, WordsAre
  <2>10. /\ Kind(Len(s)) = {"entry", "hook"} /\ Under(Len(s)) = "hook" /\ Kind(Len(s) + 1) = Active
         /\ From(Len(s), Top(t).of) = Conts(Top(t).of) /\ Len(s) < 6
    <3>1. \A n : n \in {1, 4} => n < 6
      OBVIOUS
    <3> QED
      BY <2>3, <3>1, KindIs
  <2> HIDE DEF x, y, f, todo
  <2>11. /\ Nested(r) /\ Within(r, Owns(t))
         /\ \A g : Working(r, g) = (Working(Front(s), g)
                \cup Does(x, g))
                \cup Does(y, g)
    <3>1. GoesOnUnder(t, x, y)
      BY <1>1, <2>4, <2>5, <2>8, <2>9, <2>10 DEF GoesOnUnder
    <3>2. r = Front(stack[t]) \o <<x, y>>
      OBVIOUS
    <3> HIDE DEF r
    <3>3. Nested(r) /\ Within(r, Owns(t)) /\ DoesBoth(r, Front(stack[t]), x, y)
      BY <3>1, <3>2, ReplacedAndPushed
    <3> QED
      BY <3>3 DEF DoesBoth
  <2>12. \A g : Working(s, g) = Working(Front(s), g)
                  \cup Does(Top(t), g)
    BY <2>2, WorkingTop
  <2> HIDE DEF r
  <2>13. \A g : Working(r, g) = Working(s, g) \cup (IF g = f THEN {"restore"} ELSE {})
    BY <1>1, <2>8, <2>9, <2>11, <2>12, KindIs DEF Does
  <2>14. Working(r, f) = {"restore"}
    BY <2>5, <2>13
  <2>15. \A doing \in Working(r, f) : instr'[f] = WordsOf(doing)
    BY <1>1, <2>5, <2>14, WordsAre DEF Patch
  <2>16. Instructions' /\ instr'[f] = Patch
    BY <1>1, <2>5 DEF HookState, Instructions
  <2>17. \A g \in Hooked \ {f} : Working(r, g) = Working(stack[t], g) /\ instr'[g] = instr[g]
    BY <1>1, <2>13
  <2> QED
    BY <2>1, <2>5, <2>11, <2>15, <2>16, <2>17, StepKeeps
<1> QED
  BY <1>2, <1>3

LEMMA ContinueKeeps ==
  ASSUME HookState, mutex' = mutex, NEW t \in HookThreads, Continue(t)
  PROVE  HookState'
<1> DEFINE s == stack[t]
           f == Top(t).of
           x == Frame("repatch", f)
           y == Frame("entry", f)
           r == Front(s) \o <<x, y>>
<1>1. InCall(t) /\ Top(t).at = "continue" /\ instr' = instr /\ stack' = [stack EXCEPT ![t] = r]
  BY DEF Continue, Is
<1>2. /\ s \in Seq(FrameType) /\ s # <<>> /\ Top(t) = Last(s) /\ Top(t) \in FrameType
      /\ Len(s) \in {1, 2, 3, 4, 5, 6} /\ Top(t).at \in Kind(Len(s))
      /\ f \in Hooked /\ f \in Owns(t)
  BY <1>1, TopFrame
<1>3. Len(s) \in {2, 5}
  BY <1>1, <1>2 DEF Kind
<1>4. /\ Kind(Len(s)) = Active /\ Under(Len(s)) = "repatch" /\ Kind(Len(s) + 1) = {"entry", "body"}
      /\ From(Len(s), f) = {f} /\ Len(s) < 6
  <2>1. \A n : n \in {2, 5} => n < 6
    OBVIOUS
  <2> QED
    BY <1>3, <2>1, KindIs
<1>5. /\ x \in FrameType /\ x.of = f /\ x.at = "repatch" /\ x.todo \in Seq(Conts(f)) /\ x.at \in Active
      /\ y \in FrameType /\ y.of = f /\ y.at = "entry" /\ y.todo \in Seq(Conts(f)) /\ y.at \notin Active
  BY <1>2, FrameOf, WordsAre, KindIs
<1>6. instr[f] = WordsOf("continue") /\ Working(Front(s), f) = {}
  BY <1>1, WordsAre, WordsOfTop
<1> HIDE DEF x, y
<1>7. /\ Nested(r) /\ Within(r, Owns(t))
      /\ \A g : Working(r, g) = (Working(Front(s), g)
             \cup Does(x, g))
             \cup Does(y, g)
  <2>1. GoesOnUnder(t, x, y)
    BY <1>1, <1>2, <1>4, <1>5 DEF GoesOnUnder
  <2>2. r = Front(stack[t]) \o <<x, y>>
    OBVIOUS
  <2> HIDE DEF r
  <2>3. Nested(r) /\ Within(r, Owns(t)) /\ DoesBoth(r, Front(stack[t]), x, y)
    BY <2>1, <2>2, ReplacedAndPushed
  <2> QED
    BY <2>3 DEF DoesBoth
<1>8. \A g : Working(s, g) = Working(Front(s), g)
                \cup Does(Top(t), g)
  BY <1>2, WorkingTop
<1> HIDE DEF r
<1>9. Working(r, f) = {"repatch"} /\ \A g : g # f => Working(r, g) = Working(s, g)
  <2>1. \A g : Working(r, g) = Working(Front(s), g) \cup (IF f = g THEN {"repatch"} ELSE {})
    BY <1>5, <1>7 DEF Does
  <2>2. \A g : g # f => Working(s, g) = Working(Front(s), g)
    BY <1>8 DEF Does
  <2> QED
    BY <1>6, <2>1, <2>2
<1>10. \A doing \in Working(r, f) : instr'[f] = WordsOf(doing)
  BY <1>1, <1>6, <1>9, WordsAre
<1>11. Instructions' /\ Working(r, f) # {}
  BY <1>1, <1>9 DEF HookState, Instructions
<1>12. \A g \in Hooked \ {f} : Working(r, g) = Working(stack[t], g) /\ instr'[g] = instr[g]
  BY <1>1, <1>9
<1> HIDE DEF f, s
<1> QED
  BY <1>1, <1>2, <1>7, <1>10, <1>11, <1>12, StepKeeps

LEMMA RepatchKeeps ==
  ASSUME HookState, mutex' = mutex, NEW t \in HookThreads, Repatch2(t)
  PROVE  HookState'
<1> DEFINE s == stack[t]
           f == Top(t).of
           r == Front(s)
<1>1. /\ InCall(t) /\ Top(t).at = "repatching" /\ stack' = [stack EXCEPT ![t] = r]
      /\ instr' = [instr EXCEPT ![f][2] = Patch[2]]
  BY DEF Repatch2, Is, Return
<1>2. /\ s \in Seq(FrameType) /\ s # <<>> /\ Top(t) = Last(s)
      /\ Nested(r) /\ Within(r, Owns(t)) /\ f \in Hooked /\ f \in Owns(t)
  BY <1>1, TopFrame
<1>3. instr[f] = <<"jump", "orig2">> /\ Working(r, f) = {}
  BY <1>1, WordsAre, WordsOfTop
<1>4. \A g : Working(s, g) = Working(r, g)
                \cup Does(Top(t), g)
  BY <1>2, WorkingTop
<1> HIDE DEF r
<1>5. [instr[f] EXCEPT ![2] = Patch[2]] = Patch
  BY <1>3 DEF Patch
<1>6. instr \in [Hooked -> WordPairs]
  BY DEF HookState, Instructions
<1>7. instr'[f] = Patch /\ \A g \in Hooked \ {f} : instr'[g] = instr[g]
  BY <1>1, <1>2, <1>5, <1>6
<1>8. Instructions'
  BY <1>1, <1>2, <1>5, <1>6 DEF Instructions, WordPairs, Patch
<1>9. \A g \in Hooked \ {f} : Working(r, g) = Working(stack[t], g) /\ instr'[g] = instr[g]
  BY <1>4, <1>7 DEF Does
<1>10. /\ \A doing \in Working(r, f) : instr'[f] = WordsOf(doing)
       /\ instr'[f] # Patch => Working(r, f) # {}
  BY <1>3, <1>7
<1> HIDE DEF f, s
<1> QED
  BY <1>1, <1>2, <1>8, <1>9, <1>10, StepKeeps

LEMMA BodyKeeps ==
  ASSUME HookState, mutex' = mutex, NEW t \in HookThreads, Body(t)
  PROVE  HookState'
<1> DEFINE s == stack[t]
           f == Top(t).of
<1>1. InCall(t) /\ Top(t).at = "body" /\ instr' = instr /\ Top(t).at \notin Active
  BY KindIs DEF Body, Is
<1>2. CASE Return(t)
  BY <1>1, <1>2, ReturnKeeps
<1>3. ASSUME NEW g \in Callees(f), Push(t, Frame("entry", g))
      PROVE  HookState'
  <2> DEFINE x == Frame("entry", g)
             r == Append(s, x)
  <2>1. /\ s \in Seq(FrameType) /\ s # <<>> /\ Nested(s) /\ Within(s, Owns(t)) /\ Top(t) = Last(s)
        /\ Len(s) \in {1, 2, 3, 4, 5, 6} /\ Top(t).at \in Kind(Len(s))
        /\ f \in Hooked /\ f \in Owns(t)
    BY <1>1, TopFrame
  <2>2. Len(s) \in {3, 6}
    BY <1>1, <2>1 DEF Kind, Active
  <2>3. Len(s) # 6
    <3> SUFFICES ASSUME Len(s) = 6 PROVE FALSE
      OBVIOUS
    <3>1. s[6].of = "Clear" /\ Last(s) = s[6]
      BY <2>1, SecondCall DEF Last
    <3> QED
      BY <1>3, <2>1, <3>1, ContsOf
  <2>4. Len(s) = 3 /\ Last(s).at = Under(Len(s)) /\ g \in From(Len(s), f)
    BY <1>1, <1>3, <2>1, <2>2, <2>3, KindIs
  <2>5. g \in Owns(t) /\ g \in Hooked
    BY <1>3, <2>1, Families
  <2>6. x \in FrameType /\ x.of = g /\ x.at = "entry" /\ x.todo \in Seq(Conts(g)) /\ x.at \notin Active
    BY <2>5, FrameOf, KindIs
  <2>7. x.at \in Kind(Len(s) + 1) /\ Len(s) < 6
    <3>1. Len(s) + 1 = 4 /\ Len(s) < 6
      BY <2>4
    <3> QED
      BY <2>6, <3>1, KindIs
  <2>8. stack' = [stack EXCEPT ![t] = r]
    BY <1>3 DEF Push
  <2> HIDE DEF x
  <2>9. Nested(r) /\ Within(r, Owns(t))
    BY <2>1, <2>4, <2>5, <2>6, <2>7, PushKeeps
  <2>10. \A h : Working(r, h) = Working(s, h) \cup Does(x, h)
    BY <2>1, <2>6, WorkingPushed
  <2> HIDE DEF r
  <2>11. \A h : Working(r, h) = Working(stack[t], h)
    BY <2>6, <2>10 DEF Does
  <2> QED
    BY <1>1, <2>8, <2>9, <2>11, StepAside
<1>4. Return(t) \/ \E g \in Callees(f) : Push(t, Frame("entry", g))
  BY DEF Body
<1> QED
  BY <1>2, <1>3, <1>4

LEMMA HookStepKeeps ==
  ASSUME HookState, mutex' = mutex, NEW t \in HookThreads, HookStep(t)
  PROVE  HookState'
BY EnterKeeps, HookKeeps, WritesKeep, ContinueKeeps, RepatchKeeps, BodyKeeps DEF HookStep

-----------------------------------------------------------------------------
(* Steps of the loader and of the screen *)

LEMMA MutexKept ==
  ASSUME Stacks, mutex \in {Null, Loader, Screen},
         \/ mutex' = mutex
         \/ mutex = Null
         \/ mutex # Null /\ stack[mutex] = <<>>
  PROVE  Kept
<1> SUFFICES ASSUME NEW u \in HookThreads, stack[u] # <<>>
             PROVE  Owns(u) \subseteq Owns(u)'
  BY DEF Kept
<1>1. CASE mutex' = mutex
  BY <1>1 DEF Owns
<1>2. CASE mutex # u
  BY <1>2 DEF Owns
<1> QED
  BY <1>1, <1>2, ThreadsAssumption

LEMMA NoCall ==
  ASSUME HookState, Kept, UNCHANGED hookVars
  PROVE  HookState'
<1>1. instr' = instr /\ stack' = stack
  BY DEF hookVars
<1>2. ASSUME NEW u \in HookThreads
      PROVE  Nested(stack'[u]) /\ Within(stack'[u], Owns(u)')
  <2>1. stack'[u] = stack[u] /\ Nested(stack[u]) /\ Within(stack[u], Owns(u))
    BY <1>1 DEF HookState, Stacks
  <2>2. CASE stack[u] = <<>>
    BY <2>1, <2>2 DEF Within
  <2>3. CASE Owns(u) \subseteq Owns(u)'
    BY <2>1, <2>3 DEF Within
  <2> QED
    BY <2>2, <2>3 DEF Kept
<1>3. Stacks'
  BY <1>1, <1>2 DEF HookState, Stacks
<1>4. Words' /\ Instructions'
  BY <1>1 DEF HookState, Words, Instructions
<1> QED
  BY <1>3, <1>4 DEF HookState

LEMMA CallKeeps ==
  ASSUME HookState, Kept, NEW t \in HookThreads, stack[t] = <<>>,
         NEW f \in Hooked, f \in Owns(t)', Call(t, f)
  PROVE  HookState'
<1> DEFINE x == Frame("entry", f)
           s == Append(stack[t], x)
<1>1. x \in FrameType /\ x.at = "entry" /\ x.of = f /\ x.todo \in Seq(Conts(f))
  BY FrameOf
<1>2. stack' = [stack EXCEPT ![t] = s] /\ instr' = instr
  BY DEF Call, Push
<1>3. stack[t] \in Seq(FrameType) /\ Nested(stack[t]) /\ Len(stack[t]) = 0
  BY DEF HookState, Stacks
<1> HIDE DEF x
<1>4. Within(stack[t], Owns(t)')
  BY <1>3 DEF Within
<1>5. x.at \in Kind(Len(stack[t]) + 1) /\ Len(stack[t]) < 6
  <2>1. Len(stack[t]) + 1 = 1 /\ Len(stack[t]) < 6
    BY <1>3
  <2>2. x.at \in Kind(1)
    BY <1>1, KindIs
  <2> QED
    BY <2>1, <2>2
<1>6. Nested(s) /\ Within(s, Owns(t)')
  BY <1>1, <1>3, <1>4, <1>5, PushKeeps
<1>7. \A g : Working(s, g) = Working(stack[t], g) \cup Does(x, g)
  BY <1>1, <1>3, WorkingPushed
<1> HIDE DEF s
<1>8. Stacks' /\ \A u \in HookThreads : stack'[u] = IF u = t THEN s ELSE stack[u]
  <2>1. Stacks
    BY DEF HookState
  <2> QED
    BY <1>2, <1>6, <2>1, StackChange
<1>9. \A g : Working(s, g) = Working(stack[t], g)
  <2>1. x.at \notin Active
    BY <1>1, KindIs
  <2>2. \A g : Does(x, g) = {}
    BY <2>1 DEF Does
  <2> QED
    BY <1>7, <2>2
<1>10. \A u \in HookThreads : \A g : Working(stack'[u], g) = Working(stack[u], g)
  BY <1>8, <1>9
<1>11. Words' /\ Instructions'
  BY <1>2, <1>10 DEF HookState, Words, Instructions
<1> QED
  BY <1>8, <1>11 DEF HookState

LEMMA LoadKeeps ==
  ASSUME HookState, Mutex, Load
  PROVE  HookState' /\ Mutex'
<1>1. UNCHANGED hookVars /\ stack' = stack
  BY DEF Load, hookVars
<1>2. mutex' = mutex /\ pc \notin Uploading /\ pc' \notin Uploading /\ stack[Loader] = <<>>
  <2>1. CASE worldAllocateSegments
    BY <2>1 DEF worldAllocateSegments, Uploading
  <2>2. CASE AllocateTracking
    BY <2>2 DEF AllocateTracking, Leave, Mutex, Uploading
  <2>3. CASE AllocateBuffers
    BY <2>3 DEF AllocateBuffers, Leave, Mutex, Uploading
  <2>4. CASE Finish
    BY <2>4 DEF Finish, Leave, Mutex, Uploading
  <2>5. CASE SkipChunk
    BY <2>5 DEF SkipChunk, Mutex, Uploading
  <2>6. CASE ReadChunk
    BY <2>6 DEF ReadChunk, Mutex, Uploading
  <2>7. CASE DecodeTexture
    BY <2>7 DEF DecodeTexture, Mutex, Uploading
  <2>8. CASE ChunkIsDone
    BY <2>8 DEF ChunkIsDone, Mutex, Uploading
  <2> QED
    BY <2>1, <2>2, <2>3, <2>4, <2>5, <2>6, <2>7, <2>8 DEF Load
<1>3. Mutex'
  BY <1>1, <1>2 DEF Mutex
<1>4. Kept
  BY <1>2, MutexKept DEF HookState, Mutex
<1> QED
  BY <1>1, <1>3, <1>4, NoCall

LEMMA PlayKeeps ==
  ASSUME HookState, Mutex, PlayWorld
  PROVE  HookState' /\ Mutex'
<1>1. CASE Load
  BY <1>1, LoadKeeps
<1>2. Loader \in HookThreads /\ Screen \in HookThreads /\ Loader # Screen /\ Null \notin HookThreads
  BY ThreadsAssumption
<1>3. Guarded \cup Loading \cup Drawing \subseteq Hooked
  BY DEF Loading, Drawing, Guarded, Hooked, Replaced, Shadows, patch_touch_ui
<1>4. Stacks /\ stack \in [HookThreads -> Seq(FrameType)]
  BY DEF HookState, Stacks
<1>5. CASE StartUpload
  <2>1. pc = "upload" /\ mutex = Null /\ mutex' = Loader /\ pc' = "create" /\ Call(Loader, "CreateTexture2")
    BY <1>5 DEF StartUpload, Locked, lockLoadingMutex
  <2>2. stack[Loader] = <<>>
    BY <2>1 DEF Mutex
  <2>3. Kept
    BY <1>4, <2>1, MutexKept
  <2>4. "CreateTexture2" \in Owns(Loader)' /\ "CreateTexture2" \in Hooked
    BY <1>3, <2>1 DEF Owns, Guarded
  <2>5. HookState'
    BY <1>2, <2>1, <2>2, <2>3, <2>4, CallKeeps
  <2>6. Mutex'
    BY <2>1 DEF Mutex, Uploading
  <2> QED
    BY <2>5, <2>6
<1>6. CASE CreateTexture
  <2>1. pc = "create" /\ stack[Loader] = <<>> /\ mutex' = mutex
    BY <1>6 DEF CreateTexture
  <2>2. mutex = Loader
    BY <2>1 DEF Mutex, Uploading
  <2>3. Kept
    BY <1>4, <2>1, <2>2, MutexKept
  <2>4. CASE pc' = "crashed" /\ UNCHANGED hookVars
    <3>1. Mutex'
      BY <2>1, <2>2, <2>4 DEF Mutex, Uploading, hookVars
    <3> QED
      BY <2>3, <2>4, <3>1, NoCall
  <2>5. CASE pc' = "fill" /\ Call(Loader, "LockRect")
    <3>1. "LockRect" \in Owns(Loader)' /\ "LockRect" \in Hooked
      BY <1>3, <2>1, <2>2 DEF Owns, Guarded
    <3>2. HookState'
      BY <1>2, <2>1, <2>3, <2>5, <3>1, CallKeeps
    <3>3. Mutex'
      BY <2>1, <2>2, <2>5 DEF Mutex, Uploading
    <3> QED
      BY <3>2, <3>3
  <2> QED
    BY <1>6, <2>4, <2>5 DEF CreateTexture
<1>7. CASE FillTexture
  <2>1. pc = "fill" /\ stack[Loader] = <<>> /\ pc' = "texture" /\ UNCHANGED hookVars
        /\ mutex' = IF mutex = Loader THEN Null ELSE mutex
    BY <1>7 DEF FillTexture
  <2>2. mutex = Loader
    BY <2>1 DEF Mutex, Uploading
  <2>3. mutex' = Null
    BY <2>1, <2>2
  <2>4. Kept
    BY <1>2, <1>4, <2>1, <2>2, MutexKept
  <2>5. Mutex'
    BY <1>2, <2>1, <2>3 DEF Mutex, Uploading, hookVars
  <2> QED
    BY <2>1, <2>4, <2>5, NoCall
<1>8. CASE CallCore
  <2>1. PICK f \in Loading : Call(Loader, f)
    BY <1>8 DEF CallCore
  <2>2. pc = "idle" /\ stack[Loader] = <<>> /\ UNCHANGED worldVars
    BY <1>8 DEF CallCore
  <2>3. mutex' = mutex /\ pc' = pc
    BY <2>2 DEF worldVars
  <2>4. Kept
    BY <1>4, <2>3, MutexKept DEF Mutex
  <2>5. f \in Owns(Loader)' /\ f \in Hooked
    BY <1>3 DEF Owns
  <2>6. HookState'
    BY <1>2, <2>1, <2>2, <2>4, <2>5, CallKeeps
  <2>7. Mutex'
    BY <2>2, <2>3 DEF Mutex
  <2> QED
    BY <2>6, <2>7
<1>9. ASSUME NEW f \in Hooked, stack[Screen] = <<>>, f \in Owns(Screen), Call(Screen, f), UNCHANGED worldVars
      PROVE  HookState' /\ Mutex'
  <2>1. mutex' = mutex /\ pc' = pc
    BY <1>9 DEF worldVars
  <2>2. Kept
    BY <1>4, <2>1, MutexKept DEF Mutex
  <2>3. f \in Owns(Screen)'
    BY <1>9, <2>1 DEF Owns
  <2>4. HookState'
    BY <1>2, <1>9, <2>2, <2>3, CallKeeps
  <2>5. stack'[Loader] = stack[Loader]
    BY <1>2, <1>4, <1>9 DEF Call, Push
  <2>6. Mutex'
    BY <2>1, <2>5 DEF Mutex
  <2> QED
    BY <2>4, <2>6
<1>10. CASE Draw
  <2>1. PICK f \in Drawing : Call(Screen, f)
    BY <1>10 DEF Draw
  <2>2. f \in Owns(Screen) /\ f \in Hooked
    BY <1>2, <1>3 DEF Owns, Drawn
  <2> QED
    BY <1>9, <1>10, <2>1, <2>2 DEF Draw
<1>11. CASE ScreenLocks
  <2>1. mutex = Null /\ mutex' = Screen /\ pc' = pc /\ UNCHANGED hookVars
    BY <1>11 DEF ScreenLocks, lockLoadingMutex
  <2>2. Kept
    BY <1>4, <2>1, MutexKept
  <2>3. Mutex'
    BY <1>2, <2>1 DEF Mutex, hookVars
  <2> QED
    BY <2>1, <2>2, <2>3, NoCall
<1>12. CASE ScreenCreates
  <2>1. PICK f \in {"CreateTexture2", "LockRect"} : Call(Screen, f)
    BY <1>12 DEF ScreenCreates
  <2>2. f \in Owns(Screen) /\ f \in Hooked
    BY <1>3, <1>12 DEF ScreenCreates, Owns, Guarded
  <2> QED
    BY <1>9, <1>12, <2>1, <2>2 DEF ScreenCreates
<1>13. CASE ScreenReleases
  <2>1. mutex = Screen /\ stack[Screen] = <<>> /\ mutex' = Null /\ pc' = pc /\ UNCHANGED hookVars
    BY <1>13 DEF ScreenReleases
  <2>2. Kept
    BY <1>2, <1>4, <2>1, MutexKept
  <2>3. Mutex'
    BY <1>2, <2>1 DEF Mutex, hookVars
  <2> QED
    BY <2>1, <2>2, <2>3, NoCall
<1>14. CASE InHooks
  <2>1. PICK t \in {Loader, Screen} : HookStep(t)
    BY <1>14 DEF InHooks
  <2>2. mutex' = mutex /\ pc' = pc
    BY <1>14 DEF InHooks, worldVars
  <2>3. HookState'
    BY <1>2, <2>1, <2>2, HookStepKeeps
  <2>4. t \in HookThreads /\ stack[t] # <<>>
    BY <1>2, <2>1 DEF HookStep, Enter, Hook, Restore1, Restore2, Continue, Repatch1, Repatch2, Body, Is, InCall
  <2>5. \E s : stack' = [stack EXCEPT ![t] = s]
    BY <2>1 DEF HookStep, Enter, Hook, Restore1, Restore2, Continue, Repatch1, Repatch2, Body,
                Write, Becomes, Return, Push
  <2>6. stack'[Loader] # <<>> => stack[Loader] # <<>>
    BY <1>2, <1>4, <2>4, <2>5
  <2>7. Mutex'
    BY <2>2, <2>6 DEF Mutex
  <2> QED
    BY <2>3, <2>7
<1> QED
  BY <1>1, <1>5, <1>6, <1>7, <1>8, <1>10, <1>11, <1>12, <1>13, <1>14 DEF PlayWorld

-----------------------------------------------------------------------------
(* The loading of the libraries *)

Staged ==
  stage \in [library : {stage.library}, step : {stage.step}, segment : {stage.segment}, file : {stage.file}]

\* No hook is called before the program runs, and the functions are patched
\* when the game is linked.
LEMMA BootStage ==
  ASSUME Staged, Boot, ~so_patch
  PROVE  Staged' /\ stage.step # "running" /\ (Patched' => Patched) /\ UNCHANGED hookVars
<1>1. UNCHANGED hookVars
  BY DEF Boot
<1> USE DEF Staged, Patched, At, Goto
<1>2. CASE so_file_load
  BY <1>1, <1>2 DEF so_file_load, LoadFails
<1>3. CASE LoadSegment
  BY <1>1, <1>3 DEF LoadSegment, LoadFails
<1>4. CASE GiveUp
  BY <1>1, <1>4 DEF GiveUp
<1>5. CASE FindSections
  BY <1>1, <1>5 DEF FindSections, LoadFails
<1>6. CASE so_relocate
  BY <1>1, <1>6 DEF so_relocate
<1>7. CASE so_resolve
  BY <1>1, <1>7 DEF so_resolve, Library
<1>8. CASE so_flush_caches
  BY <1>1, <1>8 DEF so_flush_caches
<1>9. CASE so_initialize
  BY <1>1, <1>9 DEF so_initialize, NextLibrary, Library
<1> QED
  BY <1>2, <1>3, <1>4, <1>5, <1>6, <1>7, <1>8, <1>9 DEF Boot

LEMMA PatchStage ==
  ASSUME Staged, so_patch
  PROVE  Staged' /\ stage.step # "running"
         /\ instr' = [f \in Hooked |-> Patch] /\ stack' = stack
BY DEF Staged, so_patch, At, Goto, hook_addr

LEMMA EmptyStack == \A f : Working(<<>>, f) = {}
BY DEF Working

\* What every thread is in, who has the mutex and what the words of each hooked
\* function are, in every state of the game.
THEOREM HooksInvariant == GameSpec => []HookInv
<1>1. GameInit => HookInv
  <2> SUFFICES ASSUME GameInit PROVE HookInv
    OBVIOUS
  <2>1. instr = [f \in Hooked |-> Original] /\ stack = [t \in HookThreads |-> <<>>]
    BY DEF GameInit, HookInit
  <2>2. Instructions
    BY <2>1 DEF Instructions, Original, WordPairs
  <2>3. \A t \in HookThreads : stack[t] = <<>>
    BY <2>1
  <2>4. <<>> \in Seq(FrameType) /\ Nested(<<>>) /\ \A S : Within(<<>>, S)
    BY DEF Nested, Within
  <2>5. Stacks
    BY <2>1, <2>3, <2>4 DEF Stacks
  <2>6. Mutex
    BY <2>3, ThreadsAssumption DEF GameInit, WorldInit, Mutex, Uploading
  <2>7. Booted
    BY <2>3 DEF GameInit, Init, Booted, Patched
  <2> QED
    BY <2>2, <2>5, <2>6, <2>7 DEF HookInv
<1>2. HookInv /\ [GameNext]_gameVars => HookInv'
  <2> SUFFICES ASSUME HookInv, [GameNext]_gameVars PROVE HookInv'
    OBVIOUS
  <2>1. Instructions /\ Stacks /\ Mutex /\ Booted /\ Staged
    BY DEF HookInv, Booted, Staged
  <2>2. ASSUME UNCHANGED worldVars, UNCHANGED stack
        PROVE  Stacks' /\ Mutex'
    <3>1. mutex' = mutex /\ pc' = pc /\ stack' = stack
      BY <2>2 DEF worldVars
    <3>2. \A u \in HookThreads : Owns(u)' = Owns(u)
      BY <3>1 DEF Owns
    <3> QED
      BY <2>1, <3>1, <3>2 DEF Stacks, Mutex
  <2>3. CASE so_patch /\ UNCHANGED worldVars
    <3>1. Staged' /\ stage.step # "running" /\ instr' = [f \in Hooked |-> Patch] /\ stack' = stack
      BY <2>1, <2>3, PatchStage
    <3>2. Stacks' /\ Mutex'
      BY <2>2, <2>3, <3>1
    <3>3. Instructions'
      BY <3>1 DEF Instructions, Patch, WordPairs
    <3>4. \A t \in HookThreads : stack'[t] = <<>>
      BY <2>1, <3>1 DEF Booted
    <3>5. Words'
      BY <3>1, <3>4, EmptyStack DEF Words
    <3>6. Booted'
      BY <3>1, <3>4, <3>5 DEF Booted, Staged
    <3> QED
      BY <3>2, <3>3, <3>6 DEF HookInv
  <2>4. CASE Boot /\ ~so_patch /\ UNCHANGED worldVars
    <3>1. Staged' /\ stage.step # "running" /\ (Patched' => Patched) /\ instr' = instr /\ stack' = stack
      BY <2>1, <2>4, BootStage DEF hookVars
    <3>2. Stacks' /\ Mutex'
      BY <2>2, <2>4, <3>1
    <3>3. Instructions'
      BY <2>1, <3>1 DEF Instructions
    <3>4. \A t \in HookThreads : stack'[t] = <<>>
      BY <2>1, <3>1 DEF Booted
    <3>5. Words => Words'
      BY <3>1 DEF Words
    <3>6. Booted'
      BY <2>1, <3>1, <3>4, <3>5 DEF Booted, Staged
    <3> QED
      BY <3>2, <3>3, <3>6 DEF HookInv
  <2>5. ASSUME UNCHANGED <<stage, hookVars, worldVars>>
        PROVE  HookInv'
    <3>1. stage' = stage /\ instr' = instr /\ stack' = stack
      BY <2>5 DEF hookVars
    <3>2. Stacks' /\ Mutex'
      BY <2>2, <2>5, <3>1
    <3>3. Instructions' /\ (Words => Words') /\ Patched' = Patched
      BY <2>1, <3>1 DEF Instructions, Words, Patched
    <3>4. Booted'
      BY <2>1, <3>1, <3>3 DEF Booted
    <3> QED
      BY <3>2, <3>3, <3>4 DEF HookInv
  <2>6. CASE CallImport /\ UNCHANGED worldVars
    BY <2>5, <2>6 DEF CallImport, Run, hookVars
  <2>7. CASE Play
    <3>1. stage.step = "running" /\ stage' = stage /\ PlayWorld
      BY <2>7 DEF Play, At, loadVars
    <3>2. HookState
      BY <2>1, <3>1 DEF Booted, Patched, HookState
    <3>3. HookState' /\ Mutex'
      BY <2>1, <3>1, <3>2, PlayKeeps
    <3>4. Booted'
      BY <2>1, <3>1, <3>3 DEF Booted, HookState
    <3> QED
      BY <3>3, <3>4 DEF HookState, HookInv
  <2>8. CASE UNCHANGED gameVars
    BY <2>5, <2>8 DEF gameVars, loadVars
  <2> QED
    BY <2>3, <2>4, <2>6, <2>7, <2>8 DEF GameNext
<1> QED
  BY <1>1, <1>2, PTL DEF GameSpec

\* HooksHold (so_util.h, SO_CONTINUE): every call of a hooked function goes
\* through its hook exactly once, and its patch is back when no hook is in it.
THEOREM HooksAlwaysHold == GameSpec => []HooksHold
<1>1. HookInv => HooksHold
  <2> SUFFICES ASSUME HookInv PROVE HookedOnce /\ PatchIsBack
    BY DEF HooksHold
  <2>1. Stacks /\ Booted
    BY DEF HookInv
  <2>2. HookedOnce
    <3> SUFFICES ASSUME NEW t \in HookThreads, NEW i \in DOMAIN stack[t]
                 PROVE  /\ stack[t][i].at # "astray"
                        /\ stack[t][i].at = "body" => Continuing(t, stack[t][i].of, i) = 1
      BY DEF HookedOnce
    <3> DEFINE s == stack[t]
    <3>1. s \in Seq(FrameType) /\ Nested(s) /\ Len(s) \in Nat /\ Len(s) <= 6
      BY <2>1 DEF Stacks, Nested
    <3>2. i \in 1 .. Len(s) /\ i \in {1, 2, 3, 4, 5, 6} /\ s[i] \in FrameType
      BY <3>1
    <3>3. \A j \in 1 .. Len(s) : s[j].at \in Kind(j)
      BY <3>1 DEF Nested
    <3>4. s[i].at # "astray"
      BY <3>2 DEF FrameType, Active
    <3>5. ASSUME s[i].at = "body" PROVE Continuing(t, s[i].of, i) = 1
      <4>1. i \in {3, 6}
        BY <3>2, <3>3, <3>5 DEF Kind, Active
      <4> DEFINE k == i - 1
                 C == {j \in 1 .. i - 1 : s[j].at = "repatch" /\ s[j].of = s[i].of}
      <4>2. k \in {2, 5} /\ k \in 1 .. Len(s) - 1 /\ k \in 1 .. i - 1 /\ k + 1 = i
        BY <3>1, <3>2, <4>1
      <4> HIDE DEF k
      <4>3. \A j \in 1 .. Len(s) - 1 : s[j].at = Under(j) /\ s[j + 1].of \in From(j, s[j].of)
        BY <3>1 DEF Nested
      <4>4. s[k].at = "repatch" /\ s[k].of = s[i].of
        <5>1. s[k].at = Under(k) /\ s[i].of \in From(k, s[k].of)
          BY <4>2, <4>3
        <5> QED
          BY <4>2, <5>1, KindIs
      <4>5. ASSUME NEW j \in 1 .. i - 1, s[j].at = "repatch", s[j].of = s[i].of
            PROVE  j = k
        <5>1. j \in 1 .. Len(s) /\ j \in {1, 2, 3, 4, 5, 6} /\ j < i
          BY <3>1, <3>2
        <5>2. j \in {2, 5}
          BY <3>3, <4>5, <5>1 DEF Kind, Active
        <5>3. CASE j # k
          <6>1. j = 2 /\ i = 6 /\ Len(s) >= 4 /\ i \in 4 .. Len(s)
            BY <3>1, <3>2, <4>1, <4>2, <5>1, <5>2, <5>3
          <6>2. s[2].of = "RenderDelayedShadows" /\ s[i].of = "Clear"
            BY <3>1, <6>1, SecondCall
          <6> QED
            BY <4>5, <6>1, <6>2, ContsOf
        <5> QED
          BY <5>3
      <4>6. C = {k}
        BY <4>2, <4>4, <4>5
      <4>7. Cardinality({k}) = 1
        BY FS_Singleton
      <4> QED
        BY <4>6, <4>7 DEF Continuing
    <3> QED
      BY <3>4, <3>5
  <2>3. PatchIsBack
    <3> SUFFICES ASSUME NEW f \in Hooked, instr[f] # Patch, stage.step = "running"
                 PROVE  \E t \in HookThreads : \E i \in DOMAIN stack[t] : stack[t][i].of = f
      BY DEF PatchIsBack
    <3>1. PICK t \in HookThreads : Working(stack[t], f) # {}
      BY <2>1 DEF Booted, Patched, Words
    <3>2. PICK i \in 1 .. Len(stack[t]) : stack[t][i].of = f
      BY <3>1 DEF Working
    <3>3. stack[t] \in Seq(FrameType)
      BY <2>1 DEF Stacks
    <3> QED
      BY <3>2, <3>3
  <2> QED
    BY <2>2, <2>3
<1> QED
  BY <1>1, HooksInvariant, PTL

-----------------------------------------------------------------------------
(* The places that are called through *)

\* A place that is called through leads to code that may run.
Linked(m) ==
  \A i \in DOMAIN got[m] :
    Relocations(m)[i].type = "JUMP_SLOT" =>
      /\ got[m][i] # "raw"
      /\ got[m][i] \in DOMAIN so => got[m][i] \in ready
      /\ Relocations(m)[i].symbol \in Dynlib => got[m][i] \in {"table", "own"}

Relocated(m) == \A i \in DOMAIN got[m] : Imports(Relocations(m)[i]) \/ got[m][i] = "own"

Names == ToSet(Libraries)

Modules ==
  /\ Staged /\ Library \in Names
  /\ so = [m \in Names |-> so[m]] /\ got = [m \in Names |-> got[m]]
  /\ \A m \in Names : so[m] \in [text : {so[m].text}, data : {so[m].data}, next : {so[m].next},
                                file : {so[m].file}]
  /\ \A m \in Names : DOMAIN got[m] = {} \/ so[m].file.needed \in Seq(STRING)
  /\ stage.step = "segments" => stage.file.needed \in Seq(STRING)
  /\ list \in Seq(Names) /\ ready \subseteq Names

Order ==
  /\ \A m \in ToSet(list) : m # Library \/ stage.step \in {"open", "segments", "running"} => m \in ready
  /\ \A m \in Names : m # Library \/ stage.step \notin {"relocate", "resolve"} => Linked(m)
  /\ \A m \in Names : m = Library /\ stage.step = "resolve" => Relocated(m)
  /\ stage.step = "patch" => Library = "game"
  /\ "game" \in stale => Library = "game" /\ stage.step = "flush"

LoadInv == Modules /\ Order /\ CallsReachReadyCode

LEMMA FiveLibraries ==
  /\ Names = {"cpufeatures", "jbejni", "libcpp", "libxmv", "game"}
  /\ Libraries \in Seq(Names) /\ Len(Libraries) = 5
<1>1. Libraries \in Seq({"cpufeatures", "jbejni", "libcpp", "libxmv", "game"}) /\ Len(Libraries) = 5
  BY DEF Libraries
<1>2. Names = {Libraries[i] : i \in 1 .. 5}
  BY <1>1 DEF Names, ToSet
<1>3. Names = {"cpufeatures", "jbejni", "libcpp", "libxmv", "game"}
  BY <1>2 DEF Libraries
<1> QED
  BY <1>1, <1>3

LEMMA NextOne ==
  ASSUME NEW m \in Names, m # "game"
  PROVE  LET next == Libraries[1 + SelectInSeq(Libraries, LAMBDA n : n = m)]
         IN  next \in Names /\ \E k \in 1 .. 4 : Libraries[k] = m /\ next = Libraries[k + 1]
<1>1. PICK k \in 1 .. 4 : Libraries[k] = m
  BY FiveLibraries DEF Libraries
<1>2. {i \in 1 .. Len(Libraries) : Libraries[i] = m} = {k}
  BY <1>1, FiveLibraries DEF Libraries
<1>3. Min({k}) = k
  BY DEF Min
<1>4. SelectInSeq(Libraries, LAMBDA n : n = m) = k
  BY <1>2, <1>3 DEF SelectInSeq
<1>5. Libraries[1 + k] \in Names
  <2>1. 1 + k \in 1 .. 5
    OBVIOUS
  <2> QED
    BY <2>1, FiveLibraries
<1> QED
  BY <1>1, <1>4, <1>5

\* A symbol that is found in a needed library is of one that can run.
LEMMA LinkIsReady ==
  ASSUME NEW m, so[m].file.needed \in Seq(STRING), NEW symbol
  PROVE  LET link == so_resolve_link(m, symbol) IN link = Null \/ link \in ToSet(list) \ {m}
<1> DEFINE needed == so[m].file.needed
           found == {i \in DOMAIN needed : /\ needed[i] # m /\ needed[i] \in ToSet(list)
                                           /\ symbol \in so[needed[i]].file.exports}
<1>1. so_resolve_link(m, symbol) = IF found = {} THEN Null ELSE needed[Min(found)]
  BY DEF so_resolve_link
<1>2. found \in SUBSET Nat
  OBVIOUS
<1>3. CASE found = {}
  BY <1>1, <1>3
<1>4. CASE found # {}
  <2>1. Min(found) \in found
    BY <1>2, <1>4, LeastNumber
  <2>2. needed[Min(found)] \in ToSet(list) \ {m}
    BY <2>1
  <2> QED
    BY <1>1, <1>4, <2>2
<1> QED
  BY <1>3, <1>4

LEMMA ResolvedIsReady ==
  ASSUME NEW m, so[m].file.needed \in Seq(STRING), ToSet(list) \subseteq Names, NEW r, r.type = "JUMP_SLOT"
  PROVE  /\ Resolved(m, r) # "raw"
         /\ Resolved(m, r) \in Names => Resolved(m, r) \in ToSet(list) \ {m}
         /\ r.symbol \in Dynlib => Resolved(m, r) = "table"
<1>1. "raw" \notin Names /\ "table" \notin Names /\ "stub" \notin Names
  BY FiveLibraries
<1> DEFINE link == so_resolve_link(m, r.symbol)
<1>2. link = Null \/ link \in ToSet(list) \ {m}
  BY LinkIsReady
<1>3. Resolved(m, r) = IF r.symbol \in Dynlib THEN "table" ELSE IF link # Null THEN link ELSE "stub"
  BY DEF Resolved
<1> HIDE DEF link
<1> QED
  BY <1>1, <1>2, <1>3

-----------------------------------------------------------------------------
(* The steps of the loader *)

LEMMA LoadInit == Init => LoadInv
<1> SUFFICES ASSUME Init PROVE LoadInv
  OBVIOUS
<1>1. \A m \in Names : so[m] = NoModule /\ got[m] = <<>>
  BY DEF Init, Names
<1>2. Library \in Names /\ Staged
  BY FiveLibraries DEF Init, Library, Staged, Libraries
<1>3. stage.step = "open" /\ list = <<>> /\ ready = {} /\ stale = {} /\ called = Null
  BY DEF Init
<1>4. ToSet(list) = {}
  BY <1>3 DEF ToSet
<1>5. Modules
  <2>1. so = [m \in Names |-> so[m]] /\ got = [m \in Names |-> got[m]]
    BY DEF Init, Names
  <2>2. \A m \in Names : so[m] \in [text : {so[m].text}, data : {so[m].data}, next : {so[m].next},
                                file : {so[m].file}]
    BY <1>1 DEF NoModule
  <2>3. \A m \in Names : DOMAIN got[m] = {}
    BY <1>1
  <2> QED
    BY <1>2, <1>3, <2>1, <2>2, <2>3 DEF Modules
<1>6. \A m \in Names : Linked(m)
  BY <1>1 DEF Linked
<1>7. Order
  BY <1>3, <1>4, <1>6 DEF Order
<1>8. CallsReachReadyCode
  BY <1>3 DEF CallsReachReadyCode
<1> QED
  BY <1>5, <1>7, <1>8 DEF LoadInv

\* Steps that at most move on.
LEMMA MovesOn ==
  ASSUME LoadInv, UNCHANGED <<list, got, ready>>, called' = called \/ called' = Null,
         Staged', Library' = Library,
         so' = [m \in Names |-> so'[m]],
         \A m \in Names : /\ so'[m].file = so[m].file
                         /\ so'[m] \in [text : {so'[m].text}, data : {so'[m].data}, next : {so'[m].next},
                                       file : {so'[m].file}],
         stage'.step \in {"open", "segments", "running"} => stage.step \in {"open", "segments", "running"},
         stage'.step \in {"relocate", "resolve"} \/ stage.step \notin {"relocate", "resolve"},
         stage'.step = "resolve" => stage.step = "resolve",
         stage'.step = "patch" => stage.step = "patch",
         stage'.step = "segments" => stage'.file.needed \in Seq(STRING),
         "game" \in stale' => Library = "game" /\ stage'.step = "flush"
  PROVE  LoadInv'
<1>1. Modules /\ Order /\ CallsReachReadyCode
  BY DEF LoadInv
<1>2. DOMAIN so' = DOMAIN so /\ list' = list /\ got' = got /\ ready' = ready
  BY <1>1 DEF Modules
<1>3. Modules'
  BY <1>1, <1>2 DEF Modules
<1>4. \A m \in Names : Relocations(m)' = Relocations(m)
  BY DEF Relocations
<1>5. ASSUME NEW m \in Names PROVE (Linked(m) => Linked(m)') /\ (Relocated(m) => Relocated(m)')
  BY <1>2, <1>4 DEF Linked, Relocated
<1>6. Library' = Library /\ Library \in Names
  BY <1>1 DEF Modules
<1>7. \A m \in ToSet(list') : m # Library' \/ stage'.step \in {"open", "segments", "running"} => m \in ready'
  BY <1>1, <1>2, <1>6 DEF Order
<1>8. ASSUME NEW m \in Names, m # Library' \/ stage'.step \notin {"relocate", "resolve"}
      PROVE  Linked(m)'
  BY <1>1, <1>5, <1>6, <1>8 DEF Order
<1>9. ASSUME NEW m \in Names, m = Library', stage'.step = "resolve"
      PROVE  Relocated(m)'
  BY <1>1, <1>5, <1>6, <1>9 DEF Order
<1>10. Order'
  BY <1>1, <1>6, <1>7, <1>8, <1>9 DEF Order
<1>11. CallsReachReadyCode'
  BY <1>1 DEF CallsReachReadyCode
<1> QED
  BY <1>3, <1>10, <1>11 DEF LoadInv

\* Only the places of the library that is loaded are changed.
LEMMA OthersKept ==
  ASSUME LoadInv, got' = [got EXCEPT ![Library] = got'[Library]], ready' = ready,
         DOMAIN so' = DOMAIN so, \A m \in Names \ {Library} : so'[m] = so[m]
  PROVE  \A m \in Names \ {Library} : Linked(m)'
<1> SUFFICES ASSUME NEW m \in Names, m # Library PROVE Linked(m)'
  OBVIOUS
<1>1. Linked(m) /\ got = [n \in Names |-> got[n]]
  BY DEF LoadInv, Order, Modules
<1>2. got'[m] = got[m] /\ Relocations(m)' = Relocations(m)
  BY <1>1 DEF Relocations
<1> QED
  BY <1>1, <1>2 DEF Linked

LEMMA FindKeeps ==
  ASSUME LoadInv, FindSections
  PROVE  LoadInv'
<1>1. Modules /\ Order /\ CallsReachReadyCode
  BY DEF LoadInv
<1>2. Library \in Names /\ Staged /\ so = [m \in Names |-> so[m]] /\ got = [m \in Names |-> got[m]]
  BY <1>1 DEF Modules
<1>3. stage.step = "segments" /\ UNCHANGED <<ready, stale, called>>
  BY DEF FindSections, At
<1>4. CASE UNCHANGED <<stage, so, list, got>>
  BY <1>1, <1>2, <1>3, <1>4, MovesOn DEF Modules, Library, Staged, Order
<1>5. CASE /\ so' = [so EXCEPT ![Library].file = stage.file]
           /\ list' = Append(list, Library)
           /\ got' = [got EXCEPT ![Library] = [i \in DOMAIN stage.file.relocations |-> "raw"]]
           /\ Goto("relocate")
  <2>1. Staged' /\ Library' = Library /\ stage'.step = "relocate"
    BY <1>2, <1>5 DEF Staged, Library, Goto
  <2>2. /\ so' = [m \in Names |-> so'[m]] /\ got' = [m \in Names |-> got'[m]]
        /\ \A m \in Names \ {Library} : so'[m] = so[m] /\ got'[m] = got[m]
        /\ so'[Library] = [so[Library] EXCEPT !.file = stage.file]
    BY <1>2, <1>5
  <2> DEFINE old == so[Library]
  <2>3. old \in [text : {old.text}, data : {old.data}, next : {old.next}, file : {old.file}]
    BY <1>1, <1>2 DEF Modules
  <2>4. so'[Library] = [text |-> old.text, data |-> old.data, next |-> old.next, file |-> stage.file]
    BY <2>2, <2>3
  <2>5. stage.file.needed \in Seq(STRING)
    BY <1>1, <1>3 DEF Modules
  <2>6. list' \in Seq(Names) /\ ToSet(list') = ToSet(list) \cup {Library}
    <3>1. list \in Seq(Names)
      BY <1>1 DEF Modules
    <3>2. list' \in Seq(Names) /\ Len(list') = Len(list) + 1
          /\ (\A i \in 1 .. Len(list) : list'[i] = list[i]) /\ list'[Len(list) + 1] = Library
      BY <1>2, <1>5, <3>1
    <3>3. Len(list) \in Nat /\ DOMAIN list = 1 .. Len(list) /\ DOMAIN list' = 1 .. Len(list) + 1
      BY <3>1, <3>2
    <3>4. 1 .. Len(list) + 1 = 1 .. Len(list) \cup {Len(list) + 1}
      BY <3>3
    <3> QED
      BY <3>2, <3>3, <3>4 DEF ToSet
  <2>7. \A m \in Names : so'[m] \in [text : {so'[m].text}, data : {so'[m].data}, next : {so'[m].next},
                                    file : {so'[m].file}]
    BY <1>1, <1>2, <2>2, <2>4 DEF Modules
  <2>8. \A m \in Names : DOMAIN got'[m] = {} \/ so'[m].file.needed \in Seq(STRING)
    <3>1. so'[Library].file.needed \in Seq(STRING)
      BY <2>4, <2>5
    <3> QED
      BY <1>1, <2>2, <3>1 DEF Modules
  <2>9. Modules'
    BY <1>1, <1>2, <1>3, <2>1, <2>2, <2>6, <2>7, <2>8 DEF Modules
  <2>10. \A m \in Names \ {Library} : Linked(m)'
    BY <1>2, <1>3, <1>5, <2>2, OthersKept
  <2>11. \A m \in ToSet(list') : m # Library => m \in ready'
    BY <1>1, <1>3, <2>6 DEF Order
  <2>12. Order'
    BY <1>1, <1>3, <2>1, <2>10, <2>11 DEF Order
  <2>13. CallsReachReadyCode'
    BY <1>1, <1>3 DEF CallsReachReadyCode
  <2> QED
    BY <2>9, <2>12, <2>13 DEF LoadInv
<1> QED
  BY <1>4, <1>5 DEF FindSections, LoadFails

LEMMA RelocateKeeps ==
  ASSUME LoadInv, so_relocate
  PROVE  LoadInv'
<1>1. Modules /\ Order /\ CallsReachReadyCode
  BY DEF LoadInv
<1>2. Library \in Names /\ Staged /\ so = [m \in Names |-> so[m]] /\ got = [m \in Names |-> got[m]]
  BY <1>1 DEF Modules
<1> DEFINE places == [i \in DOMAIN got[Library] |->
                        IF Imports(Relocations(Library)[i]) THEN got[Library][i] ELSE "own"]
<1>3. /\ stage.step = "relocate" /\ UNCHANGED <<so, list, ready, stale, called>>
      /\ got' = [got EXCEPT ![Library] = places] /\ Goto("resolve")
  BY DEF so_relocate, At
<1>4. Staged' /\ Library' = Library /\ stage'.step = "resolve"
  BY <1>2, <1>3 DEF Staged, Library, Goto
<1>5. /\ got' = [m \in Names |-> got'[m]]
      /\ \A m \in Names : got'[m] = IF m = Library THEN places ELSE got[m]
  BY <1>2, <1>3
<1>6. \A m \in Names \ {Library} : Linked(m)'
  BY <1>2, <1>3, <1>5, OthersKept
<1>7. \A m \in Names : DOMAIN got'[m] = DOMAIN got[m] /\ Relocations(m)' = Relocations(m)
  BY <1>3, <1>5 DEF Relocations
<1>8. Modules'
  BY <1>1, <1>2, <1>3, <1>4, <1>5, <1>7 DEF Modules
<1>9. ASSUME NEW m \in Names, m = Library PROVE Relocated(m)'
  BY <1>5, <1>7, <1>9 DEF Relocated
<1>10. Order'
  BY <1>1, <1>3, <1>4, <1>6, <1>9 DEF Order
<1>11. CallsReachReadyCode'
  BY <1>1, <1>3 DEF CallsReachReadyCode
<1> QED
  BY <1>8, <1>10, <1>11 DEF LoadInv

LEMMA ResolveKeeps ==
  ASSUME LoadInv, so_resolve
  PROVE  LoadInv'
<1>1. Modules /\ Order /\ CallsReachReadyCode
  BY DEF LoadInv
<1>2. Library \in Names /\ Staged /\ so = [m \in Names |-> so[m]] /\ got = [m \in Names |-> got[m]]
  BY <1>1 DEF Modules
<1> DEFINE r(i) == Relocations(Library)[i]
           places == [i \in DOMAIN got[Library] |->
                        IF Imports(r(i)) THEN Resolved(Library, r(i)) ELSE got[Library][i]]
<1>3. /\ stage.step = "resolve" /\ UNCHANGED <<so, list, ready, stale, called>>
      /\ got' = [got EXCEPT ![Library] = places]
      /\ Goto(IF Library = "game" THEN "patch" ELSE "flush")
  BY DEF so_resolve, At
<1>4. Staged' /\ Library' = Library /\ stage'.step = IF Library = "game" THEN "patch" ELSE "flush"
  BY <1>2, <1>3 DEF Staged, Library, Goto
<1>5. /\ got' = [m \in Names |-> got'[m]]
      /\ \A m \in Names : got'[m] = IF m = Library THEN places ELSE got[m]
  BY <1>2, <1>3
<1>6. \A m \in Names \ {Library} : Linked(m)'
  BY <1>2, <1>3, <1>5, OthersKept
<1>7. \A m \in Names : DOMAIN got'[m] = DOMAIN got[m] /\ Relocations(m)' = Relocations(m)
  BY <1>3, <1>5 DEF Relocations
<1>8. Modules'
  BY <1>1, <1>2, <1>3, <1>4, <1>5, <1>7 DEF Modules
<1>9. ASSUME NEW i \in DOMAIN places, r(i).type = "JUMP_SLOT"
      PROVE  /\ places[i] # "raw"
             /\ places[i] \in Names => places[i] \in ready
             /\ r(i).symbol \in Dynlib => places[i] \in {"table", "own"}
  <2>1. CASE Imports(r(i))
    <3>1. so[Library].file.needed \in Seq(STRING)
      BY <1>1, <1>2, <1>9 DEF Modules
    <3>2. ToSet(list) \subseteq Names
      BY <1>1 DEF Modules, ToSet
    <3>3. ToSet(list) \ {Library} \subseteq ready
      BY <1>1 DEF Order
    <3>4. places[i] = Resolved(Library, r(i))
      BY <2>1, <1>9
    <3> QED
      BY <1>9, <3>1, <3>2, <3>3, <3>4, ResolvedIsReady
  <2>2. CASE ~Imports(r(i))
    <3>1. places[i] = got[Library][i] /\ i \in DOMAIN got[Library]
      BY <2>2, <1>9
    <3>2. Relocated(Library)
      BY <1>1, <1>2, <1>3 DEF Order
    <3>3. places[i] = "own"
      BY <2>2, <3>1, <3>2 DEF Relocated
    <3> QED
      BY <3>3, FiveLibraries
  <2> QED
    BY <2>1, <2>2
<1>10. ASSUME NEW m \in Names, m = Library PROVE Linked(m)'
  <2>1. got'[m] = places /\ DOMAIN so' = Names /\ ready' = ready /\ \A i : Relocations(m)'[i] = r(i)
    BY <1>2, <1>3, <1>5, <1>7, <1>10
  <2> HIDE DEF places, r
  <2> QED
    BY <1>9, <2>1 DEF Linked
<1>11. Order'
  BY <1>1, <1>3, <1>4, <1>6, <1>10 DEF Order
<1>12. CallsReachReadyCode'
  BY <1>1, <1>3 DEF CallsReachReadyCode
<1> QED
  BY <1>8, <1>11, <1>12 DEF LoadInv

LEMMA CallIsReady ==
  ASSUME LoadInv, NEW m \in Names, Linked(m), m = "game" => "game" \notin stale,
         NEW i \in Callable(m), CallThrough(m, i)
  PROVE  CallsReachReadyCode'
<1> DEFINE r == Relocations(m)[i]
           to == got[m][i]
<1>1. i \in DOMAIN got[m] /\ r.type = "JUMP_SLOT"
  BY DEF Callable
<1>2. called' = [by |-> m, to |-> to, symbol |-> r.symbol,
                 ready |-> to \in DOMAIN so => to \in ready, fresh |-> m \notin stale]
  BY DEF CallThrough
<1>3. /\ to # "raw" /\ (to \in DOMAIN so => to \in ready)
      /\ r.symbol \in Dynlib => to \in {"table", "own"}
  BY <1>1 DEF Linked
<1> HIDE DEF to, r
<1>4. /\ called'.to # "raw" /\ called'.ready /\ (called'.by = "game" => called'.fresh)
      /\ called'.symbol \in Dynlib => called'.to \in {"table", "own"}
  BY <1>2, <1>3
<1> QED
  BY <1>4 DEF CallsReachReadyCode

LEMMA InitializeKeeps ==
  ASSUME LoadInv, so_initialize
  PROVE  LoadInv'
<1>1. Modules /\ Order /\ CallsReachReadyCode
  BY DEF LoadInv
<1>2. Library \in Names /\ Staged /\ so = [m \in Names |-> so[m]] /\ got = [m \in Names |-> got[m]]
  BY <1>1 DEF Modules
<1>3. stage.step = "initialize" /\ UNCHANGED <<so, list, got, stale>>
  BY DEF so_initialize, At
<1>4. \A m \in Names : Linked(m)
  BY <1>1, <1>3 DEF Order
<1>5. "game" \notin stale
  BY <1>1, <1>3 DEF Order
<1>6. CallsReachReadyCode'
  <2>1. CASE called' = Null
    BY <2>1 DEF CallsReachReadyCode
  <2>2. CASE \E i \in Callable(Library) : CallThrough(Library, i)
    BY <1>2, <1>4, <1>5, <2>2, CallIsReady
  <2> QED
    BY <2>1, <2>2 DEF so_initialize
<1>7. CASE UNCHANGED <<stage, ready>>
  <2>1. /\ stage' = stage /\ ready' = ready /\ so' = so /\ list' = list /\ got' = got /\ stale' = stale
        /\ Library' = Library
    BY <1>3, <1>7 DEF Library
  <2>2. Modules'
    BY <1>1, <2>1 DEF Modules, Staged
  <2>3. \A m \in Names : Relocations(m)' = Relocations(m)
    BY <2>1 DEF Relocations
  <2>4. \A m \in Names : Linked(m)'
    <3> SUFFICES ASSUME NEW m \in Names PROVE Linked(m)'
      OBVIOUS
    <3> QED
      BY <1>4, <2>1, <2>3 DEF Linked
  <2>5. Order'
    BY <1>1, <1>3, <2>1, <2>4 DEF Order
  <2> QED
    BY <1>6, <2>2, <2>5 DEF LoadInv
<1>8. CASE ready' = ready \cup {Library} /\ stage' = NextLibrary
  <2>1. /\ Staged' /\ Library' \in Names /\ stage'.step \in {"open", "running"}
        /\ stage'.step = "running" => Library' = "game"
    <3>1. CASE Library = "game"
      <4>1. stage' = [stage EXCEPT !.step = "running", !.file = Null]
        BY <1>8, <3>1 DEF NextLibrary
      <4> QED
        BY <1>2, <3>1, <4>1 DEF Staged, Library
    <3>2. CASE Library # "game"
      <4> DEFINE next == Libraries[1 + SelectInSeq(Libraries, LAMBDA n : n = Library)]
      <4>1. stage' = [stage EXCEPT !.step = "open", !.file = Null, !.library = next]
        BY <1>8, <3>2 DEF NextLibrary, Library
      <4>2. next \in Names
        BY <1>2, <3>2, NextOne
      <4> HIDE DEF next
      <4> QED
        BY <1>2, <4>1, <4>2 DEF Staged, Library
    <3> QED
      BY <3>1, <3>2
  <2>2. ready' \subseteq Names
    BY <1>1, <1>2, <1>8 DEF Modules
  <2>3. Modules'
    BY <1>1, <1>3, <2>1, <2>2 DEF Modules
  <2>4. \A m \in Names : Relocations(m)' = Relocations(m)
    BY <1>3 DEF Relocations
  <2>5. \A m \in Names : Linked(m)'
    <3> SUFFICES ASSUME NEW m \in Names PROVE Linked(m)'
      OBVIOUS
    <3> QED
      BY <1>3, <1>4, <1>8, <2>4 DEF Linked
  <2>6. \A m \in ToSet(list') : m \in ready'
    BY <1>1, <1>3, <1>8 DEF Order
  <2>7. Order'
    BY <1>3, <1>5, <2>1, <2>5, <2>6 DEF Order
  <2> QED
    BY <1>6, <2>3, <2>7 DEF LoadInv
<1> QED
  BY <1>7, <1>8 DEF so_initialize

LEMMA LinkedStep ==
  ASSUME LoadInv, Boot
  PROVE  LoadInv'
<1>1. Modules /\ Order /\ CallsReachReadyCode
  BY DEF LoadInv
<1>2. Library \in Names /\ Staged /\ so = [m \in Names |-> so[m]] /\ got = [m \in Names |-> got[m]]
  BY <1>1 DEF Modules
<1>3. ASSUME so_patch PROVE LoadInv'
  <2>1. Library = "game" /\ stage.step = "patch"
    BY <1>1, <1>3 DEF so_patch, At, Order
  <2>2. Staged' /\ Library' = Library /\ stage'.step = "flush"
    BY <1>2, <1>3 DEF so_patch, Goto, Staged, Library
  <2> QED
    BY <1>1, <1>2, <1>3, <2>1, <2>2, MovesOn DEF so_patch, Modules
<1>4. ASSUME so_file_load PROVE LoadInv'
  <2>1. stage.step = "open" /\ UNCHANGED <<got, ready, stale, so, list>> /\ called' = Null
    BY <1>4 DEF so_file_load, At, LoadFails
  <2>2. CASE stage' = stage
    BY <1>1, <1>2, <2>1, <2>2, MovesOn DEF Modules, Library, Staged, Order
  <2>3. ASSUME NEW file \in Elf[Library],
               stage' = [stage EXCEPT !.step = "segments", !.segment = 1, !.file = file]
        PROVE  LoadInv'
    <3>1. Staged' /\ Library' = Library /\ stage'.step = "segments" /\ stage'.file = file
      BY <1>2, <2>3 DEF Staged, Library
    <3>2. file.needed \in Seq(STRING)
      BY <1>2, <2>3, ElfAssumption DEF Names
    <3> QED
      BY <1>1, <1>2, <2>1, <3>1, <3>2, MovesOn DEF Modules, Order
  <2> QED
    BY <1>4, <2>2, <2>3 DEF so_file_load, LoadFails
<1>5. ASSUME LoadSegment PROVE LoadInv'
  <2>1. stage.step = "segments" /\ UNCHANGED <<got, ready, stale, list>> /\ called' = Null
    BY <1>5 DEF LoadSegment, At, LoadFails
  <2>2. CASE stage' = stage /\ so' = so
    BY <1>1, <1>2, <2>1, <2>2, MovesOn DEF Modules, Library, Staged, Order
  <2>3. ASSUME NEW module, module = TextBlocks.module \/ module = DataBlocks.module,
               so' = [so EXCEPT ![Library] = module], stage' = [stage EXCEPT !.segment = @ + 1]
        PROVE  LoadInv'
    <3>1. Staged' /\ Library' = Library /\ stage'.step = "segments" /\ stage'.file = stage.file
      BY <1>2, <2>1, <2>3 DEF Staged, Library
    <3> DEFINE old == so[Library]
    <3>2. old \in [text : {old.text}, data : {old.data}, next : {old.next}, file : {old.file}]
      BY <1>1, <1>2 DEF Modules
    <3>3. /\ module.file = old.file
          /\ module \in [text : {module.text}, data : {module.data}, next : {module.next}, file : {module.file}]
      <4>1. CASE module = TextBlocks.module
        BY <3>2, <4>1 DEF TextBlocks
      <4>2. CASE module = DataBlocks.module
        BY <3>2, <4>2 DEF DataBlocks
      <4> QED
        BY <2>3, <4>1, <4>2
    <3>4. so' = [m \in Names |-> so'[m]] /\ \A m \in Names : so'[m] = IF m = Library THEN module ELSE so[m]
      BY <1>2, <2>3
    <3>5. \A m \in Names : /\ so'[m].file = so[m].file
                          /\ so'[m] \in [text : {so'[m].text}, data : {so'[m].data}, next : {so'[m].next},
                                        file : {so'[m].file}]
      BY <1>1, <3>3, <3>4 DEF Modules
    <3> QED
      BY <1>1, <1>2, <2>1, <3>1, <3>4, <3>5, MovesOn DEF Modules, Order
  <2> QED
    BY <1>5, <2>2, <2>3 DEF LoadSegment, LoadFails
<1>6. ASSUME GiveUp PROVE LoadInv'
  <2>1. /\ stage.step = "segments" /\ UNCHANGED <<so, got, ready, stale, list>> /\ called' = Null
        /\ Staged' /\ Library' = Library /\ stage'.step = "relocate"
    BY <1>2, <1>6 DEF GiveUp, At, Goto, Staged, Library
  <2> QED
    BY <1>1, <1>2, <2>1, MovesOn DEF Modules, Order
<1>7. ASSUME so_flush_caches PROVE LoadInv'
  <2>1. /\ stage.step = "flush" /\ UNCHANGED <<so, got, ready, list, called>>
        /\ stale' = stale \ {Library}
        /\ Staged' /\ Library' = Library /\ stage'.step = "initialize"
    BY <1>2, <1>7 DEF so_flush_caches, At, Goto, Staged, Library
  <2> QED
    BY <1>1, <1>2, <2>1, MovesOn DEF Modules, Order
<1>8. CASE FindSections
  BY <1>8, FindKeeps
<1>9. CASE so_relocate
  BY <1>9, RelocateKeeps
<1>10. CASE so_resolve
  BY <1>10, ResolveKeeps
<1>11. CASE so_initialize
  BY <1>11, InitializeKeeps
<1> QED
  BY <1>3, <1>4, <1>5, <1>6, <1>7, <1>8, <1>9, <1>10, <1>11 DEF Boot

LEMMA RunKeeps ==
  ASSUME LoadInv, Run
  PROVE  LoadInv'
<1>1. Modules /\ Order /\ CallsReachReadyCode
  BY DEF LoadInv
<1>2. stage.step = "running" /\ UNCHANGED <<stage, so, list, got, ready, stale>>
  BY DEF Run, At
<1>3. PICK m \in ToSet(list) : \E i \in Callable(m) : CallThrough(m, i)
  BY DEF Run
<1>4. m \in Names /\ Linked(m) /\ "game" \notin stale
  BY <1>1, <1>2 DEF Modules, Order, ToSet
<1>5. CallsReachReadyCode'
  BY <1>3, <1>4, CallIsReady
<1>6. Modules'
  BY <1>1, <1>2 DEF Modules, Staged, Library
<1>7. \A n \in Names : (Linked(n) => Linked(n)') /\ (Relocated(n) => Relocated(n)')
  <2>1. \A n \in Names : Relocations(n)' = Relocations(n)
    BY <1>2 DEF Relocations
  <2> SUFFICES ASSUME NEW n \in Names PROVE (Linked(n) => Linked(n)') /\ (Relocated(n) => Relocated(n)')
    OBVIOUS
  <2> QED
    BY <1>2, <2>1 DEF Linked, Relocated
<1>8. Order'
  BY <1>1, <1>2, <1>7 DEF Order, Library
<1> QED
  BY <1>5, <1>6, <1>8 DEF LoadInv

LEMMA LoadInvariant == GameSpec => []LoadInv
<1>1. GameInit => LoadInv
  BY LoadInit DEF GameInit
<1>2. LoadInv /\ [GameNext]_gameVars => LoadInv'
  <2> SUFFICES ASSUME LoadInv, [GameNext]_gameVars PROVE LoadInv'
    OBVIOUS
  <2>1. CASE Boot
    BY <2>1, LinkedStep
  <2>2. CASE CallImport
    BY <2>2, RunKeeps DEF CallImport
  <2>3. CASE UNCHANGED loadVars
    <3>1. UNCHANGED <<stage, so, list, got, ready, stale, called>>
      BY <2>3 DEF loadVars
    <3>2. Modules /\ Order /\ CallsReachReadyCode
      BY DEF LoadInv
    <3>3. Modules' /\ CallsReachReadyCode'
      BY <3>1, <3>2 DEF Modules, Staged, Library, CallsReachReadyCode
    <3>4. \A n \in Names : (Linked(n) => Linked(n)') /\ (Relocated(n) => Relocated(n)')
      <4>1. \A n \in Names : Relocations(n)' = Relocations(n)
        BY <3>1 DEF Relocations
      <4> SUFFICES ASSUME NEW n \in Names PROVE (Linked(n) => Linked(n)') /\ (Relocated(n) => Relocated(n)')
        OBVIOUS
      <4> QED
        BY <3>1, <4>1 DEF Linked, Relocated
    <3>5. Order'
      BY <3>1, <3>2, <3>4 DEF Order, Library
    <3> QED
      BY <3>3, <3>5 DEF LoadInv
  <2> QED
    BY <2>1, <2>2, <2>3 DEF GameNext, Play, gameVars
<1> QED
  BY <1>1, <1>2, PTL DEF GameSpec

\* CallsReachReadyCode (so_util.c, main.cpp): a call of an import reaches code
\* of a library that is relocated, resolved and flushed, never a raw address.
THEOREM CallsAlwaysReachReadyCode == GameSpec => []CallsReachReadyCode
<1>1. LoadInv => CallsReachReadyCode
  BY DEF LoadInv
<1> QED
  BY <1>1, LoadInvariant, PTL

-----------------------------------------------------------------------------
(* The memory of the libraries *)

AtStart == stage.step = "open" \/ (stage.step = "segments" /\ stage.segment = 1)

\* The first page that the blocks allocated so far leave free.
FreePage ==
  IF AtStart THEN LoadPage(Library) - PatchPages
  ELSE IF stage.step = "segments" THEN so[Library].next
  ELSE LoadPage(Library) + NotedPages(Library) + MorePages

\* The library whose segments are loaded has the last of its blocks at its end.
LaidOut ==
  LET segments == stage.file.segments  i == stage.segment IN
  stage.step = "segments" =>
    /\ stage.file \in Elf[Library] /\ i \in 1 .. Len(segments) + 1
    /\ i > 1 => /\ segments[1].exec /\ so[Library].text = LoadPage(Library)
                /\ so[Library].next = LoadPage(Library) + segments[i - 1].end

\* The libraries are loaded at rising addresses; no text is there before its turn.
NotLoaded ==
  \A m \in Names :
    \/ LoadPage(m) < LoadPage(Library)
    \/ m = Library /\ ~AtStart
    \/ so[m].text = Null

Below == \A b \in blocks : b.first \in Nat /\ b.pages \in Nat /\ b.first + b.pages <= FreePage

RoomInv == LaidOut /\ NotLoaded /\ Below /\ LoadsFit

LEMMA PagesAre ==
  ASSUME NEW m \in Names
  PROVE  /\ LoadPage(m) \in Nat /\ NotedPages(m) \in Nat /\ LoadPage(m) >= PatchPages
         /\ PatchPages \in Nat /\ MorePages \in Nat
BY FiveLibraries DEF LoadPage, NotedPages, PatchPages, MorePages

LEMMA NextIsAbove ==
  ASSUME NEW m \in Names, m # "game"
  PROVE  LET next == Libraries[1 + SelectInSeq(Libraries, LAMBDA n : n = m)]
         IN  next \in Names /\ LoadPage(m) + NotedPages(m) + MorePages <= LoadPage(next) - PatchPages
<1> DEFINE next == Libraries[1 + SelectInSeq(Libraries, LAMBDA n : n = m)]
<1>1. PICK k \in 1 .. 4 : Libraries[k] = m /\ next = Libraries[k + 1] /\ next \in Names
  BY NextOne
<1> HIDE DEF next
<1>2. k \in {1, 2, 3, 4}
  BY <1>1
<1>3. \/ m = "cpufeatures" /\ next = "jbejni"
      \/ m = "jbejni" /\ next = "libcpp"
      \/ m = "libcpp" /\ next = "libxmv"
      \/ m = "libxmv" /\ next = "game"
  BY <1>1, <1>2 DEF Libraries
<1>4. LoadPage(m) + NotedPages(m) + MorePages <= LoadPage(next) - PatchPages
  BY <1>3 DEF LoadPage, NotedPages, PatchPages, MorePages
<1> QED
  BY <1>1, <1>4 DEF next

\* What the segments of a library say of each other.
LEMMA SegmentsAre ==
  ASSUME NEW m \in Names, NEW file \in Elf[m]
  PROVE  LET segments == file.segments IN
         /\ Len(segments) \in Nat /\ DOMAIN segments = 1 .. Len(segments)
         /\ \A i \in 1 .. Len(segments) :
              segments[i].end \in Nat /\ segments[i].end <= NotedPages(m) + MorePages
         /\ \A i, j \in 1 .. Len(segments) : i < j =>
              segments[i].end < segments[j].end /\ ~(segments[i].exec /\ segments[j].exec)
<1> DEFINE segments == file.segments
           Kind1 == [exec : BOOLEAN, end : Nat \ {0}]
<1>1. /\ segments \in Seq(Kind1)
      /\ \A i, j \in DOMAIN segments : i < j =>
           segments[i].end < segments[j].end /\ ~(segments[i].exec /\ segments[j].exec)
      /\ \A i \in DOMAIN segments : segments[i].end <= NotedPages(m) + MorePages
  BY SegmentsAssumption DEF Names
<1> HIDE DEF segments, Kind1
<1>2. Len(segments) \in Nat /\ DOMAIN segments = 1 .. Len(segments)
      /\ \A i \in 1 .. Len(segments) : segments[i] \in Kind1
  BY <1>1
<1>3. \A i \in 1 .. Len(segments) : segments[i].end \in Nat
  BY <1>2 DEF Kind1
<1> QED
  BY <1>1, <1>2, <1>3 DEF segments

LEMMA FreeIs ==
  ASSUME Modules, LaidOut
  PROVE  /\ FreePage \in Nat
         /\ FreePage <= LoadPage(Library) + NotedPages(Library) + MorePages
<1>1. Library \in Names
  BY DEF Modules
<1> DEFINE base == LoadPage(Library)
           noted == NotedPages(Library)
<1>2. base \in Nat /\ noted \in Nat /\ base >= PatchPages /\ PatchPages \in Nat /\ MorePages \in Nat
  BY <1>1, PagesAre
<1>3. CASE AtStart
  <2>1. FreePage = base - PatchPages
    BY <1>3 DEF FreePage
  <2> HIDE DEF base, noted
  <2> QED
    BY <1>2, <2>1 DEF base, noted
<1>4. CASE ~AtStart /\ stage.step = "segments"
  <2> DEFINE segments == stage.file.segments
  <2>1. stage.file \in Elf[Library] /\ stage.segment \in 1 .. Len(segments) + 1
    BY <1>4 DEF LaidOut
  <2>2. Len(segments) \in Nat
    BY <1>1, <2>1, SegmentsAre
  <2>3. stage.segment > 1 /\ stage.segment - 1 \in 1 .. Len(segments)
    BY <1>4, <2>1, <2>2 DEF AtStart
  <2> DEFINE end == segments[stage.segment - 1].end
  <2>4. end \in Nat /\ end <= noted + MorePages
    BY <1>1, <2>1, <2>3, SegmentsAre
  <2>5. FreePage = base + end
    BY <1>4, <2>3 DEF LaidOut, FreePage
  <2> HIDE DEF base, noted, end
  <2> QED
    BY <1>2, <2>4, <2>5 DEF base, noted
<1>5. CASE ~AtStart /\ stage.step # "segments"
  <2>1. FreePage = base + noted + MorePages
    BY <1>5 DEF FreePage
  <2> HIDE DEF base, noted
  <2> QED
    BY <1>2, <2>1 DEF base, noted
<1> QED
  BY <1>3, <1>4, <1>5

LEMMA StillBelow ==
  ASSUME Below, blocks' \subseteq blocks, FreePage \in Nat, FreePage' \in Nat, FreePage <= FreePage'
  PROVE  Below'
<1> SUFFICES ASSUME NEW b \in blocks'
             PROVE  b.first \in Nat /\ b.pages \in Nat /\ b.first + b.pages <= FreePage'
  BY DEF Below
<1>1. b.first \in Nat /\ b.pages \in Nat /\ b.first + b.pages <= FreePage
  BY DEF Below
<1> QED
  BY <1>1

\* A step of a library whose segments are not being loaded, or at the end of that.
LEMMA RoomKept ==
  ASSUME LoadInv, RoomInv, Modules', Library' = Library, blocks' \subseteq blocks,
         \A m \in Names : so'[m].text = so[m].text,
         stage'.step \notin {"open", "segments"}, stage.step # "open", LoadsFit'
  PROVE  RoomInv'
<1>1. Modules /\ LaidOut /\ NotLoaded /\ Below /\ Library \in Names
  BY DEF RoomInv, LoadInv, Modules
<1>2. ~AtStart' /\ LaidOut'
  BY DEF AtStart, LaidOut
<1>3. FreePage' = LoadPage(Library) + NotedPages(Library) + MorePages
  BY <1>2 DEF FreePage
<1>4. Below'
  BY <1>1, <1>2, <1>3, FreeIs, StillBelow
<1>5. NotLoaded'
  BY <1>1, <1>2 DEF NotLoaded
<1> QED
  BY <1>2, <1>4, <1>5 DEF RoomInv

LEMMA RoomUnchanged ==
  ASSUME RoomInv, UNCHANGED <<stage, blocks, so>>, LoadsFit'
  PROVE  RoomInv'
<1>1. Library' = Library /\ AtStart' = AtStart
  BY DEF Library, AtStart
<1>2. FreePage' = FreePage
  BY <1>1 DEF FreePage
<1> QED
  BY <1>1, <1>2 DEF RoomInv, LaidOut, NotLoaded, Below

\* The pages of a block that starts where the others end are free.
LEMMA BlockIsFree ==
  ASSUME Below, FreePage \in Nat, NEW first \in Nat, NEW pages \in Nat, first >= FreePage,
         NEW c \in blocks
  PROVE  PagesOf(Block(first, pages)) \cap PagesOf(c) = {}
<1>1. c.first \in Nat /\ c.pages \in Nat /\ c.first + c.pages <= FreePage
  BY DEF Below
<1>2. ASSUME NEW page \in PagesOf(Block(first, pages)), page \in PagesOf(c) PROVE FALSE
  <2>1. page \in first .. first + pages - 1 /\ page \in c.first .. c.first + c.pages - 1
    BY <1>2 DEF PagesOf, Block
  <2> QED
    BY <1>1, <2>1
<1> QED
  BY <1>2

LEMMA OpenKeepsRoom ==
  ASSUME LoadInv, RoomInv, LoadInv', so_file_load
  PROVE  RoomInv'
<1>1. Modules /\ LaidOut /\ NotLoaded /\ Below /\ Library \in Names /\ Staged
  BY DEF RoomInv, LoadInv, Modules
<1>2. stage.step = "open" /\ fatal = Null /\ LoadsFit
  BY DEF so_file_load, At, RoomInv
<1>3. ASSUME NEW why \in {"open", "memory", "magic"}, LoadFails(why) PROVE RoomInv'
  <2>1. LoadsFit'
    BY <1>3 DEF LoadFails, LoadsFit
  <2> QED
    BY <1>3, <2>1, RoomUnchanged DEF LoadFails
<1>4. ASSUME NEW file \in Elf[Library],
             stage' = [stage EXCEPT !.step = "segments", !.segment = 1, !.file = file],
             UNCHANGED <<blocks, so, list, fatal>>
      PROVE  RoomInv'
  <2>1. stage'.step = "segments" /\ stage'.segment = 1 /\ stage'.file = file /\ Library' = Library
    BY <1>1, <1>4 DEF Staged, Library
  <2>2. AtStart /\ AtStart'
    BY <1>2, <2>1 DEF AtStart
  <2>3. FreePage' = FreePage
    BY <2>1, <2>2 DEF FreePage
  <2>4. LaidOut'
    <3>1. Len(file.segments) \in Nat
      BY <1>1, SegmentsAre
    <3>2. 1 \in 1 .. Len(file.segments) + 1 /\ ~(1 > 1)
      BY <3>1
    <3> QED
      BY <1>4, <2>1, <3>2 DEF LaidOut
  <2>5. NotLoaded'
    BY <1>1, <1>4, <2>1, <2>2 DEF NotLoaded
  <2> QED
    BY <1>1, <1>2, <1>4, <2>3, <2>4, <2>5 DEF RoomInv, Below, LoadsFit
<1> QED
  BY <1>3, <1>4 DEF so_file_load

\* The new blocks of a segment lie between the blocks allocated so far and the
\* page that is free afterwards.
LEMMA SegmentKeepsRoom ==
  ASSUME LoadInv, RoomInv, LoadInv', LoadSegment
  PROVE  RoomInv'
<1>1. Modules /\ LaidOut /\ NotLoaded /\ Below /\ Library \in Names /\ Staged
      /\ so = [m \in Names |-> so[m]]
  BY DEF RoomInv, LoadInv, Modules
<1> DEFINE segments == stage.file.segments
           i == stage.segment
           base == LoadPage(Library)
           new == IF Segment.exec THEN TextBlocks ELSE DataBlocks
           taken == \E b \in new.blocks, c \in blocks : PagesOf(b) \cap PagesOf(c) # {}
<1>2. stage.step = "segments" /\ i <= Len(segments) /\ fatal = Null /\ ~NoText
  BY DEF LoadSegment, At
<1>3. /\ stage.file \in Elf[Library] /\ i \in 1 .. Len(segments) + 1
      /\ i > 1 => /\ segments[1].exec /\ so[Library].text = base
                  /\ so[Library].next = base + segments[i - 1].end
  BY <1>1, <1>2 DEF LaidOut
<1>4. Len(segments) \in Nat
  BY <1>1, <1>3, SegmentsAre
<1>5. i \in Nat /\ i >= 1 /\ i \in 1 .. Len(segments) /\ 1 \in 1 .. Len(segments)
  BY <1>2, <1>3, <1>4
<1>6. base \in Nat /\ base >= PatchPages /\ PatchPages \in Nat /\ FreePage \in Nat
  BY <1>1, PagesAre, FreeIs
<1> DEFINE end == segments[i].end
<1>7. end \in Nat /\ end = Segment.end
  BY <1>1, <1>3, <1>5, SegmentsAre DEF Segment
\* Where the new blocks are.
<1>8. /\ \A b \in new.blocks : \E first, pages \in Nat :
           b = Block(first, pages) /\ first >= FreePage /\ first + pages <= base + end
      /\ new.module.text = base /\ new.module.next = base + end
      /\ segments[1].exec
  <2> DEFINE old == so[Library]
  <2>1. old \in [text : {old.text}, data : {old.data}, next : {old.next}, file : {old.file}]
    BY <1>1 DEF LoadInv, Modules
  <2>2. CASE i = 1
    <3>1. AtStart
      BY <1>2, <2>2 DEF AtStart
    <3>2. old.text = Null
      <4>1. ~(base < base)
        BY <1>6
      <4> QED
        BY <1>1, <3>1, <4>1 DEF NotLoaded
    <3>3. Segment.exec /\ segments[1].exec
      BY <1>2, <2>2, <3>2 DEF NoText, Segment
    <3>4. FreePage = base - PatchPages
      BY <3>1 DEF FreePage
    <3>5. new = TextBlocks
      BY <3>3
    <3>6. new.blocks = {Block(base, end), Block(base - PatchPages, PatchPages)}
      BY <1>7, <3>5 DEF TextBlocks, Block
    <3>7. new.module.text = base /\ new.module.next = base + end
      <4>1. new.module = [old EXCEPT !.text = base, !.next = base + end]
        BY <1>7, <3>5 DEF TextBlocks, Block
      <4> HIDE DEF new, base, end, old
      <4> QED
        BY <2>1, <4>1
    <3> HIDE DEF new, base, end
    <3>8. /\ base - PatchPages \in Nat /\ base - PatchPages + PatchPages <= base + end
          /\ base >= base - PatchPages /\ base + end <= base + end
      BY <1>6, <1>7
    <3>9. ASSUME NEW b \in new.blocks
          PROVE  \E first, pages \in Nat :
                   b = Block(first, pages) /\ first >= FreePage /\ first + pages <= base + end
      <4>1. CASE b = Block(base, end)
        BY <1>6, <1>7, <3>4, <3>8, <4>1
      <4>2. CASE b = Block(base - PatchPages, PatchPages)
        BY <1>6, <1>7, <3>4, <3>8, <4>2
      <4> QED
        BY <3>6, <4>1, <4>2
    <3> QED
      BY <3>3, <3>7, <3>9
  <2>3. CASE i > 1
    <3> DEFINE before == segments[i - 1].end
    <3>1. i - 1 \in 1 .. Len(segments) /\ i - 1 < i /\ 1 < i
      BY <1>4, <1>5, <2>3
    <3>2. before \in Nat /\ before < end
      BY <1>1, <1>3, <1>5, <3>1, SegmentsAre
    <3>3. ~Segment.exec
      BY <1>1, <1>3, <1>5, <2>3, <3>1, SegmentsAre DEF Segment
    <3>4. old.text = base /\ old.next = base + before
      BY <1>3, <2>3
    <3>5. FreePage = base + before
      BY <1>2, <1>5, <2>3, <3>4 DEF FreePage, AtStart
    <3>6. new = DataBlocks
      BY <3>3
    <3>7. base + end - (base + before) = end - before /\ end - before \in Nat
      BY <1>6, <1>7, <3>2
    <3>8. /\ new.blocks = {Block(base + before, end - before)}
          /\ new.module = [old EXCEPT !.data = Append(@, Block(base + before, end - before)),
                                      !.next = @ + (end - before)]
      <4>1. base + Segment.end - old.next = end - before
        BY <1>7, <3>4, <3>7
      <4> HIDE DEF new, end, before
      <4> QED
        BY <3>4, <3>6, <4>1 DEF DataBlocks, Block
    <3>9. base + before + (end - before) = base + end /\ base + before \in Nat
      BY <1>6, <1>7, <3>2
    <3>10. new.module.text = base /\ new.module.next = base + end
      <4> HIDE DEF new, base, end, before, old
      <4> QED
        BY <2>1, <3>4, <3>8, <3>9
    <3> HIDE DEF new, base, end, before
    <3>11. ASSUME NEW b \in new.blocks
           PROVE  \E first, pages \in Nat :
                    b = Block(first, pages) /\ first >= FreePage /\ first + pages <= base + end
      BY <1>6, <1>7, <3>5, <3>7, <3>8, <3>9
    <3> QED
      BY <1>3, <2>3, <3>10, <3>11
  <2> QED
    BY <1>5, <2>2, <2>3
<1>9. ~taken
  <2> SUFFICES ASSUME NEW b \in new.blocks, NEW c \in blocks PROVE PagesOf(b) \cap PagesOf(c) = {}
    OBVIOUS
  <2> HIDE DEF new
  <2> QED
    BY <1>1, <1>6, <1>8, BlockIsFree
<1>10. CASE LoadFails("memory")
  <2>1. LoadsFit'
    BY <1>10 DEF LoadFails, LoadsFit
  <2> QED
    BY <1>10, <2>1, RoomUnchanged DEF LoadFails
<1>11. CASE /\ blocks' = blocks \cup new.blocks
            /\ so' = [so EXCEPT ![Library] = new.module]
            /\ stage' = [stage EXCEPT !.segment = @ + 1]
            /\ UNCHANGED <<list, fatal>>
  <2>1. stage'.step = "segments" /\ stage'.segment = i + 1 /\ stage'.file = stage.file /\ Library' = Library
    BY <1>1, <1>2, <1>11 DEF Staged, Library
  <2>2. so'[Library] = new.module /\ \A m \in Names \ {Library} : so'[m] = so[m]
    BY <1>1, <1>11
  <2>3. ~AtStart' /\ i + 1 > 1 /\ i + 1 - 1 = i
    BY <1>5, <2>1 DEF AtStart
  <2> HIDE DEF new, base, end
  <2>4. LaidOut'
    <3>1. i + 1 \in 1 .. Len(segments) + 1
      BY <1>4, <1>5
    <3>2. stage.file \in Elf[Library] /\ so'[Library].text = base /\ so'[Library].next = base + end
      BY <1>3, <1>8, <2>2
    <3>3. /\ stage'.file \in Elf[Library'] /\ stage'.segment \in 1 .. Len(stage'.file.segments) + 1
          /\ stage'.file.segments[1].exec /\ so'[Library'].text = LoadPage(Library')
      BY <1>8, <2>1, <3>1, <3>2 DEF base
    <3>4. so'[Library'].next = LoadPage(Library') + stage'.file.segments[stage'.segment - 1].end
      <4>1. stage'.segment - 1 = i
        BY <1>5, <2>1
      <4> QED
        BY <2>1, <3>2, <4>1 DEF base, end
    <3> QED
      BY <3>3, <3>4 DEF LaidOut
  <2>5. FreePage' = base + end
    BY <1>8, <2>1, <2>2, <2>3 DEF FreePage
  <2>6. FreePage <= base + end
    <3>1. PICK b \in new.blocks : TRUE
      BY DEF new, TextBlocks, DataBlocks
    <3> QED
      BY <1>6, <1>7, <1>8, <3>1
  <2>7. ASSUME NEW b \in blocks'
        PROVE  b.first \in Nat /\ b.pages \in Nat /\ b.first + b.pages <= base + end
    <3>1. CASE b \in blocks
      <4>1. b.first \in Nat /\ b.pages \in Nat /\ b.first + b.pages <= FreePage
        BY <1>1, <3>1 DEF Below
      <4> QED
        BY <1>6, <1>7, <2>6, <4>1
    <3>2. CASE b \in new.blocks
      <4>1. PICK first \in Nat, pages \in Nat : b = Block(first, pages) /\ first + pages <= base + end
        BY <1>8, <3>2
      <4> QED
        BY <4>1 DEF Block
    <3> QED
      BY <1>11, <3>1, <3>2
  <2>8. Below'
    BY <2>5, <2>7 DEF Below
  <2>9. NotLoaded'
    BY <1>1, <2>1, <2>2, <2>3 DEF NotLoaded, AtStart
  <2> QED
    BY <1>2, <1>11, <2>4, <2>8, <2>9 DEF RoomInv, LoadsFit
<1> QED
  BY <1>9, <1>10, <1>11 DEF LoadSegment

LEMMA InitializeKeepsRoom ==
  ASSUME LoadInv, RoomInv, LoadInv', so_initialize
  PROVE  RoomInv'
<1>1. Modules /\ LaidOut /\ NotLoaded /\ Below /\ Library \in Names /\ Staged
  BY DEF RoomInv, LoadInv, Modules
<1>2. stage.step = "initialize" /\ fatal = Null /\ UNCHANGED <<blocks, so>> /\ LoadsFit
  BY DEF so_initialize, At, RoomInv
<1>3. LoadsFit'
  BY <1>2 DEF so_initialize, CallThrough, LoadsFit
<1>4. CASE UNCHANGED <<stage, ready>>
  BY <1>2, <1>3, <1>4, RoomUnchanged
<1>5. CASE stage' = NextLibrary /\ Library = "game"
  <2>1. stage' = [stage EXCEPT !.step = "running", !.file = Null]
    BY <1>5 DEF NextLibrary
  <2>2. stage'.step = "running" /\ Library' = Library
    BY <1>1, <2>1 DEF Staged, Library
  <2> QED
    BY <1>2, <1>3, <2>2, RoomKept DEF LoadInv
<1>6. CASE stage' = NextLibrary /\ Library # "game"
  <2> DEFINE next == Libraries[1 + SelectInSeq(Libraries, LAMBDA n : n = Library)]
  <2>1. next \in Names /\ LoadPage(Library) + NotedPages(Library) + MorePages <= LoadPage(next) - PatchPages
    BY <1>1, <1>6, NextIsAbove
  <2>2. stage' = [stage EXCEPT !.step = "open", !.file = Null, !.library = next]
    BY <1>6 DEF NextLibrary, Library
  <2> HIDE DEF next
  <2>3. stage'.step = "open" /\ Library' = next
    BY <1>1, <2>2 DEF Staged, Library
  <2>4. ~AtStart /\ AtStart' /\ LaidOut'
    BY <1>2, <2>3 DEF AtStart, LaidOut
  <2>5. FreePage' = LoadPage(next) - PatchPages /\ FreePage = LoadPage(Library) + NotedPages(Library) + MorePages
    BY <1>2, <2>3, <2>4 DEF FreePage
  <2>6. FreePage \in Nat /\ FreePage' \in Nat /\ FreePage <= FreePage' /\ LoadPage(Library) < LoadPage(next)
    BY <1>1, <2>1, <2>5, PagesAre, FreeIs, SMT DEF PatchPages, MorePages
  <2>7. Below'
    BY <1>1, <1>2, <2>6, StillBelow
  <2>8. NotLoaded'
    <3> SUFFICES ASSUME NEW m \in Names, ~(LoadPage(m) < LoadPage(next)) PROVE so[m].text = Null
      BY <1>2, <2>3 DEF NotLoaded
    <3>1. LoadPage(m) \in Nat /\ LoadPage(Library) \in Nat /\ LoadPage(next) \in Nat
      BY <1>1, <2>1, PagesAre
    <3>2. ~(LoadPage(m) < LoadPage(Library)) /\ m # Library
      BY <2>6, <3>1
    <3> QED
      BY <1>1, <3>2 DEF NotLoaded
  <2> QED
    BY <1>3, <2>4, <2>7, <2>8 DEF RoomInv
<1> QED
  BY <1>4, <1>5, <1>6 DEF so_initialize

LEMMA RoomStep ==
  ASSUME LoadInv, RoomInv, LoadInv', Boot
  PROVE  RoomInv'
<1>1. Modules /\ Modules' /\ LoadsFit /\ Staged /\ Library \in Names /\ so = [m \in Names |-> so[m]]
  BY DEF LoadInv, RoomInv, Modules
<1>2. CASE so_file_load
  BY <1>2, OpenKeepsRoom
<1>3. CASE LoadSegment
  BY <1>3, SegmentKeepsRoom
<1>4. CASE so_initialize
  BY <1>4, InitializeKeepsRoom
<1>5. CASE GiveUp
  <2>1. stage.step = "segments" /\ UNCHANGED <<so, fatal>> /\ Goto("relocate")
    BY <1>5 DEF GiveUp, At
  <2>2. blocks' \subseteq blocks
    BY <1>5 DEF GiveUp
  <2>3. Library' = Library /\ stage'.step = "relocate"
    BY <1>1, <2>1 DEF Goto, Staged, Library
  <2> QED
    BY <1>1, <2>1, <2>2, <2>3, RoomKept DEF LoadsFit
<1>6. CASE FindSections
  <2>1. CASE LoadFails("sections")
    <3>1. LoadsFit'
      BY <2>1 DEF LoadFails, LoadsFit
    <3> QED
      BY <2>1, <3>1, RoomUnchanged DEF LoadFails
  <2>2. CASE /\ so' = [so EXCEPT ![Library].file = stage.file] /\ Goto("relocate")
             /\ UNCHANGED <<blocks, fatal>>
    <3>1. Library' = Library /\ stage'.step = "relocate" /\ stage.step = "segments"
      BY <1>1, <1>6, <2>2 DEF Goto, Staged, Library, FindSections, At
    <3>2. \A m \in Names : so'[m].text = so[m].text
      <4> DEFINE old == so[Library]
      <4>1. old \in [text : {old.text}, data : {old.data}, next : {old.next}, file : {old.file}]
        BY <1>1 DEF Modules
      <4>2. so'[Library] = [old EXCEPT !.file = stage.file] /\ \A m \in Names \ {Library} : so'[m] = so[m]
        BY <1>1, <2>2
      <4>3. so'[Library].text = old.text
        BY <4>1, <4>2
      <4> QED
        BY <4>2, <4>3
    <3> QED
      BY <1>1, <2>2, <3>1, <3>2, RoomKept DEF LoadsFit
  <2> QED
    BY <1>6, <2>1, <2>2 DEF FindSections
<1>7. CASE so_relocate \/ so_resolve \/ so_patch \/ so_flush_caches
  <2>1. /\ stage.step \in {"relocate", "resolve", "patch", "flush"}
        /\ UNCHANGED <<blocks, so, fatal>>
        /\ \/ Goto("resolve") \/ Goto("patch") \/ Goto("flush") \/ Goto("initialize")
    BY <1>7 DEF so_relocate, so_resolve, so_patch, so_flush_caches, At
  <2>2. Library' = Library /\ stage'.step \in {"resolve", "patch", "flush", "initialize"}
    BY <1>1, <2>1 DEF Goto, Staged, Library
  <2> QED
    BY <1>1, <2>1, <2>2, RoomKept DEF LoadsFit
<1> QED
  BY <1>2, <1>3, <1>4, <1>5, <1>6, <1>7 DEF Boot

LEMMA RoomInit == Init => RoomInv
<1> SUFFICES ASSUME Init PROVE RoomInv
  OBVIOUS
<1>1. stage.step = "open" /\ blocks = {} /\ fatal = Null /\ \A m \in Names : so[m] = NoModule
  BY DEF Init, Names
<1>2. AtStart /\ LaidOut /\ Below
  BY <1>1 DEF AtStart, LaidOut, Below
<1>3. NotLoaded
  BY <1>1 DEF NotLoaded, NoModule
<1>4. LoadsFit
  BY <1>1, NullAssumption DEF LoadsFit
<1> QED
  BY <1>2, <1>3, <1>4 DEF RoomInv

\* LoadsFit (so_util.c, init.c): with files of the sizes that init.c notes, the
\* block of every segment and of every patch arena is free when it is allocated.
THEOREM LibrariesAlwaysFit == GameSpec => []LoadsFit
<1>1. GameInit => RoomInv
  BY RoomInit DEF GameInit
<1>2. LoadInv /\ LoadInv' /\ RoomInv /\ [GameNext]_gameVars => RoomInv'
  <2> SUFFICES ASSUME LoadInv, LoadInv', RoomInv, [GameNext]_gameVars PROVE RoomInv'
    OBVIOUS
  <2>1. CASE Boot
    BY <2>1, RoomStep
  <2>2. CASE CallImport
    <3>1. UNCHANGED <<stage, blocks, so>> /\ fatal = Null /\ LoadsFit
      BY <2>2 DEF CallImport, Run, At, RoomInv
    <3>2. LoadsFit'
      BY <2>2, <3>1 DEF CallImport, Run, CallThrough, LoadsFit
    <3> QED
      BY <3>1, <3>2, RoomUnchanged
  <2>3. CASE UNCHANGED loadVars
    <3>1. UNCHANGED <<stage, blocks, so, fatal>>
      BY <2>3 DEF loadVars
    <3> QED
      BY <3>1, RoomUnchanged DEF RoomInv, LoadsFit
  <2> QED
    BY <2>1, <2>2, <2>3 DEF GameNext, Play, gameVars
<1>3. RoomInv => LoadsFit
  BY DEF RoomInv
<1> QED
  BY <1>1, <1>2, <1>3, LoadInvariant, PTL DEF GameSpec

-----------------------------------------------------------------------------
(* Powers of two *)

PowersTo(f, n) == f = [k \in 0 .. n |-> IF k = 0 THEN 1 ELSE 2 * f[k - 1]]

LEMMA PowersStep ==
  ASSUME NEW n \in Nat, NEW f, PowersTo(f, n)
  PROVE  \A k \in 0 .. n : f[k] = IF k = 0 THEN 1 ELSE 2 * f[k - 1]
BY Zenon DEF PowersTo

LEMMA PowersAreUnique ==
  ASSUME NEW n \in Nat, NEW m \in Nat, NEW f, NEW g, PowersTo(f, n), PowersTo(g, m),
         NEW k \in 0 .. n, k <= m
  PROVE  f[k] = g[k]
<1> DEFINE Bad == {j \in 0 .. k : f[j] # g[j]}
<1>1. SUFFICES ASSUME Bad # {} PROVE FALSE
  OBVIOUS
<1>2. PICK j \in Bad : \A i \in Bad : j <= i
  <2>1. Bad \in SUBSET Nat
    OBVIOUS
  <2> HIDE DEF Bad
  <2> QED
    BY <1>1, <2>1, FirstIsLeast
<1>3. /\ f[j] = IF j = 0 THEN 1 ELSE 2 * f[j - 1]
      /\ g[j] = IF j = 0 THEN 1 ELSE 2 * g[j - 1]
  <2>1. j \in 0 .. n /\ j \in 0 .. m
    OBVIOUS
  <2> QED
    BY <2>1, PowersStep
<1>4. j # 0
  BY <1>2, <1>3
<1>5. f[j - 1] = g[j - 1]
  <2>1. j - 1 \in 0 .. k /\ ~(j <= j - 1)
    BY <1>2, <1>4
  <2>2. j - 1 \notin Bad
    BY <1>2, <2>1
  <2> QED
    BY <2>1, <2>2
<1> QED
  BY <1>2, <1>3, <1>5

LEMMA PowersExist ==
  ASSUME NEW n \in Nat
  PROVE  \E f : PowersTo(f, n)
<1> DEFINE Bad == {m \in Nat : ~ \E f : PowersTo(f, m)}
<1>1. SUFFICES ASSUME Bad # {} PROVE FALSE
  OBVIOUS
<1>2. PICK m \in Bad : \A k \in Bad : m <= k
  <2>1. Bad \in SUBSET Nat
    OBVIOUS
  <2> HIDE DEF Bad
  <2> QED
    BY <1>1, <2>1, FirstIsLeast
<1>3. m # 0
  <2>1. PowersTo([k \in 0 .. 0 |-> 1], 0)
    BY DEF PowersTo
  <2> QED
    BY <1>2, <2>1
<1>4. m - 1 \in Nat /\ m - 1 \notin Bad
  BY <1>2, <1>3
<1>5. PICK g : PowersTo(g, m - 1)
  BY <1>4
<1> DEFINE After(f, k) == IF k = 0 THEN 1 ELSE 2 * f[k - 1]
           h == [k \in 0 .. m |-> IF k < m THEN g[k] ELSE After(g, k)]
<1>6. ASSUME NEW k \in 0 .. m PROVE h[k] = After(h, k)
  <2>1. h[k] = After(g, k)
    <3>1. CASE k < m
      <4>1. k \in 0 .. (m - 1)
        BY <1>4, <3>1
      <4>2. g[k] = After(g, k)
        BY <1>4, <1>5, <4>1, PowersStep
      <4>3. h[k] = g[k]
        BY <3>1
      <4> HIDE DEF After, h
      <4> QED
        BY <4>2, <4>3
    <3>2. CASE k = m
      <4> HIDE DEF After
      <4> QED
        BY <3>2
    <3> QED
      BY <3>1, <3>2
  <2>2. k # 0 => h[k - 1] = g[k - 1]
    BY <1>2
  <2> HIDE DEF h
  <2> QED
    BY <2>1, <2>2
<1>7. h = [k \in 0 .. m |-> After(h, k)]
  <2>1. h = [k \in 0 .. m |-> h[k]]
    OBVIOUS
  <2> HIDE DEF h, After
  <2> QED
    BY <1>6, <2>1
<1>8. PowersTo(h, m)
  <2> HIDE DEF h
  <2> QED
    BY <1>7, Zenon DEF PowersTo
<1> QED
  BY <1>2, <1>8

\* The recursive function Pow2 exists, so that its equations hold.
LEMMA PowIs ==
  /\ Pow2[0] = 1
  /\ \A n \in Nat : Pow2[n + 1] = 2 * Pow2[n]
<1> DEFINE F == [n \in Nat |-> (CHOOSE f : PowersTo(f, n))[n]]
           Good(f) == f = [n \in Nat |-> IF n = 0 THEN 1 ELSE 2 * f[n - 1]]
<1>1. ASSUME NEW n \in Nat PROVE F[n] = IF n = 0 THEN 1 ELSE 2 * F[n - 1]
  <2>1. PICK f : PowersTo(f, n) /\ f = CHOOSE g : PowersTo(g, n)
    BY PowersExist
  <2>2. F[n] = f[n]
    BY <2>1
  <2>3. f[n] = IF n = 0 THEN 1 ELSE 2 * f[n - 1]
    BY <2>1, PowersStep
  <2>4. n # 0 => F[n - 1] = f[n - 1]
    <3> SUFFICES ASSUME n # 0 PROVE F[n - 1] = f[n - 1]
      OBVIOUS
    <3>1. n - 1 \in Nat /\ n - 1 \in 0 .. n - 1 /\ n - 1 <= n
      OBVIOUS
    <3>2. PICK g : PowersTo(g, n - 1) /\ g = CHOOSE e : PowersTo(e, n - 1)
      BY <3>1, PowersExist
    <3>3. F[n - 1] = g[n - 1]
      BY <3>1, <3>2
    <3>4. g[n - 1] = f[n - 1]
      BY <2>1, <3>1, <3>2, PowersAreUnique
    <3> HIDE DEF F
    <3> QED
      BY <3>3, <3>4
  <2> HIDE DEF F
  <2> QED
    BY <2>2, <2>3, <2>4
<1>2. Good(F)
  <2>1. F = [n \in Nat |-> F[n]]
    OBVIOUS
  <2> HIDE DEF F
  <2> QED
    BY <1>1, <2>1
<1>3. Pow2 = CHOOSE f : Good(f)
  BY Zenon DEF Pow2
<1>4. Good(Pow2)
  <2> HIDE DEF F, Good
  <2> QED
    BY <1>2, <1>3
<1>5. \A n \in Nat : Pow2[n] = IF n = 0 THEN 1 ELSE 2 * Pow2[n - 1]
  BY <1>4, Zenon
<1>6. ASSUME NEW n \in Nat PROVE Pow2[n + 1] = 2 * Pow2[n]
  <2>1. n + 1 \in Nat /\ n + 1 # 0 /\ (n + 1) - 1 = n
    OBVIOUS
  <2>2. Pow2[n + 1] = 2 * Pow2[(n + 1) - 1]
    BY <1>5, <2>1, Zenon
  <2> QED
    BY <2>1, <2>2
<1> QED
  BY <1>5, <1>6

LEMMA PowIsPositive ==
  ASSUME NEW n \in Nat
  PROVE  Pow2[n] \in Nat \ {0}
<1> DEFINE Bad == {m \in Nat : Pow2[m] \notin Nat \ {0}}
<1>1. SUFFICES ASSUME Bad # {} PROVE FALSE
  OBVIOUS
<1>2. PICK m \in Bad : \A k \in Bad : m <= k
  <2>1. Bad \in SUBSET Nat
    OBVIOUS
  <2> HIDE DEF Bad
  <2> QED
    BY <1>1, <2>1, FirstIsLeast
<1>3. m # 0
  BY <1>2, PowIs
<1>4. m - 1 \in Nat /\ m - 1 \notin Bad
  BY <1>2, <1>3
<1>5. Pow2[(m - 1) + 1] = 2 * Pow2[m - 1] /\ (m - 1) + 1 = m
  BY <1>4, PowIs
<1> QED
  BY <1>2, <1>4, <1>5

LEMMA PowOfSum ==
  ASSUME NEW a \in Nat, NEW b \in Nat
  PROVE  Pow2[a + b] = Pow2[a] * Pow2[b]
<1> DEFINE Bad == {m \in Nat : Pow2[a + m] # Pow2[a] * Pow2[m]}
<1>1. SUFFICES ASSUME Bad # {} PROVE FALSE
  OBVIOUS
<1>2. PICK m \in Bad : \A k \in Bad : m <= k
  <2>1. Bad \in SUBSET Nat
    OBVIOUS
  <2> HIDE DEF Bad
  <2> QED
    BY <1>1, <2>1, FirstIsLeast
<1>3. m # 0
  <2>1. Pow2[a] \in Nat /\ a + 0 = a
    BY PowIsPositive
  <2> QED
    BY <1>2, <2>1, PowIs
<1>4. m - 1 \in Nat /\ m - 1 \notin Bad
  BY <1>2, <1>3
<1>5. /\ Pow2[m] = 2 * Pow2[m - 1]
      /\ Pow2[a + m] = 2 * Pow2[a + (m - 1)]
  <2>1. (m - 1) + 1 = m /\ (a + (m - 1)) + 1 = a + m /\ a + (m - 1) \in Nat
    BY <1>4
  <2> QED
    BY <1>4, <2>1, PowIs
<1>6. Pow2[a + (m - 1)] = Pow2[a] * Pow2[m - 1]
  BY <1>4
<1>7. Pow2[a] \in Nat /\ Pow2[m - 1] \in Nat
  BY <1>4, PowIsPositive
<1>8. \A x, y \in Nat : 2 * (x * y) = x * (2 * y)
  OBVIOUS
<1>9. Pow2[a + m] = Pow2[a] * Pow2[m]
  BY <1>5, <1>6, <1>7, <1>8
<1> QED
  BY <1>2, <1>9

-----------------------------------------------------------------------------
(* Quotients and bits *)

LEMMA Quotient ==
  ASSUME NEW x \in Nat, NEW d \in Nat \ {0}
  PROVE  x \div d \in Nat /\ (x \div d) * d <= x /\ x < (x \div d) * d + d
<1>1. x \div d \in Int /\ (x \div d) * d <= x /\ x < (x \div d) * d + d
  OBVIOUS
<1>2. \A q \in Int : q * d <= x /\ x < q * d + d => q \in Nat
  <2> SUFFICES ASSUME NEW q \in Int, x < q * d + d, q < 0 PROVE FALSE
    OBVIOUS
  <2> QED
    OBVIOUS
<1> QED
  BY <1>1, <1>2

LEMMA QuotientIs ==
  ASSUME NEW x \in Nat, NEW d \in Nat \ {0}, NEW q \in Nat, q * d <= x, x < q * d + d
  PROVE  x \div d = q
<1>1. x < (q + 1) * d
  OBVIOUS
<1> QED
  BY <1>1

LEMMA QuotientOfQuotient ==
  ASSUME NEW x \in Nat, NEW a \in Nat \ {0}, NEW b \in Nat \ {0}
  PROVE  (x \div a) \div b = x \div (a * b)
<1> DEFINE y == x \div a
           q == y \div b
<1>1. y \in Nat /\ y * a <= x /\ x < y * a + a
  BY Quotient
<1>2. q \in Nat /\ q * b <= y /\ y < q * b + b
  BY <1>1, Quotient
<1> HIDE DEF y, q
<1>3. a * b \in Nat \ {0}
  OBVIOUS
<1>4. q * (a * b) <= x
  <2>1. (q * b) * a <= y * a
    BY <1>1, <1>2
  <2>2. (q * b) * a = q * (a * b)
    BY <1>2
  <2>3. q * b \in Nat /\ q * (a * b) \in Nat /\ y * a \in Nat
    BY <1>1, <1>2
  <2> QED
    BY <1>1, <2>1, <2>2, <2>3
<1>5. x < q * (a * b) + a * b
  <2>1. y + 1 <= q * b + b
    BY <1>1, <1>2
  <2>2. (y + 1) * a <= (q * b + b) * a
    BY <1>1, <1>2, <2>1
  <2>3. (q * b + b) * a = q * (a * b) + a * b /\ (y + 1) * a = y * a + a
    BY <1>1, <1>2
  <2>4. y * a + a \in Nat /\ q * (a * b) + a * b \in Nat
    BY <1>1, <1>2
  <2>5. y * a + a <= q * (a * b) + a * b
    BY <2>2, <2>3
  <2>6. \A i, j, k \in Nat : i < j /\ j <= k => i < k
    OBVIOUS
  <2>7. x < y * a + a
    BY <1>1
  <2> QED
    BY <2>4, <2>5, <2>6, <2>7
<1>6. x \div (a * b) = q
  BY <1>2, <1>3, <1>4, <1>5, QuotientIs
<1> QED
  BY <1>6 DEF q, y

\* Dividing by 2^m and 2^n is dividing by 2^(m + n).
LEMMA PowQuotient ==
  ASSUME NEW x \in Nat, NEW m \in Nat, NEW n \in Nat
  PROVE  (x \div Pow2[m]) \div Pow2[n] = x \div Pow2[m + n]
<1> DEFINE a == Pow2[m]  b == Pow2[n]
<1>1. a \in Nat \ {0} /\ b \in Nat \ {0} /\ Pow2[m + n] = a * b
  BY PowIsPositive, PowOfSum
<1> HIDE DEF a, b
<1>2. (x \div a) \div b = x \div (a * b)
  BY <1>1, QuotientOfQuotient
<1>3. (x \div a) \div b = x \div Pow2[m + n]
  BY <1>1, <1>2
<1> QED
  BY <1>3 DEF a, b

\* A multiple of d does not change what is below d.
LEMMA QuotientOfSum ==
  ASSUME NEW q \in Nat, NEW x \in Nat, NEW d \in Nat \ {0}
  PROVE  (q * d + x) \div d = q + x \div d
<1> DEFINE y == x \div d
<1>1. y \in Nat /\ y * d <= x /\ x < y * d + d
  BY Quotient
<1> HIDE DEF y
<1>2. (q + y) * d = q * d + y * d
  BY <1>1
<1>3. q * d + x \in Nat /\ q + y \in Nat /\ y * d \in Nat /\ q * d \in Nat
  BY <1>1
<1>4. (q + y) * d <= q * d + x /\ q * d + x < (q + y) * d + d
  BY <1>1, <1>2, <1>3
<1>5. (q * d + x) \div d = q + y
  BY <1>3, <1>4, QuotientIs
<1> QED
  BY <1>5 DEF y

\* The bits below 2^n do not depend on what is above.
LEMMA LowBits ==
  ASSUME NEW q \in Nat, NEW x \in Nat, NEW n \in Nat, NEW m \in Nat, m < n
  PROVE  Bit(q * Pow2[n] + x, m) = Bit(x, m)
<1> DEFINE r == Pow2[n - m - 1]
           d == Pow2[m]
<1>1. r \in Nat /\ d \in Nat \ {0} /\ Pow2[n] = 2 * r * d
  <2>1. n - m - 1 \in Nat /\ n - m \in Nat /\ (n - m - 1) + 1 = n - m /\ (n - m) + m = n
    OBVIOUS
  <2>2. Pow2[n - m] = 2 * Pow2[n - m - 1]
    BY <2>1, PowIs
  <2>3. Pow2[n] = Pow2[n - m] * Pow2[m]
    BY <2>1, PowOfSum
  <2> QED
    BY <2>1, <2>2, <2>3, PowIsPositive
<1> DEFINE p == Pow2[n]
<1> HIDE DEF r, d, p
<1>2. q * p + x = (2 * (q * r)) * d + x
  BY <1>1 DEF p
<1>3. ((2 * (q * r)) * d + x) \div d = 2 * (q * r) + x \div d
  <2>1. 2 * (q * r) \in Nat
    BY <1>1
  <2> QED
    BY <1>1, <2>1, QuotientOfSum
<1>3a. (q * p + x) \div d = 2 * (q * r) + x \div d
  BY <1>2, <1>3, Zenon
<1>4. x \div d \in Nat /\ q * r \in Nat
  BY <1>1, Quotient
<1>5. \A y, z \in Nat : (2 * y + z) % 2 = z % 2
  OBVIOUS
<1> QED
  BY <1>3a, <1>4, <1>5 DEF Bit, p, d

\* The bits of what is left of 2^n.
LEMMA RemainderBits ==
  ASSUME NEW x \in Nat, NEW n \in Nat, NEW m \in Nat, m < n
  PROVE  Bit(x % Pow2[n], m) = Bit(x, m)
<1> DEFINE d == Pow2[n]  q == x \div d  z == x % d
<1>1. d \in Nat \ {0}
  BY PowIsPositive
<1> HIDE DEF d
<1>2. q \in Nat /\ z \in Nat /\ x = q * d + z
  BY <1>1, Quotient
<1> HIDE DEF q, z
<1>3. Bit(q * d + z, m) = Bit(z, m)
  BY <1>2, LowBits DEF d
<1> QED
  BY <1>2, <1>3 DEF z, d

LEMMA HighBits ==
  ASSUME NEW x \in Nat, NEW n \in Nat, NEW m \in Nat
  PROVE  Bit(x \div Pow2[n], m) = Bit(x, n + m)
BY PowQuotient DEF Bit

LEMMA NextBit ==
  ASSUME NEW x \in Nat, NEW m \in Nat
  PROVE  x \div Pow2[m] = 2 * (x \div Pow2[m + 1]) + Bit(x, m)
<1> DEFINE y == x \div Pow2[m]
<1>1. Pow2[1] = 2 /\ 1 \in Nat
  <2>1. Pow2[0 + 1] = 2 * Pow2[0] /\ 0 + 1 = 1
    BY PowIs
  <2> QED
    BY <2>1, PowIs
<1>2. y \div Pow2[1] = x \div Pow2[m + 1]
  BY <1>1, PowQuotient
<1>3. y \in Nat
  BY PowIsPositive, Quotient
<1>4. Bit(x, m) = y % 2
  BY DEF Bit
<1> HIDE DEF y
<1>5. y = 2 * (y \div 2) + (y % 2)
  BY <1>3
<1>6. y = 2 * (x \div Pow2[m + 1]) + Bit(x, m)
  BY <1>1, <1>2, <1>4, <1>5
<1> QED
  BY <1>6 DEF y

\* Numbers of W bits and of l bits: if the first l bits are the same, then the
\* first number begins with the second one.
LEMMA SameBits ==
  ASSUME NEW W \in Nat, NEW l \in Nat, l <= W, NEW v \in Nat, v < Pow2[W],
         NEW c \in Nat, c < Pow2[l],
         \A k \in 1 .. l : Bit(v, W - k) = Bit(c, l - k)
  PROVE  v \div Pow2[W - l] = c
<1> DEFINE Bad == {k \in 0 .. l : v \div Pow2[W - k] # c \div Pow2[l - k]}
<1>1. Bad = {}
  <2> SUFFICES ASSUME Bad # {} PROVE FALSE
    OBVIOUS
  <2>1. PICK k \in Bad : \A j \in Bad : k <= j
    <3>1. Bad \in SUBSET Nat
      OBVIOUS
    <3> HIDE DEF Bad
    <3> QED
      BY <3>1, FirstIsLeast
  <2>2. k # 0
    <3>1. v \div Pow2[W] = 0 /\ c \div Pow2[l] = 0
      BY PowIsPositive, QuotientIs
    <3>2. W - 0 = W /\ l - 0 = l
      OBVIOUS
    <3> QED
      BY <2>1, <3>1, <3>2
  <2>3. k - 1 \in 0 .. l /\ k - 1 \notin Bad /\ k \in 1 .. l
    BY <2>1, <2>2
  <2>4. v \div Pow2[W - (k - 1)] = c \div Pow2[l - (k - 1)]
    BY <2>3, Zenon
  <2>5. ASSUME NEW x \in Nat, NEW n \in Nat, k <= n
        PROVE  x \div Pow2[n - k] = 2 * (x \div Pow2[n - (k - 1)]) + Bit(x, n - k)
    <3>1. n - k \in Nat /\ (n - k) + 1 = n - (k - 1)
      <4>1. k \in Nat
        BY <2>3
      <4> HIDE DEF Bad
      <4> QED
        BY <2>5, <4>1
    <3>2. x \div Pow2[n - k] = 2 * (x \div Pow2[(n - k) + 1]) + Bit(x, n - k)
      BY <3>1, NextBit
    <3> QED
      BY <3>1, <3>2, Zenon
  <2>6. /\ v \div Pow2[W - k] = 2 * (v \div Pow2[W - (k - 1)]) + Bit(v, W - k)
        /\ c \div Pow2[l - k] = 2 * (c \div Pow2[l - (k - 1)]) + Bit(c, l - k)
    <3>1. k <= W /\ k <= l
      BY <2>3
    <3> QED
      BY <3>1, <2>5, Zenon
  <2>7. Bit(v, W - k) = Bit(c, l - k)
    BY <2>3
  <2> QED
    BY <2>1, <2>4, <2>6, <2>7
<1>2. l \in 0 .. l /\ l - l = 0
  OBVIOUS
<1>3. v \div Pow2[W - l] = c \div Pow2[l - l]
  BY <1>1, <1>2
<1>4. c \div 1 = c
  OBVIOUS
<1> QED
  BY <1>2, <1>3, <1>4, PowIs

-----------------------------------------------------------------------------
(* Canonical codes *)

LEMMA CodeIs ==
  ASSUME NEW code, IsCode(code)
  PROVE  /\ Len(code.commands) \in Nat
         /\ DOMAIN code.lengths = 1 .. Len(code.commands)
         /\ DOMAIN code.commands = 1 .. Len(code.commands)
         /\ \A i \in 1 .. Len(code.commands) :
              /\ code.codes[i] \in Nat /\ code.codes[i] < Pow2[code.lengths[i]]
              /\ code.lengths[i] \in Nat /\ code.lengths[i] \in 1 .. WordBits
<1>1. /\ code.commands \in Seq(Nat) /\ code.codes \in Seq(Nat) /\ code.lengths \in Seq(1 .. WordBits)
      /\ Len(code.codes) = Len(code.commands) /\ Len(code.lengths) = Len(code.commands)
      /\ \A i \in 1 .. Len(code.commands) : code.codes[i] < Pow2[code.lengths[i]]
  BY DEF IsCode
<1>2. WordBits \in Nat
  BY HuffmanAssumption
<1>3. DOMAIN code.commands = 1 .. Len(code.commands) /\ Len(code.commands) \in Nat
  BY <1>1
<1>4. DOMAIN code.lengths = 1 .. Len(code.commands)
  BY <1>1
<1>5. ASSUME NEW i \in 1 .. Len(code.commands)
      PROVE  code.codes[i] \in Nat /\ code.codes[i] < Pow2[code.lengths[i]]
             /\ code.lengths[i] \in 1 .. WordBits
  <2>1. code.codes[i] \in Nat
    BY <1>1
  <2>2. code.lengths[i] \in 1 .. WordBits
    <3> DEFINE S == 1 .. WordBits
    <3>1. code.lengths \in Seq(S) /\ i \in 1 .. Len(code.lengths)
      BY <1>1
    <3> HIDE DEF S
    <3>2. code.lengths[i] \in S
      BY <3>1, ElementOfSeq
    <3> QED
      BY <3>2 DEF S
  <2> QED
    BY <1>1, <2>1, <2>2
<1>6. \A m \in 1 .. WordBits : m \in Nat
  BY <1>2
<1> QED
  BY <1>3, <1>4, <1>5, <1>6, Zenon

\* What the next code is.
LEMMA NextCode ==
  ASSUME NEW code, IsCode(code), NEW i \in 2 .. Len(code.commands)
  PROVE  /\ i - 1 \in 1 .. Len(code.commands) /\ i \in 1 .. Len(code.commands)
         /\ code.lengths[i - 1] <= code.lengths[i]
         /\ code.codes[i] = (code.codes[i - 1] + 1) * Pow2[code.lengths[i] - code.lengths[i - 1]]
<1>1. Len(code.commands) \in Nat
  BY CodeIs
<1>2. i - 1 \in 1 .. Len(code.commands) - 1 /\ (i - 1) + 1 = i /\ i \in 1 .. Len(code.commands)
      /\ i - 1 \in 1 .. Len(code.commands)
  BY <1>1
<1>3. \A j \in 1 .. Len(code.commands) - 1 :
        /\ code.lengths[j] <= code.lengths[j + 1]
        /\ code.codes[j + 1] = (code.codes[j] + 1) * Pow2[code.lengths[j + 1] - code.lengths[j]]
  BY DEF IsCode
<1>4. /\ code.lengths[i - 1] <= code.lengths[(i - 1) + 1]
      /\ code.codes[(i - 1) + 1]
           = (code.codes[i - 1] + 1) * Pow2[code.lengths[(i - 1) + 1] - code.lengths[i - 1]]
  BY <1>2, <1>3, Zenon
<1> QED
  BY <1>2, <1>4

LEMMA Scaled ==
  ASSUME NEW x \in Nat, NEW p \in Nat, NEW q \in Nat, NEW d \in Nat, x * p <= d
  PROVE  x * (p * q) <= (d + 1) * q
<1> DEFINE a == x * p
<1>1. a \in Nat /\ x * (p * q) = a * q /\ a <= d
  OBVIOUS
<1> HIDE DEF a
<1>2. a * q <= (d + 1) * q
  BY <1>1
<1> QED
  BY <1>1, <1>2

\* A later code is not shorter, and does not begin with an earlier one.
LEMMA LaterCode ==
  ASSUME NEW code, IsCode(code), NEW j \in 1 .. Len(code.commands),
         NEW i \in 1 .. Len(code.commands), j < i
  PROVE  /\ code.lengths[j] <= code.lengths[i]
         /\ (code.codes[j] + 1) * Pow2[code.lengths[i] - code.lengths[j]] <= code.codes[i]
<1> DEFINE n == Len(code.commands)
           l(m) == code.lengths[m]
           c(m) == code.codes[m]
           Good(m) == l(j) <= l(m) /\ (c(j) + 1) * Pow2[l(m) - l(j)] <= c(m)
           Bad == {m \in (j + 1) .. n : ~Good(m)}
<1>1. /\ n \in Nat
      /\ \A m \in 1 .. n : c(m) \in Nat /\ l(m) \in Nat
  BY CodeIs
<1>2. \A m \in 2 .. n : /\ l(m - 1) <= l(m)
                        /\ c(m) = (c(m - 1) + 1) * Pow2[l(m) - l(m - 1)]
  BY NextCode
<1>3. Bad = {}
  <2> SUFFICES ASSUME Bad # {} PROVE FALSE
    OBVIOUS
  <2>1. PICK m \in Bad : \A k \in Bad : m <= k
    <3>1. Bad \in SUBSET Nat
      BY <1>1
    <3> HIDE DEF Bad
    <3> QED
      BY <3>1, FirstIsLeast
  <2> HIDE DEF Good, c, l
  <2>2. m \in 2 .. n /\ m - 1 \in 1 .. n /\ m \in 1 .. n /\ ~Good(m) /\ m \in Nat
    BY <1>1, <2>1
  <2> HIDE DEF n
  <2>3. l(m - 1) <= l(m) /\ c(m) = (c(m - 1) + 1) * Pow2[l(m) - l(m - 1)]
    BY <1>2, <2>2
  <2>4. m # j + 1
    <3> SUFFICES ASSUME m = j + 1 PROVE FALSE
      OBVIOUS
    <3>1. m - 1 = j
      OBVIOUS
    <3>2. /\ l(j) <= l(m) /\ c(m) = (c(j) + 1) * Pow2[l(m) - l(j)]
          /\ c(j) \in Nat /\ l(m) - l(j) \in Nat
      BY <1>1, <2>2, <2>3, <3>1
    <3>3. c(m) \in Nat
      BY <1>1, <2>2
    <3> QED
      BY <2>2, <3>2, <3>3 DEF Good
  <2>5. m - 1 \in (j + 1) .. n /\ m - 1 \notin Bad
    BY <2>1, <2>2, <2>4
  <2>6. l(j) <= l(m - 1) /\ (c(j) + 1) * Pow2[l(m - 1) - l(j)] <= c(m - 1)
    BY <2>5 DEF Good
  <2>7. l(j) \in Nat /\ l(m) \in Nat /\ l(m - 1) \in Nat /\ c(j) \in Nat /\ c(m - 1) \in Nat
        /\ c(m) \in Nat
    <3>1. j \in 1 .. n
      BY DEF n
    <3> QED
      BY <1>1, <2>2, <3>1
  <2> DEFINE p == Pow2[l(m - 1) - l(j)]  q == Pow2[l(m) - l(m - 1)]
  <2>8. p \in Nat /\ q \in Nat \ {0} /\ Pow2[l(m) - l(j)] = p * q
    <3>1. l(m - 1) - l(j) \in Nat /\ l(m) - l(m - 1) \in Nat
          /\ (l(m - 1) - l(j)) + (l(m) - l(m - 1)) = l(m) - l(j)
      BY <2>3, <2>6, <2>7
    <3>2. Pow2[(l(m - 1) - l(j)) + (l(m) - l(m - 1))] = p * q
      BY <3>1, PowOfSum
    <3> QED
      BY <3>1, <3>2, PowIsPositive
  <2>9. c(m) = (c(m - 1) + 1) * q /\ (c(j) + 1) * p <= c(m - 1)
    BY <2>3, <2>6
  <2> HIDE DEF p, q
  <2>10. (c(j) + 1) * (p * q) <= c(m)
    <3>1. c(j) + 1 \in Nat /\ q \in Nat
      BY <2>7, <2>8
    <3> QED
      BY <2>7, <2>8, <2>9, <3>1, Scaled
  <2>11. l(j) <= l(m)
    BY <2>3, <2>6, <2>7
  <2> QED
    BY <2>2, <2>8, <2>10, <2>11 DEF Good
<1>4. i \in (j + 1) .. n
  BY <1>1
<1>5. Good(i)
  BY <1>3, <1>4
<1> QED
  BY <1>5

\* The codes of one length are consecutive numbers.
LEMMA SameLength ==
  ASSUME NEW code, IsCode(code), NEW j \in 1 .. Len(code.commands),
         NEW i \in 1 .. Len(code.commands), j <= i, code.lengths[j] = code.lengths[i]
  PROVE  code.codes[i] = code.codes[j] + (i - j)
<1> DEFINE n == Len(code.commands)
           l(m) == code.lengths[m]
           c(m) == code.codes[m]
           Good(m) == c(m) = c(j) + (m - j)
           Bad == {m \in j .. i : ~Good(m)}
<1>1. /\ n \in Nat
      /\ \A m \in 1 .. n : c(m) \in Nat /\ l(m) \in Nat
  BY CodeIs
<1>2. \A m \in 2 .. n : c(m) = (c(m - 1) + 1) * Pow2[l(m) - l(m - 1)]
  BY NextCode
<1>3. ASSUME NEW m \in j .. i PROVE m \in 1 .. n /\ l(m) = l(j)
  <2>1. m \in 1 .. n
    BY <1>1
  <2>2. j < m => l(j) <= l(m)
    BY <2>1, LaterCode
  <2>3. m < i => l(m) <= l(i)
    BY <2>1, LaterCode
  <2>4. m \in Int /\ j <= m /\ m <= i /\ l(j) \in Nat /\ l(m) \in Nat
    BY <1>1, <2>1
  <2> QED
    BY <2>1, <2>2, <2>3, <2>4
<1>4. Bad = {}
  <2> SUFFICES ASSUME Bad # {} PROVE FALSE
    OBVIOUS
  <2>1. PICK m \in Bad : \A k \in Bad : m <= k
    <3>1. Bad \in SUBSET Nat
      BY <1>1
    <3> HIDE DEF Bad
    <3> QED
      BY <3>1, FirstIsLeast
  <2> HIDE DEF c, l
  <2>2. m \in j .. i /\ ~Good(m) /\ m \in Nat
    BY <1>1, <2>1
  <2>3. c(j) \in Nat
    <3>1. j \in 1 .. n
      OBVIOUS
    <3> QED
      BY <1>1, <3>1
  <2>4. m # j
    <3>1. Good(j)
      BY <2>3
    <3> QED
      BY <2>2, <3>1
  <2>5. m - 1 \in j .. i /\ m - 1 \notin Bad
    BY <2>1, <2>2, <2>4
  <2>6. c(m - 1) = c(j) + ((m - 1) - j)
    BY <2>5
  <2>7. m \in 2 .. n /\ l(m) = l(j) /\ l(m - 1) = l(j) /\ l(j) \in Nat
    <3>1. m \in 1 .. n /\ m - 1 \in 1 .. n /\ l(m) = l(j) /\ l(m - 1) = l(j)
      BY <1>3, <2>2, <2>5
    <3> QED
      BY <1>1, <3>1
  <2>8. Pow2[l(m) - l(m - 1)] = 1
    <3>1. l(m) - l(m - 1) = 0
      BY <2>7
    <3> QED
      BY <3>1, PowIs
  <2>9. c(m) = (c(m - 1) + 1) * 1
    BY <1>2, <2>7, <2>8
  <2>10. c(m) = c(j) + (m - j)
    BY <2>2, <2>3, <2>6, <2>9
  <2> QED
    BY <2>2, <2>10
<1>5. i \in j .. i
  OBVIOUS
<1>6. Good(i)
  BY <1>4, <1>5
<1> QED
  BY <1>6

-----------------------------------------------------------------------------
(* The tables of a code *)

LEMMA TablesAre ==
  ASSUME NEW code, IsCode(code), NEW i \in 1 .. Len(code.commands)
  PROVE  LET t == Tables(code)  b == code.lengths[i] IN
         /\ t.table3[b] >= code.codes[i]
         /\ t.table1[t.table2[b] + code.codes[i]] = code.commands[i]
<1> DEFINE n == Len(code.commands)
           b == code.lengths[i]
           I == {j \in DOMAIN code.lengths : code.lengths[j] = b}
           C == {code.codes[j] : j \in I}
           t == Tables(code)
           f == First(I)
<1>1. /\ n \in Nat /\ I \subseteq 1 .. n /\ i \in I /\ i \in 1 .. n
      /\ \A m \in 1 .. n : code.codes[m] \in Nat /\ code.codes[m] < Pow2[code.lengths[m]]
      /\ b \in 1 .. WordBits
  BY CodeIs
<1>2. /\ t.table1 = [k \in 0 .. n - 1 |-> code.commands[k + 1]]
      /\ t.table2[b] = f - 1 - First(C)
      /\ t.table3[b] = CHOOSE c \in C : \A d \in C : d <= c
  <2> HIDE DEF b, n
  <2>1. I # {} /\ C # {}
    BY <1>1
  <2>2. /\ t.table1 = [k \in 0 .. n - 1 |-> code.commands[k + 1]]
        /\ t.table2[b] = IF I = {} THEN 0 ELSE First(I) - 1 - First(C)
        /\ t.table3[b] = IF C = {} THEN -1 ELSE CHOOSE c \in C : \A d \in C : d <= c
    <3> HIDE DEF First
    <3> QED
      BY <1>1 DEF Tables, n
  <2> HIDE DEF I, C, t
  <2> QED
    BY <2>1, <2>2
<1>3. C \subseteq Nat /\ code.codes[i] \in C /\ I \subseteq Nat
  BY <1>1
<1>4. \E c \in C : \A d \in C : d <= c
  <2>1. C \subseteq 0 .. Pow2[b]
    <3>1. \A m \in I : code.codes[m] \in Nat /\ code.codes[m] < Pow2[b]
      BY <1>1
    <3>2. Pow2[b] \in Nat
      BY <1>1, PowIsPositive, HuffmanAssumption
    <3> HIDE DEF I, b
    <3> QED
      BY <3>1, <3>2
  <2>2. Pow2[b] \in Nat
    BY <1>1, PowIsPositive, HuffmanAssumption
  <2>3. C # {}
    BY <1>3
  <2> HIDE DEF C, b
  <2> QED
    BY <2>1, <2>2, <2>3, GreatestNumber
<1>5. t.table3[b] \in C /\ \A d \in C : d <= t.table3[b]
  <2> HIDE DEF C, t, b
  <2> QED
    BY <1>2, <1>4
<1>6. f \in I /\ \A m \in I : f <= m
  <2> HIDE DEF I
  <2> QED
    BY <1>1, <1>3, FirstIsLeast
<1>7. First(C) \in C /\ \A d \in C : First(C) <= d
  <2>1. C # {}
    BY <1>3
  <2> HIDE DEF C
  <2> QED
    BY <1>3, <2>1, FirstIsLeast
<1>8. ASSUME NEW m \in I PROVE code.codes[m] = code.codes[f] + (m - f)
  <2>1. f \in 1 .. n /\ m \in 1 .. n /\ f <= m /\ code.lengths[f] = code.lengths[m]
    BY <1>1, <1>6, <1>8
  <2> HIDE DEF f
  <2> QED
    BY <2>1, SameLength
<1>9. First(C) = code.codes[f]
  <2>1. code.codes[f] \in C
    BY <1>6
  <2>2. PICK m \in I : First(C) = code.codes[m]
    BY <1>7
  <2>3. code.codes[m] = code.codes[f] + (m - f) /\ f <= m /\ m \in Nat /\ f \in Nat
    BY <1>3, <1>6, <1>8
  <2>4. First(C) <= code.codes[f] /\ code.codes[f] \in Nat
    BY <1>1, <1>6, <1>7, <2>1
  <2> HIDE DEF f, C, I
  <2> QED
    BY <2>2, <2>3, <2>4
<1>10. t.table2[b] + code.codes[i] = i - 1
  <2>1. code.codes[i] = code.codes[f] + (i - f) /\ f \in Nat /\ code.codes[f] \in Nat /\ i \in Nat
    BY <1>1, <1>3, <1>6, <1>8
  <2> HIDE DEF f, C, I, t, b
  <2> QED
    BY <1>2, <1>9, <2>1
<1>11. t.table1[i - 1] = code.commands[i]
  <2>1. i - 1 \in 0 .. n - 1 /\ (i - 1) + 1 = i
    BY <1>1
  <2> HIDE DEF t, n
  <2> QED
    BY <1>2, <2>1
<1>12. code.codes[i] <= t.table3[b] /\ t.table3[b] \in Nat /\ code.codes[i] \in Nat
  <2> HIDE DEF t, b, I
  <2> QED
    BY <1>1, <1>3, <1>5
<1> HIDE DEF t
<1> QED
  BY <1>10, <1>11, <1>12 DEF t

\* table3 reaches x only if a code of that length does.
LEMMA TablesReach ==
  ASSUME NEW code, IsCode(code), NEW b \in 1 .. WordBits, NEW x \in Nat,
         Tables(code).table3[b] >= x
  PROVE  \E j \in 1 .. Len(code.commands) : code.lengths[j] = b /\ code.codes[j] >= x
<1> DEFINE n == Len(code.commands)
           I == {j \in DOMAIN code.lengths : code.lengths[j] = b}
           C == {code.codes[j] : j \in I}
           t == Tables(code)
<1>1. /\ n \in Nat /\ I \subseteq 1 .. n
      /\ \A m \in 1 .. n : code.codes[m] \in Nat /\ code.codes[m] < Pow2[code.lengths[m]]
  BY CodeIs
<1>2. t.table3[b] = IF C = {} THEN -1 ELSE CHOOSE c \in C : \A d \in C : d <= c
  BY DEF Tables
<1>3. C # {}
  BY <1>2
<1>4. \E c \in C : \A d \in C : d <= c
  <2>1. Pow2[b] \in Nat
    BY PowIsPositive, HuffmanAssumption
  <2>2. C \subseteq 0 .. Pow2[b]
    <3>1. \A m \in I : code.codes[m] \in Nat /\ code.codes[m] < Pow2[b]
      BY <1>1
    <3> HIDE DEF I
    <3> QED
      BY <2>1, <3>1
  <2> HIDE DEF C
  <2> QED
    BY <1>3, <2>1, <2>2, GreatestNumber
<1>5. t.table3[b] \in C
  <2> HIDE DEF C, t
  <2> QED
    BY <1>2, <1>3, <1>4
<1>6. PICK j \in I : t.table3[b] = code.codes[j]
  BY <1>5
<1> QED
  BY <1>1, <1>6

-----------------------------------------------------------------------------
(* Decoding one command *)

\* The word v begins with the i-th code.
BeginsWith(code, v, i) == v \div Pow2[WordBits - code.lengths[i]] = code.codes[i]

\* No shorter code fits, and that one does.
LEMMA NoneIsShorter ==
  ASSUME NEW code, IsCode(code), NEW i \in 1 .. Len(code.commands), NEW v \in Nat,
         BeginsWith(code, v, i), NEW b \in 1 .. WordBits, b < code.lengths[i]
  PROVE  ~(Tables(code).table3[b] >= v \div Pow2[WordBits - b])
<1> DEFINE x == v \div Pow2[WordBits - b]
           l(m) == code.lengths[m]
           c(m) == code.codes[m]
<1>1. /\ Len(code.commands) \in Nat /\ WordBits \in Nat /\ b \in Nat
      /\ \A m \in 1 .. Len(code.commands) : c(m) \in Nat /\ l(m) \in Nat /\ l(m) \in 1 .. WordBits
  BY CodeIs, HuffmanAssumption
<1>2. x \in Nat
  BY <1>1, PowIsPositive, Quotient
<1>3. SUFFICES ASSUME Tables(code).table3[b] >= x PROVE FALSE
  OBVIOUS
<1>4. PICK j \in 1 .. Len(code.commands) : l(j) = b /\ c(j) >= x
  <2> HIDE DEF x
  <2> QED
    BY <1>2, <1>3, TablesReach
<1>5. j < i
  <2>1. ~(i < j)
    BY <1>1, <1>4, LaterCode
  <2>2. i # j
    BY <1>1, <1>4
  <2> QED
    BY <2>1, <2>2
<1>6. (c(j) + 1) * Pow2[l(i) - b] <= c(i)
  BY <1>4, <1>5, LaterCode
<1>7. l(i) - b \in Nat /\ WordBits - l(i) \in Nat /\ (WordBits - l(i)) + (l(i) - b) = WordBits - b
  BY <1>1
<1>8. c(i) \div Pow2[l(i) - b] = x
  <2>1. (v \div Pow2[WordBits - l(i)]) \div Pow2[l(i) - b] = v \div Pow2[(WordBits - l(i)) + (l(i) - b)]
    BY <1>7, PowQuotient
  <2> QED
    BY <1>7, <2>1 DEF BeginsWith
<1> DEFINE p == Pow2[l(i) - b]
<1>9. p \in Nat \ {0} /\ c(i) \in Nat /\ c(j) \in Nat
  BY <1>1, <1>7, PowIsPositive
<1> HIDE DEF p, x, c, l
<1>10. c(i) < x * p + p
  BY <1>8, <1>9, Quotient DEF p
<1>11. x * p + p <= (c(j) + 1) * p
  BY <1>2, <1>4, <1>9
<1>12. (c(j) + 1) * p \in Nat /\ x * p + p \in Nat
  BY <1>2, <1>9
<1> QED
  BY <1>6, <1>9, <1>10, <1>11, <1>12 DEF p

\* The command of the word v, from tables over its first width bits.
LEMMA FoundIs ==
  ASSUME NEW code, IsCode(code), NEW i \in 1 .. Len(code.commands), NEW v \in Nat,
         BeginsWith(code, v, i), NEW width \in Nat, width <= WordBits,
         NEW low \in Nat \ {0}, low <= code.lengths[i], code.lengths[i] <= width
  PROVE  LET t == Tables(code)  word == v \div Pow2[WordBits - width] IN
         /\ Fits(t, word, width, low .. width) # {}
         /\ Found(t, word, width, First(Fits(t, word, width, low .. width)))
              = [command |-> code.commands[i], bits |-> code.lengths[i]]
<1> DEFINE t == Tables(code)
           word == v \div Pow2[WordBits - width]
           S == Fits(t, word, width, low .. width)
           b == code.lengths[i]
<1>1. WordBits \in Nat /\ b \in Nat /\ b \in 1 .. WordBits /\ b \in low .. width
  BY CodeIs, HuffmanAssumption
<1>2. ASSUME NEW k \in low .. width
      PROVE  word \div Pow2[width - k] = v \div Pow2[WordBits - k]
  <2>1. WordBits - width \in Nat /\ width - k \in Nat
        /\ (WordBits - width) + (width - k) = WordBits - k
    BY <1>1
  <2>2. (v \div Pow2[WordBits - width]) \div Pow2[width - k]
          = v \div Pow2[(WordBits - width) + (width - k)]
    BY <2>1, PowQuotient
  <2> QED
    BY <2>1, <2>2
<1> HIDE DEF word
<1>3. S = {k \in low .. width : t.table3[k] >= v \div Pow2[WordBits - k]}
  BY <1>2 DEF Fits
<1>4. b \in S
  <2>1. t.table3[b] >= code.codes[i]
    BY TablesAre
  <2>2. code.codes[i] = v \div Pow2[WordBits - b]
    BY DEF BeginsWith
  <2> HIDE DEF t
  <2> QED
    BY <1>1, <1>3, <2>1, <2>2
<1>5. ASSUME NEW k \in S PROVE b <= k
  <2>1. k \in low .. width /\ t.table3[k] >= v \div Pow2[WordBits - k]
    BY <1>3
  <2>2. k \in 1 .. WordBits
    BY <1>1, <2>1
  <2>3. ~(k < b)
    BY <2>1, <2>2, NoneIsShorter
  <2> QED
    BY <1>1, <2>2, <2>3
<1>6. S \subseteq Nat
  BY <1>3
<1>7. First(S) = b
  <2> HIDE DEF S, b
  <2>1. First(S) \in S /\ \A k \in S : First(S) <= k
    BY <1>4, <1>6, FirstIsLeast
  <2>2. First(S) <= b /\ b <= First(S) /\ First(S) \in Nat
    BY <1>4, <1>5, <1>6, <2>1
  <2> QED
    BY <1>1, <2>2
<1>8. Found(t, word, width, b) = [command |-> code.commands[i], bits |-> b]
  <2>1. word \div Pow2[width - b] = code.codes[i]
    BY <1>1, <1>2 DEF BeginsWith
  <2>2. t.table1[t.table2[b] + code.codes[i]] = code.commands[i]
    BY TablesAre
  <2> HIDE DEF t, b
  <2> QED
    BY <2>1, <2>2 DEF Found
<1>9. Found(t, word, width, First(S)) = [command |-> code.commands[i], bits |-> b]
  <2> HIDE DEF t, S, b
  <2> QED
    BY <1>7, <1>8
<1>10. S # {}
  <2> HIDE DEF S, b
  <2> QED
    BY <1>4
<1> HIDE DEF S, t
<1> QED
  BY <1>9, <1>10 DEF S, t, word

\* A code that is longer than FastBits is not in the fast table.
LEMMA NoneIsFast ==
  ASSUME NEW code, IsCode(code), NEW i \in 1 .. Len(code.commands), NEW v \in Nat,
         BeginsWith(code, v, i), FastBits < code.lengths[i]
  PROVE  Fits(Tables(code), v \div Pow2[WordBits - FastBits], FastBits, 1 .. FastBits) = {}
<1> DEFINE t == Tables(code)
           word == v \div Pow2[WordBits - FastBits]
<1>1. WordBits \in Nat /\ FastBits \in Nat /\ FastBits < WordBits /\ code.lengths[i] \in Nat
  BY CodeIs, HuffmanAssumption
<1>2. ASSUME NEW k \in 1 .. FastBits
      PROVE  ~(t.table3[k] >= word \div Pow2[FastBits - k])
  <2>1. WordBits - FastBits \in Nat /\ FastBits - k \in Nat
        /\ (WordBits - FastBits) + (FastBits - k) = WordBits - k
        /\ k \in 1 .. WordBits /\ k < code.lengths[i]
    BY <1>1
  <2>2. (v \div Pow2[WordBits - FastBits]) \div Pow2[FastBits - k]
          = v \div Pow2[(WordBits - FastBits) + (FastBits - k)]
    BY <2>1, PowQuotient
  <2>3. ~(t.table3[k] >= v \div Pow2[WordBits - k])
    BY <2>1, NoneIsShorter
  <2> HIDE DEF t
  <2> QED
    BY <2>1, <2>2, <2>3
<1> HIDE DEF t, word
<1>3. Fits(t, word, FastBits, 1 .. FastBits) = {}
  BY <1>2 DEF Fits
<1> QED
  BY <1>3 DEF t, word

\* Decode finds the command whose code a word begins with.
LEMMA DecodeIs ==
  ASSUME NEW code, IsCode(code), NEW i \in 1 .. Len(code.commands), NEW v \in Nat,
         v < Pow2[WordBits], BeginsWith(code, v, i)
  PROVE  Decode(Tables(code), FastTable(Tables(code)), v)
           = [command |-> code.commands[i], bits |-> code.lengths[i]]
<1> DEFINE t == Tables(code)
           fast == FastTable(t)
           index == v \div Pow2[WordBits - FastBits]
           S == Fits(t, index, FastBits, 1 .. FastBits)
           b == code.lengths[i]
<1>1. WordBits \in Nat /\ FastBits \in Nat /\ FastBits < WordBits /\ b \in Nat \ {0} /\ b <= WordBits
  BY CodeIs, HuffmanAssumption
<1>2. index \in 0 .. Pow2[FastBits] - 1
  <2> DEFINE p == Pow2[WordBits - FastBits]  q == Pow2[FastBits]
  <2>1. WordBits - FastBits \in Nat /\ (WordBits - FastBits) + FastBits = WordBits
    BY <1>1
  <2>2. p \in Nat \ {0} /\ q \in Nat \ {0} /\ Pow2[WordBits] = p * q
    <3>1. Pow2[(WordBits - FastBits) + FastBits] = p * q
      BY <1>1, <2>1, PowOfSum
    <3> QED
      BY <1>1, <2>1, <3>1, PowIsPositive
  <2> HIDE DEF p, q
  <2>3. index \in Nat /\ index * p <= v
    BY <2>2, Quotient DEF p
  <2> HIDE DEF index
  <2>4. index < q
    <3> SUFFICES ASSUME q <= index PROVE FALSE
      BY <2>2, <2>3
    <3>1. p * q <= index * p
      BY <2>2, <2>3
    <3>2. p * q \in Nat /\ index * p \in Nat
      BY <2>2, <2>3
    <3> QED
      BY <2>2, <2>3, <3>1, <3>2
  <2> QED
    BY <2>2, <2>3, <2>4 DEF q
<1>3. fast[index] = IF S = {} THEN [command |-> 0, bits |-> 0] ELSE Found(t, index, FastBits, First(S))
  <2> HIDE DEF index, t
  <2> QED
    BY <1>2 DEF FastTable
<1>4. CASE b <= FastBits
  <2>1. /\ S # {}
        /\ Found(t, index, FastBits, First(S)) = [command |-> code.commands[i], bits |-> b]
    <3>1. 1 \in Nat \ {0} /\ 1 <= b /\ FastBits <= WordBits
      BY <1>1
    <3> HIDE DEF First, Fits, Found
    <3> QED
      BY <1>1, <1>4, <3>1, FoundIs
  <2>2. fast[index] = [command |-> code.commands[i], bits |-> b]
    <3> HIDE DEF S, t, index, fast, b
    <3> QED
      BY <1>3, <2>1
  <2> HIDE DEF fast, index
  <2> QED
    BY <1>1, <2>2 DEF Decode, fast, index, t
<1>5. CASE FastBits < b
  <2>1. S = {}
    BY <1>5, NoneIsFast
  <2>2. fast[index] = [command |-> 0, bits |-> 0]
    <3> HIDE DEF S, t, index, fast
    <3> QED
      BY <1>3, <2>1
  <2>3. v \div Pow2[WordBits - WordBits] = v
    <3>1. WordBits - WordBits = 0 /\ v \div 1 = v
      BY <1>1
    <3> QED
      BY <3>1, PowIs
  <2>4. Found(t, v, WordBits, First(Fits(t, v, WordBits, (FastBits + 1) .. WordBits)))
          = [command |-> code.commands[i], bits |-> b]
    <3>1. FastBits + 1 \in Nat \ {0} /\ FastBits + 1 <= b /\ b <= WordBits /\ WordBits <= WordBits
      BY <1>1, <1>5
    <3>2. Found(t, v \div Pow2[WordBits - WordBits], WordBits,
                First(Fits(t, v \div Pow2[WordBits - WordBits], WordBits, (FastBits + 1) .. WordBits)))
            = [command |-> code.commands[i], bits |-> b]
      BY <1>1, <3>1, FoundIs
    <3> HIDE DEF t, b
    <3> QED
      BY <2>3, <3>2
  <2> HIDE DEF fast, index
  <2> QED
    BY <2>2, <2>4 DEF Decode, fast, index, t
<1> QED
  BY <1>1, <1>4, <1>5

-----------------------------------------------------------------------------
(* Reading the stream *)

\* The word that starts r bits into the word x and goes on in y, and its bits.
Across(W, x, y, r) == ((x * Pow2[W] + y) \div Pow2[W - r]) % Pow2[W]

BitsOf(v, W, x, y, r, k) ==
  /\ v \in Nat /\ v < Pow2[W]
  /\ r + k <= W => Bit(v, W - k) = Bit(x, W - (r + k))
  /\ r + k > W => Bit(v, W - k) = Bit(y, 2 * W - (r + k))

LEMMA BitsAcross ==
  ASSUME NEW W \in Nat, NEW x \in Nat, NEW y \in Nat, y < Pow2[W],
         NEW r \in 0 .. W - 1, NEW k \in 1 .. W
  PROVE  BitsOf(Across(W, x, y, r), W, x, y, r, k)
<1> DEFINE p == Pow2[W]
           z == x * p + y
           u == z \div Pow2[W - r]
           v == u % p
<1>1. /\ W - r \in Nat /\ W - k \in Nat /\ W - k < W
      /\ (W - r) + (W - k) = 2 * W - (r + k)
  OBVIOUS
<1>2. p \in Nat \ {0}
  BY PowIsPositive
<1>3. z \in Nat
  <2> HIDE DEF p
  <2> QED
    BY <1>2
<1>4. u \in Nat
  <2> HIDE DEF z
  <2> QED
    BY <1>1, <1>3, PowIsPositive, Quotient
<1>5. v \in Nat /\ v < p
  <2> HIDE DEF u, p
  <2> QED
    BY <1>2, <1>4
<1>6. Bit(v, W - k) = Bit(z, 2 * W - (r + k))
  <2> HIDE DEF z
  <2>1. Bit(v, W - k) = Bit(u, W - k)
    <3> HIDE DEF u
    <3> QED
      BY <1>1, <1>4, RemainderBits
  <2>2. Bit(u, W - k) = Bit(z, (W - r) + (W - k))
    BY <1>1, <1>3, HighBits
  <2> HIDE DEF u
  <2> QED
    BY <1>1, <2>1, <2>2
<1>7. ASSUME r + k <= W PROVE Bit(z, 2 * W - (r + k)) = Bit(x, W - (r + k))
  <2>1. W - (r + k) \in Nat /\ W + (W - (r + k)) = 2 * W - (r + k)
    BY <1>7
  <2>2. z \div p = x
    <3>1. y \div p = 0
      BY <1>2, QuotientIs
    <3>2. z \div p = x + y \div p
      <4> HIDE DEF p
      <4> QED
        BY <1>2, QuotientOfSum
    <3> HIDE DEF z, p
    <3> QED
      BY <3>1, <3>2
  <2> HIDE DEF z
  <2>3. Bit(z \div Pow2[W], W - (r + k)) = Bit(z, W + (W - (r + k)))
    BY <1>3, <2>1, HighBits
  <2> QED
    BY <2>1, <2>2, <2>3
<1>8. ASSUME r + k > W PROVE Bit(z, 2 * W - (r + k)) = Bit(y, 2 * W - (r + k))
  <2>1. 2 * W - (r + k) \in Nat /\ 2 * W - (r + k) < W
    BY <1>8
  <2> QED
    BY <2>1, LowBits
<1> HIDE DEF v, p, z
<1> QED
  BY <1>5, <1>6, <1>7, <1>8 DEF v, u, z, p, Across, BitsOf

\* Division of a number that is e past the q-th multiple.
LEMMA Divided ==
  ASSUME NEW W \in Nat \ {0}, NEW q \in Nat, NEW e \in 0 .. W - 1
  PROVE  (q * W + e) \div W = q /\ (q * W + e) % W = e
<1> DEFINE p == q * W
           s == p + e
<1>1. p \in Nat /\ e \in Nat /\ e < W
  OBVIOUS
<1>2. s \in Nat /\ q * W <= s /\ s < q * W + W
  <2> HIDE DEF p
  <2> QED
    BY <1>1 DEF p
<1>3. s \div W = q
  <2> HIDE DEF s
  <2> QED
    BY <1>2, QuotientIs
<1>4. s % W = e
  <2> HIDE DEF s
  <2>1. s % W = s - W * (s \div W)
    BY <1>2
  <2>2. s % W = s - W * q /\ W * q = p
    <3> HIDE DEF p
    <3>1. W * q = p
      BY DEF p
    <3> QED
      BY <1>3, <2>1, <3>1
  <2> HIDE DEF p
  <2> QED
    BY <1>1, <2>2 DEF s
<1> QED
  BY <1>3, <1>4

\* The word and the bit of the k-th bit after bit r of word q.
LEMMA PlaceOf ==
  ASSUME NEW W \in Nat \ {0}, NEW q \in Nat, NEW r \in 0 .. W - 1, NEW k \in 1 .. W
  PROVE  LET s == q * W + r IN
         /\ r + k <= W => (s + k - 1) \div W = q /\ (s + k - 1) % W = r + k - 1
         /\ r + k > W => (s + k - 1) \div W = q + 1 /\ (s + k - 1) % W = r + k - 1 - W
<1> DEFINE p == q * W
<1>1. p \in Nat /\ k \in Nat /\ r \in Nat
  OBVIOUS
<1>2. ASSUME r + k <= W PROVE (p + r + k - 1) \div W = q /\ (p + r + k - 1) % W = r + k - 1
  <2> DEFINE e == r + k - 1
  <2>1. e \in 0 .. W - 1
    BY <1>1, <1>2
  <2>2. (p + e) \div W = q /\ (p + e) % W = e
    <3> HIDE DEF e
    <3> QED
      BY <2>1, Divided
  <2> HIDE DEF p
  <2>3. p + r + k - 1 = p + e
    BY <1>1
  <2> QED
    BY <2>2, <2>3
<1>3. ASSUME r + k > W PROVE (p + r + k - 1) \div W = q + 1 /\ (p + r + k - 1) % W = r + k - 1 - W
  <2> DEFINE e == r + k - 1 - W
             o == (q + 1) * W
  <2>1. e \in 0 .. W - 1 /\ q + 1 \in Nat
    BY <1>1, <1>3
  <2>2. (o + e) \div W = q + 1 /\ (o + e) % W = e
    <3> HIDE DEF e
    <3> QED
      BY <2>1, Divided
  <2>3. o = p + W
    OBVIOUS
  <2> HIDE DEF p, o
  <2>4. p + r + k - 1 = o + e
    BY <1>1, <2>3
  <2> QED
    BY <2>2, <2>4
<1> HIDE DEF p
<1> QED
  BY <1>2, <1>3 DEF p

\* Bit k of the stream, seen from word q.
LEMMA StreamBitIs ==
  ASSUME NEW stream, NEW q \in Nat, NEW r \in 0 .. WordBits - 1, NEW k \in 1 .. WordBits
  PROVE  LET s == q * WordBits + r IN
         /\ r + k <= WordBits =>
              StreamBit(stream, s + k - 1) = Bit(stream[1 + q], WordBits - (r + k))
         /\ r + k > WordBits =>
              StreamBit(stream, s + k - 1) = Bit(stream[1 + q + 1], 2 * WordBits - (r + k))
<1> DEFINE s == q * WordBits + r
<1>1. WordBits \in Nat \ {0}
  BY HuffmanAssumption
<1> HIDE DEF s
<1>2. ASSUME r + k <= WordBits
      PROVE  StreamBit(stream, s + k - 1) = Bit(stream[1 + q], WordBits - (r + k))
  <2>1. (s + k - 1) \div WordBits = q /\ (s + k - 1) % WordBits = r + k - 1
    BY <1>1, <1>2, PlaceOf DEF s
  <2>2. WordBits - 1 - (r + k - 1) = WordBits - (r + k)
    BY <1>1
  <2> QED
    BY <2>1, <2>2 DEF StreamBit
<1>3. ASSUME r + k > WordBits
      PROVE  StreamBit(stream, s + k - 1) = Bit(stream[1 + q + 1], 2 * WordBits - (r + k))
  <2>1. (s + k - 1) \div WordBits = q + 1 /\ (s + k - 1) % WordBits = r + k - 1 - WordBits
    BY <1>1, <1>3, PlaceOf DEF s
  <2>2. WordBits - 1 - (r + k - 1 - WordBits) = 2 * WordBits - (r + k) /\ 1 + (q + 1) = 1 + q + 1
    BY <1>1
  <2> QED
    BY <2>1, <2>2 DEF StreamBit
<1> QED
  BY <1>2, <1>3 DEF s

\* A word that is read from bit r of word q has the bits of the stream there.
LEMMA WordHasStream ==
  ASSUME NEW stream, NEW q \in Nat, NEW r \in 0 .. WordBits - 1, NEW k \in 1 .. WordBits,
         stream[1 + q] \in Nat, stream[1 + q + 1] \in Nat, stream[1 + q + 1] < Pow2[WordBits]
  PROVE  LET v == Across(WordBits, stream[1 + q], stream[1 + q + 1], r)
         IN  /\ v \in Nat /\ v < Pow2[WordBits]
             /\ Bit(v, WordBits - k) = StreamBit(stream, q * WordBits + r + k - 1)
<1> DEFINE x == stream[1 + q]
           y == stream[1 + q + 1]
           v == Across(WordBits, x, y, r)
           s == q * WordBits + r
<1>1. WordBits \in Nat
  BY HuffmanAssumption
<1>2. /\ v \in Nat /\ v < Pow2[WordBits]
      /\ r + k <= WordBits => Bit(v, WordBits - k) = Bit(x, WordBits - (r + k))
      /\ r + k > WordBits => Bit(v, WordBits - k) = Bit(y, 2 * WordBits - (r + k))
  <2> HIDE DEF x, y
  <2>1. x \in Nat /\ y \in Nat /\ y < Pow2[WordBits]
    BY DEF x, y
  <2> QED
    <3>1. BitsOf(v, WordBits, x, y, r, k)
      BY <1>1, <2>1, BitsAcross
    <3> HIDE DEF v
    <3> QED
      BY <3>1 DEF BitsOf
<1>3. /\ r + k <= WordBits => StreamBit(stream, s + k - 1) = Bit(x, WordBits - (r + k))
      /\ r + k > WordBits => StreamBit(stream, s + k - 1) = Bit(y, 2 * WordBits - (r + k))
  BY StreamBitIs
<1>4. r + k <= WordBits \/ r + k > WordBits
  BY <1>1
<1>5. Bit(v, WordBits - k) = StreamBit(stream, s + k - 1)
  <2> HIDE DEF v, s, x, y
  <2> QED
    BY <1>2, <1>3, <1>4
<1> HIDE DEF v
<1> QED
  BY <1>2, <1>5 DEF v

\* What is read where a command starts begins with the command's code.
LEMMA WordAtIs ==
  ASSUME NEW code, IsCode(code), NEW block, IsBlock(code, block), NEW i \in 1 .. Side * Side
  PROVE  LET v == WordAt(block.stream, block.starts[i]) IN
         /\ block.chosen[i] \in 1 .. Len(code.commands)
         /\ v \in Nat /\ v < Pow2[WordBits] /\ BeginsWith(code, v, block.chosen[i])
<1> DEFINE W == WordBits
           s == block.starts[i]
           q == s \div W
           r == s % W
           x == block.stream[1 + q]
           y == block.stream[1 + q + 1]
           j == block.chosen[i]
           l == code.lengths[j]
           c == code.codes[j]
           v == Across(W, x, y, r)
<1>1. W \in Nat \ {0}
  BY HuffmanAssumption
<1>2. /\ s \in Nat /\ block.chosen \in [1 .. Side * Side -> DOMAIN code.commands]
      /\ block.stream \in Seq(Nat)
      /\ \A w \in DOMAIN block.stream : block.stream[w] < Pow2[W]
      /\ q + 2 <= Len(block.stream)
      /\ \A k \in 1 .. l : StreamBit(block.stream, s + k - 1) = Bit(c, l - k)
  BY DEF IsBlock
<1>3. j \in 1 .. Len(code.commands)
  BY <1>2, CodeIs
<1>4. l \in Nat /\ l \in 1 .. W /\ c \in Nat /\ c < Pow2[l]
  BY <1>3, CodeIs
<1>5. q \in Nat /\ r \in 0 .. W - 1 /\ s = q * W + r
  <2> HIDE DEF s, W
  <2>1. q \in Nat
    BY <1>1, <1>2, Quotient
  <2>2. r \in 0 .. W - 1 /\ s = W * q + r
    <3>1. s \in Nat
      BY <1>2
    <3> QED
      BY <1>1, <3>1
  <2>3. W * q = q * W
    BY <1>1, <2>1
  <2> HIDE DEF q, r
  <2> QED
    BY <2>1, <2>2, <2>3
<1>6. WordAt(block.stream, s) = v
  BY DEF WordAt, Across
<1>7. x \in Nat /\ y \in Nat /\ x < Pow2[W] /\ y < Pow2[W]
  <2>1. Len(block.stream) \in Nat
    BY <1>2
  <2>2. 1 + q \in 1 .. Len(block.stream) /\ 1 + q + 1 \in 1 .. Len(block.stream)
    <3> HIDE DEF q
    <3> QED
      BY <1>2, <1>5, <2>1
  <2> HIDE DEF q
  <2>3. x \in Nat /\ y \in Nat
    BY <1>2, <2>2, ElementOfSeq
  <2> QED
    BY <1>2, <2>2, <2>3
<1> HIDE DEF W, q, r, s, x, y, l, c
<1>8. ASSUME NEW k \in 1 .. W
      PROVE  v \in Nat /\ v < Pow2[W] /\ Bit(v, W - k) = StreamBit(block.stream, s + k - 1)
  <2> HIDE DEF v
  <2> QED
    BY <1>5, <1>7, WordHasStream DEF v, x, y, W
<1>9. /\ v \in Nat /\ v < Pow2[W]
      /\ \A k \in 1 .. l : Bit(v, W - k) = Bit(c, l - k)
  <2>1. 1 \in 1 .. W /\ \A k \in 1 .. l : k \in 1 .. W
    BY <1>1, <1>4
  <2> HIDE DEF v
  <2> QED
    BY <1>2, <1>8, <2>1
<1>10. v \div Pow2[W - l] = c
  <2> HIDE DEF v
  <2> QED
    BY <1>1, <1>4, <1>9, SameBits
<1>11. v \div Pow2[WordBits - code.lengths[block.chosen[i]]] = code.codes[block.chosen[i]]
  <2> HIDE DEF v
  <2> QED
    BY <1>10 DEF W, l, c, j
<1>12. BeginsWith(code, v, block.chosen[i])
  <2> HIDE DEF v
  <2> QED
    BY <1>11 DEF BeginsWith
<1> HIDE DEF v
<1> QED
  BY <1>3, <1>6, <1>9, <1>12 DEF s, W, j

-----------------------------------------------------------------------------
(* Decoding a block *)

BlockStart == [start |-> 0, prev |-> 0, out |-> <<>>]

Pixels(f, t, stream, n) ==
  f = [k \in 0 .. n |-> IF k = 0 THEN BlockStart ELSE NextPixel(t, FastTable(t), stream, f[k - 1])]

LEMMA PixelsExist ==
  ASSUME NEW t, NEW stream, NEW n \in Nat
  PROVE  \E f : Pixels(f, t, stream, n)
<1> DEFINE Bad == {m \in Nat : ~ \E f : Pixels(f, t, stream, m)}
<1>1. SUFFICES ASSUME Bad # {} PROVE FALSE
  OBVIOUS
<1>2. PICK m \in Bad : \A k \in Bad : m <= k
  <2>1. Bad \in SUBSET Nat
    OBVIOUS
  <2> HIDE DEF Bad
  <2> QED
    BY <1>1, <2>1, FirstIsLeast
<1> DEFINE Later(f, k) == IF k = 0 THEN BlockStart ELSE NextPixel(t, FastTable(t), stream, f[k - 1])
<1>3. m # 0
  <2>1. Pixels([k \in 0 .. 0 |-> BlockStart], t, stream, 0)
    BY DEF Pixels
  <2> QED
    BY <1>2, <2>1
<1>4. m - 1 \in Nat /\ m - 1 \notin Bad
  BY <1>2, <1>3
<1>5. PICK g : Pixels(g, t, stream, m - 1)
  BY <1>4
<1> DEFINE h == [k \in 0 .. m |-> IF k < m THEN g[k] ELSE Later(g, k)]
<1>6. ASSUME NEW k \in 0 .. m PROVE h[k] = Later(h, k)
  <2>1. h[k] = Later(g, k)
    <3>1. CASE k < m
      <4>1. g = [i \in 0 .. (m - 1) |-> Later(g, i)]
        BY <1>5, Zenon DEF Pixels
      <4>2. k \in 0 .. (m - 1)
        BY <1>4, <3>1
      <4>3. h[k] = g[k]
        BY <3>1
      <4> HIDE DEF Later, h
      <4> QED
        BY <4>1, <4>2, <4>3
    <3>2. CASE k = m
      <4> HIDE DEF Later
      <4> QED
        BY <3>2
    <3> QED
      BY <3>1, <3>2
  <2>2. k # 0 => h[k - 1] = g[k - 1]
    BY <1>2
  <2> HIDE DEF h
  <2> QED
    BY <2>1, <2>2
<1>7. h = [k \in 0 .. m |-> Later(h, k)]
  <2>1. h = [k \in 0 .. m |-> h[k]]
    OBVIOUS
  <2> HIDE DEF h, Later
  <2> QED
    BY <1>6, <2>1
<1>8. Pixels(h, t, stream, m)
  <2> HIDE DEF h
  <2> QED
    BY <1>7, Zenon DEF Pixels
<1> QED
  BY <1>2, <1>8

\* Each pixel follows from the state before it.
LEMMA DecodingIs ==
  ASSUME NEW t, NEW stream
  PROVE  /\ Decoding(t, stream)[0] = BlockStart
         /\ \A k \in 1 .. Side * Side :
              Decoding(t, stream)[k] = NextPixel(t, FastTable(t), stream, Decoding(t, stream)[k - 1])
<1> DEFINE n == Side * Side
           f == CHOOSE g : Pixels(g, t, stream, n)
<1>1. n \in Nat
  BY HuffmanAssumption
<1>2. Pixels(f, t, stream, n)
  <2> HIDE DEF n
  <2> QED
    BY <1>1, PixelsExist
<1>3. Decoding(t, stream) = f
  BY Zenon DEF Decoding, Pixels, BlockStart
<1> HIDE DEF f, n
<1>4. \A k \in 0 .. n : f[k] = IF k = 0 THEN BlockStart ELSE NextPixel(t, FastTable(t), stream, f[k - 1])
  BY <1>2, Zenon DEF Pixels
<1>5. 0 \in 0 .. n /\ \A k \in 1 .. n : k \in 0 .. n /\ k # 0
  BY <1>1
<1> QED
  BY <1>3, <1>4, <1>5 DEF n

\* A block up to its k-th pixel.
UpTo(block, k, s) ==
  /\ k < Side * Side => s.start = block.starts[k + 1]
  /\ s.prev = IF k = 0 THEN 0 ELSE block.pixels[k]
  /\ s.out \in Seq(0 .. Colours - 1) /\ Len(s.out) = k
  /\ \A j \in 1 .. k : s.out[j] = block.pixels[j]

\* A command that means a pixel gives it.
LEMMA PixelIs ==
  ASSUME NEW code, IsCode(code), NEW block, IsBlock(code, block), NEW i \in 1 .. Side * Side,
         NEW s, UpTo(block, i - 1, s), NEW command \in Nat, Means(code, command, block.pixels, i)
  PROVE  Pixel(Tables(code), command, s.out, s.prev) = block.pixels[i]
<1> DEFINE pixels == block.pixels
<1>1. /\ Colours \in Nat \ {0} /\ i \in Nat /\ i - 1 \in Nat /\ Len(s.out) = i - 1
      /\ s.prev = IF i = 1 THEN 0 ELSE pixels[i - 1]
      /\ \A j \in 1 .. i - 1 : s.out[j] = pixels[j]
  <2>1. Side * Side \in Nat /\ Colours \in Nat \ {0}
    BY HuffmanAssumption
  <2>2. i \in Nat /\ i - 1 \in Nat /\ (i - 1 = 0) = (i = 1)
    BY <2>1
  <2> QED
    BY <2>1, <2>2 DEF UpTo
<1>2. pixels[i] \in 0 .. Colours - 1
  BY DEF IsBlock
<1> HIDE DEF pixels
<1>3. CASE command = pixels[i]
  <2>1. command < Colours
    BY <1>1, <1>2, <1>3
  <2> QED
    BY <1>3, <2>1 DEF Pixel, pixels
<1>4. CASE /\ command \in Colours .. Colours + 4
           /\ LET j == i + BACK_JUMP_TABLE[command - Colours + 1]
              IN  j >= 1 /\ j < i /\ pixels[j] = pixels[i]
  <2> DEFINE b == BACK_JUMP_TABLE[command - Colours + 1]
             j == i + b
  <2>1. b \in Int
    <3>1. command - Colours + 1 \in 1 .. 5
      BY <1>1, <1>4
    <3>2. Side \in Nat
      BY HuffmanAssumption
    <3>3. \A m \in 1 .. 5 : BACK_JUMP_TABLE[m] \in Int
      BY <3>2 DEF BACK_JUMP_TABLE
    <3> QED
      BY <3>1, <3>3
  <2>2. ~(command < Colours) /\ command < Colours + 5
    BY <1>1, <1>4
  <2>3. j \in 1 .. i - 1 /\ pixels[j] = pixels[i]
    <3> HIDE DEF b
    <3> QED
      BY <1>1, <1>4, <2>1 DEF b
  <2>4. Len(s.out) + 1 + b = j
    <3> HIDE DEF b
    <3> QED
      BY <1>1, <2>1
  <2>5. Pixel(Tables(code), command, s.out, s.prev) = s.out[Len(s.out) + 1 + b]
    BY <2>2 DEF Pixel
  <2> HIDE DEF b, j
  <2> QED
    BY <1>1, <2>3, <2>4, <2>5 DEF pixels
<1>5. CASE /\ command >= Colours + 5
           /\ code.likely[(command - Colours - 5) + 8 * (IF i = 1 THEN 0 ELSE pixels[i - 1])] = pixels[i]
  <2>1. ~(command < Colours) /\ ~(command < Colours + 5)
    BY <1>1, <1>5
  <2>2. Tables(code).table0 = code.likely
    BY DEF Tables
  <2> QED
    BY <1>1, <1>5, <2>1, <2>2 DEF Pixel, pixels
<1> QED
  BY <1>3, <1>4, <1>5 DEF Means, pixels

\* From the state after a pixel comes the state after the next one.
LEMMA NextPixelIs ==
  ASSUME NEW code, IsCode(code), NEW block, IsBlock(code, block), NEW i \in 1 .. Side * Side,
         NEW s, UpTo(block, i - 1, s)
  PROVE  UpTo(block, i, NextPixel(Tables(code), FastTable(Tables(code)), block.stream, s))
<1> DEFINE t == Tables(code)
           j == block.chosen[i]
           found == Decode(t, FastTable(t), WordAt(block.stream, s.start))
           next == NextPixel(t, FastTable(t), block.stream, s)
           p == block.pixels[i]
<1>1. Side * Side \in Nat /\ i \in Nat /\ i - 1 \in Nat /\ i - 1 < Side * Side /\ (i - 1) + 1 = i
  <2>1. Side * Side \in Nat
    BY HuffmanAssumption
  <2> QED
    BY <2>1
<1>2. /\ s.start = block.starts[i]
      /\ s.out \in Seq(0 .. Colours - 1) /\ Len(s.out) = i - 1
      /\ \A k \in 1 .. i - 1 : s.out[k] = block.pixels[k]
  BY <1>1 DEF UpTo
<1>3. j \in 1 .. Len(code.commands) /\ found = [command |-> code.commands[j], bits |-> code.lengths[j]]
  <2>1. LET v == WordAt(block.stream, block.starts[i]) IN
        j \in 1 .. Len(code.commands) /\ v \in Nat /\ v < Pow2[WordBits] /\ BeginsWith(code, v, j)
    BY WordAtIs
  <2> HIDE DEF j, t
  <2> QED
    BY <1>2, <2>1, DecodeIs DEF t
<1>4. Means(code, code.commands[j], block.pixels, i) /\ p \in 0 .. Colours - 1
  BY DEF IsBlock
<1>5. code.commands[j] \in Nat
  BY <1>3, ElementOfSeq DEF IsCode
<1>6. Pixel(t, found.command, s.out, s.prev) = p
  <2> HIDE DEF t, found, p, j
  <2>1. found.command = code.commands[j]
    BY <1>3
  <2> QED
    BY <1>4, <1>5, <2>1, PixelIs DEF t, p
<1>7. next = [start |-> s.start + code.lengths[j], prev |-> p, out |-> Append(s.out, p)]
  <2>1. found.bits = code.lengths[j]
    BY <1>3
  <2> HIDE DEF t, p
  <2>2. next = [start |-> s.start + found.bits, prev |-> p, out |-> Append(s.out, p)]
    BY <1>6 DEF NextPixel
  <2> QED
    BY <2>1, <2>2
<1>8. i < Side * Side => s.start + code.lengths[j] = block.starts[i + 1]
  <2> SUFFICES ASSUME i < Side * Side PROVE block.starts[i] + code.lengths[j] = block.starts[i + 1]
    BY <1>2
  <2>1. i \in 1 .. (Side * Side - 1)
    BY <1>1
  <2> QED
    BY <2>1 DEF IsBlock
<1> DEFINE out == Append(s.out, p)
<1>9. out \in Seq(0 .. Colours - 1) /\ Len(out) = i /\ \A k \in 1 .. i : out[k] = block.pixels[k]
  <2>1. out \in Seq(0 .. Colours - 1) /\ Len(out) = i
    <3> HIDE DEF p
    <3> QED
      BY <1>1, <1>2, <1>4
  <2>2. ASSUME NEW k \in 1 .. i PROVE out[k] = block.pixels[k]
    <3>1. CASE k = i
      BY <1>1, <1>2, <3>1
    <3>2. CASE k # i
      <4>1. k \in 1 .. i - 1
        BY <1>1, <3>2
      <4> QED
        BY <1>1, <1>2, <4>1
    <3> QED
      BY <3>1, <3>2
  <2> QED
    BY <2>1, <2>2
<1>10. i # 0
  BY <1>1
<1> HIDE DEF out, next, j
<1> QED
  BY <1>7, <1>8, <1>9, <1>10 DEF UpTo, p, next, t, out

\* A block is decoded to its pixels.
LEMMA BlockIsDecoded ==
  ASSUME NEW code, IsCode(code), NEW block, IsBlock(code, block)
  PROVE  DecodeBlock(Tables(code), block.stream) = block.pixels
<1> DEFINE n == Side * Side
           loop == Decoding(Tables(code), block.stream)
           Bad == {k \in 0 .. n : ~UpTo(block, k, loop[k])}
<1>1. n \in Nat
  BY HuffmanAssumption
<1>2. /\ loop[0] = BlockStart
      /\ \A k \in 1 .. n :
           loop[k] = NextPixel(Tables(code), FastTable(Tables(code)), block.stream, loop[k - 1])
  BY DecodingIs
<1> HIDE DEF loop
<1>3. Bad = {}
  <2> SUFFICES ASSUME Bad # {} PROVE FALSE
    OBVIOUS
  <2>1. PICK k \in Bad : \A m \in Bad : k <= m
    <3>1. Bad \in SUBSET Nat
      BY <1>1
    <3> HIDE DEF Bad
    <3> QED
      BY <3>1, FirstIsLeast
  <2>2. k \in 0 .. n /\ ~UpTo(block, k, loop[k])
    OBVIOUS
  <2>3. CASE k = 0
    <3>1. block.starts[1] = 0 /\ 0 + 1 = 1
      BY DEF IsBlock
    <3>2. UpTo(block, 0, BlockStart)
      BY <3>1 DEF UpTo, BlockStart
    <3> QED
      BY <1>2, <2>2, <2>3, <3>2
  <2>4. CASE k # 0
    <3>1. k \in 1 .. n /\ k - 1 \in 0 .. n /\ ~(k <= k - 1)
      <4> HIDE DEF n
      <4> QED
        BY <1>1, <2>2, <2>4
    <3>2. UpTo(block, k - 1, loop[k - 1])
      <4> HIDE DEF n
      <4> QED
        BY <2>1, <3>1
    <3>3. UpTo(block, k, loop[k])
      BY <1>2, <3>1, <3>2, NextPixelIs
    <3> QED
      BY <2>2, <3>3
  <2> QED
    BY <2>3, <2>4
<1>4. UpTo(block, n, loop[n])
  <2>1. n \in 0 .. n
    <3> HIDE DEF n
    <3> QED
      BY <1>1
  <2> QED
    BY <1>3, <2>1
<1>5. DecodeBlock(Tables(code), block.stream) = loop[n].out
  BY DEF DecodeBlock, loop
<1>6. block.pixels \in [1 .. n -> 0 .. Colours - 1]
  BY DEF IsBlock
<1> DEFINE out == loop[n].out
<1> HIDE DEF n
<1>7. out \in Seq(0 .. Colours - 1) /\ Len(out) = n /\ \A j \in 1 .. n : out[j] = block.pixels[j]
  BY <1>4 DEF UpTo
<1> HIDE DEF out
<1>8. out = [j \in 1 .. n |-> out[j]]
  BY <1>7
<1>9. block.pixels = [j \in 1 .. n |-> block.pixels[j]]
  BY <1>6
<1>10. out = block.pixels
  BY <1>7, <1>8, <1>9
<1> QED
  BY <1>5, <1>10 DEF out

-----------------------------------------------------------------------------
(* How far the loader of a world is *)

Phases == {"idle", "sizes", "buffers", "chunk", "texture", "upload", "create", "fill", "crashed"}
InTexture == {"texture", "upload", "create", "fill"}
Reading == {"chunk"} \cup InTexture

\* The largest width after alignment.
Widest == 65536

\* A texture that has room for its pixels.
Roomy ==
  {x \in [width : Nat, height : Nat, pitch : Int, room : Int] : x.width * x.height <= x.room}

Offsets == [i \in DOMAIN disc.chunks |-> disc.chunks[i].offset]
Saved == [offsets |-> Offsets, sizes |-> [i \in DOMAIN Offsets |-> ChunkSize(Offsets, i)]]

Wanted(i) == disc.chunks[i].flags # 0 /\ disc.chunks[i].offset # 0
Count(i) == Chunk(disc.chunks[i].offset).count

\* Every texture of chunk i was created, as far as it has textures.
Created(i) == Wanted(i) /\ Count(i) \in 1 .. 1000 => Len(textures[i]) = Count(i)

\* The loader before it has begun and after it has returned.
Idle ==
  /\ pc = "idle" => heap = {} /\ ~tex_file
  /\ ~world.allocated => pc = "idle"
  /\ ~world.allocated \/ pc \in {"sizes", "buffers"} => at = [chunk |-> 1, texture |-> 1]
  /\ world.allocated /\ pc = "idle" => denied \/ \A i \in DOMAIN disc.chunks : Created(i)

\* The header in memory is that of the file but for the offsets, which become
\* addresses; they are saved before.
Header ==
  /\ pc \in Phases
  /\ world \in [allocated : BOOLEAN, chunks : Seq([offset : Int, flags : Nat])]
  /\ at \in [chunk : Nat \ {0}, texture : Nat \ {0}]
  /\ world.allocated =>
       /\ disc \in Worlds
       /\ Len(world.chunks) = Len(disc.chunks)
       /\ \A i \in DOMAIN disc.chunks : world.chunks[i].flags = disc.chunks[i].flags
       /\ textures \in [DOMAIN disc.chunks -> Seq(Roomy)]
  /\ pc = "sizes" => world.chunks = disc.chunks
  /\ pc \in {"buffers"} \cup Reading => saved = Saved
  /\ pc \in Reading => disc.file # Null

\* The chunks before the current one are done, those after it are not begun.
Chunks ==
  /\ pc \in Reading =>
       /\ denied \/ \A i \in DOMAIN disc.chunks : i < at.chunk => Created(i)
       /\ pc = "chunk" => at.texture = 1
  /\ pc \in {"sizes", "buffers"} \cup Reading =>
       \A i \in DOMAIN disc.chunks :
         i > at.chunk \/ (i = at.chunk /\ pc \notin InTexture) => textures[i] = <<>>

ReadWhole == range = [offset |-> Offsets[at.chunk], size |-> ChunkSize(Offsets, at.chunk)]

\* The textures of the current chunk are created one after the other.
Current ==
  pc \in InTexture =>
    /\ at.chunk \in DOMAIN disc.chunks /\ Wanted(at.chunk) /\ Count(at.chunk) \in 1 .. 1000
    /\ ReadWhole
    /\ at.texture <= Count(at.chunk) + (IF pc = "texture" THEN 1 ELSE 0)
    /\ Len(textures[at.chunk]) = at.texture - (IF pc = "fill" THEN 0 ELSE 1)
    /\ pc \in {"upload", "create"} => temp.width \in Nat /\ temp.height \in Nat /\ temp.width <= Widest

WorldInv == Header /\ Idle /\ Chunks /\ Current

-----------------------------------------------------------------------------
(* Sizes of textures and of chunks *)

LEMMA Aligned ==
  ASSUME NEW d \in Sizes
  PROVE  /\ alignDimension(d) \in Nat /\ alignDimension(d) <= Widest
         /\ alignDimension(d) \div 2 \in Nat /\ alignDimension(d) \div 2 <= Widest
<1> DEFINE a == d + 31
           k == a \div 32
<1>1. a \in Nat /\ a <= Widest + 30 /\ Widest \in Nat
  <2>1. d \in Nat /\ d <= 65535
    BY SMTT(30) DEF Sizes
  <2>2. Widest \in Nat /\ d + 31 <= Widest + 30
    BY <2>1, SMTT(30) DEF Widest
  <2> QED
    BY <2>1, <2>2
<1>2. a \div 32 \in Nat /\ 32 * (a \div 32) <= a
  <2> HIDE DEF a
  <2> QED
    BY <1>1, Z3
<1> HIDE DEF k, a
<1>3. k \in Nat /\ 32 * k <= Widest + 30
  BY <1>1, <1>2 DEF k
<1>4. 32 * k <= Widest
  BY <1>3, SMT DEF Widest
<1>5. Largest(32, 32 * k) \in Nat /\ Largest(32, 32 * k) <= Widest
  BY <1>3, <1>4, SMT DEF Largest, Widest
<1>6. \A n \in Nat : n <= Widest => n \div 2 \in Nat /\ n \div 2 <= Widest
  <2> TAKE n \in Nat
  <2>1. n \div 2 \in Nat /\ 2 * (n \div 2) <= n
    BY Halved
  <2>2. \A q \in Nat : 2 * q <= n /\ n <= Widest => q <= Widest
    BY <1>1
  <2> QED
    BY <2>1, <2>2
<1>7. alignDimension(d) = Largest(32, 32 * k)
  BY DEF alignDimension, k, a
<1> QED
  BY <1>5, <1>6, <1>7

\* A row of a texture in bytes holds a pixel per byte.
LEMMA PitchHoldsRow ==
  ASSUME NEW width \in Nat, width <= Widest
  PROVE  Pitch(width, "P8") \in Nat /\ width <= Pitch(width, "P8")
<1> DEFINE half == (width + 1) \div 2
           top == 32768
           powers == {p \in PowersOfTwo : p >= half}
<1>0. width + 1 \in Nat
  OBVIOUS
<1>1. half \in Nat /\ width <= 2 * half /\ 2 * half <= width + 1
  <2>1. half \in Nat /\ 2 * half <= width + 1 /\ width + 1 <= 2 * half + 1
    BY <1>0, Halved
  <2> HIDE DEF half
  <2> QED
    BY <2>1
<1> HIDE DEF half
<1>2. half <= top /\ top \in Nat
  BY <1>1, SMT DEF Widest
<1>3. PowersOfTwo \in SUBSET Nat /\ top \in PowersOfTwo
  <2>1. \A p \in PowersOfTwo : p \in Nat
    BY SMT DEF PowersOfTwo
  <2>2. 32768 \in PowersOfTwo
    BY SMT DEF PowersOfTwo
  <2> QED
    BY <2>1, <2>2
<1> HIDE DEF top
<1>4. \A p : p \in powers <=> p \in PowersOfTwo /\ p >= half
  OBVIOUS
<1> HIDE DEF powers
<1>5. powers \in SUBSET Nat /\ top \in powers
  <2>1. top >= half
    BY <1>1, <1>2
  <2> QED
    BY <2>1, <1>3, <1>4
<1>6. First(powers) \in Nat /\ First(powers) >= half
  <2>1. First(powers) \in powers
    BY <1>5, FirstIsLeast
  <2> QED
    BY <1>3, <1>4, <2>1
<1>7. XGBytesPerPixelFromFormat("P8") = 1
  BY DEF XGBytesPerPixelFromFormat
<1>8. Pitch(width, "P8") = Largest(64, (2 * First(powers)) * 1)
  BY <1>7 DEF Pitch, half, powers
<1>9. Largest(64, (2 * First(powers)) * 1) \in Nat /\ width <= Largest(64, (2 * First(powers)) * 1)
  BY <1>1, <1>6 DEF Largest
<1> QED
  BY <1>8, <1>9

LEMMA NewTextureIsRoomy ==
  ASSUME NEW width \in Nat, NEW height \in Nat, width <= Widest
  PROVE  D3DDevice_CreateTexture2(width, height, "P8") \in Roomy
<1>1. Pitch(width, "P8") \in Nat /\ width <= Pitch(width, "P8")
  BY PitchHoldsRow
<1>2. HeaderPitch(width, "P8") \in Int
  BY <1>1 DEF HeaderPitch
<1>3. \A p \in Nat : width <= p => width * height <= p * height /\ p * height \in Int
  OBVIOUS
<1>4. width * height <= Pitch(width, "P8") * height /\ Pitch(width, "P8") * height \in Int
  BY <1>1, <1>3
<1> QED
  BY <1>2, <1>4 DEF D3DDevice_CreateTexture2, Roomy

-----------------------------------------------------------------------------
(* The chunks of the file *)

LEMMA HeaderOfWorld ==
  ASSUME disc \in Worlds
  PROVE  /\ disc.chunks \in Seq([offset : Nat, flags : Nat])
         /\ Len(disc.chunks) \in Nat /\ DOMAIN disc.chunks = 1 .. Len(disc.chunks)
         /\ \A i \in DOMAIN disc.chunks : disc.chunks[i].offset \in Nat /\ disc.chunks[i].flags \in Nat
         /\ DOMAIN Offsets = DOMAIN disc.chunks
         /\ \A i \in DOMAIN disc.chunks : Offsets[i] = disc.chunks[i].offset
         /\ file_size \in 1 .. Word - 1
         /\ \A i \in DOMAIN disc.chunks : Offsets[i] < file_size
<1>0. Word \in Nat \ {0, 1} /\ Memory \in Nat
  BY WorldsAssumption
<1>1. disc.chunks \in Seq([offset : Nat, flags : Nat])
  BY WorldsAssumption
<1>2. /\ Len(disc.chunks) \in Nat /\ DOMAIN disc.chunks = 1 .. Len(disc.chunks)
      /\ \A i \in DOMAIN disc.chunks : disc.chunks[i].offset \in Nat /\ disc.chunks[i].flags \in Nat
  <2>1. /\ Len(disc.chunks) \in Nat /\ DOMAIN disc.chunks = 1 .. Len(disc.chunks)
        /\ \A i \in 1 .. Len(disc.chunks) : disc.chunks[i] \in [offset : Nat, flags : Nat]
    BY <1>1, ElementOfSeq, LenProperties
  <2> QED
    BY <2>1
<1>3. /\ DOMAIN Offsets = DOMAIN disc.chunks
      /\ \A i \in DOMAIN disc.chunks : Offsets[i] = disc.chunks[i].offset
  BY DEF Offsets
<1>4. /\ file_size \in 1 .. Word - 1
      /\ \A i \in DOMAIN disc.chunks : Offsets[i] < file_size
  <2>1. CASE disc.file = Null
    <3>1. \A i \in DOMAIN disc.chunks : disc.chunks[i].offset + Memory < Word - 1
      BY <2>1, WorldsAssumption
    <3> QED
      BY <3>1, <2>1, <1>0, <1>2, <1>3 DEF file_size
  <2>2. CASE disc.file # Null
    <3>1. /\ disc.file.size \in 1 .. Word - 1
          /\ \A i \in DOMAIN disc.chunks : disc.chunks[i].offset < disc.file.size
      BY <2>2, WorldsAssumption
    <3> QED
      BY <3>1, <2>2, <1>3 DEF file_size
  <2> QED
    BY <2>1, <2>2
<1> QED
  BY <1>1, <1>2, <1>3, <1>4

\* A chunk reaches from its offset to the next offset that a chunk has, or to
\* the end of the file.
LEMMA ChunkReachesNext ==
  ASSUME disc \in Worlds, NEW i \in DOMAIN disc.chunks
  PROVE  LET o == Offsets[i]
             next == NextOffset(Offsets, i)
         IN  /\ next \in Nat /\ o < next /\ next <= file_size
             /\ next = file_size \/ \E j \in DOMAIN disc.chunks : next = Offsets[j]
             /\ \A j \in DOMAIN disc.chunks : Offsets[j] <= o \/ Offsets[j] >= next
             /\ ChunkSize(Offsets, i) = IF o = 0 THEN 0 ELSE next - o
<1> DEFINE o == Offsets[i]
           next == NextOffset(Offsets, i)
           after == {Offsets[j] : j \in DOMAIN Offsets} \cap (Offsets[i] + 1 .. file_size - 1)
<1>1. /\ o \in Nat /\ o < file_size /\ file_size \in Nat
      /\ file_size < Word /\ Word \in Nat
      /\ DOMAIN Offsets = DOMAIN disc.chunks
      /\ \A j \in DOMAIN disc.chunks : Offsets[j] \in Nat /\ Offsets[j] < file_size
  <2>1. /\ DOMAIN Offsets = DOMAIN disc.chunks
        /\ \A j \in DOMAIN disc.chunks : Offsets[j] \in Nat /\ Offsets[j] < file_size
        /\ file_size \in 1 .. Word - 1
    BY HeaderOfWorld
  <2>2. Word \in Nat
    BY WorldsAssumption
  <2>3. file_size \in Nat /\ file_size < Word
    BY <2>1, <2>2
  <2> QED
    BY ONLY <2>1, <2>2, <2>3
<1>2. next = IF after = {} THEN file_size ELSE First(after)
  BY DEF NextOffset
<1>3. \A n : n \in after <=> /\ \E j \in DOMAIN disc.chunks : n = Offsets[j]
                             /\ n \in Nat /\ o < n /\ n < file_size
  BY <1>1
<1> HIDE DEF after, next, o
<1>4. /\ next \in Nat /\ o < next /\ next <= file_size
      /\ next = file_size \/ \E j \in DOMAIN disc.chunks : next = Offsets[j]
      /\ \A n \in after : n >= next
  <2>1. CASE after = {}
    BY <2>1, <1>1, <1>2
  <2>2. CASE after # {}
    <3>1. after \in SUBSET Nat
      BY <1>3
    <3>2. First(after) \in after /\ \A n \in after : First(after) <= n
      BY <2>2, <3>1, FirstIsLeast
    <3>3. next \in after /\ \A n \in after : next <= n
      BY <2>2, <3>2, <1>2
    <3>4. /\ next \in Nat /\ o < next /\ next < file_size
          /\ \E j \in DOMAIN disc.chunks : next = Offsets[j]
      BY <3>3, <1>3
    <3>5. \A n \in after : n >= next
      BY <3>1, <3>3, <3>4
    <3> QED
      BY <3>4, <3>5, <1>1
  <2> QED
    BY <2>1, <2>2
<1>5. \A j \in DOMAIN disc.chunks : Offsets[j] <= o \/ Offsets[j] >= next
  <2> TAKE j \in DOMAIN disc.chunks
  <2>1. Offsets[j] \in Nat /\ Offsets[j] < file_size /\ o \in Nat
    BY <1>1
  <2>2. CASE o < Offsets[j]
    <3>1. Offsets[j] \in after
      BY <2>1, <2>2, <1>3
    <3> QED
      BY <3>1, <1>4
  <2>3. CASE ~ (o < Offsets[j])
    BY <2>1, <2>3
  <2> QED
    BY <2>2, <2>3
<1>6. ChunkSize(Offsets, i) = IF o = 0 THEN 0 ELSE next - o
  <2>1. \A w \in Nat, x \in Nat : x < w => x % w = x
    OBVIOUS
  <2>2. next - o \in Nat /\ next - o < Word
    BY <1>1, <1>4
  <2>3. (next - o) % Word = next - o
    BY <2>1, <2>2, <1>1
  <2> QED
    BY <2>3 DEF ChunkSize, next, o
<1> QED
  BY <1>4, <1>5, <1>6 DEF next, o

\* The sizes of the chunks are numbers and the largest of them is among them.
LEMMA LargestSize ==
  ASSUME disc \in Worlds
  PROVE  /\ DOMAIN Saved.sizes = DOMAIN disc.chunks /\ DOMAIN Saved.offsets = DOMAIN disc.chunks
         /\ \A i \in DOMAIN disc.chunks :
              /\ Saved.offsets[i] = Offsets[i]
              /\ Saved.sizes[i] = ChunkSize(Offsets, i)
              /\ Saved.sizes[i] \in Nat /\ Saved.sizes[i] <= MaxChunkSize(Saved.sizes)
         /\ MaxChunkSize(Saved.sizes) \in Nat
<1>1. /\ DOMAIN Offsets = DOMAIN disc.chunks /\ file_size \in Nat
      /\ \A i \in DOMAIN disc.chunks : Offsets[i] \in Nat
  <2>1. /\ DOMAIN Offsets = DOMAIN disc.chunks
        /\ \A j \in DOMAIN disc.chunks : Offsets[j] \in Nat
        /\ file_size \in 1 .. Word - 1
    BY HeaderOfWorld
  <2>2. Word \in Nat
    BY WorldsAssumption
  <2>3. file_size \in Nat /\ file_size < Word
    BY <2>1, <2>2
  <2> QED
    BY ONLY <2>1, <2>2, <2>3
<1>2. /\ DOMAIN Saved.sizes = DOMAIN disc.chunks /\ DOMAIN Saved.offsets = DOMAIN disc.chunks
      /\ \A i \in DOMAIN disc.chunks : Saved.offsets[i] = Offsets[i] /\ Saved.sizes[i] = ChunkSize(Offsets, i)
  BY <1>1 DEF Saved
<1>3. ASSUME NEW i \in DOMAIN disc.chunks
      PROVE  ChunkSize(Offsets, i) \in 0 .. file_size
  <2>1. Offsets[i] \in Nat
    BY <1>1
  <2>2. /\ NextOffset(Offsets, i) \in Nat /\ Offsets[i] < NextOffset(Offsets, i)
        /\ NextOffset(Offsets, i) <= file_size
        /\ ChunkSize(Offsets, i) = IF Offsets[i] = 0 THEN 0 ELSE NextOffset(Offsets, i) - Offsets[i]
    BY ChunkReachesNext
  <2> QED
    BY <2>1, <2>2, <1>1
<1> DEFINE sizes == {0} \cup {Saved.sizes[i] : i \in DOMAIN Saved.sizes}
<1>4. sizes \in SUBSET (0 .. file_size) /\ 0 \in sizes
  BY <1>1, <1>2, <1>3
<1>5. \A i \in DOMAIN disc.chunks : Saved.sizes[i] \in sizes
  BY <1>2
<1> HIDE DEF sizes
<1>6. Max(sizes) \in sizes /\ \A y \in sizes : y <= Max(sizes)
  BY <1>1, <1>4, GreatestNumber
<1>7. MaxChunkSize(Saved.sizes) = Max(sizes)
  BY DEF MaxChunkSize, sizes
<1>8. Max(sizes) \in Nat /\ \A y \in sizes : y \in Nat /\ y <= Max(sizes)
  <2>1. \A y \in sizes : y \in 0 .. file_size
    BY <1>4
  <2>2. \A y \in sizes : y \in Nat
    BY <2>1, <1>1
  <2> QED
    BY <2>2, <1>6
<1> QED
  BY <1>2, <1>5, <1>7, <1>8

\* When no chunk has a size no chunk is wanted.
LEMMA NoSizeNoChunk ==
  ASSUME disc \in Worlds, MaxChunkSize(Saved.sizes) = 0
  PROVE  \A i \in DOMAIN disc.chunks : ~ Wanted(i)
<1> SUFFICES ASSUME NEW i \in DOMAIN disc.chunks PROVE disc.chunks[i].offset = 0
  BY DEF Wanted
<1>1. disc.chunks[i].offset \in Nat /\ Offsets[i] = disc.chunks[i].offset
  BY HeaderOfWorld
<1>2. ChunkSize(Offsets, i) \in Nat /\ ChunkSize(Offsets, i) <= 0
  BY LargestSize
<1>3. /\ NextOffset(Offsets, i) \in Nat /\ Offsets[i] < NextOffset(Offsets, i)
      /\ ChunkSize(Offsets, i) = IF Offsets[i] = 0 THEN 0 ELSE NextOffset(Offsets, i) - Offsets[i]
  BY ChunkReachesNext
<1> QED
  BY <1>1, <1>2, <1>3

\* A buffer can be had only for a file that is there: the last chunk of one
\* that is not would fill more than the memory.
LEMMA BufferMeansFile ==
  ASSUME disc \in Worlds, MaxChunkSize(Saved.sizes) \in 1 .. Memory
  PROVE  disc.file # Null
<1> SUFFICES ASSUME disc.file = Null PROVE FALSE
  OBVIOUS
<1> DEFINE D == DOMAIN disc.chunks
           all == {Offsets[i] : i \in D}
<1>1. Word \in Nat \ {0, 1} /\ Memory \in Nat
  BY WorldsAssumption
<1>2. file_size = Word - 1
  BY DEF file_size
<1>3. /\ \A i \in D : Offsets[i] \in Nat /\ Offsets[i] < file_size /\ Offsets[i] = disc.chunks[i].offset
      /\ file_size \in Nat
  <2>1. /\ \A i \in D : Offsets[i] = disc.chunks[i].offset /\ disc.chunks[i].offset \in Nat
        /\ \A i \in D : Offsets[i] < file_size
    BY HeaderOfWorld
  <2> QED
    BY <2>1, <1>1, <1>2
<1>4. \A i \in D : disc.chunks[i].offset + Memory < Word - 1
  BY WorldsAssumption
<1>5. PICK k \in D : \A i \in D : Offsets[i] <= Offsets[k]
  <2>1. D # {}
    <3> SUFFICES ASSUME D = {} PROVE FALSE
      OBVIOUS
    <3>1. DOMAIN Saved.sizes = {}
      BY LargestSize
    <3>2. {0} \cup {Saved.sizes[i] : i \in DOMAIN Saved.sizes} = {0}
      BY <3>1
    <3>3. Max({0}) \in {0}
      BY GreatestNumber, 0 \in Nat
    <3>4. MaxChunkSize(Saved.sizes) = 0
      BY <3>2, <3>3 DEF MaxChunkSize
    <3> QED
      BY <3>4, <1>1
  <2>2. all \in SUBSET (0 .. file_size) /\ all # {}
    BY <2>1, <1>3
  <2>3. Max(all) \in all /\ \A y \in all : y <= Max(all)
    <3> HIDE DEF all
    <3> QED
      BY <2>2, <1>3, GreatestNumber
  <2> QED
    BY <2>3
<1>6. /\ NextOffset(Offsets, k) \in Nat /\ Offsets[k] < NextOffset(Offsets, k)
      /\ NextOffset(Offsets, k) = file_size \/ \E j \in D : NextOffset(Offsets, k) = Offsets[j]
      /\ ChunkSize(Offsets, k) = IF Offsets[k] = 0 THEN 0 ELSE NextOffset(Offsets, k) - Offsets[k]
  BY ChunkReachesNext
<1>7. NextOffset(Offsets, k) = file_size
  <2>1. \A j \in D : NextOffset(Offsets, k) # Offsets[j]
    BY <1>5, <1>6, <1>3
  <2> QED
    BY <2>1, <1>6
<1>8. ChunkSize(Offsets, k) <= Memory
  <2>1. /\ Saved.sizes[k] = ChunkSize(Offsets, k) /\ Saved.sizes[k] \in Nat
        /\ Saved.sizes[k] <= MaxChunkSize(Saved.sizes)
    BY LargestSize
  <2> QED
    BY <2>1, <1>1
<1>9. Offsets[k] = 0
  <2> SUFFICES ASSUME Offsets[k] # 0 PROVE FALSE
    OBVIOUS
  <2>1. ChunkSize(Offsets, k) = (Word - 1) - Offsets[k]
    BY <1>2, <1>6, <1>7
  <2>2. Offsets[k] + Memory < Word - 1 /\ Offsets[k] \in Nat
    BY <1>3, <1>4
  <2> QED
    BY <2>1, <2>2, <1>1, <1>8
<1>10. \A i \in D : Saved.sizes[i] = 0
  <2> TAKE i \in D
  <2>1. Offsets[i] = 0
    BY <1>5, <1>9, <1>3
  <2>2. ChunkSize(Offsets, i) = 0
    BY <2>1 DEF ChunkSize
  <2> QED
    BY <2>2, LargestSize
<1>11. {0} \cup {Saved.sizes[i] : i \in DOMAIN Saved.sizes} = {0}
  BY <1>10, LargestSize
<1>12. Max({0}) \in {0}
  BY GreatestNumber, 0 \in Nat
<1>13. MaxChunkSize(Saved.sizes) = 0
  BY <1>11, <1>12 DEF MaxChunkSize
<1> QED
  BY <1>13, <1>1

-----------------------------------------------------------------------------
(* The steps of the loader *)

\* What the file has depends on the world that is loaded only.
LEMMA FileStays ==
  ASSUME disc' = disc
  PROVE  /\ Offsets' = Offsets /\ Saved' = Saved
         /\ \A i : Wanted(i)' = Wanted(i) /\ Count(i)' = Count(i)
         /\ \A i : textures'[i] = textures[i] => (Created(i)' <=> Created(i))
<1>1. /\ Offsets' = Offsets
      /\ \A i : Wanted(i)' = Wanted(i) /\ Count(i)' = Count(i)
  BY DEF Offsets, Wanted, Count, Chunk
<1>2. \A i : textures'[i] = textures[i] => (Created(i)' <=> Created(i))
  BY <1>1 DEF Created
<1>3. file_size' = file_size
  BY DEF file_size
<1>4. Saved' = Saved
  BY <1>1, <1>3 DEF Saved, ChunkSize, NextOffset
<1> QED
  BY <1>1, <1>2, <1>4

LEMMA WorldInvInit == WorldInit => WorldInv
BY DEF WorldInit, WorldInv, Header, Idle, Chunks, Current, Phases, Reading, InTexture

\* What does not touch the loader keeps its invariant.
LEMMA WorldInvStutter ==
  ASSUME WorldInv,
         UNCHANGED <<disc, world, pc, heap, tex_file, saved, at, range, temp, textures, denied>>
  PROVE  WorldInv'
<1>1. /\ disc' = disc /\ world' = world /\ pc' = pc /\ heap' = heap /\ tex_file' = tex_file
      /\ saved' = saved /\ at' = at /\ range' = range /\ temp' = temp /\ textures' = textures
      /\ denied' = denied
  OBVIOUS
<1>2. /\ Offsets' = Offsets /\ Saved' = Saved
      /\ \A i : Wanted(i)' = Wanted(i) /\ Count(i)' = Count(i)
      /\ \A i : Created(i)' <=> Created(i)
  BY <1>1, FileStays
<1>3. ReadWhole' <=> ReadWhole
  BY <1>1, <1>2 DEF ReadWhole, ChunkSize, NextOffset, file_size
<1>3a. Wanted(at.chunk)' = Wanted(at.chunk) /\ Count(at.chunk)' = Count(at.chunk)
  BY <1>1 DEF Wanted, Count, Chunk
<1>4. Header'
  BY <1>1, <1>2 DEF WorldInv, Header
<1>5. Idle'
  BY <1>1, <1>2 DEF WorldInv, Idle
<1>6. Chunks'
  BY <1>1, <1>2 DEF WorldInv, Chunks
<1>7. Current'
  BY <1>1, <1>2, <1>3, <1>3a DEF WorldInv, Current
<1> QED
  BY <1>4, <1>5, <1>6, <1>7 DEF WorldInv

LEMMA BeginKeepsInv == WorldInv /\ worldAllocateSegments => WorldInv'
<1> SUFFICES ASSUME WorldInv, worldAllocateSegments PROVE WorldInv'
  OBVIOUS
<1>1. PICK w \in Worlds :
        /\ disc' = w
        /\ world' = [allocated |-> TRUE, chunks |-> w.chunks]
        /\ textures' = [i \in DOMAIN w.chunks |-> <<>>]
        /\ IF w.chunks = <<>> THEN UNCHANGED <<pc, tex_file>> ELSE pc' = "sizes" /\ tex_file' = TRUE
  BY DEF worldAllocateSegments
<1>2. /\ pc = "idle" /\ ~world.allocated
      /\ heap' = heap /\ saved' = saved /\ at' = at /\ denied' = denied
  BY DEF worldAllocateSegments
<1>3. /\ w.chunks \in Seq([offset : Nat, flags : Nat])
      /\ Len(w.chunks) \in Nat /\ DOMAIN w.chunks = 1 .. Len(w.chunks)
  <2>1. w.chunks \in Seq([offset : Nat, flags : Nat])
    BY WorldsAssumption
  <2> QED
    BY <2>1, LenProperties
<1>4. w.chunks \in Seq([offset : Int, flags : Nat])
  <2> DEFINE S == [offset : Nat, flags : Nat]
             T == [offset : Int, flags : Nat]
  <2>1. S \subseteq T /\ w.chunks \in Seq(S)
    BY <1>3
  <2> HIDE DEF S, T
  <2>2. w.chunks \in Seq(T)
    BY <2>1, ListOfMore
  <2> QED
    BY <2>2 DEF T
<1>5. at = [chunk |-> 1, texture |-> 1]
  BY <1>2 DEF WorldInv, Idle
<1>6. textures' \in [DOMAIN w.chunks -> Seq(Roomy)]
  <2>1. <<>> \in Seq(Roomy)
    OBVIOUS
  <2> QED
    BY <2>1, <1>1
<1>7. pc' \in {"idle", "sizes"}
  BY <1>1, <1>2
<1>8. Header'
  <2>1. world' \in [allocated : BOOLEAN, chunks : Seq([offset : Int, flags : Nat])]
    BY <1>1, <1>4
  <2>2. at' \in [chunk : Nat \ {0}, texture : Nat \ {0}]
    BY <1>2, <1>5
  <2>3. world'.chunks = disc'.chunks /\ disc' \in Worlds /\ DOMAIN disc'.chunks = DOMAIN w.chunks
    BY <1>1
  <2> QED
    BY <1>6, <1>7, <2>1, <2>2, <2>3 DEF Header, Phases, Reading, InTexture
<1>9. Idle'
  <2>1. CASE w.chunks = <<>>
    <3>1. pc' = "idle" /\ ~tex_file' /\ heap' = {} /\ world'.allocated /\ DOMAIN disc'.chunks = {}
      BY <2>1, <1>1, <1>2 DEF WorldInv, Idle
    <3> QED
      BY <3>1 DEF Idle
  <2>2. CASE w.chunks # <<>>
    <3>1. pc' = "sizes" /\ world'.allocated /\ at' = [chunk |-> 1, texture |-> 1]
      BY <2>2, <1>1, <1>2, <1>5
    <3> QED
      BY <3>1 DEF Idle
  <2> QED
    BY <2>1, <2>2
<1>10. Chunks'
  <2>1. \A i \in DOMAIN disc'.chunks : textures'[i] = <<>>
    BY <1>1
  <2> QED
    BY <1>7, <2>1 DEF Chunks, Reading, InTexture
<1>11. Current'
  BY <1>7 DEF Current, InTexture
<1> QED
  BY <1>8, <1>9, <1>10, <1>11 DEF WorldInv

\* The function returns with memory refused or with every chunk done.
LEMMA LeaveKeepsInv ==
  ASSUME WorldInv, pc \in {"sizes", "buffers", "chunk"}, Leave,
         UNCHANGED <<disc, world, at, textures>>, world.allocated,
         denied' \/ \A i \in DOMAIN disc.chunks : Created(i)
  PROVE  WorldInv'
<1>1. pc' = "idle" /\ heap' = {} /\ ~tex_file'
  BY DEF Leave
<1>2. Header'
  BY <1>1 DEF WorldInv, Header, Phases, Reading, InTexture
<1>3. \A i : Created(i)' <=> Created(i)
  BY FileStays
<1>4. Idle'
  BY <1>1, <1>3 DEF Idle
<1>5. Chunks' /\ Current'
  BY <1>1 DEF Chunks, Current, Reading, InTexture
<1> QED
  BY <1>2, <1>4, <1>5 DEF WorldInv

LEMMA TrackingKeepsInv == WorldInv /\ AllocateTracking => WorldInv'
<1> SUFFICES ASSUME WorldInv, AllocateTracking PROVE WorldInv'
  OBVIOUS
<1>1. /\ pc = "sizes" /\ UNCHANGED <<disc, world, at, textures>>
  BY DEF AllocateTracking
<1>2. world.allocated /\ disc \in Worlds /\ world.chunks = disc.chunks
  BY <1>1 DEF WorldInv, Header, Idle
<1>3. CASE denied' = TRUE /\ Leave
  BY <1>1, <1>2, <1>3, LeaveKeepsInv
<1>4. CASE saved' = Saved /\ pc' = "buffers" /\ denied' = denied
  <2>1. Saved' = Saved
    BY <1>1, FileStays
  <2>2. Header'
    BY <1>1, <1>2, <1>4, <2>1 DEF WorldInv, Header, Phases, Reading, InTexture
  <2>3. Idle'
    BY <1>1, <1>2, <1>4 DEF WorldInv, Idle
  <2>4. Chunks'
    BY <1>1, <1>4 DEF WorldInv, Chunks, Reading, InTexture
  <2>5. Current'
    BY <1>4 DEF Current, InTexture
  <2> QED
    BY <2>2, <2>3, <2>4, <2>5 DEF WorldInv
<1>5. \/ denied' = TRUE /\ Leave
      \/ saved' = Saved /\ pc' = "buffers" /\ denied' = denied
  <2>1. Offsets = [i \in DOMAIN world.chunks |-> world.chunks[i].offset]
    BY <1>2 DEF Offsets
  <2> QED
    BY <2>1 DEF AllocateTracking, Saved
<1> QED
  BY <1>3, <1>4, <1>5

LEMMA BuffersKeepInv == WorldInv /\ AllocateBuffers => WorldInv'
<1> SUFFICES ASSUME WorldInv, AllocateBuffers PROVE WorldInv'
  OBVIOUS
<1>1. /\ pc = "buffers" /\ UNCHANGED <<disc, world, saved, at, textures>>
  BY DEF AllocateBuffers
<1>2. /\ world.allocated /\ disc \in Worlds /\ saved = Saved
      /\ at = [chunk |-> 1, texture |-> 1]
  BY <1>1 DEF WorldInv, Header, Idle
<1>3. CASE MaxChunkSize(saved.sizes) = 0 /\ Leave
  <2>1. \A i \in DOMAIN disc.chunks : Created(i)
    BY <1>2, <1>3, NoSizeNoChunk DEF Created
  <2> QED
    BY <2>1, <1>1, <1>2, <1>3, LeaveKeepsInv
<1>4. CASE denied' = TRUE /\ Leave
  BY <1>1, <1>2, <1>4, LeaveKeepsInv
<1>5. CASE MaxChunkSize(saved.sizes) \in 1 .. Memory /\ pc' = "chunk" /\ denied' = denied
  <2>1. Saved' = Saved
    BY <1>1, FileStays
  <2>2. disc.file # Null
    BY <1>2, <1>5, BufferMeansFile
  <2>3. Header'
    BY <1>1, <1>2, <1>5, <2>1, <2>2 DEF WorldInv, Header, Phases, Reading, InTexture
  <2>4. Idle'
    BY <1>1, <1>2, <1>5 DEF WorldInv, Idle
  <2>5. Chunks'
    <3>1. \A i \in DOMAIN disc.chunks : i \in Nat /\ ~ (i < 1)
      BY <1>2, HeaderOfWorld
    <3>2. \A i \in DOMAIN disc.chunks : i > 1 \/ i = 1 => textures[i] = <<>>
      BY <1>1, <1>2 DEF WorldInv, Chunks, InTexture
    <3> QED
      BY <1>1, <1>2, <1>5, <3>1, <3>2 DEF Chunks, Reading, InTexture
  <2>6. Current'
    BY <1>5 DEF Current, InTexture
  <2> QED
    BY <2>3, <2>4, <2>5, <2>6 DEF WorldInv
<1> QED
  BY <1>3, <1>4, <1>5 DEF AllocateBuffers

\* The loader goes on to the next chunk.
LEMMA NextChunkKeepsInv ==
  ASSUME WorldInv, pc \in {"chunk", "texture"}, pc' = "chunk", world.allocated,
         at.chunk \in DOMAIN disc.chunks, NextChunk, UNCHANGED <<disc, saved, textures>>,
         denied => denied', denied' \/ Created(at.chunk), world'.allocated,
         world' \in [allocated : BOOLEAN, chunks : Seq([offset : Int, flags : Nat])],
         Len(world'.chunks) = Len(world.chunks),
         \A i \in DOMAIN disc.chunks : world'.chunks[i].flags = world.chunks[i].flags
  PROVE  WorldInv'
<1>1. at.chunk \in Nat /\ at' = [chunk |-> at.chunk + 1, texture |-> 1]
  BY DEF WorldInv, Header, NextChunk
<1>2. pc \in Reading /\ pc' \in Reading /\ pc' \notin InTexture /\ pc' \in Phases
  BY DEF Reading, InTexture, Phases
<1>3. Saved' = Saved /\ \A i : Created(i)' <=> Created(i)
  BY FileStays
<1>4. disc \in Worlds
  BY DEF WorldInv, Header
<1>5. \A i \in DOMAIN disc.chunks : i \in Nat
  BY <1>4, HeaderOfWorld
<1>6. Header'
  <2>1. at' \in [chunk : Nat \ {0}, texture : Nat \ {0}]
    BY <1>1
  <2> QED
    BY <2>1, <1>2, <1>3 DEF WorldInv, Header
<1>7. Idle'
  BY DEF Idle
<1>8. Chunks'
  <2>1. at'.chunk = at.chunk + 1 /\ at'.texture = 1
    BY <1>1
  <2>2. denied' \/ \A i \in DOMAIN disc.chunks : i < at.chunk + 1 => Created(i)
    <3>1. denied \/ \A i \in DOMAIN disc.chunks : i < at.chunk => Created(i)
      BY <1>2 DEF WorldInv, Chunks
    <3>2. \A i \in DOMAIN disc.chunks : i < at.chunk + 1 => i < at.chunk \/ i = at.chunk
      BY <1>1, <1>5
    <3>3. CASE denied'
      BY <3>3
    <3>4. CASE ~ denied'
      <4>1. ~ denied /\ Created(at.chunk)
        BY <3>4
      <4>2. \A i \in DOMAIN disc.chunks : i < at.chunk => Created(i)
        BY <4>1, <3>1
      <4> QED
        BY <4>1, <4>2, <3>2
    <3> QED
      BY <3>3, <3>4
  <2>3. \A i \in DOMAIN disc.chunks : i > at.chunk + 1 \/ i = at.chunk + 1 => textures[i] = <<>>
    <3>1. \A i \in DOMAIN disc.chunks : i > at.chunk => textures[i] = <<>>
      BY <1>2 DEF WorldInv, Chunks
    <3>2. \A i \in DOMAIN disc.chunks : i > at.chunk + 1 \/ i = at.chunk + 1 => i > at.chunk
      BY <1>1, <1>5
    <3> QED
      BY <3>1, <3>2
  <2> QED
    BY <2>1, <2>2, <2>3, <1>3 DEF Chunks
<1>9. Current'
  BY <1>2 DEF Current
<1> QED
  BY <1>6, <1>7, <1>8, <1>9 DEF WorldInv

LEMMA FinishKeepsInv == WorldInv /\ Finish => WorldInv'
<1> SUFFICES ASSUME WorldInv, Finish PROVE WorldInv'
  OBVIOUS
<1>1. /\ pc = "chunk" /\ at.chunk > Len(world.chunks) /\ Leave
      /\ UNCHANGED <<disc, world, at, textures>> /\ denied' = denied
  BY DEF Finish
<1>2. world.allocated /\ disc \in Worlds /\ Len(world.chunks) = Len(disc.chunks) /\ at.chunk \in Nat
  BY <1>1 DEF WorldInv, Header, Idle
<1>3. denied \/ \A i \in DOMAIN disc.chunks : i < at.chunk => Created(i)
  BY <1>1 DEF WorldInv, Chunks, Reading
<1>4. \A i \in DOMAIN disc.chunks : i < at.chunk
  <2>1. DOMAIN disc.chunks = 1 .. Len(disc.chunks) /\ Len(disc.chunks) \in Nat
    BY <1>2, HeaderOfWorld
  <2> QED
    BY <2>1, <1>1, <1>2
<1> QED
  BY <1>1, <1>2, <1>3, <1>4, LeaveKeepsInv

\* A chunk that may be read has a size that fits the buffer.
LEMMA SkippedIsNotWanted ==
  ASSUME WorldInv, pc = "chunk", at.chunk <= Len(world.chunks)
  PROVE  /\ world.allocated /\ disc \in Worlds /\ at.chunk \in DOMAIN disc.chunks
         /\ Skipped(at.chunk) <=> ~ Wanted(at.chunk)
         /\ world \in [allocated : BOOLEAN, chunks : Seq([offset : Int, flags : Nat])]
         /\ at.chunk \in 1 .. Len(world.chunks)
         /\ Len(world.chunks) = Len(disc.chunks) /\ saved = Saved
<1>1. /\ world.allocated /\ disc \in Worlds /\ Len(world.chunks) = Len(disc.chunks)
      /\ at.chunk \in Nat \ {0} /\ saved = Saved
      /\ \A i \in DOMAIN disc.chunks : world.chunks[i].flags = disc.chunks[i].flags
      /\ world \in [allocated : BOOLEAN, chunks : Seq([offset : Int, flags : Nat])]
  BY DEF WorldInv, Header, Idle, Reading
<1>2. DOMAIN disc.chunks = 1 .. Len(disc.chunks) /\ Len(disc.chunks) \in Nat
  BY <1>1, HeaderOfWorld
<1>3. at.chunk \in DOMAIN disc.chunks /\ at.chunk \in 1 .. Len(world.chunks)
  BY <1>1, <1>2
<1>4. /\ saved.offsets[at.chunk] = disc.chunks[at.chunk].offset
      /\ saved.sizes[at.chunk] \in Nat /\ MaxChunkSize(saved.sizes) \in Nat
      /\ saved.sizes[at.chunk] <= MaxChunkSize(saved.sizes)
  BY <1>1, <1>3, LargestSize, HeaderOfWorld
<1>5. ~ (saved.sizes[at.chunk] > MaxChunkSize(saved.sizes))
  BY <1>4
<1>6. Skipped(at.chunk) <=> ~ Wanted(at.chunk)
  BY <1>1, <1>3, <1>4, <1>5 DEF Skipped, Wanted
<1> QED
  BY <1>1, <1>3, <1>6

LEMMA SkipKeepsInv == WorldInv /\ SkipChunk => WorldInv'
<1> SUFFICES ASSUME WorldInv, SkipChunk PROVE WorldInv'
  OBVIOUS
<1>1. /\ pc = "chunk" /\ at.chunk <= Len(world.chunks) /\ Skipped(at.chunk) /\ NextChunk
      /\ UNCHANGED <<disc, saved, textures>> /\ pc' = pc /\ world' = world /\ denied' = denied
  BY DEF SkipChunk
<1>2. /\ world.allocated /\ disc \in Worlds /\ at.chunk \in DOMAIN disc.chunks
      /\ ~ Wanted(at.chunk)
      /\ world \in [allocated : BOOLEAN, chunks : Seq([offset : Int, flags : Nat])]
  BY <1>1, SkippedIsNotWanted
<1>3. Created(at.chunk)
  BY <1>2 DEF Created
<1> QED
  BY <1>1, <1>2, <1>3, NextChunkKeepsInv

LEMMA ReadKeepsInv == WorldInv /\ ReadChunk => WorldInv'
<1> SUFFICES ASSUME WorldInv, ReadChunk PROVE WorldInv'
  OBVIOUS
<1>1. /\ pc = "chunk" /\ at.chunk <= Len(world.chunks) /\ ~ Skipped(at.chunk)
      /\ range' = [offset |-> saved.offsets[at.chunk], size |-> saved.sizes[at.chunk]]
      /\ UNCHANGED <<disc, saved, textures>>
  BY DEF ReadChunk
<1>2. /\ world.allocated /\ disc \in Worlds /\ at.chunk \in DOMAIN disc.chunks
      /\ Wanted(at.chunk) /\ at.chunk \in 1 .. Len(world.chunks) /\ saved = Saved
      /\ world \in [allocated : BOOLEAN, chunks : Seq([offset : Int, flags : Nat])]
      /\ Len(world.chunks) = Len(disc.chunks)
  BY <1>1, SkippedIsNotWanted
<1> DEFINE count == Chunk(saved.offsets[at.chunk]).count
           Entries(address) == world' = [world EXCEPT !.chunks[at.chunk].offset = address]
<1>3. saved.offsets[at.chunk] = Offsets[at.chunk] /\ saved.sizes[at.chunk] = ChunkSize(Offsets, at.chunk)
  BY <1>2, LargestSize
<1>4. count = Count(at.chunk)
  BY <1>2, <1>3, HeaderOfWorld DEF Count
<1> HIDE DEF count
<1>5. ASSUME NEW address \in Int, Entries(address)
      PROVE  /\ world' \in [allocated : BOOLEAN, chunks : Seq([offset : Int, flags : Nat])]
             /\ world'.allocated /\ Len(world'.chunks) = Len(world.chunks)
             /\ \A i \in DOMAIN disc.chunks : world'.chunks[i].flags = world.chunks[i].flags
  <2> DEFINE R == [offset : Int, flags : Nat]
             c == world.chunks
             new == [c[at.chunk] EXCEPT !.offset = address]
  <2>1. c \in Seq(R) /\ at.chunk \in 1 .. Len(c) /\ DOMAIN disc.chunks = 1 .. Len(c)
    BY <1>2, HeaderOfWorld
  <2>2. c[at.chunk] \in R
    BY <2>1, ElementOfSeq
  <2>3. new \in R /\ new.flags = c[at.chunk].flags
    BY <2>2
  <2>4. world' = [allocated |-> TRUE, chunks |-> [c EXCEPT ![at.chunk] = new]]
    BY <1>2, <1>5
  <2> HIDE DEF R, new, c
  <2>5. [c EXCEPT ![at.chunk] = new] \in Seq(R)
    BY <2>1, <2>3, ExceptSeq
  <2>6. /\ Len([c EXCEPT ![at.chunk] = new]) = Len(c)
        /\ \A i \in 1 .. Len(c) :
             [c EXCEPT ![at.chunk] = new][i] = IF i = at.chunk THEN new ELSE c[i]
    BY <2>1, <2>3, ExceptSeq
  <2>7. /\ world'.allocated = TRUE /\ world'.chunks = [c EXCEPT ![at.chunk] = new]
    BY <2>4
  <2>8. \A i \in DOMAIN disc.chunks : world'.chunks[i].flags = c[i].flags
    BY <2>1, <2>3, <2>6, <2>7
  <2> QED
    BY <2>4, <2>5, <2>6, <2>7, <2>8 DEF R, c
<1> HIDE DEF Entries
<1>6. CASE count \notin 1 .. 1000 /\ Entries(0) /\ NextChunk /\ pc' = pc /\ denied' = denied
  <2>1. Created(at.chunk)
    BY <1>4, <1>6 DEF Created
  <2>2. /\ world' \in [allocated : BOOLEAN, chunks : Seq([offset : Int, flags : Nat])]
        /\ world'.allocated /\ Len(world'.chunks) = Len(world.chunks)
        /\ \A i \in DOMAIN disc.chunks : world'.chunks[i].flags = world.chunks[i].flags
    BY <1>5, <1>6, 0 \in Int
  <2> QED
    BY <1>1, <1>2, <1>6, <2>1, <2>2, NextChunkKeepsInv
<1>7. CASE count \in 1 .. 1000 /\ Entries(0) /\ NextChunk /\ denied' = TRUE /\ pc' = pc
  <2>1. /\ world' \in [allocated : BOOLEAN, chunks : Seq([offset : Int, flags : Nat])]
        /\ world'.allocated /\ Len(world'.chunks) = Len(world.chunks)
        /\ \A i \in DOMAIN disc.chunks : world'.chunks[i].flags = world.chunks[i].flags
    BY <1>5, <1>7, 0 \in Int
  <2> QED
    BY <1>1, <1>2, <1>7, <2>1, NextChunkKeepsInv
<1>8. CASE count \in 1 .. 1000 /\ Entries(Word - at.chunk) /\ pc' = "texture" /\ at' = at /\ denied' = denied
  <2>1. Word - at.chunk \in Int
    <3>1. Word \in Nat
      BY WorldsAssumption
    <3> QED
      BY <1>2, <3>1
  <2>2. /\ world' \in [allocated : BOOLEAN, chunks : Seq([offset : Int, flags : Nat])]
        /\ world'.allocated /\ Len(world'.chunks) = Len(world.chunks)
        /\ \A i \in DOMAIN disc.chunks : world'.chunks[i].flags = world.chunks[i].flags
    BY <1>5, <1>8, <2>1
  <2>3. /\ Saved' = Saved /\ Offsets' = Offsets
        /\ \A i : Wanted(i)' = Wanted(i) /\ Count(i)' = Count(i)
        /\ \A i : Created(i)' <=> Created(i)
    BY <1>1, FileStays
  <2>4. pc \in Reading /\ pc' \in Reading /\ pc' \in Phases /\ pc \notin InTexture
    BY <1>1, <1>8 DEF Reading, InTexture, Phases
  <2>5. Header'
    <3>1. at' = at /\ disc' = disc /\ saved' = saved /\ textures' = textures
      BY <1>1, <1>8
    <3>2. /\ saved = Saved /\ disc.file # Null
          /\ at \in [chunk : Nat \ {0}, texture : Nat \ {0}]
          /\ \A i \in DOMAIN disc.chunks : world.chunks[i].flags = disc.chunks[i].flags
          /\ textures \in [DOMAIN disc.chunks -> Seq(Roomy)]
      BY <1>2, <2>4 DEF WorldInv, Header
    <3>3. pc' # "sizes" /\ pc' # "buffers"
      BY <1>8
    <3> QED
      BY ONLY <1>2, <2>2, <2>3, <2>4, <3>1, <3>2, <3>3 DEF Header
  <2>6. Idle'
    BY <1>8, <2>2 DEF Idle
  <2>7. Chunks'
    <3>1. at' = at /\ denied' = denied /\ textures' = textures /\ disc' = disc
      BY <1>1, <1>8
    <3>2. denied \/ \A i \in DOMAIN disc.chunks : i < at.chunk => Created(i)
      BY <2>4 DEF WorldInv, Chunks
    <3>3. \A i \in DOMAIN disc.chunks : i > at.chunk => textures[i] = <<>>
      BY <2>4 DEF WorldInv, Chunks
    <3>4. pc' = "texture"
      BY <1>8
    <3> QED
      BY <2>3, <3>1, <3>2, <3>3, <3>4 DEF Chunks, InTexture
  <2>8. Current'
    <3>1. /\ at' = at /\ disc' = disc /\ textures' = textures /\ pc' = "texture"
      BY <1>1, <1>8
    <3>2. ReadWhole'
      <4>1. range' = [offset |-> Offsets[at.chunk], size |-> ChunkSize(Offsets, at.chunk)]
        BY <1>1, <1>3
      <4>2. file_size' = file_size
        BY <3>1 DEF file_size
      <4> QED
        BY <2>3, <3>1, <4>1, <4>2 DEF ReadWhole, ChunkSize, NextOffset
    <3>3. /\ Wanted(at.chunk)' /\ Count(at.chunk)' = Count(at.chunk) /\ Count(at.chunk) \in 1 .. 1000
      <4>1. Wanted(at.chunk)' /\ Count(at.chunk)' = Count(at.chunk)
        BY <1>2, <3>1 DEF Wanted, Count, Chunk
      <4>2. Count(at.chunk) \in 1 .. 1000
        BY <1>4, <1>8
      <4> QED
        BY <4>1, <4>2
    <3>4. at.texture = 1 /\ textures[at.chunk] = <<>> /\ Len(textures[at.chunk]) = 0
      BY <1>1, <1>2, <2>4 DEF WorldInv, Chunks
    <3>5. at.texture <= Count(at.chunk) + 1 /\ Len(textures[at.chunk]) = at.texture - 1
      <4>1. \A n \in 1 .. 1000 : 1 <= n + 1
        OBVIOUS
      <4>2. at.texture <= Count(at.chunk) + 1
        BY <3>3, <3>4, <4>1
      <4> QED
        BY ONLY <3>4, <4>2
    <3> QED
      BY <1>2, <3>1, <3>2, <3>3, <3>5 DEF Current
  <2> QED
    BY <2>5, <2>6, <2>7, <2>8 DEF WorldInv
<1>9. \/ count \notin 1 .. 1000 /\ Entries(0) /\ NextChunk /\ pc' = pc /\ denied' = denied
      \/ count \in 1 .. 1000 /\ Entries(0) /\ NextChunk /\ denied' = TRUE /\ pc' = pc
      \/ count \in 1 .. 1000 /\ Entries(Word - at.chunk) /\ pc' = "texture" /\ at' = at /\ denied' = denied
  <2>1. \/ count \notin 1 .. 1000 /\ Entries(0) /\ NextChunk /\ UNCHANGED <<pc, denied>>
        \/ count \in 1 .. 1000 /\ Entries(0) /\ NextChunk /\ denied' = TRUE /\ UNCHANGED pc
        \/ /\ count \in 1 .. 1000
           /\ Entries(Word - at.chunk)
           /\ pc' = "texture"
           /\ UNCHANGED <<at, denied>>
    BY Zenon DEF ReadChunk, count, Entries
  <2> QED
    BY <2>1
<1> DEFINE some == count \in 1 .. 1000
<1> SUFFICES ASSUME ~ WorldInv' PROVE FALSE
  OBVIOUS
<1>10. ~ (~ some /\ Entries(0) /\ NextChunk /\ pc' = pc /\ denied' = denied)
  BY <1>6
<1>11. ~ (some /\ Entries(0) /\ NextChunk /\ denied' = TRUE /\ pc' = pc)
  BY <1>7
<1>12. ~ (some /\ Entries(Word - at.chunk) /\ pc' = "texture" /\ at' = at /\ denied' = denied)
  BY <1>8
<1> QED
  BY <1>9, <1>10, <1>11, <1>12


LEMMA InChunk ==
  ASSUME WorldInv, pc \in InTexture
  PROVE  /\ world.allocated /\ disc \in Worlds /\ at.chunk \in DOMAIN disc.chunks /\ pc \in Reading
         /\ at.chunk \in Nat \ {0} /\ at.texture \in Nat \ {0}
         /\ at = [chunk |-> at.chunk, texture |-> at.texture]
         /\ Wanted(at.chunk) /\ Count(at.chunk) \in 1 .. 1000 /\ ReadWhole
         /\ range.offset = disc.chunks[at.chunk].offset
         /\ Chunk(range.offset).count = Count(at.chunk)
         /\ textures \in [DOMAIN disc.chunks -> Seq(Roomy)]
<1>1. /\ pc \in Reading /\ pc \notin {"idle", "sizes", "buffers"}
  BY DEF Reading, InTexture
<1>2. world.allocated
  BY <1>1 DEF WorldInv, Idle
<1>3. /\ disc \in Worlds /\ textures \in [DOMAIN disc.chunks -> Seq(Roomy)]
      /\ at \in [chunk : Nat \ {0}, texture : Nat \ {0}]
  BY <1>2 DEF WorldInv, Header
<1>4. at.chunk \in DOMAIN disc.chunks /\ Wanted(at.chunk) /\ Count(at.chunk) \in 1 .. 1000 /\ ReadWhole
  BY DEF WorldInv, Current
<1>5. range.offset = disc.chunks[at.chunk].offset
  BY <1>3, <1>4, HeaderOfWorld DEF ReadWhole
<1>6. Chunk(range.offset).count = Count(at.chunk)
  BY <1>5 DEF Count
<1> QED
  BY <1>1, <1>2, <1>3, <1>4, <1>5, <1>6

\* A step inside a chunk: what is left to show is what changes.
LEMMA InChunkKeepsInv ==
  ASSUME WorldInv, pc \in InTexture, pc' \in InTexture,
         UNCHANGED <<disc, world, saved, range>>, denied => denied',
         at'.chunk = at.chunk, at' = [chunk |-> at.chunk, texture |-> at'.texture],
         at'.texture \in Nat \ {0},
         textures' \in [DOMAIN disc.chunks -> Seq(Roomy)],
         \A i \in DOMAIN disc.chunks : i # at.chunk => textures'[i] = textures[i],
         at'.texture <= Count(at.chunk) + (IF pc' = "texture" THEN 1 ELSE 0),
         Len(textures'[at.chunk]) = at'.texture - (IF pc' = "fill" THEN 0 ELSE 1),
         pc' \in {"upload", "create"} => temp'.width \in Nat /\ temp'.height \in Nat /\ temp'.width <= Widest
  PROVE  WorldInv'
<1>1. /\ world.allocated /\ disc \in Worlds /\ at.chunk \in DOMAIN disc.chunks /\ pc \in Reading
      /\ at.chunk \in Nat \ {0} /\ Wanted(at.chunk) /\ Count(at.chunk) \in 1 .. 1000 /\ ReadWhole
  BY InChunk
<1>2. pc' \in Reading /\ pc' \in Phases /\ pc' \notin {"idle", "sizes", "buffers", "chunk"}
  BY DEF Reading, InTexture, Phases
<1>3. /\ Saved' = Saved /\ Offsets' = Offsets
      /\ \A i : Wanted(i)' = Wanted(i) /\ Count(i)' = Count(i)
      /\ \A i : textures'[i] = textures[i] => (Created(i)' <=> Created(i))
  BY FileStays
<1>4. \A i \in DOMAIN disc.chunks : i \in Nat
  <2>1. DOMAIN disc.chunks = 1 .. Len(disc.chunks) /\ Len(disc.chunks) \in Nat
    BY <1>1, HeaderOfWorld
  <2> QED
    BY ONLY <2>1
<1>5. Header'
  <2>1. at' \in [chunk : Nat \ {0}, texture : Nat \ {0}]
    BY <1>1
  <2> QED
    BY <2>1, <1>1, <1>2, <1>3 DEF WorldInv, Header
<1>6. Idle'
  BY <1>1, <1>2 DEF Idle
<1>7. Chunks'
  <2>1. denied' \/ \A i \in DOMAIN disc.chunks : i < at.chunk => Created(i)'
    <3>1. denied \/ \A i \in DOMAIN disc.chunks : i < at.chunk => Created(i)
      BY <1>1 DEF WorldInv, Chunks
    <3>2. \A i \in DOMAIN disc.chunks : i < at.chunk => i # at.chunk
      BY <1>1, <1>4
    <3>3. \A i \in DOMAIN disc.chunks : i < at.chunk => (Created(i)' <=> Created(i))
      BY <3>2, <1>3
    <3>4. CASE denied'
      BY <3>4
    <3>5. CASE ~ denied'
      <4>1. ~ denied
        BY <3>5
      <4> QED
        BY <4>1, <3>1, <3>3
    <3> QED
      BY <3>4, <3>5
  <2>2. \A i \in DOMAIN disc.chunks : i > at.chunk => textures'[i] = <<>>
    <3>1. \A i \in DOMAIN disc.chunks : i > at.chunk => textures[i] = <<>> /\ i # at.chunk
      BY <1>1, <1>4 DEF WorldInv, Chunks
    <3> QED
      BY <3>1
  <2> QED
    BY <2>1, <2>2, <1>2 DEF Chunks
<1>8. Current'
  <2>1. ReadWhole'
    <3>1. file_size' = file_size
      BY DEF file_size
    <3> QED
      BY <1>1, <1>3, <3>1 DEF ReadWhole, ChunkSize, NextOffset
  <2>2. Wanted(at.chunk)' /\ Count(at.chunk)' = Count(at.chunk)
    BY <1>1 DEF Wanted, Count, Chunk
  <2> QED
    BY <2>1, <2>2, <1>1 DEF Current
<1> QED
  BY <1>5, <1>6, <1>7, <1>8 DEF WorldInv

LEMMA ChunkDoneKeepsInv == WorldInv /\ ChunkIsDone => WorldInv'
<1> SUFFICES ASSUME WorldInv, ChunkIsDone PROVE WorldInv'
  OBVIOUS
<1>1. /\ pc = "texture" /\ at.texture > Chunk(range.offset).count /\ pc' = "chunk" /\ NextChunk
      /\ UNCHANGED <<disc, saved, textures>> /\ world' = world /\ denied' = denied
  BY DEF ChunkIsDone
<1>2. /\ world.allocated /\ disc \in Worlds /\ at.chunk \in DOMAIN disc.chunks
      /\ at.texture \in Nat \ {0} /\ Count(at.chunk) \in 1 .. 1000
      /\ Chunk(range.offset).count = Count(at.chunk)
  BY <1>1, InChunk DEF InTexture
<1>3. world \in [allocated : BOOLEAN, chunks : Seq([offset : Int, flags : Nat])]
  BY DEF WorldInv, Header
<1>4. /\ at.texture <= Count(at.chunk) + 1 /\ Len(textures[at.chunk]) = at.texture - 1
  BY <1>1 DEF WorldInv, Current, InTexture
<1>5. Len(textures[at.chunk]) = Count(at.chunk)
  <2>1. Count(at.chunk) \in Nat /\ at.texture \in Nat /\ at.texture > Count(at.chunk)
    BY <1>1, <1>2
  <2> QED
    BY ONLY <1>4, <2>1
<1>6. Created(at.chunk)
  BY <1>5 DEF Created
<1> QED
  BY <1>1, <1>2, <1>3, <1>6, NextChunkKeepsInv

\* The texture that is loaded is one of those the file has.
LEMMA SourceIs ==
  ASSUME WorldInv, pc \in InTexture, at.texture <= Chunk(range.offset).count
  PROVE  IsTexture(Source)
<1>1. disc.file # Null
  BY DEF WorldInv, Header, Reading
<1>2. /\ disc \in Worlds /\ at.chunk \in DOMAIN disc.chunks
      /\ at.texture \in Nat \ {0} /\ Count(at.chunk) \in 1 .. 1000 /\ Wanted(at.chunk)
      /\ Chunk(range.offset).count = Count(at.chunk)
      /\ range.offset = disc.chunks[at.chunk].offset
  BY InChunk
<1>3. disc.chunks[at.chunk].flags # 0 /\ disc.chunks[at.chunk].offset # 0
  BY <1>2 DEF Wanted
<1> DEFINE chunk == disc.file.chunks[disc.chunks[at.chunk].offset]
<1>4. chunk.count \in 1 .. 1000
  BY <1>2 DEF Count, Chunk
<1>5. at.texture \in 1 .. chunk.count
  <2>1. at.texture <= chunk.count
    BY <1>2 DEF Chunk
  <2>2. chunk.count \in Nat
    BY <1>4, SomeIsNumber
  <2> HIDE DEF chunk
  <2> QED
    BY <2>1, <2>2, <1>2
<1>6. IsTexture(chunk.textures[at.texture])
  <2>1. \A i \in DOMAIN disc.chunks :
          disc.chunks[i].flags # 0 /\ disc.chunks[i].offset # 0 =>
            LET d == disc.file.chunks[disc.chunks[i].offset] IN
            d.count \in 1 .. 1000 => \A k \in 1 .. d.count : IsTexture(d.textures[k])
    BY <1>2, <1>1, WorldsAssumption
  <2>2. chunk.count \in 1 .. 1000 => \A k \in 1 .. chunk.count : IsTexture(chunk.textures[k])
    BY <1>2, <1>3, <2>1, Zenon
  <2> HIDE DEF chunk
  <2> QED
    BY <1>4, <1>5, <2>2, Zenon
<1>7. Source = chunk.textures[at.texture]
  BY <1>2 DEF Source, Chunk
<1> QED
  BY <1>6, <1>7

LEMMA DecodeKeepsInv == WorldInv /\ DecodeTexture => WorldInv'
<1> SUFFICES ASSUME WorldInv, DecodeTexture PROVE WorldInv'
  OBVIOUS
<1> DEFINE width == alignDimension(Source.width)
           height == alignDimension(Source.height)
           Decoded(w, h) ==
             \E block \in Source.blocks :
               temp' = [pixels |-> DecodeBlock(Source.tables, block.stream),
                        meant |-> block.pixels, width |-> w, height |-> h,
                        step |-> Step(width, w)]
<1>1. /\ pc = "texture" /\ at.texture <= Chunk(range.offset).count /\ pc' = "upload"
      /\ UNCHANGED <<disc, world, saved, at, range, textures>>
  BY DEF DecodeTexture
<1>2. \/ ~ Halves(width, height) /\ Decoded(width, height) /\ UNCHANGED denied
      \/ Halves(width, height) /\ Decoded(width \div 2, height \div 2) /\ UNCHANGED denied
      \/ Halves(width, height) /\ Decoded(width, height) /\ denied' = TRUE
  BY Zenon DEF DecodeTexture
<1>3. ASSUME NEW w, NEW h, Decoded(w, h)
      PROVE  temp'.width = w /\ temp'.height = h
  BY <1>3
<1> HIDE DEF Decoded
<1>4. /\ disc \in Worlds /\ at.chunk \in DOMAIN disc.chunks
      /\ at.texture \in Nat \ {0} /\ Count(at.chunk) \in 1 .. 1000 /\ Wanted(at.chunk)
      /\ Chunk(range.offset).count = Count(at.chunk)
      /\ range.offset = disc.chunks[at.chunk].offset
      /\ at = [chunk |-> at.chunk, texture |-> at.texture]
      /\ textures \in [DOMAIN disc.chunks -> Seq(Roomy)]
  BY <1>1, InChunk DEF InTexture
<1>5. Source.width \in Sizes /\ Source.height \in Sizes
  BY <1>1, SourceIs DEF InTexture, IsTexture
<1>6. /\ width \in Nat /\ width <= Widest /\ width \div 2 \in Nat /\ width \div 2 <= Widest
      /\ height \in Nat /\ height \div 2 \in Nat
  BY <1>5, Aligned
<1> HIDE DEF width, height
<1>7. temp'.width \in Nat /\ temp'.height \in Nat /\ temp'.width <= Widest
  <2>1. CASE Decoded(width, height)
    BY <2>1, <1>3, <1>6
  <2>2. CASE Decoded(width \div 2, height \div 2)
    BY <2>2, <1>3, <1>6
  <2> QED
    BY <2>1, <2>2, <1>2
<1>8. denied => denied'
  BY <1>2
<1>9. at.texture <= Count(at.chunk) /\ Len(textures[at.chunk]) = at.texture - 1
  BY <1>1, <1>4 DEF WorldInv, Current, InTexture
<1>10. /\ pc \in InTexture /\ pc' \in InTexture /\ pc' # "texture" /\ pc' # "fill"
       /\ at' = at /\ textures' = textures
  BY <1>1 DEF InTexture
<1>11. /\ at'.chunk = at.chunk /\ at' = [chunk |-> at.chunk, texture |-> at'.texture]
       /\ at'.texture \in Nat \ {0}
  BY <1>4, <1>10
<1>12. /\ at'.texture <= Count(at.chunk) + (IF pc' = "texture" THEN 1 ELSE 0)
       /\ Len(textures'[at.chunk]) = at'.texture - (IF pc' = "fill" THEN 0 ELSE 1)
  <2>1. Count(at.chunk) \in Nat
    BY <1>4, SomeIsNumber
  <2> QED
    BY ONLY <1>4, <1>9, <1>10, <2>1
<1> QED
  BY <1>1, <1>4, <1>7, <1>8, <1>10, <1>11, <1>12, InChunkKeepsInv

LEMMA StartKeepsInv == WorldInv /\ StartUpload => WorldInv'
<1> SUFFICES ASSUME WorldInv, StartUpload PROVE WorldInv'
  OBVIOUS
<1>1. /\ pc = "upload" /\ pc' = "create"
      /\ UNCHANGED <<disc, world, saved, at, range, temp, textures, denied>>
  BY DEF StartUpload, loadingVars
<1>2. /\ at.texture \in Nat \ {0} /\ Count(at.chunk) \in 1 .. 1000
      /\ at = [chunk |-> at.chunk, texture |-> at.texture]
      /\ textures \in [DOMAIN disc.chunks -> Seq(Roomy)]
  BY <1>1, InChunk DEF InTexture
<1>3. /\ at.texture <= Count(at.chunk) + 0 /\ Len(textures[at.chunk]) = at.texture - 1
      /\ temp.width \in Nat /\ temp.height \in Nat /\ temp.width <= Widest
  BY <1>1 DEF WorldInv, Current, InTexture
<1>4. /\ pc \in InTexture /\ pc' \in InTexture /\ pc' # "texture" /\ pc' # "fill"
      /\ at' = at /\ textures' = textures /\ temp' = temp /\ (denied => denied')
  BY <1>1 DEF InTexture
<1>5. /\ at'.chunk = at.chunk /\ at' = [chunk |-> at.chunk, texture |-> at'.texture]
      /\ at'.texture \in Nat \ {0}
  BY <1>2, <1>4
<1>6. /\ at'.texture <= Count(at.chunk) + (IF pc' = "texture" THEN 1 ELSE 0)
      /\ Len(textures'[at.chunk]) = at'.texture - (IF pc' = "fill" THEN 0 ELSE 1)
  BY ONLY <1>3, <1>4
<1>7. /\ temp'.width \in Nat /\ temp'.height \in Nat /\ temp'.width <= Widest
  BY <1>3, <1>4
<1> QED
  BY <1>1, <1>2, <1>4, <1>5, <1>6, <1>7, InChunkKeepsInv

LEMMA CreateKeepsInv == WorldInv /\ CreateTexture => WorldInv'
<1> SUFFICES ASSUME WorldInv, CreateTexture PROVE WorldInv'
  OBVIOUS
<1> DEFINE c == at.chunk
           new == D3DDevice_CreateTexture2(temp.width, temp.height, "P8")
<1>1. pc = "create" /\ UNCHANGED <<disc, world, saved, at, range, temp>>
  BY DEF CreateTexture
<1>2. /\ world.allocated /\ disc \in Worlds /\ c \in DOMAIN disc.chunks
      /\ at.texture \in Nat \ {0} /\ Count(c) \in 1 .. 1000
      /\ at = [chunk |-> c, texture |-> at.texture]
      /\ textures \in [DOMAIN disc.chunks -> Seq(Roomy)]
  BY <1>1, InChunk DEF InTexture
<1>3. /\ at.texture <= Count(c) + 0 /\ Len(textures[c]) = at.texture - 1
      /\ temp.width \in Nat /\ temp.height \in Nat /\ temp.width <= Widest
  BY <1>1 DEF WorldInv, Current, InTexture
<1>4. CASE pc' = "crashed" /\ denied' = TRUE /\ textures' = textures
  <2>1. pc' \in Phases /\ pc' \notin Reading \cup InTexture \cup {"idle", "sizes", "buffers"}
    BY <1>4 DEF Phases, Reading, InTexture
  <2>2. Header'
    BY <1>1, <1>2, <1>4, <2>1 DEF WorldInv, Header
  <2>3. Idle' /\ Chunks' /\ Current'
    BY <1>1, <1>2, <2>1 DEF Idle, Chunks, Current
  <2> QED
    BY <2>2, <2>3 DEF WorldInv
<1>5. CASE /\ textures' = [textures EXCEPT ![c] = Append(@, new)]
           /\ pc' = "fill" /\ denied' = denied
  <2>1. new \in Roomy
    BY <1>3, NewTextureIsRoomy
  <2> HIDE DEF c, new
  <2>2. textures[c] \in Seq(Roomy)
    BY <1>2
  <2>3. Append(textures[c], new) \in Seq(Roomy) /\ Len(Append(textures[c], new)) = Len(textures[c]) + 1
    BY <2>1, <2>2, AppendProperties
  <2>4. /\ textures' \in [DOMAIN disc.chunks -> Seq(Roomy)]
        /\ \A i \in DOMAIN disc.chunks : i # c => textures'[i] = textures[i]
        /\ textures'[c] = Append(textures[c], new)
    BY <1>2, <1>5, <2>3
  <2>5. /\ pc \in InTexture /\ pc' \in InTexture /\ pc' # "texture" /\ pc' = "fill"
        /\ pc' \notin {"upload", "create"} /\ at' = at /\ (denied => denied')
    BY <1>1, <1>5 DEF InTexture
  <2>6. /\ at'.chunk = c /\ at' = [chunk |-> c, texture |-> at'.texture]
        /\ at'.texture \in Nat \ {0} /\ at'.texture = at.texture
    BY <1>2, <2>5
  <2>7. at'.texture <= Count(c) + (IF pc' = "texture" THEN 1 ELSE 0)
    BY ONLY <1>3, <2>5, <2>6
  <2>8. Len(textures'[c]) = at'.texture - (IF pc' = "fill" THEN 0 ELSE 1)
    <3>1. Len(textures'[c]) = (at.texture - 1) + 1
      BY <1>3, <2>3, <2>4
    <3>2. Len(textures'[c]) = at.texture
      BY ONLY <3>1, <1>2
    <3> QED
      BY ONLY <3>2, <2>5, <2>6, <1>2
  <2> QED
    BY <1>1, <2>4, <2>5, <2>6, <2>7, <2>8, InChunkKeepsInv DEF c
<1> QED
  BY <1>4, <1>5 DEF CreateTexture

LEMMA FillKeepsInv == WorldInv /\ FillTexture => WorldInv'
<1> SUFFICES ASSUME WorldInv, FillTexture PROVE WorldInv'
  OBVIOUS
<1>1. /\ pc = "fill" /\ pc' = "texture" /\ at' = [at EXCEPT !.texture = @ + 1]
      /\ UNCHANGED <<disc, world, saved, range, temp, textures, denied>>
  BY DEF FillTexture
<1>2. /\ at.texture \in Nat \ {0} /\ Count(at.chunk) \in 1 .. 1000
      /\ at = [chunk |-> at.chunk, texture |-> at.texture]
      /\ textures \in [DOMAIN disc.chunks -> Seq(Roomy)]
  BY <1>1, InChunk DEF InTexture
<1>3. /\ at.texture <= Count(at.chunk) + 0 /\ Len(textures[at.chunk]) = at.texture - 0
  BY <1>1 DEF WorldInv, Current, InTexture
<1>4. at' = [chunk |-> at.chunk, texture |-> at.texture + 1]
  BY <1>1, <1>2
<1>5. /\ at'.chunk = at.chunk /\ at'.texture = at.texture + 1
      /\ at' = [chunk |-> at.chunk, texture |-> at'.texture] /\ at'.texture \in Nat \ {0}
  BY <1>2, <1>4
<1>6. /\ pc \in InTexture /\ pc' \in InTexture /\ pc' = "texture" /\ pc' # "fill"
      /\ pc' \notin {"upload", "create"} /\ textures' = textures /\ (denied => denied')
  BY <1>1 DEF InTexture
<1>7. /\ at'.texture <= Count(at.chunk) + (IF pc' = "texture" THEN 1 ELSE 0)
      /\ Len(textures'[at.chunk]) = at'.texture - (IF pc' = "fill" THEN 0 ELSE 1)
  <2>1. Count(at.chunk) \in Nat /\ at.texture \in Nat
    BY <1>2, SomeIsNumber
  <2> QED
    BY ONLY <1>3, <1>5, <1>6, <2>1
<1> QED
  BY <1>1, <1>2, <1>5, <1>6, <1>7, InChunkKeepsInv

LEMMA GameKeepsWorld == WorldInv /\ [GameNext]_gameVars => WorldInv'
<1> SUFFICES ASSUME WorldInv, [GameNext]_gameVars PROVE WorldInv'
  OBVIOUS
<1>1. CASE UNCHANGED worldVars
  BY <1>1, WorldInvStutter DEF worldVars
<1>2. CASE UNCHANGED gameVars
  BY <1>2, <1>1 DEF gameVars
<1>3. CASE PlayWorld
  <2>1. CASE Load
    BY <2>1, BeginKeepsInv, TrackingKeepsInv, BuffersKeepInv, FinishKeepsInv, SkipKeepsInv,
       ReadKeepsInv, DecodeKeepsInv, ChunkDoneKeepsInv DEF Load
  <2>2. CASE StartUpload \/ CreateTexture \/ FillTexture
    BY <2>2, StartKeepsInv, CreateKeepsInv, FillKeepsInv
  <2>3. CASE CallCore \/ Draw \/ ScreenCreates \/ InHooks
    BY <2>3, <1>1 DEF CallCore, Draw, ScreenCreates, InHooks
  <2>4. CASE ScreenLocks \/ ScreenReleases
    BY <2>4, WorldInvStutter DEF ScreenLocks, ScreenReleases, loadingVars
  <2> QED
    BY <1>3, <2>1, <2>2, <2>3, <2>4 DEF PlayWorld
<1> QED
  BY <1>1, <1>2, <1>3 DEF GameNext, Play

\* The loader of a world is where it says it is, with as many textures created
\* as it has come to.
THEOREM WorldInvariant == GameSpec => []WorldInv
<1>1. GameInit => WorldInv
  BY WorldInvInit DEF GameInit
<1>2. WorldInv /\ [GameNext]_gameVars => WorldInv'
  BY GameKeepsWorld
<1> QED
  BY <1>1, <1>2, PTL DEF GameSpec

LEMMA WholeChunk ==
  ASSUME WorldInv, pc = "texture"
  PROVE  ChunksAreReadWhole
<1> DEFINE i == at.chunk
           o == Offsets[i]
           next == NextOffset(Offsets, i)
           chunks == disc.chunks
           after == {chunks[j].offset : j \in DOMAIN chunks} \cup {disc.file.size}
<1>1. /\ disc \in Worlds /\ i \in DOMAIN chunks /\ ReadWhole
      /\ Wanted(i) /\ range.offset = chunks[i].offset
  BY InChunk DEF InTexture
<1>2. disc.file # Null
  BY DEF WorldInv, Header, Reading, InTexture
<1>3. file_size = disc.file.size
  BY <1>2 DEF file_size
<1>4. /\ \A j \in DOMAIN chunks : Offsets[j] = chunks[j].offset /\ Offsets[j] \in Nat
  BY <1>1, HeaderOfWorld
<1>5. /\ next \in Nat /\ o < next /\ next <= file_size
      /\ next = file_size \/ \E j \in DOMAIN chunks : next = Offsets[j]
      /\ \A j \in DOMAIN chunks : Offsets[j] <= o \/ Offsets[j] >= next
      /\ ChunkSize(Offsets, i) = IF o = 0 THEN 0 ELSE next - o
  BY <1>1, ChunkReachesNext
<1>6. o # 0 /\ o \in Nat /\ range.offset = o
  BY <1>1, <1>4 DEF Wanted
<1>7. range.size = next - o
  BY <1>1, <1>5, <1>6 DEF ReadWhole
<1>8. file_size \in Nat
  <2>1. file_size \in 1 .. Word - 1
    BY <1>1, HeaderOfWorld
  <2>2. Word \in Nat
    BY WorldsAssumption
  <2> QED
    BY ONLY <2>1, <2>2
<1> HIDE DEF i, o, next
<1>9. range.offset + range.size = next
  BY <1>5, <1>6, <1>7
<1>10. next \in after
  BY <1>3, <1>4, <1>5
<1>11. \A n \in after : n <= o \/ n >= next
  <2> TAKE n \in after
  <2>1. CASE n = disc.file.size
    BY <2>1, <1>3, <1>5, <1>8
  <2>2. CASE \E j \in DOMAIN chunks : n = chunks[j].offset
    BY <2>2, <1>4, <1>5
  <2> QED
    BY <2>1, <2>2
<1>12. /\ range.offset = chunks[at.chunk].offset
       /\ range.offset + range.size \in after
       /\ \A n \in after : n <= range.offset \/ n >= range.offset + range.size
  BY <1>1, <1>6, <1>9, <1>10, <1>11 DEF i
<1> QED
  BY <1>12 DEF ChunksAreReadWhole

\* ChunksAreReadWhole (worldAllocateSegments.h): every chunk is read from its
\* offset to the next offset of the header, whatever the order of the header.
THEOREM ChunksAreAlwaysReadWhole == GameSpec => []ChunksAreReadWhole
<1>1. WorldInv => ChunksAreReadWhole
  <2>1. CASE pc = "texture"
    BY <2>1, WholeChunk
  <2>2. CASE pc # "texture"
    BY <2>2 DEF ChunksAreReadWhole
  <2> QED
    BY <2>1, <2>2
<1> QED
  BY <1>1, WorldInvariant, PTL

LEMMA AllLoaded == WorldInv /\ Mutex => LoadedUnlessDenied
<1> SUFFICES ASSUME WorldInv, Mutex, world.allocated, pc = "idle"
             PROVE  /\ heap = {} /\ ~tex_file /\ mutex # Loader
                    /\ denied \/ \A i \in DOMAIN disc.chunks :
                         LET count == IF disc.chunks[i].flags = 0 \/ disc.chunks[i].offset = 0 THEN 0
                                      ELSE Chunk(disc.chunks[i].offset).count
                         IN  /\ count \in 1 .. 1000 => Len(textures[i]) = count
                             /\ \A k \in DOMAIN textures[i] :
                                  textures[i][k].width * textures[i][k].height <= textures[i][k].room
  BY Zenon DEF LoadedUnlessDenied
<1>1. heap = {} /\ ~tex_file
  BY DEF WorldInv, Idle
<1>2. mutex # Loader
  BY DEF Mutex, Uploading
<1>3. denied \/ \A i \in DOMAIN disc.chunks : Created(i)
  BY DEF WorldInv, Idle
<1>4. ASSUME NEW i \in DOMAIN disc.chunks, NEW k \in DOMAIN textures[i]
      PROVE  textures[i][k].width * textures[i][k].height <= textures[i][k].room
  <2>1. textures[i] \in Seq(Roomy)
    BY DEF WorldInv, Header
  <2>2. textures[i][k] \in Roomy
    BY <2>1
  <2> QED
    BY <2>2 DEF Roomy
<1>5. ASSUME NEW i \in DOMAIN disc.chunks, Created(i)
      PROVE  LET count == IF disc.chunks[i].flags = 0 \/ disc.chunks[i].offset = 0 THEN 0
                          ELSE Chunk(disc.chunks[i].offset).count
             IN  count \in 1 .. 1000 => Len(textures[i]) = count
  <2>1. CASE Wanted(i)
    BY <2>1, <1>5 DEF Created, Count, Wanted
  <2>2. CASE ~ Wanted(i)
    <3>1. 0 \notin 1 .. 1000
      OBVIOUS
    <3> QED
      BY <2>2, <3>1 DEF Wanted
  <2> QED
    BY <2>1, <2>2
<1> QED
  BY <1>1, <1>2, <1>3, <1>4, <1>5, Zenon

\* LoadedUnlessDenied (worldAllocateSegments.h): the loader of a world frees what
\* it has, and unless memory was refused it has created every texture with room.
THEOREM WorldsAreLoadedUnlessDenied == GameSpec => []LoadedUnlessDenied
<1>1. WorldInv /\ Mutex => LoadedUnlessDenied
  BY AllLoaded
<1>2. HookInv => Mutex
  BY DEF HookInv
<1> QED
  BY <1>1, <1>2, WorldInvariant, HooksInvariant, PTL
-----------------------------------------------------------------------------
(* Textures are decoded, and halved column by column *)

\* The texture that waits for its upload is as wide as its source or half as wide.
Scaling ==
  pc = "upload" =>
    LET from == alignDimension(Source.width) IN
    /\ Source.width \in Sizes /\ temp.width \in {from, from \div 2}
    /\ temp.step = Step(from, temp.width)

DecodedInv == temp.pixels = temp.meant /\ Scaling

\* The aligned width is even and not 0.
LEMMA AlignedIsEven ==
  ASSUME NEW d \in Sizes
  PROVE  \E h \in Nat \ {0} : alignDimension(d) = 2 * h /\ alignDimension(d) \div 2 = h
<1> DEFINE k == (d + 31) \div 32
<1>1. k \in Nat
  <2>1. d + 31 \in Nat
    BY SMTT(30) DEF Sizes
  <2> QED
    BY <2>1
<1> HIDE DEF k
<1> DEFINE h == Largest(16, 16 * k)
<1>2. h \in Nat \ {0} /\ Largest(32, 32 * k) = 2 * h
  BY <1>1 DEF Largest
<1>3. alignDimension(d) = 2 * h
  BY <1>2 DEF alignDimension, k
<1> HIDE DEF h
<1>4. (2 * h) \div 2 = h
  BY <1>2
<1> QED
  BY <1>2, <1>3, <1>4

LEMMA SmallerOf ==
  ASSUME NEW a \in Nat, NEW b \in Nat, a <= b
  PROVE  First({a, b}) = a
<1>1. First({a, b}) \in {a, b} /\ \A n \in {a, b} : First({a, b}) <= n
  BY FirstIsLeast
<1> QED
  BY <1>1

\* A column of the result comes from the column, or the pair, of its number.
LEMMA SampledIs ==
  ASSUME NEW h \in Nat \ {0}, NEW w \in {2 * h, h}, NEW x \in 0 .. w - 1
  PROVE  (Sampled(x, Step(2 * h, w), 2 * h) * w) \div (2 * h) = x
<1> DEFINE one == 2^16
           from == 2 * h
<1>1. one \in Nat \ {0}
  OBVIOUS
<1> HIDE DEF one
<1>2. from \in Nat \ {0} /\ x \in Nat /\ w \in Nat \ {0} /\ x <= w - 1
  OBVIOUS
<1>3. CASE w = 2 * h
  <2>1. (from * one) \div w = one
    <3>1. from * one \in Nat /\ one * w = from * one /\ one * w + w > from * one
      BY <1>1, <1>2, <1>3
    <3> HIDE DEF from
    <3> QED
      BY <1>1, <1>2, <3>1, QuotientIs
  <2>2. (x * one) \div one = x
    <3>1. x * one \in Nat /\ x * one < x * one + one
      BY <1>1, <1>2
    <3> QED
      BY <1>1, <1>2, <3>1, QuotientIs
  <2>3. First({x, from - 1}) = x
    BY <1>2, <1>3, SmallerOf
  <2>4. (x * w) \div from = x
    <3>1. x * w \in Nat /\ x * w = x * from /\ x * w < x * from + from
      BY <1>2, <1>3
    <3> HIDE DEF from
    <3> QED
      BY <1>2, <3>1, QuotientIs
  <2> HIDE DEF from
  <2> QED
    BY <2>1, <2>2, <2>3, <2>4 DEF Sampled, Step, one, from
<1>4. CASE w = h
  <2>1. (from * one) \div w = 2 * one
    <3>1. from * one \in Nat /\ (2 * one) * w = from * one /\ (2 * one) * w + w > from * one
      BY <1>1, <1>2, <1>4
    <3>2. 2 * one \in Nat
      BY <1>1
    <3> HIDE DEF from
    <3> QED
      BY <1>2, <3>1, <3>2, QuotientIs
  <2>2. (x * (2 * one)) \div one = 2 * x
    <3>1. /\ x * (2 * one) \in Nat /\ 2 * x \in Nat
          /\ (2 * x) * one = x * (2 * one) /\ x * (2 * one) < (2 * x) * one + one
      BY <1>1, <1>2
    <3> QED
      BY <1>1, <3>1, QuotientIs
  <2>3. First({2 * x, from - 1}) = 2 * x
    BY <1>2, <1>4, SmallerOf
  <2>4. (2 * x * w) \div from = x
    <3>1. 2 * x * w \in Nat /\ 2 * x * w = x * from /\ 2 * x * w < x * from + from
      BY <1>2, <1>4
    <3> HIDE DEF from
    <3> QED
      BY <1>2, <3>1, QuotientIs
  <2> HIDE DEF from
  <2> QED
    BY <2>1, <2>2, <2>3, <2>4 DEF Sampled, Step, one, from
<1> QED
  BY <1>3, <1>4

LEMMA DecodedInvIsEnough == DecodedInv => BlocksAreDecoded
<1> SUFFICES ASSUME DecodedInv PROVE BlocksAreDecoded
  OBVIOUS
<1> DEFINE from == alignDimension(Source.width)
<1>1. ASSUME pc = "upload", NEW x \in 0 .. temp.width - 1
      PROVE  (Sampled(x, temp.step, from) * temp.width) \div from = x
  <2>1. Source.width \in Sizes /\ temp.width \in {from, from \div 2} /\ temp.step = Step(from, temp.width)
    BY <1>1 DEF DecodedInv, Scaling
  <2>2. PICK h \in Nat \ {0} : from = 2 * h /\ from \div 2 = h
    BY <2>1, AlignedIsEven
  <2> HIDE DEF from
  <2> DEFINE w == temp.width
  <2>3. w \in {2 * h, h} /\ x \in 0 .. w - 1 /\ temp.step = Step(2 * h, w)
    BY <2>1, <2>2
  <2> HIDE DEF w
  <2>4. (Sampled(x, Step(2 * h, w), 2 * h) * w) \div (2 * h) = x
    BY <2>3, SampledIs
  <2> QED
    BY <2>2, <2>3, <2>4 DEF w
<1> QED
  BY <1>1 DEF DecodedInv, BlocksAreDecoded

LEMMA DecodedInvInit == WorldInit => DecodedInv
BY DEF WorldInit, NoTexture, DecodedInv, Scaling

\* A step that decodes nothing.
LEMMA DecodedInvStutter ==
  ASSUME DecodedInv, temp' = temp, pc' # "upload" \/ UNCHANGED <<pc, disc, at, range>>
  PROVE  DecodedInv'
<1>1. CASE pc' # "upload"
  BY <1>1 DEF DecodedInv, Scaling
<1>2. CASE UNCHANGED <<pc, disc, at, range>>
  <2>1. Source' = Source
    BY <1>2 DEF Source, Chunk
  <2> QED
    BY <1>2, <2>1 DEF DecodedInv, Scaling
<1> QED
  BY <1>1, <1>2

LEMMA DecodeKeepsDecoded == WorldInv /\ DecodedInv /\ DecodeTexture => DecodedInv'
<1> SUFFICES ASSUME WorldInv, DecodedInv, DecodeTexture PROVE DecodedInv'
  OBVIOUS
<1> DEFINE width == alignDimension(Source.width)
           height == alignDimension(Source.height)
           Decoded(w, h) ==
             \E block \in Source.blocks :
               temp' = [pixels |-> DecodeBlock(Source.tables, block.stream),
                        meant |-> block.pixels, width |-> w, height |-> h,
                        step |-> Step(width, w)]
<1>1. /\ pc = "texture" /\ at.texture <= Chunk(range.offset).count
      /\ disc' = disc /\ at' = at /\ range' = range
  BY DEF DecodeTexture
<1>2. Decoded(width, height) \/ Decoded(width \div 2, height \div 2)
  BY Zenon DEF DecodeTexture
<1>3. IsTexture(Source)
  BY <1>1, SourceIs DEF InTexture
<1>4. PICK w \in {width, width \div 2}, h \in {height, height \div 2} : Decoded(w, h)
  <2> HIDE DEF Decoded, width, height
  <2> QED
    BY <1>2
<1>5. PICK block \in Source.blocks :
        temp' = [pixels |-> DecodeBlock(Source.tables, block.stream),
                 meant |-> block.pixels, width |-> w, height |-> h, step |-> Step(width, w)]
  BY <1>4
<1>6. DecodeBlock(Source.tables, block.stream) = block.pixels
  <2>1. IsCode(Source.code) /\ Source.tables = Tables(Source.code) /\ IsBlock(Source.code, block)
    BY <1>3 DEF IsTexture
  <2>2. DecodeBlock(Tables(Source.code), block.stream) = block.pixels
    BY <2>1, BlockIsDecoded
  <2> QED
    BY <2>1, <2>2
<1>7. temp'.pixels = temp'.meant /\ temp'.width = w /\ temp'.step = Step(width, w)
  BY <1>5, <1>6
<1>8. Source' = Source
  BY <1>1 DEF Source, Chunk
<1>9. Source.width \in Sizes
  BY <1>3 DEF IsTexture
<1> QED
  BY <1>4, <1>7, <1>8, <1>9 DEF DecodedInv, Scaling

LEMMA GameKeepsDecoded == WorldInv /\ DecodedInv /\ [GameNext]_gameVars => DecodedInv'
<1> SUFFICES ASSUME WorldInv, DecodedInv, [GameNext]_gameVars PROVE DecodedInv'
  OBVIOUS
<1>1. CASE UNCHANGED worldVars
  BY <1>1, DecodedInvStutter DEF worldVars
<1>2. CASE UNCHANGED gameVars
  BY <1>2, <1>1 DEF gameVars
<1>3. CASE PlayWorld
  <2>1. CASE DecodeTexture
    BY <2>1, DecodeKeepsDecoded
  <2>2. CASE worldAllocateSegments
    <3>1. temp' = temp /\ pc' # "upload"
      BY <2>2 DEF worldAllocateSegments
    <3> QED
      BY <3>1, DecodedInvStutter
  <2>3. CASE AllocateTracking \/ AllocateBuffers \/ Finish
    <3>1. temp' = temp /\ pc' # "upload"
      BY <2>3 DEF AllocateTracking, AllocateBuffers, Finish, Leave
    <3> QED
      BY <3>1, DecodedInvStutter
  <2>4. CASE SkipChunk \/ ReadChunk \/ ChunkIsDone
    <3>1. temp' = temp /\ pc' # "upload"
      BY <2>4 DEF SkipChunk, ReadChunk, ChunkIsDone
    <3> QED
      BY <3>1, DecodedInvStutter
  <2>5. CASE StartUpload \/ CreateTexture \/ FillTexture
    <3>1. temp' = temp /\ pc' # "upload"
      BY <2>5 DEF StartUpload, CreateTexture, FillTexture, loadingVars
    <3> QED
      BY <3>1, DecodedInvStutter
  <2>6. CASE CallCore \/ Draw \/ ScreenCreates \/ InHooks
    BY <2>6, <1>1 DEF CallCore, Draw, ScreenCreates, InHooks
  <2>7. CASE ScreenLocks \/ ScreenReleases
    BY <2>7, DecodedInvStutter DEF ScreenLocks, ScreenReleases, loadingVars
  <2> QED
    BY <1>3, <2>1, <2>2, <2>3, <2>4, <2>5, <2>6, <2>7 DEF PlayWorld, Load
<1> QED
  BY <1>1, <1>2, <1>3 DEF GameNext, Play

\* BlocksAreDecoded, for any canonical codes, blocks and sizes of textures: each
\* block is decoded to the pixels it was made of, and a halved texture has a
\* pixel of each pair of columns.
THEOREM BlocksAreAlwaysDecoded == GameSpec => []BlocksAreDecoded
<1>1. GameInit => DecodedInv
  BY DecodedInvInit DEF GameInit
<1>2. WorldInv /\ DecodedInv /\ [GameNext]_gameVars => DecodedInv'
  BY GameKeepsDecoded
<1>3. DecodedInv => BlocksAreDecoded
  BY DecodedInvIsEnough
<1> QED
  BY <1>1, <1>2, <1>3, WorldInvariant, PTL DEF GameSpec
=============================================================================
