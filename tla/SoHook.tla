------------------------------- MODULE SoHook -------------------------------
(***************************************************************************)
(* Hooked functions (so_util.c: hook_arm; so_util.h: SO_CONTINUE).  The    *)
(* first two words of a hooked function are replaced by a jump to the hook *)
(* and its address.  A hook that wants the original puts the two words     *)
(* back, calls the function and replaces them again; nothing locks them.   *)
(* The game is ARM code, so that hook_thumb is not modelled.               *)
(***************************************************************************)
EXTENDS Integers, SequencesExt, FiniteSets

CONSTANTS HookThreads, Null

VARIABLES
  instr,    \* the first two words of each hooked function
  stack    \* what each thread is in, the innermost call last

hookVars == <<instr, stack>>

-----------------------------------------------------------------------------
(* Which original functions a hook calls through SO_CONTINUE, in this order; *)
(* a hook may also return without any of them.                               *)

\* The touch screen is not used.
patch_touch_ui == {"renderTouchIcons", "usingTouchscreen", "frontEndDoControllerScreenInput",
                   "inputRender", "virtualControlsRender"}

Shadows == {"RenderDelayedShadows", "Clear"}

\* The size of cellar1.vat is a constant of the port, and what is not in
\* existing_files is not there.
cdDirectoryLookup == {<<>>, <<"cdDirectoryLookup">>}

\* The task of the statistics and that of the shadows are dropped.
coreAddTask == {<<>>, <<"coreAddTask">>}

\* The hook puts something of its own in the place of the original.
Replaced == patch_touch_ui \cup {"writeConfigDirect", "isCheatTriggered", "usprintf", "AsyncRenderCB",
                                "SetVertexShaderConstantNotInline"}

Hooked == Replaced \cup Shadows \cup
  {"SetTexture", "SelectVertexShader", "CreateTexture2", "XGSetTextureHeader", "LockRect",
   "ProcessAndUploadTexture", "coreAddTask", "cdDirectoryLookup", "coreStartLoadingScreen"}

SetTexture == {<<"SetTexture">>, <<"SetVertexShaderConstantNotInline", "SetTexture">>}

Continues(f) ==
  CASE f \in Replaced -> {<<>>}
    [] f = "SetTexture" -> SetTexture
    [] f = "SelectVertexShader" ->
         {<<"SelectVertexShader">>, <<"SelectVertexShader", "SetVertexShaderConstantNotInline">>}
    [] f = "CreateTexture2" -> {<<"XGSetTextureHeader">>}    \* replaces the original
    [] f = "ProcessAndUploadTexture" -> {<<>>, <<f>>}
    [] f = "coreAddTask" -> coreAddTask
    [] f = "cdDirectoryLookup" -> cdDirectoryLookup
    [] OTHER -> {<<f>>}

\* External: the hooked functions that an original calls.
Callees(f) == IF f = "RenderDelayedShadows" THEN {"Clear"} ELSE {}

\* External: what only the thread that draws calls.
Drawing == {"SetTexture", "SelectVertexShader", "RenderDelayedShadows", "ProcessAndUploadTexture",
            "virtualControlsRender"}

\* External: what only the thread that loads calls.
Loading == {"coreAddTask", "cdDirectoryLookup"}

-----------------------------------------------------------------------------
Original == <<"orig1", "orig2">>
Patch == <<"jump", "target">>

Frame(at, f) == [at |-> at, of |-> f, todo |-> <<>>]

HookInit ==
  /\ instr = [f \in Hooked |-> Original]
  /\ stack = [t \in HookThreads |-> <<>>]

\* hook_addr for every function that so_patch and the patches it calls hook.
hook_addr == instr' = [f \in Hooked |-> Patch] /\ UNCHANGED stack

Top(t) == Last(stack[t])
InCall(t) == stack[t] # <<>>
Is(t, at) == InCall(t) /\ Top(t).at = at
Becomes(t, frame) == stack' = [stack EXCEPT ![t] = Append(Front(@), frame)]
Push(t, frame) == stack' = [stack EXCEPT ![t] = Append(@, frame)]

\* The caller goes on; a hook that has called an original goes on with the next
\* one, and SO_CONTINUE with its patch.
Return(t) == stack' = [stack EXCEPT ![t] = Front(@)]

Call(t, f) == Push(t, Frame("entry", f)) /\ UNCHANGED instr

\* The processor reads the words at the address of the function.
Enter(t) ==
  /\ Is(t, "entry")
  /\ LET f == Top(t).of IN
     \/ instr[f] = Original /\ Becomes(t, Frame("body", f))
     \/ /\ instr[f] = Patch
        /\ \E todo \in Continues(f) : Becomes(t, [Frame("hook", f) EXCEPT !.todo = todo])
     \/ instr[f] \notin {Original, Patch} /\ Becomes(t, Frame("astray", f))
  /\ UNCHANGED instr

\* The hook goes on with SO_CONTINUE, or returns.
Hook(t) ==
  /\ Is(t, "hook")
  /\ LET todo == Top(t).todo IN
     IF todo = <<>> THEN Return(t)
     ELSE stack' = [stack EXCEPT ![t] = Front(@) \o
                      <<[Top(t) EXCEPT !.todo = Tail(todo)], Frame("restore", Head(todo))>>]
  /\ UNCHANGED instr

\* Mutant: the first word is put back and the second one left.
RestoredHalf(words, word) == [words EXCEPT ![1] = Original[1]]

\* kuKernelCpuUnrestrictedMemcpy copies one word after the other.
Restored(words, word) == [words EXCEPT ![word] = Original[word]]

Write(t, words, next) ==
  /\ instr' = [instr EXCEPT ![Top(t).of] = words]
  /\ Becomes(t, Frame(next, Top(t).of))

Restore1(t) == Is(t, "restore") /\ Write(t, Restored(instr[Top(t).of], 1), "restoring")
Restore2(t) == Is(t, "restoring") /\ Write(t, Restored(instr[Top(t).of], 2), "continue")

Continue(t) ==
  /\ Is(t, "continue")
  /\ stack' = [stack EXCEPT ![t] = Front(@) \o <<Frame("repatch", Top(t).of),
                                                Frame("entry", Top(t).of)>>]
  /\ UNCHANGED instr

Repatch1(t) ==
  Is(t, "repatch") /\ Write(t, [instr[Top(t).of] EXCEPT ![1] = Patch[1]], "repatching")

Repatch2(t) ==
  /\ Is(t, "repatching")
  /\ instr' = [instr EXCEPT ![Top(t).of][2] = Patch[2]]
  /\ Return(t)

\* An original function calls another one that is hooked, or returns.
Body(t) ==
  /\ Is(t, "body")
  /\ \/ \E f \in Callees(Top(t).of) : Push(t, Frame("entry", f))
     \/ Return(t)
  /\ UNCHANGED instr

HookStep(t) ==
  Enter(t) \/ Hook(t) \/ Restore1(t) \/ Restore2(t) \/ Continue(t) \/ Repatch1(t) \/ Repatch2(t)
  \/ Body(t)

-----------------------------------------------------------------------------
(* Properties *)

\* How many of the calls below frame i of a thread continue into f.
Continuing(t, f, i) == Cardinality({j \in 1 .. i - 1 : stack[t][j].at = "repatch" /\ stack[t][j].of = f})

\* An original function that is hooked runs only as the continuation of a hook,
\* and of one: no call passes a function by whose words were put back for
\* another call, none passes its hook twice, and none runs into words of which
\* one belongs to the function and the other to the patch.
HookedOnce ==
  \A t \in HookThreads : \A i \in DOMAIN stack[t] :
    /\ stack[t][i].at # "astray"
    /\ stack[t][i].at = "body" => Continuing(t, stack[t][i].of, i) = 1
=============================================================================
