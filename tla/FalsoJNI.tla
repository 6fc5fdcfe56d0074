------------------------------ MODULE FalsoJNI ------------------------------
(***************************************************************************)
(* The fake Java VM (FalsoJNI.c, FalsoJNI_ImplBridge.c and the tables of   *)
(* falso_jni_impl.c): classes, strings, arrays, references, and the look-up *)
(* of methods and fields by name.                                          *)
(*                                                                         *)
(* A string keeps two buffers, of UTF-16 units and of UTF-8 bytes with a   *)
(* terminator.  Nothing locks it: nearly every call that only reads a      *)
(* string writes its UTF-8 buffer anew, because FalsoJNI.c sees neither    *)
(* FALSOJNI_DEBUGLEVEL nor FALSOJNI_DEBUG_ALL and the conversion meant for *)
(* debug builds is compiled in.  It is done in steps, and other threads    *)
(* run between them.                                                       *)
(***************************************************************************)
EXTENDS Utf, FiniteSets

CONSTANTS
  Threads,
  Objects,       \* the addresses of objects
  Null,
  Texts,         \* the strings handed to NewStringUTF, without terminator
  UnitTexts,     \* the strings handed to NewString
  Garbage,       \* what a unit of a fresh array may hold
  Lengths,       \* of new arrays
  DeletedKinds   \* the kinds of objects the native code calls DeleteGlobalRef for

VARIABLES
  obj,       \* what is at each address: nothing, a class, an array, or a string
  call,      \* the call each thread is in
  result,    \* what the call that ended last returned
  heap       \* "sound", "corrupt" after a free() of something else than a block, or
             \* "aborted"

jniVars == <<obj, call, result, heap>>

-----------------------------------------------------------------------------
(* The tables of falso_jni_impl.c.  A method is known by its number; the   *)
(* name of number 42 is that of 32, and every other name is used once.     *)

Types == {"void", "object", "boolean", "byte", "char", "short", "int", "long",
          "float", "double"}

MethodNames == (1 .. 52) \ {42}

\* What nameToMethodId says of the type of each method.
DeclaredType(id) ==
  CASE id \in {1, 2, 6, 7, 14, 15, 16, 19, 23, 27, 28} -> "void"
    [] id \in {3, 9, 11, 13, 21, 22, 30, 38, 44, 45, 48} -> "int"
    [] id \in {4, 10, 17, 20, 24, 31, 43, 49} -> "boolean"
    [] id = 46 -> "float"
    [] OTHER -> "object"

\* Mutant: methodsObject lacks the entry of loadClass.
ObjectTableShort == {5, 8, 12, 18, 25, 26, 29} \cup 32 .. 37 \cup {39, 41, 42, 47, 50, 51, 52}

ObjectTable == {5, 8, 12, 18, 25, 26, 29} \cup 32 .. 37 \cup 39 .. 42 \cup {47, 50, 51, 52}

\* methodsObject, methodsVoid and the other tables of implementations.
MethodTable(type) ==
  CASE type = "object"  -> ObjectTable
    [] type = "void"    -> {1, 2, 6, 7, 14, 15, 16, 19, 23, 27, 28}
    [] type = "int"     -> {3, 9, 11, 13, 21, 22, 30, 38, 44, 45, 48}
    [] type = "boolean" -> {4, 10, 17, 20, 24, 31, 43, 49}
    [] type = "float"   -> {46}
    [] OTHER            -> {}

\* Field 0, WINDOW_SERVICE, has the number that also means "not found".
FieldNames == 0 .. 5
DeclaredFieldType(id) == IF id = 1 THEN "int" ELSE "object"

-----------------------------------------------------------------------------
\* What NewStringUTF is handed is UTF-8; units have 16 bits.
ASSUME TextsAssumption == \A text \in Texts : WellFormed(text)
ASSUME UnitsAssumption == UnitTexts \subseteq Seq(Units) /\ Garbage \subseteq Units
ASSUME NullAssumption == Null \notin Objects

Nothing == [kind |-> "nothing"]

\* A buffer that is there has a terminator.
NoBuffer == <<>>

Idle == [op |-> "none", on |-> Null, pc |-> "idle", overlapped |-> FALSE]

Class == [kind |-> "class"]
Array(len) == [kind |-> "array", len |-> len]
IsString(o) == obj[o].kind = "string"

\* "text" remembers what the string was made from, "made" by which call.
String(utf16, utf8, text, made) ==
  [kind |-> "string", utf16 |-> utf16, utf8 |-> utf8, text |-> text, made |-> made]

Kinds == {"class", "array", "string"}
Readers == {"GetStringLength", "GetStringUTFLength", "GetStringUTFChars",
            "GetStringChars", "ReleaseStringChars", "GetStringUTFRegion"}

JniTypeOK ==
  /\ \A o \in Objects : obj[o] = Nothing \/ obj[o].kind \in Kinds
  /\ \A t \in Threads :
       /\ call[t].op \in Readers \cup {"none"} /\ call[t].on \in Objects \cup {Null}
       /\ call[t].pc \in {"idle", "check", "alloc", "encode", "terminate", "finish"}
       /\ call[t].overlapped \in BOOLEAN
  /\ heap \in {"sound", "corrupt", "aborted"}

JniInit ==
  /\ obj = [o \in Objects |-> Nothing]
  /\ call = [t \in Threads |-> Idle]
  /\ result = Nothing
  /\ heap = "sound"

-----------------------------------------------------------------------------
(* Calls that take one step *)

\* A thread that is in no call makes one and gets r.
Returns(t, r) ==
  /\ heap = "sound"
  /\ call[t].pc = "idle"
  /\ result' = r
  /\ UNCHANGED call

\* A call that fails, or changes no object.
Answers(t, r) == Returns(t, r) /\ UNCHANGED <<obj, heap>>

\* A call that makes the object x at address o.
Creates(t, o, x) ==
  /\ obj[o] = Nothing
  /\ obj' = [obj EXCEPT ![o] = x]
  /\ Returns(t, Nothing)
  /\ UNCHANGED heap

\* A copy of the name.
FindClass(t, o) == Creates(t, o, Class)

\* New<Type>Array and NewObjectArray
NewArray(t, o) == \E n \in Lengths : Creates(t, o, Array(n))

\* Get<Type>ArrayRegion and Set<Type>ArrayRegion look at the start and at the
\* length, never at both together.
AcceptsRegion(len, start, length) == start >= 0 /\ length <= len

ArrayRegion(t, o) ==
  /\ obj[o].kind = "array"
  /\ \E start \in -1 .. 1, length \in Lengths :
       Answers(t, [kind |-> "region", copied |-> AcceptsRegion(obj[o].len, start, length),
                   inside |-> start >= 0 /\ start + length <= obj[o].len])

\* Get<Type>ArrayElements, GetPrimitiveArrayCritical, GetArrayLength: the array
\* itself is handed out, and its release is ignored.
ArrayElements(t, o) == obj[o].kind = "array" /\ Answers(t, Nothing)

\* jda_alloc: the elements hold what was there before.
jda_alloc(n, values) == [1 .. n -> values]

\* As many units as the text has bytes, though it may have fewer characters.
Utf16Room(bytes) == jda_alloc(Len(bytes), Garbage)

\* The string is not shared before it is returned.
NewStringUTF(t, o) ==
  \E bytes \in Texts : \E fresh \in Utf16Room(bytes) :
    Creates(t, o, String(utf8_to_utf16(bytes, fresh), bytes \o <<0>>, bytes, "utf8"))

\* Mutant: the conversion leaves the last byte as it is.
Unterminated(buffer) == buffer

\* arr[len - 1] = '\0'
Terminated(buffer) == [buffer EXCEPT ![Len(buffer)] = 0]

\* The UTF-8 buffer has one byte per unit and one for the terminator.
FirstUtf8(units) ==
  Terminated(utf16_to_utf8(units, [i \in 1 .. Len(units) + 1 |-> 0]))

\* The buffer for the conversion may not be available; that is only logged.
NewString(t, o) ==
  \E units \in UnitTexts : \E utf8 \in {FirstUtf8(units), NoBuffer} :
    Creates(t, o, String(units, utf8, units, "utf16"))

\* A call by number or type that finds nothing returns a default value; whether
\* the table of names promises a method of that number and type is remembered.
Default(id, type) ==
  [kind |-> "default", promised |-> id \in MethodNames /\ DeclaredType(id) = type]

\* What a call by a number and one of these types returns if there is no method.
Defaults(types) ==
  LET Missing == {c \in (MethodNames \cup {0}) \X types : c[1] \notin MethodTable(c[2])}
  IN  {Default(c[1], c[2]) : c \in Missing}

\* The methods that return a number or nothing are constants.
ConstantMethod(t) == Answers(t, Nothing)

\* getExpansionPath, getVersionName and the texts about the port
TextMethod(t, o) == NewStringUTF(t, o)

\* getSubLibPath to getAssetPackPath: always the directory of the game.
PathMethod(t, o) == NewStringUTF(t, o)

\* getLocale and getISO3Language make the text in an array that nobody frees,
\* of one byte less than it takes.
LanguageMethod(t, o) == NewStringUTF(t, o)

\* A byte array with the class's name.
loadClass(t, o) == Creates(t, o, Array(29))

\* initCloud and initSocial return no object.
initCloud(t) == Answers(t, Nothing)

\* A call by the type "object".
methodObjectCall(t, o) ==
  \/ \E default \in Defaults({"object"}) : Answers(t, default)
  \/ TextMethod(t, o) \/ PathMethod(t, o) \/ LanguageMethod(t, o) \/ loadClass(t, o) \/ initCloud(t)

\* A call by another type.
methodCall(t, types) ==
  (\E default \in Defaults(types) : Answers(t, default)) \/ ConstantMethod(t)

Integers8To64 == {"boolean", "byte", "char", "short", "int", "long"}
Others == {"float", "double", "void"}

\* Call<Type>Method with its V and A forms: the object is not looked at.
CallMethod(t, o) == methodObjectCall(t, o) \/ methodCall(t, Integers8To64)
CallOtherMethod(t) == methodCall(t, Others)

\* CallNonvirtual<Type>Method: the class is not looked at.
CallNonvirtualMethod(t, o) == methodObjectCall(t, o) \/ methodCall(t, Integers8To64)
CallNonvirtualOtherMethod(t) == methodCall(t, Others)

\* CallStatic<Type>Method
CallStaticMethod(t, o) == methodObjectCall(t, o) \/ methodCall(t, Integers8To64)
CallStaticOtherMethod(t) == methodCall(t, Others)

\* Constructors are methods too, called "<init>" for every class.
NewObject(t, o) == methodObjectCall(t, o)

\* 0 if there is no such name.
getMethodIdByName(name) == IF name \in MethodNames THEN name ELSE 0

GetMethodID(t) ==
  \E name \in MethodNames \cup {0} :
    Answers(t, [kind |-> "id", found |-> getMethodIdByName(name) # 0])

GetStaticMethodID(t) == GetMethodID(t)

\* GetFieldID and GetStaticFieldID
GetFieldID(t) == \E name \in FieldNames : Answers(t, [kind |-> "id", found |-> name # 0])

\* A field asked for by another type than its own is logged and has the default
\* value; the values of fields are not modelled.
FieldValue(id, type) ==
  IF DeclaredFieldType(id) = type THEN Nothing ELSE [kind |-> "field_default"]

\* Get<Type>Field
GetField(t) ==
  \E id \in FieldNames, type \in {"int", "object"} : Answers(t, FieldValue(id, type))

\* Set<Type>Field looks for the field in the same way; a mismatch is only logged.
SetField(t) == GetField(t)
StaticField(t) == GetField(t)

\* MonitorEnter and MonitorExit return JNI_OK and exclude nobody; natives are
\* not registered.
MonitorEnter(t) == Answers(t, Nothing)

\* Every thread is attached from the beginning.
AttachCurrentThread(t) == Answers(t, Nothing)

\* Reflection, exceptions and frames: nothing is thrown, nothing is scoped.
Throw(t) == Answers(t, Nothing)

\* FatalError aborts the process.
FatalError(t) ==
  /\ heap = "sound" /\ call[t].pc = "idle"
  /\ heap' = "aborted"
  /\ UNCHANGED <<obj, call, result>>

Aborted == heap = "aborted" /\ UNCHANGED jniVars

\* ExceptionCheck and the direct buffers, of which there are none.
ExceptionCheck(t) == Answers(t, Nothing)

\* The units themselves are handed out; nothing is copied or pinned.
GetStringCritical(t, o) == IsString(o) /\ Answers(t, Nothing)

\* Copies the units that follow the buffer's header, and not the buffer's.
GetStringRegion(t, o) == IsString(o) /\ Answers(t, Nothing)

-----------------------------------------------------------------------------
(* References *)

\* NewGlobalRef, NewLocalRef and NewWeakGlobalRef return their argument.
NewRef(t, o) == obj[o] # Nothing /\ Answers(t, Nothing)

\* DeleteLocalRef and DeleteWeakGlobalRef do nothing.
DeleteRef(t, o) == obj[o] # Nothing /\ Answers(t, Nothing)

\* The first word of an array and of a string is a pointer to a block, which
\* jda_free frees; the first word of a class is the beginning of its name.
FirstWordIsBlock(o) == obj[o].kind \in {"array", "string"}

\* DeleteGlobalRef takes every object for an array and frees two blocks.  The
\* native code calls it when no thread uses the object any more.
DeleteGlobalRef(t, o) ==
  /\ obj[o].kind \in DeletedKinds
  /\ \A u \in Threads : call[u].on # o
  /\ Returns(t, Nothing)
  /\ obj' = [obj EXCEPT ![o] = Nothing]
  /\ heap' = IF FirstWordIsBlock(o) THEN heap ELSE "corrupt"

-----------------------------------------------------------------------------
(* Calls that read a string *)

\* Another thread is in a call for the same string.
Shared(t, o) == \E u \in Threads \ {t} : call[u].on = o

\* GetStringUTFChars, GetStringUTFLength, GetStringLength, GetStringUTFRegion:
\* the arguments are checked, then the UTF-8 buffer is made anew.
EnterReader(t, o) ==
  /\ heap = "sound" /\ IsString(o)
  /\ call[t].pc = "idle"
  /\ \E op \in Readers :
       call' = [u \in Threads |->
                  IF u = t THEN [op |-> op, on |-> o, pc |-> "check",
                                 overlapped |-> Shared(t, o)]
                  ELSE IF call[u].on = o THEN [call[u] EXCEPT !.overlapped = TRUE]
                  ELSE call[u]]
  /\ UNCHANGED <<obj, result, heap>>

At(t, pc) == heap = "sound" /\ call[t].pc = pc
Goto(t, pc) == call' = [call EXCEPT ![t].pc = pc]
SetUtf8(o, buffer) == obj' = [obj EXCEPT ![o].utf8 = buffer]

\* jstr_utf16_to_utf8 asks whether there is a buffer, and makes one if not.  A
\* buffer that is there always has the length it needs.
CheckBuffer(t) ==
  /\ At(t, "check")
  /\ Goto(t, IF obj[call[t].on].utf8 = NoBuffer THEN "alloc" ELSE "encode")
  /\ UNCHANGED <<obj, result, heap>>

AllocBuffer(t) ==
  /\ At(t, "alloc")
  /\ LET o == call[t].on IN
     \/ \E fresh \in jda_alloc(Len(obj[o].utf16) + 1, {65}) : SetUtf8(o, fresh)
        /\ Goto(t, "encode")
     \/ /\ UNCHANGED obj      \* no memory
        /\ IF call[t].op \in {"GetStringUTFChars", "GetStringUTFRegion"}
           THEN call' = [call EXCEPT ![t] = Idle]
           ELSE Goto(t, "finish")
  /\ UNCHANGED <<result, heap>>

EncodeBuffer(t) ==
  /\ At(t, "encode")
  /\ LET o == call[t].on IN SetUtf8(o, utf16_to_utf8(obj[o].utf16, obj[o].utf8))
  /\ Goto(t, "terminate")
  /\ UNCHANGED <<result, heap>>

TerminateBuffer(t) ==
  /\ At(t, "terminate")
  /\ LET o == call[t].on IN SetUtf8(o, Terminated(obj[o].utf8))
  /\ Goto(t, "finish")
  /\ UNCHANGED <<result, heap>>

\* The copy that GetStringUTFChars returns: utf8->len bytes in a block of
\* utf16->len + 1.
Utf8Copy(t, o) ==
  [kind |-> "copy", copy |-> obj[o].utf8, room |-> Len(obj[o].utf16) + 1, text |-> obj[o].text,
   made |-> obj[o].made, overlapped |-> call[t].overlapped]

\* GetStringUTFRegion copies from the address of the buffer's header and not
\* from the buffer; GetStringChars has made its copy, of units that may never
\* have been written, before the conversion.
FinishReader(t) ==
  /\ At(t, "finish")
  /\ LET o == call[t].on IN
     result' = IF call[t].op = "GetStringUTFChars" THEN Utf8Copy(t, o)
               ELSE IF call[t].op \in {"GetStringLength", "GetStringUTFLength"}
                 THEN [kind |-> "length", length |-> Len(obj[o].utf16)]
               ELSE Nothing
  /\ call' = [call EXCEPT ![t] = Idle]
  /\ UNCHANGED <<obj, heap>>

Reading(t) ==
  CheckBuffer(t) \/ AllocBuffer(t) \/ EncodeBuffer(t) \/ TerminateBuffer(t) \/ FinishReader(t)

JniNext ==
  \E t \in Threads :
    \/ \E o \in Objects :
         \/ FindClass(t, o) \/ NewArray(t, o) \/ ArrayRegion(t, o) \/ ArrayElements(t, o)
         \/ NewStringUTF(t, o) \/ NewString(t, o)
         \/ CallMethod(t, o) \/ CallNonvirtualMethod(t, o) \/ CallStaticMethod(t, o)
         \/ NewObject(t, o)
         \/ NewRef(t, o) \/ DeleteRef(t, o) \/ DeleteGlobalRef(t, o)
         \/ GetStringCritical(t, o) \/ GetStringRegion(t, o) \/ EnterReader(t, o)
    \/ CallOtherMethod(t) \/ CallNonvirtualOtherMethod(t) \/ CallStaticOtherMethod(t)
    \/ GetMethodID(t) \/ GetStaticMethodID(t) \/ GetFieldID(t) \/ GetField(t) \/ SetField(t) \/ StaticField(t)
    \/ MonitorEnter(t) \/ AttachCurrentThread(t) \/ Throw(t) \/ ExceptionCheck(t)
    \/ FatalError(t) \/ Aborted
    \/ Reading(t)

JniSpec == JniInit /\ [][JniNext]_jniVars

-----------------------------------------------------------------------------
(* Properties *)

Ascii(text) == \A i \in DOMAIN text : text[i] < 128

\* What GetStringUTFChars returns is the text NewStringUTF was given, whatever
\* the units beyond its characters hold, and also when another thread reads
\* the same string, provided the text is ASCII.  And the copy fits into the
\* block that was allocated for it: the lengths of the two buffers of a string
\* agree, on whichever way it came into being.
CopyIsExact ==
  result.kind = "copy" =>
    /\ Len(result.copy) <= result.room
    /\ /\ result.made = "utf8"
       /\ result.overlapped => Ascii(result.text)
       => result.copy = result.text \o <<0>>

\* A method that is called by a number of the table and by the type the table
\* declares runs: the tables of names and of implementations agree.
EveryMethodAnswers == result.kind = "default" => ~result.promised
=============================================================================
