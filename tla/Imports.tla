------------------------------ MODULE Imports ------------------------------
(***************************************************************************)
(* What the game imports (source/dynlib.c): default_dynlib links every     *)
(* import to one of several libraries that know nothing of each other.     *)
(* newlib and sceLibc have streams of their own, fios and the emulated     *)
(* eventfds and pipes have file numbers of their own, vitaGL frees what    *)
(* newlib allocated.  An entry is modelled by what it makes, uses or ends; *)
(* entries that deal in plain values only (mathematics, characters, time)  *)
(* are left out.                                                           *)
(*                                                                         *)
(* The build is the default one, with USE_SCELIBC_IO.                      *)
(***************************************************************************)
EXTENDS Descriptors

CONSTANT MaxHeld        \* bound: how many things the game has at a time

\* As many as the pool of eventfds, or that of pipes, has places for.
ASSUME MaxHeldAssumption == MaxHeld \in Nat /\ MaxHeld <= 64

Layers == {"newlib", "sceLibc", "vitaGL", "openal", "vitasdk", "port"}

\* One import: the library it is linked to, the kind of thing it makes, or
\* the kind it takes and whether that is its end.
Makes(layer, kind) == [by |-> layer, makes |-> kind, takes |-> "none", ends |-> FALSE]
Uses(layer, kind) == [by |-> layer, makes |-> "none", takes |-> kind, ends |-> FALSE]
Ends(layer, kind) == [by |-> layer, makes |-> "none", takes |-> kind, ends |-> TRUE]

-----------------------------------------------------------------------------
(* The table, in its order *)

\* Exceptions and new; delete is free.
CxxRuntime == {Makes("newlib", "exception"), Uses("newlib", "exception"),
               Ends("newlib", "exception"),
               Makes("newlib", "block"), Ends("newlib", "block")}

AssetFunctions == {Makes("port", "asset"), Uses("port", "asset"), Ends("port", "asset")}
ConfigurationFunctions ==
  {Makes("port", "configuration"), Uses("port", "configuration"),
   Ends("port", "configuration")}
StorageFunctions ==
  {Makes("port", "storage"), Uses("port", "storage"), Ends("port", "storage")}

Sockets == {Makes("newlib", "socket"), Uses("newlib", "socket"),
            Makes("newlib", "addresses"), Ends("newlib", "addresses")}

\* free_hooked
FreeHooked == Ends("vitaGL", "block")
Memory == {Makes("newlib", "block"), Uses("newlib", "block"), FreeHooked}

\* mmap allocates zeroed memory, munmap frees it.
MappedMemory == {Makes("port", "mapping"), Ends("port", "mapping")}

\* Mutant: the build without USE_SCELIBC_IO, where only fopen_soloader and
\* fclose_soloader still use sceLibc.
StreamsOfNewlib == {Uses("newlib", "stream")}

StreamFunctions == {Uses("sceLibc", "stream")}

\* fread_soloader, fseek_soloader and ftell_soloader.
StreamWrappers == {Uses("sceLibc", "stream")}

OpenAndCloseStreams == {Makes("sceLibc", "stream"), Ends("sceLibc", "stream")}
Printing == {Uses("sceLibc", "stream"), Uses("newlib", "block")}

Directories == {Makes("newlib", "directory"), Uses("newlib", "directory"),
                Ends("newlib", "directory")}

\* Links that nothing translates: these take or make a stream of newlib
\* (fileno, fseeko, ftello, rewind, tmpfile, __srget, __swbuf, ov_open), and
\* __sF are copies of newlib's three streams.
StrayStreams == {Uses("newlib", "stream"), Makes("newlib", "stream")}

GlObjects == {Makes("vitaGL", "gl object"), Uses("vitaGL", "gl object"),
              Ends("vitaGL", "gl object"), Uses("vitaGL", "block")}

\* What the port leaves out (three functions log the call) touches nothing;
\* those that draw are still vitaGL's when their names say profiled.
DrawWrappers == {Uses("vitaGL", "gl object"), Uses("vitaGL", "block")}

EglFunctions == {Makes("port", "config"), Makes("port", "context"), Makes("port", "surface"),
                 Ends("port", "context"), Ends("port", "surface")}
EglQueries == {Uses("port", "config"), Uses("port", "context"), Uses("port", "surface")}

ThreadFunctions ==
  (UNION {{Makes("port", kind), Uses("port", kind), Ends("port", kind)} :
            kind \in {"mutex", "condition", "semaphore", "attributes"}})
    \cup {Makes("port", "thread"), Ends("port", "thread"),
          Makes("newlib", "key"), Uses("newlib", "key"), Ends("newlib", "key")}

WideStrings == {Uses("newlib", "block")}
Strings == {Uses("newlib", "block"), Makes("newlib", "block")}

\* dlopen_hook gives a fixed handle, dlsym_fake looks at the name only,
\* dlclose does nothing.
Libraries == {Makes("port", "library"), Uses("port", "library"), Ends("port", "library")}

Jumps == {Makes("newlib", "jump buffer"), Uses("newlib", "jump buffer")}

Compression == {Makes("newlib", "zip stream"), Uses("newlib", "zip stream"),
                Ends("newlib", "zip stream"), Uses("newlib", "block")}

Sounds == {Makes("openal", "sound"), Uses("openal", "sound"), Ends("openal", "sound"),
           Uses("openal", "block")}

\* alSourceQueueBuffers_safe gives up when there is no memory at all.
QueueSound(memory) == IF memory THEN {Uses("openal", "sound")} ELSE {}

\* patch_vorbis: each function of the game's own decoder that takes a file, a
\* decoder or a block of one is hooked, so that none of it reaches the other.
SoundFiles == {Makes("vitasdk", "sound file"), Uses("vitasdk", "sound file"),
               Ends("vitasdk", "sound file"), Uses("vitasdk", "block")}

Table ==
  CxxRuntime \cup AssetFunctions \cup ConfigurationFunctions \cup StorageFunctions
    \cup Sockets \cup Memory \cup MappedMemory \cup StreamFunctions
    \cup OpenAndCloseStreams \cup Printing \cup Directories \cup GlObjects
    \cup DrawWrappers
    \cup EglFunctions \cup EglQueries \cup ThreadFunctions \cup WideStrings
    \cup Strings \cup Libraries \cup Jumps \cup Compression \cup Sounds
    \cup QueueSound(TRUE) \cup SoundFiles \cup StreamWrappers

Kinds == {i.makes : i \in Table} \ {"none"}

-----------------------------------------------------------------------------
(* A game that uses what it imports *)

VARIABLES
  held,         \* what the game has: [kind, by, fd], fd = 0 if it is no file
  strays        \* history: <<kind, maker, user>> of a use by another layer

importVars == <<held, strays>>

ImportsInit == held = {} /\ strays = {}

Thing(kind, layer, fd) == [kind |-> kind, by |-> layer, fd |-> fd]
Numbers == {t.fd : t \in held}
Reached(t, layer) ==
  strays' = IF layer = t.by THEN strays ELSE strays \cup {<<t.kind, t.by, layer>>}

MakeThing ==
  /\ Cardinality(held) < MaxHeld
  /\ \E i \in Table :
       /\ i.makes # "none"
       /\ held' = held \cup {Thing(i.makes, i.by, 0)}
  /\ UNCHANGED strays

\* open_soloader, pipe and eventfd.
FileLayers == {"newlib", "fios", "eventfd", "pipe"}
OpenFile ==
  /\ Cardinality(held) < MaxHeld
  /\ \E layer \in FileLayers :
       held' = held \cup {Thing("file", layer, NewNumber(layer, Numbers))}
  /\ UNCHANGED strays

UseThing ==
  /\ \E i \in Table, t \in held : i.takes = t.kind /\ ~i.ends /\ Reached(t, i.by)
  /\ UNCHANGED held

EndThing ==
  \E i \in Table, t \in held :
    /\ i.takes = t.kind /\ i.ends
    /\ Reached(t, i.by)
    /\ held' = held \ {t}

Files == {t \in held : t.kind = "file"}

ReadFile ==
  /\ \E t \in Files : Reached(t, RouteRead(t.fd))
  /\ UNCHANGED held

\* The archive is read only, and the game asks for the size of an asset by
\* AAsset_openFileDescriptor, not by fstat.
WriteFile ==
  /\ \E t \in Files : t.by # "fios" /\ Reached(t, RouteWrite(t.fd))
  /\ UNCHANGED held

SeekFile ==
  /\ \E t \in Files : t.by \in {"newlib", "fios"} /\ Reached(t, Delegate(t.fd))
  /\ UNCHANGED held

QueryFile ==
  /\ \E t \in Files : t.by = "newlib" /\ Reached(t, RouteQuery(t.fd))
  /\ UNCHANGED held

TruncateFile ==
  /\ \E t \in Files : t.by = "newlib" /\ Reached(t, RouteOther(t.fd))
  /\ UNCHANGED held

\* Eventfds and pipes live as long as the program.
CloseFile ==
  \E t \in Files :
    /\ t.by \in {"newlib", "fios"}
    /\ Reached(t, Delegate(t.fd))
    /\ held' = held \ {t}

ImportsNext ==
  \/ MakeThing \/ OpenFile \/ UseThing \/ EndThing
  \/ ReadFile \/ WriteFile \/ SeekFile \/ QueryFile \/ TruncateFile \/ CloseFile

-----------------------------------------------------------------------------
(* Properties *)

\* What one layer can do with the things of another: vitaGL's free looks at
\* the address and gives newlib's blocks back to newlib; and everybody reads
\* and writes plain memory.
Understood == {"block"} \X {"newlib"} \X Layers

\* Whatever the game does with what it has, only a layer that knows the thing
\* gets to see it: no stream of one C library reaches the other, and each
\* file's number leads back to the layer that opened it.
LayersAgree == strays \subseteq Understood
=============================================================================
