------------------------------- MODULE SoLoad -------------------------------
(***************************************************************************)
(* The loader of the Android libraries (so_util.c) and the order in which  *)
(* soloader_init_all (init.c) runs it: for each library its segments are   *)
(* mapped at a fixed address, it is relocated, its imports are resolved,   *)
(* its caches are flushed and its constructors run, before the next one.   *)
(*                                                                         *)
(* Addresses are pages of 4 KB.  What a library's ELF file holds, whether  *)
(* it can be opened and whether the kernel has memory are nondeterministic. *)
(***************************************************************************)
EXTENDS SoHook

CONSTANTS
  Elf,        \* [library -> what its file may hold]
  Dynlib      \* the symbols of default_dynlib

VARIABLES
  stage,      \* where soloader_init_all is: library, step, segment, file
  blocks,     \* the memory blocks that are allocated: first page, pages
  so,         \* the so_module of each library; Null before it is loaded
  list,       \* the libraries from head to tail
  got,        \* what each place that is to be relocated holds
  ready,      \* the libraries whose constructors have been called
  stale,      \* the libraries with patched instructions that were not flushed
  called,     \* the call that is made through a relocated place: by whom, what it holds
  fatal       \* what fatal_error said; Null while the program runs

loadVars == <<stage, blocks, so, list, got, ready, stale, called, fatal>>

-----------------------------------------------------------------------------
(* soloader_init_all *)

Libraries == <<"cpufeatures", "jbejni", "libcpp", "libxmv", "game">>

\* Mutant: jbejni is loaded at +0x10000, though its patch arena needs as much.
LoadPageTight(m) ==
  622592 + CASE m = "cpufeatures" -> 0 [] m = "jbejni" -> 16 [] m = "libcpp" -> 53
             [] m = "libxmv" -> 224 [] m = "game" -> 1024

\* LOAD_ADDRESS + 0x15000 and so on, in pages.
LoadPage(m) ==
  622592 + CASE m = "cpufeatures" -> 0 [] m = "jbejni" -> 21 [] m = "libcpp" -> 53
             [] m = "libxmv" -> 224 [] m = "game" -> 1024

PatchPages == 16          \* PATCH_SZ
MaxDataSegments == 4      \* MAX_DATA_SEG

\* The page of the so_module records in the port's own data; 2^20 pages in all.
OwnPage == 528384
AddressPages == 1048576

Library == stage.library
At(step) == fatal = Null /\ stage.step = step
Goto(step) == stage' = [stage EXCEPT !.step = step]

\* Null is none of the messages.
ASSUME NullAssumption ==
  Null \notin {"open", "memory", "magic", "collision", "sections", "named", "unnamed"}

\* The needed libraries are in the order of the dynamic section.
ASSUME ElfAssumption ==
  \A m \in ToSet(Libraries) : \A file \in Elf[m] : file.needed \in Seq(STRING)

\* The size of a library's file as init.c notes it (10 KB, 38 KB, ...), in pages,
\* and what it may take more of in memory: a segment starts on a page of its own,
\* and .bss is not in the file.
NotedPages(m) ==
  CASE m = "cpufeatures" -> 3 [] m = "jbejni" -> 10 [] m = "libcpp" -> 148
    [] m = "libxmv" -> 347 [] m = "game" -> 514
MorePages == 2

\* Segments are in the order of their addresses and apart, and one of them is the
\* text; "end" is the page, from where the library is loaded, that follows it.
ASSUME SegmentsAssumption ==
  \A m \in ToSet(Libraries) : \A file \in Elf[m] :
    /\ file.segments \in Seq([exec : BOOLEAN, end : Nat \ {0}])
    /\ \A i, j \in DOMAIN file.segments : i < j =>
         /\ file.segments[i].end < file.segments[j].end
         /\ ~(file.segments[i].exec /\ file.segments[j].exec)
    /\ \A i \in DOMAIN file.segments : file.segments[i].end <= NotedPages(m) + MorePages

NoModule == [text |-> Null, data |-> <<>>, next |-> 0, file |-> Null]

Init ==
  /\ stage = [library |-> Libraries[1], step |-> "open", segment |-> 1, file |-> Null]
  /\ blocks = {}
  /\ so = [m \in ToSet(Libraries) |-> NoModule]
  /\ list = <<>>
  /\ got = [m \in ToSet(Libraries) |-> <<>>]
  /\ ready = {} /\ stale = {} /\ called = Null /\ fatal = Null

\* An error code that soloader_init_all sees: fatal_error ends the program.
LoadFails(why) == fatal' = why /\ UNCHANGED <<stage, blocks, so, list>>

-----------------------------------------------------------------------------
(* so_file_load and _so_load *)

\* sceIoOpen, the block for the contents of the file, the magic number.
so_file_load ==
  /\ At("open")
  /\ UNCHANGED <<got, ready, stale>> /\ called' = Null
  /\ \/ LoadFails("open")
     \/ LoadFails("memory")
     \/ \E file \in Elf[Library] :
          \/ ~file.magic /\ LoadFails("magic")
          \/ /\ file.magic
             /\ stage' = [stage EXCEPT !.step = "segments", !.segment = 1, !.file = file]
             /\ UNCHANGED <<blocks, so, list, fatal>>

Block(first, pages) == [first |-> first, pages |-> pages]
PagesOf(b) == b.first .. b.first + b.pages - 1
Segment == stage.file.segments[stage.segment]

\* The patch arena right below the load address, then the text.
TextBlocks ==
  LET text == Block(LoadPage(Library), Segment.end)
  IN  [blocks |-> {text, Block(text.first - PatchPages, PatchPages)},
       module |-> [so[Library] EXCEPT !.text = text.first, !.next = text.first + text.pages]]

\* The block of a data segment goes from the segment before it to its own end.
DataBlocks ==
  LET data == Block(so[Library].next, so[Library].text + Segment.end - so[Library].next)
  IN  [blocks |-> {data},
       module |-> [so[Library] EXCEPT !.data = Append(@, data), !.next = @ + data.pages]]

NoText == ~Segment.exec /\ so[Library].text = Null
TooManyData == ~Segment.exec /\ Len(so[Library].data) >= MaxDataSegments

\* kuKernelAllocMemBlock at a fixed address, which may be taken.
LoadSegment ==
  /\ At("segments") /\ stage.segment <= Len(stage.file.segments)
  /\ ~NoText /\ ~TooManyData
  /\ LET new == IF Segment.exec THEN TextBlocks ELSE DataBlocks
         taken == \E b \in new.blocks, c \in blocks : PagesOf(b) \cap PagesOf(c) # {}
     IN  \/ LoadFails("memory")
         \/ taken /\ LoadFails("collision")
         \/ /\ ~taken
            /\ blocks' = blocks \cup new.blocks
            /\ so' = [so EXCEPT ![Library] = new.module]
            /\ stage' = [stage EXCEPT !.segment = @ + 1]
            /\ UNCHANGED <<list, fatal>>
  /\ UNCHANGED <<got, ready, stale>> /\ called' = Null

\* Data before the text, or too many data segments, are given up, but the
\* result is no error code: soloader_init_all goes on with a library that is
\* not in the list and has no relocations and no constructors.
GiveUp ==
  /\ At("segments") /\ stage.segment <= Len(stage.file.segments)
  /\ NoText \/ TooManyData
  /\ blocks' = IF NoText THEN blocks
               ELSE {b \in blocks : b.first < LoadPage(Library)}   \* the arena is left
  /\ Goto("relocate")
  /\ UNCHANGED <<so, list, got, ready, stale, fatal>> /\ called' = Null

\* The sections are found by their names; the module is added to the list.
FindSections ==
  /\ At("segments") /\ stage.segment > Len(stage.file.segments)
  /\ IF ~stage.file.sections THEN LoadFails("sections") /\ UNCHANGED got
     ELSE /\ so' = [so EXCEPT ![Library].file = stage.file]
          /\ list' = Append(list, Library)
          /\ got' = [got EXCEPT ![Library] = [i \in DOMAIN stage.file.relocations |-> "raw"]]
          /\ Goto("relocate")
          /\ UNCHANGED <<blocks, fatal>>
  /\ UNCHANGED <<ready, stale, called>>

-----------------------------------------------------------------------------
(* Relocation and imports.  A place holds "raw" (what the file holds), "own"  *)
(* (an address in the library), "table" (a function of default_dynlib),       *)
(* "stub" (plt0_stub), or the library that exports the symbol.                *)

Relocations(m) == IF so[m].file = Null THEN <<>> ELSE so[m].file.relocations

Imports(r) == r.type \in {"ABS32", "GLOB_DAT", "JUMP_SLOT"} /\ ~r.defined

so_relocate ==
  /\ At("relocate")
  /\ got' = [got EXCEPT ![Library] =
               [i \in DOMAIN @ |-> IF Imports(Relocations(Library)[i]) THEN @[i] ELSE "own"]]
  /\ Goto("resolve")
  /\ UNCHANGED <<blocks, so, list, ready, stale, called, fatal>>

\* so_symbol for each of the needed libraries that are in the list; the first
\* that has the symbol, or Null.
so_resolve_link(m, symbol) ==
  LET needed == so[m].file.needed
      found == {i \in DOMAIN needed : /\ needed[i] # m /\ needed[i] \in ToSet(list)
                                      /\ symbol \in so[needed[i]].file.exports}
  IN  IF found = {} THEN Null ELSE needed[Min(found)]

\* Mutant: what is missing is left as it is in the file.
NoStub(m, r) ==
  LET link == so_resolve_link(m, r.symbol)
  IN  IF r.symbol \in Dynlib THEN "table" ELSE IF link # Null THEN link ELSE "raw"

\* The table is searched last, but what it holds replaces what was found.
Resolved(m, r) ==
  LET link == so_resolve_link(m, r.symbol)
  IN  IF r.symbol \in Dynlib THEN "table"
      ELSE IF link # Null THEN link
      ELSE IF r.type = "JUMP_SLOT" THEN "stub"
      ELSE "raw"

so_resolve ==
  /\ At("resolve")
  /\ got' = [got EXCEPT ![Library] =
               [i \in DOMAIN @ |-> IF Imports(Relocations(Library)[i])
                                   THEN Resolved(Library, Relocations(Library)[i]) ELSE @[i]]]
  /\ Goto(IF Library = "game" THEN "patch" ELSE "flush")
  /\ UNCHANGED <<blocks, so, list, ready, stale, called, fatal>>

\* so_patch hooks functions of the game and of libxmv.
so_patch ==
  /\ At("patch")
  /\ hook_addr
  /\ stale' = stale \cup {"game", "libxmv"}
  /\ Goto("flush")
  /\ UNCHANGED <<blocks, so, list, got, ready, called, fatal>>

so_flush_caches ==
  /\ At("flush")
  /\ stale' = stale \ {Library}
  /\ Goto("initialize")
  /\ UNCHANGED <<blocks, so, list, got, ready, called, fatal>>

-----------------------------------------------------------------------------
(* Calls through relocated places *)

\* reloc_err looks for the module whose data holds the place.  The upper bound
\* is meant to be the end of the data segment; data_size is an array, and the
\* sum is that many words after it.
reloc_err(place) ==
  LET End(base) == (4 * base + OwnPage) % AddressPages
      found == SelectSeq(list, LAMBDA m : \E i \in DOMAIN so[m].data :
                 place >= so[m].data[i].first /\ place <= End(so[m].data[i].first))
  IN  IF found = <<>> THEN Null ELSE Head(found)

\* The global offset table is in the first data segment.
Place(m) == so[m].data[1].first

\* m calls the i-th place.
CallThrough(m, i) ==
  LET to == got[m][i] IN
  /\ called' = [by |-> m, to |-> to, symbol |-> Relocations(m)[i].symbol,
                ready |-> to \in DOMAIN so => to \in ready, fresh |-> m \notin stale]
  /\ fatal' = IF to # "stub" THEN Null
              ELSE IF reloc_err(Place(m)) = m THEN "named" ELSE "unnamed"

Callable(m) == {i \in DOMAIN got[m] : Relocations(m)[i].type = "JUMP_SLOT"}

NextLibrary ==
  IF Library = "game" THEN [stage EXCEPT !.step = "running", !.file = Null]
  ELSE [stage EXCEPT !.step = "open", !.file = Null,
                     !.library = Libraries[1 + SelectInSeq(Libraries, LAMBDA m : m = @)]]

\* The constructors may call anything that is imported.
so_initialize ==
  /\ At("initialize")
  /\ \/ called' = Null /\ UNCHANGED fatal
     \/ \E i \in Callable(Library) : CallThrough(Library, i)
  /\ IF fatal' # Null THEN UNCHANGED <<stage, ready>>
     ELSE ready' = ready \cup {Library} /\ stage' = NextLibrary
  /\ UNCHANGED <<blocks, so, list, got, stale>>

\* The program runs.
Run ==
  /\ At("running")
  /\ \E m \in ToSet(list) : \E i \in Callable(m) : CallThrough(m, i)
  /\ UNCHANGED <<stage, blocks, so, list, got, ready, stale, hookVars>>

Boot ==
  \/ so_patch
  \/ /\ \/ so_file_load \/ LoadSegment \/ GiveUp \/ FindSections \/ so_relocate \/ so_resolve
        \/ so_flush_caches \/ so_initialize
     /\ UNCHANGED hookVars

-----------------------------------------------------------------------------
(* Properties *)

\* A library is loaded where no block of another one is: with the sizes that
\* init.c notes, the load addresses leave room for every patch arena.
LoadsFit == fatal # "collision"

\* No call goes through a place that was not relocated, none runs code of a
\* library whose own constructors have not run, and no code of the game runs
\* before the caches of its patched instructions are flushed.
\* And a symbol that the port replaces is the port's for every library, also
\* when an Android library that was loaded before exports it.
CallsReachReadyCode ==
  called # Null => /\ called.to # "raw" /\ called.ready
                   /\ called.by = "game" => called.fresh
                   /\ called.symbol \in Dynlib => called.to \in {"table", "own"}
===============================================================================
