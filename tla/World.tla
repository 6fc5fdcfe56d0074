-------------------------------- MODULE World --------------------------------
(***************************************************************************)
(* The hook that loads the textures of a world (worldAllocateSegments.h)   *)
(* and the textures it creates (texture_decomp.h, texture_palette.h).  The *)
(* loader reads and decodes one chunk of the .tex file after another and   *)
(* creates each texture under the loading mutex, while the thread of the   *)
(* loading screen draws.  Memory may be refused wherever it is allocated.  *)
(***************************************************************************)
EXTENDS SoHook, Huffman

CONSTANTS
  Worlds,       \* [name, chunks, file] of each world that may be loaded
  Word,         \* 2^32
  Memory,       \* no larger block can be allocated
  Loader, Screen

\* The width and the height of a texture have 16 bits.
Sizes == 0 .. 65535

\* A texture's pixels are in a canonical code.
IsTexture(x) ==
  /\ {x.width, x.height} \subseteq Sizes
  /\ IsCode(x.code) /\ x.tables = Tables(x.code)
  /\ \A block \in x.blocks : IsBlock(x.code, block)

\* The header of a world and its .tex file belong together.  A chunk of a file
\* that is not there seems to reach to the end of the address space, and no
\* memory is as large.
ASSUME WorldsAssumption ==
  /\ Word \in Nat \ {0, 1} /\ Memory \in Nat
  /\ \A w \in Worlds :
       /\ w.chunks \in Seq([offset : Nat, flags : Nat])
       /\ w.file = Null =>
            \A i \in DOMAIN w.chunks : w.chunks[i].offset + Memory < Word - 1
       /\ w.file # Null =>
            /\ w.file.size \in 1 .. Word - 1
            /\ \A i \in DOMAIN w.chunks : w.chunks[i].offset < w.file.size
            /\ \A i \in DOMAIN w.chunks :
                 w.chunks[i].flags # 0 /\ w.chunks[i].offset # 0 =>
                   LET chunk == w.file.chunks[w.chunks[i].offset] IN
                   chunk.count \in 1 .. 1000 =>
                     \A k \in 1 .. chunk.count : IsTexture(chunk.textures[k])

\* Worlds are loaded on one thread, and the other draws the loading screen.
ASSUME ThreadsAssumption ==
  HookThreads = {Loader, Screen} /\ Loader # Screen /\ Null \notin HookThreads

VARIABLES
  disc,       \* the world that is loaded, as its files have it
  world,      \* its header: allocated, chunks
  pc,         \* where worldAllocateSegments is
  heap,       \* the buffers that it has allocated
  tex_file,   \* whether the .tex file is open
  saved,      \* the offsets and sizes of the chunks
  at,         \* the chunk and the texture that are being loaded
  range,      \* what was read last: offset, size
  temp,       \* the texture that was decoded last
  textures,   \* what was created of each chunk
  mutex,      \* who has the loading mutex
  denied      \* memory was refused

worldVars == <<disc, world, pc, heap, tex_file, saved, at, range, temp, textures, mutex, denied>>

-----------------------------------------------------------------------------
(* Textures *)

Largest(a, b) == IF a >= b THEN a ELSE b

alignDimension(dimension) == Largest(32, 32 * ((dimension + 31) \div 32))

XGBytesPerPixelFromFormat(format) ==
  CASE format \in {"P8", "L8"} -> 1
    [] format \in {"R5G6B5", "A8L8"} -> 2
    [] format = "A8R8G8B8" -> 4
    [] OTHER -> 0                         \* compressed

PowersOfTwo == {1, 2, 4, 8, 16, 32, 64, 128, 256, 512, 1024, 2048, 4096, 8192, 16384, 32768}

\* The width rounded up to a power of two, in bytes.
Pitch(width, format) ==
  LET half == (width + 1) \div 2
      power == 2 * First({p \in PowersOfTwo : p >= half})
      bytes == XGBytesPerPixelFromFormat(format)
  IN  Largest(64, IF bytes = 0 THEN power \div 2 ELSE power * bytes)

\* XGSetTextureHeader: a palette texture has its width as its pitch.
HeaderPitch(width, format) ==
  IF format = "P8" /\ width > 64 THEN width ELSE Pitch(width, format)

D3DDevice_CreateTexture2(width, height, format) ==
  [width |-> width, height |-> height, pitch |-> HeaderPitch(width, format),
   room |-> Pitch(width, format) * height]

-----------------------------------------------------------------------------
(* The .tex file *)

Chunk(offset) == disc.file.chunks[offset]

\* The size of the file; what the seek in a file that is not there returns.
file_size == IF disc.file = Null THEN Word - 1 ELSE disc.file.size

\* Mutant: the first larger offset of the list, which need not be the next one.
FirstLarger(offsets, i) ==
  LET after == SelectSeq(offsets, LAMBDA o : o > offsets[i])
  IN  IF after = <<>> THEN file_size ELSE Head(after)

\* The first saved offset after that of the chunk, or the end of the file.
NextOffset(offsets, i) ==
  LET after == {offsets[j] : j \in DOMAIN offsets} \cap (offsets[i] + 1 .. file_size - 1)
  IN  IF after = {} THEN file_size ELSE First(after)

ChunkSize(offsets, i) ==
  IF offsets[i] = 0 THEN 0 ELSE (NextOffset(offsets, i) - offsets[i]) % Word

MaxChunkSize(sizes) == Max({0} \cup {sizes[i] : i \in DOMAIN sizes})

-----------------------------------------------------------------------------
(* worldAllocateSegments *)

NoTexture == [pixels |-> <<>>, meant |-> <<>>, width |-> 0, height |-> 0, step |-> 0]

WorldInit ==
  /\ disc = Null
  /\ world = [allocated |-> FALSE, chunks |-> <<>>]
  /\ pc = "idle" /\ heap = {} /\ tex_file = FALSE
  /\ saved = [offsets |-> <<>>, sizes |-> <<>>]
  /\ at = [chunk |-> 1, texture |-> 1]
  /\ range = [offset |-> 0, size |-> 0]
  /\ temp = NoTexture
  /\ textures = <<>>
  /\ mutex = Null /\ denied = FALSE

\* The function returns: whatever it allocated is freed and the file closed.
Leave == heap' = {} /\ tex_file' = FALSE /\ pc' = "idle"

\* A world is loaded once (isAllocated, set before anything can fail).  The
\* lumps it needs are loaded by the game.
worldAllocateSegments ==
  /\ pc = "idle" /\ stack[Loader] = <<>> /\ ~world.allocated
  /\ \E w \in Worlds :
       /\ disc' = w
       /\ world' = [allocated |-> TRUE, chunks |-> w.chunks]
       /\ textures' = [i \in DOMAIN w.chunks |-> <<>>]
       /\ IF w.chunks = <<>> THEN UNCHANGED <<pc, tex_file>> ELSE pc' = "sizes" /\ tex_file' = TRUE
  /\ UNCHANGED <<heap, saved, at, range, temp, mutex, denied>>

AllocateTracking ==
  /\ pc = "sizes"
  /\ \/ denied' = TRUE /\ Leave /\ UNCHANGED saved
     \/ LET offsets == [i \in DOMAIN world.chunks |-> world.chunks[i].offset] IN
        /\ saved' = [offsets |-> offsets,
                     sizes |-> [i \in DOMAIN offsets |-> ChunkSize(offsets, i)]]
        /\ heap' = {"chunk_offsets", "chunk_sizes"}
        /\ pc' = "buffers"
        /\ UNCHANGED <<tex_file, denied>>
  /\ UNCHANGED <<disc, world, at, range, temp, textures, mutex>>

AllocateBuffers ==
  /\ pc = "buffers"
  /\ \/ MaxChunkSize(saved.sizes) = 0 /\ Leave /\ UNCHANGED denied
     \/ denied' = TRUE /\ Leave
     \/ /\ MaxChunkSize(saved.sizes) \in 1 .. Memory
        /\ heap' = heap \cup {"tex_data", "temp_buffer"}
        /\ pc' = "chunk"
        /\ UNCHANGED <<tex_file, denied>>
  /\ UNCHANGED <<disc, world, saved, at, range, temp, textures, mutex>>

\* Mutant: the next chunk begins where the textures of the last one ended.
NextChunkOnly == at' = [at EXCEPT !.chunk = @ + 1]

NextChunk == at' = [chunk |-> at.chunk + 1, texture |-> 1]

Finish ==
  /\ pc = "chunk" /\ at.chunk > Len(world.chunks)
  /\ Leave
  /\ UNCHANGED <<disc, world, saved, at, range, temp, textures, mutex, denied>>

Skipped(i) ==
  \/ world.chunks[i].flags = 0 \/ saved.offsets[i] = 0
  \/ saved.sizes[i] > MaxChunkSize(saved.sizes)

SkipChunk ==
  /\ pc = "chunk" /\ at.chunk <= Len(world.chunks) /\ Skipped(at.chunk)
  /\ NextChunk
  /\ UNCHANGED <<disc, world, pc, heap, tex_file, saved, range, temp, textures, mutex, denied>>

\* The number of textures is the first word of the chunk; the offset in the
\* header becomes the address of their entries, or 0.
ReadChunk ==
  /\ pc = "chunk" /\ at.chunk <= Len(world.chunks) /\ ~Skipped(at.chunk)
  /\ range' = [offset |-> saved.offsets[at.chunk], size |-> saved.sizes[at.chunk]]
  /\ LET count == Chunk(saved.offsets[at.chunk]).count
         Entries(address) == world' = [world EXCEPT !.chunks[at.chunk].offset = address]
     IN  \/ count \notin 1 .. 1000 /\ Entries(0) /\ NextChunk /\ UNCHANGED <<pc, denied>>
         \/ count \in 1 .. 1000 /\ Entries(0) /\ NextChunk /\ denied' = TRUE /\ UNCHANGED pc
         \/ /\ count \in 1 .. 1000
            /\ Entries(Word - at.chunk)     \* an address above every offset
            /\ pc' = "texture"
            /\ UNCHANGED <<at, denied>>
  /\ UNCHANGED <<disc, heap, tex_file, saved, temp, textures, mutex>>

Source == Chunk(range.offset).textures[at.texture]

\* Only "bog1" has its large textures halved, when the buffer can be had and
\* the result is not too small.
Halves(width, height) ==
  /\ disc.name = "bog1"
  /\ width > 256 \/ height > 256
  /\ width \div 2 >= 64 /\ height \div 2 >= 64

\* The steps are numbers of 16.16 bits.
Step(from, to) == (from * 2^16) \div to
Sampled(i, step, from) == First({(i * step) \div 2^16, from - 1})

DecodeTexture ==
  /\ pc = "texture" /\ at.texture <= Chunk(range.offset).count
  /\ LET width == alignDimension(Source.width)
         height == alignDimension(Source.height)
         Decoded(w, h) ==
           \E block \in Source.blocks :
             temp' = [pixels |-> DecodeBlock(Source.tables, block.stream),
                      meant |-> block.pixels, width |-> w, height |-> h,
                      step |-> Step(width, w)]
     IN  \/ ~Halves(width, height) /\ Decoded(width, height) /\ UNCHANGED denied
         \/ Halves(width, height) /\ Decoded(width \div 2, height \div 2) /\ UNCHANGED denied
         \/ Halves(width, height) /\ Decoded(width, height) /\ denied' = TRUE
  /\ pc' = "upload"
  /\ UNCHANGED <<disc, world, heap, tex_file, saved, at, range, textures, mutex>>

ChunkIsDone ==
  /\ pc = "texture" /\ at.texture > Chunk(range.offset).count
  /\ pc' = "chunk" /\ NextChunk
  /\ UNCHANGED <<disc, world, heap, tex_file, saved, range, temp, textures, mutex, denied>>

Load ==
  /\ \/ worldAllocateSegments \/ AllocateTracking \/ AllocateBuffers \/ Finish \/ SkipChunk
     \/ ReadChunk \/ DecodeTexture \/ ChunkIsDone
  /\ UNCHANGED hookVars

-----------------------------------------------------------------------------
(* The upload of a texture *)

loadingVars == <<disc, world, heap, tex_file, saved, at, range, temp, denied>>

lockLoadingMutex(t) == mutex = Null /\ mutex' = t

\* Mutant: the loader does not wait for the mutex.
LockedAtOnce == mutex' = mutex

\* lockLoadingMutex in worldAllocateSegments.
Locked == lockLoadingMutex(Loader)

StartUpload ==
  /\ pc = "upload"
  /\ Locked
  /\ pc' = "create" /\ Call(Loader, "CreateTexture2")
  /\ UNCHANGED <<loadingVars, textures>>

\* A texture that could not be allocated is used all the same.
CreateTexture ==
  /\ pc = "create" /\ stack[Loader] = <<>>
  /\ \/ denied' = TRUE /\ pc' = "crashed" /\ UNCHANGED <<textures, hookVars>>
     \/ /\ textures' = [textures EXCEPT ![at.chunk] =
                          Append(@, D3DDevice_CreateTexture2(temp.width, temp.height, "P8"))]
        /\ pc' = "fill" /\ Call(Loader, "LockRect")
        /\ UNCHANGED denied
  /\ UNCHANGED <<disc, world, heap, tex_file, saved, at, range, temp, mutex>>

\* The decoded pixels are copied as one piece; UnlockRect, releaseLoadingMutex.
FillTexture ==
  /\ pc = "fill" /\ stack[Loader] = <<>>
  /\ mutex' = IF mutex = Loader THEN Null ELSE mutex
  /\ pc' = "texture" /\ at' = [at EXCEPT !.texture = @ + 1]
  /\ UNCHANGED <<disc, world, heap, tex_file, saved, range, temp, textures, denied, hookVars>>

-----------------------------------------------------------------------------
(* External: the rest of the game.  The thread that loads worlds also adds    *)
(* tasks; the other one draws, and creates textures under the same mutex.     *)

CallCore ==
  /\ pc = "idle" /\ stack[Loader] = <<>> /\ \E f \in Loading : Call(Loader, f)
  /\ UNCHANGED worldVars

Draw ==
  /\ stack[Screen] = <<>> /\ \E f \in Drawing : Call(Screen, f)
  /\ UNCHANGED worldVars

ScreenLocks ==
  /\ stack[Screen] = <<>> /\ mutex # Screen /\ lockLoadingMutex(Screen)
  /\ UNCHANGED <<loadingVars, pc, textures, hookVars>>

ScreenCreates ==
  /\ stack[Screen] = <<>> /\ mutex = Screen
  /\ \E f \in {"CreateTexture2", "LockRect"} : Call(Screen, f)
  /\ UNCHANGED worldVars

ScreenReleases ==
  /\ stack[Screen] = <<>> /\ mutex = Screen /\ mutex' = Null
  /\ UNCHANGED <<loadingVars, pc, textures, hookVars>>

InHooks == UNCHANGED worldVars /\ \E t \in {Loader, Screen} : HookStep(t)

PlayWorld ==
  /\ pc # "crashed"
  /\ \/ Load \/ StartUpload \/ CreateTexture \/ FillTexture
     \/ CallCore \/ Draw \/ ScreenLocks \/ ScreenCreates \/ ScreenReleases \/ InHooks

-----------------------------------------------------------------------------
(* Properties *)

\* Every chunk is read whole and without the next one, in whatever order the
\* header has the chunks: from its offset in the file to the next offset that
\* any chunk has, or to the end of the file.
ChunksAreReadWhole ==
  pc = "texture" =>
    LET chunks == disc.chunks
        after == {chunks[j].offset : j \in DOMAIN chunks} \cup {disc.file.size}
    IN  /\ range.offset = chunks[at.chunk].offset
        /\ range.offset + range.size \in after
        /\ \A next \in after : next <= range.offset \/ next >= range.offset + range.size

\* What is decoded is what was encoded: the fast table, the long codes and the
\* commands that refer to earlier pixels agree on every stream.  A texture that
\* was halved has a pixel of each pair of columns, in their order.
BlocksAreDecoded ==
  /\ temp.pixels = temp.meant
  /\ pc = "upload" =>
       LET from == alignDimension(Source.width)
       IN  \A x \in 0 .. temp.width - 1 :
             (Sampled(x, temp.step, from) * temp.width) \div from = x

\* When the loader returns it has nothing allocated or open and not the mutex,
\* and unless memory was refused every texture of every chunk was created, with
\* room for the pixels that were copied to it.
LoadedUnlessDenied ==
  world.allocated /\ pc = "idle" =>
    /\ heap = {} /\ ~tex_file /\ mutex # Loader
    /\ denied \/ \A i \in DOMAIN disc.chunks :
         LET count == IF disc.chunks[i].flags = 0 \/ disc.chunks[i].offset = 0 THEN 0
                      ELSE Chunk(disc.chunks[i].offset).count
         IN  /\ count \in 1 .. 1000 => Len(textures[i]) = count
             /\ \A k \in DOMAIN textures[i] :
                  textures[i][k].width * textures[i][k].height <= textures[i][k].room
=============================================================================
