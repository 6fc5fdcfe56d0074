--------------------------- MODULE RuntimeProofs ---------------------------
(***************************************************************************)
(* Every invariant of the parts of the running port, for any number of     *)
(* threads, files, formats and errors.  One section per part shows that    *)
(* the steps of that part keep its inductive invariant; the last section   *)
(* carries them over to the behaviours of Runtime, in which a step of one  *)
(* part leaves the others alone.                                           *)
(***************************************************************************)
EXTENDS Runtime, Integers, FiniteSetTheorems, WellFoundedInduction, TLAPS

-----------------------------------------------------------------------------
(* Numbers, sets and sequences *)

\* A set of numbers has a smallest one.
LEMMA LeastNumber ==
  ASSUME NEW S \in SUBSET Nat, S # {}
  PROVE  Min(S) \in S /\ \A n \in S : Min(S) <= n
<1>1. \E x \in S : \A y \in S : ~ (<<y, x>> \in OpToRel(<, Nat))
  BY NatLessThanWellFounded, WFMin
<1>2. PICK x \in S : \A y \in S : ~ (y < x)
  BY <1>1 DEF OpToRel
<1>3. \A y \in S : x <= y
  BY <1>2
<1> QED
  BY <1>3 DEF Min

\* A set of numbers up to n has a greatest one, its smallest upper bound.
LEMMA GreatestNumber ==
  ASSUME NEW n \in Nat, NEW S \in SUBSET (0 .. n), S # {}
  PROVE  Max(S) \in S /\ \A y \in S : y <= Max(S)
<1> DEFINE Bounds == {k \in Nat : \A y \in S : y <= k}
<1>1. Bounds \in SUBSET Nat /\ n \in Bounds
  OBVIOUS
<1>2. Min(Bounds) \in Bounds /\ \A k \in Bounds : Min(Bounds) <= k
  BY <1>1, LeastNumber
<1>3. \A y \in S : y <= Min(Bounds)
  BY <1>2
<1>4. Min(Bounds) \in S
  <2> SUFFICES ASSUME Min(Bounds) \notin S PROVE FALSE
    OBVIOUS
  <2>1. \A y \in S : y <= Min(Bounds) - 1
    <3> TAKE y \in S
    <3>1. y <= Min(Bounds) /\ y # Min(Bounds) /\ y \in Nat /\ Min(Bounds) \in Nat
      BY <1>2, <1>3
    <3> HIDE DEF Bounds
    <3> QED
      BY <3>1
  <2>2. Min(Bounds) - 1 \in Nat
    <3>1. PICK y \in S : y \in 0 .. n
      <4>1. \E y \in S : TRUE
        OBVIOUS
      <4> QED
        BY <4>1
    <3>2. y <= Min(Bounds) - 1 /\ Min(Bounds) \in Nat
      BY <2>1, <1>2
    <3> HIDE DEF Bounds
    <3> QED
      BY <3>1, <3>2
  <2>3. Min(Bounds) - 1 \in Bounds
    BY <2>1, <2>2
  <2> QED
    BY <1>2, <2>2, <2>3
<1> HIDE DEF Bounds
<1> QED
  BY <1>3, <1>4 DEF Max

\* A function has no more values than arguments.
LEMMA ValuesAreFew ==
  ASSUME NEW S, IsFiniteSet(S), NEW f
  PROVE  LET T == {f[x] : x \in S} IN IsFiniteSet(T) /\ Cardinality(T) <= Cardinality(S)
<1> DEFINE T == {f[x] : x \in S}
           g == [x \in S |-> f[x]]
<1>1. g \in Surjection(S, T)
  BY DEF Surjection
<1> HIDE DEF g, T
<1>2. IsFiniteSet(T) /\ Cardinality(T) <= Cardinality(S)
  BY <1>1, FS_Surjection
<1> QED
  BY <1>2 DEF T

-----------------------------------------------------------------------------
(* The numbers of files *)

First(layer) == CASE layer = "newlib"  -> 3
                  [] layer = "eventfd" -> 256
                  [] layer = "pipe"    -> 384
                  [] layer = "fios"    -> FirstFios

\* Among the numbers that are looked at there is one more than are in use.
LEMMA NewNumberIsNew ==
  ASSUME NEW layer \in {"newlib", "eventfd", "pipe", "fios"}, NEW used, IsFiniteSet(used)
  PROVE  /\ NewNumber(layer, used) \in First(layer) .. First(layer) + Cardinality(used)
         /\ NewNumber(layer, used) \notin used
<1> DEFINE first == First(layer)
           Wanted == first .. first + Cardinality(used)
<1>1. first \in Nat /\ Cardinality(used) \in Nat
  BY FS_CardinalityType DEF First, FirstFios
<1>2. NewNumber(layer, used) = Min(Wanted \ used)
  BY DEF NewNumber, First
<1> HIDE DEF first
<1>3. IsFiniteSet(Wanted) /\ Cardinality(Wanted) = Cardinality(used) + 1
  BY <1>1, FS_Interval
<1>4. Wanted \ used # {}
  <2> SUFFICES ASSUME Wanted \subseteq used PROVE FALSE
    OBVIOUS
  <2>1. Cardinality(Wanted) <= Cardinality(used)
    BY FS_Subset
  <2> QED
    BY <1>1, <1>3, <2>1
<1>5. Wanted \ used \in SUBSET Nat
  BY <1>1
<1>6. Min(Wanted \ used) \in Wanted \ used
  BY <1>4, <1>5, LeastNumber
<1> QED
  BY <1>2, <1>6 DEF first

-----------------------------------------------------------------------------
(* The import table *)

\* The one layer that makes a kind of thing.
Maker(k) ==
  IF k \in {"thread", "mutex", "asset", "configuration", "storage", "mapping", "config", "context",
            "surface", "condition", "semaphore", "attributes", "library"} THEN "port"
  ELSE IF k = "stream" THEN "sceLibc"
  ELSE IF k = "gl object" THEN "vitaGL"
  ELSE IF k = "sound" THEN "openal"
  ELSE IF k = "sound file" THEN "vitasdk"
  ELSE "newlib"

\* An import of the one layer that makes such things, or of plain memory.
OwnLayer(i) ==
  /\ i.by \in Layers
  /\ i.makes # "none" => i.by = Maker(i.makes)
  /\ i.makes # "file" /\ i.takes # "file"
  /\ i.takes \in {"none", "block"} \/ i.by = Maker(i.takes)

Separate(imports) == \A i \in imports : OwnLayer(i)

LEMMA EntriesOfOneLayer ==
  /\ \A layer \in Layers : \A k : layer = Maker(k) /\ k \notin {"none", "file"} =>
       /\ OwnLayer(Makes(layer, k)) /\ OwnLayer(Uses(layer, k)) /\ OwnLayer(Ends(layer, k))
  /\ \A layer \in Layers : OwnLayer(Uses(layer, "block")) /\ OwnLayer(Ends(layer, "block"))
  BY DEF OwnLayer, Makes, Uses, Ends

\* Every entry of the table is of the one layer that makes what it takes, or
\* takes plain memory.
LEMMA TableIsSeparate == Separate(Table)
<1> USE EntriesOfOneLayer DEF Separate, Maker, Layers
<1>1. Separate(CxxRuntime) /\ Separate(Sockets) /\ Separate(Memory) /\ Separate(MappedMemory)
  BY DEF CxxRuntime, Sockets, Memory, FreeHooked, MappedMemory
<1>2. Separate(AssetFunctions) /\ Separate(ConfigurationFunctions) /\ Separate(StorageFunctions)
  BY DEF AssetFunctions, ConfigurationFunctions, StorageFunctions
<1>3. /\ Separate(StreamFunctions) /\ Separate(StreamWrappers)
      /\ Separate(OpenAndCloseStreams) /\ Separate(Printing) /\ Separate(Directories)
  BY DEF StreamFunctions, StreamWrappers, OpenAndCloseStreams, Printing, Directories
<1>4. /\ Separate(GlObjects) /\ Separate(DrawWrappers) /\ Separate(EglFunctions)
      /\ Separate(EglQueries)
  BY DEF GlObjects, DrawWrappers, EglFunctions, EglQueries
<1>5. Separate(ThreadFunctions)
  <2> DEFINE Kind == {"mutex", "condition", "semaphore", "attributes"}
             Three(k) == {Makes("port", k), Uses("port", k), Ends("port", k)}
             Rest == {Makes("port", "thread"), Ends("port", "thread"),
                      Makes("newlib", "key"), Uses("newlib", "key"), Ends("newlib", "key")}
  <2>1. \A k \in Kind : Separate(Three(k))
    OBVIOUS
  <2>2. Separate(Rest)
    OBVIOUS
  <2>3. ThreadFunctions = (UNION {Three(k) : k \in Kind}) \cup Rest
    BY Zenon DEF ThreadFunctions
  <2> HIDE EntriesOfOneLayer DEF Maker, Layers, Kind, Three, Rest
  <2> QED
    BY <2>1, <2>2, <2>3
<1>6. Separate(WideStrings) /\ Separate(Strings) /\ Separate(Libraries) /\ Separate(Jumps)
  BY DEF WideStrings, Strings, Libraries, Jumps
<1>7. /\ Separate(Compression) /\ Separate(Sounds) /\ Separate(QueueSound(TRUE))
      /\ Separate(SoundFiles)
  BY DEF Compression, Sounds, QueueSound, SoundFiles
<1> QED
  <2> HIDE EntriesOfOneLayer DEF Maker, Layers
  <2> QED
    BY <1>1, <1>2, <1>3, <1>4, <1>5, <1>6, <1>7 DEF Table

NumbersOf(layer) ==
  CASE layer = "newlib"  -> 0 .. 255
    [] layer = "eventfd" -> EventFds
    [] layer = "pipe"    -> PipeFds
    [] layer = "fios"    -> {n \in Nat : n >= FirstFios}

WellMade(t) ==
  \/ t.kind = "file" /\ t.by \in FileLayers /\ t.fd \in NumbersOf(t.by)
  \/ t.kind \notin {"file", "none"} /\ t.by = Maker(t.kind) /\ t.fd = 0

\* What the game has was made by the one layer that makes such things, and is
\* few enough for each layer's numbers to stay apart.
ImportsInv ==
  /\ IsFiniteSet(held) /\ Cardinality(held) <= MaxHeld
  /\ \A t \in held : WellMade(t)
  /\ LayersAgree

\* A number leads back to its layer.
LEMMA RoutesLeadBack ==
  ASSUME NEW layer \in FileLayers, NEW fd \in NumbersOf(layer)
  PROVE  /\ RouteRead(fd) = layer
         /\ layer # "fios" => RouteWrite(fd) = layer
         /\ layer \in {"newlib", "fios"} => Delegate(fd) = layer
<1> USE DEF NumbersOf, RouteRead, RouteWrite, Delegate, EventFds, PipeFds, FirstFios
<1>1. CASE layer = "newlib"
  BY <1>1
<1>2. CASE layer = "eventfd"
  BY <1>2
<1>3. CASE layer = "pipe"
  BY <1>3
<1>4. CASE layer = "fios"
  BY <1>4
<1> QED
  BY <1>1, <1>2, <1>3, <1>4 DEF FileLayers

\* What a thing's own layer does with it is no stray use.
LEMMA ReachedByItsLayer == ASSUME ImportsInv, NEW t, Reached(t, t.by) PROVE LayersAgree'
  BY DEF ImportsInv, Reached, LayersAgree, Understood, Layers

LEMMA HeldShrinks ==
  ASSUME ImportsInv, held' \subseteq held
  PROVE  IsFiniteSet(held') /\ Cardinality(held') <= MaxHeld
<1>1. IsFiniteSet(held') /\ Cardinality(held') <= Cardinality(held)
  BY FS_Subset DEF ImportsInv
<1> QED
  BY <1>1, FS_CardinalityType, MaxHeldAssumption DEF ImportsInv

LEMMA HeldGrows ==
  ASSUME ImportsInv, Cardinality(held) < MaxHeld, NEW t, WellMade(t), held' = held \cup {t}
  PROVE  IsFiniteSet(held') /\ Cardinality(held') <= MaxHeld /\ \A u \in held' : WellMade(u)
<1>1. IsFiniteSet(held')
  BY FS_AddElement DEF ImportsInv
<1>2. Cardinality(held') \in {Cardinality(held), Cardinality(held) + 1}
  BY FS_AddElement DEF ImportsInv
<1>3. Cardinality(held) \in Nat
  BY FS_CardinalityType DEF ImportsInv
<1>4. \A u \in held' : WellMade(u)
  BY DEF ImportsInv
<1> QED
  BY <1>1, <1>2, <1>3, <1>4, MaxHeldAssumption

LEMMA TakenByItsLayer ==
  ASSUME ImportsInv, NEW i \in Table, NEW t \in held, i.takes = t.kind, Reached(t, i.by)
  PROVE  LayersAgree'
<1>1. WellMade(t) /\ i.takes # "none"
  BY DEF ImportsInv, WellMade, FileLayers
<1>2. /\ i.by \in Layers /\ i.takes # "file"
      /\ i.takes \in {"none", "block"} \/ i.by = Maker(i.takes)
  BY TableIsSeparate DEF Separate, OwnLayer
<1>3. t.by = Maker(t.kind)
  BY <1>1, <1>2 DEF WellMade
<1>4. CASE i.takes = "block"
  BY <1>2, <1>3, <1>4 DEF ImportsInv, Reached, LayersAgree, Understood, Maker
<1>5. CASE i.takes # "block"
  BY <1>1, <1>2, <1>3, <1>5, ReachedByItsLayer
<1> QED
  BY <1>4, <1>5

LEMMA ImportsStep == ImportsInv /\ [ImportsNext]_importVars => ImportsInv'
<1> SUFFICES ASSUME ImportsInv, [ImportsNext]_importVars PROVE ImportsInv'
  OBVIOUS
<1>1. CASE MakeThing
  <2>1. PICK i \in Table : i.makes # "none" /\ held' = held \cup {Thing(i.makes, i.by, 0)}
    BY <1>1 DEF MakeThing
  <2>2. WellMade(Thing(i.makes, i.by, 0))
    BY <2>1, TableIsSeparate DEF Separate, OwnLayer, WellMade, Thing
  <2>3. Cardinality(held) < MaxHeld /\ strays' = strays
    BY <1>1 DEF MakeThing
  <2> QED
    BY <2>1, <2>2, <2>3, HeldGrows DEF ImportsInv, LayersAgree
<1>2. CASE OpenFile
  <2>1. PICK layer \in FileLayers :
          held' = held \cup {Thing("file", layer, NewNumber(layer, Numbers))}
    BY <1>2 DEF OpenFile
  <2>2. Cardinality(held) < MaxHeld /\ strays' = strays
    BY <1>2 DEF OpenFile
  <2>3. IsFiniteSet(Numbers) /\ Cardinality(Numbers) <= Cardinality(held)
    <3> DEFINE fdOf == [t \in held |-> t.fd]
    <3>1. Numbers = {fdOf[t] : t \in held}
      BY DEF Numbers
    <3> HIDE DEF fdOf
    <3> QED
      BY <3>1, ValuesAreFew DEF ImportsInv
  <2>4. NewNumber(layer, Numbers) \in First(layer) .. First(layer) + Cardinality(Numbers)
    BY <2>3, NewNumberIsNew DEF FileLayers
  <2>5. Cardinality(Numbers) \in Nat /\ Cardinality(Numbers) < 64
    BY <2>2, <2>3, FS_CardinalityType, MaxHeldAssumption DEF ImportsInv
  <2>6. NewNumber(layer, Numbers) \in NumbersOf(layer)
    BY <2>4, <2>5 DEF FileLayers, First, NumbersOf, EventFds, PipeFds, FirstFios
  <2>7. WellMade(Thing("file", layer, NewNumber(layer, Numbers)))
    BY <2>6 DEF WellMade, Thing
  <2> QED
    BY <2>1, <2>2, <2>7, HeldGrows DEF ImportsInv, LayersAgree
<1>3. CASE UseThing
  <2>1. LayersAgree'
    BY <1>3, TakenByItsLayer DEF UseThing
  <2> QED
    BY <1>3, <2>1 DEF UseThing, ImportsInv
<1>4. CASE EndThing
  <2>1. LayersAgree' /\ held' \subseteq held
    BY <1>4, TakenByItsLayer DEF EndThing
  <2> QED
    BY <2>1, HeldShrinks DEF ImportsInv
<1>5. ASSUME NEW t \in Files, NEW layer, Reached(t, layer), held' \subseteq held,
             \/ layer = RouteRead(t.fd)
             \/ t.by # "fios" /\ layer = RouteWrite(t.fd)
             \/ t.by \in {"newlib", "fios"} /\ layer = Delegate(t.fd)
             \/ t.by = "newlib" /\ layer \in {RouteQuery(t.fd), RouteOther(t.fd)}
      PROVE  ImportsInv'
  <2>1. t.by \in FileLayers /\ t.fd \in NumbersOf(t.by)
    BY DEF ImportsInv, WellMade, Files
  <2>2. layer = t.by
    BY <1>5, <2>1, RoutesLeadBack DEF RouteQuery, RouteOther
  <2> QED
    BY <1>5, <2>2, ReachedByItsLayer, HeldShrinks DEF ImportsInv
<1>6. CASE ReadFile \/ WriteFile
  BY <1>5, <1>6 DEF ReadFile, WriteFile
<1>7. CASE SeekFile \/ QueryFile \/ TruncateFile
  BY <1>5, <1>7 DEF SeekFile, QueryFile, TruncateFile
<1>8. CASE CloseFile
  BY <1>5, <1>8 DEF CloseFile
<1>9. CASE UNCHANGED importVars
  BY <1>9 DEF importVars, ImportsInv, LayersAgree
<1> QED
  BY <1>1, <1>2, <1>3, <1>4, <1>6, <1>7, <1>8, <1>9 DEF ImportsNext

LEMMA ImportsStart == ImportsInit => ImportsInv
  BY FS_EmptySet, MaxHeldAssumption DEF ImportsInit, ImportsInv, LayersAgree

-----------------------------------------------------------------------------
(* Assets and files *)

PlaceOf(layer) == IF layer = "newlib" THEN 3 .. 255 ELSE {n \in Nat : n >= FirstFios}

\* Every name that is opened.
Places == Paths \cup {PackedSystemFile}

FilesTypeOK ==
  /\ owner \in [Slots -> [kind : {"none", "asset", "descriptor"},
                          file : Places,
                          fd : Nat, delivered : Seq(Nat)]]
  /\ measuring \in [Slots -> [at : {"no", "end", "back", "open"}, pos : Nat, length : Nat]]
  /\ opened = [fd \in DOMAIN opened |-> [file |-> opened[fd].file, pos |-> opened[fd].pos]]
  /\ \A fd \in DOMAIN opened : opened[fd].pos \in Nat
  /\ fios \in {"off", "on", "failed"}

\* While the length of an asset is found out its position is remembered, and
\* it is where it was before and after.
Measured ==
  \A s \in Slots : measuring[s].at # "no" =>
    /\ IsAsset(s)
    /\ measuring[s].pos = Len(owner[s].delivered)
    /\ measuring[s].at \in {"end", "open"} => opened[owner[s].fd].pos = Len(owner[s].delivered)

FilesInv ==
  /\ FilesTypeOK
  /\ ~Started => DOMAIN opened = {}
  /\ \A fd \in DOMAIN opened : fd \in PlaceOf(LayerOf(opened[fd].file))
  /\ Measured
  /\ AssetReadsInOrder

\* An open file gets a number of its layer that nobody has: there are fewer
\* open files than slots.
LEMMA NewFdIsNew ==
  ASSUME FilesInv, NEW s \in Slots, Free(s), NEW path
  PROVE  NewFd(path) \in PlaceOf(LayerOf(path)) /\ NewFd(path) \notin DOMAIN opened
<1>1. Taken \in SUBSET (Slots \ {s})
  BY DEF Taken
<1>2. IsFiniteSet(Slots \ {s}) /\ Cardinality(Slots \ {s}) = Cardinality(Slots) - 1
  BY FilesAssumption, FS_RemoveElement
<1>3. IsFiniteSet(Taken) /\ Cardinality(Taken) <= Cardinality(Slots) - 1
  BY <1>1, <1>2, FS_Subset
<1>4. IsFiniteSet(DOMAIN opened) /\ Cardinality(DOMAIN opened) <= Cardinality(Taken)
  <2> DEFINE fdOf == [t \in Taken |-> owner[t].fd]
  <2>1. DOMAIN opened = {fdOf[t] : t \in Taken}
    BY DEF FilesInv, AssetReadsInOrder
  <2> HIDE DEF fdOf
  <2> QED
    BY <1>3, <2>1, ValuesAreFew
<1>5. LayerOf(path) \in {"newlib", "fios"}
  BY DEF LayerOf
<1>6. /\ NewFd(path) \in First(LayerOf(path)) .. First(LayerOf(path)) + Cardinality(DOMAIN opened)
      /\ NewFd(path) \notin DOMAIN opened
  BY <1>4, <1>5, NewNumberIsNew DEF NewFd
<1>7. /\ Cardinality(Slots) \in Nat /\ Cardinality(Taken) \in Nat
      /\ Cardinality(DOMAIN opened) \in Nat
      /\ 3 + Cardinality(Slots) <= 256
  BY <1>3, <1>4, FilesAssumption, FS_CardinalityType
<1>8. Cardinality(DOMAIN opened) <= 252
  BY <1>3, <1>4, <1>7
<1> QED
  BY <1>5, <1>6, <1>7, <1>8 DEF First, PlaceOf, FirstFios

\* A number leads back to the layer that opened it.
LEMMA OpenIsPresent ==
  ASSUME FilesInv, NEW fd \in DOMAIN opened
  PROVE  Present(RouteRead(fd), fd) /\ Present(Delegate(fd), fd) /\ fd # 0
<1>1. fd \in PlaceOf(LayerOf(opened[fd].file)) /\ LayerOf(opened[fd].file) \in {"newlib", "fios"}
  BY DEF FilesInv, LayerOf
<1> QED
  BY <1>1 DEF Present, RouteRead, Delegate, PlaceOf, EventFds, PipeFds, FirstFios

\* What a slot that is taken has.
LEMMA TakenFacts ==
  ASSUME FilesInv, NEW s \in Slots, ~Free(s)
  PROVE  /\ s \in Taken /\ owner[s].fd \in DOMAIN opened
         /\ opened[owner[s].fd].file = owner[s].file
         /\ owner[s].delivered \in Seq(Nat)
         /\ owner[s].delivered = [i \in 1 .. Len(owner[s].delivered) |-> i - 1]
         /\ \A t \in Slots : ~Free(t) /\ t # s => owner[t].fd # owner[s].fd
         /\ Quiet(s) \/ measuring[s].at = "open" =>
              opened[owner[s].fd].pos = Len(owner[s].delivered)
<1>1. s \in Taken /\ \A t \in Slots : ~Free(t) => t \in Taken
  BY DEF Taken
<1>2. owner[s].delivered \in Seq(Nat)
  BY DEF FilesInv, FilesTypeOK
<1>3. measuring[s].at = "open" => opened[owner[s].fd].pos = Len(owner[s].delivered)
  BY DEF FilesInv, Measured
<1> QED
  BY <1>1, <1>2, <1>3 DEF FilesInv, AssetReadsInOrder

\* A descriptor is opened and given to a slot that was free.
LEMMA OpeningKeeps ==
  ASSUME FilesInv, Started, NEW s \in Slots, Free(s),
         NEW sort \in {"asset", "descriptor"},
         NEW path \in Places,
         opened' = OpenedWith(NewFd(path), path),
         owner' = [owner EXCEPT ![s] = Owner(sort, path, NewFd(path))],
         \/ measuring' = measuring
         \/ \E t \in Slots : /\ measuring[t].at = "open"
                            /\ measuring' = [measuring EXCEPT ![t] = Idle],
         UNCHANGED <<fios, psarc_exists, mounted>>
  PROVE  FilesInv'
<1> DEFINE fd == NewFd(path)
<1>1. fd \in PlaceOf(LayerOf(path)) /\ fd \notin DOMAIN opened /\ fd \in Nat
  BY NewFdIsNew DEF PlaceOf, FirstFios
<1> HIDE DEF fd
<1>2. /\ DOMAIN opened' = DOMAIN opened \cup {fd}
      /\ opened'[fd] = [file |-> path, pos |-> 0]
      /\ \A n \in DOMAIN opened : opened'[n] = opened[n]
  BY <1>1 DEF OpenedWith, fd
<1>3. /\ owner'[s] = Owner(sort, path, fd)
      /\ \A t \in Slots \ {s} : owner'[t] = owner[t]
  BY DEF fd, FilesInv, FilesTypeOK
<1>4. measuring[s].at = "no"
  BY DEF FilesInv, Measured, Free, IsAsset
<1>5. FilesTypeOK'
  <2>1. owner' \in [Slots -> [kind : {"none", "asset", "descriptor"},
                              file : Places,
                              fd : Nat, delivered : Seq(Nat)]]
    <3>1. Owner(sort, path, fd) \in [kind : {"none", "asset", "descriptor"},
                                     file : Places,
                                     fd : Nat, delivered : Seq(Nat)]
      BY <1>1 DEF Owner
    <3> QED
      BY <3>1 DEF FilesInv, FilesTypeOK, fd
  <2>2. measuring' \in [Slots -> [at : {"no", "end", "back", "open"}, pos : Nat, length : Nat]]
    <3>1. Idle \in [at : {"no", "end", "back", "open"}, pos : Nat, length : Nat]
      BY DEF Idle
    <3> QED
      BY <3>1 DEF FilesInv, FilesTypeOK
  <2>3. opened' = [n \in DOMAIN opened' |-> [file |-> opened'[n].file, pos |-> opened'[n].pos]]
    <3>1. opened' = [n \in DOMAIN opened' |-> opened'[n]]
      BY DEF OpenedWith
    <3>2. \A n \in DOMAIN opened : opened[n] = [file |-> opened[n].file, pos |-> opened[n].pos]
      BY DEF FilesInv, FilesTypeOK
    <3>3. \A n \in DOMAIN opened' : opened'[n] = [file |-> opened'[n].file, pos |-> opened'[n].pos]
      BY <1>2, <3>2
    <3> QED
      BY <3>1, <3>3
  <2> QED
    BY <1>2, <2>1, <2>2, <2>3 DEF FilesInv, FilesTypeOK
<1>6. (\A n \in DOMAIN opened : n \in PlaceOf(LayerOf(opened[n].file)))'
  <2>1. \A p : LayerOf(p)' = LayerOf(p)
    BY DEF LayerOf, InArchive
  <2>2. \A n \in DOMAIN opened' : n \in PlaceOf(LayerOf(opened'[n].file))
    BY <1>1, <1>2 DEF FilesInv
  <2> QED
    BY <2>1, <2>2 DEF LayerOf, InArchive
<1>7. \A t \in Slots :
        \/ measuring'[t] = measuring[t]
        \/ measuring[t].at = "open" /\ measuring'[t] = Idle
  BY DEF FilesInv, FilesTypeOK
<1>8. Taken' = Taken \cup {s} /\ s \notin Taken
  BY <1>3 DEF Taken, Free, Owner
<1>9. Measured'
  <2> SUFFICES ASSUME NEW t \in Slots, measuring'[t].at # "no"
               PROVE  /\ IsAsset(t)'
                      /\ measuring'[t].pos = Len(owner'[t].delivered)
                      /\ measuring'[t].at \in {"end", "open"} =>
                           opened'[owner'[t].fd].pos = Len(owner'[t].delivered)
    BY DEF Measured
  <2>1. t # s /\ measuring'[t] = measuring[t] /\ measuring[t].at # "no"
    BY <1>4, <1>7 DEF Idle
  <2>2. IsAsset(t) /\ owner'[t] = owner[t]
    BY <1>3, <2>1 DEF FilesInv, Measured
  <2>3. owner[t].fd \in DOMAIN opened
    BY <2>2, TakenFacts DEF IsAsset, Free
  <2> QED
    BY <1>2, <2>1, <2>2, <2>3 DEF FilesInv, Measured, IsAsset
<1>10. AssetReadsInOrder'
  <2>1. ASSUME NEW t \in Taken'
        PROVE  /\ owner'[t].delivered = [i \in 1 .. Len(owner'[t].delivered) |-> i - 1]
               /\ owner'[t].fd \in DOMAIN opened'
               /\ opened'[owner'[t].fd].file = owner'[t].file
               /\ Quiet(t)' => opened'[owner'[t].fd].pos = Len(owner'[t].delivered)
    <3>1. CASE t = s
      BY <1>2, <1>3, <3>1 DEF Owner
    <3>2. CASE t # s
      <4>1. t \in Slots /\ ~Free(t) /\ owner'[t] = owner[t]
        BY <1>3, <1>8, <2>1, <3>2 DEF Taken
      <4>2. opened'[owner[t].fd] = opened[owner[t].fd] /\ owner[t].fd \in DOMAIN opened'
        BY <1>2, <4>1, TakenFacts
      <4>3. Quiet(t)' => Quiet(t) \/ measuring[t].at = "open"
        BY <1>7, <4>1 DEF Quiet
      <4> QED
        BY <4>1, <4>2, <4>3, TakenFacts
    <3> QED
      BY <3>1, <3>2
  <2>2. \A t \in Taken' : t # s => owner'[t].fd = owner[t].fd /\ owner[t].fd # fd /\ t \in Taken
    BY <1>1, <1>3, <1>8 DEF FilesInv, AssetReadsInOrder, Taken
  <2>3. owner'[s].fd = fd
    BY <1>3 DEF Owner
  <2>4. \A t, u \in Taken' : t # u => owner'[t].fd # owner'[u].fd
    BY <2>2, <2>3 DEF FilesInv, AssetReadsInOrder
  <2>5. DOMAIN opened' = {owner'[t].fd : t \in Taken'}
    <3>1. DOMAIN opened = {owner[t].fd : t \in Taken}
      BY DEF FilesInv, AssetReadsInOrder
    <3> QED
      BY <1>2, <1>8, <2>2, <2>3, <3>1
  <2> QED
    BY <2>1, <2>4, <2>5 DEF AssetReadsInOrder
<1>11. Started'
  BY DEF Started
<1> QED
  BY <1>5, <1>6, <1>9, <1>10, <1>11 DEF FilesInv

SlotTypes ==
  [kind : {"none", "asset", "descriptor"}, file : Places,
   fd : Nat, delivered : Seq(Nat)]
MeasureTypes == [at : {"no", "end", "back", "open"}, pos : Nat, length : Nat]

\* Only the position of one slot's descriptor, what it has delivered and what
\* is measured of it change.
OneSlotChanges(s, pos) ==
  /\ owner' \in [Slots -> SlotTypes] /\ measuring' \in [Slots -> MeasureTypes]
  /\ opened' = [opened EXCEPT ![owner[s].fd].pos = pos]
  /\ \A t \in Slots \ {s} : owner'[t] = owner[t] /\ measuring'[t] = measuring[t]
  /\ owner'[s].kind = owner[s].kind /\ owner'[s].fd = owner[s].fd
  /\ owner'[s].file = owner[s].file
  /\ owner'[s].delivered = [i \in 1 .. Len(owner'[s].delivered) |-> i - 1]
  /\ measuring'[s].at = "no" \/ (IsAsset(s) /\ measuring'[s].pos = Len(owner'[s].delivered))
  /\ measuring'[s].at \in {"no", "end", "open"} => pos = Len(owner'[s].delivered)
  /\ UNCHANGED <<fios, psarc_exists, mounted>>

LEMMA OneSlotKeeps ==
  ASSUME FilesInv, NEW s \in Slots, ~Free(s), NEW pos \in Nat, OneSlotChanges(s, pos)
  PROVE  FilesInv'
<1> USE DEF OneSlotChanges
<1>1. owner[s].fd \in DOMAIN opened /\ s \in Taken
  BY TakenFacts
<1>2. /\ DOMAIN opened' = DOMAIN opened
      /\ \A n \in DOMAIN opened : opened'[n].file = opened[n].file
      /\ opened'[owner[s].fd].pos = pos
      /\ \A n \in DOMAIN opened \ {owner[s].fd} : opened'[n] = opened[n]
  <2>1. opened[owner[s].fd] = [file |-> opened[owner[s].fd].file, pos |-> opened[owner[s].fd].pos]
    BY <1>1 DEF FilesInv, FilesTypeOK
  <2>2. opened = [n \in DOMAIN opened |-> opened[n]]
    BY DEF FilesInv, FilesTypeOK
  <2> QED
    BY <1>1, <2>1, <2>2
<1>3. FilesTypeOK'
  <2>1. \A n \in DOMAIN opened : opened[n] = [file |-> opened[n].file, pos |-> opened[n].pos]
    BY DEF FilesInv, FilesTypeOK
  <2>2. opened = [n \in DOMAIN opened |-> opened[n]]
    BY DEF FilesInv, FilesTypeOK
  <2>3. opened' = [n \in DOMAIN opened' |-> [file |-> opened'[n].file, pos |-> opened'[n].pos]]
    <3>1. opened' = [n \in DOMAIN opened |-> IF n = owner[s].fd THEN [opened[n] EXCEPT !.pos = pos]
                                                                ELSE opened[n]]
      BY <1>1, <2>2
    <3>2. \A n \in DOMAIN opened : opened'[n] = [file |-> opened'[n].file, pos |-> opened'[n].pos]
      BY <2>1, <3>1
    <3> QED
      BY <1>2, <3>1, <3>2
  <2> QED
    BY <1>2, <2>3 DEF FilesInv, FilesTypeOK, SlotTypes, MeasureTypes
<1>4. (\A n \in DOMAIN opened : n \in PlaceOf(LayerOf(opened[n].file)))'
  <2>1. \A n \in DOMAIN opened' : n \in PlaceOf(LayerOf(opened'[n].file))
    BY <1>2 DEF FilesInv
  <2> QED
    BY <2>1 DEF LayerOf, InArchive
<1>5. /\ \A t \in Slots : owner'[t].kind = owner[t].kind /\ owner'[t].fd = owner[t].fd
      /\ \A t \in Slots : Free(t)' <=> Free(t)
      /\ Taken' = Taken
  BY DEF Taken, Free
<1>6. ASSUME NEW t \in Slots, ~Free(t), t # s
      PROVE  /\ owner'[t] = owner[t] /\ measuring'[t] = measuring[t]
             /\ owner[t].fd \in DOMAIN opened /\ opened'[owner[t].fd] = opened[owner[t].fd]
  <2>1. owner[t].fd \in DOMAIN opened /\ owner[t].fd # owner[s].fd
    BY <1>6, TakenFacts
  <2>2. owner'[t] = owner[t] /\ measuring'[t] = measuring[t]
    BY <1>6
  <2> QED
    BY <1>2, <2>1, <2>2
<1>7. Measured'
  <2> SUFFICES ASSUME NEW t \in Slots, measuring'[t].at # "no"
               PROVE  /\ IsAsset(t)'
                      /\ measuring'[t].pos = Len(owner'[t].delivered)
                      /\ measuring'[t].at \in {"end", "open"} =>
                           opened'[owner'[t].fd].pos = Len(owner'[t].delivered)
    BY DEF Measured
  <2>1. CASE t = s
    BY <1>2, <1>5, <2>1 DEF IsAsset
  <2>2. CASE t # s
    <3>1. measuring[t].at # "no" /\ IsAsset(t) /\ ~Free(t)
      BY <2>2 DEF FilesInv, Measured, IsAsset, Free
    <3> QED
      BY <1>6, <2>2, <3>1 DEF FilesInv, Measured, IsAsset
  <2> QED
    BY <2>1, <2>2
<1>8. AssetReadsInOrder'
  <2>1. ASSUME NEW t \in Taken'
        PROVE  /\ owner'[t].delivered = [i \in 1 .. Len(owner'[t].delivered) |-> i - 1]
               /\ owner'[t].fd \in DOMAIN opened'
               /\ opened'[owner'[t].fd].file = owner'[t].file
               /\ Quiet(t)' => opened'[owner'[t].fd].pos = Len(owner'[t].delivered)
    <3>1. t \in Slots /\ ~Free(t)
      BY <1>5 DEF Taken
    <3>2. CASE t = s
      <4>1. opened'[owner[s].fd].file = owner[s].file
        BY <1>1, <1>2, TakenFacts
      <4>2. Quiet(s)' => opened'[owner[s].fd].pos = Len(owner'[s].delivered)
        BY <1>2 DEF Quiet
      <4> QED
        BY <1>1, <1>2, <3>2, <4>1, <4>2
    <3>3. CASE t # s
      <4>1. /\ owner'[t] = owner[t] /\ measuring'[t] = measuring[t]
            /\ owner[t].fd \in DOMAIN opened /\ opened'[owner[t].fd] = opened[owner[t].fd]
        BY <1>6, <3>1, <3>3
      <4> QED
        BY <1>2, <3>1, <4>1, TakenFacts DEF Quiet
    <3> QED
      BY <3>2, <3>3
  <2>2. \A t, u \in Taken' : t # u => owner'[t].fd # owner'[u].fd
    BY <1>5 DEF FilesInv, AssetReadsInOrder, Taken
  <2>3. DOMAIN opened' = {owner'[t].fd : t \in Taken'}
    <3>1. DOMAIN opened = {owner[t].fd : t \in Taken}
      BY DEF FilesInv, AssetReadsInOrder
    <3>2. \A t \in Taken' : owner'[t].fd = owner[t].fd
      BY <1>5 DEF Taken
    <3> QED
      BY <1>2, <1>5, <3>1, <3>2
  <2> QED
    BY <2>1, <2>2, <2>3 DEF AssetReadsInOrder
<1> QED
  BY <1>2, <1>3, <1>4, <1>7, <1>8 DEF FilesInv, Started

\* A descriptor is closed with its slot.
LEMMA ClosingKeeps ==
  ASSUME FilesInv, NEW s \in Slots, ~Free(s), Quiet(s),
         close_soloader(owner[s].fd), owner' = [owner EXCEPT ![s] = Nobody],
         UNCHANGED <<fios, psarc_exists, mounted, measuring>>
  PROVE  FilesInv'
<1>1. owner[s].fd \in DOMAIN opened /\ s \in Taken
  BY TakenFacts
<1>2. opened' = [n \in DOMAIN opened \ {owner[s].fd} |-> opened[n]]
  BY <1>1, OpenIsPresent DEF close_soloader, ClosedBut
<1>3. owner'[s] = Nobody /\ \A t \in Slots \ {s} : owner'[t] = owner[t]
  BY DEF FilesInv, FilesTypeOK
<1>4. FilesTypeOK'
  <2>1. Nobody \in SlotTypes
    BY DEF Nobody, Places, Paths, SlotTypes
  <2>2. owner' \in [Slots -> SlotTypes]
    BY <2>1 DEF FilesInv, FilesTypeOK, SlotTypes
  <2>3. \A n \in DOMAIN opened : opened[n] = [file |-> opened[n].file, pos |-> opened[n].pos]
    BY DEF FilesInv, FilesTypeOK
  <2>4. opened' = [n \in DOMAIN opened' |-> [file |-> opened'[n].file, pos |-> opened'[n].pos]]
    BY <1>2, <2>3
  <2> QED
    BY <1>2, <2>2, <2>4 DEF FilesInv, FilesTypeOK, SlotTypes
<1>5. (\A n \in DOMAIN opened : n \in PlaceOf(LayerOf(opened[n].file)))'
  <2>1. \A n \in DOMAIN opened' : n \in PlaceOf(LayerOf(opened'[n].file))
    BY <1>2 DEF FilesInv
  <2> QED
    BY <2>1 DEF LayerOf, InArchive
<1>6. Taken' = Taken \ {s}
  BY <1>3 DEF Taken, Free, Nobody
<1>7. ASSUME NEW t \in Slots, ~Free(t), t # s
      PROVE  /\ owner'[t] = owner[t]
             /\ owner[t].fd \in DOMAIN opened' /\ opened'[owner[t].fd] = opened[owner[t].fd]
  BY <1>2, <1>3, <1>7, TakenFacts
<1>8. Measured'
  <2> SUFFICES ASSUME NEW t \in Slots, measuring[t].at # "no"
               PROVE  /\ IsAsset(t)'
                      /\ measuring[t].pos = Len(owner'[t].delivered)
                      /\ measuring[t].at \in {"end", "open"} =>
                           opened'[owner'[t].fd].pos = Len(owner'[t].delivered)
    BY DEF Measured
  <2>1. t # s /\ IsAsset(t) /\ ~Free(t)
    BY DEF FilesInv, Measured, IsAsset, Free, Quiet
  <2> QED
    BY <1>7, <2>1 DEF FilesInv, Measured, IsAsset
<1>9. AssetReadsInOrder'
  <2>1. ASSUME NEW t \in Taken'
        PROVE  /\ owner'[t].delivered = [i \in 1 .. Len(owner'[t].delivered) |-> i - 1]
               /\ owner'[t].fd \in DOMAIN opened'
               /\ opened'[owner'[t].fd].file = owner'[t].file
               /\ Quiet(t)' => opened'[owner'[t].fd].pos = Len(owner'[t].delivered)
    <3>1. t \in Slots /\ ~Free(t) /\ t # s
      BY <1>6 DEF Taken
    <3> QED
      BY <1>7, <3>1, TakenFacts DEF Quiet
  <2>2. \A t, u \in Taken' : t # u => owner'[t].fd # owner'[u].fd
    BY <1>3, <1>6 DEF FilesInv, AssetReadsInOrder, Taken
  <2>3. DOMAIN opened' = {owner'[t].fd : t \in Taken'}
    <3>1. DOMAIN opened = {owner[t].fd : t \in Taken}
      BY DEF FilesInv, AssetReadsInOrder
    <3>2. \A t \in Taken' : owner'[t].fd = owner[t].fd /\ owner[t].fd # owner[s].fd
      BY <1>1, <1>3, <1>6 DEF FilesInv, AssetReadsInOrder, Taken
    <3> QED
      BY <1>2, <1>6, <3>1, <3>2
  <2> QED
    BY <2>1, <2>2, <2>3 DEF AssetReadsInOrder
<1> QED
  BY <1>2, <1>4, <1>5, <1>8, <1>9 DEF FilesInv, Started

LEMMA FilesStep == FilesInv /\ [FilesNext]_filesVars => FilesInv'
<1> SUFFICES ASSUME FilesInv, [FilesNext]_filesVars PROVE FilesInv'
  OBVIOUS
<1>1. CASE FiosInit
  <2>1. fios = "off" /\ fios' \in {"on", "failed"} /\ UNCHANGED <<opened, owner, measuring>>
    BY <1>1 DEF FiosInit
  <2>2. DOMAIN opened = {}
    BY <2>1 DEF FilesInv, Started
  <2>3. (\A n \in DOMAIN opened : n \in PlaceOf(LayerOf(opened[n].file)))'
    BY <2>1, <2>2
  <2>4. AssetReadsInOrder' /\ Measured'
    BY <2>1 DEF FilesInv, AssetReadsInOrder, Measured, Taken, Free, Quiet, IsAsset
  <2> QED
    BY <2>1, <2>2, <2>3, <2>4 DEF FilesInv, FilesTypeOK
<1>2. ASSUME NEW s \in Slots, OpenFd(s) PROVE FilesInv'
  <2>1. PICK path \in Paths :
          /\ opened' = OpenedWith(NewFd(Renamed(path)), Renamed(path))
          /\ owner' = [owner EXCEPT ![s] = Owner("descriptor", Renamed(path), NewFd(Renamed(path)))]
    BY <1>2 DEF OpenFd
  <2>2. Renamed(path) \in Places
    BY DEF Places, Renamed
  <2>3. Started /\ Free(s) /\ UNCHANGED <<fios, psarc_exists, mounted, measuring>>
    BY <1>2 DEF OpenFd
  <2> QED
    BY <2>1, <2>2, <2>3, OpeningKeeps
<1>3. ASSUME NEW s \in Slots, AAssetManager_open(s) PROVE FilesInv'
  <2>1. PICK n \in Resources :
          /\ opened' = OpenedWith(NewFd(Resource(n)), Resource(n))
          /\ owner' = [owner EXCEPT ![s] = Owner("asset", Resource(n), NewFd(Resource(n)))]
    BY <1>3 DEF AAssetManager_open
  <2>2. Resource(n) \in Places
    BY DEF Places, Paths
  <2>3. Started /\ Free(s) /\ UNCHANGED <<fios, psarc_exists, mounted, measuring>>
    BY <1>3 DEF AAssetManager_open
  <2> QED
    BY <2>1, <2>2, <2>3, OpeningKeeps
<1>4. ASSUME NEW s \in Slots, ReadBlock(s) PROVE FilesInv'
  <2> DEFINE fd == owner[s].fd
  <2>1. /\ ~Free(s) /\ Quiet(s)
        /\ opened' = [opened EXCEPT ![fd].pos = @ + 1]
        /\ owner' = [owner EXCEPT ![s].delivered = Append(@, opened[fd].pos)]
        /\ UNCHANGED <<fios, psarc_exists, mounted, measuring>>
    BY <1>4 DEF ReadBlock
  <2>2. /\ opened[fd].pos = Len(owner[s].delivered) /\ owner[s].delivered \in Seq(Nat)
        /\ owner[s].delivered = [i \in 1 .. Len(owner[s].delivered) |-> i - 1]
    BY <2>1, TakenFacts
  <2>3. opened[fd].pos \in Nat
    BY <2>2
  <2>4. /\ owner'[s] = [owner[s] EXCEPT !.delivered = Append(owner[s].delivered, opened[fd].pos)]
        /\ \A t \in Slots \ {s} : owner'[t] = owner[t]
    BY <2>1 DEF FilesInv, FilesTypeOK
  <2>5. owner[s] \in SlotTypes /\ measuring' \in [Slots -> MeasureTypes]
    BY <2>1 DEF FilesInv, FilesTypeOK, SlotTypes, MeasureTypes
  <2>6. /\ owner'[s].kind = owner[s].kind /\ owner'[s].fd = owner[s].fd
        /\ owner'[s].file = owner[s].file
        /\ owner'[s].delivered = Append(owner[s].delivered, opened[fd].pos)
        /\ owner'[s] \in SlotTypes
    <3>1. Append(owner[s].delivered, opened[fd].pos) \in Seq(Nat)
      BY <2>2, <2>3
    <3> HIDE DEF fd
    <3> QED
      BY <3>1, <2>4, <2>5 DEF SlotTypes
  <2>7. owner' \in [Slots -> SlotTypes]
    BY <2>1, <2>4, <2>6 DEF FilesInv, FilesTypeOK, SlotTypes
  <2>8. /\ Len(owner'[s].delivered) = opened[fd].pos + 1
        /\ owner'[s].delivered = [i \in 1 .. Len(owner'[s].delivered) |-> i - 1]
    BY <2>2, <2>3, <2>6
  <2>9. /\ opened' = [opened EXCEPT ![owner[s].fd].pos = opened[fd].pos + 1]
        /\ opened[fd].pos + 1 \in Nat
    BY <2>1, <2>3
  <2>10. measuring'[s].at = "no"
    BY <2>1 DEF Quiet
  <2>11. \A t \in Slots \ {s} : owner'[t] = owner[t] /\ measuring'[t] = measuring[t]
    BY <2>1, <2>4, <2>8
  <2>12. PICK pos \in Nat : pos = Len(owner'[s].delivered) /\ pos = opened[fd].pos + 1
    BY <2>8, <2>9
  <2>13. opened' = [opened EXCEPT ![owner[s].fd].pos = pos]
    BY <2>9, <2>12
  <2>14. /\ ~Free(s) /\ UNCHANGED <<fios, psarc_exists, mounted>>
         /\ owner'[s].delivered = [i \in 1 .. Len(owner'[s].delivered) |-> i - 1]
         /\ measuring'[s].at \in {"no", "end", "open"} => pos = Len(owner'[s].delivered)
         /\ measuring' \in [Slots -> MeasureTypes]
         /\ owner'[s].kind = owner[s].kind /\ owner'[s].fd = owner[s].fd
         /\ owner'[s].file = owner[s].file
    BY <2>1, <2>5, <2>6, <2>8, <2>12
  <2>15. OneSlotChanges(s, pos)
    <3> HIDE DEF fd
    <3>1. UNCHANGED <<fios, psarc_exists, mounted>>
      BY <2>14
    <3> QED
      BY <2>7, <2>10, <2>11, <2>12, <2>13, <2>14, <3>1 DEF OneSlotChanges
  <2> QED
    BY <2>1, <2>15, OneSlotKeeps
<1>5. ASSUME NEW s \in Slots, Close(s) PROVE FilesInv'
  <2>1. ~Free(s) /\ Quiet(s)
    BY <1>5 DEF Close, Free, Quiet, FilesInv, FilesTypeOK, Measured, IsAsset
  <2> QED
    BY <1>5, <2>1, ClosingKeeps DEF Close
<1>6. ASSUME NEW s \in Slots, AAsset_close(s) PROVE FilesInv'
  <2>1. ~Free(s) /\ Quiet(s)
    BY <1>6 DEF AAsset_close, Free, IsAsset
  <2>2. owner[s].fd # 0
    BY <2>1, TakenFacts, OpenIsPresent
  <2> QED
    BY <1>6, <2>1, <2>2, ClosingKeeps DEF AAsset_close
<1>a. ASSUME NEW s \in Slots, ~Free(s)
      PROVE  /\ opened[owner[s].fd].pos \in Nat
             /\ opened = [opened EXCEPT ![owner[s].fd].pos = opened[owner[s].fd].pos]
             /\ Len(owner[s].delivered) \in Nat
             /\ owner[s].delivered = [i \in 1 .. Len(owner[s].delivered) |-> i - 1]
             /\ owner \in [Slots -> SlotTypes] /\ measuring \in [Slots -> MeasureTypes]
  <2>1. owner[s].fd \in DOMAIN opened
    BY <1>a, TakenFacts
  <2>2. opened[owner[s].fd] = [file |-> opened[owner[s].fd].file, pos |-> opened[owner[s].fd].pos]
    BY <2>1 DEF FilesInv, FilesTypeOK
  <2>3. opened = [n \in DOMAIN opened |-> opened[n]]
    BY DEF FilesInv, FilesTypeOK
  <2>4. opened = [opened EXCEPT ![owner[s].fd].pos = opened[owner[s].fd].pos]
    BY <2>1, <2>2, <2>3
  <2>5. Len(owner[s].delivered) \in Nat
    BY <1>a, TakenFacts
  <2> QED
    BY <1>a, <2>1, <2>4, <2>5, TakenFacts DEF FilesInv, FilesTypeOK, SlotTypes, MeasureTypes
<1>7. ASSUME NEW s \in Slots, RememberPosition(s) PROVE FilesInv'
  <2>1. /\ IsAsset(s) /\ Quiet(s) /\ ~Free(s)
        /\ measuring' = [measuring EXCEPT
             ![s] = [at |-> "end", pos |-> opened[owner[s].fd].pos, length |-> 0]]
        /\ UNCHANGED <<fios, psarc_exists, mounted, disk, opened, owner>>
    BY <1>7 DEF RememberPosition, IsAsset, Free
  <2>2. opened[owner[s].fd].pos = Len(owner[s].delivered)
    BY <2>1, TakenFacts
  <2>3. /\ measuring'[s] = [at |-> "end", pos |-> opened[owner[s].fd].pos, length |-> 0]
        /\ \A t \in Slots \ {s} : measuring'[t] = measuring[t]
    BY <1>a, <2>1
  <2>4. measuring' \in [Slots -> MeasureTypes]
    BY <1>a, <2>1 DEF MeasureTypes
  <2>5. OneSlotChanges(s, opened[owner[s].fd].pos)
    BY <1>a, <2>1, <2>2, <2>3, <2>4 DEF OneSlotChanges
  <2> QED
    BY <1>a, <2>1, <2>2, <2>5, OneSlotKeeps
<1>b. ASSUME NEW s \in Slots, measuring[s].at # "no"
      PROVE  IsAsset(s) /\ ~Free(s) /\ measuring[s].pos = Len(owner[s].delivered)
             /\ (measuring[s].at = "open" => opened[owner[s].fd].pos = Len(owner[s].delivered))
  BY <1>b DEF FilesInv, Measured, IsAsset, Free
<1>8. ASSUME NEW s \in Slots, SeekToEnd(s) PROVE FilesInv'
  <2>1. /\ measuring[s].at = "end"
        /\ opened' = [opened EXCEPT ![owner[s].fd].pos = Size]
        /\ measuring' = [measuring EXCEPT ![s].at = "back", ![s].length = Size]
        /\ UNCHANGED <<fios, psarc_exists, mounted, disk, owner>>
    BY <1>8 DEF SeekToEnd
  <2>2. IsAsset(s) /\ ~Free(s) /\ measuring[s].pos = Len(owner[s].delivered) /\ Size \in Nat
    BY <1>b, <2>1, FilesAssumption
  <2>3. /\ measuring'[s].at = "back" /\ measuring'[s].pos = measuring[s].pos
        /\ measuring' \in [Slots -> MeasureTypes]
        /\ \A t \in Slots \ {s} : measuring'[t] = measuring[t]
    BY <1>a, <2>1, <2>2 DEF MeasureTypes
  <2>5. OneSlotChanges(s, Size)
    BY <1>a, <2>1, <2>2, <2>3 DEF OneSlotChanges
  <2> QED
    BY <1>a, <2>1, <2>2, <2>5, OneSlotKeeps
<1>9. ASSUME NEW s \in Slots, SeekBack(s) PROVE FilesInv'
  <2>1. /\ measuring[s].at = "back"
        /\ opened' = [opened EXCEPT ![owner[s].fd].pos = measuring[s].pos]
        /\ measuring' = [measuring EXCEPT ![s].at = "open"]
        /\ UNCHANGED <<fios, psarc_exists, mounted, disk, owner>>
    BY <1>9 DEF SeekBack, PositionAfterwards
  <2>2. IsAsset(s) /\ ~Free(s) /\ measuring[s].pos = Len(owner[s].delivered)
    BY <1>b, <2>1
  <2>3. /\ measuring'[s].at = "open" /\ measuring'[s].pos = measuring[s].pos
        /\ measuring' \in [Slots -> MeasureTypes]
        /\ \A t \in Slots \ {s} : measuring'[t] = measuring[t]
    BY <1>a, <2>1, <2>2 DEF MeasureTypes
  <2>5. OneSlotChanges(s, measuring[s].pos)
    BY <1>a, <2>1, <2>2, <2>3 DEF OneSlotChanges
  <2> QED
    BY <1>a, <2>1, <2>2, <2>5, OneSlotKeeps
<1>10. ASSUME NEW s \in Slots, NEW t \in Slots, OpenAgain(s, t) PROVE FilesInv'
  <2>1. /\ measuring[s].at = "open" /\ Free(t)
        /\ opened' = OpenedWith(NewFd(owner[s].file), owner[s].file)
        /\ owner' = [owner EXCEPT ![t] = Owner("descriptor", owner[s].file, NewFd(owner[s].file))]
        /\ measuring' = [measuring EXCEPT ![s] = Idle]
        /\ UNCHANGED <<fios, psarc_exists, mounted, disk>>
    BY <1>10 DEF OpenAgain
  <2>2. owner[s].fd \in DOMAIN opened
    BY <1>b, <2>1, TakenFacts
  <2>3. Started
    BY <2>2 DEF FilesInv
  <2>4. owner[s].file \in Places
    BY DEF FilesInv, FilesTypeOK
  <2> QED
    BY <2>1, <2>3, <2>4, OpeningKeeps
<1>11. CASE UNCHANGED filesVars
  <2>1. UNCHANGED <<fios, psarc_exists, mounted, opened, owner, measuring>>
    BY <1>11 DEF filesVars
  <2>2. FilesTypeOK' /\ (~Started => DOMAIN opened = {})'
    BY <2>1 DEF FilesInv, FilesTypeOK, Started
  <2>3. (\A n \in DOMAIN opened : n \in PlaceOf(LayerOf(opened[n].file)))'
    BY <2>1 DEF FilesInv, LayerOf, InArchive
  <2>4. AssetReadsInOrder' /\ Measured'
    BY <2>1 DEF FilesInv, AssetReadsInOrder, Measured, Taken, Free, Quiet, IsAsset
  <2> QED
    BY <2>2, <2>3, <2>4 DEF FilesInv
<1> QED
  BY <1>1, <1>2, <1>3, <1>4, <1>5, <1>6, <1>7, <1>8, <1>9, <1>10, <1>11 DEF FilesNext

LEMMA FilesStart == FilesInit => FilesInv
<1> SUFFICES ASSUME FilesInit PROVE FilesInv
  OBVIOUS
<1>1. Nobody \in SlotTypes /\ Idle \in MeasureTypes
  BY DEF Nobody, Places, Paths, SlotTypes, Idle, MeasureTypes
<1>2. FilesTypeOK /\ DOMAIN opened = {}
  BY <1>1 DEF FilesInit, FilesTypeOK, SlotTypes, MeasureTypes
<1>3. Taken = {} /\ Measured
  BY DEF FilesInit, Taken, Free, Nobody, Measured, Idle
<1> QED
  BY <1>2, <1>3 DEF FilesInv, AssetReadsInOrder

-----------------------------------------------------------------------------
(* Tokens *)

Counters ==
  /\ count \in Nat /\ posted \in Nat /\ served \in Nat
  /\ waiting \in [Waiters -> {"no", "forever", "briefly", "timed", "until"}]

TokensInv == Counters /\ TokensConserved

\* Whatever a wait is made of, its first token ends it, with success.
LEMMA WaitsKeepTokens ==
  ASSUME TokensInv, NEW w \in Waiters, BeginWait(w) \/ TakeToken(w) \/ GiveUp(w)
  PROVE  TokensInv'
<1>1. CASE BeginWait(w)
  BY <1>1 DEF BeginWait, TokensInv, Counters, TokensConserved
<1>2. CASE TakeToken(w)
  <2>1. /\ waiting' = [waiting EXCEPT ![w] = "no"]
        /\ served' = IF waiting'[w] = "no" THEN served + 1 ELSE served
        /\ count > 0 /\ count' = count - 1 /\ posted' = posted
    BY <1>2, Zenon DEF TakeToken, AfterToken
  <2> QED
    BY <2>1 DEF TokensInv, Counters, TokensConserved
<1>3. CASE GiveUp(w)
  BY <1>3 DEF GiveUp, TokensInv, Counters, TokensConserved
<1> QED
  BY <1>1, <1>2, <1>3

LEMMA RenderKeepsTokens == ASSUME TokensInv, RenderThread PROVE TokensInv'
<1>1. CASE WaitForMain
  <2>1. /\ waiting' = waiting /\ served' = served + 1
        /\ count > 0 /\ count' = count - 1 /\ posted' = posted
    BY <1>1, Zenon DEF WaitForMain, Render
  <2> QED
    BY <2>1 DEF TokensInv, Counters, TokensConserved
<1>2. CASE AcquireContext \/ ReadCommand \/ ReleaseContext
  BY <1>2 DEF AcquireContext, ReadCommand, ReleaseContext, Render, TokensInv, Counters,
              TokensConserved
<1> QED
  BY <1>1, <1>2 DEF RenderThread

LEMMA SemaphoresStep == TokensInv /\ [SemaphoresNext \/ ThreadsNext]_threadsVars => TokensInv'
<1> SUFFICES ASSUME TokensInv, [SemaphoresNext \/ ThreadsNext]_threadsVars PROVE TokensInv'
  OBVIOUS
<1>1. CASE sem_post
  <2>1. count' = count + 1 /\ posted' = posted + 1 /\ served' = served /\ waiting' = waiting
    BY <1>1, Zenon DEF sem_post
  <2> QED
    BY <2>1 DEF TokensInv, Counters, TokensConserved
<1>2. CASE sem_destroy
  BY <1>2 DEF sem_destroy, TokensInv, Counters, TokensConserved
<1>3. CASE ThreadsNext \/ UNCHANGED threadsVars
  <2>1. UNCHANGED semVars
    BY <1>3 DEF ThreadsNext, threadsVars, pthread_attr_init, pthread_attr_setdetachstate,
                pthread_attr_destroy, pthread_create, ThreadEnds, pthread_join, pthread_detach,
                StartLoadingScreen, DetachLoadingScreen
  <2> QED
    BY <2>1 DEF semVars, TokensInv, Counters, TokensConserved
<1> QED
  BY <1>1, <1>2, <1>3, WaitsKeepTokens, RenderKeepsTokens DEF SemaphoresNext

LEMMA TokensStart == ThreadsInit => TokensInv
  BY DEF ThreadsInit, TokensInv, Counters, TokensConserved

-----------------------------------------------------------------------------
(* Stacks *)

ThreadRecord ==
  [state: {"new", "running", "ended", "gone"}, detached: BOOLEAN, meant: BOOLEAN]

StacksTypeOK ==
  /\ thread \in [Threads -> ThreadRecord]
  /\ attr \in [magic: BOOLEAN, detached: BOOLEAN, meant: BOOLEAN]
  /\ loading \in Threads \cup {"none"}

\* Who is meant to be detached is, the loading screen from the second step of
\* its start on; and nobody ends detached and keeps the stack.
DetachedAsMeant ==
  /\ attr.meant => attr.detached
  /\ \A t \in Threads : thread[t].meant /\ t # loading => thread[t].detached
  /\ \A t \in Threads : thread[t].state = "ended" => ~thread[t].detached

StacksInv == StacksTypeOK /\ DetachedAsMeant

\* The two reversals of setdetachstate cancel out.
LEMMA AttributesKeepStacks ==
  ASSUME StacksInv,
         pthread_attr_init \/ pthread_attr_setdetachstate \/ pthread_attr_destroy
  PROVE  StacksInv'
<1>1. CASE pthread_attr_init
  BY <1>1 DEF pthread_attr_init, NoAttributes, StacksInv, StacksTypeOK, DetachedAsMeant
<1>2. CASE pthread_attr_setdetachstate
  <2>1. PICK state \in BOOLEAN :
          attr' = [magic |-> TRUE, meant |-> state, detached |-> ~~state]
    BY <1>2 DEF pthread_attr_setdetachstate, DetachedInLibrary, Swapped
  <2> QED
    BY <1>2, <2>1
       DEF pthread_attr_setdetachstate, StacksInv, StacksTypeOK, DetachedAsMeant
<1>3. CASE pthread_attr_destroy
  BY <1>3 DEF pthread_attr_destroy, NoAttributes, StacksInv, StacksTypeOK, DetachedAsMeant
<1> QED
  BY <1>1, <1>2, <1>3

LEMMA ThreadsKeepStacks ==
  ASSUME StacksInv, NEW t \in Threads,
         pthread_create(t) \/ ThreadEnds(t) \/ pthread_join(t) \/ pthread_detach(t)
  PROVE  StacksInv'
<1> USE DEF StacksInv, StacksTypeOK, DetachedAsMeant, ThreadRecord
<1>1. CASE pthread_create(t)
  <2>1. PICK d \in BOOLEAN, m \in BOOLEAN :
          /\ m => d
          /\ thread' = [thread EXCEPT ![t] = [state |-> "running", detached |-> d, meant |-> m]]
    <3>1. CASE thread' = [thread EXCEPT ![t] = Running(FALSE, FALSE)]
      BY <3>1 DEF Running
    <3>2. CASE thread' = [thread EXCEPT ![t] = Running(attr.detached, attr.meant)]
      BY <3>2 DEF Running
    <3> QED
      BY <1>1, <3>1, <3>2 DEF pthread_create
  <2>2. loading' = loading /\ (attr' = attr \/ attr' = [attr EXCEPT !.magic = TRUE])
    BY <1>1 DEF pthread_create
  <2> QED
    BY <2>1, <2>2
<1>2. CASE ThreadEnds(t)
  BY <1>2 DEF ThreadEnds
<1>3. CASE pthread_join(t)
  BY <1>3 DEF pthread_join
<1>4. CASE pthread_detach(t)
  BY <1>4 DEF pthread_detach, Detached
<1> QED
  BY <1>1, <1>2, <1>3, <1>4

\* What detaching leaves of a thread.
LEMMA DetachedRecord ==
  ASSUME NEW r \in ThreadRecord
  PROVE  /\ Detached(r) \in ThreadRecord
         /\ Detached(r).detached /\ Detached(r).state # "ended"
         /\ Detached(r).meant = r.meant
BY DEF ThreadRecord, Detached

\* The loading screen may end on either side of the call that detaches it.
LEMMA LoadingKeepsStacks ==
  ASSUME StacksInv, (\E t \in Threads : StartLoadingScreen(t)) \/ DetachLoadingScreen
  PROVE  StacksInv'
<1> USE DEF StacksInv, StacksTypeOK, DetachedAsMeant, ThreadRecord
<1>1. ASSUME NEW t \in Threads, StartLoadingScreen(t) PROVE StacksInv'
  BY <1>1, ThreadsAssumption DEF StartLoadingScreen, Running
<1>2. CASE DetachLoadingScreen
  <2>1. loading \in Threads /\ loading' = "none" /\ attr' = attr
    BY <1>2 DEF DetachLoadingScreen
  <2>2. thread' = [thread EXCEPT ![loading] = Detached(thread[loading])]
    BY <1>2 DEF DetachLoadingScreen
  <2> QED
    BY <2>1, <2>2, DetachedRecord, ThreadsAssumption
<1> QED
  BY <1>1, <1>2

LEMMA ThreadsStep == StacksInv /\ [SemaphoresNext \/ ThreadsNext]_threadsVars => StacksInv'
<1> SUFFICES ASSUME StacksInv, [SemaphoresNext \/ ThreadsNext]_threadsVars PROVE StacksInv'
  OBVIOUS
<1>1. CASE SemaphoresNext \/ UNCHANGED threadsVars
  <2>1. UNCHANGED createVars
    <3>1. CASE RenderThread
      BY <3>1, Zenon DEF RenderThread, Render, AcquireContext, WaitForMain, ReadCommand,
                         ReleaseContext
    <3>2. CASE sem_post \/ sem_destroy
      BY <3>2, Zenon DEF sem_post, sem_destroy
    <3>3. ASSUME NEW w \in Waiters, BeginWait(w) \/ TakeToken(w) \/ GiveUp(w)
          PROVE  UNCHANGED createVars
      BY <3>3, Zenon DEF BeginWait, TakeToken, GiveUp
    <3>4. CASE UNCHANGED threadsVars
      BY <3>4 DEF threadsVars
    <3> QED
      BY <1>1, <3>1, <3>2, <3>3, <3>4 DEF SemaphoresNext
  <2> QED
    BY <2>1 DEF createVars, StacksInv, StacksTypeOK, DetachedAsMeant
<1> QED
  BY <1>1, AttributesKeepStacks, ThreadsKeepStacks, LoadingKeepsStacks DEF ThreadsNext

LEMMA StacksStart == ThreadsInit => StacksInv
  BY DEF ThreadsInit, NotStarted, NoAttributes, StacksInv, StacksTypeOK, ThreadRecord,
         DetachedAsMeant

-----------------------------------------------------------------------------
(* The shader *)

\* The two files go through five states, in this order; the program can be
\* killed in each of them, and no start ever goes back.
OnCard ==
  \/ backup = "missing" /\ shader \in {"missing", "original"}
  \/ backup = "empty" /\ shader = "original"
  \/ backup = "original" /\ shader \in {"original", "empty", "patched"}

\* What the program has read, and how far it has come.
InMemory ==
  /\ patchPc \in {"copy", "fill_backup", "open", "fill_shader"} => data = "original"
  /\ patchPc = "copy" => backup = "missing" /\ shader = "original"
  /\ patchPc = "fill_backup" => backup = "empty" /\ copied = "original"
  /\ patchPc = "open" => backup = "original" /\ shader = "original"
  /\ patchPc = "fill_shader" => backup = "original" /\ shader = "empty"

ShaderInv == OnCard /\ InMemory

LEMMA ShaderStep == ShaderInv /\ [ShaderNext]_shaderVars => ShaderInv'
<1> USE DEF ShaderInv, OnCard, InMemory, Exists, Loaded
<1> SUFFICES ASSUME ShaderInv, [ShaderNext]_shaderVars PROVE ShaderInv'
  OBVIOUS
<1>1. CASE InstallShader
  BY <1>1 DEF InstallShader
<1>2. CASE StartProgram
  BY <1>2 DEF StartProgram
<1>3. CASE LoadShader
  BY <1>3 DEF LoadShader, ToBePatched
<1>4. CASE OpenBackup
  BY <1>4 DEF OpenBackup
<1>5. CASE FillBackup
  BY <1>5 DEF FillBackup
<1>6. CASE OpenShader
  BY <1>6 DEF OpenShader
<1>7. CASE FillShader
  BY <1>7 DEF FillShader, Inserted
<1>8. CASE Stop
  BY <1>8 DEF Stop
<1>9. CASE UNCHANGED shaderVars
  BY <1>9 DEF shaderVars
<1> QED
  BY <1>1, <1>2, <1>3, <1>4, <1>5, <1>6, <1>7, <1>8, <1>9 DEF ShaderNext

LEMMA ShaderStart == ShaderInit => ShaderInv
  BY DEF ShaderInit, ShaderInv, OnCard, InMemory

LEMMA ShaderInvSuffices == ShaderInv => ShaderKept
  BY DEF ShaderInv, OnCard, InMemory, ShaderKept, Exists, Loaded

-----------------------------------------------------------------------------
(* Frames *)

Delivered(n) == [i \in 1 .. n |-> i]

FramesTypeOK ==
  /\ decoded \in Nat
  /\ picture \in [Buffers -> Nat]
  /\ last_src \in Buffers \cup {Null}
  /\ framePc \in {"closed", "idle", "decoding", "copy"}
  /\ drawPc \in {"no", "shader", "video", "game"}

\* A frame is either still in the buffer last_src points at, on its way out of
\* the decoder, or has been delivered.
Delivery ==
  \/ last_src = Null /\ output = Delivered(decoded)
  \/ /\ framePc = "copy" /\ last_src \in Buffers /\ last_height > 0
     /\ decoded > 0 /\ picture[last_src] = decoded
     /\ output = Delivered(decoded - 1)

\* The numbers of a video, once it is open.
Widths ==
  /\ framePc # "closed" => cur_video_width \in {640, 840}
  /\ framePc \in {"decoding", "copy"} => locked = 4 * cur_video_width
  /\ framePc # "closed" /\ rows # 0 => rows = srcStride(cur_video_width)

\* The register of the shader while a draw is prepared.
Drawing ==
  /\ drawPc # "no" => framePc \in {"idle", "closed"}
  /\ drawPc \in {"shader", "game"} => scale = Whole
  /\ drawPc = "video" =>
       /\ framePc # "closed" /\ rows # 0
       /\ scale = <<cur_video_width, hackedW(cur_video_width)>>

FramesInv == FramesTypeOK /\ Delivery /\ Widths /\ Drawing /\ DrawnStraight

LEMMA DeliverNext == ASSUME NEW n \in Nat, n > 0 PROVE Append(Delivered(n - 1), n) = Delivered(n)
<1>1. Delivered(n - 1) \in Seq(Nat) /\ Len(Delivered(n - 1)) = n - 1
  BY DEF Delivered
<1>2. \A i \in 1 .. n : Append(Delivered(n - 1), n)[i] = i
  BY <1>1 DEF Delivered
<1>3. Append(Delivered(n - 1), n) \in Seq(Nat) /\ Len(Append(Delivered(n - 1), n)) = n
  BY <1>1
<1>4. Delivered(n) \in Seq(Nat) /\ Len(Delivered(n)) = n /\ \A i \in 1 .. n : Delivered(n)[i] = i
  BY DEF Delivered
<1> HIDE DEF Delivered
<1> QED
  BY <1>2, <1>3, <1>4

\* The decoder's side: one frame at a time, and only the copy takes it.
LEMMA DecodingKeeps ==
  ASSUME FramesInv,
         \/ sws_getContext \/ CloseVideo \/ D3DTexture_LockRect \/ sws_scale \/ NoFrame
         \/ CopyFrame \/ SkipCopy
  PROVE  FramesInv'
<1> USE DEF FramesInv, FramesTypeOK, Delivery, Widths, Drawing
<1>0. prev_src0 = Null /\ Null \notin Buffers
  BY BuffersAssumption DEF prev_src0
<1>1. drawVars' = drawVars /\ DrawnStraight'
  <2>1. drawVars' = drawVars
    BY DEF sws_getContext, CloseVideo, D3DTexture_LockRect, sws_scale, NoFrame, CopyFrame, SkipCopy
  <2> QED
    BY <2>1 DEF DrawnStraight, drawVars
<1>2. CASE sws_getContext
  BY <1>1, <1>2 DEF sws_getContext, drawVars
<1>3. CASE CloseVideo
  <2>1. picture' \in [Buffers -> Nat]
    BY <1>3 DEF CloseVideo
  <2> QED
    BY <1>1, <1>3, <2>1 DEF CloseVideo, drawVars
<1>4. CASE D3DTexture_LockRect
  <2>1. locked' = 4 * cur_video_width
    BY <1>4 DEF D3DTexture_LockRect, LockedPitch
  <2> QED
    BY <1>1, <1>4, <2>1 DEF D3DTexture_LockRect, drawVars
<1>5. CASE sws_scale
  <2>1. last_src = Null /\ output = Delivered(decoded)
    BY <1>5 DEF sws_scale
  <2>2. decoded' \in Nat /\ decoded' > 0 /\ decoded' - 1 = decoded
    BY <1>5 DEF sws_scale
  <2>3. last_src' \in Buffers /\ picture' \in [Buffers -> Nat] /\ picture'[last_src'] = decoded'
    BY <1>5, <2>2 DEF sws_scale
  <2>4. FramesTypeOK' /\ Delivery'
    BY <1>1, <1>5, <2>1, <2>2, <2>3 DEF sws_scale, drawVars
  <2> QED
    BY <1>1, <1>5, <2>4 DEF sws_scale, drawVars
<1>6. CASE NoFrame
  BY <1>1, <1>6 DEF NoFrame, drawVars
<1>7. CASE CopyFrame
  <2>1. decoded > 0 /\ picture[last_src] = decoded /\ output = Delivered(decoded - 1)
    BY <1>0, <1>7 DEF CopyFrame
  <2>2. output' = Append(Delivered(decoded - 1), decoded)
    <3>1. output' = Append(output, picture[last_src])
      BY <1>7 DEF CopyFrame
    <3> QED
      BY <2>1, <3>1
  <2>3. output' = Delivered(decoded)
    <3>1. decoded \in Nat /\ decoded > 0
      BY <2>1
    <3>2. Append(Delivered(decoded - 1), decoded) = Delivered(decoded)
      BY <3>1, DeliverNext, SMTT(30)
    <3> QED
      BY <2>2, <3>2
  <2>4. FramesTypeOK' /\ Delivery'
    BY <1>1, <1>7, <2>3 DEF CopyFrame, AfterCopy, drawVars
  <2> QED
    BY <1>1, <1>7, <2>4 DEF CopyFrame, drawVars
<1>8. CASE SkipCopy
  BY <1>0, <1>1, <1>8 DEF SkipCopy, drawVars
<1> QED
  BY <1>2, <1>3, <1>4, <1>5, <1>6, <1>7, <1>8

\* Rows of 672 or 880 are what the upload reads, and all it shows.
LEMMA DrawingKeeps ==
  ASSUME FramesInv,
         D3DDevice_SelectVertexShader \/ D3DDevice_SetTexture \/ ProcessAndUploadTexture
  PROVE  FramesInv'
<1> USE DEF FramesInv, FramesTypeOK, Delivery, Widths, Drawing
<1>1. CASE D3DDevice_SelectVertexShader
  BY <1>1 DEF D3DDevice_SelectVertexShader, playVars, DrawnStraight
<1>2. CASE D3DDevice_SetTexture
  BY <1>2 DEF D3DDevice_SetTexture, playVars, DrawnStraight
<1>3. CASE ProcessAndUploadTexture
  <2>1. playVars' = playVars /\ drawPc' = "no"
    BY <1>3 DEF ProcessAndUploadTexture
  <2>2. PICK t \in IF drawPc = "video" THEN {VideoTexture} ELSE GameTextures :
          drawn' = {[texture |-> t, read |-> RowRead(t), shown |-> scale]}
    BY <1>3 DEF ProcessAndUploadTexture
  <2>3. CASE drawPc = "video"
    <3>1. t = [format |-> "video", width |-> cur_video_width, row |-> rows]
      BY <2>2, <2>3 DEF VideoTexture
    <3>2. rows = hackedW(cur_video_width) /\ scale = <<cur_video_width, rows>>
      BY <2>3 DEF srcStride, hackedW
    <3>3. RowRead(t) = rows
      BY <3>1, <3>2 DEF RowRead
    <3>4. DrawnStraight'
      BY <2>2, <3>1, <3>2, <3>3 DEF DrawnStraight
    <3> QED
      BY <2>1, <3>4 DEF playVars
  <2>4. CASE drawPc = "game"
    <3>1. t \in GameTextures /\ scale = Whole
      BY <2>2, <2>4
    <3>2. t.format # "video" /\ RowRead(t) = t.row
      <4>1. CASE t.format = "palette"
        <5>1. PICK w \in {32, 64, 128, 640} :
                t = [format |-> "palette", width |-> w, row |-> HeaderRow(w)]
          BY <3>1, <4>1 DEF GameTextures
        <5>2. t.width = w /\ t.row = HeaderRow(w) /\ HeaderRow(w) = IF w > 64 THEN w ELSE 64
          BY <5>1 DEF HeaderRow
        <5>3. t.width \in {32, 64, 128, 640} /\ t.row = IF t.width = 32 THEN 64 ELSE t.width
          BY <5>2
        <5> QED
          BY <4>1, <5>3 DEF RowRead
      <4>2. CASE t.format = "other"
        BY <4>2 DEF RowRead
      <4> QED
        BY <3>1, <4>1, <4>2 DEF GameTextures
    <3>3. DrawnStraight'
      BY <2>2, <3>1, <3>2 DEF DrawnStraight, Whole
    <3> QED
      BY <2>1, <3>3 DEF playVars
  <2> QED
    BY <1>3, <2>3, <2>4 DEF ProcessAndUploadTexture
<1> QED
  BY <1>1, <1>2, <1>3

LEMMA FramesStart == FramesInit => FramesInv
  BY DEF FramesInit, FramesInv, FramesTypeOK, Delivery, Delivered, Widths, Drawing, DrawnStraight

LEMMA FramesStep == FramesInv /\ [FramesNext]_frameVars => FramesInv'
<1> SUFFICES ASSUME FramesInv, [FramesNext]_frameVars PROVE FramesInv'
  OBVIOUS
<1>1. CASE UNCHANGED frameVars
  BY <1>1 DEF frameVars, playVars, drawVars, FramesInv, FramesTypeOK, Delivery, Widths, Drawing,
              DrawnStraight
<1> QED
  BY <1>1, DecodingKeeps, DrawingKeeps DEF FramesNext

LEMMA FramesInvSuffices == FramesInv => FramesInOrder
<1> SUFFICES ASSUME FramesInv PROVE FramesInOrder
  OBVIOUS
<1>1. framePc \in {"idle", "closed"} => output = Delivered(decoded)
  BY DEF FramesInv, Delivery
<1>2. FrameFits
  BY DEF FramesInv, Widths, FrameFits, srcStride
<1> QED
  BY <1>1, <1>2 DEF FramesInv, FramesInOrder, Delivered

-----------------------------------------------------------------------------
(* The pools of descriptors.  At most one thread is between the compare-   *)
(* and-swap and the end of the creation, it is there exactly while the     *)
(* flag is 1, and a number can only be given once the flag is 2, which it  *)
(* then stays.                                                             *)

PoolsTypeOK ==
  /\ kind \in {"epoll", "eventfd", "pipe"}
  /\ inited \in 0 .. 2
  /\ mutex \in BOOLEAN
  /\ slots \in [Entries -> Int]
  /\ at \in [Callers -> {"idle", "creating", "waiting", "clearing", "finishing", "checking",
                         "admitted"}]
  /\ handed \in [Callers -> SUBSET Nat]

Creating(t) == at[t] \in {"creating", "clearing", "finishing"}

\* The flag is 1 exactly while one thread, and only one, creates the pool.
OneCreator ==
  /\ \A t \in Callers : Creating(t) => inited = 1
  /\ \A t, u \in Callers : Creating(t) /\ Creating(u) => t = u

\* What the creator has done by the time it gets to a place.
CreatedFirst ==
  /\ \A t \in Callers : at[t] \in {"clearing", "finishing"} => mutex
  /\ \A t \in Callers : at[t] = "finishing" => \A s \in Entries : slots[s] = -1

\* What has to hold before anybody is let in, and from then on.
Open ==
  /\ inited = 2 => mutex /\ \A s \in Entries : slots[s] \in {-1, Number(s)}
  /\ inited # 2 => \A t \in Callers : handed[t] = {}
  /\ \A t \in Callers : at[t] = "admitted" => inited = 2

Handed ==
  /\ \A t \in Callers : \A n \in handed[t] : \E s \in Entries : n = slots[s]
  /\ \A t, u \in Callers : t # u => handed[t] \cap handed[u] = {}

PoolsInv == PoolsTypeOK /\ OneCreator /\ CreatedFirst /\ Open /\ Handed

\* A slot's number is its own, and neither a free slot's nor raw memory's.
LEMMA NumbersDiffer ==
  ASSUME kind \in {"epoll", "eventfd", "pipe"}, NEW r \in Entries, NEW s \in Entries
  PROVE  /\ Number(s) \in Nat /\ Number(s) > Raw
         /\ Number(r) = Number(s) => r = s
<1>1. r \in Int /\ s \in Int /\ r >= 1 /\ s >= 1
  BY FdPoolsAssumption DEF Entries
<1>2. Margin[kind] \in Nat /\ Margin[kind] > 0
  BY DEF Margin
<1>3. CASE kind = "pipe"
  BY <1>1, <1>2, <1>3 DEF Number, Raw
<1>4. CASE kind # "pipe"
  BY <1>1, <1>2, <1>4 DEF Number, Raw
<1> QED
  BY <1>3, <1>4

LEMMA PoolsStart == PoolsInit => PoolsInv
<1> SUFFICES ASSUME PoolsInit PROVE PoolsInv
  OBVIOUS
<1> USE DEF PoolsInit
<1>1. PoolsTypeOK
  <2>1. mutex \in BOOLEAN
    BY Zenon
  <2> QED
    BY <2>1 DEF PoolsTypeOK, Raw
<1>2. OneCreator /\ CreatedFirst /\ Open /\ Handed
  BY DEF OneCreator, Creating, CreatedFirst, Open, Handed
<1> QED
  BY <1>1, <1>2 DEF PoolsInv

\* The steps of *_mutex_init_once and the wait for it: only FinishPool sets
\* the flag to 2, and it does so over a pool that is clear.
LEMMA InitOnceKeeps ==
  ASSUME PoolsInv, NEW t \in Callers,
         \/ Arrive(t) \/ (\E refused \in BOOLEAN : CreateMutex(t, refused))
         \/ ClearPool(t) \/ FinishPool(t) \/ StopWaiting(t) \/ Check(t)
  PROVE  PoolsInv'
<1> USE DEF PoolsInv, PoolsTypeOK, OneCreator, Creating, CreatedFirst, Open, Goto
<1>1. CASE Arrive(t)
  <2>1. PoolsTypeOK'
    BY <1>1 DEF Arrive, Elected
  <2>2. (OneCreator /\ CreatedFirst /\ Open)'
    BY <1>1 DEF Arrive, Elected, Number
  <2>3. Handed'
    BY <1>1 DEF Arrive, Handed
  <2> QED
    BY <2>1, <2>2, <2>3
<1>2. ASSUME NEW refused \in BOOLEAN, CreateMutex(t, refused) PROVE PoolsInv'
  <2>1. mutex' \in BOOLEAN
    BY <1>2, Zenon DEF CreateMutex
  <2>2. PoolsTypeOK'
    BY <1>2, <2>1 DEF CreateMutex
  <2>3. (OneCreator /\ CreatedFirst /\ Open)'
    BY <1>2 DEF CreateMutex, Number
  <2>4. Handed'
    BY <1>2 DEF CreateMutex, Handed
  <2> QED
    BY <2>2, <2>3, <2>4
<1>3. CASE ClearPool(t)
  <2>1. PoolsTypeOK'
    BY <1>3 DEF ClearPool
  <2>2. inited = 1 /\ \A u \in Callers : handed[u] = {}
    BY <1>3 DEF ClearPool
  <2>3. (OneCreator /\ CreatedFirst /\ Open)'
    BY <1>3, <2>2 DEF ClearPool
  <2>4. Handed'
    BY <1>3, <2>2 DEF ClearPool, Handed
  <2> QED
    BY <2>1, <2>3, <2>4
<1>4. CASE FinishPool(t)
  <2>1. PoolsTypeOK'
    BY <1>4 DEF FinishPool
  <2>2. (OneCreator /\ CreatedFirst /\ Open)'
    BY <1>4 DEF FinishPool
  <2>3. Handed'
    BY <1>4 DEF FinishPool, Handed
  <2> QED
    BY <2>1, <2>2, <2>3
<1>5. CASE StopWaiting(t)
  <2>1. PoolsTypeOK'
    BY <1>5 DEF StopWaiting
  <2>2. (OneCreator /\ CreatedFirst /\ Open)'
    BY <1>5 DEF StopWaiting, Number
  <2>3. Handed'
    BY <1>5 DEF StopWaiting, Handed
  <2> QED
    BY <2>1, <2>2, <2>3
<1>6. CASE Check(t)
  <2>1. PoolsTypeOK'
    BY <1>6 DEF Check
  <2>2. (OneCreator /\ CreatedFirst /\ Open)'
    BY <1>6 DEF Check, Number
  <2>3. Handed'
    BY <1>6 DEF Check, Handed
  <2> QED
    BY <2>1, <2>2, <2>3
<1> QED
  BY <1>1, <1>2, <1>3, <1>4, <1>5, <1>6

\* A number that is given is that of a free slot, so nobody has it.
LEMMA CreateKeeps ==
  ASSUME PoolsInv, NEW t \in Callers, Create(t)
  PROVE  PoolsInv'
<1>1. PICK s \in Unused :
        /\ slots' = [slots EXCEPT ![s] = Number(s)]
        /\ handed' = [handed EXCEPT ![t] = @ \cup {Number(s)}]
  BY DEF Create
<1>2. /\ at[t] = "admitted" /\ at' = [at EXCEPT ![t] = "idle"]
      /\ UNCHANGED <<kind, inited, mutex>>
  BY DEF Create, Goto
<1>3. s \in Entries /\ slots[s] = -1
  BY <1>1 DEF Unused
<1>4. inited = 2
  BY <1>2 DEF PoolsInv, Open
<1>5. \A r \in Entries : Number(r) \in Nat /\ (Number(r) = Number(s) => r = s)
  BY <1>3, NumbersDiffer DEF PoolsInv, PoolsTypeOK
<1>6. \A r \in Entries : Number(r)' = Number(r)
  BY <1>2 DEF Number
<1>7. PoolsTypeOK'
  BY <1>1, <1>2, <1>3, <1>5 DEF PoolsInv, PoolsTypeOK
<1>8. (OneCreator /\ CreatedFirst)'
  BY <1>1, <1>2, <1>4 DEF PoolsInv, PoolsTypeOK, OneCreator, CreatedFirst, Creating
<1>9. Open'
  BY <1>1, <1>2, <1>3, <1>4, <1>6 DEF PoolsInv, PoolsTypeOK, Open
<1>10. \A u \in Callers : Number(s) \notin handed[u]
  BY <1>3, <1>4, <1>5 DEF PoolsInv, Open, Handed
<1>11. Handed'
  <2>1. ASSUME NEW u \in Callers, NEW n \in handed'[u]
        PROVE  \E r \in Entries : n = slots'[r]
    <3>1. CASE n \in handed[u]
      <4>1. PICK r \in Entries : n = slots[r]
        BY <3>1 DEF PoolsInv, Handed
      <4>2. n \in Nat
        BY <3>1 DEF PoolsInv, PoolsTypeOK
      <4> QED
        BY <1>1, <1>3, <4>1, <4>2 DEF PoolsInv, PoolsTypeOK
    <3>2. CASE n = Number(s)
      BY <1>1, <1>3, <3>2 DEF PoolsInv, PoolsTypeOK
    <3> QED
      BY <1>1, <2>1, <3>1, <3>2 DEF PoolsInv, PoolsTypeOK
  <2>2. \A u, w \in Callers : u # w => handed'[u] \cap handed'[w] = {}
    BY <1>1, <1>10 DEF PoolsInv, PoolsTypeOK, Handed
  <2> QED
    BY <2>1, <2>2 DEF Handed
<1> QED
  BY <1>7, <1>8, <1>9, <1>11 DEF PoolsInv

LEMMA PoolsStep == PoolsInv /\ [PoolsNext]_poolVars => PoolsInv'
<1> SUFFICES ASSUME PoolsInv, [PoolsNext]_poolVars PROVE PoolsInv'
  OBVIOUS
<1>1. CASE UNCHANGED poolVars
  BY <1>1 DEF poolVars, PoolsInv, PoolsTypeOK, OneCreator, Creating, CreatedFirst, Open,
              Handed, Number
<1>2. ASSUME NEW t \in Callers, CreateFails(t) \/ LookUp(t) PROVE PoolsInv'
  BY <1>2 DEF CreateFails, LookUp, Goto, PoolsInv, PoolsTypeOK, OneCreator, Creating,
              CreatedFirst, Open, Handed, Number
<1> QED
  BY <1>1, <1>2, InitOnceKeeps, CreateKeeps DEF PoolsNext

LEMMA PoolsInvSuffices == PoolsInv => NumbersStay
<1> SUFFICES ASSUME PoolsInv PROVE NumbersStay
  OBVIOUS
<1>1. ASSUME NEW t \in Callers, at[t] = "admitted"
      PROVE  mutex /\ \A s \in Entries : slots[s] # Raw
  <2>1. inited = 2
    BY <1>1 DEF PoolsInv, Open
  <2>2. \A s \in Entries : Number(s) > Raw
    BY NumbersDiffer DEF PoolsInv, PoolsTypeOK
  <2> QED
    BY <2>1, <2>2 DEF PoolsInv, Open, Raw
<1>2. Given \subseteq {slots[s] : s \in Entries}
  BY DEF PoolsInv, Handed, Given
<1>3. \A t, u \in Callers : t # u => handed[t] \cap handed[u] = {}
  BY DEF PoolsInv, Handed
<1>4. Given # {} => inited = 2
  BY DEF PoolsInv, Open, Given
<1> QED
  BY <1>1, <1>2, <1>3, <1>4 DEF NumbersStay

-----------------------------------------------------------------------------
(* Formatting *)

\* What FlattenSeq's recursive function is said to be.
Flattens(g, seqs, n) ==
  g = [i \in 1 .. n |-> IF i = 1 THEN seqs[i] ELSE g[i - 1] \o seqs[i]]

\* There is such a function, by the smallest length for which there is none.
LEMMA FlatteningExists ==
  ASSUME NEW seqs, NEW n \in Nat
  PROVE  \E g : Flattens(g, seqs, n)
<1> DEFINE Bad == {m \in Nat : ~ \E g : Flattens(g, seqs, m)}
<1>1. SUFFICES ASSUME Bad # {} PROVE FALSE
  OBVIOUS
<1>2. PICK m \in Bad : \A k \in Bad : m <= k
  <2>1. Bad \in SUBSET Nat
    OBVIOUS
  <2> HIDE DEF Bad
  <2> QED
    BY <1>1, <2>1, LeastNumber
<1>3. m # 0
  <2>1. Flattens([i \in 1 .. 0 |-> seqs[i]], seqs, 0)
    BY DEF Flattens
  <2> QED
    BY <1>2, <2>1
<1>4. m - 1 \in Nat /\ m - 1 \notin Bad
  BY <1>2, <1>3
<1>5. PICK g : Flattens(g, seqs, m - 1)
  BY <1>4
<1> DEFINE h == [i \in 1 .. m |-> IF i < m THEN g[i]
                                  ELSE IF m = 1 THEN seqs[m] ELSE g[m - 1] \o seqs[m]]
<1>6. Flattens(h, seqs, m)
  <2>1. ASSUME NEW i \in 1 .. m
        PROVE  h[i] = IF i = 1 THEN seqs[i] ELSE h[i - 1] \o seqs[i]
    <3>1. CASE i < m
      <4>1. g[i] = IF i = 1 THEN seqs[i] ELSE g[i - 1] \o seqs[i]
        <5>1. i \in 1 .. (m - 1)
          BY <1>4, <3>1
        <5>2. g = [k \in 1 .. (m - 1) |-> IF k = 1 THEN seqs[k] ELSE g[k - 1] \o seqs[k]]
          BY <1>5, Zenon DEF Flattens
        <5> HIDE DEF Bad, h
        <5> QED
          BY <5>1, <5>2, Zenon
      <4>2. h[i] = g[i] /\ (i # 1 => h[i - 1] = g[i - 1])
        BY <3>1
      <4> HIDE DEF h
      <4> QED
        BY <4>1, <4>2
    <3>2. CASE i = m
      <4>1. h[i] = IF m = 1 THEN seqs[m] ELSE g[m - 1] \o seqs[m]
        BY <3>2
      <4>2. i # 1 => h[i - 1] = g[i - 1]
        BY <3>2
      <4> HIDE DEF h
      <4> QED
        BY <4>1, <4>2, <3>2
    <3> QED
      BY <3>1, <3>2
  <2>2. h = [i \in 1 .. m |-> h[i]]
    OBVIOUS
  <2> HIDE DEF h
  <2> QED
    BY <2>1, <2>2 DEF Flattens
<1> QED
  BY <1>2, <1>6

\* The arguments before item i, the first n units of its text, and all texts.
Argument(f, i) == Cardinality({j \in 1 .. i - 1 : TakesArgument(f[j])})
Piece(f, i, n) == [u \in 1 .. n |-> <<i, Argument(f, i), u>>]
Pieces(f) == [i \in 1 .. Len(f) |-> Piece(f, i, Units(f[i]))]
Flattened(f) == CHOOSE g : Flattens(g, Pieces(f), Len(f))

TextOf(f) == FlattenSeq(Pieces(f))

\* The text of the first i items.
Upto(f, i) == IF i = 0 THEN <<>> ELSE Flattened(f)[i]

LEMMA WholeTextIs ==
  ASSUME NEW f \in Seq(Items)
  PROVE  /\ TextOf(f) = Upto(f, Len(f))
         /\ \A i \in 1 .. Len(f) : Upto(f, i) = Upto(f, i - 1) \o Piece(f, i, Units(f[i]))
<1>1. Len(f) \in Nat
  OBVIOUS
<1>2. Len(Pieces(f)) = Len(f)
  BY <1>1 DEF Pieces
<1>3. Flattens(Flattened(f), Pieces(f), Len(f))
  BY <1>1, FlatteningExists DEF Flattened
<1>4. TextOf(f) = FlattenSeq(Pieces(f))
  BY DEF TextOf
<1>5. Len(f) # 0 => FlattenSeq(Pieces(f)) = Flattened(f)[Len(f)]
  BY <1>2 DEF FlattenSeq, Flattened, Flattens
<1>6. Len(f) = 0 => FlattenSeq(Pieces(f)) = <<>>
  BY <1>2 DEF FlattenSeq, Pieces
<1>7. ASSUME NEW i \in 1 .. Len(f)
      PROVE  Upto(f, i) = Upto(f, i - 1) \o Piece(f, i, Units(f[i]))
  <2>1. /\ Pieces(f)[i] = Piece(f, i, Units(f[i]))
        /\ Piece(f, i, Units(f[i])) \in Seq({i} \X {Argument(f, i)} \X Nat)
    <3>1. Units(f[i]) \in Nat
      <4>1. f[i] \in Items
        OBVIOUS
      <4> QED
        BY <4>1 DEF Units, Items
    <3>2. Piece(f, i, Units(f[i])) \in Seq({i} \X {Argument(f, i)} \X Nat)
      <4>1. ASSUME NEW n \in Nat PROVE Piece(f, i, n) \in Seq({i} \X {Argument(f, i)} \X Nat)
        BY DEF Piece
      <4> QED
        BY <3>1, <4>1
    <3> QED
      BY <3>2 DEF Pieces
  <2>2. Flattened(f)[i] = IF i = 1 THEN Pieces(f)[i] ELSE Flattened(f)[i - 1] \o Pieces(f)[i]
    BY <1>3, <1>1 DEF Flattens
  <2>3. CASE i = 1
    <3>1. Upto(f, i) = Pieces(f)[i] /\ Upto(f, i - 1) = <<>>
      BY <2>2, <2>3 DEF Upto
    <3> QED
      BY <2>1, <3>1
  <2>4. CASE i # 1
    <3>1. i # 0 /\ i - 1 # 0
      BY <2>4
    <3> QED
      BY <2>1, <2>2, <2>4, <3>1, Zenon DEF Upto
  <2> QED
    BY <2>3, <2>4
<1> QED
  BY <1>1, <1>4, <1>5, <1>6, <1>7 DEF Upto

LEMMA ArgumentIsNumber ==
  ASSUME NEW f \in Seq(Items), NEW i \in Nat
  PROVE  Argument(f, i) \in Nat
<1>1. IsFiniteSet(1 .. i - 1)
  BY FS_Interval
<1>2. IsFiniteSet({j \in 1 .. i - 1 : TakesArgument(f[j])})
  BY <1>1, FS_Subset
<1> QED
  BY <1>2, FS_CardinalityType DEF Argument

LEMMA UnitsAreNumbers ==
  ASSUME NEW f \in Seq(Items), NEW i \in 1 .. Len(f)
  PROVE  Units(f[i]) \in Nat
<1>1. f[i] \in Items
  OBVIOUS
<1> QED
  BY <1>1 DEF Units, Items

LEMMA ArgumentNext ==
  ASSUME NEW f \in Seq(Items), NEW i \in 1 .. Len(f)
  PROVE  /\ Argument(f, i) \in Nat
         /\ Argument(f, i + 1) = IF TakesArgument(f[i]) THEN Argument(f, i) + 1 ELSE Argument(f, i)
<1> DEFINE Before(k) == {j \in 1 .. k - 1 : TakesArgument(f[j])}
<1>1. IsFiniteSet(1 .. i - 1)
  BY FS_Interval
<1>2. IsFiniteSet(Before(i))
  BY <1>1, FS_Subset
<1>3. Before(i + 1) = IF TakesArgument(f[i]) THEN Before(i) \cup {i} ELSE Before(i)
  BY DEF TakesArgument
<1>4. i \notin Before(i)
  OBVIOUS
<1>5. Argument(f, i) = Cardinality(Before(i)) /\ Argument(f, i + 1) = Cardinality(Before(i + 1))
  BY DEF Argument
<1> HIDE DEF Before
<1> QED
  BY <1>2, <1>3, <1>4, <1>5, FS_CardinalityType, FS_AddElement

Texts == Seq(Nat \X Nat \X Nat)

LEMMA PieceIsText ==
  ASSUME NEW f \in Seq(Items), NEW i \in 1 .. Len(f), NEW n \in Nat
  PROVE  Piece(f, i, n) \in Texts /\ Len(Piece(f, i, n)) = n
<1>1. Argument(f, i) \in Nat
  BY ArgumentNext
<1> QED
  BY <1>1 DEF Piece, Texts

\* The text of fewer items is the beginning of the text of more.
Begins(s, t) == Len(s) <= Len(t) /\ \A k \in 1 .. Len(s) : s[k] = t[k]

LEMMA LongerTexts ==
  ASSUME NEW f \in Seq(Items)
  PROVE  \A j \in 0 .. Len(f) :
           Upto(f, j) \in Texts /\ \A i \in 0 .. j : Begins(Upto(f, i), Upto(f, j))
<1> DEFINE Good(j) == Upto(f, j) \in Texts /\ \A i \in 0 .. j : Begins(Upto(f, i), Upto(f, j))
           Bad == {j \in 0 .. Len(f) : ~ Good(j)}
<1>1. SUFFICES ASSUME Bad # {} PROVE FALSE
  OBVIOUS
<1>2. PICK m \in Bad : \A k \in Bad : m <= k
  <2>1. Bad \in SUBSET Nat
    OBVIOUS
  <2> HIDE DEF Bad
  <2> QED
    BY <1>1, <2>1, LeastNumber
<1>3. m \in 0 .. Len(f) /\ ~ Good(m)
  BY <1>2
<1>4. m # 0
  <2>1. Good(0)
    BY DEF Upto, Texts, Begins
  <2> QED
    BY <1>3, <2>1
<1>5. m \in 1 .. Len(f) /\ m - 1 \in 0 .. Len(f)
  BY <1>3, <1>4
<1>6. Good(m - 1)
  <2>1. m - 1 \notin Bad
    <3> HIDE DEF Bad
    <3> QED
      BY <1>2, <1>5
  <2> QED
    BY <2>1, <1>5
<1>7. Upto(f, m) = Upto(f, m - 1) \o Piece(f, m, Units(f[m]))
  BY <1>5, WholeTextIs
<1>8. Piece(f, m, Units(f[m])) \in Texts
  BY <1>5, UnitsAreNumbers, PieceIsText
<1>9. Upto(f, m - 1) \in Texts
  BY <1>6
<1>10. Upto(f, m) \in Texts /\ Begins(Upto(f, m - 1), Upto(f, m))
  BY <1>7, <1>8, <1>9 DEF Texts, Begins
<1>11. ASSUME NEW i \in 0 .. m PROVE Begins(Upto(f, i), Upto(f, m))
  <2>1. CASE i = m
    BY <2>1, <1>10 DEF Begins, Texts
  <2>2. CASE i # m
    <3>1. Begins(Upto(f, i), Upto(f, m - 1)) /\ Upto(f, i) \in Texts
      <4>1. i \in 0 .. m - 1 /\ i \in 0 .. Len(f) /\ i < m /\ i \in Int /\ m \in Int
        BY <2>2, <1>5
      <4>2. i \notin Bad
        <5> HIDE DEF Bad
        <5> QED
          BY <1>2, <4>1
      <4> QED
        BY <1>6, <4>1, <4>2
    <3> QED
      BY <3>1, <1>9, <1>10 DEF Begins, Texts
  <2> QED
    BY <2>1, <2>2
<1> QED
  BY <1>3, <1>10, <1>11

LEMMA BeginsLonger ==
  ASSUME NEW T, NEW s \in Seq(T), NEW t \in Seq(T), NEW u \in Seq(T),
         Len(t) < Len(u), \A k \in 1 .. Len(t) : u[k] = t[k]
  PROVE  Begins(s \o t, s \o u) /\ Len(s \o t) < Len(s \o u)
  BY DEF Begins

LEMMA BeginsTransitive ==
  ASSUME NEW T, NEW s \in Seq(T), NEW t \in Seq(T), NEW u \in Seq(T), Begins(s, t), Begins(t, u)
  PROVE  Begins(s, u) /\ Len(t) <= Len(u)
  BY DEF Begins

\* What is written is the text of the items before this one and the units of
\* this one that are copied; the unit of the terminator stays free.
FormatterInv ==
  /\ format \in Seq(Items)
  /\ item \in 1 .. Len(format) + 1
  /\ unit \in Nat /\ (item <= Len(format) => unit <= Units(format[item]))
  /\ item > Len(format) => unit = 0
  /\ arg_index = Argument(format, item)
  /\ text = Upto(format, item - 1) \o Piece(format, item, unit)
  /\ Len(text) <= MaxOutput - 1
  /\ TextFits

LEMMA TextOfFormat == WholeText = TextOf(format)
  BY DEF WholeText, TextOf, Pieces, Piece, Argument

LEMMA TextOfNextFormat == ASSUME format' = format PROVE WholeText' = TextOf(format)
  BY DEF WholeText, TextOf, Pieces, Piece, Argument

LEMMA TextIsText ==
  ASSUME FormatterInv
  PROVE  /\ text \in Texts
         /\ Upto(format, item - 1) \in Texts
         /\ \A n \in Nat : Piece(format, item, n) \in Texts /\ Len(Piece(format, item, n)) = n
<1> USE DEF FormatterInv
<1>1. Upto(format, item - 1) \in Texts
  BY LongerTexts
<1>2. Argument(format, item) \in Nat
  BY ArgumentIsNumber
<1>3. \A n \in Nat : Piece(format, item, n) \in Texts /\ Len(Piece(format, item, n)) = n
  BY <1>2 DEF Piece, Texts
<1> QED
  BY <1>1, <1>3 DEF Texts

LEMMA FormatterStart == FormatterInit => FormatterInv
<1> SUFFICES ASSUME FormatterInit PROVE FormatterInv
  OBVIOUS
<1> USE DEF FormatterInit
<1>1. format \in Seq(Items) /\ MaxOutput \in Nat \ {0}
  BY FormatterAssumption
<1>2. Argument(format, 1) = 0
  <2>1. {j \in 1 .. 1 - 1 : TakesArgument(format[j])} = {}
    OBVIOUS
  <2> QED
    BY <2>1, FS_EmptySet DEF Argument
<1>3. Upto(format, 0) = <<>> /\ Piece(format, 1, 0) = <<>>
  BY DEF Upto, Piece
<1>4. Units(format[1]) \in Nat \/ Len(format) = 0
  BY <1>1, UnitsAreNumbers
<1>5. TextFits
  BY <1>1 DEF TextFits, NoTerminator
<1> QED
  BY <1>1, <1>2, <1>3, <1>4, <1>5 DEF FormatterInv

LEMMA FormatterStep == FormatterInv /\ [FormatterNext]_formatVars => FormatterInv'
<1> SUFFICES ASSUME FormatterInv, [FormatterNext]_formatVars PROVE FormatterInv'
  OBVIOUS
<1> USE FormatterAssumption
<1>a. format \in Seq(Items) /\ Len(format) \in Nat
  BY DEF FormatterInv
<1>1. CASE CopyUnit
  <2>1. item \in 1 .. Len(format) /\ unit + 1 <= Units(format[item]) /\ Units(format[item]) \in Nat
    BY <1>a, <1>1, UnitsAreNumbers DEF CopyUnit, InItem, FormatterInv
  <2>2. Piece(format, item, unit + 1) =
          Append(Piece(format, item, unit), <<item, arg_index, unit + 1>>)
    BY DEF Piece, FormatterInv
  <2>3. text' = Upto(format, item - 1) \o Piece(format, item, unit + 1)
    <3>1. <<item, arg_index, unit + 1>> \in Nat \X Nat \X Nat
      <4>1. item \in Nat /\ unit + 1 \in Nat /\ arg_index = Argument(format, item)
        BY <2>1 DEF FormatterInv
      <4>2. Argument(format, item) \in Nat
        BY <1>a, <4>1, ArgumentIsNumber
      <4> QED
        BY <4>1, <4>2
    <3>2. /\ Piece(format, item, unit) \in Seq(Nat \X Nat \X Nat)
          /\ Upto(format, item - 1) \in Seq(Nat \X Nat \X Nat)
      BY TextIsText DEF FormatterInv, Texts
    <3>3. text' = Append(text, <<item, arg_index, unit + 1>>)
      BY <1>1 DEF CopyUnit
    <3>4. text = Upto(format, item - 1) \o Piece(format, item, unit)
      BY DEF FormatterInv
    <3>5. Append(Upto(format, item - 1) \o Piece(format, item, unit),
                 <<item, arg_index, unit + 1>>)
            = Upto(format, item - 1)
                \o Append(Piece(format, item, unit), <<item, arg_index, unit + 1>>)
      <4>1. PICK T : T = Nat \X Nat \X Nat
        OBVIOUS
      <4>2. PICK x : x = <<item, arg_index, unit + 1>>
        OBVIOUS
      <4>3. PICK s, t : s = Upto(format, item - 1) /\ t = Piece(format, item, unit)
        OBVIOUS
      <4>4. x \in T /\ s \in Seq(T) /\ t \in Seq(T)
        BY <3>1, <3>2, <4>1, <4>2, <4>3
      <4>5. Append(s \o t, x) = s \o Append(t, x)
        BY <4>4
      <4> QED
        BY <4>2, <4>3, <4>5
    <3> QED
      BY <2>2, <3>3, <3>4, <3>5
  <2>4. Len(text') <= MaxOutput - 1
    BY <1>1, TextIsText DEF CopyUnit, HasRoom, Texts
  <2>5. TextFits'
    BY <1>1, <2>4 DEF CopyUnit, TextFits, InItem, Formatting, NoTerminator
  <2>6. item' = item /\ unit' = unit + 1 /\ arg_index' = arg_index /\ format' = format
    BY <1>1 DEF CopyUnit
  <2> QED
    BY <2>1, <2>3, <2>4, <2>5, <2>6 DEF FormatterInv
<1>2. CASE NextItem
  <2>1. item \in 1 .. Len(format) /\ unit = Units(format[item])
    BY <1>a, <1>2 DEF NextItem, InItem, FormatterInv
  <2>2. text = Upto(format, item)
    BY <1>a, <2>1, WholeTextIs DEF FormatterInv
  <2>3. Piece(format, item + 1, 0) = <<>>
    BY DEF Piece
  <2>4. text' = Upto(format, item' - 1) \o Piece(format, item', 0)
    <3>1. item' = item + 1 /\ item' - 1 = item /\ text' = text
      BY <1>2, <2>1 DEF NextItem
    <3>2. text \o <<>> = text
      BY TextIsText DEF Texts
    <3> QED
      BY <3>1, <3>2, <2>2, <2>3
  <2>5. arg_index' = Argument(format, item')
    BY <1>a, <1>2, <2>1, ArgumentNext DEF NextItem, FormatterInv
  <2>6. TextFits'
    BY <1>2 DEF NextItem, TextFits, InItem, Formatting, NoTerminator, FormatterInv
  <2>7. item + 1 <= Len(format) => Units(format[item + 1]) \in Nat
    BY <1>a, <2>1, UnitsAreNumbers
  <2>8. item' = item + 1 /\ unit' = 0 /\ format' = format /\ text' = text
    BY <1>2 DEF NextItem
  <2>9. Len(text) <= MaxOutput - 1
    BY DEF FormatterInv
  <2> QED
    BY <1>a, <2>1, <2>4, <2>5, <2>6, <2>7, <2>8, <2>9 DEF FormatterInv
<1>3. CASE Truncate
  <2>1. item \in 1 .. Len(format) /\ unit + 1 <= Units(format[item]) /\ Units(format[item]) \in Nat
    BY <1>a, <1>3, UnitsAreNumbers DEF Truncate, InItem, FormatterInv
  <2>2. Len(text) = MaxOutput - 1
    <3>1. Len(text) \in Nat
      BY TextIsText DEF Texts
    <3>2. ~ (Len(text) < MaxOutput - 1) /\ Len(text) <= MaxOutput - 1
      BY <1>3 DEF Truncate, HasRoom, FormatterInv
    <3> QED
      BY <3>1, <3>2
  <2>3. Upto(format, item) = Upto(format, item - 1) \o Piece(format, item, Units(format[item]))
    BY <1>a, <2>1, WholeTextIs
  <2>4. \A k \in 1 .. unit :
          Piece(format, item, Units(format[item]))[k] = Piece(format, item, unit)[k]
    BY <2>1 DEF Piece, FormatterInv
  <2>5. Begins(text, Upto(format, item)) /\ Len(Upto(format, item)) > Len(text)
    <3>1. unit \in Nat /\ text = Upto(format, item - 1) \o Piece(format, item, unit)
      BY DEF FormatterInv
    <3>2. /\ Len(Piece(format, item, unit)) = unit
          /\ Len(Piece(format, item, Units(format[item]))) = Units(format[item])
          /\ Piece(format, item, unit) \in Texts
          /\ Piece(format, item, Units(format[item])) \in Texts
          /\ Upto(format, item - 1) \in Texts
      BY <2>1, <3>1, TextIsText
    <3>3. unit < Units(format[item])
      BY <2>1, <3>1
    <3> QED
      BY <2>3, <2>4, <3>1, <3>2, <3>3, BeginsLonger DEF Texts
  <2>6. WholeText' = Upto(format, Len(format)) /\ WholeText' \in Texts
    BY <1>a, <1>3, WholeTextIs, TextOfNextFormat, LongerTexts DEF Truncate
  <2>7. Begins(Upto(format, item), WholeText')
    BY <1>a, <2>1, <2>6, LongerTexts
  <2>8. Len(WholeText') >= MaxOutput /\ \A k \in 1 .. MaxOutput - 1 : text[k] = WholeText'[k]
    <3>1. text \in Texts /\ Upto(format, item) \in Texts
      BY <1>a, <2>1, TextIsText, LongerTexts
    <3>2. Begins(text, WholeText') /\ Len(Upto(format, item)) <= Len(WholeText')
      BY <3>1, <2>5, <2>6, <2>7, BeginsTransitive DEF Texts
    <3>3. Len(Upto(format, item)) \in Nat /\ Len(WholeText') \in Nat
      BY <3>1, <2>6 DEF Texts
    <3> QED
      BY <2>2, <2>5, <3>2, <3>3 DEF Begins
  <2>9. SubSeq(text, 1, MaxOutput - 1) = SubSeq(WholeText', 1, MaxOutput - 1)
    BY <2>2, <2>6, <2>8, TextIsText DEF Texts
  <2>10. TextFits'
    BY <1>3, <2>2, <2>6, <2>8, <2>9 DEF Truncate, TextFits, Texts
  <2> QED
    BY <1>3, <2>10 DEF Truncate, FormatterInv
<1>4. CASE EndText
  <2>1. item = Len(format) + 1 /\ unit = 0
    BY <1>4, <1>a DEF EndText, FormatterInv
  <2>2. WholeText' = Upto(format, Len(format)) /\ WholeText' \in Texts
    BY <1>a, <1>4, WholeTextIs, TextOfNextFormat, LongerTexts DEF EndText
  <2>3. text = WholeText'
    <3>1. Piece(format, item, 0) = <<>> /\ item - 1 = Len(format)
      BY <1>a, <2>1 DEF Piece
    <3> QED
      BY <2>1, <2>2, <3>1 DEF FormatterInv, Texts
  <2>4. TextFits'
    <3>1. Len(text) \in Nat /\ Len(text) <= MaxOutput - 1
      BY TextIsText DEF FormatterInv, Texts
    <3> QED
      BY <1>4, <2>3, <3>1 DEF EndText, TextFits
  <2> QED
    BY <1>4, <2>4 DEF EndText, FormatterInv
<1>5. CASE UNCHANGED formatVars
  <2>1. WholeText' = WholeText
    BY <1>5, TextOfFormat, TextOfNextFormat DEF formatVars
  <2> QED
    BY <1>5, <2>1 DEF formatVars, FormatterInv, TextFits, NoTerminator
<1> QED
  BY <1>1, <1>2, <1>3, <1>4, <1>5 DEF FormatterNext

-----------------------------------------------------------------------------
(* Error numbers *)

\* The address a thread has is that of the entry of its own error; entries
\* are those of the table or 0.
ErrnoInv ==
  /\ overwritten \subseteq DOMAIN Translation
  /\ errno_translation =
       [i \in DOMAIN Translation |-> IF i \in overwritten THEN 0 ELSE Translation[i].bionic]
  /\ errno \in [Workers -> Known \cup UnknownErrors]
  /\ address \in [Workers -> {0} \cup DOMAIN Translation]
  /\ \A t \in Workers : address[t] # 0 =>
       IF errno[t] \in Known THEN Translation[address[t]].newlib = errno[t] ELSE address[t] = 1
  /\ ErrorsAreTranslated

LEMMA TableFacts ==
  /\ DOMAIN Translation = 1 .. Len(Translation) /\ Len(Translation) \in Nat
  /\ 1 \in DOMAIN Translation
  /\ 0 \in Known /\ Bionic(0) = 0
  /\ \A i \in DOMAIN Translation : Bionic(Translation[i].newlib) = Translation[i].bionic
<1>1. DOMAIN Translation = 1 .. Len(Translation) /\ Len(Translation) \in Nat
  BY ErrnoAssumption
<1>2. 1 \in DOMAIN Translation
  BY <1>1, ErrnoAssumption
<1>3. 0 \in Known
  BY <1>2, ErrnoAssumption DEF Known
<1>4. ASSUME NEW i \in DOMAIN Translation
      PROVE  Bionic(Translation[i].newlib) = Translation[i].bionic
  <2>1. Translation[i].newlib \in Known
    BY DEF Known
  <2>2. (CHOOSE j \in DOMAIN Translation : Translation[j].newlib = Translation[i].newlib) = i
    BY ErrnoAssumption
  <2> QED
    BY <2>1, <2>2 DEF Bionic
<1> QED
  BY <1>1, <1>2, <1>3, <1>4, ErrnoAssumption

LEMMA NothingSeen ==
  ASSUME seen = Nothing, overwritten \subseteq DOMAIN Translation
  PROVE  ErrorsAreTranslated
  BY TableFacts, ErrnoAssumption DEF ErrorsAreTranslated, Nothing

LEMMA NothingSeenNext ==
  ASSUME seen' = Nothing, overwritten' \subseteq DOMAIN Translation
  PROVE  ErrorsAreTranslated'
  BY TableFacts, ErrnoAssumption DEF ErrorsAreTranslated, Nothing, Bionic, Known

LEMMA ErrnoStep == ErrnoInv /\ [ErrnoNext]_errnoVars => ErrnoInv'
<1> SUFFICES ASSUME ErrnoInv, [ErrnoNext]_errnoVars PROVE ErrnoInv'
  OBVIOUS
<1> USE DEF ErrnoInv
<1>1. ASSUME NEW t \in Workers, NEW e \in Known \cup UnknownErrors, FailWith(t, e)
      PROVE  ErrnoInv'
  <2>1. ErrorsAreTranslated'
    BY <1>1, NothingSeenNext DEF FailWith
  <2> QED
    BY <1>1, <2>1 DEF FailWith
<1>2. ASSUME NEW t \in Workers, __errno_soloader(t)
      PROVE  ErrnoInv'
  <2> DEFINE found == {i \in DOMAIN Translation : OfNewlib(i, errno[t])}
  <2>1. ErrorsAreTranslated'
    BY <1>2, NothingSeenNext DEF __errno_soloader
  <2>2. found # {} => Min(found) \in found
    <3>1. found \in SUBSET Nat
      BY TableFacts
    <3> HIDE DEF found
    <3> QED
      BY <3>1, LeastNumber
  <2>3. errno[t] \in Known <=> found # {}
    BY DEF Known, OfNewlib
  <2>4. address' = [address EXCEPT ![t] = IF found = {} THEN 1 ELSE Min(found)]
    BY <1>2 DEF __errno_soloader
  <2>5. found # {} => Min(found) \in DOMAIN Translation /\ Translation[Min(found)].newlib = errno[t]
    BY <2>2 DEF OfNewlib
  <2> DEFINE entry == IF found = {} THEN 1 ELSE Min(found)
  <2>6. /\ entry \in DOMAIN Translation
        /\ IF errno[t] \in Known THEN Translation[entry].newlib = errno[t] ELSE entry = 1
    BY <2>3, <2>5, TableFacts
  <2>7. address' = [address EXCEPT ![t] = entry]
    BY <2>4
  <2>8. UNCHANGED <<errno_translation, errno, overwritten>>
    BY <1>2 DEF __errno_soloader
  <2> HIDE DEF found, entry
  <2> QED
    BY <2>1, <2>6, <2>7, <2>8
<1>3. ASSUME NEW t \in Workers, ReadErrno(t)
      PROVE  ErrnoInv'
  <2> DEFINE number == errno_translation[address[t]]
             found == {i \in DOMAIN Translation : errno_translation[i] = number}
  <2>1. address[t] \in DOMAIN Translation /\ address[t] # 0
    BY <1>3 DEF ReadErrno
  <2>2. found \in SUBSET (0 .. Len(Translation)) /\ address[t] \in found
    BY <2>1, TableFacts
  <2>3. Min(found) \in found /\ Max(found) \in found
    <3>1. found \in SUBSET Nat /\ Len(Translation) \in Nat
      BY <2>2, TableFacts
    <3> HIDE DEF found
    <3> QED
      BY <2>2, <3>1, LeastNumber, GreatestNumber
  <2>4. PICK i \in {Min(found), Max(found)} :
          seen' = [error |-> errno[t], number |-> number, told |-> i]
    BY <1>3 DEF ReadErrno
  <2>5. i \in DOMAIN Translation /\ (Translation[i].bionic = number \/ i \in overwritten)
    BY <2>3
  <2>6. number = IF address[t] \in overwritten THEN 0 ELSE Translation[address[t]].bionic
    BY <2>1
  <2> DEFINE lost == {Translation[j].newlib : j \in overwritten}
  <2>7. number = IF errno[t] \in lost THEN 0 ELSE Bionic(errno[t])
    <3>1. CASE errno[t] \in Known
      <4>1. Translation[address[t]].newlib = errno[t]
        BY <3>1, <2>1
      <4>2. errno[t] \in lost <=> address[t] \in overwritten
        BY <4>1, <2>1, ErrnoAssumption
      <4> QED
        BY <4>1, <4>2, <2>1, <2>6, TableFacts
    <3>2. CASE errno[t] \notin Known
      <4>1. address[t] = 1
        BY <3>2, <2>1
      <4>2. errno[t] \notin lost
        BY <3>2 DEF Known
      <4> QED
        BY <4>1, <4>2, <2>6, <3>2, ErrnoAssumption DEF Bionic
    <3> QED
      BY <3>1, <3>2
  <2>8. overwritten' = overwritten
    BY <1>3 DEF ReadErrno
  <2> HIDE DEF number, found
  <2>9. ErrorsAreTranslated'
    <3>1. seen'.error = errno[t] /\ seen'.number = number /\ seen'.told = i
      BY <2>4
    <3> QED
      BY <3>1, <2>5, <2>7, <2>8 DEF ErrorsAreTranslated, Bionic, Known
  <2> QED
    BY <1>3, <2>9 DEF ReadErrno
<1>4. ASSUME NEW t \in Workers, StoreErrno(t)
      PROVE  ErrnoInv'
  <2>1. ErrorsAreTranslated'
    BY <1>4, NothingSeenNext DEF StoreErrno
  <2> QED
    BY <1>4, <2>1 DEF StoreErrno
<1>5. CASE UNCHANGED errnoVars
  BY <1>5 DEF errnoVars, ErrorsAreTranslated, Bionic, Known
<1> QED
  BY <1>1, <1>2, <1>3, <1>4, <1>5 DEF ErrnoNext

LEMMA ErrnoStart == ErrnoInit => ErrnoInv
<1> SUFFICES ASSUME ErrnoInit PROVE ErrnoInv
  OBVIOUS
<1>1. ErrorsAreTranslated
  BY NothingSeen DEF ErrnoInit
<1> QED
  BY <1>1, TableFacts DEF ErrnoInit, ErrnoInv

-----------------------------------------------------------------------------
(* All parts together *)

\* A step of Runtime is for each part one of its own or none.
LEMMA StepsOfParts ==
  ASSUME [Next]_vars
  PROVE  /\ [ImportsNext]_importVars /\ [FilesNext]_filesVars
         /\ [SemaphoresNext \/ ThreadsNext]_threadsVars
         /\ [ShaderNext]_shaderVars /\ [FramesNext]_frameVars /\ [PoolsNext]_poolVars
         /\ [FormatterNext]_formatVars /\ [ErrnoNext]_errnoVars
<1>1. CASE Next
  BY <1>1, Zenon DEF Next
<1>2. CASE UNCHANGED vars
  BY <1>2, Zenon DEF vars
<1> QED
  BY <1>1, <1>2

LEMMA StartOfParts ==
  Init => /\ ImportsInit /\ FilesInit /\ ThreadsInit /\ ShaderInit /\ FramesInit
          /\ PoolsInit /\ FormatterInit /\ ErrnoInit
  BY DEF Init

\* Whatever the game makes, uses and ends, in any order (default_dynlib): no
\* thing of one library reaches another that does not know it, and the number
\* of a file leads read, write, lseek and close back to the layer that opened
\* it.
THEOREM LayersAlwaysAgree == Spec => []LayersAgree
<1>1. Init => ImportsInv
  BY StartOfParts, ImportsStart
<1>2. ImportsInv /\ [Next]_vars => ImportsInv'
  BY StepsOfParts, ImportsStep
<1>3. ImportsInv => LayersAgree
  BY DEF ImportsInv
<1> QED
  BY <1>1, <1>2, <1>3, PTL DEF Spec

\* For any number of files and slots, however the threads of the game
\* interleave (AAsset_read, AAsset_openFileDescriptor, read_delegate): blocks
\* come in order, and a descriptor belongs to one owner only.
THEOREM AssetsAreReadInOrder == Spec => []AssetReadsInOrder
<1>1. Init => FilesInv
  BY StartOfParts, FilesStart
<1>2. FilesInv /\ [Next]_vars => FilesInv'
  BY StepsOfParts, FilesStep
<1>3. FilesInv => AssetReadsInOrder
  BY DEF FilesInv
<1> QED
  BY <1>1, <1>2, <1>3, PTL DEF Spec

\* For any threads and any number of posts, every token is in the semaphore
\* or was the success of exactly one wait (sem_wait, sem_trywait,
\* sem_timedwait and the render thread's loop).
THEOREM TokensAreConserved == Spec => []TokensConserved
<1>1. Init => TokensInv
  BY StartOfParts, TokensStart
<1>2. TokensInv /\ [Next]_vars => TokensInv'
  BY StepsOfParts, SemaphoresStep
<1>3. TokensInv => TokensConserved
  BY DEF TokensInv
<1> QED
  BY <1>1, <1>2, <1>3, PTL DEF Spec

\* For any number of threads, in whichever order they are created, end, are
\* joined and are detached (pthread_attr_setdetachstate, pthread_detach,
\* coreStartLoadingScreen).
THEOREM StacksAreAlwaysReclaimed == Spec => []StacksAreReclaimed
<1>1. Init => StacksInv
  BY StartOfParts, StacksStart
<1>2. StacksInv /\ [Next]_vars => StacksInv'
  BY StepsOfParts, ThreadsStep
<1>3. StacksInv => StacksAreReclaimed
  BY DEF StacksInv, DetachedAsMeant, StacksAreReclaimed
<1> QED
  BY <1>1, <1>2, <1>3, PTL DEF Spec

\* For any number of starts, each of which may be killed at any step or fail
\* to open, to read or to write a file (patch_flat_shader): the original is
\* kept and never patched twice.
THEOREM ShaderAlwaysKept == Spec => []ShaderKept
<1>1. Init => ShaderInv
  BY StartOfParts, ShaderStart
<1>2. ShaderInv /\ [Next]_vars => ShaderInv'
  BY StepsOfParts, ShaderStep
<1>3. ShaderInv => ShaderKept
  BY ShaderInvSuffices
<1> QED
  BY <1>1, <1>2, <1>3, PTL DEF Spec

\* For any picture buffers and any number of frames and videos: every frame is
\* delivered once and in order, and drawn at its own width (GetNextFrame,
\* sws_scale, ProcessAndUploadTexture, D3DDevice_SetTexture).
THEOREM FramesStayInOrder == Spec => []FramesInOrder
<1>1. Init => FramesInv
  BY StartOfParts, FramesStart
<1>2. FramesInv /\ [Next]_vars => FramesInv'
  BY StepsOfParts, FramesStep
<1>3. FramesInv => FramesInOrder
  BY FramesInvSuffices
<1> QED
  BY <1>1, <1>2, <1>3, PTL DEF Spec

\* For any number of callers and slots, and however often the kernel refuses
\* the mutex: numbers stay their callers' (PseudoEpoll.cpp,
\* pseudo_eventfd.cpp, pseudo_pipe.cpp).
THEOREM NumbersAlwaysStay == Spec => []NumbersStay
<1>1. Init => PoolsInv
  BY StartOfParts, PoolsStart
<1>2. PoolsInv /\ [Next]_vars => PoolsInv'
  BY StepsOfParts, PoolsStep
<1>3. PoolsInv => NumbersStay
  BY PoolsInvSuffices
<1> QED
  BY <1>1, <1>2, <1>3, PTL DEF Spec

\* For every format, every limit and every length of the arguments
\* (usprintf_patched): nothing is written past the limit, and the result is
\* the whole text or its beginning, with a terminator.
THEOREM TextAlwaysFits == Spec => []TextFits
<1>1. Init => FormatterInv
  BY StartOfParts, FormatterStart
<1>2. FormatterInv /\ [Next]_vars => FormatterInv'
  BY StepsOfParts, FormatterStep
<1>3. FormatterInv => TextFits
  BY DEF FormatterInv
<1> QED
  BY <1>1, <1>2, <1>3, PTL DEF Spec

\* For every translation table and any number of threads (__errno_soloader,
\* strerror_soloader): what a thread reads is its own error in bionic's
\* numbers, unless the game stored to that entry.
THEOREM ErrorsStayTranslated == Spec => []ErrorsAreTranslated
<1>1. Init => ErrnoInv
  BY StartOfParts, ErrnoStart
<1>2. ErrnoInv /\ [Next]_vars => ErrnoInv'
  BY StepsOfParts, ErrnoStep
<1>3. ErrnoInv => ErrorsAreTranslated
  BY DEF ErrnoInv
<1> QED
  BY <1>1, <1>2, <1>3, PTL DEF Spec
=============================================================================
