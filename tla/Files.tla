------------------------------- MODULE Files -------------------------------
(***************************************************************************)
(* Assets (AFakeNative/AAssetManager.cpp) over the file layer              *)
(* (reimpl/io.c, lib/fios/fios.c).  An asset is a descriptor, in the       *)
(* archive res.psarc when there is one, on the memory card otherwise.  The *)
(* length of an asset is found by moving the position of its descriptor to *)
(* the end and back.  An asset belongs to one thread of the game, and the  *)
(* steps of different threads interleave.                                  *)
(***************************************************************************)
EXTENDS Descriptors, Sequences

CONSTANTS
  Resources,    \* names below assets/res
  Listed,       \* those in existing_files, the list the port is built with
  Archived,     \* those in the archive
  Size,         \* blocks of a file
  Slots         \* bound: how many assets and descriptors the game has

\* newlib's descriptors stay below those of the eventfds (EVENTFD_MARGIN).
ASSUME FilesAssumption ==
  /\ IsFiniteSet(Slots) /\ 3 + Cardinality(Slots) <= 256
  /\ Size \in Nat

\* "ux0:data/bgda/assets/res/...", "ux0:data/bgda/res/...", /proc and /sys
\* ("app0:/..." after the renaming), and anything else.
Resource(name) == [root |-> "assets/res", name |-> name]
BareResource == [root |-> "res", name |-> "any"]
SystemFile == [root |-> "proc", name |-> "cpuinfo"]
PackedSystemFile == [root |-> "app0", name |-> "cpuinfo"]
SaveFile == [root |-> "other", name |-> "save"]
Paths == {Resource(n) : n \in Resources} \cup {BareResource, SystemFile, SaveFile}

VARIABLES
  fios,         \* "off", "on", or "failed" before the archive was looked for
  psarc_exists,
  mounted,      \* whether the archive could be mounted
  disk,         \* paths that exist on the card
  opened,       \* descriptor -> [file, pos]
  owner,        \* slot -> what the game has there, or Nobody
  measuring     \* slot -> where AAsset_openFileDescriptor is, and its result

filesVars == <<fios, psarc_exists, mounted, disk, opened, owner, measuring>>

Nobody == [kind |-> "none", file |-> SaveFile, fd |-> 0, delivered |-> <<>>]
Owner(kind, path, fd) == [kind |-> kind, file |-> path, fd |-> fd, delivered |-> <<>>]
Idle == [at |-> "no", pos |-> 0, length |-> 0]

FilesInit ==
  /\ fios = "off" /\ psarc_exists = FALSE /\ mounted = FALSE
  /\ disk = {PackedSystemFile}
  /\ opened = <<>>
  /\ owner = [s \in Slots |-> Nobody]
  /\ measuring = [s \in Slots |-> Idle]

-----------------------------------------------------------------------------
(* fios_init; soloader_init_all ignores its result *)

\* What is on the card is not known to the port.
FiosInit ==
  /\ fios = "off"
  /\ \E loose \in SUBSET {Resource(n) : n \in Resources} : disk' = disk \cup loose
  /\ \/ fios' = "failed" /\ UNCHANGED <<psarc_exists, mounted>>
     \/ /\ fios' = "on"
        /\ psarc_exists' \in BOOLEAN
        /\ mounted' \in IF psarc_exists' THEN BOOLEAN ELSE {FALSE}
  /\ UNCHANGED <<opened, owner, measuring>>

-----------------------------------------------------------------------------
(* open_soloader *)

Renamed(path) == IF path.root = "proc" THEN PackedSystemFile ELSE path

InArchive(path) ==
  /\ path.root = "assets/res" /\ psarc_exists
  /\ path.name \in Listed \cap Archived /\ mounted

\* A resource is never looked for on the card when there is an archive.
OnDisk(path) ==
  /\ path \in disk
  /\ path.root # "res"
  /\ ~(path.root = "assets/res" /\ psarc_exists)

LayerOf(path) == IF InArchive(path) THEN "fios" ELSE "newlib"
CanOpen(path) == InArchive(path) \/ OnDisk(path)

\* oflags_bionic_to_newlib: O_TMPFILE shares a bit with O_DIRECTORY, so a
\* directory is opened with O_CREAT too.
Creates(flags) == flags \cap {"O_CREAT", "O_TMPFILE", "O_DIRECTORY"} # {}

NewFd(path) == NewNumber(LayerOf(path), DOMAIN opened)
OpenedWith(fd, path) ==
  [n \in DOMAIN opened \cup {fd} |->
     IF n = fd THEN [file |-> path, pos |-> 0] ELSE opened[n]]
ClosedBut(fd) == [n \in DOMAIN opened \ {fd} |-> opened[n]]

Free(s) == owner[s].kind = "none"
Started == fios # "off"

OpenFd(s) ==
  /\ Started /\ Free(s)
  /\ \E path \in Paths, flags \in {{}, {"O_CREAT"}} :
       LET real == Renamed(path)
           made == real.root = "other" /\ Creates(flags)
       IN /\ CanOpen(real) \/ made
          /\ disk' = IF made THEN disk \cup {real} ELSE disk
          /\ opened' = OpenedWith(NewFd(real), real)
          /\ owner' = [owner EXCEPT ![s] = Owner("descriptor", real, NewFd(real))]
  /\ UNCHANGED <<fios, psarc_exists, mounted, measuring>>

-----------------------------------------------------------------------------
(* AAssetManager *)

\* The path is always below assets/.  A descriptor 0 would be taken for a
\* failure; newlib's 0 is the standard input.
AAssetManager_open(s) ==
  /\ Started /\ Free(s)
  /\ \E n \in Resources :
       LET path == Resource(n)
       IN /\ CanOpen(path)
          /\ opened' = OpenedWith(NewFd(path), path)
          /\ owner' = [owner EXCEPT ![s] = Owner("asset", path, NewFd(path))]
  /\ UNCHANGED <<fios, psarc_exists, mounted, disk, measuring>>

IsAsset(s) == owner[s].kind = "asset"
Quiet(s) == measuring[s].at = "no"

\* read_delegate; no file of one layer is a number of another.
Present(layer, fd) == fd \in DOMAIN opened /\ layer = LayerOf(opened[fd].file)

\* AAsset_read and pseudo_read: a block, or the end of the file.
ReadBlock(s) ==
  LET fd == owner[s].fd
  IN /\ ~Free(s) /\ Quiet(s)
     /\ Present(RouteRead(fd), fd)
     /\ opened[fd].pos < Size
     /\ opened' = [opened EXCEPT ![fd].pos = @ + 1]
     /\ owner' = [owner EXCEPT ![s].delivered = Append(@, opened[fd].pos)]
     /\ UNCHANGED <<fios, psarc_exists, mounted, disk, measuring>>

close_soloader(fd) == opened' = IF Present(Delegate(fd), fd) THEN ClosedBut(fd) ELSE opened

Close(s) ==
  /\ owner[s].kind = "descriptor"
  /\ close_soloader(owner[s].fd)
  /\ owner' = [owner EXCEPT ![s] = Nobody]
  /\ UNCHANGED <<fios, psarc_exists, mounted, disk, measuring>>

\* (AAsset_seek does nothing.)
AAsset_close(s) ==
  /\ IsAsset(s) /\ Quiet(s)
  /\ IF owner[s].fd # 0 THEN close_soloader(owner[s].fd) ELSE UNCHANGED opened
  /\ owner' = [owner EXCEPT ![s] = Nobody]
  /\ UNCHANGED <<fios, psarc_exists, mounted, disk, measuring>>

\* AAsset_openFileDescriptor: where am I, how long is the file, back again,
\* and a descriptor of its own for the game.
RememberPosition(s) ==
  /\ IsAsset(s) /\ Quiet(s)
  /\ measuring' = [measuring EXCEPT
       ![s] = [at |-> "end", pos |-> opened[owner[s].fd].pos, length |-> 0]]
  /\ UNCHANGED <<fios, psarc_exists, mounted, disk, opened, owner>>

SeekToEnd(s) ==
  /\ measuring[s].at = "end"
  /\ opened' = [opened EXCEPT ![owner[s].fd].pos = Size]
  /\ measuring' = [measuring EXCEPT ![s].at = "back", ![s].length = Size]
  /\ UNCHANGED <<fios, psarc_exists, mounted, disk, owner>>

\* Mutant: the position is not restored.
StayAtEnd(s) == measuring[s].length

PositionAfterwards(s) == measuring[s].pos

SeekBack(s) ==
  /\ measuring[s].at = "back"
  /\ opened' = [opened EXCEPT ![owner[s].fd].pos = PositionAfterwards(s)]
  /\ measuring' = [measuring EXCEPT ![s].at = "open"]
  /\ UNCHANGED <<fios, psarc_exists, mounted, disk, owner>>

\* The second descriptor is the game's, which closes it.
OpenAgain(s, t) ==
  LET path == owner[s].file
  IN /\ measuring[s].at = "open"
     /\ Free(t)
     /\ opened' = OpenedWith(NewFd(path), path)
     /\ owner' = [owner EXCEPT ![t] = Owner("descriptor", path, NewFd(path))]
     /\ measuring' = [measuring EXCEPT ![s] = Idle]
     /\ UNCHANGED <<fios, psarc_exists, mounted, disk>>

FilesNext ==
  \/ FiosInit
  \/ \E s \in Slots : \/ OpenFd(s) \/ AAssetManager_open(s) \/ ReadBlock(s) \/ Close(s) \/ AAsset_close(s)
                      \/ RememberPosition(s) \/ SeekToEnd(s) \/ SeekBack(s)
                      \/ \E t \in Slots : OpenAgain(s, t)

-----------------------------------------------------------------------------
(* Properties *)

Taken == {s \in Slots : ~Free(s)}

\* Who reads an asset or a descriptor gets the blocks of its file in order,
\* whatever lengths are asked for in between and whoever else opens and
\* closes files meanwhile; and the descriptors that are open are those the
\* game has, one for each.
AssetReadsInOrder ==
  /\ \A s \in Taken :
       /\ owner[s].delivered = [i \in 1 .. Len(owner[s].delivered) |-> i - 1]
       /\ owner[s].fd \in DOMAIN opened
       /\ opened[owner[s].fd].file = owner[s].file
       /\ Quiet(s) => opened[owner[s].fd].pos = Len(owner[s].delivered)
  /\ \A s, t \in Taken : s # t => owner[s].fd # owner[t].fd
  /\ DOMAIN opened = {owner[s].fd : s \in Taken}
=============================================================================
