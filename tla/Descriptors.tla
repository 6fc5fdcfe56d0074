---------------------------- MODULE Descriptors ----------------------------
(***************************************************************************)
(* The numbers of open files.  Four layers hand them out, each from a      *)
(* range of its own, and read, write, lseek and close find the layer again *)
(* from nothing but the number (dynlib.c, PseudoEpoll.cpp, io.c).          *)
(***************************************************************************)
EXTENDS Naturals, FiniteSetsExt

FirstFios == 98304      \* 0x18000

EventFds == 256 .. 319
PipeFds == 384 .. 447

\* The first of a layer's numbers that is not in use.
NewNumber(layer, used) ==
  LET first == CASE layer = "newlib"  -> 3
                 [] layer = "eventfd" -> 256
                 [] layer = "pipe"    -> 384
                 [] layer = "fios"    -> FirstFios
  IN Min((first .. first + Cardinality(used)) \ used)

\* read_delegate, lseek_delegate and close_soloader.
Delegate(fd) == IF fd < FirstFios THEN "newlib" ELSE "fios"

RouteRead(fd) ==
  IF fd \in EventFds THEN "eventfd"
  ELSE IF fd \in PipeFds THEN "pipe"
  ELSE Delegate(fd)

RouteWrite(fd) ==
  IF fd \in EventFds THEN "eventfd"
  ELSE IF fd \in PipeFds THEN "pipe"
  ELSE "newlib"

\* fstat_soloader and fsync_soloader.
RouteQuery(fd) == "newlib"

\* dup and ftruncate, which nothing translates.
RouteOther(fd) == "newlib"
=============================================================================
