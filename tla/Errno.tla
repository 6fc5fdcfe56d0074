-------------------------------- MODULE Errno --------------------------------
(***************************************************************************)
(* errno as the game sees it (reimpl/errno.c).  The game is compiled for   *)
(* bionic: its "errno" is the integer that __errno points at, in bionic's  *)
(* numbers.  Here this is an entry of the translation table itself: the    *)
(* one for the thread's newlib errno.  The table is shared by all threads, *)
(* so "errno = 0" in the game changes the translation of that error for    *)
(* good and leaves newlib's errno alone.                                   *)
(***************************************************************************)
EXTENDS Naturals, Sequences, FiniteSetsExt

CONSTANTS
  Workers,            \* the game's threads
  Translation,        \* the installed table: sequence of [newlib, bionic]
  UnknownErrors       \* numbers of newlib that are not in it

Known == {Translation[i].newlib : i \in DOMAIN Translation}
ASSUME ErrnoAssumption ==
  /\ Translation \in Seq([newlib : Nat, bionic : Nat]) /\ Len(Translation) > 0
  /\ Translation[1] = [newlib |-> 0, bionic |-> 0]
  /\ \A i, j \in DOMAIN Translation : Translation[i].newlib = Translation[j].newlib => i = j
  /\ UnknownErrors \cap Known = {}

VARIABLES
  errno_translation,  \* entry -> its number for the game now
  errno,              \* thread -> newlib's errno
  address,            \* thread -> the entry __errno gave it, 0 if none
  seen,               \* what the step read: error, number and the entry of the text
  overwritten         \* history: entries that the game stored to

errnoVars == <<errno_translation, errno, address, seen, overwritten>>

Nothing == [error |-> 0, number |-> 0, told |-> 1]

ErrnoInit ==
  /\ errno_translation = [i \in DOMAIN Translation |-> Translation[i].bionic]
  /\ errno = [t \in Workers |-> 0]
  /\ address = [t \in Workers |-> 0]
  /\ seen = Nothing
  /\ overwritten = {}

\* A call of newlib or of the port fails, or one succeeds and leaves errno.
FailWith(t, e) ==
  /\ address[t] = 0
  /\ errno' = [errno EXCEPT ![t] = e]
  /\ seen' = Nothing
  /\ UNCHANGED <<errno_translation, address, overwritten>>

\* Mutant: the column that is compared is bionic's.
OfBionic(i, e) == errno_translation[i] = e

OfNewlib(i, e) == Translation[i].newlib = e

\* Entry 1, "Success", for an error that is not in the table.
__errno_soloader(t) ==
  LET found == {i \in DOMAIN Translation : OfNewlib(i, errno[t])}
  IN  /\ address[t] = 0
      /\ address' = [address EXCEPT ![t] = IF found = {} THEN 1 ELSE Min(found)]
      /\ seen' = Nothing
      /\ UNCHANGED <<errno_translation, errno, overwritten>>

\* The game reads errno and asks for its text: strerror takes the first entry
\* that has the number, strerror_r the last.
ReadErrno(t) ==
  LET number == errno_translation[address[t]]
      found == {i \in DOMAIN Translation : errno_translation[i] = number}
  IN  /\ address[t] # 0
      /\ \E i \in {Min(found), Max(found)} :
           seen' = [error |-> errno[t], number |-> number, told |-> i]
      /\ address' = [address EXCEPT ![t] = 0]
      /\ UNCHANGED <<errno_translation, errno, overwritten>>

\* errno = 0
StoreErrno(t) ==
  /\ address[t] # 0
  /\ errno_translation' = [errno_translation EXCEPT ![address[t]] = 0]
  /\ overwritten' = overwritten \cup {address[t]}
  /\ address' = [address EXCEPT ![t] = 0]
  /\ seen' = Nothing
  /\ UNCHANGED errno

ErrnoNext ==
  \E t \in Workers :
    \/ \E e \in Known \cup UnknownErrors : FailWith(t, e)
    \/ __errno_soloader(t) \/ ReadErrno(t) \/ StoreErrno(t)

-----------------------------------------------------------------------------
(* Properties *)

Bionic(e) ==
  IF e \in Known
  THEN Translation[CHOOSE i \in DOMAIN Translation : Translation[i].newlib = e].bionic ELSE 0

\* What a thread reads is bionic's number of its own last error, and the text
\* is that of an error with this number, whatever the other threads fail with;
\* 0 and a wrong text are possible only where the game stored to errno while
\* some thread had that error, which every thread then suffers.
ErrorsAreTranslated ==
  LET lost == {Translation[i].newlib : i \in overwritten}
  IN  /\ seen.number = IF seen.error \in lost THEN 0 ELSE Bionic(seen.error)
      /\ Translation[seen.told].bionic = seen.number \/ seen.told \in overwritten
=============================================================================
