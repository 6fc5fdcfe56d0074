----------------------------- MODULE Formatter ------------------------------
(***************************************************************************)
(* usprintf_patched (patches/usprintf.h), which stands in for the game's   *)
(* formatting of dialogues into buffers of 16-bit units.  The buffers'     *)
(* sizes are unknown, so the output is cut at a fixed number of units.     *)
(*                                                                         *)
(* A format is a sequence of items; a unit of the text is the item, the    *)
(* argument it shows and its place in the item's text.  The game's formats *)
(* end in no single '%' and have no more specifiers than the seven         *)
(* arguments; the code reads past the format and the arguments otherwise.  *)
(***************************************************************************)
EXTENDS Naturals, Sequences, SequencesExt

CONSTANTS
  Formats,      \* formats: sequences of items [is, length]
  MaxOutput     \* USPRINTF_MAX_OUTPUT

Items == [is : {"character", "percent", "c", "unknown", "d", "s", "f"}, length : Nat]

ASSUME FormatterAssumption == Formats \subseteq Seq(Items) /\ MaxOutput \in Nat \ {0}

VARIABLES
  format,
  item,         \* format_ptr
  unit,         \* units of this item's text that are copied
  arg_index,
  text,         \* the units written so far
  terminator    \* index of the null unit, or NoTerminator while there is none

NoTerminator == MaxOutput + 1

formatVars == <<format, item, unit, arg_index, text, terminator>>

\* A character of the format, '%%', %c and an unknown specifier give one
\* unit; %d, %f and %s as many as their text has, none for a null string.
Units(i) == IF i.is \in {"character", "percent", "c", "unknown"} THEN 1 ELSE i.length

TakesArgument(i) == i.is \in {"d", "c", "s", "f"}

FormatterInit ==
  /\ format \in Formats
  /\ item = 1 /\ unit = 0 /\ arg_index = 0
  /\ text = <<>> /\ terminator = NoTerminator

Formatting == terminator = NoTerminator
InItem == Formatting /\ item <= Len(format)

\* Mutant: the unit of the terminator is used for text.
HasRoomForOneMore == Len(text) <= MaxOutput - 1

\* output_ptr < output_end: the last unit is the terminator's.
HasRoom == Len(text) < MaxOutput - 1

CopyUnit ==
  /\ InItem /\ unit < Units(format[item])
  /\ HasRoom
  /\ text' = Append(text, <<item, arg_index, unit + 1>>)
  /\ unit' = unit + 1
  /\ UNCHANGED <<format, item, arg_index, terminator>>

NextItem ==
  /\ InItem /\ unit = Units(format[item])
  /\ item' = item + 1 /\ unit' = 0
  /\ arg_index' = IF TakesArgument(format[item]) THEN arg_index + 1 ELSE arg_index
  /\ UNCHANGED <<format, text, terminator>>

\* overflow
Truncate ==
  /\ InItem /\ unit < Units(format[item])
  /\ ~HasRoom
  /\ terminator' = MaxOutput - 1
  /\ UNCHANGED <<format, item, unit, arg_index, text>>

EndText ==
  /\ Formatting /\ item > Len(format)
  /\ terminator' = Len(text)
  /\ UNCHANGED <<format, item, unit, arg_index, text>>

FormatterNext == CopyUnit \/ NextItem \/ Truncate \/ EndText

-----------------------------------------------------------------------------
(* Properties *)

\* The whole text: every item in turn, each with the argument that follows
\* those of the items before it.
WholeText ==
  LET argument(i) == Cardinality({j \in 1 .. i - 1 : TakesArgument(format[j])})
  IN FlattenSeq([i \in 1 .. Len(format) |->
                   [u \in 1 .. Units(format[i]) |-> <<i, argument(i), u>>]])

\* Whatever is formatted, all that is ever written lies inside the limit, and
\* in the end the buffer holds the text, cut at the limit, and a terminator
\* right behind it.
TextFits ==
  /\ Len(text) <= MaxOutput
  /\ terminator # NoTerminator =>
       /\ terminator < MaxOutput
       /\ SubSeq(text, 1, terminator) =
            SubSeq(WholeText, 1, IF Len(WholeText) < MaxOutput THEN Len(WholeText)
                                 ELSE MaxOutput - 1)
=============================================================================
