------------------------------ MODULE Huffman ------------------------------
(***************************************************************************)
(* The decoder of texture blocks in worldAllocateSegments.h.  A block is a *)
(* stream of pixel commands in a Huffman code; codes of up to FastBits     *)
(* bits are looked up in a table that is built once per texture, longer    *)
(* ones are found bit by bit.  The program has FastBits = 8,               *)
(* WordBits = 16, Side = 16 and Colours = 256.                             *)
(***************************************************************************)
EXTENDS Integers, Sequences

CONSTANTS
  FastBits,   \* length of the codes that the fast table decodes
  WordBits,   \* bits of a word of the stream, length of the longest code
  Side,       \* a block has Side rows of Side pixels
  Colours     \* entries of the palette

ASSUME HuffmanAssumption ==
  /\ {FastBits, WordBits, Side, Colours} \subseteq Nat \ {0}
  /\ FastBits < WordBits

-----------------------------------------------------------------------------
(* The tables of a texture: table3[b] is the largest code of b bits and -1    *)
(* when there is none, table2[b] + c is where table1 holds the command of     *)
(* the code c of b bits, table0 the pixels that are likely after a pixel.     *)

Pow2[n \in Nat] == IF n = 0 THEN 1 ELSE 2 * Pow2[n - 1]

First(S) == CHOOSE b \in S : \A c \in S : b <= c

\* The lengths at which the front of the word is a code.
Fits(t, word, width, bits) == {b \in bits : t.table3[b] >= word \div Pow2[width - b]}

Found(t, word, width, b) ==
  [command |-> t.table1[t.table2[b] + word \div Pow2[width - b]], bits |-> b]

FastTable(t) ==
  [i \in 0 .. Pow2[FastBits] - 1 |->
     LET lengths == Fits(t, i, FastBits, 1 .. FastBits)
     IN  IF lengths = {} THEN [command |-> 0, bits |-> 0]
         ELSE Found(t, i, FastBits, First(lengths))]

Decode(t, fast, word) ==
  LET entry == fast[word \div Pow2[WordBits - FastBits]]
  IN  IF entry.bits # 0 THEN entry
      ELSE Found(t, word, WordBits, First(Fits(t, word, WordBits, FastBits + 1 .. WordBits)))

\* WordBits bits from bit start of the stream: the end of one word and the
\* beginning of the next.
WordAt(stream, start) ==
  LET first == 1 + start \div WordBits
  IN  ((stream[first] * Pow2[WordBits] + stream[first + 1])
         \div Pow2[WordBits - (start % WordBits)]) % Pow2[WordBits]

BACK_JUMP_TABLE == <<-1, -Side, -Side - 1, -Side + 1, -2>>

\* Mutant: what is likely does not depend on the last pixel.
PixelAfterZero(t, command, out, prev) ==
  IF command < Colours THEN command
  ELSE IF command < Colours + 5
       THEN out[Len(out) + 1 + BACK_JUMP_TABLE[command - Colours + 1]]
       ELSE t.table0[command - Colours - 5]

\* How a command gets its pixel, from the pixels before it and the last one.
Pixel(t, command, out, prev) ==
  IF command < Colours THEN command
  ELSE IF command < Colours + 5
       THEN out[Len(out) + 1 + BACK_JUMP_TABLE[command - Colours + 1]]
       ELSE t.table0[(command - Colours - 5) + 8 * prev]

NextPixel(t, fast, stream, s) ==
  LET found == Decode(t, fast, WordAt(stream, s.start))
      pixel == Pixel(t, found.command, s.out, s.prev)
  IN  [start |-> s.start + found.bits, prev |-> pixel, out |-> Append(s.out, pixel)]

\* The state after each pixel of a block.
Decoding(t, stream) ==
  LET fast == FastTable(t)
      Loop[k \in 0 .. Side * Side] ==
        IF k = 0 THEN [start |-> 0, prev |-> 0, out |-> <<>>]
        ELSE NextPixel(t, fast, stream, Loop[k - 1])
  IN  Loop

DecodeBlock(t, stream) == Decoding(t, stream)[Side * Side].out

-----------------------------------------------------------------------------
(* Reference: what a canonical code and a stream in it are, to say which     *)
(* textures are.                                                             *)

\* Commands are in the order of their codes, which have lengths[i] bits each;
\* the next code is one more, with zeros behind it where it is longer.
IsCode(code) ==
  LET n == Len(code.commands) IN
  /\ code.commands \in Seq(Nat) /\ code.codes \in Seq(Nat) /\ code.lengths \in Seq(1 .. WordBits)
  /\ Len(code.codes) = n /\ Len(code.lengths) = n
  /\ \A i \in 1 .. n : code.codes[i] < Pow2[code.lengths[i]]
  /\ \A i \in 1 .. n - 1 :
       /\ code.lengths[i] <= code.lengths[i + 1]
       /\ code.codes[i + 1] = (code.codes[i] + 1) * Pow2[code.lengths[i + 1] - code.lengths[i]]

Tables(code) ==
  LET OfLength(b) == {i \in DOMAIN code.lengths : code.lengths[i] = b}
      Codes(b) == {code.codes[i] : i \in OfLength(b)}
  IN  [table0 |-> code.likely,
       table1 |-> [k \in 0 .. Len(code.commands) - 1 |-> code.commands[k + 1]],
       table2 |-> [b \in 1 .. WordBits |->
                     IF OfLength(b) = {} THEN 0 ELSE First(OfLength(b)) - 1 - First(Codes(b))],
       table3 |-> [b \in 1 .. WordBits |->
                     IF Codes(b) = {} THEN -1 ELSE CHOOSE c \in Codes(b) : \A d \in Codes(b) : d <= c]]

\* The bit of x that stands for 2^m.
Bit(x, m) == (x \div Pow2[m]) % 2

\* The bits of a stream are counted from 0, the highest of each word first.
StreamBit(stream, k) == Bit(stream[1 + k \div WordBits], WordBits - 1 - (k % WordBits))

\* A command stands for a pixel when it is the pixel, names an earlier pixel
\* that is equal, or is one of those likely after the pixel before.
Means(code, command, pixels, i) ==
  \/ command = pixels[i]
  \/ /\ command \in Colours .. Colours + 4
     /\ LET j == i + BACK_JUMP_TABLE[command - Colours + 1] IN j >= 1 /\ j < i /\ pixels[j] = pixels[i]
  \/ /\ command >= Colours + 5
     /\ code.likely[(command - Colours - 5) + 8 * (IF i = 1 THEN 0 ELSE pixels[i - 1])] = pixels[i]

\* Each pixel has a command, the chosen[i]-th of the code, and the stream has the
\* code of that command from bit starts[i]: one follows the other.
IsBlock(code, block) ==
  LET n == Side * Side
      Length(i) == code.lengths[block.chosen[i]]
  IN  /\ block.pixels \in [1 .. n -> 0 .. Colours - 1]
      /\ block.chosen \in [1 .. n -> DOMAIN code.commands]
      /\ block.starts \in [1 .. n -> Nat]
      /\ block.stream \in Seq(Nat)
      /\ \A w \in DOMAIN block.stream : block.stream[w] < Pow2[WordBits]
      /\ block.starts[1] = 0
      /\ \A i \in 1 .. n - 1 : block.starts[i + 1] = block.starts[i] + Length(i)
      /\ \A i \in 1 .. n :
           /\ Means(code, code.commands[block.chosen[i]], block.pixels, i)
           /\ block.starts[i] \div WordBits + 2 <= Len(block.stream)
           /\ \A k \in 1 .. Length(i) :
                StreamBit(block.stream, block.starts[i] + k - 1)
                  = Bit(code.codes[block.chosen[i]], Length(i) - k)
=============================================================================
