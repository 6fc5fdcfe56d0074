-------------------------------- MODULE Utf --------------------------------
(***************************************************************************)
(* The conversions between UTF-8 and UTF-16 of the fake JNI (converter.c). *)
(* A byte, a UTF-16 unit and a code point are numbers; masks and shifts    *)
(* are written as divisions and remainders.  Both conversions write into a *)
(* buffer of a given size: a code point for which there is no room left is *)
(* skipped, and a later, shorter one may still be written.                 *)
(***************************************************************************)
EXTENDS Integers, SequencesExt

INVALID_CODEPOINT == 65533
BMP_END           == 65535
UNICODE_MAX       == 1114111

\* UTF-16 units, and bytes.
Units == 0 .. 65535
Bytes == 0 .. 255

IsSurrogate(u)     == u \div 2048 = 27     \* u & 0xF800 = 0xD800
IsHighSurrogate(u) == u \div 1024 = 54     \* u & 0xFC00 = 0xD800
IsLowSurrogate(u)  == u \div 1024 = 55     \* u & 0xFC00 = 0xDC00
IsContinuation(b)  == b \div 64 = 2        \* b & 0xC0 = 0x80

\* A code point and the index of the last character it was made of.
Code(c, i) == [code |-> c, last |-> i]

decode_utf16(s, i) ==
  IF ~IsSurrogate(s[i])
    THEN Code(s[i], i)
  ELSE IF IsHighSurrogate(s[i]) /\ i < Len(s) /\ IsLowSurrogate(s[i + 1])
    THEN Code(65536 + (s[i] % 1024) * 1024 + (s[i + 1] % 1024), i + 1)
  ELSE Code(INVALID_CODEPOINT, i)

calculate_utf8_len(c) ==
  IF c <= 127 THEN 1 ELSE IF c <= 2047 THEN 2 ELSE IF c <= 65535 THEN 3 ELSE 4

\* The bits of the leading byte that tell the length of the encoding.
utf8_leading_bytes == <<0, 192, 224, 240>>

\* The k-th byte, counted from 0, of the encoding of c in n bytes: six bits
\* each, the highest first.
EncodedByte(c, n, k) ==
  LET bits == c \div <<1, 64, 4096, 262144>>[n - k]
  IN  IF k = 0 THEN utf8_leading_bytes[n] + bits ELSE 128 + (bits % 64)

encode_utf8(c) ==
  LET n == calculate_utf8_len(c) IN [k \in 1 .. n |-> EncodedByte(c, n, k - 1)]

calculate_utf16_len(c) == IF c <= BMP_END THEN 1 ELSE 2

encode_utf16(c) ==
  IF c <= BMP_END THEN <<c>>
  ELSE <<55296 + ((c - 65536) \div 1024), 56320 + ((c - 65536) % 1024)>>

\* How many bytes the leading byte announces; 0 if it matches no pattern.
AnnouncedLen(b) ==
  CASE b < 128 -> 1 [] b \div 32 = 6 -> 2 [] b \div 16 = 14 -> 3 [] b \div 8 = 30 -> 4
    [] OTHER -> 0

\* The continuation bytes that follow byte i, at most n of them.
FollowingBytes(s, i, n) ==
  LET Run(k) == i + k <= Len(s) /\ \A j \in 1 .. k : IsContinuation(s[i + j])
  IN  Max({k \in 0 .. n : Run(k)})

\* Overlong encodings, surrogates and numbers beyond Unicode are no code points.
IsProper(c, n) ==
  /\ calculate_utf8_len(c) = n
  /\ ~IsSurrogate(c) \/ c >= BMP_END
  /\ c <= UNICODE_MAX

decode_utf8(s, i) ==
  LET n == AnnouncedLen(s[i])
      k == FollowingBytes(s, i, IF n = 0 THEN 0 ELSE n - 1)
      With(bits, j) == IF j <= k THEN bits * 64 + (s[i + j] % 64) ELSE bits
      c == With(With(With(s[i] - utf8_leading_bytes[n], 1), 2), 3)
  IN  IF n > 0 /\ k = n - 1 /\ IsProper(c, n) THEN Code(c, i + k)
      ELSE Code(INVALID_CODEPOINT, i + k)

-----------------------------------------------------------------------------
(* The loops of utf16_to_utf8 and of utf8_to_utf16, by what they write *)

Decoded(to, s, i) == IF to = "utf8" THEN decode_utf16(s, i) ELSE decode_utf8(s, i)
Encoded(to, c) == IF to = "utf8" THEN encode_utf8(c) ELSE encode_utf16(c)

\* One turn: "next" is the index of the character that is read next, "out" what
\* is written.  A code point for which there is no room is left out.
Turn(to, s, room, at) ==
  LET d == Decoded(to, s, at.next)
      more == Encoded(to, d.code)
  IN  IF at.next > Len(s) THEN at
      ELSE [next |-> d.last + 1,
            out |-> IF Len(at.out) + Len(more) <= room THEN at.out \o more ELSE at.out]

\* After each turn; there are at most as many as there are characters.
Converting(to, s, room) ==
  LET Loop[k \in 0 .. Len(s)] ==
        IF k = 0 THEN [next |-> 1, out |-> <<>>] ELSE Turn(to, s, room, Loop[k - 1])
  IN  Loop

\* A buffer after the first Len(written) places have been written.
Over(buffer, written) == [i \in DOMAIN buffer |-> IF i <= Len(written) THEN written[i]
                                                  ELSE buffer[i]]

utf16_to_utf8(utf16, utf8) == Over(utf8, Converting("utf8", utf16, Len(utf8))[Len(utf16)].out)

utf8_to_utf16(utf8, utf16) == Over(utf16, Converting("utf16", utf8, Len(utf16))[Len(utf8)].out)

-----------------------------------------------------------------------------
(* UTF-8 as the standard has it, to say which texts are *)

\* The n bytes of s from i are a character.
CharacterAt(s, i, n) ==
  LET b(k) == s[i + k - 1]
      Within(k, first, last) == first <= b(k) /\ b(k) <= last
  IN  /\ i + n - 1 <= Len(s)
      /\ \/ n = 1 /\ Within(1, 0, 127)
         \/ n = 2 /\ Within(1, 194, 223)
         \/ n = 3 /\ Within(1, 224, 239) /\ (b(1) = 224 => b(2) >= 160) /\ (b(1) = 237 => b(2) < 160)
         \/ n = 4 /\ Within(1, 240, 244) /\ (b(1) = 240 => b(2) >= 144) /\ (b(1) = 244 => b(2) < 144)
      /\ \A k \in 2 .. n : Within(k, 128, 191)

\* One character starts at the first byte, and another one where each ends.
WellFormed(s) ==
  /\ s \in Seq(Bytes)
  /\ \E starts \in SUBSET (1 .. Len(s) + 1) :
       /\ 1 \in starts
       /\ \A i \in starts \ {Len(s) + 1} : \E n \in 1 .. 4 : CharacterAt(s, i, n) /\ i + n \in starts
=============================================================================
