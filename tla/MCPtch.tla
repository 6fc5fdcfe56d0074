------------------------------- MODULE MCPtch -------------------------------
(* Two files: for the first one two patches that overlap and one whose     *)
(* second record is out of bounds, for the second one a patch for another  *)
(* version of it, one that is cut off, and one that fits.                  *)
EXTENDS Ptch

CONSTANTS f1, f2, p1, p2, p3, p4, p5, p6

MCFiles == {f1, f2}
MCOriginal == [f \in MCFiles |-> IF f = f1 THEN <<0, 0, 0>> ELSE <<0, 0>>]
MCPatches == {p1, p2, p3, p4, p5, p6}
MCFewPatches == {p1, p2, p3, p5}

Records(p) ==
  CASE p = p1 -> <<[offset |-> 0, data |-> <<8, 1>>], [offset |-> 0, data |-> <<1>>]>>
    [] p = p2 -> <<[offset |-> 1, data |-> <<2, 2>>]>>
    [] p = p3 -> <<[offset |-> 0, data |-> <<3>>], [offset |-> 2, data |-> <<3, 3>>]>>
    [] p = p4 -> <<[offset |-> 0, data |-> <<4>>]>>
    [] p = p5 -> <<[offset |-> 0, data |-> <<5>>]>>
    [] p = p6 -> <<[offset |-> 0, data |-> <<6, 7>>], [offset |-> 1, data |-> <<6>>]>>

MCPatch ==
  [p \in Patches |->
     [wellFormed |-> TRUE,
      file       |-> IF p \in {p1, p2, p3} THEN f1 ELSE f2,
      size       |-> IF p \in {p1, p2, p3, p4} THEN 3 ELSE 2,
      count      |-> IF p = p5 THEN 2 ELSE Len(Records(p)),
      records    |-> Records(p)]]
=============================================================================
