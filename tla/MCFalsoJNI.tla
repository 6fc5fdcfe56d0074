----------------------------- MODULE MCFalsoJNI -----------------------------
(* Two threads, one object; texts of ASCII and of two- and four-byte        *)
(* characters; a fresh unit holds a letter or half of a surrogate pair.      *)
EXTENDS FalsoJNI

CONSTANTS t1, t2, o1

MCThreads == {t1, t2}
MCObjects == {o1}
MCTexts == {<<65>>, <<195, 169, 66>>, <<240, 159, 152, 128>>}
MCUnitTexts == {<<65>>, <<233>>}
MCGarbage == {65, 55357}
MCLengths == {2, 3}
MCDeletedKinds == {"array", "string"}
MCAllKinds == Kinds
=============================================================================
