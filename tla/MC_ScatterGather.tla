-------------------------- MODULE MC_ScatterGather --------------------------
(* Bounds for one call of the scatter-gather copy: vectors of one to three *)
(* spans holding two elements in all (so empty spans and a span boundary  *)
(* at every position occur), positions and counts up to the end of such a *)
(* vector, element sizes 1 and 2 so that size-converting copies cross     *)
(* span boundaries in the middle of an element.                            *)
EXTENDS Strings

MCLayouts == { l \in UNION { [1 .. n -> 0 .. 2] : n \in 1 .. 3 } : VecLen(l) <= 2 }
MCPositions == 0 .. 2
MCCounts == 0 .. 2
MCElemSizes == {1, 2}

(* Strings of up to two bytes over a zero byte, a small byte and a byte  *)
(* above 127, so that signed and unsigned comparison disagree.           *)
MCBytes == {0, 1, 200}
MCMaxStrLen == 2
=============================================================================
