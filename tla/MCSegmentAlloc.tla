--------------------------- MODULE MCSegmentAlloc ---------------------------
(* SegmentAlloc with two blocking clients, of which wide asks for as much  *)
(* as two of the others, one that does not block and, in big, one that     *)
(* asks for more than the segment can ever hold.                           *)
EXTENDS SegmentAlloc

CONSTANTS p1, p2, p3, wide, big

MCSize == [p \in Procs |-> IF p = big THEN MaxSize + 1
                           ELSE IF p = wide THEN 2 ELSE 1]

MCMaxCalls == [p \in Procs |-> IF p \in {p3, big} THEN 1 ELSE 2]
============================================================================
