--------------------------- MODULE MCReactorSync ---------------------------
(* ReactorSync on a tree of four processes, 0 - (1 - (3), 2), with two     *)
(* tags: one is synchronised on twice, so that a call can find the first   *)
(* round still open, the other once, so that the orders can cross.         *)
EXTENDS ReactorSync

MCTags == {"iteration", "other"}

MCMaxCalls == [t \in MCTags |-> IF t = "iteration" THEN 2 ELSE 1]
============================================================================
