------------------------ MODULE MCIterationProtocol ------------------------
(* IterationProtocol with two servers of two clients each.                 *)
EXTENDS IterationProtocol

CONSTANTS c1, c2, c3, c4, s1, s2

MCClients == {c1, c2, c3, c4}

MCServers == {s1, s2}

MCServerOf == [c \in MCClients |-> IF c \in {c1, c2} THEN s1 ELSE s2]
============================================================================
