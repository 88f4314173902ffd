----------------------------- MODULE MCSession -----------------------------
(* Five small machines.  Dedicated cores with shared memory: two nodes     *)
(* with a client and a server each; a segment of two blocks on one node;   *)
(* both killed or not and started again; four clients and two servers on a *)
(* node.  Clients without: two on a node with one server, two with one     *)
(* dedicated node.                                                         *)
EXTENDS Session

Machine(mode, nodes, cores, dedicated, buffer, blocks, killed, jobs) ==
  [mode |-> mode, nodes |-> nodes, cores |-> cores, dedicated |-> dedicated,
   buffer |-> buffer, blocks |-> blocks, killed |-> killed, jobs |-> jobs,
   buffered |-> IF cores > 3 THEN {TRUE} ELSE BOOLEAN]

MCConfigs ==
  {Machine("cores", 2, 2, 1, TRUE, 1, TRUE, 2),
   Machine("cores", 1, 2, 1, TRUE, 2, TRUE, 2),
   Machine("cores", 1, 6, 2, TRUE, 1, FALSE, 1),
   Machine("cores", 1, 3, 1, FALSE, 1, FALSE, 1),
   Machine("nodes", 3, 1, 1, FALSE, 1, FALSE, 1)}
============================================================================
