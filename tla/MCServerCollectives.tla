------------------------ MODULE MCServerCollectives ------------------------
(* Three servers in a chain, 0 - 1 - 2, so that one passes on what it      *)
(* receives: a path of the binary tree the program builds.  The variable   *)
(* mesh does not vary in time.                                             *)
EXTENDS ServerCollectives

MCTags == {BCAST_EVENT, VISIT_CONNECTED}

MCStored == <<"mesh", "field">>
MCWritten == [k \in 1..2 |-> <<[var |-> "mesh", block |-> 0],
                               [var |-> "field", block |-> 0]>>]

Parts(clients, iterations, signallers, visit, collective, stops) ==
  [clients |-> clients, iterations |-> iterations, signallers |-> signallers,
   visit |-> visit, collective |-> collective, stops |-> stops]

EventsAndStops == {Parts(1, 1, {0, 2}, 0, FALSE, TRUE)}

MCConfigs ==
  {Parts(1, 2, {0, 2}, 0, FALSE, FALSE),
   Parts(1, 1, {2}, 1, FALSE, FALSE),
   Parts(1, 1, {0, 2}, 0, TRUE, TRUE),
   Parts(1, 1, {}, 2, FALSE, TRUE),
   Parts(2, 2, {}, 0, TRUE, TRUE)}
============================================================================
