----------------------------- MODULE MCHostDoor -----------------------------
(* Instances for checking HostDoor with TLC.                               *)
EXTENDS HostDoor, TLC

Symmetry == Permutations(Post)

\* Many logins; pipes and one login; many pipes; a host without a relay.
SomeVisits ==
    {[relay |-> TRUE, posts |-> 3, conns |-> 0],
     [relay |-> TRUE, posts |-> 1, conns |-> 1],
     [relay |-> TRUE, posts |-> 0, conns |-> 3],
     [relay |-> FALSE, posts |-> 1, conns |-> 1]}
=============================================================================
