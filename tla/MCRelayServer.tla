--------------------------- MODULE MCRelayServer ---------------------------
(* Bounds and symmetry for checking RelayServer with TLC. *)
EXTENDS RelayServer, TLC

\* Sockets and sub-codes are interchangeable: nothing orders them.
Symmetry == Permutations(Ctl) \cup Permutations(Joiner) \cup Permutations(SubCode)
=============================================================================
