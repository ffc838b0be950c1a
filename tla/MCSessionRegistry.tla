------------------------- MODULE MCSessionRegistry -------------------------
(* Symmetry for checking the safety of SessionRegistry with TLC, and the    *)
(* laws of the replay its sessions keep.                                    *)
EXTENDS SessionRegistry, ReplayBuffer, TLC

\* Session identifiers are interchangeable: nothing orders them.
SessionSymmetry == Permutations(Session)
=============================================================================
