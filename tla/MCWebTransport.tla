--------------------------- MODULE MCWebTransport ---------------------------
(* The ways a page reaches its host, for checking WebTransport with TLC.    *)
EXTENDS WebTransport

Direct == [relay |-> FALSE, enc |-> FALSE, good |-> TRUE]
Plainly == [relay |-> TRUE, enc |-> FALSE, good |-> TRUE]
Encrypted == [relay |-> TRUE, enc |-> TRUE, good |-> TRUE]
Stale == [relay |-> TRUE, enc |-> TRUE, good |-> FALSE]

EveryMode == {Direct, Plainly, Encrypted, Stale}
=============================================================================
