--------------------------- MODULE MCTerminalPage ---------------------------
(* Instances for checking TerminalPage with TLC, and the laws of the keys   *)
(* its soft keyboard sends.                                                 *)
EXTENDS TerminalPage, KeySequences

Calm == [relay |-> TRUE, sealed |-> FALSE, drops |-> FALSE, rivals |-> FALSE, slow |-> FALSE,
         keys |-> FALSE, sessions |-> 2, turns |-> MaxTurns, outs |-> 0]

\* A calm page, one that loses its connection over the relay or in the LAN,
\* one whose tabs are closed and opened again while output comes, one among
\* rivals with a slow host, one whose user has a soft keyboard, and two
\* that encrypt.  Three sessions where it matters who created which.
SomeWorlds ==
    {Calm, [Calm EXCEPT !.sessions = MaxSession, !.turns = 2],
     [Calm EXCEPT !.drops = TRUE, !.turns = 1, !.outs = MaxOut], [Calm EXCEPT !.turns = 2, !.outs = MaxOut],
     [Calm EXCEPT !.relay = FALSE, !.drops = TRUE, !.turns = 1],
     [Calm EXCEPT !.rivals = TRUE, !.slow = TRUE, !.sessions = MaxSession, !.turns = 1],
     [Calm EXCEPT !.keys = TRUE, !.turns = 1],
     [Calm EXCEPT !.sealed = TRUE, !.drops = TRUE, !.keys = TRUE, !.sessions = 1, !.turns = 1],
     [Calm EXCEPT !.sealed = TRUE, !.keys = TRUE, !.turns = 0]}

OneWorld == {Calm}
=============================================================================
