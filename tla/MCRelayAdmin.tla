---------------------------- MODULE MCRelayAdmin ----------------------------
(* Instances for checking RelayAdmin with TLC. *)
EXTENDS RelayAdmin, TLC

Doors == [kind |-> "doors", known |-> 0, admin |-> 0, days |-> {1}, page |-> FALSE, plugin |-> FALSE,
          commands |-> {}, span |-> MaxTime, width |-> 2, tokens |-> 1, asks |-> 7,
          passwords |-> {1}, leaves |-> FALSE]
Used == [Doors EXCEPT !.asks = 4, !.page = TRUE, !.admin = 1, !.known = 1]

Logins == [Used EXCEPT !.kind = "logins", !.admin = 0, !.commands = {"set-admin"},
                       !.passwords = Password, !.width = 3, !.span = 2]
Masters == [Used EXCEPT !.kind = "masters", !.span = 2]
Commands == [Masters EXCEPT !.commands = {"add-master", "renew-master", "revoke-master"}, !.span = 1]
Access == [Used EXCEPT !.kind = "access", !.commands = {"bind-access"}, !.span = 1, !.leaves = TRUE]
Subs == [Used EXCEPT !.kind = "subs", !.span = 2, !.tokens = MaxTok]
Plugins == [Subs EXCEPT !.known = 2, !.plugin = TRUE, !.span = 1, !.asks = 3, !.tokens = 1]

\* Slots only name requests.
Symmetry == Permutations(Slots)

\* Failures at the doors; logins, with and without a password set; master
\* codes; the command line beside them; the address of the relay; sub-codes
\* asked for by the page, and by the page and a plugin.
SomeWorlds == {Doors, Logins, Masters, Commands, Access, Subs, Plugins}
=============================================================================
