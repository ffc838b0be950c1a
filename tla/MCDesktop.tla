------------------------------ MODULE MCDesktop ------------------------------
(* Instances for checking RelaySettings, and with it Desktop and PluginHost,*)
(* and the laws of Startup with TLC.                                       *)
EXTENDS RelaySettings, Startup

a   == [on |-> TRUE,  at |-> "a", code |-> TRUE, lan |-> FALSE, clear |-> TRUE]
b   == [on |-> TRUE,  at |-> "b", code |-> TRUE, lan |-> FALSE, clear |-> FALSE]
lan == [on |-> TRUE,  at |-> "a", code |-> TRUE, lan |-> TRUE,  clear |-> TRUE]
off == [on |-> FALSE, at |-> "a", code |-> TRUE, lan |-> FALSE, clear |-> TRUE]

\* An orderly user of the program without its windows.
Away == [overlap |-> FALSE, late |-> FALSE, hasty |-> FALSE, user |-> "away",
         configs |-> {a, b, lan, off}, applies |-> 2, launches |-> 2, says |-> {"registered", "reconnecting"},
         wire |-> 1, panels |-> 1, requests |-> 1]

Once == [Away EXCEPT !.configs = {a, off}, !.applies = 1, !.launches = 1, !.says = {"registered"}]

\* Besides, one who does not wait, one whose processes do not hurry, and one
\* where all may happen; and users who open and close windows, use the tray,
\* the settings form and the sub-codes.
SomeWorlds ==
    {Away,
     [Away EXCEPT !.overlap = TRUE],
     [Away EXCEPT !.late = TRUE],
     [Away EXCEPT !.overlap = TRUE, !.late = TRUE, !.hasty = TRUE, !.launches = 1],
     [Once EXCEPT !.hasty = TRUE, !.user = "window", !.launches = 2],
     [Once EXCEPT !.user = "tray"],
     [Once EXCEPT !.user = "tray", !.requests = 2, !.configs = {a}, !.applies = 0],
     [Once EXCEPT !.overlap = TRUE, !.user = "form", !.configs = {a}, !.says = @ \cup {"parked"}, !.panels = 2],
     [Once EXCEPT !.user = "form", !.configs = {a}, !.says = @ \cup {"parked"}, !.applies = 0, !.panels = 2, !.wire = 2],
     [Once EXCEPT !.user = "codes", !.configs = {a}, !.applies = 0],
     [Once EXCEPT !.user = "codes", !.configs = {a}, !.says = {}]}
=============================================================================
