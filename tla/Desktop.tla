------------------------------- MODULE Desktop -------------------------------
(***************************************************************************)
(* The windows of the desktop program and its tray (src/main/main.ts,      *)
(* src/main/tray.ts), around the launch, the plugin and the shutdown of    *)
(* PluginHost; and the requests that windows and tray have the controller  *)
(* make to the plugin (src/main/relayController.ts), which the plugin makes*)
(* to its relay.                                                           *)
(*                                                                         *)
(* One page is in the window.  What the main program sends it, replies and *)
(* status events alike, arrives in the order it was sent.                  *)
(***************************************************************************)
EXTENDS PluginHost

CONSTANTS
    Code,      \* sub-codes
    MaxTokens  \* bound: rotations of the access token

ASSUME DeskAssumption == MaxTokens \in Nat

VARIABLES
    window,  \* none, loading, live, or blank: its page could not start
    wire,    \* messages to the page
    asks,    \* what each request to the plugin is for, and its answer
    subs,    \* the sub-codes at each relay
    tray     \* the menu, the token, the information window, calls that show it;
             \* history: whether the QR images came in the order of their calls

deskVars == <<window, wire, asks, subs, tray>>

Code2State == [Code -> {"none", "live", "revoked"}]
Nothing == [what |-> "nothing", by |-> 0, code |-> None, got |-> None]
Ask == [what : {"nothing", "list", "view", "share", "revoke", "force", "copy", "info"},
        by : Nat, code : Code \cup {None}, got : Code2State \cup {None}]
Info == [relay : BOOLEAN, url : 0 .. MaxTokens]
Tray == [menu : {"none", "off", "conn", "on"}, token : 0 .. MaxTokens, shows : Seq(Info), inOrder : BOOLEAN,
         info : {None} \cup [relay : BOOLEAN, url : 0 .. MaxTokens, token : 0 .. MaxTokens]]

\* To the page: a status event, answers with the settings, other answers.
Told(what, by) == [what : {what}, by : by, cfg : Config, state : State, restart : BOOLEAN]
Answers == [what : {"list", "view", "share", "revoke", "force"},
            by : Nat, code : Code \cup {None}, got : Code2State \cup {None}]
Message == [what : {"status"}, state : State] \cup Told("settings", Nat) \cup Told("applied", Caller)
           \cup [what : {"preview"}, by : Nat] \cup Answers

DeskTypeOK ==
    /\ TypeOK
    /\ window \in {"none", "loading", "live", "blank"}
    /\ wire \in Seq(Message)
    /\ asks \in [Req -> Ask]
    /\ subs \in [Relay -> Code2State]
    /\ tray \in Tray

DeskInit ==
    /\ Init
    /\ window = "none" /\ wire = <<>>
    /\ asks = [r \in Req |-> Nothing]
    /\ subs = [at \in Relay |-> [c \in Code |-> "none"]]
    /\ tray = [menu |-> "none", token |-> 0, info |-> None, shows |-> <<>>, inOrder |-> TRUE]

-----------------------------------------------------------------------------
(* What the controller says, and to whom *)

(* stateSummary *)
Summary(h, c) ==
    IF ~Effective(c).on THEN "off" ELSE IF h.told = "registered" THEN "on" ELSE "conn"

Rebuilt(menu, h, c) == IF menu = "none" THEN "none" ELSE Summary(h, c)

ToPage(msgs) == wire' = IF window = "live" THEN wire \o msgs ELSE wire

RoomOnWire == Len(wire) < world.wire

(* An answer to the page that asked; to the tray's it makes an Info. *)
Answer(r, ok) == [what |-> asks[r].what, by |-> asks[r].by, code |-> asks[r].code,
                  got |-> IF ok THEN asks[r].got ELSE None]

Link(ok) == [relay |-> ok, url |-> tray.token]

Pending == {r \in Req : host.asked[r] # None}

(* The requests that end with this step, without an answer. *)
Dropped == {r \in Pending : host'.asked[r] = None}

ForPage(rs) == {r \in rs : asks[r].what \notin {"copy", "info"}}

EndsUnanswered(first, last) ==
    LET failed == {Answer(r, FALSE) : r \in ForPage(Dropped)}
        infos  == {r \in Dropped : asks[r].what = "info"}
    IN  /\ ToPage(first \o SetToSeq(failed) \o last)
        /\ asks' = [r \in Req |-> IF r \in Dropped THEN Nothing ELSE asks[r]]
        /\ tray' = [tray EXCEPT
              !.menu = IF first = <<>> THEN @ ELSE Rebuilt(@, host', saved),
              !.shows = @ \o [i \in 1 .. Cardinality(infos) |-> Link(FALSE)]]

StatusTo(s) == [what |-> "status", state |-> s]

-----------------------------------------------------------------------------
(* The window *)

Windowed == world.user # "away"

CreateWindow == window' = IF window = "none" /\ Windowed THEN "loading" ELSE window

(* startRemoteServer has succeeded: the tray and the first window are made. *)
BootUp ==
    /\ Listening /\ CreateWindow
    /\ tray' = [tray EXCEPT !.menu = IF Windowed THEN Summary(host', saved) ELSE @]
    /\ UNCHANGED <<wire, asks, subs>>

(* A second instance, the dock, or the tray shows the window. *)
ShowWindow ==
    /\ world.user = "window" /\ app # "gone"
    /\ CreateWindow
    /\ UNCHANGED <<vars, wire, asks, subs, tray>>

(* The page asks for its sessions; without the handlers it stays as it is. *)
PageLoads ==
    /\ window = "loading" /\ app # "gone"
    /\ window' = IF Up THEN "live" ELSE "blank"
    /\ UNCHANGED <<vars, wire, asks, subs, tray>>

(* The program leaves: tray and windows go too. *)
AllGone ==
    /\ Quit \/ QuitAgain
    /\ window' = "none" /\ wire' = <<>>
    /\ asks' = [r \in Req |-> Nothing]
    /\ tray' = [menu |-> "none", token |-> 0, info |-> None, shows |-> <<>>, inOrder |-> TRUE]
    /\ UNCHANGED subs

-----------------------------------------------------------------------------
(* Requests *)

(* A request of the page or the tray, if the plugin runs. *)
Asked(what, by, code) ==
    /\ Cardinality(Pending) < world.requests
    /\ LET r == CHOOSE q \in Req \ Pending : TRUE
       IN  /\ Request(r)
           /\ asks' = [asks EXCEPT ![r] = [Nothing EXCEPT !.what = what, !.by = by, !.code = code]]

(* The plugin has its relay do it, also while it was told to stop. *)
Serve(r) ==
    /\ host.asked[r] # None /\ asks[r].got = None
    /\ host.proc[host.asked[r]].st \in {"running", "told"}
    /\ LET at == host.proc[host.asked[r]].cfg.at
           code == asks[r].code
       IN  /\ subs' = CASE asks[r].what = "share" -> [subs EXCEPT ![at][code] = "live"]
                       []   asks[r].what = "revoke" ->
                                [subs EXCEPT ![at][code] = IF @ = "live" THEN "revoked" ELSE "none"]
                       []   OTHER -> subs
           /\ asks' = [asks EXCEPT ![r].got = subs'[at]]
    /\ UNCHANGED <<vars, window, wire, tray>>

(* The answer comes, or 10 s have passed. *)
Answered(r) ==
    /\ RoomOnWire /\ Settle(r)
    /\ LET ok == asks[r].got # None
       IN  /\ ToPage(IF ForPage({r}) = {} THEN <<>> ELSE <<Answer(r, ok)>>)
           /\ tray' = IF asks[r].what = "info" THEN [tray EXCEPT !.shows = Append(@, Link(ok))] ELSE tray
    /\ asks' = [asks EXCEPT ![r] = Nothing]
    /\ UNCHANGED <<window, subs>>

-----------------------------------------------------------------------------
(* The tray *)

HasTray == world.user = "tray" /\ tray.menu # "none"

(* copyShareLink; shareLink refuses while the plugin is not registered. *)
CopyShare ==
    /\ HasTray /\ tray.menu = "on" /\ host.state = "registered"
    /\ Asked("copy", 0, None)
    /\ UNCHANGED <<window, wire, subs, tray>>

(* showAccessInfo begins: with a share link if there can be one. *)
ShowAccessInfo(t) ==
    /\ Len(t.shows) + Cardinality(Pending) < world.requests
    /\ IF Summary(host, saved) = "on" /\ host.state = "registered" /\ host.child # None
       THEN /\ Asked("info", 0, None)
            /\ tray' = t
       ELSE /\ tray' = [t EXCEPT !.shows = Append(@, [relay |-> FALSE, url |-> t.token])]
            /\ UNCHANGED <<vars, asks>>
    /\ UNCHANGED <<window, wire, subs>>

ViewAccess == HasTray /\ app = "up" /\ ShowAccessInfo(tray)

Mutant_RotateToken ==
    /\ HasTray /\ app = "up" /\ tray.token < MaxTokens
    /\ tray' = [tray EXCEPT !.token = @ + 1, !.menu = Summary(host, saved)]
    /\ UNCHANGED <<vars, window, wire, asks, subs>>

(* The token is rotated, the menu built again, the new code shown. *)
RotateToken ==
    /\ HasTray /\ app = "up" /\ tray.token < MaxTokens
    /\ ShowAccessInfo([tray EXCEPT !.token = @ + 1, !.menu = Summary(host, saved)])

(* A QR image is ready, in whichever order; the token is read only now. *)
QrReady(i) ==
    /\ tray' = [tray EXCEPT !.shows = RemoveAt(@, i), !.inOrder = @ /\ i = 1,
                            !.info = [relay |-> tray.shows[i].relay, url |-> tray.shows[i].url, token |-> tray.token]]
    /\ UNCHANGED <<vars, window, wire, asks, subs>>

CloseInfo ==
    /\ tray.info # None
    /\ tray' = [tray EXCEPT !.info = None]
    /\ UNCHANGED <<vars, window, wire, asks, subs>>

-----------------------------------------------------------------------------
NobodyShows == tray.shows = <<>> /\ \A r \in Req : asks[r].what # "info"

(* tray.ts:151, 181: once nobody is making it any more, the information     *)
(* window shows no token that was rotated away: not in the token's row, and *)
(* if no QR image overtook an earlier one, not in the URL and its image,    *)
(* which were made of the token two awaits before.                          *)
InfoIsCurrent ==
    tray.info # None /\ NobodyShows =>
        /\ tray.info.token = tray.token
        /\ tray.inOrder => tray.info.url = tray.token
=============================================================================
