---------------------------- MODULE RelaySettings ----------------------------
(***************************************************************************)
(* The relay settings panel of the desktop's page                          *)
(* (src/renderer/relaySettings.ts) over the windows and the plugin of      *)
(* Desktop: a form filled when the current settings come, saved as it      *)
(* stands or from a token; the state of the plugin and the button that     *)
(* takes the channel from another device; the list of sub-codes.           *)
(*                                                                         *)
(* A panel that was closed lives on in the handlers that wait for an answer:*)
(* they find their own elements gone, and what they do to the panel of the *)
(* module they do to the one that is open then.                            *)
(***************************************************************************)
EXTENDS Desktop

CONSTANT MaxMasks  \* bound: view masks when another is asked for

VARIABLES
    panel,  \* the open panel, or what is left of the last one
    masks   \* view masks in the page: does each show a link?

all == <<vars, deskVars, panel, masks>>
pageVars == <<panel, masks>>

Blank == [on |-> FALSE, at |-> CHOOSE at \in Relay : TRUE, code |-> FALSE, lan |-> FALSE, clear |-> FALSE]
NoCodes == [c \in Code |-> "none"]

Panel == [id : 0 .. world.panels, open : BOOLEAN, form : Config, state : State \cup {None},
          banner : BOOLEAN, restart : BOOLEAN, text : Relay \cup {None}, offered : BOOLEAN,
          list : Code2State, link : BOOLEAN]

PanelTypeOK == DeskTypeOK /\ panel \in Panel /\ masks \in Seq(BOOLEAN)

New(id, open) ==
    [id |-> id, open |-> open, form |-> Blank, state |-> None, banner |-> FALSE, restart |-> FALSE,
     text |-> None, offered |-> FALSE, list |-> NoCodes, link |-> FALSE]

PanelInit == DeskInit /\ panel = New(0, FALSE) /\ masks = <<>>

Page == window = "live" /\ app # "gone"
OnForm == Page /\ panel.open /\ world.user = "form"
OnList == Page /\ panel.open /\ world.user = "codes"

-----------------------------------------------------------------------------
(* Messages *)

SettingsTo(what, by, h, c) ==
    [what |-> what, by |-> by, cfg |-> Effective(c), state |-> h.state, restart |-> RestartRequired(c)]

Mutant_RenderConflict(p, s) == [p EXCEPT !.banner = p.banner \/ s \in {"occupied", "parked"}]

(* renderConflict: the banner of whichever panel is open. *)
RenderConflict(p, s) == [p EXCEPT !.banner = p.open /\ s \in {"occupied", "parked"}]

Mine(id) == panel.open /\ id = panel.id

(* refreshSubcodes of the open panel, answered at once if no plugin runs.   *)
(* The list is followed in the worlds whose user works with it.             *)
RefreshSubcodes ==
    IF world.user # "codes" \/ ~panel'.open THEN UNCHANGED <<vars, asks>> /\ wire' = Tail(wire)
    ELSE IF host.child = None
    THEN /\ UNCHANGED <<vars, asks>>
         /\ wire' = Append(Tail(wire), [what |-> "list", by |-> panel.id, code |-> None, got |-> None])
    ELSE Asked("list", panel.id, None) /\ wire' = Tail(wire)

Takes(what) == Page /\ wire # <<>> /\ Head(wire).what = what

(* A status event: the shown state and the banner. *)
OnStatus ==
    /\ Takes("status") /\ wire' = Tail(wire)
    /\ panel' = IF panel.open THEN RenderConflict([panel EXCEPT !.state = Head(wire).state], Head(wire).state) ELSE panel
    /\ UNCHANGED <<vars, window, asks, subs, tray, masks>>

(* The current settings fill the form, over what was typed meanwhile. *)
OnSettings ==
    /\ Takes("settings") /\ wire' = Tail(wire)
    /\ LET m == Head(wire)
           filled == IF Mine(m.by) THEN [panel EXCEPT !.form = m.cfg, !.state = m.state, !.restart = m.restart] ELSE panel
       IN  panel' = RenderConflict(filled, m.state)
    /\ UNCHANGED <<vars, window, asks, subs, tray, masks>>

(* Settings were applied, by the button or from the token, which fills the  *)
(* form and is cleared.                                                     *)
OnApplied ==
    /\ Takes("applied")
    /\ LET m == Head(wire)
           shown == IF ~Mine(m.by.panel) THEN panel
                    ELSE IF m.by.fill
                    THEN [panel EXCEPT !.form = [m.cfg EXCEPT !.lan = panel.form.lan, !.clear = panel.form.clear],
                                       !.state = m.state, !.text = None, !.offered = FALSE]
                    ELSE [panel EXCEPT !.state = m.state, !.restart = m.restart]
       IN  panel' = RenderConflict(shown, m.state)
    /\ RefreshSubcodes
    /\ UNCHANGED <<window, subs, tray, masks>>

(* The token was decoded: its summary and the button to apply it are shown. *)
OnPreview ==
    /\ Takes("preview") /\ wire' = Tail(wire)
    /\ panel' = IF Mine(Head(wire).by) THEN [panel EXCEPT !.offered = TRUE] ELSE panel
    /\ UNCHANGED <<vars, window, asks, subs, tray, masks>>

(* A list: of the panel that asked for it. *)
OnListed ==
    /\ Takes("list") /\ wire' = Tail(wire)
    /\ LET m == Head(wire)
       IN  panel' = IF Mine(m.by) THEN [panel EXCEPT !.list = IF m.got = None THEN NoCodes ELSE m.got] ELSE panel
    /\ UNCHANGED <<vars, window, asks, subs, tray, masks>>

(* A share link, or a change of a sub-code: the list is fetched again. *)
OnDone ==
    /\ Takes("share") \/ Takes("revoke")
    /\ LET m == Head(wire)
       IN  /\ panel' = IF Mine(m.by) /\ m.what = "share" /\ m.got # None THEN [panel EXCEPT !.link = TRUE] ELSE panel
           /\ IF m.got = None THEN UNCHANGED <<vars, asks>> /\ wire' = Tail(wire) ELSE RefreshSubcodes
    /\ UNCHANGED <<window, subs, tray, masks>>

(* The link of a sub-code, or why there is none, in a mask over the page,   *)
(* whether or not a panel is still open.                                    *)
OnView ==
    /\ Takes("view") /\ wire' = Tail(wire)
    /\ LET m == Head(wire)
       IN  masks' = Append(masks, m.got # None /\ m.got[m.code] = "live")
    /\ UNCHANGED <<vars, window, asks, subs, tray, panel>>

OnForced ==
    /\ Takes("force") /\ wire' = Tail(wire)
    /\ UNCHANGED <<vars, window, asks, subs, tray, panel, masks>>

-----------------------------------------------------------------------------
(* The user *)

(* openRelaySettings: in place of a panel that is open. *)
OpenRelaySettings ==
    /\ Page /\ world.user \in {"form", "codes"} /\ panel.id < world.panels /\ RoomOnWire
    /\ panel' = New(panel.id + 1, TRUE)
    /\ LET filling == <<SettingsTo("settings", panel.id + 1, host, saved)>>
       IN  IF world.user = "form" THEN ToPage(filling) /\ UNCHANGED <<vars, asks>>
           ELSE IF host.child = None
           THEN /\ ToPage(Append(filling, [what |-> "list", by |-> panel.id + 1, code |-> None, got |-> None]))
                /\ UNCHANGED <<vars, asks>>
           ELSE ToPage(filling) /\ Asked("list", panel.id + 1, None)
    /\ UNCHANGED <<window, subs, tray, masks>>

(* closePanel: with the masks that are there. *)
ClosePanel ==
    /\ Page /\ panel.open
    /\ panel' = New(panel.id, FALSE) /\ masks' = <<>>
    /\ UNCHANGED <<vars, deskVars>>

Edit(c) ==
    /\ OnForm /\ panel.form # c
    /\ panel' = [panel EXCEPT !.form = c]
    /\ UNCHANGED <<vars, deskVars, masks>>

TypeToken(at) ==
    /\ OnForm /\ panel.text # at
    /\ panel' = [panel EXCEPT !.text = at]
    /\ UNCHANGED <<vars, deskVars, masks>>

(* The button for the preview: what it showed is hidden until the answer. *)
PreviewToken ==
    /\ OnForm /\ panel.text # None /\ RoomOnWire
    /\ panel' = [panel EXCEPT !.offered = FALSE]
    /\ ToPage(<<[what |-> "preview", by |-> panel.id]>>)
    /\ UNCHANGED <<vars, window, asks, subs, tray, masks>>

(* What applySettings answers when it did not have to wait. *)
Applied(c, by) ==
    ToPage(IF waits' # waits \/ by = None THEN <<>> ELSE <<SettingsTo("applied", by, host', saved')>>)

(* The form is saved as it stands; a master code has to be there. *)
Save ==
    /\ Page /\ panel.open /\ RoomOnWire
    /\ LET by == [panel |-> panel.id, fill |-> FALSE]
       IN  ApplySettings(panel.form, by) /\ Applied(panel.form, by)
    /\ UNCHANGED <<window, asks, subs, tray, pageVars>>

(* The token is applied as it reads now, over the settings as they are.     *)
ApplyToken ==
    /\ OnForm /\ panel.offered /\ panel.text # None /\ RoomOnWire
    /\ LET by == [panel |-> panel.id, fill |-> TRUE]
           c == [saved EXCEPT !.on = TRUE, !.at = panel.text, !.code = TRUE]
       IN  ApplySettings(c, by) /\ Applied(c, by)
    /\ UNCHANGED <<window, asks, subs, tray, pageVars>>

(* Settings of a panel that was closed since. *)
SavedElsewhere(c) ==
    /\ world.user \in {"away", "tray", "window"}
    /\ ApplySettings(c, None)
    /\ UNCHANGED <<deskVars, pageVars>>

(* The button of the banner: take the channel over, or back. *)
ForceRegister ==
    /\ OnForm /\ panel.banner
    /\ Asked("force", panel.id, None)
    /\ UNCHANGED <<window, wire, subs, tray, pageVars>>

(* A share link, while the plugin is registered. *)
Share(code) ==
    /\ OnList /\ host.state = "registered" /\ \A at \in Relay : subs[at][code] = "none"
    /\ Asked("share", panel.id, code)
    /\ UNCHANGED <<window, wire, subs, tray, pageVars>>

(* Revoke a sub-code of the list, or delete it if it is revoked there. *)
Revoke(code) ==
    /\ OnList /\ panel.list[code] # "none"
    /\ Asked("revoke", panel.id, code)
    /\ UNCHANGED <<window, wire, subs, tray, pageVars>>

(* showSubcodeView: the mask shown goes; an answer makes another. *)
View(code) ==
    /\ OnList /\ panel.list[code] = "live" /\ Len(masks) < MaxMasks
    /\ masks' = IF masks = <<>> THEN masks ELSE Tail(masks)
    /\ IF host.state = "registered" /\ host.child # None
       THEN Asked("view", panel.id, code) /\ UNCHANGED wire
       ELSE /\ RoomOnWire /\ ToPage(<<[what |-> "view", by |-> panel.id, code |-> code, got |-> None]>>)
            /\ UNCHANGED <<vars, asks>>
    /\ UNCHANGED <<window, subs, tray, panel>>

CloseMask(i) ==
    /\ Page /\ masks' = RemoveAt(masks, i)
    /\ UNCHANGED <<vars, deskVars, panel>>

(* The window is closed, and what its page held is gone; the program stays. *)
CloseWindow ==
    /\ world.user # "away" /\ window # "none" /\ app # "gone"
    /\ window' = "none" /\ wire' = <<>>
    /\ panel' = New(panel.id, FALSE) /\ masks' = <<>>
    /\ UNCHANGED <<vars, asks, subs, tray>>

Leaves == AllGone /\ panel' = New(panel.id, FALSE) /\ masks' = <<>>

-----------------------------------------------------------------------------
(* The plugin, and what the window and the tray learn of it *)

(* The answers to those of the calls of applySettings that have a panel, as  *)
(* they go on.                                                              *)
Replies(calls, left) ==
    LET panels == {i \in DOMAIN calls : calls[i].by # None}
        nth(j) == CHOOSE i \in panels : Cardinality({k \in panels : k <= i}) = j
        reply(i) == SettingsTo("applied", calls[i].by, Resumed(left, SubSeq(calls, 1, i)), saved)
    IN  [j \in 1 .. Cardinality(panels) |-> reply(nth(j))]

ExitTold(p) ==
    /\ RoomOnWire \/ host.proc[p].st # "running"
    /\ Exit(p)
    /\ LET left == ExitHandler(host, p)
       IN  EndsUnanswered(<<StatusTo(left.told)>>, Replies(waits[p], AllEnd(left, p)))
    /\ UNCHANGED <<window, subs, pageVars>>

TimeUpTold(p, i) ==
    /\ RoomOnWire /\ TimeUp(p, i)
    /\ EndsUnanswered(<<>>, Replies(<<waits[p][i]>>, StopEnds(host, p)))
    /\ UNCHANGED <<window, subs, pageVars>>

StatusTold(p, s) ==
    /\ RoomOnWire /\ Status(p, s)
    /\ ToPage(<<StatusTo(s)>>)
    /\ tray' = [tray EXCEPT !.menu = Rebuilt(@, host', saved)]
    /\ UNCHANGED <<window, asks, subs, pageVars>>

Quiet ==
    /\ \/ CertReady \/ \E taken \in BOOLEAN : ListenFails(taken)
       \/ Launch \/ Shutdown \/ Restart
       \/ \E p \in Slot : Forced(p)
    /\ UNCHANGED <<deskVars, pageVars>>

Windows ==
    /\ \/ BootUp \/ ShowWindow \/ PageLoads \/ ViewAccess \/ RotateToken \/ CloseInfo
       \/ CopyShare \/ \E r \in Req : Serve(r) \/ Answered(r)
       \/ \E i \in DOMAIN tray.shows : QrReady(i)
    /\ UNCHANGED pageVars

Messages == OnStatus \/ OnSettings \/ OnApplied \/ OnPreview \/ OnListed \/ OnDone \/ OnView \/ OnForced

User ==
    \/ OpenRelaySettings \/ ClosePanel \/ CloseWindow
    \/ \E c \in world.configs : Edit(c) \/ SavedElsewhere(c)
    \/ \E at \in Relay : TypeToken(at)
    \/ PreviewToken \/ Save \/ ApplyToken \/ ForceRegister
    \/ \E code \in Code : Share(code) \/ Revoke(code) \/ View(code)
    \/ \E i \in DOMAIN masks : CloseMask(i)

Next ==
    \/ Quiet \/ Leaves \/ Windows \/ Messages \/ User
    \/ \E p \in Slot :
          \/ ExitTold(p)
          \/ \E s \in State : StatusTold(p, s)
          \/ \E i \in DOMAIN waits[p] : TimeUpTold(p, i)

Spec == PanelInit /\ [][Next]_all

-----------------------------------------------------------------------------
(* relaySettings.ts:211: the button that takes the channel from another     *)
(* device is offered when, and only when, the channel is held or was taken  *)
(* by one, once the page has its messages, through crashes, saves, stops and*)
(* panels opened anew.                                                      *)
TakeoverOffered ==
    ~world.late /\ panel.open /\ wire = <<>> =>
        (panel.banner <=> host.state \in {"occupied", "parked"})
=============================================================================
