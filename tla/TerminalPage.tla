---------------------------- MODULE TerminalPage ----------------------------
(***************************************************************************)
(* One web page: its tabs (src/renderer/terminalApp.ts, terminalTab.ts),   *)
(* who it thinks sizes a session and what it does about that              *)
(* (src/web/index.ts, wireAutoAdapt and the chip), what its screens show   *)
(* across a reconnect, and the modifier keys of the soft keyboard.         *)
(*                                                                         *)
(* The page talks to the host over one connection: toHost and toPage are   *)
(* the messages on their way.  The host is the part of                     *)
(* src/main/remoteServer.ts the page can tell apart; RemoteHost models it  *)
(* in full.  Its sessions are numbered in the order they are created.      *)
(* Over the relay the messages may be sealed; then either side handles each *)
(* one when its own cipher step ends, in any order.  What a broken          *)
(* connection leaves under the cipher is lost with it here; RemoteHost and  *)
(* WebTransport have what comes of it later.                               *)
(*                                                                         *)
(* One message of the host, with all the listeners and the promises it     *)
(* settles, is one step.  The operators on a page p collect what it sends  *)
(* in p.says.                                                              *)
(***************************************************************************)
EXTENDS Naturals, Sequences, FiniteSets, SequencesExt

CONSTANTS
    MaxSession,  \* bound: sessions ever
    MaxOut,      \* bound: pieces of output of a session
    MaxTurns,    \* bound: what the user and others do about sizes, focus and tabs
    MaxQueue,    \* bound: messages to the host when the user acts
    Worlds       \* what may happen, see World

(* relay: over the relay; sealed: the messages are encrypted, over the      *)
(* relay; drops: the connection may break; rivals: others create sessions;  *)
(* slow: the host may refuse to create a session or take longer than 5 s;   *)
(* keys: the user uses the soft keyboard; sessions, turns, outs: bounds of  *)
(* this world.                                                              *)
World ==
    {w \in [relay : BOOLEAN, sealed : BOOLEAN, drops : BOOLEAN, rivals : BOOLEAN, slow : BOOLEAN,
            keys : BOOLEAN, sessions : 1 .. MaxSession, turns : 0 .. MaxTurns, outs : 0 .. MaxOut] :
         w.sealed => w.relay}

ASSUME PageAssumption ==
    /\ {MaxSession, MaxOut, MaxTurns, MaxQueue} \subseteq Nat
    /\ Worlds \subseteq World

VARIABLES
    world,  \* the one of Worlds this behaviour is of
    host,   \* what the host knows
    link,   \* the connection: the first one, none, or a later one
    toHost, \* messages to the host
    toPage, \* messages to the page
    page    \* the page

pageVars == <<world, host, link, toHost, toPage, page>>

Id == 1 .. MaxSession
NoTab == 0

Whose == {"me", "other"}
Owner == Whose \cup {"local"}

(* What the page says to the host, and what it hears.                      *)
Kinds == {"list", "create", "close", "attach", "resize", "claim", "force", "release"}
Said == [t : Kinds, id : Id \cup {NoTab}]

Told ==
    [t : {"tabs"}, tabs : Seq(Id), size : [Id -> Whose]]
        \cup [t : {"exit"}, id : Id]
        \cup [t : {"geo"}, id : Id, owner : Owner]
        \cup [t : {"attached", "data"}, id : Id, n : 0 .. MaxOut]

HostState ==
    [next : 1 .. MaxSession + 1, live : SUBSET Id, owner : [Id -> Owner], size : [Id -> Whose],
     attached : SUBSET Id, out : [Id -> 0 .. MaxOut], dirty : BOOLEAN, turns : 0 .. MaxTurns]

PageState ==
    [tabs : Seq(Id), own : [Id -> BOOLEAN], alive : [Id -> BOOLEAN], shown : [Id -> 0 .. MaxOut],
     whole : [Id -> BOOLEAN], made : SUBSET Id, grid : [Id -> Whose], listed : [Id -> Whose],
     active : Id \cup {NoTab}, known : SUBSET Id, att : SUBSET Id, heal : SUBSET Id,
     claimed : Id \cup {NoTab}, focus : BOOLEAN, listing : BOOLEAN, creating : Seq(SUBSET Id),
     late : BOOLEAN, mods : Id \cup {NoTab}, says : Seq(Said), outbox : Seq(Said)]

PageTypeOK ==
    /\ world \in Worlds
    /\ host \in HostState
    /\ link \in {"first", "none", "later"}
    /\ toHost \in Seq(Said) /\ toPage \in Seq(Told)
    /\ page \in PageState /\ page.says = <<>>

Tabs(p) == ToSet(p.tabs)

Up == link # "none"

(* The elements of a sequence that are in S, in their order.               *)
Chosen(q, S) == FoldLeft(LAMBDA r, x : IF x \in S THEN Append(r, x) ELSE r, <<>>, q)

LiveTabs == Chosen([s \in Id |-> s], host.live)

TabsMessage == [t |-> "tabs", tabs |-> LiveTabs, size |-> host.size]

-----------------------------------------------------------------------------
(* The transport *)

Say(p, t, s) == [p EXCEPT !.says = Append(@, [t |-> t, id |-> s])]

Follow(p, s) == IF s \in p.att THEN p ELSE Say([p EXCEPT !.att = @ \cup {s}], "attach", s)

(* createTab: the first session of a tabs message that the page did not     *)
(* know when it asked settles the promise, whoever created it.              *)
CreateTab(p) == Say([p EXCEPT !.creating = Append(@, p.known)], "create", NoTab)

-----------------------------------------------------------------------------
(* Geometry: wireAutoAdapt and TerminalTab *)

(* Taking ownership sends the tab's size at once. *)
SetGeometryOwner(p, s, owner) ==
    LET q == [p EXCEPT !.own[s] = owner]
    IN  IF owner /\ p.alive[s] THEN Say(q, "resize", s) ELSE q

ClaimActive(p) == IF p.focus /\ p.active # NoTab THEN Say(p, "claim", p.active) ELSE p

ReleaseClaimed(p) == IF p.claimed # NoTab THEN Say(p, "release", p.claimed) ELSE p

TabActivated(p) == ClaimActive([ReleaseClaimed(p) EXCEPT !.claimed = NoTab])

-----------------------------------------------------------------------------
(* Tabs *)

Mutant_SwitchKeepsMods(p, s) ==
    IF s \notin Tabs(p) THEN p
    ELSE LET q == [p EXCEPT !.active = s]
         IN  Follow(IF s # p.active THEN TabActivated(q) ELSE q, s)

SwitchTab(p, s) ==
    IF s \notin Tabs(p) THEN p
    ELSE LET q == [p EXCEPT !.active = s]
             r == IF s # p.active THEN TabActivated(q) ELSE q
         IN  Follow([r EXCEPT !.mods = NoTab], s)

Disposed(p, s) ==
    [p EXCEPT !.tabs = Chosen(@, Id \ {s}), !.own[s] = FALSE, !.alive[s] = FALSE,
              !.shown[s] = 0, !.whole[s] = TRUE, !.grid[s] = "other"]

(* A page without tabs asks for a session. *)
DisposeTab(p, s) ==
    LET q == Disposed(p, s)
    IN  IF s \notin Tabs(p) THEN p
        ELSE IF p.active # s THEN q
        ELSE IF q.tabs # <<>> THEN SwitchTab(q, Last(q.tabs))
        ELSE CreateTab([q EXCEPT !.active = NoTab])

CloseTab(p, s) ==
    IF s \notin Tabs(p) THEN p
    ELSE DisposeTab(Say([p EXCEPT !.att = @ \ {s}], "close", s), s)

(* The grid a tab is fixed to unless the page sizes the session. *)
ApplyFollowGeometry(p, s) == IF p.own[s] THEN p ELSE [p EXCEPT !.grid[s] = p.listed[s]]

(* A tab is a follower unless this page made the session. *)
NewTab(p, s) == [p EXCEPT !.tabs = Append(@, s), !.own[s] = s \in p.made, !.alive[s] = TRUE]

(* addTabFromInfo, for a session somebody has: the tab stays hidden. *)
AdoptTab(p, s) == IF s \in Tabs(p) THEN p ELSE ApplyFollowGeometry(NewTab(p, s), s)

(* addTabFromInfo, once createTab is settled: reconcileTabs has adopted the *)
(* session before, so this is its dedupe path.                              *)
CreatedTab(p, s) == SetGeometryOwner([SwitchTab(p, s) EXCEPT !.made = @ \cup {s}], s, TRUE)

Missing(p, tabs) == Chosen(p.tabs, Id \ ToSet(tabs))

Mutant_NeverDropsTabs(p, tabs) == FoldLeft(AdoptTab, p, tabs)

Mutant_GridOnce(p, tabs) == FoldLeft(AdoptTab, FoldLeft(DisposeTab, p, Missing(p, tabs)), tabs)

ReconcileTabs(p, tabs) ==
    FoldLeft(ApplyFollowGeometry,
             FoldLeft(AdoptTab, FoldLeft(DisposeTab, p, Missing(p, tabs)), tabs), tabs)

Fresh(tabs, base) == Chosen(tabs, Id \ base)

Resolve(p, tabs, base) ==
    IF Fresh(tabs, base) = <<>> THEN p ELSE CreatedTab(p, Head(Fresh(tabs, base)))

SettleCreates(p, tabs, due) ==
    FoldLeft(LAMBDA q, base : Resolve(q, tabs, base),
             [p EXCEPT !.creating = Chosen(@, {base \in SUBSET Id : Fresh(tabs, base) = <<>>})], due)

(* init goes on with the tabs it asked for. *)
Listed(p, tabs) ==
    LET q == [p EXCEPT !.listing = FALSE]
    IN  IF ~p.listing THEN p
        ELSE IF tabs = <<>> THEN CreateTab(q) ELSE SwitchTab(q, Last(tabs))

-----------------------------------------------------------------------------
(* What the page does with a message *)

OnTabList(p, tabs, size) ==
    LET known == [p EXCEPT !.known = @ \cup ToSet(tabs), !.att = @ \cap ToSet(tabs), !.listed = size]
    IN  SettleCreates(Listed(ReconcileTabs(known, tabs), tabs), tabs, p.creating)

(* The last tab stays, with its exit message, until the next tabs message.  *)
OnExit(p, s) ==
    LET q == [p EXCEPT !.att = @ \ {s}]
    IN  IF s \notin Tabs(p) THEN q
        ELSE LET r == [q EXCEPT !.alive[s] = FALSE]
             IN  IF Len(p.tabs) > 1 THEN CloseTab(r, s) ELSE r

Mutant_BelievesOnly(p, s, owner) ==
    IF s \in Tabs(p) /\ (owner = "me") # p.own[s] THEN SetGeometryOwner(p, s, TRUE) ELSE p

(* applyServerGeometry, then the listener of wireAutoAdapt. *)
OnGeoOwnership(p, s, owner) ==
    LET q == IF s \in Tabs(p) /\ (owner = "me") # p.own[s]
             THEN ApplyFollowGeometry(SetGeometryOwner(p, s, owner = "me"), s) ELSE p
    IN  [q EXCEPT !.claimed = IF owner = "me" THEN s ELSE IF @ = s THEN NoTab ELSE @]

(* A replay fills an empty screen, and replaces one that was marked.        *)
OnAttached(p, s, n) ==
    IF s \notin Tabs(p) \/ n = 0 THEN p
    ELSE IF p.shown[s] = 0 THEN [p EXCEPT !.shown[s] = n]
    ELSE IF s \in p.heal THEN [p EXCEPT !.heal = @ \ {s}, !.shown[s] = n, !.whole[s] = TRUE]
    ELSE p

OnData(p, s, n) ==
    IF s \notin Tabs(p) THEN p
    ELSE [p EXCEPT !.shown[s] = n, !.whole[s] = @ /\ n = p.shown[s] + 1]

Received(p, m) ==
    CASE m.t = "tabs"     -> OnTabList(p, m.tabs, m.size)
      [] m.t = "exit"     -> OnExit(p, m.id)
      [] m.t = "geo"      -> OnGeoOwnership(p, m.id, m.owner)
      [] m.t = "attached" -> OnAttached(p, m.id, m.n)
      [] m.t = "data"     -> OnData(p, m.id, m.n)

(* The page has done p: what it said leaves, or waits for a connection. *)
Does(p) ==
    /\ page' = [p EXCEPT !.says = <<>>, !.outbox = IF Up THEN @ ELSE @ \o p.says]
    /\ toHost' = IF Up THEN toHost \o p.says ELSE toHost

-----------------------------------------------------------------------------
(* The host *)

Unmade == host.next > world.sessions

Tells(s, msgs) == toPage' = IF s \in host.attached THEN toPage \o msgs ELSE toPage

(* The user has just opened the page, and looks at it. *)
PageInit ==
    /\ world \in Worlds
    /\ \E k \in 0 .. world.sessions - 1 :
           /\ host = [next |-> k + 1, live |-> 1 .. k, owner |-> [s \in Id |-> "local"],
                      size |-> [s \in Id |-> "other"], attached |-> {}, out |-> [s \in Id |-> 0],
                      dirty |-> FALSE, turns |-> 0]
           /\ toPage = <<[t |-> "tabs", tabs |-> [i \in 1 .. k |-> i], size |-> [s \in Id |-> "other"]]>>
    /\ link = "first"
    /\ toHost = <<[t |-> "list", id |-> NoTab]>>
    /\ page = [tabs |-> <<>>, own |-> [s \in Id |-> FALSE], alive |-> [s \in Id |-> FALSE],
               shown |-> [s \in Id |-> 0], whole |-> [s \in Id |-> TRUE], made |-> {},
               grid |-> [s \in Id |-> "other"], listed |-> [s \in Id |-> "other"],
               active |-> NoTab, known |-> {}, att |-> {}, heal |-> {}, claimed |-> NoTab,
               focus |-> TRUE, listing |-> TRUE, creating |-> <<>>, late |-> FALSE,
               mods |-> NoTab, says |-> <<>>, outbox |-> <<>>]

(* What a message does to the host, and what the host answers. *)
HostLists == toPage' = Append(toPage, TabsMessage) /\ UNCHANGED host

(* The creator owns the size of its session, which nobody is told. *)
HostCreates ==
    /\ ~Unmade
    /\ host' = [host EXCEPT !.next = @ + 1, !.live = @ \cup {host.next},
                            !.owner[host.next] = "me", !.dirty = TRUE]
    /\ UNCHANGED toPage

(* No room for a session, or no shell: an error frame, which changes nothing. *)
HostRefuses == (Unmade \/ world.slow) /\ UNCHANGED <<host, toPage>>

Ends(s) ==
    /\ host' = [host EXCEPT !.live = @ \ {s}, !.attached = @ \ {s}, !.owner[s] = "local", !.dirty = TRUE]
    /\ Tells(s, <<[t |-> "exit", id |-> s]>>)

HostCloses(s) == IF s \in host.live THEN Ends(s) ELSE UNCHANGED <<host, toPage>>

HostAttaches(s) ==
    IF s \in host.live
    THEN /\ host' = [host EXCEPT !.attached = @ \cup {s}]
         /\ toPage' = Append(toPage, [t |-> "attached", id |-> s, n |-> host.out[s]])
    ELSE UNCHANGED <<host, toPage>>

(* The registry may hold a size back for up to 200 ms and drop it for a     *)
(* later one; that timer is in SessionRegistry and RemoteHost.              *)
HostResizes(s) ==
    /\ host' = IF host.owner[s] = "me" THEN [host EXCEPT !.size[s] = "me", !.dirty = @ \/ host.size[s] # "me"]
               ELSE host
    /\ UNCHANGED toPage

(* The owner changes hands and everybody who watches is told. *)
Passes(s, owner) ==
    /\ host' = [host EXCEPT !.owner[s] = owner]
    /\ Tells(s, <<[t |-> "geo", id |-> s, owner |-> owner]>>)

HostGrants(s) == s \in host.attached /\ host.owner[s] # "me" /\ Passes(s, "me")

(* Not attached, the owner already, or against the arbiter's rules, which   *)
(* GeoArbiter has: nothing is said.                                         *)
HostDenies(s) == UNCHANGED <<host, toPage>>

HostReleases(s) == IF host.owner[s] = "me" THEN Passes(s, "local") ELSE UNCHANGED <<host, toPage>>

HostDoes(m) ==
    /\ \/ m.t = "list" /\ HostLists
       \/ m.t = "create" /\ (HostCreates \/ HostRefuses)
       \/ m.t = "close" /\ HostCloses(m.id)
       \/ m.t = "attach" /\ HostAttaches(m.id)
       \/ m.t = "resize" /\ HostResizes(m.id)
       \/ m.t \in {"claim", "force"} /\ (HostGrants(m.id) \/ HostDenies(m.id))
       \/ m.t = "release" /\ HostReleases(m.id)
    /\ UNCHANGED <<world, link, page>>

HostHandles ==
    /\ Up /\ ~world.sealed /\ toHost # <<>>
    /\ toHost' = Tail(toHost)
    /\ HostDoes(Head(toHost))

(* A sealed message is handled when its own openFrame ends. *)
HostOpens(i) ==
    /\ Up /\ world.sealed
    /\ toHost' = RemoveAt(toHost, i)
    /\ HostDoes(toHost[i])

(* The throttled tabs broadcast after a change. *)
HostBroadcasts ==
    /\ host.dirty
    /\ host' = [host EXCEPT !.dirty = FALSE]
    /\ toPage' = IF Up THEN Append(toPage, TabsMessage) ELSE toPage
    /\ UNCHANGED <<world, link, toHost, page>>

-----------------------------------------------------------------------------
(* Others: programs, the desktop, other viewers, the network *)

Output(s) ==
    /\ s \in host.live /\ host.out[s] < world.outs
    /\ host' = [host EXCEPT !.out[s] = @ + 1]
    /\ Tells(s, <<[t |-> "data", id |-> s, n |-> host.out[s] + 1]>>)
    /\ UNCHANGED <<world, link, toHost, page>>

SessionExits(s) ==
    /\ s \in host.live /\ ~Unmade
    /\ Ends(s)
    /\ UNCHANGED <<world, link, toHost, page>>

OtherCreates ==
    /\ world.rivals /\ ~Unmade
    /\ host' = [host EXCEPT !.next = @ + 1, !.live = @ \cup {host.next}, !.dirty = TRUE]
    /\ UNCHANGED <<world, link, toHost, toPage, page>>

(* The desktop gets the focus, or another viewer claims, and resizes. *)
OtherTakes(s, owner) ==
    /\ s \in host.live /\ host.owner[s] # owner /\ host.turns < world.turns
    /\ host' = [host EXCEPT !.owner[s] = owner, !.size[s] = "other",
                            !.dirty = @ \/ host.size[s] # "other", !.turns = @ + 1]
    /\ Tells(s, <<[t |-> "geo", id |-> s, owner |-> owner]>>)
    /\ UNCHANGED <<world, link, toHost, page>>

(* The connection is gone, and with it what the client owned at the host. *)
LinkDrops ==
    /\ link = "first" /\ world.drops
    /\ link' = "none" /\ toHost' = <<>> /\ toPage' = <<>>
    /\ host' = [host EXCEPT !.attached = {}, !.owner = [s \in Id |-> IF @[s] = "me" THEN "local" ELSE @[s]]]
    /\ UNCHANGED <<world, page>>

(* An encrypting transport forgets what it is given before the new socket   *)
(* is open.                                                                 *)
OutboxLost ==
    /\ ~Up /\ world.sealed /\ page.outbox # <<>>
    /\ page' = [page EXCEPT !.outbox = <<>>]
    /\ UNCHANGED <<world, host, link, toHost, toPage>>

Mutant_NoHeal(p) == p

(* Every screen is to be replaced by the next replay. *)
HealTabs(p) == [p EXCEPT !.heal = @ \cup Tabs(p)]

(* What the page owned is gone with the old connection. *)
ClaimAnew(p) == ClaimActive([p EXCEPT !.claimed = NoTab])

(* The relay gate opens again, and its listeners are told. *)
OnReady(p) == ClaimAnew(HealTabs(p))

(* What waited is sent, and the followed sessions are attached again. *)
Reconnect ==
    /\ ~Up
    /\ link' = "later"
    /\ LET p == IF world.relay THEN OnReady(page) ELSE page
           followed == Chosen([s \in Id |-> s], p.att)
       IN  /\ page' = [p EXCEPT !.says = <<>>, !.outbox = <<>>]
           /\ toHost' = p.says \o p.outbox \o [i \in DOMAIN followed |-> [t |-> "attach", id |-> followed[i]]]
    /\ toPage' = <<TabsMessage>>
    /\ UNCHANGED <<world, host>>

-----------------------------------------------------------------------------
(* The page *)

PageReceives ==
    /\ Up /\ ~world.sealed /\ toPage # <<>>
    /\ toPage' = Tail(toPage)
    /\ Does(Received(page, Head(toPage)))
    /\ UNCHANGED <<world, host, link>>

(* A sealed message is handled when its own openFrame ends. *)
PageOpens(i) ==
    /\ Up /\ world.sealed
    /\ toPage' = RemoveAt(toPage, i)
    /\ Does(Received(page, toPage[i]))
    /\ UNCHANGED <<world, host, link>>

Acts(p) == Does(p) /\ UNCHANGED <<world, host, link, toPage>>

(* 5 s without the session it asked for: an error on the console. *)
CreateTimesOut ==
    /\ world.slow /\ page.creating # <<>>
    /\ Acts([page EXCEPT !.creating = Tail(@), !.late = TRUE])

(* 5 s without a tabs message: init goes on with no tabs. *)
ListTimesOut == world.slow /\ page.listing /\ Acts(Listed(page, <<>>))

(* Whoever uses the page gives it the focus. *)
AtEase == page.focus /\ Len(toHost) < MaxQueue /\ Len(page.outbox) < MaxQueue /\ ~page.listing

Turn(p) ==
    /\ host.turns < world.turns
    /\ host' = [host EXCEPT !.turns = @ + 1]
    /\ Does(p) /\ UNCHANGED <<world, link, toPage>>

Focus == ~page.focus /\ Turn(ClaimActive([page EXCEPT !.focus = TRUE]))

(* Blur, or the page is hidden: the soft keyboard forgets its modifiers. *)
Blur == page.focus /\ Turn(ReleaseClaimed([page EXCEPT !.focus = FALSE, !.mods = NoTab]))

(* Every 3 to 30 s. *)
Poll ==
    /\ AtEase /\ page.active # NoTab /\ ~page.own[page.active]
    /\ Turn(ClaimActive(page))

Chip ==
    /\ AtEase /\ page.active # NoTab
    /\ Turn(Say(page, IF page.own[page.active] THEN "release" ELSE "force", page.active))

UserSwitches(s) == AtEase /\ s \in Tabs(page) /\ s # page.active /\ Turn(SwitchTab(page, s))

UserCloses(s) == AtEase /\ s \in Tabs(page) /\ ~Unmade /\ Turn(CloseTab(page, s))

UserCreates == AtEase /\ page.creating = <<>> /\ ~Unmade /\ Turn(CreateTab(page))

(* A modifier is meant for the tab the user looks at; the next key takes it.*)
PressModifier ==
    world.keys /\ page.focus /\ page.mods = NoTab /\ Acts([page EXCEPT !.mods = page.active])

TapKey == page.mods # NoTab /\ page.active # NoTab /\ Acts([page EXCEPT !.mods = NoTab])

PageNext ==
    \/ HostHandles \/ (\E i \in DOMAIN toHost : HostOpens(i)) \/ HostBroadcasts \/ OtherCreates
    \/ \E s \in Id : Output(s) \/ SessionExits(s) \/ (\E owner \in {"local", "other"} : OtherTakes(s, owner))
    \/ LinkDrops \/ OutboxLost \/ Reconnect
    \/ PageReceives \/ (\E i \in DOMAIN toPage : PageOpens(i)) \/ CreateTimesOut \/ ListTimesOut
    \/ Focus \/ Blur \/ Poll \/ Chip \/ UserCreates
    \/ \E s \in Id : UserSwitches(s) \/ UserCloses(s)
    \/ PressModifier \/ TapKey

PageSpec == PageInit /\ [][PageNext]_pageVars

-----------------------------------------------------------------------------
(* Nothing is on its way and nobody waits for an answer. *)
Settled == Up /\ toHost = <<>> /\ toPage = <<>> /\ ~host.dirty /\ page.creating = <<>> /\ ~page.listing

(* Sealed messages may be handled in another order than they were sent in,  *)
(* so that what follows is promised in the clear only: an old list may come *)
(* last.                                                                    *)

(* terminalApp.ts:285: once all is said, the tabs are the host's sessions,  *)
(* whatever was created, closed or ended meanwhile, here or elsewhere; the  *)
(* page shows one of them and the host takes what is typed there.           *)
TabsAgree ==
    Settled /\ ~world.sealed =>
        /\ Tabs(page) = host.live
        /\ page.active # NoTab => page.active \in host.attached
        /\ page.active = NoTab => page.late \/ host.live = {}

(* The page has closed s, and the host does not know. *)
Closing(s) == \E m \in ToSet(toHost \o page.outbox) : m.t = "close" /\ m.id = s

(* terminalApp.ts:81: over the relay, in the clear, no screen of a session  *)
(* the page follows ever misses a piece of output or shows one twice,       *)
(* unless it is about to be replaced, and in the end it is up to date.  Not *)
(* so for a session the page has closed: a list that was sent before shows  *)
(* it again, with what happens to arrive.                                   *)
ScreensWhole ==
    world.relay /\ ~world.sealed /\ Up =>
        \A s \in Tabs(page) \cap page.att \cap host.live :
            \/ Closing(s)
            \/ /\ page.whole[s] \/ s \in page.heal
               /\ Settled => page.whole[s] /\ page.shown[s] = host.out[s]

(* A tab knows whether the page sizes its session, and a page that does has *)
(* sent its size: as long as the connection holds and neither the page nor  *)
(* others create sessions meanwhile.                                        *)
OwnershipAgrees ==
    Settled /\ ~world.sealed /\ link = "first" /\ page.made = {} /\ ~world.rivals /\ ~world.slow =>
        \A s \in Tabs(page) :
            /\ page.own[s] <=> host.owner[s] = "me"
            /\ page.own[s] => host.size[s] = "me"

(* xtermWrapper.ts:155: a tab that follows draws with the grid the session  *)
(* has, or programs on the screen garble it: once all is said, whoever      *)
(* resized the session in between, and across a reconnect.                  *)
FollowersTrack ==
    Settled /\ ~world.sealed => \A s \in Tabs(page) : page.own[s] \/ page.grid[s] = host.size[s]

(* terminalApp.ts:326: a modifier is never applied in another tab than the  *)
(* one it was meant for, in whatever order messages are handled.            *)
ModifiersStay == page.active # NoTab => page.mods \in {NoTab, page.active}

(* geoArbiter.ts:10: a page that lost the focus releases what it owns.      *)
BlurReleases == Settled /\ ~page.focus => \A s \in Id : host.owner[s] # "me"
=============================================================================
