----------------------------- MODULE RemoteHost -----------------------------
(***************************************************************************)
(* The desktop host as its remote clients see it                           *)
(* (src/main/remoteServer.ts with src/main/geoArbiter.ts): connection,     *)
(* challenge and encryption, the dispatch of client frames, geometry       *)
(* ownership shared with the desktop window (src/main/ipcHandlers.ts),     *)
(* heartbeats and every way a connection ends.                             *)
(*                                                                         *)
(* Abstracted: the MAC itself and the lock (module AuthManager), what is   *)
(* sent to clients (output, replay, session lists), the numbers of a size  *)
(* (only who asked for it is kept), and the timers of the registry         *)
(* (module SessionRegistry) but for the one that holds a resize back.  A   *)
(* forced claim within 2 s of the client's last one is refused and changes *)
(* nothing (geoForceLast): as any time may pass between two frames, every  *)
(* run without that refusal is a run, so it is left out.  A connection     *)
(* gets a fresh client id, so Client bounds the connections.               *)
(***************************************************************************)
EXTENDS Naturals, FiniteSets, GeoArbiter

CONSTANTS
    Client,      \* client connections
    Session,     \* session identifiers
    MaxSessions, \* remote creation is refused from this many sessions on
    Paths,       \* which clients there are: how each connects, if it does
    Frail,       \* bound: those of Paths where peers vanish without a close
    Kind,        \* frames clients send: see Dispatch
    MaxInFlight  \* bound: frames of one client under decryption at a time

ASSUME HostAssumption ==
    /\ Local \notin Client
    /\ MaxSessions \in Nat
    /\ Paths \subseteq [Client -> {"none", "cookie", "relay", "e2ee"}]
    /\ Frail \subseteq Paths
    /\ Kind \subseteq {"create", "close", "attach", "detach", "resize", "claim", "force", "release"}
    /\ MaxInFlight \in Nat

VARIABLES
    live,       \* sessions in the registry
    over,       \* sessions that ended
    remote,     \* history: sessions created by a client
    sizer,      \* history: who asked for the size each session has
    pending,    \* pendingResize: who asked for the size that is held back, if one is
    timed,      \* sessions with a resizeTimer
    geo,        \* geo.sessions
    localFocus, \* geo.localFocus
    desk,       \* the owner the desktop window was last told, of each session
    fitted,     \* history: sessions whose owner asked for a size since it owns them
    conn,       \* new, open, closing (close sent), cut (no frame comes any more), closed
    path,       \* how each client connected
    member,     \* this.clients
    authed,     \* clients with authenticated = true
    challenged, \* clients whose authNonce is set
    key,        \* E2EE key: off, deriving, on
    inflight,   \* frames being decrypted
    attached,   \* client.attached
    made,       \* history: sessions each client created
    pong,       \* clients with sawPong
    gone        \* clients whose peer vanished without a close

sizeVars    == <<sizer, pending, timed>>
sessionVars == <<live, over, remote, sizeVars>>
geoVars     == <<geo, localFocus, desk, fitted>>
connVars    == <<conn, path, member, authed, challenged, key, inflight>>
clientVars  == <<attached, made>>
beatVars    == <<pong, gone>>
vars == <<sessionVars, geoVars, connVars, clientVars, beatVars>>

Owners == Client \cup {Local}
Frame == [kind : Kind, id : Session]

TypeOK ==
    /\ live \subseteq Session /\ over \subseteq Session \ live
    /\ remote \subseteq live \cup over
    /\ sizer \in [Session -> Owners]
    /\ \A s \in Session : pending[s] = {} \/ \E w \in Owners : pending[s] = {w}
    /\ timed \subseteq live /\ fitted \subseteq live
    /\ DOMAIN geo \subseteq Session
    /\ \A s \in DOMAIN geo : geo[s] \in [owner : Owners, settled : BOOLEAN]
    /\ localFocus \in BOOLEAN
    /\ desk \in [Session -> Owners]
    /\ conn \in [Client -> {"new", "open", "closing", "cut", "closed"}]
    /\ path \in Paths
    /\ member \subseteq Client
    /\ authed \subseteq Client /\ challenged \subseteq Client
    /\ key \in [Client -> {"off", "deriving", "on"}]
    /\ inflight \in [Client -> SUBSET Frame]
    /\ attached \in [Client -> SUBSET Session]
    /\ made \in [Client -> SUBSET Session]
    /\ pong \subseteq Client /\ gone \subseteq Client

Init ==
    /\ live = {} /\ over = {} /\ remote = {}
    /\ sizer = [s \in Session |-> Local]
    /\ pending = [s \in Session |-> {}] /\ timed = {} /\ fitted = {}
    /\ geo = [s \in {} |-> Unclaimed]
    /\ localFocus = TRUE
    /\ desk = [s \in Session |-> Local]
    /\ conn = [c \in Client |-> "new"]
    /\ path \in Paths
    /\ member = {} /\ authed = {} /\ challenged = {}
    /\ key = [c \in Client |-> "off"]
    /\ inflight = [c \in Client |-> {}]
    /\ attached = [c \in Client |-> {}]
    /\ made = [c \in Client |-> {}]
    /\ pong = {} /\ gone = {}

Owner(s) == OwnerIn(geo, s)

(* Frames of a client are still processed after the host sent a close, but  *)
(* not once the socket was destroyed.                                       *)
Heard(c) == conn[c] \in {"open", "closing"} /\ c \notin gone

(* broadcastGeo, the desktop's half: it is told of every session in S. *)
TellDesk(newGeo, S) ==
    desk' = [s \in Session |-> IF s \in S THEN OwnerIn(newGeo, s) ELSE desk[s]]

ChangedIn(newGeo) == {s \in Session : OwnerIn(newGeo, s) # Owner(s)}

(* A change of ownership, broadcast when there is one.  The owners of the   *)
(* sessions asked for ask for a size in the same step.                      *)
SetGeo(newGeo, asked) ==
    /\ geo' = newGeo
    /\ TellDesk(newGeo, ChangedIn(newGeo))
    /\ fitted' = (fitted \ ChangedIn(newGeo)) \cup asked

-----------------------------------------------------------------------------
(* Sessions *)

Open(s, who) ==
    /\ s \notin live \cup over
    /\ live' = live \cup {s}
    /\ sizer' = [sizer EXCEPT ![s] = who]
    /\ fitted' = fitted \cup {s}
    /\ UNCHANGED <<pending, timed>>

(* PTY_SPAWN from the desktop window. *)
LocalCreate(s) ==
    /\ Open(s, Local)
    /\ UNCHANGED <<over, remote, geo, localFocus, desk, connVars, clientVars, beatVars>>

(* registry.resize: while the timer of an earlier one runs, the last size   *)
(* asked for is held back until it fires.                                   *)
Resize(s, who) ==
    \/ /\ s \in timed
       /\ pending' = [pending EXCEPT ![s] = {who}]
       /\ UNCHANGED <<sizer, timed>>
    \/ /\ s \notin timed
       /\ sizer' = [sizer EXCEPT ![s] = who]
       /\ timed' = timed \cup {s}
       /\ UNCHANGED pending

(* The timer applies what is pending; nobody is asked who owns the session  *)
(* by now.                                                                  *)
ResizeTimer(s) ==
    /\ s \in timed
    /\ timed' = timed \ {s}
    /\ pending' = [pending EXCEPT ![s] = {}]
    /\ \/ pending[s] = {} /\ UNCHANGED sizer
       \/ \E w \in pending[s] : sizer' = [sizer EXCEPT ![s] = w]
    /\ UNCHANGED <<live, over, remote, geoVars, connVars, clientVars, beatVars>>

(* The registry's exit event: the timer is cleared, ownership forgotten,    *)
(* watchers detached.                                                       *)
Exit(s) ==
    /\ live' = live \ {s}
    /\ over' = over \cup {s}
    /\ geo' = Forget(geo, s)
    /\ fitted' = fitted \ {s} /\ timed' = timed \ {s}
    /\ pending' = [pending EXCEPT ![s] = {}]
    /\ attached' = [c \in Client |-> attached[c] \ {s}]
    /\ UNCHANGED <<remote, sizer, localFocus, desk, made>>

(* A shell ends, or the desktop window kills it. *)
SessionEnds(s) ==
    /\ s \in live
    /\ Exit(s)
    /\ UNCHANGED <<connVars, beatVars>>

-----------------------------------------------------------------------------
(* The desktop window *)

(* GEO_FOCUS, and false again when the window closes. *)
SetLocalGeoFocus(focused) ==
    /\ localFocus' = focused
    /\ SetGeo(IF focused THEN TakeBack(geo) ELSE geo, {})
    /\ UNCHANGED <<sessionVars, connVars, clientVars, beatVars>>

(* PTY_RESIZE: the desktop first takes the session back. *)
LocalResize(s) ==
    /\ s \in live
    /\ SetGeo(Claim(geo, s, Local, TRUE, localFocus), {s})
    /\ Resize(s, Local)
    /\ UNCHANGED <<live, over, remote, localFocus, connVars, clientVars, beatVars>>

(* 5 s pass since the last change of ownership of s. *)
Dwell(s) ==
    /\ s \in DOMAIN geo
    /\ geo' = Put(geo, s, [owner |-> geo[s].owner, settled |-> TRUE])
    /\ UNCHANGED <<localFocus, desk, fitted>>
    /\ UNCHANGED <<sessionVars, connVars, clientVars, beatVars>>

-----------------------------------------------------------------------------
(* Connections *)

(* An upgrade: with a session cookie, or a relay pipe that is challenged. *)
Connect(c) ==
    /\ conn[c] = "new" /\ path[c] # "none"
    /\ conn' = [conn EXCEPT ![c] = "open"]
    /\ member' = member \cup {c}
    /\ pong' = pong \cup {c}
    /\ \/ path[c] = "cookie" /\ authed' = authed \cup {c} /\ UNCHANGED challenged
       \/ path[c] # "cookie" /\ challenged' = challenged \cup {c} /\ UNCHANGED authed
    /\ UNCHANGED <<path, key, inflight, gone>>
    /\ UNCHANGED <<sessionVars, geoVars, clientVars>>

(* failWith: an error frame and a close. *)
FailWith(c) == conn' = [conn EXCEPT ![c] = IF @ = "open" THEN "closing" ELSE @]

(* auth-response of a client that is not authenticated: a good MAC on the   *)
(* unused nonce authenticates it at once; the encryption key is derived     *)
(* asynchronously.                                                          *)
AuthResponse(c, good) ==
    /\ Heard(c) /\ c \notin authed
    /\ challenged' = challenged \ {c}
    /\ \/ /\ good /\ c \in challenged
          /\ authed' = authed \cup {c}
          /\ key' = [key EXCEPT ![c] = IF path[c] = "e2ee" THEN "deriving" ELSE "off"]
          /\ UNCHANGED conn
       \/ /\ ~(good /\ c \in challenged)
          /\ FailWith(c)
          /\ UNCHANGED <<authed, key>>
    /\ UNCHANGED <<path, member, inflight>>
    /\ UNCHANGED <<sessionVars, geoVars, clientVars, beatVars>>

(* The derivation completes, even on a connection that closed meanwhile:    *)
(* auth-ok and the session list follow, encrypted.                          *)
KeyDerived(c) ==
    /\ key[c] = "deriving"
    /\ key' = [key EXCEPT ![c] = "on"]
    /\ UNCHANGED <<conn, path, member, authed, challenged, inflight>>
    /\ UNCHANGED <<sessionVars, geoVars, clientVars, beatVars>>

(* The 5 s challenge deadline, a malformed or oversized frame, a plain frame *)
(* on an encrypted connection, a frame before authentication.               *)
Reject(c) ==
    /\ conn[c] = "open"
    /\ FailWith(c)
    /\ UNCHANGED <<path, member, authed, challenged, key, inflight>>
    /\ UNCHANGED <<sessionVars, geoVars, clientVars, beatVars>>

(* The peer closes, or answers the host's close: it sends nothing more. *)
PeerCloses(c) ==
    /\ conn[c] \in {"open", "closing"}
    /\ conn' = [conn EXCEPT ![c] = "cut"]
    /\ UNCHANGED <<path, member, authed, challenged, key, inflight>>
    /\ UNCHANGED <<sessionVars, geoVars, clientVars, beatVars>>

Vanish(c) ==
    /\ conn[c] = "open" /\ c \notin gone
    /\ path \in Frail
    /\ gone' = gone \cup {c}
    /\ pong' = pong \ {c}
    /\ UNCHANGED <<sessionVars, geoVars, connVars, clientVars>>

Mutant_CloseKeepsOwnership(c) ==
    /\ conn[c] \in {"closing", "cut"}
    /\ conn' = [conn EXCEPT ![c] = "closed"]
    /\ member' = member \ {c}
    /\ SetGeo(geo, {})
    /\ UNCHANGED <<localFocus, path, authed, challenged, key, inflight, attached, made>>
    /\ UNCHANGED <<sessionVars, beatVars>>

(* The close (or error) event of a connection. *)
CloseEvent(c) ==
    /\ conn[c] \in {"closing", "cut"}
    /\ conn' = [conn EXCEPT ![c] = "closed"]
    /\ member' = member \ {c}
    /\ SetGeo(DropClient(geo, c), {})
    /\ UNCHANGED <<localFocus, path, authed, challenged, key, inflight, attached, made>>
    /\ UNCHANGED <<sessionVars, beatVars>>

Mutant_HeartbeatOnlyForgets ==
    /\ member # {}
    /\ conn' = conn
    /\ member' = member \cap pong
    /\ pong' = {}
    /\ UNCHANGED <<path, authed, challenged, key, inflight, gone>>
    /\ UNCHANGED <<sessionVars, geoVars, clientVars>>

(* The heartbeat: members that did not answer the last ping are terminated  *)
(* and dropped from the set at once, the others are pinged.                 *)
Heartbeat ==
    /\ member # {}
    /\ conn' = [c \in Client |->
                  IF c \in member \ pong /\ conn[c] # "closed" THEN "cut" ELSE conn[c]]
    /\ member' = member \cap pong
    /\ pong' = {}
    /\ UNCHANGED <<path, authed, challenged, key, inflight, gone>>
    /\ UNCHANGED <<sessionVars, geoVars, clientVars>>

Pong(c) ==
    /\ Heard(c)
    /\ pong' = pong \cup {c}
    /\ UNCHANGED gone
    /\ UNCHANGED <<sessionVars, geoVars, connVars, clientVars>>

(* rawSend to, or the sweep of, a client that does not drain its socket. *)
SlowClient(c) ==
    /\ conn[c] = "open" /\ c \in member
    /\ conn' = [conn EXCEPT ![c] = "cut"]
    /\ member' = member \ {c}
    /\ UNCHANGED <<path, authed, challenged, key, inflight>>
    /\ UNCHANGED <<sessionVars, geoVars, clientVars, beatVars>>

-----------------------------------------------------------------------------
(* dispatchClient *)

Mutant_ResizeByAnyone(c, k, s) ==
    /\ k = "create" => s \notin live \cup over /\ Cardinality(live) < MaxSessions
    /\ k \in {"close", "attach", "resize"} => s \in live
    /\ k \in {"claim", "force"} => s \in attached[c] \cap live

(* What a frame needs to have an effect: room for a creation, an existing   *)
(* session, ownership for a resize, attachment for a claim.                 *)
Accepted(c, k, s) ==
    /\ k = "create" => s \notin live \cup over /\ Cardinality(live) < MaxSessions
    /\ k \in {"close", "attach", "resize"} => s \in live
    /\ k = "resize" => Owner(s) = c
    /\ k \in {"claim", "force"} => s \in attached[c] \cap live

(* create: the creator owns the session; nobody is told. *)
CreateFrame(c, s) ==
    /\ Open(s, c)
    /\ geo' = Claim(geo, s, c, TRUE, localFocus)
    /\ remote' = remote \cup {s}
    /\ made' = [made EXCEPT ![c] = @ \cup {s}]
    /\ UNCHANGED <<over, localFocus, desk, attached>>

AttachFrame(c, s) ==
    /\ attached' = [attached EXCEPT ![c] = @ \cup {s}]
    /\ UNCHANGED <<sessionVars, geoVars, made>>

DetachFrame(c, s) ==
    /\ attached' = [attached EXCEPT ![c] = @ \ {s}]
    /\ SetGeo(Release(geo, s, c), {})
    /\ UNCHANGED <<sessionVars, localFocus, made>>

(* The owner's size, at once or when the timer fires. *)
ResizeFrame(c, s) ==
    /\ Resize(s, c)
    /\ fitted' = fitted \cup {s}
    /\ UNCHANGED <<live, over, remote, geo, localFocus, desk, clientVars>>

Mutant_ClaimUntold(c, s, force) ==
    /\ geo' = Claim(geo, s, c, force, localFocus)
    /\ fitted' = fitted \ ChangedIn(geo')
    /\ UNCHANGED <<sessionVars, localFocus, desk, attached, made>>

(* geo-claim, forced by the user or on behalf of an attentive page. *)
ClaimFrame(c, s, force) ==
    /\ SetGeo(Claim(geo, s, c, force, localFocus), {})
    /\ UNCHANGED <<sessionVars, localFocus, attached, made>>

ReleaseFrame(c, s) ==
    /\ SetGeo(Release(geo, s, c), {})
    /\ UNCHANGED <<sessionVars, localFocus, clientVars>>

(* The frames that change state; the others only answer. *)
Dispatch(c, k, s) ==
    /\ Accepted(c, k, s)
    /\ \/ k = "create"  /\ CreateFrame(c, s)
       \/ k = "close"   /\ Exit(s)
       \/ k = "attach"  /\ AttachFrame(c, s)
       \/ k = "detach"  /\ DetachFrame(c, s)
       \/ k = "resize"  /\ ResizeFrame(c, s)
       \/ k = "claim"   /\ ClaimFrame(c, s, FALSE)
       \/ k = "force"   /\ ClaimFrame(c, s, TRUE)
       \/ k = "release" /\ ReleaseFrame(c, s)

(* A frame in clear is dispatched as it arrives; once the key is derived it *)
(* is rejected.                                                             *)
PlainFrame(c, k, s) ==
    /\ Heard(c) /\ c \in authed /\ key[c] # "on"
    /\ Dispatch(c, k, s)
    /\ UNCHANGED <<connVars, beatVars>>

(* An encrypted frame is handed to the decryption ... *)
SecureFrame(c, k, s) ==
    /\ Heard(c) /\ key[c] = "on"
    /\ Cardinality(inflight[c]) < MaxInFlight
    /\ inflight' = [inflight EXCEPT ![c] = @ \cup {[kind |-> k, id |-> s]}]
    /\ UNCHANGED <<conn, path, member, authed, challenged, key>>
    /\ UNCHANGED <<sessionVars, geoVars, clientVars, beatVars>>

(* ... and dispatched when that is done: in any order, and also when the    *)
(* connection has closed.                                                   *)
Decrypted(c, f) ==
    /\ f \in inflight[c]
    /\ inflight' = [inflight EXCEPT ![c] = @ \ {f}]
    /\ \/ Dispatch(c, f.kind, f.id)
       \/ /\ ~Accepted(c, f.kind, f.id)
          /\ UNCHANGED <<sessionVars, geoVars, clientVars>>
    /\ UNCHANGED <<conn, path, member, authed, challenged, key>>
    /\ UNCHANGED beatVars

Next ==
    \/ \E s \in Session : LocalCreate(s) \/ SessionEnds(s) \/ LocalResize(s) \/ ResizeTimer(s) \/ Dwell(s)
    \/ Heartbeat
    \/ \E focused \in BOOLEAN : SetLocalGeoFocus(focused)
    \/ \E c \in Client :
          \/ Connect(c) \/ KeyDerived(c) \/ Reject(c) \/ PeerCloses(c) \/ Vanish(c)
          \/ CloseEvent(c) \/ Pong(c) \/ SlowClient(c)
          \/ \E good \in BOOLEAN : AuthResponse(c, good)
          \/ \E k \in Kind, s \in Session : PlainFrame(c, k, s) \/ SecureFrame(c, k, s)
          \/ \E f \in Frame : Decrypted(c, f)

Spec == Init /\ [][Next]_vars

(* The heartbeat timer fires and the close event of a destroyed socket      *)
(* arrives.                                                                 *)
FairSpec ==
    /\ Spec
    /\ WF_vars(Heartbeat)
    /\ \A c \in Client : WF_vars(CloseEvent(c))

-----------------------------------------------------------------------------
(* The arbiter's table only names sessions that exist: no late frame of a   *)
(* client, no claim and no close event revives the entry of an ended one.   *)
GeoOfOpenSessions == DOMAIN geo \subseteq live

(* The header of geoArbiter.ts: a client that disconnected owns nothing.    *)
(* (A frame still under decryption may claim after the close event, so only *)
(* clients that talk in clear are promised.)                                *)
OwnerConnected ==
    \A s \in live : Owner(s) # Local /\ path[Owner(s)] # "e2ee" => conn[Owner(s)] # "closed"

(* A web owner watches the session it owns, or created it. *)
OwnerWatches ==
    \A s \in live : Owner(s) # Local =>
        s \in attached[Owner(s)] \cup made[Owner(s)]

(* Every way a client can end, fail or change its mind leaves the arbiter's *)
(* table with owners that exist and see what they own.                      *)
OwnersAreReal == GeoOfOpenSessions /\ OwnerConnected /\ OwnerWatches

(* The desktop window knows who owns each session it opened: it decides by  *)
(* it whether it fits the terminal or follows another size.  (A client that *)
(* creates a session owns it without an announcement.)                      *)
DesktopKnowsOwner == \A s \in live \ remote : desk[s] = Owner(s)

(* An owner that asked for a size since it owns the session has it, or will *)
(* when the timer fires: no size that a former owner or any other client    *)
(* asked for comes in between, however resizes, claims, releases and timers *)
(* follow each other.                                                       *)
OwnersSizeStands ==
    \A s \in fitted :
        \/ pending[s] = {Owner(s)}
        \/ pending[s] = {} /\ sizer[s] = Owner(s)

(* A client that vanished without a close loses what it owned. *)
VanishedOwnsNothing ==
    \A c \in Client : (c \in gone /\ path[c] # "e2ee") ~> \A s \in live : Owner(s) # c
=============================================================================
