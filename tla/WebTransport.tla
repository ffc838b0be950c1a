---------------------------- MODULE WebTransport ----------------------------
(***************************************************************************)
(* The browser's transport (src/renderer/transport/webSocketTransport.ts): *)
(* dialing and backing off, the join and the answer to the challenge, the  *)
(* gate that keeps business messages back until the host confirmed, the    *)
(* session key and the queue of messages to seal, the outbox, and the      *)
(* sessions it follows across connections.  The host is here as far as the *)
(* transport can tell.                                                     *)
(*                                                                         *)
(* Connections are numbered; the number stands for the nonce and for the   *)
(* key derived from it.  Answering and deriving are asynchronous and may   *)
(* end when their connection is gone.  So is the opening of sealed frames, *)
(* at both ends: each is handled when its own cipher step ends, in any     *)
(* order.                                                                  *)
(***************************************************************************)
EXTENDS Naturals, Sequences, FiniteSets, SequencesExt

CONSTANTS
    Session,      \* sessions of the host
    Modes,        \* how the page reaches the host: subset of Mode
    Cap,          \* attempts before the first confirmation (8)
    MaxConns,     \* bound: connections
    MaxOps        \* bound: messages of the page

(* Through a relay, or directly in the local network; a host reached        *)
(* through a relay may ask for end-to-end encryption; the page's token may  *)
(* be an old one.                                                           *)
Mode == {m \in [relay : BOOLEAN, enc : BOOLEAN, good : BOOLEAN] : m.enc \/ ~m.good => m.relay}

ASSUME TransportAssumption ==
    /\ Modes \subseteq Mode
    /\ {Cap, MaxConns, MaxOps} \subseteq Nat /\ MaxConns # 0
    /\ IsFiniteSet(Session)

VARIABLES
    mode,        \* one of Modes, for good
    sock,        \* ws: none, dialing or open
    timer,       \* is a reconnect timer set?
    conn,        \* the number of the last connection
    gate,        \* gateState
    authed,      \* everAuthenticated
    attempts,    \* reconnectAttempt
    disposed,    \* closedByUser
    attachedIds, \* sessions to follow
    outbox,      \* messages kept for later
    key,         \* e2eeKey: the connection it was derived for, or 0
    sealing,     \* e2eeQueue
    answering,   \* the nonce being answered, or 0
    deriving,    \* the nonce a key is being derived from, or 0
    known,       \* lastTabs
    reading,     \* pendingSecure and the frames under openFrame, opened
    up, down,    \* the wires of the current connection
    opening,     \* frames the host's openFrame works on, of any connection
    phase,       \* the host's view of it
    sessions,    \* live sessions of the host
    followed,    \* sessions the host sends this connection the output of
    issued,      \* how many messages the page sent; an op's number
    ops,         \* the numbers of the ops among them
    got,         \* those the host handled
    lost         \* those a broken connection, or a seal without a socket, took away

client == <<sock, timer, conn, gate, authed, attempts, disposed, attachedIds, outbox, key, sealing,
            answering, deriving, known, reading>>
net == <<up, down, opening>>
theHost == <<mode, phase, sessions, followed, got>>
vars == <<client, net, theHost, issued, ops, lost>>

Relay == mode.relay
Enc == mode.enc

Message == [k : {"attach", "detach"}, of : Session] \cup [k : {"op"}, of : 1 .. MaxOps]
           \cup [k : {"join"}, of : {0}] \cup [k : {"response"}, of : 1 .. MaxConns]
Business(m) == m.k \in {"attach", "detach", "op"}
Frame == [m : Message, sec : 0 .. MaxConns]
Down == [k : {"challenge"}, of : 1 .. MaxConns] \cup [k : {"ok"}, of : {0}]
        \cup [k : {"tabs"}, of : SUBSET Session] \cup [k : {"error"}, of : {"denied", "other"}]
        \cup [k : {"close"}, of : {"plain", "denied", "revoked"}]

TypeOK ==
    /\ sock \in {"none", "dialing", "open"} /\ timer \in BOOLEAN
    /\ {conn, key, answering, deriving} \subseteq 0 .. MaxConns
    /\ gate \in {"connecting", "ready", "denied", "revoked"}
    /\ mode \in Modes /\ {authed, disposed} \subseteq BOOLEAN /\ attempts \in 0 .. MaxConns
    /\ {attachedIds, known, sessions, followed} \subseteq SUBSET Session
    /\ outbox \in Seq(Message) /\ sealing \in Seq(Message)
    /\ up \in Seq(Frame) /\ opening \in Seq(Frame) /\ down \in Seq(Down) /\ reading \in Seq(Down)
    /\ phase \in {"none", "challenged", "ok", "closed"}
    /\ issued \in 0 .. MaxOps /\ ops \subseteq 1 .. MaxOps
    /\ got \in Seq(1 .. MaxOps) /\ lost \subseteq 1 .. MaxOps

Init ==
    /\ sock = "dialing" /\ timer = FALSE /\ conn = 1
    /\ gate = "connecting" /\ authed = FALSE /\ attempts = 0 /\ disposed = FALSE
    /\ attachedIds = {} /\ outbox = <<>> /\ key = 0 /\ sealing = <<>>
    /\ answering = 0 /\ deriving = 0 /\ known = {}
    /\ up = <<>> /\ down = <<>> /\ opening = <<>> /\ reading = <<>> /\ phase = "none"
    /\ mode \in Modes
    /\ sessions = Session /\ followed = {}
    /\ issued = 0 /\ ops = {} /\ got = <<>> /\ lost = {}

-----------------------------------------------------------------------------
(* Sending *)

Plain(ms) == [i \in DOMAIN ms |-> [m |-> ms[i], sec |-> 0]]
Attaches == LET ids == SetToSeq(attachedIds) IN [i \in DOMAIN ids |-> [k |-> "attach", of |-> ids[i]]]

Mutant_SocketIgnored(ms) ==
    \/ /\ key # 0
       /\ sealing' = sealing \o ms
       /\ UNCHANGED <<up, outbox>>
    \/ /\ key = 0 /\ (Relay => gate = "ready")
       /\ up' = up \o Plain(ms)
       /\ UNCHANGED <<sealing, outbox>>
    \/ /\ key = 0 /\ ~(Relay => gate = "ready")
       /\ outbox' = outbox \o ms
       /\ UNCHANGED <<sealing, up>>

(* sendRaw of business messages: to be sealed once there is a key, else     *)
(* sent if the gate is open and the socket too, else kept.                  *)
SendRaw(ms) ==
    LET open == sock = "open" /\ (Relay => gate = "ready")
    IN  \/ /\ key # 0
           /\ sealing' = sealing \o ms
           /\ UNCHANGED <<up, outbox>>
        \/ /\ key = 0 /\ open
           /\ up' = up \o Plain(ms)
           /\ UNCHANGED <<sealing, outbox>>
        \/ /\ key = 0 /\ ~open
           /\ outbox' = outbox \o ms
           /\ UNCHANGED <<sealing, up>>

Bodies(fs) == [i \in DOMAIN fs |-> fs[i].m]
OpsOf(ms) == {ms[i].of : i \in {j \in DOMAIN ms : ms[j].k = "op"}}

(* A step of the seal queue: without a key or a socket the message is gone. *)
Seal ==
    /\ sealing # <<>>
    /\ sealing' = Tail(sealing)
    /\ IF key # 0 /\ sock = "open"
       THEN up' = Append(up, [m |-> Head(sealing), sec |-> key]) /\ UNCHANGED lost
       ELSE lost' = lost \cup OpsOf(<<Head(sealing)>>) /\ UNCHANGED up
    /\ UNCHANGED <<sock, timer, conn, gate, authed, attempts, disposed, attachedIds, outbox, key,
                   answering, deriving, known, reading, down, opening, theHost, issued, ops>>

Attach(s) ==
    /\ ~disposed /\ s \in known \ attachedIds
    /\ issued < MaxOps /\ issued' = issued + 1
    /\ attachedIds' = attachedIds \cup {s}
    /\ SendRaw(<<[k |-> "attach", of |-> s]>>)
    /\ UNCHANGED <<sock, timer, conn, gate, authed, attempts, disposed, key, answering, deriving, known,
                   reading, down, opening, theHost, ops, lost>>

Detach(s) ==
    /\ ~disposed /\ s \in attachedIds
    /\ issued < MaxOps /\ issued' = issued + 1
    /\ attachedIds' = attachedIds \ {s}
    /\ SendRaw(<<[k |-> "detach", of |-> s]>>)
    /\ UNCHANGED <<sock, timer, conn, gate, authed, attempts, disposed, key, answering, deriving, known,
                   reading, down, opening, theHost, ops, lost>>

(* Input, resize, create, close and the like. *)
Op ==
    /\ ~disposed
    /\ issued < MaxOps /\ issued' = issued + 1
    /\ ops' = ops \cup {issued + 1}
    /\ SendRaw(<<[k |-> "op", of |-> issued + 1]>>)
    /\ UNCHANGED <<sock, timer, conn, gate, authed, attempts, disposed, attachedIds, key, answering, deriving,
                   known, reading, down, opening, theHost, lost>>

-----------------------------------------------------------------------------
(* Connecting *)

Mutant_NeverGivesUp(g) ==
    \/ /\ disposed \/ timer \/ (Relay /\ g \in {"denied", "revoked"})
       /\ gate' = g
       /\ UNCHANGED <<timer, attempts>>
    \/ /\ ~disposed /\ ~timer /\ ~(Relay /\ g \in {"denied", "revoked"})
       /\ timer' = TRUE /\ attempts' = attempts + 1
       /\ gate' = g

(* scheduleReconnect, with gate g. *)
ScheduleReconnect(g) ==
    \/ /\ disposed \/ timer \/ (Relay /\ g \in {"denied", "revoked"})
       /\ gate' = g
       /\ UNCHANGED <<timer, attempts>>
    \/ /\ ~disposed /\ ~timer /\ ~(Relay /\ g \in {"denied", "revoked"})
       /\ IF Relay /\ ~authed /\ attempts >= Cap
          THEN gate' = "denied" /\ UNCHANGED <<timer, attempts>>
          ELSE timer' = TRUE /\ attempts' = attempts + 1 /\ gate' = g

(* onclose: what was on the wires goes with the connection. *)
OnClose(code) ==
    /\ sock' = "none"
    /\ up' = <<>> /\ down' = <<>> /\ phase' = "none" /\ followed' = {}
    /\ lost' = lost \cup OpsOf(Bodies(up))
    /\ IF Relay /\ code # "plain"
       THEN gate' = code /\ UNCHANGED <<timer, attempts>>
       ELSE ScheduleReconnect(gate)
    /\ UNCHANGED <<conn, authed, disposed, attachedIds, outbox, key, sealing, answering, deriving, known,
                   reading, opening, mode, sessions, issued, ops, got>>

(* The network or the relay ends the connection, or it never came about. *)
Lost ==
    /\ sock # "none"
    /\ OnClose("plain")

(* The relay says that the code is bad or was revoked. *)
Refused(code) ==
    /\ Relay /\ sock = "open" /\ code \in {"denied", "revoked"}
    /\ OnClose(code)

(* The reconnect timer: a second at least, the page's crypto is done by     *)
(* then.                                                                    *)
Connect ==
    /\ timer /\ ~disposed /\ conn < MaxConns
    /\ answering = 0 /\ deriving = 0 /\ sealing = <<>> /\ reading = <<>>
    /\ timer' = FALSE /\ sock' = "dialing" /\ conn' = conn + 1
    /\ gate' = IF Relay THEN "connecting" ELSE gate
    /\ UNCHANGED <<authed, attempts, disposed, attachedIds, outbox, key, sealing, answering, deriving, known,
                   reading, net, theHost, issued, ops, lost>>

(* onopen: join, or at once everything kept and the sessions followed. *)
OnOpen ==
    /\ sock = "dialing"
    /\ sock' = "open" /\ key' = 0
    /\ \/ /\ Relay
          /\ up' = <<[m |-> [k |-> "join", of |-> 0], sec |-> 0]>>
          /\ UNCHANGED <<outbox, attempts, phase, down>>
       \/ /\ ~Relay
          /\ up' = Plain(outbox \o Attaches) /\ outbox' = <<>> /\ attempts' = 0
          /\ phase' = "ok" /\ down' = <<[k |-> "ok", of |-> 0], [k |-> "tabs", of |-> sessions]>>
    /\ UNCHANGED <<timer, conn, gate, authed, disposed, attachedIds, sealing, answering, deriving, known, reading,
                   opening, mode, sessions, followed, issued, got, ops, lost>>

-----------------------------------------------------------------------------
(* Asynchronous steps *)

Dispose ==
    /\ disposed' = TRUE /\ timer' = FALSE /\ sock' = "none" /\ gate' = "denied"
    /\ up' = <<>> /\ down' = <<>> /\ phase' = "none" /\ followed' = {}
    /\ lost' = lost \cup OpsOf(Bodies(up))
    /\ UNCHANGED <<conn, authed, attempts, attachedIds, outbox, key, sealing, known, reading, opening, mode,
                   sessions, issued, ops, got>>

(* answerChallenge is done, or the context is not secure.  The response is  *)
(* a control frame: it passes the gate, but without a socket it is kept.    *)
Answer ==
    /\ answering # 0
    /\ answering' = 0
    /\ \/ /\ LET response == [k |-> "response", of |-> answering]
             IN  IF sock = "open"
                 THEN up' = up \o Plain(<<response>>) /\ UNCHANGED outbox
                 ELSE outbox' = Append(outbox, response) /\ UNCHANGED up
          /\ UNCHANGED <<sock, timer, conn, gate, authed, attempts, disposed, attachedIds, key, sealing, known,
                         reading, down, opening, theHost, issued, ops, lost>>
       \/ Dispose
    /\ UNCHANGED deriving

(* relayAuthOk, with key k. *)
RelayAuthOk(k) ==
    /\ authed' = TRUE /\ attempts' = 0 /\ gate' = "ready"
    /\ outbox' = <<>>
    /\ IF k # 0 THEN sealing' = sealing \o outbox \o Attaches /\ UNCHANGED up
                ELSE up' = up \o Plain(outbox \o Attaches) /\ UNCHANGED sealing

(* activateE2EE is done. *)
Derive ==
    /\ deriving # 0
    /\ deriving' = 0
    /\ \/ /\ key' = deriving
          /\ RelayAuthOk(deriving)
          /\ UNCHANGED <<sock, timer, conn, disposed, attachedIds, known, reading, down, opening, theHost,
                         issued, ops, lost>>
       \/ Dispose
    /\ UNCHANGED answering

-----------------------------------------------------------------------------
(* Messages of the host.  After it confirmed an encrypted connection they   *)
(* come sealed: they wait for the key, then for openFrame, each by itself,  *)
(* and are handled whatever became of their connection.                     *)

Sealed(d) == Enc /\ d.k \in {"tabs", "error"} /\ conn \in {deriving, key}

Mutant_KeepsDeadSessions(ids) ==
    /\ known' = ids
    /\ UNCHANGED attachedIds

OnTabs(ids) ==
    /\ known' = ids
    /\ attachedIds' = attachedIds \cap ids

(* The two kinds that come sealed. *)
Handled(d) ==
    \/ /\ d.k = "tabs"
       /\ OnTabs(d.of)
       /\ UNCHANGED gate
    \/ /\ d.k = "error"
       /\ gate' = IF ~Relay THEN gate ELSE IF d.of = "denied" THEN "denied" ELSE "connecting"
       /\ UNCHANGED <<attachedIds, known>>

HandleMessage ==
    /\ sock = "open" /\ down # <<>>
    /\ LET d == Head(down)
       IN  \/ /\ d.k = "challenge"
              /\ answering' = d.of
              /\ UNCHANGED <<gate, authed, attempts, outbox, sealing, up, deriving, attachedIds, known, reading>>
           \/ /\ d.k = "ok"
              /\ \/ Relay /\ Enc /\ deriving' = conn /\ UNCHANGED <<gate, authed, attempts, outbox, sealing, up>>
                 \/ Relay /\ ~Enc /\ RelayAuthOk(0) /\ UNCHANGED deriving
                 \/ ~Relay /\ UNCHANGED <<gate, authed, attempts, outbox, sealing, up, deriving>>
              /\ UNCHANGED <<answering, attachedIds, known, reading>>
           \/ /\ Sealed(d)
              /\ reading' = Append(reading, d)
              /\ UNCHANGED <<gate, authed, attempts, outbox, sealing, up, answering, deriving, attachedIds, known>>
           \/ /\ ~Sealed(d)
              /\ Handled(d)
              /\ UNCHANGED <<authed, attempts, outbox, sealing, up, answering, deriving, reading>>
    /\ down' = Tail(down)
    /\ UNCHANGED <<sock, timer, conn, disposed, key, opening, theHost, issued, ops, lost>>

(* openFrame of one of them is done. *)
PageOpens(i) ==
    /\ key # 0
    /\ Handled(reading[i])
    /\ reading' = RemoveAt(reading, i)
    /\ UNCHANGED <<sock, timer, conn, authed, attempts, disposed, outbox, key, sealing, answering, deriving,
                   net, theHost, issued, ops, lost>>

(* The host's close arrives after its last message. *)
ClosedByHost ==
    /\ sock = "open" /\ down # <<>> /\ Head(down).k = "close"
    /\ OnClose(Head(down).of)

-----------------------------------------------------------------------------
(* The host *)

(* failWith: the relay passes a fatal code on, or not. *)
FailWith(what) ==
    /\ phase' = "closed"
    /\ \E code \in IF what = "denied" THEN {"plain", "denied"} ELSE {"plain"} :
          down' = down \o <<[k |-> "error", of |-> what], [k |-> "close", of |-> code]>>
    /\ UNCHANGED <<followed, got>>

(* A message of an authenticated client. *)
Dispatch(m) ==
    \/ /\ m.k = "attach" /\ m.of \in sessions
       /\ followed' = followed \cup {m.of} /\ UNCHANGED <<phase, down, got>>
    \/ /\ m.k = "attach" /\ m.of \notin sessions
       /\ down' = Append(down, [k |-> "error", of |-> "other"]) /\ UNCHANGED <<phase, followed, got>>
    \/ m.k = "detach" /\ followed' = followed \ {m.of} /\ UNCHANGED <<phase, down, got>>
    \/ m.k = "op" /\ got' = Append(got, m.of) /\ UNCHANGED <<phase, down, followed>>
    \/ ~Business(m) /\ FailWith("other")

(* A frame that is not left to openFrame. *)
HostAccepts(f) ==
    \/ /\ phase = "none" /\ f.m.k = "join"
       /\ phase' = "challenged" /\ down' = Append(down, [k |-> "challenge", of |-> conn])
       /\ UNCHANGED <<followed, got>>
    \/ /\ phase = "challenged" /\ f.m.k = "response"
       /\ IF f.m.of = conn /\ mode.good
          THEN /\ phase' = "ok"
               /\ down' = down \o <<[k |-> "ok", of |-> 0], [k |-> "tabs", of |-> sessions]>>
               /\ UNCHANGED <<followed, got>>
          ELSE FailWith("denied")
    \/ /\ phase = "challenged" /\ f.m.k # "response"
       /\ FailWith("other")
    \/ /\ phase = "ok" /\ (Enc \/ f.sec # 0)
       /\ FailWith("other")
    \/ /\ phase = "ok" /\ ~Enc /\ f.sec = 0
       /\ Dispatch(f.m)
    \/ /\ phase = "closed"
       /\ UNCHANGED <<phase, down, followed, got>>

Opens(f) == phase = "ok" /\ Enc /\ f.sec = conn

(* What comes after its own close the host no longer handles. *)
HostReceives ==
    /\ up # <<>>
    /\ up' = Tail(up)
    /\ \/ /\ Opens(Head(up))
          /\ opening' = Append(opening, Head(up))
          /\ UNCHANGED <<phase, down, followed, got, lost>>
       \/ /\ ~Opens(Head(up))
          /\ HostAccepts(Head(up))
          /\ lost' = IF phase' = "closed" THEN lost \cup OpsOf(<<Head(up).m>>) ELSE lost
          /\ UNCHANGED opening
    /\ UNCHANGED <<client, mode, sessions, issued, ops>>

(* openFrame of one frame is done.  Under a connection that is gone only    *)
(* the sessions still learn of it.                                          *)
HostOpens(i) ==
    /\ LET f == opening[i]
       IN  \/ f.sec = conn /\ phase = "ok" /\ Dispatch(f.m)
          \/ /\ ~(f.sec = conn /\ phase = "ok")
             /\ got' = IF f.m.k = "op" THEN Append(got, f.m.of) ELSE got
             /\ UNCHANGED <<phase, down, followed>>
    /\ opening' = RemoveAt(opening, i)
    /\ UNCHANGED <<client, up, mode, sessions, issued, ops, lost>>

(* 5 s without an answer. *)
AuthTimeout ==
    /\ phase = "challenged"
    /\ FailWith("other")
    /\ UNCHANGED <<client, up, opening, mode, sessions, issued, ops, lost>>

SessionEnds(s) ==
    /\ s \in sessions
    /\ sessions' = sessions \ {s} /\ followed' = followed \ {s}
    /\ down' = IF phase = "ok" THEN Append(down, [k |-> "tabs", of |-> sessions \ {s}]) ELSE down
    /\ UNCHANGED <<client, up, opening, phase, mode, issued, got, ops, lost>>

Next ==
    \/ Seal \/ Op \/ \E s \in Session : Attach(s) \/ Detach(s) \/ SessionEnds(s)
    \/ Lost \/ Connect \/ OnOpen \/ Answer \/ Derive
    \/ \E code \in {"denied", "revoked"} : Refused(code)
    \/ HandleMessage \/ ClosedByHost \/ \E i \in DOMAIN reading : PageOpens(i)
    \/ HostReceives \/ AuthTimeout \/ \E i \in DOMAIN opening : HostOpens(i)

Spec == Init /\ [][Next]_vars

(* The event loop and the network go on; the page does as it likes.         *)
FairSpec ==
    /\ Spec
    /\ WF_vars(Seal) /\ WF_vars(Connect) /\ WF_vars(OnOpen) /\ WF_vars(Answer) /\ WF_vars(Derive)
    /\ WF_vars(HandleMessage) /\ WF_vars(ClosedByHost) /\ WF_vars(HostReceives)
    /\ WF_vars(\E i \in DOMAIN reading : PageOpens(i)) /\ WF_vars(\E i \in DOMAIN opening : HostOpens(i))

-----------------------------------------------------------------------------
(* webSocketTransport.ts:466: no business message is sent before the host   *)
(* confirmed the connection, and none unsealed where it asked for sealing,  *)
(* so the host never has to end a connection for it.                        *)
NoEarlyBusiness ==
    \A i \in DOMAIN up : Business(up[i].m) =>
        phase \in {"ok", "closed"} /\ up[i].sec = (IF Relay /\ Enc THEN conn ELSE 0)

(* webSocketTransport.ts:97: the host handles no message twice, and what is *)
(* sent while there is no connection is kept: only a connection that breaks *)
(* takes away what was on its wire, and the seal queue what finds no        *)
(* socket.  In clear the host handles messages in the order the page sent   *)
(* them; sealed ones may overtake each other at the host.                   *)
Delivery ==
    /\ \A i, j \in DOMAIN got : i # j => got[i] # got[j]
    /\ ~Enc => \A i, j \in DOMAIN got : i < j => got[i] < got[j]
    /\ ops = ToSet(got) \cup lost \cup OpsOf(outbox) \cup OpsOf(sealing)
             \cup OpsOf(Bodies(up)) \cup OpsOf(Bodies(opening))

(* What the page sends arrives under the connection it is meant for, once,  *)
(* whole but for what a break takes, and in clear in the order it was sent. *)
OrderlyDelivery == NoEarlyBusiness /\ Delivery

AtRest == sock = "open" /\ phase = "ok" /\ up = <<>> /\ down = <<>> /\ outbox = <<>> /\ sealing = <<>>
          /\ deriving = 0 /\ answering = 0

(* Once everything has arrived, the host sends exactly the sessions the     *)
(* page follows, whatever was attached and detached across reconnects.      *)
(* Over an encrypted connection an attach and a detach may change places.   *)
SameSessions == ~Enc /\ AtRest => followed = attachedIds

(* A refusal is final: no further connection, whatever is still under way.  *)
RefusalIsFinal == [][Relay /\ gate \in {"denied", "revoked"} => conn' = conn]_vars

(* webSocketTransport.ts:79: a page with a stale token stops by itself.     *)
StaleTokenStops == ~mode.good ~> gate \in {"denied", "revoked"}

(* A page the host will not have comes to rest, whatever timer, handshake   *)
(* or crypto step is under way when it learns so.                           *)
RefusedPageStops == RefusalIsFinal /\ StaleTokenStops
=============================================================================
