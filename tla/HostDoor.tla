------------------------------ MODULE HostDoor ------------------------------
(***************************************************************************)
(* How one gets in to the desktop host (src/main/remoteServer.ts): HTTP    *)
(* requests with a cookie, logins whose body comes later, upgrades with a  *)
(* cookie, and the pipes of the relay, which the plugin connects from the  *)
(* loopback and which answer a challenge.                                  *)
(*                                                                         *)
(* A connection is the nonce it was challenged with.  What one may do once *)
(* in is the subject of RemoteHost.                                        *)
(***************************************************************************)
EXTENDS AuthManager

CONSTANTS
    Post,        \* bound: logins under way
    AuthTimeout, \* how long a connection may take to authenticate
    Visits       \* what comes, see Visit

(* The relay is enabled (allowRelayFirstFrameAuth) or not.  Bounds: logins  *)
(* at once and connections in all.                                          *)
Visit == [relay : BOOLEAN, posts : Nat, conns : Nat]

ASSUME DoorAssumption == Visits \subseteq Visit /\ AuthTimeout \in Nat

VARIABLES
    visit,    \* the one of Visits this behaviour is of
    posts,    \* logins whose body is still read
    conn,     \* WebSocket connections
    refused   \* history: connections refused though they answered right, in time and unlocked

vars == <<managerVars, visit, posts, conn, refused>>

(* closing: the host sent its close.  nonce: authNonce, while it is not     *)
(* answered, as history: when, and in the time of which token, it was made. *)
Conn == [st : {"new", "open", "closing", "closed"}, authed : BOOLEAN,
         nonce : [at : Time, under : Epoch] \cup {None}, deadline : Nat \cup {None}]
Attempt == [ip : Ip, token : Epoch]

TypeOK ==
    /\ AuthTypeOK /\ visit \in Visits
    /\ posts \in [Post -> Attempt \cup {None}]
    /\ conn \in [Nonce -> Conn]
    /\ refused \subseteq Nonce

Nobody(st) == [st |-> st, authed |-> FALSE, nonce |-> None, deadline |-> None]

Init ==
    /\ AuthInit /\ visit \in Visits
    /\ posts = [q \in Post |-> None]
    /\ conn = [n \in Nonce |-> Nobody("new")]
    /\ refused = {}

-----------------------------------------------------------------------------
(* HTTP *)

(* handleHttp: every request asks isValidSession first; without a valid     *)
(* cookie it is sent to the login page.                                     *)
Request(c) ==
    /\ Touch(c)
    /\ UNCHANGED <<now, epoch, authVars, nonces, posts, conn, visit, refused>>

(* POST /auth: its body is awaited.  The token is that of some generation,  *)
(* or one that there is not yet: a wrong one.                               *)
PostLogin(q, ip, e) ==
    /\ posts[q] = None /\ Cardinality({r \in Post : posts[r] # None}) < visit.posts
    /\ posts' = [posts EXCEPT ![q] = [ip |-> ip, token |-> e]]
    /\ UNCHANGED <<managerVars, conn, visit, refused>>

Ended(q) == posts' = [posts EXCEPT ![q] = None]

Mutant_BodyRead(q) ==
    /\ posts[q] # None
    /\ Ended(q)
    /\ IF posts[q].token = epoch
       THEN ClearRecord(posts[q].ip) /\ \E c \in Cookie : Mint(c, epoch)
       ELSE RecordFailure(posts[q].ip) /\ UNCHANGED cookieVars
    /\ UNCHANGED <<now, epoch, nonces, conn, visit, refused>>

(* The body is there: only now the lock and the token are looked at. *)
BodyRead(q) ==
    /\ posts[q] # None
    /\ Ended(q)
    /\ Login(posts[q].ip, posts[q].token)
    /\ UNCHANGED <<now, epoch, nonces, conn, visit, refused>>

(* readBody fails: too much, or the client is gone. *)
BodyFails(q) ==
    /\ posts[q] # None
    /\ Ended(q)
    /\ UNCHANGED <<managerVars, conn, visit, refused>>

-----------------------------------------------------------------------------
(* Connections *)

Connected(n, authed, closing) ==
    conn' = [conn EXCEPT ![n] =
        [st |-> IF closing THEN "closing" ELSE "open", authed |-> authed,
         nonce |-> IF authed THEN None ELSE [at |-> now, under |-> epoch],
         deadline |-> IF authed THEN None ELSE now + AuthTimeout]]

(* Connections come in the order of their names. *)
Arrives(n) == conn[n].st = "new" /\ n <= visit.conns /\ \A m \in Nonce : m < n => conn[m].st # "new"

(* An upgrade with a cookie that is valid. *)
UpgradeWithCookie(n, c) ==
    /\ Arrives(n) /\ IsValidSession(c)
    /\ Touch(c)
    /\ Connected(n, TRUE, FALSE)
    /\ UNCHANGED <<now, epoch, authVars, nonces, posts, visit, refused>>

(* An upgrade without one: from the loopback it is challenged, and told at  *)
(* once if the pipes are locked; otherwise it gets a 401.                   *)
Upgrade(n, c, loopback) ==
    /\ Arrives(n) /\ ~IsValidSession(c)
    /\ Touch(c)
    /\ IF visit.relay /\ loopback
       THEN IssueNonce(n) /\ Connected(n, FALSE, Locked(Relay))
       ELSE conn' = [conn EXCEPT ![n] = Nobody("closed")] /\ UNCHANGED nonces
    /\ UNCHANGED <<now, epoch, authVars, posts, visit, refused>>

Heard(n) == conn[n].st \in {"open", "closing"}

\* failWith: an error, and the close.
Failed(n) == [conn[n] EXCEPT !.st = "closing"]

(* A first answer that should do: right, in time, and not locked out.       *)
Deserves(n, e) ==
    /\ conn[n].nonce # None /\ ~Locked(Relay)
    /\ conn[n].nonce.under = epoch /\ e = epoch
    /\ now < conn[n].nonce.at + NonceTtl

(* dispatchClient of an auth-response, also on a connection that was told   *)
(* to go.  Its second one is about no nonce.                                *)
AuthResponse(n, e) ==
    /\ Heard(n) /\ ~conn[n].authed
    /\ LET about == IF conn[n].nonce # None THEN n ELSE None
           ok == Verified(about, e)
       IN  /\ VerifyRelayMac(about, e)
           /\ conn' = [conn EXCEPT ![n] =
                  IF ok THEN [@ EXCEPT !.authed = TRUE, !.nonce = None, !.deadline = None]
                        ELSE [Failed(n) EXCEPT !.nonce = None]]
           /\ refused' = IF Deserves(n, e) /\ ~ok THEN refused \cup {n} ELSE refused
    /\ UNCHANGED <<now, epoch, cookieVars, visit, posts>>

(* Any other frame before it, or an auth-response after it. *)
WrongFrame(n) ==
    /\ Heard(n)
    /\ conn' = [conn EXCEPT ![n] = Failed(n)]
    /\ UNCHANGED <<managerVars, posts, visit, refused>>

TimesOut(n) ==
    /\ Heard(n) /\ conn[n].deadline # None /\ now >= conn[n].deadline
    /\ conn' = [conn EXCEPT ![n] = [Failed(n) EXCEPT !.deadline = None]]
    /\ UNCHANGED <<managerVars, posts, visit, refused>>

(* The socket closes or fails. *)
Closes(n) ==
    /\ Heard(n)
    /\ conn' = [conn EXCEPT ![n] = Nobody("closed")]
    /\ UNCHANGED <<managerVars, posts, visit, refused>>

-----------------------------------------------------------------------------
Next ==
    \/ (Tick \/ RotateToken) /\ UNCHANGED <<posts, conn, visit, refused>>
    \/ \E c \in Cookie : Request(c)
    \/ \E q \in Post :
          \/ BodyRead(q) \/ BodyFails(q)
          \/ \E ip \in Ip, e \in Epoch : PostLogin(q, ip, e)
    \/ \E n \in Nonce :
          \/ WrongFrame(n) \/ TimesOut(n) \/ Closes(n)
          \/ \E c \in Cookie : UpgradeWithCookie(n, c)
          \/ \E c \in Cookie \cup {None}, loopback \in BOOLEAN : Upgrade(n, c, loopback)
          \/ \E e \in Epoch : AuthResponse(n, e)

Spec == Init /\ [][Next]_vars

-----------------------------------------------------------------------------
(* remoteServer.ts:421: a client that answers its challenge in time with    *)
(* the right token, the pipes not being locked, is refused only if as many  *)
(* others as the cap of nonces were challenged after it.                    *)
RefusedOnlyAtCap ==
    \A n \in refused : Cardinality({m \in Nonce : m > n /\ conn[m].st # "new"}) >= NonceCap
=============================================================================
