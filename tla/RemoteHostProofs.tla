-------------------------- MODULE RemoteHostProofs --------------------------
(***************************************************************************)
(* Proofs about the arbiter of geometry (module GeoArbiter) and the host   *)
(* that applies it (module RemoteHost), for every number of clients and    *)
(* sessions, every mix of ways to connect and every number of frames under *)
(* decryption.                                                             *)
(***************************************************************************)
EXTENDS RemoteHost, TLAPS

-----------------------------------------------------------------------------
(* The rules of the arbiter: which entries each may add, and whose           *)
(* ownership it may end or begin.                                           *)

LEMMA ClaimRule ==
    ASSUME NEW g, NEW s, NEW who, NEW force, NEW focus
    PROVE  /\ DOMAIN g \subseteq DOMAIN Claim(g, s, who, force, focus)
           /\ DOMAIN Claim(g, s, who, force, focus) \subseteq DOMAIN g \cup {s}
           /\ \A t : t # s => OwnerIn(Claim(g, s, who, force, focus), t) = OwnerIn(g, t)
           /\ OwnerIn(Claim(g, s, who, force, focus), s) \in {OwnerIn(g, s), who}
           /\ who = Local => OwnerIn(Claim(g, s, who, force, focus), s) = who
BY DEF Claim, Put, OwnerIn, EntryOf, Unclaimed, Taken, MayClaim

LEMMA ReleaseRule ==
    ASSUME NEW g, NEW s, NEW who
    PROVE  /\ DOMAIN Release(g, s, who) = DOMAIN g
           /\ \A t : t # s => OwnerIn(Release(g, s, who), t) = OwnerIn(g, t)
           /\ OwnerIn(Release(g, s, who), s) \in {OwnerIn(g, s), Local}
           /\ who # Local => OwnerIn(Release(g, s, who), s) # who
BY DEF Release, Put, OwnerIn, EntryOf, Unclaimed, Taken

LEMMA DropRule ==
    ASSUME NEW g, NEW who
    PROVE  /\ DOMAIN DropClient(g, who) = DOMAIN g
           /\ \A t : OwnerIn(DropClient(g, who), t) \in {OwnerIn(g, t), Local}
           /\ who # Local => \A t : OwnerIn(DropClient(g, who), t) # who
BY DEF DropClient, OwnerIn, EntryOf, Unclaimed, Taken

LEMMA TakeBackRule ==
    ASSUME NEW g
    PROVE  /\ DOMAIN TakeBack(g) = DOMAIN g
           /\ \A t : OwnerIn(TakeBack(g), t) = Local
BY DEF TakeBack, OwnerIn, EntryOf, Unclaimed, Taken

LEMMA ForgetRule ==
    ASSUME NEW g, NEW s
    PROVE  /\ DOMAIN Forget(g, s) = DOMAIN g \ {s}
           /\ \A t : t # s => OwnerIn(Forget(g, s), t) = OwnerIn(g, t)
BY DEF Forget, Restrict, OwnerIn, EntryOf, Unclaimed

-----------------------------------------------------------------------------
(* The part of the types that ownership rests on. *)
HostType ==
    /\ live \subseteq Session
    /\ desk \in [Session -> Owners]
    /\ conn \in [Client -> {"new", "open", "closing", "cut", "closed"}]
    /\ path \in Paths
    /\ key \in [Client -> {"off", "deriving", "on"}]
    /\ inflight \in [Client -> SUBSET Frame]
    /\ attached \in [Client -> SUBSET Session]
    /\ made \in [Client -> SUBSET Session]

(* A client that may own s: one that watches or created it, and, unless it   *)
(* encrypts, one whose connection is there.                                 *)
MayOwn(c, s) ==
    /\ c \in Client
    /\ s \in attached[c] \cup made[c]
    /\ path[c] # "e2ee" => conn[c] # "closed"

(* What the induction needs: every entry is of an open session and of a     *)
(* client that may own it, frames under decryption and keys belong to       *)
(* clients that encrypt, and the desktop was told of every owner of its own *)
(* sessions and of none of a session that never was.                        *)
HostInv ==
    /\ HostType
    /\ GeoOfOpenSessions
    /\ \A s \in Session : Owner(s) # Local => MayOwn(Owner(s), s)
    /\ \A c \in Client : key[c] # "off" \/ inflight[c] # {} => path[c] = "e2ee"
    /\ DesktopKnowsOwner
    /\ \A s \in Session \ (live \cup over) : desk[s] = Local

LEMMA NotOpenIsLocal ==
    ASSUME HostInv, NEW s, s \notin live
    PROVE  Owner(s) = Local
BY DEF HostInv, GeoOfOpenSessions, Owner, OwnerIn, EntryOf, Unclaimed

(* A change of the table that is broadcast keeps what the desktop knows.     *)
Told == TellDesk(geo', ChangedIn(geo'))

LEMMA TellKeeps ==
    ASSUME HostInv, Told, UNCHANGED <<live, over, remote>>,
           DOMAIN geo' \subseteq live, \A s \in Session : OwnerIn(geo', s) \in Owners
    PROVE  /\ DesktopKnowsOwner'
           /\ desk' \in [Session -> Owners]
           /\ \A s \in Session \ (live' \cup over') : desk'[s] = Local
<1>1. \A s \in Session : desk'[s] = IF OwnerIn(geo', s) # Owner(s) THEN OwnerIn(geo', s) ELSE desk[s]
  BY DEF Told, TellDesk, ChangedIn
<1>2. desk' \in [Session -> Owners]
  BY DEF Told, TellDesk, HostInv, HostType
<1>3. \A s \in live \ remote : desk'[s] = OwnerIn(geo', s)
  BY <1>1 DEF HostInv, HostType, DesktopKnowsOwner
<1>4. \A s \in Session \ (live \cup over) : desk'[s] = Local
  <2> SUFFICES ASSUME NEW s \in Session \ (live \cup over) PROVE desk'[s] = Local
    OBVIOUS
  <2>1. OwnerIn(geo', s) = Local
    BY DEF OwnerIn, EntryOf, Unclaimed
  <2> QED
    BY <1>1, <2>1, NotOpenIsLocal DEF HostInv
<1> QED
  BY <1>2, <1>3, <1>4 DEF DesktopKnowsOwner, Owner

-----------------------------------------------------------------------------
(* Steps that may change who owns what *)

LEMMA ExitKeeps ==
    ASSUME HostInv, NEW s \in Session, s \in live, Exit(s), UNCHANGED <<conn, path, key>>,
           inflight' \in [Client -> SUBSET Frame],
           \A c \in Client : inflight'[c] \subseteq inflight[c]
    PROVE  HostInv'
<1>1. DOMAIN geo' = DOMAIN geo \ {s} /\ \A t : t # s => Owner(t)' = Owner(t)
  BY ForgetRule DEF Exit, Owner
<1>2. live' = live \ {s} /\ over' = over \cup {s} /\ desk' = desk /\ remote' = remote /\ made' = made
  BY DEF Exit
<1>3. attached' = [c \in Client |-> attached[c] \ {s}]
  BY DEF Exit
<1>4. HostType'
  BY <1>2, <1>3 DEF HostInv, HostType
<1>5. GeoOfOpenSessions'
  BY <1>1, <1>2 DEF HostInv, GeoOfOpenSessions
<1>6. Owner(s)' = Local
  BY <1>1 DEF Owner, OwnerIn, EntryOf, Unclaimed
<1>7. \A t \in Session : Owner(t)' # Local => MayOwn(Owner(t), t)'
  BY <1>1, <1>2, <1>3, <1>6 DEF HostInv, MayOwn
<1>8. \A c \in Client : key'[c] # "off" \/ inflight'[c] # {} => path'[c] = "e2ee"
  BY DEF HostInv
<1>9. DesktopKnowsOwner'
  BY <1>1, <1>2 DEF HostInv, DesktopKnowsOwner
<1>10. \A t \in Session \ (live' \cup over') : desk'[t] = Local
  BY <1>2 DEF HostInv
<1> QED
  BY <1>4, <1>5, <1>7, <1>8, <1>9, <1>10 DEF HostInv

(* The part of HostType a broadcast does not touch. *)
ClientType ==
    /\ conn \in [Client -> {"new", "open", "closing", "cut", "closed"}]
    /\ key \in [Client -> {"off", "deriving", "on"}]
    /\ inflight \in [Client -> SUBSET Frame]
    /\ attached \in [Client -> SUBSET Session]
    /\ made \in [Client -> SUBSET Session]

(* A broadcast change that leaves sessions and paths alone: every owner must *)
(* be one that may own.                                                     *)
LEMMA ToldKeeps ==
    ASSUME HostInv, Told, UNCHANGED <<live, over, remote, path>>,
           ClientType', DOMAIN geo' \subseteq live,
           \A s \in Session : Owner(s)' # Local => MayOwn(Owner(s), s)',
           \A c \in Client : key'[c] # "off" \/ inflight'[c] # {} => path[c] = "e2ee"
    PROVE  HostInv'
<1>1. \A s \in Session : OwnerIn(geo', s) \in Owners
  BY DEF MayOwn, Owners, Owner
<1>2. /\ DesktopKnowsOwner'
      /\ desk' \in [Session -> Owners]
      /\ \A s \in Session \ (live' \cup over') : desk'[s] = Local
  BY <1>1, TellKeeps
<1>3. GeoOfOpenSessions'
  BY DEF GeoOfOpenSessions
<1>4. HostType'
  BY <1>2 DEF HostInv, HostType, ClientType
<1> QED
  BY <1>2, <1>3, <1>4 DEF HostInv

(* The client a frame comes from: clear, and then its connection is heard,   *)
(* or encrypted.                                                            *)
Speaks(c) == c \in Client /\ (path[c] # "e2ee" => conn[c] # "closed")

LEMMA DispatchKeeps ==
    ASSUME HostInv, NEW c \in Client, NEW k, NEW s \in Session, Speaks(c), Dispatch(c, k, s),
           UNCHANGED <<conn, path, key>>,
           inflight' \in [Client -> SUBSET Frame],
           \A d \in Client : inflight'[d] \subseteq inflight[d]
    PROVE  HostInv'
<1>0. /\ Accepted(c, k, s)
      /\ Local \notin Client
      /\ \A d \in Client : key'[d] # "off" \/ inflight'[d] # {} => path'[d] = "e2ee"
  BY HostAssumption DEF Dispatch, HostInv
<1>1. CASE k = "create" /\ CreateFrame(c, s)
  <2>1. /\ live' = live \cup {s} /\ s \notin live \cup over
        /\ over' = over /\ remote' = remote \cup {s} /\ desk' = desk /\ attached' = attached
        /\ geo' = Claim(geo, s, c, TRUE, localFocus)
        /\ made' = [made EXCEPT ![c] = @ \cup {s}]
    BY <1>1 DEF CreateFrame, Open
  <2>2. /\ DOMAIN geo' \subseteq DOMAIN geo \cup {s}
        /\ \A t : t # s => Owner(t)' = Owner(t)
        /\ Owner(s)' = c
    BY <2>1 DEF Owner, Claim, Put, OwnerIn, EntryOf, Unclaimed, Taken, MayClaim
  <2>3. HostType'
    BY <2>1 DEF HostInv, HostType
  <2>4. \A t \in Session : Owner(t)' # Local => MayOwn(Owner(t), t)'
    <3>1. MayOwn(c, s)'
      BY <2>1 DEF MayOwn, Speaks, HostInv, HostType
    <3>2. ASSUME NEW t \in Session, t # s, Owner(t) # Local PROVE MayOwn(Owner(t), t)'
      BY <2>1, <2>2, <3>2 DEF HostInv, HostType, MayOwn
    <3> QED
      BY <2>2, <3>1, <3>2
  <2>5. GeoOfOpenSessions' /\ DesktopKnowsOwner'
    BY <2>1, <2>2 DEF HostInv, GeoOfOpenSessions, DesktopKnowsOwner
  <2>6. \A t \in Session \ (live' \cup over') : desk'[t] = Local
    BY <2>1 DEF HostInv
  <2> QED
    BY <1>0, <2>3, <2>4, <2>5, <2>6 DEF HostInv
<1>2. CASE k = "close" /\ Exit(s)
  BY <1>0, <1>2, ExitKeeps DEF Accepted
<1>3. CASE k = "attach" /\ AttachFrame(c, s)
  <2>1. /\ attached' = [attached EXCEPT ![c] = @ \cup {s}]
        /\ UNCHANGED <<live, over, remote, geo, desk, made>>
    BY <1>3 DEF AttachFrame, sessionVars, geoVars
  <2>2. HostType'
    BY <2>1 DEF HostInv, HostType
  <2>3. \A t \in Session : Owner(t)' # Local => MayOwn(Owner(t), t)'
    BY <2>1 DEF HostInv, HostType, MayOwn, Owner
  <2> QED
    BY <1>0, <2>1, <2>2, <2>3 DEF HostInv, GeoOfOpenSessions, DesktopKnowsOwner, Owner
<1>4. CASE k = "detach" /\ DetachFrame(c, s)
  <2>1. /\ attached' = [attached EXCEPT ![c] = @ \ {s}]
        /\ geo' = Release(geo, s, c) /\ Told /\ UNCHANGED <<live, over, remote, made>>
    BY <1>4 DEF DetachFrame, SetGeo, Told, sessionVars
  <2>2. /\ DOMAIN geo' = DOMAIN geo
        /\ \A t : t # s => Owner(t)' = Owner(t)
        /\ Owner(s)' \in {Owner(s), Local}
        /\ Owner(s)' # c
    BY <1>0, <2>1, ReleaseRule DEF Owner
  <2>3. \A t \in Session : Owner(t)' # Local => MayOwn(Owner(t), t)'
    <3> SUFFICES ASSUME NEW t \in Session, Owner(t)' # Local PROVE MayOwn(Owner(t), t)'
      OBVIOUS
    <3>1. Owner(t)' = Owner(t) /\ (t = s => Owner(t) # c)
      BY <2>2
    <3>2. MayOwn(Owner(t), t)
      BY <3>1 DEF HostInv
    <3> QED
      BY <2>1, <3>1, <3>2 DEF MayOwn, HostInv, HostType
  <2>4. ClientType'
    BY <2>1 DEF HostInv, HostType, ClientType
  <2> QED
    BY <1>0, <2>1, <2>2, <2>3, <2>4, ToldKeeps DEF HostInv, GeoOfOpenSessions
<1>5. CASE k = "resize" /\ ResizeFrame(c, s)
  BY <1>0, <1>5 DEF ResizeFrame, geoVars, clientVars, HostInv, HostType, MayOwn, Owner,
     GeoOfOpenSessions, DesktopKnowsOwner
<1>6. ASSUME NEW force \in BOOLEAN, ClaimFrame(c, s, force), k \in {"claim", "force"}
      PROVE  HostInv'
  <2>1. /\ geo' = Claim(geo, s, c, force, localFocus)
        /\ Told /\ UNCHANGED <<live, over, remote, made, attached>>
    BY <1>6 DEF ClaimFrame, SetGeo, Told, sessionVars
  <2>2. /\ DOMAIN geo' \subseteq DOMAIN geo \cup {s}
        /\ \A t : t # s => Owner(t)' = Owner(t)
        /\ Owner(s)' \in {Owner(s), c}
    BY <2>1, ClaimRule DEF Owner
  <2>3. s \in attached[c] /\ s \in live
    BY <1>0, <1>6 DEF Accepted
  <2>4. \A t \in Session : Owner(t)' # Local => MayOwn(Owner(t), t)'
    BY <2>1, <2>2, <2>3 DEF HostInv, MayOwn, Speaks
  <2>5. ClientType'
    BY <2>1 DEF HostInv, HostType, ClientType
  <2> QED
    BY <1>0, <2>1, <2>2, <2>3, <2>4, <2>5, ToldKeeps DEF HostInv, GeoOfOpenSessions
<1>7. CASE k = "release" /\ ReleaseFrame(c, s)
  <2>1. /\ geo' = Release(geo, s, c)
        /\ Told /\ UNCHANGED <<live, over, remote, made, attached>>
    BY <1>7 DEF ReleaseFrame, SetGeo, Told, sessionVars, clientVars
  <2>2. DOMAIN geo' = DOMAIN geo /\ \A t \in Session : Owner(t)' \in {Owner(t), Local}
    BY <2>1, ReleaseRule DEF Owner
  <2>3. \A t \in Session : Owner(t)' # Local => MayOwn(Owner(t), t)'
    BY <2>1, <2>2 DEF HostInv, MayOwn
  <2>4. ClientType'
    BY <2>1 DEF HostInv, HostType, ClientType
  <2> QED
    BY <1>0, <2>1, <2>2, <2>3, <2>4, ToldKeeps DEF HostInv, GeoOfOpenSessions
<1> QED
  BY <1>1, <1>2, <1>3, <1>4, <1>5, <1>6, <1>7 DEF Dispatch

-----------------------------------------------------------------------------
(* The invariant *)

(* Steps that neither touch the table of the arbiter nor what a client      *)
(* watches: they only must not close the connection of an owner.            *)
LEMMA QuietKeeps ==
    ASSUME HostInv, UNCHANGED <<live, over, remote, geo, desk, path, attached, made>>,
           conn' \in [Client -> {"new", "open", "closing", "cut", "closed"}],
           key' \in [Client -> {"off", "deriving", "on"}],
           inflight' \in [Client -> SUBSET Frame],
           \A c \in Client : conn[c] # "closed" => conn'[c] # "closed",
           \A c \in Client : key'[c] # "off" \/ inflight'[c] # {} => path[c] = "e2ee"
    PROVE  HostInv'
<1>1. HostType'
  BY DEF HostInv, HostType
<1>2. GeoOfOpenSessions' /\ DesktopKnowsOwner'
  BY DEF HostInv, GeoOfOpenSessions, DesktopKnowsOwner, Owner
<1>3. \A s \in Session : Owner(s)' # Local => MayOwn(Owner(s), s)'
  BY DEF HostInv, MayOwn, Owner
<1> QED
  BY <1>1, <1>2, <1>3 DEF HostInv

LEMMA HostInvInductive == HostInv /\ [Next]_vars => HostInv'
<1> SUFFICES ASSUME HostInv, [Next]_vars PROVE HostInv'
  OBVIOUS
<1>0. /\ HostType
      /\ \A c \in Client : key[c] # "off" \/ inflight[c] # {} => path[c] = "e2ee"
      /\ path \in [Client -> {"none", "cookie", "relay", "e2ee"}]
  BY HostAssumption DEF HostInv, HostType
<1>1. ASSUME NEW s \in Session, LocalCreate(s) PROVE HostInv'
  <2>1. /\ live' = live \cup {s} /\ s \notin live \cup over
        /\ UNCHANGED <<over, remote, geo, desk, conn, path, key, inflight, attached, made>>
    BY <1>1 DEF LocalCreate, Open, geoVars, connVars, clientVars
  <2>2. HostType'
    BY <1>0, <2>1 DEF HostType
  <2>3. Owner(s) = Local /\ desk[s] = Local
    BY <2>1, NotOpenIsLocal DEF HostInv
  <2>4. GeoOfOpenSessions' /\ DesktopKnowsOwner'
    BY <2>1, <2>3 DEF HostInv, GeoOfOpenSessions, DesktopKnowsOwner, Owner
  <2>5. \A t \in Session : Owner(t)' # Local => MayOwn(Owner(t), t)'
    BY <2>1 DEF HostInv, MayOwn, Owner
  <2> QED
    BY <1>0, <2>1, <2>2, <2>4, <2>5 DEF HostInv
<1>2. ASSUME NEW s \in Session, SessionEnds(s) PROVE HostInv'
  BY <1>0, <1>2, ExitKeeps DEF SessionEnds, connVars, HostType
<1>3. ASSUME NEW s \in Session, LocalResize(s) PROVE HostInv'
  <2>1. /\ s \in live /\ geo' = Claim(geo, s, Local, TRUE, localFocus)
        /\ Told /\ UNCHANGED <<live, over, remote, conn, path, key, inflight, attached, made>>
    BY <1>3 DEF LocalResize, SetGeo, Told, connVars, clientVars
  <2>2. /\ DOMAIN geo' \subseteq DOMAIN geo \cup {s}
        /\ \A t : t # s => Owner(t)' = Owner(t)
        /\ Owner(s)' = Local
    BY <2>1 DEF Owner, Claim, Put, OwnerIn, EntryOf, Unclaimed, Taken, MayClaim
  <2>3. \A t \in Session : Owner(t)' # Local => MayOwn(Owner(t), t)'
    BY <2>1, <2>2 DEF HostInv, MayOwn
  <2>4. ClientType'
    BY <1>0, <2>1 DEF HostType, ClientType
  <2> QED
    BY <1>0, <2>1, <2>2, <2>3, <2>4, ToldKeeps DEF HostInv, GeoOfOpenSessions
<1>4. ASSUME NEW s \in Session, Dwell(s) PROVE HostInv'
  <2>1. /\ s \in DOMAIN geo
        /\ geo' = Put(geo, s, [owner |-> geo[s].owner, settled |-> TRUE])
        /\ UNCHANGED <<live, over, remote, desk, conn, path, key, inflight, attached, made>>
    BY <1>4 DEF Dwell, sessionVars, connVars, clientVars
  <2>2. DOMAIN geo' = DOMAIN geo /\ \A t : Owner(t)' = Owner(t)
    BY <2>1 DEF Put, Owner, OwnerIn, EntryOf, Unclaimed
  <2>3. HostType'
    BY <1>0, <2>1 DEF HostType
  <2>4. GeoOfOpenSessions' /\ DesktopKnowsOwner'
    BY <2>1, <2>2 DEF HostInv, GeoOfOpenSessions, DesktopKnowsOwner
  <2>5. \A t \in Session : Owner(t)' # Local => MayOwn(Owner(t), t)'
    BY <2>1, <2>2 DEF HostInv, MayOwn
  <2> QED
    BY <1>0, <2>1, <2>3, <2>4, <2>5 DEF HostInv
<1>5. ASSUME NEW focused \in BOOLEAN, SetLocalGeoFocus(focused) PROVE HostInv'
  <2>1. /\ geo' = TakeBack(geo) \/ geo' = geo
        /\ Told /\ UNCHANGED <<live, over, remote, conn, path, key, inflight, attached, made>>
    BY <1>5 DEF SetLocalGeoFocus, SetGeo, Told, sessionVars, connVars, clientVars
  <2>2. DOMAIN geo' = DOMAIN geo /\ \A t : Owner(t)' \in {Owner(t), Local}
    BY <2>1, TakeBackRule DEF Owner
  <2>3. \A t \in Session : Owner(t)' # Local => MayOwn(Owner(t), t)'
    BY <2>1, <2>2 DEF HostInv, MayOwn
  <2>4. ClientType'
    BY <1>0, <2>1 DEF HostType, ClientType
  <2> QED
    BY <1>0, <2>1, <2>2, <2>3, <2>4, ToldKeeps DEF HostInv, GeoOfOpenSessions
<1>6. CASE Heartbeat
  <2>1. /\ conn' = [c \in Client |->
                      IF c \in member \ pong /\ conn[c] # "closed" THEN "cut" ELSE conn[c]]
        /\ UNCHANGED <<live, over, remote, geo, desk, path, key, inflight, attached, made>>
    BY <1>6 DEF Heartbeat, sessionVars, geoVars, clientVars
  <2> QED
    BY <1>0, <2>1, QuietKeeps DEF HostType
<1>7. ASSUME NEW c \in Client,
             Connect(c) \/ Reject(c) \/ PeerCloses(c) \/ Vanish(c) \/ Pong(c) \/ SlowClient(c)
      PROVE  HostInv'
  <2>1. \/ \E v \in {"open", "closing", "cut"} : conn' = [conn EXCEPT ![c] = v]
        \/ conn' = [conn EXCEPT ![c] = IF @ = "open" THEN "closing" ELSE @]
        \/ conn' = conn
    BY <1>7 DEF Connect, Reject, FailWith, PeerCloses, Vanish, Pong, SlowClient, connVars
  <2>2. UNCHANGED <<live, over, remote, geo, desk, path, key, inflight, attached, made>>
    BY <1>7 DEF Connect, Reject, PeerCloses, Vanish, Pong, SlowClient, sessionVars, geoVars,
       connVars, clientVars
  <2> QED
    BY <1>0, <2>1, <2>2, QuietKeeps DEF HostType
<1>8. ASSUME NEW c \in Client, NEW good \in BOOLEAN, AuthResponse(c, good) PROVE HostInv'
  <2>1. /\ conn' = conn \/ conn' = [conn EXCEPT ![c] = IF @ = "open" THEN "closing" ELSE @]
        /\ \/ key' = key
           \/ key' = [key EXCEPT ![c] = IF path[c] = "e2ee" THEN "deriving" ELSE "off"]
        /\ UNCHANGED <<live, over, remote, geo, desk, path, inflight, attached, made>>
    BY <1>8, Zenon DEF AuthResponse, FailWith, sessionVars, geoVars, clientVars
  <2> QED
    BY <1>0, <2>1, QuietKeeps DEF HostType
<1>9. ASSUME NEW c \in Client, KeyDerived(c) PROVE HostInv'
  <2>1. /\ key[c] = "deriving" /\ key' = [key EXCEPT ![c] = "on"]
        /\ UNCHANGED <<live, over, remote, geo, desk, conn, path, inflight, attached, made>>
    BY <1>9 DEF KeyDerived, sessionVars, geoVars, clientVars
  <2> QED
    BY <1>0, <2>1, QuietKeeps DEF HostType
<1>10. ASSUME NEW c \in Client, CloseEvent(c) PROVE HostInv'
  <2>1. /\ conn' = [conn EXCEPT ![c] = "closed"] /\ geo' = DropClient(geo, c)
        /\ Told /\ UNCHANGED <<live, over, remote, path, key, inflight, attached, made>>
    BY <1>10 DEF CloseEvent, SetGeo, Told, sessionVars
  <2>2. /\ DOMAIN geo' = DOMAIN geo
        /\ \A t : Owner(t)' \in {Owner(t), Local}
        /\ \A t : Owner(t)' # c
    BY <2>1, DropRule, HostAssumption DEF Owner
  <2>3. \A t \in Session : Owner(t)' # Local => MayOwn(Owner(t), t)'
    BY <1>0, <2>1, <2>2 DEF HostInv, HostType, MayOwn
  <2>4. ClientType'
    BY <1>0, <2>1 DEF HostType, ClientType
  <2> QED
    BY <1>0, <2>1, <2>2, <2>3, <2>4, ToldKeeps DEF HostInv, GeoOfOpenSessions
<1>11. ASSUME NEW s \in Session, ResizeTimer(s) PROVE HostInv'
  <2>1. UNCHANGED <<live, over, remote, geo, desk, conn, path, key, inflight, attached, made>>
    BY <1>11 DEF ResizeTimer, geoVars, connVars, clientVars
  <2> QED
    BY <1>0, <2>1, QuietKeeps DEF HostType
<1>12. ASSUME NEW c \in Client, NEW k \in Kind, NEW s \in Session, PlainFrame(c, k, s)
       PROVE  HostInv'
  <2>1. Speaks(c) /\ Dispatch(c, k, s) /\ UNCHANGED <<conn, path, key, inflight>>
    BY <1>12 DEF PlainFrame, Heard, Speaks, connVars
  <2> QED
    BY <1>0, <2>1, DispatchKeeps DEF HostType
<1>13. ASSUME NEW c \in Client, NEW k \in Kind, NEW s \in Session, SecureFrame(c, k, s)
       PROVE  HostInv'
  <2>1. /\ key[c] = "on" /\ inflight' = [inflight EXCEPT ![c] = @ \cup {[kind |-> k, id |-> s]}]
        /\ UNCHANGED <<live, over, remote, geo, desk, conn, path, key, attached, made>>
    BY <1>13 DEF SecureFrame, sessionVars, geoVars, clientVars
  <2>2. inflight' \in [Client -> SUBSET Frame]
    BY <1>0, <2>1 DEF HostType, Frame
  <2> QED
    BY <1>0, <2>1, <2>2, QuietKeeps DEF HostType
<1>14. ASSUME NEW c \in Client, NEW f \in Frame, Decrypted(c, f) PROVE HostInv'
  <2>1. /\ f \in inflight[c] /\ inflight' = [inflight EXCEPT ![c] = @ \ {f}]
        /\ UNCHANGED <<conn, path, key>>
    BY <1>14 DEF Decrypted
  <2>2. /\ inflight' \in [Client -> SUBSET Frame]
        /\ \A d \in Client : inflight'[d] \subseteq inflight[d]
        /\ Speaks(c) /\ f.id \in Session
    BY <1>0, <2>1 DEF HostType, Speaks, Frame
  <2>3. CASE Dispatch(c, f.kind, f.id)
    BY <2>1, <2>2, <2>3, DispatchKeeps
  <2>4. CASE UNCHANGED <<sessionVars, geoVars, clientVars>>
    BY <1>0, <2>1, <2>2, <2>4, QuietKeeps DEF HostType, sessionVars, geoVars, clientVars
  <2> QED
    BY <1>14, <2>3, <2>4 DEF Decrypted
<1>15. CASE UNCHANGED vars
  <2>1. UNCHANGED <<live, over, remote, geo, desk, conn, path, key, inflight, attached, made>>
    BY <1>15 DEF vars, sessionVars, geoVars, connVars, clientVars
  <2> QED
    BY <1>0, <2>1, QuietKeeps DEF HostType
<1> QED
  BY <1>1, <1>2, <1>3, <1>4, <1>5, <1>6, <1>7, <1>8, <1>9, <1>10, <1>11, <1>12, <1>13,
     <1>14, <1>15 DEF Next

LEMMA HostInvInitially == Init => HostInv
<1> SUFFICES ASSUME Init PROVE HostInv
  OBVIOUS
<1>1. \A s : Owner(s) = Local
  BY DEF Init, Owner, OwnerIn, EntryOf, Unclaimed
<1>2. HostType
  BY DEF Init, HostType, Owners
<1> QED
  BY <1>1, <1>2 DEF Init, HostInv, GeoOfOpenSessions, DesktopKnowsOwner

LEMMA HostInvHolds == Spec => []HostInv
BY HostInvInitially, HostInvInductive, PTL DEF Spec

-----------------------------------------------------------------------------
(* Who owns a session exists, is connected unless it encrypts, and watches   *)
(* or created it, whatever order claims, detaches, closes, exits and late    *)
(* decryptions come in (geoArbiter.ts, remoteServer.ts:397, 459).            *)
THEOREM OwnersExist == Spec => []OwnersAreReal
<1>1. HostInv => OwnersAreReal
  BY DEF HostInv, HostType, GeoOfOpenSessions, MayOwn, OwnersAreReal, OwnerConnected, OwnerWatches
<1> QED
  BY <1>1, HostInvHolds, PTL

(* The desktop window is told of every change of the owner of a session it   *)
(* opened (broadcastGeo, remoteServer.ts:685).                              *)
THEOREM DesktopIsTold == Spec => []DesktopKnowsOwner
<1>1. HostInv => DesktopKnowsOwner
  BY DEF HostInv
<1> QED
  BY <1>1, HostInvHolds, PTL

(* Sizes: only the timer's session has one held back, and an owner that      *)
(* asked has its own.                                                       *)
SizeInv ==
    /\ sizer \in [Session -> Owners] /\ pending \in [Session -> SUBSET Owners]
    /\ timed \subseteq live /\ fitted \subseteq live
    /\ \A s \in Session \ timed : pending[s] = {}
    /\ OwnersSizeStands

(* What a step may do to sizes: nothing, but owners change and are to be     *)
(* fitted anew; open a session, in its owner's name; resize one, in the name *)
(* of who owns it after the step; let a timer fire; end a session.          *)
Idle(done) == UNCHANGED <<sizeVars, live>> /\ fitted' = fitted \ done
Opened(s, w) == Open(s, w) /\ Owner(s)' = w
Sized(s, w) ==
    /\ Resize(s, w) /\ Owner(s)' = w /\ s \in live
    /\ live' = live /\ fitted' \subseteq fitted \cup {s}
Fires(s) == ResizeTimer(s)
Ends(s) == Exit(s)

(* Whoever is still taken for fitted is still the owner. *)
SameOwners == \A t \in fitted \cap fitted' : Owner(t)' = Owner(t)

SizeStep ==
    \/ SameOwners /\ \E done \in SUBSET Session : Idle(done)
    \/ SameOwners /\ \E s \in Session, w \in Owners : Opened(s, w)
    \/ \E s \in Session, w \in Owners : Sized(s, w) /\ \A t \in fitted' \ {s} : Owner(t)' = Owner(t)
    \/ \E s \in Session : SameOwners /\ Fires(s)
    \/ \E s \in Session : SameOwners /\ Ends(s)

LEMMA SizeKept ==
    ASSUME HostInv, SizeInv, SizeStep
    PROVE  SizeInv'
<1>1. /\ sizer \in [Session -> Owners] /\ pending \in [Session -> SUBSET Owners]
      /\ timed \subseteq live /\ fitted \subseteq live /\ live \subseteq Session
      /\ \A t \in Session \ timed : pending[t] = {}
      /\ \A t \in fitted : pending[t] = {Owner(t)} \/ (pending[t] = {} /\ sizer[t] = Owner(t))
  BY DEF SizeInv, OwnersSizeStands, HostInv, HostType
<1>2. ASSUME NEW done \in SUBSET Session, Idle(done), SameOwners PROVE SizeInv'
  BY <1>1, <1>2 DEF Idle, SameOwners, sizeVars, SizeInv, OwnersSizeStands
<1>3. ASSUME NEW s \in Session, NEW w \in Owners, Opened(s, w), SameOwners PROVE SizeInv'
  <2>1. /\ s \notin live /\ live' = live \cup {s} /\ fitted' = fitted \cup {s}
        /\ sizer' = [sizer EXCEPT ![s] = w] /\ pending' = pending /\ timed' = timed /\ Owner(s)' = w
    BY <1>3 DEF Opened, Open
  <2>2. \A t \in fitted' : pending'[t] = {Owner(t)'} \/ (pending'[t] = {} /\ sizer'[t] = Owner(t)')
    BY <1>1, <1>3, <2>1 DEF SameOwners
  <2> QED
    BY <1>1, <2>1, <2>2 DEF SizeInv, OwnersSizeStands
<1>4. ASSUME NEW s \in Session, NEW w \in Owners, Sized(s, w), \A t \in fitted' \ {s} : Owner(t)' = Owner(t)
      PROVE  SizeInv'
  <2>1. /\ s \in live /\ live' = live /\ fitted' \subseteq fitted \cup {s} /\ Owner(s)' = w
        /\ \/ s \in timed /\ pending' = [pending EXCEPT ![s] = {w}] /\ UNCHANGED <<sizer, timed>>
           \/ s \notin timed /\ sizer' = [sizer EXCEPT ![s] = w] /\ timed' = timed \cup {s} /\ UNCHANGED pending
    BY <1>4 DEF Sized, Resize
  <2>2. \A t \in fitted' : pending'[t] = {Owner(t)'} \/ (pending'[t] = {} /\ sizer'[t] = Owner(t)')
    BY <1>1, <1>4, <2>1
  <2> QED
    BY <1>1, <2>1, <2>2 DEF SizeInv, OwnersSizeStands
<1>5. ASSUME NEW s \in Session, Fires(s), SameOwners PROVE SizeInv'
  <2>1. /\ s \in timed /\ timed' = timed \ {s} /\ live' = live /\ fitted' = fitted
        /\ pending' = [pending EXCEPT ![s] = {}]
        /\ (pending[s] = {} /\ sizer' = sizer) \/ (\E w \in pending[s] : sizer' = [sizer EXCEPT ![s] = w])
    BY <1>5 DEF Fires, ResizeTimer, geoVars
  <2>2. \A t \in fitted' : pending'[t] = {Owner(t)'} \/ (pending'[t] = {} /\ sizer'[t] = Owner(t)')
    BY <1>1, <1>5, <2>1 DEF SameOwners
  <2>3. sizer' \in [Session -> Owners]
    BY <1>1, <2>1
  <2> QED
    BY <1>1, <2>1, <2>2, <2>3 DEF SizeInv, OwnersSizeStands
<1>6. ASSUME NEW s \in Session, Ends(s), SameOwners PROVE SizeInv'
  <2>1. /\ live' = live \ {s} /\ fitted' = fitted \ {s} /\ timed' = timed \ {s}
        /\ pending' = [pending EXCEPT ![s] = {}] /\ sizer' = sizer
    BY <1>6 DEF Ends, Exit
  <2>2. \A t \in fitted' : pending'[t] = {Owner(t)'} \/ (pending'[t] = {} /\ sizer'[t] = Owner(t)')
    BY <1>1, <1>6, <2>1 DEF SameOwners
  <2> QED
    BY <1>1, <2>1, <2>2 DEF SizeInv, OwnersSizeStands
<1> QED
  BY <1>2, <1>3, <1>4, <1>5, <1>6 DEF SizeStep

(* A change of ownership that is broadcast unfits the sessions it is about. *)
LEMMA SetGeoUnfits ==
    ASSUME NEW g, NEW asked, SetGeo(g, asked)
    PROVE  /\ fitted' = (fitted \ ChangedIn(g)) \cup asked /\ ChangedIn(g) \in SUBSET Session
           /\ \A t \in fitted' : t \in Session => t \in asked \/ Owner(t)' = Owner(t)
BY DEF SetGeo, ChangedIn, Owner

LEMMA UnfittedIsIdle ==
    ASSUME SizeInv, live \subseteq Session, NEW g, SetGeo(g, {}), UNCHANGED sessionVars
    PROVE  SizeStep
<1>1. Idle(ChangedIn(g))
  BY SetGeoUnfits DEF Idle, sessionVars
<1>2. SameOwners
  BY SetGeoUnfits DEF SameOwners, SizeInv
<1> QED
  BY <1>1, <1>2, SetGeoUnfits DEF SizeStep

LEMMA QuietIsIdle ==
    ASSUME UNCHANGED <<sizeVars, live, fitted>>, \A t \in fitted : Owner(t)' = Owner(t)
    PROVE  SizeStep
<1>1. Idle({}) /\ SameOwners
  BY DEF Idle, SameOwners
<1> QED
  BY <1>1 DEF SizeStep

LEMMA ExitIsEnd ==
    ASSUME NEW s \in Session, Exit(s)
    PROVE  SizeStep
<1>1. \A t : t # s => Owner(t)' = Owner(t)
  BY ForgetRule DEF Exit, Owner
<1>2. s \notin fitted'
  BY DEF Exit
<1> QED
  BY <1>1, <1>2 DEF SizeStep, SameOwners, Ends

LEMMA DispatchSizes ==
    ASSUME HostInv, SizeInv, NEW c \in Client, NEW k, NEW s \in Session, Dispatch(c, k, s)
    PROVE  SizeStep
<1>0. live \subseteq Session /\ c \in Owners /\ fitted \subseteq live /\ Accepted(c, k, s)
  BY DEF HostInv, HostType, SizeInv, Owners, Dispatch
<1>1. CASE CreateFrame(c, s)
  <2>1. Open(s, c) /\ geo' = Claim(geo, s, c, TRUE, localFocus)
    BY <1>1 DEF CreateFrame
  <2>2. Owner(s)' = c /\ \A t : t # s => Owner(t)' = Owner(t)
    BY <2>1 DEF Owner, Claim, Put, OwnerIn, EntryOf, Unclaimed, Taken, MayClaim
  <2>3. s \notin fitted
    BY <1>0, <2>1 DEF Open
  <2> QED
    BY <1>0, <2>1, <2>2, <2>3 DEF SizeStep, Opened, SameOwners
<1>2. CASE k = "close" /\ Exit(s)
  BY <1>2, ExitIsEnd
<1>3. CASE AttachFrame(c, s)
  <2>1. UNCHANGED <<sizeVars, live, fitted, geo>>
    BY <1>3 DEF AttachFrame, sessionVars, geoVars
  <2> QED
    BY <2>1, QuietIsIdle DEF Owner
<1>4. CASE DetachFrame(c, s) \/ ReleaseFrame(c, s)
  <2>1. SetGeo(Release(geo, s, c), {}) /\ UNCHANGED sessionVars
    BY <1>4 DEF DetachFrame, ReleaseFrame
  <2> QED
    BY <1>0, <2>1, UnfittedIsIdle
<1>5. CASE k = "resize" /\ ResizeFrame(c, s)
  <2>1. /\ Resize(s, c) /\ UNCHANGED <<live, geo>> /\ fitted' = fitted \cup {s}
        /\ Owner(s) = c /\ s \in live
    BY <1>0, <1>5 DEF Accepted, ResizeFrame
  <2>2. \A t : Owner(t)' = Owner(t)
    BY <2>1 DEF Owner
  <2> QED
    BY <1>0, <2>1, <2>2 DEF SizeStep, Sized
<1>6. ASSUME NEW force \in BOOLEAN, ClaimFrame(c, s, force) PROVE SizeStep
  <2>1. SetGeo(Claim(geo, s, c, force, localFocus), {}) /\ UNCHANGED sessionVars
    BY <1>6 DEF ClaimFrame
  <2> QED
    BY <1>0, <2>1, UnfittedIsIdle
<1> QED
  BY <1>1, <1>2, <1>3, <1>4, <1>5, <1>6 DEF Dispatch

LEMMA NextSizes ==
    ASSUME HostInv, SizeInv, [Next]_vars
    PROVE  SizeStep
<1>0. live \subseteq Session /\ Local \in Owners /\ fitted \subseteq live
  BY DEF HostInv, HostType, SizeInv, Owners
<1>1. ASSUME NEW s \in Session, LocalCreate(s) PROVE SizeStep
  <2>1. Open(s, Local) /\ geo' = geo /\ s \notin live
    BY <1>1 DEF LocalCreate, Open
  <2>2. \A t : Owner(t)' = Owner(t)
    BY <2>1 DEF Owner
  <2>3. Owner(s)' = Local
    BY <2>1, <2>2, NotOpenIsLocal
  <2> QED
    BY <1>0, <2>1, <2>2, <2>3 DEF SizeStep, Opened, SameOwners
<1>2. ASSUME NEW s \in Session, LocalResize(s) PROVE SizeStep
  <2> DEFINE g == Claim(geo, s, Local, TRUE, localFocus)
  <2>1. Resize(s, Local) /\ SetGeo(g, {s}) /\ s \in live /\ live' = live
    BY <1>2 DEF LocalResize
  <2>2. Owner(s)' = Local
    <3>1. geo' = g
      BY <2>1 DEF SetGeo
    <3> QED
      BY <3>1 DEF Owner, Claim, Put, OwnerIn, EntryOf, Unclaimed, Taken, MayClaim
  <2>3. fitted' \subseteq fitted \cup {s} /\ \A t \in fitted' \ {s} : Owner(t)' = Owner(t)
    BY <1>0, <2>1, SetGeoUnfits
  <2> QED
    BY <1>0, <2>1, <2>2, <2>3 DEF SizeStep, Sized
<1>3. ASSUME NEW s \in Session, ResizeTimer(s) PROVE SizeStep
  <2>1. geo' = geo
    BY <1>3 DEF ResizeTimer, geoVars
  <2> QED
    BY <1>3, <2>1 DEF SizeStep, Fires, SameOwners, Owner
<1>4. ASSUME NEW s \in Session, SessionEnds(s) PROVE SizeStep
  BY <1>4, ExitIsEnd DEF SessionEnds
<1>5. ASSUME NEW s \in Session, Dwell(s) PROVE SizeStep
  <2>1. /\ s \in DOMAIN geo /\ geo' = Put(geo, s, [owner |-> geo[s].owner, settled |-> TRUE])
        /\ UNCHANGED <<sizeVars, live, fitted>>
    BY <1>5 DEF Dwell, sessionVars
  <2>2. \A t : Owner(t)' = Owner(t)
    BY <2>1 DEF Put, Owner, OwnerIn, EntryOf, Unclaimed
  <2> QED
    BY <2>1, <2>2, QuietIsIdle
<1>6. ASSUME NEW focused \in BOOLEAN, SetLocalGeoFocus(focused) PROVE SizeStep
  BY <1>0, <1>6, UnfittedIsIdle DEF SetLocalGeoFocus
<1>7. ASSUME NEW c \in Client, CloseEvent(c) PROVE SizeStep
  BY <1>0, <1>7, UnfittedIsIdle DEF CloseEvent
<1>8. ASSUME NEW c \in Client, NEW k, NEW s \in Session, PlainFrame(c, k, s) PROVE SizeStep
  BY <1>8, DispatchSizes DEF PlainFrame
<1>9. CASE UNCHANGED <<sessionVars, geoVars>>
  <2>1. UNCHANGED <<sizeVars, live, fitted, geo>>
    BY <1>9 DEF sessionVars, geoVars
  <2> QED
    BY <2>1, QuietIsIdle DEF Owner
<1>10. ASSUME NEW c \in Client, NEW f \in Frame, Decrypted(c, f) PROVE SizeStep
  <2>1. f.id \in Session
    BY DEF Frame
  <2> QED
    BY <1>9, <1>10, <2>1, DispatchSizes DEF Decrypted
<1> QED
  BY <1>1, <1>2, <1>3, <1>4, <1>5, <1>6, <1>7, <1>8, <1>9, <1>10
     DEF Next, Heartbeat, Connect, KeyDerived, Reject, PeerCloses, Vanish, Pong, SlowClient,
         AuthResponse, SecureFrame, vars

(* An owner that asked for a size since it owns the session has it, or has   *)
(* it once the timer fires, whatever resizes former owners left behind       *)
(* (remoteServer.ts:638, 677, sessionRegistry.ts:173).                      *)
THEOREM OwnersGetTheirSize == Spec => []OwnersSizeStands
<1>1. Init => SizeInv
  BY DEF Init, SizeInv, Owners, OwnersSizeStands
<1>2. HostInv /\ SizeInv /\ [Next]_vars => SizeInv'
  BY NextSizes, SizeKept
<1>3. SizeInv => OwnersSizeStands
  BY DEF SizeInv
<1> QED
  BY <1>1, <1>2, <1>3, HostInvHolds, PTL DEF Spec
=============================================================================
