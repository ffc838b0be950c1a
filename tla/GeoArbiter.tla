----------------------------- MODULE GeoArbiter -----------------------------
(***************************************************************************)
(* The rules of geometry ownership (src/main/geoArbiter.ts): who may size  *)
(* a session, the desktop window ("local") or one of the web clients.      *)
(*                                                                         *)
(* geo is the arbiter's table: a function on the sessions that ever        *)
(* changed hands.  Time is one bit per entry, settled: the 5 s dwell since *)
(* the last change has passed.                                             *)
(***************************************************************************)
EXTENDS Functions

CONSTANT Local    \* the desktop window as an owner

(* A session that never changed hands: local, for ever. *)
Unclaimed == [owner |-> Local, settled |-> TRUE]

EntryOf(geo, s) == IF s \in DOMAIN geo THEN geo[s] ELSE Unclaimed

OwnerIn(geo, s) == EntryOf(geo, s).owner

Taken(who) == [owner |-> who, settled |-> FALSE]

Put(geo, s, entry) == [t \in DOMAIN geo \cup {s} |-> IF t = s THEN entry ELSE geo[t]]

(* The desktop and a forced claim are always allowed; any other claim needs *)
(* the dwell to have passed, and an idle desktop unless a web client owns.  *)
MayClaim(geo, s, who, force, localFocus) ==
    \/ force
    \/ who = Local
    \/ /\ EntryOf(geo, s).settled
       /\ OwnerIn(geo, s) = Local => ~localFocus

(* claim: a claim by the owner, or one that is not allowed, changes nothing. *)
Claim(geo, s, who, force, localFocus) ==
    IF OwnerIn(geo, s) # who /\ MayClaim(geo, s, who, force, localFocus)
    THEN Put(geo, s, Taken(who))
    ELSE geo

(* release: only the owner's, and only a web client's. *)
Release(geo, s, who) ==
    IF OwnerIn(geo, s) = who /\ who # Local THEN Put(geo, s, Taken(Local)) ELSE geo

(* dropClient: everything a client owned falls back to the desktop. *)
DropClient(geo, who) ==
    [s \in DOMAIN geo |-> IF geo[s].owner = who THEN Taken(Local) ELSE geo[s]]

(* setLocalFocus(true): the desktop takes everything back. *)
TakeBack(geo) ==
    [s \in DOMAIN geo |-> IF geo[s].owner # Local THEN Taken(Local) ELSE geo[s]]

Forget(geo, s) == Restrict(geo, DOMAIN geo \ {s})
=============================================================================
