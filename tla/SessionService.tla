--------------------------- MODULE SessionService ---------------------------
(***************************************************************************)
(* What the session registry promises its consumers (the desktop window    *)
(* over IPC, remote clients over WebSocket): sessions that open once and   *)
(* end once, and a published list that is always one the registry really   *)
(* had and always catches up.  No timers, no throttle, no pty.             *)
(* SessionRegistry implements this specification.                          *)
(***************************************************************************)
CONSTANTS Session, Size, Title

VARIABLES
    live,    \* sessions that exist
    ended,   \* sessions whose exit was announced
    size,    \* the size of each session
    title,   \* the title of each session
    view     \* the list consumers saw last

vars == <<live, ended, size, title, view>>

Entry == [size : Size, title : Title]

Listing == [s \in live |-> [size |-> size[s], title |-> title[s]]]

Init ==
    /\ live = {}
    /\ ended = {}
    /\ size \in [Session -> Size]
    /\ title \in [Session -> Title]
    /\ view = [s \in {} |-> {}]

(* A change may be published with the step that makes it, or later. *)
MayPublish == view' = view \/ view' = Listing'

Open(s) ==
    /\ s \notin live \cup ended
    /\ live' = live \cup {s}
    /\ \E z \in Size : size' = [size EXCEPT ![s] = z]
    /\ \E t \in Title : title' = [title EXCEPT ![s] = t]
    /\ MayPublish
    /\ UNCHANGED ended

Resize(s) ==
    /\ s \in live
    /\ \E z \in Size : size' = [size EXCEPT ![s] = z]
    /\ MayPublish
    /\ UNCHANGED <<live, ended, title>>

(* One poll may rename several sessions. *)
Rename ==
    /\ title' \in [Session -> Title]
    /\ \A s \in Session \ live : title'[s] = title[s]
    /\ MayPublish
    /\ UNCHANGED <<live, ended, size>>

End(s) ==
    /\ s \in live
    /\ live' = live \ {s}
    /\ ended' = ended \cup {s}
    /\ MayPublish
    /\ UNCHANGED <<size, title>>

Publish ==
    /\ view' = Listing
    /\ UNCHANGED <<live, ended, size, title>>

Next ==
    \/ \E s \in Session : Open(s) \/ Resize(s) \/ End(s)
    \/ Rename
    \/ Publish

(* The safety part of the promise. *)
Safety == Init /\ [][Next]_vars

(* The list catches up with the sessions again and again. *)
CatchesUp == []<>(view = Listing)
=============================================================================
