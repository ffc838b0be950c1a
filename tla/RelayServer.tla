---------------------------- MODULE RelayServer ----------------------------
(***************************************************************************)
(* One channel of the relay (relay/src/server.mjs, relay/src/store.mjs):   *)
(* the control connections that compete for it, the remote clients that    *)
(* join it with a sub-code, the byte pipes spliced for them, the life      *)
(* cycle of its sub-codes and of its master code, and the periodic sweep.  *)
(* Channels of different master codes share nothing but the rate limiter   *)
(* (module RateLimiter), so one channel is modelled.                       *)
(*                                                                         *)
(* Abstracted: HTTP authentication, byte counters, wire formats, the       *)
(* frames a pipe carries (module RelayPipe).  A socket identity is used    *)
(* for one connection, so the sets Ctl and Joiner bound how many           *)
(* connections an execution has.                                           *)
(***************************************************************************)
EXTENDS Naturals, FiniteSets

CONSTANTS
    Ctl,        \* control sockets, one per attempt of a plugin to register
    Joiner,     \* client sockets, one per join; also names the pipe it becomes
    SubCode,    \* sub-codes that may be issued on the channel
    MaxPipes,   \* limits.maxPipesPerChannel
    Kinds,      \* register requests in use: subset of {"legacy", "force", "proto2"}
    Worlds,     \* sets of environment events: subsets of {"vanish", "restart", "master", "expire"}
    None,       \* no socket
    Heartbeat   \* the sweep as the origin of a ping

ASSUME RelayAssumption ==
    /\ MaxPipes \in Nat
    /\ Kinds \subseteq {"legacy", "force", "proto2"}
    /\ Worlds \subseteq SUBSET {"vanish", "restart", "master", "expire"}
    /\ None \notin Ctl
    /\ Heartbeat \notin Ctl
    /\ IsFiniteSet(Joiner)

VARIABLES
    sock,        \* readyState of each control socket, as the relay sees it
    gone,        \* control sockets whose peer is down or unreachable without a close
    control,     \* ch.control.ws
    alive,       \* ch.control.alive
    unanswered,  \* origins of the pings the current control has not answered yet
    probe,       \* the holder a registering socket is probing (the 2.5 s timer runs)
    registered,  \* history: sockets that were sent "registered"
    join,        \* where each client stands
    code,        \* the sub-code each client presented
    beat,        \* sides of a pending client or a pipe that answered the last ping
    lost,        \* sides whose peer vanished without a close
    sub,         \* sub-code records: absent, active, revoked or expired
    master,      \* the master code: valid, revoked or expired
    missed,      \* history: clients waiting to be spliced when their sub-code died
    faults       \* the environment events this execution may see

ctlVars    == <<sock, gone, control, alive, unanswered, probe, registered>>
clientVars == <<join, code, beat, lost>>
codeVars   == <<sub, master, missed, faults>>
vars       == <<ctlVars, clientVars, codeVars>>

Sides == {"client", "host"}
Holder == Ctl \cup {None}

TypeOK ==
    /\ sock \in [Ctl -> {"idle", "open", "closing", "closed"}]
    /\ gone \subseteq Ctl
    /\ control \in Holder
    /\ alive \in BOOLEAN
    /\ unanswered \subseteq Ctl \cup {Heartbeat}
    /\ probe \in [Ctl -> Holder]
    /\ registered \subseteq Ctl
    /\ join \in [Joiner -> {"idle", "pending", "piped", "closed"}]
    /\ code \in [Joiner -> SubCode \cup {None}]
    /\ beat \in [Joiner -> SUBSET Sides]
    /\ lost \in [Joiner -> SUBSET Sides]
    /\ sub \in [SubCode -> {"new", "active", "revoked", "expired", "removed"}]
    /\ master \in {"valid", "revoked", "expired"}
    /\ missed \subseteq Joiner
    /\ faults \in Worlds
    /\ control = None => ~alive /\ unanswered = {}

Init ==
    /\ sock = [c \in Ctl |-> "idle"]
    /\ gone = {}
    /\ control = None
    /\ alive = FALSE
    /\ unanswered = {}
    /\ probe = [c \in Ctl |-> None]
    /\ registered = {}
    /\ join = [j \in Joiner |-> "idle"]
    /\ code = [j \in Joiner |-> None]
    /\ beat = [j \in Joiner |-> {}]
    /\ lost = [j \in Joiner |-> {}]
    /\ sub = [s \in SubCode |-> "new"]
    /\ master = "valid"
    /\ missed = {}
    /\ faults \in Worlds

Pending == {j \in Joiner : join[j] = "pending"}
Piped   == {j \in Joiner : join[j] = "piped"}
Served  == Pending \cup Piped

(* ch.control is set and its socket OPEN. *)
ControlOpen == control # None /\ sock[control] = "open"

Dead(state) == state \in {"revoked", "expired"}

(* A socket that is sent a close, or destroyed, leaves OPEN at once; its    *)
(* close event comes later.                                                 *)
Closing(socks, S) == [c \in Ctl |-> IF c \in S /\ socks[c] = "open" THEN "closing" ELSE socks[c]]

Dropped(S) == [j \in Joiner |-> IF j \in S THEN "closed" ELSE join[j]]

Mutant_ReapPipesOnly == join' = Dropped(Piped)

(* reapChannel: every pipe is killed, every waiting client is cut. *)
ReapChannel == join' = Dropped(Served)

(* ch.control = {ws, alive: true}, the handlers of ws, and the reply. *)
AcceptRegister(c) ==
    /\ control' = c
    /\ alive' = TRUE
    /\ unanswered' = {}
    /\ registered' = registered \cup {c}

(* ch.control = null *)
ReleaseControl ==
    /\ control' = None
    /\ alive' = FALSE
    /\ unanswered' = {}

-----------------------------------------------------------------------------
(* The control connection *)

(* onControl: the first frame of a control socket, a register request.      *)
Register(c, kind) ==
    /\ sock[c] = "idle"
    /\ master = "valid"
    /\ \/ /\ ~ControlOpen
          /\ sock' = [sock EXCEPT ![c] = "open"]
          /\ AcceptRegister(c)
          /\ UNCHANGED <<probe, join>>
       \/ /\ ControlOpen
          /\ kind \in {"legacy", "force"}
          /\ sock' = [Closing(sock, {control}) EXCEPT ![c] = "open"]
          /\ ReapChannel
          /\ AcceptRegister(c)
          /\ UNCHANGED probe
       \/ /\ ControlOpen
          /\ kind = "proto2"
          /\ sock' = [sock EXCEPT ![c] = "open"]
          /\ alive' = FALSE
          /\ unanswered' = unanswered \cup {c}
          /\ probe' = [probe EXCEPT ![c] = control]
          /\ UNCHANGED <<control, registered, join>>
    /\ UNCHANGED <<gone, code, beat, lost, codeVars>>

(* verifyMaster returned null: authFail closes the socket. *)
RegisterRefused(c) ==
    /\ sock[c] = "idle"
    /\ master # "valid"
    /\ sock' = [sock EXCEPT ![c] = "closing"]
    /\ UNCHANGED <<gone, control, alive, unanswered, probe, registered, clientVars, codeVars>>

Mutant_ZombieLeftOpen(c, prev) ==
    /\ sock' = sock
    /\ ReapChannel
    /\ AcceptRegister(c)

(* The probed holder did not answer: it is closed and reaped, as in the     *)
(* last-wins path.                                                          *)
ZombieTakeover(c, prev) ==
    /\ sock' = Closing(sock, {prev})
    /\ ReapChannel
    /\ AcceptRegister(c)

(* The 2.5 s timer of a proto-2 register. *)
ProbeTimer(c) ==
    LET prev == probe[c] IN
    /\ prev # None
    /\ probe' = [probe EXCEPT ![c] = None]
    /\ \/ /\ sock[c] # "open"
          /\ UNCHANGED <<sock, control, alive, unanswered, registered, join>>
       \/ /\ sock[c] = "open" /\ control = None
          /\ AcceptRegister(c)
          /\ UNCHANGED <<sock, join>>
       \/ /\ sock[c] = "open" /\ control # None
          /\ control # prev \/ alive
          /\ sock' = Closing(sock, {c})
          /\ UNCHANGED <<control, alive, unanswered, registered, join>>
       \/ /\ sock[c] = "open" /\ control = prev /\ ~alive
          /\ ZombieTakeover(c, prev)
    /\ UNCHANGED <<gone, code, beat, lost, codeVars>>

(* The pong handler of the current control. *)
ControlPong(origin) ==
    /\ control # None
    /\ control \notin gone
    /\ origin \in unanswered
    /\ unanswered' = unanswered \ {origin}
    /\ alive' = TRUE
    /\ UNCHANGED <<sock, gone, control, probe, registered, clientVars, codeVars>>

(* The peer closes, or a registered peer sends a frame on its control       *)
(* connection and is closed for it.                                         *)
ControlEnds(c) ==
    /\ sock[c] = "open"
    /\ sock' = Closing(sock, {c})
    /\ UNCHANGED <<gone, control, alive, unanswered, probe, registered, clientVars, codeVars>>

(* The close event: only the current control releases the channel. *)
ControlClosed(c) ==
    /\ sock[c] = "closing"
    /\ sock' = [sock EXCEPT ![c] = "closed"]
    /\ \/ /\ control = c
          /\ ReleaseControl
          /\ ReapChannel
       \/ /\ control # c
          /\ UNCHANGED <<control, alive, unanswered, join>>
    /\ UNCHANGED <<gone, probe, registered, code, beat, lost, codeVars>>

ControlVanishes(c) ==
    /\ "vanish" \in faults
    /\ sock[c] = "open"
    /\ gone' = gone \cup {c}
    /\ UNCHANGED <<sock, control, alive, unanswered, probe, registered, clientVars, codeVars>>

-----------------------------------------------------------------------------
(* Clients and pipes *)

Full == Cardinality(Piped) + Cardinality(Pending) >= MaxPipes

(* handleJoinFrame: the refusals in the order of the code, then the offer.  *)
Join(j, s) ==
    /\ join[j] = "idle"
    /\ code' = [code EXCEPT ![j] = s]
    /\ \/ /\ \/ sub[s] # "active"
             \/ ~ControlOpen
             \/ Full
          /\ join' = [join EXCEPT ![j] = "closed"]
          /\ UNCHANGED beat
       \/ /\ sub[s] = "active"
          /\ ControlOpen
          /\ ~Full
          /\ join' = [join EXCEPT ![j] = "pending"]
          /\ beat' = [beat EXCEPT ![j] = Sides]
    /\ UNCHANGED <<ctlVars, lost, codeVars>>

Mutant_DialUnverified(j) ==
    /\ join[j] = "pending"
    /\ join' = [join EXCEPT ![j] = "piped"]
    /\ beat' = [beat EXCEPT ![j] = Sides]
    /\ UNCHANGED <<ctlVars, code, lost, codeVars>>

(* onPipe and splice: the host dials the pipe of a waiting client.          *)
DialPipe(j) ==
    /\ join[j] = "pending"
    /\ master = "valid"
    /\ join' = [join EXCEPT ![j] = "piped"]
    /\ beat' = [beat EXCEPT ![j] = Sides]
    /\ UNCHANGED <<ctlVars, code, lost, codeVars>>

(* The join timer: the host did not dial within joinPendingMs. *)
PendingTimeout(j) ==
    /\ join[j] = "pending"
    /\ join' = Dropped({j})
    /\ UNCHANGED <<ctlVars, code, beat, lost, codeVars>>

(* A waiting client leaves or overflows its early-frame buffer; either side *)
(* of a pipe closes, fails or exceeds the backpressure bound.               *)
ClientEnds(j) ==
    /\ j \in Served
    /\ join' = Dropped({j})
    /\ UNCHANGED <<ctlVars, code, beat, lost, codeVars>>

ClientPong(j, side) ==
    /\ j \in Served
    /\ side \in Sides \ (beat[j] \cup lost[j])
    /\ beat' = [beat EXCEPT ![j] = @ \cup {side}]
    /\ UNCHANGED <<ctlVars, join, code, lost, codeVars>>

ClientVanishes(j, side) ==
    /\ "vanish" \in faults
    /\ j \in Piped \/ (j \in Pending /\ side = "client")
    /\ side \in Sides \ lost[j]
    /\ lost' = [lost EXCEPT ![j] = @ \cup {side}]
    /\ UNCHANGED <<ctlVars, join, code, beat, codeVars>>

-----------------------------------------------------------------------------
(* Sub-codes and the master code *)

(* Clients still waiting under a sub-code of S: only pipes are killed with   *)
(* a sub-code, so these may be spliced after its death.                     *)
WaitingUnder(S) == {j \in Pending : code[j] \in S}
PipedUnder(S)   == {j \in Piped : code[j] \in S}

IssueSubCode(s) ==
    /\ sub[s] = "new"
    /\ sub' = [sub EXCEPT ![s] = "active"]
    /\ UNCHANGED <<ctlVars, clientVars, master, missed, faults>>

(* DELETE: the record is marked and the pipes under it are killed. *)
RevokeSubCode(s) ==
    /\ sub[s] \in {"active", "revoked", "expired"}
    /\ sub' = [sub EXCEPT ![s] = "revoked"]
    /\ join' = Dropped(PipedUnder({s}))
    /\ missed' = missed \cup WaitingUnder({s})
    /\ UNCHANGED <<ctlVars, code, beat, lost, master, faults>>

(* DELETE ?purge=1: the pipes under it are killed and the record removed. *)
PurgeSubCode(s) ==
    /\ sub[s] \in {"active", "revoked", "expired"}
    /\ sub' = [sub EXCEPT ![s] = "removed"]
    /\ join' = Dropped(PipedUnder({s}))
    /\ missed' = missed \cup WaitingUnder({s})
    /\ UNCHANGED <<ctlVars, code, beat, lost, master, faults>>

(* renewSubCode: an expired code revives, a revoked one does not. *)
RenewSubCode(s) ==
    /\ sub[s] = "expired"
    /\ sub' = [sub EXCEPT ![s] = "active"]
    /\ UNCHANGED <<ctlVars, clientVars, master, missed, faults>>

SubCodeExpires(s) ==
    /\ "expire" \in faults
    /\ sub[s] = "active"
    /\ sub' = [sub EXCEPT ![s] = "expired"]
    /\ missed' = missed \cup WaitingUnder({s})
    /\ UNCHANGED <<ctlVars, clientVars, master, faults>>

(* killChannelsOfMaster: pipes, waiting clients and the control go at once. *)
KillChannel ==
    /\ sock' = Closing(sock, {control})
    /\ ReleaseControl
    /\ ReapChannel

RevokeMaster ==
    /\ "master" \in faults
    /\ master # "revoked"
    /\ master' = "revoked"
    /\ KillChannel
    /\ UNCHANGED <<gone, probe, registered, code, beat, lost, sub, missed, faults>>

MasterExpires ==
    /\ "master" \in faults
    /\ master = "valid"
    /\ master' = "expired"
    /\ UNCHANGED <<ctlVars, clientVars, sub, missed, faults>>

RenewMaster ==
    /\ master # "valid"
    /\ master' = "valid"
    /\ UNCHANGED <<ctlVars, clientVars, sub, missed, faults>>

-----------------------------------------------------------------------------
(* The sweep *)

(* gcSubCodes reads the clock again: `late` are the sub-codes that expire   *)
(* between the clock reading of the pipe loop and this one.                 *)
GcSubCodes(late) ==
    LET collected == {s \in SubCode : Dead(sub[s])} \cup late IN
    /\ sub' = [s \in SubCode |-> IF s \in collected THEN "removed" ELSE sub[s]]
    /\ missed' = missed \cup WaitingUnder(late) \cup PipedUnder(late)

(* A waiting client or a pipe that one of its sides failed to acknowledge,  *)
(* or whose sub-code record is dead, is cut; the others are pinged.         *)
SilentPending == {j \in Pending : "client" \notin beat[j]}

SilentPipes == {j \in Piped : beat[j] # Sides}

DeadPipes == {j \in Piped : Dead(sub[code[j]])}

SweepClients ==
    /\ join' = Dropped(SilentPending \cup SilentPipes \cup DeadPipes)
    /\ beat' = [j \in Joiner |->
                  IF j \in Pending THEN {"host"} ELSE IF j \in Piped THEN {} ELSE beat[j]]

Mutant_MasterRevokedOnly == master = "revoked"

(* The master code is revoked or past its date. *)
MasterLapsed == master # "valid"

Mutant_PingKeepsFlag ==
    /\ alive' = alive
    /\ unanswered' = unanswered \cup {Heartbeat}

PingControl ==
    /\ alive' = FALSE
    /\ unanswered' = unanswered \cup {Heartbeat}

(* sweep, in one step: the master code, the control, the waiting clients,   *)
(* the pipes, and the collection of dead sub-code records.                  *)
Sweep ==
    /\ \/ /\ MasterLapsed
          /\ KillChannel
          /\ UNCHANGED beat
       \/ /\ ~MasterLapsed
          /\ control # None /\ ~alive
          /\ sock' = Closing(sock, {control})
          /\ ReleaseControl
          /\ ReapChannel
          /\ UNCHANGED beat
       \/ /\ ~MasterLapsed
          /\ control # None /\ alive
          /\ PingControl
          /\ SweepClients
          /\ UNCHANGED <<sock, control>>
       \/ /\ ~MasterLapsed
          /\ control = None
          /\ SweepClients
          /\ UNCHANGED <<sock, control, alive, unanswered>>
    /\ \E late \in SUBSET {s \in SubCode : sub[s] = "active"} :
          /\ late # {} => "expire" \in faults
          /\ GcSubCodes(late)
    /\ UNCHANGED <<gone, probe, registered, code, lost, master, faults>>

(* stop and start: connections and sub-codes are memory only, the master    *)
(* codes are in the configuration file.                                     *)
Restart ==
    /\ "restart" \in faults
    /\ sock' = [c \in Ctl |-> IF sock[c] = "idle" THEN "idle" ELSE "closed"]
    /\ ReleaseControl
    /\ probe' = [c \in Ctl |-> None]
    /\ ReapChannel
    /\ sub' = [s \in SubCode |-> IF sub[s] = "new" THEN "new" ELSE "removed"]
    /\ UNCHANGED <<gone, registered, code, beat, lost, master, missed, faults>>

Next ==
    \/ \E c \in Ctl, kind \in Kinds : Register(c, kind)
    \/ \E c \in Ctl : RegisterRefused(c)
    \/ \E c \in Ctl : ProbeTimer(c)
    \/ \E origin \in Ctl \cup {Heartbeat} : ControlPong(origin)
    \/ \E c \in Ctl : ControlEnds(c)
    \/ \E c \in Ctl : ControlClosed(c)
    \/ \E c \in Ctl : ControlVanishes(c)
    \/ \E j \in Joiner, s \in SubCode : Join(j, s)
    \/ \E j \in Joiner : DialPipe(j)
    \/ \E j \in Joiner : PendingTimeout(j)
    \/ \E j \in Joiner : ClientEnds(j)
    \/ \E j \in Joiner, side \in Sides : ClientPong(j, side)
    \/ \E j \in Joiner, side \in Sides : ClientVanishes(j, side)
    \/ \E s \in SubCode : IssueSubCode(s)
    \/ \E s \in SubCode : RevokeSubCode(s)
    \/ \E s \in SubCode : PurgeSubCode(s)
    \/ \E s \in SubCode : RenewSubCode(s)
    \/ \E s \in SubCode : SubCodeExpires(s)
    \/ RevokeMaster
    \/ MasterExpires
    \/ RenewMaster
    \/ Sweep
    \/ Restart

Spec == Init /\ [][Next]_vars

(* The sweep is a setInterval and the close event of a closing socket       *)
(* always comes: ws destroys the socket after its close timeout.            *)
FairSpec ==
    /\ Spec
    /\ WF_vars(Sweep)
    /\ \A c \in Ctl : WF_vars(ControlClosed(c))

-----------------------------------------------------------------------------
(* Safety *)

(* Of all the connections that were ever told "registered", only the        *)
(* current control is still open: whatever path a take-over takes, no two   *)
(* hosts believe they hold the channel on a connection the relay keeps.     *)
OneLiveController ==
    \A c \in registered : sock[c] = "open" => c = control

(* A channel without a control serves nobody: no client waits for a host    *)
(* that cannot be offered it, and no pipe outlives its host's control.      *)
NoServiceWithoutControl == control = None => Served = {}

(* limits.maxPipesPerChannel bounds pipes and waiting clients together,     *)
(* although a client is counted when it joins and spliced later.            *)
WithinCapacity == Cardinality(Served) <= MaxPipes

(* A pipe runs under a revoked or removed sub-code only if its client was   *)
(* still waiting, unspliced, at the moment the code died (or the code       *)
(* expired inside the sweep, between its two clock readings).               *)
OnlyWaitingClientsOutliveTheirCode ==
    \A j \in Piped : sub[code[j]] \in {"revoked", "removed"} => j \in missed

(* While a master code is revoked no pipe carries data on its channel: the  *)
(* revocation cuts the pipes and no other can be dialled.                   *)
NoPipesUnderRevokedMaster == master = "revoked" => Piped = {}

(* The header of server.mjs, 1 and 6: a pipe carries data only under codes  *)
(* that are good, but for the clients a revocation or an expiry forgets     *)
(* because they still wait.                                                 *)
PipesUnderGoodCodes == NoPipesUnderRevokedMaster /\ OnlyWaitingClientsOutliveTheirCode

(* After a sweep no pipe is left whose sub-code was revoked, has expired or *)
(* is gone (invariant 6 in the header of server.mjs).                       *)
SweepEndsDeadPipes ==
    [][Sweep => \A j \in Piped' : sub'[code[j]] = "active"]_vars

-----------------------------------------------------------------------------
(* Liveness *)

(* A holder whose peer vanished without a close loses the channel.          *)
ZombieControlReaped ==
    \A c \in Ctl : (control = c /\ c \in gone) ~> control # c

(* A pipe one side of which vanished without a close is cut.                *)
HalfDeadPipeReaped ==
    \A j \in Joiner : (join[j] = "piped" /\ lost[j] # {}) ~> join[j] = "closed"

(* Only the sweep can notice a peer that is gone without a close: whatever  *)
(* it held is given back, the channel of a host and the pipe of a client.   *)
HalfOpenReaped == ZombieControlReaped /\ HalfDeadPipeReaped

(* A master code that stays revoked or expired ends its channel for good:   *)
(* control, waiting clients and pipes.                                      *)
LapsedMasterStopsChannel ==
    <>[](master # "valid") => <>[](control = None /\ Served = {})
=============================================================================
