---------------------------- MODULE RelayPlugin ----------------------------
(***************************************************************************)
(* The control connection of the relay plugin                             *)
(* (relay/src/plugin/relayPlugin.mjs): dialling, registering, the three    *)
(* ways a registration ends (closed, occupied, taken over), the timers     *)
(* that dial again, the forced registration of the settings panel, and the *)
(* pipes that hang on the connection.                                      *)
(*                                                                         *)
(* The relay is reduced to what it answers to one master code: who holds   *)
(* the channel, the probe of a holder, and what it sends (onControl in     *)
(* relay/src/server.mjs; module RelayServer has the whole of it).  Another *)
(* device with the same master code is "other".  Messages of one socket    *)
(* arrive in order, those of two sockets in any order.                     *)
(***************************************************************************)
EXTENDS Naturals, Sequences, FiniteSets

CONSTANTS
    Dial,       \* control sockets of this plugin, reused when nothing knows them
    Users,      \* the users there are: those who may press the panel's button, or not
    MaxTimers,  \* bound: pending reconnect timers
    MaxFaults,  \* bound: connections lost or refused, and moves of the other device
    None, Other

ASSUME PluginAssumption ==
    /\ None \notin Dial /\ Other \notin Dial /\ None # Other
    /\ Users \subseteq BOOLEAN
    /\ MaxTimers \in Nat /\ MaxFaults \in Nat

VARIABLES
    mayForce,   \* whether the user may press the panel's button, one of Users
    state,      \* state
    control,    \* control
    live,       \* sockets that have not closed on the plugin's side
    registered, \* live sockets whose registered is set
    reconnects, \* pending reconnect timers
    probe,      \* occupiedProbeTimer is pending
    pipes,      \* sockets with a live pipe that was offered over them
    shown,      \* the state the settings panel last showed
    inbox,      \* messages on the way to each socket
    phase,      \* a dial under way (forcing: with force), or what the relay makes of it
    prev,       \* the holder each probing register waits for
    holder,     \* the relay's control of the channel
    otherUp,    \* the other device answers pings
    faults

pluginVars == <<mayForce, state, control, live, registered, reconnects, probe, pipes, shown>>
relayVars  == <<inbox, phase, prev, holder, otherUp>>
vars == <<pluginVars, relayVars, faults>>

State == {"starting", "registered", "reconnecting", "occupied", "parked", "stopped"}
Message == {"registered", "occupied", "taken-over", "offer", "close"}

TypeOK ==
    /\ mayForce \in Users
    /\ state \in State /\ shown \in State
    /\ control \in Dial \cup {None}
    /\ live \subseteq Dial /\ registered \subseteq live
    /\ pipes \subseteq Dial
    /\ control # None => control \in live
    /\ reconnects \in 0 .. MaxTimers /\ probe \in BOOLEAN
    /\ inbox \in [Dial -> Seq(Message)]
    /\ phase \in [Dial -> {"idle", "dialing", "forcing", "probing", "holding"}]
    /\ prev \in [Dial -> Dial \cup {Other, None}]
    /\ holder \in Dial \cup {Other, None}
    /\ otherUp \in BOOLEAN
    /\ faults \in 0 .. MaxFaults

(* A socket neither side remembers. *)
Free(d) ==
    /\ d \notin live /\ d # holder /\ d \notin pipes
    /\ \A e \in Dial : prev[e] # d

(* dialControl *)
DialControl(d, force) ==
    /\ Free(d)
    /\ live' = live \cup {d}
    /\ control' = d
    /\ inbox' = [inbox EXCEPT ![d] = <<>>]
    /\ phase' = [phase EXCEPT ![d] = IF force THEN "forcing" ELSE "dialing"]

(* The configuration arrives and the plugin dials. *)
Init ==
    /\ mayForce \in Users
    /\ state = "starting" /\ shown = "starting"
    /\ \E d \in Dial :
          /\ control = d /\ live = {d}
          /\ phase = [e \in Dial |-> IF e = d THEN "dialing" ELSE "idle"]
    /\ registered = {} /\ pipes = {}
    /\ reconnects = 0 /\ probe = FALSE
    /\ inbox = [d \in Dial |-> <<>>]
    /\ prev = [d \in Dial |-> None]
    /\ holder \in {None, Other}
    /\ otherUp = TRUE
    /\ faults = 0

-----------------------------------------------------------------------------
(* The relay *)

(* d gets the messages ms in order; a socket that is gone gets nothing. *)
With(box, d, ms) == IF d \in live THEN [box EXCEPT ![d] = @ \o ms] ELSE box

(* acceptRegister: the old control, if any, is closed, after the messages   *)
(* in bye.                                                                  *)
AcceptRegister(d, bye) ==
    /\ holder' = d
    /\ phase' = [e \in Dial |-> CASE e = d -> "holding" [] e = holder -> "idle" [] OTHER -> phase[e]]
    /\ prev' = [prev EXCEPT ![d] = None]
    /\ inbox' = With(IF holder \in Dial THEN With(inbox, holder, Append(bye, "close")) ELSE inbox,
                     d, <<"registered">>)

(* A register frame reaches the relay: a free channel is given, a forced    *)
(* register takes it, any other has the holder probed.                      *)
Register(d) ==
    /\ phase[d] \in {"dialing", "forcing"} /\ d \in live
    /\ \/ /\ holder = None
          /\ AcceptRegister(d, <<>>)
       \/ /\ holder # None /\ phase[d] = "forcing"
          /\ AcceptRegister(d, <<"taken-over">>)
       \/ /\ holder # None /\ phase[d] = "dialing"
          /\ phase' = [phase EXCEPT ![d] = "probing"]
          /\ prev' = [prev EXCEPT ![d] = holder]
          /\ UNCHANGED <<inbox, holder>>
    /\ UNCHANGED <<pluginVars, otherUp, faults>>

Answers(h) == IF h = Other THEN otherUp ELSE h \in live

(* 2.5 s later: occupied when the holder answered or somebody else took the *)
(* channel meanwhile.                                                       *)
Verdict(d) ==
    /\ phase[d] = "probing"
    /\ \/ /\ holder = None \/ (holder = prev[d] /\ ~Answers(holder))
          /\ AcceptRegister(d, <<>>)
       \/ /\ holder # None /\ (holder = prev[d] => Answers(holder))
          /\ phase' = [phase EXCEPT ![d] = "idle"]
          /\ prev' = [prev EXCEPT ![d] = None]
          /\ inbox' = With(inbox, d, <<"occupied", "close">>)
          /\ UNCHANGED holder
    /\ UNCHANGED <<pluginVars, otherUp, faults>>

(* A client joined: the holder is offered it. *)
Offer(d) ==
    /\ holder = d
    /\ d \notin pipes
    /\ \A i \in DOMAIN inbox[d] : inbox[d][i] # "offer"
    /\ inbox' = With(inbox, d, <<"offer">>)
    /\ UNCHANGED <<pluginVars, phase, prev, holder, otherUp, faults>>

(* The sweep reaps a holder that does not answer. *)
Sweep ==
    /\ holder # None /\ ~Answers(holder)
    /\ holder' = None
    /\ phase' = [d \in Dial |-> IF d = holder THEN "idle" ELSE phase[d]]
    /\ UNCHANGED <<pluginVars, inbox, prev, otherUp, faults>>

(* The other device registers on a free channel, or its user forces it. *)
OtherRegisters(force) ==
    /\ faults < MaxFaults /\ faults' = faults + 1
    /\ holder # Other
    /\ holder = None \/ force
    /\ holder' = Other
    /\ otherUp' = TRUE
    /\ inbox' = IF holder \in Dial
                THEN With(inbox, holder, <<"taken-over", "close">>)
                ELSE inbox
    /\ phase' = [d \in Dial |-> IF d = holder THEN "idle" ELSE phase[d]]
    /\ UNCHANGED <<pluginVars, prev>>

(* The other device stops, with a close or without. *)
OtherLeaves ==
    /\ holder = Other /\ otherUp
    /\ \/ holder' = None /\ UNCHANGED otherUp
       \/ otherUp' = FALSE /\ UNCHANGED holder
    /\ UNCHANGED <<pluginVars, inbox, phase, prev, faults>>

-----------------------------------------------------------------------------
(* The plugin *)

Schedule(d) ==
    /\ reconnects < MaxTimers /\ reconnects' = reconnects + 1
    /\ state' = IF d \in registered THEN "reconnecting" ELSE "starting"

Mutant_OccupiedGivesUp(d) ==
    \/ state \in {"stopped", "parked", "occupied"} /\ UNCHANGED <<state, reconnects, probe>>
    \/ /\ state \notin {"stopped", "parked", "occupied"}
       /\ Schedule(d)
       /\ UNCHANGED probe

(* What a close leads to: nothing more (stopped, parked), another try in    *)
(* 30 s (occupied), or one after a back-off.                                *)
AfterClose(d) ==
    \/ state \in {"stopped", "parked"} /\ UNCHANGED <<state, reconnects, probe>>
    \/ state = "occupied" /\ probe' = TRUE /\ UNCHANGED <<state, reconnects>>
    \/ /\ state \notin {"stopped", "parked", "occupied"}
       /\ Schedule(d)
       /\ UNCHANGED probe

Mutant_CloseKeepsPipes(d) ==
    /\ live' = live \ {d} /\ registered' = registered \ {d}
    /\ control' = IF control = d THEN None ELSE control
    /\ UNCHANGED pipes
    /\ AfterClose(d)

(* The close event of a socket: all pipes are reaped, whoever offered them. *)
OnClose(d) ==
    /\ live' = live \ {d} /\ registered' = registered \ {d}
    /\ control' = IF control = d THEN None ELSE control
    /\ pipes' = {}
    /\ AfterClose(d)

OnMessage(d, m) ==
    \/ /\ m = "registered"
       /\ registered' = registered \cup {d}
       /\ state' = "registered"
       /\ UNCHANGED <<live, control, pipes, reconnects, probe>>
    \/ /\ m = "occupied" /\ state' = "occupied"
       /\ UNCHANGED <<live, control, registered, pipes, reconnects, probe>>
    \/ /\ m = "taken-over" /\ state' = "parked"
       /\ UNCHANGED <<live, control, registered, pipes, reconnects, probe>>
    \/ /\ m = "offer" /\ pipes' = pipes \cup {d}
       /\ UNCHANGED <<state, live, control, registered, reconnects, probe>>
    \/ /\ m = "close" /\ OnClose(d)

Receive(d) ==
    /\ d \in live /\ inbox[d] # <<>>
    /\ OnMessage(d, Head(inbox[d]))
    /\ inbox' = [inbox EXCEPT ![d] = Tail(@)]
    /\ UNCHANGED <<mayForce, shown, phase, prev, holder, otherUp, faults>>

(* A dial fails, or the connection breaks under a registering or registered *)
(* socket (the watchdog's terminate included); the relay may not notice.    *)
Lost(d) ==
    /\ faults < MaxFaults /\ faults' = faults + 1
    /\ d \in live
    /\ OnClose(d)
    /\ inbox' = [inbox EXCEPT ![d] = <<>>]
    /\ \/ phase[d] \in {"probing", "holding", "idle"} /\ UNCHANGED <<phase, prev, holder>>
       \/ /\ phase' = [phase EXCEPT ![d] = "idle"]
          /\ prev' = [prev EXCEPT ![d] = None]
          /\ holder' = IF holder = d THEN None ELSE holder
    /\ UNCHANGED <<mayForce, shown, otherUp>>

(* The back-off has passed: the plugin dials unless it was stopped. *)
ReconnectTimer ==
    /\ reconnects > 0
    /\ reconnects' = reconnects - 1
    /\ \/ state = "stopped" /\ UNCHANGED <<live, control, inbox, phase>>
       \/ state # "stopped" /\ \E d \in Dial : DialControl(d, FALSE)
    /\ UNCHANGED <<mayForce, state, registered, probe, pipes, shown, prev, holder, otherUp, faults>>

(* 30 s after an occupied answer. *)
ProbeTimer ==
    /\ probe
    /\ probe' = FALSE
    /\ \/ state # "occupied" /\ UNCHANGED <<live, control, inbox, phase>>
       \/ state = "occupied" /\ \E d \in Dial : DialControl(d, FALSE)
    /\ UNCHANGED <<mayForce, state, registered, reconnects, pipes, shown, prev, holder, otherUp, faults>>

(* The button of the panel, offered while it shows a conflict. *)
ForceRegister ==
    /\ mayForce
    /\ shown \in {"occupied", "parked"}
    /\ state \notin {"registered", "stopped"}
    /\ probe' = FALSE
    /\ state' = "starting"
    /\ \E d \in Dial : DialControl(d, TRUE)
    /\ UNCHANGED <<mayForce, registered, reconnects, pipes, shown, prev, holder, otherUp, faults>>

(* The panel catches up with the last status. *)
Show ==
    /\ shown # state
    /\ shown' = state
    /\ UNCHANGED <<mayForce, state, control, live, registered, reconnects, probe, pipes>>
    /\ UNCHANGED <<relayVars, faults>>

(* A pipe closes on one of its two sides. *)
PipeEnds(d) ==
    /\ d \in pipes
    /\ pipes' = pipes \ {d}
    /\ UNCHANGED <<mayForce, state, control, live, registered, reconnects, probe, shown>>
    /\ UNCHANGED <<relayVars, faults>>

(* shutdown: only the current control is terminated; the process exits      *)
(* 50 ms later.                                                             *)
Shutdown ==
    /\ state # "stopped"
    /\ state' = "stopped"
    /\ pipes' = {}
    /\ inbox' = IF control = None THEN inbox ELSE [inbox EXCEPT ![control] = <<"close">>]
    /\ UNCHANGED <<mayForce, control, live, registered, reconnects, probe, shown>>
    /\ UNCHANGED <<phase, prev, holder, otherUp, faults>>

Next ==
    \/ \E d \in Dial :
          Register(d) \/ Verdict(d) \/ Offer(d) \/ Receive(d) \/ Lost(d) \/ PipeEnds(d)
    \/ Sweep \/ OtherLeaves
    \/ \E force \in BOOLEAN : OtherRegisters(force)
    \/ ReconnectTimer \/ ProbeTimer \/ ForceRegister \/ Show \/ Shutdown

Spec == Init /\ [][Next]_vars

(* Timers fire, messages arrive, and the relay handles registers and sweeps *)
(* holders that stopped answering.                                          *)
FairSpec ==
    /\ Spec
    /\ WF_vars(ReconnectTimer) /\ WF_vars(ProbeTimer) /\ WF_vars(Sweep)
    /\ \A d \in Dial : WF_vars(Register(d)) /\ WF_vars(Verdict(d)) /\ WF_vars(Receive(d))

-----------------------------------------------------------------------------
(* While it is neither parked nor stopped, the plugin has a socket to hear  *)
(* from or a timer to dial again: no order of answers, closes and forced    *)
(* dials leaves it silent with nothing pending.                             *)
NeverStranded ==
    state \notin {"parked", "stopped"} => live # {} \/ reconnects > 0 \/ probe

(* A pipe never outlives the control socket it was offered over, whatever   *)
(* other socket took its place.                                             *)
PipesHangOnLiveSockets == pipes \subseteq live

(* relay-help.md:84: after a change of device the channel is taken over     *)
(* automatically: where no user forces, and unless the other device stays   *)
(* or the plugin is parked or stopped, it ends up registered.               *)
EndsUpRegistered ==
    ~mayForce =>
    <>[](\/ state \in {"parked", "stopped"}
         \/ holder = Other /\ otherUp
         \/ state = "registered" /\ holder \in live)
=============================================================================
