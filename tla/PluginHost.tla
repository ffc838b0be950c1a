----------------------------- MODULE PluginHost -----------------------------
(***************************************************************************)
(* The desktop program without its windows: the steps of a launch          *)
(* (startRemoteServer of src/main/main.ts), the child process              *)
(* RelayPluginHost (src/main/plugins/pluginHost.ts) starts, watches,       *)
(* restarts and stops for the relay, the saved settings                    *)
(* RelayController.applySettings applies to it (src/main/relayController.ts),*)
(* and the shutdown that stops it and clears the master code.              *)
(*                                                                         *)
(* stop() waits for the child, so several calls may wait at once.  When the*)
(* child exits, first its exit handler runs, then every stop() that waits  *)
(* for it ends, then the callers continue, in the order of their calls and *)
(* before any other event.                                                 *)
(***************************************************************************)
EXTENDS Naturals, Sequences, FiniteSets, SequencesExt

CONSTANTS
    Relay,        \* a relay's address with a master code of it
    Req,          \* requests to the plugin
    Slot,         \* bound: processes at once, a set of numbers
    None,         \* no process, no settings
    Worlds        \* what users and processes may do, see World

(* The relay part of the configuration: enabled, the relay, whether there is*)
(* a master code, lanDirect and clearMasterCodeOnExit.                      *)
Config == [on : BOOLEAN, at : Relay, code : BOOLEAN, lan : BOOLEAN, clear : BOOLEAN]

State == {"stopped", "starting", "registered", "reconnecting", "occupied", "parked"}

(* overlap: settings may be applied while a call still waits; late: a child *)
(* that was told to stop may outlive the 3.5 s; hasty: the user may quit    *)
(* while the program starts, and again while the shutdown waits; user: what *)
(* the user is busy with, see Desktop.  Bounds: the configurations to choose*)
(* from, the calls of applySettings, the launches of the program, the states*)
(* the plugin reports, the messages under way to the page, the panels, the  *)
(* requests to the plugin.                                                  *)
World == [overlap : BOOLEAN, late : BOOLEAN, hasty : BOOLEAN,
          user : {"away", "window", "tray", "form", "codes"},
          configs : SUBSET Config, applies : Nat, launches : Nat, says : SUBSET State,
          wire : Nat, panels : Nat, requests : Nat]

ASSUME HostAssumption ==
    /\ IsFiniteSet(Slot) /\ Slot # {} /\ Slot \subseteq Nat /\ None \notin Slot \cup Config
    /\ IsFiniteSet(Req)
    /\ \A w \in Worlds : w \in World /\ w.requests <= Cardinality(Req)

VARIABLES
    world,   \* the one of Worlds this behaviour is of
    saved,   \* the Config on disk
    boot,    \* how far this launch is, and which one it is
    server,  \* what the RemoteServer was started with
    host,    \* the fields of the RelayPluginHost, and the processes
    waits,   \* the calls of stop() under way for each process, oldest first
    applies, \* how many times settings were applied
    app      \* up, stopping (shutdown waits), closing, gone

vars == <<world, saved, boot, server, host, waits, applies, app>>

Process == [st : {"running", "told", "killed", "dead"}, cfg : Config \cup {None}]
Host == [child : Slot \cup {None}, cfg : Config \cup {None}, stopping : BOOLEAN,
         timer : BOOLEAN, timers : Nat, state : State, told : State,
         proc : [Slot -> Process], asked : [Req -> Slot \cup {None}]]
Caller == [panel : Nat, fill : BOOLEAN] \* a panel's button: save, or apply a token
Call == [next : Config \cup {None}, by : Caller \cup {None}]
Boot == [at : {"cert", "listen", "up", "failed"}, retry : BOOLEAN, launch : Nat]
Server == [host : {"none", "any", "loopback"}, gate : BOOLEAN]

TypeOK ==
    /\ world \in Worlds /\ saved \in Config
    /\ boot \in Boot /\ server \in Server /\ host \in Host
    /\ waits \in [Slot -> Seq(Call)]
    /\ applies \in 0 .. world.applies
    /\ app \in {"up", "stopping", "closing", "gone"}

Live(h) == {p \in Slot : h.proc[p].st # "dead"}
Up == boot.at = "up"
NoCalls == [p \in Slot |-> <<>>]

-----------------------------------------------------------------------------
(* The host's methods, from one host to the next.  told is the state last   *)
(* emitted, which the controller and the windows have; not every change of  *)
(* state is emitted.                                                        *)

Room(h) == Live(h) # Slot
Dead == [st |-> "dead", cfg |-> None]

Idle == [child |-> None, cfg |-> None, stopping |-> FALSE, timer |-> FALSE, timers |-> 0,
         state |-> "stopped", told |-> "stopped",
         proc |-> [p \in Slot |-> Dead], asked |-> [r \in Req |-> None]]

SetState(h, s) == [h EXCEPT !.state = s, !.told = s]

Spawn(h) ==
    LET p == CHOOSE q \in Slot \ Live(h) : TRUE
    IN  [h EXCEPT !.child = p, !.state = "starting", !.proc[p] = [st |-> "running", cfg |-> h.cfg]]

Start(h, c) ==
    IF h.child # None THEN h
    ELSE Spawn([h EXCEPT !.cfg = c, !.stopping = FALSE])

RejectAllPending(h) == [h EXCEPT !.asked = [r \in Req |-> None]]

Tell(h, p) == [h EXCEPT !.proc[p].st = IF @ = "running" THEN "told" ELSE @]
Kill(h, p) == [h EXCEPT !.proc[p].st = IF @ = "dead" THEN @ ELSE "killed"]

Mutant_StopKeepsTimer(h) ==
    LET quiet == [h EXCEPT !.stopping = TRUE]
    IN  IF h.child = None THEN [quiet EXCEPT !.state = "stopped"] ELSE Tell(quiet, h.child)

(* What stop() does at once. *)
StopBegins(h) ==
    LET quiet == [h EXCEPT !.stopping = TRUE, !.timer = FALSE, !.timers = IF h.timer THEN @ - 1 ELSE @]
    IN  IF h.child = None THEN [quiet EXCEPT !.state = "stopped"] ELSE Tell(quiet, h.child)

(* What it does once the child exited or the time is up. *)
StopEnds(h, p) == RejectAllPending([Kill(h, p) EXCEPT !.child = None, !.state = "stopped"])

Mutant_RestartForgotten(h) == SetState(h, "reconnecting")

Schedule(h) == [SetState(h, "reconnecting") EXCEPT !.timer = TRUE, !.timers = @ + 1]

(* The exit handler, which does not ask whether it is the current child. *)
ExitHandler(h, p) ==
    LET gone == RejectAllPending([h EXCEPT !.child = None, !.proc[p] = Dead])
    IN  IF h.stopping THEN SetState(gone, "stopped") ELSE Schedule(gone)

-----------------------------------------------------------------------------
(* Settings *)

Effective(c) == [c EXCEPT !.on = c.on /\ c.code]

(* Without lanDirect an enabled relay narrows the server to the loopback. *)
DesiredHost(c) == IF Effective(c).on /\ ~c.lan THEN "loopback" ELSE "any"

RestartRequired(c) == Effective(c).on /\ (DesiredHost(c) # server.host \/ ~server.gate)

Startable(c) == Effective(c).on /\ ~RestartRequired(c)

(* After stop(): the settings of this call are started, if they can be. *)
Continue(h, c) == IF Startable(c) THEN Start(h, c) ELSE h

ClearMaster == saved' = [saved EXCEPT !.code = @ /\ ~(Up /\ saved.on /\ saved.clear)]

(* The shutdown goes on: handleExitClearMaster, then the rest. *)
Goes(calls) ==
    IF \E i \in DOMAIN calls : calls[i].next = None
    THEN app' = "closing" /\ ClearMaster
    ELSE UNCHANGED <<app, saved>>

-----------------------------------------------------------------------------
(* A launch *)

Init ==
    /\ world \in Worlds
    /\ saved \in world.configs
    /\ boot = [at |-> "cert", retry |-> FALSE, launch |-> 1]
    /\ server = [host |-> "none", gate |-> FALSE] /\ host = Idle
    /\ waits = NoCalls /\ applies = 0 /\ app = "up"

(* The certificate is there: the server is made from what was saved. *)
CertReady ==
    /\ boot.at = "cert" /\ app # "gone"
    /\ boot' = [boot EXCEPT !.at = "listen"]
    /\ server' = [host |-> DesiredHost(saved), gate |-> Effective(saved).on]
    /\ UNCHANGED <<world, saved, host, waits, applies, app>>

(* It listens: the handlers, ensureStarted and the rest follow at once. *)
Listening ==
    /\ boot.at = "listen" /\ app # "gone"
    /\ boot' = [boot EXCEPT !.at = "up"]
    /\ host' = Continue(host, saved)
    /\ UNCHANGED <<world, saved, server, waits, applies, app>>

(* It does not: once more with any port if the port was taken. *)
ListenFails(taken) ==
    /\ boot.at = "listen" /\ app # "gone"
    /\ boot' = IF taken /\ ~boot.retry THEN [boot EXCEPT !.at = "cert", !.retry = TRUE]
                                       ELSE [boot EXCEPT !.at = "failed"]
    /\ UNCHANGED <<world, saved, server, host, waits, applies, app>>

(* After it has gone the user starts it again. *)
Launch ==
    /\ app = "gone" /\ boot.launch < world.launches
    /\ boot' = [at |-> "cert", retry |-> FALSE, launch |-> boot.launch + 1]
    /\ server' = [host |-> "none", gate |-> FALSE]
    /\ host' = Idle /\ app' = "up"
    /\ UNCHANGED <<world, saved, waits, applies>>

-----------------------------------------------------------------------------
(* Callers *)

(* A call of stop() whose caller goes on with next. *)
Stop(next, by) ==
    IF host.child = None
    THEN /\ Room(host)
         /\ host' = IF next = None THEN StopBegins(host) ELSE Continue(StopBegins(host), next)
         /\ UNCHANGED waits
    ELSE /\ host' = StopBegins(host)
         /\ waits' = [waits EXCEPT ![host.child] = Append(@, [next |-> next, by |-> by])]

(* Settings are applied: stored, then the plugin is stopped and started. *)
ApplySettings(c, by) ==
    /\ Up /\ app # "gone" /\ applies < world.applies
    /\ world.overlap \/ (app = "up" /\ waits = NoCalls)
    /\ c.on => c.code
    /\ applies' = applies + 1
    /\ saved' = c
    /\ Stop(c, by)
    /\ UNCHANGED <<world, boot, server, app>>

Mutant_Shutdown ==
    /\ app = "up" /\ (Up \/ boot.at = "failed" \/ world.hasty)
    /\ app' = (IF host.child = None THEN "closing" ELSE "stopping") /\ UNCHANGED saved
    /\ Stop(None, None)
    /\ UNCHANGED <<world, boot, server, applies>>

(* Quitting from the tray, or before-quit; also when the start failed. *)
Shutdown ==
    /\ app = "up" /\ (Up \/ boot.at = "failed" \/ world.hasty)
    /\ IF host.child = None THEN Goes(<<[next |-> None]>>) ELSE app' = "stopping" /\ UNCHANGED saved
    /\ Stop(None, None)
    /\ UNCHANGED <<world, boot, server, applies>>

(* The application leaves, and with it every child. *)
Leave ==
    /\ app' = "gone"
    /\ host' = [host EXCEPT !.proc = [p \in Slot |-> Dead], !.asked = [r \in Req |-> None], !.timers = 0, !.timer = FALSE]
    /\ waits' = NoCalls
    /\ UNCHANGED <<world, saved, boot, server, applies>>

Quit == app = "closing" /\ Leave

(* before-quit while the shutdown still waits: nothing holds it back. *)
QuitAgain == world.hasty /\ app = "stopping" /\ Leave

-----------------------------------------------------------------------------
(* Processes and timers *)

(* The callers go on in their order: the first whose settings can be started *)
(* starts the plugin, those after it find a child.                          *)
Resumed(h, calls) ==
    LET ready == {i \in DOMAIN calls : calls[i].next # None /\ Startable(calls[i].next)}
    IN  IF ready = {} THEN h
        ELSE Start(h, calls[CHOOSE i \in ready : \A j \in ready : i <= j].next)

\* The calls that waited for p when it exits.
AllEnd(h, p) == IF waits[p] = <<>> THEN h ELSE [StopEnds(h, p) EXCEPT !.proc[p] = Dead]

(* A child exits: because it was told to, was killed, or crashed. *)
Exit(p) ==
    /\ p \in Live(host)
    /\ host' = Resumed(AllEnd(ExitHandler(host, p), p), waits[p])
    /\ waits' = [waits EXCEPT ![p] = <<>>]
    /\ Goes(waits[p])
    /\ UNCHANGED <<world, boot, server, applies>>

(* 3 s after stop() began. *)
Forced(p) ==
    /\ waits[p] # <<>> /\ host.proc[p].st = "told"
    /\ host' = Kill(host, p)
    /\ UNCHANGED <<world, saved, boot, server, waits, applies, app>>

(* 3.5 s after a stop() began, the child still being there. *)
TimeUp(p, i) ==
    /\ world.late /\ i \in DOMAIN waits[p] /\ host.proc[p].st = "killed" /\ Room(host)
    /\ host' = Resumed(StopEnds(host, p), <<waits[p][i]>>)
    /\ waits' = [waits EXCEPT ![p] = RemoveAt(@, i)]
    /\ Goes(<<waits[p][i]>>)
    /\ UNCHANGED <<world, boot, server, applies>>

Mutant_RestartUnchecked ==
    /\ host.timers > 0 /\ Room(host) /\ app # "gone"
    /\ host' = Spawn([host EXCEPT !.timer = FALSE, !.timers = @ - 1])
    /\ UNCHANGED <<world, saved, boot, server, waits, applies, app>>

(* A restart timer, which does not look at child. *)
Restart ==
    /\ host.timers > 0 /\ Room(host) /\ app # "gone"
    /\ LET fired == [host EXCEPT !.timer = FALSE, !.timers = @ - 1]
       IN  host' = IF host.stopping THEN fired ELSE Spawn(fired)
    /\ UNCHANGED <<world, saved, boot, server, waits, applies, app>>

(* A status message, of whichever child, or news of a pipe, with which the  *)
(* state is emitted again.                                                  *)
Status(p, s) ==
    /\ host.proc[p].st \in {"running", "told"}
    /\ s \in world.says \/ s = host.state
    /\ host' = SetState(host, s)
    /\ UNCHANGED <<world, saved, boot, server, waits, applies, app>>

Request(r) ==
    /\ host.asked[r] = None /\ host.child # None /\ app # "gone"
    /\ host' = [host EXCEPT !.asked[r] = host.child]
    /\ UNCHANGED <<world, saved, boot, server, waits, applies, app>>

(* A reply, or 10 s without one. *)
Settle(r) ==
    /\ host.asked[r] # None
    /\ host' = [host EXCEPT !.asked[r] = None]
    /\ UNCHANGED <<world, saved, boot, server, waits, applies, app>>

-----------------------------------------------------------------------------
(* Never two plugins at once: the relay would take them for two devices.    *)
(* It takes children that go when told, but no order of the calls.          *)
OnePlugin == ~world.late => Cardinality(Live(host)) <= 1

(* What stop() ended stays ended, in every world: a child that is current   *)
(* while stop() wants none was told to go, late exits, crashes and restart  *)
(* timers notwithstanding, and nobody waits for the answer of a process     *)
(* that is gone.                                                            *)
StopIsFinal ==
    /\ host.stopping /\ host.child # None => host.proc[host.child].st # "running"
    /\ \A r \in Req : host.asked[r] # None => host.asked[r] \in Live(host)

(* main.ts:152, relayController.ts:151: in every world a plugin runs only   *)
(* in a launch whose server asks the relay's clients for the token and      *)
(* listens where the plugin's settings want it: settings that need a restart*)
(* wait for one, whatever calls, crashes and timers come together.          *)
RunsBehindItsGate ==
    \A p \in Live(host) :
        server.gate /\ server.host = DesiredHost(host.proc[p].cfg)

(* The plugin the relay sees is one, and never without the server it needs. *)
OnePluginBehindItsGate == OnePlugin /\ RunsBehindItsGate

Orderly == ~world.overlap /\ ~world.late

(* relayController.ts:120, pluginHost.ts:4: once the calls are over, a      *)
(* plugin runs, or a timer will start one, with the settings that are saved,*)
(* after crashes too, unless they wait for a restart; off means that none   *)
(* runs.                                                                    *)
SavedIsRunning ==
    Orderly /\ waits = NoCalls /\ app = "up" /\ Up =>
        /\ \A p \in Live(host) : saved.on /\ host.proc[p].cfg.at = saved.at
        /\ Startable(saved) => (host.child # None \/ host.timer) /\ host.cfg.at = saved.at

(* main.ts:323: the application is not gone before the master code is,      *)
(* unless the user saves or quits once more while it cleans up, or quits    *)
(* before it has started.                                                   *)
ClearedOnExit ==
    ~world.hasty /\ ~world.overlap /\ app = "gone" /\ Up => ~(saved.on /\ saved.clear /\ saved.code)
=============================================================================
