---------------------------- MODULE DesktopProofs ----------------------------
(***************************************************************************)
(* Proofs about the desktop program (modules PluginHost, Desktop and       *)
(* RelaySettings), for every set of worlds: any number of processes, calls *)
(* of stop(), restart timers, launches, configurations, panels, requests   *)
(* and messages to the page.                                               *)
(***************************************************************************)
EXTENDS RelaySettings, FiniteSetTheorems, SequenceTheorems, WellFoundedInduction, TLAPS

-----------------------------------------------------------------------------
(* The methods of the plugin host, field by field *)

\* A plugin was started, with the settings c.
Started(h, g, c) ==
    \E p \in Slot \ Live(h) :
        /\ g \in Host
        /\ g.child = p /\ g.cfg = c /\ g.state = "starting"
        /\ g.timer = h.timer /\ g.timers = h.timers /\ g.told = h.told /\ g.asked = h.asked
        /\ g.proc = [h.proc EXCEPT ![p] = [st |-> "running", cfg |-> c]]

LEMMA SpawnStarts ==
    ASSUME NEW h \in Host, Room(h)
    PROVE  Started(h, Spawn(h), h.cfg) /\ Spawn(h).stopping = h.stopping
<1> DEFINE p == CHOOSE q \in Slot \ Live(h) : TRUE
<1>1. p \in Slot \ Live(h)
  BY DEF Room, Live
<1>2. Spawn(h) = [h EXCEPT !.child = p, !.state = "starting", !.proc[p] = [st |-> "running", cfg |-> h.cfg]]
  BY DEF Spawn
<1> HIDE DEF p
<1> DEFINE new == [st |-> "running", cfg |-> h.cfg]
<1>3. h.proc \in [Slot -> Process] /\ new \in Process
  BY DEF Host, Process
<1>4. Spawn(h) = [h EXCEPT !.child = p, !.state = "starting", !.proc = [h.proc EXCEPT ![p] = new]]
  BY <1>2
<1>5. [h.proc EXCEPT ![p] = new] \in [Slot -> Process]
  BY <1>1, <1>3
<1> HIDE DEF new
<1>6. /\ Spawn(h) \in Host
      /\ Spawn(h).child = p /\ Spawn(h).cfg = h.cfg /\ Spawn(h).state = "starting"
      /\ Spawn(h).timer = h.timer /\ Spawn(h).timers = h.timers /\ Spawn(h).told = h.told
      /\ Spawn(h).asked = h.asked /\ Spawn(h).stopping = h.stopping
      /\ Spawn(h).proc = [h.proc EXCEPT ![p] = new]
  BY <1>1, <1>4, <1>5 DEF Host, State
<1> QED
  BY <1>1, <1>6 DEF Started, new

LEMMA StartStarts ==
    ASSUME NEW h \in Host, NEW c \in Config, Room(h), h.child = None
    PROVE  Started(h, Start(h, c), c) /\ ~Start(h, c).stopping
<1> DEFINE g == [h EXCEPT !.cfg = c, !.stopping = FALSE]
<1>1. /\ g \in Host /\ g.cfg = c /\ ~g.stopping
      /\ g.child = h.child /\ g.state = h.state /\ g.proc = h.proc
      /\ g.timer = h.timer /\ g.timers = h.timers /\ g.told = h.told /\ g.asked = h.asked
  BY DEF Host
<1>2. Start(h, c) = Spawn(g) /\ Live(g) = Live(h) /\ Room(g)
  BY <1>1 DEF Start, Live, Room
<1> HIDE DEF g
<1>3. Started(g, Spawn(g), c) /\ Spawn(g).stopping = g.stopping
  BY <1>1, <1>2, SpawnStarts
<1> QED
  BY <1>1, <1>2, <1>3 DEF Started

\* A child that runs is told to go.
Told2Go(h) ==
    IF h.child # None /\ h.proc[h.child].st = "running"
    THEN [h.proc EXCEPT ![h.child] = [@ EXCEPT !.st = "told"]] ELSE h.proc

\* The last timer that was set has not fired yet.
Ticks(h) == h.timer => h.timers > 0

LEMMA TellIs ==
    ASSUME NEW h \in Host, NEW p \in Slot
    PROVE  /\ Tell(h, p) \in Host
           /\ Tell(h, p) = [h EXCEPT !.proc = IF h.proc[p].st = "running"
                                              THEN [h.proc EXCEPT ![p] = [@ EXCEPT !.st = "told"]] ELSE h.proc]
<1> PICK x \in Process : x = h.proc[p]
  BY DEF Host
<1>1. h.proc \in [Slot -> Process]
  BY DEF Host
<1>2. [x EXCEPT !.st = IF @ = "running" THEN "told" ELSE @] =
      IF x.st = "running" THEN [x EXCEPT !.st = "told"] ELSE x
  BY DEF Process
<1> DEFINE y == IF x.st = "running" THEN [x EXCEPT !.st = "told"] ELSE x
<1>3. y \in Process
  BY DEF Process
<1>4. Tell(h, p) = [h EXCEPT !.proc = [h.proc EXCEPT ![p] = y]]
  BY <1>2 DEF Tell
<1>5. [h.proc EXCEPT ![p] = y] = IF x.st = "running" THEN [h.proc EXCEPT ![p] = [x EXCEPT !.st = "told"]] ELSE h.proc
  BY <1>1
<1>6. [h.proc EXCEPT ![p] = y] \in [Slot -> Process]
  BY <1>1, <1>3
<1> QED
  BY <1>4, <1>5, <1>6 DEF Host

\* What stop() begins.
LEMMA StopBeginsIs ==
    ASSUME NEW h \in Host, Ticks(h)
    PROVE  LET g == StopBegins(h)
           IN  /\ g \in Host
               /\ g.child = h.child /\ g.cfg = h.cfg /\ g.stopping /\ ~g.timer
               /\ g.timers = (IF h.timer THEN h.timers - 1 ELSE h.timers)
               /\ g.state = (IF h.child = None THEN "stopped" ELSE h.state)
               /\ g.told = h.told /\ g.asked = h.asked
               /\ g.proc = Told2Go(h)
<1> DEFINE left == IF h.timer THEN h.timers - 1 ELSE h.timers
           quiet == [h EXCEPT !.stopping = TRUE, !.timer = FALSE, !.timers = left]
<1>0. left \in Nat
  BY DEF Host, Ticks
<1> HIDE DEF left
<1>1. /\ quiet \in Host
      /\ quiet.child = h.child /\ quiet.cfg = h.cfg /\ quiet.stopping /\ ~quiet.timer
      /\ quiet.timers = left
      /\ quiet.state = h.state /\ quiet.told = h.told /\ quiet.asked = h.asked /\ quiet.proc = h.proc
  BY <1>0 DEF Host
<1>2. StopBegins(h) = IF h.child = None THEN [quiet EXCEPT !.state = "stopped"] ELSE Tell(quiet, h.child)
  BY DEF StopBegins, left
<1> HIDE DEF quiet
<1>3. CASE h.child = None
  BY <1>1, <1>2, <1>3 DEF Host, State, Told2Go, left
<1>4. CASE h.child # None
  <2>1. h.child \in Slot
    BY <1>4 DEF Host
  <2>2. Tell(quiet, h.child) = [quiet EXCEPT !.proc = Told2Go(h)] /\ Tell(quiet, h.child) \in Host
    <3> PICK c \in Slot : c = h.child
      BY <2>1
    <3>1. /\ Tell(quiet, c) \in Host
          /\ Tell(quiet, c) = [quiet EXCEPT !.proc = IF quiet.proc[c].st = "running"
                                                    THEN [quiet.proc EXCEPT ![c] = [@ EXCEPT !.st = "told"]]
                                                    ELSE quiet.proc]
      BY <1>1, TellIs
    <3>2. Told2Go(h) = IF h.proc[c].st = "running" THEN [h.proc EXCEPT ![c] = [@ EXCEPT !.st = "told"]] ELSE h.proc
      BY <1>4 DEF Told2Go
    <3> QED
      BY <1>1, <3>1, <3>2
  <2> HIDE DEF Told2Go
  <2> QED
    BY <1>1, <1>2, <1>4, <2>2 DEF Host, left
<1> QED
  BY <1>3, <1>4

Unanswered == [r \in Req |-> None]

\* A process that is forced.
Killed(h, p) ==
    IF h.proc[p].st = "dead" THEN h.proc ELSE [h.proc EXCEPT ![p] = [@ EXCEPT !.st = "killed"]]

LEMMA KillIs ==
    ASSUME NEW h \in Host, NEW p \in Slot
    PROVE  Kill(h, p) \in Host /\ Kill(h, p) = [h EXCEPT !.proc = Killed(h, p)]
<1> PICK x \in Process : x = h.proc[p]
  BY DEF Host
<1>1. h.proc \in [Slot -> Process]
  BY DEF Host
<1>2. [x EXCEPT !.st = IF @ = "dead" THEN @ ELSE "killed"] =
      IF x.st = "dead" THEN x ELSE [x EXCEPT !.st = "killed"]
  BY DEF Process
<1> DEFINE y == IF x.st = "dead" THEN x ELSE [x EXCEPT !.st = "killed"]
<1>3. y \in Process
  BY DEF Process
<1>4. Kill(h, p) = [h EXCEPT !.proc = [h.proc EXCEPT ![p] = y]]
  BY <1>2 DEF Kill, Host
<1>5. [h.proc EXCEPT ![p] = y] = Killed(h, p)
  BY <1>1 DEF Killed
<1>6. [h.proc EXCEPT ![p] = y] \in [Slot -> Process]
  BY <1>1, <1>3
<1> QED
  BY <1>4, <1>5, <1>6 DEF Host

\* What stop() ends with.
LEMMA StopEndsIs ==
    ASSUME NEW h \in Host, NEW p \in Slot
    PROVE  LET g == StopEnds(h, p)
           IN  /\ g \in Host
               /\ g.child = None /\ g.cfg = h.cfg /\ g.stopping = h.stopping
               /\ g.timer = h.timer /\ g.timers = h.timers
               /\ g.state = "stopped" /\ g.told = h.told /\ g.asked = Unanswered
               /\ g.proc = Killed(h, p)
<1>1. Unanswered \in [Req -> Slot \cup {None}]
  BY DEF Unanswered
<1>2. StopEnds(h, p) = [Kill(h, p) EXCEPT !.child = None, !.state = "stopped", !.asked = Unanswered]
  BY KillIs DEF StopEnds, RejectAllPending, Unanswered, Host
<1>3. StopEnds(h, p) = [h EXCEPT !.proc = Killed(h, p), !.child = None, !.state = "stopped", !.asked = Unanswered]
  BY <1>2, KillIs DEF Host
<1>4. Killed(h, p) \in [Slot -> Process]
  BY KillIs DEF Host
<1> HIDE DEF Killed, Unanswered
<1> QED
  BY <1>1, <1>3, <1>4 DEF Host, State

\* What an exit leaves, before the callers of stop() go on.
LEMMA ExitLeaves ==
    ASSUME NEW h \in Host, NEW p \in Slot
    PROVE  LET g == AllEnd(ExitHandler(h, p), p)
           IN  /\ g \in Host
               /\ g.child = None /\ g.cfg = h.cfg /\ g.stopping = h.stopping
               /\ g.timer <=> (h.timer \/ ~h.stopping)
               /\ g.timers = (IF h.stopping THEN h.timers ELSE h.timers + 1)
               /\ g.state = (IF h.stopping \/ waits[p] # <<>> THEN "stopped" ELSE "reconnecting")
               /\ g.told = (IF h.stopping THEN "stopped" ELSE "reconnecting")
               /\ g.asked = Unanswered /\ g.proc = [h.proc EXCEPT ![p] = Dead]
               /\ ExitHandler(h, p) \in Host /\ ExitHandler(h, p).told = g.told
<1> DEFINE procs == [h.proc EXCEPT ![p] = Dead]
           gone == [h EXCEPT !.child = None, !.proc = procs, !.asked = Unanswered]
           e == ExitHandler(h, p)
<1>1. Unanswered \in [Req -> Slot \cup {None}] /\ procs \in [Slot -> Process] /\ procs[p] = Dead
  BY DEF Unanswered, Host, Process, Dead
<1>2. e = IF h.stopping THEN SetState(gone, "stopped") ELSE Schedule(gone)
  BY DEF ExitHandler, RejectAllPending, Unanswered, Host
<1> HIDE DEF procs
<1>3. /\ gone \in Host /\ gone.child = None /\ gone.cfg = h.cfg /\ gone.stopping = h.stopping
      /\ gone.timer = h.timer /\ gone.timers = h.timers /\ gone.asked = Unanswered /\ gone.proc = procs
  BY <1>1 DEF Host
<1> HIDE DEF gone, e
<1>4. /\ e \in Host
      /\ e.child = None /\ e.cfg = h.cfg /\ e.stopping = h.stopping
      /\ e.timer <=> (h.timer \/ ~h.stopping)
      /\ e.timers = (IF h.stopping THEN h.timers ELSE h.timers + 1)
      /\ e.state = e.told /\ e.told = (IF h.stopping THEN "stopped" ELSE "reconnecting")
      /\ e.asked = Unanswered /\ e.proc = procs
  <2>1. CASE h.stopping
    <3>1. e = [gone EXCEPT !.state = "stopped", !.told = "stopped"]
      BY <1>2, <2>1 DEF SetState
    <3> QED
      BY <1>3, <2>1, <3>1 DEF Host, State
  <2>2. CASE ~h.stopping
    <3>1. e = [gone EXCEPT !.state = "reconnecting", !.told = "reconnecting", !.timer = TRUE, !.timers = gone.timers + 1]
      BY <1>2, <1>3, <2>2 DEF SetState, Schedule, Host
    <3>2. h.timers + 1 \in Nat
      BY DEF Host
    <3> QED
      BY <1>3, <2>2, <3>1, <3>2 DEF Host, State
  <2> QED
    BY <2>1, <2>2
<1>5. Killed(e, p) = procs
  BY <1>1, <1>4 DEF Killed, Dead
<1>6. CASE waits[p] = <<>>
  BY <1>4, <1>6 DEF AllEnd, procs, e
<1>7. CASE waits[p] # <<>>
  <2> DEFINE s == StopEnds(e, p)
  <2>1. /\ s \in Host
        /\ s.child = None /\ s.cfg = e.cfg /\ s.stopping = e.stopping
        /\ s.timer = e.timer /\ s.timers = e.timers
        /\ s.state = "stopped" /\ s.told = e.told /\ s.asked = Unanswered /\ s.proc = procs
    BY <1>4, <1>5, StopEndsIs
  <2> HIDE DEF s
  <2>2. AllEnd(e, p) = [s EXCEPT !.proc = [s.proc EXCEPT ![p] = Dead]]
    BY <1>7 DEF AllEnd, s
  <2>3. [s.proc EXCEPT ![p] = Dead] = procs
    BY <1>1, <2>1
  <2>4. AllEnd(e, p) = s
    BY <2>1, <2>2, <2>3 DEF Host
  <2> QED
    BY <1>4, <1>7, <2>1, <2>4 DEF procs, e
<1> QED
  BY <1>6, <1>7

(* A nonempty set of numbers has a least one. *)
LEMMA LeastElement ==
    ASSUME NEW T \in SUBSET Nat, T # {}
    PROVE  \E n \in T : \A m \in T : n <= m
<1> DEFINE R == OpToRel(<, Nat)
<1>1. IsWellFoundedOn(R, Nat)
  BY NatLessThanWellFounded
<1>2. R = {ss \in Nat \X Nat : ss[1] < ss[2]}
  BY DEF OpToRel
<1>3. \E n \in T : \A m \in T : <<m, n>> \notin R
  <2> HIDE DEF R
  <2> QED
    BY <1>1, WFMin
<1>4. \A m, n \in Nat : m < n => <<m, n>> \in R
  BY <1>2
<1> HIDE DEF R
<1>5. \A m, n \in Nat : ~(m < n) => n <= m
  OBVIOUS
<1> QED
  BY <1>3, <1>4, <1>5

\* The plugin is started with one of these settings that can be, or with none.
MayStart(h, g, cs) ==
    \/ g = h /\ \A c \in cs : ~Startable(c)
    \/ \E c \in cs : Startable(c) /\ Started(h, g, c) /\ ~g.stopping

Nexts(calls) == {calls[i].next : i \in DOMAIN calls} \ {None}

LEMMA NextsAreSettings ==
    ASSUME NEW calls \in Seq(Call)
    PROVE  Nexts(calls) \subseteq Config
<1>1. ASSUME NEW i \in DOMAIN calls PROVE calls[i].next \in Config \cup {None}
  <2>1. calls[i] \in Call
    OBVIOUS
  <2> QED
    BY <2>1 DEF Call
<1> QED
  BY <1>1 DEF Nexts

LEMMA ContinueIs ==
    ASSUME NEW h \in Host, NEW c \in Config, Room(h), h.child = None
    PROVE  MayStart(h, Continue(h, c), {c})
BY StartStarts DEF MayStart, Continue

LEMMA ResumedIs ==
    ASSUME NEW h \in Host, NEW calls \in Seq(Call), Room(h), h.child = None
    PROVE  MayStart(h, Resumed(h, calls), Nexts(calls))
<1> DEFINE ready == {i \in DOMAIN calls : calls[i].next # None /\ Startable(calls[i].next)}
           first == CHOOSE i \in ready : \A j \in ready : i <= j
<1>1. Resumed(h, calls) = IF ready = {} THEN h ELSE Start(h, calls[first].next)
  BY DEF Resumed
<1>2. CASE ready = {}
  BY <1>1, <1>2 DEF MayStart, Nexts
<1>3. CASE ready # {}
  <2>1. ready \in SUBSET Nat
    OBVIOUS
  <2>2. \E i \in ready : \A j \in ready : i <= j
    <3> HIDE DEF ready
    <3> QED
      BY <1>3, <2>1, LeastElement
  <2>3. first \in ready
    BY <2>2
  <2> HIDE DEF first
  <2>4. calls[first].next \in Nexts(calls) /\ Startable(calls[first].next)
    BY <2>3 DEF Nexts
  <2>5. calls[first].next \in Config
    BY <2>4, NextsAreSettings
  <2> QED
    BY <1>1, <1>3, <2>4, <2>5, StartStarts DEF MayStart
<1> QED
  BY <1>2, <1>3

\* A call of stop() that ends at once, and one that has to wait.
Unhindered(next) ==
    /\ host.child = None /\ Room(host) /\ waits' = waits
    /\ IF next = None THEN host' = StopBegins(host) ELSE MayStart(StopBegins(host), host', {next})

Waiting(next, by) ==
    /\ host.child # None /\ host' = StopBegins(host)
    /\ waits' = [waits EXCEPT ![host.child] = Append(@, [next |-> next, by |-> by])]

LEMMA StopIs ==
    ASSUME host \in Host, Ticks(host), NEW next \in Config \cup {None}, NEW by, Stop(next, by)
    PROVE  Unhindered(next) \/ Waiting(next, by)
<1> DEFINE g == StopBegins(host)
<1>1. CASE host.child = None
  <2>1. g \in Host /\ g.child = None /\ g.proc = host.proc
    BY <1>1, StopBeginsIs DEF Told2Go
  <2> HIDE DEF g
  <2>2. Room(host) => Room(g)
    BY <2>1 DEF Room, Live
  <2> QED
    BY <1>1, <2>1, <2>2, ContinueIs DEF Stop, Unhindered, g
<1>2. CASE host.child # None
  BY <1>2 DEF Stop, Waiting
<1> QED
  BY <1>1, <1>2

-----------------------------------------------------------------------------
(* The host *)

Fits(c) == server.gate /\ server.host = DesiredHost(c)

\* The settings of the host, those it will restart with too, and those of its
\* processes fit the server.
Gated(h) ==
    /\ h.cfg = None => Live(h) = {} /\ h.timers = 0
    /\ h.cfg # None => Fits(h.cfg)
    /\ \A p \in Live(h) : h.proc[p].cfg # None /\ Fits(h.proc[p].cfg)

\* The current child is there, told to go if the host is to have none, and
\* the requests under way are to processes that are there.
Tidy(h) ==
    /\ h.child # None => h.child \in Live(h)
    /\ h.child # None /\ h.stopping => h.proc[h.child].st # "running"
    /\ \A r \in Req : h.asked[r] # None => h.asked[r] \in Live(h)

\* The current child is the only process, and the timer the only one.
Lone(h) ==
    /\ \A p \in Live(h) : p = h.child
    /\ h.timers = IF h.timer THEN 1 ELSE 0
    /\ h.timer => h.child = None /\ ~h.stopping

Sound(h) == h \in Host /\ Ticks(h) /\ Gated(h) /\ Tidy(h) /\ (~world.late => Lone(h))

LEMMA StartableFits ==
    ASSUME NEW c \in Config, Startable(c)
    PROVE  Fits(c) /\ c # None
BY HostAssumption DEF Startable, RestartRequired, Fits

LEMMA StartKeepsSound ==
    ASSUME NEW h, Sound(h), h.child = None \/ world.late, ~h.timer \/ world.late,
           NEW g, NEW c \in Config, c # None, Fits(c), Started(h, g, c), ~g.stopping
    PROVE  Sound(g)
<1> PICK p \in Slot \ Live(h) :
        /\ g \in Host
        /\ g.child = p /\ g.cfg = c /\ g.state = "starting"
        /\ g.timer = h.timer /\ g.timers = h.timers /\ g.told = h.told /\ g.asked = h.asked
        /\ g.proc = [h.proc EXCEPT ![p] = [st |-> "running", cfg |-> c]]
  BY DEF Started
<1>1. h.proc \in [Slot -> Process] /\ h \in Host
  BY DEF Sound, Host
<1>2. Live(g) = Live(h) \cup {p} /\ g.proc[p] = [st |-> "running", cfg |-> c]
  BY <1>1 DEF Live
<1>3. \A q \in Live(h) : q # p /\ g.proc[q] = h.proc[q]
  BY <1>1
<1>4. Ticks(g)
  BY DEF Ticks, Sound
<1>5. Gated(g)
  BY <1>2, <1>3 DEF Gated, Sound
<1>6. Tidy(g)
  BY <1>1, <1>2, <1>3 DEF Tidy, Sound
<1>7. ASSUME ~world.late PROVE Lone(g)
  <2>1. Lone(h) /\ h.child = None /\ ~h.timer
    BY <1>7 DEF Sound
  <2>3. Live(h) = {} /\ h.timers = 0
    BY <2>1, HostAssumption DEF Lone, Live
  <2>2. ~g.timer /\ g.timers = 0
    BY <2>1, <2>3
  <2> QED
    BY <1>2, <2>2, <2>3 DEF Lone
<1> QED
  BY <1>4, <1>5, <1>6, <1>7 DEF Sound

LEMMA StopBeginsSound ==
    ASSUME NEW h, Sound(h)
    PROVE  Sound(StopBegins(h))
<1> DEFINE g == StopBegins(h)
<1>1. /\ g \in Host
      /\ g.child = h.child /\ g.cfg = h.cfg /\ g.stopping /\ ~g.timer
      /\ g.timers = (IF h.timer THEN h.timers - 1 ELSE h.timers)
      /\ g.told = h.told /\ g.asked = h.asked
      /\ g.proc = Told2Go(h)
  BY StopBeginsIs DEF Sound
<1> HIDE DEF g
<1>2. h.proc \in [Slot -> Process] /\ h.child \in Slot \cup {None} /\ h.timers \in Nat
  BY DEF Sound, Host
<1>3. ASSUME NEW p \in Slot
      PROVE  /\ g.proc[p].cfg = h.proc[p].cfg /\ (g.proc[p].st = "dead" <=> h.proc[p].st = "dead")
             /\ p = h.child => g.proc[p].st # "running"
  <2>1. h.proc[p] \in Process
    BY <1>2
  <2> QED
    BY <1>1, <1>2, <2>1, HostAssumption DEF Told2Go, Process
<1>4. Live(g) = Live(h)
  BY <1>3 DEF Live
<1>5. Ticks(g)
  BY <1>1 DEF Ticks
<1>6. Gated(g)
  BY <1>1, <1>2, <1>3, <1>4 DEF Gated, Sound, Ticks, Live
<1>7. Tidy(g)
  BY <1>1, <1>2, <1>3, <1>4 DEF Tidy, Sound
<1>8. ~world.late => Lone(g)
  BY <1>1, <1>2, <1>4 DEF Lone, Sound
<1> QED
  BY <1>1, <1>5, <1>6, <1>7, <1>8 DEF Sound, g

LEMMA ExitKeepsSound ==
    ASSUME NEW h, Sound(h), NEW p \in Live(h)
    PROVE  LET g == AllEnd(ExitHandler(h, p), p)
           IN  Sound(g) /\ Live(g) = Live(h) \ {p} /\ g.child = None /\ Room(g)
<1> DEFINE g == AllEnd(ExitHandler(h, p), p)
<1>0. p \in Slot
  BY DEF Live
<1>1. /\ g \in Host
      /\ g.child = None /\ g.cfg = h.cfg /\ g.stopping = h.stopping
      /\ g.timer <=> (h.timer \/ ~h.stopping)
      /\ g.timers = (IF h.stopping THEN h.timers ELSE h.timers + 1)
      /\ g.asked = Unanswered /\ g.proc = [h.proc EXCEPT ![p] = Dead]
  BY <1>0, ExitLeaves DEF Sound
<1> HIDE DEF g
<1>2. /\ h.proc \in [Slot -> Process] /\ h.child \in Slot \cup {None} /\ h.timers \in Nat
      /\ h.timer \in BOOLEAN /\ h.stopping \in BOOLEAN
  BY DEF Sound, Host
<1>3. Live(g) = Live(h) \ {p}
  BY <1>0, <1>1, <1>2 DEF Live, Dead
<1>4. Ticks(g)
  <2>1. Ticks(h)
    BY DEF Sound
  <2>2. CASE h.stopping
    BY <1>1, <1>2, <2>1, <2>2 DEF Ticks
  <2>3. CASE ~h.stopping
    BY <1>1, <1>2, <2>3 DEF Ticks
  <2> QED
    BY <2>2, <2>3
<1>5. Gated(g)
  <2>1. \A q \in Live(g) : g.proc[q] = h.proc[q]
    BY <1>1, <1>2, <1>3
  <2> QED
    BY <1>1, <1>3, <2>1 DEF Gated, Sound
<1>6. Tidy(g)
  BY <1>1 DEF Tidy, Unanswered
<1>7. ASSUME ~world.late PROVE Lone(g)
  <2>1. h.child = p /\ Live(g) = {}
    BY <1>3, <1>7 DEF Sound, Lone
  <2>2. ~h.timer /\ h.timers = 0
    BY <1>0, <1>7, <2>1, HostAssumption DEF Sound, Lone
  <2>3. (g.timer <=> ~h.stopping) /\ g.timers = (IF h.stopping THEN 0 ELSE 1)
    BY <1>1, <1>2, <2>2
  <2> QED
    BY <1>1, <2>1, <2>3 DEF Lone
<1>8. Room(g)
  BY <1>0, <1>3 DEF Room
<1> QED
  BY <1>1, <1>3, <1>4, <1>5, <1>6, <1>7, <1>8 DEF Sound, g

-----------------------------------------------------------------------------
(* The steps of the host *)

\* Where processes go when told, calls wait for the current child alone, and
\* a child that is to go has a call that waits for it.
Awaited(h, calls) ==
    /\ \A p \in Slot : calls[p] # <<>> => h.child = p /\ h.stopping
    /\ h.child # None /\ h.stopping => calls[h.child] # <<>>

HostInv ==
    /\ TypeOK
    /\ app # "gone" => Sound(host) /\ (~world.late => Awaited(host, waits))
    /\ app = "gone" => Live(host) = {} /\ host.timers = 0 /\ host.asked = Unanswered /\ waits = NoCalls
    /\ ~Up => host.child = None /\ host.cfg = None /\ waits = NoCalls

\* A step of a launch that is up.
LEMMA UpStep ==
    ASSUME HostInv, Up, UNCHANGED <<world, boot, server>>, NEW h, h = host',
           Sound(h), ~world.late => Awaited(h, waits'),
           saved' \in Config, waits' \in [Slot -> Seq(Call)], applies' \in 0 .. world.applies,
           app' \in {"up", "stopping", "closing"}
    PROVE  HostInv'
<1>1. TypeOK'
  BY DEF HostInv, TypeOK, Sound
<1>2. Up'
  BY DEF Up
<1>3. Sound(host)'
  BY DEF Sound, Ticks, Gated, Fits, Tidy, Lone, Live
<1>4. (~world.late => Awaited(host, waits))'
  BY DEF Awaited
<1> QED
  BY <1>1, <1>2, <1>3, <1>4 DEF HostInv

\* Something is under way only in a launch that is up and has not gone.
LEMMA UnderWay ==
    ASSUME HostInv,
           \/ Live(host) # {}
           \/ host.timers > 0
           \/ app # "gone" /\ host.child # None
           \/ \E p \in Slot : waits[p] # <<>>
           \/ \E r \in Req : host.asked[r] # None
    PROVE  Up /\ app \in {"up", "stopping", "closing"}
<1>1. app # "gone"
  BY DEF HostInv, Unanswered, NoCalls
<1>2. Sound(host) /\ app \in {"up", "stopping", "closing"}
  BY <1>1 DEF HostInv, TypeOK
<1>3. Up
  BY <1>1, <1>2 DEF HostInv, Sound, Gated, Tidy, NoCalls
<1> QED
  BY <1>2, <1>3

LEMMA GoesTo ==
    ASSUME TypeOK, app \in {"up", "stopping", "closing"}, NEW calls, Goes(calls)
    PROVE  saved' \in Config /\ app' \in {"up", "stopping", "closing"}
<1>1. [saved EXCEPT !.code = @ /\ ~(Up /\ saved.on /\ saved.clear)] \in Config
  BY DEF TypeOK, Config
<1> QED
  BY <1>1 DEF Goes, ClearMaster, TypeOK

\* The callers that go on start one plugin or none.
LEMMA ResumedSound ==
    ASSUME NEW h, Sound(h), h.child = None, Room(h), ~h.timer \/ world.late,
           NEW g, NEW cs \in SUBSET Config, MayStart(h, g, cs)
    PROVE  Sound(g) /\ (g # h => ~g.stopping)
<1>1. CASE g = h
  BY <1>1
<1>2. ASSUME NEW c \in cs, Startable(c), Started(h, g, c), ~g.stopping PROVE Sound(g)
  <2>1. c \in Config /\ Fits(c) /\ c # None
    BY <1>2, StartableFits
  <2> QED
    BY <1>2, <2>1, StartKeepsSound
<1> QED
  BY <1>1, <1>2 DEF MayStart

LEMMA ExitStep ==
    ASSUME HostInv, NEW p \in Slot, Exit(p)
    PROVE  HostInv'
<1>0. p \in Live(host)
  BY DEF Exit
<1>1. Up /\ app \in {"up", "stopping", "closing"}
  BY <1>0, UnderWay
<1>2. TypeOK /\ Sound(host) /\ (~world.late => Awaited(host, waits))
  BY <1>1 DEF HostInv
<1> DEFINE left == AllEnd(ExitHandler(host, p), p)
<1>3. Sound(left) /\ left.child = None /\ Room(left)
  BY <1>0, <1>2, ExitKeepsSound
<1>4. left.timer <=> host.timer \/ ~host.stopping
  BY <1>2, ExitLeaves DEF Sound
<1> HIDE DEF left
<1>5. waits[p] \in Seq(Call) /\ waits' \in [Slot -> Seq(Call)]
  BY <1>2 DEF TypeOK, Exit
<1>6. MayStart(left, host', Nexts(waits[p]))
  BY <1>3, <1>5, ResumedIs DEF Exit, Sound, left
<1>7. Sound(host') /\ (host' = left \/ ~host'.stopping)
  <2>1. CASE waits[p] = <<>>
    <3>1. Nexts(waits[p]) = {}
      BY <2>1 DEF Nexts
    <3> QED
      BY <1>3, <1>6, <3>1 DEF MayStart
  <2>2. CASE waits[p] # <<>>
    <3>1. ~left.timer \/ world.late
      BY <1>2, <1>4, <2>2 DEF Sound, Lone, Awaited
    <3> QED
      BY <1>3, <1>5, <1>6, <3>1, ResumedSound, NextsAreSettings
  <2> QED
    BY <2>1, <2>2
<1>8. ASSUME ~world.late PROVE Awaited(host', waits')
  <2>1. \A q \in Slot : waits'[q] = <<>>
    BY <1>0, <1>2, <1>8 DEF Awaited, Sound, Lone, Exit, TypeOK
  <2>2. host'.child = None \/ ~host'.stopping
    BY <1>3, <1>7
  <2> QED
    BY <2>1, <2>2 DEF Awaited
<1>9. saved' \in Config /\ app' \in {"up", "stopping", "closing"}
  BY <1>1, <1>2, GoesTo DEF Exit
<1> QED
  BY <1>1, <1>2, <1>5, <1>7, <1>8, <1>9, UpStep DEF Exit, TypeOK

LEMMA RemoveAtType ==
    ASSUME NEW S, NEW q \in Seq(S), NEW i \in DOMAIN q
    PROVE  RemoveAt(q, i) \in Seq(S)
<1> DEFINE front == SubSeq(q, 1, i - 1)
           back == SubSeq(q, i + 1, Len(q))
<1>1. Len(q) \in Nat /\ i \in 1 .. Len(q)
  OBVIOUS
<1>2. front \in Seq(S)
  BY <1>1
<1>3. back \in Seq(S)
  BY <1>1
<1>4. RemoveAt(q, i) = front \o back
  BY DEF RemoveAt
<1> HIDE DEF front, back
<1> QED
  BY <1>2, <1>3, <1>4

LEMMA TimeUpStep ==
    ASSUME HostInv, NEW p \in Slot, NEW i \in DOMAIN waits[p], TimeUp(p, i)
    PROVE  HostInv'
<1> DEFINE left == StopEnds(host, p)
           call == <<waits[p][i]>>
<1>0. world.late /\ p \in Live(host) /\ waits \in [Slot -> Seq(Call)]
  BY DEF TimeUp, Live, HostInv, TypeOK
<1>1. Up /\ app \in {"up", "stopping", "closing"}
  BY <1>0, UnderWay
<1>2. TypeOK /\ Sound(host)
  BY <1>1 DEF HostInv
<1>3. /\ left \in Host
      /\ left.child = None /\ left.cfg = host.cfg
      /\ left.timer = host.timer /\ left.timers = host.timers /\ left.asked = Unanswered
      /\ left.proc = Killed(host, p)
  BY <1>2, StopEndsIs DEF Sound
<1> HIDE DEF left
<1>4. host.proc \in [Slot -> Process]
  BY <1>2 DEF Sound, Host
<1>5. ASSUME NEW q \in Slot
      PROVE  left.proc[q].cfg = host.proc[q].cfg /\ (left.proc[q].st = "dead" <=> host.proc[q].st = "dead")
  <2>1. host.proc[q] \in Process
    BY <1>4
  <2> QED
    BY <1>3, <1>4, <2>1 DEF Killed, Process
<1>6. Live(left) = Live(host)
  BY <1>5 DEF Live
<1>7. Sound(left) /\ Room(left)
  <2>1. Gated(left)
    BY <1>2, <1>3, <1>5, <1>6 DEF Sound, Gated, Live
  <2>2. Tidy(left) /\ Ticks(left)
    BY <1>2, <1>3 DEF Tidy, Unanswered, Ticks, Sound
  <2> QED
    BY <1>0, <1>3, <1>6, <2>1, <2>2 DEF Sound, Room, TimeUp
<1>8. call \in Seq(Call)
  BY <1>0
<1>9. Sound(host')
  <2>1. MayStart(left, host', Nexts(call))
    BY <1>3, <1>7, <1>8, ResumedIs DEF TimeUp, left
  <2> HIDE DEF call
  <2> QED
    BY <1>0, <1>3, <1>7, <1>8, <2>1, ResumedSound, NextsAreSettings
<1>10. waits' \in [Slot -> Seq(Call)]
  <2>1. RemoveAt(waits[p], i) \in Seq(Call)
    BY <1>0, RemoveAtType
  <2> QED
    BY <1>0, <2>1 DEF TimeUp
<1>11. saved' \in Config /\ app' \in {"up", "stopping", "closing"}
  BY <1>1, <1>2, GoesTo DEF TimeUp
<1> QED
  BY <1>0, <1>1, <1>2, <1>9, <1>10, <1>11, UpStep DEF TimeUp, TypeOK

\* A call of stop() leaves the host sound.
LEMMA StopSound ==
    ASSUME Sound(host), NEW next \in Config \cup {None}, NEW by, Stop(next, by)
    PROVE  Sound(host') /\ (host'.child = None \/ ~host'.stopping \/ host.child # None)
<1> DEFINE g == StopBegins(host)
<1>1. /\ Sound(g) /\ g.child = host.child /\ ~g.timer /\ g.proc = Told2Go(host)
      /\ host \in Host /\ Ticks(host)
  BY StopBeginsSound, StopBeginsIs DEF Sound
<1>2. CASE Waiting(next, by)
  BY <1>1, <1>2 DEF Waiting
<1>3. CASE Unhindered(next)
  <2>1. g.child = None /\ g.proc = host.proc /\ Room(g)
    BY <1>1, <1>3 DEF Unhindered, Told2Go, Room, Live
  <2> HIDE DEF g
  <2>2. CASE next = None
    BY <1>1, <1>3, <2>1, <2>2 DEF Unhindered, g
  <2>3. CASE next # None
    <3>1. MayStart(g, host', {next}) /\ {next} \in SUBSET Config
      BY <1>3, <2>3 DEF Unhindered, g
    <3> QED
      BY <1>1, <2>1, <3>1, ResumedSound
  <2> QED
    BY <2>2, <2>3
<1> QED
  BY <1>1, <1>2, <1>3, StopIs

LEMMA StopStep ==
    ASSUME HostInv, app # "gone", NEW next \in Config \cup {None}, NEW by \in Caller \cup {None},
           Stop(next, by), UNCHANGED world
    PROVE  /\ waits' \in [Slot -> Seq(Call)]
           /\ ~world.late => Awaited(host', waits')
<1>1. Sound(host) /\ waits \in [Slot -> Seq(Call)]
  BY DEF HostInv, TypeOK
<1>2. Unhindered(next) \/ Waiting(next, by)
  BY <1>1, StopIs DEF Sound
<1>3. CASE Unhindered(next)
  <2>1. \A p \in Slot : ~world.late => waits[p] = <<>>
    BY <1>3, HostAssumption DEF HostInv, Awaited, Unhindered
  <2>2. host'.child = None \/ ~host'.stopping
    BY <1>1, <1>3, StopSound DEF Unhindered
  <2> QED
    BY <1>1, <1>3, <2>1, <2>2 DEF Unhindered, Awaited
<1>4. CASE Waiting(next, by)
  <2> DEFINE call == [next |-> next, by |-> by]
             w == Append(waits[host.child], call)
  <2>1. host.child \in Slot
    BY <1>1, <1>4 DEF Waiting, Sound, Host
  <2>2. call \in Call
    BY DEF Call
  <2> HIDE DEF call
  <2>3. w \in Seq(Call) /\ w # <<>>
    BY <1>1, <2>1, <2>2
  <2>4. waits' = [waits EXCEPT ![host.child] = w]
    BY <1>4 DEF Waiting, call
  <2>5. host'.child = host.child /\ host'.stopping
    BY <1>1, <1>4, StopBeginsIs DEF Waiting, Sound
  <2> HIDE DEF w
  <2> QED
    BY <1>1, <2>1, <2>3, <2>4, <2>5 DEF HostInv, Awaited
<1> QED
  BY <1>2, <1>3, <1>4

LEMMA ApplySettingsStep ==
    ASSUME HostInv, NEW c \in Config, NEW by \in Caller \cup {None}, ApplySettings(c, by)
    PROVE  HostInv'
<1>1. /\ Up /\ app # "gone" /\ Stop(c, by) /\ UNCHANGED <<world, boot, server, app>>
      /\ applies' = applies + 1 /\ applies < world.applies /\ saved' = c
  BY DEF ApplySettings
<1>2. Sound(host) /\ TypeOK
  BY <1>1 DEF HostInv
<1>3. Sound(host')
  BY <1>1, <1>2, StopSound
<1>4. waits' \in [Slot -> Seq(Call)] /\ (~world.late => Awaited(host', waits'))
  BY <1>1, StopStep
<1>5. applies' \in 0 .. world.applies
  <2>1. world.applies \in Nat
    BY <1>2, HostAssumption DEF TypeOK, World
  <2> QED
    BY <1>1, <1>2, <2>1 DEF TypeOK
<1> QED
  BY <1>1, <1>2, <1>3, <1>4, <1>5, UpStep DEF TypeOK

LEMMA ShutdownStep ==
    ASSUME HostInv, Shutdown
    PROVE  HostInv'
<1>1. app = "up" /\ Stop(None, None) /\ UNCHANGED <<world, boot, server, applies>>
  BY DEF Shutdown
<1>2. Sound(host) /\ TypeOK
  BY <1>1 DEF HostInv
<1>3. Sound(host')
  BY <1>1, <1>2, StopSound
<1>4. waits' \in [Slot -> Seq(Call)] /\ (~world.late => Awaited(host', waits'))
  BY <1>1, StopStep
<1>5. saved' \in Config /\ app' \in {"stopping", "closing"}
  <2>1. CASE host.child = None
    <3>1. Goes(<<[next |-> None]>>)
      BY <2>1 DEF Shutdown
    <3>2. app' = "closing" /\ ClearMaster
      BY <3>1 DEF Goes
    <3>3. saved' \in Config
      BY <1>2, <3>2 DEF ClearMaster, TypeOK, Config
    <3> QED
      BY <3>2, <3>3
  <2>2. CASE host.child # None
    BY <1>2, <2>2 DEF Shutdown, TypeOK
  <2> QED
    BY <2>1, <2>2
<1>6. CASE Up
  BY <1>1, <1>2, <1>3, <1>4, <1>5, <1>6, UpStep DEF TypeOK
<1>7. CASE ~Up
  <2>1. host.child = None /\ host.cfg = None /\ waits = NoCalls
    BY <1>7 DEF HostInv
  <2>2. host' = StopBegins(host) /\ waits' = NoCalls
    BY <1>1, <2>1 DEF Stop
  <2>3. host'.child = None /\ host'.cfg = None /\ host' \in Host
    BY <1>2, <2>1, <2>2, StopBeginsIs DEF Sound
  <2>4. TypeOK'
    BY <1>1, <1>2, <1>4, <1>5, <2>3 DEF TypeOK
  <2>5. Sound(host)'
    BY <1>1, <1>3 DEF Sound, Ticks, Gated, Fits, Tidy, Lone, Live
  <2>6. (~world.late => Awaited(host, waits))'
    BY <1>1, <1>4 DEF Awaited
  <2>7. (~Up)'
    BY <1>1, <1>7 DEF Up
  <2> QED
    BY <1>5, <2>2, <2>3, <2>4, <2>5, <2>6 DEF HostInv
<1> QED
  BY <1>6, <1>7

LEMMA RestartStep ==
    ASSUME HostInv, Restart
    PROVE  HostInv'
<1> DEFINE fired == [host EXCEPT !.timer = FALSE, !.timers = @ - 1]
<1>1. host.timers > 0 /\ Room(host) /\ UNCHANGED <<world, saved, boot, server, waits, applies, app>>
  BY DEF Restart
<1>2. Up /\ app \in {"up", "stopping", "closing"}
  BY <1>1, UnderWay
<1>3. TypeOK /\ Sound(host) /\ (~world.late => Awaited(host, waits))
  BY <1>2 DEF HostInv
<1>4. host \in Host /\ host.timers \in Nat /\ host.timer \in BOOLEAN
  BY <1>3 DEF Sound, Host
<1>5. /\ fired \in Host /\ ~fired.timer /\ fired.timers = host.timers - 1
      /\ fired.child = host.child /\ fired.cfg = host.cfg /\ fired.stopping = host.stopping
      /\ fired.proc = host.proc /\ fired.asked = host.asked
  <2> DEFINE left == host.timers - 1
  <2>1. left \in Nat
    BY <1>1, <1>4
  <2>2. fired = [host EXCEPT !.timer = FALSE, !.timers = left]
    BY <1>4 DEF Host
  <2> HIDE DEF left, fired
  <2>3. /\ fired \in Host /\ ~fired.timer /\ fired.timers = left
        /\ fired.child = host.child /\ fired.cfg = host.cfg /\ fired.stopping = host.stopping
        /\ fired.proc = host.proc /\ fired.asked = host.asked
    BY <1>4, <2>1, <2>2 DEF Host
  <2> QED
    BY <2>3 DEF left
<1>6. host' = IF host.stopping THEN fired ELSE Spawn(fired)
  BY DEF Restart
<1> HIDE DEF fired
<1>7. Sound(fired) /\ fired.cfg # None /\ Live(fired) = Live(host)
  <2>1. Live(fired) = Live(host)
    BY <1>5 DEF Live
  <2>2. Gated(fired) /\ fired.cfg # None
    BY <1>1, <1>3, <1>5, <2>1 DEF Sound, Gated
  <2>3. Tidy(fired) /\ Ticks(fired)
    BY <1>3, <1>5, <2>1 DEF Sound, Tidy, Ticks
  <2>4. ~world.late => Lone(fired)
    BY <1>1, <1>3, <1>4, <1>5, <2>1 DEF Sound, Lone
  <2> QED
    BY <1>5, <2>1, <2>2, <2>3, <2>4 DEF Sound
<1>8. Sound(host') /\ (~world.late => Awaited(host', waits))
  <2>1. CASE host.stopping
    BY <1>3, <1>5, <1>6, <1>7, <2>1 DEF Awaited
  <2>2. CASE ~host.stopping
    <3>1. Started(fired, host', fired.cfg) /\ ~host'.stopping
      BY <1>1, <1>5, <1>6, <1>7, <2>2, SpawnStarts DEF Room
    <3>2. fired.cfg \in Config /\ Fits(fired.cfg)
      BY <1>5, <1>7 DEF Host, Sound, Gated
    <3>3. ~world.late => fired.child = None
      BY <1>1, <1>3, <1>5 DEF Sound, Lone
    <3>4. Sound(host')
      BY <1>5, <1>7, <3>1, <3>2, <3>3, StartKeepsSound
    <3>5. ~world.late => \A p \in Slot : waits[p] = <<>>
      BY <1>3, <2>2 DEF Awaited
    <3> QED
      BY <3>1, <3>4, <3>5 DEF Awaited
  <2> QED
    BY <2>1, <2>2
<1> QED
  BY <1>1, <1>2, <1>3, <1>8, UpStep DEF TypeOK

LEMMA ForcedStep ==
    ASSUME HostInv, NEW p \in Slot, Forced(p)
    PROVE  HostInv'
<1>1. /\ waits[p] # <<>> /\ host.proc[p].st = "told" /\ host' = Kill(host, p)
      /\ UNCHANGED <<world, saved, boot, server, waits, applies, app>>
  BY DEF Forced
<1>2. Up /\ app \in {"up", "stopping", "closing"}
  BY <1>1, UnderWay
<1>3. TypeOK /\ Sound(host) /\ (~world.late => Awaited(host, waits))
  BY <1>2 DEF HostInv
<1>4. host \in Host /\ host' \in Host /\ host' = [host EXCEPT !.proc = Killed(host, p)]
  BY <1>1, <1>3, KillIs DEF Sound
<1>5. /\ host'.child = host.child /\ host'.cfg = host.cfg /\ host'.stopping = host.stopping
      /\ host'.timer = host.timer /\ host'.timers = host.timers /\ host'.asked = host.asked
      /\ host'.proc = Killed(host, p) /\ host.proc \in [Slot -> Process]
  BY <1>4 DEF Host
<1>6. ASSUME NEW q \in Slot
      PROVE  /\ host'.proc[q].cfg = host.proc[q].cfg /\ (host'.proc[q].st = "dead" <=> host.proc[q].st = "dead")
             /\ host'.proc[q].st = "running" => host.proc[q].st = "running"
  <2>1. host.proc[q] \in Process
    BY <1>5
  <2> QED
    BY <1>5, <2>1 DEF Killed, Process
<1>7. Live(host') = Live(host)
  BY <1>6 DEF Live
<1>8. Sound(host')
  <2>1. Gated(host')
    BY <1>3, <1>5, <1>6, <1>7 DEF Sound, Gated, Live
  <2>2. Tidy(host') /\ Ticks(host')
    BY <1>3, <1>5, <1>6, <1>7 DEF Sound, Tidy, Ticks, Live
  <2>3. ~world.late => Lone(host')
    BY <1>3, <1>5, <1>7 DEF Sound, Lone
  <2> QED
    BY <1>4, <2>1, <2>2, <2>3 DEF Sound
<1>9. ~world.late => Awaited(host', waits')
  BY <1>1, <1>3, <1>5 DEF Awaited
<1> QED
  BY <1>1, <1>2, <1>3, <1>8, <1>9, UpStep DEF TypeOK

\* Steps that change what the host says or is asked, and nothing else of it.
LEMMA TalkStep ==
    ASSUME HostInv, Up, app # "gone",
           UNCHANGED <<world, saved, boot, server, waits, applies, app>>, host' \in Host,
           host'.child = host.child, host'.cfg = host.cfg, host'.stopping = host.stopping,
           host'.timer = host.timer, host'.timers = host.timers, host'.proc = host.proc,
           \A r \in Req : host'.asked[r] # None => host'.asked[r] \in Live(host)
    PROVE  HostInv'
<1>1. TypeOK /\ Sound(host) /\ (~world.late => Awaited(host, waits)) /\ app \in {"up", "stopping", "closing"}
  BY DEF HostInv, TypeOK
<1>2. Live(host') = Live(host)
  BY DEF Live
<1>3. Sound(host')
  <2>1. Gated(host') /\ Ticks(host') /\ Tidy(host')
    BY <1>1, <1>2 DEF Sound, Gated, Ticks, Tidy
  <2>2. ~world.late => Lone(host')
    BY <1>1, <1>2 DEF Sound, Lone
  <2> QED
    BY <2>1, <2>2 DEF Sound
<1>4. ~world.late => Awaited(host', waits')
  BY <1>1 DEF Awaited
<1> QED
  BY <1>1, <1>3, <1>4, UpStep DEF TypeOK

LEMMA StatusStep ==
    ASSUME HostInv, NEW p \in Slot, NEW s \in State, Status(p, s)
    PROVE  HostInv'
<1>1. /\ p \in Live(host) /\ host' = [host EXCEPT !.state = s, !.told = s]
      /\ UNCHANGED <<world, saved, boot, server, waits, applies, app>>
  BY DEF Status, SetState, Live
<1>2. Up /\ app # "gone"
  BY <1>1, UnderWay
<1>3. Sound(host) /\ host \in Host
  BY <1>2 DEF HostInv, Sound
<1>4. /\ host' \in Host
      /\ host'.child = host.child /\ host'.cfg = host.cfg /\ host'.stopping = host.stopping
      /\ host'.timer = host.timer /\ host'.timers = host.timers /\ host'.proc = host.proc
      /\ host'.asked = host.asked
  BY <1>1, <1>3 DEF Host
<1> QED
  BY <1>1, <1>2, <1>3, <1>4, TalkStep DEF Sound, Tidy

LEMMA RequestStep ==
    ASSUME HostInv, NEW r \in Req, Request(r) \/ Settle(r)
    PROVE  HostInv'
<1> PICK to \in {host.child, None} :
        /\ host' = [host EXCEPT !.asked = [host.asked EXCEPT ![r] = to]]
        /\ UNCHANGED <<world, saved, boot, server, waits, applies, app>>
        /\ \/ to = host.child /\ host.child # None /\ app # "gone"
           \/ to = None /\ host.asked[r] # None
  BY DEF Request, Settle
<1>1. Up /\ app # "gone"
  BY UnderWay
<1>2. Sound(host) /\ host \in Host
  BY <1>1 DEF HostInv, Sound
<1>3. host.asked \in [Req -> Slot \cup {None}] /\ to \in Slot \cup {None}
  BY <1>2 DEF Host
<1>4. [host.asked EXCEPT ![r] = to] \in [Req -> Slot \cup {None}]
  BY <1>3
<1>5. /\ host' \in Host
      /\ host'.child = host.child /\ host'.cfg = host.cfg /\ host'.stopping = host.stopping
      /\ host'.timer = host.timer /\ host'.timers = host.timers /\ host'.proc = host.proc
      /\ host'.asked = [host.asked EXCEPT ![r] = to]
  BY <1>2, <1>4 DEF Host
<1>6. \A q \in Req : host'.asked[q] # None => host'.asked[q] \in Live(host)
  BY <1>2, <1>3, <1>5 DEF Sound, Tidy
<1> QED
  BY <1>1, <1>5, <1>6, TalkStep

\* A host that has done nothing yet.
LEMMA IdleIsSound == Idle \in Host /\ Sound(Idle) /\ Live(Idle) = {} /\ Awaited(Idle, NoCalls)
<1> DEFINE procs == [p \in Slot |-> Dead]
<1>1. procs \in [Slot -> Process] /\ \A p \in Slot : procs[p].st = "dead"
  BY DEF Process, Dead
<1>2. Unanswered \in [Req -> Slot \cup {None}] /\ \A r \in Req : Unanswered[r] = None
  BY DEF Unanswered
<1>3. Idle = [child |-> None, cfg |-> None, stopping |-> FALSE, timer |-> FALSE, timers |-> 0,
              state |-> "stopped", told |-> "stopped", proc |-> procs, asked |-> Unanswered]
  BY DEF Idle, Unanswered
<1> HIDE DEF procs, Unanswered
<1>4. Idle \in Host /\ Live(Idle) = {}
  BY <1>1, <1>2, <1>3 DEF Host, State, Live
<1>5. Ticks(Idle) /\ Gated(Idle) /\ Tidy(Idle) /\ Lone(Idle)
  BY <1>2, <1>3, <1>4 DEF Ticks, Gated, Tidy, Lone
<1>6. Awaited(Idle, NoCalls)
  BY <1>3 DEF Awaited, NoCalls
<1> QED
  BY <1>4, <1>5, <1>6 DEF Sound

LEMMA NoCallsType == NoCalls \in [Slot -> Seq(Call)]
BY DEF NoCalls

LEMMA CertReadyStep ==
    ASSUME HostInv, CertReady
    PROVE  HostInv'
<1>1. /\ ~Up /\ ~Up' /\ app # "gone" /\ UNCHANGED <<world, saved, host, waits, applies, app>>
      /\ boot' = [boot EXCEPT !.at = "listen"]
      /\ server' = [host |-> DesiredHost(saved), gate |-> Effective(saved).on]
  BY DEF CertReady, Up, HostInv, TypeOK, Boot
<1>2. TypeOK'
  <2>1. boot' \in Boot
    BY <1>1 DEF HostInv, TypeOK, Boot
  <2>2. server' \in Server
    BY <1>1 DEF HostInv, TypeOK, Server, DesiredHost, Effective, Config
  <2> QED
    BY <1>1, <2>1, <2>2 DEF HostInv, TypeOK
<1>3. Sound(host)'
  <2>1. Sound(host) /\ host.cfg = None
    BY <1>1 DEF HostInv
  <2> QED
    BY <1>1, <2>1 DEF Sound, Ticks, Gated, Tidy, Lone, Live
<1>4. (~world.late => Awaited(host, waits))'
  BY <1>1 DEF HostInv, Awaited
<1> QED
  BY <1>1, <1>2, <1>3, <1>4 DEF HostInv

LEMMA ListenFailsStep ==
    ASSUME HostInv, NEW taken \in BOOLEAN, ListenFails(taken)
    PROVE  HostInv'
<1>1. /\ ~Up /\ ~Up' /\ app # "gone" /\ UNCHANGED <<world, saved, server, host, waits, applies, app>>
      /\ boot' \in Boot
  BY DEF ListenFails, Up, HostInv, TypeOK, Boot
<1>2. TypeOK'
  BY <1>1 DEF HostInv, TypeOK
<1>3. Sound(host)'
  BY <1>1 DEF HostInv, Sound, Ticks, Gated, Fits, Tidy, Lone, Live
<1>4. (~world.late => Awaited(host, waits))'
  BY <1>1 DEF HostInv, Awaited
<1> QED
  BY <1>1, <1>2, <1>3, <1>4 DEF HostInv

LEMMA ListeningStep ==
    ASSUME HostInv, Listening
    PROVE  HostInv'
<1>1. /\ ~Up /\ app # "gone" /\ UNCHANGED <<world, saved, server, waits, applies, app>>
      /\ boot' = [boot EXCEPT !.at = "up"] /\ host' = Continue(host, saved)
  BY DEF Listening, Up
<1>2. /\ TypeOK /\ Sound(host) /\ host \in Host /\ saved \in Config
      /\ host.child = None /\ host.cfg = None /\ waits = NoCalls
  BY <1>1 DEF HostInv, TypeOK
<1>3. Live(host) = {} /\ host.timers = 0 /\ ~host.timer /\ Room(host)
  <2>1. Live(host) = {} /\ host.timers = 0
    BY <1>2 DEF Sound, Gated
  <2> QED
    BY <1>2, <2>1, HostAssumption DEF Sound, Ticks, Room
<1>4. Sound(host') /\ (host'.child = None \/ ~host'.stopping)
  <2>1. MayStart(host, host', {saved}) /\ {saved} \in SUBSET Config
    BY <1>1, <1>2, <1>3, ContinueIs
  <2> QED
    BY <1>2, <1>3, <2>1, ResumedSound
<1>5. Sound(host)'
  BY <1>1, <1>4 DEF Sound, Ticks, Gated, Fits, Tidy, Lone, Live
<1>6. (~world.late => Awaited(host, waits))'
  BY <1>1, <1>2, <1>4 DEF Awaited, NoCalls
<1>7. TypeOK' /\ Up'
  BY <1>1, <1>2, <1>4 DEF TypeOK, Boot, Up, Sound
<1> QED
  BY <1>1, <1>5, <1>6, <1>7 DEF HostInv

LEMMA LaunchStep ==
    ASSUME HostInv, Launch
    PROVE  HostInv'
<1>1. /\ app = "gone" /\ app' = "up" /\ ~Up' /\ UNCHANGED <<world, saved, waits, applies>>
      /\ boot' = [at |-> "cert", retry |-> FALSE, launch |-> boot.launch + 1]
      /\ server' = [host |-> "none", gate |-> FALSE] /\ host' = Idle
  BY DEF Launch, Up
<1>2. waits = NoCalls /\ TypeOK
  BY <1>1 DEF HostInv
<1>3. TypeOK'
  BY <1>1, <1>2, IdleIsSound DEF TypeOK, Boot, Server
<1>4. Sound(host)'
  BY <1>1, IdleIsSound DEF Sound, Ticks, Gated, Tidy, Lone, Live, Idle
<1>5. (~world.late => Awaited(host, waits))'
  BY <1>1, <1>2, IdleIsSound DEF Awaited
<1> QED
  BY <1>1, <1>2, <1>3, <1>4, <1>5 DEF HostInv, Idle

LEMMA LeaveStep ==
    ASSUME HostInv, Quit \/ QuitAgain
    PROVE  HostInv'
<1> DEFINE procs == [p \in Slot |-> Dead]
<1>1. /\ app' = "gone" /\ waits' = NoCalls /\ UNCHANGED <<world, saved, boot, server, applies>>
      /\ host' = [host EXCEPT !.proc = procs, !.asked = Unanswered, !.timers = 0, !.timer = FALSE]
  BY DEF Quit, QuitAgain, Leave, Unanswered
<1>2. procs \in [Slot -> Process] /\ \A p \in Slot : procs[p].st = "dead"
  BY DEF Process, Dead
<1>3. Unanswered \in [Req -> Slot \cup {None}]
  BY DEF Unanswered
<1>4. TypeOK
  BY DEF HostInv
<1> HIDE DEF procs, Unanswered
<1>5. /\ host' \in Host /\ host'.child = host.child /\ host'.cfg = host.cfg
      /\ host'.timers = 0 /\ host'.asked = Unanswered /\ host'.proc = procs
  BY <1>1, <1>2, <1>3, <1>4 DEF TypeOK, Host
<1>6. Live(host)' = {} /\ Unanswered' = Unanswered
  BY <1>2, <1>5 DEF Live, Unanswered
<1>7. TypeOK'
  BY <1>1, <1>4, <1>5, NoCallsType DEF TypeOK
<1>8. ~Up' => ~Up
  BY <1>1 DEF Up
<1> QED
  BY <1>1, <1>5, <1>6, <1>7, <1>8 DEF HostInv

-----------------------------------------------------------------------------
(* The steps of windows, tray and panel, as steps of the host *)

HostNext ==
    \/ CertReady \/ Listening \/ Launch \/ Shutdown \/ Restart \/ Quit \/ QuitAgain
    \/ \E taken \in BOOLEAN : ListenFails(taken)
    \/ \E c \in Config, by \in Caller \cup {None} : ApplySettings(c, by)
    \/ \E r \in Req : Request(r) \/ Settle(r)
    \/ \E p \in Slot : Exit(p) \/ Forced(p)
    \/ \E p \in Slot : \E s \in State : Status(p, s)
    \/ \E p \in Slot : \E i \in DOMAIN waits[p] : TimeUp(p, i)

LEMMA HostInvInit == Init => HostInv
<1> SUFFICES ASSUME Init PROVE HostInv
  OBVIOUS
<1>1. world \in World /\ saved \in Config
  BY HostAssumption DEF Init, World
<1>2. world.applies \in Nat
  BY <1>1 DEF World
<1>3. TypeOK
  BY <1>1, <1>2, IdleIsSound, NoCallsType DEF Init, TypeOK, Boot, Server
<1> QED
  BY <1>3, IdleIsSound DEF Init, HostInv, Up, Idle

LEMMA HostInvStutters == HostInv /\ UNCHANGED vars => HostInv'
<1> SUFFICES ASSUME HostInv, UNCHANGED vars PROVE HostInv'
  OBVIOUS
<1>1. TypeOK' /\ (Up' <=> Up)
  BY DEF HostInv, TypeOK, vars, Up
<1>2. app # "gone" => Sound(host)'
  BY DEF vars, HostInv, Sound, Ticks, Gated, Fits, Tidy, Lone, Live
<1>3. app # "gone" => (~world.late => Awaited(host, waits))'
  BY DEF vars, HostInv, Awaited
<1> QED
  BY <1>1, <1>2, <1>3 DEF vars, HostInv, Live

LEMMA HostInvSteps == HostInv /\ HostNext => HostInv'
BY CertReadyStep, ListeningStep, LaunchStep, ShutdownStep, RestartStep, LeaveStep, ListenFailsStep,
   ApplySettingsStep, RequestStep, ExitStep, ForcedStep, StatusStep, TimeUpStep
   DEF HostNext

(* A request finds a free slot: there are as many as there may be requests. *)
LEMMA FreeRequest ==
    ASSUME TypeOK, Cardinality(Pending) < world.requests
    PROVE  Req \ Pending # {}
<1>1. Cardinality(Pending) < world.requests /\ world.requests <= Cardinality(Req)
  BY HostAssumption DEF TypeOK
<1>2. Cardinality(Req) \in Nat /\ world.requests \in Nat
  BY HostAssumption, FS_CardinalityType DEF TypeOK, World
<1>3. Pending \subseteq Req
  BY DEF Pending
<1>4. Pending # Req
  BY <1>1, <1>2
<1> QED
  BY <1>3, <1>4

-----------------------------------------------------------------------------
(* Messages and answers *)

LEMMA FunctionIsSeq ==
    ASSUME NEW S, NEW n \in Nat, NEW f \in [1 .. n -> S]
    PROVE  f \in Seq(S)
OBVIOUS

(* The elements of a finite set in a sequence. *)
LEMMA SetToSeqType ==
    ASSUME NEW S, IsFiniteSet(S)
    PROVE  SetToSeq(S) \in Seq(S)
<1> DEFINE n == Cardinality(S)
<1>1. n \in Nat /\ ExistsBijection(1 .. n, S)
  BY FS_CardinalityType
<1>2. \E f \in [1 .. n -> S] : IsInjective(f)
  BY <1>1 DEF ExistsBijection, Bijection, Injection
<1>3. SetToSeq(S) \in [1 .. n -> S]
  BY <1>2 DEF SetToSeq
<1> HIDE DEF n
<1> QED
  BY <1>1, <1>3

(* Every rank up to the size of a set of numbers is the rank of one of them. *)
LEMMA Ranks ==
    ASSUME NEW n \in Nat, NEW S \in SUBSET (1 .. n), NEW j \in 1 .. Cardinality(S)
    PROVE  \E i \in S : Cardinality({k \in S : k <= i}) = j
<1> DEFINE upto(m) == {k \in S : k <= m}
           T == {m \in 1 .. n : Cardinality(upto(m)) >= j}
<1>1. IsFiniteSet(S) /\ \A m \in Nat : IsFiniteSet(upto(m)) /\ Cardinality(upto(m)) \in Nat
  <2>1. IsFiniteSet(1 .. n)
    BY FS_Interval
  <2>2. IsFiniteSet(S)
    BY <2>1, FS_Subset
  <2>3. ASSUME NEW m \in Nat PROVE IsFiniteSet(upto(m))
    BY <2>2, FS_Subset
  <2> QED
    BY <2>2, <2>3, FS_CardinalityType
<1>2. j \in Nat /\ j >= 1 /\ j <= Cardinality(S) /\ Cardinality(S) \in Nat
  BY <1>1, FS_CardinalityType
<1>3. S # {}
  BY <1>2, FS_EmptySet
<1>4. \A k \in S : k \in Nat /\ 1 <= k /\ k <= n
  OBVIOUS
<1>5. upto(n) = S /\ 1 <= n
  <2>1. upto(n) = S
    BY <1>4
  <2> PICK k \in S : TRUE
    BY <1>3
  <2>2. 1 <= n
    BY <1>4
  <2> QED
    BY <2>1, <2>2
<1>6. T # {} /\ T \in SUBSET Nat
  <2>1. n \in T
    BY <1>2, <1>5
  <2> QED
    BY <2>1
<1> HIDE DEF T
<1> PICK m \in T : \A o \in T : m <= o
  BY <1>6, LeastElement
<1>7. m \in Nat /\ 1 <= m /\ m <= n /\ Cardinality(upto(m)) >= j
  BY DEF T
<1> DEFINE l == m - 1
<1>8. l \in Nat /\ l < m /\ \A k \in Nat : k <= m <=> k <= l \/ k = m
  BY <1>7
<1>9. Cardinality(upto(l)) < j
  <2>1. CASE l = 0
    <3>0. \A k \in S : ~(k <= 0)
      BY <1>4
    <3> HIDE DEF l
    <3>1. upto(l) = {}
      BY <2>1, <3>0
    <3> QED
      BY <1>2, <3>1, FS_EmptySet
  <2>2. CASE l # 0
    <3>1. l \in 1 .. n /\ l \notin T
      BY <1>6, <1>7, <1>8, <2>2
    <3> HIDE DEF l
    <3>2. ~(Cardinality(upto(l)) >= j)
      BY <3>1 DEF T
    <3> HIDE DEF upto
    <3> QED
      BY <1>1, <1>2, <1>8, <3>2
  <2> QED
    BY <2>1, <2>2
<1> HIDE DEF l
<1>10. m \in S
  <2>1. m \notin S => upto(m) = upto(l)
    BY <1>4, <1>8
  <2> HIDE DEF upto
  <2> QED
    BY <1>1, <1>2, <1>7, <1>8, <1>9, <2>1
<1>11. upto(m) = upto(l) \cup {m} /\ m \notin upto(l)
  <2>1. \A k \in S : k <= m <=> k <= l \/ k = m
    BY <1>4, <1>8
  <2>2. ~(m <= l)
    BY <1>7, <1>8
  <2> QED
    BY <1>10, <2>1, <2>2
<1>12. Cardinality(upto(m)) = Cardinality(upto(l)) + 1
  BY <1>1, <1>8, <1>11, FS_AddElement
<1> HIDE DEF upto
<1>13. Cardinality(upto(m)) = j
  BY <1>1, <1>2, <1>7, <1>8, <1>9, <1>12
<1> QED
  BY <1>10, <1>13 DEF upto

LEMMA MessageParts ==
    ASSUME NEW m \in Message
    PROVE  /\ m.what = "status" => m.state \in State
           /\ m.what \in {"settings", "applied"} =>
                 m.cfg \in Config /\ m.state \in State /\ m.restart \in BOOLEAN
           /\ m.what = "applied" => m.by \in Caller
           /\ m.what \in {"list", "view", "share", "revoke", "force"} => m.got \in Code2State \cup {None}
<1>1. CASE m \in [what : {"status"}, state : State]
  BY <1>1
<1>2. CASE m \in Told("settings", Nat)
  BY <1>2 DEF Told
<1>3. CASE m \in Told("applied", Caller)
  BY <1>3 DEF Told
<1>4. CASE m \in [what : {"preview"}, by : Nat]
  BY <1>4
<1>5. CASE m \in Answers
  BY <1>5 DEF Answers
<1> QED
  BY <1>1, <1>2, <1>3, <1>4, <1>5 DEF Message

LEMMA SettingsToType ==
    ASSUME TypeOK, NEW by, NEW h \in Host, NEW c \in Config
    PROVE  /\ by \in Nat => SettingsTo("settings", by, h, c) \in Message
           /\ by \in Caller => SettingsTo("applied", by, h, c) \in Message
           /\ Effective(c) \in Config
<1>1. Effective(c) \in Config /\ h.state \in State /\ RestartRequired(c) \in BOOLEAN
  BY DEF Effective, Config, Host, RestartRequired
<1> QED
  BY <1>1 DEF SettingsTo, Message, Told

LEMMA ToPageType ==
    ASSUME wire \in Seq(Message), NEW msgs \in Seq(Message), ToPage(msgs)
    PROVE  wire' \in Seq(Message)
<1>1. wire \o msgs \in Seq(Message)
  OBVIOUS
<1> QED
  BY <1>1 DEF ToPage

-----------------------------------------------------------------------------
(* Types, and the requests under way *)

\* A request is for something as long as it waits for its answer.
AsksMatch == \A r \in Req : asks[r].what = "nothing" <=> host.asked[r] = None

\* The type invariant, less the part of the host.
DeskPart ==
    /\ window \in {"none", "loading", "live", "blank"}
    /\ wire \in Seq(Message) /\ asks \in [Req -> Ask] /\ subs \in [Relay -> Code2State]
    /\ tray \in Tray /\ panel \in Panel /\ masks \in Seq(BOOLEAN)
    /\ AsksMatch

DeskInv == HostInv /\ DeskPart

LEMMA DeskInvTypes == DeskInv => PanelTypeOK /\ TypeOK /\ world.panels \in Nat
BY HostAssumption DEF DeskInv, HostInv, DeskPart, PanelTypeOK, DeskTypeOK, TypeOK, World

LEMMA NothingType == Nothing \in Ask /\ Nothing.what = "nothing"
BY DEF Nothing, Ask

\* The requests the program makes, and those whose answers the page gets.
Wishes == {"list", "view", "share", "revoke", "force", "copy", "info"}

LEMMA AskedKeeps ==
    ASSUME DeskInv, NEW what \in Wishes, NEW by \in Nat, NEW code \in Code \cup {None}, Asked(what, by, code)
    PROVE  /\ asks' \in [Req -> Ask] /\ AsksMatch'
           /\ \E r \in Req \ Pending : Request(r) /\ asks'[r].what = what
<1>1. TypeOK /\ host \in Host /\ asks \in [Req -> Ask] /\ AsksMatch
  BY DEF DeskInv, HostInv, DeskPart, TypeOK
<1> DEFINE ask == [Nothing EXCEPT !.what = what, !.by = by, !.code = code]
<1>2. ask \in Ask /\ ask.what = what
  BY DEF Nothing, Ask, Wishes
<1>0. \E r \in Req \ Pending : Request(r) /\ asks' = [asks EXCEPT ![r] = ask]
  <2>1. Cardinality(Pending) < world.requests
    BY DEF Asked
  <2>2. Req \ Pending # {}
    BY <1>1, <2>1, FreeRequest
  <2> QED
    BY <2>2 DEF Asked
<1> HIDE DEF ask
<1> PICK r \in Req \ Pending : Request(r) /\ asks' = [asks EXCEPT ![r] = ask]
  BY <1>0
<1>3. /\ host.child # None /\ host' = [host EXCEPT !.asked = [host.asked EXCEPT ![r] = host.child]]
      /\ host.asked \in [Req -> Slot \cup {None}]
  BY <1>1 DEF Request, Host
<1>4. host'.asked = [host.asked EXCEPT ![r] = host.child]
  BY <1>1, <1>3 DEF Host
<1>5. AsksMatch'
  BY <1>1, <1>2, <1>3, <1>4 DEF AsksMatch, Wishes
<1> QED
  BY <1>1, <1>2, <1>5

\* Steps that leave the requests alone.
LEMMA RequestsStay ==
    ASSUME HostInv,
           \/ CertReady \/ Listening \/ Launch \/ Shutdown \/ Restart
           \/ \E taken \in BOOLEAN : ListenFails(taken)
           \/ \E c \in Config, by \in Caller \cup {None} : ApplySettings(c, by)
           \/ \E p \in Slot : Forced(p)
           \/ \E p \in Slot : \E s \in State : Status(p, s)
    PROVE  host'.asked = host.asked
<1>1. host \in Host
  BY DEF HostInv, TypeOK
<1>2. CASE CertReady \/ \E taken \in BOOLEAN : ListenFails(taken)
  BY <1>2 DEF CertReady, ListenFails
<1>3. CASE Listening
  <2>1. /\ host.child = None /\ Room(host) /\ saved \in Config /\ host' = Continue(host, saved)
    <3>1. Sound(host) /\ ~Up
      BY <1>3 DEF Listening, HostInv, Up
    <3>2. host.cfg = None /\ host.child = None
      BY <3>1 DEF HostInv
    <3> QED
      BY <1>3, <3>1, <3>2, HostAssumption DEF Listening, HostInv, TypeOK, Sound, Gated, Room
  <2> QED
    BY <1>1, <2>1, ContinueIs DEF MayStart, Started
<1>4. CASE Launch
  BY <1>4 DEF Launch, HostInv, Idle, Unanswered
<1>5. ASSUME app # "gone", NEW next \in Config \cup {None}, NEW by, Stop(next, by)
      PROVE  host'.asked = host.asked
  <2>1. Sound(host) /\ Ticks(host) /\ StopBegins(host).asked = host.asked
    BY <1>1, <1>5, StopBeginsIs DEF HostInv, Sound
  <2> QED
    BY <1>1, <1>5, <2>1, StopIs DEF Unhindered, Waiting, MayStart, Started
<1>6. CASE Shutdown
  BY <1>5, <1>6 DEF Shutdown
<1>7. ASSUME NEW c \in Config, NEW by \in Caller \cup {None}, ApplySettings(c, by) PROVE host'.asked = host.asked
  BY <1>5, <1>7 DEF ApplySettings
<1>8. CASE Restart
  <2> DEFINE fired == [host EXCEPT !.timer = FALSE, !.timers = @ - 1]
  <2>1. host.timers \in Nat /\ host.timers > 0
    BY <1>1, <1>8 DEF Host, Restart
  <2>2. host.timers - 1 \in Nat
    BY <2>1
  <2>3. fired \in Host /\ fired.asked = host.asked /\ fired.proc = host.proc
    BY <1>1, <2>2 DEF Host
  <2> HIDE DEF fired
  <2>4. Room(fired)
    BY <1>8, <2>3 DEF Restart, Room, Live
  <2>5. host' = IF host.stopping THEN fired ELSE Spawn(fired)
    BY <1>8 DEF Restart, fired
  <2> QED
    BY <2>3, <2>4, <2>5, SpawnStarts DEF Started
<1>9. ASSUME NEW p \in Slot, Forced(p) PROVE host'.asked = host.asked
  BY <1>1, <1>9, KillIs DEF Forced, Host
<1>10. ASSUME NEW p \in Slot, NEW s \in State, Status(p, s) PROVE host'.asked = host.asked
  BY <1>1, <1>10 DEF Status, SetState, Host
<1> QED
  BY <1>2, <1>3, <1>4, <1>6, <1>7, <1>8, <1>9, <1>10

LEMMA AnswerType ==
    ASSUME asks \in [Req -> Ask], NEW r \in Req, asks[r].what \notin {"nothing", "copy", "info"},
           NEW ok \in BOOLEAN
    PROVE  Answer(r, ok) \in Answers /\ Answer(r, ok).what = asks[r].what
<1> PICK ask \in Ask : ask = asks[r]
  OBVIOUS
<1>1. (IF ok THEN ask.got ELSE None) \in Code2State \cup {None}
  BY DEF Ask
<1> QED
  BY <1>1 DEF Answer, Answers, Ask

LEMMA LinkType ==
    ASSUME tray \in Tray, NEW ok \in BOOLEAN
    PROVE  Link(ok) \in Info
BY DEF Link, Info, Tray

LEMMA MenuType ==
    ASSUME NEW h, NEW c, NEW menu \in {"none", "off", "conn", "on"}
    PROVE  Rebuilt(menu, h, c) \in {"none", "off", "conn", "on"} /\ Summary(h, c) \in {"off", "conn", "on"}
BY DEF Rebuilt, Summary

\* What ends without an answer: the page is told of all that was its own.
Failed == {Answer(r, FALSE) : r \in ForPage(Dropped)}
Infos == {r \in Dropped : asks[r].what = "info"}

LEMMA FailedType ==
    ASSUME DeskInv
    PROVE  /\ SetToSeq(Failed) \in Seq(Failed) /\ Failed \subseteq Answers
           /\ Cardinality(Infos) \in Nat /\ (Infos # {} => Cardinality(Infos) # 0)
<1>1. Dropped \subseteq Pending /\ Pending \subseteq Req
  BY DEF Dropped, Pending
<1>2. IsFiniteSet(ForPage(Dropped)) /\ IsFiniteSet(Infos)
  BY <1>1, HostAssumption, FS_Subset DEF ForPage, Infos
<1>3. IsFiniteSet(Failed)
  <2> DEFINE f == [r \in ForPage(Dropped) |-> Answer(r, FALSE)]
  <2>1. f \in Surjection(ForPage(Dropped), Failed)
    BY DEF Failed, Surjection
  <2> QED
    BY <1>2, <2>1, FS_Surjection
<1>4. ASSUME NEW r \in ForPage(Dropped) PROVE Answer(r, FALSE) \in Answers
  <2>1. r \in Req /\ asks[r].what \notin {"copy", "info"}
    BY <1>1 DEF ForPage
  <2>2. asks[r].what # "nothing"
    BY <1>1 DEF ForPage, Pending, DeskInv, DeskPart, AsksMatch
  <2> QED
    BY <2>1, <2>2, AnswerType DEF DeskInv, DeskPart
<1> QED
  BY <1>2, <1>3, <1>4, SetToSeqType, FS_CardinalityType, FS_EmptySet DEF Failed

LEMMA EndsUnansweredType ==
    ASSUME DeskInv, NEW first \in Seq(Message), NEW last \in Seq(Message),
           host'.asked = Unanswered, EndsUnanswered(first, last)
    PROVE  /\ wire' \in Seq(Message) /\ asks' \in [Req -> Ask] /\ tray' \in Tray /\ AsksMatch'
           /\ \A r \in Req : asks'[r].what = "nothing"
<1>1. /\ wire \in Seq(Message) /\ asks \in [Req -> Ask] /\ tray \in Tray /\ AsksMatch
  BY DEF DeskInv, DeskPart
<1>2. SetToSeq(Failed) \in Seq(Message) /\ Cardinality(Infos) \in Nat
  BY FailedType DEF Message
<1>3. ToPage(first \o SetToSeq(Failed) \o last)
  BY DEF EndsUnanswered, Failed
<1>4. wire' \in Seq(Message)
  <2> DEFINE failed == SetToSeq(Failed)
             both == first \o failed
  <2>1. both \in Seq(Message)
    BY <1>2
  <2> HIDE DEF both
  <2>2. both \o last \in Seq(Message)
    BY <2>1
  <2> QED
    BY <1>1, <1>3, <2>2, ToPageType DEF both
<1>5. asks' = [r \in Req |-> IF r \in Dropped THEN Nothing ELSE asks[r]]
  BY DEF EndsUnanswered
<1>6. \A r \in Req : r \notin Dropped => asks[r].what = "nothing"
  BY <1>1 DEF Dropped, Pending, Unanswered, AsksMatch
<1>8. asks' \in [Req -> Ask] /\ \A r \in Req : asks'[r].what = "nothing"
  BY <1>1, <1>5, <1>6, NothingType
<1>9. AsksMatch'
  BY <1>8 DEF AsksMatch, Unanswered
<1>7. tray' \in Tray
  <2> DEFINE links == [i \in 1 .. Cardinality(Infos) |-> Link(FALSE)]
             menu == IF first = <<>> THEN tray.menu ELSE Rebuilt(tray.menu, host', saved)
  <2>1. links \in Seq(Info)
    <3>1. Link(FALSE) \in Info
      BY <1>1, LinkType
    <3>2. links \in [1 .. Cardinality(Infos) -> Info]
      BY <3>1
    <3> QED
      BY <1>2, <3>2, FunctionIsSeq
  <2>2. menu \in {"none", "off", "conn", "on"}
    BY <1>1, MenuType DEF Tray
  <2>3. tray' = [tray EXCEPT !.menu = menu, !.shows = tray.shows \o links]
    BY <1>1 DEF EndsUnanswered, Infos, Tray
  <2> HIDE DEF links, menu
  <2>4. tray.shows \o links \in Seq(Info)
    BY <1>1, <2>1 DEF Tray
  <2> QED
    BY <1>1, <2>2, <2>3, <2>4 DEF Tray
<1> QED
  BY <1>4, <1>7, <1>8, <1>9

\* The callers' answers: one for every panel, with the host as it is when its
\* call goes on.
LEMMA RepliesIn ==
    ASSUME NEW left, NEW calls \in Seq(Call), NEW M,
           \A i \in DOMAIN calls : \A by \in Caller :
              SettingsTo("applied", by, Resumed(left, SubSeq(calls, 1, i)), saved) \in M
    PROVE  Replies(calls, left) \in Seq(M)
<1> DEFINE panels == {i \in DOMAIN calls : calls[i].by # None}
           nth(j) == CHOOSE i \in panels : Cardinality({k \in panels : k <= i}) = j
           reply(i) == SettingsTo("applied", calls[i].by, Resumed(left, SubSeq(calls, 1, i)), saved)
<1>1. Len(calls) \in Nat /\ panels \in SUBSET (1 .. Len(calls))
  OBVIOUS
<1>2. Cardinality(panels) \in Nat
  <2>1. IsFiniteSet(panels)
    BY <1>1, FS_Interval, FS_Subset
  <2> QED
    BY <2>1, FS_CardinalityType
<1>3. ASSUME NEW i \in panels PROVE reply(i) \in M
  <2>1. calls[i] \in Call /\ calls[i].by # None
    OBVIOUS
  <2>2. calls[i].by \in Caller
    BY <2>1 DEF Call
  <2> QED
    BY <2>2
<1>4. ASSUME NEW j \in 1 .. Cardinality(panels) PROVE reply(nth(j)) \in M
  <2> HIDE DEF panels
  <2>1. \E i \in panels : Cardinality({k \in panels : k <= i}) = j
    BY <1>1, Ranks
  <2>2. nth(j) \in panels
    BY <2>1
  <2> HIDE DEF nth, reply
  <2> QED
    BY <1>3, <2>2
<1>5. Replies(calls, left) = [j \in 1 .. Cardinality(panels) |-> reply(nth(j))]
  BY DEF Replies
<1> HIDE DEF panels, nth, reply
<1>6. Replies(calls, left) \in [1 .. Cardinality(panels) -> M]
  BY <1>4, <1>5
<1> QED
  BY <1>2, <1>6, FunctionIsSeq

LEMMA ResumedHost ==
    ASSUME NEW left \in Host, Room(left), left.child = None, NEW calls \in Seq(Call), NEW i \in DOMAIN calls
    PROVE  /\ Resumed(left, SubSeq(calls, 1, i)) \in Host
           /\ \E cs : MayStart(left, Resumed(left, SubSeq(calls, 1, i)), cs)
<1>1. SubSeq(calls, 1, i) \in Seq(Call)
  OBVIOUS
<1>2. MayStart(left, Resumed(left, SubSeq(calls, 1, i)), Nexts(SubSeq(calls, 1, i)))
  BY <1>1, ResumedIs
<1> QED
  BY <1>2 DEF MayStart, Started

LEMMA RepliesType ==
    ASSUME TypeOK, NEW left \in Host, Room(left), left.child = None, NEW calls \in Seq(Call)
    PROVE  Replies(calls, left) \in Seq(Message)
<1>1. ASSUME NEW i \in DOMAIN calls, NEW by \in Caller
      PROVE  SettingsTo("applied", by, Resumed(left, SubSeq(calls, 1, i)), saved) \in Message
  BY ResumedHost, SettingsToType DEF TypeOK
<1> QED
  BY <1>1, RepliesIn

\* Nobody is asked after a child has exited or the time of a stop() is up.
LEMMA NobodyAsked ==
    ASSUME HostInv, NEW p \in Slot, Exit(p) \/ \E i \in DOMAIN waits[p] : TimeUp(p, i)
    PROVE  host'.asked = Unanswered
<1>1. waits[p] \in Seq(Call) /\ host \in Host
  BY DEF HostInv, TypeOK
<1>2. ASSUME NEW h \in Host, NEW calls \in Seq(Call), Room(h), h.child = None
      PROVE  Resumed(h, calls).asked = h.asked
  BY <1>2, ResumedIs DEF MayStart, Started
<1>3. CASE Exit(p)
  <2> DEFINE left == AllEnd(ExitHandler(host, p), p)
  <2>1. p \in Live(host) /\ host' = Resumed(left, waits[p])
    BY <1>3 DEF Exit
  <2>2. Sound(host)
    BY <2>1, UnderWay DEF HostInv
  <2>3. left \in Host /\ left.child = None /\ Room(left) /\ left.asked = Unanswered
    BY <1>1, <2>1, <2>2, ExitKeepsSound, ExitLeaves DEF Sound
  <2> HIDE DEF left
  <2> QED
    BY <1>1, <1>2, <2>1, <2>3
<1>4. ASSUME NEW i \in DOMAIN waits[p], TimeUp(p, i) PROVE host'.asked = Unanswered
  <2> DEFINE left == StopEnds(host, p)
             call == <<waits[p][i]>>
  <2>1. host' = Resumed(left, call) /\ Room(host) /\ call \in Seq(Call)
    BY <1>1, <1>4 DEF TimeUp
  <2>2. left \in Host /\ left.child = None /\ left.asked = Unanswered /\ left.proc = Killed(host, p)
    BY <1>1, StopEndsIs
  <2> HIDE DEF left, call
  <2>3. Room(left)
    BY <1>1, <2>1, <2>2 DEF Room, Live, Killed, Host, Process
  <2> QED
    BY <1>2, <2>1, <2>2, <2>3
<1> QED
  BY <1>3, <1>4

LEMMA ExitToldTypes ==
    ASSUME DeskInv, NEW p \in Slot, ExitTold(p)
    PROVE  /\ wire' \in Seq(Message) /\ asks' \in [Req -> Ask] /\ tray' \in Tray /\ AsksMatch'
           /\ \A r \in Req : asks'[r].what = "nothing"
<1> DEFINE e == ExitHandler(host, p)
           first == <<StatusTo(e.told)>>
           last == Replies(waits[p], AllEnd(e, p))
<1>1. Exit(p) /\ EndsUnanswered(first, last)
  BY DEF ExitTold
<1>2. p \in Live(host) /\ TypeOK /\ HostInv /\ host \in Host /\ waits[p] \in Seq(Call)
  BY <1>1 DEF Exit, DeskInv, HostInv, TypeOK
<1>3. Sound(host)
  BY <1>2, UnderWay DEF HostInv
<1>4. e \in Host /\ AllEnd(e, p) \in Host /\ AllEnd(e, p).child = None /\ Room(AllEnd(e, p))
  BY <1>2, <1>3, ExitLeaves, ExitKeepsSound
<1> HIDE DEF e
<1>5. StatusTo(e.told) \in Message
  BY <1>4 DEF StatusTo, Message, Host
<1>6. first \in Seq(Message) /\ last \in Seq(Message)
  BY <1>2, <1>4, <1>5, RepliesType
<1>7. host'.asked = Unanswered
  BY <1>1, <1>2, NobodyAsked
<1> HIDE DEF first, last
<1> QED
  BY <1>1, <1>6, <1>7, EndsUnansweredType

LEMMA TimeUpToldTypes ==
    ASSUME DeskInv, NEW p \in Slot, NEW i \in DOMAIN waits[p], TimeUpTold(p, i)
    PROVE  /\ wire' \in Seq(Message) /\ asks' \in [Req -> Ask] /\ tray' \in Tray /\ AsksMatch'
           /\ \A r \in Req : asks'[r].what = "nothing"
<1> DEFINE left == StopEnds(host, p)
           call == <<waits[p][i]>>
           last == Replies(call, left)
<1>1. TimeUp(p, i) /\ EndsUnanswered(<<>>, last)
  BY DEF TimeUpTold
<1>2. TypeOK /\ HostInv /\ host \in Host /\ waits[p] \in Seq(Call)
  BY DEF DeskInv, HostInv, TypeOK
<1>3. call \in Seq(Call)
  BY <1>2
<1>4. left \in Host /\ left.child = None /\ left.proc = Killed(host, p)
  BY <1>2, StopEndsIs
<1> HIDE DEF left, call
<1>5. Room(left)
  BY <1>1, <1>2, <1>4 DEF Room, Live, Killed, TimeUp, Host, Process
<1>6. last \in Seq(Message)
  BY <1>2, <1>3, <1>4, <1>5, RepliesType
<1>7. host'.asked = Unanswered
  BY <1>1, <1>2, NobodyAsked
<1> HIDE DEF last
<1>8. <<>> \in Seq(Message)
  OBVIOUS
<1> QED
  BY <1>1, <1>6, <1>7, <1>8, EndsUnansweredType

-----------------------------------------------------------------------------
(* The type invariant, and every step a step of the host *)

\* What a step outside the host keeps of the type invariant.
LEMMA PanelStays == panel' = panel /\ world' = world /\ panel \in Panel => panel' \in Panel'
BY DEF Panel

LEMMA ConflictType ==
    ASSUME NEW p \in Panel, NEW s
    PROVE  RenderConflict(p, s) \in Panel
<1>1. (p.open /\ s \in {"occupied", "parked"}) \in BOOLEAN
  OBVIOUS
<1> QED
  BY <1>1 DEF RenderConflict, Panel

LEMMA NewType ==
    ASSUME DeskInv, NEW id \in 0 .. world.panels, NEW open \in BOOLEAN
    PROVE  New(id, open) \in Panel
<1>1. Relay # {}
  BY DEF DeskInv, HostInv, TypeOK, Config
<1>2. Blank \in Config
  BY <1>1 DEF Blank, Config
<1>3. NoCodes \in Code2State
  BY DEF NoCodes, Code2State
<1> QED
  BY <1>2, <1>3 DEF New, Panel

\* What a step may do to the requests and to what is on the wire.
Talks ==
    /\ HostNext \/ UNCHANGED vars
    /\ wire' \in Seq(Message) /\ asks' \in [Req -> Ask] /\ AsksMatch'

LEMMA RefreshTalks ==
    ASSUME DeskInv, wire # <<>>, RefreshSubcodes
    PROVE  Talks
<1>1. /\ wire \in Seq(Message) /\ panel \in Panel /\ asks \in [Req -> Ask] /\ AsksMatch
  BY DEF DeskInv, DeskPart
<1>2. panel.id \in Nat /\ Tail(wire) \in Seq(Message)
  BY <1>1, DeskInvTypes DEF Panel
<1>3. CASE Asked("list", panel.id, None) /\ wire' = Tail(wire)
  BY <1>2, <1>3, AskedKeeps DEF Talks, HostNext, Wishes
<1>4. CASE UNCHANGED <<vars, asks>> /\ wire' = Tail(wire)
  BY <1>1, <1>2, <1>4 DEF Talks, AsksMatch, vars
<1>5. CASE UNCHANGED <<vars, asks>> /\
           wire' = Append(Tail(wire), [what |-> "list", by |-> panel.id, code |-> None, got |-> None])
  <2> DEFINE m == [what |-> "list", by |-> panel.id, code |-> None, got |-> None]
  <2>1. m \in Message
    BY <1>2 DEF Message, Answers
  <2> HIDE DEF m
  <2>2. Append(Tail(wire), m) \in Seq(Message)
    BY <1>2, <2>1
  <2> QED
    BY <1>1, <1>5, <2>2 DEF Talks, AsksMatch, vars, m
<1> QED
  BY <1>3, <1>4, <1>5 DEF RefreshSubcodes

\* And to the rest.
Rest ==
    /\ window' \in {"none", "loading", "live", "blank"} /\ subs' \in [Relay -> Code2State]
    /\ tray' \in Tray /\ panel' \in Panel /\ masks' \in Seq(BOOLEAN)

LEMMA MessageStep ==
    ASSUME DeskInv, Messages
    PROVE  Talks /\ Rest
<1> SUFFICES Talks /\ panel' \in Panel /\ masks' \in Seq(BOOLEAN) /\ UNCHANGED <<window, subs, tray>>
  BY DEF Rest, DeskInv, DeskPart
<1>1. /\ wire \in Seq(Message) /\ panel \in Panel /\ masks \in Seq(BOOLEAN)
      /\ asks \in [Req -> Ask] /\ AsksMatch /\ panel.form \in Config
  BY DEF DeskInv, DeskPart, Panel
<1>2. wire # <<>> /\ UNCHANGED <<window, subs, tray>>
  BY DEF Messages, OnStatus, OnSettings, OnApplied, OnPreview, OnListed, OnDone, OnView, OnForced, Takes
<1>3. Tail(wire) \in Seq(Message)
  BY <1>1, <1>2
<1> PICK m \in Message : m = Head(wire)
  BY <1>1, <1>2
<1>4. wire' = Tail(wire) /\ UNCHANGED <<vars, asks>> => Talks
  BY <1>1, <1>3 DEF Talks, AsksMatch, vars
<1>5. CASE OnStatus
  <2>1. m.state \in State /\ wire' = Tail(wire) /\ UNCHANGED <<vars, asks, masks>>
    BY <1>5, MessageParts DEF OnStatus, Takes
  <2>2. [panel EXCEPT !.state = m.state] \in Panel
    BY <1>1, <2>1 DEF Panel
  <2> QED
    BY <1>1, <1>2, <1>4, <1>5, <2>1, <2>2, ConflictType DEF OnStatus
<1>6. CASE OnSettings
  <2>1. m.cfg \in Config /\ m.state \in State /\ m.restart \in BOOLEAN
    BY <1>6, MessageParts DEF OnSettings, Takes
  <2>2. [panel EXCEPT !.form = m.cfg, !.state = m.state, !.restart = m.restart] \in Panel
    BY <1>1, <2>1 DEF Panel
  <2> QED
    BY <1>1, <1>2, <1>4, <1>6, <2>2, ConflictType DEF OnSettings
<1>7. CASE OnApplied
  <2>1. m.cfg \in Config /\ m.state \in State /\ m.restart \in BOOLEAN
    BY <1>7, MessageParts DEF OnApplied, Takes
  <2>2. [panel EXCEPT !.state = m.state, !.restart = m.restart] \in Panel
    BY <1>1, <2>1 DEF Panel
  <2> DEFINE form == [m.cfg EXCEPT !.lan = panel.form.lan, !.clear = panel.form.clear]
  <2>3. form \in Config
    BY <1>1, <2>1 DEF Config
  <2> HIDE DEF form
  <2>4. [panel EXCEPT !.form = form, !.state = m.state, !.text = None, !.offered = FALSE] \in Panel
    BY <1>1, <2>1, <2>3 DEF Panel
  <2>5. panel' \in Panel
    BY <1>1, <1>7, <2>2, <2>4, ConflictType DEF OnApplied, form
  <2> QED
    BY <1>1, <1>2, <1>7, <2>5, RefreshTalks DEF OnApplied
<1>8. CASE OnPreview
  <2>1. [panel EXCEPT !.offered = TRUE] \in Panel
    BY <1>1 DEF Panel
  <2> QED
    BY <1>1, <1>2, <1>4, <1>8, <2>1 DEF OnPreview
<1>9. CASE OnListed
  <2>1. (IF m.got = None THEN NoCodes ELSE m.got) \in Code2State
    BY <1>9, MessageParts DEF OnListed, Takes, NoCodes, Code2State
  <2>2. [panel EXCEPT !.list = IF m.got = None THEN NoCodes ELSE m.got] \in Panel
    BY <1>1, <2>1 DEF Panel
  <2> QED
    BY <1>1, <1>2, <1>4, <1>9, <2>2 DEF OnListed
<1>10. CASE OnDone
  <2>1. [panel EXCEPT !.link = TRUE] \in Panel
    BY <1>1 DEF Panel
  <2> QED
    BY <1>1, <1>2, <1>4, <1>10, <2>1, RefreshTalks DEF OnDone
<1>11. CASE OnView
  <2>1. (m.got # None /\ m.got[m.code] = "live") \in BOOLEAN
    OBVIOUS
  <2> QED
    BY <1>1, <1>2, <1>4, <1>11, <2>1 DEF OnView
<1>12. CASE OnForced
  BY <1>1, <1>2, <1>4, <1>12 DEF OnForced
<1> QED
  BY <1>5, <1>6, <1>7, <1>8, <1>9, <1>10, <1>11, <1>12 DEF Messages

LEMMA DeskStays ==
    ASSUME DeskInv
    PROVE  /\ UNCHANGED <<vars, wire, asks>> => Talks
           /\ UNCHANGED <<window, subs, tray, panel, masks>> => Rest
BY DEF DeskInv, DeskPart, Talks, Rest, AsksMatch, vars

\* A request, and nothing on the wire.
LEMMA AskTalks ==
    ASSUME DeskInv, NEW what \in Wishes, NEW by \in Nat, NEW code \in Code \cup {None}, Asked(what, by, code),
           wire' \in Seq(Message)
    PROVE  Talks
BY AskedKeeps DEF Talks, HostNext

LEMMA AppliedTalks ==
    ASSUME DeskInv, NEW c \in Config, NEW by \in Caller \cup {None}, ApplySettings(c, by), UNCHANGED asks,
           wire' = wire \/ Applied(c, by)
    PROVE  Talks
<1>1. HostNext /\ host'.asked = host.asked
  BY RequestsStay DEF HostNext, DeskInv
<1>2. host' \in Host /\ saved' \in Config /\ HostInv'
  BY <1>1, HostInvSteps DEF DeskInv, HostInv, TypeOK
<1>3. wire' \in Seq(Message)
  <2>1. CASE wire' = wire
    BY <2>1 DEF DeskInv, DeskPart
  <2>2. CASE Applied(c, by)
    <3>1. CASE waits' # waits \/ by = None
      <4>1. ToPage(<<>>) /\ <<>> \in Seq(Message)
        BY <2>2, <3>1 DEF Applied
      <4> QED
        BY <4>1, ToPageType DEF DeskInv, DeskPart
    <3>2. CASE ~(waits' # waits \/ by = None)
      <4> DEFINE m == SettingsTo("applied", by, host', saved')
      <4>1. m \in Message
        BY <1>2, <3>2, SettingsToType DEF DeskInv, HostInv
      <4>2. ToPage(<<m>>)
        BY <2>2, <3>2 DEF Applied
      <4> HIDE DEF m
      <4>3. <<m>> \in Seq(Message)
        BY <4>1
      <4> QED
        BY <4>2, <4>3, ToPageType DEF DeskInv, DeskPart
    <3> QED
      BY <3>1, <3>2
  <2> QED
    BY <2>1, <2>2
<1> QED
  BY <1>1, <1>3 DEF Talks, DeskInv, DeskPart, AsksMatch

LEMMA OpenRelaySettingsStep ==
    ASSUME DeskInv, OpenRelaySettings
    PROVE  Talks /\ Rest
<1> DEFINE id == panel.id + 1
           filling == SettingsTo("settings", id, host, saved)
           m == [what |-> "list", by |-> id, code |-> None, got |-> None]
<1>1. /\ panel \in Panel /\ wire \in Seq(Message) /\ TypeOK /\ world.panels \in Nat
      /\ asks \in [Req -> Ask] /\ AsksMatch
  BY DeskInvTypes DEF DeskInv, DeskPart
<1>2. id \in 0 .. world.panels /\ id \in Nat
  BY <1>1 DEF OpenRelaySettings, Panel
<1>3. filling \in Message /\ m \in Message
  <2>1. m \in Message
    BY <1>2 DEF Message, Answers
  <2> QED
    BY <1>1, <1>2, <2>1, SettingsToType DEF TypeOK
<1>4. panel' \in Panel /\ UNCHANGED <<window, subs, tray, masks>>
  BY <1>2, NewType DEF OpenRelaySettings
<1>5. Rest
  BY <1>4 DEF Rest, DeskInv, DeskPart
<1>6. <<filling>> \in Seq(Message) /\ Append(<<filling>>, m) \in Seq(Message)
  <2> HIDE DEF filling, m
  <2> QED
    BY <1>3
<1>7. wire' \in Seq(Message)
  <2>1. ToPage(<<filling>>) \/ ToPage(Append(<<filling>>, m))
    BY DEF OpenRelaySettings
  <2> HIDE DEF filling, m
  <2> QED
    BY <1>1, <1>6, <2>1, ToPageType
<1>8. UNCHANGED <<vars, asks>> \/ Asked("list", id, None)
  BY DEF OpenRelaySettings
<1>9. CASE UNCHANGED <<vars, asks>>
  BY <1>1, <1>5, <1>7, <1>9 DEF Talks, AsksMatch, vars
<1>10. CASE Asked("list", id, None)
  BY <1>2, <1>5, <1>7, <1>10, AskTalks DEF Wishes
<1> QED
  BY <1>8, <1>9, <1>10

LEMMA UserStep ==
    ASSUME DeskInv, User
    PROVE  Talks /\ Rest
<1>1. /\ panel \in Panel /\ wire \in Seq(Message) /\ TypeOK /\ masks \in Seq(BOOLEAN)
      /\ asks \in [Req -> Ask] /\ AsksMatch /\ panel.form \in Config
      /\ panel.id \in 0 .. world.panels /\ panel.id \in Nat /\ saved \in Config
      /\ world.configs \subseteq Config
  <2>1. world \in World /\ world.panels \in Nat
    BY DeskInvTypes, HostAssumption DEF TypeOK
  <2> QED
    BY <2>1, DeskInvTypes DEF DeskInv, DeskPart, Panel, World, TypeOK
<1>0. New(panel.id, FALSE) \in Panel /\ <<>> \in Seq(BOOLEAN) /\ <<>> \in Seq(Message)
  <2>1. FALSE \in BOOLEAN
    OBVIOUS
  <2>2. New(panel.id, FALSE) \in Panel
    BY <1>1, <2>1, NewType
  <2>3. <<>> \in Seq(BOOLEAN)
    BY EmptySeq
  <2>4. <<>> \in Seq(Message)
    OBVIOUS
  <2> QED
    BY <2>2, <2>3, <2>4
<1>2. CASE OpenRelaySettings
  BY <1>2, OpenRelaySettingsStep
<1>3. CASE ClosePanel
  <2>1. panel' \in Panel /\ masks' \in Seq(BOOLEAN) /\ UNCHANGED <<vars, deskVars>>
    BY <1>0, <1>3 DEF ClosePanel
  <2> QED
    BY <2>1, DeskStays DEF Rest, DeskInv, DeskPart, deskVars
<1>4. CASE CloseWindow
  <2>1. /\ panel' \in Panel /\ masks' \in Seq(BOOLEAN) /\ wire' \in Seq(Message) /\ window' = "none"
        /\ UNCHANGED <<vars, asks, subs, tray>>
    BY <1>0, <1>4 DEF CloseWindow
  <2> QED
    BY <1>1, <2>1 DEF Talks, Rest, DeskInv, DeskPart, AsksMatch, vars
<1>5. ASSUME NEW c \in world.configs, Edit(c) PROVE Talks /\ Rest
  <2>1. [panel EXCEPT !.form = c] \in Panel
    BY <1>1 DEF Panel
  <2>2. panel' \in Panel /\ UNCHANGED <<vars, deskVars, masks>>
    BY <1>5, <2>1 DEF Edit
  <2> QED
    BY <2>2, DeskStays DEF Rest, DeskInv, DeskPart, deskVars
<1>6. ASSUME NEW c \in world.configs, SavedElsewhere(c) PROVE Talks /\ Rest
  <2>1. Talks
    BY <1>1, <1>6, AppliedTalks DEF SavedElsewhere, deskVars
  <2> QED
    BY <1>6, <2>1, DeskStays DEF SavedElsewhere, deskVars, pageVars
<1>7. ASSUME NEW at \in Relay, TypeToken(at) PROVE Talks /\ Rest
  <2>1. [panel EXCEPT !.text = at] \in Panel
    BY <1>1 DEF Panel
  <2>2. panel' \in Panel /\ UNCHANGED <<vars, deskVars, masks>>
    BY <1>7, <2>1 DEF TypeToken
  <2> QED
    BY <2>2, DeskStays DEF Rest, DeskInv, DeskPart, deskVars
<1>8. CASE PreviewToken
  <2> DEFINE m == [what |-> "preview", by |-> panel.id]
  <2>1. [panel EXCEPT !.offered = FALSE] \in Panel
    BY <1>1 DEF Panel
  <2>2. m \in Message
    BY <1>1 DEF Message
  <2>3. ToPage(<<m>>)
    BY <1>8 DEF PreviewToken
  <2> HIDE DEF m
  <2>4. <<m>> \in Seq(Message)
    BY <2>2
  <2>5. wire' \in Seq(Message)
    BY <1>1, <2>3, <2>4, ToPageType
  <2> QED
    BY <1>1, <1>8, <2>1, <2>5 DEF PreviewToken, Talks, Rest, DeskInv, DeskPart, AsksMatch, vars
<1>9. CASE Save
  <2> DEFINE by == [panel |-> panel.id, fill |-> FALSE]
  <2>1. by \in Caller
    BY <1>1 DEF Caller
  <2>2. Talks
    BY <1>1, <1>9, <2>1, AppliedTalks DEF Save
  <2> QED
    BY <1>9, <2>2, DeskStays DEF Save, pageVars
<1>10. CASE ApplyToken
  <2> DEFINE by == [panel |-> panel.id, fill |-> TRUE]
             c == [saved EXCEPT !.on = TRUE, !.at = panel.text, !.code = TRUE]
  <2>1. by \in Caller
    BY <1>1 DEF Caller
  <2>2. panel.text \in Relay
    BY <1>1, <1>10 DEF ApplyToken, Panel
  <2>3. c \in Config
    BY <1>1, <2>2 DEF Config
  <2>4. ApplySettings(c, by) /\ Applied(c, by) /\ UNCHANGED asks
    BY <1>10 DEF ApplyToken
  <2> HIDE DEF c, by
  <2>5. Talks
    BY <2>1, <2>3, <2>4, AppliedTalks
  <2> QED
    BY <1>10, <2>5, DeskStays DEF ApplyToken, pageVars
<1>11. ASSUME NEW what \in Wishes, NEW code \in Code \cup {None}, Asked(what, panel.id, code), UNCHANGED wire
       PROVE  Talks
  BY <1>1, <1>11, AskTalks
<1>12. CASE ForceRegister
  BY <1>11, <1>12, DeskStays DEF ForceRegister, pageVars, Wishes
<1>13. ASSUME NEW code \in Code, Share(code) \/ Revoke(code) PROVE Talks /\ Rest
  BY <1>11, <1>13, DeskStays DEF Share, Revoke, pageVars, Wishes
<1>14. ASSUME NEW code \in Code, View(code) PROVE Talks /\ Rest
  <2>0. masks # <<>> => Tail(masks) \in Seq(BOOLEAN)
    BY <1>1
  <2>1. masks' \in Seq(BOOLEAN) /\ UNCHANGED <<window, subs, tray, panel>>
    BY <1>1, <1>14, <2>0 DEF View
  <2>2. Rest
    BY <2>1 DEF Rest, DeskInv, DeskPart
  <2>3. CASE Asked("view", panel.id, code) /\ UNCHANGED wire
    BY <1>11, <2>2, <2>3 DEF Wishes
  <2> DEFINE m == [what |-> "view", by |-> panel.id, code |-> code, got |-> None]
  <2>4. m \in Message
    BY <1>1 DEF Message, Answers
  <2>5. \/ Asked("view", panel.id, code) /\ UNCHANGED wire
        \/ ToPage(<<m>>) /\ UNCHANGED <<vars, asks>>
    BY <1>14 DEF View
  <2> HIDE DEF m
  <2>6. <<m>> \in Seq(Message)
    BY <2>4
  <2>7. CASE ToPage(<<m>>) /\ UNCHANGED <<vars, asks>>
    BY <1>1, <2>2, <2>6, <2>7, ToPageType DEF Talks, AsksMatch, vars
  <2> QED
    BY <2>3, <2>5, <2>7
<1>15. ASSUME NEW i \in DOMAIN masks, CloseMask(i) PROVE Talks /\ Rest
  <2>1. masks' \in Seq(BOOLEAN) /\ UNCHANGED <<vars, deskVars, panel>>
    BY <1>1, <1>15, RemoveAtType DEF CloseMask
  <2> QED
    BY <2>1, DeskStays DEF Rest, DeskInv, DeskPart, deskVars
<1> QED
  BY <1>2, <1>3, <1>4, <1>5, <1>6, <1>7, <1>8, <1>9, <1>10, <1>12, <1>13, <1>14, <1>15 DEF User

LEMMA ShowAccessInfoStep ==
    ASSUME DeskInv, NEW t \in Tray, ShowAccessInfo(t)
    PROVE  Talks /\ tray' \in Tray /\ UNCHANGED <<window, wire, subs>>
<1>1. UNCHANGED <<window, wire, subs>> /\ wire' \in Seq(Message)
  BY DEF ShowAccessInfo, DeskInv, DeskPart
<1>2. CASE Asked("info", 0, None) /\ tray' = t
  BY <1>1, <1>2, AskTalks DEF Wishes
<1> DEFINE link == [relay |-> FALSE, url |-> t.token]
<1>3. CASE tray' = [t EXCEPT !.shows = Append(@, link)] /\ UNCHANGED <<vars, asks>>
  <2>1. link \in Info
    BY DEF Info, Tray
  <2> HIDE DEF link
  <2>2. t.shows \in Seq(Info)
    BY DEF Tray
  <2>3. Append(t.shows, link) \in Seq(Info)
    BY <2>1, <2>2
  <2>4. tray' = [t EXCEPT !.shows = Append(t.shows, link)]
    BY <1>3 DEF Tray
  <2>5. tray' \in Tray
    BY <2>3, <2>4 DEF Tray
  <2> QED
    BY <1>1, <1>3, <2>5, DeskStays
<1> QED
  BY <1>1, <1>2, <1>3 DEF ShowAccessInfo

LEMMA ServeStep ==
    ASSUME DeskInv, NEW r \in Req, Serve(r), UNCHANGED pageVars
    PROVE  Talks /\ Rest
<1>1. /\ host.asked[r] # None /\ asks \in [Req -> Ask] /\ subs \in [Relay -> Code2State] /\ AsksMatch
      /\ host \in Host /\ wire \in Seq(Message) /\ HostInv
  BY DEF Serve, DeskInv, DeskPart, HostInv, TypeOK
<1> DEFINE p == host.asked[r]
           at == host.proc[p].cfg.at
           code == asks[r].code
<1>2. p \in Slot /\ at \in Relay
  <2>1. Sound(host) /\ p \in Live(host)
    <3>1. app # "gone"
      BY <1>1, UnderWay
    <3> QED
      BY <1>1, <3>1 DEF HostInv, Sound, Tidy
  <2>2. p \in Slot /\ host.proc[p] \in Process /\ host.proc[p].cfg # None
    BY <1>1, <2>1 DEF Live, Host, Sound, Gated
  <2>3. host.proc[p].cfg \in Config
    BY <2>2 DEF Process
  <2> QED
    BY <2>2, <2>3 DEF Config
<1> HIDE DEF p, at
<1>3. subs[at] \in Code2State
  BY <1>1, <1>2
<1>4. subs' \in [Relay -> Code2State]
  <2>1. [subs EXCEPT ![at] = [subs[at] EXCEPT ![code] = "live"]] \in [Relay -> Code2State]
    BY <1>1, <1>2, <1>3 DEF Code2State
  <2>2. [subs EXCEPT ![at] = [subs[at] EXCEPT ![code] = IF subs[at][code] = "live" THEN "revoked" ELSE "none"]]
            \in [Relay -> Code2State]
    BY <1>1, <1>2, <1>3 DEF Code2State
  <2>3. \/ subs' = [subs EXCEPT ![at] = [subs[at] EXCEPT ![code] = "live"]]
        \/ subs' = [subs EXCEPT ![at] =
                       [subs[at] EXCEPT ![code] = IF subs[at][code] = "live" THEN "revoked" ELSE "none"]]
        \/ subs' = subs
    BY <1>1, <1>2, <1>3 DEF Serve, at, p, Code2State
  <2> QED
    BY <1>1, <2>1, <2>2, <2>3
<1>5. subs'[at] \in Code2State
  BY <1>2, <1>4
<1>6. asks' = [asks EXCEPT ![r] = [asks[r] EXCEPT !.got = subs'[at]]] /\ UNCHANGED <<vars, window, wire, tray>>
  BY <1>1 DEF Serve, at, p
<1>7. [asks[r] EXCEPT !.got = subs'[at]] \in Ask /\ [asks[r] EXCEPT !.got = subs'[at]].what = asks[r].what
  BY <1>1, <1>5 DEF Ask
<1>8. asks' \in [Req -> Ask] /\ AsksMatch'
  BY <1>1, <1>6, <1>7 DEF AsksMatch, vars
<1> QED
  BY <1>1, <1>4, <1>6, <1>8 DEF Talks, Rest, DeskInv, DeskPart, vars, pageVars

LEMMA AnsweredStep ==
    ASSUME DeskInv, NEW r \in Req, Answered(r), UNCHANGED pageVars
    PROVE  Talks /\ Rest
<1>1. /\ asks \in [Req -> Ask] /\ AsksMatch /\ host \in Host /\ wire \in Seq(Message) /\ tray \in Tray
      /\ tray.shows \in Seq(Info)
  BY DEF DeskInv, DeskPart, HostInv, TypeOK, Tray
<1>2. /\ host.asked[r] # None /\ asks' = [asks EXCEPT ![r] = Nothing] /\ Settle(r)
      /\ host' = [host EXCEPT !.asked = [host.asked EXCEPT ![r] = None]] /\ UNCHANGED <<window, subs>>
  BY <1>1 DEF Answered, Settle, Host
<1> DEFINE ok == asks[r].got # None
           msgs == IF ForPage({r}) = {} THEN <<>> ELSE <<Answer(r, ok)>>
<1>3. wire' \in Seq(Message)
  <2>1. CASE ForPage({r}) = {}
    <3>1. ToPage(<<>>)
      BY <2>1 DEF Answered
    <3>2. <<>> \in Seq(Message)
      OBVIOUS
    <3> QED
      BY <1>1, <3>1, <3>2, ToPageType
  <2>2. CASE ForPage({r}) # {}
    <3>1. ToPage(<<Answer(r, ok)>>)
      BY <2>2 DEF Answered
    <3>2. asks[r].what \notin {"nothing", "copy", "info"}
      BY <1>1, <1>2, <2>2 DEF ForPage, AsksMatch
    <3>3. ok \in BOOLEAN
      OBVIOUS
    <3> HIDE DEF ok
    <3>4. Answer(r, ok) \in Message
      BY <1>1, <3>2, <3>3, AnswerType DEF Message
    <3>5. <<Answer(r, ok)>> \in Seq(Message)
      BY <3>4
    <3> QED
      BY <1>1, <3>1, <3>5, ToPageType
  <2> QED
    BY <2>1, <2>2
<1>4. tray' \in Tray
  <2>1. ok \in BOOLEAN
    OBVIOUS
  <2>2. tray' = tray \/ tray' = [tray EXCEPT !.shows = Append(tray.shows, Link(ok))]
    BY <1>1 DEF Answered, Tray
  <2> HIDE DEF ok
  <2>3. Append(tray.shows, Link(ok)) \in Seq(Info)
    BY <1>1, <2>1, LinkType
  <2> QED
    BY <1>1, <2>2, <2>3 DEF Tray
<1>5. asks' \in [Req -> Ask] /\ AsksMatch'
  <2>1. host'.asked = [host.asked EXCEPT ![r] = None] /\ host.asked \in [Req -> Slot \cup {None}]
    BY <1>1, <1>2 DEF Host
  <2> QED
    BY <1>1, <1>2, <2>1, NothingType DEF AsksMatch
<1>6. HostNext
  BY <1>2 DEF HostNext
<1> QED
  BY <1>2, <1>3, <1>4, <1>5, <1>6 DEF Talks, Rest, DeskInv, DeskPart, pageVars

LEMMA WindowsStep ==
    ASSUME DeskInv, Windows
    PROVE  Talks /\ Rest
<1>1. /\ tray \in Tray /\ wire \in Seq(Message) /\ UNCHANGED pageVars /\ saved \in Config
  BY DEF Windows, DeskInv, DeskPart, HostInv, TypeOK
<1>2. CASE BootUp
  <2>1. Listening /\ UNCHANGED <<wire, asks, subs>> /\ window' \in {"none", "loading", "live", "blank"}
    BY <1>2 DEF BootUp, CreateWindow, DeskInv, DeskPart
  <2>2. HostNext /\ host'.asked = host.asked
    BY <2>1, RequestsStay DEF HostNext, DeskInv
  <2> DEFINE menu == IF Windowed THEN Summary(host', saved) ELSE tray.menu
  <2>3. menu \in {"none", "off", "conn", "on"}
    <3>1. Summary(host', saved) \in {"off", "conn", "on"}
      BY DEF Summary
    <3> QED
      BY <1>1, <3>1 DEF Tray
  <2>4. tray' = [tray EXCEPT !.menu = menu]
    BY <1>1, <1>2 DEF BootUp, Tray
  <2> HIDE DEF menu
  <2>5. tray' \in Tray
    BY <1>1, <2>3, <2>4 DEF Tray
  <2> QED
    BY <1>1, <2>1, <2>2, <2>5 DEF Talks, Rest, DeskInv, DeskPart, AsksMatch, pageVars
<1>3. CASE ShowWindow \/ PageLoads
  <2>1. window' \in {"none", "loading", "live", "blank"} /\ UNCHANGED <<vars, wire, asks, subs, tray>>
    BY <1>3 DEF ShowWindow, PageLoads, CreateWindow, DeskInv, DeskPart
  <2> QED
    BY <1>1, <2>1, DeskStays DEF Rest, DeskInv, DeskPart, pageVars
<1>4. CASE ViewAccess
  <2>1. ShowAccessInfo(tray)
    BY <1>4 DEF ViewAccess
  <2> QED
    BY <1>1, <2>1, ShowAccessInfoStep DEF Rest, DeskInv, DeskPart, pageVars
<1>5. CASE RotateToken
  <2> DEFINE t == [tray EXCEPT !.token = @ + 1, !.menu = Summary(host, saved)]
  <2>1. Summary(host, saved) \in {"off", "conn", "on"}
    BY DEF Summary
  <2>2. tray.token + 1 \in 0 .. MaxTokens
    BY <1>1, <1>5, DeskAssumption DEF RotateToken, Tray
  <2>3. t \in Tray
    BY <1>1, <2>1, <2>2 DEF Tray
  <2>4. ShowAccessInfo(t)
    BY <1>5 DEF RotateToken
  <2> HIDE DEF t
  <2> QED
    BY <1>1, <2>3, <2>4, ShowAccessInfoStep DEF Rest, DeskInv, DeskPart, pageVars
<1>6. CASE CloseInfo
  <2>1. tray' = [tray EXCEPT !.info = None] /\ UNCHANGED <<vars, window, wire, asks, subs>>
    BY <1>6 DEF CloseInfo
  <2>2. tray' \in Tray
    BY <1>1, <2>1 DEF Tray
  <2> QED
    BY <1>1, <2>1, <2>2, DeskStays DEF Rest, DeskInv, DeskPart, pageVars
<1>7. CASE CopyShare
  <2>1. Asked("copy", 0, None) /\ UNCHANGED <<window, wire, subs, tray>>
    BY <1>7 DEF CopyShare
  <2> QED
    BY <1>1, <2>1, AskTalks DEF Wishes, Rest, DeskInv, DeskPart, pageVars
<1>8. ASSUME NEW i \in DOMAIN tray.shows, QrReady(i) PROVE Talks /\ Rest
  <2> DEFINE info == [relay |-> tray.shows[i].relay, url |-> tray.shows[i].url, token |-> tray.token]
             rest == RemoveAt(tray.shows, i)
  <2>1. tray.shows \in Seq(Info) /\ tray.token \in 0 .. MaxTokens /\ tray.shows[i] \in Info
    BY <1>1 DEF Tray
  <2>2. info \in [relay : BOOLEAN, url : 0 .. MaxTokens, token : 0 .. MaxTokens]
    BY <2>1 DEF Info
  <2>3. rest \in Seq(Info)
    BY <2>1, RemoveAtType
  <2>4. tray' = [tray EXCEPT !.shows = rest, !.inOrder = tray.inOrder /\ i = 1, !.info = info] /\ UNCHANGED <<vars, window, wire, asks, subs>>
    BY <1>1, <1>8 DEF QrReady, Tray
  <2> HIDE DEF rest, info
  <2>5. tray' \in Tray
    BY <1>1, <2>2, <2>3, <2>4 DEF Tray
  <2> QED
    BY <1>1, <2>4, <2>5, DeskStays DEF Rest, DeskInv, DeskPart, pageVars
<1> QED
  BY <1>1, <1>2, <1>3, <1>4, <1>5, <1>6, <1>7, <1>8, ServeStep, AnsweredStep DEF Windows

LEMMA QuietStep ==
    ASSUME DeskInv, Quiet
    PROVE  Talks /\ Rest
<1>1. HostNext /\ UNCHANGED deskVars /\ UNCHANGED pageVars
  BY DEF Quiet, HostNext
<1>2. host'.asked = host.asked
  BY RequestsStay DEF Quiet, DeskInv
<1> QED
  BY <1>1, <1>2 DEF Talks, Rest, DeskInv, DeskPart, AsksMatch, deskVars, pageVars

LEMMA LeavesStep ==
    ASSUME DeskInv, Leaves
    PROVE  Talks /\ Rest
<1>1. HostNext /\ HostInv'
  BY HostInvSteps DEF Leaves, AllGone, HostNext, DeskInv
<1>2. host'.asked = Unanswered
  <2>1. app' = "gone"
    BY DEF Leaves, AllGone, Quit, QuitAgain, Leave
  <2> QED
    BY <1>1, <2>1 DEF HostInv, Unanswered
<1>3. /\ window' = "none" /\ wire' = <<>> /\ subs' = subs /\ panel' = New(panel.id, FALSE) /\ masks' = <<>>
      /\ asks' = [r \in Req |-> Nothing]
      /\ tray' = [menu |-> "none", token |-> 0, info |-> None, shows |-> <<>>, inOrder |-> TRUE]
  BY DEF Leaves, AllGone
<1>4. <<>> \in Seq(Message) /\ <<>> \in Seq(Info)
  OBVIOUS
<1>5. <<>> \in Seq(BOOLEAN)
  BY EmptySeq
<1>6. panel' \in Panel
  <2>1. FALSE \in BOOLEAN /\ panel.id \in 0 .. world.panels
    BY DEF DeskInv, DeskPart, Panel
  <2>2. New(panel.id, FALSE) \in Panel
    BY <2>1, NewType
  <2> QED
    BY <1>3, <2>2
<1>7. tray' \in Tray
  BY <1>3, <1>4, DeskAssumption DEF Tray
<1>8. asks' \in [Req -> Ask] /\ AsksMatch'
  BY <1>2, <1>3, NothingType DEF AsksMatch, Unanswered
<1> QED
  BY <1>1, <1>3, <1>4, <1>5, <1>6, <1>7, <1>8 DEF Talks, Rest, DeskInv, DeskPart

LEMMA StatusToldStep ==
    ASSUME DeskInv, NEW p \in Slot, NEW s \in State, StatusTold(p, s)
    PROVE  Talks /\ Rest
<1>1. Status(p, s) /\ ToPage(<<StatusTo(s)>>) /\ UNCHANGED <<window, asks, subs>> /\ UNCHANGED pageVars
  BY DEF StatusTold
<1>2. HostNext /\ host'.asked = host.asked
  BY <1>1, RequestsStay DEF HostNext, DeskInv
<1>3. wire' \in Seq(Message)
  <2>1. StatusTo(s) \in Message
    BY DEF StatusTo, Message
  <2>2. <<StatusTo(s)>> \in Seq(Message)
    BY <2>1
  <2> QED
    BY <1>1, <2>2, ToPageType DEF DeskInv, DeskPart
<1>4. tray' \in Tray
  <2> DEFINE menu == Rebuilt(tray.menu, host', saved)
  <2>1. tray \in Tray
    BY DEF DeskInv, DeskPart
  <2>2. menu \in {"none", "off", "conn", "on"}
    BY <2>1 DEF Rebuilt, Summary, Tray
  <2>3. tray' = [tray EXCEPT !.menu = menu]
    BY <2>1 DEF StatusTold, Tray
  <2> HIDE DEF menu
  <2> QED
    BY <2>1, <2>2, <2>3 DEF Tray
<1> QED
  BY <1>1, <1>2, <1>3, <1>4 DEF Talks, Rest, DeskInv, DeskPart, AsksMatch, pageVars

LEMMA StepsOfTheDesktop ==
    ASSUME DeskInv, Next
    PROVE  Talks /\ Rest
<1>1. ASSUME NEW p \in Slot, ExitTold(p) PROVE Talks /\ Rest
  BY <1>1, ExitToldTypes DEF ExitTold, Talks, Rest, HostNext, DeskInv, DeskPart, pageVars
<1>2. ASSUME NEW p \in Slot, NEW i \in DOMAIN waits[p], TimeUpTold(p, i) PROVE Talks /\ Rest
  BY <1>2, TimeUpToldTypes DEF TimeUpTold, Talks, Rest, HostNext, DeskInv, DeskPart, pageVars
<1> QED
  BY <1>1, <1>2, QuietStep, LeavesStep, WindowsStep, MessageStep, UserStep, StatusToldStep DEF Next

LEMMA WorldStays == HostNext \/ UNCHANGED vars => world' = world
BY DEF HostNext, CertReady, Listening, Launch, Shutdown, Restart, Quit, QuitAgain, Leave, ListenFails,
       ApplySettings, Request, Settle, Exit, Forced, Status, TimeUp, vars

LEMMA DeskInvInit == PanelInit => DeskInv
<1> SUFFICES ASSUME PanelInit PROVE DeskInv
  OBVIOUS
<1>1. HostInv
  BY HostInvInit DEF PanelInit, DeskInit
<1>2. <<>> \in Seq(Message) /\ <<>> \in Seq(Info)
  OBVIOUS
<1>3. <<>> \in Seq(BOOLEAN)
  BY EmptySeq
<1>4. tray \in Tray
  BY <1>2, DeskAssumption DEF PanelInit, DeskInit, Tray
<1>5. AsksMatch /\ asks \in [Req -> Ask]
  BY NothingType DEF PanelInit, DeskInit, Init, Idle, AsksMatch
<1>6. panel \in Panel
  <2>1. saved \in Config /\ world.panels \in Nat
    BY <1>1, HostAssumption DEF HostInv, TypeOK, World
  <2>2. Blank \in Config /\ NoCodes \in Code2State
    BY <2>1 DEF Blank, Config, NoCodes, Code2State
  <2> QED
    BY <2>1, <2>2 DEF PanelInit, New, Panel
<1> QED
  BY <1>1, <1>2, <1>3, <1>4, <1>5, <1>6 DEF DeskInv, DeskPart, PanelInit, DeskInit, Code2State

LEMMA DeskInvNext == DeskInv /\ [Next]_all => DeskInv'
<1> SUFFICES ASSUME DeskInv, [Next]_all PROVE DeskInv'
  OBVIOUS
<1>1. CASE Next
  <2>1. Talks /\ Rest
    BY <1>1, StepsOfTheDesktop
  <2>2. HostInv' /\ world' = world
    BY <2>1, HostInvSteps, HostInvStutters, WorldStays DEF Talks, DeskInv
  <2>3. Panel' = Panel
    BY <2>2 DEF Panel
  <2> QED
    BY <2>1, <2>2, <2>3 DEF DeskInv, DeskPart, Talks, Rest
<1>2. CASE UNCHANGED all
  <2>1. UNCHANGED vars /\ UNCHANGED deskVars /\ UNCHANGED pageVars
    BY <1>2 DEF all, pageVars, deskVars, vars
  <2>2. HostInv' /\ world' = world
    BY <2>1, HostInvStutters, WorldStays DEF DeskInv
  <2>3. Panel' = Panel
    BY <2>2 DEF Panel
  <2> QED
    BY <2>1, <2>2, <2>3 DEF DeskInv, DeskPart, AsksMatch, vars, deskVars, pageVars
<1> QED
  BY <1>1, <1>2

LEMMA AlwaysDeskInv == Spec => []DeskInv
BY DeskInvInit, DeskInvNext, PTL DEF Spec

-----------------------------------------------------------------------------
(* Types: whatever settings, states and answers the program passes on, the  *)
(* host, the messages to the page, the tray and the panel stay what they are*)
(* declared to be (pluginHost.ts:40, relaySettings.ts:32).                  *)
THEOREM TypeCorrect == Spec => []PanelTypeOK
BY AlwaysDeskInv, DeskInvTypes, PTL

(* main.ts:152, relayController.ts:151: where children go when told the     *)
(* relay sees one plugin at most, and in every world a plugin runs only     *)
(* behind the server its settings want.                                     *)
THEOREM OneGatedPlugin == Spec => []OnePluginBehindItsGate
<1>1. DeskInv => OnePluginBehindItsGate
  <2> SUFFICES ASSUME DeskInv PROVE OnePluginBehindItsGate
    OBVIOUS
  <2>1. CASE app = "gone"
    BY <2>1, FS_EmptySet DEF DeskInv, HostInv, OnePluginBehindItsGate, OnePlugin, RunsBehindItsGate
  <2>2. CASE app # "gone"
    <3>1. Sound(host)
      BY <2>2 DEF DeskInv, HostInv
    <3>2. RunsBehindItsGate
      BY <3>1 DEF Sound, Gated, Fits, RunsBehindItsGate
    <3>3. ASSUME ~world.late PROVE Cardinality(Live(host)) <= 1
      <4>1. Live(host) = {} \/ Live(host) = {host.child}
        BY <3>1, <3>3 DEF Sound, Lone
      <4>2. Cardinality({host.child}) = 1
        BY FS_Singleton
      <4> QED
        BY <4>1, <4>2, FS_EmptySet
    <3> QED
      BY <3>2, <3>3 DEF OnePluginBehindItsGate, OnePlugin
  <2> QED
    BY <2>1, <2>2
<1> QED
  BY <1>1, AlwaysDeskInv, PTL

(* pluginHost.ts:148, 160: after stop() the current child, if there is one, *)
(* was told to go, and a request never waits for a process that is gone,    *)
(* whatever exits late, crashes or restarts meanwhile.                      *)
THEOREM StopStays == Spec => []StopIsFinal
<1>1. DeskInv => StopIsFinal
  <2> SUFFICES ASSUME DeskInv PROVE StopIsFinal
    OBVIOUS
  <2>1. CASE app = "gone"
    <3>1. host.child # None => host.child \in Slot /\ host.child \notin Live(host)
      BY <2>1 DEF DeskInv, HostInv, TypeOK, Host
    <3>2. host.child # None => host.proc[host.child].st = "dead"
      BY <3>1 DEF Live
    <3> QED
      BY <2>1, <3>2 DEF DeskInv, HostInv, StopIsFinal, Unanswered
  <2>2. CASE app # "gone"
    BY <2>2 DEF DeskInv, HostInv, Sound, Tidy, StopIsFinal
  <2> QED
    BY <2>1, <2>2
<1> QED
  BY <1>1, AlwaysDeskInv, PTL

-----------------------------------------------------------------------------
(* The settings that run, and the master code at the end *)

LEMMA StepsOfTheHost == DeskInv /\ [Next]_all => HostNext \/ UNCHANGED vars
BY StepsOfTheDesktop DEF Talks, all, vars

\* A host that has followed the settings c: what runs, or will when the timer
\* fires, has them, and something does if they can be started.
Settled(h, c) ==
    /\ \A p \in Live(h) : c.on /\ h.proc[p].cfg = c
    /\ h.timer \/ h.child # None => c.on /\ h.cfg = c
    /\ Startable(c) => h.child # None \/ h.timer

\* As long as the program is up and its user waits, whoever still waits for a
\* child to exit goes on with what is saved.
SavedInv ==
    Orderly /\ app = "up" /\ Up =>
        /\ \A p \in Slot : \A i \in DOMAIN waits[p] : waits[p][i].next = saved
        /\ waits = NoCalls => Settled(host, saved)

LEMMA StartSettles ==
    ASSUME NEW h \in Host, Live(h) = {}, h.child = None, ~h.timer,
           NEW c \in Config, NEW g, MayStart(h, g, {c})
    PROVE  Settled(g, c)
<1>1. CASE g = h /\ ~Startable(c)
  BY <1>1 DEF Settled
<1>2. CASE Startable(c) /\ Started(h, g, c)
  <2>1. c.on
    BY <1>2 DEF Startable, Effective, Config
  <2> PICK p \in Slot :
        /\ g.child = p /\ g.cfg = c /\ g.proc = [h.proc EXCEPT ![p] = [st |-> "running", cfg |-> c]]
    BY <1>2 DEF Started
  <2>2. \A q \in Live(g) : g.proc[q].cfg = c
    BY DEF Live, Host
  <2>3. g.child # None
    BY HostAssumption
  <2> QED
    BY <2>1, <2>2, <2>3 DEF Settled
<1> QED
  BY <1>1, <1>2 DEF MayStart

\* The host of the orderly user.
LEMMA OrderlyHost ==
    ASSUME HostInv, Orderly, app = "up"
    PROVE  /\ Sound(host) /\ Lone(host) /\ Awaited(host, waits) /\ host \in Host /\ saved \in Config
           /\ waits \in [Slot -> Seq(Call)] /\ world.overlap = FALSE /\ ~world.late
BY HostAssumption DEF HostInv, Sound, Orderly, TypeOK, World

LEMMA ExitSettles ==
    ASSUME HostInv, SavedInv, Orderly, app = "up", Up, NEW p \in Slot, Exit(p)
    PROVE  waits' = NoCalls /\ saved' = saved /\ Settled(host', saved)
<1>1. /\ Sound(host) /\ Lone(host) /\ Awaited(host, waits) /\ host \in Host /\ saved \in Config
      /\ waits \in [Slot -> Seq(Call)]
  BY OrderlyHost
<1> DEFINE left == AllEnd(ExitHandler(host, p), p)
<1>2. p \in Live(host) /\ host.child = p /\ host' = Resumed(left, waits[p])
  BY <1>1 DEF Lone, Exit
<1>3. left \in Host /\ left.child = None /\ Room(left) /\ Live(left) = {}
  BY <1>1, <1>2, ExitKeepsSound DEF Sound, Lone
<1>4. left.cfg = host.cfg /\ (left.timer <=> host.timer \/ ~host.stopping)
  BY <1>1, ExitLeaves
<1> HIDE DEF left
<1>5. waits' = NoCalls
  <2>1. \A q \in Slot : waits'[q] = <<>>
    BY <1>1, <1>2 DEF Awaited, Exit
  <2>2. waits' \in [Slot -> Seq(Call)]
    BY <1>1 DEF Exit
  <2> QED
    BY <2>1, <2>2 DEF NoCalls
<1>6. waits[p] \in Seq(Call) /\ MayStart(left, host', Nexts(waits[p]))
  BY <1>1, <1>2, <1>3, ResumedIs
<1>7. saved' = saved
  <2>1. \A i \in DOMAIN waits[p] : waits[p][i].next # None
    BY <1>1, HostAssumption DEF SavedInv
  <2> QED
    BY <2>1 DEF Exit, Goes
<1>8. CASE waits[p] = <<>>
  <2>1. \A q \in Slot : waits[q] = <<>>
    BY <1>1, <1>2, <1>8 DEF Awaited
  <2>2. waits = NoCalls
    BY <1>1, <2>1 DEF NoCalls
  <2>3. ~host.stopping /\ host.cfg = saved /\ saved.on
    BY <1>1, <1>2, <1>8, <2>2, HostAssumption DEF Awaited, SavedInv, Settled
  <2>4. host' = left
    BY <1>6, <1>8 DEF MayStart, Nexts
  <2> QED
    BY <1>3, <1>4, <1>5, <1>7, <2>3, <2>4 DEF Settled
<1>9. CASE waits[p] # <<>>
  <2>1. Nexts(waits[p]) = {saved}
    <3>1. 1 \in DOMAIN waits[p]
      BY <1>6, <1>9
    <3>2. \A i \in DOMAIN waits[p] : waits[p][i].next = saved
      BY DEF SavedInv
    <3> QED
      BY <1>1, <3>1, <3>2, HostAssumption DEF Nexts
  <2>2. ~left.timer
    BY <1>1, <1>2, <1>4, <1>9 DEF Awaited, Lone
  <2> QED
    BY <1>1, <1>3, <1>5, <1>6, <1>7, <2>1, <2>2, StartSettles
<1> QED
  BY <1>8, <1>9

LEMMA ApplySettles ==
    ASSUME HostInv, Orderly, Up, NEW c \in Config, NEW by \in Caller \cup {None}, ApplySettings(c, by)
    PROVE  SavedInv'
<1>1. app = "up" /\ waits = NoCalls /\ saved' = c /\ Stop(c, by) /\ UNCHANGED <<world, boot, server, app>>
  BY DEF ApplySettings, Orderly
<1>2. /\ Sound(host) /\ Lone(host) /\ host \in Host /\ Ticks(host)
  BY <1>1, OrderlyHost DEF Sound
<1>3. CASE Unhindered(c)
  <2> DEFINE g == StopBegins(host)
  <2>1. c # None
    BY HostAssumption
  <2>2. /\ g \in Host /\ g.child = None /\ ~g.timer /\ g.proc = host.proc
        /\ waits' = waits /\ MayStart(g, host', {c})
    BY <1>2, <1>3, <2>1, StopBeginsIs DEF Unhindered, Told2Go
  <2> HIDE DEF g
  <2>3. Live(g) = {}
    BY <1>2, <1>3, <2>2, HostAssumption DEF Lone, Live, Unhindered
  <2>4. Settled(host', c)
    BY <2>2, <2>3, StartSettles
  <2>5. Settled(host, saved)'
    BY <1>1, <2>4 DEF Settled, Startable, RestartRequired, Live
  <2>6. \A p \in Slot : waits'[p] = <<>>
    BY <1>1, <2>2 DEF NoCalls
  <2> QED
    BY <2>5, <2>6 DEF SavedInv
<1>4. CASE Waiting(c, by)
  <2>1. host.child \in Slot
    BY <1>2, <1>4 DEF Waiting, Host
  <2>2. waits' = [waits EXCEPT ![host.child] = <<[next |-> c, by |-> by]>>]
    <3> DEFINE call == [next |-> c, by |-> by]
    <3>1. waits[host.child] = <<>>
      BY <1>1, <2>1 DEF NoCalls
    <3>2. waits' = [waits EXCEPT ![host.child] = Append(waits[host.child], call)]
      BY <1>1, <1>4, <2>1 DEF Waiting, NoCalls
    <3> HIDE DEF call
    <3>3. Append(<<>>, call) = <<call>>
      OBVIOUS
    <3> QED
      BY <3>1, <3>2, <3>3 DEF call
  <2>3. waits' # NoCalls' /\ \A p \in Slot : \A i \in DOMAIN waits'[p] : waits'[p][i].next = c
    BY <1>1, <2>1, <2>2 DEF NoCalls
  <2> QED
    BY <1>1, <2>3 DEF SavedInv
<1> QED
  BY <1>1, <1>2, <1>3, <1>4, StopIs

LEMMA SavedInvStep ==
    ASSUME HostInv, SavedInv, HostNext \/ UNCHANGED vars
    PROVE  SavedInv'
<1> SUFFICES ASSUME Orderly', app' = "up", Up' PROVE SavedInv'
  BY DEF SavedInv
<1>1. world' = world /\ Orderly
  BY WorldStays DEF Orderly
\* Steps of the host that leave what is saved, the calls and the launch alone.
<1>2. ASSUME app = "up", Up, UNCHANGED <<saved, boot, server, waits>>, waits = NoCalls => Settled(host', saved)
      PROVE  SavedInv'
  <2>1. NoCalls' = NoCalls
    BY DEF NoCalls
  <2>2. Settled(host', saved) => Settled(host, saved)'
    BY <1>2 DEF Settled, Startable, RestartRequired, Live
  <2> QED
    BY <1>1, <1>2, <2>1, <2>2 DEF SavedInv
<1>3. ASSUME app = "up", Up, UNCHANGED <<saved, boot, server, waits>>, host' \in Host,
             host'.child = host.child, host'.cfg = host.cfg, host'.timer = host.timer, host'.proc = host.proc
      PROVE  SavedInv'
  <2>1. waits = NoCalls => Settled(host', saved)
    BY <1>1, <1>3 DEF SavedInv, Settled, Live
  <2> QED
    BY <1>2, <1>3, <2>1
<1>4. CASE UNCHANGED vars
  BY <1>1, <1>4 DEF SavedInv, Settled, Startable, RestartRequired, Live, Up, vars, NoCalls
<1>5. CASE CertReady \/ Launch \/ Shutdown \/ Quit \/ QuitAgain \/ \E taken \in BOOLEAN : ListenFails(taken)
  <2>1. CASE CertReady \/ \E taken \in BOOLEAN : ListenFails(taken)
    BY <2>1 DEF CertReady, ListenFails, Up, HostInv, TypeOK, Boot
  <2>2. CASE Launch
    BY <2>2 DEF Launch, Up
  <2>3. CASE Quit \/ QuitAgain
    BY <2>3 DEF Quit, QuitAgain, Leave
  <2>4. CASE Shutdown
    <3>1. Goes(<<[next |-> None]>>) => app' = "closing"
      BY DEF Goes
    <3> QED
      BY <2>4, <3>1 DEF Shutdown
  <2> QED
    BY <1>5, <2>1, <2>2, <2>3, <2>4
<1>6. CASE Listening
  <2>1. /\ ~Up /\ app = "up" /\ host' = Continue(host, saved)
        /\ UNCHANGED <<world, saved, server, waits, applies, app>>
    BY <1>6 DEF Listening, Up
  <2>2. /\ Sound(host) /\ host \in Host /\ saved \in Config
        /\ host.child = None /\ host.cfg = None /\ waits = NoCalls
    BY <2>1 DEF HostInv, TypeOK
  <2>3. Live(host) = {} /\ host.timers = 0 /\ ~host.timer /\ Room(host)
    <3>1. Live(host) = {} /\ host.timers = 0
      BY <2>2 DEF Sound, Gated
    <3> QED
      BY <2>2, <3>1, HostAssumption DEF Sound, Ticks, Room
  <2>4. Settled(host', saved)
    BY <2>1, <2>2, <2>3, ContinueIs, StartSettles
  <2>5. Settled(host, saved)'
    BY <2>1, <2>4 DEF Settled, Startable, RestartRequired, Live
  <2> QED
    BY <2>1, <2>2, <2>5 DEF SavedInv, NoCalls
<1>7. ASSUME NEW c \in Config, NEW by \in Caller \cup {None}, ApplySettings(c, by) PROVE SavedInv'
  BY <1>1, <1>7, ApplySettles DEF ApplySettings
<1>8. ASSUME NEW p \in Slot, Exit(p) PROVE SavedInv'
  <2>1. UNCHANGED <<world, boot, server>> /\ p \in Live(host)
    BY <1>8 DEF Exit
  <2>2. Up /\ app = "up"
    BY <1>8, <2>1, UnderWay DEF Exit, Goes
  <2>3. waits' = NoCalls /\ saved' = saved /\ Settled(host', saved)
    BY <1>1, <1>8, <2>2, ExitSettles
  <2>4. Settled(host, saved)'
    BY <2>1, <2>3 DEF Settled, Startable, RestartRequired, Live
  <2> QED
    BY <2>3, <2>4 DEF SavedInv, NoCalls
<1>9. ASSUME NEW p \in Slot, NEW i \in DOMAIN waits[p], TimeUp(p, i) PROVE SavedInv'
  BY <1>1, <1>9 DEF TimeUp, Orderly
<1>10. CASE Restart
  <2>1. /\ host.timers > 0 /\ Room(host) /\ UNCHANGED <<world, saved, boot, server, waits, applies, app>> /\ app = "up" /\ Up
    BY <1>10, UnderWay DEF Restart
  <2>2. Sound(host) /\ Lone(host) /\ host \in Host /\ saved \in Config
    BY <1>1, <2>1, OrderlyHost
  <2>3. host.timer /\ ~host.stopping /\ host.child = None
    BY <2>1, <2>2 DEF Lone
  <2> DEFINE fired == [host EXCEPT !.timer = FALSE, !.timers = @ - 1]
  <2>4. fired \in Host /\ ~fired.timer /\ fired.cfg = host.cfg /\ fired.child = None /\ fired.proc = host.proc
    <3>1. host.timers - 1 \in Nat
      BY <2>1, <2>2 DEF Host
    <3> DEFINE left == host.timers - 1
    <3>2. fired = [host EXCEPT !.timer = FALSE, !.timers = left]
      BY <2>2 DEF Host
    <3> HIDE DEF fired, left
    <3> QED
      BY <2>2, <2>3, <3>1, <3>2 DEF Host, left
  <2>5. host' = Spawn(fired)
    BY <1>10, <2>3 DEF Restart
  <2> HIDE DEF fired
  <2>6. Live(fired) = {} /\ Room(fired)
    BY <2>1, <2>2, <2>3, <2>4, HostAssumption DEF Lone, Live, Room
  <2>7. Started(fired, host', fired.cfg)
    BY <2>4, <2>5, <2>6, SpawnStarts
  <2>8. waits = NoCalls => Settled(host', saved)
    <3> SUFFICES ASSUME waits = NoCalls PROVE Settled(host', saved)
      OBVIOUS
    <3>1. saved.on /\ fired.cfg = saved
      BY <1>1, <2>1, <2>3, <2>4 DEF SavedInv, Settled
    <3> PICK p \in Slot :
          /\ host'.child = p /\ host'.cfg = fired.cfg
          /\ host'.proc = [fired.proc EXCEPT ![p] = [st |-> "running", cfg |-> fired.cfg]]
      BY <2>7 DEF Started
    <3>2. \A q \in Live(host') : host'.proc[q].cfg = saved
      BY <2>4, <2>6, <3>1 DEF Live, Host
    <3>3. host'.child # None
      BY HostAssumption
    <3> QED
      BY <3>1, <3>2, <3>3 DEF Settled
  <2> QED
    BY <1>2, <2>1, <2>8
<1>11. ASSUME NEW p \in Slot, Forced(p) PROVE SavedInv'
  <2>1. waits[p] # <<>> /\ UNCHANGED <<world, saved, boot, server, waits, applies, app>>
    BY <1>11 DEF Forced
  <2>2. app = "up" /\ Up /\ waits # NoCalls
    BY <2>1, UnderWay DEF NoCalls
  <2> QED
    BY <1>2, <2>1, <2>2
<1>12. ASSUME NEW p \in Slot, NEW s \in State, Status(p, s) PROVE SavedInv'
  <2>1. /\ p \in Live(host) /\ host' = [host EXCEPT !.state = s, !.told = s] /\ host \in Host
        /\ UNCHANGED <<world, saved, boot, server, waits, applies, app>>
    BY <1>12 DEF Status, SetState, Live, HostInv, TypeOK
  <2>2. app = "up" /\ Up
    BY <2>1, UnderWay
  <2> QED
    BY <1>3, <2>1, <2>2 DEF Host
<1>13. ASSUME NEW r \in Req, Request(r) \/ Settle(r) PROVE SavedInv'
  <2>1. Up /\ app = "up" /\ UNCHANGED <<world, saved, boot, server, waits, applies, app>>
    BY <1>13, UnderWay DEF Request, Settle
  <2>2. host' \in Host
    <3>1. HostInv'
      BY <1>13, HostInvSteps DEF HostNext
    <3> QED
      BY <3>1 DEF HostInv, TypeOK
  <2>3. /\ host'.child = host.child /\ host'.cfg = host.cfg /\ host'.timer = host.timer /\ host'.proc = host.proc
    BY <1>13 DEF Request, Settle, HostInv, TypeOK, Host
  <2> QED
    BY <1>3, <2>1, <2>2, <2>3
<1> QED
  BY <1>4, <1>5, <1>6, <1>7, <1>8, <1>9, <1>10, <1>11, <1>12, <1>13 DEF HostNext

(* relayController.ts:120, pluginHost.ts:4: once its user's calls are over, *)
(* the settings that are saved are those that run, or that the timer will   *)
(* start after a crash, unless they are off or wait for a restart.          *)
THEOREM SavedRuns == Spec => []SavedIsRunning
<1>1. PanelInit => SavedInv
  BY DEF PanelInit, DeskInit, Init, SavedInv, Up
<1>2. DeskInv /\ SavedInv /\ [Next]_all => SavedInv'
  BY SavedInvStep, StepsOfTheHost DEF DeskInv
<1>3. DeskInv /\ SavedInv => SavedIsRunning
  BY DEF SavedInv, Settled, SavedIsRunning
<1> QED
  BY <1>1, <1>2, <1>3, AlwaysDeskInv, PTL DEF Spec

\* Who does not hurry shuts down a program that has started or failed to, and
\* none that closes keeps a master code it should clear.
ClearInv ==
    ~world.hasty =>
        /\ app # "up" => boot.at \in {"up", "failed"}
        /\ ~world.overlap /\ app \in {"closing", "gone"} /\ Up => ~(saved.on /\ saved.clear /\ saved.code)

LEMMA GoesClears ==
    ASSUME TypeOK, NEW calls, Goes(calls), UNCHANGED boot,
           app \in {"closing", "gone"} /\ Up => ~(saved.on /\ saved.clear /\ saved.code)
    PROVE  app' \in {"closing", "gone"} /\ Up' => ~(saved.on /\ saved.clear /\ saved.code)'
<1>1. saved \in Config /\ (Up' <=> Up)
  BY DEF TypeOK, Up
<1>2. CASE UNCHANGED <<app, saved>>
  BY <1>1, <1>2
<1>3. CASE ClearMaster
  BY <1>1, <1>3 DEF ClearMaster, Config
<1> QED
  BY <1>2, <1>3 DEF Goes

LEMMA ClearInvStep ==
    ASSUME HostInv, ClearInv, HostNext \/ UNCHANGED vars
    PROVE  ClearInv'
<1> SUFFICES ASSUME ~world'.hasty PROVE ClearInv'
  BY DEF ClearInv
<1>1. world' = world /\ ~world.hasty /\ TypeOK
  BY WorldStays DEF HostInv
<1>2. ASSUME UNCHANGED <<saved, boot, app>> PROVE ClearInv'
  BY <1>1, <1>2 DEF ClearInv, Up
<1>3. CASE CertReady \/ Listening \/ \E taken \in BOOLEAN : ListenFails(taken)
  <2>1. app = "up" /\ app' = "up"
    BY <1>1, <1>3 DEF CertReady, Listening, ListenFails, ClearInv, TypeOK
  <2> QED
    BY <2>1 DEF ClearInv
<1>4. CASE Launch
  BY <1>4 DEF Launch, ClearInv
<1>5. CASE Shutdown
  <2>1. Up \/ boot.at = "failed"
    BY <1>1, <1>5 DEF Shutdown
  <2>2. /\ app = "up" /\ UNCHANGED boot
        /\ Goes(<<[next |-> None]>>) \/ app' = "stopping"
    BY <1>5 DEF Shutdown
  <2>3. app' \in {"closing", "gone"} /\ Up' => ~(saved.on /\ saved.clear /\ saved.code)'
    BY <1>1, <2>2, GoesClears
  <2> QED
    BY <2>1, <2>2, <2>3 DEF ClearInv, Up
<1>6. CASE Quit \/ QuitAgain
  BY <1>1, <1>6 DEF Quit, QuitAgain, Leave, ClearInv, Up
<1>7. ASSUME NEW c \in Config, NEW by \in Caller \cup {None}, ApplySettings(c, by) PROVE ClearInv'
  BY <1>1, <1>7 DEF ApplySettings, ClearInv, Up
<1>8. ASSUME NEW calls, Goes(calls), UNCHANGED boot, Up PROVE ClearInv'
  <2>1. ~world.overlap => (app' \in {"closing", "gone"} /\ Up' => ~(saved.on /\ saved.clear /\ saved.code)')
    BY <1>1, <1>8, GoesClears DEF ClearInv
  <2>2. app' = app \/ app' = "closing"
    BY <1>8 DEF Goes
  <2> QED
    BY <1>1, <1>8, <2>1, <2>2 DEF ClearInv, Up
<1>9. CASE UNCHANGED vars
  BY <1>2, <1>9 DEF vars
<1>10. ASSUME NEW p \in Slot, Exit(p) PROVE ClearInv'
  BY <1>8, <1>10, UnderWay DEF Exit
<1>11. ASSUME NEW p \in Slot, NEW i \in DOMAIN waits[p], TimeUp(p, i) PROVE ClearInv'
  BY <1>8, <1>11, UnderWay DEF TimeUp, Live
<1>12. CASE Restart \/ (\E p \in Slot : Forced(p)) \/ (\E p \in Slot : \E s \in State : Status(p, s))
            \/ \E r \in Req : Request(r) \/ Settle(r)
  BY <1>2, <1>12 DEF Restart, Forced, Status, Request, Settle
<1> QED
  BY <1>3, <1>4, <1>5, <1>6, <1>7, <1>9, <1>10, <1>11, <1>12 DEF HostNext

(* main.ts:323: whoever neither quits twice nor saves while the shutdown    *)
(* waits leaves no master code behind that was to be cleared: the callers   *)
(* that go on when the child exits do not bring it back.                    *)
THEOREM MasterCodeCleared == Spec => []ClearedOnExit
<1>1. PanelInit => ClearInv
  BY DEF PanelInit, DeskInit, Init, ClearInv
<1>2. DeskInv /\ ClearInv /\ [Next]_all => ClearInv'
  BY ClearInvStep, StepsOfTheHost DEF DeskInv
<1>3. ClearInv => ClearedOnExit
  BY DEF ClearInv, ClearedOnExit
<1> QED
  BY <1>1, <1>2, <1>3, AlwaysDeskInv, PTL DEF Spec

-----------------------------------------------------------------------------
(* The information window of the tray *)

NoneAsks == \A r \in Req : asks[r].what # "info"

\* The URL that will be shown last, if the images come in order.
LastIsNow == tray.inOrder /\ tray.shows # <<>> /\ NoneAsks => tray.shows[Len(tray.shows)].url = tray.token

InfoInv == InfoIsCurrent /\ LastIsNow

\* A step that leaves what it shows, and starts or goes on with making it.
InfoKept ==
    /\ tray'.info = tray.info /\ tray'.token = tray.token /\ tray'.inOrder = tray.inOrder
    /\ \/ tray'.shows = tray.shows /\ (NoneAsks' => NoneAsks)
       \/ tray'.shows # <<>> /\ tray'.shows[Len(tray'.shows)].url = tray'.token

LEMMA InfoKeptSuffices == InfoInv /\ InfoKept => InfoInv'
BY DEF InfoInv, LastIsNow, InfoIsCurrent, InfoKept, NobodyShows, NoneAsks

\* A request takes no other's place.
LEMMA AskedAlone ==
    ASSUME DeskInv, NEW what \in Wishes, NEW by \in Nat, NEW code \in Code \cup {None}, Asked(what, by, code)
    PROVE  /\ NoneAsks' => NoneAsks
           /\ what = "info" => ~NoneAsks'
<1>1. TypeOK /\ asks \in [Req -> Ask] /\ AsksMatch
  BY DEF DeskInv, HostInv, DeskPart
<1>2. Req \ Pending # {}
  BY <1>1, FreeRequest DEF Asked
<1> PICK r \in Req \ Pending : asks' = [asks EXCEPT ![r] = [Nothing EXCEPT !.what = what, !.by = by, !.code = code]]
  BY <1>2 DEF Asked
<1>3. asks[r].what = "nothing" /\ asks'[r].what = what
  BY <1>1 DEF AsksMatch, Pending, Nothing
<1>4. \A q \in Req : q # r => asks'[q] = asks[q]
  BY <1>1
<1> QED
  BY <1>3, <1>4 DEF NoneAsks

LEMMA InfoKeptByAsking ==
    ASSUME DeskInv, UNCHANGED tray, NEW what \in Wishes, NEW by \in Nat, NEW code \in Code \cup {None},
           Asked(what, by, code)
    PROVE  InfoKept
BY AskedAlone DEF InfoKept

\* The last of a sequence that grew at its end.
LEMMA LastOfConcat ==
    ASSUME NEW s \in Seq(Info), NEW x \in Seq(Info), x # <<>>
    PROVE  s \o x # <<>> /\ (s \o x)[Len(s \o x)] = x[Len(x)]
<1>1. Len(x) # 0 /\ Len(x) \in Nat /\ Len(s) \in Nat
  OBVIOUS
<1>2. Len(s \o x) = Len(s) + Len(x)
  OBVIOUS
<1>3. (s \o x)[Len(s) + Len(x)] = x[Len(x)]
  BY <1>1
<1> QED
  BY <1>1, <1>2, <1>3

LEMMA LastAppended ==
    ASSUME NEW s \in Seq(Info), NEW x \in Info
    PROVE  Append(s, x) # <<>> /\ Append(s, x)[Len(Append(s, x))] = x
<1>1. Len(Append(s, x)) = Len(s) + 1 /\ Len(s) \in Nat /\ Len(<<>>) = 0
  OBVIOUS
<1>2. Append(s, x)[Len(s) + 1] = x
  OBVIOUS
<1> QED
  BY <1>1, <1>2

LEMMA InfoKeptByEnds ==
    ASSUME DeskInv, host'.asked = Unanswered, NEW first, NEW last, EndsUnanswered(first, last)
    PROVE  InfoKept
<1>1. tray \in Tray /\ AsksMatch /\ tray.shows \in Seq(Info)
  BY DEF DeskInv, DeskPart, Tray
<1> DEFINE links == [i \in 1 .. Cardinality(Infos) |-> Link(FALSE)]
<1>2. /\ tray'.info = tray.info /\ tray'.token = tray.token /\ tray'.inOrder = tray.inOrder
      /\ tray'.shows = tray.shows \o links
  BY <1>1 DEF EndsUnanswered, Infos, Tray
<1>3. Cardinality(Infos) \in Nat /\ (Infos # {} => Cardinality(Infos) # 0)
  BY FailedType
<1>4. links \in Seq(Info)
  <2>1. links \in [1 .. Cardinality(Infos) -> Info]
    BY <1>1, LinkType
  <2> QED
    BY <1>3, <2>1, FunctionIsSeq
<1>5. Len(links) = Cardinality(Infos) /\ \A i \in 1 .. Len(links) : links[i].url = tray.token
  BY <1>3 DEF Link
<1> HIDE DEF links
<1>6. CASE links = <<>>
  <2>1. Infos = {}
    BY <1>3, <1>5, <1>6
  <2>2. \A r \in Req : asks[r].what = "info" => r \in Dropped
    BY <1>1 DEF AsksMatch, Dropped, Pending, Unanswered
  <2>3. NoneAsks
    BY <2>1, <2>2 DEF Infos, NoneAsks
  <2>4. tray'.shows = tray.shows
    BY <1>1, <1>2, <1>6
  <2> QED
    BY <1>2, <2>3, <2>4 DEF InfoKept
<1>7. CASE links # <<>>
  <2>1. Len(links) \in 1 .. Len(links)
    BY <1>4, <1>7
  <2>2. tray'.shows # <<>> /\ tray'.shows[Len(tray'.shows)] = links[Len(links)]
    BY <1>1, <1>2, <1>4, <1>7, LastOfConcat
  <2> QED
    BY <1>2, <1>5, <2>1, <2>2 DEF InfoKept
<1> QED
  BY <1>6, <1>7

\* What showAccessInfo begins is under way when it returns, of this token.
LEMMA ShowsBegun ==
    ASSUME DeskInv, NEW t \in Tray, ShowAccessInfo(t)
    PROVE  InfoInv'
<1>1. CASE Asked("info", 0, None)
  <2>1. ~NoneAsks'
    BY <1>1, AskedAlone DEF Wishes
  <2> QED
    BY <2>1 DEF InfoInv, InfoIsCurrent, LastIsNow, NobodyShows, NoneAsks
<1>2. CASE tray' = [t EXCEPT !.shows = Append(@, [relay |-> FALSE, url |-> t.token])]
  <2> DEFINE link == [relay |-> FALSE, url |-> t.token]
  <2>1. link \in Info /\ t.shows \in Seq(Info) /\ link.url = t.token
    BY DEF Info, Tray
  <2>2. tray'.shows = Append(t.shows, link) /\ tray'.token = t.token
    BY <1>2 DEF Tray
  <2> HIDE DEF link
  <2>3. tray'.shows # <<>> /\ tray'.shows[Len(tray'.shows)].url = tray'.token
    BY <2>1, <2>2, LastAppended
  <2> QED
    BY <2>3 DEF InfoInv, InfoIsCurrent, LastIsNow, NobodyShows
<1> QED
  BY <1>1, <1>2 DEF ShowAccessInfo

LEMMA InfoKeptByAnswer ==
    ASSUME DeskInv, NEW r \in Req, Answered(r)
    PROVE  InfoKept
<1>1. tray \in Tray /\ tray.shows \in Seq(Info) /\ asks \in [Req -> Ask] /\ asks' = [asks EXCEPT ![r] = Nothing]
  BY DEF DeskInv, DeskPart, Tray, Answered
<1>2. CASE asks[r].what = "info"
  <2> DEFINE link == Link(asks[r].got # None)
  <2>1. tray' = [tray EXCEPT !.shows = Append(tray.shows, link)]
    BY <1>1, <1>2 DEF Answered, Tray
  <2>2. link \in Info /\ link.url = tray.token
    BY <1>1, LinkType DEF Link
  <2> HIDE DEF link
  <2>3. /\ tray'.info = tray.info /\ tray'.token = tray.token /\ tray'.inOrder = tray.inOrder
        /\ tray'.shows = Append(tray.shows, link)
    BY <1>1, <2>1 DEF Tray
  <2> QED
    BY <1>1, <2>2, <2>3, LastAppended DEF InfoKept
<1>3. CASE asks[r].what # "info"
  <2>1. tray' = tray
    BY <1>3 DEF Answered
  <2>2. \A q \in Req : asks[q].what = "info" => asks'[q].what = "info"
    BY <1>1, <1>3
  <2> QED
    BY <2>1, <2>2 DEF InfoKept, NoneAsks
<1> QED
  BY <1>2, <1>3

\* The first of the calls is over.
LEMMA WithoutTheFirst ==
    ASSUME NEW s \in Seq(Info), 1 \in DOMAIN s
    PROVE  /\ RemoveAt(s, 1) = <<>> => Len(s) = 1
           /\ RemoveAt(s, 1) # <<>> => RemoveAt(s, 1)[Len(RemoveAt(s, 1))] = s[Len(s)]
<1>1. Len(s) \in Nat /\ Len(s) >= 1
  OBVIOUS
<1>2. RemoveAt(s, 1) = SubSeq(s, 1, 0) \o SubSeq(s, 2, Len(s))
  BY DEF RemoveAt
<1>3. Len(SubSeq(s, 1, 0)) = 0 /\ SubSeq(s, 1, 0) \in Seq(Info)
  OBVIOUS
<1>4. /\ SubSeq(s, 2, Len(s)) \in Seq(Info) /\ Len(SubSeq(s, 2, Len(s))) = Len(s) - 1
      /\ \A j \in 1 .. Len(s) - 1 : SubSeq(s, 2, Len(s))[j] = s[j + 1]
  <2>1. SubSeq(s, 2, Len(s)) \in Seq(Info)
    BY <1>1
  <2>2. Len(SubSeq(s, 2, Len(s))) = Len(s) - 1
    <3>1. \A i \in 2 .. Len(s) : s[i] \in Info
      OBVIOUS
    <3>2. Len(SubSeq(s, 2, Len(s))) = IF 2 <= Len(s) THEN Len(s) - 2 + 1 ELSE 0
      BY <1>1, <3>1, SubSeqProperties
    <3> DEFINE n == Len(s)
               m == Len(SubSeq(s, 2, n))
    <3>3. n \in Nat /\ n >= 1 /\ m = IF 2 <= n THEN n - 2 + 1 ELSE 0
      BY <1>1, <3>2
    <3> HIDE DEF n, m
    <3>4. m = n - 1
      BY <3>3
    <3> QED
      BY <3>4 DEF n, m
  <2>3. ASSUME NEW j \in 1 .. Len(s) - 1 PROVE SubSeq(s, 2, Len(s))[j] = s[j + 1]
    <3>1. 2 + j - 1 = j + 1 /\ j \in 1 .. Len(s) + 1 - 2
      BY <1>1
    <3>2. SubSeq(s, 2, Len(s))[j] = s[2 + j - 1]
      BY <1>1, <2>3
    <3> QED
      BY <3>1, <3>2
  <2> QED
    BY <2>1, <2>2, <2>3
<1>5. Len(RemoveAt(s, 1)) = Len(s) - 1
  BY <1>2, <1>3, <1>4
<1>6. \A j \in 1 .. Len(s) - 1 : RemoveAt(s, 1)[j] = s[j + 1]
  BY <1>1, <1>2, <1>3, <1>4
<1>7. RemoveAt(s, 1) \in Seq(Info)
  BY <1>2, <1>3, <1>4
<1>8. CASE Len(s) = 1
  <2>1. Len(RemoveAt(s, 1)) = 0
    BY <1>5, <1>8
  <2> QED
    BY <1>7, <1>8, <2>1
<1>9. CASE Len(s) # 1
  <2>1. Len(s) - 1 \in 1 .. Len(s) - 1 /\ Len(s) - 1 + 1 = Len(s)
    BY <1>1, <1>9
  <2>2. RemoveAt(s, 1)[Len(RemoveAt(s, 1))] = s[Len(s)]
    BY <1>5, <1>6, <2>1
  <2>3. RemoveAt(s, 1) # <<>>
    BY <1>5, <2>1
  <2> QED
    BY <2>2, <2>3
<1> QED
  BY <1>8, <1>9

LEMMA InfoKeptByQr ==
    ASSUME DeskInv, InfoInv, NEW i \in DOMAIN tray.shows, QrReady(i)
    PROVE  InfoInv'
<1> DEFINE info == [relay |-> tray.shows[i].relay, url |-> tray.shows[i].url, token |-> tray.token]
<1>1. tray \in Tray /\ tray.shows \in Seq(Info)
  BY DEF DeskInv, DeskPart, Tray
<1>2. /\ tray'.info = info /\ tray'.token = tray.token /\ tray'.shows = RemoveAt(tray.shows, i)
      /\ tray'.inOrder = (tray.inOrder /\ i = 1) /\ NoneAsks' = NoneAsks
  BY <1>1 DEF QrReady, Tray, NoneAsks
<1>3. info.token = tray.token /\ info.url = tray.shows[i].url
  OBVIOUS
<1> HIDE DEF info
<1>4. CASE i # 1
  BY <1>2, <1>3, <1>4 DEF InfoInv, InfoIsCurrent, LastIsNow
<1>5. CASE i = 1
  <2>1. /\ tray'.shows = <<>> => Len(tray.shows) = 1
        /\ tray'.shows # <<>> => tray'.shows[Len(tray'.shows)] = tray.shows[Len(tray.shows)]
    BY <1>1, <1>2, <1>5, WithoutTheFirst
  <2>2. tray.shows # <<>>
    OBVIOUS
  <2>3. tray.inOrder /\ NoneAsks => tray.shows[Len(tray.shows)].url = tray.token
    BY <2>2 DEF InfoInv, LastIsNow
  <2>4. LastIsNow'
    BY <1>2, <2>1, <2>3 DEF LastIsNow
  <2>5. InfoIsCurrent'
    BY <1>2, <1>3, <1>5, <2>1, <2>3 DEF InfoIsCurrent, NobodyShows, NoneAsks
  <2> QED
    BY <2>4, <2>5 DEF InfoInv
<1> QED
  BY <1>4, <1>5

\* A step that leaves all the property speaks of.
LEMMA InfoKeptAtRest ==
    UNCHANGED <<asks, tray>> => InfoKept
BY DEF InfoKept, NoneAsks

LEMMA InfoWithWindows ==
    ASSUME DeskInv, InfoInv, Windows
    PROVE  InfoInv'
<1>1. tray \in Tray /\ tray.token \in 0 .. MaxTokens
  BY DEF DeskInv, DeskPart, Tray
<1>2. CASE BootUp
  <2>1. /\ UNCHANGED asks /\ tray'.info = tray.info /\ tray'.token = tray.token
        /\ tray'.inOrder = tray.inOrder /\ tray'.shows = tray.shows
    BY <1>1, <1>2 DEF BootUp, Tray
  <2>2. InfoKept
    BY <2>1 DEF InfoKept, NoneAsks
  <2> QED
    BY <2>2, InfoKeptSuffices
<1>3. CASE ShowWindow \/ PageLoads
  BY <1>3, InfoKeptAtRest, InfoKeptSuffices DEF ShowWindow, PageLoads
<1>4. CASE ViewAccess
  BY <1>1, <1>4, ShowsBegun DEF ViewAccess
<1>5. CASE RotateToken
  <2> DEFINE t == [tray EXCEPT !.token = @ + 1, !.menu = Summary(host, saved)]
  <2>1. Summary(host, saved) \in {"off", "conn", "on"}
    BY DEF Summary
  <2>2. tray.token + 1 \in 0 .. MaxTokens
    BY <1>1, <1>5, DeskAssumption DEF RotateToken
  <2>3. t \in Tray
    BY <1>1, <2>1, <2>2 DEF Tray
  <2>4. ShowAccessInfo(t)
    BY <1>5 DEF RotateToken
  <2> HIDE DEF t
  <2> QED
    BY <2>3, <2>4, ShowsBegun
<1>6. CASE CloseInfo
  <2>1. tray'.info = None /\ tray'.token = tray.token /\ tray'.inOrder = tray.inOrder
        /\ tray'.shows = tray.shows /\ UNCHANGED asks
    BY <1>1, <1>6 DEF CloseInfo, Tray
  <2> QED
    BY <2>1 DEF InfoInv, InfoIsCurrent, LastIsNow, NoneAsks
<1>7. CASE CopyShare
  BY <1>7, InfoKeptByAsking, InfoKeptSuffices DEF CopyShare, Wishes
<1>8. ASSUME NEW r \in Req, Serve(r) PROVE InfoInv'
  <2>1. \A q \in Req : asks'[q].what = asks[q].what
    BY <1>8 DEF Serve, DeskInv, DeskPart, Ask
  <2>2. InfoKept
    BY <1>8, <2>1 DEF Serve, InfoKept, NoneAsks
  <2> QED
    BY <2>2, InfoKeptSuffices
<1>9. ASSUME NEW r \in Req, Answered(r) PROVE InfoInv'
  BY <1>9, InfoKeptByAnswer, InfoKeptSuffices
<1>10. ASSUME NEW i \in DOMAIN tray.shows, QrReady(i) PROVE InfoInv'
  BY <1>10, InfoKeptByQr
<1> QED
  BY <1>2, <1>3, <1>4, <1>5, <1>6, <1>7, <1>8, <1>9, <1>10 DEF Windows

LEMMA InfoWithPage ==
    ASSUME DeskInv, Messages \/ User
    PROVE  InfoKept
<1>0. panel.id \in Nat
  BY DeskInvTypes DEF DeskInv, DeskPart, Panel
<1>1. UNCHANGED tray
  <2>1. CASE Messages
    BY <2>1 DEF Messages, OnStatus, OnSettings, OnApplied, OnPreview, OnListed, OnDone, OnView, OnForced
  <2>2. CASE User
    BY <2>2 DEF User, OpenRelaySettings, ClosePanel, CloseWindow, Edit, SavedElsewhere, TypeToken, PreviewToken,
       Save, ApplyToken, ForceRegister, Share, Revoke, View, CloseMask, deskVars
  <2> QED
    BY <2>1, <2>2
<1>2. UNCHANGED asks => InfoKept
  BY <1>1, InfoKeptAtRest
<1>3. RefreshSubcodes => InfoKept
  BY <1>0, <1>1, <1>2, InfoKeptByAsking DEF RefreshSubcodes, Wishes
<1>4. CASE Messages
  BY <1>2, <1>3, <1>4 DEF Messages, OnStatus, OnSettings, OnApplied, OnPreview, OnListed, OnDone, OnView, OnForced
<1>5. CASE OpenRelaySettings
  <2>1. CASE Asked("list", panel.id + 1, None)
    <3>1. panel.id + 1 \in Nat
      BY <1>0
    <3> QED
      BY <1>1, <2>1, <3>1, InfoKeptByAsking DEF Wishes
  <2> QED
    BY <1>2, <1>5, <2>1 DEF OpenRelaySettings
<1>6. CASE ForceRegister
  BY <1>0, <1>1, <1>6, InfoKeptByAsking DEF ForceRegister, Wishes
<1>7. ASSUME NEW code \in Code, Share(code) \/ Revoke(code) \/ View(code) PROVE InfoKept
  <2>1. \/ UNCHANGED asks
        \/ \E what \in Wishes : Asked(what, panel.id, code)
    BY <1>7 DEF Share, Revoke, View, Wishes
  <2> QED
    BY <1>0, <1>1, <1>2, <2>1, InfoKeptByAsking
<1>8. CASE ~(OpenRelaySettings \/ ForceRegister \/ \E code \in Code : Share(code) \/ Revoke(code) \/ View(code)) /\ User
  <2>1. UNCHANGED asks
    BY <1>8 DEF User, ClosePanel, CloseWindow, Edit, SavedElsewhere, TypeToken, PreviewToken, Save, ApplyToken,
       CloseMask, deskVars
  <2> QED
    BY <1>2, <2>1
<1> QED
  BY <1>4, <1>5, <1>6, <1>7, <1>8

LEMMA InfoStep == DeskInv /\ InfoInv /\ [Next]_all => InfoInv'
<1> SUFFICES ASSUME DeskInv, InfoInv, [Next]_all PROVE InfoInv'
  OBVIOUS
<1>1. tray \in Tray
  BY DEF DeskInv, DeskPart
<1>2. CASE Quiet \/ UNCHANGED all
  BY <1>2, InfoKeptAtRest, InfoKeptSuffices DEF Quiet, all, deskVars
<1>3. CASE Leaves
  BY <1>3 DEF Leaves, AllGone, InfoInv, InfoIsCurrent, LastIsNow
<1>4. CASE Windows
  BY <1>4, InfoWithWindows
<1>5. CASE Messages \/ User
  BY <1>5, InfoWithPage, InfoKeptSuffices
<1>6. ASSUME NEW p \in Slot, ExitTold(p) PROVE InfoInv'
  <2>1. host'.asked = Unanswered
    BY <1>6, NobodyAsked DEF ExitTold, DeskInv
  <2>2. \E first, last : EndsUnanswered(first, last)
    BY <1>6 DEF ExitTold
  <2> QED
    BY <2>1, <2>2, InfoKeptByEnds, InfoKeptSuffices
<1>7. ASSUME NEW p \in Slot, NEW i \in DOMAIN waits[p], TimeUpTold(p, i) PROVE InfoInv'
  <2>1. host'.asked = Unanswered
    BY <1>7, NobodyAsked DEF TimeUpTold, DeskInv
  <2>2. \E first, last : EndsUnanswered(first, last)
    BY <1>7 DEF TimeUpTold
  <2> QED
    BY <2>1, <2>2, InfoKeptByEnds, InfoKeptSuffices
<1>8. ASSUME NEW p \in Slot, NEW s \in State, StatusTold(p, s) PROVE InfoInv'
  <2>1. /\ UNCHANGED asks /\ tray'.info = tray.info /\ tray'.token = tray.token
        /\ tray'.inOrder = tray.inOrder /\ tray'.shows = tray.shows
    BY <1>1, <1>8 DEF StatusTold, Tray
  <2>2. InfoKept
    BY <2>1 DEF InfoKept, NoneAsks
  <2> QED
    BY <2>2, InfoKeptSuffices
<1> QED
  BY <1>2, <1>3, <1>4, <1>5, <1>6, <1>7, <1>8 DEF Next

(* tray.ts:151, 181: once nobody is making it any more, the information     *)
(* window shows the token of now in its row, and, if no QR image overtook   *)
(* an earlier one, in its URL and image, however rotations, answers of the  *)
(* plugin and its ends interleave.                                          *)
THEOREM WindowShowsTheToken == Spec => []InfoIsCurrent
<1>1. PanelInit => InfoInv
  BY DEF PanelInit, DeskInit, InfoInv, InfoIsCurrent, LastIsNow
<1>2. DeskInv /\ InfoInv /\ [Next]_all => InfoInv'
  BY InfoStep
<1>3. InfoInv => InfoIsCurrent
  BY DEF InfoInv
<1> QED
  BY <1>1, <1>2, <1>3, AlwaysDeskInv, PTL DEF Spec

-----------------------------------------------------------------------------
(* The banner of the settings panel *)

\* Another device has the channel.
Contested(s) == s \in {"occupied", "parked"}

\* Without a child the host knows of no other device.
Calm == ~world.late /\ host.child = None => ~Contested(host.state)

LEMMA MayStartCalm ==
    ASSUME NEW h, ~Contested(h.state), NEW g, NEW cs, MayStart(h, g, cs)
    PROVE  ~Contested(g.state)
BY DEF MayStart, Started, Contested

LEMMA StopKeepsState ==
    ASSUME host \in Host, Ticks(host), Calm, ~world.late, NEW next \in Config \cup {None}, NEW by, Stop(next, by)
    PROVE  /\ Contested(host'.state) <=> Contested(host.state)
           /\ host'.child = None => ~Contested(host'.state)
<1> DEFINE g == StopBegins(host)
<1>1. g.child = host.child /\ g.state = IF host.child = None THEN "stopped" ELSE host.state
  BY StopBeginsIs
<1> HIDE DEF g
<1>2. CASE Unhindered(next)
  <2>1. ~Contested(host.state) /\ ~Contested(g.state)
    BY <1>1, <1>2 DEF Unhindered, Calm, Contested
  <2>2. ~Contested(host'.state)
    BY <1>2, <2>1, MayStartCalm DEF Unhindered, g
  <2> QED
    BY <2>1, <2>2
<1>3. CASE Waiting(next, by)
  BY <1>1, <1>3 DEF Waiting, g
<1> QED
  BY <1>2, <1>3, StopIs

\* The steps that leave it to others who has the channel.
LEMMA StateKept ==
    ASSUME HostInv, Calm, ~world.late, app # "gone",
           \/ CertReady \/ Listening \/ Shutdown \/ Restart \/ UNCHANGED vars
           \/ \E taken \in BOOLEAN : ListenFails(taken)
           \/ \E c \in Config, by \in Caller \cup {None} : ApplySettings(c, by)
           \/ \E r \in Req : Request(r) \/ Settle(r)
           \/ \E p \in Slot : Forced(p)
    PROVE  /\ Contested(host'.state) <=> Contested(host.state)
           /\ host'.child = None => ~Contested(host'.state)
<1>1. host \in Host /\ Sound(host) /\ Lone(host) /\ Ticks(host) /\ saved \in Config
  BY DEF HostInv, Sound, TypeOK
<1>2. host'.state = host.state /\ host'.child = host.child =>
        /\ Contested(host'.state) <=> Contested(host.state)
        /\ host'.child = None => ~Contested(host'.state)
  BY DEF Calm
<1>3. CASE CertReady \/ UNCHANGED vars \/ \E taken \in BOOLEAN : ListenFails(taken)
  BY <1>2, <1>3 DEF CertReady, ListenFails, vars
<1>4. CASE Listening
  <2>1. host.child = None /\ host.cfg = None /\ host' = Continue(host, saved)
    BY <1>4 DEF Listening, HostInv, Up
  <2>2. Room(host)
    BY <1>1, <2>1, HostAssumption DEF Sound, Gated, Room
  <2>3. MayStart(host, host', {saved}) /\ ~Contested(host.state)
    BY <1>1, <2>1, <2>2, ContinueIs DEF Calm
  <2> QED
    BY <2>3, MayStartCalm
<1>5. CASE Shutdown
  BY <1>1, <1>5, StopKeepsState DEF Shutdown
<1>6. ASSUME NEW c \in Config, NEW by \in Caller \cup {None}, ApplySettings(c, by)
      PROVE  /\ Contested(host'.state) <=> Contested(host.state)
             /\ host'.child = None => ~Contested(host'.state)
  BY <1>1, <1>6, StopKeepsState DEF ApplySettings
<1>7. CASE Restart
  <2> DEFINE left == host.timers - 1
             fired == [host EXCEPT !.timer = FALSE, !.timers = left]
  <2>1. host.timers > 0 /\ Room(host) /\ host.timers \in Nat /\ left \in Nat
    BY <1>1, <1>7 DEF Restart, Host
  <2>2. host.child = None
    BY <1>1, <2>1 DEF Lone
  <2>3. host' = IF host.stopping THEN fired ELSE Spawn(fired)
    BY <1>1, <1>7 DEF Restart, Host
  <2> HIDE DEF left
  <2>4. fired \in Host /\ fired.state = host.state /\ fired.child = None /\ fired.proc = host.proc
    BY <1>1, <2>1, <2>2 DEF Host
  <2> HIDE DEF fired
  <2>5. Room(fired)
    BY <2>1, <2>4 DEF Room, Live
  <2>6. ~Contested(host.state)
    BY <2>2 DEF Calm
  <2>7. ~Contested(host'.state)
    BY <2>3, <2>4, <2>5, <2>6, SpawnStarts DEF Started, Contested
  <2> QED
    BY <2>6, <2>7
<1>8. ASSUME NEW p \in Slot, Forced(p) PROVE host'.state = host.state /\ host'.child = host.child
  <2>1. host' = [host EXCEPT !.proc = Killed(host, p)]
    BY <1>1, <1>8, KillIs DEF Forced
  <2> QED
    BY <1>1, <2>1 DEF Host
<1>9. ASSUME NEW r \in Req, Request(r) \/ Settle(r) PROVE host'.state = host.state /\ host'.child = host.child
  BY <1>1, <1>9 DEF Request, Settle, Host
<1> QED
  BY <1>2, <1>3, <1>4, <1>5, <1>6, <1>7, <1>8, <1>9

LEMMA ExitCalms ==
    ASSUME HostInv, NEW p \in Slot, Exit(p)
    PROVE  ~Contested(host'.state)
<1> DEFINE left == AllEnd(ExitHandler(host, p), p)
<1>1. p \in Live(host) /\ host' = Resumed(left, waits[p]) /\ host \in Host /\ waits[p] \in Seq(Call)
  BY DEF Exit, HostInv, TypeOK
<1>2. Sound(host)
  BY <1>1, UnderWay DEF HostInv
<1>3. left \in Host /\ left.child = None /\ Room(left) /\ left.state \in {"stopped", "reconnecting"}
  BY <1>1, <1>2, ExitKeepsSound, ExitLeaves
<1> HIDE DEF left
<1> QED
  BY <1>1, <1>3, ResumedIs, MayStartCalm DEF Contested

LEMMA StatusIs ==
    ASSUME HostInv, ~world.late, NEW p \in Slot, NEW s \in State, Status(p, s)
    PROVE  host'.state = s /\ host'.child # None
<1>1. p \in Live(host) /\ host \in Host /\ host' = [host EXCEPT !.state = s, !.told = s]
  BY DEF Status, SetState, Live, HostInv, TypeOK
<1>2. Lone(host)
  BY <1>1, UnderWay DEF HostInv, Sound
<1>3. host.child = p
  BY <1>1, <1>2 DEF Lone
<1> QED
  BY <1>1, <1>3, HostAssumption DEF Host

LEMMA CalmStep ==
    ASSUME HostInv, Calm, HostNext \/ UNCHANGED vars
    PROVE  Calm'
<1> SUFFICES ASSUME ~world.late, host'.child = None PROVE ~Contested(host'.state)
  BY WorldStays DEF Calm
<1>1. CASE Launch
  BY <1>1 DEF Launch, Idle, Contested
<1>2. CASE Quit \/ QuitAgain
  <2>1. host'.state = host.state /\ host'.child = host.child
    BY <1>2 DEF Quit, QuitAgain, Leave, HostInv, TypeOK, Host
  <2> QED
    BY <2>1 DEF Calm
<1>3. CASE UNCHANGED vars
  BY <1>3 DEF vars, Calm
<1>4. ASSUME NEW p \in Slot, Exit(p) PROVE ~Contested(host'.state)
  BY <1>4, ExitCalms
<1>5. ASSUME NEW p \in Slot, NEW s \in State, Status(p, s) PROVE FALSE
  BY <1>5, StatusIs
<1>6. ASSUME NEW p \in Slot, NEW i \in DOMAIN waits[p], TimeUp(p, i) PROVE FALSE
  BY <1>6 DEF TimeUp
<1>7. CASE \/ CertReady \/ Listening \/ Shutdown \/ Restart
           \/ \E taken \in BOOLEAN : ListenFails(taken)
           \/ \E c \in Config, by \in Caller \cup {None} : ApplySettings(c, by)
           \/ \E r \in Req : Request(r) \/ Settle(r)
           \/ \E p \in Slot : Forced(p)
  <2>1. app # "gone"
    <3>1. CASE CertReady \/ Listening \/ Shutdown \/ Restart \/ \E taken \in BOOLEAN : ListenFails(taken)
      BY <3>1 DEF CertReady, Listening, Shutdown, Restart, ListenFails
    <3>2. CASE \E c \in Config, by \in Caller \cup {None} : ApplySettings(c, by)
      BY <3>2 DEF ApplySettings
    <3>3. ASSUME NEW r \in Req, Request(r) \/ Settle(r) PROVE app # "gone"
      BY <3>3, UnderWay DEF Request, Settle
    <3>4. ASSUME NEW p \in Slot, Forced(p) PROVE app # "gone"
      BY <3>4, UnderWay DEF Forced
    <3> QED
      BY <1>7, <3>1, <3>2, <3>3, <3>4
  <2> QED
    BY <1>7, <2>1, StateKept
<1> QED
  BY <1>1, <1>2, <1>3, <1>4, <1>5, <1>6, <1>7 DEF HostNext

\* The messages that set the banner, and those that set it as the state s does.
Bearing(m) == m.what \in {"status", "settings", "applied"}
Agreeing(s) == {m \in Message : Bearing(m) => (Contested(m.state) <=> Contested(s))}

\* When the page has these messages, its banner will tell of the state s.
Shows(msgs, banner, s) ==
    /\ \A i \in DOMAIN msgs :
          Bearing(msgs[i]) /\ (\A j \in DOMAIN msgs : j > i => ~Bearing(msgs[j]))
              => (Contested(msgs[i].state) <=> Contested(s))
    /\ (\A i \in DOMAIN msgs : ~Bearing(msgs[i])) => (banner <=> Contested(s))

LEMMA ShowsSame ==
    ASSUME NEW msgs, NEW banner, NEW s, NEW t, Contested(s) <=> Contested(t), Shows(msgs, banner, s)
    PROVE  Shows(msgs, banner, t)
BY DEF Shows

LEMMA ShowsMore ==
    ASSUME NEW w \in Seq(Message), NEW s, NEW ms \in Seq(Agreeing(s)), NEW banner,
           Shows(w, banner, s) \/ (ms # <<>> /\ Bearing(ms[1]))
    PROVE  Shows(w \o ms, banner, s)
<1> DEFINE all2 == w \o ms
           n == Len(w)
           k == Len(ms)
<1>1. ms \in Seq(Message)
  BY DEF Agreeing
<1>2. n \in Nat /\ k \in Nat /\ DOMAIN w = 1 .. n /\ DOMAIN ms = 1 .. k /\ DOMAIN all2 = 1 .. n + k
  BY <1>1
<1>3. \A i \in 1 .. n : i \in 1 .. n + k /\ all2[i] = w[i]
  BY <1>1
<1>4. \A i \in 1 .. k : n + i \in 1 .. n + k /\ all2[n + i] = ms[i]
  BY <1>1
<1>5. \A i \in 1 .. k : Bearing(ms[i]) => (Contested(ms[i].state) <=> Contested(s))
  <2>1. \A i \in 1 .. k : ms[i] \in Agreeing(s)
    BY <1>2
  <2> QED
    BY <2>1 DEF Agreeing
<1>6. (\A i \in 1 .. k : ~Bearing(ms[i])) => Shows(w, banner, s)
  <2>1. ms # <<>> => 1 \in 1 .. k
    OBVIOUS
  <2> QED
    BY <2>1
<1> HIDE DEF all2, n, k
<1>7. ASSUME NEW i \in DOMAIN all2, Bearing(all2[i]), \A j \in DOMAIN all2 : j > i => ~Bearing(all2[j])
      PROVE  Contested(all2[i].state) <=> Contested(s)
  <2>1. CASE i \in 1 .. n
    <3>1. \A j \in 1 .. k : ~Bearing(ms[j])
      <4> SUFFICES ASSUME NEW j \in 1 .. k PROVE ~Bearing(ms[j])
        OBVIOUS
      <4>1. n + j > i
        BY <1>2, <2>1
      <4> QED
        BY <1>2, <1>4, <1>7, <4>1
    <3>2. \A j \in DOMAIN w : j > i => ~Bearing(w[j])
      BY <1>2, <1>3, <1>7
    <3> QED
      BY <1>2, <1>3, <1>6, <1>7, <2>1, <3>1, <3>2 DEF Shows
  <2>2. CASE i \notin 1 .. n
    <3>1. i - n \in 1 .. k /\ n + (i - n) = i
      BY <1>2, <2>2
    <3> QED
      BY <1>4, <1>5, <1>7, <3>1
  <2> QED
    BY <2>1, <2>2
<1>8. ASSUME \A i \in DOMAIN all2 : ~Bearing(all2[i]) PROVE banner <=> Contested(s)
  <2>1. \A i \in DOMAIN w : ~Bearing(w[i])
    BY <1>2, <1>3, <1>8
  <2>2. \A i \in 1 .. k : ~Bearing(ms[i])
    BY <1>2, <1>4, <1>8
  <2> QED
    BY <1>6, <2>1, <2>2 DEF Shows
<1>9. Shows(all2, banner, s)
  BY <1>7, <1>8 DEF Shows
<1> QED
  BY <1>9 DEF all2

\* The page takes a message: its banner is as the message says, if it says so.
LEMMA ShowsTail ==
    ASSUME NEW w \in Seq(Message), w # <<>>, NEW banner, NEW s, Shows(w, banner, s), NEW shown,
           Bearing(Head(w)) => (shown <=> Contested(Head(w).state)),
           ~Bearing(Head(w)) => (shown <=> banner)
    PROVE  Shows(Tail(w), shown, s)
<1> DEFINE t == Tail(w)
           n == Len(w)
<1>1. n \in Nat /\ n > 0 /\ DOMAIN w = 1 .. n /\ DOMAIN t = 1 .. n - 1 /\ Head(w) = w[1] /\ t \in Seq(Message)
  OBVIOUS
<1>2. \A i \in 1 .. n - 1 : i + 1 \in 1 .. n /\ t[i] = w[i + 1]
  OBVIOUS
<1> HIDE DEF t, n
<1>3. ASSUME NEW i \in DOMAIN t, Bearing(t[i]), \A j \in DOMAIN t : j > i => ~Bearing(t[j])
      PROVE  Contested(t[i].state) <=> Contested(s)
  <2>1. i + 1 \in DOMAIN w /\ w[i + 1] = t[i]
    BY <1>1, <1>2
  <2>2. ASSUME NEW j \in DOMAIN w, j > i + 1 PROVE ~Bearing(w[j])
    <3>1. j - 1 \in DOMAIN t /\ j - 1 > i /\ (j - 1) + 1 = j
      BY <1>1, <2>2
    <3>2. t[j - 1] = w[j]
      BY <1>1, <1>2, <3>1
    <3> QED
      BY <1>3, <3>1, <3>2
  <2> QED
    BY <1>3, <2>1, <2>2 DEF Shows
<1>4. ASSUME \A i \in DOMAIN t : ~Bearing(t[i]) PROVE shown <=> Contested(s)
  <2>1. ASSUME NEW j \in DOMAIN w, j # 1 PROVE ~Bearing(w[j])
    <3>1. j - 1 \in DOMAIN t /\ (j - 1) + 1 = j
      BY <1>1, <2>1
    <3>2. t[j - 1] = w[j]
      BY <1>1, <1>2, <3>1
    <3> QED
      BY <1>4, <3>1, <3>2
  <2>2. 1 \in DOMAIN w /\ \A j \in DOMAIN w : j > 1 => j # 1
    BY <1>1
  <2>3. CASE Bearing(w[1])
    BY <1>1, <2>1, <2>2, <2>3 DEF Shows
  <2>4. CASE ~Bearing(w[1])
    <3>1. \A j \in DOMAIN w : ~Bearing(w[j])
      BY <2>1, <2>4
    <3> QED
      BY <1>1, <2>4, <3>1 DEF Shows
  <2> QED
    BY <2>3, <2>4
<1>5. Shows(t, shown, s)
  BY <1>3, <1>4 DEF Shows
<1> QED
  BY <1>5 DEF t

\* A panel is open in a live window, and nothing is left of those of a program
\* that has gone.
InWindow == (panel.open => window = "live") /\ (app = "gone" => window = "none")

LEMMA InWindowStep == DeskInv /\ InWindow /\ [Next]_all => InWindow'
<1> SUFFICES ASSUME DeskInv, InWindow, [Next]_all PROVE InWindow'
  OBVIOUS
<1>1. panel \in Panel /\ HostInv
  BY DEF DeskInv, DeskPart
<1>2. ASSUME window' = window \/ (window' # "none" /\ ~panel.open /\ app # "gone"), panel'.open = panel.open,
             app' = app \/ app' # "gone"
      PROVE  InWindow'
  BY <1>2 DEF InWindow
<1>3. CASE UNCHANGED all
  BY <1>2, <1>3 DEF all, vars, deskVars
<1>4. CASE Quiet
  <2>1. app' = app \/ app' # "gone"
    BY <1>4 DEF Quiet, CertReady, ListenFails, Launch, Shutdown, Goes, Restart, Forced
  <2> QED
    BY <1>2, <1>4, <2>1 DEF Quiet, deskVars, pageVars
<1>5. CASE Leaves
  BY <1>5 DEF Leaves, AllGone, New, InWindow
<1>6. CASE Windows
  <2>1. UNCHANGED panel
    BY <1>6 DEF Windows, pageVars
  <2>2. CASE BootUp
    <3>1. app # "gone" /\ app' = app
      BY <2>2 DEF BootUp, Listening
    <3>2. window' = window \/ (window = "none" /\ window' = "loading")
      BY <2>2 DEF BootUp, CreateWindow
    <3> QED
      BY <1>2, <2>1, <3>1, <3>2 DEF InWindow
  <2>3. CASE ShowWindow \/ PageLoads
    <3>1. app # "gone" /\ app' = app
      BY <2>3 DEF ShowWindow, PageLoads, vars
    <3>2. window' = window \/ (window \in {"none", "loading"} /\ window' # "none")
      BY <2>3 DEF ShowWindow, PageLoads, CreateWindow
    <3> QED
      BY <1>2, <2>1, <3>1, <3>2 DEF InWindow
  <2>4. CASE ViewAccess \/ RotateToken \/ CloseInfo \/ CopyShare
    <3>1. UNCHANGED <<window, app>>
      BY <2>4 DEF ViewAccess, RotateToken, ShowAccessInfo, CloseInfo, CopyShare, Asked, Request, vars
    <3> QED
      BY <1>2, <2>1, <3>1
  <2>5. ASSUME (\E r \in Req : Serve(r) \/ Answered(r)) \/ \E i \in DOMAIN tray.shows : QrReady(i) PROVE InWindow'
    <3>1. UNCHANGED <<window, app>>
      BY <2>5 DEF Serve, Answered, Settle, QrReady, vars
    <3> QED
      BY <1>2, <2>1, <3>1
  <2> QED
    BY <1>6, <2>2, <2>3, <2>4, <2>5 DEF Windows
<1>7. CASE Messages
  <2>1. UNCHANGED <<window, app>>
    BY <1>7 DEF Messages, OnStatus, OnSettings, OnApplied, OnPreview, OnListed, OnDone, OnView, OnForced,
       RefreshSubcodes, Asked, Request, vars
  <2>2. panel'.open = panel.open
    BY <1>1, <1>7 DEF Messages, OnStatus, OnSettings, OnApplied, OnPreview, OnListed, OnDone, OnView, OnForced,
       RenderConflict, Panel
  <2> QED
    BY <1>2, <2>1, <2>2
<1>8. CASE User
  <2>1. app' = app
    BY <1>8 DEF User, OpenRelaySettings, ClosePanel, CloseWindow, Edit, SavedElsewhere, TypeToken, PreviewToken,
       Save, ApplyToken, ForceRegister, Share, Revoke, View, CloseMask, ApplySettings, Asked, Request, vars
  <2>2. CASE OpenRelaySettings
    BY <2>1, <2>2 DEF OpenRelaySettings, Page, InWindow
  <2>3. CASE ClosePanel
    BY <2>1, <2>3 DEF ClosePanel, New, deskVars, InWindow
  <2>4. CASE CloseWindow
    BY <2>1, <2>4 DEF CloseWindow, New, InWindow
  <2>5. CASE ~(OpenRelaySettings \/ ClosePanel \/ CloseWindow)
    <3>1. window' = window /\ panel'.open = panel.open
      BY <1>1, <1>8, <2>5 DEF User, Edit, SavedElsewhere, TypeToken, PreviewToken, Save, ApplyToken, ForceRegister,
         Share, Revoke, View, CloseMask, pageVars, deskVars, Panel
    <3> QED
      BY <1>2, <2>1, <3>1
  <2> QED
    BY <2>2, <2>3, <2>4, <2>5
<1>9. ASSUME NEW p \in Slot,
             \/ ExitTold(p)
             \/ \E s \in State : StatusTold(p, s)
             \/ \E i \in DOMAIN waits[p] : TimeUpTold(p, i)
      PROVE  InWindow'
  <2>1. UNCHANGED <<window, panel>>
    BY <1>9 DEF ExitTold, StatusTold, TimeUpTold, pageVars
  <2>2. app' = app \/ app' # "gone"
    BY <1>9 DEF ExitTold, StatusTold, TimeUpTold, Exit, Status, TimeUp, Goes
  <2> QED
    BY <1>2, <2>1, <2>2
<1> QED
  BY <1>3, <1>4, <1>5, <1>6, <1>7, <1>8, <1>9 DEF Next

\* What the page has, and what it will have, tells who has the channel.
Shown == ~world.late /\ panel.open => Shows(wire, panel.banner, host.state)

TakeoverInv == InWindow /\ Calm /\ Shown

Kept == ~world.late /\ panel.open => (Contested(host'.state) <=> Contested(host.state))

LEMMA KeptBy ==
    ASSUME DeskInv, TakeoverInv,
           \/ CertReady \/ Listening \/ Shutdown \/ Restart \/ UNCHANGED vars
           \/ \E taken \in BOOLEAN : ListenFails(taken)
           \/ \E c \in Config, by \in Caller \cup {None} : ApplySettings(c, by)
           \/ \E r \in Req : Request(r) \/ Settle(r)
           \/ \E p \in Slot : Forced(p)
    PROVE  Kept
<1> SUFFICES ASSUME ~world.late, panel.open PROVE Contested(host'.state) <=> Contested(host.state)
  BY DEF Kept
<1>1. app # "gone" /\ HostInv /\ Calm
  BY DEF TakeoverInv, InWindow, DeskInv
<1> QED
  BY <1>1, StateKept

LEMMA KeptByAsking ==
    ASSUME DeskInv, NEW what, NEW by, NEW code, Asked(what, by, code)
    PROVE  Kept
<1>1. host'.state = host.state
  BY DEF Asked, Request, DeskInv, HostInv, TypeOK, Host
<1> QED
  BY <1>1 DEF Kept

\* A step that says nothing to the page.
LEMMA ShownStays ==
    ASSUME Shown, Kept, world' = world, wire' = wire, panel'.open => panel.open, panel'.banner = panel.banner
    PROVE  Shown'
<1> SUFFICES ASSUME ~world.late, panel.open PROVE Shows(wire, panel.banner, host'.state)
  BY DEF Shown
<1> QED
  BY ShowsSame DEF Shown, Kept

\* A step that does.
LEMMA ShownMore ==
    ASSUME DeskInv, TakeoverInv, world' = world, panel'.open = panel.open, panel'.banner = panel.banner,
           NEW msgs \in Seq(Agreeing(host'.state)), ToPage(msgs),
           Kept \/ (msgs # <<>> /\ Bearing(msgs[1]))
    PROVE  Shown'
<1> SUFFICES ASSUME ~world.late, panel.open PROVE Shows(wire', panel.banner, host'.state)
  BY DEF Shown
<1>1. wire \in Seq(Message) /\ wire' = wire \o msgs
  BY DEF DeskInv, DeskPart, TakeoverInv, InWindow, ToPage
<1>2. Kept => Shows(wire, panel.banner, host'.state)
  BY ShowsSame DEF TakeoverInv, Shown, Kept
<1> QED
  BY <1>1, <1>2, ShowsMore

LEMMA AnswersAgree == \A s : Answers \subseteq Agreeing(s)
<1> SUFFICES ASSUME NEW s, NEW m \in Answers PROVE m \in Agreeing(s)
  OBVIOUS
<1>1. m \in Message /\ ~Bearing(m)
  BY DEF Answers, Message, Bearing
<1> QED
  BY <1>1 DEF Agreeing

LEMMA SettingsAgree ==
    ASSUME TypeOK, NEW h \in Host, NEW c \in Config, NEW what \in {"settings", "applied"}, NEW by,
           IF what = "settings" THEN by \in Nat ELSE by \in Caller, NEW s, Contested(h.state) <=> Contested(s)
    PROVE  SettingsTo(what, by, h, c) \in Agreeing(s) /\ Bearing(SettingsTo(what, by, h, c))
<1>1. SettingsTo(what, by, h, c) \in Message
  BY SettingsToType
<1>2. SettingsTo(what, by, h, c).state = h.state /\ SettingsTo(what, by, h, c).what = what
  BY DEF SettingsTo
<1> QED
  BY <1>1, <1>2 DEF Agreeing, Bearing

LEMMA ShownWithWindows ==
    ASSUME DeskInv, TakeoverInv, Windows
    PROVE  Shown'
<1>1. panel' = panel /\ world' = world /\ Shown
  BY StepsOfTheHost, WorldStays DEF Windows, pageVars, Next, TakeoverInv
<1>2. Kept /\ wire' = wire => Shown'
  BY <1>1, ShownStays
<1>3. CASE BootUp
  BY <1>2, <1>3, KeptBy DEF BootUp
<1>4. CASE ShowWindow \/ PageLoads \/ CloseInfo
  BY <1>2, <1>4, KeptBy DEF ShowWindow, PageLoads, CloseInfo
<1>5. CASE ViewAccess \/ RotateToken \/ CopyShare
  <2>1. wire' = wire /\ (UNCHANGED vars \/ Asked("info", 0, None) \/ Asked("copy", 0, None))
    BY <1>5 DEF ViewAccess, RotateToken, ShowAccessInfo, CopyShare
  <2> QED
    BY <1>2, <2>1, KeptBy, KeptByAsking
<1>6. ASSUME NEW r \in Req, Serve(r) PROVE Shown'
  BY <1>2, <1>6, KeptBy DEF Serve
<1>7. ASSUME NEW i \in DOMAIN tray.shows, QrReady(i) PROVE Shown'
  BY <1>2, <1>7, KeptBy DEF QrReady
<1>8. ASSUME NEW r \in Req, Answered(r) PROVE Shown'
  <2> DEFINE ok == asks[r].got # None
             msgs == IF ForPage({r}) = {} THEN <<>> ELSE <<Answer(r, ok)>>
  <2>1. Kept /\ ToPage(msgs)
    BY <1>8, KeptBy DEF Answered
  <2>2. msgs \in Seq(Agreeing(host'.state))
    <3>1. CASE ForPage({r}) = {}
      <4>1. msgs = <<>>
        BY <3>1
      <4> QED
        BY <4>1, EmptySeq
    <3>2. CASE ForPage({r}) # {}
      <4>1. asks[r].what \notin {"nothing", "copy", "info"}
        BY <1>8, <3>2 DEF ForPage, DeskInv, DeskPart, AsksMatch, Answered, Settle
      <4>2. ok \in BOOLEAN /\ asks \in [Req -> Ask]
        BY DEF DeskInv, DeskPart
      <4> HIDE DEF ok
      <4>3. Answer(r, ok) \in Answers
        BY <4>1, <4>2, AnswerType
      <4>4. Answer(r, ok) \in Agreeing(host'.state)
        BY <4>3, AnswersAgree
      <4>5. msgs = <<Answer(r, ok)>>
        BY <3>2
      <4> HIDE DEF msgs
      <4> QED
        BY <4>4, <4>5
    <3> QED
      BY <3>1, <3>2
  <2> HIDE DEF msgs
  <2> QED
    BY <1>1, <2>1, <2>2, ShownMore
<1> QED
  BY <1>3, <1>4, <1>5, <1>6, <1>7, <1>8 DEF Windows

\* The page takes a message, and may ask for the sub-codes.
LEMMA Refreshed ==
    ASSUME DeskInv, RefreshSubcodes
    PROVE  /\ UNCHANGED vars \/ Asked("list", panel.id, None)
           /\ \/ wire' = Tail(wire)
              \/ \E m \in Answers : wire' = Append(Tail(wire), m)
<1>1. panel.id \in Nat
  BY DeskInvTypes DEF DeskInv, DeskPart, Panel
<1>2. [what |-> "list", by |-> panel.id, code |-> None, got |-> None] \in Answers
  BY <1>1 DEF Answers
<1> QED
  BY <1>2 DEF RefreshSubcodes

LEMMA ShownWithMessages ==
    ASSUME DeskInv, TakeoverInv, Messages
    PROVE  Shown'
<1> SUFFICES ASSUME ~world.late, panel'.open PROVE Shows(wire', panel'.banner, host'.state)
  BY StepsOfTheHost, WorldStays DEF Next, Shown
<1>1. wire \in Seq(Message) /\ panel \in Panel /\ wire # <<>>
  BY DEF DeskInv, DeskPart, Messages, OnStatus, OnSettings, OnApplied, OnPreview, OnListed, OnDone, OnView, OnForced,
     Takes
<1> PICK m \in Message : m = Head(wire)
  BY <1>1
<1>2. panel.open
  BY <1>1 DEF Messages, OnStatus, OnSettings, OnApplied, OnPreview, OnListed, OnDone, OnView, OnForced,
     RenderConflict, Panel
<1>3. Shows(wire, panel.banner, host.state)
  BY <1>2 DEF TakeoverInv, Shown
<1>4. /\ Bearing(m) => (panel'.banner <=> Contested(m.state))
      /\ ~Bearing(m) => (panel'.banner <=> panel.banner)
  <2>1. CASE OnStatus \/ OnSettings \/ OnApplied
    <3>1. Bearing(m)
      BY <2>1 DEF OnStatus, OnSettings, OnApplied, Takes, Bearing
    <3>2. \E q \in Panel : q.open /\ panel' = RenderConflict(q, m.state)
      <4>1. CASE OnStatus
        <5>1. m.state \in State
          BY <4>1, MessageParts DEF OnStatus, Takes
        <5>2. [panel EXCEPT !.state = m.state] \in Panel
          BY <1>1, <5>1 DEF Panel
        <5> QED
          BY <1>1, <1>2, <4>1, <5>2 DEF OnStatus, Panel
      <4>2. CASE OnSettings
        <5>1. m.cfg \in Config /\ m.state \in State /\ m.restart \in BOOLEAN
          BY <4>2, MessageParts DEF OnSettings, Takes
        <5>2. [panel EXCEPT !.form = m.cfg, !.state = m.state, !.restart = m.restart] \in Panel
          BY <1>1, <5>1 DEF Panel
        <5> QED
          BY <1>1, <1>2, <4>2, <5>2 DEF OnSettings, Panel
      <4>3. CASE OnApplied
        <5> DEFINE form == [m.cfg EXCEPT !.lan = panel.form.lan, !.clear = panel.form.clear]
        <5>1. m.cfg \in Config /\ m.state \in State /\ m.restart \in BOOLEAN
          BY <4>3, MessageParts DEF OnApplied, Takes
        <5>2. form \in Config
          BY <1>1, <5>1 DEF Panel, Config
        <5> HIDE DEF form
        <5>3. /\ [panel EXCEPT !.form = form, !.state = m.state, !.text = None, !.offered = FALSE] \in Panel
              /\ [panel EXCEPT !.state = m.state, !.restart = m.restart] \in Panel
          BY <1>1, <5>1, <5>2 DEF Panel
        <5>4. \E q \in {panel, [panel EXCEPT !.form = form, !.state = m.state, !.text = None, !.offered = FALSE],
                        [panel EXCEPT !.state = m.state, !.restart = m.restart]} :
                  panel' = RenderConflict(q, m.state)
          BY <4>3 DEF OnApplied, form
        <5>5. \A q \in {panel, [panel EXCEPT !.form = form, !.state = m.state, !.text = None, !.offered = FALSE],
                        [panel EXCEPT !.state = m.state, !.restart = m.restart]} :
                  q \in Panel /\ q.open
          BY <1>1, <1>2, <5>3 DEF Panel
        <5> QED
          BY <5>4, <5>5
      <4> QED
        BY <2>1, <4>1, <4>2, <4>3
    <3>3. panel'.banner <=> Contested(m.state)
      BY <3>2 DEF RenderConflict, Panel, Contested
    <3> QED
      BY <3>1, <3>3
  <2>2. CASE OnPreview \/ OnListed \/ OnDone \/ OnView \/ OnForced
    <3>1. ~Bearing(m)
      BY <2>2 DEF OnPreview, OnListed, OnDone, OnView, OnForced, Takes, Bearing
    <3>2. panel'.banner = panel.banner
      BY <1>1, <2>2 DEF OnPreview, OnListed, OnDone, OnView, OnForced, Panel
    <3> QED
      BY <3>1, <3>2
  <2> QED
    BY <2>1, <2>2 DEF Messages
<1>5. Shows(Tail(wire), panel'.banner, host.state)
  BY <1>1, <1>3, <1>4, ShowsTail
<1>6. /\ UNCHANGED vars \/ Asked("list", panel.id, None)
      /\ \/ wire' = Tail(wire)
         \/ \E a \in Answers : wire' = Append(Tail(wire), a)
  <2>1. (UNCHANGED vars /\ wire' = Tail(wire)) \/ RefreshSubcodes
    BY DEF Messages, OnStatus, OnSettings, OnApplied, OnPreview, OnListed, OnDone, OnView, OnForced
  <2> QED
    BY <2>1, Refreshed
<1>7. Contested(host'.state) <=> Contested(host.state)
  BY <1>2, <1>6, KeptBy, KeptByAsking DEF Kept
<1>8. Shows(Tail(wire), panel'.banner, host'.state)
  BY <1>5, <1>7, ShowsSame
<1>9. ASSUME NEW a \in Answers PROVE Shows(Append(Tail(wire), a), panel'.banner, host'.state)
  <2>1. Tail(wire) \in Seq(Message) /\ a \in Message /\ a \in Agreeing(host'.state)
    BY <1>1, AnswersAgree DEF Message
  <2>2. <<a>> \in Seq(Agreeing(host'.state)) /\ Append(Tail(wire), a) = Tail(wire) \o <<a>>
    BY <2>1
  <2> QED
    BY <1>8, <2>1, <2>2, ShowsMore
<1> QED
  BY <1>6, <1>8, <1>9

LEMMA ShownWhenApplied ==
    ASSUME DeskInv, TakeoverInv, NEW c \in Config, NEW by \in Caller \cup {None},
           ApplySettings(c, by), Applied(c, by), UNCHANGED panel
    PROVE  Shown'
<1> DEFINE m == SettingsTo("applied", by, host', saved')
           msgs == IF waits' # waits \/ by = None THEN <<>> ELSE <<m>>
<1>1. HostNext /\ Kept
  BY KeptBy DEF HostNext
<1>2. world' = world /\ HostInv' /\ TypeOK
  BY <1>1, WorldStays, HostInvSteps DEF DeskInv, HostInv
<1>3. host' \in Host /\ saved' \in Config
  BY <1>2 DEF HostInv, TypeOK
<1>4. by # None => m \in Agreeing(host'.state)
  BY <1>2, <1>3, SettingsAgree
<1> HIDE DEF m
<1>5. msgs \in Seq(Agreeing(host'.state))
  <2>1. CASE waits' # waits \/ by = None
    <3>1. msgs = <<>>
      BY <2>1
    <3> QED
      BY <3>1, EmptySeq
  <2>2. CASE ~(waits' # waits \/ by = None)
    <3>1. msgs = <<m>>
      BY <2>2
    <3> QED
      BY <1>4, <2>2, <3>1
  <2> QED
    BY <2>1, <2>2
<1>6. ToPage(msgs)
  BY DEF Applied, m
<1> HIDE DEF msgs
<1> QED
  BY <1>1, <1>2, <1>5, <1>6, ShownMore

LEMMA ShownWhenOpened ==
    ASSUME DeskInv, TakeoverInv, OpenRelaySettings
    PROVE  Shown'
<1> DEFINE id == panel.id + 1
           filling == SettingsTo("settings", id, host, saved)
           list == [what |-> "list", by |-> id, code |-> None, got |-> None]
<1>1. id \in Nat /\ TypeOK /\ host \in Host /\ saved \in Config /\ wire \in Seq(Message)
  BY DeskInvTypes DEF DeskInv, DeskPart, Panel, TypeOK
<1>2. host'.state = host.state /\ window = "live"
  BY <1>1 DEF OpenRelaySettings, Page, Asked, Request, vars, Host
<1>3. filling \in Agreeing(host'.state) /\ Bearing(filling)
  BY <1>1, <1>2, SettingsAgree
<1>4. list \in Agreeing(host'.state)
  <2>1. list \in Answers
    BY <1>1 DEF Answers
  <2> QED
    BY <2>1, AnswersAgree
<1>5. ToPage(<<filling>>) \/ ToPage(Append(<<filling>>, list))
  BY DEF OpenRelaySettings
<1> HIDE DEF filling, list
<1>6. ASSUME NEW msgs \in {<<filling>>, Append(<<filling>>, list)}
      PROVE  msgs \in Seq(Agreeing(host'.state)) /\ msgs # <<>> /\ Bearing(msgs[1])
  <2> DEFINE A == Agreeing(host'.state)
  <2>1. filling \in A /\ list \in A
    BY <1>3, <1>4
  <2> HIDE DEF A
  <2>2. msgs \in Seq(A) /\ Len(msgs) > 0 /\ msgs[1] = filling
    <3>1. CASE msgs = <<filling>>
      BY <2>1, <3>1
    <3>2. CASE msgs = Append(<<filling>>, list)
      <4> DEFINE one == <<filling>>
      <4>1. one \in Seq(A) /\ Len(one) = 1 /\ one[1] = filling
        BY <2>1
      <4> HIDE DEF one
      <4> QED
        BY <2>1, <3>2, <4>1 DEF one
    <3> QED
      BY <3>1, <3>2
  <2> QED
    BY <1>3, <2>2 DEF A
<1>7. ASSUME NEW msgs \in {<<filling>>, Append(<<filling>>, list)}, ToPage(msgs) PROVE Shown'
  <2>1. wire' = wire \o msgs
    BY <1>2, <1>7 DEF ToPage
  <2>2. Shows(wire \o msgs, panel'.banner, host'.state)
    BY <1>1, <1>6, ShowsMore
  <2> QED
    BY <2>1, <2>2 DEF Shown
<1> QED
  BY <1>5, <1>7

LEMMA ShownWithUser ==
    ASSUME DeskInv, TakeoverInv, User
    PROVE  Shown'
<1>1. /\ world' = world /\ panel \in Panel /\ Shown /\ panel.id \in Nat /\ saved \in Config
      /\ panel.form \in Config /\ world.configs \subseteq Config
  <2>1. world \in World
    BY HostAssumption DEF DeskInv, HostInv, TypeOK
  <2> QED
    BY <2>1, StepsOfTheHost, WorldStays, DeskInvTypes
       DEF Next, TakeoverInv, DeskInv, DeskPart, Panel, HostInv, TypeOK, World
<1>2. ASSUME UNCHANGED wire, panel'.open = panel.open, panel'.banner = panel.banner,
             UNCHANGED vars \/ \E what, by, code : Asked(what, by, code)
      PROVE  Shown'
  BY <1>1, <1>2, KeptBy, KeptByAsking, ShownStays
<1>3. ASSUME NEW m \in Message, ~Bearing(m), ToPage(<<m>>), panel'.open = panel.open, panel'.banner = panel.banner,
             UNCHANGED vars
      PROVE  Shown'
  <2>1. m \in Agreeing(host'.state)
    BY <1>3 DEF Agreeing
  <2>2. <<m>> \in Seq(Agreeing(host'.state))
    BY <2>1
  <2> QED
    BY <1>1, <1>3, <2>2, KeptBy, ShownMore
<1>4. CASE ClosePanel \/ CloseWindow
  BY <1>4 DEF ClosePanel, CloseWindow, New, Shown
<1>5. ASSUME (\E c \in world.configs : Edit(c)) \/ (\E at \in Relay : TypeToken(at)) \/ \E i \in DOMAIN masks : CloseMask(i)
      PROVE  Shown'
  <2>1. UNCHANGED <<vars, wire>> /\ panel'.open = panel.open /\ panel'.banner = panel.banner
    BY <1>1, <1>5 DEF Edit, TypeToken, CloseMask, deskVars, Panel
  <2> QED
    BY <1>2, <2>1
<1>6. ASSUME NEW c \in world.configs, SavedElsewhere(c) PROVE Shown'
  <2>1. ApplySettings(c, None) /\ UNCHANGED <<wire, panel>> /\ c \in Config
    BY <1>1, <1>6 DEF SavedElsewhere, deskVars, pageVars
  <2> QED
    BY <1>1, <2>1, KeptBy, ShownStays
<1>7. CASE PreviewToken
  <2> DEFINE m == [what |-> "preview", by |-> panel.id]
  <2>1. m \in Message /\ ~Bearing(m)
    BY <1>1 DEF Message, Bearing
  <2>2. ToPage(<<m>>) /\ UNCHANGED vars
    BY <1>7 DEF PreviewToken
  <2>3. panel'.open = panel.open /\ panel'.banner = panel.banner
    BY <1>1, <1>7 DEF PreviewToken, Panel
  <2> HIDE DEF m
  <2> QED
    BY <1>3, <2>1, <2>2, <2>3
<1>8. CASE Save
  <2> DEFINE by == [panel |-> panel.id, fill |-> FALSE]
  <2>1. by \in Caller
    BY <1>1 DEF Caller
  <2>2. ApplySettings(panel.form, by) /\ Applied(panel.form, by) /\ UNCHANGED panel
    BY <1>8 DEF Save, pageVars
  <2> HIDE DEF by
  <2> QED
    BY <1>1, <2>1, <2>2, ShownWhenApplied
<1>9. CASE ApplyToken
  <2> DEFINE by == [panel |-> panel.id, fill |-> TRUE]
             c == [saved EXCEPT !.on = TRUE, !.at = panel.text, !.code = TRUE]
  <2>1. by \in Caller /\ c \in Config
    BY <1>1, <1>9 DEF Caller, ApplyToken, Panel, Config
  <2>2. ApplySettings(c, by) /\ Applied(c, by) /\ UNCHANGED panel
    BY <1>9 DEF ApplyToken, pageVars
  <2> HIDE DEF by, c
  <2> QED
    BY <2>1, <2>2, ShownWhenApplied
<1>10. ASSUME ForceRegister \/ \E code \in Code : Share(code) \/ Revoke(code) PROVE Shown'
  BY <1>2, <1>10 DEF ForceRegister, Share, Revoke, pageVars
<1>11. ASSUME NEW code \in Code, View(code) PROVE Shown'
  <2> DEFINE m == [what |-> "view", by |-> panel.id, code |-> code, got |-> None]
  <2>1. m \in Message /\ ~Bearing(m)
    BY <1>1 DEF Message, Answers, Bearing
  <2>2. \/ Asked("view", panel.id, code) /\ UNCHANGED wire
        \/ ToPage(<<m>>) /\ UNCHANGED vars
    BY <1>11 DEF View
  <2>3. UNCHANGED panel
    BY <1>11 DEF View
  <2> HIDE DEF m
  <2> QED
    BY <1>2, <1>3, <2>1, <2>2, <2>3
<1> QED
  BY <1>4, <1>5, <1>6, <1>7, <1>8, <1>9, <1>10, <1>11, ShownWhenOpened DEF User

LEMMA ShownWithExit ==
    ASSUME DeskInv, TakeoverInv, NEW p \in Slot, ExitTold(p)
    PROVE  Shown'
<1> DEFINE e == ExitHandler(host, p)
           left == AllEnd(e, p)
           A == Agreeing(host'.state)
           first == StatusTo(e.told)
           failed == SetToSeq(Failed)
           last == Replies(waits[p], left)
<1>1. Exit(p) /\ EndsUnanswered(<<first>>, last) /\ UNCHANGED panel
  BY DEF ExitTold, pageVars
<1>2. HostNext /\ world' = world
  BY <1>1, WorldStays DEF HostNext
<1>3. p \in Live(host) /\ TypeOK /\ HostInv /\ host \in Host /\ waits[p] \in Seq(Call)
  BY <1>1 DEF Exit, DeskInv, HostInv, TypeOK
<1>4. Sound(host)
  BY <1>3, UnderWay DEF HostInv
<1>5. /\ e \in Host /\ e.told \in {"stopped", "reconnecting"}
      /\ left \in Host /\ left.child = None /\ Room(left) /\ left.state \in {"stopped", "reconnecting"}
  <2>0. host \in Host
    BY <1>3
  <2>1. /\ e \in Host /\ e.told = left.told /\ left \in Host /\ left.child = None
        /\ left.told = (IF host.stopping THEN "stopped" ELSE "reconnecting")
        /\ left.state = (IF host.stopping \/ waits[p] # <<>> THEN "stopped" ELSE "reconnecting")
    BY <2>0, ExitLeaves
  <2>2. Room(left)
    BY <1>3, <1>4, ExitKeepsSound
  <2> HIDE DEF e, left
  <2> QED
    BY <2>1, <2>2
<1>6. ~Contested(host'.state)
  BY <1>1, <1>3, ExitCalms
<1> HIDE DEF e, left
<1>7. first \in A /\ Bearing(first)
  BY <1>5, <1>6 DEF StatusTo, Agreeing, Message, Bearing, Contested, Host, State
<1>8. failed \in Seq(A)
  BY FailedType, AnswersAgree
<1>9. last \in Seq(A)
  <2>1. ASSUME NEW i \in DOMAIN waits[p], NEW by \in Caller
        PROVE  SettingsTo("applied", by, Resumed(left, SubSeq(waits[p], 1, i)), saved) \in A
    <3> DEFINE h == Resumed(left, SubSeq(waits[p], 1, i))
    <3>1. h \in Host /\ \E cs : MayStart(left, h, cs)
      BY <1>3, <1>5, ResumedHost
    <3> HIDE DEF h
    <3>2. ~Contested(h.state)
      BY <1>5, <3>1, MayStartCalm DEF Contested
    <3>3. SettingsTo("applied", by, h, saved) \in A
      BY <1>3, <1>6, <3>1, <3>2, SettingsAgree DEF TypeOK
    <3> QED
      BY <3>3 DEF h
  <2> QED
    BY <1>3, <2>1, RepliesIn
<1>10. ToPage(<<first>> \o failed \o last)
  BY <1>1 DEF EndsUnanswered, Failed
<1> HIDE DEF first, failed, last, A
<1>11. /\ <<first>> \o failed \o last \in Seq(A)
       /\ <<first>> \o failed \o last # <<>> /\ Bearing((<<first>> \o failed \o last)[1])
  <2>1. <<first>> \in Seq(A) /\ Len(<<first>>) = 1 /\ <<first>>[1] = first
    BY <1>7
  <2> DEFINE both == <<first>> \o failed
  <2>2. both \in Seq(A) /\ Len(both) > 0 /\ both[1] = first
    BY <1>8, <2>1
  <2> HIDE DEF both
  <2>3. both \o last \in Seq(A) /\ Len(both \o last) > 0 /\ (both \o last)[1] = first
    BY <1>9, <2>2
  <2> QED
    BY <1>7, <2>3 DEF both
<1> QED
  BY <1>1, <1>2, <1>10, <1>11, ShownMore DEF A

LEMMA ShownWithStatus ==
    ASSUME DeskInv, TakeoverInv, NEW p \in Slot, NEW s \in State, StatusTold(p, s)
    PROVE  Shown'
<1> DEFINE m == StatusTo(s)
<1>1. Status(p, s) /\ ToPage(<<m>>) /\ UNCHANGED panel
  BY DEF StatusTold, pageVars
<1>2. world' = world /\ HostInv
  BY <1>1, WorldStays DEF HostNext, DeskInv
<1>3. ASSUME ~world.late PROVE Shown'
  <2>1. host'.state = s
    BY <1>1, <1>2, <1>3, StatusIs
  <2>2. m \in Agreeing(host'.state) /\ Bearing(m)
    BY <2>1 DEF StatusTo, Agreeing, Message, Bearing
  <2> HIDE DEF m
  <2>3. <<m>> \in Seq(Agreeing(host'.state)) /\ <<m>> # <<>> /\ Bearing(<<m>>[1])
    BY <2>2
  <2> QED
    BY <1>1, <1>2, <2>3, ShownMore
<1> QED
  BY <1>2, <1>3 DEF Shown

LEMMA ShownStep == DeskInv /\ TakeoverInv /\ [Next]_all => Shown'
<1> SUFFICES ASSUME DeskInv, TakeoverInv, [Next]_all PROVE Shown'
  OBVIOUS
<1>1. world' = world /\ Shown
  BY StepsOfTheHost, WorldStays DEF TakeoverInv
<1>2. CASE UNCHANGED all
  BY <1>1, <1>2, KeptBy, ShownStays DEF all, deskVars
<1>3. CASE Quiet
  <2>1. UNCHANGED <<wire, panel>>
    BY <1>3 DEF Quiet, deskVars, pageVars
  <2>2. CASE Launch
    BY <2>1, <2>2 DEF Launch, TakeoverInv, InWindow, Shown
  <2>3. CASE ~Launch
    BY <1>1, <1>3, <2>1, <2>3, KeptBy, ShownStays DEF Quiet
  <2> QED
    BY <2>2, <2>3
<1>4. CASE Leaves
  BY <1>4 DEF Leaves, New, Shown
<1>5. ASSUME NEW p \in Slot, NEW i \in DOMAIN waits[p], TimeUpTold(p, i) PROVE Shown'
  BY <1>1, <1>5 DEF TimeUpTold, TimeUp, Shown
<1> QED
  BY <1>2, <1>3, <1>4, <1>5, ShownWithWindows, ShownWithMessages, ShownWithUser, ShownWithExit, ShownWithStatus
     DEF Next

(* relaySettings.ts:211: when every process goes as it is told, the button  *)
(* that takes the channel from another device is there exactly while the    *)
(* channel is another's, once the page has its messages: for every number of*)
(* panels, calls, crashes and messages, and whatever else they are about.   *)
THEOREM BannerFollows == Spec => []TakeoverOffered
<1>1. PanelInit => TakeoverInv
  BY DEF PanelInit, DeskInit, Init, Idle, New, TakeoverInv, InWindow, Calm, Contested, Shown
<1>2. DeskInv /\ TakeoverInv /\ [Next]_all => TakeoverInv'
  BY InWindowStep, CalmStep, ShownStep, StepsOfTheHost DEF DeskInv, TakeoverInv
<1>3. TakeoverInv => TakeoverOffered
  <2> SUFFICES ASSUME TakeoverInv, ~world.late, panel.open, wire = <<>>
               PROVE  panel.banner <=> Contested(host.state)
    BY DEF TakeoverOffered, Contested
  <2>1. DOMAIN wire = {}
    OBVIOUS
  <2> QED
    BY <2>1 DEF TakeoverInv, Shown, Shows
<1> QED
  BY <1>1, <1>2, <1>3, AlwaysDeskInv, PTL DEF Spec
=============================================================================
