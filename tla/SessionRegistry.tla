-------------------------- MODULE SessionRegistry --------------------------
(***************************************************************************)
(* The session registry of the desktop application                         *)
(* (src/main/sessionRegistry.ts) with the pty host it drives               *)
(* (src/main/ptyManager.ts): creation, natural exit racing kill, the       *)
(* leading and trailing resize, title polling and the throttled broadcast  *)
(* of the session list.                                                    *)
(*                                                                         *)
(* Abstracted: a size is one number standing for both dimensions; output   *)
(* and its replay buffer are left out; a session identifier is used once,  *)
(* as tab-<time>-<counter> is.  A timer is a Boolean: it runs or not, and  *)
(* may fire whenever it runs.                                              *)
(***************************************************************************)
EXTENDS Naturals, FiniteSets

CONSTANTS
    Session,     \* session identifiers
    Request,     \* sizes a consumer may ask for, zero included
    MaxSize,     \* upper clamp (1000 in the code)
    DefaultSize, \* 80x24
    Name,        \* process names a pty may report
    FirstTitle,  \* "Terminal"
    None         \* no pending resize

ASSUME RegistryAssumption ==
    /\ MaxSize \in Nat \ {0}
    /\ DefaultSize \in 1 .. MaxSize
    /\ Request \subseteq Nat
    /\ None \notin Nat
    /\ FirstTitle \in Name

VARIABLES
    phase,      \* new, live (in this.sessions) or over
    pty,        \* the process: none, up, dying (its exit event is on the way), gone
    dims,       \* the size the pty has
    name,       \* the process name the pty reports
    size,       \* info.cols, info.rows
    title,      \* info.title
    pending,    \* pendingResize
    timer,      \* resizeTimer is set
    asked,      \* history: the last size asked for
    exits,      \* history: exit events emitted
    shown,      \* the list in the last tabs event
    tabsTimer, tabsDirty, titleTimer

ptyVars  == <<pty, dims, name>>
infoVars == <<size, title>>
resizeVars == <<pending, timer, asked>>
tabsVars == <<shown, tabsTimer, tabsDirty>>
vars == <<phase, ptyVars, infoVars, resizeVars, exits, tabsVars, titleTimer>>

Sizes == 1 .. MaxSize
Live == {s \in Session : phase[s] = "live"}

(* list() *)
Listing == [s \in Live |-> [size |-> size[s], title |-> title[s]]]

TypeOK ==
    /\ phase \in [Session -> {"new", "live", "over"}]
    /\ pty \in [Session -> {"none", "up", "dying", "gone"}]
    /\ dims \in [Session -> Sizes]
    /\ name \in [Session -> Name]
    /\ size \in [Session -> Sizes]
    /\ title \in [Session -> Name]
    /\ pending \in [Session -> Nat \cup {None}]
    /\ timer \in [Session -> BOOLEAN]
    /\ asked \in [Session -> Nat]
    /\ exits \in [Session -> Nat]
    /\ tabsTimer \in BOOLEAN
    /\ tabsDirty \in BOOLEAN
    /\ titleTimer \in BOOLEAN

Init ==
    /\ phase = [s \in Session |-> "new"]
    /\ pty = [s \in Session |-> "none"]
    /\ dims = [s \in Session |-> DefaultSize]
    /\ name = [s \in Session |-> FirstTitle]
    /\ size = [s \in Session |-> DefaultSize]
    /\ title = [s \in Session |-> FirstTitle]
    /\ pending = [s \in Session |-> None]
    /\ timer = [s \in Session |-> FALSE]
    /\ asked = [s \in Session |-> DefaultSize]
    /\ exits = [s \in Session |-> 0]
    /\ shown = [s \in {} |-> {}]
    /\ tabsTimer = FALSE
    /\ tabsDirty = FALSE
    /\ titleTimer = FALSE

(* The clamp of applyResize. *)
Clamp(d) == IF d < 1 THEN 1 ELSE IF d > MaxSize THEN MaxSize ELSE d

Mutant_DropWhileThrottled ==
    \/ tabsTimer /\ UNCHANGED tabsVars
    \/ /\ ~tabsTimer
       /\ shown' = Listing'
       /\ tabsTimer' = TRUE
       /\ tabsDirty' = FALSE

Mutant_EmitBeforeChange ==
    \/ tabsTimer /\ tabsDirty' = TRUE /\ UNCHANGED <<shown, tabsTimer>>
    \/ /\ ~tabsTimer
       /\ shown' = Listing
       /\ tabsTimer' = TRUE
       /\ tabsDirty' = FALSE

(* scheduleTabs: emit now when idle, otherwise leave it to the running timer. *)
ScheduleTabs ==
    \/ tabsTimer /\ tabsDirty' = TRUE /\ UNCHANGED <<shown, tabsTimer>>
    \/ /\ ~tabsTimer
       /\ shown' = Listing'
       /\ tabsTimer' = TRUE
       /\ tabsDirty' = FALSE

-----------------------------------------------------------------------------
(* create: the pty is spawned with the size asked for, or the default.      *)
(* Sizes above the clamp are not asked for at creation: the window measures *)
(* its own terminal and remote clients always get the default.              *)
Create(s, d) ==
    /\ phase[s] = "new"
    /\ phase' = [phase EXCEPT ![s] = "live"]
    /\ pty' = [pty EXCEPT ![s] = "up"]
    /\ LET z == IF d = 0 THEN DefaultSize ELSE d
       IN  /\ size' = [size EXCEPT ![s] = z]
           /\ dims' = [dims EXCEPT ![s] = z]
           /\ asked' = [asked EXCEPT ![s] = z]
    /\ titleTimer' = TRUE
    /\ UNCHANGED <<name, title, pending, timer, exits>>
    /\ ScheduleTabs

(* applyResize: a size that changes nothing reaches neither pty nor list. *)
ApplyResize(s, d) ==
    IF Clamp(d) = size[s]
    THEN UNCHANGED <<size, dims, tabsVars>>
    ELSE /\ size' = [size EXCEPT ![s] = Clamp(d)]
         /\ dims' = [dims EXCEPT ![s] = Clamp(d)]
         /\ ScheduleTabs

(* resize: applied at once when no timer runs, kept for the timer otherwise. *)
Resize(s, d) ==
    /\ s \in Live
    /\ asked' = [asked EXCEPT ![s] = d]
    /\ UNCHANGED <<phase, pty, name, title, exits, titleTimer>>
    /\ \/ /\ timer[s]
          /\ pending' = [pending EXCEPT ![s] = d]
          /\ UNCHANGED <<timer, size, dims, tabsVars>>
       \/ /\ ~timer[s]
          /\ pending' = [pending EXCEPT ![s] = None]
          /\ timer' = [timer EXCEPT ![s] = TRUE]
          /\ ApplyResize(s, d)

Mutant_TrailingDropped(s) ==
    /\ timer[s]
    /\ timer' = [timer EXCEPT ![s] = FALSE]
    /\ pending' = [pending EXCEPT ![s] = None]
    /\ UNCHANGED <<size, dims, tabsVars>>
    /\ UNCHANGED <<phase, pty, name, title, asked, exits, titleTimer>>

(* The 200 ms timer of resize: the trailing apply, without a new timer. *)
ResizeTimer(s) ==
    /\ timer[s]
    /\ timer' = [timer EXCEPT ![s] = FALSE]
    /\ pending' = [pending EXCEPT ![s] = None]
    /\ UNCHANGED <<phase, pty, name, title, asked, exits, titleTimer>>
    /\ IF pending[s] = None
       THEN UNCHANGED <<size, dims, tabsVars>>
       ELSE ApplyResize(s, pending[s])

(* removeSession of a session that exists. *)
RemoveSession(s) ==
    /\ phase' = [phase EXCEPT ![s] = "over"]
    /\ timer' = [timer EXCEPT ![s] = FALSE]
    /\ pending' = [pending EXCEPT ![s] = None]
    /\ titleTimer' = (Live # {s} /\ titleTimer)
    /\ exits' = [exits EXCEPT ![s] = @ + 1]
    /\ ScheduleTabs

(* kill: the entry goes first, then the process is signalled. *)
Kill(s) ==
    /\ s \in Live
    /\ pty' = [pty EXCEPT ![s] = "dying"]
    /\ UNCHANGED <<dims, name, infoVars, asked>>
    /\ RemoveSession(s)

(* The shell ends by itself; node-pty reports it later. *)
Die(s) ==
    /\ pty[s] = "up"
    /\ pty' = [pty EXCEPT ![s] = "dying"]
    /\ UNCHANGED <<phase, dims, name, infoVars, resizeVars, exits, tabsVars, titleTimer>>

Mutant_LateExitCounts(s) ==
    /\ pty[s] = "dying"
    /\ pty' = [pty EXCEPT ![s] = "gone"]
    /\ UNCHANGED <<dims, name, infoVars, asked>>
    /\ RemoveSession(s)

(* onExit of ptyManager, and the registry's exit listener: a session that   *)
(* kill already removed is ignored.                                         *)
PtyExit(s) ==
    /\ pty[s] = "dying"
    /\ pty' = [pty EXCEPT ![s] = "gone"]
    /\ UNCHANGED <<dims, name, infoVars, asked>>
    /\ IF s \in Live
       THEN RemoveSession(s)
       ELSE UNCHANGED <<phase, timer, pending, titleTimer, exits, tabsVars>>

(* The foreground process of a terminal changes (a program starts or ends). *)
Foreground(s, n) ==
    /\ pty[s] = "up"
    /\ name' = [name EXCEPT ![s] = n]
    /\ UNCHANGED <<phase, pty, dims, infoVars, resizeVars, exits, tabsVars, titleTimer>>

(* The 1 s title poll over all sessions; a pty in teardown is skipped. *)
TitleTick ==
    /\ titleTimer
    /\ title' = [s \in Session |-> IF s \in Live /\ pty[s] = "up" THEN name[s] ELSE title[s]]
    /\ UNCHANGED <<phase, ptyVars, size, resizeVars, exits, titleTimer>>
    /\ IF title' = title THEN UNCHANGED tabsVars ELSE ScheduleTabs

Mutant_TimerWithoutTrailing ==
    /\ tabsTimer
    /\ tabsTimer' = FALSE
    /\ UNCHANGED <<shown, tabsDirty>>
    /\ UNCHANGED <<phase, ptyVars, infoVars, resizeVars, exits, titleTimer>>

(* The 500 ms throttle timer: a dirty list is emitted and throttled anew. *)
TabsTimer ==
    /\ tabsTimer
    /\ IF tabsDirty
       THEN /\ shown' = Listing
            /\ tabsTimer' = TRUE
            /\ tabsDirty' = FALSE
       ELSE /\ tabsTimer' = FALSE
            /\ UNCHANGED <<shown, tabsDirty>>
    /\ UNCHANGED <<phase, ptyVars, infoVars, resizeVars, exits, titleTimer>>

Next ==
    \/ \E s \in Session :
          \/ \E d \in Request : (d <= MaxSize /\ Create(s, d)) \/ Resize(s, d)
          \/ ResizeTimer(s) \/ Kill(s) \/ Die(s) \/ PtyExit(s)
          \/ \E n \in Name : Foreground(s, n)
    \/ TitleTick \/ TabsTimer

Spec == Init /\ [][Next]_vars

(* Timers that are set fire: the event loop is not blocked for ever. *)
FairSpec ==
    /\ Spec
    /\ WF_vars(TabsTimer)
    /\ WF_vars(TitleTick)
    /\ \A s \in Session : WF_vars(ResizeTimer(s))

-----------------------------------------------------------------------------
(* A session announces its exit once: a kill that races the shell's own     *)
(* end, and the late exit of a killed pty, add no second event.             *)
ExitExactlyOnce ==
    \A s \in Session : exits[s] = (IF phase[s] = "over" THEN 1 ELSE 0)

(* A list that differs from the one consumers saw is never forgotten by the *)
(* throttle: a timer runs that will emit it.                                *)
NoChangeForgotten == shown # Listing => tabsTimer /\ tabsDirty

(* The pty has the size the list reports, whatever the order of leading and *)
(* trailing applies.                                                        *)
PtyHasListedSize == \A s \in Live : dims[s] = size[s]

(* A resize that the session does not have yet is the one pending, and its  *)
(* timer runs.                                                              *)
LastResizeKept ==
    \A s \in Live : size[s] # Clamp(asked[s]) => timer[s] /\ pending[s] = asked[s]

(* The registry implements the service its consumers rely on. *)
Service == INSTANCE SessionService WITH
    Size <- Sizes, Title <- Name, live <- Live, view <- shown,
    ended <- {s \in Session : phase[s] = "over"}

ImplementsService == Service!Safety

(* The list consumers see catches up with the sessions. *)
ServiceCatchesUp == Service!CatchesUp
=============================================================================
