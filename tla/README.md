# A formal model of Ternimal

Ternimal is a terminal emulator (Electron) whose sessions can also be used from
a browser: in the local network, or through a self-hosted relay that the
desktop reaches with a plugin process. This directory models its concurrent
parts in TLA+: the relay and its administration, the plugin, the desktop
program with its sessions, its host and its windows, and the browser's page and
connection. TLC checks the models on small instances; TLAPS proves the
invariants of most of them for every instance.

Line numbers refer to the sources at this commit. Paths below omit the leading
`src/` of the repository copy (`relay/src/server.mjs`, `src/main/...`).

## 1. Inventory

### Parts and how they interact

```
 browser page            relay (Node)             plugin process          desktop (Electron main)
 web/index.ts            relay/src/server.mjs     relayPlugin.mjs         remoteServer.ts  geoArbiter.ts
 terminalApp.ts          store.mjs ratelimit.mjs                          authManager.ts   sessionRegistry.ts
 webSocketTransport.ts   config.mjs cli.mjs                               pluginHost.ts    relayController.ts
      |---- join ----------->|<---- register (control) ----|<-- messages, kill ---|  (child process)
      |                      |----- client-offer --------->|                      |
      |                      |<---- pipe ------------------|---- local wss ------>|   window: relaySettings.ts
      |==================== byte pipe: challenge, auth, session frames =========>|   tray.ts, main.ts
                             ^
                        admin page (adminPage.mjs) and command line
```

| Part | State it keeps | Operations | What makes it hard | What makes it correct |
|---|---|---|---|---|
| Relay: channels (`server.mjs`, `store.mjs`) | per master code: the control socket, its `alive` flag, waiting clients, pipes; sub-code and master-code records | register (plain, forced, probing), join, pipe, issue/revoke/purge/renew, sweep, stop | several sockets compete; a 2.5 s probe and a 10 s wait act on what was checked before; half-open connections; expiry is read from the clock at several places | one host holds the channel; no service without a control; dead codes and dead peers lose their pipes |
| Relay: limiter (`ratelimit.mjs`) | table of failure records with a cap | `isLocked`, `fail` | windows, locks, eviction of a full table | locks hold for their term; guesses are bounded |
| Relay: administration (`server.mjs` API, `adminPage.mjs`, `config.mjs`, `cli.mjs`) | sessions of the admin page, access tokens, codes, a file shared with the command line | log in, issue, renew, revoke, purge, list, restart | requests wait for their body; a page shows what may have changed; ids start anew with the process | what was ended stays ended; paid time is kept; an id on the page names what the page shows |
| Relay plugin (`relayPlugin.mjs`) | connection state, control socket, timers, pipes | dial, messages, close, probe, force, shutdown | handlers of two sockets write one state; timers outlive their reason | it never ends with nothing pending; it registers in the end |
| Byte pipe (relay and plugin) | early buffers on both sides, sockets not open yet | splice, forward, close | frames and closes race the two handshakes | order kept, nothing forgotten, closes passed on |
| Session registry (`sessionRegistry.ts`, `ptyManager.ts`, `ringBuffer.ts`) | sessions, resize and list timers, titles, output kept for replay | create, resize, kill, exit, poll, broadcast | kill races the shell's own end; two throttles with trailing edges | one exit event; no change or resize lost |
| Remote server (`remoteServer.ts`), arbiter (`geoArbiter.ts`) | connections, authentication, keys, attachments; owner of each session's size | challenge, frames, claims, heartbeat, close | encrypted frames are dispatched when decrypted, in any order, after a close too; many ways to disconnect | owners exist and watch; an owner gets the size it asked for |
| Authentication (`authManager.ts`) and the host's door | token, cookies, challenges, failure records | login, upgrade, challenge, verify, rotate | bodies and answers come late; caps, windows, one record shared by all relay clients | cookies die with their token; locks follow guesses; only the cap refuses a good answer |
| Plugin host (`pluginHost.ts`), controller (`relayController.ts`), start and shutdown (`main.ts`) | the child process, restart timer, saved settings | start, stop, restart, apply, request, quit | `stop()` waits up to 3.5 s while other calls come | one process, with the saved settings, behind the server it needs; the master code is cleared at exit |
| Windows, tray, settings panel (`tray.ts`, `relaySettings.ts`) | what they show: state, banner, form, codes, the token | open, close, prefill, save, apply a token, take over, rotate | answers come to panels that were closed and opened anew | what is shown is what is so |
| Launch (`instanceIdentity.ts`, `configStore.ts`, `certManager.ts`, `token.mjs`) | files | choose a colour, load, save, make a certificate, read a token | files written by other launches, in two steps, or broken | settings and certificates survive a launch; a token is whole or refused |
| Browser transport (`webSocketTransport.ts`) | gate, outbox, key, attached sessions, back-off | attach, send, reconnect, answer, derive | asynchronous crypto across reconnects; messages queued at three places | messages go to a confirmed connection, in order; a refused page stops |
| Web page (`terminalApp.ts`, `terminalTab.ts`, `web/index.ts`, `softKeys.ts`) | tabs, what it believes it owns, grids, pending modifiers | open, create, switch, close, fit, claim, heal, type | lists, creations, grants and breaks cross on the wire | tabs, screens, grids and owners end up as the host has them |

### Hazards

`PROJECT.json` lists forty of them, each at the line where it bites, with the
properties that would notice it going wrong.

## 2. Plan

The order followed the risk: the relay first (it arbitrates between hosts it
cannot see), then the registry (everything the desktop shows depends on it),
the host's clients, the ends of the connection, and what surrounds them.

1. *Done.* RelayServer, RateLimiter, RelayAdmin; SessionService, SessionRegistry,
   ReplayBuffer; GeoArbiter, RemoteHost; AuthManager, HostDoor; RelayPlugin,
   RelayPipe; PluginHost, Desktop, RelaySettings, Startup; WebTransport,
   TerminalPage, KeySequences. Theorems about RelayServer, SessionRegistry,
   RemoteHost, HostDoor, RelayPlugin, RelayPipe, RelayAdmin, the desktop
   (PluginHost, Desktop, RelaySettings), WebTransport and TerminalPage.
   Every invariant of the passing runs is a theorem.
2. *Next: models.* The desktop's own window as a second kind of page
   (`localIpcTransport.ts`), composed with RemoteHost; a relay with several
   channels, which share only the limiter.

## 3. Modules

Each action is one handler, timer or event of the code, with everything it
does up to its next wait. `map` in `PROJECT.json` has the lines of every
definition.

| Module | Models | State and actions |
|---|---|---|
| `RelayServer` | one channel of the relay (channels share only the limiter) | `control`, `alive`, `probe` are the fields of the channel's record; `join` where each client stands; `sub`, `master` the records. `Register`, `ProbeTimer`, `Join`, `DialPipe`, `Sweep`, ... A peer that vanishes without a close is in `gone` or `lost`. The expiry of a code between the two clock readings of one sweep is the parameter of `GcSubCodes` |
| `RateLimiter` | `ratelimit.mjs` | the table as a function on its keys; `Failed` counts whether the key is locked or not, as the doors do; windows and terms are independent |
| `RelayAdmin` | the API, the admin page, the configuration file and the command line; EXTENDS RateLimiter, whose clock it shares | a request is in a slot from its arrival to the end of its body or of the password hash; `LoginArrives`, `LoginHashes`, `IssueMaster`, `RevokeSub`, ...; the page keeps what it was last shown |
| `SessionService` | what consumers rely on | open, resize, rename, end, publish: an abstract specification without timers, ptys or throttles |
| `SessionRegistry` | `sessionRegistry.ts` with `ptyManager.ts` | timers are Booleans that may fire whenever they run; `INSTANCE SessionService` with `view <- shown` |
| `ReplayBuffer` | `ringBuffer.ts`, the budget of a replay (`wsProtocol.ts`) | functions on sequences of chunks, with their laws as assumptions TLC evaluates |
| `GeoArbiter` | `geoArbiter.ts` | operators from one ownership table to the next; the 5 s dwell is one bit |
| `RemoteHost` | `remoteServer.ts`, the desktop's geometry calls | connection states `open`, `closing` (close sent), `cut`, `closed`; frames under decryption in `inflight`; `Dispatch` has a disjunct per frame; `pending` and `timed` are the registry's timer that holds a resize back |
| `AuthManager` | `authManager.ts` | a clock, failure records by key, challenges, cookies with the token's epoch: operators on this state |
| `HostDoor` | the handlers of `remoteServer.ts` that call it; EXTENDS AuthManager | a login whose body is still read is in `posts`; a connection is named by its nonce; `BodyRead`, `UpgradeWithCookie`, `AuthResponse`, `TimesOut`, ... |
| `RelayPlugin` | the control connection of `relayPlugin.mjs` | its handlers against the relay as seen by one master code, and a second device |
| `RelayPipe` | the way of one client's bytes | three links with a wire in each direction, the early buffers of relay and plugin; `terminate` may lose a suffix of a wire |
| `PluginHost` | `pluginHost.ts`, `applySettings`, launch and shutdown | the host as one record, its methods as functions from host to host; each process carries the sequence of the calls that wait for its end |
| `Desktop` | windows and tray (`main.ts`, `tray.ts`), requests to the plugin; EXTENDS PluginHost | `window`, the `wire` to its page, `asks` under way and the relay's answers, the tray's menu and information window |
| `RelaySettings` | `relaySettings.ts`; EXTENDS Desktop | one `panel` with its form, banner and lists, which handlers of an older panel may still touch |
| `Startup` | identity, configuration, certificate, token | functions on files, with their laws as assumptions TLC evaluates |
| `WebTransport` | `webSocketTransport.ts`, with the host as it sees it | connections are numbered, the number stands for nonce and key; answering and deriving may finish when their connection is gone; sealed frames wait in `opening` and `reading` and are dispatched in any order |
| `TerminalPage` | `terminalApp.ts`, `terminalTab.ts`, `wireAutoAdapt`, the modifiers, over one connection | `page`, `host`, the wires `toHost` and `toPage`; a handler is a function on the page that collects what it sends; in the worlds where messages are sealed either side may take any message of its wire (`HostOpens`, `PageOpens`) |
| `KeySequences` | `modifierKeys.ts` | what a key sends under modifiers, with its laws as assumptions TLC evaluates |
| `MC...` | instances for TLC | sets of worlds or clients, symmetry |
| `...Proofs` | proofs | of the module they are named for; `RelayPluginProofs` has RelayPipe too, `DesktopProofs` PluginHost, Desktop and RelaySettings, `SessionProofs` SessionRegistry and TerminalPage |

`RelayServer`, `RelayPlugin` and `RelayPipe` describe one protocol at three
levels of interest: the channel, the plugin's connection to it, one client's
bytes. `RelayPlugin` keeps of the relay what one master code observes;
`WebTransport` keeps of the host what one connection observes, and
`TerminalPage` what one page observes above that.

### What the models leave out inside their parts

- `Desktop`, `RelaySettings`: overrides by environment variables; `config.host` is
  the default; the file a token's CA is written to; the expiry of sub-codes;
  enabling without a relay or code, which the panel refuses; headless launches. A
  panel's list of sub-codes is refreshed only in the worlds called "codes". The
  tray is destroyed in the step of the exit.
- `TerminalPage`: a page over the relay marks itself ready, and encrypts if the host
  asks for it, which is off by default; one in the LAN does neither. What a page that
  encrypts sends without a connection is lost, else it is kept in the outbox. The host
  grants or refuses a claim freely (GeoArbiter has the rule) and applies a resize at
  once (RemoteHost and SessionRegistry have the timer). New credentials after a refusal
  while the page is mounted are left out.
- `HostDoor`: a wrong token is one of a generation that is not current. Static
  files are left out.
- `RelayAdmin`: all requests come from one address; a term is a number of days
  and the clock counts days; statistics are left out.
- `RemoteHost`: the 2 s between two forced claims of a client. A claim refused for
  them changes nothing and any time may pass between two frames, so every run
  without the refusal is one of the program.
- `RelayPlugin`: the lengths of the back-off; `RelayPipe`: back-pressure, whose
  effect is a close.

## 4. Runs

States are distinct states; times are those of two workers on a small machine,
with coverage.

| Run | Instance | Shows |
|---|---|---|
| `relay` | 2 control sockets, 1 client, 1 sub-code, two worlds; 188 k states, 90 s | `OneLiveController`, `NoServiceWithoutControl`, `PipesUnderGoodCodes`; half-open controls and pipes are reaped (`HalfOpenReaped`); a lapsed master code ends its channel though registers keep arriving (`LapsedMasterStopsChannel`) |
| `session_registry` | 2 sessions, sizes below, at and above the clamp; 300 k | one exit each, no change and no resize lost, `SessionService` implemented, the list catches up |
| `remote_host` | 1 session; two clients in clear, or one behind the relay or in clear that may vanish, or one encrypting; 237 k, 2 min | owners exist, are connected and watch (`OwnersAreReal`), are known to the desktop, and get the size they ask for (`OwnersSizeStands`); a vanished client loses what it owned |
| `host_door` | 3 logins, or 3 pipes of which 2 nonces fit, or both; windows and locks of 2, clock to 3, 1 rotation; 434 k | cookies of the current token, locks follow guesses, a good answer is refused only past the cap |
| `relay_admin` | 3 requests under way, 2 master codes, 2 sub-codes, 1 restart, seven worlds; windows of 2, locks of 3; 705 k, 58 s | what was ended lets nobody in, paid time is kept, ids on a page name what it shows, locks of the limiter hold as far as `fail` keeps them, and guesses are bounded |
| `relay_plugin` | 2 sockets, 2 faults, 2 timers, users who may force or not; 1.5 M | never stranded, pipes with their socket, registered in the end |
| `relay_pipe` | 3 frames each way, early buffers of 2; 129 k | order and nothing forgotten (`FramesKept`), the host learns of the end |
| `desktop` | 2 relays, 4 settings, 3 processes, 2 requests, eleven worlds; 464 k, 50 s | one plugin behind its gate, `stop()` final, the saved settings run, the code cleared, the take-over offered when it should be, no old token shown but by an image that was overtaken |
| `web_transport` | 1 session, 3 connections, 3 messages, direct, relayed, encrypted and stale; 1.2 M, 2 min | nothing before confirmation, each message once and none lost but by a break; in clear in order and the same sessions; refusals final |
| `terminal_page` | 3 sessions, 2 pieces of output, 3 turns of users, nine worlds of which two are sealed; 1.0 M, 77 s | where messages are in clear, tabs, screens, grids and owners end up as the host has them; in all worlds modifiers stay with their tab |
| `relay_code_leak` | violation | a pipe under a collected sub-code survives every sweep |
| `page_blur` | violation | a page that lost the focus keeps the size of a session it created |

*Why the bounds suffice.* Two control sockets are a holder and one that probes
it or takes over; the safety of `relay` is proved for every number of sockets,
clients and sub-codes, so the run is there for its liveness and to have every
action fire. Three requests in tables of two force an eviction. Three
connections of the page with an attempt cap of one are a first failure, a
retry, and what would be one retry too many. Locks one tick longer than windows
are the case in which a failure may end a lock. Three frames over buffers of two
overflow them. Two sessions show interference through the shared list timer;
everything else in the registry is per session. Peers vanish in the
populations `Frail` of `remote_host`, of one client and the desktop: what is asked is
whether a client that went silent is noticed, which the others have no part in. Three sessions of the page are
one it created, one of others and one that crosses a list. Two pieces of output
are one in the replay and one after it. Three requests of the administration
are two that race and one that shows the result. Two panels are one that was
closed with an answer under way and its successor. Every `CONSTANTS` comment
that begins with "bound" names what is cut off.

*Deadlock* is not checked where the system may rest: all sockets used, every
session ended, the application gone.

*Worlds.* Several modules start in one of several worlds (`faults`, `mode`,
`path`, `world`, `visit`, `mayForce`), fixed for the behaviour: a world
says what may happen in it, and keeps apart what would only multiply the states.
Properties that need a particular one say so in their antecedent, which is the
precondition the code needs too. The `MC` modules say what each world is for. In
`relay`, peers vanish in one world, and the relay restarts and codes expire in
another.

*Type invariants.* Each module has a `TypeOK` (or a `...TypeOK` of its own
variables). Those of RelayServer, SessionRegistry, HostDoor, RelayPipe, WebTransport,
TerminalPage (`PageTypeOK`) and the
desktop (`PanelTypeOK`, which has those of Desktop and PluginHost) are theorems, and the
types that the invariants of RemoteHost and RelayAdmin rest on are part
of the inductive invariants proved there. The others document the state; they hold on
the instances above and can be added to the configurations.

*Laws of pure functions* (`ReplayBuffer`, `KeySequences`, `Startup`) are assumptions
over bounded inputs; TLC evaluates them when it starts the run whose module
extends theirs (`session_registry`, `terminal_page`, `desktop`): the ring keeps the
longest whole end of the output that fits, a fitted replay is an end within its
budget that starts at a line, control and alternate keys send what terminals
expect, instances started one after the other get different colours while there
are any, what was saved is what is loaded, a certificate is served with its own
key, a token is read whole or not at all.

*Symmetry* is used in `host_door` and `relay_admin`, runs of invariants alone, over
logins and requests that nothing orders.

### Fairness

Only what the runtime guarantees is assumed fair: the event loop runs timers that
are set and delivers the close event of a destroyed socket; messages on an open
connection arrive; a dial ends one way or the other; a crypto operation ends; an
interval timer (sweep, heartbeat) fires again and again. Nothing is assumed of
users, remote peers, crashes, logins, registrations or renewals.

## 5. Proofs

TLAPS checks every leaf; the constants are arbitrary under each module's
`ASSUME`.

**RelayServer** (`RelayServerProofs`). `TypeCorrect` is proved first, and every later
theorem uses it. `OneLiveController` is not inductive: it must also be known that a
socket which was told "registered" is never fresh again, or a later `register` of the
same socket could give the channel a second open controller; `ControlInv` adds that.
`NoServiceWithoutControl` and `WithinCapacity` then follow by one step per action: each
action that clears `control` reaps the channel in the same step, and each that admits a
client has tested the sum of waiting and spliced clients; splicing moves a client from
one to the other. `PipesUnderGoodCodes` needs `CodeInv`: a client that waits under a
code that has ended may be spliced by the next step, so it must be accounted for in
`missed` while it still waits. With it, `CodesOfPipes` says that the leak the run
`relay_code_leak` shows is the only one.

**SessionRegistry** (`SessionProofs`). `TypeCorrect`, `ExitOnce` and
`Throttle` are inductive together with the types. `ListedSize` says that pty and
list agree on the size. `ResizeKept` needs `ResizeInv`: while a timer runs, what is
pending is what was asked last (`PendingIsLast`), and without a timer nothing is
pending. `Implements` maps every step of the registry to a step of
`SessionService` or a stutter, from those invariants: a resize that the clamp
makes void, a late exit and a dirty flag are the stutters; a kill is an end and,
when the throttle is idle, a publication in the same step.

**RemoteHost** (`RemoteHostProofs`). Five lemmas say what each rule of `GeoArbiter` may
add to or take from the table of owners. `HostInv` is inductive: every entry is of an
open session and of a client that may own it (it watches or created the session and,
unless it encrypts, its connection is there); only clients that encrypt have keys or
frames under decryption, so a frame of any other client is handled while its connection
is heard; and the desktop was told every owner of its sessions and of none of a session
that has not been. The actions fall into those that leave the table alone
(`QuietKeeps`), those that change it and broadcast (`ToldKeeps`), ends of sessions
(`ExitKeeps`) and frames (`DispatchKeeps`). `OwnersExist` and `DesktopIsTold` are parts
of it. `OwnersGetTheirSize` is about the timer of the registry, which applies a size
without asking who owns the session by then. So it cannot say that sizes change by the
owner's hand only, for they do not (section 6); it says that a former owner's
size never comes after one the present owner asked for: from then on, what is held back
is the owner's, or nothing is and the owner's stands. A change of hands takes the
session out of `fitted`, every accepted resize names the owner of its step as its author
and replaces what was held back, and a timer that fires with nothing held back changes
nothing.

**HostDoor** (`HostDoorProofs`). `TypeCorrect` first. `CookiesOfCurrentToken` is then
inductive because a rotation empties the cookies in its own step and a login
looks at the token in the step that makes the cookie, after its body came.
`TouchKeeps` and `LoginKeeps` say what the operators of AuthManager do to cookies;
each action of HostDoor is one or two of them. `LocksFollow` (a key is locked only
for guesses, and no longer than its term) needs `GuessInv`: what a record says of all failures
since it was cleared, and that of any `2 * MaxFailures` of them the last comes a lock's
length after the first. `RightAnswerAdmitted` (a right answer in time is refused only past
the cap) needs `NonceInv`: connections come in the order of their names, and a
challenge that can still be answered is outstanding, or as many connections as the cap
came after its own.

**RelayPlugin** (`RelayPluginProofs`). Of its actions only the handlers of the
plugin touch its state (`StepsOfThePlugin`, `RelayStepsAreQuiet`). `PipesHangOnLiveSockets`
is inductive by itself: the close of any socket ends all pipes, and an offer is
heard only on a socket that is open. `NeverStranded` is not: a probe timer does
nothing once the state "occupied" is left, so `StrandInv` counts it in that state
alone, and asks of every other state that is neither parked nor stopped for a
socket or a reconnect timer. `CloseLeavesATimer` is the heart of it.

**RelayPipe** (`RelayPluginProofs`), for every number of frames and every size of the
early buffers. `FramesKept` joins what lies on three links and in two buffers. `PipeInv`
is inductive: the types; what arrived is a beginning of what was sent (`GotRight`); the
frame that opens the pipe is the only one of its kind and at the head of the tunnel's
wire until the relay has spliced (`SpliceInv`); and each queue on the way is placed by
the number of its first frame (`UpInv`, `DownInv`), so that two queues join without a
gap when the second begins where the first ends, and while every link is there the
lengths add up to what was sent (`UpKept`, `DownKept`). No leaf has to look into a
concatenation. What `FramesOf` leaves of a queue is characterised by induction on its
length, from the least length that would be wrong.

**RelayAdmin** (`RelayAdminProofs`), for every number of codes, requests under way,
restarts and commands. `AdminInvariant` has four parts. The types. `TableInv`: until
a command writes the file of a running relay, the file has the table of the
relay, what was paid and revoked is in the file (`Kept`), and a command that began
with no relay running still has the file as it is; this is what a restart rests
on, and `PaidTime` and the half of `NothingComesBack` about master codes follow.
`CodeInv`: ids were given in order and name one listed code each, and a code that
ended is unlisted or marked. A renewal whose body came late looks its code up
again, which is why the other half of `NothingComesBack` needs no more.
`SeenInv`: an overview is good (`Current`) when its ids were given by this process
and name only what it shows, and within a process what is good stays good
(`CurrentStays`). What a page shows is good while its token is accepted, because
tokens die with the process; but a login under way may give a page a new token
for what it shows already, so a page that waits for one must show something good
too. A stop answers no request, so none of it crosses a restart. `IdsShown` follows.
`LimiterSound` is about the limiter beneath, with the clock the administration shares, for any
window and any term: failures come at locked keys too. A lock holds unless
the key failed again after the window that the lock began, which a term no longer than the
window rules out (section 6 has the other case), and failures that find the key
unlocked are bounded. `Watched` says what the record of a key that was never evicted
tells of its failures, `Promises` that a lock once promised is in the table or its key
failed late enough, and `Terms` that the record of a lock has its term.
`TablesKept`, `CodesKept`, `PagesKept` and `SeenKept` have the parts, one step per action.

**PluginHost, Desktop, RelaySettings** (`DesktopProofs`), for every set of
processes (not empty), requests (finite, and not more of them than there are identifiers),
settings, relays and tokens. Every method of the host is a function from host to
host, so there is one lemma per method (`...Keeps`) and each action of the three
modules cites one or two of them.

- `TypeCorrect`, `OneGatedPlugin` and `StopStays` come from `HostInv`: the settings of
  whatever runs fit the server (`Gated`); the child is a process that lives, told to go if the
  host stops, and requests are with processes that live (`Tidy`); where no exit comes late, no
  other process lives and no second timer runs (`Lone`); and calls wait for the
  child that is to go, and for none else (`Awaited`). The last is what
  lets a call that goes on start a child: there is none left then.
- `SavedRuns` needs of those waiting calls that they go on with what is saved, and of a
  moment without any that the host has come to rest on it (`Settled`).
- `MasterCodeCleared` (`ClearInv`): a quit begins after the start, and once it closes
  nothing saves again.
- `WindowShowsTheToken`: every step leaves the window and the token, or starts making a
  new one (`InfoKept`). The row has the token of the moment it is made; the URL and its
  image have that of two awaits before, so `LastIsNow` keeps that the last window in the
  making has the token of now, as long as no image was ready before an earlier one.
- `BannerFollows`: `TakeoverOffered` compares the banner with the host's state when
  nothing is on the wire. `Shown` says it of every moment: the last message on the wire
  that sets the banner, or the banner where there is none, tells of the host's state. An
  open panel has a page that hears (`InWindow`), and a host without a child has no
  contested state (`Calm`).

**WebTransport** (`WebTransportProofs`), for every finite set of sessions, any number of
attempts and messages, and at least one connection. The first lemmas say how what a
queue holds follows from its parts: the ops in it and whether they are in order
(`OpsCat`), and what it does to a session (`ToldCat`: it says nothing of it, or its last
word attaches it). No theorem needs to look into a queue after that.

- `TypeCorrect` needs `TypeInv`: an attempt is counted before its connection is made,
  so attempts stay below the number of connections.
- `DeliveryOrderly` rests on `FlowInv`. `WireInv`: a connection that is not open carries
  nothing. `KeyInv`: a key belongs to the connection while one is open, and a derivation to a
  host that confirmed it, though neither is cleared when a connection breaks; nothing but
  control frames waits in the outbox beside a key. `GateInv`: where the gate is open the host
  confirmed, and the outbox is empty. So what is sent now never overtakes what was kept
  before, and `OrderInv` holds: the wire, the queue of the seal and the outbox read in this
  order (`Path`) have their ops in the order of sending, all after those that came to the host
  (`Arrived`: handled, or being opened); none came twice; every op is in one of them or
  accounted for as lost; and without sealing the host has handled them in order.
  Sealed frames are handled in any order, so the theorem promises none.
- `SessionsAgree`: `SameSessions` speaks of a page at rest whose connection is in clear
  (`ClearInv`): of an attach and a detach that were sealed the later may be handled
  first. `FollowInv` says of every moment what the host will send once `Path` has
  arrived (`Fate`): nothing the page does not follow, and on a connection that is
  confirmed everything it does. A broken connection or a dropped message only ends
  sessions' being sent, and the attaching anew after a confirmation restores them. That
  the page forgets only sessions that ended, and all of them, is `TabsInv`: every list
  on the wire has the live sessions, and the last one has no others.

**TerminalPage** (`SessionProofs`), for every number of sessions, pieces of output and
turns, and every set of worlds. The handlers are functions on the page, three of them
folds. A fold is the last value of a sequence of pages, each made from the one before
(`FoldSteps`, from the recursion the fold is defined by); `DisposeGoes`, `AdoptGoes` and
`ApplyGoes` say it of the folds of `ReconcileTabs`, and an induction over the steps then
says what the whole fold does (`DisposedAll`, `AdoptedAll`, `FixedAll`, `SettledAll`).
Each operator has a lemma that says what it changes (`SwitchShows`, `DropsFit`,
`ListedIs`, `OwnershipIs`, ...); no step of the page looks further.

Four of the theorems speak of worlds where messages are not sealed. Sealed messages are
handled in any order on either side, and then an old list may come last, output before its
replay, a grant after its withdrawal; `PageInv` has no order of
messages in such worlds and `ViewInv` is not claimed (`ClearInv`). `PageTypeCorrect` and
`ModifiersStay` hold in all of them.

`TabsAgree` and `FollowersTrack` speak of a moment when all is said. `PageInv` says of
every moment how that will end: the page is good relative to the sessions that live
(`PageGood`: the tab it shows is followed if its session lives, what is followed is
attached or an attach is on its way, a page that shows nothing waits for a session, and
every tab has the grid of the last list or is sized by the page); numbers of sessions
are not used again, a list names none that was not yet created, and an exit only one
that ended (`MessagesFit`); and unless the host owes a broadcast, the last list on its
way says what is, or there is none and the page has what is, up to tabs whose close the
host has not read (`ListFits`). `ModifiersStay` is a part of `PageGood`. TLC checked
`PageInv` on the worlds of `terminal_page` before it was proved.

`ScreensWhole` and `OwnershipAgrees` speak of one session whose replay, output and changes
of hands are still on their way, so neither is inductive: what the page shows is right
relative to the messages it has yet to hear. `ViewInv` says for each session that has not
ended what they will make of it. `Leads(q, V, R, a, b)`: the messages `q`, one after the
other, turn `a` into `b`, where the relation `R` has what one of them does. It is stated
with three relations:

- `Named`: no list takes back what the one before it said of the session (`Naming`), so
  the page never drops a tab of a session that lives but by closing it;
- `Viewed`: the view of the screen - how much it shows, and whether that is whole, marked for
  replacement or both - leads by `Seeing` to one that is up to date where the host sends its
  output, and else empty or marked. `Seeing` has no step to a torn screen, so every view
  on the way is whole or marked, which is `ScreensWhole`; at rest nothing is on the
  way and the view is its own end;
- `Owned`: what the page believes of the owner leads by `Trusting` to what the host
  has, and a page that owns has its size at the host, or sends it, or has yet to hear of
  the grant and will. `Trusting` has no second grant in a row. This holds only while the page
  has made no session (`Pristine`), since the host tells nobody who owns a new one, and no
  `create` is on its way (`Quiet`).

A session the page has closed is exempt until the host has read the close; `Tracked` says
that the page otherwise hears only of sessions it has a tab for. What the page does in a
step is again summed up by one relation (`Gently`: no session but those dropped loses its
tab, its screen or its owner, and none is asked for), which every operator of the page
has and chains of steps and folds keep (`GentlyChain`, `GentlyAlong`). One lemma for what the
host does (`HostKeeps`) and one for what the page does (`PageKeeps`) then carry `ViewInv`
through every action; the loss of the connection and the reconnect start the queues anew.
TLC checked `ViewInv`, with the `\E` of `Leads` computed message by message, before
it was proved.

**Only model-checked.** Liveness and everything under fairness, which are out of the
prover's reach, and the laws of recursive functions (`ReplayBuffer`, `KeySequences`,
`Startup`), which TLC evaluates over bounded inputs.

## 6. Observations

Disagreements between the code and what its comments say, and behaviour a
reader may not expect, found while modelling. The two marked * have runs
and findings in `PROJECT.json`; where another touches a property, it is said with it.

**Relay**

- * A waiting client whose sub-code is revoked and collected gets a pipe that no
  sweep ends (`server.mjs:621`, comment :12).
- Where `rateLockMs` is longer than `rateWindowMs` (the defaults are equal), a failure of
  a locked key after the window replaces its record and ends the lock
  (`ratelimit.mjs:34`, header :4): not every caller of `fail` asks `isLocked` first, and
  logins ask before they await.
- Probe and sweep share `alive` (`server.mjs:342`, :355; comments :11, :339): a
  sweep between a probe's ping and its pong cuts a healthy holder, one between
  the pong and the 2.5 s timer lets the probe displace it.
- A register that comes while the old control is closing overwrites it without
  reaping its pipes (`server.mjs:309`, comment :9).
- A register that is probing when its master code is revoked is accepted
  afterwards, until the next sweep (`server.mjs:346`, comment :869).
- A revocation by the command line beside a running relay takes effect with a
  restart only, and a save of the relay in between undoes it; both write one
  temporary file (`cli.mjs:108`). `EndedStaysEnded` and `PaidTimeKept` exclude it.
- A queued login meant to be answered 429 is answered 401 and counted as a failure
  (`server.mjs:666`); the number of admin sessions has no cap (comment :682).
- Renewing a master code or sub-code without an end gives it one.
- The replay budget shrinks by at least three quarters a round
  (`wsProtocol.ts:220`), so a replay may be much shorter than what would fit.

**Plugin**

- A forced registration beside a running probe makes the plugin report its own
  channel as occupied elsewhere (`relayPlugin.mjs:157`, comment :112-114), and a
  reconnect timer from before a take-over dials while parked (:141, comment
  :116-117).
- A fatal close of the host is lost at the plugin: `abort`, registered first,
  runs first (`relayPlugin.mjs:243`, comment :281-284). `WebTransport` allows
  both outcomes.

**Desktop**

- The owner is asked for when a resize comes, and the registry may apply it 200 ms later
  (`sessionRegistry.ts:173`, comment `remoteServer.ts:636`): a claim in between leaves the
  size of the former owner until the new one asks for its own.
- A session a client creates is claimed without a broadcast: the desktop still
  takes itself for the owner (`remoteServer.ts:571`, comment :684).
- A plain claim looks at the desktop's focus only when the desktop owns the
  session (`geoArbiter.ts:81`, comment `remoteServer.ts:655`).
- Between `authenticated` and the derived key, list events go to an encrypting
  client in clear (`remoteServer.ts:507`, comment :67-68).
- A claim decrypted after its connection closed makes the gone connection the
  owner for good (`remoteServer.ts:466`, comment `geoArbiter.ts:10`);
  `OwnersAreReal` therefore asks for a connection only of clients in clear.
- Connections that are authenticated survive a rotation of the token; only cookies
  and challenges end (`authManager.ts`, against the README's promise that all
  sessions are revoked at once).
- Two overlapping `applySettings` leave the older settings running
  (`pluginHost.ts:90`, comment `relayController.ts:120`); `SavedIsRunning` speaks
  of one call at a time.
- A child that exits after `stop()` gave it up makes the host forget its
  successor (`pluginHost.ts:113`, comment :4); `OnePlugin` and `SavedIsRunning`
  speak of children that go in time.
- A second quit, or saving, while the shutdown cleans up, or a quit before the
  start is over, leaves the master code on disk (`main.ts:326`, comment
  :323-325); `ClearedOnExit` excludes them.
- A stop while a restart waits clears the timer without a status event: the tray
  keeps showing a connection under way.
- A second instance asking for a window before the IPC handlers are there gets a
  page that cannot start (`main.ts:36`).
- The panel: saving before the prefill answered stores an empty form, the prefill
  overwrites edits (`relaySettings.ts:313`), a token applied may be another than
  the one previewed (:127), two refreshes of the list may end with the older one
  (:421), a view mask outlives its panel (:43).
- Two information windows whose QR images finish out of order leave the URL and image of
  the old token beside the row of the new one (`tray.ts:181`, comment :151).
- Instances started at once may choose the same colour; saving over a broken
  configuration replaces all settings by defaults; the end of a certificate is never
  noticed, for a PEM file does not say "Not After"; a launch cut off between certificate
  and key over an older pair leaves them mismatched (`certManager.ts:58`); an
  override that does not end in `.pem` is its own key file; a token whose address is
  slashes only can be made but not read.

**Browser**

- * A session the page creates is owned without the page's claim code knowing, so
  losing the focus does not release it (`web/index.ts:143`, comment :115).
- A grant that arrives after a blur or a switch of tabs, a creation that timed out,
  and two creations at once leave the page an owner that does not know it;
  `OwnershipAgrees` excludes pages that create sessions.
- A claim sent before the attach that goes with it is dropped by the host: at the
  first activation, and after a reconnect, where the page then still believes in its
  ownership (`web/index.ts:189`). `OwnershipAgrees` speaks of the first connection.
- A tab that was closed is shown again by a list that was sent before, with what
  happens to arrive, until the host has read the close (`terminalApp.ts:286`);
  `ScreensWhole` leaves it out.
- In the LAN the page is never "ready", so its screens are not healed after a
  reconnect and the output of the break stays missing (`terminalApp.ts:102`, comment :81);
  `ScreensWhole` speaks of the relay.
- Sealed frames are dispatched when their own decryption ends, at the host
  (`remoteServer.ts:459`) and at the page (`webSocketTransport.ts:546`); the send chains keep
  the order of the wire only (`R4-progress.md:42`). What is typed may be swapped, an
  attach and a detach too, and a small piece of output may come before the replay, which is
  then dropped.
- A key derived after the close for a revoked code opens the gate of a page that will not
  connect again (`webSocketTransport.ts:482`, comment :377).
- An error frame such as "no session" closes the page's gate although the
  connection stands (`webSocketTransport.ts:595`, comments :97, :590-593): what is sent
  later waits in the outbox.
- With a key, messages sent while offline are dropped by the seal queue
  (`webSocketTransport.ts:458`, comment :97); `OrderlyDelivery` counts them
  as lost.
- New credentials after a refusal leave the page that is mounted on the transport
  that was disposed of.

## 7. Not modelled

JSON, HTML, files served and statistics of the relay; the share gate, icons, menus,
layout, translations, the terminal widgets; IPC that only forwards; ciphers
and MACs, which stand for what they bind (a token, a nonce, a connection); byte
counters and back-pressure limits, which appear as a connection being cut;
Windows-specific pty termination; `node-pty` throwing on a dying pty; the
generation of keys and certificates; the repository's build and verification
scripts.
