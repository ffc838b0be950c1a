----------------------------- MODULE RelayPipe -----------------------------
(***************************************************************************)
(* One client's way to the host: browser, relay (relay/src/server.mjs),    *)
(* plugin (relay/src/plugin/relayPlugin.mjs), host.  The relay keeps what  *)
(* the client sends before the plugin's pipe arrives, the plugin keeps     *)
(* what either side sends before both of its sockets are open, and from    *)
(* then on frames are passed on until one side closes.                     *)
(*                                                                         *)
(* Three links: "client" (browser - relay), "tunnel" (relay - plugin) and  *)
(* "local" (plugin - host), each with a wire up, towards the host, and a   *)
(* wire down.  Frames are numbered in the order they are sent; all have    *)
(* one size, and EarlyCap is what 64 KB hold of them.                      *)
(***************************************************************************)
EXTENDS Naturals, Sequences, SequencesExt

CONSTANTS
    MaxFrames, \* bound: frames sent in each direction
    EarlyCap   \* frames an early buffer takes

ASSUME PipeAssumption == MaxFrames \in Nat /\ EarlyCap \in Nat

VARIABLES
    sent,    \* how many frames browser ("up") and host ("down") have sent
    got,     \* what arrived at the host ("up") and at the browser ("down")
    wire,    \* what is under way on each link and direction
    early,   \* pending.early, earlyFromRelay, earlyFromLocal
    counted, \* earlyBytes of the plugin, both directions together
    relay,   \* the relay's record of the client: pending, spliced, over
    plugin,  \* the plugin's pipe: dialing, spliced, over
    ready,   \* the plugin's sockets that are open
    browser, \* what the browser knows of its connection: open, or how it closed
    host     \* the host's: none, open, or how it closed

pipeVars == <<sent, got, wire, early, counted, relay, plugin, ready, browser, host>>

Way == {"up", "down"}
Link == {"client", "tunnel", "local"}
Outcome == {"plain", "fatal", "cut"}

Frame(n) == [kind |-> "frame", n |-> n]
PipeFrame == [kind |-> "pipe", n |-> 0]
Close(how) == [kind |-> "close", how |-> how]

Item == [kind : {"frame"}, n : 1 .. MaxFrames] \cup {PipeFrame}
        \cup {Close(how) : how \in Outcome}

PipeTypeOK ==
    /\ sent \in [Way -> 0 .. MaxFrames]
    /\ got \in [Way -> Seq(1 .. MaxFrames)]
    /\ wire \in [Link \X Way -> Seq(Item)]
    /\ early \in [{"relay", "fromRelay", "fromLocal"} -> Seq(Item)]
    /\ Len(early["relay"]) <= EarlyCap
    /\ counted \in 0 .. EarlyCap + 1
    /\ relay \in {"pending", "spliced", "over"}
    /\ plugin \in {"dialing", "spliced", "over"}
    /\ ready \subseteq {"tunnel", "local"}
    /\ browser \in {"open"} \cup Outcome
    /\ host \in {"none", "open"} \cup Outcome

(* The client joined and the plugin was offered it. *)
PipeInit ==
    /\ sent = [w \in Way |-> 0] /\ got = [w \in Way |-> <<>>]
    /\ wire = [lw \in Link \X Way |-> <<>>]
    /\ early = [b \in {"relay", "fromRelay", "fromLocal"} |-> <<>>]
    /\ counted = 0
    /\ relay = "pending" /\ plugin = "dialing"
    /\ ready = {}
    /\ browser = "open" /\ host = "none"

On(l, w) == wire[<<l, w>>]
Next1(l, w) == On(l, w) # <<>>

(* The wires with the first item of l, w gone. *)
Taken(l, w) == [wire EXCEPT ![<<l, w>>] = Tail(@)]

Add(ws, l, w, items) == [ws EXCEPT ![<<l, w>>] = @ \o items]

(* terminate(): what was not on its way yet may be lost. *)
Cut(ws, l, w) == {[ws EXCEPT ![<<l, w>>] = SubSeq(@, 1, k) \o <<Close("cut")>>] : k \in 0 .. Len(ws[<<l, w>>])}

-----------------------------------------------------------------------------
(* Browser and host *)

Send(w) ==
    /\ sent[w] < MaxFrames
    /\ IF w = "up" THEN browser = "open" ELSE host = "open"
    /\ sent' = [sent EXCEPT ![w] = @ + 1]
    /\ wire' = Add(wire, IF w = "up" THEN "client" ELSE "local", w, <<Frame(sent[w] + 1)>>)
    /\ UNCHANGED <<got, early, counted, relay, plugin, ready, browser, host>>

(* The page goes away. *)
BrowserCloses ==
    /\ browser = "open"
    /\ browser' = "plain"
    /\ wire' = Add(wire, "client", "up", <<Close("plain")>>)
    /\ UNCHANGED <<sent, got, early, counted, relay, plugin, ready, host>>

(* failWith with a fatal code, or a plain end. *)
HostCloses(how) ==
    /\ host = "open"
    /\ host' = how
    /\ wire' = Add(wire, "local", "down", <<Close(how)>>)
    /\ UNCHANGED <<sent, got, early, counted, relay, plugin, ready, browser>>

BrowserReceives ==
    /\ browser = "open" /\ Next1("client", "down")
    /\ LET item == Head(On("client", "down"))
       IN  \/ /\ item.kind = "frame"
              /\ got' = [got EXCEPT !["down"] = Append(@, item.n)]
              /\ UNCHANGED browser
           \/ /\ item.kind = "close"
              /\ browser' = item.how
              /\ UNCHANGED got
    /\ wire' = Taken("client", "down")
    /\ UNCHANGED <<sent, early, counted, relay, plugin, ready, host>>

HostReceives ==
    /\ host = "open" /\ Next1("local", "up")
    /\ LET item == Head(On("local", "up"))
       IN  \/ /\ item.kind = "frame"
              /\ got' = [got EXCEPT !["up"] = Append(@, item.n)]
              /\ UNCHANGED host
           \/ /\ item.kind = "close"
              /\ host' = item.how
              /\ UNCHANGED got
    /\ wire' = Taken("local", "up")
    /\ UNCHANGED <<sent, early, counted, relay, plugin, ready, browser>>

-----------------------------------------------------------------------------
(* The relay *)

(* kill: both sides are closed after what was sent to them. *)
Kill(ws, how) ==
    /\ relay' = "over"
    /\ wire' = Add(Add(ws, "client", "down", <<Close(how)>>), "tunnel", "up", <<Close("plain")>>)

(* The early-frame receiver: too much, and the client is terminated. *)
KeepEarly(item, rest) ==
    \/ /\ Len(early["relay"]) < EarlyCap
       /\ early' = [early EXCEPT !["relay"] = Append(@, item)]
       /\ wire' = rest
       /\ UNCHANGED relay
    \/ /\ Len(early["relay"]) = EarlyCap
       /\ relay' = "over"
       /\ wire' \in Cut(rest, "client", "down")
       /\ UNCHANGED early

(* A frame of the browser is kept while it waits and passed on once         *)
(* spliced; its close ends both sides.                                      *)
RelayFromClient ==
    /\ relay # "over" /\ Next1("client", "up")
    /\ LET item == Head(On("client", "up"))
           rest == Taken("client", "up")
       IN  \/ /\ item.kind = "frame" /\ relay = "pending"
              /\ KeepEarly(item, rest)
           \/ /\ item.kind = "frame" /\ relay = "spliced"
              /\ wire' = Add(rest, "tunnel", "up", <<item>>)
              /\ UNCHANGED <<early, relay>>
           \/ /\ item.kind = "close" /\ relay = "pending"
              /\ relay' = "over" /\ wire' = rest
              /\ UNCHANGED early
           \/ /\ item.kind = "close" /\ relay = "spliced"
              /\ Kill(rest, "plain")
              /\ UNCHANGED early
    /\ UNCHANGED <<sent, got, counted, plugin, ready, browser, host>>

Mutant_SpliceForgetsEarly(rest) ==
    /\ relay' = "spliced"
    /\ wire' = rest
    /\ UNCHANGED early

(* The pipe frame of a waiting client: the early frames go ahead of         *)
(* whatever follows.                                                        *)
RelaySplice(rest) ==
    /\ relay' = "spliced"
    /\ wire' = Add(rest, "tunnel", "up", early["relay"])
    /\ early' = [early EXCEPT !["relay"] = <<>>]

(* The plugin's end: its pipe frame, frames of the host, and its close. *)
RelayFromPlugin ==
    /\ Next1("tunnel", "down")
    /\ LET item == Head(On("tunnel", "down"))
           rest == Taken("tunnel", "down")
       IN  \/ /\ item.kind = "pipe" /\ relay = "pending"
              /\ RelaySplice(rest)
           \/ /\ item.kind = "pipe" /\ relay = "over"
              /\ wire' = Add(rest, "tunnel", "up", <<Close("plain")>>)
              /\ UNCHANGED <<early, relay>>
           \/ /\ item.kind = "frame"
              /\ wire' = IF relay = "spliced" THEN Add(rest, "client", "down", <<item>>) ELSE rest
              /\ UNCHANGED <<early, relay>>
           \/ /\ item.kind = "close" /\ relay = "spliced"
              /\ Kill(rest, IF item.how = "fatal" THEN "fatal" ELSE "plain")
              /\ UNCHANGED early
           \/ /\ item.kind = "close" /\ relay # "spliced"
              /\ wire' = rest
              /\ UNCHANGED <<early, relay>>
    /\ UNCHANGED <<sent, got, counted, plugin, ready, browser, host>>

(* 10 s without a pipe. *)
PendingTimeout ==
    /\ relay = "pending"
    /\ relay' = "over"
    /\ wire' = Add(wire, "client", "down", <<Close("plain")>>)
    /\ UNCHANGED <<sent, got, early, counted, plugin, ready, browser, host>>

-----------------------------------------------------------------------------
(* The plugin *)

(* abort: both sockets are terminated; one that is not open yet never tells *)
(* its peer.                                                                *)
Abort(ws) ==
    /\ plugin' = "over"
    /\ \E a \in (IF "tunnel" \in ready THEN Cut(ws, "tunnel", "down") ELSE {ws}) :
          wire' \in (IF "local" \in ready THEN Cut(a, "local", "up") ELSE {a})
    /\ UNCHANGED <<early, ready>>

(* Both sockets are open: what came early goes first, in both directions. *)
PluginSplice(ws) ==
    /\ plugin' = "spliced"
    /\ wire' = Add(Add(ws, "local", "up", early["fromRelay"]), "tunnel", "down", early["fromLocal"])
    /\ early' = [early EXCEPT !["fromRelay"] = <<>>, !["fromLocal"] = <<>>]

(* A socket of the plugin opens; the one to the relay names the client, the *)
(* one to the host has its certificate checked first.                       *)
SocketOpens(l) ==
    /\ plugin = "dialing" /\ l \notin ready
    /\ LET ws == IF l = "tunnel" THEN Add(wire, "tunnel", "down", <<PipeFrame>>) ELSE wire
       IN  IF ready \cup {l} = {"tunnel", "local"}
           THEN PluginSplice(ws)
           ELSE wire' = ws /\ UNCHANGED <<plugin, early>>
    /\ ready' = ready \cup {l}
    /\ host' = IF l = "local" THEN "open" ELSE host
    /\ UNCHANGED <<sent, got, counted, relay, browser>>

(* A dial fails, or the certificate is not the host's. *)
DialFails ==
    /\ plugin = "dialing"
    /\ Abort(wire)
    /\ UNCHANGED <<sent, got, counted, relay, browser, host>>

(* A frame arrives at a socket of the plugin. *)
PluginPasses(l, w, item) ==
    \/ /\ plugin = "dialing" /\ counted < EarlyCap
       /\ counted' = counted + 1
       /\ early' = IF l = "tunnel"
                   THEN [early EXCEPT !["fromRelay"] = Append(@, item)]
                   ELSE [early EXCEPT !["fromLocal"] = Append(@, item)]
       /\ wire' = Taken(l, w)
       /\ UNCHANGED <<plugin, ready>>
    \/ /\ plugin = "dialing" /\ counted >= EarlyCap
       /\ counted' = counted + 1
       /\ Abort(Taken(l, w))
    \/ /\ plugin = "spliced"
       /\ wire' = Add(Taken(l, w), IF l = "tunnel" THEN "local" ELSE "tunnel", w, <<item>>)
       /\ UNCHANGED <<plugin, early, counted, ready>>

Mutant_CloseIgnored(l, w) ==
    /\ wire' = Taken(l, w)
    /\ UNCHANGED <<plugin, early, ready, counted>>

(* A close event: abort, registered first, runs before the handlers of the  *)
(* splice and leaves them nothing to do.                                    *)
PluginClosed(l, w) ==
    /\ Abort(Taken(l, w))
    /\ UNCHANGED counted

PluginReceives(l, w) ==
    /\ plugin # "over" /\ l \in ready
    /\ <<l, w>> \in {<<"tunnel", "up">>, <<"local", "down">>}
    /\ Next1(l, w)
    /\ LET item == Head(On(l, w))
       IN  \/ item.kind = "frame" /\ PluginPasses(l, w, item)
           \/ item.kind = "close" /\ PluginClosed(l, w)
    /\ UNCHANGED <<sent, got, relay, browser, host>>

PipeNext ==
    \/ \E w \in Way : Send(w)
    \/ BrowserCloses \/ \E how \in {"plain", "fatal"} : HostCloses(how)
    \/ BrowserReceives \/ HostReceives
    \/ RelayFromClient \/ RelayFromPlugin \/ PendingTimeout
    \/ \E l \in {"tunnel", "local"} : SocketOpens(l)
    \/ DialFails
    \/ \E l \in {"tunnel", "local"}, w \in Way : PluginReceives(l, w)

PipeSpec == PipeInit /\ [][PipeNext]_pipeVars

(* What is on a wire arrives, the 10 s of a waiting client pass, and a dial *)
(* ends one way or the other (the operating system's connect timeout).      *)
PipeFairSpec ==
    /\ PipeSpec
    /\ WF_pipeVars(BrowserReceives) /\ WF_pipeVars(HostReceives)
    /\ WF_pipeVars(RelayFromClient) /\ WF_pipeVars(RelayFromPlugin) /\ WF_pipeVars(PendingTimeout)
    /\ \A l \in {"tunnel", "local"} : WF_pipeVars(SocketOpens(l) \/ DialFails)
    /\ \A l \in {"tunnel", "local"}, w \in Way : WF_pipeVars(PluginReceives(l, w))

-----------------------------------------------------------------------------
Counting(n) == [i \in 1 .. n |-> i]

(* What arrives is a prefix of what was sent: no frame is lost in the       *)
(* middle, doubled or overtaken by one that came after a splice.            *)
InOrder == \A w \in Way : IsPrefix(got[w], Counting(sent[w]))

(* The numbers of the frames among items, in their order. *)
FramesOf(items) ==
    LET F[i \in 0 .. Len(items)] ==
            IF i = 0 THEN <<>>
            ELSE IF items[i].kind = "frame" THEN Append(F[i - 1], items[i].n) ELSE F[i - 1]
    IN  F[Len(items)]

(* While nothing closed, everything sent has arrived, is on a wire or in a  *)
(* buffer, in order: a splice at whatever moment forgets nothing.           *)
NothingForgotten ==
    relay # "over" /\ plugin # "over" /\ browser = "open" /\ host \in {"none", "open"} =>
        /\ got["up"] \o FramesOf(On("local", "up") \o early["fromRelay"] \o On("tunnel", "up")
                                 \o early["relay"] \o On("client", "up")) = Counting(sent["up"])
        /\ got["down"] \o FramesOf(On("client", "down") \o On("tunnel", "down")
                                   \o early["fromLocal"] \o On("local", "down")) = Counting(sent["down"])

(* The bytes of a client's way: nothing lost, doubled or overtaken, however *)
(* the ends open and whenever relay and plugin splice.                      *)
FramesKept == InOrder /\ NothingForgotten

(* A browser that is gone, or was refused, never leaves the host with a     *)
(* connection that looks alive: whatever closes first, the host learns of   *)
(* it.                                                                      *)
HostLearns == (browser # "open" /\ host = "open") ~> host # "open"
=============================================================================
