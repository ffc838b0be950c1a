------------------------- MODULE RelayPluginProofs --------------------------
(***************************************************************************)
(* Proofs about the two ways a plugin is connected to the relay.           *)
(*                                                                         *)
(* The pipe of one client (module RelayPipe), for any number of frames and *)
(* any size of the early buffers: what arrives is in order, and while all  *)
(* parties are there nothing is forgotten.  Every queue on the way is      *)
(* placed by the number of its first frame; where one queue is put behind  *)
(* another the two places meet.                                            *)
(*                                                                         *)
(* The control connection (module RelayPlugin), for every number of        *)
(* sockets, timers, lost connections and moves of the other device, with   *)
(* users who may force and users who may not.                              *)
(***************************************************************************)
EXTENDS RelayPlugin, RelayPipe, WellFoundedInduction, TLAPS

-----------------------------------------------------------------------------
(* Items on a wire or in a buffer *)

(* The frames of q have the numbers after a, by their place, up to top. *)
Run(q, a, top) == \A i \in DOMAIN q : q[i].kind = "frame" => q[i] = Frame(a + i) /\ a + i <= top

(* What is left of q when a socket is terminated, and q closed in order. *)
CutOff(q, k) == SubSeq(q, 1, k) \o <<Close("cut")>>
Ended(q, how) == q \o <<Close(how)>>

(* Nothing but frames. *)
Pure(q) == \A i \in DOMAIN q : q[i].kind = "frame"

LEMMA ItemKinds ==
    /\ \A item \in Item : /\ item.kind \in {"frame", "pipe", "close"}
                          /\ item.kind = "frame" => item.n \in 1 .. MaxFrames /\ item = Frame(item.n)
                          /\ item.kind = "pipe" <=> item = PipeFrame
                          /\ item.kind = "close" => item.how \in Outcome
    /\ PipeFrame \in Item /\ PipeFrame.kind = "pipe"
    /\ \A n \in 1 .. MaxFrames : Frame(n) \in Item /\ Frame(n).kind = "frame"
    /\ \A how \in Outcome : Close(how) \in Item /\ Close(how).kind = "close"
<1>1. ASSUME NEW item \in [kind : {"frame"}, n : 1 .. MaxFrames]
      PROVE  item.kind = "frame" /\ item.n \in 1 .. MaxFrames /\ item = Frame(item.n) /\ item # PipeFrame
  BY DEF Frame, PipeFrame
<1>2. ASSUME NEW how \in Outcome
      PROVE  Close(how) \in Item /\ Close(how).kind = "close" /\ Close(how).how \in Outcome /\ Close(how) # PipeFrame
  BY DEF Item, Close, PipeFrame
<1>3. PipeFrame \in Item /\ PipeFrame.kind = "pipe"
  BY DEF Item, PipeFrame
<1>4. ASSUME NEW n \in 1 .. MaxFrames PROVE Frame(n) \in Item /\ Frame(n).kind = "frame"
  BY DEF Item, Frame
<1>5. ASSUME NEW item \in Item
      PROVE  item \in [kind : {"frame"}, n : 1 .. MaxFrames] \/ item = PipeFrame \/ \E how \in Outcome : item = Close(how)
  BY DEF Item
<1>6. \A item \in Item : /\ item.kind \in {"frame", "pipe", "close"}
                         /\ item.kind = "frame" => item.n \in 1 .. MaxFrames /\ item = Frame(item.n)
                         /\ item.kind = "pipe" <=> item = PipeFrame
                         /\ item.kind = "close" => item.how \in Outcome
  BY <1>1, <1>2, <1>3, <1>5
<1> QED
  BY <1>2, <1>3, <1>4, <1>6

LEMMA CatIs ==
    ASSUME NEW S, NEW q \in Seq(S), NEW r \in Seq(S)
    PROVE  /\ q \o r \in Seq(S) /\ Len(q \o r) = Len(q) + Len(r) /\ Len(q) \in Nat /\ Len(r) \in Nat
           /\ DOMAIN q = 1 .. Len(q) /\ DOMAIN r = 1 .. Len(r) /\ DOMAIN (q \o r) = 1 .. Len(q) + Len(r)
           /\ \A i \in 1 .. Len(q) : (q \o r)[i] = q[i]
           /\ \A i \in 1 .. Len(r) : (q \o r)[Len(q) + i] = r[i]
OBVIOUS

LEMMA EmptyIs ==
    /\ \A S : <<>> \in Seq(S)
    /\ Len(<<>>) = 0 /\ Pure(<<>>)
    /\ \A a, top : Run(<<>>, a, top)
BY DEF Pure, Run

LEMMA NoneIsEmpty ==
    ASSUME NEW S, NEW q \in Seq(S)
    PROVE  q \o <<>> = q /\ <<>> \o q = q /\ Len(q) \in Nat
OBVIOUS

(* One queue before another. *)
LEMMA CatRuns ==
    ASSUME NEW q \in Seq(Item), NEW r \in Seq(Item)
    PROVE  /\ q \o r \in Seq(Item) /\ Len(q \o r) = Len(q) + Len(r)
           /\ Len(q) \in Nat /\ Len(r) \in Nat
           /\ Pure(q \o r) <=> Pure(q) /\ Pure(r)
           /\ \A a, top \in Nat : Run(q \o r, a, top) <=> Run(q, a, top) /\ Run(r, a + Len(q), top)
<1> DEFINE x == q \o r
           n == Len(q)
           l == Len(r)
<1>1. /\ n \in Nat /\ l \in Nat /\ DOMAIN q = 1 .. n /\ DOMAIN r = 1 .. l /\ DOMAIN x = 1 .. n + l
      /\ (\A i \in 1 .. n : x[i] = q[i]) /\ \A i \in 1 .. l : x[n + i] = r[i]
      /\ x \in Seq(Item) /\ Len(x) = n + l
  BY CatIs
<1> HIDE DEF x, n, l
<1>2. \A i \in 1 .. n + l : i \in 1 .. n \/ (i - n \in 1 .. l /\ i = n + (i - n))
  BY <1>1
<1>3. (\A i \in 1 .. n : i \in 1 .. n + l) /\ \A i \in 1 .. l : n + i \in 1 .. n + l
  BY <1>1
<1>4. Pure(x) <=> Pure(q) /\ Pure(r)
  <2>1. ASSUME Pure(x) PROVE Pure(q) /\ Pure(r)
    <3>1. ASSUME NEW i \in 1 .. n PROVE q[i].kind = "frame"
      <4>1. i \in 1 .. n + l /\ x[i] = q[i]
        BY <1>1, <1>3
      <4> QED
        BY <1>1, <2>1, <4>1 DEF Pure
    <3>2. ASSUME NEW i \in 1 .. l PROVE r[i].kind = "frame"
      <4>1. n + i \in 1 .. n + l /\ x[n + i] = r[i]
        BY <1>1, <1>3
      <4> QED
        BY <1>1, <2>1, <4>1 DEF Pure
    <3> QED
      BY <1>1, <3>1, <3>2 DEF Pure
  <2>2. ASSUME Pure(q), Pure(r) PROVE Pure(x)
    <3>1. ASSUME NEW i \in 1 .. n + l PROVE x[i].kind = "frame"
      <4>1. CASE i \in 1 .. n
        BY <1>1, <2>2, <4>1 DEF Pure
      <4>2. CASE i \notin 1 .. n
        <5>1. i - n \in 1 .. l /\ x[i] = r[i - n]
          BY <1>1, <1>2, <4>2
        <5> QED
          BY <1>1, <2>2, <5>1 DEF Pure
      <4> QED
        BY <4>1, <4>2
    <3> QED
      BY <1>1, <3>1 DEF Pure
  <2> QED
    BY <2>1, <2>2
<1>5. ASSUME NEW a \in Nat, NEW top \in Nat
      PROVE  Run(x, a, top) <=> Run(q, a, top) /\ Run(r, a + n, top)
  <2>1. ASSUME Run(x, a, top) PROVE Run(q, a, top)
    BY <1>1, <1>3, <2>1 DEF Run
  <2>2. ASSUME Run(x, a, top) PROVE Run(r, a + n, top)
    <3>1. \A i \in 1 .. l : a + (n + i) = a + n + i
      BY <1>1
    <3> QED
      BY <1>1, <1>3, <2>2, <3>1 DEF Run
  <2>3. ASSUME Run(q, a, top), Run(r, a + n, top) PROVE Run(x, a, top)
    <3>1. ASSUME NEW i \in 1 .. n + l, x[i].kind = "frame" PROVE x[i] = Frame(a + i) /\ a + i <= top
      <4>1. CASE i \in 1 .. n
        BY <1>1, <2>3, <3>1, <4>1 DEF Run
      <4>2. CASE i \notin 1 .. n
        <5>1. i - n \in 1 .. l /\ x[i] = r[i - n] /\ a + n + (i - n) = a + i
          BY <1>1, <1>2, <4>2
        <5> QED
          BY <1>1, <2>3, <3>1, <5>1 DEF Run
      <4> QED
        BY <4>1, <4>2
    <3> QED
      BY <1>1, <3>1 DEF Run
  <2> QED
    BY <2>1, <2>2, <2>3
<1> QED
  BY <1>1, <1>4, <1>5 DEF x, n, l

LEMMA OneRuns ==
    ASSUME NEW item \in Item
    PROVE  /\ <<item>> \in Seq(Item) /\ Len(<<item>>) = 1
           /\ Pure(<<item>>) <=> item.kind = "frame"
           /\ \A a, top \in Nat : Run(<<item>>, a, top) <=>
                  (item.kind = "frame" => item = Frame(a + 1) /\ a + 1 <= top)
BY DEF Pure, Run

LEMMA TakeRuns ==
    ASSUME NEW q \in Seq(Item), q # <<>>
    PROVE  /\ Head(q) \in Item /\ Tail(q) \in Seq(Item) /\ Len(q) \in Nat
           /\ Len(q) = 1 + Len(Tail(q)) /\ Len(Tail(q)) \in Nat
           /\ Pure(q) <=> (Head(q).kind = "frame" /\ Pure(Tail(q)))
           /\ \A a, top \in Nat : Run(q, a, top) <=> Run(<<Head(q)>>, a, top) /\ Run(Tail(q), a + 1, top)
<1> DEFINE x == Head(q)
           r == Tail(q)
<1>1. /\ x \in Item /\ r \in Seq(Item) /\ q = <<x>> \o r /\ Len(q) \in Nat /\ Len(r) \in Nat
      /\ <<x>> \in Seq(Item) /\ Len(<<x>>) = 1
  OBVIOUS
<1> HIDE DEF x, r
<1>2. /\ Len(q) = 1 + Len(r) /\ (Pure(q) <=> Pure(<<x>>) /\ Pure(r))
      /\ \A a, top \in Nat : Run(q, a, top) <=> Run(<<x>>, a, top) /\ Run(r, a + 1, top)
  BY <1>1, CatRuns
<1> QED
  BY <1>1, <1>2, OneRuns DEF x, r

(* What is left of a queue that is cut. *)
LEMMA CutRuns ==
    ASSUME NEW q \in Seq(Item), NEW k \in 0 .. Len(q)
    PROVE  LET r == CutOff(q, k)
           IN  /\ r \in Seq(Item) /\ Len(r) \in Nat /\ ~Pure(r)
               /\ \A a, top \in Nat : Run(q, a, top) => Run(r, a, top)
               /\ r[1] = PipeFrame => q # <<>> /\ q[1] = PipeFrame
               /\ \A i \in DOMAIN r : r[i].kind # "close" => i \in DOMAIN q /\ r[i] = q[i]
<1> DEFINE p == SubSeq(q, 1, k)
           c == <<Close("cut")>>
           r == p \o c
<1>1. /\ p \in Seq(Item) /\ Len(p) = k /\ k \in Nat /\ Len(q) \in Nat /\ DOMAIN q = 1 .. Len(q)
      /\ \A i \in 1 .. k : p[i] = q[i]
  OBVIOUS
<1>2. c \in Seq(Item) /\ Len(c) = 1 /\ c[1] = Close("cut") /\ Close("cut") \in Item /\ Close("cut").kind = "close"
  BY ItemKinds DEF Outcome
<1> HIDE DEF p, c
<1>3. /\ r \in Seq(Item) /\ Len(r) = k + 1 /\ DOMAIN r = 1 .. k + 1
      /\ \A i \in 1 .. k : r[i] = p[i]
      /\ r[k + 1] = Close("cut")
  <2>1. /\ r \in Seq(Item) /\ Len(r) = k + 1 /\ DOMAIN r = 1 .. k + 1
        /\ \A i \in 1 .. k : r[i] = p[i]
        /\ \A i \in 1 .. 1 : r[k + i] = c[i]
    <3>1. /\ r \in Seq(Item) /\ Len(r) = Len(p) + Len(c) /\ DOMAIN r = 1 .. Len(p) + Len(c)
          /\ \A i \in 1 .. Len(p) : r[i] = p[i]
          /\ \A i \in 1 .. Len(c) : r[Len(p) + i] = c[i]
      <4>1. p \in Seq(Item) /\ c \in Seq(Item)
        BY <1>1, <1>2
      <4> QED
        BY <4>1, CatIs
    <3> HIDE DEF r
    <3> QED
      BY <1>1, <1>2, <3>1
  <2>2. r[k + 1] = c[1]
    <3>1. 1 \in 1 .. 1
      OBVIOUS
    <3> HIDE DEF r
    <3> QED
      BY <2>1, <3>1
  <2> HIDE DEF r
  <2> QED
    BY <1>2, <2>1, <2>2
<1> HIDE DEF r
<1>4. \A i \in 1 .. k + 1 : i \in 1 .. k \/ i = k + 1
  BY <1>1
<1>5. \A i \in 1 .. k : i \in 1 .. Len(q) /\ r[i] = q[i]
  BY <1>1, <1>3
<1>6. ASSUME NEW a \in Nat, NEW top \in Nat, Run(q, a, top) PROVE Run(r, a, top)
  BY <1>1, <1>2, <1>3, <1>4, <1>5, <1>6 DEF Run
<1>7. \A i \in DOMAIN r : r[i].kind # "close" => i \in DOMAIN q /\ r[i] = q[i]
  BY <1>1, <1>2, <1>3, <1>4, <1>5
<1>8. ~Pure(r)
  <2>1. k + 1 \in DOMAIN r /\ r[k + 1].kind = "close"
    BY <1>1, <1>2, <1>3
  <2> QED
    BY <2>1 DEF Pure
<1>9. ASSUME r[1] = PipeFrame PROVE q # <<>> /\ q[1] = PipeFrame
  <2>1. 1 \in DOMAIN r /\ r[1].kind # "close"
    BY <1>1, <1>3, <1>9, ItemKinds
  <2>2. 1 \in DOMAIN q /\ r[1] = q[1]
    BY <1>7, <2>1
  <2> QED
    BY <1>1, <1>9, <2>2
<1>10. CutOff(q, k) = r
  BY DEF CutOff, r, p, c
<1>11. \A a, top \in Nat : Run(q, a, top) => Run(r, a, top)
  BY <1>6
<1>12. r \in Seq(Item) /\ Len(r) \in Nat
  BY <1>1, <1>3
<1> QED
  BY <1>7, <1>8, <1>9, <1>10, <1>11, <1>12

LEMMA RunMore ==
    ASSUME NEW q \in Seq(Item), NEW a \in Nat, NEW top \in Nat, Run(q, a, top)
    PROVE  Run(q, a, top + 1)
<1>1. DOMAIN q = 1 .. Len(q) /\ Len(q) \in Nat
  OBVIOUS
<1> QED
  BY <1>1 DEF Run

-----------------------------------------------------------------------------
(* The way up *)

(* A host that listens may yet get what is on the wires and in the buffers  *)
(* before the first party that is gone, and gets it in order: q1 to q5 from *)
(* the host (local wire, fromRelay, tunnel, early, client wire) back to the *)
(* browser.  While all are there, that is everything sent.                  *)
UpKept(h, s, q1, q2, q3, q4, q5, plug, rel, br, ho) ==
    ho \in {"none", "open"} =>
        /\ Run(q1, h, s)
        /\ plug # "over" =>
               /\ Pure(q1) /\ Pure(q2)
               /\ Run(q2, h + Len(q1), s) /\ Run(q3, h + Len(q1) + Len(q2), s)
               /\ rel # "over" =>
                     /\ Pure(q3) /\ Pure(q4)
                     /\ Run(q4, h + Len(q1) + Len(q2) + Len(q3), s)
                     /\ Run(q5, h + Len(q1) + Len(q2) + Len(q3) + Len(q4), s)
                     /\ br = "open" => Pure(q5) /\ s = h + Len(q1) + Len(q2) + Len(q3) + Len(q4) + Len(q5)

LEMMA Lengths == \A q \in Seq(Item) : Len(q) \in Nat
OBVIOUS

LEMMA UpSends ==
    ASSUME NEW h \in Nat, NEW s \in Nat, s < MaxFrames,
           NEW q1 \in Seq(Item), NEW q2 \in Seq(Item), NEW q3 \in Seq(Item), NEW q4 \in Seq(Item),
           NEW q5 \in Seq(Item), NEW plug, NEW rel, NEW ho,
           UpKept(h, s, q1, q2, q3, q4, q5, plug, rel, "open", ho)
    PROVE  UpKept(h, s + 1, q1, q2, q3, q4, q5 \o <<Frame(s + 1)>>, plug, rel, "open", ho)
<1>1. Len(q1) \in Nat /\ Len(q2) \in Nat /\ Len(q3) \in Nat /\ Len(q4) \in Nat /\ Len(q5) \in Nat
  BY Lengths
<1>2. Frame(s + 1) \in Item /\ Frame(s + 1).kind = "frame"
  BY ItemKinds, PipeAssumption
<1> DEFINE x == <<Frame(s + 1)>>
           p2 == h + Len(q1)
           p3 == p2 + Len(q2)
           p4 == p3 + Len(q3)
           p5 == p4 + Len(q4)
<1>3. p2 \in Nat /\ p3 \in Nat /\ p4 \in Nat /\ p5 \in Nat
  BY <1>1
<1>4. x \in Seq(Item) /\ Len(x) = 1 /\ Pure(x) /\ Run(x, s, s + 1)
  BY <1>2, OneRuns
<1> HIDE DEF x
<1>5. /\ q5 \o x \in Seq(Item) /\ Len(q5 \o x) = Len(q5) + 1 /\ (Pure(q5 \o x) <=> Pure(q5))
      /\ \A a, top \in Nat : Run(q5 \o x, a, top) <=> Run(q5, a, top) /\ Run(x, a + Len(q5), top)
  BY <1>4, CatRuns
<1>6. UpKept(h, s + 1, q1, q2, q3, q4, q5 \o x, plug, rel, "open", ho)
  <2> SUFFICES ASSUME ho \in {"none", "open"}
               PROVE  UpKept(h, s + 1, q1, q2, q3, q4, q5 \o x, plug, rel, "open", ho)
    BY DEF UpKept
  <2>1. Run(q1, h, s + 1)
    BY RunMore DEF UpKept
  <2>2. ASSUME plug # "over"
        PROVE  Pure(q1) /\ Pure(q2) /\ Run(q2, p2, s + 1) /\ Run(q3, p3, s + 1)
    BY <1>3, <2>2, RunMore DEF UpKept
  <2>3. ASSUME plug # "over", rel # "over"
        PROVE  /\ Pure(q3) /\ Pure(q4) /\ Pure(q5) /\ Run(q4, p4, s + 1) /\ Run(q5, p5, s + 1)
               /\ s = p5 + Len(q5)
    BY <1>3, <2>3, RunMore DEF UpKept
  <2>4. ASSUME plug # "over", rel # "over" PROVE Run(q5 \o x, p5, s + 1) /\ s + 1 = p5 + Len(q5 \o x)
    BY <1>1, <1>3, <1>4, <1>5, <2>3, <2>4
  <2> QED
    BY <1>5, <2>1, <2>2, <2>3, <2>4 DEF UpKept
<1> QED
  BY <1>6 DEF x

(* The host closes, or stays as it is while others go. *)
LEMMA UpBrowserCloses ==
    ASSUME NEW h \in Nat, NEW s \in Nat,
           NEW q1 \in Seq(Item), NEW q2 \in Seq(Item), NEW q3 \in Seq(Item), NEW q4 \in Seq(Item),
           NEW q5 \in Seq(Item), NEW plug, NEW rel, NEW br, NEW ho,
           UpKept(h, s, q1, q2, q3, q4, q5, plug, rel, br, ho)
    PROVE  /\ UpKept(h, s, q1, q2, q3, q4, q5 \o <<Close("plain")>>, plug, rel, "plain", ho)
           /\ \A ends \in Outcome : UpKept(h, s, q1, q2, q3, q4, q5, plug, rel, ends, ho)
<1>1. Len(q1) \in Nat /\ Len(q2) \in Nat /\ Len(q3) \in Nat /\ Len(q4) \in Nat /\ Len(q5) \in Nat
  BY Lengths
<1>2. Close("plain") \in Item /\ Close("plain").kind = "close"
  BY ItemKinds DEF Outcome
<1> DEFINE x == <<Close("plain")>>
<1>3. x \in Seq(Item) /\ \A a, top \in Nat : Run(x, a, top)
  BY <1>2, OneRuns
<1> HIDE DEF x
<1>4. \A a, top \in Nat : Run(q5 \o x, a, top) <=> Run(q5, a, top)
  BY <1>1, <1>3, CatRuns
<1>5. UpKept(h, s, q1, q2, q3, q4, q5 \o x, plug, rel, "plain", ho)
  BY <1>1, <1>4 DEF UpKept
<1>6. \A ends \in Outcome : UpKept(h, s, q1, q2, q3, q4, q5, plug, rel, ends, ho)
  BY DEF UpKept, Outcome
<1> QED
  BY <1>5, <1>6 DEF x

LEMMA UpArrives ==
    ASSUME NEW h \in Nat, NEW s \in Nat,
           NEW q1 \in Seq(Item), NEW q2 \in Seq(Item), NEW q3 \in Seq(Item), NEW q4 \in Seq(Item),
           NEW q5 \in Seq(Item), NEW plug, NEW rel, NEW br,
           UpKept(h, s, q1, q2, q3, q4, q5, plug, rel, br, "open"),
           q1 # <<>>, Head(q1).kind = "frame"
    PROVE  /\ Head(q1) = Frame(h + 1) /\ h + 1 <= s
           /\ UpKept(h + 1, s, Tail(q1), q2, q3, q4, q5, plug, rel, br, "open")
<1>1. /\ Len(q1) \in Nat /\ Len(q2) \in Nat /\ Len(q3) \in Nat /\ Len(q4) \in Nat /\ Len(q5) \in Nat
      /\ Len(Tail(q1)) \in Nat /\ Len(q1) = 1 + Len(Tail(q1)) /\ Head(q1) \in Item
      /\ Pure(q1) => Pure(Tail(q1))
  BY Lengths, TakeRuns
<1>2. Run(q1, h, s)
  BY DEF UpKept
<1>3. Run(<<Head(q1)>>, h, s) /\ Run(Tail(q1), h + 1, s)
  BY <1>2, TakeRuns
<1>4. Head(q1) = Frame(h + 1) /\ h + 1 <= s
  BY <1>1, <1>3, OneRuns
<1>5. h + 1 + Len(Tail(q1)) = h + Len(q1)
  BY <1>1
<1>6. UpKept(h + 1, s, Tail(q1), q2, q3, q4, q5, plug, rel, br, "open")
  BY <1>1, <1>3, <1>5 DEF UpKept
<1> QED
  BY <1>4, <1>6

(* The relay takes a frame of the browser, and keeps it or passes it on. *)
LEMMA UpRelayTakes ==
    ASSUME NEW h \in Nat, NEW s \in Nat,
           NEW q1 \in Seq(Item), NEW q2 \in Seq(Item), NEW q3 \in Seq(Item), NEW q4 \in Seq(Item),
           NEW q5 \in Seq(Item), NEW plug, NEW rel, NEW br, NEW ho,
           UpKept(h, s, q1, q2, q3, q4, q5, plug, rel, br, ho),
           rel # "over", q5 # <<>>, Head(q5).kind = "frame"
    PROVE  /\ UpKept(h, s, q1, q2, q3, q4 \o <<Head(q5)>>, Tail(q5), plug, rel, br, ho)
           /\ q4 = <<>> => UpKept(h, s, q1, q2, q3 \o <<Head(q5)>>, <<>>, Tail(q5), plug, rel, br, ho)
<1>1. Len(q1) \in Nat /\ Len(q2) \in Nat /\ Len(q3) \in Nat /\ Len(q4) \in Nat /\ Len(q5) \in Nat
  BY Lengths
<1> DEFINE x == <<Head(q5)>>
           t == Tail(q5)
           p4 == h + Len(q1) + Len(q2) + Len(q3)
           p5 == p4 + Len(q4)
<1>2. /\ x \in Seq(Item) /\ Len(x) = 1 /\ Pure(x) /\ t \in Seq(Item)
      /\ Len(t) \in Nat /\ Len(q5) = 1 + Len(t) /\ (Pure(q5) <=> Pure(t))
      /\ \A a, top \in Nat : Run(q5, a, top) <=> Run(x, a, top) /\ Run(t, a + 1, top)
  BY TakeRuns, OneRuns
<1>3. p4 \in Nat /\ p5 \in Nat
  BY <1>1
<1> HIDE DEF x, t
<1>a. ASSUME NEW q \in Seq(Item)
      PROVE  /\ Len(q \o x) = Len(q) + 1 /\ (Pure(q \o x) <=> Pure(q))
             /\ \A a, top \in Nat : Run(q \o x, a, top) <=> Run(q, a, top) /\ Run(x, a + Len(q), top)
  BY <1>2, CatRuns
<1>4. /\ Len(q4 \o x) = Len(q4) + 1 /\ (Pure(q4 \o x) <=> Pure(q4))
      /\ \A a, top \in Nat : Run(q4 \o x, a, top) <=> Run(q4, a, top) /\ Run(x, a + Len(q4), top)
  BY <1>a
<1>5. /\ Len(q3 \o x) = Len(q3) + 1 /\ (Pure(q3 \o x) <=> Pure(q3))
      /\ \A a, top \in Nat : Run(q3 \o x, a, top) <=> Run(q3, a, top) /\ Run(x, a + Len(q3), top)
  BY <1>a
<1>6. ASSUME ho \in {"none", "open"}, plug # "over", rel # "over"
      PROVE  /\ Pure(q3) /\ Pure(q4) /\ Run(q4, p4, s) /\ Run(x, p5, s) /\ Run(t, p5 + 1, s)
             /\ Run(q3, h + Len(q1) + Len(q2), s)
             /\ br = "open" => Pure(q5) /\ s = p5 + Len(q5)
  BY <1>2, <1>3, <1>6 DEF UpKept
<1>7. p4 + Len(q4 \o x) = p5 + 1 /\ (br = "open" /\ s = p5 + Len(q5) => s = p5 + 1 + Len(t))
  BY <1>1, <1>2, <1>3, <1>4
<1>8. UpKept(h, s, q1, q2, q3, q4 \o x, t, plug, rel, br, ho)
  BY <1>2, <1>3, <1>4, <1>6, <1>7 DEF UpKept
<1>9. ASSUME q4 = <<>> PROVE UpKept(h, s, q1, q2, q3 \o x, <<>>, t, plug, rel, br, ho)
  <2>1. /\ Len(<<>>) = 0 /\ p5 = p4 /\ h + Len(q1) + Len(q2) + Len(q3 \o x) = p4 + 1 /\ p4 + 1 + Len(<<>>) = p4 + 1
        /\ (br = "open" /\ s = p5 + Len(q5) => s = p4 + 1 + Len(t))
        /\ h + Len(q1) + Len(q2) \in Nat /\ h + Len(q1) + Len(q2) + Len(q3) = p4
    BY <1>1, <1>2, <1>3, <1>5, <1>9
  <2>2. ASSUME ho \in {"none", "open"}, plug # "over", rel # "over"
        PROVE  /\ Pure(q3 \o x) /\ Run(q3 \o x, h + Len(q1) + Len(q2), s) /\ Run(t, p4 + 1, s)
               /\ br = "open" => Pure(t) /\ s = p4 + 1 + Len(t)
    BY <1>2, <1>3, <1>5, <1>6, <2>1, <2>2
  <2> QED
    BY <1>3, <2>1, <2>2, EmptyIs DEF UpKept
<1> QED
  BY <1>8, <1>9 DEF x, t

(* The relay splices: what it kept goes to the plugin. *)
LEMMA UpRelaySplices ==
    ASSUME NEW h \in Nat, NEW s \in Nat,
           NEW q1 \in Seq(Item), NEW q2 \in Seq(Item), NEW q3 \in Seq(Item), NEW q4 \in Seq(Item),
           NEW q5 \in Seq(Item), NEW plug, NEW rel, NEW br, NEW ho, rel # "over",
           UpKept(h, s, q1, q2, q3, q4, q5, plug, rel, br, ho)
    PROVE  UpKept(h, s, q1, q2, q3 \o q4, <<>>, q5, plug, "spliced", br, ho)
<1>1. Len(q1) \in Nat /\ Len(q2) \in Nat /\ Len(q3) \in Nat /\ Len(q4) \in Nat /\ Len(q5) \in Nat
  BY Lengths
<1> DEFINE p3 == h + Len(q1) + Len(q2)
           p4 == p3 + Len(q3)
           p5 == p4 + Len(q4)
<1>2. /\ Len(q3 \o q4) = Len(q3) + Len(q4) /\ (Pure(q3 \o q4) <=> Pure(q3) /\ Pure(q4))
      /\ Run(q3 \o q4, p3, s) <=> Run(q3, p3, s) /\ Run(q4, p4, s)
  <2>1. p3 \in Nat
    BY <1>1
  <2> QED
    BY <2>1, CatRuns
<1>3. p3 + Len(q3 \o q4) = p5 /\ p5 + Len(<<>>) = p5 /\ p5 \in Nat
  BY <1>1, <1>2, EmptyIs
<1>4. ASSUME ho \in {"none", "open"}, plug # "over"
      PROVE  /\ Pure(q3 \o q4) /\ Run(q3 \o q4, p3, s) /\ Run(q5, p5, s)
             /\ br = "open" => Pure(q5) /\ s = p5 + Len(q5)
  BY <1>2, <1>4 DEF UpKept
<1> QED
  BY <1>3, <1>4, EmptyIs DEF UpKept

(* The plugin splices: what it kept goes to the host. *)
LEMMA UpPluginSplices ==
    ASSUME NEW h \in Nat, NEW s \in Nat,
           NEW q1 \in Seq(Item), NEW q2 \in Seq(Item), NEW q3 \in Seq(Item), NEW q4 \in Seq(Item),
           NEW q5 \in Seq(Item), NEW plug, NEW rel, NEW br, NEW ho, plug # "over",
           UpKept(h, s, q1, q2, q3, q4, q5, plug, rel, br, ho)
    PROVE  UpKept(h, s, q1 \o q2, <<>>, q3, q4, q5, "spliced", rel, br, ho)
<1>1. Len(q1) \in Nat /\ Len(q2) \in Nat /\ Len(q3) \in Nat /\ Len(q4) \in Nat /\ Len(q5) \in Nat
  BY Lengths
<1> DEFINE p2 == h + Len(q1)
           p3 == p2 + Len(q2)
<1>2. /\ Len(q1 \o q2) = Len(q1) + Len(q2) /\ (Pure(q1 \o q2) <=> Pure(q1) /\ Pure(q2))
      /\ Run(q1 \o q2, h, s) <=> Run(q1, h, s) /\ Run(q2, p2, s)
  BY CatRuns
<1>3. h + Len(q1 \o q2) = p3 /\ p3 + Len(<<>>) = p3 /\ p3 \in Nat
  BY <1>1, <1>2, EmptyIs
<1>4. ASSUME ho \in {"none", "open"}
      PROVE  Pure(q1 \o q2) /\ Run(q1 \o q2, h, s) /\ Run(q3, p3, s)
  BY <1>2, <1>4 DEF UpKept
<1>5. UpKept(h, s, q1 \o q2, <<>>, q3, q4, q5, "spliced", rel, br, ho)
  BY <1>3, <1>4, EmptyIs DEF UpKept
<1> QED
  BY <1>5

(* The plugin takes a frame of the relay, and keeps it or passes it on. *)
LEMMA UpPluginTakes ==
    ASSUME NEW h \in Nat, NEW s \in Nat,
           NEW q1 \in Seq(Item), NEW q2 \in Seq(Item), NEW q3 \in Seq(Item), NEW q4 \in Seq(Item),
           NEW q5 \in Seq(Item), NEW plug, NEW rel, NEW br, NEW ho,
           UpKept(h, s, q1, q2, q3, q4, q5, plug, rel, br, ho),
           plug # "over", q3 # <<>>, Head(q3).kind = "frame"
    PROVE  /\ UpKept(h, s, q1, q2 \o <<Head(q3)>>, Tail(q3), q4, q5, plug, rel, br, ho)
           /\ q2 = <<>> => UpKept(h, s, q1 \o <<Head(q3)>>, <<>>, Tail(q3), q4, q5, plug, rel, br, ho)
<1>1. Len(q1) \in Nat /\ Len(q2) \in Nat /\ Len(q3) \in Nat /\ Len(q4) \in Nat /\ Len(q5) \in Nat
  BY Lengths
<1> DEFINE x == <<Head(q3)>>
           t == Tail(q3)
           p2 == h + Len(q1)
           p3 == p2 + Len(q2)
           p4 == p3 + Len(q3)
<1>2. /\ x \in Seq(Item) /\ Len(x) = 1 /\ Pure(x) /\ t \in Seq(Item)
      /\ Len(t) \in Nat /\ Len(q3) = 1 + Len(t) /\ (Pure(q3) <=> Pure(t))
      /\ \A a, top \in Nat : Run(q3, a, top) <=> Run(x, a, top) /\ Run(t, a + 1, top)
  BY TakeRuns, OneRuns
<1>3. p2 \in Nat /\ p3 \in Nat /\ p4 \in Nat
  BY <1>1
<1> HIDE DEF x, t
<1>4. ASSUME NEW q \in Seq(Item)
      PROVE  /\ Len(q \o x) = Len(q) + 1 /\ (Pure(q \o x) <=> Pure(q))
             /\ \A a, top \in Nat : Run(q \o x, a, top) <=> Run(q, a, top) /\ Run(x, a + Len(q), top)
  BY <1>2, CatRuns
<1>5. ASSUME ho \in {"none", "open"}
      PROVE  /\ Run(q1, h, s) /\ Pure(q1) /\ Pure(q2) /\ Run(q2, p2, s) /\ Run(x, p3, s) /\ Run(t, p3 + 1, s)
             /\ rel # "over" => Pure(t)
  BY <1>2, <1>3, <1>5 DEF UpKept
<1>6. /\ p2 + Len(q2 \o x) = p3 + 1 /\ p3 + 1 + Len(t) = p4 /\ p3 + 1 \in Nat
      /\ q2 = <<>> => p2 = p3 /\ h + Len(q1 \o x) = p3 + 1 /\ p3 + 1 + Len(<<>>) = p3 + 1
  <2>1. Len(q2 \o x) = Len(q2) + 1 /\ Len(q1 \o x) = Len(q1) + 1
    BY <1>4
  <2>2. Len(<<>>) = 0
    BY EmptyIs
  <2>3. p2 + Len(q2 \o x) = p3 + 1 /\ p3 + 1 + Len(t) = p4 /\ p3 + 1 \in Nat
    BY <1>1, <1>2, <2>1
  <2>4. q2 = <<>> => p2 = p3 /\ h + Len(q1 \o x) = p3 + 1 /\ p3 + 1 + Len(<<>>) = p3 + 1
    BY <1>1, <2>1, <2>2
  <2> QED
    BY <2>3, <2>4
<1>7. UpKept(h, s, q1, q2 \o x, t, q4, q5, plug, rel, br, ho)
  BY <1>3, <1>4, <1>5, <1>6 DEF UpKept
<1>8. ASSUME q2 = <<>> PROVE UpKept(h, s, q1 \o x, <<>>, t, q4, q5, plug, rel, br, ho)
  <2>1. ASSUME ho \in {"none", "open"} PROVE Run(q1 \o x, h, s) /\ Pure(q1 \o x)
    BY <1>3, <1>4, <1>5, <1>6, <1>8, <2>1
  <2> QED
    BY <1>3, <1>5, <1>6, <1>8, <2>1, EmptyIs DEF UpKept
<1> QED
  BY <1>7, <1>8 DEF x, t

(* The relay is done with the client: nothing but a close follows. *)
LEMMA UpRelayOver ==
    ASSUME NEW h \in Nat, NEW s \in Nat,
           NEW q1 \in Seq(Item), NEW q2 \in Seq(Item), NEW q3 \in Seq(Item), NEW q4, NEW q5,
           NEW plug, NEW rel, NEW br, NEW ho,
           UpKept(h, s, q1, q2, q3, q4, q5, plug, rel, br, ho)
    PROVE  /\ \A r4, r5 : UpKept(h, s, q1, q2, q3, r4, r5, plug, "over", br, ho)
           /\ \A r4, r5 : UpKept(h, s, q1, q2, q3 \o <<Close("plain")>>, r4, r5, plug, "over", br, ho)
<1>1. Len(q1) \in Nat /\ Len(q2) \in Nat /\ h + Len(q1) + Len(q2) \in Nat
  BY Lengths
<1>2. Close("plain") \in Item /\ Close("plain").kind = "close"
  BY ItemKinds DEF Outcome
<1> DEFINE x == <<Close("plain")>>
<1>3. x \in Seq(Item) /\ \A a, top \in Nat : Run(x, a, top)
  BY <1>2, OneRuns
<1> HIDE DEF x
<1>4. \A a \in Nat : Run(q3, a, s) => Run(q3 \o x, a, s)
  <2>1. /\ Len(q3) \in Nat
        /\ \A a, top \in Nat : Run(q3 \o x, a, top) <=> Run(q3, a, top) /\ Run(x, a + Len(q3), top)
    BY <1>3, CatRuns
  <2> QED
    BY <1>3, <2>1
<1>5. \A r4, r5 : UpKept(h, s, q1, q2, q3 \o x, r4, r5, plug, "over", br, ho)
  BY <1>1, <1>4 DEF UpKept
<1> QED
  BY <1>5 DEF UpKept, x

(* The plugin aborts the pipe: what the host has not got yet may be cut. *)
LEMMA UpPluginOver ==
    ASSUME NEW h \in Nat, NEW s \in Nat, NEW q1 \in Seq(Item), NEW q2, NEW q3, NEW q4, NEW q5,
           NEW plug, NEW rel, NEW br, NEW ho,
           UpKept(h, s, q1, q2, q3, q4, q5, plug, rel, br, ho)
    PROVE  /\ \A r3 : UpKept(h, s, q1, q2, r3, q4, q5, "over", rel, br, ho)
           /\ \A k \in 0 .. Len(q1) : \A r3 :
                  UpKept(h, s, CutOff(q1, k), q2, r3, q4, q5, "over", rel, br, ho)
<1>1. ASSUME NEW k \in 0 .. Len(q1)
      PROVE  Run(q1, h, s) => Run(CutOff(q1, k), h, s)
  BY CutRuns
<1> QED
  BY <1>1 DEF UpKept

LEMMA UpHostOpens ==
    ASSUME NEW h, NEW s, NEW q1, NEW q2, NEW q3, NEW q4, NEW q5, NEW plug, NEW rel, NEW br, NEW ho,
           UpKept(h, s, q1, q2, q3, q4, q5, plug, rel, br, ho)
    PROVE  /\ \A ends \in Outcome : UpKept(h, s, q1, q2, q3, q4, q5, plug, rel, br, ends)
           /\ ho = "none" => UpKept(h, s, q1, q2, q3, q4, q5, plug, rel, br, "open")
BY DEF UpKept, Outcome

-----------------------------------------------------------------------------
(* The way down *)

(* A browser that is connected may yet get what is on the wires and in the  *)
(* buffer before the first party that is gone, and gets it in order: q1 to  *)
(* q4 from the browser (client wire, tunnel without the pipe frame,         *)
(* fromLocal, local wire) back to the host.                                 *)
DownKept(h, s, q1, q2, q3, q4, plug, rel, br, ho) ==
    br = "open" =>
        /\ Run(q1, h, s)
        /\ rel # "over" =>
               /\ Pure(q1)
               /\ Run(q2, h + Len(q1), s)
               /\ plug # "over" =>
                     /\ Pure(q2) /\ Pure(q3)
                     /\ Run(q3, h + Len(q1) + Len(q2), s)
                     /\ Run(q4, h + Len(q1) + Len(q2) + Len(q3), s)
                     /\ ho \in {"none", "open"} => Pure(q4) /\ s = h + Len(q1) + Len(q2) + Len(q3) + Len(q4)

LEMMA DownSends ==
    ASSUME NEW h \in Nat, NEW s \in Nat, s < MaxFrames,
           NEW q1 \in Seq(Item), NEW q2 \in Seq(Item), NEW q3 \in Seq(Item), NEW q4 \in Seq(Item),
           NEW plug, NEW rel, NEW br,
           DownKept(h, s, q1, q2, q3, q4, plug, rel, br, "open")
    PROVE  DownKept(h, s + 1, q1, q2, q3, q4 \o <<Frame(s + 1)>>, plug, rel, br, "open")
<1>1. Len(q1) \in Nat /\ Len(q2) \in Nat /\ Len(q3) \in Nat /\ Len(q4) \in Nat
  BY Lengths
<1>2. Frame(s + 1) \in Item /\ Frame(s + 1).kind = "frame"
  BY ItemKinds, PipeAssumption
<1> DEFINE x == <<Frame(s + 1)>>
           p2 == h + Len(q1)
           p3 == p2 + Len(q2)
           p4 == p3 + Len(q3)
<1>3. p2 \in Nat /\ p3 \in Nat /\ p4 \in Nat
  BY <1>1
<1>4. x \in Seq(Item) /\ Len(x) = 1 /\ Pure(x) /\ Run(x, s, s + 1)
  BY <1>2, OneRuns
<1> HIDE DEF x
<1>5. /\ q4 \o x \in Seq(Item) /\ Len(q4 \o x) = Len(q4) + 1 /\ (Pure(q4 \o x) <=> Pure(q4))
      /\ \A a, top \in Nat : Run(q4 \o x, a, top) <=> Run(q4, a, top) /\ Run(x, a + Len(q4), top)
  BY <1>4, CatRuns
<1>6. DownKept(h, s + 1, q1, q2, q3, q4 \o x, plug, rel, br, "open")
  <2> SUFFICES ASSUME br = "open"
               PROVE  DownKept(h, s + 1, q1, q2, q3, q4 \o x, plug, rel, br, "open")
    BY DEF DownKept
  <2>1. Run(q1, h, s + 1)
    BY RunMore DEF DownKept
  <2>2. ASSUME rel # "over" PROVE Pure(q1) /\ Run(q2, p2, s + 1)
    BY <1>3, <2>2, RunMore DEF DownKept
  <2>3. ASSUME rel # "over", plug # "over"
        PROVE  /\ Pure(q2) /\ Pure(q3) /\ Pure(q4) /\ Run(q3, p3, s + 1) /\ Run(q4, p4, s + 1)
               /\ s = p4 + Len(q4)
    BY <1>3, <2>3, RunMore DEF DownKept
  <2>4. ASSUME rel # "over", plug # "over" PROVE Run(q4 \o x, p4, s + 1) /\ s + 1 = p4 + Len(q4 \o x)
    BY <1>1, <1>3, <1>4, <1>5, <2>3, <2>4
  <2> QED
    BY <1>5, <2>1, <2>2, <2>3, <2>4 DEF DownKept
<1> QED
  BY <1>6 DEF x

(* The host closes, learns that it is closed, or opens. *)
LEMMA DownHost ==
    ASSUME NEW h \in Nat, NEW s \in Nat,
           NEW q1 \in Seq(Item), NEW q2 \in Seq(Item), NEW q3 \in Seq(Item), NEW q4 \in Seq(Item),
           NEW plug, NEW rel, NEW br, NEW ho,
           DownKept(h, s, q1, q2, q3, q4, plug, rel, br, ho)
    PROVE  /\ \A how \in Outcome :
                  /\ DownKept(h, s, q1, q2, q3, Ended(q4, how), plug, rel, br, how)
                  /\ DownKept(h, s, q1, q2, q3, q4, plug, rel, br, how)
           /\ ho = "none" => DownKept(h, s, q1, q2, q3, q4, plug, rel, br, "open")
<1>1. ASSUME NEW how \in Outcome PROVE DownKept(h, s, q1, q2, q3, Ended(q4, how), plug, rel, br, how)
  <2>1. Len(q1) \in Nat /\ Len(q2) \in Nat /\ Len(q3) \in Nat /\ Len(q4) \in Nat
    BY Lengths
  <2>2. Close(how) \in Item /\ Close(how).kind = "close"
    BY ItemKinds
  <2> DEFINE x == <<Close(how)>>
  <2>3. x \in Seq(Item) /\ \A a, top \in Nat : Run(x, a, top)
    BY <2>2, OneRuns
  <2> HIDE DEF x
  <2>4. \A a, top \in Nat : Run(q4 \o x, a, top) <=> Run(q4, a, top)
    BY <2>1, <2>3, CatRuns
  <2>5. DownKept(h, s, q1, q2, q3, q4 \o x, plug, rel, br, how)
    BY <2>1, <2>4 DEF DownKept, Outcome
  <2> QED
    BY <2>5 DEF x, Ended
<1>2. \A how \in Outcome : DownKept(h, s, q1, q2, q3, q4, plug, rel, br, how)
  BY DEF DownKept, Outcome
<1>3. ho = "none" => DownKept(h, s, q1, q2, q3, q4, plug, rel, br, "open")
  BY DEF DownKept
<1> QED
  BY <1>1, <1>2, <1>3

LEMMA DownArrives ==
    ASSUME NEW h \in Nat, NEW s \in Nat,
           NEW q1 \in Seq(Item), NEW q2 \in Seq(Item), NEW q3 \in Seq(Item), NEW q4 \in Seq(Item),
           NEW plug, NEW rel, NEW ho,
           DownKept(h, s, q1, q2, q3, q4, plug, rel, "open", ho),
           q1 # <<>>, Head(q1).kind = "frame"
    PROVE  /\ Head(q1) = Frame(h + 1) /\ h + 1 <= s
           /\ DownKept(h + 1, s, Tail(q1), q2, q3, q4, plug, rel, "open", ho)
<1>1. /\ Len(q1) \in Nat /\ Len(q2) \in Nat /\ Len(q3) \in Nat /\ Len(q4) \in Nat
      /\ Len(Tail(q1)) \in Nat /\ Len(q1) = 1 + Len(Tail(q1)) /\ Head(q1) \in Item
      /\ Pure(q1) => Pure(Tail(q1))
  BY Lengths, TakeRuns
<1>2. Run(q1, h, s)
  BY DEF DownKept
<1>3. Run(<<Head(q1)>>, h, s) /\ Run(Tail(q1), h + 1, s)
  BY <1>2, TakeRuns
<1>4. Head(q1) = Frame(h + 1) /\ h + 1 <= s
  BY <1>1, <1>3, OneRuns
<1>5. h + 1 + Len(Tail(q1)) = h + Len(q1)
  BY <1>1
<1>6. DownKept(h + 1, s, Tail(q1), q2, q3, q4, plug, rel, "open", ho)
  BY <1>1, <1>3, <1>5 DEF DownKept
<1> QED
  BY <1>4, <1>6

LEMMA DownBrowserCloses ==
    ASSUME NEW h, NEW s, NEW q1, NEW q2, NEW q3, NEW q4, NEW plug, NEW rel, NEW ho
    PROVE  \A ends \in Outcome : DownKept(h, s, q1, q2, q3, q4, plug, rel, ends, ho)
BY DEF DownKept, Outcome

(* The relay takes a frame of the host and passes it on. *)
LEMMA DownRelayTakes ==
    ASSUME NEW h \in Nat, NEW s \in Nat,
           NEW q1 \in Seq(Item), NEW q2 \in Seq(Item), NEW q3 \in Seq(Item), NEW q4 \in Seq(Item),
           NEW plug, NEW rel, NEW br, NEW ho,
           DownKept(h, s, q1, q2, q3, q4, plug, rel, br, ho),
           rel # "over", q2 # <<>>, Head(q2).kind = "frame"
    PROVE  DownKept(h, s, q1 \o <<Head(q2)>>, Tail(q2), q3, q4, plug, rel, br, ho)
<1>1. Len(q1) \in Nat /\ Len(q2) \in Nat /\ Len(q3) \in Nat /\ Len(q4) \in Nat
  BY Lengths
<1> DEFINE x == <<Head(q2)>>
           t == Tail(q2)
           p2 == h + Len(q1)
           p3 == p2 + Len(q2)
<1>2. /\ x \in Seq(Item) /\ Len(x) = 1 /\ Pure(x) /\ t \in Seq(Item)
      /\ Len(t) \in Nat /\ Len(q2) = 1 + Len(t) /\ (Pure(q2) <=> Pure(t))
      /\ \A a, top \in Nat : Run(q2, a, top) <=> Run(x, a, top) /\ Run(t, a + 1, top)
  BY TakeRuns, OneRuns
<1>3. p2 \in Nat /\ p3 \in Nat
  BY <1>1
<1> HIDE DEF x, t
<1>a. ASSUME NEW q \in Seq(Item)
      PROVE  /\ Len(q \o x) = Len(q) + 1 /\ (Pure(q \o x) <=> Pure(q))
             /\ \A a, top \in Nat : Run(q \o x, a, top) <=> Run(q, a, top) /\ Run(x, a + Len(q), top)
  BY <1>2, CatRuns
<1>4. /\ Len(q1 \o x) = Len(q1) + 1 /\ (Pure(q1 \o x) <=> Pure(q1))
      /\ \A a, top \in Nat : Run(q1 \o x, a, top) <=> Run(q1, a, top) /\ Run(x, a + Len(q1), top)
  BY <1>a
<1>5. ASSUME br = "open" PROVE Run(q1 \o x, h, s) /\ Pure(q1 \o x) /\ Run(t, p2 + 1, s)
  BY <1>2, <1>3, <1>4, <1>5 DEF DownKept
<1>6. h + Len(q1 \o x) = p2 + 1 /\ p2 + 1 + Len(t) = p3
  BY <1>1, <1>2, <1>4
<1>7. DownKept(h, s, q1 \o x, t, q3, q4, plug, rel, br, ho)
  BY <1>2, <1>5, <1>6 DEF DownKept
<1> QED
  BY <1>7 DEF x, t

LEMMA DownSplices ==
    ASSUME NEW h, NEW s, NEW q1, NEW q2, NEW q3, NEW q4, NEW plug, NEW rel, NEW br, NEW ho,
           rel # "over", DownKept(h, s, q1, q2, q3, q4, plug, rel, br, ho)
    PROVE  DownKept(h, s, q1, q2, q3, q4, plug, "spliced", br, ho)
BY DEF DownKept

(* The relay is done with the client. *)
LEMMA DownRelayOver ==
    ASSUME NEW h \in Nat, NEW s \in Nat, NEW q1 \in Seq(Item), NEW q2, NEW q3, NEW q4,
           NEW plug, NEW rel, NEW br, NEW ho,
           DownKept(h, s, q1, q2, q3, q4, plug, rel, br, ho)
    PROVE  /\ \A r2 : DownKept(h, s, q1, r2, q3, q4, plug, "over", br, ho)
           /\ \A r2 : \A how \in Outcome :
                  DownKept(h, s, Ended(q1, how), r2, q3, q4, plug, "over", br, ho)
           /\ \A r2 : \A k \in 0 .. Len(q1) :
                  DownKept(h, s, CutOff(q1, k), r2, q3, q4, plug, "over", br, ho)
<1>1. \A r2 : DownKept(h, s, q1, r2, q3, q4, plug, "over", br, ho)
  BY DEF DownKept
<1>2. ASSUME NEW r2, NEW how \in Outcome
      PROVE  DownKept(h, s, Ended(q1, how), r2, q3, q4, plug, "over", br, ho)
  <2>1. Close(how) \in Item /\ Close(how).kind = "close"
    BY ItemKinds
  <2> DEFINE x == <<Close(how)>>
  <2>2. x \in Seq(Item) /\ \A a, top \in Nat : Run(x, a, top)
    BY <2>1, OneRuns
  <2> HIDE DEF x
  <2>3. Run(q1, h, s) => Run(q1 \o x, h, s)
    <3>1. Len(q1) \in Nat /\ (Run(q1 \o x, h, s) <=> Run(q1, h, s) /\ Run(x, h + Len(q1), s))
      BY <2>2, CatRuns
    <3> QED
      BY <2>2, <3>1
  <2>4. DownKept(h, s, q1 \o x, r2, q3, q4, plug, "over", br, ho)
    BY <2>3 DEF DownKept
  <2> QED
    BY <2>4 DEF x, Ended
<1>3. ASSUME NEW r2, NEW k \in 0 .. Len(q1)
      PROVE  DownKept(h, s, CutOff(q1, k), r2, q3, q4, plug, "over", br, ho)
  <2>1. Run(q1, h, s) => Run(CutOff(q1, k), h, s)
    BY CutRuns
  <2> QED
    BY <2>1 DEF DownKept
<1> QED
  BY <1>1, <1>2, <1>3

(* The plugin splices: what it kept goes to the relay. *)
LEMMA DownPluginSplices ==
    ASSUME NEW h \in Nat, NEW s \in Nat,
           NEW q1 \in Seq(Item), NEW q2 \in Seq(Item), NEW q3 \in Seq(Item), NEW q4 \in Seq(Item),
           NEW plug, NEW rel, NEW br, NEW ho, plug # "over",
           DownKept(h, s, q1, q2, q3, q4, plug, rel, br, ho)
    PROVE  DownKept(h, s, q1, q2 \o q3, <<>>, q4, "spliced", rel, br, ho)
<1>1. Len(q1) \in Nat /\ Len(q2) \in Nat /\ Len(q3) \in Nat /\ Len(q4) \in Nat
  BY Lengths
<1> DEFINE p2 == h + Len(q1)
           p3 == p2 + Len(q2)
           p4 == p3 + Len(q3)
<1>2. /\ Len(q2 \o q3) = Len(q2) + Len(q3) /\ (Pure(q2 \o q3) <=> Pure(q2) /\ Pure(q3))
      /\ Run(q2 \o q3, p2, s) <=> Run(q2, p2, s) /\ Run(q3, p3, s)
  <2>1. p2 \in Nat
    BY <1>1
  <2> QED
    BY <2>1, CatRuns
<1>3. p2 + Len(q2 \o q3) = p4 /\ p4 + Len(<<>>) = p4 /\ p4 \in Nat
  BY <1>1, <1>2, EmptyIs
<1>4. ASSUME br = "open", rel # "over"
      PROVE  Pure(q2 \o q3) /\ Run(q2 \o q3, p2, s) /\ Run(q4, p4, s)
  BY <1>2, <1>4 DEF DownKept
<1> QED
  BY <1>3, <1>4, EmptyIs DEF DownKept

(* The plugin takes a frame of the host, and keeps it or passes it on. *)
LEMMA DownPluginTakes ==
    ASSUME NEW h \in Nat, NEW s \in Nat,
           NEW q1 \in Seq(Item), NEW q2 \in Seq(Item), NEW q3 \in Seq(Item), NEW q4 \in Seq(Item),
           NEW plug, NEW rel, NEW br, NEW ho,
           DownKept(h, s, q1, q2, q3, q4, plug, rel, br, ho),
           plug # "over", q4 # <<>>, Head(q4).kind = "frame"
    PROVE  /\ DownKept(h, s, q1, q2, q3 \o <<Head(q4)>>, Tail(q4), plug, rel, br, ho)
           /\ q3 = <<>> => DownKept(h, s, q1, q2 \o <<Head(q4)>>, <<>>, Tail(q4), plug, rel, br, ho)
<1>1. Len(q1) \in Nat /\ Len(q2) \in Nat /\ Len(q3) \in Nat /\ Len(q4) \in Nat
  BY Lengths
<1> DEFINE x == <<Head(q4)>>
           t == Tail(q4)
           p2 == h + Len(q1)
           p3 == p2 + Len(q2)
           p4 == p3 + Len(q3)
<1>2. /\ x \in Seq(Item) /\ Len(x) = 1 /\ Pure(x) /\ t \in Seq(Item)
      /\ Len(t) \in Nat /\ Len(q4) = 1 + Len(t) /\ (Pure(q4) <=> Pure(t))
      /\ \A a, top \in Nat : Run(q4, a, top) <=> Run(x, a, top) /\ Run(t, a + 1, top)
  BY TakeRuns, OneRuns
<1>3. p2 \in Nat /\ p3 \in Nat /\ p4 \in Nat
  BY <1>1
<1> HIDE DEF x, t
<1>4. ASSUME NEW q \in Seq(Item)
      PROVE  /\ Len(q \o x) = Len(q) + 1 /\ (Pure(q \o x) <=> Pure(q))
             /\ \A a, top \in Nat : Run(q \o x, a, top) <=> Run(q, a, top) /\ Run(x, a + Len(q), top)
  BY <1>2, CatRuns
<1>5. ASSUME br = "open", rel # "over"
      PROVE  /\ Pure(q2) /\ Pure(q3) /\ Run(q2, p2, s) /\ Run(q3, p3, s) /\ Run(x, p4, s) /\ Run(t, p4 + 1, s)
             /\ ho \in {"none", "open"} => Pure(t) /\ s = p4 + 1 + Len(t)
  <2>1. Run(q4, p4, s) /\ (ho \in {"none", "open"} => Pure(q4) /\ s = p4 + Len(q4))
    BY <1>5 DEF DownKept
  <2>2. p4 + Len(q4) = p4 + 1 + Len(t)
    BY <1>1, <1>2
  <2> QED
    BY <1>2, <1>3, <1>5, <2>1, <2>2 DEF DownKept
<1>6. /\ Len(q3 \o x) = Len(q3) + 1 /\ p3 + Len(q3 \o x) = p4 + 1
      /\ Len(q2 \o x) = Len(q2) + 1
  <2>1. Len(q3 \o x) = Len(q3) + 1 /\ Len(q2 \o x) = Len(q2) + 1
    BY <1>4
  <2> QED
    BY <1>1, <2>1
<1>7. DownKept(h, s, q1, q2, q3 \o x, t, plug, rel, br, ho)
  BY <1>3, <1>4, <1>5, <1>6 DEF DownKept
<1>8. ASSUME q3 = <<>> PROVE DownKept(h, s, q1, q2 \o x, <<>>, t, plug, rel, br, ho)
  <2>1. Len(<<>>) = 0
    BY EmptyIs
  <2>2. p4 = p3 /\ p2 + Len(q2 \o x) = p4 + 1 /\ p4 + 1 + Len(<<>>) = p4 + 1 /\ p4 + 1 \in Nat
    BY <1>1, <1>6, <1>8, <2>1
  <2>3. ASSUME br = "open", rel # "over" PROVE Run(q2 \o x, p2, s) /\ Pure(q2 \o x)
    BY <1>3, <1>4, <1>5, <2>2, <2>3
  <2> QED
    BY <1>5, <2>2, <2>3, EmptyIs DEF DownKept
<1> QED
  BY <1>7, <1>8 DEF x, t

(* The plugin aborts the pipe: what is left of the tunnel is in order. *)
LEMMA DownPluginOver ==
    ASSUME NEW h \in Nat, NEW s \in Nat, NEW q1 \in Seq(Item), NEW q2, NEW q3, NEW q4, NEW r2,
           NEW plug, NEW rel, NEW br, NEW ho,
           DownKept(h, s, q1, q2, q3, q4, plug, rel, br, ho),
           \A a \in Nat : Run(q2, a, s) => Run(r2, a, s)
    PROVE  \A r4 : DownKept(h, s, q1, r2, q3, r4, "over", rel, br, ho)
<1>1. h + Len(q1) \in Nat
  BY Lengths
<1> QED
  BY <1>1 DEF DownKept

-----------------------------------------------------------------------------
(* The pipe frame, which names the client to the relay *)

Piped(q) == q # <<>> /\ q[1] = PipeFrame

(* What follows the pipe frame. *)
Strip(q) == IF Piped(q) THEN Tail(q) ELSE q

OnePipe(q) == \A i \in DOMAIN q : q[i] = PipeFrame => i = 1

NoPipe(q) == \A i \in DOMAIN q : q[i] # PipeFrame

NoFrame(q) == \A i \in DOMAIN q : q[i].kind # "frame"

LEMMA PipeFrameIs == PipeFrame \in Item /\ <<PipeFrame>> \in Seq(Item) /\ PipeFrame.kind = "pipe"
BY ItemKinds

LEMMA EmptyQueue ==
    Strip(<<>>) = <<>> /\ ~Piped(<<>>) /\ OnePipe(<<>>) /\ NoPipe(<<>>) /\ NoFrame(<<>>)
BY DEF Strip, Piped, OnePipe, NoPipe, NoFrame

LEMMA PipeQueue ==
    /\ Strip(<<PipeFrame>>) = <<>> /\ Piped(<<PipeFrame>>) /\ OnePipe(<<PipeFrame>>)
BY DEF Strip, Piped, OnePipe

LEMMA OneQueue ==
    ASSUME NEW item \in Item, item.kind # "pipe"
    PROVE  NoPipe(<<item>>)
BY ItemKinds DEF NoPipe

LEMMA NoPipeIs ==
    ASSUME NEW q \in Seq(Item), NoPipe(q)
    PROVE  ~Piped(q) /\ Strip(q) = q /\ OnePipe(q)
BY DEF NoPipe, Piped, Strip, OnePipe

LEMMA StripType ==
    ASSUME NEW q \in Seq(Item)
    PROVE  Strip(q) \in Seq(Item)
BY DEF Strip, Piped

LEMMA CatPipe ==
    ASSUME NEW q \in Seq(Item), NEW r \in Seq(Item)
    PROVE  /\ NoPipe(q) /\ NoPipe(r) => NoPipe(q \o r)
           /\ OnePipe(q) /\ NoPipe(r) =>
                 /\ OnePipe(q \o r) /\ Strip(q \o r) = Strip(q) \o r
                 /\ Piped(q \o r) <=> Piped(q)
<1> DEFINE x == q \o r
           n == Len(q)
           l == Len(r)
<1>1. /\ n \in Nat /\ l \in Nat /\ DOMAIN q = 1 .. n /\ DOMAIN r = 1 .. l /\ DOMAIN x = 1 .. n + l
      /\ (\A i \in 1 .. n : x[i] = q[i]) /\ \A i \in 1 .. l : x[n + i] = r[i]
      /\ x \in Seq(Item)
  BY CatIs
<1>2. \A i \in 1 .. n + l : i \in 1 .. n \/ (i - n \in 1 .. l /\ i = n + (i - n))
  BY <1>1
<1>3. ASSUME NoPipe(r), NEW i \in 1 .. n + l, x[i] = PipeFrame PROVE i \in 1 .. n /\ q[i] = PipeFrame
  <2>1. CASE i \in 1 .. n
    <3> HIDE DEF x, n, l
    <3> QED
      BY <1>1, <1>3, <2>1
  <2>2. CASE i \notin 1 .. n
    <3> HIDE DEF x, n, l
    <3>1. i - n \in 1 .. l /\ x[i] = r[i - n]
      BY <1>1, <1>2, <2>2
    <3> QED
      BY <1>1, <1>3, <3>1 DEF NoPipe
  <2> QED
    BY <2>1, <2>2
<1>4. ASSUME NoPipe(q), NoPipe(r) PROVE NoPipe(x)
  <2> HIDE DEF x, n, l
  <2> QED
    BY <1>1, <1>3, <1>4 DEF NoPipe
<1>5. ASSUME OnePipe(q), NoPipe(r) PROVE OnePipe(x)
  <2> HIDE DEF x, n, l
  <2> QED
    BY <1>1, <1>3, <1>5 DEF OnePipe
<1>6. ASSUME NoPipe(r) PROVE Piped(x) <=> Piped(q)
  <2>1. (q = <<>> <=> n = 0) /\ (x = <<>> <=> n + l = 0)
    BY <1>1
  <2> HIDE DEF x, n, l
  <2>2. ASSUME Piped(q) PROVE Piped(x)
    BY <1>1, <2>1, <2>2 DEF Piped
  <2>3. ASSUME Piped(x) PROVE Piped(q)
    <3>1. 1 \in 1 .. n + l /\ x[1] = PipeFrame
      BY <1>1, <2>1, <2>3 DEF Piped
    <3>2. 1 \in 1 .. n /\ q[1] = PipeFrame
      BY <1>3, <1>6, <3>1
    <3> QED
      BY <1>1, <2>1, <3>2 DEF Piped
  <2> QED
    BY <2>2, <2>3
<1>7. q # <<>> => Tail(x) = Tail(q) \o r
  OBVIOUS
<1>8. ASSUME NoPipe(r) PROVE Strip(x) = Strip(q) \o r
  <2> HIDE DEF x
  <2>1. x = q \o r
    BY DEF x
  <2> QED
    BY <1>6, <1>7, <1>8, <2>1 DEF Strip, Piped
<1> QED
  BY <1>4, <1>5, <1>6, <1>8

LEMMA TailPipe ==
    ASSUME NEW q \in Seq(Item), q # <<>>
    PROVE  /\ Head(q) = PipeFrame <=> Piped(q)
           /\ NoPipe(q) => NoPipe(Tail(q))
           /\ NoFrame(q) => NoFrame(Tail(q)) /\ Head(q).kind # "frame"
           /\ OnePipe(q) => NoPipe(Tail(q))
<1>1. /\ Len(q) \in Nat /\ Len(q) >= 1 /\ DOMAIN q = 1 .. Len(q) /\ DOMAIN Tail(q) = 1 .. Len(q) - 1
      /\ (\A i \in 1 .. Len(q) - 1 : Tail(q)[i] = q[i + 1]) /\ Head(q) = q[1]
  OBVIOUS
<1>2. 1 \in 1 .. Len(q) /\ \A i \in 1 .. Len(q) - 1 : i + 1 \in 1 .. Len(q) /\ i + 1 # 1
  BY <1>1
<1>3. NoPipe(q) => NoPipe(Tail(q))
  BY <1>1, <1>2 DEF NoPipe
<1>4. NoFrame(q) => NoFrame(Tail(q)) /\ Head(q).kind # "frame"
  BY <1>1, <1>2 DEF NoFrame
<1>5. OnePipe(q) => NoPipe(Tail(q))
  BY <1>1, <1>2 DEF OnePipe, NoPipe
<1> QED
  BY <1>1, <1>3, <1>4, <1>5 DEF Piped

LEMMA CutPipe ==
    ASSUME NEW q \in Seq(Item), OnePipe(q), NEW k \in 0 .. Len(q)
    PROVE  LET r == CutOff(q, k)
           IN  /\ OnePipe(r) /\ (Piped(r) => Piped(q))
               /\ NoPipe(q) => NoPipe(r)
               /\ NoFrame(q) => NoFrame(r)
               /\ ~Piped(r) /\ Piped(q) => NoFrame(r)
               /\ \A a, top \in Nat : Run(Strip(q), a, top) => Run(Strip(r), a, top)
<1> DEFINE r == CutOff(q, k)
<1>1. /\ r \in Seq(Item) /\ Len(r) \in Nat /\ DOMAIN r = 1 .. Len(r)
      /\ \A a, top \in Nat : Run(q, a, top) => Run(r, a, top)
      /\ r[1] = PipeFrame => q # <<>> /\ q[1] = PipeFrame
      /\ \A i \in DOMAIN r : r[i].kind # "close" => i \in DOMAIN q /\ r[i] = q[i]
  BY CutRuns
<1>2. ASSUME k = 0 PROVE r = <<Close("cut")>>
  <2> DEFINE p == SubSeq(q, 1, k)
             c == <<Close("cut")>>
  <2>1. p \in Seq(Item) /\ Len(p) = 0
    BY <1>2
  <2>2. c \in Seq(Item)
    BY ItemKinds DEF Outcome
  <2> HIDE DEF p, c
  <2>3. p = <<>>
    BY <2>1
  <2>4. p \o c = c
    BY <2>2, <2>3, NoneIsEmpty
  <2> QED
    BY <2>4 DEF p, c, CutOff
<1>3. ASSUME k # 0 PROVE r[1] = q[1] /\ r # <<>> /\ q # <<>>
  <2> DEFINE p == SubSeq(q, 1, k)
             c == <<Close("cut")>>
  <2>1. /\ Len(q) \in Nat /\ k \in 1 .. Len(q) /\ p \in Seq(Item) /\ Len(p) = k /\ p[1] = q[1]
    BY <1>3
  <2>2. c \in Seq(Item) /\ Len(c) = 1
    BY ItemKinds DEF Outcome
  <2> HIDE DEF p, c
  <2>3. (p \o c)[1] = p[1] /\ Len(p \o c) = k + 1
    BY <2>1, <2>2, CatIs
  <2>4. r = p \o c
    BY DEF p, c, CutOff
  <2> HIDE DEF r
  <2> QED
    BY <2>1, <2>3, <2>4
<1>4. Close("cut").kind = "close" /\ PipeFrame.kind = "pipe"
  BY ItemKinds DEF Outcome
<1> HIDE DEF r
<1>5. OnePipe(r) /\ (Piped(r) => Piped(q)) /\ (NoPipe(q) => NoPipe(r)) /\ (NoFrame(q) => NoFrame(r))
  BY <1>1, <1>4 DEF OnePipe, Piped, NoPipe, NoFrame
<1>6. ASSUME ~Piped(r), Piped(q) PROVE NoFrame(r)
  BY <1>2, <1>3, <1>4, <1>6 DEF Piped, NoFrame
<1>7. ASSUME NEW a \in Nat, NEW top \in Nat, Run(Strip(q), a, top) PROVE Run(Strip(r), a, top)
  <2>1. CASE ~Piped(q)
    BY <1>1, <1>5, <1>7, <2>1 DEF Strip
  <2>2. CASE Piped(q) /\ ~Piped(r)
    BY <1>6, <2>2 DEF Strip, Run, NoFrame
  <2>3. CASE Piped(q) /\ Piped(r)
    <3>1. /\ Len(q) \in Nat /\ DOMAIN q = 1 .. Len(q) /\ DOMAIN Tail(q) = 1 .. Len(q) - 1
          /\ \A i \in 1 .. Len(q) - 1 : Tail(q)[i] = q[i + 1]
      BY <2>3 DEF Piped
    <3>2. /\ DOMAIN Tail(r) = 1 .. Len(r) - 1 /\ \A i \in 1 .. Len(r) - 1 : Tail(r)[i] = r[i + 1]
      BY <1>1, <2>3 DEF Piped
    <3>3. ASSUME NEW i \in 1 .. Len(r) - 1, Tail(r)[i].kind = "frame"
          PROVE  Tail(r)[i] = Frame(a + i) /\ a + i <= top
      <4>1. i + 1 \in 1 .. Len(r) /\ r[i + 1] = Tail(r)[i] /\ i \in Nat /\ i >= 1
        BY <1>1, <3>2
      <4>2. i + 1 \in 1 .. Len(q) /\ r[i + 1] = q[i + 1]
        BY <1>1, <3>1, <3>3, <4>1
      <4>3. i \in 1 .. Len(q) - 1 /\ Tail(q)[i] = Tail(r)[i]
        BY <3>1, <4>1, <4>2
      <4> QED
        BY <1>7, <2>3, <3>1, <3>3, <4>3 DEF Strip, Run
    <3> QED
      BY <2>3, <3>2, <3>3 DEF Strip, Run
  <2> QED
    BY <2>1, <2>2, <2>3
<1> QED
  BY <1>5, <1>6, <1>7 DEF r

-----------------------------------------------------------------------------
(* The inductive invariant *)

Wires == [Link \X Way -> Seq(Item)]

Buffers == [{"relay", "fromRelay", "fromLocal"} -> Seq(Item)]

PipeTypes ==
    /\ PipeTypeOK
    /\ plugin = "dialing" => counted <= EarlyCap

GotRight == \A w \in Way : got[w] = Counting(Len(got[w])) /\ Len(got[w]) <= sent[w]

(* Who has spliced has no buffers left and both of its sockets, and the     *)
(* pipe frame comes first on the tunnel: the relay splices upon it and upon *)
(* nothing else, and until then it passes nothing down.                     *)
SpliceInv ==
    /\ plugin = "spliced" => ready = {"tunnel", "local"} /\ early["fromRelay"] = <<>> /\ early["fromLocal"] = <<>>
    /\ plugin = "dialing" => ready # {"tunnel", "local"}
    /\ relay = "spliced" => "tunnel" \in ready /\ early["relay"] = <<>> /\ NoPipe(On("tunnel", "down"))
    /\ "tunnel" \notin ready => On("tunnel", "down") = <<>>
    /\ relay = "pending" => On("client", "down") = <<>>
    /\ "tunnel" \in ready /\ relay = "pending" /\ plugin # "over" => Piped(On("tunnel", "down"))
    /\ relay = "pending" /\ ~Piped(On("tunnel", "down")) => NoFrame(On("tunnel", "down"))
    /\ OnePipe(On("tunnel", "down")) /\ NoPipe(early["fromLocal"]) /\ NoPipe(On("local", "down"))
    /\ "local" \notin ready => host = "none"

UpInv ==
    UpKept(Len(got["up"]), sent["up"], On("local", "up"), early["fromRelay"], On("tunnel", "up"),
           early["relay"], On("client", "up"), plugin, relay, browser, host)

DownInv ==
    DownKept(Len(got["down"]), sent["down"], On("client", "down"), Strip(On("tunnel", "down")),
             early["fromLocal"], On("local", "down"), plugin, relay, browser, host)

PipeInv == PipeTypes /\ GotRight /\ SpliceInv /\ UpInv /\ DownInv

LEMMA WireKeys ==
    /\ \A l \in Link, w \in Way : <<l, w>> \in Link \X Way
    /\ Link = {"client", "tunnel", "local"} /\ Way = {"up", "down"}
BY DEF Link, Way

(* The wires vs are the wires ws, but for l, w. *)
Same(vs, ws, l, w) == \A m \in Link, v \in Way : <<m, v>> # <<l, w>> => vs[<<m, v>>] = ws[<<m, v>>]

LEMMA SameIs ==
    ASSUME NEW vs, NEW ws
    PROVE  /\ Same(vs, ws, "client", "up") =>
                 /\ vs[<<"client", "down">>] = ws[<<"client", "down">>] /\ vs[<<"tunnel", "up">>] = ws[<<"tunnel", "up">>]
                 /\ vs[<<"tunnel", "down">>] = ws[<<"tunnel", "down">>] /\ vs[<<"local", "up">>] = ws[<<"local", "up">>]
                 /\ vs[<<"local", "down">>] = ws[<<"local", "down">>]
           /\ Same(vs, ws, "client", "down") =>
                 /\ vs[<<"client", "up">>] = ws[<<"client", "up">>] /\ vs[<<"tunnel", "up">>] = ws[<<"tunnel", "up">>]
                 /\ vs[<<"tunnel", "down">>] = ws[<<"tunnel", "down">>] /\ vs[<<"local", "up">>] = ws[<<"local", "up">>]
                 /\ vs[<<"local", "down">>] = ws[<<"local", "down">>]
           /\ Same(vs, ws, "tunnel", "up") =>
                 /\ vs[<<"client", "up">>] = ws[<<"client", "up">>] /\ vs[<<"client", "down">>] = ws[<<"client", "down">>]
                 /\ vs[<<"tunnel", "down">>] = ws[<<"tunnel", "down">>] /\ vs[<<"local", "up">>] = ws[<<"local", "up">>]
                 /\ vs[<<"local", "down">>] = ws[<<"local", "down">>]
           /\ Same(vs, ws, "tunnel", "down") =>
                 /\ vs[<<"client", "up">>] = ws[<<"client", "up">>] /\ vs[<<"client", "down">>] = ws[<<"client", "down">>]
                 /\ vs[<<"tunnel", "up">>] = ws[<<"tunnel", "up">>] /\ vs[<<"local", "up">>] = ws[<<"local", "up">>]
                 /\ vs[<<"local", "down">>] = ws[<<"local", "down">>]
           /\ Same(vs, ws, "local", "up") =>
                 /\ vs[<<"client", "up">>] = ws[<<"client", "up">>] /\ vs[<<"client", "down">>] = ws[<<"client", "down">>]
                 /\ vs[<<"tunnel", "up">>] = ws[<<"tunnel", "up">>] /\ vs[<<"tunnel", "down">>] = ws[<<"tunnel", "down">>]
                 /\ vs[<<"local", "down">>] = ws[<<"local", "down">>]
           /\ Same(vs, ws, "local", "down") =>
                 /\ vs[<<"client", "up">>] = ws[<<"client", "up">>] /\ vs[<<"client", "down">>] = ws[<<"client", "down">>]
                 /\ vs[<<"tunnel", "up">>] = ws[<<"tunnel", "up">>] /\ vs[<<"tunnel", "down">>] = ws[<<"tunnel", "down">>]
                 /\ vs[<<"local", "up">>] = ws[<<"local", "up">>]
BY DEF Same, Link, Way

LEMMA AddIs ==
    ASSUME NEW ws \in Wires, NEW l \in Link, NEW w \in Way, NEW items \in Seq(Item)
    PROVE  /\ Add(ws, l, w, items) \in Wires
           /\ Add(ws, l, w, items)[<<l, w>>] = ws[<<l, w>>] \o items
           /\ Same(Add(ws, l, w, items), ws, l, w)
<1>1. <<l, w>> \in Link \X Way /\ ws[<<l, w>>] \in Seq(Item)
  BY DEF Wires
<1>2. ws[<<l, w>>] \o items \in Seq(Item)
  BY <1>1, CatIs
<1> QED
  BY <1>1, <1>2 DEF Add, Wires, Same

LEMMA TakenIs ==
    ASSUME wire \in Wires, NEW l \in Link, NEW w \in Way, wire[<<l, w>>] # <<>>
    PROVE  /\ Taken(l, w) \in Wires
           /\ Taken(l, w)[<<l, w>>] = Tail(wire[<<l, w>>])
           /\ Same(Taken(l, w), wire, l, w)
<1>1. <<l, w>> \in Link \X Way /\ wire[<<l, w>>] \in Seq(Item)
  BY DEF Wires
<1>2. Tail(wire[<<l, w>>]) \in Seq(Item)
  BY <1>1, TakeRuns
<1> QED
  BY <1>1, <1>2 DEF Taken, Wires, Same

LEMMA CutIs ==
    ASSUME NEW ws \in Wires, NEW l \in Link, NEW w \in Way, NEW cs \in Cut(ws, l, w)
    PROVE  /\ cs \in Wires
           /\ \E k \in 0 .. Len(ws[<<l, w>>]) : cs[<<l, w>>] = CutOff(ws[<<l, w>>], k)
           /\ Same(cs, ws, l, w)
<1>1. <<l, w>> \in Link \X Way /\ ws[<<l, w>>] \in Seq(Item)
  BY DEF Wires
<1>2. PICK k \in 0 .. Len(ws[<<l, w>>]) :
          cs = [ws EXCEPT ![<<l, w>>] = CutOff(@, k)]
  BY DEF Cut, CutOff
<1>3. CutOff(ws[<<l, w>>], k) \in Seq(Item)
  BY <1>1, CutRuns
<1> QED
  BY <1>1, <1>2, <1>3 DEF Wires, Same

LEMMA TypesAre ==
    ASSUME PipeTypes
    PROVE  /\ sent["up"] \in 0 .. MaxFrames /\ sent["down"] \in 0 .. MaxFrames /\ MaxFrames \in Nat
           /\ sent["up"] \in Nat /\ sent["down"] \in Nat
           /\ got["up"] \in Seq(1 .. MaxFrames) /\ got["down"] \in Seq(1 .. MaxFrames)
           /\ Len(got["up"]) \in Nat /\ Len(got["down"]) \in Nat
           /\ wire \in Wires /\ early \in Buffers
           /\ early["relay"] \in Seq(Item) /\ early["fromRelay"] \in Seq(Item) /\ early["fromLocal"] \in Seq(Item)
           /\ \A l \in Link, w \in Way : wire[<<l, w>>] \in Seq(Item)
BY PipeAssumption DEF PipeTypes, PipeTypeOK, Wires, Buffers, Way

-----------------------------------------------------------------------------
(* The steps *)

LEMMA PipeInvInit == PipeInit => PipeInv
<1> SUFFICES ASSUME PipeInit PROVE PipeInv
  OBVIOUS
<1> USE DEF PipeInit
<1>1. /\ \A l \in Link, w \in Way : On(l, w) = <<>>
      /\ early["relay"] = <<>> /\ early["fromRelay"] = <<>> /\ early["fromLocal"] = <<>>
      /\ got["up"] = <<>> /\ got["down"] = <<>> /\ sent["up"] = 0 /\ sent["down"] = 0
  BY SameIs DEF On, Way
<1>2. PipeTypes
  <2>1. <<>> \in Seq(Item) /\ <<>> \in Seq(1 .. MaxFrames) /\ Len(<<>>) = 0
    OBVIOUS
  <2> QED
    BY <2>1, PipeAssumption DEF PipeTypes, PipeTypeOK
<1>3. GotRight
  BY <1>1 DEF GotRight, Way, Counting
<1>4. SpliceInv
  BY <1>1, EmptyQueue, WireKeys DEF SpliceInv
<1>5. Len(<<>>) = 0 /\ Pure(<<>>) /\ Strip(<<>>) = <<>> /\ Run(<<>>, 0, 0)
  BY EmptyIs, EmptyQueue
<1>6. UpInv
  BY <1>1, <1>5, WireKeys DEF UpInv, UpKept
<1>7. DownInv
  BY <1>1, <1>5, WireKeys DEF DownInv, DownKept
<1> QED
  BY <1>2, <1>3, <1>4, <1>6, <1>7 DEF PipeInv

LEMMA SendUpKeeps == PipeInv /\ Send("up") => PipeInv'
<1> SUFFICES ASSUME PipeInv, Send("up") PROVE PipeInv'
  OBVIOUS
<1> DEFINE x == <<Frame(sent["up"] + 1)>>
<1>1. /\ sent["up"] < MaxFrames /\ browser = "open"
      /\ sent' = [sent EXCEPT !["up"] = @ + 1] /\ wire' = Add(wire, "client", "up", x)
      /\ UNCHANGED <<got, early, counted, relay, plugin, ready, browser, host>>
  BY DEF Send
<1>2. PipeTypes /\ GotRight /\ SpliceInv /\ UpInv /\ DownInv
  BY DEF PipeInv
<1>3. x \in Seq(Item)
  BY <1>1, <1>2, TypesAre, ItemKinds
<1> HIDE DEF x
<1>4. /\ wire' \in Wires /\ wire'[<<"client", "up">>] = wire[<<"client", "up">>] \o x
      /\ Same(wire', wire, "client", "up")
  <2>1. wire \in Wires /\ "client" \in Link /\ "up" \in Way
    BY <1>2, TypesAre, WireKeys
  <2> QED
    BY <1>1, <1>3, <2>1, AddIs
<1>5. /\ On("client", "up")' = On("client", "up") \o x
      /\ UNCHANGED <<On("client", "down"), On("tunnel", "up"), On("tunnel", "down"), On("local", "up"), On("local", "down")>>
  BY <1>4, SameIs DEF On
<1>6. sent' \in [Way -> 0 .. MaxFrames] /\ sent'["up"] = sent["up"] + 1 /\ sent'["down"] = sent["down"]
  BY <1>1, <1>2, PipeAssumption DEF PipeTypes, PipeTypeOK, Way
<1>7. PipeTypes'
  BY <1>1, <1>2, <1>4, <1>6 DEF PipeTypes, PipeTypeOK, Wires
<1>8. GotRight'
  BY <1>1, <1>2, <1>6, TypesAre DEF GotRight, Way
<1>9. SpliceInv'
  BY <1>1, <1>2, <1>5 DEF SpliceInv
<1>10. UpInv'
  <2> DEFINE q1 == On("local", "up")
             q3 == On("tunnel", "up")
             q5 == On("client", "up")
  <2>1. UpKept(Len(got["up"]), sent["up"], q1, early["fromRelay"], q3, early["relay"], q5, plugin, relay, "open", host)
    BY <1>1, <1>2 DEF UpInv
  <2>2. q1 \in Seq(Item) /\ q3 \in Seq(Item) /\ q5 \in Seq(Item)
    BY <1>2, TypesAre, WireKeys DEF On
  <2> HIDE DEF q1, q3, q5
  <2>3. UpKept(Len(got["up"]), sent["up"] + 1, q1, early["fromRelay"], q3, early["relay"], q5 \o x, plugin, relay, "open", host)
    BY <1>1, <1>2, <2>1, <2>2, TypesAre, UpSends DEF x
  <2> QED
    BY <1>1, <1>5, <1>6, <2>3 DEF UpInv, q1, q3, q5
<1>11. DownInv'
  BY <1>1, <1>2, <1>5, <1>6 DEF DownInv
<1> QED
  BY <1>7, <1>8, <1>9, <1>10, <1>11 DEF PipeInv

LEMMA SendDownKeeps == PipeInv /\ Send("down") => PipeInv'
<1> SUFFICES ASSUME PipeInv, Send("down") PROVE PipeInv'
  OBVIOUS
<1> DEFINE x == <<Frame(sent["down"] + 1)>>
<1>1. /\ sent["down"] < MaxFrames /\ host = "open"
      /\ sent' = [sent EXCEPT !["down"] = @ + 1] /\ wire' = Add(wire, "local", "down", x)
      /\ UNCHANGED <<got, early, counted, relay, plugin, ready, browser, host>>
  BY DEF Send
<1>2. PipeTypes /\ GotRight /\ SpliceInv /\ UpInv /\ DownInv
  BY DEF PipeInv
<1>3. x \in Seq(Item) /\ NoPipe(x)
  <2>1. Frame(sent["down"] + 1) \in Item /\ Frame(sent["down"] + 1).kind = "frame"
    BY <1>1, <1>2, TypesAre, ItemKinds
  <2> QED
    BY <2>1, OneQueue
<1> HIDE DEF x
<1>4. /\ wire' \in Wires /\ wire'[<<"local", "down">>] = wire[<<"local", "down">>] \o x
      /\ Same(wire', wire, "local", "down")
  <2>1. wire \in Wires /\ "local" \in Link /\ "down" \in Way
    BY <1>2, TypesAre, WireKeys
  <2> QED
    BY <1>1, <1>3, <2>1, AddIs
<1>5. /\ On("local", "down")' = On("local", "down") \o x
      /\ UNCHANGED <<On("client", "down"), On("tunnel", "up"), On("tunnel", "down"), On("local", "up"), On("client", "up")>>
  BY <1>4, SameIs DEF On
<1>6. sent' \in [Way -> 0 .. MaxFrames] /\ sent'["down"] = sent["down"] + 1 /\ sent'["up"] = sent["up"]
  BY <1>1, <1>2, PipeAssumption DEF PipeTypes, PipeTypeOK, Way
<1>7. PipeTypes'
  BY <1>1, <1>2, <1>4, <1>6 DEF PipeTypes, PipeTypeOK, Wires
<1>8. GotRight'
  BY <1>1, <1>2, <1>6, TypesAre DEF GotRight, Way
<1>9. SpliceInv'
  <2>1. On("local", "down") \in Seq(Item)
    BY <1>2, TypesAre, WireKeys DEF On
  <2>2. NoPipe(On("local", "down") \o x)
    BY <1>2, <1>3, <2>1, CatPipe DEF SpliceInv
  <2> QED
    BY <1>1, <1>2, <1>5, <2>2 DEF SpliceInv
<1>10. DownInv'
  <2> DEFINE q1 == On("client", "down")
             q2 == Strip(On("tunnel", "down"))
             q4 == On("local", "down")
  <2>1. DownKept(Len(got["down"]), sent["down"], q1, q2, early["fromLocal"], q4, plugin, relay, browser, "open")
    BY <1>1, <1>2 DEF DownInv
  <2>2. q1 \in Seq(Item) /\ q2 \in Seq(Item) /\ q4 \in Seq(Item)
    BY <1>2, TypesAre, WireKeys, StripType DEF On
  <2> HIDE DEF q1, q2, q4
  <2>3. DownKept(Len(got["down"]), sent["down"] + 1, q1, q2, early["fromLocal"], q4 \o x, plugin, relay, browser, "open")
    BY <1>1, <1>2, <2>1, <2>2, TypesAre, DownSends DEF x
  <2> QED
    BY <1>1, <1>5, <1>6, <2>3 DEF DownInv, q1, q2, q4
<1>11. UpInv'
  BY <1>1, <1>2, <1>5, <1>6 DEF UpInv
<1> QED
  BY <1>7, <1>8, <1>9, <1>10, <1>11 DEF PipeInv

LEMMA OnTypes ==
    ASSUME PipeTypes
    PROVE  /\ On("client", "up") \in Seq(Item) /\ On("tunnel", "up") \in Seq(Item) /\ On("local", "up") \in Seq(Item)
           /\ On("client", "down") \in Seq(Item) /\ On("tunnel", "down") \in Seq(Item)
           /\ On("local", "down") \in Seq(Item) /\ Strip(On("tunnel", "down")) \in Seq(Item)
           /\ Len(got["up"]) \in Nat /\ Len(got["down"]) \in Nat /\ sent["up"] \in Nat /\ sent["down"] \in Nat
           /\ early["relay"] \in Seq(Item) /\ early["fromRelay"] \in Seq(Item) /\ early["fromLocal"] \in Seq(Item)
BY TypesAre, WireKeys, StripType DEF On

(* Nothing but the wires and one end changes. *)
LEMMA TypesStay ==
    ASSUME PipeTypes, UNCHANGED <<sent, got, early, counted, relay, plugin, ready>>,
           wire' \in Wires, browser' \in {"open"} \cup Outcome, host' \in {"none", "open"} \cup Outcome
    PROVE  PipeTypes'
BY DEF PipeTypes, PipeTypeOK, Wires

LEMMA BrowserClosesKeeps == PipeInv /\ BrowserCloses => PipeInv'
<1> SUFFICES ASSUME PipeInv, BrowserCloses PROVE PipeInv'
  OBVIOUS
<1> DEFINE x == <<Close("plain")>>
<1>1. /\ browser = "open" /\ browser' = "plain" /\ wire' = Add(wire, "client", "up", x)
      /\ UNCHANGED <<sent, got, early, counted, relay, plugin, ready, host>>
  BY DEF BrowserCloses
<1>2. PipeTypes /\ GotRight /\ SpliceInv /\ UpInv /\ DownInv
  BY DEF PipeInv
<1>3. x \in Seq(Item)
  BY ItemKinds DEF Outcome
<1> HIDE DEF x
<1>4. /\ wire' \in Wires /\ wire'[<<"client", "up">>] = wire[<<"client", "up">>] \o x
      /\ Same(wire', wire, "client", "up")
  <2>1. wire \in Wires /\ "client" \in Link /\ "up" \in Way
    BY <1>2, TypesAre, WireKeys
  <2> QED
    BY <1>1, <1>3, <2>1, AddIs
<1>5. /\ On("client", "up")' = On("client", "up") \o x
      /\ UNCHANGED <<On("client", "down"), On("tunnel", "up"), On("tunnel", "down"), On("local", "up"), On("local", "down")>>
  BY <1>4, SameIs DEF On
<1>6. PipeTypes'
  BY <1>1, <1>2, <1>4, TypesStay DEF Outcome, PipeTypes, PipeTypeOK
<1>7. GotRight' /\ SpliceInv'
  BY <1>1, <1>2, <1>5 DEF GotRight, SpliceInv
<1>8. UpInv'
  <2>1. UpKept(Len(got["up"]), sent["up"], On("local", "up"), early["fromRelay"], On("tunnel", "up"),
               early["relay"], On("client", "up") \o x, plugin, relay, "plain", host)
    BY <1>2, OnTypes, UpBrowserCloses DEF UpInv, x
  <2> QED
    BY <1>1, <1>5, <2>1 DEF UpInv
<1>9. DownInv'
  BY <1>1, DownBrowserCloses DEF DownInv, Outcome
<1> QED
  BY <1>6, <1>7, <1>8, <1>9 DEF PipeInv

LEMMA HostClosesKeeps ==
    ASSUME PipeInv, NEW how \in {"plain", "fatal"}, HostCloses(how)
    PROVE  PipeInv'
<1> DEFINE x == <<Close(how)>>
<1>1. /\ host = "open" /\ host' = how /\ how \in Outcome /\ wire' = Add(wire, "local", "down", x)
      /\ UNCHANGED <<sent, got, early, counted, relay, plugin, ready, browser>>
  BY DEF HostCloses, Outcome
<1>2. PipeTypes /\ GotRight /\ SpliceInv /\ UpInv /\ DownInv
  BY DEF PipeInv
<1>3. x \in Seq(Item) /\ NoPipe(x)
  <2>1. Close(how) \in Item /\ Close(how).kind = "close"
    BY <1>1, ItemKinds
  <2> QED
    BY <2>1, OneQueue
<1> HIDE DEF x
<1>4. /\ wire' \in Wires /\ wire'[<<"local", "down">>] = wire[<<"local", "down">>] \o x
      /\ Same(wire', wire, "local", "down")
  <2>1. wire \in Wires /\ "local" \in Link /\ "down" \in Way
    BY <1>2, TypesAre, WireKeys
  <2> QED
    BY <1>1, <1>3, <2>1, AddIs
<1>5. /\ On("local", "down")' = On("local", "down") \o x
      /\ UNCHANGED <<On("client", "down"), On("tunnel", "up"), On("tunnel", "down"), On("local", "up"), On("client", "up")>>
  BY <1>4, SameIs DEF On
<1>6. PipeTypes'
  <2>1. browser' \in {"open"} \cup Outcome /\ host' \in {"none", "open"} \cup Outcome
    BY <1>1, <1>2 DEF PipeTypes, PipeTypeOK
  <2> QED
    BY <1>1, <1>2, <1>4, <2>1, TypesStay
<1>7. GotRight'
  BY <1>1, <1>2 DEF GotRight
<1>8. SpliceInv'
  <2>1. NoPipe(On("local", "down") \o x)
    BY <1>2, <1>3, OnTypes, CatPipe DEF SpliceInv
  <2> QED
    BY <1>1, <1>2, <1>5, <2>1 DEF SpliceInv
<1>9. UpInv'
  <2>1. UpKept(Len(got["up"]), sent["up"], On("local", "up"), early["fromRelay"], On("tunnel", "up"),
               early["relay"], On("client", "up"), plugin, relay, browser, how)
    BY <1>1, <1>2, UpHostOpens DEF UpInv
  <2> QED
    BY <1>1, <1>5, <2>1 DEF UpInv
<1>10. DownInv'
  <2>1. DownKept(Len(got["down"]), sent["down"], On("client", "down"), Strip(On("tunnel", "down")),
                 early["fromLocal"], On("local", "down") \o x, plugin, relay, browser, how)
    BY <1>1, <1>2, OnTypes, DownHost DEF DownInv, x, Ended
  <2> QED
    BY <1>1, <1>5, <2>1 DEF DownInv
<1> QED
  BY <1>6, <1>7, <1>8, <1>9, <1>10 DEF PipeInv

LEMMA CountOn ==
    ASSUME NEW n \in Nat
    PROVE  Append(Counting(n), n + 1) = Counting(n + 1) /\ Len(Counting(n)) = n
<1>1. Counting(n) \in Seq(Nat) /\ Len(Counting(n)) = n /\ \A i \in 1 .. n : Counting(n)[i] = i
  BY DEF Counting
<1>2. Counting(n + 1) \in Seq(Nat) /\ Len(Counting(n + 1)) = n + 1 /\ \A i \in 1 .. n + 1 : Counting(n + 1)[i] = i
  BY DEF Counting
<1>3. Append(Counting(n), n + 1) \in Seq(Nat) /\ Len(Append(Counting(n), n + 1)) = n + 1
  BY <1>1
<1>4. \A i \in 1 .. n + 1 : Append(Counting(n), n + 1)[i] = i
  BY <1>1
<1> HIDE DEF Counting
<1> QED
  BY <1>1, <1>2, <1>3, <1>4

(* A frame that arrives is the next one. *)
LEMMA GotNext ==
    ASSUME PipeTypes, GotRight, NEW w \in Way, UNCHANGED sent,
           Len(got[w]) + 1 <= sent[w], got' = [got EXCEPT ![w] = Append(@, Len(got[w]) + 1)]
    PROVE  /\ GotRight' /\ got' \in [Way -> Seq(1 .. MaxFrames)]
           /\ Len(got'[w]) = Len(got[w]) + 1 /\ \A v \in Way : v # w => got'[v] = got[v]
<1>1. got \in [Way -> Seq(1 .. MaxFrames)] /\ sent[w] \in 0 .. MaxFrames /\ MaxFrames \in Nat
  BY PipeAssumption DEF PipeTypes, PipeTypeOK
<1> DEFINE n == Len(got[w])
<1>2. got[w] \in Seq(1 .. MaxFrames) /\ n \in Nat /\ n + 1 \in 1 .. MaxFrames
  BY <1>1
<1>3. Append(got[w], n + 1) \in Seq(1 .. MaxFrames) /\ Len(Append(got[w], n + 1)) = n + 1
  BY <1>2
<1>4. got'[w] = Append(got[w], n + 1) /\ \A v \in Way : v # w => got'[v] = got[v]
  BY <1>1
<1>5. got[w] = Counting(n)
  BY DEF GotRight
<1>6. got'[w] = Counting(n + 1)
  BY <1>2, <1>4, <1>5, CountOn
<1> HIDE DEF n
<1>7. Len(got'[w]) = n + 1
  BY <1>3, <1>4
<1>8. \A v \in Way : got'[v] = Counting(Len(got'[v])) /\ Len(got'[v]) <= sent'[v]
  BY <1>4, <1>6, <1>7 DEF GotRight, n
<1>9. got' \in [Way -> Seq(1 .. MaxFrames)]
  BY <1>1, <1>3 DEF n
<1> QED
  BY <1>4, <1>7, <1>8, <1>9 DEF GotRight, n

LEMMA BrowserReceivesKeeps == PipeInv /\ BrowserReceives => PipeInv'
<1> SUFFICES ASSUME PipeInv, BrowserReceives PROVE PipeInv'
  OBVIOUS
<1> DEFINE q == On("client", "down")
           item == Head(q)
<1>1. /\ browser = "open" /\ q # <<>> /\ wire' = Taken("client", "down")
      /\ UNCHANGED <<sent, early, counted, relay, plugin, ready, host>>
  BY DEF BrowserReceives, Next1
<1>2. PipeTypes /\ GotRight /\ SpliceInv /\ UpInv /\ DownInv
  BY DEF PipeInv
<1>3. q \in Seq(Item) /\ item \in Item
  BY <1>1, <1>2, OnTypes, TakeRuns
<1>4. /\ wire' \in Wires /\ wire'[<<"client", "down">>] = Tail(wire[<<"client", "down">>])
      /\ Same(wire', wire, "client", "down")
  <2>1. wire \in Wires /\ "client" \in Link /\ "down" \in Way /\ wire[<<"client", "down">>] # <<>>
    BY <1>1, <1>2, TypesAre, WireKeys DEF On
  <2> QED
    BY <1>1, <2>1, TakenIs
<1>5. /\ On("client", "down")' = Tail(q)
      /\ UNCHANGED <<On("client", "up"), On("tunnel", "up"), On("tunnel", "down"), On("local", "up"), On("local", "down")>>
  BY <1>4, SameIs DEF On
<1>6. SpliceInv'
  BY <1>1, <1>2, <1>5 DEF SpliceInv
<1>7. DownKept(Len(got["down"]), sent["down"], q, Strip(On("tunnel", "down")),
               early["fromLocal"], On("local", "down"), plugin, relay, "open", host)
  BY <1>1, <1>2 DEF DownInv
<1>8. CASE item.kind = "frame"
  <2>1. got' = [got EXCEPT !["down"] = Append(@, item.n)] /\ browser' = browser
    BY <1>8 DEF BrowserReceives
  <2>2. /\ item = Frame(Len(got["down"]) + 1) /\ Len(got["down"]) + 1 <= sent["down"]
        /\ DownKept(Len(got["down"]) + 1, sent["down"], Tail(q), Strip(On("tunnel", "down")),
                    early["fromLocal"], On("local", "down"), plugin, relay, "open", host)
    <3> HIDE DEF q
    <3> QED
      BY <1>1, <1>2, <1>3, <1>7, <1>8, OnTypes, DownArrives
  <2>3. item.n = Len(got["down"]) + 1
    BY <2>2 DEF Frame
  <2>4. /\ GotRight' /\ got' \in [Way -> Seq(1 .. MaxFrames)]
        /\ Len(got'["down"]) = Len(got["down"]) + 1 /\ got'["up"] = got["up"]
    BY <1>1, <1>2, <2>1, <2>2, <2>3, GotNext, WireKeys
  <2>5. PipeTypes'
    BY <1>1, <1>2, <1>4, <2>1, <2>4 DEF PipeTypes, PipeTypeOK, Wires
  <2>6. UpInv'
    BY <1>1, <1>2, <1>5, <2>1, <2>4 DEF UpInv
  <2>7. DownInv'
    BY <1>1, <1>5, <2>1, <2>2, <2>4 DEF DownInv
  <2> QED
    BY <1>6, <2>4, <2>5, <2>6, <2>7 DEF PipeInv
<1>9. CASE item.kind = "close"
  <2>1. got' = got /\ browser' = item.how /\ item.how \in Outcome
    BY <1>3, <1>9, ItemKinds DEF BrowserReceives
  <2>2. PipeTypes'
    <3>1. browser' \in {"open"} \cup Outcome /\ host' \in {"none", "open"} \cup Outcome
      BY <1>1, <1>2, <2>1 DEF PipeTypes, PipeTypeOK
    <3> QED
      BY <1>1, <1>2, <1>4, <2>1, <3>1, TypesStay
  <2>3. GotRight'
    BY <1>1, <1>2, <2>1 DEF GotRight
  <2>4. UpInv'
    <3>1. UpKept(Len(got["up"]), sent["up"], On("local", "up"), early["fromRelay"], On("tunnel", "up"),
                 early["relay"], On("client", "up"), plugin, relay, item.how, host)
      BY <1>2, <2>1, OnTypes, UpBrowserCloses DEF UpInv
    <3> QED
      BY <1>1, <1>5, <2>1, <3>1 DEF UpInv
  <2>5. DownInv'
    BY <2>1, DownBrowserCloses DEF DownInv
  <2> QED
    BY <1>6, <2>2, <2>3, <2>4, <2>5 DEF PipeInv
<1> QED
  BY <1>8, <1>9 DEF BrowserReceives

LEMMA HostReceivesKeeps == PipeInv /\ HostReceives => PipeInv'
<1> SUFFICES ASSUME PipeInv, HostReceives PROVE PipeInv'
  OBVIOUS
<1> DEFINE q == On("local", "up")
           item == Head(q)
<1>1. /\ host = "open" /\ q # <<>> /\ wire' = Taken("local", "up")
      /\ UNCHANGED <<sent, early, counted, relay, plugin, ready, browser>>
  BY DEF HostReceives, Next1
<1>2. PipeTypes /\ GotRight /\ SpliceInv /\ UpInv /\ DownInv
  BY DEF PipeInv
<1>3. q \in Seq(Item) /\ item \in Item
  BY <1>1, <1>2, OnTypes, TakeRuns
<1>4. /\ wire' \in Wires /\ wire'[<<"local", "up">>] = Tail(wire[<<"local", "up">>])
      /\ Same(wire', wire, "local", "up")
  <2>1. wire \in Wires /\ "local" \in Link /\ "up" \in Way /\ wire[<<"local", "up">>] # <<>>
    BY <1>1, <1>2, TypesAre, WireKeys DEF On
  <2> QED
    BY <1>1, <2>1, TakenIs
<1>5. /\ On("local", "up")' = Tail(q)
      /\ UNCHANGED <<On("client", "up"), On("tunnel", "up"), On("tunnel", "down"), On("client", "down"), On("local", "down")>>
  BY <1>4, SameIs DEF On
<1>6. SpliceInv'
  BY <1>1, <1>2, <1>5 DEF SpliceInv
<1>7. UpKept(Len(got["up"]), sent["up"], q, early["fromRelay"], On("tunnel", "up"),
             early["relay"], On("client", "up"), plugin, relay, browser, "open")
  BY <1>1, <1>2 DEF UpInv
<1>8. CASE item.kind = "frame"
  <2>1. got' = [got EXCEPT !["up"] = Append(@, item.n)] /\ host' = host
    BY <1>8 DEF HostReceives
  <2>2. /\ item = Frame(Len(got["up"]) + 1) /\ Len(got["up"]) + 1 <= sent["up"]
        /\ UpKept(Len(got["up"]) + 1, sent["up"], Tail(q), early["fromRelay"], On("tunnel", "up"),
                  early["relay"], On("client", "up"), plugin, relay, browser, "open")
    <3> HIDE DEF q
    <3> QED
      BY <1>1, <1>2, <1>3, <1>7, <1>8, OnTypes, UpArrives
  <2>3. item.n = Len(got["up"]) + 1
    BY <2>2 DEF Frame
  <2>4. /\ GotRight' /\ got' \in [Way -> Seq(1 .. MaxFrames)]
        /\ Len(got'["up"]) = Len(got["up"]) + 1 /\ got'["down"] = got["down"]
    BY <1>1, <1>2, <2>1, <2>2, <2>3, GotNext, WireKeys
  <2>5. PipeTypes'
    BY <1>1, <1>2, <1>4, <2>1, <2>4 DEF PipeTypes, PipeTypeOK, Wires
  <2>6. DownInv'
    BY <1>1, <1>2, <1>5, <2>1, <2>4 DEF DownInv
  <2>7. UpInv'
    BY <1>1, <1>5, <2>1, <2>2, <2>4 DEF UpInv
  <2> QED
    BY <1>6, <2>4, <2>5, <2>6, <2>7 DEF PipeInv
<1>9. CASE item.kind = "close"
  <2>1. got' = got /\ host' = item.how /\ item.how \in Outcome
    BY <1>3, <1>9, ItemKinds DEF HostReceives
  <2>2. PipeTypes'
    <3>1. browser' \in {"open"} \cup Outcome /\ host' \in {"none", "open"} \cup Outcome
      BY <1>1, <1>2, <2>1 DEF PipeTypes, PipeTypeOK
    <3> QED
      BY <1>1, <1>2, <1>4, <2>1, <3>1, TypesStay
  <2>3. GotRight'
    BY <1>1, <1>2, <2>1 DEF GotRight
  <2>4. DownInv'
    <3>1. DownKept(Len(got["down"]), sent["down"], On("client", "down"), Strip(On("tunnel", "down")),
                   early["fromLocal"], On("local", "down"), plugin, relay, browser, item.how)
      BY <1>2, <2>1, OnTypes, DownHost DEF DownInv
    <3> QED
      BY <1>1, <1>5, <2>1, <3>1 DEF DownInv
  <2>5. UpInv'
    BY <2>1 DEF UpInv, UpKept, Outcome
  <2> QED
    BY <1>6, <2>2, <2>3, <2>4, <2>5 DEF PipeInv
<1> QED
  BY <1>8, <1>9 DEF HostReceives

(* The relay is done with the client, and closes what it closes. *)
LEMMA RelayOverKeeps ==
    ASSUME PipeInv, relay' = "over", UNCHANGED <<sent, got, counted, plugin, ready, browser, host, early>>,
           wire' \in Wires, UNCHANGED <<On("local", "up"), On("local", "down")>>,
           \/ On("tunnel", "up")' = On("tunnel", "up")
           \/ On("tunnel", "up")' = On("tunnel", "up") \o <<Close("plain")>>,
           \/ On("client", "down")' = On("client", "down")
           \/ \E how \in Outcome : On("client", "down")' = Ended(On("client", "down"), how)
           \/ \E k \in 0 .. Len(On("client", "down")) :
                  On("client", "down")' = CutOff(On("client", "down"), k),
           OnePipe(On("tunnel", "down")'), "tunnel" \notin ready => On("tunnel", "down")' = <<>>
    PROVE  PipeInv'
<1>1. PipeTypes /\ GotRight /\ SpliceInv /\ UpInv /\ DownInv
  BY DEF PipeInv
<1>2. PipeTypes'
  BY <1>1 DEF PipeTypes, PipeTypeOK, Wires
<1>3. GotRight'
  BY <1>1 DEF GotRight
<1>4. SpliceInv'
  BY <1>1 DEF SpliceInv
<1>5. UpInv'
  <2> DEFINE q1 == On("local", "up")
             q3 == On("tunnel", "up")
             q5 == On("client", "up")
  <2>1. /\ \A r4, r5 : UpKept(Len(got["up"]), sent["up"], q1, early["fromRelay"], q3, r4, r5, plugin, "over", browser, host)
        /\ \A r4, r5 : UpKept(Len(got["up"]), sent["up"], q1, early["fromRelay"], q3 \o <<Close("plain")>>, r4, r5,
                              plugin, "over", browser, host)
    BY <1>1, OnTypes, UpRelayOver DEF UpInv
  <2> QED
    BY <2>1 DEF UpInv
<1>6. DownInv'
  <2> DEFINE q1 == On("client", "down")
             D(r1, r2) == DownKept(Len(got["down"]), sent["down"], r1, r2, early["fromLocal"], On("local", "down"),
                                   plugin, "over", browser, host)
  <2>1. /\ \A r2 : D(q1, r2)
        /\ \A r2 : \A how \in Outcome : D(Ended(q1, how), r2)
        /\ \A r2 : \A k \in 0 .. Len(q1) : D(CutOff(q1, k), r2)
    BY <1>1, OnTypes, DownRelayOver DEF DownInv
  <2> DEFINE r == On("client", "down")'
             t == Strip(On("tunnel", "down"))'
  <2>2. D(r, t)
    <3>1. CASE r = q1
      <4> HIDE DEF D, r, t
      <4> QED
        BY <2>1, <3>1
    <3>2. ASSUME NEW how \in Outcome, r = Ended(q1, how) PROVE D(r, t)
      <4> HIDE DEF D, r, t
      <4> QED
        BY <2>1, <3>2
    <3>3. ASSUME NEW k \in 0 .. Len(q1), r = CutOff(q1, k) PROVE D(r, t)
      <4> HIDE DEF D, r, t
      <4> QED
        BY <2>1, <3>3
    <3> QED
      BY <3>1, <3>2, <3>3
  <2> QED
    BY <2>2 DEF DownInv
<1> QED
  BY <1>2, <1>3, <1>4, <1>5, <1>6 DEF PipeInv

(* The plugin aborts, when it took ws from the wires. *)
LEMMA AbortIs ==
    ASSUME NEW ws \in Wires, Abort(ws)
    PROVE  /\ plugin' = "over" /\ UNCHANGED <<early, ready>> /\ wire' \in Wires
           /\ wire'[<<"client", "up">>] = ws[<<"client", "up">>] /\ wire'[<<"client", "down">>] = ws[<<"client", "down">>]
           /\ wire'[<<"tunnel", "up">>] = ws[<<"tunnel", "up">>] /\ wire'[<<"local", "down">>] = ws[<<"local", "down">>]
           /\ \/ wire'[<<"tunnel", "down">>] = ws[<<"tunnel", "down">>]
              \/ /\ "tunnel" \in ready
                 /\ \E k \in 0 .. Len(ws[<<"tunnel", "down">>]) :
                       wire'[<<"tunnel", "down">>] = CutOff(ws[<<"tunnel", "down">>], k)
           /\ \/ wire'[<<"local", "up">>] = ws[<<"local", "up">>]
              \/ \E k \in 0 .. Len(ws[<<"local", "up">>]) :
                       wire'[<<"local", "up">>] = CutOff(ws[<<"local", "up">>], k)
<1>1. /\ plugin' = "over" /\ UNCHANGED <<early, ready>>
      /\ \E a \in (IF "tunnel" \in ready THEN Cut(ws, "tunnel", "down") ELSE {ws}) :
            wire' \in (IF "local" \in ready THEN Cut(a, "local", "up") ELSE {a})
  BY DEF Abort
<1>2. PICK a : /\ a \in (IF "tunnel" \in ready THEN Cut(ws, "tunnel", "down") ELSE {ws})
               /\ wire' \in (IF "local" \in ready THEN Cut(a, "local", "up") ELSE {a})
  BY <1>1
<1>3. "tunnel" \in Link /\ "local" \in Link /\ "client" \in Link /\ "up" \in Way /\ "down" \in Way
  BY WireKeys
<1>4. /\ a \in Wires
      /\ Same(a, ws, "tunnel", "down")
      /\ \/ a[<<"tunnel", "down">>] = ws[<<"tunnel", "down">>]
         \/ /\ "tunnel" \in ready
            /\ \E k \in 0 .. Len(ws[<<"tunnel", "down">>]) :
                  a[<<"tunnel", "down">>] = CutOff(ws[<<"tunnel", "down">>], k)
  <2>1. CASE "tunnel" \in ready
    <3>1. a \in Cut(ws, "tunnel", "down")
      BY <1>2, <2>1
    <3>2. /\ a \in Wires
          /\ \E k \in 0 .. Len(ws[<<"tunnel", "down">>]) :
                  a[<<"tunnel", "down">>] = CutOff(ws[<<"tunnel", "down">>], k)
          /\ Same(a, ws, "tunnel", "down")
      BY <1>3, <3>1, CutIs
    <3> QED
      BY <2>1, <3>2
  <2>2. CASE "tunnel" \notin ready
    BY <1>2, <2>2 DEF Same
  <2> QED
    BY <2>1, <2>2
<1>5. /\ wire' \in Wires
      /\ Same(wire', a, "local", "up")
      /\ \/ wire'[<<"local", "up">>] = a[<<"local", "up">>]
         \/ \E k \in 0 .. Len(a[<<"local", "up">>]) :
                  wire'[<<"local", "up">>] = CutOff(a[<<"local", "up">>], k)
  <2>1. CASE "local" \in ready
    <3>1. wire' \in Cut(a, "local", "up")
      BY <1>2, <2>1
    <3>2. /\ wire' \in Wires
          /\ \E k \in 0 .. Len(a[<<"local", "up">>]) :
                  wire'[<<"local", "up">>] = CutOff(a[<<"local", "up">>], k)
          /\ Same(wire', a, "local", "up")
      <4>1. a \in Wires
        BY <1>4
      <4> QED
        BY <1>3, <3>1, <4>1, CutIs
    <3> QED
      BY <3>2
  <2>2. CASE "local" \notin ready
    BY <1>2, <1>4, <2>2 DEF Same
  <2> QED
    BY <2>1, <2>2
<1>6. a[<<"local", "up">>] = ws[<<"local", "up">>]
  BY <1>4, SameIs
<1> QED
  <2>1. /\ a[<<"client", "up">>] = ws[<<"client", "up">>] /\ a[<<"client", "down">>] = ws[<<"client", "down">>]
        /\ a[<<"tunnel", "up">>] = ws[<<"tunnel", "up">>] /\ a[<<"local", "down">>] = ws[<<"local", "down">>]
    BY <1>4, SameIs
  <2>2. /\ wire'[<<"client", "up">>] = a[<<"client", "up">>] /\ wire'[<<"client", "down">>] = a[<<"client", "down">>]
        /\ wire'[<<"tunnel", "up">>] = a[<<"tunnel", "up">>] /\ wire'[<<"local", "down">>] = a[<<"local", "down">>]
        /\ wire'[<<"tunnel", "down">>] = a[<<"tunnel", "down">>]
    BY <1>5, SameIs
  <2> QED
    BY <1>1, <1>4, <1>5, <1>6, <2>1, <2>2

LEMMA AbortKeeps ==
    ASSUME PipeInv, NEW ws \in Wires, Abort(ws), UNCHANGED <<sent, got, relay, browser, host>>,
           counted' \in 0 .. EarlyCap + 1,
           ws[<<"client", "up">>] = On("client", "up"), ws[<<"client", "down">>] = On("client", "down"),
           ws[<<"tunnel", "down">>] = On("tunnel", "down"), ws[<<"local", "up">>] = On("local", "up"),
           NoPipe(ws[<<"local", "down">>])
    PROVE  PipeInv'
<1>1. PipeTypes /\ GotRight /\ SpliceInv /\ UpInv /\ DownInv
  BY DEF PipeInv
<1> DEFINE td == On("tunnel", "down")
           lu == On("local", "up")
<1>2. /\ plugin' = "over" /\ UNCHANGED <<early, ready>> /\ wire' \in Wires
      /\ UNCHANGED <<On("client", "up"), On("client", "down")>>
      /\ On("local", "down")' = ws[<<"local", "down">>]
      /\ \/ td' = td
         \/ "tunnel" \in ready /\ \E k \in 0 .. Len(td) : td' = CutOff(td, k)
      /\ lu' = lu \/ \E k \in 0 .. Len(lu) : lu' = CutOff(lu, k)
  BY AbortIs DEF On
<1>3. td \in Seq(Item) /\ lu \in Seq(Item) /\ OnePipe(td)
  BY <1>1, OnTypes DEF SpliceInv
<1>4. /\ OnePipe(td') /\ (Piped(td') => Piped(td)) /\ (NoPipe(td) => NoPipe(td'))
      /\ (NoFrame(td) => NoFrame(td')) /\ (~Piped(td') /\ Piped(td) => NoFrame(td'))
      /\ \A a, top \in Nat : Run(Strip(td), a, top) => Run(Strip(td'), a, top)
      /\ "tunnel" \notin ready => td' = td
  <2> HIDE DEF td
  <2>1. CASE td' = td
    BY <1>3, <2>1
  <2>2. ASSUME "tunnel" \in ready, NEW k \in 0 .. Len(td), td' = CutOff(td, k)
        PROVE  /\ OnePipe(td') /\ (Piped(td') => Piped(td)) /\ (NoPipe(td) => NoPipe(td'))
               /\ (NoFrame(td) => NoFrame(td')) /\ (~Piped(td') /\ Piped(td) => NoFrame(td'))
               /\ \A a, top \in Nat : Run(Strip(td), a, top) => Run(Strip(td'), a, top)
    <3> DEFINE r == CutOff(td, k)
    <3>1. /\ OnePipe(r) /\ (Piped(r) => Piped(td)) /\ (NoPipe(td) => NoPipe(r))
          /\ (NoFrame(td) => NoFrame(r)) /\ (~Piped(r) /\ Piped(td) => NoFrame(r))
          /\ \A a, top \in Nat : Run(Strip(td), a, top) => Run(Strip(r), a, top)
      BY <1>3, CutPipe
    <3> QED
      BY <2>2, <3>1
  <2> QED
    BY <1>2, <2>1, <2>2
<1>5. PipeTypes'
  BY <1>1, <1>2 DEF PipeTypes, PipeTypeOK, Wires
<1>6. GotRight'
  BY <1>1 DEF GotRight
<1>7. SpliceInv'
  BY <1>1, <1>2, <1>4 DEF SpliceInv
<1>8. UpInv'
  <2>1. /\ \A r3 : UpKept(Len(got["up"]), sent["up"], lu, early["fromRelay"], r3,
                           early["relay"], On("client", "up"), "over", relay, browser, host)
        /\ \A k \in 0 .. Len(lu) : \A r3 :
               UpKept(Len(got["up"]), sent["up"], CutOff(lu, k), early["fromRelay"], r3,
                      early["relay"], On("client", "up"), "over", relay, browser, host)
    BY <1>1, OnTypes, UpPluginOver DEF UpInv
  <2>2. UpKept(Len(got["up"]), sent["up"], lu', early["fromRelay"], On("tunnel", "up")',
               early["relay"], On("client", "up"), "over", relay, browser, host)
    BY <1>2, <2>1
  <2> QED
    BY <1>2, <2>2 DEF UpInv
<1>9. DownInv'
  <2>1. \A a \in Nat : Run(Strip(td), a, sent["down"]) => Run(Strip(td'), a, sent["down"])
    BY <1>1, <1>4, OnTypes
  <2>2. \A r4 : DownKept(Len(got["down"]), sent["down"], On("client", "down"), Strip(td'),
                         early["fromLocal"], r4, "over", relay, browser, host)
    <3> HIDE DEF td
    <3>1. DownKept(Len(got["down"]), sent["down"], On("client", "down"), Strip(td),
                   early["fromLocal"], On("local", "down"), plugin, relay, browser, host)
      BY <1>1 DEF DownInv, td
    <3> QED
      BY <1>1, <2>1, <3>1, OnTypes, DownPluginOver
  <2> QED
    BY <1>2, <2>2 DEF DownInv
<1> QED
  BY <1>5, <1>6, <1>7, <1>8, <1>9 DEF PipeInv

(* A buffer takes one more. *)
LEMMA EarlyGrows ==
    ASSUME early \in Buffers, NEW b \in {"relay", "fromRelay", "fromLocal"}, NEW item \in Item,
           early' = [early EXCEPT ![b] = Append(@, item)]
    PROVE  /\ early' \in Buffers /\ early'[b] = early[b] \o <<item>>
           /\ Len(early[b]) \in Nat /\ Len(early'[b]) = Len(early[b]) + 1
           /\ \A c \in {"relay", "fromRelay", "fromLocal"} : c # b => early'[c] = early[c]
<1>1. early[b] \in Seq(Item)
  BY DEF Buffers
<1> DEFINE q == early[b]
           r == Append(q, item)
<1>2. r \in Seq(Item) /\ Len(q) \in Nat /\ Len(r) = Len(q) + 1
  BY <1>1
<1>3. r = q \o <<item>>
  BY <1>1
<1>4. early' = [early EXCEPT ![b] = r]
  OBVIOUS
<1> HIDE DEF r
<1>5. /\ early' \in Buffers /\ early'[b] = r
      /\ \A c \in {"relay", "fromRelay", "fromLocal"} : c # b => early'[c] = early[c]
  BY <1>2, <1>4 DEF Buffers
<1> QED
  BY <1>2, <1>3, <1>5

LEMMA KillIs ==
    ASSUME NEW ws \in Wires, NEW how \in Outcome, Kill(ws, how)
    PROVE  /\ relay' = "over" /\ wire' \in Wires
           /\ wire'[<<"client", "down">>] = Ended(ws[<<"client", "down">>], how)
           /\ wire'[<<"tunnel", "up">>] = ws[<<"tunnel", "up">>] \o <<Close("plain")>>
           /\ wire'[<<"tunnel", "down">>] = ws[<<"tunnel", "down">>]
           /\ wire'[<<"client", "up">>] = ws[<<"client", "up">>]
           /\ wire'[<<"local", "up">>] = ws[<<"local", "up">>] /\ wire'[<<"local", "down">>] = ws[<<"local", "down">>]
<1> DEFINE x == <<Close(how)>>
           y == <<Close("plain")>>
           a == Add(ws, "client", "down", x)
<1>1. x \in Seq(Item) /\ y \in Seq(Item)
  BY ItemKinds DEF Outcome
<1>2. "tunnel" \in Link /\ "local" \in Link /\ "client" \in Link /\ "up" \in Way /\ "down" \in Way
  BY WireKeys
<1>3. relay' = "over" /\ wire' = Add(a, "tunnel", "up", y)
  BY DEF Kill
<1>4. ws[<<"client", "down">>] \o x = Ended(ws[<<"client", "down">>], how)
  BY DEF Ended
<1>a. a = Add(ws, "client", "down", x)
  OBVIOUS
<1> HIDE DEF x, y, a
<1>5. /\ a \in Wires /\ a[<<"client", "down">>] = ws[<<"client", "down">>] \o x
      /\ Same(a, ws, "client", "down")
  <2>1. ws \in Wires /\ "client" \in Link /\ "down" \in Way /\ x \in Seq(Item)
    BY <1>1, <1>2
  <2> QED
    BY <1>a, <2>1, AddIs
<1>6. /\ wire' \in Wires /\ wire'[<<"tunnel", "up">>] = a[<<"tunnel", "up">>] \o y
      /\ Same(wire', a, "tunnel", "up")
  <2>1. a \in Wires /\ "tunnel" \in Link /\ "up" \in Way /\ y \in Seq(Item)
    BY <1>1, <1>2, <1>5
  <2> QED
    BY <1>3, <2>1, AddIs
<1> QED
  <2>1. /\ a[<<"client", "up">>] = ws[<<"client", "up">>] /\ a[<<"tunnel", "down">>] = ws[<<"tunnel", "down">>]
        /\ a[<<"tunnel", "up">>] = ws[<<"tunnel", "up">>] /\ a[<<"local", "down">>] = ws[<<"local", "down">>]
        /\ a[<<"local", "up">>] = ws[<<"local", "up">>]
    BY <1>5, SameIs
  <2>2. /\ wire'[<<"client", "up">>] = a[<<"client", "up">>] /\ wire'[<<"client", "down">>] = a[<<"client", "down">>]
        /\ wire'[<<"tunnel", "down">>] = a[<<"tunnel", "down">>] /\ wire'[<<"local", "down">>] = a[<<"local", "down">>]
        /\ wire'[<<"local", "up">>] = a[<<"local", "up">>]
    BY <1>6, SameIs
  <2> QED
    BY <1>3, <1>4, <1>5, <1>6, <2>1, <2>2 DEF y

LEMMA RelayFromClientKeeps == PipeInv /\ RelayFromClient => PipeInv'
<1> SUFFICES ASSUME PipeInv, RelayFromClient PROVE PipeInv'
  OBVIOUS
<1> DEFINE q == On("client", "up")
           item == Head(q)
           rest == Taken("client", "up")
<1>1. relay # "over" /\ q # <<>> /\ UNCHANGED <<sent, got, counted, plugin, ready, browser, host>>
  BY DEF RelayFromClient, Next1
<1>2. PipeTypes /\ GotRight /\ SpliceInv /\ UpInv /\ DownInv
  BY DEF PipeInv
<1>3. q \in Seq(Item) /\ item \in Item
  BY <1>1, <1>2, OnTypes, TakeRuns
<1>4. /\ rest \in Wires /\ rest[<<"client", "up">>] = Tail(wire[<<"client", "up">>])
      /\ Same(rest, wire, "client", "up")
  <2>1. wire \in Wires /\ "client" \in Link /\ "up" \in Way /\ wire[<<"client", "up">>] # <<>>
    BY <1>1, <1>2, TypesAre, WireKeys DEF On
  <2> QED
    BY <2>1, TakenIs
<1>5. /\ OnePipe(On("tunnel", "down")) /\ ("tunnel" \notin ready => On("tunnel", "down") = <<>>)
  BY <1>2 DEF SpliceInv
<1>6. GotRight'
  BY <1>1, <1>2 DEF GotRight
<1>7. ASSUME item.kind = "frame", relay = "pending", Len(early["relay"]) < EarlyCap,
             early' = [early EXCEPT !["relay"] = Append(@, item)], wire' = rest, relay' = relay
      PROVE  PipeInv'
  <2>1. /\ early' \in Buffers /\ early'["relay"] = early["relay"] \o <<item>>
        /\ Len(early["relay"]) \in Nat /\ Len(early'["relay"]) = Len(early["relay"]) + 1
        /\ early'["fromRelay"] = early["fromRelay"] /\ early'["fromLocal"] = early["fromLocal"]
    BY <1>2, <1>3, <1>7, TypesAre, EarlyGrows
  <2>2. /\ On("client", "up")' = Tail(q)
        /\ UNCHANGED <<On("client", "down"), On("tunnel", "up"), On("tunnel", "down"), On("local", "up"), On("local", "down")>>
    BY <1>4, <1>7, SameIs DEF On
  <2>3. PipeTypes'
    <3>1. Len(early'["relay"]) <= EarlyCap
      BY <1>7, <2>1, PipeAssumption
    <3> QED
      BY <1>1, <1>2, <1>4, <1>7, <2>1, <3>1 DEF PipeTypes, PipeTypeOK, Wires, Buffers
  <2>4. SpliceInv'
    BY <1>1, <1>2, <1>7, <2>1, <2>2 DEF SpliceInv
  <2>5. UpInv'
    <3>1. UpKept(Len(got["up"]), sent["up"], On("local", "up"), early["fromRelay"], On("tunnel", "up"),
                 early["relay"] \o <<item>>, Tail(q), plugin, relay, browser, host)
      <4>1. UpKept(Len(got["up"]), sent["up"], On("local", "up"), early["fromRelay"], On("tunnel", "up"),
                 early["relay"], q, plugin, relay, browser, host)
        BY <1>2 DEF UpInv
      <4> HIDE DEF q
      <4> QED
        BY <1>1, <1>2, <1>3, <1>7, <4>1, OnTypes, UpRelayTakes
    <3> QED
      BY <1>1, <1>7, <2>1, <2>2, <3>1 DEF UpInv
  <2>6. DownInv'
    BY <1>1, <1>2, <1>7, <2>1, <2>2 DEF DownInv
  <2> QED
    BY <1>6, <2>3, <2>4, <2>5, <2>6 DEF PipeInv
<1>8. ASSUME relay' = "over", wire' \in Cut(rest, "client", "down"), early' = early
      PROVE  PipeInv'
  <2>1. /\ wire' \in Wires
        /\ \E k \in 0 .. Len(rest[<<"client", "down">>]) : wire'[<<"client", "down">>] = CutOff(rest[<<"client", "down">>], k)
        /\ Same(wire', rest, "client", "down")
    <3>1. "client" \in Link /\ "down" \in Way
      BY WireKeys
    <3> HIDE DEF rest
    <3> QED
      BY <1>4, <1>8, <3>1, CutIs
  <2>2. /\ UNCHANGED <<On("tunnel", "up"), On("tunnel", "down"), On("local", "up"), On("local", "down")>>
        /\ \E k \in 0 .. Len(On("client", "down")) : On("client", "down")' = CutOff(On("client", "down"), k)
    BY <1>4, <2>1, SameIs DEF On
  <2> QED
    BY <1>1, <1>5, <1>8, <2>1, <2>2, RelayOverKeeps
<1>9. ASSUME item.kind = "frame", relay = "spliced", wire' = Add(rest, "tunnel", "up", <<item>>),
             early' = early, relay' = relay
      PROVE  PipeInv'
  <2>1. /\ wire' \in Wires /\ wire'[<<"tunnel", "up">>] = rest[<<"tunnel", "up">>] \o <<item>>
        /\ Same(wire', rest, "tunnel", "up")
    <3> DEFINE x == <<item>>
    <3>1. "tunnel" \in Link /\ "up" \in Way /\ x \in Seq(Item)
      BY <1>3, WireKeys, OneRuns
    <3> HIDE DEF rest, x
    <3>2. /\ wire' \in Wires /\ wire'[<<"tunnel", "up">>] = rest[<<"tunnel", "up">>] \o x
          /\ Same(wire', rest, "tunnel", "up")
      <4>1. rest \in Wires /\ "tunnel" \in Link /\ "up" \in Way /\ x \in Seq(Item) /\ wire' = Add(rest, "tunnel", "up", x)
        BY <1>4, <1>9, <3>1 DEF x
      <4> QED
        BY <4>1, AddIs
    <3> QED
      BY <3>2 DEF x
  <2>2. /\ On("client", "up")' = Tail(q) /\ On("tunnel", "up")' = On("tunnel", "up") \o <<item>>
        /\ UNCHANGED <<On("client", "down"), On("tunnel", "down"), On("local", "up"), On("local", "down")>>
    <3> HIDE DEF item
    <3>1. /\ rest[<<"client", "down">>] = wire[<<"client", "down">>] /\ rest[<<"tunnel", "up">>] = wire[<<"tunnel", "up">>]
          /\ rest[<<"tunnel", "down">>] = wire[<<"tunnel", "down">>] /\ rest[<<"local", "up">>] = wire[<<"local", "up">>]
          /\ rest[<<"local", "down">>] = wire[<<"local", "down">>]
      BY <1>4, SameIs
    <3>2. /\ wire'[<<"client", "up">>] = rest[<<"client", "up">>] /\ wire'[<<"client", "down">>] = rest[<<"client", "down">>]
          /\ wire'[<<"tunnel", "down">>] = rest[<<"tunnel", "down">>] /\ wire'[<<"local", "up">>] = rest[<<"local", "up">>]
          /\ wire'[<<"local", "down">>] = rest[<<"local", "down">>]
      BY <2>1, SameIs
    <3> QED
      BY <1>4, <2>1, <3>1, <3>2 DEF On
  <2>3. PipeTypes'
    BY <1>1, <1>2, <1>9, <2>1 DEF PipeTypes, PipeTypeOK, Wires
  <2>4. SpliceInv'
    BY <1>1, <1>2, <1>9, <2>2 DEF SpliceInv
  <2>5. UpInv'
    <3>1. UpKept(Len(got["up"]), sent["up"], On("local", "up"), early["fromRelay"], On("tunnel", "up") \o <<item>>,
                 <<>>, Tail(q), plugin, relay, browser, host)
      <4>1. UpKept(Len(got["up"]), sent["up"], On("local", "up"), early["fromRelay"], On("tunnel", "up"),
                 early["relay"], q, plugin, relay, browser, host)
        BY <1>2 DEF UpInv
      <4>2. early["relay"] = <<>>
        BY <1>2, <1>9 DEF SpliceInv
      <4> HIDE DEF q
      <4> QED
        BY <1>1, <1>2, <1>3, <1>9, <4>1, <4>2, OnTypes, UpRelayTakes
    <3>2. early'["relay"] = <<>>
      BY <1>2, <1>9 DEF SpliceInv
    <3> QED
      BY <1>1, <1>9, <2>2, <3>1, <3>2 DEF UpInv
  <2>6. DownInv'
    BY <1>1, <1>2, <1>9, <2>2 DEF DownInv
  <2> QED
    BY <1>6, <2>3, <2>4, <2>5, <2>6 DEF PipeInv
<1>10. ASSUME relay' = "over", wire' = rest, early' = early
       PROVE  PipeInv'
  <2>1. UNCHANGED <<On("client", "down"), On("tunnel", "up"), On("tunnel", "down"), On("local", "up"), On("local", "down")>>
    BY <1>4, <1>10, SameIs DEF On
  <2> QED
    BY <1>1, <1>4, <1>5, <1>10, <2>1, RelayOverKeeps
<1>11. ASSUME Kill(rest, "plain"), early' = early
       PROVE  PipeInv'
  <2>1. /\ relay' = "over" /\ wire' \in Wires
        /\ wire'[<<"client", "down">>] = Ended(rest[<<"client", "down">>], "plain")
        /\ wire'[<<"tunnel", "up">>] = rest[<<"tunnel", "up">>] \o <<Close("plain")>>
        /\ wire'[<<"tunnel", "down">>] = rest[<<"tunnel", "down">>]
        /\ wire'[<<"local", "up">>] = rest[<<"local", "up">>] /\ wire'[<<"local", "down">>] = rest[<<"local", "down">>]
    <3>1. "plain" \in Outcome
      BY DEF Outcome
    <3> HIDE DEF rest
    <3> QED
      BY <1>4, <1>11, <3>1, KillIs
  <2>2. /\ UNCHANGED <<On("tunnel", "down"), On("local", "up"), On("local", "down")>>
        /\ On("client", "down")' = Ended(On("client", "down"), "plain")
        /\ On("tunnel", "up")' = On("tunnel", "up") \o <<Close("plain")>>
    BY <1>4, <2>1, SameIs DEF On
  <2>3. \E how \in Outcome : On("client", "down")' = Ended(On("client", "down"), how)
    BY <2>2 DEF Outcome
  <2> QED
    BY <1>1, <1>5, <1>11, <2>1, <2>2, <2>3, RelayOverKeeps
<1>12. \/ /\ item.kind = "frame" /\ relay = "pending" /\ Len(early["relay"]) < EarlyCap
          /\ early' = [early EXCEPT !["relay"] = Append(@, item)] /\ wire' = rest /\ relay' = relay
       \/ relay' = "over" /\ wire' \in Cut(rest, "client", "down") /\ early' = early
       \/ /\ item.kind = "frame" /\ relay = "spliced" /\ wire' = Add(rest, "tunnel", "up", <<item>>)
          /\ early' = early /\ relay' = relay
       \/ relay' = "over" /\ wire' = rest /\ early' = early
       \/ Kill(rest, "plain") /\ early' = early
  BY DEF RelayFromClient, KeepEarly
<1> QED
  BY <1>7, <1>8, <1>9, <1>10, <1>11, <1>12

LEMMA PendingTimeoutKeeps == PipeInv /\ PendingTimeout => PipeInv'
<1> SUFFICES ASSUME PipeInv, PendingTimeout PROVE PipeInv'
  OBVIOUS
<1> DEFINE x == <<Close("plain")>>
<1>1. /\ relay' = "over" /\ wire' = Add(wire, "client", "down", x)
      /\ UNCHANGED <<sent, got, early, counted, plugin, ready, browser, host>>
  BY DEF PendingTimeout
<1>2. PipeTypes /\ SpliceInv
  BY DEF PipeInv
<1>3. /\ wire' \in Wires /\ wire'[<<"client", "down">>] = wire[<<"client", "down">>] \o x
      /\ Same(wire', wire, "client", "down")
  <2>1. wire \in Wires /\ "client" \in Link /\ "down" \in Way /\ x \in Seq(Item)
    BY <1>2, TypesAre, WireKeys, ItemKinds DEF Outcome
  <2> HIDE DEF x
  <2> QED
    BY <1>1, <2>1, AddIs
<1>4. /\ UNCHANGED <<On("tunnel", "up"), On("tunnel", "down"), On("local", "up"), On("local", "down")>>
      /\ On("client", "down")' = Ended(On("client", "down"), "plain") /\ "plain" \in Outcome
  BY <1>3, SameIs DEF On, Ended, Outcome
<1>5. OnePipe(On("tunnel", "down")) /\ ("tunnel" \notin ready => On("tunnel", "down") = <<>>)
  BY <1>2 DEF SpliceInv
<1> QED
  BY <1>1, <1>3, <1>4, <1>5, RelayOverKeeps

LEMMA RelayFromPluginKeeps == PipeInv /\ RelayFromPlugin => PipeInv'
<1> SUFFICES ASSUME PipeInv, RelayFromPlugin PROVE PipeInv'
  OBVIOUS
<1> DEFINE q == On("tunnel", "down")
           item == Head(q)
           rest == Taken("tunnel", "down")
<1>1. q # <<>> /\ UNCHANGED <<sent, got, counted, plugin, ready, browser, host>>
  BY DEF RelayFromPlugin, Next1
<1>2. PipeTypes /\ GotRight /\ SpliceInv /\ UpInv /\ DownInv
  BY DEF PipeInv
<1>3. q \in Seq(Item) /\ item \in Item /\ Tail(q) \in Seq(Item)
  BY <1>1, <1>2, OnTypes, TakeRuns
<1>4. /\ rest \in Wires /\ rest[<<"tunnel", "down">>] = Tail(wire[<<"tunnel", "down">>])
      /\ Same(rest, wire, "tunnel", "down")
  <2>1. wire \in Wires /\ "tunnel" \in Link /\ "down" \in Way /\ wire[<<"tunnel", "down">>] # <<>>
    BY <1>1, <1>2, TypesAre, WireKeys DEF On
  <2> QED
    BY <2>1, TakenIs
<1>5. "tunnel" \in ready /\ OnePipe(q)
  BY <1>1, <1>2 DEF SpliceInv
<1>6. /\ (item = PipeFrame <=> Piped(q)) /\ (item.kind = "pipe" <=> item = PipeFrame)
      /\ NoPipe(Tail(q)) /\ OnePipe(Tail(q)) /\ Strip(Tail(q)) = Tail(q)
      /\ (NoFrame(q) => NoFrame(Tail(q)) /\ item.kind # "frame")
  <2>1. item.kind = "pipe" <=> item = PipeFrame
    BY <1>3, ItemKinds
  <2>2. NoPipe(Tail(q))
    BY <1>1, <1>3, <1>5, TailPipe
  <2>3. OnePipe(Tail(q)) /\ Strip(Tail(q)) = Tail(q)
    BY <1>3, <2>2, NoPipeIs
  <2> QED
    BY <1>1, <1>3, <2>1, <2>2, <2>3, TailPipe
<1>7. GotRight'
  BY <1>1, <1>2 DEF GotRight
<1> HIDE DEF item
<1>8. ASSUME item.kind = "pipe", relay = "pending", RelaySplice(rest) PROVE PipeInv'
  <2> DEFINE kept == early["relay"]
  <2>1. /\ relay' = "spliced" /\ wire' = Add(rest, "tunnel", "up", kept)
        /\ early' = [early EXCEPT !["relay"] = <<>>]
    BY <1>8 DEF RelaySplice
  <2>2. /\ wire' \in Wires /\ wire'[<<"tunnel", "up">>] = rest[<<"tunnel", "up">>] \o kept
        /\ Same(wire', rest, "tunnel", "up")
    <3>1. rest \in Wires /\ "tunnel" \in Link /\ "up" \in Way /\ kept \in Seq(Item)
      BY <1>2, <1>4, WireKeys, OnTypes
    <3>2. wire' = Add(rest, "tunnel", "up", kept)
      BY <2>1
    <3> HIDE DEF rest, kept
    <3> QED
      BY <3>1, <3>2, AddIs
  <2>3. /\ On("tunnel", "up")' = On("tunnel", "up") \o kept /\ q' = Tail(q)
        /\ UNCHANGED <<On("client", "up"), On("client", "down"), On("local", "up"), On("local", "down")>>
    <3> HIDE DEF kept
    <3>1. /\ rest[<<"client", "up">>] = wire[<<"client", "up">>] /\ rest[<<"client", "down">>] = wire[<<"client", "down">>]
          /\ rest[<<"tunnel", "up">>] = wire[<<"tunnel", "up">>] /\ rest[<<"local", "up">>] = wire[<<"local", "up">>]
          /\ rest[<<"local", "down">>] = wire[<<"local", "down">>]
      BY <1>4, SameIs
    <3>2. /\ wire'[<<"client", "up">>] = rest[<<"client", "up">>] /\ wire'[<<"client", "down">>] = rest[<<"client", "down">>]
          /\ wire'[<<"tunnel", "down">>] = rest[<<"tunnel", "down">>] /\ wire'[<<"local", "up">>] = rest[<<"local", "up">>]
          /\ wire'[<<"local", "down">>] = rest[<<"local", "down">>]
      BY <2>2, SameIs
    <3> QED
      BY <1>4, <2>2, <3>1, <3>2 DEF On
  <2>4. /\ early' \in Buffers /\ early'["relay"] = <<>>
        /\ early'["fromRelay"] = early["fromRelay"] /\ early'["fromLocal"] = early["fromLocal"]
    BY <1>2, <2>1, EmptyIs, TypesAre DEF Buffers
  <2>5. PipeTypes'
    <3>1. Len(early'["relay"]) <= EarlyCap
      BY <2>4, EmptyIs, PipeAssumption
    <3> QED
      BY <1>1, <1>2, <2>1, <2>2, <2>4, <3>1 DEF PipeTypes, PipeTypeOK, Wires, Buffers
  <2>6. SpliceInv'
    BY <1>1, <1>2, <1>5, <1>6, <2>1, <2>3, <2>4 DEF SpliceInv
  <2>7. UpInv'
    <3>1. UpKept(Len(got["up"]), sent["up"], On("local", "up"), early["fromRelay"], On("tunnel", "up") \o kept,
                 <<>>, On("client", "up"), plugin, "spliced", browser, host)
      <4>1. relay # "over"
        BY <1>8
      <4> QED
        BY <1>2, <4>1, OnTypes, UpRelaySplices DEF UpInv
    <3> QED
      BY <1>1, <2>1, <2>3, <2>4, <3>1 DEF UpInv
  <2>8. DownInv'
    <3>1. Strip(q) = Tail(q)
      BY <1>6, <1>8 DEF Strip
    <3>2. DownKept(Len(got["down"]), sent["down"], On("client", "down"), Tail(q),
                   early["fromLocal"], On("local", "down"), plugin, relay, browser, host)
      BY <1>2, <3>1 DEF DownInv
    <3>3. DownKept(Len(got["down"]), sent["down"], On("client", "down"), Tail(q),
                   early["fromLocal"], On("local", "down"), plugin, "spliced", browser, host)
      <4>1. relay # "over"
        BY <1>8
      <4> HIDE DEF q
      <4> QED
        BY <3>2, <4>1, DownSplices
    <3> QED
      BY <1>1, <1>6, <2>1, <2>3, <2>4, <3>3 DEF DownInv
  <2> QED
    BY <1>7, <2>5, <2>6, <2>7, <2>8 DEF PipeInv
<1>9. ASSUME relay' = "over", early' = early, wire' = Add(rest, "tunnel", "up", <<Close("plain")>>) PROVE PipeInv'
  <2> DEFINE x == <<Close("plain")>>
  <2>1. wire' = Add(rest, "tunnel", "up", x)
    BY <1>9
  <2>2. rest \in Wires /\ "tunnel" \in Link /\ "up" \in Way /\ x \in Seq(Item)
    BY <1>4, WireKeys, ItemKinds DEF Outcome
  <2>3. /\ wire' \in Wires /\ wire'[<<"tunnel", "up">>] = rest[<<"tunnel", "up">>] \o x
        /\ Same(wire', rest, "tunnel", "up")
    <3> HIDE DEF rest, x
    <3> QED
      BY <2>1, <2>2, AddIs
  <2>4. /\ On("tunnel", "up")' = On("tunnel", "up") \o x /\ q' = Tail(q)
        /\ UNCHANGED <<On("client", "down"), On("local", "up"), On("local", "down")>>
    <3> HIDE DEF x
    <3>1. /\ rest[<<"client", "up">>] = wire[<<"client", "up">>] /\ rest[<<"client", "down">>] = wire[<<"client", "down">>]
          /\ rest[<<"tunnel", "up">>] = wire[<<"tunnel", "up">>] /\ rest[<<"local", "up">>] = wire[<<"local", "up">>]
          /\ rest[<<"local", "down">>] = wire[<<"local", "down">>]
      BY <1>4, SameIs
    <3>2. /\ wire'[<<"client", "up">>] = rest[<<"client", "up">>] /\ wire'[<<"client", "down">>] = rest[<<"client", "down">>]
          /\ wire'[<<"tunnel", "down">>] = rest[<<"tunnel", "down">>] /\ wire'[<<"local", "up">>] = rest[<<"local", "up">>]
          /\ wire'[<<"local", "down">>] = rest[<<"local", "down">>]
      BY <2>3, SameIs
    <3> QED
      BY <1>4, <2>3, <3>1, <3>2 DEF On
  <2> QED
    BY <1>1, <1>5, <1>6, <1>9, <2>3, <2>4, RelayOverKeeps
<1>10. ASSUME relay' = "over", early' = early, wire' = rest PROVE PipeInv'
  <2>1. q' = Tail(q) /\ UNCHANGED <<On("tunnel", "up"), On("client", "down"), On("local", "up"), On("local", "down")>>
    BY <1>4, <1>10, SameIs DEF On
  <2> QED
    BY <1>1, <1>4, <1>5, <1>6, <1>10, <2>1, RelayOverKeeps
<1>11. ASSUME NEW how \in Outcome, Kill(rest, how), early' = early PROVE PipeInv'
  <2>1. /\ relay' = "over" /\ wire' \in Wires
        /\ wire'[<<"client", "down">>] = Ended(rest[<<"client", "down">>], how)
        /\ wire'[<<"tunnel", "up">>] = rest[<<"tunnel", "up">>] \o <<Close("plain")>>
        /\ wire'[<<"tunnel", "down">>] = rest[<<"tunnel", "down">>]
        /\ wire'[<<"local", "up">>] = rest[<<"local", "up">>] /\ wire'[<<"local", "down">>] = rest[<<"local", "down">>]
    <3> HIDE DEF rest
    <3> QED
      BY <1>4, <1>11, KillIs
  <2>2. /\ q' = Tail(q) /\ UNCHANGED <<On("local", "up"), On("local", "down")>>
        /\ On("client", "down")' = Ended(On("client", "down"), how)
        /\ On("tunnel", "up")' = On("tunnel", "up") \o <<Close("plain")>>
    BY <1>4, <2>1, SameIs DEF On
  <2> QED
    BY <1>1, <1>5, <1>6, <1>11, <2>1, <2>2, RelayOverKeeps
<1>12. ASSUME item.kind = "frame", relay = "spliced", relay' = relay, early' = early,
              wire' = Add(rest, "client", "down", <<item>>)
       PROVE  PipeInv'
  <2> DEFINE x == <<item>>
  <2>1. wire' = Add(rest, "client", "down", x)
    BY <1>12
  <2>2. rest \in Wires /\ "client" \in Link /\ "down" \in Way /\ x \in Seq(Item)
    BY <1>3, <1>4, WireKeys, OneRuns
  <2>3. /\ wire' \in Wires /\ wire'[<<"client", "down">>] = rest[<<"client", "down">>] \o x
        /\ Same(wire', rest, "client", "down")
    <3> HIDE DEF rest, x
    <3> QED
      BY <2>1, <2>2, AddIs
  <2>4. /\ On("client", "down")' = On("client", "down") \o x /\ q' = Tail(q)
        /\ UNCHANGED <<On("client", "up"), On("tunnel", "up"), On("local", "up"), On("local", "down")>>
    <3> HIDE DEF x
    <3>1. /\ rest[<<"client", "up">>] = wire[<<"client", "up">>] /\ rest[<<"client", "down">>] = wire[<<"client", "down">>]
          /\ rest[<<"tunnel", "up">>] = wire[<<"tunnel", "up">>] /\ rest[<<"local", "up">>] = wire[<<"local", "up">>]
          /\ rest[<<"local", "down">>] = wire[<<"local", "down">>]
      BY <1>4, SameIs
    <3>2. /\ wire'[<<"client", "up">>] = rest[<<"client", "up">>] /\ wire'[<<"tunnel", "up">>] = rest[<<"tunnel", "up">>]
          /\ wire'[<<"tunnel", "down">>] = rest[<<"tunnel", "down">>] /\ wire'[<<"local", "up">>] = rest[<<"local", "up">>]
          /\ wire'[<<"local", "down">>] = rest[<<"local", "down">>]
      BY <2>3, SameIs
    <3> QED
      BY <1>4, <2>3, <3>1, <3>2 DEF On
  <2>5. PipeTypes'
    BY <1>1, <1>2, <1>12, <2>3 DEF PipeTypes, PipeTypeOK, Wires
  <2>6. SpliceInv'
    BY <1>1, <1>2, <1>5, <1>6, <1>12, <2>4 DEF SpliceInv
  <2>7. UpInv'
    BY <1>1, <1>2, <1>12, <2>4 DEF UpInv
  <2>8. DownInv'
    <3>1. Strip(q) = q
      BY <1>2, <1>3, <1>12, NoPipeIs DEF SpliceInv
    <3>2. DownKept(Len(got["down"]), sent["down"], On("client", "down"), q,
                   early["fromLocal"], On("local", "down"), plugin, relay, browser, host)
      BY <1>2, <3>1 DEF DownInv
    <3>3. DownKept(Len(got["down"]), sent["down"], On("client", "down") \o <<Head(q)>>, Tail(q),
                   early["fromLocal"], On("local", "down"), plugin, relay, browser, host)
      <4>1. relay # "over" /\ Head(q).kind = "frame"
        BY <1>12 DEF item
      <4> HIDE DEF q
      <4> QED
        BY <1>1, <1>2, <1>3, <3>2, <4>1, OnTypes, DownRelayTakes
    <3> QED
      BY <1>1, <1>6, <1>12, <2>4, <3>3 DEF DownInv, item
  <2> QED
    BY <1>7, <2>5, <2>6, <2>7, <2>8 DEF PipeInv
<1>13. ~(item.kind = "frame" /\ relay = "pending")
  BY <1>2, <1>6, ItemKinds DEF SpliceInv
<1>14. ASSUME item.kind = "close", relay = "pending", relay' = relay, early' = early, wire' = rest PROVE PipeInv'
  <2>1. q' = Tail(q) /\ UNCHANGED <<On("client", "up"), On("tunnel", "up"), On("client", "down"), On("local", "up"), On("local", "down")>>
    BY <1>4, <1>14, SameIs DEF On
  <2>2. ~Piped(q) /\ NoFrame(q) /\ NoFrame(Tail(q)) /\ plugin = "over"
    BY <1>2, <1>5, <1>6, <1>14, ItemKinds DEF SpliceInv, PipeTypes, PipeTypeOK
  <2>3. PipeTypes'
    BY <1>1, <1>2, <1>4, <1>14 DEF PipeTypes, PipeTypeOK, Wires
  <2>4. SpliceInv'
    BY <1>1, <1>2, <1>5, <1>6, <1>14, <2>1, <2>2 DEF SpliceInv
  <2>5. UpInv'
    BY <1>1, <1>2, <1>14, <2>1 DEF UpInv
  <2>6. DownInv'
    <3>1. DownKept(Len(got["down"]), sent["down"], On("client", "down"), q,
                   early["fromLocal"], On("local", "down"), plugin, relay, browser, host)
      BY <1>2, <2>2 DEF DownInv, Strip
    <3>2. \A a \in Nat : Run(q, a, sent["down"]) => Run(Tail(q), a, sent["down"])
      BY <2>2 DEF Run, NoFrame
    <3>3. DownKept(Len(got["down"]), sent["down"], On("client", "down"), Tail(q),
                   early["fromLocal"], On("local", "down"), "over", relay, browser, host)
      <4> HIDE DEF q
      <4> QED
        BY <1>2, <3>1, <3>2, OnTypes, DownPluginOver
    <3> QED
      BY <1>1, <1>6, <1>14, <2>1, <2>2, <3>3 DEF DownInv
  <2> QED
    BY <1>7, <2>3, <2>4, <2>5, <2>6 DEF PipeInv
<1>15. \/ item.kind = "pipe" /\ relay = "pending" /\ RelaySplice(rest)
       \/ relay' = "over" /\ early' = early /\ wire' = Add(rest, "tunnel", "up", <<Close("plain")>>)
       \/ relay' = "over" /\ early' = early /\ wire' = rest
       \/ Kill(rest, "plain") /\ early' = early
       \/ Kill(rest, "fatal") /\ early' = early
       \/ /\ item.kind = "frame" /\ relay = "spliced" /\ relay' = relay /\ early' = early
          /\ wire' = Add(rest, "client", "down", <<item>>)
       \/ item.kind = "frame" /\ relay = "pending"
       \/ item.kind = "close" /\ relay = "pending" /\ relay' = relay /\ early' = early /\ wire' = rest
  <2>1. relay \in {"pending", "spliced", "over"}
    BY <1>2 DEF PipeTypes, PipeTypeOK
  <2>2. \/ item.kind = "pipe" /\ relay = "pending" /\ RelaySplice(rest)
        \/ item.kind = "pipe" /\ relay = "over" /\ wire' = Add(rest, "tunnel", "up", <<Close("plain")>>) /\ early' = early /\ relay' = relay
        \/ /\ item.kind = "frame" /\ early' = early /\ relay' = relay
           /\ wire' = IF relay = "spliced" THEN Add(rest, "client", "down", <<item>>) ELSE rest
        \/ Kill(rest, IF item.how = "fatal" THEN "fatal" ELSE "plain") /\ early' = early
        \/ item.kind = "close" /\ relay # "spliced" /\ wire' = rest /\ early' = early /\ relay' = relay
    BY DEF RelayFromPlugin, item
  <2>3. Kill(rest, IF item.how = "fatal" THEN "fatal" ELSE "plain") => Kill(rest, "plain") \/ Kill(rest, "fatal")
    OBVIOUS
  <2> QED
    BY <2>1, <2>2, <2>3
<1>16. "plain" \in Outcome /\ "fatal" \in Outcome
  BY DEF Outcome
<1> QED
  BY <1>8, <1>9, <1>10, <1>11, <1>12, <1>13, <1>14, <1>15, <1>16

LEMMA DialFailsKeeps == PipeInv /\ DialFails => PipeInv'
<1> SUFFICES ASSUME PipeInv, DialFails PROVE PipeInv'
  OBVIOUS
<1>1. Abort(wire) /\ UNCHANGED <<sent, got, counted, relay, browser, host>>
  BY DEF DialFails
<1>2. PipeTypes /\ SpliceInv
  BY DEF PipeInv
<1>3. wire \in Wires /\ counted' \in 0 .. EarlyCap + 1 /\ NoPipe(wire[<<"local", "down">>])
  BY <1>1, <1>2, TypesAre DEF PipeTypes, PipeTypeOK, SpliceInv, On
<1> QED
  BY <1>1, <1>3, AbortKeeps DEF On

(* What a socket that opens changes: the pipe frame, and the host's end. *)
LEMMA OpensIs ==
    ASSUME PipeInv, NEW l \in {"tunnel", "local"}, SocketOpens(l)
    PROVE  \E ws \in Wires :
             /\ Same(ws, wire, "tunnel", "down")
             /\ LET td == ws[<<"tunnel", "down">>]
                IN  /\ td \in Seq(Item) /\ OnePipe(td) /\ Strip(td) = Strip(On("tunnel", "down"))
                    /\ "tunnel" \in ready' /\ relay = "pending" => Piped(td)
                    /\ "tunnel" \notin ready' => td = <<>>
                    /\ relay = "spliced" => NoPipe(td)
             /\ IF ready' = {"tunnel", "local"} THEN PluginSplice(ws) ELSE wire' = ws /\ UNCHANGED <<plugin, early>>
<1> DEFINE q == On("tunnel", "down")
           x == <<PipeFrame>>
           added == Add(wire, "tunnel", "down", x)
           ws == IF l = "tunnel" THEN added ELSE wire
<1>1. /\ plugin = "dialing" /\ l \notin ready /\ ready' = ready \cup {l}
      /\ IF ready' = {"tunnel", "local"} THEN PluginSplice(ws) ELSE wire' = ws /\ UNCHANGED <<plugin, early>>
  BY DEF SocketOpens
<1>2. PipeTypes /\ SpliceInv
  BY DEF PipeInv
<1>3. wire \in Wires /\ "tunnel" \in Link /\ "down" \in Way /\ x \in Seq(Item) /\ q \in Seq(Item)
  BY <1>2, TypesAre, OnTypes, WireKeys, PipeFrameIs
<1>4. /\ added \in Wires /\ added[<<"tunnel", "down">>] = q \o x
      /\ Same(added, wire, "tunnel", "down")
  <2>1. q = wire[<<"tunnel", "down">>]
    BY DEF On
  <2>3. /\ wire \in Wires /\ "tunnel" \in Link /\ "down" \in Way /\ x \in Seq(Item)
        /\ added = Add(wire, "tunnel", "down", x)
    BY <1>3
  <2> HIDE DEF x, added, q
  <2>2. /\ added \in Wires /\ added[<<"tunnel", "down">>] = wire[<<"tunnel", "down">>] \o x
        /\ Same(added, wire, "tunnel", "down")
    BY <2>3, AddIs
  <2> QED
    BY <2>1, <2>2
<1>5. CASE l = "tunnel"
  <2>1. q = <<>> /\ relay # "spliced"
    BY <1>1, <1>2, <1>5 DEF SpliceInv
  <2>2. q \o x = x
    <3> HIDE DEF x, q
    <3> QED
      BY <1>3, <2>1, NoneIsEmpty
  <2>3. /\ added[<<"tunnel", "down">>] = x /\ x \in Seq(Item) /\ OnePipe(x) /\ Piped(x) /\ Strip(x) = Strip(q)
    BY <1>3, <1>4, <2>1, <2>2, PipeQueue, EmptyQueue
  <2>4. "tunnel" \in ready'
    BY <1>1, <1>5
  <2>5. IF ready' = {"tunnel", "local"} THEN PluginSplice(added) ELSE wire' = added /\ UNCHANGED <<plugin, early>>
    BY <1>1, <1>5
  <2> HIDE DEF added, x, q, ws
  <2> QED
    BY <1>4, <2>1, <2>3, <2>4, <2>5 DEF q
<1>6. CASE l = "local"
  <2>1. IF ready' = {"tunnel", "local"} THEN PluginSplice(wire) ELSE wire' = wire /\ UNCHANGED <<plugin, early>>
    BY <1>1, <1>6
  <2>2. wire[<<"tunnel", "down">>] = q
    BY DEF On
  <2>3. ("tunnel" \in ready' <=> "tunnel" \in ready)
    BY <1>1, <1>6
  <2>4. /\ OnePipe(q) /\ ("tunnel" \in ready /\ relay = "pending" => Piped(q))
        /\ ("tunnel" \notin ready => q = <<>>) /\ (relay = "spliced" => NoPipe(q))
    BY <1>1, <1>2 DEF SpliceInv
  <2> HIDE DEF q, added, ws
  <2> QED
    <3>1. Same(wire, wire, "tunnel", "down")
      BY DEF Same
    <3> QED
      BY <1>3, <2>1, <2>2, <2>3, <2>4, <3>1 DEF q
<1> QED
  BY <1>5, <1>6

LEMMA SocketOpensKeeps ==
    ASSUME PipeInv, NEW l \in {"tunnel", "local"}, SocketOpens(l)
    PROVE  PipeInv'
<1>1. /\ plugin = "dialing" /\ l \notin ready /\ ready' = ready \cup {l}
      /\ host' = IF l = "local" THEN "open" ELSE host
      /\ UNCHANGED <<sent, got, counted, relay, browser>>
  BY DEF SocketOpens
<1>2. PipeTypes /\ GotRight /\ SpliceInv /\ UpInv /\ DownInv
  BY DEF PipeInv
<1>3. PICK ws \in Wires :
             /\ Same(ws, wire, "tunnel", "down")
             /\ LET td == ws[<<"tunnel", "down">>]
                IN  /\ td \in Seq(Item) /\ OnePipe(td) /\ Strip(td) = Strip(On("tunnel", "down"))
                    /\ "tunnel" \in ready' /\ relay = "pending" => Piped(td)
                    /\ "tunnel" \notin ready' => td = <<>>
                    /\ relay = "spliced" => NoPipe(td)
             /\ IF ready' = {"tunnel", "local"} THEN PluginSplice(ws) ELSE wire' = ws /\ UNCHANGED <<plugin, early>>
  BY OpensIs
<1> DEFINE td == ws[<<"tunnel", "down">>]
           lu == On("local", "up")
<1>4. /\ td \in Seq(Item) /\ OnePipe(td) /\ Strip(td) = Strip(On("tunnel", "down"))
      /\ ("tunnel" \in ready' /\ relay = "pending" => Piped(td))
      /\ ("tunnel" \notin ready' => td = <<>>)
      /\ (relay = "spliced" => NoPipe(td))
  BY <1>3
<1>5. /\ ws[<<"client", "up">>] = On("client", "up") /\ ws[<<"client", "down">>] = On("client", "down")
      /\ ws[<<"tunnel", "up">>] = On("tunnel", "up")
      /\ ws[<<"local", "up">>] = lu /\ ws[<<"local", "down">>] = On("local", "down")
  BY <1>3, SameIs DEF On
<1>6. /\ host = "none" \/ host' = host
      /\ host' \in {"none", "open"} \cup Outcome /\ ("local" \notin ready' => host' = "none")
      /\ ready' \subseteq {"tunnel", "local"}
      /\ (relay = "spliced" => "tunnel" \in ready')
  BY <1>1, <1>2 DEF SpliceInv, PipeTypes, PipeTypeOK
<1>7. host' = host \/ (host = "none" /\ host' = "open")
  BY <1>1, <1>2 DEF SpliceInv
<1>8. GotRight'
  BY <1>1, <1>2 DEF GotRight
<1>9. CASE ready' # {"tunnel", "local"}
  <2>1. wire' = ws /\ UNCHANGED <<plugin, early>>
    BY <1>3, <1>9
  <2>2. /\ On("tunnel", "down")' = td
        /\ UNCHANGED <<On("client", "up"), On("client", "down"), On("tunnel", "up"), On("local", "up"), On("local", "down")>>
    BY <1>5, <2>1 DEF On
  <2>3. PipeTypes'
    BY <1>1, <1>2, <1>3, <1>6, <2>1 DEF PipeTypes, PipeTypeOK, Wires
  <2>4. SpliceInv'
    <3>1. relay = "pending" /\ ~Piped(td) => NoFrame(td)
      BY <1>4, EmptyQueue
    <3> HIDE DEF td
    <3> QED
      BY <1>1, <1>2, <1>4, <1>6, <1>9, <2>1, <2>2, <3>1 DEF SpliceInv
  <2>5. UpInv'
    BY <1>1, <1>2, <1>7, <2>1, <2>2, UpHostOpens DEF UpInv
  <2>6. DownInv'
    <3>1. DownKept(Len(got["down"]), sent["down"], On("client", "down"), Strip(On("tunnel", "down")),
                   early["fromLocal"], On("local", "down"), plugin, relay, browser, host')
      BY <1>2, <1>7, OnTypes, DownHost DEF DownInv
    <3> QED
      BY <1>1, <1>4, <2>1, <2>2, <3>1 DEF DownInv
  <2> QED
    BY <1>8, <2>3, <2>4, <2>5, <2>6 DEF PipeInv
<1>10. CASE ready' = {"tunnel", "local"}
  <2> DEFINE fr == early["fromRelay"]
             fl == early["fromLocal"]
             a == Add(ws, "local", "up", fr)
  <2>1. /\ plugin' = "spliced" /\ wire' = Add(a, "tunnel", "down", fl)
        /\ early' = [early EXCEPT !["fromRelay"] = <<>>, !["fromLocal"] = <<>>]
    BY <1>3, <1>10 DEF PluginSplice
  <2>2. fr \in Seq(Item) /\ fl \in Seq(Item) /\ NoPipe(fl) /\ early["relay"] \in Seq(Item) /\ lu \in Seq(Item)
    BY <1>2, OnTypes DEF SpliceInv
  <2>3. /\ early' \in Buffers /\ early'["fromRelay"] = <<>> /\ early'["fromLocal"] = <<>> /\ early'["relay"] = early["relay"]
    BY <1>2, <2>1, TypesAre, EmptyIs DEF Buffers
  <2>4. /\ a \in Wires /\ a[<<"local", "up">>] = ws[<<"local", "up">>] \o fr
        /\ Same(a, ws, "local", "up")
    <3>1. ws \in Wires /\ "local" \in Link /\ "up" \in Way /\ fr \in Seq(Item) /\ a = Add(ws, "local", "up", fr)
      BY <2>2, WireKeys
    <3> HIDE DEF a, fr
    <3> QED
      BY <3>1, AddIs
  <2>5. /\ wire' \in Wires /\ wire'[<<"tunnel", "down">>] = a[<<"tunnel", "down">>] \o fl
        /\ Same(wire', a, "tunnel", "down")
    <3>1. a \in Wires /\ "tunnel" \in Link /\ "down" \in Way /\ fl \in Seq(Item) /\ wire' = Add(a, "tunnel", "down", fl)
      BY <2>1, <2>2, <2>4, WireKeys
    <3> HIDE DEF a, fl
    <3> QED
      BY <3>1, AddIs
  <2> HIDE DEF a
  <2>6. /\ On("tunnel", "down")' = td \o fl /\ lu' = lu \o fr
        /\ UNCHANGED <<On("client", "up"), On("client", "down"), On("tunnel", "up"), On("local", "down")>>
    <3> HIDE DEF fr, fl
    <3>1. /\ a[<<"tunnel", "down">>] = ws[<<"tunnel", "down">>] /\ wire'[<<"local", "up">>] = a[<<"local", "up">>]
          /\ wire'[<<"client", "up">>] = ws[<<"client", "up">>] /\ wire'[<<"client", "down">>] = ws[<<"client", "down">>]
          /\ wire'[<<"tunnel", "up">>] = ws[<<"tunnel", "up">>] /\ wire'[<<"local", "down">>] = ws[<<"local", "down">>]
      BY <2>4, <2>5, SameIs
    <3> QED
      BY <1>5, <2>4, <2>5, <3>1 DEF On
  <2>7. /\ OnePipe(td \o fl) /\ Strip(td \o fl) = Strip(On("tunnel", "down")) \o fl
        /\ (relay = "pending" => Piped(td \o fl)) /\ (relay = "spliced" => NoPipe(td \o fl))
    <3> HIDE DEF td, fl
    <3>1. "tunnel" \in ready'
      BY <1>10
    <3>2. /\ OnePipe(td \o fl) /\ Strip(td \o fl) = Strip(td) \o fl /\ (Piped(td \o fl) <=> Piped(td))
          /\ (NoPipe(td) => NoPipe(td \o fl))
      BY <1>4, <2>2, CatPipe
    <3> QED
      BY <1>4, <3>1, <3>2
  <2>8. PipeTypes'
    BY <1>1, <1>2, <1>6, <2>1, <2>3, <2>5 DEF PipeTypes, PipeTypeOK, Wires, Buffers
  <2>9. SpliceInv'
    <3>1. NoPipe(<<>>)
      BY EmptyQueue
    <3> HIDE DEF td, fl, fr
    <3> QED
      BY <1>1, <1>2, <1>6, <1>10, <2>1, <2>3, <2>6, <2>7, <3>1 DEF SpliceInv
  <2>10. UpInv'
    <3>1. UpKept(Len(got["up"]), sent["up"], lu, fr, On("tunnel", "up"), early["relay"], On("client", "up"),
                 plugin, relay, browser, host')
      BY <1>2, <1>7, UpHostOpens DEF UpInv
    <3>2. UpKept(Len(got["up"]), sent["up"], lu \o fr, <<>>, On("tunnel", "up"), early["relay"], On("client", "up"),
                 "spliced", relay, browser, host')
      <4>1. plugin # "over"
        BY <1>1
      <4> HIDE DEF lu, fr
      <4> QED
        BY <1>2, <2>2, <3>1, <4>1, OnTypes, UpPluginSplices
    <3> QED
      BY <1>1, <2>1, <2>3, <2>6, <3>2 DEF UpInv
  <2>11. DownInv'
    <3>1. DownKept(Len(got["down"]), sent["down"], On("client", "down"), Strip(On("tunnel", "down")),
                   fl, On("local", "down"), plugin, relay, browser, host')
      BY <1>2, <1>7, OnTypes, DownHost DEF DownInv
    <3>2. DownKept(Len(got["down"]), sent["down"], On("client", "down"), Strip(On("tunnel", "down")) \o fl,
                   <<>>, On("local", "down"), "spliced", relay, browser, host')
      <4>1. plugin # "over"
        BY <1>1
      <4> HIDE DEF fl
      <4> QED
        BY <1>2, <2>2, <3>1, <4>1, OnTypes, DownPluginSplices
    <3> QED
      BY <1>1, <2>1, <2>3, <2>6, <2>7, <3>2 DEF DownInv
  <2> QED
    BY <1>8, <2>8, <2>9, <2>10, <2>11 DEF PipeInv
<1> QED
  BY <1>9, <1>10

LEMMA PluginTunnelKeeps == PipeInv /\ PluginReceives("tunnel", "up") => PipeInv'
<1> SUFFICES ASSUME PipeInv, PluginReceives("tunnel", "up") PROVE PipeInv'
  OBVIOUS
<1> DEFINE q == On("tunnel", "up")
           item == Head(q)
           rest == Taken("tunnel", "up")
<1>1. plugin # "over" /\ "tunnel" \in ready /\ q # <<>> /\ UNCHANGED <<sent, got, relay, browser, host>>
  BY DEF PluginReceives, Next1
<1>2. PipeTypes /\ GotRight /\ SpliceInv /\ UpInv /\ DownInv
  BY DEF PipeInv
<1>3. q \in Seq(Item) /\ item \in Item /\ Tail(q) \in Seq(Item) /\ counted \in 0 .. EarlyCap + 1 /\ EarlyCap \in Nat
  BY <1>1, <1>2, OnTypes, TakeRuns, PipeAssumption DEF PipeTypes, PipeTypeOK
<1>4. /\ rest \in Wires /\ rest[<<"tunnel", "up">>] = Tail(wire[<<"tunnel", "up">>])
      /\ Same(rest, wire, "tunnel", "up")
  <2>1. wire \in Wires /\ "tunnel" \in Link /\ "up" \in Way /\ wire[<<"tunnel", "up">>] # <<>>
    BY <1>1, <1>2, TypesAre, WireKeys DEF On
  <2> QED
    BY <2>1, TakenIs
<1>5. GotRight'
  BY <1>1, <1>2 DEF GotRight
<1>6. UpKept(Len(got["up"]), sent["up"], On("local", "up"), early["fromRelay"], q, early["relay"],
             On("client", "up"), plugin, relay, browser, host)
  BY <1>2 DEF UpInv
<1> HIDE DEF item
<1>7. ASSUME item.kind = "frame", plugin = "dialing", counted < EarlyCap, counted' = counted + 1,
             early' = [early EXCEPT !["fromRelay"] = Append(@, item)], wire' = rest, UNCHANGED <<plugin, ready>>
      PROVE  PipeInv'
  <2>1. /\ early' \in Buffers /\ early'["fromRelay"] = early["fromRelay"] \o <<item>>
        /\ early'["relay"] = early["relay"] /\ early'["fromLocal"] = early["fromLocal"]
    BY <1>2, <1>3, <1>7, TypesAre, EarlyGrows
  <2>2. /\ q' = Tail(q)
        /\ UNCHANGED <<On("client", "up"), On("client", "down"), On("tunnel", "down"), On("local", "up"), On("local", "down")>>
    BY <1>4, <1>7, SameIs DEF On
  <2>3. PipeTypes'
    BY <1>1, <1>2, <1>3, <1>4, <1>7, <2>1 DEF PipeTypes, PipeTypeOK, Wires, Buffers
  <2>4. SpliceInv'
    BY <1>1, <1>2, <1>7, <2>1, <2>2 DEF SpliceInv
  <2>5. UpInv'
    <3>1. UpKept(Len(got["up"]), sent["up"], On("local", "up"), early["fromRelay"] \o <<Head(q)>>, Tail(q),
                 early["relay"], On("client", "up"), plugin, relay, browser, host)
      <4>1. Head(q).kind = "frame"
        BY <1>7 DEF item
      <4> HIDE DEF q
      <4> QED
        BY <1>1, <1>2, <1>3, <1>6, <4>1, OnTypes, UpPluginTakes
    <3> QED
      BY <1>1, <1>7, <2>1, <2>2, <3>1 DEF UpInv, item
  <2>6. DownInv'
    BY <1>1, <1>2, <1>7, <2>1, <2>2 DEF DownInv
  <2> QED
    BY <1>5, <2>3, <2>4, <2>5, <2>6 DEF PipeInv
<1>8. ASSUME Abort(rest), counted' \in 0 .. EarlyCap + 1 PROVE PipeInv'
  <2>1. /\ rest[<<"client", "up">>] = On("client", "up") /\ rest[<<"client", "down">>] = On("client", "down")
        /\ rest[<<"tunnel", "down">>] = On("tunnel", "down") /\ rest[<<"local", "up">>] = On("local", "up")
        /\ rest[<<"local", "down">>] = On("local", "down")
    BY <1>4, SameIs DEF On
  <2>2. NoPipe(rest[<<"local", "down">>])
    BY <1>2, <2>1 DEF SpliceInv
  <2> HIDE DEF rest
  <2> QED
    BY <1>1, <1>4, <1>8, <2>1, <2>2, AbortKeeps
<1>9. ASSUME item.kind = "frame", plugin = "spliced", wire' = Add(rest, "local", "up", <<item>>),
             UNCHANGED <<plugin, early, counted, ready>>
      PROVE  PipeInv'
  <2> DEFINE x == <<item>>
  <2>1. /\ wire' \in Wires /\ wire'[<<"local", "up">>] = rest[<<"local", "up">>] \o x
        /\ Same(wire', rest, "local", "up")
    <3>1. rest \in Wires /\ "local" \in Link /\ "up" \in Way /\ x \in Seq(Item) /\ wire' = Add(rest, "local", "up", x)
      BY <1>3, <1>4, <1>9, WireKeys, OneRuns
    <3> HIDE DEF rest, x
    <3> QED
      BY <3>1, AddIs
  <2>2. /\ q' = Tail(q) /\ On("local", "up")' = On("local", "up") \o x
        /\ UNCHANGED <<On("client", "up"), On("client", "down"), On("tunnel", "down"), On("local", "down")>>
    <3> HIDE DEF x
    <3>1. /\ rest[<<"client", "up">>] = wire[<<"client", "up">>] /\ rest[<<"client", "down">>] = wire[<<"client", "down">>]
          /\ rest[<<"tunnel", "down">>] = wire[<<"tunnel", "down">>] /\ rest[<<"local", "up">>] = wire[<<"local", "up">>]
          /\ rest[<<"local", "down">>] = wire[<<"local", "down">>]
      BY <1>4, SameIs
    <3>2. /\ wire'[<<"client", "up">>] = rest[<<"client", "up">>] /\ wire'[<<"client", "down">>] = rest[<<"client", "down">>]
          /\ wire'[<<"tunnel", "up">>] = rest[<<"tunnel", "up">>] /\ wire'[<<"tunnel", "down">>] = rest[<<"tunnel", "down">>]
          /\ wire'[<<"local", "down">>] = rest[<<"local", "down">>]
      BY <2>1, SameIs
    <3> QED
      BY <1>4, <2>1, <3>1, <3>2 DEF On
  <2>3. PipeTypes'
    BY <1>1, <1>2, <1>9, <2>1 DEF PipeTypes, PipeTypeOK, Wires
  <2>4. SpliceInv'
    BY <1>1, <1>2, <1>9, <2>2 DEF SpliceInv
  <2>5. UpInv'
    <3>1. early["fromRelay"] = <<>> /\ Head(q).kind = "frame"
      BY <1>2, <1>9 DEF SpliceInv, item
    <3>2. UpKept(Len(got["up"]), sent["up"], On("local", "up") \o <<Head(q)>>, <<>>, Tail(q),
                 early["relay"], On("client", "up"), plugin, relay, browser, host)
      <4> HIDE DEF q
      <4> QED
        BY <1>1, <1>2, <1>3, <1>6, <3>1, OnTypes, UpPluginTakes
    <3> QED
      BY <1>1, <1>9, <2>2, <3>1, <3>2 DEF UpInv, item
  <2>6. DownInv'
    BY <1>1, <1>2, <1>9, <2>2 DEF DownInv
  <2> QED
    BY <1>5, <2>3, <2>4, <2>5, <2>6 DEF PipeInv
<1>10. \/ /\ item.kind = "frame" /\ plugin = "dialing" /\ counted < EarlyCap /\ counted' = counted + 1
          /\ early' = [early EXCEPT !["fromRelay"] = Append(@, item)] /\ wire' = rest /\ UNCHANGED <<plugin, ready>>
       \/ Abort(rest) /\ plugin = "dialing" /\ counted' = counted + 1
       \/ Abort(rest) /\ counted' = counted
       \/ /\ item.kind = "frame" /\ plugin = "spliced" /\ wire' = Add(rest, "local", "up", <<item>>)
          /\ UNCHANGED <<plugin, early, counted, ready>>
  BY DEF PluginReceives, PluginPasses, PluginClosed, item
<1>11. ASSUME Abort(rest), plugin = "dialing", counted' = counted + 1 PROVE counted' \in 0 .. EarlyCap + 1
  BY <1>2, <1>3, <1>11 DEF PipeTypes
<1> QED
  BY <1>3, <1>7, <1>8, <1>9, <1>10, <1>11

LEMMA PluginLocalKeeps == PipeInv /\ PluginReceives("local", "down") => PipeInv'
<1> SUFFICES ASSUME PipeInv, PluginReceives("local", "down") PROVE PipeInv'
  OBVIOUS
<1> DEFINE q == On("local", "down")
           td == On("tunnel", "down")
           item == Head(q)
           rest == Taken("local", "down")
<1>1. plugin # "over" /\ "local" \in ready /\ q # <<>> /\ UNCHANGED <<sent, got, relay, browser, host>>
  BY DEF PluginReceives, Next1
<1>2. PipeTypes /\ GotRight /\ SpliceInv /\ UpInv /\ DownInv
  BY DEF PipeInv
<1>3. q \in Seq(Item) /\ item \in Item /\ Tail(q) \in Seq(Item) /\ counted \in 0 .. EarlyCap + 1 /\ EarlyCap \in Nat
  BY <1>1, <1>2, OnTypes, TakeRuns, PipeAssumption DEF PipeTypes, PipeTypeOK
<1>4. /\ rest \in Wires /\ rest[<<"local", "down">>] = Tail(wire[<<"local", "down">>])
      /\ Same(rest, wire, "local", "down")
  <2>1. wire \in Wires /\ "local" \in Link /\ "down" \in Way /\ wire[<<"local", "down">>] # <<>>
    BY <1>1, <1>2, TypesAre, WireKeys DEF On
  <2> QED
    BY <2>1, TakenIs
<1>5. GotRight'
  BY <1>1, <1>2 DEF GotRight
<1>6. DownKept(Len(got["down"]), sent["down"], On("client", "down"), Strip(td), early["fromLocal"], q,
               plugin, relay, browser, host)
  BY <1>2 DEF DownInv
<1>7. NoPipe(Tail(q)) /\ NoPipe(q)
  BY <1>1, <1>2, <1>3, TailPipe DEF SpliceInv
<1>8. ASSUME item.kind = "frame" PROVE <<item>> \in Seq(Item) /\ NoPipe(<<item>>)
  BY <1>3, <1>8, OneQueue, OneRuns
<1> HIDE DEF item
<1>9. ASSUME item.kind = "frame", plugin = "dialing", counted < EarlyCap, counted' = counted + 1,
             early' = [early EXCEPT !["fromLocal"] = Append(@, item)], wire' = rest, UNCHANGED <<plugin, ready>>
      PROVE  PipeInv'
  <2>1. /\ early' \in Buffers /\ early'["fromLocal"] = early["fromLocal"] \o <<item>>
        /\ early'["relay"] = early["relay"] /\ early'["fromRelay"] = early["fromRelay"]
    BY <1>2, <1>3, <1>9, TypesAre, EarlyGrows
  <2>2. /\ q' = Tail(q)
        /\ UNCHANGED <<On("client", "up"), On("client", "down"), On("tunnel", "up"), td, On("local", "up")>>
    BY <1>4, <1>9, SameIs DEF On
  <2>3. PipeTypes'
    BY <1>1, <1>2, <1>3, <1>4, <1>9, <2>1 DEF PipeTypes, PipeTypeOK, Wires, Buffers
  <2>4. NoPipe(early'["fromLocal"])
    <3>1. item.kind = "frame" /\ <<item>> \in Seq(Item) /\ NoPipe(<<item>>)
      BY <1>8, <1>9
    <3>2. early["fromLocal"] \in Seq(Item) /\ NoPipe(early["fromLocal"])
      BY <1>2, OnTypes DEF SpliceInv
    <3> DEFINE x == <<item>>
    <3>3. x \in Seq(Item) /\ NoPipe(x) /\ early'["fromLocal"] = early["fromLocal"] \o x
      BY <2>1, <3>1
    <3> HIDE DEF x
    <3> QED
      BY <3>2, <3>3, CatPipe
  <2>5. SpliceInv'
    BY <1>1, <1>2, <1>7, <1>9, <2>1, <2>2, <2>4 DEF SpliceInv
  <2>6. DownInv'
    <3>1. DownKept(Len(got["down"]), sent["down"], On("client", "down"), Strip(td), early["fromLocal"] \o <<Head(q)>>,
                   Tail(q), plugin, relay, browser, host)
      <4>1. Head(q).kind = "frame"
        BY <1>9 DEF item
      <4> HIDE DEF q
      <4> QED
        BY <1>1, <1>2, <1>3, <1>6, <4>1, OnTypes, DownPluginTakes
    <3> QED
      BY <1>1, <1>9, <2>1, <2>2, <3>1 DEF DownInv, item
  <2>7. UpInv'
    BY <1>1, <1>2, <1>9, <2>1, <2>2 DEF UpInv
  <2> QED
    BY <1>5, <2>3, <2>5, <2>6, <2>7 DEF PipeInv
<1>10. ASSUME Abort(rest), counted' \in 0 .. EarlyCap + 1 PROVE PipeInv'
  <2>1. /\ rest[<<"client", "up">>] = On("client", "up") /\ rest[<<"client", "down">>] = On("client", "down")
        /\ rest[<<"tunnel", "down">>] = td /\ rest[<<"local", "up">>] = On("local", "up")
    BY <1>4, SameIs DEF On
  <2>2. NoPipe(rest[<<"local", "down">>])
    BY <1>4, <1>7 DEF On
  <2> HIDE DEF rest
  <2> QED
    BY <1>1, <1>4, <1>10, <2>1, <2>2, AbortKeeps
<1>11. ASSUME item.kind = "frame", plugin = "spliced", wire' = Add(rest, "tunnel", "down", <<item>>),
              UNCHANGED <<plugin, early, counted, ready>>
       PROVE  PipeInv'
  <2> DEFINE x == <<item>>
  <2>1. /\ wire' \in Wires /\ wire'[<<"tunnel", "down">>] = rest[<<"tunnel", "down">>] \o x
        /\ Same(wire', rest, "tunnel", "down")
    <3>1. rest \in Wires /\ "tunnel" \in Link /\ "down" \in Way /\ x \in Seq(Item) /\ wire' = Add(rest, "tunnel", "down", x)
      BY <1>4, <1>8, <1>11, WireKeys
    <3> HIDE DEF rest, x
    <3> QED
      BY <3>1, AddIs
  <2>2. /\ q' = Tail(q) /\ td' = td \o x
        /\ UNCHANGED <<On("client", "up"), On("client", "down"), On("tunnel", "up"), On("local", "up")>>
    <3> HIDE DEF x
    <3>1. /\ rest[<<"client", "up">>] = wire[<<"client", "up">>] /\ rest[<<"client", "down">>] = wire[<<"client", "down">>]
          /\ rest[<<"tunnel", "up">>] = wire[<<"tunnel", "up">>] /\ rest[<<"tunnel", "down">>] = wire[<<"tunnel", "down">>]
          /\ rest[<<"local", "up">>] = wire[<<"local", "up">>]
      BY <1>4, SameIs
    <3>2. /\ wire'[<<"client", "up">>] = rest[<<"client", "up">>] /\ wire'[<<"client", "down">>] = rest[<<"client", "down">>]
          /\ wire'[<<"tunnel", "up">>] = rest[<<"tunnel", "up">>] /\ wire'[<<"local", "up">>] = rest[<<"local", "up">>]
          /\ wire'[<<"local", "down">>] = rest[<<"local", "down">>]
      BY <2>1, SameIs
    <3> QED
      BY <1>4, <2>1, <3>1, <3>2 DEF On
  <2>3. PipeTypes'
    BY <1>1, <1>2, <1>11, <2>1 DEF PipeTypes, PipeTypeOK, Wires
  <2>4. /\ OnePipe(td \o x) /\ Strip(td \o x) = Strip(td) \o x /\ (Piped(td \o x) <=> Piped(td))
        /\ (NoPipe(td) => NoPipe(td \o x))
    <3>1. td \in Seq(Item) /\ OnePipe(td) /\ x \in Seq(Item) /\ NoPipe(x)
      BY <1>2, <1>8, <1>11, OnTypes DEF SpliceInv
    <3> HIDE DEF td, x
    <3> QED
      BY <3>1, CatPipe
  <2>5. SpliceInv'
    <3> HIDE DEF x
    <3> QED
      BY <1>1, <1>2, <1>7, <1>11, <2>2, <2>4 DEF SpliceInv
  <2>6. DownInv'
    <3>1. early["fromLocal"] = <<>> /\ Head(q).kind = "frame"
      BY <1>2, <1>11 DEF SpliceInv, item
    <3>2. DownKept(Len(got["down"]), sent["down"], On("client", "down"), Strip(td) \o <<Head(q)>>, <<>>, Tail(q),
                   plugin, relay, browser, host)
      <4> HIDE DEF q
      <4> QED
        BY <1>1, <1>2, <1>3, <1>6, <3>1, OnTypes, DownPluginTakes
    <3> QED
      BY <1>1, <1>11, <2>2, <2>4, <3>1, <3>2 DEF DownInv, item
  <2>7. UpInv'
    BY <1>1, <1>2, <1>11, <2>2 DEF UpInv
  <2> QED
    BY <1>5, <2>3, <2>5, <2>6, <2>7 DEF PipeInv
<1>12. \/ /\ item.kind = "frame" /\ plugin = "dialing" /\ counted < EarlyCap /\ counted' = counted + 1
          /\ early' = [early EXCEPT !["fromLocal"] = Append(@, item)] /\ wire' = rest /\ UNCHANGED <<plugin, ready>>
       \/ Abort(rest) /\ plugin = "dialing" /\ counted' = counted + 1
       \/ Abort(rest) /\ counted' = counted
       \/ /\ item.kind = "frame" /\ plugin = "spliced" /\ wire' = Add(rest, "tunnel", "down", <<item>>)
          /\ UNCHANGED <<plugin, early, counted, ready>>
  BY DEF PluginReceives, PluginPasses, PluginClosed, item
<1>13. ASSUME Abort(rest), plugin = "dialing", counted' = counted + 1 PROVE counted' \in 0 .. EarlyCap + 1
  BY <1>2, <1>3, <1>13 DEF PipeTypes
<1> QED
  BY <1>3, <1>9, <1>10, <1>11, <1>12, <1>13

LEMMA PipeInvStep == PipeInv /\ [PipeNext]_pipeVars => PipeInv'
<1> SUFFICES ASSUME PipeInv, [PipeNext]_pipeVars PROVE PipeInv'
  OBVIOUS
<1>1. ASSUME NEW w \in Way, Send(w) PROVE PipeInv'
  BY <1>1, SendUpKeeps, SendDownKeeps DEF Way
<1>2. ASSUME NEW l \in {"tunnel", "local"}, NEW w \in Way, PluginReceives(l, w) PROVE PipeInv'
  <2>1. (l = "tunnel" /\ w = "up") \/ (l = "local" /\ w = "down")
    BY <1>2 DEF PluginReceives
  <2> QED
    BY <1>2, <2>1, PluginTunnelKeeps, PluginLocalKeeps
<1>3. CASE UNCHANGED pipeVars
  BY <1>3 DEF pipeVars, PipeInv, PipeTypes, PipeTypeOK, GotRight, SpliceInv, UpInv, DownInv, On
<1> QED
  BY <1>1, <1>2, <1>3, BrowserClosesKeeps, HostClosesKeeps, BrowserReceivesKeeps, HostReceivesKeeps,
     RelayFromClientKeeps, RelayFromPluginKeeps, PendingTimeoutKeeps, SocketOpensKeeps, DialFailsKeeps DEF PipeNext

LEMMA PipeInvHolds == PipeSpec => []PipeInv
<1>1. PipeInit => PipeInv
  BY PipeInvInit
<1>2. PipeInv /\ [PipeNext]_pipeVars => PipeInv'
  BY PipeInvStep
<1> QED
  BY <1>1, <1>2, PTL DEF PipeSpec

-----------------------------------------------------------------------------
(* What a browser and a host are promised *)

(* A nonempty set of numbers has a least one. *)
LEMMA LeastElement ==
    ASSUME NEW T \in SUBSET Nat, T # {}
    PROVE  \E n \in T : \A m \in T : n <= m
<1> DEFINE R == OpToRel(<, Nat)
<1>1. IsWellFoundedOn(R, Nat)
  BY NatLessThanWellFounded
<1>2. R = {ss \in Nat \X Nat : ss[1] < ss[2]}
  BY DEF OpToRel
<1>3. \E n \in T : \A m \in T : <<m, n>> \notin R
  <2> HIDE DEF R
  <2> QED
    BY <1>1, WFMin
<1>4. \A m, n \in Nat : m < n => <<m, n>> \in R
  BY <1>2
<1> HIDE DEF R
<1>5. \A m, n \in Nat : ~(m < n) => n <= m
  OBVIOUS
<1> QED
  BY <1>3, <1>4, <1>5

(* The frames of items whose first d, and no others, are none. *)
LEMMA FramesAre ==
    ASSUME NEW x \in Seq(Item), NEW d \in 0 .. Len(x),
           \A i \in DOMAIN x : x[i].kind = "frame" <=> i > d
    PROVE  /\ FramesOf(x) = [j \in 1 .. Len(x) - d |-> x[j + d].n]
           /\ FramesOf(x) \in Seq(1 .. MaxFrames)
<1> DEFINE n == Len(x)
           V(j) == x[j + d].n
           Numbers(k) == [j \in 1 .. k |-> V(j)]
           Step(f, i) == IF i = 0 THEN <<>>
                         ELSE IF x[i].kind = "frame" THEN Append(f[i - 1], x[i].n) ELSE f[i - 1]
           F == CHOOSE f : f = [i \in 0 .. n |-> Step(f, i)]
           G == [i \in 0 .. n |-> Numbers(IF i <= d THEN 0 ELSE i - d)]
<1>1. n \in Nat /\ d \in Nat /\ d <= n /\ DOMAIN x = 1 .. n
  OBVIOUS
<1>2. \A i \in 1 .. n : x[i] \in Item /\ (x[i].kind = "frame" => x[i].n \in 1 .. MaxFrames)
  BY ItemKinds
<1> HIDE DEF n
<1>3. \A j \in 1 .. n - d : j + d \in 1 .. n /\ x[j + d].kind = "frame" /\ x[j + d].n \in 1 .. MaxFrames
  <2>1. \A j \in 1 .. n - d : j + d \in 1 .. n /\ j + d > d
    BY <1>1
  <2> QED
    BY <1>1, <1>2, <2>1
<1>a. /\ \A j \in 1 .. n - d : V(j) \in 1 .. MaxFrames
      /\ \A i \in 1 .. n : i > d => x[i].n = V(i - d)
  BY <1>1, <1>3
<1> HIDE DEF V
<1>4. ASSUME NEW k \in 0 .. n - d
      PROVE  /\ Numbers(k) \in Seq(1 .. MaxFrames) /\ Len(Numbers(k)) = k /\ k \in Nat
             /\ \A j \in 1 .. k : Numbers(k)[j] = V(j)
  <2>1. k \in Nat /\ \A j \in 1 .. k : j \in 1 .. n - d
    BY <1>1
  <2> QED
    BY <1>a, <2>1
<1>5. Numbers(0) = <<>>
  OBVIOUS
<1>6. ASSUME NEW k \in 1 .. n - d PROVE Append(Numbers(k - 1), V(k)) = Numbers(k)
  <2>1. k - 1 \in 0 .. n - d /\ k \in 0 .. n - d /\ k - 1 + 1 = k /\ k \in Nat
    BY <1>1
  <2> DEFINE p == Numbers(k - 1)
             r == Numbers(k)
             v == V(k)
  <2>2. /\ p \in Seq(1 .. MaxFrames) /\ Len(p) = k - 1 /\ v \in 1 .. MaxFrames
        /\ \A j \in 1 .. k - 1 : p[j] = V(j)
    BY <1>a, <1>4, <2>1
  <2>3. /\ r \in Seq(1 .. MaxFrames) /\ Len(r) = k
        /\ \A j \in 1 .. k : r[j] = V(j)
    BY <1>4, <2>1
  <2>4. v = V(k)
    OBVIOUS
  <2> HIDE DEF p, r, v, Numbers
  <2>5. Append(p, v) \in Seq(1 .. MaxFrames) /\ Len(Append(p, v)) = k
    BY <2>1, <2>2
  <2>6. \A j \in 1 .. k : Append(p, v)[j] = r[j]
    BY <2>1, <2>2, <2>3, <2>4
  <2>7. Append(p, v) = r
    BY <2>3, <2>5, <2>6
  <2> QED
    BY <2>7 DEF p, r, v
<1> HIDE DEF Numbers
<1>7. /\ \A i \in 0 .. n : i <= d => G[i] = <<>>
      /\ \A i \in 0 .. n : ~(i <= d) => G[i] = Numbers(i - d)
      /\ G[d] = Numbers(0)
  BY <1>1, <1>5
<1>8. ASSUME NEW i \in 0 .. n PROVE G[i] = Step(G, i)
  <2> HIDE DEF G
  <2>1. CASE i = 0
    BY <1>1, <1>7, <2>1
  <2>2. CASE i # 0 /\ i <= d
    <3>1. i - 1 \in 0 .. n /\ i - 1 <= d /\ i \in 1 .. n /\ ~(i > d)
      BY <1>1, <2>2
    <3> QED
      BY <1>1, <1>7, <2>2, <3>1
  <2>3. CASE i # 0 /\ ~(i <= d)
    <3>1. i \in 1 .. n /\ i > d /\ i - 1 \in 0 .. n /\ i - d \in 1 .. n - d /\ i - d + d = i
      BY <1>1, <2>3
    <3>2. x[i].kind = "frame" /\ Append(Numbers(i - d - 1), x[i].n) = Numbers(i - d)
      BY <1>1, <1>6, <1>a, <3>1
    <3>3. G[i - 1] = Numbers(i - d - 1)
      <4>1. CASE i - 1 <= d
        <5>1. i - 1 = d /\ i - d - 1 = 0
          BY <1>1, <2>3, <3>1, <4>1
        <5> QED
          BY <1>7, <5>1
      <4>2. CASE ~(i - 1 <= d)
        <5>1. i - 1 - d = i - d - 1
          BY <1>1, <3>1
        <5> QED
          BY <1>7, <3>1, <4>2, <5>1
      <4> QED
        BY <4>1, <4>2
    <3> QED
      BY <1>7, <2>3, <3>1, <3>2, <3>3
  <2> QED
    BY <2>1, <2>2, <2>3
<1>9. F = [i \in 0 .. n |-> Step(F, i)]
  <2> HIDE DEF Step
  <2>1. G = [i \in 0 .. n |-> Step(G, i)]
    <3>1. G = [i \in 0 .. n |-> G[i]]
      OBVIOUS
    <3> HIDE DEF G
    <3> QED
      BY <1>8, <3>1
  <2> HIDE DEF G
  <2> QED
    BY <2>1
<1> HIDE DEF F, G
<1>10. \A i \in 0 .. n : F[i] = Step(F, i)
  <2> HIDE DEF Step
  <2> QED
    BY <1>9
<1>11. \A i \in 0 .. n : F[i] = G[i]
  <2> DEFINE T == {i \in 0 .. n : F[i] # G[i]}
  <2>1. SUFFICES ASSUME T # {} PROVE FALSE
    OBVIOUS
  <2>2. T \in SUBSET Nat
    BY <1>1
  <2>3. PICK i \in T : \A m \in T : i <= m
    <3> HIDE DEF T
    <3> QED
      BY <2>1, <2>2, LeastElement
  <2>4. i \in 0 .. n /\ F[i] # G[i] /\ i \in Nat
    BY <1>1, <2>3
  <2>5. CASE i = 0
    BY <1>8, <1>10, <2>4, <2>5
  <2>6. CASE i # 0
    <3>1. i - 1 \in 0 .. n /\ ~(i <= i - 1)
      BY <1>1, <2>4, <2>6
    <3>2. F[i - 1] = G[i - 1]
      BY <2>3, <3>1
    <3> QED
      BY <1>8, <1>10, <2>4, <2>6, <3>2
  <2> QED
    BY <2>5, <2>6
<1>12. FramesOf(x) = F[n]
  BY DEF FramesOf, F, n
<1>13. F[n] = Numbers(n - d)
  <2>1. n \in 0 .. n /\ (n <= d => n - d = 0)
    BY <1>1
  <2> QED
    BY <1>5, <1>7, <1>11, <2>1
<1>14. n - d \in 0 .. n - d
  BY <1>1
<1> QED
  BY <1>4, <1>12, <1>13, <1>14 DEF Numbers, n, V

LEMMA NumbersAre ==
    ASSUME NEW n \in Nat, NEW f \in Seq(1 .. n)
    PROVE  f \in Seq(Nat)
OBVIOUS

(* What is under way carries on where what arrived ends. *)
LEMMA FramesCarryOn ==
    ASSUME NEW h \in Nat, NEW s \in Nat, NEW x \in Seq(Item), Pure(Strip(x)), Run(Strip(x), h, s),
           s = h + Len(Strip(x))
    PROVE  Counting(h) \o FramesOf(x) = Counting(s)
<1> DEFINE y == Strip(x)
           d == IF Piped(x) THEN 1 ELSE 0
           l == Len(y)
<1>1. /\ y \in Seq(Item) /\ l \in Nat /\ DOMAIN y = 1 .. l /\ DOMAIN x = 1 .. Len(x)
      /\ Len(x) = l + d /\ d \in 0 .. Len(x) /\ Len(x) \in Nat
      /\ \A j \in 1 .. l : j + d \in 1 .. Len(x) /\ y[j] = x[j + d]
  <2>1. CASE ~Piped(x)
    BY <2>1 DEF Strip
  <2>2. CASE Piped(x)
    <3>1. x # <<>> /\ y = Tail(x)
      BY <2>2 DEF Strip, Piped
    <3> HIDE DEF y
    <3> QED
      BY <2>2, <3>1
  <2> QED
    BY <2>1, <2>2
<1>2. \A i \in DOMAIN x : x[i].kind = "frame" <=> i > d
  <2>1. CASE ~Piped(x)
    BY <2>1 DEF Strip, Pure
  <2>2. CASE Piped(x)
    <3>1. x[1].kind # "frame" /\ d = 1
      BY <2>2, ItemKinds DEF Piped
    <3> HIDE DEF y, d, l
    <3>2. ASSUME NEW i \in 1 .. Len(x), i > 1 PROVE x[i].kind = "frame"
      <4>1. i - 1 \in 1 .. l /\ y[i - 1] = x[i]
        BY <1>1, <3>1, <3>2
      <4> QED
        BY <1>1, <4>1 DEF Pure, y
    <3> QED
      BY <1>1, <3>1, <3>2
  <2> QED
    BY <2>1, <2>2
<1> HIDE DEF d
<1>3. FramesOf(x) = [j \in 1 .. Len(x) - d |-> x[j + d].n] /\ FramesOf(x) \in Seq(1 .. MaxFrames)
  BY <1>1, <1>2, FramesAre
<1>4. \A j \in 1 .. l : y[j] = Frame(h + j)
  BY <1>1 DEF Pure, Run
<1>5. \A j \in 1 .. l : x[j + d].n = h + j
  BY <1>1, <1>4 DEF Frame
<1>6. Len(x) - d = l
  BY <1>1
<1> DEFINE f == FramesOf(x)
           c == Counting(h)
           r == Counting(s)
<1>7. f \in Seq(1 .. MaxFrames) /\ Len(f) = l /\ \A j \in 1 .. l : f[j] = h + j
  <2>1. f = [j \in 1 .. l |-> x[j + d].n]
    BY <1>3, <1>6
  <2> HIDE DEF f, l
  <2>2. Len(f) = l /\ \A j \in 1 .. l : f[j] = x[j + d].n
    BY <1>1, <2>1
  <2> QED
    BY <1>3, <1>5, <2>2 DEF f
<1>8. c \in Seq(Nat) /\ Len(c) = h /\ \A i \in 1 .. h : c[i] = i
  BY DEF Counting
<1>9. r \in Seq(Nat) /\ Len(r) = s /\ \A i \in 1 .. s : r[i] = i
  BY DEF Counting
<1>10. s = h + l
  OBVIOUS
<1> HIDE DEF y, l, f, c, r
<1>11. f \in Seq(Nat)
  BY <1>7, NumbersAre, PipeAssumption
<1> DEFINE z == c \o f
<1>12. /\ z \in Seq(Nat) /\ Len(z) = h + l /\ (\A i \in 1 .. h : z[i] = c[i])
       /\ \A i \in 1 .. l : z[h + i] = f[i]
  <2>1. c \in Seq(Nat) /\ f \in Seq(Nat)
    BY <1>8, <1>11
  <2>2. /\ z \in Seq(Nat) /\ Len(z) = Len(c) + Len(f) /\ (\A i \in 1 .. Len(c) : z[i] = c[i])
        /\ \A i \in 1 .. Len(f) : z[Len(c) + i] = f[i]
    BY <2>1, CatIs
  <2> HIDE DEF z
  <2> QED
    BY <1>7, <1>8, <2>2
<1> HIDE DEF z
<1>13. \A i \in 1 .. s : z[i] = i
  <2> TAKE i \in 1 .. s
  <2>1. CASE i \in 1 .. h
    BY <1>8, <1>12, <2>1
  <2>2. CASE i \notin 1 .. h
    <3>1. i - h \in 1 .. l /\ h + (i - h) = i
      BY <1>1, <1>10, <2>2
    <3>2. z[h + (i - h)] = f[i - h] /\ f[i - h] = h + (i - h)
      BY <1>7, <1>12, <3>1
    <3> QED
      BY <3>1, <3>2
  <2> QED
    BY <2>1, <2>2
<1>14. z = r
  BY <1>9, <1>10, <1>12, <1>13
<1> QED
  BY <1>14 DEF z, c, f, r

LEMMA PureIsStripped ==
    ASSUME NEW q \in Seq(Item), Pure(q)
    PROVE  Strip(q) = q /\ NoPipe(q)
<1>1. NoPipe(q)
  BY ItemKinds DEF Pure, NoPipe
<1> QED
  BY <1>1, NoPipeIs

(* A queue of frames that goes on where another one of them ends. *)
LEMMA RunOn ==
    ASSUME NEW q \in Seq(Item), NEW r \in Seq(Item), NEW a \in Nat, NEW top \in Nat,
           Pure(q) /\ Run(q, a, top), Pure(r) /\ Run(r, a + Len(q), top)
    PROVE  q \o r \in Seq(Item) /\ Len(q \o r) = Len(q) + Len(r) /\ Pure(q \o r) /\ Run(q \o r, a, top)
BY CatRuns

LEMMA UpIsComplete ==
    ASSUME PipeInv, relay # "over", plugin # "over", browser = "open", host \in {"none", "open"}
    PROVE  got["up"] \o FramesOf(On("local", "up") \o early["fromRelay"] \o On("tunnel", "up")
                                 \o early["relay"] \o On("client", "up")) = Counting(sent["up"])
<1> DEFINE h == Len(got["up"])
           s == sent["up"]
           q1 == On("local", "up")
           q2 == early["fromRelay"]
           q3 == On("tunnel", "up")
           q4 == early["relay"]
           q5 == On("client", "up")
<1>1. /\ q1 \in Seq(Item) /\ q2 \in Seq(Item) /\ q3 \in Seq(Item) /\ q4 \in Seq(Item) /\ q5 \in Seq(Item)
      /\ h \in Nat /\ s \in Nat
  BY OnTypes DEF PipeInv
<1>2. got["up"] = Counting(h)
  BY DEF PipeInv, GotRight, Way
<1>3. UpKept(h, s, q1, q2, q3, q4, q5, plugin, relay, browser, host)
  BY DEF PipeInv, UpInv
<1> HIDE DEF q1, q2, q3, q4, q5, h, s
<1>4. /\ Pure(q1) /\ Pure(q2) /\ Pure(q3) /\ Pure(q4) /\ Pure(q5)
      /\ Run(q1, h, s) /\ Run(q2, h + Len(q1), s) /\ Run(q3, h + Len(q1) + Len(q2), s)
      /\ Run(q4, h + Len(q1) + Len(q2) + Len(q3), s)
      /\ Run(q5, h + Len(q1) + Len(q2) + Len(q3) + Len(q4), s)
      /\ s = h + Len(q1) + Len(q2) + Len(q3) + Len(q4) + Len(q5)
  BY <1>3 DEF UpKept
<1> DEFINE q12 == q1 \o q2
           q123 == q12 \o q3
           q1234 == q123 \o q4
           x == q1234 \o q5
<1>5. Len(q1) \in Nat /\ Len(q2) \in Nat /\ Len(q3) \in Nat /\ Len(q4) \in Nat /\ Len(q5) \in Nat
  BY <1>1, Lengths
<1>6. q12 \in Seq(Item) /\ Len(q12) = Len(q1) + Len(q2) /\ Pure(q12) /\ Run(q12, h, s)
  BY <1>1, <1>4, RunOn
<1> HIDE DEF q12
<1>7. q123 \in Seq(Item) /\ Len(q123) = Len(q12) + Len(q3) /\ Pure(q123) /\ Run(q123, h, s)
  <2>1. h + Len(q12) = h + Len(q1) + Len(q2)
    BY <1>1, <1>5, <1>6
  <2> QED
    <3>1. q12 \in Seq(Item) /\ q3 \in Seq(Item) /\ h \in Nat /\ s \in Nat
      BY <1>1, <1>6
    <3>2. Pure(q12) /\ Run(q12, h, s) /\ Pure(q3) /\ Run(q3, h + Len(q12), s)
      BY <1>4, <1>6, <2>1
    <3> QED
      BY <3>1, <3>2, RunOn
<1> HIDE DEF q123
<1>8. q1234 \in Seq(Item) /\ Len(q1234) = Len(q123) + Len(q4) /\ Pure(q1234) /\ Run(q1234, h, s)
  <2>1. h + Len(q123) = h + Len(q1) + Len(q2) + Len(q3)
    BY <1>1, <1>5, <1>6, <1>7
  <2> QED
    <3>1. q123 \in Seq(Item) /\ q4 \in Seq(Item) /\ h \in Nat /\ s \in Nat
      BY <1>1, <1>7
    <3>2. Pure(q123) /\ Run(q123, h, s) /\ Pure(q4) /\ Run(q4, h + Len(q123), s)
      BY <1>4, <1>7, <2>1
    <3> QED
      BY <3>1, <3>2, RunOn
<1> HIDE DEF q1234
<1>9. x \in Seq(Item) /\ Len(x) = Len(q1234) + Len(q5) /\ Pure(x) /\ Run(x, h, s)
  <2>1. h + Len(q1234) = h + Len(q1) + Len(q2) + Len(q3) + Len(q4)
    BY <1>1, <1>5, <1>6, <1>7, <1>8
  <2> QED
    <3>1. q1234 \in Seq(Item) /\ q5 \in Seq(Item) /\ h \in Nat /\ s \in Nat
      BY <1>1, <1>8
    <3>2. Pure(q1234) /\ Run(q1234, h, s) /\ Pure(q5) /\ Run(q5, h + Len(q1234), s)
      BY <1>4, <1>8, <2>1
    <3> QED
      BY <3>1, <3>2, RunOn
<1> HIDE DEF x
<1>10. s = h + Len(x)
  BY <1>1, <1>4, <1>5, <1>6, <1>7, <1>8, <1>9
<1>11. Counting(h) \o FramesOf(x) = Counting(s)
  BY <1>1, <1>9, <1>10, PureIsStripped, FramesCarryOn
<1> QED
  BY <1>2, <1>11 DEF x, q1234, q123, q12, q1, q2, q3, q4, q5, s, h

LEMMA DownIsComplete ==
    ASSUME PipeInv, relay # "over", plugin # "over", browser = "open", host \in {"none", "open"}
    PROVE  got["down"] \o FramesOf(On("client", "down") \o On("tunnel", "down")
                                   \o early["fromLocal"] \o On("local", "down")) = Counting(sent["down"])
<1> DEFINE h == Len(got["down"])
           s == sent["down"]
           q1 == On("client", "down")
           td == On("tunnel", "down")
           q2 == Strip(td)
           q3 == early["fromLocal"]
           q4 == On("local", "down")
<1>1. /\ q1 \in Seq(Item) /\ q2 \in Seq(Item) /\ q3 \in Seq(Item) /\ q4 \in Seq(Item) /\ td \in Seq(Item)
      /\ h \in Nat /\ s \in Nat
  BY OnTypes DEF PipeInv
<1>2. got["down"] = Counting(h)
  BY DEF PipeInv, GotRight, Way
<1>3. DownKept(h, s, q1, q2, q3, q4, plugin, relay, browser, host)
  BY DEF PipeInv, DownInv
<1>4. relay \in {"pending", "spliced"}
  BY DEF PipeInv, PipeTypes, PipeTypeOK
<1>5. /\ OnePipe(td) /\ (relay = "pending" => q1 = <<>>) /\ (relay = "spliced" => NoPipe(td))
  BY DEF PipeInv, SpliceInv
<1> HIDE DEF q1, q2, q3, q4, h, s, td
<1>6. /\ Pure(q1) /\ Pure(q2) /\ Pure(q3) /\ Pure(q4)
      /\ Run(q1, h, s) /\ Run(q2, h + Len(q1), s) /\ Run(q3, h + Len(q1) + Len(q2), s)
      /\ Run(q4, h + Len(q1) + Len(q2) + Len(q3), s)
      /\ s = h + Len(q1) + Len(q2) + Len(q3) + Len(q4)
  BY <1>3 DEF DownKept
<1> DEFINE q12 == q1 \o q2
           q123 == q12 \o q3
           y == q123 \o q4
           t1 == q1 \o td
           t12 == t1 \o q3
           x == t12 \o q4
<1>7. Len(q1) \in Nat /\ Len(q2) \in Nat /\ Len(q3) \in Nat /\ Len(q4) \in Nat
  BY <1>1, Lengths
<1>8. q12 \in Seq(Item) /\ Len(q12) = Len(q1) + Len(q2) /\ Pure(q12) /\ Run(q12, h, s)
  BY <1>1, <1>6, RunOn
<1>9. t1 \in Seq(Item) /\ OnePipe(t1) /\ Strip(t1) = q12
  <2>1. CASE relay = "pending"
    <3>1. q1 \o td = td /\ q1 \o q2 = q2
      BY <1>1, <1>5, <2>1, NoneIsEmpty
    <3> QED
      BY <1>1, <1>5, <3>1 DEF q2
  <2>2. CASE relay = "spliced"
    <3>1. q2 = td
      BY <1>1, <1>5, <2>2, NoPipeIs DEF q2
    <3>2. Strip(q12) = q12 /\ NoPipe(q12)
      BY <1>8, PureIsStripped
    <3>3. t1 = q12
      BY <3>1
    <3> HIDE DEF t1, q12
    <3> QED
      BY <1>8, <3>2, <3>3, NoPipeIs
  <2> QED
    BY <1>4, <2>1, <2>2
<1> HIDE DEF q12, t1
<1>10. NoPipe(q3) /\ NoPipe(q4)
  BY <1>1, <1>6, PureIsStripped
<1>11. q123 \in Seq(Item) /\ Len(q123) = Len(q12) + Len(q3) /\ Pure(q123) /\ Run(q123, h, s)
  <2>1. h + Len(q12) = h + Len(q1) + Len(q2)
    BY <1>1, <1>7, <1>8
  <2> QED
    <3>1. q12 \in Seq(Item) /\ q3 \in Seq(Item) /\ h \in Nat /\ s \in Nat
      BY <1>1, <1>8
    <3>2. Pure(q12) /\ Run(q12, h, s) /\ Pure(q3) /\ Run(q3, h + Len(q12), s)
      BY <1>6, <1>8, <2>1
    <3> QED
      BY <3>1, <3>2, RunOn
<1>12. t12 \in Seq(Item) /\ OnePipe(t12) /\ Strip(t12) = q123
  <2>1. t12 \in Seq(Item)
    BY <1>1, <1>9, CatIs
  <2> QED
    BY <1>1, <1>9, <1>10, <2>1, CatPipe
<1> HIDE DEF q123, t12
<1>13. y \in Seq(Item) /\ Len(y) = Len(q123) + Len(q4) /\ Pure(y) /\ Run(y, h, s)
  <2>1. h + Len(q123) = h + Len(q1) + Len(q2) + Len(q3)
    BY <1>1, <1>7, <1>8, <1>11
  <2> QED
    <3>1. q123 \in Seq(Item) /\ q4 \in Seq(Item) /\ h \in Nat /\ s \in Nat
      BY <1>1, <1>11
    <3>2. Pure(q123) /\ Run(q123, h, s) /\ Pure(q4) /\ Run(q4, h + Len(q123), s)
      BY <1>6, <1>11, <2>1
    <3> QED
      BY <3>1, <3>2, RunOn
<1>14. x \in Seq(Item) /\ Strip(x) = y
  <2>1. x \in Seq(Item)
    BY <1>1, <1>12, CatIs
  <2> QED
    BY <1>1, <1>10, <1>12, <2>1, CatPipe
<1> HIDE DEF y, x
<1>15. s = h + Len(y)
  BY <1>1, <1>6, <1>7, <1>8, <1>11, <1>13
<1>16. Counting(h) \o FramesOf(x) = Counting(s)
  BY <1>1, <1>13, <1>14, <1>15, FramesCarryOn
<1> QED
  BY <1>2, <1>16 DEF x, t12, t1, q1, q3, q4, td, s, h

LEMMA PipeInvKeepsFrames == PipeInv => FramesKept
<1> SUFFICES ASSUME PipeInv PROVE FramesKept
  OBVIOUS
<1>1. NothingForgotten
  BY UpIsComplete, DownIsComplete DEF NothingForgotten
<1>2. ASSUME NEW w \in Way PROVE IsPrefix(got[w], Counting(sent[w]))
  <2> DEFINE h == Len(got[w])
             s == sent[w]
             c == Counting(h)
             r == Counting(s)
  <2>1. got[w] = c /\ h <= s /\ h \in Nat /\ s \in Nat
    BY TypesAre DEF PipeInv, GotRight, Way
  <2> HIDE DEF h, s
  <2>2. /\ c \in Seq(Nat) /\ Len(c) = h /\ (\A i \in 1 .. h : c[i] = i)
        /\ r \in Seq(Nat) /\ Len(r) = s /\ (\A i \in 1 .. s : r[i] = i)
    BY <2>1 DEF Counting
  <2> HIDE DEF c, r
  <2>3. /\ SubSeq(c, 1, h) \in Seq(Nat) /\ Len(SubSeq(c, 1, h)) = h /\ (\A i \in 1 .. h : SubSeq(c, 1, h)[i] = i)
        /\ SubSeq(r, 1, h) \in Seq(Nat) /\ Len(SubSeq(r, 1, h)) = h /\ (\A i \in 1 .. h : SubSeq(r, 1, h)[i] = i)
    BY <2>1, <2>2
  <2>4. SubSeq(c, 1, h) = SubSeq(r, 1, h)
    BY <2>3
  <2> QED
    BY <2>1, <2>2, <2>4 DEF IsPrefix, s, r
<1> QED
  BY <1>1, <1>2 DEF FramesKept, InOrder

(* Every wire, buffer and counter of a client's way stays what it is: an    *)
(* early buffer never exceeds its limit, and the plugin's byte count never  *)
(* goes past the one frame that breaks it (server.mjs:432,                  *)
(* relayPlugin.mjs:179).                                                    *)
THEOREM PipeTypeCorrect == PipeSpec => []PipeTypeOK
<1>1. PipeInv => PipeTypeOK
  BY DEF PipeInv, PipeTypes
<1> QED
  BY <1>1, PipeInvHolds, PTL

(* However the sockets open, whoever splices first and whoever closes when: *)
(* what arrives at either end is in the order it was sent, without a gap,   *)
(* and while all four parties are there every frame sent has arrived, is on *)
(* a wire or waits in a buffer, in order.  The early frames that relay and  *)
(* plugin keep go ahead of all that follow them (server.mjs:432,            *)
(* relayPlugin.mjs:179).                                                    *)
THEOREM FramesAreKept == PipeSpec => []FramesKept
BY PipeInvHolds, PipeInvKeepsFrames, PTL

-----------------------------------------------------------------------------
(* The control connection *)

(* Steps that leave the plugin alone. *)
RelayStep ==
    \/ \E d \in Dial : Register(d) \/ Verdict(d) \/ Offer(d)
    \/ Sweep \/ OtherLeaves
    \/ \E force \in BOOLEAN : OtherRegisters(force)
    \/ UNCHANGED vars

LEMMA RelayStepsAreQuiet == RelayStep => UNCHANGED pluginVars
BY DEF RelayStep, Register, AcceptRegister, Verdict, Offer, Sweep, OtherLeaves, OtherRegisters, vars

LEMMA StepsOfThePlugin ==
    [Next]_vars =>
        \/ RelayStep
        \/ \E d \in Dial : Receive(d) \/ Lost(d) \/ PipeEnds(d)
        \/ ReconnectTimer \/ ProbeTimer \/ ForceRegister \/ Show \/ Shutdown
BY DEF Next, RelayStep

-----------------------------------------------------------------------------
(* A pipe never outlives the control socket it was offered over             *)
(* (relayPlugin.mjs:126): the close of any socket reaps all pipes, and an   *)
(* offer is only heard over a socket that has not closed.                   *)
THEOREM PipesHaveTheirSocket == Spec => []PipesHangOnLiveSockets
<1>1. Init => PipesHangOnLiveSockets
  BY DEF Init, PipesHangOnLiveSockets
<1>2. PipesHangOnLiveSockets /\ [Next]_vars => PipesHangOnLiveSockets'
  <2> SUFFICES ASSUME PipesHangOnLiveSockets, [Next]_vars PROVE PipesHangOnLiveSockets'
    OBVIOUS
  <2> USE DEF PipesHangOnLiveSockets
  <2>1. CASE RelayStep
    BY <2>1, RelayStepsAreQuiet DEF pluginVars
  <2>2. ASSUME NEW d \in Dial, Receive(d) PROVE PipesHangOnLiveSockets'
    BY <2>2 DEF Receive, OnMessage, OnClose
  <2>3. ASSUME NEW d \in Dial, Lost(d) \/ PipeEnds(d) PROVE PipesHangOnLiveSockets'
    BY <2>3 DEF Lost, OnClose, PipeEnds
  <2>4. CASE ReconnectTimer \/ ProbeTimer \/ ForceRegister
    BY <2>4 DEF ReconnectTimer, ProbeTimer, ForceRegister, DialControl
  <2>5. CASE Show \/ Shutdown
    BY <2>5 DEF Show, Shutdown
  <2> QED
    BY <2>1, <2>2, <2>3, <2>4, <2>5, StepsOfThePlugin
<1> QED
  BY <1>1, <1>2, PTL DEF Spec

-----------------------------------------------------------------------------
(* What the plugin waits for: a socket, or a timer that dials whatever the  *)
(* state then is.                                                           *)
Pending == live # {} \/ reconnects > 0

(* NeverStranded as induction needs it: the timer of the occupied state     *)
(* does nothing once that state is left, so it counts in that state alone.  *)
StrandInv ==
    /\ reconnects \in Nat
    /\ state \notin {"parked", "stopped", "occupied"} => Pending
    /\ state = "occupied" => Pending \/ probe

(* The close of a socket leaves a timer behind, or a state that wants none. *)
LEMMA CloseLeavesATimer ==
    ASSUME StrandInv, NEW d \in Dial, OnClose(d)
    PROVE  StrandInv'
<1>1. reconnects' \in Nat
  BY DEF StrandInv, OnClose, AfterClose, Schedule
<1>2. state' \notin {"parked", "stopped", "occupied"} => reconnects' > 0
  BY DEF StrandInv, OnClose, AfterClose, Schedule
<1>3. state' = "occupied" => probe'
  BY DEF OnClose, AfterClose, Schedule
<1> QED
  BY <1>1, <1>2, <1>3 DEF StrandInv, Pending

(* No order of answers, closes, timers and forced dials leaves the plugin   *)
(* silent with nothing pending, unless it is parked or stopped              *)
(* (relayPlugin.mjs:126, 141).                                              *)
THEOREM AlwaysPending == Spec => []NeverStranded
<1>1. Init => StrandInv
  BY DEF Init, StrandInv, Pending
<1>2. StrandInv /\ [Next]_vars => StrandInv'
  <2> SUFFICES ASSUME StrandInv, [Next]_vars PROVE StrandInv'
    OBVIOUS
  <2>1. CASE RelayStep
    BY <2>1, RelayStepsAreQuiet DEF pluginVars, StrandInv, Pending
  <2>2. ASSUME NEW d \in Dial, Receive(d) PROVE StrandInv'
    <3>1. CASE OnClose(d)
      BY <3>1, CloseLeavesATimer
    <3>2. CASE ~OnClose(d)
      BY <2>2, <3>2 DEF Receive, OnMessage, StrandInv, Pending
    <3> QED
      BY <3>1, <3>2
  <2>3. ASSUME NEW d \in Dial, Lost(d) PROVE StrandInv'
    BY <2>3, CloseLeavesATimer DEF Lost
  <2>4. CASE ReconnectTimer
    <3>1. reconnects' \in Nat
      BY <2>4 DEF ReconnectTimer, StrandInv
    <3>2. state' = state /\ (state # "stopped" => live' # {})
      BY <2>4 DEF ReconnectTimer, DialControl
    <3> QED
      BY <3>1, <3>2 DEF StrandInv, Pending
  <2>5. CASE ProbeTimer \/ ForceRegister
    BY <2>5 DEF ProbeTimer, ForceRegister, DialControl, StrandInv, Pending
  <2>6. ASSUME NEW d \in Dial, PipeEnds(d) PROVE StrandInv'
    BY <2>6 DEF PipeEnds, StrandInv, Pending
  <2>7. CASE Show \/ Shutdown
    BY <2>7 DEF Show, Shutdown, StrandInv, Pending
  <2> QED
    BY <2>1, <2>2, <2>3, <2>4, <2>5, <2>6, <2>7, StepsOfThePlugin
<1>3. StrandInv => NeverStranded
  BY DEF StrandInv, Pending, NeverStranded
<1> QED
  BY <1>1, <1>2, <1>3, PTL DEF Spec
=============================================================================
