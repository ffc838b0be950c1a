------------------------- MODULE WebTransportProofs -------------------------
(***************************************************************************)
(* Proofs about the browser's transport (module WebTransport), for every   *)
(* finite set of sessions, and any number of connections, attempts and     *)
(* messages of the page: its types, that messages arrive in order and      *)
(* under the connection they are meant for, and that the host sends at     *)
(* rest what the page follows.                                             *)
(***************************************************************************)
EXTENDS WebTransport, FiniteSetTheorems, WellFoundedInduction, TLAPS

-----------------------------------------------------------------------------
(* Queues of messages: the wire, the queue of the seal and the outbox *)

LEMMA MessageType ==
    ASSUME NEW m \in Message
    PROVE  /\ m.k \in {"attach", "detach", "op", "join", "response"}
           /\ m.k \in {"attach", "detach"} => m.of \in Session
           /\ m.k = "op" => m.of \in 1 .. MaxOps
BY DEF Message

LEMMA Messages ==
    /\ \A s \in Session : [k |-> "attach", of |-> s] \in Message /\ [k |-> "detach", of |-> s] \in Message
    /\ \A n \in 1 .. MaxOps : [k |-> "op", of |-> n] \in Message
    /\ \A n \in 1 .. MaxConns : [k |-> "response", of |-> n] \in Message
    /\ [k |-> "join", of |-> 0] \in Message
BY DEF Message

LEMMA DownType ==
    ASSUME NEW d \in Down
    PROVE  /\ d.k \in {"challenge", "ok", "tabs", "error", "close"}
           /\ d.k = "challenge" => d.of \in 1 .. MaxConns
           /\ d.k = "tabs" => d.of \in SUBSET Session
           /\ d.k = "error" => d.of \in {"denied", "other"}
           /\ d.k = "close" => d.of \in {"plain", "denied", "revoked"}
BY DEF Down

LEMMA Downs ==
    /\ \A n \in 1 .. MaxConns : [k |-> "challenge", of |-> n] \in Down
    /\ [k |-> "ok", of |-> 0] \in Down
    /\ \A S \in SUBSET Session : [k |-> "tabs", of |-> S] \in Down
    /\ \A w \in {"denied", "other"} : [k |-> "error", of |-> w] \in Down
    /\ \A w \in {"plain", "denied", "revoked"} : [k |-> "close", of |-> w] \in Down
BY DEF Down

LEMMA FunctionIsSeq ==
    ASSUME NEW S, NEW n \in Nat, NEW f \in [1 .. n -> S]
    PROVE  f \in Seq(S) /\ Len(f) = n
OBVIOUS

LEMMA HeadAndTail ==
    ASSUME NEW S, NEW q \in Seq(S), q # <<>>
    PROVE  /\ Head(q) \in S /\ Tail(q) \in Seq(S) /\ <<Head(q)>> \in Seq(S)
           /\ q = <<Head(q)>> \o Tail(q)
OBVIOUS

LEMMA AppendIsCat ==
    ASSUME NEW S, NEW q \in Seq(S), NEW x \in S
    PROVE  Append(q, x) = q \o <<x>> /\ <<x>> \in Seq(S)
OBVIOUS

LEMMA CatIs ==
    ASSUME NEW S, NEW q \in Seq(S), NEW r \in Seq(S)
    PROVE  /\ q \o r \in Seq(S) /\ Len(q \o r) = Len(q) + Len(r) /\ Len(q) \in Nat /\ Len(r) \in Nat
           /\ DOMAIN q = 1 .. Len(q) /\ DOMAIN r = 1 .. Len(r) /\ DOMAIN (q \o r) = 1 .. Len(q) + Len(r)
           /\ \A i \in 1 .. Len(q) : (q \o r)[i] = q[i]
           /\ \A i \in 1 .. Len(r) : (q \o r)[Len(q) + i] = r[i]
OBVIOUS

LEMMA SameSeq ==
    ASSUME NEW S, NEW q \in Seq(S), NEW r \in Seq(S), Len(q) = Len(r), \A i \in 1 .. Len(q) : q[i] = r[i]
    PROVE  q = r
OBVIOUS

LEMMA ToSetCat ==
    ASSUME NEW S, NEW q \in Seq(S), NEW r \in Seq(S)
    PROVE  ToSet(q \o r) = ToSet(q) \cup ToSet(r)
<1> DEFINE x == q \o r
           n == Len(q)
           l == Len(r)
<1>1. /\ n \in Nat /\ l \in Nat /\ DOMAIN q = 1 .. n /\ DOMAIN r = 1 .. l /\ DOMAIN x = 1 .. n + l
      /\ (\A i \in 1 .. n : x[i] = q[i]) /\ \A i \in 1 .. l : x[n + i] = r[i]
  BY CatIs
<1> HIDE DEF x, n, l
<1>2. ASSUME NEW i \in 1 .. n + l PROVE x[i] \in ToSet(q) \cup ToSet(r)
  <2>1. CASE i \in 1 .. n
    BY <1>1, <2>1 DEF ToSet
  <2>2. CASE i \notin 1 .. n
    <3>1. i - n \in 1 .. l /\ i = n + (i - n)
      BY <1>1, <2>2
    <3> QED
      BY <1>1, <3>1 DEF ToSet
  <2> QED
    BY <2>1, <2>2
<1>3. ToSet(x) \subseteq ToSet(q) \cup ToSet(r)
  BY <1>1, <1>2 DEF ToSet
<1>4. ToSet(q) \subseteq ToSet(x)
  <2>1. \A i \in 1 .. n : i \in 1 .. n + l
    BY <1>1
  <2> QED
    BY <1>1, <2>1 DEF ToSet
<1>5. ToSet(r) \subseteq ToSet(x)
  <2>1. \A i \in 1 .. l : n + i \in 1 .. n + l
    BY <1>1
  <2> QED
    BY <1>1, <2>1 DEF ToSet
<1> QED
  BY <1>3, <1>4, <1>5 DEF x

LEMMA ToSetAppend ==
    ASSUME NEW S, NEW q \in Seq(S), NEW x \in S
    PROVE  ToSet(Append(q, x)) = ToSet(q) \cup {x}
<1> DEFINE n == Len(q)
           r == Append(q, x)
<1>1. /\ n \in Nat /\ DOMAIN q = 1 .. n /\ DOMAIN r = 1 .. n + 1 /\ r[n + 1] = x
      /\ \A i \in 1 .. n : r[i] = q[i]
  OBVIOUS
<1> HIDE DEF n, r
<1>2. \A i \in 1 .. n + 1 : i \in 1 .. n \/ i = n + 1
  BY <1>1
<1>3. n + 1 \in 1 .. n + 1 /\ \A i \in 1 .. n : i \in 1 .. n + 1
  BY <1>1
<1>4. ToSet(r) = ToSet(q) \cup {x}
  BY <1>1, <1>2, <1>3 DEF ToSet
<1> QED
  BY <1>4 DEF r

LEMMA ToSetHead ==
    ASSUME NEW S, NEW q \in Seq(S), q # <<>>
    PROVE  ToSet(q) = {Head(q)} \cup ToSet(Tail(q))
<1> DEFINE n == Len(q)
           t == Tail(q)
<1>1. /\ n \in Nat /\ n >= 1 /\ DOMAIN q = 1 .. n /\ DOMAIN t = 1 .. (n - 1)
      /\ \A i \in 1 .. (n - 1) : t[i] = q[i + 1]
      /\ Head(q) = q[1]
  OBVIOUS
<1> HIDE DEF n, t
<1>2. ASSUME NEW i \in 1 .. n PROVE q[i] \in {q[1]} \cup ToSet(t)
  <2>1. CASE i # 1
    <3>1. i - 1 \in 1 .. (n - 1) /\ t[i - 1] = q[i]
      BY <1>1, <2>1
    <3> QED
      BY <1>1, <3>1 DEF ToSet
  <2> QED
    BY <2>1
<1>3. 1 \in 1 .. n /\ \A i \in 1 .. (n - 1) : i + 1 \in 1 .. n
  BY <1>1
<1>4. ToSet(t) \subseteq ToSet(q)
  BY <1>1, <1>3 DEF ToSet
<1>5. q[1] \in ToSet(q)
  BY <1>1, <1>3 DEF ToSet
<1>6. ToSet(q) \subseteq {q[1]} \cup ToSet(t)
  BY <1>1, <1>2 DEF ToSet
<1>7. ToSet(q) = {q[1]} \cup ToSet(t)
  BY <1>4, <1>5, <1>6
<1> QED
  BY <1>1, <1>7 DEF t

(* What is left of a queue without one of its members. *)
Parts(q, i, b, a) == q = b \o (<<q[i]>> \o a) /\ RemoveAt(q, i) = b \o a

LEMMA Removed ==
    ASSUME NEW S, NEW q \in Seq(S), NEW i \in DOMAIN q
    PROVE  q[i] \in S /\ \E b, a \in Seq(S) : Parts(q, i, b, a)
<1> DEFINE n == Len(q)
           s == <<q[i]>>
           b == SubSeq(q, 1, i - 1)
           a == SubSeq(q, i + 1, n)
<1>1. n \in Nat /\ i \in 1 .. n /\ DOMAIN q = 1 .. n /\ \A j \in 1 .. n : q[j] \in S
  OBVIOUS
<1>2. RemoveAt(q, i) = b \o a
  BY DEF RemoveAt
<1> HIDE DEF n
<1>3. b \in Seq(S) /\ Len(b) = i - 1 /\ \A j \in 1 .. i - 1 : b[j] = q[j]
  BY <1>1
<1>4. a \in Seq(S) /\ Len(a) = n - i /\ \A j \in 1 .. n - i : a[j] = q[i + j]
  BY <1>1, SMTT(30)
<1> HIDE DEF a, b
<1>5. s \in Seq(S) /\ Len(s) = 1 /\ s[1] = q[i] /\ q[i] \in S
  BY <1>1
<1> HIDE DEF s
<1>6. PICK x \in Seq(S) : /\ x = s \o a /\ Len(x) = n - i + 1 /\ x[1] = q[i]
                         /\ \A j \in 1 .. n - i : x[1 + j] = a[j]
  <2>1. 1 + (n - i) = n - i + 1 /\ 1 \in 1 .. 1
    BY <1>1
  <2>0. a \in Seq(S) /\ s \in Seq(S)
    BY <1>4, <1>5
  <2>2. /\ s \o a \in Seq(S) /\ Len(s \o a) = Len(s) + Len(a)
        /\ \A j \in 1 .. Len(s) : (s \o a)[j] = s[j]
        /\ \A j \in 1 .. Len(a) : (s \o a)[Len(s) + j] = a[j]
    BY ONLY <2>0, CatIs
  <2>3. (s \o a)[1] = s[1] /\ \A j \in 1 .. n - i : (s \o a)[1 + j] = a[j]
    BY <1>4, <1>5, <2>1, <2>2
  <2>4. Len(s \o a) = n - i + 1
    BY <1>4, <1>5, <2>1, <2>2
  <2> QED
    BY <1>5, <2>2, <2>3, <2>4
<1>7. PICK y \in Seq(S) : /\ y = b \o x /\ Len(y) = n /\ (\A j \in 1 .. i - 1 : y[j] = b[j])
                         /\ \A j \in 1 .. n - i + 1 : y[i - 1 + j] = x[j]
  <2>1. i - 1 + (n - i + 1) = n
    BY <1>1
  <2>0. b \in Seq(S) /\ x \in Seq(S)
    BY <1>3, <1>6
  <2>2. /\ b \o x \in Seq(S) /\ Len(b \o x) = Len(b) + Len(x)
        /\ \A j \in 1 .. Len(b) : (b \o x)[j] = b[j]
        /\ \A j \in 1 .. Len(x) : (b \o x)[Len(b) + j] = x[j]
    BY ONLY <2>0, CatIs
  <2>3. Len(b \o x) = n
    BY <1>1, <1>3, <1>6, <2>1, <2>2
  <2>4. (\A j \in 1 .. i - 1 : (b \o x)[j] = b[j]) /\ \A j \in 1 .. n - i + 1 : (b \o x)[i - 1 + j] = x[j]
    BY <1>3, <1>6, <2>2
  <2> QED
    BY <2>2, <2>3, <2>4
<1>8. ASSUME NEW j \in 1 .. n PROVE y[j] = q[j]
  <2>1. CASE j < i
    <3>1. j \in 1 .. i - 1
      BY <1>1, <2>1
    <3> QED
      BY <1>3, <1>7, <3>1
  <2>2. CASE j = i
    <3>1. 1 \in 1 .. n - i + 1 /\ i - 1 + 1 = i
      BY <1>1
    <3>2. y[i - 1 + 1] = x[1]
      BY <1>7, <3>1
    <3> QED
      BY <1>6, <2>2, <3>1, <3>2
  <2>3. CASE j > i
    <3>1. j - i \in 1 .. n - i /\ i + (j - i) = j /\ 1 + (j - i) \in 1 .. n - i + 1 /\ i - 1 + (1 + (j - i)) = j
      BY <1>1, <2>3
    <3>2. y[i - 1 + (1 + (j - i))] = x[1 + (j - i)]
      BY <1>7, <3>1
    <3>3. x[1 + (j - i)] = a[j - i] /\ a[j - i] = q[i + (j - i)]
      BY <1>4, <1>6, <3>1
    <3> QED
      BY <3>1, <3>2, <3>3
  <2> QED
    BY <1>1, <2>1, <2>2, <2>3
<1>9. q = y
  BY <1>1, <1>7, <1>8, SameSeq DEF n
<1> QED
  BY <1>2, <1>3, <1>4, <1>5, <1>6, <1>7, <1>9 DEF s, Parts

LEMMA ToSetFew ==
    /\ ToSet(<<>>) = {}
    /\ \A x : ToSet(<<x>>) = {x}
    /\ \A x, y : ToSet(<<x, y>>) = {x, y}
<1>1. \A x : DOMAIN <<x>> = {1} /\ <<x>>[1] = x
  OBVIOUS
<1>2. \A x, y : DOMAIN <<x, y>> = {1, 2} /\ <<x, y>>[1] = x /\ <<x, y>>[2] = y
  OBVIOUS
<1> QED
  BY <1>1, <1>2 DEF ToSet

LEMMA Empty == <<>> \in Seq(Message) /\ <<>> \in Seq(Frame) /\ <<>> \in Seq(Down) /\ <<>> \in Seq(1 .. MaxOps)
OBVIOUS

LEMMA PlainType ==
    ASSUME NEW ms \in Seq(Message)
    PROVE  /\ Plain(ms) \in Seq(Frame) /\ Bodies(Plain(ms)) = ms
           /\ DOMAIN Plain(ms) = DOMAIN ms /\ \A i \in DOMAIN ms : Plain(ms)[i].sec = 0
<1>1. DOMAIN ms = 1 .. Len(ms) /\ Len(ms) \in Nat
  OBVIOUS
<1>2. \A i \in 1 .. Len(ms) : [m |-> ms[i], sec |-> 0] \in Frame
  BY TransportAssumption DEF Frame
<1>3. Plain(ms) \in [1 .. Len(ms) -> Frame]
  BY <1>1, <1>2 DEF Plain
<1>4. Plain(ms) \in Seq(Frame) /\ DOMAIN Plain(ms) = DOMAIN ms
  BY <1>1, <1>3, FunctionIsSeq
<1>5. \A i \in DOMAIN ms : Plain(ms)[i].m = ms[i] /\ Plain(ms)[i].sec = 0
  BY DEF Plain
<1>6. ms = [i \in DOMAIN ms |-> ms[i]]
  OBVIOUS
<1> QED
  BY <1>4, <1>5, <1>6 DEF Bodies

LEMMA BodyType ==
    ASSUME NEW fs \in Seq(Frame)
    PROVE  Bodies(fs) \in Seq(Message) /\ Len(Bodies(fs)) = Len(fs) /\ DOMAIN Bodies(fs) = DOMAIN fs
           /\ \A i \in 1 .. Len(fs) : Bodies(fs)[i] = fs[i].m
<1>1. DOMAIN fs = 1 .. Len(fs) /\ Len(fs) \in Nat /\ \A i \in DOMAIN fs : fs[i] \in Frame
  OBVIOUS
<1>2. Bodies(fs) \in [1 .. Len(fs) -> Message]
  BY <1>1 DEF Bodies, Frame
<1> QED
  BY <1>1, <1>2, FunctionIsSeq DEF Bodies

LEMMA BodyEmpty == Bodies(<<>>) = <<>>
BY DEF Bodies

LEMMA BodyCat ==
    ASSUME NEW fs \in Seq(Frame), NEW gs \in Seq(Frame)
    PROVE  Bodies(fs \o gs) = Bodies(fs) \o Bodies(gs)
<1> DEFINE f == Len(fs)
           g == Len(gs)
           a == Bodies(fs \o gs)
           b == Bodies(fs) \o Bodies(gs)
<1>1. /\ fs \o gs \in Seq(Frame) /\ Len(fs \o gs) = f + g /\ f \in Nat /\ g \in Nat
      /\ \A i \in 1 .. f : (fs \o gs)[i] = fs[i]
      /\ \A i \in 1 .. g : (fs \o gs)[f + i] = gs[i]
  BY CatIs
<1>2. /\ Bodies(fs) \in Seq(Message) /\ Len(Bodies(fs)) = f
      /\ Bodies(gs) \in Seq(Message) /\ Len(Bodies(gs)) = g
      /\ \A i \in 1 .. f : Bodies(fs)[i] = fs[i].m
      /\ \A i \in 1 .. g : Bodies(gs)[i] = gs[i].m
  BY BodyType
<1>3. /\ a \in Seq(Message) /\ Len(a) = f + g
      /\ \A i \in 1 .. f + g : a[i] = (fs \o gs)[i].m
  BY <1>1, BodyType
<1>4. /\ b \in Seq(Message) /\ Len(b) = f + g
      /\ \A i \in 1 .. f : b[i] = Bodies(fs)[i]
      /\ \A i \in 1 .. g : b[f + i] = Bodies(gs)[i]
  <2> HIDE DEF f, g
  <2>1. PICK x \in Seq(Message) : x = Bodies(fs)
    BY <1>2
  <2>2. PICK y \in Seq(Message) : y = Bodies(gs)
    BY <1>2
  <2>3. x \o y \in Seq(Message) /\ Len(x \o y) = f + g
        /\ (\A i \in 1 .. f : (x \o y)[i] = x[i]) /\ \A i \in 1 .. g : (x \o y)[f + i] = y[i]
    BY <1>2, <2>1, <2>2, CatIs
  <2> QED
    BY <2>1, <2>2, <2>3
<1> HIDE DEF a, b, f, g
<1>5. ASSUME NEW i \in 1 .. f + g PROVE a[i] = b[i]
  <2>1. CASE i <= f
    <3>1. i \in 1 .. f
      BY <1>1, <2>1
    <3>2. a[i] = fs[i].m
      BY <1>1, <1>3, <3>1
    <3>3. b[i] = fs[i].m
      BY <1>2, <1>4, <3>1
    <3> QED
      BY <3>2, <3>3
  <2>2. CASE i > f
    <3> PICK j \in 1 .. g : i = f + j
      <4>1. i - f \in 1 .. g /\ i = f + (i - f)
        BY <1>1, <2>2
      <4> QED
        BY <4>1
    <3>1. a[i] = gs[j].m
      BY <1>1, <1>3
    <3>2. b[i] = gs[j].m
      BY <1>2, <1>4
    <3> QED
      BY <3>1, <3>2
  <2> QED
    BY <1>1, <2>1, <2>2
<1>6. a = b
  BY <1>3, <1>4, <1>5, SameSeq
<1> QED
  BY <1>6 DEF a, b

(* The sessions that are followed, each attached once. *)
LEMMA AttachesType ==
    ASSUME attachedIds \subseteq Session
    PROVE  /\ Attaches \in Seq(Message)
           /\ \A i \in DOMAIN Attaches : Attaches[i].k = "attach" /\ Attaches[i].of \in attachedIds
           /\ \A s \in attachedIds : \E i \in DOMAIN Attaches :
                 Attaches[i].of = s /\ \A j \in DOMAIN Attaches : j # i => Attaches[j].of # s
<1> DEFINE n == Cardinality(attachedIds)
           ids == SetToSeq(attachedIds)
<1>1. IsFiniteSet(attachedIds)
  BY TransportAssumption, FS_Subset
<1>2. n \in Nat /\ ExistsBijection(1 .. n, attachedIds)
  BY <1>1, FS_CardinalityType
<1>3. \E f \in [1 .. n -> attachedIds] : IsInjective(f)
  BY <1>2 DEF ExistsBijection, Bijection, Injection
<1>4. ids \in [1 .. n -> attachedIds] /\ IsInjective(ids)
  BY <1>3 DEF SetToSeq
<1>5. Cardinality(1 .. n) = n /\ IsFiniteSet(1 .. n)
  BY <1>2, FS_Interval
<1>6. ids \in Injection(1 .. n, attachedIds)
  BY <1>4 DEF Injection
<1>7. ids \in Surjection(1 .. n, attachedIds)
  BY <1>1, <1>5, <1>6, FS_Injection
<1>8. Attaches = [i \in DOMAIN ids |-> [k |-> "attach", of |-> ids[i]]]
  BY DEF Attaches
<1>9. DOMAIN ids = 1 .. n /\ DOMAIN Attaches = 1 .. n
  BY <1>4, <1>8
<1>10. \A i \in 1 .. n : ids[i] \in attachedIds /\ Attaches[i] = [k |-> "attach", of |-> ids[i]]
  BY <1>4, <1>8
<1> HIDE DEF ids, n
<1>11. \A i \in 1 .. n : Attaches[i] \in Message
  BY <1>10, Messages
<1>12. Attaches \in [1 .. n -> Message]
  BY <1>8, <1>9, <1>11
<1>13. Attaches \in Seq(Message)
  BY <1>2, <1>12, FunctionIsSeq
<1>14. \A s \in attachedIds : \E i \in 1 .. n : ids[i] = s
  BY <1>7 DEF Surjection
<1>15. \A i, j \in 1 .. n : i # j => ids[i] # ids[j]
  BY <1>4, <1>9 DEF IsInjective
<1> QED
  BY <1>9, <1>10, <1>13, <1>14, <1>15

-----------------------------------------------------------------------------
(* Ops in a queue *)

(* The ops of a queue are in the order they were sent. *)
InOrder(q) == \A i, j \in DOMAIN q : i < j /\ q[i].k = "op" /\ q[j].k = "op" => q[i].of < q[j].of
Before(A, B) == \A x \in A, y \in B : x < y
(* A queue without business messages. *)
Idle(q) == \A i \in DOMAIN q : ~Business(q[i])

LEMMA OpsType ==
    ASSUME NEW q \in Seq(Message)
    PROVE  OpsOf(q) \subseteq 1 .. MaxOps
<1>1. \A i \in DOMAIN q : q[i] \in Message
  OBVIOUS
<1> QED
  BY <1>1, MessageType DEF OpsOf

LEMMA EmptyQueue == OpsOf(<<>>) = {} /\ InOrder(<<>>) /\ Idle(<<>>)
BY DEF OpsOf, InOrder, Idle

LEMMA OneMessage ==
    ASSUME NEW m \in Message
    PROVE  /\ OpsOf(<<m>>) = IF m.k = "op" THEN {m.of} ELSE {}
           /\ InOrder(<<m>>)
           /\ Idle(<<m>>) <=> ~Business(m)
BY DEF OpsOf, InOrder, Idle

(* A queue without an op twice. *)
Once(q) == \A i, j \in DOMAIN q : i # j /\ q[i].k = "op" /\ q[j].k = "op" => q[i].of # q[j].of

LEMMA OnceFew == Once(<<>>) /\ \A m : Once(<<m>>)
BY DEF Once

LEMMA OnceCat ==
    ASSUME NEW q \in Seq(Message), NEW r \in Seq(Message)
    PROVE  Once(q \o r) <=> Once(q) /\ Once(r) /\ OpsOf(q) \cap OpsOf(r) = {}
<1> DEFINE x == q \o r
           n == Len(q)
           l == Len(r)
<1>1. /\ n \in Nat /\ l \in Nat /\ DOMAIN q = 1 .. n /\ DOMAIN r = 1 .. l /\ DOMAIN x = 1 .. n + l
      /\ (\A i \in 1 .. n : x[i] = q[i]) /\ \A i \in 1 .. l : x[n + i] = r[i]
  BY CatIs
<1> HIDE DEF x, n, l
<1>2. \A i \in 1 .. n + l : i \in 1 .. n \/ \E j \in 1 .. l : i = n + j
  <2> SUFFICES ASSUME NEW i \in 1 .. n + l, i \notin 1 .. n PROVE \E j \in 1 .. l : i = n + j
    OBVIOUS
  <2>1. i - n \in 1 .. l /\ i = n + (i - n)
    BY <1>1
  <2> QED
    BY <2>1
<1>3. /\ \A i \in 1 .. n : i \in 1 .. n + l
      /\ \A i \in 1 .. l : n + i \in 1 .. n + l /\ n + i \notin 1 .. n
  BY <1>1
<1>4. ASSUME Once(x) PROVE Once(q) /\ Once(r) /\ OpsOf(q) \cap OpsOf(r) = {}
  <2>1. Once(q)
    BY <1>1, <1>3, <1>4 DEF Once
  <2>2. Once(r)
    <3> SUFFICES ASSUME NEW i \in 1 .. l, NEW j \in 1 .. l, i # j, r[i].k = "op", r[j].k = "op"
                 PROVE  r[i].of # r[j].of
      BY <1>1 DEF Once
    <3>1. n + i # n + j
      BY <1>1
    <3>2. x[n + i] = r[i] /\ x[n + j] = r[j] /\ n + i \in DOMAIN x /\ n + j \in DOMAIN x
      BY <1>1, <1>3
    <3> QED
      BY <1>4, <3>1, <3>2 DEF Once
  <2>3. ASSUME NEW i \in 1 .. n, NEW j \in 1 .. l, q[i].k = "op", r[j].k = "op" PROVE q[i].of # r[j].of
    <3>1. i # n + j /\ i \in DOMAIN x /\ n + j \in DOMAIN x /\ x[i] = q[i] /\ x[n + j] = r[j]
      BY <1>1, <1>3
    <3> QED
      BY <1>4, <2>3, <3>1 DEF Once
  <2>4. OpsOf(q) \cap OpsOf(r) = {}
    BY <1>1, <2>3 DEF OpsOf
  <2> QED
    BY <2>1, <2>2, <2>4
<1>5. ASSUME Once(q), Once(r), OpsOf(q) \cap OpsOf(r) = {} PROVE Once(x)
  <2>0. ASSUME NEW i \in 1 .. n, NEW j \in 1 .. l, q[i].k = "op", r[j].k = "op" PROVE q[i].of # r[j].of
    <3>1. q[i].of \in OpsOf(q) /\ r[j].of \in OpsOf(r)
      BY <1>1, <2>0 DEF OpsOf
    <3> QED
      BY <1>5, <3>1
  <2>1. SUFFICES ASSUME NEW i \in 1 .. n + l, NEW j \in 1 .. n + l, i # j, x[i].k = "op", x[j].k = "op"
                 PROVE  x[i].of # x[j].of
    BY <1>1 DEF Once
  <2>2. CASE i \in 1 .. n /\ j \in 1 .. n
    BY <1>1, <1>5, <2>1, <2>2 DEF Once
  <2>3. CASE i \in 1 .. n /\ j \notin 1 .. n
    <3> PICK b \in 1 .. l : j = n + b
      BY <1>2, <2>3
    <3> QED
      BY <1>1, <2>0, <2>1, <2>3
  <2>4. CASE i \notin 1 .. n /\ j \in 1 .. n
    <3> PICK a \in 1 .. l : i = n + a
      BY <1>2, <2>4
    <3> QED
      BY <1>1, <2>0, <2>1, <2>4
  <2>5. CASE i \notin 1 .. n /\ j \notin 1 .. n
    <3>1. PICK a \in 1 .. l : i = n + a
      BY <1>2, <2>5
    <3>2. PICK b \in 1 .. l : j = n + b
      BY <1>2, <2>5
    <3>3. a # b /\ x[i] = r[a] /\ x[j] = r[b]
      BY <1>1, <2>1, <3>1, <3>2
    <3>4. \A g, h \in 1 .. l : g # h /\ r[g].k = "op" /\ r[h].k = "op" => r[g].of # r[h].of
      BY <1>1, <1>5 DEF Once
    <3> QED
      BY <2>1, <3>3, <3>4
  <2> QED
    BY <2>2, <2>3, <2>4, <2>5
<1> QED
  BY <1>4, <1>5 DEF x

LEMMA IdleHasNoOps ==
    ASSUME NEW q \in Seq(Message), Idle(q)
    PROVE  OpsOf(q) = {} /\ InOrder(q)
BY DEF Idle, Business, OpsOf, InOrder

LEMMA OpsCat ==
    ASSUME NEW q \in Seq(Message), NEW r \in Seq(Message)
    PROVE  /\ OpsOf(q \o r) = OpsOf(q) \cup OpsOf(r)
           /\ Idle(q \o r) <=> Idle(q) /\ Idle(r)
           /\ InOrder(q \o r) <=> InOrder(q) /\ InOrder(r) /\ Before(OpsOf(q), OpsOf(r))
<1> DEFINE x == q \o r
           n == Len(q)
           l == Len(r)
<1>1. /\ n \in Nat /\ l \in Nat /\ DOMAIN q = 1 .. n /\ DOMAIN r = 1 .. l /\ DOMAIN x = 1 .. n + l
      /\ (\A i \in 1 .. n : x[i] = q[i]) /\ \A i \in 1 .. l : x[n + i] = r[i]
  BY CatIs
<1> HIDE DEF x, n, l
<1>2. \A i \in 1 .. n + l : i \in 1 .. n \/ \E j \in 1 .. l : i = n + j
  <2> SUFFICES ASSUME NEW i \in 1 .. n + l, i \notin 1 .. n PROVE \E j \in 1 .. l : i = n + j
    OBVIOUS
  <2>1. i - n \in 1 .. l /\ i = n + (i - n)
    BY <1>1
  <2> QED
    BY <2>1
<1>3. \A i \in 1 .. n : i \in 1 .. n + l
  BY <1>1
<1>4. \A i \in 1 .. l : n + i \in 1 .. n + l
  BY <1>1
<1>5. OpsOf(x) = OpsOf(q) \cup OpsOf(r)
  <2>1. ASSUME NEW i \in 1 .. n + l, x[i].k = "op" PROVE x[i].of \in OpsOf(q) \cup OpsOf(r)
    <3>1. CASE i \in 1 .. n
      BY <1>1, <2>1, <3>1 DEF OpsOf
    <3>2. ASSUME NEW j \in 1 .. l, i = n + j PROVE x[i].of \in OpsOf(r)
      BY <1>1, <2>1, <3>2 DEF OpsOf
    <3> QED
      BY <1>2, <3>1, <3>2
  <2>2. OpsOf(q) \subseteq OpsOf(x)
    BY <1>1, <1>3 DEF OpsOf
  <2>3. OpsOf(r) \subseteq OpsOf(x)
    BY <1>1, <1>4 DEF OpsOf
  <2>4. OpsOf(x) \subseteq OpsOf(q) \cup OpsOf(r)
    BY <1>1, <2>1, SMTT(20) DEF OpsOf
  <2> QED
    BY <2>2, <2>3, <2>4
<1>6. Idle(x) <=> Idle(q) /\ Idle(r)
  <2>1. Idle(x) => Idle(q)
    BY <1>1, <1>3 DEF Idle
  <2>2. Idle(x) => Idle(r)
    BY <1>1, <1>4 DEF Idle
  <2>3. ASSUME Idle(q), Idle(r), NEW i \in 1 .. n + l PROVE ~Business(x[i])
    <3>1. CASE i \in 1 .. n
      BY <1>1, <2>3, <3>1 DEF Idle
    <3>2. ASSUME NEW j \in 1 .. l, i = n + j PROVE ~Business(x[i])
      BY <1>1, <2>3, <3>2 DEF Idle
    <3> QED
      BY <1>2, <3>1, <3>2
  <2>4. Idle(q) /\ Idle(r) => Idle(x)
    BY <1>1, <2>3 DEF Idle
  <2> QED
    BY <2>1, <2>2, <2>4
<1>7. ASSUME InOrder(x) PROVE InOrder(q) /\ InOrder(r) /\ Before(OpsOf(q), OpsOf(r))
  <2>1. InOrder(q)
    BY <1>1, <1>3, <1>7 DEF InOrder
  <2>2. InOrder(r)
    <3> SUFFICES ASSUME NEW i \in 1 .. l, NEW j \in 1 .. l, i < j, r[i].k = "op", r[j].k = "op"
                 PROVE  r[i].of < r[j].of
      BY <1>1 DEF InOrder
    <3>1. n + i < n + j
      BY <1>1
    <3>2. x[n + i] = r[i] /\ x[n + j] = r[j] /\ n + i \in DOMAIN x /\ n + j \in DOMAIN x
      BY <1>1, <1>4
    <3> QED
      BY <1>7, <3>1, <3>2 DEF InOrder
  <2>3. Before(OpsOf(q), OpsOf(r))
    <3> SUFFICES ASSUME NEW i \in 1 .. n, NEW j \in 1 .. l, q[i].k = "op", r[j].k = "op"
                 PROVE  q[i].of < r[j].of
      BY <1>1 DEF Before, OpsOf
    <3>1. i < n + j
      BY <1>1
    <3>2. x[i] = q[i] /\ x[n + j] = r[j] /\ i \in DOMAIN x /\ n + j \in DOMAIN x
      BY <1>1, <1>3, <1>4
    <3> QED
      BY <1>7, <3>1, <3>2 DEF InOrder
  <2> QED
    BY <2>1, <2>2, <2>3
<1>8. ASSUME InOrder(q), InOrder(r), Before(OpsOf(q), OpsOf(r)) PROVE InOrder(x)
  <2> SUFFICES ASSUME NEW i \in DOMAIN x, NEW j \in DOMAIN x, i < j, x[i].k = "op", x[j].k = "op"
               PROVE  x[i].of < x[j].of
    BY DEF InOrder
  <2>1. CASE i \in 1 .. n /\ j \in 1 .. n
    BY <1>1, <1>8, <2>1 DEF InOrder
  <2>2. CASE i \in 1 .. n /\ j \notin 1 .. n
    <3> PICK b \in 1 .. l : j = n + b
      BY <1>1, <1>2, <2>2
    <3>1. q[i].of \in OpsOf(q) /\ r[b].of \in OpsOf(r)
      BY <1>1, <2>2 DEF OpsOf
    <3> QED
      BY <1>1, <1>8, <2>2, <3>1 DEF Before
  <2>3. CASE i \notin 1 .. n
    <3>1. PICK a \in 1 .. l : i = n + a
      BY <1>1, <1>2, <2>3
    <3>2. j \notin 1 .. n
      BY <1>1, <3>1
    <3>3. PICK b \in 1 .. l : j = n + b
      BY <1>1, <1>2, <3>2
    <3>4. a < b
      BY <1>1, <3>1, <3>3
    <3>5. x[i] = r[a] /\ x[j] = r[b]
      BY <1>1, <3>1, <3>3
    <3>6. r[a].of < r[b].of
      <4>1. \A g, h \in 1 .. l : g < h /\ r[g].k = "op" /\ r[h].k = "op" => r[g].of < r[h].of
        BY <1>1, <1>8 DEF InOrder
      <4> QED
        BY <3>4, <3>5, <4>1
    <3> QED
      BY <3>5, <3>6
  <2> QED
    BY <2>1, <2>2, <2>3
<1> QED
  BY <1>5, <1>6, <1>7, <1>8 DEF x

-----------------------------------------------------------------------------
(* What a queue does to a session *)

About(m, s) == m.k \in {"attach", "detach"} /\ m.of = s

(* No message of the queue is about s, or the last one about it attaches it. *)
Untold(q, s) == \A i \in DOMAIN q : ~About(q[i], s)
AttachedLast(q, s) ==
    \E i \in DOMAIN q : q[i].k = "attach" /\ q[i].of = s /\ \A j \in DOMAIN q : j > i => ~About(q[j], s)

(* Whether s is followed after the messages of a queue, if it was when b. *)
After(q, s, b) == (b /\ Untold(q, s)) \/ AttachedLast(q, s)

LEMMA ToldNone == \A s : Untold(<<>>, s) /\ ~AttachedLast(<<>>, s)
BY DEF Untold, AttachedLast

LEMMA ToldOne ==
    ASSUME NEW m, NEW s
    PROVE  /\ Untold(<<m>>, s) <=> ~About(m, s)
           /\ AttachedLast(<<m>>, s) <=> m.k = "attach" /\ m.of = s
<1>1. DOMAIN <<m>> = {1} /\ <<m>>[1] = m
  OBVIOUS
<1> QED
  BY <1>1 DEF Untold, AttachedLast

LEMMA ToldIdle ==
    ASSUME NEW q, Idle(q), NEW s
    PROVE  Untold(q, s) /\ ~AttachedLast(q, s)
BY DEF Untold, AttachedLast, Idle, Business, About

LEMMA ToldCat ==
    ASSUME NEW q \in Seq(Message), NEW r \in Seq(Message), NEW s
    PROVE  /\ Untold(q \o r, s) <=> Untold(q, s) /\ Untold(r, s)
           /\ AttachedLast(q \o r, s) <=> (AttachedLast(q, s) /\ Untold(r, s)) \/ AttachedLast(r, s)
<1> DEFINE x == q \o r
           n == Len(q)
           l == Len(r)
           Silent(p) == \A i \in DOMAIN p : ~About(p[i], s)
           Final(p, i) == p[i].k = "attach" /\ p[i].of = s /\ \A j \in DOMAIN p : j > i => ~About(p[j], s)
<1>1. /\ n \in Nat /\ l \in Nat /\ DOMAIN q = 1 .. n /\ DOMAIN r = 1 .. l /\ DOMAIN x = 1 .. n + l
      /\ (\A i \in 1 .. n : x[i] = q[i]) /\ \A i \in 1 .. l : x[n + i] = r[i]
  BY CatIs
<1> HIDE DEF x, n, l
<1>2. \A i \in 1 .. n + l : i \in 1 .. n \/ \E j \in 1 .. l : i = n + j
  <2> SUFFICES ASSUME NEW i \in 1 .. n + l, i \notin 1 .. n PROVE \E j \in 1 .. l : i = n + j
    OBVIOUS
  <2>1. i - n \in 1 .. l /\ i = n + (i - n)
    BY <1>1
  <2> QED
    BY <2>1
<1>3. \A i \in 1 .. n : i \in 1 .. n + l
  BY <1>1
<1>4. \A i \in 1 .. l : n + i \in 1 .. n + l
  BY <1>1
<1>5. Silent(x) <=> Silent(q) /\ Silent(r)
  <2>1. Silent(x) => Silent(q)
    BY <1>1, <1>3
  <2>2. Silent(x) => Silent(r)
    BY <1>1, <1>4
  <2>3. ASSUME Silent(q), Silent(r), NEW i \in 1 .. n + l PROVE ~About(x[i], s)
    <3>1. CASE i \in 1 .. n
      BY <1>1, <2>3, <3>1
    <3>2. ASSUME NEW j \in 1 .. l, i = n + j PROVE ~About(x[i], s)
      BY <1>1, <2>3, <3>2
    <3> QED
      BY <1>2, <3>1, <3>2
  <2>4. Silent(q) /\ Silent(r) => Silent(x)
    BY <1>1, <2>3
  <2> QED
    BY <2>1, <2>2, <2>4
<1>6. ASSUME NEW i \in 1 .. n PROVE Final(x, i) <=> Final(q, i) /\ Silent(r)
  <2>1. ASSUME Final(x, i) PROVE Final(q, i)
    BY <1>1, <1>3, <2>1
  <2>2. ASSUME Final(x, i), NEW j \in 1 .. l PROVE ~About(r[j], s)
    <3>1. n + j > i /\ n + j \in DOMAIN x /\ x[n + j] = r[j]
      BY <1>1, <1>4
    <3> QED
      BY <2>2, <3>1
  <2>3. ASSUME Final(q, i), Silent(r), NEW j \in 1 .. n + l, j > i PROVE ~About(x[j], s)
    <3>1. CASE j \in 1 .. n
      BY <1>1, <2>3, <3>1
    <3>2. ASSUME NEW k \in 1 .. l, j = n + k PROVE ~About(x[j], s)
      BY <1>1, <2>3, <3>2
    <3> QED
      BY <1>2, <3>1, <3>2
  <2>4. Final(x, i) => Silent(r)
    BY <1>1, <2>2
  <2>5. Final(q, i) /\ Silent(r) => Final(x, i)
    BY <1>1, <2>3
  <2> QED
    BY <2>1, <2>4, <2>5
<1>7. ASSUME NEW i \in 1 .. l PROVE Final(x, n + i) <=> Final(r, i)
  <2>1. ASSUME Final(x, n + i), NEW j \in 1 .. l, j > i PROVE ~About(r[j], s)
    <3>1. n + j > n + i /\ n + j \in DOMAIN x /\ x[n + j] = r[j]
      BY <1>1, <1>4, <2>1
    <3> QED
      BY <2>1, <3>1
  <2>2. ASSUME Final(r, i), NEW j \in 1 .. n + l, j > n + i PROVE ~About(x[j], s)
    <3>1. j \notin 1 .. n
      BY <1>1, <2>2
    <3>2. PICK k \in 1 .. l : j = n + k
      BY <1>2, <3>1
    <3>3. k > i /\ x[j] = r[k]
      BY <1>1, <2>2, <3>2
    <3> QED
      BY <1>1, <2>2, <3>3
  <2>3. x[n + i] = r[i]
    BY <1>1
  <2>4. Final(x, n + i) => Final(r, i)
    BY <1>1, <2>1, <2>3
  <2>5. Final(r, i) => Final(x, n + i)
    BY <1>1, <2>2, <2>3
  <2> QED
    BY <2>4, <2>5
<1>8. (\E i \in 1 .. n + l : Final(x, i)) <=>
      ((\E i \in 1 .. n : Final(q, i)) /\ Silent(r)) \/ \E i \in 1 .. l : Final(r, i)
  <2> HIDE DEF Final, Silent
  <2> QED
    BY <1>2, <1>3, <1>4, <1>6, <1>7
<1>9. Untold(x, s) <=> Untold(q, s) /\ Untold(r, s)
  BY <1>5 DEF Untold
<1>10. AttachedLast(x, s) <=> (AttachedLast(q, s) /\ Untold(r, s)) \/ AttachedLast(r, s)
  BY <1>1, <1>8 DEF AttachedLast, Untold
<1> QED
  BY <1>9, <1>10 DEF x

-----------------------------------------------------------------------------
(* Types *)

(* An attempt is counted before its connection is made. *)
TypeInv ==
    /\ TypeOK
    /\ conn # 0 /\ attempts <= conn /\ (~timer /\ ~disposed => attempts < conn)

LEMMA Constants ==
    /\ Cap \in Nat /\ MaxOps \in Nat /\ MaxConns \in Nat /\ MaxConns >= 1
    /\ \A n \in 0 .. MaxConns : n \in Nat
    /\ \A n \in 0 .. MaxOps : n \in Nat
BY TransportAssumption

LEMMA SendRawType ==
    ASSUME TypeOK, NEW ms \in Seq(Message), SendRaw(ms)
    PROVE  up' \in Seq(Frame) /\ sealing' \in Seq(Message) /\ outbox' \in Seq(Message)
<1>1. sealing \in Seq(Message) /\ outbox \in Seq(Message) /\ up \in Seq(Frame)
  BY DEF TypeOK
<1>2. sealing \o ms \in Seq(Message) /\ outbox \o ms \in Seq(Message)
  BY <1>1, CatIs
<1>3. up \o Plain(ms) \in Seq(Frame)
  BY <1>1, PlainType, CatIs
<1> QED
  BY <1>1, <1>2, <1>3 DEF SendRaw

LEMMA ScheduleReconnectType ==
    ASSUME TypeInv, NEW g \in {"connecting", "ready", "denied", "revoked"}, ScheduleReconnect(g),
           UNCHANGED <<conn, disposed>>
    PROVE  /\ gate' \in {"connecting", "ready", "denied", "revoked"} /\ timer' \in BOOLEAN
           /\ attempts' \in 0 .. MaxConns
           /\ conn' # 0 /\ attempts' <= conn' /\ (~timer' /\ ~disposed' => attempts' < conn')
<1>1. /\ attempts \in Nat /\ conn \in Nat /\ conn <= MaxConns /\ timer \in BOOLEAN
      /\ conn # 0 /\ attempts <= conn /\ (~timer /\ ~disposed => attempts < conn)
  BY Constants DEF TypeInv, TypeOK
<1>2. CASE timer' = TRUE /\ attempts' = attempts + 1 /\ gate' = g /\ ~timer /\ ~disposed
  <2>1. attempts + 1 \in 0 .. MaxConns /\ attempts + 1 <= conn
    BY <1>1, <1>2, Constants
  <2>2. conn' = conn /\ conn # 0
    BY <1>1
  <2>3. attempts' \in 0 .. MaxConns /\ attempts' <= conn'
    BY <1>2, <2>1, <2>2
  <2> QED
    BY <1>2, <2>2, <2>3
<1>3. CASE UNCHANGED <<timer, attempts>> /\ gate' \in {g, "denied"}
  BY <1>1, <1>3, Constants
<1> QED
  BY <1>2, <1>3 DEF ScheduleReconnect

LEMMA OnCloseType ==
    ASSUME TypeInv, NEW code \in {"plain", "denied", "revoked"}, OnClose(code)
    PROVE  TypeInv'
<1>1. gate \in {"connecting", "ready", "denied", "revoked"}
  BY DEF TypeInv, TypeOK
<1>2. UNCHANGED <<conn, disposed>>
  BY DEF OnClose
<1>3. /\ gate' \in {"connecting", "ready", "denied", "revoked"} /\ timer' \in BOOLEAN
      /\ attempts' \in 0 .. MaxConns
      /\ attempts' <= conn' /\ (~timer' /\ ~disposed' => attempts' < conn')
  <2>1. CASE Relay /\ code # "plain"
    BY <2>1 DEF OnClose, TypeInv, TypeOK
  <2>2. CASE ~(Relay /\ code # "plain")
    BY <1>1, <1>2, <2>2, ScheduleReconnectType DEF OnClose
  <2> QED
    BY <2>1, <2>2
<1>4. OpsOf(Bodies(up)) \subseteq 1 .. MaxOps
  BY BodyType, OpsType DEF TypeInv, TypeOK
<1>5. lost' = lost \cup OpsOf(Bodies(up))
  BY DEF OnClose, Bodies
<1> QED
  BY <1>2, <1>3, <1>4, <1>5, Empty DEF OnClose, TypeInv, TypeOK

LEMMA DisposeType ==
    ASSUME TypeInv, Dispose, answering' \in 0 .. MaxConns, deriving' \in 0 .. MaxConns
    PROVE  TypeInv'
<1>1. OpsOf(Bodies(up)) \subseteq 1 .. MaxOps
  BY BodyType, OpsType DEF TypeInv, TypeOK
<1>2. lost' = lost \cup OpsOf(Bodies(up))
  BY DEF Dispose, Bodies
<1> QED
  BY <1>1, <1>2, Empty DEF Dispose, TypeInv, TypeOK

LEMMA RelayAuthOkType ==
    ASSUME TypeInv, NEW k, RelayAuthOk(k), UNCHANGED <<conn, timer, disposed>>
    PROVE  /\ authed' \in BOOLEAN /\ gate' \in {"connecting", "ready", "denied", "revoked"}
           /\ attempts' \in 0 .. MaxConns /\ attempts' < conn' /\ attempts' <= conn' /\ conn' # 0
           /\ outbox' \in Seq(Message) /\ sealing' \in Seq(Message) /\ up' \in Seq(Frame)
<1>1. Attaches \in Seq(Message)
  BY AttachesType DEF TypeInv, TypeOK
<1>2. outbox \o Attaches \in Seq(Message)
  BY <1>1, CatIs DEF TypeInv, TypeOK
<1>3. Plain(outbox \o Attaches) \in Seq(Frame)
  BY <1>2, PlainType
<1>4. up \o Plain(outbox \o Attaches) \in Seq(Frame)
  BY <1>3, CatIs DEF TypeInv, TypeOK
<1>5. sealing \o outbox \o Attaches \in Seq(Message)
  BY <1>1, CatIs DEF TypeInv, TypeOK
<1>6. 0 < conn /\ 0 <= conn /\ conn # 0
  BY Constants DEF TypeInv, TypeOK
<1>7. attempts' = 0 /\ conn' = conn /\ gate' = "ready" /\ authed' = TRUE /\ outbox' = <<>>
  BY DEF RelayAuthOk
<1>8. sealing' \in Seq(Message) /\ up' \in Seq(Frame)
  <2>1. CASE k # 0
    BY <1>5, <2>1 DEF RelayAuthOk, TypeInv, TypeOK
  <2>2. CASE k = 0
    BY <1>4, <2>2 DEF RelayAuthOk, TypeInv, TypeOK
  <2> QED
    BY <2>1, <2>2
<1> QED
  BY <1>6, <1>7, <1>8, Constants, Empty

LEMMA SendType ==
    ASSUME TypeInv, Op \/ \E s \in Session : Attach(s) \/ Detach(s)
    PROVE  TypeInv'
<1>1. issued + 1 \in 1 .. MaxOps /\ issued + 1 \in 0 .. MaxOps
  <2>1. issued \in Nat /\ issued < MaxOps
    BY Constants DEF TypeInv, TypeOK, Op, Attach, Detach
  <2> QED
    BY <2>1, Constants
<1>2. CASE Op
  <2>1. <<[k |-> "op", of |-> issued + 1]>> \in Seq(Message)
    BY <1>1, Messages
  <2>2. up' \in Seq(Frame) /\ sealing' \in Seq(Message) /\ outbox' \in Seq(Message)
    BY <1>2, <2>1, SendRawType DEF Op, TypeInv
  <2> QED
    BY <1>1, <1>2, <2>2 DEF Op, TypeInv, TypeOK, theHost
<1>3. ASSUME NEW s \in Session, Attach(s) PROVE TypeInv'
  <2>1. <<[k |-> "attach", of |-> s]>> \in Seq(Message)
    <3>1. [k |-> "attach", of |-> s] \in Message
      BY Messages
    <3> QED
      BY <3>1
  <2>2. up' \in Seq(Frame) /\ sealing' \in Seq(Message) /\ outbox' \in Seq(Message)
    BY <1>3, <2>1, SendRawType DEF Attach, TypeInv
  <2> QED
    BY <1>1, <1>3, <2>2 DEF Attach, TypeInv, TypeOK, theHost
<1>4. ASSUME NEW s \in Session, Detach(s) PROVE TypeInv'
  <2>1. <<[k |-> "detach", of |-> s]>> \in Seq(Message)
    <3>1. [k |-> "detach", of |-> s] \in Message
      BY Messages
    <3> QED
      BY <3>1
  <2>2. up' \in Seq(Frame) /\ sealing' \in Seq(Message) /\ outbox' \in Seq(Message)
    BY <1>4, <2>1, SendRawType DEF Detach, TypeInv
  <2> QED
    BY <1>1, <1>4, <2>2 DEF Detach, TypeInv, TypeOK, theHost
<1> QED
  BY <1>2, <1>3, <1>4

LEMMA SealType ==
    ASSUME TypeInv, Seal
    PROVE  TypeInv'
<1>1. Head(sealing) \in Message /\ Tail(sealing) \in Seq(Message)
  BY HeadAndTail DEF Seal, TypeInv, TypeOK
<1>2. [m |-> Head(sealing), sec |-> key] \in Frame
  BY <1>1 DEF Frame, TypeInv, TypeOK
<1>3. up' \in Seq(Frame)
  <2>1. up \in Seq(Frame) /\ up' \in {up, Append(up, [m |-> Head(sealing), sec |-> key])}
    BY DEF Seal, TypeInv, TypeOK
  <2> QED
    BY <1>2, <2>1
<1>4. lost' \subseteq 1 .. MaxOps
  <2>1. <<Head(sealing)>> \in Seq(Message)
    BY <1>1
  <2> QED
    BY <2>1, OpsType DEF Seal, TypeInv, TypeOK
<1> QED
  BY <1>1, <1>3, <1>4 DEF Seal, TypeInv, TypeOK, theHost

LEMMA ConnectType ==
    ASSUME TypeInv, Connect
    PROVE  TypeInv'
<1>1. conn + 1 \in 0 .. MaxConns /\ conn + 1 # 0 /\ attempts < conn + 1
  BY Constants DEF Connect, TypeInv, TypeOK
<1>2. attempts \in 0 .. MaxConns /\ attempts <= conn + 1
  BY Constants DEF TypeInv, TypeOK
<1> QED
  BY <1>1, <1>2 DEF Connect, TypeInv, TypeOK, theHost, net

LEMMA OnOpenType ==
    ASSUME TypeInv, OnOpen
    PROVE  TypeInv'
<1>1. Attaches \in Seq(Message)
  BY AttachesType DEF TypeInv, TypeOK
<1>2. outbox \o Attaches \in Seq(Message)
  BY <1>1, CatIs DEF TypeInv, TypeOK
<1>3. Plain(outbox \o Attaches) \in Seq(Frame)
  BY <1>2, PlainType
<1>4. 0 < conn /\ 0 <= conn /\ 0 \in 0 .. MaxConns
  BY Constants DEF TypeInv, TypeOK
<1>5. CASE Relay /\ up' = <<[m |-> [k |-> "join", of |-> 0], sec |-> 0]>>
           /\ UNCHANGED <<outbox, attempts, phase, down>>
  <2>1. up' \in Seq(Frame)
    BY <1>4, <1>5, Messages DEF Frame
  <2> QED
    BY <1>4, <1>5, <2>1 DEF OnOpen, TypeInv, TypeOK
<1>6. CASE /\ up' = Plain(outbox \o Attaches) /\ outbox' = <<>> /\ attempts' = 0
           /\ phase' = "ok" /\ down' = <<[k |-> "ok", of |-> 0], [k |-> "tabs", of |-> sessions]>>
  <2>1. down' \in Seq(Down)
    <3>1. [k |-> "ok", of |-> 0] \in Down /\ [k |-> "tabs", of |-> sessions] \in Down
      BY Downs DEF TypeInv, TypeOK
    <3> QED
      BY <1>6, <3>1
  <2>2. /\ attempts' = 0 /\ outbox' \in Seq(Message) /\ up' \in Seq(Frame) /\ phase' = "ok"
        /\ key' = 0 /\ sock' = "open"
        /\ UNCHANGED <<timer, conn, gate, authed, disposed, attachedIds, sealing, answering, deriving, known, reading,
                       opening, mode, sessions, followed, issued, got, ops, lost>>
    BY <1>3, <1>6, Empty DEF OnOpen
  <2> QED
    BY <1>4, <2>1, <2>2 DEF TypeInv, TypeOK
<1> QED
  BY <1>5, <1>6 DEF OnOpen

LEMMA AnswerType ==
    ASSUME TypeInv, Answer
    PROVE  TypeInv'
<1>1. 0 \in 0 .. MaxConns
  BY Constants
<1>2. CASE Dispose
  BY <1>1, <1>2, DisposeType DEF Answer, TypeInv, TypeOK
<1>3. CASE ~Dispose
  <2> DEFINE response == [k |-> "response", of |-> answering]
  <2>1. response \in Message
    <3>1. answering \in 1 .. MaxConns
      BY Constants DEF Answer, TypeInv, TypeOK
    <3> QED
      BY <3>1, Messages
  <2> HIDE DEF response
  <2>2. Append(outbox, response) \in Seq(Message)
    BY <2>1 DEF TypeInv, TypeOK
  <2>3. up \o Plain(<<response>>) \in Seq(Frame)
    <3>1. <<response>> \in Seq(Message)
      BY <2>1
    <3> QED
      BY <3>1, PlainType, CatIs DEF TypeInv, TypeOK
  <2>4. up' \in Seq(Frame) /\ outbox' \in Seq(Message)
    BY <1>3, <2>2, <2>3 DEF Answer, TypeInv, TypeOK, response
  <2>5. /\ answering' = 0
        /\ UNCHANGED <<sock, timer, conn, gate, authed, attempts, disposed, attachedIds, key, sealing, known,
                       reading, deriving, down, opening, theHost, issued, ops, lost>>
    BY <1>3 DEF Answer
  <2> QED
    BY <1>1, <2>4, <2>5 DEF TypeInv, TypeOK, theHost
<1> QED
  BY <1>2, <1>3

LEMMA DeriveType ==
    ASSUME TypeInv, Derive
    PROVE  TypeInv'
<1>1. 0 \in 0 .. MaxConns
  BY Constants
<1>2. CASE Dispose
  BY <1>1, <1>2, DisposeType DEF Derive, TypeInv, TypeOK
<1>3. CASE ~Dispose
  <2>1. /\ authed' \in BOOLEAN /\ gate' \in {"connecting", "ready", "denied", "revoked"}
        /\ attempts' \in 0 .. MaxConns /\ attempts' < conn' /\ attempts' <= conn' /\ conn' # 0
        /\ outbox' \in Seq(Message) /\ sealing' \in Seq(Message) /\ up' \in Seq(Frame)
    BY <1>3, RelayAuthOkType DEF Derive
  <2> QED
    BY <1>1, <1>3, <2>1 DEF Derive, TypeInv, TypeOK, theHost
<1> QED
  BY <1>2, <1>3

LEMMA HandledType ==
    ASSUME TypeInv, NEW d \in Down, Handled(d)
    PROVE  /\ known' \subseteq Session /\ attachedIds' \subseteq Session
           /\ gate' \in {"connecting", "ready", "denied", "revoked"}
<1>1. CASE d.k = "tabs" /\ OnTabs(d.of) /\ UNCHANGED gate
  BY <1>1, DownType DEF OnTabs, TypeInv, TypeOK
<1>2. CASE /\ gate' = IF ~Relay THEN gate ELSE IF d.of = "denied" THEN "denied" ELSE "connecting"
           /\ UNCHANGED <<attachedIds, known>>
  BY <1>2 DEF TypeInv, TypeOK
<1> QED
  BY <1>1, <1>2 DEF Handled

LEMMA HandleMessageType ==
    ASSUME TypeInv, HandleMessage
    PROVE  TypeInv'
<1> DEFINE d == Head(down)
<1>1. d \in Down /\ Tail(down) \in Seq(Down)
  BY HeadAndTail DEF HandleMessage, TypeInv, TypeOK
<1>2. /\ down' = Tail(down)
      /\ UNCHANGED <<sock, timer, conn, disposed, key, opening, theHost, issued, ops, lost>>
  BY DEF HandleMessage
<1>3. d.k = "challenge" => d.of \in 0 .. MaxConns
  BY <1>1, DownType, Constants
<1>4. CASE /\ d.k = "challenge" /\ answering' = d.of
           /\ UNCHANGED <<gate, authed, attempts, outbox, sealing, up, deriving, attachedIds, known, reading>>
  BY <1>1, <1>2, <1>3, <1>4 DEF TypeInv, TypeOK, theHost
<1>5. CASE d.k = "ok"
  <2>1. UNCHANGED <<answering, attachedIds, known, reading>>
    BY <1>5 DEF HandleMessage, Sealed, Handled
  <2>2. CASE deriving' = conn /\ UNCHANGED <<gate, authed, attempts, outbox, sealing, up>>
    BY <1>1, <1>2, <2>1, <2>2 DEF TypeInv, TypeOK, theHost
  <2>3. CASE RelayAuthOk(0) /\ UNCHANGED deriving
    <3>1. /\ authed' \in BOOLEAN /\ gate' \in {"connecting", "ready", "denied", "revoked"}
          /\ attempts' \in 0 .. MaxConns /\ attempts' < conn' /\ attempts' <= conn' /\ conn' # 0
          /\ outbox' \in Seq(Message) /\ sealing' \in Seq(Message) /\ up' \in Seq(Frame)
      BY <1>2, <2>3, RelayAuthOkType
    <3> QED
      BY <1>1, <1>2, <2>1, <2>3, <3>1 DEF TypeInv, TypeOK, theHost
  <2>4. CASE UNCHANGED <<gate, authed, attempts, outbox, sealing, up, deriving>>
    BY <1>1, <1>2, <2>1, <2>4 DEF TypeInv, TypeOK, theHost
  <2> QED
    BY <1>5, <2>2, <2>3, <2>4 DEF HandleMessage, Sealed, Handled
<1>6. CASE /\ reading' = Append(reading, d)
           /\ UNCHANGED <<gate, authed, attempts, outbox, sealing, up, answering, deriving, attachedIds, known>>
  <2>1. reading' \in Seq(Down)
    BY <1>1, <1>6 DEF TypeInv, TypeOK
  <2> HIDE DEF d
  <2> QED
    BY <1>1, <1>2, <1>6, <2>1 DEF TypeInv, TypeOK, theHost
<1>7. CASE Handled(d) /\ UNCHANGED <<authed, attempts, outbox, sealing, up, answering, deriving, reading>>
  <2>1. /\ known' \subseteq Session /\ attachedIds' \subseteq Session
        /\ gate' \in {"connecting", "ready", "denied", "revoked"}
    BY <1>1, <1>7, HandledType
  <2> QED
    BY <1>1, <1>2, <1>7, <2>1 DEF TypeInv, TypeOK, theHost
<1> QED
  BY <1>4, <1>5, <1>6, <1>7 DEF HandleMessage

LEMMA PageOpensType ==
    ASSUME TypeInv, NEW i \in DOMAIN reading, PageOpens(i)
    PROVE  TypeInv'
<1>1. PICK b \in Seq(Down), a \in Seq(Down) :
         Parts(reading, i, b, a) /\ reading[i] \in Down
  <2>1. reading \in Seq(Down)
    BY DEF TypeInv, TypeOK
  <2> QED
    BY <2>1, Removed
<1>2. reading' \in Seq(Down)
  BY <1>1, CatIs DEF PageOpens, Parts
<1>3. /\ known' \subseteq Session /\ attachedIds' \subseteq Session
      /\ gate' \in {"connecting", "ready", "denied", "revoked"}
  BY <1>1, HandledType DEF PageOpens
<1> QED
  BY <1>2, <1>3 DEF PageOpens, net, theHost, TypeInv, TypeOK

LEMMA FailWithIs ==
    ASSUME down \in Seq(Down), NEW what \in {"denied", "other"}, FailWith(what)
    PROVE  /\ phase' = "closed" /\ UNCHANGED <<followed, got>>
           /\ \E e, c \in Down : /\ e.k = "error" /\ c.k = "close"
                                /\ down' = down \o <<e, c>> /\ <<e, c>> \in Seq(Down)
           /\ down' \in Seq(Down)
<1> PICK code \in {"plain", "denied", "revoked"} :
        down' = down \o <<[k |-> "error", of |-> what], [k |-> "close", of |-> code]>>
  BY DEF FailWith
<1> DEFINE e == [k |-> "error", of |-> what]
           c == [k |-> "close", of |-> code]
<1>1. e \in Down /\ c \in Down /\ e.k = "error" /\ c.k = "close"
  BY Downs
<1> HIDE DEF e, c
<1>2. <<e, c>> \in Seq(Down)
  BY <1>1
<1>3. down' = down \o <<e, c>>
  BY DEF e, c
<1>4. down' \in Seq(Down)
  BY <1>2, <1>3, CatIs
<1> QED
  BY <1>1, <1>2, <1>3, <1>4 DEF FailWith

LEMMA HostTypes ==
    ASSUME TypeInv
    PROVE  /\ down \in Seq(Down) /\ phase \in {"none", "challenged", "ok", "closed"}
           /\ followed \subseteq Session /\ got \in Seq(1 .. MaxOps) /\ sessions \in SUBSET Session
           /\ conn \in 1 .. MaxConns /\ opening \in Seq(Frame)
<1>1. conn \in 0 .. MaxConns /\ conn # 0
  BY DEF TypeInv, TypeOK
<1>2. conn \in 1 .. MaxConns
  BY <1>1, Constants
<1> QED
  BY <1>2 DEF TypeInv, TypeOK

LEMMA DispatchType ==
    ASSUME TypeInv, NEW m \in Message, Dispatch(m)
    PROVE  /\ down' \in Seq(Down) /\ phase' \in {phase, "closed"}
           /\ followed' \subseteq Session /\ got' \in Seq(1 .. MaxOps)
<1>1. /\ m.k \in {"attach", "detach"} => m.of \in Session
      /\ m.k = "op" => m.of \in 1 .. MaxOps
  BY MessageType
<1>2. CASE m.k = "attach" /\ m.of \in sessions /\ followed' = followed \cup {m.of} /\ UNCHANGED <<phase, down, got>>
  BY <1>1, <1>2, HostTypes
<1>3. CASE down' = Append(down, [k |-> "error", of |-> "other"]) /\ UNCHANGED <<phase, followed, got>>
  <2>1. [k |-> "error", of |-> "other"] \in Down
    BY Downs
  <2> QED
    BY <1>3, <2>1, HostTypes
<1>4. CASE followed' = followed \ {m.of} /\ UNCHANGED <<phase, down, got>>
  BY <1>4, HostTypes
<1>5. CASE m.k = "op" /\ got' = Append(got, m.of) /\ UNCHANGED <<phase, down, followed>>
  BY <1>1, <1>5, HostTypes
<1>6. CASE FailWith("other")
  <2>1. down' \in Seq(Down) /\ phase' = "closed" /\ UNCHANGED <<followed, got>>
    BY <1>6, HostTypes, FailWithIs
  <2> QED
    BY <2>1, HostTypes
<1> QED
  BY <1>2, <1>3, <1>4, <1>5, <1>6 DEF Dispatch

LEMMA HostReceivesType ==
    ASSUME TypeInv, HostReceives
    PROVE  TypeInv'
<1> DEFINE f == Head(up)
<1>1. f \in Frame /\ Tail(up) \in Seq(Frame) /\ f.m \in Message
  <2>1. f \in Frame /\ Tail(up) \in Seq(Frame)
    BY HeadAndTail DEF HostReceives, TypeInv, TypeOK
  <2> QED
    BY <2>1 DEF Frame
<1>2. up' = Tail(up) /\ UNCHANGED <<client, mode, sessions, issued, ops>>
  BY DEF HostReceives
<1>3. CASE opening' = Append(opening, f) /\ UNCHANGED <<phase, down, followed, got, lost>>
  <2>1. opening' \in Seq(Frame)
    BY <1>1, <1>3, HostTypes
  <2> HIDE DEF f
  <2> QED
    BY <1>1, <1>2, <1>3, <2>1 DEF client, TypeInv, TypeOK
<1>4. CASE HostAccepts(f) /\ UNCHANGED opening /\ lost' \in {lost, lost \cup OpsOf(<<f.m>>)}
  <2>0. <<f.m>> \in Seq(Message)
    BY <1>1
  <2>1. lost' \subseteq 1 .. MaxOps
    BY <1>4, <2>0, OpsType DEF TypeInv, TypeOK
  <2> HIDE DEF f
  <2>2. CASE phase' = "challenged" /\ down' = Append(down, [k |-> "challenge", of |-> conn]) /\ UNCHANGED <<followed, got>>
    <3>1. [k |-> "challenge", of |-> conn] \in Down
      BY HostTypes, Downs
    <3>2. down' \in Seq(Down)
      BY <2>2, <3>1, HostTypes
    <3> QED
      BY <1>1, <1>2, <1>4, <2>1, <2>2, <3>2 DEF client, TypeInv, TypeOK
  <2>3. CASE /\ phase' = "ok" /\ UNCHANGED <<followed, got>>
             /\ down' = down \o <<[k |-> "ok", of |-> 0], [k |-> "tabs", of |-> sessions]>>
    <3>1. [k |-> "ok", of |-> 0] \in Down /\ [k |-> "tabs", of |-> sessions] \in Down
      BY HostTypes, Downs
    <3>2. <<[k |-> "ok", of |-> 0], [k |-> "tabs", of |-> sessions]>> \in Seq(Down)
      BY <3>1
    <3>3. down' \in Seq(Down)
      BY <2>3, <3>2, HostTypes, CatIs
    <3> QED
      BY <1>1, <1>2, <1>4, <2>1, <2>3, <3>3 DEF client, TypeInv, TypeOK
  <2>4. ASSUME NEW what \in {"denied", "other"}, FailWith(what) PROVE TypeInv'
    <3>1. down' \in Seq(Down) /\ phase' = "closed" /\ UNCHANGED <<followed, got>>
      BY <2>4, HostTypes, FailWithIs
    <3> QED
      BY <1>1, <1>2, <1>4, <2>1, <3>1 DEF client, TypeInv, TypeOK
  <2>5. CASE Dispatch(f.m)
    <3>1. /\ down' \in Seq(Down) /\ phase' \in {phase, "closed"}
          /\ followed' \subseteq Session /\ got' \in Seq(1 .. MaxOps)
      BY <1>1, <2>5, DispatchType
    <3> QED
      BY <1>1, <1>2, <1>4, <2>1, <3>1 DEF client, TypeInv, TypeOK
  <2>6. CASE UNCHANGED <<phase, down, followed, got>>
    BY <1>1, <1>2, <1>4, <2>1, <2>6 DEF client, TypeInv, TypeOK
  <2> QED
    BY <1>4, <2>2, <2>3, <2>4, <2>5, <2>6 DEF HostAccepts
<1> QED
  BY <1>3, <1>4 DEF HostReceives

LEMMA OpeningType ==
    ASSUME TypeInv, NEW i \in DOMAIN opening
    PROVE  /\ opening[i] \in Frame /\ opening[i].m \in Message
           /\ \E b, a \in Seq(Frame) : Parts(opening, i, b, a)
<1>1. opening \in Seq(Frame)
  BY HostTypes
<1>2. opening[i] \in Frame /\ \E b, a \in Seq(Frame) : Parts(opening, i, b, a)
  BY <1>1, Removed
<1>3. opening[i].m \in Message
  BY <1>2 DEF Frame
<1> QED
  BY <1>2, <1>3

LEMMA HostOpensType ==
    ASSUME TypeInv, NEW i \in DOMAIN opening, HostOpens(i)
    PROVE  TypeInv'
<1> DEFINE m == opening[i].m
<1>1. m \in Message
  BY OpeningType
<1>2. opening' \in Seq(Frame)
  <2>1. PICK b \in Seq(Frame), a \in Seq(Frame) : Parts(opening, i, b, a)
    BY OpeningType
  <2> QED
    BY <2>1, CatIs DEF HostOpens, Parts
<1>3. UNCHANGED <<client, up, mode, sessions, issued, ops, lost>>
  BY DEF HostOpens
<1>4. \/ Dispatch(m)
      \/ m.k = "op" /\ got' = Append(got, m.of) /\ UNCHANGED <<phase, down, followed>>
      \/ UNCHANGED <<phase, down, followed, got>>
  BY DEF HostOpens
<1> HIDE DEF m
<1>5. /\ down' \in Seq(Down) /\ phase' \in {phase, "closed"}
      /\ followed' \subseteq Session /\ got' \in Seq(1 .. MaxOps)
  <2>1. CASE Dispatch(m)
    BY <1>1, <2>1, DispatchType
  <2>2. CASE m.k = "op" /\ got' = Append(got, m.of) /\ UNCHANGED <<phase, down, followed>>
    BY <1>1, <2>2, MessageType, HostTypes
  <2> QED
    BY <1>4, <2>1, <2>2, HostTypes
<1> QED
  BY <1>2, <1>3, <1>5 DEF client, TypeInv, TypeOK

LEMMA HostType ==
    ASSUME TypeInv, AuthTimeout \/ \E s \in Session : SessionEnds(s)
    PROVE  TypeInv'
<1>1. CASE AuthTimeout
  <2>1. down' \in Seq(Down) /\ phase' = "closed" /\ UNCHANGED <<followed, got>>
    BY <1>1, FailWithIs DEF AuthTimeout, TypeInv, TypeOK
  <2> QED
    BY <1>1, <2>1 DEF AuthTimeout, client, TypeInv, TypeOK
<1>2. ASSUME NEW s \in Session, SessionEnds(s) PROVE TypeInv'
  <2>1. [k |-> "tabs", of |-> sessions \ {s}] \in Down
    <3>1. sessions \ {s} \in SUBSET Session
      BY DEF TypeInv, TypeOK
    <3> QED
      BY <3>1, Downs
  <2>2. down' \in Seq(Down)
    BY <1>2, <2>1 DEF SessionEnds, TypeInv, TypeOK
  <2>3. UNCHANGED <<client, up, opening, phase, mode, issued, got, ops, lost>>
    BY <1>2 DEF SessionEnds
  <2>4. sessions' \in SUBSET Session /\ followed' \in SUBSET Session
    BY <1>2 DEF SessionEnds, TypeInv, TypeOK
  <2> QED
    BY <2>2, <2>3, <2>4 DEF client, TypeInv, TypeOK
<1> QED
  BY <1>1, <1>2

LEMMA InitType == Init => TypeInv
<1> SUFFICES ASSUME Init PROVE TypeInv
  OBVIOUS
<1>1. 1 \in 0 .. MaxConns /\ 0 \in 0 .. MaxConns /\ 0 \in 0 .. MaxOps
  BY Constants
<1>2. /\ outbox \in Seq(Message) /\ sealing \in Seq(Message) /\ up \in Seq(Frame) /\ down \in Seq(Down)
      /\ got \in Seq(1 .. MaxOps) /\ opening \in Seq(Frame) /\ reading \in Seq(Down)
  BY Empty DEF Init
<1>3. conn # 0 /\ attempts <= conn /\ attempts < conn
  BY DEF Init
<1> QED
  BY <1>1, <1>2, <1>3 DEF Init, TypeInv, TypeOK

LEMMA TypeStep == TypeInv /\ [Next]_vars => TypeInv'
<1> SUFFICES ASSUME TypeInv, [Next]_vars PROVE TypeInv'
  OBVIOUS
<1>1. CASE UNCHANGED vars
  BY <1>1 DEF vars, client, net, theHost, TypeInv, TypeOK
<1>2. ASSUME NEW code \in {"plain", "denied", "revoked"}, OnClose(code) PROVE TypeInv'
  BY <1>2, OnCloseType
<1>3. CASE Lost \/ \E code \in {"denied", "revoked"} : Refused(code)
  BY <1>2, <1>3 DEF Lost, Refused
<1>4. CASE ClosedByHost
  <2>1. Head(down) \in Down
    BY <1>4, HeadAndTail DEF ClosedByHost, TypeInv, TypeOK
  <2> QED
    BY <1>2, <1>4, <2>1, DownType DEF ClosedByHost
<1> QED
  BY <1>1, <1>3, <1>4, SendType, SealType, ConnectType, OnOpenType, AnswerType, DeriveType, HandleMessageType,
     PageOpensType, HostReceivesType, HostOpensType, HostType DEF Next

LEMMA AlwaysTypeInv == Spec => []TypeInv
BY InitType, TypeStep, PTL DEF Spec

(* Every behaviour is about well-formed states: in particular an attempt is *)
(* counted once for a connection, so that attempts never pass their number. *)
THEOREM TypeCorrect == Spec => []TypeOK
<1>1. TypeInv => TypeOK
  BY DEF TypeInv
<1> QED
  BY <1>1, AlwaysTypeInv, PTL

-----------------------------------------------------------------------------
(* Connections, keys and the gate *)

Heard == phase \in {"ok", "closed"}
Without(q, k) == \A x \in ToSet(q) : x.k # k
RightSec == IF Relay /\ Enc THEN conn ELSE 0
SealedBy(fs, sec) == \A f \in ToSet(fs) : Business(f.m) => f.sec = sec

(* A connection that is not open carries nothing. *)
WireInv ==
    /\ sock # "open" => up = <<>> /\ down = <<>> /\ phase = "none" /\ followed = {}
    /\ timer => sock = "none"
    /\ ~Without(down, "ok") => Heard

(* A key is that of the connection while there is one, and nothing waits in *)
(* the outbox for it.                                                       *)
KeyInv ==
    /\ ~Enc => sealing = <<>> /\ key = 0 /\ deriving = 0 /\ opening = <<>>
    /\ key # 0 => Idle(outbox) /\ (sock = "open" => key = conn /\ Heard)
    /\ deriving # 0 => deriving = conn /\ sock # "dialing" /\ (sock = "open" => Heard)
    /\ Enc /\ sock = "open" /\ phase = "ok" /\ deriving = 0 /\ Without(down, "ok") => key = conn
    /\ Enc /\ key = 0 => Idle(Bodies(up))

(* The gate is open only where the host confirmed. *)
GateInv ==
    /\ Relay /\ gate = "ready" => sock # "dialing"
    /\ Relay /\ gate = "ready" /\ sock = "open" => Heard /\ outbox = <<>> /\ (Enc => key = conn)
    /\ ~Relay /\ sock = "open" => Heard /\ outbox = <<>>
    /\ ~Idle(Bodies(up)) => Heard
    /\ SealedBy(up, RightSec)

FlowInv == WireInv /\ KeyInv /\ GateInv

LEMMA FlowIsNoEarlyBusiness == TypeInv /\ GateInv => NoEarlyBusiness
<1> SUFFICES ASSUME TypeInv, GateInv, NEW i \in DOMAIN up, Business(up[i].m)
             PROVE  phase \in {"ok", "closed"} /\ up[i].sec = RightSec
  BY DEF NoEarlyBusiness, RightSec
<1>1. up[i] \in ToSet(up)
  BY DEF ToSet
<1>2. Bodies(up)[i] = up[i].m /\ i \in DOMAIN Bodies(up)
  BY DEF Bodies
<1> QED
  BY <1>1, <1>2 DEF GateInv, SealedBy, Idle, Heard

LEMMA EncIsRelay == TypeInv /\ Enc => Relay
BY TransportAssumption DEF TypeInv, TypeOK, Mode, Enc, Relay

LEMMA PlainSent ==
    ASSUME NEW fs \in Seq(Frame), NEW ms \in Seq(Message)
    PROVE  /\ Bodies(fs \o Plain(ms)) = Bodies(fs) \o ms
           /\ Idle(Bodies(fs \o Plain(ms))) <=> Idle(Bodies(fs)) /\ Idle(ms)
           /\ SealedBy(fs, 0) => SealedBy(fs \o Plain(ms), 0)
           /\ \A sec : SealedBy(fs, sec) /\ Idle(ms) => SealedBy(fs \o Plain(ms), sec)
<1>1. /\ Plain(ms) \in Seq(Frame) /\ Bodies(Plain(ms)) = ms
      /\ DOMAIN Plain(ms) = DOMAIN ms /\ \A i \in DOMAIN ms : Plain(ms)[i].sec = 0
  BY PlainType
<1>2. Bodies(fs \o Plain(ms)) = Bodies(fs) \o ms
  BY <1>1, BodyCat
<1>3. Bodies(fs) \in Seq(Message)
  BY BodyType
<1>4. Idle(Bodies(fs) \o ms) <=> Idle(Bodies(fs)) /\ Idle(ms)
  BY <1>3, OpsCat
<1>5. ToSet(fs \o Plain(ms)) = ToSet(fs) \cup ToSet(Plain(ms))
  BY <1>1, ToSetCat
<1>6. \A f \in ToSet(Plain(ms)) : f.sec = 0
  BY <1>1 DEF ToSet
<1>7. Idle(ms) => \A f \in ToSet(Plain(ms)) : ~Business(f.m)
  BY <1>1 DEF ToSet, Idle, Plain
<1> QED
  BY <1>2, <1>4, <1>5, <1>6, <1>7 DEF SealedBy

LEMMA FirstOfUp ==
    ASSUME NEW fs \in Seq(Frame), fs # <<>>
    PROVE  /\ Head(fs) \in Frame /\ Head(fs).m \in Message /\ Tail(fs) \in Seq(Frame)
           /\ <<Head(fs).m>> \in Seq(Message) /\ Bodies(Tail(fs)) \in Seq(Message)
           /\ Bodies(fs) = <<Head(fs).m>> \o Bodies(Tail(fs))
           /\ Idle(Bodies(fs)) <=> ~Business(Head(fs).m) /\ Idle(Bodies(Tail(fs)))
           /\ \A sec : SealedBy(fs, sec) => SealedBy(Tail(fs), sec)
<1> DEFINE f == Head(fs)
           t == Tail(fs)
<1>1. f \in Frame /\ t \in Seq(Frame) /\ <<f>> \in Seq(Frame) /\ fs = <<f>> \o t
  BY HeadAndTail
<1> HIDE DEF f, t
<1>2. f.m \in Message
  BY <1>1 DEF Frame
<1>3. Bodies(<<f>>) = <<f.m>> /\ <<f.m>> \in Seq(Message)
  <2>1. DOMAIN <<f>> = {1} /\ <<f>>[1] = f
    OBVIOUS
  <2>2. Bodies(<<f>>) = [i \in {1} |-> f.m]
    BY <2>1 DEF Bodies
  <2>3. <<f.m>> = [i \in {1} |-> f.m]
    OBVIOUS
  <2> QED
    BY <1>2, <2>2, <2>3
<1>4. Bodies(fs) = <<f.m>> \o Bodies(t) /\ Bodies(t) \in Seq(Message)
  BY <1>1, <1>3, BodyCat, BodyType
<1>5. Idle(Bodies(fs)) <=> Idle(<<f.m>>) /\ Idle(Bodies(t))
  <2>1. Idle(<<f.m>> \o Bodies(t)) <=> Idle(<<f.m>>) /\ Idle(Bodies(t))
    BY <1>3, <1>4, OpsCat
  <2> QED
    BY <1>4, <2>1
<1>6. Idle(<<f.m>>) <=> ~Business(f.m)
  BY <1>2, OneMessage
<1>7. ToSet(fs) = {f} \cup ToSet(t)
  BY ToSetHead DEF f, t
<1>8. \A sec : SealedBy(fs, sec) => SealedBy(t, sec)
  BY <1>7 DEF SealedBy
<1> QED
  BY <1>1, <1>2, <1>3, <1>4, <1>5, <1>6, <1>8 DEF f, t

LEMMA FirstOfDown ==
    ASSUME NEW q \in Seq(Down), q # <<>>
    PROVE  /\ Head(q) \in Down /\ Tail(q) \in Seq(Down)
           /\ \A k : Without(q, k) <=> Head(q).k # k /\ Without(Tail(q), k)
<1>1. Head(q) \in Down /\ Tail(q) \in Seq(Down)
  BY HeadAndTail
<1>2. ToSet(q) = {Head(q)} \cup ToSet(Tail(q))
  BY ToSetHead
<1> QED
  BY <1>1, <1>2 DEF Without

LEMMA DownSent ==
    ASSUME NEW q \in Seq(Down), NEW d \in Down
    PROVE  \A k : Without(Append(q, d), k) <=> Without(q, k) /\ d.k # k
BY ToSetAppend DEF Without

LEMMA TwoDown ==
    ASSUME NEW q \in Seq(Down), NEW d \in Down, NEW e \in Down
    PROVE  q \o <<d, e>> = Append(Append(q, d), e) /\ Append(q, d) \in Seq(Down)
OBVIOUS

LEMMA TwoDownSent ==
    ASSUME NEW q \in Seq(Down), NEW d \in Down, NEW e \in Down
    PROVE  \A k : Without(q \o <<d, e>>, k) <=> Without(q, k) /\ d.k # k /\ e.k # k
<1>1. PICK r \in Seq(Down) : r = Append(q, d) /\ q \o <<d, e>> = Append(r, e)
  BY TwoDown
<1>2. /\ \A k : Without(r, k) <=> Without(q, k) /\ d.k # k
      /\ \A k : Without(Append(r, e), k) <=> Without(r, k) /\ e.k # k
  BY <1>1, DownSent
<1> QED
  BY <1>1, <1>2

LEMMA NothingOn == (\A k : Without(<<>>, k)) /\ (\A sec : SealedBy(<<>>, sec)) /\ Idle(Bodies(<<>>))
BY ToSetFew, BodyEmpty, EmptyQueue DEF Without, SealedBy

-----------------------------------------------------------------------------
(* The steps and the flow *)

(* The connection is gone. *)
Gone ==
    /\ sock' = "none" /\ up' = <<>> /\ down' = <<>> /\ phase' = "none" /\ followed' = {}
    /\ gate' \in {gate, "denied", "revoked"}
    /\ UNCHANGED <<mode, conn, outbox, key, sealing, opening>>
    /\ deriving' \in {deriving, 0}

LEMMA OnCloseGone ==
    ASSUME NEW code \in {"plain", "denied", "revoked"}, OnClose(code)
    PROVE  Gone
BY DEF OnClose, ScheduleReconnect, Gone

LEMMA GoneFlow ==
    ASSUME TypeInv, FlowInv, Gone
    PROVE  FlowInv'
<1>1. (Relay' <=> Relay) /\ (Enc' <=> Enc)
  BY DEF Gone, Relay, Enc
<1>2. ~Heard'
  BY DEF Gone, Heard
<1>3. (\A k : Without(down', k)) /\ (\A sec : SealedBy(up', sec)) /\ Idle(Bodies(up'))
  BY NothingOn DEF Gone
<1>4. WireInv'
  BY <1>3 DEF Gone, WireInv
<1>5. KeyInv'
  BY <1>1, <1>3 DEF Gone, FlowInv, KeyInv
<1>6. GateInv'
  <2>1. gate' = "ready" => gate = "ready"
    BY DEF Gone
  <2> QED
    BY <1>1, <1>3, <2>1 DEF Gone, FlowInv, GateInv
<1> QED
  BY <1>4, <1>5, <1>6 DEF FlowInv

(* The queue of the seal and the outbox, and what may be on the wire. *)
LEMMA SendRawFlow ==
    ASSUME TypeInv, FlowInv, NEW ms \in Seq(Message), SendRaw(ms),
           UNCHANGED <<mode, sock, timer, conn, gate, key, deriving, down, opening, phase, followed>>
    PROVE  FlowInv'
<1>1. (Relay' <=> Relay) /\ (Enc' <=> Enc) /\ (Heard' <=> Heard) /\ RightSec' = RightSec
  BY DEF Relay, Enc, Heard, RightSec
<1>2. CASE key # 0 /\ sealing' = sealing \o ms /\ UNCHANGED <<up, outbox>>
  <2>1. WireInv'
    BY <1>1, <1>2 DEF FlowInv, WireInv
  <2>2. KeyInv'
    BY <1>1, <1>2 DEF FlowInv, KeyInv
  <2>3. GateInv'
    BY <1>1, <1>2 DEF FlowInv, GateInv
  <2> QED
    BY <2>1, <2>2, <2>3 DEF FlowInv
<1>3. CASE key = 0 /\ sock = "open" /\ (Relay => gate = "ready") /\ up' = up \o Plain(ms) /\ UNCHANGED <<sealing, outbox>>
  <2>1. conn # 0 /\ ~Enc
    BY <1>3, EncIsRelay DEF TypeInv, FlowInv, GateInv
  <2>2. Heard
    BY <1>3 DEF FlowInv, GateInv
  <2>3. SealedBy(up', RightSec)
    BY <1>3, <2>1, PlainSent DEF TypeInv, TypeOK, FlowInv, GateInv, RightSec
  <2>4. WireInv'
    BY <1>1, <1>3, <2>2 DEF FlowInv, WireInv
  <2>5. KeyInv'
    BY <1>1, <1>3, <2>1 DEF FlowInv, KeyInv
  <2>6. GateInv'
    BY <1>1, <1>3, <2>2, <2>3 DEF FlowInv, GateInv
  <2> QED
    BY <2>4, <2>5, <2>6 DEF FlowInv
<1>4. CASE key = 0 /\ ~(sock = "open" /\ (Relay => gate = "ready")) /\ outbox' = outbox \o ms /\ UNCHANGED <<sealing, up>>
  <2>1. WireInv'
    BY <1>1, <1>4 DEF FlowInv, WireInv
  <2>2. KeyInv'
    BY <1>1, <1>4 DEF FlowInv, KeyInv
  <2>3. GateInv'
    BY <1>1, <1>4 DEF FlowInv, GateInv
  <2> QED
    BY <2>1, <2>2, <2>3 DEF FlowInv
<1> QED
  BY <1>2, <1>3, <1>4 DEF SendRaw

LEMMA SendFlow ==
    ASSUME TypeInv, FlowInv, Op \/ \E s \in Session : Attach(s) \/ Detach(s)
    PROVE  FlowInv'
<1>1. PICK ms \in Seq(Message) : SendRaw(ms)
  <2>1. issued + 1 \in 1 .. MaxOps
    <3>1. issued \in Nat /\ issued < MaxOps
      BY Constants DEF TypeInv, TypeOK, Op, Attach, Detach
    <3> QED
      BY <3>1, Constants
  <2>2. \A m \in Message : <<m>> \in Seq(Message)
    OBVIOUS
  <2>3. CASE Op
    BY <2>1, <2>2, <2>3, Messages DEF Op
  <2>4. ASSUME NEW s \in Session, Attach(s) \/ Detach(s) PROVE \E ms \in Seq(Message) : SendRaw(ms)
    <3>1. [k |-> "attach", of |-> s] \in Message /\ [k |-> "detach", of |-> s] \in Message
      BY Messages
    <3> QED
      BY <2>2, <2>4, <3>1 DEF Attach, Detach
  <2> QED
    BY <2>3, <2>4
<1>2. UNCHANGED <<mode, sock, timer, conn, gate, key, deriving, down, opening, phase, followed>>
  BY DEF Op, Attach, Detach, theHost
<1> QED
  BY <1>1, <1>2, SendRawFlow

LEMMA SealFlow ==
    ASSUME TypeInv, FlowInv, Seal
    PROVE  FlowInv'
<1>1. UNCHANGED <<mode, sock, timer, conn, gate, key, outbox, deriving, down, opening, phase, followed>> /\ sealing # <<>>
  BY DEF Seal, theHost
<1>2. (Relay' <=> Relay) /\ (Enc' <=> Enc) /\ (Heard' <=> Heard) /\ RightSec' = RightSec
  BY <1>1 DEF Relay, Enc, Heard, RightSec
<1>3. Enc /\ Relay
  BY <1>1, EncIsRelay DEF FlowInv, KeyInv
<1>4. CASE up' = up
  <2>1. WireInv'
    BY <1>1, <1>2, <1>4 DEF FlowInv, WireInv
  <2>2. KeyInv'
    BY <1>1, <1>2, <1>3, <1>4 DEF FlowInv, KeyInv
  <2>3. GateInv'
    BY <1>1, <1>2, <1>4 DEF FlowInv, GateInv
  <2> QED
    BY <2>1, <2>2, <2>3 DEF FlowInv
<1>5. CASE key # 0 /\ sock = "open" /\ up' = Append(up, [m |-> Head(sealing), sec |-> key])
  <2> DEFINE f == [m |-> Head(sealing), sec |-> key]
  <2>1. Heard /\ key = conn
    BY <1>5 DEF FlowInv, KeyInv
  <2>2. f \in Frame /\ f.sec = conn
    <3>1. Head(sealing) \in Message
      BY <1>1, HeadAndTail DEF TypeInv, TypeOK
    <3> QED
      BY <2>1, <3>1 DEF Frame, TypeInv, TypeOK
  <2> HIDE DEF f
  <2>3. up' = up \o <<f>> /\ <<f>> \in Seq(Frame) /\ up \in Seq(Frame)
    <3>1. up \in Seq(Frame)
      BY DEF TypeInv, TypeOK
    <3>2. Append(up, f) = up \o <<f>> /\ <<f>> \in Seq(Frame)
      BY <2>2, <3>1, AppendIsCat
    <3> QED
      BY <1>5, <3>1, <3>2 DEF f
  <2>4. ToSet(up') = ToSet(up) \cup {f}
    <3>1. ToSet(Append(up, f)) = ToSet(up) \cup {f}
      BY <2>2, <2>3, ToSetAppend
    <3> QED
      BY <1>5, <3>1 DEF f
  <2>5. SealedBy(up', RightSec)
    BY <1>3, <2>2, <2>4 DEF SealedBy, FlowInv, GateInv, RightSec
  <2>6. WireInv'
    BY <1>1, <1>2, <1>5, <2>1 DEF FlowInv, WireInv
  <2>7. KeyInv'
    BY <1>1, <1>2, <1>3, <1>5 DEF FlowInv, KeyInv
  <2>8. GateInv'
    BY <1>1, <1>2, <2>1, <2>5 DEF FlowInv, GateInv
  <2> QED
    BY <2>6, <2>7, <2>8 DEF FlowInv
<1> QED
  BY <1>4, <1>5 DEF Seal

LEMMA ConnectFlow ==
    ASSUME TypeInv, FlowInv, Connect
    PROVE  FlowInv'
<1>1. /\ sock = "none" /\ sock' = "dialing" /\ timer' = FALSE /\ conn' = conn + 1 /\ deriving = 0 /\ sealing = <<>>
      /\ gate' = (IF Relay THEN "connecting" ELSE gate)
      /\ UNCHANGED <<mode, outbox, key, sealing, deriving, up, down, opening, phase, followed>>
  BY DEF Connect, theHost, net, FlowInv, WireInv
<1>2. (Relay' <=> Relay) /\ (Enc' <=> Enc) /\ (Heard' <=> Heard)
  BY <1>1 DEF Relay, Enc, Heard
<1>3. up = <<>> /\ down = <<>>
  BY <1>1 DEF FlowInv, WireInv
<1>4. (\A k : Without(down', k)) /\ (\A sec : SealedBy(up', sec)) /\ Idle(Bodies(up'))
  BY <1>1, <1>3, NothingOn
<1>5. WireInv'
  BY <1>1, <1>2, <1>4 DEF FlowInv, WireInv
<1>6. KeyInv'
  BY <1>1, <1>2, <1>4 DEF FlowInv, KeyInv
<1>7. GateInv'
  BY <1>1, <1>2, <1>4 DEF FlowInv, GateInv
<1> QED
  BY <1>5, <1>6, <1>7 DEF FlowInv

LEMMA OnOpenFlow ==
    ASSUME TypeInv, FlowInv, OnOpen
    PROVE  FlowInv'
<1>1. /\ sock = "dialing" /\ sock' = "open" /\ key' = 0
      /\ UNCHANGED <<mode, timer, conn, gate, deriving, sealing, opening, followed>>
  BY DEF OnOpen
<1>2. (Relay' <=> Relay) /\ (Enc' <=> Enc) /\ RightSec' = RightSec
  BY <1>1 DEF Relay, Enc, RightSec
<1>3. up = <<>> /\ down = <<>> /\ phase = "none" /\ followed = {} /\ ~timer /\ deriving = 0
  BY <1>1 DEF FlowInv, WireInv, KeyInv
<1>4. CASE Relay /\ up' = <<[m |-> [k |-> "join", of |-> 0], sec |-> 0]>> /\ UNCHANGED <<outbox, attempts, phase, down>>
  <2> DEFINE f == [m |-> [k |-> "join", of |-> 0], sec |-> 0]
  <2>1. ToSet(up') = {f} /\ ~Business(f.m)
    BY <1>4, ToSetFew DEF Business
  <2>2. SealedBy(up', RightSec)
    BY <2>1 DEF SealedBy
  <2>3. Idle(Bodies(up'))
    <3>1. DOMAIN up' = {1} /\ up'[1] = f
      BY <1>4
    <3> QED
      BY <2>1, <3>1 DEF Idle, Bodies
  <2>4. Without(down', "ok") /\ ~Heard'
    BY <1>3, <1>4, NothingOn DEF Heard
  <2>5. WireInv'
    BY <1>1, <1>3, <2>4 DEF WireInv
  <2>6. KeyInv'
    BY <1>1, <1>2, <1>3, <1>4, <2>3 DEF FlowInv, KeyInv
  <2>7. GateInv'
    <3>0. GateInv /\ Relay /\ sock = "dialing" /\ gate' = gate
      BY <1>1, <1>4 DEF FlowInv
    <3>1. Relay /\ gate = "ready" => sock # "dialing"
      BY <3>0 DEF GateInv
    <3>2. gate' # "ready"
      BY <3>0, <3>1
    <3> QED
      BY <1>2, <1>4, <2>2, <2>3, <3>2 DEF GateInv
  <2> QED
    BY <2>5, <2>6, <2>7 DEF FlowInv
<1>5. CASE ~Relay /\ up' = Plain(outbox \o Attaches) /\ outbox' = <<>> /\ phase' = "ok"
  <2>1. ~Enc /\ RightSec = 0
    BY <1>5, EncIsRelay DEF RightSec
  <2>2. outbox \o Attaches \in Seq(Message)
    <3>1. Attaches \in Seq(Message)
      BY AttachesType DEF TypeInv, TypeOK
    <3> QED
      BY <3>1, CatIs DEF TypeInv, TypeOK
  <2>3. SealedBy(up', 0)
    <3>1. \A f \in ToSet(Plain(outbox \o Attaches)) : f.sec = 0
      BY <2>2, PlainType DEF ToSet
    <3> QED
      BY <1>5, <3>1 DEF SealedBy
  <2>4. Heard'
    BY <1>5 DEF Heard
  <2>5. WireInv'
    BY <1>1, <1>3, <2>4 DEF WireInv
  <2>6. KeyInv'
    BY <1>1, <1>2, <1>3, <2>1 DEF FlowInv, KeyInv
  <2>7. GateInv'
    BY <1>1, <1>2, <1>5, <2>1, <2>3, <2>4 DEF FlowInv, GateInv
  <2> QED
    BY <2>5, <2>6, <2>7 DEF FlowInv
<1> QED
  BY <1>4, <1>5 DEF OnOpen

LEMMA AnswerFlow ==
    ASSUME TypeInv, FlowInv, Answer
    PROVE  FlowInv'
<1>1. CASE Dispose
  <2>1. timer' = FALSE
    BY <1>1 DEF Dispose
  <2>2. Gone
    BY <1>1 DEF Answer, Dispose, Gone
  <2> QED
    BY <2>2, GoneFlow
<1>2. CASE ~Dispose
  <2> DEFINE response == [k |-> "response", of |-> answering]
  <2>1. UNCHANGED <<mode, sock, timer, conn, gate, key, sealing, deriving, down, opening, phase, followed>>
    BY <1>2 DEF Answer, theHost
  <2>2. (Relay' <=> Relay) /\ (Enc' <=> Enc) /\ (Heard' <=> Heard) /\ RightSec' = RightSec
    BY <2>1 DEF Relay, Enc, Heard, RightSec
  <2>3. response \in Message /\ ~Business(response)
    <3>1. answering \in 1 .. MaxConns
      BY Constants DEF Answer, TypeInv, TypeOK
    <3> QED
      BY <3>1, Messages DEF Business
  <2>4. CASE sock = "open" /\ up' = up \o Plain(<<response>>) /\ UNCHANGED outbox
    <3> HIDE DEF response
    <3>0. Idle(<<response>>)
      BY <2>3, OneMessage
    <3>1. <<response>> \in Seq(Message) /\ Idle(<<response>>)
      BY <2>3, <3>0
    <3>2. /\ Idle(Bodies(up')) <=> Idle(Bodies(up))
          /\ SealedBy(up', RightSec)
      BY <2>4, <3>1, PlainSent DEF TypeInv, TypeOK, FlowInv, GateInv
    <3>3. WireInv'
      BY <2>1, <2>2, <2>4 DEF FlowInv, WireInv
    <3>4. KeyInv'
      BY <2>1, <2>2, <2>4, <3>2 DEF FlowInv, KeyInv
    <3>5. GateInv'
      BY <2>1, <2>2, <2>4, <3>2 DEF FlowInv, GateInv
    <3> QED
      BY <3>3, <3>4, <3>5 DEF FlowInv
  <2>5. CASE sock # "open" /\ outbox' = Append(outbox, response) /\ UNCHANGED up
    <3> HIDE DEF response
    <3>1. outbox' = outbox \o <<response>> /\ <<response>> \in Seq(Message) /\ outbox \in Seq(Message)
      BY <2>3, <2>5, AppendIsCat DEF TypeInv, TypeOK
    <3>2. Idle(<<response>>)
      BY <2>3, OneMessage
    <3>3. Idle(outbox) => Idle(outbox')
      BY <3>1, <3>2, OpsCat
    <3>4. WireInv'
      BY <2>1, <2>2, <2>5 DEF FlowInv, WireInv
    <3>5. KeyInv'
      BY <2>1, <2>2, <2>5, <3>3 DEF FlowInv, KeyInv
    <3>6. GateInv'
      BY <2>1, <2>2, <2>5 DEF FlowInv, GateInv
    <3> QED
      BY <3>4, <3>5, <3>6 DEF FlowInv
  <2> QED
    BY <1>2, <2>4, <2>5 DEF Answer
<1> QED
  BY <1>1, <1>2

LEMMA DeriveFlow ==
    ASSUME TypeInv, FlowInv, Derive
    PROVE  FlowInv'
<1>1. CASE Dispose
  <2>1. Gone
    BY <1>1 DEF Derive, Dispose, Gone
  <2> QED
    BY <2>1, GoneFlow
<1>2. CASE ~Dispose
  <2>1. /\ deriving # 0 /\ deriving' = 0 /\ key' = deriving /\ gate' = "ready" /\ outbox' = <<>>
        /\ UNCHANGED <<mode, sock, timer, conn, up, down, opening, phase, followed>>
    BY <1>2 DEF Derive, RelayAuthOk, theHost
  <2>2. (Relay' <=> Relay) /\ (Enc' <=> Enc) /\ (Heard' <=> Heard) /\ RightSec' = RightSec
    BY <2>1 DEF Relay, Enc, Heard, RightSec
  <2>3. deriving = conn /\ sock # "dialing" /\ (sock = "open" => Heard) /\ Enc /\ Relay
    BY <2>1, EncIsRelay DEF FlowInv, KeyInv
  <2>4. WireInv'
    BY <2>1, <2>2 DEF FlowInv, WireInv
  <2>5. KeyInv'
    BY <2>1, <2>2, <2>3, EmptyQueue DEF KeyInv
  <2>6. GateInv'
    BY <2>1, <2>2, <2>3 DEF FlowInv, GateInv
  <2> QED
    BY <2>4, <2>5, <2>6 DEF FlowInv
<1> QED
  BY <1>1, <1>2

LEMMA HandleMessageFlow ==
    ASSUME TypeInv, FlowInv, HandleMessage
    PROVE  FlowInv'
<1> DEFINE d == Head(down)
<1>1. /\ sock = "open" /\ down # <<>> /\ down' = Tail(down)
      /\ UNCHANGED <<mode, sock, timer, conn, key, opening, phase, followed>>
  BY DEF HandleMessage, theHost
<1>2. (Relay' <=> Relay) /\ (Enc' <=> Enc) /\ (Heard' <=> Heard) /\ RightSec' = RightSec
  BY <1>1 DEF Relay, Enc, Heard, RightSec
<1>3. d \in Down /\ \A k : Without(down, k) <=> d.k # k /\ Without(down', k)
  BY <1>1, FirstOfDown DEF TypeInv, TypeOK
<1> HIDE DEF d
<1>4. WireInv'
  BY <1>1, <1>2, <1>3 DEF FlowInv, WireInv
<1>5. ASSUME d.k # "ok", UNCHANGED <<outbox, sealing, up, deriving>>,
             Relay => gate' \in {gate, "denied", "connecting"}
      PROVE  FlowInv'
  <2>1. Without(down', "ok") => Without(down, "ok")
    BY <1>3, <1>5
  <2>2. KeyInv'
    BY <1>1, <1>2, <1>5, <2>1 DEF FlowInv, KeyInv
  <2>3. GateInv'
    BY <1>1, <1>2, <1>5 DEF FlowInv, GateInv
  <2> QED
    BY <1>4, <2>2, <2>3 DEF FlowInv
<1>6. CASE d.k = "ok"
  <2>1. Heard
    BY <1>3, <1>6 DEF FlowInv, WireInv
  <2>2. CASE Relay /\ Enc /\ deriving' = conn /\ UNCHANGED <<gate, outbox, sealing, up>>
    <3>1. conn # 0
      BY DEF TypeInv
    <3>2. KeyInv'
      BY <1>1, <1>2, <2>1, <2>2, <3>1 DEF FlowInv, KeyInv
    <3>3. GateInv'
      BY <1>1, <1>2, <2>2 DEF FlowInv, GateInv
    <3> QED
      BY <1>4, <3>2, <3>3 DEF FlowInv
  <2>3. CASE Relay /\ ~Enc /\ RelayAuthOk(0) /\ UNCHANGED deriving
    <3>1. /\ gate' = "ready" /\ outbox' = <<>> /\ up' = up \o Plain(outbox \o Attaches) /\ UNCHANGED sealing
      BY <2>3 DEF RelayAuthOk
    <3>2. outbox \o Attaches \in Seq(Message)
      <4>1. Attaches \in Seq(Message)
        BY AttachesType DEF TypeInv, TypeOK
      <4> QED
        BY <4>1, CatIs DEF TypeInv, TypeOK
    <3>3. RightSec = 0
      BY <2>3 DEF RightSec
    <3>4. SealedBy(up', 0)
      BY <3>1, <3>2, <3>3, PlainSent DEF TypeInv, TypeOK, FlowInv, GateInv
    <3>5. KeyInv'
      BY <1>1, <1>2, <2>3, <3>1 DEF FlowInv, KeyInv
    <3>6. GateInv'
      BY <1>1, <1>2, <2>1, <2>3, <3>1, <3>3, <3>4 DEF GateInv
    <3> QED
      BY <1>4, <3>5, <3>6 DEF FlowInv
  <2>4. CASE ~Relay /\ UNCHANGED <<gate, outbox, sealing, up, deriving>>
    <3>1. ~Enc
      BY <2>4, EncIsRelay
    <3>2. KeyInv'
      BY <1>1, <1>2, <2>4, <3>1 DEF FlowInv, KeyInv
    <3>3. GateInv'
      BY <1>1, <1>2, <2>4 DEF FlowInv, GateInv
    <3> QED
      BY <1>4, <3>2, <3>3 DEF FlowInv
  <2> QED
    BY <1>6, <2>2, <2>3, <2>4 DEF HandleMessage, Sealed, Handled, d
<1>7. CASE d.k # "ok"
  <2>1. UNCHANGED <<outbox, sealing, up, deriving>> /\ (Relay => gate' \in {gate, "denied", "connecting"})
    BY <1>7 DEF HandleMessage, Handled, d
  <2> QED
    BY <1>5, <1>7, <2>1
<1> QED
  BY <1>6, <1>7

LEMMA PageOpensFlow ==
    ASSUME TypeInv, FlowInv, NEW i \in DOMAIN reading, PageOpens(i)
    PROVE  FlowInv'
<1>1. /\ UNCHANGED <<mode, sock, timer, conn, key, outbox, sealing, deriving, up, down, opening, phase, followed>>
      /\ Relay => gate' \in {gate, "denied", "connecting"}
  BY DEF PageOpens, Handled, net, theHost
<1>2. (Relay' <=> Relay) /\ (Enc' <=> Enc) /\ (Heard' <=> Heard) /\ RightSec' = RightSec
  BY <1>1 DEF Relay, Enc, Heard, RightSec
<1>3. WireInv'
  BY <1>1, <1>2 DEF FlowInv, WireInv
<1>4. KeyInv'
  BY <1>1, <1>2 DEF FlowInv, KeyInv
<1>5. GateInv'
  BY <1>1, <1>2 DEF FlowInv, GateInv
<1> QED
  BY <1>3, <1>4, <1>5 DEF FlowInv

(* What the host does of an open connection, and what it leaves.            *)
LEMMA HostActsFlow ==
    ASSUME TypeInv, FlowInv, sock = "open",
           UNCHANGED <<mode, sock, timer, conn, gate, key, outbox, sealing, deriving>>,
           Idle(Bodies(up)) => Idle(Bodies(up')),
           \A sec : SealedBy(up, sec) => SealedBy(up', sec),
           ~Enc => opening' = opening,
           Heard => Heard',
           phase' = "ok" /\ Without(down', "ok") => phase = "ok" /\ Without(down, "ok"),
           ~Without(down', "ok") => Heard' \/ ~Without(down, "ok")
    PROVE  FlowInv'
<1>1. (Relay' <=> Relay) /\ (Enc' <=> Enc) /\ RightSec' = RightSec
  BY DEF Relay, Enc, RightSec
<1>2. WireInv'
  BY DEF FlowInv, WireInv
<1>3. KeyInv'
  BY <1>1 DEF FlowInv, KeyInv
<1>4. GateInv'
  BY <1>1 DEF FlowInv, GateInv
<1> QED
  BY <1>2, <1>3, <1>4 DEF FlowInv

LEMMA DispatchFlow ==
    ASSUME TypeInv, NEW m, Dispatch(m), phase = "ok"
    PROVE  /\ Heard' /\ phase' \in {"ok", "closed"}
           /\ phase' = "ok" => (Without(down', "ok") <=> Without(down, "ok"))
<1>1. CASE UNCHANGED <<phase, down>>
  BY <1>1 DEF Heard
<1>2. CASE down' = Append(down, [k |-> "error", of |-> "other"]) /\ UNCHANGED phase
  <2>1. [k |-> "error", of |-> "other"] \in Down
    BY Downs
  <2>2. \A k : Without(Append(down, [k |-> "error", of |-> "other"]), k) <=> Without(down, k) /\ "error" # k
    BY <2>1, HostTypes, DownSent
  <2> QED
    BY <1>2, <2>2 DEF Heard
<1>3. CASE FailWith("other")
  BY <1>3 DEF FailWith, Heard
<1> QED
  BY <1>1, <1>2, <1>3 DEF Dispatch

LEMMA HostReceivesFlow ==
    ASSUME TypeInv, FlowInv, HostReceives
    PROVE  FlowInv'
<1> DEFINE f == Head(up)
<1>1. /\ up # <<>> /\ up' = Tail(up)
      /\ UNCHANGED <<mode, sock, timer, conn, gate, key, outbox, sealing, deriving>>
  BY DEF HostReceives, client
<1>2. /\ Idle(Bodies(up)) => Idle(Bodies(up'))
      /\ \A sec : SealedBy(up, sec) => SealedBy(up', sec)
  BY <1>1, FirstOfUp DEF TypeInv, TypeOK
<1>3. sock = "open"
  BY <1>1 DEF FlowInv, WireInv
<1>4. \/ Enc /\ UNCHANGED <<phase, down>>
      \/ UNCHANGED opening /\ HostAccepts(f)
  BY DEF HostReceives, Opens
<1> HIDE DEF f
<1>5. CASE Enc /\ UNCHANGED <<phase, down>>
  BY <1>1, <1>2, <1>3, <1>5, HostActsFlow DEF Heard
<1>6. ASSUME UNCHANGED opening, Heard => Heard',
             phase' = "ok" /\ Without(down', "ok") => phase = "ok" /\ Without(down, "ok"),
             ~Without(down', "ok") => Heard' \/ ~Without(down, "ok")
      PROVE  FlowInv'
  BY <1>1, <1>2, <1>3, <1>6, HostActsFlow
<1>7. CASE /\ UNCHANGED opening /\ phase = "none" /\ phase' = "challenged"
           /\ down' = Append(down, [k |-> "challenge", of |-> conn])
  <2>1. [k |-> "challenge", of |-> conn] \in Down
    BY HostTypes, Downs
  <2>2. \A k : Without(down', k) <=> Without(down, k) /\ "challenge" # k
    BY <1>7, <2>1, HostTypes, DownSent
  <2> QED
    BY <1>6, <1>7, <2>2 DEF Heard
<1>8. CASE /\ UNCHANGED opening /\ phase' = "ok"
           /\ down' = down \o <<[k |-> "ok", of |-> 0], [k |-> "tabs", of |-> sessions]>>
  <2>1. [k |-> "ok", of |-> 0] \in Down /\ [k |-> "tabs", of |-> sessions] \in Down
    BY HostTypes, Downs
  <2>2. ~Without(down', "ok")
    BY <1>8, <2>1, HostTypes, TwoDownSent
  <2> QED
    BY <1>6, <1>8, <2>2 DEF Heard
<1>9. ASSUME NEW what \in {"denied", "other"}, UNCHANGED opening, FailWith(what) PROVE FlowInv'
  <2>1. phase' = "closed"
    BY <1>9 DEF FailWith
  <2> QED
    BY <1>6, <1>9, <2>1 DEF Heard
<1>10. CASE UNCHANGED opening /\ phase = "ok" /\ Dispatch(f.m)
  <2>1. /\ Heard' /\ phase' \in {"ok", "closed"}
        /\ phase' = "ok" => (Without(down', "ok") <=> Without(down, "ok"))
    BY <1>10, DispatchFlow
  <2> QED
    BY <1>6, <1>10, <2>1
<1>11. CASE UNCHANGED <<opening, phase, down>>
  BY <1>6, <1>11 DEF Heard
<1> QED
  BY <1>4, <1>5, <1>7, <1>8, <1>9, <1>10, <1>11 DEF HostAccepts

LEMMA HostOpensFlow ==
    ASSUME TypeInv, FlowInv, NEW i \in DOMAIN opening, HostOpens(i)
    PROVE  FlowInv'
<1>1. UNCHANGED <<mode, sock, timer, conn, gate, key, outbox, sealing, deriving, up>>
  BY DEF HostOpens, client
<1>2. Enc
  <2>1. opening # <<>>
    OBVIOUS
  <2> QED
    BY <2>1 DEF FlowInv, KeyInv
<1>3. CASE phase = "ok" /\ Dispatch(opening[i].m)
  <2>1. /\ Heard' /\ phase' \in {"ok", "closed"}
        /\ phase' = "ok" => (Without(down', "ok") <=> Without(down, "ok"))
    BY <1>3, DispatchFlow
  <2>2. sock = "open"
    BY <1>3 DEF FlowInv, WireInv
  <2> QED
    BY <1>1, <1>2, <1>3, <2>1, <2>2, HostActsFlow
<1>4. CASE UNCHANGED <<phase, down, followed>>
  <2>1. (Relay' <=> Relay) /\ (Enc' <=> Enc) /\ (Heard' <=> Heard) /\ RightSec' = RightSec
    BY <1>1, <1>4 DEF Relay, Enc, Heard, RightSec
  <2>2. WireInv'
    BY <1>1, <1>4, <2>1 DEF FlowInv, WireInv
  <2>3. KeyInv'
    BY <1>1, <1>2, <1>4, <2>1 DEF FlowInv, KeyInv
  <2>4. GateInv'
    BY <1>1, <1>4, <2>1 DEF FlowInv, GateInv
  <2> QED
    BY <2>2, <2>3, <2>4 DEF FlowInv
<1> QED
  BY <1>3, <1>4 DEF HostOpens

LEMMA HostFlow ==
    ASSUME TypeInv, FlowInv, AuthTimeout \/ \E s \in Session : SessionEnds(s)
    PROVE  FlowInv'
<1>1. UNCHANGED <<mode, sock, timer, conn, gate, key, outbox, sealing, deriving, up, opening>>
  BY DEF AuthTimeout, SessionEnds, client
<1>2. (Relay' <=> Relay) /\ (Enc' <=> Enc) /\ RightSec' = RightSec
  BY <1>1 DEF Relay, Enc, RightSec
<1>3. CASE AuthTimeout
  <2>1. phase = "challenged" /\ phase' = "closed" /\ UNCHANGED followed
    BY <1>3 DEF AuthTimeout, FailWith
  <2>2. ~Heard /\ Heard' /\ sock = "open"
    BY <2>1 DEF Heard, FlowInv, WireInv
  <2>3. WireInv'
    BY <1>1, <2>1, <2>2 DEF FlowInv, WireInv
  <2>4. KeyInv'
    BY <1>1, <1>2, <2>1, <2>2 DEF FlowInv, KeyInv
  <2>5. GateInv'
    BY <1>1, <1>2, <2>1, <2>2 DEF FlowInv, GateInv
  <2> QED
    BY <2>3, <2>4, <2>5 DEF FlowInv
<1>4. ASSUME NEW s \in Session, SessionEnds(s) PROVE FlowInv'
  <2>1. phase' = phase /\ followed' \subseteq followed
    BY <1>4 DEF SessionEnds
  <2>2. Heard' <=> Heard
    BY <2>1 DEF Heard
  <2>3. Without(down', "ok") <=> Without(down, "ok")
    <3>1. [k |-> "tabs", of |-> sessions \ {s}] \in Down
      <4>1. sessions \ {s} \in SUBSET Session
        BY DEF TypeInv, TypeOK
      <4> QED
        BY <4>1, Downs
    <3>2. down \in Seq(Down)
      BY DEF TypeInv, TypeOK
    <3>3. down' = down \/ down' = Append(down, [k |-> "tabs", of |-> sessions \ {s}])
      BY <1>4 DEF SessionEnds
    <3>4. \A k : Without(Append(down, [k |-> "tabs", of |-> sessions \ {s}]), k) <=> Without(down, k) /\ "tabs" # k
      BY <3>1, <3>2, DownSent
    <3> QED
      BY <3>3, <3>4
  <2>4. sock # "open" => down' = <<>>
    BY <1>4 DEF SessionEnds, FlowInv, WireInv
  <2>5. WireInv'
    BY <1>1, <2>1, <2>2, <2>3, <2>4 DEF FlowInv, WireInv
  <2>6. KeyInv'
    BY <1>1, <1>2, <2>1, <2>2, <2>3 DEF FlowInv, KeyInv
  <2>7. GateInv'
    BY <1>1, <1>2, <2>1, <2>2 DEF FlowInv, GateInv
  <2> QED
    BY <2>5, <2>6, <2>7 DEF FlowInv
<1> QED
  BY <1>3, <1>4

LEMMA FlowInit == Init => FlowInv
<1> SUFFICES ASSUME Init PROVE FlowInv
  OBVIOUS
<1>1. WireInv
  BY NothingOn DEF Init, WireInv
<1>2. KeyInv
  BY NothingOn DEF Init, KeyInv
<1>3. GateInv
  BY NothingOn DEF Init, GateInv
<1> QED
  BY <1>1, <1>2, <1>3 DEF FlowInv

LEMMA FlowStep == TypeInv /\ FlowInv /\ [Next]_vars => FlowInv'
<1> SUFFICES ASSUME TypeInv, FlowInv, [Next]_vars PROVE FlowInv'
  OBVIOUS
<1>1. CASE UNCHANGED vars
  <2>1. UNCHANGED <<mode, sock, timer, conn, gate, key, outbox, sealing, deriving, up, down, opening, phase, followed>>
    BY <1>1 DEF vars, client, net, theHost
  <2>2. (Relay' <=> Relay) /\ (Enc' <=> Enc) /\ (Heard' <=> Heard) /\ RightSec' = RightSec
    BY <2>1 DEF Relay, Enc, Heard, RightSec
  <2> QED
    BY <2>1, <2>2 DEF FlowInv, WireInv, KeyInv, GateInv
<1>2. ASSUME NEW code \in {"plain", "denied", "revoked"}, OnClose(code) PROVE FlowInv'
  <2>1. Gone /\ (timer' => sock' = "none")
    BY <1>2, OnCloseGone DEF OnClose
  <2> QED
    BY <2>1, GoneFlow
<1>3. CASE Lost \/ \E code \in {"denied", "revoked"} : Refused(code)
  BY <1>2, <1>3 DEF Lost, Refused
<1>4. CASE ClosedByHost
  <2>1. Head(down) \in Down
    BY <1>4, HeadAndTail DEF ClosedByHost, TypeInv, TypeOK
  <2> QED
    BY <1>2, <1>4, <2>1, DownType DEF ClosedByHost
<1> QED
  BY <1>1, <1>3, <1>4, SendFlow, SealFlow, ConnectFlow, OnOpenFlow, AnswerFlow, DeriveFlow, HandleMessageFlow,
     PageOpensFlow, HostReceivesFlow, HostOpensFlow, HostFlow DEF Next

-----------------------------------------------------------------------------
(* The order of the ops *)

(* What the page sent and the host has not got yet, the oldest first. *)
PathOf(a, b, c) == a \o (b \o c)
Path == PathOf(Bodies(up), sealing, outbox)

Rising(q) == \A i, j \in DOMAIN q : i < j => q[i] < q[j]

Single(q) == \A i, j \in DOMAIN q : i # j => q[i] # q[j]

(* The ops that have come to the host, handled or to be opened. *)
Arrived == ToSet(got) \cup OpsOf(Bodies(opening))

(* None has come twice; those on their way are younger and in order.        *)
OrderInv ==
    /\ ~Enc => Rising(got)
    /\ Single(got) /\ Once(Bodies(opening)) /\ ToSet(got) \cap OpsOf(Bodies(opening)) = {}
    /\ InOrder(Path)
    /\ Before(Arrived, OpsOf(Path))
    /\ Arrived \cup OpsOf(Path) \subseteq 1 .. issued
    /\ ops = Arrived \cup lost \cup OpsOf(Path)

LEMMA PathIs ==
    ASSUME NEW a \in Seq(Message), NEW b \in Seq(Message), NEW c \in Seq(Message)
    PROVE  /\ PathOf(a, b, c) \in Seq(Message)
           /\ OpsOf(PathOf(a, b, c)) = OpsOf(a) \cup OpsOf(b) \cup OpsOf(c)
           /\ InOrder(PathOf(a, b, c)) <=>
                 /\ InOrder(a) /\ InOrder(b) /\ InOrder(c)
                 /\ Before(OpsOf(a), OpsOf(b)) /\ Before(OpsOf(a), OpsOf(c)) /\ Before(OpsOf(b), OpsOf(c))
<1>1. /\ b \o c \in Seq(Message) /\ OpsOf(b \o c) = OpsOf(b) \cup OpsOf(c)
      /\ InOrder(b \o c) <=> InOrder(b) /\ InOrder(c) /\ Before(OpsOf(b), OpsOf(c))
  BY CatIs, OpsCat
<1>2. PICK d \in Seq(Message) : d = b \o c
  BY <1>1
<1>3. /\ a \o d \in Seq(Message) /\ OpsOf(a \o d) = OpsOf(a) \cup OpsOf(d)
      /\ InOrder(a \o d) <=> InOrder(a) /\ InOrder(d) /\ Before(OpsOf(a), OpsOf(d))
  BY CatIs, OpsCat
<1>4. Before(OpsOf(a), OpsOf(d)) <=> Before(OpsOf(a), OpsOf(b)) /\ Before(OpsOf(a), OpsOf(c))
  BY <1>1, <1>2 DEF Before
<1> QED
  BY <1>1, <1>2, <1>3, <1>4 DEF PathOf

LEMMA QueueTypes ==
    ASSUME TypeInv
    PROVE  /\ up \in Seq(Frame) /\ Bodies(up) \in Seq(Message) /\ sealing \in Seq(Message) /\ outbox \in Seq(Message)
           /\ Attaches \in Seq(Message) /\ OpsOf(Attaches) = {} /\ InOrder(Attaches)
BY BodyType, AttachesType DEF TypeInv, TypeOK, OpsOf, InOrder

LEMMA DeliveryFollows == OrderInv /\ TypeInv => Delivery
<1> SUFFICES ASSUME OrderInv, TypeInv PROVE Delivery
  OBVIOUS
<1>1. OpsOf(Path) = OpsOf(Bodies(up)) \cup OpsOf(sealing) \cup OpsOf(outbox)
  BY QueueTypes, PathIs DEF Path
<1> QED
  BY <1>1 DEF OrderInv, Delivery, Rising, Single, Arrived

(* A step that adds no op and loses none without saying so. *)
LEMMA OrderKept ==
    ASSUME OrderInv, InOrder(Path'), OpsOf(Path') \subseteq OpsOf(Path), UNCHANGED <<mode, got, opening, ops>>,
           issued' \in {issued, issued + 1}, issued \in Nat,
           OpsOf(Path') \cup lost' = OpsOf(Path) \cup lost
    PROVE  OrderInv'
<1>1. (Enc' <=> Enc) /\ Arrived' = Arrived
  BY DEF Enc, Arrived
<1>2. \A n \in 1 .. issued : n \in 1 .. issued'
  OBVIOUS
<1>3. /\ ~Enc' => Rising(got')
      /\ Single(got') /\ Once(Bodies(opening')) /\ ToSet(got') \cap OpsOf(Bodies(opening')) = {}
  BY <1>1 DEF OrderInv
<1>4. Before(Arrived', OpsOf(Path'))
  BY <1>1 DEF OrderInv, Before
<1>5. Arrived' \cup OpsOf(Path') \subseteq 1 .. issued'
  BY <1>1, <1>2 DEF OrderInv
<1>6. ops' = Arrived' \cup lost' \cup OpsOf(Path')
  BY <1>1 DEF OrderInv
<1> QED
  BY <1>3, <1>4, <1>5, <1>6 DEF OrderInv

LEMMA PathNow ==
    ASSUME TypeInv
    PROVE  /\ OpsOf(Path) = OpsOf(Bodies(up)) \cup OpsOf(sealing) \cup OpsOf(outbox)
           /\ InOrder(Path) <=>
                 /\ InOrder(Bodies(up)) /\ InOrder(sealing) /\ InOrder(outbox)
                 /\ Before(OpsOf(Bodies(up)), OpsOf(sealing)) /\ Before(OpsOf(Bodies(up)), OpsOf(outbox))
                 /\ Before(OpsOf(sealing), OpsOf(outbox))
BY QueueTypes, PathIs DEF Path

LEMMA PathNext ==
    ASSUME TypeInv'
    PROVE  /\ OpsOf(Path') = OpsOf(Bodies(up')) \cup OpsOf(sealing') \cup OpsOf(outbox')
           /\ InOrder(Path') <=>
                 /\ InOrder(Bodies(up')) /\ InOrder(sealing') /\ InOrder(outbox')
                 /\ Before(OpsOf(Bodies(up')), OpsOf(sealing')) /\ Before(OpsOf(Bodies(up')), OpsOf(outbox'))
                 /\ Before(OpsOf(sealing'), OpsOf(outbox'))
<1>1. up' \in Seq(Frame) /\ sealing' \in Seq(Message) /\ outbox' \in Seq(Message)
  BY DEF TypeInv, TypeOK
<1>2. Bodies(up') \in Seq(Message)
  BY <1>1, BodyType
<1>3. Path' = PathOf(Bodies(up'), sealing', outbox')
  BY DEF Path
<1> QED
  BY <1>1, <1>2, <1>3, PathIs

LEMMA GoneOrder ==
    ASSUME TypeInv, TypeInv', OrderInv, Gone, lost' = lost \cup OpsOf(Bodies(up)), UNCHANGED <<issued, ops, got>>
    PROVE  OrderInv'
<1>1. Bodies(up') = <<>> /\ UNCHANGED <<sealing, outbox, opening, mode>>
  BY BodyEmpty DEF Gone
<1>2. OpsOf(Bodies(up')) = {} /\ InOrder(Bodies(up'))
  BY <1>1, EmptyQueue
<1>3. InOrder(Path') /\ OpsOf(Path') \cup OpsOf(Bodies(up)) = OpsOf(Path)
  BY <1>1, <1>2, PathNow, PathNext DEF OrderInv, Before
<1>4. issued \in Nat
  BY Constants DEF TypeInv, TypeOK
<1> QED
  BY <1>1, <1>3, <1>4, OrderKept

LEMMA Singletons == \A m \in Message : <<m>> \in Seq(Message)
OBVIOUS

(* A message of the page goes behind everything sent before. *)
LEMMA SendRawPath ==
    ASSUME TypeInv, TypeInv', FlowInv, NEW ms \in Seq(Message), SendRaw(ms), InOrder(Path),
           InOrder(ms), Before(OpsOf(Path), OpsOf(ms))
    PROVE  InOrder(Path') /\ OpsOf(Path') = OpsOf(Path) \cup OpsOf(ms)
<1> DEFINE m == OpsOf(ms)
<1>1. /\ Before(OpsOf(Bodies(up)), m) /\ Before(OpsOf(sealing), m) /\ Before(OpsOf(outbox), m)
  BY PathNow DEF Before
<1>2. CASE key # 0 /\ sealing' = sealing \o ms /\ UNCHANGED <<up, outbox>>
  <2>1. OpsOf(outbox) = {}
    <3>1. Idle(outbox)
      BY <1>2 DEF FlowInv, KeyInv
    <3> QED
      BY <3>1, QueueTypes, IdleHasNoOps
  <2>2. /\ OpsOf(sealing') = OpsOf(sealing) \cup m
        /\ InOrder(sealing') <=> InOrder(sealing) /\ InOrder(ms) /\ Before(OpsOf(sealing), m)
    BY <1>2, QueueTypes, OpsCat
  <2>3. Before(OpsOf(Bodies(up)), OpsOf(sealing) \cup m) <=>
           Before(OpsOf(Bodies(up)), OpsOf(sealing)) /\ Before(OpsOf(Bodies(up)), m)
    BY DEF Before
  <2>4. \A A : Before(A, {})
    BY DEF Before
  <2> QED
    BY <1>1, <1>2, <2>1, <2>2, <2>3, <2>4, PathNow, PathNext
<1>3. CASE key = 0 /\ sock = "open" /\ (Relay => gate = "ready") /\ up' = up \o Plain(ms) /\ UNCHANGED <<sealing, outbox>>
  <2>1. sealing = <<>> /\ outbox = <<>>
    BY <1>3, EncIsRelay DEF TypeInv, FlowInv, GateInv, KeyInv
  <2>2. Bodies(up') = Bodies(up) \o ms
    BY <1>3, QueueTypes, PlainSent
  <2>3. /\ OpsOf(Bodies(up')) = OpsOf(Bodies(up)) \cup m
        /\ InOrder(Bodies(up')) <=> InOrder(Bodies(up)) /\ InOrder(ms) /\ Before(OpsOf(Bodies(up)), m)
    BY <2>2, QueueTypes, OpsCat
  <2>4. \A A : Before(A, {})
    BY DEF Before
  <2>5. OpsOf(sealing) = {} /\ OpsOf(outbox) = {}
    BY <2>1, EmptyQueue
  <2>6. OpsOf(sealing') = {} /\ OpsOf(outbox') = {} /\ InOrder(sealing') /\ InOrder(outbox')
    BY <1>3, <2>1, EmptyQueue
  <2> QED
    BY <1>1, <2>3, <2>4, <2>5, <2>6, PathNow, PathNext
<1>4. CASE outbox' = outbox \o ms /\ UNCHANGED <<sealing, up>>
  <2>1. /\ OpsOf(outbox') = OpsOf(outbox) \cup m
        /\ InOrder(outbox') <=> InOrder(outbox) /\ InOrder(ms) /\ Before(OpsOf(outbox), m)
    BY <1>4, QueueTypes, OpsCat
  <2>2. \A A : Before(A, OpsOf(outbox) \cup m) <=> Before(A, OpsOf(outbox)) /\ Before(A, m)
    BY DEF Before
  <2> QED
    BY <1>1, <1>4, <2>1, <2>2, PathNow, PathNext
<1> QED
  BY <1>2, <1>3, <1>4 DEF SendRaw

LEMMA SendOrder ==
    ASSUME TypeInv, TypeInv', FlowInv, OrderInv, Op \/ \E s \in Session : Attach(s) \/ Detach(s)
    PROVE  OrderInv'
<1>1. issued \in Nat /\ issued' = issued + 1 /\ issued + 1 \in 1 .. MaxOps
  <2>1. issued \in Nat /\ issued < MaxOps /\ issued' = issued + 1
    BY Constants DEF TypeInv, TypeOK, Op, Attach, Detach
  <2> QED
    BY <2>1, Constants
<1>2. UNCHANGED <<mode, got, opening, lost>> /\ InOrder(Path)
  BY DEF Op, Attach, Detach, theHost, OrderInv
<1>3. ASSUME NEW s \in Session, Attach(s) \/ Detach(s) PROVE OrderInv'
  <2>1. PICK m \in Message : SendRaw(<<m>>) /\ m.k # "op"
    BY <1>3, Messages DEF Attach, Detach
  <2>2. OpsOf(<<m>>) = {} /\ InOrder(<<m>>) /\ <<m>> \in Seq(Message)
    BY <2>1, OneMessage, Singletons
  <2>3. Before(OpsOf(Path), OpsOf(<<m>>))
    BY <2>2 DEF Before
  <2>4. InOrder(Path') /\ OpsOf(Path') = OpsOf(Path)
    BY <1>2, <2>1, <2>2, <2>3, SendRawPath
  <2>5. UNCHANGED ops
    BY <1>3 DEF Attach, Detach
  <2> QED
    BY <1>1, <1>2, <2>4, <2>5, OrderKept
<1>4. CASE Op
  <2> DEFINE m == [k |-> "op", of |-> issued + 1]
             n == issued + 1
  <2>1. m \in Message /\ SendRaw(<<m>>) /\ m.k = "op" /\ m.of = n /\ ops' = ops \cup {n}
    BY <1>1, <1>4, Messages DEF Op
  <2> HIDE DEF m
  <2>2. OpsOf(<<m>>) = {n} /\ InOrder(<<m>>) /\ <<m>> \in Seq(Message)
    BY <2>1, OneMessage, Singletons
  <2>3. \A x \in 1 .. issued : x < n /\ x \in 1 .. n
    BY <1>1
  <2>4. Before(OpsOf(Path), {n}) /\ Before(Arrived, {n})
    BY <2>3 DEF OrderInv, Before
  <2>5. InOrder(Path') /\ OpsOf(Path') = OpsOf(Path) \cup {n}
    BY <1>2, <2>1, <2>2, <2>4, SendRawPath
  <2>6. n \in 1 .. n /\ Arrived' = Arrived /\ (Enc' <=> Enc)
    BY <1>1, <1>2 DEF Arrived, Enc
  <2>7. Arrived' \cup OpsOf(Path') \subseteq 1 .. issued'
    BY <1>1, <1>2, <2>3, <2>5, <2>6 DEF OrderInv
  <2>8. Before(Arrived', OpsOf(Path'))
    BY <2>4, <2>5, <2>6 DEF OrderInv, Before
  <2>9. ops' = Arrived' \cup lost' \cup OpsOf(Path')
    BY <1>2, <2>1, <2>5, <2>6 DEF OrderInv
  <2>10. /\ ~Enc' => Rising(got')
         /\ Single(got') /\ Once(Bodies(opening')) /\ ToSet(got') \cap OpsOf(Bodies(opening')) = {}
    BY <1>2, <2>6 DEF OrderInv
  <2> QED
    BY <2>5, <2>7, <2>8, <2>9, <2>10 DEF OrderInv
<1> QED
  BY <1>3, <1>4

LEMMA MovedUp ==
    ASSUME NEW a \in Seq(Message), NEW b \in Seq(Message), NEW c \in Seq(Message), b # <<>>
    PROVE  Append(a, Head(b)) \o (Tail(b) \o c) = a \o (b \o c)
BY SMTT(20)

LEMMA BodyAppend ==
    ASSUME NEW fs \in Seq(Frame), NEW f \in Frame
    PROVE  Bodies(Append(fs, f)) = Append(Bodies(fs), f.m)
<1> DEFINE n == Len(fs)
           a == Bodies(Append(fs, f))
           b == Append(Bodies(fs), f.m)
<1>1. /\ n \in Nat /\ Append(fs, f) \in Seq(Frame) /\ Len(Append(fs, f)) = n + 1
      /\ (\A i \in 1 .. n : Append(fs, f)[i] = fs[i]) /\ Append(fs, f)[n + 1] = f
  OBVIOUS
<1>2. f.m \in Message
  BY DEF Frame
<1>3. a \in Seq(Message) /\ Len(a) = n + 1 /\ \A i \in 1 .. n + 1 : a[i] = Append(fs, f)[i].m
  BY <1>1, BodyType
<1>4. PICK q \in Seq(Message) : q = Bodies(fs) /\ Len(q) = n /\ \A i \in 1 .. n : q[i] = fs[i].m
  BY BodyType
<1>5. b = Append(q, f.m)
  BY <1>4
<1> HIDE DEF a, b
<1>6. b \in Seq(Message) /\ Len(b) = n + 1 /\ (\A i \in 1 .. n : b[i] = q[i]) /\ b[n + 1] = f.m
  BY <1>2, <1>4, <1>5
<1> HIDE DEF n
<1>7. \A i \in 1 .. n + 1 : i \in 1 .. n \/ i = n + 1
  BY <1>1
<1>8. \A i \in 1 .. n + 1 : a[i] = b[i]
  <2>1. \A i \in 1 .. n : i \in 1 .. n + 1
    BY <1>1
  <2>2. \A i \in 1 .. n : a[i] = b[i]
    BY <1>1, <1>3, <1>4, <1>6, <2>1
  <2>3. n + 1 \in 1 .. n + 1
    BY <1>1
  <2>4. a[n + 1] = b[n + 1]
    BY <1>1, <1>3, <1>6, <2>3
  <2> QED
    BY <1>7, <2>2, <2>4
<1>9. a = b
  BY <1>3, <1>6, <1>8, SameSeq
<1> QED
  BY <1>9 DEF a, b

LEMMA SealMoves ==
    ASSUME TypeInv, sealing # <<>>, sealing' = Tail(sealing), up' = Append(up, [m |-> Head(sealing), sec |-> key]),
           UNCHANGED outbox
    PROVE  Path' = Path
<1>1. [m |-> Head(sealing), sec |-> key] \in Frame
  <2>1. Head(sealing) \in Message
    BY QueueTypes, HeadAndTail
  <2> QED
    BY <2>1 DEF Frame, TypeInv, TypeOK
<1>2. Bodies(up') = Append(Bodies(up), Head(sealing))
  BY <1>1, QueueTypes, BodyAppend
<1>3. PICK a \in Seq(Message) : a = Bodies(up)
  BY QueueTypes
<1>4. Append(a, Head(sealing)) \o (Tail(sealing) \o outbox) = a \o (sealing \o outbox)
  BY QueueTypes, MovedUp
<1>5. Path' = Bodies(up') \o (sealing' \o outbox') /\ Path = Bodies(up) \o (sealing \o outbox)
  BY DEF Path, PathOf
<1> QED
  BY <1>2, <1>3, <1>4, <1>5

LEMMA SealOrder ==
    ASSUME TypeInv, TypeInv', FlowInv, OrderInv, Seal
    PROVE  OrderInv'
<1> DEFINE m == Head(sealing)
           t == Tail(sealing)
<1>1. sealing # <<>> /\ sealing' = t /\ UNCHANGED <<mode, outbox, got, opening, issued, ops>>
  BY DEF Seal, theHost
<1>2. m \in Message /\ t \in Seq(Message) /\ <<m>> \in Seq(Message) /\ sealing = <<m>> \o t
  BY <1>1, HeadAndTail, QueueTypes
<1>3. CASE up' = up /\ lost' = lost \cup OpsOf(<<m>>)
  <2>2. /\ OpsOf(sealing) = OpsOf(<<m>>) \cup OpsOf(t)
        /\ InOrder(sealing) => InOrder(t)
    BY <1>2, OpsCat
  <2>3. OpsOf(sealing) = OpsOf(<<m>>) \cup OpsOf(sealing')
    BY <1>1, <2>2
  <2>4. InOrder(Path') /\ OpsOf(Path) = OpsOf(<<m>>) \cup OpsOf(Path')
    BY <1>1, <1>3, <2>2, <2>3, PathNow, PathNext DEF OrderInv, Before
  <2>5. issued \in Nat
    BY Constants DEF TypeInv, TypeOK
  <2> QED
    BY <1>1, <1>3, <2>4, <2>5, OrderKept
<1>4. CASE up' = Append(up, [m |-> m, sec |-> key]) /\ UNCHANGED lost
  <2>1. Path' = Path
    BY <1>1, <1>4, SealMoves
  <2>2. issued \in Nat
    BY Constants DEF TypeInv, TypeOK
  <2> QED
    BY <1>1, <1>4, <2>1, <2>2, OrderKept DEF OrderInv
<1> QED
  BY <1>3, <1>4 DEF Seal

(* Everything kept goes to the wire, and the sessions to follow after it. *)
LEMMA FlushedPath ==
    ASSUME TypeInv, TypeInv', sealing = <<>>, up' = up \o Plain(outbox \o Attaches), outbox' = <<>>,
           UNCHANGED sealing, InOrder(Path)
    PROVE  InOrder(Path') /\ OpsOf(Path') = OpsOf(Path)
<1>1. /\ outbox \o Attaches \in Seq(Message) /\ OpsOf(outbox \o Attaches) = OpsOf(outbox)
      /\ InOrder(outbox) => InOrder(outbox \o Attaches)
  <2>1. Before(OpsOf(outbox), {})
    BY DEF Before
  <2>2. /\ OpsOf(outbox \o Attaches) = OpsOf(outbox) \cup OpsOf(Attaches)
        /\ InOrder(outbox \o Attaches) <=> InOrder(outbox) /\ InOrder(Attaches) /\ Before(OpsOf(outbox), OpsOf(Attaches))
    BY QueueTypes, OpsCat
  <2>3. outbox \o Attaches \in Seq(Message)
    BY QueueTypes, CatIs
  <2> QED
    BY <2>1, <2>2, <2>3, QueueTypes
<1>2. PICK q \in Seq(Message) : q = outbox \o Attaches
  BY <1>1
<1>3. Bodies(up') = Bodies(up) \o q
  BY <1>2, QueueTypes, PlainSent
<1>4. /\ OpsOf(Bodies(up')) = OpsOf(Bodies(up)) \cup OpsOf(q)
      /\ InOrder(Bodies(up')) <=> InOrder(Bodies(up)) /\ InOrder(q) /\ Before(OpsOf(Bodies(up)), OpsOf(q))
  BY <1>3, QueueTypes, OpsCat
<1>5. \A A : Before(A, {})
  BY DEF Before
<1>6. InOrder(Bodies(up)) /\ InOrder(outbox) /\ Before(OpsOf(Bodies(up)), OpsOf(outbox))
  BY PathNow
<1>7. InOrder(Bodies(up'))
  BY <1>1, <1>2, <1>4, <1>6
<1>8. OpsOf(sealing') = {} /\ InOrder(sealing') /\ OpsOf(outbox') = {} /\ InOrder(outbox')
  BY EmptyQueue
<1>9. InOrder(Path')
  BY <1>5, <1>7, <1>8, PathNext, EmptyQueue DEF Before
<1>10. OpsOf(Path') = OpsOf(Bodies(up)) \cup OpsOf(q) /\ OpsOf(q) = OpsOf(outbox)
  BY <1>1, <1>2, <1>4, <1>8, PathNext
<1> QED
  BY <1>9, <1>10, EmptyQueue, PathNow

LEMMA SealedPath ==
    ASSUME TypeInv, TypeInv', sealing' = sealing \o outbox \o Attaches, outbox' = <<>>, UNCHANGED up, InOrder(Path)
    PROVE  InOrder(Path') /\ OpsOf(Path') = OpsOf(Path)
<1>1. PICK q \in Seq(Message) : q = sealing \o outbox
  BY QueueTypes, CatIs
<1>2. /\ OpsOf(q) = OpsOf(sealing) \cup OpsOf(outbox)
      /\ InOrder(q) <=> InOrder(sealing) /\ InOrder(outbox) /\ Before(OpsOf(sealing), OpsOf(outbox))
  BY <1>1, QueueTypes, OpsCat
<1>3. \A A : Before(A, {})
  BY DEF Before
<1>4. OpsOf(sealing') = OpsOf(q) /\ (InOrder(q) => InOrder(sealing'))
  <2>1. sealing' = q \o Attaches
    BY <1>1
  <2>2. /\ OpsOf(q \o Attaches) = OpsOf(q) \cup OpsOf(Attaches)
        /\ InOrder(q \o Attaches) <=> InOrder(q) /\ InOrder(Attaches) /\ Before(OpsOf(q), OpsOf(Attaches))
    BY QueueTypes, OpsCat
  <2> QED
    BY <1>3, <2>1, <2>2, QueueTypes
<1>5. Before(OpsOf(Bodies(up)), OpsOf(sealing) \cup OpsOf(outbox)) <=>
         Before(OpsOf(Bodies(up)), OpsOf(sealing)) /\ Before(OpsOf(Bodies(up)), OpsOf(outbox))
  BY DEF Before
<1> QED
  BY <1>2, <1>3, <1>4, <1>5, EmptyQueue, PathNow, PathNext

LEMMA OnOpenOrder ==
    ASSUME TypeInv, TypeInv', FlowInv, OrderInv, OnOpen
    PROVE  OrderInv'
<1>1. sock = "dialing" /\ up = <<>> /\ UNCHANGED <<mode, sealing, got, opening, issued, ops, lost>>
  BY DEF OnOpen, FlowInv, WireInv
<1>2. issued \in Nat
  BY Constants DEF TypeInv, TypeOK
<1>3. InOrder(Path') /\ OpsOf(Path') = OpsOf(Path)
  <2>1. CASE up' = <<[m |-> [k |-> "join", of |-> 0], sec |-> 0]>> /\ UNCHANGED outbox
    <3> DEFINE f == [m |-> [k |-> "join", of |-> 0], sec |-> 0]
    <3>1. DOMAIN up' = {1} /\ up'[1] = f
      BY <2>1
    <3>2. Bodies(up') = [i \in {1} |-> f.m] /\ f.m.k # "op"
      BY <3>1 DEF Bodies
    <3>3. OpsOf(Bodies(up')) = {} /\ InOrder(Bodies(up'))
      BY <3>2 DEF OpsOf, InOrder
    <3>4. OpsOf(Bodies(up)) = {}
      BY <1>1, BodyEmpty, EmptyQueue
    <3> QED
      BY <1>1, <2>1, <3>3, <3>4, PathNow, PathNext DEF OrderInv
  <2>2. CASE ~Relay /\ up' = Plain(outbox \o Attaches) /\ outbox' = <<>>
    <3>1. sealing = <<>>
      BY <2>2, EncIsRelay DEF FlowInv, KeyInv
    <3>2. up' = up \o Plain(outbox \o Attaches)
      <4>1. outbox \o Attaches \in Seq(Message)
        BY QueueTypes, CatIs
      <4>2. Plain(outbox \o Attaches) \in Seq(Frame)
        BY <4>1, PlainType
      <4> QED
        BY <1>1, <2>2, <4>2
    <3> QED
      BY <1>1, <2>2, <3>1, <3>2, FlushedPath DEF OrderInv
  <2> QED
    BY <2>1, <2>2 DEF OnOpen
<1> QED
  BY <1>1, <1>2, <1>3, OrderKept

LEMMA ConfirmedOrder ==
    ASSUME TypeInv, TypeInv', OrderInv, NEW k, RelayAuthOk(k), k = 0 => ~Enc /\ sealing = <<>>,
           UNCHANGED <<mode, got, opening, issued, ops, lost>>
    PROVE  OrderInv'
<1>1. InOrder(Path') /\ OpsOf(Path') = OpsOf(Path)
  BY FlushedPath, SealedPath DEF RelayAuthOk, OrderInv
<1>2. issued \in Nat
  BY Constants DEF TypeInv, TypeOK
<1> QED
  BY <1>1, <1>2, OrderKept

LEMMA AnsweringType ==
    ASSUME TypeInv, Answer
    PROVE  answering \in 1 .. MaxConns
BY Constants DEF Answer, TypeInv, TypeOK

LEMMA AnswerOrder ==
    ASSUME TypeInv, TypeInv', FlowInv, OrderInv, Answer
    PROVE  OrderInv'
<1>1. CASE Dispose
  <2>1. Gone /\ lost' = lost \cup OpsOf(Bodies(up)) /\ UNCHANGED <<issued, ops, got>>
    BY <1>1 DEF Answer, Dispose, Gone, Bodies
  <2> QED
    BY <2>1, GoneOrder
<1>2. CASE ~Dispose
  <2> DEFINE m == [k |-> "response", of |-> answering]
  <2>1. UNCHANGED <<mode, sealing, got, opening, issued, ops, lost>>
    BY <1>2 DEF Answer, theHost
  <2>2. m \in Message /\ m.k # "op"
    <3>1. answering \in 1 .. MaxConns
      BY AnsweringType
    <3> QED
      BY <3>1, Messages
  <2>3. CASE up' = up \o Plain(<<m>>) /\ UNCHANGED outbox
    <3> HIDE DEF m
    <3>1. OpsOf(<<m>>) = {} /\ InOrder(<<m>>) /\ <<m>> \in Seq(Message)
      BY <2>2, OneMessage, Singletons
    <3>2. Bodies(up') = Bodies(up) \o <<m>>
      BY <2>3, <3>1, QueueTypes, PlainSent
    <3>3. Before(OpsOf(Bodies(up)), {})
      BY DEF Before
    <3>4. /\ OpsOf(Bodies(up) \o <<m>>) = OpsOf(Bodies(up)) \cup OpsOf(<<m>>)
          /\ InOrder(Bodies(up) \o <<m>>) <=> InOrder(Bodies(up)) /\ InOrder(<<m>>) /\ Before(OpsOf(Bodies(up)), OpsOf(<<m>>))
      BY <3>1, QueueTypes, OpsCat
    <3>5. OpsOf(Bodies(up')) = OpsOf(Bodies(up)) /\ (InOrder(Bodies(up)) => InOrder(Bodies(up')))
      BY <3>1, <3>2, <3>3, <3>4
    <3> QED
      BY <2>1, <2>3, <3>5, PathNow, PathNext, OrderKept, Constants DEF OrderInv, TypeInv, TypeOK
  <2>4. CASE outbox' = Append(outbox, m) /\ UNCHANGED up
    <3> HIDE DEF m
    <3>1. OpsOf(<<m>>) = {} /\ InOrder(<<m>>) /\ <<m>> \in Seq(Message)
      BY <2>2, OneMessage, Singletons
    <3>2. outbox' = outbox \o <<m>>
      BY <2>2, <2>4, QueueTypes, AppendIsCat
    <3>3. Before(OpsOf(outbox), {})
      BY DEF Before
    <3>4. /\ OpsOf(outbox \o <<m>>) = OpsOf(outbox) \cup OpsOf(<<m>>)
          /\ InOrder(outbox \o <<m>>) <=> InOrder(outbox) /\ InOrder(<<m>>) /\ Before(OpsOf(outbox), OpsOf(<<m>>))
      BY <3>1, QueueTypes, OpsCat
    <3>5. OpsOf(outbox') = OpsOf(outbox) /\ (InOrder(outbox) => InOrder(outbox'))
      BY <3>1, <3>2, <3>3, <3>4
    <3> QED
      BY <2>1, <2>4, <3>5, PathNow, PathNext, OrderKept, Constants DEF OrderInv, TypeInv, TypeOK
  <2> QED
    BY <1>2, <2>3, <2>4 DEF Answer
<1> QED
  BY <1>1, <1>2

LEMMA DeriveOrder ==
    ASSUME TypeInv, TypeInv', OrderInv, Derive
    PROVE  OrderInv'
<1>1. CASE Dispose
  <2>1. Gone /\ lost' = lost \cup OpsOf(Bodies(up)) /\ UNCHANGED <<issued, ops, got>>
    BY <1>1 DEF Derive, Dispose, Gone, Bodies
  <2> QED
    BY <2>1, GoneOrder
<1>2. CASE ~Dispose
  <2>1. RelayAuthOk(deriving) /\ deriving # 0 /\ UNCHANGED <<mode, got, opening, issued, ops, lost>>
    BY <1>2 DEF Derive, theHost
  <2>2. deriving = 0 => ~Enc /\ sealing = <<>>
    BY <2>1
  <2> QED
    BY <2>1, <2>2, ConfirmedOrder
<1> QED
  BY <1>1, <1>2

LEMMA SamePathOrder ==
    ASSUME TypeInv, OrderInv, UNCHANGED <<mode, up, sealing, outbox, got, opening, issued, ops, lost>>
    PROVE  OrderInv'
<1>1. Path' = Path /\ issued \in Nat
  BY Constants DEF Path, TypeInv, TypeOK
<1> QED
  BY <1>1, OrderKept DEF OrderInv

LEMMA HandleMessageOrder ==
    ASSUME TypeInv, TypeInv', FlowInv, OrderInv, HandleMessage
    PROVE  OrderInv'
<1>1. UNCHANGED <<mode, got, opening, issued, ops, lost>>
  BY DEF HandleMessage, theHost
<1>2. CASE ~Enc /\ RelayAuthOk(0)
  <2>1. sealing = <<>>
    BY <1>2 DEF FlowInv, KeyInv
  <2>2. 0 = 0 => ~Enc /\ sealing = <<>>
    BY <1>2, <2>1
  <2> QED
    BY <1>1, <1>2, <2>2, ConfirmedOrder
<1>3. CASE UNCHANGED <<up, sealing, outbox>>
  BY <1>1, <1>3, SamePathOrder
<1> QED
  BY <1>2, <1>3 DEF HandleMessage

(* An op the host handles, which is none it has handled before. *)
LEMMA HandledOnce ==
    ASSUME TypeInv, NEW n \in 1 .. MaxOps, n \notin ToSet(got), Single(got)
    PROVE  /\ ToSet(Append(got, n)) = ToSet(got) \cup {n} /\ Single(Append(got, n))
           /\ Rising(got) /\ Before(ToSet(got), {n}) => Rising(Append(got, n))
<1> DEFINE q == Append(got, n)
<1>0. got \in Seq(1 .. MaxOps)
  BY HostTypes
<1>1. /\ DOMAIN q = 1 .. Len(got) + 1 /\ DOMAIN got = 1 .. Len(got) /\ Len(got) \in Nat
      /\ \A k \in 1 .. Len(got) : q[k] = got[k]
      /\ q[Len(got) + 1] = n
  BY <1>0
<1>2. ToSet(q) = ToSet(got) \cup {n}
  <2>1. PICK S : S = 1 .. MaxOps
    OBVIOUS
  <2>2. got \in Seq(S) /\ n \in S
    BY <1>0, <2>1
  <2> QED
    BY ONLY <2>2, ToSetAppend
<1> HIDE DEF q
<1>3. \A k \in 1 .. Len(got) : got[k] \in ToSet(got)
  BY <1>1 DEF ToSet
<1>4. \A k \in DOMAIN q : k \in 1 .. Len(got) \/ k = Len(got) + 1
  BY <1>1
<1>5. Single(q)
  <2> SUFFICES ASSUME NEW i \in DOMAIN q, NEW j \in DOMAIN q, i # j PROVE q[i] # q[j]
    BY DEF Single
  <2>1. CASE i \in 1 .. Len(got) /\ j \in 1 .. Len(got)
    BY <1>1, <2>1 DEF Single
  <2>2. CASE i \in 1 .. Len(got) /\ j = Len(got) + 1
    BY <1>1, <1>3, <2>2
  <2>3. CASE i = Len(got) + 1 /\ j \in 1 .. Len(got)
    BY <1>1, <1>3, <2>3
  <2> QED
    BY <1>4, <2>1, <2>2, <2>3
<1>6. ASSUME Rising(got), Before(ToSet(got), {n}) PROVE Rising(q)
  <2> SUFFICES ASSUME NEW i \in DOMAIN q, NEW j \in DOMAIN q, i < j PROVE q[i] < q[j]
    BY DEF Rising
  <2>1. i \in 1 .. Len(got)
    BY <1>1
  <2>2. CASE j \in 1 .. Len(got)
    BY <1>1, <1>6, <2>1, <2>2 DEF Rising
  <2>3. CASE j = Len(got) + 1
    BY <1>1, <1>3, <1>6, <2>1, <2>3 DEF Before
  <2> QED
    BY <1>4, <2>2, <2>3
<1> QED
  BY <1>2, <1>5, <1>6 DEF q

LEMMA DispatchGot ==
    ASSUME NEW m, Dispatch(m)
    PROVE  \/ m.k = "op" /\ got' = Append(got, m.of) /\ phase' = phase
           \/ m.k # "op" /\ UNCHANGED got
BY DEF Dispatch, FailWith, Business

LEMMA HostReceivesOrder ==
    ASSUME TypeInv, TypeInv', OrderInv, HostReceives
    PROVE  OrderInv'
<1> DEFINE m == Head(up).m
           t == Bodies(Tail(up))
<1>1. /\ up # <<>> /\ up' = Tail(up)
      /\ UNCHANGED <<mode, outbox, sealing, issued, ops>>
  BY DEF HostReceives, client
<1>2. /\ m \in Message /\ <<m>> \in Seq(Message) /\ t \in Seq(Message)
      /\ Bodies(up) = <<m>> \o t /\ Bodies(up') = t /\ Head(up) \in Frame
  BY <1>1, FirstOfUp, QueueTypes
<1>3. \/ opening' = Append(opening, Head(up)) /\ UNCHANGED <<got, lost>> /\ Enc
      \/ m.k = "op" /\ got' = Append(got, m.of) /\ UNCHANGED <<lost, opening>>
      \/ m.k # "op" /\ UNCHANGED <<got, opening>> /\ lost' \in {lost, lost \cup OpsOf(<<m>>)}
      \/ lost' = lost \cup OpsOf(<<m>>) /\ UNCHANGED <<got, opening>>
  <2>1. CASE Opens(Head(up))
    BY <2>1 DEF HostReceives, Opens
  <2>2. CASE /\ UNCHANGED opening /\ HostAccepts(Head(up))
             /\ lost' = IF phase' = "closed" THEN lost \cup OpsOf(<<m>>) ELSE lost
    <3>1. CASE phase = "ok" /\ Dispatch(m)
      BY <2>2, <3>1, DispatchGot
    <3>2. CASE ~(phase = "ok" /\ Dispatch(m))
      <4>1. UNCHANGED got /\ (phase' = "closed" \/ m.k # "op")
        BY <2>2, <3>2 DEF HostAccepts, FailWith
      <4> QED
        BY <2>2, <4>1
    <3> QED
      BY <3>1, <3>2
  <2> QED
    BY <2>1, <2>2 DEF HostReceives
<1> HIDE DEF m, t
<1>4. /\ OpsOf(Bodies(up)) = OpsOf(<<m>>) \cup OpsOf(t)
      /\ InOrder(Bodies(up)) <=> InOrder(<<m>>) /\ InOrder(t) /\ Before(OpsOf(<<m>>), OpsOf(t))
  <2>1. /\ OpsOf(<<m>> \o t) = OpsOf(<<m>>) \cup OpsOf(t)
        /\ InOrder(<<m>> \o t) <=> InOrder(<<m>>) /\ InOrder(t) /\ Before(OpsOf(<<m>>), OpsOf(t))
    BY <1>2, OpsCat
  <2> QED
    BY <1>2, <2>1
<1>5. OpsOf(<<m>>) = IF m.k = "op" THEN {m.of} ELSE {}
  BY <1>2, OneMessage
<1>6. issued \in Nat /\ (Enc' <=> Enc)
  BY <1>1, Constants DEF TypeInv, TypeOK, Enc
<1>7. /\ InOrder(Path') /\ OpsOf(Path) = OpsOf(<<m>>) \cup OpsOf(Path')
      /\ Before(OpsOf(<<m>>), OpsOf(Path'))
  <2>1. InOrder(Path)
    BY DEF OrderInv
  <2>2. /\ Before(OpsOf(t), OpsOf(sealing)) /\ Before(OpsOf(<<m>>), OpsOf(sealing))
        /\ Before(OpsOf(t), OpsOf(outbox)) /\ Before(OpsOf(<<m>>), OpsOf(outbox))
    BY <1>4, <2>1, PathNow DEF Before
  <2>3. InOrder(Path') /\ OpsOf(Path') = OpsOf(t) \cup OpsOf(sealing) \cup OpsOf(outbox)
    BY <1>1, <1>2, <1>4, <2>1, <2>2, PathNow, PathNext
  <2>4. Before(OpsOf(<<m>>), OpsOf(Path'))
    BY <1>4, <2>1, <2>2, <2>3, PathNow DEF Before
  <2> QED
    BY <1>4, <2>3, <2>4, PathNow
<1>8. CASE UNCHANGED <<got, opening>> /\ (lost' = lost \cup OpsOf(<<m>>) \/ (m.k # "op" /\ lost' = lost))
  <2>1. OpsOf(Path') \cup lost' = OpsOf(Path) \cup lost /\ OpsOf(Path') \subseteq OpsOf(Path)
    BY <1>5, <1>7, <1>8
  <2> QED
    BY <1>1, <1>6, <1>7, <1>8, <2>1, OrderKept
(* The op has come, to be handled or opened.                                *)
<1>9. ASSUME Arrived' = Arrived \cup OpsOf(<<m>>), UNCHANGED lost,
             ~Enc => Rising(got'), Single(got'), Once(Bodies(opening')), ToSet(got') \cap OpsOf(Bodies(opening')) = {}
      PROVE  OrderInv'
  <2>1. Before(Arrived', OpsOf(Path'))
    BY <1>7, <1>9 DEF OrderInv, Before
  <2>2. Arrived' \cup OpsOf(Path') = Arrived \cup OpsOf(Path)
    BY <1>7, <1>9
  <2>3. /\ Arrived' \cup OpsOf(Path') \subseteq 1 .. issued'
        /\ ops' = Arrived' \cup lost' \cup OpsOf(Path')
    BY <1>1, <1>9, <2>2 DEF OrderInv
  <2> QED
    BY <1>6, <1>7, <1>9, <2>1, <2>3 DEF OrderInv
<1>10. /\ Before(Arrived, OpsOf(<<m>>)) /\ Arrived \cap OpsOf(<<m>>) = {}
  <2>1. Before(Arrived, OpsOf(<<m>>)) /\ Arrived \subseteq 1 .. issued
    BY <1>7 DEF OrderInv, Before
  <2>2. \A x \in 1 .. issued : ~(x < x)
    BY <1>6
  <2> QED
    BY <2>1, <2>2 DEF Before
<1>11. CASE m.k = "op" /\ got' = Append(got, m.of) /\ UNCHANGED <<lost, opening>>
  <2> DEFINE n == m.of
  <2>1. OpsOf(<<m>>) = {n} /\ n \in 1 .. MaxOps
    BY <1>2, <1>5, <1>11, MessageType
  <2> HIDE DEF n
  <2>2. n \notin Arrived /\ Before(ToSet(got), {n})
    BY <1>10, <2>1 DEF Arrived, Before
  <2>3. /\ ToSet(Append(got, n)) = ToSet(got) \cup {n} /\ Single(Append(got, n))
        /\ Rising(got) /\ Before(ToSet(got), {n}) => Rising(Append(got, n))
    BY <2>1, <2>2, HandledOnce DEF Arrived, OrderInv
  <2>4. /\ ToSet(got') = ToSet(got) \cup {n} /\ Single(got') /\ (~Enc => Rising(got'))
    BY <1>11, <2>2, <2>3 DEF OrderInv, n
  <2>5. opening' = opening /\ lost' = lost
    BY <1>11
  <2>6. Arrived' = Arrived \cup OpsOf(<<m>>) /\ ToSet(got') \cap OpsOf(Bodies(opening')) = {}
    BY <2>1, <2>2, <2>4, <2>5 DEF Arrived, OrderInv
  <2>7. Once(Bodies(opening'))
    BY <2>5 DEF OrderInv
  <2> QED
    BY <1>9, <2>4, <2>5, <2>6, <2>7
<1>12. CASE opening' = Append(opening, Head(up)) /\ UNCHANGED <<got, lost>> /\ Enc
  <2>1. PICK q \in Seq(Message) : q = Bodies(opening)
    BY HostTypes, BodyType
  <2>2. Bodies(opening') = q \o <<m>>
    <3>1. Bodies(Append(opening, Head(up))) = Append(Bodies(opening), Head(up).m)
      BY <1>2, HostTypes, BodyAppend
    <3>2. Append(q, m) = q \o <<m>>
      BY <1>2, <2>1, AppendIsCat
    <3> QED
      BY <1>12, <2>1, <3>1, <3>2 DEF m
  <2>3. /\ OpsOf(q \o <<m>>) = OpsOf(q) \cup OpsOf(<<m>>)
        /\ Once(q \o <<m>>) <=> Once(q) /\ Once(<<m>>) /\ OpsOf(q) \cap OpsOf(<<m>>) = {}
    BY <1>2, OpsCat, OnceCat
  <2>4. OpsOf(q) \subseteq Arrived /\ Once(q) /\ Once(<<m>>)
    BY <2>1, OnceFew DEF Arrived, OrderInv
  <2>5. /\ OpsOf(Bodies(opening')) = OpsOf(Bodies(opening)) \cup OpsOf(<<m>>)
        /\ Once(Bodies(opening'))
    BY <1>10, <2>1, <2>2, <2>3, <2>4
  <2>6. ToSet(got') \cap OpsOf(Bodies(opening')) = {} /\ Arrived' = Arrived \cup OpsOf(<<m>>)
    BY <1>10, <1>12, <2>5 DEF Arrived, OrderInv
  <2> QED
    BY <1>9, <1>12, <2>5, <2>6 DEF OrderInv
<1> QED
  BY <1>3, <1>8, <1>11, <1>12

LEMMA HostOpensOrder ==
    ASSUME TypeInv, TypeInv', FlowInv, OrderInv, NEW i \in DOMAIN opening, HostOpens(i)
    PROVE  OrderInv'
<1> DEFINE m == opening[i].m
<1>1. m \in Message /\ <<m>> \in Seq(Message) /\ opening[i] \in Frame
  BY OpeningType, Singletons
<1>2. UNCHANGED <<mode, up, outbox, sealing, issued, ops, lost>>
  BY DEF HostOpens, client
<1>3. \/ m.k = "op" /\ got' = Append(got, m.of)
      \/ m.k # "op" /\ UNCHANGED got
  <2>1. CASE Dispatch(m)
    BY <2>1, DispatchGot
  <2>2. CASE got' = IF m.k = "op" THEN Append(got, m.of) ELSE got
    BY <2>2
  <2> QED
    BY <2>1, <2>2 DEF HostOpens
<1>4. PICK b \in Seq(Frame), a \in Seq(Frame) : Parts(opening, i, b, a)
  BY OpeningType
<1>5. PICK q \in Seq(Message) : q = Bodies(b)
  BY BodyType
<1>6. PICK r \in Seq(Message) : r = Bodies(a)
  BY BodyType
<1>7. Bodies(opening') = q \o r
  BY <1>4, <1>5, <1>6, BodyCat DEF HostOpens, Parts
<1>8. Bodies(<<opening[i]>>) = <<m>> /\ <<opening[i]>> \in Seq(Frame)
  <2>1. DOMAIN <<opening[i]>> = {1} /\ <<opening[i]>>[1] = opening[i]
    OBVIOUS
  <2>2. Bodies(<<opening[i]>>) = [j \in {1} |-> m]
    BY <2>1 DEF Bodies
  <2>3. <<m>> = [j \in {1} |-> m]
    OBVIOUS
  <2> QED
    BY <1>1, <2>2, <2>3
<1>9. Bodies(opening) = q \o (<<m>> \o r)
  <2>1. PICK f \in Seq(Frame) : f = <<opening[i]>>
    BY <1>8
  <2>2. PICK c \in Seq(Frame) : c = f \o a
    BY CatIs
  <2>3. opening = b \o c /\ Bodies(c) = <<m>> \o r
    BY <1>4, <1>6, <1>8, <2>1, <2>2, BodyCat DEF Parts
  <2>4. Bodies(b \o c) = Bodies(b) \o Bodies(c)
    BY BodyCat
  <2> QED
    BY <1>5, <2>3, <2>4
<1> HIDE DEF m
<1>10. PICK x \in Seq(Message) : x = <<m>> \o r
  BY <1>1, CatIs
<1>11. /\ OpsOf(x) = OpsOf(<<m>>) \cup OpsOf(r)
       /\ Once(x) <=> Once(<<m>>) /\ Once(r) /\ OpsOf(<<m>>) \cap OpsOf(r) = {}
  BY <1>1, <1>10, OpsCat, OnceCat
<1>12. /\ OpsOf(q \o x) = OpsOf(q) \cup OpsOf(x) /\ OpsOf(q \o r) = OpsOf(q) \cup OpsOf(r)
       /\ Once(q \o x) <=> Once(q) /\ Once(x) /\ OpsOf(q) \cap OpsOf(x) = {}
       /\ Once(q \o r) <=> Once(q) /\ Once(r) /\ OpsOf(q) \cap OpsOf(r) = {}
  BY OpsCat, OnceCat
<1>13. Once(q \o x) /\ ToSet(got) \cap OpsOf(q \o x) = {} /\ Bodies(opening) = q \o x
  BY <1>9, <1>10 DEF OrderInv
<1>14. /\ Once(Bodies(opening'))
       /\ OpsOf(Bodies(opening)) = OpsOf(Bodies(opening')) \cup OpsOf(<<m>>)
       /\ OpsOf(Bodies(opening')) \cap OpsOf(<<m>>) = {}
  BY <1>7, <1>11, <1>12, <1>13
<1>15. OpsOf(<<m>>) = IF m.k = "op" THEN {m.of} ELSE {}
  BY <1>1, OneMessage
<1>16. Enc /\ (Enc' <=> Enc)
  <2>1. opening # <<>>
    OBVIOUS
  <2> QED
    BY <1>2, <2>1 DEF FlowInv, KeyInv, Enc
<1>17. Path' = Path
  BY <1>2 DEF Path
<1>18. Single(got') /\ ToSet(got') = ToSet(got) \cup OpsOf(<<m>>)
  <2>1. CASE m.k = "op" /\ got' = Append(got, m.of)
    <3> DEFINE n == m.of
    <3>1. OpsOf(<<m>>) = {n} /\ n \in 1 .. MaxOps
      BY <1>1, <1>15, <2>1, MessageType
    <3> HIDE DEF n
    <3>2. n \notin ToSet(got) /\ Single(got)
      BY <1>13, <1>14, <3>1 DEF OrderInv
    <3>3. ToSet(Append(got, n)) = ToSet(got) \cup {n} /\ Single(Append(got, n))
      BY <3>1, <3>2, HandledOnce
    <3>4. got' = Append(got, n)
      BY <2>1 DEF n
    <3> QED
      BY <3>1, <3>3, <3>4
  <2>2. CASE m.k # "op" /\ UNCHANGED got
    BY <1>15, <2>2 DEF OrderInv
  <2> QED
    BY <1>3, <2>1, <2>2
<1>19. Arrived' = Arrived /\ ToSet(got') \cap OpsOf(Bodies(opening')) = {}
  BY <1>13, <1>14, <1>18 DEF Arrived
<1> QED
  BY <1>2, <1>14, <1>16, <1>17, <1>18, <1>19 DEF OrderInv

LEMMA OrderInit == Init => OrderInv
<1> SUFFICES ASSUME Init PROVE OrderInv
  OBVIOUS
<1>1. got = <<>> /\ ops = {} /\ lost = {} /\ up = <<>> /\ sealing = <<>> /\ outbox = <<>> /\ opening = <<>>
  BY DEF Init
<1>2. TypeInv
  BY InitType
<1>3. OpsOf(Path) = {} /\ InOrder(Path)
  BY <1>1, <1>2, BodyEmpty, EmptyQueue, PathNow DEF Before
<1>4. ToSet(got) = {} /\ Rising(got) /\ Single(got)
  BY <1>1, ToSetFew DEF Rising, Single
<1>5. OpsOf(Bodies(opening)) = {} /\ Once(Bodies(opening))
  BY <1>1, BodyEmpty, EmptyQueue, OnceFew
<1> QED
  BY <1>1, <1>3, <1>4, <1>5 DEF OrderInv, Before, Arrived

LEMMA OrderStep == TypeInv /\ FlowInv /\ OrderInv /\ [Next]_vars => OrderInv'
<1> SUFFICES ASSUME TypeInv, FlowInv, OrderInv, [Next]_vars PROVE OrderInv'
  OBVIOUS
<1>1. TypeInv'
  BY TypeStep
<1>2. ASSUME NEW code \in {"plain", "denied", "revoked"}, OnClose(code) PROVE OrderInv'
  <2>1. Gone /\ lost' = lost \cup OpsOf(Bodies(up)) /\ UNCHANGED <<issued, ops, got>>
    BY <1>2, OnCloseGone DEF OnClose, Bodies
  <2> QED
    BY <1>1, <2>1, GoneOrder
<1>3. CASE Lost \/ \E code \in {"denied", "revoked"} : Refused(code)
  BY <1>2, <1>3 DEF Lost, Refused
<1>4. CASE ClosedByHost
  <2>1. Head(down) \in Down
    BY <1>4, HeadAndTail DEF ClosedByHost, TypeInv, TypeOK
  <2> QED
    BY <1>2, <1>4, <2>1, DownType DEF ClosedByHost
<1>5. CASE \/ UNCHANGED vars \/ Connect \/ AuthTimeout \/ \E s \in Session : SessionEnds(s)
           \/ \E i \in DOMAIN reading : PageOpens(i)
  <2>1. UNCHANGED <<mode, up, sealing, outbox, got, opening, issued, ops, lost>>
    BY <1>5 DEF vars, client, net, theHost, Connect, AuthTimeout, FailWith, SessionEnds, PageOpens
  <2> QED
    BY <2>1, SamePathOrder
<1> QED
  BY <1>1, <1>3, <1>4, <1>5, SendOrder, SealOrder, OnOpenOrder, AnswerOrder, DeriveOrder, HandleMessageOrder,
     HostReceivesOrder, HostOpensOrder DEF Next

(* webSocketTransport.ts:97 and :466, for every page and every sequence of  *)
(* connections, breaks and refusals: nothing is sent before the host has    *)
(* confirmed the connection, what it asked to be sealed is sealed for that  *)
(* connection, the ops are handled once, whole but for what a break takes   *)
(* away, and over a connection in clear in the order the page sent them.    *)
THEOREM DeliveryOrderly == Spec => []OrderlyDelivery
<1>1. TypeInv /\ FlowInv /\ OrderInv => OrderlyDelivery
  BY FlowIsNoEarlyBusiness, DeliveryFollows DEF FlowInv, OrderlyDelivery
<1>2. Init => TypeInv /\ FlowInv /\ OrderInv
  BY InitType, FlowInit, OrderInit
<1>3. TypeInv /\ FlowInv /\ OrderInv /\ [Next]_vars => (TypeInv /\ FlowInv /\ OrderInv)'
  BY TypeStep, FlowStep, OrderStep
<1> QED
  BY <1>1, <1>2, <1>3, PTL DEF Spec

-----------------------------------------------------------------------------
(* The sessions the page knows of, over a connection in clear *)

LEMMA InClear ==
    ASSUME FlowInv, ~Enc
    PROVE  sealing = <<>> /\ deriving = 0 /\ key = 0 /\ opening = <<>>
BY DEF FlowInv, KeyInv

AtLeast(q, S) == \A d \in ToSet(q) : d.k = "tabs" => S \subseteq d.of

(* Whether S is what the page knows after the messages of a queue, if b     *)
(* says so before.                                                          *)
Announced(q, S, b) ==
    \/ b /\ \A i \in DOMAIN q : q[i].k # "tabs"
    \/ \E i \in DOMAIN q : q[i].k = "tabs" /\ q[i].of = S /\ \A j \in DOMAIN q : j > i => q[j].k # "tabs"

TabsInv ==
    /\ AtLeast(down, sessions)
    /\ followed \subseteq sessions /\ attachedIds \subseteq known
    /\ phase = "ok" => Announced(down, sessions, known \subseteq sessions)

LEMMA DownFirst ==
    ASSUME NEW q \in Seq(Down), q # <<>>
    PROVE  Head(q) \in ToSet(q) /\ ToSet(Tail(q)) \subseteq ToSet(q)
BY ToSetHead

LEMMA AnnouncedFirst ==
    ASSUME NEW q \in Seq(Down), q # <<>>, NEW S, NEW b, Announced(q, S, b)
    PROVE  IF Head(q).k = "tabs" THEN Announced(Tail(q), S, Head(q).of = S) ELSE Announced(Tail(q), S, b)
<1> DEFINE n == Len(q)
           t == Tail(q)
<1>1. /\ n \in Nat /\ n >= 1 /\ DOMAIN q = 1 .. n /\ DOMAIN t = 1 .. (n - 1)
      /\ \A i \in 1 .. (n - 1) : t[i] = q[i + 1]
      /\ Head(q) = q[1]
  OBVIOUS
<1> HIDE DEF n, t
<1>2. \A i \in 1 .. (n - 1) : i + 1 \in 1 .. n
  BY <1>1
<1>3. CASE b /\ \A i \in 1 .. n : q[i].k # "tabs"
  <2>1. \A i \in 1 .. (n - 1) : t[i].k # "tabs"
    BY <1>1, <1>2, <1>3
  <2>2. q[1].k # "tabs"
    BY <1>1, <1>3
  <2> QED
    BY <1>1, <1>3, <2>1, <2>2 DEF Announced, t
<1>4. CASE \E i \in 1 .. n : q[i].k = "tabs" /\ q[i].of = S /\ \A j \in 1 .. n : j > i => q[j].k # "tabs"
  <2> PICK i \in 1 .. n : q[i].k = "tabs" /\ q[i].of = S /\ \A j \in 1 .. n : j > i => q[j].k # "tabs"
    BY <1>4
  <2>1. CASE i = 1
    <3>1. \A j \in 1 .. (n - 1) : t[j].k # "tabs"
      <4> TAKE j \in 1 .. (n - 1)
      <4>1. j + 1 > 1 /\ j + 1 \in 1 .. n
        BY <1>1
      <4> QED
        BY <1>1, <2>1, <4>1
    <3> QED
      BY <1>1, <2>1, <3>1 DEF Announced, t
  <2>2. CASE i # 1
    <3>1. i - 1 \in 1 .. (n - 1) /\ t[i - 1] = q[i]
      BY <1>1, <2>2
    <3>2. ASSUME NEW j \in 1 .. (n - 1), j > i - 1 PROVE t[j].k # "tabs"
      <4>1. j + 1 > i /\ j + 1 \in 1 .. n
        BY <1>1, <3>2
      <4> QED
        BY <1>1, <4>1
    <3>3. \E l \in DOMAIN t : t[l].k = "tabs" /\ t[l].of = S /\ \A j \in DOMAIN t : j > l => t[j].k # "tabs"
      BY <1>1, <3>1, <3>2
    <3> QED
      BY <3>3 DEF Announced, t
  <2> QED
    BY <2>1, <2>2
<1> QED
  BY <1>1, <1>3, <1>4 DEF Announced

LEMMA AnnouncedLast ==
    ASSUME NEW q \in Seq(Down), NEW d \in Down, NEW S, NEW b
    PROVE  /\ d.k = "tabs" /\ d.of = S => Announced(Append(q, d), S, b)
           /\ d.k # "tabs" /\ Announced(q, S, b) => Announced(Append(q, d), S, b)
<1> DEFINE n == Len(q)
           t == Append(q, d)
<1>1. /\ n \in Nat /\ DOMAIN q = 1 .. n /\ DOMAIN t = 1 .. n + 1
      /\ \A i \in 1 .. n : t[i] = q[i]
      /\ t[n + 1] = d
  OBVIOUS
<1> HIDE DEF n, t
<1>2. \A i \in 1 .. n + 1 : i \in 1 .. n \/ i = n + 1
  BY <1>1
<1>3. ASSUME d.k = "tabs", d.of = S PROVE Announced(t, S, b)
  <2>1. n + 1 \in DOMAIN t /\ \A j \in DOMAIN t : ~(j > n + 1)
    BY <1>1
  <2> QED
    BY <1>1, <1>3, <2>1 DEF Announced
<1>4. ASSUME d.k # "tabs", Announced(q, S, b) PROVE Announced(t, S, b)
  <2>1. CASE b /\ \A i \in 1 .. n : q[i].k # "tabs"
    BY <1>1, <1>2, <1>4, <2>1 DEF Announced
  <2>2. CASE \E i \in 1 .. n : q[i].k = "tabs" /\ q[i].of = S /\ \A j \in 1 .. n : j > i => q[j].k # "tabs"
    <3> PICK i \in 1 .. n : q[i].k = "tabs" /\ q[i].of = S /\ \A j \in 1 .. n : j > i => q[j].k # "tabs"
      BY <2>2
    <3>1. i \in DOMAIN t /\ t[i] = q[i]
      BY <1>1
    <3>2. \A j \in 1 .. n + 1 : j > i => t[j].k # "tabs"
      BY <1>1, <1>2, <1>4
    <3> QED
      BY <1>1, <3>1, <3>2 DEF Announced
  <2> QED
    BY <1>1, <1>4, <2>1, <2>2 DEF Announced
<1> QED
  BY <1>3, <1>4 DEF t

LEMMA DownLast ==
    ASSUME NEW q \in Seq(Down), NEW d \in Down, NEW S, AtLeast(q, S), d.k = "tabs" => S \subseteq d.of
    PROVE  AtLeast(Append(q, d), S)
BY ToSetAppend DEF AtLeast

LEMMA AnnouncedMore ==
    ASSUME NEW q, NEW S, NEW b, NEW c, b => c, Announced(q, S, b)
    PROVE  Announced(q, S, c)
BY DEF Announced

LEMMA NothingAnnounced == \A S : AtLeast(<<>>, S)
BY ToSetFew DEF AtLeast

LEMMA TabsType ==
    ASSUME TypeInv
    PROVE  down \in Seq(Down) /\ sessions \in SUBSET Session
BY DEF TypeInv, TypeOK

(* The wire of the host is left alone, or ends with the connection. *)
LEMMA SameTabs ==
    ASSUME TabsInv, UNCHANGED <<down, sessions, phase, known>>, followed' \subseteq sessions,
           attachedIds' \subseteq known
    PROVE  TabsInv'
BY DEF TabsInv, AtLeast, Announced

LEMMA GoneTabs ==
    ASSUME TabsInv, Gone, UNCHANGED <<sessions, attachedIds, known>>
    PROVE  TabsInv'
<1>1. AtLeast(down', sessions')
  BY NothingAnnounced DEF Gone
<1> QED
  BY <1>1 DEF TabsInv, Gone

LEMMA OnOpenTabs ==
    ASSUME TypeInv, FlowInv, TabsInv, OnOpen
    PROVE  TabsInv'
<1>1. UNCHANGED <<sessions, followed, attachedIds, known>> /\ down = <<>>
  BY DEF OnOpen, FlowInv, WireInv
<1>2. CASE UNCHANGED <<phase, down>>
  BY <1>1, <1>2, SameTabs DEF TabsInv
<1>3. CASE phase' = "ok" /\ down' = <<[k |-> "ok", of |-> 0], [k |-> "tabs", of |-> sessions]>>
  <2> DEFINE e == [k |-> "ok", of |-> 0]
             d == [k |-> "tabs", of |-> sessions]
  <2>1. e \in Down /\ d \in Down /\ d.k = "tabs" /\ d.of = sessions /\ e.k # "tabs"
    BY TabsType, Downs
  <2> HIDE DEF e, d
  <2>2. down' = Append(<<e>>, d) /\ <<e>> \in Seq(Down)
    BY <1>3, <2>1 DEF d, e
  <2>3. AtLeast(<<e>>, sessions)
    BY <2>1, ToSetFew DEF AtLeast
  <2>4. AtLeast(down', sessions)
    BY <2>1, <2>2, <2>3, DownLast
  <2>5. Announced(down', sessions, known \subseteq sessions)
    BY <2>1, <2>2, AnnouncedLast
  <2> QED
    BY <1>1, <2>4, <2>5 DEF TabsInv
<1> QED
  BY <1>2, <1>3 DEF OnOpen

LEMMA HandleMessageTabs ==
    ASSUME TypeInv, TabsInv, ~Enc, HandleMessage
    PROVE  TabsInv'
<1> DEFINE d == Head(down)
<1>1. down # <<>> /\ down' = Tail(down) /\ UNCHANGED <<phase, sessions, followed>>
  BY DEF HandleMessage, theHost
<1>2. d \in ToSet(down) /\ ToSet(down') \subseteq ToSet(down)
  BY <1>1, TabsType, DownFirst
<1>3. AtLeast(down', sessions')
  BY <1>1, <1>2 DEF TabsInv, AtLeast
<1>4. phase = "ok" => IF d.k = "tabs" THEN Announced(down', sessions, d.of = sessions)
                                      ELSE Announced(down', sessions, known \subseteq sessions)
  BY <1>1, TabsType, AnnouncedFirst DEF TabsInv
<1>5. CASE d.k = "tabs" /\ OnTabs(d.of)
  <2>1. known' = d.of /\ attachedIds' \subseteq known'
    BY <1>5 DEF OnTabs
  <2>2. d.of = sessions => known' \subseteq sessions
    BY <2>1
  <2>3. phase = "ok" => Announced(down', sessions, known' \subseteq sessions)
    BY <1>4, <1>5, <2>2, AnnouncedMore
  <2> QED
    BY <1>1, <1>3, <2>1, <2>3 DEF TabsInv
<1>6. CASE d.k # "tabs" /\ UNCHANGED <<attachedIds, known>>
  BY <1>1, <1>3, <1>4, <1>6 DEF TabsInv
<1> QED
  BY <1>5, <1>6 DEF HandleMessage, Handled, Sealed

LEMMA FailWithTabs ==
    ASSUME TypeInv, TabsInv, NEW what \in {"denied", "other"}, FailWith(what),
           UNCHANGED <<sessions, attachedIds, known>>
    PROVE  TabsInv'
<1>1. PICK e \in Down, c \in Down : e.k = "error" /\ c.k = "close" /\ down' = down \o <<e, c>>
  BY TabsType, FailWithIs
<1>2. down' = Append(Append(down, e), c) /\ Append(down, e) \in Seq(Down)
  BY <1>1, TabsType, TwoDown
<1>3. AtLeast(Append(down, e), sessions)
  BY <1>1, TabsType, DownLast DEF TabsInv
<1>4. AtLeast(down', sessions)
  BY <1>1, <1>2, <1>3, DownLast
<1> QED
  BY <1>4 DEF TabsInv, FailWith

LEMMA HostReceivesTabs ==
    ASSUME TypeInv, TabsInv, ~Enc, HostReceives
    PROVE  TabsInv'
<1>1. HostAccepts(Head(up)) /\ UNCHANGED <<sessions, attachedIds, known, conn>>
  BY DEF HostReceives, Opens, client
<1>2. ASSUME NEW e \in Down, e.k # "tabs", down' = Append(down, e), UNCHANGED followed, phase' = "ok" => phase = "ok"
      PROVE  TabsInv'
  <2>1. AtLeast(down', sessions)
    BY <1>2, TabsType, DownLast DEF TabsInv
  <2>2. phase = "ok" => Announced(down', sessions, known \subseteq sessions)
    BY <1>2, TabsType, AnnouncedLast DEF TabsInv
  <2> QED
    BY <1>1, <1>2, <2>1, <2>2 DEF TabsInv
<1>3. CASE phase' = "challenged" /\ down' = Append(down, [k |-> "challenge", of |-> conn]) /\ UNCHANGED followed
  <2>1. [k |-> "challenge", of |-> conn] \in Down
    <3>1. conn \in 1 .. MaxConns
      BY Constants DEF TypeInv, TypeOK
    <3> QED
      BY <3>1, Downs
  <2> QED
    BY <1>2, <1>3, <2>1
<1>4. CASE /\ UNCHANGED followed
           /\ down' = down \o <<[k |-> "ok", of |-> 0], [k |-> "tabs", of |-> sessions]>>
  <2> DEFINE e == [k |-> "ok", of |-> 0]
             d == [k |-> "tabs", of |-> sessions]
  <2>1. e \in Down /\ d \in Down /\ d.k = "tabs" /\ d.of = sessions /\ e.k # "tabs"
    BY TabsType, Downs
  <2>2. down' = down \o <<e, d>>
    BY <1>4
  <2> HIDE DEF e, d
  <2>3. down' = Append(Append(down, e), d) /\ Append(down, e) \in Seq(Down)
    BY <2>1, <2>2, TabsType, TwoDown
  <2>4. AtLeast(Append(down, e), sessions)
    BY <2>1, TabsType, DownLast DEF TabsInv
  <2>5. AtLeast(down', sessions)
    BY <2>1, <2>3, <2>4, DownLast
  <2>6. Announced(down', sessions, known \subseteq sessions)
    BY <2>1, <2>3, AnnouncedLast
  <2> QED
    BY <1>1, <1>4, <2>5, <2>6 DEF TabsInv
<1>5. CASE down' = Append(down, [k |-> "error", of |-> "other"]) /\ UNCHANGED <<followed, phase>>
  <2>1. [k |-> "error", of |-> "other"] \in Down
    BY Downs
  <2> QED
    BY <1>2, <1>5, <2>1
<1>6. CASE FailWith("denied") \/ FailWith("other")
  BY <1>1, <1>6, FailWithTabs
<1>7. CASE followed' \subseteq sessions /\ UNCHANGED <<down, phase>>
  BY <1>1, <1>7, SameTabs DEF TabsInv
<1>8. Head(up).m.of \in sessions => followed \cup {Head(up).m.of} \subseteq sessions
  BY DEF TabsInv
<1>9. \A x : followed \ {x} \subseteq sessions
  BY DEF TabsInv
<1> QED
  BY <1>1, <1>3, <1>4, <1>5, <1>6, <1>7, <1>8, <1>9 DEF HostAccepts, Dispatch, TabsInv

LEMMA SessionEndsTabs ==
    ASSUME TypeInv, TabsInv, NEW s \in Session, SessionEnds(s)
    PROVE  TabsInv'
<1>1. /\ sessions' = sessions \ {s} /\ followed' \subseteq sessions'
      /\ UNCHANGED <<phase, attachedIds, known>>
  BY DEF SessionEnds, TabsInv, client
<1>2. AtLeast(down, sessions')
  BY <1>1 DEF TabsInv, AtLeast
<1>3. CASE phase # "ok" /\ down' = down
  BY <1>1, <1>2, <1>3 DEF TabsInv
<1>4. CASE phase = "ok" /\ down' = Append(down, [k |-> "tabs", of |-> sessions \ {s}])
  <2> DEFINE d == [k |-> "tabs", of |-> sessions \ {s}]
  <2>1. d \in Down /\ d.k = "tabs" /\ d.of = sessions'
    <3>1. sessions \ {s} \in SUBSET Session
      BY TabsType
    <3> QED
      BY <1>1, <3>1, Downs
  <2> HIDE DEF d
  <2>2. AtLeast(down', sessions')
    BY <1>2, <1>4, <2>1, TabsType, DownLast DEF d
  <2>3. Announced(down', sessions', known' \subseteq sessions')
    BY <1>4, <2>1, TabsType, AnnouncedLast DEF d
  <2> QED
    BY <1>1, <2>2, <2>3 DEF TabsInv
<1> QED
  BY <1>3, <1>4 DEF SessionEnds

LEMMA TabsInit == Init => TabsInv
BY NothingAnnounced DEF Init, TabsInv

LEMMA TabsStep == TypeInv /\ FlowInv /\ ~Enc /\ TabsInv /\ [Next]_vars => TabsInv'
<1> SUFFICES ASSUME TypeInv, FlowInv, ~Enc, TabsInv, [Next]_vars PROVE TabsInv'
  OBVIOUS
<1>1. ASSUME NEW code \in {"plain", "denied", "revoked"}, OnClose(code) PROVE TabsInv'
  <2>1. Gone /\ UNCHANGED <<sessions, attachedIds, known>>
    BY <1>1, OnCloseGone DEF OnClose
  <2> QED
    BY <2>1, GoneTabs
<1>2. CASE Lost \/ \E code \in {"denied", "revoked"} : Refused(code)
  BY <1>1, <1>2 DEF Lost, Refused
<1>3. CASE ClosedByHost
  <2>1. Head(down) \in Down
    BY <1>3, HeadAndTail DEF ClosedByHost, TypeInv, TypeOK
  <2> QED
    BY <1>1, <1>3, <2>1, DownType DEF ClosedByHost
<1>4. CASE (Answer \/ Derive) /\ Dispose
  <2>1. Gone /\ UNCHANGED <<sessions, attachedIds, known>>
    BY <1>4 DEF Answer, Derive, Dispose, Gone
  <2> QED
    BY <2>1, GoneTabs
<1>5. CASE UNCHANGED vars \/ Seal \/ Op \/ Connect \/ ((Answer \/ Derive) /\ ~Dispose)
           \/ \E s \in Session : Attach(s) \/ Detach(s)
  <2>1. UNCHANGED <<down, sessions, phase, known, followed>>
    BY <1>5 DEF vars, client, net, theHost, Seal, Op, Connect, Answer, Derive, Attach, Detach
  <2>2. attachedIds' \subseteq known
    BY <1>5 DEF vars, client, theHost, Seal, Op, Connect, Answer, Derive, Attach, Detach, TabsInv
  <2> QED
    BY <2>1, <2>2, SameTabs DEF TabsInv
<1>6. CASE AuthTimeout
  BY <1>6, FailWithTabs DEF AuthTimeout, client
<1>7. CASE \E s \in Session : SessionEnds(s)
  BY <1>7, SessionEndsTabs
<1>8. ~(\E i \in DOMAIN reading : PageOpens(i)) /\ ~(\E i \in DOMAIN opening : HostOpens(i))
  BY InClear DEF PageOpens
<1> QED
  BY <1>2, <1>3, <1>4, <1>5, <1>6, <1>7, <1>8, OnOpenTabs, HandleMessageTabs, HostReceivesTabs DEF Next

-----------------------------------------------------------------------------
(* What the host sends, and what the page follows *)

Fate(q, s, f, p) == After(q, s, s \in f /\ p # "closed")

(* The host has confirmed the connection, and the page knows.               *)
Confirmed == sock = "open" /\ phase = "ok" /\ (Relay => deriving = 0 /\ Without(down, "ok"))

(* When everything on its way has arrived, the host sends no session that   *)
(* the page does not follow, and on a confirmed connection every one it     *)
(* does.                                                                    *)
FollowInv ==
    /\ \A s \in sessions : Fate(Path, s, followed, phase) => s \in attachedIds
    /\ Confirmed => \A s \in sessions \cap attachedIds : Fate(Path, s, followed, phase)

(* r is told what q is told, and then ms. *)
Adds(q, r, ms) ==
    \A s : /\ Untold(r, s) <=> Untold(q, s) /\ Untold(ms, s)
           /\ AttachedLast(r, s) <=> (AttachedLast(q, s) /\ Untold(ms, s)) \/ AttachedLast(ms, s)

LEMMA CatAdds ==
    ASSUME NEW q \in Seq(Message), NEW r \in Seq(Message)
    PROVE  Adds(q, q \o r, r)
BY ToldCat DEF Adds

LEMMA PathTold ==
    ASSUME NEW a \in Seq(Message), NEW b \in Seq(Message), NEW c \in Seq(Message), NEW s
    PROVE  /\ Untold(PathOf(a, b, c), s) <=> Untold(a, s) /\ Untold(b, s) /\ Untold(c, s)
           /\ AttachedLast(PathOf(a, b, c), s) <=>
                 \/ (\/ AttachedLast(a, s) /\ Untold(b, s)
                     \/ AttachedLast(b, s)) /\ Untold(c, s)
                 \/ AttachedLast(c, s)
<1>1. PICK d \in Seq(Message) : d = b \o c
  BY CatIs
<1>2. /\ Untold(d, s) <=> Untold(b, s) /\ Untold(c, s)
      /\ AttachedLast(d, s) <=> (AttachedLast(b, s) /\ Untold(c, s)) \/ AttachedLast(c, s)
  BY <1>1, ToldCat
<1>3. /\ Untold(a \o d, s) <=> Untold(a, s) /\ Untold(d, s)
      /\ AttachedLast(a \o d, s) <=> (AttachedLast(a, s) /\ Untold(d, s)) \/ AttachedLast(d, s)
  BY ToldCat
<1>4. PathOf(a, b, c) = a \o d
  BY <1>1 DEF PathOf
<1> QED
  BY <1>2, <1>3, <1>4

LEMMA ToldNow ==
    ASSUME TypeInv, NEW s
    PROVE  /\ Untold(Path, s) <=> Untold(Bodies(up), s) /\ Untold(sealing, s) /\ Untold(outbox, s)
           /\ AttachedLast(Path, s) <=>
                 \/ (\/ AttachedLast(Bodies(up), s) /\ Untold(sealing, s)
                     \/ AttachedLast(sealing, s)) /\ Untold(outbox, s)
                 \/ AttachedLast(outbox, s)
BY QueueTypes, PathTold DEF Path

LEMMA ToldNext ==
    ASSUME TypeInv', NEW s
    PROVE  /\ Untold(Path', s) <=> Untold(Bodies(up'), s) /\ Untold(sealing', s) /\ Untold(outbox', s)
           /\ AttachedLast(Path', s) <=>
                 \/ (\/ AttachedLast(Bodies(up'), s) /\ Untold(sealing', s)
                     \/ AttachedLast(sealing', s)) /\ Untold(outbox', s)
                 \/ AttachedLast(outbox', s)
<1>1. up' \in Seq(Frame) /\ sealing' \in Seq(Message) /\ outbox' \in Seq(Message)
  BY DEF TypeInv, TypeOK
<1>2. Bodies(up') \in Seq(Message)
  BY <1>1, BodyType
<1>3. Path' = PathOf(Bodies(up'), sealing', outbox')
  BY DEF Path
<1> QED
  BY <1>1, <1>2, <1>3, PathTold

LEMMA AttachesTold ==
    ASSUME TypeInv, NEW s
    PROVE  /\ AttachedLast(Attaches, s) <=> s \in attachedIds
           /\ Untold(Attaches, s) <=> s \notin attachedIds
<1>1. attachedIds \subseteq Session
  BY DEF TypeInv, TypeOK
<1>2. \A i \in DOMAIN Attaches : Attaches[i].k = "attach" /\ Attaches[i].of \in attachedIds
  BY <1>1, AttachesType
<1>3. s \in attachedIds => \E i \in DOMAIN Attaches :
         Attaches[i].of = s /\ \A j \in DOMAIN Attaches : j # i => Attaches[j].of # s
  BY <1>1, AttachesType
<1>4. DOMAIN Attaches \subseteq Nat
  BY QueueTypes
<1>5. ASSUME s \in attachedIds PROVE AttachedLast(Attaches, s) /\ ~Untold(Attaches, s)
  <2>1. PICK i \in DOMAIN Attaches : Attaches[i].of = s /\ \A j \in DOMAIN Attaches : j # i => Attaches[j].of # s
    BY <1>3, <1>5
  <2>2. \A j \in DOMAIN Attaches : j > i => ~About(Attaches[j], s)
    BY <1>4, <2>1 DEF About
  <2>3. About(Attaches[i], s) /\ Attaches[i].k = "attach"
    BY <1>2, <2>1 DEF About
  <2> QED
    BY <2>1, <2>2, <2>3 DEF AttachedLast, Untold
<1>6. ASSUME s \notin attachedIds PROVE ~AttachedLast(Attaches, s) /\ Untold(Attaches, s)
  BY <1>2, <1>6 DEF AttachedLast, Untold, About
<1> QED
  BY <1>5, <1>6

(* A step that tells the host nothing of the sessions that are left. *)
LEMMA FollowKept ==
    ASSUME FollowInv, sessions' \subseteq sessions,
           \A s \in sessions' : s \in attachedIds' <=> s \in attachedIds,
           \A s \in sessions' : Fate(Path', s, followed', phase') => Fate(Path, s, followed, phase),
           Confirmed' => Confirmed /\ \A s \in sessions' : Fate(Path, s, followed, phase) => Fate(Path', s, followed', phase')
    PROVE  FollowInv'
BY DEF FollowInv

LEMMA GoneFollows ==
    ASSUME TypeInv, TypeInv', FollowInv, Gone, UNCHANGED <<sessions, attachedIds>>
    PROVE  FollowInv'
<1>1. Bodies(up') = <<>> /\ UNCHANGED <<sealing, outbox>> /\ followed' = {} /\ ~Confirmed'
  BY BodyEmpty DEF Gone, Confirmed
<1>2. ASSUME NEW s, Fate(Path', s, followed', phase') PROVE Fate(Path, s, followed, phase)
  BY <1>1, <1>2, ToldNone, ToldNow, ToldNext DEF Fate, After
<1> QED
  BY <1>1, <1>2, FollowKept

LEMMA SendRawAdds ==
    ASSUME TypeInv, TypeInv', FlowInv, NEW ms \in Seq(Message), SendRaw(ms)
    PROVE  Adds(Path, Path', ms)
<1> SUFFICES ASSUME NEW s
             PROVE  /\ Untold(Path', s) <=> Untold(Path, s) /\ Untold(ms, s)
                    /\ AttachedLast(Path', s) <=> (AttachedLast(Path, s) /\ Untold(ms, s)) \/ AttachedLast(ms, s)
  BY DEF Adds
<1>1. CASE key # 0 /\ sealing' = sealing \o ms /\ UNCHANGED <<up, outbox>>
  <2>1. Untold(outbox, s) /\ ~AttachedLast(outbox, s)
    <3>1. Idle(outbox)
      BY <1>1 DEF FlowInv, KeyInv
    <3> QED
      BY <3>1, ToldIdle
  <2>2. /\ Untold(sealing', s) <=> Untold(sealing, s) /\ Untold(ms, s)
        /\ AttachedLast(sealing', s) <=> (AttachedLast(sealing, s) /\ Untold(ms, s)) \/ AttachedLast(ms, s)
    BY <1>1, QueueTypes, ToldCat
  <2> QED
    BY <1>1, <2>1, <2>2, ToldNow, ToldNext
<1>2. CASE key = 0 /\ sock = "open" /\ (Relay => gate = "ready") /\ up' = up \o Plain(ms) /\ UNCHANGED <<sealing, outbox>>
  <2>1. sealing = <<>> /\ outbox = <<>>
    BY <1>2, EncIsRelay DEF TypeInv, FlowInv, GateInv, KeyInv
  <2>2. Bodies(up') = Bodies(up) \o ms
    BY <1>2, QueueTypes, PlainSent
  <2>3. /\ Untold(Bodies(up'), s) <=> Untold(Bodies(up), s) /\ Untold(ms, s)
        /\ AttachedLast(Bodies(up'), s) <=> (AttachedLast(Bodies(up), s) /\ Untold(ms, s)) \/ AttachedLast(ms, s)
    BY <2>2, QueueTypes, ToldCat
  <2> QED
    BY <1>2, <2>1, <2>3, ToldNone, ToldNow, ToldNext
<1>3. CASE outbox' = outbox \o ms /\ UNCHANGED <<sealing, up>>
  <2>1. /\ Untold(outbox', s) <=> Untold(outbox, s) /\ Untold(ms, s)
        /\ AttachedLast(outbox', s) <=> (AttachedLast(outbox, s) /\ Untold(ms, s)) \/ AttachedLast(ms, s)
    BY <1>3, QueueTypes, ToldCat
  <2> QED
    BY <1>3, <2>1, ToldNow, ToldNext
<1> QED
  BY <1>1, <1>2, <1>3 DEF SendRaw

LEMMA SendFollows ==
    ASSUME TypeInv, TypeInv', FlowInv, FollowInv, Op \/ \E s \in Session : Attach(s) \/ Detach(s)
    PROVE  FollowInv'
<1>1. /\ UNCHANGED <<mode, sock, deriving, down, phase, sessions, followed>>
  BY DEF Op, Attach, Detach, theHost
<1>2. Confirmed' <=> Confirmed
  BY <1>1 DEF Confirmed, Relay
<1>3. CASE Op
  <2> DEFINE m == [k |-> "op", of |-> issued + 1]
  <2>1. m \in Message
    <3>1. issued + 1 \in 1 .. MaxOps
      BY <1>3, Constants DEF Op, TypeInv, TypeOK
    <3> QED
      BY <3>1, Messages
  <2>2. SendRaw(<<m>>) /\ m.k = "op" /\ UNCHANGED attachedIds
    BY <1>3 DEF Op
  <2> HIDE DEF m
  <2>3. Adds(Path, Path', <<m>>)
    BY <2>1, <2>2, Singletons, SendRawAdds
  <2>4. \A s : Untold(<<m>>, s) /\ ~AttachedLast(<<m>>, s)
    BY <2>2, ToldOne DEF About
  <2>5. \A s : Fate(Path', s, followed', phase') <=> Fate(Path, s, followed, phase)
    BY <1>1, <2>3, <2>4 DEF Adds, Fate, After
  <2> QED
    BY <1>1, <1>2, <2>2, <2>5, FollowKept
<1>4. ASSUME NEW i \in Session, Attach(i) PROVE FollowInv'
  <2> DEFINE m == [k |-> "attach", of |-> i]
  <2>1. m \in Message /\ SendRaw(<<m>>) /\ m.k = "attach" /\ m.of = i /\ attachedIds' = attachedIds \cup {i}
    BY <1>4, Messages DEF Attach
  <2> HIDE DEF m
  <2>2. Adds(Path, Path', <<m>>)
    BY <2>1, Singletons, SendRawAdds
  <2>3. \A s : (Untold(<<m>>, s) <=> s # i) /\ (AttachedLast(<<m>>, s) <=> s = i)
    BY <2>1, ToldOne DEF About
  <2>4. \A s : Fate(Path', s, followed', phase') <=> Fate(Path, s, followed, phase) \/ s = i
    BY <1>1, <2>2, <2>3 DEF Adds, Fate, After
  <2> QED
    BY <1>1, <1>2, <2>1, <2>4 DEF FollowInv
<1>5. ASSUME NEW i \in Session, Detach(i) PROVE FollowInv'
  <2> DEFINE m == [k |-> "detach", of |-> i]
  <2>1. m \in Message /\ SendRaw(<<m>>) /\ m.k = "detach" /\ m.of = i /\ attachedIds' = attachedIds \ {i}
    BY <1>5, Messages DEF Detach
  <2> HIDE DEF m
  <2>2. Adds(Path, Path', <<m>>)
    BY <2>1, Singletons, SendRawAdds
  <2>3. \A s : (Untold(<<m>>, s) <=> s # i) /\ ~AttachedLast(<<m>>, s)
    BY <2>1, ToldOne DEF About
  <2>4. \A s : Fate(Path', s, followed', phase') <=> Fate(Path, s, followed, phase) /\ s # i
    BY <1>1, <2>2, <2>3 DEF Adds, Fate, After
  <2> QED
    BY <1>1, <1>2, <2>1, <2>4 DEF FollowInv
<1> QED
  BY <1>3, <1>4, <1>5

(* The sessions to follow are attached anew. *)
LEMMA AttachedAnew ==
    ASSUME TypeInv, FollowInv, Adds(Path, Path', Attaches), UNCHANGED <<sessions, attachedIds, followed>>,
           \/ UNCHANGED phase
           \/ followed = {}
    PROVE  FollowInv'
<1>1. \A s : Fate(Path', s, followed', phase') <=> Fate(Path, s, followed, phase) \/ s \in attachedIds
  BY AttachesTold DEF Adds, Fate, After
<1> QED
  BY <1>1 DEF FollowInv

LEMMA FlushedAdds ==
    ASSUME TypeInv, TypeInv', sealing = <<>>, up' = up \o Plain(outbox \o Attaches), outbox' = <<>>,
           UNCHANGED sealing
    PROVE  Adds(Path, Path', Attaches)
<1>1. PICK q \in Seq(Message) : q = outbox \o Attaches
  BY QueueTypes, CatIs
<1>2. \A s : /\ Untold(q, s) <=> Untold(outbox, s) /\ Untold(Attaches, s)
             /\ AttachedLast(q, s) <=> (AttachedLast(outbox, s) /\ Untold(Attaches, s)) \/ AttachedLast(Attaches, s)
  BY <1>1, QueueTypes, ToldCat
<1>3. Bodies(up') = Bodies(up) \o q
  BY <1>1, QueueTypes, PlainSent
<1>4. \A s : /\ Untold(Bodies(up'), s) <=> Untold(Bodies(up), s) /\ Untold(q, s)
             /\ AttachedLast(Bodies(up'), s) <=> (AttachedLast(Bodies(up), s) /\ Untold(q, s)) \/ AttachedLast(q, s)
  BY <1>3, QueueTypes, ToldCat
<1> QED
  BY <1>2, <1>4, ToldNone, ToldNow, ToldNext DEF Adds

LEMMA ConfirmedFollows ==
    ASSUME TypeInv, TypeInv', FollowInv, RelayAuthOk(0), sealing = <<>>,
           UNCHANGED <<sessions, attachedIds, followed, phase>>
    PROVE  FollowInv'
<1>1. Adds(Path, Path', Attaches)
  BY FlushedAdds DEF RelayAuthOk
<1> QED
  BY <1>1, AttachedAnew

LEMMA OnOpenFollows ==
    ASSUME TypeInv, TypeInv', FlowInv, FollowInv, OnOpen
    PROVE  FollowInv'
<1>1. /\ sock = "dialing" /\ up = <<>> /\ phase = "none" /\ followed = {}
      /\ UNCHANGED <<mode, sealing, sessions, attachedIds, followed>>
  BY DEF OnOpen, FlowInv, WireInv
<1>2. CASE up' = <<[m |-> [k |-> "join", of |-> 0], sec |-> 0]>> /\ UNCHANGED <<outbox, phase>>
  <2> DEFINE f == [m |-> [k |-> "join", of |-> 0], sec |-> 0]
  <2>1. DOMAIN up' = {1} /\ up'[1] = f
    BY <1>2
  <2>2. Bodies(up') = [i \in {1} |-> f.m] /\ ~Business(f.m)
    BY <2>1 DEF Bodies, Business
  <2>3. Idle(Bodies(up')) /\ Idle(Bodies(up))
    BY <1>1, <2>2, NothingOn DEF Idle
  <2>4. \A s : /\ Untold(Bodies(up'), s) /\ ~AttachedLast(Bodies(up'), s)
               /\ Untold(Bodies(up), s) /\ ~AttachedLast(Bodies(up), s)
    BY <2>3, ToldIdle
  <2>5. \A s : Fate(Path', s, followed', phase') <=> Fate(Path, s, followed, phase)
    BY <1>1, <1>2, <2>4, ToldNow, ToldNext DEF Fate, After
  <2>6. ~Confirmed'
    BY <1>1, <1>2 DEF Confirmed
  <2> QED
    BY <1>1, <2>5, <2>6, FollowKept
<1>3. CASE ~Relay /\ up' = Plain(outbox \o Attaches) /\ outbox' = <<>>
  <2>1. sealing = <<>>
    BY <1>3, EncIsRelay DEF FlowInv, KeyInv
  <2>2. up' = up \o Plain(outbox \o Attaches)
    <3>1. outbox \o Attaches \in Seq(Message)
      BY QueueTypes, CatIs
    <3>2. Plain(outbox \o Attaches) \in Seq(Frame)
      BY <3>1, PlainType
    <3> QED
      BY <1>1, <1>3, <3>2
  <2>3. Adds(Path, Path', Attaches)
    BY <1>1, <1>3, <2>1, <2>2, FlushedAdds
  <2> QED
    BY <1>1, <2>3, AttachedAnew
<1> QED
  BY <1>2, <1>3 DEF OnOpen

LEMMA AnswerFollows ==
    ASSUME TypeInv, TypeInv', FollowInv, Answer
    PROVE  FollowInv'
<1>1. CASE Dispose
  <2>1. Gone /\ UNCHANGED <<sessions, attachedIds>>
    BY <1>1 DEF Answer, Dispose, Gone
  <2> QED
    BY <2>1, GoneFollows
<1>2. CASE ~Dispose
  <2> DEFINE m == [k |-> "response", of |-> answering]
  <2>1. UNCHANGED <<mode, sock, deriving, down, phase, sessions, followed, attachedIds, sealing>>
    BY <1>2 DEF Answer, theHost
  <2>2. Confirmed' <=> Confirmed
    BY <2>1 DEF Confirmed, Relay
  <2>3. m \in Message /\ m.k = "response"
    <3>1. answering \in 1 .. MaxConns
      BY AnsweringType
    <3> QED
      BY <3>1, Messages
  <2>4. \/ up' = up \o Plain(<<m>>) /\ UNCHANGED outbox
        \/ outbox' = Append(outbox, m) /\ UNCHANGED up
    BY <1>2 DEF Answer
  <2> HIDE DEF m
  <2>5. <<m>> \in Seq(Message) /\ \A s : Untold(<<m>>, s) /\ ~AttachedLast(<<m>>, s)
    BY <2>3, Singletons, ToldOne DEF About
  <2>6. \A s : /\ Untold(Bodies(up'), s) <=> Untold(Bodies(up), s)
               /\ AttachedLast(Bodies(up'), s) <=> AttachedLast(Bodies(up), s)
               /\ Untold(outbox', s) <=> Untold(outbox, s)
               /\ AttachedLast(outbox', s) <=> AttachedLast(outbox, s)
    <3>1. CASE up' = up \o Plain(<<m>>) /\ UNCHANGED outbox
      <4>1. Bodies(up') = Bodies(up) \o <<m>>
        BY <2>5, <3>1, QueueTypes, PlainSent
      <4>2. Adds(Bodies(up), Bodies(up) \o <<m>>, <<m>>)
        BY <2>5, QueueTypes, CatAdds
      <4> QED
        BY <2>5, <3>1, <4>1, <4>2 DEF Adds
    <3>2. CASE outbox' = Append(outbox, m) /\ UNCHANGED up
      <4>1. outbox' = outbox \o <<m>>
        BY <2>3, <3>2, QueueTypes, AppendIsCat
      <4>2. Adds(outbox, outbox \o <<m>>, <<m>>)
        BY <2>5, QueueTypes, CatAdds
      <4> QED
        BY <2>5, <3>2, <4>1, <4>2 DEF Adds
    <3> QED
      BY <2>4, <3>1, <3>2
  <2>7. \A s : Fate(Path', s, followed', phase') <=> Fate(Path, s, followed, phase)
    BY <2>1, <2>6, ToldNow, ToldNext DEF Fate, After
  <2> QED
    BY <2>1, <2>2, <2>7, FollowKept
<1> QED
  BY <1>1, <1>2

LEMMA HandleMessageFollows ==
    ASSUME TypeInv, TypeInv', FlowInv, ~Enc, TabsInv, FollowInv, HandleMessage
    PROVE  FollowInv'
<1> DEFINE d == Head(down)
<1>1. /\ down # <<>> /\ down' = Tail(down) /\ UNCHANGED <<mode, sock, phase, sessions, followed>>
  BY DEF HandleMessage, theHost
<1>2. /\ d \in ToSet(down)
      /\ Without(down, "ok") <=> d.k # "ok" /\ Without(down', "ok")
  BY <1>1, TabsType, DownFirst, FirstOfDown
<1>3. CASE RelayAuthOk(0) /\ Relay /\ ~Enc /\ UNCHANGED attachedIds
  <2>1. sealing = <<>>
    BY <1>3 DEF FlowInv, KeyInv
  <2> QED
    BY <1>1, <1>3, <2>1, ConfirmedFollows
<1>4. ASSUME UNCHANGED <<up, sealing, outbox>>,
             \A s \in sessions : s \in attachedIds' <=> s \in attachedIds,
             Confirmed' => Confirmed
      PROVE  FollowInv'
  <2>1. Path' = Path
    BY <1>4 DEF Path
  <2> QED
    BY <1>1, <1>4, <2>1, FollowKept
<1> HIDE DEF d
<1>6. CASE d.k = "ok" /\ ~Relay /\ UNCHANGED <<up, sealing, outbox, attachedIds>>
  <2>1. Confirmed' => Confirmed
    BY <1>1, <1>6 DEF Confirmed, Relay
  <2> QED
    BY <1>4, <1>6, <2>1
<1>7. CASE d.k # "ok" /\ UNCHANGED <<up, sealing, outbox, deriving>>
  <2>1. Confirmed' => Confirmed
    BY <1>1, <1>2, <1>7 DEF Confirmed, Relay
  <2>2. (d.k = "tabs" /\ OnTabs(d.of)) \/ UNCHANGED attachedIds
    BY <1>7 DEF HandleMessage, Handled, Sealed, d
  <2>3. d.k = "tabs" => sessions \subseteq d.of
    BY <1>2 DEF TabsInv, AtLeast
  <2>4. \A s \in sessions : s \in attachedIds' <=> s \in attachedIds
    BY <2>2, <2>3 DEF OnTabs
  <2> QED
    BY <1>4, <1>7, <2>1, <2>4
<1> QED
  BY <1>3, <1>6, <1>7 DEF HandleMessage, Handled, Sealed, d

LEMMA HostReceivesFollows ==
    ASSUME TypeInv, TypeInv', FlowInv, ~Enc, FollowInv, HostReceives
    PROVE  FollowInv'
<1> DEFINE m == Head(up).m
           t == Bodies(Tail(up))
<1>1. /\ up # <<>> /\ up' = Tail(up) /\ HostAccepts(Head(up))
      /\ UNCHANGED <<mode, sock, deriving, sessions, attachedIds, outbox, sealing>>
  BY DEF HostReceives, Opens, client
<1>2. /\ m \in Message /\ <<m>> \in Seq(Message) /\ t \in Seq(Message)
      /\ Bodies(up) = <<m>> \o t /\ Bodies(up') = t
  BY <1>1, FirstOfUp, QueueTypes
<1>3. \/ m.k = "join" /\ UNCHANGED followed /\ phase' = "challenged" /\ phase = "none"
      \/ /\ m.k = "response" /\ UNCHANGED followed /\ phase' = "ok" /\ phase = "challenged"
         /\ down' = down \o <<[k |-> "ok", of |-> 0], [k |-> "tabs", of |-> sessions]>>
      \/ phase' = "closed"
      \/ /\ phase = "ok" /\ phase' = "ok"
         /\ \/ m.k = "attach" /\ m.of \in sessions /\ followed' = followed \cup {m.of} /\ UNCHANGED down
            \/ m.k = "attach" /\ m.of \notin sessions /\ down' = Append(down, [k |-> "error", of |-> "other"]) /\ UNCHANGED followed
            \/ m.k = "detach" /\ followed' = followed \ {m.of} /\ UNCHANGED down
            \/ m.k = "op" /\ UNCHANGED <<down, followed>>
  BY <1>1 DEF HostAccepts, Dispatch, FailWith
<1> HIDE DEF m, t
<1>4. \A s : /\ Untold(Bodies(up), s) <=> ~About(m, s) /\ Untold(t, s)
             /\ AttachedLast(Bodies(up), s) <=> (m.k = "attach" /\ m.of = s /\ Untold(t, s)) \/ AttachedLast(t, s)
  <2>1. Adds(<<m>>, <<m>> \o t, t)
    BY <1>2, CatAdds
  <2> QED
    BY <1>2, <2>1, ToldOne DEF Adds
<1>5. ASSUME NEW s, (s \in followed' /\ phase' # "closed") <=>
                       (s \in followed /\ phase # "closed" /\ ~About(m, s)) \/ (m.k = "attach" /\ m.of = s)
      PROVE  Fate(Path', s, followed', phase') <=> Fate(Path, s, followed, phase)
  BY <1>1, <1>2, <1>4, <1>5, ToldNow, ToldNext DEF Fate, After
<1>6. CASE m.k \in {"join", "response"} /\ UNCHANGED followed /\ phase # "closed" /\ phase' # "closed" /\ ~Confirmed'
  <2>1. \A s : Fate(Path', s, followed', phase') <=> Fate(Path, s, followed, phase)
    BY <1>5, <1>6 DEF About
  <2> QED
    BY <1>1, <1>6, <2>1, FollowKept
<1>7. CASE m.k = "response" /\ UNCHANGED followed /\ phase' = "ok" /\ phase = "challenged"
           /\ down' = down \o <<[k |-> "ok", of |-> 0], [k |-> "tabs", of |-> sessions]>>
  <2>1. Relay
    <3>1. sock = "open"
      BY <1>1 DEF FlowInv, WireInv
    <3> QED
      BY <1>7, <3>1 DEF FlowInv, GateInv, Heard
  <2>2. [k |-> "ok", of |-> 0] \in Down /\ [k |-> "tabs", of |-> sessions] \in Down
    BY TabsType, Downs
  <2>3. ~Without(down', "ok")
    BY <1>7, <2>2, TabsType, TwoDownSent
  <2>4. ~Confirmed'
    BY <1>1, <2>1, <2>3 DEF Confirmed, Relay
  <2> QED
    BY <1>6, <1>7, <2>4
<1>8. CASE phase' = "closed"
  <2>1. ASSUME NEW s, Fate(Path', s, followed', phase') PROVE Fate(Path, s, followed, phase)
    BY <1>1, <1>2, <1>4, <1>8, <2>1, ToldNow, ToldNext DEF Fate, After
  <2>2. ~Confirmed'
    BY <1>8 DEF Confirmed
  <2> QED
    BY <1>1, <2>1, <2>2, FollowKept
<1>9. CASE /\ phase = "ok" /\ phase' = "ok"
           /\ \/ m.k = "attach" /\ m.of \in sessions /\ followed' = followed \cup {m.of} /\ UNCHANGED down
              \/ m.k = "attach" /\ m.of \notin sessions /\ down' = Append(down, [k |-> "error", of |-> "other"]) /\ UNCHANGED followed
              \/ m.k = "detach" /\ followed' = followed \ {m.of} /\ UNCHANGED down
              \/ m.k = "op" /\ UNCHANGED <<down, followed>>
  <2>1. Confirmed' => Confirmed
    <3>1. Without(down', "ok") => Without(down, "ok")
      <4>1. [k |-> "error", of |-> "other"] \in Down
        BY Downs
      <4>2. Without(Append(down, [k |-> "error", of |-> "other"]), "ok") => Without(down, "ok")
        BY <4>1, TabsType, DownSent
      <4> QED
        BY <1>9, <4>2
    <3> QED
      BY <1>1, <1>9, <3>1 DEF Confirmed, Relay
  <2>2. ASSUME NEW s \in sessions
        PROVE  Fate(Path', s, followed', phase') <=> Fate(Path, s, followed, phase)
    <3>1. (s \in followed' /\ phase' # "closed") <=>
             (s \in followed /\ phase # "closed" /\ ~About(m, s)) \/ (m.k = "attach" /\ m.of = s)
      BY <1>9 DEF About
    <3> QED
      BY <1>5, <3>1
  <2> QED
    BY <1>1, <2>1, <2>2, FollowKept
<1>10. CASE m.k = "join" /\ UNCHANGED followed /\ phase' = "challenged" /\ phase = "none"
  BY <1>6, <1>10 DEF Confirmed
<1> QED
  BY <1>3, <1>7, <1>8, <1>9, <1>10

LEMMA HostFollows ==
    ASSUME TypeInv, TypeInv', FollowInv, AuthTimeout \/ \E s \in Session : SessionEnds(s)
    PROVE  FollowInv'
<1>1. UNCHANGED <<mode, sock, deriving, up, sealing, outbox, attachedIds>>
  BY DEF AuthTimeout, SessionEnds, client
<1>2. Path' = Path
  BY <1>1 DEF Path
<1>3. CASE AuthTimeout
  <2>1. phase' = "closed" /\ UNCHANGED sessions /\ ~Confirmed'
    BY <1>3 DEF AuthTimeout, FailWith, Confirmed
  <2>2. \A s : Fate(Path', s, followed', phase') => Fate(Path, s, followed, phase)
    BY <1>2, <2>1 DEF Fate, After
  <2> QED
    BY <1>1, <2>1, <2>2, FollowKept
<1>4. ASSUME NEW i \in Session, SessionEnds(i) PROVE FollowInv'
  <2>1. sessions' = sessions \ {i} /\ followed' = followed \ {i} /\ UNCHANGED phase
    BY <1>4 DEF SessionEnds
  <2>2. \A s \in sessions' : Fate(Path', s, followed', phase') <=> Fate(Path, s, followed, phase)
    BY <1>2, <2>1 DEF Fate, After
  <2>3. Confirmed' => Confirmed
    <3>1. Without(down', "ok") => Without(down, "ok")
      <4>1. [k |-> "tabs", of |-> sessions \ {i}] \in Down
        <5>1. sessions \ {i} \in SUBSET Session
          BY TabsType
        <5> QED
          BY <5>1, Downs
      <4>2. Without(Append(down, [k |-> "tabs", of |-> sessions \ {i}]), "ok") => Without(down, "ok")
        BY <4>1, TabsType, DownSent
      <4> QED
        BY <1>4, <4>2 DEF SessionEnds
    <3> QED
      BY <1>1, <2>1, <3>1 DEF Confirmed, Relay
  <2> QED
    BY <1>1, <2>1, <2>2, <2>3, FollowKept
<1> QED
  BY <1>3, <1>4

LEMMA FollowInit == Init => FollowInv
<1> SUFFICES ASSUME Init PROVE FollowInv
  OBVIOUS
<1>1. up = <<>> /\ sealing = <<>> /\ outbox = <<>> /\ followed = {} /\ ~Confirmed
  BY DEF Init, Confirmed
<1>2. TypeInv
  BY InitType
<1>3. \A s : ~Fate(Path, s, followed, phase)
  BY <1>1, <1>2, BodyEmpty, ToldNone, ToldNow DEF Fate, After
<1> QED
  BY <1>1, <1>3 DEF FollowInv

LEMMA FollowStep == TypeInv /\ FlowInv /\ ~Enc /\ TabsInv /\ FollowInv /\ [Next]_vars => FollowInv'
<1> SUFFICES ASSUME TypeInv, FlowInv, ~Enc, TabsInv, FollowInv, [Next]_vars PROVE FollowInv'
  OBVIOUS
<1>1. TypeInv'
  BY TypeStep
<1>2. ASSUME NEW code \in {"plain", "denied", "revoked"}, OnClose(code) PROVE FollowInv'
  <2>1. Gone /\ UNCHANGED <<sessions, attachedIds>>
    BY <1>2, OnCloseGone DEF OnClose
  <2> QED
    BY <1>1, <2>1, GoneFollows
<1>3. CASE Lost \/ \E code \in {"denied", "revoked"} : Refused(code)
  BY <1>2, <1>3 DEF Lost, Refused
<1>4. CASE ClosedByHost
  <2>1. Head(down) \in Down
    BY <1>4, HeadAndTail DEF ClosedByHost, TypeInv, TypeOK
  <2> QED
    BY <1>2, <1>4, <2>1, DownType DEF ClosedByHost
<1>5. CASE UNCHANGED vars \/ Connect
  <2>1. UNCHANGED <<mode, up, sealing, outbox, down, sessions, attachedIds, followed, phase, deriving>>
    BY <1>5 DEF vars, client, net, theHost, Connect
  <2>2. Confirmed' => Confirmed
    BY <1>5, <2>1 DEF vars, client, Connect, Confirmed, Relay
  <2>3. Path' = Path
    BY <2>1 DEF Path
  <2> QED
    BY <2>1, <2>2, <2>3, FollowKept
<1>6. /\ ~Seal /\ ~Derive
      /\ ~(\E i \in DOMAIN reading : PageOpens(i)) /\ ~(\E i \in DOMAIN opening : HostOpens(i))
  BY InClear DEF Seal, Derive, PageOpens
<1> QED
  BY <1>1, <1>3, <1>4, <1>5, <1>6, SendFollows, OnOpenFollows, AnswerFollows,
     HandleMessageFollows, HostReceivesFollows, HostFollows DEF Next

(* At rest nothing is on its way, so what is to happen has happened.        *)
LEMMA RestIsSame ==
    ASSUME TypeInv, TabsInv, FollowInv
    PROVE  SameSessions
<1> SUFFICES ASSUME ~Enc, AtRest PROVE followed = attachedIds
  BY DEF SameSessions
<1>1. up = <<>> /\ sealing = <<>> /\ outbox = <<>> /\ down = <<>> /\ phase = "ok"
  BY DEF AtRest
<1>2. Confirmed
  BY <1>1, NothingOn DEF AtRest, Confirmed
<1>3. \A s : Fate(Path, s, followed, phase) <=> s \in followed
  BY <1>1, BodyEmpty, ToldNone, ToldNow DEF Fate, After
<1>4. \A s \in sessions : s \in followed <=> s \in attachedIds
  BY <1>2, <1>3 DEF FollowInv
<1>5. known \subseteq sessions
  <2>1. DOMAIN down = {}
    BY <1>1
  <2> QED
    BY <1>1, <2>1 DEF TabsInv, Announced
<1>6. followed \subseteq sessions /\ attachedIds \subseteq sessions
  BY <1>5 DEF TabsInv
<1> QED
  BY <1>4, <1>6

ClearInv == ~Enc => TabsInv /\ FollowInv

LEMMA ClearStep == TypeInv /\ FlowInv /\ ClearInv /\ [Next]_vars => ClearInv'
<1> SUFFICES ASSUME TypeInv, FlowInv, ClearInv, [Next]_vars, ~Enc' PROVE TabsInv' /\ FollowInv'
  BY DEF ClearInv
<1>1. UNCHANGED mode
  BY DEF Next, vars, client, net, theHost, Seal, Op, Attach, Detach, SessionEnds, Lost, Refused, ClosedByHost, OnClose,
         Connect, OnOpen, Answer, Derive, Dispose, HandleMessage, PageOpens, HostReceives, AuthTimeout, HostOpens
<1>2. ~Enc
  BY <1>1 DEF Enc
<1> QED
  BY <1>2, TabsStep, FollowStep DEF ClearInv

(* webSocketTransport.ts keeps the sessions to follow across connections,   *)
(* and attaches them anew on each: for every set of sessions and however    *)
(* attaching, detaching, ending, breaking and refusing overlap, a page      *)
(* whose connection is in clear and has come to rest is sent exactly the    *)
(* sessions it follows.                                                     *)
THEOREM SessionsAgree == Spec => []SameSessions
<1>1. TypeInv /\ FlowInv /\ ClearInv => SameSessions
  <2>1. CASE Enc
    BY <2>1 DEF SameSessions
  <2>2. CASE ~Enc
    BY <2>2, RestIsSame DEF ClearInv
  <2> QED
    BY <2>1, <2>2
<1>2. Init => TypeInv /\ FlowInv /\ ClearInv
  BY InitType, FlowInit, TabsInit, FollowInit DEF ClearInv
<1>3. TypeInv /\ FlowInv /\ ClearInv /\ [Next]_vars => (TypeInv /\ FlowInv /\ ClearInv)'
  BY TypeStep, FlowStep, ClearStep
<1> QED
  BY <1>1, <1>2, <1>3, PTL DEF Spec
=============================================================================
