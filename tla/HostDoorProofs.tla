--------------------------- MODULE HostDoorProofs ---------------------------
(***************************************************************************)
(* Proofs about the door of the desktop host (modules AuthManager and      *)
(* HostDoor), for every number of addresses, cookies, logins under way and *)
(* connections, and every length of windows, locks and terms.              *)
(***************************************************************************)
EXTENDS HostDoor, FiniteSetTheorems, WellFoundedInduction, TLAPS

-----------------------------------------------------------------------------
(* Types *)

(* Every operator of AuthManager keeps the types of the manager's state. *)
LEMMA RecordFailureType ==
    ASSUME AuthTypeOK, NEW k \in Key, RecordFailure(k)
    PROVE  /\ rec' \in [Key -> Record \cup {None}] /\ rec'[k] \in Record
           /\ fails' \in [Key -> Seq(Time)]
<1>1. CurrentWindow(k) \in Record
  BY AuthAssumption DEF CurrentWindow, AuthTypeOK, Record, Time
<1> DEFINE r == [failures |-> CurrentWindow(k).failures + 1, start |-> CurrentWindow(k).start,
                 until |-> IF CurrentWindow(k).failures + 1 >= MaxFailures THEN now + Lock ELSE CurrentWindow(k).until]
<1>2. r \in Record /\ rec' = [rec EXCEPT ![k] = r]
  BY <1>1, AuthAssumption DEF RecordFailure, AuthTypeOK, Record, Time
<1>3. fails' = [fails EXCEPT ![k] = Append(@, now)]
  BY DEF RecordFailure
<1> HIDE DEF r
<1> QED
  BY <1>2, <1>3 DEF AuthTypeOK

LEMMA TouchType ==
    ASSUME AuthTypeOK, NEW c \in Cookie \cup {None}, Touch(c)
    PROVE  cookies' \in [Cookie -> Time \cup {None}]
BY DEF Touch, Known, AuthTypeOK

LEMMA LoginType ==
    ASSUME AuthTypeOK, NEW ip \in Ip, NEW e \in Epoch, Login(ip, e), UNCHANGED <<now, epoch, nonces>>
    PROVE  AuthTypeOK'
<1>1. ip \in Key
  BY DEF Key
<1>2. CASE UNCHANGED <<authVars, cookieVars>>
  BY <1>2 DEF authVars, cookieVars, AuthTypeOK
<1>3. ASSUME ClearRecord(ip), NEW c \in Cookie, Mint(c, e) PROVE AuthTypeOK'
  BY <1>1, <1>3 DEF ClearRecord, Mint, AuthTypeOK
<1>4. CASE RecordFailure(ip) /\ UNCHANGED cookieVars
  BY <1>1, <1>4, RecordFailureType DEF cookieVars, AuthTypeOK
<1> QED
  BY <1>2, <1>3, <1>4 DEF Login

LEMMA IssueType ==
    ASSUME AuthTypeOK, NEW n \in Nonce, IssueNonce(n)
    PROVE  nonces' \in [Nonce -> Nat \cup {None}]
<1>1. Fresh(nonces) \in [Nonce -> Nat \cup {None}]
  BY DEF Fresh, AuthTypeOK
<1>2. MakeRoom(Fresh(nonces)) \in [Nonce -> Nat \cup {None}]
  BY <1>1 DEF MakeRoom
<1>3. now + NonceTtl \in Nat
  BY AuthAssumption DEF AuthTypeOK, Time
<1> QED
  BY <1>2, <1>3 DEF IssueNonce

LEMMA VerifyType ==
    ASSUME AuthTypeOK, NEW n \in Nonce \cup {None}, NEW e \in Epoch, VerifyRelayMac(n, e),
           UNCHANGED <<now, epoch, cookieVars>>
    PROVE  AuthTypeOK'
<1>1. nonces' \in [Nonce -> Nat \cup {None}]
  BY DEF VerifyRelayMac, Without, AuthTypeOK
<1>2. Relay \in Key
  BY DEF Key
<1>3. CASE UNCHANGED authVars
  BY <1>1, <1>3 DEF authVars, cookieVars, AuthTypeOK
<1>4. CASE ClearRecord(Relay)
  BY <1>1, <1>2, <1>4 DEF ClearRecord, cookieVars, AuthTypeOK
<1>5. CASE RecordFailure(Relay)
  BY <1>1, <1>2, <1>5, RecordFailureType DEF cookieVars, AuthTypeOK
<1> QED
  BY <1>3, <1>4, <1>5 DEF VerifyRelayMac

(* What the door remembers of a connection is well formed. *)
LEMMA ConnectedType ==
    ASSUME TypeOK, NEW n \in Nonce, NEW authed \in BOOLEAN, NEW closing \in BOOLEAN,
           Connected(n, authed, closing)
    PROVE  conn' \in [Nonce -> Conn]
<1>1. now + AuthTimeout \in Nat
  BY AuthAssumption, DoorAssumption DEF TypeOK, AuthTypeOK, Time
<1> QED
  BY <1>1 DEF Connected, Conn, TypeOK, AuthTypeOK

LEMMA FailedType ==
    ASSUME TypeOK, NEW n \in Nonce
    PROVE  Failed(n) \in Conn
BY DEF Failed, Conn, TypeOK

-----------------------------------------------------------------------------
(* The state keeps its types: in particular a count of failures stays a      *)
(* number, and a nonce is never outstanding without a time it expires at.    *)
THEOREM TypeCorrect == Spec => []TypeOK
<1>1. Init => TypeOK
  BY AuthAssumption, DoorAssumption
     DEF Init, AuthInit, TypeOK, AuthTypeOK, Nobody, Conn, Time, Epoch
<1>2. TypeOK /\ [Next]_vars => TypeOK'
  <2> SUFFICES ASSUME TypeOK, [Next]_vars PROVE TypeOK'
    OBVIOUS
  <2> USE DEF TypeOK
  <2>1. CASE UNCHANGED vars
    BY <2>1 DEF vars, managerVars, authVars, cookieVars, AuthTypeOK
  <2>2. CASE Tick /\ UNCHANGED <<posts, conn, visit, refused>>
    BY <2>2, AuthAssumption DEF Tick, authVars, cookieVars, AuthTypeOK, Time
  <2>3. CASE RotateToken /\ UNCHANGED <<posts, conn, visit, refused>>
    BY <2>3, AuthAssumption DEF RotateToken, AuthTypeOK, Epoch
  <2>4. ASSUME NEW c \in Cookie, Request(c) PROVE TypeOK'
    BY <2>4, TouchType DEF Request, Touch, authVars, AuthTypeOK
  <2>5. ASSUME NEW q \in Post, NEW ip \in Ip, NEW e \in Epoch, PostLogin(q, ip, e) PROVE TypeOK'
    BY <2>5 DEF PostLogin, managerVars, authVars, cookieVars, AuthTypeOK, Attempt
  <2>6. ASSUME NEW q \in Post, BodyRead(q) PROVE TypeOK'
    <3>1. posts[q].ip \in Ip /\ posts[q].token \in Epoch
      BY <2>6 DEF BodyRead, Attempt
    <3>2. AuthTypeOK'
      BY <2>6, <3>1, LoginType DEF BodyRead
    <3> QED
      BY <2>6, <3>2 DEF BodyRead, Ended
  <2>7. ASSUME NEW q \in Post, BodyFails(q) PROVE TypeOK'
    BY <2>7 DEF BodyFails, Ended, managerVars, authVars, cookieVars, AuthTypeOK
  <2>8. ASSUME NEW n \in Nonce, WrongFrame(n) \/ TimesOut(n) \/ Closes(n) PROVE TypeOK'
    <3>1. [Failed(n) EXCEPT !.deadline = None] \in Conn /\ Nobody("closed") \in Conn
      BY FailedType DEF Conn, Nobody
    <3>2. PICK x \in Conn : conn' = [conn EXCEPT ![n] = x]
      BY <2>8, <3>1, FailedType DEF WrongFrame, TimesOut, Closes
    <3> QED
      BY <2>8, <3>2 DEF WrongFrame, TimesOut, Closes, managerVars, authVars, cookieVars, AuthTypeOK
  <2>9. ASSUME NEW n \in Nonce, NEW c \in Cookie, UpgradeWithCookie(n, c) PROVE TypeOK'
    BY <2>9, TouchType, ConnectedType DEF UpgradeWithCookie, Touch, authVars, AuthTypeOK
  <2>10. ASSUME NEW n \in Nonce, NEW c \in Cookie \cup {None}, NEW loopback \in BOOLEAN,
                Upgrade(n, c, loopback)
         PROVE  TypeOK'
    <3>1. CASE visit.relay /\ loopback
      <4>1. nonces' \in [Nonce -> Nat \cup {None}]
        BY <2>10, <3>1, IssueType DEF Upgrade
      <4>2. Locked(Relay) \in BOOLEAN
        BY DEF Locked
      <4>3. conn' \in [Nonce -> Conn]
        BY <2>10, <3>1, <4>2, ConnectedType DEF Upgrade
      <4> QED
        BY <2>10, <4>1, <4>3, TouchType DEF Upgrade, Touch, authVars, AuthTypeOK
    <3>2. CASE ~(visit.relay /\ loopback)
      <4>1. Nobody("closed") \in Conn
        BY DEF Conn, Nobody
      <4>2. PICK x \in Conn : conn' = [conn EXCEPT ![n] = x]
        BY <2>10, <3>2, <4>1 DEF Upgrade
      <4> QED
        BY <2>10, <3>2, <4>2, TouchType DEF Upgrade, Touch, authVars, AuthTypeOK
    <3> QED
      BY <3>1, <3>2
  <2>11. ASSUME NEW n \in Nonce, NEW e \in Epoch, AuthResponse(n, e) PROVE TypeOK'
    <3> DEFINE about == IF conn[n].nonce # None THEN n ELSE None
    <3>1. AuthTypeOK'
      BY <2>11, VerifyType DEF AuthResponse
    <3>2. PICK x \in Conn : conn' = [conn EXCEPT ![n] = x]
      <4>1. [conn[n] EXCEPT !.authed = TRUE, !.nonce = None, !.deadline = None] \in Conn
        BY DEF Conn
      <4>2. [Failed(n) EXCEPT !.nonce = None] \in Conn
        BY FailedType DEF Conn
      <4> QED
        BY <2>11, <4>1, <4>2 DEF AuthResponse
    <3> QED
      BY <2>11, <3>1, <3>2 DEF AuthResponse
  <2> QED
    BY <2>1, <2>2, <2>3, <2>4, <2>5, <2>6, <2>7, <2>8, <2>9, <2>10, <2>11 DEF Next
<1> QED
  BY <1>1, <1>2, PTL DEF Spec

-----------------------------------------------------------------------------
(* Guesses and locks *)

SortedTimes(s) == \A i, j \in DOMAIN s : i <= j => s[i] <= s[j]

(* Of any 2 * MaxFailures failures the last is a lock's length after the first. *)
Bounded(s) ==
    Lock <= Window => \A i \in DOMAIN s :
        LET last == i + 2 * MaxFailures - 1
        IN  last \in DOMAIN s => s[i] + Lock <= s[last]

(* What a record says of the failures since it was cleared: it counts those  *)
(* of its window, the last ones; it locks from the one that reached the      *)
(* limit; and of those before its window all but the last few are at least a *)
(* lock's length older than it.                                              *)
Accounts(r, s, time) ==
    LET n == Len(s)
    IN  /\ SortedTimes(s)
        /\ \A i \in DOMAIN s : s[i] <= time
        /\ r = None => n = 0
        /\ r # None =>
             /\ r.start <= time /\ r.failures \in 1 .. n /\ s[n] <= r.start + Window
             /\ \A i \in DOMAIN s : i <= n - r.failures <=> s[i] < r.start
             /\ \/ r.failures < MaxFailures /\ r.until = 0
                \/ r.failures >= MaxFailures /\ r.until = s[n] + Lock
             /\ Lock <= Window => \A i \in DOMAIN s :
                    i <= n - r.failures - (MaxFailures - 1) => s[i] + Lock <= r.start

GuessInv == \A k \in Key : Accounts(rec[k], fails[k], now) /\ Bounded(fails[k])

(* The record after a failure at some time. *)
Counted(r, time) ==
    LET w == IF r = None \/ time - r.start > Window
             THEN [failures |-> 0, start |-> time, until |-> 0]
             ELSE r
    IN  [failures |-> w.failures + 1, start |-> w.start,
         until |-> IF w.failures + 1 >= MaxFailures THEN time + Lock ELSE w.until]

LEMMA AppendedTimes ==
    ASSUME NEW s \in Seq(Time), NEW time \in Time
    PROVE  LET t == Append(s, time)
           IN  /\ t \in Seq(Time) /\ Len(t) = Len(s) + 1 /\ DOMAIN t = 1 .. Len(s) + 1
               /\ \A i \in 1 .. Len(s) : t[i] = s[i]
               /\ t[Len(s) + 1] = time
OBVIOUS

(* A failure while the key is not locked keeps both. *)
LEMMA FailureKeeps ==
    ASSUME NEW s \in Seq(Time), NEW r \in Record \cup {None}, NEW time \in Time,
           Accounts(r, s, time), Bounded(s), r = None \/ r.until <= time
    PROVE  Accounts(Counted(r, time), Append(s, time), time) /\ Bounded(Append(s, time))
<1> DEFINE n == Len(s)
           t == Append(s, time)
           q == Counted(r, time)
<1>1. n \in Nat /\ DOMAIN s = 1 .. n /\ \A i \in 1 .. n : s[i] \in Nat
  BY AuthAssumption DEF Time
<1>2. /\ Len(t) = n + 1 /\ DOMAIN t = 1 .. n + 1 /\ t[n + 1] = time
      /\ \A i \in 1 .. n : t[i] = s[i]
  BY AppendedTimes
<1> HIDE DEF t
<1>3. Window \in Nat \ {0} /\ Lock \in Nat \ {0} /\ MaxFailures \in Nat \ {0} /\ time \in Nat
  BY AuthAssumption DEF Time
<1>4. /\ \A i, j \in 1 .. n : i <= j => s[i] <= s[j]
      /\ \A i \in 1 .. n : s[i] <= time
      /\ r = None => n = 0
  BY <1>1 DEF Accounts, SortedTimes
<1>5. Lock <= Window => \A i \in 1 .. n :
          i + 2 * MaxFailures - 1 \in 1 .. n => s[i] + Lock <= s[i + 2 * MaxFailures - 1]
  BY <1>1 DEF Bounded
<1>6. ASSUME r # None
      PROVE  /\ r.start \in Nat /\ r.failures \in 1 .. n /\ r.until \in Nat /\ r.start <= time
             /\ s[n] <= r.start + Window
             /\ \A i \in 1 .. n : i <= n - r.failures <=> s[i] < r.start
             /\ \/ r.failures < MaxFailures /\ r.until = 0
                \/ r.failures >= MaxFailures /\ r.until = s[n] + Lock
             /\ Lock <= Window => \A i \in 1 .. n :
                    i <= n - r.failures - (MaxFailures - 1) => s[i] + Lock <= r.start
  <2>1. r.start \in Nat /\ r.until \in Nat
    BY <1>6 DEF Record, Time
  <2> QED
    BY <1>1, <1>6, <2>1 DEF Accounts
<1> HIDE DEF n
<1>7. ASSUME NEW i \in 1 .. n, i + 2 * MaxFailures - 1 = n + 1, Lock <= Window
      PROVE  s[i] + Lock <= time
  <2>1. r # None
    BY <1>1, <1>4
  <2>2. CASE r.failures < MaxFailures
    <3>1. i <= n - r.failures - (MaxFailures - 1)
      BY <1>1, <1>3, <1>6, <1>7, <2>1, <2>2
    <3> QED
      <4>1. s[i] + Lock <= r.start
        BY <1>6, <1>7, <2>1, <3>1
      <4> QED
        BY <1>1, <1>3, <1>6, <2>1, <4>1
  <2>3. CASE r.failures >= MaxFailures
    <3>1. r.until = s[n] + Lock /\ r.until <= time
      BY <1>1, <1>3, <1>6, <2>1, <2>3
    <3>2. s[i] <= s[n] /\ n \in 1 .. n
      BY <1>1, <1>4
    <3> QED
      BY <1>1, <1>3, <3>1, <3>2
  <2> QED
    BY <1>6, <1>3, <2>1, <2>2, <2>3
<1>8. Bounded(t)
  <2> SUFFICES ASSUME Lock <= Window, NEW i \in 1 .. n + 1,
                      i + 2 * MaxFailures - 1 \in 1 .. n + 1
               PROVE  t[i] + Lock <= t[i + 2 * MaxFailures - 1]
    BY <1>2 DEF Bounded
  <2>1. CASE i + 2 * MaxFailures - 1 = n + 1
    <3>1. i \in 1 .. n
      BY <1>1, <1>3, <2>1
    <3> QED
      BY <1>2, <1>7, <2>1, <3>1
  <2>2. CASE i + 2 * MaxFailures - 1 \in 1 .. n
    <3>1. i \in 1 .. n
      BY <1>1, <1>3, <2>2
    <3>2. s[i] + Lock <= s[i + 2 * MaxFailures - 1]
      BY <1>5, <2>2, <3>1
    <3> QED
      BY <1>2, <2>2, <3>1, <3>2
  <2> QED
    BY <1>1, <2>1, <2>2
<1>9. SortedTimes(t) /\ \A i \in DOMAIN t : t[i] <= time
  BY <1>1, <1>2, <1>3, <1>4 DEF SortedTimes
<1>10. q # None
  <2> DEFINE w == IF r = None \/ time - r.start > Window
                  THEN [failures |-> 0, start |-> time, until |-> 0]
                  ELSE r
  <2>1. w \in Record
    BY DEF Record
  <2> HIDE DEF w
  <2>2. [failures |-> w.failures + 1, start |-> w.start,
         until |-> IF w.failures + 1 >= MaxFailures THEN time + Lock ELSE w.until] \in Record
    BY <1>3, <2>1 DEF Record
  <2>3. q \in Record
    BY <2>2 DEF Counted, w
  <2> QED
    BY <2>3, AuthAssumption
<1>11. CASE r = None \/ time - r.start > Window
  <2>1. q.failures = 1 /\ q.start = time /\ q.until = IF 1 >= MaxFailures THEN time + Lock ELSE 0
    BY <1>11 DEF Counted
  <2> HIDE DEF q
  <2>2. \A i \in 1 .. n : t[i] < time
    BY <1>1, <1>2, <1>3, <1>4, <1>6, <1>11
  <2>3. ASSUME Lock <= Window, NEW i \in 1 .. n + 1, i <= n + 1 - q.failures - (MaxFailures - 1)
        PROVE  t[i] + Lock <= time
    <3>1. i \in 1 .. n /\ i <= n - (MaxFailures - 1) /\ r # None /\ time - r.start > Window
      BY <1>1, <1>3, <1>4, <1>11, <2>1, <2>3
    <3>2. CASE r.failures < MaxFailures
      <4>1. s[i] < r.start
        BY <1>1, <1>3, <1>6, <3>1, <3>2
      <4> QED
        BY <1>1, <1>2, <1>3, <1>6, <2>3, <3>1, <4>1
    <3>3. CASE r.failures >= MaxFailures
      <4>1. s[i] <= s[n] /\ r.until = s[n] + Lock /\ r.until <= time
        BY <1>1, <1>3, <1>4, <1>6, <3>1, <3>3
      <4> QED
        BY <1>1, <1>2, <1>3, <3>1, <4>1
    <3> QED
      BY <1>3, <1>6, <3>1, <3>2, <3>3
  <2>4. t[n + 1] = time /\ q.failures \in 1 .. n + 1 /\ t[n + 1] <= q.start + Window
    BY <1>1, <1>2, <1>3, <2>1
  <2>5. \A i \in 1 .. n + 1 : i <= n + 1 - q.failures <=> t[i] < q.start
    BY <1>1, <1>2, <1>3, <2>1, <2>2
  <2>6. \/ q.failures < MaxFailures /\ q.until = 0
        \/ q.failures >= MaxFailures /\ q.until = t[n + 1] + Lock
    BY <1>2, <1>3, <2>1
  <2>7. Accounts(q, t, time)
    BY <1>1, <1>2, <1>3, <1>9, <1>10, <2>1, <2>3, <2>4, <2>5, <2>6 DEF Accounts
  <2> QED
    BY <1>8, <2>7 DEF q, t
<1>12. CASE r # None /\ time - r.start <= Window
  <2>1. /\ q.failures = r.failures + 1 /\ q.start = r.start
        /\ q.until = IF r.failures + 1 >= MaxFailures THEN time + Lock ELSE r.until
    BY <1>3, <1>6, <1>12 DEF Counted
  <2>6. r.failures \in 1 .. n /\ r.start \in Nat /\ r.start <= time /\ n \in Nat /\ MaxFailures \in Nat \ {0}
    BY <1>1, <1>3, <1>6, <1>12
  <2>7. \A i \in 1 .. n : i <= n - r.failures <=> s[i] < r.start
    BY <1>6, <1>12
  <2> HIDE DEF q
  <2>2. ASSUME Lock <= Window, NEW i \in 1 .. n + 1, i <= n + 1 - q.failures - (MaxFailures - 1)
        PROVE  t[i] + Lock <= q.start
    <3>1. i \in 1 .. n /\ i <= n - r.failures - (MaxFailures - 1)
      BY <2>1, <2>2, <2>6
    <3> QED
      BY <1>2, <1>6, <1>12, <2>1, <2>2, <3>1
  <2>3. q.failures \in 1 .. n + 1 /\ t[n + 1] <= q.start + Window /\ q.start <= time
    BY <1>2, <1>3, <1>12, <2>1, <2>6
  <2>4. \A i \in 1 .. n + 1 : i <= n + 1 - q.failures <=> t[i] < q.start
    <3> SUFFICES ASSUME NEW i \in 1 .. n + 1 PROVE i <= n + 1 - q.failures <=> t[i] < q.start
      OBVIOUS
    <3>1. CASE i = n + 1
      BY <1>2, <1>3, <2>1, <2>6, <3>1
    <3>2. CASE i \in 1 .. n
      BY <1>2, <2>1, <2>6, <2>7, <3>2
    <3> QED
      BY <2>6, <3>1, <3>2
  <2>5. \/ q.failures < MaxFailures /\ q.until = 0
        \/ q.failures >= MaxFailures /\ q.until = t[n + 1] + Lock
    BY <1>2, <1>3, <1>6, <1>12, <2>1
  <2>8. Accounts(q, t, time)
    <3>1. Lock <= Window => \A i \in DOMAIN t :
              i <= Len(t) - q.failures - (MaxFailures - 1) => t[i] + Lock <= q.start
      BY <1>1, <1>2, <1>3, <2>2, <2>3
    <3>2. \A i \in DOMAIN t : i <= Len(t) - q.failures <=> t[i] < q.start
      BY <1>1, <1>2, <2>3, <2>4
    <3>3. /\ q.start <= time /\ q.failures \in 1 .. Len(t) /\ t[Len(t)] <= q.start + Window
          /\ \/ q.failures < MaxFailures /\ q.until = 0
             \/ q.failures >= MaxFailures /\ q.until = t[Len(t)] + Lock
      BY <1>2, <2>3, <2>5
    <3> QED
      BY <1>9, <1>10, <3>1, <3>2, <3>3 DEF Accounts
  <2> QED
    BY <1>8, <2>8 DEF q, t
<1> QED
  BY <1>3, <1>6, <1>8, <1>11, <1>12 DEF t

(* What a step does to one key: nothing, or it clears its record, or it      *)
(* counts a failure while the key is not locked.                             *)
KeyStep(k) ==
    \/ rec'[k] = rec[k] /\ fails'[k] = fails[k] /\ now' \in Time /\ now' >= now
    \/ rec'[k] = None /\ fails'[k] = <<>>
    \/ /\ ~Locked(k) /\ now' = now
       /\ rec'[k] = Counted(rec[k], now) /\ fails'[k] = Append(fails[k], now)

LEMMA ClearStep ==
    ASSUME TypeOK, NEW key \in Key, ClearRecord(key), now' = now, NEW k \in Key
    PROVE  KeyStep(k)
BY AuthAssumption DEF ClearRecord, KeyStep, TypeOK, AuthTypeOK, Time

LEMMA FailureStep ==
    ASSUME TypeOK, NEW key \in Key, RecordFailure(key), ~Locked(key), now' = now, NEW k \in Key
    PROVE  KeyStep(k)
<1>1. rec' = [rec EXCEPT ![key] = Counted(rec[key], now)]
  BY DEF RecordFailure, CurrentWindow, Counted
<1>2. fails' = [fails EXCEPT ![key] = Append(@, now)]
  BY DEF RecordFailure
<1>3. now \in Nat /\ now \in Time
  BY AuthAssumption DEF TypeOK, AuthTypeOK, Time
<1>4. CASE k = key
  BY <1>1, <1>2, <1>4 DEF KeyStep, TypeOK, AuthTypeOK
<1>5. CASE k # key
  BY <1>1, <1>2, <1>3, <1>5 DEF KeyStep, TypeOK, AuthTypeOK
<1> QED
  BY <1>4, <1>5

LEMMA StillStep ==
    ASSUME TypeOK, UNCHANGED <<authVars, now>>, NEW k \in Key
    PROVE  KeyStep(k)
BY AuthAssumption DEF authVars, KeyStep, TypeOK, AuthTypeOK, Time

LEMMA EveryStep ==
    ASSUME TypeOK, [Next]_vars, NEW k \in Key
    PROVE  KeyStep(k)
<1>1. CASE UNCHANGED <<authVars, now>>
  BY <1>1, StillStep
<1>2. CASE Tick
  BY <1>2, AuthAssumption DEF Tick, authVars, KeyStep, TypeOK, AuthTypeOK, Time
<1>3. CASE RotateToken
  BY <1>3 DEF RotateToken, KeyStep
<1>4. ASSUME NEW q \in Post, BodyRead(q) PROVE KeyStep(k)
  <2>1. posts[q].ip \in Ip /\ posts[q].ip \in Key /\ now' = now
    BY <1>4 DEF BodyRead, Attempt, TypeOK, Key
  <2>2. \/ UNCHANGED authVars \/ ClearRecord(posts[q].ip)
        \/ ~Locked(posts[q].ip) /\ RecordFailure(posts[q].ip)
    BY <1>4 DEF BodyRead, Login
  <2> QED
    BY <1>1, <2>1, <2>2, ClearStep, FailureStep
<1>5. ASSUME NEW n \in Nonce, NEW e \in Epoch, AuthResponse(n, e) PROVE KeyStep(k)
  <2>1. Relay \in Key /\ now' = now
    BY <1>5 DEF AuthResponse, Key
  <2>2. \/ UNCHANGED authVars \/ ClearRecord(Relay)
        \/ ~Locked(Relay) /\ RecordFailure(Relay)
    BY <1>5 DEF AuthResponse, VerifyRelayMac
  <2> QED
    BY <1>1, <2>1, <2>2, ClearStep, FailureStep
<1> QED
  BY <1>1, <1>2, <1>3, <1>4, <1>5
     DEF Next, Request, PostLogin, BodyFails, WrongFrame, TimesOut, Closes, UpgradeWithCookie, Upgrade,
         managerVars, authVars, vars

LEMMA GuessInvHolds == Spec => []GuessInv
<1>1. Init => GuessInv
  BY DEF Init, AuthInit, GuessInv, Accounts, Bounded, SortedTimes
<1>2. TypeOK /\ GuessInv /\ [Next]_vars => GuessInv'
  <2> SUFFICES ASSUME TypeOK, GuessInv, [Next]_vars, NEW k \in Key
               PROVE  Accounts(rec[k], fails[k], now)' /\ Bounded(fails[k])'
    BY DEF GuessInv
  <2>1. /\ Accounts(rec[k], fails[k], now) /\ Bounded(fails[k])
        /\ rec[k] \in Record \cup {None} /\ fails[k] \in Seq(Time) /\ now \in Time
    BY DEF GuessInv, TypeOK, AuthTypeOK
  <2>2. CASE rec'[k] = rec[k] /\ fails'[k] = fails[k] /\ now' \in Time /\ now' >= now
    <3>1. now \in Nat /\ now' \in Nat /\ now' >= now
      BY <2>1, <2>2, AuthAssumption DEF Time
    <3>2. \A i \in DOMAIN fails[k] : fails[k][i] \in Nat
      BY <2>1, AuthAssumption DEF Time
    <3>3. rec[k] # None => rec[k].start \in Nat
      BY <2>1, AuthAssumption DEF Record, Time
    <3> QED
      BY <2>1, <2>2, <3>1, <3>2, <3>3 DEF Accounts, Bounded
  <2>3. CASE rec'[k] = None /\ fails'[k] = <<>>
    BY <2>3 DEF Accounts, Bounded, SortedTimes
  <2>4. CASE /\ ~Locked(k) /\ now' = now
             /\ rec'[k] = Counted(rec[k], now) /\ fails'[k] = Append(fails[k], now)
    <3>1. rec[k] = None \/ rec[k].until <= now
      BY <2>1, <2>4, AuthAssumption DEF Locked, Record, Time
    <3> QED
      BY <2>1, <2>4, <3>1, FailureKeeps
  <2> QED
    BY <2>2, <2>3, <2>4, EveryStep DEF KeyStep
<1> QED
  BY <1>1, <1>2, TypeCorrect, PTL DEF Spec

(* A key is locked only for as many failures as the limit in one window, and *)
(* in any stretch of one lock the token is looked at fewer than twice that   *)
(* often in vain, over HTTP and over all pipes of the relay together         *)
(* (authManager.ts:73): whatever the lengths of window and lock, the limit,  *)
(* and the number of requests and pipes that ask at once.                    *)
THEOREM LocksFollow == Spec => []LocksFollowGuesses
<1>1. TypeOK /\ GuessInv => LocksFollowGuesses
  <2> SUFFICES ASSUME TypeOK, GuessInv PROVE LocksFollowGuesses
    OBVIOUS
  <2>1. GuessesBounded
    BY DEF GuessInv, Bounded, GuessesBounded
  <2>2. ASSUME NEW k \in Key, Locked(k)
        PROVE  \E i \in DOMAIN fails[k] :
                   LET last == i + MaxFailures - 1
                   IN  /\ last \in DOMAIN fails[k]
                       /\ fails[k][last] + Lock <= rec[k].until
                       /\ rec[k].until <= fails[k][i] + Window + Lock
    <3> DEFINE s == fails[k]
               n == Len(s)
               r == rec[k]
    <3>1. /\ s \in Seq(Time) /\ n \in Nat /\ DOMAIN s = 1 .. n /\ \A i \in 1 .. n : s[i] \in Nat
          /\ r \in Record /\ r # None /\ r.until > 0 /\ r.start \in Nat
      BY <2>2, AuthAssumption DEF Locked, Record, Time, TypeOK, AuthTypeOK
    <3>2. Accounts(r, s, now)
      BY DEF GuessInv
    <3>3. /\ r.failures \in 1 .. n /\ s[n] <= r.start + Window
          /\ \A i \in 1 .. n : i <= n - r.failures <=> s[i] < r.start
          /\ r.failures >= MaxFailures /\ r.until = s[n] + Lock
      BY <3>1, <3>2 DEF Accounts
    <3>4. Window \in Nat /\ Lock \in Nat /\ MaxFailures \in Nat \ {0}
      BY AuthAssumption
    <3> DEFINE i == n - (MaxFailures - 1)
    <3>5. i \in 1 .. n /\ ~(i <= n - r.failures) /\ i + MaxFailures - 1 = n
      BY <3>1, <3>3, <3>4
    <3>6. s[i] >= r.start
      BY <3>1, <3>3, <3>5
    <3> HIDE DEF i
    <3>7. s[n] + Lock <= r.until /\ r.until <= s[i] + Window + Lock
      <4>1. s[n] \in Nat /\ s[i] \in Nat /\ r.start \in Nat
        BY <3>1, <3>3, <3>5
      <4>2. r.until = s[n] + Lock /\ s[n] <= r.start + Window /\ r.start <= s[i]
        BY <3>3, <3>6, <4>1
      <4> HIDE DEF s, r, n
      <4> QED
        BY <3>4, <4>1, <4>2
    <3> QED
      BY <3>1, <3>5, <3>7
  <2> QED
    BY <2>1, <2>2 DEF LocksFollowGuesses, LockIsEarned
<1> QED
  BY <1>1, GuessInvHolds, TypeCorrect, PTL

-----------------------------------------------------------------------------
(* Challenges *)

Arrived(n) == conn[n].st # "new"

(* The connections that came after n. *)
After(n) == {m \in Nonce : m > n /\ Arrived(m)}

(* Connections come one by one in the order of their names. *)
InOrder ==
    \A n \in Nonce : Arrived(n) => n <= visit.conns /\ \A m \in Nonce : m < n => Arrived(m)

NotBeforeArrival ==
    \A n \in Nonce : ~Arrived(n) => conn[n].nonce = None /\ nonces[n] = None

(* A challenge that can still be answered is outstanding, or as many         *)
(* connections as the cap came after it.                                     *)
Answerable ==
    \A n \in Nonce : conn[n].nonce # None =>
        /\ conn[n].nonce.under <= epoch
        /\ conn[n].nonce.under = epoch /\ now < conn[n].nonce.at + NonceTtl =>
              nonces[n] = conn[n].nonce.at + NonceTtl \/ Cardinality(After(n)) >= NonceCap

NonceInv == InOrder /\ NotBeforeArrival /\ Answerable /\ RefusedOnlyAtCap

LEMMA LeastElement ==
    ASSUME NEW T \in SUBSET Nat, T # {}
    PROVE  \E n \in T : \A m \in T : n <= m
<1> DEFINE R == OpToRel(<, Nat)
<1>1. IsWellFoundedOn(R, Nat)
  BY NatLessThanWellFounded
<1>2. R = {ss \in Nat \X Nat : ss[1] < ss[2]}
  BY DEF OpToRel
<1>3. \E n \in T : \A m \in T : <<m, n>> \notin R
  <2> HIDE DEF R
  <2> QED
    BY <1>1, WFMin
<1>4. \A m, n \in Nat : m < n => <<m, n>> \in R
  BY <1>2
<1> HIDE DEF R
<1>5. \A m, n \in Nat : ~(m < n) => n <= m
  OBVIOUS
<1> QED
  BY <1>3, <1>4, <1>5

LEMMA OldestIsFirst ==
    ASSUME NEW table, Listed(table) # {}
    PROVE  Oldest(table) \in Listed(table) /\ \A m \in Listed(table) : Oldest(table) <= m
<1>1. Listed(table) \in SUBSET Nat
  BY AuthAssumption DEF Listed
<1>2. \E n \in Listed(table) : \A m \in Listed(table) : n <= m
  BY <1>1, LeastElement
<1> QED
  BY <1>2 DEF Oldest

(* Finitely many connections come, so those after one can be counted, and    *)
(* what is counted of them only grows.                                       *)
LEMMA AfterFinite ==
    ASSUME TypeOK, InOrder, NEW n
    PROVE  IsFiniteSet(After(n)) /\ Cardinality(After(n)) \in Nat
<1>1. visit.conns \in Nat
  BY DoorAssumption DEF TypeOK, Visit
<1>2. After(n) \in SUBSET Nat /\ \A m \in After(n) : m <= visit.conns
  BY AuthAssumption DEF After, InOrder
<1>3. IsFiniteSet(After(n))
  BY <1>1, <1>2, FS_BoundedSetOfNaturals
<1> QED
  BY <1>3, FS_CardinalityType

LEMMA AfterGrows ==
    ASSUME TypeOK, TypeOK', InOrder, InOrder', \A m \in Nonce : Arrived(m) => Arrived(m)',
           NEW n \in Nonce, Cardinality(After(n)) >= NonceCap
    PROVE  Cardinality(After(n)') >= NonceCap
<1>1. After(n) \in SUBSET After(n)'
  BY DEF After
<1>2. IsFiniteSet(After(n)') /\ Cardinality(After(n)') \in Nat
  <2>1. (IsFiniteSet(After(n)) /\ Cardinality(After(n)) \in Nat)'
    BY AfterFinite, PTL
  <2> QED
    BY <2>1
<1>3. Cardinality(After(n)) <= Cardinality(After(n)')
  BY <1>1, <1>2, FS_Subset
<1>4. Cardinality(After(n)) \in Nat
  BY AfterFinite
<1> QED
  BY <1>2, <1>3, <1>4, AuthAssumption

(* What a step that lets no connection arrive has to show for the rest. *)
LEMMA NoArrival ==
    ASSUME TypeOK, TypeOK', NonceInv, visit' = visit, epoch' >= epoch, now' >= now,
           \A n \in Nonce : Arrived(n)' <=> Arrived(n),
           \A n \in Nonce : conn'[n].nonce \in {conn[n].nonce, None},
           \A n \in Nonce : nonces'[n] \in {nonces[n], None},
           \A n \in Nonce : conn'[n].nonce # None /\ epoch' = epoch => nonces'[n] = nonces[n],
           \A n \in refused' : n \in refused \/ Cardinality(After(n)) >= NonceCap
    PROVE  NonceInv'
<1>1. InOrder'
  BY DEF NonceInv, InOrder
<1>2. NotBeforeArrival'
  BY DEF NonceInv, NotBeforeArrival
<1>3. \A n \in Nonce : Cardinality(After(n)) >= NonceCap => Cardinality(After(n)') >= NonceCap
  BY <1>1, AfterGrows DEF NonceInv
<1>4. \A n \in refused : Cardinality(After(n)) >= NonceCap
  BY DEF NonceInv, RefusedOnlyAtCap, After, Arrived
<1>5. RefusedOnlyAtCap'
  <2> SUFFICES ASSUME NEW n \in refused' PROVE Cardinality(After(n)') >= NonceCap
    BY DEF RefusedOnlyAtCap, After, Arrived
  <2> QED
    BY <1>3, <1>4 DEF TypeOK
<1>6. Answerable'
  <2> SUFFICES ASSUME NEW n \in Nonce, conn'[n].nonce # None
               PROVE  /\ conn'[n].nonce.under <= epoch'
                      /\ conn'[n].nonce.under = epoch' /\ now' < conn'[n].nonce.at + NonceTtl =>
                            \/ nonces'[n] = conn'[n].nonce.at + NonceTtl
                            \/ Cardinality(After(n)') >= NonceCap
    BY DEF Answerable
  <2>1. conn'[n].nonce = conn[n].nonce /\ conn[n].nonce # None
    OBVIOUS
  <2>2. /\ conn[n].nonce.under \in Nat /\ conn[n].nonce.at \in Nat /\ NonceTtl \in Nat
        /\ now \in Nat /\ now' \in Nat /\ epoch \in Nat /\ epoch' \in Nat
    BY <2>1, AuthAssumption DEF TypeOK, AuthTypeOK, Conn, Time, Epoch
  <2>3. /\ conn[n].nonce.under <= epoch
        /\ conn[n].nonce.under = epoch /\ now < conn[n].nonce.at + NonceTtl =>
              nonces[n] = conn[n].nonce.at + NonceTtl \/ Cardinality(After(n)) >= NonceCap
    BY <2>1 DEF NonceInv, Answerable
  <2>4. CASE epoch' = epoch
    BY <1>3, <2>1, <2>2, <2>3, <2>4
  <2>5. CASE epoch' # epoch
    BY <2>1, <2>2, <2>3, <2>5
  <2> QED
    BY <2>4, <2>5
<1> QED
  BY <1>1, <1>2, <1>5, <1>6 DEF NonceInv

(* When the cap makes room by dropping a challenge that has not expired, all *)
(* that are left and the newcomer came after it.                             *)
LEMMA DroppedAtCap ==
    ASSUME TypeOK, TypeOK', NonceInv, InOrder', NEW n \in Nonce, NEW m \in Nonce, n # m,
           ~Arrived(m), Arrived(m)', \A k \in Nonce : Arrived(k) => Arrived(k)',
           nonces[n] # None, nonces[n] > now, MakeRoom(Fresh(nonces))[n] # nonces[n]
    PROVE  Cardinality(After(n)') >= NonceCap
<1> DEFINE left == Listed(Fresh(nonces))
<1>1. Fresh(nonces)[n] = nonces[n] /\ Fresh(nonces) \in [Nonce -> Nat \cup {None}]
  BY DEF Fresh, TypeOK, AuthTypeOK
<1>2. Cardinality(left) >= NonceCap /\ n = Oldest(Fresh(nonces))
  BY <1>1 DEF MakeRoom
<1>3. n \in left
  BY <1>1 DEF Listed
<1>4. \A k \in left : n <= k
  BY <1>2, <1>3, OldestIsFirst
<1>5. \A k \in left : k \in Nonce /\ Arrived(k)
  BY DEF Listed, Fresh, NonceInv, NotBeforeArrival
<1>6. m > n /\ m \notin left
  BY <1>3, <1>5, AuthAssumption DEF NonceInv, InOrder
<1>7. (left \ {n}) \cup {m} \in SUBSET After(n)'
  <2>1. n \in Nat /\ Nonce \subseteq Nat
    BY AuthAssumption
  <2>2. \A k \in left \ {n} : k \in Nonce /\ k > n /\ Arrived(k)'
    <3> SUFFICES ASSUME NEW k \in left \ {n} PROVE k \in Nonce /\ k > n /\ Arrived(k)'
      OBVIOUS
    <3>1. k \in Nonce /\ Arrived(k) /\ n <= k /\ k # n
      BY <1>4, <1>5
    <3> QED
      BY <2>1, <3>1
  <2> HIDE DEF left
  <2>3. \A k \in (left \ {n}) \cup {m} : k \in Nonce /\ k > n /\ Arrived(k)'
    BY <1>6, <2>2
  <2> QED
    BY <2>3 DEF After
<1>8. IsFiniteSet(left) /\ Cardinality(left) \in Nat
  <2>1. left \in SUBSET Nat /\ \A k \in left : k <= visit.conns
    BY <1>5, AuthAssumption DEF NonceInv, InOrder
  <2>2. visit.conns \in Nat
    BY DoorAssumption DEF TypeOK, Visit
  <2> HIDE DEF left
  <2> QED
    BY <2>1, <2>2, FS_BoundedSetOfNaturals, FS_CardinalityType
<1> HIDE DEF left
<1>9. IsFiniteSet(left \ {n}) /\ Cardinality(left \ {n}) = Cardinality(left) - 1
  BY <1>3, <1>8, FS_RemoveElement
<1>10. Cardinality((left \ {n}) \cup {m}) = Cardinality(left)
  <2>1. m \notin left \ {n}
    BY <1>6
  <2>2. Cardinality((left \ {n}) \cup {m}) = Cardinality(left \ {n}) + 1
    BY <1>9, <2>1, FS_AddElement
  <2> QED
    BY <1>8, <1>9, <2>2
<1>11. IsFiniteSet(After(n)') /\ Cardinality(After(n)') \in Nat
  <2>1. (IsFiniteSet(After(n)) /\ Cardinality(After(n)) \in Nat)'
    BY AfterFinite, PTL
  <2> QED
    BY <2>1
<1>12. Cardinality((left \ {n}) \cup {m}) <= Cardinality(After(n)')
  BY <1>7, <1>11, FS_Subset
<1> QED
  BY <1>2, <1>8, <1>10, <1>11, <1>12, AuthAssumption

(* A step by which m arrives, challenged or not. *)
LEMMA Arrival ==
    ASSUME TypeOK, TypeOK', NonceInv, NEW m \in Nonce, Arrives(m), NEW x \in Conn, x.st # "new",
           conn' = [conn EXCEPT ![m] = x], UNCHANGED <<visit, epoch, now, refused>>,
           \/ x.nonce = None /\ nonces' = nonces
           \/ x.nonce = [at |-> now, under |-> epoch] /\ IssueNonce(m)
    PROVE  NonceInv'
<1>1. ~Arrived(m) /\ Arrived(m)' /\ \A n \in Nonce : n # m => conn'[n] = conn[n] /\ (Arrived(n)' <=> Arrived(n))
  BY DEF Arrived, Arrives, TypeOK
<1>2. InOrder'
  BY <1>1 DEF NonceInv, InOrder, Arrives, Arrived
<1>3. \A n \in Nonce : Arrived(n) => Arrived(n)'
  BY <1>1
<1>4. \A n \in Nonce : Cardinality(After(n)) >= NonceCap => Cardinality(After(n)') >= NonceCap
  BY <1>2, <1>3, AfterGrows DEF NonceInv
<1>5. RefusedOnlyAtCap'
  <2>1. \A n \in refused : Cardinality(After(n)) >= NonceCap
    BY DEF NonceInv, RefusedOnlyAtCap, After, Arrived
  <2> SUFFICES ASSUME NEW n \in refused PROVE Cardinality(After(n)') >= NonceCap
    BY DEF RefusedOnlyAtCap, After, Arrived
  <2> QED
    BY <1>4, <2>1 DEF TypeOK
<1>6. \A n \in Nonce : n # m => nonces'[n] \in {nonces[n], None}
  BY DEF IssueNonce, MakeRoom, Fresh, TypeOK, AuthTypeOK
<1>7. NotBeforeArrival'
  BY <1>1, <1>6 DEF NonceInv, NotBeforeArrival
<1>8. Answerable'
  <2> SUFFICES ASSUME NEW n \in Nonce, conn'[n].nonce # None
               PROVE  /\ conn'[n].nonce.under <= epoch
                      /\ conn'[n].nonce.under = epoch /\ now < conn'[n].nonce.at + NonceTtl =>
                            \/ nonces'[n] = conn'[n].nonce.at + NonceTtl
                            \/ Cardinality(After(n)') >= NonceCap
    BY DEF Answerable
  <2>1. CASE n = m
    <3>1. conn'[n].nonce = [at |-> now, under |-> epoch] /\ IssueNonce(m)
      BY <2>1 DEF TypeOK
    <3>2. nonces'[n] = now + NonceTtl
      BY <2>1, <3>1 DEF IssueNonce, MakeRoom, Fresh
    <3> QED
      BY <3>1, <3>2, AuthAssumption DEF TypeOK, AuthTypeOK, Epoch
  <2>2. CASE n # m
    <3>1. conn'[n].nonce = conn[n].nonce /\ conn[n].nonce # None
      BY <1>1, <2>2
    <3>2. /\ conn[n].nonce.under <= epoch
          /\ conn[n].nonce.under = epoch /\ now < conn[n].nonce.at + NonceTtl =>
                nonces[n] = conn[n].nonce.at + NonceTtl \/ Cardinality(After(n)) >= NonceCap
      BY <3>1 DEF NonceInv, Answerable
    <3>3. conn[n].nonce.at \in Nat /\ now \in Nat /\ NonceTtl \in Nat
      BY <3>1, AuthAssumption DEF TypeOK, AuthTypeOK, Conn, Time
    <3>4. ASSUME now < conn[n].nonce.at + NonceTtl, nonces[n] = conn[n].nonce.at + NonceTtl
          PROVE  nonces'[n] = nonces[n] \/ Cardinality(After(n)') >= NonceCap
      <4>1. nonces[n] # None /\ nonces[n] > now
        BY <3>3, <3>4, AuthAssumption
      <4>2. CASE nonces' = nonces
        BY <4>2
      <4>3. CASE IssueNonce(m) /\ MakeRoom(Fresh(nonces))[n] = nonces[n]
        <5>1. MakeRoom(Fresh(nonces)) \in [Nonce -> Nat \cup {None}]
          BY DEF MakeRoom, Fresh, TypeOK, AuthTypeOK
        <5> QED
          BY <2>2, <4>3, <5>1 DEF IssueNonce
      <4>4. CASE MakeRoom(Fresh(nonces))[n] # nonces[n]
        BY <1>1, <1>2, <1>3, <2>2, <4>1, <4>4, DroppedAtCap
      <4> QED
        BY <4>2, <4>3, <4>4
    <3> QED
      BY <1>4, <3>1, <3>2, <3>3, <3>4
  <2> QED
    BY <2>1, <2>2
<1> QED
  BY <1>2, <1>5, <1>7, <1>8 DEF NonceInv

LEMMA NonceInvHolds == Spec => []NonceInv
<1>1. Init => NonceInv
  BY DEF Init, AuthInit, Nobody, NonceInv, InOrder, NotBeforeArrival, Answerable, RefusedOnlyAtCap, Arrived
<1>2. TypeOK /\ TypeOK' /\ NonceInv /\ [Next]_vars => NonceInv'
  <2> SUFFICES ASSUME TypeOK, TypeOK', NonceInv, [Next]_vars PROVE NonceInv'
    OBVIOUS
  <2>1. now \in Nat /\ epoch \in Nat /\ \A n \in refused : n \in Nonce /\ Cardinality(After(n)) >= NonceCap
    <3>1. now \in Nat /\ epoch \in Nat /\ refused \subseteq Nonce
      BY AuthAssumption DEF TypeOK, AuthTypeOK, Time, Epoch
    <3> QED
      BY <3>1 DEF NonceInv, RefusedOnlyAtCap, After, Arrived
  <2>2. CASE UNCHANGED <<now, epoch, nonces, conn, visit, refused>>
    BY <2>1, <2>2, NoArrival DEF Arrived
  <2>3. CASE Tick /\ UNCHANGED <<posts, conn, visit, refused>>
    BY <2>1, <2>3, NoArrival DEF Tick, Arrived
  <2>4. CASE RotateToken /\ UNCHANGED <<posts, conn, visit, refused>>
    BY <2>1, <2>4, NoArrival DEF RotateToken, Arrived
  <2>5. ASSUME NEW n \in Nonce, WrongFrame(n) \/ TimesOut(n) \/ Closes(n) PROVE NonceInv'
    <3>1. PICK x \in Conn : conn' = [conn EXCEPT ![n] = x] /\ x.st # "new" /\ x.nonce \in {conn[n].nonce, None}
      <4>1. /\ Failed(n) \in Conn /\ [Failed(n) EXCEPT !.deadline = None] \in Conn
            /\ Nobody("closed") \in Conn
        BY FailedType DEF Conn, Nobody
      <4>2. /\ Failed(n).st # "new" /\ Failed(n).nonce = conn[n].nonce
            /\ [Failed(n) EXCEPT !.deadline = None].st # "new"
            /\ [Failed(n) EXCEPT !.deadline = None].nonce = conn[n].nonce
            /\ Nobody("closed").st # "new" /\ Nobody("closed").nonce = None
        BY DEF Failed, Nobody, Conn, TypeOK
      <4> QED
        BY <2>5, <4>1, <4>2 DEF WrongFrame, TimesOut, Closes
    <3>2. conn[n].st # "new" /\ UNCHANGED <<now, epoch, nonces, visit, refused>>
      BY <2>5 DEF WrongFrame, TimesOut, Closes, Heard, managerVars
    <3>3. \A k \in Nonce : (Arrived(k)' <=> Arrived(k)) /\ conn'[k].nonce \in {conn[k].nonce, None}
      BY <3>1, <3>2 DEF Arrived, TypeOK
    <3> QED
      BY <2>1, <3>2, <3>3, NoArrival
  <2>6. ASSUME NEW n \in Nonce, NEW c \in Cookie, UpgradeWithCookie(n, c) PROVE NonceInv'
    <3> DEFINE x == [st |-> "open", authed |-> TRUE, nonce |-> None, deadline |-> None]
    <3>1. x \in Conn /\ x.st # "new" /\ x.nonce = None
      BY DEF Conn
    <3>2. conn' = [conn EXCEPT ![n] = x]
      BY <2>6 DEF UpgradeWithCookie, Connected
    <3> HIDE DEF x
    <3> QED
      BY <2>6, <3>1, <3>2, Arrival DEF UpgradeWithCookie
  <2>7. ASSUME NEW n \in Nonce, NEW c \in Cookie \cup {None}, NEW loopback \in BOOLEAN,
               Upgrade(n, c, loopback)
        PROVE  NonceInv'
    <3>1. CASE visit.relay /\ loopback
      <4> DEFINE x == [st |-> IF Locked(Relay) THEN "closing" ELSE "open", authed |-> FALSE,
                       nonce |-> [at |-> now, under |-> epoch], deadline |-> now + AuthTimeout]
      <4>1. x \in Conn /\ x.st # "new" /\ x.nonce = [at |-> now, under |-> epoch]
        <5>1. now + AuthTimeout \in Nat
          BY <2>1, DoorAssumption
        <5> QED
          BY <5>1 DEF Conn, TypeOK, AuthTypeOK
      <4>2. conn' = [conn EXCEPT ![n] = x]
        BY <2>7, <3>1 DEF Upgrade, Connected
      <4> HIDE DEF x
      <4> QED
        BY <2>7, <3>1, <4>1, <4>2, Arrival DEF Upgrade
    <3>2. CASE ~(visit.relay /\ loopback)
      <4>1. Nobody("closed") \in Conn /\ Nobody("closed").st # "new" /\ Nobody("closed").nonce = None
        BY DEF Conn, Nobody
      <4> QED
        BY <2>7, <3>2, <4>1, Arrival DEF Upgrade
    <3> QED
      BY <3>1, <3>2
  <2>8. ASSUME NEW n \in Nonce, NEW e \in Epoch, AuthResponse(n, e) PROVE NonceInv'
    <3> DEFINE about == IF conn[n].nonce # None THEN n ELSE None
               ok == Verified(about, e)
    <3>1. PICK x \in Conn : conn' = [conn EXCEPT ![n] = x] /\ x.st # "new" /\ x.nonce = None
      <4>1. /\ [conn[n] EXCEPT !.authed = TRUE, !.nonce = None, !.deadline = None] \in Conn
            /\ [conn[n] EXCEPT !.authed = TRUE, !.nonce = None, !.deadline = None].st # "new"
            /\ [conn[n] EXCEPT !.authed = TRUE, !.nonce = None, !.deadline = None].nonce = None
        <5>1. conn[n] \in Conn /\ conn[n].st # "new"
          BY <2>8 DEF AuthResponse, Heard, TypeOK
        <5> QED
          BY <5>1 DEF Conn
      <4>2. /\ Failed(n) \in Conn /\ Failed(n).st = "closing"
        BY FailedType DEF Failed, Conn, TypeOK
      <4>3. /\ [Failed(n) EXCEPT !.nonce = None] \in Conn
            /\ [Failed(n) EXCEPT !.nonce = None].st # "new"
            /\ [Failed(n) EXCEPT !.nonce = None].nonce = None
        BY <4>2 DEF Conn
      <4> QED
        BY <2>8, <4>1, <4>3 DEF AuthResponse
    <3>2. conn[n].st # "new" /\ UNCHANGED <<now, epoch, visit>> /\ VerifyRelayMac(about, e)
      BY <2>8 DEF AuthResponse, Heard
    <3>3. \A k \in Nonce : /\ Arrived(k)' <=> Arrived(k)
                           /\ conn'[k].nonce \in {conn[k].nonce, None}
                           /\ conn'[k].nonce # None => k # n
      BY <3>1, <3>2 DEF Arrived, TypeOK
    <3>4. \A k \in Nonce : nonces'[k] \in {nonces[k], None} /\ (k # n => nonces'[k] = nonces[k])
      BY <3>2 DEF VerifyRelayMac, Without, TypeOK, AuthTypeOK
    <3>5. \A k \in refused' : k \in refused \/ Cardinality(After(k)) >= NonceCap
      <4> SUFFICES ASSUME Deserves(n, e), ~ok PROVE Cardinality(After(n)) >= NonceCap
        BY <2>8 DEF AuthResponse
      <4>1. /\ conn[n].nonce # None /\ ~Locked(Relay) /\ conn[n].nonce.under = epoch /\ e = epoch
            /\ now < conn[n].nonce.at + NonceTtl
        BY DEF Deserves
      <4>2. conn[n].nonce.at + NonceTtl \in Nat
        BY <4>1, AuthAssumption DEF TypeOK, Conn, Time
      <4>3. CASE nonces[n] = conn[n].nonce.at + NonceTtl
        BY <2>1, <4>1, <4>2, <4>3, AuthAssumption DEF Verified, Outstanding
      <4> QED
        BY <4>1, <4>3 DEF NonceInv, Answerable
    <3> QED
      BY <2>1, <3>2, <3>3, <3>4, <3>5, NoArrival
  <2> QED
    BY <2>2, <2>3, <2>4, <2>5, <2>6, <2>7, <2>8
       DEF Next, Request, PostLogin, BodyRead, BodyFails, managerVars, vars
<1> QED
  BY <1>1, <1>2, TypeCorrect, PTL DEF Spec

(* A client that answers its challenge in time with the right token, the     *)
(* pipes not being locked, is refused only if as many others as the cap of   *)
(* challenges came after it (remoteServer.ts:421, authManager.ts:162): no    *)
(* order of upgrades, answers, expiries, locks and rotations turns it away   *)
(* otherwise.                                                                *)
THEOREM RightAnswerAdmitted == Spec => []RefusedOnlyAtCap
<1>1. NonceInv => RefusedOnlyAtCap
  BY DEF NonceInv
<1> QED
  BY <1>1, NonceInvHolds, PTL

-----------------------------------------------------------------------------
(* Lemmas about the operators the actions are built from *)

(* The variables the cookies depend on keep their type. *)
CookieType ==
    /\ cookies \in [Cookie -> Time \cup {None}]
    /\ minted \in [Cookie -> Epoch \cup {None}]
    /\ now \in Time
    /\ epoch \in Epoch

CookieInv == CookieType /\ CookiesOfCurrentToken

(* Asking whether a cookie is valid refreshes or deletes it, and never makes *)
(* one valid that was not.                                                  *)
LEMMA TouchKeeps ==
    ASSUME CookieInv, NEW c \in Cookie \cup {None}, Touch(c), UNCHANGED <<now, epoch>>
    PROVE  CookieInv'
<1>1. CASE Known(c)
  <2>1. c \in Cookie /\ cookies[c] # None
    BY <1>1 DEF Known
  <2>2. PICK v \in Time \cup {None} : cookies' = [cookies EXCEPT ![c] = v]
    BY <1>1 DEF Touch, CookieInv, CookieType
  <2>3. cookies' \in [Cookie -> Time \cup {None}]
    BY <2>1, <2>2 DEF CookieInv, CookieType
  <2>4. \A d \in Cookie : cookies'[d] # None => cookies[d] # None
    BY <2>1, <2>2 DEF CookieInv, CookieType
  <2> QED
    BY <2>3, <2>4 DEF Touch, CookieInv, CookieType, CookiesOfCurrentToken
<1>2. CASE ~Known(c)
  BY <1>2 DEF Touch, CookieInv, CookieType, CookiesOfCurrentToken
<1> QED
  BY <1>1, <1>2

(* A login mints a cookie only for the token that is current when its body   *)
(* was read, not when its request came.                                     *)
LEMMA LoginKeeps ==
    ASSUME CookieInv, NEW ip, NEW e \in Epoch, Login(ip, e), UNCHANGED <<now, epoch>>
    PROVE  CookieInv'
<1>1. CASE UNCHANGED cookieVars
  BY <1>1 DEF cookieVars, CookieInv, CookieType, CookiesOfCurrentToken
<1>2. ASSUME e = epoch, NEW c \in Cookie, Mint(c, e) PROVE CookieInv'
  BY <1>2 DEF Mint, CookieInv, CookieType, CookiesOfCurrentToken
<1> QED
  BY <1>1, <1>2 DEF Login

-----------------------------------------------------------------------------
(* No cookie of an earlier token is valid: a rotation ends every cookie      *)
(* session, and none comes back, not by a login whose body was under way     *)
(* when the token changed and not by a request that refreshes an old cookie  *)
(* (authManager.ts:198, remoteServer.ts:286).                                *)
THEOREM CookiesDieWithTheirToken == Spec => []CookiesOfCurrentToken
<1>1. Init => CookieInv
  BY AuthAssumption DEF Init, AuthInit, CookieInv, CookieType, CookiesOfCurrentToken, Time, Epoch
<1>2. CookieInv /\ [Next]_vars => CookieInv'
  <2> SUFFICES ASSUME CookieInv, [Next]_vars PROVE CookieInv'
    OBVIOUS
  <2>1. CASE UNCHANGED <<now, epoch, cookieVars>>
    BY <2>1 DEF cookieVars, CookieInv, CookieType, CookiesOfCurrentToken
  <2>2. CASE Tick
    BY <2>2, AuthAssumption DEF Tick, cookieVars, CookieInv, CookieType, CookiesOfCurrentToken, Time
  <2>3. CASE RotateToken
    BY <2>3, AuthAssumption DEF RotateToken, CookieInv, CookieType, CookiesOfCurrentToken, Epoch
  <2>4. ASSUME NEW c \in Cookie, Request(c) PROVE CookieInv'
    BY <2>4, TouchKeeps DEF Request
  <2>5. ASSUME NEW q \in Post, NEW e \in Epoch, BodyRead(q), posts[q].token = e PROVE CookieInv'
    BY <2>5, LoginKeeps DEF BodyRead
  <2>6. ASSUME NEW q \in Post, BodyRead(q) PROVE CookieInv'
    <3>1. UNCHANGED <<now, epoch>> /\ Login(posts[q].ip, posts[q].token)
      BY <2>6 DEF BodyRead
    <3>2. CASE posts[q].token = epoch
      BY <2>5, <2>6, <3>2 DEF CookieInv, CookieType
    <3>3. CASE posts[q].token # epoch
      BY <2>1, <3>1, <3>3 DEF Login, cookieVars
    <3> QED
      BY <3>2, <3>3
  <2>7. ASSUME NEW n \in Nonce, NEW c \in Cookie, UpgradeWithCookie(n, c) PROVE CookieInv'
    BY <2>7, TouchKeeps DEF UpgradeWithCookie
  <2>8. ASSUME NEW n \in Nonce, NEW c \in Cookie \cup {None}, NEW loopback \in BOOLEAN,
               Upgrade(n, c, loopback)
        PROVE  CookieInv'
    BY <2>8, TouchKeeps DEF Upgrade
  <2>9. ASSUME NEW n \in Nonce, NEW e \in Epoch, AuthResponse(n, e) PROVE CookieInv'
    BY <2>1, <2>9 DEF AuthResponse
  <2> QED
    BY <2>1, <2>2, <2>3, <2>4, <2>6, <2>7, <2>8, <2>9
       DEF Next, PostLogin, BodyFails, WrongFrame, TimesOut, Closes, managerVars, vars
<1>3. CookieInv => CookiesOfCurrentToken
  BY DEF CookieInv
<1> QED
  BY <1>1, <1>2, <1>3, PTL DEF Spec
=============================================================================
