---------------------------- MODULE AuthManager ----------------------------
(***************************************************************************)
(* Access control of the desktop host (src/main/authManager.ts): login     *)
(* with the access token over HTTP, the challenge and response of relay    *)
(* pipes, the failure window and lock both share, session cookies with     *)
(* sliding expiry, and token rotation.  HostDoor is the behaviour around   *)
(* it: what asks for all this, and when.                                   *)
(*                                                                         *)
(* A MAC is the pair of the nonce it signs and the token generation it was *)
(* computed with.  Time is a counter; what the code compares with          *)
(* Date.now() is compared with now.                                        *)
(***************************************************************************)
EXTENDS Naturals, FiniteSets, Sequences

CONSTANTS
    Ip,          \* addresses that log in over HTTP
    Relay,       \* the key all relay pipes share: '__relay__'
    Nonce,       \* nonces that may be issued, numbered in that order
    Cookie,      \* session cookies that may be issued
    Window, Lock, MaxFailures, \* the failure window, the lock, and the limit
    NonceTtl, NonceCap,        \* life and number of outstanding nonces
    SessionTtl,  \* idle life of a cookie
    MaxTime,     \* bound on the clock
    MaxEpoch,    \* bound on token rotations
    None

Key == Ip \cup {Relay}
Time == 0 .. MaxTime
Epoch == 0 .. MaxEpoch
Record == [failures : Nat, start : Time, until : Nat]

ASSUME AuthAssumption ==
    /\ Relay \notin Ip
    /\ {Window, Lock, MaxFailures, NonceTtl, NonceCap, SessionTtl} \subseteq Nat \ {0}
    /\ MaxTime \in Nat /\ MaxEpoch \in Nat
    /\ Nonce \subseteq Nat /\ None \notin Nat \cup Record

VARIABLES
    now,      \* Date.now()
    epoch,    \* generation of accessToken
    rec,      \* ips: the failure record of each key
    fails,    \* history: times of the failures of each key since its record was cleared
    nonces,   \* relayNonces: when each outstanding nonce expires
    cookies,  \* sessions: lastSeen of each valid cookie
    minted    \* history: the token each cookie was issued for

authVars == <<rec, fails>>
cookieVars == <<cookies, minted>>
managerVars == <<now, epoch, authVars, nonces, cookieVars>>

AuthTypeOK ==
    /\ now \in Time
    /\ epoch \in Epoch
    /\ rec \in [Key -> Record \cup {None}]
    /\ nonces \in [Nonce -> Nat \cup {None}]
    /\ cookies \in [Cookie -> Time \cup {None}]
    /\ minted \in [Cookie -> Epoch \cup {None}]
    /\ fails \in [Key -> Seq(Time)]

AuthInit ==
    /\ now = 0
    /\ epoch = 0
    /\ rec = [k \in Key |-> None]
    /\ nonces = [n \in Nonce |-> None]
    /\ cookies = [c \in Cookie |-> None]
    /\ minted = [c \in Cookie |-> None]
    /\ fails = [k \in Key |-> <<>>]

Locked(k) == rec[k] # None /\ rec[k].until > now

(* The record a failure is counted in: a new one once the window passed. *)
CurrentWindow(k) ==
    IF rec[k] = None \/ now - rec[k].start > Window
    THEN [failures |-> 0, start |-> now, until |-> 0]
    ELSE rec[k]

(* recordFailure *)
RecordFailure(k) ==
    LET r == CurrentWindow(k)
        n == r.failures + 1
    IN  /\ rec' = [rec EXCEPT ![k] =
              [failures |-> n, start |-> r.start,
               until |-> IF n >= MaxFailures THEN now + Lock ELSE r.until]]
        /\ fails' = [fails EXCEPT ![k] = Append(@, now)]

(* A success clears the record of its key. *)
ClearRecord(k) ==
    /\ rec' = [rec EXCEPT ![k] = None]
    /\ fails' = [fails EXCEPT ![k] = <<>>]

-----------------------------------------------------------------------------
(* Cookies *)

Mint(c, token) ==
    /\ minted[c] = None
    /\ cookies' = [cookies EXCEPT ![c] = now]
    /\ minted' = [minted EXCEPT ![c] = token]

(* login with the token of generation e: a locked address is refused before *)
(* the token is looked at.                                                  *)
Login(ip, e) ==
    \/ /\ Locked(ip)
       /\ UNCHANGED <<authVars, cookieVars>>
    \/ /\ ~Locked(ip) /\ e = epoch
       /\ ClearRecord(ip)
       /\ \E c \in Cookie : Mint(c, e)
    \/ /\ ~Locked(ip) /\ e # epoch
       /\ RecordFailure(ip)
       /\ UNCHANGED cookieVars

Known(c) == c # None /\ cookies[c] # None

IsValidSession(c) == Known(c) /\ now - cookies[c] <= SessionTtl

(* What isValidSession does: a cookie is refreshed, or deleted when it      *)
(* idled longer than its life.                                              *)
Touch(c) ==
    /\ cookies' = IF Known(c) THEN [cookies EXCEPT ![c] = IF IsValidSession(c) THEN now ELSE None] ELSE cookies
    /\ UNCHANGED minted

-----------------------------------------------------------------------------
(* Challenges *)

(* The challenges that are not answered yet. *)
Listed(table) == {n \in Nonce : table[n] # None}

Oldest(table) == CHOOSE n \in Listed(table) : \A m \in Listed(table) : n <= m

(* Those that have not expired, *)
Fresh(table) == [n \in Nonce |-> IF table[n] # None /\ table[n] > now THEN table[n] ELSE None]

Mutant_EvictOneEarly(table) ==
    IF Cardinality(Listed(table)) >= NonceCap - 1 /\ Listed(table) # {}
    THEN [table EXCEPT ![Oldest(table)] = None]
    ELSE table

(* and room for one more: at the cap the oldest goes. *)
MakeRoom(table) ==
    IF Cardinality(Listed(table)) >= NonceCap
    THEN [table EXCEPT ![Oldest(table)] = None]
    ELSE table

(* issueRelayNonce *)
IssueNonce(n) == nonces' = [MakeRoom(Fresh(nonces)) EXCEPT ![n] = now + NonceTtl]

(* The table without n: a nonce is used up by an answer, right or wrong. *)
Without(n) == IF n = None THEN nonces ELSE [nonces EXCEPT ![n] = None]

Outstanding(n) == n # None /\ nonces[n] # None /\ nonces[n] > now

Verified(n, e) == ~Locked(Relay) /\ Outstanding(n) /\ e = epoch

(* verifyRelayMac of the MAC a client computed under token generation e;    *)
(* while the key is locked nothing is verified and nothing used up.         *)
VerifyRelayMac(n, e) ==
    /\ nonces' = IF Locked(Relay) THEN nonces ELSE Without(n)
    /\ \/ /\ Locked(Relay)
          /\ UNCHANGED authVars
       \/ /\ Verified(n, e)
          /\ ClearRecord(Relay)
       \/ /\ ~Locked(Relay) /\ ~Verified(n, e)
          /\ RecordFailure(Relay)

Mutant_RotateKeepsCookies ==
    /\ epoch < MaxEpoch
    /\ epoch' = epoch + 1
    /\ rec' = [k \in Key |-> None]
    /\ fails' = [k \in Key |-> <<>>]
    /\ nonces' = [n \in Nonce |-> None]
    /\ UNCHANGED <<now, cookieVars>>

(* rotateToken: nothing issued under the old token survives. *)
RotateToken ==
    /\ epoch < MaxEpoch
    /\ epoch' = epoch + 1
    /\ rec' = [k \in Key |-> None]
    /\ fails' = [k \in Key |-> <<>>]
    /\ nonces' = [n \in Nonce |-> None]
    /\ cookies' = [c \in Cookie |-> None]
    /\ UNCHANGED <<now, minted>>

Tick ==
    /\ now < MaxTime
    /\ now' = now + 1
    /\ UNCHANGED <<epoch, authVars, nonces, cookieVars>>

-----------------------------------------------------------------------------
(* No cookie of an earlier token is valid: rotation ends every session, and *)
(* none comes back, not even by a login that was on its way.                *)
CookiesOfCurrentToken == \A c \in Cookie : cookies[c] # None => minted[c] = epoch

(* A key is only locked for failures that fell into one window: nobody is   *)
(* locked out by mistakes spread over a longer time.                        *)
LockIsEarned ==
    \A k \in Key : Locked(k) => \E i \in DOMAIN fails[k] :
        LET last == i + MaxFailures - 1
        IN  /\ last \in DOMAIN fails[k]
            /\ fails[k][last] + Lock <= rec[k].until
            /\ rec[k].until <= fails[k][i] + Window + Lock

(* authManager.ts:73: in any stretch of one lock the token is looked at     *)
(* fewer than 2 * MaxFailures times in vain, however many requests and pipes*)
(* ask at once.                                                             *)
GuessesBounded ==
    Lock <= Window => \A k \in Key : \A i \in DOMAIN fails[k] :
        LET last == i + 2 * MaxFailures - 1
        IN  last \in DOMAIN fails[k] => fails[k][i] + Lock <= fails[k][last]

(* Locks answer guesses: none without as many in one window, and no stretch *)
(* of a lock's length without one that stops them.                          *)
LocksFollowGuesses == LockIsEarned /\ GuessesBounded
=============================================================================
