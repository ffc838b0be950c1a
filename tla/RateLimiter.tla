---------------------------- MODULE RateLimiter ----------------------------
(***************************************************************************)
(* The failure limiter of the relay (relay/src/ratelimit.mjs), used per    *)
(* address and per code: failures of a key within a window lock it for a   *)
(* term, and the table of records is bounded.                              *)
(*                                                                         *)
(* The server keeps two of them.  Registers, joins, logins and some calls  *)
(* of the API ask the one of addresses first whether it is locked, some of *)
(* them before an await; pipes and the other calls never ask, and a        *)
(* failure is counted in any case (authFail in relay/src/server.mjs): a    *)
(* locked key can fail.  RelayAdmin is the behaviour around it: failures   *)
(* at the doors of the relay, and of its HTTP API.                         *)
(***************************************************************************)
EXTENDS Naturals, FiniteSets, Sequences, Functions

CONSTANTS
    Key,          \* addresses, or codes
    Window, Lock, MaxFailures, MaxKeys, \* as configured, each on its own
    MaxTime,      \* bound on the clock
    MaxLog        \* bound on the guesses remembered per key

ASSUME LimiterAssumption ==
    /\ {Window, Lock, MaxFailures, MaxKeys} \subseteq Nat \ {0}
    /\ MaxTime \in Nat /\ MaxLog \in Nat

VARIABLES
    now,
    recs,      \* the table: a function on the keys that have a record
    promised,  \* history: until when the last lock of each key was to hold
    tried,     \* history: when each key failed last
    evicted,   \* history: keys whose record made room for another
    guesses    \* history: times at which each key failed while it was not locked

vars == <<now, recs, promised, tried, evicted, guesses>>

Record == [failures : Nat, start : Nat, until : Nat]

TypeOK ==
    /\ now \in 0 .. MaxTime
    /\ DOMAIN recs \subseteq Key
    /\ \A k \in DOMAIN recs : recs[k] \in Record /\ recs[k].failures < MaxFailures
    /\ promised \in [Key -> Nat] /\ tried \in [Key -> 0 .. MaxTime]
    /\ evicted \subseteq Key
    /\ guesses \in [Key -> Seq(0 .. MaxTime)]

Init ==
    /\ now = 0
    /\ recs = [k \in {} |-> 0]
    /\ promised = [k \in Key |-> 0] /\ tried = [k \in Key |-> 0]
    /\ evicted = {}
    /\ guesses = [k \in Key |-> <<>>]

Locked(k) == k \in DOMAIN recs /\ recs[k].until > now

(* The record of k still counts: its window has not passed. *)
InWindow(k) == k \in DOMAIN recs /\ now - recs[k].start < Window

Expired(k) == now - recs[k].start >= Window /\ recs[k].until <= now

Oldest(table) == CHOOSE k \in DOMAIN table :
    \A l \in DOMAIN table : table[k].start <= table[l].start

(* evictExpired, at the cap: expired records go, and while that makes no    *)
(* room, the record with the oldest window, locked or not.  Which one of    *)
(* equally old records goes is left open.                                   *)
WithRoom ==
    IF Cardinality(DOMAIN recs) < MaxKeys
    THEN recs
    ELSE LET kept == Restrict(recs, {k \in DOMAIN recs : ~Expired(k)})
         IN  IF Cardinality(DOMAIN kept) < MaxKeys
             THEN kept
             ELSE Restrict(kept, DOMAIN kept \ {Oldest(kept)})

Put(table, k, r) == [l \in DOMAIN table \cup {k} |-> IF l = k THEN r ELSE table[l]]

Mutant_LockForgotten(table, k, r) ==
    \/ /\ r.failures + 1 >= MaxFailures
       /\ recs' = Put(table, k, [failures |-> 0, start |-> now, until |-> r.until])
       /\ promised' = [promised EXCEPT ![k] = now + Lock]
    \/ /\ r.failures + 1 < MaxFailures
       /\ recs' = Put(table, k, [r EXCEPT !.failures = @ + 1])
       /\ UNCHANGED promised

(* One more failure in record r; the last one allowed locks the key and     *)
(* starts its count anew.                                                   *)
Count(table, k, r) ==
    \/ /\ r.failures + 1 >= MaxFailures
       /\ recs' = Put(table, k, [failures |-> 0, start |-> now, until |-> now + Lock])
       /\ promised' = [promised EXCEPT ![k] = now + Lock]
    \/ /\ r.failures + 1 < MaxFailures
       /\ recs' = Put(table, k, [r EXCEPT !.failures = @ + 1])
       /\ UNCHANGED promised

(* fail, locked or not. *)
Failed(k) ==
    /\ tried' = [tried EXCEPT ![k] = now]
    /\ \/ Locked(k) /\ UNCHANGED guesses
       \/ ~Locked(k) /\ Len(guesses[k]) < MaxLog /\ guesses' = [guesses EXCEPT ![k] = Append(@, now)]
    /\ \/ /\ InWindow(k)
          /\ Count(recs, k, recs[k])
          /\ UNCHANGED evicted
       \/ /\ ~InWindow(k)
          /\ Count(WithRoom, k, [failures |-> 0, start |-> now, until |-> 0])
          /\ evicted' = evicted \cup {l \in DOMAIN recs \ DOMAIN WithRoom : ~Expired(l)}
    /\ UNCHANGED now

Tick ==
    /\ now < MaxTime
    /\ now' = now + 1
    /\ UNCHANGED <<recs, promised, tried, evicted, guesses>>

-----------------------------------------------------------------------------
(* The header promises that a lock holds for its whole term.  What fail     *)
(* keeps of it, for a key whose record was not pushed out of a full table:  *)
(* the lock holds, unless the key failed again when the window that the     *)
(* lock began had passed.  A new record, without the lock, then takes its   *)
(* place: where the term is no longer than the window the lock is over by   *)
(* then.                                                                    *)
LocksHold ==
    \A k \in Key \ evicted :
        promised[k] > now => Locked(k) \/ tried[k] + Lock >= promised[k] + Window

Least == IF Lock < Window THEN Lock ELSE Window

(* However failures of a locked key come in between, 2 * MaxFailures of a   *)
(* key in a row that found it unlocked take a term or a window at least, if *)
(* its record was never pushed out.                                         *)
GuessesBounded ==
    \A k \in Key \ evicted : \A i \in DOMAIN guesses[k] :
        LET last == i + 2 * MaxFailures - 1
        IN  last \in DOMAIN guesses[k] => guesses[k][i] + Least <= guesses[k][last]

(* What a key may rely on while the table has room, whatever the term and   *)
(* the window: its locks hold until it fails after a window, and they bound *)
(* the guesses that find it unlocked.                                       *)
LocksAreSound == LocksHold /\ GuessesBounded
=============================================================================
