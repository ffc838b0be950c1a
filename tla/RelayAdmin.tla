----------------------------- MODULE RelayAdmin -----------------------------
(***************************************************************************)
(* The management side of the relay: the HTTP API of RelayServer           *)
(* (relay/src/server.mjs, handleApi), the admin page that calls it         *)
(* (relay/src/adminPage.mjs), the configuration file (relay/src/config.mjs)*)
(* and the command line that writes the same file (relay/cli.mjs).         *)
(*                                                                         *)
(* A handler runs in one step up to its first await (the body of the       *)
(* request, or the hash of a password) and in one step after it; other     *)
(* requests, the clock, a restart and the command line come between.       *)
(* Master codes and sub-codes are numbers; the channel of a master code is *)
(* named by the master.  An end of 0 is the null of the code: no end.  All *)
(* requests come from one address.                                         *)
(* What revocations do to sockets is in RelayServer; the limiter of        *)
(* addresses is the one of RateLimiter, whose clock this module shares.    *)
(***************************************************************************)
EXTENDS RateLimiter, FiniteSetsExt

CONSTANTS
    Worlds,                  \* what may happen, see MCRelayAdmin
    MaxMaster, MaxSub, MaxTok, Slots, MaxStops, \* bounds
    TokenTerm, SubTerm       \* adminTokenTtlMs and the term of a sub-code

Master == 1 .. MaxMaster
Code == 1 .. MaxSub
Token == 1 .. MaxTok
Password == {1, 2}
Command == {"add-master", "renew-master", "revoke-master", "set-admin", "bind-access"}

ASSUME AdminAssumption ==
    /\ {MaxMaster, MaxSub, MaxTok, MaxStops, TokenTerm, SubTerm} \subseteq Nat
    /\ SubTerm > 0 /\ MaxMaster > 0 /\ Key # {} /\ IsFiniteSet(Slots)
    /\ \A w \in Worlds :
          /\ w.days \subseteq Nat /\ w.passwords \subseteq Nat /\ w.admin \in Nat
          /\ w.tokens \in 0 .. MaxTok /\ w.commands \subseteq Command

VARIABLES
    world,
    file,      \* relay-config.json
    up,        \* does the relay run?
    masters,   \* this.masters
    access,    \* this.publicUrl with its certificate: 0 if not bound
    admin,     \* this.adminHash: the password, 0 if none is set
    sessions,  \* this.adminSessions: when each token ends
    logins,    \* number of tokens ever made: every token is a new one
    busy,      \* this.loginBusy
    sub,       \* sub-codes ever issued, by code
    listed,    \* codes in the tables of their channels
    byCode,    \* codes in the index that joins look in
    seq,       \* subSeq: ids start anew with the process
    reqs,      \* requests, in slots
    cli,       \* a command between reading and writing the file
    page,      \* the admin page: its token and what it shows
    paid,      \* history: until when each master code is paid for at least
    banned,    \* history: master codes revoked and not renewed since
    ended,     \* history: sub-codes revoked, purged or collected
    meddled,   \* history: a command wrote the file of a running relay
    stops, asked

adminVars == <<world, file, up, masters, access, admin, sessions, logins, busy,
    sub, listed, byCode, seq, reqs, cli, page, paid, banned, ended,
    meddled, stops, asked>>
limiterVars == vars
codeVars == <<sub, listed, byCode, seq, ended>>
masterVars == <<file, masters, access, paid, banned>>
lifeVars == <<world, up, admin, cli, meddled, stops, asked>>
loginVars == <<sessions, logins, busy>>

Home == CHOOSE k \in Key : TRUE     \* the address of the admin page

NoMaster == [st |-> "none", until |-> 0]
NoSub == [id |-> 0, chan |-> 1, until |-> 0, revoked |-> FALSE]
Nothing == [subs |-> {}, masters |-> [m \in Master |-> "none"]]

(* A request: its operation, its bearer (a token of the admin page or a     *)
(* master code), the master or channel and the sub-code it names, a number  *)
(* of days or a password; how far it is; and whether a page waits for it.   *)
Free == [op |-> "none", tok |-> 0, code |-> 0, key |-> 1, id |-> 0, arg |-> 0,
         stage |-> "free", status |-> 0, shown |-> Nothing, page |-> FALSE]
NoCommand == [cmd |-> "none", key |-> 0, copy |-> <<>>, quiet |-> FALSE]

AdminTypeOK ==
    /\ masters \in [Master -> [st : {"none", "active", "revoked"}, until : Nat]]
    /\ file \in [masters : [Master -> [st : {"none", "active", "revoked"}, until : Nat]],
                 access : 0 .. 2, admin : {0} \cup Password]
    /\ sessions \in [Token -> Nat] /\ busy \in 0 .. 2
    /\ sub \in [Code -> [id : Nat, chan : Master, until : Nat, revoked : BOOLEAN]]
    /\ listed \subseteq Code /\ byCode \subseteq Code /\ banned \subseteq Master
    /\ \A s \in Slots : reqs[s].stage \in {"free", "sent", "body", "hash", "done"}
    /\ page.tok \in {0} \cup Token /\ page.at \in {"away", "login", "main"}

NewTable == [m \in Master |-> IF m <= world.known THEN [st |-> "active", until |-> 0] ELSE NoMaster]

AdminInit ==
    /\ Init
    /\ world \in Worlds
    /\ file = [masters |-> NewTable, access |-> 0, admin |-> world.admin]
    /\ up = FALSE /\ masters = NewTable /\ access = 0 /\ admin = 0
    /\ sessions = [t \in Token |-> 0] /\ busy = 0 /\ logins = 0
    /\ sub = [c \in Code |-> NoSub] /\ listed = {} /\ byCode = {} /\ seq = 0
    /\ reqs = [s \in Slots |-> Free]
    /\ cli = NoCommand
    /\ page = [at |-> "away", tok |-> 0, shown |-> Nothing]
    /\ paid = [m \in Master |-> 0] /\ banned = {} /\ ended = {}
    /\ meddled = FALSE /\ stops = 0 /\ asked = 0

-----------------------------------------------------------------------------
(* The process. *)

Mutant_SessionsKept(s) == s

(* What a new process starts with in place of the sessions of the old one. *)
SessionsAtStart(s) == [t \in DOMAIN s |-> 0]

(* serve: everything but the file starts anew. *)
Start ==
    /\ ~up /\ world.kind # "doors"
    /\ up' = TRUE
    /\ masters' = file.masters /\ access' = file.access /\ admin' = file.admin
    /\ sessions' = SessionsAtStart(sessions) /\ busy' = 0
    /\ listed' = {} /\ byCode' = {} /\ seq' = 0
    /\ ended' = ended \cup {c \in Code : sub[c].id > 0}
    /\ cli' = [cli EXCEPT !.quiet = FALSE]
    /\ recs' = [k \in {} |-> 0] /\ evicted' = evicted \cup DOMAIN recs
    /\ UNCHANGED <<now, promised, tried, guesses, world, file, logins, sub, reqs, page,
           paid, banned, meddled, stops, asked>>

Unloaded(tok) == [at |-> "away", tok |-> tok, shown |-> Nothing]

(* The process ends, at any moment: requests under way get no answer, and   *)
(* a page that waited for its overview reloads into nothing.                *)
Stop ==
    /\ up /\ stops < MaxStops
    /\ up' = FALSE /\ stops' = stops + 1
    /\ reqs' = [s \in Slots |-> Free]
    /\ page' = IF \E s \in Slots : reqs[s].op = "overview" /\ reqs[s].page THEN Unloaded(page.tok) ELSE page
    /\ UNCHANGED <<limiterVars, masterVars, codeVars, loginVars, world, admin, cli, meddled, asked>>

Ended(m) == m.until # 0 /\ m.until <= now

\* verifyMaster, for a code that is in the table.
Live(m) == m.st = "active" /\ ~Ended(m)

(* The records of codes leave both tables. *)
Forget(codes) == listed' = listed \ codes /\ byCode' = byCode \ codes

(* sweep and its gcSubCodes, as far as the tables of codes go. *)
Collect ==
    LET dead == {c \in Code : sub[c].revoked \/ Ended(sub[c])}
    IN  /\ up /\ dead \cap (listed \cup byCode) # {}
        /\ Forget(dead)
        /\ ended' = ended \cup (dead \cap (listed \cup byCode))
        /\ UNCHANGED <<limiterVars, masterVars, lifeVars, loginVars, sub, seq, reqs, page>>

-----------------------------------------------------------------------------
(* Requests. *)

AdminOk(t) == t # 0 /\ sessions[t] # 0 /\ sessions[t] >= now

Send(s, r) == up /\ reqs[s] = Free /\ Quantify(Slots, LAMBDA x : reqs[x] # Free) < world.width /\ reqs' = [reqs EXCEPT ![s] = r]

Goes(s, stage) == reqs' = [reqs EXCEPT ![s].stage = stage]

Answered(s, status) == reqs' = [reqs EXCEPT ![s].stage = "done", ![s].status = status]

Arrived(s, ops) == up /\ reqs[s].stage = "sent" /\ reqs[s].op \in ops
BodyRead(s, op) == up /\ reqs[s].stage = "body" /\ reqs[s].op = op

LoginArrives(s) ==
    /\ Arrived(s, {"login"})
    /\ \/ Locked(Home) /\ Answered(s, 429)
       \/ ~Locked(Home) /\ admin = 0 /\ Answered(s, 404)
       \/ ~Locked(Home) /\ admin # 0 /\ Goes(s, "body")
    /\ UNCHANGED <<limiterVars, masterVars, codeVars, lifeVars, loginVars, page>>

(* verifyAdminPasswordAsync: at most two hashes are computed at a time, and *)
(* a third request is taken for one with a wrong password.                  *)
LoginHashes(s) ==
    /\ BodyRead(s, "login")
    /\ \/ busy < 2 /\ busy' = busy + 1 /\ Goes(s, "hash") /\ UNCHANGED limiterVars
       \/ busy >= 2 /\ Failed(Home) /\ Answered(s, 401) /\ UNCHANGED busy
    /\ UNCHANGED <<masterVars, codeVars, lifeVars, sessions, logins, page>>

LoginDone(s) ==
    /\ up /\ reqs[s].stage = "hash"
    /\ busy' = busy - 1
    /\ \/ /\ reqs[s].arg = admin /\ logins < world.tokens
          /\ logins' = logins + 1
          /\ sessions' = [sessions EXCEPT ![logins'] = now + TokenTerm]
          /\ reqs' = [reqs EXCEPT ![s].stage = "done", ![s].status = 200, ![s].tok = logins']
          /\ UNCHANGED limiterVars
       \/ /\ reqs[s].arg # admin
          /\ Failed(Home)
          /\ Answered(s, 401)
          /\ UNCHANGED <<sessions, logins>>
    /\ UNCHANGED <<masterVars, codeVars, lifeVars, page>>

(* adminOverview: what the page will show, as of now. *)
Overview ==
    [subs |-> {[code |-> c, id |-> sub[c].id, chan |-> sub[c].chan, revoked |-> sub[c].revoked] : c \in listed},
     masters |-> [m \in Master |-> masters[m].st]]

OverviewArrives(s) ==
    /\ Arrived(s, {"overview"})
    /\ \/ ~AdminOk(reqs[s].tok) /\ Answered(s, 401)
       \/ /\ AdminOk(reqs[s].tok)
          /\ reqs' = [reqs EXCEPT ![s].stage = "done", ![s].status = 200, ![s].shown = Overview]
    /\ UNCHANGED <<limiterVars, masterVars, codeVars, lifeVars, loginVars, page>>

-----------------------------------------------------------------------------
(* Master codes and the address of the relay. *)

(* The first half of the operations of an admin that read a body. *)
AdminArrives(s) ==
    /\ Arrived(s, {"issue", "renew", "access", "token"})
    /\ IF AdminOk(reqs[s].tok) THEN Goes(s, "body") ELSE Answered(s, 401)
    /\ UNCHANGED <<limiterVars, masterVars, codeVars, lifeVars, loginVars, page>>

Mutant_NotPersisted(table) == masters' = table /\ UNCHANGED file

(* A change of the table, with persistMasters. *)
ChangeMasters(table) ==
    /\ masters' = table
    /\ file' = [file EXCEPT !.masters = table]

Mutant_FromNow(until, days) == now + days

(* The end of a master code that is renewed: it is lengthened. *)
Extended(until, days) == (IF until > now THEN until ELSE now) + days

IssueMaster(s) ==
    /\ BodyRead(s, "issue")
    /\ \E m \in Master :
        /\ masters[m].st = "none" /\ \A l \in 1 .. m - 1 : masters[l].st # "none"
        /\ ChangeMasters([masters EXCEPT ![m] = [st |-> "active", until |-> now + reqs[s].arg]])
        /\ paid' = [paid EXCEPT ![m] = now + reqs[s].arg]
    /\ Answered(s, 201)
    /\ UNCHANGED <<limiterVars, codeVars, lifeVars, loginVars, access, banned, page>>

(* Renewing a revoked code revives it.  Masters never leave the table, so   *)
(* the 404 of an unknown id does not come up for a page.                    *)
RenewMaster(s) ==
    LET m == reqs[s].key days == reqs[s].arg
    IN  /\ BodyRead(s, "renew")
        /\ masters[m].st # "none"
        /\ ChangeMasters([masters EXCEPT ![m] = [st |-> "active", until |-> Extended(@.until, days)]])
        /\ paid' = [paid EXCEPT ![m] = @ + days]
        /\ banned' = banned \ {m}
        /\ Answered(s, 200)
        /\ UNCHANGED <<limiterVars, codeVars, lifeVars, loginVars, access, page>>

(* DELETE reads no body: check and effect are one step. *)
RevokeMaster(s) ==
    LET m == reqs[s].key
    IN  /\ Arrived(s, {"revoke"})
        /\ \/ ~AdminOk(reqs[s].tok) /\ Answered(s, 401) /\ UNCHANGED masterVars
           \/ /\ AdminOk(reqs[s].tok)
              /\ masters[m].st # "none"
              /\ ChangeMasters([masters EXCEPT ![m].st = "revoked"])
              /\ banned' = banned \cup {m}
              /\ Answered(s, 200)
              /\ UNCHANGED <<access, paid>>
        /\ UNCHANGED <<limiterVars, codeVars, lifeVars, loginVars, page>>

(* persistAccess: the masters of the file stay. *)
SetAccess(s) ==
    /\ BodyRead(s, "access")
    /\ access' = reqs[s].arg
    /\ file' = [file EXCEPT !.access = access']
    /\ Answered(s, 200)
    /\ UNCHANGED <<limiterVars, codeVars, lifeVars, loginVars, masters, paid, banned, page>>

(* An access token is made of a code that is live, for a bound address. *)
MakeToken(s) ==
    /\ BodyRead(s, "token")
    /\ \/ access = 0 /\ Answered(s, 400)
       \/ access # 0 /\ ~Live(masters[reqs[s].key]) /\ Answered(s, 404)
       \/ access # 0 /\ Live(masters[reqs[s].key]) /\ Answered(s, 200)
    /\ UNCHANGED <<limiterVars, masterVars, codeVars, lifeVars, loginVars, page>>

-----------------------------------------------------------------------------
(* Sub-codes.  The plugin of a desktop asks with its master code, the page  *)
(* with its token and the channel it means.                                 *)

Recognised(r) == (r.code # 0 /\ Live(masters[r.code])) \/ AdminOk(r.tok)

(* authed, or the channel an admin names. *)
Channel(r) == IF r.code # 0 THEN r.code ELSE r.key

Refused(s) ==
    /\ ~Recognised(reqs[s])
    /\ Failed(Home)
    /\ Answered(s, 401)

ListedAs(id) == {c \in listed : sub[c].id = id}
ListedIn(chan, id) == {c \in ListedAs(id) : sub[c].chan = chan}

(* The limiter is asked first; a renewal looks its code up and checks its   *)
(* caller before it reads the body, an issue checks its caller after.       *)
SubArrives(s) ==
    /\ Arrived(s, {"subIssue", "subRenew"})
    /\ \/ Locked(Home) /\ Answered(s, 429) /\ UNCHANGED limiterVars
       \/ ~Locked(Home) /\ reqs[s].op = "subIssue" /\ Goes(s, "body") /\ UNCHANGED limiterVars
       \/ /\ ~Locked(Home) /\ reqs[s].op = "subRenew"
          /\ \/ ListedAs(reqs[s].id) = {} /\ Answered(s, 404) /\ UNCHANGED limiterVars
             \/ ListedAs(reqs[s].id) # {} /\ Refused(s)
             \/ /\ ListedAs(reqs[s].id) # {} /\ Recognised(reqs[s]) /\ UNCHANGED limiterVars
                /\ IF AdminOk(reqs[s].tok) \/ ListedIn(reqs[s].code, reqs[s].id) # {}
                   THEN Goes(s, "body") ELSE Answered(s, 401)
    /\ UNCHANGED <<masterVars, codeVars, lifeVars, loginVars, page>>

IssueSub(s) ==
    /\ BodyRead(s, "subIssue")
    /\ \/ Refused(s) /\ UNCHANGED codeVars
       \/ /\ Recognised(reqs[s])
          /\ \E c \in Code :
              /\ sub[c].id = 0 /\ \A d \in 1 .. c - 1 : sub[d].id # 0
              /\ seq' = seq + 1
              /\ sub' = [sub EXCEPT ![c] = [id |-> seq', chan |-> Channel(reqs[s]),
                                            until |-> now + SubTerm, revoked |-> FALSE]]
              /\ listed' = listed \cup {c} /\ byCode' = byCode \cup {c}
          /\ Answered(s, 201)
          /\ UNCHANGED <<limiterVars, ended>>
    /\ UNCHANGED <<masterVars, lifeVars, loginVars, page>>

(* What renewSubCode finds, when the body has come: not a revoked code. *)
Renewable(id) == {c \in ListedAs(id) : ~sub[c].revoked}

\* arg 0 asks for a code without an end.
RenewSub(s) ==
    /\ BodyRead(s, "subRenew")
    /\ \/ Renewable(reqs[s].id) = {} /\ Answered(s, 409) /\ UNCHANGED sub
       \/ \E c \in Renewable(reqs[s].id) :
          /\ sub' = [sub EXCEPT ![c].until = IF reqs[s].arg = 0 THEN 0 ELSE Extended(@, reqs[s].arg)]
          /\ Answered(s, 200)
    /\ UNCHANGED <<limiterVars, masterVars, lifeVars, loginVars, listed, byCode, seq, ended, page>>

RevokeSub(s) ==
    LET found == ListedIn(Channel(reqs[s]), reqs[s].id)
    IN  /\ Arrived(s, {"subRevoke"})
        /\ \/ Refused(s) /\ UNCHANGED codeVars
           \/ Recognised(reqs[s]) /\ found = {} /\ Answered(s, 404) /\ UNCHANGED <<limiterVars, codeVars>>
           \/ /\ Recognised(reqs[s])
              /\ \E c \in found : sub' = [sub EXCEPT ![c].revoked = TRUE]
              /\ ended' = ended \cup found
              /\ Answered(s, 200)
              /\ UNCHANGED <<limiterVars, listed, byCode, seq>>
        /\ UNCHANGED <<masterVars, lifeVars, loginVars, page>>

PurgeSub(s) ==
    LET found == ListedIn(Channel(reqs[s]), reqs[s].id)
    IN  /\ Arrived(s, {"subPurge"})
        /\ \/ Refused(s) /\ UNCHANGED codeVars
           \/ Recognised(reqs[s]) /\ found = {} /\ Answered(s, 404) /\ UNCHANGED <<limiterVars, codeVars>>
           \/ /\ Recognised(reqs[s]) /\ found # {}
              /\ Forget(found)
              /\ ended' = ended \cup found
              /\ Answered(s, 200)
              /\ UNCHANGED <<limiterVars, sub, seq>>
        /\ UNCHANGED <<masterVars, lifeVars, loginVars, page>>

-----------------------------------------------------------------------------
(* The admin page.  A reload drops what it waits for; the relay may still   *)
(* serve it.                                                                *)

FromPage(op) == [Free EXCEPT !.op = op, !.tok = page.tok, !.stage = "sent", !.page = TRUE]

Abandon(rs) == [s \in Slots |-> IF rs[s].stage = "done" THEN Free ELSE [rs[s] EXCEPT !.page = FALSE]]

\* One of the asks that are counted: the overview is not.
Asks(s, r) == asked < world.asks /\ asked' = asked + 1 /\ Send(s, r)

(* The page is opened, or opened again: with a token it asks for all.       *)
OpenPage(s) ==
    /\ world.page /\ page.at = "away" /\ up
    /\ \/ page.tok = 0 /\ page' = [page EXCEPT !.at = "login"] /\ UNCHANGED reqs
       \/ page.tok # 0 /\ page' = [page EXCEPT !.at = "main"] /\ Send(s, FromPage("overview"))
    /\ UNCHANGED <<limiterVars, masterVars, codeVars, lifeVars, loginVars>>

Login(s) ==
    /\ page.at = "login"
    /\ \E pw \in world.passwords : Asks(s, [FromPage("login") EXCEPT !.arg = pw])
    /\ UNCHANGED <<limiterVars, masterVars, codeVars, loginVars, page, world, up, admin, cli, meddled, stops>>

(* Leaving, reloading (the token stays in the tab) or logging out.          *)
LeavePage ==
    /\ page.at = "main" /\ world.leaves
    /\ \/ page' = Unloaded(page.tok)
       \/ page' = Unloaded(0)
    /\ reqs' = Abandon(reqs)
    /\ UNCHANGED <<limiterVars, masterVars, codeVars, lifeVars, loginVars>>

(* The buttons: what the page shows decides which there are. *)
Button(op, key, id, arg) == [FromPage(op) EXCEPT !.key = key, !.id = id, !.arg = arg]

Known == {m \in Master : page.shown.masters[m] # "none"}
RevokeButtons == {Button("revoke", m, 0, 0) : m \in {k \in Known : page.shown.masters[k] # "revoked"}}

MasterButtons ==
    {Button("issue", 1, 0, d) : d \in world.days}
    \cup {Button("renew", m, 0, d) : m \in Known, d \in world.days}
    \cup RevokeButtons

AccessButtons ==
    {Button("access", 1, 0, u) : u \in 0 .. 2}
    \cup {Button("token", m, 0, 0) : m \in Known}
    \cup RevokeButtons

SubButtons ==
    LET open == {x \in page.shown.subs : ~x.revoked}
    IN  {Button("subIssue", m, 0, 0) : m \in Known}
        \cup {Button("subRenew", 1, x.id, d) : x \in open, d \in 0 .. 1}
        \cup {Button("subRevoke", x.chan, x.id, 0) : x \in open}
        \cup {Button("subPurge", x.chan, x.id, 0) : x \in page.shown.subs \ open}

Buttons ==
    CASE world.kind = "masters" -> MasterButtons
      [] world.kind = "access" -> AccessButtons
      [] world.kind = "subs" -> SubButtons
      [] OTHER -> {}

Click(s) ==
    /\ page.at = "main"
    /\ \E r \in Buttons : Asks(s, r)
    /\ UNCHANGED <<limiterVars, masterVars, codeVars, loginVars, page, world, up, admin, cli, meddled, stops>>

(* The plugin of a desktop, on behalf of its user: it may name ids of a     *)
(* list it read before the relay restarted.                                 *)
PluginAsks(s) ==
    /\ world.plugin
    /\ \E m \in Master, op \in {"subIssue", "subRenew", "subRevoke", "subPurge"}, i \in 1 .. MaxSub :
        /\ op = "subIssue" => i = 1
        /\ Asks(s, [Free EXCEPT !.op = op, !.code = m, !.id = i, !.arg = 1, !.stage = "sent"])
    /\ UNCHANGED <<limiterVars, masterVars, codeVars, loginVars, page, world, up, admin, cli, meddled, stops>>

(* The answer comes.  401 takes the page's token away; an operation that    *)
(* succeeded has the page ask for everything again.                         *)
Answer(s) ==
    LET r == reqs[s]
        again == [Free EXCEPT !.op = "overview", !.tok = page'.tok, !.stage = "sent", !.page = TRUE]
    IN  /\ r.stage = "done"
        /\ \/ /\ ~r.page
              /\ page' = page /\ reqs' = [reqs EXCEPT ![s] = Free]
           \/ /\ r.page /\ r.op = "login" /\ r.status = 200
              /\ page' = [page EXCEPT !.tok = r.tok, !.at = "main"]
              /\ reqs' = [reqs EXCEPT ![s] = again]
           \/ /\ r.page /\ r.op = "overview" /\ r.status = 200
              /\ page' = [page EXCEPT !.shown = r.shown]
              /\ reqs' = [reqs EXCEPT ![s] = Free]
           \/ /\ r.page /\ r.op = "overview" /\ r.status = 401
              /\ page' = Unloaded(0)
              /\ reqs' = Abandon(reqs)
           \/ /\ r.page /\ r.op \notin {"login", "overview"} /\ r.status = 401
              /\ page' = [page EXCEPT !.tok = 0]
              /\ reqs' = [reqs EXCEPT ![s] = Free]
           \/ /\ r.page /\ r.op # "overview" /\ r.op # "login" /\ r.status \in {200, 201}
              /\ page' = page
              /\ reqs' = [reqs EXCEPT ![s] = again]
           \/ /\ r.page /\ r.op # "overview" /\ r.status >= 400 /\ (r.op = "login" \/ r.status # 401)
              /\ page' = page
              /\ reqs' = [reqs EXCEPT ![s] = Free]
        /\ UNCHANGED <<limiterVars, masterVars, codeVars, lifeVars, loginVars>>

-----------------------------------------------------------------------------
(* The command line: a process that reads the file and writes it back.      *)

CliLoads ==
    /\ cli = NoCommand /\ asked < world.asks /\ asked' = asked + 1
    /\ \E c \in world.commands, m \in Master :
        /\ c \in {"bind-access", "set-admin"} => m = 1
        /\ c \in {"renew-master", "revoke-master"} => file.masters[m].st # "none"
        /\ c = "add-master" => file.masters[m].st = "none" /\ \A l \in 1 .. m - 1 : file.masters[l].st # "none"
        /\ cli' = [cmd |-> c, key |-> m, copy |-> <<file>>, quiet |-> ~up]
    /\ UNCHANGED <<limiterVars, masterVars, codeVars, loginVars, world, up, admin, meddled, stops, reqs, page>>

CliSaves ==
    LET m == cli.key
        old == cli.copy[1]
        now0 == old.masters[m]
    IN  /\ cli # NoCommand
        /\ \/ /\ cli.cmd = "add-master"
              /\ file' = [old EXCEPT !.masters[m] = [st |-> "active", until |-> 0]]
              /\ UNCHANGED <<paid, banned>>
           \/ /\ cli.cmd = "renew-master"
              /\ file' = [old EXCEPT !.masters[m] = [st |-> "active", until |-> Extended(now0.until, 1)]]
              /\ paid' = [paid EXCEPT ![m] = @ + 1] /\ banned' = banned \ {m}
           \/ /\ cli.cmd = "revoke-master"
              /\ file' = [old EXCEPT !.masters[m].st = "revoked"]
              /\ banned' = banned \cup {m} /\ UNCHANGED paid
           \/ /\ cli.cmd = "set-admin"
              /\ file' = [old EXCEPT !.admin = 2]
              /\ UNCHANGED <<paid, banned>>
           \/ /\ cli.cmd = "bind-access"
              /\ file' = [old EXCEPT !.access = 2]
              /\ UNCHANGED <<paid, banned>>
        /\ meddled' = (meddled \/ ~cli.quiet)
        /\ cli' = NoCommand
        /\ UNCHANGED <<limiterVars, codeVars, loginVars, world, up, masters, access, admin, stops, asked, reqs, page>>

-----------------------------------------------------------------------------
Clock ==
    \/ Tick /\ now < world.span /\ UNCHANGED adminVars
    \/ /\ world.kind = "doors" /\ asked < world.asks /\ asked' = asked + 1
       /\ \E k \in Key : Failed(k)
       /\ UNCHANGED <<masterVars, codeVars, loginVars, page, reqs, world, up, admin, cli, meddled, stops>>

Served(s) ==
    \/ LoginArrives(s) \/ LoginHashes(s) \/ LoginDone(s) \/ OverviewArrives(s)
    \/ AdminArrives(s) \/ IssueMaster(s) \/ RenewMaster(s) \/ RevokeMaster(s)
    \/ SetAccess(s) \/ MakeToken(s)
    \/ SubArrives(s) \/ IssueSub(s) \/ RenewSub(s) \/ RevokeSub(s) \/ PurgeSub(s)

AdminNext ==
    \/ Clock \/ Start \/ Stop \/ Collect \/ LeavePage \/ CliLoads \/ CliSaves
    \/ \E s \in Slots :
        \/ Served(s) \/ OpenPage(s) \/ Login(s) \/ Click(s) \/ PluginAsks(s) \/ Answer(s)

AdminSpec == AdminInit /\ [][AdminNext]_<<limiterVars, adminVars>>

-----------------------------------------------------------------------------
(* Unless a command wrote the file of a running relay, a master code that   *)
(* was revoked is refused until it is renewed, restarts included            *)
(* (RevokeMaster, persistMasters).                                          *)
RevokedMastersStay ==
    up /\ ~meddled => \A m \in banned : ~Live(masters[m])

(* Whatever renewals, revocations and restarts come together, a master code *)
(* runs for the sum of the days it was given since its issue (the max of    *)
(* renew, persistMasters).                                                  *)
PaidTimeKept ==
    up /\ ~meddled => \A m \in Master : masters[m].until = 0 \/ masters[m].until >= paid[m]

\* findSubCode and the checks of a join.
Joinable(c) == c \in byCode /\ ~sub[c].revoked /\ ~Ended(sub[c])

(* A sub-code that was revoked, purged, collected or lost in a restart      *)
(* never lets anyone join again, whatever renewals were under way.          *)
EndedCodesStay == \A c \in ended : ~Joinable(c)

(* What the operator ended lets nobody in, at any of the relay's doors.     *)
EndedStaysEnded == RevokedMastersStay /\ EndedCodesStay

(* Ids start anew with the process, so an id may come to name another code: *)
(* while the relay would accept what the page asks for, the ids it shows,   *)
(* if they name anything, name the codes that it shows.                     *)
ShownIdsNameTheirCodes ==
    up /\ AdminOk(page.tok) =>
        \A x \in page.shown.subs : ListedIn(x.chan, x.id) \subseteq {x.code}
=============================================================================
