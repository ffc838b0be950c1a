-------------------------- MODULE RelayAdminProofs --------------------------
(***************************************************************************)
(* Proofs about the administration of the relay (module RelayAdmin) and    *)
(* the limiter at its doors, for every number of master codes, sub-codes,  *)
(* tokens, requests under way, restarts and commands, and every length of  *)
(* terms.                                                                  *)
(***************************************************************************)
EXTENDS RelayAdmin, TLAPS

Entry == [st : {"none", "active", "revoked"}, until : Nat]
Table == [Master -> Entry]
File == [masters : Table, access : Nat, admin : Nat]
Sub == [id : Nat, chan : Master, until : Nat, revoked : BOOLEAN]
Seen == [subs : SUBSET [code : Code, id : Nat, chan : Master, revoked : BOOLEAN],
         masters : [Master -> {"none", "active", "revoked"}]]
Op == {"none", "login", "overview", "issue", "renew", "revoke", "access", "token",
       "subIssue", "subRenew", "subRevoke", "subPurge"}
Stage == {"free", "sent", "body", "hash", "done"}
Request == [op : Op, tok : Nat, code : {0} \cup Master, key : Master, id : Nat, arg : Nat,
            stage : Stage, status : Nat, shown : Seen, page : BOOLEAN]

CommandType == [cmd : Command \cup {"none"}, key : Nat, copy : Seq(File), quiet : BOOLEAN]

(* What the proofs need of the types, by what belongs together: master codes *)
(* and the file, sub-codes, requests and the page.                          *)
TableType ==
    /\ world \in Worlds /\ now \in Nat
    /\ file \in File /\ masters \in Table /\ access \in Nat /\ admin \in Nat
    /\ paid \in [Master -> Nat] /\ banned \subseteq Master
    /\ cli \in CommandType
    /\ cli # NoCommand => cli.key \in Master /\ cli.copy[1] \in File
    /\ up \in BOOLEAN /\ meddled \in BOOLEAN

CodeType ==
    /\ sub \in [Code -> Sub] /\ listed \subseteq Code /\ byCode = listed
    /\ seq \in Nat /\ ended \subseteq Code

PageType ==
    /\ sessions \in [Token -> Nat] /\ logins \in 0 .. MaxTok
    /\ reqs \in [Slots -> Request]
    /\ page \in [at : {"away", "login", "main"}, tok : Nat, shown : Seen]

AdminType == TableType /\ CodeType /\ PageType

LEMMA OneIsAMaster == 1 \in Master
BY AdminAssumption DEF Master

LEMMA NothingIsSeen == Nothing \in Seen
BY DEF Nothing, Seen

LEMMA FreeIsARequest == Free \in Request
BY OneIsAMaster, NothingIsSeen DEF Free, Request, Op, Stage

-----------------------------------------------------------------------------
(* Which steps change what *)

AdminStep == [AdminNext]_<<limiterVars, adminVars>>
tableVars == <<world, file, masters, access, admin, paid, banned, cli, up, meddled>>

(* The steps of requests that read and answer. *)
LEMMA QuietRequests ==
    ASSUME NEW s \in Slots,
           \/ LoginArrives(s) \/ LoginHashes(s) \/ LoginDone(s) \/ OverviewArrives(s)
           \/ AdminArrives(s) \/ MakeToken(s) \/ SubArrives(s)
    PROVE  UNCHANGED <<tableVars, codeVars, page>>
BY DEF LoginArrives, LoginHashes, LoginDone, OverviewArrives, AdminArrives, MakeToken, SubArrives,
       masterVars, lifeVars, tableVars

LEMMA SubRequests ==
    ASSUME NEW s \in Slots, IssueSub(s) \/ RenewSub(s) \/ RevokeSub(s) \/ PurgeSub(s)
    PROVE  UNCHANGED <<tableVars, loginVars, page>>
BY DEF IssueSub, RenewSub, RevokeSub, PurgeSub, masterVars, lifeVars, tableVars

LEMMA MasterRequests ==
    ASSUME NEW s \in Slots, IssueMaster(s) \/ RenewMaster(s) \/ RevokeMaster(s) \/ SetAccess(s)
    PROVE  UNCHANGED <<world, admin, cli, up, meddled, now, codeVars, loginVars, page>>
BY DEF IssueMaster, RenewMaster, RevokeMaster, SetAccess, lifeVars, limiterVars, vars

LEMMA PageSteps ==
    ASSUME NEW s \in Slots, OpenPage(s) \/ Login(s) \/ Click(s) \/ PluginAsks(s) \/ Answer(s)
    PROVE  UNCHANGED <<tableVars, codeVars, loginVars, now>>
BY DEF OpenPage, Login, Click, PluginAsks, Answer, masterVars, lifeVars, tableVars, limiterVars, vars

LEMMA OtherSteps ==
    /\ Clock => UNCHANGED <<tableVars, codeVars, loginVars, reqs, page>>
    /\ Stop => UNCHANGED <<masterVars, codeVars, loginVars, world, admin, cli, meddled, now>>
    /\ Collect => UNCHANGED <<tableVars, loginVars, reqs, page, now>>
    /\ LeavePage => UNCHANGED <<tableVars, codeVars, loginVars, now>>
    /\ CliLoads \/ CliSaves => UNCHANGED <<codeVars, loginVars, world, up, admin, masters, reqs, page, now>>
BY DEF Clock, Tick, Stop, Collect, LeavePage, CliLoads, CliSaves, masterVars, codeVars, loginVars,
       lifeVars, tableVars, limiterVars, vars, adminVars

LEMMA TimeGoesOn == now \in Nat /\ AdminStep => now' \in Nat /\ now' >= now
<1> SUFFICES ASSUME now \in Nat, AdminStep PROVE now' = now \/ now' = now + 1
  OBVIOUS
<1>1. CASE Clock \/ Start
  BY <1>1 DEF Clock, Tick, Failed, Start
<1>2. CASE Stop \/ Collect \/ LeavePage \/ CliLoads \/ CliSaves
  BY <1>2, OtherSteps
<1>3. ASSUME NEW s \in Slots, Served(s) PROVE now' = now
  BY <1>3 DEF Served, LoginArrives, LoginHashes, LoginDone, OverviewArrives, AdminArrives, IssueMaster,
       RenewMaster, RevokeMaster, SetAccess, MakeToken, SubArrives, IssueSub, RenewSub, RevokeSub,
       PurgeSub, Refused, Failed, limiterVars, vars
<1>4. CASE UNCHANGED <<limiterVars, adminVars>>
  BY <1>4 DEF limiterVars, vars
<1> QED
  BY <1>1, <1>2, <1>3, <1>4, PageSteps DEF AdminStep, AdminNext

-----------------------------------------------------------------------------
(* Requests and the page keep their types *)

LEMMA AnswersAreTyped ==
    ASSUME reqs \in [Slots -> Request], NEW s \in Slots,
           NEW stage \in Stage, NEW status \in Nat,
           \/ Goes(s, stage)
           \/ Answered(s, status)
    PROVE  /\ reqs' \in [Slots -> Request]
           /\ \A x \in Slots \ {s} : reqs'[x] = reqs[x]
           /\ /\ reqs'[s].op = reqs[s].op /\ reqs'[s].tok = reqs[s].tok
              /\ reqs'[s].page = reqs[s].page /\ reqs'[s].shown = reqs[s].shown
<1>1. PICK st \in Stage, n \in Nat : reqs' = [reqs EXCEPT ![s] = [reqs[s] EXCEPT !.stage = st, !.status = n]]
  <2>1. CASE Goes(s, stage)
    <3>1. reqs[s] = [reqs[s] EXCEPT !.status = reqs[s].status] /\ reqs[s].status \in Nat
      BY DEF Request
    <3>2. [reqs[s] EXCEPT !.stage = stage] = [reqs[s] EXCEPT !.stage = stage, !.status = reqs[s].status]
      BY DEF Request
    <3> QED
      BY <2>1, <3>1, <3>2 DEF Goes
  <2>2. CASE Answered(s, status)
    <3>1. "done" \in Stage
      BY DEF Stage
    <3> QED
      BY <2>2, <3>1 DEF Answered
  <2> QED
    BY <2>1, <2>2
<1>2. [reqs[s] EXCEPT !.stage = st, !.status = n] \in Request
  BY DEF Request
<1> QED
  BY <1>1, <1>2 DEF Request

LEMMA PageAsks ==
    ASSUME PageType, NEW op \in Op
    PROVE  /\ FromPage(op) \in Request /\ FromPage(op).tok = page.tok /\ FromPage(op).page
           /\ FromPage(op).op = op /\ FromPage(op).stage = "sent"
BY FreeIsARequest DEF FromPage, PageType, Request, Stage, Free

-----------------------------------------------------------------------------
(* Master codes *)

(* What was paid for and what was revoked is in table t. *)
Kept(t, p, b) ==
    /\ \A m \in b : t[m].st = "revoked"
    /\ \A m \in Master : t[m].until >= p[m] /\ (t[m].st = "none" => p[m] = 0)

(* What a restart rests on: unless a command wrote the file of a running    *)
(* relay, the file has what the relay has, codes revoked and days paid for  *)
(* are in it, and a command that began with no relay running still has the  *)
(* file as it is.                                                           *)
TableInv ==
    /\ cli # NoCommand /\ cli.quiet => ~up /\ cli.copy[1] = file
    /\ cli # NoCommand /\ cli.cmd = "add-master" => cli.copy[1].masters[cli.key].st = "none"
    /\ ~meddled => (up => masters = file.masters) /\ Kept(file.masters, paid, banned)

(* A renewal starts from the end of what was paid, or from now.             *)
LEMMA ExtendedAddsDays ==
    ASSUME now \in Nat, NEW until \in Nat, NEW days \in Nat
    PROVE  Extended(until, days) \in Nat /\ Extended(until, days) >= until + days
BY DEF Extended

(* One entry is written: it must have what was paid, and be revoked if it   *)
(* is to be among the revoked.                                              *)
LEMMA EntryWritten ==
    ASSUME NEW t \in Table, NEW p \in [Master -> Nat], NEW b \in SUBSET Master,
           NEW m \in Master, NEW e \in Entry, NEW n \in Nat, NEW c \in SUBSET Master,
           c \subseteq b \cup {m}
    PROVE  LET tt == [t EXCEPT ![m] = e]
               pp == [p EXCEPT ![m] = n]
           IN  /\ tt \in Table /\ pp \in [Master -> Nat]
               /\ Kept(t, p, b) /\ e.st # "none" /\ e.until >= n /\ (m \in c => e.st = "revoked")
                      => Kept(tt, pp, c)
BY DEF Table, Kept

LEMMA FileWritten ==
    ASSUME NEW f \in File, NEW t \in Table
    PROVE  [f EXCEPT !.masters = t] \in File /\ [f EXCEPT !.masters = t].masters = t
BY DEF File

LEMMA EntryInFile ==
    ASSUME NEW f \in File, NEW m \in Master, NEW e \in Entry
    PROVE  [f EXCEPT !.masters[m] = e] = [f EXCEPT !.masters = [f.masters EXCEPT ![m] = e]]
OBVIOUS

LEMMA RevokedEntry ==
    ASSUME NEW e \in Entry
    PROVE  /\ [e EXCEPT !.st = "revoked"] \in Entry
           /\ [e EXCEPT !.st = "revoked"].st = "revoked" /\ [e EXCEPT !.st = "revoked"].until = e.until
BY DEF Entry

(* The relay changes its table and saves it.                                *)
LEMMA ChangeKept ==
    ASSUME AdminType, TableInv, up, NEW m \in Master, NEW e \in Entry, NEW n \in Nat,
           ChangeMasters([masters EXCEPT ![m] = e]),
           paid' = [paid EXCEPT ![m] = n],
           banned' \subseteq banned \cup {m}, e.st # "none",
           ~meddled => e.until >= n /\ (m \in banned' => e.st = "revoked"),
           UNCHANGED <<world, access, admin, cli, up, meddled>>, now' \in Nat
    PROVE  TableType' /\ TableInv'
<1> DEFINE t == [masters EXCEPT ![m] = e]
<1>1. banned' \in SUBSET Master
  BY DEF AdminType, TableType
<1>2. t \in Table /\ paid' \in [Master -> Nat]
  BY <1>1, EntryWritten DEF AdminType, TableType
<1>3. masters' = t /\ file' = [file EXCEPT !.masters = t]
  BY DEF ChangeMasters
<1>4. file' \in File /\ file'.masters = t
  BY <1>2, <1>3, FileWritten DEF AdminType, TableType
<1>5. ASSUME ~meddled PROVE Kept(t, paid', banned')
  <2>1. Kept(masters, paid, banned)
    BY <1>5 DEF TableInv
  <2> QED
    BY <1>1, <1>5, <2>1, EntryWritten DEF AdminType, TableType
<1> HIDE DEF t
<1>6. TableType'
  BY <1>1, <1>2, <1>3, <1>4 DEF AdminType, TableType
<1>7. TableInv'
  BY <1>3, <1>4, <1>5 DEF TableInv
<1> QED
  BY <1>6, <1>7

LEMMA NoCommandIsTyped == NoCommand \in CommandType
BY DEF NoCommand, CommandType

(* What every command that saves does besides.                              *)
Ends == UNCHANGED <<world, up, masters, access, admin>> /\ cli' = NoCommand
        /\ meddled' = (meddled \/ ~cli.quiet) /\ now' \in Nat

(* A command whose copy of the file is old, or that saves next to a running *)
(* relay, counts as meddling; any other has the file as it is.              *)
LEMMA CommandEnds ==
    ASSUME AdminType, TableInv, cli # NoCommand, Ends
    PROVE  /\ meddled' \in BOOLEAN
           /\ ~meddled' => /\ ~meddled /\ ~up /\ cli.copy[1] = file
                          /\ Kept(cli.copy[1].masters, paid, banned)
BY DEF AdminType, TableType, TableInv, Ends

LEMMA SavedKept ==
    ASSUME AdminType, TableInv, cli # NoCommand, Ends,
           file' \in File, paid' \in [Master -> Nat], banned' \subseteq Master,
           ~meddled' => Kept(file'.masters, paid', banned')
    PROVE  TableType' /\ TableInv'
<1>1. ~meddled' => ~up
  BY CommandEnds
<1>2. cli' = NoCommand /\ cli' \in CommandType /\ UNCHANGED <<world, up, masters, access, admin>>
      /\ now' \in Nat /\ meddled' \in BOOLEAN
  BY NoCommandIsTyped, CommandEnds DEF Ends
<1>3. TableType'
  <2>1. world \in Worlds /\ masters \in Table /\ access \in Nat /\ admin \in Nat /\ up \in BOOLEAN
    BY DEF AdminType, TableType
  <2>2. world' \in Worlds /\ masters' \in Table /\ access' \in Nat /\ admin' \in Nat /\ up' \in BOOLEAN
    BY <1>2, <2>1
  <2> QED
    BY <1>2, <2>2 DEF TableType
<1>4. TableInv'
  BY <1>1, <1>2 DEF TableInv
<1> QED
  BY <1>3, <1>4

(* A command writes one entry of its copy.                                  *)
LEMMA CommandKept ==
    ASSUME AdminType, TableInv, cli # NoCommand, Ends,
           NEW m \in Master, NEW old \in File, old = cli.copy[1], NEW e \in Entry, NEW n \in Nat,
           file' = [old EXCEPT !.masters = [old.masters EXCEPT ![m] = e]],
           paid' = [paid EXCEPT ![m] = n],
           banned' \subseteq banned \cup {m}, e.st # "none",
           ~meddled' => e.until >= n /\ (m \in banned' => e.st = "revoked")
    PROVE  TableType' /\ TableInv'
<1> DEFINE t == [old.masters EXCEPT ![m] = e]
<1>1. banned' \in SUBSET Master /\ old.masters \in Table
  BY DEF AdminType, TableType, File
<1>2. t \in Table /\ paid' \in [Master -> Nat]
  BY <1>1, EntryWritten DEF AdminType, TableType
<1>3. file' \in File /\ file'.masters = t
  BY <1>2, FileWritten
<1>4. ASSUME ~meddled' PROVE Kept(t, paid', banned')
  <2>1. Kept(old.masters, paid, banned)
    BY <1>4, CommandEnds
  <2> QED
    BY <1>1, <1>4, <2>1, EntryWritten DEF AdminType, TableType
<1> HIDE DEF t
<1> QED
  BY <1>1, <1>2, <1>3, <1>4, SavedKept

LEMMA CommandsKeep ==
    ASSUME AdminType, TableInv, CliSaves, now' \in Nat
    PROVE  TableType' /\ TableInv'
<1> DEFINE m == cli.key
           old == cli.copy[1]
<1>1. cli # NoCommand /\ Ends
  BY OtherSteps DEF CliSaves, Ends
<1>2. m \in Master /\ old \in File /\ old.masters \in Table
  BY <1>1 DEF AdminType, TableType, File
<1>3. old.masters[m] \in Entry /\ old.masters[m].until \in Nat /\ paid[m] \in Nat /\ now \in Nat
      /\ paid = [paid EXCEPT ![m] = paid[m]]
  BY <1>2 DEF Table, Entry, AdminType, TableType
<1>4. ~meddled' => /\ paid[m] <= old.masters[m].until /\ (old.masters[m].st = "none" => paid[m] = 0)
                   /\ (m \in banned => old.masters[m].st = "revoked")
  BY <1>1, <1>2, CommandEnds DEF Kept
<1>5. CASE cli.cmd = "add-master"
  <2> DEFINE e == [st |-> "active", until |-> 0]
  <2>1. e \in Entry /\ e.st = "active" /\ e.until = 0
    BY DEF Entry
  <2>2. old.masters[m].st = "none"
    BY <1>1, <1>5 DEF TableInv
  <2>3. file' = [old EXCEPT !.masters[m] = e] /\ paid' = paid /\ banned' = banned
    BY <1>5 DEF CliSaves
  <2>4. file' = [old EXCEPT !.masters = [old.masters EXCEPT ![m] = e]]
    BY <1>2, <2>1, <2>3, EntryInFile
  <2>5. paid' = [paid EXCEPT ![m] = paid[m]] /\ banned' \subseteq banned \cup {m}
    BY <1>3, <2>3
  <2>6. ~meddled' => e.until >= paid[m] /\ (m \in banned' => e.st = "revoked")
    BY <1>3, <1>4, <2>1, <2>2, <2>3
  <2> HIDE DEF e, m, old
  <2> QED
    BY <1>1, <1>2, <1>3, <2>1, <2>4, <2>5, <2>6, CommandKept DEF old
<1>6. CASE cli.cmd = "renew-master"
  <2> DEFINE e == [st |-> "active", until |-> Extended(old.masters[m].until, 1)]
  <2>1. e \in Entry /\ e.st = "active" /\ e.until \in Nat /\ e.until >= old.masters[m].until + 1
    BY <1>3, ExtendedAddsDays DEF Entry
  <2>2. /\ file' = [old EXCEPT !.masters[m] = e] /\ banned' = banned \ {m}
        /\ paid' = [paid EXCEPT ![m] = paid[m] + 1]
    BY <1>2, <1>6 DEF CliSaves, AdminType, TableType
  <2>3. file' = [old EXCEPT !.masters = [old.masters EXCEPT ![m] = e]]
    BY <1>2, <2>1, <2>2, EntryInFile
  <2>4. ~meddled' => e.until >= paid[m] + 1 /\ (m \in banned' => e.st = "revoked")
    <3> HIDE DEF e
    <3> QED BY <1>3, <1>4, <2>1, <2>2
  <2>5. paid[m] + 1 \in Nat
    BY <1>3
  <2> HIDE DEF e, m, old
  <2> QED
    BY <1>1, <1>2, <2>1, <2>2, <2>3, <2>4, <2>5, CommandKept DEF old
<1>7. CASE cli.cmd = "revoke-master"
  <2> DEFINE e == [old.masters[m] EXCEPT !.st = "revoked"]
  <2>1. e \in Entry /\ e.until = old.masters[m].until /\ e.st = "revoked"
    BY <1>3, RevokedEntry
  <2>2. file' = [old EXCEPT !.masters[m].st = "revoked"] /\ banned' = banned \cup {m} /\ paid' = paid
    BY <1>7 DEF CliSaves
  <2>3. file' = [old EXCEPT !.masters = [old.masters EXCEPT ![m] = e]]
    BY <2>2
  <2>4. ~meddled' => e.until >= paid[m] /\ (m \in banned' => e.st = "revoked")
    <3> HIDE DEF e
    <3> QED BY <1>3, <1>4, <2>1
  <2>5. paid' = [paid EXCEPT ![m] = paid[m]]
    BY <1>3, <2>2
  <2> HIDE DEF e, m, old
  <2> QED
    BY <1>1, <1>2, <1>3, <2>1, <2>2, <2>3, <2>4, <2>5, CommandKept DEF old
<1>8. CASE cli.cmd \in {"set-admin", "bind-access"}
  <2>1. file' \in {[old EXCEPT !.admin = 2], [old EXCEPT !.access = 2]} /\ UNCHANGED <<paid, banned>>
    BY <1>8 DEF CliSaves
  <2>2. file' \in File /\ file'.masters = old.masters
    BY <1>2, <2>1 DEF File
  <2>3. ~meddled' => Kept(file'.masters, paid', banned')
    BY <1>1, <2>1, <2>2, CommandEnds
  <2>4. paid' \in [Master -> Nat] /\ banned' \subseteq Master
    BY <2>1 DEF AdminType, TableType
  <2> QED
    BY <1>1, <2>2, <2>3, <2>4, SavedKept
<1> QED
  BY <1>5, <1>6, <1>7, <1>8 DEF CliSaves

LEMMA TablesKept ==
    ASSUME AdminType, TableInv, AdminStep
    PROVE  TableType' /\ TableInv'
<1>1. now' \in Nat
  BY TimeGoesOn DEF AdminType, TableType
<1>2. CASE UNCHANGED tableVars
  BY <1>1, <1>2 DEF TableInv, TableType, AdminType, tableVars
<1>3. CASE Start
  <2>1. /\ UNCHANGED <<world, file, paid, banned, meddled, now>> /\ up' = TRUE
        /\ masters' = file.masters /\ access' = file.access /\ admin' = file.admin
        /\ cli' = [cli EXCEPT !.quiet = FALSE]
    BY <1>3 DEF Start
  <2>2. [NoCommand EXCEPT !.quiet = FALSE] = NoCommand
    <3>1. NoCommand.quiet = FALSE
      BY DEF NoCommand
    <3> QED
      BY <3>1, NoCommandIsTyped DEF CommandType
  <2>3. /\ cli' \in CommandType
        /\ cli'.cmd = cli.cmd /\ cli'.key = cli.key /\ cli'.copy = cli.copy /\ ~cli'.quiet
    BY <2>1 DEF AdminType, TableType, CommandType
  <2>4. CASE cli = NoCommand
    <3>1. cli' = NoCommand
      BY <2>1, <2>2, <2>4
    <3> QED
      BY <1>1, <2>1, <2>3, <2>4, <3>1 DEF AdminType, TableType, File, TableInv, CommandType
  <2>5. CASE cli # NoCommand
    BY <1>1, <2>1, <2>3, <2>5 DEF AdminType, TableType, File, TableInv, CommandType
  <2> QED
    BY <2>4, <2>5
<1>4. CASE Stop
  BY <1>4, OtherSteps DEF Stop, TableInv, TableType, AdminType, masterVars
<1>5. CASE CliLoads
  <2>1. PICK c \in world.commands, m \in Master :
           /\ c = "add-master" => file.masters[m].st = "none"
           /\ cli' = [cmd |-> c, key |-> m, copy |-> <<file>>, quiet |-> ~up]
    BY <1>5, OneIsAMaster DEF CliLoads
  <2>2. c \in Command /\ m \in Nat
    BY AdminAssumption DEF Master, AdminType, TableType
  <2>3. cli'.copy[1] = file /\ cli'.key = m /\ cli'.cmd = c /\ cli'.quiet = ~up
    BY <2>1
  <2>4. cli' \in CommandType
    BY <2>1, <2>2 DEF AdminType, TableType, CommandType
  <2>5. UNCHANGED <<world, file, masters, access, admin, paid, banned, up, meddled>>
    BY <1>5 DEF CliLoads, masterVars
  <2> QED
    BY <1>1, <2>1, <2>3, <2>4, <2>5 DEF TableInv, TableType, AdminType, CommandType
<1>6. CASE CliSaves
  BY <1>1, <1>6, CommandsKeep
<1>7. ASSUME NEW s \in Slots, IssueMaster(s) \/ RenewMaster(s) \/ RevokeMaster(s) \/ SetAccess(s)
      PROVE  TableType' /\ TableInv'
  <2>1. /\ reqs[s].arg \in Nat /\ reqs[s].key \in Master /\ now \in Nat
        /\ \A m \in Master : masters[m] \in Entry /\ masters[m].until \in Nat /\ paid[m] \in Nat
    BY DEF AdminType, TableType, Table, Entry, PageType, Request
  <2>2. UNCHANGED <<world, admin, cli, up, meddled>>
    BY <1>7, MasterRequests
  <2>3. up
    BY <1>7 DEF IssueMaster, RenewMaster, RevokeMaster, SetAccess, BodyRead, Arrived
  <2>4. ASSUME ~meddled PROVE Kept(masters, paid, banned)
    BY <2>3, <2>4 DEF TableInv
  <2>5. CASE IssueMaster(s)
    <3> DEFINE e == [st |-> "active", until |-> now + reqs[s].arg]
    <3>1. PICK m \in Master :
             /\ masters[m].st = "none"
             /\ ChangeMasters([masters EXCEPT ![m] = e])
             /\ paid' = [paid EXCEPT ![m] = now + reqs[s].arg]
      BY <2>5 DEF IssueMaster
    <3>2. access' = access /\ banned' = banned
      BY <2>5 DEF IssueMaster
    <3>3. e \in Entry /\ e.until = now + reqs[s].arg /\ e.st = "active" /\ now + reqs[s].arg \in Nat
      BY <2>1 DEF Entry
    <3> HIDE DEF e
    <3>4. ~meddled => e.until >= now + reqs[s].arg /\ (m \in banned' => e.st = "revoked")
      BY <2>1, <2>4, <3>1, <3>2, <3>3 DEF Kept
    <3>5. banned' \subseteq banned \cup {m}
      BY <3>2
    <3> QED
      BY <1>1, <2>2, <2>3, <3>1, <3>2, <3>3, <3>4, <3>5, ChangeKept
  <2>6. CASE RenewMaster(s)
    <3> DEFINE m == reqs[s].key
               e == [st |-> "active", until |-> Extended(masters[m].until, reqs[s].arg)]
    <3>1. e \in Entry /\ e.st = "active" /\ e.until \in Nat /\ e.until >= masters[m].until + reqs[s].arg
      BY <2>1, ExtendedAddsDays DEF Entry
    <3>2. /\ ChangeMasters([masters EXCEPT ![m] = e])
          /\ paid' = [paid EXCEPT ![m] = paid[m] + reqs[s].arg]
          /\ banned' = banned \ {m} /\ access' = access
      BY <2>1, <2>6 DEF RenewMaster, AdminType, TableType, Table
    <3>3. m \in Master /\ paid[m] + reqs[s].arg \in Nat
      BY <2>1
    <3>4. ~meddled => e.until >= paid[m] + reqs[s].arg /\ (m \in banned' => e.st = "revoked")
      <4> HIDE DEF e
      <4> QED BY <2>1, <2>4, <3>1, <3>2 DEF Kept
    <3> HIDE DEF e, m
    <3> QED
      BY <1>1, <2>2, <2>3, <3>1, <3>2, <3>3, <3>4, ChangeKept
  <2>7. CASE RevokeMaster(s)
    <3> DEFINE m == reqs[s].key
               e == [masters[m] EXCEPT !.st = "revoked"]
    <3>1. e \in Entry /\ e.st = "revoked" /\ e.until = masters[m].until
      BY <2>1, RevokedEntry
    <3>2. CASE UNCHANGED masterVars
      BY <1>1, <2>2, <3>2 DEF TableInv, TableType, AdminType, masterVars
    <3>3. CASE ~UNCHANGED masterVars
      <4>1. /\ ChangeMasters([masters EXCEPT ![m] = e])
            /\ banned' = banned \cup {m} /\ UNCHANGED <<access, paid>>
        BY <2>1, <2>7, <3>3 DEF RevokeMaster
      <4>2. m \in Master /\ paid' = [paid EXCEPT ![m] = paid[m]] /\ paid[m] \in Nat
        BY <2>1, <4>1 DEF AdminType, TableType
      <4>3. ~meddled => e.until >= paid[m] /\ (m \in banned' => e.st = "revoked")
        BY <2>1, <2>4, <3>1 DEF Kept
      <4> HIDE DEF e, m
      <4> QED
        BY <1>1, <2>2, <2>3, <3>1, <4>1, <4>2, <4>3, ChangeKept
    <3> QED
      BY <3>2, <3>3
  <2>8. CASE SetAccess(s)
    <3>1. /\ access' = reqs[s].arg /\ file' = [file EXCEPT !.access = reqs[s].arg]
          /\ UNCHANGED <<masters, paid, banned>>
      BY <2>8 DEF SetAccess
    <3>2. file' \in File /\ file'.masters = file.masters
      BY <2>1, <3>1 DEF AdminType, TableType, File
    <3>3. ~(cli # NoCommand /\ cli.quiet)
      BY <2>3 DEF TableInv
    <3> QED
      BY <1>1, <2>1, <2>2, <3>1, <3>2, <3>3 DEF AdminType, TableType, TableInv
  <2> QED
    BY <1>7, <2>5, <2>6, <2>7, <2>8
<1> QED
  BY <1>2, <1>3, <1>4, <1>5, <1>6, <1>7, QuietRequests, SubRequests, PageSteps, OtherSteps
     DEF AdminStep, AdminNext, Served, adminVars, tableVars

-----------------------------------------------------------------------------
(* Sub-codes *)

(* Ids are given in order and name one listed code each, and a code that    *)
(* ended is gone from the tables or marked revoked in them.                 *)
CodeInv ==
    /\ \A c \in listed : sub[c].id \in 1 .. seq
    /\ \A c, d \in listed : sub[c].id = sub[d].id => c = d
    /\ \A c \in ended : sub[c].id > 0 /\ (c \in listed => sub[c].revoked)

LEMMA CodesForgotten ==
    ASSUME CodeType, CodeInv, NEW codes \in SUBSET Code, Forget(codes),
           ended' = ended \cup (codes \cap listed), UNCHANGED <<sub, seq>>
    PROVE  CodeType' /\ CodeInv'
BY DEF CodeType, CodeInv, Forget

LEMMA CodeIssued ==
    ASSUME CodeType, CodeInv, NEW c \in Code, NEW chan \in Master, NEW until \in Nat,
           sub[c].id = 0, seq' = seq + 1,
           sub' = [sub EXCEPT ![c] = [id |-> seq', chan |-> chan, until |-> until, revoked |-> FALSE]],
           listed' = listed \cup {c}, byCode' = byCode \cup {c}, ended' = ended
    PROVE  CodeType' /\ CodeInv'
<1>1. sub' \in [Code -> Sub] /\ sub'[c].id = seq + 1 /\ \A d \in Code \ {c} : sub'[d] = sub[d]
  BY DEF CodeType, Sub
<1>2. c \notin listed /\ c \notin ended
  BY DEF CodeType, CodeInv
<1>3. CodeType'
  BY <1>1 DEF CodeType
<1>4. ASSUME NEW d \in listed' PROVE sub'[d].id \in 1 .. seq' /\ (d = c \/ sub'[d].id <= seq)
  BY <1>1, <1>2 DEF CodeType, CodeInv
<1>5. CodeInv'
  BY <1>1, <1>2, <1>4 DEF CodeType, CodeInv
<1> QED
  BY <1>3, <1>5

(* A renewal moves the end of a code; a revocation marks it.                *)
LEMMA CodeWritten ==
    ASSUME CodeType, CodeInv, NEW c \in listed, NEW e \in Sub,
           e.id = sub[c].id, sub[c].revoked => e.revoked, sub' = [sub EXCEPT ![c] = e],
           \/ ended' = ended
           \/ ended' = ended \cup {c} /\ e.revoked,
           UNCHANGED <<listed, byCode, seq>>
    PROVE  CodeType' /\ CodeInv'
<1>1. sub' \in [Code -> Sub] /\ sub'[c] = e /\ \A d \in Code \ {c} : sub'[d] = sub[d]
  BY DEF CodeType
<1>2. \A d \in Code : sub'[d].id = sub[d].id /\ (sub[d].revoked => sub'[d].revoked)
  BY <1>1
<1> QED
  BY <1>1, <1>2 DEF CodeType, CodeInv

LEMMA RequestNames ==
    ASSUME AdminType, NEW s \in Slots
    PROVE  /\ Channel(reqs[s]) \in Master /\ reqs[s].arg \in Nat
           /\ ListedIn(Channel(reqs[s]), reqs[s].id) \subseteq listed
BY DEF AdminType, PageType, Request, Channel, ListedIn, ListedAs

LEMMA CodesKept ==
    ASSUME AdminType, CodeInv, AdminStep
    PROVE  CodeType' /\ CodeInv'
<1>1. CASE UNCHANGED codeVars
  BY <1>1 DEF AdminType, CodeType, CodeInv, codeVars
<1>2. CASE Start
  BY <1>2 DEF Start, AdminType, CodeType, CodeInv
<1>3. CASE Collect
  <2> DEFINE dead == {c \in Code : sub[c].revoked \/ Ended(sub[c])}
  <2>1. Forget(dead) /\ ended' = ended \cup (dead \cap listed) /\ UNCHANGED <<sub, seq>>
    BY <1>3 DEF Collect, AdminType, CodeType
  <2>2. dead \in SUBSET Code
    OBVIOUS
  <2> HIDE DEF dead
  <2> QED
    BY <2>1, <2>2, CodesForgotten DEF AdminType
<1>4. ASSUME NEW s \in Slots, IssueSub(s) PROVE CodeType' /\ CodeInv'
  <2>1. CASE UNCHANGED codeVars
    BY <1>1, <2>1
  <2>2. CASE ~UNCHANGED codeVars
    <3>1. PICK c \in Code :
             /\ sub[c].id = 0 /\ seq' = seq + 1
             /\ sub' = [sub EXCEPT ![c] = [id |-> seq', chan |-> Channel(reqs[s]),
                                           until |-> now + SubTerm, revoked |-> FALSE]]
             /\ listed' = listed \cup {c} /\ byCode' = byCode \cup {c}
      BY <1>4, <2>2 DEF IssueSub
    <3>2. ended' = ended
      BY <1>4, <2>2 DEF IssueSub
    <3>3. now + SubTerm \in Nat
      BY AdminAssumption DEF AdminType, TableType
    <3> QED
      BY <3>1, <3>2, <3>3, RequestNames, CodeIssued DEF AdminType
  <2> QED
    BY <2>1, <2>2
<1>5. ASSUME NEW s \in Slots, RenewSub(s) PROVE CodeType' /\ CodeInv'
  <2>1. UNCHANGED <<listed, byCode, seq, ended>>
    BY <1>5 DEF RenewSub
  <2>2. CASE UNCHANGED sub
    BY <1>1, <2>1, <2>2 DEF codeVars
  <2>3. CASE ~UNCHANGED sub
    <3>1. PICK c \in Renewable(reqs[s].id) :
             sub' = [sub EXCEPT ![c].until = IF reqs[s].arg = 0 THEN 0 ELSE Extended(@, reqs[s].arg)]
      BY <1>5, <2>3 DEF RenewSub
    <3>2. c \in listed /\ sub[c] \in Sub /\ sub[c].until \in Nat
      BY DEF Renewable, ListedAs, AdminType, CodeType, Sub
    <3> DEFINE u == IF reqs[s].arg = 0 THEN 0 ELSE Extended(sub[c].until, reqs[s].arg)
               e == [sub[c] EXCEPT !.until = u]
    <3>3. u \in Nat
      BY <3>2, RequestNames, ExtendedAddsDays DEF AdminType, TableType
    <3>4. sub' = [sub EXCEPT ![c] = e]
      BY <3>1, <3>2 DEF AdminType, CodeType
    <3> HIDE DEF u
    <3>5. e \in Sub /\ e.id = sub[c].id /\ e.revoked = sub[c].revoked
      BY <3>2, <3>3 DEF Sub
    <3> HIDE DEF e
    <3> QED
      BY <2>1, <3>2, <3>4, <3>5, CodeWritten DEF AdminType
  <2> QED
    BY <2>2, <2>3
<1>6. ASSUME NEW s \in Slots, RevokeSub(s) PROVE CodeType' /\ CodeInv'
  <2> DEFINE found == ListedIn(Channel(reqs[s]), reqs[s].id)
  <2>1. CASE UNCHANGED codeVars
    BY <1>1, <2>1
  <2>2. CASE ~UNCHANGED codeVars
    <3>1. PICK c \in found : sub' = [sub EXCEPT ![c].revoked = TRUE]
      BY <1>6, <2>2 DEF RevokeSub
    <3>2. ended' = ended \cup found /\ UNCHANGED <<listed, byCode, seq>>
      BY <1>6, <2>2 DEF RevokeSub
    <3>3. c \in listed /\ sub[c] \in Sub /\ found = {c}
      BY DEF ListedIn, ListedAs, AdminType, CodeType, CodeInv
    <3> DEFINE e == [sub[c] EXCEPT !.revoked = TRUE]
    <3>4. sub' = [sub EXCEPT ![c] = e]
      BY <3>1, <3>3 DEF AdminType, CodeType
    <3>5. e \in Sub /\ e.id = sub[c].id /\ e.revoked
      BY <3>3 DEF Sub
    <3> HIDE DEF e, found
    <3> QED
      BY <3>2, <3>3, <3>4, <3>5, CodeWritten DEF AdminType
  <2> QED
    BY <2>1, <2>2
<1>7. ASSUME NEW s \in Slots, PurgeSub(s) PROVE CodeType' /\ CodeInv'
  <2> DEFINE found == ListedIn(Channel(reqs[s]), reqs[s].id)
  <2>1. CASE UNCHANGED codeVars
    BY <1>1, <2>1
  <2>2. CASE ~UNCHANGED codeVars
    <3>1. Forget(found) /\ ended' = ended \cup found /\ UNCHANGED <<sub, seq>>
      BY <1>7, <2>2 DEF PurgeSub
    <3>2. found \in SUBSET Code /\ found \cap listed = found
      BY RequestNames DEF AdminType, CodeType
    <3> HIDE DEF found
    <3> QED
      BY <3>1, <3>2, CodesForgotten DEF AdminType
  <2> QED
    BY <2>1, <2>2
<1> QED
  BY <1>1, <1>2, <1>3, <1>4, <1>5, <1>6, <1>7, QuietRequests, MasterRequests, PageSteps, OtherSteps
     DEF AdminStep, AdminNext, Served, adminVars, codeVars

-----------------------------------------------------------------------------
(* Types of requests and of the page *)

LEMMA OneRequestTyped ==
    ASSUME reqs \in [Slots -> Request], NEW s \in Slots, NEW r \in Request,
           reqs' = [reqs EXCEPT ![s] = r]
    PROVE  reqs' \in [Slots -> Request] /\ reqs'[s] = r /\ \A x \in Slots \ {s} : reqs'[x] = reqs[x]
OBVIOUS

LEMMA AbandonIsTyped ==
    ASSUME reqs \in [Slots -> Request]
    PROVE  /\ Abandon(reqs) \in [Slots -> Request]
           /\ \A s \in Slots : \/ Abandon(reqs)[s] = Free
                               \/ /\ ~Abandon(reqs)[s].page /\ Abandon(reqs)[s].tok = reqs[s].tok
                                  /\ Abandon(reqs)[s].op = reqs[s].op
                                  /\ Abandon(reqs)[s].stage = reqs[s].stage
                                  /\ Abandon(reqs)[s].stage # "done"
<1>1. \A r \in Request : /\ [r EXCEPT !.page = FALSE] \in Request
                         /\ ~[r EXCEPT !.page = FALSE].page
                         /\ [r EXCEPT !.page = FALSE].tok = r.tok
                         /\ [r EXCEPT !.page = FALSE].op = r.op
                         /\ [r EXCEPT !.page = FALSE].stage = r.stage
  BY DEF Request
<1> QED
  BY <1>1, FreeIsARequest DEF Abandon

LEMMA OverviewIsSeen == AdminType => Overview \in Seen
BY DEF AdminType, TableType, CodeType, Table, Entry, Sub, Overview, Seen

(* The buttons send requests of the page, none of them for an overview.     *)
LEMMA ButtonsAsk ==
    ASSUME AdminType
    PROVE  \A r \in Buttons : /\ r \in Request /\ r.tok = page.tok /\ r.stage = "sent"
                              /\ r.op \notin {"login", "overview"}
<1> DEFINE Good(r) == /\ r \in Request /\ r.tok = page.tok /\ r.stage = "sent"
                      /\ r.op \notin {"login", "overview"}
<1>1. /\ world.days \subseteq Nat /\ 0 .. 2 \subseteq Nat /\ 0 .. 1 \subseteq Nat
  BY AdminAssumption DEF AdminType, TableType
<1>2. \A x \in page.shown.subs : x.id \in Nat /\ x.chan \in Master
  BY DEF AdminType, PageType, Seen
<1>3. ASSUME NEW op \in Op \ {"login", "overview"}, NEW k \in Master, NEW i \in Nat, NEW d \in Nat
      PROVE  Good(Button(op, k, i, d))
  <2> DEFINE r == FromPage(op)
  <2>1. r \in Request /\ r.tok = page.tok /\ r.stage = "sent" /\ r.op = op
    BY PageAsks DEF AdminType
  <2> HIDE DEF r
  <2>2. Good([r EXCEPT !.key = k, !.id = i, !.arg = d])
    BY <2>1 DEF Request
  <2> QED
    BY <2>2 DEF r, Button
<1>4. \A op \in {"issue", "renew", "revoke", "access", "token", "subIssue", "subRenew", "subRevoke", "subPurge"},
         k \in Master, i \in Nat, d \in Nat : Good(Button(op, k, i, d))
  BY <1>3 DEF Op
<1> HIDE DEF Good
<1>5. ASSUME NEW r \in RevokeButtons PROVE Good(r)
  BY <1>4 DEF RevokeButtons, Known
<1>6. ASSUME NEW r \in MasterButtons PROVE Good(r)
  BY <1>1, <1>4, <1>5, OneIsAMaster DEF MasterButtons, Known
<1>7. ASSUME NEW r \in AccessButtons PROVE Good(r)
  BY <1>1, <1>4, <1>5, OneIsAMaster DEF AccessButtons, Known
<1>8. ASSUME NEW r \in SubButtons PROVE Good(r)
  BY <1>1, <1>2, <1>4, OneIsAMaster DEF SubButtons, Known
<1> QED
  BY <1>6, <1>7, <1>8 DEF Buttons, Good

(* What a request that is served becomes: it goes on or is answered, it is  *)
(* a login with a new token, or an overview that is answered.               *)
Turned(s) ==
    /\ UNCHANGED <<sessions, logins>>
    /\ \/ Goes(s, "body") /\ reqs[s].stage = "sent"
       \/ Goes(s, "hash") /\ reqs[s].op = "login"
       \/ Answered(s, 200) /\ reqs[s].op \notin {"login", "overview"}
       \/ \E n \in {201, 400, 401, 404, 409, 429} : Answered(s, n)

LoggedIn(s) ==
    /\ reqs[s].stage = "hash" /\ logins < world.tokens /\ logins' = logins + 1
    /\ sessions' = [sessions EXCEPT ![logins'] = now + TokenTerm]
    /\ reqs' = [reqs EXCEPT ![s].stage = "done", ![s].status = 200, ![s].tok = logins']

Overviewed(s) ==
    /\ UNCHANGED <<sessions, logins>> /\ reqs[s].op = "overview"
    /\ reqs' = [reqs EXCEPT ![s].stage = "done", ![s].status = 200, ![s].shown = Overview]

LEMMA ServedBecomes ==
    ASSUME NEW s \in Slots, Served(s)
    PROVE  Turned(s) \/ LoggedIn(s) \/ Overviewed(s)
<1>1. CASE LoginArrives(s)
  BY <1>1 DEF LoginArrives, Arrived, loginVars, Turned
<1>2. CASE LoginHashes(s)
  BY <1>2 DEF LoginHashes, BodyRead, Turned
<1>3. CASE LoginDone(s)
  BY <1>3 DEF LoginDone, LoggedIn, Turned
<1>4. CASE OverviewArrives(s)
  BY <1>4 DEF OverviewArrives, Arrived, loginVars, Turned, Overviewed
<1>5. CASE AdminArrives(s)
  BY <1>5 DEF AdminArrives, Arrived, loginVars, Turned
<1>6. CASE IssueMaster(s)
  BY <1>6 DEF IssueMaster, loginVars, Turned
<1>7. CASE RenewMaster(s)
  BY <1>7 DEF RenewMaster, BodyRead, loginVars, Turned
<1>8. CASE RevokeMaster(s)
  BY <1>8 DEF RevokeMaster, Arrived, loginVars, Turned
<1>9. CASE SetAccess(s)
  BY <1>9 DEF SetAccess, BodyRead, loginVars, Turned
<1>10. CASE MakeToken(s)
  BY <1>10 DEF MakeToken, BodyRead, loginVars, Turned
<1>11. CASE SubArrives(s)
  BY <1>11 DEF SubArrives, Refused, Arrived, loginVars, Turned
<1>12. CASE IssueSub(s)
  BY <1>12 DEF IssueSub, Refused, loginVars, Turned
<1>13. CASE RenewSub(s)
  BY <1>13 DEF RenewSub, BodyRead, loginVars, Turned
<1>14. CASE RevokeSub(s)
  BY <1>14 DEF RevokeSub, Arrived, Refused, loginVars, Turned
<1>15. CASE PurgeSub(s)
  BY <1>15 DEF PurgeSub, Arrived, Refused, loginVars, Turned
<1> QED
  BY <1>1, <1>2, <1>3, <1>4, <1>5, <1>6, <1>7, <1>8, <1>9, <1>10, <1>11, <1>12, <1>13, <1>14, <1>15
     DEF Served

LEMMA DoneIsAStage == "done" \in Stage /\ 0 \in Nat /\ 200 \in Nat
BY DEF Stage

LEMMA RequestWritten ==
    ASSUME NEW r \in Request, NEW stage \in Stage, NEW status \in Nat, NEW tok \in Nat, NEW shown \in Seen
    PROVE  /\ [r EXCEPT !.stage = stage, !.status = status, !.tok = tok] \in Request
           /\ [r EXCEPT !.stage = stage, !.status = status, !.shown = shown] \in Request
BY DEF Request

LEMMA ServedTyped ==
    ASSUME AdminType, NEW s \in Slots, Served(s)
    PROVE  PageType'
<1>1. page' = page /\ PageType
  BY QuietRequests, SubRequests, MasterRequests DEF Served, AdminType
<1>2. CASE Turned(s)
  <2>1. reqs' \in [Slots -> Request]
    BY <1>1, <1>2, AnswersAreTyped DEF PageType, Stage, Turned
  <2> QED
    BY <1>1, <1>2, <2>1 DEF PageType, Turned
<1>3. CASE LoggedIn(s)
  <2>1. logins' \in 0 .. MaxTok /\ now + TokenTerm \in Nat
    BY <1>3, AdminAssumption DEF AdminType, TableType, PageType, LoggedIn
  <2>2. sessions' \in [Token -> Nat]
    BY <1>1, <1>3, <2>1 DEF PageType, LoggedIn
  <2>3. reqs[s] \in Request /\ logins' \in Nat
    BY <1>1, <2>1 DEF PageType
  <2>4. [reqs[s] EXCEPT !.stage = "done", !.status = 200, !.tok = logins'] \in Request
    BY <2>3, DoneIsAStage, RequestWritten, NothingIsSeen, ZenonT(40)
  <2>5. reqs' = [reqs EXCEPT ![s] = [reqs[s] EXCEPT !.stage = "done", !.status = 200, !.tok = logins']]
    BY <1>3 DEF LoggedIn
  <2>6. reqs' \in [Slots -> Request]
    BY <1>1, <2>4, <2>5, OneRequestTyped DEF PageType
  <2> QED
    BY <1>1, <2>1, <2>2, <2>6 DEF PageType
<1>4. CASE Overviewed(s)
  <2>1. reqs[s] \in Request /\ Overview \in Seen
    BY <1>1, OverviewIsSeen DEF PageType
  <2>2. [reqs[s] EXCEPT !.stage = "done", !.status = 200, !.shown = Overview] \in Request
    BY <2>1, DoneIsAStage, RequestWritten, ZenonT(40)
  <2>3. reqs' = [reqs EXCEPT ![s] = [reqs[s] EXCEPT !.stage = "done", !.status = 200, !.shown = Overview]]
    BY <1>4 DEF Overviewed
  <2>4. reqs' \in [Slots -> Request]
    BY <1>1, <2>2, <2>3, OneRequestTyped DEF PageType
  <2> QED
    BY <1>1, <1>4, <2>4 DEF PageType, Overviewed
<1> QED
  BY <1>2, <1>3, <1>4, ServedBecomes

(* What the page does with its requests and what it shows.                  *)
LEMMA PageStepsTyped ==
    ASSUME AdminType, NEW s \in Slots,
           OpenPage(s) \/ Login(s) \/ Click(s) \/ PluginAsks(s) \/ Answer(s)
    PROVE  PageType'
<1>1. UNCHANGED <<sessions, logins>> /\ PageType
  BY PageSteps DEF AdminType, loginVars
<1>2. page.tok \in Nat /\ page.shown \in Seen /\ Nothing \in Seen /\ reqs[s] \in Request
  BY <1>1, NothingIsSeen DEF PageType
<1> DEFINE Page == [at : {"away", "login", "main"}, tok : Nat, shown : Seen]
<1>3. ASSUME NEW r \in Request, reqs' = [reqs EXCEPT ![s] = r], page' \in Page
      PROVE  PageType'
  BY <1>1, <1>3, OneRequestTyped DEF PageType
<1>4. page \in Page /\ [page EXCEPT !.at = "login"] \in Page /\ [page EXCEPT !.at = "main"] \in Page
  BY <1>1 DEF PageType
<1>5. CASE OpenPage(s)
  <2>1. CASE page' = [page EXCEPT !.at = "login"] /\ UNCHANGED reqs
    BY <1>1, <1>4, <2>1 DEF PageType
  <2>2. CASE page' = [page EXCEPT !.at = "main"] /\ Send(s, FromPage("overview"))
    <3>1. FromPage("overview") \in Request
      BY <1>1, PageAsks DEF Op
    <3> QED
      BY <1>3, <1>4, <2>2, <3>1 DEF Send
  <2> QED
    BY <1>5, <2>1, <2>2 DEF OpenPage
<1>6. CASE Login(s)
  <2>1. PICK pw \in world.passwords : Asks(s, [FromPage("login") EXCEPT !.arg = pw])
    BY <1>6 DEF Login
  <2>2. pw \in Nat /\ FromPage("login") \in Request
    BY <1>1, PageAsks, AdminAssumption DEF Op, AdminType, TableType
  <2>3. [FromPage("login") EXCEPT !.arg = pw] \in Request
    BY <2>2 DEF Request
  <2> QED
    BY <1>3, <1>4, <1>6, <2>1, <2>3 DEF Login, Asks, Send
<1>7. CASE Click(s)
  BY <1>3, <1>4, <1>7, ButtonsAsk DEF Click, Asks, Send
<1>8. CASE PluginAsks(s)
  <2>1. PICK m \in Master, op \in {"subIssue", "subRenew", "subRevoke", "subPurge"}, i \in 1 .. MaxSub :
           Asks(s, [Free EXCEPT !.op = op, !.code = m, !.id = i, !.arg = 1, !.stage = "sent"])
    BY <1>8 DEF PluginAsks
  <2>2. [Free EXCEPT !.op = op, !.code = m, !.id = i, !.arg = 1, !.stage = "sent"] \in Request
    <3>1. op \in Op /\ i \in Nat /\ m \in {0} \cup Master /\ 1 \in Nat /\ "sent" \in Stage
      BY AdminAssumption DEF Op, Stage
    <3>2. \A r \in Request : [r EXCEPT !.op = op, !.code = m, !.id = i, !.arg = 1, !.stage = "sent"] \in Request
      BY <3>1 DEF Request
    <3> QED
      BY <3>2, FreeIsARequest
  <2> QED
    BY <1>3, <1>4, <1>8, <2>1, <2>2 DEF PluginAsks, Asks, Send
<1>9. CASE Answer(s)
  <2> DEFINE again == [Free EXCEPT !.op = "overview", !.tok = page'.tok, !.stage = "sent", !.page = TRUE]
  <2>1. ASSUME page' \in Page PROVE again \in Request
    BY <2>1, FreeIsARequest DEF Request, Op, Stage
  <2>2. /\ [page EXCEPT !.tok = reqs[s].tok, !.at = "main"] \in Page
        /\ [page EXCEPT !.shown = reqs[s].shown] \in Page
        /\ [page EXCEPT !.tok = 0] \in Page /\ Unloaded(0) \in Page
    BY <1>2, <1>4 DEF Request, Unloaded
  <2> HIDE DEF again, Page
  <2>3. \/ page' \in Page /\ reqs' = [reqs EXCEPT ![s] = Free]
        \/ page' \in Page /\ reqs' = [reqs EXCEPT ![s] = again]
        \/ page' \in Page /\ reqs' = Abandon(reqs)
    BY <1>4, <1>9, <2>2 DEF Answer, again
  <2> QED
    BY <1>1, <1>3, <2>1, <2>3, FreeIsARequest, AbandonIsTyped DEF PageType, Page
<1> QED
  BY <1>5, <1>6, <1>7, <1>8, <1>9

LEMMA PagesKept ==
    ASSUME AdminType, AdminStep
    PROVE  PageType'
<1>1. CASE UNCHANGED <<loginVars, reqs, page>>
  BY <1>1 DEF AdminType, PageType, loginVars
<1>2. CASE Start
  BY <1>2 DEF Start, SessionsAtStart, AdminType, PageType
<1>3. ASSUME NEW tok \in Nat PROVE Unloaded(tok) \in [at : {"away", "login", "main"}, tok : Nat, shown : Seen]
  BY NothingIsSeen DEF Unloaded
<1>4. CASE Stop
  <2>1. UNCHANGED <<sessions, logins>> /\ reqs' = [s \in Slots |-> Free]
        /\ page' \in {page, Unloaded(page.tok)}
    BY <1>4 DEF Stop, loginVars
  <2> QED
    BY <1>3, <2>1, FreeIsARequest DEF AdminType, PageType
<1>5. CASE LeavePage
  <2>1. UNCHANGED <<sessions, logins>> /\ reqs' = Abandon(reqs)
        /\ page' \in {Unloaded(0), Unloaded(page.tok)}
    BY <1>5 DEF LeavePage, loginVars
  <2> QED
    BY <1>3, <2>1, AbandonIsTyped DEF AdminType, PageType
<1> QED
  BY <1>1, <1>2, <1>4, <1>5, OtherSteps, ServedTyped, PageStepsTyped DEF AdminStep, AdminNext, adminVars, loginVars

-----------------------------------------------------------------------------
(* What the page shows *)

(* An overview is good when its ids were given by this process and name     *)
(* nothing but the codes it shows.                                          *)
Current(shown, codes, here, last) ==
    \A x \in shown.subs : /\ x.id \in 1 .. last
                          /\ \A c \in here : codes[c].id = x.id => c = x.code

(* What is known of a request.  Tokens are among those that were made, only *)
(* a page that is in its main view waits for anything but a login, and what *)
(* an answer will show is good.  A login that is under way was sent to this *)
(* process, so the page, which shows nothing of an earlier one, may get a   *)
(* token for what it shows.                                                 *)
Sound(r) ==
    /\ r.tok <= logins
    /\ r.stage = "hash" => r.op = "login"
    /\ r.page /\ r.op = "login" => Current(page.shown, sub, listed, seq)
    /\ r.page /\ r.op # "login" => page.at = "main"
    /\ r.op = "overview" /\ r.stage = "done" /\ r.status = 200 => Current(r.shown, sub, listed, seq)

SeenInv ==
    /\ page.tok <= logins
    /\ \A t \in Token : t > logins => sessions[t] = 0
    /\ page.at # "main" => page.shown = Nothing
    /\ page.tok # 0 /\ sessions[page.tok] # 0 => Current(page.shown, sub, listed, seq)
    /\ \A s \in Slots : Sound(reqs[s])
    /\ ~up => \A s \in Slots : reqs[s] = Free

LEMMA NothingIsCurrent == \A codes, here, last : Current(Nothing, codes, here, last)
BY DEF Current, Nothing

LEMMA OverviewIsCurrent == AdminType /\ CodeInv => Current(Overview, sub, listed, seq)
BY DEF AdminType, CodeType, CodeInv, Current, Overview

(* Within a process codes are forgotten and new ones get new ids: what was  *)
(* good stays good.                                                         *)
LEMMA CurrentStays ==
    ASSUME AdminType, CodeInv, AdminStep, up, NEW shown, Current(shown, sub, listed, seq)
    PROVE  Current(shown, sub', listed', seq')
<1> DEFINE Onward == /\ seq' \in Nat /\ seq' >= seq
                     /\ \A c \in listed' : \/ c \in listed /\ sub'[c].id = sub[c].id
                                           \/ sub'[c].id > seq
<1>1. SUFFICES Onward
  BY DEF Current, AdminType, CodeType
<1>2. CASE UNCHANGED codeVars
  BY <1>2 DEF codeVars, AdminType, CodeType
<1>3. CASE Collect
  BY <1>3 DEF Collect, Forget, AdminType, CodeType
<1>4. ASSUME NEW s \in Slots, IssueSub(s), ~UNCHANGED codeVars
      PROVE  Onward
  <2>1. PICK c \in Code :
           /\ sub[c].id = 0 /\ seq' = seq + 1
           /\ sub' = [sub EXCEPT ![c] = [id |-> seq', chan |-> Channel(reqs[s]),
                                         until |-> now + SubTerm, revoked |-> FALSE]]
           /\ listed' = listed \cup {c}
    BY <1>4 DEF IssueSub
  <2>2. sub'[c].id = seq + 1 /\ \A d \in Code \ {c} : sub'[d] = sub[d]
    BY <2>1 DEF AdminType, CodeType
  <2> QED
    BY <2>1, <2>2 DEF AdminType, CodeType
<1>5. ASSUME NEW s \in Slots, RenewSub(s)
      PROVE  Onward
  <2>1. UNCHANGED <<listed, seq>>
    BY <1>5 DEF RenewSub
  <2>2. CASE ~UNCHANGED sub
    <3>1. PICK c \in Renewable(reqs[s].id) :
             sub' = [sub EXCEPT ![c].until = IF reqs[s].arg = 0 THEN 0 ELSE Extended(@, reqs[s].arg)]
      BY <1>5, <2>2 DEF RenewSub
    <3> QED
      BY <2>1, <3>1 DEF AdminType, CodeType, Sub
  <2> QED
    BY <2>1, <2>2 DEF AdminType, CodeType
<1>6. ASSUME NEW s \in Slots, RevokeSub(s)
      PROVE  Onward
  BY <1>6 DEF RevokeSub, codeVars, AdminType, CodeType, Sub
<1>7. ASSUME NEW s \in Slots, PurgeSub(s)
      PROVE  Onward
  BY <1>7 DEF PurgeSub, Forget, codeVars, AdminType, CodeType
<1>8. CASE Start
  BY <1>8 DEF Start
<1> HIDE DEF Onward
<1>9. ASSUME NEW s \in Slots, Served(s) PROVE Onward
  BY <1>2, <1>4, <1>5, <1>6, <1>7, <1>9, QuietRequests, MasterRequests DEF Served
<1>10. CASE Clock \/ Stop \/ LeavePage \/ CliLoads \/ CliSaves \/ UNCHANGED <<limiterVars, adminVars>>
  BY <1>2, <1>10, OtherSteps DEF adminVars, codeVars
<1> QED
  BY <1>2, <1>3, <1>8, <1>9, <1>10, PageSteps DEF AdminStep, AdminNext

(* A request that goes on or is answered keeps what is known of it.         *)
LEMMA SoundTurned ==
    ASSUME AdminType, CodeInv, SeenInv, AdminStep, NEW s \in Slots, Served(s)
    PROVE  SeenInv'
<1>1. UNCHANGED <<up, page>> /\ PageType
  BY QuietRequests, SubRequests, MasterRequests DEF Served, AdminType, tableVars
<1>2. up
  BY DEF Served, LoginArrives, LoginHashes, LoginDone, OverviewArrives, AdminArrives, IssueMaster, RenewMaster,
         RevokeMaster, SetAccess, MakeToken, SubArrives, IssueSub, RenewSub, RevokeSub, PurgeSub, Arrived, BodyRead
<1>3. \A shown : Current(shown, sub, listed, seq) => Current(shown, sub', listed', seq')
  BY <1>2, CurrentStays
<1>4. logins \in Nat /\ page.tok \in Nat /\ reqs[s] \in Request /\ Sound(reqs[s])
  BY <1>1 DEF PageType, SeenInv
<1> DEFINE Mine == /\ reqs'[s].tok <= logins'
                   /\ reqs'[s].stage = "hash" => reqs'[s].op = "login"
                   /\ reqs'[s].op = reqs[s].op /\ reqs'[s].page = reqs[s].page
                   /\ reqs'[s].op = "overview" /\ reqs'[s].stage = "done" /\ reqs'[s].status = 200
                         => Current(reqs'[s].shown, sub', listed', seq')
           Rest == \A x \in Slots \ {s} : reqs'[x] = reqs[x]
           Made == /\ logins' \in Nat /\ logins' >= logins
                   /\ \A t \in Token : t > logins' => sessions'[t] = 0
                   /\ page.tok # 0 => sessions'[page.tok] = sessions[page.tok]
<1>5. ASSUME Mine, Rest, Made PROVE SeenInv'
  <2>1. ASSUME NEW x \in Slots PROVE Sound(reqs[x])'
    <3>1. CASE x = s
      BY <1>1, <1>3, <1>4, <1>5, <3>1 DEF Sound
    <3>2. CASE x # s
      <4>1. Sound(reqs[x]) /\ reqs'[x] = reqs[x] /\ reqs[x].tok \in Nat
        BY <1>1, <1>5, <3>2 DEF SeenInv, PageType, Request
      <4> QED
        BY <1>1, <1>3, <1>4, <1>5, <4>1 DEF Sound
    <3> QED
      BY <3>1, <3>2
  <2> QED
    BY <1>1, <1>2, <1>3, <1>4, <1>5, <2>1 DEF SeenInv
<1>6. CASE Turned(s)
  <2>1. Made
    BY <1>4, <1>6 DEF Turned, SeenInv
  <2>2. Rest /\ /\ reqs'[s].op = reqs[s].op /\ reqs'[s].tok = reqs[s].tok
                /\ reqs'[s].page = reqs[s].page /\ reqs'[s].shown = reqs[s].shown
    BY <1>1, <1>6, AnswersAreTyped DEF PageType, Turned, Stage
  <2>3. \/ reqs'[s].stage = "body"
        \/ reqs'[s].stage = "hash" /\ reqs[s].op = "login"
        \/ reqs'[s].stage = "done" /\ (reqs'[s].status = 200 => reqs[s].op # "overview")
    BY <1>1, <1>4, <1>6 DEF PageType, Request, Turned, Goes, Answered
  <2>4. Mine
    BY <1>4, <1>6, <2>2, <2>3 DEF Sound, Turned
  <2> QED
    BY <1>5, <2>1, <2>2, <2>4
<1>7. CASE LoggedIn(s)
  <2>1. logins' = logins + 1 /\ logins' \in Token /\ sessions' = [sessions EXCEPT ![logins'] = now + TokenTerm]
    BY <1>4, <1>7, AdminAssumption DEF LoggedIn, Token, AdminType, TableType
  <2>2. Made
    BY <1>1, <1>4, <2>1 DEF PageType, SeenInv, Token
  <2>3. Rest /\ /\ reqs'[s].op = reqs[s].op /\ reqs'[s].tok = logins' /\ reqs'[s].stage = "done"
                /\ reqs'[s].page = reqs[s].page
    BY <1>1, <1>4, <1>7 DEF PageType, Request, LoggedIn
  <2>4. Mine
    BY <1>4, <1>7, <2>1, <2>3 DEF Sound, LoggedIn
  <2> QED
    BY <1>5, <2>2, <2>3, <2>4
<1>8. CASE Overviewed(s)
  <2>1. Made
    BY <1>4, <1>8 DEF Overviewed, SeenInv
  <2>2. Rest /\ /\ reqs'[s].op = reqs[s].op /\ reqs'[s].tok = reqs[s].tok /\ reqs'[s].stage = "done"
                /\ reqs'[s].page = reqs[s].page /\ reqs'[s].shown = Overview
    BY <1>1, <1>4, <1>8 DEF PageType, Request, Overviewed
  <2>3. Mine
    BY <1>3, <1>4, <1>8, <2>2, OverviewIsCurrent DEF Sound, Overviewed
  <2> QED
    BY <1>5, <2>1, <2>2, <2>3
<1> QED
  BY <1>6, <1>7, <1>8, ServedBecomes

(* What the page shows changes when an overview comes or the page goes.     *)
LEMMA SoundPages ==
    ASSUME AdminType, SeenInv, NEW s \in Slots,
           OpenPage(s) \/ Login(s) \/ Click(s) \/ PluginAsks(s) \/ Answer(s)
    PROVE  SeenInv'
<1>1. UNCHANGED <<up, codeVars, sessions, logins>> /\ PageType /\ Free \in Request
  BY PageSteps, FreeIsARequest DEF AdminType, tableVars, loginVars
<1>2. /\ page.tok \in 0 .. logins /\ 0 \in 0 .. logins /\ logins \in Nat
      /\ reqs[s] \in Request /\ reqs[s].tok \in 0 .. logins /\ Sound(reqs[s])
  BY <1>1 DEF PageType, SeenInv, Sound, Request
<1> DEFINE Good(shown) == Current(shown, sub, listed, seq)
           Mine(r) == /\ r.tok \in 0 .. logins /\ r.stage \in {"free", "sent"}
                      /\ r.page /\ r.op = "login" => Good(page'.shown)
                      /\ r.page /\ r.op # "login" => page'.at = "main"
           Shows == /\ page'.tok \in 0 .. logins
                    /\ page'.at # "main" => page'.shown = Nothing
                    /\ page'.tok # 0 /\ sessions[page'.tok] # 0 => Good(page'.shown)
           Others == \A x \in Slots \ {s} :
                        /\ reqs[x].page /\ reqs[x].op = "login" => Good(page'.shown)
                        /\ reqs[x].page /\ reqs[x].op # "login" => page'.at = "main"
<1>3. ASSUME NEW r \in Request, reqs' = [reqs EXCEPT ![s] = r], Mine(r), Shows, Others,
             up \/ r = Free
      PROVE  SeenInv'
  <2>1. reqs'[s] = r /\ \A x \in Slots \ {s} : reqs'[x] = reqs[x]
    BY <1>1, <1>3, OneRequestTyped DEF PageType
  <2>2. ASSUME NEW x \in Slots PROVE Sound(reqs[x])'
    <3>1. CASE x = s
      BY <1>1, <1>2, <1>3, <2>1, <3>1 DEF Sound, codeVars
    <3>2. CASE x # s
      <4>1. Sound(reqs[x]) /\ reqs'[x] = reqs[x]
        BY <2>1, <3>2 DEF SeenInv
      <4> QED
        BY <1>1, <1>3, <3>2, <4>1 DEF Sound, codeVars
    <3> QED
      BY <3>1, <3>2
  <2>3. ~up => \A x \in Slots : reqs'[x] = Free
    BY <1>3, <2>1 DEF SeenInv
  <2> QED
    BY <1>1, <1>2, <1>3, <2>2, <2>3 DEF SeenInv, codeVars
<1>4. page' = page => Shows /\ Others
  BY <1>2 DEF SeenInv, Sound
<1>5. /\ Free.tok = 0 /\ Free.stage = "free" /\ ~Free.page /\ Free.op = "none"
      /\ Good(Nothing)
  BY NothingIsCurrent DEF Free
<1>6. Mine(Free)
  BY <1>2, <1>5
<1>7. CASE OpenPage(s)
  <2>1. page.at = "away" /\ up /\ page.shown = Nothing
    BY <1>7 DEF OpenPage, SeenInv
  <2>2. page' \in {[page EXCEPT !.at = "login"], [page EXCEPT !.at = "main"]}
    BY <1>7 DEF OpenPage
  <2>3. page'.shown = Nothing /\ page'.tok = page.tok
    BY <1>1, <2>1, <2>2 DEF PageType
  <2>4. \A x \in Slots : reqs[x].page => reqs[x].op = "login"
    BY <2>1 DEF SeenInv, Sound
  <2>5. Shows /\ Others
    BY <1>2, <1>5, <2>3, <2>4
  <2>6. CASE UNCHANGED reqs
    <3>1. ASSUME NEW x \in Slots PROVE Sound(reqs[x])'
      BY <1>1, <1>5, <2>3, <2>4, <2>6 DEF Sound, SeenInv, codeVars
    <3> QED
      BY <1>1, <1>2, <2>1, <2>5, <2>6, <3>1 DEF SeenInv, codeVars
  <2>7. CASE page' = [page EXCEPT !.at = "main"] /\ Send(s, FromPage("overview"))
    <3> DEFINE r == FromPage("overview")
    <3>1. r \in Request /\ r.tok = page.tok /\ r.stage = "sent" /\ r.op = "overview"
      BY <1>1, PageAsks DEF Op
    <3>2. reqs' = [reqs EXCEPT ![s] = r]
      BY <2>7 DEF Send
    <3> HIDE DEF r
    <3>3. Mine(r)
      BY <1>1, <1>2, <2>7, <3>1 DEF PageType
    <3> QED
      BY <1>3, <2>1, <2>5, <3>1, <3>2, <3>3
  <2> QED
    BY <1>7, <2>6, <2>7 DEF OpenPage
<1>8. ASSUME NEW r \in Request, Asks(s, r), page' = page, r.tok \in {0, page.tok}, r.stage = "sent",
             r.page => IF r.op = "login" THEN page.at = "login" ELSE page.at = "main"
      PROVE  SeenInv'
  <2>1. reqs' = [reqs EXCEPT ![s] = r] /\ up
    BY <1>8 DEF Asks, Send
  <2>2. Mine(r)
    BY <1>2, <1>5, <1>8 DEF SeenInv
  <2> QED
    BY <1>3, <1>4, <1>8, <2>1, <2>2
<1>9. CASE Login(s)
  <2>1. PICK pw \in world.passwords : Asks(s, [FromPage("login") EXCEPT !.arg = pw])
    BY <1>9 DEF Login
  <2>2. pw \in Nat /\ FromPage("login") \in Request /\ FromPage("login").tok = page.tok
        /\ FromPage("login").stage = "sent" /\ FromPage("login").op = "login"
    BY <1>1, PageAsks, AdminAssumption DEF Op, AdminType, TableType
  <2> DEFINE r == [FromPage("login") EXCEPT !.arg = pw]
  <2>3. r \in Request /\ r.tok = page.tok /\ r.stage = "sent" /\ r.op = "login"
    BY <2>2 DEF Request
  <2> HIDE DEF r
  <2> QED
    BY <1>8, <1>9, <2>1, <2>3 DEF Login, r
<1>10. CASE Click(s)
  <2>1. PICK r \in Buttons : Asks(s, r)
    BY <1>10 DEF Click
  <2>2. r \in Request /\ r.tok = page.tok /\ r.stage = "sent" /\ r.op # "login"
    BY ButtonsAsk
  <2>3. page' = page /\ page.at = "main"
    BY <1>10 DEF Click
  <2> QED
    BY <1>8, <2>1, <2>2, <2>3
<1>11. CASE PluginAsks(s)
  <2>1. PICK m \in Master, op \in {"subIssue", "subRenew", "subRevoke", "subPurge"}, i \in 1 .. MaxSub :
           Asks(s, [Free EXCEPT !.op = op, !.code = m, !.id = i, !.arg = 1, !.stage = "sent"])
    BY <1>11 DEF PluginAsks
  <2> DEFINE r == [Free EXCEPT !.op = op, !.code = m, !.id = i, !.arg = 1, !.stage = "sent"]
  <2>2. op \in Op /\ i \in Nat /\ m \in {0} \cup Master /\ 1 \in Nat /\ "sent" \in Stage
    BY AdminAssumption DEF Op, Stage
  <2>3. \A f \in Request :
           LET q == [f EXCEPT !.op = op, !.code = m, !.id = i, !.arg = 1, !.stage = "sent"]
           IN  q \in Request /\ q.tok = f.tok /\ q.page = f.page /\ q.stage = "sent"
    BY <2>2 DEF Request
  <2>4. r \in Request /\ r.tok = 0 /\ ~r.page /\ r.stage = "sent"
    BY <1>1, <1>5, <2>3
  <2>5. page' = page
    BY <1>11 DEF PluginAsks
  <2> HIDE DEF r
  <2> QED
    BY <1>8, <2>1, <2>4, <2>5 DEF r
<1>12. CASE Answer(s)
  <2> DEFINE again == [Free EXCEPT !.op = "overview", !.tok = page'.tok, !.stage = "sent", !.page = TRUE]
  <2>1. ASSUME page'.tok \in 0 .. logins, page'.at = "main" PROVE again \in Request /\ Mine(again)
    <3>1. \A f \in Request :
             LET q == [f EXCEPT !.op = "overview", !.tok = page'.tok, !.stage = "sent", !.page = TRUE]
             IN  q \in Request /\ q.tok = page'.tok /\ q.page /\ q.stage = "sent" /\ q.op = "overview"
      <4>1. page'.tok \in Nat /\ "overview" \in Op /\ "sent" \in Stage
        BY <1>2, <2>1 DEF Op, Stage
      <4> QED
        BY <4>1 DEF Request
    <3>2. again \in Request /\ again.tok = page'.tok /\ again.page /\ again.stage = "sent" /\ again.op = "overview"
      BY <1>1, <3>1
    <3> HIDE DEF again
    <3> QED
      BY <2>1, <3>2
  <2>2. up
    BY <1>5, <1>12 DEF Answer, SeenInv
  <2>3. CASE page' = page /\ reqs' = [reqs EXCEPT ![s] = Free]
    BY <1>1, <1>3, <1>4, <1>6, <2>3
  <2>4. CASE /\ reqs[s].page /\ reqs[s].op = "login"
             /\ page' = [page EXCEPT !.tok = reqs[s].tok, !.at = "main"]
             /\ reqs' = [reqs EXCEPT ![s] = again]
    <3>1. page'.tok = reqs[s].tok /\ page'.at = "main" /\ page'.shown = page.shown
      BY <1>1, <2>4 DEF PageType
    <3>2. Good(page'.shown)
      BY <1>2, <2>4, <3>1 DEF Sound
    <3>3. Shows /\ Others
      BY <1>2, <3>1, <3>2
    <3> QED
      BY <1>2, <1>3, <2>1, <2>2, <2>4, <3>1, <3>3
  <2>5. CASE /\ reqs[s].page /\ reqs[s].op = "overview" /\ reqs[s].status = 200
             /\ page' = [page EXCEPT !.shown = reqs[s].shown]
             /\ reqs' = [reqs EXCEPT ![s] = Free]
    <3>1. page'.tok = page.tok /\ page'.at = page.at /\ page'.shown = reqs[s].shown
      BY <1>1, <2>5 DEF PageType
    <3>2. Good(page'.shown) /\ page.at = "main"
      BY <1>2, <1>12, <2>5, <3>1 DEF Sound, Answer
    <3>3. Shows /\ Others
      BY <1>2, <3>1, <3>2
    <3> QED
      BY <1>1, <1>3, <1>6, <2>2, <2>5, <3>3
  <2>6. CASE page' = Unloaded(0) /\ reqs' = Abandon(reqs)
    <3>1. page'.tok = 0 /\ page'.shown = Nothing
      BY <2>6 DEF Unloaded
    <3>2. ASSUME NEW x \in Slots PROVE Sound(reqs[x])'
      <4>1. reqs'[x] = Abandon(reqs)[x] /\ Sound(reqs[x])
        BY <2>6 DEF SeenInv
      <4>2. CASE reqs'[x] = Free
        BY <1>1, <1>2, <1>5, <4>2 DEF Sound
      <4>3. CASE reqs'[x] # Free
        BY <1>1, <1>2, <4>1, <4>3, AbandonIsTyped DEF Sound, PageType
      <4> QED
        BY <4>2, <4>3
    <3> QED
      BY <1>1, <1>2, <2>2, <3>1, <3>2 DEF SeenInv
  <2>7. CASE /\ reqs[s].page /\ reqs[s].op \notin {"login", "overview"}
             /\ page' = [page EXCEPT !.tok = 0]
             /\ reqs' = [reqs EXCEPT ![s] = Free]
    <3>1. page'.tok = 0 /\ page'.at = page.at /\ page'.shown = page.shown /\ page.at = "main"
      BY <1>1, <1>2, <2>7 DEF PageType, Sound
    <3>2. Shows /\ Others
      BY <1>2, <3>1 DEF SeenInv, Sound
    <3> QED
      BY <1>1, <1>3, <1>6, <2>2, <2>7, <3>2
  <2>8. CASE /\ reqs[s].page /\ reqs[s].op # "login"
             /\ page' = page /\ reqs' = [reqs EXCEPT ![s] = again]
    <3>1. page.at = "main"
      BY <1>2, <2>8 DEF Sound
    <3> QED
      BY <1>2, <1>3, <1>4, <2>1, <2>2, <2>8, <3>1
  <2> HIDE DEF again
  <2> QED
    BY <1>12, <2>3, <2>4, <2>5, <2>6, <2>7, <2>8 DEF Answer, again
<1> QED
  BY <1>7, <1>9, <1>10, <1>11, <1>12

LEMMA SeenKept ==
    ASSUME AdminType, CodeInv, SeenInv, AdminStep
    PROVE  SeenInv'
<1>1. PageType /\ CodeType
  BY DEF AdminType
<1>2. CASE UNCHANGED <<codeVars, loginVars, reqs, page, up>>
  BY <1>2 DEF SeenInv, Sound, codeVars, loginVars
<1>3. Free.tok = 0 /\ Free.stage = "free" /\ Free.page = FALSE /\ Free.op = "none"
  BY DEF Free
<1>4. CASE Start
  <2>1. /\ UNCHANGED <<reqs, page, logins>> /\ up'
        /\ \A s \in Slots : reqs[s] = Free
        /\ \A t \in Token : sessions'[t] = 0
    BY <1>1, <1>4 DEF Start, SessionsAtStart, SeenInv, PageType
  <2>2. page.tok # 0 => sessions'[page.tok] = 0
    <3>1. page.tok \in Nat /\ page.tok <= logins /\ logins \in 0 .. MaxTok /\ MaxTok \in Nat
      BY <1>1, AdminAssumption DEF PageType, SeenInv
    <3> QED
      BY <2>1, <3>1 DEF Token
  <2>3. logins \in Nat
    BY <1>1 DEF PageType
  <2>4. ASSUME NEW x \in Slots PROVE Sound(reqs[x])'
    <3>1. reqs'[x] = Free
      BY <2>1
    <3> QED
      BY <1>3, <2>1, <2>3, <3>1 DEF Sound
  <2> QED
    BY <2>1, <2>2, <2>4 DEF SeenInv
<1>5. CASE Stop
  <2>1. /\ UNCHANGED <<codeVars, sessions, logins>>
        /\ \A s \in Slots : reqs'[s] = Free
        /\ page' \in {page, Unloaded(page.tok)} /\ logins \in Nat
    BY <1>1, <1>5, OtherSteps DEF Stop, loginVars, PageType
  <2>2. /\ page'.tok = page.tok
        /\ page' = page \/ page'.shown = Nothing
    BY <2>1 DEF Unloaded
  <2> QED
    BY <1>3, <2>1, <2>2, NothingIsCurrent DEF SeenInv, Sound, codeVars
<1>6. CASE Collect
  <2>1. UNCHANGED <<sessions, logins, reqs, page, up>> /\ up
    BY <1>6, OtherSteps DEF Collect, tableVars, loginVars
  <2>2. \A shown : Current(shown, sub, listed, seq) => Current(shown, sub', listed', seq')
    BY <2>1, CurrentStays
  <2> QED
    BY <2>1, <2>2 DEF SeenInv, Sound
<1>7. CASE LeavePage
  <2>1. /\ UNCHANGED <<codeVars, sessions, logins, up>> /\ reqs' = Abandon(reqs)
        /\ page' \in {Unloaded(0), Unloaded(page.tok)} /\ logins \in Nat
    BY <1>1, <1>7, OtherSteps DEF LeavePage, loginVars, tableVars, PageType
  <2>2. page'.tok \in {0, page.tok} /\ page'.shown = Nothing
    BY <2>1 DEF Unloaded
  <2>3. ASSUME NEW x \in Slots PROVE Sound(reqs[x])'
    <3>1. reqs'[x] = Abandon(reqs)[x] /\ Sound(reqs[x])
      BY <2>1 DEF SeenInv
    <3>2. CASE reqs'[x] = Free
      BY <1>3, <2>1, <3>2 DEF Sound
    <3>3. CASE reqs'[x] # Free
      BY <1>1, <2>1, <3>1, <3>3, AbandonIsTyped DEF Sound, PageType
    <3> QED
      BY <3>2, <3>3
  <2>4. ~up => \A x \in Slots : reqs'[x] = Free
    <3>1. [Free EXCEPT !.page = FALSE] = Free
      BY <1>3, FreeIsARequest DEF Request
    <3>2. \A x \in Slots : reqs[x] = Free => Abandon(reqs)[x] = Free
      BY <1>3, <3>1 DEF Abandon
    <3> QED
      BY <2>1, <3>2 DEF SeenInv
  <2> QED
    BY <2>1, <2>2, <2>3, <2>4, NothingIsCurrent DEF SeenInv, codeVars
<1>8. CASE Clock \/ CliLoads \/ CliSaves \/ UNCHANGED <<limiterVars, adminVars>>
  BY <1>2, <1>8, OtherSteps DEF adminVars, codeVars, loginVars, tableVars
<1> QED
  BY <1>4, <1>5, <1>6, <1>7, <1>8, SoundTurned, SoundPages DEF AdminStep, AdminNext

-----------------------------------------------------------------------------
(* The theorems *)

AdminInv == AdminType /\ TableInv /\ CodeInv /\ SeenInv

LEMMA InvInit == AdminInit => AdminInv
<1> SUFFICES ASSUME AdminInit PROVE AdminInv
  OBVIOUS
<1>1. now \in Nat /\ world \in Worlds /\ world.admin \in Nat /\ MaxTok \in Nat
  BY AdminAssumption DEF AdminInit, Init
<1>2. NewTable \in Table /\ \A m \in Master : NewTable[m].until = 0
  BY DEF NewTable, NoMaster, Table, Entry
<1>3. TableType
  BY <1>1, <1>2, NoCommandIsTyped DEF AdminInit, TableType, File
<1>4. CodeType
  BY OneIsAMaster DEF AdminInit, CodeType, NoSub, Sub
<1>5. PageType
  BY <1>1, FreeIsARequest, NothingIsSeen DEF AdminInit, PageType
<1>6. TableInv
  BY <1>2 DEF AdminInit, TableInv, Kept
<1>7. CodeInv
  BY DEF AdminInit, CodeInv
<1>8. SeenInv
  <2>1. Free.tok = 0 /\ Free.stage = "free" /\ ~Free.page /\ Free.op = "none"
    BY DEF Free
  <2> QED
    BY <2>1 DEF AdminInit, SeenInv, Sound
<1> QED
  BY <1>3, <1>4, <1>5, <1>6, <1>7, <1>8 DEF AdminInv, AdminType

(* Types, tables, codes and what the page shows, always: the invariant that *)
(* the other theorems rest on.                                              *)
THEOREM AdminInvariant == AdminSpec => []AdminInv
<1>1. AdminInv /\ AdminStep => AdminInv'
  BY TablesKept, CodesKept, PagesKept, SeenKept DEF AdminInv, AdminType
<1> QED
  BY InvInit, <1>1, PTL DEF AdminSpec, AdminStep

(* However renewals, revocations, restarts and commands come together, a    *)
(* master code runs for the days it was given, as long as no command writes *)
(* the file of a running relay (renew, persistMasters, loadMasters).        *)
THEOREM PaidTime == AdminSpec => []PaidTimeKept
<1>1. AdminInv => PaidTimeKept
  BY DEF AdminInv, TableInv, Kept, PaidTimeKept
<1> QED
  BY <1>1, AdminInvariant, PTL

(* A master code that was revoked is refused until it is renewed, and a     *)
(* sub-code that was revoked, purged, collected or lost in a restart never  *)
(* lets anyone join again (revoke, renewSubCode, purgeSubCode, sweep).      *)
THEOREM NothingComesBack == AdminSpec => []EndedStaysEnded
<1>1. AdminInv => RevokedMastersStay
  <2>1. AdminInv /\ up /\ ~meddled => \A m \in banned : masters[m].st = "revoked"
    BY DEF AdminInv, TableInv, Kept
  <2> QED
    BY <2>1 DEF RevokedMastersStay, Live
<1>2. AdminInv => EndedCodesStay
  BY DEF AdminInv, AdminType, CodeType, CodeInv, EndedCodesStay, Joinable
<1>3. AdminInv => EndedStaysEnded
  BY <1>1, <1>2 DEF EndedStaysEnded
<1> QED
  BY <1>3, AdminInvariant, PTL

(* Ids start anew with the process.  While the relay accepts the token of   *)
(* the page, the ids that the page shows name the codes that it shows, or   *)
(* nothing (adminSessions, subSeq, the reload after an overview).           *)
THEOREM IdsShown == AdminSpec => []ShownIdsNameTheirCodes
<1>1. AdminInv => ShownIdsNameTheirCodes
  BY DEF AdminInv, AdminType, CodeType, SeenInv, Current, ShownIdsNameTheirCodes, AdminOk, ListedIn, ListedAs
<1> QED
  BY <1>1, AdminInvariant, PTL

-----------------------------------------------------------------------------
(* The limiter *)

(* The last few guesses at a key, fewer than the limit, may be recent; all   *)
(* others are a term or a window older than time.                           *)
AllButFew(s, few, time) ==
    \A i \in DOMAIN s : i <= Len(s) - few - (MaxFailures - 1) => s[i] + Least <= time

(* What the record of a key tells of the guesses at it: in its window it     *)
(* counts at least those since it began; and while it never locked, the      *)
(* ones before, but for a few, had passed when it began.                    *)
Watched(k) ==
    LET s == guesses[k]
        r == recs[k]
    IN  /\ \A i \in DOMAIN s : s[i] <= now
        /\ ~InWindow(k) => AllButFew(s, 0, now)
        /\ InWindow(k) => \A i \in DOMAIN s : i <= Len(s) - r.failures => s[i] <= r.start
        /\ InWindow(k) /\ r.until = 0 => AllButFew(s, r.failures, r.start)

Bounded(s) ==
    \A i \in DOMAIN s :
        LET last == i + 2 * MaxFailures - 1
        IN  last \in DOMAIN s => s[i] + Least <= s[last]

Terms == \A k \in DOMAIN recs : recs[k].start <= now /\ recs[k].until \in {0, recs[k].start + Lock}

(* The record of a lock that runs is the one that the lock began. *)
Promises ==
    \A k \in Key \ evicted :
        /\ tried[k] <= now
        /\ promised[k] > now => \/ k \in DOMAIN recs /\ recs[k].until = promised[k]
                                \/ tried[k] + Lock >= promised[k] + Window

LimiterInv ==
    /\ TypeOK /\ Terms /\ Promises
    /\ \A k \in Key \ evicted : Watched(k) /\ Bounded(guesses[k])

LEMMA LimiterNumbers ==
    /\ Window \in Nat \ {0} /\ Lock \in Nat \ {0} /\ MaxFailures \in Nat \ {0} /\ MaxTime \in Nat
    /\ Least \in Nat \ {0} /\ Least <= Lock /\ Least <= Window
    /\ Home \in Key
BY LimiterAssumption, AdminAssumption DEF Home, Least

(* Making room takes whole records away: expired ones, or a key's that is    *)
(* remembered as pushed out.                                                *)
LEMMA RoomKeeps ==
    /\ DOMAIN WithRoom \subseteq DOMAIN recs
    /\ \A k \in DOMAIN WithRoom : WithRoom[k] = recs[k]
<1> DEFINE kept == Restrict(recs, {k \in DOMAIN recs : ~Expired(k)})
<1>1. DOMAIN kept \subseteq DOMAIN recs /\ \A k \in DOMAIN kept : kept[k] = recs[k]
  BY DEF Restrict
<1>2. LET less == Restrict(kept, DOMAIN kept \ {Oldest(kept)})
      IN  DOMAIN less \subseteq DOMAIN kept /\ \A k \in DOMAIN less : less[k] = kept[k]
  BY DEF Restrict
<1> HIDE DEF kept
<1> QED
  BY <1>1, <1>2 DEF WithRoom, kept

(* What a failure of key f leaves of the other records, and of its own.      *)
LEMMA FailureRecords ==
    ASSUME TypeOK, NEW f \in Key, Failed(f)
    PROVE  /\ now' = now /\ evicted \subseteq evicted' /\ evicted' \subseteq Key
           /\ tried' = [tried EXCEPT ![f] = now]
           /\ \/ Locked(f) /\ guesses' = guesses
              \/ ~Locked(f) /\ guesses' = [guesses EXCEPT ![f] = Append(@, now)]
           /\ f \in DOMAIN recs' /\ DOMAIN recs' \subseteq DOMAIN recs \cup {f}
           /\ \A k \in DOMAIN recs' \ {f} : recs'[k] = recs[k]
           /\ \A k \in DOMAIN recs \ DOMAIN recs' : k \in evicted' \/ Expired(k)
           /\ LET r == IF InWindow(f) THEN recs[f] ELSE [failures |-> 0, start |-> now, until |-> 0]
              IN  \/ /\ r.failures + 1 >= MaxFailures
                     /\ recs'[f] = [failures |-> 0, start |-> now, until |-> now + Lock]
                     /\ promised' = [promised EXCEPT ![f] = now + Lock]
                  \/ /\ r.failures + 1 < MaxFailures
                     /\ recs'[f] = [r EXCEPT !.failures = @ + 1]
                     /\ promised' = promised
<1>1. ASSUME NEW table, NEW r, DOMAIN table \subseteq DOMAIN recs, \A k \in DOMAIN table : table[k] = recs[k],
             Count(table, f, r)
      PROVE  /\ f \in DOMAIN recs' /\ DOMAIN recs' = DOMAIN table \cup {f}
             /\ \A k \in DOMAIN recs' \ {f} : recs'[k] = recs[k]
             /\ \/ /\ r.failures + 1 >= MaxFailures
                   /\ recs'[f] = [failures |-> 0, start |-> now, until |-> now + Lock]
                   /\ promised' = [promised EXCEPT ![f] = now + Lock]
                \/ /\ r.failures + 1 < MaxFailures
                   /\ recs'[f] = [r EXCEPT !.failures = @ + 1]
                   /\ promised' = promised
  BY <1>1 DEF Count, Put
<1>2. /\ now' = now /\ tried' = [tried EXCEPT ![f] = now]
      /\ \/ Locked(f) /\ guesses' = guesses
         \/ ~Locked(f) /\ guesses' = [guesses EXCEPT ![f] = Append(@, now)]
  BY DEF Failed
<1>3. CASE InWindow(f)
  <2>1. Count(recs, f, recs[f]) /\ UNCHANGED evicted
    BY <1>3 DEF Failed
  <2>2. DOMAIN recs \subseteq DOMAIN recs' /\ f \in DOMAIN recs
    BY <1>1, <1>3, <2>1 DEF InWindow
  <2> QED
    BY <1>1, <1>3, <1>2, <2>1, <2>2 DEF TypeOK
<1>4. CASE ~InWindow(f)
  <2> DEFINE r == [failures |-> 0, start |-> now, until |-> 0]
  <2>1. /\ Count(WithRoom, f, r)
        /\ evicted' = evicted \cup {l \in DOMAIN recs \ DOMAIN WithRoom : ~Expired(l)}
    BY <1>4 DEF Failed
  <2>2. /\ DOMAIN recs' = DOMAIN WithRoom \cup {f} /\ \A k \in DOMAIN recs' \ {f} : recs'[k] = recs[k]
        /\ \/ /\ r.failures + 1 >= MaxFailures
              /\ recs'[f] = [failures |-> 0, start |-> now, until |-> now + Lock]
              /\ promised' = [promised EXCEPT ![f] = now + Lock]
           \/ /\ r.failures + 1 < MaxFailures
              /\ recs'[f] = [r EXCEPT !.failures = @ + 1]
              /\ promised' = promised
    BY <1>1, <2>1, RoomKeeps
  <2> HIDE DEF r
  <2>3. evicted \subseteq evicted' /\ evicted' \subseteq Key
    BY <2>1 DEF TypeOK
  <2>4. DOMAIN recs' \subseteq DOMAIN recs \cup {f} /\ \A k \in DOMAIN recs \ DOMAIN recs' : k \in evicted' \/ Expired(k)
    BY <2>1, <2>2, RoomKeeps
  <2> QED
    BY <1>4, <1>2, <2>2, <2>3, <2>4 DEF r
<1> QED
  BY <1>3, <1>4

LEMMA FailureTypes ==
    ASSUME TypeOK, NEW f \in Key, Failed(f)
    PROVE  TypeOK'
<1>1. now \in Nat /\ now + Lock \in Nat
  BY LimiterNumbers DEF TypeOK
<1>2. [failures |-> 0, start |-> now, until |-> now + Lock] \in Record
      /\ [failures |-> 0, start |-> now, until |-> 0] \in Record
  BY <1>1 DEF Record
<1>3. \A r \in Record : [r EXCEPT !.failures = @ + 1] \in Record
                        /\ [r EXCEPT !.failures = @ + 1].failures = r.failures + 1
  BY DEF Record
<1>4. recs'[f] \in Record /\ recs'[f].failures < MaxFailures
  <2> DEFINE r == IF InWindow(f) THEN recs[f] ELSE [failures |-> 0, start |-> now, until |-> 0]
  <2>1. r \in Record
    BY <1>2 DEF InWindow, TypeOK
  <2> HIDE DEF r
  <2>2. \/ recs'[f] = [failures |-> 0, start |-> now, until |-> now + Lock]
        \/ r.failures + 1 < MaxFailures /\ recs'[f] = [r EXCEPT !.failures = @ + 1]
    BY FailureRecords DEF r
  <2> QED
    <3>1. CASE recs'[f] = [failures |-> 0, start |-> now, until |-> now + Lock]
      BY <1>2, <3>1, LimiterNumbers
    <3>2. CASE r.failures + 1 < MaxFailures /\ recs'[f] = [r EXCEPT !.failures = @ + 1]
      BY <1>3, <2>1, <3>2
    <3> QED
      BY <2>2, <3>1, <3>2
<1>5. \A k \in DOMAIN recs' : k \in Key /\ recs'[k] \in Record /\ recs'[k].failures < MaxFailures
  BY <1>4, FailureRecords DEF TypeOK
<1>6. promised' \in [Key -> Nat]
  <2>1. promised' \in {promised, [promised EXCEPT ![f] = now + Lock]}
    BY FailureRecords
  <2> QED
    BY <1>1, <2>1 DEF TypeOK
<1>7. guesses' \in [Key -> Seq(0 .. MaxTime)]
  <2>1. Append(guesses[f], now) \in Seq(0 .. MaxTime)
    BY DEF TypeOK
  <2>2. guesses' \in {guesses, [guesses EXCEPT ![f] = Append(guesses[f], now)]}
    BY DEF Failed
  <2> QED
    BY <2>1, <2>2 DEF TypeOK
<1>8. tried' \in [Key -> 0 .. MaxTime]
  BY FailureRecords DEF TypeOK
<1> QED
  BY <1>5, <1>6, <1>7, <1>8, FailureRecords DEF TypeOK

(* What a failure notes of the key that failed, and of no other. *)
LEMMA FailureNoted ==
    ASSUME TypeOK, NEW f \in Key, Failed(f)
    PROVE  /\ tried'[f] = now /\ \A k \in Key : k # f => tried'[k] = tried[k] /\ guesses'[k] = guesses[k]
           /\ Locked(f) => guesses'[f] = guesses[f]
           /\ ~Locked(f) => guesses'[f] = Append(guesses[f], now)
<1>1. CASE Locked(f)
  BY <1>1 DEF Failed, TypeOK
<1>2. CASE ~Locked(f)
  BY <1>2 DEF Failed, TypeOK
<1> QED
  BY <1>1, <1>2

LEMMA LastOneIn ==
    ASSUME NEW s \in Seq(0 .. MaxTime), NEW time \in 0 .. MaxTime
    PROVE  LET t == Append(s, time)
           IN  /\ Len(s) \in Nat /\ DOMAIN s = 1 .. Len(s) /\ \A i \in 1 .. Len(s) : s[i] \in Nat
               /\ Len(t) = Len(s) + 1 /\ DOMAIN t = 1 .. Len(s) + 1
               /\ \A i \in 1 .. Len(s) : t[i] = s[i]
               /\ t[Len(s) + 1] = time
BY LimiterNumbers

(* The numbers in a record, without its type. *)
LEMMA RecordNumbers ==
    ASSUME TypeOK, NEW k \in DOMAIN recs
    PROVE  /\ k \in Key /\ now \in Nat /\ recs[k].start \in Nat /\ recs[k].until \in Nat
           /\ recs[k].failures \in Nat /\ recs[k].failures < MaxFailures
BY LimiterNumbers DEF TypeOK, Record

(* The new record of the key that failed. *)
LEMMA FailedRecord ==
    ASSUME TypeOK, Terms, NEW f \in Key, Failed(f)
    PROVE  /\ f \in DOMAIN recs' /\ recs'[f].start \in Nat /\ recs'[f].start <= now
           /\ recs'[f].until \in {0, recs'[f].start + Lock}
           /\ \/ /\ recs'[f].failures = 0 /\ recs'[f].start = now /\ recs'[f].until = now + Lock
                 /\ promised' = [promised EXCEPT ![f] = now + Lock]
                 /\ InWindow(f) => recs[f].failures + 1 = MaxFailures
              \/ /\ InWindow(f) /\ promised' = promised /\ recs[f].failures + 1 < MaxFailures
                 /\ recs'[f].failures = recs[f].failures + 1
                 /\ recs'[f].start = recs[f].start /\ recs'[f].until = recs[f].until
              \/ /\ ~InWindow(f) /\ promised' = promised
                 /\ recs'[f].failures = 1 /\ recs'[f].start = now /\ recs'[f].until = 0
                 /\ 1 < MaxFailures
<1>1. now \in Nat
  BY LimiterNumbers DEF TypeOK
<1>2. CASE InWindow(f)
  <2>1. f \in DOMAIN recs /\ recs[f] \in Record
    BY <1>2 DEF InWindow, TypeOK
  <2>2. \A r \in Record : LET q == [r EXCEPT !.failures = @ + 1]
                          IN  q.failures = r.failures + 1 /\ q.start = r.start /\ q.until = r.until
    BY DEF Record
  <2>3. \/ /\ recs[f].failures + 1 >= MaxFailures
           /\ recs'[f] = [failures |-> 0, start |-> now, until |-> now + Lock]
           /\ promised' = [promised EXCEPT ![f] = now + Lock]
        \/ /\ recs[f].failures + 1 < MaxFailures
           /\ recs'[f] = [recs[f] EXCEPT !.failures = @ + 1]
           /\ promised' = promised
    BY <1>2, FailureRecords
  <2>4. f \in DOMAIN recs'
    BY FailureRecords
  <2>5. CASE recs[f].failures + 1 >= MaxFailures
    <3>1. recs'[f] = [failures |-> 0, start |-> now, until |-> now + Lock] /\ promised' = [promised EXCEPT ![f] = now + Lock]
      BY <2>1, <2>3, <2>5, RecordNumbers, LimiterNumbers
    <3>2. recs[f].failures + 1 = MaxFailures
      BY <2>1, <2>5, RecordNumbers, LimiterNumbers
    <3> QED
      BY <1>1, <2>4, <3>1, <3>2
  <2>6. CASE recs[f].failures + 1 < MaxFailures
    <3>1. recs'[f] = [recs[f] EXCEPT !.failures = @ + 1] /\ promised' = promised
      BY <2>1, <2>3, <2>6, RecordNumbers, LimiterNumbers
    <3> QED
      BY <1>2, <2>1, <2>2, <2>4, <2>6, <3>1, RecordNumbers DEF Terms
  <2> QED
    BY <2>1, <2>5, <2>6, RecordNumbers, LimiterNumbers
<1>3. CASE ~InWindow(f)
  <2> DEFINE r == [failures |-> 0, start |-> now, until |-> 0]
  <2>1. \/ /\ r.failures + 1 >= MaxFailures
           /\ recs'[f] = [failures |-> 0, start |-> now, until |-> now + Lock]
           /\ promised' = [promised EXCEPT ![f] = now + Lock]
        \/ /\ r.failures + 1 < MaxFailures
           /\ recs'[f] = [r EXCEPT !.failures = @ + 1]
           /\ promised' = promised
    BY <1>3, FailureRecords
  <2>2. [r EXCEPT !.failures = @ + 1] = [failures |-> 1, start |-> now, until |-> 0]
    OBVIOUS
  <2>3. f \in DOMAIN recs'
    BY FailureRecords
  <2> QED
    BY <1>1, <1>3, <2>1, <2>2, <2>3, LimiterNumbers
<1> QED
  BY <1>2, <1>3

LEMMA FailureKeepsTerms ==
    ASSUME TypeOK, Terms, Promises, NEW f \in Key, Failed(f)
    PROVE  Terms' /\ Promises'
<1>1. /\ now' = now /\ now \in Nat /\ promised \in [Key -> Nat] /\ tried \in [Key -> Nat]
      /\ Window \in Nat \ {0} /\ Lock \in Nat \ {0}
  BY LimiterNumbers DEF Failed, TypeOK
<1>2. Terms'
  <2>1. ASSUME NEW k \in DOMAIN recs' \ {f} PROVE k \in DOMAIN recs /\ recs'[k] = recs[k]
    BY FailureRecords
  <2> QED
    BY <1>1, <2>1, FailedRecord DEF Terms
<1>3. ASSUME NEW k \in Key \ evicted'
      PROVE  /\ tried'[k] <= now
             /\ promised'[k] > now => \/ k \in DOMAIN recs' /\ recs'[k].until = promised'[k]
                                      \/ tried'[k] + Lock >= promised'[k] + Window
  <2>1. k \in Key \ evicted /\ tried[k] <= now
    BY FailureRecords DEF Promises
  <2>2. CASE k # f
    <3>1. promised'[k] = promised[k] /\ tried'[k] = tried[k]
      <4>1. promised' = promised \/ promised' = [promised EXCEPT ![f] = now + Lock]
        BY FailedRecord
      <4> QED
        BY <1>1, <2>2, <4>1, FailureNoted
    <3>2. ASSUME promised[k] > now, k \in DOMAIN recs, recs[k].until = promised[k]
          PROVE  k \in DOMAIN recs' /\ recs'[k].until = promised[k]
      <4>1. ~Expired(k)
        BY <1>1, <3>2, RecordNumbers DEF Expired
      <4> QED
        BY <1>3, <2>2, <3>2, <4>1, FailureRecords
    <3> QED
      BY <2>1, <3>1, <3>2 DEF Promises
  <2>3. CASE k = f
    <3>1. tried'[k] = now
      BY <2>3, FailureNoted
    <3>2. CASE promised' = [promised EXCEPT ![f] = now + Lock] /\ recs'[f].until = now + Lock
      BY <1>1, <2>3, <3>1, <3>2, FailedRecord
    <3>3. CASE promised' = promised /\ InWindow(f) /\ recs'[f].until = recs[f].until
      <4>1. ASSUME promised[k] > now, tried[k] + Lock >= promised[k] + Window
            PROVE  now + Lock >= promised[k] + Window
        BY <1>1, <2>1, <4>1
      <4> QED
        BY <1>1, <2>1, <2>3, <3>1, <3>3, <4>1, FailedRecord DEF Promises
    <3>4. CASE promised' = promised /\ ~InWindow(f)
      <4> SUFFICES ASSUME promised[k] > now PROVE now + Lock >= promised[k] + Window
        BY <1>1, <3>1, <3>4
      <4>1. promised[k] \in Nat /\ tried[k] \in Nat
        BY <1>1
      <4>2. CASE k \in DOMAIN recs /\ recs[k].until = promised[k]
        <5>1. recs[k].start \in Nat /\ now - recs[k].start >= Window
          BY <1>1, <2>3, <3>4, <4>2, RecordNumbers DEF InWindow
        <5>2. promised[k] = recs[k].start + Lock
          BY <1>1, <4>1, <4>2 DEF Terms
        <5> QED
          BY <1>1, <5>1, <5>2
      <4>3. CASE tried[k] + Lock >= promised[k] + Window
        BY <1>1, <2>1, <4>1, <4>3
      <4> QED
        BY <2>1, <4>2, <4>3 DEF Promises
    <3> QED
      BY <3>2, <3>3, <3>4, FailedRecord
  <2> QED
    BY <2>2, <2>3
<1>4. Promises'
  BY <1>1, <1>3 DEF Promises
<1> QED
  BY <1>2, <1>4

(* What a failure finds: all guesses but a few are old, and if the key is    *)
(* not locked, so are enough of them for the limit.                         *)
LEMMA FoundByFailure ==
    ASSUME TypeOK, Terms, NEW f \in Key, Watched(f)
    PROVE  LET s == guesses[f]
               n == Len(s)
           IN  /\ \A i \in 1 .. n : s[i] <= now
               /\ ~InWindow(f) => \A i \in 1 .. n : i <= n - (MaxFailures - 1) => s[i] + Least <= now
               /\ InWindow(f) =>
                    /\ \A i \in 1 .. n : i <= n - recs[f].failures => s[i] <= recs[f].start
                    /\ recs[f].until = 0 =>
                         \A i \in 1 .. n : i <= n - recs[f].failures - (MaxFailures - 1) => s[i] + Least <= recs[f].start
                    /\ recs[f].until # 0 /\ ~Locked(f) =>
                         \A i \in 1 .. n : i <= n - recs[f].failures => s[i] + Least <= now
<1> DEFINE s == guesses[f]
           n == Len(s)
<1>1. s \in Seq(0 .. MaxTime) /\ now \in Nat /\ n \in Nat /\ DOMAIN s = 1 .. n /\ \A i \in 1 .. n : s[i] \in Nat
  BY LimiterNumbers DEF TypeOK
<1>2. \A i \in 1 .. n : s[i] <= now
  BY <1>1 DEF Watched
<1>3. ASSUME ~InWindow(f) PROVE \A i \in 1 .. n : i <= n - (MaxFailures - 1) => s[i] + Least <= now
  <2>1. \A i \in 1 .. n : i <= n - 0 - (MaxFailures - 1) => s[i] + Least <= now
    BY <1>1, <1>3 DEF Watched, AllButFew
  <2> QED
    BY <1>1, <2>1, LimiterNumbers
<1>4. ASSUME InWindow(f) PROVE \A i \in 1 .. n : i <= n - recs[f].failures => s[i] <= recs[f].start
  BY <1>1, <1>4 DEF Watched
<1>5. ASSUME InWindow(f), recs[f].until = 0
      PROVE  \A i \in 1 .. n : i <= n - recs[f].failures - (MaxFailures - 1) => s[i] + Least <= recs[f].start
  BY <1>1, <1>5 DEF Watched, AllButFew
<1>6. ASSUME InWindow(f), recs[f].until # 0, ~Locked(f), NEW i \in 1 .. n, i <= n - recs[f].failures
      PROVE  s[i] + Least <= now
  <2>1. f \in DOMAIN recs
    BY <1>6 DEF InWindow
  <2>2. recs[f].until = recs[f].start + Lock /\ recs[f].until <= now
    BY <1>1, <1>6, <2>1, RecordNumbers DEF Terms, Locked
  <2>3. s[i] <= recs[f].start /\ s[i] \in Nat /\ recs[f].start \in Nat
    BY <1>1, <1>4, <1>6, <2>1, RecordNumbers
  <2>4. now \in Nat /\ Least \in Nat /\ Lock \in Nat /\ Least <= Lock
    BY <1>1, LimiterNumbers
  <2> HIDE DEF s
  <2> QED
    BY <2>2, <2>3, <2>4
<1> QED
  BY <1>2, <1>3, <1>4, <1>5, <1>6

(* The last guess of twice the limit comes late enough. *)
LEMMA GuessInTime ==
    ASSUME TypeOK, Terms, NEW f \in Key, Watched(f), ~Locked(f),
           NEW i \in 1 .. Len(guesses[f]), i + 2 * MaxFailures - 1 = Len(guesses[f]) + 1
    PROVE  guesses[f][i] + Least <= now
<1> DEFINE s == guesses[f]
           n == Len(s)
<1>1. n \in Nat /\ now \in Nat /\ s[i] \in Nat /\ MaxFailures \in Nat \ {0} /\ Least \in Nat
  BY LimiterNumbers DEF TypeOK
<1>4. i \in 1 .. n /\ i + 2 * MaxFailures - 1 = n + 1
  OBVIOUS
<1>2. CASE ~InWindow(f)
  <2>1. i <= n - (MaxFailures - 1)
    <3> HIDE DEF s, n
    <3> QED
      BY <1>1, <1>4
  <2> QED
    BY <1>2, <2>1, FoundByFailure
<1>3. CASE InWindow(f)
  <2>1. f \in DOMAIN recs
    BY <1>3 DEF InWindow
  <2>2. /\ recs[f].failures \in Nat /\ recs[f].failures < MaxFailures
        /\ recs[f].start \in Nat /\ recs[f].start <= now
    BY <2>1, RecordNumbers DEF Terms
  <2>3. i <= n - recs[f].failures - (MaxFailures - 1) /\ i <= n - recs[f].failures
    <3> DEFINE few == recs[f].failures
    <3>1. few \in Nat /\ few < MaxFailures
      BY <2>2
    <3>2. i <= n - few - (MaxFailures - 1) /\ i <= n - few
      <4> HIDE DEF s, n, few
      <4> QED
        BY <1>1, <1>4, <3>1
    <3> QED
      BY <3>2
  <2>4. CASE recs[f].until = 0
    <3>1. s[i] + Least <= recs[f].start
      BY <1>3, <2>3, <2>4, FoundByFailure
    <3> QED
      BY <1>1, <2>2, <3>1
  <2>5. CASE recs[f].until # 0
    BY <1>3, <2>3, <2>5, FoundByFailure
  <2> QED
    BY <2>4, <2>5
<1> QED
  BY <1>2, <1>3

(* The guesses of a key that failed: one more, or none if it is locked.      *)
LEMMA GuessBounded ==
    ASSUME TypeOK, Terms, NEW f \in Key, Failed(f), Watched(f), Bounded(guesses[f])
    PROVE  Bounded(guesses[f])'
<1> DEFINE s == guesses[f]
           n == Len(s)
           t == Append(s, now)
<1>1. /\ s \in Seq(0 .. MaxTime) /\ now \in 0 .. MaxTime
      /\ (Locked(f) /\ guesses'[f] = s) \/ (~Locked(f) /\ guesses'[f] = t)
  BY FailureNoted DEF TypeOK
<1>2. /\ n \in Nat /\ DOMAIN s = 1 .. n
      /\ Len(t) = n + 1 /\ DOMAIN t = 1 .. n + 1 /\ t[n + 1] = now
      /\ \A i \in 1 .. n : t[i] = s[i]
  BY <1>1, LastOneIn
<1>3. MaxFailures \in Nat \ {0}
  BY LimiterNumbers
<1> HIDE DEF t, n
<1>4. ASSUME ~Locked(f) PROVE Bounded(t)
  <2> SUFFICES ASSUME NEW i \in 1 .. n + 1, i + 2 * MaxFailures - 1 \in 1 .. n + 1
               PROVE  t[i] + Least <= t[i + 2 * MaxFailures - 1]
    BY <1>2 DEF Bounded
  <2>1. i \in 1 .. n
    BY <1>2, <1>3
  <2>2. CASE i + 2 * MaxFailures - 1 = n + 1
    <3>1. s[i] + Least <= now
      BY <1>4, <2>1, <2>2, GuessInTime DEF n
    <3> QED
      BY <1>2, <2>1, <2>2, <3>1
  <2>3. CASE i + 2 * MaxFailures - 1 \in 1 .. n
    <3>1. s[i] + Least <= s[i + 2 * MaxFailures - 1]
      BY <1>2, <2>1, <2>3 DEF Bounded
    <3> QED
      BY <1>2, <2>1, <2>3, <3>1
  <2> QED
    BY <1>2, <1>3, <2>2, <2>3
<1> QED
  BY <1>1, <1>4 DEF Bounded

(* The record after a failure counts the guesses since its start. *)
LEMMA FailureWatched ==
    ASSUME TypeOK, Terms, NEW f \in Key, Failed(f), Watched(f)
    PROVE  Watched(f)'
<1> DEFINE s == guesses[f]
           n == Len(s)
           t == guesses'[f]
           m == Len(t)
           q == recs'[f]
<1>1. /\ s \in Seq(0 .. MaxTime) /\ now \in 0 .. MaxTime /\ now \in Nat /\ now' = now
      /\ t = s \/ (~Locked(f) /\ t = Append(s, now))
  <2>1. s \in Seq(0 .. MaxTime) /\ now \in 0 .. MaxTime /\ now \in Nat
    BY LimiterNumbers DEF TypeOK
  <2>2. now' = now
    BY DEF Failed
  <2> QED
    BY <2>1, <2>2, FailureNoted
<1>2. /\ n \in Nat /\ m \in {n, n + 1} /\ DOMAIN s = 1 .. n /\ DOMAIN t = 1 .. m
      /\ \A i \in 1 .. n : t[i] = s[i] /\ s[i] \in Nat
      /\ \A i \in 1 .. m : i <= n \/ t[i] = now
  BY <1>1, LastOneIn
<1>3. Window \in Nat \ {0} /\ MaxFailures \in Nat \ {0} /\ Least \in Nat
  BY LimiterNumbers
<1>4. \A i \in 1 .. n : s[i] <= now
  BY FoundByFailure
<1> DEFINE old == recs[f]
<1>5. InWindow(f) =>
        /\ f \in DOMAIN recs /\ old.failures \in Nat /\ old.failures < MaxFailures /\ old.start \in Nat
        /\ \A i \in 1 .. n : i <= n - old.failures => s[i] <= old.start
        /\ old.until = 0 =>
             \A i \in 1 .. n : i <= n - old.failures - (MaxFailures - 1) => s[i] + Least <= old.start
  BY FoundByFailure, RecordNumbers DEF InWindow
<1>6. ~InWindow(f) => \A i \in 1 .. n : i <= n - (MaxFailures - 1) => s[i] + Least <= now
  BY FoundByFailure
<1>7. f \in DOMAIN recs' /\ q.start \in Nat /\ q.start <= now
  BY FailedRecord
<1>8. \/ q.failures = 0 /\ q.start = now /\ q.until = now + Lock
      \/ /\ InWindow(f) /\ old.failures + 1 < MaxFailures
         /\ q.failures = old.failures + 1 /\ q.start = old.start /\ q.until = old.until
      \/ ~InWindow(f) /\ q.failures = 1 /\ q.start = now /\ q.until = 0
  BY FailedRecord
<1>9. q.until # now + Lock \/ q.until # 0
  BY <1>1, LimiterNumbers
<1> HIDE DEF s, n, t, m, q, old
<1>10. \A i \in 1 .. m : t[i] <= now
  BY <1>1, <1>2, <1>4
<1>11. \A i \in 1 .. m : i <= m - q.failures => t[i] <= q.start
  <2>1. CASE q.start = now
    BY <1>10, <2>1
  <2>2. CASE /\ InWindow(f) /\ old.failures + 1 < MaxFailures
             /\ q.failures = old.failures + 1 /\ q.start = old.start
    <3> SUFFICES ASSUME NEW i \in 1 .. m, i <= m - q.failures PROVE t[i] <= q.start
      OBVIOUS
    <3>1. i \in 1 .. n /\ i <= n - old.failures
      BY <1>2, <1>5, <2>2
    <3> QED
      BY <1>2, <1>5, <2>2, <3>1
  <2> QED
    BY <1>8, <2>1, <2>2
<1>12. ASSUME q.until = 0, NEW i \in 1 .. m, i <= m - q.failures - (MaxFailures - 1)
       PROVE  t[i] + Least <= q.start
  <2>1. CASE /\ InWindow(f) /\ q.failures = old.failures + 1 /\ q.start = old.start /\ q.until = old.until
    <3> DEFINE few == old.failures
    <3>1. few \in Nat /\ q.failures = few + 1
      BY <1>5, <2>1
    <3>2. i \in 1 .. n /\ i <= n - few - (MaxFailures - 1)
      <4>1. i \in 1 .. m /\ i <= m - (few + 1) - (MaxFailures - 1) /\ n \in Nat /\ m \in {n, n + 1}
        BY <1>2, <1>12, <3>1
      <4> HIDE DEF few
      <4> QED
        BY <1>3, <3>1, <4>1
    <3>3. s[i] + Least <= old.start
      BY <1>5, <1>12, <2>1, <3>2
    <3> QED
      BY <1>2, <2>1, <3>2, <3>3
  <2>2. CASE ~InWindow(f) /\ q.failures = 1 /\ q.start = now
    <3>1. i \in 1 .. n /\ i <= n - (MaxFailures - 1)
      BY <1>2, <1>3, <1>12, <2>2
    <3> QED
      BY <1>2, <1>6, <2>2, <3>1
  <2> QED
    BY <1>8, <1>9, <1>12, <2>1, <2>2
<1>13. InWindow(f)'
  <2>1. CASE q.start = now
    BY <1>1, <1>3, <1>7, <2>1 DEF InWindow, q
  <2>2. CASE InWindow(f) /\ q.start = old.start
    BY <1>1, <1>7, <2>2 DEF InWindow, q, old
  <2> QED
    BY <1>8, <2>1, <2>2
<1>14. Watched(f)' <=>
         /\ \A i \in DOMAIN t : t[i] <= now
         /\ \A i \in DOMAIN t : i <= m - q.failures => t[i] <= q.start
         /\ q.until = 0 => AllButFew(t, q.failures, q.start)
  BY <1>1, <1>13 DEF Watched, AllButFew, t, m, q
<1>15. q.until = 0 => AllButFew(t, q.failures, q.start)
  BY <1>2, <1>12 DEF AllButFew, m
<1> QED
  BY <1>2, <1>10, <1>11, <1>14, <1>15

(* The failures of another key do not touch it, unless its record goes.      *)
LEMMA OthersWatched ==
    ASSUME TypeOK, Terms, NEW f \in Key, Failed(f), NEW k \in Key \ evicted', k # f,
           Watched(k), Bounded(guesses[k])
    PROVE  Watched(k)' /\ Bounded(guesses[k])'
<1>1. now' = now /\ guesses'[k] = guesses[k]
  BY FailureNoted DEF Failed
<1>2. CASE k \in DOMAIN recs'
  <2>1. k \in DOMAIN recs /\ recs'[k] = recs[k]
    BY <1>2, FailureRecords
  <2> QED
    BY <1>1, <1>2, <2>1 DEF Watched, Bounded, InWindow, AllButFew
<1>3. CASE k \notin DOMAIN recs'
  <2>1. ~InWindow(k)
    <3>1. k \in DOMAIN recs => Expired(k)
      BY <1>3, FailureRecords
    <3> QED
      BY <3>1, RecordNumbers, LimiterNumbers DEF Expired, InWindow
  <2> QED
    BY <1>1, <1>3, <2>1 DEF Watched, Bounded, InWindow, AllButFew
<1> QED
  BY <1>2, <1>3

(* When the window of a record passes, what it counted stays behind.         *)
LEMMA TickWatched ==
    ASSUME TypeOK, Terms, Tick, NEW k \in Key, Watched(k), Bounded(guesses[k])
    PROVE  Watched(k)' /\ Bounded(guesses[k])'
<1> DEFINE s == guesses[k]
           n == Len(s)
<1>1. /\ n \in Nat /\ DOMAIN s = 1 .. n /\ \A i \in 1 .. n : s[i] \in Nat
      /\ now \in Nat /\ now' = now + 1 /\ guesses' = guesses /\ recs' = recs
  <2>1. s \in Seq(0 .. MaxTime) /\ now \in 0 .. MaxTime /\ MaxTime \in Nat
    BY LimiterNumbers DEF TypeOK
  <2>2. now' = now + 1 /\ guesses' = guesses /\ recs' = recs
    BY DEF Tick
  <2> HIDE DEF s
  <2> QED
    BY <2>1, <2>2
<1>2. Window \in Nat \ {0} /\ MaxFailures \in Nat \ {0}
  BY LimiterNumbers
<1>3. \A i \in DOMAIN s : s[i] <= now'
  BY <1>1 DEF Watched
<1>4. ASSUME ~InWindow(k)' PROVE AllButFew(s, 0, now')
  <2>1. CASE ~InWindow(k)
    <3>1. AllButFew(s, 0, now)
      BY <2>1 DEF Watched
    <3> QED
      BY <1>1, <1>2, <3>1, LimiterNumbers DEF AllButFew
  <2>2. CASE InWindow(k)
    <3>1. k \in DOMAIN recs /\ recs[k].start \in Nat /\ recs[k].failures \in Nat /\ recs[k].failures < MaxFailures
      BY <2>2, RecordNumbers DEF InWindow
    <3>2. recs[k].start + Window <= now'
      BY <1>1, <1>2, <1>4, <3>1 DEF InWindow
    <3>3. \A i \in 1 .. n : i <= n - recs[k].failures => s[i] <= recs[k].start
      BY <2>2, FoundByFailure
    <3>4. ASSUME NEW i \in 1 .. n, i <= n - 0 - (MaxFailures - 1) PROVE s[i] + Least <= now'
      <4>1. i <= n - recs[k].failures
        BY <1>1, <1>2, <3>1, <3>4
      <4>2. s[i] <= recs[k].start /\ s[i] \in Nat
        BY <1>1, <3>3, <4>1
      <4> QED
        BY <1>1, <1>2, <3>1, <3>2, <4>2, LimiterNumbers
    <3> QED
      BY <1>1, <3>4 DEF AllButFew
  <2> QED
    BY <2>1, <2>2
<1>5. ASSUME InWindow(k)' PROVE InWindow(k)
  BY <1>1, <1>2, <1>5, RecordNumbers DEF InWindow
<1>6. Watched(k)'
  BY <1>1, <1>3, <1>4, <1>5 DEF Watched, AllButFew
<1> QED
  BY <1>1, <1>6 DEF Bounded

(* What a step of the relay does to its limiter. *)
LEMMA LimiterStep ==
    ASSUME LimiterInv, AdminStep
    PROVE  \/ UNCHANGED limiterVars
           \/ Tick
           \/ /\ UNCHANGED <<now, promised, tried, guesses>>
              /\ recs' = [k \in {} |-> 0] /\ evicted' = evicted \cup DOMAIN recs
           \/ \E f \in Key : Failed(f)
<1>1. CASE Clock
  BY <1>1 DEF Clock
<1>2. CASE Start
  BY <1>2 DEF Start
<1>3. CASE Stop \/ Collect \/ LeavePage \/ CliLoads \/ CliSaves
  BY <1>3 DEF Stop, Collect, LeavePage, CliLoads, CliSaves
<1>4. ASSUME NEW s \in Slots, Served(s) PROVE UNCHANGED limiterVars \/ Failed(Home)
  BY <1>4 DEF Served, LoginArrives, LoginHashes, LoginDone, OverviewArrives, AdminArrives, IssueMaster,
     RenewMaster, RevokeMaster, SetAccess, MakeToken, SubArrives, IssueSub, RenewSub, RevokeSub,
     PurgeSub, Refused
<1>5. ASSUME NEW s \in Slots, OpenPage(s) \/ Login(s) \/ Click(s) \/ PluginAsks(s) \/ Answer(s)
      PROVE  UNCHANGED limiterVars
  BY <1>5 DEF OpenPage, Login, Click, PluginAsks, Answer
<1>6. CASE UNCHANGED <<limiterVars, adminVars>>
  BY <1>6
<1> QED
  BY <1>1, <1>2, <1>3, <1>4, <1>5, <1>6, LimiterNumbers DEF AdminStep, AdminNext

LEMMA LimiterInvHolds == AdminSpec => []LimiterInv
<1>1. AdminInit => LimiterInv
  <2> SUFFICES ASSUME AdminInit PROVE LimiterInv
    OBVIOUS
  <2>1. TypeOK
    BY LimiterAssumption DEF AdminInit, Init, TypeOK
  <2>2. Terms /\ Promises
    BY DEF AdminInit, Init, Terms, Promises
  <2>3. \A k \in Key : Watched(k) /\ Bounded(guesses[k])
    BY DEF AdminInit, Init, Watched, Bounded, AllButFew, InWindow
  <2> QED
    BY <2>1, <2>2, <2>3 DEF LimiterInv
<1>2. LimiterInv /\ AdminStep => LimiterInv'
  <2> SUFFICES ASSUME LimiterInv, AdminStep PROVE LimiterInv'
    OBVIOUS
  <2>1. TypeOK /\ Terms /\ Promises /\ \A k \in Key \ evicted : Watched(k) /\ Bounded(guesses[k])
    BY DEF LimiterInv
  <2>2. CASE UNCHANGED limiterVars
    <3>1. TypeOK' /\ Terms' /\ Promises'
      BY <2>1, <2>2 DEF limiterVars, vars, TypeOK, Terms, Promises
    <3>2. \A k \in Key : (Watched(k)' <=> Watched(k)) /\ (Bounded(guesses[k])' <=> Bounded(guesses[k]))
      BY <2>2 DEF limiterVars, vars, Watched, Bounded, AllButFew, InWindow
    <3>3. evicted' = evicted
      BY <2>2 DEF limiterVars, vars
    <3> QED
      BY <2>1, <3>1, <3>2, <3>3 DEF LimiterInv
  <2>3. CASE Tick
    <3>1. /\ now \in Nat /\ now' = now + 1 /\ now' \in 0 .. MaxTime
          /\ UNCHANGED <<recs, promised, tried, evicted, guesses>>
      BY <2>1, <2>3, LimiterNumbers DEF Tick, TypeOK
    <3>2. TypeOK'
      BY <2>1, <3>1 DEF TypeOK
    <3>3. Terms'
      BY <2>1, <3>1, RecordNumbers DEF Terms
    <3>4. Promises'
      <4>1. promised \in [Key -> Nat] /\ \A k \in Key : tried[k] \in Nat
        BY <2>1, LimiterNumbers DEF TypeOK
      <4> QED
        BY <2>1, <3>1, <4>1 DEF Promises
    <3>5. \A k \in Key \ evicted : Watched(k)' /\ Bounded(guesses[k])'
      BY <2>1, <2>3, TickWatched
    <3> QED
      BY <3>1, <3>2, <3>3, <3>4, <3>5 DEF LimiterInv
  <2>4. CASE /\ UNCHANGED <<now, promised, tried, guesses>>
             /\ recs' = [k \in {} |-> 0] /\ evicted' = evicted \cup DOMAIN recs
    <3>1. TypeOK'
      BY <2>1, <2>4 DEF TypeOK
    <3>2. Terms' /\ Promises'
      BY <2>1, <2>4 DEF Terms, Promises
    <3>3. ASSUME NEW k \in Key \ evicted' PROVE Watched(k)' /\ Bounded(guesses[k])'
      <4>1. k \in Key \ evicted /\ ~InWindow(k) /\ ~InWindow(k)'
        BY <2>4, <3>3 DEF InWindow
      <4> QED
        BY <2>1, <2>4, <4>1 DEF Watched, Bounded, AllButFew
    <3> QED
      BY <3>1, <3>2, <3>3 DEF LimiterInv
  <2>5. ASSUME NEW f \in Key, Failed(f) PROVE LimiterInv'
    <3>1. TypeOK' /\ Terms' /\ Promises'
      BY <2>1, <2>5, FailureTypes, FailureKeepsTerms
    <3>2. ASSUME NEW k \in Key \ evicted' PROVE Watched(k)' /\ Bounded(guesses[k])'
      <4>1. Watched(k) /\ Bounded(guesses[k])
        BY <2>1, <2>5, <3>2, FailureRecords
      <4>2. CASE k = f
        BY <2>1, <2>5, <4>1, <4>2, FailureWatched, GuessBounded
      <4>3. CASE k # f
        BY <2>1, <2>5, <3>2, <4>1, <4>3, OthersWatched
      <4> QED
        BY <4>2, <4>3
    <3> QED
      BY <3>1, <3>2 DEF LimiterInv
  <2> QED
    BY <2>2, <2>3, <2>4, <2>5, LimiterStep
<1> QED
  BY <1>1, <1>2, PTL DEF AdminSpec, AdminStep

(* While the table has room for a key, a lock holds until the key fails when *)
(* a window has passed, or to its end; and twice the limit of failures that  *)
(* find the key unlocked take a term or a window at least (fail): for every  *)
(* number of keys, every limit, window, term and size of the table, whatever *)
(* other keys fail in between and however the key fails while it is locked.  *)
THEOREM LimiterSound == AdminSpec => []LocksAreSound
<1>1. LimiterInv => LocksAreSound
  <2> SUFFICES ASSUME LimiterInv PROVE LocksAreSound
    OBVIOUS
  <2>1. LocksHold
    <3> SUFFICES ASSUME NEW k \in Key \ evicted, promised[k] > now,
                        k \in DOMAIN recs, recs[k].until = promised[k]
                 PROVE  Locked(k)
      BY DEF LocksHold, LimiterInv, Promises
    <3> QED
      BY DEF Locked
  <2>2. GuessesBounded
    BY DEF LimiterInv, Bounded, GuessesBounded
  <2> QED
    BY <2>1, <2>2 DEF LocksAreSound
<1> QED
  BY <1>1, LimiterInvHolds, PTL
=============================================================================
