------------------------- MODULE RelayServerProofs -------------------------
(***************************************************************************)
(* Proofs about one relay channel (module RelayServer), for every number   *)
(* of control sockets, clients and sub-codes and every capacity.           *)
(***************************************************************************)
EXTENDS RelayServer, FiniteSetTheorems, TLAPS

-----------------------------------------------------------------------------
(* Lemmas about the operators the actions are built from *)

LEMMA ClosingType ==
    ASSUME NEW S, TypeOK
    PROVE  Closing(sock, S) \in [Ctl -> {"idle", "open", "closing", "closed"}]
BY DEF TypeOK, Closing

LEMMA DroppedType ==
    ASSUME NEW S, TypeOK
    PROVE  Dropped(S) \in [Joiner -> {"idle", "pending", "piped", "closed"}]
BY DEF TypeOK, Dropped

LEMMA SweepClientsType ==
    ASSUME TypeOK, SweepClients
    PROVE  /\ join' \in [Joiner -> {"idle", "pending", "piped", "closed"}]
           /\ beat' \in [Joiner -> SUBSET Sides]
BY DroppedType DEF SweepClients, TypeOK, Sides

LEMMA ReleaseType ==
    ASSUME ReleaseControl
    PROVE  /\ control' = None
           /\ alive' \in BOOLEAN
           /\ ~alive' /\ unanswered' = {}
BY Zenon DEF ReleaseControl

LEMMA KillChannelType ==
    ASSUME TypeOK, KillChannel
    PROVE  /\ sock' \in [Ctl -> {"idle", "open", "closing", "closed"}]
           /\ control' \in Holder
           /\ alive' \in BOOLEAN
           /\ unanswered' \subseteq Ctl \cup {Heartbeat}
           /\ join' \in [Joiner -> {"idle", "pending", "piped", "closed"}]
           /\ control' = None => ~alive' /\ unanswered' = {}
BY ClosingType, DroppedType, ReleaseType DEF KillChannel, ReapChannel, Holder

LEMMA AcceptType ==
    ASSUME TypeOK, NEW c \in Ctl, AcceptRegister(c)
    PROVE  /\ control' \in Holder
           /\ alive' \in BOOLEAN
           /\ unanswered' \subseteq Ctl \cup {Heartbeat}
           /\ registered' \subseteq Ctl
           /\ control' # None
BY RelayAssumption DEF AcceptRegister, TypeOK, Holder

-----------------------------------------------------------------------------
(* Every variable keeps its type, and no flag of a released control record  *)
(* is kept (sweep and probe timers read it).                                *)
THEOREM TypeCorrect == Spec => []TypeOK
<1>1. Init => TypeOK
  <2> SUFFICES ASSUME Init PROVE TypeOK
    OBVIOUS
  <2>1. alive \in BOOLEAN /\ (control = None => ~alive /\ unanswered = {})
    BY Zenon DEF Init
  <2> QED
    BY <2>1 DEF Init, TypeOK, Holder
<1>2. TypeOK /\ [Next]_vars => TypeOK'
  <2> SUFFICES ASSUME TypeOK, [Next]_vars PROVE TypeOK'
    OBVIOUS
  <2>1. ASSUME NEW c \in Ctl, NEW kind \in Kinds, Register(c, kind) PROVE TypeOK'
    <3>1. sock' \in [Ctl -> {"idle", "open", "closing", "closed"}]
      BY <2>1, ClosingType DEF Register, TypeOK
    <3>2. join' \in [Joiner -> {"idle", "pending", "piped", "closed"}]
      BY <2>1, DroppedType DEF Register, ReapChannel, TypeOK
    <3>3. probe' \in [Ctl -> Holder]
      BY <2>1 DEF Register, TypeOK, ControlOpen
    <3>4. /\ control' \in Holder
          /\ alive' \in BOOLEAN
          /\ unanswered' \subseteq Ctl \cup {Heartbeat}
          /\ registered' \subseteq Ctl
          /\ control' = None => ~alive' /\ unanswered' = {}
      BY <2>1, AcceptType DEF Register, TypeOK, ControlOpen
    <3> QED
      BY <2>1, <3>1, <3>2, <3>3, <3>4 DEF Register, codeVars, TypeOK
  <2>2. ASSUME NEW c \in Ctl, RegisterRefused(c) PROVE TypeOK'
    BY <2>2 DEF RegisterRefused, clientVars, codeVars, TypeOK
  <2>3. ASSUME NEW c \in Ctl, ProbeTimer(c) PROVE TypeOK'
    <3>1. sock' \in [Ctl -> {"idle", "open", "closing", "closed"}]
      BY <2>3, ClosingType DEF ProbeTimer, ZombieTakeover, TypeOK
    <3>2. join' \in [Joiner -> {"idle", "pending", "piped", "closed"}]
      BY <2>3, DroppedType DEF ProbeTimer, ZombieTakeover, ReapChannel, TypeOK
    <3>3. probe' \in [Ctl -> Holder]
      BY <2>3 DEF ProbeTimer, TypeOK, Holder
    <3>4. /\ control' \in Holder
          /\ alive' \in BOOLEAN
          /\ unanswered' \subseteq Ctl \cup {Heartbeat}
          /\ registered' \subseteq Ctl
          /\ control' = None => ~alive' /\ unanswered' = {}
      BY <2>3, AcceptType DEF ProbeTimer, ZombieTakeover, TypeOK
    <3> QED
      BY <2>3, <3>1, <3>2, <3>3, <3>4 DEF ProbeTimer, codeVars, TypeOK
  <2>4. ASSUME NEW origin \in Ctl \cup {Heartbeat}, ControlPong(origin) PROVE TypeOK'
    BY <2>4 DEF ControlPong, clientVars, codeVars, TypeOK
  <2>5. ASSUME NEW c \in Ctl, ControlEnds(c) PROVE TypeOK'
    BY <2>5, ClosingType DEF ControlEnds, clientVars, codeVars, TypeOK
  <2>6. ASSUME NEW c \in Ctl, ControlClosed(c) PROVE TypeOK'
    <3>1. join' \in [Joiner -> {"idle", "pending", "piped", "closed"}]
      BY <2>6, DroppedType DEF ControlClosed, ReapChannel, TypeOK
    <3>2. /\ control' \in Holder
          /\ alive' \in BOOLEAN
          /\ unanswered' \subseteq Ctl \cup {Heartbeat}
          /\ control' = None => ~alive' /\ unanswered' = {}
      BY <2>6, ReleaseType DEF ControlClosed, TypeOK, Holder
    <3> QED
      BY <2>6, <3>1, <3>2 DEF ControlClosed, codeVars, TypeOK
  <2>7. ASSUME NEW c \in Ctl, ControlVanishes(c) PROVE TypeOK'
    BY <2>7 DEF ControlVanishes, clientVars, codeVars, TypeOK
  <2>8. ASSUME NEW j \in Joiner, NEW s \in SubCode, Join(j, s) PROVE TypeOK'
    BY <2>8 DEF Join, ctlVars, codeVars, TypeOK
  <2>9. ASSUME NEW j \in Joiner, DialPipe(j) PROVE TypeOK'
    BY <2>9 DEF DialPipe, ctlVars, codeVars, TypeOK
  <2>10. ASSUME NEW j \in Joiner, PendingTimeout(j) \/ ClientEnds(j) PROVE TypeOK'
    BY <2>10, DroppedType DEF PendingTimeout, ClientEnds, ctlVars, codeVars, TypeOK
  <2>11. ASSUME NEW j \in Joiner, NEW side \in Sides, ClientPong(j, side) PROVE TypeOK'
    BY <2>11 DEF ClientPong, ctlVars, codeVars, TypeOK
  <2>12. ASSUME NEW j \in Joiner, NEW side \in Sides, ClientVanishes(j, side) PROVE TypeOK'
    BY <2>12 DEF ClientVanishes, ctlVars, codeVars, TypeOK
  <2>13. ASSUME NEW s \in SubCode, IssueSubCode(s) \/ RenewSubCode(s) \/ SubCodeExpires(s)
         PROVE TypeOK'
    BY <2>13 DEF IssueSubCode, RenewSubCode, SubCodeExpires, WaitingUnder, Pending,
                 ctlVars, clientVars, TypeOK
  <2>14. ASSUME NEW s \in SubCode, RevokeSubCode(s) \/ PurgeSubCode(s) PROVE TypeOK'
    BY <2>14, DroppedType DEF RevokeSubCode, PurgeSubCode, WaitingUnder, Pending, ctlVars, TypeOK
  <2>15. CASE RevokeMaster
    BY <2>15, KillChannelType DEF RevokeMaster, TypeOK
  <2>16. CASE MasterExpires \/ RenewMaster
    BY <2>16 DEF MasterExpires, RenewMaster, ctlVars, clientVars, TypeOK
  <2>17. CASE Sweep
    <3>1. sub' \in [SubCode -> {"new", "active", "revoked", "expired", "removed"}]
          /\ missed' \subseteq Joiner
      BY <2>17 DEF Sweep, GcSubCodes, WaitingUnder, PipedUnder, Pending, Piped, TypeOK
    <3>2. /\ sock' \in [Ctl -> {"idle", "open", "closing", "closed"}]
          /\ control' \in Holder
          /\ alive' \in BOOLEAN
          /\ unanswered' \subseteq Ctl \cup {Heartbeat}
          /\ join' \in [Joiner -> {"idle", "pending", "piped", "closed"}]
          /\ beat' \in [Joiner -> SUBSET Sides]
          /\ control' = None => ~alive' /\ unanswered' = {}
      <4>1. CASE MasterLapsed /\ KillChannel /\ UNCHANGED beat
        BY <4>1, KillChannelType DEF TypeOK
      <4>2. CASE /\ sock' = Closing(sock, {control})
                 /\ ReleaseControl
                 /\ ReapChannel
                 /\ UNCHANGED beat
        BY <4>2, ClosingType, ReleaseType, DroppedType DEF ReapChannel, TypeOK, Holder
      <4>3. CASE /\ control # None
                 /\ PingControl
                 /\ SweepClients
                 /\ UNCHANGED <<sock, control>>
        BY <4>3, SweepClientsType DEF PingControl, TypeOK
      <4>4. CASE SweepClients /\ UNCHANGED <<sock, control, alive, unanswered>>
        BY <4>4, SweepClientsType DEF TypeOK
      <4> QED
        BY <2>17, <4>1, <4>2, <4>3, <4>4 DEF Sweep
    <3> QED
      BY <2>17, <3>1, <3>2 DEF Sweep, TypeOK
  <2>18. CASE Restart
    BY <2>18, ReleaseType, DroppedType DEF Restart, ReapChannel, TypeOK, Holder
  <2>19. CASE UNCHANGED vars
    BY <2>19 DEF vars, ctlVars, clientVars, codeVars, TypeOK
  <2> QED
    BY <2>1, <2>2, <2>3, <2>4, <2>5, <2>6, <2>7, <2>8, <2>9, <2>10, <2>11, <2>12, <2>13,
       <2>14, <2>15, <2>16, <2>17, <2>18, <2>19 DEF Next
<1> QED
  BY <1>1, <1>2, PTL DEF Spec

-----------------------------------------------------------------------------
(* One controller *)

(* A socket that was told "registered" has left "idle" and is open only as  *)
(* the current control.                                                     *)
ControlInv ==
    /\ OneLiveController
    /\ \A c \in registered : sock[c] # "idle"

LEMMA ClosingSock ==
    ASSUME TypeOK, NEW S, NEW c \in Ctl
    PROVE  /\ Closing(sock, S)[c] = "open" => sock[c] = "open" /\ c \notin S
           /\ Closing(sock, S)[c] = "idle" => sock[c] = "idle"
BY DEF TypeOK, Closing

LEMMA RegisteredType ==
    ASSUME TypeOK, [Next]_vars
    PROVE  registered' \subseteq Ctl
BY DEF TypeOK, Next, Register, AcceptRegister, RegisterRefused, ProbeTimer, ZombieTakeover,
       ControlPong, ControlEnds, ControlClosed, ControlVanishes, Join, DialPipe,
       PendingTimeout, ClientEnds, ClientPong, ClientVanishes, IssueSubCode, RevokeSubCode,
       PurgeSubCode, RenewSubCode, SubCodeExpires, RevokeMaster, MasterExpires, RenewMaster,
       Sweep, Restart, ctlVars, vars

(* Whatever path a take-over takes (last wins, force, zombie, a holder that  *)
(* died during the probe), no two connections that were told "registered"   *)
(* are open at once.                                                        *)
THEOREM OneController == Spec => []OneLiveController
<1>1. Init => ControlInv
  BY DEF Init, ControlInv, OneLiveController
<1>2. TypeOK /\ ControlInv /\ [Next]_vars => ControlInv'
  <2> SUFFICES ASSUME TypeOK, ControlInv, [Next]_vars,
                      NEW d \in Ctl, d \in registered'
               PROVE  /\ sock'[d] = "open" => d = control'
                      /\ sock'[d] # "idle"
    BY RegisteredType DEF ControlInv, OneLiveController
  <2>0. /\ d \in registered => sock[d] # "idle"
        /\ d \in registered /\ sock[d] = "open" => d = control
    BY DEF ControlInv, OneLiveController
  <2>1. ASSUME NEW c \in Ctl, NEW kind \in Kinds, Register(c, kind)
        PROVE  (sock'[d] = "open" => d = control') /\ sock'[d] # "idle"
    <3>1. c \notin registered
      BY <2>1 DEF Register, ControlInv
    <3>2. CASE ~ControlOpen /\ sock' = [sock EXCEPT ![c] = "open"] /\ AcceptRegister(c)
      BY <2>0, <3>1, <3>2, RelayAssumption DEF AcceptRegister, ControlOpen, TypeOK
    <3>3. CASE /\ sock' = [Closing(sock, {control}) EXCEPT ![c] = "open"]
               /\ AcceptRegister(c)
      <4>1. sock'[d] = IF d = c THEN "open" ELSE Closing(sock, {control})[d]
        BY <3>3, ClosingType
      <4>2. control' = c /\ registered' = registered \cup {c}
        BY <3>3 DEF AcceptRegister
      <4>3. d # c => sock'[d] # "open" /\ sock'[d] # "idle"
        BY <2>0, <4>1, <4>2, ClosingSock
      <4> QED
        BY <4>1, <4>2, <4>3
    <3>4. CASE sock' = [sock EXCEPT ![c] = "open"] /\ UNCHANGED <<control, registered>>
      BY <2>0, <3>1, <3>4 DEF TypeOK
    <3> QED
      BY <2>1, <3>2, <3>3, <3>4 DEF Register
  <2>2. ASSUME NEW c \in Ctl, RegisterRefused(c)
        PROVE  (sock'[d] = "open" => d = control') /\ sock'[d] # "idle"
    BY <2>0, <2>2 DEF RegisterRefused, TypeOK
  <2>3. ASSUME NEW c \in Ctl, ProbeTimer(c)
        PROVE  (sock'[d] = "open" => d = control') /\ sock'[d] # "idle"
    <3>1. CASE sock[c] = "open" /\ control = None /\ AcceptRegister(c) /\ UNCHANGED sock
      BY <2>0, <3>1, RelayAssumption DEF AcceptRegister
    <3>2. CASE control = probe[c] /\ sock[c] = "open" /\ ZombieTakeover(c, probe[c])
      <4>1. sock' = Closing(sock, {control}) /\ control' = c /\ registered' = registered \cup {c}
        BY <3>2 DEF ZombieTakeover, AcceptRegister
      <4>2. d # c => sock'[d] # "open" /\ sock'[d] # "idle"
        BY <2>0, <4>1, ClosingSock
      <4>3. d = c => sock'[d] # "idle"
        BY <3>2, <4>1, ClosingSock
      <4> QED
        BY <4>1, <4>2, <4>3
    <3>3. CASE UNCHANGED <<control, registered>> /\ (sock' = sock \/ sock' = Closing(sock, {c}))
      BY <2>0, <3>3, ClosingSock
    <3> QED
      BY <2>3, <3>1, <3>2, <3>3 DEF ProbeTimer
  <2>4. ASSUME NEW c \in Ctl, ControlEnds(c)
        PROVE  (sock'[d] = "open" => d = control') /\ sock'[d] # "idle"
    BY <2>0, <2>4, ClosingSock DEF ControlEnds
  <2>5. ASSUME NEW c \in Ctl, ControlClosed(c)
        PROVE  (sock'[d] = "open" => d = control') /\ sock'[d] # "idle"
    BY <2>0, <2>5 DEF ControlClosed, TypeOK
  <2>6. CASE RevokeMaster
    BY <2>0, <2>6, ClosingSock DEF RevokeMaster, KillChannel, ReleaseControl
  <2>7. CASE Sweep
    BY <2>0, <2>7, ClosingSock DEF Sweep, KillChannel, ReleaseControl
  <2>8. CASE Restart
    BY <2>0, <2>8 DEF Restart, TypeOK
  <2>9. CASE UNCHANGED <<sock, control, registered>>
    BY <2>0, <2>9
  <2> QED
    BY <2>1, <2>2, <2>3, <2>4, <2>5, <2>6, <2>7, <2>8, <2>9
       DEF Next, ControlPong, ControlVanishes, Join, DialPipe, PendingTimeout, ClientEnds,
           ClientPong, ClientVanishes, IssueSubCode, RevokeSubCode, PurgeSubCode,
           RenewSubCode, SubCodeExpires, MasterExpires, RenewMaster, ctlVars, vars
<1>3. ControlInv => OneLiveController
  BY DEF ControlInv
<1> QED
  BY <1>1, <1>2, <1>3, TypeCorrect, PTL DEF Spec

-----------------------------------------------------------------------------
(* Clients of the channel *)

LEMMA DroppedServed ==
    ASSUME NEW S, join' = Dropped(S)
    PROVE  Served' = Served \ S
BY DEF Dropped, Served, Pending, Piped

LEMMA SweepServed ==
    ASSUME SweepClients
    PROVE  Served' \subseteq Served
BY DroppedServed DEF SweepClients

(* Only a join adds to the clients the channel serves.                      *)
LEMMA ServedGrowsByJoin ==
    ASSUME [Next]_vars, ~(\E j \in Joiner, s \in SubCode : Join(j, s))
    PROVE  Served' \subseteq Served
<1>1. CASE \E S : join' = Dropped(S)
  BY <1>1, DroppedServed
<1>2. CASE UNCHANGED join
  BY <1>2 DEF Served, Pending, Piped
<1>3. ASSUME NEW j \in Joiner, DialPipe(j) PROVE Served' \subseteq Served
  BY <1>3 DEF DialPipe, Served, Pending, Piped
<1>4. CASE Sweep
  BY <1>4, <1>1, SweepServed DEF Sweep, KillChannel, ReapChannel
<1> QED
  BY <1>1, <1>2, <1>3, <1>4
     DEF Next, Register, RegisterRefused, ProbeTimer, ZombieTakeover, ReapChannel, ControlPong,
         ControlEnds, ControlClosed, ControlVanishes, PendingTimeout, ClientEnds, ClientPong,
         ClientVanishes, IssueSubCode, RevokeSubCode, PurgeSubCode, RenewSubCode,
         SubCodeExpires, RevokeMaster, KillChannel, MasterExpires, RenewMaster, Restart,
         clientVars, vars

LEMMA JoinNeedsControl ==
    ASSUME NEW j \in Joiner, NEW s \in SubCode, TypeOK, Join(j, s), Served = {}, control = None
    PROVE  Served' = {}
BY DEF Join, ControlOpen, Served, Pending, Piped, TypeOK

LEMMA PartsFinite == IsFiniteSet(Pending) /\ IsFiniteSet(Piped)
BY FS_Subset, RelayAssumption DEF Pending, Piped

LEMMA ServedFinite == IsFiniteSet(Served)
BY FS_Subset, RelayAssumption DEF Served, Pending, Piped

LEMMA ServedSum == Cardinality(Served) = Cardinality(Piped) + Cardinality(Pending)
<1>1. Piped \cap Pending = {}
  BY DEF Piped, Pending
<1>2. Cardinality(Piped \cap Pending) = 0
  BY <1>1, FS_EmptySet
<1>3. Served = Piped \cup Pending
  BY DEF Served
<1>4. Cardinality(Piped \cup Pending)
        = Cardinality(Piped) + Cardinality(Pending) - Cardinality(Piped \cap Pending)
  BY PartsFinite, FS_Union
<1>5. Cardinality(Piped) \in Nat /\ Cardinality(Pending) \in Nat
  BY PartsFinite, FS_CardinalityType
<1> QED
  BY <1>2, <1>3, <1>4, <1>5

(* A channel without a control has no waiting client and no pipe, on every   *)
(* path that releases the control.                                          *)
THEOREM NoOrphans == Spec => []NoServiceWithoutControl
<1>1. Init => NoServiceWithoutControl
  BY DEF Init, NoServiceWithoutControl, Served, Pending, Piped
<1>2. TypeOK /\ NoServiceWithoutControl /\ [Next]_vars => NoServiceWithoutControl'
  <2> SUFFICES ASSUME TypeOK, NoServiceWithoutControl, [Next]_vars, control' = None
               PROVE  Served' = {}
    BY DEF NoServiceWithoutControl
  <2>1. CASE control = None
    <3>1. Served = {}
      BY <2>1 DEF NoServiceWithoutControl
    <3> QED
      BY <2>1, <3>1, JoinNeedsControl, ServedGrowsByJoin
  <2>2. CASE control # None
    <3>1. ASSUME ReapChannel PROVE Served' = {}
      BY <3>1, DroppedServed DEF ReapChannel
    <3>2. CASE UNCHANGED control
      BY <2>2, <3>2
    <3>3. CASE Restart
      BY <3>1, <3>3 DEF Restart
    <3>4. CASE RevokeMaster
      BY <3>1, <3>4 DEF RevokeMaster, KillChannel
    <3>5. ASSUME NEW c \in Ctl, ControlClosed(c) PROVE Served' = {}
      BY <2>2, <3>1, <3>5 DEF ControlClosed
    <3>6. CASE Sweep
      BY <2>2, <3>1, <3>6 DEF Sweep, KillChannel
    <3>7. ASSUME NEW c \in Ctl, AcceptRegister(c) PROVE FALSE
      BY <3>7, RelayAssumption DEF AcceptRegister
    <3> QED
      BY <3>2, <3>3, <3>4, <3>5, <3>6, <3>7
         DEF Next, Register, RegisterRefused, ProbeTimer, ZombieTakeover, ControlPong,
             ControlEnds, ControlVanishes, Join, DialPipe, PendingTimeout, ClientEnds,
             ClientPong, ClientVanishes, IssueSubCode, RevokeSubCode, PurgeSubCode,
             RenewSubCode, SubCodeExpires, MasterExpires, RenewMaster, ctlVars, vars
  <2> QED
    BY <2>1, <2>2
<1> QED
  BY <1>1, <1>2, TypeCorrect, PTL DEF Spec

(* limits.maxPipesPerChannel bounds waiting clients and pipes together.      *)
THEOREM Capacity == Spec => []WithinCapacity
<1>1. Init => WithinCapacity
  <2> SUFFICES ASSUME Init PROVE Cardinality(Served) <= MaxPipes
    BY DEF WithinCapacity
  <2>1. Served = {}
    BY DEF Init, Served, Pending, Piped
  <2> QED
    BY <2>1, FS_EmptySet, RelayAssumption
<1>2. TypeOK /\ WithinCapacity /\ [Next]_vars => WithinCapacity'
  <2> SUFFICES ASSUME TypeOK, WithinCapacity, [Next]_vars
               PROVE  Cardinality(Served') <= MaxPipes
    BY DEF WithinCapacity
  <2>1. IsFiniteSet(Served) /\ Cardinality(Served) \in Nat /\ Cardinality(Served) <= MaxPipes
    BY ServedFinite, FS_CardinalityType DEF WithinCapacity
  <2>2. ASSUME NEW j \in Joiner, NEW s \in SubCode, Join(j, s)
        PROVE  Cardinality(Served') <= MaxPipes
    <3>1. CASE join' = [join EXCEPT ![j] = "closed"]
      <4>1. Served' \subseteq Served
        BY <3>1 DEF Served, Pending, Piped
      <4> QED
        BY <2>1, <4>1, FS_Subset, FS_CardinalityType, RelayAssumption
    <3>2. CASE ~Full /\ join[j] = "idle" /\ join' = [join EXCEPT ![j] = "pending"]
      <4>1. Served' = Served \cup {j}
        BY <3>2 DEF Served, Pending, Piped, TypeOK
      <4>2. Cardinality(Served) < MaxPipes
        BY <3>2, ServedSum, <2>1, RelayAssumption, PartsFinite, FS_CardinalityType DEF Full
      <4>3. Cardinality(Served') <= Cardinality(Served) + 1
        BY <2>1, <4>1, FS_AddElement
      <4> QED
        BY <2>1, <4>2, <4>3, <4>1, FS_AddElement, FS_CardinalityType, RelayAssumption
    <3> QED
      BY <2>2, <3>1, <3>2 DEF Join
  <2>3. CASE ~(\E j \in Joiner, s \in SubCode : Join(j, s))
    <3>1. Served' \subseteq Served
      BY <2>3, ServedGrowsByJoin
    <3> QED
      BY <2>1, <3>1, FS_Subset, FS_CardinalityType, RelayAssumption
  <2> QED
    BY <2>2, <2>3
<1> QED
  BY <1>1, <1>2, TypeCorrect, PTL DEF Spec

-----------------------------------------------------------------------------
(* Codes *)

(* PipesUnderGoodCodes as induction needs it: a client that waits under a    *)
(* dead code may be spliced by the next step, so it must be accounted for    *)
(* while it still waits.                                                     *)
CodeInv ==
    /\ NoPipesUnderRevokedMaster
    /\ \A j \in Served : code[j] \in SubCode
    /\ \A j \in Pending : sub[code[j]] # "active" => j \in missed
    /\ \A j \in Piped : sub[code[j]] \in {"revoked", "removed"} => j \in missed

(* What a client must satisfy after a step.                                  *)
Accounted(j) ==
    /\ code'[j] \in SubCode
    /\ join'[j] = "pending" /\ sub'[code'[j]] # "active" => j \in missed'
    /\ join'[j] = "piped" /\ sub'[code'[j]] \in {"revoked", "removed"} => j \in missed'

LEMMA NothingServedWhenReaped ==
    ASSUME ReapChannel
    PROVE  Served' = {} /\ Piped' = {}
BY DEF ReapChannel, Dropped, Served, Pending, Piped

LEMMA DroppedStays ==
    ASSUME NEW S, join' = Dropped(S), NEW j \in Joiner, join'[j] \in {"pending", "piped"}
    PROVE  join'[j] = join[j] /\ j \notin S
BY DEF Dropped

LEMMA SweepStays ==
    ASSUME SweepClients, NEW j \in Joiner, join'[j] \in {"pending", "piped"}
    PROVE  join'[j] = join[j] /\ (join[j] = "piped" => ~Dead(sub[code[j]]))
<1>1. join' = Dropped(SilentPending \cup SilentPipes \cup DeadPipes)
  BY DEF SweepClients
<1>2. join'[j] = join[j] /\ j \notin DeadPipes
  BY <1>1, DroppedStays
<1> QED
  BY <1>2 DEF DeadPipes, Piped

(* A revoked master code carries no pipe, and a pipe under a revoked or      *)
(* removed sub-code belongs to a client that was waiting, unspliced, when    *)
(* the code died (server.mjs:480, 621): the leak found by the run            *)
(* relay_code_leak is the only one.                                          *)
THEOREM CodesOfPipes == Spec => []PipesUnderGoodCodes
<1>1. Init => CodeInv
  BY DEF Init, CodeInv, NoPipesUnderRevokedMaster, Served, Pending, Piped
<1>2. TypeOK /\ CodeInv /\ [Next]_vars => CodeInv'
  <2> SUFFICES ASSUME TypeOK, CodeInv, [Next]_vars PROVE CodeInv'
    OBVIOUS
  <2>1. ASSUME ReapChannel PROVE CodeInv'
    BY <2>1, NothingServedWhenReaped DEF CodeInv, NoPipesUnderRevokedMaster, Served
  <2>2. SUFFICES ASSUME ~ReapChannel PROVE CodeInv'
    BY <2>1
  <2>3. master' = "revoked" => Piped' = {}
    <3>1. ~RevokeMaster
      BY <2>2 DEF RevokeMaster, KillChannel
    <3>2. master' = "revoked" => master = "revoked"
      BY <3>1 DEF Next, Register, RegisterRefused, ProbeTimer, ControlPong, ControlEnds,
             ControlClosed, ControlVanishes, Join, DialPipe, PendingTimeout, ClientEnds,
             ClientPong, ClientVanishes, IssueSubCode, RevokeSubCode, PurgeSubCode,
             RenewSubCode, SubCodeExpires, MasterExpires, RenewMaster, Sweep, Restart,
             codeVars, vars
    <3>3. SUFFICES ASSUME master = "revoked", Piped = {} PROVE Piped' = {}
      BY <3>2 DEF CodeInv, NoPipesUnderRevokedMaster
    <3>4. CASE \E S : join' = Dropped(S)
      BY <3>3, <3>4 DEF Dropped, Piped
    <3>5. CASE UNCHANGED join
      BY <3>3, <3>5 DEF Piped
    <3>6. ASSUME NEW j \in Joiner, NEW s \in SubCode, Join(j, s) PROVE Piped' = {}
      BY <3>3, <3>6 DEF Join, Piped, TypeOK
    <3> QED
      BY <2>2, <3>3, <3>4, <3>5, <3>6
         DEF Next, Register, RegisterRefused, ProbeTimer, ZombieTakeover, ControlPong,
             ControlEnds, ControlClosed, ControlVanishes, DialPipe, PendingTimeout, ClientEnds,
             ClientPong, ClientVanishes, IssueSubCode, RevokeSubCode, PurgeSubCode,
             RenewSubCode, SubCodeExpires, RevokeMaster, KillChannel, MasterExpires,
             RenewMaster, Sweep, SweepClients, Restart, clientVars, vars
  <2>4. ASSUME NEW j \in Joiner, join'[j] \in {"pending", "piped"} PROVE Accounted(j)
    <3>0. j \in Served =>
             /\ code[j] \in SubCode
             /\ join[j] = "pending" /\ sub[code[j]] # "active" => j \in missed
             /\ join[j] = "piped" /\ sub[code[j]] \in {"revoked", "removed"} => j \in missed
      BY DEF CodeInv, Pending, Piped, Served
    <3>1. CASE UNCHANGED <<code, codeVars>> /\ (UNCHANGED join \/ \E S : join' = Dropped(S))
      BY <2>4, <3>0, <3>1, DroppedStays DEF Accounted, codeVars, Served, Pending, Piped
    <3>2. ASSUME NEW i \in Joiner, NEW s \in SubCode, Join(i, s) PROVE Accounted(j)
      BY <2>4, <3>0, <3>2 DEF Join, Accounted, codeVars, Served, Pending, Piped, TypeOK
    <3>3. ASSUME NEW i \in Joiner, DialPipe(i) PROVE Accounted(j)
      BY <2>4, <3>0, <3>3 DEF DialPipe, Accounted, codeVars, Served, Pending, Piped, TypeOK
    <3>4. ASSUME NEW s \in SubCode, RevokeSubCode(s) \/ PurgeSubCode(s) PROVE Accounted(j)
      <4>1. join'[j] = join[j] /\ j \notin PipedUnder({s})
        BY <2>4, <3>4, DroppedStays DEF RevokeSubCode, PurgeSubCode
      <4> QED
        BY <2>4, <3>0, <3>4, <4>1 DEF RevokeSubCode, PurgeSubCode, PipedUnder, WaitingUnder,
           Accounted, Served, Pending, Piped, TypeOK
    <3>5. ASSUME NEW s \in SubCode, IssueSubCode(s) \/ RenewSubCode(s) \/ SubCodeExpires(s)
          PROVE  Accounted(j)
      BY <2>4, <3>0, <3>5 DEF IssueSubCode, RenewSubCode, SubCodeExpires, WaitingUnder,
         clientVars, Accounted, Served, Pending, Piped, TypeOK
    <3>6. CASE MasterExpires \/ RenewMaster
      BY <2>4, <3>0, <3>6 DEF MasterExpires, RenewMaster, clientVars, Accounted, Served,
         Pending, Piped
    <3>7. CASE Sweep
      <4>1. SweepClients /\ UNCHANGED code
        BY <2>2, <3>7 DEF Sweep, KillChannel
      <4>2. PICK late \in SUBSET {s \in SubCode : sub[s] = "active"} : GcSubCodes(late)
        BY <3>7 DEF Sweep
      <4>3. join'[j] = join[j] /\ (join[j] = "piped" => ~Dead(sub[code[j]]))
        BY <2>4, <4>1, SweepStays
      <4> QED
        BY <2>4, <3>0, <4>1, <4>2, <4>3 DEF GcSubCodes, Dead, WaitingUnder, PipedUnder,
           Accounted, Served, Pending, Piped, TypeOK
    <3> QED
      BY <2>2, <3>1, <3>2, <3>3, <3>4, <3>5, <3>6, <3>7
         DEF Next, Register, RegisterRefused, ProbeTimer, ZombieTakeover, ControlPong,
             ControlEnds, ControlClosed, ControlVanishes, PendingTimeout, ClientEnds,
             ClientPong, ClientVanishes, RevokeMaster, KillChannel, Restart, clientVars, vars
  <2> QED
    BY <2>3, <2>4 DEF CodeInv, NoPipesUnderRevokedMaster, Accounted, Served, Pending, Piped
<1>3. CodeInv => PipesUnderGoodCodes
  BY DEF CodeInv, PipesUnderGoodCodes, NoPipesUnderRevokedMaster,
         OnlyWaitingClientsOutliveTheirCode, Served
<1> QED
  BY <1>1, <1>2, <1>3, TypeCorrect, PTL DEF Spec
=============================================================================
