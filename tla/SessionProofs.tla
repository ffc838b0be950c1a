---------------------------- MODULE SessionProofs ----------------------------
(***************************************************************************)
(* Proofs about the sessions, where they are kept and where they are shown.*)
(*                                                                         *)
(* The registry of the host (module SessionRegistry), for any set of       *)
(* sessions, any sizes asked for and any clamp.                            *)
(*                                                                         *)
(* The page in the browser (module TerminalPage), for every number of      *)
(* sessions, pieces of output and moves, and whatever may happen in the    *)
(* worlds: its types, and that a modifier stays with its tab; and where    *)
(* messages are not sealed, that at rest the tabs are the host's sessions  *)
(* and those that follow draw with the grid the session has, that no       *)
(* screen misses a piece of output for good, and that a tab knows whether  *)
(* the page sizes its session.                                             *)
(***************************************************************************)
EXTENDS SessionRegistry, TerminalPage, FiniteSetTheorems, WellFoundedInduction, TLAPS

-----------------------------------------------------------------------------
(* Lemmas about the operators the actions are built from *)

LEMMA ClampType ==
    ASSUME NEW d \in Nat
    PROVE  Clamp(d) \in Sizes
BY RegistryAssumption DEF Clamp, Sizes

LEMMA ClampIdentity ==
    ASSUME NEW d \in Sizes
    PROVE  Clamp(d) = d
BY RegistryAssumption DEF Clamp, Sizes

(* After scheduleTabs the list is either shown or owed. *)
LEMMA ScheduleEffect ==
    ASSUME ScheduleTabs
    PROVE  /\ NoChangeForgotten'
           /\ shown' = shown \/ shown' = Listing'
<1>1. CASE tabsTimer /\ tabsDirty' = TRUE /\ UNCHANGED <<shown, tabsTimer>>
  <2>1. tabsTimer' /\ tabsDirty' /\ shown' = shown
    BY <1>1, Zenon
  <2> QED
    BY <2>1 DEF NoChangeForgotten
<1>2. CASE ~tabsTimer /\ shown' = Listing'
  BY <1>2 DEF NoChangeForgotten
<1> QED
  BY <1>1, <1>2, Zenon DEF ScheduleTabs

LEMMA ScheduleType ==
    ASSUME TypeOK, ScheduleTabs
    PROVE  tabsTimer' \in BOOLEAN /\ tabsDirty' \in BOOLEAN
BY Zenon DEF ScheduleTabs, TypeOK

LEMMA NothingScheduled ==
    ASSUME NoChangeForgotten, UNCHANGED tabsVars, Listing' = Listing
    PROVE  NoChangeForgotten'
BY Zenon DEF NoChangeForgotten, tabsVars

LEMMA SameListing ==
    ASSUME phase' = phase, size' = size, title' = title
    PROVE  Live' = Live /\ Listing' = Listing
BY DEF Live, Listing

LEMMA ApplyType ==
    ASSUME TypeOK, NEW s \in Session, NEW d \in Nat, ApplyResize(s, d)
    PROVE  /\ size' \in [Session -> Sizes]
           /\ dims' \in [Session -> Sizes]
           /\ tabsTimer' \in BOOLEAN
           /\ tabsDirty' \in BOOLEAN
<1>1. CASE Clamp(d) = size[s]
  BY <1>1 DEF ApplyResize, TypeOK, tabsVars
<1>2. CASE Clamp(d) # size[s]
  BY <1>2, ClampType, ScheduleType DEF ApplyResize, TypeOK
<1> QED
  BY <1>1, <1>2

(* applyResize gives the session the clamped size, and its pty with it. *)
LEMMA ApplyEffect ==
    ASSUME TypeOK, NEW s \in Session, NEW d \in Nat, ApplyResize(s, d)
    PROVE  /\ size'[s] = Clamp(d)
           /\ dims[s] = size[s] => dims'[s] = size'[s]
           /\ \A t \in Session \ {s} : size'[t] = size[t] /\ dims'[t] = dims[t]
BY DEF ApplyResize, TypeOK

LEMMA ApplyTabs ==
    ASSUME NoChangeForgotten, NEW s, NEW d, ApplyResize(s, d), phase' = phase, title' = title
    PROVE  NoChangeForgotten'
<1>1. CASE Clamp(d) = size[s]
  BY <1>1, SameListing, NothingScheduled DEF ApplyResize
<1>2. CASE Clamp(d) # size[s]
  BY <1>2, ScheduleEffect DEF ApplyResize
<1> QED
  BY <1>1, <1>2

LEMMA RemoveType ==
    ASSUME TypeOK, NEW s \in Session, RemoveSession(s)
    PROVE  /\ phase' \in [Session -> {"new", "live", "over"}]
           /\ pending' \in [Session -> Nat \cup {None}]
           /\ timer' \in [Session -> BOOLEAN]
           /\ exits' \in [Session -> Nat]
           /\ titleTimer' \in BOOLEAN
           /\ tabsTimer' \in BOOLEAN
           /\ tabsDirty' \in BOOLEAN
<1>1. titleTimer' \in BOOLEAN
  BY Zenon DEF RemoveSession
<1> QED
  BY <1>1, ScheduleType DEF RemoveSession, TypeOK

-----------------------------------------------------------------------------
(* Every variable keeps its type: sizes stay within the clamp whatever is   *)
(* asked for.                                                               *)
THEOREM TypeCorrect == Spec => []TypeOK
<1>1. Init => TypeOK
  <2> SUFFICES ASSUME Init PROVE TypeOK
    OBVIOUS
  <2>1. tabsTimer \in BOOLEAN /\ tabsDirty \in BOOLEAN /\ titleTimer \in BOOLEAN
    BY Zenon DEF Init
  <2>2. DefaultSize \in Sizes /\ DefaultSize \in Nat
    BY RegistryAssumption DEF Sizes
  <2> QED
    BY <2>1, <2>2, RegistryAssumption DEF Init, TypeOK
<1>2. TypeOK /\ [Next]_vars => TypeOK'
  <2> SUFFICES ASSUME TypeOK, [Next]_vars PROVE TypeOK'
    OBVIOUS
  <2>1. ASSUME NEW s \in Session, NEW d \in Request, d <= MaxSize, Create(s, d) PROVE TypeOK'
    <3>1. (IF d = 0 THEN DefaultSize ELSE d) \in Sizes /\ Sizes \subseteq Nat
      BY <2>1, RegistryAssumption DEF Sizes
    <3> QED
      BY <2>1, <3>1, ScheduleType DEF Create, TypeOK
  <2>2. ASSUME NEW s \in Session, NEW d \in Request, Resize(s, d) PROVE TypeOK'
    <3>1. d \in Nat
      BY RegistryAssumption
    <3>2. CASE timer[s]
      BY <2>2, <3>1, <3>2 DEF Resize, tabsVars, TypeOK
    <3>3. CASE ~timer[s]
      BY <2>2, <3>1, <3>3, ApplyType DEF Resize, TypeOK
    <3> QED
      BY <3>2, <3>3
  <2>3. ASSUME NEW s \in Session, ResizeTimer(s) PROVE TypeOK'
    <3>1. CASE pending[s] = None
      BY <2>3, <3>1 DEF ResizeTimer, tabsVars, TypeOK
    <3>2. CASE pending[s] # None
      <4>1. pending[s] \in Nat
        BY <3>2 DEF TypeOK
      <4> QED
        BY <2>3, <3>2, <4>1, ApplyType DEF ResizeTimer, TypeOK
    <3> QED
      BY <3>1, <3>2
  <2>4. ASSUME NEW s \in Session, Kill(s) PROVE TypeOK'
    BY <2>4, RemoveType DEF Kill, infoVars, TypeOK
  <2>5. ASSUME NEW s \in Session, Die(s) PROVE TypeOK'
    BY <2>5 DEF Die, infoVars, resizeVars, tabsVars, TypeOK
  <2>6. ASSUME NEW s \in Session, PtyExit(s) PROVE TypeOK'
    <3>1. CASE s \in Live
      BY <2>6, <3>1, RemoveType DEF PtyExit, infoVars, TypeOK
    <3>2. CASE s \notin Live
      BY <2>6, <3>2 DEF PtyExit, infoVars, tabsVars, TypeOK
    <3> QED
      BY <3>1, <3>2
  <2>7. ASSUME NEW s \in Session, NEW n \in Name, Foreground(s, n) PROVE TypeOK'
    BY <2>7 DEF Foreground, infoVars, resizeVars, tabsVars, TypeOK
  <2>8. CASE TitleTick
    <3>1. title' \in [Session -> Name]
      BY <2>8 DEF TitleTick, TypeOK
    <3>2. tabsTimer' \in BOOLEAN /\ tabsDirty' \in BOOLEAN
      BY <2>8, ScheduleType DEF TitleTick, tabsVars, TypeOK
    <3> QED
      BY <2>8, <3>1, <3>2 DEF TitleTick, ptyVars, resizeVars, TypeOK
  <2>9. CASE TabsTimer
    <3>1. tabsTimer' \in BOOLEAN /\ tabsDirty' \in BOOLEAN
      BY <2>9, Zenon DEF TabsTimer, TypeOK
    <3> QED
      BY <2>9, <3>1 DEF TabsTimer, ptyVars, infoVars, resizeVars, TypeOK
  <2>10. CASE UNCHANGED vars
    BY <2>10 DEF vars, ptyVars, infoVars, resizeVars, tabsVars, TypeOK
  <2> QED
    BY <2>1, <2>2, <2>3, <2>4, <2>5, <2>6, <2>7, <2>8, <2>9, <2>10 DEF Next
<1> QED
  BY <1>1, <1>2, PTL DEF Spec

-----------------------------------------------------------------------------
(* A pending resize is the last one asked for, of a session that lives, and *)
(* its timer runs.                                                          *)
PendingIsLast ==
    \A s \in Session : pending[s] # None =>
        /\ s \in Live
        /\ timer[s]
        /\ pending[s] = asked[s]

(* One exit event per session that ended, however kill and the end of the   *)
(* shell interleave.                                                        *)
THEOREM ExitOnce == Spec => []ExitExactlyOnce
<1>1. Init => ExitExactlyOnce
  BY DEF Init, ExitExactlyOnce
<1>2. TypeOK /\ ExitExactlyOnce /\ [Next]_vars => ExitExactlyOnce'
  <2> SUFFICES ASSUME TypeOK, ExitExactlyOnce, [Next]_vars PROVE ExitExactlyOnce'
    OBVIOUS
  <2>1. ASSUME NEW s \in Live, RemoveSession(s) PROVE ExitExactlyOnce'
    BY <2>1 DEF RemoveSession, Live, ExitExactlyOnce, TypeOK
  <2>2. ASSUME NEW s \in Session, NEW d \in Request, Create(s, d) PROVE ExitExactlyOnce'
    BY <2>2 DEF Create, ExitExactlyOnce, TypeOK
  <2>3. ASSUME NEW s \in Session, NEW d \in Request, Resize(s, d) PROVE ExitExactlyOnce'
    BY <2>3 DEF Resize, ExitExactlyOnce
  <2>4. ASSUME NEW s \in Session, ResizeTimer(s) PROVE ExitExactlyOnce'
    BY <2>4 DEF ResizeTimer, ExitExactlyOnce
  <2>5. ASSUME NEW s \in Session, Kill(s) PROVE ExitExactlyOnce'
    BY <2>5, <2>1 DEF Kill
  <2>6. ASSUME NEW s \in Session, PtyExit(s) PROVE ExitExactlyOnce'
    <3>1. CASE s \in Live
      BY <2>6, <3>1, <2>1 DEF PtyExit
    <3>2. CASE s \notin Live
      BY <2>6, <3>2 DEF PtyExit, ExitExactlyOnce
    <3> QED
      BY <3>1, <3>2
  <2>7. ASSUME NEW s \in Session, NEW n \in Name, Die(s) \/ Foreground(s, n)
        PROVE  ExitExactlyOnce'
    BY <2>7 DEF Die, Foreground, ExitExactlyOnce
  <2>8. ASSUME NEW s \in Session, Die(s) PROVE ExitExactlyOnce'
    BY <2>8 DEF Die, ExitExactlyOnce
  <2>9. CASE TitleTick \/ TabsTimer
    BY <2>9 DEF TitleTick, TabsTimer, ExitExactlyOnce
  <2>10. CASE UNCHANGED vars
    BY <2>10 DEF vars, ExitExactlyOnce
  <2> QED
    BY <2>2, <2>3, <2>4, <2>5, <2>6, <2>7, <2>8, <2>9, <2>10 DEF Next
<1> QED
  BY <1>1, <1>2, TypeCorrect, PTL DEF Spec

(* The throttle never forgets a change of the list. *)
THEOREM Throttle == Spec => []NoChangeForgotten
<1>1. Init => NoChangeForgotten
  <2> SUFFICES ASSUME Init PROVE shown = Listing
    BY DEF NoChangeForgotten
  <2>1. Live = {}
    BY DEF Init, Live
  <2> QED
    BY <2>1 DEF Init, Listing
<1>2. TypeOK /\ NoChangeForgotten /\ [Next]_vars => NoChangeForgotten'
  <2> SUFFICES ASSUME TypeOK, NoChangeForgotten, [Next]_vars PROVE NoChangeForgotten'
    OBVIOUS
  <2>1. ASSUME NEW s \in Session, NEW d \in Request, Create(s, d) PROVE NoChangeForgotten'
    BY <2>1, ScheduleEffect DEF Create
  <2>2. ASSUME NEW s \in Session, NEW d \in Request, Resize(s, d) PROVE NoChangeForgotten'
    <3>1. CASE timer[s]
      BY <2>2, <3>1, SameListing, NothingScheduled DEF Resize
    <3>2. CASE ~timer[s]
      BY <2>2, <3>2, ApplyTabs DEF Resize
    <3> QED
      BY <3>1, <3>2
  <2>3. ASSUME NEW s \in Session, ResizeTimer(s) PROVE NoChangeForgotten'
    <3>1. CASE pending[s] = None
      BY <2>3, <3>1, SameListing, NothingScheduled DEF ResizeTimer
    <3>2. CASE pending[s] # None
      BY <2>3, <3>2, ApplyTabs DEF ResizeTimer
    <3> QED
      BY <3>1, <3>2
  <2>4. ASSUME NEW s \in Session, Kill(s) PROVE NoChangeForgotten'
    BY <2>4, ScheduleEffect DEF Kill, RemoveSession
  <2>5. ASSUME NEW s \in Session, PtyExit(s) PROVE NoChangeForgotten'
    <3>1. CASE s \in Live
      BY <2>5, <3>1, ScheduleEffect DEF PtyExit, RemoveSession
    <3>2. CASE s \notin Live
      BY <2>5, <3>2, SameListing, NothingScheduled DEF PtyExit, infoVars
    <3> QED
      BY <3>1, <3>2
  <2>6. ASSUME NEW s \in Session, Die(s) PROVE NoChangeForgotten'
    BY <2>6, SameListing, NothingScheduled DEF Die, infoVars
  <2>7. ASSUME NEW s \in Session, NEW n \in Name, Foreground(s, n) PROVE NoChangeForgotten'
    BY <2>7, SameListing, NothingScheduled DEF Foreground, infoVars
  <2>8. CASE TitleTick
    <3>1. CASE title' = title
      BY <2>8, <3>1, SameListing, NothingScheduled DEF TitleTick
    <3>2. CASE title' # title
      BY <2>8, <3>2, ScheduleEffect DEF TitleTick
    <3> QED
      BY <3>1, <3>2
  <2>9. CASE TabsTimer
    <3>1. Listing' = Listing
      BY <2>9, SameListing DEF TabsTimer, infoVars
    <3>2. CASE tabsDirty
      BY <2>9, <3>1, <3>2 DEF TabsTimer, NoChangeForgotten
    <3>3. CASE ~tabsDirty
      BY <2>9, <3>1, <3>3, Zenon DEF TabsTimer, NoChangeForgotten
    <3> QED
      BY <3>2, <3>3
  <2>10. CASE UNCHANGED vars
    BY <2>10, SameListing, NothingScheduled DEF vars, infoVars
  <2> QED
    BY <2>1, <2>2, <2>3, <2>4, <2>5, <2>6, <2>7, <2>8, <2>9, <2>10 DEF Next
<1> QED
  BY <1>1, <1>2, TypeCorrect, PTL DEF Spec

ResizeInv == PtyHasListedSize /\ LastResizeKept /\ PendingIsLast

(* The list reports the size the pty has, the last size asked for is either *)
(* applied or pending with its timer running, and nothing else is pending.  *)
THEOREM ResizeInvariant == Spec => []ResizeInv
<1>1. Init => ResizeInv
  <2> SUFFICES ASSUME Init PROVE ResizeInv
    OBVIOUS
  <2>1. Clamp(DefaultSize) = DefaultSize
    BY ClampIdentity, RegistryAssumption DEF Sizes
  <2> QED
    BY <2>1 DEF Init, ResizeInv, PtyHasListedSize, LastResizeKept, PendingIsLast, Live
<1>2. TypeOK /\ ResizeInv /\ [Next]_vars => ResizeInv'
  <2> SUFFICES ASSUME TypeOK, ResizeInv, [Next]_vars PROVE ResizeInv'
    OBVIOUS
  <2> USE DEF ResizeInv, PtyHasListedSize, LastResizeKept, PendingIsLast
  <2>1. ASSUME NEW s \in Live, RemoveSession(s), UNCHANGED <<size, dims, asked>> PROVE ResizeInv'
    BY <2>1 DEF RemoveSession, Live, TypeOK
  <2>2. ASSUME NEW s \in Session, NEW d \in Request, d <= MaxSize, Create(s, d) PROVE ResizeInv'
    <3> DEFINE z == IF d = 0 THEN DefaultSize ELSE d
    <3>1. z \in Sizes
      BY <2>2, RegistryAssumption DEF Sizes
    <3>2. Clamp(z) = z
      BY <3>1, ClampIdentity
    <3>3. /\ size' = [size EXCEPT ![s] = z]
          /\ dims' = [dims EXCEPT ![s] = z]
          /\ asked' = [asked EXCEPT ![s] = z]
          /\ phase' = [phase EXCEPT ![s] = "live"]
          /\ phase[s] = "new"
          /\ UNCHANGED <<pending, timer>>
      BY <2>2 DEF Create
    <3>4. pending[s] = None
      BY <3>3 DEF Live
    <3> HIDE DEF z
    <3> QED
      BY <3>2, <3>3, <3>4 DEF Live, TypeOK
  <2>3. ASSUME NEW s \in Session, NEW d \in Request, Resize(s, d) PROVE ResizeInv'
    <3>1. d \in Nat /\ d # None
      BY RegistryAssumption
    <3>2. CASE timer[s]
      BY <2>3, <3>1, <3>2 DEF Resize, Live, TypeOK
    <3>3. CASE ~timer[s]
      <4>1. /\ size'[s] = Clamp(d)
            /\ dims[s] = size[s] => dims'[s] = size'[s]
            /\ \A t \in Session \ {s} : size'[t] = size[t] /\ dims'[t] = dims[t]
        BY <2>3, <3>1, <3>3, ApplyEffect DEF Resize
      <4> QED
        BY <2>3, <3>1, <3>3, <4>1 DEF Resize, Live, TypeOK
    <3> QED
      BY <3>2, <3>3
  <2>4. ASSUME NEW s \in Session, ResizeTimer(s) PROVE ResizeInv'
    <3>1. CASE pending[s] = None
      <4>1. asked[s] # None
        BY RegistryAssumption DEF TypeOK
      <4> QED
        BY <2>4, <3>1, <4>1 DEF ResizeTimer, Live, TypeOK
    <3>2. CASE pending[s] # None
      <4>1. pending[s] \in Nat
        BY <3>2 DEF TypeOK
      <4>2. /\ size'[s] = Clamp(pending[s])
            /\ dims[s] = size[s] => dims'[s] = size'[s]
            /\ \A t \in Session \ {s} : size'[t] = size[t] /\ dims'[t] = dims[t]
        BY <2>4, <3>2, <4>1, ApplyEffect DEF ResizeTimer
      <4> QED
        BY <2>4, <3>2, <4>2 DEF ResizeTimer, Live, TypeOK
    <3> QED
      BY <3>1, <3>2
  <2>5. ASSUME NEW s \in Session, Kill(s) PROVE ResizeInv'
    BY <2>5, <2>1 DEF Kill, infoVars
  <2>6. ASSUME NEW s \in Session, PtyExit(s) PROVE ResizeInv'
    <3>1. CASE s \in Live
      BY <2>6, <3>1, <2>1 DEF PtyExit, infoVars
    <3>2. CASE s \notin Live
      BY <2>6, <3>2 DEF PtyExit, infoVars, Live
    <3> QED
      BY <3>1, <3>2
  <2>7. ASSUME NEW s \in Session, Die(s) PROVE ResizeInv'
    BY <2>7 DEF Die, infoVars, resizeVars, Live
  <2>8. ASSUME NEW s \in Session, NEW n \in Name, Foreground(s, n) PROVE ResizeInv'
    BY <2>8 DEF Foreground, infoVars, resizeVars, Live
  <2>9. CASE TitleTick
    BY <2>9 DEF TitleTick, ptyVars, resizeVars, Live
  <2>10. CASE TabsTimer
    BY <2>10 DEF TabsTimer, ptyVars, infoVars, resizeVars, Live
  <2>11. CASE UNCHANGED vars
    BY <2>11 DEF vars, ptyVars, infoVars, resizeVars, Live
  <2> QED
    BY <2>2, <2>3, <2>4, <2>5, <2>6, <2>7, <2>8, <2>9, <2>10, <2>11 DEF Next
<1> QED
  BY <1>1, <1>2, TypeCorrect, PTL DEF Spec

(* The list reports the size the pty has. *)
THEOREM ListedSize == Spec => []PtyHasListedSize
BY ResizeInvariant, PTL DEF ResizeInv

(* The last resize asked for is applied or pending. *)
THEOREM ResizeKept == Spec => []LastResizeKept
BY ResizeInvariant, PTL DEF ResizeInv

-----------------------------------------------------------------------------
(* Refinement *)

LEMMA ServiceListing == Service!Listing = Listing
BY DEF Service!Listing, Listing

LEMMA ServiceStutter ==
    ASSUME UNCHANGED <<phase, size, title, shown>>
    PROVE  UNCHANGED Service!vars
BY DEF Service!vars, Live

LEMMA ServiceSchedule ==
    ASSUME ScheduleTabs
    PROVE  Service!MayPublish
BY ScheduleEffect, ServiceListing DEF Service!MayPublish, Service!Listing, Listing

LEMMA ServiceEnd ==
    ASSUME TypeOK, NEW s \in Live, RemoveSession(s), UNCHANGED infoVars
    PROVE  Service!End(s)
<1>1. Service!MayPublish
  BY ServiceSchedule DEF RemoveSession
<1>2. Live' = Live \ {s}
  BY DEF RemoveSession, Live, TypeOK
<1>3. {t \in Session : phase[t] = "over"}' = {t \in Session : phase[t] = "over"} \cup {s}
  BY DEF RemoveSession, Live, TypeOK
<1> QED
  BY <1>1, <1>2, <1>3 DEF Service!End, infoVars

LEMMA ServiceResize ==
    ASSUME TypeOK, NEW s \in Live, NEW d \in Nat, ApplyResize(s, d), UNCHANGED <<phase, title>>
    PROVE  Service!Resize(s)
<1>1. Service!MayPublish
  BY ServiceSchedule DEF ApplyResize, tabsVars, Service!MayPublish
<1>2. size' = [size EXCEPT ![s] = Clamp(d)]
  BY DEF ApplyResize, TypeOK
<1>3. Clamp(d) \in Sizes
  BY ClampType
<1> QED
  BY <1>1, <1>2, <1>3 DEF Service!Resize, Live

(* Every behaviour of the registry, with its throttle, its two-edged resize *)
(* and the races between kill and exit, is a behaviour of the service: a    *)
(* session opens once, ends once, and consumers are only shown lists that   *)
(* were true when they were sent.                                           *)
THEOREM Implements == Spec => ImplementsService
<1>1. Init => Service!Init
  <2> SUFFICES ASSUME Init PROVE Service!Init
    OBVIOUS
  <2>1. Live = {} /\ {s \in Session : phase[s] = "over"} = {}
    BY DEF Init, Live
  <2>2. size \in [Session -> Sizes] /\ title \in [Session -> Name]
    BY RegistryAssumption DEF Init, Sizes
  <2> QED
    BY <2>1, <2>2 DEF Init, Service!Init
<1>2. TypeOK /\ PendingIsLast /\ [Next]_vars => [Service!Next]_(Service!vars)
  <2> SUFFICES ASSUME TypeOK, PendingIsLast, [Next]_vars
               PROVE  Service!Next \/ UNCHANGED Service!vars
    OBVIOUS
  <2>1. ASSUME NEW s \in Session, NEW d \in Request, d <= MaxSize, Create(s, d)
        PROVE  Service!Open(s)
    <3> DEFINE z == IF d = 0 THEN DefaultSize ELSE d
    <3>1. z \in Sizes
      BY <2>1, RegistryAssumption DEF Sizes
    <3>2. size' = [size EXCEPT ![s] = z] /\ title' = [title EXCEPT ![s] = title[s]]
      BY <2>1 DEF Create, TypeOK
    <3>3. title[s] \in Name
      BY DEF TypeOK
    <3>4. Service!MayPublish
      BY <2>1, ServiceSchedule DEF Create
    <3>5. /\ Live' = Live \cup {s}
          /\ s \notin Live
          /\ s \notin {t \in Session : phase[t] = "over"}
          /\ {t \in Session : phase[t] = "over"}' = {t \in Session : phase[t] = "over"}
      BY <2>1 DEF Create, Live, TypeOK
    <3> HIDE DEF z
    <3> QED
      BY <3>1, <3>2, <3>3, <3>4, <3>5 DEF Service!Open
  <2>2. ASSUME NEW s \in Session, NEW d \in Request, Resize(s, d)
        PROVE  Service!Resize(s) \/ UNCHANGED Service!vars
    <3>1. CASE timer[s]
      BY <2>2, <3>1, ServiceStutter DEF Resize, tabsVars
    <3>2. CASE ~timer[s]
      BY <2>2, <3>2, ServiceResize, RegistryAssumption DEF Resize
    <3> QED
      BY <3>1, <3>2
  <2>3. ASSUME NEW s \in Session, ResizeTimer(s)
        PROVE  Service!Resize(s) \/ UNCHANGED Service!vars
    <3>1. CASE pending[s] = None
      BY <2>3, <3>1, ServiceStutter DEF ResizeTimer, tabsVars
    <3>2. CASE pending[s] # None
      <4>1. s \in Live /\ pending[s] \in Nat
        BY <3>2 DEF TypeOK, PendingIsLast
      <4> QED
        BY <2>3, <3>2, <4>1, ServiceResize DEF ResizeTimer
    <3> QED
      BY <3>1, <3>2
  <2>4. ASSUME NEW s \in Session, Kill(s) PROVE Service!End(s)
    BY <2>4, ServiceEnd DEF Kill
  <2>5. ASSUME NEW s \in Session, PtyExit(s) PROVE Service!End(s) \/ UNCHANGED Service!vars
    <3>1. CASE s \in Live
      BY <2>5, <3>1, ServiceEnd DEF PtyExit
    <3>2. CASE s \notin Live
      BY <2>5, <3>2, ServiceStutter DEF PtyExit, infoVars, tabsVars
    <3> QED
      BY <3>1, <3>2
  <2>6. ASSUME NEW s \in Session, NEW n \in Name, Die(s) \/ Foreground(s, n)
        PROVE  UNCHANGED Service!vars
    BY <2>6, ServiceStutter DEF Die, Foreground, infoVars, tabsVars
  <2>7. ASSUME NEW s \in Session, Die(s) PROVE UNCHANGED Service!vars
    BY <2>7, ServiceStutter DEF Die, infoVars, tabsVars
  <2>8. ASSUME TitleTick PROVE Service!Rename
    <3>1. title' \in [Session -> Name] /\ \A s \in Session \ Live : title'[s] = title[s]
      BY <2>8 DEF TitleTick, TypeOK
    <3>2. Service!MayPublish
      BY <2>8, ServiceSchedule DEF TitleTick, tabsVars, Service!MayPublish
    <3> QED
      BY <2>8, <3>1, <3>2 DEF TitleTick, Service!Rename, Live
  <2>9. ASSUME TabsTimer PROVE Service!Publish \/ UNCHANGED Service!vars
    <3>1. CASE tabsDirty
      BY <2>9, <3>1, ServiceListing DEF TabsTimer, infoVars, Service!Publish, Live
    <3>2. CASE ~tabsDirty
      BY <2>9, <3>2, ServiceStutter DEF TabsTimer, infoVars
    <3> QED
      BY <3>1, <3>2
  <2>10. ASSUME UNCHANGED vars PROVE UNCHANGED Service!vars
    BY <2>10, ServiceStutter DEF vars, infoVars, tabsVars
  <2> QED
    BY <2>1, <2>2, <2>3, <2>4, <2>5, <2>6, <2>7, <2>8, <2>9, <2>10 DEF Next, Service!Next, Live
<1>3. Spec => []PendingIsLast
  BY ResizeInvariant, PTL DEF ResizeInv
<1> QED
  BY <1>1, <1>2, <1>3, TypeCorrect, PTL DEF Spec, ImplementsService, Service!Safety

-----------------------------------------------------------------------------
(* TerminalPage, from here on: least elements and recursion *)

LEMMA LeastNumber ==
    ASSUME NEW T \in SUBSET Nat, T # {}
    PROVE  \E n \in T : \A m \in T : n <= m
<1> DEFINE R == OpToRel(<, Nat)
<1>1. IsWellFoundedOn(R, Nat)
  BY NatLessThanWellFounded
<1>2. R = {ss \in Nat \X Nat : ss[1] < ss[2]}
  BY DEF OpToRel
<1>3. \E n \in T : \A m \in T : <<m, n>> \notin R
  <2> HIDE DEF R
  <2> QED
    BY <1>1, WFMin
<1>4. \A m, n \in Nat : m < n => <<m, n>> \in R
  BY <1>2
<1> HIDE DEF R
<1>5. \A m, n \in Nat : ~(m < n) => n <= m
  OBVIOUS
<1> QED
  BY <1>3, <1>4, <1>5

(* What holds at 0 and goes up step by step holds up to n. *)
LEMMA Climbs ==
    ASSUME NEW n \in Nat, NEW T \in SUBSET (0 .. n), 0 \in T, \A i \in 1 .. n : i - 1 \in T => i \in T
    PROVE  T = 0 .. n
<1> DEFINE U == (0 .. n) \ T
<1>1. SUFFICES ASSUME U # {} PROVE FALSE
  OBVIOUS
<1>2. U \in SUBSET Nat
  OBVIOUS
<1>3. PICK i \in U : \A m \in U : i <= m
  <2> HIDE DEF U
  <2> QED
    BY <1>1, <1>2, LeastNumber
<1>4. i \in 1 .. n /\ i - 1 \in 0 .. n /\ ~(i <= i - 1)
  OBVIOUS
<1> QED
  BY <1>3, <1>4

LEMMA MaxIsIn ==
    ASSUME NEW n \in Nat, NEW s \in SUBSET (1 .. n), s # {}
    PROVE  Max(s) \in s
<1> DEFINE T == {n - x : x \in s}
<1>1. T \in SUBSET Nat /\ T # {}
  <2>1. \A x \in s : n - x \in Nat
    OBVIOUS
  <2>2. \E x \in s : n - x \in T
    OBVIOUS
  <2> QED
    BY <2>1, <2>2
<1>2. PICK m \in T : \A l \in T : m <= l
  <2> HIDE DEF T
  <2> QED
    BY <1>1, LeastNumber
<1>3. PICK x \in s : m = n - x
  BY <1>2
<1>4. \A y \in s : x >= y
  <2>1. ASSUME NEW y \in s PROVE x >= y
    <3>1. n - y \in T
      OBVIOUS
    <3> HIDE DEF T
    <3> QED
      BY <1>2, <1>3, <3>1
  <2> QED
    BY <2>1
<1> QED
  BY <1>4 DEF Max

LEMMA MaxIs ==
    ASSUME NEW n \in Nat, NEW k \in 1 .. n, NEW s \in SUBSET (1 .. k), k \in s
    PROVE  Max(s) = k
<1>1. s \in SUBSET (1 .. n) /\ s # {}
  OBVIOUS
<1>2. \A y \in s : k >= y
  OBVIOUS
<1>3. ASSUME NEW x \in s, \A y \in s : x >= y PROVE x = k
  BY <1>2, <1>3
<1> QED
  BY <1>2, <1>3 DEF Max

(* The recursion under a fold of o over q, which goes from the greatest     *)
(* index of a set of indices down.                                          *)
Tabled(g, o, p, n, q) ==
    \A s \in SUBSET (1 .. n) : g[s] = IF s = {} THEN p ELSE o[<<g[s \ {Max(s)}], q[Max(s)]>>]

Tables(P, o, p, n, q) == \E g \in [SUBSET (1 .. n) -> P] : Tabled(g, o, p, n, q)

LEMMA FoldTable ==
    ASSUME NEW P, NEW S, NEW o \in [P \X S -> P], NEW p \in P, NEW n \in Nat, NEW q \in [1 .. n -> S]
    PROVE  Tables(P, o, p, n, q)
<1> DEFINE Table(g, k) == /\ g \in [SUBSET (1 .. k) -> P]
                          /\ \A s \in SUBSET (1 .. k) : g[s] = IF s = {} THEN p ELSE o[<<g[s \ {Max(s)}], q[Max(s)]>>]
           T == {k \in 0 .. n : \E g : Table(g, k)}
<1>1. 0 \in T
  <2> DEFINE g == [s \in SUBSET (1 .. 0) |-> p]
  <2>1. \A s \in SUBSET (1 .. 0) : s = {}
    OBVIOUS
  <2>2. Table(g, 0)
    BY <2>1
  <2> HIDE DEF g, Table
  <2>3. 0 \in 0 .. n
    OBVIOUS
  <2> QED
    BY <2>2, <2>3
<1>2. ASSUME NEW k \in 1 .. n, k - 1 \in T PROVE k \in T
  <2>1. PICK g : Table(g, k - 1)
    BY <1>2
  <2>2. k \in 0 .. n /\ k \in Nat
    OBVIOUS
  <2> DEFINE h == [s \in SUBSET (1 .. k) |-> IF k \in s THEN o[<<g[s \ {k}], q[k]>>] ELSE g[s]]
  <2>3. ASSUME NEW s \in SUBSET (1 .. k), k \in s
        PROVE  /\ s # {} /\ Max(s) = k /\ s \ {k} \in SUBSET (1 .. k - 1) /\ s \ {k} \in SUBSET (1 .. k)
               /\ k \notin s \ {k} /\ g[s \ {k}] \in P
    <3>1. Max(s) = k
      BY <2>3, MaxIs
    <3>2. s \ {k} \in SUBSET (1 .. k - 1) /\ s \ {k} \in SUBSET (1 .. k)
      BY <2>2
    <3> QED
      BY <2>1, <2>3, <3>1, <3>2
  <2>4. ASSUME NEW s \in SUBSET (1 .. k), k \notin s
        PROVE  /\ s \in SUBSET (1 .. k - 1) /\ g[s] \in P
               /\ \A x : s \ {x} \in SUBSET (1 .. k) /\ k \notin s \ {x}
    <3>1. s \in SUBSET (1 .. k - 1)
      BY <2>2, <2>4
    <3> QED
      BY <2>1, <2>4, <3>1
  <2>5. \A s \in SUBSET (1 .. k) : h[s] \in P
    <3>1. ASSUME NEW s \in SUBSET (1 .. k), k \in s PROVE h[s] \in P
      <4>1. <<g[s \ {k}], q[k]>> \in P \X S
        BY <2>3, <3>1
      <4> QED
        BY <3>1, <4>1
    <3>2. ASSUME NEW s \in SUBSET (1 .. k), k \notin s PROVE h[s] \in P
      BY <2>4, <3>2
    <3> QED
      BY <3>1, <3>2
  <2>6. ASSUME NEW s \in SUBSET (1 .. k)
        PROVE  h[s] = IF s = {} THEN p ELSE o[<<h[s \ {Max(s)}], q[Max(s)]>>]
    <3>1. CASE k \in s
      <4>1. h[s] = o[<<g[s \ {k}], q[k]>>] /\ h[s \ {k}] = g[s \ {k}]
        BY <2>3, <3>1
      <4> HIDE DEF h
      <4> QED
        BY <2>3, <3>1, <4>1
    <3>2. CASE k \notin s
      <4>1. h[s] = g[s] /\ h[s \ {Max(s)}] = g[s \ {Max(s)}]
        BY <2>4, <3>2
      <4> HIDE DEF h
      <4> QED
        BY <2>1, <2>4, <3>2, <4>1
    <3> QED
      BY <3>1, <3>2
  <2>7. h \in [SUBSET (1 .. k) -> P]
    BY <2>5
  <2> HIDE DEF h
  <2>8. Table(h, k)
    BY <2>6, <2>7
  <2> HIDE DEF Table
  <2> QED
    BY <2>2, <2>8
<1>3. T \in SUBSET (0 .. n)
  OBVIOUS
<1>4. n \in 0 .. n
  OBVIOUS
<1> HIDE DEF Table
<1>5. n \in T
  <2> HIDE DEF T
  <2> QED
    BY <1>1, <1>2, <1>3, <1>4, Climbs
<1> QED
  BY <1>5 DEF Table, Tables, Tabled

(* The tables of a fold of o, by what o is. *)
LEMMA FoldWays ==
    ASSUME NEW n \in Nat, NEW f, NEW P, f[0] \in P, \A i \in 1 .. n : f[i - 1] \in P => f[i] \in P
    PROVE  \A i \in 0 .. n : f[i] \in P
<1> DEFINE T == {i \in 0 .. n : f[i] \in P}
<1>1. 0 \in T /\ T \in SUBSET (0 .. n)
  OBVIOUS
<1>2. \A i \in 1 .. n : i - 1 \in T => i \in T
  OBVIOUS
<1> HIDE DEF T
<1>3. T = 0 .. n
  BY <1>1, <1>2, Climbs
<1> QED
  BY <1>3 DEF T

-----------------------------------------------------------------------------
(* Folds *)

(* A fold of o goes through q from left to right. *)
Stepwise(f, o, p, n, q) == f[0] = p /\ \A i \in 1 .. n : f[i] = o[<<f[i - 1], q[i]>>]

Goes(P, o, p, n, q, r) == \E f \in [0 .. n -> P] : Stepwise(f, o, p, n, q) /\ f[n] = r

LEMMA FoldSteps ==
    ASSUME NEW P, NEW S, NEW o \in [P \X S -> P], NEW p \in P, NEW n \in Nat, NEW q \in [1 .. n -> S], NEW h,
           \A s \in SUBSET (1 .. n) : s = {} => h[s] = p,
           \A s \in SUBSET (1 .. n) : s # {} /\ h[s \ {Max(s)}] \in P => h[s] = o[<<h[s \ {Max(s)}], q[Max(s)]>>]
    PROVE  Goes(P, o, p, n, q, h[1 .. n])
<1> DEFINE f == [i \in 0 .. n |-> h[1 .. i]]
<1>1. f[0] = p
  <2>1. 1 .. 0 = {} /\ 0 \in 0 .. n
    OBVIOUS
  <2> QED
    BY <2>1
<1>2. ASSUME NEW i \in 1 .. n, f[i - 1] \in P PROVE f[i] = o[<<f[i - 1], q[i]>>] /\ f[i] \in P
  <2>1. i \in 0 .. n /\ i - 1 \in 0 .. n /\ 1 .. i \in SUBSET (1 .. n) /\ 1 .. i # {} /\ i \in 1 .. i
    OBVIOUS
  <2>2. Max(1 .. i) = i
    BY <2>1, MaxIs
  <2>3. (1 .. i) \ {i} = 1 .. i - 1
    OBVIOUS
  <2>4. h[(1 .. i) \ {Max(1 .. i)}] = f[i - 1]
    BY <2>1, <2>2, <2>3
  <2>5. h[1 .. i] = o[<<f[i - 1], q[i]>>]
    <3> HIDE DEF f
    <3> QED
      BY <1>2, <2>1, <2>2, <2>4
  <2>6. f[i] = o[<<f[i - 1], q[i]>>]
    BY <2>1, <2>5
  <2>7. <<f[i - 1], q[i]>> \in P \X S
    BY <1>2
  <2> HIDE DEF f
  <2> QED
    BY <2>6, <2>7
<1>3. \A i \in 0 .. n : f[i] \in P
  <2> HIDE DEF f
  <2> QED
    BY <1>1, <1>2, FoldWays
<1>4. \A i \in 1 .. n : f[i] = o[<<f[i - 1], q[i]>>]
  <2>1. \A i \in 1 .. n : i - 1 \in 0 .. n
    OBVIOUS
  <2> HIDE DEF f
  <2> QED
    BY <1>2, <1>3, <2>1
<1>5. f \in [0 .. n -> P] /\ f[n] = h[1 .. n]
  BY <1>3
<1> HIDE DEF f
<1> QED
  BY <1>1, <1>4, <1>5 DEF Goes, Stepwise

LEMMA SeqIsFunction ==
    ASSUME NEW S, NEW q \in Seq(S)
    PROVE  Len(q) \in Nat /\ q \in [1 .. Len(q) -> S] /\ DOMAIN q = 1 .. Len(q)
OBVIOUS

(* f goes through q and collects the elements in T. *)
Collects(f, E, q, T) ==
    /\ f \in [0 .. Len(q) -> Seq(E)] /\ f[0] = <<>> /\ f[Len(q)] = Chosen(q, T)
    /\ \A i \in 1 .. Len(q) : f[i] = IF q[i] \in T THEN Append(f[i - 1], q[i]) ELSE f[i - 1]

LEMMA ChosenSteps ==
    ASSUME NEW E, NEW q \in Seq(E), NEW T
    PROVE  \E f : Collects(f, E, q, T)
<1> DEFINE n == Len(q)
           P == Seq(E)
           o == [x \in P \X E |-> IF x[2] \in T THEN Append(x[1], x[2]) ELSE x[1]]
           F(h) == [s \in SUBSET (1 .. n) |-> IF s = {} THEN <<>>
                        ELSE IF q[Max(s)] \in T THEN Append(h[s \ {Max(s)}], q[Max(s)]) ELSE h[s \ {Max(s)}]]
<1>1. n \in Nat /\ q \in [1 .. n -> E] /\ DOMAIN q = 1 .. n
  BY SeqIsFunction
<1>2. Chosen(q, T) = (CHOOSE h : h = F(h))[1 .. n]
  BY <1>1 DEF Chosen, FoldLeft, MapThenFoldSet
<1>3. o \in [P \X E -> P] /\ <<>> \in P
  OBVIOUS
<1>4. ASSUME NEW x \in P, NEW y \in E PROVE o[<<x, y>>] = IF y \in T THEN Append(x, y) ELSE x
  OBVIOUS
<1>5. ASSUME NEW s \in SUBSET (1 .. n), s # {} PROVE q[Max(s)] \in E /\ s \ {Max(s)} \in SUBSET (1 .. n)
  BY <1>1, <1>5, MaxIsIn
<1> HIDE DEF n, P, o
<1>6. PICK g \in [SUBSET (1 .. n) -> P] : Tabled(g, o, <<>>, n, q)
  <2>1. Tables(P, o, <<>>, n, q)
    BY <1>1, <1>3, FoldTable
  <2> QED
    BY <2>1 DEF Tables
<1>7. g = F(g)
  <2>1. ASSUME NEW s \in SUBSET (1 .. n), s # {}
        PROVE  g[s] = IF q[Max(s)] \in T THEN Append(g[s \ {Max(s)}], q[Max(s)]) ELSE g[s \ {Max(s)}]
    BY <1>4, <1>5, <1>6, <2>1 DEF Tabled
  <2> QED
    BY <1>6, <2>1 DEF Tabled
<1> DEFINE h == CHOOSE h : h = F(h)
<1>8. h = F(h)
  <2> HIDE DEF F
  <2> QED
    BY <1>7
<1> HIDE DEF h
<1>9. \A s \in SUBSET (1 .. n) : s = {} => h[s] = <<>>
  BY <1>8
<1>10. ASSUME NEW s \in SUBSET (1 .. n), s # {}, h[s \ {Max(s)}] \in P
       PROVE  h[s] = o[<<h[s \ {Max(s)}], q[Max(s)]>>]
  <2>1. h[s] = IF q[Max(s)] \in T THEN Append(h[s \ {Max(s)}], q[Max(s)]) ELSE h[s \ {Max(s)}]
    BY <1>8, <1>10
  <2> HIDE DEF F
  <2> QED
    BY <1>4, <1>5, <1>10, <2>1
<1> HIDE DEF F
<1>11. PICK f \in [0 .. n -> P] : Stepwise(f, o, <<>>, n, q) /\ f[n] = h[1 .. n]
  <2>1. Goes(P, o, <<>>, n, q, h[1 .. n])
    BY <1>1, <1>3, <1>9, <1>10, FoldSteps
  <2> QED
    BY <2>1 DEF Goes
<1>12. \A i \in 1 .. n : f[i] = IF q[i] \in T THEN Append(f[i - 1], q[i]) ELSE f[i - 1]
  <2>1. ASSUME NEW i \in 1 .. n PROVE f[i - 1] \in P /\ q[i] \in E
    <3>1. i - 1 \in 0 .. n
      BY <1>1
    <3> QED
      BY <1>1, <1>11, <3>1
  <2> QED
    BY <1>4, <1>11, <2>1 DEF Stepwise
<1>13. f[n] = Chosen(q, T)
  BY <1>2, <1>11 DEF h
<1>14. Collects(f, E, q, T)
  BY <1>11, <1>12, <1>13 DEF n, P, Stepwise, Collects
<1> QED
  BY <1>14

-----------------------------------------------------------------------------
(* Sequences and the sets of their elements *)

LEMMA ElementsIn ==
    ASSUME NEW E, NEW q \in Seq(E)
    PROVE  ToSet(q) \in SUBSET E
<1>1. q \in [1 .. Len(q) -> E] /\ DOMAIN q = 1 .. Len(q)
  OBVIOUS
<1> QED
  BY <1>1 DEF ToSet

LEMMA ElementAt ==
    ASSUME NEW E, NEW q \in Seq(E)
    PROVE  /\ \A i \in 1 .. Len(q) : q[i] \in ToSet(q)
           /\ \A x \in ToSet(q) : \E i \in 1 .. Len(q) : x = q[i]
<1>1. DOMAIN q = 1 .. Len(q)
  OBVIOUS
<1> QED
  BY <1>1 DEF ToSet

LEMMA NoElements ==
    ASSUME NEW q, q = <<>>
    PROVE  ToSet(q) = {}
<1>1. DOMAIN q = {}
  OBVIOUS
<1> QED
  BY <1>1 DEF ToSet

LEMMA SomeElement ==
    ASSUME NEW E, NEW q \in Seq(E), q # <<>>
    PROVE  ToSet(q) # {}
<1>1. 1 \in 1 .. Len(q) /\ DOMAIN q = 1 .. Len(q)
  OBVIOUS
<1> QED
  BY <1>1 DEF ToSet

LEMMA AppendElements ==
    ASSUME NEW E, NEW q \in Seq(E), NEW x \in E
    PROVE  Append(q, x) \in Seq(E) /\ ToSet(Append(q, x)) = ToSet(q) \cup {x} /\ Append(q, x) # <<>>
<1>1. /\ Append(q, x) \in Seq(E) /\ Len(Append(q, x)) = Len(q) + 1 /\ Append(q, x)[Len(q) + 1] = x
      /\ \A i \in 1 .. Len(q) : Append(q, x)[i] = q[i]
      /\ Append(q, x) # <<>>
  OBVIOUS
<1>2. DOMAIN q = 1 .. Len(q) /\ DOMAIN Append(q, x) = 1 .. Len(q) + 1 /\ Len(q) \in Nat
  BY <1>1
<1>3. 1 .. Len(q) + 1 = (1 .. Len(q)) \cup {Len(q) + 1}
  BY <1>2
<1> QED
  BY <1>1, <1>2, <1>3 DEF ToSet

LEMMA CatElements ==
    ASSUME NEW E, NEW q \in Seq(E), NEW r \in Seq(E)
    PROVE  q \o r \in Seq(E) /\ ToSet(q \o r) = ToSet(q) \cup ToSet(r)
<1>1. /\ q \o r \in Seq(E) /\ Len(q \o r) = Len(q) + Len(r)
      /\ \A i \in 1 .. Len(q) : (q \o r)[i] = q[i]
      /\ \A i \in 1 .. Len(r) : (q \o r)[Len(q) + i] = r[i]
  OBVIOUS
<1>2. Len(q) \in Nat /\ Len(r) \in Nat /\ DOMAIN q = 1 .. Len(q) /\ DOMAIN r = 1 .. Len(r) /\ DOMAIN (q \o r) = 1 .. Len(q) + Len(r)
  BY <1>1
<1>3. \A i \in 1 .. Len(q) + Len(r) : i \in 1 .. Len(q) \/ i - Len(q) \in 1 .. Len(r)
  BY <1>2
<1>4. \A i \in 1 .. Len(r) : Len(q) + i \in 1 .. Len(q) + Len(r)
  BY <1>2
<1>5. \A i \in 1 .. Len(q) : i \in 1 .. Len(q) + Len(r)
  BY <1>2
<1>6. \A i \in 1 .. Len(q) + Len(r) : Len(q) + (i - Len(q)) = i
  BY <1>2
<1>7. ASSUME NEW x \in ToSet(q \o r) PROVE x \in ToSet(q) \cup ToSet(r)
  <2>1. PICK i \in 1 .. Len(q) + Len(r) : x = (q \o r)[i]
    BY <1>2 DEF ToSet
  <2>2. CASE i \in 1 .. Len(q)
    BY <1>1, <1>2, <2>1, <2>2 DEF ToSet
  <2>3. CASE i - Len(q) \in 1 .. Len(r)
    <3>1. x = r[i - Len(q)]
      BY <1>1, <1>6, <2>1, <2>3
    <3> QED
      BY <1>2, <2>3, <3>1 DEF ToSet
  <2> QED
    BY <1>3, <2>2, <2>3
<1>8. ToSet(q) \subseteq ToSet(q \o r)
  BY <1>1, <1>2, <1>5 DEF ToSet
<1>9. ToSet(r) \subseteq ToSet(q \o r)
  BY <1>1, <1>2, <1>4 DEF ToSet
<1> QED
  BY <1>1, <1>7, <1>8, <1>9

LEMMA TailElements ==
    ASSUME NEW E, NEW q \in Seq(E), q # <<>>
    PROVE  Head(q) \in ToSet(q) /\ Tail(q) \in Seq(E) /\ ToSet(q) = {Head(q)} \cup ToSet(Tail(q))
<1>1. Tail(q) \in Seq(E) /\ Len(q) \in Nat \ {0} /\ Len(Tail(q)) = Len(q) - 1 /\ Head(q) = q[1]
      /\ \A i \in 1 .. Len(q) - 1 : Tail(q)[i] = q[i + 1]
  OBVIOUS
<1>2. DOMAIN q = 1 .. Len(q) /\ DOMAIN Tail(q) = 1 .. Len(q) - 1
  BY <1>1
<1>3. 1 \in 1 .. Len(q) /\ \A i \in 1 .. Len(q) - 1 : i + 1 \in 1 .. Len(q)
  BY <1>1
<1>4. \A i \in 1 .. Len(q) : i = 1 \/ (i - 1 \in 1 .. Len(q) - 1 /\ (i - 1) + 1 = i)
  BY <1>1
<1>5. ASSUME NEW x \in ToSet(q) PROVE x \in {Head(q)} \cup ToSet(Tail(q))
  <2>1. PICK i \in 1 .. Len(q) : x = q[i]
    BY <1>2 DEF ToSet
  <2>2. CASE i = 1
    BY <1>1, <2>1, <2>2
  <2>3. CASE i - 1 \in 1 .. Len(q) - 1 /\ (i - 1) + 1 = i
    <3>1. x = Tail(q)[i - 1]
      BY <1>1, <2>1, <2>3
    <3> QED
      BY <1>2, <2>3, <3>1 DEF ToSet
  <2> QED
    BY <1>4, <2>2, <2>3
<1>6. {Head(q)} \cup ToSet(Tail(q)) \subseteq ToSet(q)
  BY <1>1, <1>2, <1>3 DEF ToSet
<1> QED
  BY <1>1, <1>2, <1>3, <1>5, <1>6 DEF ToSet

LEMMA SubSeqElements ==
    ASSUME NEW E, NEW q \in Seq(E), NEW i \in 1 .. Len(q) + 1, NEW k \in 0 .. Len(q)
    PROVE  SubSeq(q, i, k) \in Seq(E) /\ ToSet(SubSeq(q, i, k)) = {q[j] : j \in i .. k}
<1> DEFINE r == SubSeq(q, i, k)
           n == IF i <= k THEN k - i + 1 ELSE 0
<1>1. Len(q) \in Nat /\ i \in Nat /\ k \in Nat /\ n \in Nat
  OBVIOUS
<1>2. r \in Seq(E) /\ Len(r) = n /\ \A j \in 1 .. n : r[j] = q[i + j - 1]
  BY <1>1, SMTT(30)
<1>3. /\ \A j \in 1 .. n : i + j - 1 \in i .. k
      /\ \A j \in i .. k : j - i + 1 \in 1 .. n /\ i + (j - i + 1) - 1 = j
  BY <1>1
<1>4. DOMAIN r = 1 .. n
  BY <1>2
<1> HIDE DEF r, n
<1>5. ASSUME NEW x \in ToSet(r) PROVE \E j \in i .. k : x = q[j]
  <2>1. PICK l \in 1 .. n : x = r[l]
    BY <1>4 DEF ToSet
  <2> QED
    BY <1>2, <1>3, <2>1
<1>6. \A j \in i .. k : q[j] = r[j - i + 1] /\ j - i + 1 \in 1 .. n
  BY <1>2, <1>3
<1>7. \A j \in i .. k : q[j] \in ToSet(r)
  BY <1>4, <1>6 DEF ToSet
<1> QED
  BY <1>2, <1>5, <1>7 DEF r

LEMMA RemoveElements ==
    ASSUME NEW E, NEW q \in Seq(E), NEW i \in DOMAIN q
    PROVE  q[i] \in E /\ RemoveAt(q, i) \in Seq(E) /\ ToSet(q) = {q[i]} \cup ToSet(RemoveAt(q, i))
<1> DEFINE b == SubSeq(q, 1, i - 1)
           a == SubSeq(q, i + 1, Len(q))
           n == Len(q)
<1>1. n \in Nat /\ DOMAIN q = 1 .. n /\ i \in 1 .. n /\ q[i] \in E
  OBVIOUS
<1>2. 1 \in 1 .. n + 1 /\ i - 1 \in 0 .. n /\ i + 1 \in 1 .. n + 1 /\ n \in 0 .. n
  BY <1>1
<1>3. b \in Seq(E) /\ ToSet(b) = {q[j] : j \in 1 .. i - 1}
  BY <1>2, SubSeqElements
<1>4. a \in Seq(E) /\ ToSet(a) = {q[j] : j \in i + 1 .. n}
  BY <1>2, SubSeqElements
<1>5. RemoveAt(q, i) = b \o a
  BY DEF RemoveAt
<1> HIDE DEF a, b
<1>6. b \o a \in Seq(E) /\ ToSet(b \o a) = ToSet(b) \cup ToSet(a)
  BY <1>3, <1>4, CatElements
<1>7. \A j \in 1 .. n : j = i \/ j \in 1 .. i - 1 \/ j \in i + 1 .. n
  BY <1>1
<1>8. (\A j \in 1 .. i - 1 : j \in 1 .. n) /\ (\A j \in i + 1 .. n : j \in 1 .. n)
  BY <1>1
<1>9. ToSet(q) = {q[j] : j \in 1 .. n}
  BY <1>1 DEF ToSet
<1> HIDE DEF n
<1>10. ToSet(q) = {q[i]} \cup (ToSet(b) \cup ToSet(a))
  BY <1>1, <1>3, <1>4, <1>7, <1>8, <1>9
<1> QED
  BY <1>1, <1>5, <1>6, <1>10

LEMMA LastElement ==
    ASSUME NEW E, NEW q \in Seq(E), q # <<>>
    PROVE  Last(q) \in ToSet(q) /\ Last(q) \in E
<1>1. Len(q) \in 1 .. Len(q) /\ DOMAIN q = 1 .. Len(q)
  OBVIOUS
<1> QED
  BY <1>1 DEF ToSet, Last

(* What a choice keeps. *)
LEMMA ChosenElements ==
    ASSUME NEW E, NEW q \in Seq(E), NEW T
    PROVE  Chosen(q, T) \in Seq(E) /\ ToSet(Chosen(q, T)) = ToSet(q) \cap T
<1> DEFINE n == Len(q)
<1>1. n \in Nat /\ q \in [1 .. n -> E] /\ DOMAIN q = 1 .. n
  BY SeqIsFunction
<1>2. PICK f : Collects(f, E, q, T)
  BY ChosenSteps
<1>3. /\ f \in [0 .. n -> Seq(E)] /\ f[0] = <<>> /\ f[n] = Chosen(q, T)
      /\ \A i \in 1 .. n : f[i] = IF q[i] \in T THEN Append(f[i - 1], q[i]) ELSE f[i - 1]
  BY <1>2 DEF Collects
<1> HIDE DEF n
<1> DEFINE Upto(i) == {q[j] : j \in 1 .. i}
           U == {i \in 0 .. n : ToSet(f[i]) = Upto(i) \cap T}
<1>4. Upto(0) = {}
  OBVIOUS
<1>5. ASSUME NEW i \in 1 .. n PROVE Upto(i) = Upto(i - 1) \cup {q[i]}
  <2>1. 1 .. i = (1 .. i - 1) \cup {i}
    OBVIOUS
  <2> QED
    BY <2>1
<1>6. ToSet(q) = Upto(n)
  BY <1>1 DEF ToSet
<1> HIDE DEF Upto
<1>7. 0 \in U
  <2>1. ToSet(f[0]) = {}
    BY <1>3, NoElements
  <2> QED
    BY <1>1, <1>4, <2>1
<1>8. ASSUME NEW i \in 1 .. n, i - 1 \in U PROVE i \in U
  <2>1. i \in 0 .. n /\ i - 1 \in 0 .. n /\ q[i] \in E
    BY <1>1
  <2>2. f[i - 1] \in Seq(E) /\ ToSet(f[i - 1]) = Upto(i - 1) \cap T
    BY <1>3, <1>8, <2>1
  <2>3. ToSet(Append(f[i - 1], q[i])) = ToSet(f[i - 1]) \cup {q[i]}
    BY <2>1, <2>2, AppendElements
  <2>4. ToSet(f[i]) = Upto(i) \cap T
    <3>1. CASE q[i] \in T
      BY <1>3, <1>5, <2>2, <2>3, <3>1
    <3>2. CASE q[i] \notin T
      BY <1>3, <1>5, <2>2, <3>2
    <3> QED
      BY <3>1, <3>2
  <2> QED
    BY <2>1, <2>4
<1>9. U = 0 .. n
  <2>1. U \in SUBSET (0 .. n)
    OBVIOUS
  <2> HIDE DEF U
  <2> QED
    BY <1>1, <1>7, <1>8, <2>1, Climbs
<1>10. n \in 0 .. n
  BY <1>1
<1>11. ToSet(f[n]) = Upto(n) \cap T
  BY <1>9, <1>10
<1>12. f[n] \in Seq(E)
  BY <1>3, <1>10
<1> QED
  BY <1>3, <1>6, <1>11, <1>12

-----------------------------------------------------------------------------
(* What the operators on a page do to it *)

LEMMA NoTabIsNone ==
    NoTab \notin Id
<1>1. MaxSession \in Nat
  BY PageAssumption
<1> QED
  BY <1>1 DEF NoTab, Id

(* What the page says when it follows s, and when it has closed it. *)
Attaching(s) == [t |-> "attach", id |-> s]
ClosingOf(s) == [t |-> "close", id |-> s]

(* What the sizes, the screens and the keyboard leave alone.               *)
Rest(p, q) ==
    /\ q.tabs = p.tabs /\ q.active = p.active /\ q.att = p.att /\ q.mods = p.mods
    /\ q.creating = p.creating /\ q.late = p.late /\ q.listing = p.listing

(* q has said all that p has. *)
Speaks(p, q) == q \in PageState /\ ToSet(p.says) \subseteq ToSet(q.says)

(* Who sizes what, as far as the page knows. *)
Sized(p, q) == q.own = p.own /\ q.grid = p.grid /\ q.listed = p.listed /\ q.known = p.known

LEMMA SaidIs ==
    ASSUME NEW t \in Kinds, NEW s \in Id \cup {NoTab}
    PROVE  [t |-> t, id |-> s] \in Said
BY DEF Said

LEMMA SayIs ==
    ASSUME NEW p \in PageState, NEW t \in Kinds, NEW s \in Id \cup {NoTab}
    PROVE  /\ Speaks(p, Say(p, t, s)) /\ Rest(p, Say(p, t, s)) /\ Sized(p, Say(p, t, s))
           /\ Say(p, t, s).outbox = p.outbox /\ [t |-> t, id |-> s] \in ToSet(Say(p, t, s).says)
           /\ Say(p, t, s) = [p EXCEPT !.says = Append(p.says, [t |-> t, id |-> s])]
<1> DEFINE m == [t |-> t, id |-> s]
           says == Append(p.says, m)
<1>1. m \in Said /\ p.says \in Seq(Said)
  BY SaidIs DEF PageState
<1> HIDE DEF m
<1>2. says \in Seq(Said) /\ ToSet(says) = ToSet(p.says) \cup {m}
  BY <1>1, AppendElements
<1>3. Say(p, t, s) = [p EXCEPT !.says = says]
  BY DEF Say, m
<1> HIDE DEF says
<1>4. [p EXCEPT !.says = says] \in PageState /\ [p EXCEPT !.says = says].says = says
  BY <1>2 DEF PageState
<1>5. Rest(p, [p EXCEPT !.says = says]) /\ Sized(p, [p EXCEPT !.says = says]) /\ [p EXCEPT !.says = says].outbox = p.outbox
  BY DEF Rest, Sized, PageState
<1> QED
  BY <1>2, <1>3, <1>4, <1>5 DEF Speaks, m, says

(* At most, q has spoken about sizes and followed sessions. *)
Little(p, q) == Speaks(p, q) /\ Rest(p, q) /\ Sized(p, q) /\ q.outbox = p.outbox

LEMMA LittleChain ==
    ASSUME NEW p, NEW q, NEW r, Little(p, q), Little(q, r)
    PROVE  Little(p, r)
BY DEF Little, Speaks, Rest, Sized

LEMMA Nothing ==
    ASSUME NEW p \in PageState
    PROVE  Little(p, p)
BY DEF Little, Speaks, Rest, Sized

LEMMA SaysLittle ==
    ASSUME NEW p \in PageState, NEW t \in Kinds, NEW s \in Id \cup {NoTab}
    PROVE  Little(p, Say(p, t, s))
BY SayIs DEF Little

LEMMA ClaimsLittle ==
    ASSUME NEW p \in PageState
    PROVE  Little(p, ClaimActive(p))
<1>1. p.active \in Id \cup {NoTab} /\ "claim" \in Kinds
  BY DEF PageState, Kinds
<1> QED
  BY <1>1, Nothing, SaysLittle DEF ClaimActive

LEMMA ReleasesLittle ==
    ASSUME NEW p \in PageState
    PROVE  Little(p, ReleaseClaimed(p))
<1>1. p.claimed \in Id \cup {NoTab} /\ "release" \in Kinds
  BY DEF PageState, Kinds
<1> QED
  BY <1>1, Nothing, SaysLittle DEF ReleaseClaimed

LEMMA ForgetsLittle ==
    ASSUME NEW p \in PageState, NEW s \in Id \cup {NoTab}
    PROVE  Little(p, [p EXCEPT !.claimed = s])
BY DEF Little, Speaks, Rest, Sized, PageState

LEMMA ActivatesLittle ==
    ASSUME NEW p \in PageState
    PROVE  Little(p, TabActivated(p))
<1> DEFINE q == ReleaseClaimed(p)
           r == [q EXCEPT !.claimed = NoTab]
<1>1. Little(p, q) /\ q \in PageState
  BY ReleasesLittle DEF Little, Speaks
<1> HIDE DEF q
<1>2. Little(q, r) /\ r \in PageState
  BY <1>1, ForgetsLittle DEF Little, Speaks
<1> HIDE DEF r
<1>3. Little(r, ClaimActive(r))
  BY <1>2, ClaimsLittle
<1>4. TabActivated(p) = ClaimActive(r)
  BY DEF TabActivated, r, q
<1> QED
  BY <1>1, <1>2, <1>3, <1>4, LittleChain

LEMMA FollowIs ==
    ASSUME NEW p \in PageState, NEW s \in Id
    PROVE  /\ Speaks(p, Follow(p, s)) /\ Sized(p, Follow(p, s)) /\ Follow(p, s).outbox = p.outbox
           /\ Rest([p EXCEPT !.att = p.att \cup {s}], Follow(p, s))
           /\ s \in p.att \/ Attaching(s) \in ToSet(Follow(p, s).says)
<1>1. CASE s \in p.att
  <2>1. p.att \cup {s} = p.att
    BY <1>1
  <2>2. Rest([p EXCEPT !.att = p.att \cup {s}], p)
    BY <2>1 DEF Rest, PageState
  <2>3. Little(p, p)
    BY Nothing
  <2> QED
    BY <1>1, <2>2, <2>3 DEF Follow, Little
<1>2. CASE s \notin p.att
  <2> DEFINE q == [p EXCEPT !.att = p.att \cup {s}]
  <2>1. q \in PageState /\ q.says = p.says /\ Sized(p, q) /\ q.outbox = p.outbox
    BY DEF PageState, Sized
  <2>2. Follow(p, s) = Say(q, "attach", s)
    BY <1>2 DEF Follow
  <2> HIDE DEF q
  <2>3. Speaks(q, Say(q, "attach", s)) /\ Rest(q, Say(q, "attach", s)) /\ Sized(q, Say(q, "attach", s))
        /\ Say(q, "attach", s).outbox = q.outbox /\ Attaching(s) \in ToSet(Say(q, "attach", s).says)
    <3>1. "attach" \in Kinds /\ s \in Id \cup {NoTab}
      BY DEF Kinds
    <3> QED
      BY <2>1, <3>1, SayIs DEF Attaching
  <2> QED
    BY <2>1, <2>2, <2>3 DEF Speaks, Sized, q
<1> QED
  BY <1>1, <1>2

LEMMA PageFields ==
    ASSUME NEW p \in PageState
    PROVE  /\ p.tabs \in Seq(Id) /\ p.own \in [Id -> BOOLEAN] /\ p.alive \in [Id -> BOOLEAN]
           /\ p.shown \in [Id -> 0 .. MaxOut] /\ p.whole \in [Id -> BOOLEAN] /\ p.made \in SUBSET Id
           /\ p.grid \in [Id -> Whose] /\ p.listed \in [Id -> Whose] /\ p.active \in Id \cup {NoTab}
           /\ p.known \in SUBSET Id /\ p.att \in SUBSET Id /\ p.heal \in SUBSET Id
           /\ p.claimed \in Id \cup {NoTab} /\ p.creating \in Seq(SUBSET Id) /\ p.mods \in Id \cup {NoTab}
           /\ p.says \in Seq(Said) /\ p.outbox \in Seq(Said)
           /\ p.focus \in BOOLEAN /\ p.listing \in BOOLEAN /\ p.late \in BOOLEAN
BY DEF PageState

LEMMA TabsAreIds ==
    ASSUME NEW p \in PageState
    PROVE  Tabs(p) \in SUBSET Id
BY PageFields, ElementsIn DEF Tabs

(* The page shows the tab s, which it has. *)
Shows(p, q, s) ==
    /\ Speaks(p, q) /\ Sized(p, q) /\ q.outbox = p.outbox
    /\ q.tabs = p.tabs /\ q.active = s /\ q.mods = NoTab /\ q.att = p.att \cup {s}
    /\ q.creating = p.creating /\ q.late = p.late /\ q.listing = p.listing
    /\ s \in p.att \/ Attaching(s) \in ToSet(q.says)

LEMMA SwitchShows ==
    ASSUME NEW p \in PageState, NEW s \in Tabs(p)
    PROVE  Shows(p, SwitchTab(p, s), s)
<1>1. s \in Id
  BY TabsAreIds
<1> DEFINE q == [p EXCEPT !.active = s]
           r == IF s # p.active THEN TabActivated(q) ELSE q
           u == [r EXCEPT !.mods = NoTab]
<1>2. q \in PageState /\ q.says = p.says /\ Sized(p, q) /\ q.outbox = p.outbox
      /\ q.tabs = p.tabs /\ q.active = s /\ q.att = p.att
      /\ q.creating = p.creating /\ q.late = p.late /\ q.listing = p.listing
  BY <1>1 DEF PageState, Sized
<1>3. SwitchTab(p, s) = Follow(u, s)
  BY DEF SwitchTab
<1> HIDE DEF q
<1>4. Little(q, r)
  BY <1>2, ActivatesLittle, Nothing
<1> HIDE DEF r
<1>5. u \in PageState /\ u.says = r.says /\ Sized(r, u) /\ u.outbox = r.outbox
      /\ u.tabs = r.tabs /\ u.active = r.active /\ u.att = r.att /\ u.mods = NoTab
      /\ u.creating = r.creating /\ u.late = r.late /\ u.listing = r.listing
  BY <1>4 DEF PageState, Sized, Little, Speaks
<1> HIDE DEF u
<1> DEFINE v == Follow(u, s)
           w == [u EXCEPT !.att = u.att \cup {s}]
<1>6. Speaks(u, v) /\ Sized(u, v) /\ v.outbox = u.outbox /\ Rest(w, v)
      /\ (s \in u.att \/ Attaching(s) \in ToSet(v.says))
  BY <1>1, <1>5, FollowIs
<1>7. w.tabs = u.tabs /\ w.active = u.active /\ w.att = u.att \cup {s} /\ w.mods = u.mods
      /\ w.creating = u.creating /\ w.late = u.late /\ w.listing = u.listing
  BY <1>5 DEF PageState
<1> HIDE DEF v, w
<1>8. /\ v.tabs = p.tabs /\ v.active = s /\ v.mods = NoTab /\ v.att = p.att \cup {s}
      /\ v.creating = p.creating /\ v.late = p.late /\ v.listing = p.listing /\ v.outbox = p.outbox
  BY <1>2, <1>4, <1>5, <1>6, <1>7 DEF Little, Rest
<1>9. Sized(p, v)
  BY <1>2, <1>4, <1>5, <1>6 DEF Little, Sized
<1>10. Speaks(p, v) /\ (s \in p.att \/ Attaching(s) \in ToSet(v.says))
  BY <1>2, <1>4, <1>5, <1>6 DEF Little, Rest, Speaks
<1> QED
  BY <1>3, <1>8, <1>9, <1>10 DEF v, Shows

LEMMA CreateIs ==
    ASSUME NEW p \in PageState
    PROVE  /\ Speaks(p, CreateTab(p)) /\ Sized(p, CreateTab(p)) /\ CreateTab(p).outbox = p.outbox
           /\ Rest([p EXCEPT !.creating = Append(p.creating, p.known)], CreateTab(p))
<1> DEFINE q == [p EXCEPT !.creating = Append(p.creating, p.known)]
<1>1. Append(p.creating, p.known) \in Seq(SUBSET Id)
  BY PageFields
<1>2. q \in PageState /\ q.says = p.says /\ Sized(p, q) /\ q.outbox = p.outbox
  BY <1>1 DEF PageState, Sized
<1>3. CreateTab(p) = Say(q, "create", NoTab)
  BY DEF CreateTab
<1>4. "create" \in Kinds /\ NoTab \in Id \cup {NoTab}
  BY DEF Kinds
<1> HIDE DEF q
<1>5. Little(q, CreateTab(p))
  BY <1>2, <1>3, <1>4, SaysLittle
<1> QED
  BY <1>2, <1>5 DEF Little, Speaks, Sized, q

(* The tab s of the page goes. *)
Drops(p, q, s) ==
    /\ Speaks(p, q) /\ q.outbox = p.outbox
    /\ Tabs(q) = Tabs(p) \ {s} /\ q.listed = p.listed /\ q.known = p.known
    /\ q.late = p.late /\ q.listing = p.listing
    /\ \A t \in Id \ {s} : q.own[t] = p.own[t] /\ q.grid[t] = p.grid[t]
    /\ \/ /\ p.active # s /\ q.active = p.active /\ q.mods = p.mods
          /\ q.att = p.att /\ q.creating = p.creating
       \/ /\ q.active = NoTab /\ q.att = p.att /\ q.creating = Append(p.creating, p.known)
       \/ /\ q.active \in Tabs(q) /\ q.mods = NoTab /\ q.creating = p.creating
          /\ q.att = p.att \cup {q.active}
          /\ q.active \in p.att \/ Attaching(q.active) \in ToSet(q.says)

LEMMA DisposedIs ==
    ASSUME NEW p \in PageState, NEW s \in Id
    PROVE  LET q == Disposed(p, s)
           IN  /\ q \in PageState /\ q.says = p.says /\ q.outbox = p.outbox
               /\ Tabs(q) = Tabs(p) \ {s} /\ q.listed = p.listed /\ q.known = p.known
               /\ q.late = p.late /\ q.listing = p.listing /\ q.mods = p.mods /\ q.active = p.active
               /\ q.att = p.att /\ q.creating = p.creating
               /\ \A t \in Id \ {s} : q.own[t] = p.own[t] /\ q.grid[t] = p.grid[t]
<1> DEFINE ts == Chosen(p.tabs, Id \ {s})
<1>1. ts \in Seq(Id) /\ ToSet(ts) = Tabs(p) \ {s}
  <2>1. p.tabs \in Seq(Id) /\ Tabs(p) \in SUBSET Id
    BY PageFields, TabsAreIds
  <2>2. ts \in Seq(Id) /\ ToSet(ts) = ToSet(p.tabs) \cap (Id \ {s})
    BY <2>1, ChosenElements
  <2> QED
    BY <2>1, <2>2 DEF Tabs
<1> DEFINE own == [p.own EXCEPT ![s] = FALSE]
           alive == [p.alive EXCEPT ![s] = FALSE]
           screens == [p.shown EXCEPT ![s] = 0]
           whole == [p.whole EXCEPT ![s] = TRUE]
           grid == [p.grid EXCEPT ![s] = "other"]
<1>2. Disposed(p, s) = [p EXCEPT !.tabs = ts, !.own = own, !.alive = alive,
                                 !.shown = screens, !.whole = whole, !.grid = grid]
  BY DEF Disposed, PageState
<1>3. 0 \in 0 .. MaxOut /\ "other" \in Whose
  <2>1. MaxOut \in Nat
    BY PageAssumption
  <2> QED
    BY <2>1 DEF Whose
<1>4. /\ own \in [Id -> BOOLEAN] /\ alive \in [Id -> BOOLEAN] /\ screens \in [Id -> 0 .. MaxOut]
      /\ whole \in [Id -> BOOLEAN] /\ grid \in [Id -> Whose]
      /\ \A t \in Id \ {s} : own[t] = p.own[t] /\ grid[t] = p.grid[t]
  BY <1>3, PageFields
<1> HIDE DEF ts, own, alive, screens, whole, grid
<1> DEFINE q == [p EXCEPT !.tabs = ts, !.own = own, !.alive = alive, !.shown = screens, !.whole = whole, !.grid = grid]
<1>5. q \in PageState
  BY <1>1, <1>4 DEF PageState
<1>6. /\ q.tabs = ts /\ q.own = own /\ q.grid = grid
      /\ q.says = p.says /\ q.outbox = p.outbox /\ q.listed = p.listed /\ q.known = p.known
      /\ q.late = p.late /\ q.listing = p.listing /\ q.mods = p.mods /\ q.active = p.active
      /\ q.att = p.att /\ q.creating = p.creating
  BY DEF PageState
<1>7. Disposed(p, s) = q
  BY <1>2
<1> HIDE DEF q
<1>8. Tabs(q) = Tabs(p) \ {s}
  BY <1>1, <1>6 DEF Tabs
<1> QED
  BY <1>4, <1>5, <1>6, <1>7, <1>8

LEMMA DisposeDrops ==
    ASSUME NEW p \in PageState, NEW s \in Tabs(p)
    PROVE  Drops(p, DisposeTab(p, s), s)
<1> DEFINE q == Disposed(p, s)
<1>1. s \in Id
  BY TabsAreIds
<1>2. /\ q \in PageState /\ q.says = p.says /\ q.outbox = p.outbox
      /\ Tabs(q) = Tabs(p) \ {s} /\ q.listed = p.listed /\ q.known = p.known
      /\ q.late = p.late /\ q.listing = p.listing /\ q.mods = p.mods /\ q.active = p.active
      /\ q.att = p.att /\ q.creating = p.creating
      /\ \A t \in Id \ {s} : q.own[t] = p.own[t] /\ q.grid[t] = p.grid[t]
  BY <1>1, DisposedIs
<1>3. DisposeTab(p, s) = IF p.active # s THEN q
                         ELSE IF q.tabs # <<>> THEN SwitchTab(q, Last(q.tabs))
                         ELSE CreateTab([q EXCEPT !.active = NoTab])
  BY DEF DisposeTab
<1> HIDE DEF q
<1>4. CASE p.active # s
  BY <1>2, <1>3, <1>4 DEF Drops, Speaks
<1>5. CASE p.active = s /\ q.tabs # <<>>
  <2> DEFINE t == Last(q.tabs)
  <2>1. t \in Tabs(q)
    BY <1>2, <1>5, PageFields, LastElement DEF Tabs
  <2>2. DisposeTab(p, s) = SwitchTab(q, t)
    BY <1>3, <1>5
  <2> HIDE DEF t
  <2>3. Shows(q, SwitchTab(q, t), t)
    BY <1>2, <2>1, SwitchShows
  <2>4. Tabs(SwitchTab(q, t)) = Tabs(q)
    BY <2>3 DEF Shows, Tabs
  <2> QED
    BY <1>2, <2>1, <2>2, <2>3, <2>4 DEF Drops, Shows, Sized, Speaks
<1>6. CASE p.active = s /\ q.tabs = <<>>
  <2> DEFINE r == [q EXCEPT !.active = NoTab]
             c == [r EXCEPT !.creating = Append(r.creating, r.known)]
  <2>1. DisposeTab(p, s) = CreateTab(r)
    BY <1>3, <1>6
  <2>2. r \in PageState /\ r.says = q.says /\ r.outbox = q.outbox /\ r.tabs = q.tabs /\ r.active = NoTab
        /\ Sized(q, r) /\ r.att = q.att /\ r.creating = q.creating /\ r.late = q.late /\ r.listing = q.listing
    BY <1>2 DEF PageState, Sized
  <2> HIDE DEF r
  <2>3. Speaks(r, CreateTab(r)) /\ Sized(r, CreateTab(r)) /\ CreateTab(r).outbox = r.outbox /\ Rest(c, CreateTab(r))
    BY <2>2, CreateIs
  <2>4. c.tabs = r.tabs /\ c.active = r.active /\ c.att = r.att /\ c.late = r.late /\ c.listing = r.listing
        /\ c.creating = Append(r.creating, r.known)
    BY <2>2 DEF PageState
  <2> HIDE DEF c
  <2>5. Tabs(CreateTab(r)) = Tabs(q)
    BY <2>2, <2>3, <2>4 DEF Rest, Tabs
  <2> QED
    BY <1>2, <2>1, <2>2, <2>3, <2>4, <2>5 DEF Drops, Sized, Speaks, Rest
<1> QED
  BY <1>4, <1>5, <1>6

(* The page closes the tab s, which it has: says it, then drops the tab.    *)
Unfollows(p, q, s) ==
    /\ Speaks(p, q) /\ Sized(p, q) /\ q.outbox = p.outbox /\ q.tabs = p.tabs /\ q.active = p.active
    /\ q.mods = p.mods /\ q.creating = p.creating /\ q.late = p.late /\ q.listing = p.listing
    /\ q.att = p.att \ {s} /\ ClosingOf(s) \in ToSet(q.says)

LEMMA CloseDrops ==
    ASSUME NEW p \in PageState, NEW s \in Tabs(p)
    PROVE  \E q \in PageState : Unfollows(p, q, s) /\ Drops(q, CloseTab(p, s), s)
<1> DEFINE u == [p EXCEPT !.att = p.att \ {s}]
           q == Say(u, "close", s)
<1>1. s \in Id
  BY TabsAreIds
<1>2. u \in PageState /\ u.says = p.says /\ Sized(p, u) /\ u.outbox = p.outbox /\ u.tabs = p.tabs
      /\ u.active = p.active /\ u.mods = p.mods /\ u.creating = p.creating /\ u.late = p.late
      /\ u.listing = p.listing /\ u.att = p.att \ {s}
  BY DEF PageState, Sized
<1>3. CloseTab(p, s) = DisposeTab(q, s)
  BY DEF CloseTab
<1> HIDE DEF u
<1>4. "close" \in Kinds /\ s \in Id \cup {NoTab}
  BY <1>1 DEF Kinds
<1>5. /\ Speaks(u, q) /\ Rest(u, q) /\ Sized(u, q) /\ q.outbox = u.outbox
      /\ ClosingOf(s) \in ToSet(q.says)
  BY <1>2, <1>4, SayIs DEF ClosingOf
<1> HIDE DEF q
<1>6. Unfollows(p, q, s)
  BY <1>2, <1>5 DEF Unfollows, Speaks, Rest, Sized
<1>7. q \in PageState /\ s \in Tabs(q)
  BY <1>2, <1>5 DEF Speaks, Rest, Tabs
<1> QED
  BY <1>3, <1>6, <1>7, DisposeDrops

(* The tab s has the grid of its session, or sizes it. *)
Fixes(p, q, s) ==
    /\ q \in PageState /\ q.says = p.says /\ Rest(p, q) /\ q.outbox = p.outbox
    /\ q.own = p.own /\ q.listed = p.listed /\ q.known = p.known
    /\ \A t \in Id \ {s} : q.grid[t] = p.grid[t]
    /\ q.own[s] \/ q.grid[s] = q.listed[s]

LEMMA ApplyFixes ==
    ASSUME NEW p \in PageState, NEW s \in Id
    PROVE  Fixes(p, ApplyFollowGeometry(p, s), s)
<1>1. CASE p.own[s]
  BY <1>1 DEF ApplyFollowGeometry, Fixes, Rest
<1>2. CASE ~p.own[s]
  <2> DEFINE grid == [p.grid EXCEPT ![s] = p.listed[s]]
             q == [p EXCEPT !.grid = grid]
  <2>1. ApplyFollowGeometry(p, s) = q
    BY <1>2 DEF ApplyFollowGeometry, PageState
  <2>2. grid \in [Id -> Whose] /\ grid[s] = p.listed[s] /\ \A t \in Id \ {s} : grid[t] = p.grid[t]
    BY PageFields
  <2> HIDE DEF grid
  <2>3. q \in PageState /\ q.says = p.says /\ Rest(p, q) /\ q.outbox = p.outbox
        /\ q.own = p.own /\ q.listed = p.listed /\ q.known = p.known /\ q.grid = grid
    BY <2>2 DEF PageState, Rest
  <2> HIDE DEF q
  <2> QED
    BY <2>1, <2>2, <2>3 DEF Fixes
<1> QED
  BY <1>1, <1>2

(* The page has a tab for s. *)
Adopts(p, q, s) ==
    /\ q \in PageState /\ q.says = p.says /\ q.outbox = p.outbox /\ Tabs(q) = Tabs(p) \cup {s}
    /\ q.active = p.active /\ q.mods = p.mods /\ q.att = p.att /\ q.creating = p.creating
    /\ q.late = p.late /\ q.listing = p.listing /\ q.listed = p.listed /\ q.known = p.known

LEMMA AdoptAdopts ==
    ASSUME NEW p \in PageState, NEW s \in Id
    PROVE  Adopts(p, AdoptTab(p, s), s)
<1>1. CASE s \in Tabs(p)
  BY <1>1 DEF AdoptTab, Adopts
<1>2. CASE s \notin Tabs(p)
  <2> DEFINE tabs == Append(p.tabs, s)
             own == [p.own EXCEPT ![s] = s \in p.made]
             alive == [p.alive EXCEPT ![s] = TRUE]
             q == [p EXCEPT !.tabs = tabs, !.own = own, !.alive = alive]
  <2>1. NewTab(p, s) = q
    BY DEF NewTab, PageState
  <2>2. tabs \in Seq(Id) /\ ToSet(tabs) = Tabs(p) \cup {s}
    BY PageFields, AppendElements DEF Tabs
  <2>3. own \in [Id -> BOOLEAN] /\ alive \in [Id -> BOOLEAN]
    BY PageFields
  <2> HIDE DEF tabs, own, alive
  <2>4. q \in PageState
    BY <2>2, <2>3 DEF PageState
  <2>5. q.tabs = tabs /\ q.says = p.says /\ q.outbox = p.outbox
        /\ q.active = p.active /\ q.mods = p.mods /\ q.att = p.att /\ q.creating = p.creating
        /\ q.late = p.late /\ q.listing = p.listing /\ q.listed = p.listed /\ q.known = p.known
    BY DEF PageState
  <2> HIDE DEF q
  <2>6. AdoptTab(p, s) = ApplyFollowGeometry(q, s)
    BY <1>2, <2>1 DEF AdoptTab
  <2>7. Fixes(q, ApplyFollowGeometry(q, s), s)
    BY <2>4, ApplyFixes
  <2> QED
    BY <2>2, <2>5, <2>6, <2>7 DEF Fixes, Adopts, Rest, Tabs
<1> QED
  BY <1>1, <1>2

(* The page sizes s, or does not. *)
Owns(p, q, s, owner) ==
    /\ Speaks(p, q) /\ Rest(p, q) /\ q.outbox = p.outbox
    /\ q.grid = p.grid /\ q.listed = p.listed /\ q.known = p.known
    /\ q.own[s] = owner /\ \A t \in Id \ {s} : q.own[t] = p.own[t]

LEMMA SetOwns ==
    ASSUME NEW p \in PageState, NEW s \in Id, NEW owner \in BOOLEAN
    PROVE  Owns(p, SetGeometryOwner(p, s, owner), s, owner)
<1> DEFINE own == [p.own EXCEPT ![s] = owner]
           q == [p EXCEPT !.own = own]
           r == SetGeometryOwner(p, s, owner)
<1>1. r = IF owner /\ p.alive[s] THEN Say(q, "resize", s) ELSE q
  BY DEF SetGeometryOwner, PageState
<1>2. own \in [Id -> BOOLEAN] /\ own[s] = owner /\ \A t \in Id \ {s} : own[t] = p.own[t]
  BY PageFields
<1> HIDE DEF own
<1>3. q \in PageState /\ q.says = p.says /\ Rest(p, q) /\ q.outbox = p.outbox
      /\ q.grid = p.grid /\ q.listed = p.listed /\ q.known = p.known /\ q.own = own
  BY <1>2 DEF PageState, Rest
<1> HIDE DEF q
<1>4. "resize" \in Kinds /\ s \in Id \cup {NoTab}
  BY DEF Kinds
<1>5. Little(q, r)
  BY <1>1, <1>3, <1>4, SaysLittle, Nothing
<1> HIDE DEF r
<1>6. Owns(p, r, s, owner)
  BY <1>2, <1>3, <1>5 DEF Owns, Little, Speaks, Rest, Sized
<1> QED
  BY <1>6 DEF r

(* The session s, which the page asked for, has come. *)
LEMMA CreatedIs ==
    ASSUME NEW p \in PageState, NEW s \in Id
    PROVE  \E r \in PageState :
               /\ IF s \in Tabs(p) THEN Shows(p, r, s) ELSE r = p
               /\ Owns(r, CreatedTab(p, s), s, TRUE)
<1> DEFINE r == SwitchTab(p, s)
           u == [r EXCEPT !.made = r.made \cup {s}]
<1>1. IF s \in Tabs(p) THEN Shows(p, r, s) ELSE r = p
  <2>1. s \notin Tabs(p) => r = p
    BY DEF SwitchTab
  <2> QED
    BY <2>1, SwitchShows
<1>2. r \in PageState
  BY <1>1 DEF Shows, Speaks
<1>3. CreatedTab(p, s) = SetGeometryOwner(u, s, TRUE)
  BY DEF CreatedTab
<1> HIDE DEF r
<1>4. u \in PageState /\ u.says = r.says /\ Rest(r, u) /\ u.outbox = r.outbox
      /\ u.grid = r.grid /\ u.listed = r.listed /\ u.known = r.known /\ u.own = r.own
  BY <1>2 DEF PageState, Rest
<1> HIDE DEF u
<1>5. Owns(u, CreatedTab(p, s), s, TRUE)
  BY <1>3, <1>4, SetOwns
<1>6. Owns(r, CreatedTab(p, s), s, TRUE)
  BY <1>4, <1>5 DEF Owns, Speaks, Rest
<1> QED
  BY <1>1, <1>2, <1>6

LEMMA DisposeTabType ==
    ASSUME NEW p \in PageState, NEW s \in Id
    PROVE  DisposeTab(p, s) \in PageState
<1>1. s \notin Tabs(p) => DisposeTab(p, s) = p
  BY DEF DisposeTab
<1> QED
  BY <1>1, DisposeDrops DEF Drops, Speaks

LEMMA FreshIs ==
    ASSUME NEW tabs \in Seq(Id), NEW base
    PROVE  /\ ToSet(tabs) \subseteq base => Fresh(tabs, base) = <<>>
           /\ Fresh(tabs, base) = <<>> => ToSet(tabs) \subseteq base
           /\ Fresh(tabs, base) # <<>> => Head(Fresh(tabs, base)) \in ToSet(tabs)
<1> DEFINE fs == Fresh(tabs, base)
<1>1. ToSet(tabs) \in SUBSET Id
  BY ElementsIn
<1>2. fs \in Seq(Id) /\ ToSet(fs) = ToSet(tabs) \cap (Id \ base)
  BY ChosenElements DEF Fresh
<1> HIDE DEF fs
<1>3. fs = <<>> => ToSet(fs) = {}
  BY NoElements
<1>4. fs # <<>> => ToSet(fs) # {} /\ Head(fs) \in ToSet(fs)
  BY <1>2, SomeElement, TailElements
<1>5. /\ ToSet(tabs) \subseteq base => fs = <<>>
      /\ fs = <<>> => ToSet(tabs) \subseteq base
      /\ fs # <<>> => Head(fs) \in ToSet(tabs)
  BY <1>1, <1>2, <1>3, <1>4
<1> QED
  BY <1>5 DEF fs

LEMMA SettleType ==
    ASSUME NEW p \in PageState, NEW base \in SUBSET Id, NEW tabs \in Seq(Id)
    PROVE  Resolve(p, tabs, base) \in PageState
<1>1. Fresh(tabs, base) # <<>> => Head(Fresh(tabs, base)) \in Id
  BY FreshIs, ElementsIn
<1> QED
  BY <1>1, CreatedIs DEF Resolve, Owns, Speaks

(* Tabs go one after the other. *)
LEMMA DisposeGoes ==
    ASSUME NEW p \in PageState, NEW q \in Seq(Id)
    PROVE  \E f \in [0 .. Len(q) -> PageState] :
               /\ f[0] = p /\ f[Len(q)] = FoldLeft(DisposeTab, p, q)
               /\ \A i \in 1 .. Len(q) : f[i] = DisposeTab(f[i - 1], q[i])
<1> DEFINE n == Len(q)
           P == PageState
           E == Id
           o == [x \in P \X E |-> DisposeTab(x[1], x[2])]
           F(h) == [s \in SUBSET (1 .. n) |-> IF s = {} THEN p ELSE DisposeTab(h[s \ {Max(s)}], q[Max(s)])]
<1>1. n \in Nat /\ q \in [1 .. n -> E] /\ DOMAIN q = 1 .. n
  BY SeqIsFunction
<1>2. FoldLeft(DisposeTab, p, q) = (CHOOSE h : h = F(h))[1 .. n]
  BY <1>1 DEF FoldLeft, MapThenFoldSet
<1>3. \A x \in P, y \in E : DisposeTab(x, y) \in P
  BY DisposeTabType
<1>4. o \in [P \X E -> P] /\ p \in P
  BY <1>3
<1>5. ASSUME NEW x \in P, NEW y \in E PROVE o[<<x, y>>] = DisposeTab(x, y)
  OBVIOUS
<1>6. ASSUME NEW s \in SUBSET (1 .. n), s # {} PROVE q[Max(s)] \in E /\ s \ {Max(s)} \in SUBSET (1 .. n)
  BY <1>1, <1>6, MaxIsIn
<1> HIDE DEF n, P, E, o
<1>7. PICK g \in [SUBSET (1 .. n) -> P] : Tabled(g, o, p, n, q)
  <2>1. Tables(P, o, p, n, q)
    BY <1>1, <1>4, FoldTable
  <2> QED
    BY <2>1 DEF Tables
<1>8. g = F(g)
  <2>1. ASSUME NEW s \in SUBSET (1 .. n), s # {} PROVE g[s] = DisposeTab(g[s \ {Max(s)}], q[Max(s)])
    BY <1>5, <1>6, <1>7, <2>1 DEF Tabled
  <2> QED
    BY <1>7, <2>1 DEF Tabled
<1> DEFINE h == CHOOSE h : h = F(h)
<1>9. h = F(h)
  <2> HIDE DEF F
  <2> QED
    BY <1>8
<1> HIDE DEF h
<1>10. \A s \in SUBSET (1 .. n) : s = {} => h[s] = p
  BY <1>9
<1>11. ASSUME NEW s \in SUBSET (1 .. n), s # {}, h[s \ {Max(s)}] \in P
       PROVE  h[s] = o[<<h[s \ {Max(s)}], q[Max(s)]>>]
  <2>1. h[s] = DisposeTab(h[s \ {Max(s)}], q[Max(s)])
    BY <1>9, <1>11
  <2> HIDE DEF F
  <2> QED
    BY <1>5, <1>6, <1>11, <2>1
<1> HIDE DEF F
<1>12. PICK f \in [0 .. n -> P] : Stepwise(f, o, p, n, q) /\ f[n] = h[1 .. n]
  <2>1. Goes(P, o, p, n, q, h[1 .. n])
    BY <1>1, <1>4, <1>10, <1>11, FoldSteps
  <2> QED
    BY <2>1 DEF Goes
<1>13. ASSUME NEW i \in 1 .. n PROVE f[i] = DisposeTab(f[i - 1], q[i])
  <2>1. i - 1 \in 0 .. n
    BY <1>1
  <2>2. f[i - 1] \in P /\ q[i] \in E
    BY <1>1, <1>12, <2>1
  <2> QED
    BY <1>5, <1>12, <2>2 DEF Stepwise
<1>14. f[n] = FoldLeft(DisposeTab, p, q)
  BY <1>2, <1>12 DEF h
<1> QED
  BY <1>12, <1>13, <1>14 DEF n, P, Stepwise

(* Tabs come one after the other. *)
LEMMA AdoptGoes ==
    ASSUME NEW p \in PageState, NEW q \in Seq(Id)
    PROVE  \E f \in [0 .. Len(q) -> PageState] :
               /\ f[0] = p /\ f[Len(q)] = FoldLeft(AdoptTab, p, q)
               /\ \A i \in 1 .. Len(q) : f[i] = AdoptTab(f[i - 1], q[i])
<1> DEFINE n == Len(q)
           P == PageState
           E == Id
           o == [x \in P \X E |-> AdoptTab(x[1], x[2])]
           F(h) == [s \in SUBSET (1 .. n) |-> IF s = {} THEN p ELSE AdoptTab(h[s \ {Max(s)}], q[Max(s)])]
<1>1. n \in Nat /\ q \in [1 .. n -> E] /\ DOMAIN q = 1 .. n
  BY SeqIsFunction
<1>2. FoldLeft(AdoptTab, p, q) = (CHOOSE h : h = F(h))[1 .. n]
  BY <1>1 DEF FoldLeft, MapThenFoldSet
<1>3. \A x \in P, y \in E : AdoptTab(x, y) \in P
  BY AdoptAdopts DEF Adopts
<1>4. o \in [P \X E -> P] /\ p \in P
  BY <1>3
<1>5. ASSUME NEW x \in P, NEW y \in E PROVE o[<<x, y>>] = AdoptTab(x, y)
  OBVIOUS
<1>6. ASSUME NEW s \in SUBSET (1 .. n), s # {} PROVE q[Max(s)] \in E /\ s \ {Max(s)} \in SUBSET (1 .. n)
  BY <1>1, <1>6, MaxIsIn
<1> HIDE DEF n, P, E, o
<1>7. PICK g \in [SUBSET (1 .. n) -> P] : Tabled(g, o, p, n, q)
  <2>1. Tables(P, o, p, n, q)
    BY <1>1, <1>4, FoldTable
  <2> QED
    BY <2>1 DEF Tables
<1>8. g = F(g)
  <2>1. ASSUME NEW s \in SUBSET (1 .. n), s # {} PROVE g[s] = AdoptTab(g[s \ {Max(s)}], q[Max(s)])
    BY <1>5, <1>6, <1>7, <2>1 DEF Tabled
  <2> QED
    BY <1>7, <2>1 DEF Tabled
<1> DEFINE h == CHOOSE h : h = F(h)
<1>9. h = F(h)
  <2> HIDE DEF F
  <2> QED
    BY <1>8
<1> HIDE DEF h
<1>10. \A s \in SUBSET (1 .. n) : s = {} => h[s] = p
  BY <1>9
<1>11. ASSUME NEW s \in SUBSET (1 .. n), s # {}, h[s \ {Max(s)}] \in P
       PROVE  h[s] = o[<<h[s \ {Max(s)}], q[Max(s)]>>]
  <2>1. h[s] = AdoptTab(h[s \ {Max(s)}], q[Max(s)])
    BY <1>9, <1>11
  <2> HIDE DEF F
  <2> QED
    BY <1>5, <1>6, <1>11, <2>1
<1> HIDE DEF F
<1>12. PICK f \in [0 .. n -> P] : Stepwise(f, o, p, n, q) /\ f[n] = h[1 .. n]
  <2>1. Goes(P, o, p, n, q, h[1 .. n])
    BY <1>1, <1>4, <1>10, <1>11, FoldSteps
  <2> QED
    BY <2>1 DEF Goes
<1>13. ASSUME NEW i \in 1 .. n PROVE f[i] = AdoptTab(f[i - 1], q[i])
  <2>1. i - 1 \in 0 .. n
    BY <1>1
  <2>2. f[i - 1] \in P /\ q[i] \in E
    BY <1>1, <1>12, <2>1
  <2> QED
    BY <1>5, <1>12, <2>2 DEF Stepwise
<1>14. f[n] = FoldLeft(AdoptTab, p, q)
  BY <1>2, <1>12 DEF h
<1> QED
  BY <1>12, <1>13, <1>14 DEF n, P, Stepwise

(* Grids are fixed one after the other. *)
LEMMA ApplyGoes ==
    ASSUME NEW p \in PageState, NEW q \in Seq(Id)
    PROVE  \E f \in [0 .. Len(q) -> PageState] :
               /\ f[0] = p /\ f[Len(q)] = FoldLeft(ApplyFollowGeometry, p, q)
               /\ \A i \in 1 .. Len(q) : f[i] = ApplyFollowGeometry(f[i - 1], q[i])
<1> DEFINE n == Len(q)
           P == PageState
           E == Id
           o == [x \in P \X E |-> ApplyFollowGeometry(x[1], x[2])]
           F(h) == [s \in SUBSET (1 .. n) |-> IF s = {} THEN p ELSE ApplyFollowGeometry(h[s \ {Max(s)}], q[Max(s)])]
<1>1. n \in Nat /\ q \in [1 .. n -> E] /\ DOMAIN q = 1 .. n
  BY SeqIsFunction
<1>2. FoldLeft(ApplyFollowGeometry, p, q) = (CHOOSE h : h = F(h))[1 .. n]
  BY <1>1 DEF FoldLeft, MapThenFoldSet
<1>3. \A x \in P, y \in E : ApplyFollowGeometry(x, y) \in P
  BY ApplyFixes DEF Fixes
<1>4. o \in [P \X E -> P] /\ p \in P
  BY <1>3
<1>5. ASSUME NEW x \in P, NEW y \in E PROVE o[<<x, y>>] = ApplyFollowGeometry(x, y)
  OBVIOUS
<1>6. ASSUME NEW s \in SUBSET (1 .. n), s # {} PROVE q[Max(s)] \in E /\ s \ {Max(s)} \in SUBSET (1 .. n)
  BY <1>1, <1>6, MaxIsIn
<1> HIDE DEF n, P, E, o
<1>7. PICK g \in [SUBSET (1 .. n) -> P] : Tabled(g, o, p, n, q)
  <2>1. Tables(P, o, p, n, q)
    BY <1>1, <1>4, FoldTable
  <2> QED
    BY <2>1 DEF Tables
<1>8. g = F(g)
  <2>1. ASSUME NEW s \in SUBSET (1 .. n), s # {} PROVE g[s] = ApplyFollowGeometry(g[s \ {Max(s)}], q[Max(s)])
    BY <1>5, <1>6, <1>7, <2>1 DEF Tabled
  <2> QED
    BY <1>7, <2>1 DEF Tabled
<1> DEFINE h == CHOOSE h : h = F(h)
<1>9. h = F(h)
  <2> HIDE DEF F
  <2> QED
    BY <1>8
<1> HIDE DEF h
<1>10. \A s \in SUBSET (1 .. n) : s = {} => h[s] = p
  BY <1>9
<1>11. ASSUME NEW s \in SUBSET (1 .. n), s # {}, h[s \ {Max(s)}] \in P
       PROVE  h[s] = o[<<h[s \ {Max(s)}], q[Max(s)]>>]
  <2>1. h[s] = ApplyFollowGeometry(h[s \ {Max(s)}], q[Max(s)])
    BY <1>9, <1>11
  <2> HIDE DEF F
  <2> QED
    BY <1>5, <1>6, <1>11, <2>1
<1> HIDE DEF F
<1>12. PICK f \in [0 .. n -> P] : Stepwise(f, o, p, n, q) /\ f[n] = h[1 .. n]
  <2>1. Goes(P, o, p, n, q, h[1 .. n])
    BY <1>1, <1>4, <1>10, <1>11, FoldSteps
  <2> QED
    BY <2>1 DEF Goes
<1>13. ASSUME NEW i \in 1 .. n PROVE f[i] = ApplyFollowGeometry(f[i - 1], q[i])
  <2>1. i - 1 \in 0 .. n
    BY <1>1
  <2>2. f[i - 1] \in P /\ q[i] \in E
    BY <1>1, <1>12, <2>1
  <2> QED
    BY <1>5, <1>12, <2>2 DEF Stepwise
<1>14. f[n] = FoldLeft(ApplyFollowGeometry, p, q)
  BY <1>2, <1>12 DEF h
<1> QED
  BY <1>12, <1>13, <1>14 DEF n, P, Stepwise

(* Promises are settled one after the other. *)
LEMMA SettleGoes ==
    ASSUME NEW p \in PageState, NEW q \in Seq(SUBSET Id), NEW tabs \in Seq(Id)
    PROVE  \E f \in [0 .. Len(q) -> PageState] :
               /\ f[0] = p /\ f[Len(q)] = FoldLeft(LAMBDA r, base : Resolve(r, tabs, base), p, q)
               /\ \A i \in 1 .. Len(q) : f[i] = Resolve(f[i - 1], tabs, q[i])
<1> DEFINE n == Len(q)
           P == PageState
           E == SUBSET Id
           o == [x \in P \X E |-> Resolve(x[1], tabs, x[2])]
           F(h) == [s \in SUBSET (1 .. n) |-> IF s = {} THEN p ELSE Resolve(h[s \ {Max(s)}], tabs, q[Max(s)])]
<1>1. n \in Nat /\ q \in [1 .. n -> E] /\ DOMAIN q = 1 .. n
  BY SeqIsFunction
<1>2. FoldLeft(LAMBDA r, base : Resolve(r, tabs, base), p, q) = (CHOOSE h : h = F(h))[1 .. n]
  BY <1>1 DEF FoldLeft, MapThenFoldSet
<1>3. \A x \in P, y \in E : Resolve(x, tabs, y) \in P
  BY SettleType
<1>4. o \in [P \X E -> P] /\ p \in P
  BY <1>3
<1>5. ASSUME NEW x \in P, NEW y \in E PROVE o[<<x, y>>] = Resolve(x, tabs, y)
  OBVIOUS
<1>6. ASSUME NEW s \in SUBSET (1 .. n), s # {} PROVE q[Max(s)] \in E /\ s \ {Max(s)} \in SUBSET (1 .. n)
  BY <1>1, <1>6, MaxIsIn
<1> HIDE DEF n, P, E, o
<1>7. PICK g \in [SUBSET (1 .. n) -> P] : Tabled(g, o, p, n, q)
  <2>1. Tables(P, o, p, n, q)
    BY <1>1, <1>4, FoldTable
  <2> QED
    BY <2>1 DEF Tables
<1>8. g = F(g)
  <2>1. ASSUME NEW s \in SUBSET (1 .. n), s # {} PROVE g[s] = Resolve(g[s \ {Max(s)}], tabs, q[Max(s)])
    BY <1>5, <1>6, <1>7, <2>1 DEF Tabled
  <2> QED
    BY <1>7, <2>1 DEF Tabled
<1> DEFINE h == CHOOSE h : h = F(h)
<1>9. h = F(h)
  <2> HIDE DEF F
  <2> QED
    BY <1>8
<1> HIDE DEF h
<1>10. \A s \in SUBSET (1 .. n) : s = {} => h[s] = p
  BY <1>9
<1>11. ASSUME NEW s \in SUBSET (1 .. n), s # {}, h[s \ {Max(s)}] \in P
       PROVE  h[s] = o[<<h[s \ {Max(s)}], q[Max(s)]>>]
  <2>1. h[s] = Resolve(h[s \ {Max(s)}], tabs, q[Max(s)])
    BY <1>9, <1>11
  <2> HIDE DEF F
  <2> QED
    BY <1>5, <1>6, <1>11, <2>1
<1> HIDE DEF F
<1>12. PICK f \in [0 .. n -> P] : Stepwise(f, o, p, n, q) /\ f[n] = h[1 .. n]
  <2>1. Goes(P, o, p, n, q, h[1 .. n])
    BY <1>1, <1>4, <1>10, <1>11, FoldSteps
  <2> QED
    BY <2>1 DEF Goes
<1>13. ASSUME NEW i \in 1 .. n PROVE f[i] = Resolve(f[i - 1], tabs, q[i])
  <2>1. i - 1 \in 0 .. n
    BY <1>1
  <2>2. f[i - 1] \in P /\ q[i] \in E
    BY <1>1, <1>12, <2>1
  <2> QED
    BY <1>5, <1>12, <2>2 DEF Stepwise
<1>14. f[n] = FoldLeft(LAMBDA r, base : Resolve(r, tabs, base), p, q)
  BY <1>2, <1>12 DEF h
<1> QED
  BY <1>12, <1>13, <1>14 DEF n, P, Stepwise

-----------------------------------------------------------------------------
(* What is kept by all the page does *)

(* The tab the user looks at is one the page has, follows unless it is none *)
(* of L, and the only one with modifiers; a session the page follows is one *)
(* of A or the page has said so; no session is out of B.                    *)
Fit(p, L, A, B) ==
    /\ p \in PageState
    /\ p.active # NoTab => /\ p.active \in Tabs(p) /\ p.mods \in {NoTab, p.active}
                           /\ p.active \in p.att \/ p.active \notin L
    /\ \A s \in p.att : s \in A \/ Attaching(s) \in ToSet(p.says)
    /\ Tabs(p) \subseteq B /\ p.att \subseteq B

(* A page that shows nothing waits for something, or has failed to get it. *)
Busy(p) == p.active = NoTab => p.listing \/ p.late \/ p.creating # <<>>

GridFits(p, s) == p.own[s] \/ p.grid[s] = p.listed[s]

(* All tabs in S draw with the grid of their session, or size it.          *)
Gridded(p, S) == \A s \in Tabs(p) \cap S : GridFits(p, s)

LEMMA SpeaksFit ==
    ASSUME NEW p, NEW q, NEW L, NEW A, NEW B, Fit(p, L, A, B), Speaks(p, q), Rest(p, q)
    PROVE  Fit(q, L, A, B) /\ (Busy(p) => Busy(q))
BY DEF Fit, Speaks, Rest, Busy, Tabs

LEMMA ShowsFit ==
    ASSUME NEW p, NEW q, NEW L, NEW A, NEW B, NEW s \in Tabs(p), Fit(p, L, A, B), Shows(p, q, s)
    PROVE  Fit(q, L, A, B) /\ Busy(q) /\ \A S : Gridded(p, S) => Gridded(q, S)
<1>1. Tabs(q) = Tabs(p) /\ s \in Id /\ s # NoTab
  BY TabsAreIds, NoTabIsNone DEF Shows, Tabs, Fit
<1>2. Fit(q, L, A, B)
  BY <1>1 DEF Fit, Shows, Speaks
<1>3. \A S : Gridded(p, S) => Gridded(q, S)
  BY <1>1 DEF Shows, Sized, Gridded, GridFits
<1> QED
  BY <1>1, <1>2, <1>3 DEF Busy, Shows

LEMMA DropsFit ==
    ASSUME NEW p, NEW q, NEW L, NEW A, NEW B, NEW s \in Tabs(p), Fit(p, L \ {s}, A, B), Drops(p, q, s), Busy(p)
    PROVE  Fit(q, L, A, B) /\ Busy(q) /\ \A S : Gridded(p, S) => Gridded(q, S)
<1>1. Tabs(q) = Tabs(p) \ {s} /\ Tabs(p) \in SUBSET Id /\ p \in PageState /\ q \in PageState
  BY TabsAreIds DEF Drops, Fit, Speaks
<1>2. \A S : Gridded(p, S) => Gridded(q, S)
  BY <1>1 DEF Drops, Gridded, GridFits
<1>3. CASE p.active # s /\ q.active = p.active /\ q.mods = p.mods /\ q.att = p.att /\ q.creating = p.creating
  <2>1. Fit(q, L, A, B)
    BY <1>1, <1>3 DEF Fit, Drops, Speaks
  <2>2. Busy(q)
    BY <1>3 DEF Busy, Drops
  <2> QED
    BY <1>2, <2>1, <2>2
<1>4. CASE q.active = NoTab /\ q.att = p.att /\ q.creating = Append(p.creating, p.known)
  <2>1. Fit(q, L, A, B)
    BY <1>1, <1>4 DEF Fit, Drops, Speaks
  <2>2. Append(p.creating, p.known) # <<>>
    <3>1. p.creating \in Seq(SUBSET Id) /\ p.known \in SUBSET Id
      BY <1>1, PageFields
    <3> QED
      BY <3>1, AppendElements
  <2> QED
    BY <1>2, <1>4, <2>1, <2>2 DEF Busy
<1>5. CASE /\ q.active \in Tabs(q) /\ q.mods = NoTab /\ q.creating = p.creating
           /\ q.att = p.att \cup {q.active}
           /\ q.active \in p.att \/ Attaching(q.active) \in ToSet(q.says)
  <2>1. q.active # NoTab
    BY <1>1, <1>5, NoTabIsNone
  <2>2. Fit(q, L, A, B)
    BY <1>1, <1>5, <2>1 DEF Fit, Drops, Speaks
  <2> QED
    BY <1>2, <2>1, <2>2 DEF Busy
<1> QED
  BY <1>3, <1>4, <1>5 DEF Drops

LEMMA FixesFit ==
    ASSUME NEW p, NEW q, NEW L, NEW A, NEW B, NEW s, Fit(p, L, A, B), Fixes(p, q, s)
    PROVE  /\ Fit(q, L, A, B) /\ (Busy(p) => Busy(q))
           /\ Tabs(q) = Tabs(p) /\ GridFits(q, s)
           /\ \A t \in Id : GridFits(p, t) => GridFits(q, t)
<1>1. Speaks(p, q)
  BY DEF Fixes, Speaks
<1>2. Fit(q, L, A, B) /\ (Busy(p) => Busy(q))
  BY <1>1, SpeaksFit DEF Fixes
<1> QED
  BY <1>2 DEF Fixes, GridFits, Tabs, Rest

LEMMA AdoptsFit ==
    ASSUME NEW p, NEW q, NEW L, NEW A, NEW B, NEW s \in B, Fit(p, L, A, B), Adopts(p, q, s)
    PROVE  Fit(q, L, A, B) /\ (Busy(p) => Busy(q))
BY DEF Fit, Adopts, Busy

LEMMA OwnsFit ==
    ASSUME NEW p, NEW q, NEW L, NEW A, NEW B, NEW s, Fit(p, L, A, B), Owns(p, q, s, TRUE)
    PROVE  /\ Fit(q, L, A, B) /\ (Busy(p) => Busy(q)) /\ Tabs(q) = Tabs(p)
           /\ \A S \in SUBSET Id : Gridded(p, S) => Gridded(q, S)
<1>1. Fit(q, L, A, B) /\ (Busy(p) => Busy(q))
  BY SpeaksFit DEF Owns
<1>2. Tabs(q) = Tabs(p)
  BY DEF Owns, Rest, Tabs
<1>3. \A S \in SUBSET Id : Gridded(p, S) => Gridded(q, S)
  BY <1>2 DEF Owns, Gridded, GridFits
<1> QED
  BY <1>1, <1>2, <1>3

(* What a list leaves as it is. *)
Kept(p, q) ==
    /\ Speaks(p, q) /\ q.outbox = p.outbox /\ q.listed = p.listed /\ q.known = p.known
    /\ q.late = p.late /\ q.listing = p.listing

LEMMA KeptChain ==
    ASSUME NEW p, NEW q, NEW r, Kept(p, q), Kept(q, r)
    PROVE  Kept(p, r)
BY DEF Kept, Speaks

LEMMA KeptSelf ==
    ASSUME NEW p \in PageState
    PROVE  Kept(p, p)
BY DEF Kept, Speaks

(* What a list asks for. *)
Grown(p, q) ==
    /\ ToSet(p.creating) \subseteq ToSet(q.creating)
    /\ ToSet(q.creating) \subseteq ToSet(p.creating) \cup {p.known}

LEMMA DropsKept ==
    ASSUME NEW p \in PageState, NEW q, NEW s, Drops(p, q, s)
    PROVE  Kept(p, q) /\ Grown(p, q)
<1>1. Kept(p, q)
  BY DEF Kept, Drops
<1>2. p.creating \in Seq(SUBSET Id) /\ p.known \in SUBSET Id
  BY PageFields
<1>3. ToSet(Append(p.creating, p.known)) = ToSet(p.creating) \cup {p.known}
  BY <1>2, AppendElements
<1>4. q.creating = p.creating \/ q.creating = Append(p.creating, p.known)
  BY DEF Drops
<1> QED
  BY <1>1, <1>3, <1>4 DEF Grown

LEMMA GrownChain ==
    ASSUME NEW p, NEW q, NEW r, Grown(p, q), Grown(q, r), q.known = p.known
    PROVE  Grown(p, r)
BY DEF Grown

(* The first i elements of q. *)
First(q, i) == {q[j] : j \in 1 .. i}

LEMMA FirstGrows ==
    ASSUME NEW E, NEW q \in Seq(E)
    PROVE  /\ First(q, 0) = {} /\ First(q, Len(q)) = ToSet(q)
           /\ \A i \in 1 .. Len(q) : First(q, i) = First(q, i - 1) \cup {q[i]}
<1>1. First(q, 0) = {}
  BY DEF First
<1>2. DOMAIN q = 1 .. Len(q)
  OBVIOUS
<1>3. ASSUME NEW i \in 1 .. Len(q) PROVE First(q, i) = First(q, i - 1) \cup {q[i]}
  <2>1. 1 .. i = (1 .. i - 1) \cup {i}
    OBVIOUS
  <2> QED
    BY <2>1 DEF First
<1>4. First(q, Len(q)) = ToSet(q)
  BY <1>2 DEF First, ToSet
<1> QED
  BY <1>1, <1>3, <1>4

LEMMA DisposedAll ==
    ASSUME NEW p, NEW q \in Seq(Id), NEW L, NEW A, NEW B, Fit(p, L, A, B), Busy(p)
    PROVE  LET r == FoldLeft(DisposeTab, p, q)
           IN  Fit(r, L, A, B) /\ Busy(r) /\ Kept(p, r) /\ Grown(p, r) /\ Tabs(r) = Tabs(p) \ ToSet(q)
<1> DEFINE n == Len(q)
           Phi(r, i) == /\ Fit(r, L, A, B) /\ Busy(r) /\ Kept(p, r) /\ Grown(p, r)
                        /\ Tabs(r) = Tabs(p) \ First(q, i)
<1>1. p \in PageState /\ n \in Nat
  BY SeqIsFunction DEF Fit
<1>2. PICK f \in [0 .. n -> PageState] :
          /\ f[0] = p /\ f[n] = FoldLeft(DisposeTab, p, q)
          /\ \A i \in 1 .. n : f[i] = DisposeTab(f[i - 1], q[i])
  BY <1>1, DisposeGoes
<1> DEFINE U == {i \in 0 .. n : Phi(f[i], i)}
<1>3. 0 \in U
  <2>1. Phi(p, 0)
    BY <1>1, FirstGrows, KeptSelf DEF Grown
  <2> HIDE DEF Phi
  <2> QED
    BY <1>1, <1>2, <2>1
<1>4. ASSUME NEW i \in 1 .. n, i - 1 \in U PROVE i \in U
  <2> DEFINE a == f[i - 1]
             b == f[i]
             s == q[i]
  <2>1. i \in 0 .. n /\ i - 1 \in 0 .. n
    BY <1>1
  <2>2. a \in PageState /\ s \in Id /\ b = DisposeTab(a, s) /\ Phi(a, i - 1)
    BY <1>2, <1>4, <2>1, SeqIsFunction
  <2>3. First(q, i) = First(q, i - 1) \cup {s}
    BY FirstGrows
  <2> HIDE DEF a, b, s
  <2>4. Phi(b, i)
    <3>1. CASE s \in Tabs(a)
      <4>1. Drops(a, b, s) /\ Fit(a, L \ {s}, A, B)
        BY <2>2, <3>1, DisposeDrops DEF Fit
      <4>2. Fit(b, L, A, B) /\ Busy(b)
        BY <2>2, <3>1, <4>1, DropsFit
      <4>3. Kept(a, b) /\ Grown(a, b)
        BY <2>2, <4>1, DropsKept
      <4>4. Kept(p, b) /\ Grown(p, b)
        BY <2>2, <4>3, KeptChain, GrownChain DEF Kept
      <4> QED
        BY <2>2, <2>3, <4>1, <4>2, <4>4 DEF Drops
    <3>2. CASE s \notin Tabs(a)
      <4>1. b = a
        BY <2>2, <3>2 DEF DisposeTab
      <4> QED
        BY <2>2, <2>3, <3>2, <4>1
    <3> QED
      BY <3>1, <3>2
  <2> HIDE DEF Phi
  <2> QED
    BY <2>1, <2>4 DEF b
<1>5. U = 0 .. n
  <2>1. U \in SUBSET (0 .. n)
    OBVIOUS
  <2> HIDE DEF U
  <2> QED
    BY <1>1, <1>3, <1>4, <2>1, Climbs
<1>6. n \in 0 .. n
  BY <1>1
<1>7. Phi(f[n], n)
  <2> HIDE DEF Phi
  <2> QED
    BY <1>5, <1>6
<1>8. First(q, n) = ToSet(q)
  BY FirstGrows
<1> QED
  BY <1>2, <1>7, <1>8

LEMMA AdoptedAll ==
    ASSUME NEW p, NEW q \in Seq(Id), NEW L, NEW A, NEW B, Fit(p, L, A, B), Busy(p), ToSet(q) \subseteq B
    PROVE  LET r == FoldLeft(AdoptTab, p, q)
           IN  /\ Fit(r, L, A, B) /\ Busy(r) /\ Kept(p, r) /\ r.creating = p.creating
               /\ Tabs(r) = Tabs(p) \cup ToSet(q)
<1> DEFINE n == Len(q)
           Phi(r, i) == /\ Fit(r, L, A, B) /\ Busy(r) /\ Kept(p, r) /\ r.creating = p.creating
                        /\ Tabs(r) = Tabs(p) \cup First(q, i)
<1>1. p \in PageState /\ n \in Nat
  BY SeqIsFunction DEF Fit
<1>2. PICK f \in [0 .. n -> PageState] :
          /\ f[0] = p /\ f[n] = FoldLeft(AdoptTab, p, q)
          /\ \A i \in 1 .. n : f[i] = AdoptTab(f[i - 1], q[i])
  BY <1>1, AdoptGoes
<1> DEFINE U == {i \in 0 .. n : Phi(f[i], i)}
<1>3. 0 \in U
  <2>1. Phi(p, 0)
    BY <1>1, FirstGrows, KeptSelf
  <2> HIDE DEF Phi
  <2> QED
    BY <1>1, <1>2, <2>1
<1>4. ASSUME NEW i \in 1 .. n, i - 1 \in U PROVE i \in U
  <2> DEFINE a == f[i - 1]
             b == f[i]
             s == q[i]
  <2>1. i \in 0 .. n /\ i - 1 \in 0 .. n
    BY <1>1
  <2>2. a \in PageState /\ s \in Id /\ b = AdoptTab(a, s) /\ Phi(a, i - 1)
    BY <1>2, <1>4, <2>1, SeqIsFunction
  <2>3. First(q, i) = First(q, i - 1) \cup {s}
    BY FirstGrows
  <2>4. s \in B
    BY ElementAt
  <2> HIDE DEF a, b, s
  <2>5. Adopts(a, b, s)
    BY <2>2, AdoptAdopts
  <2>6. Fit(b, L, A, B) /\ Busy(b)
    BY <2>2, <2>4, <2>5, AdoptsFit
  <2>7. Kept(a, b)
    BY <2>5 DEF Adopts, Kept, Speaks
  <2>8. Kept(p, b)
    BY <2>2, <2>7, KeptChain
  <2>9. Phi(b, i)
    BY <2>2, <2>3, <2>5, <2>6, <2>8 DEF Adopts
  <2> HIDE DEF Phi
  <2> QED
    BY <2>1, <2>9 DEF b
<1>5. U = 0 .. n
  <2>1. U \in SUBSET (0 .. n)
    OBVIOUS
  <2> HIDE DEF U
  <2> QED
    BY <1>1, <1>3, <1>4, <2>1, Climbs
<1>6. n \in 0 .. n
  BY <1>1
<1>7. Phi(f[n], n)
  <2> HIDE DEF Phi
  <2> QED
    BY <1>5, <1>6
<1>8. First(q, n) = ToSet(q)
  BY FirstGrows
<1> QED
  BY <1>2, <1>7, <1>8

LEMMA FixedAll ==
    ASSUME NEW p, NEW q \in Seq(Id), NEW L, NEW A, NEW B, Fit(p, L, A, B), Busy(p)
    PROVE  LET r == FoldLeft(ApplyFollowGeometry, p, q)
           IN  /\ Fit(r, L, A, B) /\ Busy(r) /\ Kept(p, r) /\ r.creating = p.creating
               /\ Tabs(r) = Tabs(p) /\ Gridded(r, ToSet(q))
<1> DEFINE n == Len(q)
           Phi(r, i) == /\ Fit(r, L, A, B) /\ Busy(r) /\ Kept(p, r) /\ r.creating = p.creating
                        /\ Tabs(r) = Tabs(p) /\ Gridded(r, First(q, i))
<1>1. p \in PageState /\ n \in Nat
  BY SeqIsFunction DEF Fit
<1>2. PICK f \in [0 .. n -> PageState] :
          /\ f[0] = p /\ f[n] = FoldLeft(ApplyFollowGeometry, p, q)
          /\ \A i \in 1 .. n : f[i] = ApplyFollowGeometry(f[i - 1], q[i])
  BY <1>1, ApplyGoes
<1> DEFINE U == {i \in 0 .. n : Phi(f[i], i)}
<1>3. 0 \in U
  <2>1. Phi(p, 0)
    BY <1>1, FirstGrows, KeptSelf DEF Gridded
  <2> HIDE DEF Phi
  <2> QED
    BY <1>1, <1>2, <2>1
<1>4. ASSUME NEW i \in 1 .. n, i - 1 \in U PROVE i \in U
  <2> DEFINE a == f[i - 1]
             b == f[i]
             s == q[i]
  <2>1. i \in 0 .. n /\ i - 1 \in 0 .. n
    BY <1>1
  <2>2. a \in PageState /\ s \in Id /\ b = ApplyFollowGeometry(a, s) /\ Phi(a, i - 1)
    BY <1>2, <1>4, <2>1, SeqIsFunction
  <2>3. First(q, i) = First(q, i - 1) \cup {s}
    BY FirstGrows
  <2> HIDE DEF a, b, s
  <2>4. Fixes(a, b, s)
    BY <2>2, ApplyFixes
  <2>5. Fit(b, L, A, B) /\ Busy(b) /\ Tabs(b) = Tabs(a) /\ GridFits(b, s) /\ \A t \in Id : GridFits(a, t) => GridFits(b, t)
    BY <2>2, <2>4, FixesFit
  <2>6. Kept(a, b)
    BY <2>4 DEF Fixes, Kept, Speaks
  <2>7. Kept(p, b)
    BY <2>2, <2>6, KeptChain
  <2>8. Gridded(b, First(q, i))
    BY <2>2, <2>3, <2>5, TabsAreIds DEF Gridded
  <2>9. Phi(b, i)
    BY <2>2, <2>4, <2>5, <2>7, <2>8 DEF Fixes, Rest
  <2> HIDE DEF Phi
  <2> QED
    BY <2>1, <2>9 DEF b
<1>5. U = 0 .. n
  <2>1. U \in SUBSET (0 .. n)
    OBVIOUS
  <2> HIDE DEF U
  <2> QED
    BY <1>1, <1>3, <1>4, <2>1, Climbs
<1>6. n \in 0 .. n
  BY <1>1
<1>7. Phi(f[n], n)
  <2> HIDE DEF Phi
  <2> QED
    BY <1>5, <1>6
<1>8. First(q, n) = ToSet(q)
  BY FirstGrows
<1> QED
  BY <1>2, <1>7, <1>8

(* Sessions that were asked for: a promise that is due shows a tab.        *)
LEMMA SettledAll ==
    ASSUME NEW p, NEW tabs \in Seq(Id), NEW q \in Seq(SUBSET Id), NEW L, NEW A, NEW B,
           Fit(p, L, A, B), Tabs(p) = ToSet(tabs), Gridded(p, Id)
    PROVE  LET r == FoldLeft(LAMBDA u, base : Resolve(u, tabs, base), p, q)
           IN  /\ Fit(r, L, A, B) /\ Kept(p, r) /\ r.creating = p.creating
               /\ Tabs(r) = Tabs(p) /\ Gridded(r, Id)
               /\ r.active = NoTab => p.active = NoTab /\ \A base \in ToSet(q) : ToSet(tabs) \subseteq base
<1> DEFINE n == Len(q)
           all == FoldLeft(LAMBDA u, base : Resolve(u, tabs, base), p, q)
           Phi(r, i) == /\ Fit(r, L, A, B) /\ Kept(p, r) /\ r.creating = p.creating
                        /\ Tabs(r) = Tabs(p) /\ Gridded(r, Id)
                        /\ r.active = NoTab => p.active = NoTab /\ \A base \in First(q, i) : ToSet(tabs) \subseteq base
<1>1. p \in PageState /\ n \in Nat
  BY SeqIsFunction DEF Fit
<1>2. PICK f \in [0 .. n -> PageState] :
          /\ f[0] = p /\ f[n] = all
          /\ \A i \in 1 .. n : f[i] = Resolve(f[i - 1], tabs, q[i])
  BY <1>1, SettleGoes
<1> HIDE DEF all
<1> DEFINE U == {i \in 0 .. n : Phi(f[i], i)}
<1>3. 0 \in U
  <2>1. Phi(p, 0)
    BY <1>1, FirstGrows, KeptSelf
  <2> HIDE DEF Phi
  <2> QED
    BY <1>1, <1>2, <2>1
<1>4. ASSUME NEW i \in 1 .. n, i - 1 \in U PROVE i \in U
  <2> DEFINE a == f[i - 1]
             b == f[i]
             base == q[i]
  <2>1. i \in 0 .. n /\ i - 1 \in 0 .. n
    BY <1>1
  <2>2. a \in PageState /\ base \in SUBSET Id /\ b = Resolve(a, tabs, base) /\ Phi(a, i - 1)
    BY <1>2, <1>4, <2>1, SeqIsFunction
  <2>3. First(q, i) = First(q, i - 1) \cup {base}
    BY FirstGrows
  <2> HIDE DEF a, b, base
  <2>4. Phi(b, i)
    <3>1. CASE Fresh(tabs, base) = <<>>
      <4>1. b = a /\ ToSet(tabs) \subseteq base
        BY <2>2, <3>1, FreshIs DEF Resolve
      <4> QED
        BY <2>2, <2>3, <4>1
    <3>2. CASE Fresh(tabs, base) # <<>>
      <4> DEFINE s == Head(Fresh(tabs, base))
      <4>1. s \in ToSet(tabs) /\ b = CreatedTab(a, s)
        BY <2>2, <3>2, FreshIs DEF Resolve
      <4> HIDE DEF s
      <4>2. s \in Tabs(a) /\ s \in Id /\ s # NoTab
        BY <2>2, <4>1, TabsAreIds, NoTabIsNone
      <4>3. PICK c \in PageState : Shows(a, c, s) /\ Owns(c, b, s, TRUE)
        <5>1. \E c \in PageState : /\ IF s \in Tabs(a) THEN Shows(a, c, s) ELSE c = a
                                  /\ Owns(c, CreatedTab(a, s), s, TRUE)
          BY <2>2, <4>2, CreatedIs
        <5> QED
          BY <4>1, <4>2, <5>1
      <4>4. Fit(c, L, A, B) /\ Gridded(c, Id)
        BY <2>2, <4>2, <4>3, ShowsFit
      <4>5. Fit(b, L, A, B) /\ Gridded(b, Id) /\ Tabs(b) = Tabs(c)
        BY <4>3, <4>4, OwnsFit
      <4>6. Kept(a, b) /\ b.creating = a.creating /\ b.active = s /\ Tabs(c) = Tabs(a)
        BY <4>3 DEF Shows, Owns, Kept, Speaks, Rest, Sized, Tabs
      <4>7. Kept(p, b)
        BY <2>2, <4>6, KeptChain
      <4> QED
        BY <2>2, <4>2, <4>5, <4>6, <4>7
    <3> QED
      BY <3>1, <3>2
  <2> HIDE DEF Phi
  <2> QED
    BY <2>1, <2>4 DEF b
<1>5. U = 0 .. n
  <2>1. U \in SUBSET (0 .. n)
    OBVIOUS
  <2> HIDE DEF U
  <2> QED
    BY <1>1, <1>3, <1>4, <2>1, Climbs
<1>6. n \in 0 .. n
  BY <1>1
<1>7. Phi(f[n], n)
  <2> HIDE DEF Phi
  <2> QED
    BY <1>5, <1>6
<1>8. First(q, n) = ToSet(q)
  BY FirstGrows
<1> QED
  BY <1>2, <1>7, <1>8 DEF all

(* A page in order: fit, busy when it shows nothing, its tabs in their grid. *)
Good(p, L, A, B) == Fit(p, L, A, B) /\ Busy(p) /\ Gridded(p, Id)

LEMMA CreateFits ==
    ASSUME NEW p, NEW L, NEW A, NEW B, Fit(p, L, A, B)
    PROVE  LET r == CreateTab(p)
           IN  /\ Fit(r, L, A, B) /\ Busy(r) /\ (Gridded(p, Id) => Gridded(r, Id)) /\ Tabs(r) = Tabs(p)
               /\ Kept(p, r) /\ r.creating = Append(p.creating, p.known)
<1> DEFINE q == [p EXCEPT !.creating = Append(p.creating, p.known)]
           r == CreateTab(p)
<1>1. p \in PageState /\ p.creating \in Seq(SUBSET Id) /\ p.known \in SUBSET Id
  BY PageFields DEF Fit
<1>2. Append(p.creating, p.known) \in Seq(SUBSET Id) /\ Append(p.creating, p.known) # <<>>
  BY <1>1, AppendElements
<1>3. /\ q.tabs = p.tabs /\ q.active = p.active /\ q.att = p.att /\ q.mods = p.mods
      /\ q.creating = Append(p.creating, p.known) /\ q.late = p.late /\ q.listing = p.listing
  BY <1>1 DEF PageState
<1>4. Speaks(p, r) /\ Sized(p, r) /\ r.outbox = p.outbox /\ Rest(q, r)
  BY <1>1, CreateIs
<1> HIDE DEF q, r
<1>5. /\ r.tabs = p.tabs /\ r.active = p.active /\ r.att = p.att /\ r.mods = p.mods
      /\ r.creating = Append(p.creating, p.known) /\ r.late = p.late /\ r.listing = p.listing
  BY <1>3, <1>4 DEF Rest
<1>6. Tabs(r) = Tabs(p)
  BY <1>5 DEF Tabs
<1>7. Fit(r, L, A, B)
  BY <1>4, <1>5, <1>6 DEF Fit, Speaks
<1>8. Kept(p, r)
  BY <1>4, <1>5 DEF Kept, Sized
<1>9. Gridded(p, Id) => Gridded(r, Id)
  BY <1>4, <1>6 DEF Sized, Gridded, GridFits
<1>10. Busy(r)
  BY <1>2, <1>5 DEF Busy
<1> QED
  BY <1>5, <1>6, <1>7, <1>8, <1>9, <1>10 DEF r

LEMMA ReconcileIs ==
    ASSUME NEW p, NEW tabs \in Seq(Id), NEW L, NEW A, NEW B, Fit(p, L \cap ToSet(tabs), A, B), Busy(p),
           ToSet(tabs) \subseteq B
    PROVE  LET r == ReconcileTabs(p, tabs)
           IN  Good(r, L, A, B) /\ Kept(p, r) /\ Grown(p, r) /\ Tabs(r) = ToSet(tabs)
<1> DEFINE T == ToSet(tabs)
           ms == Missing(p, tabs)
           q == FoldLeft(DisposeTab, p, ms)
           u == FoldLeft(AdoptTab, q, tabs)
           r == FoldLeft(ApplyFollowGeometry, u, tabs)
<1>1. p \in PageState /\ p.tabs \in Seq(Id) /\ Tabs(p) \in SUBSET Id /\ T \in SUBSET Id
  BY PageFields, TabsAreIds, ElementsIn DEF Fit
<1>2. ms \in Seq(Id) /\ ToSet(ms) = Tabs(p) \ T
  <2>1. ms \in Seq(Id) /\ ToSet(ms) = ToSet(p.tabs) \cap (Id \ T)
    BY <1>1, ChosenElements DEF Missing
  <2> QED
    BY <1>1, <2>1 DEF Tabs
<1>3. ReconcileTabs(p, tabs) = r
  BY DEF ReconcileTabs
<1> HIDE DEF ms
<1>4. Fit(q, L \cap T, A, B) /\ Busy(q) /\ Kept(p, q) /\ Grown(p, q) /\ Tabs(q) = Tabs(p) \ ToSet(ms)
  BY <1>2, DisposedAll
<1> HIDE DEF q
<1>5. /\ Fit(u, L \cap T, A, B) /\ Busy(u) /\ Kept(q, u) /\ u.creating = q.creating
      /\ Tabs(u) = Tabs(q) \cup T
  BY <1>4, AdoptedAll
<1> HIDE DEF u
<1>6. /\ Fit(r, L \cap T, A, B) /\ Busy(r) /\ Kept(u, r) /\ r.creating = u.creating
      /\ Tabs(r) = Tabs(u) /\ Gridded(r, T)
  BY <1>5, FixedAll
<1> HIDE DEF r
<1>7. Tabs(r) = T
  BY <1>2, <1>4, <1>5, <1>6
<1>8. Fit(r, L, A, B)
  BY <1>6, <1>7 DEF Fit
<1>9. Gridded(r, Id)
  BY <1>6, <1>7 DEF Gridded
<1>10. Kept(p, r)
  BY <1>4, <1>5, <1>6, KeptChain
<1>11. Grown(p, r)
  BY <1>4, <1>5, <1>6 DEF Grown
<1> QED
  BY <1>3, <1>6, <1>7, <1>8, <1>9, <1>10, <1>11 DEF Good

(* What a step of the page does not touch. *)
Stays(p, q) == Speaks(p, q) /\ q.outbox = p.outbox /\ q.listed = p.listed

LEMMA ListedIs ==
    ASSUME NEW p, NEW tabs \in Seq(Id), NEW L, NEW A, NEW B, Good(p, L, A, B),
           tabs # <<>> => Tabs(p) = ToSet(tabs)
    PROVE  LET r == Listed(p, tabs)
           IN  Good(r, L, A, B) /\ Stays(p, r) /\ Grown(p, r) /\ r.known = p.known /\ Tabs(r) = Tabs(p)
<1> DEFINE q == [p EXCEPT !.listing = FALSE]
           r == Listed(p, tabs)
<1>1. p \in PageState /\ p.creating \in Seq(SUBSET Id) /\ p.known \in SUBSET Id
  BY PageFields DEF Fit, Good
<1>2. CASE ~p.listing
  <2>1. r = p
    BY <1>2 DEF Listed
  <2> QED
    BY <1>1, <2>1 DEF Stays, Speaks, Grown
<1>3. CASE p.listing
  <2>1. /\ q \in PageState /\ q.says = p.says /\ q.outbox = p.outbox /\ q.listed = p.listed
        /\ q.tabs = p.tabs /\ q.active = p.active /\ q.att = p.att /\ q.mods = p.mods
        /\ q.creating = p.creating /\ q.known = p.known /\ q.own = p.own /\ q.grid = p.grid
    BY <1>1 DEF PageState
  <2>2. r = IF tabs = <<>> THEN CreateTab(q) ELSE SwitchTab(q, Last(tabs))
    BY <1>3 DEF Listed
  <2> HIDE DEF q, r
  <2>3. Fit(q, L, A, B) /\ Gridded(q, Id) /\ Tabs(q) = Tabs(p)
    BY <2>1 DEF Fit, Good, Gridded, GridFits, Tabs
  <2>4. CASE tabs = <<>>
    <3>1. /\ Fit(r, L, A, B) /\ Busy(r) /\ Gridded(r, Id) /\ Tabs(r) = Tabs(q)
          /\ Kept(q, r) /\ r.creating = Append(q.creating, q.known)
      BY <2>2, <2>3, <2>4, CreateFits
    <3>2. ToSet(Append(p.creating, p.known)) = ToSet(p.creating) \cup {p.known}
      BY <1>1, AppendElements
    <3>3. Grown(p, r)
      BY <2>1, <3>1, <3>2 DEF Grown
    <3> QED
      BY <2>1, <2>3, <3>1, <3>3 DEF Good, Stays, Kept, Speaks, r
  <2>5. CASE tabs # <<>>
    <3> DEFINE s == Last(tabs)
    <3>1. s \in Tabs(q)
      BY <2>3, <2>5, LastElement
    <3> HIDE DEF s
    <3>2. Shows(q, r, s)
      BY <2>1, <2>2, <2>5, <3>1, SwitchShows DEF s
    <3>3. Fit(r, L, A, B) /\ Busy(r) /\ Gridded(r, Id)
      BY <2>3, <3>1, <3>2, ShowsFit
    <3>4. Tabs(r) = Tabs(p) /\ r.known = p.known
      BY <2>1, <3>2 DEF Shows, Sized, Tabs
    <3> QED
      BY <2>1, <3>2, <3>3, <3>4 DEF Good, Stays, Shows, Speaks, Sized, Grown, r
  <2> QED
    BY <2>4, <2>5
<1> QED
  BY <1>2, <1>3

LEMMA TabListIs ==
    ASSUME NEW p, NEW tabs \in Seq(Id), NEW grids \in [Id -> Whose], NEW L, NEW A, NEW B,
           Good(p, L, A, B), ToSet(tabs) \subseteq B
    PROVE  LET r == OnTabList(p, tabs, grids)
           IN  /\ Good(r, L, A, B) /\ Speaks(p, r) /\ r.outbox = p.outbox /\ r.listed = grids
               /\ Tabs(r) = ToSet(tabs)
<1> DEFINE T == ToSet(tabs)
           seen == p.known \cup T
           att == p.att \cap T
           q == [p EXCEPT !.known = seen, !.att = att, !.listed = grids]
           u == ReconcileTabs(q, tabs)
           v == Listed(u, tabs)
           keep == {base \in SUBSET Id : Fresh(tabs, base) = <<>>}
           left == Chosen(v.creating, keep)
           w == [v EXCEPT !.creating = left]
           r == FoldLeft(LAMBDA x, base : Resolve(x, tabs, base), w, p.creating)
<1>1. p \in PageState /\ p.creating \in Seq(SUBSET Id) /\ p.known \in SUBSET Id /\ p.att \in SUBSET Id /\ T \in SUBSET Id
  BY PageFields, ElementsIn DEF Fit, Good
<1>2. OnTabList(p, tabs, grids) = r
  BY DEF OnTabList, SettleCreates
<1>3. /\ q \in PageState /\ q.says = p.says /\ q.outbox = p.outbox /\ q.listed = grids
      /\ q.tabs = p.tabs /\ q.active = p.active /\ q.att = att /\ q.mods = p.mods
      /\ q.creating = p.creating /\ q.known = seen /\ q.late = p.late /\ q.listing = p.listing
  BY <1>1 DEF PageState
<1> HIDE DEF q, seen, att
<1>4. Fit(q, L \cap T, A, B) /\ Busy(q)
  <2>1. Tabs(q) = Tabs(p)
    BY <1>3 DEF Tabs
  <2> QED
    BY <1>1, <1>3, <2>1 DEF Good, Fit, Busy, att
<1>5. Good(u, L, A, B) /\ Kept(q, u) /\ Grown(q, u) /\ Tabs(u) = T
  BY <1>4, ReconcileIs
<1> HIDE DEF u
<1>6. Good(v, L, A, B) /\ Stays(u, v) /\ Grown(u, v) /\ v.known = u.known /\ Tabs(v) = T
  BY <1>5, ListedIs
<1> HIDE DEF v
<1>7. v \in PageState /\ v.creating \in Seq(SUBSET Id)
  BY <1>6, PageFields DEF Good, Fit
<1>8. left \in Seq(SUBSET Id) /\ ToSet(left) = ToSet(v.creating) \cap keep
  BY <1>7, ChosenElements
<1> HIDE DEF left
<1>9. /\ w \in PageState /\ w.says = v.says /\ w.outbox = v.outbox /\ w.listed = v.listed
      /\ w.tabs = v.tabs /\ w.active = v.active /\ w.att = v.att /\ w.mods = v.mods /\ w.creating = left
      /\ w.known = v.known /\ w.late = v.late /\ w.listing = v.listing /\ w.own = v.own /\ w.grid = v.grid
  BY <1>7, <1>8 DEF PageState
<1> HIDE DEF w
<1>10. Fit(w, L, A, B) /\ Tabs(w) = T /\ Gridded(w, Id)
  <2>1. Tabs(w) = Tabs(v)
    BY <1>9 DEF Tabs
  <2> QED
    BY <1>6, <1>9, <2>1 DEF Good, Fit, Gridded, GridFits
<1>11. /\ Fit(r, L, A, B) /\ Kept(w, r) /\ r.creating = w.creating /\ Tabs(r) = Tabs(w) /\ Gridded(r, Id)
       /\ r.active = NoTab => w.active = NoTab /\ \A base \in ToSet(p.creating) : T \subseteq base
  BY <1>1, <1>10, SettledAll
<1> HIDE DEF r
<1>12. Busy(r)
  <2>1. SUFFICES ASSUME r.active = NoTab, ~r.listing, ~r.late PROVE r.creating # <<>>
    BY DEF Busy
  <2>2. v.active = NoTab /\ ~v.listing /\ ~v.late /\ \A base \in ToSet(p.creating) : T \subseteq base
    BY <1>9, <1>11, <2>1 DEF Kept
  <2>3. v.creating # <<>>
    BY <1>6, <2>2 DEF Good, Busy
  <2>4. PICK x : x \in ToSet(v.creating)
    BY <1>7, <2>3, SomeElement
  <2>5. ToSet(v.creating) \subseteq ToSet(p.creating) \cup {seen} /\ T \subseteq seen
    BY <1>3, <1>5, <1>6 DEF Grown, Kept, seen
  <2>6. x \in SUBSET Id
    BY <1>7, <2>4, ElementsIn
  <2>7. T \subseteq x
    BY <2>2, <2>4, <2>5
  <2>8. x \in keep
    BY <2>6, <2>7, FreshIs
  <2>9. x \in ToSet(left)
    BY <1>8, <2>4, <2>8
  <2>10. left # <<>>
    BY <2>9, NoElements
  <2> QED
    BY <1>9, <1>11, <2>10
<1>13. Speaks(p, r) /\ r.outbox = p.outbox /\ r.listed = grids
  BY <1>3, <1>5, <1>6, <1>9, <1>11 DEF Kept, Stays, Speaks
<1> QED
  BY <1>2, <1>10, <1>11, <1>12, <1>13 DEF Good

LEMMA CloseIs ==
    ASSUME NEW p, NEW s \in Tabs(p), NEW L, NEW A, NEW B, Good(p, L \ {s}, A, B)
    PROVE  LET r == CloseTab(p, s)
           IN  Good(r, L, A, B) /\ Stays(p, r) /\ Tabs(r) = Tabs(p) \ {s} /\ ClosingOf(s) \in ToSet(r.says)
<1> DEFINE r == CloseTab(p, s)
<1>1. p \in PageState
  BY DEF Good, Fit
<1>2. PICK q \in PageState : Unfollows(p, q, s) /\ Drops(q, r, s)
  BY <1>1, CloseDrops
<1> HIDE DEF r
<1>3. Tabs(q) = Tabs(p)
  BY <1>2 DEF Unfollows, Tabs
<1>4. Fit(q, L \ {s}, A, B)
  BY <1>2, <1>3 DEF Good, Fit, Unfollows, Speaks
<1>5. Busy(q) /\ Gridded(q, Id)
  BY <1>2, <1>3 DEF Good, Busy, Unfollows, Gridded, GridFits, Sized
<1>6. Fit(r, L, A, B) /\ Busy(r) /\ Gridded(r, Id)
  BY <1>2, <1>3, <1>4, <1>5, DropsFit
<1>7. Stays(p, r) /\ ClosingOf(s) \in ToSet(r.says)
  BY <1>2 DEF Stays, Unfollows, Drops, Speaks, Sized
<1>8. Tabs(r) = Tabs(p) \ {s}
  BY <1>2, <1>3 DEF Drops
<1> QED
  BY <1>6, <1>7, <1>8 DEF Good, r

LEMMA ExitIs ==
    ASSUME NEW p, NEW L, NEW s \in Id \ L, NEW A, NEW B, Good(p, L, A, B)
    PROVE  LET r == OnExit(p, s)
           IN  Good(r, L, A, B) /\ Stays(p, r) /\ (Tabs(r) = Tabs(p) \/ Tabs(r) = Tabs(p) \ {s})
<1> DEFINE att == p.att \ {s}
           alive == [p.alive EXCEPT ![s] = FALSE]
           q == [p EXCEPT !.att = att]
           u == [q EXCEPT !.alive = alive]
           r == OnExit(p, s)
<1>1. p \in PageState /\ att \in SUBSET Id /\ alive \in [Id -> BOOLEAN]
  BY PageFields DEF Good, Fit
<1>2. r = IF s \notin Tabs(p) THEN q ELSE IF Len(p.tabs) > 1 THEN CloseTab(u, s) ELSE u
  BY DEF OnExit, PageState
<1> HIDE DEF alive, r
<1>3. /\ q \in PageState /\ q.says = p.says /\ q.outbox = p.outbox /\ q.listed = p.listed
      /\ q.tabs = p.tabs /\ q.active = p.active /\ q.att = att /\ q.mods = p.mods /\ q.creating = p.creating
      /\ q.late = p.late /\ q.listing = p.listing /\ q.own = p.own /\ q.grid = p.grid
  BY <1>1 DEF PageState
<1> HIDE DEF q
<1>4. /\ u \in PageState /\ u.says = q.says /\ u.outbox = q.outbox /\ u.listed = q.listed
      /\ u.tabs = q.tabs /\ u.active = q.active /\ u.att = q.att /\ u.mods = q.mods /\ u.creating = q.creating
      /\ u.late = q.late /\ u.listing = q.listing /\ u.own = q.own /\ u.grid = q.grid
  BY <1>1, <1>3 DEF PageState
<1> HIDE DEF u
<1>5. Tabs(q) = Tabs(p) /\ Tabs(u) = Tabs(p)
  BY <1>3, <1>4 DEF Tabs
<1>6. Good(q, L, A, B) /\ Good(u, L, A, B) /\ Good(u, L \ {s}, A, B)
  BY <1>1, <1>3, <1>4, <1>5 DEF Good, Fit, Busy, Gridded, GridFits, att
<1>7. Stays(p, q) /\ Stays(p, u)
  BY <1>3, <1>4 DEF Stays, Speaks
<1>8. CASE r = q \/ r = u
  BY <1>5, <1>6, <1>7, <1>8 DEF r
<1>9. CASE s \in Tabs(p) /\ r = CloseTab(u, s)
  <2>1. Good(r, L, A, B) /\ Stays(u, r) /\ Tabs(r) = Tabs(u) \ {s}
    BY <1>5, <1>6, <1>9, CloseIs
  <2> QED
    BY <1>5, <1>7, <2>1 DEF Stays, Speaks, r
<1> QED
  BY <1>2, <1>8, <1>9

LEMMA OwnershipIs ==
    ASSUME NEW p, NEW s \in Id, NEW owner, NEW L, NEW A, NEW B, Good(p, L, A, B)
    PROVE  LET r == OnGeoOwnership(p, s, owner)
           IN  Good(r, L, A, B) /\ Stays(p, r) /\ Tabs(r) = Tabs(p)
<1> DEFINE u == SetGeometryOwner(p, s, owner = "me")
           v == ApplyFollowGeometry(u, s)
           q == IF s \in Tabs(p) /\ (owner = "me") # p.own[s] THEN v ELSE p
           claimed == IF owner = "me" THEN s ELSE IF q.claimed = s THEN NoTab ELSE q.claimed
           r == [q EXCEPT !.claimed = claimed]
<1>1. p \in PageState
  BY DEF Good, Fit
<1>2. Owns(p, u, s, owner = "me")
  <2>1. (owner = "me") \in BOOLEAN
    OBVIOUS
  <2> QED
    BY <1>1, <2>1, SetOwns
<1> HIDE DEF u
<1>3. Fixes(u, v, s)
  BY <1>2, ApplyFixes DEF Owns, Speaks
<1> HIDE DEF v
<1>4. Tabs(u) = Tabs(p) /\ Tabs(v) = Tabs(p)
  BY <1>2, <1>3 DEF Owns, Fixes, Rest, Tabs
<1>5. Good(v, L, A, B)
  <2>1. Fit(u, L, A, B) /\ Busy(u)
    BY <1>2, SpeaksFit DEF Owns, Good
  <2>2. /\ Fit(v, L, A, B) /\ Busy(v) /\ GridFits(v, s)
        /\ \A t \in Id : GridFits(u, t) => GridFits(v, t)
    BY <1>3, <2>1, FixesFit
  <2>3. \A t \in Id \ {s} : GridFits(p, t) => GridFits(u, t)
    BY <1>2 DEF Owns, GridFits
  <2> QED
    BY <1>4, <2>2, <2>3 DEF Good, Gridded
<1>6. Stays(p, v)
  BY <1>2, <1>3 DEF Stays, Owns, Fixes, Speaks
<1>7. Good(q, L, A, B) /\ Stays(p, q) /\ Tabs(q) = Tabs(p) /\ q \in PageState
  BY <1>1, <1>4, <1>5, <1>6 DEF Stays, Speaks, Good, Fit
<1>8. OnGeoOwnership(p, s, owner) = r
  BY DEF OnGeoOwnership, u, v
<1> HIDE DEF q
<1>9. claimed \in Id \cup {NoTab}
  BY <1>7, PageFields
<1> HIDE DEF claimed
<1>10. Little(q, r)
  BY <1>7, <1>9, ForgetsLittle
<1> HIDE DEF r
<1>11. Good(r, L, A, B) /\ Tabs(r) = Tabs(q)
  <2>1. Fit(r, L, A, B) /\ Busy(r)
    BY <1>7, <1>10, SpeaksFit DEF Little, Good
  <2>2. Tabs(r) = Tabs(q)
    BY <1>10 DEF Little, Rest, Tabs
  <2> QED
    BY <1>7, <1>10, <2>1, <2>2 DEF Little, Sized, Good, Gridded, GridFits
<1>12. Stays(p, r)
  BY <1>7, <1>10 DEF Little, Sized, Stays, Speaks
<1> QED
  BY <1>7, <1>8, <1>11, <1>12

(* What is on the screens does not matter. *)
LEMMA ScreensAside ==
    ASSUME NEW p, NEW q, NEW L, NEW A, NEW B, Good(p, L, A, B), q \in PageState,
           q.says = p.says, q.outbox = p.outbox, Rest(p, q), Sized(p, q)
    PROVE  Good(q, L, A, B) /\ Stays(p, q) /\ Tabs(q) = Tabs(p)
<1>1. Tabs(q) = Tabs(p) /\ Speaks(p, q)
  BY DEF Rest, Tabs, Speaks
<1>2. Fit(q, L, A, B) /\ Busy(q)
  BY <1>1, SpeaksFit DEF Good
<1> QED
  BY <1>1, <1>2 DEF Good, Gridded, GridFits, Sized, Stays

LEMMA AttachedIs ==
    ASSUME NEW p, NEW s \in Id, NEW n \in 0 .. MaxOut, NEW L, NEW A, NEW B, Good(p, L, A, B)
    PROVE  LET r == OnAttached(p, s, n)
           IN  Good(r, L, A, B) /\ Stays(p, r) /\ Tabs(r) = Tabs(p)
<1> DEFINE screens == [p.shown EXCEPT ![s] = n]
           whole == [p.whole EXCEPT ![s] = TRUE]
           r == OnAttached(p, s, n)
<1>1. p \in PageState /\ screens \in [Id -> 0 .. MaxOut] /\ whole \in [Id -> BOOLEAN] /\ p.heal \ {s} \in SUBSET Id
  BY PageFields DEF Good, Fit
<1>2. \/ r = p
      \/ r = [p EXCEPT !.shown = screens]
      \/ r = [p EXCEPT !.heal = p.heal \ {s}, !.shown = screens, !.whole = whole]
  BY DEF OnAttached, PageState
<1> HIDE DEF screens, whole, r
<1>3. r \in PageState
  <2>1. [p EXCEPT !.shown = screens] \in PageState
    BY <1>1 DEF PageState
  <2>2. [p EXCEPT !.heal = p.heal \ {s}, !.shown = screens, !.whole = whole] \in PageState
    BY <1>1 DEF PageState
  <2> QED
    BY <1>1, <1>2, <2>1, <2>2
<1>4. r.says = p.says /\ r.outbox = p.outbox
  BY <1>1, <1>2 DEF PageState
<1>5. Rest(p, r)
  BY <1>1, <1>2 DEF PageState, Rest
<1>6. Sized(p, r)
  BY <1>1, <1>2 DEF PageState, Sized
<1> QED
  BY <1>3, <1>4, <1>5, <1>6, ScreensAside DEF r

LEMMA DataIs ==
    ASSUME NEW p, NEW s \in Id, NEW n \in 0 .. MaxOut, NEW L, NEW A, NEW B, Good(p, L, A, B)
    PROVE  LET r == OnData(p, s, n)
           IN  Good(r, L, A, B) /\ Stays(p, r) /\ Tabs(r) = Tabs(p)
<1> DEFINE screens == [p.shown EXCEPT ![s] = n]
           whole == [p.whole EXCEPT ![s] = p.whole[s] /\ n = p.shown[s] + 1]
           r == OnData(p, s, n)
<1>1. p \in PageState /\ screens \in [Id -> 0 .. MaxOut] /\ whole \in [Id -> BOOLEAN]
  BY PageFields DEF Good, Fit
<1>2. r = p \/ r = [p EXCEPT !.shown = screens, !.whole = whole]
  BY DEF OnData, PageState
<1> HIDE DEF screens, whole, r
<1>3. r \in PageState
  <2>1. [p EXCEPT !.shown = screens, !.whole = whole] \in PageState
    BY <1>1 DEF PageState
  <2> QED
    BY <1>1, <1>2, <2>1
<1>4. r.says = p.says /\ r.outbox = p.outbox
  BY <1>1, <1>2 DEF PageState
<1>5. Rest(p, r)
  BY <1>1, <1>2 DEF PageState, Rest
<1>6. Sized(p, r)
  BY <1>1, <1>2 DEF PageState, Sized
<1> QED
  BY <1>3, <1>4, <1>5, <1>6, ScreensAside DEF r

(* Speaking about sizes. *)
LEMMA LittleIs ==
    ASSUME NEW p, NEW q, NEW L, NEW A, NEW B, Good(p, L, A, B), Little(p, q)
    PROVE  Good(q, L, A, B) /\ Stays(p, q) /\ Tabs(q) = Tabs(p)
<1>1. Tabs(q) = Tabs(p)
  BY DEF Rest, Tabs, Little
<1>2. Fit(q, L, A, B) /\ Busy(q)
  BY SpeaksFit DEF Good, Little
<1> QED
  BY <1>1, <1>2 DEF Good, Gridded, GridFits, Sized, Stays, Little

LEMMA SwitchIs ==
    ASSUME NEW p, NEW s \in Tabs(p), NEW L, NEW A, NEW B, Good(p, L, A, B)
    PROVE  LET r == SwitchTab(p, s)
           IN  Good(r, L, A, B) /\ Stays(p, r) /\ Tabs(r) = Tabs(p)
<1> DEFINE r == SwitchTab(p, s)
<1>1. Shows(p, r, s)
  BY SwitchShows DEF Good, Fit
<1> HIDE DEF r
<1>2. Fit(r, L, A, B) /\ Busy(r) /\ Gridded(r, Id)
  BY <1>1, ShowsFit DEF Good
<1>3. Stays(p, r) /\ Tabs(r) = Tabs(p)
  BY <1>1 DEF Stays, Shows, Sized, Tabs
<1> QED
  BY <1>2, <1>3 DEF Good, r

-----------------------------------------------------------------------------
(* The tabs messages on the way *)

(* The last list in q says live and size. *)
Lately(q, live, grids) ==
    \E i \in 1 .. Len(q) :
        /\ q[i].t = "tabs" /\ ToSet(q[i].tabs) = live /\ q[i].size = grids
        /\ \A j \in 1 .. Len(q) : j > i => q[j].t # "tabs"

NoList(q) == \A i \in 1 .. Len(q) : q[i].t # "tabs"

LEMMA AppendAt ==
    ASSUME NEW E, NEW q \in Seq(E), NEW m \in E
    PROVE  /\ Len(q) \in Nat /\ Len(Append(q, m)) = Len(q) + 1 /\ Append(q, m)[Len(q) + 1] = m
           /\ \A i \in 1 .. Len(q) : Append(q, m)[i] = q[i] /\ i \in 1 .. Len(q) + 1
           /\ \A i \in 1 .. Len(q) + 1 : i \in 1 .. Len(q) \/ i = Len(q) + 1
           /\ Len(q) + 1 \in 1 .. Len(q) + 1
<1>1. Len(q) \in Nat /\ Len(Append(q, m)) = Len(q) + 1 /\ Append(q, m)[Len(q) + 1] = m
  OBVIOUS
<1>2. \A i \in 1 .. Len(q) : Append(q, m)[i] = q[i]
  OBVIOUS
<1>3. \A n \in Nat : /\ \A i \in 1 .. n : i \in 1 .. n + 1
                     /\ \A i \in 1 .. n + 1 : i \in 1 .. n \/ i = n + 1
                     /\ n + 1 \in 1 .. n + 1
  OBVIOUS
<1> QED
  BY <1>1, <1>2, <1>3

LEMMA ListAppended ==
    ASSUME NEW E, NEW q \in Seq(E), NEW m \in E, m.t = "tabs"
    PROVE  Lately(Append(q, m), ToSet(m.tabs), m.size)
<1>1. /\ Len(q) \in Nat /\ Len(Append(q, m)) = Len(q) + 1 /\ Append(q, m)[Len(q) + 1] = m
      /\ Len(q) + 1 \in 1 .. Len(q) + 1
  BY AppendAt
<1>2. \A j \in 1 .. Len(q) + 1 : ~(j > Len(q) + 1)
  BY <1>1
<1> QED
  BY <1>1, <1>2 DEF Lately

LEMMA OtherAppended ==
    ASSUME NEW E, NEW q \in Seq(E), NEW m \in E, m.t # "tabs", NEW live, NEW grids
    PROVE  /\ Lately(q, live, grids) => Lately(Append(q, m), live, grids)
           /\ NoList(q) => NoList(Append(q, m))
<1> DEFINE r == Append(q, m)
           n == Len(q)
<1>1. /\ n \in Nat /\ Len(r) = n + 1 /\ r[n + 1] = m
      /\ \A i \in 1 .. n : r[i] = q[i] /\ i \in 1 .. n + 1
      /\ \A i \in 1 .. n + 1 : i \in 1 .. n \/ i = n + 1
  BY AppendAt
<1> HIDE DEF r
<1>2. ASSUME NoList(q) PROVE NoList(r)
  BY <1>1, <1>2 DEF NoList
<1>3. ASSUME Lately(q, live, grids) PROVE Lately(r, live, grids)
  <2>1. PICK i \in 1 .. n : /\ q[i].t = "tabs" /\ ToSet(q[i].tabs) = live /\ q[i].size = grids
                            /\ \A j \in 1 .. n : j > i => q[j].t # "tabs"
    BY <1>3 DEF Lately
  <2>2. \A j \in 1 .. n + 1 : j > i => r[j].t # "tabs"
    BY <1>1, <2>1
  <2> HIDE DEF n
  <2> QED
    BY <1>1, <2>1, <2>2 DEF Lately
<1> QED
  BY <1>2, <1>3 DEF r

LEMMA ListTaken ==
    ASSUME NEW E, NEW q \in Seq(E), q # <<>>, NEW live, NEW grids
    PROVE  /\ NoList(q) => NoList(Tail(q)) /\ Head(q).t # "tabs"
           /\ Lately(q, live, grids) =>
                  \/ Lately(Tail(q), live, grids)
                  \/ NoList(Tail(q)) /\ Head(q).t = "tabs" /\ ToSet(Head(q).tabs) = live /\ Head(q).size = grids
<1> DEFINE r == Tail(q)
           n == Len(q)
           h == Head(q)
<1>1. n \in Nat \ {0} /\ Len(r) = n - 1 /\ h = q[1] /\ \A i \in 1 .. n - 1 : r[i] = q[i + 1]
  OBVIOUS
<1>2. \A i \in 1 .. n - 1 : i + 1 \in 1 .. n /\ i + 1 > 1
  BY <1>1
<1>3. 1 \in 1 .. n /\ \A i \in 1 .. n : i = 1 \/ (i - 1 \in 1 .. n - 1 /\ (i - 1) + 1 = i)
  BY <1>1
<1> HIDE DEF r, n, h
<1>4. ASSUME NoList(q) PROVE NoList(r) /\ h.t # "tabs"
  BY <1>1, <1>2, <1>3, <1>4 DEF NoList, n
<1>5. ASSUME Lately(q, live, grids)
      PROVE  Lately(r, live, grids) \/ (NoList(r) /\ h.t = "tabs" /\ ToSet(h.tabs) = live /\ h.size = grids)
  <2>1. PICK i \in 1 .. n : /\ q[i].t = "tabs" /\ ToSet(q[i].tabs) = live /\ q[i].size = grids
                            /\ \A j \in 1 .. n : j > i => q[j].t # "tabs"
    BY <1>5 DEF Lately, n
  <2>2. CASE i = 1
    <3>1. NoList(r)
      BY <1>1, <1>2, <2>1, <2>2 DEF NoList
    <3> QED
      BY <1>1, <2>1, <2>2, <3>1
  <2>3. CASE i - 1 \in 1 .. n - 1 /\ (i - 1) + 1 = i
    <3> DEFINE k == i - 1
    <3>1. r[k] = q[i] /\ k \in 1 .. n - 1
      BY <1>1, <2>3
    <3>2. \A j \in 1 .. n - 1 : j > k => j + 1 > i
      BY <1>1, <2>3
    <3>3. \A j \in 1 .. n - 1 : j > k => r[j].t # "tabs"
      BY <1>1, <1>2, <2>1, <3>2
    <3> HIDE DEF k
    <3> QED
      BY <1>1, <2>1, <3>1, <3>3 DEF Lately
  <2> QED
    BY <1>3, <2>2, <2>3
<1> QED
  BY <1>4, <1>5 DEF r, h

-----------------------------------------------------------------------------
(* The invariant *)

Numbers == 1 .. host.next - 1

(* The sessions the host sends to the page, or will when it has heard it.  *)
Reached ==
    IF Up THEN (Id \ host.live) \cup host.attached \cup {s \in Id : Attaching(s) \in ToSet(toHost)}
    ELSE Id

PageGood == Good(page, host.live, Reached, Numbers)

(* Numbers are not used again. *)
MessagesFit ==
    /\ host.live \subseteq Numbers
    /\ \A m \in ToSet(toPage) : /\ m.t = "tabs" => ToSet(m.tabs) \subseteq Numbers
                                /\ m.t = "exit" => m.id \in Numbers \ host.live

(* Unless the host is about to say more, the page knows what there is or is *)
(* told, and the host is told which tabs are closed; if they hear each      *)
(* other in order.                                                          *)
ListFits ==
    Up /\ ~world.sealed /\ ~host.dirty =>
        \/ Lately(toPage, host.live, host.size)
        \/ /\ NoList(toPage) /\ page.listed = host.size /\ Tabs(page) \subseteq host.live
           /\ \A s \in host.live \ Tabs(page) : ClosingOf(s) \in ToSet(toHost)

PageInv == PageTypeOK /\ PageGood /\ MessagesFit /\ ListFits

LEMMA WorldIs ==
    ASSUME world \in Worlds
    PROVE  /\ world.sessions \in 1 .. MaxSession /\ world.turns \in 0 .. MaxTurns /\ world.outs \in 0 .. MaxOut
           /\ {MaxSession, MaxTurns, MaxOut} \subseteq Nat
BY PageAssumption DEF World

LEMMA HostFields ==
    ASSUME host \in HostState
    PROVE  /\ host.next \in 1 .. MaxSession + 1 /\ host.live \in SUBSET Id /\ host.owner \in [Id -> Owner]
           /\ host.size \in [Id -> Whose] /\ host.attached \in SUBSET Id /\ host.out \in [Id -> 0 .. MaxOut]
           /\ host.dirty \in BOOLEAN /\ host.turns \in 0 .. MaxTurns
BY DEF HostState

LEMMA GoodMoves ==
    ASSUME NEW p, NEW L, NEW A, NEW B, Good(p, L, A, B), NEW M, NEW C, NEW D,
           M \cap B \subseteq L, A \cap B \subseteq C, B \subseteq D
    PROVE  Good(p, M, C, D)
BY DEF Good, Fit

Carries(A, p, C) == \A s \in Id : s \in A \/ Attaching(s) \in ToSet(p.says) => s \in C

(* What the page says is on its way. *)
LEMMA GoodSends ==
    ASSUME NEW p, NEW L, NEW A, NEW B, Good(p, L, A, B), NEW C, NEW o \in Seq(Said),
           Carries(A, p, C)
    PROVE  LET r == [p EXCEPT !.says = <<>>, !.outbox = o]
           IN  Good(r, L, C, B)
<1> DEFINE r == [p EXCEPT !.says = <<>>, !.outbox = o]
<1>1. p \in PageState /\ p.att \in SUBSET Id /\ <<>> \in Seq(Said)
  BY PageFields DEF Good, Fit
<1>2. /\ r \in PageState /\ r.says = <<>> /\ r.listed = p.listed
      /\ r.tabs = p.tabs /\ r.active = p.active /\ r.att = p.att /\ r.mods = p.mods /\ r.creating = p.creating
      /\ r.known = p.known /\ r.own = p.own /\ r.grid = p.grid /\ r.late = p.late /\ r.listing = p.listing
  BY <1>1 DEF PageState
<1> HIDE DEF r
<1>3. Tabs(r) = Tabs(p)
  BY <1>2 DEF Tabs
<1>4. Fit(r, L, C, B)
  BY <1>1, <1>2, <1>3 DEF Good, Fit, Carries
<1>5. Busy(r) /\ Gridded(r, Id)
  BY <1>2, <1>3 DEF Good, Busy, Gridded, GridFits
<1> QED
  BY <1>2, <1>3, <1>4, <1>5 DEF Good, r

(* The page has done p, and the host has not changed but for its turns.    *)
LEMMA DoesGood ==
    ASSUME PageInv, NEW p, Good(p, host.live, Reached, Numbers), Does(p), link' = link,
           host'.live = host.live, host'.attached = host.attached, host'.next = host.next
    PROVE  /\ page' \in PageState /\ page'.says = <<>> /\ toHost' \in Seq(Said) /\ PageGood'
           /\ Tabs(page') = Tabs(p) /\ page'.listed = p.listed
           /\ Up => ToSet(toHost') = ToSet(toHost) \cup ToSet(p.says)
<1> DEFINE o == IF Up THEN p.outbox ELSE p.outbox \o p.says
           C == Reached'
<1>1. p \in PageState /\ p.says \in Seq(Said) /\ p.outbox \in Seq(Said) /\ toHost \in Seq(Said)
  BY PageFields DEF Good, Fit, PageInv, PageTypeOK
<1>2. page' = [p EXCEPT !.says = <<>>, !.outbox = o]
  BY DEF Does
<1>3. o \in Seq(Said)
  BY <1>1
<1>4. toHost \o p.says \in Seq(Said) /\ ToSet(toHost \o p.says) = ToSet(toHost) \cup ToSet(p.says)
  BY <1>1, CatElements
<1>5. toHost' \in Seq(Said) /\ (Up => ToSet(toHost') = ToSet(toHost) \cup ToSet(p.says)) /\ (Up' <=> Up)
  BY <1>1, <1>4 DEF Does, Up
<1>6. Carries(Reached, p, C)
  BY <1>5 DEF Reached, Carries
<1> HIDE DEF o, C
<1>7. Good(page', host.live, C, Numbers) /\ page' \in PageState /\ page'.says = <<>> /\ Tabs(page') = Tabs(p)
      /\ page'.listed = p.listed
  <2> DEFINE r == [p EXCEPT !.says = <<>>, !.outbox = o]
  <2>1. Good(r, host.live, C, Numbers) /\ r \in PageState /\ r.says = <<>> /\ Tabs(r) = Tabs(p) /\ r.listed = p.listed
    <3>1. Good(r, host.live, C, Numbers)
      BY <1>3, <1>6, GoodSends
    <3>2. r \in PageState
      BY <3>1 DEF Good, Fit
    <3>3. r.says = <<>> /\ r.tabs = p.tabs /\ r.listed = p.listed
      BY <1>1 DEF PageState
    <3> HIDE DEF r
    <3> QED
      BY <3>1, <3>2, <3>3 DEF Tabs
  <2>2. page' = r
    BY <1>2
  <2> HIDE DEF r
  <2> QED
    BY <2>1, <2>2
<1>8. PageGood'
  BY <1>7 DEF PageGood, Numbers, C
<1> QED
  BY <1>5, <1>7, <1>8

LEMMA UpSame ==
    ASSUME link' = link
    PROVE  Up' <=> Up
BY DEF Up

LEMMA NumbersAre ==
    ASSUME host \in HostState
    PROVE  /\ Numbers \subseteq Id /\ (host.next <= MaxSession => host.next \in Id)
           /\ host.next \notin Numbers /\ host.next \in Nat
           /\ 1 .. (host.next + 1) - 1 = Numbers \cup {host.next}
           /\ MaxSession \in Nat
<1>1. host.next \in 1 .. MaxSession + 1 /\ MaxSession \in Nat
  BY HostFields, PageAssumption
<1> QED
  BY <1>1 DEF Numbers, Id

(* What a message of the host may say. *)
Fitting(m) ==
    /\ m.t = "tabs" => ToSet(m.tabs) \subseteq Numbers
    /\ m.t = "exit" => m.id \in Numbers \ host.live

(* A step of the host or of others; the page is not in it.                 *)
LEMMA HostStep ==
    ASSUME PageInv, UNCHANGED <<world, link, page>>, host' \in HostState,
           toHost' \in Seq(Said), toPage' \in Seq(Told),
           host'.live \cap Numbers \subseteq host.live, host'.live \subseteq Numbers', Numbers \subseteq Numbers',
           Up => \A s \in host'.live \cap Numbers :
                     s \in host.attached \/ Attaching(s) \in ToSet(toHost) =>
                         s \in host'.attached \/ Attaching(s) \in ToSet(toHost'),
           \A m \in ToSet(toPage') : m \in ToSet(toPage) \/ Fitting(m)',
           ListFits'
    PROVE  PageInv'
<1>1. Up' <=> Up
  BY UpSame
<1>2. PageTypeOK'
  BY DEF PageInv, PageTypeOK
<1>3. Reached \cap Numbers \subseteq Reached'
  <2>1. Numbers \subseteq Id
    BY NumbersAre DEF PageInv, PageTypeOK
  <2> QED
    BY <1>1, <2>1 DEF Reached
<1>4. PageGood'
  <2> DEFINE L == host.live
             A == Reached
             B == Numbers
             M == host'.live
             C == Reached'
             D == Numbers'
  <2>1. Good(page, L, A, B) /\ M \cap B \subseteq L /\ A \cap B \subseteq C /\ B \subseteq D
    BY <1>3 DEF PageInv, PageGood
  <2> HIDE DEF L, A, B, M, C, D
  <2>2. Good(page, M, C, D)
    BY <2>1, GoodMoves
  <2> QED
    BY <2>2 DEF PageGood, M, C, D
<1>5. MessagesFit'
  <2>1. ASSUME NEW m \in ToSet(toPage') PROVE Fitting(m)'
    BY <2>1 DEF PageInv, MessagesFit, Fitting
  <2> QED
    BY <2>1 DEF MessagesFit, Fitting
<1> QED
  BY <1>2, <1>4, <1>5 DEF PageInv

(* The host knows and owes what it did. *)
LEMMA ListsStay ==
    ASSUME PageInv, UNCHANGED <<world, link, page>>,
           host'.live = host.live, host'.size = host.size, host'.dirty = host.dirty,
           \/ toPage' = toPage
           \/ \E m \in Told : m.t # "tabs" /\ toPage' = Append(toPage, m),
           \A s \in host.live : ClosingOf(s) \in ToSet(toHost) => ClosingOf(s) \in ToSet(toHost')
    PROVE  ListFits'
<1>1. Up' <=> Up
  BY UpSame
<1>2. SUFFICES ASSUME Up, ~world.sealed, ~host.dirty PROVE ListFits'
  BY <1>1 DEF ListFits
<1>3. toPage \in Seq(Told)
  BY DEF PageInv, PageTypeOK
<1>4. CASE Lately(toPage, host.live, host.size)
  <2>1. Lately(toPage', host.live, host.size)
    BY <1>3, <1>4, OtherAppended
  <2> QED
    BY <2>1 DEF ListFits
<1>5. CASE /\ NoList(toPage) /\ page.listed = host.size /\ Tabs(page) \subseteq host.live
           /\ \A s \in host.live \ Tabs(page) : ClosingOf(s) \in ToSet(toHost)
  <2>1. NoList(toPage')
    BY <1>3, <1>5, OtherAppended
  <2> QED
    BY <1>5, <2>1 DEF ListFits
<1> QED
  BY <1>2, <1>4, <1>5 DEF PageInv, ListFits

LEMMA TellsIs ==
    ASSUME toPage \in Seq(Told), NEW s, NEW m \in Told, Tells(s, <<m>>)
    PROVE  /\ toPage' \in Seq(Told)
           /\ toPage' = toPage \/ toPage' = Append(toPage, m)
           /\ \A x \in ToSet(toPage') : x \in ToSet(toPage) \/ x = m
<1>1. toPage \o <<m>> = Append(toPage, m)
  OBVIOUS
<1>2. Append(toPage, m) \in Seq(Told) /\ ToSet(Append(toPage, m)) = ToSet(toPage) \cup {m}
  BY AppendElements
<1> QED
  BY <1>1, <1>2 DEF Tells

LEMMA ToldAre ==
    /\ \A s \in Id : [t |-> "exit", id |-> s] \in Told
    /\ \A s \in Id, o \in Owner : [t |-> "geo", id |-> s, owner |-> o] \in Told
    /\ \A s \in Id, n \in 0 .. MaxOut : [t |-> "attached", id |-> s, n |-> n] \in Told /\ [t |-> "data", id |-> s, n |-> n] \in Told
BY DEF Told

LEMMA ListMessage ==
    ASSUME host \in HostState
    PROVE  /\ TabsMessage \in Told /\ TabsMessage.t = "tabs" /\ TabsMessage.size = host.size
           /\ TabsMessage.tabs = LiveTabs /\ ToSet(LiveTabs) = host.live
<1> DEFINE ids == [s \in Id |-> s]
<1>1. MaxSession \in Nat
  BY PageAssumption
<1>2. ids \in Seq(Id) /\ DOMAIN ids = Id
  BY <1>1 DEF Id
<1>3. ToSet(ids) = Id
  BY DEF ToSet
<1>4. LiveTabs = Chosen(ids, host.live)
  BY DEF LiveTabs
<1> HIDE DEF ids
<1>5. LiveTabs \in Seq(Id) /\ ToSet(LiveTabs) = ToSet(ids) \cap host.live
  BY <1>2, <1>4, ChosenElements
<1>6. ToSet(LiveTabs) = host.live /\ host.size \in [Id -> Whose]
  BY <1>3, <1>5, HostFields
<1> QED
  BY <1>5, <1>6 DEF TabsMessage, Told

(* The host lists its sessions. *)
LEMMA ListStep ==
    ASSUME PageInv, UNCHANGED <<world, link, page>>, host'.live = host.live, host'.size = host.size,
           host'.next = host.next, host'.attached = host.attached, host' \in HostState,
           toHost' \in Seq(Said),
           \A s \in Id : Attaching(s) \in ToSet(toHost) => Attaching(s) \in ToSet(toHost'),
           toPage' = IF Up THEN Append(toPage, TabsMessage) ELSE toPage
    PROVE  PageInv'
<1>1. host \in HostState /\ toPage \in Seq(Told)
  BY DEF PageInv, PageTypeOK
<1>2. /\ TabsMessage \in Told /\ TabsMessage.t = "tabs" /\ TabsMessage.size = host.size
      /\ ToSet(TabsMessage.tabs) = host.live
  BY <1>1, ListMessage
<1>3. /\ Append(toPage, TabsMessage) \in Seq(Told)
      /\ ToSet(Append(toPage, TabsMessage)) = ToSet(toPage) \cup {TabsMessage}
  BY <1>1, <1>2, AppendElements
<1>4. Numbers' = Numbers /\ Numbers \subseteq Id
  BY <1>1, NumbersAre DEF Numbers
<1>5. ASSUME NEW m \in ToSet(toPage') PROVE m \in ToSet(toPage) \/ Fitting(m)'
  BY <1>2, <1>3, <1>4 DEF Fitting, PageInv, MessagesFit
<1>6. ListFits'
  <2>1. Up' <=> Up
    BY UpSame
  <2>2. Up => Lately(toPage', host.live, host.size)
    BY <1>1, <1>2, ListAppended
  <2> QED
    BY <2>1, <2>2 DEF ListFits
<1>7. toPage' \in Seq(Told)
  BY <1>1, <1>3
<1>8. host.live \subseteq Numbers
  BY DEF PageInv, MessagesFit
<1> QED
  BY <1>4, <1>5, <1>6, <1>7, <1>8, HostStep

(* A step of the host or of others that ends and makes no session.         *)
LEMMA QuietStep ==
    ASSUME PageInv, UNCHANGED <<world, link, page>>, host' \in HostState, toHost' \in Seq(Said),
           host'.live = host.live, host'.next = host.next,
           host'.dirty \/ (host'.size = host.size /\ host'.dirty = host.dirty),
           toPage' = toPage \/ \E m \in Told : m.t \notin {"tabs", "exit"} /\ toPage' = Append(toPage, m),
           \A s \in host.live : ClosingOf(s) \in ToSet(toHost) => ClosingOf(s) \in ToSet(toHost'),
           Up => \A s \in host.live : s \in host.attached \/ Attaching(s) \in ToSet(toHost) =>
                                          s \in host'.attached \/ Attaching(s) \in ToSet(toHost')
    PROVE  PageInv'
<1>1. toPage \in Seq(Told) /\ host.live \subseteq Numbers
  BY DEF PageInv, PageTypeOK, MessagesFit
<1>2. Numbers' = Numbers
  BY DEF Numbers
<1>3. ListFits'
  <2>1. CASE host'.dirty
    BY <2>1 DEF ListFits
  <2>2. CASE host'.size = host.size /\ host'.dirty = host.dirty
    <3>1. toPage' = toPage \/ \E m \in Told : m.t # "tabs" /\ toPage' = Append(toPage, m)
      OBVIOUS
    <3> QED
      BY <2>2, <3>1, ListsStay
  <2> QED
    BY <2>1, <2>2
<1>4. toPage' \in Seq(Told) /\ \A x \in ToSet(toPage') : x \in ToSet(toPage) \/ Fitting(x)'
  <2>1. CASE toPage' = toPage
    BY <1>1, <2>1
  <2>2. ASSUME NEW m \in Told, m.t \notin {"tabs", "exit"}, toPage' = Append(toPage, m)
        PROVE  toPage' \in Seq(Told) /\ \A x \in ToSet(toPage') : x \in ToSet(toPage) \/ Fitting(x)'
    <3>1. toPage' \in Seq(Told) /\ ToSet(toPage') = ToSet(toPage) \cup {m}
      BY <1>1, <2>2, AppendElements
    <3>2. Fitting(m)'
      BY <2>2 DEF Fitting
    <3> QED
      BY <3>1, <3>2
  <2> QED
    BY <2>1, <2>2
<1>5. host'.live \cap Numbers \subseteq host.live /\ host'.live \subseteq Numbers' /\ Numbers \subseteq Numbers'
  BY <1>1, <1>2
<1>6. Up => \A s \in host'.live \cap Numbers :
                s \in host.attached \/ Attaching(s) \in ToSet(toHost) =>
                    s \in host'.attached \/ Attaching(s) \in ToSet(toHost')
  OBVIOUS
<1> QED
  BY <1>3, <1>4, <1>5, <1>6, HostStep

(* The host takes m from the page, which is as it was.                     *)
Takes(m) ==
    /\ PageInv /\ UNCHANGED <<world, link, page>> /\ Up /\ toHost' \in Seq(Said) /\ m \in Said
    /\ ToSet(toHost) = {m} \cup ToSet(toHost')

LEMMA TakesHead ==
    ASSUME PageInv, HostHandles
    PROVE  Takes(Head(toHost))
<1>1. toHost \in Seq(Said) /\ toHost # <<>> /\ toHost' = Tail(toHost)
  BY DEF PageInv, PageTypeOK, HostHandles
<1>2. Head(toHost) \in ToSet(toHost) /\ Tail(toHost) \in Seq(Said) /\ ToSet(toHost) = {Head(toHost)} \cup ToSet(Tail(toHost))
  BY <1>1, TailElements
<1>3. Head(toHost) \in Said
  BY <1>1, <1>2, ElementsIn
<1> QED
  BY <1>1, <1>2, <1>3 DEF Takes, HostHandles, HostDoes

LEMMA TakesOpened ==
    ASSUME PageInv, NEW i \in DOMAIN toHost, HostOpens(i)
    PROVE  Takes(toHost[i])
<1>1. toHost \in Seq(Said) /\ toHost' = RemoveAt(toHost, i)
  BY DEF PageInv, PageTypeOK, HostOpens
<1>2. /\ toHost[i] \in Said /\ RemoveAt(toHost, i) \in Seq(Said)
      /\ ToSet(toHost) = {toHost[i]} \cup ToSet(RemoveAt(toHost, i))
  BY <1>1, RemoveElements
<1> QED
  BY <1>1, <1>2 DEF Takes, HostOpens, HostDoes

(* A message of no consequence to those who follow or close.               *)
LEMMA TakesOther ==
    ASSUME NEW m, Takes(m), host' \in HostState, host'.attached = host.attached,
           host'.live = host.live, host'.next = host.next,
           host'.dirty \/ (host'.size = host.size /\ host'.dirty = host.dirty),
           toPage' = toPage \/ \E x \in Told : x.t \notin {"tabs", "exit"} /\ toPage' = Append(toPage, x),
           m.t # "close" \/ m.id \notin host.live, m.t # "attach" \/ m.id \notin host.live
    PROVE  PageInv'
<1>1. \A s \in host.live : ClosingOf(s) \in ToSet(toHost) => ClosingOf(s) \in ToSet(toHost')
  BY DEF Takes, ClosingOf
<1>2. \A s \in host.live : Attaching(s) \in ToSet(toHost) => Attaching(s) \in ToSet(toHost')
  BY DEF Takes, Attaching
<1> QED
  BY <1>1, <1>2, QuietStep DEF Takes

LEMMA NothingTaken ==
    ASSUME NEW m, Takes(m), UNCHANGED <<host, toPage>>,
           m.t # "close" \/ m.id \notin host.live, m.t # "attach" \/ m.id \notin host.live
    PROVE  PageInv'
<1>1. host' \in HostState
  BY DEF Takes, PageInv, PageTypeOK
<1> QED
  BY <1>1, TakesOther

LEMMA CreateStep ==
    ASSUME PageInv, UNCHANGED <<world, link, page, toPage>>, ~Unmade, toHost' \in Seq(Said),
           NEW owner \in [Id -> Owner],
           host' = [host EXCEPT !.next = host.next + 1, !.live = host.live \cup {host.next}, !.owner = owner, !.dirty = TRUE],
           \A s \in Id : Attaching(s) \in ToSet(toHost) => Attaching(s) \in ToSet(toHost')
    PROVE  PageInv'
<1>1. host \in HostState /\ world \in Worlds /\ toPage \in Seq(Told) /\ host.live \subseteq Numbers
  BY DEF PageInv, PageTypeOK, MessagesFit
<1>2. host.next \in 1 .. MaxSession + 1 /\ host.live \in SUBSET Id /\ MaxSession \in Nat
  BY <1>1, HostFields, WorldIs
<1>3. host.next <= MaxSession
  BY <1>1, <1>2, WorldIs DEF Unmade
<1>4. host.next \in Id /\ host.next + 1 \in 1 .. MaxSession + 1
  BY <1>2, <1>3 DEF Id
<1>5. host' \in HostState
  BY <1>1, <1>2, <1>4 DEF HostState
<1>6. /\ host'.next = host.next + 1 /\ host'.live = host.live \cup {host.next} /\ host'.dirty
      /\ host'.attached = host.attached
  BY <1>1 DEF HostState
<1>7. Numbers' = Numbers \cup {host.next} /\ host.next \notin Numbers /\ Numbers \subseteq Id
  BY <1>1, <1>6, NumbersAre DEF Numbers
<1>8. ListFits'
  BY <1>6 DEF ListFits
<1>9. /\ host'.live \cap Numbers \subseteq host.live /\ host'.live \subseteq Numbers' /\ Numbers \subseteq Numbers'
  BY <1>1, <1>6, <1>7
<1>10. Up => \A s \in host'.live \cap Numbers :
                 s \in host.attached \/ Attaching(s) \in ToSet(toHost) =>
                     s \in host'.attached \/ Attaching(s) \in ToSet(toHost')
  BY <1>6, <1>7
<1>11. toPage' \in Seq(Told) /\ \A m \in ToSet(toPage') : m \in ToSet(toPage) \/ Fitting(m)'
  BY <1>1
<1> QED
  BY <1>5, <1>8, <1>9, <1>10, <1>11, HostStep

LEMMA EndsStep ==
    ASSUME PageInv, UNCHANGED <<world, link, page>>, toHost' \in Seq(Said), NEW s \in host.live, Ends(s),
           \A x \in Id : Attaching(x) \in ToSet(toHost) => Attaching(x) \in ToSet(toHost')
    PROVE  PageInv'
<1> DEFINE owner == [host.owner EXCEPT ![s] = "local"]
           m == [t |-> "exit", id |-> s]
<1>1. host \in HostState /\ toPage \in Seq(Told) /\ host.live \subseteq Numbers
  BY DEF PageInv, PageTypeOK, MessagesFit
<1>2. /\ host.live \in SUBSET Id /\ host.attached \in SUBSET Id /\ s \in Id /\ "local" \in Owner
      /\ Numbers \subseteq Id
  BY <1>1, HostFields, NumbersAre DEF Owner
<1>3. host' = [host EXCEPT !.live = host.live \ {s}, !.attached = host.attached \ {s}, !.owner = owner, !.dirty = TRUE]
  BY <1>1 DEF Ends, HostState
<1>4. owner \in [Id -> Owner]
  BY <1>1, <1>2, HostFields
<1> HIDE DEF owner
<1>5. host' \in HostState
  BY <1>1, <1>2, <1>3, <1>4 DEF HostState
<1>6. /\ host'.next = host.next /\ host'.live = host.live \ {s} /\ host'.dirty
      /\ host'.attached = host.attached \ {s}
  BY <1>1, <1>3 DEF HostState
<1>7. Numbers' = Numbers
  BY <1>6 DEF Numbers
<1>8. m \in Told /\ Tells(s, <<m>>)
  BY <1>2, ToldAre DEF Ends
<1>9. Fitting(m)'
  BY <1>1, <1>6, <1>7 DEF Fitting
<1> HIDE DEF m
<1>10. toPage' \in Seq(Told) /\ \A x \in ToSet(toPage') : x \in ToSet(toPage) \/ Fitting(x)'
  BY <1>1, <1>8, <1>9, TellsIs
<1>11. ListFits'
  BY <1>6 DEF ListFits
<1>12. /\ host'.live \cap Numbers \subseteq host.live /\ host'.live \subseteq Numbers' /\ Numbers \subseteq Numbers'
  BY <1>1, <1>6, <1>7
<1>13. Up => \A x \in host'.live \cap Numbers :
                 x \in host.attached \/ Attaching(x) \in ToSet(toHost) =>
                     x \in host'.attached \/ Attaching(x) \in ToSet(toHost')
  BY <1>2, <1>6
<1> QED
  BY <1>5, <1>10, <1>11, <1>12, <1>13, HostStep

(* Sizes change hands. *)
LEMMA PassesIs ==
    ASSUME PageInv, NEW s, NEW owner \in Owner, Passes(s, owner)
    PROVE  /\ host' \in HostState /\ host'.attached = host.attached /\ host'.live = host.live
           /\ host'.next = host.next /\ host'.size = host.size /\ host'.dirty = host.dirty
           /\ toPage' = toPage \/ \E x \in Told : x.t \notin {"tabs", "exit"} /\ toPage' = Append(toPage, x)
<1> DEFINE owners == [host.owner EXCEPT ![s] = owner]
           m == [t |-> "geo", id |-> s, owner |-> owner]
<1>1. host \in HostState /\ toPage \in Seq(Told)
  BY DEF PageInv, PageTypeOK
<1>2. owners \in [Id -> Owner] /\ host.attached \in SUBSET Id
  BY <1>1, HostFields
<1>3. host' = [host EXCEPT !.owner = owners]
  BY <1>1 DEF Passes, HostState
<1> HIDE DEF owners
<1>4. host' \in HostState
  BY <1>1, <1>2, <1>3 DEF HostState
<1>5. /\ host'.attached = host.attached /\ host'.live = host.live
      /\ host'.next = host.next /\ host'.size = host.size /\ host'.dirty = host.dirty
  BY <1>1, <1>3 DEF HostState
<1>6. toPage' = toPage \/ \E x \in Told : x.t \notin {"tabs", "exit"} /\ toPage' = Append(toPage, x)
  <2>1. Tells(s, <<m>>)
    BY DEF Passes
  <2>2. CASE s \notin host.attached
    BY <2>1, <2>2 DEF Tells
  <2>3. CASE s \in host.attached
    <3>1. m \in Told /\ m.t \notin {"tabs", "exit"}
      BY <1>2, <2>3, ToldAre
    <3> HIDE DEF m
    <3>2. toPage' = Append(toPage, m) \/ toPage' = toPage
      BY <1>1, <2>1, <3>1, TellsIs
    <3> QED
      BY <3>1, <3>2
  <2> QED
    BY <2>2, <2>3
<1> QED
  BY <1>4, <1>5, <1>6

LEMMA HostDoesStep ==
    ASSUME NEW m, Takes(m), HostDoes(m)
    PROVE  PageInv'
<1>1. Takes(m)
  OBVIOUS
<1>2. /\ PageInv /\ host \in HostState /\ toPage \in Seq(Told) /\ UNCHANGED <<world, link, page>>
      /\ toHost' \in Seq(Said)
  BY <1>1 DEF Takes, PageInv, PageTypeOK
<1>3. \/ m.t = "list" /\ HostLists
      \/ m.t = "create" /\ (HostCreates \/ HostRefuses)
      \/ m.t = "close" /\ HostCloses(m.id)
      \/ m.t = "attach" /\ HostAttaches(m.id)
      \/ m.t = "resize" /\ HostResizes(m.id)
      \/ m.t \in {"claim", "force"} /\ (HostGrants(m.id) \/ HostDenies(m.id))
      \/ m.t = "release" /\ HostReleases(m.id)
  BY DEF HostDoes
<1>4. m.t # "attach" => \A s \in Id : Attaching(s) \in ToSet(toHost) => Attaching(s) \in ToSet(toHost')
  BY <1>1 DEF Takes, Attaching
<1>5. CASE m.t = "list" /\ HostLists
  <2>1. toPage' = (IF Up THEN Append(toPage, TabsMessage) ELSE toPage) /\ UNCHANGED host
    BY <1>1, <1>5 DEF HostLists, Takes
  <2> QED
    BY <1>1, <1>2, <1>4, <1>5, <2>1, ListStep DEF Takes
<1>6. CASE m.t = "create" /\ HostCreates
  <2> DEFINE owner == [host.owner EXCEPT ![host.next] = "me"]
  <2>1. owner \in [Id -> Owner]
    BY <1>2, HostFields DEF Owner, Whose
  <2>2. host' = [host EXCEPT !.next = host.next + 1, !.live = host.live \cup {host.next}, !.owner = owner, !.dirty = TRUE]
    BY <1>2, <1>6 DEF HostCreates, HostState
  <2> HIDE DEF owner
  <2> QED
    BY <1>2, <1>4, <1>6, <2>1, <2>2, CreateStep DEF HostCreates
<1>7. CASE m.t = "create" /\ HostRefuses
  BY <1>1, <1>7, NothingTaken DEF HostRefuses
<1>8. CASE m.t = "close" /\ HostCloses(m.id)
  <2>1. CASE m.id \in host.live
    BY <1>2, <1>4, <1>8, <2>1, EndsStep DEF HostCloses
  <2>2. CASE m.id \notin host.live
    BY <1>1, <1>8, <2>2, NothingTaken DEF HostCloses
  <2> QED
    BY <2>1, <2>2
<1>9. CASE m.t = "attach" /\ HostAttaches(m.id)
  <2>1. CASE m.id \in host.live
    <3> DEFINE s == m.id
               a == [t |-> "attached", id |-> s, n |-> host.out[s]]
    <3>1. s \in Id /\ host.attached \in SUBSET Id /\ host.out[s] \in 0 .. MaxOut /\ host.live \in SUBSET Id
      BY <1>2, <2>1, HostFields
    <3>2. host' = [host EXCEPT !.attached = host.attached \cup {s}] /\ toPage' = Append(toPage, a)
      BY <1>2, <1>9, <2>1 DEF HostAttaches, HostState
    <3>3. host' \in HostState
      BY <1>2, <3>1, <3>2 DEF HostState
    <3>4. /\ host'.attached = host.attached \cup {s} /\ host'.live = host.live
          /\ host'.next = host.next /\ host'.size = host.size /\ host'.dirty = host.dirty
      BY <1>2, <3>2 DEF HostState
    <3>5. a \in Told /\ a.t \notin {"tabs", "exit"}
      BY <3>1, ToldAre
    <3> HIDE DEF a
    <3>6. \A x \in host.live : ClosingOf(x) \in ToSet(toHost) => ClosingOf(x) \in ToSet(toHost')
      BY <1>1, <1>9 DEF Takes, ClosingOf
    <3>7. \A x \in host.live : x \in host.attached \/ Attaching(x) \in ToSet(toHost) =>
                                   x \in host'.attached \/ Attaching(x) \in ToSet(toHost')
      BY <1>1, <3>4 DEF Takes, Attaching
    <3> QED
      BY <1>1, <1>2, <3>2, <3>3, <3>4, <3>5, <3>6, <3>7, QuietStep DEF Takes
  <2>2. CASE m.id \notin host.live
    BY <1>1, <1>9, <2>2, NothingTaken DEF HostAttaches
  <2> QED
    BY <2>1, <2>2
<1>10. CASE m.t = "resize" /\ HostResizes(m.id)
  <2>1. CASE host.owner[m.id] = "me"
    <3> DEFINE grids == [host.size EXCEPT ![m.id] = "me"]
               dirty == host.dirty \/ host.size[m.id] # "me"
    <3>1. host' = [host EXCEPT !.size = grids, !.dirty = dirty] /\ toPage' = toPage
      BY <1>2, <1>10, <2>1 DEF HostResizes, HostState
    <3>2. grids \in [Id -> Whose] /\ dirty \in BOOLEAN /\ (dirty \/ (grids = host.size /\ dirty = host.dirty))
      BY <1>2, HostFields DEF Whose
    <3> HIDE DEF grids, dirty
    <3>3. host' \in HostState
      BY <1>2, <3>1, <3>2 DEF HostState
    <3>4. /\ host'.attached = host.attached /\ host'.live = host.live
          /\ host'.next = host.next /\ host'.size = grids /\ host'.dirty = dirty
      BY <1>2, <3>1 DEF HostState
    <3> QED
      BY <1>1, <1>10, <3>1, <3>2, <3>3, <3>4, TakesOther
  <2>2. CASE host.owner[m.id] # "me"
    BY <1>1, <1>10, <2>2, NothingTaken DEF HostResizes
  <2> QED
    BY <2>1, <2>2
<1>11. CASE m.t \in {"claim", "force"} /\ HostGrants(m.id)
  <2>1. "me" \in Owner /\ PageInv
    BY <1>1 DEF Owner, Whose, Takes
  <2>2. /\ host' \in HostState /\ host'.attached = host.attached /\ host'.live = host.live
        /\ host'.next = host.next /\ host'.size = host.size /\ host'.dirty = host.dirty
        /\ toPage' = toPage \/ \E x \in Told : x.t \notin {"tabs", "exit"} /\ toPage' = Append(toPage, x)
    BY <1>11, <2>1, PassesIs DEF HostGrants
  <2> QED
    BY <1>1, <1>11, <2>2, TakesOther
<1>12. CASE m.t \in {"claim", "force"} /\ HostDenies(m.id)
  BY <1>1, <1>12, NothingTaken DEF HostDenies
<1>13. CASE m.t = "release" /\ HostReleases(m.id)
  <2>1. CASE host.owner[m.id] = "me"
    <3>1. "local" \in Owner /\ PageInv
      BY <1>1 DEF Owner, Takes
    <3>2. /\ host' \in HostState /\ host'.attached = host.attached /\ host'.live = host.live
          /\ host'.next = host.next /\ host'.size = host.size /\ host'.dirty = host.dirty
          /\ toPage' = toPage \/ \E x \in Told : x.t \notin {"tabs", "exit"} /\ toPage' = Append(toPage, x)
      BY <1>13, <2>1, <3>1, PassesIs DEF HostReleases
    <3> QED
      BY <1>1, <1>13, <3>2, TakesOther
  <2>2. CASE host.owner[m.id] # "me"
    BY <1>1, <1>13, <2>2, NothingTaken DEF HostReleases
  <2> QED
    BY <2>1, <2>2
<1> QED
  BY <1>3, <1>5, <1>6, <1>7, <1>8, <1>9, <1>10, <1>11, <1>12, <1>13

LEMMA HandlesStep ==
    ASSUME PageInv, HostHandles
    PROVE  PageInv'
BY TakesHead, HostDoesStep DEF HostHandles

LEMMA HostOpensStep ==
    ASSUME PageInv, NEW i \in DOMAIN toHost, HostOpens(i)
    PROVE  PageInv'
BY TakesOpened, HostDoesStep DEF HostOpens

LEMMA BroadcastsStep ==
    ASSUME PageInv, HostBroadcasts
    PROVE  PageInv'
<1>1. host \in HostState /\ toHost \in Seq(Said)
  BY DEF PageInv, PageTypeOK
<1>2. host' \in HostState
  BY <1>1 DEF HostBroadcasts, HostState
<1>3. host'.live = host.live /\ host'.size = host.size /\ host'.next = host.next /\ host'.attached = host.attached
  BY <1>1 DEF HostBroadcasts, HostState
<1>4. UNCHANGED <<world, link, page, toHost>> /\ toPage' = IF Up THEN Append(toPage, TabsMessage) ELSE toPage
  BY DEF HostBroadcasts
<1> QED
  BY <1>1, <1>2, <1>3, <1>4, ListStep

LEMMA OutputStep ==
    ASSUME PageInv, NEW s \in Id, Output(s)
    PROVE  PageInv'
<1> DEFINE out == [host.out EXCEPT ![s] = host.out[s] + 1]
           m == [t |-> "data", id |-> s, n |-> host.out[s] + 1]
<1>1. host \in HostState /\ toHost \in Seq(Said) /\ toPage \in Seq(Told) /\ world \in Worlds
  BY DEF PageInv, PageTypeOK
<1>2. host.out[s] + 1 \in 0 .. MaxOut
  <2>1. host.out[s] \in 0 .. MaxOut /\ world.outs \in 0 .. MaxOut /\ host.out[s] < world.outs /\ MaxOut \in Nat
    BY <1>1, HostFields, WorldIs DEF Output
  <2> QED
    BY <2>1
<1>3. host' = [host EXCEPT !.out = out]
  BY <1>1 DEF Output, HostState
<1>4. out \in [Id -> 0 .. MaxOut]
  BY <1>1, <1>2, HostFields
<1>5. Tells(s, <<m>>)
  BY DEF Output
<1>6. m \in Told /\ m.t \notin {"tabs", "exit"}
  BY <1>2, ToldAre
<1> HIDE DEF out, m
<1>7. host' \in HostState
  BY <1>1, <1>3, <1>4 DEF HostState
<1>8. /\ host'.attached = host.attached /\ host'.live = host.live
      /\ host'.next = host.next /\ host'.size = host.size /\ host'.dirty = host.dirty
  BY <1>1, <1>3 DEF HostState
<1>9. toPage' = toPage \/ toPage' = Append(toPage, m)
  BY <1>1, <1>5, <1>6, TellsIs
<1>10. UNCHANGED <<world, link, toHost, page>>
  BY DEF Output
<1> QED
  BY <1>1, <1>6, <1>7, <1>8, <1>9, <1>10, QuietStep

LEMMA ExitsStep ==
    ASSUME PageInv, NEW s \in Id, SessionExits(s)
    PROVE  PageInv'
<1>1. toHost \in Seq(Said)
  BY DEF PageInv, PageTypeOK
<1>2. UNCHANGED <<world, link, toHost, page>> /\ s \in host.live /\ Ends(s)
  BY DEF SessionExits
<1> QED
  BY <1>1, <1>2, EndsStep

LEMMA OtherCreatesStep ==
    ASSUME PageInv, OtherCreates
    PROVE  PageInv'
<1>1. host \in HostState /\ toHost \in Seq(Said)
  BY DEF PageInv, PageTypeOK
<1>2. host.owner \in [Id -> Owner]
  BY <1>1, HostFields
<1>3. host' = [host EXCEPT !.next = host.next + 1, !.live = host.live \cup {host.next}, !.owner = host.owner, !.dirty = TRUE]
  BY <1>1 DEF OtherCreates, HostState
<1>4. UNCHANGED <<world, link, toHost, toPage, page>> /\ ~Unmade
  BY DEF OtherCreates
<1> QED
  BY <1>1, <1>2, <1>3, <1>4, CreateStep

LEMMA OtherTakesStep ==
    ASSUME PageInv, NEW s \in Id, NEW owner \in {"local", "other"}, OtherTakes(s, owner)
    PROVE  PageInv'
<1> DEFINE owners == [host.owner EXCEPT ![s] = owner]
           grids == [host.size EXCEPT ![s] = "other"]
           dirty == host.dirty \/ host.size[s] # "other"
           m == [t |-> "geo", id |-> s, owner |-> owner]
<1>1. host \in HostState /\ toHost \in Seq(Said) /\ toPage \in Seq(Told) /\ world \in Worlds
  BY DEF PageInv, PageTypeOK
<1>2. host.turns + 1 \in 0 .. MaxTurns
  <2>1. host.turns \in 0 .. MaxTurns /\ world.turns \in 0 .. MaxTurns /\ host.turns < world.turns /\ MaxTurns \in Nat
    BY <1>1, HostFields, WorldIs DEF OtherTakes
  <2> QED
    BY <2>1
<1>3. host' = [host EXCEPT !.owner = owners, !.size = grids, !.dirty = dirty, !.turns = host.turns + 1]
  BY <1>1 DEF OtherTakes, HostState
<1>4. owner \in Owner
  BY DEF Owner, Whose
<1>5. owners \in [Id -> Owner]
  BY <1>1, <1>4, HostFields
<1>6. grids \in [Id -> Whose] /\ dirty \in BOOLEAN /\ (dirty \/ (grids = host.size /\ dirty = host.dirty))
  BY <1>1, HostFields DEF Whose
<1>7. Tells(s, <<m>>)
  BY DEF OtherTakes
<1>8. m \in Told /\ m.t \notin {"tabs", "exit"}
  BY <1>4, ToldAre
<1> HIDE DEF owners, grids, dirty, m
<1>9. host' \in HostState
  BY <1>1, <1>2, <1>3, <1>5, <1>6 DEF HostState
<1>10. /\ host'.attached = host.attached /\ host'.live = host.live
       /\ host'.next = host.next /\ host'.size = grids /\ host'.dirty = dirty
  BY <1>1, <1>3 DEF HostState
<1>11. toPage' = toPage \/ toPage' = Append(toPage, m)
  BY <1>1, <1>7, <1>8, TellsIs
<1>12. UNCHANGED <<world, link, toHost, page>>
  BY DEF OtherTakes
<1> QED
  BY <1>1, <1>6, <1>8, <1>9, <1>10, <1>11, <1>12, QuietStep

-----------------------------------------------------------------------------
(* The connection *)

LEMMA NoMessages ==
    <<>> \in Seq(Said) /\ <<>> \in Seq(Told)
OBVIOUS

LEMMA DropStep ==
    ASSUME PageInv, LinkDrops
    PROVE  PageInv'
<1> DEFINE owner == [s \in Id |-> IF host.owner[s] = "me" THEN "local" ELSE host.owner[s]]
<1>1. host \in HostState /\ link' = "none" /\ toHost' = <<>> /\ toPage' = <<>> /\ UNCHANGED <<world, page>>
  BY DEF PageInv, PageTypeOK, LinkDrops
<1>2. host' = [host EXCEPT !.attached = {}, !.owner = owner]
  BY <1>1 DEF LinkDrops
<1>3. owner \in [Id -> Owner]
  BY <1>1, HostFields DEF Owner
<1> HIDE DEF owner
<1>4. host' \in HostState
  BY <1>1, <1>2, <1>3 DEF HostState
<1>5. host'.live = host.live /\ host'.next = host.next
  BY <1>1, <1>2 DEF HostState
<1>6. ~Up'
  BY <1>1 DEF Up
<1>7. PageTypeOK'
  BY <1>1, <1>4, NoMessages DEF PageInv, PageTypeOK
<1>8. PageGood'
  <2>1. Numbers \subseteq Id /\ Numbers' = Numbers
    BY <1>1, <1>5, NumbersAre DEF Numbers
  <2>2. Good(page, host.live, Reached, Numbers)
    BY DEF PageInv, PageGood
  <2>3. Good(page, host.live, Id, Numbers)
    <3> HIDE DEF Reached
    <3> DEFINE L == host.live
               B == Numbers
    <3>1. L \cap B \subseteq L /\ Reached \cap B \subseteq Id /\ B \subseteq B /\ Good(page, L, Reached, B)
      BY <2>1, <2>2
    <3> HIDE DEF L, B
    <3>2. Good(page, L, Id, B)
      BY <3>1, GoodMoves
    <3> QED
      BY <3>2 DEF L, B
  <2>4. Reached' = Id
    BY <1>6 DEF Reached
  <2> QED
    BY <1>1, <1>5, <2>1, <2>3, <2>4 DEF PageGood
<1>9. MessagesFit'
  <2>1. ToSet(toPage') = {}
    BY <1>1, NoElements
  <2>2. Numbers' = Numbers
    BY <1>5 DEF Numbers
  <2> QED
    BY <1>5, <2>1, <2>2 DEF PageInv, MessagesFit
<1>10. ListFits'
  BY <1>6 DEF ListFits
<1> QED
  BY <1>7, <1>8, <1>9, <1>10 DEF PageInv

(* The lists are as they were, the page has closed what it no longer shows. *)
LEMMA PageListFits ==
    ASSUME PageInv, UNCHANGED <<world, link, toPage>>, NEW p,
           host'.live = host.live, host'.size = host.size, host'.dirty = host.dirty,
           Tabs(page') = Tabs(p), page'.listed = page.listed,
           Up => ToSet(toHost') = ToSet(toHost) \cup ToSet(p.says),
           Tabs(p) \subseteq Tabs(page), \A s \in Tabs(page) \ Tabs(p) : ClosingOf(s) \in ToSet(p.says)
    PROVE  ListFits'
<1>1. Up' <=> Up
  BY UpSame
<1>2. SUFFICES ASSUME Up, ~world.sealed, ~host.dirty PROVE ListFits'
  BY <1>1 DEF ListFits
<1>3. CASE Lately(toPage, host.live, host.size)
  BY <1>3 DEF ListFits
<1>4. CASE /\ NoList(toPage) /\ page.listed = host.size /\ Tabs(page) \subseteq host.live
           /\ \A s \in host.live \ Tabs(page) : ClosingOf(s) \in ToSet(toHost)
  BY <1>2, <1>4 DEF ListFits
<1> QED
  BY <1>2, <1>3, <1>4 DEF PageInv, ListFits

(* What the page does of its own. *)
Own(p) ==
    /\ Good(p, host.live, Reached, Numbers) /\ Stays(page, p) /\ Tabs(p) \subseteq Tabs(page)
    /\ \A s \in Tabs(page) \ Tabs(p) : ClosingOf(s) \in ToSet(p.says)

LEMMA OwnStep ==
    ASSUME PageInv, NEW p, Own(p), Does(p), UNCHANGED <<world, link, toPage>>,
           host' \in HostState, host'.live = host.live, host'.attached = host.attached, host'.next = host.next,
           host'.size = host.size, host'.dirty = host.dirty
    PROVE  PageInv'
<1>1. /\ page' \in PageState /\ page'.says = <<>> /\ toHost' \in Seq(Said) /\ PageGood'
      /\ Tabs(page') = Tabs(p) /\ page'.listed = p.listed
      /\ Up => ToSet(toHost') = ToSet(toHost) \cup ToSet(p.says)
  BY DoesGood DEF Own
<1>2. PageTypeOK'
  BY <1>1 DEF PageInv, PageTypeOK
<1>3. MessagesFit'
  BY DEF PageInv, MessagesFit, Numbers
<1>4. ListFits'
  <2>1. page'.listed = page.listed
    BY <1>1 DEF Own, Stays
  <2> QED
    BY <1>1, <2>1, PageListFits DEF Own
<1> QED
  BY <1>1, <1>2, <1>3, <1>4 DEF PageInv

LEMMA ActsStep ==
    ASSUME PageInv, NEW p, Own(p), Acts(p)
    PROVE  PageInv'
<1>1. Does(p) /\ UNCHANGED <<world, host, link, toPage>>
  BY DEF Acts
<1>2. host' \in HostState
  BY <1>1 DEF PageInv, PageTypeOK
<1> QED
  BY <1>1, <1>2, OwnStep

LEMMA TurnStep ==
    ASSUME PageInv, NEW p, Own(p), Turn(p)
    PROVE  PageInv'
<1>1. host \in HostState /\ world \in Worlds
  BY DEF PageInv, PageTypeOK
<1>2. Does(p) /\ UNCHANGED <<world, link, toPage>> /\ host' = [host EXCEPT !.turns = host.turns + 1]
  BY <1>1 DEF Turn, HostState
<1>3. host.turns + 1 \in 0 .. MaxTurns
  <2>1. host.turns \in 0 .. MaxTurns /\ world.turns \in 0 .. MaxTurns /\ host.turns < world.turns /\ MaxTurns \in Nat
    BY <1>1, HostFields, WorldIs DEF Turn
  <2> QED
    BY <2>1
<1>4. host' \in HostState
  BY <1>1, <1>2, <1>3 DEF HostState
<1>5. /\ host'.live = host.live /\ host'.attached = host.attached /\ host'.next = host.next
      /\ host'.size = host.size /\ host'.dirty = host.dirty
  BY <1>1, <1>2 DEF HostState
<1> QED
  BY <1>2, <1>4, <1>5, OwnStep

(* The page as it is. *)
LEMMA PageIsGood ==
    ASSUME PageInv
    PROVE  /\ Good(page, host.live, Reached, Numbers) /\ page \in PageState /\ page.says = <<>>
           /\ Stays(page, page)
BY DEF PageInv, PageGood, PageTypeOK, Stays, Speaks

LEMMA OwnLittle ==
    ASSUME PageInv, NEW p, Good(p, host.live, Reached, Numbers), Stays(page, p), Tabs(p) = Tabs(page),
           NEW q, Little(p, q)
    PROVE  Own(q)
<1>1. Good(q, host.live, Reached, Numbers) /\ Stays(p, q) /\ Tabs(q) = Tabs(p)
  BY LittleIs
<1> QED
  BY <1>1 DEF Own, Stays, Speaks

LEMMA TimesOutStep ==
    ASSUME PageInv, CreateTimesOut
    PROVE  PageInv'
<1> DEFINE p == [page EXCEPT !.creating = Tail(page.creating), !.late = TRUE]
<1>1. page \in PageState /\ page.creating \in Seq(SUBSET Id) /\ page.creating # <<>> /\ Acts(p)
  BY PageIsGood, PageFields DEF CreateTimesOut
<1>2. Tail(page.creating) \in Seq(SUBSET Id)
  BY <1>1
<1>3. /\ p \in PageState /\ p.says = page.says /\ p.outbox = page.outbox /\ p.listed = page.listed
      /\ p.tabs = page.tabs /\ p.active = page.active /\ p.att = page.att /\ p.mods = page.mods
      /\ p.known = page.known /\ p.own = page.own /\ p.grid = page.grid /\ p.late
  BY <1>1, <1>2 DEF PageState
<1> HIDE DEF p
<1>4. Tabs(p) = Tabs(page)
  BY <1>3 DEF Tabs
<1>5. Good(p, host.live, Reached, Numbers)
  BY <1>3, <1>4, PageIsGood DEF Good, Fit, Busy, Gridded, GridFits
<1>6. Own(p)
  BY <1>3, <1>4, <1>5 DEF Own, Stays, Speaks
<1> QED
  BY <1>1, <1>6, ActsStep

LEMMA ListTimesOutStep ==
    ASSUME PageInv, ListTimesOut
    PROVE  PageInv'
<1> DEFINE p == Listed(page, <<>>)
<1>1. <<>> \in Seq(Id) /\ Acts(p)
  BY DEF ListTimesOut
<1>2. Good(p, host.live, Reached, Numbers) /\ Stays(page, p) /\ Tabs(p) = Tabs(page)
  <2> DEFINE L == host.live
             A == Reached
             B == Numbers
  <2>1. Good(page, L, A, B)
    BY PageIsGood
  <2> HIDE DEF L, A, B
  <2>2. Good(p, L, A, B) /\ Stays(page, p) /\ Tabs(p) = Tabs(page)
    BY <1>1, <2>1, ListedIs
  <2> QED
    BY <2>2 DEF L, A, B
<1> HIDE DEF p
<1>3. Own(p)
  BY <1>2 DEF Own
<1> QED
  BY <1>1, <1>3, ActsStep

LEMMA FocusStep ==
    ASSUME PageInv, Focus
    PROVE  PageInv'
<1> DEFINE p == [page EXCEPT !.focus = TRUE]
           q == ClaimActive(p)
<1>1. page \in PageState /\ Turn(q)
  BY PageIsGood DEF Focus
<1>2. p \in PageState /\ p.says = page.says /\ p.outbox = page.outbox /\ Rest(page, p) /\ Sized(page, p)
  BY <1>1 DEF PageState, Rest, Sized
<1> HIDE DEF p
<1>3. Good(p, host.live, Reached, Numbers) /\ Stays(page, p) /\ Tabs(p) = Tabs(page)
  BY <1>2, PageIsGood, ScreensAside
<1>4. Little(p, q)
  BY <1>2, ClaimsLittle
<1> HIDE DEF q
<1>5. Own(q)
  BY <1>3, <1>4, OwnLittle
<1> QED
  BY <1>1, <1>5, TurnStep

LEMMA BlurStep ==
    ASSUME PageInv, Blur
    PROVE  PageInv'
<1> DEFINE p == [page EXCEPT !.focus = FALSE, !.mods = NoTab]
           q == ReleaseClaimed(p)
<1>1. page \in PageState /\ Turn(q)
  BY PageIsGood DEF Blur
<1>2. /\ p \in PageState /\ p.says = page.says /\ p.outbox = page.outbox /\ p.listed = page.listed
      /\ p.tabs = page.tabs /\ p.active = page.active /\ p.att = page.att /\ p.mods = NoTab
      /\ p.creating = page.creating /\ p.late = page.late /\ p.listing = page.listing
      /\ p.known = page.known /\ p.own = page.own /\ p.grid = page.grid
  BY <1>1 DEF PageState
<1> HIDE DEF p
<1>3. Tabs(p) = Tabs(page)
  BY <1>2 DEF Tabs
<1>4. Good(p, host.live, Reached, Numbers)
  BY <1>2, <1>3, PageIsGood DEF Good, Fit, Busy, Gridded, GridFits
<1>5. Stays(page, p)
  BY <1>2 DEF Stays, Speaks
<1>6. Little(p, q)
  BY <1>2, ReleasesLittle
<1> HIDE DEF q
<1>7. Own(q)
  BY <1>3, <1>4, <1>5, <1>6, OwnLittle
<1> QED
  BY <1>1, <1>7, TurnStep

(* The soft keyboard's modifiers: for the tab the user looks at, or none.  *)
LEMMA ModsStep ==
    ASSUME PageInv, NEW s \in {NoTab, page.active}, Acts([page EXCEPT !.mods = s])
    PROVE  PageInv'
<1> DEFINE p == [page EXCEPT !.mods = s]
<1>1. page \in PageState /\ s \in Id \cup {NoTab}
  BY PageIsGood, PageFields
<1>2. /\ p \in PageState /\ p.says = page.says /\ p.outbox = page.outbox /\ p.listed = page.listed
      /\ p.tabs = page.tabs /\ p.active = page.active /\ p.att = page.att /\ p.mods = s
      /\ p.creating = page.creating /\ p.late = page.late /\ p.listing = page.listing
      /\ p.known = page.known /\ p.own = page.own /\ p.grid = page.grid
  BY <1>1 DEF PageState
<1>3. Acts(p)
  OBVIOUS
<1> HIDE DEF p
<1>4. Tabs(p) = Tabs(page)
  BY <1>2 DEF Tabs
<1>5. Good(p, host.live, Reached, Numbers)
  BY <1>2, <1>4, PageIsGood DEF Good, Fit, Busy, Gridded, GridFits
<1>6. Own(p)
  BY <1>2, <1>4, <1>5 DEF Own, Stays, Speaks
<1> QED
  BY <1>3, <1>6, ActsStep

LEMMA UserStep ==
    ASSUME PageInv,
           \/ Poll \/ Chip \/ UserCreates
           \/ \E s \in Id : UserSwitches(s) \/ UserCloses(s)
    PROVE  PageInv'
<1>1. Good(page, host.live, Reached, Numbers) /\ page \in PageState /\ Stays(page, page)
  BY PageIsGood
<1>2. CASE Poll
  <2>1. Little(page, ClaimActive(page)) /\ Turn(ClaimActive(page))
    BY <1>1, <1>2, ClaimsLittle DEF Poll
  <2>2. Own(ClaimActive(page))
    BY <1>1, <2>1, OwnLittle
  <2> QED
    BY <2>1, <2>2, TurnStep
<1>3. CASE Chip
  <2> DEFINE t == IF page.own[page.active] THEN "release" ELSE "force"
             p == Say(page, t, page.active)
  <2>1. t \in Kinds /\ page.active \in Id \cup {NoTab}
    BY <1>1, PageFields DEF Kinds
  <2>2. Turn(p)
    BY <1>3 DEF Chip
  <2> HIDE DEF t
  <2>3. Little(page, p)
    BY <1>1, <2>1, SaysLittle
  <2> HIDE DEF p
  <2>4. Own(p)
    BY <1>1, <2>3, OwnLittle
  <2> QED
    BY <2>2, <2>4, TurnStep
<1>4. CASE UserCreates
  <2> DEFINE p == CreateTab(page)
             L == host.live
             A == Reached
             B == Numbers
  <2>1. Turn(p) /\ Good(page, L, A, B)
    BY <1>1, <1>4 DEF UserCreates
  <2> HIDE DEF L, A, B
  <2>2. Fit(p, L, A, B) /\ Busy(p) /\ Gridded(p, Id) /\ Tabs(p) = Tabs(page) /\ Kept(page, p)
    BY <2>1, CreateFits DEF Good
  <2> HIDE DEF p
  <2>3. Own(p)
    BY <2>2 DEF Own, Good, Kept, Stays, L, A, B
  <2> QED
    BY <2>1, <2>3, TurnStep
<1>5. ASSUME NEW s \in Id, UserSwitches(s) PROVE PageInv'
  <2> DEFINE p == SwitchTab(page, s)
             L == host.live
             A == Reached
             B == Numbers
  <2>1. Turn(p) /\ Good(page, L, A, B) /\ s \in Tabs(page)
    BY <1>1, <1>5 DEF UserSwitches
  <2> HIDE DEF L, A, B
  <2>2. Good(p, L, A, B) /\ Stays(page, p) /\ Tabs(p) = Tabs(page)
    BY <2>1, SwitchIs
  <2> HIDE DEF p
  <2>3. Own(p)
    BY <2>2 DEF Own, L, A, B
  <2> QED
    BY <2>1, <2>3, TurnStep
<1>6. ASSUME NEW s \in Id, UserCloses(s) PROVE PageInv'
  <2> DEFINE p == CloseTab(page, s)
             L == host.live
             A == Reached
             B == Numbers
  <2>1. Turn(p) /\ Good(page, L, A, B) /\ s \in Tabs(page)
    BY <1>1, <1>6 DEF UserCloses
  <2> HIDE DEF L, A, B
  <2>2. Good(page, L \ {s}, A, B)
    BY <2>1 DEF Good, Fit
  <2>3. Good(p, L, A, B) /\ Stays(page, p) /\ Tabs(p) = Tabs(page) \ {s} /\ ClosingOf(s) \in ToSet(p.says)
    BY <2>1, <2>2, CloseIs
  <2> HIDE DEF p
  <2>4. Own(p)
    BY <2>3 DEF Own, L, A, B
  <2> QED
    BY <2>1, <2>4, TurnStep
<1> QED
  BY <1>2, <1>3, <1>4, <1>5, <1>6

LEMMA LostStep ==
    ASSUME PageInv, OutboxLost
    PROVE  PageInv'
<1> DEFINE L == host.live
           A == Reached
           B == Numbers
           r == [page EXCEPT !.says = <<>>, !.outbox = <<>>]
<1>1. Good(page, L, A, B) /\ page \in PageState /\ page.says = <<>> /\ UNCHANGED <<world, host, link, toHost, toPage>>
  BY PageIsGood DEF OutboxLost
<1>2. page' = r
  BY <1>1 DEF OutboxLost, PageState
<1> HIDE DEF L, A, B
<1>3. Carries(A, page, A)
  BY <1>1, NoElements DEF Carries
<1>4. Good(r, L, A, B)
  BY <1>1, <1>3, NoMessages, GoodSends
<1>5. r \in PageState /\ r.says = <<>>
  BY <1>1, NoMessages DEF PageState
<1>6. ~Up /\ ~Up'
  BY <1>1 DEF OutboxLost, Up
<1> HIDE DEF r
<1>7. Reached' = Reached /\ Numbers' = Numbers
  BY <1>1, <1>6 DEF Reached, Numbers
<1>8. PageGood'
  BY <1>1, <1>2, <1>4, <1>7 DEF PageGood, L, A, B
<1>9. PageTypeOK'
  BY <1>1, <1>2, <1>5 DEF PageInv, PageTypeOK
<1>10. MessagesFit' /\ ListFits'
  BY <1>1, <1>6, <1>7 DEF PageInv, MessagesFit, ListFits
<1> QED
  BY <1>8, <1>9, <1>10 DEF PageInv

(* The attaches of a new connection. *)
LEMMA AttachesAre ==
    ASSUME NEW att \in SUBSET Id
    PROVE  LET again == Chosen([s \in Id |-> s], att)
               msgs == [i \in DOMAIN again |-> [t |-> "attach", id |-> again[i]]]
           IN  msgs \in Seq(Said) /\ \A s \in att : Attaching(s) \in ToSet(msgs)
<1> DEFINE ids == [s \in Id |-> s]
           again == Chosen(ids, att)
           msgs == [i \in DOMAIN again |-> [t |-> "attach", id |-> again[i]]]
<1>1. MaxSession \in Nat
  BY PageAssumption
<1>2. ids \in Seq(Id) /\ ToSet(ids) = Id
  BY <1>1 DEF Id, ToSet
<1>3. again \in Seq(Id) /\ ToSet(again) = att
  <2> HIDE DEF ids
  <2>1. again \in Seq(Id) /\ ToSet(again) = ToSet(ids) \cap att
    BY <1>2, ChosenElements
  <2> QED
    BY <1>2, <2>1
<1> HIDE DEF again
<1> DEFINE n == Len(again)
<1>4. n \in Nat /\ DOMAIN again = 1 .. n /\ \A i \in 1 .. n : again[i] \in Id
  BY <1>3
<1>5. \A i \in 1 .. n : [t |-> "attach", id |-> again[i]] \in Said
  BY <1>4 DEF Said, Kinds
<1> HIDE DEF n
<1>6. DOMAIN msgs = 1 .. n /\ \A i \in 1 .. n : msgs[i] = Attaching(again[i])
  BY <1>4 DEF Attaching
<1>7. msgs \in Seq(Said)
  BY <1>4, <1>5
<1> HIDE DEF msgs
<1>8. \A s \in att : Attaching(s) \in ToSet(msgs)
  BY <1>3, <1>4, <1>6 DEF ToSet
<1> QED
  BY <1>7, <1>8 DEF msgs, again, ids

(* The list a new connection starts with. *)
LEMMA FirstList ==
    ASSUME host \in HostState, host.live \subseteq Numbers
    PROVE  LET q == <<TabsMessage>>
           IN  /\ q \in Seq(Told) /\ Lately(q, host.live, host.size)
               /\ \A m \in ToSet(q) : Fitting(m)
<1>1. /\ TabsMessage \in Told /\ TabsMessage.t = "tabs" /\ TabsMessage.size = host.size
      /\ ToSet(TabsMessage.tabs) = host.live
  BY ListMessage
<1>2. <<>> \in Seq(Told) /\ ToSet(<<>>) = {} /\ Append(<<>>, TabsMessage) = <<TabsMessage>>
  BY NoElements
<1>3. \A e \in Seq(Told) : ToSet(Append(e, TabsMessage)) = ToSet(e) \cup {TabsMessage}
  BY <1>1, AppendElements
<1>4. ToSet(<<TabsMessage>>) = {TabsMessage}
  BY <1>2, <1>3
<1>5. \A e \in Seq(Told) : Lately(Append(e, TabsMessage), host.live, host.size)
  BY <1>1, ListAppended
<1>6. Lately(<<TabsMessage>>, host.live, host.size)
  BY <1>2, <1>5
<1>7. <<TabsMessage>> \in Seq(Told)
  BY <1>1
<1>8. Fitting(TabsMessage)
  BY <1>1 DEF Fitting
<1> QED
  BY <1>4, <1>6, <1>7, <1>8

LEMMA ReadyIs ==
    ASSUME NEW p, NEW L, NEW A, NEW B, Good(p, L, A, B)
    PROVE  LET r == OnReady(p)
           IN  Good(r, L, A, B) /\ r.att = p.att
<1> DEFINE heal == p.heal \cup Tabs(p)
           q == [p EXCEPT !.heal = heal, !.claimed = NoTab]
           r == OnReady(p)
<1>1. p \in PageState /\ heal \in SUBSET Id
  BY PageFields, TabsAreIds DEF Good, Fit
<1>2. r = ClaimActive(q)
  BY <1>1 DEF OnReady, HealTabs, ClaimAnew, PageState
<1> HIDE DEF heal, r
<1>3. q \in PageState /\ q.says = p.says /\ q.outbox = p.outbox /\ Rest(p, q) /\ Sized(p, q)
  BY <1>1 DEF PageState, Rest, Sized
<1> HIDE DEF q
<1>4. Good(q, L, A, B)
  BY <1>3, ScreensAside
<1>5. Little(q, r)
  BY <1>2, <1>3, ClaimsLittle
<1>6. Good(r, L, A, B)
  BY <1>4, <1>5, LittleIs
<1> QED
  BY <1>3, <1>5, <1>6 DEF Little, Rest, r

LEMMA ReconnectStep ==
    ASSUME PageInv, Reconnect
    PROVE  PageInv'
<1> DEFINE L == host.live
           A == Reached
           B == Numbers
           p == IF world.relay THEN OnReady(page) ELSE page
           again == Chosen([s \in Id |-> s], p.att)
           msgs == [i \in DOMAIN again |-> [t |-> "attach", id |-> again[i]]]
           r == [p EXCEPT !.says = <<>>, !.outbox = <<>>]
           C == Reached'
<1>1. Good(page, L, A, B) /\ host \in HostState /\ L \subseteq B
  BY PageIsGood DEF PageInv, PageTypeOK, MessagesFit
<1>2. /\ UNCHANGED <<world, host>> /\ link' = "later" /\ toPage' = <<TabsMessage>>
      /\ page' = r /\ toHost' = p.says \o p.outbox \o msgs
  BY DEF Reconnect
<1> HIDE DEF L, A, B, C
<1>3. Good(p, L, A, B)
  BY <1>1, ReadyIs
<1> HIDE DEF p
<1>4. p \in PageState /\ p.att \in SUBSET Id /\ p.says \in Seq(Said) /\ p.outbox \in Seq(Said)
  BY <1>3, PageFields DEF Good, Fit
<1>5. msgs \in Seq(Said) /\ \A s \in p.att : Attaching(s) \in ToSet(msgs)
  BY <1>4, AttachesAre
<1> HIDE DEF msgs, again
<1>6. toHost' \in Seq(Said) /\ ToSet(toHost') = ToSet(p.says) \cup ToSet(p.outbox) \cup ToSet(msgs)
  <2> DEFINE q == p.says \o p.outbox
  <2>1. q \in Seq(Said) /\ ToSet(q) = ToSet(p.says) \cup ToSet(p.outbox)
    BY <1>4, CatElements
  <2> HIDE DEF q
  <2>2. q \o msgs \in Seq(Said) /\ ToSet(q \o msgs) = ToSet(q) \cup ToSet(msgs)
    BY <1>5, <2>1, CatElements
  <2> QED
    BY <1>2, <2>1, <2>2 DEF q
<1>7. Up' /\ Numbers' = Numbers
  BY <1>2 DEF Up, Numbers
<1>8. Carries(p.att, p, C)
  BY <1>2, <1>4, <1>5, <1>6, <1>7 DEF Carries, C, Reached
<1>9. Good(p, L, p.att, B)
  BY <1>3 DEF Good, Fit
<1>10. Good(r, L, C, B)
  BY <1>8, <1>9, NoMessages, GoodSends
<1>11. r \in PageState /\ r.says = <<>>
  BY <1>4, NoMessages DEF PageState
<1> HIDE DEF r
<1>12. PageGood'
  BY <1>2, <1>7, <1>10 DEF PageGood, L, B, C
<1>13. toPage' \in Seq(Told) /\ Lately(toPage', host.live, host.size) /\ \A m \in ToSet(toPage') : Fitting(m)
  BY <1>1, <1>2, FirstList DEF L, B
<1>14. PageTypeOK'
  BY <1>2, <1>6, <1>11, <1>13 DEF PageInv, PageTypeOK
<1>15. MessagesFit'
  BY <1>1, <1>2, <1>7, <1>13 DEF MessagesFit, Fitting, L, B
<1>16. ListFits'
  BY <1>2, <1>13 DEF ListFits
<1> QED
  BY <1>12, <1>14, <1>15, <1>16 DEF PageInv

-----------------------------------------------------------------------------
(* What the page hears *)

(* The page takes m off what the host has sent: the first of it, where      *)
(* messages are not sealed.                                                 *)
Hears(m) ==
    /\ PageInv /\ UNCHANGED <<world, host, link>> /\ Up /\ toPage' \in Seq(Told) /\ m \in Told
    /\ ToSet(toPage) = {m} \cup ToSet(toPage')
    /\ world.sealed \/ (toPage # <<>> /\ m = Head(toPage) /\ toPage' = Tail(toPage))

LEMMA HearsHead ==
    ASSUME PageInv, PageReceives
    PROVE  Hears(Head(toPage))
<1>1. toPage \in Seq(Told) /\ toPage # <<>> /\ toPage' = Tail(toPage)
  BY DEF PageInv, PageTypeOK, PageReceives
<1>2. Head(toPage) \in ToSet(toPage) /\ Tail(toPage) \in Seq(Told) /\ ToSet(toPage) = {Head(toPage)} \cup ToSet(Tail(toPage))
  BY <1>1, TailElements
<1>3. Head(toPage) \in Told
  BY <1>1, <1>2, ElementsIn
<1> QED
  BY <1>1, <1>2, <1>3 DEF Hears, PageReceives

LEMMA HearsOpened ==
    ASSUME PageInv, NEW i \in DOMAIN toPage, PageOpens(i)
    PROVE  Hears(toPage[i])
<1>1. toPage \in Seq(Told) /\ toPage' = RemoveAt(toPage, i)
  BY DEF PageInv, PageTypeOK, PageOpens
<1>2. /\ toPage[i] \in Told /\ RemoveAt(toPage, i) \in Seq(Told)
      /\ ToSet(toPage) = {toPage[i]} \cup ToSet(RemoveAt(toPage, i))
  BY <1>1, RemoveElements
<1> QED
  BY <1>1, <1>2 DEF Hears, PageOpens

LEMMA HearsStep ==
    ASSUME NEW m, Hears(m), NEW p, Does(p), Good(p, host.live, Reached, Numbers),
           \/ m.t = "tabs" /\ p.listed = m.size /\ Tabs(p) = ToSet(m.tabs)
           \/ /\ m.t # "tabs" /\ p.listed = page.listed
              /\ Tabs(p) \subseteq Tabs(page) /\ Tabs(page) \cap host.live \subseteq Tabs(p)
    PROVE  PageInv'
<1>1. /\ PageInv /\ UNCHANGED <<world, host, link>> /\ Up /\ toPage \in Seq(Told)
      /\ world.sealed \/ (toPage # <<>> /\ m = Head(toPage) /\ toPage' = Tail(toPage))
  BY DEF Hears, PageInv, PageTypeOK
<1>2. /\ page' \in PageState /\ page'.says = <<>> /\ toHost' \in Seq(Said) /\ PageGood'
      /\ Tabs(page') = Tabs(p) /\ page'.listed = p.listed
      /\ ToSet(toHost') = ToSet(toHost) \cup ToSet(p.says)
  BY <1>1, DoesGood
<1>3. toPage' \in Seq(Told) /\ ToSet(toPage) = {m} \cup ToSet(toPage')
  BY DEF Hears
<1>4. PageTypeOK'
  BY <1>1, <1>2, <1>3 DEF PageInv, PageTypeOK
<1>5. MessagesFit'
  BY <1>1, <1>3 DEF PageInv, MessagesFit, Numbers
<1>6. ASSUME ~world.sealed
      PROVE  /\ NoList(toPage) => NoList(toPage') /\ m.t # "tabs"
             /\ Lately(toPage, host.live, host.size) =>
                    \/ Lately(toPage', host.live, host.size)
                    \/ NoList(toPage') /\ m.t = "tabs" /\ ToSet(m.tabs) = host.live /\ m.size = host.size
  <2>1. toPage \in Seq(Told) /\ toPage # <<>> /\ m = Head(toPage) /\ toPage' = Tail(toPage)
    BY <1>1, <1>6
  <2> QED
    BY <2>1, ListTaken
<1>7. ListFits'
  <2>1. SUFFICES ASSUME ~host.dirty, ~world.sealed PROVE ListFits'
    BY <1>1 DEF ListFits
  <2>2. CASE Lately(toPage', host.live, host.size)
    BY <1>1, <2>2 DEF ListFits
  <2>3. CASE NoList(toPage') /\ m.t = "tabs" /\ ToSet(m.tabs) = host.live /\ m.size = host.size
    <3>1. page'.listed = host.size /\ Tabs(page') = host.live
      BY <1>2, <2>3
    <3> QED
      BY <1>1, <2>3, <3>1 DEF ListFits
  <2>4. CASE /\ NoList(toPage) /\ page.listed = host.size /\ Tabs(page) \subseteq host.live
             /\ \A s \in host.live \ Tabs(page) : ClosingOf(s) \in ToSet(toHost)
    <3>1. NoList(toPage') /\ m.t # "tabs"
      BY <1>6, <2>1, <2>4
    <3>2. page'.listed = host.size /\ Tabs(page') \subseteq Tabs(page) /\ Tabs(page) \cap host.live \subseteq Tabs(page')
      BY <1>2, <2>4, <3>1
    <3>3. \A s \in host.live \ Tabs(page') : ClosingOf(s) \in ToSet(toHost')
      BY <1>2, <2>4, <3>2
    <3> QED
      BY <1>1, <2>4, <3>1, <3>2, <3>3 DEF ListFits
  <2> QED
    BY <1>1, <1>6, <2>1, <2>2, <2>3, <2>4 DEF PageInv, ListFits
<1> QED
  BY <1>2, <1>4, <1>5, <1>7 DEF PageInv

LEMMA ReceivedStep ==
    ASSUME NEW m, Hears(m), Does(Received(page, m))
    PROVE  PageInv'
<1> DEFINE p == Received(page, m)
           L == host.live
           A == Reached
           B == Numbers
<1>1. Good(page, L, A, B) /\ Does(p) /\ PageInv
  BY PageIsGood DEF Hears
<1>2. m \in Told /\ m \in ToSet(toPage)
  BY DEF Hears
<1>3. /\ m.t = "tabs" => ToSet(m.tabs) \subseteq B
      /\ m.t = "exit" => m.id \in B \ L
  BY <1>1, <1>2 DEF PageInv, MessagesFit
<1> HIDE DEF L, A, B
<1>4. CASE m.t = "tabs"
  <2>1. p = OnTabList(page, m.tabs, m.size)
    BY <1>4 DEF Received
  <2>2. PICK tabs \in Seq(Id), grids \in [Id -> Whose] : m.tabs = tabs /\ m.size = grids
    BY <1>2, <1>4 DEF Told
  <2> HIDE DEF p
  <2>3. p = OnTabList(page, tabs, grids) /\ ToSet(tabs) \subseteq B /\ Good(page, L, A, B)
    BY <1>1, <1>3, <1>4, <2>1, <2>2
  <2>4. Good(p, L, A, B) /\ p.listed = grids /\ Tabs(p) = ToSet(tabs)
    BY <2>3, TabListIs
  <2> QED
    BY <1>1, <1>4, <2>2, <2>4, HearsStep DEF L, A, B
<1>5. ASSUME m.t # "tabs", Good(p, L, A, B), Stays(page, p), Tabs(p) \subseteq Tabs(page),
             Tabs(page) \cap L \subseteq Tabs(p)
      PROVE  PageInv'
  <2> HIDE DEF p
  <2>1. p.listed = page.listed
    BY <1>5 DEF Stays
  <2> QED
    BY <1>1, <1>5, <2>1, HearsStep DEF L, A, B
<1>6. CASE m.t = "exit"
  <2>1. m.id \in Id \ L
    BY <1>2, <1>3, <1>6 DEF Told
  <2>2. p = OnExit(page, m.id)
    BY <1>6 DEF Received
  <2> HIDE DEF p
  <2>3. Good(p, L, A, B) /\ Stays(page, p) /\ (Tabs(p) = Tabs(page) \/ Tabs(p) = Tabs(page) \ {m.id})
    BY <1>1, <2>1, <2>2, ExitIs
  <2> QED
    BY <1>5, <1>6, <2>1, <2>3
<1>7. CASE m.t = "geo"
  <2>1. m.id \in Id
    BY <1>2, <1>7 DEF Told
  <2>2. p = OnGeoOwnership(page, m.id, m.owner)
    BY <1>7 DEF Received
  <2> HIDE DEF p
  <2>3. Good(p, L, A, B) /\ Stays(page, p) /\ Tabs(p) = Tabs(page)
    BY <1>1, <2>1, <2>2, OwnershipIs
  <2> QED
    BY <1>5, <1>7, <2>3
<1>8. CASE m.t = "attached"
  <2>1. m.id \in Id /\ m.n \in 0 .. MaxOut
    BY <1>2, <1>8 DEF Told
  <2>2. p = OnAttached(page, m.id, m.n)
    BY <1>8 DEF Received
  <2> HIDE DEF p
  <2>3. Good(p, L, A, B) /\ Stays(page, p) /\ Tabs(p) = Tabs(page)
    BY <1>1, <2>1, <2>2, AttachedIs
  <2> QED
    BY <1>5, <1>8, <2>3
<1>9. CASE m.t = "data"
  <2>1. m.id \in Id /\ m.n \in 0 .. MaxOut
    BY <1>2, <1>9 DEF Told
  <2>2. p = OnData(page, m.id, m.n)
    BY <1>9 DEF Received
  <2> HIDE DEF p
  <2>3. Good(p, L, A, B) /\ Stays(page, p) /\ Tabs(p) = Tabs(page)
    BY <1>1, <2>1, <2>2, DataIs
  <2> QED
    BY <1>5, <1>9, <2>3
<1> QED
  BY <1>2, <1>4, <1>6, <1>7, <1>8, <1>9 DEF Told

LEMMA ReceivesStep ==
    ASSUME PageInv, PageReceives
    PROVE  PageInv'
BY HearsHead, ReceivedStep DEF PageReceives

LEMMA PageOpensStep ==
    ASSUME PageInv, NEW i \in DOMAIN toPage, PageOpens(i)
    PROVE  PageInv'
BY HearsOpened, ReceivedStep DEF PageOpens

-----------------------------------------------------------------------------
(* The tabs, the grids and the modifiers: the theorems *)

LEMMA PageStarts ==
    PageInit => PageInv
<1> SUFFICES ASSUME PageInit PROVE PageInv
  OBVIOUS
<1>1. PICK k \in 0 .. world.sessions - 1 :
          /\ host = [next |-> k + 1, live |-> 1 .. k, owner |-> [s \in Id |-> "local"],
                     size |-> [s \in Id |-> "other"], attached |-> {}, out |-> [s \in Id |-> 0],
                     dirty |-> FALSE, turns |-> 0]
          /\ toPage = <<[t |-> "tabs", tabs |-> [i \in 1 .. k |-> i], size |-> [s \in Id |-> "other"]]>>
  BY DEF PageInit
<1> DEFINE ids == [i \in 1 .. k |-> i]
           grids == [s \in Id |-> "other"]
           m == [t |-> "tabs", tabs |-> ids, size |-> grids]
<1>2. world \in Worlds /\ Up /\ toHost = <<[t |-> "list", id |-> NoTab]>> /\ link = "first"
  BY DEF PageInit, Up
<1>3. /\ k \in Nat /\ k + 1 \in 1 .. MaxSession + 1 /\ 1 .. k \subseteq Id /\ (k + 1) - 1 = k
      /\ MaxOut \in Nat /\ MaxTurns \in Nat
  <2>1. world.sessions \in 1 .. MaxSession /\ MaxSession \in Nat /\ MaxOut \in Nat /\ MaxTurns \in Nat
    BY <1>2, WorldIs
  <2>2. k \in 0 .. world.sessions - 1
    OBVIOUS
  <2> QED
    BY <2>1, <2>2 DEF Id
<1>4. grids \in [Id -> Whose]
  BY DEF Whose
<1>5. host \in HostState
  <2>1. [s \in Id |-> "local"] \in [Id -> Owner] /\ [s \in Id |-> 0] \in [Id -> 0 .. MaxOut] /\ 0 \in 0 .. MaxTurns
    BY <1>3 DEF Owner
  <2> QED
    BY <1>1, <1>3, <1>4, <2>1 DEF HostState
<1>6. host.live = 1 .. k /\ host.next = k + 1 /\ host.size = grids
  BY <1>1
<1>7. Numbers = 1 .. k
  BY <1>3, <1>6 DEF Numbers
<1>8. ids \in Seq(Id) /\ ToSet(ids) = 1 .. k
  BY <1>3 DEF ToSet
<1> HIDE DEF ids, grids
<1>9. m \in Told /\ m.t = "tabs" /\ m.tabs = ids /\ m.size = grids
  BY <1>4, <1>8 DEF Told
<1>10. toPage = <<m>>
  BY <1>1 DEF ids, grids
<1> HIDE DEF m
<1>11. toPage \in Seq(Told) /\ ToSet(toPage) = {m}
  <2>1. \A e \in Seq(Told) : ToSet(Append(e, m)) = ToSet(e) \cup {m}
    BY <1>9, AppendElements
  <2>2. <<>> \in Seq(Told) /\ ToSet(<<>>) = {} /\ Append(<<>>, m) = <<m>>
    BY NoElements
  <2>3. \A x \in Told : <<x>> \in Seq(Told)
    OBVIOUS
  <2>4. ToSet(<<m>>) = {m}
    BY <2>1, <2>2
  <2>5. <<m>> \in Seq(Told)
    BY <1>9, <2>3
  <2> QED
    BY <1>10, <2>4, <2>5
<1>12. Lately(toPage, host.live, host.size)
  <2>1. \A e \in Seq(Told) : Lately(Append(e, m), ToSet(m.tabs), m.size)
    BY <1>9, ListAppended
  <2>2. <<>> \in Seq(Told) /\ Append(<<>>, m) = <<m>>
    OBVIOUS
  <2>3. Lately(<<m>>, ToSet(m.tabs), m.size)
    BY <2>1, <2>2
  <2> QED
    BY <1>6, <1>8, <1>9, <1>10, <2>3
<1>13. toHost \in Seq(Said)
  BY <1>2 DEF Said, Kinds
<1>14. /\ page.tabs = <<>> /\ page.own = [s \in Id |-> FALSE] /\ page.alive = [s \in Id |-> FALSE]
       /\ page.shown = [s \in Id |-> 0] /\ page.whole = [s \in Id |-> TRUE] /\ page.made = {}
       /\ page.grid = [s \in Id |-> "other"] /\ page.listed = [s \in Id |-> "other"]
       /\ page.active = NoTab /\ page.known = {} /\ page.att = {} /\ page.heal = {} /\ page.claimed = NoTab
       /\ page.focus = TRUE /\ page.listing = TRUE /\ page.creating = <<>> /\ page.late = FALSE
       /\ page.mods = NoTab /\ page.says = <<>> /\ page.outbox = <<>>
  BY DEF PageInit
<1>15. page \in PageState
  <2>1. /\ [s \in Id |-> FALSE] \in [Id -> BOOLEAN] /\ [s \in Id |-> TRUE] \in [Id -> BOOLEAN]
        /\ [s \in Id |-> 0] \in [Id -> 0 .. MaxOut]
        /\ <<>> \in Seq(Id) /\ <<>> \in Seq(SUBSET Id) /\ <<>> \in Seq(Said)
    BY <1>3
  <2> QED
    BY <1>4, <2>1 DEF PageInit, PageState, grids
<1>16. PageTypeOK
  BY <1>2, <1>5, <1>11, <1>13, <1>14, <1>15 DEF PageTypeOK
<1>17. PageGood
  <2>1. Tabs(page) = {}
    BY <1>14, NoElements DEF Tabs
  <2> HIDE DEF Numbers, Reached
  <2> QED
    BY <1>14, <1>15, <2>1 DEF PageGood, Good, Fit, Busy, Gridded
<1>18. MessagesFit
  BY <1>6, <1>7, <1>8, <1>9, <1>11 DEF MessagesFit
<1>19. ListFits
  BY <1>12 DEF ListFits
<1> QED
  BY <1>16, <1>17, <1>18, <1>19 DEF PageInv

LEMMA PageStutters ==
    ASSUME PageInv, UNCHANGED pageVars
    PROVE  PageInv'
BY DEF PageInv, pageVars, PageTypeOK, PageGood, MessagesFit, ListFits, Reached, Numbers, Up, Tabs

LEMMA PageMoves ==
    PageInv /\ [PageNext]_pageVars => PageInv'
<1> SUFFICES ASSUME PageInv, [PageNext]_pageVars PROVE PageInv'
  OBVIOUS
<1>1. CASE HostHandles
  BY <1>1, HandlesStep
<1>2. CASE HostBroadcasts
  BY <1>2, BroadcastsStep
<1>3. CASE OtherCreates
  BY <1>3, OtherCreatesStep
<1>4. ASSUME NEW s \in Id, Output(s) PROVE PageInv'
  BY <1>4, OutputStep
<1>5. ASSUME NEW s \in Id, SessionExits(s) PROVE PageInv'
  BY <1>5, ExitsStep
<1>6. ASSUME NEW s \in Id, NEW owner \in {"local", "other"}, OtherTakes(s, owner) PROVE PageInv'
  BY <1>6, OtherTakesStep
<1>7. CASE LinkDrops
  BY <1>7, DropStep
<1>8. CASE OutboxLost
  BY <1>8, LostStep
<1>9. CASE Reconnect
  BY <1>9, ReconnectStep
<1>10. CASE PageReceives
  BY <1>10, ReceivesStep
<1>11. CASE CreateTimesOut
  BY <1>11, TimesOutStep
<1>12. CASE ListTimesOut
  BY <1>12, ListTimesOutStep
<1>13. CASE Focus
  BY <1>13, FocusStep
<1>14. CASE Blur
  BY <1>14, BlurStep
<1>15. CASE Poll \/ Chip \/ UserCreates
  BY <1>15, UserStep
<1>16. ASSUME NEW s \in Id, UserSwitches(s) \/ UserCloses(s) PROVE PageInv'
  BY <1>16, UserStep
<1>17. CASE PressModifier
  BY <1>17, ModsStep DEF PressModifier
<1>18. CASE TapKey
  BY <1>18, ModsStep DEF TapKey
<1>19. CASE UNCHANGED pageVars
  BY <1>19, PageStutters
<1>20. ASSUME NEW i \in DOMAIN toHost, HostOpens(i) PROVE PageInv'
  BY <1>20, HostOpensStep
<1>21. ASSUME NEW i \in DOMAIN toPage, PageOpens(i) PROVE PageInv'
  BY <1>21, PageOpensStep
<1> QED
  BY <1>1, <1>2, <1>3, <1>4, <1>5, <1>6, <1>7, <1>8, <1>9, <1>10, <1>11, <1>12, <1>13, <1>14, <1>15,
     <1>16, <1>17, <1>18, <1>19, <1>20, <1>21 DEF PageNext

LEMMA PageHolds ==
    PageSpec => []PageInv
<1>1. PageInit => PageInv
  BY PageStarts
<1>2. PageInv /\ [PageNext]_pageVars => PageInv'
  BY PageMoves
<1> QED
  BY <1>1, <1>2, PTL DEF PageSpec

(* The page's, the host's and the messages' types. *)
THEOREM PageTypeCorrect == PageSpec => []PageTypeOK
<1>1. PageInv => PageTypeOK
  BY DEF PageInv
<1> QED
  BY <1>1, PageHolds, PTL

(* terminalApp.ts:326: whatever the page hears and the user does, in any    *)
(* order, sealed or not, a modifier is for the tab the user looks at, or    *)
(* there is none.                                                           *)
THEOREM ModifiersDoStay == PageSpec => []ModifiersStay
<1>1. PageInv => ModifiersStay
  BY DEF PageInv, PageGood, Good, Fit, ModifiersStay
<1> QED
  BY <1>1, PageHolds, PTL

(* At rest the page has heard the last list and has nothing to say. *)
LEMMA SettledList ==
    ASSUME PageInv, Settled, ~world.sealed
    PROVE  Tabs(page) = host.live /\ page.listed = host.size
<1>1. Up /\ ~host.dirty /\ toHost = <<>> /\ toPage = <<>>
  BY DEF Settled
<1>2. ToSet(toHost) = {} /\ Len(toPage) = 0
  BY <1>1, NoElements
<1>3. ~Lately(toPage, host.live, host.size)
  BY <1>2 DEF Lately
<1> QED
  BY <1>1, <1>2, <1>3 DEF PageInv, ListFits

(* xtermWrapper.ts:155: where messages are not sealed, at rest every tab    *)
(* that does not size its session draws with the grid the session has,      *)
(* whoever resized it when.                                                 *)
THEOREM FollowersDoTrack == PageSpec => []FollowersTrack
<1>1. ASSUME PageInv, Settled, ~world.sealed, NEW s \in Tabs(page) PROVE page.own[s] \/ page.grid[s] = host.size[s]
  <2>1. page.listed = host.size
    BY <1>1, SettledList
  <2>2. Gridded(page, Id) /\ Tabs(page) \subseteq Id
    BY <1>1, TabsAreIds DEF PageInv, PageGood, Good, PageTypeOK
  <2> QED
    BY <2>1, <2>2 DEF Gridded, GridFits
<1>2. PageInv => FollowersTrack
  BY <1>1 DEF FollowersTrack
<1> QED
  BY <1>2, PageHolds, PTL

(* terminalApp.ts:285: where messages are not sealed, at rest the tabs are  *)
(* the host's sessions, the page shows one the host sends the output of,    *)
(* and shows none only if there is none or a session it asked for did not   *)
(* come.                                                                    *)
THEOREM TabsDoAgree == PageSpec => []TabsAgree
<1>1. ASSUME PageInv, Settled, ~world.sealed
      PROVE  /\ Tabs(page) = host.live
             /\ page.active # NoTab => page.active \in host.attached
             /\ page.active = NoTab => page.late \/ host.live = {}
  <2>1. Tabs(page) = host.live
    BY <1>1, SettledList
  <2>2. /\ Up /\ toHost = <<>> /\ page.creating = <<>> /\ ~page.listing
        /\ Fit(page, host.live, Reached, Numbers) /\ Busy(page) /\ page.says = <<>>
    BY <1>1 DEF Settled, PageInv, PageGood, Good, PageTypeOK
  <2>3. ToSet(toHost) = {} /\ ToSet(page.says) = {}
    BY <2>2, NoElements
  <2>4. ASSUME page.active # NoTab PROVE page.active \in host.attached
    <3>1. page.active \in host.live /\ page.active \in Reached
      BY <2>1, <2>2, <2>3, <2>4 DEF Fit
    <3> QED
      BY <2>2, <2>3, <3>1 DEF Reached
  <2>5. page.active = NoTab => page.late
    BY <2>2 DEF Busy
  <2> QED
    BY <2>1, <2>4, <2>5
<1>2. PageInv => TabsAgree
  BY <1>1 DEF TabsAgree
<1> QED
  BY <1>2, PageHolds, PTL

-----------------------------------------------------------------------------
(* Sessions the page does not drop *)

(* s is still a tab and followed, or becomes so. *)
Follows(p, q, s) ==
    /\ s \in Tabs(p) => s \in Tabs(q)
    /\ s \in p.att => s \in q.att
    /\ s \in q.att => s \in p.att \/ s \in Tabs(q)
    /\ Attaching(s) \in ToSet(q.says) => Attaching(s) \in ToSet(p.says) \/ s \in q.att
    /\ ClosingOf(s) \in ToSet(q.says) => ClosingOf(s) \in ToSet(p.says)

(* The screen of s is as it was, and marked or not. *)
SameScreen(p, q, s) ==
    q.shown[s] = p.shown[s] /\ q.whole[s] = p.whole[s] /\ (s \in q.heal <=> s \in p.heal)

(* Unless the page has made sessions, it sizes s or not as before.         *)
SameOwner(p, q, s) ==
    /\ s \in Tabs(p) => q.alive[s] = p.alive[s]
    /\ s \in Tabs(q) => s \in Tabs(p) \/ q.alive[s]
    /\ q.made = {} /\ (s \in Tabs(p) \/ ~p.own[s]) => q.own[s] = p.own[s]

Spared(p, q, s) == Follows(p, q, s) /\ SameScreen(p, q, s) /\ SameOwner(p, q, s)

(* From p to q the page drops no session out of D. *)
Lightly(p, q, D) ==
    /\ q \in PageState
    /\ q.made = {} => p.made = {}
    /\ \A s \in Id \ D : Spared(p, q, s)

(* A page that waits for no session and has made none did not ask for one. *)
Calm(p, q) ==
    q.made = {} /\ q.creating = <<>> =>
        /\ p.creating = <<>>
        /\ \A m \in ToSet(q.says) : m.t = "create" => m \in ToSet(p.says)

Gently(p, q, D) == Lightly(p, q, D) /\ Calm(p, q)

LEMMA SparedChain ==
    ASSUME NEW p, NEW q, NEW r, NEW s, Spared(p, q, s), Spared(q, r, s), r.made = {} => q.made = {}
    PROVE  Spared(p, r, s)
<1>1. Follows(p, r, s)
  BY DEF Spared, Follows
<1>2. SameScreen(p, r, s)
  BY DEF Spared, SameScreen
<1>3. SameOwner(p, r, s)
  BY DEF Spared, SameOwner, Follows
<1> QED
  BY <1>1, <1>2, <1>3 DEF Spared

LEMMA LightlyChain ==
    ASSUME NEW p, NEW q, NEW r, NEW D, Lightly(p, q, D), Lightly(q, r, D)
    PROVE  Lightly(p, r, D)
BY SparedChain DEF Lightly

LEMMA GentlyChain ==
    ASSUME NEW p, NEW q, NEW r, NEW D, Gently(p, q, D), Gently(q, r, D)
    PROVE  Gently(p, r, D)
<1>1. Lightly(p, r, D)
  BY LightlyChain DEF Gently
<1>2. Calm(p, r)
  BY DEF Gently, Lightly, Calm
<1> QED
  BY <1>1, <1>2 DEF Gently

LEMMA GentlyMore ==
    ASSUME NEW p, NEW q, NEW D, NEW E, Gently(p, q, D), D \subseteq E
    PROVE  Gently(p, q, E)
BY DEF Gently, Lightly

LEMMA GentlyAlong ==
    ASSUME NEW n \in Nat, NEW f \in [0 .. n -> PageState], NEW D,
           \A i \in 1 .. n : Gently(f[i - 1], f[i], D)
    PROVE  Gently(f[0], f[n], D)
<1> DEFINE U == {i \in 0 .. n : Gently(f[0], f[i], D)}
<1>1. 0 \in U
  <2>1. f[0] \in PageState
    OBVIOUS
  <2>2. Lightly(f[0], f[0], D)
    BY <2>1 DEF Lightly, Spared, Follows, SameScreen, SameOwner
  <2>3. Gently(f[0], f[0], D)
    BY <2>2 DEF Gently, Calm
  <2> QED
    BY <2>3
<1>2. ASSUME NEW i \in 1 .. n, i - 1 \in U PROVE i \in U
  <2>1. Gently(f[0], f[i - 1], D) /\ Gently(f[i - 1], f[i], D) /\ i \in 0 .. n
    BY <1>2
  <2>2. Gently(f[0], f[i], D)
    BY <2>1, GentlyChain
  <2> QED
    BY <2>1, <2>2
<1>3. U = 0 .. n
  <2>1. U \in SUBSET (0 .. n)
    OBVIOUS
  <2> HIDE DEF U
  <2> QED
    BY <1>1, <1>2, <2>1, Climbs
<1> QED
  BY <1>3

(* Nothing of a session has changed. *)
LEMMA SameSpared ==
    ASSUME NEW p, NEW q, NEW s, q.tabs = p.tabs, q.att = p.att, q.alive = p.alive,
           q.shown = p.shown, q.whole = p.whole, q.heal = p.heal, q.own = p.own,
           Attaching(s) \in ToSet(q.says) => Attaching(s) \in ToSet(p.says),
           ClosingOf(s) \in ToSet(q.says) => ClosingOf(s) \in ToSet(p.says)
    PROVE  Spared(p, q, s)
<1>1. Follows(p, q, s)
  BY DEF Follows, Tabs
<1>2. SameScreen(p, q, s)
  BY DEF SameScreen
<1>3. SameOwner(p, q, s)
  BY DEF SameOwner, Tabs
<1> QED
  BY <1>1, <1>2, <1>3 DEF Spared

(* What is out of sight. *)
LEMMA Untouched ==
    ASSUME NEW p \in PageState, NEW q \in PageState, q.tabs = p.tabs, q.att = p.att, q.alive = p.alive,
           q.shown = p.shown, q.whole = p.whole, q.heal = p.heal, q.own = p.own,
           q.made = {} => p.made = {}, q.says = p.says, q.creating = <<>> => p.creating = <<>>
    PROVE  Gently(p, q, {})
<1>2. Lightly(p, q, {})
  BY SameSpared DEF Lightly
<1>3. Calm(p, q)
  BY DEF Calm
<1> QED
  BY <1>2, <1>3 DEF Gently

LEMMA SayFields ==
    ASSUME NEW p \in PageState, NEW t \in Kinds, NEW s \in Id \cup {NoTab}
    PROVE  LET q == Say(p, t, s)
           IN  /\ q \in PageState /\ ToSet(q.says) = ToSet(p.says) \cup {[t |-> t, id |-> s]}
               /\ q.tabs = p.tabs /\ q.att = p.att /\ q.alive = p.alive /\ q.shown = p.shown
               /\ q.whole = p.whole /\ q.heal = p.heal /\ q.own = p.own /\ q.made = p.made
               /\ q.creating = p.creating /\ q.known = p.known /\ q.active = p.active /\ q.listing = p.listing
<1> DEFINE m == [t |-> t, id |-> s]
           says == Append(p.says, m)
           q == [p EXCEPT !.says = says]
<1>1. Say(p, t, s) = q /\ Say(p, t, s) \in PageState
  BY SayIs DEF Speaks
<1>2. m \in Said /\ p.says \in Seq(Said)
  BY SaidIs, PageFields
<1> HIDE DEF m
<1>3. ToSet(says) = ToSet(p.says) \cup {m}
  BY <1>2, AppendElements
<1> HIDE DEF says
<1>4. /\ q.says = says /\ q.tabs = p.tabs /\ q.att = p.att /\ q.alive = p.alive /\ q.shown = p.shown
      /\ q.whole = p.whole /\ q.heal = p.heal /\ q.own = p.own /\ q.made = p.made
      /\ q.creating = p.creating /\ q.known = p.known /\ q.active = p.active /\ q.listing = p.listing
  BY DEF PageState
<1> QED
  BY <1>1, <1>3, <1>4 DEF m

LEMMA SayGently ==
    ASSUME NEW p \in PageState, NEW t \in Kinds \ {"attach", "create", "close"}, NEW s \in Id \cup {NoTab}
    PROVE  Gently(p, Say(p, t, s), {})
<1> DEFINE q == Say(p, t, s)
<1>1. /\ q \in PageState /\ ToSet(q.says) = ToSet(p.says) \cup {[t |-> t, id |-> s]}
      /\ q.tabs = p.tabs /\ q.att = p.att /\ q.alive = p.alive /\ q.shown = p.shown
      /\ q.whole = p.whole /\ q.heal = p.heal /\ q.own = p.own /\ q.made = p.made
      /\ q.creating = p.creating
  BY SayFields
<1> HIDE DEF q
<1>3. \A x \in Id : /\ Attaching(x) \in ToSet(q.says) => Attaching(x) \in ToSet(p.says)
                    /\ ClosingOf(x) \in ToSet(q.says) => ClosingOf(x) \in ToSet(p.says)
  BY <1>1 DEF Attaching, ClosingOf
<1>4. Lightly(p, q, {})
  BY <1>1, <1>3, SameSpared DEF Lightly
<1>5. Calm(p, q)
  BY <1>1 DEF Calm
<1> QED
  BY <1>4, <1>5 DEF Gently, q

LEMMA ItselfGently ==
    ASSUME NEW p \in PageState, NEW D
    PROVE  Gently(p, p, D)
<1>1. Lightly(p, p, D)
  BY DEF Lightly, Spared, Follows, SameScreen, SameOwner
<1> QED
  BY <1>1 DEF Gently, Calm

LEMMA ClaimGently ==
    ASSUME NEW p \in PageState
    PROVE  Gently(p, ClaimActive(p), {})
<1>1. p.active \in Id \cup {NoTab} /\ "claim" \in Kinds \ {"attach", "create", "close"}
  BY PageFields DEF Kinds
<1> QED
  BY <1>1, ItselfGently, SayGently DEF ClaimActive

LEMMA ReleaseGently ==
    ASSUME NEW p \in PageState
    PROVE  Gently(p, ReleaseClaimed(p), {})
<1>1. p.claimed \in Id \cup {NoTab} /\ "release" \in Kinds \ {"attach", "create", "close"}
  BY PageFields DEF Kinds
<1> QED
  BY <1>1, ItselfGently, SayGently DEF ReleaseClaimed

LEMMA ActivateGently ==
    ASSUME NEW p \in PageState
    PROVE  Gently(p, TabActivated(p), {})
<1> DEFINE q == ReleaseClaimed(p)
           r == [q EXCEPT !.claimed = NoTab]
<1>1. Gently(p, q, {}) /\ q \in PageState
  BY ReleaseGently DEF Gently, Lightly
<1> HIDE DEF q
<1>2. /\ r \in PageState /\ r.tabs = q.tabs /\ r.att = q.att /\ r.alive = q.alive /\ r.shown = q.shown
      /\ r.whole = q.whole /\ r.heal = q.heal /\ r.own = q.own /\ r.made = q.made
      /\ r.says = q.says /\ r.creating = q.creating
  BY <1>1 DEF PageState
<1> HIDE DEF r
<1>3. Gently(q, r, {})
  BY <1>1, <1>2, Untouched
<1>4. Gently(r, ClaimActive(r), {})
  BY <1>2, ClaimGently
<1>5. TabActivated(p) = ClaimActive(r)
  BY DEF TabActivated, r, q
<1> QED
  BY <1>1, <1>3, <1>4, <1>5, GentlyChain

LEMMA FollowGently ==
    ASSUME NEW p \in PageState, NEW s \in Tabs(p)
    PROVE  Gently(p, Follow(p, s), {})
<1>1. s \in Id
  BY TabsAreIds
<1>2. CASE s \in p.att
  BY <1>2, ItselfGently DEF Follow
<1>3. CASE s \notin p.att
  <2> DEFINE q == [p EXCEPT !.att = p.att \cup {s}]
             r == Say(q, "attach", s)
  <2>1. /\ q \in PageState /\ q.tabs = p.tabs /\ q.att = p.att \cup {s} /\ q.alive = p.alive /\ q.shown = p.shown
        /\ q.whole = p.whole /\ q.heal = p.heal /\ q.own = p.own /\ q.made = p.made
        /\ q.says = p.says /\ q.creating = p.creating
    BY <1>1 DEF PageState
  <2>2. Follow(p, s) = r
    BY <1>3 DEF Follow
  <2> HIDE DEF q
  <2>3. "attach" \in Kinds /\ s \in Id \cup {NoTab}
    BY <1>1 DEF Kinds
  <2>4. /\ r \in PageState /\ ToSet(r.says) = ToSet(q.says) \cup {[t |-> "attach", id |-> s]}
        /\ r.tabs = q.tabs /\ r.att = q.att /\ r.alive = q.alive /\ r.shown = q.shown
        /\ r.whole = q.whole /\ r.heal = q.heal /\ r.own = q.own /\ r.made = q.made
        /\ r.creating = q.creating
    BY <2>1, <2>3, SayFields
  <2> HIDE DEF r
  <2>5. Tabs(r) = Tabs(p)
    BY <2>1, <2>4 DEF Tabs
  <2>6. \A x \in Id : /\ Attaching(x) \in ToSet(r.says) => Attaching(x) \in ToSet(p.says) \/ x = s
                      /\ ClosingOf(x) \in ToSet(r.says) => ClosingOf(x) \in ToSet(p.says)
    BY <2>1, <2>4 DEF Attaching, ClosingOf
  <2>7. Lightly(p, r, {})
    <3>1. ASSUME NEW x \in Id PROVE Follows(p, r, x)
      <4>1. s \in r.att /\ (x # s => (x \in r.att <=> x \in p.att)) /\ s \in Tabs(r)
        BY <2>1, <2>4, <2>5
      <4> QED
        BY <2>5, <2>6, <4>1 DEF Follows
    <3>2. \A x \in Id : SameScreen(p, r, x) /\ SameOwner(p, r, x)
      BY <2>1, <2>4, <2>5 DEF SameScreen, SameOwner
    <3> QED
      BY <2>1, <2>4, <3>1, <3>2 DEF Lightly, Spared
  <2>8. Calm(p, r)
    BY <2>1, <2>4 DEF Calm
  <2> QED
    BY <2>2, <2>7, <2>8 DEF Gently
<1> QED
  BY <1>2, <1>3

LEMMA SwitchGently ==
    ASSUME NEW p \in PageState, NEW s
    PROVE  Gently(p, SwitchTab(p, s), {})
<1>1. CASE s \notin Tabs(p)
  BY <1>1, ItselfGently DEF SwitchTab
<1>2. CASE s \in Tabs(p)
  <2> DEFINE q == [p EXCEPT !.active = s]
             r == IF s # p.active THEN TabActivated(q) ELSE q
             u == [r EXCEPT !.mods = NoTab]
  <2>1. s \in Id
    BY <1>2, TabsAreIds
  <2>2. /\ q \in PageState /\ q.tabs = p.tabs /\ q.att = p.att /\ q.alive = p.alive /\ q.shown = p.shown
        /\ q.whole = p.whole /\ q.heal = p.heal /\ q.own = p.own /\ q.made = p.made
        /\ q.says = p.says /\ q.creating = p.creating
    BY <2>1 DEF PageState
  <2>3. SwitchTab(p, s) = Follow(u, s)
    BY <1>2 DEF SwitchTab
  <2> HIDE DEF q
  <2>4. Gently(p, q, {})
    BY <2>2, Untouched
  <2>5. Gently(q, r, {}) /\ r \in PageState
    BY <2>2, ActivateGently, ItselfGently DEF Gently, Lightly
  <2> HIDE DEF r
  <2>6. /\ u \in PageState /\ u.tabs = r.tabs /\ u.att = r.att /\ u.alive = r.alive /\ u.shown = r.shown
        /\ u.whole = r.whole /\ u.heal = r.heal /\ u.own = r.own /\ u.made = r.made
        /\ u.says = r.says /\ u.creating = r.creating
    BY <2>5 DEF PageState
  <2> HIDE DEF u
  <2>7. Gently(r, u, {})
    BY <2>5, <2>6, Untouched
  <2>8. Gently(p, u, {})
    BY <2>4, <2>5, <2>7, GentlyChain
  <2>9. s \in Tabs(u)
    BY <1>2, <2>1, <2>8 DEF Gently, Lightly, Spared, Follows
  <2>10. Gently(u, Follow(u, s), {})
    BY <2>6, <2>9, FollowGently
  <2> QED
    BY <2>3, <2>8, <2>10, GentlyChain
<1> QED
  BY <1>1, <1>2

LEMMA CreateGently ==
    ASSUME NEW p \in PageState
    PROVE  Gently(p, CreateTab(p), {})
<1> DEFINE q == [p EXCEPT !.creating = Append(p.creating, p.known)]
           r == Say(q, "create", NoTab)
<1>0. p.creating \in Seq(SUBSET Id) /\ p.known \in SUBSET Id
  BY PageFields
<1>1. Append(p.creating, p.known) \in Seq(SUBSET Id) /\ Append(p.creating, p.known) # <<>>
  BY <1>0, AppendElements
<1>2. /\ q \in PageState /\ q.tabs = p.tabs /\ q.att = p.att /\ q.alive = p.alive /\ q.shown = p.shown
      /\ q.whole = p.whole /\ q.heal = p.heal /\ q.own = p.own /\ q.made = p.made
      /\ q.says = p.says /\ q.creating # <<>>
  BY <1>1 DEF PageState
<1>3. CreateTab(p) = r
  BY DEF CreateTab
<1> HIDE DEF q
<1>4. "create" \in Kinds /\ NoTab \in Id \cup {NoTab}
  BY DEF Kinds
<1>5. /\ r \in PageState /\ ToSet(r.says) = ToSet(q.says) \cup {[t |-> "create", id |-> NoTab]}
      /\ r.tabs = q.tabs /\ r.att = q.att /\ r.alive = q.alive /\ r.shown = q.shown
      /\ r.whole = q.whole /\ r.heal = q.heal /\ r.own = q.own /\ r.made = q.made
      /\ r.creating = q.creating
  BY <1>2, <1>4, SayFields
<1> HIDE DEF r
<1>7. \A x \in Id : /\ Attaching(x) \in ToSet(r.says) => Attaching(x) \in ToSet(p.says)
                    /\ ClosingOf(x) \in ToSet(r.says) => ClosingOf(x) \in ToSet(p.says)
  BY <1>2, <1>5 DEF Attaching, ClosingOf
<1>8. Lightly(p, r, {})
  BY <1>2, <1>5, <1>7, SameSpared DEF Lightly
<1>9. Calm(p, r)
  BY <1>2, <1>5 DEF Calm
<1> QED
  BY <1>3, <1>8, <1>9 DEF Gently

(* The tab s is gone, and with it what was on its screen. *)
LEMMA DisposedGently ==
    ASSUME NEW p \in PageState, NEW s \in Id
    PROVE  LET q == Disposed(p, s)
           IN  Gently(p, q, {s}) /\ q.shown[s] = 0 /\ q.whole[s]
<1> DEFINE ts == Chosen(p.tabs, Id \ {s})
           own == [p.own EXCEPT ![s] = FALSE]
           alive == [p.alive EXCEPT ![s] = FALSE]
           screens == [p.shown EXCEPT ![s] = 0]
           whole == [p.whole EXCEPT ![s] = TRUE]
           grid == [p.grid EXCEPT ![s] = "other"]
           q == Disposed(p, s)
<1>1. q \in PageState /\ q.says = p.says /\ Tabs(q) = Tabs(p) \ {s} /\ q.att = p.att /\ q.creating = p.creating
  BY DisposedIs
<1>2. q = [p EXCEPT !.tabs = ts, !.own = own, !.alive = alive, !.shown = screens, !.whole = whole, !.grid = grid]
  BY DEF Disposed, PageState
<1>3. /\ \A x \in Id \ {s} : own[x] = p.own[x] /\ alive[x] = p.alive[x] /\ screens[x] = p.shown[x] /\ whole[x] = p.whole[x]
      /\ screens[s] = 0 /\ whole[s]
  BY PageFields
<1> HIDE DEF ts, own, alive, screens, whole, grid, q
<1>4. q.own = own /\ q.alive = alive /\ q.shown = screens /\ q.whole = whole /\ q.heal = p.heal /\ q.made = p.made
  BY <1>2 DEF PageState
<1>5. ASSUME NEW x \in Id \ {s} PROVE Spared(p, q, x)
  <2>1. Follows(p, q, x)
    BY <1>1 DEF Follows
  <2>2. SameScreen(p, q, x)
    BY <1>3, <1>4 DEF SameScreen
  <2>3. SameOwner(p, q, x)
    BY <1>1, <1>3, <1>4 DEF SameOwner
  <2> QED
    BY <2>1, <2>2, <2>3 DEF Spared
<1>6. Lightly(p, q, {s})
  BY <1>1, <1>4, <1>5 DEF Lightly
<1>7. Calm(p, q)
  BY <1>1, <1>4 DEF Calm
<1> QED
  BY <1>3, <1>4, <1>6, <1>7 DEF Gently, q

LEMMA DisposeGently ==
    ASSUME NEW p \in PageState, NEW s \in Id
    PROVE  LET r == DisposeTab(p, s)
           IN  Gently(p, r, {s}) /\ (s \in Tabs(p) => r.shown[s] = 0 /\ r.whole[s])
<1> DEFINE q == Disposed(p, s)
           r == DisposeTab(p, s)
<1>1. CASE s \notin Tabs(p)
  <2>1. r = p
    BY <1>1 DEF DisposeTab
  <2> QED
    BY <1>1, <2>1, ItselfGently
<1>2. CASE s \in Tabs(p)
  <2>1. Gently(p, q, {s}) /\ q \in PageState /\ q.shown[s] = 0 /\ q.whole[s]
    BY DisposedGently DEF Gently, Lightly
  <2>2. r = IF p.active # s THEN q ELSE IF q.tabs # <<>> THEN SwitchTab(q, Last(q.tabs))
            ELSE CreateTab([q EXCEPT !.active = NoTab])
    BY <1>2 DEF DisposeTab
  <2> HIDE DEF q, r
  <2>3. Gently(q, r, {})
    <3>1. CASE p.active # s
      BY <2>1, <2>2, <3>1, ItselfGently
    <3>2. CASE p.active = s /\ q.tabs # <<>>
      BY <2>1, <2>2, <3>2, SwitchGently
    <3>3. CASE p.active = s /\ q.tabs = <<>>
      <4> DEFINE u == [q EXCEPT !.active = NoTab]
      <4>1. /\ u \in PageState /\ u.tabs = q.tabs /\ u.att = q.att /\ u.alive = q.alive /\ u.shown = q.shown
            /\ u.whole = q.whole /\ u.heal = q.heal /\ u.own = q.own /\ u.made = q.made
            /\ u.says = q.says /\ u.creating = q.creating
        BY <2>1 DEF PageState
      <4>2. r = CreateTab(u)
        BY <2>2, <3>3
      <4> HIDE DEF u
      <4>3. Gently(q, u, {})
        BY <2>1, <4>1, Untouched
      <4>4. Gently(u, r, {})
        BY <4>1, <4>2, CreateGently
      <4> QED
        BY <4>3, <4>4, GentlyChain
    <3> QED
      BY <3>1, <3>2, <3>3
  <2>4. Gently(p, r, {s})
    BY <2>1, <2>3, GentlyMore, GentlyChain
  <2>5. r.shown[s] = 0 /\ r.whole[s]
    BY <2>1, <2>3 DEF Gently, Lightly, Spared, SameScreen
  <2> QED
    BY <2>4, <2>5 DEF r
<1> QED
  BY <1>1, <1>2

(* What the page does with a tab it closes: it says so and forgets it.     *)
Dropped(p, q, s) ==
    /\ s \in Tabs(p) /\ s \notin Tabs(q) /\ s \notin q.att /\ ClosingOf(s) \in ToSet(q.says)
    /\ q.shown[s] = 0 /\ q.whole[s]

LEMMA CloseGently ==
    ASSUME NEW p \in PageState, NEW s \in Tabs(p)
    PROVE  Gently(p, CloseTab(p, s), {s}) /\ Dropped(p, CloseTab(p, s), s)
<1> DEFINE u == [p EXCEPT !.att = p.att \ {s}]
           q == Say(u, "close", s)
           r == DisposeTab(q, s)
<1>1. s \in Id
  BY TabsAreIds
<1>2. /\ u \in PageState /\ u.says = p.says /\ u.tabs = p.tabs /\ u.att = p.att \ {s} /\ u.alive = p.alive
      /\ u.shown = p.shown /\ u.whole = p.whole /\ u.heal = p.heal /\ u.own = p.own /\ u.made = p.made
      /\ u.creating = p.creating
  BY DEF PageState
<1>3. CloseTab(p, s) = r
  BY DEF CloseTab
<1> HIDE DEF u
<1>4. "close" \in Kinds /\ s \in Id \cup {NoTab}
  BY <1>1 DEF Kinds
<1>5. /\ q \in PageState /\ ToSet(q.says) = ToSet(u.says) \cup {[t |-> "close", id |-> s]}
      /\ q.tabs = u.tabs /\ q.att = u.att /\ q.alive = u.alive /\ q.shown = u.shown
      /\ q.whole = u.whole /\ q.heal = u.heal /\ q.own = u.own /\ q.made = u.made
      /\ q.creating = u.creating
  BY <1>2, <1>4, SayFields
<1> HIDE DEF q
<1>6. Tabs(q) = Tabs(p)
  BY <1>2, <1>5 DEF Tabs
<1>7. ASSUME NEW x \in Id \ {s} PROVE Spared(p, q, x)
  <2>1. /\ Attaching(x) \in ToSet(q.says) => Attaching(x) \in ToSet(p.says)
        /\ ClosingOf(x) \in ToSet(q.says) => ClosingOf(x) \in ToSet(p.says)
    BY <1>2, <1>5 DEF Attaching, ClosingOf
  <2>2. x \in q.att <=> x \in p.att
    BY <1>2, <1>5
  <2>3. Follows(p, q, x)
    BY <1>6, <2>1, <2>2 DEF Follows
  <2>4. SameScreen(p, q, x)
    BY <1>2, <1>5 DEF SameScreen
  <2>5. SameOwner(p, q, x)
    BY <1>2, <1>5, <1>6 DEF SameOwner
  <2> QED
    BY <2>3, <2>4, <2>5 DEF Spared
<1>8. Gently(p, q, {s})
  <2>1. Lightly(p, q, {s})
    BY <1>2, <1>5, <1>7 DEF Lightly
  <2>2. Calm(p, q)
    BY <1>2, <1>5 DEF Calm
  <2> QED
    BY <2>1, <2>2 DEF Gently
<1>9. Gently(q, r, {s}) /\ r.shown[s] = 0 /\ r.whole[s]
  BY <1>1, <1>5, <1>6, DisposeGently
<1>10. Drops(q, r, s)
  BY <1>5, <1>6, DisposeDrops
<1> HIDE DEF r
<1>11. Dropped(p, r, s)
  <2>1. ClosingOf(s) \in ToSet(r.says) /\ s \notin Tabs(r)
    BY <1>5, <1>10 DEF Drops, Speaks, ClosingOf
  <2>2. s \notin r.att
    BY <1>2, <1>5, <1>10, <2>1 DEF Drops
  <2> QED
    BY <1>9, <2>1, <2>2 DEF Dropped
<1> QED
  BY <1>3, <1>8, <1>9, <1>11, GentlyChain

LEMMA ApplyGently ==
    ASSUME NEW p \in PageState, NEW s \in Id
    PROVE  Gently(p, ApplyFollowGeometry(p, s), {})
<1> DEFINE grid == [p.grid EXCEPT ![s] = p.listed[s]]
           q == [p EXCEPT !.grid = grid]
<1>1. ApplyFollowGeometry(p, s) = IF p.own[s] THEN p ELSE q
  BY DEF ApplyFollowGeometry, PageState
<1>2. grid \in [Id -> Whose]
  BY PageFields
<1> HIDE DEF grid
<1>3. /\ q \in PageState /\ q.tabs = p.tabs /\ q.att = p.att /\ q.alive = p.alive /\ q.shown = p.shown
      /\ q.whole = p.whole /\ q.heal = p.heal /\ q.own = p.own /\ q.made = p.made
      /\ q.says = p.says /\ q.creating = p.creating
  BY <1>2 DEF PageState
<1> HIDE DEF q
<1>4. Gently(p, q, {})
  BY <1>3, Untouched
<1> QED
  BY <1>1, <1>4, ItselfGently

LEMMA AdoptGently ==
    ASSUME NEW p \in PageState, NEW s \in Id
    PROVE  Gently(p, AdoptTab(p, s), {})
<1>1. CASE s \in Tabs(p)
  BY <1>1, ItselfGently DEF AdoptTab
<1>2. CASE s \notin Tabs(p)
  <2> DEFINE tabs == Append(p.tabs, s)
             own == [p.own EXCEPT ![s] = s \in p.made]
             alive == [p.alive EXCEPT ![s] = TRUE]
             q == [p EXCEPT !.tabs = tabs, !.own = own, !.alive = alive]
  <2>1. NewTab(p, s) = q
    BY DEF NewTab, PageState
  <2>2. tabs \in Seq(Id) /\ ToSet(tabs) = Tabs(p) \cup {s}
    BY PageFields, AppendElements DEF Tabs
  <2>3. /\ own \in [Id -> BOOLEAN] /\ alive \in [Id -> BOOLEAN]
        /\ \A x \in Id \ {s} : own[x] = p.own[x] /\ alive[x] = p.alive[x]
        /\ alive[s] /\ own[s] = (s \in p.made)
    BY PageFields
  <2> HIDE DEF tabs, own, alive
  <2>4. q \in PageState
    BY <2>2, <2>3 DEF PageState
  <2>5. /\ q.tabs = tabs /\ q.says = p.says /\ q.att = p.att /\ q.creating = p.creating /\ q.made = p.made
        /\ q.shown = p.shown /\ q.whole = p.whole /\ q.heal = p.heal /\ q.own = own /\ q.alive = alive
    BY DEF PageState
  <2> HIDE DEF q
  <2>6. AdoptTab(p, s) = ApplyFollowGeometry(q, s)
    BY <1>2, <2>1 DEF AdoptTab
  <2>7. Tabs(q) = Tabs(p) \cup {s}
    BY <2>2, <2>5 DEF Tabs
  <2>8. ASSUME NEW x \in Id PROVE Spared(p, q, x)
    <3>1. Follows(p, q, x)
      BY <2>5, <2>7 DEF Follows
    <3>2. SameScreen(p, q, x)
      BY <2>5 DEF SameScreen
    <3>3. SameOwner(p, q, x)
      <4>1. CASE x # s
        BY <2>3, <2>5, <2>7, <4>1 DEF SameOwner
      <4>2. CASE x = s
        <5>1. q.alive[x] /\ (q.made = {} => ~q.own[x]) /\ x \notin Tabs(p) /\ q.own[x] \in BOOLEAN /\ p.own[x] \in BOOLEAN
          BY <1>2, <2>3, <2>5, <4>2, PageFields
        <5> QED
          BY <5>1 DEF SameOwner
      <4> QED
        BY <4>1, <4>2
    <3> QED
      BY <3>1, <3>2, <3>3 DEF Spared
  <2>9. Gently(p, q, {})
    BY <2>4, <2>5, <2>8 DEF Gently, Lightly, Calm
  <2>10. Gently(q, ApplyFollowGeometry(q, s), {})
    BY <2>4, ApplyGently
  <2> QED
    BY <2>6, <2>9, <2>10, GentlyChain
<1> QED
  BY <1>1, <1>2

(* Taking over the size of s, or handing it over, leaves the rest alone. *)
LEMMA OwnFields ==
    ASSUME NEW p \in PageState, NEW s \in Id, NEW owner \in BOOLEAN
    PROVE  LET r == SetGeometryOwner(p, s, owner)
           IN  /\ r \in PageState /\ r.tabs = p.tabs /\ r.att = p.att /\ r.alive = p.alive /\ r.shown = p.shown
               /\ r.whole = p.whole /\ r.heal = p.heal /\ r.made = p.made /\ r.creating = p.creating
               /\ r.own[s] = owner /\ \A x \in Id \ {s} : r.own[x] = p.own[x]
               /\ ToSet(p.says) \subseteq ToSet(r.says)
               /\ ToSet(r.says) \subseteq ToSet(p.says) \cup {[t |-> "resize", id |-> s]}
               /\ owner /\ p.alive[s] => [t |-> "resize", id |-> s] \in ToSet(r.says)
<1> DEFINE own == [p.own EXCEPT ![s] = owner]
           q == [p EXCEPT !.own = own]
           r == SetGeometryOwner(p, s, owner)
<1>1. r = IF owner /\ p.alive[s] THEN Say(q, "resize", s) ELSE q
  BY DEF SetGeometryOwner, PageState
<1>2. own \in [Id -> BOOLEAN] /\ own[s] = owner /\ \A t \in Id \ {s} : own[t] = p.own[t]
  BY PageFields
<1> HIDE DEF own, r
<1>3. /\ q \in PageState /\ q.tabs = p.tabs /\ q.att = p.att /\ q.alive = p.alive /\ q.shown = p.shown
      /\ q.whole = p.whole /\ q.heal = p.heal /\ q.made = p.made /\ q.creating = p.creating
      /\ q.own = own /\ q.says = p.says
  BY <1>2 DEF PageState
<1> HIDE DEF q
<1>4. "resize" \in Kinds /\ s \in Id \cup {NoTab}
  BY DEF Kinds
<1> DEFINE m == [t |-> "resize", id |-> s]
           u == Say(q, "resize", s)
<1>5. /\ u \in PageState /\ ToSet(u.says) = ToSet(q.says) \cup {m}
      /\ u.tabs = q.tabs /\ u.att = q.att /\ u.alive = q.alive /\ u.shown = q.shown
      /\ u.whole = q.whole /\ u.heal = q.heal /\ u.own = q.own /\ u.made = q.made /\ u.creating = q.creating
  BY <1>3, <1>4, SayFields
<1> HIDE DEF u, m
<1>6. r \in {q, u} /\ (owner /\ p.alive[s] => r = u)
  BY <1>1 DEF u
<1>7. /\ r \in PageState /\ r.tabs = p.tabs /\ r.att = p.att /\ r.alive = p.alive /\ r.shown = p.shown
      /\ r.whole = p.whole /\ r.heal = p.heal /\ r.made = p.made /\ r.creating = p.creating /\ r.own = own
  BY <1>3, <1>5, <1>6
<1>8. ToSet(p.says) \subseteq ToSet(r.says) /\ ToSet(r.says) \subseteq ToSet(p.says) \cup {m}
  BY <1>3, <1>5, <1>6
<1>9. owner /\ p.alive[s] => m \in ToSet(r.says)
  BY <1>5, <1>6
<1> QED
  BY <1>2, <1>7, <1>8, <1>9 DEF r, m

LEMMA OwnGently ==
    ASSUME NEW p \in PageState, NEW s \in Id, NEW owner \in BOOLEAN, p.made # {}
    PROVE  Gently(p, SetGeometryOwner(p, s, owner), {}) /\ SetGeometryOwner(p, s, owner).made # {}
<1> DEFINE r == SetGeometryOwner(p, s, owner)
           resize == [t |-> "resize", id |-> s]
<1>1. /\ r \in PageState /\ r.tabs = p.tabs /\ r.att = p.att /\ r.alive = p.alive /\ r.shown = p.shown
      /\ r.whole = p.whole /\ r.heal = p.heal /\ r.made = p.made /\ r.creating = p.creating
      /\ r.own[s] = owner /\ \A x \in Id \ {s} : r.own[x] = p.own[x]
      /\ ToSet(p.says) \subseteq ToSet(r.says)
      /\ ToSet(r.says) \subseteq ToSet(p.says) \cup {resize}
      /\ owner /\ p.alive[s] => resize \in ToSet(r.says)
  BY OwnFields
<1> HIDE DEF r, resize
<1>2. ASSUME NEW x \in Id PROVE Spared(p, r, x)
  <2>1. /\ Attaching(x) \in ToSet(r.says) => Attaching(x) \in ToSet(p.says)
        /\ ClosingOf(x) \in ToSet(r.says) => ClosingOf(x) \in ToSet(p.says)
    BY <1>1 DEF Attaching, ClosingOf, resize
  <2>2. Tabs(r) = Tabs(p)
    BY <1>1 DEF Tabs
  <2>3. Follows(p, r, x)
    BY <1>1, <2>1, <2>2 DEF Follows
  <2>4. SameScreen(p, r, x)
    BY <1>1 DEF SameScreen
  <2>5. SameOwner(p, r, x)
    BY <1>1, <2>2 DEF SameOwner
  <2> QED
    BY <2>3, <2>4, <2>5 DEF Spared
<1>3. Gently(p, r, {})
  BY <1>1, <1>2 DEF Gently, Lightly, Calm
<1> QED
  BY <1>1, <1>3 DEF r

LEMMA CreatedGently ==
    ASSUME NEW p \in PageState, NEW s \in Id
    PROVE  Gently(p, CreatedTab(p, s), {}) /\ CreatedTab(p, s).made # {}
<1> DEFINE q == SwitchTab(p, s)
           u == [q EXCEPT !.made = q.made \cup {s}]
<1>1. Gently(p, q, {}) /\ q \in PageState
  BY SwitchGently DEF Gently, Lightly
<1>2. CreatedTab(p, s) = SetGeometryOwner(u, s, TRUE)
  BY DEF CreatedTab
<1> HIDE DEF q
<1>3. /\ u \in PageState /\ u.tabs = q.tabs /\ u.att = q.att /\ u.alive = q.alive /\ u.shown = q.shown
      /\ u.whole = q.whole /\ u.heal = q.heal /\ u.own = q.own /\ u.made # {}
      /\ u.says = q.says /\ u.creating = q.creating
  <2>1. q.made \cup {s} \in SUBSET Id /\ q.made \cup {s} # {}
    BY <1>1, PageFields
  <2> QED
    BY <1>1, <2>1 DEF PageState
<1> HIDE DEF u
<1>4. Gently(q, u, {})
  BY <1>1, <1>3, Untouched
<1>5. Gently(u, CreatedTab(p, s), {}) /\ CreatedTab(p, s).made # {}
  <2>1. u \in PageState /\ u.made # {} /\ TRUE \in BOOLEAN
    BY <1>3
  <2> QED
    BY <1>2, <2>1, OwnGently
<1> QED
  BY <1>1, <1>4, <1>5, GentlyChain

LEMMA ResolveGently ==
    ASSUME NEW p \in PageState, NEW base \in SUBSET Id, NEW tabs \in Seq(Id)
    PROVE  LET r == Resolve(p, tabs, base)
           IN  Gently(p, r, {}) /\ (r.made = {} => Fresh(tabs, base) = <<>>)
<1>1. CASE Fresh(tabs, base) = <<>>
  BY <1>1, ItselfGently DEF Resolve
<1>2. CASE Fresh(tabs, base) # <<>>
  <2> DEFINE s == Head(Fresh(tabs, base))
  <2>1. s \in Id
    BY <1>2, FreshIs, ElementsIn
  <2>2. Resolve(p, tabs, base) = CreatedTab(p, s)
    BY <1>2 DEF Resolve
  <2> HIDE DEF s
  <2> QED
    BY <2>1, <2>2, CreatedGently
<1> QED
  BY <1>1, <1>2

LEMMA DisposedAllGently ==
    ASSUME NEW p \in PageState, NEW q \in Seq(Id)
    PROVE  Gently(p, FoldLeft(DisposeTab, p, q), ToSet(q))
<1>1. PICK f \in [0 .. Len(q) -> PageState] :
          /\ f[0] = p /\ f[Len(q)] = FoldLeft(DisposeTab, p, q)
          /\ \A i \in 1 .. Len(q) : f[i] = DisposeTab(f[i - 1], q[i])
  BY DisposeGoes
<1>2. Len(q) \in Nat /\ \A i \in 1 .. Len(q) : i - 1 \in 0 .. Len(q)
  OBVIOUS
<1>3. ASSUME NEW i \in 1 .. Len(q) PROVE Gently(f[i - 1], f[i], ToSet(q))
  <2>1. f[i - 1] \in PageState /\ q[i] \in Id /\ q[i] \in ToSet(q)
    BY <1>2, SeqIsFunction, ElementAt
  <2>2. Gently(f[i - 1], f[i], {q[i]})
    BY <1>1, <2>1, DisposeGently
  <2> QED
    BY <2>1, <2>2, GentlyMore
<1>4. Gently(f[0], f[Len(q)], ToSet(q))
  BY <1>2, <1>3, GentlyAlong
<1> QED
  BY <1>1, <1>4

LEMMA AdoptedAllGently ==
    ASSUME NEW p \in PageState, NEW q \in Seq(Id)
    PROVE  Gently(p, FoldLeft(AdoptTab, p, q), {})
<1>1. PICK f \in [0 .. Len(q) -> PageState] :
          /\ f[0] = p /\ f[Len(q)] = FoldLeft(AdoptTab, p, q)
          /\ \A i \in 1 .. Len(q) : f[i] = AdoptTab(f[i - 1], q[i])
  BY AdoptGoes
<1>2. Len(q) \in Nat /\ \A i \in 1 .. Len(q) : i - 1 \in 0 .. Len(q)
  OBVIOUS
<1>3. ASSUME NEW i \in 1 .. Len(q) PROVE Gently(f[i - 1], f[i], {})
  <2>1. f[i - 1] \in PageState /\ q[i] \in Id
    BY <1>2, SeqIsFunction
  <2> QED
    BY <1>1, <2>1, AdoptGently
<1>4. Gently(f[0], f[Len(q)], {})
  BY <1>2, <1>3, GentlyAlong
<1> QED
  BY <1>1, <1>4

LEMMA FixedAllGently ==
    ASSUME NEW p \in PageState, NEW q \in Seq(Id)
    PROVE  Gently(p, FoldLeft(ApplyFollowGeometry, p, q), {})
<1>1. PICK f \in [0 .. Len(q) -> PageState] :
          /\ f[0] = p /\ f[Len(q)] = FoldLeft(ApplyFollowGeometry, p, q)
          /\ \A i \in 1 .. Len(q) : f[i] = ApplyFollowGeometry(f[i - 1], q[i])
  BY ApplyGoes
<1>2. Len(q) \in Nat /\ \A i \in 1 .. Len(q) : i - 1 \in 0 .. Len(q)
  OBVIOUS
<1>3. ASSUME NEW i \in 1 .. Len(q) PROVE Gently(f[i - 1], f[i], {})
  <2>1. f[i - 1] \in PageState /\ q[i] \in Id
    BY <1>2, SeqIsFunction
  <2> QED
    BY <1>1, <2>1, ApplyGently
<1>4. Gently(f[0], f[Len(q)], {})
  BY <1>2, <1>3, GentlyAlong
<1> QED
  BY <1>1, <1>4

(* No promise is settled unless the page makes the session. *)
LEMMA SettledAllGently ==
    ASSUME NEW p \in PageState, NEW tabs \in Seq(Id), NEW q \in Seq(SUBSET Id)
    PROVE  LET r == FoldLeft(LAMBDA u, base : Resolve(u, tabs, base), p, q)
           IN  Gently(p, r, {}) /\ (r.made = {} => \A base \in ToSet(q) : Fresh(tabs, base) = <<>>)
<1> DEFINE n == Len(q)
           r == FoldLeft(LAMBDA u, base : Resolve(u, tabs, base), p, q)
           Phi(u, i) == Gently(p, u, {}) /\ (u.made = {} => \A base \in First(q, i) : Fresh(tabs, base) = <<>>)
<1>1. n \in Nat /\ \A i \in 1 .. n : i - 1 \in 0 .. n /\ i \in 0 .. n
  OBVIOUS
<1>2. PICK f \in [0 .. n -> PageState] : /\ f[0] = p /\ f[n] = r
                                         /\ \A i \in 1 .. n : f[i] = Resolve(f[i - 1], tabs, q[i])
  BY SettleGoes
<1> HIDE DEF r
<1> DEFINE U == {i \in 0 .. n : Phi(f[i], i)}
<1>3. 0 \in U
  <2>1. Phi(p, 0)
    BY FirstGrows, ItselfGently
  <2> HIDE DEF Phi
  <2> QED
    BY <1>1, <1>2, <2>1
<1>4. ASSUME NEW i \in 1 .. n, i - 1 \in U PROVE i \in U
  <2> DEFINE a == f[i - 1]
             b == f[i]
             base == q[i]
  <2>1. a \in PageState /\ base \in SUBSET Id /\ b = Resolve(a, tabs, base) /\ Phi(a, i - 1)
    BY <1>1, <1>2, <1>4, SeqIsFunction
  <2>2. First(q, i) = First(q, i - 1) \cup {base}
    BY FirstGrows
  <2> HIDE DEF a, b, base
  <2>3. Gently(a, b, {}) /\ (b.made = {} => Fresh(tabs, base) = <<>>)
    BY <2>1, ResolveGently
  <2>4. Gently(p, b, {})
    BY <2>1, <2>3, GentlyChain
  <2>5. b.made = {} => a.made = {}
    BY <2>3 DEF Gently, Lightly
  <2>6. Phi(b, i)
    BY <2>1, <2>2, <2>3, <2>4, <2>5
  <2> HIDE DEF Phi
  <2> QED
    BY <1>1, <2>6 DEF b
<1>5. U = 0 .. n
  <2>1. U \in SUBSET (0 .. n)
    OBVIOUS
  <2> HIDE DEF U
  <2> QED
    BY <1>1, <1>3, <1>4, <2>1, Climbs
<1>6. n \in 0 .. n
  BY <1>1
<1>7. Phi(f[n], n)
  <2> HIDE DEF Phi
  <2> QED
    BY <1>5, <1>6
<1>8. First(q, n) = ToSet(q)
  BY FirstGrows
<1> QED
  BY <1>2, <1>7, <1>8 DEF r

LEMMA ReconcileGently ==
    ASSUME NEW p \in PageState, NEW tabs \in Seq(Id)
    PROVE  Gently(p, ReconcileTabs(p, tabs), Tabs(p) \ ToSet(tabs))
<1> DEFINE T == ToSet(tabs)
           ms == Missing(p, tabs)
           q == FoldLeft(DisposeTab, p, ms)
           u == FoldLeft(AdoptTab, q, tabs)
           r == FoldLeft(ApplyFollowGeometry, u, tabs)
<1>1. p.tabs \in Seq(Id) /\ Tabs(p) \in SUBSET Id
  BY PageFields, TabsAreIds
<1>2. ms \in Seq(Id) /\ ToSet(ms) = Tabs(p) \ T
  <2>1. ms \in Seq(Id) /\ ToSet(ms) = ToSet(p.tabs) \cap (Id \ T)
    BY <1>1, ChosenElements DEF Missing
  <2> QED
    BY <1>1, <2>1 DEF Tabs
<1>3. ReconcileTabs(p, tabs) = r
  BY DEF ReconcileTabs
<1> HIDE DEF ms, T
<1>4. Gently(p, q, Tabs(p) \ T) /\ q \in PageState
  BY <1>2, DisposedAllGently DEF Gently, Lightly
<1> HIDE DEF q
<1>5. Gently(q, u, {}) /\ u \in PageState
  BY <1>4, AdoptedAllGently DEF Gently, Lightly
<1> HIDE DEF u
<1>6. Gently(u, r, {})
  BY <1>5, FixedAllGently
<1> HIDE DEF r
<1>7. Gently(q, u, Tabs(p) \ T) /\ Gently(u, r, Tabs(p) \ T)
  BY <1>5, <1>6, GentlyMore
<1>8. Gently(p, r, Tabs(p) \ T)
  BY <1>4, <1>7, GentlyChain
<1> QED
  BY <1>3, <1>8 DEF T

LEMMA ListedGently ==
    ASSUME NEW p \in PageState, NEW tabs \in Seq(Id)
    PROVE  Gently(p, Listed(p, tabs), {})
<1> DEFINE q == [p EXCEPT !.listing = FALSE]
           r == Listed(p, tabs)
<1>1. r = IF ~p.listing THEN p ELSE IF tabs = <<>> THEN CreateTab(q) ELSE SwitchTab(q, Last(tabs))
  BY DEF Listed
<1>2. /\ q \in PageState /\ q.tabs = p.tabs /\ q.att = p.att /\ q.alive = p.alive /\ q.shown = p.shown
      /\ q.whole = p.whole /\ q.heal = p.heal /\ q.own = p.own /\ q.made = p.made
      /\ q.says = p.says /\ q.creating = p.creating
  BY DEF PageState
<1> HIDE DEF q, r
<1>3. Gently(p, q, {})
  BY <1>2, Untouched
<1>4. Gently(q, CreateTab(q), {}) /\ Gently(q, SwitchTab(q, Last(tabs)), {})
  BY <1>2, CreateGently, SwitchGently
<1>5. Gently(p, r, {})
  BY <1>1, <1>3, <1>4, ItselfGently, GentlyChain
<1> QED
  BY <1>5 DEF r

(* A list drops and forgets no session it names. *)
LEMMA TabListGently ==
    ASSUME NEW p, NEW tabs \in Seq(Id), NEW grids \in [Id -> Whose], NEW L, NEW A, NEW B,
           Good(p, L, A, B), ToSet(tabs) \subseteq B
    PROVE  Gently(p, OnTabList(p, tabs, grids), (Tabs(p) \cup p.att) \ ToSet(tabs))
<1> DEFINE T == ToSet(tabs)
           seen == p.known \cup T
           att == p.att \cap T
           q == [p EXCEPT !.known = seen, !.att = att, !.listed = grids]
           u == ReconcileTabs(q, tabs)
           v == Listed(u, tabs)
           keep == {base \in SUBSET Id : Fresh(tabs, base) = <<>>}
           left == Chosen(v.creating, keep)
           w == [v EXCEPT !.creating = left]
           r == FoldLeft(LAMBDA x, base : Resolve(x, tabs, base), w, p.creating)
           D == (Tabs(p) \cup p.att) \ T
<1>1. p \in PageState /\ p.creating \in Seq(SUBSET Id) /\ p.known \in SUBSET Id /\ p.att \in SUBSET Id /\ T \in SUBSET Id
  BY PageFields, ElementsIn DEF Fit, Good
<1>2. OnTabList(p, tabs, grids) = r
  BY DEF OnTabList, SettleCreates
<1>3. /\ q \in PageState /\ q.says = p.says /\ q.tabs = p.tabs /\ q.active = p.active /\ q.att = att
      /\ q.mods = p.mods /\ q.creating = p.creating /\ q.known = seen /\ q.late = p.late
      /\ q.listing = p.listing /\ q.alive = p.alive /\ q.shown = p.shown /\ q.whole = p.whole
      /\ q.heal = p.heal /\ q.own = p.own /\ q.made = p.made
  BY <1>1 DEF PageState
<1> HIDE DEF q, seen
<1>4. Tabs(q) = Tabs(p)
  BY <1>3 DEF Tabs
<1>5. Gently(p, q, D)
  <2>1. ASSUME NEW s \in Id \ D PROVE Spared(p, q, s)
    <3>1. Follows(p, q, s)
      BY <1>3, <1>4, <2>1 DEF Follows
    <3>2. SameScreen(p, q, s) /\ SameOwner(p, q, s)
      BY <1>3, <1>4 DEF SameScreen, SameOwner
    <3> QED
      BY <3>1, <3>2 DEF Spared
  <2> HIDE DEF D
  <2> QED
    BY <1>3, <2>1 DEF Gently, Lightly, Calm
<1>6. Fit(q, L \cap T, A, B) /\ Busy(q)
  BY <1>1, <1>3, <1>4 DEF Good, Fit, Busy, att
<1>7. Good(u, L, A, B) /\ Kept(q, u) /\ Grown(q, u) /\ Tabs(u) = T
  BY <1>6, ReconcileIs
<1>8. Gently(q, u, D)
  <2>1. Gently(q, u, Tabs(p) \ T)
    BY <1>3, <1>4, ReconcileGently
  <2> HIDE DEF u
  <2> QED
    BY <2>1, GentlyMore
<1> HIDE DEF u, att
<1>9. Good(v, L, A, B) /\ Grown(u, v) /\ u \in PageState
  BY <1>7, ListedIs DEF Good, Fit
<1>10. Gently(u, v, D)
  <2>1. Gently(u, v, {})
    BY <1>9, ListedGently
  <2> HIDE DEF v
  <2> QED
    BY <2>1, GentlyMore
<1> HIDE DEF v
<1>11. v \in PageState /\ v.creating \in Seq(SUBSET Id)
  BY <1>9, PageFields DEF Good, Fit
<1>12. left \in Seq(SUBSET Id) /\ ToSet(left) = ToSet(v.creating) \cap keep
  BY <1>11, ChosenElements
<1> HIDE DEF left, keep
<1>13. /\ w \in PageState /\ w.tabs = v.tabs /\ w.att = v.att /\ w.alive = v.alive /\ w.shown = v.shown
       /\ w.whole = v.whole /\ w.heal = v.heal /\ w.own = v.own /\ w.made = v.made
       /\ w.says = v.says /\ w.creating = left
  BY <1>11, <1>12 DEF PageState
<1> HIDE DEF w
<1>14. Gently(w, r, {}) /\ (r.made = {} => \A base \in ToSet(p.creating) : Fresh(tabs, base) = <<>>)
  BY <1>1, <1>13, SettledAllGently
<1> HIDE DEF r, D
<1>15. Gently(w, r, D)
  BY <1>14, GentlyMore
<1>16. Gently(p, v, D)
  BY <1>5, <1>8, <1>10, GentlyChain
<1>17. Lightly(v, w, D)
  BY <1>13, SameSpared DEF Lightly
<1>18. Lightly(p, r, D)
  BY <1>15, <1>16, <1>17, LightlyChain DEF Gently
<1>19. ASSUME r.made = {}, r.creating = <<>> PROVE v.creating = <<>>
  <2>1. left = <<>>
    BY <1>13, <1>14, <1>19 DEF Gently, Calm
  <2>2. ToSet(v.creating) \subseteq ToSet(p.creating) \cup {seen}
    BY <1>3, <1>7, <1>9 DEF Grown, Kept
  <2>3. Fresh(tabs, seen) = <<>>
    BY FreshIs DEF seen
  <2>4. ToSet(v.creating) \subseteq keep
    <3>1. ToSet(v.creating) \subseteq SUBSET Id
      BY <1>11, ElementsIn
    <3> QED
      BY <1>14, <1>19, <2>2, <2>3, <3>1 DEF keep
  <2>5. ToSet(v.creating) = {}
    BY <1>12, <2>1, <2>4, NoElements
  <2> QED
    BY <1>11, <2>5, SomeElement
<1>20. Calm(p, r)
  BY <1>13, <1>14, <1>15, <1>16, <1>17, <1>19 DEF Gently, Lightly, Calm
<1> QED
  BY <1>2, <1>18, <1>20 DEF Gently, D

LEMMA ExitGently ==
    ASSUME NEW p \in PageState, NEW s \in Id
    PROVE  Gently(p, OnExit(p, s), {s})
<1> DEFINE att == p.att \ {s}
           alive == [p.alive EXCEPT ![s] = FALSE]
           q == [p EXCEPT !.att = att]
           u == [q EXCEPT !.alive = alive]
           r == OnExit(p, s)
<1>1. att \in SUBSET Id /\ alive \in [Id -> BOOLEAN]
  BY PageFields
<1>2. r = IF s \notin Tabs(p) THEN q ELSE IF Len(p.tabs) > 1 THEN CloseTab(u, s) ELSE u
  BY DEF OnExit, PageState
<1> HIDE DEF r
<1>3. \A x \in Id \ {s} : alive[x] = p.alive[x]
  BY PageFields
<1> HIDE DEF alive
<1>4. /\ q \in PageState /\ q.says = p.says /\ q.tabs = p.tabs /\ q.att = att /\ q.creating = p.creating
      /\ q.alive = p.alive /\ q.shown = p.shown /\ q.whole = p.whole /\ q.heal = p.heal /\ q.own = p.own
      /\ q.made = p.made
  BY <1>1 DEF PageState
<1> HIDE DEF q
<1>5. /\ u \in PageState /\ u.says = q.says /\ u.tabs = q.tabs /\ u.att = q.att /\ u.creating = q.creating
      /\ u.alive = alive /\ u.shown = q.shown /\ u.whole = q.whole /\ u.heal = q.heal /\ u.own = q.own
      /\ u.made = q.made
  BY <1>1, <1>4 DEF PageState
<1> HIDE DEF u
<1>6. Tabs(q) = Tabs(p) /\ Tabs(u) = Tabs(p)
  BY <1>4, <1>5 DEF Tabs
<1>7. ASSUME NEW x \in Id \ {s} PROVE Spared(p, q, x) /\ Spared(p, u, x)
  <2>1. Follows(p, q, x) /\ Follows(p, u, x)
    BY <1>4, <1>5, <1>6, <1>7 DEF Follows
  <2>2. SameScreen(p, q, x) /\ SameScreen(p, u, x)
    BY <1>4, <1>5 DEF SameScreen
  <2>3. SameOwner(p, q, x) /\ SameOwner(p, u, x)
    BY <1>3, <1>4, <1>5, <1>6 DEF SameOwner
  <2> QED
    BY <2>1, <2>2, <2>3 DEF Spared
<1>8. Gently(p, q, {s}) /\ Gently(p, u, {s})
  BY <1>4, <1>5, <1>7 DEF Gently, Lightly, Calm
<1>9. CASE s \in Tabs(p) /\ r = CloseTab(u, s)
  <2>1. Gently(u, r, {s})
    BY <1>5, <1>6, <1>9, CloseGently
  <2> QED
    BY <1>8, <2>1, GentlyChain DEF r
<1> QED
  BY <1>2, <1>8, <1>9 DEF r

(* Told who sizes s, the page believes it, and sends its size when it is    *)
(* new to it.                                                               *)
LEMMA GeoGently ==
    ASSUME NEW p \in PageState, NEW s \in Id, NEW owner \in Owner
    PROVE  LET r == OnGeoOwnership(p, s, owner)
           IN  /\ Gently(p, r, {s}) /\ Follows(p, r, s) /\ SameScreen(p, r, s)
               /\ s \in Tabs(p) => /\ r.own[s] = (owner = "me") /\ r.alive[s] = p.alive[s] /\ s \in Tabs(r)
                                   /\ owner = "me" /\ ~p.own[s] /\ p.alive[s]
                                          => [t |-> "resize", id |-> s] \in ToSet(r.says)
<1> DEFINE mine == owner = "me"
           u == SetGeometryOwner(p, s, mine)
           v == ApplyFollowGeometry(u, s)
           q == IF s \in Tabs(p) /\ mine # p.own[s] THEN v ELSE p
           claimed == IF owner = "me" THEN s ELSE IF q.claimed = s THEN NoTab ELSE q.claimed
           r == [q EXCEPT !.claimed = claimed]
           resize == [t |-> "resize", id |-> s]
<1>1. mine \in BOOLEAN
  OBVIOUS
<1>2. OnGeoOwnership(p, s, owner) = r
  BY DEF OnGeoOwnership
<1>3. mine <=> owner = "me"
  OBVIOUS
<1> HIDE DEF mine
<1>4. /\ u \in PageState /\ u.tabs = p.tabs /\ u.att = p.att /\ u.alive = p.alive /\ u.shown = p.shown
      /\ u.whole = p.whole /\ u.heal = p.heal /\ u.made = p.made /\ u.creating = p.creating
      /\ u.own[s] = mine /\ \A x \in Id \ {s} : u.own[x] = p.own[x]
      /\ ToSet(p.says) \subseteq ToSet(u.says)
      /\ ToSet(u.says) \subseteq ToSet(p.says) \cup {resize}
      /\ mine /\ p.alive[s] => resize \in ToSet(u.says)
  BY <1>1, OwnFields
<1> HIDE DEF u
<1>5. v = u \/ \E g \in [Id -> Whose] : v = [u EXCEPT !.grid = g]
  <2>1. v = IF u.own[s] THEN u ELSE [u EXCEPT !.grid = [u.grid EXCEPT ![s] = u.listed[s]]]
    BY <1>4 DEF ApplyFollowGeometry, PageState
  <2>2. [u.grid EXCEPT ![s] = u.listed[s]] \in [Id -> Whose]
    BY <1>4, PageFields
  <2> QED
    BY <2>1, <2>2
<1> HIDE DEF v
<1>6. /\ v \in PageState /\ v.tabs = u.tabs /\ v.att = u.att /\ v.alive = u.alive /\ v.shown = u.shown
      /\ v.whole = u.whole /\ v.heal = u.heal /\ v.made = u.made /\ v.creating = u.creating
      /\ v.own = u.own /\ v.says = u.says
  <2>1. u \in PageState
    BY <1>4
  <2>2. CASE v = u
    BY <2>1, <2>2
  <2>3. ASSUME NEW g \in [Id -> Whose], v = [u EXCEPT !.grid = g]
        PROVE  /\ v \in PageState /\ v.tabs = u.tabs /\ v.att = u.att /\ v.alive = u.alive /\ v.shown = u.shown
               /\ v.whole = u.whole /\ v.heal = u.heal /\ v.made = u.made /\ v.creating = u.creating
               /\ v.own = u.own /\ v.says = u.says
    BY <2>1, <2>3 DEF PageState
  <2> QED
    BY <1>5, <2>2, <2>3
<1>7. /\ q \in PageState /\ q.tabs = p.tabs /\ q.att = p.att /\ q.alive = p.alive /\ q.shown = p.shown
      /\ q.whole = p.whole /\ q.heal = p.heal /\ q.made = p.made /\ q.creating = p.creating
      /\ \A x \in Id \ {s} : q.own[x] = p.own[x]
      /\ ToSet(q.says) \subseteq ToSet(p.says) \cup {resize}
  BY <1>4, <1>6
<1>8. s \in Tabs(p) => q.own[s] = mine /\ (mine /\ ~p.own[s] /\ p.alive[s] => resize \in ToSet(q.says))
  <2>1. p.own[s] \in BOOLEAN
    BY PageFields
  <2> HIDE DEF resize
  <2> QED
    BY <1>1, <1>4, <1>6, <2>1
<1> HIDE DEF q
<1>9. claimed \in Id \cup {NoTab}
  BY <1>7, PageFields
<1> HIDE DEF claimed
<1>10. /\ r \in PageState /\ r.tabs = q.tabs /\ r.att = q.att /\ r.alive = q.alive /\ r.shown = q.shown
       /\ r.whole = q.whole /\ r.heal = q.heal /\ r.made = q.made /\ r.creating = q.creating
       /\ r.own = q.own /\ r.says = q.says
  BY <1>7, <1>9 DEF PageState
<1> HIDE DEF r
<1>11. Tabs(r) = Tabs(p)
  BY <1>7, <1>10 DEF Tabs
<1>12. ASSUME NEW x \in Id PROVE Follows(p, r, x) /\ SameScreen(p, r, x)
  <2>1. /\ Attaching(x) \in ToSet(r.says) => Attaching(x) \in ToSet(p.says)
        /\ ClosingOf(x) \in ToSet(r.says) => ClosingOf(x) \in ToSet(p.says)
    BY <1>7, <1>10 DEF Attaching, ClosingOf
  <2> QED
    BY <1>7, <1>10, <1>11, <2>1 DEF Follows, SameScreen
<1>13. \A x \in Id \ {s} : SameOwner(p, r, x)
  BY <1>7, <1>10, <1>11 DEF SameOwner
<1>14. Calm(p, r)
  BY <1>7, <1>10 DEF Calm
<1>15. Gently(p, r, {s})
  BY <1>7, <1>10, <1>12, <1>13, <1>14 DEF Gently, Lightly, Spared
<1> QED
  BY <1>2, <1>3, <1>7, <1>8, <1>10, <1>11, <1>12, <1>15

(* How much of s the page shows, whether that is all there was, and whether *)
(* it is about to be replaced.                                              *)
Looks(p, s) ==
    IF p.whole[s] THEN IF s \in p.heal THEN "both" ELSE "whole"
    ELSE IF s \in p.heal THEN "marked" ELSE "torn"

View(p, s) == <<p.shown[s], Looks(p, s)>>

Views == (0 .. MaxOut) \X {"whole", "both", "marked"}

(* The message m turns the view a of s into b, which misses nothing that is *)
(* not about to be replaced.                                                *)
Sight(s, a, m, b) ==
    IF m.t = "attached" /\ m.id = s
    THEN b = IF m.n = 0 \/ (a[1] # 0 /\ a[2] = "whole") THEN a
             ELSE <<m.n, IF a[1] = 0 THEN a[2] ELSE "whole">>
    ELSE IF m.t = "data" /\ m.id = s
    THEN /\ a[2] = "whole" => m.n = a[1] + 1
         /\ b = <<m.n, IF m.n = a[1] + 1 THEN a[2] ELSE "marked">>
    ELSE b = a

(* What a message about the screen of s alone does not touch. *)
ScreenOnly(p, r, s) ==
    Gently(p, r, {s}) /\ Follows(p, r, s) /\ SameOwner(p, r, s) /\ r.own = p.own /\ Tabs(r) = Tabs(p)

LEMMA OnlyScreen ==
    ASSUME NEW p \in PageState, NEW r \in PageState, NEW s \in Id, r.tabs = p.tabs, r.att = p.att,
           r.alive = p.alive, r.own = p.own, r.made = p.made, r.creating = p.creating, r.says = p.says,
           \A x \in Id \ {s} : r.shown[x] = p.shown[x] /\ r.whole[x] = p.whole[x] /\ (x \in r.heal <=> x \in p.heal)
    PROVE  ScreenOnly(p, r, s)
<1>1. Tabs(r) = Tabs(p)
  BY DEF Tabs
<1>2. \A x : Follows(p, r, x) /\ SameOwner(p, r, x)
  BY <1>1 DEF Follows, SameOwner
<1>3. \A x \in Id \ {s} : SameScreen(p, r, x)
  BY DEF SameScreen
<1>4. Gently(p, r, {s})
  BY <1>2, <1>3 DEF Gently, Lightly, Calm, Spared
<1> QED
  BY <1>1, <1>2, <1>4 DEF ScreenOnly

(* The page has put m, a piece of what s says, on the screen of s.          *)
Shown(p, r, s, m) ==
    /\ r.shown[s] \in {p.shown[s], m.n}
    /\ (m.t = "data" => m.n # 0) /\ (p.shown[s] = 0 => p.whole[s]) => (r.shown[s] = 0 => r.whole[s])
    /\ s \notin Tabs(p) => r.shown[s] = p.shown[s]
    /\ s \in Tabs(p) /\ View(p, s) \in Views => \A c : Sight(s, View(p, s), m, c) => View(r, s) = c

LEMMA AttachedView ==
    ASSUME NEW p \in PageState, NEW m, m.t = "attached", NEW s \in Id, m.id = s, NEW n \in 0 .. MaxOut, m.n = n
    PROVE  LET r == OnAttached(p, s, n)
           IN  ScreenOnly(p, r, s) /\ Shown(p, r, s, m)
<1> DEFINE screens == [p.shown EXCEPT ![s] = n]
           whole == [p.whole EXCEPT ![s] = TRUE]
           heal == p.heal \ {s}
           a == [p EXCEPT !.shown = screens]
           b == [p EXCEPT !.heal = heal, !.shown = screens, !.whole = whole]
           r == OnAttached(p, s, n)
<1>1. /\ screens \in [Id -> 0 .. MaxOut] /\ whole \in [Id -> BOOLEAN] /\ heal \in SUBSET Id
      /\ screens[s] = n /\ whole[s] = TRUE
      /\ \A x \in Id \ {s} : screens[x] = p.shown[x] /\ whole[x] = p.whole[x] /\ (x \in heal <=> x \in p.heal)
      /\ MaxOut \in Nat /\ p.shown[s] \in 0 .. MaxOut /\ p.whole[s] \in BOOLEAN
  BY PageFields, PageAssumption
<1>2. r = IF s \notin Tabs(p) \/ n = 0 THEN p ELSE IF p.shown[s] = 0 THEN a ELSE IF s \in p.heal THEN b ELSE p
  BY DEF OnAttached, PageState
<1> HIDE DEF r, screens, whole
<1>3. /\ a \in PageState /\ a.tabs = p.tabs /\ a.att = p.att /\ a.alive = p.alive /\ a.own = p.own
      /\ a.made = p.made /\ a.creating = p.creating /\ a.says = p.says
      /\ a.shown = screens /\ a.whole = p.whole /\ a.heal = p.heal
  BY <1>1 DEF PageState
<1>4. /\ b \in PageState /\ b.tabs = p.tabs /\ b.att = p.att /\ b.alive = p.alive /\ b.own = p.own
      /\ b.made = p.made /\ b.creating = p.creating /\ b.says = p.says
      /\ b.shown = screens /\ b.whole = whole /\ b.heal = heal
  BY <1>1 DEF PageState
<1> HIDE DEF a, b
<1>5. ScreenOnly(p, p, s) /\ ScreenOnly(p, a, s) /\ ScreenOnly(p, b, s)
  BY <1>1, <1>3, <1>4, OnlyScreen
<1>6. CASE r = p /\ (s \notin Tabs(p) \/ n = 0)
  <2>1. n = 0 => \A c : Sight(s, View(p, s), m, c) => View(p, s) = c
    BY DEF Sight
  <2> QED
    BY <1>5, <1>6, <2>1 DEF r, Shown
<1>7. CASE r = a /\ s \in Tabs(p) /\ n # 0 /\ p.shown[s] = 0
  <2>1. Looks(a, s) = Looks(p, s)
    BY <1>3 DEF Looks
  <2>2. View(a, s) = <<n, Looks(p, s)>>
    BY <1>1, <1>3, <2>1 DEF View
  <2>3. \A c : Sight(s, View(p, s), m, c) => c = <<n, Looks(p, s)>>
    BY <1>7 DEF Sight, View
  <2>4. r.shown[s] = n
    BY <1>1, <1>3, <1>7
  <2> QED
    BY <1>5, <1>7, <2>2, <2>3, <2>4 DEF r, Shown
<1>8. CASE r = b /\ s \in Tabs(p) /\ n # 0 /\ p.shown[s] # 0 /\ s \in p.heal
  <2>1. Looks(b, s) = "whole"
    BY <1>1, <1>4 DEF Looks
  <2>2. View(b, s) = <<n, "whole">>
    BY <1>1, <1>4, <2>1 DEF View
  <2>3. Looks(p, s) # "whole"
    BY <1>8 DEF Looks
  <2>4. \A c : Sight(s, View(p, s), m, c) => c = <<n, "whole">>
    BY <1>8, <2>3 DEF Sight, View
  <2>5. r.shown[s] = n
    BY <1>1, <1>4, <1>8
  <2> QED
    BY <1>5, <1>8, <2>2, <2>4, <2>5 DEF r, Shown
<1>9. CASE r = p /\ s \in Tabs(p) /\ n # 0 /\ p.shown[s] # 0 /\ s \notin p.heal
  <2>1. Looks(p, s) \in {"whole", "torn"}
    BY <1>9 DEF Looks
  <2>2. View(p, s)[2] = "whole" => \A c : Sight(s, View(p, s), m, c) => View(p, s) = c
    BY <1>9 DEF Sight, View
  <2>3. View(p, s)[2] = Looks(p, s) /\ (View(p, s) \in Views => Looks(p, s) # "torn")
    BY DEF View, Views
  <2> QED
    BY <1>5, <1>9, <2>1, <2>2, <2>3 DEF r, Shown
<1> QED
  BY <1>2, <1>6, <1>7, <1>8, <1>9

LEMMA DataView ==
    ASSUME NEW p \in PageState, NEW m, m.t = "data", NEW s \in Id, m.id = s, NEW n \in 0 .. MaxOut, m.n = n
    PROVE  LET r == OnData(p, s, n)
           IN  ScreenOnly(p, r, s) /\ Shown(p, r, s, m)
<1> DEFINE screens == [p.shown EXCEPT ![s] = n]
           whole == [p.whole EXCEPT ![s] = p.whole[s] /\ n = p.shown[s] + 1]
           a == [p EXCEPT !.shown = screens, !.whole = whole]
           r == OnData(p, s, n)
<1>1. /\ screens \in [Id -> 0 .. MaxOut] /\ whole \in [Id -> BOOLEAN]
      /\ screens[s] = n /\ whole[s] = (p.whole[s] /\ n = p.shown[s] + 1)
      /\ \A x \in Id \ {s} : screens[x] = p.shown[x] /\ whole[x] = p.whole[x]
      /\ MaxOut \in Nat /\ p.shown[s] \in 0 .. MaxOut /\ p.whole[s] \in BOOLEAN
  BY PageFields, PageAssumption
<1>2. r = IF s \notin Tabs(p) THEN p ELSE a
  BY DEF OnData, PageState
<1> HIDE DEF r, screens, whole
<1>3. /\ a \in PageState /\ a.tabs = p.tabs /\ a.att = p.att /\ a.alive = p.alive /\ a.own = p.own
      /\ a.made = p.made /\ a.creating = p.creating /\ a.says = p.says
      /\ a.shown = screens /\ a.whole = whole /\ a.heal = p.heal
  BY <1>1 DEF PageState
<1> HIDE DEF a
<1>4. ScreenOnly(p, p, s) /\ ScreenOnly(p, a, s)
  BY <1>1, <1>3, OnlyScreen
<1>5. CASE r = p /\ s \notin Tabs(p)
  BY <1>4, <1>5 DEF r, Shown
<1>6. CASE r = a /\ s \in Tabs(p)
  <2>1. a.shown[s] = n /\ a.whole[s] = (p.whole[s] /\ n = p.shown[s] + 1)
    BY <1>1, <1>3
  <2>2. ASSUME NEW c, Sight(s, View(p, s), m, c), View(p, s) \in Views PROVE View(a, s) = c
    <3>1. /\ Looks(p, s) \in {"whole", "both", "marked"}
          /\ Looks(p, s) = "whole" => n = p.shown[s] + 1
          /\ c = <<n, IF n = p.shown[s] + 1 THEN Looks(p, s) ELSE "marked">>
      BY <2>2 DEF Sight, View, Views
    <3>2. CASE n = p.shown[s] + 1
      <4>1. a.whole[s] = p.whole[s]
        BY <1>1, <2>1, <3>2
      <4>2. Looks(a, s) = Looks(p, s)
        BY <1>3, <4>1 DEF Looks
      <4> QED
        BY <2>1, <3>1, <3>2, <4>2 DEF View
    <3>3. CASE n # p.shown[s] + 1
      <4>1. s \in p.heal
        BY <3>1, <3>3 DEF Looks
      <4>2. ~a.whole[s]
        BY <2>1, <3>3
      <4>3. Looks(a, s) = "marked"
        BY <1>3, <4>1, <4>2 DEF Looks
      <4> QED
        BY <2>1, <3>1, <3>3, <4>3 DEF View
    <3> QED
      BY <3>2, <3>3
  <2> QED
    BY <1>4, <1>6, <2>1, <2>2 DEF r, Shown
<1> QED
  BY <1>2, <1>5, <1>6

-----------------------------------------------------------------------------
(* What the messages on the way will do *)

(* The messages q turn a into b, one after the other: R has what one does. *)
Leads(q, V, R, a, b) ==
    \E c \in [0 .. Len(q) -> V] :
        /\ c[0] = a /\ c[Len(q)] = b
        /\ \A i \in 1 .. Len(q) : <<c[i - 1], q[i], c[i]>> \in R

LEMMA LeadsNowhere ==
    ASSUME NEW V, NEW R, NEW a \in V
    PROVE  Leads(<<>>, V, R, a, a)
<1> DEFINE c == [i \in 0 .. 0 |-> a]
<1>1. c \in [0 .. 0 -> V] /\ c[0] = a /\ Len(<<>>) = 0 /\ \A i \in 1 .. 0 : FALSE
  OBVIOUS
<1> HIDE DEF c
<1> QED
  BY <1>1 DEF Leads

LEMMA LeadsEnds ==
    ASSUME NEW E, NEW q \in Seq(E), NEW V, NEW R, NEW a, NEW b, Leads(q, V, R, a, b)
    PROVE  a \in V /\ b \in V /\ (q = <<>> => a = b)
<1>1. PICK c \in [0 .. Len(q) -> V] : c[0] = a /\ c[Len(q)] = b
  BY DEF Leads
<1>2. 0 \in 0 .. Len(q) /\ Len(q) \in 0 .. Len(q) /\ (q = <<>> => Len(q) = 0)
  OBVIOUS
<1> QED
  BY <1>1, <1>2

LEMMA LeadsOn ==
    ASSUME NEW E, NEW q \in Seq(E), NEW V, NEW R, NEW a, NEW b, Leads(q, V, R, a, b),
           NEW m \in E, NEW d \in V, <<b, m, d>> \in R
    PROVE  Leads(Append(q, m), V, R, a, d)
<1> DEFINE n == Len(q)
           r == Append(q, m)
<1>1. PICK c \in [0 .. n -> V] : /\ c[0] = a /\ c[n] = b
                                 /\ \A i \in 1 .. n : <<c[i - 1], q[i], c[i]>> \in R
  BY DEF Leads
<1>2. /\ n \in Nat /\ Len(r) = n + 1 /\ r[n + 1] = m
      /\ \A i \in 1 .. n : r[i] = q[i]
  BY AppendAt
<1> HIDE DEF n, r
<1> DEFINE e == [i \in 0 .. n + 1 |-> IF i = n + 1 THEN d ELSE c[i]]
<1>3. e \in [0 .. n + 1 -> V]
  BY <1>2
<1>4. e[0] = a /\ e[n + 1] = d /\ e[n] = b
  BY <1>1, <1>2
<1>5. \A i \in 1 .. n : e[i - 1] = c[i - 1] /\ e[i] = c[i]
  BY <1>2
<1> HIDE DEF e
<1>6. \A i \in 1 .. n + 1 : i \in 1 .. n \/ (i = n + 1 /\ i - 1 = n)
  BY <1>2
<1>7. ASSUME NEW i \in 1 .. n + 1 PROVE <<e[i - 1], r[i], e[i]>> \in R
  <2>1. CASE i \in 1 .. n
    BY <1>1, <1>2, <1>5, <2>1
  <2>2. CASE i = n + 1 /\ i - 1 = n
    BY <1>2, <1>4, <2>2
  <2> QED
    BY <1>6, <2>1, <2>2
<1>8. Leads(r, V, R, a, d)
  BY <1>2, <1>3, <1>4, <1>7 DEF Leads
<1> QED
  BY <1>8 DEF r

LEMMA LeadsFrom ==
    ASSUME NEW E, NEW q \in Seq(E), q # <<>>, NEW V, NEW R, NEW a, NEW b, Leads(q, V, R, a, b)
    PROVE  \E d \in V : <<a, Head(q), d>> \in R /\ Leads(Tail(q), V, R, d, b)
<1> DEFINE n == Len(q)
           r == Tail(q)
           h == Head(q)
<1>1. PICK c \in [0 .. n -> V] : /\ c[0] = a /\ c[n] = b
                                 /\ \A i \in 1 .. n : <<c[i - 1], q[i], c[i]>> \in R
  BY DEF Leads
<1>2. n \in Nat \ {0} /\ Len(r) = n - 1 /\ h = q[1] /\ \A i \in 1 .. n - 1 : r[i] = q[i + 1]
  OBVIOUS
<1> HIDE DEF n, r, h
<1> DEFINE e == [i \in 0 .. n - 1 |-> c[i + 1]]
<1>3. e \in [0 .. n - 1 -> V] /\ c[1] \in V
  BY <1>2
<1>4. e[0] = c[1] /\ e[n - 1] = b
  BY <1>1, <1>2
<1>5. \A i \in 1 .. n - 1 : e[i - 1] = c[i] /\ e[i] = c[i + 1] /\ i + 1 \in 1 .. n /\ (i + 1) - 1 = i
  BY <1>2
<1> HIDE DEF e
<1>6. \A i \in 1 .. n - 1 : <<e[i - 1], r[i], e[i]>> \in R
  <2>1. ASSUME NEW i \in 1 .. n - 1 PROVE <<e[i - 1], r[i], e[i]>> \in R
    <3>1. <<c[(i + 1) - 1], q[i + 1], c[i + 1]>> \in R
      BY <1>1, <1>5
    <3> QED
      BY <1>2, <1>5, <3>1
  <2> QED
    BY <2>1
<1>7. Leads(r, V, R, c[1], b)
  BY <1>2, <1>3, <1>4, <1>6 DEF Leads
<1>8. <<a, h, c[1]>> \in R
  <2>1. 1 \in 1 .. n /\ 1 - 1 = 0
    BY <1>2
  <2>2. <<c[1 - 1], q[1], c[1]>> \in R
    BY <1>1, <2>1
  <2> QED
    BY <1>1, <1>2, <2>1, <2>2
<1> QED
  BY <1>3, <1>7, <1>8 DEF r, h

(* What a message says of whether s has a tab, and when it may come. *)
Naming(s) ==
    {x \in {"in", "out"} \X Told \X {"in", "out"} :
        IF x[2].t # "tabs" THEN x[3] = x[1]
        ELSE IF s \in ToSet(x[2].tabs) THEN x[3] = "in" ELSE x[1] = "out" /\ x[3] = "out"}

(* What a message does to the screen of s. *)
Seeing(s) == {x \in Views \X Told \X Views : Sight(s, x[1], x[2], x[3])}

(* What a message says of who sizes s: the page is not told twice that it   *)
(* does.                                                                    *)
Trusting(s) ==
    {x \in {"mine", "theirs"} \X Told \X {"mine", "theirs"} :
        IF x[2].t = "geo" /\ x[2].id = s
        THEN IF x[2].owner = "me" THEN x[1] = "theirs" /\ x[3] = "mine" ELSE x[3] = "theirs"
        ELSE x[3] = x[1]}

LEMMA NamingIs ==
    ASSUME NEW s, NEW m \in Told, NEW a \in {"in", "out"}, NEW b \in {"in", "out"}
    PROVE  <<a, m, b>> \in Naming(s) <=>
               IF m.t # "tabs" THEN b = a
               ELSE IF s \in ToSet(m.tabs) THEN b = "in" ELSE a = "out" /\ b = "out"
BY DEF Naming

LEMMA SeeingIs ==
    ASSUME NEW s, NEW m \in Told, NEW a \in Views, NEW b \in Views
    PROVE  <<a, m, b>> \in Seeing(s) <=> Sight(s, a, m, b)
BY DEF Seeing

LEMMA TrustingIs ==
    ASSUME NEW s, NEW m \in Told, NEW a \in {"mine", "theirs"}, NEW b \in {"mine", "theirs"}
    PROVE  <<a, m, b>> \in Trusting(s) <=>
               IF m.t = "geo" /\ m.id = s THEN IF m.owner = "me" THEN a = "theirs" /\ b = "mine" ELSE b = "theirs"
               ELSE b = a
BY DEF Trusting

-----------------------------------------------------------------------------
(* The invariant of the screens and of who sizes what, session by session   *)

(* What the host will hear, at once or when there is a connection. *)
Sent == ToSet(toHost) \cup ToSet(page.outbox)

(* The sessions that have not ended. *)
Open == Id \ (Numbers \ host.live)

Closed(s) == ClosingOf(s) \in Sent

Stream(m, s) == m.t \in {"geo", "attached", "data"} /\ m.id = s

Resizing(s) == [t |-> "resize", id |-> s]

Granting(s) == [t |-> "geo", id |-> s, owner |-> "me"]

LinkFits ==
    /\ IF Up THEN page.outbox = <<>> ELSE host.attached = {} /\ toPage = <<>> /\ toHost = <<>>
    /\ host.attached \subseteq host.live

(* No list on the way takes back what the one before it said of s. *)
Named(s) ==
    \E a, b \in {"in", "out"} :
        /\ Leads(toPage, {"in", "out"}, Naming(s), a, b)
        /\ s \in Tabs(page) => a = "in"
        /\ b = "in" => s \in host.live

(* Unless it has closed s, the page has a tab for what it hears of it. *)
Tracked(s) ==
    /\ s \in page.att => s \in Tabs(page)
    /\ Closed(s) => s \in host.live
    /\ \/ Closed(s)
       \/ /\ Attaching(s) \in Sent => s \in page.att
          /\ s \notin Tabs(page) => s \notin host.attached /\ \A m \in ToSet(toPage) : ~Stream(m, s)

Screened(s) ==
    /\ page.shown[s] <= host.out[s]
    /\ page.shown[s] = 0 => page.whole[s]
    /\ s \notin Tabs(page) => page.shown[s] = 0
    /\ \A m \in ToSet(toPage) :
           Stream(m, s) => /\ m.t = "attached" => m.n <= host.out[s]
                           /\ m.t = "data" => m.n \in 1 .. host.out[s]

(* What the screen of s looks like when the page has heard everything: up   *)
(* to date if the host sends its output, else about to be replaced.         *)
Ended(s, e) ==
    IF s \in host.attached THEN e[1] = host.out[s] /\ e[2] \in {"whole", "both"}
    ELSE e[1] <= host.out[s] /\ e[2] \in IF e[1] = 0 THEN {"whole", "both"} ELSE {"both", "marked"}

Viewed(s) ==
    world.relay /\ Up =>
        \/ Closed(s)
        \/ \E e \in Views : Leads(toPage, Views, Seeing(s), View(page, s), e) /\ Ended(s, e)

Belief(p, s) == IF p.own[s] THEN "mine" ELSE "theirs"

Fact(s) == IF host.owner[s] = "me" THEN "mine" ELSE "theirs"

Owned(s) ==
    \/ Closed(s)
    \/ /\ s \in Tabs(page) => page.alive[s]
       /\ s \notin Tabs(page) => ~page.own[s]
       /\ host.owner[s] = "me" =>
              /\ s \in host.attached
              /\ host.size[s] = "me" \/ Resizing(s) \in ToSet(toHost) \/ Granting(s) \in ToSet(toPage)
       /\ Leads(toPage, {"mine", "theirs"}, Trusting(s), Belief(page, s), Fact(s))

(* Neither the page nor others have made a session since the page opened.  *)
Pristine == link = "first" /\ ~world.rivals /\ ~world.slow /\ page.made = {} /\ page.creating = <<>>

Quiet == Pristine => \A m \in ToSet(toHost) : m.t # "create"

Upheld(s) == Named(s) /\ Tracked(s) /\ Screened(s) /\ Viewed(s) /\ (Pristine => Owned(s))

ViewInv == LinkFits /\ Quiet /\ \A s \in Open : Upheld(s)

-----------------------------------------------------------------------------
(* What the host and others do *)

(* What becomes of the screen of s: nothing, or the host attaches the page  *)
(* to s, or s says something.                                               *)
ScreenStep(s, m) ==
    \/ /\ (s \in host'.attached <=> s \in host.attached) /\ host'.out[s] = host.out[s]
       /\ m.t \in {"attached", "data"} => m.id # s
    \/ /\ s \in host'.attached /\ host'.out[s] = host.out[s]
       /\ toPage' = Append(toPage, m) /\ m.t = "attached" /\ m.id = s /\ m.n = host.out[s]
    \/ /\ (s \in host'.attached <=> s \in host.attached) /\ host'.out[s] = host.out[s] + 1
       /\ IF s \in host.attached
          THEN toPage' = Append(toPage, m) /\ m.t = "data" /\ m.id = s /\ m.n = host.out[s] + 1
          ELSE m.t \in {"attached", "data"} => m.id # s

(* Who sizes s: as before, with the size the page asked for, or somebody    *)
(* else.                                                                    *)
OwnerStep(s, m) ==
    \/ /\ host'.owner[s] = host.owner[s] /\ (m.t = "geo" => m.id # s)
       /\ s \in host.attached => s \in host'.attached
       /\ host'.size[s] \in {host.size[s], "me"}
       /\ Resizing(s) \in ToSet(toHost) =>
              Resizing(s) \in ToSet(toHost') \/ host'.size[s] = "me" \/ host.owner[s] # "me"
    \/ /\ s \in host.attached /\ s \in host'.attached
       /\ toPage' = Append(toPage, m) /\ m.t = "geo" /\ m.id = s /\ m.owner = host'.owner[s]
       /\ host'.owner[s] = "me" => host.owner[s] # "me" /\ m = Granting(s)
    \/ s \notin host.attached /\ host'.owner[s] # "me" /\ (m.t = "geo" => m.id # s)

(* A step of the host or of others, that says m or nothing. *)
HostMove(m) ==
    /\ PageInv /\ PageInv' /\ ViewInv /\ UNCHANGED <<world, link, page>> /\ m \in Told
    /\ toPage' = toPage \/ (Up /\ toPage' = Append(toPage, m))
    /\ ToSet(toHost') \subseteq ToSet(toHost)
    /\ Open' \subseteq Open /\ Numbers \subseteq Numbers'
    /\ \A s \in Open' : ClosingOf(s) \in ToSet(toHost) => ClosingOf(s) \in ToSet(toHost')
    /\ host'.attached \subseteq host'.live
    /\ \A s \in host'.attached : s \in host.attached \/ (Up /\ Attaching(s) \in ToSet(toHost))
    /\ m.t = "tabs" /\ toPage' # toPage => ToSet(m.tabs) = host'.live
    /\ \A s \in Id : Stream(m, s) => s \in host'.attached
    /\ \A s \in Open' : ScreenStep(s, m) /\ (Pristine => OwnerStep(s, m))

LEMMA HostLink ==
    ASSUME NEW m, HostMove(m)
    PROVE  LinkFits' /\ Quiet' /\ (Up' <=> Up) /\ (Pristine' <=> Pristine)
<1>1. (Up' <=> Up) /\ (Pristine' <=> Pristine)
  BY DEF HostMove, Up, Pristine
<1>2. ASSUME ~Up PROVE host'.attached = {} /\ toPage' = <<>> /\ toHost' = <<>>
  <2>1. host.attached = {} /\ toPage = <<>> /\ toHost = <<>>
    BY <1>2 DEF HostMove, ViewInv, LinkFits
  <2>2. toHost' \in Seq(Said) /\ ToSet(toHost') = {}
    BY <2>1, NoElements DEF HostMove, PageInv, PageTypeOK
  <2>3. toHost' = <<>>
    BY <2>2, SomeElement
  <2> QED
    BY <1>2, <2>1, <2>3 DEF HostMove
<1>3. LinkFits'
  BY <1>1, <1>2 DEF HostMove, ViewInv, LinkFits
<1>4. Quiet'
  BY <1>1 DEF HostMove, ViewInv, Quiet
<1> QED
  BY <1>1, <1>3, <1>4

(* A session that has not ended after the step had not before. *)
LEMMA HostOpen ==
    ASSUME NEW m, HostMove(m), NEW s \in Open'
    PROVE  /\ s \in Open /\ s \in Id /\ (s \in host.live => s \in host'.live) /\ Upheld(s)
           /\ Closed(s) => Closed(s)'
           /\ Sent' \subseteq Sent
           /\ host \in HostState /\ host' \in HostState /\ toPage \in Seq(Told) /\ page \in PageState
<1>1. s \in Open /\ s \in Id /\ Upheld(s) /\ page' = page
  BY DEF HostMove, ViewInv, Open
<1>2. s \in host.live => s \in host'.live
  BY DEF HostMove, PageInv, MessagesFit, Open
<1>3. (Closed(s) => Closed(s)') /\ Sent' \subseteq Sent
  BY <1>1 DEF HostMove, Closed, Sent
<1> QED
  BY <1>1, <1>2, <1>3 DEF HostMove, PageInv, PageTypeOK

LEMMA NamedHost ==
    ASSUME NEW m, HostMove(m), NEW s \in Open'
    PROVE  Named(s)'
<1>1. /\ s \in host.live => s \in host'.live
      /\ Named(s) /\ toPage \in Seq(Told) /\ m \in Told /\ page' = page
  BY HostOpen DEF Upheld, HostMove
<1>2. PICK a \in {"in", "out"}, b \in {"in", "out"} :
          /\ Leads(toPage, {"in", "out"}, Naming(s), a, b)
          /\ s \in Tabs(page) => a = "in"
          /\ b = "in" => s \in host.live
  BY <1>1 DEF Named
<1>3. CASE toPage' = toPage
  BY <1>1, <1>2, <1>3 DEF Named
<1>4. CASE toPage' # toPage
  <2>1. toPage' = Append(toPage, m) /\ (m.t = "tabs" => ToSet(m.tabs) = host'.live)
    BY <1>4 DEF HostMove
  <2> DEFINE d == IF m.t = "tabs" /\ s \in host'.live THEN "in" ELSE b
  <2>2. d \in {"in", "out"} /\ <<b, m, d>> \in Naming(s) /\ (d = "in" => s \in host'.live)
    BY <1>1, <1>2, <2>1, NamingIs
  <2> HIDE DEF d
  <2>3. Leads(toPage', {"in", "out"}, Naming(s), a, d)
    BY <1>1, <1>2, <2>1, <2>2, LeadsOn
  <2> QED
    BY <1>1, <1>2, <2>2, <2>3 DEF Named
<1> QED
  BY <1>3, <1>4

LEMMA SaidOn ==
    ASSUME NEW m, HostMove(m)
    PROVE  ToSet(toPage') \subseteq ToSet(toPage) \cup {m}
<1>1. toPage \in Seq(Told) /\ m \in Told
  BY DEF HostMove, PageInv, PageTypeOK
<1>2. ToSet(Append(toPage, m)) = ToSet(toPage) \cup {m}
  BY <1>1, AppendElements
<1> QED
  BY <1>2 DEF HostMove

LEMMA TrackedHost ==
    ASSUME NEW m, HostMove(m), NEW s \in Open'
    PROVE  Tracked(s)'
<1>1. /\ s \in host.live => s \in host'.live
      /\ Tracked(s) /\ page' = page /\ s \in Id
      /\ Closed(s) => Closed(s)'
      /\ Sent' \subseteq Sent
  BY HostOpen DEF Upheld, HostMove
<1>2. Closed(s)' => Closed(s)
  BY <1>1 DEF Closed
<1>3. ASSUME ~Closed(s)', s \notin Tabs(page)
      PROVE  s \notin host'.attached /\ \A x \in ToSet(toPage') : ~Stream(x, s)
  <2>1. ~Closed(s) /\ Attaching(s) \notin Sent /\ s \notin host.attached /\ \A x \in ToSet(toPage) : ~Stream(x, s)
    BY <1>1, <1>3 DEF Tracked
  <2>2. s \notin host'.attached
    BY <2>1 DEF HostMove, Sent
  <2>3. ~Stream(m, s)
    BY <1>1, <2>2 DEF HostMove
  <2> QED
    BY <2>1, <2>2, <2>3, SaidOn
<1> QED
  BY <1>1, <1>2, <1>3 DEF Tracked

LEMMA ScreenedHost ==
    ASSUME NEW m, HostMove(m), NEW s \in Open'
    PROVE  Screened(s)'
<1>1. Screened(s) /\ page' = page /\ s \in Id /\ host.out[s] \in Nat
  <2>1. Screened(s) /\ page' = page /\ s \in Id /\ host \in HostState /\ MaxOut \in Nat
    BY HostOpen, PageAssumption DEF Upheld, HostMove
  <2> QED
    BY <2>1, HostFields
<1>2. host'.out[s] \in {host.out[s], host.out[s] + 1}
  BY DEF HostMove, ScreenStep
<1>3. page.shown[s] \in Nat
  BY <1>1, HostOpen, PageFields, PageAssumption
<1>4. page.shown[s] <= host'.out[s]
  BY <1>1, <1>2, <1>3 DEF Screened
<1>5. ASSUME NEW x \in ToSet(toPage'), Stream(x, s)
      PROVE  (x.t = "attached" => x.n <= host'.out[s]) /\ (x.t = "data" => x.n \in 1 .. host'.out[s])
  <2>1. x \in ToSet(toPage) \/ x = m
    BY SaidOn
  <2>2. CASE x \in ToSet(toPage)
    <3>1. (x.t = "attached" => x.n <= host.out[s]) /\ (x.t = "data" => x.n \in 1 .. host.out[s])
      BY <1>1, <1>5, <2>2 DEF Screened
    <3>2. x \in Told
      BY <2>2, ElementsIn, HostOpen
    <3>3. x.t = "attached" => x.n \in Nat
      BY <3>2, PageAssumption DEF Told
    <3> QED
      BY <1>1, <1>2, <3>1, <3>3
  <2>3. CASE x = m
    BY <1>1, <1>5, <2>3 DEF HostMove, ScreenStep, Stream
  <2> QED
    BY <2>1, <2>2, <2>3
<1> QED
  BY <1>1, <1>4, <1>5 DEF Screened

LEMMA ViewedHost ==
    ASSUME NEW m, HostMove(m), NEW s \in Open'
    PROVE  Viewed(s)'
<1>1. /\ Viewed(s) /\ Screened(s) /\ page' = page /\ world' = world /\ s \in Id /\ toPage \in Seq(Told) /\ m \in Told
      /\ Closed(s) => Closed(s)'
      /\ (Up' <=> Up) /\ MaxOut \in Nat /\ host.out[s] \in 0 .. MaxOut /\ host'.out[s] \in 0 .. MaxOut
  <2>1. (Up' <=> Up) /\ page' = page /\ world' = world /\ m \in Told
    BY HostLink DEF HostMove
  <2>2. Viewed(s) /\ Screened(s) /\ (Closed(s) => Closed(s)') /\ s \in Id /\ host \in HostState
        /\ host' \in HostState /\ toPage \in Seq(Told) /\ MaxOut \in Nat
    BY HostOpen, PageAssumption DEF Upheld
  <2>3. host.out[s] \in 0 .. MaxOut /\ host'.out[s] \in 0 .. MaxOut
    BY <2>2 DEF HostState
  <2> QED
    BY <2>1, <2>2, <2>3
<1>2. SUFFICES ASSUME world.relay, Up, ~Closed(s)' 
               PROVE  \E e \in Views : Leads(toPage', Views, Seeing(s), View(page, s), e) /\ Ended(s, e)'
  BY <1>1 DEF Viewed
<1>3. PICK e \in Views : Leads(toPage, Views, Seeing(s), View(page, s), e) /\ Ended(s, e)
  BY <1>1, <1>2 DEF Viewed
<1>4. /\ e = <<e[1], e[2]>> /\ e[1] \in 0 .. MaxOut /\ e[2] \in {"whole", "both", "marked"}
      /\ \A n \in 0 .. MaxOut, t \in {"whole", "both", "marked"} : <<n, t>> \in Views
  BY DEF Views
<1>5. ASSUME NEW d \in Views, Sight(s, e, m, d), toPage' = Append(toPage, m), Ended(s, d)'
      PROVE  \E x \in Views : Leads(toPage', Views, Seeing(s), View(page, s), x) /\ Ended(s, x)'
  <2>1. <<e, m, d>> \in Seeing(s)
    BY <1>1, <1>5, SeeingIs
  <2>2. Leads(toPage', Views, Seeing(s), View(page, s), d)
    BY <1>1, <1>3, <1>5, <2>1, LeadsOn
  <2> QED
    BY <1>5, <2>2
<1>6. ASSUME m.t \in {"attached", "data"} => m.id # s, Ended(s, e)'
      PROVE  \E x \in Views : Leads(toPage', Views, Seeing(s), View(page, s), x) /\ Ended(s, x)'
  <2>1. CASE toPage' = toPage
    BY <1>3, <1>6, <2>1
  <2>2. CASE toPage' = Append(toPage, m)
    <3>1. Sight(s, e, m, e)
      BY <1>6 DEF Sight
    <3> QED
      BY <1>5, <1>6, <2>2, <3>1
  <2> QED
    BY <2>1, <2>2 DEF HostMove
<1>7. ScreenStep(s, m)
  BY DEF HostMove
<1>8. CASE /\ (s \in host'.attached <=> s \in host.attached) /\ host'.out[s] = host.out[s]
           /\ m.t \in {"attached", "data"} => m.id # s
  <2>1. Ended(s, e)'
    BY <1>3, <1>8 DEF Ended
  <2> QED
    BY <1>6, <1>8, <2>1
<1>9. CASE /\ s \in host'.attached /\ host'.out[s] = host.out[s]
           /\ toPage' = Append(toPage, m) /\ m.t = "attached" /\ m.id = s /\ m.n = host.out[s]
  <2> DEFINE d == IF m.n = 0 \/ (e[1] # 0 /\ e[2] = "whole") THEN e ELSE <<m.n, IF e[1] = 0 THEN e[2] ELSE "whole">>
  <2>1. Sight(s, e, m, d)
    BY <1>9 DEF Sight
  <2>2. e[1] <= host.out[s] /\ (e[1] = 0 => e[2] \in {"whole", "both"}) /\ (e[2] = "whole" => e[1] = host.out[s] \/ e[1] = 0)
    BY <1>1, <1>3, <1>4 DEF Ended
  <2>3. d \in Views /\ d[1] = host.out[s] /\ d[2] \in {"whole", "both"}
    <3>1. CASE m.n = 0
      BY <1>1, <1>4, <1>9, <2>2, <3>1
    <3>2. CASE m.n # 0 /\ e[1] # 0 /\ e[2] = "whole"
      BY <1>4, <1>9, <2>2, <3>2
    <3>3. CASE m.n # 0 /\ e[1] = 0
      <4>1. d = <<host.out[s], e[2]>>
        BY <1>9, <3>3
      <4> HIDE DEF d
      <4> QED
        BY <1>1, <1>4, <2>2, <3>3, <4>1
    <3>4. CASE m.n # 0 /\ e[1] # 0 /\ e[2] # "whole"
      <4>1. d = <<host.out[s], "whole">>
        BY <1>9, <3>4
      <4> HIDE DEF d
      <4> QED
        BY <1>1, <1>4, <4>1
    <3> QED
      BY <3>1, <3>2, <3>3, <3>4
  <2> HIDE DEF d
  <2>4. Ended(s, d)'
    BY <1>9, <2>3 DEF Ended
  <2> QED
    BY <1>5, <1>9, <2>1, <2>3, <2>4
<1>10. CASE /\ s \in host.attached /\ s \in host'.attached /\ host'.out[s] = host.out[s] + 1
            /\ toPage' = Append(toPage, m) /\ m.t = "data" /\ m.id = s /\ m.n = host.out[s] + 1
  <2> DEFINE d == <<m.n, e[2]>>
  <2>1. e[1] = host.out[s] /\ e[2] \in {"whole", "both"}
    BY <1>3, <1>10 DEF Ended
  <2>2. Sight(s, e, m, d)
    BY <1>10, <2>1 DEF Sight
  <2>3. d \in Views /\ d[1] = host'.out[s] /\ d[2] = e[2]
    BY <1>1, <1>4, <1>10
  <2> HIDE DEF d
  <2>4. Ended(s, d)'
    BY <1>10, <2>1, <2>3 DEF Ended
  <2> QED
    BY <1>5, <1>10, <2>2, <2>3, <2>4
<1>11. CASE /\ s \notin host.attached /\ s \notin host'.attached /\ host'.out[s] = host.out[s] + 1
            /\ m.t \in {"attached", "data"} => m.id # s
  <2>1. e[1] <= host.out[s] /\ e[2] \in IF e[1] = 0 THEN {"whole", "both"} ELSE {"both", "marked"}
    BY <1>3, <1>11 DEF Ended
  <2>2. e[1] <= host'.out[s]
    BY <1>1, <1>4, <1>11, <2>1
  <2>3. Ended(s, e)'
    BY <1>11, <2>1, <2>2 DEF Ended
  <2> QED
    BY <1>6, <1>11, <2>3
<1> QED
  BY <1>7, <1>8, <1>9, <1>10, <1>11 DEF ScreenStep

LEMMA OwnedHost ==
    ASSUME NEW m, HostMove(m), NEW s \in Open', Pristine
    PROVE  Owned(s)'
<1>1. /\ Owned(s) /\ page' = page /\ s \in Id /\ toPage \in Seq(Told) /\ m \in Told /\ OwnerStep(s, m)
      /\ Closed(s) => Closed(s)'
  BY HostOpen DEF Upheld, HostMove
<1>2. SUFFICES ASSUME ~Closed(s)' PROVE Owned(s)'
  BY DEF Owned
<1> DEFINE V == {"mine", "theirs"}
           a == Belief(page, s)
           b == Fact(s)
           c == IF host'.owner[s] = "me" THEN "mine" ELSE "theirs"
<1>3. /\ s \in Tabs(page) => page.alive[s]
      /\ s \notin Tabs(page) => ~page.own[s]
      /\ host.owner[s] = "me" =>
             /\ s \in host.attached
             /\ host.size[s] = "me" \/ Resizing(s) \in ToSet(toHost) \/ Granting(s) \in ToSet(toPage)
      /\ Leads(toPage, V, Trusting(s), a, b)
  BY <1>1, <1>2 DEF Owned
<1>4. b \in V /\ c \in V
  BY DEF Fact
<1>5. ASSUME Leads(toPage', V, Trusting(s), a, c),
             host'.owner[s] = "me" =>
                 /\ s \in host'.attached
                 /\ host'.size[s] = "me" \/ Resizing(s) \in ToSet(toHost') \/ Granting(s) \in ToSet(toPage')
      PROVE  Owned(s)'
  BY <1>1, <1>3, <1>5 DEF Owned, Fact
<1>6. b = IF host.owner[s] = "me" THEN "mine" ELSE "theirs"
  BY DEF Fact
<1> HIDE DEF a, b
<1>7. ASSUME <<b, m, c>> \in Trusting(s), toPage' = Append(toPage, m)
      PROVE  Leads(toPage', V, Trusting(s), a, c)
  <2> HIDE DEF V, c
  <2> QED
    BY <1>1, <1>3, <1>4, <1>7, LeadsOn
<1>8. /\ ToSet(toPage) \subseteq ToSet(toPage')
      /\ toPage' = Append(toPage, m) => m \in ToSet(toPage')
  <2>1. ToSet(Append(toPage, m)) = ToSet(toPage) \cup {m}
    BY <1>1, AppendElements
  <2> QED
    BY <2>1 DEF HostMove
<1>9. ASSUME b = c, m.t = "geo" => m.id # s PROVE Leads(toPage', V, Trusting(s), a, c)
  <2>1. CASE toPage' = toPage
    BY <1>3, <1>9, <2>1
  <2>2. CASE toPage' = Append(toPage, m)
    <3>1. <<b, m, c>> \in Trusting(s)
      BY <1>1, <1>4, <1>9, TrustingIs
    <3> QED
      BY <1>7, <2>2, <3>1
  <2> QED
    BY <2>1, <2>2 DEF HostMove
<1>10. CASE /\ host'.owner[s] = host.owner[s] /\ (m.t = "geo" => m.id # s)
            /\ s \in host.attached => s \in host'.attached
            /\ host'.size[s] \in {host.size[s], "me"}
            /\ Resizing(s) \in ToSet(toHost) =>
                   Resizing(s) \in ToSet(toHost') \/ host'.size[s] = "me" \/ host.owner[s] # "me"
  <2>1. Leads(toPage', V, Trusting(s), a, c)
    BY <1>6, <1>9, <1>10
  <2>2. host'.owner[s] = "me" =>
            /\ s \in host'.attached
            /\ host'.size[s] = "me" \/ Resizing(s) \in ToSet(toHost') \/ Granting(s) \in ToSet(toPage')
    BY <1>3, <1>8, <1>10
  <2> HIDE DEF c, V
  <2> QED
    BY <1>5, <2>1, <2>2
<1>11. CASE /\ s \in host.attached /\ s \in host'.attached
            /\ toPage' = Append(toPage, m) /\ m.t = "geo" /\ m.id = s /\ m.owner = host'.owner[s]
            /\ host'.owner[s] = "me" => host.owner[s] # "me" /\ m = Granting(s)
  <2>1. <<b, m, c>> \in Trusting(s)
    <3>1. IF m.owner = "me" THEN b = "theirs" /\ c = "mine" ELSE c = "theirs"
      BY <1>6, <1>11
    <3> HIDE DEF c
    <3> QED
      BY <1>1, <1>4, <1>11, <3>1, TrustingIs
  <2>2. Leads(toPage', V, Trusting(s), a, c)
    BY <1>7, <1>11, <2>1
  <2>3. host'.owner[s] = "me" => s \in host'.attached /\ Granting(s) \in ToSet(toPage')
    BY <1>8, <1>11
  <2> HIDE DEF c, V
  <2> QED
    BY <1>5, <2>2, <2>3
<1>12. CASE s \notin host.attached /\ host'.owner[s] # "me" /\ (m.t = "geo" => m.id # s)
  <2>1. b = c
    BY <1>3, <1>6, <1>12
  <2>2. Leads(toPage', V, Trusting(s), a, c)
    BY <1>9, <1>12, <2>1
  <2> HIDE DEF c, V
  <2> QED
    BY <1>5, <1>12, <2>2
<1> QED
  BY <1>1, <1>10, <1>11, <1>12 DEF OwnerStep

LEMMA HostKeeps ==
    ASSUME NEW m, HostMove(m)
    PROVE  ViewInv'
<1>1. LinkFits' /\ Quiet' /\ (Pristine' <=> Pristine)
  BY HostLink
<1>2. ASSUME NEW s \in Open' PROVE Upheld(s)'
  <2>1. Named(s)' /\ Tracked(s)' /\ Screened(s)' /\ Viewed(s)' /\ (Pristine => Owned(s)')
    BY <1>2, NamedHost, TrackedHost, ScreenedHost, ViewedHost, OwnedHost
  <2> QED
    BY <1>1, <2>1 DEF Upheld
<1> QED
  BY <1>1, <1>2 DEF ViewInv

LEMMA HostFacts ==
    ASSUME PageInv, ViewInv
    PROVE  /\ host \in HostState /\ toHost \in Seq(Said) /\ toPage \in Seq(Told)
           /\ TabsMessage \in Told /\ TabsMessage.t = "tabs" /\ ToSet(TabsMessage.tabs) = host.live
           /\ host.attached \subseteq host.live /\ host.live \subseteq Numbers /\ Numbers \subseteq Id
           /\ host.attached # {} => Up
           /\ \A s \in Open : ClosingOf(s) \in ToSet(toHost) => s \in host.live
<1>1. host \in HostState /\ toHost \in Seq(Said) /\ toPage \in Seq(Told) /\ host.live \subseteq Numbers
  BY DEF PageInv, PageTypeOK, MessagesFit
<1>2. \A s \in Open : ClosingOf(s) \in ToSet(toHost) => s \in host.live
  BY DEF ViewInv, Upheld, Tracked, Closed, Sent
<1> QED
  BY <1>1, <1>2, ListMessage, NumbersAre DEF ViewInv, LinkFits

LEMMA OpenStays ==
    ASSUME host'.live = host.live, host'.next = host.next
    PROVE  Open' = Open /\ Numbers' = Numbers
<1>1. Numbers' = Numbers
  BY DEF Numbers
<1> QED
  BY <1>1 DEF Open

(* A list or nothing is said. *)
LEMMA StillMove ==
    ASSUME PageInv, PageInv', ViewInv, UNCHANGED <<world, link, page>>,
           host'.live = host.live, host'.next = host.next, host'.attached = host.attached,
           host'.out = host.out, host'.owner = host.owner,
           toPage' = toPage \/ (Up /\ toPage' = Append(toPage, TabsMessage)),
           ToSet(toHost') \subseteq ToSet(toHost),
           \A s \in Open : ClosingOf(s) \in ToSet(toHost) => ClosingOf(s) \in ToSet(toHost'),
           \A s \in Open : /\ host'.size[s] \in {host.size[s], "me"}
                           /\ Resizing(s) \in ToSet(toHost) =>
                                  Resizing(s) \in ToSet(toHost') \/ host'.size[s] = "me" \/ host.owner[s] # "me"
    PROVE  ViewInv'
<1> DEFINE m == TabsMessage
<1>1. /\ m \in Told /\ m.t = "tabs" /\ ToSet(m.tabs) = host.live /\ host.attached \subseteq host.live
      /\ Open' = Open /\ Numbers' = Numbers
  BY HostFacts, OpenStays
<1> HIDE DEF m
<1>2. \A s : ~Stream(m, s)
  BY <1>1 DEF Stream
<1>3. \A s \in Open : ScreenStep(s, m)
  BY <1>1 DEF ScreenStep
<1>4. \A s \in Open : OwnerStep(s, m)
  BY <1>1 DEF OwnerStep
<1>5. HostMove(m)
  BY <1>1, <1>2, <1>3, <1>4 DEF HostMove, m
<1> QED
  BY <1>5, HostKeeps

LEMMA CreateMove ==
    ASSUME PageInv, PageInv', ViewInv, UNCHANGED <<world, link, page, toPage>>, ~Pristine, host.next \in Id,
           host'.live = host.live \cup {host.next}, host'.next = host.next + 1,
           host'.attached = host.attached, host'.out = host.out,
           ToSet(toHost') \subseteq ToSet(toHost),
           \A s \in Open : ClosingOf(s) \in ToSet(toHost) => ClosingOf(s) \in ToSet(toHost')
    PROVE  ViewInv'
<1> DEFINE m == TabsMessage
<1>1. /\ m \in Told /\ m.t = "tabs" /\ host.attached \subseteq host.live /\ host \in HostState
  BY HostFacts
<1> HIDE DEF m
<1>2. Numbers' = Numbers \cup {host.next} /\ host.next \notin Numbers
  BY <1>1, NumbersAre DEF Numbers
<1>3. Open' = Open
  BY <1>2 DEF Open
<1>4. \A s : ~Stream(m, s)
  BY <1>1 DEF Stream
<1>5. \A s \in Open : ScreenStep(s, m)
  BY <1>1 DEF ScreenStep
<1>6. HostMove(m)
  BY <1>1, <1>2, <1>3, <1>4, <1>5 DEF HostMove
<1> QED
  BY <1>6, HostKeeps

LEMMA EndMove ==
    ASSUME PageInv, PageInv', ViewInv, UNCHANGED <<world, link, page>>, NEW s \in host.live, Ends(s),
           ToSet(toHost') \subseteq ToSet(toHost),
           \A x \in Id \ {s} : /\ ClosingOf(x) \in ToSet(toHost) => ClosingOf(x) \in ToSet(toHost')
                               /\ Resizing(x) \in ToSet(toHost) => Resizing(x) \in ToSet(toHost')
    PROVE  ViewInv'
<1> DEFINE e == [t |-> "exit", id |-> s]
           owner == [host.owner EXCEPT ![s] = "local"]
           m == IF s \in host.attached THEN e ELSE TabsMessage
<1>1. /\ host \in HostState /\ TabsMessage \in Told /\ TabsMessage.t = "tabs"
      /\ host.attached \subseteq host.live /\ host.live \subseteq Numbers /\ Numbers \subseteq Id /\ (host.attached # {} => Up)
  BY HostFacts
<1>2. s \in Id /\ e \in Told
  BY <1>1, ToldAre
<1>3. host' = [host EXCEPT !.live = host.live \ {s}, !.attached = host.attached \ {s}, !.owner = owner, !.dirty = TRUE]
  BY <1>1 DEF Ends, HostState
<1>4. \A x \in Id \ {s} : owner[x] = host.owner[x]
  BY <1>1, HostFields
<1> HIDE DEF owner
<1>5. /\ host'.live = host.live \ {s} /\ host'.attached = host.attached \ {s} /\ host'.owner = owner
      /\ host'.next = host.next /\ host'.out = host.out /\ host'.size = host.size
  BY <1>1, <1>3 DEF HostState
<1>6. Numbers' = Numbers /\ Open' = Open \ {s} /\ s \notin Open'
  BY <1>1, <1>2, <1>5 DEF Numbers, Open
<1>8. toPage' = IF s \in host.attached THEN Append(toPage, e) ELSE toPage
  <2>1. toPage \o <<e>> = Append(toPage, e)
    BY HostFacts, <1>2
  <2> QED
    BY <2>1 DEF Ends, Tells
<1>9. /\ m \in Told /\ m.t \in {"tabs", "exit"} /\ (m.t = "tabs" => toPage' = toPage)
      /\ toPage' = toPage \/ (Up /\ toPage' = Append(toPage, m))
  BY <1>1, <1>2, <1>8
<1> HIDE DEF m
<1>10. \A x : ~Stream(m, x)
  BY <1>9 DEF Stream
<1>11. ASSUME NEW x \in Open' PROVE ScreenStep(x, m) /\ OwnerStep(x, m) /\ x \in Id \ {s}
  <2>1. x \in Id \ {s}
    BY <1>6 DEF Open
  <2>2. (x \in host'.attached <=> x \in host.attached) /\ host'.owner[x] = host.owner[x]
    BY <1>4, <1>5, <2>1
  <2>3. ScreenStep(x, m)
    BY <1>5, <1>9, <2>2 DEF ScreenStep
  <2>4. OwnerStep(x, m)
    BY <1>5, <1>9, <2>1, <2>2 DEF OwnerStep
  <2> QED
    BY <2>1, <2>3, <2>4
<1>12. HostMove(m)
  BY <1>1, <1>5, <1>6, <1>9, <1>10, <1>11 DEF HostMove
<1> QED
  BY <1>12, HostKeeps

LEMMA AttachMove ==
    ASSUME PageInv, PageInv', ViewInv, UNCHANGED <<world, link, page>>, Up, NEW s \in host.live, HostAttaches(s),
           Attaching(s) \in ToSet(toHost), ToSet(toHost') \subseteq ToSet(toHost),
           \A x \in Id : /\ ClosingOf(x) \in ToSet(toHost) => ClosingOf(x) \in ToSet(toHost')
                         /\ Resizing(x) \in ToSet(toHost) => Resizing(x) \in ToSet(toHost')
    PROVE  ViewInv'
<1> DEFINE m == [t |-> "attached", id |-> s, n |-> host.out[s]]
<1>1. /\ host \in HostState /\ host.attached \subseteq host.live /\ host.live \subseteq Numbers /\ Numbers \subseteq Id
  BY HostFacts
<1>2. s \in Id /\ m \in Told /\ m.t = "attached" /\ m.id = s /\ m.n = host.out[s]
  BY <1>1, HostFields, ToldAre
<1>3. host' = [host EXCEPT !.attached = host.attached \cup {s}] /\ toPage' = Append(toPage, m)
  BY <1>1 DEF HostAttaches, HostState
<1> HIDE DEF m
<1>4. /\ host'.live = host.live /\ host'.attached = host.attached \cup {s} /\ host'.owner = host.owner
      /\ host'.next = host.next /\ host'.out = host.out /\ host'.size = host.size
  BY <1>1, <1>3 DEF HostState
<1>5. Open' = Open /\ Numbers' = Numbers /\ Open \subseteq Id
  BY <1>4, OpenStays DEF Open
<1>6. \A x \in Open : ScreenStep(x, m)
  BY <1>2, <1>3, <1>4 DEF ScreenStep
<1>7. \A x \in Open : OwnerStep(x, m)
  BY <1>2, <1>4, <1>5 DEF OwnerStep
<1>8. \A x \in Id : Stream(m, x) => x \in host'.attached
  BY <1>2, <1>4 DEF Stream
<1>9. HostMove(m)
  BY <1>1, <1>2, <1>3, <1>4, <1>5, <1>6, <1>7, <1>8 DEF HostMove
<1> QED
  BY <1>9, HostKeeps

LEMMA OutputMove ==
    ASSUME PageInv, PageInv', ViewInv, NEW s \in Id, Output(s)
    PROVE  ViewInv'
<1> DEFINE d == [t |-> "data", id |-> s, n |-> host.out[s] + 1]
           out == [host.out EXCEPT ![s] = host.out[s] + 1]
           m == IF s \in host.attached THEN d ELSE TabsMessage
<1>1. /\ host \in HostState /\ TabsMessage \in Told /\ TabsMessage.t = "tabs"
      /\ host.attached \subseteq host.live /\ host.live \subseteq Numbers /\ Numbers \subseteq Id /\ (host.attached # {} => Up)
      /\ UNCHANGED <<world, link, toHost, page>> /\ host' \in HostState
  BY HostFacts DEF Output, PageInv, PageTypeOK
<1>2. host' = [host EXCEPT !.out = out]
  BY <1>1 DEF Output, HostState
<1>3. out[s] = host.out[s] + 1 /\ \A x \in Id \ {s} : out[x] = host.out[x]
  BY <1>1, HostFields
<1> HIDE DEF out
<1>4. /\ host'.live = host.live /\ host'.attached = host.attached /\ host'.owner = host.owner
      /\ host'.next = host.next /\ host'.out = out /\ host'.size = host.size
  BY <1>1, <1>2 DEF HostState
<1>5. d \in Told
  <2>1. out[s] \in 0 .. MaxOut
    BY <1>1, <1>4 DEF HostState
  <2> QED
    BY <1>3, <2>1, ToldAre
<1>6. toPage' = IF s \in host.attached THEN Append(toPage, d) ELSE toPage
  <2>1. toPage \o <<d>> = Append(toPage, d)
    BY HostFacts, <1>5
  <2> HIDE DEF d
  <2> QED
    BY <2>1 DEF Output, Tells, d
<1>7. /\ m \in Told /\ (m.t = "tabs" => toPage' = toPage)
      /\ toPage' = toPage \/ (Up /\ toPage' = Append(toPage, m))
      /\ IF s \in host.attached THEN m = d /\ toPage' = Append(toPage, m) ELSE m.t = "tabs"
  BY <1>1, <1>5, <1>6
<1> HIDE DEF m
<1>8. Open' = Open /\ Numbers' = Numbers /\ Open \subseteq Id
  BY <1>4, OpenStays DEF Open
<1>9. ASSUME NEW x \in Open PROVE ScreenStep(x, m) /\ OwnerStep(x, m)
  <2>1. CASE x = s
    <3>1. ScreenStep(x, m)
      BY <1>3, <1>4, <1>7, <2>1 DEF ScreenStep
    <3>2. OwnerStep(x, m)
      BY <1>1, <1>4, <1>7 DEF OwnerStep
    <3> QED
      BY <3>1, <3>2
  <2>2. CASE x # s
    <3>1. m.t \in {"attached", "data", "geo"} => m.id # x
      BY <1>7, <2>2
    <3>2. ScreenStep(x, m) /\ OwnerStep(x, m)
      BY <1>1, <1>3, <1>4, <1>8, <2>2, <3>1 DEF ScreenStep, OwnerStep
    <3> QED
      BY <3>2
  <2> QED
    BY <2>1, <2>2
<1>10. \A x \in Id : Stream(m, x) => x \in host'.attached
  BY <1>4, <1>7 DEF Stream
<1>11. HostMove(m)
  BY <1>1, <1>4, <1>7, <1>8, <1>9, <1>10 DEF HostMove
<1> QED
  BY <1>11, HostKeeps

LEMMA OwnerMove ==
    ASSUME PageInv, PageInv', ViewInv, UNCHANGED <<world, link, page>>,
           host'.live = host.live, host'.next = host.next, host'.attached = host.attached, host'.out = host.out,
           NEW s \in Id \cup {NoTab}, NEW owner \in Owner, Tells(s, <<[t |-> "geo", id |-> s, owner |-> owner]>>),
           s \in Id => host'.owner[s] = owner,
           \A x \in Id \ {s} : host'.owner[x] = host.owner[x] /\ host'.size[x] = host.size[x],
           owner = "me" => s \in host.attached /\ host.owner[s] # "me",
           ToSet(toHost') \subseteq ToSet(toHost),
           \A x \in Id : /\ ClosingOf(x) \in ToSet(toHost) => ClosingOf(x) \in ToSet(toHost')
                         /\ Resizing(x) \in ToSet(toHost) => Resizing(x) \in ToSet(toHost')
    PROVE  ViewInv'
<1> DEFINE g == [t |-> "geo", id |-> s, owner |-> owner]
           m == IF s \in host.attached THEN g ELSE TabsMessage
<1>1. /\ host \in HostState /\ TabsMessage \in Told /\ TabsMessage.t = "tabs" /\ toPage \in Seq(Told)
      /\ host.attached \subseteq host.live /\ host.live \subseteq Numbers /\ Numbers \subseteq Id /\ (host.attached # {} => Up)
  BY HostFacts
<1>2. s \in host.attached => s \in Id /\ g \in Told
  BY <1>1, ToldAre
<1>3. /\ g.t = "geo" /\ g.id = s /\ g.owner = owner
      /\ owner = "me" => g = Granting(s)
  BY DEF Granting
<1>4. toPage' = IF s \in host.attached THEN Append(toPage, g) ELSE toPage
  <2>1. s \in host.attached => toPage \o <<g>> = Append(toPage, g)
    BY <1>1, <1>2
  <2> QED
    BY <2>1 DEF Tells
<1> HIDE DEF g
<1>5. /\ m \in Told /\ (m.t = "tabs" => toPage' = toPage)
      /\ toPage' = toPage \/ (Up /\ toPage' = Append(toPage, m))
      /\ IF s \in host.attached THEN m = g /\ toPage' = Append(toPage, m) ELSE m.t = "tabs"
  BY <1>1, <1>2, <1>3, <1>4
<1> HIDE DEF m
<1>6. Open' = Open /\ Numbers' = Numbers /\ Open \subseteq Id
  BY OpenStays DEF Open
<1>7. ASSUME NEW x \in Open PROVE ScreenStep(x, m) /\ OwnerStep(x, m)
  <2>1. m.t \notin {"attached", "data"}
    BY <1>3, <1>5
  <2>2. ScreenStep(x, m)
    BY <2>1 DEF ScreenStep
  <2>3. CASE x = s
    <3>1. OwnerStep(x, m)
      BY <1>3, <1>5, <1>6, <2>3 DEF OwnerStep
    <3> QED
      BY <2>2, <3>1
  <2>4. CASE x # s
    <3>1. m.t = "geo" => m.id # x
      BY <1>3, <1>5, <2>4
    <3>2. OwnerStep(x, m)
      BY <1>6, <2>4, <3>1 DEF OwnerStep
    <3> QED
      BY <2>2, <3>2
  <2> QED
    BY <2>3, <2>4
<1>8. \A x \in Id : Stream(m, x) => x \in host'.attached
  BY <1>3, <1>5 DEF Stream
<1>9. HostMove(m)
  BY <1>1, <1>5, <1>6, <1>7, <1>8 DEF HostMove
<1> QED
  BY <1>9, HostKeeps

LEMMA PassesMove ==
    ASSUME PageInv, PageInv', ViewInv, UNCHANGED <<world, link, page>>,
           NEW s \in Id \cup {NoTab}, NEW owner \in Owner, Passes(s, owner),
           owner = "me" => s \in host.attached /\ host.owner[s] # "me",
           ToSet(toHost') \subseteq ToSet(toHost),
           \A x \in Id : /\ ClosingOf(x) \in ToSet(toHost) => ClosingOf(x) \in ToSet(toHost')
                         /\ Resizing(x) \in ToSet(toHost) => Resizing(x) \in ToSet(toHost')
    PROVE  ViewInv'
<1> DEFINE owners == [host.owner EXCEPT ![s] = owner]
<1>1. host \in HostState
  BY HostFacts
<1>2. host' = [host EXCEPT !.owner = owners]
  BY <1>1 DEF Passes, HostState
<1>3. (s \in Id => owners[s] = owner) /\ \A x \in Id \ {s} : owners[x] = host.owner[x]
  BY <1>1, HostFields
<1> HIDE DEF owners
<1>4. /\ host'.live = host.live /\ host'.attached = host.attached /\ host'.owner = owners
      /\ host'.next = host.next /\ host'.out = host.out /\ host'.size = host.size
  BY <1>1, <1>2 DEF HostState
<1>5. Tells(s, <<[t |-> "geo", id |-> s, owner |-> owner]>>)
  BY DEF Passes
<1> QED
  BY <1>3, <1>4, <1>5, OwnerMove

LEMMA OtherTakesKeeps ==
    ASSUME PageInv, PageInv', ViewInv, NEW s \in Id, NEW owner \in {"local", "other"}, OtherTakes(s, owner)
    PROVE  ViewInv'
<1> DEFINE owners == [host.owner EXCEPT ![s] = owner]
           grids == [host.size EXCEPT ![s] = "other"]
           dirty == host.dirty \/ host.size[s] # "other"
<1>1. host \in HostState /\ owner \in Owner /\ owner # "me" /\ s \in Id \cup {NoTab}
  BY HostFacts DEF Owner, Whose
<1>2. host' = [host EXCEPT !.owner = owners, !.size = grids, !.dirty = dirty, !.turns = host.turns + 1]
  BY <1>1 DEF OtherTakes, HostState
<1>3. owners[s] = owner /\ \A x \in Id \ {s} : owners[x] = host.owner[x] /\ grids[x] = host.size[x]
  BY <1>1, HostFields
<1> HIDE DEF owners, grids, dirty
<1>4. /\ host'.live = host.live /\ host'.attached = host.attached /\ host'.owner = owners
      /\ host'.next = host.next /\ host'.out = host.out /\ host'.size = grids
  BY <1>1, <1>2 DEF HostState
<1>5. Tells(s, <<[t |-> "geo", id |-> s, owner |-> owner]>>) /\ UNCHANGED <<world, link, toHost, page>>
  BY DEF OtherTakes
<1> QED
  BY <1>1, <1>3, <1>4, <1>5, OwnerMove

LEMMA OthersKeep ==
    ASSUME PageInv, PageInv', ViewInv, HostBroadcasts \/ OtherCreates \/ \E s \in Id : SessionExits(s)
    PROVE  ViewInv'
<1>1. host \in HostState /\ Open \subseteq Id /\ host.next \in 1 .. MaxSession + 1 /\ world \in Worlds
  BY HostFacts, HostFields DEF Open, PageInv, PageTypeOK
<1>2. CASE HostBroadcasts
  <2>1. /\ UNCHANGED <<world, link, toHost, page>> /\ host' = [host EXCEPT !.dirty = FALSE]
        /\ toPage' = toPage \/ (Up /\ toPage' = Append(toPage, TabsMessage))
    BY <1>2 DEF HostBroadcasts
  <2>2. /\ host'.live = host.live /\ host'.attached = host.attached /\ host'.owner = host.owner
        /\ host'.next = host.next /\ host'.out = host.out /\ host'.size = host.size
    BY <1>1, <2>1 DEF HostState
  <2> QED
    BY <2>1, <2>2, StillMove
<1>3. CASE OtherCreates
  <2>1. /\ UNCHANGED <<world, link, toHost, toPage, page>> /\ ~Unmade /\ world.rivals
        /\ host' = [host EXCEPT !.next = host.next + 1, !.live = host.live \cup {host.next}, !.dirty = TRUE]
    BY <1>3 DEF OtherCreates
  <2>2. /\ host'.live = host.live \cup {host.next} /\ host'.next = host.next + 1
        /\ host'.attached = host.attached /\ host'.out = host.out
    BY <1>1, <2>1 DEF HostState
  <2>3. host.next \in Id /\ ~Pristine
    <3>1. world.sessions \in 1 .. MaxSession /\ MaxSession \in Nat
      BY <1>1, WorldIs
    <3> QED
      BY <1>1, <2>1, <3>1 DEF Unmade, Id, Pristine
  <2> QED
    BY <2>1, <2>2, <2>3, CreateMove
<1>4. ASSUME NEW s \in Id, SessionExits(s) PROVE ViewInv'
  <2>1. s \in host.live /\ Ends(s) /\ UNCHANGED <<world, link, toHost, page>>
    BY <1>4 DEF SessionExits
  <2> QED
    BY <2>1, EndMove
<1> QED
  BY <1>2, <1>3, <1>4

LEMMA HandlesKeeps ==
    ASSUME PageInv, PageInv', ViewInv, HostHandles
    PROVE  ViewInv'
<1> DEFINE m == Head(toHost)
<1>1. Takes(m)
  BY TakesHead
<1>2. /\ host \in HostState /\ toPage \in Seq(Told) /\ UNCHANGED <<world, link, page>> /\ Up
      /\ ToSet(toHost') \subseteq ToSet(toHost) /\ m \in ToSet(toHost) /\ m \in Said
      /\ \A x \in ToSet(toHost) : x \in ToSet(toHost') \/ x = m
      /\ \A s \in Open : ClosingOf(s) \in ToSet(toHost) => s \in host.live
  BY <1>1, HostFacts DEF Takes
<1>3. \/ m.t = "list" /\ HostLists
      \/ m.t = "create" /\ (HostCreates \/ HostRefuses)
      \/ m.t = "close" /\ HostCloses(m.id)
      \/ m.t = "attach" /\ HostAttaches(m.id)
      \/ m.t = "resize" /\ HostResizes(m.id)
      \/ m.t \in {"claim", "force"} /\ (HostGrants(m.id) \/ HostDenies(m.id))
      \/ m.t = "release" /\ HostReleases(m.id)
  BY DEF HostHandles, HostDoes
<1> HIDE DEF m
<1>4. m.id \in Id \cup {NoTab} /\ Open \subseteq Id
  BY <1>2 DEF Said, Open
<1>5. /\ m.t # "close" => \A x \in Id : ClosingOf(x) \in ToSet(toHost) => ClosingOf(x) \in ToSet(toHost')
      /\ m.t # "resize" => \A x \in Id : Resizing(x) \in ToSet(toHost) => Resizing(x) \in ToSet(toHost')
      /\ \A x \in Id \ {m.id} : /\ ClosingOf(x) \in ToSet(toHost) => ClosingOf(x) \in ToSet(toHost')
                                /\ Resizing(x) \in ToSet(toHost) => Resizing(x) \in ToSet(toHost')
  BY <1>2 DEF ClosingOf, Resizing
<1>6. ASSUME UNCHANGED <<host, toPage>>, m.t = "close" => m.id \notin host.live, m.t = "resize" => host.owner[m.id] # "me"
      PROVE  ViewInv'
  <2>1. \A s \in Open : ClosingOf(s) \in ToSet(toHost) => ClosingOf(s) \in ToSet(toHost')
    BY <1>2, <1>4, <1>5, <1>6
  <2>2. \A s \in Open : Resizing(s) \in ToSet(toHost) => Resizing(s) \in ToSet(toHost') \/ host.owner[s] # "me"
    BY <1>4, <1>5, <1>6
  <2> QED
    BY <1>2, <1>6, <2>1, <2>2, StillMove
<1>7. CASE m.t = "list" /\ HostLists
  <2>1. toPage' = Append(toPage, TabsMessage) /\ UNCHANGED host
    BY <1>7 DEF HostLists
  <2> QED
    BY <1>2, <1>4, <1>5, <1>7, <2>1, StillMove
<1>8. CASE m.t = "create" /\ HostCreates
  <2> DEFINE owner == [host.owner EXCEPT ![host.next] = "me"]
  <2>1. host' = [host EXCEPT !.next = host.next + 1, !.live = host.live \cup {host.next}, !.owner = owner, !.dirty = TRUE]
    BY <1>2, <1>8 DEF HostCreates, HostState
  <2>2. /\ host'.live = host.live \cup {host.next} /\ host'.next = host.next + 1
        /\ host'.attached = host.attached /\ host'.out = host.out /\ toPage' = toPage /\ ~Unmade
    BY <1>2, <1>8, <2>1 DEF HostState, HostCreates
  <2>3. ~Pristine
    BY <1>2, <1>8 DEF ViewInv, Quiet
  <2>4. host.next \in Id
    <3>1. world.sessions \in 1 .. MaxSession /\ MaxSession \in Nat /\ host.next \in 1 .. MaxSession + 1
      BY <1>2, WorldIs, HostFields DEF PageInv, PageTypeOK
    <3> QED
      BY <2>2, <3>1 DEF Unmade, Id
  <2> QED
    BY <1>2, <1>4, <1>5, <1>8, <2>2, <2>3, <2>4, CreateMove
<1>9. CASE m.t = "create" /\ HostRefuses
  BY <1>6, <1>9 DEF HostRefuses
<1>10. CASE m.t = "close" /\ HostCloses(m.id)
  <2>1. CASE m.id \in host.live
    <3>1. Ends(m.id)
      BY <1>10, <2>1 DEF HostCloses
    <3> QED
      BY <1>2, <1>5, <2>1, <3>1, EndMove
  <2>2. CASE m.id \notin host.live
    BY <1>6, <1>10, <2>2 DEF HostCloses
  <2> QED
    BY <2>1, <2>2
<1>11. CASE m.t = "attach" /\ HostAttaches(m.id)
  <2>1. CASE m.id \in host.live
    <3>1. Attaching(m.id) \in ToSet(toHost)
      <4>1. m = Attaching(m.id)
        BY <1>2, <1>11 DEF Said, Attaching
      <4> QED
        BY <1>2, <4>1
    <3> QED
      BY <1>2, <1>5, <1>11, <2>1, <3>1, AttachMove
  <2>2. CASE m.id \notin host.live
    BY <1>6, <1>11, <2>2 DEF HostAttaches
  <2> QED
    BY <2>1, <2>2
<1>12. CASE m.t = "resize" /\ HostResizes(m.id)
  <2>1. CASE host.owner[m.id] = "me"
    <3> DEFINE grids == [host.size EXCEPT ![m.id] = "me"]
               dirty == host.dirty \/ host.size[m.id] # "me"
    <3>1. host' = [host EXCEPT !.size = grids, !.dirty = dirty] /\ toPage' = toPage
      BY <1>2, <1>12, <2>1 DEF HostResizes, HostState
    <3>2. \A x \in Id : IF x = m.id THEN grids[x] = "me" ELSE grids[x] = host.size[x]
      BY <1>2, HostFields
    <3> HIDE DEF grids, dirty
    <3>3. /\ host'.live = host.live /\ host'.attached = host.attached /\ host'.owner = host.owner
          /\ host'.next = host.next /\ host'.out = host.out /\ host'.size = grids
      BY <1>2, <3>1 DEF HostState
    <3>4. \A s \in Open : /\ host'.size[s] \in {host.size[s], "me"}
                          /\ Resizing(s) \in ToSet(toHost) =>
                                 Resizing(s) \in ToSet(toHost') \/ host'.size[s] = "me" \/ host.owner[s] # "me"
      BY <1>4, <1>5, <3>2, <3>3
    <3>5. \A s \in Open : ClosingOf(s) \in ToSet(toHost) => ClosingOf(s) \in ToSet(toHost')
      BY <1>4, <1>5, <1>12
    <3> QED
      BY <1>2, <3>1, <3>3, <3>4, <3>5, StillMove
  <2>2. CASE host.owner[m.id] # "me"
    BY <1>6, <1>12, <2>2 DEF HostResizes
  <2> QED
    BY <2>1, <2>2
<1>13. CASE m.t \in {"claim", "force"} /\ HostGrants(m.id)
  <2>1. "me" \in Owner /\ Passes(m.id, "me") /\ m.id \in host.attached /\ host.owner[m.id] # "me"
    BY <1>13 DEF Owner, Whose, HostGrants
  <2> QED
    BY <1>2, <1>4, <1>5, <1>13, <2>1, PassesMove
<1>14. CASE m.t \in {"claim", "force"} /\ HostDenies(m.id)
  BY <1>6, <1>14 DEF HostDenies
<1>15. CASE m.t = "release" /\ HostReleases(m.id)
  <2>1. CASE host.owner[m.id] = "me"
    <3>1. "local" \in Owner /\ Passes(m.id, "local")
      BY <1>15, <2>1 DEF Owner, HostReleases
    <3> QED
      BY <1>2, <1>4, <1>5, <1>15, <3>1, PassesMove
  <2>2. CASE host.owner[m.id] # "me"
    BY <1>6, <1>15, <2>2 DEF HostReleases
  <2> QED
    BY <2>1, <2>2
<1> QED
  BY <1>3, <1>7, <1>8, <1>9, <1>10, <1>11, <1>12, <1>13, <1>14, <1>15

-----------------------------------------------------------------------------
(* The connection *)

LEMMA LeadsOnce ==
    ASSUME NEW E, NEW m \in E, NEW V, NEW R, NEW a \in V, <<a, m, a>> \in R
    PROVE  Leads(<<m>>, V, R, a, a)
<1>1. <<>> \in Seq(E) /\ Append(<<>>, m) = <<m>> /\ Leads(<<>>, V, R, a, a)
  BY LeadsNowhere
<1>2. Leads(Append(<<>>, m), V, R, a, a)
  BY <1>1, LeadsOn
<1> QED
  BY <1>1, <1>2

LEMMA TabsLive ==
    ASSUME PageInv, NEW s \in Open, s \in Tabs(page) \/ s \in page.att
    PROVE  s \in host.live
<1>1. Tabs(page) \subseteq Numbers /\ page.att \subseteq Numbers
  BY DEF PageInv, PageGood, Good, Fit
<1> QED
  BY <1>1 DEF Open

LEMMA Unplugged ==
    ASSUME PageInv, PageInv', ViewInv, link' = "none", toPage' = <<>>, toHost' = <<>>,
           page'.outbox = <<>>, page'.tabs = page.tabs, page'.att = page.att, page'.shown = page.shown,
           page'.whole = page.whole, host'.attached = {}, host'.live = host.live, host'.next = host.next,
           host'.out = host.out
    PROVE  ViewInv'
<1>1. ~Up' /\ ~Pristine'
  BY DEF Up, Pristine
<1>2. ToSet(toPage') = {} /\ Sent' = {} /\ Tabs(page') = Tabs(page)
  BY NoElements DEF Sent, Tabs
<1>3. LinkFits' /\ Quiet'
  BY <1>1 DEF LinkFits, Quiet
<1>4. Open' = Open
  BY OpenStays
<1>5. ASSUME NEW s \in Open PROVE Upheld(s)'
  <2>1. Tracked(s) /\ Screened(s)
    BY DEF ViewInv, Upheld
  <2>2. Named(s)'
    <3> DEFINE V == {"in", "out"}
               a == IF s \in host.live THEN "in" ELSE "out"
    <3>1. a \in V /\ (s \in Tabs(page) => a = "in") /\ (a = "in" => s \in host.live)
      BY TabsLive
    <3> HIDE DEF a
    <3>2. Leads(<<>>, V, Naming(s), a, a)
      BY <3>1, LeadsNowhere
    <3> QED
      BY <1>2, <3>1, <3>2 DEF Named
  <2>3. Tracked(s)'
    BY <1>2, <2>1 DEF Tracked, Closed
  <2>4. Screened(s)'
    BY <1>2, <2>1 DEF Screened
  <2>5. Viewed(s)'
    BY <1>1 DEF Viewed
  <2> QED
    BY <1>1, <2>2, <2>3, <2>4, <2>5 DEF Upheld
<1> QED
  BY <1>3, <1>4, <1>5 DEF ViewInv

LEMMA DropKeeps ==
    ASSUME PageInv, PageInv', ViewInv, LinkDrops
    PROVE  ViewInv'
<1>1. /\ link = "first" /\ link' = "none" /\ toPage' = <<>> /\ toHost' = <<>> /\ page' = page
      /\ host \in HostState
  BY HostFacts DEF LinkDrops
<1>2. page.outbox = <<>>
  BY <1>1 DEF ViewInv, LinkFits, Up
<1>3. /\ host'.attached = {} /\ host'.live = host.live /\ host'.next = host.next /\ host'.out = host.out
  BY <1>1 DEF LinkDrops, HostState
<1> QED
  BY <1>1, <1>2, <1>3, Unplugged

LEMMA LostKeeps ==
    ASSUME PageInv, PageInv', ViewInv, OutboxLost
    PROVE  ViewInv'
<1>1. /\ UNCHANGED <<world, host, link, toHost, toPage>> /\ ~Up
      /\ host.attached = {} /\ toPage = <<>> /\ toHost = <<>>
  BY DEF OutboxLost, ViewInv, LinkFits
<1>2. page \in PageState /\ page' = [page EXCEPT !.outbox = <<>>]
  BY PageIsGood DEF OutboxLost
<1>3. /\ page'.outbox = <<>> /\ page'.tabs = page.tabs /\ page'.att = page.att /\ page'.shown = page.shown
      /\ page'.whole = page.whole
  BY <1>2 DEF PageState
<1>4. link' = "none"
  BY <1>1 DEF Up
<1> QED
  BY <1>1, <1>3, <1>4, Unplugged

(* A page whose connection is back marks its screens and may claim. *)
Readied(p, r) ==
    /\ r.tabs = p.tabs /\ r.att = p.att /\ r.shown = p.shown /\ r.whole = p.whole
    /\ r.heal = p.heal \cup Tabs(p) /\ r.outbox = p.outbox /\ r.says \in Seq(Said)
    /\ \A m \in ToSet(r.says) : m \in ToSet(p.says) \/ m.t = "claim"

LEMMA ReadyMarks ==
    ASSUME NEW p \in PageState
    PROVE  Readied(p, OnReady(p))
<1> DEFINE h == p.heal \cup Tabs(p)
           q == [p EXCEPT !.heal = h, !.claimed = NoTab]
<1>1. h \in SUBSET Id
  BY PageFields, TabsAreIds
<1> HIDE DEF h
<1>2. /\ q \in PageState /\ q.tabs = p.tabs /\ q.att = p.att /\ q.shown = p.shown /\ q.whole = p.whole
      /\ q.heal = h /\ q.outbox = p.outbox /\ q.says = p.says /\ q.active = p.active
  BY <1>1 DEF PageState
<1>3. OnReady(p) = ClaimActive(q)
  BY <1>1 DEF OnReady, HealTabs, ClaimAnew, PageState, h
<1> HIDE DEF q
<1>4. q.says \in Seq(Said)
  BY <1>2, PageFields
<1>5. CASE ClaimActive(q) = q
  BY <1>2, <1>3, <1>4, <1>5 DEF Readied, h
<1>6. CASE ClaimActive(q) # q
  <2> DEFINE m == [t |-> "claim", id |-> q.active]
             says == Append(q.says, m)
             r == [q EXCEPT !.says = says]
  <2>1. ClaimActive(q) = r
    BY <1>6 DEF ClaimActive, Say
  <2>2. m \in Said /\ m.t = "claim"
    BY <1>2, PageFields DEF Said, Kinds
  <2>3. says \in Seq(Said) /\ ToSet(says) = ToSet(q.says) \cup {m}
    BY <1>4, <2>2, AppendElements
  <2> HIDE DEF m, says
  <2>4. /\ r.tabs = q.tabs /\ r.att = q.att /\ r.shown = q.shown /\ r.whole = q.whole
        /\ r.heal = q.heal /\ r.outbox = q.outbox /\ r.says = says
    BY <1>2 DEF PageState
  <2> HIDE DEF r
  <2> QED
    BY <1>2, <1>3, <2>1, <2>2, <2>3, <2>4 DEF Readied, h
<1> QED
  BY <1>5, <1>6

(* What is said once there is a connection again: what waited, and of s     *)
(* only that the page follows it.                                           *)
LEMMA Resumes ==
    ASSUME PageInv, ViewInv, Reconnect
    PROVE  /\ page'.tabs = page.tabs /\ page'.att = page.att /\ page'.shown = page.shown /\ page'.whole = page.whole
           /\ world.relay => page'.heal = page.heal \cup Tabs(page)
           /\ page'.outbox = <<>>
           /\ \A s \in Id : /\ ClosingOf(s) \in Sent' <=> Closed(s)
                            /\ Attaching(s) \in Sent' => Attaching(s) \in Sent \/ s \in page.att
<1> DEFINE p == IF world.relay THEN OnReady(page) ELSE page
           kept == Chosen([s \in Id |-> s], p.att)
           again == [i \in DOMAIN kept |-> [t |-> "attach", id |-> kept[i]]]
<1>1. page \in PageState /\ page.says = <<>> /\ toHost = <<>>
  BY PageIsGood DEF Reconnect, ViewInv, LinkFits
<1>2. /\ page' = [p EXCEPT !.says = <<>>, !.outbox = <<>>]
      /\ toHost' = p.says \o p.outbox \o again
  BY DEF Reconnect
<1>3. /\ p.tabs = page.tabs /\ p.att = page.att /\ p.shown = page.shown /\ p.whole = page.whole
      /\ p.outbox = page.outbox /\ p.says \in Seq(Said) /\ p \in PageState
      /\ world.relay => p.heal = page.heal \cup Tabs(page)
      /\ \A m \in ToSet(p.says) : m.t = "claim"
  <2>1. OnReady(page) \in PageState
    BY PageIsGood, ReadyIs DEF Good, Fit
  <2>2. Readied(page, OnReady(page)) /\ ToSet(page.says) = {}
    BY <1>1, ReadyMarks, NoElements
  <2>3. page.says \in Seq(Said)
    BY <1>1, PageFields
  <2> QED
    BY <1>1, <2>1, <2>2, <2>3 DEF Readied
<1>4. ToSet(kept) \subseteq page.att /\ p.att \in SUBSET Id
  <2> DEFINE ids == [s \in Id |-> s]
  <2>1. ids \in Seq(Id)
    BY PageAssumption DEF Id
  <2> HIDE DEF ids
  <2>2. ToSet(Chosen(ids, p.att)) = ToSet(ids) \cap p.att
    BY <2>1, ChosenElements
  <2>3. kept = Chosen(ids, p.att)
    BY DEF ids
  <2>4. p.att = page.att /\ page.att \in SUBSET Id
    BY <1>1, <1>3, PageFields
  <2> HIDE DEF kept, p
  <2> QED
    BY <2>2, <2>3, <2>4
<1>5. again \in Seq(Said)
  BY <1>4, AttachesAre
<1>6. ASSUME NEW m \in ToSet(again) PROVE m.t = "attach" /\ m.id \in page.att
  <2>1. PICK i \in DOMAIN again : m = again[i]
    BY <1>6 DEF ToSet
  <2>2. DOMAIN again = DOMAIN kept /\ again[i] = [t |-> "attach", id |-> kept[i]]
    BY <2>1
  <2> HIDE DEF again, kept
  <2>3. kept[i] \in page.att
    BY <1>4, <2>1, <2>2 DEF ToSet
  <2> QED
    BY <2>1, <2>2, <2>3
<1> HIDE DEF again, kept, p
<1>7. /\ page'.tabs = page.tabs /\ page'.att = page.att /\ page'.shown = page.shown /\ page'.whole = page.whole
      /\ world.relay => page'.heal = page.heal \cup Tabs(page)
      /\ page'.outbox = <<>>
  <2>1. /\ page'.tabs = p.tabs /\ page'.att = p.att /\ page'.shown = p.shown /\ page'.whole = p.whole
        /\ page'.heal = p.heal /\ page'.outbox = <<>>
    BY <1>2, <1>3 DEF PageState
  <2> QED
    BY <1>3, <2>1
<1>8. Sent' = ToSet(p.says) \cup ToSet(page.outbox) \cup ToSet(again)
  <2>1. page.outbox \in Seq(Said) /\ p.says \o page.outbox \in Seq(Said)
    BY <1>1, <1>3, PageFields
  <2>2. ToSet(p.says \o page.outbox) = ToSet(p.says) \cup ToSet(page.outbox)
    BY <1>3, <2>1, CatElements
  <2> DEFINE says == p.says \o page.outbox
  <2>3. toHost' = says \o again /\ says \in Seq(Said)
    BY <1>2, <1>3, <2>1
  <2> HIDE DEF says
  <2>4. ToSet(toHost') = ToSet(says) \cup ToSet(again)
    BY <1>5, <2>3, CatElements
  <2> QED
    BY <1>7, <2>2, <2>4, NoElements DEF Sent, says
<1>9. Sent = ToSet(page.outbox)
  BY <1>1, NoElements DEF Sent
<1>10. ASSUME NEW s \in Id
       PROVE  /\ ClosingOf(s) \in Sent' <=> Closed(s)
              /\ Attaching(s) \in Sent' => Attaching(s) \in Sent \/ s \in page.att
  BY <1>3, <1>6, <1>8, <1>9 DEF Closed, ClosingOf, Attaching
<1> QED
  BY <1>7, <1>10

LEMMA ReconnectKeeps ==
    ASSUME PageInv, PageInv', ViewInv, Reconnect
    PROVE  ViewInv'
<1>1. /\ ~Up /\ link' = "later" /\ toPage' = <<TabsMessage>> /\ UNCHANGED <<world, host>>
      /\ host.attached = {} /\ host \in HostState /\ page \in PageState
      /\ TabsMessage \in Told /\ TabsMessage.t = "tabs" /\ ToSet(TabsMessage.tabs) = host.live
  BY HostFacts, PageIsGood DEF Reconnect, ViewInv, LinkFits
<1>2. Up' /\ ~Pristine' /\ LinkFits' /\ Quiet'
  <2>1. Up' /\ ~Pristine'
    BY <1>1 DEF Up, Pristine
  <2> QED
    BY <1>1, <2>1, Resumes DEF LinkFits, Quiet, ViewInv
<1>3. Open' = Open /\ Tabs(page') = Tabs(page) /\ ToSet(toPage') = {TabsMessage}
  <2>1. Open' = Open
    BY <1>1 DEF Open, Numbers
  <2>2. Tabs(page') = Tabs(page)
    BY Resumes DEF Tabs
  <2>3. ToSet(<<TabsMessage>>) = {TabsMessage}
    BY DEF ToSet
  <2> QED
    BY <1>1, <2>1, <2>2, <2>3
<1>4. ASSUME NEW s \in Open PROVE Upheld(s)'
  <2>1. Tracked(s) /\ Screened(s) /\ s \in Id /\ (s \in Tabs(page) => s \in host.live)
    BY TabsLive DEF ViewInv, Upheld, Open
  <2>2. \A m \in ToSet(toPage') : ~Stream(m, s)
    BY <1>1, <1>3 DEF Stream
  <2>3. Named(s)'
    <3> DEFINE a == IF s \in host.live THEN "in" ELSE "out"
    <3>1. a \in {"in", "out"} /\ (s \in Tabs(page) => a = "in") /\ (a = "in" <=> s \in host.live)
      BY <2>1
    <3> HIDE DEF a
    <3>2. <<a, TabsMessage, a>> \in Naming(s)
      BY <1>1, <3>1, NamingIs
    <3>3. Leads(toPage', {"in", "out"}, Naming(s), a, a)
      BY <1>1, <3>1, <3>2, LeadsOnce
    <3> QED
      BY <1>1, <1>3, <3>1, <3>3 DEF Named
  <2>4. Tracked(s)'
    <3>1. Closed(s)' <=> Closed(s)
      BY <2>1, Resumes DEF Closed
    <3> QED
      BY <1>1, <1>3, <2>1, <2>2, <3>1, Resumes DEF Tracked
  <2>5. Screened(s)'
    BY <1>1, <1>3, <2>1, <2>2, Resumes DEF Screened
  <2>6. Viewed(s)'
    <3> PICK e : e = View(page', s)
      OBVIOUS
    <3>1. SUFFICES ASSUME world.relay
                   PROVE  \E x \in Views : Leads(toPage', Views, Seeing(s), e, x) /\ Ended(s, x)'
      BY <1>1 DEF Viewed
    <3>2. /\ page'.shown[s] = page.shown[s] /\ page'.whole[s] = page.whole[s]
          /\ s \in page'.heal <=> s \in page.heal \/ s \in Tabs(page)
          /\ page.shown[s] \in 0 .. MaxOut /\ page.shown[s] <= host.out[s]
      <4>1. page.shown \in [Id -> 0 .. MaxOut]
        BY <1>1, PageFields
      <4> QED
        BY <2>1, <3>1, <4>1, Resumes DEF Screened
    <3>3. e = <<page.shown[s], IF page.whole[s] THEN IF s \in page'.heal THEN "both" ELSE "whole"
                               ELSE IF s \in page'.heal THEN "marked" ELSE "torn">>
      BY <3>2 DEF View, Looks
    <3>4. e[1] = page.shown[s] /\ (e[1] = 0 => e[2] \in {"whole", "both"}) /\ (e[1] # 0 => e[2] \in {"both", "marked"})
      BY <2>1, <3>2, <3>3 DEF Screened
    <3>5. e \in Views
      <4>1. e[2] \in {"whole", "both", "marked"} /\ e = <<e[1], e[2]>>
        BY <3>3, <3>4
      <4> QED
        BY <3>2, <3>4, <4>1 DEF Views
    <3>6. Ended(s, e)'
      <4> QED
        BY <1>1, <3>2, <3>4 DEF Ended
    <3>7. <<e, TabsMessage, e>> \in Seeing(s)
      <4>1. Sight(s, e, TabsMessage, e)
        BY <1>1 DEF Sight
      <4> QED
        BY <1>1, <3>5, <4>1, SeeingIs
    <3>8. Leads(toPage', Views, Seeing(s), e, e)
      BY <1>1, <3>5, <3>7, LeadsOnce
    <3> QED
      BY <3>5, <3>6, <3>8
  <2> QED
    BY <1>2, <2>3, <2>4, <2>5, <2>6 DEF Upheld
<1> QED
  BY <1>2, <1>3, <1>4 DEF ViewInv

-----------------------------------------------------------------------------
(* What the page does *)

(* The page takes m, a piece of what s says. *)
SeesMore(p, s, m) ==
    /\ m.t \in {"attached", "data"} /\ m.id = s
    /\ p.shown[s] \in {page.shown[s], m.n}
    /\ p.shown[s] = 0 => p.whole[s]
    /\ s \notin Tabs(page) => p.shown[s] = page.shown[s]
    /\ s \in Tabs(page) /\ View(page, s) \in Views => \A c : Sight(s, View(page, s), m, c) => View(p, s) = c

(* The page takes m, that says who sizes s, and answers with its size. *)
LearnsOwner(p, s, m) ==
    /\ m.t = "geo" /\ m.id = s
    /\ s \in Tabs(page) => /\ p.own[s] = (m.owner = "me") /\ p.alive[s] = page.alive[s] /\ s \in Tabs(p)
                           /\ m.owner = "me" /\ ~page.own[s] /\ page.alive[s] => Resizing(s) \in ToSet(p.says)

(* What becomes of s when the page takes the messages of M. *)
KeepsOn(p, s, M) ==
    /\ Follows(page, p, s)
    /\ s \in Tabs(p) \ Tabs(page) => \E m \in M : m.t = "tabs" /\ s \in ToSet(m.tabs)
    /\ \/ SameScreen(page, p, s) /\ \A m \in M : m.t \in {"attached", "data"} => m.id # s
       \/ \E m \in M : SeesMore(p, s, m)
    /\ \/ SameOwner(page, p, s) /\ \A m \in M : m.t = "geo" => m.id # s
       \/ \E m \in M : LearnsOwner(p, s, m)

(* A step of the page: it becomes p, having taken the messages of M. *)
PageMove(p, M) ==
    /\ PageInv /\ PageInv' /\ ViewInv /\ Does(p) /\ UNCHANGED <<world, link>>
    /\ p \in PageState /\ p.outbox = page.outbox
    /\ host'.live = host.live /\ host'.next = host.next /\ host'.attached = host.attached
    /\ host'.out = host.out /\ host'.owner = host.owner /\ host'.size = host.size
    /\ \/ toPage' = toPage /\ M = {}
       \/ Up /\ toPage # <<>> /\ toPage' = Tail(toPage) /\ M = {Head(toPage)}
    /\ world.slow \/ (Calm(page, p) /\ (p.made = {} => page.made = {}))
    /\ \A s \in Open : Dropped(page, p, s) \/ KeepsOn(p, s, M)

LEMMA PageFacts ==
    ASSUME NEW p, NEW M, PageMove(p, M)
    PROVE  /\ page'.tabs = p.tabs /\ page'.own = p.own /\ page'.alive = p.alive /\ page'.shown = p.shown
           /\ page'.whole = p.whole /\ page'.heal = p.heal /\ page'.att = p.att /\ page'.made = p.made
           /\ page'.creating = p.creating /\ Tabs(page') = Tabs(p)
           /\ Sent' = Sent \cup ToSet(p.says) /\ (Up => ToSet(toHost') = ToSet(toHost) \cup ToSet(p.says))
           /\ (Up' <=> Up) /\ Open' = Open /\ toPage \in Seq(Told) /\ ToSet(toPage') \subseteq ToSet(toPage)
           /\ ToSet(toPage) \subseteq ToSet(toPage') \cup M
           /\ page \in PageState /\ host \in HostState /\ ToSet(page.says) = {}
           /\ (Up => page'.outbox = page.outbox) /\ (~Up => toHost' = toHost /\ toPage' = toPage)
<1>1. /\ p \in PageState /\ Does(p) /\ page \in PageState /\ page.says = <<>> /\ toHost \in Seq(Said)
      /\ toPage \in Seq(Told) /\ host \in HostState /\ (Up' <=> Up) /\ p.outbox = page.outbox
  BY PageIsGood, HostFacts DEF PageMove, Up
<1>2. p.says \in Seq(Said) /\ page.outbox \in Seq(Said) /\ ToSet(page.says) = {}
  BY <1>1, PageFields, NoElements
<1> DEFINE o == IF Up THEN page.outbox ELSE page.outbox \o p.says
<1>3. page' = [p EXCEPT !.says = <<>>, !.outbox = o] /\ toHost' = IF Up THEN toHost \o p.says ELSE toHost
  BY <1>1 DEF Does
<1>4. ToSet(o) = IF Up THEN ToSet(page.outbox) ELSE ToSet(page.outbox) \cup ToSet(p.says)
  <2> DEFINE c == page.outbox \o p.says
  <2>1. ToSet(c) = ToSet(page.outbox) \cup ToSet(p.says)
    BY <1>2, CatElements
  <2> HIDE DEF c
  <2>2. o = IF Up THEN page.outbox ELSE c
    BY DEF c
  <2> QED
    BY <2>1, <2>2
<1>5. ToSet(toHost') = IF Up THEN ToSet(toHost) \cup ToSet(p.says) ELSE ToSet(toHost)
  <2> DEFINE c == toHost \o p.says
  <2>1. ToSet(c) = ToSet(toHost) \cup ToSet(p.says)
    BY <1>1, <1>2, CatElements
  <2>2. toHost' = IF Up THEN c ELSE toHost
    BY <1>3
  <2> HIDE DEF c, o
  <2> QED
    BY <2>1, <2>2
<1>6. Up => o = page.outbox
  OBVIOUS
<1> HIDE DEF o
<1>7. /\ page'.tabs = p.tabs /\ page'.own = p.own /\ page'.alive = p.alive /\ page'.shown = p.shown
      /\ page'.whole = p.whole /\ page'.heal = p.heal /\ page'.att = p.att /\ page'.made = p.made
      /\ page'.creating = p.creating /\ page'.outbox = o
  BY <1>1, <1>3 DEF PageState
<1>8. Sent' = Sent \cup ToSet(p.says)
  BY <1>4, <1>5, <1>7 DEF Sent
<1>9. Tabs(page') = Tabs(p)
  BY <1>7 DEF Tabs
<1>10. Open' = Open
  BY OpenStays DEF PageMove
<1>11. ToSet(toPage') \subseteq ToSet(toPage) /\ ToSet(toPage) \subseteq ToSet(toPage') \cup M
  BY <1>1, TailElements DEF PageMove
<1>12. ~Up => toHost' = toHost /\ toPage' = toPage
  BY <1>3 DEF PageMove
<1> QED
  BY <1>1, <1>2, <1>5, <1>6, <1>7, <1>8, <1>9, <1>10, <1>11, <1>12

LEMMA PageLink ==
    ASSUME NEW p, NEW M, PageMove(p, M)
    PROVE  LinkFits' /\ Quiet' /\ (Pristine' => Pristine)
<1>1. LinkFits
  BY DEF PageMove, ViewInv
<1>2. host'.attached = host.attached /\ host'.live = host.live /\ world' = world /\ link' = link
  BY DEF PageMove
<1>3. LinkFits'
  BY <1>1, <1>2, PageFacts DEF LinkFits
<1>4. ASSUME Pristine' PROVE Pristine /\ \A m \in ToSet(toHost') : m.t # "create"
  <2>1. link = "first" /\ ~world.rivals /\ ~world.slow /\ p.made = {} /\ p.creating = <<>>
    BY <1>2, <1>4, PageFacts DEF Pristine
  <2>2. /\ page.made = {} /\ page.creating = <<>>
        /\ \A m \in ToSet(p.says) : m.t = "create" => m \in ToSet(page.says)
    BY <2>1 DEF PageMove, Calm
  <2>3. Pristine /\ Up
    BY <2>1, <2>2 DEF Pristine, Up
  <2>4. \A m \in ToSet(toHost) : m.t # "create"
    BY <2>3 DEF PageMove, ViewInv, Quiet
  <2> QED
    BY <2>2, <2>3, <2>4, PageFacts
<1> QED
  BY <1>3, <1>4 DEF Quiet

LEMMA DroppedPage ==
    ASSUME NEW p, NEW M, PageMove(p, M), NEW s \in Open, Dropped(page, p, s)
    PROVE  Upheld(s)'
<1>1. /\ s \in Tabs(page) /\ s \notin Tabs(page') /\ s \notin page'.att /\ ClosingOf(s) \in ToSet(p.says)
      /\ page'.shown[s] = 0 /\ page'.whole[s] /\ s \in Id
      /\ host'.live = host.live /\ host'.out = host.out /\ toPage \in Seq(Told)
  BY PageFacts DEF Dropped, Open, PageMove
<1>2. Closed(s)' /\ s \in host.live /\ Upheld(s)
  <2>1. Closed(s)'
    BY <1>1, PageFacts DEF Closed
  <2>2. PageInv /\ ViewInv
    BY DEF PageMove
  <2> QED
    BY <1>1, <2>1, <2>2, TabsLive DEF ViewInv
<1>3. Named(s)'
  <2>1. PICK a \in {"in", "out"}, b \in {"in", "out"} :
            Leads(toPage, {"in", "out"}, Naming(s), a, b) /\ (b = "in" => s \in host.live)
    BY <1>2 DEF Upheld, Named
  <2>2. \E d \in {"in", "out"} : Leads(toPage', {"in", "out"}, Naming(s), d, b)
    <3>1. CASE toPage' = toPage
      BY <2>1, <3>1
    <3>2. CASE toPage # <<>> /\ toPage' = Tail(toPage)
      <4> DEFINE V == {"in", "out"}
      <4>1. a \in V /\ b \in V /\ Leads(toPage, V, Naming(s), a, b)
        BY <2>1
      <4> HIDE DEF V
      <4>2. PICK d \in V : Leads(Tail(toPage), V, Naming(s), d, b)
        BY <1>1, <3>2, <4>1, LeadsFrom
      <4>3. Leads(toPage', V, Naming(s), d, b)
        BY <3>2, <4>2
      <4> USE DEF V
      <4> QED
        BY <4>2, <4>3
    <3> QED
      BY <3>1, <3>2 DEF PageMove
  <2> QED
    BY <1>1, <2>1, <2>2 DEF Named
<1>4. Tracked(s)'
  BY <1>1, <1>2 DEF Tracked
<1>5. Screened(s)'
  <2>1. host.out[s] \in Nat
    BY <1>1, PageFacts, HostFields, PageAssumption
  <2>2. ToSet(toPage') \subseteq ToSet(toPage)
    BY PageFacts
  <2> QED
    BY <1>1, <1>2, <2>1, <2>2 DEF Upheld, Screened
<1> QED
  BY <1>2, <1>3, <1>4, <1>5 DEF Upheld, Viewed, Owned

(* What is known of a session the page keeps. *)
LEMMA KeptFacts ==
    ASSUME NEW p, NEW M, PageMove(p, M), NEW s \in Open, KeepsOn(p, s, M)
    PROVE  /\ Upheld(s) /\ s \in Id /\ (Closed(s)' <=> Closed(s))
           /\ s \in Tabs(page) => s \in Tabs(p)
           /\ ~Closed(s) => \A m \in M : Stream(m, s) => s \in Tabs(page)
           /\ M \subseteq ToSet(toPage)
<1>1. Upheld(s) /\ s \in Id
  BY DEF PageMove, ViewInv, Open
<1>2. Closed(s)' <=> Closed(s)
  BY PageFacts DEF KeepsOn, Follows, Closed
<1>3. M \subseteq ToSet(toPage)
  <2>1. toPage \in Seq(Told)
    BY PageFacts
  <2> QED
    BY <2>1, TailElements DEF PageMove
<1>4. ~Closed(s) => \A m \in M : Stream(m, s) => s \in Tabs(page)
  BY <1>1, <1>3 DEF Upheld, Tracked
<1> QED
  BY <1>1, <1>2, <1>3, <1>4 DEF KeepsOn, Follows

LEMMA NamedPage ==
    ASSUME NEW p, NEW M, PageMove(p, M), NEW s \in Open, KeepsOn(p, s, M)
    PROVE  Named(s)'
<1> DEFINE V == {"in", "out"}
<1>1. /\ Named(s) /\ (s \in Tabs(page) => s \in Tabs(p)) /\ Tabs(page') = Tabs(p) /\ host'.live = host.live
      /\ toPage \in Seq(Told)
      /\ s \in Tabs(p) \ Tabs(page) => \E m \in M : m.t = "tabs" /\ s \in ToSet(m.tabs)
  BY KeptFacts, PageFacts DEF Upheld, PageMove, KeepsOn
<1>2. PICK a \in V, b \in V :
          /\ Leads(toPage, V, Naming(s), a, b)
          /\ s \in Tabs(page) => a = "in"
          /\ b = "in" => s \in host.live
  BY <1>1 DEF Named
<1>3. CASE toPage' = toPage /\ M = {}
  <2>1. s \in Tabs(page') => a = "in"
    BY <1>1, <1>2, <1>3
  <2> QED
    BY <1>1, <1>2, <1>3, <2>1 DEF Named
<1>4. CASE toPage # <<>> /\ toPage' = Tail(toPage) /\ M = {Head(toPage)}
  <2> DEFINE m == Head(toPage)
  <2>1. m \in Told
    BY <1>1, <1>4
  <2> HIDE DEF m, V
  <2>2. PICK d \in V : <<a, m, d>> \in Naming(s) /\ Leads(toPage', V, Naming(s), d, b)
    BY <1>1, <1>2, <1>4, LeadsFrom DEF m
  <2> USE DEF V
  <2>3. IF m.t # "tabs" THEN d = a ELSE IF s \in ToSet(m.tabs) THEN d = "in" ELSE a = "out" /\ d = "out"
    BY <2>1, <2>2, NamingIs
  <2>4. s \in Tabs(page') => d = "in"
    BY <1>1, <1>2, <1>4, <2>3 DEF m
  <2> QED
    BY <1>1, <1>2, <2>2, <2>4 DEF Named
<1> QED
  BY <1>3, <1>4 DEF PageMove

LEMMA TrackedPage ==
    ASSUME NEW p, NEW M, PageMove(p, M), NEW s \in Open, KeepsOn(p, s, M)
    PROVE  Tracked(s)'
<1>1. /\ Tracked(s) /\ (Closed(s)' <=> Closed(s)) /\ (s \in Tabs(page) => s \in Tabs(p))
      /\ Tabs(page') = Tabs(p) /\ page'.att = p.att /\ Sent' = Sent \cup ToSet(p.says) /\ ToSet(page.says) = {}
      /\ host'.live = host.live /\ host'.attached = host.attached /\ ToSet(toPage') \subseteq ToSet(toPage)
  BY KeptFacts, PageFacts DEF Upheld, PageMove
<1>2. /\ s \in page.att => s \in p.att
      /\ s \in p.att => s \in page.att \/ s \in Tabs(p)
      /\ Attaching(s) \in ToSet(p.says) => Attaching(s) \in ToSet(page.says) \/ s \in p.att
  BY DEF KeepsOn, Follows
<1>3. (s \in p.att => s \in Tabs(p)) /\ (Closed(s) => s \in host.live)
  BY <1>1, <1>2 DEF Tracked
<1>4. ASSUME ~Closed(s)
      PROVE  /\ Attaching(s) \in Sent' => s \in p.att
             /\ s \notin Tabs(p) => s \notin host.attached /\ \A m \in ToSet(toPage') : ~Stream(m, s)
  BY <1>1, <1>2, <1>4 DEF Tracked
<1> QED
  BY <1>1, <1>3, <1>4 DEF Tracked

LEMMA ScreenedPage ==
    ASSUME NEW p, NEW M, PageMove(p, M), NEW s \in Open, KeepsOn(p, s, M)
    PROVE  Screened(s)'
<1>1. /\ Screened(s) /\ (s \in Tabs(page) => s \in Tabs(p)) /\ M \subseteq ToSet(toPage)
      /\ Tabs(page') = Tabs(p) /\ page'.shown = p.shown /\ page'.whole = p.whole
      /\ host'.out = host.out /\ ToSet(toPage') \subseteq ToSet(toPage)
  BY KeptFacts, PageFacts DEF Upheld, PageMove
<1>2. ASSUME NEW m \in M, SeesMore(p, s, m)
      PROVE  m.n <= host.out[s]
  <2>1. Stream(m, s) /\ m.t \in {"attached", "data"} /\ m \in ToSet(toPage)
    BY <1>1, <1>2 DEF SeesMore, Stream
  <2>2. host.out[s] \in Nat
    BY KeptFacts, PageFacts, HostFields, PageAssumption
  <2> QED
    BY <1>1, <2>1, <2>2 DEF Screened
<1>3. /\ p.shown[s] <= host.out[s]
      /\ p.shown[s] = 0 => p.whole[s]
      /\ s \notin Tabs(page) => p.shown[s] = 0
  BY <1>1, <1>2 DEF KeepsOn, SameScreen, SeesMore, Screened
<1> QED
  BY <1>1, <1>3 DEF Screened

LEMMA ViewedPage ==
    ASSUME NEW p, NEW M, PageMove(p, M), NEW s \in Open, KeepsOn(p, s, M)
    PROVE  Viewed(s)'
<1>1. /\ Viewed(s) /\ (Closed(s)' <=> Closed(s)) /\ (Up' <=> Up) /\ world' = world /\ toPage \in Seq(Told)
      /\ host'.attached = host.attached /\ host'.out = host.out /\ M \subseteq ToSet(toPage)
      /\ ~Closed(s) => \A m \in M : Stream(m, s) => s \in Tabs(page)
  BY KeptFacts, PageFacts DEF Upheld, PageMove
<1>2. View(page', s) = View(p, s)
  BY PageFacts DEF View, Looks
<1>3. SUFFICES ASSUME world.relay, Up, ~Closed(s)
               PROVE  \E e \in Views : Leads(toPage', Views, Seeing(s), View(p, s), e) /\ Ended(s, e)'
  BY <1>1, <1>2 DEF Viewed
<1>4. PICK e \in Views : Leads(toPage, Views, Seeing(s), View(page, s), e) /\ Ended(s, e)
  BY <1>1, <1>3 DEF Viewed
<1>5. View(page, s) \in Views /\ Ended(s, e)'
  <2>1. View(page, s) \in Views
    BY <1>1, <1>4, LeadsEnds
  <2>2. Ended(s, e)'
    BY <1>1, <1>4 DEF Ended
  <2> QED
    BY <2>1, <2>2
<1>6. ASSUME SameScreen(page, p, s) PROVE View(p, s) = View(page, s)
  BY <1>6 DEF SameScreen, View, Looks
<1>7. CASE toPage' = toPage /\ M = {}
  <2>1. View(p, s) = View(page, s)
    BY <1>6, <1>7 DEF KeepsOn
  <2> QED
    BY <1>4, <1>5, <1>7, <2>1
<1>8. CASE toPage # <<>> /\ toPage' = Tail(toPage) /\ M = {Head(toPage)}
  <2> DEFINE m == Head(toPage)
  <2>1. m \in Told /\ m \in M
    BY <1>1, <1>8
  <2> HIDE DEF m
  <2>2. PICK d \in Views : <<View(page, s), m, d>> \in Seeing(s) /\ Leads(toPage', Views, Seeing(s), d, e)
    BY <1>1, <1>4, <1>8, LeadsFrom DEF m
  <2>3. Sight(s, View(page, s), m, d)
    BY <1>5, <2>1, <2>2, SeeingIs
  <2>4. View(p, s) = d
    <3>1. CASE SameScreen(page, p, s) /\ \A x \in M : x.t \in {"attached", "data"} => x.id # s
      <4>1. d = View(page, s)
        BY <2>1, <2>3, <3>1 DEF Sight
      <4> QED
        BY <1>6, <3>1, <4>1
    <3>2. CASE \E x \in M : SeesMore(p, s, x)
      <4>1. SeesMore(p, s, m)
        BY <1>8, <3>2 DEF m
      <4>2. s \in Tabs(page)
        BY <1>1, <1>3, <2>1, <4>1 DEF SeesMore, Stream
      <4> QED
        BY <1>5, <2>3, <4>1, <4>2 DEF SeesMore
    <3> QED
      BY <3>1, <3>2 DEF KeepsOn
  <2> QED
    BY <1>5, <2>2, <2>4
<1> QED
  BY <1>7, <1>8 DEF PageMove

LEMMA OwnedPage ==
    ASSUME NEW p, NEW M, PageMove(p, M), NEW s \in Open, KeepsOn(p, s, M), Pristine'
    PROVE  Owned(s)'
<1> DEFINE V == {"mine", "theirs"}
<1>1. /\ Owned(s) /\ (Closed(s)' <=> Closed(s)) /\ Up /\ p.made = {} /\ toPage \in Seq(Told)
      /\ page'.own = p.own /\ page'.alive = p.alive /\ Tabs(page') = Tabs(p)
      /\ host'.attached = host.attached /\ host'.owner = host.owner /\ host'.size = host.size
      /\ ToSet(toHost') = ToSet(toHost) \cup ToSet(p.says)
      /\ ToSet(toPage) \subseteq ToSet(toPage') \cup M
      /\ ~Closed(s) => \A m \in M : Stream(m, s) => s \in Tabs(page)
      /\ s \in Tabs(page) => s \in Tabs(p)
  <2>1. Pristine /\ p.made = {} /\ Up
    BY PageLink, PageFacts DEF Pristine, Up
  <2> QED
    BY <2>1, KeptFacts, PageFacts DEF Upheld, PageMove
<1>2. SUFFICES ASSUME ~Closed(s) PROVE Owned(s)'
  BY <1>1 DEF Owned
<1>3. /\ s \in Tabs(page) => page.alive[s]
      /\ s \notin Tabs(page) => ~page.own[s]
      /\ host.owner[s] = "me" =>
             /\ s \in host.attached
             /\ host.size[s] = "me" \/ Resizing(s) \in ToSet(toHost) \/ Granting(s) \in ToSet(toPage)
      /\ Leads(toPage, V, Trusting(s), Belief(page, s), Fact(s))
  BY <1>1, <1>2 DEF Owned
<1>4. \/ SameOwner(page, p, s) /\ (\A m \in M : m.t = "geo" => m.id # s)
      \/ \E m \in M : LearnsOwner(p, s, m)
  BY DEF KeepsOn
<1>5. ASSUME NEW m \in M, LearnsOwner(p, s, m)
      PROVE  /\ s \in Tabs(page) /\ p.own[s] = (m.owner = "me") /\ p.alive[s] /\ s \in Tabs(p)
             /\ m.owner = "me" /\ ~page.own[s] => Resizing(s) \in ToSet(p.says)
  <2>1. s \in Tabs(page)
    BY <1>1, <1>2, <1>5 DEF LearnsOwner, Stream
  <2> QED
    BY <1>3, <1>5, <2>1 DEF LearnsOwner
<1>6. ASSUME SameOwner(page, p, s) PROVE p.own[s] = page.own[s] /\ (s \in Tabs(p) => p.alive[s])
  BY <1>1, <1>3, <1>6 DEF SameOwner
<1>7. /\ s \in Tabs(p) => p.alive[s]
      /\ s \notin Tabs(p) => ~p.own[s]
  <2>1. CASE SameOwner(page, p, s)
    BY <1>1, <1>3, <1>6, <2>1
  <2>2. CASE \E m \in M : LearnsOwner(p, s, m)
    BY <1>5, <2>2
  <2> QED
    BY <1>4, <2>1, <2>2
<1>8. ASSUME Leads(toPage', V, Trusting(s), Belief(p, s), Fact(s)),
             Granting(s) \in M /\ host.owner[s] = "me" => Resizing(s) \in ToSet(p.says)
      PROVE  Owned(s)'
  <2>1. Belief(p, s) = Belief(page, s)' /\ Fact(s) = Fact(s)'
    BY <1>1 DEF Belief, Fact
  <2>2. Leads(toPage', V, Trusting(s), Belief(page, s)', Fact(s)')
    BY <1>8, <2>1
  <2>3. host.owner[s] = "me" =>
            host.size[s] = "me" \/ Resizing(s) \in ToSet(toHost') \/ Granting(s) \in ToSet(toPage')
    BY <1>1, <1>3, <1>8
  <2>4. host.owner[s] = "me" => s \in host.attached
    BY <1>3
  <2> QED
    BY <1>1, <1>7, <2>2, <2>3, <2>4 DEF Owned
<1>9. CASE toPage' = toPage /\ M = {}
  <2>1. Belief(p, s) = Belief(page, s)
    BY <1>4, <1>6, <1>9 DEF Belief
  <2> QED
    BY <1>3, <1>8, <1>9, <2>1
<1>10. CASE toPage # <<>> /\ toPage' = Tail(toPage) /\ M = {Head(toPage)}
  <2> DEFINE m == Head(toPage)
  <2>1. m \in Told /\ M = {m} /\ Belief(page, s) \in V
    BY <1>1, <1>10 DEF Belief
  <2> HIDE DEF m, V
  <2>2. PICK d \in V : <<Belief(page, s), m, d>> \in Trusting(s) /\ Leads(toPage', V, Trusting(s), d, Fact(s))
    BY <1>1, <1>3, <1>10, LeadsFrom DEF m
  <2> USE DEF V
  <2>3. IF m.t = "geo" /\ m.id = s
        THEN IF m.owner = "me" THEN Belief(page, s) = "theirs" /\ d = "mine" ELSE d = "theirs"
        ELSE d = Belief(page, s)
    BY <2>1, <2>2, TrustingIs
  <2>4. CASE SameOwner(page, p, s) /\ \A x \in M : x.t = "geo" => x.id # s
    <3>1. d = Belief(p, s) /\ Granting(s) # m
      BY <1>6, <2>1, <2>3, <2>4 DEF Belief, Granting
    <3> QED
      BY <1>8, <2>1, <2>2, <3>1
  <2>5. CASE LearnsOwner(p, s, m)
    <3>1. m.t = "geo" /\ m.id = s
      BY <2>5 DEF LearnsOwner
    <3>2. d = Belief(p, s)
      BY <1>5, <2>1, <2>3, <2>5, <3>1 DEF Belief
    <3>3. m = Granting(s) => Resizing(s) \in ToSet(p.says)
      BY <1>5, <2>1, <2>3, <2>5, <3>1 DEF Belief, Granting
    <3> QED
      BY <1>8, <2>1, <2>2, <3>2, <3>3
  <2> QED
    BY <1>4, <2>1, <2>4, <2>5
<1> QED
  BY <1>9, <1>10 DEF PageMove

LEMMA PageKeeps ==
    ASSUME NEW p, NEW M, PageMove(p, M)
    PROVE  ViewInv'
<1>1. LinkFits' /\ Quiet' /\ Open' = Open
  BY PageLink, PageFacts
<1>2. ASSUME NEW s \in Open PROVE Upheld(s)'
  <2>1. CASE Dropped(page, p, s)
    BY <2>1, DroppedPage
  <2>2. CASE KeepsOn(p, s, M)
    BY <2>2, NamedPage, TrackedPage, ScreenedPage, ViewedPage, OwnedPage DEF Upheld
  <2> QED
    BY <2>1, <2>2 DEF PageMove
<1> QED
  BY <1>1, <1>2 DEF ViewInv

(* What the page does of its own, dropping the sessions of D at most. *)
LEMMA SelfKeeps ==
    ASSUME PageInv, PageInv', ViewInv, NEW p, Acts(p) \/ Turn(p), NEW D, Lightly(page, p, D),
           p.outbox = page.outbox, Tabs(p) \subseteq Tabs(page), world.slow \/ Calm(page, p),
           \A s \in D : Dropped(page, p, s)
    PROVE  ViewInv'
<1>1. Does(p) /\ UNCHANGED <<world, link, toPage>> /\ p \in PageState /\ (p.made = {} => page.made = {})
  BY DEF Acts, Turn, Lightly
<1>2. /\ host'.live = host.live /\ host'.next = host.next /\ host'.attached = host.attached
      /\ host'.out = host.out /\ host'.owner = host.owner /\ host'.size = host.size
  <2>1. CASE Acts(p)
    BY <2>1 DEF Acts
  <2>2. CASE Turn(p)
    <3>1. host \in HostState
      BY HostFacts
    <3>2. host' = [host EXCEPT !.turns = host.turns + 1]
      BY <2>2, <3>1 DEF Turn, HostState
    <3> QED
      BY <3>1, <3>2 DEF HostState
  <2> QED
    BY <2>1, <2>2
<1>3. ASSUME NEW s \in Open PROVE Dropped(page, p, s) \/ KeepsOn(p, s, {})
  <2>1. CASE s \in D
    BY <2>1
  <2>2. CASE s \notin D
    <3>1. Spared(page, p, s)
      BY <2>2 DEF Lightly, Open
    <3> QED
      BY <3>1 DEF Spared, KeepsOn
  <2> QED
    BY <2>1, <2>2
<1>4. PageMove(p, {})
  BY <1>1, <1>2, <1>3 DEF PageMove
<1> QED
  BY <1>4, PageKeeps

LEMMA GentleKeeps ==
    ASSUME PageInv, PageInv', ViewInv, NEW p, Acts(p) \/ Turn(p), Gently(page, p, {}),
           p.outbox = page.outbox, Tabs(p) \subseteq Tabs(page)
    PROVE  ViewInv'
BY SelfKeeps DEF Gently

LEMMA TimesOutKeeps ==
    ASSUME PageInv, PageInv', ViewInv, CreateTimesOut
    PROVE  ViewInv'
<1> DEFINE p == [page EXCEPT !.creating = Tail(page.creating), !.late = TRUE]
<1>1. /\ page \in PageState /\ page.creating \in Seq(SUBSET Id) /\ page.creating # <<>> /\ Acts(p) /\ world.slow
  BY PageIsGood, PageFields DEF CreateTimesOut
<1>2. Tail(page.creating) \in Seq(SUBSET Id)
  BY <1>1
<1>3. /\ p \in PageState /\ p.says = page.says /\ p.outbox = page.outbox
      /\ p.tabs = page.tabs /\ p.att = page.att /\ p.alive = page.alive /\ p.shown = page.shown
      /\ p.whole = page.whole /\ p.heal = page.heal /\ p.own = page.own /\ p.made = page.made
  BY <1>1, <1>2 DEF PageState
<1> HIDE DEF p
<1>4. Lightly(page, p, {})
  <2>1. \A s : Spared(page, p, s)
    BY <1>3, SameSpared
  <2> QED
    BY <1>3, <2>1 DEF Lightly
<1>5. Tabs(p) \subseteq Tabs(page)
  BY <1>3 DEF Tabs
<1> QED
  BY <1>1, <1>3, <1>4, <1>5, SelfKeeps

LEMMA ListTimesOutKeeps ==
    ASSUME PageInv, PageInv', ViewInv, ListTimesOut
    PROVE  ViewInv'
<1> DEFINE p == Listed(page, <<>>)
           L == host.live
           A == Reached
           B == Numbers
<1>1. <<>> \in Seq(Id) /\ Acts(p) /\ Good(page, L, A, B) /\ page \in PageState
  BY PageIsGood DEF ListTimesOut
<1> HIDE DEF L, A, B
<1>2. Stays(page, p) /\ Tabs(p) = Tabs(page)
  BY <1>1, ListedIs
<1>3. Gently(page, p, {})
  BY <1>1, ListedGently
<1> HIDE DEF p
<1> QED
  BY <1>1, <1>2, <1>3, GentleKeeps DEF Stays

LEMMA FocusKeeps ==
    ASSUME PageInv, PageInv', ViewInv, Focus \/ Blur
    PROVE  ViewInv'
<1> DEFINE p == IF Focus THEN [page EXCEPT !.focus = TRUE] ELSE [page EXCEPT !.focus = FALSE, !.mods = NoTab]
           q == IF Focus THEN ClaimActive(p) ELSE ReleaseClaimed(p)
<1>1. page \in PageState /\ Turn(q)
  BY PageIsGood DEF Focus, Blur
<1>2. /\ p \in PageState /\ p.says = page.says /\ p.outbox = page.outbox
      /\ p.tabs = page.tabs /\ p.att = page.att /\ p.alive = page.alive /\ p.shown = page.shown
      /\ p.whole = page.whole /\ p.heal = page.heal /\ p.own = page.own /\ p.made = page.made
      /\ p.creating = page.creating
  BY <1>1 DEF PageState
<1> HIDE DEF p
<1>3. Little(p, q) /\ Gently(p, q, {})
  BY <1>2, ClaimsLittle, ReleasesLittle, ClaimGently, ReleaseGently
<1> HIDE DEF q
<1>4. Gently(page, p, {})
  BY <1>1, <1>2, Untouched
<1>5. Gently(page, q, {})
  BY <1>3, <1>4, GentlyChain
<1>6. q.outbox = page.outbox /\ Tabs(q) = Tabs(page)
  BY <1>2, <1>3 DEF Little, Rest, Tabs
<1> QED
  BY <1>1, <1>5, <1>6, GentleKeeps

LEMMA ModsKeep ==
    ASSUME PageInv, PageInv', ViewInv, PressModifier \/ TapKey
    PROVE  ViewInv'
<1> DEFINE s == IF PressModifier THEN page.active ELSE NoTab
           p == [page EXCEPT !.mods = s]
<1>1. page \in PageState /\ s \in Id \cup {NoTab} /\ Acts(p)
  BY PageIsGood, PageFields DEF PressModifier, TapKey
<1> HIDE DEF s
<1>2. /\ p \in PageState /\ p.says = page.says /\ p.outbox = page.outbox
      /\ p.tabs = page.tabs /\ p.att = page.att /\ p.alive = page.alive /\ p.shown = page.shown
      /\ p.whole = page.whole /\ p.heal = page.heal /\ p.own = page.own /\ p.made = page.made
      /\ p.creating = page.creating
  BY <1>1 DEF PageState
<1> HIDE DEF p
<1>3. Gently(page, p, {}) /\ Tabs(p) = Tabs(page)
  BY <1>1, <1>2, Untouched DEF Tabs
<1> QED
  BY <1>1, <1>2, <1>3, GentleKeeps

LEMMA UserKeeps ==
    ASSUME PageInv, PageInv', ViewInv,
           \/ Poll \/ Chip \/ UserCreates
           \/ \E s \in Id : UserSwitches(s) \/ UserCloses(s)
    PROVE  ViewInv'
<1> DEFINE L == host.live
           A == Reached
           B == Numbers
<1>1. Good(page, L, A, B) /\ page \in PageState
  BY PageIsGood
<1> HIDE DEF L, A, B
<1>2. ASSUME NEW p, Turn(p), Little(page, p), Gently(page, p, {}) PROVE ViewInv'
  <2>1. p.outbox = page.outbox /\ Tabs(p) = Tabs(page)
    BY <1>2 DEF Little, Rest, Tabs
  <2> QED
    BY <1>2, <2>1, GentleKeeps
<1>3. CASE Poll
  <2> DEFINE p == ClaimActive(page)
  <2>1. Little(page, p) /\ Turn(p) /\ Gently(page, p, {})
    BY <1>1, <1>3, ClaimsLittle, ClaimGently DEF Poll
  <2> HIDE DEF p
  <2> QED
    BY <1>2, <2>1
<1>4. CASE Chip
  <2> DEFINE t == IF page.own[page.active] THEN "release" ELSE "force"
             p == Say(page, t, page.active)
  <2>1. t \in Kinds \ {"attach", "create", "close"} /\ page.active \in Id \cup {NoTab}
    BY <1>1, PageFields DEF Kinds
  <2>2. Turn(p)
    BY <1>4 DEF Chip
  <2> HIDE DEF t
  <2>3. Little(page, p) /\ Gently(page, p, {})
    BY <1>1, <2>1, SaysLittle, SayGently
  <2> HIDE DEF p
  <2> QED
    BY <1>2, <2>2, <2>3
<1>5. CASE UserCreates
  <2> DEFINE p == CreateTab(page)
  <2>1. Turn(p) /\ Gently(page, p, {})
    BY <1>1, <1>5, CreateGently DEF UserCreates
  <2>2. Tabs(p) = Tabs(page) /\ Kept(page, p)
    BY <1>1, CreateFits DEF Good
  <2> HIDE DEF p
  <2> QED
    BY <2>1, <2>2, GentleKeeps DEF Kept
<1>6. ASSUME NEW s \in Id, UserSwitches(s) PROVE ViewInv'
  <2> DEFINE p == SwitchTab(page, s)
  <2>1. Turn(p) /\ s \in Tabs(page) /\ Gently(page, p, {})
    BY <1>1, <1>6, SwitchGently DEF UserSwitches
  <2>2. Stays(page, p) /\ Tabs(p) = Tabs(page)
    BY <1>1, <2>1, SwitchIs
  <2> HIDE DEF p
  <2> QED
    BY <2>1, <2>2, GentleKeeps DEF Stays
<1>7. ASSUME NEW s \in Id, UserCloses(s) PROVE ViewInv'
  <2> DEFINE p == CloseTab(page, s)
  <2>1. Turn(p) /\ s \in Tabs(page)
    BY <1>7 DEF UserCloses
  <2>2. Gently(page, p, {s}) /\ Dropped(page, p, s)
    BY <1>1, <2>1, CloseGently
  <2>3. Good(page, L \ {s}, A, B)
    BY <1>1 DEF Good, Fit
  <2>4. Stays(page, p) /\ Tabs(p) = Tabs(page) \ {s}
    BY <2>1, <2>3, CloseIs
  <2> HIDE DEF p
  <2> QED
    BY <2>1, <2>2, <2>4, SelfKeeps DEF Stays, Gently
<1> QED
  BY <1>3, <1>4, <1>5, <1>6, <1>7

-----------------------------------------------------------------------------
(* What the page does with a message *)

LEMMA HearKeeps ==
    ASSUME PageInv, PageInv', ViewInv, PageReceives, NEW p, p = Received(page, Head(toPage)),
           p.outbox = page.outbox, NEW D, Gently(page, p, D),
           \A s \in Open : KeepsOn(p, s, {Head(toPage)})
    PROVE  ViewInv'
<1>1. /\ Does(p) /\ UNCHANGED <<world, host, link>> /\ p \in PageState
      /\ Up /\ toPage # <<>> /\ toPage' = Tail(toPage)
      /\ Calm(page, p) /\ (p.made = {} => page.made = {})
  BY DEF PageReceives, Gently, Lightly
<1>2. PageMove(p, {Head(toPage)})
  BY <1>1 DEF PageMove
<1> QED
  BY <1>2, PageKeeps

(* A list names the sessions the page has tabs for. *)
LEMMA ListNames ==
    ASSUME PageInv, ViewInv, toPage # <<>>, Head(toPage).t = "tabs", NEW s \in Open, s \in Tabs(page) \cup page.att
    PROVE  s \in ToSet(Head(toPage).tabs)
<1> DEFINE m == Head(toPage)
           V == {"in", "out"}
<1>1. s \in Tabs(page) /\ Named(s)
  BY DEF ViewInv, Upheld, Tracked
<1>2. toPage \in Seq(Told)
  BY HostFacts
<1>3. m \in Told /\ m.t = "tabs"
  BY <1>2
<1>4. PICK b \in V : Leads(toPage, V, Naming(s), "in", b)
  BY <1>1 DEF Named
<1>5. "in" \in V
  OBVIOUS
<1> HIDE DEF m, V
<1>6. PICK d \in V : <<"in", m, d>> \in Naming(s)
  BY <1>2, <1>4, <1>5, LeadsFrom DEF m
<1>7. d \in {"in", "out"} /\ "in" \in {"in", "out"}
  BY DEF V
<1>8. s \in ToSet(m.tabs)
  BY <1>3, <1>6, <1>7, NamingIs
<1> QED
  BY <1>8 DEF m

LEMMA ReceivesKeep ==
    ASSUME PageInv, PageInv', ViewInv, PageReceives
    PROVE  ViewInv'
<1> DEFINE m == Head(toPage)
           p == Received(page, m)
           L == host.live
           A == Reached
           B == Numbers
<1>1. Good(page, L, A, B) /\ page \in PageState /\ toPage \in Seq(Told) /\ toPage # <<>>
  BY PageIsGood, HostFacts DEF PageReceives
<1>2. m \in Told /\ m \in ToSet(toPage)
  BY <1>1, TailElements, ElementsIn
<1>3. /\ m.t = "tabs" => ToSet(m.tabs) \subseteq B
      /\ m.t = "exit" => m.id \in B \ L
  BY <1>2 DEF PageInv, MessagesFit
<1>4. \A s \in Open : s \in Id /\ (m.t = "exit" => s # m.id)
  BY <1>3 DEF Open
<1>5. m.t = "tabs" => \A s \in Open : s \in Tabs(page) \cup page.att => s \in ToSet(m.tabs)
  BY <1>1, ListNames
<1>6. \A s \in Open : Screened(s) /\ (s \in page.att => s \in Tabs(page))
  BY DEF ViewInv, Upheld, Tracked
<1>7. ASSUME NEW D, Gently(page, p, D), p.outbox = page.outbox, \A s \in Open : KeepsOn(p, s, {m})
      PROVE  ViewInv'
  BY <1>7, HearKeeps
<1> HIDE DEF m, L, A, B
<1>8. CASE m.t = "tabs"
  <2>1. p = OnTabList(page, m.tabs, m.size)
    BY <1>8 DEF Received
  <2>2. PICK tabs \in Seq(Id), grids \in [Id -> Whose] : m.tabs = tabs /\ m.size = grids
    BY <1>2, <1>8 DEF Told
  <2> HIDE DEF p
  <2>3. p = OnTabList(page, tabs, grids) /\ ToSet(tabs) \subseteq B /\ Good(page, L, A, B)
    BY <1>1, <1>3, <1>8, <2>1, <2>2
  <2>4. p.outbox = page.outbox /\ Tabs(p) = ToSet(tabs)
    BY <2>3, TabListIs
  <2> DEFINE D == (Tabs(page) \cup page.att) \ ToSet(tabs)
  <2>5. Gently(page, p, D)
    BY <2>3, TabListGently
  <2>6. ASSUME NEW s \in Open PROVE KeepsOn(p, s, {m})
    <3>1. s \in Id \ D
      BY <1>4, <1>5, <1>8, <2>2
    <3>2. Spared(page, p, s)
      BY <2>5, <3>1 DEF Gently, Lightly
    <3>3. s \in Tabs(p) => m.t = "tabs" /\ s \in ToSet(m.tabs)
      BY <1>8, <2>2, <2>4
    <3> QED
      BY <1>8, <3>2, <3>3 DEF Spared, KeepsOn
  <2> HIDE DEF D
  <2> QED
    BY <1>7, <2>4, <2>5, <2>6
<1>9. CASE m.t = "exit"
  <2>1. m.id \in Id \ L
    BY <1>2, <1>3, <1>9 DEF Told
  <2>2. p = OnExit(page, m.id)
    BY <1>9 DEF Received
  <2> HIDE DEF p
  <2>3. Stays(page, p) /\ (Tabs(p) = Tabs(page) \/ Tabs(p) = Tabs(page) \ {m.id})
    BY <1>1, <2>1, <2>2, ExitIs
  <2>4. Gently(page, p, {m.id})
    BY <1>1, <2>1, <2>2, ExitGently
  <2>5. ASSUME NEW s \in Open PROVE KeepsOn(p, s, {m})
    <3>1. Spared(page, p, s)
      BY <1>4, <1>9, <2>4 DEF Gently, Lightly
    <3> QED
      BY <1>9, <2>3, <3>1 DEF Spared, KeepsOn
  <2> QED
    BY <1>7, <2>3, <2>4, <2>5 DEF Stays
<1>10. CASE m.t = "geo"
  <2>1. m.id \in Id /\ m.owner \in Owner
    BY <1>2, <1>10 DEF Told
  <2>2. PICK x \in Id, owner \in Owner : m.id = x /\ m.owner = owner
    BY <2>1
  <2>3. p = OnGeoOwnership(page, x, owner)
    BY <1>10, <2>2 DEF Received
  <2> HIDE DEF p
  <2>4. Stays(page, p) /\ Tabs(p) = Tabs(page)
    BY <1>1, <2>3, OwnershipIs
  <2>5. /\ Gently(page, p, {x}) /\ Follows(page, p, x) /\ SameScreen(page, p, x)
        /\ x \in Tabs(page) => /\ p.own[x] = (owner = "me") /\ p.alive[x] = page.alive[x] /\ x \in Tabs(p)
                               /\ owner = "me" /\ ~page.own[x] /\ page.alive[x] => Resizing(x) \in ToSet(p.says)
    BY <1>1, <2>3, GeoGently DEF Resizing
  <2>6. ASSUME NEW s \in Open PROVE KeepsOn(p, s, {m})
    <3>1. CASE s = x
      <4>1. LearnsOwner(p, s, m)
        BY <1>10, <2>2, <2>5, <3>1 DEF LearnsOwner
      <4> QED
        BY <1>10, <2>4, <2>5, <3>1, <4>1 DEF KeepsOn
    <3>2. CASE s # x
      <4>1. Spared(page, p, s)
        BY <1>4, <2>5, <3>2 DEF Gently, Lightly
      <4> QED
        BY <1>10, <2>2, <2>4, <3>2, <4>1 DEF Spared, KeepsOn
    <3> QED
      BY <3>1, <3>2
  <2> QED
    BY <1>7, <2>4, <2>5, <2>6 DEF Stays
<1>11. CASE m.t \in {"attached", "data"}
  <2>1. PICK x \in Id, n \in 0 .. MaxOut : m.id = x /\ m.n = n
    BY <1>2, <1>11 DEF Told
  <2>2. p = IF m.t = "attached" THEN OnAttached(page, x, n) ELSE OnData(page, x, n)
    BY <1>11, <2>1 DEF Received
  <2>3. p.outbox = page.outbox
    <3> HIDE DEF p
    <3>1. Stays(page, p)
      BY <1>1, <1>11, <2>2, AttachedIs, DataIs
    <3> QED
      BY <3>1 DEF Stays
  <2>4. ScreenOnly(page, p, x) /\ Shown(page, p, x, m)
    <3>1. CASE m.t = "attached"
      <4>1. LET r == OnAttached(page, x, n)
            IN  ScreenOnly(page, r, x) /\ Shown(page, r, x, m)
        BY <1>1, <2>1, <3>1, AttachedView
      <4>2. p = OnAttached(page, x, n)
        BY <2>2, <3>1
      <4> QED
        BY <4>1, <4>2
    <3>2. CASE m.t = "data"
      <4>1. LET r == OnData(page, x, n)
            IN  ScreenOnly(page, r, x) /\ Shown(page, r, x, m)
        BY <1>1, <2>1, <3>2, DataView
      <4>2. p = OnData(page, x, n)
        BY <2>2, <3>2
      <4> QED
        BY <4>1, <4>2
    <3> QED
      BY <1>11, <3>1, <3>2
  <2>5. Gently(page, p, {x}) /\ Follows(page, p, x) /\ SameOwner(page, p, x) /\ Tabs(p) = Tabs(page)
    BY <2>4 DEF ScreenOnly
  <2>6. ASSUME NEW s \in Open PROVE KeepsOn(p, s, {m})
    <3> HIDE DEF p
    <3>1. CASE s = x
      <4>1. Stream(m, s)
        BY <1>11, <2>1, <3>1 DEF Stream
      <4>2. (page.shown[s] = 0 => page.whole[s]) /\ (m.t = "data" => m.n \in 1 .. host.out[s])
        BY <1>2, <1>6, <4>1 DEF Screened
      <4>3. SeesMore(p, s, m)
        BY <1>11, <2>1, <2>4, <3>1, <4>2 DEF SeesMore, Shown
      <4> QED
        BY <1>11, <2>5, <3>1, <4>3 DEF KeepsOn
    <3>2. CASE s # x
      <4>1. Spared(page, p, s)
        BY <1>4, <2>5, <3>2 DEF Gently, Lightly
      <4> QED
        BY <1>11, <2>1, <2>5, <3>2, <4>1 DEF Spared, KeepsOn
    <3> QED
      BY <3>1, <3>2
  <2> QED
    BY <1>7, <2>3, <2>5, <2>6
<1> QED
  BY <1>2, <1>8, <1>9, <1>10, <1>11 DEF Told

-----------------------------------------------------------------------------
(* The screens and the owners: the theorems *)

LEMMA ViewStarts ==
    PageInit => ViewInv
<1> SUFFICES ASSUME PageInit PROVE ViewInv
  OBVIOUS
<1>1. PICK k \in 0 .. world.sessions - 1 :
          /\ host = [next |-> k + 1, live |-> 1 .. k, owner |-> [s \in Id |-> "local"],
                     size |-> [s \in Id |-> "other"], attached |-> {}, out |-> [s \in Id |-> 0],
                     dirty |-> FALSE, turns |-> 0]
          /\ toPage = <<[t |-> "tabs", tabs |-> [i \in 1 .. k |-> i], size |-> [s \in Id |-> "other"]]>>
  BY DEF PageInit
<1> DEFINE ids == [i \in 1 .. k |-> i]
           m == [t |-> "tabs", tabs |-> ids, size |-> [s \in Id |-> "other"]]
           l == [t |-> "list", id |-> NoTab]
<1>2. PageInv /\ world \in Worlds /\ Up /\ toHost = <<l>>
  BY PageStarts DEF PageInit, Up
<1>3. toPage \in Seq(Told) /\ toHost \in Seq(Said)
  BY <1>2 DEF PageInv, PageTypeOK
<1>4. /\ host.live = 1 .. k /\ host.next = k + 1 /\ host.attached = {}
      /\ \A s \in Id : host.owner[s] = "local" /\ host.out[s] = 0
  BY <1>1
<1>5. k \in Nat /\ MaxOut \in Nat /\ 0 \in 0 .. MaxOut
  <2>1. world.sessions \in 1 .. MaxSession /\ MaxSession \in Nat /\ MaxOut \in Nat
    BY <1>2, WorldIs
  <2> QED
    BY <2>1
<1>6. Numbers = host.live /\ Open = Id
  BY <1>4, <1>5 DEF Numbers, Open
<1>7. ToSet(ids) = host.live
  BY <1>4, <1>5 DEF ToSet
<1> HIDE DEF ids
<1>8. toPage = <<m>> /\ m.t = "tabs" /\ m.tabs = ids /\ ~(m.t \in {"geo", "attached", "data"})
  BY <1>1 DEF ids
<1> HIDE DEF m
<1>9. m \in Told
  <2>1. <<m>> \in Seq(Told) => m \in Told
    OBVIOUS
  <2> QED
    BY <1>3, <1>8, <2>1
<1>10. l.t = "list"
  OBVIOUS
<1> HIDE DEF l
<1>11. ToSet(toPage) = {m} /\ ToSet(toHost) = {l}
  <2>1. \A x : ToSet(<<x>>) = {x}
    BY DEF ToSet
  <2>2. ToSet(<<m>>) = {m} /\ ToSet(<<l>>) = {l}
    BY <2>1
  <2> QED
    BY <1>2, <1>8, <2>2
<1>12. /\ page.tabs = <<>> /\ page.own = [s \in Id |-> FALSE]
       /\ page.shown = [s \in Id |-> 0] /\ page.whole = [s \in Id |-> TRUE]
       /\ page.att = {} /\ page.heal = {} /\ page.outbox = <<>>
  BY DEF PageInit
<1>13. Tabs(page) = {} /\ ToSet(page.outbox) = {}
  BY <1>12, NoElements DEF Tabs
<1>14. Sent = {l}
  BY <1>11, <1>13 DEF Sent
<1>15. LinkFits
  BY <1>2, <1>4, <1>12 DEF LinkFits
<1>16. Quiet
  BY <1>10, <1>11 DEF Quiet
<1>17. ASSUME NEW s \in Id PROVE Upheld(s)
  <2>1. Named(s)
    <3> DEFINE V == {"in", "out"}
               a == IF s \in host.live THEN "in" ELSE "out"
    <3>1. a \in V /\ (a = "in" => s \in host.live) /\ (s \notin ToSet(m.tabs) => a = "out") /\ (s \in ToSet(m.tabs) => a = "in")
      BY <1>7, <1>8
    <3> HIDE DEF a
    <3>2. <<a, m, a>> \in Naming(s)
      BY <1>8, <1>9, <3>1, NamingIs
    <3>3. Leads(<<m>>, V, Naming(s), a, a)
      BY <1>9, <3>1, <3>2, LeadsOnce
    <3> QED
      BY <1>8, <1>13, <3>1, <3>3 DEF Named
  <2>2. ~Closed(s) /\ Attaching(s) \notin Sent
    BY <1>10, <1>14 DEF Closed, ClosingOf, Attaching
  <2>3. \A x \in ToSet(toPage) : ~Stream(x, s)
    BY <1>8, <1>11 DEF Stream
  <2>4. Tracked(s)
    BY <1>4, <1>12, <2>2, <2>3 DEF Tracked
  <2>5. Screened(s)
    BY <1>4, <1>12, <2>3 DEF Screened
  <2>6. Viewed(s)
    <3> DEFINE e == View(page, s)
    <3>1. e = <<0, "whole">>
      BY <1>12 DEF View, Looks
    <3>2. e \in Views
      BY <1>5, <3>1 DEF Views
    <3>3. Ended(s, e)
      BY <1>4, <3>1 DEF Ended
    <3> HIDE DEF e
    <3>4. <<e, m, e>> \in Seeing(s)
      BY <1>8, <1>9, <3>2, SeeingIs DEF Sight
    <3>5. Leads(<<m>>, Views, Seeing(s), e, e)
      BY <1>9, <3>2, <3>4, LeadsOnce
    <3> QED
      BY <1>8, <3>2, <3>3, <3>5 DEF Viewed, e
  <2>7. Owned(s)
    <3>1. Belief(page, s) = "theirs" /\ Fact(s) = "theirs" /\ ~page.own[s] /\ host.owner[s] # "me"
      BY <1>4, <1>12 DEF Belief, Fact
    <3>2. <<"theirs", m, "theirs">> \in Trusting(s)
      BY <1>8, <1>9, TrustingIs
    <3>3. Leads(<<m>>, {"mine", "theirs"}, Trusting(s), "theirs", "theirs")
      BY <1>9, <3>2, LeadsOnce
    <3> QED
      BY <1>8, <1>13, <3>1, <3>3 DEF Owned
  <2> QED
    BY <2>1, <2>4, <2>5, <2>6, <2>7 DEF Upheld
<1> QED
  BY <1>6, <1>15, <1>16, <1>17 DEF ViewInv

LEMMA ViewStutters ==
    ASSUME ViewInv, UNCHANGED pageVars
    PROVE  ViewInv'
<1>1. UNCHANGED <<world, host, link, toHost, toPage, page>>
  BY DEF pageVars
<1>2. LinkFits' /\ Quiet' /\ Open' = Open
  BY <1>1 DEF ViewInv, LinkFits, Up, Quiet, Pristine, Open, Numbers
<1>3. ASSUME NEW s \in Open PROVE Upheld(s)'
  <2>1. Upheld(s)
    BY DEF ViewInv
  <2>2. Named(s)' /\ Tracked(s)' /\ Screened(s)'
    BY <1>1, <2>1 DEF Upheld, Named, Tracked, Screened, Closed, Sent, Tabs
  <2>3. Viewed(s)'
    BY <1>1, <2>1 DEF Upheld, Viewed, Ended, Closed, Sent, Up
  <2>4. (Pristine => Owned(s))'
    BY <1>1, <2>1 DEF Upheld, Pristine, Owned, Closed, Sent, Tabs, Fact
  <2> QED
    BY <2>2, <2>3, <2>4 DEF Upheld
<1> QED
  BY <1>2, <1>3 DEF ViewInv

LEMMA WorldStays ==
    [PageNext]_pageVars => world' = world
<1> SUFFICES ASSUME [PageNext]_pageVars PROVE world' = world
  OBVIOUS
<1>1. CASE HostHandles \/ HostBroadcasts \/ OtherCreates \/ \E i \in DOMAIN toHost : HostOpens(i)
  BY <1>1 DEF HostHandles, HostBroadcasts, OtherCreates, HostOpens, HostDoes
<1>2. CASE \E s \in Id : Output(s) \/ SessionExits(s) \/ \E owner \in {"local", "other"} : OtherTakes(s, owner)
  BY <1>2 DEF Output, SessionExits, OtherTakes
<1>3. CASE LinkDrops \/ OutboxLost \/ Reconnect
  BY <1>3 DEF LinkDrops, OutboxLost, Reconnect
<1>4. CASE PageReceives \/ \E i \in DOMAIN toPage : PageOpens(i)
  BY <1>4 DEF PageReceives, PageOpens
<1>5. CASE CreateTimesOut \/ ListTimesOut \/ PressModifier \/ TapKey
  BY <1>5 DEF CreateTimesOut, ListTimesOut, PressModifier, TapKey, Acts
<1>6. CASE \/ Focus \/ Blur \/ Poll \/ Chip \/ UserCreates
           \/ \E s \in Id : UserSwitches(s) \/ UserCloses(s)
  BY <1>6 DEF Focus, Blur, Poll, Chip, UserCreates, UserSwitches, UserCloses, Turn
<1>7. CASE UNCHANGED pageVars
  BY <1>7 DEF pageVars
<1> QED
  BY <1>1, <1>2, <1>3, <1>4, <1>5, <1>6, <1>7 DEF PageNext

LEMMA ViewMoves ==
    PageInv /\ PageInv' /\ ~world.sealed /\ ViewInv /\ [PageNext]_pageVars => ViewInv'
<1> SUFFICES ASSUME PageInv, PageInv', ~world.sealed, ViewInv, [PageNext]_pageVars PROVE ViewInv'
  OBVIOUS
<1>1. CASE HostHandles
  BY <1>1, HandlesKeeps
<1>2. CASE HostBroadcasts \/ OtherCreates \/ \E s \in Id : SessionExits(s)
  BY <1>2, OthersKeep
<1>3. ASSUME NEW s \in Id, Output(s) PROVE ViewInv'
  BY <1>3, OutputMove
<1>4. ASSUME NEW s \in Id, NEW owner \in {"local", "other"}, OtherTakes(s, owner) PROVE ViewInv'
  BY <1>4, OtherTakesKeeps
<1>5. CASE LinkDrops
  BY <1>5, DropKeeps
<1>6. CASE OutboxLost
  BY <1>6, LostKeeps
<1>7. CASE Reconnect
  BY <1>7, ReconnectKeeps
<1>8. CASE PageReceives
  BY <1>8, ReceivesKeep
<1>9. CASE CreateTimesOut
  BY <1>9, TimesOutKeeps
<1>10. CASE ListTimesOut
  BY <1>10, ListTimesOutKeeps
<1>11. CASE Focus \/ Blur
  BY <1>11, FocusKeeps
<1>12. CASE Poll \/ Chip \/ UserCreates \/ \E s \in Id : UserSwitches(s) \/ UserCloses(s)
  BY <1>12, UserKeeps
<1>13. CASE PressModifier \/ TapKey
  BY <1>13, ModsKeep
<1>14. CASE UNCHANGED pageVars
  BY <1>14, ViewStutters
<1>15. ~(\E i \in DOMAIN toHost : HostOpens(i)) /\ ~(\E i \in DOMAIN toPage : PageOpens(i))
  BY DEF HostOpens, PageOpens
<1> QED
  BY <1>1, <1>2, <1>3, <1>4, <1>5, <1>6, <1>7, <1>8, <1>9, <1>10, <1>11, <1>12, <1>13, <1>14, <1>15 DEF PageNext

ClearInv == PageInv /\ (world.sealed \/ ViewInv)

LEMMA ViewHolds ==
    PageSpec => []ClearInv
<1>1. PageInit => ClearInv
  BY PageStarts, ViewStarts DEF ClearInv
<1>2. ClearInv /\ [PageNext]_pageVars => ClearInv'
  <2> SUFFICES ASSUME ClearInv, [PageNext]_pageVars PROVE ClearInv'
    OBVIOUS
  <2>1. PageInv /\ PageInv' /\ world' = world
    BY PageMoves, WorldStays DEF ClearInv
  <2>2. world.sealed \/ ViewInv'
    BY <2>1, ViewMoves DEF ClearInv
  <2> QED
    BY <2>1, <2>2 DEF ClearInv
<1> QED
  BY <1>1, <1>2, PTL DEF PageSpec

(* terminalApp.ts:81: over the relay, where messages are not sealed, no     *)
(* screen of a session the page follows misses a piece of output or shows   *)
(* one twice without being about to be replaced, and at rest it shows all   *)
(* there is: whatever breaks and comes back, however the replay and the     *)
(* output are interleaved.  Sessions the page has closed itself are left    *)
(* out until the host knows.                                                *)
THEOREM ScreensStayWhole == PageSpec => []ScreensWhole
<1>1. ASSUME PageInv, ViewInv, world.relay, Up, NEW s \in Tabs(page) \cap page.att \cap host.live
      PROVE  \/ Closing(s)
             \/ /\ page.whole[s] \/ s \in page.heal
                /\ Settled => page.whole[s] /\ page.shown[s] = host.out[s]
  <2>1. s \in Open /\ s \in Id /\ Upheld(s) /\ toPage \in Seq(Told)
    BY <1>1, HostFacts DEF Open, ViewInv
  <2>2. ASSUME Closed(s) PROVE Closing(s)
    <3>1. toHost \in Seq(Said) /\ page.outbox \in Seq(Said)
      BY <1>1, PageFields DEF PageInv, PageTypeOK
    <3>2. ToSet(toHost \o page.outbox) = Sent
      BY <3>1, CatElements DEF Sent
    <3>3. ClosingOf(s).t = "close" /\ ClosingOf(s).id = s
      BY DEF ClosingOf
    <3> QED
      BY <2>2, <3>2, <3>3 DEF Closing, Closed
  <2>3. ASSUME NEW e \in Views, Leads(toPage, Views, Seeing(s), View(page, s), e), Ended(s, e)
        PROVE  /\ page.whole[s] \/ s \in page.heal
               /\ Settled => page.whole[s] /\ page.shown[s] = host.out[s]
    <3> DEFINE a == View(page, s)
    <3>1. a[1] = page.shown[s] /\ a[2] = Looks(page, s)
      BY DEF View
    <3> HIDE DEF a
    <3>2. a \in Views /\ (toPage = <<>> => a = e)
      BY <2>1, <2>3, LeadsEnds DEF a
    <3>3. Looks(page, s) \in {"whole", "both", "marked"}
      BY <3>1, <3>2 DEF Views
    <3>4. page.whole[s] \/ s \in page.heal
      BY <3>3 DEF Looks
    <3>5. ASSUME Settled PROVE page.whole[s] /\ page.shown[s] = host.out[s]
      <4>1. toHost = <<>> /\ toPage = <<>> /\ page.says = <<>> /\ Fit(page, host.live, Reached, Numbers)
        BY <1>1, <3>5 DEF Settled, PageInv, PageTypeOK, PageGood, Good
      <4>2. ToSet(toHost) = {} /\ ToSet(page.says) = {}
        BY <4>1, NoElements
      <4>3. s \in Reached
        BY <1>1, <4>1, <4>2 DEF Fit
      <4>4. s \in host.attached
        BY <1>1, <4>2, <4>3 DEF Reached
      <4>5. a = e /\ e[1] = host.out[s] /\ e[2] \in {"whole", "both"}
        BY <2>3, <3>2, <4>1, <4>4 DEF Ended
      <4>6. Looks(page, s) \in {"whole", "both"}
        BY <3>1, <4>5
      <4> QED
        BY <3>1, <4>5, <4>6 DEF Looks
    <3> QED
      BY <3>4, <3>5
  <2>4. Viewed(s)
    BY <2>1 DEF Upheld
  <2> QED
    BY <1>1, <2>2, <2>3, <2>4 DEF Viewed
<1>2. ClearInv => ScreensWhole
  BY <1>1 DEF ScreensWhole, ClearInv
<1> QED
  BY <1>2, ViewHolds, PTL

(* web/index.ts:143: where messages are not sealed, while the first         *)
(* connection holds and neither the page nor others create a session, at    *)
(* rest a tab knows whether the page sizes its session, and if so the host  *)
(* has been given the size: whoever claimed, released, forced or took it    *)
(* over meanwhile.                                                          *)
THEOREM OwnersDoAgree == PageSpec => []OwnershipAgrees
<1>1. ASSUME PageInv, ViewInv, Settled, ~world.sealed, link = "first", page.made = {}, ~world.rivals,
             ~world.slow, NEW s \in Tabs(page)
      PROVE  /\ page.own[s] <=> host.owner[s] = "me"
             /\ page.own[s] => host.size[s] = "me"
  <2>1. Up /\ toHost = <<>> /\ toPage = <<>> /\ page.creating = <<>>
    BY <1>1 DEF Settled
  <2>2. page.outbox = <<>>
    BY <1>1, <2>1 DEF ViewInv, LinkFits
  <2>3. ToSet(toHost) = {} /\ ToSet(toPage) = {} /\ ToSet(page.outbox) = {}
    BY <2>1, <2>2, NoElements
  <2>4. s \in host.live /\ host.live \subseteq Id
    BY <1>1, SettledList, HostFacts
  <2>5. s \in Open /\ Pristine
    BY <1>1, <2>1, <2>4 DEF Open, Pristine
  <2>6. Owned(s) /\ ~Closed(s)
    BY <1>1, <2>3, <2>5 DEF ViewInv, Upheld, Closed, Sent
  <2>7. /\ Leads(toPage, {"mine", "theirs"}, Trusting(s), Belief(page, s), Fact(s))
        /\ host.owner[s] = "me" => host.size[s] = "me"
    BY <2>3, <2>6 DEF Owned
  <2>8. toPage \in Seq(Told)
    BY <1>1, HostFacts
  <2>9. Belief(page, s) = Fact(s)
    BY <2>1, <2>7, <2>8, LeadsEnds
  <2>10. page.own[s] <=> host.owner[s] = "me"
    BY <2>9 DEF Belief, Fact
  <2> QED
    BY <2>7, <2>10
<1>2. ClearInv => OwnershipAgrees
  BY <1>1 DEF OwnershipAgrees, ClearInv
<1> QED
  BY <1>2, ViewHolds, PTL
=============================================================================
