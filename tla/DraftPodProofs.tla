--------------------------- MODULE DraftPodProofs ---------------------------
(***************************************************************************)
(* What is proved of a drafting pod on the server and of the event after   *)
(* the draft: the pick clock for any number of seats, timer tasks,         *)
(* windows, disconnections and restarts; the Swiss pairing search for pods *)
(* of any size and any history; and the rounds, results and standings of   *)
(* Swiss and single-elimination events of any length.                      *)
(***************************************************************************)
EXTENDS DraftPickClock, MCSwissPairing, DraftTournament, SequenceTheorems, FiniteSetTheorems,
        WellFoundedInduction, TLAPS

-----------------------------------------------------------------------------
(* The pick clock.                                                         *)

Pods == [status : {"Lobby", "Drafting", "Deckbuilding"},
         window : 0 .. Windows, owed : SUBSET Seats]

TimerStates == {"dead", "running", "expired", "fired"}

\* A window of a draft that goes on has a number, and there is nothing to draft
\* before it starts.
PodInv == /\ Drafting(pod) => pod.window \in 1 .. Windows
          /\ pod.status = "Lobby" => (storing = {} /\ rearming = 0)

\* The stored timer is not stored again, and one that is still to be stored
\* counts down as long as the draft goes on: so a stored handle replaces the
\* clock it aborts by a running one.
StoringInv == /\ timerTask \notin storing
              /\ Drafting(pod) => \A t \in storing : timers[t] = "running"

\* The inductive invariant.
ClockInv == TypeOK /\ PodInv /\ StoringInv /\ NoTimerPileUp

-----------------------------------------------------------------------------
\* NextWindow yields a pod of a draft that has started.
LEMMA NextWindowType ==
    ASSUME NEW p \in Pods, Drafting(p), p.window \in 1 .. Windows
    PROVE  /\ NextWindow(p) \in Pods
           /\ NextWindow(p).status \in {"Drafting", "Deckbuilding"}
           /\ NextWindow(p).window \in 1 .. Windows
  <1>1. CASE p.window = Windows
    BY <1>1 DEF NextWindow, Pods
  <1>2. CASE p.window # Windows
    <2>1. p.window + 1 \in 1 .. Windows
      BY <1>2, WindowsAssumption DEF WindowsAssumption
    <2>2. p.window + 1 \in 0 .. Windows
      BY <2>1
    <2>3. NextWindow(p) = [p EXCEPT !.window = p.window + 1, !.owed = Seats]
      BY <1>2 DEF NextWindow
    <2> QED
      BY <2>1, <2>2, <2>3 DEF Pods, Drafting
  <1> QED
    BY <1>1, <1>2

\* So do picks for any set of seats.
LEMMA PickedType ==
    ASSUME NEW p \in Pods, Drafting(p), p.window \in 1 .. Windows,
           NEW L \in SUBSET Seats, NEW q \in Picked(p, L)
    PROVE  /\ q \in Pods
           /\ q.status \in {"Drafting", "Deckbuilding"}
           /\ q.window \in 1 .. Windows
  <1>1. CASE ~(p.owed \subseteq L)
    <2>1. q = [p EXCEPT !.owed = @ \ L]
      BY <1>1 DEF Picked
    <2> QED
      BY <2>1 DEF Pods, Drafting
  <1>2. CASE p.owed \subseteq L /\ ~Drafting(NextWindow(p))
    BY <1>2, NextWindowType DEF Picked
  <1>3. CASE p.owed \subseteq L /\ Drafting(NextWindow(p))
    <2>1. PICK M \in SUBSET (L \ p.owed) : q = [NextWindow(p) EXCEPT !.owed = @ \ M]
      BY <1>3 DEF Picked
    <2> DEFINE n == NextWindow(p)
    <2>2. /\ n \in Pods
          /\ n.status \in {"Drafting", "Deckbuilding"}
          /\ n.window \in 1 .. Windows
      BY NextWindowType
    <2>3. q = [n EXCEPT !.owed = @ \ M]
      BY <2>1
    <2> HIDE DEF n
    <2> QED
      BY <2>2, <2>3 DEF Pods
  <1> QED
    BY <1>1, <1>2, <1>3

\* The state of a task that has ended.
LEMMA DeadType == Dead \in TimerStates
  BY WindowsAssumption DEF WindowsAssumption, Dead, TimerStates

\* The invariant holds initially.
LEMMA ClockInit == Init => ClockInv
  <1> SUFFICES ASSUME Init PROVE ClockInv
    OBVIOUS
  <1>1. pod \in Pods
    BY WindowsAssumption DEF WindowsAssumption, Init, Pods
  <1>2. TypeOK
    <2>1. timers \in [Timers -> TimerStates]
      BY DeadType DEF Init
    <2>2. /\ disconnects \in 0 .. MaxDisconnects
          /\ restarts \in 0 .. MaxRestarts
      BY BoundsAssumption DEF BoundsAssumption, Init
    <2> QED
      BY <1>1, <2>1, <2>2 DEF Init, TypeOK, TimerStates, Pods
  <1>3. PodInv /\ StoringInv
    BY DEF Init, PodInv, StoringInv, Drafting
  <1>4. NoTimerPileUp
    BY DEF Init, NoTimerPileUp, Alive, Dead
  <1> QED
    BY <1>2, <1>3, <1>4 DEF ClockInv

\* Every step preserves it, and a step that lets the draft go on lets a clock
\* go on.
LEMMA ClockStep ==
    ASSUME ClockInv, [Next]_vars
    PROVE  ClockInv'
  <1> USE DEF ClockInv
  <1>0. pod \in Pods
    BY DEF TypeOK, Pods
  <1>1. CASE StartDraft
    BY <1>1, WindowsAssumption
    DEF WindowsAssumption, StartDraft, TypeOK, PodInv, StoringInv, NoTimerPileUp, Alive, Drafting,
        Rearm, ShouldRearm, presence
  <1>2. ASSUME NEW s \in Seats, Pick(s)
        PROVE  ClockInv'
    <2>1. /\ pod' \in Pods
          /\ pod'.status \in {"Drafting", "Deckbuilding"}
          /\ pod'.window \in 1 .. Windows
      BY <1>0, <1>2, PickedType DEF Pick, PodInv
    <2>2. rearming' \in Nat
      BY <1>2 DEF Pick, Rearm, TypeOK
    <2> QED
      BY <1>2, <2>1, <2>2
      DEF Pick, TypeOK, PodInv, StoringInv, NoTimerPileUp, Alive, Drafting, presence, Pods
  <1>3. ASSUME NEW s \in Seats, Disconnect(s) \/ Reconnect(s) \/ GraceElapses(s)
        PROVE  ClockInv'
    BY <1>3, BoundsAssumption
    DEF BoundsAssumption, Disconnect, Reconnect, GraceElapses, TypeOK, PodInv, StoringInv, NoTimerPileUp,
        Alive, Drafting, clock
  <1>4. CASE SpawnAfterAction
    <2>1. PICK t \in Unused : SpawnTimer(t)
      BY <1>4 DEF SpawnAfterAction
    <2>2. /\ t \in Timers
          /\ t # timerTask
          /\ t \notin storing
      BY <2>1 DEF Unused
    <2>3. rearming' \in Nat
      BY <1>4 DEF SpawnAfterAction, TypeOK
    <2>4. pod.status # "Lobby"
      BY <1>4 DEF SpawnAfterAction, PodInv, TypeOK
    <2> QED
      BY <1>4, <2>1, <2>2, <2>3, <2>4
      DEF SpawnAfterAction, SpawnTimer, TypeOK, PodInv, StoringInv, NoTimerPileUp,
          Alive, Drafting, presence
  <1>5. ASSUME NEW t \in Timers, StoreHandle(t)
        PROVE  ClockInv'
    <2>1. /\ timers' \in [Timers -> TimerStates]
          /\ \A u \in Timers : u # timerTask => timers'[u] = timers[u]
          /\ timerTask \in Timers => timers'[timerTask] = "dead"
      <3>1. CASE timerTask = NoTimer
        BY <1>5, <3>1, NoTimerAssumption
        DEF NoTimerAssumption, StoreHandle, AbortPrevious, TypeOK, TimerStates
      <3>2. CASE timerTask # NoTimer
        <4>1. timerTask \in Timers
          BY <3>2 DEF TypeOK
        <4>2. timers' = [timers EXCEPT ![timerTask] = Dead]
          BY <1>5, <3>2 DEF StoreHandle, AbortPrevious
        <4>3. timers \in [Timers -> TimerStates]
          BY DEF TypeOK, TimerStates
        <4>4. Dead = "dead"
          BY DEF Dead
        <4> QED
          BY <4>1, <4>2, <4>3, <4>4, DeadType
      <3> QED
        BY <3>1, <3>2
    <2> QED
      BY <1>5, <2>1, NoTimerAssumption
      DEF NoTimerAssumption, StoreHandle, TypeOK, PodInv, StoringInv, NoTimerPileUp, Alive, Drafting,
          presence, TimerStates
  <1>6. ASSUME NEW t \in Timers, TickAfterDraft(t) \/ Expire(t)
        PROVE  ClockInv'
    BY <1>6, WindowsAssumption
    DEF WindowsAssumption, TickAfterDraft, Expire, TypeOK, PodInv, StoringInv, NoTimerPileUp, Alive,
        Drafting, presence, Dead
  <1>7. ASSUME NEW t \in Timers, Fire(t)
        PROVE  ClockInv'
    <2>1. CASE Drafting(pod)
      <3>1. /\ pod' \in Pods
            /\ pod'.status \in {"Drafting", "Deckbuilding"}
            /\ pod'.window \in 1 .. Windows
        BY <1>0, <1>7, <2>1, PickedType DEF Fire, PodInv, SeatsNeedingAutoPick, Pods
      <3>2. t \notin storing
        BY <1>7, <2>1 DEF Fire, StoringInv
      <3> QED
        BY <1>7, <2>1, <3>1, <3>2
        DEF Fire, TypeOK, PodInv, StoringInv, NoTimerPileUp, Alive, Drafting, presence, Pods
    <2>2. CASE ~Drafting(pod)
      BY <1>7, <2>2, WindowsAssumption
      DEF WindowsAssumption, Fire, TypeOK, PodInv, StoringInv, NoTimerPileUp, Alive, Drafting, presence, Dead
    <2> QED
      BY <2>1, <2>2
  <1>8. ASSUME NEW t \in Timers, RearmSelf(t)
        PROVE  ClockInv'
    <2>1. CASE Drafting(pod)
      <3>1. PICK u \in Unused :
                /\ timers' = [timers EXCEPT ![u] = "running",
                                            ![t] = Dead]
                /\ storing' = storing \cup {u}
        BY <1>8, <2>1 DEF RearmSelf, Rearms
      <3>2. /\ u \in Timers
            /\ u # timerTask
            /\ u \notin storing
            /\ u # t
        BY <1>8, <3>1 DEF Unused, Alive, RearmSelf
      <3>3. t \notin storing
        BY <1>8, <2>1 DEF RearmSelf, StoringInv
      <3> QED
        BY <1>8, <2>1, <3>1, <3>2, <3>3, WindowsAssumption
        DEF WindowsAssumption, RearmSelf, TypeOK, PodInv, StoringInv, NoTimerPileUp, Alive, Drafting,
            presence, Dead
    <2>2. CASE ~Drafting(pod)
      BY <1>8, <2>2, WindowsAssumption
      DEF WindowsAssumption, RearmSelf, Rearms, TypeOK, PodInv, StoringInv, NoTimerPileUp, Alive, Drafting,
          presence, Dead
    <2> QED
      BY <2>1, <2>2
  <1>9. CASE TakeLapsed
    BY <1>9
    DEF TakeLapsed, TypeOK, PodInv, StoringInv, NoTimerPileUp, Alive, Drafting, clock
  <1>10. CASE SweepLapsed
    <2>1. CASE Drafting(pod)
      <3>1. /\ pod' \in Pods
            /\ pod'.status \in {"Drafting", "Deckbuilding"}
            /\ pod'.window \in 1 .. Windows
        <4>1. (lapsed \ connected) \in SUBSET Seats
          BY DEF TypeOK
        <4> QED
          BY <1>0, <1>10, <2>1, <4>1, PickedType DEF SweepLapsed, PodInv
      <3> QED
        BY <1>10, <2>1, <3>1
        DEF SweepLapsed, TypeOK, PodInv, StoringInv, NoTimerPileUp, Alive, Drafting, clock, Pods
    <2>2. CASE ~Drafting(pod)
      BY <1>10, <2>2
      DEF SweepLapsed, TypeOK, PodInv, StoringInv, NoTimerPileUp, Alive, Drafting, clock
    <2> QED
      BY <2>1, <2>2
  <1>11. CASE Restart
    BY <1>11, DeadType, BoundsAssumption
    DEF BoundsAssumption, TimerStates, Restart, TypeOK, PodInv, StoringInv, NoTimerPileUp,
        Alive, Drafting, Dead
  <1>12. CASE UNCHANGED vars
    BY <1>12
    DEF vars, TypeOK, PodInv, StoringInv, NoTimerPileUp, Alive, Drafting
  <1> QED
    BY <1>1, <1>2, <1>3, <1>4, <1>5, <1>6, <1>7, <1>8, <1>9, <1>10, <1>11, <1>12 DEF Next

-----------------------------------------------------------------------------
\* The inductive invariant holds of every reachable state.
THEOREM ClockInvariant == Spec => []ClockInv
  <1>1. Init => ClockInv
    BY ClockInit
  <1>2. ClockInv /\ [Next]_vars => ClockInv'
    BY ClockStep
  <1> QED
    BY <1>1, <1>2, PTL DEF Spec

\* Type correctness of the pod, its tasks and the reconnect records.
THEOREM TypeCorrect == Spec => []TypeOK
  <1>1. ClockInv => TypeOK
    BY DEF ClockInv
  <1> QED
    BY <1>1, ClockInvariant, PTL

\* spawn_pick_timer never loses track of a timer task: every live one is
\* stored or about to be stored, and the next re-arm aborts it.
THEOREM NoPileUp == Spec => []NoTimerPileUp
  <1>1. ClockInv => NoTimerPileUp
    BY DEF ClockInv
  <1> QED
    BY <1>1, ClockInvariant, PTL

\* One step of the draft that has a clock leaves it one.
LEMMA ClockStepKeepsClock ==
    ASSUME ClockInv, [Next]_vars, Drafting(pod), ClockOn, Drafting(pod'),
           restarts' = restarts
    PROVE  ClockOn'
  <1> USE DEF ClockInv
  <1>1. CASE StartDraft
    BY <1>1 DEF StartDraft, Drafting
  <1>2. ASSUME NEW s \in Seats, Pick(s)
        PROVE  ClockOn'
    BY <1>2 DEF Pick, Rearm, ClockOn, Alive, TypeOK
  <1>3. CASE UNCHANGED <<timers, rearming>>
    BY <1>3 DEF ClockOn, Alive
  <1>4. CASE SpawnAfterAction
    <2>1. PICK t \in Unused : SpawnTimer(t)
      BY <1>4 DEF SpawnAfterAction
    <2>2. t \in Timers /\ timers'[t] = "running"
      BY <2>1 DEF Unused, SpawnTimer, TypeOK
    <2> QED
      BY <2>2 DEF ClockOn, Alive
  <1>5. ASSUME NEW t \in Timers, StoreHandle(t)
        PROVE  ClockOn'
    <2>1. timers'[t] = "running"
      BY <1>5 DEF StoreHandle, AbortPrevious, StoringInv, TypeOK
    <2> QED
      BY <2>1 DEF ClockOn, Alive
  <1>6. ASSUME NEW t \in Timers, Expire(t) \/ Fire(t)
        PROVE  ClockOn'
    <2>1. timers'[t] \in {"expired", "fired"}
      BY <1>6 DEF Expire, Fire, TypeOK
    <2> QED
      BY <2>1 DEF ClockOn, Alive
  <1>7. ASSUME NEW t \in Timers, RearmSelf(t)
        PROVE  ClockOn'
    <2>1. PICK u \in Unused :
              timers' = [timers EXCEPT ![u] = "running",
                                       ![t] = Dead]
      BY <1>7 DEF RearmSelf, Rearms
    <2>2. u \in Timers /\ u # t
      BY <1>7, <2>1 DEF Unused, Alive, RearmSelf
    <2>3. timers'[u] = "running"
      BY <2>1, <2>2 DEF TypeOK
    <2> QED
      BY <2>2, <2>3 DEF ClockOn, Alive
  <1>8. ASSUME NEW t \in Timers, TickAfterDraft(t)
        PROVE  ClockOn'
    BY <1>8 DEF TickAfterDraft
  <1>9. CASE Restart
    BY <1>9 DEF Restart, TypeOK
  <1> QED
    BY <1>1, <1>2, <1>3, <1>4, <1>5, <1>6, <1>7, <1>8, <1>9
    DEF Next, vars, clock, Disconnect, Reconnect, GraceElapses, TakeLapsed, SweepLapsed

\* Whatever tasks overtake each other, an abort never takes the last clock of
\* a draft with it.
THEOREM ClockKept == Spec => ClockNeverStops
  <1>1. ClockInv /\ [Next]_vars
          => [(Drafting(pod) /\ ClockOn /\ Drafting(pod') /\ restarts' = restarts) => ClockOn']_vars
    BY ClockStepKeepsClock
  <1> QED
    BY <1>1, ClockInvariant, PTL DEF Spec, ClockNeverStops

\* A reconnect takes the seat's record with it and is refused once the grace
\* is over, so the sweep never finds the record of a seat that is back.
THEOREM NoGraceForConnected == Spec => []ConnectedHasNoGrace
  <1> DEFINE Apart == connected \cap (grace \cup graceOver) = {}
  <1>1. Init => Apart
    BY DEF Init
  <1>2. ASSUME Apart, [Next]_vars
        PROVE  Apart'
    <2>1. CASE UNCHANGED <<connected, grace, graceOver>>
      BY <1>2, <2>1
    <2>2. ASSUME NEW s \in Seats, Disconnect(s)
          PROVE  Apart'
      BY <1>2, <2>2 DEF Disconnect
    <2>3. ASSUME NEW s \in Seats, Reconnect(s)
          PROVE  Apart'
      BY <1>2, <2>3 DEF Reconnect
    <2>4. ASSUME NEW s \in Seats, GraceElapses(s)
          PROVE  Apart'
      BY <1>2, <2>4 DEF GraceElapses
    <2>5. CASE TakeLapsed \/ Restart
      BY <1>2, <2>5 DEF TakeLapsed, Restart
    <2> HIDE DEF Apart
    <2> QED
      BY <1>2, <2>1, <2>2, <2>3, <2>4, <2>5
      DEF Next, vars, presence, StartDraft, Pick, SpawnAfterAction, StoreHandle, TickAfterDraft,
          Expire, Fire, RearmSelf, SweepLapsed
  <1>3. TypeOK /\ Apart => ConnectedHasNoGrace
    BY DEF ConnectedHasNoGrace
  <1> QED
    BY <1>1, <1>2, <1>3, TypeCorrect, PTL DEF Spec

\* Picks for the seats of L leave every other seat's pick alone.
LEMMA PickedSpares ==
    ASSUME NEW p \in Pods, Drafting(p), p.window \in 1 .. Windows,
           NEW L \in SUBSET Seats, NEW q \in Picked(p, L),
           NEW s \in Seats, s \notin L
    PROVE  Untouched(s, p, q)
  <1>1. CASE ~(p.owed \subseteq L)
    <2>1. q = [p EXCEPT !.owed = @ \ L]
      BY <1>1 DEF Picked
    <2>2. q.status = p.status /\ q.window = p.window /\ q.owed = p.owed \ L
      BY <2>1 DEF Pods
    <2> QED
      BY <2>2 DEF Untouched, Drafting
  <1>2. CASE p.owed \subseteq L /\ ~Drafting(NextWindow(p))
    BY <1>2 DEF Picked, Untouched
  <1>3. CASE p.owed \subseteq L /\ Drafting(NextWindow(p))
    <2>1. PICK M \in SUBSET (L \ p.owed) : q = [NextWindow(p) EXCEPT !.owed = @ \ M]
      BY <1>3 DEF Picked
    <2>2. p.window # Windows
      BY <1>3 DEF NextWindow, Drafting, Pods
    <2>3. NextWindow(p) = [p EXCEPT !.window = @ + 1, !.owed = Seats]
      BY <2>2 DEF NextWindow
    <2>4. q.window = p.window + 1 /\ q.owed = Seats \ M
      BY <2>1, <2>3 DEF Pods
    <2> QED
      BY <1>3, <2>1, <2>4 DEF Untouched
  <1> QED
    BY <1>1, <1>2, <1>3

\* The sweep looks again at who is connected, so that no interleaving of
\* disconnects, reconnects, sweeps and picks makes it pick for a player who is
\* back.
THEOREM SweepSpares == Spec => SweepSparesConnected
  <1>1. ASSUME ClockInv, [Next]_vars
        PROVE  [SweepActs => \A s \in connected : Untouched(s, pod, pod')]_vars
    <2> SUFFICES ASSUME SweepActs, NEW s \in connected
                 PROVE  Untouched(s, pod, pod')
      OBVIOUS
    <2>1. SweepLapsed
      <3>1. lapsed' # lapsed /\ lapsed # {} /\ restarts' = restarts
        BY DEF SweepActs
      <3>2. ~Restart
        BY <1>1, <3>1 DEF Restart, ClockInv, TypeOK
      <3> QED
        BY <1>1, <3>1, <3>2
        DEF Next, vars, presence, StartDraft, Pick, Disconnect, Reconnect, SpawnAfterAction,
            StoreHandle, TickAfterDraft, Expire, Fire, RearmSelf, GraceElapses, TakeLapsed
    <2>2. /\ pod \in Pods
          /\ lapsed \ connected \in SUBSET Seats
          /\ s \in Seats
      BY <1>1 DEF ClockInv, TypeOK, Pods
    <2>3. /\ Drafting(pod)
          /\ pod.window \in 1 .. Windows
      BY <1>1 DEF SweepActs, ClockInv, PodInv
    <2>4. pod' \in Picked(pod, lapsed \ connected)
      BY <2>1, <2>3 DEF SweepLapsed
    <2> QED
      BY <2>2, <2>3, <2>4, PickedSpares
  <1> QED
    BY <1>1, ClockInvariant, PTL DEF Spec, SweepSparesConnected

-----------------------------------------------------------------------------
(* Numbers and recursive functions.                                        *)

\* A set of numbers that is not empty has a least member, which Min returns.
LEMMA MinOfSet ==
    ASSUME NEW T \in SUBSET Nat, T # {}
    PROVE  Min(T) \in T /\ \A y \in T : Min(T) <= y
  <1> DEFINE Below == {ss \in Nat \X Nat : ss[1] < ss[2]}
  <1>1. IsWellFoundedOn(Below, Nat)
    BY NatLessThanWellFounded DEF OpToRel
  <1> HIDE DEF Below
  <1>2. PICK x \in T : \A y \in T : ~(<<y, x>> \in Below)
    BY <1>1, WFMin
  <1>3. \A y \in T : ~(y < x)
    BY <1>2 DEF Below
  <1>4. \A y \in T : x <= y
    BY <1>3
  <1> QED
    BY <1>4 DEF Min

\* A bounded one has a greatest, which Max returns.
LEMMA MaxOfSet ==
    ASSUME NEW k \in Nat, NEW T \in SUBSET (0 .. k), T # {}
    PROVE  Max(T) \in T /\ \A y \in T : y <= Max(T)
  <1> DEFINE U == {k - y : y \in T}
  <1>1. U \in SUBSET Nat /\ U # {}
    <2>1. \A y \in T : k - y \in Nat
      OBVIOUS
    <2>2. PICK y \in T : TRUE
      OBVIOUS
    <2>3. k - y \in U
      OBVIOUS
    <2> QED
      BY <2>1, <2>3
  <1>2. PICK u \in U : \A v \in U : u <= v
    BY <1>1, MinOfSet
  <1>3. PICK x \in T : u = k - x
    BY <1>2
  <1>4. ASSUME NEW y \in T
        PROVE  x >= y
    <2>1. k - y \in U
      OBVIOUS
    <2>2. k - x <= k - y /\ x \in Int /\ y \in Int
      BY <1>2, <1>3, <2>1
    <2> QED
      BY <2>2
  <1>5. \E z \in T : \A y \in T : z >= y
    BY <1>4
  <1>6. Max(T) \in T /\ \A y \in T : Max(T) >= y
    BY <1>5 DEF Max
  <1> QED
    BY <1>6

\* Induction over the numbers, for a set of them.
LEMMA CountUp ==
    ASSUME NEW G, 0 \in G, \A n \in Nat : n \in G => n + 1 \in G
    PROVE  Nat \subseteq G
  <1>1. CASE Nat \ G # {}
    <2> DEFINE x == Min(Nat \ G)
    <2>1. x \in Nat \ G /\ \A y \in Nat \ G : x <= y
      BY <1>1, MinOfSet
    <2> HIDE DEF x
    <2>2. x # 0 /\ x - 1 \in Nat /\ x - 1 \notin Nat \ G /\ (x - 1) + 1 = x
      BY <2>1
    <2> QED
      BY <2>1, <2>2
  <1> QED
    BY <1>1

\* A function over 0 .. k that starts with b and follows the rule F.
Follows(f, V, b, F, k) ==
    f \in [0 .. k -> V] /\ f[0] = b /\ \A n \in 1 .. k : f[n] = F[f[n - 1]]

\* There is one for every rule on a set of values.
LEMMA RuleFollowed ==
    ASSUME NEW V, NEW b \in V, NEW F \in [V -> V], NEW k \in Nat
    PROVE  \E f : Follows(f, V, b, F, k)
  <1> DEFINE G == {n \in Nat : \E f : Follows(f, V, b, F, n)}
  <1>1. 0 \in G
    <2>1. Follows([n \in 0 .. 0 |-> b], V, b, F, 0)
      BY DEF Follows
    <2> QED
      BY <2>1
  <1>2. ASSUME NEW n \in Nat, n \in G
        PROVE  n + 1 \in G
    <2>1. PICK f : Follows(f, V, b, F, n)
      BY <1>2
    <2> DEFINE g == [i \in 0 .. n + 1 |-> IF i <= n THEN f[i] ELSE F[f[n]]]
    <2>2. f \in [0 .. n -> V] /\ f[n] \in V /\ F[f[n]] \in V
      BY <2>1 DEF Follows
    <2>3. g \in [0 .. n + 1 -> V] /\ g[0] = b
      BY <2>1, <2>2 DEF Follows
    <2>4. ASSUME NEW i \in 1 .. n + 1
          PROVE  g[i] = F[g[i - 1]]
      <3>1. i - 1 \in 0 .. n /\ i \in 0 .. n + 1 /\ i - 1 \in 0 .. n + 1 /\ g[i - 1] = f[i - 1]
        OBVIOUS
      <3>2. CASE i <= n
        <4>1. i \in 1 .. n /\ g[i] = f[i]
          BY <3>2
        <4> QED
          BY <2>1, <3>1, <4>1 DEF Follows
      <3>3. CASE i = n + 1
        <4>1. i - 1 = n /\ ~(i <= n)
          BY <3>3
        <4> QED
          BY <3>1, <3>3, <4>1
      <3> QED
        BY <3>2, <3>3
    <2> HIDE DEF g
    <2>5. Follows(g, V, b, F, n + 1)
      BY <2>3, <2>4 DEF Follows
    <2> QED
      BY <2>5
  <1> HIDE DEF G
  <1>3. k \in G
    BY <1>1, <1>2, CountUp
  <1> QED
    BY <1>3 DEF G

-----------------------------------------------------------------------------
(* Sequences of players.                                                   *)

\* An element put before a sequence.
LEMMA ConsProperties ==
    ASSUME NEW T, NEW e \in T, NEW s \in Seq(T)
    PROVE  /\ <<e>> \o s \in Seq(T)
           /\ Len(<<e>> \o s) = Len(s) + 1
           /\ (<<e>> \o s)[1] = e
           /\ \A k \in 1 .. Len(s) : (<<e>> \o s)[k + 1] = s[k]
           /\ ToSet(<<e>> \o s) = {e} \cup ToSet(s)
  <1> DEFINE c == <<e>> \o s
  <1>1. <<e>> \in Seq(T) /\ Len(<<e>>) = 1 /\ <<e>>[1] = e /\ Len(s) \in Nat
    OBVIOUS
  <1>2. /\ c \in Seq(T) /\ Len(c) = 1 + Len(s)
        /\ \A i \in 1 .. 1 + Len(s) : c[i] = IF i <= 1 THEN <<e>>[i] ELSE s[i - 1]
    BY <1>1, ConcatProperties
  <1>3. c[1] = e /\ \A k \in 1 .. Len(s) : c[k + 1] = s[k]
    BY <1>1, <1>2
  <1>4. DOMAIN c = 1 .. 1 + Len(s) /\ DOMAIN s = 1 .. Len(s)
    BY <1>2
  <1> HIDE DEF c
  <1>5. ToSet(c) = {e} \cup ToSet(s)
    <2>1. ASSUME NEW x \in ToSet(c)
          PROVE  x \in {e} \cup ToSet(s)
      <3>1. PICK i \in 1 .. 1 + Len(s) : x = c[i]
        BY <1>4 DEF ToSet
      <3>2. CASE i = 1
        BY <1>3, <3>1, <3>2
      <3>3. CASE i # 1
        <4>1. i - 1 \in 1 .. Len(s) /\ (i - 1) + 1 = i
          BY <1>1, <3>3
        <4>2. c[i] = s[i - 1]
          BY <1>3, <4>1
        <4> QED
          BY <1>4, <3>1, <4>1, <4>2 DEF ToSet
      <3> QED
        BY <3>2, <3>3
    <2>2. ASSUME NEW x \in ToSet(s)
          PROVE  x \in ToSet(c)
      <3>1. PICK k \in 1 .. Len(s) : x = s[k]
        BY <1>4 DEF ToSet
      <3>2. k + 1 \in DOMAIN c /\ c[k + 1] = x
        BY <1>1, <1>3, <1>4, <3>1
      <3> QED
        BY <3>2 DEF ToSet
    <2>3. e \in ToSet(c)
      <3>1. 1 \in DOMAIN c
        BY <1>1, <1>4
      <3> QED
        BY <1>3, <3>1 DEF ToSet
    <2> QED
      BY <2>1, <2>2, <2>3
  <1> QED
    BY <1>1, <1>2, <1>3, <1>5 DEF c

\* A player is at one place of a pool only.
Distinct(p) == \A i, j \in 1 .. Len(p) : p[i] = p[j] => i = j

\* A sequence without the element at i.
LEMMA RemoveAtProperties ==
    ASSUME NEW T, NEW p \in Seq(T), NEW i \in 1 .. Len(p)
    PROVE  /\ RemoveAt(p, i) \in Seq(T)
           /\ Len(RemoveAt(p, i)) = Len(p) - 1
           /\ \A k \in 1 .. Len(p) - 1 :
                RemoveAt(p, i)[k] = IF k < i THEN p[k] ELSE p[k + 1]
  <1> DEFINE n == Len(p)
             u == SubSeq(p, 1, i - 1)
             v == SubSeq(p, i + 1, n)
  <1>1. n \in Nat /\ i \in 1 .. n /\ (\A k \in 1 .. n : p[k] \in T)
    OBVIOUS
  <1> HIDE DEF n
  <1>2. u \in Seq(T) /\ Len(u) = i - 1 /\ \A k \in 1 .. i - 1 : u[k] = p[k]
    <2>1. \A k \in 1 .. i - 1 : p[k] \in T
      BY <1>1
    <2>2. /\ u \in Seq(T) /\ Len(u) = (IF 1 <= i - 1 THEN (i - 1) - 1 + 1 ELSE 0)
          /\ \A k \in 1 .. (i - 1) - 1 + 1 : u[k] = p[1 + k - 1]
      BY <1>1, <2>1, SubSeqProperties
    <2> HIDE DEF u
    <2> QED
      BY <1>1, <2>2
  <1>3. v \in Seq(T) /\ Len(v) = n - i /\ \A k \in 1 .. n - i : v[k] = p[i + k]
    <2>1. \A k \in i + 1 .. n : p[k] \in T
      BY <1>1
    <2>2. /\ v \in Seq(T) /\ Len(v) = (IF i + 1 <= n THEN n - (i + 1) + 1 ELSE 0)
          /\ \A k \in 1 .. n - (i + 1) + 1 : v[k] = p[(i + 1) + k - 1]
      BY <1>1, <2>1, SubSeqProperties
    <2> HIDE DEF v
    <2>3. \A k \in 1 .. n - i : k \in 1 .. n - (i + 1) + 1 /\ (i + 1) + k - 1 = i + k
      BY <1>1
    <2>4. Len(v) = n - i
      BY <1>1, <2>2
    <2> QED
      BY <2>2, <2>3, <2>4
  <1>4. RemoveAt(p, i) = u \o v
    BY DEF RemoveAt, n
  <1> HIDE DEF u, v
  <1>5. /\ u \o v \in Seq(T) /\ Len(u \o v) = Len(u) + Len(v)
        /\ \A k \in 1 .. Len(u) + Len(v) :
                (u \o v)[k] = IF k <= Len(u) THEN u[k] ELSE v[k - Len(u)]
    BY <1>2, <1>3, ConcatProperties
  <1>6. Len(u) + Len(v) = n - 1
    BY <1>1, <1>2, <1>3
  <1>7. ASSUME NEW k \in 1 .. n - 1
        PROVE  (u \o v)[k] = IF k < i THEN p[k] ELSE p[k + 1]
    <2>1. (u \o v)[k] = IF k <= i - 1 THEN u[k] ELSE v[k - (i - 1)]
      BY <1>2, <1>5, <1>6
    <2>2. CASE k < i
      <3>1. k <= i - 1 /\ k \in 1 .. i - 1
        BY <1>1, <2>2
      <3> QED
        BY <1>2, <2>1, <2>2, <3>1
    <2>3. CASE ~(k < i)
      <3>1. ~(k <= i - 1) /\ k - (i - 1) \in 1 .. n - i /\ i + (k - (i - 1)) = k + 1
        BY <1>1, <2>3
      <3> QED
        BY <1>3, <2>1, <2>3, <3>1
    <2> QED
      BY <2>2, <2>3
  <1> QED
    BY <1>4, <1>5, <1>6, <1>7 DEF n

\* A pool without its first player and the one at i.
LEMMA RestOfPoolProperties ==
    ASSUME NEW T, NEW p \in Seq(T), NEW i \in 2 .. Len(p)
    PROVE  /\ RestOfPool(p, i) \in Seq(T)
           /\ Len(RestOfPool(p, i)) = Len(p) - 2
           /\ \A k \in 1 .. Len(p) - 2 :
                RestOfPool(p, i)[k] = IF k + 1 < i THEN p[k + 1] ELSE p[k + 2]
  <1> DEFINE q == RemoveAt(p, i)
             n == Len(p)
  <1>1. n \in Nat /\ i \in 2 .. n /\ i \in 1 .. n
    OBVIOUS
  <1>2. /\ q \in Seq(T) /\ Len(q) = n - 1
        /\ \A k \in 1 .. n - 1 : q[k] = IF k < i THEN p[k] ELSE p[k + 1]
    BY <1>1, RemoveAtProperties
  <1>3. RestOfPool(p, i) = Tail(q)
    BY DEF RestOfPool
  <1> HIDE DEF q, n
  <1>4. q # <<>>
    BY <1>1, <1>2
  <1>5. Tail(q) \in Seq(T) /\ Len(Tail(q)) = n - 2
    <2>1. Tail(q) \in Seq(T) /\ Len(Tail(q)) = Len(q) - 1
      BY <1>2, <1>4, HeadTailProperties
    <2> QED
      BY <1>1, <1>2, <2>1
  <1>6. ASSUME NEW k \in 1 .. n - 2
        PROVE  Tail(q)[k] = IF k + 1 < i THEN p[k + 1] ELSE p[k + 2]
    <2>1. Tail(q)[k] = q[k + 1]
      BY <1>1, <1>2, <1>4, HeadTailProperties
    <2>2. k + 1 \in 1 .. n - 1 /\ (k + 1) + 1 = k + 2
      BY <1>1
    <2> QED
      BY <1>2, <2>1, <2>2
  <1> QED
    BY <1>3, <1>5, <1>6 DEF n

\* The rest of a pool of distinct players are the others, still distinct.
LEMMA RestOfDistinct ==
    ASSUME NEW T, NEW p \in Seq(T), Distinct(p), NEW i \in 2 .. Len(p)
    PROVE  /\ Distinct(RestOfPool(p, i))
           /\ ToSet(RestOfPool(p, i)) = ToSet(p) \ {p[1], p[i]}
           /\ p[1] # p[i] /\ p[1] \in ToSet(p) /\ p[i] \in ToSet(p)
  <1> DEFINE n == Len(p)
             r == RestOfPool(p, i)
             at(k) == IF k + 1 < i THEN k + 1 ELSE k + 2
  <1>1. n \in Nat /\ i \in 2 .. n /\ 1 \in 1 .. n /\ i \in 1 .. n /\ DOMAIN p = 1 .. n
    OBVIOUS
  <1>2. r \in Seq(T) /\ Len(r) = n - 2 /\ \A k \in 1 .. n - 2 : r[k] = p[at(k)]
    <2>1. /\ r \in Seq(T) /\ Len(r) = n - 2
          /\ \A k \in 1 .. n - 2 : r[k] = IF k + 1 < i THEN p[k + 1] ELSE p[k + 2]
      BY RestOfPoolProperties
    <2> HIDE DEF r, n
    <2> QED
      BY <2>1
  <1>3. DOMAIN r = 1 .. n - 2
    BY <1>2
  <1>4. \A a, b \in 1 .. n : p[a] = p[b] => a = b
    BY DEF Distinct
  <1> HIDE DEF n, r
  <1>5. \A k \in 1 .. n - 2 : at(k) \in 1 .. n /\ at(k) # 1 /\ at(k) # i
    BY <1>1
  <1>6. \A k, l \in 1 .. n - 2 : at(k) = at(l) => k = l
    BY <1>1
  <1>7. \A j \in 1 .. n : j # 1 /\ j # i => \E k \in 1 .. n - 2 : at(k) = j
    <2> SUFFICES ASSUME NEW j \in 1 .. n, j # 1, j # i
                 PROVE  \E k \in 1 .. n - 2 : at(k) = j
      OBVIOUS
    <2>1. CASE j < i
      <3>1. j - 1 \in 1 .. n - 2 /\ at(j - 1) = j
        BY <1>1, <2>1
      <3> QED
        BY <3>1
    <2>2. CASE j > i
      <3>1. j - 2 \in 1 .. n - 2 /\ at(j - 2) = j
        BY <1>1, <2>2
      <3> QED
        BY <3>1
    <2> QED
      BY <1>1, <2>1, <2>2
  <1> HIDE DEF at
  <1>8. \A k, l \in 1 .. n - 2 : r[k] = r[l] => k = l
    BY <1>2, <1>4, <1>5, <1>6
  <1>9. Distinct(r)
    BY <1>2, <1>8 DEF Distinct
  <1>10. p[1] # p[i] /\ p[1] \in ToSet(p) /\ p[i] \in ToSet(p)
    BY <1>1, <1>4 DEF ToSet
  <1>11. ASSUME NEW x \in ToSet(r)
         PROVE  x \in ToSet(p) \ {p[1], p[i]}
    <2>1. PICK k \in 1 .. n - 2 : x = r[k]
      BY <1>3 DEF ToSet
    <2>2. x = p[at(k)] /\ at(k) \in 1 .. n /\ at(k) # 1 /\ at(k) # i
      BY <1>2, <1>5, <2>1
    <2> QED
      BY <1>1, <1>4, <2>2 DEF ToSet
  <1>12. ASSUME NEW x \in ToSet(p) \ {p[1], p[i]}
         PROVE  x \in ToSet(r)
    <2>1. PICK j \in 1 .. n : x = p[j]
      BY <1>1 DEF ToSet
    <2>2. j # 1 /\ j # i
      BY <2>1
    <2>3. PICK k \in 1 .. n - 2 : at(k) = j
      BY <1>7, <2>2
    <2>4. r[k] = x
      BY <1>2, <2>1, <2>3
    <2> QED
      BY <1>3, <2>4 DEF ToSet
  <1> QED
    BY <1>9, <1>10, <1>11, <1>12 DEF r

-----------------------------------------------------------------------------
(* The search for a matching.                                              *)

\* May the first player of p play the one at i, and can the others be matched?
Fits(p, i, met, al, found) ==
    (al \/ {p[1], p[i]} \notin met) /\ found[RestOfPool(p, i)] # {}

\* Is m the pair of the first player and the one at i, with a matching found for
\* the others?
Extends(m, p, i, found) ==
    \E rest \in found[RestOfPool(p, i)] : m = <<{p[1], p[i]}>> \o rest

\* The loop takes the first fit and finds one if there is one.
LEMMA FirstFitFinds ==
    ASSUME NEW T, NEW p \in Seq(T), NEW met, NEW al, NEW found
    PROVE  /\ \A m \in FirstFit(p, met, al, found) :
                \E i \in 2 .. Len(p) :
                    /\ Fits(p, i, met, al, found)
                    /\ \A j \in 2 .. Len(p) : Fits(p, j, met, al, found) => i <= j
                    /\ Extends(m, p, i, found)
           /\ \A i \in 2 .. Len(p) : Fits(p, i, met, al, found)
                => FirstFit(p, met, al, found) # {}
  <1> DEFINE Q == {i \in 2 .. Len(p) : /\ al \/ {p[1], p[i]} \notin met
                                       /\ found[RestOfPool(p, i)] # {}}
             first == Min(Q)
  <1>1. \A i \in 2 .. Len(p) : Fits(p, i, met, al, found) <=> i \in Q
    BY DEF Fits
  <1>2. FirstFit(p, met, al, found)
            = IF Q = {} THEN {} ELSE {<<{p[1], p[first]}>> \o m : m \in found[RestOfPool(p, first)]}
    BY DEF FirstFit
  <1>3. Q \in SUBSET Nat /\ Q \subseteq 2 .. Len(p)
    OBVIOUS
  <1> HIDE DEF Q
  <1>4. Q # {} => first \in Q /\ \A j \in Q : first <= j
    BY <1>3, MinOfSet
  <1> HIDE DEF first
  <1>5. ASSUME NEW m \in FirstFit(p, met, al, found)
        PROVE  \E i \in 2 .. Len(p) :
                    /\ Fits(p, i, met, al, found)
                    /\ \A j \in 2 .. Len(p) : Fits(p, j, met, al, found) => i <= j
                    /\ Extends(m, p, i, found)
    <2>1. Q # {} /\ Extends(m, p, first, found)
      BY <1>2 DEF Extends
    <2>2. first \in 2 .. Len(p) /\ Fits(p, first, met, al, found)
      BY <1>1, <1>3, <1>4, <2>1
    <2>3. \A j \in 2 .. Len(p) : Fits(p, j, met, al, found) => first <= j
      BY <1>1, <1>4, <2>1
    <2> QED
      BY <2>1, <2>2, <2>3
  <1>6. ASSUME NEW i \in 2 .. Len(p), Fits(p, i, met, al, found)
        PROVE  FirstFit(p, met, al, found) # {}
    <2>1. i \in Q /\ Q # {}
      BY <1>1, <1>6
    <2>2. first \in 2 .. Len(p) /\ found[RestOfPool(p, first)] # {}
      BY <1>1, <1>3, <1>4, <2>1 DEF Fits
    <2>3. PICK m \in found[RestOfPool(p, first)] : TRUE
      BY <2>2
    <2>4. <<{p[1], p[first]}>> \o m \in FirstFit(p, met, al, found)
      BY <1>2, <2>1, <2>3
    <2> QED
      BY <2>4
  <1> QED
    BY <1>5, <1>6

\* What the search may find in the pools of the players in T.
Findings(T) == [Seq(T) -> SUBSET Seq(SUBSET T)]

\* A frame returns rounds of the players of its pool.
LEMMA FirstFitType ==
    ASSUME NEW T, NEW p \in Seq(T), NEW met, NEW al, NEW found \in Findings(T)
    PROVE  FirstFit(p, met, al, found) \in SUBSET Seq(SUBSET T)
  <1>1. ASSUME NEW m \in FirstFit(p, met, al, found)
        PROVE  m \in Seq(SUBSET T)
    <2>1. PICK i \in 2 .. Len(p) : Extends(m, p, i, found)
      BY FirstFitFinds
    <2>2. RestOfPool(p, i) \in Seq(T)
      BY RestOfPoolProperties
    <2>a. found[RestOfPool(p, i)] \in SUBSET Seq(SUBSET T)
      BY <2>2 DEF Findings
    <2>3. PICK rest \in Seq(SUBSET T) : m = <<{p[1], p[i]}>> \o rest
      BY <2>1, <2>a, Zenon DEF Extends
    <2>4. {p[1], p[i]} \in SUBSET T
      <3>1. 1 \in 1 .. Len(p) /\ i \in 1 .. Len(p)
        OBVIOUS
      <3>2. p[1] \in T /\ p[i] \in T
        BY <3>1, ElementOfSeq
      <3> QED
        BY <3>2
    <2> DEFINE e == {p[1], p[i]}
               W == SUBSET T
    <2> HIDE DEF e, W
    <2>5. e \in W /\ rest \in Seq(W)
      BY <2>3, <2>4 DEF e, W
    <2>6. <<e>> \o rest \in Seq(W)
      BY <2>5, ConsProperties
    <2> QED
      BY <2>3, <2>6 DEF e, W
  <1> QED
    BY <1>1

\* The frames of the recursion, by the number of players left.
Frames(f, T, k, met, al) ==
    /\ f \in [0 .. k -> Findings(T)]
    /\ \A p \in Seq(T) : f[0][p] = IF p = <<>> THEN {<<>>} ELSE {}
    /\ \A n \in 1 .. k : \A p \in Seq(T) :
            f[n][p] = IF p = <<>> THEN {<<>>} ELSE FirstFit(p, met, al, f[n - 1])

Frame(T, n, met, al, h) ==
    [p \in Seq(T) |-> IF p = <<>> THEN {<<>>}
                      ELSE IF n = 0 THEN {} ELSE FirstFit(p, met, al, h)]

\* A frame keeps the type of what the frames below it find.
LEMMA FrameType ==
    ASSUME NEW T, NEW n \in Nat, NEW met, NEW al, NEW h \in Findings(T)
    PROVE  Frame(T, n, met, al, h) \in Findings(T)
  <1>1. ASSUME NEW p \in Seq(T)
        PROVE  (IF p = <<>> THEN {<<>>} ELSE IF n = 0 THEN {} ELSE FirstFit(p, met, al, h))
                    \in SUBSET Seq(SUBSET T)
    <2>1. FirstFit(p, met, al, h) \in SUBSET Seq(SUBSET T)
      BY FirstFitType
    <2>2. <<>> \in Seq(SUBSET T)
      OBVIOUS
    <2>3. {<<>>} \in SUBSET Seq(SUBSET T) /\ {} \in SUBSET Seq(SUBSET T)
      BY <2>2
    <2> QED
      BY <2>1, <2>3, Zenon
  <1> QED
    BY <1>1 DEF Frame, Findings

\* pair_pool_avoiding_rematches is the outermost of its frames.
LEMMA PairPoolFrames ==
    ASSUME NEW U, NEW p \in Seq(U), NEW met, NEW al
    PROVE  \E f : /\ Frames(f, ToSet(p), Len(p) \div 2, met, al)
                  /\ PairPool(p, met, al) = f[Len(p) \div 2][p]
  <1> DEFINE T == ToSet(p)
             k == Len(p) \div 2
             Eq(f) == f = [n \in 0 .. k |->
                            [q \in Seq(T) |->
                                IF q = <<>> THEN {<<>>}
                                ELSE IF n = 0 THEN {}
                                ELSE FirstFit(q, met, al, f[n - 1])]]
             try == CHOOSE f : Eq(f)
             V == Findings(T)
             none == [q \in Seq(T) |-> {}]
             F == [h \in V |-> Frame(T, 1, met, al, h)]
             b == Frame(T, 0, met, al, none)
  <1>1. PairPool(p, met, al) = try[k][p]
    BY DEF PairPool
  <1>2. k \in Nat
    <2>1. Len(p) \in Nat
      OBVIOUS
    <2> HIDE DEF T
    <2> QED
      BY <2>1
  <1> HIDE DEF T, k
  <1>3. none \in V
    BY DEF Findings
  <1> HIDE DEF none
  <1>4. b \in V
    BY <1>3, FrameType
  <1>5. F \in [V -> V] /\ \A h \in V : F[h] = Frame(T, 1, met, al, h)
    <2>1. \A h \in V : Frame(T, 1, met, al, h) \in V
      BY FrameType
    <2> HIDE DEF V
    <2> QED
      BY <2>1
  <1>6. \A q \in Seq(T) : b[q] = IF q = <<>> THEN {<<>>} ELSE {}
    BY DEF Frame
  <1> HIDE DEF F, b, V
  <1>7. PICK f : Follows(f, V, b, F, k)
    BY <1>2, <1>4, <1>5, RuleFollowed
  <1>8. f \in [0 .. k -> V] /\ f[0] = b /\ \A n \in 1 .. k : f[n] = F[f[n - 1]]
    BY <1>7 DEF Follows
  <1>9. ASSUME NEW n \in 0 .. k
        PROVE  f[n] = [q \in Seq(T) |->
                                IF q = <<>> THEN {<<>>}
                                ELSE IF n = 0 THEN {}
                                ELSE FirstFit(q, met, al, f[n - 1])]
    <2>1. CASE n = 0
      <3>1. b = [q \in Seq(T) |-> IF q = <<>> THEN {<<>>} ELSE {}]
        BY DEF b, Frame
      <3> QED
        BY <1>8, <2>1, <3>1
    <2>2. CASE n # 0
      <3>1. n \in 1 .. k /\ n - 1 \in 0 .. k
        BY <1>2, <2>2
      <3>2. f[n - 1] \in V /\ f[n] = F[f[n - 1]]
        BY <1>8, <3>1
      <3>3. f[n] = Frame(T, 1, met, al, f[n - 1])
        BY <1>5, <3>2
      <3> QED
        BY <2>2, <3>3 DEF Frame
    <2> QED
      BY <2>1, <2>2
  <1>10. f = [n \in 0 .. k |-> f[n]]
    BY <1>8
  <1>11. Eq(f)
    BY <1>9, <1>10
  <1>12. Eq(try)
    BY <1>11
  <1> HIDE DEF try
  <1>13. \A n \in 0 .. k : try[n] = [q \in Seq(T) |->
                                IF q = <<>> THEN {<<>>}
                                ELSE IF n = 0 THEN {}
                                ELSE FirstFit(q, met, al, try[n - 1])]
    BY <1>12
  <1>14. DOMAIN try = 0 .. k /\ try = [n \in 0 .. k |-> try[n]]
    BY <1>12
  <1> HIDE DEF Eq
  <1>15. \A q \in Seq(T) : try[0][q] = IF q = <<>> THEN {<<>>} ELSE {}
    <2>1. 0 \in 0 .. k
      BY <1>2
    <2> QED
      BY <1>13, <2>1
  <1>16. ASSUME NEW n \in 1 .. k, NEW q \in Seq(T)
         PROVE  try[n][q] = IF q = <<>> THEN {<<>>} ELSE FirstFit(q, met, al, try[n - 1])
    <2>1. n \in 0 .. k /\ n # 0
      BY <1>2
    <2> QED
      BY <1>13, <2>1
  <1>17. \A n \in Nat : n <= k => try[n] \in V
    <2> DEFINE G == {n \in Nat : n <= k => try[n] \in V}
    <2>1. 0 \in G
      <3>1. try[0] = [q \in Seq(T) |-> IF q = <<>> THEN {<<>>} ELSE {}]
        <4>1. 0 \in 0 .. k
          BY <1>2
        <4> QED
          BY <1>13, <4>1
      <3>2. try[0] = b
        BY <3>1 DEF b, Frame
      <3> QED
        BY <1>4, <3>2
    <2>2. ASSUME NEW n \in Nat, n \in G
          PROVE  n + 1 \in G
      <3> SUFFICES ASSUME n + 1 <= k
                   PROVE  try[n + 1] \in V
        OBVIOUS
      <3>1. n + 1 \in 0 .. k /\ n + 1 # 0 /\ (n + 1) - 1 = n /\ n <= k
        BY <1>2
      <3>2. try[n] \in V
        BY <2>2, <3>1
      <3>3. try[n + 1] = Frame(T, 1, met, al, try[n])
        BY <1>13, <3>1 DEF Frame
      <3> QED
        BY <1>5, <3>2, <3>3
    <2> HIDE DEF G
    <2>3. Nat \subseteq G
      BY <2>1, <2>2, CountUp
    <2> QED
      BY <2>3 DEF G
  <1>18. try \in [0 .. k -> V]
    <2>1. \A n \in 0 .. k : try[n] \in V
      BY <1>2, <1>17
    <2> QED
      BY <1>14, <2>1
  <1>19. Frames(try, T, k, met, al)
    BY <1>15, <1>16, <1>18 DEF Frames, V
  <1> QED
    BY <1>1, <1>19 DEF T, k

\* m seats the players of p: two at a table, nobody twice, everybody once.
PairsOff(m, p) ==
    /\ 2 * Len(m) = Len(p)
    /\ \A k \in 1 .. Len(m) : \E a, b \in ToSet(p) : a # b /\ m[k] = {a, b}
    /\ \A j, k \in 1 .. Len(m) : j # k => m[j] \cap m[k] = {}
    /\ UNION ToSet(m) = ToSet(p)

Avoids(m, met) == \A k \in 1 .. Len(m) : m[k] \notin met

\* A table for the first player and the one at i completes a round of the others.
LEMMA OneMoreTable ==
    ASSUME NEW T, NEW p \in Seq(T), Distinct(p), NEW i \in 2 .. Len(p),
           NEW rest \in Seq(SUBSET T), PairsOff(rest, RestOfPool(p, i))
    PROVE  PairsOff(<<{p[1], p[i]}>> \o rest, p)
  <1> DEFINE e == {p[1], p[i]}
             W == SUBSET T
             m == <<e>> \o rest
             r == RestOfPool(p, i)
             l == Len(rest)
  <1>1. /\ Len(r) = Len(p) - 2 /\ ToSet(r) = ToSet(p) \ e
        /\ p[1] # p[i] /\ p[1] \in ToSet(p) /\ p[i] \in ToSet(p)
    BY RestOfDistinct, RestOfPoolProperties
  <1>2. e \in W /\ rest \in Seq(W) /\ l \in Nat /\ Len(p) \in Nat
    <2>1. 1 \in 1 .. Len(p) /\ i \in 1 .. Len(p)
      OBVIOUS
    <2>2. p[1] \in T /\ p[i] \in T
      BY <2>1, ElementOfSeq
    <2> QED
      BY <2>2
  <1>3. /\ 2 * l = Len(r)
        /\ \A k \in 1 .. l : \E a, b \in ToSet(r) : a # b /\ rest[k] = {a, b}
        /\ \A j, k \in 1 .. l : j # k => rest[j] \cap rest[k] = {}
        /\ UNION ToSet(rest) = ToSet(r)
    BY DEF PairsOff
  <1> HIDE DEF e, W, r
  <1>4. /\ Len(m) = l + 1 /\ m[1] = e
        /\ \A k \in 1 .. l : m[k + 1] = rest[k]
        /\ ToSet(m) = {e} \cup ToSet(rest)
    BY <1>2, ConsProperties
  <1> HIDE DEF m
  <1>4a. \A k \in 1 .. l : rest[k] \in ToSet(rest)
    BY <1>2 DEF ToSet
  <1> HIDE DEF l
  <1>5. \A k \in 1 .. l + 1 : k = 1 \/ (k - 1 \in 1 .. l /\ m[k] = rest[k - 1])
    <2> SUFFICES ASSUME NEW k \in 1 .. l + 1, k # 1
                 PROVE  k - 1 \in 1 .. l /\ m[k] = rest[k - 1]
      OBVIOUS
    <2>1. k - 1 \in 1 .. l /\ (k - 1) + 1 = k
      BY <1>2
    <2> QED
      BY <1>4, <2>1
  <1>6. 2 * Len(m) = Len(p)
    BY <1>1, <1>2, <1>3, <1>4
  <1>7. ASSUME NEW k \in 1 .. l + 1
        PROVE  \E a, b \in ToSet(p) : a # b /\ m[k] = {a, b}
    <2>1. CASE k = 1
      <3>1. m[k] = {p[1], p[i]}
        BY <1>4, <2>1 DEF e
      <3> QED
        BY <1>1, <3>1
    <2>2. CASE k # 1
      <3>1. k - 1 \in 1 .. l /\ m[k] = rest[k - 1]
        BY <1>5, <2>2
      <3> QED
        BY <1>1, <1>3, <3>1
    <2> QED
      BY <2>1, <2>2
  <1>8. \A k \in 1 .. l : rest[k] \cap e = {}
    <2> SUFFICES ASSUME NEW k \in 1 .. l
                 PROVE  rest[k] \cap e = {}
      OBVIOUS
    <2>1. rest[k] \subseteq ToSet(r)
      BY <1>3, <1>4a
    <2> QED
      BY <1>1, <2>1
  <1>9. ASSUME NEW j \in 1 .. l + 1, NEW k \in 1 .. l + 1, j # k
        PROVE  m[j] \cap m[k] = {}
    <2>1. CASE j = 1
      <3>1. k - 1 \in 1 .. l /\ m[k] = rest[k - 1] /\ m[j] = e
        BY <1>4, <1>5, <1>9, <2>1
      <3> QED
        BY <1>8, <3>1
    <2>2. CASE k = 1
      <3>1. j - 1 \in 1 .. l /\ m[j] = rest[j - 1] /\ m[k] = e
        BY <1>4, <1>5, <1>9, <2>2
      <3> QED
        BY <1>8, <3>1
    <2>3. CASE j # 1 /\ k # 1
      <3>1. j - 1 \in 1 .. l /\ m[j] = rest[j - 1] /\ k - 1 \in 1 .. l /\ m[k] = rest[k - 1]
        BY <1>5, <2>3
      <3>2. j - 1 # k - 1
        BY <1>9
      <3> QED
        BY <1>3, <3>1, <3>2
    <2> QED
      BY <2>1, <2>2, <2>3
  <1>10. UNION ToSet(m) = ToSet(p)
    <2>1. UNION ToSet(m) = e \cup UNION ToSet(rest)
      BY <1>4
    <2>2. e \subseteq ToSet(p)
      BY <1>1 DEF e
    <2> QED
      BY <1>1, <1>3, <2>1, <2>2
  <1>11. PairsOff(m, p)
    BY <1>4, <1>6, <1>7, <1>9, <1>10 DEF PairsOff
  <1> QED
    BY <1>11 DEF m, e

\* A new pair in front of a round without rematches keeps it so.
LEMMA OneMoreAvoids ==
    ASSUME NEW W, NEW e \in W, NEW rest \in Seq(W), NEW met, e \notin met, Avoids(rest, met)
    PROVE  Avoids(<<e>> \o rest, met)
  <1> DEFINE m == <<e>> \o rest
             l == Len(rest)
  <1>1. l \in Nat /\ Len(m) = l + 1 /\ m[1] = e /\ \A k \in 1 .. l : m[k + 1] = rest[k]
    BY ConsProperties
  <1>2. \A k \in 1 .. l : rest[k] \notin met
    BY DEF Avoids
  <1> HIDE DEF m, l
  <1>3. ASSUME NEW k \in 1 .. l + 1
        PROVE  m[k] \notin met
    <2>1. CASE k = 1
      BY <1>1, <2>1
    <2>2. CASE k # 1
      <3>1. k - 1 \in 1 .. l /\ (k - 1) + 1 = k
        BY <1>1, <2>2
      <3> QED
        BY <1>1, <1>2, <3>1
    <2> QED
      BY <2>1, <2>2
  <1>4. Avoids(m, met)
    BY <1>1, <1>3 DEF Avoids
  <1> QED
    BY <1>4 DEF m

\* The empty round pairs off nobody.
LEMMA NobodyToPair == PairsOff(<<>>, <<>>) /\ \A met : Avoids(<<>>, met)
  <1>1. Len(<<>>) = 0 /\ ToSet(<<>>) = {} /\ UNION ToSet(<<>>) = {} /\ 1 .. 0 = {} /\ 2 * 0 = 0
    BY DEF ToSet
  <1> QED
    BY <1>1 DEF PairsOff, Avoids

\* What every frame finds pairs its pool off, without rematches unless they
\* are allowed.
LEMMA FramesSound ==
    ASSUME NEW T, NEW k \in Nat, NEW met, NEW al, NEW f, Frames(f, T, k, met, al)
    PROVE  \A n \in 0 .. k : \A p \in Seq(T) : Distinct(p) =>
             \A m \in f[n][p] : PairsOff(m, p) /\ (al \/ Avoids(m, met))
  <1> DEFINE Sound(m, p) == PairsOff(m, p) /\ (al \/ Avoids(m, met))
             G == {n \in Nat : n <= k => \A p \in Seq(T) : Distinct(p) =>
                        \A m \in f[n][p] : Sound(m, p)}
  <1>1. \A n \in 0 .. k : f[n] \in Findings(T)
    BY DEF Frames
  <1>2. Sound(<<>>, <<>>)
    BY NobodyToPair
  <1>3. 0 \in G
    <2>1. \A p \in Seq(T) : \A m \in f[0][p] : p = <<>> /\ m = <<>>
      BY DEF Frames
    <2> HIDE DEF Sound
    <2> QED
      BY <1>2, <2>1
  <1>4. ASSUME NEW n \in Nat, n \in G
        PROVE  n + 1 \in G
    <2> SUFFICES ASSUME n + 1 <= k, NEW p \in Seq(T), Distinct(p), NEW m \in f[n + 1][p]
                 PROVE  Sound(m, p)
      OBVIOUS
    <2>1. n + 1 \in 1 .. k /\ n \in 0 .. k /\ n <= k /\ (n + 1) - 1 = n
      OBVIOUS
    <2>2. f[n + 1][p] = IF p = <<>> THEN {<<>>} ELSE FirstFit(p, met, al, f[n])
      BY <2>1 DEF Frames
    <2>3. CASE p = <<>>
      <3>1. m = <<>>
        BY <2>2, <2>3
      <3> QED
        BY <1>2, <2>3, <3>1, Zenon
    <2>4. CASE p # <<>>
      <3>1. PICK i \in 2 .. Len(p) : Fits(p, i, met, al, f[n]) /\ Extends(m, p, i, f[n])
        BY <2>2, <2>4, FirstFitFinds
      <3> DEFINE r == RestOfPool(p, i)
                 e == {p[1], p[i]}
      <3>2. r \in Seq(T) /\ Distinct(r)
        BY RestOfPoolProperties, RestOfDistinct
      <3>3. f[n][r] \in SUBSET Seq(SUBSET T)
        BY <1>1, <2>1, <3>2 DEF Findings
      <3>4. PICK rest \in Seq(SUBSET T) : rest \in f[n][r] /\ m = <<e>> \o rest
        BY <3>1, <3>3, Zenon DEF Extends
      <3>5. Sound(rest, r)
        BY <1>4, <2>1, <3>2, <3>4
      <3>6. PairsOff(m, p)
        BY <3>4, <3>5, OneMoreTable
      <3>7. CASE ~al
        <4>1. e \notin met /\ Avoids(rest, met)
          BY <3>1, <3>5, <3>7 DEF Fits
        <4>2. e \in SUBSET T
          <5>1. 1 \in 1 .. Len(p) /\ i \in 1 .. Len(p)
            OBVIOUS
          <5>2. p[1] \in T /\ p[i] \in T
            BY <5>1, ElementOfSeq
          <5> QED
            BY <5>2
        <4> DEFINE W == SUBSET T
        <4> HIDE DEF W, e
        <4>3. e \in W /\ rest \in Seq(W)
          BY <3>4, <4>2 DEF W
        <4>4. Avoids(<<e>> \o rest, met)
          BY <4>1, <4>3, OneMoreAvoids
        <4> QED
          BY <3>4, <3>6, <4>4
      <3> QED
        BY <3>6, <3>7
    <2> QED
      BY <2>3, <2>4
  <1> HIDE DEF G
  <1>5. Nat \subseteq G
    BY <1>3, <1>4, CountUp
  <1> QED
    BY <1>5 DEF G

\* M is a set of disjoint pairs that covers P.
PerfectMatching(M, P) ==
    /\ \A e \in M : \E a, b \in P : a # b /\ e = {a, b}
    /\ \A d, e \in M : d # e => d \cap e = {}
    /\ UNION M = P

\* A matching without one of its pairs matches the others.
LEMMA MatchingWithout ==
    ASSUME NEW M, NEW P, PerfectMatching(M, P), NEW e \in M
    PROVE  PerfectMatching(M \ {e}, P \ e)
  <1>1. ASSUME NEW d \in M \ {e}
        PROVE  \E a, b \in P \ e : a # b /\ d = {a, b}
    <2>1. PICK a, b \in P : a # b /\ d = {a, b}
      BY DEF PerfectMatching
    <2>2. d \cap e = {}
      BY DEF PerfectMatching
    <2> QED
      BY <2>1, <2>2
  <1>2. UNION (M \ {e}) = P \ e
    <2>1. UNION M = P /\ \A d \in M \ {e} : d \cap e = {}
      BY DEF PerfectMatching
    <2> QED
      BY <2>1
  <1>3. \A c, d \in M \ {e} : c # d => c \cap d = {}
    BY DEF PerfectMatching
  <1> QED
    BY <1>1, <1>2, <1>3 DEF PerfectMatching

\* A matching gives every player a partner.
LEMMA MatchingPartner ==
    ASSUME NEW M, NEW P, PerfectMatching(M, P), NEW x \in P
    PROVE  \E y \in P : x # y /\ {x, y} \in M
  <1>1. PICK e \in M : x \in e
    BY DEF PerfectMatching
  <1>2. PICK a, b \in P : a # b /\ e = {a, b}
    BY DEF PerfectMatching
  <1>3. CASE x = a
    BY <1>1, <1>2, <1>3
  <1>4. CASE x = b
    <2>1. {x, a} = e
      BY <1>2, <1>4
    <2> QED
      BY <1>1, <1>2, <1>4, <2>1
  <1> QED
    BY <1>1, <1>2, <1>3, <1>4

\* The position of a player's partner in a pool whose first player he is not.
LEMMA PositionOf ==
    ASSUME NEW T, NEW p \in Seq(T), p # <<>>, NEW y \in ToSet(p), y # p[1]
    PROVE  \E i \in 2 .. Len(p) : y = p[i]
  <1>1. PICK i \in 1 .. Len(p) : y = p[i]
    BY DEF ToSet
  <1>2. i # 1 /\ Len(p) \in Nat
    BY <1>1
  <1>3. i \in 2 .. Len(p)
    BY <1>2
  <1> QED
    BY <1>1, <1>3

\* A frame finds something whenever its pool can be matched at all.
LEMMA FramesComplete ==
    ASSUME NEW T, NEW k \in Nat, NEW met, NEW al, NEW f, Frames(f, T, k, met, al)
    PROVE  \A n \in 0 .. k : \A p \in Seq(T) : Distinct(p) /\ Len(p) = 2 * n =>
             \A M : PerfectMatching(M, ToSet(p)) /\ (al \/ M \cap met = {}) => f[n][p] # {}
  <1> DEFINE Wanted(M, p) == PerfectMatching(M, ToSet(p)) /\ (al \/ M \cap met = {})
             G == {n \in Nat : n <= k => \A p \in Seq(T) : Distinct(p) /\ Len(p) = 2 * n =>
                        \A M : Wanted(M, p) => f[n][p] # {}}
  <1>1. 0 \in G
    <2>1. ASSUME NEW p \in Seq(T), Len(p) = 2 * 0
          PROVE  f[0][p] # {}
      <3>1. p = <<>>
        BY <2>1
      <3> QED
        BY <3>1 DEF Frames
    <2> HIDE DEF Wanted
    <2> QED
      BY <2>1
  <1>2. ASSUME NEW n \in Nat, n \in G
        PROVE  n + 1 \in G
    <2> SUFFICES ASSUME n + 1 <= k, NEW p \in Seq(T), Distinct(p), Len(p) = 2 * (n + 1),
                        NEW M, Wanted(M, p)
                 PROVE  f[n + 1][p] # {}
      OBVIOUS
    <2>1. n + 1 \in 1 .. k /\ n \in 0 .. k /\ n <= k /\ (n + 1) - 1 = n
      OBVIOUS
    <2>2. p # <<>> /\ 1 \in 1 .. Len(p) /\ Len(p) - 2 = 2 * n
      OBVIOUS
    <2>3. f[n + 1][p] = FirstFit(p, met, al, f[n])
      BY <2>1, <2>2 DEF Frames
    <2>4. p[1] \in ToSet(p)
      BY <2>2 DEF ToSet
    <2>5. PICK y \in ToSet(p) : p[1] # y /\ {p[1], y} \in M
      BY <2>4, MatchingPartner
    <2>6. PICK i \in 2 .. Len(p) : y = p[i]
      BY <2>2, <2>5, PositionOf
    <2> DEFINE r == RestOfPool(p, i)
               e == {p[1], p[i]}
    <2>7. r \in Seq(T) /\ Distinct(r) /\ ToSet(r) = ToSet(p) \ e /\ Len(r) = 2 * n
      BY <2>2, RestOfPoolProperties, RestOfDistinct
    <2>8. PerfectMatching(M \ {e}, ToSet(r))
      <3>1. e \in M
        BY <2>5, <2>6
      <3> HIDE DEF e, r
      <3>2. PerfectMatching(M \ {e}, ToSet(p) \ e)
        BY <3>1, MatchingWithout
      <3> QED
        BY <2>7, <3>2
    <2>9. al \/ (M \ {e}) \cap met = {}
      OBVIOUS
    <2>10. f[n][r] # {}
      <3>1. Wanted(M \ {e}, r)
        BY <2>8, <2>9
      <3> HIDE DEF Wanted, r, e
      <3> QED
        BY <1>2, <2>1, <2>7, <3>1
    <2>11. Fits(p, i, met, al, f[n])
      <3>1. al \/ e \notin met
        BY <2>5, <2>6
      <3> QED
        BY <2>10, <3>1 DEF Fits
    <2> QED
      BY <2>3, <2>11, FirstFitFinds
  <1> HIDE DEF G
  <1>3. Nat \subseteq G
    BY <1>1, <1>2, CountUp
  <1> QED
    BY <1>3 DEF G

\* With rematches allowed a frame matches every pool of its size.
LEMMA FramesTotal ==
    ASSUME NEW T, NEW k \in Nat, NEW met, NEW f, Frames(f, T, k, met, TRUE)
    PROVE  \A n \in 0 .. k : \A p \in Seq(T) : Len(p) = 2 * n => f[n][p] # {}
  <1> DEFINE G == {n \in Nat : n <= k => \A p \in Seq(T) : Len(p) = 2 * n => f[n][p] # {}}
  <1>1. 0 \in G
    <2>1. ASSUME NEW p \in Seq(T), Len(p) = 2 * 0
          PROVE  f[0][p] # {}
      <3>1. p = <<>>
        BY <2>1
      <3> QED
        BY <3>1 DEF Frames
    <2> QED
      BY <2>1
  <1>2. ASSUME NEW n \in Nat, n \in G
        PROVE  n + 1 \in G
    <2> SUFFICES ASSUME n + 1 <= k, NEW p \in Seq(T), Len(p) = 2 * (n + 1)
                 PROVE  f[n + 1][p] # {}
      OBVIOUS
    <2>1. n + 1 \in 1 .. k /\ n \in 0 .. k /\ n <= k /\ (n + 1) - 1 = n
      OBVIOUS
    <2>2. p # <<>> /\ 2 \in 2 .. Len(p) /\ Len(p) - 2 = 2 * n
      OBVIOUS
    <2>3. f[n + 1][p] = FirstFit(p, met, TRUE, f[n])
      BY <2>1, <2>2 DEF Frames
    <2>4. RestOfPool(p, 2) \in Seq(T) /\ Len(RestOfPool(p, 2)) = 2 * n
      BY <2>2, RestOfPoolProperties
    <2>5. f[n][RestOfPool(p, 2)] # {}
      BY <1>2, <2>1, <2>4
    <2>6. Fits(p, 2, met, TRUE, f[n])
      BY <2>5 DEF Fits
    <2> QED
      BY <2>2, <2>3, <2>6, FirstFitFinds
  <1> HIDE DEF G
  <1>3. Nat \subseteq G
    BY <1>1, <1>2, CountUp
  <1> QED
    BY <1>3 DEF G

-----------------------------------------------------------------------------
(* What pair_pool_avoiding_rematches promises.                             *)

\* Halves of even numbers.
LEMMA HalfOf ==
    ASSUME NEW n \in Nat, NEW j \in Nat, n = 2 * j
    PROVE  n \div 2 = j /\ n % 2 = 0
  OBVIOUS

\* A pool is a sequence of its own players.
LEMMA SeqOfToSet ==
    ASSUME NEW U, NEW p \in Seq(U)
    PROVE  p \in Seq(ToSet(p)) /\ Len(p) \in Nat /\ Len(p) \div 2 \in Nat
  <1>1. Len(p) \in Nat /\ p \in [1 .. Len(p) -> U] /\ DOMAIN p = 1 .. Len(p)
    OBVIOUS
  <1>2. \A i \in 1 .. Len(p) : p[i] \in ToSet(p)
    BY <1>1 DEF ToSet
  <1>3. p \in [1 .. Len(p) -> ToSet(p)]
    BY <1>1, <1>2
  <1> DEFINE n == Len(p)
  <1>4. n \div 2 \in Nat
    <2>1. n \in Nat
      BY <1>1
    <2> HIDE DEF n
    <2> QED
      BY <2>1
  <1>5. p \in Seq(ToSet(p))
    BY <1>1, <1>3
  <1> QED
    BY <1>1, <1>4, <1>5

\* Whatever pair_pool_avoiding_rematches finds seats every player of the pool at
\* one table, and has no rematch unless rematches are allowed.
LEMMA PairPoolSound ==
    ASSUME NEW U, NEW p \in Seq(U), Distinct(p), NEW met, NEW al,
           NEW m \in PairPool(p, met, al)
    PROVE  m \in Seq(SUBSET ToSet(p)) /\ PairsOff(m, p) /\ (al \/ Avoids(m, met))
  <1> DEFINE T == ToSet(p)
             k == Len(p) \div 2
  <1>1. p \in Seq(T) /\ k \in Nat
    BY SeqOfToSet
  <1>2. PICK f : Frames(f, T, k, met, al) /\ PairPool(p, met, al) = f[k][p]
    BY PairPoolFrames
  <1> HIDE DEF T, k
  <1>3. k \in 0 .. k
    BY <1>1
  <1>4. f[k][p] \in SUBSET Seq(SUBSET T)
    BY <1>1, <1>2, <1>3 DEF Frames, Findings
  <1>5. PairsOff(m, p) /\ (al \/ Avoids(m, met))
    BY <1>1, <1>2, <1>3, FramesSound
  <1> QED
    BY <1>2, <1>4, <1>5 DEF T

\* It finds something if the pool can be paired off at all.
LEMMA PairPoolComplete ==
    ASSUME NEW U, NEW p \in Seq(U), Distinct(p), Len(p) % 2 = 0, NEW met, NEW al,
           NEW M, PerfectMatching(M, ToSet(p)), al \/ M \cap met = {}
    PROVE  PairPool(p, met, al) # {}
  <1> DEFINE T == ToSet(p)
             k == Len(p) \div 2
             n == Len(p)
  <1>1. p \in Seq(T) /\ k \in Nat /\ n \in Nat
    BY SeqOfToSet
  <1>2. PICK f : Frames(f, T, k, met, al) /\ PairPool(p, met, al) = f[k][p]
    BY PairPoolFrames
  <1>3. n = 2 * k
    <2>1. n % 2 = 0 /\ n \in Nat
      BY <1>1
    <2> HIDE DEF n
    <2>2. n = 2 * (n \div 2)
      BY <2>1
    <2> QED
      BY <2>2 DEF n
  <1> HIDE DEF T, k
  <1>4. k \in 0 .. k
    BY <1>1
  <1>5. f[k][p] # {}
    BY <1>1, <1>2, <1>3, <1>4, FramesComplete DEF T
  <1> QED
    BY <1>2, <1>5

\* First fit with rematches succeeds on every even pool.
LEMMA PairPoolTotal ==
    ASSUME NEW U, NEW p \in Seq(U), Len(p) % 2 = 0, NEW met
    PROVE  PairPool(p, met, TRUE) # {}
  <1> DEFINE T == ToSet(p)
             k == Len(p) \div 2
             n == Len(p)
  <1>1. p \in Seq(T) /\ k \in Nat /\ n \in Nat
    BY SeqOfToSet
  <1>2. PICK f : Frames(f, T, k, met, TRUE) /\ PairPool(p, met, TRUE) = f[k][p]
    BY PairPoolFrames
  <1>3. n = 2 * k
    <2>1. n % 2 = 0 /\ n \in Nat
      BY <1>1
    <2> HIDE DEF n
    <2>2. n = 2 * (n \div 2)
      BY <2>1
    <2> QED
      BY <2>2 DEF n
  <1> HIDE DEF T, k
  <1>4. k \in 0 .. k
    BY <1>1
  <1>5. f[k][p] # {}
    BY <1>1, <1>2, <1>3, <1>4, FramesTotal
  <1> QED
    BY <1>2, <1>5

\* A pool of distinct players has as many players as places.
LEMMA SizeOfPool ==
    ASSUME NEW U, NEW p \in Seq(U), Distinct(p)
    PROVE  IsFiniteSet(ToSet(p)) /\ Cardinality(ToSet(p)) = Len(p)
  <1> DEFINE n == Len(p)
             T == ToSet(p)
  <1>1. n \in Nat /\ p \in [1 .. n -> T] /\ DOMAIN p = 1 .. n
    <2>1. p \in Seq(T)
      BY SeqOfToSet
    <2> HIDE DEF T
    <2> QED
      BY <2>1
  <1>2. \A t \in T : \E i \in 1 .. n : p[i] = t
    BY <1>1 DEF ToSet
  <1>3. \A i, j \in 1 .. n : p[i] = p[j] => i = j
    BY DEF Distinct
  <1> HIDE DEF n, T
  <1>4. p \in Bijection(1 .. n, T)
    BY <1>1, <1>2, <1>3 DEF Bijection, Injection, Surjection, IsInjective
  <1>5. ExistsBijection(1 .. n, T)
    BY <1>4 DEF ExistsBijection
  <1>6. IsFiniteSet(1 .. n) /\ Cardinality(1 .. n) = n
    <2>1. IsFiniteSet(1 .. n) /\ Cardinality(1 .. n) = IF 1 > n THEN 0 ELSE n - 1 + 1
      BY <1>1, FS_Interval
    <2> QED
      BY <1>1, <2>1
  <1>7. IsFiniteSet(T) /\ Cardinality(T) = Cardinality(1 .. n)
    BY <1>5, <1>6, FS_Bijection
  <1> QED
    BY <1>6, <1>7 DEF n, T

\* A pool without one of its players.
LEMMA RemoveAtDistinct ==
    ASSUME NEW T, NEW p \in Seq(T), Distinct(p), NEW i \in 1 .. Len(p)
    PROVE  /\ RemoveAt(p, i) \in Seq(T) /\ Len(RemoveAt(p, i)) = Len(p) - 1
           /\ Distinct(RemoveAt(p, i))
           /\ ToSet(RemoveAt(p, i)) = ToSet(p) \ {p[i]}
           /\ p[i] \in ToSet(p)
  <1> DEFINE n == Len(p)
             r == RemoveAt(p, i)
             at(k) == IF k < i THEN k ELSE k + 1
  <1>1. n \in Nat /\ i \in 1 .. n /\ DOMAIN p = 1 .. n
    OBVIOUS
  <1>2. r \in Seq(T) /\ Len(r) = n - 1 /\ \A k \in 1 .. n - 1 : r[k] = p[at(k)]
    <2>1. /\ r \in Seq(T) /\ Len(r) = n - 1
          /\ \A k \in 1 .. n - 1 : r[k] = IF k < i THEN p[k] ELSE p[k + 1]
      BY RemoveAtProperties
    <2> HIDE DEF r, n
    <2> QED
      BY <2>1
  <1>3. DOMAIN r = 1 .. n - 1
    BY <1>2
  <1>4. \A a, b \in 1 .. n : p[a] = p[b] => a = b
    BY DEF Distinct
  <1> HIDE DEF n, r
  <1>5. \A k \in 1 .. n - 1 : at(k) \in 1 .. n /\ at(k) # i
    BY <1>1
  <1>6. \A k, l \in 1 .. n - 1 : at(k) = at(l) => k = l
    BY <1>1
  <1>7. \A j \in 1 .. n : j # i => \E k \in 1 .. n - 1 : at(k) = j
    <2> SUFFICES ASSUME NEW j \in 1 .. n, j # i
                 PROVE  \E k \in 1 .. n - 1 : at(k) = j
      OBVIOUS
    <2>1. CASE j < i
      <3>1. j \in 1 .. n - 1 /\ at(j) = j
        BY <1>1, <2>1
      <3> QED
        BY <3>1
    <2>2. CASE j > i
      <3>1. j - 1 \in 1 .. n - 1 /\ at(j - 1) = j
        BY <1>1, <2>2
      <3> QED
        BY <3>1
    <2> QED
      BY <1>1, <2>1, <2>2
  <1> HIDE DEF at
  <1>8. \A k, l \in 1 .. n - 1 : r[k] = r[l] => k = l
    BY <1>2, <1>4, <1>5, <1>6
  <1>9. Distinct(r)
    BY <1>2, <1>8 DEF Distinct
  <1>10. p[i] \in ToSet(p)
    BY <1>1 DEF ToSet
  <1>11. ASSUME NEW x \in ToSet(r)
         PROVE  x \in ToSet(p) \ {p[i]}
    <2>1. PICK k \in 1 .. n - 1 : x = r[k]
      BY <1>3 DEF ToSet
    <2>2. x = p[at(k)] /\ at(k) \in 1 .. n /\ at(k) # i
      BY <1>2, <1>5, <2>1
    <2> QED
      BY <1>1, <1>4, <2>2 DEF ToSet
  <1>12. ASSUME NEW x \in ToSet(p) \ {p[i]}
         PROVE  x \in ToSet(r)
    <2>1. PICK j \in 1 .. n : x = p[j]
      BY <1>1 DEF ToSet
    <2>2. j # i
      BY <2>1
    <2>3. PICK k \in 1 .. n - 1 : at(k) = j
      BY <1>7, <2>2
    <2>4. r[k] = x
      BY <1>2, <2>1, <2>3
    <2> QED
      BY <1>3, <2>4 DEF ToSet
  <1> QED
    BY <1>2, <1>9, <1>10, <1>11, <1>12 DEF r, n

\* An even pool is paired off, and found without rematches if that is possible.
LEMMA PairEvenPoolSound ==
    ASSUME NEW U, NEW p \in Seq(U), Distinct(p), Len(p) % 2 = 0, NEW met
    PROVE  /\ PairEvenPool(p, met) \in Seq(SUBSET ToSet(p))
           /\ PairsOff(PairEvenPool(p, met), p)
           /\ PairPool(p, met, FALSE) # {} => PairEvenPool(p, met) \in PairPool(p, met, FALSE)
  <1> DEFINE m == PairEvenPool(p, met)
             F == PairPool(p, met, FALSE)
             A == PairPool(p, met, TRUE)
  <1>1. A # {}
    BY PairPoolTotal
  <1>2. m = The(IF F # {} THEN F ELSE A)
    BY DEF PairEvenPool
  <1> HIDE DEF F, A, m
  <1>3. F # {} => m \in F
    BY <1>2 DEF The
  <1>4. F = {} => m \in A
    BY <1>1, <1>2 DEF The
  <1>5. m \in Seq(SUBSET ToSet(p)) /\ PairsOff(m, p)
    <2>1. CASE F # {}
      BY <1>3, <2>1, PairPoolSound DEF F
    <2>2. CASE F = {}
      BY <1>4, <2>2, PairPoolSound DEF A
    <2> QED
      BY <2>1, <2>2
  <1> QED
    BY <1>3, <1>5 DEF F, m

\* The bye of an odd pool: the lowest player without whom the others can be
\* paired rematch-free, if there is one.
Admissible(p, met, i) == PairPool(RemoveAt(p, i), met, FALSE) # {}

\* The bye goes to the last player without whom the others can avoid rematches.
LEMMA ByePositionSound ==
    ASSUME NEW U, NEW p \in Seq(U), Len(p) # 0, NEW met
    PROVE  /\ ByePosition(p, met) \in 1 .. Len(p)
           /\ \A i \in 1 .. Len(p) : Admissible(p, met, i) =>
                /\ i <= ByePosition(p, met)
                /\ Admissible(p, met, ByePosition(p, met))
  <1> DEFINE n == Len(p)
             Q == {i \in 1 .. n : PairPool(RemoveAt(p, i), met, FALSE) # {}}
             b == ByePosition(p, met)
  <1>1. n \in Nat \ {0}
    OBVIOUS
  <1>2. b = IF Q = {} THEN n ELSE Max(Q)
    BY DEF ByePosition
  <1> HIDE DEF b, n
  <1>3. \A i \in 1 .. n : Admissible(p, met, i) <=> i \in Q
    BY DEF Admissible
  <1>4. Q \in SUBSET (0 .. n) /\ Q \subseteq 1 .. n
    <2>1. 1 .. n \subseteq 0 .. n
      BY <1>1
    <2>2. Q \subseteq 1 .. n
      BY Zenon
    <2> HIDE DEF Q
    <2> QED
      BY <2>1, <2>2, Zenon
  <1> HIDE DEF Q
  <1>5. Q # {} => b \in Q /\ \A i \in Q : i <= b
    <2>1. Q # {} => Max(Q) \in Q /\ \A i \in Q : i <= Max(Q)
      BY <1>1, <1>4, MaxOfSet
    <2> QED
      BY <1>2, <2>1
  <1>6. b \in 1 .. n
    <2>1. n \in 1 .. n
      BY <1>1
    <2> QED
      BY <1>2, <1>4, <1>5, <2>1
  <1> QED
    BY <1>3, <1>5, <1>6 DEF b, n

\* The two ways a Swiss round is made.
LEMMA PairSwissEven ==
    ASSUME NEW p, NEW met, Len(p) % 2 = 0
    PROVE  PairSwiss(p, met).paired = PairEvenPool(p, met) /\ PairSwiss(p, met).bye = {}
  BY DEF PairSwiss

\* An odd pod is paired without its bye.
LEMMA PairSwissOdd ==
    ASSUME NEW p, NEW met, Len(p) % 2 # 0
    PROVE  /\ PairSwiss(p, met).paired = PairEvenPool(RemoveAt(p, ByePosition(p, met)), met)
           /\ PairSwiss(p, met).bye = {p[ByePosition(p, met)]}
  BY DEF PairSwiss

\* A round: tables of two players each, disjoint.
Round(m, P) ==
    /\ m \in Seq(SUBSET P)
    /\ \A k \in 1 .. Len(m) : \E a, b \in P : a # b /\ m[k] = {a, b}
    /\ \A j, k \in 1 .. Len(m) : j # k => m[j] \cap m[k] = {}
    /\ Cardinality(UNION ToSet(m)) = 2 * Len(m)

\* A round that pairs a pool off seats its players once.
LEMMA PairsOffIsRound ==
    ASSUME NEW U, NEW p \in Seq(U), Distinct(p), NEW P, ToSet(p) \subseteq P,
           NEW m \in Seq(SUBSET ToSet(p)), PairsOff(m, p)
    PROVE  Round(m, P)
  <1>1. m \in Seq(SUBSET P)
    <2>1. SUBSET ToSet(p) \subseteq SUBSET P
      OBVIOUS
    <2> DEFINE V == SUBSET ToSet(p)
               W == SUBSET P
    <2> HIDE DEF V, W
    <2>2. m \in Seq(V) /\ V \subseteq W
      BY <2>1 DEF V, W
    <2>3. m \in Seq(W)
      BY <2>2, SeqMonotonic
    <2> QED
      BY <2>3 DEF W
  <1>2. Cardinality(UNION ToSet(m)) = 2 * Len(m)
    <2>1. Cardinality(ToSet(p)) = Len(p)
      BY SizeOfPool
    <2> QED
      BY <2>1 DEF PairsOff
  <1>3. \A k \in 1 .. Len(m) : \E a, b \in P : a # b /\ m[k] = {a, b}
    BY DEF PairsOff
  <1>4. \A j, k \in 1 .. Len(m) : j # k => m[j] \cap m[k] = {}
    BY DEF PairsOff
  <1> QED
    BY <1>1, <1>2, <1>3, <1>4 DEF Round

\* Remainders of two.
LEMMA Parity ==
    ASSUME NEW n \in Nat
    PROVE  /\ n % 2 \in {0, 1}
           /\ n % 2 # 0 => n # 0 /\ (n - 1) % 2 = 0 /\ n % 2 = 1
           /\ n \div 2 \in Nat /\ n = 2 * (n \div 2) + (n % 2)
  OBVIOUS

\* A Swiss round seats everybody once, but for the bye of an odd pod.
LEMMA PairSwissSound ==
    ASSUME NEW U, NEW p \in Seq(U), Distinct(p), NEW met
    PROVE  /\ Round(PairSwiss(p, met).paired, ToSet(p))
           /\ PairSwiss(p, met).bye = ToSet(p) \ UNION ToSet(PairSwiss(p, met).paired)
           /\ Cardinality(PairSwiss(p, met).bye) = Len(p) % 2
  <1> DEFINE n == Len(p)
             s == PairSwiss(p, met)
  <1>0. n \in Nat
    OBVIOUS
  <1>1. CASE n % 2 = 0
    <2>1. s.paired = PairEvenPool(p, met) /\ s.bye = {}
      BY <1>1, PairSwissEven
    <2>2. s.paired \in Seq(SUBSET ToSet(p)) /\ PairsOff(s.paired, p)
      BY <1>1, <2>1, PairEvenPoolSound
    <2>3. UNION ToSet(s.paired) = ToSet(p)
      BY <2>2 DEF PairsOff
    <2>4. Round(s.paired, ToSet(p))
      BY <2>2, PairsOffIsRound
    <2> HIDE DEF s, n
    <2>5. Cardinality(s.bye) = n % 2
      BY <1>1, <2>1, FS_EmptySet
    <2> QED
      BY <2>1, <2>3, <2>4, <2>5 DEF s, n
  <1>2. CASE n % 2 # 0
    <2> DEFINE b == ByePosition(p, met)
               r == RemoveAt(p, b)
    <2>1. s.paired = PairEvenPool(r, met) /\ s.bye = {p[b]}
      BY <1>2, PairSwissOdd
    <2>2. n # 0 /\ (n - 1) % 2 = 0 /\ n % 2 = 1
      <3> HIDE DEF n
      <3> QED
        BY <1>0, <1>2, Parity
    <2>3. b \in 1 .. n
      BY <2>2, ByePositionSound
    <2> HIDE DEF b
    <2>4. /\ r \in Seq(U) /\ Len(r) = n - 1 /\ Distinct(r) /\ ToSet(r) = ToSet(p) \ {p[b]}
          /\ p[b] \in ToSet(p)
      BY <2>3, RemoveAtDistinct
    <2> HIDE DEF s, n, r
    <2>5. s.paired \in Seq(SUBSET ToSet(r)) /\ PairsOff(s.paired, r)
      <3>1. Len(r) % 2 = 0
        BY <2>2, <2>4
      <3>2. PairEvenPool(r, met) \in Seq(SUBSET ToSet(r)) /\ PairsOff(PairEvenPool(r, met), r)
        BY <2>4, <3>1, PairEvenPoolSound, Zenon
      <3> QED
        BY <2>1, <3>2
    <2>6. UNION ToSet(s.paired) = ToSet(r)
      BY <2>5 DEF PairsOff
    <2>7. Round(s.paired, ToSet(p))
      <3>1. ToSet(r) \subseteq ToSet(p)
        BY <2>4
      <3> QED
        BY <2>4, <2>5, <3>1, PairsOffIsRound
    <2>8. s.bye = ToSet(p) \ UNION ToSet(s.paired)
      BY <2>1, <2>4, <2>6
    <2>9. Cardinality(s.bye) = n % 2
      BY <2>1, <2>2, FS_Singleton
    <2> QED
      BY <2>7, <2>8, <2>9 DEF s, n
  <1> QED
    BY <1>1, <1>2

-----------------------------------------------------------------------------
(* The search against the enumeration of all rounds.                       *)

\* Sets of pairs cover at most two players for each pair.
LEMMA PairsCover ==
    ASSUME NEW M, IsFiniteSet(M), \A e \in M : IsFiniteSet(e) /\ Cardinality(e) = 2
    PROVE  IsFiniteSet(UNION M) /\ Cardinality(UNION M) <= 2 * Cardinality(M)
  <1> DEFINE OfPairs(X) == IsFiniteSet(X) /\ \A e \in X : IsFiniteSet(e) /\ Cardinality(e) = 2
             Small(X, n) == IsFiniteSet(UNION X) /\ Cardinality(UNION X) <= 2 * n
             G == {n \in Nat : \A X : OfPairs(X) /\ Cardinality(X) = n => Small(X, n)}
  <1>1. 0 \in G
    <2>1. ASSUME NEW X, OfPairs(X), Cardinality(X) = 0
          PROVE  Small(X, 0)
      <3>1. X = {}
        BY <2>1, FS_EmptySet
      <3>2. UNION X = {}
        BY <3>1
      <3> QED
        BY <3>2, FS_EmptySet
    <2> HIDE DEF OfPairs, Small
    <2> QED
      BY <2>1
  <1>2. ASSUME NEW n \in Nat, n \in G
        PROVE  n + 1 \in G
    <2>1. ASSUME NEW X, OfPairs(X), Cardinality(X) = n + 1
          PROVE  Small(X, n + 1)
      <3>1. X # {}
        <4>1. Cardinality({}) = 0 /\ n + 1 # 0
          BY FS_EmptySet
        <4>2. Cardinality(X) # 0
          BY <2>1, <4>1
        <4> QED
          BY <4>1, <4>2, Zenon
      <3>2. PICK e \in X : TRUE
        BY <3>1
      <3>3. IsFiniteSet(X \ {e}) /\ Cardinality(X \ {e}) = n
        <4>1. /\ IsFiniteSet(X \ {e})
              /\ Cardinality(X \ {e}) = IF e \in X THEN Cardinality(X) - 1 ELSE Cardinality(X)
          BY <2>1, FS_RemoveElement
        <4> QED
          BY <2>1, <4>1
      <3>4. OfPairs(X \ {e})
        BY <2>1, <3>3
      <3>5. Small(X \ {e}, n)
        <4> HIDE DEF OfPairs, Small
        <4> QED
          BY <1>2, <3>3, <3>4
      <3> DEFINE A == UNION (X \ {e})
      <3>6. UNION X = A \cup e
        OBVIOUS
      <3>7. IsFiniteSet(A) /\ IsFiniteSet(e) /\ Cardinality(e) = 2 /\ Cardinality(A) <= 2 * n
        BY <2>1, <3>5
      <3> HIDE DEF A
      <3>8. /\ IsFiniteSet(A \cup e)
            /\ Cardinality(A \cup e) = Cardinality(A) + Cardinality(e) - Cardinality(A \cap e)
        BY <3>7, FS_Union
      <3>9. Cardinality(A) \in Nat /\ Cardinality(A \cap e) \in Nat
        BY <3>7, FS_CardinalityType, FS_Intersection
      <3>10. Cardinality(A \cup e) <= 2 * (n + 1)
        BY <3>7, <3>8, <3>9
      <3> QED
        BY <3>6, <3>8, <3>10
    <2> HIDE DEF OfPairs, Small
    <2> QED
      BY <2>1
  <1> HIDE DEF G
  <1>3. Nat \subseteq G
    BY <1>1, <1>2, CountUp
  <1>4. OfPairs(M) /\ Cardinality(M) \in Nat
    BY FS_CardinalityType
  <1>5. Small(M, Cardinality(M))
    <2> HIDE DEF OfPairs, Small
    <2>1. Cardinality(M) \in G
      BY <1>3, <1>4
    <2> QED
      BY <1>4, <2>1 DEF G
  <1> QED
    BY <1>5

\* Pairs that cover as many players as they can are disjoint.
LEMMA FullCoverIsDisjoint ==
    ASSUME NEW M, IsFiniteSet(M), \A e \in M : IsFiniteSet(e) /\ Cardinality(e) = 2,
           Cardinality(UNION M) = 2 * Cardinality(M)
    PROVE  \A d, e \in M : d # e => d \cap e = {}
  <1> SUFFICES ASSUME NEW d \in M, NEW e \in M, d # e, NEW x \in d \cap e
               PROVE  FALSE
    OBVIOUS
  <1> DEFINE X == M \ {d}
             A == UNION X
             c == d \ {x}
  <1>1. IsFiniteSet(X) /\ Cardinality(X) = Cardinality(M) - 1 /\ Cardinality(M) \in Nat
    <2>1. /\ IsFiniteSet(M \ {d})
          /\ Cardinality(M \ {d}) = IF d \in M THEN Cardinality(M) - 1 ELSE Cardinality(M)
      BY FS_RemoveElement
    <2> QED
      BY <2>1, FS_CardinalityType
  <1>2. IsFiniteSet(A) /\ Cardinality(A) <= 2 * Cardinality(X)
    <2>1. \A q \in X : IsFiniteSet(q) /\ Cardinality(q) = 2
      OBVIOUS
    <2> HIDE DEF X
    <2> QED
      BY <1>1, <2>1, PairsCover
  <1>3. IsFiniteSet(c) /\ Cardinality(c) = 1
    <2>1. IsFiniteSet(d) /\ Cardinality(d) = 2 /\ x \in d
      OBVIOUS
    <2>2. /\ IsFiniteSet(d \ {x})
          /\ Cardinality(d \ {x}) = IF x \in d THEN Cardinality(d) - 1 ELSE Cardinality(d)
      BY <2>1, FS_RemoveElement
    <2> QED
      BY <2>1, <2>2
  <1>4. UNION M = A \cup c
    <2>1. e \in X /\ x \in e /\ x \in d
      OBVIOUS
    <2>2. x \in A
      BY <2>1
    <2>3. UNION M = A \cup d
      OBVIOUS
    <2> HIDE DEF A, X
    <2> QED
      BY <2>2, <2>3
  <1> HIDE DEF X, A, c
  <1>5. Cardinality(A \cup c) = Cardinality(A) + Cardinality(c) - Cardinality(A \cap c)
    BY <1>2, <1>3, FS_Union
  <1>6. Cardinality(A) \in Nat /\ Cardinality(A \cap c) \in Nat
    BY <1>2, <1>3, FS_CardinalityType, FS_Intersection
  <1>7. Cardinality(A \cup c) = 2 * Cardinality(M)
    BY <1>4, Zenon
  <1> DEFINE a == Cardinality(A)
             ac == Cardinality(A \cap c)
             u == Cardinality(A \cup c)
             n == Cardinality(M)
  <1>8. /\ u = 2 * n /\ u = a + 1 - ac /\ a \in Nat /\ ac \in Nat /\ n \in Nat
        /\ a <= 2 * (n - 1)
    BY <1>1, <1>2, <1>3, <1>5, <1>6, <1>7
  <1> HIDE DEF a, ac, u, n
  <1> QED
    BY <1>8

\* A set of two members, as a pair.
LEMMA TwoMembers ==
    ASSUME NEW e, IsFiniteSet(e), Cardinality(e) = 2
    PROVE  \E a, b \in e : a # b /\ e = {a, b}
  <1>1. e # {}
    BY FS_EmptySet
  <1>2. PICK a \in e : TRUE
    BY <1>1
  <1>3. IsFiniteSet(e \ {a}) /\ Cardinality(e \ {a}) = 1
    <2>1. /\ IsFiniteSet(e \ {a})
          /\ Cardinality(e \ {a}) = IF a \in e THEN Cardinality(e) - 1 ELSE Cardinality(e)
      BY FS_RemoveElement
    <2> QED
      BY <2>1
  <1>4. PICK b : e \ {a} = {b}
    BY <1>3, FS_Singleton
  <1> QED
    BY <1>2, <1>4

\* Two players make a pair.
LEMMA PairHasTwo ==
    ASSUME NEW a, NEW b, a # b
    PROVE  IsFiniteSet({a, b}) /\ Cardinality({a, b}) = 2
  <1>1. IsFiniteSet({a}) /\ Cardinality({a}) = 1
    BY FS_Singleton
  <1>2. /\ IsFiniteSet({a} \cup {b})
        /\ Cardinality({a} \cup {b}) = IF b \in {a} THEN Cardinality({a}) ELSE Cardinality({a}) + 1
    BY <1>1, FS_AddElement
  <1>3. {a} \cup {b} = {a, b} /\ b \notin {a}
    OBVIOUS
  <1> QED
    BY <1>1, <1>2, <1>3

\* Every round of the enumeration matches the players it seats perfectly, and
\* leaves nobody out of an even pod and one player out of an odd one.
LEMMA RoundIsMatching ==
    ASSUME NEW S, IsFiniteSet(S), NEW M \in RoundsOf(S)
    PROVE  /\ PerfectMatching(M, UNION M) /\ UNION M \subseteq S
           /\ Cardinality(UNION M) = 2 * (Cardinality(S) \div 2)
           /\ Cardinality(S \ UNION M) = Cardinality(S) % 2
  <1> DEFINE k == Cardinality(S) \div 2
             n == Cardinality(S)
  <1>1. /\ \A e \in M : e \in SUBSET S /\ Cardinality(e) = 2
        /\ Cardinality(M) = k /\ Cardinality(UNION M) = 2 * k
        /\ M \subseteq SUBSET S
    BY DEF RoundsOf, kSubset
  <1>2. n \in Nat /\ k \in Nat /\ n = 2 * k + (n % 2)
    <2>1. n \in Nat
      BY FS_CardinalityType
    <2> HIDE DEF n
    <2>2. n \div 2 \in Nat /\ n = 2 * (n \div 2) + (n % 2)
      BY <2>1, Parity
    <2> QED
      BY <2>1, <2>2 DEF n
  <1> HIDE DEF k, n
  <1>3. IsFiniteSet(M)
    <2>1. IsFiniteSet(SUBSET S)
      BY FS_SUBSET
    <2> QED
      BY <1>1, <2>1, FS_Subset
  <1>4. \A e \in M : IsFiniteSet(e) /\ Cardinality(e) = 2
    BY <1>1, FS_Subset
  <1>5. \A d, e \in M : d # e => d \cap e = {}
    BY <1>1, <1>3, <1>4, FullCoverIsDisjoint
  <1>6. \A e \in M : \E a, b \in UNION M : a # b /\ e = {a, b}
    <2> SUFFICES ASSUME NEW e \in M
                 PROVE  \E a, b \in UNION M : a # b /\ e = {a, b}
      OBVIOUS
    <2>1. PICK a, b \in e : a # b /\ e = {a, b}
      BY <1>4, TwoMembers
    <2> QED
      BY <2>1
  <1>7. UNION M \subseteq S
    BY <1>1
  <1>8. Cardinality(S \ UNION M) = n % 2
    <2>1. Cardinality(S \ UNION M) = Cardinality(S) - Cardinality(S \cap UNION M)
      BY FS_Difference
    <2>2. S \cap UNION M = UNION M
      BY <1>7
    <2>3. n % 2 \in {0, 1}
      BY <1>2, Parity
    <2>4. Cardinality(S \ UNION M) = n - 2 * k
      BY <1>1, <2>1, <2>2, Zenon DEF n
    <2> QED
      BY <1>2, <2>3, <2>4
  <1> QED
    BY <1>1, <1>5, <1>6, <1>7, <1>8 DEF PerfectMatching, k, n

\* Conversely the tables of a round, as a set, are a round of the enumeration.
LEMMA RoundIsEnumerated ==
    ASSUME NEW S, IsFiniteSet(S), NEW m, Round(m, S), Len(m) = Cardinality(S) \div 2
    PROVE  ToSet(m) \in RoundsOf(S)
  <1> DEFINE k == Len(m)
  <1>1. /\ m \in Seq(SUBSET S) /\ k \in Nat /\ DOMAIN m = 1 .. k
        /\ \A i \in 1 .. k : \E a, b \in S : a # b /\ m[i] = {a, b}
        /\ \A i, j \in 1 .. k : i # j => m[i] \cap m[j] = {}
        /\ Cardinality(UNION ToSet(m)) = 2 * k
    BY DEF Round
  <1>2. Distinct(m)
    <2>1. ASSUME NEW i \in 1 .. k, NEW j \in 1 .. k, m[i] = m[j]
          PROVE  i = j
      <3>1. m[i] # {}
        BY <1>1
      <3> QED
        BY <1>1, <2>1, <3>1
    <2> QED
      BY <2>1 DEF Distinct
  <1>3. Cardinality(ToSet(m)) = k
    BY <1>1, <1>2, SizeOfPool
  <1>4. \A e \in ToSet(m) : e \in kSubset(2, S)
    <2> SUFFICES ASSUME NEW i \in 1 .. k
                 PROVE  m[i] \in kSubset(2, S)
      BY <1>1 DEF ToSet
    <2>1. PICK a, b \in S : a # b /\ m[i] = {a, b}
      BY <1>1
    <2>2. Cardinality({a, b}) = 2
      BY <2>1, PairHasTwo
    <2> QED
      BY <2>1, <2>2 DEF kSubset
  <1> DEFINE N == ToSet(m)
             K == kSubset(2, S)
  <1> HIDE DEF N, K
  <1>5. N \in kSubset(k, K)
    BY <1>3, <1>4 DEF N, K, kSubset
  <1> QED
    BY <1>1, <1>5 DEF N, K, RoundsOf

\* Pools of numbered players in standings order.
Increasing(p) == \A i, j \in 1 .. Len(p) : i < j => p[i] < p[j]

\* A pool in standings order has no player twice.
LEMMA IncreasingIsDistinct ==
    ASSUME NEW p \in Seq(Nat), Increasing(p)
    PROVE  Distinct(p)
  <1> DEFINE n == Len(p)
  <1>1. n \in Nat /\ \A i \in 1 .. n : p[i] \in Nat
    OBVIOUS
  <1>2. \A i, j \in 1 .. n : i < j => p[i] < p[j]
    BY DEF Increasing
  <1>3. ASSUME NEW i \in 1 .. n, NEW j \in 1 .. n, p[i] = p[j]
        PROVE  i = j
    <2> HIDE DEF n
    <2>1. ~(i < j) /\ ~(j < i)
      BY <1>1, <1>2, <1>3
    <2> QED
      BY <1>1, <2>1
  <1> QED
    BY <1>3 DEF Distinct

\* The rest of a pool keeps the standings order.
LEMMA RestIsIncreasing ==
    ASSUME NEW T, NEW p \in Seq(T), Increasing(p), NEW i \in 2 .. Len(p)
    PROVE  Increasing(RestOfPool(p, i))
  <1> DEFINE n == Len(p)
             r == RestOfPool(p, i)
             at(k) == IF k + 1 < i THEN k + 1 ELSE k + 2
  <1>1. n \in Nat /\ i \in 2 .. n
    OBVIOUS
  <1>2. /\ Len(r) = n - 2
        /\ \A k \in 1 .. n - 2 : r[k] = IF k + 1 < i THEN p[k + 1] ELSE p[k + 2]
    BY RestOfPoolProperties
  <1>3. \A a, b \in 1 .. n : a < b => p[a] < p[b]
    BY DEF Increasing
  <1> HIDE DEF n, r
  <1>4. \A k \in 1 .. n - 2 : r[k] = p[at(k)] /\ at(k) \in 1 .. n
    BY <1>1, <1>2
  <1>5. \A k, l \in 1 .. n - 2 : k < l => at(k) < at(l)
    BY <1>1
  <1> HIDE DEF at
  <1>6. \A k, l \in 1 .. n - 2 : k < l => r[k] < r[l]
    BY <1>3, <1>4, <1>5
  <1>7. Increasing(r)
    BY <1>2, <1>6 DEF Increasing
  <1> QED
    BY <1>7 DEF r

\* A pool without the bye keeps the standings order.
LEMMA RemoveAtIsIncreasing ==
    ASSUME NEW T, NEW p \in Seq(T), Increasing(p), NEW i \in 1 .. Len(p)
    PROVE  Increasing(RemoveAt(p, i))
  <1> DEFINE n == Len(p)
             r == RemoveAt(p, i)
             at(k) == IF k < i THEN k ELSE k + 1
  <1>1. n \in Nat /\ i \in 1 .. n
    OBVIOUS
  <1>2. /\ Len(r) = n - 1
        /\ \A k \in 1 .. n - 1 : r[k] = IF k < i THEN p[k] ELSE p[k + 1]
    BY RemoveAtProperties
  <1>3. \A a, b \in 1 .. n : a < b => p[a] < p[b]
    BY DEF Increasing
  <1> HIDE DEF n, r
  <1>4. \A k \in 1 .. n - 1 : r[k] = p[at(k)] /\ at(k) \in 1 .. n
    BY <1>1, <1>2
  <1>5. \A k, l \in 1 .. n - 1 : k < l => at(k) < at(l)
    BY <1>1
  <1> HIDE DEF at
  <1>6. \A k, l \in 1 .. n - 1 : k < l => r[k] < r[l]
    BY <1>3, <1>4, <1>5
  <1>7. Increasing(r)
    BY <1>2, <1>6 DEF Increasing
  <1> QED
    BY <1>7 DEF r

\* N pairs the best-placed player on whom N and M differ better than M does.
Better(N, M, P) ==
    \E x, y, z \in P :
        /\ x # y /\ x # z /\ {x, y} \in N /\ {x, z} \in M /\ y < z
        /\ \A w \in P : w < x => \A v \in P : {w, v} \in N <=> {w, v} \in M

\* A round that pairs a pool off is a perfect matching of its players.
LEMMA PairsOffMatching ==
    ASSUME NEW W, NEW m \in Seq(W), NEW p, PairsOff(m, p)
    PROVE  PerfectMatching(ToSet(m), ToSet(p))
  <1> DEFINE k == Len(m)
  <1>1. /\ DOMAIN m = 1 .. k
        /\ \A i \in 1 .. k : \E a, b \in ToSet(p) : a # b /\ m[i] = {a, b}
        /\ \A i, j \in 1 .. k : i # j => m[i] \cap m[j] = {}
        /\ UNION ToSet(m) = ToSet(p)
    BY DEF PairsOff
  <1> HIDE DEF k
  <1>2. \A e \in ToSet(m) : \E i \in 1 .. k : e = m[i]
    BY <1>1 DEF ToSet
  <1>3. ASSUME NEW d \in ToSet(m), NEW e \in ToSet(m), d # e
        PROVE  d \cap e = {}
    <2>1. PICK i \in 1 .. k : d = m[i]
      BY <1>2
    <2>2. PICK j \in 1 .. k : e = m[j]
      BY <1>2
    <2>3. i # j
      BY <1>3, <2>1, <2>2
    <2> QED
      BY <1>1, <2>1, <2>2, <2>3
  <1>4. \A e \in ToSet(m) : \E a, b \in ToSet(p) : a # b /\ e = {a, b}
    BY <1>1, <1>2
  <1> QED
    BY <1>1, <1>3, <1>4 DEF PerfectMatching

\* A pair of players who are not both left is in no matching of those who are.
LEMMA BetterWithFirstPair ==
    ASSUME NEW P, NEW e \in SUBSET P, NEW N, NEW M, e \in M,
           PerfectMatching(N, P \ e), PerfectMatching(M, P),
           Better(N, M \ {e}, P \ e)
    PROVE  Better({e} \cup N, M, P)
  <1>1. PerfectMatching(M \ {e}, P \ e)
    BY MatchingWithout
  <1>2. PICK x, y, z \in P \ e :
            /\ x # y /\ x # z /\ {x, y} \in N /\ {x, z} \in M \ {e} /\ y < z
            /\ \A w \in P \ e : w < x => \A v \in P \ e : {w, v} \in N <=> {w, v} \in M \ {e}
    BY DEF Better
  <1>3. ASSUME NEW w \in P, w < x, NEW v \in P
        PROVE  {w, v} \in {e} \cup N <=> {w, v} \in M
    <2>1. CASE w \in P \ e /\ v \in P \ e
      <3>1. {w, v} # e
        BY <2>1
      <3>2. {w, v} \in N <=> {w, v} \in M \ {e}
        BY <1>2, <1>3, <2>1
      <3> QED
        BY <3>1, <3>2
    <2>2. CASE w \in e \/ v \in e
      <3>1. {w, v} \notin N
        <4>1. UNION N = P \ e
          BY DEF PerfectMatching
        <4> QED
          BY <2>2, <4>1
      <3>2. {w, v} \notin M \ {e}
        <4>1. UNION (M \ {e}) = P \ e
          BY <1>1 DEF PerfectMatching
        <4> QED
          BY <2>2, <4>1
      <3> QED
        BY <3>1, <3>2
    <2> QED
      BY <2>1, <2>2
  <1> QED
    BY <1>2, <1>3 DEF Better

\* Among the matchings a frame may choose it takes the best, in standings order.
LEMMA FramesFirst ==
    ASSUME NEW T \in SUBSET Nat, NEW k \in Nat, NEW met, NEW f, Frames(f, T, k, met, FALSE)
    PROVE  \A n \in 0 .. k : \A p \in Seq(T) : Increasing(p) /\ Len(p) = 2 * n =>
             \A m \in f[n][p] : \A M :
                PerfectMatching(M, ToSet(p)) /\ M \cap met = {} /\ M # ToSet(m)
                    => Better(ToSet(m), M, ToSet(p))
  <1> DEFINE Rival(M, m, p) == PerfectMatching(M, ToSet(p)) /\ M \cap met = {} /\ M # ToSet(m)
             G == {n \in Nat : n <= k => \A p \in Seq(T) : Increasing(p) /\ Len(p) = 2 * n =>
                        \A m \in f[n][p] : \A M : Rival(M, m, p) => Better(ToSet(m), M, ToSet(p))}
  <1>1. \A n \in 0 .. k : f[n] \in Findings(T)
    BY DEF Frames
  <1>2. 0 \in G
    <2>1. ASSUME NEW p \in Seq(T), Len(p) = 2 * 0, NEW m \in f[0][p], NEW M, Rival(M, m, p)
          PROVE  FALSE
      <3>1. p = <<>>
        BY <2>1
      <3>2. m = <<>>
        BY <2>1, <3>1 DEF Frames
      <3>3. ToSet(<<>>) = {}
        BY DEF ToSet
      <3>4. PerfectMatching(M, {}) /\ M # {}
        BY <2>1, <3>1, <3>2, <3>3
      <3> QED
        BY <3>4 DEF PerfectMatching
    <2> HIDE DEF Rival
    <2> QED
      BY <2>1
  <1>3. ASSUME NEW n \in Nat, n \in G
        PROVE  n + 1 \in G
    <2> SUFFICES ASSUME n + 1 <= k, NEW p \in Seq(T), Increasing(p), Len(p) = 2 * (n + 1),
                        NEW m \in f[n + 1][p], NEW M, Rival(M, m, p)
                 PROVE  Better(ToSet(m), M, ToSet(p))
      OBVIOUS
    <2>1. n + 1 \in 1 .. k /\ n \in 0 .. k /\ n <= k /\ (n + 1) - 1 = n
      OBVIOUS
    <2>2. p # <<>> /\ 1 \in 1 .. Len(p) /\ Len(p) - 2 = 2 * n
      OBVIOUS
    <2>3. p \in Seq(Nat) /\ Distinct(p)
      <3>1. p \in Seq(Nat)
        BY SeqMonotonic
      <3> QED
        BY <3>1, IncreasingIsDistinct
    <2>4. m \in FirstFit(p, met, FALSE, f[n])
      BY <2>1, <2>2 DEF Frames
    <2>5. PICK i \in 2 .. Len(p) :
                /\ Fits(p, i, met, FALSE, f[n])
                /\ \A j \in 2 .. Len(p) : Fits(p, j, met, FALSE, f[n]) => i <= j
                /\ Extends(m, p, i, f[n])
      BY <2>4, FirstFitFinds
    <2>6. p[1] \in ToSet(p)
      BY <2>2 DEF ToSet
    <2>7. PICK y \in ToSet(p) : p[1] # y /\ {p[1], y} \in M
      BY <2>6, MatchingPartner
    <2>8. PICK j \in 2 .. Len(p) : y = p[j]
      BY <2>2, <2>7, PositionOf
    <2> DEFINE d == {p[1], p[j]}
               e == {p[1], p[i]}
               r == RestOfPool(p, i)
               s == RestOfPool(p, j)
    <2>9. /\ s \in Seq(T) /\ Distinct(s) /\ ToSet(s) = ToSet(p) \ d /\ Len(s) = 2 * n
          /\ r \in Seq(T) /\ Distinct(r) /\ ToSet(r) = ToSet(p) \ e /\ Len(r) = 2 * n
          /\ p[1] # p[i] /\ p[i] \in ToSet(p)
      BY <2>2, <2>3, RestOfPoolProperties, RestOfDistinct
    <2>10. d \in M /\ PerfectMatching(M, ToSet(p)) /\ M \cap met = {} /\ M # ToSet(m)
      BY <2>7, <2>8
    <2>11. PerfectMatching(M \ {d}, ToSet(s)) /\ (M \ {d}) \cap met = {}
      <3> HIDE DEF d, s
      <3>1. PerfectMatching(M \ {d}, ToSet(p) \ d)
        BY <2>10, MatchingWithout
      <3> QED
        BY <2>9, <2>10, <3>1
    <2>12. f[n][s] # {}
      <3> HIDE DEF d, s
      <3> QED
        BY <2>1, <2>9, <2>11, FramesComplete
    <2>13. Fits(p, j, met, FALSE, f[n]) /\ i <= j
      <3>1. d \notin met
        BY <2>10
      <3>2. Fits(p, j, met, FALSE, f[n])
        BY <2>12, <3>1 DEF Fits
      <3> QED
        BY <2>5, <3>2
    <2>14. f[n][r] \in SUBSET Seq(SUBSET T)
      BY <1>1, <2>1, <2>9 DEF Findings
    <2>15. PICK rest \in Seq(SUBSET T) : rest \in f[n][r] /\ m = <<e>> \o rest
      BY <2>5, <2>14, Zenon DEF Extends
    <2>16. ToSet(m) = {e} \cup ToSet(rest)
      <3>1. e \in SUBSET T
        <4>1. 1 \in 1 .. Len(p) /\ i \in 1 .. Len(p)
          BY <2>2
        <4>2. p[1] \in T /\ p[i] \in T
          BY <4>1, ElementOfSeq
        <4> QED
          BY <4>2
      <3> DEFINE W == SUBSET T
      <3> HIDE DEF W, e
      <3>2. e \in W /\ rest \in Seq(W)
        BY <2>15, <3>1 DEF W
      <3> QED
        BY <2>15, <3>2, ConsProperties
    <2>17. PerfectMatching(ToSet(rest), ToSet(r))
      <3> HIDE DEF r, e
      <3>1. PairsOff(rest, r)
        BY <2>1, <2>9, <2>15, FramesSound
      <3> QED
        BY <2>15, <3>1, PairsOffMatching
    <2>18. CASE i = j
      <3>1. e = d /\ s = r
        BY <2>18
      <3> HIDE DEF e, r, d, s
      <3>2. M \ {e} # ToSet(rest)
        BY <2>10, <2>16, <3>1
      <3>3. Increasing(r)
        BY RestIsIncreasing DEF r
      <3>4. Rival(M \ {e}, rest, r)
        BY <2>11, <3>1, <3>2
      <3>5. Better(ToSet(rest), M \ {e}, ToSet(r))
        <4> HIDE DEF Rival
        <4> QED
          BY <1>3, <2>1, <2>9, <2>15, <3>3, <3>4
      <3>6. e \in SUBSET ToSet(p)
        BY <2>6, <2>9 DEF e
      <3>7. e \in M
        BY <2>10, <3>1
      <3> DEFINE P == ToSet(p)
                 N == ToSet(rest)
      <3> HIDE DEF P, N
      <3>8. /\ PerfectMatching(N, P \ e) /\ PerfectMatching(M, P) /\ Better(N, M \ {e}, P \ e)
            /\ e \in SUBSET P
        BY <2>9, <2>10, <2>17, <3>5, <3>6 DEF P, N
      <3>9. Better({e} \cup N, M, P)
        BY <3>7, <3>8, BetterWithFirstPair
      <3> QED
        BY <2>16, <3>9 DEF P, N
    <2>19. CASE i # j
      <3>1. i < j /\ i \in 1 .. Len(p) /\ j \in 1 .. Len(p)
        BY <2>2, <2>13, <2>19
      <3>2. p[i] < p[j]
        BY <3>1 DEF Increasing
      <3>3. \A w \in ToSet(p) : ~(w < p[1])
        <4> SUFFICES ASSUME NEW a \in 1 .. Len(p)
                     PROVE  ~(p[a] < p[1])
          BY DEF ToSet
        <4>1. p[a] \in Nat /\ p[1] \in Nat
          BY <2>2, <2>3, ElementOfSeq
        <4>2. CASE a = 1
          BY <4>1, <4>2
        <4>3. CASE a # 1
          <5>1. 1 < a
            BY <2>2, <4>3
          <5>2. p[1] < p[a]
            BY <2>2, <5>1 DEF Increasing
          <5> QED
            BY <4>1, <5>2
        <4> QED
          BY <4>2, <4>3
      <3>4. {p[1], p[i]} \in ToSet(m)
        BY <2>16
      <3>5. {p[1], p[j]} \in M /\ p[1] # p[j] /\ p[j] \in ToSet(p)
        BY <2>7, <2>8
      <3> HIDE DEF d, e, r, s, Rival
      <3> QED
        BY <2>6, <2>9, <3>2, <3>3, <3>4, <3>5 DEF Better
    <2> QED
      BY <2>18, <2>19
  <1> HIDE DEF G
  <1>4. Nat \subseteq G
    BY <1>2, <1>3, CountUp
  <1>5. ASSUME NEW n \in 0 .. k, NEW p \in Seq(T), Increasing(p), Len(p) = 2 * n,
               NEW m \in f[n][p], NEW M, Rival(M, m, p)
        PROVE  Better(ToSet(m), M, ToSet(p))
    <2>1. n \in G /\ n <= k
      BY <1>4
    <2> HIDE DEF Rival
    <2> QED
      BY <1>5, <2>1 DEF G
  <1> QED
    BY <1>5

\* pair_pool_avoiding_rematches returns the first rematch-free matching in
\* standings order.
LEMMA PairPoolFirst ==
    ASSUME NEW p \in Seq(Nat), Increasing(p), Len(p) % 2 = 0, NEW met,
           NEW m \in PairPool(p, met, FALSE),
           NEW M, PerfectMatching(M, ToSet(p)), M \cap met = {}, M # ToSet(m)
    PROVE  Better(ToSet(m), M, ToSet(p))
  <1> DEFINE T == ToSet(p)
             k == Len(p) \div 2
             n == Len(p)
  <1>1. p \in Seq(T) /\ k \in Nat /\ n \in Nat
    BY SeqOfToSet
  <1>2. T \in SUBSET Nat
    BY DEF ToSet
  <1>3. PICK f : Frames(f, T, k, met, FALSE) /\ PairPool(p, met, FALSE) = f[k][p]
    BY PairPoolFrames
  <1>4. n = 2 * k
    <2>1. n % 2 = 0 /\ n \in Nat
      BY <1>1
    <2> HIDE DEF n
    <2>2. n = 2 * (n \div 2)
      BY <2>1
    <2> QED
      BY <2>2 DEF n
  <1> HIDE DEF k
  <1>5. k \in 0 .. k
    BY <1>1
  <1>6. m \in f[k][p]
    BY <1>3
  <1> QED
    BY <1>1, <1>2, <1>3, <1>4, <1>5, <1>6, FramesFirst

\* What the comment on pair_pool_avoiding_rematches says of an even pool of any
\* size: without rematches it succeeds iff a rematch-free perfect matching
\* exists, and with them always.
THEOREM SearchIsExact ==
    ASSUME NEW U, NEW p \in Seq(U), Distinct(p), Len(p) % 2 = 0, NEW met
    PROVE  /\ PairPool(p, met, FALSE) # {}
                <=> \E M : PerfectMatching(M, ToSet(p)) /\ M \cap met = {}
           /\ PairPool(p, met, TRUE) # {}
  <1>1. ASSUME NEW m \in PairPool(p, met, FALSE)
        PROVE  PerfectMatching(ToSet(m), ToSet(p)) /\ ToSet(m) \cap met = {}
    <2>1. m \in Seq(SUBSET ToSet(p)) /\ PairsOff(m, p) /\ (FALSE \/ Avoids(m, met))
      BY PairPoolSound, Zenon
    <2>2. PerfectMatching(ToSet(m), ToSet(p))
      BY <2>1, PairsOffMatching, Zenon
    <2>3. DOMAIN m = 1 .. Len(m)
      BY <2>1
    <2>4. \A e \in ToSet(m) : e \notin met
      BY <2>1, <2>3 DEF Avoids, ToSet
    <2> QED
      BY <2>2, <2>4
  <1>2. ASSUME NEW M, PerfectMatching(M, ToSet(p)), M \cap met = {}
        PROVE  PairPool(p, met, FALSE) # {}
    BY <1>2, PairPoolComplete, Zenon
  <1>3. PairPool(p, met, TRUE) # {}
    BY PairPoolTotal, Zenon
  <1> QED
    BY <1>1, <1>2, <1>3, Zenon

-----------------------------------------------------------------------------
(* The pairing of every pod after every history.                           *)

\* The players are numbered by their standing.
HistoryInv == \E n \in PodSizes : pool = [i \in 1 .. n |-> i]

\* Rounds leave the pool alone.
LEMMA HistoryStep ==
    ASSUME HistoryInv, [PlayRound]_history
    PROVE  HistoryInv'
  <1>1. pool' = pool
    BY DEF PlayRound, history
  <1> QED
    BY <1>1 DEF HistoryInv

\* The pool of the search, and the rounds it is compared with.
LEMMA HistoryPool ==
    ASSUME HistoryInv
    PROVE  \E n \in Nat :
             /\ pool \in Seq(Nat) /\ Len(pool) = n /\ Increasing(pool)
             /\ \A i \in 1 .. n : pool[i] = i
             /\ ToSet(pool) = 1 .. n
             /\ AllRounds[Len(pool)] = RoundsOf(1 .. n)
             /\ IsFiniteSet(1 .. n) /\ Cardinality(1 .. n) = n
  <1>1. PICK n \in PodSizes : pool = [i \in 1 .. n |-> i]
    BY DEF HistoryInv
  <1>2. n \in Nat
    BY PodSizesAssumption DEF PodSizesAssumption
  <1>3. pool \in Seq(Nat) /\ Len(pool) = n /\ DOMAIN pool = 1 .. n /\ \A i \in 1 .. n : pool[i] = i
    <2>1. pool \in [1 .. n -> Nat] /\ \A i \in 1 .. n : pool[i] = i
      BY <1>1, <1>2
    <2> QED
      BY <1>2, <2>1
  <1>4. Increasing(pool)
    BY <1>3 DEF Increasing
  <1>5. ToSet(pool) = 1 .. n
    BY <1>3 DEF ToSet
  <1>6. AllRounds[n] = RoundsOf(1 .. n)
    BY DEF AllRounds
  <1>7. IsFiniteSet(1 .. n) /\ Cardinality(1 .. n) = n
    <2>1. IsFiniteSet(1 .. n) /\ Cardinality(1 .. n) = IF 1 > n THEN 0 ELSE n - 1 + 1
      BY <1>2, FS_Interval
    <2> QED
      BY <1>2, <2>1
  <1> QED
    BY <1>2, <1>3, <1>4, <1>5, <1>6, <1>7

\* The pool w of those who play, when a rematch-free round M exists: the search
\* without rematches finds its round, and whoever sits out stands below those
\* that M leaves out.
LEMMA RematchFreePool ==
    ASSUME HistoryInv, NEW M \in RematchFree
    PROVE  \E w \in Seq(Nat) :
             /\ Increasing(w) /\ Len(w) % 2 = 0 /\ Len(w) = 2 * (Len(pool) \div 2)
             /\ ToSet(w) \subseteq ToSet(pool)
             /\ result.paired \in PairPool(w, prior, FALSE)
             /\ \A b \in result.bye : \A c \in ToSet(pool) \ UNION M : c <= b
  <1>1. PICK n \in Nat :
             /\ pool \in Seq(Nat) /\ Len(pool) = n /\ Increasing(pool)
             /\ \A i \in 1 .. n : pool[i] = i
             /\ ToSet(pool) = 1 .. n
             /\ AllRounds[Len(pool)] = RoundsOf(1 .. n)
             /\ IsFiniteSet(1 .. n) /\ Cardinality(1 .. n) = n
    BY HistoryPool
  <1> DEFINE S == 1 .. n
             left == S \ UNION M
  <1>2. M \in RoundsOf(S) /\ M \cap prior = {}
    BY <1>1 DEF RematchFree
  <1>3. /\ PerfectMatching(M, UNION M) /\ UNION M \subseteq S
        /\ Cardinality(left) = n % 2
    <2>1. IsFiniteSet(S) /\ Cardinality(S) = n
      BY <1>1
    <2> HIDE DEF S
    <2>2. /\ PerfectMatching(M, UNION M) /\ UNION M \subseteq S
          /\ Cardinality(S \ UNION M) = Cardinality(S) % 2
      BY <1>2, <2>1, RoundIsMatching
    <2> QED
      BY <2>1, <2>2
  <1>4. Distinct(pool)
    BY <1>1, IncreasingIsDistinct
  <1>5. IsFiniteSet(left)
    BY <1>1, FS_Difference
  <1>6. CASE n % 2 = 0
    <2>1. left = {}
      BY <1>3, <1>5, <1>6, FS_EmptySet
    <2>2. UNION M = ToSet(pool)
      BY <1>1, <1>3, <2>1
    <2>3. PerfectMatching(M, ToSet(pool))
      BY <1>3, <2>2
    <2>4. PairPool(pool, prior, FALSE) # {}
      BY <1>1, <1>2, <1>4, <1>6, <2>3, PairPoolComplete
    <2>5. result.paired = PairEvenPool(pool, prior) /\ result.bye = {}
      BY <1>1, <1>6, PairSwissEven DEF result
    <2>6. result.paired \in PairPool(pool, prior, FALSE)
      <3>1. pool \in Seq(Nat) /\ Len(pool) % 2 = 0
        BY <1>1, <1>6
      <3>2. PairPool(pool, prior, FALSE) # {}
                => PairEvenPool(pool, prior) \in PairPool(pool, prior, FALSE)
        BY <1>4, <3>1, PairEvenPoolSound, Zenon
      <3> QED
        BY <2>4, <2>5, <3>2, Zenon
    <2>7. n = 2 * (n \div 2)
      BY <1>6
    <2> HIDE DEF left, S
    <2> QED
      BY <1>1, <1>6, <2>5, <2>6, <2>7
  <1>7. CASE n % 2 # 0
    <2>1. n # 0 /\ (n - 1) % 2 = 0 /\ n % 2 = 1
      BY <1>7, Parity
    <2>2. PICK c : left = {c}
      BY <1>3, <1>5, <2>1, FS_Singleton
    <2>3. c \in S /\ UNION M = S \ {c}
      BY <1>3, <2>2
    <2>4. /\ RemoveAt(pool, c) \in Seq(Nat) /\ Len(RemoveAt(pool, c)) = n - 1
          /\ Distinct(RemoveAt(pool, c)) /\ ToSet(RemoveAt(pool, c)) = S \ {c}
      BY <1>1, <1>4, <2>3, RemoveAtDistinct
    <2>5. Admissible(pool, prior, c)
      <3>1. PerfectMatching(M, ToSet(RemoveAt(pool, c)))
        BY <1>3, <2>3, <2>4
      <3> QED
        BY <1>2, <2>1, <2>4, <3>1, PairPoolComplete DEF Admissible
    <2> DEFINE b == ByePosition(pool, prior)
               w == RemoveAt(pool, b)
    <2>6. b \in 1 .. n /\ c <= b /\ Admissible(pool, prior, b)
      BY <1>1, <2>1, <2>3, <2>5, ByePositionSound
    <2>7. result.paired = PairEvenPool(w, prior) /\ result.bye = {pool[b]}
      BY <1>1, <1>7, PairSwissOdd DEF result
    <2> HIDE DEF b
    <2>8. /\ w \in Seq(Nat) /\ Len(w) = n - 1 /\ Distinct(w) /\ ToSet(w) = S \ {pool[b]}
          /\ Increasing(w)
      BY <1>1, <1>4, <2>6, RemoveAtDistinct, RemoveAtIsIncreasing
    <2>9. PairPool(w, prior, FALSE) # {}
      BY <2>6 DEF Admissible
    <2> HIDE DEF w
    <2>10. result.paired \in PairPool(w, prior, FALSE)
      <3>1. w \in Seq(Nat) /\ Distinct(w) /\ Len(w) % 2 = 0
        BY <2>1, <2>8
      <3>2. PairPool(w, prior, FALSE) # {}
                => PairEvenPool(w, prior) \in PairPool(w, prior, FALSE)
        BY <3>1, PairEvenPoolSound, Zenon
      <3> QED
        BY <2>7, <2>9, <3>2, Zenon
    <2>11. Len(w) % 2 = 0 /\ Len(w) = 2 * (n \div 2)
      <3>1. n - 1 = 2 * (n \div 2)
        BY <2>1
      <3> QED
        BY <2>1, <2>8, <3>1
    <2>12. \A a \in result.bye : \A x \in ToSet(pool) \ UNION M : x <= a
      <3>1. pool[b] = b
        BY <1>1, <2>6
      <3>2. ToSet(pool) \ UNION M = {c}
        BY <1>1, <2>2
      <3> QED
        BY <2>6, <2>7, <3>1, <3>2
    <2>13. ToSet(w) \subseteq ToSet(pool)
      BY <1>1, <2>8
    <2> HIDE DEF left, S
    <2> QED
      BY <1>1, <2>8, <2>10, <2>11, <2>12, <2>13
  <1> QED
    BY <1>6, <1>7

\* A rematch-free round is found when there is one.
LEMMA HistoryNoAvoidableRematch == HistoryInv => NoAvoidableRematch
  <1> SUFFICES ASSUME HistoryInv, NEW M \in RematchFree
               PROVE  ToSet(result.paired) \in RematchFree
    BY DEF NoAvoidableRematch
  <1> DEFINE m == result.paired
  <1>1. PICK w \in Seq(Nat) :
             /\ Increasing(w) /\ Len(w) % 2 = 0 /\ Len(w) = 2 * (Len(pool) \div 2)
             /\ ToSet(w) \subseteq ToSet(pool)
             /\ m \in PairPool(w, prior, FALSE)
    BY RematchFreePool
  <1>2. PICK n \in Nat : /\ Len(pool) = n /\ ToSet(pool) = 1 .. n
                         /\ AllRounds[Len(pool)] = RoundsOf(1 .. n)
                         /\ IsFiniteSet(1 .. n) /\ Cardinality(1 .. n) = n
    BY HistoryPool
  <1>3. Distinct(w)
    BY <1>1, IncreasingIsDistinct
  <1> HIDE DEF m
  <1>4. m \in Seq(SUBSET ToSet(w)) /\ PairsOff(m, w) /\ Avoids(m, prior)
    BY <1>1, <1>3, PairPoolSound
  <1>5. Round(m, 1 .. n)
    BY <1>1, <1>2, <1>3, <1>4, PairsOffIsRound
  <1>6. Len(m) = n \div 2
    <2>1. 2 * Len(m) = 2 * (n \div 2) /\ Len(m) \in Nat /\ n \div 2 \in Nat
      BY <1>1, <1>2, <1>4, Parity DEF PairsOff
    <2> QED
      BY <2>1
  <1>7. ToSet(m) \in RoundsOf(1 .. n)
    BY <1>2, <1>5, <1>6, RoundIsEnumerated
  <1>8. ToSet(m) \cap prior = {}
    BY <1>4 DEF Avoids, ToSet
  <1> QED
    BY <1>2, <1>7, <1>8 DEF RematchFree, m

\* No rematch-free round has a bye that is lower in the standings.
LEMMA HistoryByeAsLowAsAllowed == HistoryInv => ByeAsLowAsAllowed
  <1> SUFFICES ASSUME HistoryInv, NEW M \in RematchFree
               PROVE  \A b \in result.bye : \A c \in ToSet(pool) \ UNION M : c <= b
    BY DEF ByeAsLowAsAllowed
  <1> QED
    BY RematchFreePool

\* The partner that a matching gives a player.
LEMMA PartnerIs ==
    ASSUME NEW M, NEW P, PerfectMatching(M, P), NEW x, NEW y, x # y, {x, y} \in M
    PROVE  Partner(M, x) = y
  <1>1. {q \in M : x \in q} = {{x, y}}
    <2>1. \A q \in M : x \in q => q = {x, y}
      BY DEF PerfectMatching
    <2> QED
      BY <2>1
  <1>2. The({{x, y}}) = {x, y}
    BY DEF The
  <1>3. {x, y} \ {x} = {y}
    OBVIOUS
  <1>4. The({y}) = y
    BY DEF The
  <1> QED
    BY <1>1, <1>2, <1>3, <1>4 DEF Partner

\* Where another rematch-free round first differs, its partner is a later one.
LEMMA HistoryStandingsOrderFirst == HistoryInv => StandingsOrderFirst
  <1> DEFINE m == result.paired
             N == ToSet(m)
             Differ(M) == {p \in UNION M : Partner(M, p) # Partner(N, p)}
  <1> SUFFICES ASSUME HistoryInv, NEW M \in RematchFree, UNION M = UNION N, Differ(M) # {}
               PROVE  Partner(N, Min(Differ(M))) < Partner(M, Min(Differ(M)))
    BY DEF StandingsOrderFirst
  <1>1. PICK w \in Seq(Nat) :
             /\ Increasing(w) /\ Len(w) % 2 = 0
             /\ m \in PairPool(w, prior, FALSE)
    BY RematchFreePool
  <1>2. PICK n \in Nat : AllRounds[Len(pool)] = RoundsOf(1 .. n) /\ IsFiniteSet(1 .. n)
    BY HistoryPool
  <1>3. Distinct(w)
    BY <1>1, IncreasingIsDistinct
  <1>4. m \in Seq(SUBSET ToSet(w)) /\ PairsOff(m, w)
    <2> HIDE DEF m
    <2> QED
      BY <1>1, <1>3, PairPoolSound
  <1> DEFINE P == ToSet(w)
  <1>5. PerfectMatching(N, P) /\ UNION N = P
    <2> HIDE DEF m
    <2>1. PerfectMatching(ToSet(m), ToSet(w))
      BY <1>4, PairsOffMatching, Zenon
    <2> QED
      BY <2>1 DEF PerfectMatching
  <1>6. PerfectMatching(M, P) /\ M \cap prior = {}
    <2>1. M \in RoundsOf(1 .. n) /\ M \cap prior = {}
      BY <1>2 DEF RematchFree
    <2>2. PerfectMatching(M, UNION M)
      BY <1>2, <2>1, RoundIsMatching
    <2> HIDE DEF N
    <2> QED
      BY <1>5, <2>1, <2>2
  <1>7. M # N
    OBVIOUS
  <1>8. Better(N, M, P)
    <2> HIDE DEF m
    <2> QED
      BY <1>1, <1>6, <1>7, PairPoolFirst
  <1>9. P \subseteq Nat
    BY <1>1 DEF ToSet
  <1>10. UNION M = P
    BY <1>5
  <1> HIDE DEF m, N, P
  <1>11. PICK x, y, z \in P :
            /\ x # y /\ x # z /\ {x, y} \in N /\ {x, z} \in M /\ y < z
            /\ \A u \in P : u < x => \A v \in P : {u, v} \in N <=> {u, v} \in M
    BY <1>8 DEF Better
  <1>12. Partner(N, x) = y /\ Partner(M, x) = z
    BY <1>5, <1>6, <1>11, PartnerIs
  <1>13. y # z
    BY <1>9, <1>11
  <1>14. x \in Differ(M)
    BY <1>10, <1>12, <1>13
  <1>15. ASSUME NEW u \in P, u < x
         PROVE  u \notin Differ(M)
    <2>1. PICK v \in P : u # v /\ {u, v} \in N
      BY <1>5, MatchingPartner
    <2>2. {u, v} \in M
      BY <1>11, <1>15, <2>1
    <2>3. Partner(N, u) = v /\ Partner(M, u) = v
      BY <1>5, <1>6, <2>1, <2>2, PartnerIs
    <2> QED
      BY <2>3
  <1> DEFINE D == Differ(M)
             least == Min(D)
  <1>16. D \subseteq P
    BY <1>10
  <1> HIDE DEF D
  <1>17. least \in D /\ \A a \in D : least <= a
    <2>1. D \in SUBSET Nat /\ D # {}
      BY <1>9, <1>14, <1>16 DEF D
    <2> QED
      BY <2>1, MinOfSet
  <1> HIDE DEF least
  <1>18. least <= x /\ ~(least < x) /\ least \in Nat /\ x \in Nat
    BY <1>9, <1>14, <1>15, <1>16, <1>17 DEF D
  <1>19. least = x
    BY <1>18
  <1> QED
    BY <1>11, <1>12, <1>19 DEF least, D

\* The pool stays what it was.
LEMMA HistoryInvariant == HistorySpec => []HistoryInv
  <1>1. NoHistory => HistoryInv
    BY DEF NoHistory, HistoryInv
  <1>2. HistoryInv /\ [PlayRound]_history => HistoryInv'
    BY HistoryStep
  <1> QED
    BY <1>1, <1>2, PTL DEF HistorySpec

\* For pods of any size and after any number of rounds, generate_swiss_pairings
\* pairs a rematch only if every way to pair the pod, whoever takes the bye, has
\* one: pair_pool_avoiding_rematches "succeeds iff a rematch-free perfect
\* matching exists".
THEOREM RematchesAvoided == HistorySpec => []NoAvoidableRematch
  BY HistoryInvariant, HistoryNoAvoidableRematch, PTL

\* Among the rematch-free rounds of the same players it takes the first in
\* standings order.
THEOREM StandingsOrderKept == HistorySpec => []StandingsOrderFirst
  BY HistoryInvariant, HistoryStandingsOrderFirst, PTL

\* Its bye goes as far down the standings as a rematch-free round allows.
THEOREM ByeAtTheBottom == HistorySpec => []ByeAsLowAsAllowed
  BY HistoryInvariant, HistoryByeAsLowAsAllowed, PTL

-----------------------------------------------------------------------------
(* The rounds of an event.                                                 *)

Statuses == {"Deckbuilding", "Pairing", "MatchInProgress", "RoundComplete", "Complete"}

Recs == [matchWins : Nat, wins : Nat, losses : Nat, draws : Nat]

PairingsAmong(P) == [players : SUBSET P, status : {"Pending", "Complete"},
                     winner : P \cup {NoPlayer}]

\* The players at the tables of a round.
Seated(ps) == [i \in 1 .. Len(ps) |-> ps[i].players]

WinnersOf(ps) == {p.winner : p \in ToSet(ps)}

\* A table is won by one of its players or by nobody, which is a draw that a
\* bracket does not know.
TablesOK(ps, ev) ==
    \A t \in 1 .. Len(ps) :
        /\ ps[t].winner \in ps[t].players \cup {NoPlayer}
        /\ ev.format = SingleElimination /\ ps[t].status = "Complete" => ps[t].winner # NoPlayer

SeatsOK(ps, P, ev) ==
    /\ Round(Seated(ps), P)
    /\ ev.format = Swiss => Cardinality(P \ UNION ToSet(Seated(ps))) = ev.seats % 2

RoundOK(ps, P, ev) == ps \in Seq(PairingsAmong(P)) /\ TablesOK(ps, ev) /\ SeatsOK(ps, P, ev)

Bracket(ps, n) ==
    \A r \in 2 .. n : UNION ToSet(Seated(ps[r])) = WinnersOf(ps[r - 1])

\* A round that may be followed by another one is complete, and not the final.
MayFollow(ps, ev) == AllComplete(ps) /\ (ev.format = SingleElimination => Len(ps) # 1)

\* The inductive invariant of an event.
EventInv ==
    /\ event \in Events /\ status \in Statuses /\ records \in [Players -> Recs]
    /\ misread \in BOOLEAN
    /\ pairings \in Seq(Seq(PairingsAmong(Players))) /\ Len(pairings) = currentRound
    /\ \A r \in 1 .. currentRound : RoundOK(pairings[r], Players, event)
    /\ MayPair /\ currentRound # 0 => MayFollow(pairings[currentRound], event)
    /\ event.format = SingleElimination /\ currentRound # 0
            => Len(pairings[currentRound]) \in {1, 2, 4}
    /\ event.format = SingleElimination => Bracket(pairings, currentRound)

\* The players of an event.
LEMMA EventFacts ==
    ASSUME event \in Events
    PROVE  /\ event.seats \in Nat /\ event.seats >= 2
           /\ event.format # SingleElimination => event.format = Swiss
           /\ event.format = SingleElimination => event.format # Swiss /\ event.seats \in {4, 8}
           /\ IsFiniteSet(Players) /\ Cardinality(Players) = event.seats
           /\ Players \subseteq Nat /\ NoPlayer \notin Players
  <1>1. \/ event.format = Swiss /\ event.seats \in Nat \ {0, 1}
        \/ event.format = SingleElimination /\ event.seats \in {4, 8}
    BY EventsAssumption DEF EventsAssumption
  <1>2. Swiss # SingleElimination
    BY DEF Swiss, SingleElimination
  <1> DEFINE s == event.seats
  <1>3. s \in Nat /\ s >= 2
    BY <1>1
  <1> HIDE DEF s
  <1>4. IsFiniteSet(0 .. s - 1) /\ Cardinality(0 .. s - 1) = s
    <2>1. /\ IsFiniteSet(0 .. s - 1)
          /\ Cardinality(0 .. s - 1) = IF 0 > s - 1 THEN 0 ELSE (s - 1) - 0 + 1
      BY <1>3, FS_Interval
    <2> QED
      BY <1>3, <2>1
  <1>5. Players = 0 .. s - 1
    BY DEF Players, s
  <1>6. 0 .. s - 1 \subseteq Nat
    BY <1>3
  <1>7. NoPlayer \notin Nat
    BY NoPlayerAssumption DEF NoPlayerAssumption
  <1>8. event.format # SingleElimination => event.format = Swiss
    BY <1>1
  <1>9. event.format = SingleElimination => event.format # Swiss /\ event.seats \in {4, 8}
    BY <1>1, <1>2
  <1> QED
    BY <1>3, <1>4, <1>5, <1>6, <1>7, <1>8, <1>9 DEF s

\* The players at the tables of a round, one set per table.
LEMMA SeatedIs ==
    ASSUME NEW P, NEW ps \in Seq(PairingsAmong(P))
    PROVE  /\ Seated(ps) \in Seq(SUBSET P) /\ Len(Seated(ps)) = Len(ps)
           /\ \A i \in 1 .. Len(ps) : Seated(ps)[i] = ps[i].players
           /\ ToSet(Seated(ps)) = {p.players : p \in ToSet(ps)}
  <1> DEFINE n == Len(ps)
  <1>1. n \in Nat /\ DOMAIN ps = 1 .. n /\ \A i \in 1 .. n : ps[i] \in PairingsAmong(P)
    OBVIOUS
  <1>2. \A i \in 1 .. n : ps[i].players \in SUBSET P
    BY <1>1 DEF PairingsAmong
  <1>3. Seated(ps) = [i \in 1 .. n |-> ps[i].players]
    BY DEF Seated
  <1> HIDE DEF n
  <1>4. Seated(ps) \in [1 .. n -> SUBSET P] /\ DOMAIN Seated(ps) = 1 .. n
    BY <1>2, <1>3
  <1>5. Seated(ps) \in Seq(SUBSET P) /\ Len(Seated(ps)) = n
    BY <1>1, <1>4
  <1>6. \A i \in 1 .. n : Seated(ps)[i] = ps[i].players
    BY <1>3
  <1>7. ToSet(Seated(ps)) = {p.players : p \in ToSet(ps)}
    BY <1>1, <1>4, <1>6 DEF ToSet
  <1> QED
    BY <1>5, <1>6, <1>7 DEF n

\* What a match_id may name.
LEMMA MatchesAre ==
    ASSUME NEW X, pairings \in Seq(Seq(X)), NEW m \in Matches
    PROVE  \E r \in 1 .. Len(pairings) : \E t \in 1 .. Len(pairings[r]) :
                m = <<r, t>> /\ PairingOf(m) = pairings[r][t]
  <1>1. PICK r \in DOMAIN pairings : m \in {r} \X DOMAIN pairings[r]
    BY DEF Matches
  <1>2. r \in 1 .. Len(pairings) /\ pairings[r] \in Seq(X)
    BY <1>1
  <1>3. DOMAIN pairings[r] = 1 .. Len(pairings[r])
    BY <1>2
  <1>4. PICK t \in 1 .. Len(pairings[r]) : m = <<r, t>>
    BY <1>1, <1>3
  <1> QED
    BY <1>2, <1>4 DEF PairingOf

\* The inductive invariant implies the type invariant,
LEMMA EventInvImpliesType == EventInv => EventTypeOK
  <1> SUFFICES ASSUME EventInv
               PROVE  EventTypeOK
    OBVIOUS
  <1>1. PairingsAmong(Players) = Pairings
    BY DEF PairingsAmong, Pairings
  <1>2. pairings \in Seq(Seq(Pairings)) /\ Len(pairings) = currentRound
    BY <1>1 DEF EventInv
  <1>3. ASSUME NEW m \in Matches
        PROVE  PairingOf(m).winner \in PairingOf(m).players \cup {NoPlayer}
    <2>1. PICK r \in 1 .. Len(pairings) : \E t \in 1 .. Len(pairings[r]) :
                m = <<r, t>> /\ PairingOf(m) = pairings[r][t]
      BY <1>2, MatchesAre
    <2>2. PICK t \in 1 .. Len(pairings[r]) : PairingOf(m) = pairings[r][t]
      BY <2>1
    <2>3. TablesOK(pairings[r], event)
      BY <1>2 DEF EventInv, RoundOK
    <2> QED
      BY <2>2, <2>3 DEF TablesOK
  <1>4. /\ event \in Events
        /\ status \in {"Deckbuilding", "Pairing", "MatchInProgress", "RoundComplete", "Complete"}
        /\ records \in [Players -> [matchWins : Nat, wins : Nat, losses : Nat, draws : Nat]]
        /\ misread \in BOOLEAN
    BY DEF EventInv, Statuses, Recs
  <1> QED
    BY <1>2, <1>3, <1>4 DEF EventTypeOK

\* that nobody sits at two tables of a round,
LEMMA EventInvImpliesTables == EventInv => OneTablePerRound
  <1> SUFFICES ASSUME EventInv
               PROVE  OneTablePerRound
    OBVIOUS
  <1>1. EventTypeOK
    BY EventInvImpliesType
  <1>2. ASSUME NEW r \in 1 .. currentRound
        PROVE  /\ Cardinality(UNION PairsIn(r)) = 2 * Len(pairings[r])
               /\ event.format = Swiss => Cardinality(Players \ UNION PairsIn(r)) = event.seats % 2
    <2>1. RoundOK(pairings[r], Players, event)
      BY DEF EventInv
    <2>2. pairings[r] \in Seq(PairingsAmong(Players)) /\ SeatsOK(pairings[r], Players, event)
      BY <2>1 DEF RoundOK
    <2>3. ToSet(Seated(pairings[r])) = PairsIn(r) /\ Len(Seated(pairings[r])) = Len(pairings[r])
      BY <2>2, SeatedIs DEF PairsIn
    <2> QED
      BY <2>2, <2>3 DEF SeatsOK, Round
  <1> QED
    BY <1>1, <1>2 DEF OneTablePerRound

\* and that a bracket seats the winners of the round before.
LEMMA EventInvImpliesBracket == EventInv => BracketSound
  <1> SUFFICES ASSUME EventInv, event.format = SingleElimination, NEW r \in 2 .. currentRound
               PROVE  UNION PairsIn(r) = {p.winner : p \in ToSet(pairings[r - 1])}
    BY DEF BracketSound
  <1>1. UNION ToSet(Seated(pairings[r])) = WinnersOf(pairings[r - 1])
    BY DEF EventInv, Bracket
  <1>2. currentRound \in Nat
    BY DEF EventInv
  <1>3. r \in 1 .. currentRound
    BY <1>2
  <1>4. pairings[r] \in Seq(PairingsAmong(Players))
    BY <1>3 DEF EventInv, RoundOK
  <1>5. ToSet(Seated(pairings[r])) = PairsIn(r)
    BY <1>4, SeatedIs DEF PairsIn
  <1> QED
    BY <1>1, <1>5 DEF WinnersOf

\* The invariant holds before the first round.
LEMMA EventInitInv == EventInit => EventInv
  <1> SUFFICES ASSUME EventInit
               PROVE  EventInv
    OBVIOUS
  <1>1. event \in Events /\ status \in Statuses /\ currentRound = 0 /\ pairings = <<>> /\ misread = FALSE
    BY DEF EventInit, Statuses
  <1>2. records \in [Players -> Recs]
    <2>1. NoRecord \in Recs
      BY DEF NoRecord, Recs
    <2> QED
      BY <2>1 DEF EventInit
  <1>3. pairings \in Seq(Seq(PairingsAmong(Players))) /\ Len(pairings) = currentRound
    BY <1>1
  <1>4. 1 .. currentRound = {} /\ 2 .. currentRound = {}
    BY <1>1
  <1>5. Bracket(pairings, currentRound)
    BY <1>4 DEF Bracket
  <1> QED
    BY <1>1, <1>2, <1>3, <1>4, <1>5 DEF EventInv

-----------------------------------------------------------------------------
(* The next round.                                                         *)

\* Pairs of neighbours in a sequence of distinct players make a round of them.
LEMMA NeighboursAreRound ==
    ASSUME NEW P, NEW w \in Seq(P), Distinct(w), NEW h \in Nat, Len(w) = 2 * h
    PROVE  LET m == [i \in 1 .. h |-> {w[2 * i - 1], w[2 * i]}]
           IN  Round(m, P) /\ Len(m) = h /\ UNION ToSet(m) = ToSet(w)
  <1> DEFINE m == [i \in 1 .. h |-> {w[2 * i - 1], w[2 * i]}]
             n == Len(w)
  <1>1. n = 2 * h /\ DOMAIN w = 1 .. n /\ (\A k \in 1 .. n : w[k] \in P)
    OBVIOUS
  <1>2. \A a, b \in 1 .. n : w[a] = w[b] => a = b
    BY DEF Distinct
  <1> HIDE DEF n
  <1>3. \A i \in 1 .. h : 2 * i - 1 \in 1 .. n /\ 2 * i \in 1 .. n /\ 2 * i - 1 # 2 * i
    BY <1>1
  <1>4. \A i \in 1 .. h : w[2 * i - 1] \in P /\ w[2 * i] \in P /\ w[2 * i - 1] # w[2 * i]
    BY <1>1, <1>2, <1>3
  <1>5. \A i \in 1 .. h : m[i] = {w[2 * i - 1], w[2 * i]}
    OBVIOUS
  <1>6. m \in [1 .. h -> SUBSET P]
    BY <1>4
  <1>7. DOMAIN m = 1 .. h /\ m \in Seq(SUBSET P) /\ Len(m) = h
    BY <1>6
  <1> HIDE DEF m
  <1>8. ASSUME NEW i \in 1 .. h, NEW j \in 1 .. h, i # j
        PROVE  m[i] \cap m[j] = {}
    <2>1. 2 * i - 1 # 2 * j - 1 /\ 2 * i - 1 # 2 * j /\ 2 * i # 2 * j - 1 /\ 2 * i # 2 * j
      BY <1>8
    <2>2. /\ w[2 * i - 1] # w[2 * j - 1] /\ w[2 * i - 1] # w[2 * j]
          /\ w[2 * i] # w[2 * j - 1] /\ w[2 * i] # w[2 * j]
      BY <1>2, <1>3, <2>1
    <2> QED
      BY <1>5, <2>2
  <1>9. UNION ToSet(m) = ToSet(w)
    <2>1. ASSUME NEW x \in UNION ToSet(m)
          PROVE  x \in ToSet(w)
      <3>1. PICK i \in 1 .. h : x \in m[i]
        BY <1>7 DEF ToSet
      <3>2. x = w[2 * i - 1] \/ x = w[2 * i]
        BY <1>5, <3>1
      <3> QED
        BY <1>1, <1>3, <3>2 DEF ToSet
    <2>2. ASSUME NEW x \in ToSet(w)
          PROVE  x \in UNION ToSet(m)
      <3>1. PICK k \in 1 .. n : x = w[k]
        BY <1>1 DEF ToSet
      <3>2. \E i \in 1 .. h : k = 2 * i - 1 \/ k = 2 * i
        <4>1. CASE k % 2 = 0
          <5>1. k \div 2 \in 1 .. h /\ k = 2 * (k \div 2)
            BY <1>1, <4>1
          <5> QED
            BY <5>1
        <4>2. CASE k % 2 # 0
          <5>1. (k + 1) \div 2 \in 1 .. h /\ k = 2 * ((k + 1) \div 2) - 1
            BY <1>1, <4>2
          <5> QED
            BY <5>1
        <4> QED
          BY <4>1, <4>2
      <3>3. PICK i \in 1 .. h : k = 2 * i - 1 \/ k = 2 * i
        BY <3>2
      <3>4. x \in m[i] /\ m[i] \in ToSet(m)
        BY <1>5, <1>7, <3>1, <3>3 DEF ToSet
      <3> QED
        BY <3>4
    <2> QED
      BY <2>1, <2>2
  <1>10. Cardinality(UNION ToSet(m)) = 2 * h
    <2>1. Cardinality(ToSet(w)) = Len(w)
      BY SizeOfPool
    <2> QED
      BY <1>9, <2>1
  <1>11. \A i \in 1 .. h : \E a, b \in P : a # b /\ m[i] = {a, b}
    BY <1>4, <1>5
  <1>12. Round(m, P)
    BY <1>7, <1>8, <1>10, <1>11 DEF Round
  <1> QED
    BY <1>7, <1>9, <1>12 DEF m

\* The first round of a bracket seats everybody.
LEMMA SeedsAreRound ==
    ASSUME event \in Events, event.format = SingleElimination
    PROVE  Round(SeededPairs, Players) /\ Len(SeededPairs) \in {2, 4}
  <1> DEFINE s == event.seats
             h == s \div 2
             m == SeededPairs
  <1>1. s \in {4, 8} /\ Players = 0 .. s - 1 /\ Cardinality(Players) = s
    BY EventFacts DEF Players
  <1>2. m = [i \in 1 .. h |-> {i - 1, s - i}]
    BY DEF SeededPairs
  <1> HIDE DEF s, m
  <1>3. h \in {2, 4} /\ s = 2 * h
    BY <1>1
  <1> HIDE DEF h
  <1>4. \A i \in 1 .. h : i - 1 \in Players /\ s - i \in Players /\ i - 1 # s - i
    BY <1>1, <1>3
  <1>5. /\ \A i \in 1 .. h : m[i] = {i - 1, s - i}
        /\ m \in [1 .. h -> SUBSET Players]
    BY <1>2, <1>4
  <1>6. DOMAIN m = 1 .. h /\ m \in Seq(SUBSET Players) /\ Len(m) = h
    BY <1>3, <1>5
  <1>7. ASSUME NEW i \in 1 .. h, NEW j \in 1 .. h, i # j
        PROVE  m[i] \cap m[j] = {}
    <2>1. i - 1 # j - 1 /\ i - 1 # s - j /\ s - i # j - 1 /\ s - i # s - j
      BY <1>3, <1>7
    <2> QED
      BY <1>5, <2>1
  <1>8. UNION ToSet(m) = Players
    <2>1. UNION ToSet(m) \subseteq Players
      BY <1>5, <1>6 DEF ToSet
    <2>2. ASSUME NEW x \in Players
          PROVE  \E i \in 1 .. h : x = i - 1 \/ x = s - i
      <3>1. CASE x < h
        <4>1. x + 1 \in 1 .. h /\ x = (x + 1) - 1
          BY <1>1, <1>3, <3>1
        <4> QED
          BY <4>1
      <3>2. CASE x >= h
        <4>1. s - x \in 1 .. h /\ x = s - (s - x)
          BY <1>1, <1>3, <3>2
        <4> QED
          BY <4>1
      <3> QED
        BY <1>1, <1>3, <3>1, <3>2
    <2>3. ASSUME NEW x \in Players
          PROVE  x \in UNION ToSet(m)
      <3>1. PICK i \in 1 .. h : x = i - 1 \/ x = s - i
        BY <2>2
      <3>2. x \in m[i] /\ m[i] \in ToSet(m)
        BY <1>5, <1>6, <3>1 DEF ToSet
      <3> QED
        BY <3>2
    <2> QED
      BY <2>1, <2>3
  <1>9. \A i \in 1 .. h : \E a, b \in Players : a # b /\ m[i] = {a, b}
    BY <1>4, <1>5
  <1>10. Cardinality(UNION ToSet(m)) = 2 * h
    BY <1>1, <1>3, <1>8, Zenon
  <1>11. Round(m, Players)
    BY <1>6, <1>7, <1>9, <1>10 DEF Round
  <1> QED
    BY <1>3, <1>6, <1>11 DEF m

\* The k-th smallest of the first numbers is k.
LEMMA KthOfInterval ==
    ASSUME NEW l \in Nat, NEW k \in 1 .. l
    PROVE  Kth(1 .. l, k) = k
  <1>1. ASSUME NEW i \in 1 .. l
        PROVE  Cardinality({j \in 1 .. l : j <= i}) = i
    <2>1. {j \in 1 .. l : j <= i} = 1 .. i
      OBVIOUS
    <2>2. Cardinality(1 .. i) = IF 1 > i THEN 0 ELSE i - 1 + 1
      BY FS_Interval
    <2>3. Cardinality(1 .. i) = i
      BY <2>2
    <2> QED
      BY <2>1, <2>3
  <1>2. \A i \in 1 .. l : (Cardinality({j \in 1 .. l : j <= i}) = k) <=> i = k
    BY <1>1
  <1> QED
    BY <1>2 DEF Kth

\* A later round of a bracket seats the winners of the round before.
LEMMA WinnersAreRound ==
    ASSUME EventInv, MayPair, event.format = SingleElimination, currentRound # 0
    PROVE  /\ Round(AdjacentWinners, Players)
           /\ Len(AdjacentWinners) \in {1, 2}
           /\ UNION ToSet(AdjacentWinners) = WinnersOf(pairings[currentRound])
  <1> DEFINE ps == pairings[currentRound]
             l == Len(ps)
             h == l \div 2
             w == [k \in 1 .. l |-> ps[k].winner]
             m == [i \in 1 .. h |-> {w[2 * i - 1], w[2 * i]}]
  <1>1. currentRound \in Nat /\ currentRound \in 1 .. currentRound
    BY DEF EventInv
  <1>2. ps \in Seq(PairingsAmong(Players)) /\ TablesOK(ps, event) /\ SeatsOK(ps, Players, event)
    BY <1>1 DEF EventInv, RoundOK
  <1>3. AllComplete(ps) /\ l # 1 /\ l \in {1, 2, 4}
    BY DEF EventInv, MayFollow
  <1>4. l \in {2, 4} /\ h \in {1, 2} /\ l = 2 * h
    <2> HIDE DEF l
    <2>1. l \in {2, 4}
      BY <1>3
    <2> QED
      BY <2>1
  <1>5. DOMAIN ps = 1 .. l
    BY <1>2
  <1>6. ASSUME NEW k \in 1 .. l
        PROVE  /\ ps[k].status = "Complete" /\ ps[k].winner # NoPlayer
               /\ ps[k].winner \in ps[k].players /\ ps[k].winner \in Players
               /\ ResultWinner(ps[k]) = ps[k].winner
    <2>1. ps[k].status = "Complete"
      BY <1>3, <1>5 DEF AllComplete, ToSet
    <2>2. ps[k].winner # NoPlayer /\ ps[k].winner \in ps[k].players
      BY <1>2, <2>1 DEF TablesOK
    <2>3. ps[k] \in PairingsAmong(Players)
      BY <1>2, ElementOfSeq
    <2>4. ps[k].winner \in Players
      BY <2>2, <2>3 DEF PairingsAmong
    <2> QED
      BY <2>1, <2>2, <2>4 DEF ResultWinner
  <1>7. WonTables = 1 .. l
    BY <1>5, <1>6 DEF WonTables
  <1> HIDE DEF l, h, ps
  <1>8. Cardinality(WonTables) = l
    <2>1. Cardinality(1 .. l) = IF 1 > l THEN 0 ELSE l - 1 + 1
      BY <1>4, FS_Interval
    <2> QED
      BY <1>4, <1>7, <2>1
  <1>9. ASSUME NEW k \in 1 .. l
        PROVE  WinnerAt(k) = w[k]
    <2>1. Kth(WonTables, k) = k
      BY <1>4, <1>7, KthOfInterval
    <2> QED
      BY <1>6, <2>1 DEF WinnerAt, ps
  <1>10. \A i \in 1 .. h : 2 * i - 1 \in 1 .. l /\ 2 * i \in 1 .. l
    BY <1>4
  <1>11. \A i \in 1 .. h : {WinnerAt(2 * i - 1), WinnerAt(2 * i)} = {w[2 * i - 1], w[2 * i]}
    BY <1>9, <1>10
  <1>12. AdjacentWinners = m
    <2>1. AdjacentWinners = [i \in 1 .. h |-> {WinnerAt(2 * i - 1), WinnerAt(2 * i)}]
      BY <1>8 DEF AdjacentWinners, h
    <2> QED
      BY <1>11, <2>1
  <1>13. w \in Seq(Players) /\ Len(w) = l /\ DOMAIN w = 1 .. l /\ \A k \in 1 .. l : w[k] = ps[k].winner
    <2>1. w \in [1 .. l -> Players]
      BY <1>6
    <2> QED
      BY <1>4, <2>1
  <1>14. Distinct(w)
    <2>1. \A i, j \in 1 .. l : i # j => ps[i].players \cap ps[j].players = {}
      <3>1. /\ Len(Seated(ps)) = l
            /\ \A i \in 1 .. l : Seated(ps)[i] = ps[i].players
        BY <1>2, SeatedIs DEF l
      <3> QED
        BY <1>2, <3>1 DEF SeatsOK, Round
    <2>2. \A i, j \in 1 .. l : w[i] = w[j] => i = j
      BY <1>6, <1>13, <2>1
    <2> HIDE DEF w
    <2> QED
      BY <1>13, <2>2 DEF Distinct
  <1>15. ToSet(w) = WinnersOf(ps)
    BY <1>5, <1>13 DEF ToSet, WinnersOf
  <1> HIDE DEF w
  <1>16. Round(m, Players) /\ Len(m) = h /\ UNION ToSet(m) = ToSet(w)
    <2>1. h \in Nat
      BY <1>4
    <2> QED
      BY <1>4, <1>13, <1>14, <2>1, NeighboursAreRound
  <1> HIDE DEF m
  <1> QED
    BY <1>4, <1>12, <1>15, <1>16 DEF ps

\* A pool of the Swiss pairing lists every player once.
LEMMA PoolsAre ==
    ASSUME event \in Events, NEW p \in Pools
    PROVE  p \in Seq(Players) /\ Distinct(p) /\ Len(p) = event.seats /\ ToSet(p) = Players
  <1> DEFINE s == event.seats
  <1>1. s \in Nat /\ IsFiniteSet(Players) /\ Cardinality(Players) = s
    BY EventFacts
  <1>2. p \in SetToSeqs(Players)
    BY DEF Pools
  <1>3. p \in [1 .. s -> Players] /\ \A i, j \in 1 .. s : i # j => p[i] # p[j]
    BY <1>1, <1>2 DEF SetToSeqs
  <1> HIDE DEF s
  <1>4. p \in Seq(Players) /\ Len(p) = s /\ DOMAIN p = 1 .. s
    BY <1>1, <1>3
  <1>5. Distinct(p)
    BY <1>3, <1>4 DEF Distinct
  <1>6. ToSet(p) = Players
    <2>1. Cardinality(ToSet(p)) = s
      BY <1>4, <1>5, SizeOfPool
    <2>2. ToSet(p) \in SUBSET Players
      BY <1>3, <1>4 DEF ToSet
    <2> QED
      BY <1>1, <2>1, <2>2, FS_Subset
  <1> QED
    BY <1>4, <1>5, <1>6 DEF s

\* Whatever round GeneratePairings produces: every table has two players, nobody
\* sits at two, and those with a bye are the ones that sit at none.
NewRound(rd) ==
    /\ Round(rd.paired, Players)
    /\ event.format = Swiss => /\ rd.bye = Players \ UNION ToSet(rd.paired)
                               /\ Cardinality(rd.bye) = event.seats % 2
    /\ event.format = SingleElimination =>
            /\ rd.bye = {}
            /\ Len(rd.paired) \in {1, 2, 4}
            /\ currentRound # 0 => UNION ToSet(rd.paired) = WinnersOf(pairings[currentRound])

\* Every round GeneratePairings may produce is such a round.
LEMMA NewRounds ==
    ASSUME EventInv, MayPair, NEW rd \in PossibleRounds
    PROVE  NewRound(rd)
  <1>1. event \in Events
    BY DEF EventInv
  <1>2. CASE event.format = Swiss
    <2>1. PICK p \in Pools : rd = PairSwiss(p, PriorPairs)
      BY <1>2 DEF PossibleRounds
    <2>2. p \in Seq(Players) /\ Distinct(p) /\ Len(p) = event.seats /\ ToSet(p) = Players
      BY <1>1, PoolsAre
    <2> DEFINE met == PriorPairs
    <2> HIDE DEF met
    <2>3. /\ Round(PairSwiss(p, met).paired, ToSet(p))
          /\ PairSwiss(p, met).bye = ToSet(p) \ UNION ToSet(PairSwiss(p, met).paired)
          /\ Cardinality(PairSwiss(p, met).bye) = Len(p) % 2
      BY <2>2, PairSwissSound
    <2>4. rd = PairSwiss(p, met)
      BY <2>1 DEF met
    <2>5. event.format # SingleElimination
      BY <1>2 DEF Swiss, SingleElimination
    <2> QED
      BY <2>2, <2>3, <2>4, <2>5 DEF NewRound
  <1>3. CASE event.format = SingleElimination
    <2>1. event.format # Swiss
      BY <1>1, <1>3, EventFacts
    <2> DEFINE new == IF currentRound = 0 THEN SeededPairs ELSE AdjacentWinners
    <2>2. rd = [paired |-> new, bye |-> {}]
      BY <2>1 DEF PossibleRounds
    <2>3. rd.paired = new /\ rd.bye = {}
      BY <2>2
    <2>4. CASE currentRound = 0
      <3>1. Round(rd.paired, Players) /\ Len(rd.paired) \in {2, 4}
        BY <1>1, <1>3, <2>3, <2>4, SeedsAreRound
      <3> QED
        BY <2>1, <2>3, <2>4, <3>1 DEF NewRound
    <2>5. CASE currentRound # 0
      <3>1. /\ Round(rd.paired, Players) /\ Len(rd.paired) \in {1, 2}
            /\ UNION ToSet(rd.paired) = WinnersOf(pairings[currentRound])
        BY <1>3, <2>3, <2>5, WinnersAreRound
      <3> QED
        BY <2>1, <2>3, <3>1 DEF NewRound
    <2> QED
      BY <2>4, <2>5
  <1> QED
    BY <1>1, <1>2, <1>3, EventFacts

\* The tables of a new round.
LEMMA TablesAre ==
    ASSUME NEW P, NEW m, Round(m, P)
    PROVE  /\ Tables(m) \in Seq(PairingsAmong(P)) /\ Len(Tables(m)) = Len(m)
           /\ \A i \in 1 .. Len(m) : Tables(m)[i] = [players |-> m[i], status |-> "Pending", winner |-> NoPlayer]
           /\ Seated(Tables(m)) = m
  <1> DEFINE l == Len(m)
             tb == Tables(m)
  <1>1. m \in Seq(SUBSET P) /\ l \in Nat
    BY DEF Round
  <1>2. tb = [i \in 1 .. l |-> [players |-> m[i], status |-> "Pending", winner |-> NoPlayer]]
    BY DEF Tables
  <1>3. m \in [1 .. l -> SUBSET P]
    BY <1>1
  <1> HIDE DEF l, tb
  <1>4. \A i \in 1 .. l : [players |-> m[i], status |-> "Pending", winner |-> NoPlayer] \in PairingsAmong(P)
    BY <1>3 DEF PairingsAmong
  <1>5. tb \in [1 .. l -> PairingsAmong(P)]
    BY <1>2, <1>4
  <1>6. tb \in Seq(PairingsAmong(P)) /\ Len(tb) = l
    BY <1>1, <1>5
  <1>7. \A i \in 1 .. l : tb[i] = [players |-> m[i], status |-> "Pending", winner |-> NoPlayer]
    BY <1>2
  <1>8. Seated(tb) = [i \in 1 .. l |-> m[i]]
    BY <1>6, <1>7 DEF Seated
  <1>9. [i \in 1 .. l |-> m[i]] = m
    BY <1>3
  <1> QED
    BY <1>6, <1>7, <1>8, <1>9 DEF l, tb

\* A bye keeps the type of the records.
LEMMA CreditedType ==
    ASSUME records \in [Players -> Recs], NEW bye
    PROVE  Credited(bye) \in [Players -> Recs]
  <1>1. \A q \in Players : records[q] \in Recs
    OBVIOUS
  <1>2. \A rec \in Recs : [rec EXCEPT !.matchWins = @ + 1] \in Recs
    BY DEF Recs
  <1>3. \A q \in Players : (IF q \in bye THEN [records[q] EXCEPT !.matchWins = @ + 1] ELSE records[q]) \in Recs
    BY <1>1, <1>2
  <1> QED
    BY <1>3 DEF Credited

\* The state after GeneratePairings.
LEMMA AfterPairing ==
    ASSUME EventInv, GeneratePairings
    PROVE  \E rd : /\ NewRound(rd)
                   /\ pairings' \in Seq(Seq(PairingsAmong(Players)))
                   /\ Len(pairings') = currentRound + 1
                   /\ \A r \in 1 .. currentRound : pairings'[r] = pairings[r]
                   /\ pairings'[currentRound + 1] = Tables(rd.paired)
                   /\ records' = Credited(rd.bye)
  <1>1. MayPair
    BY DEF GeneratePairings
  <1>2. PICK rd \in PossibleRounds : /\ pairings' = Append(pairings, Tables(rd.paired))
                                     /\ records' = Credited(rd.bye)
    BY DEF GeneratePairings
  <1>3. NewRound(rd)
    BY <1>1, NewRounds
  <1> DEFINE tb == Tables(rd.paired)
             X == Seq(PairingsAmong(Players))
  <1>4. tb \in X
    BY <1>3, TablesAre DEF NewRound
  <1>5. pairings \in Seq(X) /\ Len(pairings) = currentRound
    BY DEF EventInv
  <1> HIDE DEF tb, X
  <1>6. /\ Append(pairings, tb) \in Seq(X) /\ Len(Append(pairings, tb)) = Len(pairings) + 1
        /\ \A r \in 1 .. Len(pairings) : Append(pairings, tb)[r] = pairings[r]
        /\ Append(pairings, tb)[Len(pairings) + 1] = tb
    BY <1>4, <1>5, AppendProperties
  <1>7. pairings' = Append(pairings, tb)
    BY <1>2 DEF tb
  <1>8. /\ pairings' \in Seq(X)
        /\ Len(pairings') = currentRound + 1
        /\ \A r \in 1 .. currentRound : pairings'[r] = pairings[r]
        /\ pairings'[currentRound + 1] = tb
    BY <1>5, <1>6, <1>7
  <1> QED
    BY <1>2, <1>3, <1>8 DEF tb, X

\* A new round keeps the invariant: it is one of two players per table, and in a
\* bracket its players won the round before.
LEMMA GeneratePairingsKeeps ==
    ASSUME EventInv, GeneratePairings
    PROVE  EventInv'
  <1>1. PICK rd : /\ NewRound(rd)
                  /\ pairings' \in Seq(Seq(PairingsAmong(Players)))
                  /\ Len(pairings') = currentRound + 1
                  /\ \A r \in 1 .. currentRound : pairings'[r] = pairings[r]
                  /\ pairings'[currentRound + 1] = Tables(rd.paired)
                  /\ records' = Credited(rd.bye)
    BY AfterPairing
  <1>2. event' = event /\ misread' = misread /\ status' = "MatchInProgress"
        /\ currentRound' = currentRound + 1
    BY DEF GeneratePairings
  <1>3. Players' = Players
    BY <1>2 DEF Players
  <1>4. currentRound \in Nat /\ event \in Events /\ misread \in BOOLEAN
    BY DEF EventInv
  <1> DEFINE n == currentRound
             tb == Tables(rd.paired)
             P == Players
  <1>5. Round(rd.paired, P)
    BY <1>1 DEF NewRound
  <1>6. /\ tb \in Seq(PairingsAmong(P)) /\ Len(tb) = Len(rd.paired)
        /\ \A i \in 1 .. Len(rd.paired) :
                tb[i] = [players |-> rd.paired[i], status |-> "Pending", winner |-> NoPlayer]
        /\ Seated(tb) = rd.paired
    BY <1>5, TablesAre
  <1>7. RoundOK(tb, P, event)
    <2>1. TablesOK(tb, event)
      <3> HIDE DEF tb
      <3>1. ASSUME NEW i \in 1 .. Len(tb)
            PROVE  tb[i].winner = NoPlayer /\ tb[i].status = "Pending"
        <4>1. tb[i] = [players |-> rd.paired[i], status |-> "Pending", winner |-> NoPlayer]
          BY <1>6, Zenon
        <4> QED
          BY <4>1
      <3> QED
        BY <3>1 DEF TablesOK
    <2>2. SeatsOK(tb, P, event)
      BY <1>1, <1>5, <1>6 DEF SeatsOK, NewRound
    <2> QED
      BY <1>6, <2>1, <2>2 DEF RoundOK
  <1> HIDE DEF tb
  <1>8. ASSUME NEW r \in 1 .. n + 1
        PROVE  RoundOK(pairings'[r], P, event)
    <2>1. CASE r = n + 1
      BY <1>1, <1>7, <2>1 DEF tb
    <2>2. CASE r # n + 1
      <3>1. r \in 1 .. n
        BY <1>4, <2>2
      <3> QED
        BY <1>1, <3>1 DEF EventInv
    <2> QED
      BY <2>1, <2>2
  <1>9. event.format = SingleElimination => Len(pairings'[n + 1]) \in {1, 2, 4}
    BY <1>1, <1>6 DEF NewRound, tb
  <1>10. ASSUME event.format = SingleElimination
         PROVE  Bracket(pairings', n + 1)
    <2>1. Bracket(pairings, n)
      BY <1>10 DEF EventInv
    <2>2. ASSUME NEW r \in 2 .. n + 1
          PROVE  UNION ToSet(Seated(pairings'[r])) = WinnersOf(pairings'[r - 1])
      <3>1. CASE r = n + 1
        <4>1. n \in 1 .. n /\ n # 0 /\ r - 1 = n
          BY <1>4, <3>1
        <4>2. Seated(pairings'[r]) = rd.paired /\ pairings'[r - 1] = pairings[n]
          BY <1>1, <1>6, <3>1, <4>1 DEF tb
        <4> QED
          BY <1>1, <1>10, <4>1, <4>2 DEF NewRound
      <3>2. CASE r # n + 1
        <4>1. r \in 2 .. n /\ r \in 1 .. n /\ r - 1 \in 1 .. n
          BY <1>4, <3>2
        <4> QED
          BY <1>1, <2>1, <4>1 DEF Bracket
      <3> QED
        BY <3>1, <3>2
    <2> QED
      BY <2>2 DEF Bracket
  <1>11. records' \in [P -> Recs]
    BY <1>1, CreditedType DEF EventInv
  <1>12. ~MayPair'
    BY <1>2 DEF MayPair
  <1>13. status' \in Statuses
    BY <1>2 DEF Statuses
  <1> HIDE DEF n, P
  <1> QED
    BY <1>1, <1>2, <1>3, <1>4, <1>8, <1>9, <1>10, <1>11, <1>12, <1>13 DEF EventInv, n, P

\* AdvanceRound only renames a round that may be followed.
LEMMA AdvanceRoundKeeps ==
    ASSUME EventInv, AdvanceRound
    PROVE  EventInv'
  <1>1. /\ event' = event /\ currentRound' = currentRound /\ pairings' = pairings
        /\ records' = records /\ misread' = misread
        /\ status = "RoundComplete" /\ status' = "Pairing"
    BY DEF AdvanceRound
  <1>2. Players' = Players /\ MayPair
    BY <1>1 DEF Players, MayPair
  <1>3. status' \in Statuses
    BY <1>1 DEF Statuses
  <1> QED
    BY <1>1, <1>2, <1>3 DEF EventInv

-----------------------------------------------------------------------------
(* A reported result.                                                      *)

\* A table once its result is in.
Settled(p, w) == [players |-> p.players, status |-> "Complete", winner |-> w]

\* The round once the result of table t is in.
Updated(ps, t, w) == [ps EXCEPT ![t] = Settled(ps[t], w)]

\* A report names a table of the last round.
LEMMA AfterReport ==
    ASSUME EventInv, NEW mw \in Results, ReportMatchResult(mw[1], mw[2])
    PROVE  \E t \in 1 .. Len(pairings[currentRound]) :
             \E w \in pairings[currentRound][t].players \cup {NoPlayer} :
                LET ps == pairings[currentRound]
                IN  /\ currentRound \in 1 .. currentRound
                    /\ status \in {"MatchInProgress", "RoundComplete"}
                    /\ event.format = SingleElimination => w # NoPlayer
                    /\ pairings' = [pairings EXCEPT ![currentRound] = Updated(ps, t, w)]
                    /\ records' = RecordsAfter(ps[t], w)
                    /\ status' = StatusAfter(Updated(ps, t, w))
                    /\ misread' = (misread \/ (ps[t].status = "Complete" /\ ps[t].winner # ResultWinner(ps[t])))
  <1>1. mw[1] \in Matches
    BY DEF Results
  <1>2. pairings \in Seq(Seq(PairingsAmong(Players))) /\ Len(pairings) = currentRound
    BY DEF EventInv
  <1>3. PICK r \in 1 .. Len(pairings) : \E t \in 1 .. Len(pairings[r]) :
                mw[1] = <<r, t>> /\ PairingOf(mw[1]) = pairings[r][t]
    BY <1>1, <1>2, MatchesAre
  <1>4. PICK t \in 1 .. Len(pairings[r]) : mw[1] = <<r, t>> /\ PairingOf(mw[1]) = pairings[r][t]
    BY <1>3
  <1> DEFINE m == mw[1]
             w == mw[2]
             ps == pairings[currentRound]
  <1>5. m[1] = r /\ m[2] = t
    BY <1>4
  <1>6. MayReport(m, w)
    BY DEF ReportMatchResult
  <1>7. r = currentRound
    BY <1>5, <1>6 DEF MayReport
  <1>8. PairingOf(m) = ps[t]
    BY <1>4, <1>7
  <1>9. /\ status \in {"MatchInProgress", "RoundComplete"}
        /\ event.format = SingleElimination => w # NoPlayer
        /\ w \in ps[t].players \cup {NoPlayer}
    BY <1>6, <1>8 DEF MayReport
  <1>10. pairings' = [pairings EXCEPT ![m[1]][m[2]] =
                        [players |-> @.players, status |-> "Complete", winner |-> w]]
    BY DEF ReportMatchResult
  <1>11. pairings' = [pairings EXCEPT ![currentRound] = Updated(ps, t, w)]
    BY <1>5, <1>7, <1>10 DEF Updated, Settled
  <1>12. currentRound \in DOMAIN pairings
    BY <1>2, <1>3, <1>7
  <1>13. pairings'[currentRound] = Updated(ps, t, w)
    BY <1>11, <1>12
  <1>14. /\ records' = RecordsAfter(ps[t], w)
         /\ status' = StatusAfter(Updated(ps, t, w))
         /\ misread' = (misread \/ (ps[t].status = "Complete" /\ ps[t].winner # ResultWinner(ps[t])))
    <2>1. records' = RecordsAfter(PairingOf(m), w)
      BY DEF ReportMatchResult
    <2>2. status' = StatusAfter(pairings'[currentRound])
      BY DEF ReportMatchResult
    <2>3. misread' = \/ misread
                     \/ /\ PairingOf(m).status = "Complete"
                        /\ PairingOf(m).winner # ResultWinner(PairingOf(m))
      BY DEF ReportMatchResult
    <2> QED
      BY <1>8, <1>13, <2>1, <2>2, <2>3
  <1>15. currentRound \in 1 .. currentRound
    BY <1>2, <1>3, <1>7
  <1>16. t \in 1 .. Len(pairings[currentRound])
    BY <1>7
  <1> HIDE DEF m, w
  <1> QED
    BY <1>9, <1>11, <1>14, <1>15, <1>16

\* Reporting a result moves nobody to another table.
LEMMA UpdatedKeeps ==
    ASSUME NEW P, NEW ev, NEW ps, RoundOK(ps, P, ev), NEW t \in 1 .. Len(ps),
           NEW w \in ps[t].players \cup {NoPlayer},
           ev.format = SingleElimination => w # NoPlayer
    PROVE  /\ RoundOK(Updated(ps, t, w), P, ev)
           /\ Len(Updated(ps, t, w)) = Len(ps)
           /\ Seated(Updated(ps, t, w)) = Seated(ps)
           /\ AllComplete(ps) => AllComplete(Updated(ps, t, w))
           /\ Updated(ps, t, w)[t] = Settled(ps[t], w)
           /\ \A i \in 1 .. Len(ps) : i # t => Updated(ps, t, w)[i] = ps[i]
  <1> DEFINE us == Updated(ps, t, w)
             l == Len(ps)
             X == PairingsAmong(P)
  <1>1. ps \in Seq(X) /\ TablesOK(ps, ev) /\ SeatsOK(ps, P, ev)
    BY DEF RoundOK
  <1>2. l \in Nat /\ DOMAIN ps = 1 .. l /\ ps \in [1 .. l -> X]
    BY <1>1
  <1>3. ps[t] \in X
    BY <1>2
  <1>4. Settled(ps[t], w) \in X
    BY <1>3 DEF Settled, PairingsAmong
  <1>5. us = [i \in 1 .. l |-> IF i = t THEN Settled(ps[t], w) ELSE ps[i]]
    BY <1>2 DEF Updated
  <1> HIDE DEF us, l, X
  <1>6. us \in [1 .. l -> X]
    BY <1>2, <1>4, <1>5
  <1>7. us \in Seq(X) /\ Len(us) = l /\ DOMAIN us = 1 .. l
    BY <1>2, <1>6
  <1>8. us[t] = Settled(ps[t], w) /\ \A i \in 1 .. l : i # t => us[i] = ps[i]
    BY <1>5 DEF l
  <1>9. /\ us[t].players = ps[t].players /\ us[t].winner = w /\ us[t].status = "Complete"
    BY <1>8 DEF Settled
  <1>10. \A i \in 1 .. l : us[i].players = ps[i].players
    BY <1>8, <1>9
  <1>11. Seated(us) = Seated(ps)
    BY <1>7, <1>10 DEF Seated, l
  <1>12. TablesOK(us, ev)
    <2> SUFFICES ASSUME NEW i \in 1 .. l
                 PROVE  /\ us[i].winner \in us[i].players \cup {NoPlayer}
                        /\ ev.format = SingleElimination /\ us[i].status = "Complete" => us[i].winner # NoPlayer
      BY <1>7 DEF TablesOK
    <2>1. CASE i = t
      BY <1>9, <2>1
    <2>2. CASE i # t
      BY <1>1, <1>8, <2>2 DEF TablesOK, l
    <2> QED
      BY <2>1, <2>2
  <1>13. SeatsOK(us, P, ev)
    BY <1>1, <1>11 DEF SeatsOK
  <1>14. AllComplete(ps) => AllComplete(us)
    <2> SUFFICES ASSUME AllComplete(ps), NEW i \in 1 .. l
                 PROVE  us[i].status = "Complete"
      BY <1>7 DEF AllComplete, ToSet
    <2>1. ps[i].status = "Complete"
      BY <1>2 DEF AllComplete, ToSet
    <2> QED
      BY <1>8, <1>9, <2>1
  <1> QED
    BY <1>7, <1>8, <1>11, <1>12, <1>13, <1>14 DEF RoundOK, us, l, X

\* A result counted or taken back keeps the type of a record,
LEMMA RecordTypes ==
    ASSUME NEW rec \in Recs, NEW q, NEW w
    PROVE  Applied(rec, q, w) \in Recs /\ Undone(rec, q, w) \in Recs
  <1>1. rec.matchWins \in Nat /\ rec.wins \in Nat /\ rec.losses \in Nat /\ rec.draws \in Nat
    BY DEF Recs
  <1>2. \A n \in Nat : LessOne(n) \in Nat
    BY DEF LessOne
  <1>3. Applied(rec, q, w) \in Recs
    <2>1. [rec EXCEPT !.draws = @ + 1] \in Recs
      BY DEF Recs
    <2>2. [rec EXCEPT !.matchWins = @ + 1, !.wins = @ + 1] \in Recs
      <3>1. \A a, b \in Nat : [rec EXCEPT !.matchWins = a, !.wins = b] \in Recs
        BY DEF Recs
      <3>2. rec.matchWins + 1 \in Nat /\ rec.wins + 1 \in Nat
        BY <1>1
      <3> QED
        BY <3>1, <3>2
    <2>3. [rec EXCEPT !.losses = @ + 1] \in Recs
      BY DEF Recs
    <2> QED
      BY <2>1, <2>2, <2>3, Zenon DEF Applied
  <1>4. Undone(rec, q, w) \in Recs
    BY <1>1, <1>2 DEF Undone, Recs
  <1> QED
    BY <1>3, <1>4

\* and so does a report.
LEMMA RecordsAfterType ==
    ASSUME records \in [Players -> Recs], NEW p, NEW w
    PROVE  RecordsAfter(p, w) \in [Players -> Recs]
  <1> DEFINE settled(q) == IF p.status = "Complete" THEN Undone(records[q], q, ResultWinner(p))
                                                    ELSE records[q]
             new(q) == IF q \in p.players THEN Applied(settled(q), q, w) ELSE records[q]
  <1>1. \A q \in Players : settled(q) \in Recs
    BY RecordTypes
  <1> HIDE DEF settled
  <1>2. \A q \in Players : new(q) \in Recs
    BY <1>1, RecordTypes
  <1>3. RecordsAfter(p, w) = [q \in Players |-> new(q)]
    BY DEF RecordsAfter, settled
  <1> HIDE DEF new
  <1> QED
    BY <1>2, <1>3

\* A reported result keeps the invariant: only the last round may change, and a
\* complete round stays complete.
LEMMA ReportKeeps ==
    ASSUME EventInv, NEW mw \in Results, ReportMatchResult(mw[1], mw[2])
    PROVE  EventInv'
  <1> DEFINE n == currentRound
             ps == pairings[n]
             P == Players
  <1>1. PICK t \in 1 .. Len(pairings[currentRound]) :
             \E w \in pairings[currentRound][t].players \cup {NoPlayer} :
                    /\ currentRound \in 1 .. currentRound
                    /\ status \in {"MatchInProgress", "RoundComplete"}
                    /\ event.format = SingleElimination => w # NoPlayer
                    /\ pairings' = [pairings EXCEPT ![currentRound] = Updated(ps, t, w)]
                    /\ records' = RecordsAfter(ps[t], w)
                    /\ status' = StatusAfter(Updated(ps, t, w))
                    /\ misread' = (misread \/ (ps[t].status = "Complete" /\ ps[t].winner # ResultWinner(ps[t])))
    BY AfterReport
  <1>2. PICK w \in ps[t].players \cup {NoPlayer} :
                    /\ currentRound \in 1 .. currentRound
                    /\ status \in {"MatchInProgress", "RoundComplete"}
                    /\ event.format = SingleElimination => w # NoPlayer
                    /\ pairings' = [pairings EXCEPT ![currentRound] = Updated(ps, t, w)]
                    /\ records' = RecordsAfter(ps[t], w)
                    /\ status' = StatusAfter(Updated(ps, t, w))
                    /\ misread' = (misread \/ (ps[t].status = "Complete" /\ ps[t].winner # ResultWinner(ps[t])))
    BY <1>1
  <1> DEFINE us == Updated(ps, t, w)
  <1>3. event' = event /\ currentRound' = currentRound
    BY DEF ReportMatchResult
  <1>4. Players' = Players
    BY <1>3 DEF Players
  <1>5. /\ event \in Events /\ misread \in BOOLEAN /\ n \in Nat /\ records \in [P -> Recs]
        /\ pairings \in Seq(Seq(PairingsAmong(P))) /\ Len(pairings) = n /\ RoundOK(ps, P, event)
    BY <1>2 DEF EventInv
  <1>6. /\ RoundOK(us, P, event) /\ Len(us) = Len(ps) /\ Seated(us) = Seated(ps)
        /\ AllComplete(ps) => AllComplete(us)
    BY <1>2, <1>5, UpdatedKeeps
  <1>7. us \in Seq(PairingsAmong(P))
    BY <1>6 DEF RoundOK
  <1> HIDE DEF us, ps
  <1>8. /\ pairings' \in Seq(Seq(PairingsAmong(P))) /\ Len(pairings') = n
        /\ pairings'[n] = us
        /\ \A r \in 1 .. n : r # n => pairings'[r] = pairings[r]
    <2> DEFINE X == Seq(PairingsAmong(P))
    <2>1. us \in X /\ pairings \in Seq(X) /\ pairings' = [pairings EXCEPT ![n] = us] /\ n \in 1 .. Len(pairings)
      BY <1>2, <1>5, <1>7 DEF us
    <2> HIDE DEF X
    <2>2. /\ [pairings EXCEPT ![n] = us] \in Seq(X)
          /\ Len([pairings EXCEPT ![n] = us]) = Len(pairings)
          /\ \A i \in 1 .. Len(pairings) : [pairings EXCEPT ![n] = us][i] = IF i = n THEN us ELSE pairings[i]
      BY <2>1, ExceptSeq
    <2> QED
      BY <1>2, <1>5, <2>1, <2>2 DEF X
  <1>9. \A r \in 1 .. n : RoundOK(pairings'[r], P, event)
    BY <1>6, <1>8 DEF EventInv
  <1>10. event.format = SingleElimination => Len(pairings'[n]) \in {1, 2, 4}
    <2>1. n # 0
      BY <1>2
    <2>2. event.format = SingleElimination => Len(ps) \in {1, 2, 4}
      BY <2>1 DEF EventInv, ps
    <2> QED
      BY <1>6, <1>8, <2>2
  <1>11. ASSUME event.format = SingleElimination
         PROVE  Bracket(pairings', n)
    <2>1. Bracket(pairings, n)
      BY <1>11 DEF EventInv
    <2>2. ASSUME NEW r \in 2 .. n
          PROVE  UNION ToSet(Seated(pairings'[r])) = WinnersOf(pairings'[r - 1])
      <3>1. r - 1 \in 1 .. n /\ r - 1 # n /\ r \in 1 .. n
        BY <1>5
      <3>2. pairings'[r - 1] = pairings[r - 1]
        BY <1>8, <3>1
      <3>3. Seated(pairings'[r]) = Seated(pairings[r])
        BY <1>6, <1>8, <3>1 DEF ps
      <3> QED
        BY <2>1, <3>2, <3>3 DEF Bracket
    <2> QED
      BY <2>2 DEF Bracket
  <1>12. records' \in [P -> Recs]
    BY <1>2, <1>5, RecordsAfterType
  <1>13. misread' \in BOOLEAN
    BY <1>2, Zenon
  <1>14. status' = StatusAfter(us)
    BY <1>2 DEF us
  <1>15. status' \in Statuses
    BY <1>2, <1>14 DEF StatusAfter, Statuses
  <1>16. ASSUME MayPair'
         PROVE  MayFollow(us, event)
    <2>1. CASE ~AllComplete(us)
      <3>1. status' = status
        BY <1>14, <2>1 DEF StatusAfter
      <3>2. status = "RoundComplete"
        BY <1>2, <1>16, <3>1 DEF MayPair
      <3>3. MayPair /\ currentRound # 0
        BY <1>2, <3>2 DEF MayPair
      <3>4. AllComplete(ps)
        BY <3>3 DEF EventInv, MayFollow, ps
      <3> QED
        BY <1>6, <2>1, <3>4
    <2>2. CASE AllComplete(us)
      <3>1. status' # "Complete"
        BY <1>16 DEF MayPair
      <3>2. ~TournamentOver(us)
        BY <1>14, <2>2, <3>1 DEF StatusAfter
      <3>3. event.format = SingleElimination => event.format # Swiss
        BY <1>5, EventFacts
      <3> QED
        BY <2>2, <3>2, <3>3 DEF TournamentOver, MayFollow
    <2> QED
      BY <2>1, <2>2
  <1> HIDE DEF n, P
  <1> QED
    BY <1>3, <1>4, <1>5, <1>8, <1>9, <1>10, <1>11, <1>12, <1>13, <1>15, <1>16 DEF EventInv, n, P

\* Every step keeps the invariant.
LEMMA EventStep ==
    ASSUME EventInv, [EventNext]_eventVars
    PROVE  EventInv'
  <1>1. CASE GeneratePairings
    BY <1>1, GeneratePairingsKeeps
  <1>2. CASE \E mw \in Results : ReportMatchResult(mw[1], mw[2])
    BY <1>2, ReportKeeps
  <1>3. CASE AdvanceRound
    BY <1>3, AdvanceRoundKeeps
  <1>4. CASE UNCHANGED eventVars
    <2>1. /\ event' = event /\ currentRound' = currentRound /\ pairings' = pairings
          /\ records' = records /\ misread' = misread /\ status' = status
      BY <1>4 DEF eventVars
    <2>2. Players' = Players /\ (MayPair' <=> MayPair)
      BY <2>1 DEF Players, MayPair
    <2> QED
      BY <2>1, <2>2 DEF EventInv
  <1> QED
    BY <1>1, <1>2, <1>3, <1>4 DEF EventNext

\* The state of an event keeps its types, and every table is won by one of its
\* players or by nobody (apply_report_match_result).
THEOREM EventTypes == EventSpec => []EventTypeOK
  <1>1. EventInit => EventInv
    BY EventInitInv
  <1>2. EventInv /\ [EventNext]_eventVars => EventInv'
    BY EventStep
  <1>3. EventInv => EventTypeOK
    BY EventInvImpliesType
  <1> QED
    BY <1>1, <1>2, <1>3, PTL DEF EventSpec

\* Whatever standings a Swiss round is paired from, and whichever results a
\* bracket is paired from, nobody sits at two tables of a round, and in Swiss
\* the bye of an odd pod is the only one who sits out.
THEOREM TablesOfARound == EventSpec => []OneTablePerRound
  <1>1. EventInit => EventInv
    BY EventInitInv
  <1>2. EventInv /\ [EventNext]_eventVars => EventInv'
    BY EventStep
  <1>3. EventInv => OneTablePerRound
    BY EventInvImpliesTables
  <1> QED
    BY <1>1, <1>2, <1>3, PTL DEF EventSpec

\* Single elimination seats the winners of the round before, as they stand after
\* every correction.
THEOREM BracketFollowsResults == EventSpec => []BracketSound
  <1>1. EventInit => EventInv
    BY EventInitInv
  <1>2. EventInv /\ [EventNext]_eventVars => EventInv'
    BY EventStep
  <1>3. EventInv => BracketSound
    BY EventInvImpliesBracket
  <1> QED
    BY <1>1, <1>2, <1>3, PTL DEF EventSpec

-----------------------------------------------------------------------------
(* The standings.                                                          *)

\* What a match that w won, or nobody, is for the player q.
Outcome(w, q) == IF w = q THEN "won" ELSE IF w = NoPlayer THEN "drawn" ELSE "lost"

MatchesIn(pp) == UNION {{r} \X DOMAIN pp[r] : r \in DOMAIN pp}

\* The table p is over and was c for its player q.
WasFor(p, q, c) == q \in p.players /\ p.status = "Complete" /\ Outcome(p.winner, q) = c

Those(pp, q, c) == {m \in MatchesIn(pp) : WasFor(pp[m[1]][m[2]], q, c)}

Tally(pp, q, c) == Cardinality(Those(pp, q, c))

\* The rounds in which q has no table.
Idle(pp, n, q) == {r \in 1 .. n : q \notin UNION ToSet(Seated(pp[r]))}

ByesIn(ev, pp, n, q) == IF ev.format = Swiss THEN Idle(pp, n, q) ELSE {}

TallyOf(won, byes, lost, drawn) ==
    [matchWins |-> won + byes, wins |-> won, losses |-> lost, draws |-> drawn]

Tallies(ev, pp, n, recs, P) ==
    \A q \in P : recs[q] = TallyOf(Tally(pp, q, "won"), Cardinality(ByesIn(ev, pp, n, q)),
                                   Tally(pp, q, "lost"), Tally(pp, q, "drawn"))

\* The matches of an event are finitely many.
LEMMA MatchesInAre ==
    ASSUME NEW X, NEW pp \in Seq(Seq(X))
    PROVE  /\ \A m : m \in MatchesIn(pp) <=>
                        \E r \in 1 .. Len(pp) : \E t \in 1 .. Len(pp[r]) : m = <<r, t>>
           /\ IsFiniteSet(MatchesIn(pp))
  <1> DEFINE n == Len(pp)
             row(r) == {r} \X DOMAIN pp[r]
             R == {row(r) : r \in 1 .. n}
             f == [r \in 1 .. n |-> row(r)]
  <1>1. n \in Nat /\ DOMAIN pp = 1 .. n /\ \A r \in 1 .. n : pp[r] \in Seq(X)
    OBVIOUS
  <1>2. \A r \in 1 .. n : Len(pp[r]) \in Nat /\ DOMAIN pp[r] = 1 .. Len(pp[r])
    BY <1>1
  <1>3. MatchesIn(pp) = UNION R
    BY <1>1 DEF MatchesIn
  <1>4. \A m : m \in MatchesIn(pp) <=> \E r \in 1 .. n : m \in row(r)
    BY <1>3
  <1>5. ASSUME NEW r \in 1 .. n, NEW m
        PROVE  m \in row(r) <=> \E t \in 1 .. Len(pp[r]) : m = <<r, t>>
    BY <1>2
  <1>6. IsFiniteSet(R)
    <2>1. IsFiniteSet(1 .. n)
      BY <1>1, FS_Interval
    <2>2. f \in Surjection(1 .. n, R)
      <3> HIDE DEF row
      <3> QED
        BY DEF Surjection
    <2> HIDE DEF R, f
    <2> QED
      BY <2>1, <2>2, FS_Surjection
  <1>7. ASSUME NEW T \in R
        PROVE  IsFiniteSet(T)
    <2>1. PICK r \in 1 .. n : T = {r} \X (1 .. Len(pp[r]))
      BY <1>2
    <2>2. IsFiniteSet({r})
      BY FS_Singleton
    <2>3. IsFiniteSet(1 .. Len(pp[r]))
      BY <1>2, FS_Interval
    <2> QED
      BY <2>1, <2>2, <2>3, FS_Product
  <1> HIDE DEF R, row, n
  <1>8. IsFiniteSet(MatchesIn(pp))
    BY <1>3, <1>6, <1>7, FS_UNION
  <1> QED
    BY <1>4, <1>5, <1>8 DEF n

\* A tally is a number,
LEMMA ThoseFinite ==
    ASSUME NEW X, NEW pp \in Seq(Seq(X)), NEW q, NEW c
    PROVE  IsFiniteSet(Those(pp, q, c)) /\ Tally(pp, q, c) \in Nat
  <1>1. IsFiniteSet(MatchesIn(pp))
    BY MatchesInAre
  <1>2. Those(pp, q, c) \in SUBSET MatchesIn(pp)
    BY DEF Those
  <1>3. IsFiniteSet(Those(pp, q, c))
    BY <1>1, <1>2, FS_Subset
  <1> QED
    BY <1>3, FS_CardinalityType DEF Tally

\* and so is a count of byes.
LEMMA IdleFinite ==
    ASSUME NEW ev, NEW pp, NEW n \in Nat, NEW q
    PROVE  /\ IsFiniteSet(Idle(pp, n, q))
           /\ IsFiniteSet(ByesIn(ev, pp, n, q)) /\ Cardinality(ByesIn(ev, pp, n, q)) \in Nat
  <1>1. IsFiniteSet(1 .. n)
    BY FS_Interval
  <1>2. Idle(pp, n, q) \in SUBSET (1 .. n)
    BY DEF Idle
  <1>3. IsFiniteSet(Idle(pp, n, q))
    BY <1>1, <1>2, FS_Subset
  <1>4. IsFiniteSet(ByesIn(ev, pp, n, q))
    BY <1>3, FS_EmptySet DEF ByesIn
  <1> QED
    BY <1>3, <1>4, FS_CardinalityType

\* The sets of the property, by outcome.
LEMMA OutcomeSets ==
    ASSUME EventInv, NEW q \in Players
    PROVE  /\ Won(q) = Those(pairings, q, "won")
           /\ Drawn(q) = Those(pairings, q, "drawn")
           /\ Lost(q) = Those(pairings, q, "lost")
           /\ Byes(q) = ByesIn(event, pairings, currentRound, q)
  <1>1. q # NoPlayer
    BY EventFacts DEF EventInv
  <1>2. \A w : /\ Outcome(w, q) = "won" <=> w = q
               /\ Outcome(w, q) = "drawn" <=> w = NoPlayer
               /\ Outcome(w, q) = "lost" <=> w # q /\ w # NoPlayer
    BY <1>1 DEF Outcome
  <1>3. Matches = MatchesIn(pairings)
    BY DEF Matches, MatchesIn
  <1>4. Completed(q) = {m \in MatchesIn(pairings) : /\ q \in PairingOf(m).players
                                                    /\ PairingOf(m).status = "Complete"}
    BY <1>3 DEF Completed
  <1>5. \A c : Those(pairings, q, c) = {m \in Completed(q) : Outcome(PairingOf(m).winner, q) = c}
    BY <1>4 DEF Those, WasFor, PairingOf
  <1>6. Won(q) = Those(pairings, q, "won")
    BY <1>2, <1>5 DEF Won
  <1>7. Drawn(q) = Those(pairings, q, "drawn")
    BY <1>2, <1>5 DEF Drawn
  <1>8. Lost(q) = Those(pairings, q, "lost")
    BY <1>2, <1>5 DEF Lost, Won, Drawn
  <1>9. ASSUME NEW r \in 1 .. currentRound
        PROVE  ToSet(Seated(pairings[r])) = PairsIn(r)
    <2>1. pairings[r] \in Seq(PairingsAmong(Players))
      BY DEF EventInv, RoundOK
    <2> QED
      BY <2>1, SeatedIs DEF PairsIn
  <1>10. Byes(q) = ByesIn(event, pairings, currentRound, q)
    BY <1>9 DEF Byes, ByesIn, Idle
  <1> QED
    BY <1>6, <1>7, <1>8, <1>10

\* The property in terms of tallies.
LEMMA TalliesMean ==
    ASSUME EventInv
    PROVE  RecordsTally <=> Tallies(event, pairings, currentRound, records, Players)
  <1> SUFFICES ASSUME NEW q \in Players
               PROVE  [matchWins |-> Cardinality(Won(q)) + Cardinality(Byes(q)),
                       wins      |-> Cardinality(Won(q)),
                       losses    |-> Cardinality(Lost(q)),
                       draws     |-> Cardinality(Drawn(q))]
                    = TallyOf(Tally(pairings, q, "won"),
                              Cardinality(ByesIn(event, pairings, currentRound, q)),
                              Tally(pairings, q, "lost"), Tally(pairings, q, "drawn"))
    BY DEF RecordsTally, Tallies
  <1> QED
    BY OutcomeSets DEF Tally, TallyOf

\* A round without results changes no tally.
LEMMA TallyOfNewRound ==
    ASSUME NEW X, NEW pp \in Seq(Seq(X)), NEW qq \in Seq(Seq(X)), Len(qq) = Len(pp) + 1,
           \A r \in 1 .. Len(pp) : qq[r] = pp[r],
           \A t \in 1 .. Len(qq[Len(qq)]) : qq[Len(qq)][t].status # "Complete",
           NEW q, NEW c
    PROVE  Tally(qq, q, c) = Tally(pp, q, c)
  <1> DEFINE n == Len(pp)
  <1>1. n \in Nat /\ Len(qq) = n + 1
    OBVIOUS
  <1>2. ASSUME NEW m
        PROVE  m \in Those(qq, q, c) <=> m \in Those(pp, q, c)
    <2>1. ASSUME m \in Those(qq, q, c)
          PROVE  m \in Those(pp, q, c)
      <3>1. m \in MatchesIn(qq) /\ WasFor(qq[m[1]][m[2]], q, c)
        BY <2>1 DEF Those
      <3>2. PICK r \in 1 .. Len(qq) : \E t \in 1 .. Len(qq[r]) : m = <<r, t>>
        BY <3>1, MatchesInAre
      <3>3. PICK t \in 1 .. Len(qq[r]) : m = <<r, t>>
        BY <3>2
      <3>4. WasFor(qq[r][t], q, c)
        BY <3>1, <3>3
      <3>5. r # Len(qq)
        BY <3>4 DEF WasFor
      <3>6. r \in 1 .. n
        BY <1>1, <3>5
      <3>7. qq[r] = pp[r]
        BY <3>6
      <3>8. m \in MatchesIn(pp)
        BY <3>3, <3>6, <3>7, MatchesInAre
      <3> QED
        BY <3>3, <3>4, <3>7, <3>8 DEF Those
    <2>2. ASSUME m \in Those(pp, q, c)
          PROVE  m \in Those(qq, q, c)
      <3>1. m \in MatchesIn(pp) /\ WasFor(pp[m[1]][m[2]], q, c)
        BY <2>2 DEF Those
      <3>2. PICK r \in 1 .. Len(pp) : \E t \in 1 .. Len(pp[r]) : m = <<r, t>>
        BY <3>1, MatchesInAre
      <3>3. PICK t \in 1 .. Len(pp[r]) : m = <<r, t>>
        BY <3>2
      <3>4. r \in 1 .. Len(qq) /\ qq[r] = pp[r]
        BY <1>1
      <3>5. m \in MatchesIn(qq)
        BY <3>3, <3>4, MatchesInAre
      <3> QED
        BY <3>1, <3>3, <3>4, <3>5 DEF Those
    <2> QED
      BY <2>1, <2>2
  <1>3. Those(qq, q, c) = Those(pp, q, c)
    BY <1>2
  <1> QED
    BY <1>3 DEF Tally

\* Of one table's result only its own count changes.
One(b) == IF b THEN 1 ELSE 0

Count(p, q, c) == IF WasFor(p, q, c) THEN 1 ELSE 0

ByeIn(ev, ps, q) == IF ev.format = Swiss /\ q \notin UNION ToSet(Seated(ps)) THEN 1 ELSE 0

\* Only table t of round n differs.
OneChange(pp, qq, n, t) ==
    /\ Len(qq) = Len(pp) /\ n \in 1 .. Len(pp) /\ t \in 1 .. Len(pp[n])
    /\ \A r \in 1 .. Len(pp) : r # n => qq[r] = pp[r]
    /\ Len(qq[n]) = Len(pp[n])
    /\ \A i \in 1 .. Len(pp[n]) : i # t => qq[n][i] = pp[n][i]

\* A tally loses the old result of the table and gains the new one.
LEMMA TallyOfResult ==
    ASSUME NEW X, NEW pp \in Seq(Seq(X)), NEW qq \in Seq(Seq(X)), NEW n, NEW t,
           OneChange(pp, qq, n, t), NEW q, NEW c
    PROVE  /\ Tally(pp, q, c) - Count(pp[n][t], q, c) \in Nat
           /\ Tally(qq, q, c) = Tally(pp, q, c) - Count(pp[n][t], q, c) + Count(qq[n][t], q, c)
  <1> USE DEF OneChange
  <1> DEFINE m0 == <<n, t>>
             S == Those(pp, q, c)
             T == Those(qq, q, c)
  <1>1. MatchesIn(qq) = MatchesIn(pp)
    <2>1. \A r \in 1 .. Len(pp) : Len(qq[r]) = Len(pp[r])
      OBVIOUS
    <2>2. \A m : m \in MatchesIn(qq) <=> m \in MatchesIn(pp)
      <3>1. \A m : m \in MatchesIn(pp) <=>
                        \E r \in 1 .. Len(pp) : \E i \in 1 .. Len(pp[r]) : m = <<r, i>>
        BY MatchesInAre
      <3>2. \A m : m \in MatchesIn(qq) <=>
                        \E r \in 1 .. Len(qq) : \E i \in 1 .. Len(qq[r]) : m = <<r, i>>
        BY MatchesInAre
      <3> QED
        BY <2>1, <3>1, <3>2
    <2> QED
      BY <2>2
  <1>2. m0 \in MatchesIn(pp)
    BY MatchesInAre
  <1>3. ASSUME NEW m \in MatchesIn(pp), m # m0
        PROVE  qq[m[1]][m[2]] = pp[m[1]][m[2]]
    <2>1. PICK r \in 1 .. Len(pp) : \E i \in 1 .. Len(pp[r]) : m = <<r, i>>
      BY MatchesInAre
    <2>2. PICK i \in 1 .. Len(pp[r]) : m = <<r, i>>
      BY <2>1
    <2>3. CASE r = n
      <3>1. i # t
        BY <1>3, <2>2, <2>3
      <3> QED
        BY <2>2, <2>3, <3>1
    <2>4. CASE r # n
      BY <2>2, <2>4
    <2> QED
      BY <2>3, <2>4
  <1>4. m0[1] = n /\ m0[2] = t
    OBVIOUS
  <1> HIDE DEF m0
  <1>5. m0 \in S <=> WasFor(pp[n][t], q, c)
    BY <1>2, <1>4 DEF Those
  <1>6. m0 \in T <=> WasFor(qq[n][t], q, c)
    BY <1>1, <1>2, <1>4 DEF Those
  <1>7. S \ {m0} = T \ {m0}
    BY <1>1, <1>3 DEF Those
  <1>8. IsFiniteSet(S) /\ IsFiniteSet(T) /\ Tally(pp, q, c) \in Nat /\ Tally(qq, q, c) \in Nat
    BY ThoseFinite
  <1> HIDE DEF S, T
  <1>9. Cardinality(S \ {m0}) = Cardinality(S) - One(m0 \in S)
    <2>1. Cardinality(S) \in Nat
      BY <1>8, FS_CardinalityType
    <2>2. Cardinality(S \ {m0}) = IF m0 \in S THEN Cardinality(S) - 1 ELSE Cardinality(S)
      BY <1>8, FS_RemoveElement
    <2>3. CASE m0 \in S
      BY <2>2, <2>3 DEF One
    <2>4. CASE m0 \notin S
      BY <2>1, <2>2, <2>4 DEF One
    <2> QED
      BY <2>3, <2>4
  <1>10. Cardinality(T \ {m0}) = Cardinality(T) - One(m0 \in T)
    <2>1. Cardinality(T) \in Nat
      BY <1>8, FS_CardinalityType
    <2>2. Cardinality(T \ {m0}) = IF m0 \in T THEN Cardinality(T) - 1 ELSE Cardinality(T)
      BY <1>8, FS_RemoveElement
    <2>3. CASE m0 \in T
      BY <2>2, <2>3 DEF One
    <2>4. CASE m0 \notin T
      BY <2>1, <2>2, <2>4 DEF One
    <2> QED
      BY <2>3, <2>4
  <1>11. Cardinality(S \ {m0}) \in Nat
    BY <1>8, FS_RemoveElement, FS_CardinalityType
  <1>12. Tally(pp, q, c) = Cardinality(S) /\ Tally(qq, q, c) = Cardinality(T)
    BY DEF Tally, S, T
  <1>13. One(m0 \in S) = Count(pp[n][t], q, c) /\ One(m0 \in T) = Count(qq[n][t], q, c)
    BY <1>5, <1>6 DEF One, Count
  <1>14. One(m0 \in S) \in Nat /\ One(m0 \in T) \in Nat
    BY DEF One
  <1> DEFINE a == One(m0 \in S)
             b == One(m0 \in T)
             k == Cardinality(S \ {m0})
             x == Tally(pp, q, c)
             y == Tally(qq, q, c)
  <1>15. k \in Nat /\ x \in Nat /\ y \in Nat /\ a \in Nat /\ b \in Nat /\ k = x - a /\ k = y - b
    BY <1>7, <1>8, <1>9, <1>10, <1>11, <1>12, <1>14
  <1>16. a = Count(pp[n][t], q, c) /\ b = Count(qq[n][t], q, c)
    BY <1>13
  <1> HIDE DEF a, b, k, x, y
  <1>17. x - a \in Nat /\ y = x - a + b
    BY <1>15
  <1> QED
    BY <1>16, <1>17 DEF x, y

\* Counting a result adds one to its tally (apply_match_record_result).
LEMMA AppliedTally ==
    ASSUME NEW a \in Nat, NEW b \in Nat, NEW l \in Nat, NEW d \in Nat, NEW q, q # NoPlayer, NEW w
    PROVE  Applied(TallyOf(a, b, l, d), q, w)
             = TallyOf(a + One(Outcome(w, q) = "won"), b,
                       l + One(Outcome(w, q) = "lost"), d + One(Outcome(w, q) = "drawn"))
  <1>1. CASE w = q
    <2>1. /\ One(Outcome(w, q) = "won") = 1 /\ One(Outcome(w, q) = "lost") = 0
          /\ One(Outcome(w, q) = "drawn") = 0
      BY <1>1 DEF One, Outcome
    <2>2. (a + b) + 1 = (a + 1) + b
      OBVIOUS
    <2>3. Applied(TallyOf(a, b, l, d), q, w) = TallyOf(a + 1, b, l, d)
      BY <1>1, <2>2 DEF Applied, TallyOf
    <2> QED
      BY <2>1, <2>3
  <1>2. CASE w = NoPlayer
    <2>1. /\ One(Outcome(w, q) = "won") = 0 /\ One(Outcome(w, q) = "lost") = 0
          /\ One(Outcome(w, q) = "drawn") = 1
      BY <1>2 DEF One, Outcome
    <2>2. Applied(TallyOf(a, b, l, d), q, w) = TallyOf(a, b, l, d + 1)
      BY <1>2 DEF Applied, TallyOf
    <2> QED
      BY <2>1, <2>2
  <1>3. CASE w # q /\ w # NoPlayer
    <2>1. /\ One(Outcome(w, q) = "won") = 0 /\ One(Outcome(w, q) = "lost") = 1
          /\ One(Outcome(w, q) = "drawn") = 0
      BY <1>3 DEF One, Outcome
    <2>2. Applied(TallyOf(a, b, l, d), q, w) = TallyOf(a, b, l + 1, d)
      BY <1>3 DEF Applied, TallyOf
    <2> QED
      BY <2>1, <2>2
  <1> QED
    BY <1>1, <1>2, <1>3

\* Undoing a counted result takes one from its tally: nothing is saturated away
\* (undo_match_record_result).
LEMMA UndoneTally ==
    ASSUME NEW a \in Nat, NEW b \in Nat, NEW l \in Nat, NEW d \in Nat, NEW q, q # NoPlayer, NEW w,
           a - One(Outcome(w, q) = "won") \in Nat,
           l - One(Outcome(w, q) = "lost") \in Nat,
           d - One(Outcome(w, q) = "drawn") \in Nat
    PROVE  Undone(TallyOf(a, b, l, d), q, w)
             = TallyOf(a - One(Outcome(w, q) = "won"), b,
                       l - One(Outcome(w, q) = "lost"), d - One(Outcome(w, q) = "drawn"))
  <1>1. CASE w = q
    <2>1. /\ One(Outcome(w, q) = "won") = 1 /\ One(Outcome(w, q) = "lost") = 0
          /\ One(Outcome(w, q) = "drawn") = 0
      BY <1>1 DEF One, Outcome
    <2>2. LessOne(a) = a - 1 /\ LessOne(a + b) = (a - 1) + b
      BY <2>1 DEF LessOne
    <2>3. Undone(TallyOf(a, b, l, d), q, w) = TallyOf(a - 1, b, l, d)
      BY <1>1, <2>2 DEF Undone, TallyOf
    <2> QED
      BY <2>1, <2>3
  <1>2. CASE w = NoPlayer
    <2>1. /\ One(Outcome(w, q) = "won") = 0 /\ One(Outcome(w, q) = "lost") = 0
          /\ One(Outcome(w, q) = "drawn") = 1
      BY <1>2 DEF One, Outcome
    <2>2. LessOne(d) = d - 1
      BY <2>1 DEF LessOne
    <2>3. Undone(TallyOf(a, b, l, d), q, w) = TallyOf(a, b, l, d - 1)
      BY <1>2, <2>2 DEF Undone, TallyOf
    <2> QED
      BY <2>1, <2>3
  <1>3. CASE w # q /\ w # NoPlayer
    <2>1. /\ One(Outcome(w, q) = "won") = 0 /\ One(Outcome(w, q) = "lost") = 1
          /\ One(Outcome(w, q) = "drawn") = 0
      BY <1>3 DEF One, Outcome
    <2>2. LessOne(l) = l - 1
      BY <2>1 DEF LessOne
    <2>3. Undone(TallyOf(a, b, l, d), q, w) = TallyOf(a, b, l - 1, d)
      BY <1>3, <2>2 DEF Undone, TallyOf
    <2> QED
      BY <2>1, <2>3
  <1> QED
    BY <1>1, <1>2, <1>3

\* A bye is a round without a table, and a match win.
LEMMA ByesOfNewRound ==
    ASSUME NEW ev, NEW pp, NEW qq, NEW n \in Nat, NEW q,
           \A r \in 1 .. n : qq[r] = pp[r]
    PROVE  Cardinality(ByesIn(ev, qq, n + 1, q))
             = Cardinality(ByesIn(ev, pp, n, q))
                 + ByeIn(ev, qq[n + 1], q)
  <1> DEFINE out == q \notin UNION ToSet(Seated(qq[n + 1]))
             S == Idle(pp, n, q)
             T == Idle(qq, n + 1, q)
  <1>1. IsFiniteSet(S) /\ IsFiniteSet(T)
    <2>1. n + 1 \in Nat
      OBVIOUS
    <2> QED
      BY <2>1, IdleFinite
  <1>2. n + 1 \notin S
    BY DEF Idle
  <1>3. out => T = S \cup {n + 1}
    BY DEF Idle
  <1>4. ~out => T = S
    BY DEF Idle
  <1>5. Cardinality(S) \in Nat
    BY <1>1, FS_CardinalityType
  <1> HIDE DEF out, S, T
  <1>6. Cardinality(T) = Cardinality(S) + One(out)
    <2>1. CASE out
      <3>1. Cardinality(S \cup {n + 1}) = Cardinality(S) + 1
        BY <1>1, <1>2, FS_AddElement
      <3> QED
        BY <1>3, <2>1, <3>1 DEF One
    <2>2. CASE ~out
      BY <1>4, <1>5, <2>2 DEF One
    <2> QED
      BY <2>1, <2>2
  <1>7. CASE ev.format = Swiss
    <2>1. ByesIn(ev, qq, n + 1, q) = T /\ ByesIn(ev, pp, n, q) = S
      BY <1>7 DEF ByesIn, S, T
    <2>2. ByeIn(ev, qq[n + 1], q) = One(out)
      BY <1>7 DEF One, ByeIn, out
    <2> QED
      BY <1>6, <2>1, <2>2 DEF out
  <1>8. CASE ev.format # Swiss
    <2>1. ByesIn(ev, qq, n + 1, q) = {} /\ ByesIn(ev, pp, n, q) = {}
      BY <1>8 DEF ByesIn
    <2>2. ByeIn(ev, qq[n + 1], q) = 0
      BY <1>8 DEF ByeIn
    <2>3. Cardinality({}) = 0
      BY FS_EmptySet
    <2> QED
      BY <2>1, <2>2, <2>3 DEF out
  <1> QED
    BY <1>7, <1>8

\* The inductive invariant of the standings.
TallyInv == EventInv /\ (misread \/ Tallies(event, pairings, currentRound, records, Players))

\* Nothing was played before the first round.
LEMMA TallyInitInv == EventInit => TallyInv
  <1> SUFFICES ASSUME EventInit
               PROVE  Tallies(event, pairings, currentRound, records, Players)
    BY EventInitInv DEF TallyInv
  <1>1. currentRound = 0 /\ pairings = <<>> /\ records = [q \in Players |-> NoRecord]
    BY DEF EventInit
  <1>2. ASSUME NEW q \in Players
        PROVE  records[q] = TallyOf(0, 0, 0, 0)
    BY <1>1 DEF NoRecord, TallyOf
  <1>3. MatchesIn(pairings) = {}
    BY <1>1 DEF MatchesIn
  <1>4. \A q, c : Those(pairings, q, c) = {}
    BY <1>3 DEF Those
  <1>5. \A q, c : Tally(pairings, q, c) = 0
    BY <1>4, FS_EmptySet DEF Tally
  <1>6. 1 .. currentRound = {}
    BY <1>1
  <1>7. \A q : ByesIn(event, pairings, currentRound, q) = {}
    BY <1>6 DEF ByesIn, Idle
  <1>8. \A q : Cardinality(ByesIn(event, pairings, currentRound, q)) = 0
    BY <1>7, FS_EmptySet
  <1> QED
    BY <1>2, <1>5, <1>8 DEF Tallies

\* A new round has no results, and its bye is one match win.
LEMMA GeneratePairingsTallies ==
    ASSUME EventInv, Tallies(event, pairings, currentRound, records, Players), GeneratePairings
    PROVE  Tallies(event, pairings', currentRound + 1, records', Players)
  <1>1. PICK rd : /\ NewRound(rd)
                  /\ pairings' \in Seq(Seq(PairingsAmong(Players)))
                  /\ Len(pairings') = currentRound + 1
                  /\ \A r \in 1 .. currentRound : pairings'[r] = pairings[r]
                  /\ pairings'[currentRound + 1] = Tables(rd.paired)
                  /\ records' = Credited(rd.bye)
    BY AfterPairing
  <1> DEFINE n == currentRound
             X == PairingsAmong(Players)
             tb == Tables(rd.paired)
  <1>2. /\ n \in Nat /\ Len(pairings) = n /\ pairings \in Seq(Seq(X)) /\ event \in Events
        /\ records \in [Players -> Recs]
    BY DEF EventInv
  <1>3. Round(rd.paired, Players)
    BY <1>1 DEF NewRound
  <1>4. /\ Len(tb) = Len(rd.paired)
        /\ \A i \in 1 .. Len(rd.paired) :
                tb[i] = [players |-> rd.paired[i], status |-> "Pending", winner |-> NoPlayer]
        /\ Seated(tb) = rd.paired
    BY <1>3, TablesAre
  <1> HIDE DEF tb, X
  <1>5. ASSUME NEW t \in 1 .. Len(tb)
        PROVE  tb[t].status # "Complete"
    <2>1. tb[t] = [players |-> rd.paired[t], status |-> "Pending", winner |-> NoPlayer]
      BY <1>4, Zenon
    <2> QED
      BY <2>1
  <1>6. \A q, c : Tally(pairings', q, c) = Tally(pairings, q, c)
    <2> DEFINE pp == pairings
               qq == pairings'
    <2>1. /\ pp \in Seq(Seq(X)) /\ qq \in Seq(Seq(X)) /\ Len(qq) = Len(pp) + 1
          /\ \A r \in 1 .. Len(pp) : qq[r] = pp[r]
      BY <1>1, <1>2 DEF X
    <2>2. \A t \in 1 .. Len(qq[Len(qq)]) : qq[Len(qq)][t].status # "Complete"
      BY <1>1, <1>5 DEF tb
    <2> HIDE DEF pp, qq
    <2>3. \A q, c : Tally(qq, q, c) = Tally(pp, q, c)
      BY <2>1, <2>2, TallyOfNewRound
    <2> QED
      BY <2>3 DEF pp, qq
  <1> SUFFICES ASSUME NEW q \in Players
               PROVE  records'[q] = TallyOf(Tally(pairings', q, "won"),
                                            Cardinality(ByesIn(event, pairings', n + 1, q)),
                                            Tally(pairings', q, "lost"), Tally(pairings', q, "drawn"))
    BY DEF Tallies
  <1> DEFINE a == Tally(pairings, q, "won")
             b == Cardinality(ByesIn(event, pairings, n, q))
             l == Tally(pairings, q, "lost")
             d == Tally(pairings, q, "drawn")
             out == event.format = Swiss /\ q \notin UNION ToSet(Seated(pairings'[n + 1]))
  <1>7. a \in Nat /\ b \in Nat
    BY <1>2, ThoseFinite, IdleFinite
  <1>8. records[q] = TallyOf(a, b, l, d)
    BY DEF Tallies
  <1>9. Cardinality(ByesIn(event, pairings', n + 1, q)) = b + One(out)
    <2> DEFINE pp == pairings
               qq == pairings'
    <2>1. \A r \in 1 .. n : qq[r] = pp[r]
      BY <1>1
    <2> HIDE DEF pp, qq
    <2>2. Cardinality(ByesIn(event, qq, n + 1, q))
             = Cardinality(ByesIn(event, pp, n, q))
                 + ByeIn(event, qq[n + 1], q)
      BY <1>2, <2>1, ByesOfNewRound
    <2>3. ByeIn(event, qq[n + 1], q) = One(out)
      BY DEF ByeIn, One, qq
    <2> QED
      BY <2>2, <2>3 DEF pp, qq
  <1>10. out <=> q \in rd.bye
    <2>1. Seated(pairings'[n + 1]) = rd.paired
      BY <1>1, <1>4 DEF tb
    <2>2. event.format # Swiss => rd.bye = {}
      BY <1>1, <1>2, EventFacts DEF NewRound
    <2>3. event.format = Swiss => rd.bye = Players \ UNION ToSet(rd.paired)
      BY <1>1 DEF NewRound
    <2> QED
      BY <2>1, <2>2, <2>3
  <1>11. records'[q] = IF q \in rd.bye THEN [records[q] EXCEPT !.matchWins = @ + 1] ELSE records[q]
    BY <1>1 DEF Credited
  <1> HIDE DEF a, b, l, d, out
  <1>12. records'[q] = TallyOf(a, b + One(out), l, d)
    <2>1. CASE out
      <3>1. records'[q] = [TallyOf(a, b, l, d) EXCEPT !.matchWins = @ + 1]
        BY <1>8, <1>10, <1>11, <2>1
      <3>2. (a + b) + 1 = a + (b + 1)
        BY <1>7
      <3>3. [TallyOf(a, b, l, d) EXCEPT !.matchWins = @ + 1] = TallyOf(a, b + 1, l, d)
        BY <3>2 DEF TallyOf
      <3> QED
        BY <2>1, <3>1, <3>3 DEF One
    <2>2. CASE ~out
      <3>1. b + One(out) = b
        BY <1>7, <2>2 DEF One
      <3> QED
        BY <1>8, <1>10, <1>11, <2>2, <3>1
    <2> QED
      BY <2>1, <2>2
  <1> QED
    BY <1>6, <1>9, <1>12 DEF a, l, d

\* A report that reads the old result right replaces it by the new one.
LEMMA ReportTallies ==
    ASSUME EventInv, Tallies(event, pairings, currentRound, records, Players), ~misread',
           NEW mw \in Results, ReportMatchResult(mw[1], mw[2])
    PROVE  Tallies(event, pairings', currentRound, records', Players)
  <1> DEFINE n == currentRound
             ps == pairings[n]
             X == PairingsAmong(Players)
  <1>1. PICK t \in 1 .. Len(pairings[currentRound]) :
             \E w \in pairings[currentRound][t].players \cup {NoPlayer} :
                    /\ currentRound \in 1 .. currentRound
                    /\ status \in {"MatchInProgress", "RoundComplete"}
                    /\ event.format = SingleElimination => w # NoPlayer
                    /\ pairings' = [pairings EXCEPT ![currentRound] = Updated(ps, t, w)]
                    /\ records' = RecordsAfter(ps[t], w)
                    /\ status' = StatusAfter(Updated(ps, t, w))
                    /\ misread' = (misread \/ (ps[t].status = "Complete" /\ ps[t].winner # ResultWinner(ps[t])))
    BY AfterReport
  <1>2. PICK w \in ps[t].players \cup {NoPlayer} :
                    /\ currentRound \in 1 .. currentRound
                    /\ status \in {"MatchInProgress", "RoundComplete"}
                    /\ event.format = SingleElimination => w # NoPlayer
                    /\ pairings' = [pairings EXCEPT ![currentRound] = Updated(ps, t, w)]
                    /\ records' = RecordsAfter(ps[t], w)
                    /\ status' = StatusAfter(Updated(ps, t, w))
                    /\ misread' = (misread \/ (ps[t].status = "Complete" /\ ps[t].winner # ResultWinner(ps[t])))
    BY <1>1
  <1> DEFINE us == Updated(ps, t, w)
             p == ps[t]
             new == Settled(p, w)
  <1>3. /\ n \in Nat /\ Len(pairings) = n /\ pairings \in Seq(Seq(X)) /\ event \in Events
        /\ RoundOK(ps, Players, event)
    BY <1>2 DEF EventInv
  <1>4. /\ RoundOK(us, Players, event) /\ Len(us) = Len(ps) /\ Seated(us) = Seated(ps)
        /\ us[t] = new /\ \A i \in 1 .. Len(ps) : i # t => us[i] = ps[i]
    BY <1>2, <1>3, UpdatedKeeps
  <1>5. us \in Seq(X)
    BY <1>4 DEF RoundOK
  <1>6. p.status = "Complete" => ResultWinner(p) = p.winner
    BY <1>2, Zenon
  <1>7. p.status \in {"Pending", "Complete"}
    <2>1. ps \in Seq(PairingsAmong(Players))
      BY <1>3 DEF RoundOK
    <2>2. p \in PairingsAmong(Players)
      BY <2>1, ElementOfSeq
    <2> QED
      BY <2>2 DEF PairingsAmong
  <1>8. new.players = p.players /\ new.status = "Complete" /\ new.winner = w
    BY DEF Settled
  <1> HIDE DEF us, ps, p, new, X
  <1>9. /\ pairings' \in Seq(Seq(X)) /\ Len(pairings') = n /\ pairings'[n] = us
        /\ \A r \in 1 .. n : r # n => pairings'[r] = pairings[r]
    <2> DEFINE Y == Seq(X)
    <2>1. us \in Y /\ pairings \in Seq(Y) /\ pairings' = [pairings EXCEPT ![n] = us] /\ n \in 1 .. Len(pairings)
      BY <1>2, <1>3, <1>5 DEF us
    <2> HIDE DEF Y
    <2>2. /\ [pairings EXCEPT ![n] = us] \in Seq(Y)
          /\ Len([pairings EXCEPT ![n] = us]) = Len(pairings)
          /\ \A i \in 1 .. Len(pairings) : [pairings EXCEPT ![n] = us][i] = IF i = n THEN us ELSE pairings[i]
      BY <2>1, ExceptSeq
    <2> QED
      BY <1>2, <1>3, <2>1, <2>2 DEF Y
  <1>10. ASSUME NEW q, NEW c
         PROVE  /\ Tally(pairings, q, c) - Count(p, q, c) \in Nat
                /\ Tally(pairings', q, c)
                     = Tally(pairings, q, c) - Count(p, q, c) + Count(new, q, c)
    <2> DEFINE pp == pairings
               qq == pairings'
    <2>1. /\ pp \in Seq(Seq(X)) /\ qq \in Seq(Seq(X)) /\ Len(qq) = Len(pp)
          /\ n \in 1 .. Len(pp) /\ t \in 1 .. Len(pp[n])
          /\ \A r \in 1 .. Len(pp) : r # n => qq[r] = pp[r]
          /\ pp[n] = ps /\ qq[n] = us
      BY <1>1, <1>2, <1>3, <1>9 DEF ps
    <2> HIDE DEF pp, qq, n
    <2>2. /\ Len(qq[n]) = Len(pp[n]) /\ qq[n][t] = new
          /\ \A i \in 1 .. Len(pp[n]) : i # t => qq[n][i] = pp[n][i]
      BY <1>4, <2>1
    <2>3. OneChange(pp, qq, n, t)
      BY <2>1, <2>2 DEF OneChange
    <2>4. /\ Tally(pp, q, c) - Count(pp[n][t], q, c) \in Nat
          /\ Tally(qq, q, c) = Tally(pp, q, c) - Count(pp[n][t], q, c) + Count(qq[n][t], q, c)
      BY <2>1, <2>3, TallyOfResult
    <2>5. pp[n][t] = p
      BY <2>1 DEF p
    <2> QED
      BY <2>2, <2>4, <2>5 DEF pp, qq
  <1> SUFFICES ASSUME NEW q \in Players
               PROVE  records'[q] = TallyOf(Tally(pairings', q, "won"),
                                            Cardinality(ByesIn(event, pairings', n, q)),
                                            Tally(pairings', q, "lost"), Tally(pairings', q, "drawn"))
    BY DEF Tallies
  <1>11. ByesIn(event, pairings', n, q) = ByesIn(event, pairings, n, q)
    <2>1. \A r \in 1 .. n : Seated(pairings'[r]) = Seated(pairings[r])
      BY <1>4, <1>9 DEF ps
    <2>2. Idle(pairings', n, q) = Idle(pairings, n, q)
      BY <2>1 DEF Idle
    <2> QED
      BY <2>2 DEF ByesIn
  <1>12. q # NoPlayer
    BY <1>3, EventFacts
  <1> DEFINE a == Tally(pairings, q, "won")
             b == Cardinality(ByesIn(event, pairings, n, q))
             l == Tally(pairings, q, "lost")
             d == Tally(pairings, q, "drawn")
             was(c) == Count(p, q, c)
             is(c) == Count(new, q, c)
  <1>13. a \in Nat /\ b \in Nat /\ l \in Nat /\ d \in Nat
    BY <1>3, ThoseFinite, IdleFinite
  <1>14. records[q] = TallyOf(a, b, l, d)
    BY DEF Tallies
  <1>15. /\ a - was("won") \in Nat /\ l - was("lost") \in Nat /\ d - was("drawn") \in Nat
         /\ Tally(pairings', q, "won") = a - was("won") + is("won")
         /\ Tally(pairings', q, "lost") = l - was("lost") + is("lost")
         /\ Tally(pairings', q, "drawn") = d - was("drawn") + is("drawn")
    BY <1>10
  <1> HIDE DEF a, b, l, d
  <1> SUFFICES records'[q] = TallyOf(a - was("won") + is("won"), b, l - was("lost") + is("lost"),
                                     d - was("drawn") + is("drawn"))
    BY <1>11, <1>15 DEF b
  <1> DEFINE settled == IF p.status = "Complete" THEN Undone(records[q], q, ResultWinner(p))
                                                 ELSE records[q]
  <1>16. records'[q] = IF q \in p.players THEN Applied(settled, q, w) ELSE records[q]
    BY <1>2 DEF RecordsAfter, p
  <1> HIDE DEF settled
  <1>17. CASE q \notin p.players
    <2>1. \A c : was(c) = 0 /\ is(c) = 0
      BY <1>8, <1>17 DEF WasFor, One, Count
    <2> HIDE DEF was, is
    <2>2. a - was("won") + is("won") = a /\ l - was("lost") + is("lost") = l /\ d - was("drawn") + is("drawn") = d
      BY <1>13, <2>1
    <2> QED
      BY <1>14, <1>16, <1>17, <2>2
  <1>18. CASE q \in p.players
    <2>1. \A c : is(c) = One(Outcome(w, q) = c)
      BY <1>8, <1>18 DEF WasFor, One, Count
    <2>2. settled = TallyOf(a - was("won"), b, l - was("lost"), d - was("drawn"))
      <3>1. CASE p.status = "Complete"
        <4>1. \A c : was(c) = One(Outcome(p.winner, q) = c)
          BY <1>18, <3>1 DEF WasFor, One, Count
        <4>2. settled = Undone(TallyOf(a, b, l, d), q, p.winner)
          BY <1>6, <1>14, <3>1 DEF settled
        <4> HIDE DEF was
        <4> QED
          BY <1>12, <1>13, <1>15, <4>1, <4>2, UndoneTally
      <3>2. CASE p.status # "Complete"
        <4>1. \A c : was(c) = 0
          BY <3>2 DEF WasFor, One, Count
        <4>2. settled = TallyOf(a, b, l, d)
          BY <1>14, <3>2 DEF settled
        <4> HIDE DEF was
        <4>3. a - was("won") = a /\ l - was("lost") = l /\ d - was("drawn") = d
          BY <1>13, <4>1
        <4> QED
          BY <4>2, <4>3
      <3> QED
        BY <3>1, <3>2
    <2> HIDE DEF was, is
    <2> DEFINE x == a - was("won")
               y == l - was("lost")
               z == d - was("drawn")
    <2>3. x \in Nat /\ y \in Nat /\ z \in Nat
      BY <1>15
    <2>4. records'[q] = Applied(TallyOf(x, b, y, z), q, w)
      BY <1>16, <1>18, <2>2
    <2> HIDE DEF x, y, z
    <2>5. records'[q] = TallyOf(x + is("won"), b, y + is("lost"), z + is("drawn"))
      BY <1>12, <1>13, <2>1, <2>3, <2>4, AppliedTally
    <2> QED
      BY <2>5 DEF x, y, z
  <1> QED
    BY <1>17, <1>18

\* Every step keeps the standings.
LEMMA TallyStep ==
    ASSUME TallyInv, [EventNext]_eventVars
    PROVE  TallyInv'
  <1>1. EventInv /\ EventInv'
    BY EventStep DEF TallyInv
  <1> SUFFICES ASSUME ~misread'
               PROVE  Tallies(event', pairings', currentRound', records', Players')
    BY <1>1 DEF TallyInv
  <1>2. event' = event /\ Players' = Players
    <2>1. event' = event
      BY DEF EventNext, GeneratePairings, ReportMatchResult, AdvanceRound, eventVars
    <2> QED
      BY <2>1 DEF Players
  <1>3. misread => misread'
    BY DEF EventNext, GeneratePairings, ReportMatchResult, AdvanceRound, eventVars
  <1>4. Tallies(event, pairings, currentRound, records, Players)
    BY <1>3 DEF TallyInv
  <1>5. CASE GeneratePairings
    <2>1. currentRound' = currentRound + 1
      BY <1>5 DEF GeneratePairings
    <2> QED
      BY <1>1, <1>2, <1>4, <1>5, <2>1, GeneratePairingsTallies
  <1>6. ASSUME NEW mw \in Results, ReportMatchResult(mw[1], mw[2])
        PROVE  Tallies(event', pairings', currentRound', records', Players')
    <2>1. currentRound' = currentRound
      BY <1>6 DEF ReportMatchResult
    <2> QED
      BY <1>1, <1>2, <1>4, <1>6, <2>1, ReportTallies
  <1>7. CASE AdvanceRound \/ UNCHANGED eventVars
    <2>1. pairings' = pairings /\ currentRound' = currentRound /\ records' = records
      BY <1>7 DEF AdvanceRound, eventVars
    <2> QED
      BY <1>2, <1>4, <2>1
  <1> QED
    BY <1>5, <1>6, <1>7 DEF EventNext

\* However often results are reported and corrected, the standings count every
\* completed match once, with the result reported last, and every Swiss bye as
\* a match win, as long as no corrected draw was read as somebody's win
\* (apply_report_match_result, undo_match_record_result).
THEOREM StandingsCount == EventSpec => []RecordsTallyUnlessMisread
  <1>1. EventInit => TallyInv
    BY TallyInitInv
  <1>2. TallyInv /\ [EventNext]_eventVars => TallyInv'
    BY TallyStep
  <1>3. TallyInv => RecordsTallyUnlessMisread
    BY TalliesMean DEF TallyInv, RecordsTallyUnlessMisread
  <1> QED
    BY <1>1, <1>2, <1>3, PTL DEF EventSpec
=============================================================================
