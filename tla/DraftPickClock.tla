--------------------------- MODULE DraftPickClock ---------------------------
(***************************************************************************)
(* The pick clock of a server-hosted pick-and-pass pod (phase-server       *)
(* main.rs and server-core draft_session.rs): the tasks that count down,   *)
(* auto-pick, re-arm and abort one another, the sweep that picks for seats *)
(* whose reconnect grace is over, and a restart of the server.  Every task *)
(* step between two awaits holds the lock of the draft manager and is one  *)
(* action.  What a pick does to boosters is in PickPass: here a pick       *)
(* window is a number, and every seat owes one pick in it.                 *)
(***************************************************************************)
EXTENDS Integers, FiniteSets

CONSTANTS Seats,
          Timers,           \* identities of timer tasks; dead ones are reused
          NoTimer,          \* timer_task = None
          Windows,          \* pick windows of the draft
          MaxDisconnects,   \* bound on disconnections
          MaxRestarts       \* bound on restarts of the server

ASSUME SeatsAssumption == IsFiniteSet(Seats) /\ Seats # {}
ASSUME WindowsAssumption == Windows \in Nat \ {0}
ASSUME BoundsAssumption == MaxDisconnects \in Nat /\ MaxRestarts \in Nat
ASSUME NoTimerAssumption == NoTimer \notin Timers

VARIABLES pod,          \* the session: status, window and the seats that owe a pick
          timers,       \* per timer task, where it is
          timerTask,    \* session.timer_task
          storing,      \* timers whose handle is still to be stored
          rearming,     \* action handlers that are about to spawn a timer
          connected,    \* session.connected
          grace,        \* reconnect.disconnected: records within their grace
          graceOver,    \* records whose grace has elapsed
          lapsed,       \* seats the running sweep has taken out of the records
          disconnects, restarts

vars == <<pod, timers, timerTask, storing, rearming, connected, grace, graceOver,
          lapsed, disconnects, restarts>>
clock    == <<timers, timerTask, storing, rearming>>
presence == <<connected, grace, graceOver, lapsed, disconnects>>

Dead == "dead"

Drafting(p) == p.status = "Drafting"

\* The last pick of a window opens the next one or ends the draft.
NextWindow(p) ==
    IF p.window = Windows THEN [p EXCEPT !.status = "Deckbuilding", !.owed = {}]
                          ELSE [p EXCEPT !.window = @ + 1, !.owed = Seats]

\* What a drafting pod may become when the seats of L are picked for one after
\* the other, in any order.  A seat that owes no pick is refused; but one that
\* comes after the pick that completes the window picks in the next window.
Picked(p, L) ==
    IF ~(p.owed \subseteq L) THEN {[p EXCEPT !.owed = @ \ L]}
    ELSE IF ~Drafting(NextWindow(p)) THEN {NextWindow(p)}
    ELSE {[NextWindow(p) EXCEPT !.owed = @ \ M] : M \in SUBSET (L \ p.owed)}

\* should_rearm_pick_timer: the draft starts, or pack or pick number moved.
ShouldRearm(before, after) ==
    /\ Drafting(after)
    /\ \/ before.status = "Lobby"
       \/ Drafting(before) /\ before.window # after.window

\* A handler that has released the lock and will call spawn_pick_timer.
Rearm(before, after) == rearming' = rearming + (IF ShouldRearm(before, after) THEN 1 ELSE 0)

-----------------------------------------------------------------------------
(* The players.                                                            *)

StartDraft ==
    /\ pod.status = "Lobby"
    /\ pod' = [status |-> "Drafting", window |-> 1, owed |-> Seats]
    /\ Rearm(pod, pod')
    /\ UNCHANGED <<presence, timers, timerTask, storing, restarts>>

Pick(s) ==
    /\ Drafting(pod)
    /\ s \in pod.owed \cap connected
    /\ pod' \in Picked(pod, {s})
    /\ Rearm(pod, pod')
    /\ UNCHANGED <<presence, timers, timerTask, storing, restarts>>

Disconnect(s) ==
    /\ disconnects < MaxDisconnects
    /\ s \in connected
    /\ connected' = connected \ {s}
    /\ grace' = grace \cup {s}
    /\ graceOver' = graceOver \ {s}
    /\ disconnects' = disconnects + 1
    /\ UNCHANGED <<clock, pod, lapsed, restarts>>

\* Mutant: the disconnect record outlives the reconnect.
Reconnect_KeepsRecord(s) ==
    /\ s \notin connected \cup graceOver
    /\ connected' = connected \cup {s}
    /\ UNCHANGED <<clock, pod, grace, graceOver, lapsed, disconnects, restarts>>

\* Refused while an expired record is there; allowed when there is none.
Reconnect(s) ==
    /\ s \notin connected \cup graceOver
    /\ connected' = connected \cup {s}
    /\ grace' = grace \ {s}
    /\ UNCHANGED <<clock, pod, graceOver, lapsed, disconnects, restarts>>

-----------------------------------------------------------------------------
(* Timer tasks.                                                            *)

Alive == {t \in Timers : timers[t] # "dead"}

\* A task identity that no handle refers to any more.
Unused == Timers \ (Alive \cup storing \cup {timerTask})

\* spawn_pick_timer: the timer runs, a second task will store its handle.
SpawnTimer(t) ==
    /\ timers' = [timers EXCEPT ![t] = "running"]
    /\ storing' = storing \cup {t}

\* The handler of the action that opened the window, after its broadcast.
SpawnAfterAction ==
    /\ rearming > 0
    /\ \E t \in Unused : SpawnTimer(t)
    /\ rearming' = rearming - 1
    /\ UNCHANGED <<pod, presence, timerTask, restarts>>

\* Mutant: the previous timer is forgotten and not aborted.
AbortPrevious_Forget == timers

\* Abort is cancellation at the next await; an ended task stays ended.
AbortPrevious == IF timerTask = NoTimer THEN timers ELSE [timers EXCEPT ![timerTask] = Dead]

StoreHandle(t) ==
    /\ t \in storing
    /\ timers' = AbortPrevious
    /\ timerTask' = t
    /\ storing' = storing \ {t}
    /\ UNCHANGED <<pod, rearming, presence, restarts>>

\* A tick that finds the draft over ends the task.
TickAfterDraft(t) ==
    /\ timers[t] = "running"
    /\ ~Drafting(pod)
    /\ timers' = [timers EXCEPT ![t] = Dead]
    /\ UNCHANGED <<pod, timerTask, storing, rearming, presence, restarts>>

\* The last tick: the timer now waits for the lock.  The handle was stored
\* long before, the countdown takes 75 seconds and the storing task one lock.
Expire(t) ==
    /\ timers[t] = "running"
    /\ t \notin storing
    /\ Drafting(pod)
    /\ timers' = [timers EXCEPT ![t] = "expired"]
    /\ UNCHANGED <<pod, timerTask, storing, rearming, presence, restarts>>

\* Mutant: only the seats that are still connected are picked for.
SeatsNeedingAutoPick_Connected == pod.owed \cap connected

\* draft_seats_needing_auto_pick
SeatsNeedingAutoPick == pod.owed

\* The expired timer gets the lock and picks for every seat that owes a pick.
Fire(t) ==
    /\ timers[t] = "expired"
    /\ IF Drafting(pod)
       THEN /\ pod' \in Picked(pod, SeatsNeedingAutoPick)
            /\ timers' = [timers EXCEPT ![t] = "fired"]
       ELSE /\ timers' = [timers EXCEPT ![t] = Dead]
            /\ UNCHANGED pod
    /\ UNCHANGED <<timerTask, storing, rearming, presence, restarts>>

\* Mutant: a timer that has fired does not start the next one.
Rearms_Never == FALSE

\* still_drafting
Rearms == Drafting(pod)

\* After the broadcast the timer arms its successor, if the draft goes on.
RearmSelf(t) ==
    /\ timers[t] = "fired"
    /\ IF Rearms
       THEN \E u \in Unused :
                /\ timers' = [timers EXCEPT ![u] = "running",
                                            ![t] = Dead]
                /\ storing' = storing \cup {u}
       ELSE /\ timers' = [timers EXCEPT ![t] = Dead]
            /\ UNCHANGED storing
    /\ UNCHANGED <<pod, timerTask, rearming, presence, restarts>>

-----------------------------------------------------------------------------
(* The background sweep over elapsed grace periods.                        *)

GraceElapses(s) ==
    /\ s \in grace
    /\ grace' = grace \ {s}
    /\ graceOver' = graceOver \cup {s}
    /\ UNCHANGED <<pod, clock, connected, lapsed, disconnects, restarts>>

\* check_expired_with_players takes the records out under one lock ...
TakeLapsed ==
    /\ lapsed = {}
    /\ graceOver # {}
    /\ lapsed' = graceOver
    /\ graceOver' = {}
    /\ UNCHANGED <<pod, clock, connected, grace, disconnects, restarts>>

\* Mutant: whoever has come back in between is picked for all the same.
SweepLapsed_NoRecheck ==
    /\ lapsed # {}
    /\ pod' \in IF Drafting(pod) THEN Picked(pod, lapsed) ELSE {pod}
    /\ lapsed' = {}
    /\ UNCHANGED <<clock, connected, grace, graceOver, disconnects, restarts>>

\* ... and the picks are made under another, after a second look at who is
\* connected; no timer is armed for them.
SweepLapsed ==
    /\ lapsed # {}
    /\ pod' \in IF Drafting(pod) THEN Picked(pod, lapsed \ connected) ELSE {pod}
    /\ lapsed' = {}
    /\ UNCHANGED <<clock, connected, grace, graceOver, disconnects, restarts>>

-----------------------------------------------------------------------------
\* An orderly restart: the session was flushed and is restored, every seat is
\* disconnected, and all tasks and reconnect records are gone.
Restart ==
    /\ restarts < MaxRestarts
    /\ restarts' = restarts + 1
    /\ timers' = [t \in Timers |-> Dead]
    /\ timerTask' = NoTimer
    /\ storing' = {}
    /\ rearming' = 0
    /\ connected' = {}
    /\ grace' = {}
    /\ graceOver' = {}
    /\ lapsed' = {}
    /\ UNCHANGED <<pod, disconnects>>

Init == /\ pod = [status |-> "Lobby", window |-> 0, owed |-> {}]
        /\ timers = [t \in Timers |-> Dead]
        /\ timerTask = NoTimer
        /\ storing = {}
        /\ rearming = 0
        /\ connected = Seats
        /\ grace = {}
        /\ graceOver = {}
        /\ lapsed = {}
        /\ disconnects = 0
        /\ restarts = 0

TimerStep(t) == Expire(t) \/ Fire(t) \/ RearmSelf(t) \/ TickAfterDraft(t)

Next == \/ StartDraft
        \/ \E s \in Seats : Pick(s)
        \/ \E s \in Seats : Disconnect(s)
        \/ \E s \in Seats : Reconnect(s)
        \/ SpawnAfterAction
        \/ \E t \in Timers : StoreHandle(t)
        \/ \E t \in Timers : TickAfterDraft(t)
        \/ \E t \in Timers : Expire(t)
        \/ \E t \in Timers : Fire(t)
        \/ \E t \in Timers : RearmSelf(t)
        \/ \E s \in Seats : GraceElapses(s)
        \/ TakeLapsed
        \/ SweepLapsed
        \/ Restart

Spec == Init /\ [][Next]_vars

\* Spawned tasks run; of the players nothing is assumed.
Fairness == /\ WF_vars(SpawnAfterAction)
            /\ \A t \in Timers : WF_vars(StoreHandle(t)) /\ WF_vars(TimerStep(t))
            /\ WF_vars(SweepLapsed)

FairSpec == Spec /\ Fairness

-----------------------------------------------------------------------------
(* Properties.                                                             *)

TypeOK ==
    /\ pod \in [status : {"Lobby", "Drafting", "Deckbuilding"},
                window : 0 .. Windows, owed : SUBSET Seats]
    /\ timers \in [Timers -> {"dead", "running", "expired", "fired"}]
    /\ timerTask \in {NoTimer} \cup Timers
    /\ storing \subseteq Timers
    /\ rearming \in Nat
    /\ connected \subseteq Seats
    /\ grace \subseteq Seats
    /\ graceOver \subseteq Seats
    /\ lapsed \subseteq Seats
    /\ disconnects \in 0 .. MaxDisconnects
    /\ restarts \in 0 .. MaxRestarts

\* "T-59-07: prevent timer task accumulation" (main.rs:6492): whatever the
\* order in which timers fire, re-arm themselves and are replaced by action
\* handlers, every live timer is the stored one or is about to be stored, so
\* that the next re-arm aborts it.
NoTimerPileUp == Alive \subseteq storing \cup {timerTask}

\* A timer counts down or has fired, or a handler is about to spawn one.
ClockOn == Alive # {} \/ rearming > 0

\* An abort never takes the last clock with it: whichever tasks overtake each
\* other, a draft that has a clock and goes on keeps one until the server stops.
ClockNeverStops ==
    [][(Drafting(pod) /\ ClockOn /\ Drafting(pod') /\ restarts' = restarts) => ClockOn']_vars

\* A seat that has reconnected has no record left by which a later sweep could
\* pick for it: a record and a connection never stand side by side.
ConnectedHasNoGrace ==
    /\ TypeOK
    /\ connected \cap (grace \cup graceOver) = {}

\* The sweep acts on the records it has taken.
SweepActs == Drafting(pod) /\ lapsed # {} /\ lapsed' = {} /\ restarts' = restarts

\* No pick of s was made on the way from p to q: what s owed it still owes, the
\* window was not completed over its head, and a new window finds its pick open.
Untouched(s, p, q) ==
    IF Drafting(q) /\ q.window = p.window
    THEN s \in p.owed => s \in q.owed
    ELSE s \notin p.owed /\ (Drafting(q) => s \in q.owed)

\* The records are taken under one lock and acted on under the next (main.rs:2709,
\* 2713), and players come back in between, some of them only.  Whoever is
\* connected when the sweep acts finds no card picked in its place by the sweep,
\* neither in the window that is open nor in the one that the sweep itself opens
\* by picking for the others.
SweepSparesConnected ==
    [][SweepActs => \A s \in connected : Untouched(s, pod, pod')]_vars

\* A draft with a clock is drafted to the end although every player may walk
\* away at any time, unless the server is restarted: the clock picks for
\* whoever is missing.
ClockDrivesDraft ==
    \A r \in 0 .. MaxRestarts :
        (Drafting(pod) /\ ClockOn /\ restarts = r)
            ~> (pod.status = "Deckbuilding" \/ restarts > r)
=============================================================================
