---------------------- MODULE FullPersistenceProofs ------------------------
(***************************************************************************)
(* That a live game is recoverable, that the disk only moves forward and   *)
(* that no played game leaves memory before its result is on disk, for any *)
(* number of handlers, sessions, revisions and restarts.                   *)
(***************************************************************************)
EXTENDS FullPersistence, TLAPS

\* The part of LiveIsRecoverable that does not speak of the row's snapshot or of
\* games that were removed unseen.
CodeInv ==
    /\ TypeOK
    /\ row.gen \in {0, highWater}
    /\ registry # 0 => registry = highWater /\ row.gen = highWater
    /\ registry # 0 /\ results[registry] = None => row.active
    /\ \A g \in Gens : results[g] # None => ~ActiveKey(g)

\* An absent row means a process that has just started and found nothing, and
\* a row without a snapshot has never had one.
RowInv ==
    /\ row.gen = 0 => /\ ~row.active /\ registry = 0 /\ saves = {}
                      /\ \A h \in Handlers : task[h] = Idle
    /\ row.active /\ ~row.saved => row.rev = 0

\* Nothing speaks of a session that has not been created yet, and the session
\* in the registry is not among those to be retired.
KnownInv ==
    /\ \A g \in Gens : results[g] # None => g <= highWater
    /\ \A snap \in saves : snap.gen <= highWater
    /\ \A g \in retires : g <= highWater /\ g # registry
    /\ \A h \in Handlers : task[h].at # "idle" => task[h].gen \in 1 .. highWater
    /\ sweep.at # "idle" => sweep.gen \in 1 .. highWater

\* Whoever is about to prepare has a verdict, and whoever is about to remove
\* has prepared.
VerdictInv ==
    /\ \A h \in Handlers :
         /\ task[h].at \in {"finishing", "abandoning"} => task[h].verdict \in Verdicts
         /\ task[h].at = "removing" => results[task[h].gen] # None
    /\ sweep.at = "prepare" => sweep.verdict \in Verdicts
    /\ sweep.at = "reap" /\ sweep.verdict # None => results[sweep.gen] # None

Inv == CodeInv /\ RowInv /\ KnownInv /\ VerdictInv

LEMMA InitInv == Init => Inv
  BY BoundsAssumption, NoneAssumption
  DEF Init, Inv, CodeInv, TypeOK, RowInv, KnownInv, VerdictInv, NoRow, Fresh, Idle, Gens,
      Verdicts, Snapshots, Rows, Sessions, Tasks, ActiveKey

\* The types of single fields, so that the record sets need not be expanded.
LEMMA Fields ==
  ASSUME Inv
  PROVE  /\ highWater \in Nat /\ highWater <= MaxGen /\ registry \in Nat
         /\ registry # 0 => registry \in Gens
         /\ row.gen \in Nat /\ row.gen <= MaxGen /\ row.rev \in 0 .. MaxRev
         /\ row.gen # 0 => row.gen \in Gens
         /\ \A g \in Gens : mem[g] \in Sessions /\ mem[g].rev \in 0 .. MaxRev
         /\ \A snap \in saves : snap.gen \in Gens /\ snap.rev \in 0 .. MaxRev
  BY BoundsAssumption DEF Inv, CodeInv, TypeOK, Rows, Sessions, Snapshots, Gens

\* A handler at work speaks of a created session, and the code has a row.
LEMMA AtWork ==
  ASSUME Inv, NEW h \in Handlers, task[h].at # "idle"
  PROVE  /\ task[h].gen \in Gens /\ task[h].gen <= highWater /\ task[h].gen # 0
         /\ row.gen = highWater /\ row.gen # 0
  BY Fields, BoundsAssumption DEF Inv, CodeInv, RowInv, KnownInv, Idle, Gens

LEMMA RetiredRowType ==
  ASSUME Inv
  PROVE  /\ RetiredRow \in Rows
         /\ RetiredRow.gen = row.gen /\ RetiredRow.rev = row.rev
         /\ ~RetiredRow.active
  BY DEF Inv, CodeInv, TypeOK, RetiredRow, Rows

\* What a preparation of a known session does, in terms of the invariant.
LEMMA PreparedKeeps ==
  ASSUME Inv, NEW g \in Gens, NEW verdict \in Verdicts, Prepared(g, verdict)
  PROVE  /\ row' \in Rows
         /\ row'.gen = row.gen /\ row'.rev = row.rev /\ (row'.active => row' = row)
         /\ results' \in [Gens -> Verdicts \cup {None}]
         /\ results'[g] # None
         /\ \A f \in Gens : results[f] # None => results'[f] = results[f]
         /\ \A f \in Gens : results'[f] # None => results[f] # None \/ f = row.gen
         /\ \A f \in Gens : results'[f] # None => ~(row'.gen = f /\ row'.active)
         /\ row.active /\ ~row'.active => results'[row.gen] # None
  <1>1. CASE results[g] = verdict /\ UNCHANGED <<row, results>>
    BY <1>1, NoneAssumption DEF Inv, CodeInv, TypeOK, ActiveKey
  <1>2. CASE /\ results[g] = None /\ ActiveKey(g)
             /\ results' = [results EXCEPT ![g] = verdict]
             /\ row' = RetiredRow
    BY <1>2, RetiredRowType, NoneAssumption DEF Inv, CodeInv, TypeOK, ActiveKey
  <1> QED
    BY <1>1, <1>2 DEF Prepared

\* The same of a preparation that may not have happened.
LEMMA MaybePreparedKeeps ==
  ASSUME Inv, NEW g \in Gens, NEW verdict \in Verdicts,
         Prepared(g, verdict) \/ UNCHANGED <<row, results>>
  PROVE  /\ row' \in Rows
         /\ row'.gen = row.gen /\ row'.rev = row.rev /\ (row'.active => row' = row)
         /\ results' \in [Gens -> Verdicts \cup {None}]
         /\ \A f \in Gens : results[f] # None => results'[f] = results[f]
         /\ \A f \in Gens : results'[f] # None => results[f] # None \/ f = row.gen
         /\ \A f \in Gens : results'[f] # None => ~(row'.gen = f /\ row'.active)
         /\ row.active /\ ~row'.active => results'[row.gen] # None
  <1>1. CASE Prepared(g, verdict)
    BY <1>1, PreparedKeeps
  <1>2. CASE UNCHANGED <<row, results>>
    BY <1>2 DEF Inv, CodeInv, TypeOK, ActiveKey
  <1> QED
    BY <1>1, <1>2

\* A handler's place after a step that changes it.
LEMMA TaskUpdate ==
  ASSUME TypeOK, NEW h \in Handlers, NEW t \in Tasks, task' = [task EXCEPT ![h] = t]
  PROVE  /\ task' \in [Handlers -> Tasks]
         /\ task'[h] = t
         /\ \A k \in Handlers : k # h => task'[k] = task[k]
  BY DEF TypeOK

LEMMA IdleType == Idle \in Tasks /\ Idle.at = "idle" /\ Idle.gen = 0 /\ Idle.verdict = None
  BY BoundsAssumption DEF Idle, Tasks

\* The successor of a session, as the four handlers write it, is a session.
LEMMA Advanced ==
  ASSUME NEW m \in Sessions, m.rev + 1 <= MaxRev
  PROVE  /\ [m EXCEPT !.rev = m.rev + 1] \in Sessions
         /\ [m EXCEPT !.rev = m.rev + 1, !.started = TRUE] \in Sessions
         /\ [m EXCEPT !.rev = m.rev + 1, !.over = FALSE] \in Sessions
         /\ [m EXCEPT !.rev = m.rev + 1, !.over = TRUE] \in Sessions
  <1>1. m.rev \in 0 .. MaxRev /\ m.started \in BOOLEAN /\ m.over \in BOOLEAN
    BY DEF Sessions
  <1>2. m.rev + 1 \in 0 .. MaxRev
    BY <1>1, BoundsAssumption DEF BoundsAssumption
  <1>3. [m EXCEPT !.rev = m.rev + 1] \in Sessions
    BY <1>2 DEF Sessions
  <1>4. [m EXCEPT !.rev = m.rev + 1, !.started = TRUE] \in Sessions
    BY <1>2 DEF Sessions
  <1>5. [m EXCEPT !.rev = m.rev + 1, !.over = FALSE] \in Sessions
    BY <1>2 DEF Sessions
  <1>6. [m EXCEPT !.rev = m.rev + 1, !.over = TRUE] \in Sessions
    BY <1>2 DEF Sessions
  <1> QED
    BY <1>3, <1>4, <1>5, <1>6

\* A step in which one handler moves to t and the disk, the registry and the
\* sweep stay as they are.
LEMMA HandlerStep ==
  ASSUME Inv, TypeOK', NEW h \in Handlers, NEW t \in Tasks,
         row.gen # 0,
         UNCHANGED <<row, highWater, results, registry, sweep, retires>>,
         task'[h] = t, \A k \in Handlers : k # h => task'[k] = task[k],
         \A snap \in saves' : snap.gen <= highWater,
         t.at # "idle" => t.gen \in 1 .. highWater,
         t.at \in {"finishing", "abandoning"} => t.verdict \in Verdicts,
         t.at # "removing"
  PROVE  Inv'
  <1>1. CodeInv'
    BY DEF Inv, CodeInv, ActiveKey
  <1>2. RowInv'
    BY DEF Inv, RowInv
  <1>3. KnownInv'
    BY DEF Inv, KnownInv
  <1>4. VerdictInv'
    BY DEF Inv, VerdictInv
  <1> QED
    BY <1>1, <1>2, <1>3, <1>4 DEF Inv

\* A join, a start or a move: the session advances, its write is under way and
\* the handler is done.
LEMMA CommitsKeep ==
  ASSUME Inv, NEW h \in Handlers, NEW session \in Sessions, Locks(h), Commits(h, session)
  PROVE  Inv'
  <1>t. TypeOK
    BY DEF Inv, CodeInv
  <1>1. /\ task[h].at # "idle" /\ task[h].gen \in Gens /\ task[h].gen <= highWater
        /\ row.gen = highWater /\ row.gen # 0
    BY AtWork DEF Locks
  <1>2. /\ task' \in [Handlers -> Tasks]
        /\ task'[h] = Idle
        /\ \A k \in Handlers : k # h => task'[k] = task[k]
    BY <1>t, TaskUpdate, IdleType DEF Commits
  <1>3. mem' \in [Gens -> Sessions]
    BY <1>1, <1>t DEF Commits, TypeOK
  <1>4. /\ saves' \subseteq Snapshots
        /\ \A snap \in saves' : snap \in saves \/ snap.gen = task[h].gen
    BY <1>1, <1>t DEF Commits, TypeOK, Sessions, Snapshots
  <1>5. UNCHANGED <<row, highWater, results, registry, lockedBy, sweep, retires, blind, boots>>
    BY DEF Commits
  <1>6. TypeOK'
    BY <1>2, <1>3, <1>4, <1>5, <1>t DEF TypeOK
  <1>7. \A snap \in saves' : snap.gen <= highWater
    BY <1>1, <1>4 DEF Inv, KnownInv
  <1> QED
    BY <1>1, <1>2, <1>5, <1>6, <1>7, IdleType, HandlerStep

LEMMA NextInv == Inv /\ [Next]_vars => Inv'
  <1> SUFFICES ASSUME Inv, [Next]_vars
                PROVE  Inv'
    OBVIOUS
  <1> USE BoundsAssumption, NoneAssumption
  <1>t. TypeOK
    BY DEF Inv, CodeInv
  <1>1. CASE Create
    <2>1. /\ row' \in Rows /\ row'.gen = highWater + 1 /\ row'.active /\ row'.saved
      <3>1. row' = [gen |-> highWater + 1, rev |-> 0, active |-> TRUE, saved |-> TRUE, started |-> FALSE]
        BY <1>1 DEF Create, BoundRow, NoRow
      <3>2. highWater + 1 \in 0 .. MaxGen
        BY <1>1, Fields DEF Create, CodeFree
      <3> QED
        BY <3>1, <3>2 DEF Rows
    <2>2. highWater' \in 0 .. MaxGen /\ registry' \in 0 .. MaxGen
      BY <1>1, Fields DEF Create, CodeFree
    <2>3. TypeOK'
      BY <1>1, <2>1, <2>2, <1>t, IdleType DEF Create, CodeFree, TypeOK
    <2>4. CodeInv'
      BY <1>1, <2>1, <2>2, <1>t, <2>3, Fields, IdleType
      DEF Create, CodeFree, Inv, CodeInv, RowInv, KnownInv, VerdictInv, ActiveKey, TypeOK
    <2>5. RowInv'
      BY <1>1, <2>1, <2>2, <1>t, <2>3, Fields, IdleType
      DEF Create, CodeFree, Inv, CodeInv, RowInv, KnownInv, VerdictInv
    <2>6. KnownInv'
      BY <1>1, <2>1, <2>2, <1>t, <2>3, Fields, IdleType
      DEF Create, CodeFree, Inv, CodeInv, RowInv, KnownInv, VerdictInv, TypeOK, Gens
    <2>7. VerdictInv'
      BY <1>1, <2>1, <2>2, <1>t, <2>3, Fields, IdleType
      DEF Create, CodeFree, Inv, CodeInv, RowInv, KnownInv, VerdictInv, TypeOK, Gens
    <2> QED
      BY <2>4, <2>5, <2>6, <2>7 DEF Inv
  <1>2. CASE CreateFails
    <2>1. /\ row' \in Rows /\ row'.gen = highWater + 1 /\ row'.active /\ row'.rev = 0
      <3>1. row' = [gen |-> highWater + 1, rev |-> 0, active |-> TRUE, saved |-> FALSE, started |-> FALSE]
        BY <1>2 DEF CreateFails, BoundRow, NoRow
      <3>2. highWater + 1 \in 0 .. MaxGen
        BY <1>2, Fields DEF CreateFails, CodeFree
      <3> QED
        BY <3>1, <3>2 DEF Rows
    <2>2. highWater' \in 0 .. MaxGen
      BY <1>2, Fields DEF CreateFails, CodeFree
    <2>3. TypeOK'
      BY <1>2, <2>1, <2>2, <1>t, IdleType DEF CreateFails, CodeFree, TypeOK
    <2>4. CodeInv'
      BY <1>2, <2>1, <2>2, <1>t, <2>3, Fields, IdleType
      DEF CreateFails, CodeFree, Inv, CodeInv, RowInv, KnownInv, VerdictInv, ActiveKey,
          TypeOK
    <2>5. RowInv'
      BY <1>2, <2>1, <2>2, <1>t, <2>3, Fields, IdleType
      DEF CreateFails, CodeFree, Inv, CodeInv, RowInv, KnownInv, VerdictInv
    <2>6. KnownInv'
      BY <1>2, <2>1, <2>2, <1>t, <2>3, Fields, IdleType
      DEF CreateFails, CodeFree, Inv, CodeInv, RowInv, KnownInv, VerdictInv, TypeOK, Gens
    <2>7. VerdictInv'
      BY <1>2, <2>1, <2>2, <1>t, <2>3, Fields, IdleType
      DEF CreateFails, CodeFree, Inv, CodeInv, RowInv, KnownInv, VerdictInv, TypeOK, Gens
    <2> QED
      BY <2>4, <2>5, <2>6, <2>7 DEF Inv
  <1>3. ASSUME NEW h \in Handlers, Lookup(h)
        PROVE  Inv'
    <2> DEFINE t == [Idle EXCEPT !.at = "waiting", !.gen = registry]
    <2>1. registry \in Gens /\ registry \in 1 .. highWater /\ row.gen # 0
      BY <1>3, Fields DEF Lookup, Inv, CodeInv, Gens
    <2>2. t \in Tasks /\ t.at = "waiting" /\ t.gen = registry
      <3>1. registry \in 0 .. MaxGen
        BY <2>1 DEF Gens
      <3>2. t \in Tasks
        BY <3>1, IdleType DEF Tasks
      <3>3. t.at = "waiting" /\ t.gen = registry
        BY DEF Idle
      <3> QED
        BY <3>2, <3>3
    <2>3. task' = [task EXCEPT ![h] = t]
      BY <1>3 DEF Lookup
    <2> HIDE DEF t
    <2>4. /\ task' \in [Handlers -> Tasks]
          /\ task'[h] = t
          /\ \A k \in Handlers : k # h => task'[k] = task[k]
      BY <2>2, <2>3, <1>t, TaskUpdate
    <2>5. UNCHANGED <<row, highWater, results, registry, mem, lockedBy, sweep, saves, retires,
                      blind, boots>>
      BY <1>3 DEF Lookup
    <2>6. TypeOK' /\ \A snap \in saves' : snap.gen <= highWater
      BY <2>4, <2>5, <1>t DEF TypeOK, Inv, KnownInv
    <2> QED
      BY <2>1, <2>2, <2>4, <2>5, <2>6, HandlerStep
  <1>4. ASSUME NEW h \in Handlers, Refused(h)
        PROVE  Inv'
    <2>1. row.gen # 0
      BY <1>4, AtWork DEF Refused, Locks
    <2>2. /\ task' \in [Handlers -> Tasks]
          /\ task'[h] = Idle
          /\ \A k \in Handlers : k # h => task'[k] = task[k]
      BY <1>4, <1>t, IdleType, TaskUpdate DEF Refused
    <2>3. UNCHANGED <<row, highWater, results, registry, mem, lockedBy, sweep, saves, retires,
                      blind, boots>>
      BY <1>4 DEF Refused
    <2>4. TypeOK' /\ \A snap \in saves' : snap.gen <= highWater
      BY <2>2, <2>3, <1>t DEF TypeOK, Inv, KnownInv
    <2> QED
      BY <2>1, <2>2, <2>3, <2>4, IdleType, HandlerStep
  <1>5. ASSUME NEW h \in Handlers, ChangeRoom(h)
        PROVE  Inv'
    <2> DEFINE s == [mem[task[h].gen] EXCEPT !.rev = mem[task[h].gen].rev + 1]
    <2>1. Locks(h) /\ Commits(h, s)
      BY <1>5 DEF ChangeRoom
    <2>2. mem[task[h].gen] \in Sessions
      BY <2>1, AtWork, Fields DEF Locks
    <2>3. mem[task[h].gen].rev + 1 <= MaxRev
      BY <2>1, <2>2 DEF Commits, Sessions
    <2>4. s \in Sessions
      BY <2>2, <2>3, Advanced
    <2> QED
      BY <2>1, <2>4, CommitsKeep
  <1>6. ASSUME NEW h \in Handlers, Start(h)
        PROVE  Inv'
    <2> DEFINE s == [mem[task[h].gen] EXCEPT !.rev = mem[task[h].gen].rev + 1, !.started = TRUE]
    <2>1. Locks(h) /\ Commits(h, s)
      BY <1>6 DEF Start
    <2>2. mem[task[h].gen] \in Sessions
      BY <2>1, AtWork, Fields DEF Locks
    <2>3. mem[task[h].gen].rev + 1 <= MaxRev
      BY <2>1, <2>2 DEF Commits, Sessions
    <2>4. s \in Sessions
      BY <2>2, <2>3, Advanced
    <2> QED
      BY <2>1, <2>4, CommitsKeep
  <1>7. ASSUME NEW h \in Handlers, Play(h)
        PROVE  Inv'
    <2> DEFINE s == [mem[task[h].gen] EXCEPT !.rev = mem[task[h].gen].rev + 1, !.over = FALSE]
    <2>1. Locks(h) /\ Commits(h, s)
      BY <1>7 DEF Play
    <2>2. mem[task[h].gen] \in Sessions
      BY <2>1, AtWork, Fields DEF Locks
    <2>3. mem[task[h].gen].rev + 1 <= MaxRev
      BY <2>1, <2>2 DEF Commits, Sessions
    <2>4. s \in Sessions
      BY <2>2, <2>3, Advanced
    <2> QED
      BY <2>1, <2>4, CommitsKeep
  <1>8. ASSUME NEW h \in Handlers, EndGame(h)
        PROVE  Inv'
    <2>1. /\ task[h].at # "idle" /\ task[h].gen \in Gens /\ task[h].gen <= highWater
          /\ row.gen = highWater /\ row.gen # 0
      BY <1>8, AtWork DEF EndGame, Locks
    <2>2. mem[task[h].gen].rev + 1 \in 0 .. MaxRev
      BY <1>8, <2>1, Fields DEF EndGame
    <2>3. mem' \in [Gens -> Sessions]
      <3>1. [mem[task[h].gen] EXCEPT !.rev = mem[task[h].gen].rev + 1, !.over = TRUE] \in Sessions
        <4>1. mem[task[h].gen] \in Sessions
          BY <2>1, Fields
        <4>2. mem[task[h].gen].rev + 1 <= MaxRev
          BY <2>2
        <4> QED
          BY <4>1, <4>2, Advanced
      <3>2. mem' = [mem EXCEPT ![task[h].gen] =
                      [mem[task[h].gen] EXCEPT !.rev = mem[task[h].gen].rev + 1, !.over = TRUE]]
        BY <1>8 DEF EndGame
      <3>3. mem \in [Gens -> Sessions]
        BY <1>t DEF TypeOK
      <3> QED
        BY <3>1, <3>2, <3>3
    <2>0. UNCHANGED lockedBy
      BY <1>8 DEF EndGame
    <2> DEFINE v == [rev |-> mem[task[h].gen].rev + 1, why |-> "ended"]
               t == [at |-> "finishing", gen |-> task[h].gen, verdict |-> v]
    <2>4. v \in Verdicts
      BY <2>2 DEF Verdicts, Reasons
    <2>5. t \in Tasks
      BY <2>1, <2>4 DEF Tasks, Gens
    <2>6. task' = [task EXCEPT ![h] = t]
      BY <1>8 DEF EndGame
    <2>7. /\ task' \in [Handlers -> Tasks]
          /\ task'[h] = t
          /\ \A k \in Handlers : k # h => task'[k] = task[k]
      BY <2>5, <2>6, <1>t, TaskUpdate
    <2>8. UNCHANGED <<row, highWater, results, registry, sweep, saves, retires, blind, boots>>
      BY <1>8 DEF EndGame
    <2>9. TypeOK' /\ \A snap \in saves' : snap.gen <= highWater
      BY <2>3, <2>7, <2>8, <1>t, <2>0 DEF TypeOK, Inv, KnownInv
    <2>10. task[h].gen \in 1 .. highWater
      BY <2>1 DEF Gens
    <2> QED
      BY <2>1, <2>4, <2>5, <2>7, <2>8, <2>9, <2>10, HandlerStep
  <1>9. ASSUME NEW h \in Handlers, PrepareEnd(h)
        PROVE  Inv'
    <2>1. /\ task[h].at # "idle" /\ task[h].gen \in Gens /\ task[h].gen <= highWater
          /\ row.gen = highWater /\ row.gen # 0
      BY <1>9, AtWork DEF PrepareEnd
    <2>2. task[h].verdict \in Verdicts
      BY <1>9 DEF PrepareEnd, Inv, VerdictInv
    <2>3. /\ row' \in Rows
          /\ row'.gen = row.gen /\ row'.rev = row.rev /\ (row'.active => row' = row)
          /\ results' \in [Gens -> Verdicts \cup {None}]
          /\ \A f \in Gens : results[f] # None => results'[f] = results[f]
          /\ \A f \in Gens : results'[f] # None => results[f] # None \/ f = row.gen
          /\ \A f \in Gens : results'[f] # None => ~(row'.gen = f /\ row'.active)
          /\ row.active /\ ~row'.active => results'[row.gen] # None
          /\ results'[task[h].gen] # None
      BY <1>9, <2>1, <2>2, PreparedKeeps DEF PrepareEnd
    <2>4. task[h] \in Tasks
      BY <1>t DEF TypeOK
    <2>5. [task[h] EXCEPT !.at = "removing"] \in Tasks
      BY <1>9, <2>1, <2>2, <2>3, <2>4, <1>t, IdleType, Fields
      DEF Tasks, Verdicts, Reasons, TypeOK, Sessions, Gens
    <2>6. /\ task' \in [Handlers -> Tasks]
          /\ task'[h] = [task[h] EXCEPT !.at = "removing"]
          /\ \A k \in Handlers : k # h => task'[k] = task[k]
      <3>1. task' = [task EXCEPT ![h] = [task[h] EXCEPT !.at = "removing"]]
        BY <1>9 DEF PrepareEnd
      <3> QED
        BY <3>1, <2>5, <1>t, TaskUpdate
    <2>7. TypeOK'
      BY <1>9, <2>1, <2>2, <2>3, <2>4, <2>6, <1>t, IdleType DEF PrepareEnd, TypeOK
    <2>8. CodeInv'
      BY <1>9, <2>1, <2>2, <2>3, <2>4, <2>6, <1>t, <2>7, Fields, IdleType
      DEF PrepareEnd, Inv, CodeInv, RowInv, KnownInv, VerdictInv, ActiveKey, TypeOK
    <2>9. RowInv'
      BY <1>9, <2>1, <2>2, <2>3, <2>4, <2>6, <1>t, <2>7, Fields, IdleType
      DEF PrepareEnd, Inv, CodeInv, RowInv, KnownInv, VerdictInv
    <2>10. KnownInv'
      BY <1>9, <2>1, <2>2, <2>3, <2>4, <2>6, <1>t, <2>7, Fields, IdleType
      DEF PrepareEnd, Inv, CodeInv, RowInv, KnownInv, VerdictInv, TypeOK, Gens
    <2>11. VerdictInv'
      BY <1>9, <2>1, <2>2, <2>3, <2>4, <2>6, <1>t, <2>7, Fields, IdleType
      DEF PrepareEnd, Inv, CodeInv, RowInv, KnownInv, VerdictInv, TypeOK, Gens
    <2> QED
      BY <2>8, <2>9, <2>10, <2>11 DEF Inv
  <1>10. ASSUME NEW h \in Handlers, PrepareEndFails(h)
        PROVE  Inv'
    <2>1. /\ task[h].at # "idle" /\ task[h].gen \in Gens /\ task[h].gen <= highWater
          /\ row.gen = highWater /\ row.gen # 0
      BY <1>10, AtWork DEF PrepareEndFails
    <2>2. task[h].verdict \in Verdicts
      BY <1>10 DEF PrepareEndFails, Inv, VerdictInv
    <2>3. /\ row' \in Rows
          /\ row'.gen = row.gen /\ row'.rev = row.rev /\ (row'.active => row' = row)
          /\ results' \in [Gens -> Verdicts \cup {None}]
          /\ \A f \in Gens : results[f] # None => results'[f] = results[f]
          /\ \A f \in Gens : results'[f] # None => results[f] # None \/ f = row.gen
          /\ \A f \in Gens : results'[f] # None => ~(row'.gen = f /\ row'.active)
          /\ row.active /\ ~row'.active => results'[row.gen] # None
      BY <1>10, <2>1, <2>2, MaybePreparedKeeps DEF PrepareEndFails
    <2>4. Idle \in Tasks
      BY <1>10, <2>1, <2>2, <2>3, <1>t, IdleType, Fields
      DEF Tasks, Verdicts, Reasons, TypeOK, Sessions, Gens
    <2>5. /\ task' \in [Handlers -> Tasks]
          /\ task'[h] = Idle
          /\ \A k \in Handlers : k # h => task'[k] = task[k]
      <3>1. task' = [task EXCEPT ![h] = Idle]
        BY <1>10 DEF PrepareEndFails
      <3> QED
        BY <3>1, <2>4, <1>t, TaskUpdate
    <2>6. TypeOK'
      BY <1>10, <2>1, <2>2, <2>3, <2>5, <1>t, IdleType DEF PrepareEndFails, TypeOK
    <2>7. CodeInv'
      BY <1>10, <2>1, <2>2, <2>3, <2>5, <1>t, <2>6, Fields, IdleType
      DEF PrepareEndFails, Inv, CodeInv, RowInv, KnownInv, VerdictInv, ActiveKey, TypeOK
    <2>8. RowInv'
      BY <1>10, <2>1, <2>2, <2>3, <2>5, <1>t, <2>6, Fields, IdleType
      DEF PrepareEndFails, Inv, CodeInv, RowInv, KnownInv, VerdictInv
    <2>9. KnownInv'
      BY <1>10, <2>1, <2>2, <2>3, <2>5, <1>t, <2>6, Fields, IdleType
      DEF PrepareEndFails, Inv, CodeInv, RowInv, KnownInv, VerdictInv, TypeOK, Gens
    <2>10. VerdictInv'
      BY <1>10, <2>1, <2>2, <2>3, <2>5, <1>t, <2>6, Fields, IdleType
      DEF PrepareEndFails, Inv, CodeInv, RowInv, KnownInv, VerdictInv, TypeOK, Gens
    <2> QED
      BY <2>7, <2>8, <2>9, <2>10 DEF Inv
  <1>11. ASSUME NEW h \in Handlers, RemoveFinished(h)
        PROVE  Inv'
    <2>1. /\ task[h].at # "idle" /\ task[h].gen \in Gens /\ task[h].gen <= highWater
          /\ row.gen = highWater /\ row.gen # 0
      BY <1>11, AtWork DEF RemoveFinished
    <2>2. registry' = 0 /\ blind' \subseteq Gens
      BY <1>11, <1>t, Fields DEF RemoveFinished, Removes, RemovesUnseen, TypeOK
    <2>3. Idle \in Tasks
      BY <1>11, <2>1, <2>2, <1>t, IdleType, Fields
      DEF Tasks, Verdicts, Reasons, TypeOK, Sessions, Gens
    <2>4. /\ task' \in [Handlers -> Tasks]
          /\ task'[h] = Idle
          /\ \A k \in Handlers : k # h => task'[k] = task[k]
      <3>1. task' = [task EXCEPT ![h] = Idle]
        BY <1>11 DEF RemoveFinished
      <3> QED
        BY <3>1, <2>3, <1>t, TaskUpdate
    <2>5. TypeOK'
      BY <1>11, <2>1, <2>2, <2>4, <1>t, IdleType DEF RemoveFinished, TypeOK
    <2>6. CodeInv'
      BY <1>11, <2>1, <2>2, <2>4, <1>t, <2>5, Fields, IdleType
      DEF RemoveFinished, Inv, CodeInv, RowInv, KnownInv, VerdictInv, ActiveKey, TypeOK
    <2>7. RowInv'
      BY <1>11, <2>1, <2>2, <2>4, <1>t, <2>5, Fields, IdleType
      DEF RemoveFinished, Inv, CodeInv, RowInv, KnownInv, VerdictInv
    <2>8. KnownInv'
      BY <1>11, <2>1, <2>2, <2>4, <1>t, <2>5, Fields, IdleType
      DEF RemoveFinished, Inv, CodeInv, RowInv, KnownInv, VerdictInv, TypeOK, Gens
    <2>9. VerdictInv'
      BY <1>11, <2>1, <2>2, <2>4, <1>t, <2>5, Fields, IdleType
      DEF RemoveFinished, Inv, CodeInv, RowInv, KnownInv, VerdictInv, TypeOK, Gens
    <2> QED
      BY <2>6, <2>7, <2>8, <2>9 DEF Inv
  <1>12. ASSUME NEW h \in Handlers, AbandonRoom(h)
        PROVE  Inv'
    <2>1. /\ task[h].at # "idle" /\ task[h].gen \in Gens /\ task[h].gen <= highWater
          /\ row.gen = highWater /\ row.gen # 0
      BY <1>12, AtWork DEF AbandonRoom, Locks
    <2>2. registry' = 0 /\ blind' \subseteq Gens
      BY <1>12, <1>t, Fields DEF AbandonRoom, Removes, RemovesUnseen, TypeOK
    <2>3. retires' = retires \cup {task[h].gen}
      BY <1>12 DEF AbandonRoom
    <2>4. Idle \in Tasks
      BY <1>12, <2>1, <2>2, <2>3, <1>t, IdleType, Fields
      DEF Tasks, Verdicts, Reasons, TypeOK, Sessions, Gens
    <2>5. /\ task' \in [Handlers -> Tasks]
          /\ task'[h] = Idle
          /\ \A k \in Handlers : k # h => task'[k] = task[k]
      <3>1. task' = [task EXCEPT ![h] = Idle]
        BY <1>12 DEF AbandonRoom
      <3> QED
        BY <3>1, <2>4, <1>t, TaskUpdate
    <2>6. TypeOK'
      BY <1>12, <2>1, <2>2, <2>3, <2>5, <1>t, IdleType DEF AbandonRoom, TypeOK
    <2>7. CodeInv'
      BY <1>12, <2>1, <2>2, <2>3, <2>5, <1>t, <2>6, Fields, IdleType
      DEF AbandonRoom, Inv, CodeInv, RowInv, KnownInv, VerdictInv, ActiveKey, TypeOK
    <2>8. RowInv'
      BY <1>12, <2>1, <2>2, <2>3, <2>5, <1>t, <2>6, Fields, IdleType
      DEF AbandonRoom, Inv, CodeInv, RowInv, KnownInv, VerdictInv
    <2>9. KnownInv'
      BY <1>12, <2>1, <2>2, <2>3, <2>5, <1>t, <2>6, Fields, IdleType
      DEF AbandonRoom, Inv, CodeInv, RowInv, KnownInv, VerdictInv, TypeOK, Gens
    <2>10. VerdictInv'
      BY <1>12, <2>1, <2>2, <2>3, <2>5, <1>t, <2>6, Fields, IdleType
      DEF AbandonRoom, Inv, CodeInv, RowInv, KnownInv, VerdictInv, TypeOK, Gens
    <2> QED
      BY <2>7, <2>8, <2>9, <2>10 DEF Inv
  <1>13. ASSUME NEW h \in Handlers, AbandonGame(h)
        PROVE  Inv'
    <2>0. UNCHANGED mem
      BY <1>13 DEF AbandonGame
    <2>1. /\ task[h].at # "idle" /\ task[h].gen \in Gens /\ task[h].gen <= highWater
          /\ row.gen = highWater /\ row.gen # 0
      BY <1>13, AtWork DEF AbandonGame, Locks
    <2>2. mem[task[h].gen].rev \in 0 .. MaxRev
      BY <2>1, Fields
    <2>3. lockedBy' \in [Gens -> Handlers \cup {None}]
      BY <1>13, <2>1, <1>t DEF AbandonGame, TypeOK
    <2> DEFINE v == [rev |-> mem[task[h].gen].rev, why |-> "abandoned"]
               t == [at |-> "abandoning", gen |-> task[h].gen, verdict |-> v]
    <2>4. v \in Verdicts
      BY <2>2 DEF Verdicts, Reasons
    <2>5. t \in Tasks
      BY <2>1, <2>4 DEF Tasks, Gens
    <2>6. task' = [task EXCEPT ![h] = t]
      BY <1>13 DEF AbandonGame
    <2>7. /\ task' \in [Handlers -> Tasks]
          /\ task'[h] = t
          /\ \A k \in Handlers : k # h => task'[k] = task[k]
      BY <2>5, <2>6, <1>t, TaskUpdate
    <2>8. UNCHANGED <<row, highWater, results, registry, sweep, saves, retires, blind, boots>>
      BY <1>13 DEF AbandonGame
    <2>9. TypeOK' /\ \A snap \in saves' : snap.gen <= highWater
      BY <2>3, <2>7, <2>8, <1>t, <2>0 DEF TypeOK, Inv, KnownInv
    <2>10. task[h].gen \in 1 .. highWater
      BY <2>1 DEF Gens
    <2> QED
      BY <2>1, <2>4, <2>5, <2>7, <2>8, <2>9, <2>10, HandlerStep
  <1>14. ASSUME NEW h \in Handlers, FinishAbandon(h)
        PROVE  Inv'
    <2>1. /\ task[h].at # "idle" /\ task[h].gen \in Gens /\ task[h].gen <= highWater
          /\ row.gen = highWater /\ row.gen # 0
      BY <1>14, AtWork DEF FinishAbandon
    <2>2. task[h].verdict \in Verdicts
      BY <1>14 DEF FinishAbandon, Inv, VerdictInv
    <2>3. /\ row' \in Rows
          /\ row'.gen = row.gen /\ row'.rev = row.rev /\ (row'.active => row' = row)
          /\ results' \in [Gens -> Verdicts \cup {None}]
          /\ \A f \in Gens : results[f] # None => results'[f] = results[f]
          /\ \A f \in Gens : results'[f] # None => results[f] # None \/ f = row.gen
          /\ \A f \in Gens : results'[f] # None => ~(row'.gen = f /\ row'.active)
          /\ row.active /\ ~row'.active => results'[row.gen] # None
      BY <1>14, <2>1, <2>2, MaybePreparedKeeps DEF FinishAbandon
    <2>4. registry' \in {0, registry} /\ blind' \subseteq Gens
      BY <1>14, <1>t, Fields DEF FinishAbandon, Removes, RemovesUnseen, TypeOK
    <2>5. lockedBy' \in [Gens -> Handlers \cup {None}]
      BY <1>14, <2>1, <1>t DEF FinishAbandon, TypeOK
    <2>6. Idle \in Tasks
      BY <1>14, <2>1, <2>2, <2>3, <2>4, <2>5, <1>t, IdleType, Fields
      DEF Tasks, Verdicts, Reasons, TypeOK, Sessions, Gens
    <2>7. /\ task' \in [Handlers -> Tasks]
          /\ task'[h] = Idle
          /\ \A k \in Handlers : k # h => task'[k] = task[k]
      <3>1. task' = [task EXCEPT ![h] = Idle]
        BY <1>14 DEF FinishAbandon
      <3> QED
        BY <3>1, <2>6, <1>t, TaskUpdate
    <2>8. TypeOK'
      BY <1>14, <2>1, <2>2, <2>3, <2>4, <2>5, <2>7, <1>t, IdleType DEF FinishAbandon, TypeOK
    <2>9. CodeInv'
      BY <1>14, <2>1, <2>2, <2>3, <2>4, <2>5, <2>7, <1>t, <2>8, Fields, IdleType
      DEF FinishAbandon, Inv, CodeInv, RowInv, KnownInv, VerdictInv, ActiveKey, TypeOK
    <2>10. RowInv'
      BY <1>14, <2>1, <2>2, <2>3, <2>4, <2>5, <2>7, <1>t, <2>8, Fields, IdleType
      DEF FinishAbandon, Inv, CodeInv, RowInv, KnownInv, VerdictInv
    <2>11. KnownInv'
      BY <1>14, <2>1, <2>2, <2>3, <2>4, <2>5, <2>7, <1>t, <2>8, Fields, IdleType
      DEF FinishAbandon, Inv, CodeInv, RowInv, KnownInv, VerdictInv, TypeOK, Gens
    <2>12. VerdictInv'
      BY <1>14, <2>1, <2>2, <2>3, <2>4, <2>5, <2>7, <1>t, <2>8, Fields, IdleType
      DEF FinishAbandon, Inv, CodeInv, RowInv, KnownInv, VerdictInv, TypeOK, Gens
    <2> QED
      BY <2>9, <2>10, <2>11, <2>12 DEF Inv
  <1>15. ASSUME NEW snap \in saves, Write(snap)
        PROVE  Inv'
    <2>1. snap \in Snapshots /\ snap.gen \in Gens /\ snap.gen <= highWater /\ row.gen = highWater /\ row.gen # 0
      BY <1>t, Fields DEF Inv, CodeInv, TypeOK, RowInv, KnownInv
    <2>2. row' = row \/ (row' = SavedRow(snap) /\ SaveApplies(snap))
      BY <1>15 DEF Write
    <2>3. SavedRow(snap) \in Rows
      BY <2>1 DEF SavedRow, Snapshots, Rows, Gens
    <2>4. row' = row \/ (row'.gen = row.gen /\ row'.active /\ row'.saved /\ row.active)
      <3>1. SavedRow(snap).gen = snap.gen /\ SavedRow(snap).active /\ SavedRow(snap).saved
        BY DEF SavedRow
      <3>2. SaveApplies(snap) => snap.gen = row.gen /\ row.active
        BY <2>1, Fields DEF SaveApplies, Gens
      <3> QED
        BY <2>2, <3>1, <3>2
    <2>5. row' \in Rows
      BY <2>2, <2>3, <1>t DEF TypeOK
    <2>6. TypeOK'
      BY <1>15, <2>1, <2>2, <2>3, <2>4, <2>5, <1>t, IdleType DEF Write, TypeOK
    <2>7. CodeInv'
      BY <1>15, <2>1, <2>2, <2>3, <2>4, <2>5, <1>t, <2>6, Fields, IdleType
      DEF Write, Inv, CodeInv, RowInv, KnownInv, VerdictInv, ActiveKey, TypeOK
    <2>8. RowInv'
      BY <1>15, <2>1, <2>2, <2>3, <2>4, <2>5, <1>t, <2>6, Fields, IdleType
      DEF Write, Inv, CodeInv, RowInv, KnownInv, VerdictInv
    <2>9. KnownInv'
      BY <1>15, <2>1, <2>2, <2>3, <2>4, <2>5, <1>t, <2>6, Fields, IdleType
      DEF Write, Inv, CodeInv, RowInv, KnownInv, VerdictInv, TypeOK, Gens
    <2>10. VerdictInv'
      BY <1>15, <2>1, <2>2, <2>3, <2>4, <2>5, <1>t, <2>6, Fields, IdleType
      DEF Write, Inv, CodeInv, RowInv, KnownInv, VerdictInv, TypeOK, Gens
    <2> QED
      BY <2>7, <2>8, <2>9, <2>10 DEF Inv
  <1>16. ASSUME NEW snap \in saves, WriteFails(snap)
        PROVE  Inv'
    <2>1. TypeOK'
      BY <1>16, <1>t, IdleType DEF WriteFails, TypeOK
    <2>2. CodeInv'
      BY <1>16, <1>t, <2>1, Fields, IdleType
      DEF WriteFails, Inv, CodeInv, RowInv, KnownInv, VerdictInv, ActiveKey, TypeOK
    <2>3. RowInv'
      BY <1>16, <1>t, <2>1, Fields, IdleType
      DEF WriteFails, Inv, CodeInv, RowInv, KnownInv, VerdictInv
    <2>4. KnownInv'
      BY <1>16, <1>t, <2>1, Fields, IdleType
      DEF WriteFails, Inv, CodeInv, RowInv, KnownInv, VerdictInv, TypeOK, Gens
    <2>5. VerdictInv'
      BY <1>16, <1>t, <2>1, Fields, IdleType
      DEF WriteFails, Inv, CodeInv, RowInv, KnownInv, VerdictInv, TypeOK, Gens
    <2> QED
      BY <2>2, <2>3, <2>4, <2>5 DEF Inv
  <1>17. ASSUME NEW g \in retires, RetireUnstarted(g)
        PROVE  Inv'
    <2>1. g \in Gens /\ g <= highWater /\ g # registry
      BY <1>t DEF Inv, KnownInv, TypeOK
    <2>2. row' \in Rows /\ row'.gen = row.gen /\ (row'.active => row' = row)
      BY <1>17, <1>t, RetiredRowType DEF RetireUnstarted, TypeOK
    <2>3. row.active /\ ~row'.active => registry = 0
      BY <1>17, <2>1, Fields DEF RetireUnstarted, RetireApplies, ActiveKey, Inv, CodeInv
    <2>4. TypeOK'
      BY <1>17, <2>1, <2>2, <2>3, <1>t, IdleType DEF RetireUnstarted, TypeOK
    <2>5. CodeInv'
      BY <1>17, <2>1, <2>2, <2>3, <1>t, <2>4, Fields, IdleType
      DEF RetireUnstarted, Inv, CodeInv, RowInv, KnownInv, VerdictInv, ActiveKey, TypeOK
    <2>6. RowInv'
      BY <1>17, <2>1, <2>2, <2>3, <1>t, <2>4, Fields, IdleType
      DEF RetireUnstarted, Inv, CodeInv, RowInv, KnownInv, VerdictInv
    <2>7. KnownInv'
      BY <1>17, <2>1, <2>2, <2>3, <1>t, <2>4, Fields, IdleType
      DEF RetireUnstarted, Inv, CodeInv, RowInv, KnownInv, VerdictInv, TypeOK, Gens
    <2>8. VerdictInv'
      BY <1>17, <2>1, <2>2, <2>3, <1>t, <2>4, Fields, IdleType
      DEF RetireUnstarted, Inv, CodeInv, RowInv, KnownInv, VerdictInv, TypeOK, Gens
    <2> QED
      BY <2>5, <2>6, <2>7, <2>8 DEF Inv
  <1>18. CASE SweepReports
    <2>1. registry \in Gens /\ registry = highWater
      BY <1>18, Fields DEF SweepReports, Inv, CodeInv
    <2>2. /\ sweep' \in Tasks /\ sweep'.gen = registry
          /\ sweep'.at = "prepare" => sweep'.verdict \in Verdicts
          /\ sweep'.at = "reap" => sweep'.verdict = None
      <3>1. CASE sweep' = [at |-> "prepare", gen |-> registry,
                            verdict |-> [rev |-> mem[registry].rev, why |-> "disconnected"]]
        <4>1. [rev |-> mem[registry].rev, why |-> "disconnected"] \in Verdicts
          BY <2>1, Fields DEF Verdicts, Reasons
        <4> QED
          BY <2>1, <3>1, <4>1 DEF Tasks, Gens
      <3>2. CASE sweep' = [Idle EXCEPT !.at = "reap", !.gen = registry]
        <4>1. sweep' = [at |-> "reap", gen |-> registry, verdict |-> None]
          BY <3>2 DEF Idle
        <4> QED
          BY <2>1, <4>1 DEF Tasks, Gens
      <3> QED
        BY <1>18, <3>1, <3>2 DEF SweepReports
    <2>3. TypeOK'
      BY <1>18, <2>1, <2>2, <1>t, IdleType DEF SweepReports, TypeOK
    <2>4. CodeInv'
      BY <1>18, <2>1, <2>2, <1>t, <2>3, Fields, IdleType
      DEF SweepReports, Inv, CodeInv, RowInv, KnownInv, VerdictInv, ActiveKey, TypeOK
    <2>5. RowInv'
      BY <1>18, <2>1, <2>2, <1>t, <2>3, Fields, IdleType
      DEF SweepReports, Inv, CodeInv, RowInv, KnownInv, VerdictInv
    <2>6. KnownInv'
      BY <1>18, <2>1, <2>2, <1>t, <2>3, Fields, IdleType
      DEF SweepReports, Inv, CodeInv, RowInv, KnownInv, VerdictInv, TypeOK, Gens
    <2>7. VerdictInv'
      BY <1>18, <2>1, <2>2, <1>t, <2>3, Fields, IdleType
      DEF SweepReports, Inv, CodeInv, RowInv, KnownInv, VerdictInv, TypeOK, Gens
    <2> QED
      BY <2>4, <2>5, <2>6, <2>7 DEF Inv
  <1>19. CASE SweepPrepares
    <2>1. sweep.gen \in Gens /\ sweep.verdict \in Verdicts /\ sweep.gen <= highWater
      BY <1>19, Fields DEF SweepPrepares, Inv, KnownInv, VerdictInv, Gens
    <2>2. /\ row' \in Rows
          /\ row'.gen = row.gen /\ row'.rev = row.rev /\ (row'.active => row' = row)
          /\ results' \in [Gens -> Verdicts \cup {None}]
          /\ \A f \in Gens : results[f] # None => results'[f] = results[f]
          /\ \A f \in Gens : results'[f] # None => results[f] # None \/ f = row.gen
          /\ \A f \in Gens : results'[f] # None => ~(row'.gen = f /\ row'.active)
          /\ row.active /\ ~row'.active => results'[row.gen] # None
      BY <1>19, <2>1, MaybePreparedKeeps DEF SweepPrepares
    <2>3. /\ sweep' \in Tasks /\ sweep'.gen = sweep.gen /\ sweep'.at = "reap"
          /\ sweep'.verdict # None => results'[sweep.gen] # None
      <3>1. CASE Prepared(sweep.gen, sweep.verdict) /\ sweep' = [sweep EXCEPT !.at = "reap"]
        BY <3>1, <2>1, <1>t, PreparedKeeps DEF TypeOK, Tasks
      <3>2. CASE sweep' = [sweep EXCEPT !.at = "reap", !.verdict = None]
        BY <3>2, <1>t DEF TypeOK, Tasks
      <3> QED
        BY <1>19, <3>1, <3>2 DEF SweepPrepares
    <2>4. TypeOK'
      BY <1>19, <2>1, <2>2, <2>3, <1>t, IdleType DEF SweepPrepares, TypeOK
    <2>5. CodeInv'
      BY <1>19, <2>1, <2>2, <2>3, <1>t, <2>4, Fields, IdleType
      DEF SweepPrepares, Inv, CodeInv, RowInv, KnownInv, VerdictInv, ActiveKey, TypeOK
    <2>6. RowInv'
      BY <1>19, <2>1, <2>2, <2>3, <1>t, <2>4, Fields, IdleType
      DEF SweepPrepares, Inv, CodeInv, RowInv, KnownInv, VerdictInv
    <2>7. KnownInv'
      BY <1>19, <2>1, <2>2, <2>3, <1>t, <2>4, Fields, IdleType
      DEF SweepPrepares, Inv, CodeInv, RowInv, KnownInv, VerdictInv, TypeOK, Gens
    <2>8. VerdictInv'
      BY <1>19, <2>1, <2>2, <2>3, <1>t, <2>4, Fields, IdleType
      DEF SweepPrepares, Inv, CodeInv, RowInv, KnownInv, VerdictInv, TypeOK, Gens
    <2> QED
      BY <2>5, <2>6, <2>7, <2>8 DEF Inv
  <1>20. CASE SweepReaps
    <2>1. registry' \in {0, registry} /\ blind' \subseteq Gens
      BY <1>20, <1>t, Fields DEF SweepReaps, Removes, RemovesUnseen, TypeOK
    <2>2. /\ retires' \subseteq Gens
          /\ \A g \in retires' : g \in retires \/ (g = registry /\ registry # 0 /\ registry' = 0)
      BY <1>20, <1>t, Fields DEF SweepReaps, Removes, RemovesUnseen, Reapable, TypeOK
    <2>3. sweep' = Idle
      BY <1>20 DEF SweepReaps
    <2>4. TypeOK'
      BY <1>20, <2>1, <2>2, <2>3, <1>t, IdleType DEF SweepReaps, TypeOK
    <2>5. CodeInv'
      BY <1>20, <2>1, <2>2, <2>3, <1>t, <2>4, Fields, IdleType
      DEF SweepReaps, Inv, CodeInv, RowInv, KnownInv, VerdictInv, ActiveKey, TypeOK
    <2>6. RowInv'
      BY <1>20, <2>1, <2>2, <2>3, <1>t, <2>4, Fields, IdleType
      DEF SweepReaps, Inv, CodeInv, RowInv, KnownInv, VerdictInv
    <2>7. KnownInv'
      BY <1>20, <2>1, <2>2, <2>3, <1>t, <2>4, Fields, IdleType
      DEF SweepReaps, Inv, CodeInv, RowInv, KnownInv, VerdictInv, TypeOK, Gens
    <2>8. VerdictInv'
      BY <1>20, <2>1, <2>2, <2>3, <1>t, <2>4, Fields, IdleType
      DEF SweepReaps, Inv, CodeInv, RowInv, KnownInv, VerdictInv, TypeOK, Gens
    <2> QED
      BY <2>5, <2>6, <2>7, <2>8 DEF Inv
  <1>21. CASE Restart
    <2>1. /\ lockedBy' = [g \in Gens |-> None] /\ task' = [h \in Handlers |-> Idle] /\ sweep' = Idle
          /\ saves' = {} /\ retires' = {} /\ blind' = {} /\ highWater' = highWater
          /\ boots' \in 0 .. MaxBoots
      BY <1>21, <1>t DEF Restart, TypeOK
    <2>2. ASSUME row' \in Rows, mem' \in [Gens -> Sessions], row'.gen \in {0, row.gen},
                 row'.active => row'.gen # 0, row'.active => row.active /\ row'.saved = row.saved,
                 row'.active /\ ~row'.saved => row'.rev = 0, registry' \in Nat,
                 registry' # 0 => row'.active /\ registry' = row'.gen,
                 results' \in [Gens -> Verdicts \cup {None}],
                 \A f \in Gens : results'[f] # None => results[f] # None \/ f = row.gen,
                 \A f \in Gens : results'[f] # None => ~(row'.gen = f /\ row'.active)
          PROVE  Inv'
      <3>1. TypeOK'
        BY <2>1, <2>2, <1>t, IdleType, Fields DEF TypeOK, Rows
      <3>2. CodeInv'
        BY <2>1, <2>2, <3>1, Fields DEF Inv, CodeInv, ActiveKey
      <3>3. RowInv'
        BY <2>1, <2>2 DEF RowInv
      <3>4. KnownInv'
        BY <2>1, <2>2, Fields, IdleType DEF Inv, CodeInv, KnownInv
      <3>5. VerdictInv'
        BY <2>1, IdleType DEF VerdictInv
      <3> QED
        BY <3>2, <3>3, <3>4, <3>5 DEF Inv
    <2>3. [g \in Gens |-> Fresh] \in [Gens -> Sessions]
      BY DEF Fresh, Sessions
    <2>4. row.active => row.gen # 0
      BY DEF Inv, RowInv
    <2>5. CASE row' = NoRow /\ registry' = 0 /\ mem' = [g \in Gens |-> Fresh] /\ UNCHANGED results
      <3>1. NoRow \in Rows /\ NoRow.gen = 0 /\ ~NoRow.active
        BY DEF NoRow, Rows
      <3> QED
        BY <2>2, <2>3, <2>5, <3>1, <1>t DEF TypeOK, Inv, CodeInv
    <2>6. CASE registry' = 0 /\ mem' = [g \in Gens |-> Fresh] /\ UNCHANGED <<row, results>>
      BY <2>2, <2>3, <2>4, <2>6, <1>t DEF TypeOK, Inv, CodeInv, RowInv, ActiveKey
    <2>7. ASSUME row.active, row.saved, registry' = row.gen, UNCHANGED results,
                 NEW resumed \in {0, 1}, row.rev + resumed <= MaxRev,
                 row' = [row EXCEPT !.rev = @ + resumed],
                 mem' = [[g \in Gens |-> Fresh] EXCEPT
                            ![row.gen] = Restored(resumed)]
          PROVE  Inv'
      <3>1. row' \in Rows /\ row'.gen = row.gen /\ row'.active = row.active /\ row'.saved = row.saved
        <4>1. row \in Rows /\ row.rev + resumed \in 0 .. MaxRev
          BY <2>7, <1>t, Fields DEF TypeOK
        <4> QED
          BY <2>7, <4>1 DEF Rows
      <3>2. Restored(resumed) \in Sessions
        <4>1. row.started \in BOOLEAN
          BY <1>t DEF TypeOK, Rows
        <4> QED
          BY <2>7, <4>1, Fields DEF Restored, Sessions
      <3>3. mem' \in [Gens -> Sessions]
        BY <2>3, <2>7, <3>2
      <3> QED
        BY <2>2, <2>4, <2>7, <3>1, <3>3, <1>t, Fields DEF TypeOK, Inv, CodeInv, ActiveKey
    <2>8. CASE /\ row.active /\ row.saved /\ row.rev < MaxRev
               /\ Prepared(row.gen, [rev |-> row.rev + 1, why |-> "ended"])
               /\ registry' = 0
               /\ mem' = [g \in Gens |-> Fresh]
      <3>1. row.gen \in Gens /\ [rev |-> row.rev + 1, why |-> "ended"] \in Verdicts
        BY <2>4, <2>8, Fields DEF Verdicts, Reasons
      <3>2. /\ row' \in Rows
            /\ row'.gen = row.gen /\ row'.rev = row.rev /\ (row'.active => row' = row)
            /\ results' \in [Gens -> Verdicts \cup {None}]
            /\ \A f \in Gens : results'[f] # None => results[f] # None \/ f = row.gen
            /\ \A f \in Gens : results'[f] # None => ~(row'.gen = f /\ row'.active)
        BY <2>8, <3>1, PreparedKeeps
      <3> QED
        BY <2>2, <2>3, <2>4, <2>8, <3>2 DEF Inv, RowInv
    <2>9. \/ row' = NoRow /\ registry' = 0 /\ mem' = [g \in Gens |-> Fresh] /\ UNCHANGED results
          \/ registry' = 0 /\ mem' = [g \in Gens |-> Fresh] /\ UNCHANGED <<row, results>>
          \/ /\ row.active /\ row.saved /\ registry' = row.gen /\ UNCHANGED results
             /\ \E resumed \in {0, 1} :
                  /\ row.rev + resumed <= MaxRev
                  /\ row' = [row EXCEPT !.rev = @ + resumed]
                  /\ mem' = [[g \in Gens |-> Fresh] EXCEPT
                               ![row.gen] = Restored(resumed)]
          \/ /\ row.active /\ row.saved /\ row.rev < MaxRev
             /\ Prepared(row.gen, [rev |-> row.rev + 1, why |-> "ended"])
             /\ registry' = 0
             /\ mem' = [g \in Gens |-> Fresh]
      <3>1. \A resumed \in {0, 1} :
               (resumed = 1 => row.started /\ row.rev < MaxRev) => row.rev + resumed <= MaxRev
        BY Fields
      <3> QED
        BY <1>21, <3>1 DEF Restart
    <2> QED
      BY <2>5, <2>6, <2>7, <2>8, <2>9
  <1>22. CASE UNCHANGED vars
    BY <1>22 DEF vars, Inv, CodeInv, TypeOK, RowInv, KnownInv, VerdictInv, ActiveKey
  <1> QED
    BY <1>1, <1>2, <1>3, <1>4, <1>5, <1>6, <1>7, <1>8, <1>9, <1>10, <1>11, <1>12, <1>13, <1>14,
       <1>15, <1>16, <1>17, <1>18, <1>19, <1>20, <1>21, <1>22 DEF Next

\* The three steps of a preparation's owner, and nothing else but a write, a
\* retirement, a creation and a restart, touch the tables.
LEMMA ForwardNext == Inv /\ [Next]_vars => [ForwardStep]_vars
  <1> SUFFICES ASSUME Inv, Next
                PROVE  ForwardStep
    OBVIOUS
  <1>a. ASSUME UNCHANGED <<row, results>>
        PROVE  ForwardStep
    BY <1>a, Fields DEF ForwardStep
  <1>b. ASSUME NEW g \in Gens, NEW verdict \in Verdicts,
               Prepared(g, verdict) \/ UNCHANGED <<row, results>>
        PROVE  ForwardStep
    <2>1. /\ row'.gen = row.gen /\ row'.rev = row.rev /\ (row'.active => row' = row)
          /\ \A f \in Gens : results[f] # None => results'[f] = results[f]
      BY <1>b, MaybePreparedKeeps
    <2> QED
      BY <2>1, Fields DEF ForwardStep
  <1>1. CASE Create
    <2>1. row'.gen = highWater + 1 /\ UNCHANGED results
      BY <1>1 DEF Create, BoundRow, NoRow
    <2> QED
      BY <2>1, Fields DEF ForwardStep, Inv, CodeInv
  <1>2. CASE CreateFails
    <2>1. row'.gen = highWater + 1 /\ UNCHANGED results
      BY <1>2 DEF CreateFails, BoundRow, NoRow
    <2> QED
      BY <2>1, Fields DEF ForwardStep, Inv, CodeInv
  <1>3. ASSUME NEW h \in Handlers, PrepareEnd(h) \/ PrepareEndFails(h) \/ FinishAbandon(h)
        PROVE  ForwardStep
    <2>1. task[h].at \in {"finishing", "abandoning"}
      BY <1>3 DEF PrepareEnd, PrepareEndFails, FinishAbandon
    <2>2. task[h].gen \in Gens /\ task[h].verdict \in Verdicts
      BY <2>1, AtWork DEF Inv, VerdictInv
    <2> QED
      BY <1>3, <1>b, <2>2 DEF PrepareEnd, PrepareEndFails, FinishAbandon
  <1>4. ASSUME NEW snap \in saves, Write(snap)
        PROVE  ForwardStep
    <2>1. row' = row \/ (row' = SavedRow(snap) /\ SaveApplies(snap))
      BY <1>4 DEF Write
    <2>2. SavedRow(snap).gen = snap.gen /\ SavedRow(snap).rev = snap.rev
      BY DEF SavedRow
    <2>3. /\ snap.gen \in Nat /\ snap.rev \in Nat
          /\ row.active /\ ~row.saved => row.rev = 0
      BY Fields, BoundsAssumption DEF Gens, Inv, RowInv
    <2>4. CASE row' = row
      BY <1>4, <1>a, <2>4 DEF Write
    <2>5. CASE row' = SavedRow(snap) /\ SaveApplies(snap)
      BY <1>4, <2>2, <2>3, <2>5, Fields DEF ForwardStep, SaveApplies, Write
    <2> QED
      BY <2>1, <2>4, <2>5
  <1>5. ASSUME NEW g \in retires, RetireUnstarted(g)
        PROVE  ForwardStep
    <2>1. row'.gen = row.gen /\ row'.rev = row.rev /\ (row'.active => row.active)
      BY <1>5, RetiredRowType DEF RetireUnstarted
    <2> QED
      BY <1>5, <2>1, Fields DEF ForwardStep, RetireUnstarted
  <1>6. CASE SweepPrepares
    <2>1. sweep.gen \in Gens /\ sweep.verdict \in Verdicts
      BY <1>6, Fields, BoundsAssumption DEF SweepPrepares, Inv, KnownInv, VerdictInv, Gens
    <2> QED
      BY <1>6, <1>b, <2>1 DEF SweepPrepares
  <1>7. CASE Restart
    <2>1. boots' # boots
      BY <1>7, BoundsAssumption DEF Restart, Inv, CodeInv, TypeOK
    <2>2. CASE UNCHANGED results
      BY <2>1, <2>2 DEF ForwardStep
    <2>3. CASE /\ row.active /\ row.rev < MaxRev
               /\ Prepared(row.gen, [rev |-> row.rev + 1, why |-> "ended"])
      <3>1. row.gen \in Gens /\ [rev |-> row.rev + 1, why |-> "ended"] \in Verdicts
        BY <2>3, Fields, BoundsAssumption DEF Verdicts, Reasons, Inv, RowInv
      <3> QED
        BY <2>3, <3>1, <1>b
    <2> QED
      BY <1>7, <2>2, <2>3 DEF Restart
  <1> QED
    BY <1>1, <1>2, <1>3, <1>4, <1>5, <1>6, <1>7, <1>a
    DEF Next, Lookup, Refused, ChangeRoom, Start, Play, Commits, EndGame, RemoveFinished,
        AbandonRoom, AbandonGame, WriteFails, SweepReports, SweepReaps

---------------------------------------------------------------------------
\* A session without a result whose row may be needed again: the registered one,
\* and a game in play that was removed unseen.  The latter is not registered and
\* not to be retired any more.
KeptInv ==
    /\ registry # 0 /\ results[registry] = None => Holds(row, registry)
    /\ \A g \in blind : /\ mem[g].started /\ g # registry /\ g \notin retires
                        /\ results[g] = None => Holds(row, g)

\* What keeps KeptInv: removals and retirements are of the kinds the code has,
\* no game becomes unstarted, and the row of a session without a result is left
\* to it unless it is to be retired.
LEMMA KeptStep ==
  ASSUME Inv, KeptInv, blind' \subseteq Gens,
         registry' \in {0, registry},
         \A g \in blind' : g \in blind \/ (g = registry /\ mem[g].started /\ registry' = 0),
         \A g \in Gens : mem[g].started => mem'[g].started,
         \A g \in retires' : g \in retires \/ ~mem[g].started,
         \A g \in Gens : results'[g] = None => results[g] = None,
         \A g \in Gens : results'[g] = None /\ g \notin retires /\ Holds(row, g) => Holds(row', g)
  PROVE  KeptInv'
  <1>1. registry # 0 => registry \in Gens /\ registry \notin retires
    BY Fields DEF Inv, KnownInv
  <1>2. blind \subseteq Gens /\ 0 \notin Gens
    BY BoundsAssumption DEF Inv, CodeInv, TypeOK, Gens
  <1>3. registry' # 0 /\ results'[registry'] = None => Holds(row', registry')
    BY <1>1 DEF KeptInv
  <1>4. ASSUME NEW g \in blind'
        PROVE  /\ mem'[g].started /\ g # registry' /\ g \notin retires'
               /\ results'[g] = None => Holds(row', g)
    <2>1. CASE g \in blind
      BY <1>2, <1>4, <2>1 DEF KeptInv
    <2>2. CASE g = registry /\ mem[g].started /\ registry' = 0
      BY <1>1, <1>2, <1>4, <2>2 DEF KeptInv
    <2> QED
      BY <1>4, <2>1, <2>2
  <1>5. (\A g \in blind : /\ mem[g].started /\ g # registry /\ g \notin retires
                          /\ results[g] = None => Holds(row, g))'
    BY <1>4 DEF Holds
  <1> QED
    BY <1>3, <1>5 DEF KeptInv, Holds

\* What a preparation, made or not, does to the rows that are still needed.
LEMMA PreparedHolds ==
  ASSUME Inv, NEW g \in Gens, NEW verdict \in Verdicts,
         Prepared(g, verdict) \/ UNCHANGED <<row, results>>
  PROVE  /\ \A f \in Gens : results'[f] = None => results[f] = None
         /\ \A f \in Gens : results'[f] = None /\ Holds(row, f) => Holds(row', f)
  BY MaybePreparedKeeps DEF Holds

\* The two ways of a removal to be seen by KeptStep.
LEMMA RemovesKeeps ==
  ASSUME Inv, NEW G \in SUBSET Gens, RemovesUnseen(G)
  PROVE  /\ registry' = 0 /\ blind' \subseteq Gens
         /\ \A g \in blind' : g \in blind \/ (g = registry /\ mem[g].started /\ registry' = 0)
  BY DEF RemovesUnseen, Inv, CodeInv, TypeOK

LEMMA KeptNext == Inv /\ KeptInv /\ [Next]_vars => KeptInv'
  <1> SUFFICES ASSUME Inv, KeptInv, [Next]_vars
                PROVE  KeptInv'
    OBVIOUS
  <1>t. TypeOK /\ blind \subseteq Gens
    BY DEF Inv, CodeInv, TypeOK
  <1>1. CASE Create \/ CreateFails
    <2>1. \A g \in blind : results[g] # None
      BY <1>1 DEF Create, CreateFails, CodeFree, KeptInv, Holds
    <2>2. \A g \in blind : g <= highWater /\ highWater \in Nat
      BY <1>t, <2>1, Fields DEF Inv, KnownInv
    <2>3. \A g \in retires : g <= highWater
      BY DEF Inv, KnownInv
    <2>4. CASE Create
      <3>1. /\ row'.gen = highWater + 1 /\ row'.active /\ row'.saved
            /\ registry' = highWater + 1
            /\ UNCHANGED <<results, mem, blind, retires>>
        BY <2>4 DEF Create, BoundRow, NoRow
      <3>2. \A g \in blind : g # highWater + 1
        BY <2>2
      <3> QED
        BY <2>1, <3>1, <3>2 DEF KeptInv, Holds
    <2>5. CASE CreateFails
      <3>1. registry = 0 /\ UNCHANGED <<registry, results, mem, blind, retires>>
        BY <2>5 DEF CreateFails, CodeFree
      <3> QED
        BY <2>1, <3>1 DEF KeptInv
    <2> QED
      BY <1>1, <2>4, <2>5
  <1>2. ASSUME NEW h \in Handlers,
               ChangeRoom(h) \/ Start(h) \/ Play(h) \/ EndGame(h)
        PROVE  KeptInv'
    <2>1. task[h].gen \in Gens
      BY <1>2, AtWork DEF ChangeRoom, Start, Play, EndGame, Locks
    <2>2. \A g \in Gens : mem[g].started => mem'[g].started
      <3>1. mem \in [Gens -> Sessions]
        BY <1>t DEF TypeOK
      <3>2. PICK session : /\ mem' = [mem EXCEPT ![task[h].gen] = session]
                           /\ mem[task[h].gen].started => session.started
        <4>1. CASE ChangeRoom(h)
          BY <4>1 DEF ChangeRoom, Commits
        <4>2. CASE Start(h)
          BY <4>2 DEF Start, Commits
        <4>3. CASE Play(h)
          <5>1. mem' = [mem EXCEPT ![task[h].gen] =
                          [mem[task[h].gen] EXCEPT !.rev = @ + 1, !.over = FALSE]]
            BY <4>3 DEF Play, Commits
          <5>2. mem[task[h].gen] \in Sessions
            BY <2>1, <3>1
          <5>3. [mem[task[h].gen] EXCEPT !.rev = @ + 1, !.over = FALSE].started
                  = mem[task[h].gen].started
            BY <5>2 DEF Sessions
          <5> QED
            BY <5>1, <5>3
        <4>4. CASE EndGame(h)
          <5>1. mem[task[h].gen] \in Sessions
            BY <2>1, <3>1
          <5>2. mem' = [mem EXCEPT ![task[h].gen] =
                          [mem[task[h].gen] EXCEPT !.rev = mem[task[h].gen].rev + 1, !.over = TRUE]]
            BY <2>1, <3>1, <4>4 DEF EndGame
          <5>3. [mem[task[h].gen] EXCEPT !.rev = mem[task[h].gen].rev + 1, !.over = TRUE].started
                  = mem[task[h].gen].started
            BY <5>1 DEF Sessions
          <5> QED
            BY <5>2, <5>3
        <4> QED
          BY <1>2, <4>1, <4>2, <4>3, <4>4
      <3> QED
        BY <2>1, <3>1, <3>2
    <2>3. UNCHANGED <<row, results, registry, retires, blind>>
      BY <1>2 DEF ChangeRoom, Start, Play, EndGame, Commits
    <2> QED
      BY <1>t, <2>2, <2>3, KeptStep
  <1>3. ASSUME NEW h \in Handlers, PrepareEnd(h) \/ PrepareEndFails(h)
        PROVE  KeptInv'
    <2>1. task[h].gen \in Gens /\ task[h].verdict \in Verdicts
      BY <1>3, AtWork DEF PrepareEnd, PrepareEndFails, Inv, VerdictInv
    <2>2. /\ Prepared(task[h].gen, task[h].verdict) \/ UNCHANGED <<row, results>>
          /\ UNCHANGED <<registry, mem, retires, blind>>
      BY <1>3 DEF PrepareEnd, PrepareEndFails
    <2>3. /\ \A f \in Gens : results'[f] = None => results[f] = None
          /\ \A f \in Gens : results'[f] = None /\ Holds(row, f) => Holds(row', f)
      BY <2>1, <2>2, PreparedHolds
    <2> QED
      BY <1>t, <2>2, <2>3, KeptStep
  <1>4. ASSUME NEW h \in Handlers, RemoveFinished(h) \/ AbandonRoom(h)
        PROVE  KeptInv'
    <2>1. RemovesUnseen(Gens \ {task[h].gen}) /\ UNCHANGED <<row, results, mem>>
      BY <1>4 DEF RemoveFinished, AbandonRoom, Removes
    <2>2. \A g \in retires' : g \in retires \/ ~mem[g].started
      BY <1>4 DEF RemoveFinished, AbandonRoom
    <2>3. /\ registry' = 0 /\ blind' \subseteq Gens
          /\ \A g \in blind' : g \in blind \/ (g = registry /\ mem[g].started /\ registry' = 0)
      BY <2>1, RemovesKeeps
    <2> QED
      BY <2>1, <2>2, <2>3, KeptStep
  <1>5. ASSUME NEW h \in Handlers, FinishAbandon(h)
        PROVE  KeptInv'
    <2>1. task[h].gen \in Gens /\ task[h].verdict \in Verdicts
      BY <1>5, AtWork DEF FinishAbandon, Inv, VerdictInv
    <2>2. /\ Prepared(task[h].gen, task[h].verdict) \/ UNCHANGED <<row, results>>
          /\ UNCHANGED <<mem, retires>>
      BY <1>5 DEF FinishAbandon
    <2>3. /\ \A f \in Gens : results'[f] = None => results[f] = None
          /\ \A f \in Gens : results'[f] = None /\ Holds(row, f) => Holds(row', f)
      BY <2>1, <2>2, PreparedHolds
    <2>4. CASE UNCHANGED <<registry, blind>>
      BY <1>t, <2>2, <2>3, <2>4, KeptStep
    <2>5. ASSUME NEW G \in SUBSET Gens, RemovesUnseen(G)
          PROVE  KeptInv'
      <3>1. /\ registry' = 0 /\ blind' \subseteq Gens
            /\ \A g \in blind' : g \in blind \/ (g = registry /\ mem[g].started /\ registry' = 0)
        BY <2>5, RemovesKeeps
      <3> QED
        BY <2>2, <2>3, <3>1, KeptStep
    <2>6. \/ UNCHANGED <<registry, blind>>
          \/ RemovesUnseen(Gens \ {task[h].gen})
          \/ RemovesUnseen(Gens)
      BY <1>5 DEF FinishAbandon, Removes
    <2> QED
      BY <2>4, <2>5, <2>6
  <1>6. ASSUME NEW snap \in saves, Write(snap)
        PROVE  KeptInv'
    <2>1. UNCHANGED <<results, registry, mem, retires, blind>>
      BY <1>6 DEF Write
    <2>2. ASSUME NEW g \in Gens, Holds(row, g)
          PROVE  Holds(row', g)
      <3>1. row.gen = g /\ g = highWater /\ g \in Nat
        BY <2>2, BoundsAssumption DEF Inv, CodeInv, Gens, Holds
      <3>2. snap.gen \in Nat /\ snap.gen <= highWater
        BY Fields, BoundsAssumption DEF Inv, KnownInv, Gens
      <3>3. SaveApplies(snap) => Holds(SavedRow(snap), g)
        BY <3>1, <3>2 DEF SaveApplies, SavedRow, Holds
      <3> QED
        BY <1>6, <2>2, <3>3 DEF Write
    <2> QED
      BY <1>t, <2>1, <2>2, KeptStep
  <1>7. ASSUME NEW g \in retires, RetireUnstarted(g)
        PROVE  KeptInv'
    <2>1. UNCHANGED <<results, registry, mem, blind>> /\ retires' \subseteq retires
      BY <1>7 DEF RetireUnstarted
    <2>2. \A f \in Gens : f \notin retires /\ Holds(row, f) => Holds(row', f)
      BY <1>7 DEF RetireUnstarted, RetireApplies, ActiveKey, Holds
    <2> QED
      BY <1>t, <2>1, <2>2, KeptStep
  <1>8. CASE SweepPrepares
    <2>1. sweep.gen \in Gens /\ sweep.verdict \in Verdicts
      BY <1>8, Fields, BoundsAssumption DEF SweepPrepares, Inv, KnownInv, VerdictInv, Gens
    <2>2. /\ Prepared(sweep.gen, sweep.verdict) \/ UNCHANGED <<row, results>>
          /\ UNCHANGED <<registry, mem, retires, blind>>
      BY <1>8 DEF SweepPrepares
    <2>3. /\ \A f \in Gens : results'[f] = None => results[f] = None
          /\ \A f \in Gens : results'[f] = None /\ Holds(row, f) => Holds(row', f)
      BY <2>1, <2>2, PreparedHolds
    <2> QED
      BY <1>t, <2>2, <2>3, KeptStep
  <1>9. CASE SweepReaps
    <2>1. UNCHANGED <<row, results, mem>>
      BY <1>9 DEF SweepReaps
    <2>2. \A g \in retires' : g \in retires \/ ~mem[g].started
      BY <1>9 DEF SweepReaps, Reapable
    <2>3. UNCHANGED <<registry, blind>> \/ RemovesUnseen(Gens \ {sweep.gen})
      BY <1>9 DEF SweepReaps, Removes
    <2>4. CASE UNCHANGED <<registry, blind>>
      BY <1>t, <2>1, <2>2, <2>4, KeptStep
    <2>5. CASE RemovesUnseen(Gens \ {sweep.gen})
      <3>1. /\ registry' = 0 /\ blind' \subseteq Gens
            /\ \A g \in blind' : g \in blind \/ (g = registry /\ mem[g].started /\ registry' = 0)
        BY <2>5, RemovesKeeps
      <3> QED
        BY <2>1, <2>2, <3>1, KeptStep
    <2> QED
      BY <2>3, <2>4, <2>5
  <1>10. CASE Restart
    <2>1. blind' = {}
      BY <1>10 DEF Restart
    <2>2. \/ registry' = 0
          \/ /\ registry' = row.gen /\ row.active /\ row.saved
             /\ row'.gen = row.gen /\ row'.active = row.active /\ row'.saved = row.saved
      <3>1. row \in Rows
        BY <1>t DEF TypeOK
      <3> QED
        BY <1>10, <3>1 DEF Restart, Rows
    <2> QED
      BY <2>1, <2>2 DEF KeptInv, Holds
  <1>11. CASE UNCHANGED <<row, results, registry, mem, retires, blind>>
    BY <1>11 DEF KeptInv, Holds
  <1> QED
    BY <1>1, <1>2, <1>3, <1>4, <1>5, <1>6, <1>7, <1>8, <1>9, <1>10, <1>11
    DEF Next, vars, Lookup, Refused, AbandonGame, WriteFails, SweepReports

\* Only three handlers' steps and the sweep take a session out of the registry.
LEMMA PaidNext == Inv /\ KeptInv /\ [Next]_vars => [PaidRemoval]_vars
  <1> SUFFICES ASSUME Inv, KeptInv, Next, registry # 0, registry' # registry, boots' = boots,
                      mem[registry].started, results'[registry] = None
                PROVE  registry \in blind' /\ Holds(row', registry)
    BY DEF PaidRemoval
  <1>g. registry \in Gens
    BY Fields
  <1>a. ASSUME NEW G \in SUBSET Gens, RemovesUnseen(G), registry \in G, UNCHANGED <<row, results>>
        PROVE  registry \in blind' /\ Holds(row', registry)
    BY <1>a, <1>g DEF RemovesUnseen, KeptInv
  <1>1. CASE Create \/ CreateFails
    BY <1>1 DEF Create, CreateFails, CodeFree
  <1>2. ASSUME NEW h \in Handlers, RemoveFinished(h)
        PROVE  registry \in blind' /\ Holds(row', registry)
    <2>1. task[h].gen # registry
      BY <1>2 DEF RemoveFinished, Inv, VerdictInv
    <2> QED
      BY <1>2, <1>a, <1>g, <2>1 DEF RemoveFinished, Removes
  <1>3. ASSUME NEW h \in Handlers, AbandonRoom(h)
        PROVE  registry \in blind' /\ Holds(row', registry)
    <2>1. task[h].gen # registry
      BY <1>3 DEF AbandonRoom
    <2> QED
      BY <1>3, <1>a, <1>g, <2>1 DEF AbandonRoom, Removes
  <1>4. ASSUME NEW h \in Handlers, FinishAbandon(h)
        PROVE  registry \in blind' /\ Holds(row', registry)
    <2>1. task[h].gen \in Gens /\ task[h].verdict \in Verdicts
      BY <1>4, AtWork DEF FinishAbandon, Inv, VerdictInv
    <2>2. CASE Prepared(task[h].gen, task[h].verdict) /\ Removes(task[h].gen)
      <3>1. results'[task[h].gen] # None
        BY <2>1, <2>2, PreparedKeeps
      <3>2. registry \in Gens \ {task[h].gen}
        BY <1>g, <3>1
      <3>3. registry \in blind'
        BY <2>2, <3>2 DEF Removes, RemovesUnseen
      <3>4. Holds(row', registry)
        BY <1>g, <2>1, <2>2, PreparedHolds DEF KeptInv
      <3> QED
        BY <3>3, <3>4
    <2>3. CASE UNCHANGED <<row, results>> /\ ~ActiveKey(task[h].gen) /\ Removes(task[h].gen)
      <3>1. task[h].gen # registry
        BY <2>3 DEF KeptInv, Holds, ActiveKey
      <3> QED
        BY <1>a, <1>g, <2>3, <3>1 DEF Removes
    <2>4. CASE UNCHANGED <<row, results>> /\ RemovesUnseen(Gens)
      BY <1>a, <1>g, <2>4
    <2> QED
      BY <1>4, <2>2, <2>3, <2>4 DEF FinishAbandon, KeptAfterFailure
  <1>5. CASE SweepReaps
    <2>1. sweep.gen # registry
      BY <1>5 DEF SweepReaps, Reapable, Inv, VerdictInv
    <2> QED
      BY <1>5, <1>a, <1>g, <2>1 DEF SweepReaps, Removes
  <1>6. CASE Restart
    BY <1>6, BoundsAssumption DEF Restart, Inv, CodeInv, TypeOK
  <1> QED
    BY <1>1, <1>2, <1>3, <1>4, <1>5, <1>6
    DEF Next, Lookup, Refused, ChangeRoom, Start, Play, Commits, EndGame, PrepareEnd,
        PrepareEndFails, AbandonGame, Write, WriteFails, RetireUnstarted, SweepReports,
        SweepPrepares

\* The inductive invariants hold throughout.
LEMMA Always == Spec => [](Inv /\ KeptInv)
  <1>1. Init => Inv /\ KeptInv
    BY InitInv DEF Init, KeptInv
  <1> QED
    BY <1>1, NextInv, KeptNext, PTL DEF Spec

\* Whatever the handlers, the sweep, the blocking tasks and restarts do, the
\* session in memory is the one a restart would find, and so is a game that was
\* removed unseen (LiveIsRecoverable).
THEOREM Recoverable == Spec => []LiveIsRecoverable
  <1>1. Inv /\ KeptInv => LiveIsRecoverable
    BY DEF Inv, CodeInv, KeptInv, LiveIsRecoverable
  <1> QED
    BY <1>1, Always, PTL

\* The code's row and recorded results never go back (DiskMovesForward).
THEOREM ForwardOnly == Spec => DiskMovesForward
  BY Always, ForwardNext, PTL DEF Spec, DiskMovesForward

\* No played game leaves memory before its result is on disk or, if it was
\* removed unseen, without an active row to come back from (RemovalOwesNothing).
THEOREM NothingOwed == Spec => RemovalOwesNothing
  BY Always, PaidNext, PTL DEF Spec, RemovalOwesNothing
============================================================================
