--------------------------- MODULE FullPersistence -------------------------
(***************************************************************************)
(* The life of the game sessions that one game code holds over time, in    *)
(* memory and on disk: phase-server's GameDb (persistence.rs) and the      *)
(* handlers and sweeps of main.rs that write to it.                        *)
(*                                                                         *)
(* A code is held by one session (generation) after another.  A handler    *)
(* looks the session up in the registry, waits for its lock, changes it    *)
(* and leaves the write to a detached blocking task, so writes arrive in   *)
(* any order, and a handler may wait for a session that leaves the         *)
(* registry meanwhile.  Ends of games are prepared on disk before anybody  *)
(* is told.  The process may stop at any point and restores what the disk  *)
(* holds.  A session's content is its revision, whether the game has       *)
(* started and whether it is over.                                         *)
(***************************************************************************)
EXTENDS Integers, FiniteSets

CONSTANTS
    Handlers,   \* sockets that may handle a message at the same time
    MaxGen,     \* bound: sessions created under the code
    MaxRev,     \* bound: revisions of a session
    MaxBoots,   \* bound: restarts
    None

ASSUME BoundsAssumption == MaxGen \in Nat /\ MaxRev \in Nat /\ MaxBoots \in Nat

Gens == 1 .. MaxGen

Reasons == {"ended", "abandoned", "disconnected"}

\* FullTerminalArtifact: what its digest tells apart.
Verdicts == [rev : 0 .. MaxRev, why : Reasons]

ASSUME NoneAssumption == None \notin Handlers /\ None \notin Verdicts

VARIABLES
    row,        \* the game_sessions row of the code
    highWater,  \* full_generation_high_water
    results,    \* terminal_match_results, per generation
    registry,   \* the generation SessionManager holds under the code, or 0
    mem,        \* per generation, the session object
    lockedBy,   \* per generation, who holds its lock across an await
    task,       \* per handler, where it is
    sweep,      \* the disconnect-grace sweep
    saves,      \* snapshots whose blocking task has not run
    retires,    \* generations whose retirement task has not run
    blind,      \* ghost: games in play removed by somebody who meant another
                \*        session, or could not read whether their key was active
    boots       \* restarts so far

vars == <<row, highWater, results, registry, mem, lockedBy, task, sweep,
          saves, retires, blind, boots>>

NoRow == [gen |-> 0, rev |-> 0, active |-> FALSE, saved |-> FALSE, started |-> FALSE]

Fresh == [rev |-> 0, started |-> FALSE, over |-> FALSE]

Idle == [at |-> "idle", gen |-> 0, verdict |-> None]

---------------------------------------------------------------------------
(* GameDb: one transaction each.                                           *)

\* save_full_session's WHERE clause.
\* Mutant: the tombstone of a finished game does not fence.
SaveApplies_NoTombstone(snap) ==
    \/ snap.gen > row.gen
    \/ snap.gen = row.gen /\ (snap.rev > row.rev \/ ~row.saved)

SaveApplies(snap) ==
    \/ snap.gen > row.gen
    \/ snap.gen = row.gen /\ row.active /\ (snap.rev > row.rev \/ ~row.saved)

SavedRow(snap) ==
    [gen |-> snap.gen, rev |-> snap.rev, active |-> TRUE, saved |-> TRUE,
     started |-> snap.started]

RetiredRow == [row EXCEPT !.active = FALSE, !.saved = FALSE, !.started = FALSE]

ActiveKey(g) == row.gen = g /\ row.active

\* retire_unstarted_full_session: the exact generation, and not once the
\* retained snapshot is that of a started game.
\* Mutant: the row of the code, whatever its generation.
RetireApplies_ByCode(g) == row.active /\ ~(row.saved /\ row.started)

RetireApplies(g) == ActiveKey(g) /\ ~(row.saved /\ row.started)

\* prepare_full_terminal: a replay of the same artifact is accepted, any other
\* result for a generation that has one is refused.
Prepared(g, verdict) ==
    \/ /\ results[g] = verdict
       /\ UNCHANGED <<row, results>>
    \/ /\ results[g] = None /\ ActiveKey(g)
       /\ results' = [results EXCEPT ![g] = verdict]
       /\ row' = RetiredRow

---------------------------------------------------------------------------
(* Creation: the key is bound on disk before the first snapshot is.        *)

CodeFree == registry = 0 /\ ~row.active /\ highWater < MaxGen

BoundRow == [NoRow EXCEPT !.gen = highWater + 1, !.active = TRUE]

Create ==
    /\ CodeFree
    /\ highWater' = highWater + 1
    /\ row' = [BoundRow EXCEPT !.saved = TRUE]
    /\ registry' = highWater + 1
    /\ UNCHANGED <<results, mem, lockedBy, task, sweep, saves, retires, blind, boots>>

\* initialize_full_runtime fails after the key was bound: the game is removed
\* again and its row stays, without a snapshot.
CreateFails ==
    /\ CodeFree
    /\ highWater' = highWater + 1
    /\ row' = BoundRow
    /\ UNCHANGED <<results, registry, mem, lockedBy, task, sweep, saves, retires,
                   blind, boots>>

---------------------------------------------------------------------------
(* Handlers.  lock_session finds the handle under the registry lock and    *)
(* waits for the session's own lock outside it.                            *)

Lookup(h) ==
    /\ task[h] = Idle /\ registry # 0
    /\ task' = [task EXCEPT ![h] = [Idle EXCEPT !.at = "waiting", !.gen = registry]]
    /\ UNCHANGED <<row, highWater, results, registry, mem, lockedBy, sweep, saves,
                   retires, blind, boots>>

\* h gets the lock of the session it waits for, which may have left the
\* registry since.
Locks(h) == task[h].at = "waiting" /\ lockedBy[task[h].gen] = None

\* An illegal action, a full room, or a socket that lost its authority.  The
\* sender map is not under the session's lock, so whether a socket of an
\* earlier session still has authority is left open.
Refused(h) ==
    /\ Locks(h)
    /\ task' = [task EXCEPT ![h] = Idle]
    /\ UNCHANGED <<row, highWater, results, registry, mem, lockedBy, sweep, saves,
                   retires, blind, boots>>

\* A change of the session with its detached write.
Commits(h, session) ==
    LET g == task[h].gen
    IN  /\ session.rev <= MaxRev
        /\ mem' = [mem EXCEPT ![g] = session]
        /\ saves' = saves \cup {[gen |-> g, rev |-> session.rev, started |-> session.started]}
        /\ task' = [task EXCEPT ![h] = Idle]
        /\ UNCHANGED <<row, highWater, results, registry, lockedBy, sweep, retires,
                       blind, boots>>

\* A join or a seat change of a waiting room.
ChangeRoom(h) ==
    /\ Locks(h) /\ ~mem[task[h].gen].started
    /\ Commits(h, [mem[task[h].gen] EXCEPT !.rev = @ + 1])

\* The join that fills the room, or the host's Start.
Start(h) ==
    /\ Locks(h) /\ ~mem[task[h].gen].started
    /\ Commits(h, [mem[task[h].gen] EXCEPT !.rev = @ + 1, !.started = TRUE])

\* An action, an interaction or an approved takeback; only the last may move
\* a game that is over.
Play(h) ==
    /\ Locks(h) /\ mem[task[h].gen].started
    /\ Commits(h, [mem[task[h].gen] EXCEPT !.rev = @ + 1, !.over = FALSE])

\* The action, concession or match concession that ends the game: the result
\* is drawn up under the lock and prepared after its release; nothing is saved.
EndGame(h) ==
    LET g == task[h].gen
        rev == mem[g].rev + 1
    IN  /\ Locks(h) /\ mem[g].started /\ ~mem[g].over /\ rev <= MaxRev
        /\ mem' = [mem EXCEPT ![g] = [@ EXCEPT !.rev = rev, !.over = TRUE]]
        /\ task' = [task EXCEPT ![h] = [at |-> "finishing", gen |-> g,
                                        verdict |-> [rev |-> rev, why |-> "ended"]]]
        /\ UNCHANGED <<row, highWater, results, registry, lockedBy, sweep, saves,
                       retires, blind, boots>>

PrepareEnd(h) ==
    /\ task[h].at = "finishing"
    /\ Prepared(task[h].gen, task[h].verdict)
    /\ task' = [task EXCEPT ![h].at = "removing"]
    /\ UNCHANGED <<highWater, registry, mem, lockedBy, sweep, saves, retires, blind, boots>>

\* The handler returns: the preparation was refused, or failed, or the
\* deliveries could not be read after it had committed.
PrepareEndFails(h) ==
    /\ task[h].at = "finishing"
    /\ Prepared(task[h].gen, task[h].verdict) \/ UNCHANGED <<row, results>>
    /\ task' = [task EXCEPT ![h] = Idle]
    /\ UNCHANGED <<highWater, registry, mem, lockedBy, sweep, saves, retires, blind, boots>>

\* remove_game goes by the code, whoever holds it now.
RemovesUnseen(G) ==
    /\ registry' = 0
    /\ blind' = blind \cup {g \in G : g = registry /\ mem[g].started}

Removes(g) == RemovesUnseen(Gens \ {g})

RemoveFinished(h) ==
    /\ task[h].at = "removing"
    /\ Removes(task[h].gen)
    /\ task' = [task EXCEPT ![h] = Idle]
    /\ UNCHANGED <<row, highWater, results, mem, lockedBy, sweep, saves, retires, boots>>

\* commit_full_abandon of a waiting room.
AbandonRoom(h) ==
    /\ Locks(h) /\ ~mem[task[h].gen].started
    /\ retires' = retires \cup {task[h].gen}
    /\ Removes(task[h].gen)
    /\ task' = [task EXCEPT ![h] = Idle]
    /\ UNCHANGED <<row, highWater, results, mem, lockedBy, sweep, saves, boots>>

\* commit_full_abandon of a started game keeps the lock while it prepares.
AbandonGame(h) ==
    LET g == task[h].gen
    IN  /\ Locks(h) /\ mem[g].started
        /\ lockedBy' = [lockedBy EXCEPT ![g] = h]
        /\ task' = [task EXCEPT ![h] = [at |-> "abandoning", gen |-> g,
                                        verdict |-> [rev |-> mem[g].rev, why |-> "abandoned"]]]
        /\ UNCHANGED <<row, highWater, results, registry, mem, sweep, saves, retires,
                       blind, boots>>

\* After a failure the session is kept only if the disk still confirms its
\* exact key.
\* Mutant: it is removed whatever became of the preparation.
KeptAfterFailure_Never(g) == FALSE

KeptAfterFailure(g) == ActiveKey(g)

FinishAbandon(h) ==
    LET g == task[h].gen
    IN  /\ task[h].at = "abandoning"
        /\ \/ Prepared(g, task[h].verdict) /\ Removes(g)
           \/ /\ UNCHANGED <<row, results>>
              /\ IF KeptAfterFailure(g) THEN UNCHANGED <<registry, blind>> ELSE Removes(g)
           \/ /\ UNCHANGED <<row, results>>         \* the key cannot be read
              /\ RemovesUnseen(Gens)
        /\ lockedBy' = [lockedBy EXCEPT ![g] = None]
        /\ task' = [task EXCEPT ![h] = Idle]
        /\ UNCHANGED <<highWater, mem, sweep, saves, retires, boots>>

---------------------------------------------------------------------------
(* The blocking tasks.                                                     *)

Write(snap) ==
    /\ snap \in saves
    /\ saves' = saves \ {snap}
    /\ row' = IF SaveApplies(snap) THEN SavedRow(snap) ELSE row
    /\ UNCHANGED <<highWater, results, registry, mem, lockedBy, task, sweep, retires,
                   blind, boots>>

WriteFails(snap) ==
    /\ snap \in saves
    /\ saves' = saves \ {snap}
    /\ UNCHANGED <<row, highWater, results, registry, mem, lockedBy, task, sweep,
                   retires, blind, boots>>

RetireUnstarted(g) ==
    /\ g \in retires
    /\ retires' = retires \ {g}
    /\ row' = IF RetireApplies(g) THEN RetiredRow ELSE row
    /\ UNCHANGED <<highWater, results, registry, mem, lockedBy, task, sweep, saves,
                   blind, boots>>

---------------------------------------------------------------------------
(* The disconnect-grace sweep and its sibling for lapsed listings.         *)

\* The code is reported; try_session looks at whichever session holds it.
SweepReports ==
    /\ sweep.at = "idle" /\ registry # 0
    /\ sweep' = IF lockedBy[registry] = None /\ mem[registry].started
                THEN [at |-> "prepare", gen |-> registry,
                      verdict |-> [rev |-> mem[registry].rev, why |-> "disconnected"]]
                ELSE [Idle EXCEPT !.at = "reap", !.gen = registry]
    /\ UNCHANGED <<row, highWater, results, registry, mem, lockedBy, task, saves,
                   retires, blind, boots>>

SweepPrepares ==
    /\ sweep.at = "prepare"
    /\ \/ Prepared(sweep.gen, sweep.verdict) /\ sweep' = [sweep EXCEPT !.at = "reap"]
       \/ /\ Prepared(sweep.gen, sweep.verdict) \/ UNCHANGED <<row, results>>
          /\ sweep' = [sweep EXCEPT !.at = "reap", !.verdict = None]
    /\ UNCHANGED <<highWater, registry, mem, lockedBy, task, saves, retires, blind, boots>>

\* reap_expired_disconnects: a prepared code is removed without a look at its
\* session; otherwise a waiting room is retired, and a started or contended
\* game left to the next tick.
Reapable ==
    IF registry = 0 THEN FALSE ELSE lockedBy[registry] = None /\ ~mem[registry].started

SweepReaps ==
    /\ sweep.at = "reap"
    /\ sweep' = Idle
    /\ \/ /\ sweep.verdict # None
          /\ Removes(sweep.gen)
          /\ UNCHANGED retires
       \/ /\ sweep.verdict = None /\ Reapable
          /\ retires' = retires \cup {registry}
          /\ Removes(sweep.gen)
       \/ /\ sweep.verdict = None /\ ~Reapable
          /\ UNCHANGED <<registry, blind, retires>>
    /\ UNCHANGED <<row, highWater, results, mem, lockedBy, task, saves, boots>>

---------------------------------------------------------------------------
(* The process stops; writes in flight are lost.  At the next start stale  *)
(* active rows are deleted, an active row with a snapshot is restored, and *)
(* the engine may finish interrupted work on it, or end the game.  A row   *)
(* that cannot be read, resumed or saved again stays for the next start.   *)

Restored(resumed) ==
    [rev |-> row.rev + resumed, started |-> row.started, over |-> FALSE]

Restart ==
    /\ boots < MaxBoots
    /\ boots' = boots + 1
    /\ lockedBy' = [g \in Gens |-> None]
    /\ task' = [h \in Handlers |-> Idle]
    /\ sweep' = Idle
    /\ saves' = {} /\ retires' = {} /\ blind' = {}
    /\ \/ /\ row.active                          \* delete_stale
          /\ row' = NoRow /\ registry' = 0
          /\ mem' = [g \in Gens |-> Fresh]
          /\ UNCHANGED results
       \/ /\ registry' = 0                       \* nothing restored, or it failed
          /\ mem' = [g \in Gens |-> Fresh]
          /\ UNCHANGED <<row, results>>
       \/ /\ row.active /\ row.saved
          /\ registry' = row.gen
          /\ \E resumed \in {0, 1} :
               /\ resumed = 1 => row.started /\ row.rev < MaxRev
               /\ row' = [row EXCEPT !.rev = @ + resumed]
               /\ mem' = [[g \in Gens |-> Fresh] EXCEPT
                            ![row.gen] = Restored(resumed)]
          /\ UNCHANGED results
       \/ /\ row.active /\ row.saved /\ row.started /\ row.rev < MaxRev
          /\ Prepared(row.gen, [rev |-> row.rev + 1, why |-> "ended"])
          /\ registry' = 0
          /\ mem' = [g \in Gens |-> Fresh]
    /\ UNCHANGED highWater

Init ==
    /\ row = NoRow
    /\ highWater = 0
    /\ results = [g \in Gens |-> None]
    /\ registry = 0
    /\ mem = [g \in Gens |-> Fresh]
    /\ lockedBy = [g \in Gens |-> None]
    /\ task = [h \in Handlers |-> Idle]
    /\ sweep = Idle
    /\ saves = {} /\ retires = {} /\ blind = {}
    /\ boots = 0

Next ==
    \/ Create
    \/ CreateFails
    \/ \E h \in Handlers : Lookup(h)
    \/ \E h \in Handlers : Refused(h)
    \/ \E h \in Handlers : ChangeRoom(h)
    \/ \E h \in Handlers : Start(h)
    \/ \E h \in Handlers : Play(h)
    \/ \E h \in Handlers : EndGame(h)
    \/ \E h \in Handlers : PrepareEnd(h)
    \/ \E h \in Handlers : PrepareEndFails(h)
    \/ \E h \in Handlers : RemoveFinished(h)
    \/ \E h \in Handlers : AbandonRoom(h)
    \/ \E h \in Handlers : AbandonGame(h)
    \/ \E h \in Handlers : FinishAbandon(h)
    \/ \E snap \in saves : Write(snap)
    \/ \E snap \in saves : WriteFails(snap)
    \/ \E g \in retires : RetireUnstarted(g)
    \/ SweepReports
    \/ SweepPrepares
    \/ SweepReaps
    \/ Restart

Spec == Init /\ [][Next]_vars

---------------------------------------------------------------------------
(* Properties.                                                             *)

Snapshots == [gen : Gens, rev : 0 .. MaxRev, started : BOOLEAN]

Rows == [gen : 0 .. MaxGen, rev : 0 .. MaxRev, active : BOOLEAN, saved : BOOLEAN,
         started : BOOLEAN]

Sessions == [rev : 0 .. MaxRev, started : BOOLEAN, over : BOOLEAN]

Tasks == [at : {"idle", "waiting", "finishing", "removing", "abandoning", "prepare", "reap"},
          gen : 0 .. MaxGen, verdict : Verdicts \cup {None}]

\* Types of the tables and of the process's state.
TypeOK ==
    /\ row \in Rows
    /\ highWater \in 0 .. MaxGen
    /\ results \in [Gens -> Verdicts \cup {None}]
    /\ registry \in 0 .. MaxGen
    /\ mem \in [Gens -> Sessions]
    /\ lockedBy \in [Gens -> Handlers \cup {None}]
    /\ task \in [Handlers -> Tasks] /\ sweep \in Tasks
    /\ saves \subseteq Snapshots
    /\ retires \subseteq Gens /\ blind \subseteq Gens
    /\ boots \in 0 .. MaxBoots

\* The row r is one from which a restart restores session g.
Holds(r, g) == r.gen = g /\ r.active /\ r.saved

\* One session at a time holds the code, and what memory holds a restart would
\* find: a registered session is of the newest generation, and unless its
\* result is recorded its row is active and has a snapshot, so neither a late
\* retirement nor a late result of an earlier session of the code can take it
\* away.  The same goes for a game in play that was removed in place of an
\* earlier session, or because the disk could not be read: nothing that happens
\* before the next start takes its row or gives its code to somebody else.  A
\* session with a result is never restored.
LiveIsRecoverable ==
    /\ TypeOK
    /\ row.gen \in {0, highWater}
    /\ registry # 0 => registry = highWater /\ row.gen = highWater
    /\ registry # 0 /\ results[registry] = None => Holds(row, registry)
    /\ \A g \in blind : results[g] = None => Holds(row, g)
    /\ \A g \in Gens : results[g] # None => ~ActiveKey(g)

ForwardStep ==
    /\ \/ row'.gen > row.gen
       \/ row'.gen = row.gen /\ row'.rev >= row.rev /\ (row'.active => row.active)
       \/ boots' # boots
    /\ \A g \in Gens : results[g] # None => results'[g] = results[g]

\* The disk only moves forward, however late and in whatever order the detached
\* writes arrive: the row never goes back to an older revision or session, a
\* retired session never becomes active again, and a recorded result never
\* changes.  (Deleting a stale row at start is the one way back.)
DiskMovesForward == [][ForwardStep]_vars

PaidRemoval ==
    registry # 0 /\ registry' # registry /\ boots' = boots /\ mem[registry].started
      => \/ results'[registry] # None
         \/ registry \in blind' /\ Holds(row', registry)

\* A game that was being played leaves the registry only once its result is on
\* disk for its players.  Where whoever removed it meant an earlier session of
\* the same code (remove_game goes by the code) or could not read whether its
\* key is still active, the game is not lost either: its row is left active,
\* with a snapshot, for the next start.
RemovalOwesNothing == [][PaidRemoval]_vars
============================================================================
