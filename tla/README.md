# A verification of phase.rs multiplayer: drafts, tournaments, lobby, games

phase.rs ("OneDeck") is a Magic: The Gathering rules engine in Rust with a
multiplayer server, a matchmaking lobby, booster drafts and a React client.
This project models the parts of it in which several people, tasks and clocks
act on shared state, checks them with TLC on small instances, and proves the
central invariants for every instance with TLAPS.

Paths below are relative to the repository.

## 1. The system and its parts

| part | state | operations | interacts with |
|---|---|---|---|
| `crates/draft-core` session reducer | one `DraftSession`: status, boosters or main stack, pools, decks, pairings, match records | `StartDraft`, picks, shared-stack decisions, deck submission, `GeneratePairings`, `ReportMatchResult`, `AdvanceRound`, seat replacement | called by phase-server, by draft-wasm in a browser host |
| `crates/server-core` `DraftSessionManager` | sessions, tokens, connection flags, reconnect records, the handle of the pick timer | actions, connects, disconnects, auto-picks, conversion to and from persisted form | phase-server tasks hold its lock |
| `crates/phase-server` | the tasks: one per socket, one pick timer per pod, one that stores the timer's handle, one background sweep; locks around lobby, drafts, games, subscribers | dispatch, broadcast, sweeps, persistence | everything |
| `crates/lobby-broker` | listings per code with a generation, a liveness clock and reservations; per-socket host stamp and reservations; tournaments | create, join, lookup/reserve/release, metadata, unregister, ping, socket close, expiry | phase-server (locks, two-step sweep), lobby-worker |
| `lobby-worker` (Cloudflare Durable Object) | the broker in memory, its snapshot in storage, per-socket attachments, one alarm | `webSocketMessage`, `webSocketClose`, `alarm`, restore after eviction | broker-wasm |
| client `brokerClient.ts` | the list of listings a subscriber shows | snapshot, added/updated/removed | frames from either shell |
| `server-core` game sessions, reconnects; `seat-reducer` | per game: seats with tokens, reservations; per (game, seat number): a disconnect record; per socket: the seat it was given | reservations, joins, reconnects, closes, the host's seat changes, grace expiry | phase-server holds routes (seat number to sender) beside them |
| `server-core` takeback | two rings of earlier states, at most one vote | request, approve, decline, withdraw, roll back | actions and the AI driver stop during a vote |
| phase-server `GameDb` | per code: one row with generation, revision and state, a high-water mark, results per generation | bind a key, save, retire, prepare a result, restore | handlers, detached writers, sweeps, start-up |
| `crates/engine` | `GameState` | rules actions, priority, stack, mulligans, match flow | sessions, WASM |
| `phase-ai`, `phase-llm`, WASM bindings, client UI, Tauri shell, tooling | - | - | - |

What is hard in it:

* **Interleavings.** A pick handler, a timer task, the task that stores the
  timer's handle and the sweep take the draft lock one after the other, in any
  order. The lobby sweep reports under one lock and consumes under another.
  Frames are computed under one lock and sent under a second.
* **Crash and restart.** Games and drafts are restored from SQLite, games from
  snapshots that detached tasks wrote in any order, with codes that are reused; the Durable Object is
  evicted between frames and restored from a snapshot while sockets live on.
* **Timeouts.** Pick timers race the last pick; reconnect grace races the
  reconnect, late closes race replacements; liveness clocks are quantised; reservations lapse unobserved.
* **Long sequences of legal calls.** Winston endgames, uneven boosters,
  additional picks, corrected match results, rematch avoidance over rounds.

`PROJECT.json` lists each hazard at its line, with the properties that would
catch it, or a note why none does.

## 2. Modules

| module | models | run by |
|---|---|---|
| `CardDraft` | the abstract draft: the deal is on the table, seats gain cards and may put some back | refined by the next two |
| `SharedStack` | the Winston draft: deal, take, decline, forced draw, history, notices, reveal, import check | `MCSharedStack` |
| `PickPass` | boosters, picks of one or two cards, the additional-pick effect, passing, the next booster | `MCPickPass` |
| `SwissPairing` | the pure pairing algorithm with backtracking and bye | `MCSwissPairing` |
| `DraftTournament` (extends `SwissPairing`) | pairings, results with corrections, rounds, brackets | `MCDraftTournament` |
| `DraftPickClock` | timer tasks, handle storing, re-arming, grace sweep, reconnects, restart | itself |
| `LobbyBroker` | listings, identities, liveness, reservations, both shells' sweeps, snapshots, eviction | `MCLobbyBroker` |
| `LobbyFeed` | the frames of broker calls, their delivery, the client's list | itself |
| `GameRoom` | one game's seats, reservations, sockets, kicks and renumbering, grace records and the sweep | `MCGameRoom` |
| `FullPersistence` | the sessions a game code holds over time, in memory and on disk | `MCFullPersistence` |
| `Takeback` | actions, the AI driver, the two rings, votes, broadcasts and replays | `MCTakeback` |
| `SharedStackProofs`, `PickPassProofs`, `DraftPodProofs` (clock, pairing and event), `LobbyBrokerProofs`, `LobbyFeedProofs`, `GameRoomProofs`, `FullPersistenceProofs`, `TakebackProofs` | theorems | tlapm |

The three game modules look at one session from three sides and share its
operations: a join, for instance, is a seat and a token in `GameRoom` and a new
revision with a detached write in `FullPersistence`.

Conventions. Definitions keep the source's names where they have one. A refused
request that changes nothing is a stuttering step. Variables marked *history*
in a declaration are read by no action. Operators named `Def_Variant` with a
comment `Mutant:` are the plausible bugs each property is tested against:
replacing `Def` by `Def_Variant` makes TLC find the property violated.

### CardDraft

What a draft owes its players whatever its format: `Start` puts the deal on the
table, `Gain` moves cards from the table to one seat's pool and possibly some
back, and the draft ends with an empty table. `SharedStack` and `PickPass` each
instantiate it (`Draft == INSTANCE CardDraft WITH ...`: the table is the main
stack with the piles, or all boosters, opened or not). `ImplementsCardDraft`,
that every step of the detailed draft is a step or a stutter of the abstract
one, is checked by TLC and proved for both formats; that it conserves cards
(`Draft!Conserved`) is proved of each format through this refinement.

### SharedStack

One action per outcome of `apply_shared_stack_decision` (`TakePile`,
`DeclinePile`, `DeclineFinalPile`), `StartDraft`, and `DriveStalledSeat`, which
is what the pick timer does for a seat that does not decide
(`pick_random_for_seat` applies `forced_decision`). The stack is a sequence
whose last element is the top, as in the code. `Revealed` is the view of a seat
and `ValidPersistedSnapshot` the import check, without the comparisons of fields
that no decision changes (the configuration, the size of the pod). No guard
looks at a card, so TLC uses one order of each deck; the theorems hold for every
set of decks.

### PickPass

`Pick` is `apply_pick_inner` followed by `finish_pick`: the round is complete
when every seat that owes a pick has picked, then boosters and their origins
rotate or the next boosters are opened. `PickWithDraftEffect` returns the
effect card to the booster. `AutoPick` is the timer's pick. `cardsPerPick` is
fixed by the kind of the session: one card, or two in Commander Draft. Boosters
come from the constant `Deals`; `DealAssumption` says that the generator
delivers non-empty, disjoint boosters.

### SwissPairing and DraftTournament

`PairPool` is a recursive function on the number of frames that
`pair_pool_avoiding_rematches` has left; `FirstFit` is the loop of one frame, in
the code's search order. `MCSwissPairing` compares it with a reference
that enumerates all matchings. In `DraftTournament` the pairings are a sequence
of rounds in table order (the code keeps one list and filters it by round), and
a `match_id` is a round and a table of it. `ReportMatchResult` undoes the previous result
by the winner `result_winner` gives, as the code does, and applies the new one.
The history variable `misread` records that a draw was undone as somebody's win.

### DraftPickClock

Every step between two awaits is one action: a handler's pick, the re-arm it
spawns after broadcasting (`rearming`), the timer's expiry and its firing, its
re-arm of itself, and the task that stores a handle and aborts the previous
timer. What a pick does to boosters is abstracted: a window is a number and
every seat owes one pick in it. Expiry of a timer comes after its handle was
stored: the storing task is spawned seconds before the countdown ends. Displayed
remaining time is left out, and so are durations.

### LobbyBroker

One action per frame. Every frame first refreshes the sender's liveness clock.
Ages are relative and stop one past the timeout; a reservation has time left.
The variable `durable`, which never changes, is the shell: with it every frame that may have changed the
broker writes a snapshot and ensures the alarm, `Reap` is the alarm, `Evict`
restores the snapshot; without it the sweep is `Report` then `ConsumeExpired`,
which splits the report as phase-server's registry of games does: a listing
whose host still waits in the room is refreshed, one whose game is busy is left
for the next sweep, and the rest is consumed.
Build-commit and password gates refuse without effect and are left out, as are
private listings; tokens nobody refers to stand for fresh ones. The tournament
registry, which shares the snapshot and the alarm, is taken to be empty.

### LobbyFeed

Every broker call returns frames into the outbox of its task. Of a reported
registration the sweep either consumes the listing (`Consume`) or lets it be
(`Spare`). In the Durable
Object no call begins before all frames are sent; in phase-server `Send` steps
of different tasks interleave, because each frame takes the subscriber lock by
itself. `Shown` is the client's reducer. Frames to one socket keep their order,
so the client reads a frame when it is sent. There is one subscriber, which
finds a slot in the subscriber set.

### GameRoom

Seats carry a token and a connected flag; `routes` is the connections map,
keyed by seat number; `identity` is what each socket task remembers;
`grace` is `ReconnectManager`, keyed by seat number. `Join` and `Attach` are two
actions because the session's lock is released between them; `SetKind` and
`Evict` likewise for a kick. `RemoveSeat` renumbers seats, tokens and
reservations and, like the code, neither routes nor identities nor grace
records; the ghost `strayed` holds the tokens this or a late `Evict` cut off.
A socket is a model value that is used again once nothing refers to it. The
sweep reports under one lock and reaps under another. `Restart` restores the
newest snapshot; older ones are the business of `FullPersistence`. By
`AbsenceIsTimed` the host's seat is connected or in grace, so the retire branch
of `handle_expired_lobby_games` never applies to a room with a record; it is
left out.

### FullPersistence

A session is its generation, a revision, and whether it has started and is
over. The row of the code, the high-water mark and the results are the three
tables; each GameDb transaction is one guard with one update (`SaveApplies` is
the WHERE clause of the upsert). A handler looks the session up (`Lookup`), and
acts once it has the session's lock (`Locks`), by then perhaps on a session that
left the registry. `Commits` leaves a write in `saves`, which `Write` applies
at any later time or `WriteFails` loses. Ends of games run in three steps
(`EndGame`, `PrepareEnd`, `RemoveFinished`), an abandonment keeps the lock
across its preparation, and the sweep has its own three steps. `remove_game`
goes by code: the ghost `blind` holds the games in play that went because
somebody meant another one or could not read the disk. The properties do not
excuse these: such a game must stay on disk, active and with a snapshot, until
the next start. `Restart` deletes a stale row, restores an active one (perhaps
ending the game at once), or leaves it alone: there is nothing to restore, or
restoring failed. The authority of sockets is in `GameRoom`; here `Refused` may
happen at any time.

### Takeback

A game state is the sequence of steps that led to it, each with the seat that
took it; so that a rollback is a prefix and a discarded branch is recognisable.
`Moves` (stay, next turn, skipped turn, next game) is all the module knows of
the rules engine. `HandleAction` is the whole handler: push, apply, observe the
transition, run the AI. Conceding a match and resuming a stack automation are
transitions that record no entry, and so among those of `HandleAction` with
`counts` FALSE. A vote is stored with its target; `Resolve` rolls back
and lets the AI follow up. `Broadcast` is a step of its own, after the lock.

## 3. What the runs check

| run | instance | shows |
|---|---|---|
| `shared_stack` | 3 seats, 3 piles, decks of 1 to 11 cards, history of 4 | the draft implements `CardDraft`; every reachable session passes the import check, which demands a legal decision of the active seat; the history and notices tell the table what happened, hidden cards stay hidden, the timer alone ends the draft |
| `pick_pass` | 3 seats, picks of one and of two cards, 2 boosters of up to 4 cards, equal, odd and unequal, with and without an effect card | the draft implements `CardDraft`, no stall, equal shares, origins, the draft ends |
| `swiss_pairing` | pods of 2 to 6 players, every history of up to 4 rounds | no avoidable rematch, standings order, lowest admissible bye |
| `draft_tournament` | Swiss pods of 2, 3, 4; brackets of 4 and 8; any corrections | tally, tables, bracket follows corrections, the event ends |
| `tournament_tally` | Swiss pod of 2 | **violation**: correcting a draw takes a win from a player who had one |
| `pick_clock` | 2 seats, 3 windows, 4 timer identities, 2 disconnects, 1 restart | timers never pile up, no abort stops the last clock, reconnected seats keep no grace record and the sweep never picks for somebody who is back, a clock finishes the draft |
| `lobby` | both shells; 2 sockets, 2 codes, 2 tokens, tables of 3, 2 registrations, evictions anywhere | identities, liveness, no leaked or doubled seats, only rightful removals; in the Durable Object an eviction loses nothing and the alarm is set while anything is listed |
| `lobby_feed` | both shells; 2 sockets, 2 codes, 4 stamps, 2 subscriptions | frames say exactly what calls did, the two-step sweep included; in the Durable Object the subscriber's list is exact |
| `game_room` | 3 seats, 2 of them required, 3 sockets, 3 tokens, 1 restart | nobody is missing unnoticed, no reservation takes a seat from anybody, a late close hurts nobody |
| `room_stale_grace` | the same room | **violation**: a game in which everybody is connected is ended for a disconnect |
| `full_persistence` | 2 handlers, 2 sessions, 2 revisions, 2 restarts | what memory holds, or lost unseen, is recoverable; the disk never goes back; no result is owed |
| `takeback` | 2 humans and an AI, rings of 2, 3 transitions, 3 turns, 1 AI result per run, single-user hosting | rollbacks reach live branches only, by everybody's consent, and every vote can be answered |

The findings of `PROJECT.json` quote, for each violation, the line of the
repository that says otherwise.

Bounds. Three seats are the fewest for which left and right differ and a seat
may be between two others; eleven cards give every pile a refill, a second
round of declines and an endgame with empty piles; a history of four is
exceeded. Two boosters show both pass directions. Two sockets suffice for a
listing, its reclaimer and a guest, because a socket may be all three in turn;
two registrations let a code be reaped or withdrawn and claimed by the other
socket, or by the same one, while the first stamp lives on. With
two sockets the entry limit of two is not reached; its refusal has the effect
of the refusal of a taken code, which is. The timeout of 3, quantum of 2 and
lifetime of 1 keep the order of the real 300, 60 and 120 seconds as far as the
code compares them: a quantum is less than the timeout, and a reservation ends
before its listing. The
bounds on generations, stamps, subscriptions, disconnects and restarts appear
in guards only. Three sockets, seats and tokens give a room a host, a guest and
a replacement, and a renumbering that moves somebody; a second session of the
code and two handlers are what a late writer, waiter or remover needs to meet
the wrong one, and two revisions order two late writes; of two restarts the
first may fail to restore what the second finds. Two disconnects let one player
come back while the sweep holds the records of both. Three transitions
overflow rings of two. Single-user hosting has both rings; a shared server
records no turn, and its behaviours are among those without a rewind to a turn.
Symmetry (sockets, codes, tokens, handlers, humans) is used in safety runs only.
Deadlock checking is off where the system may stop: a draft or an event that is
over, a feed that has used up its stamps, a room that is gone, a code or a match
that has used up its bounds.

Fairness. In the drafts, weak fairness of the timer's pick only: the timer task
re-arms itself while the session drafts. In `DraftPickClock`, weak fairness of
spawned tasks (the runtime runs them) and of the sweep's second half; of
players, connections and restarts nothing is assumed. In `DraftTournament`, the
host reports open matches and asks for the next round; corrections may go on
for ever. The lobby and game modules state safety only (players owe nobody an
action, and whether a grace period ends a game depends on who returns): that
a player who is gone is acted upon is reduced to `AbsenceIsTimed`, a record
being there for the sweep that runs every ten seconds; that silent
hosts go is reduced to `ReaperAwake`, the alarm being set while a listing is
left; that a set alarm fires is the platform's promise.

## 4. What is proved

`SharedStackProofs`, for any number of seats (two or more) and piles, any decks
whose cards are distinct and any history capacity, from the module's named
assumptions:

* `TypeCorrect`: the type invariant. It is inductive by itself.
* `PilesRefilled`: while the main stack is non-empty every pile is non-empty.
  A take refills from the stack and a decline only adds, so the invariant
  together with the types is inductive.
* `NeverStuck`: while drafting the active seat has a legal decision. The
  inductive strengthening is `CardAtOrAfterCursor`: some pile at or after the
  cursor holds a card. A decline is refused unless the card it needs is
  guaranteed, so moving the cursor keeps it; ending a turn without such a card
  ends the draft.
* `AlwaysRestorable`: every reachable session passes the import check. Beside
  `NeverStuck` it takes `SeenInv` (nothing after the cursor was inspected, and
  never more of a pile than it holds) and that the history keeps its capacity.
* `StackImplementsDraft`: the refinement of `CardDraft`. The mapping forgets
  the order of stack and piles, so that a decision is a move of cards only as
  long as no card lies in two places: `TableInv` says that the main stack holds
  no card twice and shares none with a pile, nor a pile with another.
* `StackConserves`: the deal is at all times the disjoint union of the table and
  the pools. It is an invariant of the abstract draft, in which a `Gain` moves
  cards between the two, and carries over by `StackImplementsDraft`.
* `TableAlwaysTold`: the invariant `TableTold`. Its three parts are inductive
  with the types: a decision changes the last recorded height of one pile, and
  pushing the history out at its capacity forgets a seat's oldest entry only.
* `NothingLeaks`: the action property `DrawnCardStaysHidden`, from `SeenInv`,
  `TableInv` and the fact that a turn passes to another seat: the card drawn
  lies above what its drawer had inspected.

`PickPassProofs`, for any number of seats, both kinds of picks and any deals
that satisfy `DealAssumption`. `PassInv` adds to the types that cards are in one
place, that unopened boosters are non-empty and as many as there are rounds to
come (`Good`, `RoundsLeft`), and that the round is not complete between steps:

* `NeverStalls`: the invariant `SomeoneOwesPick`. An incomplete round has a seat
  that owes a pick, and a round that completes ends in a pass of a non-empty
  booster, in opening boosters that are non-empty, or in deckbuilding;
* `PassImplementsDraft`: the refinement of `CardDraft`. Passing permutes the
  boosters and opening only moves cards within the table; `PassConserves`
  follows as for the shared stack;
* `OriginsTravel`: the invariant `OriginTellsPack`. `OriginInv` adds that the
  unopened boosters are the later ones of the deal;
* `SharesEqual`: the invariant `FairShare`. `SharesInv` adds how many cards
  each booster has left: as many as its size less the picks of the seat that
  holds it, which a pass keeps because all seats have then picked equally
  often. Cardinalities come from `FiniteSetTheorems`.

`DraftPodProofs` has three parts. The pick clock, for any sets of seats and timer identities and any
number of windows, disconnects and restarts:

* `ClockInvariant`: `ClockInv` is inductive (`TypeCorrect` is its type part). Beside types it says that a
  started draft is within its windows (`PodInv`), that a timer whose handle is
  still to be stored is not the stored one and counts down while the draft goes
  on (`StoringInv`), and `NoTimerPileUp`.
* `NoPileUp`: every live timer is the stored one or about to be stored.
* `NoGraceForConnected`: the invariant `ConnectedHasNoGrace`.
* `SweepSpares`: the action property `SweepSparesConnected`. The records the
  sweep holds may be out of date; it picks only for those of them that are not
  connected when it acts, and a pick for others that completes the window opens
  the next one with everybody's pick still owed (`PickedSpares`).
* `ClockKept`: the action property `ClockNeverStops`. The abort in
  `StoreHandle` may kill the only stored clock, but by `StoringInv` the one it
  stores then counts down.

The Swiss pairing, for pods of any size and any set of earlier pairs (from
`PodSizesAssumption`: sizes are numbers). The search recurses on sequences;
`PairPoolFrames` turns it into a sequence of frames, each computed from the one
before, and the induction is over the number of a frame, on sets of numbers
(`CountUp`):

* `SearchIsExact`: what the comment on `pair_pool_avoiding_rematches` claims. A
  frame is sound because one more table completes a round of the rest, and
  complete because a matching gives the first player a partner without whom the
  others still have one: a dead end is left again, never settled for;
* `RematchesAvoided`, `StandingsOrderKept`, `ByeAtTheBottom`: the invariants
  `NoAvoidableRematch`, `StandingsOrderFirst` and `ByeAsLowAsAllowed`. The
  enumerated rounds of the reference are shown to be the perfect matchings
  (`RoundIsMatching`, by counting: pairs that cover twice as many players as
  there are pairs are disjoint), and the found one is compared with any other at
  the first player on whom they differ (`Better`).

The event, for any set of `Events` that `EventsAssumption` allows (Swiss pods of
two or more, brackets of 4 and 8), any number of rounds and any corrections.
`EventInv` is inductive. Beside the types it says of every round that its tables
have two players each and are disjoint, and in Swiss leave out as many players
as the bye takes (`SeatsOK`), that a completed table of a bracket has one of its
players as winner (`TablesOK`), that a bracket's rounds have 1, 2 or 4 tables
and seat the winners of the round before (`Bracket`), and that a round after
which pairing is allowed is complete and not the final (`MayFollow`: a
correction reopens nothing, because a reported table stays complete). From it:

* `EventTypes` and `TablesOfARound`, the invariant `OneTablePerRound`: a Swiss
  round is what `PairSwissSound` says of the search; a bracket's is made of
  neighbouring winners, who are distinct because their tables were disjoint;
* `BracketFollowsResults`: the invariant `BracketSound`. Corrections reach only
  the last round, so that the winners a round was made of are final;
* `StandingsCount`: the invariant `RecordsTallyUnlessMisread`, inductive with
  `EventInv`. A report changes one table, so a tally changes by what that table
  was and is (`TallyOfResult`). A result that is read right was counted, so the
  saturating subtractions of `undo_match_record_result` never reach below zero
  (`UndoneTally`).

`LobbyBrokerProofs`, for any sockets, codes and registrations, any finite set of
tokens (`TokensAssumption`), table sizes and times in the order of
`TimesAssumption`, and both shells. The inductive invariant `LobbyInv` has,
beside the types:

* `IdentityInv`: the generations of listings and of stamps are below `nextGen`,
  so that a registration is given none that is in use;
* `StampIsOwn`, `EvictionLosesNothing` and `ReaperAwake`, which need each other:
  an eviction restores identities that stamps of living sockets refer to, and
  the alarm is set with the snapshot;
* `ClosedInv`: a closed socket hosts nothing, and the Durable Object has no
  report pending;
* `AgeInv`: a listing is older than its host's silence by less than a quantum,
  because activity within a quantum of the recorded one is not recorded.

From it follow `StampsAreOwn`, `NothingEvicted`, `ReaperStaysAwake`,
`TalkingHostKept` (`LiveHostKept`) and, step by step, `RemovalsAreRight`, the
action property `RemovedRightly`. `SeatsAreHeld` (`SeatsHaveHolders`) needs
`SeatsInv` on top: closed sockets hold nothing, every reserved (code, token) is
held by a socket, no two sockets hold the same, and none holds two of a code.

`LobbyFeedProofs`, for any sockets, codes, stamps and subscriptions and both
shells (`TasksAssumption`: the viewer, the sweep and the sockets are different
tasks):

* `DeltasAlwaysExact`: the action property `DeltasExact`. Each broker call is
  shown to be a `Call`: it returns at most two frames, and these, applied to the
  listings before it, give those after it. A closing socket may announce the
  seat it gave back before its own removal because these are different listings;
* `FeedAlwaysExact`: the invariant `FeedExact`. `FeedInv` says in the Durable
  Object that at most one task has frames to send, and that a client which
  listens is either about to be added with a snapshot of the present listings,
  or subscribed and off by exactly the frames that are still to be sent.

`GameRoomProofs`, for any number of seats, sockets, tokens and restarts
(`RoomAssumption`). `RoomInv` is inductive: `ReservationsFit`, `AbsenceIsTimed`,
that a token was issued once and is at one seat (`TokensInv`), and that a socket
between join and attachment speaks for no seat (`JoiningInv`). From it:

* `ReservationsHold`: the invariant `ReservationsFit`;
* `AbsenceTimed`: the invariant `AbsenceIsTimed`. Each step that clears a route
  or a record leaves the seat another of the three ways to be accounted for;
* `CloseHarmless`: the action property `LateCloseHarmless`, about seats with a
  player.

`TakebackProofs`, for any humans and AI seats, either hosting, rings of any size
and any number of transitions and AI results (`TableAssumption`, and
`NothingAssumption`, that the value for "no vote" is no vote):

* `RollbackAlwaysSound`: the invariant `RollbackSound`. It is not inductive: a
  rollback makes the target the present state, so what the rings keep must be
  ancestors of the target. `SoundSession` says that both rings are chains of
  ancestors, the turn ring with increasing turns, in the game the session is in;
  `Played` that the path tells whose each action on offer is, and that new steps
  are told apart from old ones; `VoteTarget` that the vote's target is still one
  the session offers;
* `VoteAlwaysShown`: the invariant `VoteIsShown`;
* `ConsentRequired`: the action property `OnlyByConsent`, from the same
  invariant: what is discarded starts with the requester's latest action because
  every later one in the ring is somebody else's.

The turn ring is filtered by a recursive function (`RetainedUpTo`) and the AI
run is a sequence of any length. The induction over these that the proofs need
is done on sets of numbers: `LeastNumber` gives a set of naturals its least
element, `SetInduction` the induction, and `RecursionSolved` that such a
recursive function satisfies its equation.

`FullPersistenceProofs`, for any set of handlers and any number of sessions,
revisions and restarts (from `BoundsAssumption` and `NoneAssumption`):

* `Recoverable`: the invariant `LiveIsRecoverable`;
* `ForwardOnly`: the action property `DiskMovesForward`;
* `NothingOwed`: the action property `RemovalOwesNothing`.

`LiveIsRecoverable` is not inductive. `RowInv` adds that without a row nothing
is under way and that a row never saved is at revision 0 (so that its first
snapshot is no step back); `KnownInv` that writers, handlers, the sweep and
retirements speak of created sessions only, and that the registered session is
not among those to be retired; `VerdictInv` that whoever is about to remove a
session has recorded its result. Together (`Inv`) they are inductive. The heart
of it is that a generation is bound on disk before it is registered, and only
when the previous row is retired: a late write or retirement of an older
session then never matches the row. `KeptInv`, proved on top of `Inv`, is the
last part of `LiveIsRecoverable`: a game that was removed unseen keeps its row.
Whoever could still take it, a result, a retirement or a new session of the
code, speaks of another generation or needs the row to be retired first. The two
action properties follow step by step from both.

Only model-checked: liveness under fairness (`DraftEnds` of both drafts,
`EventEnds`, `ClockDrivesDraft`), which is out of the prover's reach. All invariants and action
properties of the passing runs are also theorems, and so are the refinements.

## 5. What is not modelled

* The rules engine, the parser and the card data: a sequential reducer over a
  state far beyond a model checker, and by far most of the repository's lines.
  The game modules leave open what an action does to a game, except for turns,
  the next game of a match and the end.
* Booster generation and deck validation: pure functions of card data.
* Frames as bytes: parsing, wire guards, version gates, telemetry, statistics.
* Deck submission and the switch of seats to bots; the lobby broker's
  tournament registry; the browser host of drafts and games; spectators.
* Persistence of drafts: rows without revisions, replaced by whichever write
  comes last. Of games: the activation epochs of single-user hosting, the
  delivery and acknowledgement of results per player, ratings.
* Panics: a blocking task that panics is reported as a failure after the
  commit, which `PrepareEndFails` includes; poisoned state is not modelled.

Remarks that are not findings, about behaviour the models have:

* A pick timer that expires while the last pick of its window is handled takes
  the lock before the task that aborts it and picks in the window that has just
  opened (`DraftPickClock`, `Fire`).
* A restored drafting pod has no timer and no reconnect records until a player
  completes a window; `ClockDrivesDraft` is about a timer once armed.
* A lapsed lobby reservation counts as a taken seat until somebody tries to
  reserve or the host sends metadata (`LobbyBroker`, `Occupied`).
* In phase-server the frames of different tasks may overtake each other, and a
  subscriber's list then stays wrong until the listing changes again;
  `FeedExact` is about the Durable Object.
* A socket that waited for the lock of a retired session joins or changes a
  session nobody will find again; its write is refused by the row.
* After a result was recorded but its deliveries could not be read, the
  finished session stays in the registry (`PrepareEndFails`) until the sweep.
* A row bound by a creation that failed keeps its code taken until it is stale.
* Any seat change of the host drops all reservations, because a reserved seat is
  still a waiting one; the renumbering of reservations has no effect.
* A guest whose seat was renumbered keeps the old number in its socket and its
  route, and cannot act before it reconnects (`strayed`); nor can a guest that
  took the seat of a kicked player before the kick's second half ran (`Evict`).
* A prompt of a vote and its cancellation by another handler may cross on the
  way (`overtaken`), and the client shows what arrives last.
* Replacing the last human without a deck by a bot leaves the session in
  `Deckbuilding`; pairing accepts that status, so that the event goes on.
* `handle_disconnect` of drafts uses the manager's default grace although
  `draft_grace_period` is documented as depending on the phase; a pick by the
  grace sweep does not re-arm the timer, which shortens the next window.
* A refused re-registration leaves a lobby host without a listing; a generated
  lobby code is not looked up before it is used, so that a collision replaces a
  listing (`RemovedRightly` allows it).
* `PickStatus::Pending` is documented as "hasn't picked yet" (`types.rs:46`), but
  `pick_status_for` shows it for every seat that holds a booster, picked or not,
  which `view.rs:3097` pins.

## 6. Plan

Done, in this order: `SharedStack` with proofs, `PickPass`, `SwissPairing` and
`DraftTournament`, `DraftPickClock` with proofs, `LobbyBroker`, `LobbyFeed`,
`CardDraft` and its two refinements, `Takeback`, `GameRoom`, `FullPersistence`
with proofs, the proofs of `LobbyBroker` and `PickPass`, the two refinements and
the safety of `SharedStack`, the proofs of `GameRoom`, `Takeback` and
`LobbyFeed`, and of the pairing search, the rounds and the standings.

The project keeps to about a dozen runs and forty properties; a new module
takes the place of a weaker property or shares a run, as the two shells do.

Next:

1. `LobbyTournament`: the broker's tournament registry with credentials and its
   three lifecycle clocks, sharing the snapshot of `LobbyBroker`.
2. `DraftLifecycle`: lobby, seats and bots, start, deck submission, hand-over to
   the tournament.
