------------------------------ MODULE Takeback -----------------------------
(***************************************************************************)
(* Rolling a game back: server-core's takeback.rs, the handlers of         *)
(* GameSession that feed it (handle_action, handle_interaction, run_ai)    *)
(* and phase-server's RequestTakeback, RespondTakeback, CancelTakeback and *)
(* Reconnect arms.                                                         *)
(*                                                                         *)
(* A handler changes the session under the session's lock and broadcasts   *)
(* after it has released it, so a broadcast is a step of its own that may  *)
(* come late.  A game state is the transitions that led to it: what the    *)
(* rollback machine must get right is which states are ancestors of which. *)
(* A refused message changes nothing and is a stuttering step.             *)
(***************************************************************************)
EXTENDS Integers, Sequences, FiniteSets, SequencesExt

CONSTANTS
    Humans,                 \* human_seats()
    AiSeats,                \* ai_seats
    Hostings,               \* the hosting modes to explore
    MAX_TAKEBACK_HISTORY,
    MAX_TURN_REWIND_HISTORY,
    MaxTransitions,         \* bound: transitions made in a behaviour
    MaxTurn,                \* bound: turns of a game
    MaxAiResults,           \* bound: results of one AI run
    Nothing                 \* None

ASSUME TableAssumption ==
    /\ Humans # {} /\ Humans \cap AiSeats = {}
    /\ Nothing \notin Humans \cup AiSeats
    /\ Hostings \subseteq {"Shared", "SingleUser"}
    /\ MAX_TAKEBACK_HISTORY \in Nat /\ MAX_TAKEBACK_HISTORY >= 1
    /\ MAX_TURN_REWIND_HISTORY \in Nat /\ MAX_TURN_REWIND_HISTORY >= 1
    /\ MaxAiResults \in Nat

VARIABLES
    hosting,    \* session.hosting
    game,       \* the rewind-relevant part of the session, see Sessions
    fault,      \* ai_driver_fault.is_some()
    pending,    \* pending_takeback, or Nothing
    connected,  \* the human seats with a current socket
    outgoing,   \* per human, what its handler has yet to broadcast
    prompt,     \* per human, whether its socket was last told of a vote
    overtaken   \* ghost: the last broadcast was out of date when it was sent

vars == <<hosting, game, fault, pending, connected, outgoing, prompt, overtaken>>

---------------------------------------------------------------------------
(* Game states and transitions.                                            *)

States == [game : Nat, turn : Nat,
           path : Seq([id : Nat, by : Humans \cup AiSeats, counts : BOOLEAN])]

\* What rollback concerns of a GameSession; `made` only bounds the model.
Sessions == [state : States, history : Seq([by : Humans, state : States]),
             turns : Seq(States), rewindGame : Nat, made : Nat]

\* PendingTakeback
Requests == [by : Humans, target : [state : States, keep : Nat], approvals : SUBSET Humans]

ASSUME NothingAssumption ==
    Nothing \notin Requests /\ Nothing \notin {"Requested", "Resolved"}

\* A transition moves within the turn, into the next turn, over a skipped
\* turn, or into the next game of the match.  Conceding the match, and a stack
\* automation that is resumed, are observed like any transition and record no
\* entry: what they do to the rings is what a transition with counts = FALSE does.
Moves == {"stay", "turn", "skip", "game"}

\* The state after a transition that is the n-th ever made; `counts` tells a
\* recorded action from an actor-scoped preference.
After(state, n, seat, counts, move) ==
    [game |-> IF move = "game" THEN state.game + 1 ELSE state.game,
     turn |-> CASE move = "stay" -> state.turn
                [] move = "turn" -> state.turn + 1
                [] move = "skip" -> state.turn + 2
                [] move = "game" -> 1,
     path |-> Append(state.path, [id |-> n, by |-> seat, counts |-> counts])]

\* The turn number of the last TurnStarted event of the batch; 0 for none.  A
\* skipped turn increments the number and announces nothing.
Announced(state, move) ==
    CASE move = "stay" -> 0
      [] move = "turn" -> state.turn + 1
      [] move = "skip" -> state.turn + 1
      [] move = "game" -> 1

\* The transitions within the bounds of the model.
MovesFrom(g) ==
    {move \in Moves : g.made < MaxTransitions
                        /\ After(g.state, g.made, Nothing, FALSE, move).turn <= MaxTurn}

Ancestor(old, new) == IsPrefix(old.path, new.path)

---------------------------------------------------------------------------
(* The two rings.                                                          *)

OffersTurnRewind == hosting = "SingleUser"

\* pop_front at capacity, then push_back.
Pushed(ring, entry, capacity) ==
    Append(IF Len(ring) >= capacity THEN Tail(ring) ELSE ring, entry)

PushTakebackState(g, seat, state) ==
    [g EXCEPT !.history = Pushed(@, [by |-> seat, state |-> state], MAX_TAKEBACK_HISTORY)]

RecordTurnRewindPoint(ring, announced, state) ==
    IF OffersTurnRewind /\ announced # 0 /\ announced = state.turn
    THEN Pushed(ring, state, MAX_TURN_REWIND_HISTORY)
    ELSE ring

\* observe_transition: both rings are retired at a game boundary, and only
\* then is the turn boundary recorded.
ObserveTransition(g, announced, state) ==
    LET kept == IF state.game # g.rewindGame
                THEN [g EXCEPT !.history = <<>>, !.turns = <<>>, !.rewindGame = state.game]
                ELSE g
    IN  [kept EXCEPT !.state = state,
                     !.turns = RecordTurnRewindPoint(@, announced, state)]

\* One authoritative transition, after anything handle_action pushed.
Moved(g, seat, counts, move) ==
    [ObserveTransition(g, Announced(g.state, move),
                       After(g.state, g.made, seat, counts, move))
       EXCEPT !.made = @ + 1]

---------------------------------------------------------------------------
(* run_ai: a batch of AI transitions, which may end in a fault.            *)

AiResults(g) ==
    {Moved(g, seat, FALSE, move) : seat \in AiSeats, move \in MovesFrom(g)}

\* What n further results may lead to, for the bound on n.
AiBatches(g) ==
    LET Reach[n \in 0 .. MaxAiResults] ==
          IF n = 0 THEN {g} ELSE Reach[n - 1] \cup UNION {AiResults(h) : h \in Reach[n - 1]}
    IN  Reach[MaxAiResults]

AiHolds(faulted, request) == faulted \/ AiSeats = {} \/ request # Nothing

RunAi(g, request) ==
    IF AiHolds(fault, request)
    THEN game' = g /\ fault' = fault
    ELSE /\ game' \in AiBatches(g)
         /\ fault' \in BOOLEAN

---------------------------------------------------------------------------
(* handle_action and handle_interaction, with the AI follow-up.  The sole  *)
(* difference between an action and a preference is the takeback entry.    *)

\* The socket loop of a seat handles one message at a time, broadcast included.
Ready(h) == h \in connected /\ outgoing[h] = Nothing

MayAct(h) == Ready(h) /\ ~fault /\ pending = Nothing

HandleAction(h, counts, move) ==
    /\ MayAct(h)
    /\ move \in MovesFrom(game)
    /\ LET pushed == IF counts THEN PushTakebackState(game, h, game.state) ELSE game
       IN  RunAi(Moved(pushed, h, counts, move), Nothing)
    /\ UNCHANGED <<hosting, pending, connected, outgoing, prompt, overtaken>>

---------------------------------------------------------------------------
(* request_takeback, respond_takeback, cancel_takeback.                    *)

\* Mutant: the latest action of anyone.
OwnEntries_Anyones(h) == DOMAIN game.history

OwnEntries(h) == {i \in DOMAIN game.history : game.history[i].by = h}

\* What a request of h may target: the state before its own latest recorded
\* action, or the start of a turn on offer; with what remains of the history.
LastActionTargets(h) ==
    {[state |-> game.history[i].state, keep |-> i - 1] :
       i \in {j \in OwnEntries(h) : \A k \in OwnEntries(h) : k <= j}}

\* partition_point: the entries from before the turn come first.
KeepBefore(turn) ==
    Cardinality({i \in DOMAIN game.history : game.history[i].state.turn < turn})

TurnStartTargets ==
    {[state |-> game.turns[i], keep |-> KeepBefore(game.turns[i].turn)] :
       i \in {j \in DOMAIN game.turns : OffersTurnRewind}}

Targets(h) == LastActionTargets(h) \cup TurnStartTargets

Unanimous(approvals) == Humans \subseteq approvals

\* turn_rewind_history.retain
RetainedUpTo(turn, ring) ==
    LET Retained[i \in 0 .. Len(ring)] ==
          IF i = 0 THEN <<>>
          ELSE IF ring[i].turn <= turn THEN Append(Retained[i - 1], ring[i])
          ELSE Retained[i - 1]
    IN  Retained[Len(ring)]

\* Mutant: the entries of the discarded branch stay.
RolledBack_KeepsHistory(g, target) == [g EXCEPT !.state = target.state]

\* try_resolve_pending_takeback: install the target, truncate the history to
\* its ancestors and retain the turns up to the restored one.
RolledBack(g, target) ==
    [g EXCEPT !.state = target.state,
              !.history = SubSeq(@, 1, target.keep),
              !.turns = RetainedUpTo(target.state.turn, @)]

\* A request or an approval by h: wait for the rest of the table, or roll back
\* and let the AI move.  Everybody is told, except of an approval that leaves
\* the vote open.
Resolve(h, request, announce) ==
    IF Unanimous(request.approvals)
    THEN /\ pending' = Nothing
         /\ RunAi(RolledBack(game, request.target), Nothing)
         /\ outgoing' = [outgoing EXCEPT ![h] = "Resolved"]
    ELSE /\ pending' = request
         /\ outgoing' = [outgoing EXCEPT ![h] = announce]
         /\ UNCHANGED <<game, fault>>

RequestTakeback(h, target) ==
    /\ Ready(h) /\ ~fault /\ pending = Nothing
    /\ target \in Targets(h)
    /\ Resolve(h, [by |-> h, target |-> target, approvals |-> {h}], "Requested")
    /\ UNCHANGED <<hosting, connected, prompt, overtaken>>

Approve(h) ==
    /\ Ready(h) /\ ~fault /\ pending # Nothing
    /\ Resolve(h, [pending EXCEPT !.approvals = @ \cup {h}], Nothing)
    /\ UNCHANGED <<hosting, connected, prompt, overtaken>>

\* A decline by anyone, or a withdrawal by the requester.
Withdraw(h) ==
    /\ Ready(h) /\ ~fault /\ pending # Nothing
    /\ pending' = Nothing
    /\ outgoing' = [outgoing EXCEPT ![h] = "Resolved"]
    /\ UNCHANGED <<hosting, game, fault, connected, prompt, overtaken>>

\* The broadcast the handler of h owes, to every socket of the game.  It is
\* overtaken if the vote has been resolved, or another raised, meanwhile.
Broadcast(h) ==
    /\ outgoing[h] # Nothing
    /\ prompt' = [g \in Humans |-> g \in connected /\ outgoing[h] = "Requested"]
    /\ overtaken' = ((outgoing[h] = "Requested") # (pending # Nothing))
    /\ outgoing' = [outgoing EXCEPT ![h] = Nothing]
    /\ UNCHANGED <<hosting, game, fault, pending, connected>>

---------------------------------------------------------------------------
(* Sockets and the process.                                                *)

Disconnect(h) ==
    /\ Ready(h)
    /\ connected' = connected \ {h}
    /\ prompt' = [prompt EXCEPT ![h] = FALSE]
    /\ UNCHANGED <<hosting, game, fault, pending, outgoing, overtaken>>

\* Mutant: the vote is not replayed to the new socket.
PromptOnReconnect_Forgotten == FALSE

PromptOnReconnect == pending # Nothing

\* The in-game Reconnect arm: the AI moves unless the table votes, and the
\* pending vote is replayed to the new socket.
Reconnect(h) ==
    /\ h \notin connected
    /\ connected' = connected \cup {h}
    /\ prompt' = [prompt EXCEPT ![h] = PromptOnReconnect]
    /\ RunAi(game, pending)
    /\ UNCHANGED <<hosting, pending, outgoing, overtaken>>

\* from_persisted: the state survives, the rings and the vote do not, every
\* socket is gone.  Which state a restart finds is FullPersistence's subject.
Restart ==
    /\ game.history # <<>> \/ game.turns # <<>> \/ pending # Nothing
    /\ game' = [game EXCEPT !.history = <<>>, !.turns = <<>>, !.rewindGame = game.state.game]
    /\ pending' = Nothing
    /\ connected' = {}
    /\ outgoing' = [h \in Humans |-> Nothing]
    /\ prompt' = [h \in Humans |-> FALSE]
    /\ overtaken' = FALSE
    /\ UNCHANGED <<hosting, fault>>

\* The session as start_game leaves it: turn 1 is not a rewind point.
Init ==
    /\ hosting \in Hostings
    /\ game = [state |-> [game |-> 1, turn |-> 1, path |-> <<>>],
               history |-> <<>>, turns |-> <<>>, rewindGame |-> 1, made |-> 0]
    /\ fault = FALSE
    /\ pending = Nothing
    /\ connected = Humans
    /\ outgoing = [h \in Humans |-> Nothing]
    /\ prompt = [h \in Humans |-> FALSE]
    /\ overtaken = FALSE

Next ==
    \/ \E h \in Humans, counts \in BOOLEAN, move \in Moves : HandleAction(h, counts, move)
    \/ \E h \in Humans : \E target \in Targets(h) : RequestTakeback(h, target)
    \/ \E h \in Humans : Approve(h)
    \/ \E h \in Humans : Withdraw(h)
    \/ \E h \in Humans : Broadcast(h)
    \/ \E h \in Humans : Disconnect(h)
    \/ \E h \in Humans : Reconnect(h)
    \/ Restart

Spec == Init /\ [][Next]_vars

---------------------------------------------------------------------------
(* Properties.                                                             *)

\* Types, and the rings within their capacities.
TypeOK ==
    /\ hosting \in Hostings
    /\ game \in Sessions
    /\ Len(game.history) <= MAX_TAKEBACK_HISTORY
    /\ Len(game.turns) <= MAX_TURN_REWIND_HISTORY
    /\ fault \in BOOLEAN /\ overtaken \in BOOLEAN
    /\ connected \subseteq Humans
    /\ outgoing \in [Humans -> {Nothing, "Requested", "Resolved"}]
    /\ prompt \in [Humans -> BOOLEAN]
    /\ pending \in Requests \cup {Nothing}
    /\ pending # Nothing => pending.by \in pending.approvals

\* Both rings are chains of ancestors of the live state within its game, the
\* turn ring strictly increasing: no state a rollback may install lies on a
\* branch the table has discarded, or in a finished game of the match.
RingsAreAncestors ==
    /\ \A i \in DOMAIN game.history :
         /\ game.history[i].state.game = game.state.game
         /\ Ancestor(game.history[i].state, game.state)
         /\ \A j \in 1 .. i - 1 : Ancestor(game.history[j].state, game.history[i].state)
    /\ \A i \in DOMAIN game.turns :
         /\ game.turns[i].game = game.state.game
         /\ Ancestor(game.turns[i], game.state)
         /\ \A j \in 1 .. i - 1 : game.turns[j].turn < game.turns[i].turn

\* While the table votes the state stands still under the vote: the target is
\* an ancestor of it, and what the rollback would keep of the history is
\* exactly the part that leads to the target.
VoteIsCurrent ==
    pending # Nothing =>
        /\ Ancestor(pending.target.state, game.state)
        /\ pending.target.keep <= Len(game.history)
        /\ \A i \in DOMAIN game.history :
             i <= pending.target.keep
               <=> /\ Ancestor(game.history[i].state, pending.target.state)
                   /\ game.history[i].state # pending.target.state

\* The rollback machine as a whole: every snapshot it holds, and the vote on
\* one of them, belongs to the game as it was actually played.
RollbackSound == TypeOK /\ RingsAreAncestors /\ VoteIsCurrent

\* The longest common part of what was played before and after a step.
Kept == LET common == {n \in 0 .. Len(game.state.path) :
                         /\ n <= Len(game'.state.path)
                         /\ SubSeq(game.state.path, 1, n) = SubSeq(game'.state.path, 1, n)}
        IN  CHOOSE n \in common : \A m \in common : m <= n

\* What a step takes back.
Discarded == SubSeq(game.state.path, Kept + 1, Len(game.state.path))

\* The first of them is h's latest recorded action.
UndoesLatestOf(h) ==
    /\ Discarded[1].by = h /\ Discarded[1].counts
    /\ \A i \in 2 .. Len(Discarded) : ~(Discarded[i].by = h /\ Discarded[i].counts)

\* Whose request h speaks on, and whether h's approval is the last it needs.
Asked(h) == IF pending = Nothing THEN h ELSE pending.by

Consented(h) ==
    IF pending = Nothing THEN Humans = {h} ELSE Humans \subseteq pending.approvals \cup {h}

TakenBackByConsent ==
    Kept < Len(game.state.path) =>
        \E h \in Humans :
           /\ Consented(h)
           /\ \/ UndoesLatestOf(Asked(h))
              \/ \E i \in DOMAIN game.turns :
                    game.turns[i].path = SubSeq(game.state.path, 1, Kept)

\* Nothing is taken back behind a player's back: play is discarded only when
\* all human players but the one now speaking have approved this very request,
\* and then back to just before the requester's own latest action, or to the
\* start of a turn the session offers.
OnlyByConsent == [][TakenBackByConsent]_vars

\* A vote can be answered: once every handler has broadcast, and unless the
\* last broadcast had been overtaken by a newer one, each connected socket
\* shows the vote exactly while it is pending, also one that connected in the
\* middle of it.
VoteIsShown ==
    (\A h \in Humans : outgoing[h] = Nothing) /\ ~overtaken =>
        \A h \in connected : prompt[h] <=> pending # Nothing
============================================================================
