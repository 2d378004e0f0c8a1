---------------------------- MODULE SharedStack ----------------------------
(***************************************************************************)
(* The shared-stack ("Winston") draft of draft-core: every booster is      *)
(* shuffled into one face-down main stack which is drafted through         *)
(* PileCount face-down piles.  The active seat looks at pile 0 and either  *)
(* takes it or puts it back and moves on; a seat that declines the final   *)
(* pile receives the top card of the stack unseen.                         *)
(*                                                                         *)
(* Translated from crates/draft-core/src/shared_stack.rs, the StartDraft   *)
(* arm of session.rs, the import check validate_persisted_snapshot, the    *)
(* view projection of view.rs and the server's pick_random_for_seat.       *)
(* Seats and piles are numbered from 0, as in the code.  A refused         *)
(* decision returns before it changes anything, so it is a stuttering      *)
(* step.  A pool is a set of cards: nothing here reads its order.          *)
(***************************************************************************)
EXTENDS Integers, Sequences, SequencesExt

CONSTANTS
    NumSeats,         \* session.seats.len()
    PileCount,        \* PackDistribution::SharedStackPiles { pile_count }
    Stacks,           \* the shuffled main stacks the pack source may deliver
    HistoryCapacity,  \* SHARED_STACK_HISTORY_CAPACITY
    NoCard            \* None, in a forced-draw slot

ASSUME SeatsAssumption == NumSeats \in Nat /\ NumSeats >= 2
ASSUME PilesAssumption == PileCount \in Nat /\ PileCount >= 1
ASSUME CapacityAssumption == HistoryCapacity \in Nat /\ HistoryCapacity >= 1

Cards == UNION {ToSet(stack) : stack \in Stacks}

\* The pack source gives every card instance its own instance_id.
ASSUME StacksAssumption ==
    /\ \A stack \in Stacks : stack \in Seq(ToSet(stack)) /\ IsInjective(stack)
    /\ NoCard \notin Cards

Seats == 0 .. NumSeats - 1
Piles == 0 .. PileCount - 1
FinalPile == PileCount - 1
Decisions == {"Take", "Decline"}
Refusals == {"PileNotActive", "PileEmpty", "NoGuaranteedCard"}
NoRefusal == "None"
NoDecision == "None"
Statuses == {"Lobby", "Drafting", "Deckbuilding"}

Records == [seat : Seats, pile : Piles, decision : Decisions, pileSize : Nat]

VARIABLES
    status,        \* session.status
    mainStack,     \* face-down stack; its LAST element is the top
    piles,         \* the piles, index 0 leftmost
    startingSeat,  \* latched at StartDraft
    activeSeat,    \* whose decision is accepted
    cursor,        \* the pile activeSeat must decide on
    inspected,     \* per pile, how many cards activeSeat has seen this turn
    decisions,     \* decisions applied since StartDraft
    history,       \* the most recent HistoryCapacity decisions, oldest first
    forcedDraws,   \* per seat, its last unseen forced draw, or NoCard
    pools          \* per seat, the cards it drafted

vars == <<status, mainStack, piles, startingSeat, activeSeat, cursor,
          inspected, decisions, history, forcedDraws, pools>>

---------------------------------------------------------------------------
(* Drawing from the stack: Vec::pop and the `if let Some(card)` around it. *)

TopCard(stack) == IF stack = <<>> THEN <<>> ELSE <<Last(stack)>>

Rest(stack) == IF stack = <<>> THEN <<>> ELSE Front(stack)

\* SharedStackState { ... } as StartDraft deals it: the top card onto each
\* pile in ascending order.
\* Mutant: pile 0 dealt from one past the top of the stack.
DealtPiles_PastTheTop(stack) ==
    [p \in Piles |-> IF p = 0 THEN <<NoCard>> ELSE <<stack[Len(stack) - p + 1]>>]

DealtPiles(stack) == [p \in Piles |-> <<stack[Len(stack) - p]>>]

DealtStack(stack) == SubSeq(stack, 1, Len(stack) - PileCount)

---------------------------------------------------------------------------
(* Legality: refusal_for and forced_decision.                              *)

\* Mutant: the near-miss the code's comment warns of, a next-pile test.
LaterPileAvailable_NextPileOnly(pile) ==
    pile + 1 \in Piles /\ piles[pile + 1] # <<>>

LaterPileAvailable(pile) == \E p \in Piles : p > pile /\ piles[p] # <<>>

DeclineRefusal(pile) ==
    IF LaterPileAvailable(pile) \/ (pile = FinalPile /\ Len(mainStack) >= 2)
    THEN NoRefusal
    ELSE "NoGuaranteedCard"

TakeRefusal(pile) == IF piles[pile] = <<>> THEN "PileEmpty" ELSE NoRefusal

RefusalFor(seat, pile, decision) ==
    IF seat # activeSeat \/ pile # cursor THEN "PileNotActive"
    ELSE IF decision = "Take" THEN TakeRefusal(pile) ELSE DeclineRefusal(pile)

\* The decision a timed-out or disconnected seat is driven with: the first
\* of Take, Decline that is not refused at the cursor.
ForcedDecision(seat) ==
    IF RefusalFor(seat, cursor, "Take") = NoRefusal THEN "Take"
    ELSE IF RefusalFor(seat, cursor, "Decline") = NoRefusal THEN "Decline"
    ELSE NoDecision

---------------------------------------------------------------------------
(* apply_shared_stack_decision.                                            *)

Trim(h) ==
    IF Len(h) > HistoryCapacity
    THEN SubSeq(h, Len(h) - HistoryCapacity + 1, Len(h))
    ELSE h

\* Mutant: pile_size read after the decision moved the cards.
RecordDecision_SizeAfter(seat, pile, decision) ==
    /\ decisions' = decisions + 1
    /\ history' = Trim(Append(history,
                    [seat |-> seat, pile |-> pile, decision |-> decision,
                     pileSize |-> Len(piles'[pile])]))

\* pile_size is captured before the decision moves a card.
RecordDecision(seat, pile, decision) ==
    /\ decisions' = decisions + 1
    /\ history' = Trim(Append(history,
                    [seat |-> seat, pile |-> pile, decision |-> decision,
                     pileSize |-> Len(piles[pile])]))

\* Mutant: the previous turn's entitlement is not zeroed.
EndTurn_KeepsInspected ==
    /\ activeSeat' = (activeSeat + 1) % NumSeats
    /\ cursor' = 0
    /\ inspected' = [inspected EXCEPT ![0] = Len(piles'[0])]

EndTurn ==
    /\ activeSeat' = (activeSeat + 1) % NumSeats
    /\ cursor' = 0
    /\ inspected' = [p \in Piles |-> IF p = 0 THEN Len(piles'[0]) ELSE 0]

FinishIfExhausted ==
    status' = IF mainStack' = <<>> /\ \A p \in Piles : piles'[p] = <<>>
              THEN "Deckbuilding" ELSE status

\* A taken pile is replaced by the top card of the stack, while it lasts.
\* Mutant: it is left empty, and the card drawn for it is lost.
Replaced_LeftEmpty(pile) == [piles EXCEPT ![pile] = <<>>]

Replaced(pile) == [piles EXCEPT ![pile] = TopCard(mainStack)]

\* A pile put back grows by the top card of the stack, appended.
PutBack(pile) == [piles EXCEPT ![pile] = @ \o TopCard(mainStack)]

\* The seat is acting again: its last forced draw is no longer news.
ClearedNotice(seat) == [forcedDraws EXCEPT ![seat] = NoCard]

Accepted(seat, pile, decision) ==
    /\ status = "Drafting"
    /\ RefusalFor(seat, pile, decision) = NoRefusal

TakePile(seat, pile) ==
    /\ Accepted(seat, pile, "Take")
    /\ pools' = [pools EXCEPT ![seat] = @ \cup ToSet(piles[pile])]
    /\ piles' = Replaced(pile)
    /\ mainStack' = Rest(mainStack)
    /\ forcedDraws' = ClearedNotice(seat)
    /\ RecordDecision(seat, pile, "Take")
    /\ EndTurn
    /\ FinishIfExhausted
    /\ UNCHANGED startingSeat

\* A decline that is not of the final pile: the turn goes on at the next pile.
DeclinePile(seat, pile) ==
    /\ Accepted(seat, pile, "Decline")
    /\ pile # FinalPile
    /\ piles' = PutBack(pile)
    /\ mainStack' = Rest(mainStack)
    /\ cursor' = cursor + 1
    /\ inspected' = [inspected EXCEPT ![cursor + 1] = Len(piles'[cursor + 1])]
    /\ forcedDraws' = ClearedNotice(seat)
    /\ RecordDecision(seat, pile, "Decline")
    /\ FinishIfExhausted
    /\ UNCHANGED <<startingSeat, activeSeat, pools>>

\* Declining the final pile adds a card to it and then draws the next one,
\* unseen, into the declining seat's pool.
DeclineFinalPile(seat, pile) ==
    /\ Accepted(seat, pile, "Decline")
    /\ pile = FinalPile
    /\ piles' = PutBack(pile)
    /\ mainStack' = Rest(Rest(mainStack))
    /\ LET drawn == TopCard(Rest(mainStack))
       IN  /\ pools' = [pools EXCEPT ![seat] = @ \cup ToSet(drawn)]
           /\ forcedDraws' = [ClearedNotice(seat) EXCEPT
                                ![seat] = IF drawn = <<>> THEN @ ELSE drawn[1]]
    /\ RecordDecision(seat, pile, "Decline")
    /\ EndTurn
    /\ FinishIfExhausted
    /\ UNCHANGED startingSeat

Decide(seat, pile, decision) ==
    \/ decision = "Take" /\ TakePile(seat, pile)
    \/ decision = "Decline" /\ (DeclinePile(seat, pile) \/ DeclineFinalPile(seat, pile))

\* pick_random_for_seat: the server's pick timer drives the active seat.
DriveStalledSeat(seat) ==
    \E decision \in Decisions :
        /\ decision = ForcedDecision(seat)
        /\ Decide(seat, cursor, decision)

---------------------------------------------------------------------------
(* apply_start_draft, the SharedStackPiles arm.  `stack` is the shuffled   *)
(* main stack and `seat` the random starting seat.                         *)

StartDraft(stack, seat) ==
    /\ status = "Lobby"
    /\ Len(stack) >= PileCount       \* else InsufficientCards
    /\ mainStack' = DealtStack(stack)
    /\ piles' = DealtPiles(stack)
    /\ startingSeat' = seat
    /\ activeSeat' = seat
    /\ cursor' = 0
    /\ inspected' = [p \in Piles |-> IF p = 0 THEN Len(piles'[0]) ELSE 0]
    /\ decisions' = 0
    /\ history' = <<>>
    /\ forcedDraws' = [s \in Seats |-> NoCard]
    /\ status' = "Drafting"
    /\ UNCHANGED pools

Init ==
    /\ status = "Lobby"
    /\ mainStack = <<>>
    /\ piles = [p \in Piles |-> <<>>]
    /\ startingSeat = 0
    /\ activeSeat = 0
    /\ cursor = 0
    /\ inspected = [p \in Piles |-> 0]
    /\ decisions = 0
    /\ history = <<>>
    /\ forcedDraws = [s \in Seats |-> NoCard]
    /\ pools = [s \in Seats |-> {}]

Next ==
    \/ \E stack \in Stacks, seat \in Seats : StartDraft(stack, seat)
    \/ \E seat \in Seats, pile \in Piles : TakePile(seat, pile)
    \/ \E seat \in Seats, pile \in Piles : DeclinePile(seat, pile)
    \/ \E seat \in Seats, pile \in Piles : DeclineFinalPile(seat, pile)
    \/ \E seat \in Seats : DriveStalledSeat(seat)

\* The pick timer re-arms itself unconditionally while the session drafts, so
\* a seat that never decides is driven in the end.  Nothing is assumed of the
\* players, nor of the host starting the draft.
Fairness == WF_vars(\E seat \in Seats : DriveStalledSeat(seat))

Spec == Init /\ [][Next]_vars

FairSpec == Spec /\ Fairness
---------------------------------------------------------------------------
(* What leaves the component: the view of a seat and the import check.     *)

\* shared_stack_view's `revealed`: only the active seat sees cards, and only
\* the prefix of each pile that it has inspected this turn.
\* Mutant: the prefix re-derived from the pile's length.
Revealed_ByLength(viewer, pile) ==
    IF viewer = activeSeat /\ pile <= cursor THEN ToSet(piles[pile]) ELSE {}

Revealed(viewer, pile) ==
    IF viewer = activeSeat
    THEN {piles[pile][i] : i \in {j \in 1 .. Len(piles[pile]) : j <= inspected[pile]}}
    ELSE {}

\* validate_persisted_snapshot, the SharedStackPiles arm: what a restart or
\* an import demands of a session before it accepts it.  Left out is what no
\* decision can change: the configuration, and that pod_size is the number of
\* seats (session.rs:297).
ValidPersistedSnapshot ==
    /\ DOMAIN piles = Piles /\ DOMAIN inspected = Piles
    /\ activeSeat \in Seats /\ cursor \in Piles /\ startingSeat \in Seats
    /\ \A p \in Piles : inspected[p] <= Len(piles[p])
    /\ DOMAIN forcedDraws = Seats /\ DOMAIN pools = Seats
    /\ Len(history) <= HistoryCapacity
    /\ \A i \in 1 .. Len(history) : history[i].pile \in Piles /\ history[i].seat \in Seats
    /\ \A p \in Piles : p > cursor => inspected[p] = 0
    /\ status = "Drafting" => ForcedDecision(activeSeat) # NoDecision

---------------------------------------------------------------------------
(* Properties.                                                             *)

\* Type correctness of every field of SharedStackState and of the pools.
TypeOK ==
    /\ status \in Statuses
    /\ mainStack \in Seq(Cards)
    /\ piles \in [Piles -> Seq(Cards)]
    /\ startingSeat \in Seats
    /\ activeSeat \in Seats
    /\ cursor \in Piles
    /\ inspected \in [Piles -> Nat]
    /\ decisions \in Nat
    /\ history \in Seq(Records)
    /\ forcedDraws \in [Seats -> Cards \cup {NoCard}]
    /\ pools \in [Seats -> SUBSET Cards]

\* The joint invariant the SharedStackState struct states: a pile is refilled
\* the instant it is taken, so while the main stack is non-empty every pile
\* is non-empty.
PilesNonEmptyWhileStackLasts ==
    status = "Drafting" /\ mainStack # <<>> => \A p \in Piles : piles[p] # <<>>

\* Deadlock-freedom in the existential form refusal_for's comment asks for:
\* some pile at or after the cursor holds a card.
CardAtOrAfterCursor ==
    status = "Drafting" => \E p \in Piles : p >= cursor /\ piles[p] # <<>>

\* While drafting, the active seat always has a legal decision, whatever was
\* decided before: forced_decision never finds nothing for the timer to apply.
ActiveSeatNeverStuck ==
    status = "Drafting" => ForcedDecision(activeSeat) # NoDecision

\* No card is in two places, or twice in one.
CardsInOnePlace ==
    /\ IsInjective(mainStack)
    /\ \A p \in Piles : IsInjective(piles[p])
    /\ \A p \in Piles : ToSet(mainStack) \cap ToSet(piles[p]) = {}
    /\ \A p, q \in Piles : p # q => ToSet(piles[p]) \cap ToSet(piles[q]) = {}
    /\ \A s \in Seats : ToSet(mainStack) \cap pools[s] = {}
    /\ \A s \in Seats, p \in Piles : pools[s] \cap ToSet(piles[p]) = {}
    /\ \A s, t \in Seats : s # t => pools[s] \cap pools[t] = {}

\* The cards on the table: the main stack and the piles.
Table == ToSet(mainStack) \cup UNION {ToSet(piles[p]) : p \in Piles}

CardDraftPhase == IF status = "Deckbuilding" THEN "Done" ELSE status

Draft == INSTANCE CardDraft WITH
            Deals <- {ToSet(stack) : stack \in Stacks},
            phase <- CardDraftPhase, table <- Table

\* The draft of CardDraft is what this one implements: a take, a refill, a
\* decline and a forced draw lose or copy no card and give cards to no seat
\* but the deciding one, and deckbuilding starts exactly when nothing is left
\* to draft.
ImplementsCardDraft == Draft!Spec

\* The `inspected` contract: the pile at the cursor has been seen whole, an
\* earlier pile of this turn has been seen except for the one card its own
\* decline may have added, a later pile has not been seen at all.
InspectedContract ==
    status = "Drafting" =>
        /\ inspected[cursor] = Len(piles[cursor])
        /\ \A p \in Piles : p < cursor =>
              inspected[p] <= Len(piles[p]) /\ Len(piles[p]) <= inspected[p] + 1
        /\ \A p \in Piles : p > cursor => inspected[p] = 0

\* Hidden information: a card that leaves the main stack in a decision is
\* never revealed to the seat that took that decision.
DrawnCardStaysHidden ==
    [][status = "Drafting" =>
         \A s \in Seats, p \in Piles :
             s = activeSeat => Revealed(s, p)' \cap ToSet(mainStack) = {}]_vars

\* The retained history tells the heights on the table: a pile whose latest
\* retained record is a decline at height n has grown by the one card the
\* decline drew, one whose latest record is a take holds its refill; only
\* once the main stack is exhausted may that card be missing.
HistoryTellsHeights ==
    \A i \in 1 .. Len(history) :
        LET r == history[i]
            before == IF r.decision = "Take" THEN 0 ELSE r.pileSize
            height == Len(piles[r.pile])
        IN  (\A j \in i + 1 .. Len(history) : history[j].pile # r.pile) =>
              \/ height = before + 1
              \/ height = before /\ mainStack = <<>>

\* A seat holds a forced-draw notice exactly when its latest decision was to
\* decline the final pile, and the card in it is in that seat's pool.
ForcedDrawNotices ==
    /\ \A s \in Seats : forcedDraws[s] # NoCard => forcedDraws[s] \in pools[s]
    /\ \A i \in 1 .. Len(history) :
          (\A j \in i + 1 .. Len(history) : history[j].seat # history[i].seat) =>
            (forcedDraws[history[i].seat] # NoCard
               <=> history[i].decision = "Decline" /\ history[i].pile = FinalPile)

\* What the table is told is what happened: which cards of a pile the active
\* seat has seen, the retained history and the forced-draw notices agree with
\* the piles and the pools after every decision, however turns interleave.
TableTold == InspectedContract /\ HistoryTellsHeights /\ ForcedDrawNotices

\* A session that the reducer produced can be persisted in any state and is
\* accepted by the import check when the server restarts.
Restorable == ValidPersistedSnapshot

\* A started draft ends, even if no player ever decides: the self-re-arming
\* pick timer drives the active seat until every card is in a pool.
DraftEnds == status = "Drafting" ~> status = "Deckbuilding"
============================================================================
