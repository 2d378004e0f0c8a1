----------------------------- MODULE PickPass ------------------------------
(***************************************************************************)
(* The pick-and-pass draft of draft-core: every seat opens a booster,      *)
(* picks from it, and once every seat that owes a pick has picked, the     *)
(* boosters move to the neighbouring seat, until they are empty and the    *)
(* next ones are opened.                                                   *)
(*                                                                         *)
(* Translated from crates/draft-core/src/pick_pass.rs, the PickAndPass arm *)
(* of apply_start_draft in session.rs, PassDirection in types.rs and the    *)
(* server's pick_random_for_seat.  A refused pick changes nothing, so it   *)
(* is a stuttering step.  Boosters and pools are sets: the reducer finds a *)
(* card by its instance id, never by its position.                         *)
(***************************************************************************)
EXTENDS Integers, Sequences, FiniteSets, SequencesExt

CONSTANTS
    NumSeats,      \* session.seats.len()
    PackCount,     \* config.pack_count
    PickCounts,    \* the cards_per_pick of the kinds: 1, and 2 for CommanderDraft
    Deals,         \* what generate_packs may return: per seat, its boosters
    EffectCards,   \* the cards whose draft_effect is AdditionalPick
    NoPack,        \* None in current_pack
    NoSeat         \* None in current_pack_origins

Seats == 0 .. NumSeats - 1

CardsOf(deal) == UNION {UNION ToSet(deal[s]) : s \in Seats}

Cards == UNION {CardsOf(deal) : deal \in Deals}

ASSUME PodAssumption ==
    /\ NumSeats \in Nat /\ NumSeats >= 2
    /\ PackCount \in Nat /\ PackCount >= 1
    /\ PickCounts # {} /\ PickCounts \subseteq {1, 2}

\* Every seat is dealt PackCount non-empty boosters, and every card instance
\* has its own instance_id.
ASSUME DealAssumption ==
    /\ \A deal \in Deals :
         /\ deal \in [Seats -> Seq(SUBSET CardsOf(deal))]
         /\ \A s \in Seats : Len(deal[s]) = PackCount
         /\ \A s, t \in Seats, i, j \in 1 .. PackCount :
              /\ IsFiniteSet(deal[s][i]) /\ deal[s][i] # {}
              /\ <<s, i>> # <<t, j>> => deal[s][i] \cap deal[t][j] = {}
    /\ \A pack \in SUBSET Cards : pack # NoPack
    /\ NoSeat \notin Seats

VARIABLES
    cardsPerPick,       \* procedure().cards_per_pick, fixed by session.kind
    status,             \* session.status
    currentPack,        \* the booster each seat holds, or NoPack
    currentPackOrigins, \* the seat that opened it, or NoSeat
    packsBySeat,        \* the unopened boosters of each seat
    passDirection,
    currentPackNumber,
    pickNumber,
    pickedThisRound,    \* seats_picked_this_round
    pools,
    dealt               \* the boosters delivered; history, read by no action

vars == <<cardsPerPick, status, currentPack, currentPackOrigins, packsBySeat,
          passDirection, currentPackNumber, pickNumber, pickedThisRound, pools, dealt>>

---------------------------------------------------------------------------
(* PassDirection.                                                          *)

ForPack(n) == IF n % 2 = 0 THEN "Left" ELSE "Right"

NextSeat(direction, s) ==
    IF direction = "Left" THEN (s + 1) % NumSeats ELSE (s + NumSeats - 1) % NumSeats

\* The loop that moves f[i] to NextSeat(i), for a per-seat vector f.
PassedOn(direction, f) ==
    [d \in Seats |-> f[CHOOSE s \in Seats : NextSeat(direction, s) = d]]

---------------------------------------------------------------------------
(* Who owes a pick, and how many cards it takes.                           *)

CardsIn(pack) == IF pack = NoPack THEN {} ELSE pack

\* Mutant: the count is not clamped to what the booster still holds.
RequiredPickCount_NoClamp(s) == cardsPerPick

RequiredPickCount(s) ==
    LET n == Cardinality(CardsIn(currentPack[s]))
    IN  IF n < cardsPerPick THEN n ELSE cardsPerPick

\* Mutant: the flag is not consulted, so one seat can pick again and again.
MayPick_Repeatedly(s) == status = "Drafting"

MayPick(s) == status = "Drafting" /\ ~pickedThisRound[s]

OwesPick(packs, s) == CardsIn(packs[s]) # {}

\* Mutant: a seat whose booster is empty is waited for as well.
RoundComplete_WaitsForAll(packs, picked) == \A s \in Seats : picked[s]

RoundComplete(packs, picked) ==
    \A s \in Seats : OwesPick(packs, s) => picked[s]

---------------------------------------------------------------------------
(* finish_pick.  `packs` are the boosters after the pick, `picked` the     *)
(* flags with the picking seat's set.                                      *)

WaitForOthers(packs, picked) ==
    /\ currentPack' = packs
    /\ pickedThisRound' = picked
    /\ UNCHANGED <<status, currentPackOrigins, packsBySeat, passDirection,
                   currentPackNumber, pickNumber>>

\* Mutant: the boosters move on, their origins stay where they were.
PassPacks_OriginsStay(packs) ==
    /\ pickNumber' = pickNumber + 1
    /\ currentPack' = PassedOn(passDirection, packs)
    /\ UNCHANGED <<status, currentPackOrigins, packsBySeat, passDirection,
                   currentPackNumber>>

PassPacks(packs) ==
    /\ pickNumber' = pickNumber + 1
    /\ currentPack' = PassedOn(passDirection, packs)
    /\ currentPackOrigins' = PassedOn(passDirection, currentPackOrigins)
    /\ UNCHANGED <<status, packsBySeat, passDirection, currentPackNumber>>

OpenNextPacks(packs) ==
    /\ passDirection' = ForPack(currentPackNumber + 1)
    /\ pickNumber' = 0
    /\ currentPack' = [s \in Seats |->
         IF packsBySeat[s] = <<>> THEN packs[s] ELSE Head(packsBySeat[s])]
    /\ currentPackOrigins' = [s \in Seats |->
         IF packsBySeat[s] = <<>> THEN NoSeat ELSE s]
    /\ packsBySeat' = [s \in Seats |->
         IF packsBySeat[s] = <<>> THEN <<>> ELSE Tail(packsBySeat[s])]
    /\ UNCHANGED status

EndDraft(packs) ==
    /\ status' = "Deckbuilding"
    /\ currentPack' = packs
    /\ UNCHANGED <<currentPackOrigins, packsBySeat, passDirection, pickNumber>>

FinishPack(packs) ==
    /\ currentPackNumber' = currentPackNumber + 1
    /\ IF currentPackNumber + 1 >= PackCount
       THEN EndDraft(packs) ELSE OpenNextPacks(packs)

FinishPick(s, packs) ==
    LET picked == [pickedThisRound EXCEPT ![s] = TRUE]
    IN  IF ~RoundComplete(packs, picked)
        THEN WaitForOthers(packs, picked)
        ELSE /\ pickedThisRound' = [t \in Seats |-> FALSE]
             /\ IF \A t \in Seats : ~OwesPick(packs, t)
                THEN FinishPack(packs) ELSE PassPacks(packs)

---------------------------------------------------------------------------
(* apply_pick and apply_pick_with_draft_effect.                            *)

Pick(s, chosen) ==
    /\ MayPick(s)
    /\ OwesPick(currentPack, s)
    /\ Cardinality(chosen) = RequiredPickCount(s)
    /\ chosen \subseteq currentPack[s]
    /\ pools' = [pools EXCEPT ![s] = @ \cup chosen]
    /\ FinishPick(s, [currentPack EXCEPT ![s] = @ \ chosen])
    /\ UNCHANGED <<cardsPerPick, dealt>>

\* The pool after an additional pick: two cards in, the effect card out.
\* Mutant: the effect card is copied to the booster and kept.
PoolAfterEffect_KeepsEffect(s, effect, chosen) == pools[s] \cup chosen

PoolAfterEffect(s, effect, chosen) == (pools[s] \ {effect}) \cup chosen

PickWithDraftEffect(s, effect, chosen) ==
    /\ MayPick(s)
    /\ Cardinality(chosen) = 2
    /\ effect \in pools[s] \cap EffectCards
    /\ chosen \subseteq CardsIn(currentPack[s])
    /\ pools' = [pools EXCEPT ![s] = PoolAfterEffect(s, effect, chosen)]
    /\ FinishPick(s, [currentPack EXCEPT ![s] = (@ \ chosen) \cup {effect}])
    /\ UNCHANGED <<cardsPerPick, dealt>>

\* pick_random_for_seat, for a seat the timer or the grace period gave up on.
AutoPick(s) == \E chosen \in SUBSET CardsIn(currentPack[s]) : Pick(s, chosen)

StartDraft(deal) ==
    /\ status = "Lobby"
    /\ currentPack' = [s \in Seats |-> Head(deal[s])]
    /\ currentPackOrigins' = [s \in Seats |-> s]
    /\ packsBySeat' = [s \in Seats |-> Tail(deal[s])]
    /\ status' = "Drafting"
    /\ passDirection' = ForPack(0)
    /\ currentPackNumber' = 0
    /\ pickNumber' = 0
    /\ pickedThisRound' = [s \in Seats |-> FALSE]
    /\ dealt' = deal
    /\ UNCHANGED <<cardsPerPick, pools>>

Init ==
    /\ cardsPerPick \in PickCounts
    /\ status = "Lobby"
    /\ currentPack = [s \in Seats |-> NoPack]
    /\ currentPackOrigins = [s \in Seats |-> NoSeat]
    /\ packsBySeat = [s \in Seats |-> <<>>]
    /\ passDirection = ForPack(0)
    /\ currentPackNumber = 0
    /\ pickNumber = 0
    /\ pickedThisRound = [s \in Seats |-> FALSE]
    /\ pools = [s \in Seats |-> {}]
    /\ dealt = [s \in Seats |-> <<>>]

Next ==
    \/ \E deal \in Deals : StartDraft(deal)
    \/ \E s \in Seats : \E chosen \in SUBSET CardsIn(currentPack[s]) : Pick(s, chosen)
    \/ \E s \in Seats : \E effect \in pools[s] \cap EffectCards :
         \E chosen \in SUBSET CardsIn(currentPack[s]) :
           PickWithDraftEffect(s, effect, chosen)

\* The pick timer fires again and again while the session drafts and picks
\* for every seat that still owes a pick; players need do nothing.
Fairness == \A s \in Seats : WF_vars(AutoPick(s))

Spec == Init /\ [][Next]_vars

FairSpec == Spec /\ Fairness

---------------------------------------------------------------------------
(* Properties.                                                             *)

\* Types of the session's fields; while drafting, every seat holds a booster,
\* which may be empty, and knows who opened it.
TypeOK ==
    /\ cardsPerPick \in PickCounts
    /\ status \in {"Lobby", "Drafting", "Deckbuilding"}
    /\ currentPack \in [Seats -> {NoPack} \cup SUBSET Cards]
    /\ currentPackOrigins \in [Seats -> Seats \cup {NoSeat}]
    /\ packsBySeat \in [Seats -> Seq(SUBSET Cards)]
    /\ passDirection \in {"Left", "Right"}
    /\ currentPackNumber \in 0 .. PackCount
    /\ pickNumber \in Nat
    /\ pickedThisRound \in [Seats -> BOOLEAN]
    /\ pools \in [Seats -> SUBSET Cards]
    /\ status = "Drafting" =>
         \A s \in Seats : currentPack[s] # NoPack /\ currentPackOrigins[s] # NoSeat

\* The cards nobody has drafted: in the boosters going round or not opened.
Table == UNION {CardsIn(currentPack[s]) \cup UNION ToSet(packsBySeat[s]) : s \in Seats}

Draft == INSTANCE CardDraft WITH
            Deals <- {CardsOf(deal) : deal \in Deals},
            phase <- IF status = "Deckbuilding" THEN "Done" ELSE status,
            table <- Table

\* The draft of CardDraft is what this one implements: no pick, pass, opened
\* booster or returned effect card loses or copies a card or gives one to a
\* seat that did not pick, and deckbuilding starts exactly when nothing is
\* left to draft.
ImplementsCardDraft == Draft!Spec

\* No stall: while drafting there is always a seat whose pick the reducer
\* accepts, also when uneven boosters leave some seats with nothing to pick.
SomeoneOwesPick ==
    status = "Drafting" =>
        \E s \in Seats :
            /\ MayPick(s)
            /\ OwesPick(currentPack, s)
            /\ RequiredPickCount(s) <= Cardinality(CardsIn(currentPack[s]))

\* Number of cards in the n-th booster of every seat, when they are alike.
PackSize(n) == Cardinality(dealt[0][n])

UniformDeal ==
    \A s \in Seats, n \in 1 .. PackCount : Cardinality(dealt[s][n]) = PackSize(n)

Smaller(m, n) == IF m <= n THEN m ELSE n

\* The cards of the boosters seat 0 opened and emptied before the current one.
Emptied == UNION {dealt[0][n] : n \in 1 .. currentPackNumber}

\* The pool each seat should have after `picks` picks of the current booster.
FairPool(picks) ==
    Cardinality(Emptied) + Smaller(cardsPerPick * picks, PackSize(currentPackNumber + 1))

\* Equal shares: with boosters of equal size no seat ever gets ahead of
\* another by more than the pick it has just made, whatever the order of the
\* picks; a seat cannot force a pass or pick twice in a round.  (An additional
\* pick nets one card, so it is only neutral where a pick takes one card.)
FairShare ==
    /\ status = "Drafting"
    /\ UniformDeal
    /\ cardsPerPick = 1 \/ CardsOf(dealt) \cap EffectCards = {}
    =>
        \A s \in Seats : Cardinality(pools[s]) =
            FairPool(IF pickedThisRound[s] THEN pickNumber + 1 ELSE pickNumber)

\* The booster and its recorded origin travel together: the cards a seat holds
\* come from the current booster of the seat named as their origin (an effect
\* card may have been put into any booster).
OriginTellsPack ==
    status = "Drafting" =>
        \A s \in Seats : CardsIn(currentPack[s]) \ EffectCards
            \subseteq dealt[currentPackOrigins[s]][currentPackNumber + 1]

\* A started draft reaches deckbuilding even if nobody picks by hand.
DraftEnds == status = "Drafting" ~> status = "Deckbuilding"
============================================================================
