--------------------------- MODULE PickPassProofs ---------------------------
(***************************************************************************)
(* The pick-and-pass draft for any pod, any boosters and any draft effects: *)
(* it never stalls, and it implements CardDraft.                           *)
(***************************************************************************)
EXTENDS PickPass, FiniteSetTheorems, SequenceTheorems, TLAPS

Boosters == [Seats -> SUBSET Cards]
Piles == [Seats -> Seq(SUBSET Cards)]

\* No card is in two places: boosters P going round, unopened boosters U and
\* pools Q.
SeatsApart(F) == \A s, t \in Seats : s # t => F[s] \cap F[t] = {}

DraftedApart(P, Q) == \A s, t \in Seats : Q[s] \cap P[t] = {}

UnopenedApart(F, U) ==
    \A s, t \in Seats, i \in Nat : i \in DOMAIN U[t] => F[s] \cap U[t][i] = {}

BoostersApart(U) ==
    \A s, t \in Seats, i, j \in Nat :
        (i \in DOMAIN U[s] /\ j \in DOMAIN U[t] /\ (s # t \/ i # j))
            => U[s][i] \cap U[t][j] = {}

Apart(P, U, Q) ==
    /\ SeatsApart(P) /\ SeatsApart(Q) /\ DraftedApart(P, Q)
    /\ UnopenedApart(P, U) /\ UnopenedApart(Q, U) /\ BoostersApart(U)

\* Boosters are finite, and one that is unopened is not empty.
RealBoosters(P, U) ==
    /\ \A s \in Seats : IsFiniteSet(P[s])
    /\ \A s \in Seats, i \in Nat : i \in DOMAIN U[s] => IsFiniteSet(U[s][i]) /\ U[s][i] # {}

Good(P, U, Q) ==
    /\ P \in Boosters /\ U \in Piles /\ Q \in [Seats -> SUBSET Cards]
    /\ Apart(P, U, Q) /\ RealBoosters(P, U)

\* The cards on the table, as a membership test.
OnTable(P, U, c) == \E s \in Seats : c \in P[s] \/ \E i \in DOMAIN U[s] : c \in U[s][i]

\* Every seat has as many unopened boosters as there are rounds to come.
RoundsLeft(U, n) == n \in 0 .. PackCount - 1 /\ \A s \in Seats : Len(U[s]) = PackCount - 1 - n

\* The inductive invariant.
PassInv ==
    /\ TypeOK
    /\ status = "Lobby" => \A s \in Seats : pools[s] = {} /\ currentPack[s] = NoPack
                                                        /\ packsBySeat[s] = <<>>
    /\ status = "Drafting" => /\ Good(currentPack, packsBySeat, pools)
                              /\ RoundsLeft(packsBySeat, currentPackNumber)
                              /\ ~RoundComplete(currentPack, pickedThisRound)

-----------------------------------------------------------------------------
(* Passing is a permutation of the seats.                                  *)

Previous(direction, d) == CHOOSE s \in Seats : NextSeat(direction, s) = d

\* The neighbour of a seat, without remainders.
LEMMA NextSeatIs ==
    ASSUME NEW s \in Seats
    PROVE  /\ NextSeat("Left", s) = IF s = NumSeats - 1 THEN 0 ELSE s + 1
           /\ NextSeat("Right", s) = IF s = 0 THEN NumSeats - 1 ELSE s - 1
  <1>1. NumSeats \in Nat /\ NumSeats >= 2 /\ s \in 0 .. NumSeats - 1
    BY PodAssumption DEF PodAssumption, Seats
  <1>2. (s + 1) % NumSeats = IF s = NumSeats - 1 THEN 0 ELSE s + 1
    BY <1>1
  <1>3. (s + NumSeats - 1) % NumSeats = IF s = 0 THEN NumSeats - 1 ELSE s - 1
    BY <1>1
  <1> QED
    BY <1>2, <1>3 DEF NextSeat

\* Every seat receives from exactly one seat.
LEMMA PassingPermutes ==
    ASSUME NEW direction \in {"Left", "Right"}
    PROVE  /\ \A d \in Seats : Previous(direction, d) \in Seats
           /\ \A d, e \in Seats : Previous(direction, d) = Previous(direction, e) => d = e
           /\ \A s \in Seats : \E d \in Seats : Previous(direction, d) = s
  <1>1. NumSeats \in Nat /\ NumSeats >= 2 /\ Seats = 0 .. NumSeats - 1
    BY PodAssumption DEF PodAssumption, Seats
  <1>2. \A s \in Seats : NextSeat(direction, s) \in Seats
    BY <1>1, NextSeatIs
  <1>3. \A s, t \in Seats : NextSeat(direction, s) = NextSeat(direction, t) => s = t
    BY <1>1, NextSeatIs
  <1>4. \A d \in Seats : \E s \in Seats : NextSeat(direction, s) = d
    <2> SUFFICES ASSUME NEW d \in Seats
                 PROVE  \E s \in Seats : NextSeat(direction, s) = d
      OBVIOUS
    <2>1. CASE direction = "Left"
      <3> DEFINE s == IF d = 0 THEN NumSeats - 1 ELSE d - 1
      <3>1. s \in Seats /\ NextSeat("Left", s) = d
        BY <1>1, NextSeatIs
      <3> QED
        BY <2>1, <3>1
    <2>2. CASE direction = "Right"
      <3> DEFINE s == IF d = NumSeats - 1 THEN 0 ELSE d + 1
      <3>1. s \in Seats /\ NextSeat("Right", s) = d
        BY <1>1, NextSeatIs
      <3> QED
        BY <2>2, <3>1
    <2> QED
      BY <2>1, <2>2
  <1>5. \A d \in Seats : Previous(direction, d) \in Seats
                           /\ NextSeat(direction, Previous(direction, d)) = d
    BY <1>4 DEF Previous
  <1>6. \A s \in Seats : Previous(direction, NextSeat(direction, s)) = s
    BY <1>2, <1>3, <1>5
  <1> QED
    BY <1>2, <1>5, <1>6

\* Passing keeps the boosters in order and the cards on the table.
LEMMA PassingKeeps ==
    ASSUME NEW direction \in {"Left", "Right"}, NEW P, NEW U, NEW Q, Good(P, U, Q)
    PROVE  /\ Good(PassedOn(direction, P), U, Q)
           /\ \A c : OnTable(PassedOn(direction, P), U, c) <=> OnTable(P, U, c)
           /\ (\E s \in Seats : P[s] # {}) => \E s \in Seats : PassedOn(direction, P)[s] # {}
  <1> DEFINE R == PassedOn(direction, P)
             prev(d) == Previous(direction, d)
  <1>1. R = [d \in Seats |-> P[prev(d)]]
    BY DEF PassedOn, Previous
  <1>2. /\ \A d \in Seats : prev(d) \in Seats
        /\ \A d, e \in Seats : prev(d) = prev(e) => d = e
        /\ \A s \in Seats : \E d \in Seats : prev(d) = s
    BY PassingPermutes
  <1> HIDE DEF R, prev
  <1>3. R \in Boosters /\ \A d \in Seats : R[d] = P[prev(d)]
    BY <1>1, <1>2 DEF Good, Boosters
  <1>4. Apart(R, U, Q)
    <2>1. SeatsApart(R)
      BY <1>2, <1>3 DEF Good, Apart, SeatsApart
    <2>2. DraftedApart(R, Q)
      BY <1>2, <1>3 DEF Good, Apart, DraftedApart
    <2>3. UnopenedApart(R, U)
      BY <1>2, <1>3 DEF Good, Apart, UnopenedApart
    <2> QED
      BY <2>1, <2>2, <2>3 DEF Good, Apart
  <1>5. RealBoosters(R, U)
    BY <1>2, <1>3 DEF Good, RealBoosters
  <1>6. \A c : OnTable(R, U, c) <=> OnTable(P, U, c)
    BY <1>2, <1>3 DEF OnTable
  <1>7. (\E s \in Seats : P[s] # {}) => \E s \in Seats : R[s] # {}
    BY <1>2, <1>3
  <1> QED
    BY <1>3, <1>4, <1>5, <1>6, <1>7 DEF Good, R

-----------------------------------------------------------------------------
(* Opening the next boosters.                                              *)

Opened(U) == [s \in Seats |-> Head(U[s])]
StillClosed(U) == [s \in Seats |-> Tail(U[s])]

\* A booster of every seat moves from the unopened ones to the table.
LEMMA OpeningKeeps ==
    ASSUME NEW P, NEW U, NEW Q, Good(P, U, Q), \A s \in Seats : P[s] = {} /\ U[s] # <<>>
    PROVE  /\ Good(Opened(U), StillClosed(U), Q)
           /\ \A c : OnTable(Opened(U), StillClosed(U), c) <=> OnTable(P, U, c)
           /\ \A s \in Seats : Opened(U)[s] # {} /\ Len(StillClosed(U)[s]) = Len(U[s]) - 1
  <1> DEFINE V == Opened(U)
             W == StillClosed(U)
  <1>1. ASSUME NEW s \in Seats
        PROVE  /\ Len(U[s]) \in Nat /\ Len(U[s]) >= 1 /\ DOMAIN U[s] = 1 .. Len(U[s])
               /\ V[s] = U[s][1] /\ V[s] \in SUBSET Cards
               /\ W[s] \in Seq(SUBSET Cards) /\ Len(W[s]) = Len(U[s]) - 1
               /\ DOMAIN W[s] = 1 .. Len(U[s]) - 1
               /\ \A i \in 1 .. Len(U[s]) - 1 : W[s][i] = U[s][i + 1]
    <2>1. U[s] \in Seq(SUBSET Cards) /\ U[s] # <<>>
      BY DEF Good, Piles
    <2> QED
      BY <2>1 DEF Opened, StillClosed
  <1>2. V \in Boosters /\ W \in Piles
    BY <1>1 DEF Boosters, Piles, Opened, StillClosed
  <1> HIDE DEF V, W
  <1>3. ASSUME NEW s \in Seats, NEW i \in Nat, i \in DOMAIN W[s]
        PROVE  /\ i + 1 \in Nat /\ i + 1 \in DOMAIN U[s] /\ i + 1 # 1
               /\ W[s][i] = U[s][i + 1]
    BY <1>1, <1>3
  <1>4. \A s \in Seats : 1 \in Nat /\ 1 \in DOMAIN U[s] /\ V[s] = U[s][1]
    BY <1>1
  <1>5. Apart(V, W, Q)
    <2>1. SeatsApart(V)
      BY <1>4 DEF Good, Apart, SeatsApart, BoostersApart
    <2>2. DraftedApart(V, Q)
      <3> SUFFICES ASSUME NEW s \in Seats, NEW t \in Seats
                   PROVE  Q[s] \cap V[t] = {}
        BY DEF DraftedApart
      <3>1. Q[s] \cap U[t][1] = {}
        BY <1>4 DEF Good, Apart, UnopenedApart
      <3> QED
        BY <1>4, <3>1
    <2>3. UnopenedApart(V, W)
      BY <1>3, <1>4 DEF Good, Apart, UnopenedApart, BoostersApart
    <2>4. UnopenedApart(Q, W)
      BY <1>3 DEF Good, Apart, UnopenedApart
    <2>5. BoostersApart(W)
      <3> SUFFICES ASSUME NEW s \in Seats, NEW t \in Seats, NEW i \in Nat, NEW j \in Nat,
                          i \in DOMAIN W[s], j \in DOMAIN W[t], s # t \/ i # j
                   PROVE  W[s][i] \cap W[t][j] = {}
        BY DEF BoostersApart
      <3>1. s # t \/ i + 1 # j + 1
        OBVIOUS
      <3> QED
        BY <1>3, <3>1 DEF Good, Apart, BoostersApart
    <2> QED
      BY <2>1, <2>2, <2>3, <2>4, <2>5 DEF Good, Apart
  <1>6. RealBoosters(V, W)
    BY <1>3, <1>4 DEF Good, RealBoosters
  <1>7. ASSUME NEW c
        PROVE  OnTable(V, W, c) <=> OnTable(P, U, c)
    <2>1. ASSUME NEW s \in Seats
          PROVE  (\E i \in DOMAIN U[s] : c \in U[s][i])
                   <=> (c \in V[s] \/ \E i \in DOMAIN W[s] : c \in W[s][i])
      <3>1. ASSUME NEW i \in DOMAIN U[s], c \in U[s][i]
            PROVE  c \in V[s] \/ \E j \in DOMAIN W[s] : c \in W[s][j]
        <4>1. CASE i = 1
          BY <1>1, <3>1, <4>1
        <4>2. CASE i # 1
          <5>0. i \in Nat /\ i - 1 \in 1 .. Len(U[s]) - 1 /\ (i - 1) + 1 = i
            BY <1>1, <4>2
          <5>1. i - 1 \in DOMAIN W[s] /\ W[s][i - 1] = U[s][i]
            BY <1>1, <5>0
          <5> QED
            BY <3>1, <5>1
        <4> QED
          BY <4>1, <4>2
      <3>2. ASSUME NEW i \in DOMAIN W[s], c \in W[s][i]
            PROVE  \E j \in DOMAIN U[s] : c \in U[s][j]
        <4>1. i \in Nat
          BY <1>1
        <4> QED
          BY <1>3, <3>2, <4>1
      <3> QED
        BY <1>4, <3>1, <3>2
    <2> QED
      BY <2>1 DEF OnTable
  <1>8. \A s \in Seats : V[s] # {}
    BY <1>4 DEF Good, RealBoosters
  <1> QED
    BY <1>1, <1>2, <1>5, <1>6, <1>7, <1>8 DEF Good, V, W

-----------------------------------------------------------------------------
(* Picking.                                                                *)

Swapped(F, s, out, in) == [F EXCEPT ![s] = (@ \ out) \cup in]

\* Seat s moves `chosen` from its booster into its pool and `back` the other
\* way.
LEMMA PickingKeeps ==
    ASSUME NEW P, NEW U, NEW Q, Good(P, U, Q), NEW s \in Seats,
           NEW chosen \in SUBSET P[s], NEW back \in SUBSET Q[s], IsFiniteSet(back)
    PROVE  /\ Good(Swapped(P, s, chosen, back), U, Swapped(Q, s, back, chosen))
           /\ \A c : OnTable(Swapped(P, s, chosen, back), U, c)
                      <=> ((OnTable(P, U, c) /\ c \notin chosen) \/ c \in back)
  <1> DEFINE R == Swapped(P, s, chosen, back)
             S == Swapped(Q, s, back, chosen)
  <1>1. P \in Boosters /\ Q \in [Seats -> SUBSET Cards] /\ U \in Piles
    BY DEF Good
  <1>2. /\ R \in Boosters /\ R[s] = (P[s] \ chosen) \cup back
        /\ \A t \in Seats : t # s => R[t] = P[t]
    BY <1>1 DEF Boosters, Swapped
  <1>3. /\ S \in [Seats -> SUBSET Cards] /\ S[s] = (Q[s] \ back) \cup chosen
        /\ \A t \in Seats : t # s => S[t] = Q[t]
    BY <1>1 DEF Boosters, Swapped
  <1> HIDE DEF R, S
  <1>4. Apart(P, U, Q)
    BY DEF Good
  <1>5. Apart(R, U, S)
    <2>1. SeatsApart(R)
      BY <1>2, <1>4 DEF Apart, SeatsApart, DraftedApart
    <2>2. SeatsApart(S)
      BY <1>3, <1>4 DEF Apart, SeatsApart, DraftedApart
    <2>3. DraftedApart(R, S)
      <3> SUFFICES ASSUME NEW t \in Seats, NEW u \in Seats
                   PROVE  S[t] \cap R[u] = {}
        BY DEF DraftedApart
      <3>1. CASE t = s /\ u = s
        BY <1>2, <1>3, <1>4, <3>1 DEF Apart, DraftedApart
      <3>2. CASE t = s /\ u # s
        BY <1>2, <1>3, <1>4, <3>2 DEF Apart, DraftedApart, SeatsApart
      <3>3. CASE t # s /\ u = s
        BY <1>2, <1>3, <1>4, <3>3 DEF Apart, DraftedApart, SeatsApart
      <3>4. CASE t # s /\ u # s
        BY <1>2, <1>3, <1>4, <3>4 DEF Apart, DraftedApart
      <3> QED
        BY <3>1, <3>2, <3>3, <3>4
    <2>4. UnopenedApart(R, U)
      BY <1>2, <1>4 DEF Apart, UnopenedApart
    <2>5. UnopenedApart(S, U)
      BY <1>3, <1>4 DEF Apart, UnopenedApart
    <2> QED
      BY <1>4, <2>1, <2>2, <2>3, <2>4, <2>5 DEF Apart
  <1>6. RealBoosters(R, U)
    <2>1. IsFiniteSet(P[s] \ chosen)
      BY FS_Subset DEF Good, RealBoosters
    <2>2. IsFiniteSet((P[s] \ chosen) \cup back)
      BY <2>1, FS_Union, Zenon
    <2>3. IsFiniteSet(R[s])
      BY <1>2, <2>2, Zenon
    <2> QED
      BY <1>2, <2>3 DEF Good, RealBoosters
  <1>7. ASSUME NEW c
        PROVE  OnTable(R, U, c) <=> ((OnTable(P, U, c) /\ c \notin chosen) \/ c \in back)
    <2>1. CASE c \in back
      BY <1>2, <2>1 DEF OnTable
    <2>2. CASE c \notin back /\ c \in chosen
      <3>1. c \in P[s]
        BY <2>2
      <3>2. \A t \in Seats : c \notin R[t]
        BY <1>2, <1>4, <2>2, <3>1 DEF Apart, SeatsApart
      <3>3. \A t \in Seats : \A i \in DOMAIN U[t] : c \notin U[t][i]
        <4>1. \A t \in Seats : DOMAIN U[t] \subseteq Nat
          BY <1>1 DEF Piles
        <4> QED
          BY <1>4, <3>1, <4>1 DEF Apart, UnopenedApart
      <3> QED
        BY <2>2, <3>2, <3>3 DEF OnTable
    <2>3. CASE c \notin back /\ c \notin chosen
      BY <1>2, <2>3 DEF OnTable
    <2> QED
      BY <2>1, <2>2, <2>3
  <1> QED
    BY <1>1, <1>2, <1>3, <1>5, <1>6, <1>7 DEF Good, R, S

-----------------------------------------------------------------------------
(* finish_pick.                                                            *)

\* While drafting a seat's booster is a set of cards.
LEMMA CardsInBooster ==
    ASSUME NEW P \in Boosters, NEW s \in Seats
    PROVE  CardsIn(P[s]) = P[s] /\ P[s] # NoPack
  BY DealAssumption DEF DealAssumption, CardsIn, Boosters

\* The abstract table.
LEMMA TableIs ==
    /\ \A c : c \in Table <=>
         \E s \in Seats : \/ c \in CardsIn(currentPack[s])
                          \/ \E i \in DOMAIN packsBySeat[s] : c \in packsBySeat[s][i]
    /\ \A c : c \in Table' <=>
         \E s \in Seats : \/ c \in CardsIn(currentPack'[s])
                          \/ \E i \in DOMAIN packsBySeat'[s] : c \in packsBySeat'[s][i]
  BY DEF Table, ToSet

\* What finish_pick does to the boosters R after the pick: the draft goes on
\* with a seat that owes a pick, or it is over and the table is empty.
LEMMA FinishKeeps ==
    ASSUME PassInv, status = "Drafting", NEW s \in Seats,
           NEW R, NEW Q, Good(R, packsBySeat, Q), FinishPick(s, R),
           pools' = Q, cardsPerPick' = cardsPerPick
    PROVE  /\ PassInv'
           /\ \A c : c \in Table' <=> OnTable(R, packsBySeat, c)
           /\ status' \in {"Drafting", "Deckbuilding"}
           /\ status' = "Deckbuilding" <=> \A c : ~OnTable(R, packsBySeat, c)
  <1> DEFINE picked == [pickedThisRound EXCEPT ![s] = TRUE]
             U == packsBySeat
             n == currentPackNumber
  <1>0. /\ TypeOK /\ R \in Boosters /\ U \in Piles /\ Q \in [Seats -> SUBSET Cards]
        /\ RoundsLeft(U, n) /\ n \in Nat /\ pickNumber \in Nat /\ PackCount \in Nat
        /\ currentPackOrigins \in [Seats -> Seats]
    BY PodAssumption DEF PodAssumption, PassInv, TypeOK, Good, Piles
  <1>1. \A t \in Seats : CardsIn(R[t]) = R[t] /\ R[t] # NoPack
    BY <1>0, CardsInBooster
  <1>2. \A t \in Seats : OwesPick(R, t) <=> R[t] # {}
    BY <1>1 DEF OwesPick
  <1>3. CASE ~RoundComplete(R, picked)
    <2>1. /\ currentPack' = R /\ pickedThisRound' = picked /\ status' = status
          /\ currentPackOrigins' = currentPackOrigins /\ packsBySeat' = U
          /\ passDirection' = passDirection /\ currentPackNumber' = n /\ pickNumber' = pickNumber
      BY <1>3 DEF FinishPick, WaitForOthers
    <2>2. picked \in [Seats -> BOOLEAN]
      BY <1>0 DEF TypeOK
    <2>3. PICK t \in Seats : R[t] # {}
      BY <1>2, <1>3 DEF RoundComplete
    <2>4. \E c : OnTable(R, U, c)
      BY <2>3 DEF OnTable
    <2>5. TypeOK'
      <3>1. currentPack' \in [Seats -> {NoPack} \cup SUBSET Cards]
        BY <1>0, <2>1 DEF Boosters
      <3>2. \A u \in Seats : currentPack'[u] # NoPack /\ currentPackOrigins'[u] # NoSeat
        BY <1>0, <1>1, <2>1 DEF PassInv, TypeOK
      <3> QED
        BY <1>0, <2>1, <2>2, <3>1, <3>2 DEF TypeOK
    <2>6. PassInv'
      BY <1>0, <1>3, <2>1, <2>5 DEF PassInv
    <2>7. \A c : c \in Table' <=> OnTable(R, U, c)
      BY <1>1, <2>1, TableIs DEF OnTable
    <2> QED
      BY <2>1, <2>4, <2>6, <2>7
  <1>4. CASE RoundComplete(R, picked) /\ \E t \in Seats : OwesPick(R, t)
    <2> DEFINE V == PassedOn(passDirection, R)
    <2>1. /\ currentPack' = V /\ pickedThisRound' = [t \in Seats |-> FALSE] /\ status' = status
          /\ currentPackOrigins' = PassedOn(passDirection, currentPackOrigins)
          /\ packsBySeat' = U /\ passDirection' = passDirection /\ currentPackNumber' = n
          /\ pickNumber' = pickNumber + 1
      BY <1>4 DEF FinishPick, PassPacks
    <2>2. passDirection \in {"Left", "Right"}
      BY <1>0 DEF TypeOK
    <2>3. /\ Good(V, U, Q)
          /\ \A c : OnTable(V, U, c) <=> OnTable(R, U, c)
          /\ \E t \in Seats : V[t] # {}
      BY <1>2, <1>4, <2>2, PassingKeeps
    <2>4. currentPackOrigins' \in [Seats -> Seats]
      <3>1. currentPackOrigins' = [d \in Seats |-> currentPackOrigins[Previous(passDirection, d)]]
        BY <2>1 DEF PassedOn, Previous
      <3>2. \A d \in Seats : Previous(passDirection, d) \in Seats
        BY <2>2, PassingPermutes
      <3> QED
        BY <1>0, <3>1, <3>2
    <2> HIDE DEF V
    <2>5. V \in Boosters /\ \A t \in Seats : CardsIn(V[t]) = V[t] /\ V[t] # NoPack
      BY <2>3, CardsInBooster DEF Good
    <2>6. TypeOK'
      <3>1. currentPack' \in [Seats -> {NoPack} \cup SUBSET Cards]
        BY <2>1, <2>5 DEF Boosters
      <3>2. \A u \in Seats : currentPack'[u] # NoPack /\ currentPackOrigins'[u] # NoSeat
        BY <2>1, <2>4, <2>5, DealAssumption DEF DealAssumption
      <3>3. currentPackOrigins' \in [Seats -> Seats \cup {NoSeat}]
        BY <2>4
      <3>4. pickNumber' \in Nat /\ pickedThisRound' \in [Seats -> BOOLEAN]
        BY <1>0, <2>1
      <3> QED
        BY <1>0, <2>1, <3>1, <3>2, <3>3, <3>4 DEF TypeOK
    <2>7. ~RoundComplete(V, pickedThisRound')
      BY <2>1, <2>3, <2>5 DEF RoundComplete, OwesPick
    <2>8. PassInv'
      BY <1>0, <2>1, <2>3, <2>6, <2>7 DEF PassInv
    <2>9. \A c : c \in Table' <=> OnTable(V, U, c)
      BY <2>1, <2>5, TableIs DEF OnTable
    <2>10. \E c : OnTable(V, U, c)
      BY <2>3 DEF OnTable
    <2> QED
      BY <2>1, <2>3, <2>8, <2>9, <2>10
  <1>5. CASE /\ RoundComplete(R, picked) /\ \A t \in Seats : ~OwesPick(R, t)
             /\ n + 1 >= PackCount
    <2>1. /\ currentPack' = R /\ pickedThisRound' = [t \in Seats |-> FALSE]
          /\ status' = "Deckbuilding" /\ currentPackOrigins' = currentPackOrigins
          /\ packsBySeat' = U /\ passDirection' = passDirection /\ currentPackNumber' = n + 1
          /\ pickNumber' = pickNumber
      BY <1>5 DEF FinishPick, FinishPack, EndDraft
    <2>2. \A t \in Seats : R[t] = {} /\ DOMAIN U[t] = {}
      <3> SUFFICES ASSUME NEW t \in Seats PROVE R[t] = {} /\ DOMAIN U[t] = {}
        OBVIOUS
      <3>1. R[t] = {}
        BY <1>2, <1>5
      <3>2. Len(U[t]) = 0 /\ U[t] \in Seq(SUBSET Cards)
        BY <1>0, <1>5 DEF RoundsLeft, Piles
      <3> QED
        BY <3>1, <3>2
    <2>3. \A c : ~OnTable(R, U, c)
      BY <2>2 DEF OnTable
    <2>4. TypeOK'
      <3>1. currentPack' \in [Seats -> {NoPack} \cup SUBSET Cards]
        BY <1>0, <2>1 DEF Boosters
      <3>2. currentPackNumber' \in 0 .. PackCount /\ pickedThisRound' \in [Seats -> BOOLEAN]
        BY <1>0, <2>1 DEF RoundsLeft
      <3> QED
        BY <1>0, <2>1, <3>1, <3>2 DEF TypeOK
    <2>5. PassInv'
      BY <2>1, <2>4 DEF PassInv
    <2>6. \A c : c \in Table' <=> OnTable(R, U, c)
      BY <1>1, <2>1, TableIs DEF OnTable
    <2> QED
      BY <2>1, <2>3, <2>5, <2>6
  <1>6. CASE /\ RoundComplete(R, picked) /\ \A t \in Seats : ~OwesPick(R, t)
             /\ ~(n + 1 >= PackCount)
    <2> DEFINE V == Opened(U)
               W == StillClosed(U)
    <2>1. \A t \in Seats : R[t] = {} /\ U[t] # <<>>
      <3> SUFFICES ASSUME NEW t \in Seats PROVE R[t] = {} /\ U[t] # <<>>
        OBVIOUS
      <3>1. R[t] = {}
        BY <1>2, <1>6
      <3>2. Len(U[t]) # 0 /\ U[t] \in Seq(SUBSET Cards)
        BY <1>0, <1>6 DEF RoundsLeft, Piles
      <3> QED
        BY <3>1, <3>2
    <2>2. /\ pickedThisRound' = [t \in Seats |-> FALSE]
          /\ OpenNextPacks(R) /\ currentPackNumber' = n + 1
      BY <1>6 DEF FinishPick, FinishPack
    <2>3. /\ currentPack' = V /\ packsBySeat' = W /\ currentPackOrigins' = [t \in Seats |-> t]
          /\ status' = status /\ passDirection' \in {"Left", "Right"} /\ pickNumber' = 0
      BY <2>1, <2>2 DEF OpenNextPacks, ForPack, Opened, StillClosed
    <2>4. /\ Good(V, W, Q)
          /\ \A c : OnTable(V, W, c) <=> OnTable(R, U, c)
          /\ \A t \in Seats : V[t] # {} /\ Len(W[t]) = Len(U[t]) - 1
      BY <2>1, OpeningKeeps
    <2> HIDE DEF V, W
    <2>5. V \in Boosters /\ \A t \in Seats : CardsIn(V[t]) = V[t] /\ V[t] # NoPack
      BY <2>4, CardsInBooster DEF Good
    <2>6. 0 \in Seats
      BY PodAssumption DEF PodAssumption, Seats
    <2>7. TypeOK'
      <3>1. currentPack' \in [Seats -> {NoPack} \cup SUBSET Cards]
        BY <2>3, <2>5 DEF Boosters
      <3>2. \A u \in Seats : currentPack'[u] # NoPack /\ currentPackOrigins'[u] # NoSeat
        BY <2>3, <2>5, DealAssumption DEF DealAssumption
      <3>3. currentPackOrigins' \in [Seats -> Seats \cup {NoSeat}]
        BY <2>3
      <3>4. pickNumber' \in Nat /\ pickedThisRound' \in [Seats -> BOOLEAN]
        BY <2>2, <2>3
      <3>5. currentPackNumber' \in 0 .. PackCount /\ packsBySeat' \in [Seats -> Seq(SUBSET Cards)]
        BY <1>0, <1>6, <2>2, <2>3, <2>4 DEF Good, Piles
      <3> QED
        BY <1>0, <2>3, <3>1, <3>2, <3>3, <3>4, <3>5 DEF TypeOK
    <2>8. RoundsLeft(W, n + 1)
      BY <1>0, <1>6, <2>4 DEF RoundsLeft
    <2>9. ~RoundComplete(V, pickedThisRound')
      BY <2>2, <2>4, <2>5, <2>6 DEF RoundComplete, OwesPick
    <2>10. PassInv'
      BY <2>2, <2>3, <2>4, <2>7, <2>8, <2>9 DEF PassInv
    <2>11. \A c : c \in Table' <=> OnTable(V, W, c)
      BY <2>3, <2>5, TableIs DEF OnTable
    <2>12. \E c : OnTable(V, W, c)
      BY <2>4, <2>6 DEF OnTable
    <2> QED
      BY <2>3, <2>4, <2>10, <2>11, <2>12
  <1> QED
    BY <1>3, <1>4, <1>5, <1>6

-----------------------------------------------------------------------------
(* The steps of a draft, and what they are in CardDraft.                   *)

\* While drafting there is no seat without a booster.
LEMMA TableWhileDrafting ==
    ASSUME PassInv, status = "Drafting"
    PROVE  \A c : c \in Table <=> OnTable(currentPack, packsBySeat, c)
  <1>1. \A s \in Seats : CardsIn(currentPack[s]) = currentPack[s]
    BY CardsInBooster DEF PassInv, Good
  <1> QED
    BY <1>1, TableIs DEF OnTable

\* The invariant holds initially, and so does CardDraft's Init.
LEMMA PassInit ==
    ASSUME Init
    PROVE  PassInv /\ Draft!Init
  <1>1. TypeOK
    <2>1. 0 \in 0 .. PackCount
      BY PodAssumption DEF PodAssumption
    <2>2. packsBySeat \in [Seats -> Seq(SUBSET Cards)]
      BY DEF Init
    <2> QED
      BY <2>1, <2>2 DEF Init, TypeOK, ForPack
  <1>2. \A c : c \notin Table
    BY TableIs DEF Init, CardsIn
  <1> QED
    BY <1>1, <1>2 DEF Init, PassInv, Draft!Init

\* A deal lies on the table card by card.
LEMMA DealtCards ==
    ASSUME NEW deal \in Deals, NEW Q \in [Seats -> SUBSET Cards], \A s \in Seats : Q[s] = {}
    PROVE  /\ Good([s \in Seats |-> {}], deal, Q)
           /\ \A s \in Seats : Len(deal[s]) = PackCount /\ deal[s] # <<>>
           /\ \A c : OnTable([s \in Seats |-> {}], deal, c) <=> c \in CardsOf(deal)
  <1> DEFINE P == [s \in Seats |-> {}]
  <1>1. /\ deal \in [Seats -> Seq(SUBSET CardsOf(deal))]
        /\ \A s \in Seats : Len(deal[s]) = PackCount
        /\ \A s, t \in Seats, i, j \in 1 .. PackCount :
              /\ IsFiniteSet(deal[s][i]) /\ deal[s][i] # {}
              /\ <<s, i>> # <<t, j>> => deal[s][i] \cap deal[t][j] = {}
    BY DealAssumption DEF DealAssumption
  <1>2. PackCount \in Nat /\ PackCount >= 1
    BY PodAssumption DEF PodAssumption
  <1>3. \A s \in Seats : DOMAIN deal[s] = 1 .. PackCount /\ deal[s] # <<>>
    BY <1>1, <1>2
  <1>4. CardsOf(deal) \subseteq Cards
    BY DEF Cards
  <1>5. deal \in Piles
    <2>1. ASSUME NEW s \in Seats PROVE deal[s] \in Seq(SUBSET Cards)
      <3>1. deal[s] \in Seq(SUBSET CardsOf(deal))
        BY <1>1
      <3> QED
        BY <1>4, <3>1
    <2> QED
      BY <1>1, <2>1 DEF Piles
  <1>6. P \in Boosters /\ \A s \in Seats : P[s] = {}
    BY DEF Boosters
  <1> HIDE DEF P
  <1>7. BoostersApart(deal)
    <2> SUFFICES ASSUME NEW s \in Seats, NEW t \in Seats,
                        NEW i \in DOMAIN deal[s], NEW j \in DOMAIN deal[t], s # t \/ i # j
                 PROVE  deal[s][i] \cap deal[t][j] = {}
      BY DEF BoostersApart
    <2>0. i \in 1 .. PackCount /\ j \in 1 .. PackCount
      BY <1>3
    <2>1. <<s, i>> # <<t, j>>
      OBVIOUS
    <2> QED
      BY <1>1, <2>0, <2>1
  <1>8. Apart(P, deal, Q)
    BY <1>6, <1>7 DEF Apart, SeatsApart, DraftedApart, UnopenedApart
  <1>9. RealBoosters(P, deal)
    <2>1. \A s \in Seats : IsFiniteSet(P[s])
      BY <1>6, FS_EmptySet
    <2> QED
      BY <1>1, <1>3, <2>1 DEF RealBoosters
  <1>10. \A c : OnTable(P, deal, c) <=> c \in CardsOf(deal)
    BY <1>6 DEF OnTable, CardsOf, ToSet
  <1> QED
    BY <1>1, <1>3, <1>5, <1>6, <1>8, <1>9, <1>10 DEF Good, P

\* apply_start_draft deals the boosters and opens the first of every seat.
LEMMA StartStep ==
    ASSUME PassInv, NEW deal \in Deals, StartDraft(deal)
    PROVE  PassInv' /\ Draft!Start(CardsOf(deal))
  <1> DEFINE P == [s \in Seats |-> {}]
             V == Opened(deal)
             W == StillClosed(deal)
  <1>1. pools \in [Seats -> SUBSET Cards] /\ \A s \in Seats : pools[s] = {}
    BY DEF PassInv, TypeOK, StartDraft
  <1>2. /\ Good(P, deal, pools)
        /\ \A s \in Seats : Len(deal[s]) = PackCount /\ deal[s] # <<>>
        /\ \A c : OnTable(P, deal, c) <=> c \in CardsOf(deal)
    BY <1>1, DealtCards
  <1>3. /\ Good(V, W, pools)
        /\ \A c : OnTable(V, W, c) <=> OnTable(P, deal, c)
        /\ \A s \in Seats : V[s] # {} /\ Len(W[s]) = Len(deal[s]) - 1
    <2>1. \A s \in Seats : P[s] = {}
      OBVIOUS
    <2> HIDE DEF P
    <2> QED
      BY <1>2, <2>1, OpeningKeeps
  <1>4. /\ status = "Lobby" /\ status' = "Drafting" /\ currentPack' = V /\ packsBySeat' = W
        /\ currentPackOrigins' = [s \in Seats |-> s] /\ passDirection' = ForPack(0)
        /\ currentPackNumber' = 0 /\ pickNumber' = 0 /\ pickedThisRound' = [s \in Seats |-> FALSE]
        /\ cardsPerPick' = cardsPerPick /\ pools' = pools
    BY DEF StartDraft, Opened, StillClosed
  <1> HIDE DEF V, W, P
  <1>5. V \in Boosters /\ \A t \in Seats : CardsIn(V[t]) = V[t] /\ V[t] # NoPack
    BY <1>3, CardsInBooster DEF Good
  <1>6. PackCount \in Nat /\ PackCount >= 1 /\ 0 \in Seats
    BY PodAssumption DEF PodAssumption, Seats
  <1>7. TypeOK'
    <2>1. currentPack' \in [Seats -> {NoPack} \cup SUBSET Cards]
      BY <1>4, <1>5 DEF Boosters
    <2>2. \A u \in Seats : currentPack'[u] # NoPack /\ currentPackOrigins'[u] # NoSeat
      BY <1>4, <1>5, DealAssumption DEF DealAssumption
    <2>3. /\ currentPackOrigins' \in [Seats -> Seats \cup {NoSeat}]
          /\ pickedThisRound' \in [Seats -> BOOLEAN] /\ passDirection' \in {"Left", "Right"}
      BY <1>4 DEF ForPack
    <2>4. currentPackNumber' \in 0 .. PackCount /\ packsBySeat' \in [Seats -> Seq(SUBSET Cards)]
      BY <1>3, <1>4, <1>6 DEF Good, Piles
    <2> QED
      BY <1>1, <1>4, <2>1, <2>2, <2>3, <2>4 DEF TypeOK, PassInv
  <1>8. RoundsLeft(W, 0)
    BY <1>2, <1>3, <1>6 DEF RoundsLeft
  <1>9. ~RoundComplete(V, pickedThisRound')
    BY <1>3, <1>4, <1>5, <1>6 DEF RoundComplete, OwesPick
  <1>10. PassInv'
    BY <1>3, <1>4, <1>7, <1>8, <1>9 DEF PassInv
  <1>11. Table' = CardsOf(deal)
    <2>1. \A c : c \in Table' <=> OnTable(V, W, c)
      BY <1>4, <1>5, TableIs DEF OnTable
    <2> QED
      BY <1>2, <1>3, <2>1
  <1> QED
    BY <1>4, <1>10, <1>11 DEF Draft!Start

\* A pick of `chosen` by seat s that puts `back` into the booster.
LEMMA GainStep ==
    ASSUME PassInv, status = "Drafting", NEW s \in Seats,
           NEW chosen \in SUBSET currentPack[s], chosen # {},
           NEW back \in SUBSET pools[s], IsFiniteSet(back), \A c, d \in back : c = d,
           pools' = Swapped(pools, s, back, chosen),
           FinishPick(s, Swapped(currentPack, s, chosen, back)),
           cardsPerPick' = cardsPerPick
    PROVE  PassInv' /\ Draft!Next
  <1> DEFINE R == Swapped(currentPack, s, chosen, back)
  <1>1. Good(currentPack, packsBySeat, pools)
    BY DEF PassInv
  <1>2. /\ Good(R, packsBySeat, pools')
        /\ \A c : OnTable(R, packsBySeat, c)
             <=> ((OnTable(currentPack, packsBySeat, c) /\ c \notin chosen) \/ c \in back)
    BY <1>1, PickingKeeps
  <1>3. FinishPick(s, R)
    OBVIOUS
  <1> HIDE DEF R
  <1>4. /\ PassInv'
        /\ \A c : c \in Table' <=> OnTable(R, packsBySeat, c)
        /\ status' \in {"Drafting", "Deckbuilding"}
        /\ status' = "Deckbuilding" <=> \A c : ~OnTable(R, packsBySeat, c)
    BY <1>2, <1>3, FinishKeeps
  <1>5. \A c : c \in Table <=> OnTable(currentPack, packsBySeat, c)
    BY TableWhileDrafting
  <1>6. \A c : c \in Table' <=> OnTable(R, packsBySeat, c)
    BY <1>4
  <1>7. Table' = (Table \ chosen) \cup back
    BY <1>2, <1>5, <1>6
  <1>8. chosen \subseteq Table
    BY <1>5 DEF OnTable
  <1>9. status' = "Deckbuilding" <=> Table' = {}
    BY <1>4, <1>6
  <1>10. Draft!Gain(s, chosen, back)
    BY <1>4, <1>7, <1>8, <1>9 DEF Draft!Gain, Swapped
  <1> QED
    BY <1>4, <1>8, <1>10 DEF Draft!Next

\* apply_pick takes at least one card and returns none.
LEMMA PickStep ==
    ASSUME PassInv, NEW s \in Seats, NEW chosen \in SUBSET CardsIn(currentPack[s]),
           Pick(s, chosen)
    PROVE  PassInv' /\ Draft!Next
  <1>1. status = "Drafting" /\ Good(currentPack, packsBySeat, pools)
    BY DEF Pick, MayPick, PassInv
  <1>2. CardsIn(currentPack[s]) = currentPack[s] /\ IsFiniteSet(currentPack[s])
    BY <1>1, CardsInBooster DEF Good, RealBoosters
  <1>3. chosen # {}
    <2>1. currentPack[s] # {}
      BY <1>2 DEF Pick, OwesPick
    <2>2. Cardinality(currentPack[s]) \in Nat /\ Cardinality(currentPack[s]) # 0
      BY <1>2, <2>1, FS_CardinalityType, FS_EmptySet
    <2>3. cardsPerPick \in {1, 2}
      BY PodAssumption DEF PodAssumption, PassInv, TypeOK
    <2>4. RequiredPickCount(s) # 0
      BY <1>2, <2>2, <2>3 DEF RequiredPickCount
    <2> QED
      BY <2>4, FS_EmptySet DEF Pick
  <1>4. pools \in [Seats -> SUBSET Cards] /\ currentPack \in [Seats -> SUBSET Cards]
    BY <1>1 DEF Good, Boosters
  <1>5. /\ pools' = Swapped(pools, s, {}, chosen)
        /\ Swapped(currentPack, s, chosen, {}) = [currentPack EXCEPT ![s] = @ \ chosen]
    BY <1>4 DEF Pick, Swapped
  <1>6. FinishPick(s, Swapped(currentPack, s, chosen, {}))
    BY <1>5 DEF Pick
  <1>7. cardsPerPick' = cardsPerPick /\ IsFiniteSet({})
    BY FS_EmptySet DEF Pick
  <1> QED
    BY <1>1, <1>2, <1>3, <1>5, <1>6, <1>7, GainStep

\* apply_pick_with_draft_effect takes two cards and returns the effect card.
LEMMA EffectStep ==
    ASSUME PassInv, NEW s \in Seats, NEW effect \in pools[s] \cap EffectCards,
           NEW chosen \in SUBSET CardsIn(currentPack[s]), PickWithDraftEffect(s, effect, chosen)
    PROVE  PassInv' /\ Draft!Next
  <1>1. status = "Drafting" /\ Good(currentPack, packsBySeat, pools)
    BY DEF PickWithDraftEffect, MayPick, PassInv
  <1>2. CardsIn(currentPack[s]) = currentPack[s]
    BY <1>1, CardsInBooster DEF Good
  <1>3. chosen # {}
    BY FS_EmptySet DEF PickWithDraftEffect
  <1>4. pools' = Swapped(pools, s, {effect}, chosen)
    BY DEF PickWithDraftEffect, PoolAfterEffect, Swapped
  <1>5. /\ FinishPick(s, Swapped(currentPack, s, chosen, {effect}))
        /\ cardsPerPick' = cardsPerPick
    BY DEF PickWithDraftEffect, Swapped
  <1>6. IsFiniteSet({effect}) /\ {effect} \in SUBSET pools[s] /\ \A c, d \in {effect} : c = d
    BY FS_Singleton
  <1> QED
    BY <1>1, <1>2, <1>3, <1>4, <1>5, <1>6, GainStep

\* Every step preserves the invariant and is a step of CardDraft.
LEMMA PassStep ==
    ASSUME PassInv, [Next]_vars
    PROVE  PassInv' /\ [Draft!Next]_(Draft!vars)
  <1>1. CASE UNCHANGED vars
    <2>1. PassInv'
      BY <1>1
      DEF vars, PassInv, TypeOK, Good, Apart, SeatsApart, DraftedApart, UnopenedApart,
          BoostersApart, RealBoosters, RoundsLeft, RoundComplete, OwesPick, CardsIn
    <2>2. UNCHANGED Draft!vars
      BY <1>1 DEF vars, Draft!vars, Table
    <2> QED
      BY <2>1, <2>2
  <1>2. ASSUME NEW deal \in Deals, StartDraft(deal)
        PROVE  PassInv' /\ Draft!Next
    BY <1>2, StartStep DEF Draft!Next
  <1> QED
    BY <1>1, <1>2, PickStep, EffectStep DEF Next

-----------------------------------------------------------------------------
\* The inductive invariant holds of every reachable state.
THEOREM PassInvariant == Spec => []PassInv
  <1>1. Init => PassInv
    BY PassInit
  <1>2. PassInv /\ [Next]_vars => PassInv'
    BY PassStep
  <1> QED
    BY <1>1, <1>2, PTL DEF Spec

\* Type correctness of the session; while drafting every seat holds a booster
\* and knows who opened it.
THEOREM PassTypeCorrect == Spec => []TypeOK
  <1>1. PassInv => TypeOK
    BY DEF PassInv
  <1> QED
    BY <1>1, PassInvariant, PTL

\* finish_pick never leaves a drafting session in which no seat owes a pick
\* that the reducer would accept.
THEOREM NeverStalls == Spec => []SomeoneOwesPick
  <1>1. ASSUME PassInv
        PROVE  SomeoneOwesPick
    <2> SUFFICES ASSUME status = "Drafting"
                 PROVE  \E s \in Seats :
                            /\ MayPick(s)
                            /\ OwesPick(currentPack, s)
                            /\ RequiredPickCount(s) <= Cardinality(CardsIn(currentPack[s]))
      BY DEF SomeoneOwesPick
    <2>1. PICK s \in Seats : OwesPick(currentPack, s) /\ ~pickedThisRound[s]
      BY <1>1 DEF PassInv, RoundComplete
    <2>2. IsFiniteSet(CardsIn(currentPack[s]))
      BY <1>1, CardsInBooster DEF PassInv, Good, RealBoosters
    <2>3. Cardinality(CardsIn(currentPack[s])) \in Nat
      BY <2>2, FS_CardinalityType
    <2>4. cardsPerPick \in {1, 2}
      BY <1>1, PodAssumption DEF PodAssumption, PassInv, TypeOK
    <2>5. RequiredPickCount(s) <= Cardinality(CardsIn(currentPack[s]))
      BY <2>3, <2>4 DEF RequiredPickCount
    <2> QED
      BY <2>1, <2>5 DEF MayPick
  <1> QED
    BY <1>1, PassInvariant, PTL

\* The pick-and-pass draft implements CardDraft: by PassConserves no card is
\* ever lost, copied or given to a seat that did not pick it.
THEOREM PassImplementsDraft == Spec => ImplementsCardDraft
  <1>1. Init => Draft!Init
    BY PassInit
  <1>2. PassInv /\ [Next]_vars => [Draft!Next]_(Draft!vars)
    BY PassStep
  <1> QED
    BY <1>1, <1>2, PassInvariant, PTL DEF Spec, ImplementsCardDraft, Draft!Spec

-----------------------------------------------------------------------------
(* What the promise of CardDraft is worth: no card is lost or copied.      *)

\* The inductive form: in the lobby nobody has drafted a card.
ConservedInv ==
    /\ Draft!Conserved
    /\ DOMAIN pools = Seats
    /\ (IF status = "Deckbuilding" THEN "Done" ELSE status) = "Lobby" => \A s \in Seats : pools[s] = {}

LEMMA StartConserves ==
    ASSUME ConservedInv, NEW deal \in {CardsOf(deal) : deal \in Deals}, Draft!Start(deal)
    PROVE  ConservedInv'
  BY DEF ConservedInv, Draft!Conserved, Draft!Start

LEMMA GainConserves ==
    ASSUME ConservedInv, NEW s \in Seats, NEW gained, NEW returned,
           Draft!Gain(s, gained, returned)
    PROVE  ConservedInv'
  <1> DEFINE all == UNION {pools[t] : t \in Seats}
  <1>1. pools'[s] = (pools[s] \ returned) \cup gained
    BY DEF Draft!Gain, ConservedInv
  <1>2. \A t \in Seats : t # s => pools'[t] = pools[t]
    BY DEF Draft!Gain, ConservedInv
  <1>3. Table' \cup UNION {pools'[t] : t \in Seats} = Table \cup all
    <2>1. ASSUME NEW c
          PROVE  c \in Table' \cup UNION {pools'[t] : t \in Seats} <=> c \in Table \cup all
      <3>1. c \in all <=> \E t \in Seats : c \in pools[t]
        OBVIOUS
      <3>2. c \in UNION {pools'[t] : t \in Seats} <=> \E t \in Seats : c \in pools'[t]
        OBVIOUS
      <3> QED
        BY <1>1, <1>2, <3>1, <3>2 DEF Draft!Gain
    <2> QED
      BY <2>1
  <1>4. \A t \in Seats : pools'[t] \cap Table' = {}
    BY <1>1, <1>2 DEF Draft!Gain, ConservedInv, Draft!Conserved
  <1>5. \A t, u \in Seats : t # u => pools'[t] \cap pools'[u] = {}
    BY <1>1, <1>2 DEF Draft!Gain, ConservedInv, Draft!Conserved
  <1>6. DOMAIN pools' = Seats
    BY DEF Draft!Gain, ConservedInv
  <1>7. /\ (IF status = "Deckbuilding" THEN "Done" ELSE status) = "Drafting" /\ (IF status' = "Deckbuilding" THEN "Done" ELSE status') # "Lobby"
        /\ (IF status' = "Deckbuilding" THEN "Done" ELSE status') = "Done" => Table' = {}
    BY DEF Draft!Gain
  <1> QED
    BY <1>3, <1>4, <1>5, <1>6, <1>7 DEF ConservedInv, Draft!Conserved

\* No pick, pass, opened booster or draft effect loses or copies a card: the
\* cards of the deal are at all times the disjoint union of the boosters and
\* the seats' pools, and deckbuilding starts when the boosters are empty.
THEOREM PassConserves == Spec => []Draft!Conserved
  <1>1. Draft!Init => ConservedInv
    BY DEF Draft!Init, ConservedInv, Draft!Conserved
  <1>2. ConservedInv /\ [Draft!Next]_(Draft!vars) => ConservedInv'
    <2>1. ASSUME ConservedInv, Draft!Next
          PROVE  ConservedInv'
      BY <2>1, StartConserves, GainConserves DEF Draft!Next
    <2>2. ASSUME ConservedInv, UNCHANGED Draft!vars
          PROVE  ConservedInv'
      BY <2>2 DEF ConservedInv, Draft!Conserved, Draft!vars
    <2> QED
      BY <2>1, <2>2
  <1>3. ConservedInv => Draft!Conserved
    BY DEF ConservedInv
  <1> QED
    BY <1>1, <1>2, <1>3, PassImplementsDraft, PTL DEF ImplementsCardDraft, Draft!Spec

-----------------------------------------------------------------------------
(* finish_pick by its outcomes, for the boosters R after the pick of seat s. *)

Picked(s) == [pickedThisRound EXCEPT ![s] = TRUE]

RoundGoesOn(s, R) ==
    /\ ~RoundComplete(R, Picked(s))
    /\ currentPack' = R /\ pickedThisRound' = Picked(s)
    /\ UNCHANGED <<status, currentPackOrigins, packsBySeat, currentPackNumber, pickNumber>>

RoundPasses(s, R) ==
    /\ RoundComplete(R, Picked(s)) /\ \E t \in Seats : R[t] # {}
    /\ passDirection \in {"Left", "Right"}
    /\ currentPack' = PassedOn(passDirection, R)
    /\ currentPackOrigins' = PassedOn(passDirection, currentPackOrigins)
    /\ pickedThisRound' = [t \in Seats |-> FALSE] /\ pickNumber' = pickNumber + 1
    /\ UNCHANGED <<status, packsBySeat, currentPackNumber>>

NextPacks(R) ==
    /\ \A t \in Seats : R[t] = {} /\ packsBySeat[t] # <<>>
    /\ currentPack' = Opened(packsBySeat) /\ packsBySeat' = StillClosed(packsBySeat)
    /\ currentPackOrigins' = [t \in Seats |-> t]
    /\ pickedThisRound' = [t \in Seats |-> FALSE] /\ pickNumber' = 0
    /\ currentPackNumber' = currentPackNumber + 1 /\ status' = status

LEMMA FinishOutcomes ==
    ASSUME PassInv, status = "Drafting", NEW s \in Seats,
           NEW R, NEW Q, Good(R, packsBySeat, Q), FinishPick(s, R)
    PROVE  RoundGoesOn(s, R) \/ RoundPasses(s, R) \/ NextPacks(R) \/ status' = "Deckbuilding"
  <1>1. /\ R \in Boosters /\ packsBySeat \in Piles /\ RoundsLeft(packsBySeat, currentPackNumber)
        /\ passDirection \in {"Left", "Right"} /\ PackCount \in Nat /\ currentPackNumber \in Nat
    BY PodAssumption DEF PodAssumption, PassInv, TypeOK, Good
  <1>2. \A t \in Seats : OwesPick(R, t) <=> R[t] # {}
    BY <1>1, CardsInBooster DEF OwesPick
  <1>3. CASE ~RoundComplete(R, Picked(s))
    BY <1>3 DEF FinishPick, WaitForOthers, RoundGoesOn, Picked
  <1>4. CASE RoundComplete(R, Picked(s)) /\ \E t \in Seats : R[t] # {}
    BY <1>1, <1>2, <1>4 DEF FinishPick, PassPacks, RoundPasses, Picked
  <1>5. CASE RoundComplete(R, Picked(s)) /\ \A t \in Seats : R[t] = {}
    <2>1. pickedThisRound' = [t \in Seats |-> FALSE] /\ FinishPack(R)
      BY <1>2, <1>5 DEF FinishPick, Picked
    <2>2. CASE currentPackNumber + 1 >= PackCount
      BY <2>1, <2>2 DEF FinishPack, EndDraft
    <2>3. CASE ~(currentPackNumber + 1 >= PackCount)
      <3>1. \A t \in Seats : packsBySeat[t] # <<>>
        <4> SUFFICES ASSUME NEW t \in Seats PROVE packsBySeat[t] # <<>>
          OBVIOUS
        <4>1. Len(packsBySeat[t]) # 0 /\ packsBySeat[t] \in Seq(SUBSET Cards)
          BY <1>1, <2>3 DEF RoundsLeft, Piles
        <4> QED
          BY <4>1
      <3>2. OpenNextPacks(R) /\ currentPackNumber' = currentPackNumber + 1
        BY <2>1, <2>3 DEF FinishPack
      <3>3. /\ currentPack' = Opened(packsBySeat) /\ packsBySeat' = StillClosed(packsBySeat)
            /\ currentPackOrigins' = [t \in Seats |-> t] /\ pickNumber' = 0 /\ status' = status
        BY <3>1, <3>2 DEF OpenNextPacks, Opened, StillClosed
      <3> QED
        BY <1>5, <2>1, <3>1, <3>2, <3>3 DEF NextPacks
    <2> QED
      BY <2>2, <2>3
  <1> QED
    BY <1>3, <1>4, <1>5

\* A vector that was passed on, seat by seat.
LEMMA PassedOnAt ==
    ASSUME NEW direction \in {"Left", "Right"}, NEW f, NEW d \in Seats
    PROVE  PassedOn(direction, f)[d] = f[Previous(direction, d)]
                /\ Previous(direction, d) \in Seats
  BY PassingPermutes DEF PassedOn, Previous

\* The boosters that are opened next.
LEMMA OpenedAt ==
    ASSUME NEW U \in Piles, NEW s \in Seats, U[s] # <<>>
    PROVE  /\ Opened(U)[s] = U[s][1] /\ 1 \in DOMAIN U[s]
           /\ \A i \in DOMAIN StillClosed(U)[s] :
                 /\ i \in Nat /\ i + 1 \in DOMAIN U[s]
                 /\ StillClosed(U)[s][i] = U[s][i + 1]
  <1>1. U[s] \in Seq(SUBSET Cards)
    BY DEF Piles
  <1> QED
    BY <1>1 DEF Opened, StillClosed

-----------------------------------------------------------------------------
(* Boosters and their origins.                                             *)

\* The unopened boosters are those of the deal, and what a seat holds, except
\* for effect cards, is from the booster that its origin opened last.
OriginInv ==
    status = "Drafting" =>
        /\ dealt \in Deals
        /\ \A s \in Seats : \A i \in DOMAIN packsBySeat[s] :
             packsBySeat[s][i] = dealt[s][currentPackNumber + 1 + i]
        /\ \A s \in Seats : currentPack[s] \ EffectCards
             \subseteq dealt[currentPackOrigins[s]][currentPackNumber + 1]

LEMMA OriginStart ==
    ASSUME PassInv, NEW deal \in Deals, StartDraft(deal)
    PROVE  OriginInv'
  <1>1. deal \in Piles /\ \A s \in Seats : deal[s] # <<>>
    BY DealtCards DEF PassInv, TypeOK, StartDraft, Good
  <1>2. /\ currentPack' = Opened(deal) /\ packsBySeat' = StillClosed(deal)
        /\ currentPackOrigins' = [s \in Seats |-> s] /\ currentPackNumber' = 0 /\ dealt' = deal
    BY DEF StartDraft, Opened, StillClosed
  <1>3. ASSUME NEW s \in Seats, NEW i \in DOMAIN packsBySeat'[s]
        PROVE  packsBySeat'[s][i] = dealt'[s][currentPackNumber' + 1 + i]
    <2>1. i \in Nat /\ packsBySeat'[s][i] = deal[s][i + 1] /\ 0 + 1 + i = i + 1
      BY <1>1, <1>2, OpenedAt
    <2> QED
      BY <1>2, <2>1
  <1>4. ASSUME NEW s \in Seats
        PROVE  currentPack'[s] = dealt'[currentPackOrigins'[s]][currentPackNumber' + 1]
    BY <1>1, <1>2, OpenedAt
  <1> QED
    BY <1>2, <1>3, <1>4 DEF OriginInv

LEMMA OriginGain ==
    ASSUME PassInv, OriginInv, status = "Drafting", NEW s \in Seats,
           NEW chosen \in SUBSET currentPack[s],
           NEW back \in SUBSET pools[s], back \subseteq EffectCards, IsFiniteSet(back),
           FinishPick(s, Swapped(currentPack, s, chosen, back)), dealt' = dealt
    PROVE  OriginInv'
  <1> DEFINE R == Swapped(currentPack, s, chosen, back)
  <1>1. /\ Good(currentPack, packsBySeat, pools)
        /\ currentPack \in Boosters /\ packsBySeat \in Piles /\ currentPackNumber \in Nat
    BY PodAssumption DEF PodAssumption, PassInv, TypeOK, Good
  <1>2. Good(R, packsBySeat, Swapped(pools, s, back, chosen))
    BY <1>1, PickingKeeps
  <1>3. \A t \in Seats : R[t] \ EffectCards
          \subseteq dealt[currentPackOrigins[t]][currentPackNumber + 1]
    <2>1. \A t \in Seats : R[t] \ EffectCards \subseteq currentPack[t] \ EffectCards
      BY <1>1 DEF Swapped, Boosters
    <2> QED
      BY <2>1 DEF OriginInv
  <1>4. FinishPick(s, R)
    OBVIOUS
  <1> HIDE DEF R
  <1>5. RoundGoesOn(s, R) \/ RoundPasses(s, R) \/ NextPacks(R) \/ status' = "Deckbuilding"
    BY <1>2, <1>4, FinishOutcomes
  <1>6. CASE RoundGoesOn(s, R)
    BY <1>3, <1>6 DEF RoundGoesOn, OriginInv
  <1>7. CASE RoundPasses(s, R)
    <2>1. \A d \in Seats : currentPack'[d] \ EffectCards
            \subseteq dealt'[currentPackOrigins'[d]][currentPackNumber' + 1]
      BY <1>3, <1>7, PassedOnAt DEF RoundPasses
    <2> QED
      BY <1>7, <2>1 DEF RoundPasses, OriginInv
  <1>8. CASE NextPacks(R)
    <2>1. ASSUME NEW t \in Seats
          PROVE  /\ currentPack'[t] = packsBySeat[t][1]
                 /\ packsBySeat[t][1] = dealt[t][currentPackNumber + 1 + 1]
      BY <1>1, <1>8, OpenedAt DEF NextPacks, OriginInv
    <2>2. ASSUME NEW t \in Seats, NEW i \in DOMAIN packsBySeat'[t]
          PROVE  packsBySeat'[t][i] = dealt'[t][currentPackNumber' + 1 + i]
      <3>1. i \in Nat /\ i + 1 \in DOMAIN packsBySeat[t] /\ packsBySeat'[t][i] = packsBySeat[t][i + 1]
        BY <1>1, <1>8, OpenedAt DEF NextPacks
      <3>2. packsBySeat[t][i + 1] = dealt[t][currentPackNumber + 1 + (i + 1)]
        BY <3>1 DEF OriginInv
      <3>3. currentPackNumber + 1 + (i + 1) = currentPackNumber' + 1 + i
        BY <1>1, <1>8, <3>1 DEF NextPacks
      <3> QED
        BY <3>1, <3>2, <3>3
    <2> QED
      BY <1>8, <2>1, <2>2 DEF NextPacks, OriginInv
  <1>9. CASE status' = "Deckbuilding"
    BY <1>9 DEF OriginInv
  <1> QED
    BY <1>5, <1>6, <1>7, <1>8, <1>9

LEMMA OriginStep ==
    ASSUME PassInv, OriginInv, [Next]_vars
    PROVE  OriginInv'
  <1>1. CASE UNCHANGED vars
    BY <1>1 DEF vars, OriginInv
  <1>2. ASSUME NEW s \in Seats, NEW chosen \in SUBSET CardsIn(currentPack[s]), Pick(s, chosen)
        PROVE  OriginInv'
    <2>1. /\ status = "Drafting" /\ currentPack \in Boosters /\ dealt' = dealt
          /\ FinishPick(s, [currentPack EXCEPT ![s] = @ \ chosen])
      BY <1>2 DEF Pick, MayPick, PassInv, Good
    <2>2. Swapped(currentPack, s, chosen, {}) = [currentPack EXCEPT ![s] = @ \ chosen]
      BY <2>1 DEF Swapped, Boosters
    <2>3. chosen \in SUBSET currentPack[s] /\ IsFiniteSet({})
      BY <2>1, CardsInBooster, FS_EmptySet
    <2>4. FinishPick(s, Swapped(currentPack, s, chosen, {}))
      BY <2>1, <2>2
    <2> QED
      BY <2>1, <2>3, <2>4, OriginGain
  <1>3. ASSUME NEW s \in Seats, NEW effect \in pools[s] \cap EffectCards,
               NEW chosen \in SUBSET CardsIn(currentPack[s]),
               PickWithDraftEffect(s, effect, chosen)
        PROVE  OriginInv'
    <2>1. /\ status = "Drafting" /\ currentPack \in Boosters /\ dealt' = dealt
          /\ FinishPick(s, Swapped(currentPack, s, chosen, {effect}))
      BY <1>3 DEF PickWithDraftEffect, MayPick, PassInv, Good, Swapped
    <2>2. /\ chosen \in SUBSET currentPack[s] /\ IsFiniteSet({effect})
          /\ {effect} \in SUBSET pools[s] /\ {effect} \subseteq EffectCards
      BY <2>1, CardsInBooster, FS_Singleton
    <2> QED
      BY <2>1, <2>2, OriginGain
  <1> QED
    BY <1>1, <1>2, <1>3, OriginStart DEF Next

LEMMA OriginAlways == Spec => []OriginInv
  <1>1. Init => OriginInv
    BY DEF Init, OriginInv
  <1> QED
    BY <1>1, OriginStep, PassInvariant, PTL DEF Spec

\* finish_pick rotates current_pack and current_pack_origins in step: whatever
\* the order of the picks, the cards a seat holds are of the booster that the
\* seat named as their origin opened, effect cards aside.
THEOREM OriginsTravel == Spec => []OriginTellsPack
  <1>1. PassInv /\ OriginInv => OriginTellsPack
    BY CardsInBooster DEF PassInv, Good, OriginInv, OriginTellsPack
  <1> QED
    BY <1>1, PassInvariant, OriginAlways, PTL

-----------------------------------------------------------------------------
(* Equal shares.                                                           *)

Turns(s) == IF pickedThisRound[s] THEN pickNumber + 1 ELSE pickNumber

Size == PackSize(currentPackNumber + 1)

\* Boosters alike, and an additional pick worth as much as a pick.
EvenDeal == UniformDeal /\ (cardsPerPick = 1 \/ CardsOf(dealt) \cap EffectCards = {})

\* Every seat has the same share, and so has every booster: what is gone from
\* the booster a seat holds is what a seat with as many turns has taken.
SharesInv ==
    status = "Drafting" =>
        /\ IsFiniteSet(Emptied)
        /\ \A s \in Seats : /\ IsFiniteSet(pools[s]) /\ pools[s] \subseteq CardsOf(dealt)
                             /\ currentPack[s] \subseteq CardsOf(dealt)
        /\ EvenDeal => \A s \in Seats :
             /\ Cardinality(pools[s]) = FairPool(Turns(s))
             /\ Cardinality(currentPack[s]) = Size - Smaller(cardsPerPick * Turns(s), Size)

\* The boosters of a deal.
LEMMA DealtBoosters ==
    ASSUME NEW deal \in Deals, NEW s \in Seats, NEW i \in 1 .. PackCount
    PROVE  /\ deal[s][i] \subseteq CardsOf(deal) /\ IsFiniteSet(deal[s][i])
           /\ Cardinality(deal[s][i]) \in Nat
           /\ \A t \in Seats, j \in 1 .. PackCount :
                 s # t \/ i # j => deal[s][i] \cap deal[t][j] = {}
  <1>1. /\ deal \in [Seats -> Seq(SUBSET CardsOf(deal))] /\ Len(deal[s]) = PackCount
        /\ \A t, u \in Seats, k, j \in 1 .. PackCount :
              /\ IsFiniteSet(deal[t][k])
              /\ <<t, k>> # <<u, j>> => deal[t][k] \cap deal[u][j] = {}
    BY DealAssumption DEF DealAssumption
  <1>2. deal[s] \in Seq(SUBSET CardsOf(deal))
    BY <1>1
  <1>3. deal[s][i] \subseteq CardsOf(deal)
    BY <1>1, <1>2
  <1>4. IsFiniteSet(deal[s][i]) /\ Cardinality(deal[s][i]) \in Nat
    BY <1>1, FS_CardinalityType
  <1>5. ASSUME NEW t \in Seats, NEW j \in 1 .. PackCount, s # t \/ i # j
        PROVE  deal[s][i] \cap deal[t][j] = {}
    <2>1. <<s, i>> # <<t, j>>
      BY <1>5
    <2> QED
      BY <1>1, <2>1
  <1> QED
    BY <1>3, <1>4, <1>5

\* The size of a set that loses some of its members and gets others.
LEMMA SwappedSize ==
    ASSUME NEW A, IsFiniteSet(A), NEW out \in SUBSET A, NEW in, IsFiniteSet(in), in \cap A = {}
    PROVE  /\ IsFiniteSet((A \ out) \cup in)
           /\ Cardinality((A \ out) \cup in) = Cardinality(A) - Cardinality(out) + Cardinality(in)
           /\ Cardinality(A) \in Nat /\ Cardinality(out) \in Nat /\ Cardinality(in) \in Nat
           /\ Cardinality(out) <= Cardinality(A)
  <1>1. IsFiniteSet(out) /\ Cardinality(out) <= Cardinality(A)
    BY FS_Subset
  <1>2. Cardinality(A) \in Nat /\ Cardinality(out) \in Nat /\ Cardinality(in) \in Nat
    BY <1>1, FS_CardinalityType
  <1>3. A \cap out = out /\ (A \ out) \cap in = {}
    OBVIOUS
  <1>4. IsFiniteSet(A \ out) /\ Cardinality(A \ out) = Cardinality(A) - Cardinality(out)
    BY <1>3, FS_Difference
  <1>5. /\ IsFiniteSet((A \ out) \cup in)
        /\ Cardinality((A \ out) \cup in)
             = Cardinality(A \ out) + Cardinality(in) - Cardinality((A \ out) \cap in)
    BY <1>4, FS_Union
  <1>6. Cardinality((A \ out) \cap in) = 0
    BY <1>3, FS_EmptySet
  <1> QED
    BY <1>1, <1>2, <1>4, <1>5, <1>6

\* A turn takes what cards_per_pick says, or the rest of the booster.
LEMMA OneTurn ==
    ASSUME NEW each \in {1, 2}, NEW m \in Nat, NEW size \in Nat
    PROVE  /\ Smaller(each * m, size) \in 0 .. size
           /\ Smaller(each * (m + 1), size) \in 0 .. size
           /\ Smaller(each * m, size) <= Smaller(each * (m + 1), size)
           /\ Smaller(each * (m + 1), size) = Smaller(each * m, size)
                + (IF size - Smaller(each * m, size) < each
                   THEN size - Smaller(each * m, size) ELSE each)
  <1>1. CASE each = 1
    BY <1>1 DEF Smaller
  <1>2. CASE each = 2
    BY <1>2 DEF Smaller
  <1> QED
    BY <1>1, <1>2

\* A seat's turns once seat s has picked.
TurnsAfter(s, t) == IF Picked(s)[t] THEN pickNumber + 1 ELSE pickNumber

\* What the round's numbers are.
LEMMA RoundNumbers ==
    ASSUME PassInv, OriginInv, status = "Drafting"
    PROVE  /\ dealt \in Deals /\ cardsPerPick \in {1, 2} /\ pickNumber \in Nat /\ 0 \in Seats
           /\ currentPackNumber \in Nat /\ currentPackNumber + 1 \in 1 .. PackCount
           /\ PackCount \in Nat /\ Size \in Nat /\ pickedThisRound \in [Seats -> BOOLEAN]
  <1>1. /\ dealt \in Deals /\ cardsPerPick \in {1, 2} /\ pickNumber \in Nat /\ 0 \in Seats
        /\ currentPackNumber \in Nat /\ currentPackNumber + 1 \in 1 .. PackCount
        /\ PackCount \in Nat /\ pickedThisRound \in [Seats -> BOOLEAN]
    <2>1. PackCount \in Nat /\ 0 \in Seats /\ PickCounts \subseteq {1, 2}
      BY PodAssumption DEF PodAssumption, Seats
    <2>2. /\ cardsPerPick \in PickCounts /\ pickNumber \in Nat
          /\ pickedThisRound \in [Seats -> BOOLEAN] /\ currentPackNumber \in 0 .. PackCount - 1
      BY DEF PassInv, TypeOK, RoundsLeft
    <2> QED
      BY <2>1, <2>2 DEF OriginInv
  <1> QED
    BY <1>1, DealtBoosters DEF Size, PackSize

\* finish_pick moves boosters, and shares stay equal.
LEMMA SharesFinish ==
    ASSUME PassInv, OriginInv, status = "Drafting", NEW s \in Seats,
           NEW R, NEW Q, Good(R, packsBySeat, Q), FinishPick(s, R),
           pools' = Q, UNCHANGED <<cardsPerPick, dealt>>, IsFiniteSet(Emptied),
           \A t \in Seats : /\ IsFiniteSet(Q[t]) /\ Q[t] \subseteq CardsOf(dealt)
                            /\ R[t] \subseteq CardsOf(dealt),
           EvenDeal => \A t \in Seats :
             /\ Cardinality(Q[t]) = FairPool(TurnsAfter(s, t))
             /\ Cardinality(R[t]) = Size - Smaller(cardsPerPick * TurnsAfter(s, t), Size)
    PROVE  SharesInv'
  <1>1. /\ dealt \in Deals /\ cardsPerPick \in {1, 2} /\ pickNumber \in Nat /\ 0 \in Seats
        /\ currentPackNumber \in Nat /\ currentPackNumber + 1 \in 1 .. PackCount
        /\ PackCount \in Nat /\ Size \in Nat /\ pickedThisRound \in [Seats -> BOOLEAN]
    BY RoundNumbers
  <1>2. RoundGoesOn(s, R) \/ RoundPasses(s, R) \/ NextPacks(R) \/ status' = "Deckbuilding"
    BY FinishOutcomes
  <1>3. EvenDeal' = EvenDeal
    BY DEF EvenDeal, UniformDeal, PackSize, CardsOf, ToSet
  <1>4. Picked(s) \in [Seats -> BOOLEAN]
    BY <1>1 DEF Picked
  <1>5. CASE RoundGoesOn(s, R)
    <2>1. UNCHANGED <<Emptied, Size>> /\ \A m : FairPool(m)' = FairPool(m)
      BY <1>5 DEF RoundGoesOn, Emptied, Size, PackSize, FairPool
    <2>2. \A t \in Seats : Turns(t)' = TurnsAfter(s, t)
      BY <1>5 DEF RoundGoesOn, Turns, TurnsAfter
    <2> QED
      BY <1>3, <1>5, <2>1, <2>2 DEF RoundGoesOn, SharesInv, FairPool, Emptied, Size, PackSize, Smaller
  <1>6. CASE RoundPasses(s, R)
    <2>1. UNCHANGED <<Emptied, Size>>
      BY <1>6 DEF RoundPasses, Emptied, Size, PackSize
    <2>2. \A t \in Seats : Turns(t)' = pickNumber + 1
      BY <1>6 DEF RoundPasses, Turns
    <2>3. \A d \in Seats : currentPack'[d] \subseteq CardsOf(dealt')
      BY <1>6, PassedOnAt DEF RoundPasses
    <2>4. ASSUME EvenDeal
          PROVE  \A t \in Seats : TurnsAfter(s, t) = pickNumber + 1
      <3> SUFFICES ASSUME NEW u \in Seats, ~Picked(s)[u] PROVE FALSE
        BY DEF TurnsAfter
      <3>1. PICK t \in Seats : R[t] # {}
        BY <1>6 DEF RoundPasses
      <3>2. R \in Boosters /\ IsFiniteSet(R[t]) /\ IsFiniteSet(R[u])
        BY DEF Good, RealBoosters
      <3>3. R[u] = {}
        BY <1>6, <3>2, CardsInBooster DEF RoundPasses, RoundComplete, OwesPick
      <3>4. Cardinality(R[u]) = 0 /\ Cardinality(R[t]) \in Nat /\ Cardinality(R[t]) # 0
        BY <3>1, <3>2, <3>3, FS_EmptySet, FS_CardinalityType
      <3>5. Size - Smaller(cardsPerPick * pickNumber, Size) = 0
        BY <2>4, <3>4 DEF TurnsAfter
      <3>6. Size - Smaller(cardsPerPick * TurnsAfter(s, t), Size) # 0
        BY <2>4, <3>4
      <3>7. TurnsAfter(s, t) = pickNumber + 1
        BY <3>5, <3>6 DEF TurnsAfter
      <3>8. /\ Smaller(cardsPerPick * pickNumber, Size) \in 0 .. Size
            /\ Smaller(cardsPerPick * (pickNumber + 1), Size) \in 0 .. Size
            /\ Smaller(cardsPerPick * pickNumber, Size)
                 <= Smaller(cardsPerPick * (pickNumber + 1), Size)
        BY <1>1, OneTurn
      <3> QED
        BY <1>1, <3>5, <3>6, <3>7, <3>8
    <2>5. ASSUME EvenDeal, NEW d \in Seats
          PROVE  /\ Cardinality(pools'[d]) = FairPool(Turns(d))'
                 /\ Cardinality(currentPack'[d])
                      = Size' - Smaller(cardsPerPick' * Turns(d)', Size')
      <3>1. /\ Cardinality(Q[d]) = FairPool(pickNumber + 1)
            /\ Cardinality(R[Previous(passDirection, d)])
                 = Size - Smaller(cardsPerPick * (pickNumber + 1), Size)
        BY <1>6, <2>4, <2>5, PassedOnAt DEF RoundPasses
      <3>2. currentPack'[d] = R[Previous(passDirection, d)]
        BY <1>6, PassedOnAt DEF RoundPasses
      <3> QED
        BY <2>1, <2>2, <3>1, <3>2 DEF FairPool, Size
    <2> QED
      BY <1>3, <1>6, <2>1, <2>3, <2>5 DEF RoundPasses, SharesInv
  <1>7. CASE NextPacks(R)
    <2> DEFINE last == dealt[0][currentPackNumber + 1]
    <2>1. packsBySeat \in Piles /\ RoundsLeft(packsBySeat, currentPackNumber)
      BY DEF Good, PassInv
    <2>2. currentPackNumber' + 1 \in 1 .. PackCount /\ currentPackNumber' = currentPackNumber + 1
      <3>1. packsBySeat[0] # <<>> /\ packsBySeat[0] \in Seq(SUBSET Cards)
        BY <1>1, <1>7, <2>1 DEF NextPacks, Piles
      <3>2. Len(packsBySeat[0]) \in Nat /\ Len(packsBySeat[0]) # 0
        BY <3>1
      <3>3. Len(packsBySeat[0]) = PackCount - 1 - currentPackNumber
        BY <1>1, <2>1 DEF RoundsLeft
      <3> QED
        BY <1>1, <1>7, <3>2, <3>3 DEF NextPacks
    <2>3. ASSUME NEW t \in Seats
          PROVE  currentPack'[t] = dealt[t][currentPackNumber' + 1]
      BY <1>7, <2>1, <2>2, OpenedAt DEF NextPacks, OriginInv
    <2>4. \A t \in Seats : currentPack'[t] \subseteq CardsOf(dealt')
      BY <1>1, <2>2, <2>3, DealtBoosters
    <2>5. Emptied' = Emptied \cup last /\ Emptied \cap last = {} /\ IsFiniteSet(last)
      <3>1. Emptied' = UNION {dealt[0][n] : n \in 1 .. currentPackNumber + 1}
        BY <2>2 DEF Emptied
      <3>2. 1 .. currentPackNumber + 1 = (1 .. currentPackNumber) \cup {currentPackNumber + 1}
        BY <1>1
      <3>3. \A n \in 1 .. currentPackNumber : n \in 1 .. PackCount /\ n # currentPackNumber + 1
        BY <1>1
      <3>4. \A n \in 1 .. currentPackNumber : dealt[0][n] \cap last = {}
        BY <1>1, <3>3, DealtBoosters
      <3>5. IsFiniteSet(last)
        BY <1>1, DealtBoosters
      <3>6. Emptied' = Emptied \cup last
        BY <3>1, <3>2 DEF Emptied
      <3> QED
        BY <3>4, <3>5, <3>6 DEF Emptied
    <2> HIDE DEF last
    <2>6. /\ IsFiniteSet(Emptied') /\ Cardinality(Emptied) \in Nat /\ Cardinality(last) \in Nat
          /\ Cardinality(Emptied') = Cardinality(Emptied) + Cardinality(last)
      <3>1. Cardinality(Emptied) \in Nat /\ Cardinality(last) \in Nat
        BY <2>5, FS_CardinalityType
      <3>2. /\ IsFiniteSet(Emptied \cup last)
            /\ Cardinality(Emptied \cup last)
                 = Cardinality(Emptied) + Cardinality(last) - Cardinality(Emptied \cap last)
        BY <2>5, FS_Union
      <3>3. Cardinality(Emptied \cap last) = 0
        BY <2>5, FS_EmptySet
      <3> QED
        BY <2>5, <3>1, <3>2, <3>3
    <2>7. ASSUME EvenDeal, NEW t \in Seats
          PROVE  /\ Cardinality(pools'[t]) = FairPool(Turns(t))'
                 /\ Cardinality(currentPack'[t])
                      = Size' - Smaller(cardsPerPick' * Turns(t)', Size')
      <3>1. Turns(t)' = 0 /\ Size' = PackSize(currentPackNumber' + 1) /\ Size' \in Nat
        BY <1>1, <1>7, <2>2, DealtBoosters DEF NextPacks, Turns, Size, PackSize
      <3>2. Smaller(cardsPerPick' * Turns(t)', Size') = 0
        BY <1>1, <3>1 DEF Smaller
      <3>3. Cardinality(currentPack'[t]) = Size'
        BY <2>2, <2>3, <2>7, <3>1 DEF EvenDeal, UniformDeal
      <3>4. Cardinality(R[t]) = 0
        BY <1>7, FS_EmptySet DEF NextPacks
      <3>5. Smaller(cardsPerPick * TurnsAfter(s, t), Size) = Size
        <4>1. TurnsAfter(s, t) = pickNumber \/ TurnsAfter(s, t) = pickNumber + 1
          BY DEF TurnsAfter
        <4>2. Smaller(cardsPerPick * TurnsAfter(s, t), Size) \in 0 .. Size
          BY <1>1, <4>1, OneTurn
        <4>3. Size - Smaller(cardsPerPick * TurnsAfter(s, t), Size) = 0
          BY <2>7, <3>4
        <4> QED
          BY <1>1, <4>2, <4>3
      <3>6. Cardinality(Q[t]) = Cardinality(Emptied) + Size
        BY <2>7, <3>5 DEF FairPool, Size
      <3>7. Size = Cardinality(last)
        BY DEF Size, PackSize, last
      <3>8. FairPool(Turns(t))' = Cardinality(Emptied') + 0
        BY <3>2 DEF FairPool, Size
      <3> QED
        BY <2>6, <3>1, <3>2, <3>3, <3>6, <3>7, <3>8
    <2> QED
      BY <1>3, <1>7, <2>4, <2>6, <2>7 DEF NextPacks, SharesInv
  <1>8. CASE status' = "Deckbuilding"
    BY <1>8 DEF SharesInv
  <1> QED
    BY <1>2, <1>5, <1>6, <1>7, <1>8

\* A pick nets what a turn is worth, for the pool and for the booster.
LEMMA SharesGain ==
    ASSUME PassInv, OriginInv, SharesInv, NEW s \in Seats, MayPick(s),
           NEW chosen \in SUBSET currentPack[s],
           NEW back \in SUBSET pools[s], IsFiniteSet(back),
           EvenDeal => Cardinality(chosen) = RequiredPickCount(s) + Cardinality(back),
           pools' = Swapped(pools, s, back, chosen),
           FinishPick(s, Swapped(currentPack, s, chosen, back)),
           UNCHANGED <<cardsPerPick, dealt>>
    PROVE  SharesInv'
  <1> DEFINE R == Swapped(currentPack, s, chosen, back)
             Q == Swapped(pools, s, back, chosen)
  <1>1. status = "Drafting" /\ ~pickedThisRound[s]
    BY DEF MayPick
  <1>2. /\ dealt \in Deals /\ cardsPerPick \in {1, 2} /\ pickNumber \in Nat /\ 0 \in Seats
        /\ Size \in Nat /\ pickedThisRound \in [Seats -> BOOLEAN]
    BY <1>1, RoundNumbers
  <1>3. Good(currentPack, packsBySeat, pools)
    BY <1>1 DEF PassInv
  <1>4. Good(R, packsBySeat, Q)
    BY <1>3, PickingKeeps
  <1>5. /\ R[s] = (currentPack[s] \ chosen) \cup back /\ Q[s] = (pools[s] \ back) \cup chosen
        /\ \A t \in Seats : t # s => R[t] = currentPack[t] /\ Q[t] = pools[t]
    BY <1>3 DEF Good, Boosters, Swapped
  <1>6. FinishPick(s, R) /\ pools' = Q
    OBVIOUS
  <1> HIDE DEF R, Q
  <1>7. /\ IsFiniteSet(currentPack[s]) /\ currentPack[s] \in SUBSET Cards
        /\ CardsIn(currentPack[s]) = currentPack[s]
        /\ pools[s] \cap currentPack[s] = {} /\ IsFiniteSet(pools[s])
    BY <1>1, <1>3, CardsInBooster DEF Good, RealBoosters, Apart, DraftedApart, Boosters, SharesInv
  <1>8. /\ Cardinality(R[s])
             = Cardinality(currentPack[s]) - Cardinality(chosen) + Cardinality(back)
        /\ Cardinality(currentPack[s]) \in Nat /\ Cardinality(chosen) \in Nat
        /\ Cardinality(back) \in Nat
    <2>1. back \cap currentPack[s] = {}
      BY <1>7
    <2>2. /\ Cardinality((currentPack[s] \ chosen) \cup back)
               = Cardinality(currentPack[s]) - Cardinality(chosen) + Cardinality(back)
          /\ Cardinality(currentPack[s]) \in Nat /\ Cardinality(chosen) \in Nat
          /\ Cardinality(back) \in Nat
      BY <1>7, <2>1, SwappedSize
    <2> QED
      BY <1>5, <2>2, Zenon
  <1>9. /\ IsFiniteSet(Q[s]) /\ Cardinality(pools[s]) \in Nat
        /\ Cardinality(Q[s]) = Cardinality(pools[s]) - Cardinality(back) + Cardinality(chosen)
    <2>1. chosen \cap pools[s] = {} /\ IsFiniteSet(chosen) /\ IsFiniteSet(pools[s])
      BY <1>7, FS_Subset
    <2>2. /\ IsFiniteSet((pools[s] \ back) \cup chosen) /\ Cardinality(pools[s]) \in Nat
          /\ Cardinality((pools[s] \ back) \cup chosen)
               = Cardinality(pools[s]) - Cardinality(back) + Cardinality(chosen)
      BY <2>1, SwappedSize
    <2> QED
      BY <1>5, <2>2, Zenon
  <1>10. \A t \in Seats : /\ IsFiniteSet(Q[t]) /\ Q[t] \subseteq CardsOf(dealt)
                          /\ R[t] \subseteq CardsOf(dealt)
    BY <1>1, <1>5, <1>9 DEF SharesInv
  <1>11. ASSUME EvenDeal, NEW t \in Seats
         PROVE  /\ Cardinality(Q[t]) = FairPool(TurnsAfter(s, t))
                /\ Cardinality(R[t]) = Size - Smaller(cardsPerPick * TurnsAfter(s, t), Size)
    <2>1. CASE t # s
      <3>1. TurnsAfter(s, t) = Turns(t)
        BY <1>2, <2>1 DEF TurnsAfter, Turns, Picked
      <3> QED
        BY <1>1, <1>5, <1>11, <2>1, <3>1 DEF SharesInv
    <2>2. CASE t = s
      <3> DEFINE before == Smaller(cardsPerPick * pickNumber, Size)
                 after == Smaller(cardsPerPick * (pickNumber + 1), Size)
      <3>1. TurnsAfter(s, s) = pickNumber + 1 /\ Turns(s) = pickNumber
        BY <1>1, <1>2 DEF TurnsAfter, Turns, Picked
      <3>2. /\ Cardinality(pools[s]) = Cardinality(Emptied) + before
            /\ Cardinality(currentPack[s]) = Size - before
        BY <1>1, <1>11, <3>1 DEF SharesInv, FairPool, Size
      <3>3. /\ before \in 0 .. Size /\ after \in 0 .. Size
            /\ after = before + (IF Size - before < cardsPerPick THEN Size - before
                                 ELSE cardsPerPick)
        BY <1>2, OneTurn
      <3>4. RequiredPickCount(s) = after - before
        <4>1. RequiredPickCount(s) = IF Size - before < cardsPerPick THEN Size - before
                                     ELSE cardsPerPick
          BY <1>7, <3>2 DEF RequiredPickCount
        <4> HIDE DEF before, after
        <4> QED
          BY <1>2, <3>3, <4>1
      <3>5. IsFiniteSet(Emptied) /\ Cardinality(Emptied) \in Nat
        BY <1>1, FS_CardinalityType DEF SharesInv
      <3>6. FairPool(pickNumber + 1) = Cardinality(Emptied) + after
        BY DEF FairPool, Size
      <3> HIDE DEF before, after
      <3>7. Cardinality(Q[s]) = Cardinality(Emptied) + after /\ Cardinality(R[s]) = Size - after
        BY <1>2, <1>8, <1>9, <1>11, <3>2, <3>3, <3>4, <3>5
      <3> QED
        BY <2>2, <3>1, <3>6, <3>7 DEF after
    <2> QED
      BY <2>1, <2>2
  <1>12. IsFiniteSet(Emptied)
    BY <1>1 DEF SharesInv
  <1> QED
    BY <1>1, <1>4, <1>6, <1>10, <1>11, <1>12, SharesFinish

LEMMA SharesStart ==
    ASSUME PassInv, NEW deal \in Deals, StartDraft(deal)
    PROVE  SharesInv'
  <1>1. /\ deal \in Piles /\ \A s \in Seats : deal[s] # <<>>
        /\ PackCount \in Nat /\ 1 \in 1 .. PackCount /\ 0 \in Seats
    <2>1. deal \in Piles /\ \A s \in Seats : deal[s] # <<>>
      BY DealtCards DEF PassInv, TypeOK, StartDraft, Good
    <2>2. PackCount \in Nat /\ 1 \in 1 .. PackCount /\ 0 \in Seats
      BY PodAssumption DEF PodAssumption, Seats
    <2> QED
      BY <2>1, <2>2
  <1>2. /\ currentPack' = Opened(deal) /\ currentPackNumber' = 0 /\ dealt' = deal
        /\ pools' = pools /\ pickNumber' = 0 /\ pickedThisRound' = [s \in Seats |-> FALSE]
        /\ cardsPerPick' = cardsPerPick /\ cardsPerPick \in {1, 2}
        /\ \A s \in Seats : pools[s] = {}
    BY PodAssumption DEF PodAssumption, StartDraft, Opened, PassInv, TypeOK
  <1>3. \A s \in Seats : currentPack'[s] = deal[s][1] /\ Turns(s)' = 0
    BY <1>1, <1>2, OpenedAt DEF Turns
  <1>4. Emptied' = {}
    BY <1>2 DEF Emptied
  <1>5. Size' = Cardinality(deal[0][1]) /\ Size' \in Nat
    BY <1>1, <1>2, DealtBoosters DEF Size, PackSize
  <1>6. Smaller(cardsPerPick' * 0, Size') = 0
    BY <1>2, <1>5 DEF Smaller
  <1>7. ASSUME NEW s \in Seats
        PROVE  /\ IsFiniteSet(pools'[s]) /\ pools'[s] \subseteq CardsOf(dealt')
               /\ Cardinality(pools'[s]) = 0 /\ currentPack'[s] \subseteq CardsOf(dealt')
    <2>1. pools'[s] = {}
      BY <1>2
    <2>2. deal[s][1] \subseteq CardsOf(deal)
      BY <1>1, DealtBoosters
    <2> QED
      BY <1>2, <1>3, <2>1, <2>2, FS_EmptySet
  <1>8. ASSUME EvenDeal', NEW s \in Seats
        PROVE  /\ Cardinality(pools'[s]) = FairPool(Turns(s))'
               /\ Cardinality(currentPack'[s]) = Size' - Smaller(cardsPerPick' * Turns(s)', Size')
    <2>1. FairPool(Turns(s))' = 0
      BY <1>3, <1>4, <1>6, FS_EmptySet DEF FairPool, Size
    <2>2. Cardinality(currentPack'[s]) = Size'
      BY <1>1, <1>2, <1>3, <1>5, <1>8 DEF EvenDeal, UniformDeal, PackSize
    <2> QED
      BY <1>3, <1>5, <1>6, <1>7, <2>1, <2>2
  <1> QED
    BY <1>4, <1>7, <1>8, FS_EmptySet DEF SharesInv

LEMMA SharesStep ==
    ASSUME PassInv, OriginInv, SharesInv, [Next]_vars
    PROVE  SharesInv'
  <1>1. CASE UNCHANGED vars
    <2>1. UNCHANGED <<cardsPerPick, status, currentPack, currentPackNumber, pickNumber,
                      pickedThisRound, pools, dealt>>
      BY <1>1 DEF vars
    <2>2. EvenDeal' = EvenDeal /\ CardsOf(dealt') = CardsOf(dealt)
      BY <2>1 DEF EvenDeal, UniformDeal, PackSize
    <2>3. Emptied' = Emptied /\ Size' = Size
      BY <2>1 DEF Emptied, Size, PackSize
    <2>4. \A t \in Seats : Turns(t)' = Turns(t) /\ FairPool(Turns(t))' = FairPool(Turns(t))
      BY <2>1, <2>3 DEF Turns, FairPool, Size
    <2> QED
      BY <2>1, <2>2, <2>3, <2>4 DEF SharesInv
  <1>2. ASSUME NEW s \in Seats, NEW chosen \in SUBSET CardsIn(currentPack[s]), Pick(s, chosen)
        PROVE  SharesInv'
    <2>1. /\ MayPick(s) /\ currentPack \in Boosters /\ UNCHANGED <<cardsPerPick, dealt>>
          /\ pools \in [Seats -> SUBSET Cards] /\ pools' = [pools EXCEPT ![s] = @ \cup chosen]
          /\ FinishPick(s, [currentPack EXCEPT ![s] = @ \ chosen])
          /\ Cardinality(chosen) = RequiredPickCount(s)
      BY <1>2 DEF Pick, MayPick, PassInv, Good
    <2>2. /\ Swapped(currentPack, s, chosen, {}) = [currentPack EXCEPT ![s] = @ \ chosen]
          /\ Swapped(pools, s, {}, chosen) = [pools EXCEPT ![s] = @ \cup chosen]
      BY <2>1 DEF Swapped, Boosters
    <2>3. FinishPick(s, Swapped(currentPack, s, chosen, {}))
            /\ pools' = Swapped(pools, s, {}, chosen)
      BY <2>1, <2>2
    <2>4. chosen \in SUBSET currentPack[s] /\ IsFiniteSet({})
      BY <2>1, CardsInBooster, FS_EmptySet
    <2>5. Cardinality(chosen) = RequiredPickCount(s) + Cardinality({})
      <3>1. IsFiniteSet(chosen)
        BY <2>1, <2>4, FS_Subset DEF MayPick, PassInv, Good, RealBoosters
      <3>2. Cardinality(chosen) \in Nat
        BY <3>1, FS_CardinalityType
      <3> QED
        BY <2>1, <3>2, FS_EmptySet
    <2> QED
      BY <2>1, <2>3, <2>4, <2>5, SharesGain
  <1>3. ASSUME NEW s \in Seats, NEW effect \in pools[s] \cap EffectCards,
               NEW chosen \in SUBSET CardsIn(currentPack[s]),
               PickWithDraftEffect(s, effect, chosen)
        PROVE  SharesInv'
    <2>1. /\ MayPick(s) /\ status = "Drafting" /\ currentPack \in Boosters
          /\ UNCHANGED <<cardsPerPick, dealt>> /\ Cardinality(chosen) = 2
          /\ FinishPick(s, Swapped(currentPack, s, chosen, {effect}))
          /\ pools' = Swapped(pools, s, {effect}, chosen)
      BY <1>3 DEF PickWithDraftEffect, PoolAfterEffect, MayPick, PassInv, Good, Swapped
    <2>2. /\ chosen \in SUBSET currentPack[s] /\ IsFiniteSet({effect}) /\ Cardinality({effect}) = 1
          /\ {effect} \in SUBSET pools[s] /\ CardsIn(currentPack[s]) = currentPack[s]
      BY <2>1, CardsInBooster, FS_Singleton
    <2>3. ASSUME EvenDeal
          PROVE  Cardinality(chosen) = RequiredPickCount(s) + Cardinality({effect})
      <3>1. cardsPerPick = 1
        BY <2>1, <2>3 DEF EvenDeal, SharesInv
      <3>2. IsFiniteSet(currentPack[s])
        BY <2>1 DEF PassInv, Good, RealBoosters
      <3>3. Cardinality(chosen) <= Cardinality(currentPack[s]) /\ Cardinality(currentPack[s]) \in Nat
        BY <2>2, <3>2, FS_Subset, FS_CardinalityType
      <3> QED
        BY <2>1, <2>2, <3>1, <3>3 DEF RequiredPickCount
    <2> QED
      BY <2>1, <2>2, <2>3, SharesGain
  <1> QED
    BY <1>1, <1>2, <1>3, SharesStart DEF Next

LEMMA SharesAlways == Spec => []SharesInv
  <1>1. Init => SharesInv
    BY DEF Init, SharesInv
  <1> QED
    BY <1>1, SharesStep, PassInvariant, OriginAlways, PTL DEF Spec

\* With boosters of equal size the pools stay equal, but for the pick a seat
\* has just made: no order of picks lets a seat pick twice before a pass or
\* forces the pass early (finish_pick), for any pod, boosters of any size, one
\* or two cards a pick.
THEOREM SharesEqual == Spec => []FairShare
  <1>1. SharesInv => FairShare
    BY DEF SharesInv, EvenDeal, FairShare, Turns
  <1> QED
    BY <1>1, SharesAlways, PTL
=============================================================================
