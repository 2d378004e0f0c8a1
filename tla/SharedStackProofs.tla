------------------------- MODULE SharedStackProofs -------------------------
(***************************************************************************)
(* Proofs about SharedStack, for any number of seats and piles, any deck   *)
(* and any history capacity.                                               *)
(***************************************************************************)
EXTENDS SharedStack, SequenceTheorems, TLAPS

USE SeatsAssumption, PilesAssumption, CapacityAssumption

---------------------------------------------------------------------------
(* Drawing from the stack.                                                 *)

\* A draw takes the last card off a non-empty sequence and leaves the others
\* where they were; on an empty one it does nothing (Vec::pop on main_stack).
LEMMA DrawTyped ==
    ASSUME NEW S, NEW s \in Seq(S)
    PROVE  /\ TopCard(s) \in Seq(S)
           /\ Rest(s) \in Seq(S)
           /\ Len(TopCard(s)) = IF s = <<>> THEN 0 ELSE 1
           /\ Len(Rest(s)) = IF s = <<>> THEN 0 ELSE Len(s) - 1
           /\ s # <<>> => Len(s) >= 1 /\ TopCard(s)[1] = s[Len(s)]
           /\ \A i \in 1 .. Len(Rest(s)) : Rest(s)[i] = s[i]
<1>1. CASE s = <<>>
  BY <1>1 DEF TopCard, Rest
<1>2. CASE s # <<>>
  <2>1. Len(s) \in Nat /\ Len(s) >= 1
    BY <1>2, EmptySeq, LenProperties
  <2>2. Last(s) \in S
    BY <2>1, ElementOfSeq DEF Last
  <2>3. /\ Front(s) \in Seq(S) /\ Len(Front(s)) = Len(s) - 1
        /\ \A i \in 1 .. Len(s) - 1 : Front(s)[i] = s[i]
    <3>1. PICK n \in Nat : n = Len(s) - 1
      BY <2>1
    <3>2. \A i \in 1 .. n : s[i] \in S
      BY <2>1, <3>1, ElementOfSeq
    <3>3. /\ SubSeq(s, 1, n) \in Seq(S)
          /\ Len(SubSeq(s, 1, n)) = IF 1 <= n THEN n - 1 + 1 ELSE 0
          /\ \A i \in 1 .. n - 1 + 1 : SubSeq(s, 1, n)[i] = s[1 + i - 1]
      BY <3>2, SubSeqProperties
    <3>4. /\ Len(SubSeq(s, 1, n)) = n
          /\ \A i \in 1 .. n : SubSeq(s, 1, n)[i] = s[i]
      BY <3>3
    <3> QED
      BY <3>1, <3>3, <3>4 DEF Front
  <2> QED
    BY <1>2, <2>1, <2>2, <2>3 DEF TopCard, Rest, Last
<1> QED
  BY <1>1, <1>2

\* A delivered stack is a sequence of cards.
LEMMA StacksTyped ==
    ASSUME NEW stack \in Stacks
    PROVE  stack \in Seq(Cards)
<1>1. ToSet(stack) \subseteq Cards
  BY DEF Cards
<1>2. stack \in Seq(ToSet(stack))
  BY StacksAssumption
<1> QED
  BY <1>1, <1>2, SeqMonotonic

\* Dealing StartDraft's piles leaves a typed stack and one card on each pile.
LEMMA DealTyped ==
    ASSUME NEW stack \in Stacks, Len(stack) >= PileCount
    PROVE  /\ DealtStack(stack) \in Seq(Cards)
           /\ DealtPiles(stack) \in [Piles -> Seq(Cards)]
           /\ \A p \in Piles : Len(DealtPiles(stack)[p]) = 1
<1>1. stack \in Seq(Cards) /\ Len(stack) \in Nat
  BY StacksTyped, LenProperties
<1>2. DealtStack(stack) \in Seq(Cards)
  BY <1>1, SubSeqProperties DEF DealtStack
<1>3. ASSUME NEW p \in Piles PROVE stack[Len(stack) - p] \in Cards
  BY <1>1, ElementOfSeq DEF Piles
<1>4. ASSUME NEW p \in Piles
      PROVE  /\ <<stack[Len(stack) - p]>> \in Seq(Cards)
             /\ Len(<<stack[Len(stack) - p]>>) = 1
  BY <1>3
<1> QED
  BY <1>2, <1>4 DEF DealtPiles

\* Trimming keeps a typed history no longer than the capacity.
LEMMA TrimTyped ==
    ASSUME NEW h \in Seq(Records)
    PROVE  Trim(h) \in Seq(Records) /\ Len(Trim(h)) <= HistoryCapacity
<1>1. Len(h) \in Nat
  BY LenProperties
<1>2. CASE Len(h) > HistoryCapacity
  <2>1. /\ SubSeq(h, Len(h) - HistoryCapacity + 1, Len(h)) \in Seq(Records)
        /\ Len(SubSeq(h, Len(h) - HistoryCapacity + 1, Len(h))) = HistoryCapacity
    BY <1>1, <1>2, SubSeqProperties
  <2> QED
    BY <1>2, <2>1 DEF Trim
<1>3. CASE ~(Len(h) > HistoryCapacity)
  BY <1>1, <1>3 DEF Trim
<1> QED
  BY <1>2, <1>3

---------------------------------------------------------------------------
(* Type correctness.                                                       *)

\* A step of the server's timer is one of the three decisions, at the cursor.
LEMMA StepCases ==
    ASSUME TypeOK, Next
    PROVE  \/ \E stack \in Stacks, seat \in Seats : StartDraft(stack, seat)
           \/ \E seat \in Seats, pile \in Piles :
                 \/ TakePile(seat, pile)
                 \/ DeclinePile(seat, pile)
                 \/ DeclineFinalPile(seat, pile)
<1>1. ASSUME NEW seat \in Seats, DriveStalledSeat(seat)
      PROVE  \E pile \in Piles :
                \/ TakePile(seat, pile)
                \/ DeclinePile(seat, pile)
                \/ DeclineFinalPile(seat, pile)
  <2>1. cursor \in Piles
    BY DEF TypeOK
  <2> QED
    BY <1>1, <2>1 DEF DriveStalledSeat, Decide
<1> QED
  BY <1>1 DEF Next

\* Recording a decision keeps the counter and the history typed.
LEMMA RecordTyped ==
    ASSUME TypeOK, NEW seat \in Seats, NEW pile \in Piles, NEW d \in Decisions,
           RecordDecision(seat, pile, d)
    PROVE  /\ decisions' \in Nat
           /\ history' \in Seq(Records)
           /\ Len(history') <= HistoryCapacity
<1> DEFINE r == [seat |-> seat, pile |-> pile, decision |-> d,
                 pileSize |-> Len(piles[pile])]
<1>1. r \in Records
  <2>1. Len(piles[pile]) \in Nat
    BY LenProperties DEF TypeOK
  <2> QED
    BY <2>1 DEF Records
<1>2. Append(history, r) \in Seq(Records)
  BY <1>1, AppendProperties DEF TypeOK
<1>3. history' = Trim(Append(history, r)) /\ decisions' = decisions + 1
  BY DEF RecordDecision
<1>4. Trim(Append(history, r)) \in Seq(Records)
      /\ Len(Trim(Append(history, r))) <= HistoryCapacity
  BY <1>2, TrimTyped
<1>5. decisions' \in Nat
  BY <1>3 DEF TypeOK
<1> HIDE DEF r
<1> QED
  BY <1>3, <1>4, <1>5

\* Passing the turn keeps the turn fields typed.
LEMMA EndTurnTyped ==
    ASSUME TypeOK, EndTurn, piles' \in [Piles -> Seq(Cards)]
    PROVE  /\ activeSeat' \in Seats
           /\ cursor' \in Piles
           /\ inspected' \in [Piles -> Nat]
<1>1. activeSeat' \in Seats
  BY DEF TypeOK, EndTurn, Seats
<1>2. 0 \in Piles
  BY DEF Piles
<1>3. Len(piles'[0]) \in Nat
  BY <1>2, LenProperties
<1> QED
  BY <1>1, <1>2, <1>3 DEF EndTurn

LEMMA TypeStart ==
    ASSUME TypeOK, NEW stack \in Stacks, NEW seat \in Seats, StartDraft(stack, seat)
    PROVE  TypeOK'
<1>1. /\ mainStack' \in Seq(Cards)
      /\ piles' \in [Piles -> Seq(Cards)]
  BY DealTyped DEF StartDraft
<1>2. 0 \in Piles
  BY DEF Piles
<1>3. Len(piles'[0]) \in Nat
  BY <1>1, <1>2, LenProperties
<1>4. /\ cursor' \in Piles /\ inspected' \in [Piles -> Nat]
      /\ history' \in Seq(Records) /\ decisions' \in Nat
      /\ startingSeat' \in Seats /\ activeSeat' \in Seats
  BY <1>2, <1>3 DEF StartDraft
<1>5. /\ forcedDraws' \in [Seats -> Cards \cup {NoCard}]
      /\ pools' \in [Seats -> SUBSET Cards]
      /\ status' \in Statuses
  BY DEF StartDraft, TypeOK, Statuses
<1> QED
  BY <1>1, <1>4, <1>5 DEF TypeOK

\* The cards of a typed sequence are cards.
LEMMA ToSetTyped ==
    ASSUME NEW s \in Seq(Cards)
    PROVE  ToSet(s) \subseteq Cards
  BY ElementOfSeq, LenProperties DEF ToSet

LEMMA TypeTake ==
    ASSUME TypeOK, NEW seat \in Seats, NEW pile \in Piles, TakePile(seat, pile)
    PROVE  TypeOK'
<1>1. mainStack \in Seq(Cards) /\ piles \in [Piles -> Seq(Cards)]
  BY DEF TypeOK
<1>2. /\ mainStack' \in Seq(Cards)
      /\ piles' \in [Piles -> Seq(Cards)]
  BY <1>1, DrawTyped DEF TakePile, Replaced
<1>3. decisions' \in Nat /\ history' \in Seq(Records)
  BY RecordTyped DEF TakePile, Decisions
<1>4. activeSeat' \in Seats /\ cursor' \in Piles /\ inspected' \in [Piles -> Nat]
  BY <1>2, EndTurnTyped DEF TakePile
<1>5. pools' \in [Seats -> SUBSET Cards]
  <2>1. ToSet(piles[pile]) \subseteq Cards
    BY <1>1, ToSetTyped
  <2> QED
    BY <2>1 DEF TakePile, TypeOK
<1>6. /\ forcedDraws' \in [Seats -> Cards \cup {NoCard}]
      /\ startingSeat' \in Seats
      /\ status' \in Statuses
  BY DEF TakePile, TypeOK, ClearedNotice, FinishIfExhausted, Statuses
<1> QED
  BY <1>2, <1>3, <1>4, <1>5, <1>6 DEF TypeOK

LEMMA PutBackTyped ==
    ASSUME TypeOK, NEW pile \in Piles
    PROVE  PutBack(pile) \in [Piles -> Seq(Cards)]
<1>1. TopCard(mainStack) \in Seq(Cards)
  BY DrawTyped DEF TypeOK
<1>2. piles[pile] \o TopCard(mainStack) \in Seq(Cards)
  BY <1>1, ConcatProperties DEF TypeOK
<1> QED
  BY <1>2 DEF PutBack, TypeOK

LEMMA TypeDecline ==
    ASSUME TypeOK, NEW seat \in Seats, NEW pile \in Piles, DeclinePile(seat, pile)
    PROVE  TypeOK'
<1>1. mainStack' \in Seq(Cards) /\ piles' \in [Piles -> Seq(Cards)]
  BY DrawTyped, PutBackTyped DEF DeclinePile, TypeOK
<1>2. decisions' \in Nat /\ history' \in Seq(Records)
  BY RecordTyped DEF DeclinePile, Decisions
<1>3. cursor = pile /\ cursor + 1 \in Piles
  BY DEF DeclinePile, Accepted, RefusalFor, NoRefusal, FinalPile, Piles
<1>4. Len(piles'[cursor + 1]) \in Nat
  BY <1>1, <1>3, LenProperties
<1>5. cursor' \in Piles /\ inspected' \in [Piles -> Nat]
  BY <1>3, <1>4 DEF DeclinePile, TypeOK
<1>6. /\ forcedDraws' \in [Seats -> Cards \cup {NoCard}]
      /\ startingSeat' \in Seats /\ activeSeat' \in Seats
      /\ pools' \in [Seats -> SUBSET Cards]
      /\ status' \in Statuses
  BY DEF DeclinePile, TypeOK, ClearedNotice, FinishIfExhausted, Statuses
<1> QED
  BY <1>1, <1>2, <1>5, <1>6 DEF TypeOK

LEMMA TypeDeclineFinal ==
    ASSUME TypeOK, NEW seat \in Seats, NEW pile \in Piles, DeclineFinalPile(seat, pile)
    PROVE  TypeOK'
<1> DEFINE drawn == TopCard(Rest(mainStack))
<1>1. Rest(mainStack) \in Seq(Cards)
  BY DrawTyped DEF TypeOK
<1>2. mainStack' \in Seq(Cards) /\ piles' \in [Piles -> Seq(Cards)]
  BY <1>1, DrawTyped, PutBackTyped DEF DeclineFinalPile
<1>3. decisions' \in Nat /\ history' \in Seq(Records)
  BY RecordTyped DEF DeclineFinalPile, Decisions
<1>4. activeSeat' \in Seats /\ cursor' \in Piles /\ inspected' \in [Piles -> Nat]
  BY <1>2, EndTurnTyped DEF DeclineFinalPile
<1>5. drawn \in Seq(Cards) /\ (drawn # <<>> => drawn[1] \in Cards)
  <2>1. drawn \in Seq(Cards)
    BY <1>1, DrawTyped
  <2> QED
    BY <2>1, EmptySeq, LenProperties, ElementOfSeq
<1>6. pools' \in [Seats -> SUBSET Cards]
  <2>1. ToSet(drawn) \subseteq Cards
    BY <1>5, ToSetTyped
  <2> QED
    BY <2>1 DEF DeclineFinalPile, TypeOK
<1>7. forcedDraws' \in [Seats -> Cards \cup {NoCard}]
  BY <1>5 DEF DeclineFinalPile, TypeOK, ClearedNotice
<1>8. startingSeat' \in Seats /\ status' \in Statuses
  BY DEF DeclineFinalPile, TypeOK, FinishIfExhausted, Statuses
<1> QED
  BY <1>2, <1>3, <1>4, <1>6, <1>7, <1>8 DEF TypeOK

LEMMA TypeInit == Init => TypeOK
<1> SUFFICES ASSUME Init PROVE TypeOK
  OBVIOUS
<1>1. 0 \in Seats /\ 0 \in Piles
  BY DEF Seats, Piles
<1>2. <<>> \in Seq(Cards) /\ <<>> \in Seq(Records)
  BY EmptySeq
<1> QED
  BY <1>1, <1>2 DEF Init, TypeOK, Statuses

LEMMA TypeStep == TypeOK /\ [Next]_vars => TypeOK'
<1> SUFFICES ASSUME TypeOK, [Next]_vars PROVE TypeOK'
  OBVIOUS
<1>1. CASE Next
  BY <1>1, StepCases, TypeStart, TypeTake, TypeDecline, TypeDeclineFinal
<1>2. CASE UNCHANGED vars
  BY <1>2 DEF vars, TypeOK
<1> QED
  BY <1>1, <1>2

\* Every reachable SharedStackState is well-typed, for any pod, pile count,
\* deck and history capacity: indices stay in range through every decision.
THEOREM TypeCorrect == Spec => []TypeOK
  BY TypeInit, TypeStep, PTL DEF Spec

---------------------------------------------------------------------------
(* Deadlock-freedom.  PilesNonEmptyWhileStackLasts is inductive by itself; *)
(* that somebody can always move also needs a card at or after the cursor. *)

StackInv == TypeOK /\ PilesNonEmptyWhileStackLasts /\ CardAtOrAfterCursor

\* After a decision that ends the turn the session is over, or some pile
\* holds a card (the terminal test at the end of apply_shared_stack_decision).
LEMMA TurnEndLeavesCard ==
    ASSUME EndTurn, FinishIfExhausted, PilesNonEmptyWhileStackLasts'
    PROVE  CardAtOrAfterCursor'
<1> SUFFICES ASSUME status' = "Drafting"
             PROVE  \E p \in Piles : p >= cursor' /\ piles'[p] # <<>>
  BY DEF CardAtOrAfterCursor
<1>1. 0 \in Piles /\ \A p \in Piles : p >= cursor'
  BY DEF EndTurn, Piles
<1>2. CASE mainStack' # <<>>
  BY <1>1, <1>2 DEF PilesNonEmptyWhileStackLasts
<1>3. CASE mainStack' = <<>>
  BY <1>1, <1>3 DEF FinishIfExhausted
<1> QED
  BY <1>2, <1>3

LEMMA StackInvStart ==
    ASSUME StackInv, NEW stack \in Stacks, NEW seat \in Seats, StartDraft(stack, seat)
    PROVE  PilesNonEmptyWhileStackLasts' /\ CardAtOrAfterCursor'
<1>1. \A p \in Piles : piles'[p] # <<>>
  <2>1. /\ piles' \in [Piles -> Seq(Cards)]
        /\ \A p \in Piles : Len(piles'[p]) = 1
    BY DealTyped DEF StartDraft
  <2> SUFFICES ASSUME NEW p \in Piles, piles'[p] = <<>>
               PROVE  FALSE
    OBVIOUS
  <2>2. Len(piles'[p]) = 1
    BY <2>1
  <2>3. Len(<<>>) = 0
    OBVIOUS
  <2> QED
    BY <2>2, <2>3
<1>2. 0 \in Piles /\ cursor' = 0
  BY DEF StartDraft, Piles
<1>3. 0 >= cursor'
  BY <1>2
<1> QED
  BY <1>1, <1>2, <1>3 DEF PilesNonEmptyWhileStackLasts, CardAtOrAfterCursor

LEMMA StackInvTake ==
    ASSUME StackInv, NEW seat \in Seats, NEW pile \in Piles, TakePile(seat, pile)
    PROVE  PilesNonEmptyWhileStackLasts' /\ CardAtOrAfterCursor'
<1>1. PilesNonEmptyWhileStackLasts'
  <2> SUFFICES ASSUME mainStack' # <<>>, NEW p \in Piles
               PROVE  piles'[p] # <<>>
    BY DEF PilesNonEmptyWhileStackLasts
  <2>1. mainStack # <<>> /\ piles[p] # <<>>
    BY DEF TakePile, Rest, StackInv, PilesNonEmptyWhileStackLasts, Accepted
  <2>2. TopCard(mainStack) # <<>>
    BY <2>1 DEF TopCard
  <2> QED
    BY <2>1, <2>2 DEF TakePile, Replaced, StackInv, TypeOK
<1> QED
  BY <1>1, TurnEndLeavesCard DEF TakePile

\* Putting a pile back never empties a pile.
LEMMA PutBackKeepsCards ==
    ASSUME TypeOK, NEW pile \in Piles, NEW p \in Piles, piles[p] # <<>>
    PROVE  PutBack(pile)[p] # <<>>
<1>1. TopCard(mainStack) \in Seq(Cards) /\ piles[p] \in Seq(Cards)
  BY DrawTyped DEF TypeOK
<1>2. piles[p] \o TopCard(mainStack) # <<>>
  BY <1>1
<1> QED
  BY <1>2 DEF PutBack, TypeOK

LEMMA StackInvDecline ==
    ASSUME StackInv, NEW seat \in Seats, NEW pile \in Piles, DeclinePile(seat, pile)
    PROVE  PilesNonEmptyWhileStackLasts' /\ CardAtOrAfterCursor'
<1> USE DEF StackInv
<1>1. PilesNonEmptyWhileStackLasts'
  <2> SUFFICES ASSUME mainStack' # <<>>, NEW p \in Piles
               PROVE  piles'[p] # <<>>
    BY DEF PilesNonEmptyWhileStackLasts
  <2>1. piles[p] # <<>>
    BY DEF DeclinePile, Rest, PilesNonEmptyWhileStackLasts, Accepted
  <2> QED
    BY <2>1, PutBackKeepsCards DEF DeclinePile
<1>2. cursor = pile
  BY DEF DeclinePile, Accepted, RefusalFor, NoRefusal
<1>3. LaterPileAvailable(pile)
  BY DEF DeclinePile, Accepted, RefusalFor, DeclineRefusal, NoRefusal
<1>4. PICK p \in Piles : p > pile /\ piles[p] # <<>>
  BY <1>3 DEF LaterPileAvailable
<1>5. piles'[p] # <<>>
  BY <1>4, PutBackKeepsCards DEF DeclinePile
<1>6. cursor' = cursor + 1 /\ p >= cursor + 1
  BY <1>2, <1>4 DEF DeclinePile, Piles
<1> QED
  BY <1>1, <1>5, <1>6 DEF CardAtOrAfterCursor

LEMMA StackInvDeclineFinal ==
    ASSUME StackInv, NEW seat \in Seats, NEW pile \in Piles, DeclineFinalPile(seat, pile)
    PROVE  PilesNonEmptyWhileStackLasts' /\ CardAtOrAfterCursor'
<1> USE DEF StackInv
<1>1. PilesNonEmptyWhileStackLasts'
  <2> SUFFICES ASSUME mainStack' # <<>>, NEW p \in Piles
               PROVE  piles'[p] # <<>>
    BY DEF PilesNonEmptyWhileStackLasts
  <2>1. piles[p] # <<>>
    BY DEF DeclineFinalPile, Rest, PilesNonEmptyWhileStackLasts, Accepted
  <2> QED
    BY <2>1, PutBackKeepsCards DEF DeclineFinalPile
<1> QED
  BY <1>1, TurnEndLeavesCard DEF DeclineFinalPile

LEMMA StackInvInductive == StackInv /\ [Next]_vars => StackInv'
<1> SUFFICES ASSUME StackInv, [Next]_vars PROVE StackInv'
  OBVIOUS
<1>1. TypeOK /\ TypeOK'
  BY TypeStep DEF StackInv
<1>2. CASE Next
  BY <1>1, <1>2, StepCases, StackInvStart, StackInvTake, StackInvDecline,
     StackInvDeclineFinal DEF StackInv
<1>3. CASE UNCHANGED vars
  BY <1>1, <1>3 DEF vars, StackInv, PilesNonEmptyWhileStackLasts, CardAtOrAfterCursor
<1> QED
  BY <1>2, <1>3

LEMMA StackInvHolds == Spec => []StackInv
<1>1. Init => StackInv
  BY TypeInit DEF Init, StackInv, PilesNonEmptyWhileStackLasts, CardAtOrAfterCursor
<1> QED
  BY <1>1, StackInvInductive, PTL DEF Spec

\* The joint invariant stated on SharedStackState, for every pod and deck:
\* while the main stack is non-empty every pile is non-empty.
THEOREM PilesRefilled == Spec => []PilesNonEmptyWhileStackLasts
<1>1. StackInv => PilesNonEmptyWhileStackLasts
  BY DEF StackInv
<1> QED
  BY <1>1, StackInvHolds, PTL

\* A card at or after the cursor is a legal decision for the active seat.
LEMMA CardMeansDecision == StackInv => ActiveSeatNeverStuck
<1> SUFFICES ASSUME StackInv, status = "Drafting"
             PROVE  ForcedDecision(activeSeat) # NoDecision
  BY DEF ActiveSeatNeverStuck
<1>1. PICK p \in Piles : p >= cursor /\ piles[p] # <<>>
  BY DEF StackInv, CardAtOrAfterCursor
<1>2. CASE piles[cursor] # <<>>
  BY <1>2 DEF ForcedDecision, RefusalFor, TakeRefusal, NoRefusal, NoDecision
<1>3. CASE piles[cursor] = <<>>
  <2>1. p > cursor
    BY <1>1, <1>3 DEF StackInv, TypeOK, Piles
  <2>2. LaterPileAvailable(cursor)
    BY <1>1, <2>1 DEF LaterPileAvailable
  <2>3. RefusalFor(activeSeat, cursor, "Decline") = NoRefusal
    BY <2>2 DEF RefusalFor, DeclineRefusal
  <2> QED
    BY <2>3 DEF ForcedDecision, NoDecision
<1> QED
  BY <1>2, <1>3

\* Deadlock-freedom of the shared-stack draft for every pod size, pile count
\* and deck: forced_decision always finds a decision for the active seat of a
\* drafting session, so the timer never has nothing to apply.
THEOREM NeverStuck == Spec => []ActiveSeatNeverStuck
  BY StackInvHolds, CardMeansDecision, PTL

---------------------------------------------------------------------------
(* Persisting and restoring.                                               *)

\* What the active seat has seen of the piles, as far as the import check
\* asks for it.
SeenInv ==
    /\ \A p \in Piles : inspected[p] <= Len(piles[p])
    /\ \A p \in Piles : p > cursor => inspected[p] = 0

\* The turn that begins has seen the first pile.
LEMMA EndTurnSeen ==
    ASSUME EndTurn, piles' \in [Piles -> Seq(Cards)]
    PROVE  SeenInv'
<1>1. \A p \in Piles : Len(piles'[p]) \in Nat
  BY LenProperties
<1> QED
  BY <1>1 DEF EndTurn, SeenInv, Piles

\* Every decision keeps to what the import check demands.
LEMMA SeenStep ==
    ASSUME TypeOK, TypeOK', SeenInv, [Next]_vars
    PROVE  SeenInv'
<1>1. CASE UNCHANGED vars
  BY <1>1 DEF vars, SeenInv
<1>2. ASSUME NEW stack \in Stacks, NEW seat \in Seats, StartDraft(stack, seat)
      PROVE  SeenInv'
  <2>1. \A p \in Piles : Len(piles'[p]) \in Nat
    BY LenProperties DEF TypeOK
  <2> QED
    BY <1>2, <2>1 DEF StartDraft, SeenInv, Piles
<1>3. ASSUME NEW seat \in Seats, NEW pile \in Piles,
             TakePile(seat, pile) \/ DeclineFinalPile(seat, pile)
      PROVE  SeenInv'
  BY <1>3, EndTurnSeen DEF TakePile, DeclineFinalPile, TypeOK
<1>4. ASSUME NEW seat \in Seats, NEW pile \in Piles, DeclinePile(seat, pile)
      PROVE  SeenInv'
  <2>1. cursor = pile /\ cursor + 1 \in Piles
    BY <1>4 DEF DeclinePile, Accepted, RefusalFor, NoRefusal, FinalPile, Piles
  <2>2. /\ cursor' = cursor + 1
        /\ inspected' = [inspected EXCEPT ![cursor + 1] = Len(piles'[cursor + 1])]
    BY <1>4 DEF DeclinePile
  <2>3. ASSUME NEW p \in Piles
        PROVE  Len(piles[p]) \in Nat /\ Len(piles'[p]) \in Nat /\ Len(piles'[p]) >= Len(piles[p])
    <3>1. TopCard(mainStack) \in Seq(Cards) /\ piles[p] \in Seq(Cards)
      BY DrawTyped DEF TypeOK
    <3>2. piles'[p] = IF p = pile THEN piles[p] \o TopCard(mainStack) ELSE piles[p]
      BY <1>4 DEF DeclinePile, PutBack, TypeOK
    <3> QED
      BY <3>1, <3>2, LenProperties, ConcatProperties
  <2>4. ASSUME NEW p \in Piles
        PROVE  inspected'[p] <= Len(piles'[p])
    <3>1. inspected \in [Piles -> Nat] /\ inspected[p] <= Len(piles[p])
      BY DEF SeenInv, TypeOK
    <3>2. CASE p = cursor + 1
      BY <2>2, <2>3, <3>1, <3>2
    <3>3. CASE p # cursor + 1
      <4>1. inspected'[p] = inspected[p]
        BY <2>2, <3>1, <3>3
      <4> QED
        BY <4>1, <2>3, <3>1
    <3> QED
      BY <3>2, <3>3
  <2>5. \A p \in Piles : p > cursor' => inspected'[p] = 0
    BY <2>1, <2>2 DEF SeenInv, TypeOK, Piles
  <2> QED
    BY <2>4, <2>5 DEF SeenInv
<1> QED
  BY <1>1, <1>2, <1>3, <1>4, StepCases

\* The history never outgrows the capacity the import check demands of it.
HistoryCapped == Len(history) <= HistoryCapacity

LEMMA HistoryStep ==
    ASSUME TypeOK, HistoryCapped, [Next]_vars
    PROVE  HistoryCapped'
<1>1. CASE UNCHANGED vars
  BY <1>1 DEF vars, HistoryCapped
<1>2. ASSUME NEW stack \in Stacks, NEW seat \in Seats, StartDraft(stack, seat)
      PROVE  HistoryCapped'
  BY <1>2 DEF StartDraft, HistoryCapped
<1>3. ASSUME NEW seat \in Seats, NEW pile \in Piles,
             \/ TakePile(seat, pile)
             \/ DeclinePile(seat, pile)
             \/ DeclineFinalPile(seat, pile)
      PROVE  HistoryCapped'
  <2>1. \E d \in Decisions : RecordDecision(seat, pile, d)
    BY <1>3 DEF TakePile, DeclinePile, DeclineFinalPile, Decisions
  <2> QED
    BY <2>1, RecordTyped DEF HistoryCapped
<1> QED
  BY <1>1, <1>2, <1>3, StepCases

\* The import check asks for nothing else.
LEMMA SnapshotAccepted == StackInv /\ SeenInv /\ HistoryCapped => Restorable
<1> SUFFICES ASSUME StackInv, SeenInv, HistoryCapped PROVE ValidPersistedSnapshot
  BY DEF Restorable
<1>1. TypeOK
  BY DEF StackInv
<1>2. /\ DOMAIN piles = Piles /\ DOMAIN inspected = Piles
      /\ activeSeat \in Seats /\ cursor \in Piles /\ startingSeat \in Seats
      /\ DOMAIN forcedDraws = Seats /\ DOMAIN pools = Seats
  BY <1>1 DEF TypeOK
<1>3. ASSUME NEW i \in 1 .. Len(history)
      PROVE  history[i].pile \in Piles /\ history[i].seat \in Seats
  <2>1. history[i] \in Records
    BY <1>1, ElementOfSeq DEF TypeOK
  <2> QED
    BY <2>1 DEF Records
<1>4. status = "Drafting" => ForcedDecision(activeSeat) # NoDecision
  BY CardMeansDecision DEF ActiveSeatNeverStuck
<1> QED
  BY <1>2, <1>3, <1>4 DEF ValidPersistedSnapshot, SeenInv, HistoryCapped

LEMMA SeenHolds == Spec => [](SeenInv /\ HistoryCapped)
<1>1. Init => SeenInv /\ HistoryCapped
  BY DEF Init, SeenInv, HistoryCapped
<1>2. StackInv /\ StackInv' /\ SeenInv /\ HistoryCapped /\ [Next]_vars
        => SeenInv' /\ HistoryCapped'
  BY SeenStep, HistoryStep DEF StackInv
<1> QED
  BY <1>1, <1>2, StackInvHolds, PTL DEF Spec

\* Whatever was decided, validate_persisted_snapshot accepts the session that
\* was saved, so no restart of the server refuses a pod it wrote itself.
THEOREM AlwaysRestorable == Spec => []Restorable
  BY StackInvHolds, SeenHolds, SnapshotAccepted, PTL

---------------------------------------------------------------------------
(* The refinement of CardDraft.                                            *)

\* The cards on the table are in one place each: the main stack M holds no
\* card twice and none of a pile's, and no two piles of P share a card.
OnePlace(M, P) ==
    /\ IsInjective(M)
    /\ \A p \in Piles : ToSet(M) \cap ToSet(P[p]) = {}
    /\ \A p, q \in Piles : p # q => ToSet(P[p]) \cap ToSet(P[q]) = {}

TableInv == status = "Drafting" => OnePlace(mainStack, piles)

\* A sequence with no card in it is empty.
LEMMA EmptyCards ==
    ASSUME NEW s \in Seq(Cards)
    PROVE  ToSet(s) = {} <=> s = <<>>
<1>1. s # <<>> => 1 \in DOMAIN s
  OBVIOUS
<1> QED
  BY <1>1 DEF ToSet

\* A draw moves the top card and nothing else.
LEMMA DrawSplits ==
    ASSUME NEW s \in Seq(Cards), IsInjective(s)
    PROVE  /\ ToSet(s) = ToSet(Rest(s)) \cup ToSet(TopCard(s))
           /\ ToSet(Rest(s)) \cap ToSet(TopCard(s)) = {}
           /\ IsInjective(Rest(s))
<1>1. CASE s = <<>>
  BY <1>1 DEF TopCard, Rest, ToSet, IsInjective
<1>2. CASE s # <<>>
  <2> DEFINE n == Len(s)
             r == Rest(s)
  <2>1. /\ n \in Nat /\ n >= 1 /\ DOMAIN s = 1 .. n
        /\ DOMAIN r = 1 .. n - 1 /\ \A i \in 1 .. n - 1 : r[i] = s[i]
    BY <1>2, DrawTyped
  <2>2. ToSet(TopCard(s)) = {s[n]}
    BY <1>2 DEF TopCard, Last, ToSet
  <2>3. ToSet(s) = {s[i] : i \in 1 .. n} /\ ToSet(r) = {s[i] : i \in 1 .. n - 1}
    BY <2>1 DEF ToSet
  <2>4. \A i \in 1 .. n - 1 : s[i] # s[n] /\ i \in 1 .. n
    BY <2>1 DEF IsInjective
  <2>5. IsInjective(r)
    BY <2>1, <2>4 DEF IsInjective
  <2> HIDE DEF n, r
  <2>6. n \in Nat /\ n >= 1
    BY <2>1
  <2>7. n \in 1 .. n /\ \A i \in 1 .. n : i = n \/ i \in 1 .. n - 1
    BY <2>6
  <2>8. ToSet(s) = ToSet(r) \cup {s[n]} /\ ToSet(r) \cap {s[n]} = {}
    BY <2>3, <2>4, <2>7
  <2> QED
    BY <2>2, <2>5, <2>8 DEF n, r
<1> QED
  BY <1>1, <1>2

\* Appending adds cards.
LEMMA ConcatCards ==
    ASSUME NEW s \in Seq(Cards), NEW t \in Seq(Cards)
    PROVE  ToSet(s \o t) = ToSet(s) \cup ToSet(t)
<1>1. /\ s \o t \in Seq(Cards) /\ Len(s \o t) = Len(s) + Len(t)
      /\ \A i \in 1 .. Len(s) + Len(t) :
           (s \o t)[i] = IF i <= Len(s) THEN s[i] ELSE t[i - Len(s)]
      /\ Len(s) \in Nat /\ Len(t) \in Nat
  BY ConcatProperties, LenProperties
<1>2. /\ DOMAIN (s \o t) = 1 .. Len(s) + Len(t)
      /\ DOMAIN s = 1 .. Len(s) /\ DOMAIN t = 1 .. Len(t)
  BY <1>1, LenProperties
<1>3. ASSUME NEW i \in DOMAIN (s \o t) PROVE (s \o t)[i] \in ToSet(s) \cup ToSet(t)
  <2>1. CASE i <= Len(s)
    BY <1>1, <1>2, <2>1 DEF ToSet
  <2>2. CASE ~(i <= Len(s))
    <3>1. i - Len(s) \in DOMAIN t /\ (s \o t)[i] = t[i - Len(s)]
      BY <1>1, <1>2, <2>2
    <3> QED
      BY <3>1 DEF ToSet
  <2> QED
    BY <2>1, <2>2
<1>4. ASSUME NEW i \in DOMAIN s PROVE s[i] \in ToSet(s \o t)
  <2>1. i \in DOMAIN (s \o t) /\ (s \o t)[i] = s[i]
    BY <1>1, <1>2
  <2> QED
    BY <2>1 DEF ToSet
<1>5. ASSUME NEW i \in DOMAIN t PROVE t[i] \in ToSet(s \o t)
  <2>1. Len(s) + i \in DOMAIN (s \o t) /\ (s \o t)[Len(s) + i] = t[i]
    BY <1>1, <1>2
  <2> QED
    BY <2>1 DEF ToSet
<1> QED
  BY <1>3, <1>4, <1>5 DEF ToSet

\* The table, card by card.
LEMMA OnTheTable ==
    /\ \A c : c \in Table <=> c \in ToSet(mainStack) \/ \E p \in Piles : c \in ToSet(piles[p])
    /\ \A c : c \in Table' <=> c \in ToSet(mainStack') \/ \E p \in Piles : c \in ToSet(piles'[p])
  BY DEF Table

\* The terminal test of apply_shared_stack_decision: deckbuilding starts
\* exactly when the table is empty.
LEMMA FinishesWhenBare ==
    ASSUME TypeOK', FinishIfExhausted, status = "Drafting"
    PROVE  CardDraftPhase' = IF Table' = {} THEN "Done" ELSE "Drafting"
<1>1. ToSet(mainStack') = {} <=> mainStack' = <<>>
  BY EmptyCards DEF TypeOK
<1>2. \A p \in Piles : ToSet(piles'[p]) = {} <=> piles'[p] = <<>>
  BY EmptyCards DEF TypeOK
<1>3. Table' = {} <=> mainStack' = <<>> /\ \A p \in Piles : piles'[p] = <<>>
  BY <1>1, <1>2, OnTheTable
<1> QED
  BY <1>3 DEF FinishIfExhausted, CardDraftPhase

\* The deal of StartDraft.
LEMMA StartIsStart ==
    ASSUME TypeOK, NEW stack \in Stacks, NEW seat \in Seats, StartDraft(stack, seat)
    PROVE  TableInv' /\ Draft!Start(ToSet(stack))
<1> DEFINE n == Len(stack)
           k == Len(stack) - PileCount
<1>1. /\ stack \in Seq(Cards) /\ n \in Nat /\ n >= PileCount /\ DOMAIN stack = 1 .. n
      /\ IsInjective(stack) /\ k \in Nat
  BY StacksTyped, StacksAssumption, LenProperties DEF StartDraft
<1>2. mainStack' = DealtStack(stack) /\ piles' = DealtPiles(stack)
  BY DEF StartDraft
<1>3. DOMAIN mainStack' = 1 .. k /\ \A i \in 1 .. k : mainStack'[i] = stack[i]
  <2>1. /\ Len(SubSeq(stack, 1, k)) = k /\ SubSeq(stack, 1, k) \in Seq(Cards)
        /\ \A i \in 1 .. k : SubSeq(stack, 1, k)[i] = stack[i]
    <3>1. \A i \in 1 .. k : stack[i] \in Cards
      BY <1>1, ElementOfSeq
    <3> HIDE DEF k
    <3>2. /\ SubSeq(stack, 1, k) \in Seq(Cards)
          /\ Len(SubSeq(stack, 1, k)) = IF 1 <= k THEN k - 1 + 1 ELSE 0
          /\ \A i \in 1 .. k - 1 + 1 : SubSeq(stack, 1, k)[i] = stack[1 + i - 1]
      BY <1>1, <3>1, SubSeqProperties
    <3> QED
      BY <1>1, <3>2
  <2> QED
    BY <1>2, <2>1 DEF DealtStack
<1>4. \A p \in Piles : ToSet(piles'[p]) = {stack[n - p]} /\ n - p \in 1 .. n /\ n - p \notin 1 .. k
  BY <1>1, <1>2 DEF DealtPiles, ToSet, Piles
<1>5. ToSet(mainStack') = {stack[i] : i \in 1 .. k}
  BY <1>3 DEF ToSet
<1>6. ASSUME NEW i \in 1 .. n PROVE i \in 1 .. k \/ \E p \in Piles : i = n - p
  <2>1. CASE i \notin 1 .. k
    <3>1. n - i \in Piles /\ i = n - (n - i)
      BY <1>1, <2>1 DEF Piles
    <3> QED
      BY <3>1
  <2> QED
    BY <2>1
<1>7. \A i \in 1 .. k : i \in 1 .. n
  BY <1>1
<1>8. \A p, q \in Piles : p # q => n - p # n - q
  BY <1>1 DEF Piles
<1>9. ToSet(stack) = {stack[i] : i \in 1 .. n}
  BY <1>1 DEF ToSet
<1> HIDE DEF n, k
<1>10. Table' = ToSet(stack)
  <2>1. ASSUME NEW i \in 1 .. n PROVE stack[i] \in Table'
    BY <1>4, <1>5, <1>6, OnTheTable
  <2>2. ASSUME NEW c, c \in Table' PROVE \E i \in 1 .. n : c = stack[i]
    <3>1. CASE c \in ToSet(mainStack')
      BY <1>5, <1>7, <3>1
    <3>2. CASE \E p \in Piles : c \in ToSet(piles'[p])
      BY <1>4, <3>2
    <3> QED
      BY <2>2, <3>1, <3>2, OnTheTable
  <2> QED
    BY <1>9, <2>1, <2>2
<1>11. OnePlace(mainStack', piles')
  <2>1. IsInjective(mainStack')
    BY <1>1, <1>3, <1>7 DEF IsInjective
  <2>2. \A i, j \in 1 .. n : stack[i] = stack[j] => i = j
    BY <1>1 DEF IsInjective
  <2>3. \A p \in Piles : ToSet(mainStack') \cap ToSet(piles'[p]) = {}
    BY <1>4, <1>5, <1>7, <2>2
  <2>4. \A p, q \in Piles : p # q => ToSet(piles'[p]) \cap ToSet(piles'[q]) = {}
    BY <1>4, <1>8, <2>2
  <2> QED
    BY <2>1, <2>3, <2>4 DEF OnePlace
<1> QED
  BY <1>10, <1>11 DEF TableInv, Draft!Start, StartDraft, CardDraftPhase

\* Taking a pile gains its cards.
LEMMA TakeGains ==
    ASSUME StackInv, TypeOK', TableInv, NEW seat \in Seats, NEW pile \in Piles,
           TakePile(seat, pile)
    PROVE  TableInv' /\ Draft!Gain(seat, ToSet(piles[pile]), {})
<1>1. TypeOK /\ status = "Drafting" /\ OnePlace(mainStack, piles) /\ piles[pile] # <<>>
  BY DEF StackInv, TableInv, TakePile, Accepted, RefusalFor, TakeRefusal, NoRefusal
<1>2. /\ ToSet(mainStack) = ToSet(Rest(mainStack)) \cup ToSet(TopCard(mainStack))
      /\ ToSet(Rest(mainStack)) \cap ToSet(TopCard(mainStack)) = {}
      /\ IsInjective(Rest(mainStack))
  BY <1>1, DrawSplits DEF TypeOK, OnePlace
<1>3. /\ mainStack' = Rest(mainStack)
      /\ \A p \in Piles : piles'[p] = IF p = pile THEN TopCard(mainStack) ELSE piles[p]
  BY <1>1 DEF TakePile, Replaced, TypeOK
<1>4. OnePlace(mainStack', piles')
  BY <1>1, <1>2, <1>3 DEF OnePlace
<1>5. ASSUME NEW c
      PROVE  c \in Table' <=> c \in Table /\ c \notin ToSet(piles[pile])
  <2>1. CASE c \in ToSet(mainStack)
    BY <1>1, <1>2, <1>3, <2>1, OnTheTable DEF OnePlace
  <2>2. CASE c \notin ToSet(mainStack)
    BY <1>1, <1>2, <1>3, <2>2, OnTheTable DEF OnePlace
  <2> QED
    BY <2>1, <2>2
<1>6. ToSet(piles[pile]) # {} /\ ToSet(piles[pile]) \subseteq Table
  BY <1>1, EmptyCards, OnTheTable DEF TypeOK
<1>7. Table' = (Table \ ToSet(piles[pile])) \cup {}
  BY <1>5
<1>8. CardDraftPhase' = IF Table' = {} THEN "Done" ELSE "Drafting"
  BY <1>1, FinishesWhenBare DEF TakePile
<1>9. pools' = [pools EXCEPT ![seat] = (@ \ {}) \cup ToSet(piles[pile])]
  <2>1. pools[seat] \ {} = pools[seat]
    OBVIOUS
  <2> QED
    BY <2>1 DEF TakePile
<1>10. CardDraftPhase = "Drafting"
  BY <1>1 DEF CardDraftPhase
<1> QED
  BY <1>4, <1>6, <1>7, <1>8, <1>9, <1>10 DEF TableInv, Draft!Gain

\* A pile put back stays on the table, with the card that is added to it.
LEMMA PutBackMoves ==
    ASSUME TypeOK, OnePlace(mainStack, piles), NEW pile \in Piles,
           piles' = PutBack(pile)
    PROVE  /\ OnePlace(Rest(mainStack), piles')
           /\ \A c : (c \in ToSet(Rest(mainStack)) \/ \E p \in Piles : c \in ToSet(piles'[p]))
                       <=> c \in Table
<1>1. /\ ToSet(mainStack) = ToSet(Rest(mainStack)) \cup ToSet(TopCard(mainStack))
      /\ ToSet(Rest(mainStack)) \cap ToSet(TopCard(mainStack)) = {}
      /\ IsInjective(Rest(mainStack))
  BY DrawSplits DEF TypeOK, OnePlace
<1>2. ASSUME NEW p \in Piles
      PROVE  ToSet(piles'[p]) = IF p = pile THEN ToSet(piles[p]) \cup ToSet(TopCard(mainStack))
                                            ELSE ToSet(piles[p])
  <2>1. piles[p] \in Seq(Cards) /\ TopCard(mainStack) \in Seq(Cards)
    BY DrawTyped DEF TypeOK
  <2>2. piles'[p] = IF p = pile THEN piles[p] \o TopCard(mainStack) ELSE piles[p]
    BY DEF PutBack, TypeOK
  <2>3. ToSet(piles[p] \o TopCard(mainStack)) = ToSet(piles[p]) \cup ToSet(TopCard(mainStack))
    BY <2>1, ConcatCards
  <2> QED
    BY <2>2, <2>3
<1>3. OnePlace(Rest(mainStack), piles')
  BY <1>1, <1>2 DEF OnePlace
<1>4. \A c : (c \in ToSet(Rest(mainStack)) \/ \E p \in Piles : c \in ToSet(piles'[p]))
               <=> c \in Table
  BY <1>1, <1>2, OnTheTable
<1> QED
  BY <1>3, <1>4

\* Declining a pile that is not the final one gains nothing and ends nothing.
LEMMA DeclineStutters ==
    ASSUME StackInv, TypeOK', TableInv, NEW seat \in Seats, NEW pile \in Piles,
           DeclinePile(seat, pile)
    PROVE  TableInv' /\ UNCHANGED Draft!vars
<1>1. TypeOK /\ status = "Drafting" /\ OnePlace(mainStack, piles)
  BY DEF StackInv, TableInv, DeclinePile, Accepted
<1>2. piles' = PutBack(pile) /\ mainStack' = Rest(mainStack) /\ pools' = pools
  BY DEF DeclinePile
<1>3. OnePlace(mainStack', piles') /\ Table' = Table
  BY <1>1, <1>2, PutBackMoves, OnTheTable
<1>4. LaterPileAvailable(pile)
  BY DEF DeclinePile, Accepted, RefusalFor, DeclineRefusal, NoRefusal
<1>5. status' = status
  BY <1>1, <1>2, <1>4, PutBackKeepsCards DEF DeclinePile, FinishIfExhausted, LaterPileAvailable
<1> QED
  BY <1>2, <1>3, <1>5 DEF TableInv, Draft!vars, CardDraftPhase

\* Declining the final pile gains the card under the top one, unseen.
LEMMA DeclineFinalGains ==
    ASSUME StackInv, TypeOK', TableInv, NEW seat \in Seats, NEW pile \in Piles,
           DeclineFinalPile(seat, pile)
    PROVE  TableInv' /\ Draft!Gain(seat, ToSet(TopCard(Rest(mainStack))), {})
<1> DEFINE R == Rest(mainStack)
           drawn == ToSet(TopCard(R))
<1>1. TypeOK /\ status = "Drafting" /\ OnePlace(mainStack, piles)
  BY DEF StackInv, TableInv, DeclineFinalPile, Accepted
<1>2. piles' = PutBack(pile) /\ mainStack' = Rest(R)
  BY DEF DeclineFinalPile
<1>3. Len(mainStack) >= 2
  <2>1. ~LaterPileAvailable(pile)
    BY DEF DeclineFinalPile, LaterPileAvailable, FinalPile, Piles
  <2> QED
    BY <2>1 DEF DeclineFinalPile, Accepted, RefusalFor, DeclineRefusal, NoRefusal
<1>4. /\ OnePlace(R, piles')
      /\ \A c : (c \in ToSet(R) \/ \E p \in Piles : c \in ToSet(piles'[p])) <=> c \in Table
  BY <1>1, <1>2, PutBackMoves
<1>5. R \in Seq(Cards) /\ R # <<>> /\ TopCard(R) \in Seq(Cards)
  <2>1. R \in Seq(Cards) /\ Len(R) >= 1
    <3>1. mainStack \in Seq(Cards) /\ mainStack # <<>>
      BY <1>1, <1>3 DEF TypeOK
    <3>2. Rest(mainStack) \in Seq(Cards) /\ Len(Rest(mainStack)) = Len(mainStack) - 1
      BY <3>1, DrawTyped
    <3>3. Len(mainStack) \in Nat
      BY <3>1, LenProperties
    <3> QED
      BY <1>3, <3>2, <3>3
  <2>2. R # <<>>
    BY <2>1
  <2> QED
    BY <2>1, <2>2, DrawTyped
<1>6. /\ ToSet(R) = ToSet(Rest(R)) \cup drawn /\ ToSet(Rest(R)) \cap drawn = {}
      /\ IsInjective(Rest(R))
  BY <1>4, <1>5, DrawSplits DEF OnePlace
<1>7. drawn # {}
  BY <1>5, EmptyCards DEF TopCard
<1>8. pools' = [pools EXCEPT ![seat] = (@ \ {}) \cup drawn]
  <2>1. pools[seat] \ {} = pools[seat]
    OBVIOUS
  <2> QED
    BY <2>1 DEF DeclineFinalPile
<1>9. CardDraftPhase' = IF Table' = {} THEN "Done" ELSE "Drafting"
  BY <1>1, FinishesWhenBare DEF DeclineFinalPile
<1> HIDE DEF R, drawn
<1>10. OnePlace(mainStack', piles')
  BY <1>2, <1>4, <1>6 DEF OnePlace
<1>11. Table' = (Table \ drawn) \cup {} /\ drawn \subseteq Table
  <2>1. ASSUME NEW c PROVE c \in Table' <=> c \in Table /\ c \notin drawn
    <3>1. CASE c \in ToSet(R)
      BY <1>2, <1>4, <1>6, <3>1, OnTheTable DEF OnePlace
    <3>2. CASE c \notin ToSet(R)
      BY <1>2, <1>4, <1>6, <3>2, OnTheTable
    <3> QED
      BY <3>1, <3>2
  <2> QED
    BY <1>4, <1>6, <2>1
<1>12. CardDraftPhase = "Drafting"
  BY <1>1 DEF CardDraftPhase
<1> QED
  BY <1>7, <1>8, <1>9, <1>10, <1>11, <1>12 DEF TableInv, Draft!Gain, drawn, R

\* Every step is a step of CardDraft, or a stutter.
LEMMA DraftStep ==
    ASSUME StackInv, StackInv', TableInv, [Next]_vars
    PROVE  TableInv' /\ [Draft!Next]_(Draft!vars)
<1>0. TypeOK /\ TypeOK'
  BY DEF StackInv
<1>1. CASE UNCHANGED vars
  <2>1. TableInv'
    BY <1>1 DEF vars, TableInv, OnePlace
  <2>2. UNCHANGED Draft!vars
    BY <1>1 DEF vars, Draft!vars, Table, CardDraftPhase
  <2> QED
    BY <2>1, <2>2
<1>2. ASSUME NEW stack \in Stacks, NEW seat \in Seats, StartDraft(stack, seat)
      PROVE  TableInv' /\ Draft!Next
  <2>1. TableInv' /\ Draft!Start(ToSet(stack))
    BY <1>0, <1>2, StartIsStart
  <2> QED
    BY <2>1 DEF Draft!Next
<1>3. ASSUME NEW seat \in Seats, NEW gained, Draft!Gain(seat, gained, {})
      PROVE  Draft!Next
  <2>1. gained \in SUBSET Table /\ {} \in SUBSET pools[seat]
    BY <1>3 DEF Draft!Gain
  <2> QED
    BY <1>3, <2>1 DEF Draft!Next
<1>4. ASSUME NEW seat \in Seats, NEW pile \in Piles, TakePile(seat, pile)
      PROVE  TableInv' /\ Draft!Next
  BY <1>0, <1>3, <1>4, TakeGains
<1>5. ASSUME NEW seat \in Seats, NEW pile \in Piles, DeclinePile(seat, pile)
      PROVE  TableInv' /\ UNCHANGED Draft!vars
  BY <1>0, <1>5, DeclineStutters
<1>6. ASSUME NEW seat \in Seats, NEW pile \in Piles, DeclineFinalPile(seat, pile)
      PROVE  TableInv' /\ Draft!Next
  BY <1>0, <1>3, <1>6, DeclineFinalGains
<1> QED
  BY <1>0, <1>1, <1>2, <1>4, <1>5, <1>6, StepCases

\* The shared-stack draft implements CardDraft for every pod, deck and number
\* of piles: no take, refill, decline or forced draw of
\* apply_shared_stack_decision loses or copies a card or gives one to a seat
\* that did not decide, and deckbuilding starts exactly when the table is bare.
THEOREM StackImplementsDraft == Spec => ImplementsCardDraft
<1>1. Init => TableInv /\ Draft!Init
  <2> SUFFICES ASSUME Init PROVE TableInv /\ Draft!Init
    OBVIOUS
  <2>1. Table = {}
    BY DEF Init, Table, ToSet
  <2> QED
    BY <2>1 DEF Init, TableInv, Draft!Init, CardDraftPhase
<1>2. StackInv /\ StackInv' /\ TableInv /\ [Next]_vars
        => TableInv' /\ [Draft!Next]_(Draft!vars)
  BY DraftStep
<1> QED
  BY <1>1, <1>2, StackInvHolds, PTL DEF Spec, ImplementsCardDraft, Draft!Spec

---------------------------------------------------------------------------
(* What the promise of CardDraft is worth: no card is lost or copied.      *)

\* The inductive form: in the lobby nobody has drafted a card.
ConservedInv ==
    /\ Draft!Conserved
    /\ DOMAIN pools = Seats
    /\ CardDraftPhase = "Lobby" => \A s \in Seats : pools[s] = {}

LEMMA StartConserves ==
    ASSUME ConservedInv, NEW deal \in {ToSet(stack) : stack \in Stacks}, Draft!Start(deal)
    PROVE  ConservedInv'
  BY DEF ConservedInv, Draft!Conserved, Draft!Start

LEMMA GainConserves ==
    ASSUME ConservedInv, NEW s \in Seats, NEW gained, NEW returned,
           Draft!Gain(s, gained, returned)
    PROVE  ConservedInv'
  <1> DEFINE all == UNION {pools[t] : t \in Seats}
  <1>1. pools'[s] = (pools[s] \ returned) \cup gained
    BY DEF Draft!Gain, ConservedInv
  <1>2. \A t \in Seats : t # s => pools'[t] = pools[t]
    BY DEF Draft!Gain, ConservedInv
  <1>3. Table' \cup UNION {pools'[t] : t \in Seats} = Table \cup all
    <2>1. ASSUME NEW c
          PROVE  c \in Table' \cup UNION {pools'[t] : t \in Seats} <=> c \in Table \cup all
      <3>1. c \in all <=> \E t \in Seats : c \in pools[t]
        OBVIOUS
      <3>2. c \in UNION {pools'[t] : t \in Seats} <=> \E t \in Seats : c \in pools'[t]
        OBVIOUS
      <3> QED
        BY <1>1, <1>2, <3>1, <3>2 DEF Draft!Gain
    <2> QED
      BY <2>1
  <1>4. \A t \in Seats : pools'[t] \cap Table' = {}
    BY <1>1, <1>2 DEF Draft!Gain, ConservedInv, Draft!Conserved
  <1>5. \A t, u \in Seats : t # u => pools'[t] \cap pools'[u] = {}
    BY <1>1, <1>2 DEF Draft!Gain, ConservedInv, Draft!Conserved
  <1>6. DOMAIN pools' = Seats
    BY DEF Draft!Gain, ConservedInv
  <1>7. /\ CardDraftPhase = "Drafting" /\ CardDraftPhase' # "Lobby"
        /\ CardDraftPhase' = "Done" => Table' = {}
    BY DEF Draft!Gain
  <1> QED
    BY <1>3, <1>4, <1>5, <1>6, <1>7 DEF ConservedInv, Draft!Conserved

\* No take, decline or forced draw of a Winston draft loses or copies a card:
\* the cards of the deal are at all times the disjoint union of the stack with
\* the piles and of the seats' pools, and deckbuilding starts on a bare table.
THEOREM StackConserves == Spec => []Draft!Conserved
  <1>1. Draft!Init => ConservedInv
    BY DEF Draft!Init, ConservedInv, Draft!Conserved
  <1>2. ConservedInv /\ [Draft!Next]_(Draft!vars) => ConservedInv'
    <2>1. ASSUME ConservedInv, Draft!Next
          PROVE  ConservedInv'
      BY <2>1, StartConserves, GainConserves DEF Draft!Next
    <2>2. ASSUME ConservedInv, UNCHANGED Draft!vars
          PROVE  ConservedInv'
      BY <2>2 DEF ConservedInv, Draft!Conserved, Draft!vars
    <2> QED
      BY <2>1, <2>2
  <1>3. ConservedInv => Draft!Conserved
    BY DEF ConservedInv
  <1> QED
    BY <1>1, <1>2, <1>3, StackImplementsDraft, PTL DEF ImplementsCardDraft, Draft!Spec

---------------------------------------------------------------------------
(* Hidden information.                                                     *)

\* What a declining seat is shown after its decline lay on that pile before.
LEMMA ShownWasThere ==
    ASSUME TypeOK, SeenInv, NEW seat \in Seats, NEW pile \in Piles,
           DeclinePile(seat, pile), NEW s \in Seats, NEW p \in Piles
    PROVE  Revealed(s, p)' \subseteq ToSet(piles[p])
<1> SUFFICES ASSUME NEW i \in 1 .. Len(piles'[p]), i <= inspected'[p]
             PROVE  piles'[p][i] \in ToSet(piles[p])
  BY DEF Revealed
<1>1. TopCard(mainStack) \in Seq(Cards) /\ piles[p] \in Seq(Cards)
  BY DrawTyped DEF TypeOK
<1>2. piles'[p] = IF p = pile THEN piles[p] \o TopCard(mainStack) ELSE piles[p]
  BY DEF DeclinePile, PutBack, TypeOK
<1>3. CASE p # pile
  BY <1>1, <1>2, <1>3 DEF ToSet
<1>4. CASE p = pile
  <2>1. cursor = pile /\ cursor \in Nat
    BY DEF DeclinePile, Accepted, RefusalFor, NoRefusal, TypeOK, Piles
  <2>2. inspected'[p] = inspected[p]
    BY <1>4, <2>1 DEF DeclinePile, TypeOK
  <2>3. inspected[p] \in Nat /\ inspected[p] <= Len(piles[p]) /\ Len(piles[p]) \in Nat
    BY <1>1, LenProperties DEF SeenInv, TypeOK
  <2>4. i \in 1 .. Len(piles[p])
    BY <2>2, <2>3
  <2>5. (piles[p] \o TopCard(mainStack))[i] = piles[p][i]
    BY <1>1, <2>4, ConcatProperties, LenProperties
  <2> QED
    BY <1>1, <1>2, <1>4, <2>4, <2>5 DEF ToSet
<1> QED
  BY <1>3, <1>4

\* The turn passes to another seat.
LEMMA TurnPasses ==
    ASSUME NEW seat \in Seats
    PROVE  (seat + 1) % NumSeats # seat
<1>1. NumSeats \in Nat /\ NumSeats >= 2 /\ seat \in 0 .. NumSeats - 1
  BY DEF Seats
<1>2. (seat + 1) % NumSeats = IF seat = NumSeats - 1 THEN 0 ELSE seat + 1
  BY <1>1
<1> QED
  BY <1>1, <1>2

LEMMA TableHolds == Spec => []TableInv
<1>1. Init => TableInv
  BY DEF Init, TableInv
<1>2. StackInv /\ StackInv' /\ TableInv /\ [Next]_vars => TableInv'
  BY DraftStep
<1> QED
  BY <1>1, <1>2, StackInvHolds, PTL DEF Spec

\* Whatever the pod and the deck, no decision shows the deciding seat a card
\* that left the main stack in it: the card a decline adds to its pile stays
\* outside the prefix shared_stack_view reveals, and a seat whose turn is over
\* is shown nothing.
THEOREM NothingLeaks == Spec => DrawnCardStaysHidden
<1> DEFINE A == status = "Drafting" =>
                  \A s \in Seats, p \in Piles :
                      s = activeSeat => Revealed(s, p)' \cap ToSet(mainStack) = {}
<1>1. ASSUME StackInv, SeenInv, TableInv, [Next]_vars
      PROVE  [A]_vars
  <2> SUFFICES ASSUME Next, status = "Drafting", NEW s \in Seats, NEW p \in Piles,
                      s = activeSeat
               PROVE  Revealed(s, p)' \cap ToSet(mainStack) = {}
    BY <1>1
  <2>1. TypeOK /\ OnePlace(mainStack, piles)
    BY <1>1 DEF StackInv, TableInv
  <2>2. ASSUME EndTurn PROVE Revealed(s, p)' = {}
    <3>1. (activeSeat + 1) % NumSeats # activeSeat
      BY <2>1, TurnPasses DEF TypeOK
    <3> QED
      BY <2>2, <3>1 DEF EndTurn, Revealed
  <2>3. ASSUME NEW seat \in Seats, NEW pile \in Piles, DeclinePile(seat, pile)
        PROVE  Revealed(s, p)' \cap ToSet(mainStack) = {}
    <3>1. Revealed(s, p)' \subseteq ToSet(piles[p])
      BY <1>1, <2>1, <2>3, ShownWasThere
    <3> QED
      BY <2>1, <3>1 DEF OnePlace
  <2>4. ASSUME NEW seat \in Seats, NEW pile \in Piles,
               TakePile(seat, pile) \/ DeclineFinalPile(seat, pile)
        PROVE  Revealed(s, p)' \cap ToSet(mainStack) = {}
    BY <2>2, <2>4 DEF TakePile, DeclineFinalPile
  <2>5. ~\E stack \in Stacks, seat \in Seats : StartDraft(stack, seat)
    BY DEF StartDraft
  <2> QED
    BY <2>1, <2>3, <2>4, <2>5, StepCases
<1>2. Spec => [][A]_vars
  BY <1>1, StackInvHolds, SeenHolds, TableHolds, PTL DEF Spec
<1> QED
  BY <1>2 DEF DrawnCardStaysHidden
---------------------------------------------------------------------------
(* What the table is told.                                                 *)

DecisionRecord(seat, pile, d) ==
    [seat |-> seat, pile |-> pile, decision |-> d, pileSize |-> Len(piles[pile])]

\* The new record is the last one.  An older one that is still retained was
\* retained before, and whatever followed it then still follows it.
LEMMA RecordShifts ==
    ASSUME TypeOK, NEW seat \in Seats, NEW pile \in Piles, NEW d \in Decisions,
           RecordDecision(seat, pile, d)
    PROVE  \A i \in 1 .. Len(history') :
             \/ history'[i] = DecisionRecord(seat, pile, d)
             \/ /\ \E j \in i + 1 .. Len(history') : history'[j] = DecisionRecord(seat, pile, d)
                /\ \E m \in 1 .. Len(history) :
                     /\ history'[i] = history[m]
                     /\ \A n \in m + 1 .. Len(history) :
                          \E j \in i + 1 .. Len(history') : history'[j] = history[n]
<1> DEFINE r == DecisionRecord(seat, pile, d)
           h == Append(history, r)
<1>1. r \in Records
  <2>1. Len(piles[pile]) \in Nat
    BY LenProperties DEF TypeOK
  <2> QED
    BY <2>1 DEF DecisionRecord, Records
<1>2. history' = Trim(h) /\ history \in Seq(Records)
  BY DEF RecordDecision, DecisionRecord, TypeOK
<1> HIDE DEF r
<1>3. /\ h \in Seq(Records) /\ Len(history) \in Nat /\ Len(h) = Len(history) + 1
      /\ h[Len(history) + 1] = r
      /\ \A n \in 1 .. Len(history) : h[n] = history[n]
  BY <1>1, <1>2, AppendProperties, LenProperties
<1> HIDE DEF h
<1>4. \E o \in Nat : /\ o + Len(Trim(h)) = Len(h) /\ Len(Trim(h)) \in Nat
                    /\ \A i \in 1 .. Len(Trim(h)) : Trim(h)[i] = h[i + o]
  <2>1. CASE Len(h) > HistoryCapacity
    <3> DEFINE o == Len(h) - HistoryCapacity
    <3>1. o \in Nat /\ \A i \in o + 1 .. Len(h) : h[i] \in Records
      BY <1>3, <2>1, ElementOfSeq
    <3>2. /\ Len(SubSeq(h, o + 1, Len(h))) = IF o + 1 <= Len(h) THEN Len(h) - (o + 1) + 1 ELSE 0
          /\ \A i \in 1 .. Len(h) - (o + 1) + 1 : SubSeq(h, o + 1, Len(h))[i] = h[o + 1 + i - 1]
      BY <1>3, <2>1, <3>1, SubSeqProperties
    <3>3. Trim(h) = SubSeq(h, o + 1, Len(h))
      BY <2>1 DEF Trim
    <3>4. Len(Trim(h)) = HistoryCapacity /\ o + Len(Trim(h)) = Len(h)
      <4>1. Len(h) \in Nat
        BY <1>3
      <4>2. o + 1 <= Len(h) /\ Len(h) - (o + 1) + 1 = HistoryCapacity /\ o + HistoryCapacity = Len(h)
        BY <2>1, <4>1
      <4> HIDE DEF o
      <4> QED
        BY <3>2, <3>3, <4>2
    <3>5. ASSUME NEW i \in 1 .. HistoryCapacity PROVE Trim(h)[i] = h[i + o]
      <4>1. Trim(h)[i] = h[o + 1 + i - 1] /\ o + 1 + i - 1 = i + o
        BY <1>3, <2>1, <3>1, <3>2, <3>3
      <4> QED
        BY <4>1
    <3> HIDE DEF o
    <3> QED
      BY <3>1, <3>4, <3>5
  <2>2. CASE ~(Len(h) > HistoryCapacity)
    <3>1. Trim(h) = h
      BY <2>2 DEF Trim
    <3>2. Len(h) \in Nat /\ 0 + Len(h) = Len(h)
      BY <1>3
    <3>3. ASSUME NEW i \in 1 .. Len(h) PROVE h[i] = h[i + 0]
      <4>1. i + 0 = i
        OBVIOUS
      <4> QED
        BY <4>1
    <3>4. 0 \in Nat
      OBVIOUS
    <3> QED
      BY <3>1, <3>2, <3>3, <3>4
  <2> QED
    BY <2>1, <2>2
<1> DEFINE L == Len(history')
           N == Len(history)
<1>5. PICK o \in Nat : /\ o + L = N + 1 /\ L \in Nat /\ N \in Nat
                       /\ \A i \in 1 .. L : history'[i] = h[i + o]
  BY <1>2, <1>3, <1>4
<1> HIDE DEF L, N
<1>6. ASSUME NEW i \in 1 .. L
      PROVE  \/ history'[i] = r
             \/ /\ \E j \in i + 1 .. L : history'[j] = r
                /\ \E m \in 1 .. N :
                     /\ history'[i] = history[m]
                     /\ \A n \in m + 1 .. N : \E j \in i + 1 .. L : history'[j] = history[n]
  <2>1. CASE i = L
    BY <1>3, <1>5, <2>1 DEF N
  <2>2. CASE i # L
    <3>1. L \in i + 1 .. L /\ L \in 1 .. L /\ L + o = N + 1
      BY <1>5, <2>2
    <3>2. history'[L] = r
      BY <1>3, <1>5, <3>1 DEF N
    <3>3. i + o \in 1 .. N
      BY <1>5, <2>2
    <3>4. history'[i] = history[i + o]
      BY <1>3, <1>5, <3>3 DEF N
    <3>5. ASSUME NEW n \in i + o + 1 .. N
          PROVE  \E j \in i + 1 .. L : history'[j] = history[n]
      <4>1. n - o \in i + 1 .. L /\ n - o \in 1 .. L /\ n - o + o = n /\ n \in 1 .. N
        BY <1>5
      <4>2. history'[n - o] = h[n - o + o]
        BY <1>5, <4>1
      <4>3. h[n] = history[n]
        BY <1>3, <4>1 DEF N
      <4> QED
        BY <4>1, <4>2, <4>3
    <3> QED
      BY <3>1, <3>2, <3>3, <3>4, <3>5
  <2> QED
    BY <2>1, <2>2
<1> QED
  BY <1>6 DEF r, L, N

\* The pile a decision was about afterwards has one card more than the record
\* tells, unless the stack was empty.
LEMMA HeightsKept ==
    ASSUME TypeOK, HistoryTellsHeights, NEW seat \in Seats, NEW pile \in Piles, NEW d \in Decisions,
           RecordDecision(seat, pile, d),
           mainStack = <<>> => mainStack' = <<>>,
           \A p \in Piles : p # pile => piles'[p] = piles[p],
           LET before == IF d = "Take" THEN 0 ELSE Len(piles[pile])
           IN  Len(piles'[pile]) = before + 1 \/ (Len(piles'[pile]) = before /\ mainStack' = <<>>)
    PROVE  HistoryTellsHeights'
<1> DEFINE rec == DecisionRecord(seat, pile, d)
           Told(r) == LET before == IF r.decision = "Take" THEN 0 ELSE r.pileSize
                          height == Len(piles[r.pile])
                      IN  \/ height = before + 1
                          \/ height = before /\ mainStack = <<>>
           ToldAfter(r) == LET before == IF r.decision = "Take" THEN 0 ELSE r.pileSize
                               height == Len(piles'[r.pile])
                           IN  \/ height = before + 1
                               \/ height = before /\ mainStack' = <<>>
<1>1. ToldAfter(rec) /\ rec.pile = pile
  BY DEF DecisionRecord
<1>2. ASSUME NEW r \in Records, Told(r), r.pile # pile PROVE ToldAfter(r)
  <2>1. r.pile \in Piles
    BY DEF Records
  <2>2. piles'[r.pile] = piles[r.pile]
    BY <1>2, <2>1
  <2> QED
    BY <1>2, <2>2
<1>3. \A m \in 1 .. Len(history) :
        (\A n \in m + 1 .. Len(history) : history[n].pile # history[m].pile) => Told(history[m])
  BY DEF HistoryTellsHeights
<1>4. \A m \in 1 .. Len(history) : history[m] \in Records
  BY ElementOfSeq DEF TypeOK
<1> HIDE DEF rec, Told
<1>5. ASSUME NEW i \in 1 .. Len(history'),
             \A j \in i + 1 .. Len(history') : history'[j].pile # history'[i].pile
      PROVE  ToldAfter(history'[i])
  <2>1. CASE history'[i] = rec
    BY <1>1, <2>1
  <2>2. CASE history'[i] # rec
    <3>1. /\ \E j \in i + 1 .. Len(history') : history'[j] = rec
          /\ \E m \in 1 .. Len(history) :
               /\ history'[i] = history[m]
               /\ \A n \in m + 1 .. Len(history) :
                    \E j \in i + 1 .. Len(history') : history'[j] = history[n]
      BY <2>2, RecordShifts DEF rec
    <3>2. PICK m \in 1 .. Len(history) :
               /\ history'[i] = history[m]
               /\ \A n \in m + 1 .. Len(history) :
                    \E j \in i + 1 .. Len(history') : history'[j] = history[n]
      BY <3>1
    <3>3. history[m].pile # pile
      BY <1>1, <1>5, <3>1, <3>2
    <3>4. Told(history[m])
      <4>1. \A n \in m + 1 .. Len(history) : history[n].pile # history[m].pile
        BY <1>5, <3>2
      <4> QED
        BY <1>3, <4>1
    <3> QED
      BY <1>2, <1>4, <3>2, <3>3, <3>4
  <2> QED
    BY <2>1, <2>2
<1> QED
  BY <1>5 DEF HistoryTellsHeights

\* The deciding seat has a notice exactly if the record is a decline of the
\* final pile; nobody else's notice changes.
LEMMA NoticesKept ==
    ASSUME TypeOK, ForcedDrawNotices, NEW seat \in Seats, NEW pile \in Piles, NEW d \in Decisions,
           RecordDecision(seat, pile, d),
           \A s \in Seats : s # seat => forcedDraws'[s] = forcedDraws[s],
           \A s \in Seats : pools[s] \subseteq pools'[s],
           forcedDraws'[seat] # NoCard => forcedDraws'[seat] \in pools'[seat],
           forcedDraws'[seat] # NoCard <=> d = "Decline" /\ pile = FinalPile
    PROVE  ForcedDrawNotices'
<1> DEFINE rec == DecisionRecord(seat, pile, d)
<1>1. rec.seat = seat /\ rec.decision = d /\ rec.pile = pile
  BY DEF DecisionRecord
<1>2. \A m \in 1 .. Len(history) : history[m].seat \in Seats
  <2>1. \A m \in 1 .. Len(history) : history[m] \in Records
    BY ElementOfSeq DEF TypeOK
  <2> QED
    BY <2>1 DEF Records
<1> HIDE DEF rec
<1>3. \A s \in Seats : forcedDraws'[s] # NoCard => forcedDraws'[s] \in pools'[s]
  BY DEF ForcedDrawNotices
<1>4. ASSUME NEW i \in 1 .. Len(history'),
             \A j \in i + 1 .. Len(history') : history'[j].seat # history'[i].seat
      PROVE  forcedDraws'[history'[i].seat] # NoCard
               <=> history'[i].decision = "Decline" /\ history'[i].pile = FinalPile
  <2>1. CASE history'[i] = rec
    BY <1>1, <2>1
  <2>2. CASE history'[i] # rec
    <3>1. /\ \E j \in i + 1 .. Len(history') : history'[j] = rec
          /\ \E m \in 1 .. Len(history) :
               /\ history'[i] = history[m]
               /\ \A n \in m + 1 .. Len(history) :
                    \E j \in i + 1 .. Len(history') : history'[j] = history[n]
      BY <2>2, RecordShifts DEF rec
    <3>2. PICK m \in 1 .. Len(history) :
               /\ history'[i] = history[m]
               /\ \A n \in m + 1 .. Len(history) :
                    \E j \in i + 1 .. Len(history') : history'[j] = history[n]
      BY <3>1
    <3>3. history[m].seat # seat
      BY <1>1, <1>4, <3>1, <3>2
    <3>4. \A n \in m + 1 .. Len(history) : history[n].seat # history[m].seat
      BY <1>4, <3>2
    <3>5. forcedDraws[history[m].seat] # NoCard
            <=> history[m].decision = "Decline" /\ history[m].pile = FinalPile
      BY <3>4 DEF ForcedDrawNotices
    <3>6. forcedDraws'[history[m].seat] = forcedDraws[history[m].seat]
      BY <1>2, <3>3
    <3> QED
      BY <3>2, <3>5, <3>6
  <2> QED
    BY <2>1, <2>2
<1> QED
  BY <1>3, <1>4 DEF ForcedDrawNotices

\* The three decisions keep the table told.
LEMMA TakeTold ==
    ASSUME TypeOK, TypeOK', TableTold, NEW seat \in Seats, NEW pile \in Piles, TakePile(seat, pile)
    PROVE  HistoryTellsHeights' /\ ForcedDrawNotices'
<1>1. mainStack \in Seq(Cards) /\ RecordDecision(seat, pile, "Take") /\ "Take" \in Decisions
  BY DEF TypeOK, TakePile, Decisions
<1>2. /\ mainStack' = Rest(mainStack) /\ piles'[pile] = TopCard(mainStack)
      /\ \A p \in Piles : p # pile => piles'[p] = piles[p]
  BY DEF TakePile, Replaced, TypeOK
<1>3. mainStack = <<>> => mainStack' = <<>>
  BY <1>2 DEF Rest
<1>4. LET before == IF "Take" = "Take" THEN 0 ELSE Len(piles[pile])
      IN  Len(piles'[pile]) = before + 1 \/ (Len(piles'[pile]) = before /\ mainStack' = <<>>)
  <2>1. Len(TopCard(mainStack)) = IF mainStack = <<>> THEN 0 ELSE 1
    BY <1>1, DrawTyped
  <2> QED
    BY <1>2, <1>3, <2>1
<1>5. HistoryTellsHeights'
  BY <1>1, <1>2, <1>3, <1>4, HeightsKept DEF TableTold
<1>6. /\ \A s \in Seats : s # seat => forcedDraws'[s] = forcedDraws[s]
      /\ forcedDraws'[seat] = NoCard
      /\ \A s \in Seats : pools[s] \subseteq pools'[s]
  BY DEF TakePile, ClearedNotice, TypeOK
<1>7. ForcedDrawNotices'
  BY <1>1, <1>6, NoticesKept DEF TableTold
<1> QED
  BY <1>5, <1>7

LEMMA PutBackHeights ==
    ASSUME TypeOK, NEW pile \in Piles, piles' = PutBack(pile), mainStack = <<>> => mainStack' = <<>>
    PROVE  /\ \A p \in Piles : p # pile => piles'[p] = piles[p]
           /\ Len(piles[pile]) \in Nat
           /\ \/ Len(piles'[pile]) = Len(piles[pile]) + 1
              \/ Len(piles'[pile]) = Len(piles[pile]) /\ mainStack' = <<>>
<1>1. /\ piles'[pile] = piles[pile] \o TopCard(mainStack)
      /\ \A p \in Piles : p # pile => piles'[p] = piles[p]
  BY DEF PutBack, TypeOK
<1>2. piles[pile] \in Seq(Cards) /\ mainStack \in Seq(Cards) /\ TopCard(mainStack) \in Seq(Cards)
  BY DrawTyped DEF TypeOK
<1>3. /\ Len(piles[pile]) \in Nat
      /\ Len(piles'[pile]) = Len(piles[pile]) + Len(TopCard(mainStack))
  BY <1>1, <1>2, ConcatProperties, LenProperties
<1>4. Len(TopCard(mainStack)) = IF mainStack = <<>> THEN 0 ELSE 1
  BY <1>2, DrawTyped
<1>5. CASE mainStack = <<>>
  BY <1>1, <1>3, <1>4, <1>5
<1>6. CASE mainStack # <<>>
  BY <1>1, <1>3, <1>4, <1>6
<1> QED
  BY <1>5, <1>6

LEMMA DeclineTold ==
    ASSUME TypeOK, TypeOK', TableTold, NEW seat \in Seats, NEW pile \in Piles, DeclinePile(seat, pile)
    PROVE  HistoryTellsHeights' /\ ForcedDrawNotices'
<1>1. /\ RecordDecision(seat, pile, "Decline") /\ "Decline" \in Decisions /\ pile # FinalPile
      /\ mainStack' = Rest(mainStack) /\ piles' = PutBack(pile) /\ "Decline" # "Take"
  BY DEF DeclinePile, Decisions
<1>2. mainStack = <<>> => mainStack' = <<>>
  BY <1>1 DEF Rest
<1>3. HistoryTellsHeights'
  BY <1>1, <1>2, PutBackHeights, HeightsKept DEF TableTold
<1>4. /\ \A s \in Seats : s # seat => forcedDraws'[s] = forcedDraws[s]
      /\ forcedDraws'[seat] = NoCard
      /\ \A s \in Seats : pools[s] \subseteq pools'[s]
  BY DEF DeclinePile, ClearedNotice, TypeOK
<1>5. ForcedDrawNotices'
  BY <1>1, <1>4, NoticesKept DEF TableTold
<1> QED
  BY <1>3, <1>5

\* The final pile may be declined only while a second card is left, so the
\* declining seat does get one and is told of it.
LEMMA DeclineFinalTold ==
    ASSUME TypeOK, TypeOK', TableTold, NEW seat \in Seats, NEW pile \in Piles,
           DeclineFinalPile(seat, pile)
    PROVE  HistoryTellsHeights' /\ ForcedDrawNotices'
<1> DEFINE drawn == TopCard(Rest(mainStack))
<1>1. /\ RecordDecision(seat, pile, "Decline") /\ "Decline" \in Decisions /\ pile = FinalPile
      /\ mainStack' = Rest(Rest(mainStack)) /\ piles' = PutBack(pile) /\ "Decline" # "Take"
  BY DEF DeclineFinalPile, Decisions
<1>2. mainStack = <<>> => mainStack' = <<>>
  BY <1>1 DEF Rest
<1>3. HistoryTellsHeights'
  BY <1>1, <1>2, PutBackHeights, HeightsKept DEF TableTold
<1>4. Len(mainStack) >= 2
  <2>1. ~LaterPileAvailable(pile)
    BY <1>1 DEF LaterPileAvailable, FinalPile, Piles
  <2> QED
    BY <2>1 DEF DeclineFinalPile, Accepted, RefusalFor, DeclineRefusal, NoRefusal
<1>5. mainStack \in Seq(Cards) /\ Rest(mainStack) \in Seq(Cards) /\ Rest(mainStack) # <<>>
  <2>1. mainStack \in Seq(Cards) /\ mainStack # <<>>
    BY <1>4, EmptySeq DEF TypeOK
  <2>2. Rest(mainStack) \in Seq(Cards) /\ Len(Rest(mainStack)) = Len(mainStack) - 1
    BY <2>1, DrawTyped
  <2>3. Len(Rest(mainStack)) # 0
    BY <1>4, <2>1, <2>2, LenProperties
  <2> QED
    BY <2>1, <2>2, <2>3
<1>6. drawn \in Seq(Cards) /\ Len(drawn) = 1
  BY <1>5, DrawTyped
<1>7. /\ pools' = [pools EXCEPT ![seat] = @ \cup ToSet(drawn)]
      /\ forcedDraws' = [ClearedNotice(seat) EXCEPT
                           ![seat] = IF drawn = <<>> THEN @ ELSE drawn[1]]
  BY DEF DeclineFinalPile
<1> HIDE DEF drawn
<1>8. drawn # <<>> /\ drawn[1] \in Cards /\ drawn[1] \in ToSet(drawn)
  <2>1. Len(<<>>) = 0
    BY EmptySeq
  <2>2. drawn # <<>>
    <3>1. ASSUME drawn = <<>> PROVE Len(drawn) = 0
      BY <2>1, <3>1, Zenon
    <3>2. Len(drawn) # 0
      BY <1>6
    <3> QED
      BY <3>1, <3>2, Zenon
  <2>3. 1 \in 1 .. Len(drawn)
    BY <1>6
  <2> QED
    BY <1>6, <2>2, <2>3, ElementOfSeq DEF ToSet
<1>9. drawn[1] # NoCard
  BY <1>8, StacksAssumption
<1>10. /\ \A s \in Seats : s # seat => forcedDraws'[s] = forcedDraws[s]
       /\ forcedDraws'[seat] = drawn[1]
       /\ \A s \in Seats : pools[s] \subseteq pools'[s]
       /\ drawn[1] \in pools'[seat]
  BY <1>7, <1>8 DEF ClearedNotice, TypeOK
<1>11. ForcedDrawNotices'
  BY <1>1, <1>9, <1>10, NoticesKept DEF TableTold
<1> QED
  BY <1>3, <1>11

\* What the active seat has seen: nothing of a pile changes after the seat
\* passed it, except for the one card its own decline added.
LEMMA InspectedKept ==
    ASSUME TypeOK, TypeOK', InspectedContract, [Next]_vars
    PROVE  InspectedContract'
<1>1. CASE UNCHANGED vars
  BY <1>1 DEF vars, InspectedContract
<1>2. ASSUME \/ \E stack \in Stacks, seat \in Seats : StartDraft(stack, seat)
             \/ \E seat \in Seats, pile \in Piles : TakePile(seat, pile) \/ DeclineFinalPile(seat, pile)
      PROVE  InspectedContract'
  <2>1. cursor' = 0 /\ inspected' = [p \in Piles |-> IF p = 0 THEN Len(piles'[0]) ELSE 0]
    BY <1>2 DEF StartDraft, TakePile, DeclineFinalPile, EndTurn
  <2> QED
    BY <2>1 DEF InspectedContract, Piles
<1>3. ASSUME NEW seat \in Seats, NEW pile \in Piles, DeclinePile(seat, pile)
      PROVE  InspectedContract'
  <2>1. /\ cursor = pile /\ cursor + 1 \in Piles /\ cursor \in Piles /\ status = "Drafting"
        /\ cursor \in Nat
    BY <1>3 DEF DeclinePile, Accepted, RefusalFor, NoRefusal, FinalPile, Piles
  <2>2. /\ cursor' = cursor + 1 /\ piles' = PutBack(pile) /\ mainStack' = Rest(mainStack)
        /\ inspected' = [inspected EXCEPT ![cursor + 1] = Len(piles'[cursor + 1])]
    BY <1>3 DEF DeclinePile
  <2>3. mainStack = <<>> => mainStack' = <<>>
    BY <2>2 DEF Rest
  <2>4. /\ \A p \in Piles : p # pile => piles'[p] = piles[p]
        /\ Len(piles[pile]) \in Nat
        /\ \/ Len(piles'[pile]) = Len(piles[pile]) + 1
           \/ Len(piles'[pile]) = Len(piles[pile])
    BY <2>2, <2>3, PutBackHeights
  <2>5. /\ inspected \in [Piles -> Nat] /\ inspected[cursor] = Len(piles[cursor])
        /\ \A p \in Piles : p < cursor => inspected[p] <= Len(piles[p]) /\ Len(piles[p]) <= inspected[p] + 1
        /\ \A p \in Piles : p > cursor => inspected[p] = 0
    BY <2>1 DEF InspectedContract, TypeOK
  <2>6. inspected'[cursor'] = Len(piles'[cursor'])
    BY <2>1, <2>2, <2>5
  <2>7. ASSUME NEW p \in Piles, p < cursor'
        PROVE  inspected'[p] <= Len(piles'[p]) /\ Len(piles'[p]) <= inspected'[p] + 1
    <3>1. p \in Nat /\ p # cursor + 1 /\ (p = cursor \/ p < cursor)
      BY <2>1, <2>2, <2>7 DEF Piles
    <3>2. inspected'[p] = inspected[p]
      BY <2>2, <2>5, <3>1
    <3>3. CASE p = cursor
      BY <2>1, <2>4, <2>5, <3>2, <3>3
    <3>4. CASE p < cursor
      BY <2>1, <2>4, <2>5, <3>1, <3>2, <3>4
    <3> QED
      BY <3>1, <3>3, <3>4
  <2>8. ASSUME NEW p \in Piles, p > cursor' PROVE inspected'[p] = 0
    <3>1. p > cursor /\ p # cursor + 1
      BY <2>1, <2>2, <2>8 DEF Piles
    <3> QED
      BY <2>2, <2>5, <3>1
  <2> QED
    BY <2>6, <2>7, <2>8 DEF InspectedContract
<1> QED
  BY <1>1, <1>2, <1>3, StepCases

LEMMA ToldStep ==
    ASSUME TypeOK, TypeOK', TableTold, [Next]_vars
    PROVE  TableTold'
<1>1. InspectedContract'
  BY InspectedKept DEF TableTold
<1>2. HistoryTellsHeights' /\ ForcedDrawNotices'
  <2>1. CASE UNCHANGED vars
    BY <2>1 DEF vars, TableTold, HistoryTellsHeights, ForcedDrawNotices
  <2>2. ASSUME NEW stack \in Stacks, NEW seat \in Seats, StartDraft(stack, seat)
        PROVE  HistoryTellsHeights' /\ ForcedDrawNotices'
    <3>1. history' = <<>> /\ \A s \in Seats : forcedDraws'[s] = NoCard
      BY <2>2 DEF StartDraft
    <3> QED
      BY <3>1 DEF HistoryTellsHeights, ForcedDrawNotices
  <2> QED
    BY <2>1, <2>2, StepCases, TakeTold, DeclineTold, DeclineFinalTold
<1> QED
  BY <1>1, <1>2 DEF TableTold

\* For any pod, deck and history capacity, what the table is told agrees with
\* the piles and the pools: the inspected counts, the trimmed history and the
\* forced-draw notices.
THEOREM TableAlwaysTold == Spec => []TableTold
<1>1. Init => TableTold
  BY DEF Init, TableTold, InspectedContract, HistoryTellsHeights, ForcedDrawNotices
<1>2. TypeOK /\ TypeOK' /\ TableTold /\ [Next]_vars => TableTold'
  BY ToldStep
<1> QED
  BY <1>1, <1>2, TypeCorrect, PTL DEF Spec
============================================================================
