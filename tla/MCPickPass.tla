---------------------------- MODULE MCPickPass -----------------------------
(***************************************************************************)
(* Small instances of PickPass.  A deal is given by the sizes of the       *)
(* boosters, sizes[s + 1][n] for the n-th booster of seat s; the cards are *)
(* numbered so that no two boosters share one.                             *)
(***************************************************************************)
EXTENDS PickPass

CONSTANT MaxPackSize

Booster(s, n, first, size) ==
    {(s * PackCount + n) * (MaxPackSize + 1) + first + i : i \in 0 .. size - 1}

\* first is 0 for a deal with the effect card, the card numbered 0, in the
\* first booster of seat 0, and 1 for a deal without it.
DealOf(first, sizes) ==
    [s \in Seats |-> [n \in 1 .. PackCount |-> Booster(s, n - 1, first, sizes[s + 1][n])]]

\* The card with the additional-pick effect.
MCEffectCards == {0}

\* Boosters alike in each round, with and without the effect card, boosters
\* that differ by seat (a Chaos layout), and rounds of different size.
MCDeals == {DealOf(0, <<<<3, 2>>, <<3, 2>>, <<3, 2>>>>),
            DealOf(1, <<<<3, 1>>, <<3, 1>>, <<3, 1>>>>),
            DealOf(0, <<<<3, 1>>, <<1, 1>>, <<2, 2>>>>),
            DealOf(0, <<<<4, 1>>, <<2, 3>>, <<3, 1>>>>),
            DealOf(1, <<<<1, 2>>, <<1, 2>>, <<1, 2>>>>)}
============================================================================
