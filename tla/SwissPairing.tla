---------------------------- MODULE SwissPairing ----------------------------
(***************************************************************************)
(* How a Swiss round is paired: the pure part of draft-core's              *)
(* generate_swiss_pairings.  A pool is a sequence of players in standings  *)
(* order; a pair is a set of two players, because the code never tells the *)
(* two orientations apart (prior_pairs holds both).                        *)
(***************************************************************************)
EXTENDS Integers, FiniteSets, SequencesExt

\* The pool without its first player and without the player at position i.
RestOfPool(pool, i) == Tail(RemoveAt(pool, i))

\* Mutant: the first admissible partner is final, a dead end is never undone.
FirstFit_Greedy(pool, prior, allowRematch, found) ==
    LET partners == {i \in 2 .. Len(pool) : allowRematch \/ {pool[1], pool[i]} \notin prior}
    IN  IF partners = {} THEN {}
        ELSE {<<{pool[1], pool[Min(partners)]}>> \o m : m \in found[RestOfPool(pool, Min(partners))]}

\* Mutant: partners are tried from the bottom of the standings.
FirstFit_LastFit(pool, prior, allowRematch, found) ==
    LET partners == {i \in 2 .. Len(pool) :
                        /\ allowRematch \/ {pool[1], pool[i]} \notin prior
                        /\ found[RestOfPool(pool, i)] # {}}
    IN  IF partners = {} THEN {}
        ELSE {<<{pool[1], pool[Max(partners)]}>> \o m : m \in found[RestOfPool(pool, Max(partners))]}

\* The loop of pair_pool_avoiding_rematches: the first player takes the first
\* partner, in pool order, with which the rest of the pool can be matched;
\* found holds what the recursive call finds in the rest.
FirstFit(pool, prior, allowRematch, found) ==
    LET partners == {i \in 2 .. Len(pool) :
                        /\ allowRematch \/ {pool[1], pool[i]} \notin prior
                        /\ found[RestOfPool(pool, i)] # {}}
    IN  IF partners = {} THEN {}
        ELSE {<<{pool[1], pool[Min(partners)]}>> \o m : m \in found[RestOfPool(pool, Min(partners))]}

\* pair_pool_avoiding_rematches.  The result holds the matching found, and is
\* empty when there is none; n is the number of frames the recursion has left,
\* one for each two players.
PairPool(pool, prior, allowRematch) ==
    LET try[n \in 0 .. Len(pool) \div 2] ==
            [p \in Seq(ToSet(pool)) |->
                IF p = <<>> THEN {<<>>}
                ELSE IF n = 0 THEN {}
                ELSE FirstFit(p, prior, allowRematch, try[n - 1])]
    IN  try[Len(pool) \div 2][pool]

The(S) == CHOOSE x \in S : TRUE

\* Rematch-free if that is possible, otherwise first fit with rematches.
PairEvenPool(pool, prior) ==
    LET rematchFree == PairPool(pool, prior, FALSE)
    IN  The(IF rematchFree # {} THEN rematchFree ELSE PairPool(pool, prior, TRUE))

\* Mutant: the bye goes as far up the standings as possible.
ByePosition_FromTheTop(pool, prior) ==
    LET admissible == {i \in 1 .. Len(pool) :
                         PairPool(RemoveAt(pool, i), prior, FALSE) # {}}
    IN  IF admissible = {} THEN Len(pool) ELSE Min(admissible)

\* An odd pod: the bye goes to the lowest player without whom the others can
\* be paired rematch-free, and to the bottom player if there is none.
ByePosition(pool, prior) ==
    LET admissible == {i \in 1 .. Len(pool) :
                         PairPool(RemoveAt(pool, i), prior, FALSE) # {}}
    IN  IF admissible = {} THEN Len(pool) ELSE Max(admissible)

\* The pairs of a round in table order, and the set of players with a bye.
PairSwiss(pool, prior) ==
    IF Len(pool) % 2 = 0
    THEN [paired |-> PairEvenPool(pool, prior), bye |-> {}]
    ELSE LET b == ByePosition(pool, prior)
         IN  [paired |-> PairEvenPool(RemoveAt(pool, b), prior), bye |-> {pool[b]}]
=============================================================================
