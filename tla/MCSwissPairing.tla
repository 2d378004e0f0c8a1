--------------------------- MODULE MCSwissPairing ---------------------------
(***************************************************************************)
(* SwissPairing against a reference that enumerates matchings, on every    *)
(* history of a pod: the pool is <<1, ..., n>> without loss of generality, *)
(* the earlier rounds are arbitrary rounds, rematches included.            *)
(***************************************************************************)
EXTENDS SwissPairing

CONSTANTS PodSizes,     \* numbers of players
          MaxRounds     \* earlier rounds of a history

ASSUME PodSizesAssumption == PodSizes \subseteq Nat

VARIABLES pool,         \* the players in standings order
          rounds,       \* the number of earlier rounds
          prior         \* the pairs that have met in them

history == <<pool, rounds, prior>>

\* The reference: sets of disjoint pairs that leave at most one player of S.
RoundsOf(S) == {M \in kSubset(Cardinality(S) \div 2, kSubset(2, S)) :
                    Cardinality(UNION M) = 2 * (Cardinality(S) \div 2)}

AllRounds == [n \in PodSizes |-> RoundsOf(1 .. n)]

NoHistory == /\ \E n \in PodSizes : pool = [i \in 1 .. n |-> i]
             /\ rounds = 0
             /\ prior = {}

\* Some earlier round of the pod.
PlayRound == /\ rounds < MaxRounds
             /\ \E M \in AllRounds[Len(pool)] : prior' = prior \cup M
             /\ rounds' = rounds + 1
             /\ UNCHANGED pool

HistorySpec == NoHistory /\ [][PlayRound]_history

-----------------------------------------------------------------------------
result == PairSwiss(pool, prior)

RematchFree == {M \in AllRounds[Len(pool)] : M \cap prior = {}}

\* pair_pool_avoiding_rematches "succeeds iff a rematch-free perfect matching
\* exists" (session.rs:552): a round has a rematch only if every way to pair
\* the pod, whoever takes the bye, has one.
NoAvoidableRematch ==
    RematchFree # {} => ToSet(result.paired) \in RematchFree

Partner(M, p) == The(The({q \in M : p \in q}) \ {p})

\* Partners are tried in standings order: among the rematch-free ways to pair
\* the players that are left after the bye, the round is the one in which the
\* best-placed player, then the next, meets the best-placed opponent.
StandingsOrderFirst ==
    \A M \in RematchFree :
        LET N == ToSet(result.paired)
            differ == {p \in UNION M : Partner(M, p) # Partner(N, p)}
        IN  (UNION M = UNION N /\ differ # {})
                => Partner(N, Min(differ)) < Partner(M, Min(differ))

\* "The bye goes as far down the standings as a rematch-free matching of the
\* remainder allows" (session.rs:655): no rematch-free round has a lower bye.
ByeAsLowAsAllowed ==
    \A M \in RematchFree : \A b \in result.bye : \A c \in ToSet(pool) \ UNION M : c <= b
=============================================================================
