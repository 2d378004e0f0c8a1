-------------------------- MODULE MCDraftTournament -------------------------
(***************************************************************************)
(* Pods small enough to follow through a whole event.                      *)
(***************************************************************************)
EXTENDS DraftTournament

Pod(f, n) == [format |-> f, seats |-> n]

\* Swiss pods with forced rematches, with byes, and with three rematch-free
\* rounds; the two brackets that single elimination admits.
MCEvents == {Pod(Swiss, 2), Pod(Swiss, 3), Pod(Swiss, 4),
             Pod(SingleElimination, 4), Pod(SingleElimination, 8)}

\* For the tally: a pod whose players have met before suffices.
MCOnePod == {Pod(Swiss, 2)}
=============================================================================
