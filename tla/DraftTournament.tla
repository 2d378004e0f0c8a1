-------------------------- MODULE DraftTournament ---------------------------
(***************************************************************************)
(* The event after a draft (draft-core session.rs): GeneratePairings,      *)
(* ReportMatchResult and AdvanceRound of a Swiss or a single-elimination   *)
(* pod.  Seats are numbered from 0 and a seat's PlayerId is its number.    *)
(***************************************************************************)
EXTENDS SwissPairing

CONSTANTS Events,       \* the [format, seats] pods that are played
          SwissRounds,  \* SWISS_ROUNDS
          NoPlayer      \* None as a winner

ASSUME SwissRoundsAssumption == SwissRounds \in Nat \ {0}

ASSUME NoPlayerAssumption == NoPlayer \notin Nat

Swiss == "Swiss"
SingleElimination == "SingleElimination"

\* allowed_pod_size_range: a Swiss pod may be odd, a bracket may not.
ASSUME EventsAssumption ==
    \A e \in Events : \/ e.format = Swiss /\ e.seats \in Nat \ {0, 1}
                      \/ e.format = SingleElimination /\ e.seats \in {4, 8}

VARIABLES event,        \* config.tournament_format and seats.len()
          status,       \* session.status
          currentRound, \* the last round whose pairings exist
          pairings,     \* per round, its pairings in table order
          records,      \* match_records; a missing record is all zeroes
          misread       \* history: a draw was undone as somebody's win

eventVars == <<event, status, currentRound, pairings, records, misread>>

Players == 0 .. event.seats - 1

\* match_losses is left out: every statement that changes it also changes
\* losses by as much.  A bye adds to matchWins and not to wins.
NoRecord == [matchWins |-> 0, wins |-> 0, losses |-> 0, draws |-> 0]

\* What a match_id names: a round and a table of it.
Matches == UNION {{r} \X DOMAIN pairings[r] : r \in DOMAIN pairings}

PairingOf(m) == pairings[m[1]][m[2]]

AllComplete(ps) == \A p \in ToSet(ps) : p.status = "Complete"

-----------------------------------------------------------------------------
(* DraftPairing::result_winner: a completed pairing with no winner is read *)
(* off the players' match wins, as sessions saved before pairings had a    *)
(* winner need.                                                            *)
InferWinnerFromRecords(p) ==
    LET best == {q \in p.players : \A r \in p.players :
                                     records[q].matchWins >= records[r].matchWins}
    IN  IF p.status = "Complete" /\ Cardinality(best) = 1 THEN The(best) ELSE NoPlayer

ResultWinner(p) == IF p.winner # NoPlayer THEN p.winner ELSE InferWinnerFromRecords(p)

\* apply_match_record_result, as the change it makes to a record.
Applied(rec, q, winner) ==
    IF winner = NoPlayer THEN [rec EXCEPT !.draws = @ + 1]
    ELSE IF winner = q   THEN [rec EXCEPT !.matchWins = @ + 1, !.wins = @ + 1]
                         ELSE [rec EXCEPT !.losses = @ + 1]

LessOne(n) == IF n = 0 THEN 0 ELSE n - 1    \* saturating_sub(1)

\* undo_match_record_result, likewise.
Undone(rec, q, winner) ==
    IF winner = NoPlayer THEN [rec EXCEPT !.draws = LessOne(@)]
    ELSE IF winner = q   THEN [rec EXCEPT !.matchWins = LessOne(@), !.wins = LessOne(@)]
                         ELSE [rec EXCEPT !.losses = LessOne(@)]

-----------------------------------------------------------------------------
\* Standings order: match wins descending, shuffled within each bracket.
Pools == {pool \in SetToSeqs(Players) :
            \A i \in 1 .. Len(pool) - 1 :
                records[pool[i]].matchWins >= records[pool[i + 1]].matchWins}

PairsIn(r) == {p.players : p \in ToSet(pairings[r])}

PriorPairs == UNION {PairsIn(r) : r \in DOMAIN pairings}

\* Pairs of a single-elimination round: best seed against worst, inward.
SeededPairs == [i \in 1 .. event.seats \div 2 |-> {i - 1, event.seats - i}]

\* The k-th smallest member of a set of numbers.
Kth(S, k) == CHOOSE i \in S : Cardinality({j \in S : j <= i}) = k

\* The tables of the last round with a completed match that has a winner.
WonTables == {i \in DOMAIN pairings[currentRound] :
                LET p == pairings[currentRound][i]
                IN  p.status = "Complete" /\ ResultWinner(p) # NoPlayer}

WinnerAt(k) == ResultWinner(pairings[currentRound][Kth(WonTables, k)])

\* Mutant: a winner also plays the one after (windows(2) for chunks(2)).
AdjacentWinners_Windows ==
    [i \in 1 .. Cardinality(WonTables) - 1 |-> {WinnerAt(i), WinnerAt(i + 1)}]

\* Later: the winners of adjacent completed matches of the round before.
AdjacentWinners ==
    [i \in 1 .. Cardinality(WonTables) \div 2 |-> {WinnerAt(2 * i - 1), WinnerAt(2 * i)}]

\* The rounds GeneratePairings may produce, with the players who get a bye.
PossibleRounds ==
    IF event.format = Swiss
    THEN {PairSwiss(pool, PriorPairs) : pool \in Pools}
    ELSE {[paired |-> IF currentRound = 0 THEN SeededPairs ELSE AdjacentWinners,
           bye |-> {}]}

Tables(paired) ==
    [i \in 1 .. Len(paired) |->
        [players |-> paired[i], status |-> "Pending", winner |-> NoPlayer]]

\* A bye counts as a match win.
Credited(bye) == [q \in Players |-> IF q \in bye
                                    THEN [records[q] EXCEPT !.matchWins = @ + 1]
                                    ELSE records[q]]

MayPair == status \in {"Deckbuilding", "Pairing", "RoundComplete"}

GeneratePairings ==
    /\ MayPair
    /\ \E r \in PossibleRounds :
            /\ pairings' = Append(pairings, Tables(r.paired))
            /\ records' = Credited(r.bye)
    /\ status' = "MatchInProgress"
    /\ currentRound' = currentRound + 1
    /\ UNCHANGED <<event, misread>>

-----------------------------------------------------------------------------
\* Mutant: the result of any round may be corrected.
MayReport_AnyRound(m, winner) ==
    /\ status \in {"MatchInProgress", "RoundComplete"}
    /\ event.format = SingleElimination => winner # NoPlayer
    /\ winner \in PairingOf(m).players \cup {NoPlayer}

\* The early returns of ReportMatchResult: only the current round, a winner
\* who plays in the match, and no draw in single elimination.
MayReport(m, winner) ==
    /\ status \in {"MatchInProgress", "RoundComplete"}
    /\ m[1] = currentRound
    /\ event.format = SingleElimination => winner # NoPlayer
    /\ winner \in PairingOf(m).players \cup {NoPlayer}

\* Mutant: the result that is replaced is not taken back.
RecordsAfter_NoUndo(p, winner) ==
    [q \in Players |-> IF q \in p.players THEN Applied(records[q], q, winner) ELSE records[q]]

\* A completed pairing's earlier result is undone before the new one counts.
RecordsAfter(p, winner) ==
    LET settled(q) == IF p.status = "Complete" THEN Undone(records[q], q, ResultWinner(p))
                                               ELSE records[q]
    IN  [q \in Players |-> IF q \in p.players THEN Applied(settled(q), q, winner)
                                              ELSE records[q]]

\* Mutant: a bracket is over when no match is left to pair.
TournamentOver_EmptyBracket(round) ==
    IF event.format = Swiss THEN currentRound >= SwissRounds ELSE Len(round) = 0

TournamentOver(round) ==
    IF event.format = Swiss THEN currentRound >= SwissRounds ELSE Len(round) = 1

StatusAfter(round) ==
    IF ~AllComplete(round) THEN status
    ELSE IF TournamentOver(round) THEN "Complete" ELSE "RoundComplete"

ReportMatchResult(m, winner) ==
    /\ MayReport(m, winner)
    /\ pairings' = [pairings EXCEPT ![m[1]][m[2]] =
                        [players |-> @.players, status |-> "Complete", winner |-> winner]]
    /\ records' = RecordsAfter(PairingOf(m), winner)
    /\ status' = StatusAfter(pairings'[currentRound])
    /\ misread' = \/ misread
                  \/ /\ PairingOf(m).status = "Complete"
                     /\ PairingOf(m).winner # ResultWinner(PairingOf(m))
    /\ UNCHANGED <<event, currentRound>>

AdvanceRound ==
    /\ status = "RoundComplete"
    /\ status' = "Pairing"
    /\ UNCHANGED <<event, currentRound, pairings, records, misread>>

-----------------------------------------------------------------------------
EventInit == /\ event \in Events
             /\ status \in {"Deckbuilding", "Pairing"}
             /\ currentRound = 0
             /\ pairings = <<>>
             /\ records = [q \in Players |-> NoRecord]
             /\ misread = FALSE

\* What a report may name: a match, and a seat or a draw.
Results == Matches \X (Players \cup {NoPlayer})

\* A match that has not been reported yet is.
ReportOpenMatch ==
    \E mw \in Results : /\ PairingOf(mw[1]).status = "Pending"
                        /\ ReportMatchResult(mw[1], mw[2])

EventNext == \/ GeneratePairings
             \/ \E mw \in Results : ReportMatchResult(mw[1], mw[2])
             \/ AdvanceRound

EventSpec == EventInit /\ [][EventNext]_eventVars

\* The host reports every match in the end and asks for the next round.
FairEventSpec == EventSpec /\ WF_eventVars(GeneratePairings) /\ WF_eventVars(ReportOpenMatch)

-----------------------------------------------------------------------------
(* Properties.                                                             *)

Pairings == [players : SUBSET Players, status : {"Pending", "Complete"},
             winner : Players \cup {NoPlayer}]

EventTypeOK ==
    /\ event \in Events
    /\ status \in {"Deckbuilding", "Pairing", "MatchInProgress", "RoundComplete", "Complete"}
    /\ pairings \in Seq(Seq(Pairings)) /\ Len(pairings) = currentRound
    /\ \A m \in Matches : PairingOf(m).winner \in PairingOf(m).players \cup {NoPlayer}
    /\ records \in [Players -> [matchWins : Nat, wins : Nat, losses : Nat, draws : Nat]]
    /\ misread \in BOOLEAN

Completed(q) == {m \in Matches : /\ q \in PairingOf(m).players
                                 /\ PairingOf(m).status = "Complete"}
Won(q)   == {m \in Completed(q) : PairingOf(m).winner = q}
Drawn(q) == {m \in Completed(q) : PairingOf(m).winner = NoPlayer}
Lost(q)  == Completed(q) \ (Won(q) \cup Drawn(q))
Byes(q)  == IF event.format = Swiss
            THEN {r \in 1 .. currentRound : q \notin UNION PairsIn(r)}
            ELSE {}

\* The standings (match_records) are what the pairings say: every completed
\* match counts once, with the result reported last, and a Swiss bye is a
\* match win (report_match_result_replaces_previous_result, session.rs:3260).
RecordsTally ==
    \A q \in Players :
        records[q] = [matchWins |-> Cardinality(Won(q)) + Cardinality(Byes(q)),
                      wins      |-> Cardinality(Won(q)),
                      losses    |-> Cardinality(Lost(q)),
                      draws     |-> Cardinality(Drawn(q))]

\* The same while no corrected draw was read as somebody's win, which is the
\* only way the tally goes wrong however often results are corrected.
RecordsTallyUnlessMisread == misread \/ RecordsTally

\* Nobody sits at two tables of a round; in Swiss at most one player, the
\* bye of an odd pod, sits out.
OneTablePerRound ==
    EventTypeOK /\ \A r \in 1 .. currentRound :
        LET all == UNION PairsIn(r)
        IN  /\ Cardinality(all) = 2 * Len(pairings[r])
            /\ event.format = Swiss => Cardinality(Players \ all) = event.seats % 2

\* Single elimination: the players of a round are the winners of the round
\* before, as they stand after corrections, so a beaten player never returns
\* and a corrected result never leaves the wrong player in the bracket.
BracketSound ==
    event.format = SingleElimination =>
        \A r \in 2 .. currentRound :
            UNION PairsIn(r) = {p.winner : p \in ToSet(pairings[r - 1])}

\* The event ends when its matches are reported and rounds are asked for,
\* although results may be corrected without end.
EventEnds == <>(status = "Complete")
=============================================================================
