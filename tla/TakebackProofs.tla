--------------------------- MODULE TakebackProofs ---------------------------
(***************************************************************************)
(* Rolling a game back, for any table, any ring capacities and any number  *)
(* of turns, games and AI results: the snapshots both rings hold are of    *)
(* the game as it was played, a vote stays current, and it is shown.       *)
(***************************************************************************)
EXTENDS Takeback, SequenceTheorems, FiniteSetTheorems, WellFoundedInduction, TLAPS

-----------------------------------------------------------------------------
(* Induction, with sets in the place of predicates.                        *)

LEMMA LeastNumber ==
    ASSUME NEW T \in SUBSET Nat, T # {}
    PROVE  \E x \in T : \A y \in T : x <= y
  <1> DEFINE R == {ss \in Nat \X Nat : ss[1] < ss[2]}
  <1>1. IsWellFoundedOn(R, Nat)
    BY NatLessThanWellFounded DEF OpToRel
  <1> HIDE DEF R
  <1>2. PICK x \in T : \A y \in T : ~(<<y, x>> \in R)
    BY <1>1, WFMin
  <1>3. \A y \in T : ~(y < x)
    BY <1>2 DEF R
  <1> QED
    BY <1>3

LEMMA SetInduction ==
    ASSUME NEW S, 0 \in S, \A n \in Nat : n \in S => n + 1 \in S
    PROVE  Nat \subseteq S
  <1>1. CASE Nat \ S # {}
    <2>1. PICK x \in Nat \ S : \A y \in Nat \ S : x <= y
      BY <1>1, LeastNumber
    <2>2. x # 0 /\ x - 1 \in Nat /\ x - 1 \notin Nat \ S /\ (x - 1) + 1 = x
      BY <2>1
    <2> QED
      BY <2>1, <2>2
  <1> QED
    BY <1>1

\* The step functions of a recursive definition with values in V, and what
\* solves it over 0 .. m.
Rules(V) == [Nat -> [V -> V]]

Solves(f, V, b, F, m) ==
    f \in [0 .. m -> V] /\ f[0] = b /\ \A n \in 1 .. m : f[n] = F[n][f[n - 1]]

LEMMA RecursionSolved ==
    ASSUME NEW V, NEW b \in V, NEW F \in Rules(V), NEW m \in Nat
    PROVE  \E f : Solves(f, V, b, F, m)
  <1> USE DEF Rules, Solves
  <1> DEFINE Solved(k, f) == f \in [0 .. k -> V] /\ f[0] = b /\ \A n \in 1 .. k : f[n] = F[n][f[n - 1]]
             S == {k \in Nat : \E f \in [0 .. k -> V] : Solved(k, f)}
  <1>1. 0 \in S
    <2>1. Solved(0, [n \in 0 .. 0 |-> b])
      OBVIOUS
    <2> QED
      BY <2>1
  <1>2. ASSUME NEW k \in Nat, k \in S
        PROVE  k + 1 \in S
    <2>1. PICK f \in [0 .. k -> V] : Solved(k, f)
      BY <1>2
    <2> DEFINE g == [n \in 0 .. k + 1 |-> IF n <= k THEN f[n] ELSE F[k + 1][f[k]]]
    <2>2. k \in 0 .. k /\ f[k] \in V /\ F[k + 1] \in [V -> V]
      BY <2>1
    <2>3. F[k + 1][f[k]] \in V
      BY <2>2
    <2>4. g \in [0 .. k + 1 -> V] /\ g[0] = b
      BY <2>1, <2>3
    <2>5. ASSUME NEW n \in 1 .. k + 1
          PROVE  g[n] = F[n][g[n - 1]]
      <3>1. n - 1 \in 0 .. k /\ n \in 0 .. k + 1 /\ n - 1 \in 0 .. k + 1 /\ n - 1 <= k
        OBVIOUS
      <3>2. g[n - 1] = f[n - 1]
        BY <3>1
      <3>3. CASE n <= k
        BY <2>1, <3>1, <3>2, <3>3
      <3>4. CASE n = k + 1
        <4>1. n - 1 = k /\ ~(n <= k)
          BY <3>4
        <4> QED
          BY <3>1, <3>2, <3>4, <4>1
      <3> QED
        BY <3>3, <3>4
    <2> HIDE DEF g
    <2>6. Solved(k + 1, g)
      BY <2>4, <2>5
    <2> HIDE DEF Solved
    <2> QED
      BY <2>4, <2>6
  <1> HIDE DEF S
  <1>3. m \in S
    BY <1>1, <1>2, SetInduction
  <1> QED
    BY <1>3 DEF S

-----------------------------------------------------------------------------
(* The order of the states of a game.                                      *)

\* a was passed on the way to b.
Older(a, b) == /\ Len(a.path) < Len(b.path) /\ Ancestor(a, b)
               /\ a.turn <= b.turn /\ a.game = b.game

Earlier(a, b) == a = b \/ Older(a, b)

LEMMA StateTyped ==
    ASSUME NEW a \in States
    PROVE  /\ a.game \in Nat /\ a.turn \in Nat /\ Len(a.path) \in Nat
           /\ a.path \in Seq([id : Nat, by : Humans \cup AiSeats, counts : BOOLEAN])
  <1>1. /\ a.game \in Nat /\ a.turn \in Nat
        /\ a.path \in Seq([id : Nat, by : Humans \cup AiSeats, counts : BOOLEAN])
    BY DEF States
  <1> QED
    BY <1>1, LenProperties

LEMMA SamePrefix ==
    ASSUME NEW E, NEW s \in Seq(E), NEW t \in Seq(E), NEW n \in Nat, n <= Len(s), n <= Len(t)
    PROVE  SubSeq(s, 1, n) = SubSeq(t, 1, n) <=> \A i \in 1 .. n : s[i] = t[i]
  <1>0. Len(s) \in Nat /\ Len(t) \in Nat
    BY LenProperties
  <1>1. \A i \in 1 .. n : s[i] \in E /\ t[i] \in E
    BY <1>0, ElementOfSeq
  <1>2. /\ SubSeq(s, 1, n) \in Seq(E) /\ Len(SubSeq(s, 1, n)) = n
        /\ \A i \in 1 .. n : SubSeq(s, 1, n)[i] = s[i]
    BY <1>1, SubSeqProperties
  <1>3. /\ SubSeq(t, 1, n) \in Seq(E) /\ Len(SubSeq(t, 1, n)) = n
        /\ \A i \in 1 .. n : SubSeq(t, 1, n)[i] = t[i]
    BY <1>1, SubSeqProperties
  <1>4. ASSUME \A i \in 1 .. n : s[i] = t[i]
        PROVE  SubSeq(s, 1, n) = SubSeq(t, 1, n)
    <2> DEFINE p == SubSeq(s, 1, n)
               q == SubSeq(t, 1, n)
    <2>1. p \in Seq(E) /\ q \in Seq(E) /\ Len(p) = Len(q) /\ \A i \in 1 .. Len(p) : p[i] = q[i]
      BY <1>2, <1>3, <1>4
    <2> HIDE DEF p, q
    <2>2. p = q
      BY <2>1, SeqEqual
    <2> QED
      BY <2>2 DEF p, q
  <1>5. ASSUME SubSeq(s, 1, n) = SubSeq(t, 1, n), NEW i \in 1 .. n
        PROVE  s[i] = t[i]
    BY <1>2, <1>3, <1>5
  <1> QED
    BY <1>4, <1>5

\* IsPrefix, element by element.
LEMMA AncestorIs ==
    ASSUME NEW a \in States, NEW b \in States
    PROVE  Ancestor(a, b) <=> /\ Len(a.path) <= Len(b.path)
                             /\ \A i \in 1 .. Len(a.path) : a.path[i] = b.path[i]
  <1> DEFINE E == [id : Nat, by : Humans \cup AiSeats, counts : BOOLEAN]
             s == a.path
             t == b.path
             n == Len(s)
  <1>1. s \in Seq(E) /\ t \in Seq(E) /\ n \in Nat /\ Len(t) \in Nat
    BY StateTyped
  <1> HIDE DEF E, s, t
  <1>2. ASSUME n <= Len(t)
        PROVE  SubSeq(s, 1, n) = SubSeq(t, 1, n) <=> \A i \in 1 .. n : s[i] = t[i]
    BY <1>1, <1>2, SamePrefix
  <1> QED
    BY <1>2 DEF Ancestor, IsPrefix, s, t

LEMMA AncestorSelf ==
    ASSUME NEW a \in States
    PROVE  Ancestor(a, a)
  BY AncestorIs, StateTyped

LEMMA OlderTrans ==
    ASSUME NEW a \in States, NEW b \in States, NEW c \in States, Earlier(a, b), Older(b, c)
    PROVE  Older(a, c)
  <1>1. CASE a = b
    BY <1>1
  <1>2. CASE Older(a, b)
    <2>0. /\ Len(a.path) \in Nat /\ Len(b.path) \in Nat /\ Len(c.path) \in Nat
          /\ Len(a.path) < Len(b.path) /\ Len(b.path) < Len(c.path)
          /\ \A i \in 1 .. Len(a.path) : a.path[i] = b.path[i]
          /\ \A i \in 1 .. Len(b.path) : b.path[i] = c.path[i]
      BY <1>2, AncestorIs, StateTyped DEF Older
    <2>1. Ancestor(a, c)
      BY <2>0, AncestorIs
    <2> QED
      BY <1>2, <2>1, StateTyped DEF Older
  <1> QED
    BY <1>1, <1>2 DEF Earlier

LEMMA OlderThenEarlier ==
    ASSUME NEW a \in States, NEW b \in States, NEW c \in States, Older(a, b), Earlier(b, c)
    PROVE  Older(a, c)
  BY OlderTrans DEF Earlier

\* A transition within a game passes the state it leaves; the next game of a
\* match is another game.
LEMMA AfterIsLater ==
    ASSUME NEW a \in States, NEW n \in Nat, NEW seat \in Humans \cup AiSeats,
           NEW counts \in BOOLEAN, NEW move \in Moves, NEW b, b = After(a, n, seat, counts, move)
    PROVE  /\ b \in States
           /\ move = "game" => b.game # a.game
           /\ move # "game" => Older(a, b)
           /\ Announced(a, move) # 0 /\ Announced(a, move) = b.turn /\ move # "game" => a.turn < b.turn
  <1> DEFINE E == [id : Nat, by : Humans \cup AiSeats, counts : BOOLEAN]
             e == [id |-> n, by |-> seat, counts |-> counts]
             p == Append(a.path, e)
  <1>1. e \in E /\ a.path \in Seq(E) /\ Len(a.path) \in Nat /\ a.turn \in Nat /\ a.game \in Nat
    BY StateTyped
  <1>2. b.path = p
    BY DEF After
  <1> HIDE DEF e, E
  <1>3. /\ p \in Seq(E) /\ Len(p) = Len(a.path) + 1
        /\ \A i \in 1 .. Len(a.path) : p[i] = a.path[i]
    BY <1>1, AppendProperties
  <1> DEFINE tn == CASE move = "stay" -> a.turn [] move = "turn" -> a.turn + 1
                     [] move = "skip" -> a.turn + 2 [] move = "game" -> 1
             gm == IF move = "game" THEN a.game + 1 ELSE a.game
  <1>4. b = [game |-> gm, turn |-> tn, path |-> p]
    BY DEF After, e
  <1>5. tn \in Nat /\ gm \in Nat /\ (move # "game" => a.turn <= tn /\ gm = a.game)
        /\ (move = "game" => gm # a.game)
    BY <1>1 DEF Moves
  <1>6. Announced(a, move) # 0 /\ Announced(a, move) = tn /\ move # "game" => a.turn < tn
    BY <1>1 DEF Announced, Moves
  <1> HIDE DEF p, tn, gm
  <1>7. b \in States /\ b.turn = tn /\ b.game = gm
    BY <1>3, <1>4, <1>5 DEF States, E
  <1>8. Ancestor(a, b) /\ Len(a.path) < Len(b.path)
    BY <1>1, <1>2, <1>3, <1>7, AncestorIs
  <1> QED
    BY <1>2, <1>5, <1>6, <1>7, <1>8 DEF Older, p, e

-----------------------------------------------------------------------------
(* The rings.                                                              *)

\* A ring after a push: the new entry behind the ones that were kept.
PushedOnto(new, S, ring, e, capacity) ==
    /\ new \in Seq(S) /\ Len(new) <= capacity /\ Len(new) >= 1 /\ new[Len(new)] = e
    /\ \E o \in {0, 1} : /\ Len(new) = Len(ring) + 1 - o
                         /\ \A i \in 1 .. Len(new) - 1 : /\ i + o \in 1 .. Len(ring)
                                                         /\ new[i] = ring[i + o]

LEMMA PushedRing ==
    ASSUME NEW S, NEW ring \in Seq(S), NEW e \in S, NEW capacity \in Nat, capacity >= 1,
           Len(ring) <= capacity
    PROVE  PushedOnto(Pushed(ring, e, capacity), S, ring, e, capacity)
  <1> USE DEF PushedOnto
  <1> DEFINE new == Pushed(ring, e, capacity)
  <1>0. Len(ring) \in Nat
    BY LenProperties
  <1>1. CASE Len(ring) >= capacity
    <2> DEFINE q == Tail(ring)
    <2>1. ring # <<>>
      BY <1>1, EmptySeq
    <2>2. q \in Seq(S) /\ Len(q) = Len(ring) - 1 /\ \A i \in 1 .. Len(q) : q[i] = ring[i + 1]
      BY <2>1, HeadTailProperties
    <2> HIDE DEF q
    <2>3. /\ Append(q, e) \in Seq(S) /\ Len(Append(q, e)) = Len(ring)
          /\ Append(q, e)[Len(ring)] = e
          /\ \A i \in 1 .. Len(q) : Append(q, e)[i] = q[i]
      BY <1>0, <2>2, AppendProperties
    <2>4. new = Append(q, e)
      BY <1>1 DEF Pushed, q
    <2>5. \A i \in 1 .. Len(ring) - 1 : i + 1 \in 1 .. Len(ring) /\ new[i] = ring[i + 1]
      BY <1>0, <2>2, <2>3, <2>4
    <2>6. new \in Seq(S) /\ Len(new) = Len(ring) /\ new[Len(new)] = e
      BY <2>3, <2>4
    <2>7. Len(ring) = Len(ring) + 1 - 1 /\ 1 \in {0, 1}
      BY <1>0
    <2> HIDE DEF new
    <2> QED
      BY <1>0, <1>1, <2>5, <2>6, <2>7 DEF new
  <1>2. CASE ~(Len(ring) >= capacity)
    <2>1. new = Append(ring, e)
      BY <1>2 DEF Pushed
    <2> HIDE DEF new
    <2>2. /\ new \in Seq(S) /\ Len(new) = Len(ring) + 1 /\ new[Len(new)] = e
          /\ \A i \in 1 .. Len(ring) : new[i] = ring[i]
      BY <1>0, <2>1, AppendProperties
    <2>3. \A i \in 1 .. Len(new) - 1 : i + 0 \in 1 .. Len(ring) /\ new[i] = ring[i + 0]
      BY <1>0, <2>2
    <2>4. Len(new) = Len(ring) + 1 - 0 /\ 0 \in {0, 1}
      BY <1>0, <2>2
    <2> QED
      BY <1>0, <1>2, <2>2, <2>3, <2>4 DEF new
  <1> QED
    BY <1>1, <1>2

\* s is the first state of its turn, as far as b can tell.
FirstOfTurn(s, b) == IF s.turn <= b.turn THEN Earlier(s, b) ELSE Older(b, s)

\* Two rings of states of one game: each in the order of play, and the turn
\* starts in their place among the recorded actions.
RingsOrdered(H, T) ==
    /\ Len(H) <= MAX_TAKEBACK_HISTORY /\ Len(T) <= MAX_TURN_REWIND_HISTORY
    /\ \A i \in 1 .. Len(H) : \A j \in 1 .. i - 1 : Older(H[j].state, H[i].state)
    /\ \A i \in 1 .. Len(T) : \A j \in 1 .. i - 1 : T[j].turn < T[i].turn /\ Older(T[j], T[i])
    /\ \A i \in 1 .. Len(T) : \A j \in 1 .. Len(H) : FirstOfTurn(T[i], H[j].state)

\* A session between the push of an action's entry and the action.
ReadySession(g) ==
    /\ g \in Sessions /\ g.rewindGame = g.state.game
    /\ RingsOrdered(g.history, g.turns)
    /\ \A i \in 1 .. Len(g.history) : Earlier(g.history[i].state, g.state)
    /\ \A i \in 1 .. Len(g.turns) : Earlier(g.turns[i], g.state)

\* A session at rest: every recorded action has been played.
SoundSession(g) ==
    /\ ReadySession(g)
    /\ \A i \in 1 .. Len(g.history) : Older(g.history[i].state, g.state)

Entries == [by : Humans, state : States]

LEMMA SessionTyped ==
    ASSUME NEW g \in Sessions
    PROVE  /\ g.state \in States /\ g.history \in Seq(Entries) /\ g.turns \in Seq(States)
           /\ g.rewindGame \in Nat /\ g.made \in Nat
           /\ Len(g.history) \in Nat /\ Len(g.turns) \in Nat
           /\ DOMAIN g.history = 1 .. Len(g.history) /\ DOMAIN g.turns = 1 .. Len(g.turns)
           /\ \A i \in 1 .. Len(g.history) : g.history[i] \in Entries /\ g.history[i].state \in States
                                             /\ g.history[i].by \in Humans
           /\ \A i \in 1 .. Len(g.turns) : g.turns[i] \in States
  <1>1. /\ g.state \in States /\ g.history \in Seq(Entries) /\ g.turns \in Seq(States)
        /\ g.rewindGame \in Nat /\ g.made \in Nat
    BY DEF Sessions, Entries
  <1>2. /\ Len(g.history) \in Nat /\ Len(g.turns) \in Nat
        /\ DOMAIN g.history = 1 .. Len(g.history) /\ DOMAIN g.turns = 1 .. Len(g.turns)
    BY <1>1, LenProperties
  <1>3. \A i \in 1 .. Len(g.history) : g.history[i] \in Entries
    BY <1>1, ElementOfSeq
  <1>4. \A i \in 1 .. Len(g.turns) : g.turns[i] \in States
    BY <1>1, ElementOfSeq
  <1> QED
    BY <1>1, <1>2, <1>3, <1>4 DEF Entries

\* handle_action pushes the live state before the action is applied.
LEMMA PushIsReady ==
    ASSUME NEW g, SoundSession(g), NEW h \in Humans
    PROVE  ReadySession(PushTakebackState(g, h, g.state))
  <1> DEFINE e == [by |-> h, state |-> g.state]
             H == Pushed(g.history, e, MAX_TAKEBACK_HISTORY)
             new == PushTakebackState(g, h, g.state)
  <1>1. /\ g \in Sessions /\ RingsOrdered(g.history, g.turns) /\ g.rewindGame = g.state.game
        /\ \A i \in 1 .. Len(g.turns) : Earlier(g.turns[i], g.state)
        /\ \A i \in 1 .. Len(g.history) : Older(g.history[i].state, g.state)
    BY DEF SoundSession, ReadySession
  <1>2. e \in Entries /\ e.state = g.state
    BY <1>1, SessionTyped DEF Entries
  <1> HIDE DEF e
  <1>3. /\ H \in Seq(Entries) /\ Len(H) <= MAX_TAKEBACK_HISTORY /\ Len(H) >= 1 /\ H[Len(H)] = e
        /\ \E o \in {0, 1} : /\ Len(H) = Len(g.history) + 1 - o
                             /\ \A i \in 1 .. Len(H) - 1 : /\ i + o \in 1 .. Len(g.history)
                                                           /\ H[i] = g.history[i + o]
    <2>1. /\ g.history \in Seq(Entries) /\ Len(g.history) <= MAX_TAKEBACK_HISTORY
          /\ MAX_TAKEBACK_HISTORY \in Nat /\ MAX_TAKEBACK_HISTORY >= 1
      BY <1>1, SessionTyped, TableAssumption DEF TableAssumption, RingsOrdered
    <2>2. PushedOnto(H, Entries, g.history, e, MAX_TAKEBACK_HISTORY)
      BY <1>2, <2>1, PushedRing
    <2> HIDE DEF H
    <2> QED
      BY <2>2 DEF PushedOnto
  <1>4. new = [g EXCEPT !.history = H]
    BY DEF PushTakebackState, e
  <1> HIDE DEF H
  <1>5. new \in Sessions /\ new.history = H /\ new.turns = g.turns /\ new.state = g.state
        /\ new.rewindGame = g.rewindGame
    BY <1>1, <1>3, <1>4 DEF Sessions, Entries
  <1>6. PICK o \in {0, 1} : \A i \in 1 .. Len(H) - 1 : /\ i + o \in 1 .. Len(g.history)
                                                      /\ H[i] = g.history[i + o]
    BY <1>3
  <1>7. Len(H) \in Nat
    BY <1>3, LenProperties
  <1>8. \A i \in 1 .. Len(H) - 1 : Older(H[i].state, g.state)
    BY <1>1, <1>6
  <1>9. \A i \in 1 .. Len(H) : i = Len(H) \/ i \in 1 .. Len(H) - 1
    BY <1>7
  <1>10. ASSUME NEW i \in 1 .. Len(H)
         PROVE  Earlier(H[i].state, g.state)
    <2>1. CASE i = Len(H)
      BY <1>2, <1>3, <2>1 DEF Earlier
    <2>2. CASE i \in 1 .. Len(H) - 1
      BY <1>8, <2>2 DEF Earlier
    <2> QED
      BY <1>9, <2>1, <2>2
  <1>11. ASSUME NEW i \in 1 .. Len(H), NEW j \in 1 .. i - 1
         PROVE  Older(H[j].state, H[i].state)
    <2>1. j \in 1 .. Len(H) - 1
      BY <1>7
    <2>2. CASE i = Len(H)
      BY <1>2, <1>3, <1>8, <2>1, <2>2
    <2>3. CASE i \in 1 .. Len(H) - 1
      <3>1. j + o \in 1 .. (i + o) - 1
        BY <1>7
      <3>2. /\ H[j] = g.history[j + o] /\ H[i] = g.history[i + o]
            /\ i + o \in 1 .. Len(g.history)
        BY <1>6, <2>1, <2>3
      <3> QED
        BY <1>1, <3>1, <3>2 DEF RingsOrdered
    <2> QED
      BY <1>9, <2>2, <2>3
  <1>12. ASSUME NEW i \in 1 .. Len(g.turns), NEW j \in 1 .. Len(H)
         PROVE  FirstOfTurn(g.turns[i], H[j].state)
    <2>1. CASE j = Len(H)
      <3>1. g.turns[i].turn <= g.state.turn
        BY <1>1, SessionTyped, StateTyped DEF Earlier, Older
      <3> QED
        BY <1>1, <1>2, <1>3, <2>1, <3>1 DEF FirstOfTurn
    <2>2. CASE j \in 1 .. Len(H) - 1
      BY <1>1, <1>6, <2>2 DEF RingsOrdered
    <2> QED
      BY <1>9, <2>1, <2>2
  <1>13. RingsOrdered(H, g.turns)
    BY <1>1, <1>3, <1>11, <1>12 DEF RingsOrdered
  <1> HIDE DEF new
  <1>14. ReadySession(new)
    BY <1>1, <1>5, <1>10, <1>13 DEF ReadySession
  <1> QED
    BY <1>14 DEF new

\* The turn start is recorded behind everything the rings hold.
LEMMA PointRecorded ==
    ASSUME NEW H \in Seq(Entries), NEW T \in Seq(States), NEW b \in States, NEW announced,
           RingsOrdered(H, T),
           \A i \in 1 .. Len(H) : Older(H[i].state, b),
           \A i \in 1 .. Len(T) : Older(T[i], b),
           announced # 0 /\ announced = b.turn =>
              /\ \A i \in 1 .. Len(H) : H[i].state.turn < b.turn
              /\ \A i \in 1 .. Len(T) : T[i].turn < b.turn
    PROVE  LET R == RecordTurnRewindPoint(T, announced, b)
           IN  /\ R \in Seq(States) /\ RingsOrdered(H, R)
               /\ \A i \in 1 .. Len(R) : Earlier(R[i], b)
  <1> DEFINE R == RecordTurnRewindPoint(T, announced, b)
             pushes == OffersTurnRewind /\ announced # 0 /\ announced = b.turn
  <1>0. /\ \A i \in 1 .. Len(H) : H[i].state \in States /\ H[i].state.turn \in Nat
        /\ \A i \in 1 .. Len(T) : T[i] \in States
        /\ Len(H) \in Nat /\ b.turn \in Nat
    <2>1. \A i \in 1 .. Len(H) : H[i] \in Entries
      BY ElementOfSeq
    <2>2. \A i \in 1 .. Len(T) : T[i] \in States
      BY ElementOfSeq
    <2> QED
      BY <2>1, <2>2, StateTyped, LenProperties DEF Entries
  <1>1. CASE ~pushes
    <2>1. R = T
      BY <1>1 DEF RecordTurnRewindPoint
    <2> QED
      BY <2>1 DEF Earlier
  <1>2. CASE pushes
    <2>1. R = Pushed(T, b, MAX_TURN_REWIND_HISTORY)
      BY <1>2 DEF RecordTurnRewindPoint
    <2>2. /\ R \in Seq(States) /\ Len(R) <= MAX_TURN_REWIND_HISTORY /\ Len(R) >= 1 /\ R[Len(R)] = b
          /\ \E o \in {0, 1} : /\ Len(R) = Len(T) + 1 - o
                               /\ \A i \in 1 .. Len(R) - 1 : /\ i + o \in 1 .. Len(T)
                                                             /\ R[i] = T[i + o]
      <3>1. PushedOnto(R, States, T, b, MAX_TURN_REWIND_HISTORY)
        BY <2>1, TableAssumption, PushedRing DEF TableAssumption, RingsOrdered
      <3> HIDE DEF R
      <3> QED
        BY <3>1 DEF PushedOnto
    <2>3. PICK o \in {0, 1} : \A i \in 1 .. Len(R) - 1 : /\ i + o \in 1 .. Len(T)
                                                        /\ R[i] = T[i + o]
      BY <2>2
    <2>4. /\ \A i \in 1 .. Len(H) : H[i].state.turn < b.turn
          /\ \A i \in 1 .. Len(T) : T[i].turn < b.turn
      BY <1>2
    <2> HIDE DEF R, pushes
    <2>5. Len(R) \in Nat /\ \A i \in 1 .. Len(R) : i = Len(R) \/ i \in 1 .. Len(R) - 1
      BY <2>2, LenProperties
    <2>6. \A i \in 1 .. Len(R) - 1 : Older(R[i], b) /\ R[i].turn < b.turn
      BY <2>3, <2>4
    <2>7. \A i \in 1 .. Len(R) : Earlier(R[i], b)
      BY <2>2, <2>5, <2>6 DEF Earlier
    <2>8. ASSUME NEW i \in 1 .. Len(R), NEW j \in 1 .. i - 1
          PROVE  R[j].turn < R[i].turn /\ Older(R[j], R[i])
      <3>1. j \in 1 .. Len(R) - 1
        BY <2>5
      <3>2. CASE i = Len(R)
        BY <2>2, <2>6, <3>1, <3>2
      <3>3. CASE i \in 1 .. Len(R) - 1
        <4>1. j + o \in 1 .. (i + o) - 1
          BY <2>5
        <4>2. R[j] = T[j + o] /\ R[i] = T[i + o] /\ i + o \in 1 .. Len(T)
          BY <2>3, <3>1, <3>3
        <4> QED
          BY <4>1, <4>2 DEF RingsOrdered
      <3> QED
        BY <2>5, <3>2, <3>3
    <2>9. ASSUME NEW i \in 1 .. Len(R), NEW j \in 1 .. Len(H)
          PROVE  FirstOfTurn(R[i], H[j].state)
      <3>1. CASE i = Len(R)
        <4>1. ~(b.turn <= H[j].state.turn) /\ Older(H[j].state, b)
          BY <1>0, <2>4
        <4> QED
          BY <2>2, <3>1, <4>1 DEF FirstOfTurn
      <3>2. CASE i \in 1 .. Len(R) - 1
        BY <2>3, <3>2 DEF RingsOrdered
      <3> QED
        BY <2>5, <3>1, <3>2
    <2>10. RingsOrdered(H, R)
      BY <2>2, <2>8, <2>9 DEF RingsOrdered
    <2> QED
      BY <2>2, <2>7, <2>10 DEF R
  <1> QED
    BY <1>1, <1>2

\* A transition leaves the session sound, whoever made it.
LEMMA MovedIsSound ==
    ASSUME NEW g, ReadySession(g), NEW seat \in Humans \cup AiSeats, NEW counts \in BOOLEAN,
           NEW move \in Moves
    PROVE  /\ SoundSession(Moved(g, seat, counts, move))
           /\ Moved(g, seat, counts, move).state = After(g.state, g.made, seat, counts, move)
  <1> DEFINE a == g.state
             b == After(a, g.made, seat, counts, move)
             announced == Announced(a, move)
             H == IF b.game # g.rewindGame THEN <<>> ELSE g.history
             T == IF b.game # g.rewindGame THEN <<>> ELSE g.turns
             R == RecordTurnRewindPoint(T, announced, b)
             new == Moved(g, seat, counts, move)
  <1>1. /\ g \in Sessions /\ g.rewindGame = a.game /\ RingsOrdered(g.history, g.turns)
        /\ \A i \in 1 .. Len(g.history) : Earlier(g.history[i].state, a)
        /\ \A i \in 1 .. Len(g.turns) : Earlier(g.turns[i], a)
    BY DEF ReadySession
  <1>2. a \in States /\ g.made \in Nat
    BY <1>1, SessionTyped
  <1>3. /\ b \in States
        /\ move = "game" => b.game # a.game
        /\ move # "game" => Older(a, b)
        /\ announced # 0 /\ announced = b.turn /\ move # "game" => a.turn < b.turn
    <2> DEFINE n == g.made
    <2>1. n \in Nat /\ a \in States /\ b = After(a, n, seat, counts, move)
      BY <1>2
    <2> HIDE DEF n, a, b
    <2> QED
      BY <2>1, AfterIsLater
  <1>4. new = [g EXCEPT !.state = b, !.history = H, !.turns = R, !.rewindGame = b.game, !.made = @ + 1]
    <2>1. CASE b.game # g.rewindGame
      BY <1>1, <2>1 DEF Moved, ObserveTransition, Sessions
    <2>2. CASE b.game = g.rewindGame
      BY <1>1, <2>2 DEF Moved, ObserveTransition, Sessions
    <2> QED
      BY <2>1, <2>2
  <1> HIDE DEF a, b, announced, new
  <1>5. /\ H \in Seq(Entries) /\ T \in Seq(States) /\ RingsOrdered(H, T)
        /\ \A i \in 1 .. Len(H) : Older(H[i].state, b)
        /\ \A i \in 1 .. Len(T) : Older(T[i], b)
        /\ announced # 0 /\ announced = b.turn =>
              /\ \A i \in 1 .. Len(H) : H[i].state.turn < b.turn
              /\ \A i \in 1 .. Len(T) : T[i].turn < b.turn
    <2>1. CASE b.game # g.rewindGame
      <3>1. H = <<>> /\ T = <<>> /\ Len(<<>>) = 0
        BY <2>1, EmptySeq
      <3> HIDE DEF H, T
      <3>2. H \in Seq(Entries) /\ T \in Seq(States) /\ Len(H) = 0 /\ Len(T) = 0
        BY <3>1, EmptySeq
      <3> QED
        BY <3>2, TableAssumption DEF TableAssumption, RingsOrdered
    <2>2. CASE b.game = g.rewindGame
      <3>1. H = g.history /\ T = g.turns
        BY <2>2
      <3>2. move # "game" /\ Older(a, b)
        BY <1>1, <1>3, <2>2
      <3>3. \A i \in 1 .. Len(g.history) : /\ g.history[i].state \in States
                                          /\ Earlier(g.history[i].state, a)
        BY <1>1, SessionTyped
      <3>4. \A i \in 1 .. Len(g.turns) : g.turns[i] \in States /\ Earlier(g.turns[i], a)
        BY <1>1, SessionTyped
      <3>5. \A s \in States : Earlier(s, a) => Older(s, b) /\ s.turn <= a.turn
        BY <1>2, <1>3, <3>2, OlderTrans, StateTyped DEF Earlier, Older
      <3>6. announced # 0 /\ announced = b.turn => \A s \in States : Earlier(s, a) => s.turn < b.turn
        BY <1>2, <1>3, <3>2, <3>5, StateTyped
      <3> QED
        BY <1>1, <3>1, <3>3, <3>4, <3>5, <3>6, SessionTyped
    <2> QED
      BY <2>1, <2>2
  <1> HIDE DEF H, T
  <1>6. /\ R \in Seq(States) /\ RingsOrdered(H, R)
        /\ \A i \in 1 .. Len(R) : Earlier(R[i], b)
    BY <1>3, <1>5, PointRecorded
  <1> HIDE DEF R
  <1>7. b.game \in Nat /\ g.made + 1 \in Nat
    BY <1>2, <1>3, StateTyped
  <1>8. /\ new \in Sessions /\ new.state = b /\ new.history = H /\ new.turns = R
        /\ new.rewindGame = b.game
    BY <1>1, <1>3, <1>4, <1>5, <1>6, <1>7 DEF Sessions, Entries
  <1>9. SoundSession(new)
    <2>1. \A i \in 1 .. Len(H) : Earlier(H[i].state, b)
      BY <1>5 DEF Earlier
    <2> QED
      BY <1>5, <1>6, <1>8, <2>1 DEF SoundSession, ReadySession
  <1> QED
    BY <1>8, <1>9 DEF new, a, b

-----------------------------------------------------------------------------
(* Batches of AI results.                                                  *)

LEMMA AiResultSound ==
    ASSUME NEW g, SoundSession(g), NEW r \in AiResults(g)
    PROVE  SoundSession(r)
  <1> DEFINE counts == FALSE
             Result(seat, move) == Moved(g, seat, counts, move)
  <1>1. AiResults(g) = {Result(seat, move) : seat \in AiSeats, move \in MovesFrom(g)}
    BY DEF AiResults
  <1>2. counts \in BOOLEAN
    OBVIOUS
  <1> HIDE DEF counts, Result
  <1>3. PICK seat \in AiSeats, move \in MovesFrom(g) : r = Result(seat, move)
    BY <1>1
  <1>4. seat \in Humans \cup AiSeats /\ move \in Moves /\ ReadySession(g)
    BY DEF MovesFrom, SoundSession
  <1>5. SoundSession(Moved(g, seat, counts, move))
    BY <1>2, <1>4, MovedIsSound
  <1> QED
    BY <1>3, <1>5 DEF Result

\* A set that is closed under AI results holds every batch that starts in it.
LEMMA BatchesStay ==
    ASSUME NEW V, NEW g \in V, \A h \in V : AiResults(h) \subseteq V
    PROVE  AiBatches(g) \subseteq V
  <1> DEFINE M == MaxAiResults
             More(X) == X \cup UNION {AiResults(h) : h \in X}
             Eq(f) == f = [n \in 0 .. M |-> IF n = 0 THEN {g} ELSE f[n - 1] \cup UNION {AiResults(h) : h \in f[n - 1]}]
             Reach == CHOOSE f : Eq(f)
  <1>0. M \in Nat
    BY TableAssumption DEF TableAssumption
  <1>1. \A X \in SUBSET V : More(X) \in SUBSET V
    OBVIOUS
  <1>2. \E f : Eq(f)
    <2> DEFINE F == [n \in Nat |-> [X \in SUBSET V |-> More(X)]]
    <2>1. F \in [Nat -> [SUBSET V -> SUBSET V]] /\ {g} \in SUBSET V
      BY <1>1
    <2>2. \A n \in Nat, X \in SUBSET V : F[n][X] = More(X)
      OBVIOUS
    <2> HIDE DEF F
    <2> DEFINE W == SUBSET V
               b == {g}
    <2> HIDE DEF W, b, M
    <2>a. F \in Rules(W) /\ b \in W /\ M \in Nat
      BY <1>0, <2>1 DEF W, b, Rules
    <2>b. \E f : Solves(f, W, b, F, M)
      BY <2>a, RecursionSolved
    <2>3. PICK f \in [0 .. M -> SUBSET V] : f[0] = {g} /\ \A n \in 1 .. M : f[n] = F[n][f[n - 1]]
      BY <2>b DEF W, b, Solves
    <2>4. ASSUME NEW n \in 0 .. M
          PROVE  f[n] = IF n = 0 THEN {g} ELSE f[n - 1] \cup UNION {AiResults(h) : h \in f[n - 1]}
      <3>1. CASE n = 0
        BY <2>3, <3>1
      <3>2. CASE n # 0
        <4>1. n \in 1 .. M /\ n - 1 \in 0 .. M /\ n \in Nat
          BY <1>0, <3>2
        <4>2. f[n - 1] \in SUBSET V
          BY <4>1
        <4>3. f[n] = More(f[n - 1])
          BY <2>2, <2>3, <4>1, <4>2
        <4> QED
          BY <3>2, <4>3
      <3> QED
        BY <3>1, <3>2
    <2>5. Eq(f)
      BY <2>4
    <2> QED
      BY <2>5
  <1>3. Eq(Reach)
    BY <1>2
  <1>4. AiBatches(g) = Reach[M]
    BY DEF AiBatches
  <1> HIDE DEF Reach
  <1>5. Reach[0] = {g} /\ \A n \in 1 .. M : Reach[n] = More(Reach[n - 1])
    <2>1. \A n \in 0 .. M : Reach[n] = IF n = 0 THEN {g} ELSE More(Reach[n - 1])
      BY <1>3
    <2>2. 0 \in 0 .. M /\ \A n \in 1 .. M : n \in 0 .. M /\ n # 0
      BY <1>0
    <2> QED
      BY <2>1, <2>2
  <1> HIDE DEF More
  <1> DEFINE S == {n \in Nat : n <= M => Reach[n] \in SUBSET V}
  <1>6. 0 \in S
    BY <1>5
  <1>7. ASSUME NEW n \in Nat, n \in S
        PROVE  n + 1 \in S
    <2> SUFFICES ASSUME n + 1 <= M
                 PROVE  Reach[n + 1] \in SUBSET V
      OBVIOUS
    <2>1. n <= M /\ n + 1 \in 1 .. M /\ (n + 1) - 1 = n
      BY <1>0
    <2>2. Reach[n] \in SUBSET V
      BY <1>7, <2>1
    <2>3. Reach[n + 1] = More(Reach[n])
      BY <1>5, <2>1
    <2> QED
      BY <1>1, <2>2, <2>3 DEF More
  <1> HIDE DEF S
  <1>8. M \in S
    BY <1>0, <1>6, <1>7, SetInduction
  <1>9. Reach[M] \in SUBSET V
    BY <1>0, <1>8 DEF S
  <1> QED
    BY <1>4, <1>9

-----------------------------------------------------------------------------
(* Rolling back.                                                           *)

\* What retain leaves: entries up to the turn, in the order they had.
Retains(r, turn, ring) ==
    /\ r \in Seq(States) /\ Len(r) <= Len(ring)
    /\ \A i \in 1 .. Len(r) : \E a \in 1 .. Len(ring) : r[i] = ring[a] /\ ring[a].turn <= turn
    /\ \A i \in 1 .. Len(r) : \A j \in 1 .. i - 1 :
         \E a \in 1 .. Len(ring) : \E b \in 1 .. a - 1 : r[i] = ring[a] /\ r[j] = ring[b]

LEMMA RetainedRing ==
    ASSUME NEW ring \in Seq(States), NEW turn \in Nat, NEW r, r = RetainedUpTo(turn, ring)
    PROVE  Retains(r, turn, ring)
  <1> DEFINE M == Len(ring)
             Step(n, q) == IF ring[n].turn <= turn THEN Append(q, ring[n]) ELSE q
             Eq(f) == f = [i \in 0 .. M |-> IF i = 0 THEN <<>>
                                            ELSE IF ring[i].turn <= turn THEN Append(f[i - 1], ring[i])
                                            ELSE f[i - 1]]
             Retained == CHOOSE f : Eq(f)
  <1>0. M \in Nat /\ \A n \in 1 .. M : ring[n] \in States
    BY LenProperties, ElementOfSeq
  <1>1. \A n \in 1 .. M, q \in Seq(States) : Step(n, q) \in Seq(States)
    BY <1>0, AppendProperties
  <1>2. \E f : Eq(f)
    <2> DEFINE F == [n \in Nat |-> [q \in Seq(States) |-> IF n \in 1 .. M THEN Step(n, q) ELSE q]]
    <2>1. F \in [Nat -> [Seq(States) -> Seq(States)]] /\ <<>> \in Seq(States)
      BY <1>1, EmptySeq
    <2>2. \A n \in 1 .. M, q \in Seq(States) : F[n][q] = Step(n, q)
      BY <1>0
    <2> HIDE DEF F
    <2> DEFINE W == Seq(States)
               b == <<>>
    <2> HIDE DEF W, b, M
    <2>a. F \in Rules(W) /\ b \in W /\ M \in Nat
      BY <1>0, <2>1 DEF W, b, Rules
    <2>b. \E f : Solves(f, W, b, F, M)
      BY <2>a, RecursionSolved
    <2>3. PICK f \in [0 .. M -> Seq(States)] : f[0] = <<>> /\ \A n \in 1 .. M : f[n] = F[n][f[n - 1]]
      BY <2>b DEF W, b, Solves
    <2>4. ASSUME NEW n \in 0 .. M
          PROVE  f[n] = IF n = 0 THEN <<>> ELSE Step(n, f[n - 1])
      <3>1. CASE n = 0
        BY <2>3, <3>1
      <3>2. CASE n # 0
        <4>1. n \in 1 .. M /\ n - 1 \in 0 .. M
          BY <1>0, <3>2
        <4>2. f[n - 1] \in Seq(States)
          BY <4>1
        <4>3. f[n] = Step(n, f[n - 1])
          BY <2>2, <2>3, <4>1, <4>2
        <4> QED
          BY <3>2, <4>3
      <3> QED
        BY <3>1, <3>2
    <2>5. Eq(f)
      BY <2>4
    <2> QED
      BY <2>5
  <1>3. Eq(Retained)
    BY <1>2
  <1>4. r = Retained[M]
    BY DEF RetainedUpTo
  <1> HIDE DEF Retained
  <1>5. Retained[0] = <<>> /\ \A n \in 1 .. M : Retained[n] = Step(n, Retained[n - 1])
    <2>1. \A n \in 0 .. M : Retained[n] = IF n = 0 THEN <<>> ELSE Step(n, Retained[n - 1])
      BY <1>3
    <2>2. 0 \in 0 .. M /\ \A n \in 1 .. M : n \in 0 .. M /\ n # 0
      BY <1>0
    <2> QED
      BY <2>1, <2>2
  <1> HIDE DEF M
  <1> DEFINE Ok(n, q) ==
               /\ q \in Seq(States) /\ Len(q) <= n
               /\ \A i \in 1 .. Len(q) : \E a \in 1 .. n : q[i] = ring[a] /\ ring[a].turn <= turn
               /\ \A i \in 1 .. Len(q) : \A j \in 1 .. i - 1 :
                    \E a \in 1 .. n : \E b \in 1 .. a - 1 : q[i] = ring[a] /\ q[j] = ring[b]
             S == {n \in Nat : n <= M => Ok(n, Retained[n])}
  <1>6. 0 \in S
    <2>1. <<>> \in Seq(States) /\ Len(<<>>) = 0
      BY EmptySeq
    <2>2. Retained[0] \in Seq(States) /\ Len(Retained[0]) = 0
      BY <1>5, <2>1
    <2> QED
      BY <2>2
  <1>7. ASSUME NEW n \in Nat, n \in S
        PROVE  n + 1 \in S
    <2> SUFFICES ASSUME n + 1 <= M
                 PROVE  Ok(n + 1, Retained[n + 1])
      <3> HIDE DEF Ok
      <3> QED
        OBVIOUS
    <2> DEFINE q == Retained[n]
               p == Retained[n + 1]
    <2>1. n <= M /\ n + 1 \in 1 .. M /\ (n + 1) - 1 = n
      BY <1>0
    <2>2. Ok(n, q)
      BY <1>7, <2>1
    <2>3. p = IF ring[n + 1].turn <= turn THEN Append(q, ring[n + 1]) ELSE q
      BY <1>5, <2>1
    <2> HIDE DEF p, q, S
    <2>4. Len(q) \in Nat
      BY <2>2, LenProperties
    <2>5. \A a \in 1 .. n : a \in 1 .. n + 1
      OBVIOUS
    <2>6. CASE ~(ring[n + 1].turn <= turn)
      <3>1. p = q /\ Len(q) <= n + 1
        BY <2>2, <2>3, <2>4, <2>6
      <3>2. Ok(n + 1, q)
        BY <2>2, <2>5, <3>1
      <3> QED
        BY <3>1, <3>2 DEF p
    <2>7. CASE ring[n + 1].turn <= turn
      <3>1. /\ p \in Seq(States) /\ Len(p) = Len(q) + 1 /\ p[Len(q) + 1] = ring[n + 1]
            /\ \A i \in 1 .. Len(q) : p[i] = q[i]
        BY <1>0, <2>1, <2>2, <2>3, <2>7, AppendProperties
      <3>2. \A i \in 1 .. Len(p) : i = Len(q) + 1 \/ i \in 1 .. Len(q)
        BY <2>4, <3>1
      <3>3. n + 1 \in 1 .. n + 1
        OBVIOUS
      <3>4. ASSUME NEW i \in 1 .. Len(p)
            PROVE  \E a \in 1 .. n + 1 : p[i] = ring[a] /\ ring[a].turn <= turn
        <4>1. CASE i = Len(q) + 1
          BY <2>7, <3>1, <3>3, <4>1
        <4>2. CASE i \in 1 .. Len(q)
          <5>1. PICK a \in 1 .. n : q[i] = ring[a] /\ ring[a].turn <= turn
            BY <2>2, <4>2
          <5>2. a \in 1 .. n + 1 /\ p[i] = q[i]
            BY <2>5, <3>1, <4>2
          <5> QED
            BY <5>1, <5>2
        <4> QED
          BY <3>2, <4>1, <4>2
      <3>5. ASSUME NEW i \in 1 .. Len(p), NEW j \in 1 .. i - 1
            PROVE  \E a \in 1 .. n + 1 : \E b \in 1 .. a - 1 : p[i] = ring[a] /\ p[j] = ring[b]
        <4>1. j \in 1 .. Len(q)
          BY <2>4, <3>1
        <4>2. CASE i = Len(q) + 1
          <5>1. PICK b \in 1 .. n : q[j] = ring[b]
            BY <2>2, <4>1
          <5>2. b \in 1 .. (n + 1) - 1
            OBVIOUS
          <5>3. p[i] = ring[n + 1] /\ p[j] = ring[b]
            BY <3>1, <4>1, <4>2, <5>1
          <5> QED
            BY <3>3, <5>2, <5>3
        <4>3. CASE i \in 1 .. Len(q)
          <5>1. PICK a \in 1 .. n : \E b \in 1 .. a - 1 : q[i] = ring[a] /\ q[j] = ring[b]
            BY <2>2, <4>3
          <5>2. a \in 1 .. n + 1 /\ p[i] = q[i] /\ p[j] = q[j]
            BY <2>5, <3>1, <4>1, <4>3
          <5> QED
            BY <5>1, <5>2
        <4> QED
          BY <3>2, <4>2, <4>3
      <3>6. Len(p) <= n + 1
        BY <2>2, <2>4, <3>1
      <3> QED
        BY <3>1, <3>4, <3>5, <3>6 DEF p
    <2> QED
      BY <2>6, <2>7
  <1> HIDE DEF S
  <1>8. M \in S
    BY <1>0, <1>6, <1>7, SetInduction
  <1>9. Ok(M, Retained[M])
    BY <1>0, <1>8 DEF S
  <1> QED
    BY <1>4, <1>9 DEF M, Retains

\* What a rollback to t would keep of the history is what leads to t, and the
\* turns it would retain are those that t has passed.
GoodTarget(g, t) ==
    /\ t.state \in States /\ Earlier(t.state, g.state)
    /\ t.keep \in Nat /\ t.keep <= Len(g.history)
    /\ \A i \in 1 .. Len(g.history) : IF i <= t.keep THEN Older(g.history[i].state, t.state)
                                      ELSE Earlier(t.state, g.history[i].state)
    /\ \A i \in 1 .. Len(g.turns) : g.turns[i].turn <= t.state.turn => Earlier(g.turns[i], t.state)

LEMMA LastActionGood ==
    ASSUME SoundSession(game), NEW h \in Humans, NEW t \in LastActionTargets(h)
    PROVE  GoodTarget(game, t)
  <1> DEFINE H == game.history
             T == game.turns
  <1>1. /\ game \in Sessions /\ RingsOrdered(H, T)
        /\ \A i \in 1 .. Len(H) : Older(H[i].state, game.state)
    BY DEF SoundSession, ReadySession
  <1>2. /\ Len(H) \in Nat /\ DOMAIN H = 1 .. Len(H)
        /\ \A i \in 1 .. Len(H) : H[i].state \in States
    BY <1>1, SessionTyped
  <1>3. PICK i \in DOMAIN H : t = [state |-> H[i].state, keep |-> i - 1]
    BY DEF LastActionTargets, OwnEntries
  <1>4. i \in 1 .. Len(H) /\ t.state = H[i].state /\ t.keep = i - 1
    BY <1>2, <1>3
  <1> HIDE DEF H, T
  <1>5. t.state \in States /\ Earlier(t.state, game.state) /\ t.keep \in Nat /\ t.keep <= Len(H)
    BY <1>1, <1>2, <1>4 DEF Earlier
  <1>6. ASSUME NEW j \in 1 .. Len(H)
        PROVE  IF j <= t.keep THEN Older(H[j].state, t.state) ELSE Earlier(t.state, H[j].state)
    <2>1. CASE j <= i - 1
      <3>1. j \in 1 .. i - 1 /\ j <= t.keep
        BY <1>2, <1>4, <2>1
      <3> QED
        BY <1>1, <1>4, <3>1 DEF RingsOrdered
    <2>2. CASE j = i
      <3>1. ~(j <= t.keep)
        BY <1>2, <1>4, <2>2
      <3> QED
        BY <1>4, <2>2, <3>1 DEF Earlier
    <2>3. CASE i < j
      <3>1. i \in 1 .. j - 1 /\ ~(j <= t.keep)
        BY <1>2, <1>4, <2>3
      <3> QED
        BY <1>1, <1>4, <3>1 DEF RingsOrdered, Earlier
    <2> QED
      BY <1>2, <1>4, <2>1, <2>2, <2>3
  <1>7. ASSUME NEW k \in 1 .. Len(T), T[k].turn <= t.state.turn
        PROVE  Earlier(T[k], t.state)
    BY <1>1, <1>4, <1>7 DEF RingsOrdered, FirstOfTurn
  <1> QED
    BY <1>5, <1>6, <1>7 DEF GoodTarget, H, T

\* partition_point finds the boundary: the numbers of a set that has with each
\* number the smaller ones are as many as its greatest.
LEMMA InitialSegment ==
    ASSUME NEW m \in Nat, NEW C \in SUBSET (1 .. m),
           \A k \in C : \A j \in 1 .. k - 1 : j \in C
    PROVE  /\ Cardinality(C) \in 0 .. m
           /\ \A j \in 1 .. m : j \in C <=> j <= Cardinality(C)
  <1> DEFINE D == (1 .. m + 1) \ C
  <1>1. D \in SUBSET Nat /\ m + 1 \in D
    OBVIOUS
  <1>2. PICK x \in D : \A y \in D : x <= y
    BY <1>1, LeastNumber
  <1>3. x \in 1 .. m + 1 /\ x - 1 \in 0 .. m
    BY <1>2
  <1>4. ASSUME NEW j \in 1 .. m
        PROVE  j \in C <=> j <= x - 1
    <2>1. CASE j <= x - 1
      <3>1. j \notin D
        BY <1>2, <1>3, <2>1
      <3> QED
        BY <2>1, <3>1
    <2>2. CASE ~(j <= x - 1)
      <3>1. j = x \/ x \in 1 .. j - 1
        BY <1>3, <2>2
      <3> QED
        BY <1>2, <2>2, <3>1
    <2> QED
      BY <2>1, <2>2
  <1>5. C = 1 .. x - 1
    <2>1. \A j \in C : j \in 1 .. m /\ j \in 1 .. x - 1
      BY <1>3, <1>4
    <2>2. \A j \in 1 .. x - 1 : j \in 1 .. m /\ j \in C
      BY <1>3, <1>4
    <2> QED
      BY <2>1, <2>2
  <1>6. Cardinality(1 .. x - 1) = x - 1
    <2> DEFINE b == x - 1
    <2>1. 1 \in Int /\ b \in Int /\ b >= 0 /\ (b < 1 => b = 0)
      BY <1>3
    <2> HIDE DEF b
    <2>2. Cardinality(1 .. b) = IF 1 > b THEN 0 ELSE b - 1 + 1
      BY <2>1, FS_Interval
    <2>3. Cardinality(1 .. b) = b
      BY <2>1, <2>2
    <2> QED
      BY <2>3 DEF b
  <1> QED
    BY <1>3, <1>4, <1>5, <1>6

LEMMA TurnStartGood ==
    ASSUME SoundSession(game), NEW t \in TurnStartTargets
    PROVE  GoodTarget(game, t)
  <1> DEFINE H == game.history
             T == game.turns
  <1>1. /\ game \in Sessions /\ RingsOrdered(H, T)
        /\ \A i \in 1 .. Len(T) : Earlier(T[i], game.state)
    BY DEF SoundSession, ReadySession
  <1>2. /\ Len(H) \in Nat /\ DOMAIN H = 1 .. Len(H)
        /\ Len(T) \in Nat /\ DOMAIN T = 1 .. Len(T)
        /\ \A i \in 1 .. Len(H) : H[i].state \in States
        /\ \A i \in 1 .. Len(T) : T[i] \in States
    BY <1>1, SessionTyped
  <1>3. PICK i \in DOMAIN T : t = [state |-> T[i], keep |-> KeepBefore(T[i].turn)]
    BY DEF TurnStartTargets
  <1> DEFINE C == {j \in 1 .. Len(H) : H[j].state.turn < T[i].turn}
  <1>4. i \in 1 .. Len(T) /\ t.state = T[i] /\ t.keep = Cardinality(C)
    <2>1. i \in 1 .. Len(T) /\ t.state = T[i] /\ t.keep = KeepBefore(T[i].turn)
      BY <1>2, <1>3
    <2>2. {j \in DOMAIN H : H[j].state.turn < T[i].turn} = C
      BY <1>2
    <2>3. KeepBefore(T[i].turn) = Cardinality({j \in DOMAIN H : H[j].state.turn < T[i].turn})
      BY Zenon DEF KeepBefore
    <2> HIDE DEF C
    <2> QED
      BY <2>1, <2>2, <2>3
  <1> HIDE DEF H, T
  <1>5. T[i] \in States /\ T[i].turn \in Nat /\ \A j \in 1 .. Len(H) : H[j].state.turn \in Nat
    BY <1>2, <1>4, StateTyped
  <1>6. ASSUME NEW k \in C, NEW j \in 1 .. k - 1
        PROVE  j \in C
    <2>1. k \in 1 .. Len(H) /\ j \in 1 .. Len(H)
      BY <1>2
    <2>2. H[j].state.turn <= H[k].state.turn
      BY <1>1, <2>1 DEF RingsOrdered, Older
    <2> QED
      BY <1>5, <2>1, <2>2
  <1>7. /\ Cardinality(C) \in 0 .. Len(H)
        /\ \A j \in 1 .. Len(H) : j \in C <=> j <= Cardinality(C)
    <2>1. C \in SUBSET (1 .. Len(H))
      OBVIOUS
    <2> HIDE DEF C
    <2> DEFINE m == Len(H)
    <2>2. m \in Nat /\ C \in SUBSET (1 .. m) /\ \A k \in C : \A j \in 1 .. k - 1 : j \in C
      BY <1>2, <1>6, <2>1
    <2> HIDE DEF m
    <2>3. Cardinality(C) \in 0 .. m /\ \A j \in 1 .. m : j \in C <=> j <= Cardinality(C)
      BY <2>2, InitialSegment
    <2> QED
      BY <2>3 DEF m
  <1>8. ASSUME NEW j \in 1 .. Len(H)
        PROVE  IF j <= t.keep THEN Older(H[j].state, t.state) ELSE Earlier(t.state, H[j].state)
    <2>1. FirstOfTurn(T[i], H[j].state)
      BY <1>1, <1>4 DEF RingsOrdered
    <2>2. j <= t.keep <=> ~(T[i].turn <= H[j].state.turn)
      BY <1>4, <1>5, <1>7
    <2> QED
      BY <1>4, <2>1, <2>2 DEF FirstOfTurn
  <1>9. ASSUME NEW k \in 1 .. Len(T), T[k].turn <= t.state.turn
        PROVE  Earlier(T[k], t.state)
    <2>0. T[k].turn \in Nat
      BY <1>2, StateTyped
    <2>1. CASE k = i
      BY <1>4, <2>1 DEF Earlier
    <2>2. CASE k < i
      <3>1. k \in 1 .. i - 1
        BY <1>2, <1>4, <2>2
      <3> QED
        BY <1>1, <1>4, <3>1 DEF RingsOrdered, Earlier
    <2>3. CASE i < k
      <3>1. i \in 1 .. k - 1
        BY <1>2, <1>4, <2>3
      <3>2. T[i].turn < T[k].turn
        BY <1>1, <3>1 DEF RingsOrdered
      <3> QED
        BY <1>4, <1>5, <1>9, <2>0, <3>2
    <2> QED
      BY <1>2, <1>4, <2>1, <2>2, <2>3
  <1>10. t.state \in States /\ Earlier(t.state, game.state) /\ t.keep \in Nat /\ t.keep <= Len(H)
    BY <1>1, <1>2, <1>4, <1>7
  <1> QED
    BY <1>8, <1>9, <1>10 DEF GoodTarget, H, T

LEMMA TargetsGood ==
    ASSUME SoundSession(game), NEW h \in Humans, NEW t \in Targets(h)
    PROVE  GoodTarget(game, t)
  BY LastActionGood, TurnStartGood DEF Targets

\* try_resolve_pending_takeback leaves a session at rest in the target.
LEMMA RolledBackSound ==
    ASSUME NEW g, SoundSession(g), NEW t, GoodTarget(g, t)
    PROVE  /\ SoundSession(RolledBack(g, t))
           /\ RolledBack(g, t).state = t.state /\ RolledBack(g, t).made = g.made
           /\ RolledBack(g, t).history = SubSeq(g.history, 1, t.keep)
  <1> DEFINE H == g.history
             T == g.turns
             s == t.state
             k == t.keep
             I == SubSeq(H, 1, k)
             R == RetainedUpTo(s.turn, T)
             new == RolledBack(g, t)
  <1>1. /\ g \in Sessions /\ RingsOrdered(H, T) /\ g.rewindGame = g.state.game
        /\ s \in States /\ Earlier(s, g.state) /\ k \in Nat /\ k <= Len(H)
        /\ \A i \in 1 .. Len(H) : i <= k => Older(H[i].state, s)
        /\ \A i \in 1 .. Len(T) : T[i].turn <= s.turn => Earlier(T[i], s)
    BY DEF SoundSession, ReadySession, GoodTarget
  <1>2. /\ H \in Seq(Entries) /\ T \in Seq(States) /\ Len(H) \in Nat /\ Len(T) \in Nat
        /\ \A i \in 1 .. Len(H) : H[i] \in Entries
        /\ s.turn \in Nat /\ g.made \in Nat
    BY <1>1, SessionTyped, StateTyped
  <1>3. new = [g EXCEPT !.state = s, !.history = I, !.turns = R]
    BY DEF RolledBack
  <1> HIDE DEF H, T, s, k, new
  <1>4. I \in Seq(Entries) /\ Len(I) = k /\ \A i \in 1 .. k : I[i] = H[i]
    <2>1. \A i \in 1 .. k : H[i] \in Entries
      BY <1>1, <1>2
    <2>2. /\ I \in Seq(Entries) /\ Len(I) = IF 1 <= k THEN k - 1 + 1 ELSE 0
          /\ \A i \in 1 .. k - 1 + 1 : I[i] = H[1 + i - 1]
      BY <1>1, <2>1, SubSeqProperties
    <2> HIDE DEF I
    <2>3. k - 1 + 1 = k /\ (~(1 <= k) => k = 0) /\ \A i \in 1 .. k : 1 + i - 1 = i
      BY <1>1
    <2> QED
      BY <2>2, <2>3
  <1>5. /\ R \in Seq(States) /\ Len(R) <= Len(T)
        /\ \A i \in 1 .. Len(R) : \E a \in 1 .. Len(T) : R[i] = T[a] /\ T[a].turn <= s.turn
        /\ \A i \in 1 .. Len(R) : \A j \in 1 .. i - 1 :
             \E a \in 1 .. Len(T) : \E b \in 1 .. a - 1 : R[i] = T[a] /\ R[j] = T[b]
    <2> DEFINE turn == s.turn
    <2>1. turn \in Nat /\ T \in Seq(States) /\ R = RetainedUpTo(turn, T)
      BY <1>2
    <2> HIDE DEF turn, R
    <2>2. Retains(R, turn, T)
      BY <2>1, RetainedRing
    <2> QED
      BY <2>2 DEF turn, Retains
  <1> HIDE DEF I, R
  <1>6. Len(R) \in Nat /\ \A i \in 1 .. k : i \in 1 .. Len(H)
    BY <1>1, <1>2, <1>5, LenProperties
  <1>7. RingsOrdered(I, R)
    <2>1. Len(I) <= MAX_TAKEBACK_HISTORY /\ Len(R) <= MAX_TURN_REWIND_HISTORY
      BY <1>1, <1>2, <1>4, <1>5, <1>6, TableAssumption DEF TableAssumption, RingsOrdered
    <2>2. ASSUME NEW i \in 1 .. Len(I), NEW j \in 1 .. i - 1
          PROVE  Older(I[j].state, I[i].state)
      <3>1. i \in 1 .. k /\ j \in 1 .. k /\ i \in 1 .. Len(H)
        BY <1>1, <1>4, <1>6
      <3> QED
        BY <1>1, <1>4, <3>1 DEF RingsOrdered
    <2>3. ASSUME NEW i \in 1 .. Len(R), NEW j \in 1 .. i - 1
          PROVE  R[j].turn < R[i].turn /\ Older(R[j], R[i])
      <3>1. PICK a \in 1 .. Len(T) : \E b \in 1 .. a - 1 : R[i] = T[a] /\ R[j] = T[b]
        BY <1>5
      <3>2. PICK b \in 1 .. a - 1 : R[i] = T[a] /\ R[j] = T[b]
        BY <3>1
      <3> QED
        BY <1>1, <3>2 DEF RingsOrdered
    <2>4. ASSUME NEW i \in 1 .. Len(R), NEW j \in 1 .. Len(I)
          PROVE  FirstOfTurn(R[i], I[j].state)
      <3>1. PICK a \in 1 .. Len(T) : R[i] = T[a]
        BY <1>5
      <3>2. j \in 1 .. Len(H) /\ I[j] = H[j]
        BY <1>4, <1>6
      <3> QED
        BY <1>1, <3>1, <3>2 DEF RingsOrdered
    <2> QED
      BY <2>1, <2>2, <2>3, <2>4 DEF RingsOrdered
  <1>8. /\ new \in Sessions /\ new.state = s /\ new.history = I /\ new.turns = R
        /\ new.rewindGame = g.rewindGame /\ new.made = g.made
    BY <1>1, <1>3, <1>4, <1>5 DEF Sessions, Entries
  <1>9. g.rewindGame = s.game
    BY <1>1 DEF Earlier, Older
  <1>10. \A i \in 1 .. Len(I) : Older(I[i].state, s) /\ Earlier(I[i].state, s)
    BY <1>1, <1>4, <1>6 DEF Earlier
  <1>11. \A i \in 1 .. Len(R) : Earlier(R[i], s)
    <2> SUFFICES ASSUME NEW i \in 1 .. Len(R)
                 PROVE  Earlier(R[i], s)
      OBVIOUS
    <2>1. PICK a \in 1 .. Len(T) : R[i] = T[a] /\ T[a].turn <= s.turn
      BY <1>5
    <2> QED
      BY <1>1, <2>1
  <1>12. SoundSession(new)
    BY <1>7, <1>8, <1>9, <1>10, <1>11 DEF SoundSession, ReadySession
  <1> QED
    BY <1>8, <1>12 DEF new, s, I, H, k

-----------------------------------------------------------------------------
(* Who played what: the entries of the history and the recorded actions of *)
(* the path correspond, as far back as the ring goes.                      *)

Transitions == [id : Nat, by : Humans \cup AiSeats, counts : BOOLEAN]

Transition(n, seat, counts) == [id |-> n, by |-> seat, counts |-> counts]

\* The place in the path of the action an entry was pushed for.
Place(entry) == Len(entry.state.path) + 1

Attributed(H, P) ==
    /\ \A i \in 1 .. Len(H) : P[Place(H[i])].by = H[i].by /\ P[Place(H[i])].counts
    /\ \A p \in 1 .. Len(P) : P[p].counts =>
         \/ \E i \in 1 .. Len(H) : Place(H[i]) = p
         \/ \A i \in 1 .. Len(H) : p < Place(H[i])

\* The entries lie within the path, in order.
Within(H, n) ==
    /\ \A i \in 1 .. Len(H) : Place(H[i]) \in 1 .. n
    /\ \A i \in 1 .. Len(H) : \A j \in 1 .. i - 1 : Place(H[j]) < Place(H[i])

LEMMA AttributedUncounted ==
    ASSUME NEW H \in Seq(Entries), NEW P \in Seq(Transitions), NEW e \in Transitions, ~e.counts,
           Within(H, Len(P)), Attributed(H, P)
    PROVE  Attributed(H, Append(P, e))
  <1> DEFINE Q == Append(P, e)
             n == Len(P)
  <1>1. /\ Len(Q) = n + 1 /\ Q[n + 1] = e /\ n \in Nat
        /\ \A i \in 1 .. n : Q[i] = P[i]
    BY AppendProperties, LenProperties
  <1> HIDE DEF Q, n
  <1>2. \A i \in 1 .. Len(H) : Place(H[i]) \in 1 .. n
    BY DEF Within, n
  <1>3. ASSUME NEW p \in 1 .. Len(Q), Q[p].counts
        PROVE  \/ \E i \in 1 .. Len(H) : Place(H[i]) = p
               \/ \A i \in 1 .. Len(H) : p < Place(H[i])
    <2>1. p \in 1 .. n
      BY <1>1, <1>3
    <2> QED
      BY <1>1, <1>3, <2>1 DEF Attributed, n
  <1>4. \A i \in 1 .. Len(H) : Q[Place(H[i])].by = H[i].by /\ Q[Place(H[i])].counts
    BY <1>1, <1>2 DEF Attributed, n
  <1>5. Attributed(H, Q)
    BY <1>3, <1>4 DEF Attributed
  <1> QED
    BY <1>5 DEF Q

LEMMA AttributedPush ==
    ASSUME NEW H \in Seq(Entries), NEW P \in Seq(Transitions), NEW e \in Transitions, e.counts,
           Within(H, Len(P)), Attributed(H, P),
           NEW new \in Entries, new.state.path = P, new.by = e.by,
           NEW cap \in Nat, cap >= 1, Len(H) <= cap
    PROVE  Attributed(Pushed(H, new, cap), Append(P, e))
  <1> DEFINE Q == Append(P, e)
             n == Len(P)
             I == Pushed(H, new, cap)
  <1>1. /\ Len(Q) = n + 1 /\ Q[n + 1] = e /\ n \in Nat
        /\ \A i \in 1 .. n : Q[i] = P[i]
    BY AppendProperties, LenProperties
  <1>2. /\ I \in Seq(Entries) /\ Len(I) >= 1 /\ I[Len(I)] = new
        /\ \E o \in {0, 1} : /\ Len(I) = Len(H) + 1 - o
                             /\ \A i \in 1 .. Len(I) - 1 : /\ i + o \in 1 .. Len(H)
                                                           /\ I[i] = H[i + o]
    <2>1. PushedOnto(I, Entries, H, new, cap)
      BY PushedRing
    <2> HIDE DEF I
    <2> QED
      BY <2>1 DEF PushedOnto
  <1>3. Len(I) \in Nat /\ Len(H) \in Nat
    BY <1>2, LenProperties
  <1> HIDE DEF Q, n, I
  <1>4. PICK o \in {0, 1} : /\ Len(I) = Len(H) + 1 - o
                            /\ \A i \in 1 .. Len(I) - 1 : /\ i + o \in 1 .. Len(H)
                                                          /\ I[i] = H[i + o]
    BY <1>2
  <1>5. Place(new) = n + 1
    BY DEF Place, n
  <1>6. \A i \in 1 .. Len(I) : i = Len(I) \/ i \in 1 .. Len(I) - 1
    BY <1>3
  <1>7. /\ \A i \in 1 .. Len(H) : Place(H[i]) \in 1 .. n
        /\ \A i \in 1 .. Len(H) : \A j \in 1 .. i - 1 : Place(H[j]) < Place(H[i])
    BY DEF Within, n
  <1>8. ASSUME NEW i \in 1 .. Len(I)
        PROVE  Q[Place(I[i])].by = I[i].by /\ Q[Place(I[i])].counts
    <2>1. CASE i = Len(I)
      BY <1>1, <1>2, <1>5, <2>1
    <2>2. CASE i \in 1 .. Len(I) - 1
      <3> DEFINE k == i + o
      <3>1. k \in 1 .. Len(H) /\ I[i] = H[k]
        BY <1>4, <2>2
      <3> HIDE DEF k
      <3>2. Place(H[k]) \in 1 .. n
        BY <1>7, <3>1
      <3> QED
        BY <1>1, <3>1, <3>2 DEF Attributed
    <2> QED
      BY <1>6, <2>1, <2>2
  <1>9. ASSUME NEW p \in 1 .. Len(Q), Q[p].counts
        PROVE  \/ \E i \in 1 .. Len(I) : Place(I[i]) = p
               \/ \A i \in 1 .. Len(I) : p < Place(I[i])
    <2>1. CASE p = n + 1
      <3>1. Len(I) \in 1 .. Len(I) /\ Place(I[Len(I)]) = p
        BY <1>2, <1>3, <1>5, <2>1
      <3> QED
        BY <3>1
    <2>2. CASE p \in 1 .. n /\ \A i \in 1 .. Len(H) : p < Place(H[i])
      <3>1. ASSUME NEW i \in 1 .. Len(I)
            PROVE  p < Place(I[i])
        <4>1. CASE i = Len(I)
          BY <1>1, <1>2, <1>5, <2>2, <4>1
        <4>2. CASE i \in 1 .. Len(I) - 1
          BY <1>4, <2>2, <4>2
        <4> QED
          BY <1>6, <4>1, <4>2
      <3> QED
        BY <3>1
    <2>3. CASE p \in 1 .. n /\ \E i \in 1 .. Len(H) : Place(H[i]) = p
      <3>1. PICK i \in 1 .. Len(H) : Place(H[i]) = p
        BY <2>3
      <3>2. CASE i - o >= 1
        <4> DEFINE k == i - o
        <4>1. k \in 1 .. Len(I) - 1 /\ k + o = i /\ k \in 1 .. Len(I)
          BY <1>3, <1>4, <3>2
        <4>2. I[k] = H[i]
          BY <1>4, <4>1
        <4> QED
          BY <3>1, <4>1, <4>2
      <3>3. CASE ~(i - o >= 1)
        <4>1. i = 1 /\ o = 1
          BY <1>3, <3>3
        <4>2. ASSUME NEW j \in 1 .. Len(I)
              PROVE  p < Place(I[j])
          <5>1. CASE j = Len(I)
            BY <1>1, <1>2, <1>5, <2>3, <5>1
          <5>2. CASE j \in 1 .. Len(I) - 1
            <6> DEFINE k == j + 1
            <6>1. k \in 1 .. Len(H) /\ I[j] = H[k]
              BY <1>4, <4>1, <5>2
            <6>2. i \in 1 .. k - 1
              BY <4>1
            <6> HIDE DEF k
            <6> QED
              BY <1>7, <3>1, <6>1, <6>2
          <5> QED
            BY <1>6, <5>1, <5>2
        <4> QED
          BY <4>2
      <3> QED
        BY <3>2, <3>3
    <2> QED
      <3>1. p = n + 1 \/ p \in 1 .. n
        BY <1>1
      <3>2. ASSUME p \in 1 .. n
            PROVE  \/ \E i \in 1 .. Len(H) : Place(H[i]) = p
                   \/ \A i \in 1 .. Len(H) : p < Place(H[i])
        BY <1>1, <1>9, <3>2 DEF Attributed, n
      <3> QED
        BY <2>1, <2>2, <2>3, <3>1, <3>2
  <1>10. Attributed(I, Q)
    BY <1>8, <1>9 DEF Attributed
  <1> QED
    BY <1>10 DEF I, Q

LEMMA AttributedRollback ==
    ASSUME NEW H \in Seq(Entries), NEW P \in Seq(Transitions), Attributed(H, P),
           NEW Q \in Seq(Transitions), Len(Q) <= Len(P), \A i \in 1 .. Len(Q) : Q[i] = P[i],
           NEW k \in Nat, k <= Len(H), NEW I \in Seq(Entries),
           Len(I) = k, \A i \in 1 .. k : I[i] = H[i],
           \A i \in 1 .. Len(H) : Place(H[i]) \in Nat,
           \A i \in 1 .. Len(H) : IF i <= k THEN Place(H[i]) \in 1 .. Len(Q) ELSE Len(Q) < Place(H[i])
    PROVE  Attributed(I, Q)
  <1>1. Len(Q) \in Nat /\ Len(P) \in Nat /\ Len(H) \in Nat
    BY LenProperties
  <1>2. \A i \in 1 .. k : i \in 1 .. Len(H) /\ Place(I[i]) = Place(H[i]) /\ Place(H[i]) \in 1 .. Len(Q)
    BY <1>1
  <1>3. ASSUME NEW i \in 1 .. Len(I)
        PROVE  Q[Place(I[i])].by = I[i].by /\ Q[Place(I[i])].counts
    <2> DEFINE p == Place(H[i])
    <2>1. i \in 1 .. Len(H) /\ I[i] = H[i] /\ p \in 1 .. Len(Q)
      BY <1>2
    <2>2. P[p].by = H[i].by /\ P[p].counts
      BY <2>1 DEF Attributed
    <2> HIDE DEF p
    <2>3. Q[p] = P[p]
      BY <2>1
    <2> QED
      BY <2>1, <2>2, <2>3 DEF p
  <1>4. ASSUME NEW p \in 1 .. Len(Q), Q[p].counts
        PROVE  \/ \E i \in 1 .. Len(I) : Place(I[i]) = p
               \/ \A i \in 1 .. Len(I) : p < Place(I[i])
    <2>1. p \in 1 .. Len(P) /\ P[p].counts
      BY <1>1, <1>4
    <2>2. CASE \A i \in 1 .. Len(H) : p < Place(H[i])
      BY <1>2, <2>2
    <2>3. CASE \E i \in 1 .. Len(H) : Place(H[i]) = p
      <3>1. PICK i \in 1 .. Len(H) : Place(H[i]) = p
        BY <2>3
      <3>2. i <= k
        BY <1>1, <3>1
      <3>3. i \in 1 .. Len(I) /\ Place(I[i]) = p
        BY <1>1, <1>2, <3>1, <3>2
      <3> QED
        BY <3>3
    <2> QED
      BY <2>1, <2>2, <2>3 DEF Attributed
  <1> QED
    BY <1>3, <1>4 DEF Attributed

\* A session whose path tells, for every action on offer, whose it is; `made`
\* numbers the transitions.
Played(g) ==
    /\ Attributed(g.history, g.state.path)
    /\ \A p \in 1 .. Len(g.state.path) : g.state.path[p].id < g.made

\* r is reached from g by transitions alone.
Continues(g, r) ==
    /\ g.made <= r.made
    /\ Len(g.state.path) <= Len(r.state.path)
    /\ \A p \in 1 .. Len(g.state.path) : r.state.path[p] = g.state.path[p]
    /\ \A p \in Len(g.state.path) + 1 .. Len(r.state.path) : g.made <= r.state.path[p].id

LEMMA PathTyped ==
    ASSUME NEW g \in Sessions
    PROVE  /\ g.state.path \in Seq(Transitions) /\ Len(g.state.path) \in Nat /\ g.made \in Nat
           /\ \A p \in 1 .. Len(g.state.path) : g.state.path[p] \in Transitions
                                                /\ g.state.path[p].id \in Nat
           /\ \A i \in 1 .. Len(g.history) : Place(g.history[i]) \in Nat
  <1>1. g.state \in States /\ g.made \in Nat /\ \A i \in 1 .. Len(g.history) : g.history[i].state \in States
    BY SessionTyped
  <1>2. g.state.path \in Seq(Transitions) /\ Len(g.state.path) \in Nat
    BY <1>1, StateTyped DEF Transitions
  <1>3. \A p \in 1 .. Len(g.state.path) : g.state.path[p] \in Transitions
    BY <1>2, ElementOfSeq
  <1>4. \A i \in 1 .. Len(g.history) : Place(g.history[i]) \in Nat
    BY <1>1, StateTyped DEF Place
  <1> QED
    BY <1>1, <1>2, <1>3, <1>4 DEF Transitions

LEMMA ContinuesSelf ==
    ASSUME NEW g \in Sessions
    PROVE  Continues(g, g)
  BY PathTyped DEF Continues

LEMMA ContinuesTrans ==
    ASSUME NEW g \in Sessions, NEW h \in Sessions, NEW r \in Sessions, Continues(g, h), Continues(h, r)
    PROVE  Continues(g, r)
  <1> DEFINE G == g.state.path
             H == h.state.path
             R == r.state.path
  <1>1. /\ Len(G) \in Nat /\ Len(H) \in Nat /\ Len(R) \in Nat
        /\ g.made \in Nat /\ h.made \in Nat /\ r.made \in Nat
        /\ \A p \in 1 .. Len(R) : R[p].id \in Nat
    BY PathTyped
  <1>2. /\ g.made <= h.made /\ Len(G) <= Len(H) /\ \A p \in 1 .. Len(G) : H[p] = G[p]
        /\ \A p \in Len(G) + 1 .. Len(H) : g.made <= H[p].id
    BY DEF Continues
  <1>3. /\ h.made <= r.made /\ Len(H) <= Len(R) /\ \A p \in 1 .. Len(H) : R[p] = H[p]
        /\ \A p \in Len(H) + 1 .. Len(R) : h.made <= R[p].id
    BY DEF Continues
  <1> HIDE DEF G, H, R
  <1>4. ASSUME NEW p \in 1 .. Len(G)
        PROVE  R[p] = G[p]
    BY <1>1, <1>2, <1>3
  <1>5. ASSUME NEW p \in Len(G) + 1 .. Len(R)
        PROVE  g.made <= R[p].id
    <2>1. CASE p <= Len(H)
      <3>1. p \in 1 .. Len(H) /\ p \in Len(G) + 1 .. Len(H)
        BY <1>1, <2>1
      <3> QED
        BY <1>2, <1>3, <3>1
    <2>2. CASE ~(p <= Len(H))
      <3>1. p \in Len(H) + 1 .. Len(R) /\ p \in 1 .. Len(R)
        BY <1>1, <2>2
      <3>2. h.made <= R[p].id /\ R[p].id \in Nat
        BY <1>1, <1>3, <3>1
      <3> QED
        BY <1>1, <1>2, <3>2
    <2> QED
      BY <2>1, <2>2
  <1>6. g.made <= r.made /\ Len(G) <= Len(R)
    BY <1>1, <1>2, <1>3
  <1> QED
    BY <1>4, <1>5, <1>6 DEF Continues, G, R

\* The entries of a session at rest lie within its path.
LEMMA EntriesWithin ==
    ASSUME NEW g, SoundSession(g)
    PROVE  Within(g.history, Len(g.state.path))
  <1> DEFINE H == g.history
             n == Len(g.state.path)
  <1>1. /\ g \in Sessions /\ RingsOrdered(H, g.turns)
        /\ \A i \in 1 .. Len(H) : Older(H[i].state, g.state)
    BY DEF SoundSession, ReadySession
  <1>2. n \in Nat /\ Len(H) \in Nat /\ \A i \in 1 .. Len(H) : Len(H[i].state.path) \in Nat
    BY <1>1, SessionTyped, StateTyped
  <1>3. \A i \in 1 .. Len(H) : Len(H[i].state.path) < n
    BY <1>1 DEF Older
  <1> HIDE DEF n, H
  <1>4. \A i \in 1 .. Len(H) : Place(H[i]) \in 1 .. n
    BY <1>2, <1>3 DEF Place
  <1>5. ASSUME NEW i \in 1 .. Len(H), NEW j \in 1 .. i - 1
        PROVE  Place(H[j]) < Place(H[i])
    <2>1. Older(H[j].state, H[i].state)
      BY <1>1, Zenon DEF RingsOrdered
    <2>2. Len(H[j].state.path) < Len(H[i].state.path) /\ j \in 1 .. Len(H)
      BY <1>2, <2>1 DEF Older
    <2> DEFINE a == Len(H[j].state.path)
               b == Len(H[i].state.path)
    <2>3. Place(H[j]) = a + 1 /\ Place(H[i]) = b + 1
      BY DEF Place
    <2>4. a \in Nat /\ b \in Nat /\ a < b
      BY <1>2, <2>2
    <2> HIDE DEF a, b
    <2> QED
      BY <2>3, <2>4
  <1> QED
    BY <1>4, <1>5 DEF Within, H, n

LEMMA MovedShape ==
    ASSUME NEW g \in Sessions, NEW seat, NEW counts, NEW move,
           NEW r, r = Moved(g, seat, counts, move)
    PROVE  /\ r.state.path = Append(g.state.path, Transition(g.made, seat, counts)) /\ r.made = g.made + 1
           /\ r.history = <<>> \/ r.history = g.history
  <1> DEFINE b == After(g.state, g.made, seat, counts, move)
             kept == IF b.game # g.rewindGame
                     THEN [g EXCEPT !.history = <<>>, !.turns = <<>>, !.rewindGame = b.game]
                     ELSE g
             o == [kept EXCEPT !.state = b,
                               !.turns = RecordTurnRewindPoint(@, Announced(g.state, move), b)]
  <1>1. b.path = Append(g.state.path, Transition(g.made, seat, counts))
    BY DEF After, Transition
  <1>2. r = [o EXCEPT !.made = @ + 1]
    BY Zenon DEF Moved, ObserveTransition
  <1> HIDE DEF b
  <1>3. DOMAIN g = {"state", "history", "turns", "rewindGame", "made"}
    BY DEF Sessions
  <1>4. /\ DOMAIN kept = DOMAIN g /\ kept.made = g.made
        /\ kept.history = <<>> \/ kept.history = g.history
    BY <1>3
  <1> HIDE DEF kept
  <1>5. /\ DOMAIN o = DOMAIN g /\ o.made = g.made /\ o.state = b
        /\ o.history = kept.history
    BY <1>3, <1>4
  <1> HIDE DEF o
  <1>6. r.made = g.made + 1 /\ r.state = b /\ r.history = kept.history
    BY <1>2, <1>3, <1>5
  <1> QED
    BY <1>1, <1>4, <1>6

\* A transition continues the play it is made from.
LEMMA MovedContinues ==
    ASSUME NEW g, ReadySession(g), NEW seat \in Humans \cup AiSeats, NEW counts \in BOOLEAN,
           NEW move \in Moves, NEW r, r = Moved(g, seat, counts, move),
           \A p \in 1 .. Len(g.state.path) : g.state.path[p].id < g.made
    PROVE  /\ Continues(g, r)
           /\ \A p \in 1 .. Len(r.state.path) : r.state.path[p].id < r.made
  <1> DEFINE P == g.state.path
             R == r.state.path
             n == Len(P)
             e == Transition(g.made, seat, counts)
  <1>1. g \in Sessions
    BY DEF ReadySession
  <1>2. /\ P \in Seq(Transitions) /\ n \in Nat /\ g.made \in Nat
        /\ \A p \in 1 .. n : P[p].id \in Nat
    BY <1>1, PathTyped
  <1>3. e \in Transitions /\ e.id = g.made
    BY <1>2 DEF Transitions, Transition
  <1>4. R = Append(P, e) /\ r.made = g.made + 1
    <2> HIDE DEF P, R
    <2>1. r.state.path = Append(g.state.path, e) /\ r.made = g.made + 1
      BY <1>1, MovedShape
    <2> QED
      BY <2>1 DEF P, R
  <1> HIDE DEF P, R, e
  <1>5. Len(R) = n + 1 /\ R[n + 1] = e /\ \A p \in 1 .. n : R[p] = P[p]
    BY <1>2, <1>3, <1>4, AppendProperties
  <1>6. \A p \in 1 .. Len(R) : p = n + 1 \/ p \in 1 .. n
    BY <1>2, <1>5
  <1>7. ASSUME NEW p \in 1 .. Len(R)
        PROVE  R[p].id < r.made
    <2>1. CASE p = n + 1
      BY <1>2, <1>3, <1>4, <1>5, <2>1
    <2>2. CASE p \in 1 .. n
      BY <1>2, <1>4, <1>5, <2>2 DEF P
    <2> QED
      BY <1>6, <2>1, <2>2
  <1>8. \A p \in n + 1 .. Len(R) : g.made <= R[p].id
    BY <1>2, <1>3, <1>5
  <1>9. g.made <= r.made /\ n <= Len(R)
    BY <1>2, <1>4, <1>5
  <1> QED
    BY <1>5, <1>7, <1>8, <1>9 DEF Continues, P, R

\* A transition that is no recorded action: a preference, or one of the AI's.
LEMMA UncountedPlayed ==
    ASSUME NEW g, SoundSession(g), Played(g), NEW seat \in Humans \cup AiSeats,
           NEW counts \in BOOLEAN, ~counts, NEW move \in Moves,
           NEW r, r = Moved(g, seat, counts, move)
    PROVE  Played(r) /\ Continues(g, r)
  <1> DEFINE P == g.state.path
             e == Transition(g.made, seat, counts)
  <1>1. g \in Sessions /\ ReadySession(g)
    BY DEF SoundSession, ReadySession
  <1>2. P \in Seq(Transitions) /\ g.made \in Nat /\ g.history \in Seq(Entries)
    BY <1>1, PathTyped, SessionTyped
  <1>3. e \in Transitions /\ ~e.counts
    BY <1>2 DEF Transitions, Transition
  <1>4. /\ r.state.path = Append(P, e)
        /\ r.history = <<>> \/ r.history = g.history
    BY <1>1, MovedShape
  <1>5. /\ Continues(g, r)
        /\ \A p \in 1 .. Len(r.state.path) : r.state.path[p].id < r.made
    BY <1>1, MovedContinues DEF Played
  <1>6. Attributed(r.history, r.state.path)
    <2> DEFINE H == g.history
    <2>1. Within(H, Len(P)) /\ Attributed(H, P) /\ H \in Seq(Entries)
      BY <1>2, EntriesWithin DEF Played
    <2> HIDE DEF P, e, H
    <2>2. Attributed(H, Append(P, e))
      BY <1>2, <1>3, <2>1, AttributedUncounted
    <2>3. Len(<<>>) = 0
      BY EmptySeq
    <2>4. Attributed(<<>>, Append(P, e))
      BY <2>3 DEF Attributed
    <2> QED
      BY <1>4, <2>2, <2>4 DEF H
  <1> QED
    BY <1>5, <1>6 DEF Played

\* A recorded action, with the entry handle_action pushed for it.
LEMMA ActionPlayed ==
    ASSUME NEW g, SoundSession(g), Played(g), NEW h \in Humans, NEW move \in Moves,
           NEW counts \in BOOLEAN, counts # FALSE,
           NEW q, q = PushTakebackState(g, h, g.state),
           NEW r, r = Moved(q, h, counts, move)
    PROVE  Played(r) /\ Continues(g, r)
  <1> DEFINE P == g.state.path
             H == g.history
             e == Transition(g.made, h, counts)
             entry == [by |-> h, state |-> g.state]
             cap == MAX_TAKEBACK_HISTORY
  <1>1. g \in Sessions /\ Len(H) <= cap
    BY DEF SoundSession, ReadySession, RingsOrdered
  <1>2. P \in Seq(Transitions) /\ g.made \in Nat /\ H \in Seq(Entries) /\ g.state \in States
    BY <1>1, PathTyped, SessionTyped
  <1>3. e \in Transitions /\ e.counts /\ e.by = h
    BY <1>2 DEF Transitions, Transition
  <1>4. entry \in Entries /\ entry.by = h /\ entry.state.path = P
    BY <1>2 DEF Entries
  <1>5. ReadySession(q)
    BY PushIsReady
  <1>6. q.history = Pushed(H, entry, cap) /\ q.state = g.state /\ q.made = g.made
    BY <1>1 DEF PushTakebackState, Sessions
  <1>7. q \in Sessions
    BY <1>5 DEF ReadySession
  <1>8. /\ r.state.path = Append(P, e)
        /\ r.history = <<>> \/ r.history = q.history
    <2>1. /\ r.state.path = Append(q.state.path, Transition(q.made, h, counts))
          /\ r.history = <<>> \/ r.history = q.history
      BY <1>7, MovedShape
    <2> QED
      BY <1>6, <2>1
  <1>9. \A p \in 1 .. Len(q.state.path) : q.state.path[p].id < q.made
    BY <1>6 DEF Played
  <1>10. /\ Continues(q, r)
         /\ \A p \in 1 .. Len(r.state.path) : r.state.path[p].id < r.made
    BY <1>5, <1>9, MovedContinues
  <1>11. Attributed(r.history, r.state.path)
    <2>1. Within(H, Len(P)) /\ Attributed(H, P) /\ cap \in Nat /\ cap >= 1
      BY EntriesWithin, TableAssumption DEF Played, TableAssumption
    <2> HIDE DEF P, e, H, entry, cap
    <2>2. Attributed(Pushed(H, entry, cap), Append(P, e))
      BY <1>1, <1>2, <1>3, <1>4, <2>1, AttributedPush
    <2>3. Len(<<>>) = 0
      BY EmptySeq
    <2>4. Attributed(<<>>, Append(P, e))
      BY <2>3 DEF Attributed
    <2> QED
      BY <1>6, <1>8, <2>2, <2>4
  <1>12. Continues(g, r)
    BY <1>6, <1>10 DEF Continues
  <1> QED
    BY <1>10, <1>11, <1>12 DEF Played

\* A batch of AI results, however long.
LEMMA BatchPlayed ==
    ASSUME NEW g, SoundSession(g), Played(g), NEW r \in AiBatches(g)
    PROVE  SoundSession(r) /\ Played(r) /\ Continues(g, r)
  <1> DEFINE V == {h \in Sessions : SoundSession(h) /\ Played(h) /\ Continues(g, h)}
  <1>0. g \in Sessions
    BY DEF SoundSession, ReadySession
  <1>1. g \in V
    BY <1>0, ContinuesSelf
  <1>2. \A h \in V : AiResults(h) \subseteq V
    <2> SUFFICES ASSUME NEW h \in V, NEW q \in AiResults(h)
                 PROVE  q \in V
      OBVIOUS
    <2>1. SoundSession(q)
      BY AiResultSound
    <2>2. q \in Sessions
      BY <2>1 DEF SoundSession, ReadySession
    <2>3. Played(q) /\ Continues(h, q)
      <3> DEFINE counts == FALSE
                 Result(seat, move) == Moved(h, seat, counts, move)
      <3>1. AiResults(h) = {Result(seat, move) : seat \in AiSeats, move \in MovesFrom(h)}
        BY DEF AiResults
      <3>2. counts \in BOOLEAN /\ ~counts
        OBVIOUS
      <3> HIDE DEF counts, Result
      <3>3. PICK seat \in AiSeats, move \in MovesFrom(h) : q = Result(seat, move)
        BY <3>1
      <3>4. seat \in Humans \cup AiSeats /\ move \in Moves /\ q = Moved(h, seat, counts, move)
        BY <3>3 DEF MovesFrom, Result
      <3>5. SoundSession(h) /\ Played(h)
        OBVIOUS
      <3> HIDE DEF V
      <3> QED
        BY <3>2, <3>4, <3>5, UncountedPlayed
    <2>4. Continues(g, q)
      BY <1>0, <2>2, <2>3, ContinuesTrans
    <2> QED
      BY <2>1, <2>2, <2>3, <2>4
  <1> HIDE DEF V
  <1>3. r \in V
    BY <1>1, <1>2, BatchesStay
  <1> QED
    BY <1>3 DEF V

\* A rollback installs a state of the same play.
LEMMA RolledBackPlayed ==
    ASSUME NEW g, SoundSession(g), Played(g), NEW t, GoodTarget(g, t),
           NEW r, r = RolledBack(g, t)
    PROVE  /\ Played(r) /\ Len(r.state.path) <= Len(g.state.path)
           /\ \A p \in 1 .. Len(r.state.path) : r.state.path[p] = g.state.path[p]
  <1> DEFINE H == g.history
             P == g.state.path
             Q == t.state.path
             k == t.keep
             I == SubSeq(H, 1, k)
  <1>1. /\ SoundSession(r) /\ r.state = t.state /\ r.made = g.made /\ r.history = I
    BY RolledBackSound
  <1>2. g \in Sessions /\ r \in Sessions
    BY <1>1 DEF SoundSession, ReadySession
  <1>3. /\ P \in Seq(Transitions) /\ Q \in Seq(Transitions) /\ H \in Seq(Entries) /\ I \in Seq(Entries)
        /\ Len(P) \in Nat /\ Len(Q) \in Nat /\ Len(H) \in Nat /\ Len(I) \in Nat
        /\ \A i \in 1 .. Len(H) : H[i] \in Entries /\ Place(H[i]) \in Nat /\ H[i].state \in States
    BY <1>1, <1>2, PathTyped, SessionTyped
  <1>4. /\ t.state \in States /\ g.state \in States /\ Earlier(t.state, g.state)
        /\ k \in Nat /\ k <= Len(H)
        /\ \A i \in 1 .. Len(H) : IF i <= k THEN Older(H[i].state, t.state)
                                  ELSE Earlier(t.state, H[i].state)
    BY <1>2, SessionTyped DEF GoodTarget
  <1>5. Len(Q) <= Len(P) /\ \A p \in 1 .. Len(Q) : Q[p] = P[p]
    BY <1>4, AncestorIs, AncestorSelf DEF Earlier, Older
  <1>6. Len(I) = k /\ \A i \in 1 .. k : I[i] = H[i]
    <2>1. \A i \in 1 .. k : H[i] \in Entries
      BY <1>3, <1>4
    <2> HIDE DEF H, k
    <2>2. /\ Len(I) = IF 1 <= k THEN k - 1 + 1 ELSE 0
          /\ \A i \in 1 .. k - 1 + 1 : I[i] = H[1 + i - 1]
      BY <1>4, <2>1, SubSeqProperties
    <2> HIDE DEF I
    <2>3. k - 1 + 1 = k /\ (~(1 <= k) => k = 0) /\ \A i \in 1 .. k : 1 + i - 1 = i
      BY <1>4
    <2> QED
      BY <2>2, <2>3
  <1>7. ASSUME NEW i \in 1 .. Len(H)
        PROVE  IF i <= k THEN Place(H[i]) \in 1 .. Len(Q) ELSE Len(Q) < Place(H[i])
    <2> DEFINE n == Len(H[i].state.path)
               m == Len(Q)
    <2>1. Place(H[i]) = n + 1 /\ n \in Nat /\ m \in Nat
      BY <1>3, StateTyped DEF Place
    <2>2. CASE i <= k
      <3>1. n < m
        BY <1>4, <2>2 DEF Older
      <3> HIDE DEF n, m
      <3> QED
        BY <2>1, <2>2, <3>1 DEF m
    <2>3. CASE ~(i <= k)
      <3>1. m <= n
        <4>1. t.state = H[i].state \/ m < n
          BY <1>4, <2>3 DEF Older, Earlier
        <4>2. t.state = H[i].state => m = n
          OBVIOUS
        <4> HIDE DEF n, m
        <4> QED
          BY <2>1, <4>1, <4>2
      <3> HIDE DEF n, m
      <3>2. m < n + 1
        BY <2>1, <3>1
      <3> QED
        BY <2>1, <2>3, <3>2 DEF m
    <2> QED
      BY <2>2, <2>3
  <1>8. Attributed(H, P) /\ \A p \in 1 .. Len(P) : P[p].id < g.made
    BY DEF Played
  <1> HIDE DEF H, P, Q, k, I
  <1>9. Attributed(I, Q)
    BY <1>3, <1>4, <1>5, <1>6, <1>7, <1>8, AttributedRollback
  <1>10. \A p \in 1 .. Len(Q) : Q[p].id < g.made
    BY <1>3, <1>5, <1>8
  <1> QED
    BY <1>1, <1>5, <1>9, <1>10 DEF Played, P, Q

-----------------------------------------------------------------------------
(* The inductive invariant.                                                *)

\* The vote is on a target that is still on offer.
VoteTarget ==
    \A x \in Humans : pending # Nothing /\ pending.by = x => pending.target \in Targets(x)

TakebackInv == TypeOK /\ SoundSession(game) /\ Played(game) /\ VoteTarget

LEMMA TakebackInit == Init => TakebackInv
  <1> SUFFICES ASSUME Init
               PROVE  TakebackInv
    OBVIOUS
  <1> DEFINE s == [game |-> 1, turn |-> 1, path |-> <<>>]
  <1>1. game = [state |-> s, history |-> <<>>, turns |-> <<>>, rewindGame |-> 1, made |-> 0]
    BY DEF Init
  <1>2. Len(<<>>) = 0 /\ <<>> \in Seq(Transitions) /\ <<>> \in Seq(Entries) /\ <<>> \in Seq(States)
    BY EmptySeq
  <1>3. s \in States
    BY <1>2 DEF States, Transitions
  <1>4. s.game = 1 /\ s.path = <<>>
    OBVIOUS
  <1> HIDE DEF s
  <1>5. /\ game.state = s /\ game.history = <<>> /\ game.turns = <<>> /\ game.rewindGame = 1
        /\ game \in Sessions
    BY <1>1, <1>2, <1>3 DEF Sessions, Entries
  <1>6. Len(game.history) = 0 /\ Len(game.turns) = 0 /\ Len(game.state.path) = 0
    BY <1>2, <1>4, <1>5
  <1>7. SoundSession(game)
    BY <1>4, <1>5, <1>6, TableAssumption DEF SoundSession, ReadySession, RingsOrdered, TableAssumption
  <1>8. Played(game)
    BY <1>6 DEF Played, Attributed
  <1>9. TypeOK
    <2>1. /\ hosting \in Hostings /\ fault \in BOOLEAN /\ overtaken \in BOOLEAN
          /\ connected \subseteq Humans /\ pending = Nothing
      BY DEF Init
    <2>2. outgoing \in [Humans -> {Nothing, "Requested", "Resolved"}]
      BY DEF Init
    <2>3. prompt \in [Humans -> BOOLEAN]
      BY DEF Init
    <2>4. Len(game.history) <= MAX_TAKEBACK_HISTORY /\ Len(game.turns) <= MAX_TURN_REWIND_HISTORY
      BY <1>6, TableAssumption DEF TableAssumption
    <2> QED
      BY <1>5, <2>1, <2>2, <2>3, <2>4, Zenon DEF TypeOK
  <1> QED
    BY <1>7, <1>8, <1>9 DEF TakebackInv, VoteTarget, Init

LEMMA RunAiPlays ==
    ASSUME NEW g, SoundSession(g), Played(g), fault \in BOOLEAN, NEW request, RunAi(g, request)
    PROVE  /\ SoundSession(game') /\ Played(game') /\ Continues(g, game') /\ fault' \in BOOLEAN
           /\ AiHolds(fault, request) => game' = g
  <1>1. CASE AiHolds(fault, request)
    <2>1. game' = g /\ fault' = fault
      BY <1>1 DEF RunAi
    <2>2. g \in Sessions
      BY DEF SoundSession, ReadySession
    <2> QED
      BY <2>1, <2>2, ContinuesSelf
  <1>2. CASE ~AiHolds(fault, request)
    <2>1. game' \in AiBatches(g) /\ fault' \in BOOLEAN
      BY <1>2 DEF RunAi
    <2> QED
      BY <1>2, <2>1, BatchPlayed
  <1> QED
    BY <1>1, <1>2

\* A message of the table: nothing is rolled back unless the vote it completes
\* is unanimous.
LEMMA ResolvePlays ==
    ASSUME TakebackInv, NEW h \in Humans, NEW request \in Requests, NEW announce,
           request.target \in Targets(request.by), Resolve(h, request, announce)
    PROVE  /\ SoundSession(game') /\ Played(game') /\ fault' \in BOOLEAN
           /\ outgoing' = [outgoing EXCEPT ![h] = "Resolved"]
                \/ outgoing' = [outgoing EXCEPT ![h] = announce]
           /\ pending' = Nothing \/ (pending' = request /\ game' = game)
           /\ \/ Continues(game, game')
              \/ /\ Unanimous(request.approvals)
                 /\ Continues(RolledBack(game, request.target), game')
  <1>0. /\ SoundSession(game) /\ Played(game) /\ fault \in BOOLEAN /\ game \in Sessions
        /\ request.by \in Humans
    BY DEF TakebackInv, TypeOK, Requests
  <1>1. CASE Unanimous(request.approvals)
    <2> DEFINE t == request.target
               g == RolledBack(game, t)
    <2>1. /\ pending' = Nothing /\ RunAi(g, Nothing)
          /\ outgoing' = [outgoing EXCEPT ![h] = "Resolved"]
      BY <1>1 DEF Resolve
    <2>2. GoodTarget(game, t)
      BY <1>0, TargetsGood
    <2>3. SoundSession(g)
      BY <1>0, <2>2, RolledBackSound
    <2>4. Played(g)
      BY <1>0, <2>2, RolledBackPlayed
    <2> HIDE DEF g
    <2>5. SoundSession(game') /\ Played(game') /\ Continues(g, game') /\ fault' \in BOOLEAN
      BY <1>0, <2>1, <2>3, <2>4, RunAiPlays
    <2> QED
      BY <1>1, <2>1, <2>5 DEF g
  <1>2. CASE ~Unanimous(request.approvals)
    <2>1. /\ pending' = request /\ outgoing' = [outgoing EXCEPT ![h] = announce]
          /\ game' = game /\ fault' = fault
      BY <1>2 DEF Resolve
    <2>2. SoundSession(game') /\ Played(game') /\ Continues(game, game')
      BY <1>0, <2>1, ContinuesSelf
    <2> QED
      BY <1>0, <2>1, <2>2
  <1> QED
    BY <1>1, <1>2

\* The targets on offer follow the session alone.
LEMMA TargetsStand ==
    ASSUME game' = game, hosting' = hosting, NEW x \in Humans
    PROVE  Targets(x)' = Targets(x)
  BY DEF Targets, LastActionTargets, OwnEntries, TurnStartTargets, KeepBefore, OffersTurnRewind

\* The table's part of the type invariant.
TableTyped ==
    /\ hosting \in Hostings /\ fault \in BOOLEAN /\ overtaken \in BOOLEAN
    /\ connected \subseteq Humans
    /\ outgoing \in [Humans -> {Nothing, "Requested", "Resolved"}]
    /\ prompt \in [Humans -> BOOLEAN]

LEMMA InvariantKept ==
    ASSUME SoundSession(game'), Played(game'), TableTyped',
           \/ pending' = Nothing
           \/ /\ pending' \in Requests /\ pending'.by \in pending'.approvals
              /\ game' = game /\ hosting' = hosting
              /\ pending'.target \in Targets(pending'.by)
    PROVE  TakebackInv'
  <1>1. /\ game' \in Sessions /\ Len(game'.history) <= MAX_TAKEBACK_HISTORY
        /\ Len(game'.turns) <= MAX_TURN_REWIND_HISTORY
    BY DEF SoundSession, ReadySession, RingsOrdered
  <1>2. TypeOK'
    BY <1>1, Zenon DEF TypeOK, TableTyped
  <1>3. VoteTarget'
    <2> SUFFICES ASSUME NEW x \in Humans, pending' # Nothing, pending'.by = x
                 PROVE  pending'.target \in Targets(x)'
      BY DEF VoteTarget
    <2>1. Targets(x)' = Targets(x)
      BY TargetsStand
    <2> QED
      BY <2>1
  <1> QED
    BY <1>2, <1>3 DEF TakebackInv

LEMMA TableTypedNow ==
    ASSUME TakebackInv
    PROVE  TableTyped
  BY Zenon DEF TakebackInv, TypeOK, TableTyped

\* A step makes transitions, or first rolls back what the speaker h may have
\* rolled back: its own request, if there was no vote, or the one it was the
\* last to approve.
PlaysOn == \/ Continues(game, game')
           \/ \E h \in Humans : /\ Consented(h)
                                /\ \E t \in Targets(Asked(h)) : Continues(RolledBack(game, t), game')

LEMMA HandleActionKeeps ==
    ASSUME TakebackInv, NEW h \in Humans, NEW counts \in BOOLEAN, NEW move \in Moves,
           HandleAction(h, counts, move)
    PROVE  TakebackInv' /\ PlaysOn
  <1> DEFINE pushed == IF counts THEN PushTakebackState(game, h, game.state) ELSE game
             r == Moved(pushed, h, counts, move)
  <1>1. SoundSession(game) /\ Played(game) /\ fault \in BOOLEAN /\ game \in Sessions
    BY DEF TakebackInv, TypeOK
  <1>2. /\ pending = Nothing /\ RunAi(r, Nothing)
        /\ UNCHANGED <<hosting, pending, connected, outgoing, prompt, overtaken>>
    BY DEF HandleAction, MayAct
  <1>3. ReadySession(pushed) /\ h \in Humans \cup AiSeats
    <2>1. ReadySession(PushTakebackState(game, h, game.state))
      BY <1>1, PushIsReady
    <2>2. ReadySession(game)
      BY <1>1 DEF SoundSession
    <2> QED
      BY <2>1, <2>2
  <1>4. Played(r) /\ Continues(game, r)
    <2>1. CASE counts
      <3>1. pushed = PushTakebackState(game, h, game.state)
        BY <2>1
      <3> HIDE DEF pushed
      <3>2. counts # FALSE
        BY <2>1
      <3> QED
        BY <1>1, <3>1, <3>2, ActionPlayed
    <2>2. CASE ~counts
      <3>1. pushed = game
        BY <2>2
      <3> HIDE DEF pushed
      <3> QED
        BY <1>1, <2>2, <3>1, UncountedPlayed
    <2> QED
      BY <2>1, <2>2
  <1> HIDE DEF pushed
  <1>5. SoundSession(r)
    BY <1>3, MovedIsSound
  <1>6. r \in Sessions
    BY <1>5 DEF SoundSession, ReadySession
  <1> HIDE DEF r
  <1>7. SoundSession(game') /\ Played(game') /\ Continues(r, game') /\ fault' \in BOOLEAN
    BY <1>1, <1>2, <1>4, <1>5, RunAiPlays
  <1>8. game' \in Sessions
    BY <1>7 DEF SoundSession, ReadySession
  <1>9. Continues(game, game')
    BY <1>1, <1>4, <1>6, <1>7, <1>8, ContinuesTrans
  <1>10. TableTyped'
    BY <1>2, <1>7, TableTypedNow, Zenon DEF TableTyped
  <1>11. TakebackInv'
    BY <1>2, <1>7, <1>10, InvariantKept
  <1> QED
    BY <1>9, <1>11 DEF PlaysOn

LEMMA RequestKeeps ==
    ASSUME TakebackInv, NEW h \in Humans, NEW target \in Targets(h), RequestTakeback(h, target)
    PROVE  TakebackInv' /\ PlaysOn
  <1> DEFINE request == [by |-> h, target |-> target, approvals |-> {h}]
  <1>1. /\ pending = Nothing /\ Resolve(h, request, "Requested")
        /\ UNCHANGED <<hosting, connected, prompt, overtaken>>
    BY DEF RequestTakeback
  <1>2. target \in [state : States, keep : Nat]
    <2>1. GoodTarget(game, target)
      BY TargetsGood DEF TakebackInv
    <2>2. target.state \in States /\ target.keep \in Nat
      BY <2>1 DEF GoodTarget
    <2>3. target = [state |-> target.state, keep |-> target.keep]
      BY DEF Targets, LastActionTargets, TurnStartTargets
    <2> QED
      BY <2>2, <2>3
  <1>3. /\ request \in Requests /\ request.by = h /\ request.target = target
        /\ request.approvals = {h}
    BY <1>2 DEF Requests
  <1> HIDE DEF request
  <1>4. /\ SoundSession(game') /\ Played(game') /\ fault' \in BOOLEAN
        /\ outgoing' = [outgoing EXCEPT ![h] = "Resolved"]
             \/ outgoing' = [outgoing EXCEPT ![h] = "Requested"]
        /\ pending' = Nothing \/ (pending' = request /\ game' = game)
        /\ \/ Continues(game, game')
           \/ /\ Unanimous(request.approvals)
              /\ Continues(RolledBack(game, request.target), game')
    BY <1>1, <1>3, ResolvePlays
  <1>5. TableTyped'
    <2>1. outgoing' \in [Humans -> {Nothing, "Requested", "Resolved"}]
      BY <1>4, TableTypedNow DEF TableTyped
    <2> QED
      BY <1>1, <1>4, <2>1, TableTypedNow, Zenon DEF TableTyped
  <1>6. TakebackInv'
    BY <1>1, <1>3, <1>4, <1>5, InvariantKept
  <1>7. PlaysOn
    <2>1. CASE Continues(game, game')
      BY <2>1 DEF PlaysOn
    <2>2. CASE /\ Unanimous(request.approvals)
               /\ Continues(RolledBack(game, request.target), game')
      <3>1. Consented(h) /\ Asked(h) = h
        BY <1>1, <1>3, <2>2 DEF Consented, Asked, Unanimous
      <3> QED
        BY <1>3, <2>2, <3>1 DEF PlaysOn
    <2> QED
      BY <1>4, <2>1, <2>2
  <1> QED
    BY <1>6, <1>7

LEMMA ApproveKeeps ==
    ASSUME TakebackInv, NEW h \in Humans, Approve(h)
    PROVE  TakebackInv' /\ PlaysOn
  <1> DEFINE request == [pending EXCEPT !.approvals = @ \cup {h}]
  <1>1. /\ pending # Nothing /\ Resolve(h, request, Nothing)
        /\ UNCHANGED <<hosting, connected, prompt, overtaken>>
    BY DEF Approve
  <1>2. pending \in Requests /\ pending.by \in pending.approvals /\ pending.by \in Humans
    BY <1>1 DEF TakebackInv, TypeOK, Requests
  <1>3. /\ request \in Requests /\ request.by = pending.by /\ request.target = pending.target
        /\ request.approvals = pending.approvals \cup {h}
    BY <1>2 DEF Requests
  <1> HIDE DEF request
  <1>4. request.target \in Targets(request.by)
    BY <1>1, <1>2, <1>3 DEF TakebackInv, VoteTarget
  <1>5. /\ SoundSession(game') /\ Played(game') /\ fault' \in BOOLEAN
        /\ outgoing' = [outgoing EXCEPT ![h] = "Resolved"]
             \/ outgoing' = [outgoing EXCEPT ![h] = Nothing]
        /\ pending' = Nothing \/ (pending' = request /\ game' = game)
        /\ \/ Continues(game, game')
           \/ /\ Unanimous(request.approvals)
              /\ Continues(RolledBack(game, request.target), game')
    <2> DEFINE announce == Nothing
    <2>1. Resolve(h, request, announce)
      BY <1>1
    <2> HIDE DEF announce
    <2>2. /\ SoundSession(game') /\ Played(game') /\ fault' \in BOOLEAN
          /\ outgoing' = [outgoing EXCEPT ![h] = "Resolved"]
               \/ outgoing' = [outgoing EXCEPT ![h] = announce]
          /\ pending' = Nothing \/ (pending' = request /\ game' = game)
          /\ \/ Continues(game, game')
             \/ /\ Unanimous(request.approvals)
                /\ Continues(RolledBack(game, request.target), game')
      BY <1>3, <1>4, <2>1, ResolvePlays
    <2> QED
      BY <2>2 DEF announce
  <1>6. TableTyped'
    <2>1. outgoing' \in [Humans -> {Nothing, "Requested", "Resolved"}]
      BY <1>5, TableTypedNow DEF TableTyped
    <2> QED
      BY <1>1, <1>5, <2>1, TableTypedNow, Zenon DEF TableTyped
  <1>7. TakebackInv'
    BY <1>1, <1>2, <1>3, <1>4, <1>5, <1>6, InvariantKept
  <1>8. PlaysOn
    <2>1. CASE Continues(game, game')
      BY <2>1 DEF PlaysOn
    <2>2. CASE /\ Unanimous(request.approvals)
               /\ Continues(RolledBack(game, request.target), game')
      <3>1. Consented(h) /\ Asked(h) = request.by
        BY <1>1, <1>3, <2>2 DEF Consented, Asked, Unanimous
      <3> QED
        BY <1>4, <2>2, <3>1 DEF PlaysOn
    <2> QED
      BY <1>5, <2>1, <2>2
  <1> QED
    BY <1>7, <1>8

\* The steps that leave the session and the vote alone.
LEMMA IdleKeeps ==
    ASSUME TakebackInv, UNCHANGED <<game, hosting, pending>>, TableTyped'
    PROVE  TakebackInv' /\ PlaysOn
  <1>1. SoundSession(game') /\ Played(game') /\ Continues(game, game')
    BY ContinuesSelf DEF TakebackInv, TypeOK
  <1>2. pending' # Nothing => /\ pending' \in Requests /\ pending'.by \in pending'.approvals
                              /\ pending'.target \in Targets(pending'.by)
    BY DEF TakebackInv, TypeOK, VoteTarget, Requests
  <1>3. TakebackInv'
    BY <1>1, <1>2, InvariantKept
  <1> QED
    BY <1>1, <1>3 DEF PlaysOn

LEMMA WithdrawKeeps ==
    ASSUME TakebackInv, NEW h \in Humans, Withdraw(h)
    PROVE  TakebackInv' /\ PlaysOn
  <1>1. SoundSession(game') /\ Played(game') /\ Continues(game, game')
    BY ContinuesSelf DEF TakebackInv, TypeOK, Withdraw
  <1>2. TableTyped'
    <2>1. outgoing' \in [Humans -> {Nothing, "Requested", "Resolved"}]
      BY TableTypedNow DEF TableTyped, Withdraw
    <2> QED
      BY <2>1, TableTypedNow, Zenon DEF TableTyped, Withdraw
  <1>3. TakebackInv'
    BY <1>1, <1>2, InvariantKept DEF Withdraw
  <1> QED
    BY <1>1, <1>3 DEF PlaysOn

LEMMA BroadcastKeeps ==
    ASSUME TakebackInv, NEW h \in Humans, Broadcast(h)
    PROVE  TakebackInv' /\ PlaysOn
  <1>1. TableTyped'
    <2>1. outgoing' \in [Humans -> {Nothing, "Requested", "Resolved"}]
      BY TableTypedNow DEF TableTyped, Broadcast
    <2>2. prompt' \in [Humans -> BOOLEAN] /\ overtaken' \in BOOLEAN
      BY DEF Broadcast
    <2>3. UNCHANGED <<hosting, fault, connected>>
      BY DEF Broadcast
    <2> QED
      BY <2>1, <2>2, <2>3, TableTypedNow, Zenon DEF TableTyped
  <1> QED
    BY <1>1, IdleKeeps DEF Broadcast

LEMMA DisconnectKeeps ==
    ASSUME TakebackInv, NEW h \in Humans, Disconnect(h)
    PROVE  TakebackInv' /\ PlaysOn
  <1>1. TableTyped'
    <2>1. prompt' \in [Humans -> BOOLEAN]
      BY TableTypedNow DEF TableTyped, Disconnect
    <2>2. connected' \subseteq Humans
      BY TableTypedNow DEF TableTyped, Disconnect
    <2>3. UNCHANGED <<hosting, fault, outgoing, overtaken>>
      BY DEF Disconnect
    <2> QED
      BY <2>1, <2>2, <2>3, TableTypedNow, Zenon DEF TableTyped
  <1> QED
    BY <1>1, IdleKeeps DEF Disconnect

LEMMA ReconnectKeeps ==
    ASSUME TakebackInv, NEW h \in Humans, Reconnect(h)
    PROVE  TakebackInv' /\ PlaysOn
  <1>1. SoundSession(game) /\ Played(game) /\ fault \in BOOLEAN
    BY DEF TakebackInv, TypeOK
  <1>2. RunAi(game, pending) /\ UNCHANGED <<hosting, pending, outgoing, overtaken>>
    BY DEF Reconnect
  <1>3. /\ SoundSession(game') /\ Played(game') /\ Continues(game, game') /\ fault' \in BOOLEAN
        /\ AiHolds(fault, pending) => game' = game
    <2>1. CASE AiHolds(fault, pending)
      <3>1. game' = game /\ fault' = fault
        BY <1>2, <2>1 DEF RunAi
      <3> QED
        BY <1>1, <3>1, ContinuesSelf DEF TakebackInv, TypeOK
    <2>2. CASE ~AiHolds(fault, pending)
      <3>1. game' \in AiBatches(game) /\ fault' \in BOOLEAN
        BY <1>2, <2>2 DEF RunAi
      <3> QED
        BY <1>1, <2>2, <3>1, BatchPlayed
    <2> QED
      BY <2>1, <2>2
  <1>4. TableTyped'
    <2>1. prompt' \in [Humans -> BOOLEAN]
      <3>1. PromptOnReconnect \in BOOLEAN
        BY DEF PromptOnReconnect
      <3>2. prompt' = [prompt EXCEPT ![h] = PromptOnReconnect]
        BY DEF Reconnect
      <3> QED
        BY <3>1, <3>2, TableTypedNow DEF TableTyped
    <2>2. connected' \subseteq Humans
      BY TableTypedNow DEF TableTyped, Reconnect
    <2> QED
      BY <1>2, <1>3, <2>1, <2>2, TableTypedNow, Zenon DEF TableTyped
  <1>5. pending' # Nothing =>
          /\ pending' \in Requests /\ pending'.by \in pending'.approvals
          /\ game' = game /\ pending'.target \in Targets(pending'.by)
    <2> SUFFICES ASSUME pending' # Nothing
                 PROVE  /\ pending' \in Requests /\ pending'.by \in pending'.approvals
                        /\ game' = game /\ pending'.target \in Targets(pending'.by)
      OBVIOUS
    <2>1. game' = game
      BY <1>2, <1>3 DEF AiHolds
    <2>2. pending \in Requests /\ pending.by \in pending.approvals /\ pending.by \in Humans
      BY <1>2 DEF TakebackInv, TypeOK, Requests
    <2>3. pending.target \in Targets(pending.by)
      BY <1>2, <2>2 DEF TakebackInv, VoteTarget
    <2> QED
      BY <1>2, <2>1, <2>2, <2>3
  <1>6. TakebackInv'
    BY <1>2, <1>3, <1>4, <1>5, InvariantKept
  <1> QED
    BY <1>3, <1>6 DEF PlaysOn

LEMMA RestartKeeps ==
    ASSUME TakebackInv, Restart
    PROVE  TakebackInv' /\ PlaysOn
  <1> DEFINE g == [game EXCEPT !.history = <<>>, !.turns = <<>>, !.rewindGame = game.state.game]
  <1>1. game \in Sessions /\ Played(game) /\ game.state.game \in Nat
    BY SessionTyped, StateTyped DEF TakebackInv, TypeOK
  <1>2. Len(<<>>) = 0 /\ <<>> \in Seq(Entries) /\ <<>> \in Seq(States)
    BY EmptySeq
  <1>3. game' = g
    BY DEF Restart
  <1>4. /\ g \in Sessions /\ g.state = game.state /\ g.history = <<>> /\ g.turns = <<>>
        /\ g.rewindGame = game.state.game /\ g.made = game.made
    BY <1>1, <1>2 DEF Sessions, Entries
  <1> HIDE DEF g
  <1>5. Len(g.history) = 0 /\ Len(g.turns) = 0
    BY <1>2, <1>4
  <1>6. SoundSession(g)
    BY <1>4, <1>5, TableAssumption DEF SoundSession, ReadySession, RingsOrdered, TableAssumption
  <1>7. Played(g)
    BY <1>1, <1>4, <1>5 DEF Played, Attributed
  <1>8. Continues(game, g)
    BY <1>1, <1>4, ContinuesSelf DEF Continues
  <1>9. TableTyped'
    <2>1. outgoing' \in [Humans -> {Nothing, "Requested", "Resolved"}]
      BY DEF Restart
    <2>2. prompt' \in [Humans -> BOOLEAN] /\ overtaken' \in BOOLEAN
      BY DEF Restart
    <2>3. UNCHANGED <<hosting, fault>> /\ connected' \subseteq Humans
      BY DEF Restart
    <2> QED
      BY <2>1, <2>2, <2>3, TableTypedNow, Zenon DEF TableTyped
  <1>10. TakebackInv'
    BY <1>3, <1>6, <1>7, <1>9, InvariantKept DEF Restart
  <1> QED
    BY <1>3, <1>8, <1>10 DEF PlaysOn

LEMMA TakebackStep ==
    ASSUME TakebackInv, [Next]_vars
    PROVE  TakebackInv' /\ PlaysOn
  <1>1. CASE UNCHANGED vars
    <2>1. TableTyped'
      BY <1>1, TableTypedNow, Zenon DEF TableTyped, vars
    <2> QED
      BY <1>1, <2>1, IdleKeeps DEF vars
  <1>2. CASE Next
    BY <1>2, HandleActionKeeps, RequestKeeps, ApproveKeeps, WithdrawKeeps, BroadcastKeeps,
       DisconnectKeeps, ReconnectKeeps, RestartKeeps DEF Next
  <1> QED
    BY <1>1, <1>2

-----------------------------------------------------------------------------
(* The theorems.                                                           *)

LEMMA TakebackInvariant == Spec => []TakebackInv
  <1>1. TakebackInv /\ [Next]_vars => TakebackInv'
    BY TakebackStep
  <1> QED
    BY <1>1, TakebackInit, PTL DEF Spec

LEMMA RollbackSoundThen == TakebackInv => RollbackSound
  <1> SUFFICES ASSUME TakebackInv
               PROVE  RollbackSound
    OBVIOUS
  <1> DEFINE H == game.history
             T == game.turns
  <1>1. /\ game \in Sessions /\ RingsOrdered(H, T)
        /\ \A i \in 1 .. Len(H) : Older(H[i].state, game.state)
        /\ \A i \in 1 .. Len(T) : Earlier(T[i], game.state)
    BY DEF TakebackInv, SoundSession, ReadySession
  <1>2. /\ game.state \in States
        /\ DOMAIN H = 1 .. Len(H) /\ \A i \in 1 .. Len(H) : H[i].state \in States
        /\ DOMAIN T = 1 .. Len(T) /\ \A i \in 1 .. Len(T) : T[i] \in States
    BY <1>1, SessionTyped
  <1>3. \A s \in States : Earlier(s, game.state) => s.game = game.state.game /\ Ancestor(s, game.state)
    BY <1>2, AncestorSelf DEF Earlier, Older
  <1>4. RingsAreAncestors
    <2>1. ASSUME NEW i \in DOMAIN H
          PROVE  /\ H[i].state.game = game.state.game
                 /\ Ancestor(H[i].state, game.state)
                 /\ \A j \in 1 .. i - 1 : Ancestor(H[j].state, H[i].state)
      <3>1. Older(H[i].state, game.state) /\ \A j \in 1 .. i - 1 : Older(H[j].state, H[i].state)
        BY <1>1, <1>2, Zenon DEF RingsOrdered
      <3> QED
        BY <3>1, Zenon DEF Older
    <2>2. ASSUME NEW i \in DOMAIN T
          PROVE  /\ T[i].game = game.state.game
                 /\ Ancestor(T[i], game.state)
                 /\ \A j \in 1 .. i - 1 : T[j].turn < T[i].turn
      <3>1. \A j \in 1 .. i - 1 : T[j].turn < T[i].turn
        BY <1>1, <1>2, Zenon DEF RingsOrdered
      <3> QED
        BY <1>1, <1>2, <1>3, <3>1
    <2> QED
      BY <2>1, <2>2, Zenon DEF RingsAreAncestors
  <1>5. VoteIsCurrent
    <2> SUFFICES ASSUME pending # Nothing
                 PROVE  /\ Ancestor(pending.target.state, game.state)
                        /\ pending.target.keep <= Len(H)
                        /\ \A i \in DOMAIN H :
                             i <= pending.target.keep
                               <=> /\ Ancestor(H[i].state, pending.target.state)
                                   /\ H[i].state # pending.target.state
      BY DEF VoteIsCurrent
    <2> DEFINE t == pending.target
               s == t.state
    <2>1. pending \in Requests /\ pending.by \in Humans
      BY DEF TakebackInv, TypeOK, Requests
    <2>2. t \in Targets(pending.by)
      BY <2>1 DEF TakebackInv, VoteTarget
    <2>3. GoodTarget(game, t)
      BY <2>1, <2>2, TargetsGood DEF TakebackInv
    <2>4. /\ s \in States /\ Earlier(s, game.state) /\ t.keep <= Len(H)
          /\ \A i \in 1 .. Len(H) : IF i <= t.keep THEN Older(H[i].state, s)
                                    ELSE Earlier(s, H[i].state)
      BY <2>3 DEF GoodTarget
    <2>5. ASSUME NEW a \in States, Older(a, s)
          PROVE  Ancestor(a, s) /\ a # s
      BY <2>4, <2>5, StateTyped DEF Older
    <2>6. ASSUME NEW a \in States, Earlier(s, a)
          PROVE  ~(Ancestor(a, s) /\ a # s)
      <3>1. CASE s = a
        BY <3>1
      <3>2. CASE Older(s, a)
        <4>1. Len(s.path) < Len(a.path) /\ Len(s.path) \in Nat /\ Len(a.path) \in Nat
          BY <2>4, <3>2, StateTyped DEF Older
        <4>2. Ancestor(a, s) => Len(a.path) <= Len(s.path)
          BY <2>4, AncestorIs
        <4> QED
          BY <4>1, <4>2
      <3> QED
        BY <2>6, <3>1, <3>2 DEF Earlier
    <2> HIDE DEF s, t, H
    <2>7. \A i \in DOMAIN H : i <= t.keep <=> Ancestor(H[i].state, s) /\ H[i].state # s
      BY <1>2, <2>4, <2>5, <2>6
    <2> QED
      BY <1>3, <2>4, <2>7 DEF s, t
  <1> QED
    BY <1>4, <1>5 DEF RollbackSound, TakebackInv

\* takeback.rs: for any table and any bounds, every snapshot of both rings is
\* an ancestor of the live state in its game, and a vote stays on a target that
\* is one, with the part of the history that leads to it.
THEOREM RollbackAlwaysSound == Spec => []RollbackSound
  BY TakebackInvariant, RollbackSoundThen, PTL

LEMMA ShownStep ==
    ASSUME TakebackInv, VoteIsShown, [Next]_vars
    PROVE  VoteIsShown'
  <1> DEFINE Quiet == \A h \in Humans : outgoing[h] = Nothing
  <1>0. /\ outgoing \in [Humans -> {Nothing, "Requested", "Resolved"}]
        /\ prompt \in [Humans -> BOOLEAN] /\ connected \subseteq Humans
        /\ Nothing # "Requested" /\ Nothing # "Resolved"
    BY TableTypedNow, NothingAssumption DEF TableTyped, NothingAssumption
  <1>1. ASSUME NEW h \in Humans,
               \/ outgoing' = [outgoing EXCEPT ![h] = "Resolved"]
               \/ outgoing' = [outgoing EXCEPT ![h] = "Requested"]
        PROVE  VoteIsShown'
    <2>1. outgoing'[h] # Nothing
      BY <1>0, <1>1
    <2> QED
      BY <2>1 DEF VoteIsShown
  <1>2. ASSUME (pending' # Nothing) = (pending # Nothing),
               UNCHANGED <<connected, outgoing, prompt, overtaken>>
        PROVE  VoteIsShown'
    BY <1>2 DEF VoteIsShown
  <1>3. CASE UNCHANGED vars
    BY <1>2, <1>3 DEF vars
  <1>4. ASSUME NEW h \in Humans, NEW counts \in BOOLEAN, NEW move \in Moves,
               HandleAction(h, counts, move)
        PROVE  VoteIsShown'
    BY <1>2, <1>4 DEF HandleAction
  <1>5. ASSUME NEW h \in Humans, NEW target \in Targets(h), RequestTakeback(h, target)
        PROVE  VoteIsShown'
    BY <1>1, <1>5 DEF RequestTakeback, Resolve
  <1>6. ASSUME NEW h \in Humans, Approve(h)
        PROVE  VoteIsShown'
    <2> DEFINE request == [pending EXCEPT !.approvals = @ \cup {h}]
    <2>1. /\ Ready(h) /\ pending # Nothing /\ Resolve(h, request, Nothing)
          /\ UNCHANGED <<hosting, connected, prompt, overtaken>>
      BY <1>6 DEF Approve
    <2>2. request \in Requests
      BY <2>1 DEF TakebackInv, TypeOK, Requests
    <2>3. request # Nothing
      BY <2>2, NothingAssumption DEF NothingAssumption
    <2> HIDE DEF request
    <2>4. CASE Unanimous(request.approvals)
      BY <1>1, <2>1, <2>4 DEF Resolve
    <2>5. CASE ~Unanimous(request.approvals)
      <3>1. pending' = request /\ outgoing' = [outgoing EXCEPT ![h] = Nothing]
        BY <2>1, <2>5 DEF Resolve
      <3>2. outgoing' = outgoing
        BY <1>0, <2>1, <3>1 DEF Ready
      <3> QED
        BY <1>2, <2>1, <2>3, <3>1, <3>2
    <2> QED
      BY <2>4, <2>5
  <1>7. ASSUME NEW h \in Humans, Withdraw(h)
        PROVE  VoteIsShown'
    BY <1>1, <1>7 DEF Withdraw
  <1>8. ASSUME NEW h \in Humans, Broadcast(h)
        PROVE  VoteIsShown'
    <2>1. /\ prompt' = [g \in Humans |-> g \in connected /\ outgoing[h] = "Requested"]
          /\ overtaken' = ((outgoing[h] = "Requested") # (pending # Nothing))
          /\ pending' = pending /\ connected' = connected
      BY <1>8 DEF Broadcast
    <2>2. ASSUME ~overtaken', NEW g \in connected
          PROVE  prompt'[g] <=> pending' # Nothing
      BY <1>0, <2>1, <2>2
    <2> QED
      BY <2>1, <2>2 DEF VoteIsShown
  <1>9. ASSUME NEW h \in Humans, Disconnect(h)
        PROVE  VoteIsShown'
    <2>1. \A g \in connected' : g \in connected /\ prompt'[g] = prompt[g]
      BY <1>0, <1>9 DEF Disconnect
    <2> QED
      BY <1>9, <2>1 DEF VoteIsShown, Disconnect
  <1>10. ASSUME NEW h \in Humans, Reconnect(h)
         PROVE  VoteIsShown'
    <2>1. \A g \in connected' : IF g = h THEN prompt'[g] = (pending # Nothing)
                                ELSE g \in connected /\ prompt'[g] = prompt[g]
      BY <1>0, <1>10 DEF Reconnect, PromptOnReconnect
    <2>2. UNCHANGED <<pending, outgoing, overtaken>>
      BY <1>10 DEF Reconnect
    <2> QED
      BY <2>1, <2>2 DEF VoteIsShown
  <1>11. CASE Restart
    BY <1>11 DEF Restart, VoteIsShown
  <1> QED
    BY <1>3, <1>4, <1>5, <1>6, <1>7, <1>8, <1>9, <1>10, <1>11 DEF Next

\* Once the broadcasts are out and none was overtaken, every connected socket
\* shows the vote exactly while the table votes, for any number of sockets that
\* come and go: the Reconnect arm replays the vote to each.
THEOREM VoteAlwaysShown == Spec => []VoteIsShown
  <1>1. Init => VoteIsShown
    BY DEF Init, VoteIsShown
  <1>2. TakebackInv /\ VoteIsShown /\ [Next]_vars => VoteIsShown'
    BY ShownStep
  <1> QED
    BY <1>1, <1>2, TakebackInvariant, PTL DEF Spec

\* The common part of what was played before and after a step.
LEMMA KeptIs ==
    ASSUME game \in Sessions, game' \in Sessions, NEW m \in Nat,
           m <= Len(game.state.path), m <= Len(game'.state.path),
           \A p \in 1 .. m : game.state.path[p] = game'.state.path[p],
           \/ m = Len(game.state.path) \/ m = Len(game'.state.path)
           \/ game.state.path[m + 1] # game'.state.path[m + 1]
    PROVE  Kept = m
  <1> DEFINE P == game.state.path
             Q == game'.state.path
             common == {n \in 0 .. Len(P) : n <= Len(Q) /\ SubSeq(P, 1, n) = SubSeq(Q, 1, n)}
  <1>1. /\ P \in Seq(Transitions) /\ Q \in Seq(Transitions) /\ Len(P) \in Nat /\ Len(Q) \in Nat
    BY PathTyped
  <1>2. Kept = CHOOSE n \in common : \A k \in common : k <= n
    BY DEF Kept
  <1> HIDE DEF P, Q
  <1>3. /\ m <= Len(P) /\ m <= Len(Q) /\ \A p \in 1 .. m : P[p] = Q[p]
        /\ m = Len(P) \/ m = Len(Q) \/ P[m + 1] # Q[m + 1]
    BY DEF P, Q
  <1>4. m \in common
    BY <1>1, <1>3, SamePrefix
  <1>5. ASSUME NEW k \in common
        PROVE  k <= m
    <2>1. CASE k > m
      <3>1. k \in Nat /\ k <= Len(P) /\ k <= Len(Q) /\ SubSeq(P, 1, k) = SubSeq(Q, 1, k)
        BY <1>1
      <3>2. m + 1 \in 1 .. k
        BY <2>1, <3>1
      <3>3. P[m + 1] = Q[m + 1]
        BY <1>1, <3>1, <3>2, SamePrefix
      <3> QED
        BY <1>1, <1>3, <2>1, <3>1, <3>3
    <2> QED
      BY <1>1, <2>1
  <1>6. common \subseteq Nat
    BY <1>1
  <1> HIDE DEF common
  <1>7. \A n \in common : (\A k \in common : k <= n) => n = m
    BY <1>4, <1>5, <1>6
  <1> QED
    BY <1>2, <1>4, <1>5, <1>7

\* Where the play was rolled back to.
LEMMA KeptByRollback ==
    ASSUME TakebackInv, game' \in Sessions, NEW t, GoodTarget(game, t),
           Continues(RolledBack(game, t), game')
    PROVE  /\ Kept = Len(t.state.path) /\ Len(t.state.path) \in Nat
           /\ Len(t.state.path) <= Len(game.state.path)
           /\ \A p \in 1 .. Len(t.state.path) : t.state.path[p] = game.state.path[p]
  <1> DEFINE r == RolledBack(game, t)
             P == game.state.path
             N == game'.state.path
             Q == t.state.path
             m == Len(Q)
  <1>1. SoundSession(game) /\ Played(game) /\ game \in Sessions
    BY DEF TakebackInv, TypeOK
  <1>2. r.state = t.state /\ r.made = game.made
    BY <1>1, RolledBackSound
  <1>3. m <= Len(P) /\ \A p \in 1 .. m : Q[p] = P[p]
    <2>1. /\ Len(r.state.path) <= Len(game.state.path)
          /\ \A p \in 1 .. Len(r.state.path) : r.state.path[p] = game.state.path[p]
      BY <1>1, RolledBackPlayed
    <2> HIDE DEF r
    <2> QED
      BY <1>2, <2>1
  <1>4. /\ m <= Len(N) /\ \A p \in 1 .. m : N[p] = Q[p]
        /\ \A p \in m + 1 .. Len(N) : game.made <= N[p].id
    <2>1. Continues(r, game')
      OBVIOUS
    <2> HIDE DEF r
    <2> QED
      BY <1>2, <2>1 DEF Continues
  <1>5. /\ m \in Nat /\ Len(P) \in Nat /\ Len(N) \in Nat /\ game.made \in Nat
        /\ \A p \in 1 .. Len(P) : P[p].id \in Nat
        /\ \A p \in 1 .. Len(N) : N[p].id \in Nat
    BY <1>1, PathTyped, StateTyped DEF GoodTarget
  <1>6. \A p \in 1 .. Len(P) : P[p].id < game.made
    BY <1>1 DEF Played
  <1> HIDE DEF r, P, N, Q
  <1>7. m = Len(P) \/ m = Len(N) \/ P[m + 1] # N[m + 1]
    <2>1. CASE m < Len(P) /\ m < Len(N)
      <3>1. m + 1 \in 1 .. Len(P) /\ m + 1 \in m + 1 .. Len(N) /\ m + 1 \in 1 .. Len(N)
        BY <1>5, <2>1
      <3>2. P[m + 1].id < game.made /\ game.made <= N[m + 1].id
        BY <1>4, <1>6, <3>1
      <3> QED
        BY <1>5, <3>1, <3>2
    <2> QED
      BY <1>3, <1>4, <1>5, <2>1
  <1>8. \A p \in 1 .. m : P[p] = N[p]
    BY <1>3, <1>4
  <1> HIDE DEF m
  <1>9. Kept = m
    BY <1>1, <1>3, <1>4, <1>5, <1>7, <1>8, KeptIs DEF P, N
  <1> QED
    BY <1>3, <1>5, <1>9 DEF m, P, Q

LEMMA ConsentStep ==
    ASSUME TakebackInv, [Next]_vars
    PROVE  TakenBackByConsent
  <1> DEFINE P == game.state.path
             H == game.history
  <1>1. TakebackInv' /\ PlaysOn
    BY TakebackStep
  <1>2. SoundSession(game) /\ Played(game) /\ game \in Sessions /\ game' \in Sessions
    BY <1>1 DEF TakebackInv, TypeOK
  <1>3. P \in Seq(Transitions) /\ Len(P) \in Nat
    BY <1>2, PathTyped
  <1>4. CASE Continues(game, game')
    <2> DEFINE m == Len(P)
    <2>1. /\ m \in Nat /\ m <= Len(game.state.path) /\ m <= Len(game'.state.path)
          /\ \A p \in 1 .. m : game.state.path[p] = game'.state.path[p] /\ m = Len(game.state.path)
          /\ m = Len(game.state.path)
      BY <1>3, <1>4 DEF Continues
    <2> HIDE DEF m
    <2>2. Kept = m
      BY <1>2, <2>1, KeptIs
    <2> QED
      BY <1>3, <2>1, <2>2 DEF TakenBackByConsent
  <1>5. ASSUME NEW h \in Humans, Consented(h), NEW t \in Targets(Asked(h)),
               Continues(RolledBack(game, t), game'), Kept < Len(P)
        PROVE  \/ UndoesLatestOf(Asked(h))
               \/ \E i \in DOMAIN game.turns : game.turns[i].path = SubSeq(P, 1, Kept)
    <2> DEFINE by == Asked(h)
               m == Len(t.state.path)
    <2>0. by \in Humans
      BY DEF Asked, TakebackInv, TypeOK, Requests
    <2> HIDE DEF by
    <2>1. t \in Targets(by)
      BY DEF by
    <2>2. GoodTarget(game, t)
      BY <1>2, <2>0, <2>1, TargetsGood
    <2>3. Kept = m /\ m \in Nat /\ m <= Len(P) /\ \A p \in 1 .. m : t.state.path[p] = P[p]
      BY <1>2, <1>5, <2>2, KeptByRollback
    <2>4. CASE t \in TurnStartTargets
      <3>1. PICK i \in DOMAIN game.turns : t.state = game.turns[i]
        BY <2>4 DEF TurnStartTargets
      <3>2. t.state.path \in Seq(Transitions)
        BY <2>2, StateTyped DEF GoodTarget, Transitions
      <3>3. SubSeq(t.state.path, 1, m) = SubSeq(P, 1, m)
        <4> DEFINE Q == t.state.path
        <4>1. Q \in Seq(Transitions) /\ m <= Len(Q) /\ \A p \in 1 .. m : Q[p] = P[p]
          BY <2>3, <3>2
        <4> HIDE DEF Q, P, m
        <4>2. SubSeq(Q, 1, m) = SubSeq(P, 1, m)
          BY <1>3, <2>3, <4>1, SamePrefix
        <4> QED
          BY <4>2 DEF Q
      <3>4. SubSeq(t.state.path, 1, m) = t.state.path
        BY <3>2, SubSeqFull
      <3> QED
        BY <2>3, <3>1, <3>3, <3>4
    <2>5. CASE t \in LastActionTargets(by)
      <3>1. PICK i \in DOMAIN H : /\ t.state = H[i].state /\ H[i].by = by
                                 /\ \A k \in DOMAIN H : H[k].by = by => k <= i
        BY <2>5 DEF LastActionTargets, OwnEntries
      <3>2. /\ DOMAIN H = 1 .. Len(H) /\ Len(H) \in Nat
            /\ \A k \in 1 .. Len(H) : Place(H[k]) \in Nat
        BY <1>2, SessionTyped, PathTyped
      <3>3. Place(H[i]) = m + 1
        BY <3>1 DEF Place
      <3>4. Attributed(H, P) /\ Within(H, Len(P))
        BY <1>2, EntriesWithin DEF Played
      <3> DEFINE D == SubSeq(P, m + 1, Len(P))
      <3> HIDE DEF P, H, m
      <3>5. Discarded = D
        BY <2>3 DEF Discarded, P
      <3>6. Len(D) = Len(P) - m /\ \A q \in 1 .. Len(D) : D[q] = P[m + q] /\ m + q \in 1 .. Len(P)
        <4> DEFINE a == m + 1
                   b == Len(P)
        <4>1. a \in Int /\ b \in Int /\ a <= b /\ b - a + 1 = b - m
          BY <1>3, <1>5, <2>3
        <4>2. \A q \in a .. b : P[q] \in Transitions
          <5>1. \A q \in a .. b : q \in 1 .. Len(P)
            BY <1>3, <2>3
          <5> QED
            BY <1>3, <5>1, ElementOfSeq
        <4>3. D = SubSeq(P, a, b)
          OBVIOUS
        <4>4. \A q \in Int : a + q - 1 = m + q
          BY <2>3
        <4> HIDE DEF a, b, D
        <4>5. /\ Len(SubSeq(P, a, b)) = IF a <= b THEN b - a + 1 ELSE 0
              /\ \A q \in 1 .. b - a + 1 : SubSeq(P, a, b)[q] = P[a + q - 1]
          BY <4>1, <4>2, SubSeqProperties
        <4>6. Len(D) = b - m /\ \A q \in 1 .. b - m : D[q] = P[a + q - 1]
          BY <4>1, <4>3, <4>5
        <4>7. ASSUME NEW q \in 1 .. b - m
              PROVE  D[q] = P[m + q]
          <5>1. q \in Int
            OBVIOUS
          <5>2. a + q - 1 = m + q
            BY <4>4, <5>1
          <5>3. D[q] = P[a + q - 1]
            BY <4>6
          <5> QED
            BY <5>2, <5>3
        <4>8. \A q \in 1 .. b - m : m + q \in 1 .. b
          BY <1>3, <2>3 DEF b
        <4> QED
          BY <4>6, <4>7, <4>8 DEF b
      <3> HIDE DEF D
      <3>7. 1 \in 1 .. Len(D)
        BY <1>3, <1>5, <2>3, <3>6
      <3>8. D[1].by = by /\ D[1].counts
        <4>1. P[m + 1].by = H[i].by /\ P[m + 1].counts
          BY <3>2, <3>3, <3>4 DEF Attributed
        <4> QED
          BY <3>1, <3>6, <3>7, <4>1
      <3>9. ASSUME NEW q \in 2 .. Len(D), D[q].by = by, D[q].counts
            PROVE  FALSE
        <4>1. q \in 1 .. Len(D) /\ q \in Nat /\ q >= 2
          BY <1>3, <2>3, <3>6
        <4> DEFINE p == m + q
        <4>2. p \in 1 .. Len(P) /\ P[p].by = by /\ P[p].counts
          BY <3>6, <3>9, <4>1
        <4>3. p > m + 1
          BY <2>3, <4>1
        <4> HIDE DEF p
        <4>4. ~(p < Place(H[i]))
          BY <1>3, <2>3, <3>3, <4>2, <4>3
        <4>5. PICK j \in 1 .. Len(H) : Place(H[j]) = p
          BY <3>2, <3>4, <4>2, <4>4 DEF Attributed
        <4>6. H[j].by = by
          <5>1. P[Place(H[j])].by = H[j].by
            BY <3>4, <4>5, Zenon DEF Attributed
          <5> QED
            BY <4>2, <4>5, <5>1
        <4>7. j <= i
          BY <3>1, <3>2, <4>6
        <4>8. CASE j = i
          BY <2>3, <3>3, <4>3, <4>5, <4>8
        <4>9. CASE j < i
          <5>1. j \in 1 .. i - 1
            BY <3>2, <4>9
          <5>2. Place(H[j]) < Place(H[i]) /\ Place(H[j]) \in Nat
            BY <3>2, <3>4, <5>1 DEF Within
          <5> QED
            BY <1>3, <2>3, <3>3, <4>2, <4>3, <4>5, <5>2
        <4> QED
          BY <3>2, <4>7, <4>8, <4>9
      <3>10. UndoesLatestOf(by)
        BY <3>5, <3>8, <3>9 DEF UndoesLatestOf
      <3> QED
        BY <3>10 DEF by
    <2> QED
      BY <2>1, <2>4, <2>5 DEF Targets
  <1>6. CASE \E h \in Humans : /\ Consented(h)
                               /\ \E t \in Targets(Asked(h)) : Continues(RolledBack(game, t), game')
    BY <1>5, <1>6 DEF TakenBackByConsent
  <1> QED
    BY <1>1, <1>4, <1>6 DEF PlaysOn

\* Play is discarded only with the approval of every human player of the table,
\* and exactly back to before the requester's latest recorded action or to the
\* start of a turn on offer, whatever the AI has done since.
THEOREM ConsentRequired == Spec => OnlyByConsent
  <1>1. TakebackInv /\ [Next]_vars => [TakenBackByConsent]_vars
    BY ConsentStep
  <1> QED
    BY <1>1, TakebackInvariant, PTL DEF Spec, OnlyByConsent
=============================================================================
