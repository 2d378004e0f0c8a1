--------------------------- MODULE GameRoomProofs --------------------------
(***************************************************************************)
(* A game room with any number of seats, sockets, tokens and restarts: a   *)
(* reservation takes a seat from nobody, nobody is missing unnoticed and a *)
(* late close hurts nobody.                                                *)
(***************************************************************************)
EXTENDS GameRoom, SequenceTheorems, TLAPS

SeatRecords == [kind : {"human", "ai"}, token : 0 .. MaxTokens, connected : BOOLEAN]

\* A seat's token is its own: it was issued, and no two seats share one.
TokensInv ==
    /\ seats \in Seq(SeatRecords)
    /\ \A i \in DOMAIN seats : seats[i].token <= issued
    /\ \A i, j \in DOMAIN seats : Taken(i) /\ seats[i].token = seats[j].token => i = j

\* A socket between its join and its attachment speaks for no seat yet.
JoiningInv == \A x \in Sockets : joining[x] # 0 => identity[x] = None

\* The inductive invariant.
RoomInv == ReservationsFit /\ TokensInv /\ JoiningInv /\ AbsenceIsTimed

---------------------------------------------------------------------------
(* The numbers of the assumption, without its record set. *)

LEMMA Bounds ==
    /\ MaxSeats \in Nat /\ MinPlayers \in 1 .. MaxSeats
    /\ MaxTokens \in Nat \ {0} /\ MaxBoots \in Nat
    /\ None \notin Sockets /\ Sockets # {}
  BY RoomAssumption DEF RoomAssumption

---------------------------------------------------------------------------
(* Seats as a sequence.                                                    *)

LEMMA SeatsDomain ==
    ASSUME RoomInv
    PROVE  /\ Len(seats) \in Nat /\ DOMAIN seats = 1 .. Len(seats)
           /\ DOMAIN seats \subseteq SeatNumbers
           /\ \A i \in DOMAIN seats : seats[i] \in SeatRecords
  <1>1. seats \in Seq(SeatRecords) /\ Len(seats) \in MinPlayers .. MaxSeats
    BY DEF RoomInv, TokensInv, ReservationsFit, TypeOK
  <1>2. /\ Len(seats) \in Nat /\ DOMAIN seats = 1 .. Len(seats)
        /\ \A i \in DOMAIN seats : seats[i] \in SeatRecords
    BY <1>1, LenProperties
  <1> QED
    BY <1>1, <1>2, Bounds DEF SeatNumbers

\* A table that replaces the record of seat i.
LEMMA Replaced ==
    ASSUME NEW table \in Seq(SeatRecords), NEW i \in DOMAIN table, NEW r \in SeatRecords
    PROVE  /\ [table EXCEPT ![i] = r] \in Seq(SeatRecords)
           /\ Len([table EXCEPT ![i] = r]) = Len(table)
           /\ DOMAIN [table EXCEPT ![i] = r] = DOMAIN table
           /\ [table EXCEPT ![i] = r][i] = r
           /\ \A j \in DOMAIN table : j # i => [table EXCEPT ![i] = r][j] = table[j]
  <1>1. i \in 1 .. Len(table) /\ table \in [1 .. Len(table) -> SeatRecords]
    BY LenProperties
  <1>2. [table EXCEPT ![i] = r] \in Seq(SeatRecords) /\ Len([table EXCEPT ![i] = r]) = Len(table)
    BY <1>1, ExceptSeq
  <1> QED
    BY <1>1, <1>2

\* The record that a token's owner writes over a seat's.
LEMMA SeatGiven ==
    ASSUME NEW s \in SeatRecords, NEW token \in 0 .. MaxTokens, NEW connected \in BOOLEAN
    PROVE  [s EXCEPT !.token = token, !.connected = connected] \in SeatRecords
  BY DEF SeatRecords

\* RemoveAt closes the gap.
LEMMA Shortened ==
    ASSUME NEW table \in Seq(SeatRecords), NEW i \in DOMAIN table
    PROVE  /\ RemoveAt(table, i) \in Seq(SeatRecords)
           /\ Len(RemoveAt(table, i)) = Len(table) - 1
           /\ DOMAIN RemoveAt(table, i) = 1 .. Len(table) - 1
           /\ \A j \in 1 .. Len(table) - 1 :
                RemoveAt(table, i)[j] = IF j < i THEN table[j] ELSE table[j + 1]
  <1> DEFINE front == SubSeq(table, 1, i - 1)
             back == SubSeq(table, i + 1, Len(table))
  <1>1. /\ Len(table) \in Nat /\ i \in 1 .. Len(table)
        /\ \A j \in 1 .. Len(table) : table[j] \in SeatRecords
    BY LenProperties
  <1>2. /\ front \in Seq(SeatRecords) /\ Len(front) = i - 1
        /\ \A j \in 1 .. i - 1 : front[j] = table[j]
    BY <1>1, SubSeqProperties
  <1>3. /\ back \in Seq(SeatRecords) /\ Len(back) = Len(table) - i
        /\ \A j \in 1 .. Len(table) - i : back[j] = table[j + i]
    BY <1>1, SubSeqProperties
  <1> HIDE DEF front, back
  <1>4. RemoveAt(table, i) = front \o back
    BY DEF RemoveAt, front, back
  <1>5. /\ front \o back \in Seq(SeatRecords)
        /\ Len(front \o back) = Len(table) - 1
        /\ \A j \in 1 .. Len(table) - 1 :
              (front \o back)[j] = IF j <= i - 1 THEN front[j] ELSE back[j - (i - 1)]
    <2>1. Len(front) + Len(back) = Len(table) - 1
      BY <1>1, <1>2, <1>3
    <2>2. /\ front \o back \in Seq(SeatRecords) /\ Len(front \o back) = Len(front) + Len(back)
          /\ \A j \in 1 .. Len(front) + Len(back) :
               (front \o back)[j] = IF j <= Len(front) THEN front[j] ELSE back[j - Len(front)]
      BY <1>2, <1>3, ConcatProperties
    <2> QED
      BY <1>2, <2>1, <2>2
  <1>6. DOMAIN (front \o back) = 1 .. Len(table) - 1
    BY <1>5, LenProperties
  <1>7. ASSUME NEW j \in 1 .. Len(table) - 1
        PROVE  (front \o back)[j] = IF j < i THEN table[j] ELSE table[j + 1]
    <2>1. CASE j < i
      BY <1>1, <1>2, <1>5, <2>1
    <2>2. CASE ~(j < i)
      <3>1. j - (i - 1) \in 1 .. Len(table) - i /\ (j - (i - 1)) + i = j + 1
        BY <1>1, <2>2
      <3>2. ~(j <= i - 1)
        BY <1>1, <2>2
      <3>3. (front \o back)[j] = back[j - (i - 1)]
        BY <1>5, <3>2
      <3>4. back[j - (i - 1)] = table[(j - (i - 1)) + i]
        BY <1>3, <3>1
      <3> QED
        BY <2>2, <3>1, <3>3, <3>4
    <2> QED
      BY <2>1, <2>2
  <1> QED
    BY <1>4, <1>5, <1>6, <1>7

---------------------------------------------------------------------------
(* What keeps a seat accounted for.                                        *)

LEMMA CurrentKept ==
    ASSUME NEW x \in Sockets, Current(x), identity'[x] = identity[x],
           identity[x].seat \in DOMAIN seats',
           seats'[identity[x].seat].token = seats[identity[x].seat].token,
           routes'[identity[x].seat] = routes[identity[x].seat]
    PROVE  Current(x)'
  BY DEF Current, SeatsOf

\* A step that touches neither the seat nor those who speak for it.
LEMMA AccountedKept ==
    ASSUME NEW i \in DOMAIN seats, i \in DOMAIN seats', Accounted(i),
           seats'[i] = seats[i], routes'[i] = routes[i], grace[i] # "none" => grace'[i] # "none",
           \A x \in Sockets : Current(x) /\ identity[x].seat = i => identity'[x] = identity[x],
           \A x \in Sockets : joining[x] = seats[i].token => joining'[x] = joining[x]
    PROVE  Accounted(i)'
  <1>1. CASE seats[i].connected /\ \E x \in Sockets : Current(x) /\ identity[x].seat = i
    <2>1. PICK x \in Sockets : Current(x) /\ identity[x].seat = i
      BY <1>1
    <2>2. identity'[x] = identity[x]
      BY <2>1
    <2>3. Current(x)'
      BY <2>1, <2>2, CurrentKept
    <2> QED
      BY <1>1, <2>1, <2>2, <2>3 DEF Accounted
  <1>2. CASE seats[i].connected /\ \E x \in Sockets : joining[x] = seats[i].token
    BY <1>2 DEF Accounted
  <1>3. CASE ~seats[i].connected /\ grace[i] # "none"
    BY <1>3 DEF Accounted
  <1> QED
    BY <1>1, <1>2, <1>3 DEF Accounted

\* The socket that may act for a token's seat is one of that seat.
LEMMA CurrentSeat ==
    ASSUME RoomInv, NEW x \in Sockets, Current(x), NEW i \in DOMAIN seats,
           seats[i].token = identity[x].token
    PROVE  i = identity[x].seat
  <1>1. /\ identity[x].seat \in DOMAIN seats /\ identity[x].token # 0
        /\ seats[identity[x].seat].token = identity[x].token
    BY DEF Current, SeatsOf
  <1>2. Taken(i) /\ seats[i].token = seats[identity[x].seat].token
    BY <1>1 DEF Taken
  <1> QED
    BY <1>1, <1>2 DEF RoomInv, TokensInv

\* A socket that was given a seat has an identity.
LEMMA GivenIdentity ==
    ASSUME NEW i \in SeatNumbers, NEW token \in 1 .. MaxTokens
    PROVE  /\ [seat |-> i, token |-> token] \in [seat : SeatNumbers, token : 1 .. MaxTokens]
           /\ [seat |-> i, token |-> token] # None
  BY RoomAssumption DEF RoomAssumption, SeatNumbers

LEMMA RoomInit == Init => RoomInv
  <1> SUFFICES ASSUME Init PROVE RoomInv
    OBVIOUS
  <1>1. Waiting \in SeatRecords /\ [Waiting EXCEPT !.token = 1, !.connected = TRUE] \in SeatRecords
    <2>1. 0 \in 0 .. MaxTokens /\ 1 \in 0 .. MaxTokens
      BY Bounds
    <2>2. Waiting \in SeatRecords
      BY <2>1 DEF Waiting, SeatRecords
    <2> QED
      BY <2>1, <2>2, SeatGiven
  <1>2. /\ Waiting.token = 0 /\ Waiting.connected = FALSE
        /\ [Waiting EXCEPT !.token = 1, !.connected = TRUE].token = 1
        /\ [Waiting EXCEPT !.token = 1, !.connected = TRUE].connected = TRUE
    BY DEF Waiting
  <1>3. /\ DOMAIN seats = SeatNumbers /\ Len(seats) = MaxSeats
        /\ seats \in Seq(SeatRecords) /\ MaxSeats \in Nat
        /\ \A i \in SeatNumbers : seats[i] \in SeatRecords
        /\ seats[1].token = 1 /\ seats[1].connected = TRUE
        /\ \A i \in SeatNumbers : i # 1 => seats[i].token = 0
    <2>1. MaxSeats \in Nat /\ 1 \in SeatNumbers
      BY Bounds DEF SeatNumbers
    <2>2. seats \in [SeatNumbers -> SeatRecords] /\ DOMAIN seats = SeatNumbers
      BY <1>1 DEF Init
    <2>3. seats \in Seq(SeatRecords) /\ Len(seats) = MaxSeats
      BY <2>1, <2>2 DEF SeatNumbers
    <2> QED
      BY <1>2, <2>1, <2>2, <2>3 DEF Init
  <1>4. TypeOK
    <2>1. Len(seats) \in MinPlayers .. MaxSeats
      BY <1>3, Bounds
    <2>2. \A i \in 1 .. Len(seats) : seats[i] \in SeatRecords
      BY <1>3 DEF SeatNumbers
    <2>3. PICK host \in Sockets :
            /\ routes = [i \in SeatNumbers |-> IF i = 1 THEN host ELSE None]
            /\ identity = [x \in Sockets |-> IF x = host THEN [seat |-> 1, token |-> 1] ELSE None]
      BY DEF Init
    <2>4. routes \in [SeatNumbers -> Sockets \cup {None}]
      BY <2>3
    <2>5. [seat |-> 1, token |-> 1] \in [seat : SeatNumbers, token : 1 .. MaxTokens]
      BY <1>3, Bounds DEF SeatNumbers
    <2>6. identity \in [Sockets -> [seat : SeatNumbers, token : 1 .. MaxTokens] \cup {None}]
      BY <2>3, <2>5
    <2>7. /\ reserved \in [Sockets -> 0 .. MaxSeats] /\ joining \in [Sockets -> 0 .. MaxTokens]
          /\ grace \in [SeatNumbers -> Records]
      BY Bounds DEF Init, Records
    <2>8. /\ evicting \in 0 .. MaxSeats /\ issued \in 1 .. MaxTokens /\ boots \in 0 .. MaxBoots
          /\ phase \in {"open", "started", "gone"} /\ sweep \in {"idle", "reported", "prepared"}
          /\ strayed \subseteq 1 .. MaxTokens
      BY Bounds DEF Init
    <2> QED
      BY <2>1, <2>2, <2>4, <2>6, <2>7, <2>8 DEF TypeOK, SeatRecords
  <1>5. ReservationsFit
    BY <1>4 DEF ReservationsFit, Init
  <1>6. TokensInv
    BY <1>3 DEF TokensInv, Taken, Init
  <1>7. JoiningInv
    BY DEF JoiningInv, Init
  <1>8. AbsenceIsTimed
    <2> SUFFICES ASSUME NEW i \in DOMAIN seats, Taken(i)
                 PROVE  Accounted(i)
      BY DEF AbsenceIsTimed
    <2>1. i = 1
      BY <1>3 DEF Taken
    <2>2. PICK host \in Sockets :
            /\ routes = [j \in SeatNumbers |-> IF j = 1 THEN host ELSE None]
            /\ identity = [x \in Sockets |-> IF x = host THEN [seat |-> 1, token |-> 1] ELSE None]
      BY DEF Init
    <2>3. identity[host] = [seat |-> 1, token |-> 1] /\ routes[1] = host /\ identity[host] # None
      <3>1. identity[host] = [seat |-> 1, token |-> 1] /\ routes[1] = host
        BY <1>3, <2>1, <2>2
      <3> QED
        BY <1>3, <3>1, Bounds, GivenIdentity DEF SeatNumbers
    <2>4. Current(host)
      BY <1>3, <2>1, <2>3 DEF Current, SeatsOf
    <2> QED
      BY <1>3, <2>1, <2>3, <2>4 DEF Accounted
  <1> QED
    BY <1>5, <1>6, <1>7, <1>8 DEF RoomInv

---------------------------------------------------------------------------
(* Steps that leave the seats and those who speak for them alone.          *)

LEMMA QuietStep ==
    ASSUME RoomInv, phase # "gone",
           UNCHANGED <<seats, routes, identity, joining, issued, strayed>>,
           \A i \in SeatNumbers : grace[i] # "none" => grace'[i] # "none"
    PROVE  TokensInv' /\ JoiningInv' /\ AbsenceIsTimed'
  <1>1. TokensInv' /\ JoiningInv'
    BY DEF RoomInv, TokensInv, JoiningInv, Taken
  <1>2. AbsenceIsTimed'
    <2> SUFFICES ASSUME NEW i \in DOMAIN seats', Taken(i)', seats'[i].token \notin strayed'
                 PROVE  Accounted(i)'
      BY DEF AbsenceIsTimed
    <2>1. i \in DOMAIN seats /\ i \in SeatNumbers /\ Accounted(i)
      BY SeatsDomain DEF RoomInv, AbsenceIsTimed, Taken
    <2> QED
      BY <2>1, AccountedKept
  <1> QED
    BY <1>1, <1>2

LEMMA StutterStep ==
    ASSUME RoomInv, UNCHANGED vars
    PROVE  RoomInv'
  BY DEF RoomInv, ReservationsFit, TypeOK, TokensInv, JoiningInv, AbsenceIsTimed, Accounted,
         Current, SeatsOf, Taken, vars

LEMMA ReserveStep ==
    ASSUME RoomInv, NEW x \in Sockets, Reserve(x)
    PROVE  RoomInv'
  <1>1. TokensInv' /\ JoiningInv' /\ AbsenceIsTimed'
    BY QuietStep DEF Reserve
  <1>2. PICK i \in FirstOpenSeats : reserved' = [reserved EXCEPT ![x] = i]
    BY DEF Reserve
  <1>3. /\ i \in DOMAIN seats /\ i \in SeatNumbers /\ seats[i] = Waiting
        /\ \A y \in Sockets : reserved[y] # i
    BY SeatsDomain DEF FirstOpenSeats, OpenSeats
  <1>4. TypeOK'
    <2>1. reserved' \in [Sockets -> 0 .. MaxSeats]
      BY <1>2, <1>3, Bounds DEF RoomInv, ReservationsFit, TypeOK, SeatNumbers
    <2> QED
      BY <2>1 DEF RoomInv, ReservationsFit, TypeOK, Reserve
  <1>5. reserved \in [Sockets -> 0 .. MaxSeats]
    BY DEF RoomInv, ReservationsFit, TypeOK
  <1>6. ReservationsFit'
    <2> SUFFICES ASSUME NEW y \in Sockets, reserved'[y] # 0
                 PROVE  /\ phase' = "open"
                        /\ reserved'[y] \in DOMAIN seats' /\ seats'[reserved'[y]] = Waiting
                        /\ \A z \in Sockets \ {y} : reserved'[z] # reserved'[y]
      BY <1>4 DEF ReservationsFit
    <2>1. phase = "open" /\ UNCHANGED <<phase, seats>>
      BY DEF Reserve
    <2>2. CASE y = x
      BY <1>2, <1>3, <1>5, <2>1, <2>2
    <2>3. CASE y # x
      <3>1. reserved'[y] = reserved[y]
        BY <1>2, <1>5, <2>3
      <3>2. /\ reserved[y] \in DOMAIN seats /\ seats[reserved[y]] = Waiting
            /\ \A z \in Sockets \ {y} : reserved[z] # reserved[y]
        BY <2>1, <3>1 DEF RoomInv, ReservationsFit
      <3> QED
        BY <1>2, <1>3, <1>5, <2>1, <3>1, <3>2
    <2> QED
      BY <2>2, <2>3
  <1> QED
    BY <1>1, <1>6 DEF RoomInv

\* Reservations only fall away, no seat a reservation is of changes and the
\* room stays open as long as any is left.
LEMMA FewerReservations ==
    ASSUME RoomInv, TypeOK', phase # "gone",
           \A y \in Sockets : reserved'[y] # 0 =>
             /\ reserved'[y] = reserved[y] /\ phase' = phase
             /\ reserved[y] \in DOMAIN seats => /\ reserved[y] \in DOMAIN seats'
                                              /\ seats'[reserved[y]] = seats[reserved[y]]
    PROVE  ReservationsFit'
  <1> SUFFICES ASSUME NEW y \in Sockets, reserved'[y] # 0
               PROVE  /\ phase' = "open"
                      /\ reserved'[y] \in DOMAIN seats' /\ seats'[reserved'[y]] = Waiting
                      /\ \A z \in Sockets \ {y} : reserved'[z] # reserved'[y]
    BY DEF ReservationsFit
  <1>1. reserved'[y] = reserved[y] /\ phase' = phase
    OBVIOUS
  <1>2. /\ phase = "open" /\ reserved[y] \in DOMAIN seats /\ seats[reserved[y]] = Waiting
        /\ \A z \in Sockets \ {y} : reserved[z] # reserved[y]
    BY <1>1 DEF RoomInv, ReservationsFit
  <1>3. ASSUME NEW z \in Sockets \ {y} PROVE reserved'[z] # reserved'[y]
    <2>1. CASE reserved'[z] = 0
      BY <2>1
    <2>2. CASE reserved'[z] # 0
      BY <1>1, <1>2, <2>2
    <2> QED
      BY <2>1, <2>2
  <1> QED
    BY <1>1, <1>2, <1>3

LEMMA ReleaseStep ==
    ASSUME RoomInv, NEW x \in Sockets, Release(x)
    PROVE  RoomInv'
  <1>1. TokensInv' /\ JoiningInv' /\ AbsenceIsTimed'
    BY QuietStep DEF Release
  <1>2. reserved \in [Sockets -> 0 .. MaxSeats] /\ reserved' = [reserved EXCEPT ![x] = 0]
    BY DEF RoomInv, ReservationsFit, TypeOK, Release
  <1>3. TypeOK'
    <2>1. reserved' \in [Sockets -> 0 .. MaxSeats]
      BY <1>2, Bounds
    <2> QED
      BY <2>1 DEF RoomInv, ReservationsFit, TypeOK, Release
  <1>4. ReservationsFit'
    BY <1>2, <1>3, FewerReservations DEF Release
  <1> QED
    BY <1>1, <1>4 DEF RoomInv

LEMMA LapseStep ==
    ASSUME RoomInv, NEW i \in SeatNumbers, Lapse(i)
    PROVE  RoomInv'
  <1>1. grace \in [SeatNumbers -> Records] /\ grace' = [grace EXCEPT ![i] = "lapsed"]
    BY DEF RoomInv, ReservationsFit, TypeOK, Lapse
  <1>2. TokensInv' /\ JoiningInv' /\ AbsenceIsTimed'
    BY <1>1, QuietStep DEF Lapse
  <1>3. TypeOK'
    <2>1. grace' \in [SeatNumbers -> Records]
      BY <1>1 DEF Records
    <2> QED
      BY <2>1 DEF RoomInv, ReservationsFit, TypeOK, Lapse
  <1>4. ReservationsFit'
    BY <1>3, FewerReservations DEF Lapse
  <1> QED
    BY <1>2, <1>4 DEF RoomInv

LEMMA SweepReportsStep ==
    ASSUME RoomInv, SweepReports
    PROVE  RoomInv'
  <1>1. TokensInv' /\ JoiningInv' /\ AbsenceIsTimed'
    BY QuietStep DEF SweepReports
  <1>2. TypeOK'
    BY DEF RoomInv, ReservationsFit, TypeOK, SweepReports
  <1>3. ReservationsFit'
    BY <1>2, FewerReservations DEF SweepReports
  <1> QED
    BY <1>1, <1>3 DEF RoomInv

LEMMA SweepDefersStep ==
    ASSUME RoomInv, SweepDefers
    PROVE  RoomInv'
  <1>1. TokensInv' /\ JoiningInv' /\ AbsenceIsTimed'
    BY QuietStep DEF SweepDefers
  <1>2. TypeOK'
    BY DEF RoomInv, ReservationsFit, TypeOK, SweepDefers
  <1>3. ReservationsFit'
    BY <1>2, FewerReservations DEF SweepDefers
  <1> QED
    BY <1>1, <1>3 DEF RoomInv

\* A room that is gone promises nothing any more.
LEMMA SweepReapsStep ==
    ASSUME RoomInv, SweepReaps
    PROVE  RoomInv'
  <1>1. grace' \in [SeatNumbers -> Records] /\ phase' = "gone"
    BY DEF SweepReaps, Records
  <1>2. TypeOK'
    BY <1>1 DEF RoomInv, ReservationsFit, TypeOK, SweepReaps
  <1>3. ReservationsFit' /\ AbsenceIsTimed'
    BY <1>1, <1>2 DEF ReservationsFit, AbsenceIsTimed
  <1>4. TokensInv' /\ JoiningInv'
    BY DEF RoomInv, TokensInv, JoiningInv, Taken, SweepReaps
  <1> QED
    BY <1>3, <1>4 DEF RoomInv

---------------------------------------------------------------------------
(* Steps of a guest's socket.                                              *)

\* The seat a join takes was nobody's and nobody else has it reserved.
LEMMA JoinedSeat ==
    ASSUME RoomInv, NEW x \in Sockets, Join(x),
           NEW i \in IF reserved[x] # 0 THEN {reserved[x]} ELSE FirstOpenSeats
    PROVE  /\ i \in DOMAIN seats /\ seats[i] = Waiting
           /\ \A y \in Sockets \ {x} : reserved[y] # i
  <1>1. CASE reserved[x] # 0
    BY <1>1 DEF RoomInv, ReservationsFit, Join
  <1>2. CASE reserved[x] = 0
    BY <1>2 DEF FirstOpenSeats, OpenSeats
  <1> QED
    BY <1>1, <1>2

LEMMA JoinStep ==
    ASSUME RoomInv, NEW x \in Sockets, Join(x)
    PROVE  RoomInv'
  <1>1. PICK i \in IF reserved[x] # 0 THEN {reserved[x]} ELSE FirstOpenSeats :
          /\ seats' = [seats EXCEPT ![i].token = issued + 1, ![i].connected = TRUE]
          /\ phase' \in {phase} \cup {p \in {"started"} : IsFull(seats')}
    BY DEF Join
  <1>2. /\ i \in DOMAIN seats /\ i \in SeatNumbers /\ seats[i] = Waiting
        /\ \A y \in Sockets \ {x} : reserved[y] # i
    BY JoinedSeat, SeatsDomain
  <1>3. /\ issued \in 1 .. MaxTokens /\ issued' = issued + 1 /\ issued < MaxTokens
        /\ joining \in [Sockets -> 0 .. MaxTokens] /\ joining[x] = 0
        /\ joining' = [joining EXCEPT ![x] = issued + 1]
        /\ reserved \in [Sockets -> 0 .. MaxSeats] /\ reserved' = [reserved EXCEPT ![x] = 0]
        /\ phase \in {"open", "started", "gone"} /\ phase # "gone" /\ identity[x] = None
        /\ UNCHANGED <<routes, identity, grace, evicting, sweep, boots, strayed>>
    BY DEF RoomInv, ReservationsFit, TypeOK, Join
  <1> DEFINE r == [seats[i] EXCEPT !.token = issued + 1, !.connected = TRUE]
  <1>4. seats' = [seats EXCEPT ![i] = r] /\ r \in SeatRecords
        /\ r.token = issued + 1 /\ r.connected = TRUE
    <2>1. issued + 1 \in 0 .. MaxTokens
      BY <1>3, Bounds
    <2>2. seats' = [seats EXCEPT ![i] = r]
      BY <1>1
    <2>3. seats[i] \in SeatRecords
      BY <1>2, SeatsDomain
    <2>4. r \in SeatRecords /\ r.token = issued + 1 /\ r.connected = TRUE
      BY <2>1, <2>3 DEF SeatRecords
    <2> QED
      BY <2>2, <2>4
  <1> HIDE DEF r
  <1>5. seats \in Seq(SeatRecords)
    BY DEF RoomInv, TokensInv
  <1>6. /\ seats' \in Seq(SeatRecords) /\ Len(seats') = Len(seats)
        /\ DOMAIN seats' = DOMAIN seats /\ seats'[i] = r
        /\ \A j \in DOMAIN seats : j # i => seats'[j] = seats[j]
    BY <1>2, <1>4, <1>5, Replaced
  <1>7. \A j \in DOMAIN seats : seats[j].token \in 0 .. issued
    BY <1>3, SeatsDomain DEF RoomInv, TokensInv, SeatRecords
  <1>8. TokensInv'
    <2>1. \A j \in DOMAIN seats' : seats'[j].token <= issued'
      BY <1>3, <1>4, <1>6, <1>7
    <2>2. ASSUME NEW j \in DOMAIN seats, NEW k \in DOMAIN seats, seats'[j].token # 0,
                 seats'[j].token = seats'[k].token
          PROVE  j = k
      <3>1. CASE j # i /\ k # i
        BY <1>6, <2>2, <3>1 DEF RoomInv, TokensInv, Taken
      <3>2. CASE j = i /\ k # i
        BY <1>3, <1>4, <1>6, <1>7, <2>2, <3>2
      <3>3. CASE j # i /\ k = i
        BY <1>3, <1>4, <1>6, <1>7, <2>2, <3>3
      <3> QED
        BY <3>1, <3>2, <3>3
    <2> QED
      BY <1>6, <2>1, <2>2 DEF TokensInv, Taken
  <1>9. JoiningInv'
    BY <1>3 DEF RoomInv, JoiningInv
  <1>10. TypeOK'
    <2>1. joining' \in [Sockets -> 0 .. MaxTokens] /\ issued' \in 1 .. MaxTokens
      BY <1>3, Bounds
    <2>2. reserved' \in [Sockets -> 0 .. MaxSeats]
      BY <1>3, Bounds
    <2>3. phase' \in {"open", "started", "gone"}
      BY <1>1, <1>3
    <2>4. Len(seats') \in MinPlayers .. MaxSeats
      BY <1>6 DEF RoomInv, ReservationsFit, TypeOK
    <2>5. \A j \in 1 .. Len(seats') : seats'[j] \in SeatRecords
      BY <1>6, LenProperties
    <2> QED
      BY <1>3, <2>1, <2>2, <2>3, <2>4, <2>5 DEF RoomInv, ReservationsFit, TypeOK, SeatRecords
  <1>11. ReservationsFit'
    <2>1. ASSUME NEW y \in Sockets, reserved'[y] # 0
          PROVE  /\ reserved'[y] = reserved[y] /\ phase' = phase
                 /\ reserved[y] \in DOMAIN seats => /\ reserved[y] \in DOMAIN seats'
                                                  /\ seats'[reserved[y]] = seats[reserved[y]]
      <3>1. y # x /\ reserved'[y] = reserved[y] /\ reserved[y] # i
        BY <1>2, <1>3, <2>1
      <3>2. reserved[y] \in DOMAIN seats /\ seats[reserved[y]] = Waiting
        BY <1>3, <2>1, <3>1 DEF RoomInv, ReservationsFit
      <3>3. seats'[reserved[y]] = Waiting
        BY <1>6, <3>1, <3>2
      <3>4. ~IsFull(seats')
        BY <1>6, <3>2, <3>3 DEF IsFull, Waiting
      <3> QED
        BY <1>1, <1>6, <3>1, <3>2, <3>3, <3>4
    <2> QED
      BY <1>3, <1>10, <2>1, FewerReservations
  <1>12. AbsenceIsTimed'
    <2> SUFFICES ASSUME NEW j \in DOMAIN seats', Taken(j)', seats'[j].token \notin strayed'
                 PROVE  Accounted(j)'
      BY DEF AbsenceIsTimed
    <2>1. CASE j = i
      <3>1. joining'[x] = seats'[i].token /\ seats'[i].connected
        BY <1>3, <1>4, <1>6
      <3> QED
        BY <2>1, <3>1 DEF Accounted
    <2>2. CASE j # i
      <3>1. j \in DOMAIN seats /\ seats'[j] = seats[j]
        BY <1>6, <2>2
      <3>2. Taken(j) /\ Accounted(j)
        BY <1>3, <3>1 DEF RoomInv, AbsenceIsTimed, Taken
      <3>3. \A y \in Sockets : joining[y] = seats[j].token => joining'[y] = joining[y]
        BY <1>3, <3>2 DEF Taken
      <3> QED
        BY <1>3, <1>6, <3>1, <3>2, <3>3, AccountedKept
    <2> QED
      BY <2>1, <2>2
  <1> QED
    BY <1>8, <1>9, <1>11, <1>12 DEF RoomInv

LEMMA AttachStep ==
    ASSUME RoomInv, NEW x \in Sockets, Attach(x)
    PROVE  RoomInv'
  <1>1. /\ joining \in [Sockets -> 0 .. MaxTokens] /\ joining[x] # 0 /\ identity[x] = None
        /\ joining' = [joining EXCEPT ![x] = 0] /\ phase # "gone"
        /\ identity \in [Sockets -> [seat : SeatNumbers, token : 1 .. MaxTokens] \cup {None}]
        /\ routes \in [SeatNumbers -> Sockets \cup {None}]
        /\ UNCHANGED <<phase, seats, reserved, grace, evicting, sweep, issued, boots, strayed>>
    BY DEF RoomInv, ReservationsFit, TypeOK, JoiningInv, Attach
  <1>2. TokensInv'
    BY <1>1 DEF RoomInv, TokensInv, Taken
  <1>3. joining' \in [Sockets -> 0 .. MaxTokens] /\ joining[x] \in 1 .. MaxTokens
    BY <1>1, Bounds
  <1>4. CASE SeatsOf(joining[x]) = {}
    <2>1. UNCHANGED <<routes, identity>>
      BY <1>4 DEF Attach
    <2>2. TypeOK'
      BY <1>1, <1>3, <2>1 DEF RoomInv, ReservationsFit, TypeOK
    <2>3. ReservationsFit'
      BY <1>1, <2>2, FewerReservations
    <2>4. JoiningInv'
      BY <1>1, <2>1 DEF RoomInv, JoiningInv
    <2>5. AbsenceIsTimed'
      <3> SUFFICES ASSUME NEW j \in DOMAIN seats', Taken(j)', seats'[j].token \notin strayed'
                   PROVE  Accounted(j)'
        BY DEF AbsenceIsTimed
      <3>1. j \in DOMAIN seats /\ Taken(j) /\ Accounted(j)
        BY <1>1 DEF RoomInv, AbsenceIsTimed, Taken
      <3>2. \A y \in Sockets : joining[y] = seats[j].token => joining'[y] = joining[y]
        BY <1>1, <1>4, <3>1 DEF SeatsOf
      <3> QED
        BY <1>1, <2>1, <3>1, <3>2, AccountedKept
    <2> QED
      BY <1>2, <2>3, <2>4, <2>5 DEF RoomInv
  <1>5. CASE SeatsOf(joining[x]) # {}
    <2>1. PICK i \in SeatsOf(joining[x]) :
            /\ routes' = [routes EXCEPT ![i] = x]
            /\ identity' = [identity EXCEPT ![x] = [seat |-> i, token |-> joining[x]]]
      BY <1>5 DEF Attach
    <2>2. i \in DOMAIN seats /\ i \in SeatNumbers /\ seats[i].token = joining[x] /\ Taken(i)
      BY <1>1, SeatsDomain DEF SeatsOf, Taken
    <2>3. /\ identity'[x] = [seat |-> i, token |-> joining[x]] /\ identity'[x] # None
          /\ identity'[x].seat = i /\ identity'[x].token = joining[x]
          /\ identity' \in [Sockets -> [seat : SeatNumbers, token : 1 .. MaxTokens] \cup {None}]
      <3>1. /\ [seat |-> i, token |-> joining[x]] \in [seat : SeatNumbers, token : 1 .. MaxTokens]
            /\ [seat |-> i, token |-> joining[x]] # None
        BY <1>3, <2>2, GivenIdentity
      <3> QED
        BY <1>1, <2>1, <3>1
    <2>4. routes' \in [SeatNumbers -> Sockets \cup {None}] /\ routes'[i] = x
      BY <1>1, <2>1, <2>2
    <2>5. TypeOK'
      BY <1>1, <1>3, <2>3, <2>4 DEF RoomInv, ReservationsFit, TypeOK
    <2>6. ReservationsFit'
      BY <1>1, <2>5, FewerReservations
    <2>7. JoiningInv'
      BY <1>1, <2>1 DEF RoomInv, JoiningInv
    <2>8. AbsenceIsTimed'
      <3> SUFFICES ASSUME NEW j \in DOMAIN seats', Taken(j)', seats'[j].token \notin strayed'
                   PROVE  Accounted(j)'
        BY DEF AbsenceIsTimed
      <3>1. j \in DOMAIN seats /\ Taken(j) /\ Accounted(j)
        BY <1>1 DEF RoomInv, AbsenceIsTimed, Taken
      <3>2. CASE j # i
        <4>1. seats[j].token # joining[x]
          BY <2>2, <3>1, <3>2 DEF RoomInv, TokensInv
        <4>2. \A y \in Sockets : joining[y] = seats[j].token => joining'[y] = joining[y]
          BY <1>1, <4>1
        <4>3. \A y \in Sockets : Current(y) => identity'[y] = identity[y]
          BY <1>1, <2>1 DEF Current
        <4>4. routes'[j] = routes[j]
          BY <1>1, <2>1, <3>1, <3>2, SeatsDomain
        <4> QED
          BY <1>1, <3>1, <4>2, <4>3, <4>4, AccountedKept
      <3>3. CASE j = i
        <4>1. Current(x)'
          BY <1>1, <2>2, <2>3, <2>4 DEF Current, SeatsOf
        <4>2. CASE seats[i].connected
          BY <1>1, <2>3, <3>3, <4>1, <4>2 DEF Accounted
        <4>3. CASE ~seats[i].connected
          BY <1>1, <3>1, <3>3, <4>3 DEF Accounted
        <4> QED
          BY <4>2, <4>3
      <3> QED
        BY <3>2, <3>3
    <2> QED
      BY <1>2, <2>6, <2>7, <2>8 DEF RoomInv
  <1> QED
    BY <1>4, <1>5

\* A socket that presents a token and speaks for a seat speaks for that one.
LEMMA ReconnectingSocket ==
    ASSUME RoomInv, NEW x \in Sockets, NEW token \in 1 .. MaxTokens, Reconnect(x, token),
           NEW i \in SeatsOf(token), Current(x)
    PROVE  identity[x].seat = i
  <1>1. identity[x].token = token
    BY DEF Reconnect, Fresh, Current
  <1> QED
    BY <1>1, CurrentSeat DEF SeatsOf

LEMMA ReconnectStep ==
    ASSUME RoomInv, NEW x \in Sockets, NEW token \in 1 .. MaxTokens, Reconnect(x, token)
    PROVE  RoomInv'
  <1> DEFINE back(i) == phase = "open" \/ grace[i] # "lapsed"
  <1>1. PICK i \in SeatsOf(token) :
          /\ grace' = [grace EXCEPT ![i] = IF phase = "open" THEN "none"
                                           ELSE RecordAfterAttempt(@)]
          /\ seats' = [seats EXCEPT ![i].connected = @ \/ back(i)]
          /\ routes' = IF back(i) THEN [routes EXCEPT ![i] = x] ELSE routes
          /\ identity' = IF back(i) THEN [identity EXCEPT ![x] = [seat |-> i, token |-> token]]
                         ELSE identity
          /\ strayed' = IF back(i) THEN strayed \ {token} ELSE strayed
    BY DEF Reconnect
  <1>2. i \in DOMAIN seats /\ i \in SeatNumbers /\ seats[i].token = token /\ Taken(i)
        /\ seats[i] \in SeatRecords
    BY SeatsDomain DEF SeatsOf, Taken
  <1>3. /\ phase \in {"open", "started"} /\ grace \in [SeatNumbers -> Records]
        /\ identity \in [Sockets -> [seat : SeatNumbers, token : 1 .. MaxTokens] \cup {None}]
        /\ routes \in [SeatNumbers -> Sockets \cup {None}] /\ strayed \subseteq 1 .. MaxTokens
        /\ seats \in Seq(SeatRecords) /\ Len(seats) \in MinPlayers .. MaxSeats
        /\ UNCHANGED <<phase, reserved, joining, evicting, sweep, issued, boots>>
    BY DEF RoomInv, ReservationsFit, TypeOK, TokensInv, Reconnect
  <1>4. joining[x] = 0
    BY DEF Reconnect, Fresh, Current, RoomInv, JoiningInv, ReservationsFit, TypeOK
  <1> DEFINE r == [seats[i] EXCEPT !.connected = @ \/ back(i)]
  <1>5. /\ r \in SeatRecords /\ r.token = token
        /\ (r.connected <=> (seats[i].connected \/ back(i))) /\ seats' = [seats EXCEPT ![i] = r]
        /\ ~back(i) => r.connected = seats[i].connected
    <2>1. seats' = [seats EXCEPT ![i] = r]
      BY <1>1
    <2>2. r \in SeatRecords /\ r.token = token /\ r.connected = (seats[i].connected \/ back(i))
      BY <1>2 DEF SeatRecords
    <2>3. seats[i].connected \in BOOLEAN
      BY <1>2 DEF SeatRecords
    <2> QED
      BY <2>1, <2>2, <2>3
  <1> HIDE DEF r
  <1>6. /\ seats' \in Seq(SeatRecords) /\ Len(seats') = Len(seats)
        /\ DOMAIN seats' = DOMAIN seats /\ seats'[i] = r
        /\ \A j \in DOMAIN seats : j # i => seats'[j] = seats[j]
    BY <1>2, <1>3, <1>5, Replaced
  <1>7. \A j \in DOMAIN seats : seats'[j].token = seats[j].token
    BY <1>2, <1>5, <1>6
  <1>8. TokensInv'
    BY <1>3, <1>6, <1>7 DEF RoomInv, TokensInv, Taken
  <1>9. /\ [seat |-> i, token |-> token] \in [seat : SeatNumbers, token : 1 .. MaxTokens]
        /\ [seat |-> i, token |-> token] # None
    BY <1>2, GivenIdentity
  <1>10. TypeOK'
    <2>1. identity' \in [Sockets -> [seat : SeatNumbers, token : 1 .. MaxTokens] \cup {None}]
      BY <1>1, <1>3, <1>9
    <2>2. routes' \in [SeatNumbers -> Sockets \cup {None}] /\ strayed' \subseteq 1 .. MaxTokens
      BY <1>1, <1>3
    <2>3. grace' \in [SeatNumbers -> Records]
      BY <1>1, <1>3 DEF RecordAfterAttempt, Records
    <2>4. \A j \in 1 .. Len(seats') : seats'[j] \in SeatRecords
      BY <1>6, LenProperties
    <2> QED
      BY <1>3, <1>6, <2>1, <2>2, <2>3, <2>4 DEF RoomInv, ReservationsFit, TypeOK, SeatRecords
  <1>11. JoiningInv'
    BY <1>1, <1>3, <1>4 DEF RoomInv, JoiningInv
  <1>12. ReservationsFit'
    <2>1. ASSUME NEW y \in Sockets, reserved'[y] # 0
          PROVE  /\ reserved[y] \in DOMAIN seats' /\ seats'[reserved[y]] = seats[reserved[y]]
      <3>1. reserved[y] \in DOMAIN seats /\ seats[reserved[y]] = Waiting
        BY <1>3, <2>1 DEF RoomInv, ReservationsFit
      <3>2. reserved[y] # i
        BY <1>2, <3>1 DEF Waiting, Taken
      <3> QED
        BY <1>6, <3>1, <3>2
    <2> QED
      BY <1>3, <1>10, <2>1, FewerReservations
  <1>13. AbsenceIsTimed'
    <2> SUFFICES ASSUME NEW j \in DOMAIN seats', Taken(j)', seats'[j].token \notin strayed'
                 PROVE  Accounted(j)'
      BY DEF AbsenceIsTimed
    <2>1. j \in DOMAIN seats /\ j \in SeatNumbers /\ Taken(j)
      BY <1>6, <1>7, SeatsDomain DEF Taken
    <2>2. CASE j # i
      <3>1. seats[j].token # token /\ seats'[j] = seats[j]
        BY <1>2, <1>6, <2>1, <2>2 DEF RoomInv, TokensInv
      <3>2. Accounted(j)
        BY <1>1, <1>3, <2>1, <3>1 DEF RoomInv, AbsenceIsTimed
      <3>3. \A y \in Sockets : Current(y) /\ identity[y].seat = j => identity'[y] = identity[y]
        BY <1>1, <1>3, <2>2, ReconnectingSocket
      <3>4. routes'[j] = routes[j] /\ grace'[j] = grace[j]
        BY <1>1, <1>3, <2>1, <2>2
      <3> QED
        BY <1>3, <1>6, <2>1, <3>1, <3>2, <3>3, <3>4, AccountedKept
    <2>3. CASE j = i /\ back(i)
      <3>1. identity'[x] = [seat |-> i, token |-> token] /\ routes'[i] = x
        BY <1>1, <1>2, <1>3, <2>3
      <3>2. Current(x)'
        BY <1>2, <1>6, <1>7, <1>9, <3>1 DEF Current, SeatsOf
      <3> QED
        BY <1>5, <1>6, <2>3, <3>1, <3>2 DEF Accounted
    <2>4. CASE j = i /\ ~back(i)
      <3>1. /\ UNCHANGED <<routes, identity, strayed>> /\ grace'[i] = grace[i]
            /\ seats'[i].connected = seats[i].connected
        BY <1>1, <1>2, <1>3, <1>5, <1>6, <2>4 DEF RecordAfterAttempt
      <3>2. Accounted(i) /\ seats'[i].token = seats[i].token
        BY <1>2, <1>3, <1>7, <2>1, <2>4, <3>1 DEF RoomInv, AbsenceIsTimed
      <3>3. \A y \in Sockets : Current(y) /\ identity[y].seat = i => Current(y)'
        BY <1>6, <3>1, <3>2 DEF Current, SeatsOf
      <3> QED
        BY <1>3, <2>4, <3>1, <3>2, <3>3 DEF Accounted
    <2> QED
      BY <2>2, <2>3, <2>4
  <1> QED
    BY <1>8, <1>11, <1>12, <1>13 DEF RoomInv

LEMMA CloseStep ==
    ASSUME RoomInv, NEW x \in Sockets, Close(x)
    PROVE  RoomInv'
  <1>1. /\ phase # "gone" /\ joining[x] = 0
        /\ identity' = [identity EXCEPT ![x] = None] /\ reserved' = [reserved EXCEPT ![x] = 0]
        /\ identity \in [Sockets -> [seat : SeatNumbers, token : 1 .. MaxTokens] \cup {None}]
        /\ reserved \in [Sockets -> 0 .. MaxSeats] /\ grace \in [SeatNumbers -> Records]
        /\ routes \in [SeatNumbers -> Sockets \cup {None}]
        /\ seats \in Seq(SeatRecords) /\ Len(seats) \in MinPlayers .. MaxSeats
        /\ UNCHANGED <<phase, joining, evicting, sweep, issued, boots, strayed>>
    BY DEF RoomInv, ReservationsFit, TypeOK, TokensInv, Close
  <1>2. /\ identity' \in [Sockets -> [seat : SeatNumbers, token : 1 .. MaxTokens] \cup {None}]
        /\ reserved' \in [Sockets -> 0 .. MaxSeats] /\ JoiningInv'
    BY <1>1, Bounds DEF RoomInv, JoiningInv
  <1>3. CASE ~Current(x)
    <2>1. UNCHANGED <<routes, seats, grace>>
      BY <1>3 DEF Close
    <2>2. TypeOK'
      BY <1>1, <1>2, <2>1 DEF RoomInv, ReservationsFit, TypeOK
    <2>3. ReservationsFit'
      BY <1>1, <2>1, <2>2, FewerReservations
    <2>4. TokensInv'
      BY <1>1, <2>1 DEF RoomInv, TokensInv, Taken
    <2>5. AbsenceIsTimed'
      <3> SUFFICES ASSUME NEW j \in DOMAIN seats', Taken(j)', seats'[j].token \notin strayed'
                   PROVE  Accounted(j)'
        BY DEF AbsenceIsTimed
      <3>1. j \in DOMAIN seats /\ Accounted(j)
        BY <1>1, <2>1 DEF RoomInv, AbsenceIsTimed, Taken
      <3>2. \A y \in Sockets : Current(y) => identity'[y] = identity[y]
        BY <1>1, <1>3
      <3> QED
        BY <1>1, <2>1, <3>1, <3>2, AccountedKept
    <2> QED
      BY <1>2, <2>3, <2>4, <2>5 DEF RoomInv
  <1>4. CASE Current(x)
    <2> DEFINE i == identity[x].seat
               r == [seats[i] EXCEPT !.connected = FALSE]
    <2>1. /\ routes' = [routes EXCEPT ![i] = None] /\ grace' = [grace EXCEPT ![i] = "running"]
          /\ seats' = [seats EXCEPT ![i] = r]
      BY <1>4 DEF Close
    <2>2. /\ i \in DOMAIN seats /\ i \in SeatNumbers /\ Taken(i) /\ seats[i] \in SeatRecords
      BY <1>4, SeatsDomain DEF Current, SeatsOf, Taken
    <2>3. r \in SeatRecords /\ r.token = seats[i].token /\ ~r.connected
      BY <2>2 DEF SeatRecords
    <2> HIDE DEF r
    <2>4. /\ seats' \in Seq(SeatRecords) /\ Len(seats') = Len(seats)
          /\ DOMAIN seats' = DOMAIN seats /\ seats'[i] = r
          /\ \A j \in DOMAIN seats : j # i => seats'[j] = seats[j]
      BY <1>1, <2>1, <2>2, <2>3, Replaced
    <2>5. \A j \in DOMAIN seats : seats'[j].token = seats[j].token
      BY <2>3, <2>4
    <2>6. TokensInv'
      BY <1>1, <2>4, <2>5 DEF RoomInv, TokensInv, Taken
    <2>7. TypeOK'
      <3>1. routes' \in [SeatNumbers -> Sockets \cup {None}] /\ grace' \in [SeatNumbers -> Records]
        BY <1>1, <2>1, <2>2 DEF Records
      <3>2. \A j \in 1 .. Len(seats') : seats'[j] \in SeatRecords
        BY <2>4, LenProperties
      <3> QED
        BY <1>1, <1>2, <2>4, <3>1, <3>2 DEF RoomInv, ReservationsFit, TypeOK, SeatRecords
    <2>8. ReservationsFit'
      <3>1. ASSUME NEW y \in Sockets, reserved'[y] # 0
            PROVE  /\ reserved'[y] = reserved[y]
                   /\ reserved[y] \in DOMAIN seats' /\ seats'[reserved[y]] = seats[reserved[y]]
        <4>1. reserved'[y] = reserved[y]
          BY <1>1, <3>1
        <4>2. reserved[y] \in DOMAIN seats /\ seats[reserved[y]] = Waiting
          BY <1>1, <3>1, <4>1 DEF RoomInv, ReservationsFit
        <4>3. reserved[y] # i
          BY <2>2, <4>2 DEF Waiting, Taken
        <4> QED
          BY <2>4, <4>1, <4>2, <4>3
      <3> QED
        BY <1>1, <2>7, <3>1, FewerReservations
    <2>9. AbsenceIsTimed'
      <3> SUFFICES ASSUME NEW j \in DOMAIN seats', Taken(j)', seats'[j].token \notin strayed'
                   PROVE  Accounted(j)'
        BY DEF AbsenceIsTimed
      <3>1. j \in DOMAIN seats /\ j \in SeatNumbers /\ Accounted(j)
        BY <1>1, <2>4, <2>5, SeatsDomain DEF RoomInv, AbsenceIsTimed, Taken
      <3>2. CASE j # i
        <4>1. \A y \in Sockets : Current(y) /\ identity[y].seat = j => identity'[y] = identity[y]
          BY <1>1, <3>2
        <4>2. routes'[j] = routes[j] /\ grace'[j] = grace[j] /\ seats'[j] = seats[j]
          BY <1>1, <2>1, <2>4, <3>1, <3>2
        <4> QED
          BY <1>1, <2>4, <3>1, <4>1, <4>2, AccountedKept
      <3>3. CASE j = i
        <4>1. grace'[i] = "running" /\ ~seats'[i].connected
          BY <1>1, <2>1, <2>2, <2>3, <2>4
        <4> QED
          BY <3>3, <4>1 DEF Accounted
      <3> QED
        BY <3>2, <3>3
    <2> QED
      BY <1>2, <2>6, <2>8, <2>9 DEF RoomInv
  <1> QED
    BY <1>3, <1>4

---------------------------------------------------------------------------
(* The host's steps.                                                       *)

\* apply_seat_delta keeps no reservation, because a reserved seat has no token.
LEMMA DeltaDropsReservations ==
    ASSUME RoomInv, phase = "open", NEW table \in Seq(SeatRecords),
           NEW moved \in [DOMAIN seats -> Nat], ApplySeatDelta(table, moved),
           \A j \in DOMAIN seats : seats[j] = Waiting /\ moved[j] \in 1 .. Len(table)
                                    => table[moved[j]].token = 0
    PROVE  seats' = table /\ reserved' = [x \in Sockets |-> 0]
  <1>1. /\ seats' = table
        /\ reserved' = [x \in Sockets |->
                          IF reserved[x] = 0 THEN 0 ELSE KeptReservation(moved[reserved[x]], table)]
    BY DEF ApplySeatDelta
  <1>2. Len(table) \in Nat
    BY LenProperties
  <1>3. ASSUME NEW x \in Sockets, reserved[x] # 0
        PROVE  KeptReservation(moved[reserved[x]], table) = 0
    <2>1. reserved[x] \in DOMAIN seats /\ seats[reserved[x]] = Waiting
      BY <1>3 DEF RoomInv, ReservationsFit
    <2>2. moved[reserved[x]] \in Nat
      BY <2>1
    <2> QED
      BY <1>2, <2>1, <2>2 DEF KeptReservation
  <1> QED
    BY <1>1, <1>3

\* With every reservation gone the next table only has to be a table.
LEMMA NoReservations ==
    ASSUME TypeOK', reserved' = [x \in Sockets |-> 0]
    PROVE  ReservationsFit'
  BY DEF ReservationsFit

LEMMA SetKindStep ==
    ASSUME RoomInv, NEW i \in SeatNumbers, NEW kind \in {"human", "ai"}, SetKind(i, kind)
    PROVE  RoomInv'
  <1> DEFINE r == IF kind = "ai" THEN Ai ELSE Waiting
             table == [seats EXCEPT ![i] = r]
  <1>1. /\ phase = "open" /\ i \in DOMAIN seats /\ ApplySeatDelta(table, Unmoved)
        /\ evicting' \in {0, i} /\ Len(seats) \in MinPlayers .. MaxSeats
        /\ seats \in Seq(SeatRecords) /\ issued \in 1 .. MaxTokens
        /\ UNCHANGED <<phase, routes, identity, joining, grace, sweep, issued, boots, strayed>>
    BY DEF RoomInv, ReservationsFit, TypeOK, TokensInv, SetKind, HostActs
  <1>2. r \in SeatRecords /\ r.token = 0
    <2>1. 0 \in 0 .. MaxTokens
      BY Bounds
    <2> QED
      BY <2>1 DEF Ai, Waiting, SeatRecords
  <1> HIDE DEF r
  <1>3. /\ table \in Seq(SeatRecords) /\ Len(table) = Len(seats)
        /\ DOMAIN table = DOMAIN seats /\ table[i] = r
        /\ \A j \in DOMAIN seats : j # i => table[j] = seats[j]
    BY <1>1, <1>2, Replaced
  <1> HIDE DEF table
  <1>4. seats' = table /\ reserved' = [x \in Sockets |-> 0]
    <2>1. Unmoved \in [DOMAIN seats -> Nat]
      BY SeatsDomain DEF Unmoved
    <2>2. \A j \in DOMAIN seats : seats[j] = Waiting => table[Unmoved[j]].token = 0
      BY <1>2, <1>3 DEF Unmoved, Waiting
    <2> QED
      BY <1>1, <1>3, <2>1, <2>2, DeltaDropsReservations
  <1>5. TypeOK'
    <2>1. reserved' \in [Sockets -> 0 .. MaxSeats] /\ evicting' \in 0 .. MaxSeats
      BY <1>1, <1>4, Bounds DEF SeatNumbers
    <2>2. \A j \in 1 .. Len(seats') : seats'[j] \in SeatRecords
      BY <1>3, <1>4, LenProperties
    <2> QED
      BY <1>1, <1>3, <1>4, <2>1, <2>2 DEF RoomInv, ReservationsFit, TypeOK, SeatRecords
  <1>6. ReservationsFit'
    BY <1>4, <1>5, NoReservations
  <1>7. TokensInv'
    <2>1. \A j \in DOMAIN seats : seats[j].token <= issued
      BY DEF RoomInv, TokensInv
    <2>2. \A j \in DOMAIN seats' : seats'[j].token <= issued'
      BY <1>1, <1>2, <1>3, <1>4, <2>1
    <2>3. ASSUME NEW j \in DOMAIN seats', NEW k \in DOMAIN seats', seats'[j].token # 0,
                 seats'[j].token = seats'[k].token
          PROVE  j = k
      <3>1. j # i /\ k # i
        BY <1>2, <1>3, <1>4, <2>3
      <3> QED
        BY <1>3, <1>4, <2>3, <3>1 DEF RoomInv, TokensInv, Taken
    <2> QED
      BY <1>3, <1>4, <2>2, <2>3 DEF TokensInv, Taken
  <1>8. JoiningInv'
    BY <1>1 DEF RoomInv, JoiningInv
  <1>9. AbsenceIsTimed'
    <2> SUFFICES ASSUME NEW j \in DOMAIN seats', Taken(j)', seats'[j].token \notin strayed'
                 PROVE  Accounted(j)'
      BY DEF AbsenceIsTimed
    <2>1. j \in DOMAIN seats /\ j # i /\ seats'[j] = seats[j]
      BY <1>2, <1>3, <1>4 DEF Taken
    <2>2. Accounted(j)
      BY <1>1, <2>1 DEF RoomInv, AbsenceIsTimed, Taken
    <2> QED
      BY <1>1, <2>1, <2>2, AccountedKept
  <1> QED
    BY <1>6, <1>7, <1>8, <1>9 DEF RoomInv

LEMMA StartStep ==
    ASSUME RoomInv, Start
    PROVE  RoomInv'
  <1>1. seats' = seats /\ reserved' = [x \in Sockets |-> 0]
    <2>1. Unmoved \in [DOMAIN seats -> Nat] /\ \A j \in DOMAIN seats : Unmoved[j] = j
      BY SeatsDomain DEF Unmoved
    <2>2. seats \in Seq(SeatRecords) /\ phase = "open" /\ ApplySeatDelta(seats, Unmoved)
      BY DEF RoomInv, TokensInv, Start, HostActs
    <2> QED
      BY <2>1, <2>2, DeltaDropsReservations DEF Waiting
  <1>2. TypeOK'
    <2>1. reserved' \in [Sockets -> 0 .. MaxSeats]
      BY <1>1, Bounds
    <2> QED
      BY <1>1, <2>1 DEF RoomInv, ReservationsFit, TypeOK, Start
  <1>3. ReservationsFit'
    BY <1>1, <1>2, NoReservations
  <1>4. TokensInv' /\ JoiningInv' /\ AbsenceIsTimed'
    BY <1>1, QuietStep DEF Start, HostActs
  <1> QED
    BY <1>3, <1>4 DEF RoomInv

\* The seats behind the removed one move up, and those who sit there stray.
LEMMA RemoveSeatStep ==
    ASSUME RoomInv, NEW i \in SeatNumbers, RemoveSeat(i)
    PROVE  RoomInv'
  <1> DEFINE table == RemoveAt(seats, i)
             moved == [j \in DOMAIN seats |-> IF j < i THEN j ELSE IF j = i THEN 0 ELSE j - 1]
             from(j) == IF j < i THEN j ELSE j + 1
  <1>1. /\ phase = "open" /\ i \in DOMAIN seats /\ ApplySeatDelta(table, moved)
        /\ Len(seats) \in MinPlayers .. MaxSeats /\ Len(seats) > MinPlayers
        /\ seats \in Seq(SeatRecords) /\ strayed \subseteq 1 .. MaxTokens
        /\ strayed' = strayed \cup
              {seats[j].token : j \in {k \in DOMAIN seats : k > i /\ Taken(k)}}
        /\ UNCHANGED <<phase, routes, identity, joining, grace, evicting, sweep, issued, boots>>
    BY DEF RoomInv, ReservationsFit, TypeOK, TokensInv, RemoveSeat, HostActs
  <1>2. /\ Len(seats) \in Nat /\ DOMAIN seats = 1 .. Len(seats) /\ i \in 1 .. Len(seats)
        /\ \A j \in DOMAIN seats : seats[j] \in SeatRecords
    BY <1>1, SeatsDomain
  <1>3. /\ table \in Seq(SeatRecords) /\ Len(table) = Len(seats) - 1
        /\ DOMAIN table = 1 .. Len(seats) - 1
        /\ \A j \in 1 .. Len(seats) - 1 : table[j] = seats[from(j)]
    <2>1. \A j \in 1 .. Len(seats) - 1 : table[j] = IF j < i THEN seats[j] ELSE seats[j + 1]
      BY <1>1, Shortened
    <2> QED
      BY <1>1, <2>1, Shortened
  <1>4. /\ \A j \in 1 .. Len(seats) - 1 : from(j) \in DOMAIN seats
        /\ \A j, k \in 1 .. Len(seats) - 1 : from(j) = from(k) => j = k
    BY <1>2
  <1> HIDE DEF table
  <1>5. seats' = table /\ reserved' = [x \in Sockets |-> 0]
    <2>1. moved \in [DOMAIN seats -> Nat]
      BY <1>2
    <2>2. ASSUME NEW j \in DOMAIN seats, seats[j] = Waiting, moved[j] \in 1 .. Len(table)
          PROVE  table[moved[j]].token = 0
      <3>1. moved[j] \in 1 .. Len(seats) - 1 /\ from(moved[j]) = j
        <4>1. moved[j] = IF j < i THEN j ELSE IF j = i THEN 0 ELSE j - 1
          OBVIOUS
        <4>2. moved[j] \in 1 .. Len(seats) - 1
          BY <1>3, <2>2
        <4> HIDE DEF moved
        <4>3. CASE j < i
          BY <1>2, <4>1, <4>2, <4>3
        <4>4. CASE j > i
          BY <1>2, <4>1, <4>2, <4>4
        <4>5. CASE j = i
          BY <1>2, <4>1, <4>2, <4>5
        <4> QED
          BY <1>2, <4>3, <4>4, <4>5
      <3> QED
        BY <1>3, <2>2, <3>1 DEF Waiting
    <2> HIDE DEF moved
    <2> QED
      BY <1>1, <1>3, <2>1, <2>2, DeltaDropsReservations
  <1> HIDE DEF moved
  <1>6. TypeOK'
    <2>1. reserved' \in [Sockets -> 0 .. MaxSeats] /\ Len(seats') \in MinPlayers .. MaxSeats
      BY <1>1, <1>3, <1>5, Bounds
    <2>2. \A j \in 1 .. Len(seats') : seats'[j] \in SeatRecords
      BY <1>3, <1>5, LenProperties
    <2>3. strayed' \subseteq 1 .. MaxTokens
      <3>1. \A j \in DOMAIN seats : Taken(j) => seats[j].token \in 1 .. MaxTokens
        BY <1>2, Bounds DEF SeatRecords, Taken
      <3> QED
        BY <1>1, <3>1
    <2> QED
      BY <1>1, <2>1, <2>2, <2>3 DEF RoomInv, ReservationsFit, TypeOK, SeatRecords
  <1>7. ReservationsFit'
    BY <1>5, <1>6, NoReservations
  <1>8. \A j \in DOMAIN seats' : /\ j \in 1 .. Len(seats) - 1 /\ from(j) \in DOMAIN seats
                                 /\ seats'[j] = seats[from(j)]
    BY <1>3, <1>4, <1>5
  <1>9. TokensInv'
    <2>1. \A j \in DOMAIN seats' : seats'[j].token <= issued'
      BY <1>1, <1>8 DEF RoomInv, TokensInv
    <2>2. ASSUME NEW j \in DOMAIN seats', NEW k \in DOMAIN seats', seats'[j].token # 0,
                 seats'[j].token = seats'[k].token
          PROVE  j = k
      <3>1. from(j) = from(k)
        BY <1>8, <2>2 DEF RoomInv, TokensInv, Taken
      <3> QED
        BY <1>4, <1>8, <3>1
    <2> QED
      BY <1>3, <1>5, <2>1, <2>2 DEF TokensInv, Taken
  <1>10. JoiningInv'
    BY <1>1 DEF RoomInv, JoiningInv
  <1>11. AbsenceIsTimed'
    <2> SUFFICES ASSUME NEW j \in DOMAIN seats', Taken(j)', seats'[j].token \notin strayed'
                 PROVE  Accounted(j)'
      BY DEF AbsenceIsTimed
    <2>1. j \in 1 .. Len(seats) - 1 /\ from(j) \in DOMAIN seats /\ seats'[j] = seats[from(j)]
      BY <1>8
    <2>2. j < i
      <3>1. ASSUME ~(j < i) PROVE FALSE
        <4>1. j + 1 \in DOMAIN seats /\ j + 1 > i /\ seats'[j] = seats[j + 1]
          BY <1>2, <2>1, <3>1
        <4>2. seats[j + 1].token \in strayed'
          BY <1>1, <4>1 DEF Taken
        <4> QED
          BY <4>1, <4>2
      <3> QED
        BY <3>1
    <2>3. j \in DOMAIN seats /\ seats'[j] = seats[j]
      BY <1>2, <2>1, <2>2
    <2>4. Accounted(j)
      BY <1>1, <2>3 DEF RoomInv, AbsenceIsTimed, Taken
    <2> QED
      BY <1>1, <2>3, <2>4, AccountedKept
  <1> QED
    BY <1>7, <1>9, <1>10, <1>11 DEF RoomInv

LEMMA EvictStep ==
    ASSUME RoomInv, Evict
    PROVE  RoomInv'
  <1>1. /\ phase # "gone" /\ evicting \in SeatNumbers
        /\ routes \in [SeatNumbers -> Sockets \cup {None}]
        /\ routes' = [routes EXCEPT ![evicting] = None]
        /\ strayed' = strayed \cup {identity[x].token : x \in
                          {y \in Sockets : Current(y) /\ identity[y].seat = evicting}}
        /\ strayed \subseteq 1 .. MaxTokens
        /\ UNCHANGED <<phase, seats, reserved, identity, joining, grace, sweep, issued, boots>>
    BY Bounds DEF RoomInv, ReservationsFit, TypeOK, Evict, SeatNumbers
  <1>2. \A x \in Sockets : Current(x) => identity[x].token \in 1 .. MaxTokens
    BY DEF Current, RoomInv, ReservationsFit, TypeOK
  <1>3. TypeOK'
    <2>1. routes' \in [SeatNumbers -> Sockets \cup {None}]
      BY <1>1
    <2>2. strayed' \subseteq 1 .. MaxTokens
      BY <1>1, <1>2
    <2>3. evicting' \in 0 .. MaxSeats
      BY Bounds DEF Evict
    <2> QED
      BY <1>1, <2>1, <2>2, <2>3 DEF RoomInv, ReservationsFit, TypeOK
  <1>4. ReservationsFit'
    BY <1>1, <1>3, FewerReservations
  <1>5. TokensInv' /\ JoiningInv'
    BY <1>1 DEF RoomInv, TokensInv, JoiningInv, Taken
  <1>6. AbsenceIsTimed'
    <2> SUFFICES ASSUME NEW j \in DOMAIN seats', Taken(j)', seats'[j].token \notin strayed'
                 PROVE  Accounted(j)'
      BY DEF AbsenceIsTimed
    <2>1. j \in DOMAIN seats /\ j \in SeatNumbers /\ Accounted(j) /\ seats[j].token \notin strayed'
      BY <1>1, SeatsDomain DEF RoomInv, AbsenceIsTimed, Taken
    <2>2. CASE j # evicting
      <3>1. routes'[j] = routes[j]
        BY <1>1, <2>1, <2>2
      <3> QED
        BY <1>1, <2>1, <3>1, AccountedKept
    <2>3. CASE j = evicting
      <3>1. \A x \in Sockets : ~(Current(x) /\ identity[x].seat = j)
        <4>1. ASSUME NEW x \in Sockets, Current(x), identity[x].seat = j PROVE FALSE
          <5>1. seats[j].token = identity[x].token
            BY <4>1 DEF Current, SeatsOf
          <5>2. identity[x].token \in strayed'
            BY <1>1, <2>3, <4>1
          <5> QED
            BY <2>1, <5>1, <5>2
        <4> QED
          BY <4>1
      <3> QED
        BY <1>1, <2>1, <3>1 DEF Accounted
    <2> QED
      BY <2>2, <2>3
  <1> QED
    BY <1>4, <1>5, <1>6 DEF RoomInv

LEMMA RestartStep ==
    ASSUME RoomInv, Restart
    PROVE  RoomInv'
  <1>1. /\ seats \in Seq(SeatRecords) /\ Len(seats) \in MinPlayers .. MaxSeats
        /\ seats' = [i \in DOMAIN seats |-> [seats[i] EXCEPT !.connected = FALSE]]
        /\ reserved' = [x \in Sockets |-> 0] /\ joining' = [x \in Sockets |-> 0]
        /\ UNCHANGED <<phase, issued>>
        /\ grace' = [i \in SeatNumbers |->
                        IF i \in DOMAIN seats /\ Taken(i) THEN "running" ELSE "none"]
    BY DEF RoomInv, ReservationsFit, TypeOK, TokensInv, Restart
  <1>2. /\ Len(seats) \in Nat /\ DOMAIN seats = 1 .. Len(seats) /\ DOMAIN seats \subseteq SeatNumbers
        /\ \A i \in DOMAIN seats : seats[i] \in SeatRecords
    BY SeatsDomain
  <1>3. /\ DOMAIN seats' = DOMAIN seats
        /\ \A i \in DOMAIN seats : /\ seats'[i] \in SeatRecords /\ ~seats'[i].connected
                                    /\ seats'[i].token = seats[i].token
    BY <1>1, <1>2 DEF SeatRecords
  <1>4. seats' \in Seq(SeatRecords) /\ Len(seats') = Len(seats)
    <2>1. seats' \in [1 .. Len(seats) -> SeatRecords]
      <3>1. seats' = [i \in 1 .. Len(seats) |-> seats'[i]]
        BY <1>1, <1>2
      <3> QED
        BY <1>2, <1>3, <3>1
    <2> QED
      BY <1>2, <2>1
  <1>5. TokensInv' /\ JoiningInv'
    <2>1. TokensInv'
      <3>1. \A i \in DOMAIN seats' : seats'[i].token <= issued'
        BY <1>1, <1>3 DEF RoomInv, TokensInv
      <3>2. \A i, j \in DOMAIN seats' :
               seats'[i].token # 0 /\ seats'[i].token = seats'[j].token => i = j
        BY <1>3 DEF RoomInv, TokensInv, Taken
      <3> QED
        BY <1>4, <3>1, <3>2 DEF TokensInv, Taken
    <2>2. JoiningInv'
      BY <1>1 DEF JoiningInv
    <2> QED
      BY <2>1, <2>2
  <1>6. TypeOK'
    <2>1. /\ reserved' \in [Sockets -> 0 .. MaxSeats] /\ joining' \in [Sockets -> 0 .. MaxTokens]
          /\ evicting' \in 0 .. MaxSeats
      BY <1>1, Bounds DEF Restart
    <2>2. /\ routes' \in [SeatNumbers -> Sockets \cup {None}] /\ grace' \in [SeatNumbers -> Records]
          /\ identity' \in [Sockets -> [seat : SeatNumbers, token : 1 .. MaxTokens] \cup {None}]
      BY DEF Restart, Records
    <2>3. boots' \in 0 .. MaxBoots
      BY Bounds DEF Restart, RoomInv, ReservationsFit, TypeOK
    <2>4. \A i \in 1 .. Len(seats') : seats'[i] \in SeatRecords
      BY <1>2, <1>3, <1>4
    <2>5. sweep' = "idle" /\ strayed' = {}
      BY DEF Restart
    <2> QED
      BY <1>1, <1>4, <2>1, <2>2, <2>3, <2>4, <2>5 DEF RoomInv, ReservationsFit, TypeOK, SeatRecords
  <1>7. ReservationsFit'
    BY <1>1, <1>6, NoReservations
  <1>8. AbsenceIsTimed'
    <2> SUFFICES ASSUME NEW j \in DOMAIN seats', Taken(j)'
                 PROVE  Accounted(j)'
      BY DEF AbsenceIsTimed
    <2>1. ~seats'[j].connected /\ grace'[j] = "running"
      BY <1>1, <1>2, <1>3 DEF Taken
    <2> QED
      BY <2>1 DEF Accounted
  <1> QED
    BY <1>5, <1>7, <1>8 DEF RoomInv

LEMMA RoomStep == RoomInv /\ [Next]_vars => RoomInv'
  BY StutterStep, ReserveStep, ReleaseStep, JoinStep, AttachStep, ReconnectStep, CloseStep,
     SetKindStep, RemoveSeatStep, StartStep, EvictStep, LapseStep, SweepReportsStep,
     SweepReapsStep, SweepDefersStep, RestartStep
     DEF Next

---------------------------------------------------------------------------
(* Results.                                                                *)

LEMMA RoomAlways == Spec => []RoomInv
  BY RoomInit, RoomStep, PTL DEF Spec

\* A reserved seat exists, waits for somebody and is reserved once, so that a
\* join with a reservation takes a seat from nobody (join_with_reservation),
\* whatever the host's SeatMutate did in between.
THEOREM ReservationsHold == Spec => []ReservationsFit
  <1>1. RoomInv => ReservationsFit
    BY DEF RoomInv
  <1> QED
    BY <1>1, RoomAlways, PTL

\* A player has a socket that may act for the seat, or one about to attach, or
\* a disconnect record the sweep will act on, unless a renumbering or a late
\* eviction cut them off (ReconnectManager, attach_full_seat).
THEOREM AbsenceTimed == Spec => []AbsenceIsTimed
  <1>1. RoomInv => AbsenceIsTimed
    BY DEF RoomInv
  <1> QED
    BY <1>1, RoomAlways, PTL

\* What LateCloseHarmless says of one seat and one step.
Dropped(i) ==
    /\ Taken(i) /\ seats[i].connected /\ ~seats'[i].connected
    /\ seats[i].token = seats'[i].token /\ routes[i] # None

LEMMA DroppedWithSocket ==
    ASSUME RoomInv, Next, NEW i \in DOMAIN seats, i \in DOMAIN seats', Dropped(i)
    PROVE  identity'[routes[i]] = None
  <1>1. /\ seats \in Seq(SeatRecords) /\ i \in SeatNumbers /\ routes[i] \in Sockets
        /\ Len(seats) \in Nat /\ DOMAIN seats = 1 .. Len(seats)
    BY SeatsDomain DEF RoomInv, ReservationsFit, TypeOK, TokensInv, Dropped
  <1>2. seats'[i] # seats[i]
    BY DEF Dropped
  <1>3. CASE \E x \in Sockets : Reserve(x) \/ Release(x) \/ Attach(x)
    BY <1>2, <1>3 DEF Reserve, Release, Attach
  <1>4. CASE Evict \/ SweepReports \/ SweepReaps \/ SweepDefers \/ \E j \in SeatNumbers : Lapse(j)
    BY <1>2, <1>4 DEF Evict, SweepReports, SweepReaps, SweepDefers, Lapse
  <1>5. CASE Start
    BY <1>2, <1>5 DEF Start, ApplySeatDelta
  <1>6. ASSUME NEW x \in Sockets, Join(x) PROVE identity'[routes[i]] = None
    <2>1. PICK j \in IF reserved[x] # 0 THEN {reserved[x]} ELSE FirstOpenSeats :
            seats' = [seats EXCEPT ![j].token = issued + 1, ![j].connected = TRUE]
      BY <1>6 DEF Join
    <2>2. seats[j] = Waiting
      BY <1>6, JoinedSeat
    <2>3. i = j
      BY <1>1, <1>2, <2>1
    <2> QED
      BY <2>2, <2>3 DEF Dropped, Taken, Waiting
  <1>7. ASSUME NEW x \in Sockets, NEW token \in 1 .. MaxTokens, Reconnect(x, token)
        PROVE  identity'[routes[i]] = None
    <2>1. PICK j \in SeatsOf(token) :
            seats' = [seats EXCEPT ![j].connected = @ \/ (phase = "open" \/ grace[j] # "lapsed")]
      BY <1>7 DEF Reconnect
    <2>2. i = j
      BY <1>1, <1>2, <2>1
    <2>3. seats[i] \in SeatRecords
      BY <1>1
    <2>4. seats'[i].connected = (seats[i].connected \/ (phase = "open" \/ grace[j] # "lapsed"))
      BY <1>1, <2>1, <2>2, <2>3 DEF SeatRecords
    <2> QED
      BY <2>4 DEF Dropped
  <1>8. ASSUME NEW x \in Sockets, Close(x) PROVE identity'[routes[i]] = None
    <2>1. Current(x) /\ seats' = [seats EXCEPT ![identity[x].seat].connected = FALSE]
      BY <1>2, <1>8 DEF Close
    <2>2. identity[x].seat = i
      BY <1>1, <1>2, <2>1
    <2>3. routes[i] = x
      BY <2>1, <2>2 DEF Current
    <2> QED
      BY <1>8, <2>3 DEF Close, RoomInv, ReservationsFit, TypeOK
  <1>9. ASSUME NEW j \in SeatNumbers, NEW kind \in {"human", "ai"}, SetKind(j, kind)
        PROVE  identity'[routes[i]] = None
    <2>1. seats' = [seats EXCEPT ![j] = IF kind = "ai" THEN Ai ELSE Waiting]
      BY <1>9 DEF SetKind, ApplySeatDelta
    <2>2. i = j
      BY <1>1, <1>2, <2>1
    <2>3. seats'[i].token = 0
      BY <1>1, <2>1, <2>2 DEF Ai, Waiting
    <2> QED
      BY <2>3 DEF Dropped, Taken
  <1>10. ASSUME NEW j \in SeatNumbers, RemoveSeat(j) PROVE identity'[routes[i]] = None
    <2>1. seats' = RemoveAt(seats, j) /\ j \in DOMAIN seats
      BY <1>10 DEF RemoveSeat, ApplySeatDelta
    <2>2. i \in 1 .. Len(seats) - 1 /\ seats'[i] = IF i < j THEN seats[i] ELSE seats[i + 1]
      BY <1>1, <2>1, Shortened
    <2>3. i + 1 \in DOMAIN seats /\ seats'[i] = seats[i + 1] /\ i # i + 1
      BY <1>1, <1>2, <2>2
    <2> QED
      BY <2>3 DEF Dropped, RoomInv, TokensInv
  <1>11. CASE Restart
    BY <1>1, <1>11 DEF Restart
  <1> QED
    BY <1>3, <1>4, <1>5, <1>6, <1>7, <1>8, <1>9, <1>10, <1>11 DEF Next

\* A player is marked disconnected only with the end of the socket that had
\* the seat's route (disconnect_full_seat_if_current): the late close of a
\* socket that was replaced leaves its replacement alone.
THEOREM CloseHarmless == Spec => LateCloseHarmless
  <1>1. RoomInv /\ [Next]_vars =>
          [\A i \in DOMAIN seats \cap DOMAIN seats' :
             (/\ Taken(i) /\ seats[i].connected /\ ~seats'[i].connected
              /\ seats[i].token = seats'[i].token /\ routes[i] # None)
             => identity'[routes[i]] = None]_vars
    BY DroppedWithSocket DEF Dropped
  <1> QED
    BY <1>1, RoomAlways, PTL DEF Spec, LateCloseHarmless
============================================================================
