------------------------------ MODULE GameRoom -----------------------------
(***************************************************************************)
(* One game room of phase-server from its creation to its removal: who     *)
(* sits where (GameSession and the seat reducer), which socket speaks for  *)
(* a seat (the connections map and each socket's SocketIdentity), and the  *)
(* grace period of seats that lost theirs (ReconnectManager).              *)
(*                                                                         *)
(* The three are kept apart in the code: the session knows tokens, the     *)
(* connections map and the grace records know seat numbers, and a socket   *)
(* remembers the seat and the token it was given.  Seat n here is          *)
(* PlayerId(n - 1); seat 1 is the host's.                                  *)
(***************************************************************************)
EXTENDS Integers, Sequences, FiniteSets, SequencesExt

CONSTANTS
    Sockets,     \* sockets, reused once nothing refers to them
    MaxSeats,    \* seats when the room is created
    MinPlayers,  \* the format's min_players
    MaxTokens,   \* bound: player tokens issued
    MaxBoots,    \* bound: restarts
    None

ASSUME RoomAssumption ==
    /\ MaxSeats \in Nat /\ MinPlayers \in 1 .. MaxSeats
    /\ MaxTokens \in Nat \ {0} /\ MaxBoots \in Nat
    /\ None \notin Sockets /\ Sockets # {}
    /\ None \notin [seat : 1 .. MaxSeats, token : 1 .. MaxTokens]

VARIABLES
    phase,      \* "open", "started" or "gone" (out of the registry)
    seats,      \* per seat: kind, token (0: none) and connected
    reserved,   \* per socket, the seat it holds a reservation of, or 0
    routes,     \* connections: per seat number, the sender installed
    identity,   \* per socket, the seat and token it was given, or None
    joining,    \* per socket, the token it got from a join and has not attached
    grace,      \* ReconnectManager: per seat number, the disconnect record
    evicting,   \* the seat whose kicked sender is still to be removed, or 0
    sweep,      \* the grace sweep: "idle", "reported" or "prepared"
    issued,     \* tokens issued so far
    boots,      \* restarts so far
    strayed     \* ghost: tokens whose seat and route came apart

vars == <<phase, seats, reserved, routes, identity, joining, grace, evicting, sweep,
          issued, boots, strayed>>

SeatNumbers == 1 .. MaxSeats

Waiting == [kind |-> "human", token |-> 0, connected |-> FALSE]

Ai == [kind |-> "ai", token |-> 0, connected |-> TRUE]

Taken(i) == seats[i].token # 0

\* seat_state's JoinedHuman.
Joined(i) == i # 1 /\ Taken(i)

\* player_for_token.
SeatsOf(token) == {i \in DOMAIN seats : token # 0 /\ seats[i].token = token}

\* first_open_seat skips AI seats and reserved ones.
OpenSeats ==
    {i \in DOMAIN seats : seats[i] = Waiting /\ \A x \in Sockets : reserved[x] # i}

FirstOpenSeats == {i \in OpenSeats : \A j \in OpenSeats : i <= j}

IsFull(table) == \A i \in DOMAIN table : table[i].kind = "ai" \/ table[i].token # 0

\* full_socket_is_current_while_state_locked.
\* Mutant: the sender is not compared.
Current_AnySender(x) == identity[x] # None /\ identity[x].seat \in SeatsOf(identity[x].token)

Current(x) ==
    /\ identity[x] # None
    /\ identity[x].seat \in SeatsOf(identity[x].token)
    /\ routes[identity[x].seat] = x

\* A socket the server has not seen.
Fresh(x) ==
    /\ identity[x] = None /\ joining[x] = 0 /\ reserved[x] = 0
    /\ \A i \in SeatNumbers : routes[i] # x

---------------------------------------------------------------------------
(* Guests.                                                                 *)

Reserve(x) ==
    /\ phase = "open" /\ Fresh(x)
    /\ \E i \in FirstOpenSeats : reserved' = [reserved EXCEPT ![x] = i]
    /\ UNCHANGED <<phase, seats, routes, identity, joining, grace, evicting, sweep,
                   issued, boots, strayed>>

\* release_reservation, or the reservation expires.
Release(x) ==
    /\ phase # "gone" /\ reserved[x] # 0
    /\ reserved' = [reserved EXCEPT ![x] = 0]
    /\ UNCHANGED <<phase, seats, routes, identity, joining, grace, evicting, sweep,
                   issued, boots, strayed>>

\* join_with_reservation; the join that fills the room starts the game if the
\* room says so and start_game does not refuse.
Join(x) ==
    /\ phase # "gone" /\ identity[x] = None /\ joining[x] = 0
    /\ reserved[x] # 0 \/ Fresh(x)
    /\ issued < MaxTokens
    /\ issued' = issued + 1
    /\ \E i \in IF reserved[x] # 0 THEN {reserved[x]} ELSE FirstOpenSeats :
         LET table == [seats EXCEPT ![i].token = issued + 1, ![i].connected = TRUE]
         IN  /\ seats' = table
             /\ phase' \in {phase} \cup {p \in {"started"} : IsFull(table)}
    /\ reserved' = [reserved EXCEPT ![x] = 0]
    /\ joining' = [joining EXCEPT ![x] = issued + 1]
    /\ UNCHANGED <<routes, identity, grace, evicting, sweep, boots, strayed>>

\* attach_full_seat, after the session's lock was released and taken again;
\* refused if the token is gone by then.
Attach(x) ==
    /\ phase # "gone" /\ joining[x] # 0
    /\ joining' = [joining EXCEPT ![x] = 0]
    /\ \/ \E i \in SeatsOf(joining[x]) :
            /\ routes' = [routes EXCEPT ![i] = x]
            /\ identity' = [identity EXCEPT ![x] = [seat |-> i, token |-> joining[x]]]
       \/ /\ SeatsOf(joining[x]) = {}
          /\ UNCHANGED <<routes, identity>>
    /\ UNCHANGED <<phase, seats, reserved, grace, evicting, sweep, issued, boots, strayed>>

\* attempt_reconnect: what is left of the record.
\* Mutant: the attempt consumes a lapsed record too.
RecordAfterAttempt_Consumed(record) == "none"

RecordAfterAttempt(record) == IF record = "lapsed" THEN "lapsed" ELSE "none"

\* A token is presented by a new socket, or again by the one that holds its
\* seat.  A waiting room takes anybody back; a game refuses a lapsed seat.
Reconnect(x, token) ==
    /\ phase # "gone"
    /\ Fresh(x) \/ (Current(x) /\ identity[x].token = token)
    /\ \E i \in SeatsOf(token) :
         LET back == phase = "open" \/ grace[i] # "lapsed"
         IN  /\ grace' = [grace EXCEPT ![i] = IF phase = "open" THEN "none"
                                              ELSE RecordAfterAttempt(@)]
             /\ seats' = [seats EXCEPT ![i].connected = @ \/ back]
             /\ routes' = IF back THEN [routes EXCEPT ![i] = x] ELSE routes
             /\ identity' = IF back
                            THEN [identity EXCEPT ![x] = [seat |-> i, token |-> token]]
                            ELSE identity
             /\ strayed' = IF back THEN strayed \ {token} ELSE strayed
    /\ UNCHANGED <<phase, reserved, joining, evicting, sweep, issued, boots>>

\* The socket closes: disconnect_full_seat_if_current and its reservations.
Close(x) ==
    /\ phase # "gone" /\ joining[x] = 0
    /\ identity[x] # None \/ reserved[x] # 0
    /\ identity' = [identity EXCEPT ![x] = None]
    /\ reserved' = [reserved EXCEPT ![x] = 0]
    /\ IF Current(x)
       THEN LET i == identity[x].seat
            IN  /\ routes' = [routes EXCEPT ![i] = None]
                /\ seats' = [seats EXCEPT ![i].connected = FALSE]
                /\ grace' = [grace EXCEPT ![i] = "running"]
       ELSE UNCHANGED <<routes, seats, grace>>
    /\ UNCHANGED <<phase, joining, evicting, sweep, issued, boots, strayed>>

---------------------------------------------------------------------------
(* The host's SeatMutate: the reducer decides, apply_seat_delta rewrites   *)
(* the session; the kicked sender is removed after the lock.               *)

HostActs ==
    /\ phase = "open" /\ evicting = 0
    /\ \E x \in Sockets : Current(x) /\ identity[x].seat = 1

\* What is left of a reservation of seat i once the table is the new one.
\* Mutant: a seat given to an AI keeps its reservation.
KeptReservation_Ai(i, table) ==
    IF i = 0 \/ i > Len(table) THEN 0
    ELSE IF table[i].kind = "human" /\ table[i].token = 0 THEN 0 ELSE i

KeptReservation(i, table) ==
    IF i = 0 \/ i > Len(table) THEN 0
    ELSE IF table[i].token = 0 THEN 0 ELSE i

\* apply_seat_delta; moved[i] is the new number of seat i, or 0.
ApplySeatDelta(table, moved) ==
    /\ seats' = table
    /\ reserved' = [x \in Sockets |->
                      IF reserved[x] = 0 THEN 0
                      ELSE KeptReservation(moved[reserved[x]], table)]

Unmoved == [i \in DOMAIN seats |-> i]

\* SetKind; the token of a kicked guest is cleared.
SetKind(i, kind) ==
    /\ HostActs /\ i # 1 /\ i \in DOMAIN seats
    /\ ApplySeatDelta([seats EXCEPT ![i] = IF kind = "ai" THEN Ai ELSE Waiting], Unmoved)
    /\ evicting' = IF Joined(i) THEN i ELSE 0
    /\ UNCHANGED <<phase, routes, identity, joining, grace, sweep, issued, boots, strayed>>

\* Remove closes the gap: sessions, tokens and reservations are renumbered, the
\* routes, the sockets' identities and the grace records are not.
RemoveSeat(i) ==
    /\ HostActs /\ i # 1 /\ i \in DOMAIN seats
    /\ Len(seats) > MinPlayers /\ ~Joined(i)
    /\ ApplySeatDelta(RemoveAt(seats, i),
                      [j \in DOMAIN seats |-> IF j < i THEN j ELSE IF j = i THEN 0 ELSE j - 1])
    /\ strayed' = strayed \cup {seats[j].token : j \in {k \in DOMAIN seats : k > i /\ Taken(k)}}
    /\ UNCHANGED <<phase, routes, identity, joining, grace, evicting, sweep, issued, boots>>

\* Start, unless start_game refuses.
Start ==
    /\ HostActs /\ IsFull(seats)
    /\ ApplySeatDelta(seats, Unmoved)
    /\ phase' = "started"
    /\ UNCHANGED <<routes, identity, joining, grace, evicting, sweep, issued, boots, strayed>>

\* The kicked player's sender goes, by seat number: by now it may be that of a
\* guest who took the seat meanwhile.
Evict ==
    /\ phase # "gone" /\ evicting # 0
    /\ routes' = [routes EXCEPT ![evicting] = None]
    /\ strayed' = strayed \cup {identity[x].token : x \in
                                  {y \in Sockets : Current(y) /\ identity[y].seat = evicting}}
    /\ evicting' = 0
    /\ UNCHANGED <<phase, seats, reserved, identity, joining, grace, sweep, issued, boots>>

---------------------------------------------------------------------------
(* Grace periods and the sweep.                                            *)

Lapse(i) ==
    /\ phase # "gone" /\ grace[i] = "running"
    /\ grace' = [grace EXCEPT ![i] = "lapsed"]
    /\ UNCHANGED <<phase, seats, reserved, routes, identity, joining, evicting, sweep,
                   issued, boots, strayed>>

\* check_expired, and the result of a started game is prepared.
SweepReports ==
    /\ phase # "gone" /\ sweep = "idle"
    /\ \E i \in SeatNumbers : grace[i] = "lapsed"
    /\ sweep' = IF phase = "started" THEN "prepared" ELSE "reported"
    /\ UNCHANGED <<phase, seats, reserved, routes, identity, joining, grace, evicting,
                   issued, boots, strayed>>

\* reap_expired_disconnects does not look at the records again.
SweepReaps ==
    /\ sweep = "prepared" \/ (sweep = "reported" /\ phase = "open")
    /\ phase' = "gone"
    /\ sweep' = "idle"
    /\ grace' = [i \in SeatNumbers |-> "none"]
    /\ UNCHANGED <<seats, reserved, routes, identity, joining, evicting, issued, boots, strayed>>

\* The session is contended, the room has started since, or the preparation
\* failed: the next tick reports it again.
SweepDefers ==
    /\ phase # "gone" /\ sweep # "idle"
    /\ sweep' = "idle"
    /\ UNCHANGED <<phase, seats, reserved, routes, identity, joining, grace, evicting,
                   issued, boots, strayed>>

\* The process restarts from the newest snapshot: no socket, no reservation,
\* and a grace period for every human seat.
Restart ==
    /\ phase # "gone" /\ boots < MaxBoots
    /\ boots' = boots + 1
    /\ seats' = [i \in DOMAIN seats |-> [seats[i] EXCEPT !.connected = FALSE]]
    /\ reserved' = [x \in Sockets |-> 0]
    /\ routes' = [i \in SeatNumbers |-> None]
    /\ identity' = [x \in Sockets |-> None]
    /\ joining' = [x \in Sockets |-> 0]
    /\ grace' = [i \in SeatNumbers |->
                   IF i \in DOMAIN seats /\ Taken(i) THEN "running" ELSE "none"]
    /\ evicting' = 0 /\ sweep' = "idle" /\ strayed' = {}
    /\ UNCHANGED <<phase, issued>>

\* The host has created the room and its socket is attached.
Init ==
    /\ phase = "open"
    /\ seats = [i \in SeatNumbers |->
                  IF i = 1 THEN [Waiting EXCEPT !.token = 1, !.connected = TRUE] ELSE Waiting]
    /\ reserved = [x \in Sockets |-> 0]
    /\ \E host \in Sockets :
         /\ routes = [i \in SeatNumbers |-> IF i = 1 THEN host ELSE None]
         /\ identity = [x \in Sockets |->
                          IF x = host THEN [seat |-> 1, token |-> 1] ELSE None]
    /\ joining = [x \in Sockets |-> 0]
    /\ grace = [i \in SeatNumbers |-> "none"]
    /\ evicting = 0 /\ sweep = "idle" /\ issued = 1 /\ boots = 0 /\ strayed = {}

Next ==
    \/ \E x \in Sockets : Reserve(x)
    \/ \E x \in Sockets : Release(x)
    \/ \E x \in Sockets : Join(x)
    \/ \E x \in Sockets : Attach(x)
    \/ \E x \in Sockets, token \in 1 .. MaxTokens : Reconnect(x, token)
    \/ \E x \in Sockets : Close(x)
    \/ \E i \in SeatNumbers, kind \in {"human", "ai"} : SetKind(i, kind)
    \/ \E i \in SeatNumbers : RemoveSeat(i)
    \/ Start
    \/ Evict
    \/ \E i \in SeatNumbers : Lapse(i)
    \/ SweepReports
    \/ SweepReaps
    \/ SweepDefers
    \/ Restart

Spec == Init /\ [][Next]_vars

---------------------------------------------------------------------------
(* Properties.                                                             *)

Records == {"none", "running", "lapsed"}

\* Types of the room's state.
TypeOK ==
    /\ phase \in {"open", "started", "gone"}
    /\ Len(seats) \in MinPlayers .. MaxSeats
    /\ \A i \in 1 .. Len(seats) :
         seats[i] \in [kind : {"human", "ai"}, token : 0 .. MaxTokens, connected : BOOLEAN]
    /\ reserved \in [Sockets -> 0 .. MaxSeats]
    /\ routes \in [SeatNumbers -> Sockets \cup {None}]
    /\ identity \in [Sockets -> [seat : SeatNumbers, token : 1 .. MaxTokens] \cup {None}]
    /\ joining \in [Sockets -> 0 .. MaxTokens]
    /\ grace \in [SeatNumbers -> Records]
    /\ evicting \in 0 .. MaxSeats
    /\ sweep \in {"idle", "reported", "prepared"}
    /\ issued \in 1 .. MaxTokens /\ boots \in 0 .. MaxBoots
    /\ strayed \subseteq 1 .. MaxTokens

\* Seat i has a socket that may act for it, or one about to attach, or a
\* disconnect record that the sweep will act on.
Accounted(i) ==
    \/ seats[i].connected /\ \E x \in Sockets : Current(x) /\ identity[x].seat = i
    \/ seats[i].connected /\ \E x \in Sockets : joining[x] = seats[i].token
    \/ ~seats[i].connected /\ grace[i] # "none"

\* Nobody is missing unnoticed: a seat that has a token is accounted for,
\* through replaced sockets, kicks, restarts and late closes.  The players a
\* renumbering or a late eviction cut off are the exception: the code leaves
\* them neither a socket that may act nor a record.
AbsenceIsTimed ==
    phase # "gone" =>
      \A i \in DOMAIN seats : Taken(i) /\ seats[i].token \notin strayed => Accounted(i)

\* A join with a reservation never takes a seat from anybody: a reserved seat
\* exists, is nobody's and no AI's, and is reserved once, whatever the host did
\* to the seats in between; in a started game nothing is reserved.
ReservationsFit ==
    /\ TypeOK
    /\ \A x \in Sockets : reserved[x] # 0 /\ phase # "gone" =>
         /\ phase = "open"
         /\ reserved[x] \in DOMAIN seats /\ seats[reserved[x]] = Waiting
         /\ \A y \in Sockets \ {x} : reserved[y] # reserved[x]

\* The close of a socket that was replaced leaves its replacement alone: a
\* player is marked disconnected only with the end of the socket that had
\* the seat's route.
LateCloseHarmless ==
    [][\A i \in DOMAIN seats \cap DOMAIN seats' :
         (/\ Taken(i) /\ seats[i].connected /\ ~seats'[i].connected
          /\ seats[i].token = seats'[i].token /\ routes[i] # None)
         => identity'[routes[i]] = None]_vars

\* A game is ended for "Opponent disconnected (grace period expired)" only if a
\* player is disconnected.  Of this code it is not true: the record of a guest
\* who left the waiting room outlives the guest, and counts against whoever
\* sits there when it lapses.
ForfeitDeserved ==
    sweep = "prepared" => \E i \in DOMAIN seats : Taken(i) /\ ~seats[i].connected
============================================================================
