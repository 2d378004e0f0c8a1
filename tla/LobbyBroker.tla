----------------------------- MODULE LobbyBroker -----------------------------
(***************************************************************************)
(* The matchmaking broker (crates/lobby-broker): hosts list games under    *)
(* codes, guests reserve seats, silent hosts are reaped.  The broker is    *)
(* pure and runs in two shells.  phase-server holds it behind a lock and   *)
(* sweeps in two steps, report and consume, with the lock released in      *)
(* between.  The Durable Object of lobby-worker sweeps in one step from an *)
(* alarm, keeps per-socket state in the WebSocket attachment, saves the    *)
(* broker after each frame that changed it and may be evicted between two  *)
(* frames.  The variable durable tells the two apart.                      *)
(*                                                                         *)
(* Time is relative: a listing has an age since its liveness clock moved,  *)
(* a reservation has time left.  Ages stop just past the reap timeout,     *)
(* which no comparison of the code tells from any later moment.            *)
(***************************************************************************)
EXTENDS Integers, FiniteSets

CONSTANTS Conns,          \* sockets
          Codes,          \* game codes
          Tokens,         \* reservation tokens; ones nobody refers to are reused
          Sizes,          \* the table sizes hosts ask for
          NoGame, NoReg, NoToken,
          Shells,         \* the shells to consider: values of durable
          Timeout,        \* reap timeout, 300 s
          Quantum,        \* LIVENESS_REFRESH_SECS, 60 s
          Lifetime,       \* PUBLIC_SEAT_RESERVATION_MS, 120 s
          MaxEntries,     \* MAX_LOBBY_ENTRIES
          MaxGenerations  \* bound on registrations

ASSUME TimesAssumption == /\ Timeout \in Nat /\ Quantum \in Nat \ {0} /\ Lifetime \in Nat
                          /\ Quantum < Timeout
ASSUME TokensAssumption == IsFiniteSet(Tokens)
ASSUME SizesAssumption == Sizes \subseteq Nat \ {0}
ASSUME BoundsAssumption == MaxEntries \in Nat /\ MaxGenerations \in Nat
ASSUME ShellAssumption == Shells # {} /\ Shells \subseteq BOOLEAN

VARIABLES durable,    \* the shell is the Durable Object
          games,      \* LobbyManager.games
          nextGen,    \* LobbyManager.next_generation
          open,       \* connected sockets
          host,       \* per socket: conn.host_game
          holds,      \* per socket: conn.reservations
          observed,   \* native sweep: registrations reported as expired
          saved,      \* the broker snapshot in Durable Object storage
          alarm,      \* the Durable Object's alarm is set
          silent      \* history: per hosting socket, time since its last frame

vars == <<durable, games, nextGen, open, host, holds, observed, saved, alarm, silent>>

Lapsing == Timeout + 1    \* the age at which a listing is expired

TooSilent == Timeout - Quantum + 1    \* the silence after which it may be

Reservations == [token : Tokens, left : 0 .. Lifetime]
Listings == [gen : Nat, owner : Conns, age : 0 .. Lapsing, seated : Nat,
             max : Nat, held : SUBSET Reservations]
Registrations == [code : Codes, gen : Nat]

ASSUME NoneAssumption == NoGame \notin Listings /\ NoReg \notin Registrations /\ NoToken \notin Tokens

-----------------------------------------------------------------------------
(* LobbyManager.                                                           *)

Listed(G) == {k \in Codes : G[k] # NoGame}

\* Mutant: a code alone identifies a registration.
IsCurrent_CodeOnly(G, r) == r # NoReg /\ G[r.code] # NoGame

IsCurrent(G, r) == r # NoReg /\ G[r.code] # NoGame /\ G[r.code].gen = r.gen

\* Mutant: the clock moves only once the listing has expired.
RefreshDue_WhenLapsed(G, r) == IsCurrent(G, r) /\ G[r.code].age > Timeout

\* liveness_refresh_due
RefreshDue(G, r) == IsCurrent(G, r) /\ G[r.code].age >= Quantum

\* refresh_liveness
Refreshed(G, r) == IF RefreshDue(G, r) THEN [G EXCEPT ![r.code].age = 0] ELSE G

\* unregister_registration
Without(G, r) == IF IsCurrent(G, r) THEN [G EXCEPT ![r.code] = NoGame] ELSE G

\* cleanup_expired_for
Cleaned(l) == [l EXCEPT !.held = {v \in @ : v.left > 0}]

TokensOf(l) == {v.token : v \in l.held}

\* Seats that are taken or reserved, lapsed reservations included.
Occupied(l) == l.seated + Cardinality(l.held)

Full(l) == Occupied(l) >= l.max

AtMost(a, b) == IF a < b THEN a ELSE b
AtLeast(a, b) == IF a > b THEN a ELSE b

\* release_reservation
Release(l, t) == [l EXCEPT !.held = {v \in @ : v.token # t}]

\* consume_reservation, of every token of T that is reserved
Consume(l, T) ==
    [l EXCEPT !.held = {v \in @ : v.token \notin T},
              !.seated = IF T \cap TokensOf(l) = {} THEN @
                         ELSE AtMost(@ + Cardinality(T \cap TokensOf(l)), l.max)]

\* check_expired
Expired(G) == {[code |-> k, gen |-> G[k].gen] : k \in {j \in Listed(G) : G[j].age > Timeout}}

\* Mutant: the identity is derived from the listings that are left.
Seeded_FromListings(s) ==
    CHOOSE n \in {0} \cup {s.games[k].gen + 1 : k \in Listed(s.games)} :
        \A k \in Listed(s.games) : n > s.games[k].gen

\* LobbyManagerSnapshot: the counter is seeded above all that was saved.
Seeded(s) ==
    CHOOSE n \in {s.nextGen} \cup {s.games[k].gen + 1 : k \in Listed(s.games)} :
        n >= s.nextGen /\ \A k \in Listed(s.games) : n > s.games[k].gen

-----------------------------------------------------------------------------
(* Frames from sockets.  Each first refreshes the sender's own listing.    *)

\* The broker after a call; a dirty one is saved and an alarm is ensured.
Commit(G, n, dirty) ==
    /\ games' = G
    /\ nextGen' = n
    /\ saved' = IF durable /\ dirty THEN [games |-> G, nextGen |-> n] ELSE saved
    /\ alarm' = (alarm \/ (durable /\ dirty))

Frame(c) ==
    /\ c \in open
    /\ silent' = [silent EXCEPT ![c] = 0]
    /\ UNCHANGED <<durable, open, observed>>

Alive(c) == Refreshed(games, host[c])

Hosts(G, c, k) == IsCurrent(G, host[c]) /\ host[c].code = k

\* The previous listing of the socket goes first, even if the new one is then
\* refused.  A requested code must be free; a generated one is not looked up.
CreateGame(c, k, requested, size) ==
    LET rest == Without(Alive(c), host[c])
        refused == \/ Cardinality(Listed(rest)) >= MaxEntries
                   \/ requested /\ rest[k] # NoGame
        new == [gen |-> nextGen, owner |-> c, age |-> 0, seated |-> 1, max |-> size, held |-> {}]
    IN  /\ nextGen < MaxGenerations
        /\ Frame(c)
        /\ IF refused
           THEN /\ Commit(rest, nextGen, TRUE)
                /\ host' = [host EXCEPT ![c] = NoReg]
           ELSE /\ Commit([rest EXCEPT ![k] = new], nextGen + 1, TRUE)
                /\ host' = [host EXCEPT ![c] = [code |-> k, gen |-> nextGen]]
        /\ UNCHANGED holds

\* handle_join.  With a token the seat it reserves is taken.
JoinGame(c, k, t) ==
    LET G == Alive(c)
        admitted == ~Hosts(G, c, k) /\ G[k] # NoGame
        consumes == admitted /\ t # NoToken /\ <<k, t>> \in holds[c] /\ t \in TokensOf(G[k])
    IN  /\ Frame(c)
        /\ Commit(IF consumes THEN [G EXCEPT ![k] = Consume(@, {t})] ELSE G, nextGen, TRUE)
        /\ holds' = IF consumes THEN [holds EXCEPT ![c] = @ \ {<<k, t>>}] ELSE holds
        /\ UNCHANGED host

\* A token nothing refers to any more stands for a fresh one.
FreshTokens(G) == Tokens \ ((UNION {TokensOf(G[k]) : k \in Listed(G)})
                            \cup {p[2] : p \in UNION {holds[c] : c \in Conns}})

\* has_active_reservation, of the pairs that were kept
HoldsSeat(H, k) == \E p \in H : p[1] = k

\* handle_lookup: releases a token, reserves a seat, or both.  Without a
\* reservation the answer counts the seats as they were before the release.
LookupJoinTarget(c, k, t, reserve) ==
    LET G == Alive(c)
        admitted == /\ ~Hosts(G, c, k) /\ G[k] # NoGame
                    /\ t # NoToken => <<k, t>> \in holds[c]
        released == IF t = NoToken THEN G[k] ELSE Release(G[k], t)
        H == IF t \in TokensOf(G[k]) THEN holds[c] \ {<<k, t>>} ELSE holds[c]
        cleaned == Cleaned(released)
        kept == {p \in H : p[1] = k => p[2] \in TokensOf(cleaned)}
        Outcome(l, own) == /\ Commit([G EXCEPT ![k] = l], nextGen, TRUE)
                           /\ holds' = [holds EXCEPT ![c] = own]
    IN  /\ Frame(c)
        /\ UNCHANGED host
        /\ \/ ~admitted /\ Commit(G, nextGen, TRUE) /\ UNCHANGED holds
           \/ /\ admitted /\ ~reserve
              /\ Outcome(released, H)
           \/ /\ admitted /\ reserve
              /\ HoldsSeat(kept, k) \/ Full(cleaned)
              /\ Outcome(cleaned, kept)
           \/ /\ admitted /\ reserve
              /\ ~HoldsSeat(kept, k) /\ ~Full(cleaned)
              /\ \E new \in FreshTokens(G) :
                    Outcome([cleaned EXCEPT !.held = @ \cup {[token |-> new, left |-> Lifetime]}],
                            kept \cup {<<k, new>>})

\* handle_update_metadata: the host's count wins, but not against a seat it
\* reports as taken from a reservation in the same frame.
UpdateMetadata(c, players, size, T) ==
    LET G == Alive(c)
        r == host[c]
        before == G[r.code]
        after == Consume(before, T)
        floor == IF T \cap TokensOf(before) = {} THEN 0 ELSE after.seated
        l == [Cleaned(after) EXCEPT !.seated = AtMost(AtLeast(players, floor), size),
                                    !.max = size]
    IN  /\ r # NoReg
        /\ Frame(c)
        /\ Commit(IF IsCurrent(G, r) THEN [G EXCEPT ![r.code] = l] ELSE G, nextGen, TRUE)
        /\ UNCHANGED <<host, holds>>

\* handle_unregister
UnregisterLobby(c) ==
    /\ host[c] # NoReg
    /\ Frame(c)
    /\ Commit(Without(Alive(c), host[c]), nextGen, TRUE)
    /\ host' = [host EXCEPT ![c] = NoReg]
    /\ UNCHANGED holds

\* Mutant: only frames that write to the lobby are saved.
Dirty_WritesOnly(c) == FALSE

\* host_liveness_refresh_due, asked before the frame is handled
Dirty(c) == RefreshDue(games, host[c])

\* Ping and every other frame that only reads.
Ping(c) ==
    /\ Frame(c)
    /\ Commit(Alive(c), nextGen, Dirty(c))
    /\ UNCHANGED <<host, holds>>

Connect(c) ==
    /\ c \notin open
    /\ open' = open \cup {c}
    /\ silent' = [silent EXCEPT ![c] = 0]
    /\ UNCHANGED <<durable, games, nextGen, host, holds, observed, saved, alarm>>

\* Mutant: the socket's reservations are forgotten and not released.
AllReleased_None(G, H) == G

\* release_reservations
AllReleased(G, H) ==
    [k \in Codes |-> IF G[k] = NoGame THEN NoGame
                     ELSE [G[k] EXCEPT !.held = {v \in @ : <<k, v.token>> \notin H}]]

\* on_disconnect.  The Durable Object saves but ensures no alarm.
Disconnect(c) ==
    /\ c \in open
    /\ open' = open \ {c}
    /\ games' = Without(AllReleased(games, holds[c]), host[c])
    /\ saved' = IF durable THEN [games |-> games', nextGen |-> nextGen] ELSE saved
    /\ host' = [host EXCEPT ![c] = NoReg]
    /\ holds' = [holds EXCEPT ![c] = {}]
    /\ UNCHANGED <<durable, nextGen, observed, alarm, silent>>

-----------------------------------------------------------------------------
(* The sweep, time, and eviction.                                          *)

WithoutAll(G, R) == [k \in Codes |-> IF \E r \in R : r.code = k /\ IsCurrent(G, r)
                                     THEN NoGame ELSE G[k]]

\* phase-server reports under one lock ...
Report ==
    /\ ~durable
    /\ observed = {}
    /\ Expired(games) # {}
    /\ observed' = Expired(games)
    /\ UNCHANGED <<durable, games, nextGen, open, host, holds, saved, alarm, silent>>

RefreshedAll(G, R) == [k \in Codes |-> IF \E r \in R : r.code = k /\ RefreshDue(G, r)
                                       THEN [G[k] EXCEPT !.age = 0] ELSE G[k]]

\* ... looks the codes up among the game sessions (where a waiting host keeps its
\* listing alive and a contended session defers it: any of the reported ones,
\* as far as the lobby knows) and consumes the others under another.
ConsumeExpired ==
    /\ observed # {}
    /\ \E live \in SUBSET observed, acted \in SUBSET observed :
         /\ live \cap acted = {}
         /\ games' = WithoutAll(RefreshedAll(games, live), acted)
    /\ observed' = {}
    /\ UNCHANGED <<durable, nextGen, open, host, holds, saved, alarm, silent>>

\* Mutant: the alarm is set again only for the listings it has reaped.
KeepAlarm_AfterReap(G) == Listed(G) = {}

\* shouldKeepAlarm
KeepAlarm(G) == Listed(G) # {}

\* The Durable Object's alarm: reap_expired, save, keep the alarm while needed.
Reap ==
    /\ durable /\ alarm
    /\ games' = WithoutAll(games, Expired(games))
    /\ saved' = [games |-> games', nextGen |-> nextGen]
    /\ alarm' = KeepAlarm(games')
    /\ UNCHANGED <<durable, nextGen, open, host, holds, observed, silent>>

\* The Durable Object leaves memory and is restored for the next event.
Evict ==
    /\ durable
    /\ games' = saved.games
    /\ nextGen' = Seeded(saved)
    /\ UNCHANGED <<durable, open, host, holds, observed, saved, alarm, silent>>

Aged(G) == [k \in Codes |-> IF G[k] = NoGame THEN NoGame
                            ELSE [G[k] EXCEPT !.age = AtMost(@ + 1, Lapsing),
                                              !.held = {[v EXCEPT !.left = AtLeast(@ - 1, 0)] : v \in @}]]

Tick ==
    /\ games' = Aged(games)
    /\ saved' = [saved EXCEPT !.games = Aged(@)]
    /\ silent' = [c \in Conns |-> IF host[c] = NoReg THEN 0
                                  ELSE AtMost(silent[c] + 1, TooSilent)]
    /\ UNCHANGED <<durable, nextGen, open, host, holds, observed, alarm>>

Init == /\ durable \in Shells
        /\ games = [k \in Codes |-> NoGame]
        /\ nextGen = 0
        /\ open = {}
        /\ host = [c \in Conns |-> NoReg]
        /\ holds = [c \in Conns |-> {}]
        /\ observed = {}
        /\ saved = [games |-> games, nextGen |-> 0]
        /\ alarm = FALSE
        /\ silent = [c \in Conns |-> 0]

Next == \/ \E c \in Conns, k \in Codes, requested \in BOOLEAN, size \in Sizes :
              CreateGame(c, k, requested, size)
        \/ \E c \in Conns, k \in Codes, t \in Tokens \cup {NoToken} : JoinGame(c, k, t)
        \/ \E c \in Conns, k \in Codes, t \in Tokens \cup {NoToken}, reserve \in BOOLEAN :
              LookupJoinTarget(c, k, t, reserve)
        \/ \E c \in Conns, size \in Sizes, T \in SUBSET Tokens : \E players \in 0 .. size :
              UpdateMetadata(c, players, size, T)
        \/ \E c \in Conns : UnregisterLobby(c)
        \/ \E c \in Conns : Ping(c)
        \/ \E c \in Conns : Connect(c)
        \/ \E c \in Conns : Disconnect(c)
        \/ Report
        \/ ConsumeExpired
        \/ Reap
        \/ Evict
        \/ Tick

Spec == Init /\ [][Next]_vars

-----------------------------------------------------------------------------
(* Properties.                                                             *)

TypeOK ==
    /\ durable \in Shells
    /\ games \in [Codes -> Listings \cup {NoGame}]
    /\ \A k \in Listed(games) : games[k].seated <= games[k].max
    /\ nextGen \in Nat
    /\ open \subseteq Conns
    /\ host \in [Conns -> Registrations \cup {NoReg}]
    /\ holds \in [Conns -> SUBSET (Codes \X Tokens)]
    /\ observed \subseteq Registrations
    /\ saved \in [games : [Codes -> Listings \cup {NoGame}], nextGen : Nat]
    /\ alarm \in BOOLEAN
    /\ silent \in [Conns -> 0 .. TooSilent]

\* A socket's host stamp is honoured only for the listing that this socket
\* registered: however often the code was reaped, claimed by others and the
\* Durable Object evicted, no identity is handed out twice (lobby.rs:246).
StampIsOwn ==
    \A c \in Conns : IsCurrent(games, host[c]) => games[host[c].code].owner = c

\* What becomes of the listing under k in a step.
Rightly(k) ==
    LET l == games[k]
        r == [code |-> k, gen |-> l.gen]
    IN  \/ games'[k] # NoGame /\ games'[k].gen \in {l.gen, nextGen}
        \/ host[l.owner] = r /\ host'[l.owner] # r
        \/ r \in observed /\ r \notin observed'
        \/ durable /\ l.age > Timeout

\* A listing disappears only when its own host withdraws it, leaves or lists
\* another game, when the sweep saw this very registration expired, or when a
\* generated code happens to be the same; never through an act on a
\* predecessor under the same code (lobby.rs:84).
RemovedRightly == [][\A k \in Listed(games) : Rightly(k)]_vars

\* "a host that keeps its socket talking is never reaped" (broker.rs:731):
\* a listing expires only after its host was silent for the timeout less one
\* quantum, restores from a snapshot included.
LiveHostKept ==
    \A c \in Conns :
        (IsCurrent(games, host[c]) /\ games[host[c].code].age > Timeout)
            => silent[c] >= TooSilent

\* Every reserved seat is reserved by exactly one open socket, which gives it
\* back when it closes, so no seat leaks (broker.rs:661), and a guest holds at
\* most one seat of a game, although reservations lapse without its socket
\* hearing of it (broker.rs:1146).
SeatsHaveHolders ==
    /\ TypeOK
    /\ \A k \in Listed(games) :
         /\ \A v \in games[k].held :
              Cardinality({c \in open : <<k, v.token>> \in holds[c]}) = 1
         /\ \A c \in Conns :
              Cardinality({t \in TokensOf(games[k]) : <<k, t>> \in holds[c]}) <= 1

\* What an eviction restores is what was in memory, the identity counter and
\* the liveness clocks included (broker-wasm lib.rs:294).
EvictionLosesNothing == durable => saved = [games |-> games, nextGen |-> nextGen]

\* While anything is listed the Durable Object's alarm is set, so that silent
\* hosts are reaped although nothing else wakes the object: the alarm that
\* fires consumes itself and an eviction forgets nothing (lobby-do.ts:410).
ReaperAwake == (durable /\ Listed(games) # {}) => alarm
=============================================================================
