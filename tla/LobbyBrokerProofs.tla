-------------------------- MODULE LobbyBrokerProofs --------------------------
(***************************************************************************)
(* The lobby broker for any number of sockets, codes, listings and         *)
(* registrations and in either shell: a registration's identity is never   *)
(* reused, a removal hits the listing it is meant for, an eviction of the  *)
(* Durable Object loses nothing, a host that talks is not reaped and every *)
(* reserved seat has one holder.                                           *)
(***************************************************************************)
EXTENDS LobbyBroker, FiniteSetTheorems, TLAPS

Tables == [Codes -> Listings \cup {NoGame}]
Stamps == Registrations \cup {NoReg}

Sound(G) == G \in Tables /\ \A k \in Listed(G) : G[k].seated <= G[k].max

\* m is what a call that neither ages nor replaces a listing makes of l.
SameListing(l, m) ==
    m \in Listings /\ m.gen = l.gen /\ m.owner = l.owner /\ m.age <= l.age /\ m.seated <= m.max

\* H has at most the listings of G, none of them older than it was.
Kept(G, H) ==
    /\ Sound(H)
    /\ \A k \in Codes : H[k] # NoGame => /\ G[k] # NoGame
                                         /\ SameListing(G[k], H[k])

\* A step that removes no listing and replaces none.
NoneRemoved == Kept(games, games') /\ Listed(games') = Listed(games)

\* No identity in use, in the lobby or in a socket's stamp, is handed out again.
IdentityInv ==
    /\ \A k \in Listed(games) : games[k].gen < nextGen
    /\ \A c \in Conns : host[c] # NoReg => host[c].gen < nextGen

\* A socket that is closed hosts nothing, and only phase-server sweeps in two
\* steps.
ClosedInv == /\ \A c \in Conns : c \notin open => host[c] = NoReg
             /\ durable => observed = {}

\* A listing is older than its host's silence by less than one quantum.
AgeInv ==
    \A c \in Conns : IsCurrent(games, host[c])
        => (games[host[c].code].age < silent[c] + Quantum \/ silent[c] = TooSilent)

\* The inductive invariant.
LobbyInv == /\ TypeOK /\ IdentityInv /\ StampIsOwn /\ ClosedInv /\ AgeInv
            /\ EvictionLosesNothing /\ ReaperAwake

-----------------------------------------------------------------------------
(* What the calls on one listing keep.                                     *)

\* cleanup_expired_for drops lapsed reservations and nothing else.
LEMMA CleanedSame ==
    ASSUME NEW l \in Listings, l.seated <= l.max
    PROVE  SameListing(l, Cleaned(l))
  BY TimesAssumption DEF TimesAssumption, SameListing, Cleaned, Listings, Lapsing

\* release_reservation drops one reservation and nothing else.
LEMMA ReleaseSame ==
    ASSUME NEW l \in Listings, l.seated <= l.max, NEW t
    PROVE  SameListing(l, Release(l, t))
  BY TimesAssumption DEF TimesAssumption, SameListing, Release, Listings, Lapsing

\* consume_reservation turns reservations into seats, up to the table size.
LEMMA ConsumeSame ==
    ASSUME NEW l \in Listings, l.seated <= l.max, NEW T \in SUBSET Tokens
    PROVE  SameListing(l, Consume(l, T))
  <1> DEFINE n == Cardinality(T \cap TokensOf(l))
             s == IF T \cap TokensOf(l) = {} THEN l.seated ELSE AtMost(l.seated + n, l.max)
             h == {v \in l.held : v.token \notin T}
  <1>1. IsFiniteSet(T \cap TokensOf(l))
    BY TokensAssumption, FS_Subset DEF TokensAssumption
  <1>2. n \in Nat
    BY <1>1, FS_CardinalityType
  <1>3. Consume(l, T) = [l EXCEPT !.held = h, !.seated = s]
    BY DEF Consume
  <1> HIDE DEF n
  <1>4. /\ l.seated \in Nat /\ l.max \in Nat /\ l.age \in 0 .. Lapsing
        /\ l.held \in SUBSET Reservations
    BY DEF Listings
  <1>5. s \in Nat /\ s <= l.max
    BY <1>2, <1>4 DEF AtMost
  <1>6. h \in SUBSET Reservations
    BY <1>4
  <1> HIDE DEF s, h
  <1> DEFINE m == [l EXCEPT !.held = h, !.seated = s]
  <1>7. m \in Listings
    BY <1>5, <1>6 DEF Listings
  <1>8. /\ m.gen = l.gen /\ m.owner = l.owner /\ m.age = l.age
        /\ m.seated = s /\ m.max = l.max
    BY DEF Listings
  <1>9. l.age <= l.age
    BY <1>4, TimesAssumption DEF TimesAssumption, Lapsing
  <1> HIDE DEF m
  <1>10. SameListing(l, m)
    BY <1>5, <1>7, <1>8, <1>9 DEF SameListing
  <1> QED
    BY <1>3, <1>10 DEF m

\* So do two such calls one after the other.
LEMMA SameTrans ==
    ASSUME NEW l \in Listings, NEW m, NEW n, SameListing(l, m), SameListing(m, n)
    PROVE  SameListing(l, n)
  BY TimesAssumption DEF TimesAssumption, SameListing, Listings, Lapsing

-----------------------------------------------------------------------------
(* What the calls on the lobby keep.                                       *)

\* A lobby that is left alone is kept.
LEMMA KeptSelf ==
    ASSUME NEW G, Sound(G)
    PROVE  Kept(G, G)
  BY TimesAssumption
  DEF TimesAssumption, Kept, Sound, SameListing, Listed, Tables, Listings, Lapsing

\* What two calls keep one after the other is kept.
LEMMA KeptTrans ==
    ASSUME NEW G, Sound(G), NEW H, Kept(G, H), NEW K, Kept(H, K)
    PROVE  Kept(G, K)
  BY SameTrans DEF Kept, Sound, Listed, Tables

\* A call on one listing keeps the lobby if it keeps that listing.
LEMMA KeptUpdate ==
    ASSUME NEW G, Sound(G), NEW H, Kept(G, H), NEW k \in Codes, H[k] # NoGame,
           NEW m, SameListing(H[k], m)
    PROVE  /\ Kept(G, [H EXCEPT ![k] = m])
           /\ Listed([H EXCEPT ![k] = m]) = Listed(H)
  <1>1. /\ G \in Tables /\ H \in Tables
        /\ G[k] \in Listings /\ H[k] \in Listings
    BY DEF Kept, Sound, Tables
  <1>2. SameListing(G[k], m)
    BY <1>1, SameTrans DEF Kept
  <1>3. [H EXCEPT ![k] = m] \in Tables
    BY <1>1, <1>2 DEF Tables, SameListing
  <1>4. Sound([H EXCEPT ![k] = m])
    BY <1>1, <1>2, <1>3 DEF Sound, Kept, Listed, SameListing, Tables
  <1>5. Listed([H EXCEPT ![k] = m]) = Listed(H)
    BY <1>1, <1>2, NoneAssumption DEF NoneAssumption, Listed, SameListing, Tables
  <1> QED
    BY <1>1, <1>2, <1>4, <1>5, NoneAssumption DEF NoneAssumption, Kept, Tables

\* refresh_liveness leaves the stamped listing younger than one quantum.
LEMMA RefreshedKept ==
    ASSUME NEW G, Sound(G), NEW r \in Stamps
    PROVE  /\ Kept(G, Refreshed(G, r))
           /\ Listed(Refreshed(G, r)) = Listed(G)
           /\ IsCurrent(Refreshed(G, r), r) => Refreshed(G, r)[r.code].age < Quantum
           /\ IsCurrent(Refreshed(G, r), r) <=> IsCurrent(G, r)
  <1>1. CASE ~RefreshDue(G, r)
    BY <1>1, KeptSelf, TimesAssumption
    DEF TimesAssumption, Refreshed, RefreshDue, IsCurrent, Sound, Tables, Listings, Lapsing,
        Stamps, Registrations
  <1>2. CASE RefreshDue(G, r)
    <2> DEFINE k == r.code
               m == [G[k] EXCEPT !.age = 0]
    <2>1. k \in Codes /\ G[k] # NoGame /\ G[k] \in Listings /\ G \in Tables
      BY <1>2 DEF RefreshDue, IsCurrent, Stamps, Registrations, Sound, Tables
    <2>2. Refreshed(G, r) = [G EXCEPT ![k] = m]
      BY <1>2, <2>1 DEF Refreshed, Tables
    <2>3. G[k].seated <= G[k].max
      BY <2>1 DEF Sound, Listed
    <2>4. SameListing(G[k], m) /\ m.age = 0 /\ m # NoGame
      BY <2>1, <2>3, TimesAssumption, NoneAssumption
      DEF TimesAssumption, NoneAssumption, SameListing, Listings, Lapsing
    <2> HIDE DEF m, k
    <2>5. Kept(G, [G EXCEPT ![k] = m])
      BY <2>1, <2>4, KeptSelf, KeptUpdate
    <2>6. [G EXCEPT ![k] = m][k] = m
      BY <2>1 DEF Tables
    <2>7. Listed([G EXCEPT ![k] = m]) = Listed(G)
      BY <2>1, <2>4 DEF Listed, Tables
    <2>8. IsCurrent([G EXCEPT ![k] = m], r) /\ IsCurrent(G, r)
      BY <1>2, <2>4, <2>6 DEF RefreshDue, IsCurrent, k, SameListing
    <2>9. [G EXCEPT ![k] = m][r.code].age < Quantum
      BY <2>4, <2>6, TimesAssumption DEF TimesAssumption, k
    <2> QED
      BY <2>2, <2>5, <2>7, <2>8, <2>9
  <1> QED
    BY <1>1, <1>2

\* unregister_registration removes at most the listing the stamp denotes.
LEMMA WithoutKept ==
    ASSUME NEW G, Sound(G), NEW r \in Stamps
    PROVE  /\ Kept(G, Without(G, r))
           /\ \A k \in Codes : \/ Without(G, r)[k] = G[k]
                               \/ IsCurrent(G, r) /\ r.code = k
  <1>1. CASE ~IsCurrent(G, r)
    BY <1>1, KeptSelf DEF Without
  <1>2. CASE IsCurrent(G, r)
    <2>1. r.code \in Codes /\ G \in Tables
      BY <1>2 DEF IsCurrent, Stamps, Registrations, Sound
    <2>2. Without(G, r) = [G EXCEPT ![r.code] = NoGame]
      BY <1>2 DEF Without
    <2>3. Without(G, r) \in Tables
      BY <2>1, <2>2 DEF Tables
    <2>4. /\ \A k \in Codes : k # r.code => Without(G, r)[k] = G[k]
          /\ Without(G, r)[r.code] = NoGame
      BY <2>1, <2>2 DEF Tables
    <2> HIDE DEF Without
    <2>5. Kept(G, Without(G, r))
      BY <2>1, <2>3, <2>4, KeptSelf DEF Kept, Sound, Listed
    <2> QED
      BY <1>2, <2>4, <2>5
  <1> QED
    BY <1>1, <1>2

\* release_reservations of a socket removes no listing.
LEMMA AllReleasedKept ==
    ASSUME NEW G, Sound(G), NEW H
    PROVE  /\ Kept(G, AllReleased(G, H))
           /\ Listed(AllReleased(G, H)) = Listed(G)
  <1> DEFINE m(k) == [G[k] EXCEPT !.held = {v \in @ : <<k, v.token>> \notin H}]
  <1>1. ASSUME NEW k \in Codes, G[k] # NoGame
        PROVE  SameListing(G[k], m(k))
    <2>1. G[k] \in Listings /\ G[k].seated <= G[k].max
      BY <1>1 DEF Sound, Tables, Listed
    <2> DEFINE h == {v \in G[k].held : <<k, v.token>> \notin H}
    <2>2. m(k) = [G[k] EXCEPT !.held = h]
      OBVIOUS
    <2>3. h \in SUBSET Reservations
      BY <2>1 DEF Listings
    <2> HIDE DEF m, h
    <2> QED
      BY <2>1, <2>2, <2>3, TimesAssumption DEF TimesAssumption, SameListing, Listings, Lapsing
  <1>2. AllReleased(G, H) = [k \in Codes |-> IF G[k] = NoGame THEN NoGame ELSE m(k)]
    BY DEF AllReleased
  <1> HIDE DEF m
  <1>3. AllReleased(G, H) \in Tables
    BY <1>1, <1>2 DEF Tables, SameListing
  <1>4. \A k \in Codes : AllReleased(G, H)[k] = IF G[k] = NoGame THEN NoGame ELSE m(k)
    BY <1>2
  <1> QED
    BY <1>1, <1>3, <1>4, NoneAssumption DEF NoneAssumption, Kept, Sound, Listed, SameListing

\* A sweep adds nothing.
LEMMA WithoutAllKept ==
    ASSUME NEW G, Sound(G), NEW R
    PROVE  Kept(G, WithoutAll(G, R))
  <1>1. \A k \in Codes : WithoutAll(G, R)[k] \in {G[k], NoGame}
    BY DEF WithoutAll
  <1>2. WithoutAll(G, R) \in Tables
    BY <1>1 DEF WithoutAll, Tables, Sound
  <1> HIDE DEF WithoutAll
  <1> QED
    BY <1>1, <1>2, KeptSelf DEF Kept, Sound, Listed

\* The sweep's refresh of listings that are kept makes them younger and no more.
LEMMA RefreshedAllKept ==
    ASSUME NEW G, Sound(G), NEW R
    PROVE  /\ Kept(G, RefreshedAll(G, R))
           /\ \A k \in Codes : G[k] # NoGame => /\ RefreshedAll(G, R)[k] # NoGame
                                                /\ RefreshedAll(G, R)[k].gen = G[k].gen
                                                /\ RefreshedAll(G, R)[k].held = G[k].held
  <1> DEFINE m(k) == [G[k] EXCEPT !.age = 0]
  <1>1. ASSUME NEW k \in Codes, G[k] # NoGame
        PROVE  SameListing(G[k], m(k)) /\ m(k).held = G[k].held
    <2>1. G[k] \in Listings /\ G[k].seated <= G[k].max
      BY <1>1 DEF Sound, Tables, Listed
    <2> QED
      BY <2>1, TimesAssumption DEF TimesAssumption, SameListing, Listings, Lapsing
  <1> HIDE DEF m
  <1>2. \A k \in Codes : G[k] # NoGame => SameListing(G[k], G[k])
    BY KeptSelf DEF Kept
  <1>3. \A k \in Codes : \/ RefreshedAll(G, R)[k] = G[k]
                         \/ RefreshedAll(G, R)[k] = m(k) /\ G[k] # NoGame
    BY DEF RefreshedAll, RefreshDue, IsCurrent, m
  <1>4. RefreshedAll(G, R) \in Tables
    <2>1. RefreshedAll(G, R) = [k \in Codes |-> RefreshedAll(G, R)[k]]
      BY DEF RefreshedAll
    <2>2. \A k \in Codes : RefreshedAll(G, R)[k] \in Listings \cup {NoGame}
      BY <1>1, <1>3 DEF SameListing, Sound, Tables
    <2> QED
      BY <2>1, <2>2 DEF Tables
  <1>5. \A k \in Codes : G[k] # NoGame =>
            /\ RefreshedAll(G, R)[k] # NoGame
            /\ SameListing(G[k], RefreshedAll(G, R)[k])
            /\ RefreshedAll(G, R)[k].held = G[k].held
    BY <1>1, <1>2, <1>3, NoneAssumption DEF NoneAssumption, SameListing
  <1>6. \A k \in Codes : RefreshedAll(G, R)[k] # NoGame => G[k] # NoGame
    BY <1>3
  <1>7. Kept(G, RefreshedAll(G, R))
    BY <1>4, <1>5, <1>6 DEF Kept, Sound, Listed, SameListing
  <1> QED
    BY <1>5, <1>7 DEF SameListing

\* A reservation's remaining time shrinks, and a listing ages by one.
LEMMA AgedSound ==
    ASSUME NEW G, G \in Tables
    PROVE  /\ Aged(G) \in Tables
           /\ Listed(Aged(G)) = Listed(G)
           /\ \A k \in Listed(G) : /\ Aged(G)[k].gen = G[k].gen
                                   /\ Aged(G)[k].owner = G[k].owner
                                   /\ Aged(G)[k].age <= G[k].age + 1
                                   /\ Aged(G)[k].seated = G[k].seated
                                   /\ Aged(G)[k].max = G[k].max
  <1> DEFINE h(k) == {[v EXCEPT !.left = AtLeast(@ - 1, 0)] : v \in G[k].held}
             a(k) == AtMost(G[k].age + 1, Lapsing)
             m(k) == [G[k] EXCEPT !.age = a(k), !.held = h(k)]
  <1>1. ASSUME NEW k \in Codes, G[k] # NoGame
        PROVE  /\ m(k) \in Listings /\ m(k) # NoGame
               /\ m(k).gen = G[k].gen /\ m(k).owner = G[k].owner /\ m(k).age <= G[k].age + 1
               /\ m(k).seated = G[k].seated /\ m(k).max = G[k].max
    <2>1. G[k] \in Listings
      BY <1>1 DEF Tables
    <2>2. G[k].held \in SUBSET Reservations /\ G[k].age \in 0 .. Lapsing
      BY <2>1 DEF Listings
    <2>3. a(k) \in 0 .. Lapsing /\ a(k) <= G[k].age + 1
      BY <2>2, TimesAssumption DEF TimesAssumption, AtMost, Lapsing
    <2>4. h(k) \in SUBSET Reservations
      <3>1. ASSUME NEW v \in Reservations
            PROVE  [v EXCEPT !.left = AtLeast(@ - 1, 0)] \in Reservations
        BY TimesAssumption DEF TimesAssumption, Reservations, AtLeast
      <3> QED
        BY <2>2, <3>1
    <2> HIDE DEF a, h
    <2>5. m(k) \in Listings
      BY <2>1, <2>3, <2>4 DEF Listings
    <2> QED
      BY <2>1, <2>3, <2>5, NoneAssumption DEF NoneAssumption, Listings
  <1>2. Aged(G) = [k \in Codes |-> IF G[k] = NoGame THEN NoGame ELSE m(k)]
    BY DEF Aged
  <1> HIDE DEF m
  <1> QED
    BY <1>1, <1>2 DEF Tables, Listed

-----------------------------------------------------------------------------
(* The inductive invariant.                                                *)

\* The invariant holds of an empty lobby.
LEMMA LobbyInit == Init => LobbyInv
  <1> SUFFICES ASSUME Init PROVE LobbyInv
    OBVIOUS
  <1>1. games \in Tables /\ Listed(games) = {}
    BY DEF Init, Tables, Listed
  <1>2. \A c \in Conns : host[c] = NoReg
    BY DEF Init
  <1>3. TypeOK
    <2>1. saved \in [games : Tables, nextGen : Nat]
      BY <1>1 DEF Init
    <2>2. host \in [Conns -> Registrations \cup {NoReg}]
      BY DEF Init
    <2>3. silent \in [Conns -> 0 .. TooSilent]
      BY TimesAssumption DEF TimesAssumption, Init, TooSilent
    <2>4. holds \in [Conns -> SUBSET (Codes \X Tokens)]
      BY DEF Init
    <2>5. /\ durable \in Shells /\ nextGen \in Nat /\ open \subseteq Conns
          /\ observed \subseteq Registrations /\ alarm \in BOOLEAN
      BY DEF Init
    <2> QED
      BY <1>1, <2>1, <2>2, <2>3, <2>4, <2>5 DEF TypeOK, Tables
  <1> QED
    BY <1>1, <1>2, <1>3
    DEF LobbyInv, Init, IdentityInv, StampIsOwn, ClosedInv, AgeInv, IsCurrent,
        EvictionLosesNothing, ReaperAwake

\* What a call does that adds no listing, for any effect it has on the sockets'
\* stamps but a new one.  The stamp of a host whose silence ends is fresh.
LEMMA KeepingStep ==
    ASSUME LobbyInv, Kept(games, games'), nextGen' = nextGen,
           durable' = durable, open' \subseteq Conns, observed' \subseteq Registrations,
           holds' \in [Conns -> SUBSET (Codes \X Tokens)],
           host' \in [Conns -> Stamps], silent' \in [Conns -> 0 .. TooSilent],
           \A c \in Conns : host'[c] \in {host[c], NoReg},
           \A c \in Conns : c \notin open' => host'[c] = NoReg,
           durable => observed' = {},
           \A c \in Conns : IsCurrent(games', host'[c])
               => (silent'[c] = silent[c] \/ games'[host'[c].code].age < silent'[c] + Quantum),
           saved' \in [games : Tables, nextGen : Nat],
           durable => saved' = [games |-> games', nextGen |-> nextGen],
           alarm' \in BOOLEAN,
           (durable /\ Listed(games') # {}) => alarm'
    PROVE  LobbyInv'
  <1> USE DEF LobbyInv
  <1>1. /\ games \in Tables /\ games' \in Tables
        /\ \A k \in Listed(games') : games'[k].seated <= games'[k].max
        /\ nextGen \in Nat
    BY DEF TypeOK, Tables, Kept, Sound
  <1>2. TypeOK'
    BY <1>1 DEF TypeOK, Tables, Stamps
  <1>3. ASSUME NEW k \in Codes, games'[k] # NoGame
        PROVE  /\ games[k] # NoGame
               /\ games'[k].gen = games[k].gen
               /\ games'[k].owner = games[k].owner
               /\ games'[k].age <= games[k].age
               /\ games'[k].age \in Nat /\ games[k].age \in Nat
    BY <1>1, <1>3, TimesAssumption
    DEF TimesAssumption, Kept, SameListing, Tables, Listings, Lapsing
  <1>4. IdentityInv'
    BY <1>3 DEF IdentityInv, Listed
  <1>5. ASSUME NEW c \in Conns, IsCurrent(games', host'[c])
        PROVE  /\ host'[c] = host[c] /\ host[c] # NoReg /\ host[c].code \in Codes
               /\ IsCurrent(games, host[c])
               /\ games'[host[c].code] # NoGame
    <2>1. host'[c] # NoReg /\ host'[c] = host[c]
      BY <1>5 DEF IsCurrent
    <2>2. host[c].code \in Codes
      BY <2>1 DEF TypeOK, Registrations
    <2> QED
      BY <1>3, <1>5, <2>1, <2>2 DEF IsCurrent
  <1>6. StampIsOwn'
    BY <1>3, <1>5 DEF StampIsOwn
  <1>7. AgeInv'
    <2> SUFFICES ASSUME NEW c \in Conns, IsCurrent(games', host'[c])
                 PROVE  \/ games'[host'[c].code].age < silent'[c] + Quantum
                        \/ silent'[c] = TooSilent
      BY DEF AgeInv
    <2>1. CASE games'[host'[c].code].age < silent'[c] + Quantum
      BY <2>1
    <2>2. CASE silent'[c] = silent[c]
      <3> DEFINE k == host[c].code
      <3>1. /\ k \in Codes /\ games'[k] # NoGame /\ host'[c].code = k
            /\ games[k].age < silent[c] + Quantum \/ silent[c] = TooSilent
        BY <1>5 DEF AgeInv
      <3>2. /\ games'[k].age <= games[k].age
            /\ games'[k].age \in Nat /\ games[k].age \in Nat
        BY <1>3, <3>1
      <3>3. silent[c] \in 0 .. TooSilent /\ TooSilent \in Int /\ Quantum \in Nat
        BY TimesAssumption DEF TimesAssumption, TypeOK, TooSilent
      <3> HIDE DEF k
      <3> QED
        BY <2>2, <3>1, <3>2, <3>3
    <2> QED
      BY <2>1, <2>2
  <1>8. ClosedInv'
    BY DEF ClosedInv
  <1>9. EvictionLosesNothing' /\ ReaperAwake'
    BY DEF EvictionLosesNothing, ReaperAwake
  <1> QED
    BY <1>2, <1>4, <1>6, <1>7, <1>8, <1>9

\* The broker that a frame of socket c finds: its own listing is fresh.
LEMMA AliveKept ==
    ASSUME LobbyInv, NEW c \in Conns
    PROVE  /\ Sound(games) /\ host[c] \in Stamps
           /\ Kept(games, Alive(c)) /\ Sound(Alive(c))
           /\ Listed(Alive(c)) = Listed(games)
           /\ IsCurrent(Alive(c), host[c]) <=> IsCurrent(games, host[c])
           /\ IsCurrent(Alive(c), host[c]) => Alive(c)[host[c].code].age < Quantum
  <1>1. Sound(games) /\ host[c] \in Stamps
    BY DEF LobbyInv, TypeOK, Sound, Tables, Stamps
  <1> QED
    BY <1>1, RefreshedKept DEF Alive, Kept

\* A frame that adds no listing.
LEMMA FrameStep ==
    ASSUME LobbyInv, NEW c \in Conns, Frame(c),
           NEW G, Kept(Alive(c), G), NEW dirty \in BOOLEAN, Commit(G, nextGen, dirty),
           dirty \/ G = games,
           holds' \in [Conns -> SUBSET (Codes \X Tokens)],
           host' = host \/ host' = [host EXCEPT ![c] = NoReg]
    PROVE  LobbyInv' /\ Kept(games, games') /\ games' = G
  <1>0. /\ durable \in BOOLEAN /\ alarm \in BOOLEAN /\ TypeOK
        /\ EvictionLosesNothing /\ ReaperAwake
    BY ShellAssumption DEF ShellAssumption, LobbyInv, TypeOK
  <1>1. Kept(games, games') /\ games' = G
    BY AliveKept, KeptTrans DEF Commit
  <1>2. /\ nextGen' = nextGen /\ durable' = durable /\ open' = open /\ observed' = observed
        /\ silent' = [silent EXCEPT ![c] = 0] /\ c \in open
    BY DEF Commit, Frame
  <1>3. /\ host \in [Conns -> Stamps] /\ host' \in [Conns -> Stamps]
        /\ \A d \in Conns : host'[d] \in {host[d], NoReg}
    BY <1>0 DEF TypeOK, Stamps
  <1>4. /\ silent' \in [Conns -> 0 .. TooSilent]
        /\ silent'[c] = 0
        /\ \A d \in Conns : d # c => silent'[d] = silent[d]
    BY <1>0, <1>2, TimesAssumption DEF TimesAssumption, TypeOK, TooSilent
  <1>5. ASSUME NEW d \in Conns, IsCurrent(games', host'[d])
        PROVE  silent'[d] = silent[d] \/ games'[host'[d].code].age < silent'[d] + Quantum
    <2>1. CASE d # c
      BY <1>4, <2>1
    <2>2. CASE d = c
      <3> DEFINE k == host[c].code
      <3>1. host[c] # NoReg /\ host'[c] = host[c] /\ k \in Codes /\ G[k] # NoGame
            /\ G[k].gen = host[c].gen
        BY <1>1, <1>3, <1>5, <2>2 DEF IsCurrent, Stamps, Registrations
      <3>2. Alive(c)[k] # NoGame /\ SameListing(Alive(c)[k], G[k])
        BY <3>1 DEF Kept
      <3>3. IsCurrent(Alive(c), host[c])
        BY <3>1, <3>2 DEF IsCurrent, SameListing
      <3>4. Alive(c)[k].age < Quantum
        BY <3>3, AliveKept
      <3>5. G[k].age <= Alive(c)[k].age
        BY <3>2 DEF SameListing
      <3>6. G[k].age \in Nat /\ Alive(c)[k].age \in Nat
        <4>1. G[k] \in Listings /\ Alive(c)[k] \in Listings
          BY <3>1, <3>2, AliveKept DEF SameListing, Sound, Tables
        <4> QED
          BY <4>1, TimesAssumption DEF TimesAssumption, Listings, Lapsing
      <3> HIDE DEF k
      <3>7. G[k].age < 0 + Quantum
        BY <3>4, <3>5, <3>6, TimesAssumption DEF TimesAssumption
      <3> QED
        BY <1>1, <1>4, <2>2, <3>1, <3>7 DEF k
    <2> QED
      BY <2>1, <2>2
  <1>6. /\ \A d \in Conns : d \notin open' => host'[d] = NoReg
        /\ durable => observed' = {}
    BY <1>2, <1>3 DEF LobbyInv, ClosedInv
  <1>7. /\ saved' = IF durable /\ dirty THEN [games |-> G, nextGen |-> nextGen] ELSE saved
        /\ alarm' = (alarm \/ (durable /\ dirty))
    BY DEF Commit
  <1>8. /\ saved' \in [games : Tables, nextGen : Nat]
        /\ durable => saved' = [games |-> games', nextGen |-> nextGen]
    BY <1>0, <1>1, <1>7 DEF TypeOK, Tables, Kept, Sound, EvictionLosesNothing
  <1>9. /\ alarm' \in BOOLEAN
        /\ (durable /\ Listed(games') # {}) => alarm'
    BY <1>0, <1>1, <1>7 DEF ReaperAwake
  <1>10. open' \subseteq Conns /\ observed' \subseteq Registrations
    BY <1>0, <1>2 DEF TypeOK
  <1> HIDE DEF Frame, Commit
  <1> QED
    BY <1>1, <1>2, <1>3, <1>4, <1>5, <1>6, <1>8, <1>9, <1>10, KeepingStep

\* The table without the caller's own previous listing.
LEMMA RestKept ==
    ASSUME LobbyInv, NEW c \in Conns
    PROVE  Kept(Alive(c), Without(Alive(c), host[c]))
  BY AliveKept, WithoutKept

\* A game is listed: the new identity is one that no stamp bears.
LEMMA ListedStep ==
    ASSUME LobbyInv, NEW c \in Conns, Frame(c), NEW k \in Codes, NEW size \in Sizes,
           NEW G, Kept(Alive(c), G),
           Commit([G EXCEPT ![k] = [gen |-> nextGen, owner |-> c, age |-> 0, seated |-> 1,
                                    max |-> size, held |-> {}]], nextGen + 1, TRUE),
           host' = [host EXCEPT ![c] = [code |-> k, gen |-> nextGen]],
           holds' = holds
    PROVE  LobbyInv'
  <1> DEFINE new == [gen |-> nextGen, owner |-> c, age |-> 0, seated |-> 1,
                     max |-> size, held |-> {}]
  <1>0. TypeOK /\ games \in Tables /\ nextGen \in Nat
    BY DEF LobbyInv, TypeOK, Tables
  <1>1. /\ new \in Listings /\ new # NoGame /\ new.seated <= new.max
        /\ new.gen = nextGen /\ new.owner = c /\ new.age = 0
    <2>1. size \in Nat /\ 1 <= size
      BY SizesAssumption DEF SizesAssumption
    <2>2. 0 \in 0 .. Lapsing
      BY TimesAssumption DEF TimesAssumption, Lapsing
    <2>3. new \in Listings
      BY <1>0, <2>1, <2>2 DEF Listings
    <2> QED
      BY <2>1, <2>3, NoneAssumption DEF NoneAssumption
  <1> HIDE DEF new
  <1>2. games' = [G EXCEPT ![k] = new] /\ nextGen' = nextGen + 1
    BY DEF Commit, new
  <1>3. Kept(games, G) /\ G \in Tables
    BY AliveKept, KeptTrans DEF Kept, Sound
  <1>4. /\ games' \in Tables /\ games'[k] = new
        /\ \A j \in Codes : j # k => games'[j] = G[j]
    BY <1>1, <1>2, <1>3 DEF Tables
  <1>5. ASSUME NEW j \in Codes, j # k, games'[j] # NoGame
        PROVE  /\ games[j] # NoGame
               /\ games'[j].gen = games[j].gen
               /\ games'[j].owner = games[j].owner
               /\ games'[j].age <= games[j].age
               /\ games'[j].age \in Nat /\ games[j].age \in Nat
               /\ games'[j].seated <= games'[j].max
    BY <1>0, <1>3, <1>4, <1>5, TimesAssumption
    DEF TimesAssumption, Kept, SameListing, Tables, Listings, Lapsing
  <1>6. /\ silent' \in [Conns -> 0 .. TooSilent]
        /\ silent'[c] = 0
        /\ \A d \in Conns : d # c => silent'[d] = silent[d]
    BY <1>0, TimesAssumption DEF TimesAssumption, TypeOK, TooSilent, Frame
  <1>7. /\ host \in [Conns -> Stamps] /\ host' \in [Conns -> Stamps]
        /\ host'[c] = [code |-> k, gen |-> nextGen]
        /\ \A d \in Conns : d # c => host'[d] = host[d]
    <2>1. host \in [Conns -> Stamps] /\ [code |-> k, gen |-> nextGen] \in Stamps
      BY <1>0 DEF TypeOK, Stamps, Registrations
    <2> QED
      BY <2>1
  <1>8. /\ saved' = IF durable THEN [games |-> games', nextGen |-> nextGen'] ELSE saved
        /\ alarm' = (alarm \/ durable)
        /\ durable' = durable /\ open' = open /\ observed' = observed /\ c \in open
    BY <1>2 DEF Commit, Frame, new
  <1>9. TypeOK'
    <2>1. \A j \in Listed(games)' : games'[j].seated <= games'[j].max
      BY <1>1, <1>4, <1>5 DEF Listed
    <2>2. saved' \in [games : Tables, nextGen : Nat]
      BY <1>0, <1>2, <1>4, <1>8 DEF TypeOK, Tables
    <2>3. alarm' \in BOOLEAN
      BY <1>0, <1>8, ShellAssumption DEF ShellAssumption, TypeOK
    <2>4. holds' \in [Conns -> SUBSET (Codes \X Tokens)] /\ nextGen' \in Nat
      BY <1>0, <1>2 DEF TypeOK
    <2>5. durable' \in Shells /\ open' \subseteq Conns /\ observed' \subseteq Registrations
      BY <1>0, <1>8 DEF TypeOK
    <2> QED
      BY <1>4, <1>6, <1>7, <2>1, <2>2, <2>3, <2>4, <2>5 DEF TypeOK, Tables, Stamps
  <1>10. IdentityInv'
    <2>1. \A j \in Listed(games)' : games'[j].gen < nextGen'
      <3> SUFFICES ASSUME NEW j \in Codes, games'[j] # NoGame
                   PROVE  games'[j].gen < nextGen'
        BY DEF Listed
      <3>1. CASE j = k
        BY <1>0, <1>1, <1>2, <1>4, <3>1
      <3>2. CASE j # k
        <4>1. games'[j].gen = games[j].gen /\ games[j].gen < nextGen /\ games[j].gen \in Nat
          BY <1>0, <1>5, <3>2 DEF LobbyInv, IdentityInv, Listed, Tables, Listings
        <4> QED
          BY <1>0, <1>2, <4>1
      <3> QED
        BY <3>1, <3>2
    <2>2. ASSUME NEW d \in Conns, host'[d] # NoReg
          PROVE  host'[d].gen < nextGen'
      <3>1. CASE d = c
        BY <1>0, <1>2, <1>7, <3>1
      <3>2. CASE d # c
        <4>1. host'[d] = host[d] /\ host[d].gen < nextGen /\ host[d].gen \in Nat
          BY <1>7, <2>2, <3>2 DEF LobbyInv, IdentityInv, Stamps, Registrations
        <4> QED
          BY <1>0, <1>2, <4>1
      <3> QED
        BY <3>1, <3>2
    <2> QED
      BY <2>1, <2>2 DEF IdentityInv
  <1>11. ASSUME NEW d \in Conns, d # c, IsCurrent(games', host'[d])
         PROVE  /\ host'[d] = host[d] /\ host[d] # NoReg
                /\ host[d].code \in Codes /\ host[d].code # k
                /\ games'[host[d].code] # NoGame
                /\ IsCurrent(games, host[d])
    <2>1. host'[d] = host[d] /\ host[d] # NoReg /\ host[d] \in Registrations
      BY <1>7, <1>11 DEF IsCurrent, Stamps
    <2>2. host[d].gen < nextGen /\ host[d].gen \in Nat /\ host[d].code \in Codes
      BY <2>1 DEF LobbyInv, IdentityInv, Registrations
    <2>3. host[d].code # k
      BY <1>0, <1>1, <1>4, <1>11, <2>1, <2>2 DEF IsCurrent
    <2> QED
      BY <1>5, <1>11, <2>1, <2>2, <2>3 DEF IsCurrent
  <1>12. StampIsOwn'
    <2> SUFFICES ASSUME NEW d \in Conns, IsCurrent(games', host'[d])
                 PROVE  games'[host'[d].code].owner = d
      BY DEF StampIsOwn
    <2>1. CASE d = c
      BY <1>1, <1>4, <1>7, <2>1
    <2>2. CASE d # c
      <3>1. games[host[d].code].owner = d
        BY <1>11, <2>2 DEF LobbyInv, StampIsOwn
      <3> QED
        BY <1>5, <1>11, <2>2, <3>1
    <2> QED
      BY <2>1, <2>2
  <1>13. AgeInv'
    <2> SUFFICES ASSUME NEW d \in Conns, IsCurrent(games', host'[d])
                 PROVE  \/ games'[host'[d].code].age < silent'[d] + Quantum
                        \/ silent'[d] = TooSilent
      BY DEF AgeInv
    <2>1. CASE d = c
      BY <1>1, <1>4, <1>6, <1>7, <2>1, TimesAssumption DEF TimesAssumption
    <2>2. CASE d # c
      <3> DEFINE j == host[d].code
      <3>1. /\ j \in Codes /\ j # k /\ games'[j] # NoGame /\ host'[d].code = j
            /\ games[j].age < silent[d] + Quantum \/ silent[d] = TooSilent
        BY <1>11, <2>2 DEF LobbyInv, AgeInv
      <3>2. /\ games'[j].age <= games[j].age
            /\ games'[j].age \in Nat /\ games[j].age \in Nat
        BY <1>5, <3>1
      <3>3. silent'[d] = silent[d] /\ silent[d] \in Int /\ Quantum \in Nat
        BY <1>0, <1>6, <2>2, TimesAssumption DEF TimesAssumption, TypeOK, TooSilent
      <3> HIDE DEF j
      <3> QED
        BY <3>1, <3>2, <3>3
    <2> QED
      BY <2>1, <2>2
  <1>14. ClosedInv'
    BY <1>7, <1>8 DEF LobbyInv, ClosedInv
  <1>15. EvictionLosesNothing' /\ ReaperAwake'
    BY <1>8 DEF EvictionLosesNothing, ReaperAwake
  <1> QED
    BY <1>9, <1>10, <1>12, <1>13, <1>14, <1>15 DEF LobbyInv

\* CreateGameWithSettings, refused or not, preserves the invariant.
LEMMA CreateGameStep ==
    ASSUME LobbyInv, NEW c \in Conns, NEW k \in Codes, NEW requested \in BOOLEAN,
           NEW size \in Sizes, CreateGame(c, k, requested, size)
    PROVE  LobbyInv'
  <1> DEFINE rest == Without(Alive(c), host[c])
             new == [gen |-> nextGen, owner |-> c, age |-> 0, seated |-> 1,
                     max |-> size, held |-> {}]
  <1>1. Kept(Alive(c), rest)
    BY RestKept
  <1>2. /\ Frame(c) /\ holds' = holds
        /\ \/ /\ Commit(rest, nextGen, TRUE)
              /\ host' = [host EXCEPT ![c] = NoReg]
           \/ /\ Commit([rest EXCEPT ![k] = new], nextGen + 1, TRUE)
              /\ host' = [host EXCEPT ![c] = [code |-> k, gen |-> nextGen]]
    BY DEF CreateGame
  <1>3. holds' \in [Conns -> SUBSET (Codes \X Tokens)]
    BY <1>2 DEF LobbyInv, TypeOK
  <1> HIDE DEF rest
  <1>4. CASE /\ Commit(rest, nextGen, TRUE)
             /\ host' = [host EXCEPT ![c] = NoReg]
    BY <1>1, <1>2, <1>3, <1>4, FrameStep
  <1>5. CASE /\ Commit([rest EXCEPT ![k] = new], nextGen + 1, TRUE)
             /\ host' = [host EXCEPT ![c] = [code |-> k, gen |-> nextGen]]
    BY <1>1, <1>2, <1>5, ListedStep
  <1> QED
    BY <1>2, <1>4, <1>5

\* A join removes no listing and preserves the invariant.
LEMMA JoinGameStep ==
    ASSUME LobbyInv, NEW c \in Conns, NEW k \in Codes, NEW t \in Tokens \cup {NoToken},
           JoinGame(c, k, t)
    PROVE  LobbyInv' /\ NoneRemoved
  <1> DEFINE G == Alive(c)
             consumes == /\ ~Hosts(G, c, k) /\ G[k] # NoGame
                         /\ t # NoToken /\ <<k, t>> \in holds[c] /\ t \in TokensOf(G[k])
             H == IF consumes THEN [G EXCEPT ![k] = Consume(G[k], {t})] ELSE G
  <1>0. Sound(G)
    BY AliveKept
  <1>1. Frame(c) /\ Commit(H, nextGen, TRUE) /\ host' = host
    BY DEF JoinGame
  <1>2. holds' \in [Conns -> SUBSET (Codes \X Tokens)]
    BY DEF JoinGame, LobbyInv, TypeOK
  <1>3. Kept(G, H) /\ Listed(H) = Listed(games)
    <2>1. CASE consumes
      <3>1. G[k] \in Listings /\ G[k].seated <= G[k].max /\ {t} \in SUBSET Tokens
        BY <1>0, <2>1 DEF Sound, Tables, Listed
      <3>2. SameListing(G[k], Consume(G[k], {t}))
        BY <3>1, ConsumeSame
      <3> QED
        BY <1>0, <2>1, <3>2, KeptSelf, KeptUpdate, AliveKept
    <2>2. CASE ~consumes
      BY <1>0, <2>2, KeptSelf, AliveKept
    <2> QED
      BY <2>1, <2>2
  <1> HIDE DEF H
  <1> QED
    BY <1>1, <1>2, <1>3, FrameStep DEF NoneRemoved

\* A lookup, with or without a reservation, removes no listing and preserves
\* the invariant.
LEMMA LookupStep ==
    ASSUME LobbyInv, NEW c \in Conns, NEW k \in Codes, NEW t \in Tokens \cup {NoToken},
           NEW reserve \in BOOLEAN, LookupJoinTarget(c, k, t, reserve)
    PROVE  LobbyInv' /\ NoneRemoved
  <1> DEFINE G == Alive(c)
             released == IF t = NoToken THEN G[k] ELSE Release(G[k], t)
             cleaned == Cleaned(released)
             H == IF t \in TokensOf(G[k]) THEN holds[c] \ {<<k, t>>} ELSE holds[c]
             kept == {p \in H : p[1] = k => p[2] \in TokensOf(cleaned)}
             reserved(u) == [cleaned EXCEPT !.held = @ \cup {[token |-> u, left |-> Lifetime]}]
             Outcome(l, own) == /\ Commit([G EXCEPT ![k] = l], nextGen, TRUE)
                                /\ holds' = [holds EXCEPT ![c] = own]
  <1>0. Sound(G) /\ holds \in [Conns -> SUBSET (Codes \X Tokens)]
    BY AliveKept DEF LobbyInv, TypeOK
  <1>1. Frame(c) /\ host' = host
    BY DEF LookupJoinTarget
  <1>2. \/ Commit(G, nextGen, TRUE) /\ holds' = holds
        \/ /\ G[k] # NoGame
           /\ \/ Outcome(released, H)
              \/ Outcome(cleaned, kept)
              \/ \E u \in Tokens : Outcome(reserved(u), kept \cup {<<k, u>>})
    BY DEF LookupJoinTarget, FreshTokens
  <1>3. H \in SUBSET (Codes \X Tokens) /\ kept \in SUBSET (Codes \X Tokens)
    BY <1>0
  <1>4. ASSUME G[k] # NoGame
        PROVE  /\ SameListing(G[k], released)
               /\ SameListing(G[k], cleaned)
               /\ \A u \in Tokens : SameListing(G[k], reserved(u))
    <2>1. G[k] \in Listings /\ G[k].seated <= G[k].max
      BY <1>0, <1>4 DEF Sound, Tables, Listed
    <2>2. SameListing(G[k], G[k])
      BY <2>1, TimesAssumption DEF TimesAssumption, SameListing, Listings, Lapsing
    <2>3. SameListing(G[k], released)
      BY <2>1, <2>2, ReleaseSame
    <2> HIDE DEF released
    <2>4. released \in Listings /\ released.seated <= released.max
      BY <2>3 DEF SameListing
    <2>5. SameListing(G[k], cleaned)
      BY <2>1, <2>3, <2>4, CleanedSame, SameTrans
    <2> HIDE DEF cleaned
    <2>6. cleaned \in Listings /\ cleaned.seated <= cleaned.max
      BY <2>5 DEF SameListing
    <2>7. ASSUME NEW u \in Tokens
          PROVE  SameListing(G[k], reserved(u))
      <3> DEFINE h == cleaned.held \cup {[token |-> u, left |-> Lifetime]}
      <3>1. h \in SUBSET Reservations
        <4>1. [token |-> u, left |-> Lifetime] \in Reservations
          BY TimesAssumption DEF TimesAssumption, Reservations
        <4> QED
          BY <2>6, <4>1 DEF Listings
      <3> HIDE DEF h
      <3>2. SameListing(cleaned, [cleaned EXCEPT !.held = h])
        BY <2>6, <3>1, TimesAssumption DEF TimesAssumption, SameListing, Listings, Lapsing
      <3> QED
        BY <2>1, <2>5, <3>2, SameTrans DEF h
    <2> QED
      BY <2>3, <2>5, <2>7
  <1> HIDE DEF released, cleaned, H, kept, reserved
  <1>5. ASSUME G[k] # NoGame, NEW l, SameListing(G[k], l),
               NEW own \in SUBSET (Codes \X Tokens), Outcome(l, own)
        PROVE  LobbyInv' /\ NoneRemoved
    <2>0. Kept(G, G) /\ Listed(G) = Listed(games)
      BY <1>0, KeptSelf, AliveKept
    <2>1. Kept(G, [G EXCEPT ![k] = l]) /\ Listed([G EXCEPT ![k] = l]) = Listed(games)
      <3> HIDE DEF G
      <3> QED
        BY <1>0, <1>5, <2>0, KeptUpdate
    <2>2. holds' \in [Conns -> SUBSET (Codes \X Tokens)]
      BY <1>0, <1>5
    <2> QED
      BY <1>1, <1>5, <2>1, <2>2, FrameStep DEF NoneRemoved
  <1>6. CASE Commit(G, nextGen, TRUE) /\ holds' = holds
    <2>1. Kept(G, G) /\ Listed(G) = Listed(games)
      BY <1>0, KeptSelf, AliveKept
    <2> HIDE DEF G
    <2> QED
      BY <1>0, <1>1, <1>6, <2>1, FrameStep DEF G, NoneRemoved
  <1>7. CASE /\ G[k] # NoGame
             /\ \/ Outcome(released, H)
                \/ Outcome(cleaned, kept)
    BY <1>3, <1>4, <1>5, <1>7
  <1>8. CASE /\ G[k] # NoGame
             /\ \E u \in Tokens : Outcome(reserved(u), kept \cup {<<k, u>>})
    <2>1. PICK u \in Tokens : Outcome(reserved(u), kept \cup {<<k, u>>})
      BY <1>8
    <2>2. kept \cup {<<k, u>>} \in SUBSET (Codes \X Tokens)
      BY <1>3
    <2> QED
      BY <1>4, <1>5, <1>8, <2>1, <2>2
  <1> QED
    BY <1>2, <1>6, <1>7, <1>8

\* The host's report changes its own listing only.
LEMMA UpdateStep ==
    ASSUME LobbyInv, NEW c \in Conns, NEW size \in Sizes, NEW T \in SUBSET Tokens,
           NEW players \in 0 .. size, UpdateMetadata(c, players, size, T)
    PROVE  LobbyInv' /\ NoneRemoved
  <1> DEFINE G == Alive(c)
             k == host[c].code
             after == Consume(G[k], T)
             floor == IF T \cap TokensOf(G[k]) = {} THEN 0 ELSE after.seated
             n == AtMost(AtLeast(players, floor), size)
             l == [Cleaned(after) EXCEPT !.seated = n, !.max = size]
             H == IF IsCurrent(G, host[c]) THEN [G EXCEPT ![k] = l] ELSE G
  <1>0. Sound(G) /\ host[c] \in Stamps
    BY AliveKept
  <1>1. Frame(c) /\ Commit(H, nextGen, TRUE) /\ host' = host /\ holds' = holds
    BY DEF UpdateMetadata
  <1>2. holds' \in [Conns -> SUBSET (Codes \X Tokens)]
    BY <1>1 DEF LobbyInv, TypeOK
  <1>3. Kept(G, H) /\ Listed(H) = Listed(games)
    <2>1. CASE IsCurrent(G, host[c])
      <3>1. k \in Codes /\ G[k] # NoGame
        BY <1>0, <2>1 DEF IsCurrent, Stamps, Registrations
      <3>2. G[k] \in Listings /\ G[k].seated <= G[k].max
        BY <1>0, <3>1 DEF Sound, Tables, Listed
      <3>3. SameListing(G[k], after)
        BY <3>2, ConsumeSame
      <3> HIDE DEF after
      <3>4. after \in Listings /\ after.seated <= after.max
        BY <3>3 DEF SameListing
      <3> DEFINE m == Cleaned(after)
      <3>5. SameListing(G[k], m)
        BY <3>2, <3>3, <3>4, CleanedSame, SameTrans
      <3> HIDE DEF m
      <3>6. size \in Nat /\ players \in Nat /\ after.seated \in Nat
        BY <3>4, SizesAssumption DEF SizesAssumption, Listings
      <3>7. n \in Nat /\ n <= size
        BY <3>6 DEF AtMost, AtLeast
      <3> HIDE DEF n
      <3>8. m \in Listings
        BY <3>5 DEF SameListing
      <3> DEFINE w == [m EXCEPT !.seated = n, !.max = size]
      <3>9. w \in Listings
        BY <3>6, <3>7, <3>8 DEF Listings
      <3>10. /\ w.gen = m.gen /\ w.owner = m.owner /\ w.age = m.age
             /\ w.seated = n /\ w.max = size
        BY <3>8 DEF Listings
      <3>11. w = l
        BY DEF m
      <3> HIDE DEF w
      <3>12. SameListing(G[k], w)
        BY <3>5, <3>7, <3>9, <3>10 DEF SameListing
      <3> QED
        BY <1>0, <2>1, <3>1, <3>11, <3>12, KeptSelf, KeptUpdate, AliveKept
    <2>2. CASE ~IsCurrent(G, host[c])
      BY <1>0, <2>2, KeptSelf, AliveKept
    <2> QED
      BY <2>1, <2>2
  <1> HIDE DEF H
  <1> QED
    BY <1>1, <1>2, <1>3, FrameStep DEF NoneRemoved

\* A host that withdraws its listing loses its stamp with it.
LEMMA UnregisterStep ==
    ASSUME LobbyInv, NEW c \in Conns, UnregisterLobby(c)
    PROVE  LobbyInv'
  <1> DEFINE G == Without(Alive(c), host[c])
  <1>1. /\ Frame(c) /\ Commit(G, nextGen, TRUE)
        /\ host' = [host EXCEPT ![c] = NoReg] /\ holds' = holds
    BY DEF UnregisterLobby
  <1>2. holds' \in [Conns -> SUBSET (Codes \X Tokens)]
    BY <1>1 DEF LobbyInv, TypeOK
  <1>3. Kept(Alive(c), G)
    BY RestKept
  <1> HIDE DEF G
  <1> QED
    BY <1>1, <1>2, <1>3, FrameStep

\* A frame that only reads and is not saved has not moved the clock.
LEMMA PingStep ==
    ASSUME LobbyInv, NEW c \in Conns, Ping(c)
    PROVE  LobbyInv' /\ NoneRemoved
  <1>1. Frame(c) /\ Commit(Alive(c), nextGen, Dirty(c)) /\ host' = host /\ holds' = holds
    BY DEF Ping
  <1>2. holds' \in [Conns -> SUBSET (Codes \X Tokens)]
    BY <1>1 DEF LobbyInv, TypeOK
  <1>3. Kept(Alive(c), Alive(c))
    BY AliveKept, KeptSelf
  <1>4. Dirty(c) \in BOOLEAN /\ (Dirty(c) \/ Alive(c) = games)
    BY DEF Dirty, RefreshDue, IsCurrent, Alive, Refreshed
  <1> DEFINE G == Alive(c)
             d == Dirty(c)
  <1> HIDE DEF d
  <1>5. d \in BOOLEAN /\ (d \/ G = games) /\ Commit(G, nextGen, d)
    BY <1>1, <1>4 DEF d
  <1> QED
    BY <1>1, <1>2, <1>3, <1>5, FrameStep, AliveKept DEF NoneRemoved

\* What the steps below use of the invariant.
LEMMA TypeFacts ==
    ASSUME LobbyInv
    PROVE  /\ Sound(games) /\ host \in [Conns -> Stamps]
           /\ holds \in [Conns -> SUBSET (Codes \X Tokens)]
           /\ silent \in [Conns -> 0 .. TooSilent]
           /\ saved \in [games : Tables, nextGen : Nat]
           /\ nextGen \in Nat /\ alarm \in BOOLEAN /\ durable \in BOOLEAN
           /\ open \subseteq Conns /\ observed \subseteq Registrations
           /\ \A c \in Conns : c \notin open => host[c] = NoReg
           /\ durable => observed = {}
           /\ durable => saved = [games |-> games, nextGen |-> nextGen]
           /\ (durable /\ Listed(games) # {}) => alarm
           /\ 0 \in 0 .. TooSilent
  BY ShellAssumption, TimesAssumption
  DEF ShellAssumption, TimesAssumption, LobbyInv, TypeOK, Sound, Tables, Stamps, ClosedInv,
      EvictionLosesNothing, ReaperAwake, TooSilent

\* A new socket hosts nothing.
LEMMA ConnectStep ==
    ASSUME LobbyInv, NEW c \in Conns, Connect(c)
    PROVE  LobbyInv'
  <1>1. /\ c \notin open /\ open' = open \cup {c} /\ silent' = [silent EXCEPT ![c] = 0]
        /\ durable' = durable /\ games' = games /\ nextGen' = nextGen /\ host' = host
        /\ holds' = holds /\ observed' = observed /\ saved' = saved /\ alarm' = alarm
    BY DEF Connect
  <1>2. Kept(games, games')
    BY <1>1, KeptSelf, TypeFacts
  <1>3. silent' \in [Conns -> 0 .. TooSilent]
    BY <1>1, TypeFacts
  <1>4. host[c] = NoReg
    BY <1>1, TypeFacts
  <1>5. \A d \in Conns : IsCurrent(games', host'[d]) => silent'[d] = silent[d]
    BY <1>1, <1>4, TypeFacts DEF IsCurrent
  <1>6. \A d \in Conns : d \notin open' => host'[d] = NoReg
    BY <1>1, TypeFacts
  <1> QED
    BY <1>1, <1>2, <1>3, <1>5, <1>6, TypeFacts, KeepingStep

\* A socket that closes takes its listing and its reservations with it, and the
\* Durable Object saves that.
LEMMA DisconnectStep ==
    ASSUME LobbyInv, NEW c \in Conns, Disconnect(c)
    PROVE  LobbyInv'
  <1> DEFINE G == AllReleased(games, holds[c])
  <1>1. /\ open' = open \ {c} /\ games' = Without(G, host[c])
        /\ saved' = IF durable THEN [games |-> games', nextGen |-> nextGen] ELSE saved
        /\ host' = [host EXCEPT ![c] = NoReg] /\ holds' = [holds EXCEPT ![c] = {}]
        /\ durable' = durable /\ nextGen' = nextGen /\ observed' = observed
        /\ alarm' = alarm /\ silent' = silent
    BY DEF Disconnect
  <1>2. Kept(games, G) /\ Sound(G) /\ Listed(G) = Listed(games)
    BY AllReleasedKept, TypeFacts DEF Kept
  <1> HIDE DEF G
  <1>3. Kept(G, games') /\ host[c] \in Stamps
    BY <1>1, <1>2, WithoutKept, TypeFacts
  <1>4. Kept(games, games')
    BY <1>2, <1>3, KeptTrans, TypeFacts
  <1>5. /\ host' \in [Conns -> Stamps]
        /\ \A d \in Conns : host'[d] \in {host[d], NoReg}
        /\ host'[c] = NoReg
    BY <1>1, TypeFacts DEF Stamps
  <1>6. holds' \in [Conns -> SUBSET (Codes \X Tokens)]
    BY <1>1, TypeFacts
  <1>7. \A d \in Conns : d \notin open' => host'[d] = NoReg
    BY <1>1, <1>5, TypeFacts
  <1>8. saved' \in [games : Tables, nextGen : Nat]
    BY <1>1, <1>4, TypeFacts DEF Kept, Sound
  <1>9. Listed(games') \subseteq Listed(games)
    BY <1>4 DEF Kept, Listed
  <1> QED
    BY <1>1, <1>4, <1>5, <1>6, <1>7, <1>8, <1>9, TypeFacts, KeepingStep

\* The sweeps of both shells.
LEMMA SweepStep ==
    ASSUME LobbyInv, Report \/ ConsumeExpired \/ Reap
    PROVE  LobbyInv'
  <1>1. CASE Report
    <2>1. Expired(games) \subseteq Registrations
      BY TypeFacts DEF Expired, Listed, Sound, Tables, Listings, Registrations
    <2>2. Kept(games, games')
      BY <1>1, KeptSelf, TypeFacts DEF Report
    <2> QED
      BY <1>1, <2>1, <2>2, TypeFacts, KeepingStep DEF Report
  <1>2. CASE ConsumeExpired
    <2>1. Kept(games, games')
      <3>1. PICK live, acted : games' = WithoutAll(RefreshedAll(games, live), acted)
        BY <1>2 DEF ConsumeExpired
      <3>2. Sound(games) /\ Kept(games, RefreshedAll(games, live))
        BY TypeFacts, RefreshedAllKept
      <3>3. Kept(RefreshedAll(games, live), games')
        BY <3>1, <3>2, WithoutAllKept DEF Kept
      <3> QED
        BY <3>2, <3>3, KeptTrans
    <2>2. ~durable
      BY <1>2, TypeFacts DEF ConsumeExpired
    <2> QED
      BY <1>2, <2>1, <2>2, TypeFacts, KeepingStep DEF ConsumeExpired
  <1>3. CASE Reap
    <2>1. Kept(games, games')
      BY <1>3, WithoutAllKept, TypeFacts DEF Reap
    <2>2. saved' \in [games : Tables, nextGen : Nat]
      BY <1>3, <2>1, TypeFacts DEF Kept, Sound, Reap
    <2>3. alarm' \in BOOLEAN /\ (Listed(games') # {} => alarm')
      BY <1>3 DEF Reap, KeepAlarm
    <2> QED
      BY <1>3, <2>1, <2>2, <2>3, TypeFacts, KeepingStep DEF Reap
  <1> QED
    BY <1>1, <1>2, <1>3

\* The counter that a restore seeds is the one the snapshot was taken with.
LEMMA SeededAsSaved ==
    ASSUME LobbyInv, durable
    PROVE  Seeded(saved) = nextGen /\ saved.games = games
  <1>1. saved.games = games /\ saved.nextGen = nextGen
    BY TypeFacts
  <1> DEFINE S == {nextGen} \cup {games[k].gen + 1 : k \in Listed(games)}
             P(n) == n >= nextGen /\ \A k \in Listed(games) : n > games[k].gen
  <1>2. Seeded(saved) = CHOOSE n \in S : P(n)
    BY <1>1 DEF Seeded
  <1>3. \A k \in Listed(games) : games[k].gen \in Nat /\ games[k].gen < nextGen
    BY TypeFacts DEF LobbyInv, IdentityInv, Sound, Tables, Listings, Listed
  <1>4. nextGen \in S /\ P(nextGen)
    BY <1>3, TypeFacts
  <1>5. ASSUME NEW n \in S, P(n)
        PROVE  n = nextGen
    BY <1>3, <1>5, TypeFacts
  <1> HIDE DEF S, P
  <1>6. (CHOOSE n \in S : P(n)) = nextGen
    BY <1>4, <1>5
  <1> QED
    BY <1>1, <1>2, <1>6

\* An eviction restores what was there.
LEMMA EvictStep ==
    ASSUME LobbyInv, Evict
    PROVE  LobbyInv'
  <1>1. /\ games' = games /\ nextGen' = nextGen /\ durable' = durable /\ open' = open
        /\ host' = host /\ holds' = holds /\ observed' = observed /\ saved' = saved
        /\ alarm' = alarm /\ silent' = silent
    BY SeededAsSaved DEF Evict
  <1>2. Kept(games, games')
    BY <1>1, KeptSelf, TypeFacts
  <1> QED
    BY <1>1, <1>2, TypeFacts, KeepingStep

\* Time ages a listing no faster than its host's silence grows.
LEMMA TickStep ==
    ASSUME LobbyInv, Tick
    PROVE  LobbyInv'
  <1>1. /\ games' = Aged(games) /\ saved' = [saved EXCEPT !.games = Aged(@)]
        /\ silent' = [c \in Conns |-> IF host[c] = NoReg THEN 0
                                      ELSE AtMost(silent[c] + 1, TooSilent)]
        /\ durable' = durable /\ nextGen' = nextGen /\ open' = open /\ host' = host
        /\ holds' = holds /\ observed' = observed /\ alarm' = alarm
    BY DEF Tick
  <1>2. games \in Tables /\ saved.games \in Tables /\ saved.nextGen \in Nat
    BY TypeFacts DEF Sound
  <1>3. /\ games' \in Tables
        /\ Listed(games') = Listed(games)
        /\ \A k \in Listed(games) : /\ games'[k].gen = games[k].gen
                                    /\ games'[k].owner = games[k].owner
                                    /\ games'[k].age <= games[k].age + 1
                                    /\ games'[k].seated = games[k].seated
                                    /\ games'[k].max = games[k].max
    BY <1>1, <1>2, AgedSound
  <1>4. TooSilent \in Nat /\ Quantum \in Nat
    BY TimesAssumption DEF TimesAssumption, TooSilent
  <1>5. silent' \in [Conns -> 0 .. TooSilent]
    <2>1. \A c \in Conns : AtMost(silent[c] + 1, TooSilent) \in 0 .. TooSilent
      BY <1>4, TypeFacts DEF AtMost
    <2> QED
      BY <1>1, <1>4, <2>1
  <1>6. saved' \in [games : Tables, nextGen : Nat]
    <2>1. Aged(saved.games) \in Tables
      BY <1>2, AgedSound
    <2> QED
      BY <1>1, <2>1, TypeFacts
  <1>7. TypeOK'
    <2>1. \A k \in Listed(games)' : games'[k].seated <= games'[k].max
      BY <1>3, TypeFacts DEF Sound
    <2>2. durable' \in Shells
      BY <1>1 DEF LobbyInv, TypeOK
    <2> QED
      BY <1>1, <1>3, <1>5, <1>6, <2>1, <2>2, TypeFacts DEF TypeOK, Tables, Stamps
  <1>8. ASSUME NEW c \in Conns, IsCurrent(games', host'[c])
        PROVE  /\ IsCurrent(games, host[c]) /\ host'[c] = host[c] /\ host[c] # NoReg
               /\ host[c].code \in Listed(games)
    <2>1. host'[c] = host[c] /\ host[c] # NoReg /\ host[c].code \in Codes
      BY <1>1, <1>8, TypeFacts DEF IsCurrent, Stamps, Registrations
    <2>2. host[c].code \in Listed(games)
      BY <1>3, <1>8, <2>1 DEF IsCurrent, Listed
    <2> QED
      BY <1>3, <1>8, <2>1, <2>2 DEF IsCurrent, Listed
  <1>9. IdentityInv'
    BY <1>1, <1>3 DEF LobbyInv, IdentityInv
  <1>10. StampIsOwn'
    BY <1>3, <1>8 DEF LobbyInv, StampIsOwn
  <1>11. AgeInv'
    <2> SUFFICES ASSUME NEW c \in Conns, IsCurrent(games', host'[c])
                 PROVE  \/ games'[host'[c].code].age < silent'[c] + Quantum
                        \/ silent'[c] = TooSilent
      BY DEF AgeInv
    <2> DEFINE k == host[c].code
    <2>1. /\ host'[c].code = k /\ k \in Listed(games) /\ k \in Codes
          /\ games[k].age < silent[c] + Quantum \/ silent[c] = TooSilent
      BY <1>8 DEF LobbyInv, AgeInv, Listed
    <2>2. games'[k].age <= games[k].age + 1
      BY <1>3, <2>1
    <2>3. games'[k].age \in Nat /\ games[k].age \in Nat
      <3>1. games'[k] \in Listings /\ games[k] \in Listings
        BY <1>2, <1>3, <2>1 DEF Tables, Listed
      <3> QED
        BY <3>1, TimesAssumption DEF TimesAssumption, Listings, Lapsing
    <2>4. silent'[c] = AtMost(silent[c] + 1, TooSilent) /\ silent[c] \in 0 .. TooSilent
      BY <1>1, <1>8, TypeFacts
    <2> HIDE DEF k
    <2> QED
      BY <1>4, <2>1, <2>2, <2>3, <2>4 DEF AtMost
  <1>12. ClosedInv'
    BY <1>1, TypeFacts DEF ClosedInv
  <1>13. EvictionLosesNothing' /\ ReaperAwake'
    <2>1. durable => saved' = [games |-> games', nextGen |-> nextGen']
      BY <1>1, TypeFacts
    <2> QED
      BY <1>1, <1>3, <2>1, TypeFacts DEF EvictionLosesNothing, ReaperAwake
  <1> QED
    BY <1>7, <1>9, <1>10, <1>11, <1>12, <1>13 DEF LobbyInv

\* Every step preserves the invariant.
LEMMA LobbyStep ==
    ASSUME LobbyInv, [Next]_vars
    PROVE  LobbyInv'
  <1>1. CASE UNCHANGED vars
    BY <1>1
    DEF vars, LobbyInv, TypeOK, IdentityInv, StampIsOwn, ClosedInv, AgeInv, IsCurrent, Listed,
        EvictionLosesNothing, ReaperAwake
  <1> QED
    BY <1>1, CreateGameStep, JoinGameStep, LookupStep, UpdateStep, UnregisterStep, PingStep,
       ConnectStep, DisconnectStep, SweepStep, EvictStep, TickStep
    DEF Next

-----------------------------------------------------------------------------
(* Removals.                                                               *)

\* A listing that is kept was not removed.
LEMMA SurvivesRightly ==
    ASSUME Kept(games, games'), NEW k \in Listed(games), games'[k] # NoGame
    PROVE  Rightly(k)
  BY DEF Kept, SameListing, Listed, Rightly

\* By StampIsOwn, a call that removes what a socket's stamp denotes removes a
\* listing of that socket.
LEMMA OwnRightly ==
    ASSUME LobbyInv, NEW c \in Conns, NEW k \in Listed(games),
           IsCurrent(games, host[c]), host[c].code = k, host'[c] # host[c]
    PROVE  Rightly(k)
  <1>1. host[c] = [code |-> k, gen |-> games[k].gen]
    BY DEF LobbyInv, TypeOK, Registrations, IsCurrent
  <1>2. games[k].owner = c
    BY DEF LobbyInv, StampIsOwn
  <1> QED
    BY <1>1, <1>2 DEF Rightly

\* A listing that the caller's own withdrawal leaves alone survives it.
LEMMA RestRightly ==
    ASSUME LobbyInv, NEW c \in Conns, NEW k \in Listed(games),
           ~(IsCurrent(games, host[c]) /\ host[c].code = k)
    PROVE  /\ Without(Alive(c), host[c])[k] # NoGame
           /\ Without(Alive(c), host[c])[k].gen = games[k].gen
  <1>1. k \in Codes /\ k \in Listed(Alive(c))
    BY AliveKept DEF Listed
  <1>2. Alive(c)[k] # NoGame /\ Alive(c)[k].gen = games[k].gen
    BY <1>1, AliveKept DEF Listed, Kept, SameListing
  <1> QED
    BY <1>1, <1>2, AliveKept, WithoutKept

\* A host that withdraws its listing or lists another removes only its own.
LEMMA WithdrawalRightly ==
    ASSUME LobbyInv, NEW c \in Conns, NEW k \in Listed(games),
           \/ UnregisterLobby(c)
           \/ \E j \in Codes, requested \in BOOLEAN, size \in Sizes :
                 CreateGame(c, j, requested, size)
    PROVE  Rightly(k)
  <1> DEFINE rest == Without(Alive(c), host[c])
  <1>0. host \in [Conns -> Stamps] /\ k \in Codes /\ nextGen \in Nat
    BY TypeFacts DEF Listed
  <1>1. \/ games' = rest /\ host' = [host EXCEPT ![c] = NoReg]
        \/ \E j \in Codes, size \in Sizes :
             LET new == [gen |-> nextGen, owner |-> c, age |-> 0, seated |-> 1,
                         max |-> size, held |-> {}]
             IN  /\ games' = [rest EXCEPT ![j] = new]
                 /\ host' = [host EXCEPT ![c] = [code |-> j, gen |-> nextGen]]
    BY DEF UnregisterLobby, CreateGame, Commit
  <1>2. rest \in Tables
    BY RestKept DEF Kept, Sound
  <1>3. CASE IsCurrent(games, host[c]) /\ host[c].code = k
    <2>1. host[c] # NoReg /\ host[c].gen < nextGen /\ host[c].gen \in Nat
      BY <1>0, <1>3 DEF IsCurrent, LobbyInv, IdentityInv, Stamps, Registrations
    <2>2. host'[c] # host[c]
      BY <1>0, <1>1, <2>1
    <2> QED
      BY <1>3, <2>2, OwnRightly
  <1>4. CASE ~(IsCurrent(games, host[c]) /\ host[c].code = k)
    <2>1. rest[k] # NoGame /\ rest[k].gen = games[k].gen
      BY <1>4, RestRightly
    <2> HIDE DEF rest
    <2>2. CASE games' = rest
      BY <2>1, <2>2 DEF Rightly
    <2>3. ASSUME NEW j \in Codes, NEW size \in Sizes,
                 games' = [rest EXCEPT ![j] = [gen |-> nextGen, owner |-> c, age |-> 0, seated |-> 1,
                                               max |-> size, held |-> {}]]
          PROVE  Rightly(k)
      <3> DEFINE new == [gen |-> nextGen, owner |-> c, age |-> 0, seated |-> 1,
                         max |-> size, held |-> {}]
      <3>1. new \in Listings /\ new # NoGame /\ new.gen = nextGen
        <4>1. size \in Nat /\ 0 \in 0 .. Lapsing
          BY SizesAssumption, TimesAssumption DEF SizesAssumption, TimesAssumption, Lapsing
        <4>2. new \in Listings
          BY <1>0, <4>1 DEF Listings
        <4> QED
          BY <4>2, NoneAssumption DEF NoneAssumption
      <3> HIDE DEF new
      <3>2. games'[k] = IF j = k THEN new ELSE rest[k]
        BY <1>0, <1>2, <2>3 DEF Tables, new
      <3> QED
        BY <2>1, <3>1, <3>2 DEF Rightly
    <2> QED
      BY <1>1, <2>2, <2>3
  <1> QED
    BY <1>3, <1>4

\* So does a host that leaves.
LEMMA DisconnectRightly ==
    ASSUME LobbyInv, NEW c \in Conns, NEW k \in Listed(games), Disconnect(c)
    PROVE  Rightly(k)
  <1> DEFINE G == AllReleased(games, holds[c])
  <1>1. games' = Without(G, host[c]) /\ host' = [host EXCEPT ![c] = NoReg]
    BY DEF Disconnect
  <1>2. Kept(games, G) /\ Sound(G) /\ Listed(G) = Listed(games)
    BY AllReleasedKept, TypeFacts DEF Kept
  <1> HIDE DEF G
  <1>3. /\ k \in Codes /\ host[c] \in Stamps /\ G[k] # NoGame /\ G[k].gen = games[k].gen
        /\ host'[c] = NoReg
    BY <1>1, <1>2, TypeFacts DEF Listed, Kept, SameListing
  <1>4. CASE IsCurrent(G, host[c]) /\ host[c].code = k
    <2>1. IsCurrent(games, host[c]) /\ host'[c] # host[c]
      BY <1>3, <1>4 DEF IsCurrent, Listed
    <2> QED
      BY <1>4, <2>1, OwnRightly
  <1>5. CASE ~(IsCurrent(G, host[c]) /\ host[c].code = k)
    <2>1. games'[k] = G[k]
      BY <1>1, <1>2, <1>3, <1>5, WithoutKept
    <2> QED
      BY <1>3, <2>1 DEF Rightly
  <1> QED
    BY <1>4, <1>5

\* A sweep removes only registrations that were expired when it looked.
LEMMA SweepRightly ==
    ASSUME LobbyInv, NEW k \in Listed(games), ConsumeExpired \/ Reap
    PROVE  Rightly(k)
  <1>1. k \in Codes /\ games[k] # NoGame
    BY DEF Listed
  <1>2. CASE ConsumeExpired
    <2>1. PICK live, acted \in SUBSET observed :
              games' = WithoutAll(RefreshedAll(games, live), acted)
      BY <1>2 DEF ConsumeExpired
    <2> DEFINE G == RefreshedAll(games, live)
    <2>2. G[k] # NoGame /\ G[k].gen = games[k].gen
      BY <1>1, TypeFacts, RefreshedAllKept
    <2>3. games' = WithoutAll(G, acted)
      BY <2>1
    <2> HIDE DEF G
    <2>4. CASE \E r \in acted : r.code = k /\ IsCurrent(G, r)
      <3>1. PICK r \in acted : r.code = k /\ IsCurrent(G, r)
        BY <2>4
      <3>2. r = [code |-> k, gen |-> games[k].gen]
        BY <2>1, <2>2, <3>1, TypeFacts DEF IsCurrent, Registrations
      <3> QED
        BY <1>2, <2>1, <3>1, <3>2 DEF ConsumeExpired, Rightly
    <2>5. CASE ~ \E r \in acted : r.code = k /\ IsCurrent(G, r)
      BY <1>1, <2>2, <2>3, <2>5 DEF WithoutAll, Rightly
    <2> QED
      BY <2>4, <2>5
  <1>3. CASE Reap
    <2>1. CASE \E r \in Expired(games) : r.code = k /\ IsCurrent(games, r)
      BY <1>3, <2>1 DEF Reap, Expired, Rightly
    <2>2. CASE ~ \E r \in Expired(games) : r.code = k /\ IsCurrent(games, r)
      BY <1>1, <1>3, <2>2 DEF Reap, WithoutAll, Rightly
    <2> QED
      BY <2>1, <2>2
  <1> QED
    BY <1>2, <1>3

\* Every removal is right.
LEMMA StepRightly ==
    ASSUME LobbyInv, Next, NEW k \in Listed(games)
    PROVE  Rightly(k)
  <1>1. ASSUME NoneRemoved
        PROVE  Rightly(k)
    BY <1>1, SurvivesRightly DEF NoneRemoved, Listed
  <1>2. CASE games' = games
    BY <1>2 DEF Rightly, Listed
  <1>3. CASE Evict
    BY <1>2, <1>3, SeededAsSaved DEF Evict
  <1>4. CASE Tick
    <2>1. games' = Aged(games) /\ games \in Tables
      BY <1>4, TypeFacts DEF Tick, Sound
    <2>2. k \in Listed(games') /\ games'[k].gen = games[k].gen
      BY <2>1, AgedSound
    <2> QED
      BY <2>2 DEF Rightly, Listed
  <1>5. CASE Report \/ \E c \in Conns : Connect(c)
    BY <1>2, <1>5 DEF Report, Connect
  <1>6. CASE ConsumeExpired \/ Reap
    BY <1>6, SweepRightly
  <1>7. ASSUME NEW c \in Conns, Disconnect(c)
        PROVE  Rightly(k)
    BY <1>7, DisconnectRightly
  <1>8. ASSUME NEW c \in Conns,
               \/ UnregisterLobby(c)
               \/ \E j \in Codes, requested \in BOOLEAN, size \in Sizes :
                     CreateGame(c, j, requested, size)
        PROVE  Rightly(k)
    BY <1>8, WithdrawalRightly
  <1> QED
    BY <1>1, <1>3, <1>4, <1>5, <1>6, <1>7, <1>8, JoinGameStep, LookupStep, UpdateStep, PingStep
    DEF Next

-----------------------------------------------------------------------------
\* The inductive invariant holds of every reachable state.
THEOREM LobbyInvariant == Spec => []LobbyInv
  <1>1. LobbyInv /\ [Next]_vars => LobbyInv'
    BY LobbyStep
  <1> QED
    BY <1>1, LobbyInit, PTL DEF Spec

\* Type correctness of the broker and of the sockets' state.
THEOREM LobbyTypeCorrect == Spec => []TypeOK
  <1>1. LobbyInv => TypeOK
    BY DEF LobbyInv
  <1> QED
    BY <1>1, LobbyInvariant, PTL

\* A registration's identity is never handed out twice, restores from a
\* snapshot included: a stamp is honoured only for its own socket's listing.
THEOREM StampsAreOwn == Spec => []StampIsOwn
  <1>1. LobbyInv => StampIsOwn
    BY DEF LobbyInv
  <1> QED
    BY <1>1, LobbyInvariant, PTL

\* Every change of the broker is in the snapshot before the Durable Object can
\* be evicted.
THEOREM NothingEvicted == Spec => []EvictionLosesNothing
  <1>1. LobbyInv => EvictionLosesNothing
    BY DEF LobbyInv
  <1> QED
    BY <1>1, LobbyInvariant, PTL

\* The Durable Object's alarm is set as long as there is anything to reap.
THEOREM ReaperStaysAwake == Spec => []ReaperAwake
  <1>1. LobbyInv => ReaperAwake
    BY DEF LobbyInv
  <1> QED
    BY <1>1, LobbyInvariant, PTL

\* refresh_liveness moves the clock at most once per quantum, and yet a host
\* whose silence stays below the timeout less one quantum is never expired.
THEOREM TalkingHostKept == Spec => []LiveHostKept
  <1>1. ASSUME LobbyInv
        PROVE  LiveHostKept
    <2> SUFFICES ASSUME NEW c \in Conns, IsCurrent(games, host[c]), games[host[c].code].age > Timeout
                 PROVE  silent[c] >= TooSilent
      BY DEF LiveHostKept
    <2> DEFINE k == host[c].code
    <2>1. k \in Codes /\ games[k] # NoGame /\ games[k] \in Listings
      BY <1>1, TypeFacts DEF IsCurrent, Stamps, Registrations, Sound, Tables
    <2>2. games[k].age \in Nat /\ games[k].age > Timeout
      BY <2>1, TimesAssumption DEF TimesAssumption, Listings, Lapsing
    <2>3. games[k].age < silent[c] + Quantum \/ silent[c] = TooSilent
      BY <1>1 DEF LobbyInv, AgeInv
    <2>4. silent[c] \in 0 .. TooSilent
      BY <1>1, TypeFacts
    <2> HIDE DEF k
    <2> QED
      BY <2>2, <2>3, <2>4, TimesAssumption DEF TimesAssumption, TooSilent
  <1> QED
    BY <1>1, LobbyInvariant, PTL

\* No call on a listing hits its successor under the same code: what goes was
\* withdrawn by its own host, seen expired, or overwritten by a new listing.
THEOREM RemovalsAreRight == Spec => RemovedRightly
  <1>1. LobbyInv /\ [Next]_vars => [\A k \in Listed(games) : Rightly(k)]_vars
    BY StepRightly
  <1> QED
    BY <1>1, LobbyInvariant, PTL DEF Spec, RemovedRightly

-----------------------------------------------------------------------------
(* Reserved seats.                                                         *)

\* The reservations of a lobby, as the sockets know them.
ReservedPairs(G) == {p \in Codes \X Tokens : p[1] \in Listed(G) /\ p[2] \in TokensOf(G[p[1]])}

\* Only open sockets hold anything, every reservation is held by one of them,
\* no two sockets hold the same one, and none holds two of one game.
SeatsInv ==
    /\ \A c \in Conns : c \notin open => holds[c] = {}
    /\ \A p \in ReservedPairs(games) : \E c \in Conns : p \in holds[c]
    /\ \A c, d \in Conns : c # d => holds[c] \cap holds[d] = {}
    /\ \A c \in Conns : \A p, q \in holds[c] \cap ReservedPairs(games) : p[1] = q[1] => p = q

LEMMA ReservedIs ==
    ASSUME NEW G, NEW p
    PROVE  p \in ReservedPairs(G) <=> /\ p \in Codes \X Tokens /\ G[p[1]] # NoGame
                                     /\ \E v \in G[p[1]].held : v.token = p[2]
  BY DEF ReservedPairs, Listed, TokensOf

\* refresh_liveness touches no reservation.
LEMMA RefreshedReserved ==
    ASSUME NEW G, Sound(G), NEW r \in Stamps
    PROVE  ReservedPairs(Refreshed(G, r)) = ReservedPairs(G)
  <1>1. CASE ~RefreshDue(G, r)
    BY <1>1 DEF Refreshed
  <1>2. CASE RefreshDue(G, r)
    <2>1. r.code \in Codes /\ G[r.code] \in Listings /\ G \in Tables
      BY <1>2 DEF RefreshDue, IsCurrent, Stamps, Registrations, Sound, Tables
    <2> DEFINE m == [G[r.code] EXCEPT !.age = 0]
    <2>2. m.held = G[r.code].held
      BY <2>1 DEF Listings
    <2>3. m # NoGame
      BY <2>1, TimesAssumption, NoneAssumption DEF TimesAssumption, NoneAssumption, Listings, Lapsing
    <2>4. G[r.code] # NoGame /\ Refreshed(G, r) = [G EXCEPT ![r.code] = m]
      BY <1>2, <2>1 DEF RefreshDue, IsCurrent, Refreshed, Tables
    <2> HIDE DEF m
    <2>5. \A k \in Codes : Refreshed(G, r)[k] = IF k = r.code THEN m ELSE G[k]
      BY <2>1, <2>4 DEF Tables
    <2>6. ASSUME NEW p \in Codes \X Tokens
          PROVE  p \in ReservedPairs(Refreshed(G, r)) <=> p \in ReservedPairs(G)
      <3> DEFINE F == Refreshed(G, r)
      <3>1. p[1] \in Codes
        OBVIOUS
      <3>2. F[p[1]] # NoGame <=> G[p[1]] # NoGame
        BY <2>3, <2>4, <2>5, <3>1
      <3>3. G[p[1]] # NoGame => F[p[1]].held = G[p[1]].held
        BY <2>2, <2>5, <3>1
      <3> HIDE DEF F
      <3>4. p \in ReservedPairs(F) <=> p \in ReservedPairs(G)
        BY <3>2, <3>3, ReservedIs
      <3> QED
        BY <3>4 DEF F
    <2> QED
      BY <2>6 DEF ReservedPairs
  <1> QED
    BY <1>1, <1>2

\* A lobby whose listings are some of G's.
LEMMA FewerReserved ==
    ASSUME NEW G, NEW H, \A k \in Codes : H[k] = G[k] \/ H[k] = NoGame
    PROVE  ReservedPairs(H) \subseteq ReservedPairs(G)
  BY ReservedIs

\* A lobby in which the listing under k is another one.
LEMMA UpdatedReserved ==
    ASSUME NEW G \in Tables, NEW k \in Codes, NEW m
    PROVE  /\ \A p \in ReservedPairs([G EXCEPT ![k] = m]) :
                \/ p[1] # k /\ p \in ReservedPairs(G)
                \/ p[1] = k /\ p[2] \in TokensOf(m)
  <1> DEFINE F == [G EXCEPT ![k] = m]
  <1>1. \A j \in Codes : F[j] = IF j = k THEN m ELSE G[j]
    BY DEF Tables
  <1> HIDE DEF F
  <1>2. ASSUME NEW p \in ReservedPairs(F)
        PROVE  \/ p[1] # k /\ p \in ReservedPairs(G)
               \/ p[1] = k /\ p[2] \in TokensOf(m)
    <2>1. p \in Codes \X Tokens /\ p[1] \in Codes /\ F[p[1]] # NoGame /\ p[2] \in TokensOf(F[p[1]])
      BY DEF ReservedPairs, Listed
    <2>2. CASE p[1] = k
      BY <1>1, <2>1, <2>2
    <2>3. CASE p[1] # k
      BY <1>1, <2>1, <2>3 DEF ReservedPairs, Listed
    <2> QED
      BY <2>2, <2>3
  <1> QED
    BY <1>2 DEF F

\* A lobby in which the listing under k has lost reservations.
LEMMA ShrunkReserved ==
    ASSUME NEW G \in Tables, NEW k \in Codes, NEW m, G[k] # NoGame,
           TokensOf(m) \subseteq TokensOf(G[k])
    PROVE  ReservedPairs([G EXCEPT ![k] = m]) \subseteq ReservedPairs(G)
  <1> SUFFICES ASSUME NEW p \in ReservedPairs([G EXCEPT ![k] = m])
               PROVE  p \in ReservedPairs(G)
    OBVIOUS
  <1>1. p \in Codes \X Tokens
    BY DEF ReservedPairs
  <1>2. CASE p[1] = k
    <2>1. p[2] \in TokensOf(G[k])
      BY <1>2, UpdatedReserved
    <2> QED
      BY <1>1, <1>2, <2>1 DEF ReservedPairs, Listed
  <1> QED
    BY <1>2, UpdatedReserved

LEMMA ReleasedReserved ==
    ASSUME NEW G \in Tables, NEW H
    PROVE  ReservedPairs(AllReleased(G, H)) \subseteq ReservedPairs(G) \ H
  <1> SUFFICES ASSUME NEW p \in ReservedPairs(AllReleased(G, H))
               PROVE  p \in ReservedPairs(G) /\ p \notin H
    OBVIOUS
  <1>1. p \in Codes \X Tokens /\ AllReleased(G, H)[p[1]] # NoGame
    BY ReservedIs
  <1>2. PICK v \in AllReleased(G, H)[p[1]].held : v.token = p[2]
    BY ReservedIs
  <1>3. p[1] \in Codes /\ G[p[1]] # NoGame /\ G[p[1]] \in Listings
    BY <1>1 DEF AllReleased, Tables
  <1>4. AllReleased(G, H)[p[1]].held = {u \in G[p[1]].held : <<p[1], u.token>> \notin H}
    BY <1>3 DEF AllReleased, Listings
  <1>5. p = <<p[1], p[2]>>
    BY <1>1
  <1> QED
    BY <1>1, <1>2, <1>3, <1>4, <1>5, ReservedIs

LEMMA AgedReserved ==
    ASSUME NEW G \in Tables
    PROVE  ReservedPairs(Aged(G)) \subseteq ReservedPairs(G)
  <1> SUFFICES ASSUME NEW p \in ReservedPairs(Aged(G))
               PROVE  p \in ReservedPairs(G)
    OBVIOUS
  <1>1. p \in Codes \X Tokens /\ Aged(G)[p[1]] # NoGame
    BY ReservedIs
  <1>2. PICK v \in Aged(G)[p[1]].held : v.token = p[2]
    BY ReservedIs
  <1>3. p[1] \in Codes /\ G[p[1]] # NoGame /\ G[p[1]] \in Listings
    BY <1>1 DEF Aged, Tables
  <1>4. Aged(G)[p[1]].held = {[u EXCEPT !.left = AtLeast(@ - 1, 0)] : u \in G[p[1]].held}
    BY <1>3 DEF Aged, Listings
  <1>5. PICK u \in G[p[1]].held : v = [u EXCEPT !.left = AtLeast(@ - 1, 0)]
    BY <1>2, <1>4
  <1>6. u \in Reservations
    BY <1>3 DEF Listings
  <1>7. u.token = v.token
    BY <1>5, <1>6 DEF Reservations
  <1> QED
    BY <1>1, <1>2, <1>3, <1>7, ReservedIs

\* What the calls on a listing leave of its reservations.
LEMMA TokensLeft ==
    ASSUME NEW l \in Listings
    PROVE  /\ TokensOf(Cleaned(l)) \subseteq TokensOf(l)
           /\ \A t : TokensOf(Release(l, t)) \subseteq TokensOf(l) \ {t}
           /\ \A T : TokensOf(Consume(l, T)) \subseteq TokensOf(l) \ T
  <1>1. TokensOf(Cleaned(l)) \subseteq TokensOf(l)
    BY DEF TokensOf, Cleaned, Listings
  <1>2. \A t : TokensOf(Release(l, t)) \subseteq TokensOf(l) \ {t}
    BY DEF TokensOf, Release, Listings
  <1>3. ASSUME NEW T PROVE TokensOf(Consume(l, T)) \subseteq TokensOf(l) \ T
    <2>1. Consume(l, T).held = {v \in l.held : v.token \notin T}
      BY DEF Consume, Listings
    <2> QED
      BY <2>1 DEF TokensOf
  <1> QED
    BY <1>1, <1>2, <1>3

-----------------------------------------------------------------------------
\* A step of socket c that adds no reservation, and after which c holds what
\* is left of its own.
LEMMA FewerSeats ==
    ASSUME SeatsInv, LobbyInv, ReservedPairs(games') \subseteq ReservedPairs(games), NEW c \in Conns, NEW own,
           holds' = [holds EXCEPT ![c] = own], own \subseteq holds[c],
           \A p \in ReservedPairs(games') : p \in holds[c] => p \in own,
           \A d \in Conns : d # c /\ d \in open => d \in open',
           c \notin open' => own = {}
    PROVE  SeatsInv'
  <1>1. holds \in [Conns -> SUBSET (Codes \X Tokens)]
    BY DEF LobbyInv, TypeOK
  <1>2. holds'[c] = own /\ \A d \in Conns : d # c => holds'[d] = holds[d]
    BY <1>1
  <1>3. \A d \in Conns : holds'[d] \subseteq holds[d]
    BY <1>2
  <1>4. \A d \in Conns : d \notin open' => holds'[d] = {}
    BY <1>2 DEF SeatsInv
  <1>5. \A p \in ReservedPairs(games') : \E d \in Conns : p \in holds'[d]
    BY <1>2 DEF SeatsInv
  <1>6. \A d, e \in Conns : d # e => holds'[d] \cap holds'[e] = {}
    BY <1>3 DEF SeatsInv
  <1>7. \A d \in Conns : \A p, q \in holds'[d] \cap ReservedPairs(games') : p[1] = q[1] => p = q
    BY <1>3 DEF SeatsInv
  <1> QED
    BY <1>4, <1>5, <1>6, <1>7 DEF SeatsInv

\* A step that touches no socket's reservations and adds none.
LEMMA SeatsKept ==
    ASSUME SeatsInv, ReservedPairs(games') \subseteq ReservedPairs(games), holds' = holds,
           open \subseteq open'
    PROVE  SeatsInv'
  BY DEF SeatsInv

\* The sender's own refresh changes no reservation.
LEMMA AliveReserved ==
    ASSUME LobbyInv, NEW c \in Conns
    PROVE  ReservedPairs(Alive(c)) = ReservedPairs(games) /\ Alive(c) \in Tables
  BY AliveKept, RefreshedReserved DEF Alive, Sound

LEMMA WithoutReserved ==
    ASSUME NEW G \in Tables, NEW r
    PROVE  ReservedPairs(Without(G, r)) \subseteq ReservedPairs(G) /\ Without(G, r) \in Tables
  <1>1. Without(G, r) \in Tables /\ \A k \in Codes : Without(G, r)[k] = G[k] \/ Without(G, r)[k] = NoGame
    BY DEF Without, Tables
  <1> QED
    BY <1>1, FewerReserved

\* A new listing has no reservation.
LEMMA CreateGameSeats ==
    ASSUME SeatsInv, LobbyInv, NEW c \in Conns, NEW k \in Codes, NEW requested \in BOOLEAN,
           NEW size \in Sizes, CreateGame(c, k, requested, size)
    PROVE  SeatsInv'
  <1> DEFINE rest == Without(Alive(c), host[c])
             new == [gen |-> nextGen, owner |-> c, age |-> 0, seated |-> 1,
                     max |-> size, held |-> {}]
  <1>1. /\ holds' = holds /\ open' = open
        /\ games' = rest \/ games' = [rest EXCEPT ![k] = new]
    BY DEF CreateGame, Frame, Commit
  <1>2. rest \in Tables /\ ReservedPairs(rest) \subseteq ReservedPairs(games)
    BY AliveReserved, WithoutReserved
  <1> HIDE DEF rest
  <1>3. TokensOf(new) = {}
    BY DEF TokensOf
  <1> HIDE DEF new
  <1>4. ReservedPairs([rest EXCEPT ![k] = new]) \subseteq ReservedPairs(rest)
    BY <1>2, <1>3, UpdatedReserved
  <1>5. ReservedPairs(games') \subseteq ReservedPairs(games)
    BY <1>1, <1>2, <1>4
  <1> QED
    BY <1>1, <1>5, SeatsKept

\* A guest that takes its seat no longer holds the reservation.
LEMMA JoinGameSeats ==
    ASSUME SeatsInv, LobbyInv, NEW c \in Conns, NEW k \in Codes, NEW t \in Tokens \cup {NoToken},
           JoinGame(c, k, t)
    PROVE  SeatsInv'
  <1> DEFINE G == Alive(c)
             consumes == /\ ~Hosts(G, c, k) /\ G[k] # NoGame
                         /\ t # NoToken /\ <<k, t>> \in holds[c] /\ t \in TokensOf(G[k])
             m == Consume(G[k], {t})
             own == holds[c] \ {<<k, t>>}
  <1>0. G \in Tables /\ ReservedPairs(G) = ReservedPairs(games)
    BY AliveReserved
  <1>1. /\ games' = IF consumes THEN [G EXCEPT ![k] = m] ELSE G
        /\ holds' = IF consumes THEN [holds EXCEPT ![c] = own] ELSE holds
        /\ open' = open /\ c \in open
    BY DEF JoinGame, Frame, Commit
  <1>2. CASE ~consumes
    BY <1>0, <1>1, <1>2, SeatsKept
  <1>3. CASE consumes
    <2>1. G[k] \in Listings
      BY <1>0, <1>3 DEF Tables
    <2>2. TokensOf(m) \subseteq TokensOf(G[k]) \ {t}
      BY <2>1, TokensLeft
    <2> HIDE DEF m
    <2>3. ReservedPairs(games') \subseteq ReservedPairs(games)
      BY <1>0, <1>1, <1>3, <2>2, ShrunkReserved
    <2>4. \A p \in ReservedPairs(games') : p # <<k, t>>
      <3> SUFFICES ASSUME NEW p \in ReservedPairs([G EXCEPT ![k] = m]), p = <<k, t>>
                   PROVE  FALSE
        BY <1>1, <1>3
      <3>1. p[1] = k /\ p[2] = t
        OBVIOUS
      <3> HIDE DEF G
      <3> QED
        BY <1>0, <2>2, <3>1, UpdatedReserved
    <2> HIDE DEF consumes
    <2>5. holds' = [holds EXCEPT ![c] = own] /\ own \subseteq holds[c]
      BY <1>1, <1>3
    <2>6. \A p \in ReservedPairs(games') : p \in holds[c] => p \in own
      BY <2>4
    <2> HIDE DEF own
    <2> QED
      BY <1>1, <2>3, <2>5, <2>6, FewerSeats
  <1> QED
    BY <1>2, <1>3

\* A lookup drops what has lapsed together with the socket's record of it, so
\* a guest that is given a seat has no other one, and the token is fresh.
LEMMA LookupSeats ==
    ASSUME SeatsInv, LobbyInv, NEW c \in Conns, NEW k \in Codes, NEW t \in Tokens \cup {NoToken},
           NEW reserve \in BOOLEAN, LookupJoinTarget(c, k, t, reserve)
    PROVE  SeatsInv'
  <1> DEFINE G == Alive(c)
             released == IF t = NoToken THEN G[k] ELSE Release(G[k], t)
             cleaned == Cleaned(released)
             H == IF t \in TokensOf(G[k]) THEN holds[c] \ {<<k, t>>} ELSE holds[c]
             kept == {p \in H : p[1] = k => p[2] \in TokensOf(cleaned)}
             reserved(u) == [cleaned EXCEPT !.held = @ \cup {[token |-> u, left |-> Lifetime]}]
             Outcome(l, own) == /\ games' = [G EXCEPT ![k] = l]
                                /\ holds' = [holds EXCEPT ![c] = own]
  <1>0. /\ G \in Tables /\ ReservedPairs(G) = ReservedPairs(games)
        /\ holds \in [Conns -> SUBSET (Codes \X Tokens)]
    BY AliveReserved, TypeFacts
  <1>1. open' = open /\ c \in open
    BY DEF LookupJoinTarget, Frame
  <1>2. \/ games' = G /\ holds' = holds
        \/ /\ G[k] # NoGame
           /\ \/ Outcome(released, H)
              \/ Outcome(cleaned, kept)
              \/ /\ ~HoldsSeat(kept, k)
                 /\ \E u \in FreshTokens(G) : Outcome(reserved(u), kept \cup {<<k, u>>})
    BY DEF LookupJoinTarget, Commit
  <1>3. CASE games' = G /\ holds' = holds
    BY <1>0, <1>1, <1>3, SeatsKept
  <1>4. ASSUME G[k] # NoGame
        PROVE  SeatsInv'
    <2>1. G[k] \in Listings /\ TokensOf(G[k]) \subseteq Tokens
      BY <1>0, <1>4 DEF Tables, Listings, Reservations, TokensOf
    <2>2. released \in Listings
      BY <2>1, TimesAssumption DEF Release, Listings
    <2>3. TokensOf(released) \subseteq TokensOf(G[k]) /\ (t # NoToken => t \notin TokensOf(released))
      BY <2>1, TokensLeft
    <2>4. t \in TokensOf(G[k]) => t \notin TokensOf(released)
      BY <2>1, <2>3, NoneAssumption DEF NoneAssumption
    <2> HIDE DEF released
    <2>5. cleaned \in Listings
      BY <2>2 DEF Cleaned, Listings
    <2>6. TokensOf(cleaned) \subseteq TokensOf(released)
      BY <2>2, TokensLeft
    <2> HIDE DEF cleaned
    <2>7. /\ H \subseteq holds[c]
          /\ \A p \in holds[c] : p[1] # k \/ p[2] \in TokensOf(released) => p \in H
      <3> SUFFICES ASSUME NEW p \in holds[c], t \in TokensOf(G[k]), p = <<k, t>>
                   PROVE  p[1] = k /\ p[2] \notin TokensOf(released)
        OBVIOUS
      <3> QED
        BY <2>4
    <2> HIDE DEF H
    <2>8. /\ kept \subseteq holds[c]
          /\ \A p \in holds[c] : p[1] # k \/ p[2] \in TokensOf(cleaned) => p \in kept
      BY <2>6, <2>7
    <2> HIDE DEF kept
    <2> HIDE DEF G
    <2>9. ASSUME NEW l, NEW own, Outcome(l, own), TokensOf(l) \subseteq TokensOf(G[k]),
                 own \subseteq holds[c],
                 \A p \in holds[c] : p[1] # k \/ p[2] \in TokensOf(l) => p \in own
          PROVE  SeatsInv'
      <3>1. ReservedPairs(games') \subseteq ReservedPairs(games)
        BY <1>0, <1>4, <2>9, ShrunkReserved
      <3>2. \A p \in ReservedPairs(games') : p \in holds[c] => p \in own
        BY <1>0, <2>9, UpdatedReserved
      <3> QED
        BY <1>1, <2>9, <3>1, <3>2, FewerSeats
    <2>10. ASSUME ~HoldsSeat(kept, k), NEW u \in FreshTokens(G), Outcome(reserved(u), kept \cup {<<k, u>>})
           PROVE  SeatsInv'
      <3> DEFINE new == <<k, u>>
                 m == reserved(u)
      <3>1. \A d \in Conns : new \notin holds[d]
        <4> SUFFICES ASSUME NEW d \in Conns, new \in holds[d]
                     PROVE  FALSE
          OBVIOUS
        <4>1. new[2] \in {p[2] : p \in UNION {holds[e] : e \in Conns}}
          OBVIOUS
        <4>2. u \in {p[2] : p \in UNION {holds[e] : e \in Conns}}
          BY <4>1
        <4> QED
          BY <2>10, <4>2 DEF FreshTokens
      <3>2. TokensOf(m) \subseteq TokensOf(cleaned) \cup {u}
        <4>1. m.held = cleaned.held \cup {[token |-> u, left |-> Lifetime]}
          BY <2>5 DEF Listings
        <4> HIDE DEF m
        <4> QED
          BY <4>1 DEF TokensOf
      <3> HIDE DEF m
      <3>3. games' = [G EXCEPT ![k] = m] /\ holds' = [holds EXCEPT ![c] = kept \cup {new}]
        BY <2>10 DEF m
      <3>4. /\ holds'[c] = kept \cup {new}
            /\ \A d \in Conns : d # c => holds'[d] = holds[d]
        BY <1>0, <3>3
      <3>5. ASSUME NEW p \in ReservedPairs(games')
            PROVE  \/ p \in ReservedPairs(games) /\ (p[1] # k \/ p[2] \in TokensOf(cleaned))
                   \/ p = new
        <4>1. p \in Codes \X Tokens /\ p = <<p[1], p[2]>>
          BY DEF ReservedPairs
        <4>2. CASE p[1] # k
          BY <1>0, <3>3, <4>2, UpdatedReserved
        <4>3. CASE p[1] = k
          <5>1. p[2] \in TokensOf(m)
            BY <1>0, <3>3, <4>3, UpdatedReserved
          <5>2. CASE p[2] = u
            BY <4>1, <4>3, <5>2
          <5>3. CASE p[2] \in TokensOf(cleaned)
            <6>1. p \in ReservedPairs(G)
              BY <1>4, <2>3, <2>6, <4>1, <4>3, <5>3 DEF ReservedPairs, Listed
            <6> QED
              BY <1>0, <5>3, <6>1
          <5> QED
            BY <3>2, <5>1, <5>2, <5>3
        <4> QED
          BY <4>2, <4>3
      <3>6. \A p \in kept : p[1] # k
        BY <2>10 DEF HoldsSeat
      <3>7. \A d \in Conns : d \notin open' => holds'[d] = {}
        BY <1>1, <3>4 DEF SeatsInv
      <3>8. ASSUME NEW p \in ReservedPairs(games')
            PROVE  \E d \in Conns : p \in holds'[d]
        <4>1. CASE p = new
          BY <3>4, <4>1
        <4>2. CASE p # new
          <5>1. p \in ReservedPairs(games) /\ (p[1] # k \/ p[2] \in TokensOf(cleaned))
            BY <3>5, <4>2
          <5>2. PICK d \in Conns : p \in holds[d]
            BY <5>1 DEF SeatsInv
          <5>3. p \in holds'[d]
            BY <2>8, <3>4, <5>1, <5>2
          <5> QED
            BY <5>3
        <4> QED
          BY <4>1, <4>2
      <3>9. \A d, e \in Conns : d # e => holds'[d] \cap holds'[e] = {}
        BY <2>8, <3>1, <3>4 DEF SeatsInv
      <3>10. ASSUME NEW d \in Conns, NEW p \in holds'[d] \cap ReservedPairs(games'),
                    NEW q \in holds'[d] \cap ReservedPairs(games'), p[1] = q[1]
             PROVE  p = q
        <4>1. new[1] = k
          OBVIOUS
        <4>2. CASE p = new \/ q = new
          BY <3>1, <3>4, <3>6, <3>10, <4>1, <4>2
        <4>3. CASE p # new /\ q # new
          <5>1. p \in holds[d] \cap ReservedPairs(games) /\ q \in holds[d] \cap ReservedPairs(games)
            BY <2>8, <3>4, <3>5, <4>3
          <5> QED
            BY <3>10, <5>1 DEF SeatsInv
        <4> QED
          BY <4>2, <4>3
      <3> QED
        BY <3>7, <3>8, <3>9, <3>10 DEF SeatsInv
    <2>11. CASE Outcome(released, H)
      BY <2>3, <2>7, <2>9, <2>11
    <2>12. CASE Outcome(cleaned, kept)
      BY <2>3, <2>6, <2>8, <2>9, <2>12
    <2> HIDE DEF Outcome
    <2>13. games' = G /\ holds' = holds => SeatsInv'
      BY <1>3
    <2> QED
      BY <1>2, <2>10, <2>11, <2>12, <2>13
  <1> QED
    BY <1>2, <1>3, <1>4

\* What the host reports as seated is no longer reserved.
LEMMA UpdateSeats ==
    ASSUME SeatsInv, LobbyInv, NEW c \in Conns, NEW size \in Sizes, NEW T \in SUBSET Tokens,
           NEW players \in 0 .. size, UpdateMetadata(c, players, size, T)
    PROVE  SeatsInv'
  <1> DEFINE G == Alive(c)
             k == host[c].code
             after == Consume(G[k], T)
             floor == IF T \cap TokensOf(G[k]) = {} THEN 0 ELSE after.seated
             n == AtMost(AtLeast(players, floor), size)
             l == [Cleaned(after) EXCEPT !.seated = n, !.max = size]
  <1>0. Sound(G) /\ G \in Tables /\ host[c] \in Stamps /\ ReservedPairs(G) = ReservedPairs(games)
    BY AliveKept, AliveReserved
  <1>1. /\ games' = IF IsCurrent(G, host[c]) THEN [G EXCEPT ![k] = l] ELSE G
        /\ holds' = holds /\ open' = open
    BY DEF UpdateMetadata, Frame, Commit
  <1>2. CASE ~IsCurrent(G, host[c])
    BY <1>0, <1>1, <1>2, SeatsKept
  <1>3. CASE IsCurrent(G, host[c])
    <2>1. k \in Codes /\ G[k] # NoGame /\ G[k] \in Listings /\ G[k].seated <= G[k].max
      BY <1>0, <1>3 DEF IsCurrent, Stamps, Registrations, Sound, Tables, Listed
    <2>2. after \in Listings /\ TokensOf(after) \subseteq TokensOf(G[k])
      BY <2>1, ConsumeSame, TokensLeft DEF SameListing
    <2> HIDE DEF after
    <2>3. Cleaned(after) \in Listings /\ TokensOf(Cleaned(after)) \subseteq TokensOf(after)
      BY <2>2, TokensLeft DEF Cleaned, Listings
    <2> HIDE DEF n
    <2>4. l.held = Cleaned(after).held
      BY <2>3 DEF Listings
    <2>5. TokensOf(l) \subseteq TokensOf(G[k])
      BY <2>2, <2>3, <2>4 DEF TokensOf
    <2> HIDE DEF l, G, k
    <2>6. ReservedPairs([G EXCEPT ![k] = l]) \subseteq ReservedPairs(G)
      BY <1>0, <2>1, <2>5, ShrunkReserved
    <2> QED
      BY <1>0, <1>1, <1>3, <2>6, SeatsKept
  <1> QED
    BY <1>2, <1>3

\* A socket that closes releases what it held; the other steps only remove.
LEMMA OtherSeats ==
    ASSUME SeatsInv, LobbyInv,
           \/ \E c \in Conns : UnregisterLobby(c) \/ Ping(c) \/ Connect(c) \/ Disconnect(c)
           \/ Report \/ ConsumeExpired \/ Reap \/ Evict \/ Tick \/ UNCHANGED vars
    PROVE  SeatsInv'
  <1>0. games \in Tables /\ open \subseteq Conns
    BY TypeFacts DEF Sound
  <1>1. ASSUME NEW c \in Conns, UnregisterLobby(c)
        PROVE  SeatsInv'
    <2>1. games' = Without(Alive(c), host[c]) /\ holds' = holds /\ open' = open
      BY <1>1 DEF UnregisterLobby, Frame, Commit
    <2> QED
      BY <2>1, AliveReserved, WithoutReserved, SeatsKept
  <1>2. ASSUME NEW c \in Conns, Ping(c)
        PROVE  SeatsInv'
    <2>1. games' = Alive(c) /\ holds' = holds /\ open' = open
      BY <1>2 DEF Ping, Frame, Commit
    <2> QED
      BY <2>1, AliveReserved, SeatsKept
  <1>3. ASSUME NEW c \in Conns, Connect(c)
        PROVE  SeatsInv'
    BY <1>3, SeatsKept DEF Connect
  <1>4. ASSUME NEW c \in Conns, Disconnect(c)
        PROVE  SeatsInv'
    <2> DEFINE G == AllReleased(games, holds[c])
    <2>1. /\ games' = Without(G, host[c]) /\ holds' = [holds EXCEPT ![c] = {}]
          /\ open' = open \ {c}
      BY <1>4 DEF Disconnect
    <2>2. G \in Tables
      BY AllReleasedKept, TypeFacts DEF Kept, Sound
    <2>3. ReservedPairs(G) \subseteq ReservedPairs(games) \ holds[c]
      BY <1>0, ReleasedReserved
    <2> HIDE DEF G
    <2>4. ReservedPairs(games') \subseteq ReservedPairs(games) \ holds[c]
      BY <2>1, <2>2, <2>3, WithoutReserved
    <2> DEFINE own == {}
    <2>5. /\ holds' = [holds EXCEPT ![c] = own] /\ own \subseteq holds[c]
          /\ \A p \in ReservedPairs(games') : p \in holds[c] => p \in own
          /\ \A d \in Conns : d # c /\ d \in open => d \in open'
          /\ c \notin open' => own = {}
      BY <2>1, <2>4
    <2> HIDE DEF own
    <2> QED
      BY <2>4, <2>5, FewerSeats
  <1>5. CASE Report \/ UNCHANGED vars
    BY <1>5, SeatsKept DEF Report, vars
  <1>6. CASE ConsumeExpired \/ Reap
    <2>1. ASSUME NEW G, NEW R
          PROVE  ReservedPairs(WithoutAll(G, R)) \subseteq ReservedPairs(G)
      <3>1. \A k \in Codes : WithoutAll(G, R)[k] = G[k] \/ WithoutAll(G, R)[k] = NoGame
        BY DEF WithoutAll
      <3> QED
        BY <3>1, FewerReserved
    <2>2. ASSUME NEW R
          PROVE  ReservedPairs(RefreshedAll(games, R)) \subseteq ReservedPairs(games)
      <3>1. \A k \in Codes : RefreshedAll(games, R)[k] # NoGame =>
                /\ games[k] # NoGame
                /\ RefreshedAll(games, R)[k].held = games[k].held
        BY TypeFacts, RefreshedAllKept DEF Kept
      <3> QED
        BY <3>1, ReservedIs
    <2>3. ReservedPairs(games') \subseteq ReservedPairs(games)
      BY <1>6, <2>1, <2>2 DEF ConsumeExpired, Reap
    <2> QED
      BY <1>6, <2>3, SeatsKept DEF ConsumeExpired, Reap
  <1>7. CASE Evict
    BY <1>7, SeededAsSaved, SeatsKept DEF Evict
  <1>8. CASE Tick
    BY <1>0, <1>8, AgedReserved, SeatsKept DEF Tick
  <1> QED
    BY <1>1, <1>2, <1>3, <1>4, <1>5, <1>6, <1>7, <1>8

-----------------------------------------------------------------------------
LEMMA SeatsStep ==
    ASSUME SeatsInv, LobbyInv, [Next]_vars
    PROVE  SeatsInv'
  BY CreateGameSeats, JoinGameSeats, LookupSeats, UpdateSeats, OtherSeats DEF Next

LEMMA SeatsHold ==
    ASSUME SeatsInv, LobbyInv
    PROVE  SeatsHaveHolders
  <1>1. TypeOK
    BY DEF LobbyInv
  <1>2. ASSUME NEW k \in Listed(games), NEW v \in games[k].held
        PROVE  Cardinality({c \in open : <<k, v.token>> \in holds[c]}) = 1
    <2> DEFINE p == <<k, v.token>>
    <2>1. k \in Codes /\ games[k] \in Listings /\ v.token \in Tokens
      BY <1>2, TypeFacts DEF Listed, Sound, Tables, Listings, Reservations
    <2>2. p \in ReservedPairs(games)
      BY <2>1 DEF ReservedPairs, TokensOf
    <2> HIDE DEF p
    <2>3. PICK c \in Conns : p \in holds[c]
      BY <2>2 DEF SeatsInv
    <2>4. {d \in open : p \in holds[d]} = {c}
      <3>1. c \in open
        BY <2>3 DEF SeatsInv
      <3>2. \A d \in open : p \in holds[d] => d = c
        BY <2>3, TypeFacts DEF SeatsInv
      <3> QED
        BY <2>3, <3>1, <3>2
    <2> QED
      BY <2>4, FS_Singleton DEF p
  <1>3. ASSUME NEW k \in Listed(games), NEW c \in Conns
        PROVE  Cardinality({t \in TokensOf(games[k]) : <<k, t>> \in holds[c]}) <= 1
    <2> DEFINE S == {t \in TokensOf(games[k]) : <<k, t>> \in holds[c]}
    <2>1. k \in Codes /\ TokensOf(games[k]) \subseteq Tokens
      BY <1>3, TypeFacts DEF Listed, Sound, Tables, Listings, Reservations, TokensOf
    <2>2. \A t \in S : <<k, t>> \in holds[c] \cap ReservedPairs(games)
      BY <2>1 DEF ReservedPairs
    <2>3. ASSUME NEW t \in S, NEW u \in S
          PROVE  t = u
      <3> DEFINE p == <<k, t>>
                 q == <<k, u>>
      <3>1. p \in holds[c] \cap ReservedPairs(games) /\ q \in holds[c] \cap ReservedPairs(games)
        BY <2>2
      <3>2. p[1] = q[1] /\ p[2] = t /\ q[2] = u
        OBVIOUS
      <3> HIDE DEF p, q
      <3>3. p = q
        BY <3>1, <3>2 DEF SeatsInv
      <3> QED
        BY <3>2, <3>3
    <2> HIDE DEF S
    <2>4. CASE S = {}
      <3>1. Cardinality(S) = 0
        BY <2>4, FS_EmptySet
      <3> QED
        BY <3>1 DEF S
    <2>5. CASE S # {}
      <3>1. PICK t \in S : TRUE
        BY <2>5
      <3>2. S = {t}
        BY <2>3, <3>1
      <3>3. Cardinality(S) = 1
        BY <3>2, FS_Singleton
      <3> QED
        BY <3>3 DEF S
    <2> QED
      BY <2>4, <2>5
  <1> QED
    BY <1>1, <1>2, <1>3 DEF SeatsHaveHolders

\* No seat leaks and none is given twice: a reservation belongs to one open
\* socket, and a guest has at most one seat of a game, whatever lapses,
\* disconnects, is swept or evicted in between.
THEOREM SeatsAreHeld == Spec => []SeatsHaveHolders
  <1>1. Init => SeatsInv
    <2> SUFFICES ASSUME Init
                 PROVE  SeatsInv
      OBVIOUS
    <2>1. (\A c \in Conns : holds[c] = {}) /\ games = [k \in Codes |-> NoGame]
      BY DEF Init
    <2>2. ReservedPairs(games) = {}
      BY <2>1 DEF ReservedPairs, Listed
    <2> QED
      BY <2>1, <2>2 DEF SeatsInv
  <1>2. SeatsInv /\ LobbyInv /\ [Next]_vars => SeatsInv'
    BY SeatsStep
  <1>3. SeatsInv /\ LobbyInv => SeatsHaveHolders
    BY SeatsHold
  <1> QED
    BY <1>1, <1>2, <1>3, LobbyInvariant, PTL DEF Spec
=============================================================================
