--------------------------- MODULE LobbyFeedProofs ---------------------------
(***************************************************************************)
(* That the frames of every broker call say exactly what the call did to   *)
(* the listings, and that a subscriber of the Durable Object which has     *)
(* been sent everything shows exactly the listings there are.              *)
(***************************************************************************)
EXTENDS LobbyFeed, SequenceTheorems, TLAPS

Views == [Codes -> Listings]

\* The frames that change one listing.
Deltas == [kind : {"Upsert"}, code : Codes, game : Listings]
          \cup [kind : {"Removed"}, code : Codes]

SnapshotOf(g) == [kind |-> "Snapshot", games |-> g]

\* No call returns more than two frames that change a listing.
Few(q) == q \in Seq(Deltas) /\ Len(q) <= 2

\* What at most two frames show.
Outcome(v, q) == IF Len(q) = 0 THEN v
                 ELSE IF Len(q) = 1 THEN Shown(v, q[1])
                 ELSE Shown(Shown(v, q[1]), q[2])

BrokerOutboxes == \A t \in Tasks \ {Viewer} : Few(outbox[t])

ViewerOutbox ==
    \/ outbox[Viewer] = <<>>
    \/ outbox[Viewer] = <<RemoveSubscriber>> /\ ~listening
    \/ \E g \in Views : \/ outbox[Viewer] = <<SnapshotOf(g)>>
                        \/ outbox[Viewer] = <<AddSubscriber, SnapshotOf(g)>>

OneTaskSends == \A t, u \in Tasks : outbox[t] # <<>> /\ outbox[u] # <<>> => t = u

\* The viewer is told of every change, and what it is still to be told
\* makes its view the listings.
Synced == /\ subscribed
          /\ \A t \in Tasks : outbox[t] # <<>> => Outcome(view, outbox[t]) = games
          /\ Quiet => view = games

InStep == listening => outbox[Viewer] = <<AddSubscriber, Snapshot>> \/ Synced

FeedInv == /\ TypeOK
           /\ BrokerOutboxes
           /\ ViewerOutbox
           /\ durable => OneTaskSends /\ InStep

\* A broker call handled by t, whose frames say what it did to the listings.
Call(t, q) == /\ Returns(t, q)
              /\ Few(q)
              /\ Outcome(games, q) = games'
              /\ games' \in Views
              /\ UNCHANGED <<durable, client>>

\* The parts of the broker that the viewer does not see stay typed.
BrokerTyped == host' \in [Conns -> Registrations] /\ observed' \in Registrations
               /\ stamp' \in 0 .. MaxStamp

-----------------------------------------------------------------------------
(* Frames and what they show.                                              *)

\* A frame that changes one listing keeps a client's view well-typed, a
\* snapshot gives one that is, as subscribeLobbyOver expects of them.
LEMMA ShownTyped ==
    ASSUME NEW v \in Views, NEW f \in Deltas
    PROVE  Shown(v, f) \in Views
<1>1. CASE f \in [kind : {"Upsert"}, code : Codes, game : Listings]
  <2>1. f.kind = "Upsert" /\ f.code \in Codes /\ f.game \in Listings
    BY <1>1
  <2>2. Shown(v, f) = [v EXCEPT ![f.code] = f.game]
    BY <2>1 DEF Shown
  <2> QED
    BY <2>1, <2>2 DEF Views
<1>2. CASE f \in [kind : {"Removed"}, code : Codes]
  <2>1. f.kind = "Removed" /\ f.code \in Codes
    BY <1>2
  <2>2. Shown(v, f) = [v EXCEPT ![f.code] = None]
    BY <2>1 DEF Shown
  <2> QED
    BY <2>1, <2>2 DEF Views, Listings
<1> QED
  BY <1>1, <1>2 DEF Deltas

\* A short list of frames has no, one or two of them.
LEMMA FewFrames ==
    ASSUME NEW q, Few(q)
    PROVE  /\ q \in Seq(Deltas)
           /\ Len(q) = 0 \/ Len(q) = 1 \/ Len(q) = 2
           /\ q # <<>> => Len(q) # 0
<1>1. q \in Seq(Deltas) /\ Len(q) <= 2
  BY Zenon DEF Few
<1>2. Len(q) \in Nat
  BY <1>1, LenProperties, Zenon
<1>3. q # <<>> => Len(q) # 0
  BY <1>1, EmptySeq, Zenon
<1>4. ASSUME NEW n \in Nat, n <= 2
      PROVE  n = 0 \/ n = 1 \/ n = 2
  BY <1>4
<1> QED
  BY <1>1, <1>2, <1>3, <1>4, Zenon

\* The recursion that applies all frames comes down to one or two applications.
LEMMA ShownAllOfFew ==
    ASSUME NEW v, NEW q, Few(q)
    PROVE  ShownAll(v, q) = Outcome(v, q)
<1> DEFINE n == Len(q)
           D == 0 .. n
           Solves(F) == F = [i \in D |-> IF i = 0 THEN v ELSE Shown(F[i - 1], q[i])]
           F0 == [i \in D |-> IF i = 0 THEN v
                              ELSE IF i = 1 THEN Shown(v, q[1])
                              ELSE Shown(Shown(v, q[1]), q[2])]
           View == CHOOSE F : Solves(F)
<1>1. n = 0 \/ n = 1 \/ n = 2
  BY FewFrames, Zenon
<1> HIDE DEF n
<1>2. ASSUME NEW i \in D
      PROVE  F0[i] = IF i = 0 THEN v ELSE Shown(F0[i - 1], q[i])
  <2>1. i = 0 \/ i = 1 \/ i = 2
    BY <1>1
  <2> QED
    BY <2>1, <1>1
<1>3. Solves(F0)
  BY <1>2, Zenon
<1>4. Solves(View)
  BY <1>3, Zenon
<1>5. ShownAll(v, q) = View[n]
  BY Zenon DEF ShownAll, n
<1> HIDE DEF View, F0
<1>6. \A i \in D : View[i] = IF i = 0 THEN v ELSE Shown(View[i - 1], q[i])
  BY <1>4, Zenon
<1>7. View[0] = v /\ (1 \in D => View[1] = Shown(View[0], q[1]))
      /\ (2 \in D => View[2] = Shown(View[1], q[2]))
  BY <1>1, <1>6
<1>8. CASE n = 0
  BY <1>5, <1>7, <1>8 DEF Outcome, n
<1>9. CASE n = 1
  BY <1>5, <1>7, <1>9 DEF Outcome, n
<1>10. CASE n = 2
  BY <1>5, <1>7, <1>10 DEF Outcome, n
<1> QED
  BY <1>1, <1>8, <1>9, <1>10

\* Applying the frames is applying the first and then the others.
LEMMA OutcomeStep ==
    ASSUME NEW v, NEW q, Few(q), q # <<>>
    PROVE  /\ Head(q) \in Deltas
           /\ Few(Tail(q))
           /\ Outcome(v, q) = Outcome(Shown(v, Head(q)), Tail(q))
<1>1. q \in Seq(Deltas) /\ (Len(q) = 1 \/ Len(q) = 2)
  BY FewFrames, Zenon
<1>2. Head(q) = q[1] /\ Head(q) \in Deltas /\ Tail(q) \in Seq(Deltas)
      /\ Len(Tail(q)) = Len(q) - 1
  BY <1>1
<1>3. Len(q) = 2 => Tail(q)[1] = q[2]
  BY <1>1
<1> QED
  BY <1>1, <1>2, <1>3 DEF Few, Outcome

\* No frames, one and two frames.
LEMMA OutcomeNone ==
    ASSUME NEW v
    PROVE  Few(<<>>) /\ Outcome(v, <<>>) = v
BY DEF Few, Outcome

LEMMA OutcomeOne ==
    ASSUME NEW v, NEW f \in Deltas
    PROVE  Few(<<f>>) /\ Outcome(v, <<f>>) = Shown(v, f)
BY DEF Few, Outcome

LEMMA OutcomeTwo ==
    ASSUME NEW v, NEW f \in Deltas, NEW h \in Deltas
    PROVE  Few(<<f, h>>) /\ Outcome(v, <<f, h>>) = Shown(Shown(v, f), h)
BY DEF Few, Outcome

LEMMA TwoFrames ==
    ASSUME NEW f, NEW h
    PROVE  Append(<<f>>, h) = <<f, h>> /\ <<f>> \o <<h>> = <<f, h>> /\ <<f>> \o <<>> = <<f>>
<1> DEFINE S == {f, h}
<1>1. ASSUME NEW s \in Seq(S), Len(s) = 2, s[1] = f, s[2] = h
      PROVE  s = <<f, h>>
  BY <1>1
<1> HIDE DEF S
<1>2. <<f>> \in Seq(S) /\ <<h>> \in Seq(S) /\ <<f, h>> \in Seq(S)
  BY DEF S
<1>3. Append(<<f>>, h) = <<f, h>>
  <2>1. Append(<<f>>, h) \in Seq(S) /\ Len(Append(<<f>>, h)) = 2
        /\ Append(<<f>>, h)[1] = f /\ Append(<<f>>, h)[2] = h
    BY <1>2, AppendProperties
  <2> QED
    BY <2>1, <1>1, Zenon
<1>4. <<f>> \o <<h>> = <<f, h>>
  <2>1. <<f>> \o <<h>> \in Seq(S) /\ Len(<<f>> \o <<h>>) = 2
        /\ (<<f>> \o <<h>>)[1] = f /\ (<<f>> \o <<h>>)[2] = h
    BY <1>2, ConcatProperties
  <2> QED
    BY <2>1, <1>1, Zenon
<1>5. <<f>> \o <<>> = <<f>>
  OBVIOUS
<1> QED
  BY <1>3, <1>4, <1>5

\* What the two frames do to a client's view.
LEMMA ShownUpsert ==
    ASSUME NEW v, NEW k \in Codes, NEW g \in Listings
    PROVE  Upsert(k, g) \in Deltas /\ Shown(v, Upsert(k, g)) = [v EXCEPT ![k] = g]
BY DEF Upsert, Shown, Deltas

LEMMA ShownRemoved ==
    ASSUME NEW v, NEW k \in Codes
    PROVE  Removed(k) \in Deltas /\ Shown(v, Removed(k)) = [v EXCEPT ![k] = None]
BY DEF Removed, Shown, Deltas

\* A view with one listing changed is one.
LEMMA ViewsExcept ==
    ASSUME NEW v \in Views, NEW k \in Codes, NEW g \in Listings
    PROVE  /\ [v EXCEPT ![k] = g] \in Views
           /\ [v EXCEPT ![k] = g][k] = g
BY DEF Views

-----------------------------------------------------------------------------
(* Broker calls.                                                           *)

\* unregister_registration and the frame for it: the listing a socket's
\* registration stands for goes, or nothing does.
LEMMA RestOf ==
    ASSUME TypeOK, NEW c \in Conns
    PROVE  \/ Delisted(c) = <<>> /\ Rest(c) = games
           \/ \E k \in Codes : /\ Delisted(c) = <<Removed(k)>>
                               /\ Rest(c) = [games EXCEPT ![k] = None]
<1>1. CASE ~ IsCurrent(host[c])
  BY <1>1 DEF Delisted, Rest
<1>2. CASE IsCurrent(host[c])
  <2>1. host[c] \in Registrations /\ host[c] # None
    BY <1>2 DEF TypeOK, IsCurrent
  <2>2. host[c].code \in Codes
    BY <2>1 DEF Registrations
  <2> QED
    BY <1>2, <2>2 DEF Delisted, Rest
<1> QED
  BY <1>1, <1>2

LEMMA RestTyped ==
    ASSUME TypeOK, NEW c \in Conns
    PROVE  /\ games \in Views
           /\ Rest(c) \in Views
           /\ Few(Delisted(c)) /\ Outcome(games, Delisted(c)) = Rest(c)
<1>1. games \in Views
  BY DEF TypeOK, Views
<1>2. CASE Delisted(c) = <<>> /\ Rest(c) = games
  BY <1>1, <1>2, OutcomeNone, Zenon
<1>3. ASSUME NEW k \in Codes, Delisted(c) = <<Removed(k)>>,
             Rest(c) = [games EXCEPT ![k] = None]
      PROVE  Rest(c) \in Views /\ Few(Delisted(c)) /\ Outcome(games, Delisted(c)) = Rest(c)
  <2>1. None \in Listings
    BY DEF Listings
  <2>2. Removed(k) \in Deltas /\ Shown(games, Removed(k)) = Rest(c)
    BY <1>3, ShownRemoved, Zenon
  <2>3. [games EXCEPT ![k] = None] \in Views
    BY <1>1, <2>1, ViewsExcept
  <2>4. Rest(c) \in Views
    BY <1>3, <2>3, Zenon
  <2>5. Few(<<Removed(k)>>) /\ Outcome(games, <<Removed(k)>>) = Shown(games, Removed(k))
    BY <2>2, OutcomeOne, Zenon
  <2> QED
    BY <1>3, <2>2, <2>4, <2>5, Zenon
<1> QED
  BY <1>1, <1>2, <1>3, RestOf, Zenon

\* A new listing or a new revision of one is well-typed.
LEMMA NewListing ==
    ASSUME TypeOK, stamp < MaxStamp
    PROVE  /\ [gen |-> stamp, rev |-> stamp] \in Listings
           /\ \A k \in Codes : [code |-> k, gen |-> stamp] \in Registrations
           /\ stamp + 1 \in 0 .. MaxStamp
           /\ \A g \in Listings : g # None => [g EXCEPT !.rev = stamp] \in Listings
BY BoundsAssumption DEF TypeOK, Listings, Registrations

\* A socket's slot of the host table may be cleared or filled.
LEMMA HostExcept ==
    ASSUME TypeOK, NEW c \in Conns, NEW r \in Registrations
    PROVE  [host EXCEPT ![c] = r] \in [Conns -> Registrations]
BY DEF TypeOK

\* CreateGame: the socket's former listing, if any, and then the new one.
LEMMA CreateGameCalls ==
    ASSUME TypeOK, NEW c \in Conns, NEW k \in Codes, NEW requested \in BOOLEAN,
           CreateGame(c, k, requested)
    PROVE  BrokerTyped /\ \E q : Call(c, q)
<1> DEFINE new == [gen |-> stamp, rev |-> stamp]
<1>1. stamp < MaxStamp /\ UNCHANGED <<durable, observed, client>>
  BY DEF CreateGame
<1>2. /\ games \in Views
      /\ Rest(c) \in Views
      /\ Few(Delisted(c))
      /\ Outcome(games, Delisted(c)) = Rest(c)
  BY RestTyped, Zenon
<1>3. new \in Listings /\ [code |-> k, gen |-> stamp] \in Registrations
      /\ stamp + 1 \in 0 .. MaxStamp /\ None \in Registrations
  BY <1>1, NewListing DEF Registrations
<1>4. observed' \in Registrations
  BY <1>1 DEF TypeOK
<1> HIDE DEF new
<1>5. CASE requested /\ Rest(c)[k] # None
  <2>1. Returns(c, Delisted(c)) /\ games' = Rest(c) /\ host' = [host EXCEPT ![c] = None]
        /\ stamp' = stamp
    BY <1>5 DEF CreateGame
  <2>2. Call(c, Delisted(c))
    BY <1>1, <1>2, <2>1, Zenon DEF Call
  <2>3. host' \in [Conns -> Registrations] /\ stamp' \in 0 .. MaxStamp
    BY <1>3, <2>1, HostExcept DEF TypeOK
  <2> QED
    BY <1>4, <2>2, <2>3, Zenon DEF BrokerTyped
<1>6. CASE ~ (requested /\ Rest(c)[k] # None)
  <2>1. /\ Returns(c, Append(Delisted(c), Upsert(k, new)))
        /\ games' = [Rest(c) EXCEPT ![k] = new]
        /\ host' = [host EXCEPT ![c] = [code |-> k, gen |-> stamp]]
        /\ stamp' = stamp + 1
    BY <1>6 DEF CreateGame, new
  <2>2. Upsert(k, new) \in Deltas /\ Shown(Rest(c), Upsert(k, new)) = games'
    BY <1>3, <2>1, ShownUpsert, Zenon
  <2>3. games' \in Views
    BY <1>2, <1>3, <2>1, ViewsExcept, Zenon
  <2>4. Few(Append(Delisted(c), Upsert(k, new)))
        /\ Outcome(games, Append(Delisted(c), Upsert(k, new))) = games'
    <3>1. CASE Delisted(c) = <<>> /\ Rest(c) = games
      <4>1. Append(Delisted(c), Upsert(k, new)) = <<Upsert(k, new)>>
        BY <3>1
      <4> QED
        BY <2>2, <3>1, <4>1, OutcomeOne, Zenon
    <3>2. ASSUME NEW h \in Codes, Delisted(c) = <<Removed(h)>>,
                 Rest(c) = [games EXCEPT ![h] = None]
          PROVE  Few(Append(Delisted(c), Upsert(k, new)))
                 /\ Outcome(games, Append(Delisted(c), Upsert(k, new))) = games'
      <4>1. Append(Delisted(c), Upsert(k, new)) = <<Removed(h), Upsert(k, new)>>
        BY <3>2, TwoFrames, Zenon
      <4>2. Removed(h) \in Deltas /\ Shown(games, Removed(h)) = Rest(c)
        BY <3>2, ShownRemoved, Zenon
      <4>3. Few(<<Removed(h), Upsert(k, new)>>)
            /\ Outcome(games, <<Removed(h), Upsert(k, new)>>)
                 = Shown(Shown(games, Removed(h)), Upsert(k, new))
        BY <2>2, <4>2, OutcomeTwo, Zenon
      <4> QED
        BY <2>2, <4>1, <4>2, <4>3, Zenon
    <3> QED
      BY <3>1, <3>2, RestOf, Zenon
  <2>5. Call(c, Append(Delisted(c), Upsert(k, new)))
    BY <1>1, <2>1, <2>3, <2>4, Zenon DEF Call
  <2>6. host' \in [Conns -> Registrations] /\ stamp' \in 0 .. MaxStamp
    BY <1>3, <2>1, HostExcept, Zenon
  <2> QED
    BY <1>4, <2>5, <2>6, Zenon DEF BrokerTyped
<1> QED
  BY <1>5, <1>6, Zenon

\* A new revision of a listing is announced by what the listing now says.
LEMMA UpdateGameCalls ==
    ASSUME TypeOK, NEW c \in Conns, NEW k \in Codes, UpdateGame(c, k)
    PROVE  BrokerTyped /\ \E q : Call(c, q)
<1> DEFINE g == [games[k] EXCEPT !.rev = stamp]
<1>1. /\ stamp < MaxStamp
      /\ games[k] # None
      /\ games' = [games EXCEPT ![k] = g]
      /\ stamp' = stamp + 1
      /\ Returns(c, <<Upsert(k, games'[k])>>)
      /\ UNCHANGED <<durable, host, observed, client>>
  BY DEF UpdateGame
<1>2. games \in Views /\ games[k] \in Listings
  BY DEF TypeOK, Views
<1>3. g \in Listings /\ stamp + 1 \in 0 .. MaxStamp
  BY <1>1, <1>2, NewListing
<1> HIDE DEF g
<1>4. games' \in Views /\ games'[k] = g
  BY <1>1, <1>2, <1>3, ViewsExcept, Zenon
<1>5. Upsert(k, g) \in Deltas /\ Shown(games, Upsert(k, g)) = games'
  BY <1>1, <1>3, ShownUpsert, Zenon
<1>6. Few(<<Upsert(k, g)>>) /\ Outcome(games, <<Upsert(k, g)>>) = Shown(games, Upsert(k, g))
  BY <1>5, OutcomeOne, Zenon
<1>7. Call(c, <<Upsert(k, g)>>)
  BY <1>1, <1>4, <1>5, <1>6, Zenon DEF Call
<1>8. BrokerTyped
  BY <1>1, <1>3 DEF BrokerTyped, TypeOK
<1> QED
  BY <1>7, <1>8, Zenon

\* handle_unregister
LEMMA WithdrawCalls ==
    ASSUME TypeOK, NEW c \in Conns, Withdraw(c)
    PROVE  BrokerTyped /\ \E q : Call(c, q)
<1>1. /\ host' = [host EXCEPT ![c] = None]
      /\ games' = Rest(c)
      /\ Returns(c, Delisted(c))
      /\ UNCHANGED <<durable, observed, stamp, client>>
  BY DEF Withdraw
<1>2. Call(c, Delisted(c))
  BY <1>1, RestTyped, Zenon DEF Call
<1>3. host' \in [Conns -> Registrations]
  BY <1>1, HostExcept DEF Registrations
<1> QED
  BY <1>1, <1>2, <1>3 DEF BrokerTyped, TypeOK

\* on_disconnect: the listing that regained a seat is another one than the
\* socket's own, so that announcing it first contradicts nothing.
LEMMA DisconnectCalls ==
    ASSUME TypeOK, NEW c \in Conns, NEW k \in Codes, Disconnect(c, k)
    PROVE  BrokerTyped /\ \E q : Call(c, q)
<1> DEFINE g == [Rest(c)[k] EXCEPT !.rev = stamp]
           up == Upsert(k, g)
<1>1. /\ stamp < MaxStamp
      /\ Rest(c)[k] # None
      /\ host' = [host EXCEPT ![c] = None]
      /\ games' = [Rest(c) EXCEPT ![k] = g]
      /\ stamp' = stamp + 1
      /\ Returns(c, <<Upsert(k, games'[k])>> \o Delisted(c))
      /\ UNCHANGED <<durable, observed, client>>
  BY DEF Disconnect
<1>2. games \in Views /\ Rest(c) \in Views
  BY RestTyped, Zenon
<1>3. Rest(c)[k] \in Listings
  BY <1>2 DEF Views
<1>4. g \in Listings /\ stamp + 1 \in 0 .. MaxStamp
  BY <1>1, <1>3, NewListing
<1> HIDE DEF g
<1>5. games' \in Views /\ games'[k] = g
  <2>1. [Rest(c) EXCEPT ![k] = g] \in Views /\ [Rest(c) EXCEPT ![k] = g][k] = g
    BY <1>2, <1>4, ViewsExcept
  <2> QED
    BY <1>1, <2>1, Zenon
<1>6. up \in Deltas /\ Shown(games, up) = [games EXCEPT ![k] = g]
  BY <1>4, ShownUpsert, Zenon
<1>7. up \in Deltas
  BY <1>6, Zenon
<1>8. Returns(c, <<up>> \o Delisted(c))
  BY <1>1, <1>5, Zenon
<1> HIDE DEF up
<1>9. Few(<<up>> \o Delisted(c)) /\ Outcome(games, <<up>> \o Delisted(c)) = games'
  <2>1. CASE Delisted(c) = <<>> /\ Rest(c) = games
    <3>1. <<up>> \o Delisted(c) = <<up>> /\ games' = [games EXCEPT ![k] = g]
      BY <1>1, <2>1, TwoFrames, Zenon
    <3> QED
      BY <1>6, <3>1, OutcomeOne, Zenon
  <2>2. ASSUME NEW h \in Codes, Delisted(c) = <<Removed(h)>>,
               Rest(c) = [games EXCEPT ![h] = None]
        PROVE  Few(<<up>> \o Delisted(c)) /\ Outcome(games, <<up>> \o Delisted(c)) = games'
    <3>1. <<up>> \o Delisted(c) = <<up, Removed(h)>>
      BY <2>2, TwoFrames, Zenon
    <3>2. Removed(h) \in Deltas
          /\ Shown(Shown(games, up), Removed(h)) = [Shown(games, up) EXCEPT ![h] = None]
      BY ShownRemoved, Zenon
    <3>3. k # h
      BY <1>1, <1>2, <2>2 DEF Views
    <3>4. [[games EXCEPT ![k] = g] EXCEPT ![h] = None]
            = [[games EXCEPT ![h] = None] EXCEPT ![k] = g]
      BY <1>2, <3>3 DEF Views
    <3>5. Shown(Shown(games, up), Removed(h)) = games'
      BY <1>1, <1>6, <2>2, <3>2, <3>4
    <3>6. Few(<<up, Removed(h)>>)
          /\ Outcome(games, <<up, Removed(h)>>) = Shown(Shown(games, up), Removed(h))
      <4>1. Removed(h) \in Deltas
        BY <3>2, Zenon
      <4> QED
        BY <1>7, <4>1, OutcomeTwo, Zenon
    <3> QED
      BY <3>1, <3>5, <3>6, Zenon
  <2> QED
    BY <2>1, <2>2, RestOf, Zenon
<1>10. Call(c, <<up>> \o Delisted(c))
  BY <1>1, <1>5, <1>8, <1>9, Zenon DEF Call
<1>11. host' \in [Conns -> Registrations]
  BY <1>1, HostExcept DEF Registrations
<1>12. observed' \in Registrations /\ stamp' \in 0 .. MaxStamp
  BY <1>1, <1>4 DEF TypeOK
<1> QED
  BY <1>10, <1>11, <1>12, Zenon DEF BrokerTyped

\* The sweep: an observation of the current registration removes it and says
\* so, one of a registration that is gone says so again, and a superseded one
\* neither removes nor says anything.
LEMMA ReapedCalls ==
    ASSUME TypeOK, NEW r, r.code \in Codes, Reaped(r),
           UNCHANGED <<durable, host, stamp, client>>
    PROVE  BrokerTyped /\ \E q : Call(Sweep, q)
<1>1. BrokerTyped
  BY DEF Reaped, BrokerTyped, TypeOK, Registrations
<1>2. games \in Views /\ None \in Listings
  BY DEF TypeOK, Views, Listings
<1>3. Removed(r.code) \in Deltas
      /\ Shown(games, Removed(r.code)) = [games EXCEPT ![r.code] = None]
  BY ShownRemoved, Zenon
<1>4. Few(<<Removed(r.code)>>)
      /\ Outcome(games, <<Removed(r.code)>>) = Shown(games, Removed(r.code))
  BY <1>3, OutcomeOne, Zenon
<1>5. [games EXCEPT ![r.code] = None] \in Views
  BY <1>2, ViewsExcept
<1>6. CASE IsCurrent(r)
  <2>1. Returns(Sweep, <<Removed(r.code)>>) /\ games' = [games EXCEPT ![r.code] = None]
    BY <1>6 DEF Reaped, Announces
  <2>2. Call(Sweep, <<Removed(r.code)>>)
    BY <1>3, <1>4, <1>5, <2>1, Zenon DEF Call
  <2> QED
    BY <1>1, <2>2, Zenon
<1>7. CASE ~ IsCurrent(r) /\ games[r.code] = None
  <2>1. Returns(Sweep, <<Removed(r.code)>>) /\ games' = games
    BY <1>7 DEF Reaped, Announces
  <2>2. [games EXCEPT ![r.code] = None] = games
    BY <1>2, <1>7 DEF Views
  <2>3. Call(Sweep, <<Removed(r.code)>>)
    BY <1>2, <1>3, <1>4, <2>1, <2>2, Zenon DEF Call
  <2> QED
    BY <1>1, <2>3, Zenon
<1>8. CASE ~ IsCurrent(r) /\ games[r.code] # None
  <2>1. Returns(Sweep, <<>>) /\ games' = games
    BY <1>8 DEF Reaped, Announces
  <2>2. Call(Sweep, <<>>)
    BY <1>2, <2>1, OutcomeNone, Zenon DEF Call
  <2> QED
    BY <1>1, <2>2, Zenon
<1> QED
  BY <1>6, <1>7, <1>8, Zenon

\* Each call of the broker is a call in this sense.
BrokerCall == \E t \in Tasks \ {Viewer} : BrokerTyped /\ \E q : Call(t, q)

LEMMA BrokerCalls ==
    ASSUME TypeOK,
           \/ \E c \in Conns, k \in Codes, requested \in BOOLEAN : CreateGame(c, k, requested)
           \/ \E c \in Conns, k \in Codes : UpdateGame(c, k)
           \/ \E c \in Conns : Withdraw(c)
           \/ \E c \in Conns, k \in Codes : Disconnect(c, k)
           \/ Consume
           \/ \E k \in Codes : Reap(k)
    PROVE  BrokerCall
<1>1. Conns \subseteq Tasks \ {Viewer} /\ Sweep \in Tasks \ {Viewer}
  BY TasksAssumption DEF Tasks
<1>2. CASE \E c \in Conns, k \in Codes, requested \in BOOLEAN : CreateGame(c, k, requested)
  BY <1>1, <1>2, CreateGameCalls, Zenon DEF BrokerCall
<1>3. CASE \E c \in Conns, k \in Codes : UpdateGame(c, k)
  BY <1>1, <1>3, UpdateGameCalls, Zenon DEF BrokerCall
<1>4. CASE \E c \in Conns : Withdraw(c)
  BY <1>1, <1>4, WithdrawCalls, Zenon DEF BrokerCall
<1>5. CASE \E c \in Conns, k \in Codes : Disconnect(c, k)
  BY <1>1, <1>5, DisconnectCalls, Zenon DEF BrokerCall
<1>6. CASE Consume
  <2>1. Reaped(observed) /\ UNCHANGED <<durable, host, stamp, client>> /\ observed # None
    BY <1>6 DEF Consume
  <2>2. observed.code \in Codes
    BY <2>1 DEF TypeOK, Registrations
  <2> QED
    BY <1>1, <2>1, <2>2, ReapedCalls, Zenon DEF BrokerCall
<1>7. CASE \E k \in Codes : Reap(k)
  <2>1. PICK k \in Codes : Reap(k)
    BY <1>7
  <2>2. Reaped(Registered(k)) /\ UNCHANGED <<durable, host, stamp, client>>
    BY <2>1 DEF Reap
  <2>3. Registered(k).code \in Codes
    BY DEF Registered
  <2> QED
    BY <1>1, <2>2, <2>3, ReapedCalls, Zenon DEF BrokerCall
<1> QED
  BY <1>2, <1>3, <1>4, <1>5, <1>6, <1>7, Zenon

-----------------------------------------------------------------------------
(* The frames of the viewer's own task.                                    *)

\* A snapshot makes the view what it says, and the outbox of a subscription
\* is sent from its head.
LEMMA ViewerFrames ==
    ASSUME NEW v, NEW g
    PROVE  /\ Outcome(v, <<SnapshotOf(g)>>) = g
           /\ Outcome(v, <<AddSubscriber, SnapshotOf(g)>>) = g
           /\ Tail(<<SnapshotOf(g)>>) = <<>>
           /\ Tail(<<RemoveSubscriber>>) = <<>>
           /\ Tail(<<AddSubscriber, SnapshotOf(g)>>) = <<SnapshotOf(g)>>
           /\ Head(<<SnapshotOf(g)>>) = SnapshotOf(g)
           /\ Head(<<RemoveSubscriber>>) = RemoveSubscriber
           /\ Head(<<AddSubscriber, SnapshotOf(g)>>) = AddSubscriber
           /\ <<SnapshotOf(g)>> # <<>> /\ <<RemoveSubscriber>> # <<>>
           /\ <<AddSubscriber, SnapshotOf(g)>> # <<>>
<1>1. \A w : Shown(w, SnapshotOf(g)) = g
  BY DEF Shown, SnapshotOf
<1>2. Outcome(v, <<SnapshotOf(g)>>) = g
  BY <1>1 DEF Outcome
<1>3. Outcome(v, <<AddSubscriber, SnapshotOf(g)>>) = g
  BY <1>1 DEF Outcome
<1>4. ASSUME NEW f, NEW h
      PROVE  /\ Tail(<<f>>) = <<>> /\ Head(<<f>>) = f /\ <<f>> # <<>>
             /\ Tail(<<f, h>>) = <<h>> /\ Head(<<f, h>>) = f /\ <<f, h>> # <<>>
  OBVIOUS
<1> QED
  BY <1>2, <1>3, <1>4, Zenon

\* A subscription's outbox is not the rest of one.
LEMMA PairNotSingle ==
    ASSUME NEW f, NEW h, NEW x
    PROVE  <<f, h>> # <<x>> /\ <<f, h>> # <<>>
<1>1. Len(<<f, h>>) = 2 /\ Len(<<x>>) = 1 /\ Len(<<>>) = 0
  OBVIOUS
<1> QED
  BY <1>1

\* Two subscriptions' outboxes are equal only with the same snapshot.
LEMMA SamePair ==
    ASSUME NEW a, NEW g, <<AddSubscriber, SnapshotOf(a)>> = <<AddSubscriber, SnapshotOf(g)>>
    PROVE  a = g
<1>1. SnapshotOf(a) = SnapshotOf(g)
  OBVIOUS
<1>2. SnapshotOf(a).games = a /\ SnapshotOf(g).games = g
  BY DEF SnapshotOf
<1> QED
  BY <1>1, <1>2, Zenon

-----------------------------------------------------------------------------
(* The inductive invariant.                                                *)

\* A call of the broker leaves the frames that bring the viewer up to date.
LEMMA CallKeeps ==
    ASSUME FeedInv, NEW t \in Tasks \ {Viewer}, NEW q, Call(t, q), BrokerTyped
    PROVE  FeedInv'
<1>1. /\ MayHandle(t)
      /\ outbox' = [outbox EXCEPT ![t] = q]
      /\ Few(q)
      /\ Outcome(games, q) = games'
      /\ games' \in Views
      /\ UNCHANGED <<durable, subscribed, listening, view, subscribes>>
  BY DEF Call, Returns, client
<1>2. TypeOK /\ BrokerOutboxes /\ ViewerOutbox /\ (durable => OneTaskSends /\ InStep)
  BY DEF FeedInv
<1>3. DOMAIN outbox = Tasks
  BY <1>2 DEF TypeOK
<1>4. DOMAIN outbox' = Tasks /\ outbox'[t] = q /\ Viewer \in Tasks
      /\ \A u \in Tasks \ {t} : outbox'[u] = outbox[u]
  BY <1>1, <1>3 DEF Tasks
<1>5. TypeOK'
  BY <1>1, <1>2, <1>4 DEF TypeOK, BrokerTyped, Views
<1>6. BrokerOutboxes'
  BY <1>1, <1>2, <1>4, Zenon DEF BrokerOutboxes, Few
<1>7. ViewerOutbox'
  <2>1. outbox'[Viewer] = outbox[Viewer] /\ listening' = listening
    BY <1>1, <1>4
  <2> QED
    BY <1>2, <2>1 DEF ViewerOutbox, RemoveSubscriber, AddSubscriber
<1>8. ASSUME durable' PROVE OneTaskSends' /\ InStep'
  <2>1. durable /\ \A u \in Tasks : outbox[u] = <<>>
    BY <1>1, <1>8 DEF MayHandle, Quiet
  <2>2. \A u \in Tasks : outbox'[u] # <<>> => u = t
    BY <1>4, <2>1, Zenon
  <2>3. OneTaskSends'
    BY <2>2, Zenon DEF OneTaskSends
  <2>4. ASSUME listening' PROVE Synced'
    <3>1. listening
      BY <1>1, <2>4
    <3>2. outbox[Viewer] # <<AddSubscriber, Snapshot>>
      BY <1>4, <2>1, PairNotSingle
    <3>3. subscribed /\ view = games
      BY <1>2, <2>1, <3>1, <3>2, Zenon DEF InStep, Synced, Quiet
    <3>4. subscribed' /\ view' = games /\ Outcome(view', q) = games'
      BY <1>1, <3>3, Zenon
    <3>5. \A u \in Tasks : outbox'[u] # <<>> => Outcome(view', outbox'[u]) = games'
      BY <1>4, <2>2, <3>4, Zenon
    <3>6. ASSUME Quiet' PROVE view' = games'
      <4>1. q = <<>>
        BY <1>4, <3>6, Zenon DEF Quiet
      <4>2. Outcome(games, q) = games
        BY <4>1, OutcomeNone, Zenon
      <4> QED
        BY <1>1, <3>4, <4>2, Zenon
    <3> QED
      BY <3>4, <3>5, <3>6, Zenon DEF Synced
  <2> QED
    BY <2>3, <2>4, Zenon DEF InStep
<1> QED
  BY <1>5, <1>6, <1>7, <1>8, Zenon DEF FeedInv

\* SubscribeLobby: the snapshot is of the listings at that moment.
LEMMA SubscribeKeeps ==
    ASSUME FeedInv, Subscribe
    PROVE  FeedInv'
<1>1. /\ MayHandle(Viewer)
      /\ outbox' = [outbox EXCEPT ![Viewer] = <<AddSubscriber, SnapshotOf(games)>>]
      /\ view' = [k \in Codes |-> None]
      /\ listening' = TRUE
      /\ subscribes < MaxSubscribes /\ subscribes' = subscribes + 1
      /\ UNCHANGED <<durable, games, host, observed, stamp, subscribed>>
  BY DEF Subscribe, Returns, Snapshot, SnapshotOf, registry
<1>2. TypeOK /\ BrokerOutboxes /\ ViewerOutbox /\ (durable => OneTaskSends /\ InStep)
  BY DEF FeedInv
<1>3. DOMAIN outbox = Tasks
  BY <1>2 DEF TypeOK
<1>4. /\ DOMAIN outbox' = Tasks /\ Viewer \in Tasks
      /\ outbox'[Viewer] = <<AddSubscriber, SnapshotOf(games)>>
      /\ \A u \in Tasks \ {Viewer} : outbox'[u] = outbox[u]
  BY <1>1, <1>3 DEF Tasks
<1>5. TypeOK'
  BY <1>1, <1>2, <1>4, BoundsAssumption DEF TypeOK, Listings
<1>6. BrokerOutboxes'
  BY <1>2, <1>4, Zenon DEF BrokerOutboxes, Few
<1>7. ViewerOutbox'
  <2>1. games \in Views
    BY <1>2 DEF TypeOK, Views
  <2> QED
    BY <1>4, <2>1, Zenon DEF ViewerOutbox, AddSubscriber
<1>8. ASSUME durable' PROVE OneTaskSends' /\ InStep'
  <2>1. \A u \in Tasks : outbox[u] = <<>>
    BY <1>1, <1>8 DEF MayHandle, Quiet
  <2>2. OneTaskSends'
    BY <1>4, <2>1, Zenon DEF OneTaskSends
  <2>3. outbox'[Viewer] = <<AddSubscriber, Snapshot>>'
    BY <1>1, <1>4 DEF AddSubscriber, Snapshot, SnapshotOf
  <2> QED
    BY <2>2, <2>3, Zenon DEF InStep
<1> QED
  BY <1>5, <1>6, <1>7, <1>8, Zenon DEF FeedInv

\* UnsubscribeLobby: the client no longer listens.
LEMMA UnsubscribeKeeps ==
    ASSUME FeedInv, Unsubscribe
    PROVE  FeedInv'
<1>1. /\ MayHandle(Viewer)
      /\ outbox' = [outbox EXCEPT ![Viewer] = <<RemoveSubscriber>>]
      /\ view' = [k \in Codes |-> None]
      /\ listening' = FALSE
      /\ UNCHANGED <<durable, games, host, observed, stamp, subscribed, subscribes>>
  BY DEF Unsubscribe, Returns, registry
<1>2. TypeOK /\ BrokerOutboxes /\ ViewerOutbox /\ (durable => OneTaskSends /\ InStep)
  BY DEF FeedInv
<1>3. DOMAIN outbox = Tasks
  BY <1>2 DEF TypeOK
<1>4. /\ DOMAIN outbox' = Tasks /\ Viewer \in Tasks
      /\ outbox'[Viewer] = <<RemoveSubscriber>>
      /\ \A u \in Tasks \ {Viewer} : outbox'[u] = outbox[u]
  BY <1>1, <1>3 DEF Tasks
<1>5. TypeOK'
  BY <1>1, <1>2, <1>4 DEF TypeOK, Listings
<1>6. BrokerOutboxes'
  BY <1>2, <1>4, Zenon DEF BrokerOutboxes, Few
<1>7. ViewerOutbox'
  BY <1>1, <1>4, Zenon DEF ViewerOutbox, RemoveSubscriber
<1>8. ASSUME durable' PROVE OneTaskSends' /\ InStep'
  <2>1. \A u \in Tasks : outbox[u] = <<>>
    BY <1>1, <1>8 DEF MayHandle, Quiet
  <2>2. OneTaskSends'
    BY <1>4, <2>1, Zenon DEF OneTaskSends
  <2> QED
    BY <1>1, <2>2, Zenon DEF InStep
<1> QED
  BY <1>5, <1>6, <1>7, <1>8, Zenon DEF FeedInv

\* The sweep takes note of an expired listing, or drops the note again.
SweepNotes == Spare \/ \E k \in Codes : Report(k)

\* That changes what the sweep remembers, nothing a client sees.
LEMMA NotesKeep ==
    ASSUME FeedInv, SweepNotes
    PROVE  FeedInv'
<1>1. /\ observed' = None \/ \E k \in Codes : games[k] # None /\ observed' = Registered(k)
      /\ UNCHANGED <<durable, games, host, outbox, stamp, subscribed, listening, view,
                     subscribes>>
  BY DEF SweepNotes, Report, Spare, client
<1>2. TypeOK /\ BrokerOutboxes /\ ViewerOutbox /\ (durable => OneTaskSends /\ InStep)
  BY DEF FeedInv
<1>3. observed' \in Registrations
  BY <1>1, <1>2 DEF TypeOK, Registrations, Registered, Listings
<1>4. TypeOK'
  BY <1>1, <1>2, <1>3 DEF TypeOK
<1>5. BrokerOutboxes'
  BY <1>1, <1>2, Zenon DEF BrokerOutboxes, Few
<1>6. ViewerOutbox'
  BY <1>1, <1>2 DEF ViewerOutbox, RemoveSubscriber, AddSubscriber
<1>7. durable' => OneTaskSends' /\ InStep'
  BY <1>1, <1>2 DEF OneTaskSends, InStep, Synced, Quiet, Snapshot, AddSubscriber, Outcome, Shown
<1> QED
  BY <1>4, <1>5, <1>6, <1>7, Zenon DEF FeedInv

\* A frame that a broker call returned is sent.
LEMMA SendDeltaKeeps ==
    ASSUME FeedInv, NEW t \in Tasks \ {Viewer}, Send(t)
    PROVE  FeedInv'
<1> DEFINE q == outbox[t]
           f == Head(q)
<1>1. TypeOK /\ BrokerOutboxes /\ ViewerOutbox /\ (durable => OneTaskSends /\ InStep)
  BY DEF FeedInv
<1>2. q # <<>> /\ outbox' = [outbox EXCEPT ![t] = Tail(q)]
      /\ UNCHANGED <<durable, games, host, observed, stamp, listening, subscribes>>
  BY DEF Send, registry
<1>3. Few(q)
  BY <1>1, Zenon DEF BrokerOutboxes
<1>4. /\ f \in Deltas
      /\ Few(Tail(q))
      /\ Outcome(view, q) = Outcome(Shown(view, f), Tail(q))
  BY <1>2, <1>3, OutcomeStep, Zenon
<1>5. f.kind \in {"Upsert", "Removed"}
  BY <1>4 DEF Deltas
<1>6. subscribed' = subscribed
      /\ view' = IF subscribed /\ listening THEN Shown(view, f) ELSE view
  BY <1>5 DEF Send
<1>7. DOMAIN outbox = Tasks /\ view \in Views /\ subscribed \in BOOLEAN
  BY <1>1 DEF TypeOK, Views
<1>8. view' \in Views
  BY <1>4, <1>6, <1>7, ShownTyped, Zenon
<1> HIDE DEF f
<1>9. DOMAIN outbox' = Tasks /\ outbox'[t] = Tail(q) /\ Viewer \in Tasks
      /\ \A u \in Tasks \ {t} : outbox'[u] = outbox[u]
  BY <1>2, <1>7 DEF Tasks
<1>10. TypeOK'
  BY <1>1, <1>2, <1>6, <1>8, <1>9 DEF TypeOK, Views
<1>11. BrokerOutboxes'
  BY <1>1, <1>4, <1>9, Zenon DEF BrokerOutboxes, Few
<1>12. ViewerOutbox'
  <2>1. outbox'[Viewer] = outbox[Viewer] /\ listening' = listening
    BY <1>2, <1>9
  <2> QED
    BY <1>1, <2>1 DEF ViewerOutbox, RemoveSubscriber, AddSubscriber
<1>13. ASSUME durable' PROVE OneTaskSends' /\ InStep'
  <2>1. OneTaskSends /\ InStep
    BY <1>1, <1>2, <1>13
  <2>2. \A u \in Tasks \ {t} : outbox[u] = <<>> /\ outbox'[u] = <<>>
    BY <1>2, <1>9, <2>1, Zenon DEF OneTaskSends
  <2>3. OneTaskSends'
    BY <2>2, Zenon DEF OneTaskSends
  <2>4. ASSUME listening' PROVE Synced'
    <3>1. listening
      BY <1>2, <2>4
    <3>2. outbox[Viewer] # <<AddSubscriber, Snapshot>>
      BY <1>9, <2>2, PairNotSingle
    <3>3. subscribed /\ Outcome(view, q) = games
      BY <1>2, <2>1, <3>1, <3>2, Zenon DEF InStep, Synced
    <3>4. subscribed' /\ view' = Shown(view, f)
      BY <1>6, <3>1, <3>3, Zenon
    <3>5. Outcome(view', outbox'[t]) = games'
      BY <1>2, <1>4, <1>9, <3>3, <3>4, Zenon
    <3>6. \A u \in Tasks : outbox'[u] # <<>> => Outcome(view', outbox'[u]) = games'
      BY <2>2, <3>5, Zenon
    <3>7. ASSUME Quiet' PROVE view' = games'
      <4>1. outbox'[t] = <<>>
        BY <3>7, Zenon DEF Quiet
      <4>2. Outcome(view', <<>>) = view'
        BY OutcomeNone, Zenon
      <4> QED
        BY <3>5, <4>1, <4>2, Zenon
    <3> QED
      BY <3>4, <3>6, <3>7, Zenon DEF Synced
  <2> QED
    BY <2>3, <2>4, Zenon DEF InStep
<1> QED
  BY <1>10, <1>11, <1>12, <1>13, Zenon DEF FeedInv

\* An outbound of the viewer's own subscription is applied.
LEMMA SendViewerKeeps ==
    ASSUME FeedInv, Send(Viewer)
    PROVE  FeedInv'
<1> DEFINE q == outbox[Viewer]
<1>1. TypeOK /\ BrokerOutboxes /\ ViewerOutbox /\ (durable => OneTaskSends /\ InStep)
  BY DEF FeedInv
<1>2. q # <<>> /\ outbox' = [outbox EXCEPT ![Viewer] = Tail(q)]
      /\ UNCHANGED <<durable, games, host, observed, stamp, listening, subscribes>>
  BY DEF Send, registry
<1>3. DOMAIN outbox = Tasks /\ view \in Views /\ subscribed \in BOOLEAN
  BY <1>1 DEF TypeOK, Views
<1>4. DOMAIN outbox' = Tasks /\ outbox'[Viewer] = Tail(q) /\ Viewer \in Tasks
      /\ \A u \in Tasks \ {Viewer} : outbox'[u] = outbox[u]
  BY <1>2, <1>3 DEF Tasks
<1>5. BrokerOutboxes'
  BY <1>1, <1>4, Zenon DEF BrokerOutboxes, Few
<1>6. ASSUME view' \in Views, subscribed' \in BOOLEAN PROVE TypeOK'
  BY <1>1, <1>2, <1>4, <1>6 DEF TypeOK, Views
<1>7. ASSUME durable'
      PROVE  durable /\ OneTaskSends'
             /\ \A u \in Tasks \ {Viewer} : outbox'[u] = <<>>
  <2>1. durable /\ OneTaskSends
    BY <1>1, <1>2, <1>7
  <2>2. \A u \in Tasks \ {Viewer} : outbox'[u] = <<>>
    BY <1>2, <1>4, <2>1, Zenon DEF OneTaskSends
  <2>3. OneTaskSends'
    BY <2>2, Zenon DEF OneTaskSends
  <2> QED
    BY <2>1, <2>2, <2>3, Zenon
<1>8. CASE q = <<RemoveSubscriber>> /\ ~ listening
  <2>1. Head(q) = RemoveSubscriber /\ Tail(q) = <<>>
    BY <1>8, ViewerFrames, Zenon
  <2>2. subscribed' = FALSE /\ view' = view
    BY <1>8, <2>1 DEF Send, RemoveSubscriber
  <2>3. TypeOK'
    BY <1>3, <1>6, <2>2
  <2>4. ViewerOutbox'
    BY <1>4, <2>1, Zenon DEF ViewerOutbox
  <2>5. InStep'
    BY <1>2, <1>8, Zenon DEF InStep
  <2> QED
    BY <1>5, <1>7, <2>3, <2>4, <2>5, Zenon DEF FeedInv
<1>9. ASSUME NEW g \in Views, q = <<SnapshotOf(g)>>
      PROVE  FeedInv'
  <2>1. Head(q) = SnapshotOf(g) /\ Tail(q) = <<>>
    BY <1>9, ViewerFrames, Zenon
  <2>2. SnapshotOf(g).kind = "Snapshot" /\ Shown(view, SnapshotOf(g)) = g
    BY DEF SnapshotOf, Shown
  <2>3. subscribed' = subscribed /\ view' = IF listening THEN g ELSE view
    BY <2>1, <2>2 DEF Send
  <2>4. TypeOK'
    BY <1>3, <1>6, <1>9, <2>3
  <2>5. ViewerOutbox'
    BY <1>4, <2>1, Zenon DEF ViewerOutbox
  <2>6. ASSUME durable' PROVE InStep'
    <3>1. ASSUME listening' PROVE Synced'
      <4>1. listening /\ view' = g
        BY <1>2, <2>3, <3>1
      <4>2. q # <<AddSubscriber, Snapshot>>
        BY <1>9, PairNotSingle
      <4>3. subscribed /\ Outcome(view, q) = games
        BY <1>1, <1>2, <1>4, <1>7, <2>6, <4>1, <4>2, Zenon DEF InStep, Synced
      <4>4. g = games
        BY <1>9, <4>3, ViewerFrames, Zenon
      <4>5. view' = games' /\ subscribed'
        BY <1>2, <2>3, <4>1, <4>3, <4>4
      <4>6. \A u \in Tasks : outbox'[u] = <<>>
        BY <1>4, <1>7, <2>1, <2>6, Zenon
      <4> QED
        BY <4>5, <4>6, Zenon DEF Synced
    <3> QED
      BY <3>1, Zenon DEF InStep
  <2> QED
    BY <1>5, <1>7, <2>4, <2>5, <2>6, Zenon DEF FeedInv
<1>10. ASSUME NEW g \in Views, q = <<AddSubscriber, SnapshotOf(g)>>
       PROVE  FeedInv'
  <2>1. Head(q) = AddSubscriber /\ Tail(q) = <<SnapshotOf(g)>>
    BY <1>10, ViewerFrames, Zenon
  <2>2. subscribed' = TRUE /\ view' = view
    BY <2>1 DEF Send, AddSubscriber
  <2>3. TypeOK'
    BY <1>3, <1>6, <2>2
  <2>4. ViewerOutbox'
    BY <1>4, <1>10, <2>1, Zenon DEF ViewerOutbox
  <2>5. ASSUME durable' PROVE InStep'
    <3>1. ASSUME listening' PROVE Synced'
      <4>1. listening
        BY <1>2, <3>1
      <4>2. g = games
        <5>1. CASE q = <<AddSubscriber, Snapshot>>
          <6>1. <<AddSubscriber, SnapshotOf(games)>> = <<AddSubscriber, SnapshotOf(g)>>
            BY <1>10, <5>1, Zenon DEF Snapshot, SnapshotOf
          <6> QED
            BY <6>1, SamePair, Zenon
        <5>2. CASE Synced
          <6>1. Outcome(view, q) = games
            BY <1>2, <1>4, <5>2, Zenon DEF Synced
          <6> QED
            BY <1>10, <6>1, ViewerFrames, Zenon
        <5> QED
          BY <1>1, <1>7, <2>5, <4>1, <5>1, <5>2, Zenon DEF InStep
      <4>3. outbox'[Viewer] = <<SnapshotOf(games')>>
        BY <1>2, <1>4, <2>1, <4>2, Zenon
      <4>4. Outcome(view', <<SnapshotOf(games')>>) = games'
        BY ViewerFrames, Zenon
      <4>5. \A u \in Tasks : outbox'[u] # <<>> => Outcome(view', outbox'[u]) = games'
        BY <1>7, <2>5, <4>3, <4>4, Zenon
      <4>6. <<SnapshotOf(games')>> # <<>>
        BY ViewerFrames, Zenon
      <4>7. ~ Quiet'
        BY <1>4, <4>3, <4>6, Zenon DEF Quiet
      <4> QED
        BY <2>2, <4>5, <4>7, Zenon DEF Synced
    <3> QED
      BY <3>1, Zenon DEF InStep
  <2> QED
    BY <1>5, <1>7, <2>3, <2>4, <2>5, Zenon DEF FeedInv
<1> QED
  BY <1>1, <1>2, <1>8, <1>9, <1>10, Zenon DEF ViewerOutbox

LEMMA FeedInvInit ==
    ASSUME Init
    PROVE  FeedInv
<1>1. TypeOK
  <2>1. None \in Listings /\ None \in Registrations
    BY DEF Listings, Registrations
  <2>2. 0 \in 0 .. MaxStamp /\ 0 \in 0 .. MaxSubscribes
    BY BoundsAssumption
  <2> QED
    BY <2>1, <2>2, Zenon DEF Init, TypeOK
<1>2. \A t \in Tasks : outbox[t] = <<>>
  BY DEF Init
<1>3. Viewer \in Tasks
  BY DEF Tasks
<1>4. BrokerOutboxes
  BY <1>2, OutcomeNone, Zenon DEF BrokerOutboxes
<1>5. ViewerOutbox
  BY <1>2, <1>3, Zenon DEF ViewerOutbox
<1>6. OneTaskSends
  BY <1>2, Zenon DEF OneTaskSends
<1>7. InStep
  BY Zenon DEF Init, InStep
<1> QED
  BY <1>1, <1>4, <1>5, <1>6, <1>7, Zenon DEF FeedInv

\* Every step is a broker call or one of the others.
LEMMA Steps ==
    ASSUME FeedInv, [Next]_vars
    PROVE  \/ BrokerCall
           \/ SweepNotes
           \/ Subscribe \/ Unsubscribe
           \/ \E t \in Tasks : Send(t)
           \/ UNCHANGED vars
<1>1. TypeOK
  BY DEF FeedInv
<1> QED
  BY <1>1, BrokerCalls, Zenon DEF Next, SweepNotes

LEMMA FeedInvNext ==
    ASSUME FeedInv, [Next]_vars
    PROVE  FeedInv'
<1>1. CASE BrokerCall
  BY <1>1, CallKeeps, Zenon DEF BrokerCall
<1>2. CASE SweepNotes
  BY <1>2, NotesKeep, Zenon
<1>3. CASE Subscribe
  BY <1>3, SubscribeKeeps, Zenon
<1>4. CASE Unsubscribe
  BY <1>4, UnsubscribeKeeps, Zenon
<1>5. CASE \E t \in Tasks : Send(t)
  BY <1>5, SendDeltaKeeps, SendViewerKeeps
<1>6. CASE UNCHANGED vars
  <2>1. UNCHANGED <<durable, games, host, observed, outbox, subscribed, listening, view, stamp,
                    subscribes>>
    BY <1>6 DEF vars
  <2>2. TypeOK' /\ BrokerOutboxes' /\ ViewerOutbox'
    BY <2>1 DEF FeedInv, TypeOK, BrokerOutboxes, Few, ViewerOutbox, RemoveSubscriber, AddSubscriber
  <2>3. durable' => OneTaskSends' /\ InStep'
    BY <2>1 DEF FeedInv, OneTaskSends, InStep, Synced, Quiet, Snapshot, AddSubscriber, Outcome, Shown
  <2> QED
    BY <2>2, <2>3, Zenon DEF FeedInv
<1> QED
  BY <1>1, <1>2, <1>3, <1>4, <1>5, <1>6, Steps, Zenon

\* The feed's invariant holds in every behaviour.
THEOREM FeedInvariant == Spec => []FeedInv
<1>1. Init => FeedInv
  BY FeedInvInit, Zenon
<1>2. FeedInv /\ [Next]_vars => FeedInv'
  BY FeedInvNext, Zenon
<1> QED
  BY <1>1, <1>2, PTL DEF Spec

\* A subscriber of the Durable Object that has been sent everything shows
\* exactly the listings there are, for any sockets, codes and registrations
\* and however often it subscribes.
THEOREM FeedAlwaysExact == Spec => []FeedExact
<1>1. FeedInv => FeedExact
  <2> SUFFICES ASSUME FeedInv, durable, Quiet, listening PROVE view = games
    BY DEF FeedInv, FeedExact
  <2>1. outbox[Viewer] = <<>>
    BY DEF Quiet, Tasks
  <2>2. outbox[Viewer] # <<AddSubscriber, Snapshot>>
    BY <2>1, PairNotSingle
  <2> QED
    BY <2>2, Zenon DEF FeedInv, InStep, Synced
<1> QED
  BY <1>1, FeedInvariant, PTL

-----------------------------------------------------------------------------
(* What a call's frames say.                                               *)

\* One task at a time fills its outbox, and what it says is what was done.
LEMMA CallExact ==
    ASSUME TypeOK, NEW t \in Tasks \ {Viewer}, NEW q, Call(t, q)
    PROVE  ExactDeltas
<1> DEFINE senders == {u \in Tasks \ {Viewer} : outbox[u] = <<>> /\ outbox'[u] # <<>>}
<1>1. /\ outbox' = [outbox EXCEPT ![t] = q]
      /\ Few(q)
      /\ Outcome(games, q) = games'
  BY DEF Call, Returns
<1>2. DOMAIN outbox = Tasks
  BY DEF TypeOK
<1>3. outbox'[t] = q /\ \A u \in Tasks \ {t} : outbox'[u] = outbox[u]
  BY <1>1, <1>2
<1>4. outbox[t] = <<>>
  BY DEF Call, Returns, MayHandle
<1>5. CASE q = <<>>
  <2>1. senders = {}
    BY <1>3, <1>5, Zenon
  <2>2. games' = games
    BY <1>1, <1>5, OutcomeNone, Zenon
  <2> QED
    BY <2>1, <2>2, Zenon DEF ExactDeltas
<1>6. CASE q # <<>>
  <2>1. \A u \in senders : u = t
    BY <1>3, Zenon
  <2>2. t \in senders
    BY <1>3, <1>4, <1>6, Zenon
  <2>3. ShownAll(games, q) = games'
    BY <1>1, ShownAllOfFew, Zenon
  <2>4. \A u \in senders : ShownAll(games, outbox'[u]) = games'
    BY <1>3, <2>1, <2>3, Zenon
  <2>5. senders # {}
    BY <2>2, Zenon
  <2> HIDE DEF senders
  <2> QED
    BY <2>4, <2>5, Zenon DEF ExactDeltas, senders
<1> QED
  BY <1>5, <1>6, Zenon

\* Every other step leaves the listings alone and fills no outbox of the broker.
LEMMA QuietExact ==
    ASSUME games' = games,
           \A u \in Tasks \ {Viewer} : outbox[u] = <<>> => outbox'[u] = <<>>
    PROVE  ExactDeltas
<1>1. {u \in Tasks \ {Viewer} : outbox[u] = <<>> /\ outbox'[u] # <<>>} = {}
  BY Zenon
<1> QED
  BY <1>1, Zenon DEF ExactDeltas

\* The frames a call returns are exactly what it did to the listings, for any
\* number of sockets and registrations and in both shells: a stale report of
\* the sweep announces no removal of a listing that is there.
THEOREM DeltasAlwaysExact == Spec => DeltasExact
<1>1. FeedInv /\ [Next]_vars => [ExactDeltas]_vars
  <2> SUFFICES ASSUME FeedInv, [Next]_vars PROVE [ExactDeltas]_vars
    OBVIOUS
  <2>1. TypeOK /\ DOMAIN outbox = Tasks /\ Viewer \in Tasks
    BY DEF FeedInv, TypeOK, Tasks
  <2>2. CASE BrokerCall
    BY <2>1, <2>2, CallExact, Zenon DEF BrokerCall
  <2>3. CASE SweepNotes
    <3>1. games' = games /\ outbox' = outbox
      BY <2>3 DEF SweepNotes, Report, Spare
    <3> QED
      BY <3>1, QuietExact, Zenon
  <2>4. CASE Subscribe \/ Unsubscribe
    <3>1. games' = games /\ \E q : outbox' = [outbox EXCEPT ![Viewer] = q]
      BY <2>4 DEF Subscribe, Unsubscribe, Returns, registry
    <3>2. \A u \in Tasks \ {Viewer} : outbox'[u] = outbox[u]
      BY <2>1, <3>1
    <3> QED
      BY <3>1, <3>2, QuietExact, Zenon
  <2>5. CASE \E t \in Tasks : Send(t)
    <3>1. PICK t \in Tasks : Send(t)
      BY <2>5
    <3>2. games' = games /\ outbox[t] # <<>> /\ outbox' = [outbox EXCEPT ![t] = Tail(@)]
      BY <3>1 DEF Send, registry
    <3>3. \A u \in Tasks \ {t} : outbox'[u] = outbox[u]
      BY <2>1, <3>2
    <3> QED
      BY <3>2, <3>3, QuietExact, Zenon
  <2> QED
    BY <2>2, <2>3, <2>4, <2>5, Steps, Zenon
<1> QED
  BY <1>1, FeedInvariant, PTL DEF Spec, DeltasExact
=============================================================================
