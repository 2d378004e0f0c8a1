------------------------------ MODULE LobbyFeed ------------------------------
(***************************************************************************)
(* How a lobby subscriber learns of the listings.  A broker call returns   *)
(* the frames its shell must send, in order.  The Durable Object sends     *)
(* them before it handles anything else.  phase-server computes them under *)
(* the lobby lock, releases it, and sends them one by one, each under the  *)
(* lock of the subscriber set: frames of different tasks interleave.       *)
(* One subscriber, which finds a slot in the subscriber set; public        *)
(* listings; what a listing says is its registration and a revision.       *)
(***************************************************************************)
EXTENDS Integers, Sequences

CONSTANTS Conns,      \* sockets of hosts and guests
          Codes,
          Sweep,      \* the task that reaps silent hosts
          Viewer,     \* the subscriber's socket
          None,       \* no listing, no stamp
          Shells,     \* the shells to consider: values of durable
          MaxStamp,   \* bound on registrations and updates
          MaxSubscribes

ASSUME ShellAssumption == Shells # {} /\ Shells \subseteq BOOLEAN
ASSUME TasksAssumption == Viewer \notin Conns /\ Sweep \notin Conns /\ Sweep # Viewer
ASSUME BoundsAssumption == MaxStamp \in Nat /\ MaxSubscribes \in Nat

VARIABLES durable,     \* the shell is the Durable Object
          games,       \* per code: the listing, its generation and revision
          host,        \* per socket: conn.host_game
          observed,    \* the sweep's report of expired registrations
          outbox,      \* per task: outbounds still to be applied
          subscribed,  \* the viewer is in the subscriber set
          listening,   \* the viewer's client has a subscription
          view,        \* what the viewer's client shows
          stamp,       \* fresh generations and revisions
          subscribes

vars == <<durable, games, host, observed, outbox, subscribed, listening, view, stamp,
          subscribes>>
registry == <<games, host, observed, stamp>>
client == <<subscribed, listening, view, subscribes>>

Tasks == Conns \cup {Sweep, Viewer}

IsCurrent(r) == r # None /\ games[r.code] # None /\ games[r.code].gen = r.gen

Registered(k) == [code |-> k, gen |-> games[k].gen]

Upsert(k, g)  == [kind |-> "Upsert", code |-> k, game |-> g]
Removed(k)    == [kind |-> "Removed", code |-> k]
Snapshot      == [kind |-> "Snapshot", games |-> games]
AddSubscriber == [kind |-> "AddSubscriber"]
RemoveSubscriber == [kind |-> "RemoveSubscriber"]

Quiet == \A t \in Tasks : outbox[t] = <<>>

\* Mutant: the Durable Object handles a frame before all were sent.
MayHandle_Any(t) == outbox[t] = <<>>

\* A task handles one frame at a time; the Durable Object has one task.
MayHandle(t) == outbox[t] = <<>> /\ (durable => Quiet)

Returns(t, frames) == MayHandle(t) /\ outbox' = [outbox EXCEPT ![t] = frames]

-----------------------------------------------------------------------------
(* Broker calls, each with the frames it returns.                          *)

\* unregister_registration of the socket's stamp
Rest(c) == IF IsCurrent(host[c]) THEN [games EXCEPT ![host[c].code] = None] ELSE games

\* The frame for the listing that unregister_registration removed.
Delisted(c) == IF IsCurrent(host[c]) THEN <<Removed(host[c].code)>> ELSE <<>>

\* A requested code must be free, a generated one may happen to be taken.
CreateGame(c, k, requested) ==
    LET rest == Rest(c)
        new == [gen |-> stamp, rev |-> stamp]
    IN  /\ stamp < MaxStamp
        /\ IF requested /\ rest[k] # None
           THEN /\ Returns(c, Delisted(c))
                /\ games' = rest
                /\ host' = [host EXCEPT ![c] = None]
                /\ UNCHANGED stamp
           ELSE /\ Returns(c, Append(Delisted(c), Upsert(k, new)))
                /\ games' = [rest EXCEPT ![k] = new]
                /\ host' = [host EXCEPT ![c] = [code |-> k, gen |-> stamp]]
                /\ stamp' = stamp + 1
        /\ UNCHANGED <<durable, observed, client>>

\* A reservation, its release or a host's metadata: the listing says something new.
UpdateGame(c, k) ==
    /\ stamp < MaxStamp
    /\ games[k] # None
    /\ games' = [games EXCEPT ![k].rev = stamp]
    /\ stamp' = stamp + 1
    /\ Returns(c, <<Upsert(k, games'[k])>>)
    /\ UNCHANGED <<durable, host, observed, client>>

\* handle_unregister
Withdraw(c) ==
    /\ host[c] # None
    /\ host' = [host EXCEPT ![c] = None]
    /\ games' = Rest(c)
    /\ Returns(c, Delisted(c))
    /\ UNCHANGED <<durable, observed, stamp, client>>

\* on_disconnect of a socket that held a seat of k: the listing that regained
\* the seat, then the removal of the socket's own.
Disconnect(c, k) ==
    /\ stamp < MaxStamp
    /\ Rest(c)[k] # None
    /\ host' = [host EXCEPT ![c] = None]
    /\ games' = [Rest(c) EXCEPT ![k].rev = stamp]
    /\ stamp' = stamp + 1
    /\ Returns(c, <<Upsert(k, games'[k])>> \o Delisted(c))
    /\ UNCHANGED <<durable, observed, client>>

\* check_expired in phase-server: which hosts were silent is up to them.
Report(k) ==
    /\ ~durable
    /\ observed = None
    /\ games[k] # None
    /\ MayHandle(Sweep)
    /\ observed' = Registered(k)
    /\ UNCHANGED <<durable, games, host, outbox, stamp, client>>

\* Mutant: a superseded observation is announced like a removal.
Announces_Always(r) == TRUE

\* ExpiryConsumption: all but a superseded observation are announced.
Announces(r) == IsCurrent(r) \/ games[r.code] = None

Reaped(r) == /\ games' = IF IsCurrent(r) THEN [games EXCEPT ![r.code] = None] ELSE games
             /\ Returns(Sweep, IF Announces(r) THEN <<Removed(r.code)>> ELSE <<>>)
             /\ observed' = None

\* reap_expired_handled, under the next lock
Consume ==
    /\ observed # None
    /\ Reaped(observed)
    /\ UNCHANGED <<durable, host, stamp, client>>

\* What handle_expired_lobby_games defers, or keeps for its waiting host, is not
\* consumed: nothing is removed and nothing said.
Spare ==
    /\ observed # None
    /\ observed' = None
    /\ UNCHANGED <<durable, games, host, outbox, stamp, client>>

\* reap_expired: the Durable Object's alarm reports and consumes in one call.
Reap(k) ==
    /\ durable
    /\ games[k] # None
    /\ Reaped(Registered(k))
    /\ UNCHANGED <<durable, host, stamp, client>>

\* The viewer's client starts listening and sends SubscribeLobby.
Subscribe ==
    /\ ~listening
    /\ subscribes < MaxSubscribes
    /\ Returns(Viewer, <<AddSubscriber, Snapshot>>)
    /\ listening' = TRUE
    /\ view' = [k \in Codes |-> None]
    /\ subscribes' = subscribes + 1
    /\ UNCHANGED <<durable, registry, subscribed>>

Unsubscribe ==
    /\ listening
    /\ Returns(Viewer, <<RemoveSubscriber>>)
    /\ listening' = FALSE
    /\ view' = [k \in Codes |-> None]
    /\ UNCHANGED <<durable, registry, subscribed, subscribes>>

-----------------------------------------------------------------------------
\* subscribeLobbyOver: what the client shows after a frame.
Shown(v, f) ==
    CASE f.kind = "Snapshot" -> f.games
      [] f.kind = "Upsert" -> [v EXCEPT ![f.code] = f.game]
      [] f.kind = "Removed" -> [v EXCEPT ![f.code] = None]

\* apply_outbounds, one outbound.  Frames to one socket keep their order, so
\* that the client may as well read them at once.
Send(t) ==
    /\ outbox[t] # <<>>
    /\ LET f == Head(outbox[t])
           toViewer == f.kind = "Snapshot" \/ (f.kind \in {"Upsert", "Removed"} /\ subscribed)
       IN  /\ subscribed' = IF f.kind = "AddSubscriber" THEN TRUE
                            ELSE IF f.kind = "RemoveSubscriber" THEN FALSE ELSE subscribed
           /\ view' = IF toViewer /\ listening THEN Shown(view, f) ELSE view
    /\ outbox' = [outbox EXCEPT ![t] = Tail(@)]
    /\ UNCHANGED <<durable, registry, listening, subscribes>>

Init == /\ durable \in Shells
        /\ games = [k \in Codes |-> None]
        /\ host = [c \in Conns |-> None]
        /\ observed = None
        /\ outbox = [t \in Tasks |-> <<>>]
        /\ subscribed = FALSE
        /\ listening = FALSE
        /\ view = [k \in Codes |-> None]
        /\ stamp = 0
        /\ subscribes = 0

Next == \/ \E c \in Conns, k \in Codes, requested \in BOOLEAN : CreateGame(c, k, requested)
        \/ \E c \in Conns, k \in Codes : UpdateGame(c, k)
        \/ \E c \in Conns : Withdraw(c)
        \/ \E c \in Conns, k \in Codes : Disconnect(c, k)
        \/ \E k \in Codes : Report(k)
        \/ Consume
        \/ Spare
        \/ \E k \in Codes : Reap(k)
        \/ Subscribe
        \/ Unsubscribe
        \/ \E t \in Tasks : Send(t)

Spec == Init /\ [][Next]_vars

-----------------------------------------------------------------------------
(* Properties.                                                             *)

Listings == {None} \cup [gen : 0 .. MaxStamp, rev : 0 .. MaxStamp]

Registrations == {None} \cup [code : Codes, gen : 0 .. MaxStamp]

TypeOK ==
    /\ durable \in Shells
    /\ games \in [Codes -> Listings]
    /\ host \in [Conns -> Registrations]
    /\ observed \in Registrations
    /\ DOMAIN outbox = Tasks
    /\ subscribed \in BOOLEAN
    /\ listening \in BOOLEAN
    /\ view \in [Codes -> Listings]
    /\ stamp \in 0 .. MaxStamp
    /\ subscribes \in 0 .. MaxSubscribes

\* What the client would show after all of the frames.
ShownAll(v, frames) ==
    LET View[i \in 0 .. Len(frames)] ==
          IF i = 0 THEN v ELSE Shown(View[i - 1], frames[i])
    IN  View[Len(frames)]

ExactDeltas ==
    LET senders == {t \in Tasks \ {Viewer} : outbox[t] = <<>> /\ outbox'[t] # <<>>}
    IN  IF senders = {} THEN games' = games
        ELSE \A t \in senders : ShownAll(games, outbox'[t]) = games'

\* The frames a call returns say exactly what it did to the listings: applied
\* to the listings before the call they give the listings after it, in spite
\* of what happened between a report of the sweep and its consumption
\* (lobby.rs:571).
DeltasExact == [][ExactDeltas]_vars

\* A subscriber of the Durable Object, once every frame has been sent, shows
\* exactly the listings there are: the snapshot and the deltas leave no gap
\* and contradict each other nowhere, whenever it subscribes
\* (brokerClient.ts:656).
FeedExact == TypeOK /\ (durable /\ Quiet /\ listening => view = games)
=============================================================================
