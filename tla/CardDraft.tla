----------------------------- MODULE CardDraft -----------------------------
(***************************************************************************)
(* What either way of drafting in draft-core promises, whatever the table  *)
(* looks like: the cards of the opened boosters lie on the table until a   *)
(* seat gains them, one seat gains cards at a time, and the draft is over  *)
(* exactly when nothing is left on the table.  Moving cards about on the   *)
(* table (refilling a pile, passing a booster, opening the next one) is a  *)
(* stuttering step.  SharedStack and PickPass are shown to implement this. *)
(***************************************************************************)
EXTENDS Integers, FiniteSets

CONSTANTS
    Seats,   \* the seats of the pod
    Deals    \* the sets of cards the pack source may deliver

VARIABLES
    phase,   \* "Lobby", "Drafting" or "Done"
    table,   \* the cards nobody has drafted yet
    pools    \* per seat, the cards it has drafted

vars == <<phase, table, pools>>

Init ==
    /\ phase = "Lobby"
    /\ table = {}
    /\ pools = [s \in Seats |-> {}]

Start(deal) ==
    /\ phase = "Lobby"
    /\ phase' = "Drafting"
    /\ table' = deal
    /\ UNCHANGED pools

\* Seat s drafts the cards `gained` and puts `returned` back: nothing, or the
\* one card of its pool whose draft effect it used.
Gain(s, gained, returned) ==
    /\ phase = "Drafting"
    /\ gained # {} /\ gained \subseteq table
    /\ returned \subseteq pools[s] /\ \A c, d \in returned : c = d
    /\ pools' = [pools EXCEPT ![s] = (@ \ returned) \cup gained]
    /\ table' = (table \ gained) \cup returned
    /\ phase' = IF table' = {} THEN "Done" ELSE "Drafting"

Next ==
    \/ \E deal \in Deals : Start(deal)
    \/ \E s \in Seats : \E gained \in SUBSET table, returned \in SUBSET pools[s] :
         Gain(s, gained, returned)

Spec == Init /\ [][Next]_vars

---------------------------------------------------------------------------
(* What follows from the promise.                                          *)

\* Every card of the boosters is on the table or in exactly one pool, and a
\* draft is done only when every card has been drafted.
Conserved ==
    /\ phase # "Lobby" => table \cup UNION {pools[s] : s \in Seats} \in Deals
    /\ \A s \in Seats : pools[s] \cap table = {}
    /\ \A s, t \in Seats : s # t => pools[s] \cap pools[t] = {}
    /\ phase = "Done" => table = {}
============================================================================
