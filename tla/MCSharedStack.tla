--------------------------- MODULE MCSharedStack ---------------------------
(***************************************************************************)
(* Small instances of SharedStack.  No guard looks at a card, so one order *)
(* of each deck stands for every shuffle; the deck sizes start below the   *)
(* number of piles, so that StartDraft is refused too.                     *)
(***************************************************************************)
EXTENDS SharedStack

CONSTANT MaxCards

MCStacks == {[i \in 1 .. n |-> i] : n \in 1 .. MaxCards}
============================================================================
