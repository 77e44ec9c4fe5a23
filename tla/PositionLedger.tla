--------------------------- MODULE PositionLedger ---------------------------
(***************************************************************************)
(* What the booking and position services promise together: "class that    *)
(* gets trades and transforms it into positions".  Every trade handed over *)
(* is counted exactly once, in the cell of its own bond and its own book,  *)
(* in one indivisible step, and no other cell moves.                       *)
(***************************************************************************)
EXTENDS Integers

CONSTANTS Bonds,    \* the products positions are kept for
          Books,    \* the trading books
          Trades    \* every trade that may be handed over

VARIABLES ledger,   \* ledger[bond][book]: the signed position
          counted   \* the trades the ledger accounts for

vars == <<ledger, counted>>

\* BUY adds to a position, SELL takes away from it.
Signed(trade) == IF trade.side = "BUY" THEN trade.quantity ELSE -trade.quantity

Init == /\ ledger = [bond \in Bonds |-> [book \in Books |-> 0]]
        /\ counted = {}

Count(trade) ==
    /\ trade \notin counted
    /\ counted' = counted \cup {trade}
    /\ ledger' = [ledger EXCEPT ![trade.bond][trade.book] = @ + Signed(trade)]

Next == \E trade \in Trades : Count(trade)

Spec == Init /\ [][Next]_vars
=============================================================================
