----------------------------- MODULE BondUniverse -----------------------------
(***************************************************************************)
(* tradinguniverse.hpp: the trading books, the bonds with their PV01, and  *)
(* the sectors of the curve.  A bond goes by its name in the file instead  *)
(* of its CUSIP; tickers, coupons and maturities are left out, as nothing  *)
(* but constructors uses them.  The tables must agree on which bond is in  *)
(* which sector: BondBooking!RiskFileCurrent depends on it.                *)
(*                                                                         *)
(* The tables are named apart from the constants of BondBooking and        *)
(* BondExecution that get their values from them.                          *)
(***************************************************************************)
EXTENDS Integers, Sequences, Functions

the_books == <<"TRSY1", "TRSY2", "TRSY3">>

products == <<"yr2", "yr3", "yr5", "yr7", "yr10", "yr20", "yr30">>

ProductIds == Range(products)

\* In millionths.
pv01s ==
    [yr2 |-> 19851, yr3 |-> 29309, yr5 |-> 48643, yr7 |-> 65843,
     yr10 |-> 87939, yr20 |-> 140980, yr30 |-> 184698]

\* BucketedSector: its name and its bonds.
buckets ==
    [frontend |-> <<"yr2", "yr3">>,
     belly    |-> <<"yr5", "yr7", "yr10">>,
     backend  |-> <<"yr20", "yr30">>]

BucketNames == DOMAIN buckets

bucket_of ==
    [yr2 |-> "frontend", yr3 |-> "frontend",
     yr5 |-> "belly", yr7 |-> "belly", yr10 |-> "belly",
     yr20 |-> "backend", yr30 |-> "backend"]
=============================================================================
