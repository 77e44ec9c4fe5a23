---------------------------- MODULE MCBondPricing ----------------------------
(***************************************************************************)
(* BondPricing with two bonds, two lines on a page of the GUI, and prices  *)
(* as the feed writes them: 99-16+ with a spread of 0-002, and 100-317     *)
(* with a spread of 0-00+.                                                 *)
(***************************************************************************)
EXTENDS BondPricing

CONSTANTS T2Y, T3Y

Notation(whole, xy, z) == [whole |-> whole, xy |-> xy, z |-> z]

MCQuotes == {[bond |-> T2Y, mid |-> Notation(99, 16, Plus), spread |-> Notation(0, 0, 2)],
             [bond |-> T3Y, mid |-> Notation(100, 31, 7), spread |-> Notation(0, 0, Plus)]}
=============================================================================
