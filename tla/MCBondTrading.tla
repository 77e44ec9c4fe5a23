---------------------------- MODULE MCBondTrading ----------------------------
(***************************************************************************)
(* BondTrading on a small instance: a book of two ticks, across a whole   *)
(* number, on one bond; one of three ticks on the same bond, and a locked  *)
(* one on another.  Each has a second level, one tick worse than the first *)
(* on either side, as the feed's have.  The trades feed has a row on the   *)
(* first bond.  Quantities are distinct powers of two, so a position tells *)
(* which trades it counts.                                                 *)
(***************************************************************************)
EXTENDS BondTrading

Universe == INSTANCE BondUniverse

Notation(whole, xy, z) == [whole |-> whole, xy |-> xy, z |-> z]

Level(bid, offer, quantity) == [bid |-> bid, offer |-> offer, quantity |-> quantity]

Row(bond, top, second) == [bond |-> bond, levels |-> <<top, second>>]

MCMarketRows ==
    {Row("yr2", Level(Notation(99, 31, 7), Notation(100, 0, 1), 2),
                Level(Notation(99, 31, 6), Notation(100, 0, 2), 1)),
     Row("yr2", Level(Notation(99, 31, 6), Notation(100, 0, 1), 2),
                Level(Notation(99, 31, 5), Notation(100, 0, 2), 1)),
     Row("yr3", Level(Notation(99, 16, Plus), Notation(99, 16, Plus), 4),
                Level(Notation(99, 16, 3), Notation(99, 16, 5), 1))}

MCBooks == Universe!the_books

\* Of the universe, the sector of the bonds that the rows are about.
MCSectors  == {"frontend"}
MCSectorOf == [bond \in Bonds |-> Universe!bucket_of[bond]]
MCProducts == [sector \in MCSectors |-> Universe!buckets[sector]]
MCPV01     == [bond \in Bonds |-> Universe!pv01s[bond]]

MCTradeRows == {[id |-> [row |-> 1], bond |-> "yr2", book |-> "TRSY1", side |-> "BUY", quantity |-> 1]}
=============================================================================
