--------------------------- MODULE MCBondBooking ---------------------------
(***************************************************************************)
(* BondBooking on small instances.  The quantities of a bond are distinct  *)
(* powers of two, so a cell tells which trades it counts.                  *)
(***************************************************************************)
EXTENDS BondBooking

Universe == INSTANCE BondUniverse

Row(i, bond, book, side, quantity) ==
    [id |-> i, bond |-> bond, book |-> book, side |-> side, quantity |-> quantity]
Order(i, bond, side, quantity) ==
    [id |-> i, bond |-> bond, side |-> side, quantity |-> quantity]

\* The two threads race on one sector and two books.
RacyBonds    == {"yr2", "yr3"}
RacyBooks    == <<"TRSY1", "TRSY2">>
RacySectors  == {"frontend"}
RacySectorOf == [bond \in RacyBonds |-> Universe!bucket_of[bond]]
RacyProducts == [sector \in RacySectors |-> Universe!buckets[sector]]
RacyPV01     == [bond \in RacyBonds |-> Universe!pv01s[bond]]

\* A row and an order on one bond and two books, an order on its sector's other bond.
RacyRows   == {Row(1, "yr2", "TRSY2", "BUY", 1)}
RacyOrders == {Order(2, "yr2", "OFFER", 2), Order(3, "yr3", "BID", 4)}

\* One row and one order on the same bond.
PairRows   == {Row(1, "yr2", "TRSY1", "BUY", 1)}
PairOrders == {Order(3, "yr2", "BID", 4)}

\* The universe as it is: its books, bonds and sectors.
SerialBonds    == Universe!ProductIds
SerialBooks    == Universe!the_books
SerialSectors  == Universe!BucketNames
SerialSectorOf == Universe!bucket_of
SerialProducts == Universe!buckets
SerialPV01     == Universe!pv01s

\* Both feeds on two of its sectors, with a bond bought and sold flat in one, and
\* positions that cancel out between the bonds of the other.
SerialRows   == {Row(1, "yr2", "TRSY1", "BUY", 1), Row(2, "yr3", "TRSY2", "SELL", 2),
                 Row(3, "yr7", "TRSY3", "BUY", 4), Row(4, "yr2", "TRSY2", "SELL", 8)}
SerialOrders == {Order(5, "yr2", "OFFER", 1), Order(6, "yr3", "BID", 16),
                 Order(7, "yr10", "OFFER", 4)}
=============================================================================
