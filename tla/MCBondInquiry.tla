---------------------------- MODULE MCBondInquiry ----------------------------
(***************************************************************************)
(* BondInquiry with two inquiries as the provider sends them, one that     *)
(* arrives in each other state that a row may name, and one in a state     *)
(* that no one knows.                                                      *)
(***************************************************************************)
EXTENDS BondInquiry

CONSTANTS BuyT2Y, SellT30Y

Row(id, state, terms) == [id |-> id, state |-> state, terms |-> terms]

MCInquiries == {Row(1, "RECEIVED", BuyT2Y), Row(2, "RECEIVED", SellT30Y),
                Row(3, "QUOTED", BuyT2Y), Row(4, "DONE", SellT30Y),
                Row(5, "REJECTED", BuyT2Y), Row(6, "", SellT30Y)}
=============================================================================
