------------------------------ MODULE MCBondGUI ------------------------------
(***************************************************************************)
(* BondGUI with two bonds, three lines a page and a throttle of three.     *)
(***************************************************************************)
EXTENDS BondGUI

CONSTANTS T2Y, T3Y

MCPrices == {[bond |-> T2Y, mid |-> 50950, spread |-> 4],
             [bond |-> T3Y, mid |-> 50952, spread |-> 8]}
=============================================================================
