---------------------------- MODULE BondNotation ----------------------------
(***************************************************************************)
(* utility.hpp: prices as decimals and in bond notation, "99-16+", that is *)
(* a whole number, its 32nds in two digits, and the 256ths left over in    *)
(* one, with a plus for four of them.                                      *)
(*                                                                         *)
(* A double holds every multiple of 1/512 exactly, the finest price of the *)
(* system (a mid in 256ths plus half a spread in 256ths), so a decimal is  *)
(* an integer here, in 512ths.                                             *)
(***************************************************************************)
EXTENDS Integers

OneTick == 2            \* 1/256

\* The character, set apart from the digits.
Plus == 8

Digits == (0 .. 7 \ {4}) \cup {Plus}

\* floor, then floor of the 32nds, then truncation of the 256ths.
dec2bond(p) ==
    LET z == (p % 16) \div OneTick
    IN [whole |-> p \div 512, xy |-> (p % 512) \div 16, z |-> IF z = 4 THEN Plus ELSE z]

\* A plus is four 256ths; the digit 4 would be read as well.
bond2dec_PlusIsHalf(n) ==                                           \* mutant
    512 * n.whole + 16 * n.xy + (IF n.z = Plus THEN 4 ELSE OneTick * n.z)
bond2dec(n) ==
    512 * n.whole + 16 * n.xy + (IF n.z = Plus THEN 8 ELSE OneTick * n.z)
=============================================================================
