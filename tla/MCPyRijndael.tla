---------------------------- MODULE MCPyRijndael ----------------------------
(***************************************************************************)
(* PyRijndael for TLC: the nine combinations of sizes of test_encdec, and  *)
(* one more of each that is refused.                                       *)
(***************************************************************************)
EXTENDS PyRijndael

Char(n) == {i \in 0..7 : (n \div 2^i) % 2 = 1}

MCKeys == {[i \in 0..(n - 1) |-> Char((7 * i + n) % 256)] : n \in {16, 20, 24, 32}}

MCBlocklens == {16, 20, 24, 32}

MCBlocks == {[i \in 0..(n - 1) |-> Char(98)] : n \in {16, 24, 32}}
=============================================================================
