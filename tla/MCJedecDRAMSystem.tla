------------------------- MODULE MCJedecDRAMSystem -------------------------
(***************************************************************************)
(* Model-checking instance of JedecDRAMSystem: two channels chosen by bit  *)
(* 2 of the address (shift_bits 1, ch_pos 1, ch_mask 1), each with one     *)
(* rank of one bank.  Addresses 0 and 8 are rows 0 and 1 of channel 0 (a   *)
(* row conflict), address 4 is row 0 of channel 1.                         *)
(***************************************************************************)
EXTENDS JedecDRAMSystem, MCCommon, TLC

MCAddressMapping == [a \in Addr |-> Loc(0, a \div 8)]
=============================================================================
