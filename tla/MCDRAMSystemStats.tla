------------------------- MODULE MCDRAMSystemStats -------------------------
(***************************************************************************)
(* Model-checking instance of DRAMSystemStats: the two channels of         *)
(* MCJedecDRAMSystem, address 0 on channel 0 and address 4 on channel 1.   *)
(***************************************************************************)
EXTENDS DRAMSystemStats, MCCommon, TLC

MCAddressMapping == [a \in Addr |-> Loc(0, a \div 8)]
=============================================================================
