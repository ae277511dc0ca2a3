------------------------------ MODULE MCCommon ------------------------------
(***************************************************************************)
(* Definitions shared by the model-checking instances: a bank location and *)
(* small DDR-shaped timings.                                               *)
(***************************************************************************)
EXTENDS ChannelState

Loc(b, row) == [rank |-> 0, bankgroup |-> 0, bank |-> b, row |-> row, column |-> 0]

MCTiming ==
  [t \in TimingNames |->
     CASE t = "tRC" -> 4
       [] t \in {"tRAS", "tRFC"} -> 3
       [] t = "tWTR_L" -> 3
       [] t \in {"tCCD_L", "tWR", "tRTW", "tRCD", "tRFCb", "tXS"} -> 2
       [] t = "tFAW" -> 4
       [] OTHER -> 1]

\* A rank that entered self-refresh must stay in it for tCKESR = 3 cycles.
MCTimingSlowWake == [MCTiming EXCEPT !["tCKESR"] = 3]
=============================================================================
