-------------------------- MODULE DRAMSystemStats --------------------------
(***************************************************************************)
(* The bank-parallelism statistics of BaseDRAMSystem (the MZOU counters of *)
(* src/dram_system.cc) on top of JedecDRAMSystem: after every controller   *)
(* has ticked, JedecDRAMSystem::ClockTick adds the controllers' activity   *)
(* (Controller::Calculate_stats) to active_cycles and concurrent_serve,    *)
(* and clk_ moves on.  The counters are auxiliary variables: nothing of    *)
(* the system reads them, so the system's own actions are kept and only    *)
(* the tick is extended.  clk_ is bounded by MaxCycles.                    *)
(***************************************************************************)
EXTENDS JedecDRAMSystem
LOCAL INSTANCE FiniteSetsExt

CONSTANT MaxCycles  \* bound: cycles simulated

ASSUME TrackServe /\ MaxCycles \in Nat

VARIABLES
  clk,               \* clk_
  active_cycles,     \* active_cycles
  concurrent_serve,  \* concurrent_serve
  busy_cycles        \* ghost: cycles in which some controller was active

stats == <<clk, active_cycles, concurrent_serve, busy_cycles>>
allvars == <<vars, stats>>

\* BaseDRAMSystem::BaseDRAMSystem: every counter 0.
StatsInit ==
  /\ Init
  /\ clk = 0 /\ active_cycles = 0 /\ concurrent_serve = 0 /\ busy_cycles = 0

\* The controllers that are active in the cycle that ends with C.
ActiveCtrls(C) == {c \in Channels : C[c].is_active}

\* JedecDRAMSystem::ClockTick, second loop and clk_++: for every active
\* controller, "changed" -- declared inside the loop, so false again for
\* each controller -- lets active_cycles grow by one, and its
\* concurrent_serve is added.
StatsTick ==
  /\ clk < MaxCycles
  /\ Tick
  /\ clk' = clk + 1
  /\ active_cycles' = active_cycles + Cardinality(ActiveCtrls(ctrls'))
  /\ concurrent_serve' =
       concurrent_serve + MapThenSumSet(LAMBDA c : ctrls'[c].concurrent_serve, ActiveCtrls(ctrls'))
  /\ busy_cycles' = busy_cycles + (IF ActiveCtrls(ctrls') # {} THEN 1 ELSE 0)

StatsNext ==
  \/ \E a \in Addr, w \in BOOLEAN : AddTransaction(a, w) /\ UNCHANGED stats
  \/ StatsTick

StatsSpec == StatsInit /\ [][StatsNext]_allvars

----------------------------------------------------------------------------
(* Properties                                                              *)

\* active_cycles counts the cycles in which some controller is active, once
\* per cycle however many controllers are: the comment of ClockTick says
\* "if one is active, this cycle is an active cycle (but active cycles only
\* adds one)", and concurrent_serve / active_cycles is printed as the
\* bank-level parallelism.
ActiveCyclesCounted == active_cycles = busy_cycles

=============================================================================
