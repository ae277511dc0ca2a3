--------------------------- MODULE IdealDRAMSystem ---------------------------
(***************************************************************************)
(* The ideal memory of src/dram_system.cc (IdealDRAMSystem): every         *)
(* transaction waits in an unbounded buffer and is handed back once         *)
(* ideal_memory_latency cycles have passed since it was added.             *)
(*                                                                         *)
(* A buffered transaction is [id, age], age = clk_ - added_cycle, capped    *)
(* one past Latency (any larger age behaves the same in the code).  The     *)
(* address and the read/write flag only choose which callback runs and are  *)
(* left out.                                                                *)
(***************************************************************************)
EXTENDS Naturals, Sequences
LOCAL INSTANCE SequencesExt

CONSTANTS
  Latency,   \* config_.ideal_memory_latency
  MaxTrans   \* bound: transactions the host adds in a behaviour

ASSUME Latency \in Nat /\ MaxTrans \in Nat

Ids == 1..MaxTrans
AgeCap == Latency + 1

VARIABLES
  infinite_buffer_q,  \* the buffer, in admission order
  next_id,            \* ghost: id of the next transaction
  callbacks           \* ghost: callbacks run, per id

vars == <<infinite_buffer_q, next_id, callbacks>>

Init ==
  /\ infinite_buffer_q = <<>>
  /\ next_id = 1
  /\ callbacks = [i \in Ids |-> 0]

\* Fault-injection variant of Due: "==" for ">=".
DueExact(t) == t.age = Latency

\* The condition of ClockTick: clk_ - added_cycle >= latency_.
Due(t) == t.age >= Latency

\* The loop of IdealDRAMSystem::ClockTick from iterator position i of q:
\* a due entry is erased (the iterator then points at its successor) and
\* the iterator is advanced once more unless it is at the end, so the
\* successor of an erased entry is not examined.  Result: the remaining
\* buffer and the ids whose callbacks ran, in callback order.
RECURSIVE ClockTickScan(_, _)
ClockTickScan(q, i) ==
  IF i > Len(q) THEN <<q, <<>>>>
  ELSE IF Due(q[i])
  THEN LET rest == ClockTickScan(RemoveAt(q, i), i + 1)
       IN <<rest[1], <<q[i].id>> \o rest[2]>>
  ELSE ClockTickScan(q, i + 1)

\* IdealDRAMSystem::AddTransaction: always accepted, stamped with clk_.
AddTransaction ==
  /\ next_id <= MaxTrans
  /\ infinite_buffer_q' = Append(infinite_buffer_q, [id |-> next_id, age |-> 0])
  /\ next_id' = next_id + 1
  /\ UNCHANGED callbacks

\* IdealDRAMSystem::ClockTick: the scan, then clk_++ (every entry ages).
ClockTick ==
  LET res == ClockTickScan(infinite_buffer_q, 1)
      done == res[2]
  IN /\ callbacks' = [i \in Ids |-> IF \E k \in 1..Len(done) : done[k] = i
                                    THEN callbacks[i] + 1 ELSE callbacks[i]]
     /\ infinite_buffer_q' = [k \in 1..Len(res[1]) |->
           [res[1][k] EXCEPT !.age = IF @ < AgeCap THEN @ + 1 ELSE AgeCap]]
     /\ UNCHANGED next_id

Next == AddTransaction \/ ClockTick

\* The system is ticked every cycle.  Once the host is done and the buffer
\* is empty, ClockTick changes nothing; weak fairness of a step that changes
\* vars is what the main loop provides.
Spec == Init /\ [][Next]_vars /\ WF_vars(ClockTick)

----------------------------------------------------------------------------
(* Properties                                                              *)

\* spec.md: every transaction completes exactly ideal_memory_latency cycles
\* after admission -- no entry of the buffer is ever older than the latency
\* (an older entry was due at an earlier ClockTick and was not handed back).
CompletesExactlyOnTime == \A k \in 1..Len(infinite_buffer_q) : infinite_buffer_q[k].age <= Latency

\* Every transaction added is eventually handed to its callback, once.
AllTransactionsComplete ==
  \A i \in Ids : [](next_id > i => <>(callbacks[i] = 1))
=============================================================================
