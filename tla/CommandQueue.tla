---------------------------- MODULE CommandQueue ----------------------------
(***************************************************************************)
(* The per-bank or per-rank command queues of a channel                    *)
(* (src/command_queue.cc).  A command queue state is a record              *)
(*   [queues: [0..NumQueues-1 -> Seq(Command)], queue_idx: Nat,           *)
(*    is_in_ref: BOOLEAN, ref_q_indices: SUBSET Nat,                       *)
(*    rank_q_empty: [Ranks -> BOOLEAN]]                                    *)
(* Its methods are operators that take the channel state they query and    *)
(* return the command found together with the new queue record.           *)
(***************************************************************************)
EXTENDS Refresh

CONSTANTS
  QueueStructure,  \* "PER_BANK" or "PER_RANK"
  CmdQueueSize     \* config_.cmd_queue_size

ASSUME /\ QueueStructure \in {"PER_BANK", "PER_RANK"}
       /\ CmdQueueSize \in Nat \ {0}

\* The row-hit cap of ArbitratePrecharge is the literal 4 in the code.
RowHitLimit == 4

NumQueues ==
  IF QueueStructure = "PER_BANK" THEN NumBanks * Cardinality(Ranks)
  ELSE Cardinality(Ranks)
QueueIds == 0..(NumQueues - 1)

InitCommandQueue ==
  [queues |-> [i \in QueueIds |-> <<>>], queue_idx |-> 0, is_in_ref |-> FALSE,
   ref_q_indices |-> {}, rank_q_empty |-> [r \in Ranks |-> TRUE]]

\* CommandQueue::GetQueueIndex
GetQueueIndex(r, g, b) ==
  IF QueueStructure = "PER_RANK" THEN r
  ELSE r * NumBanks + g * Cardinality(BanksPerGroup) + b

\* CommandQueue::WillAcceptCommand
WillAcceptCommand(cq, r, g, b) == Len(cq.queues[GetQueueIndex(r, g, b)]) < CmdQueueSize

\* CommandQueue::QueueEmpty
QueueEmpty(cq) == \A i \in QueueIds : cq.queues[i] = <<>>

\* CommandQueue::AddCommand (the caller has checked WillAcceptCommand; a
\* full queue leaves the record unchanged, the code's "return false").
AddCommand(cq, cmd) ==
  LET i == GetQueueIndex(cmd.rank, cmd.bankgroup, cmd.bank) IN
  IF Len(cq.queues[i]) < CmdQueueSize
  THEN [cq EXCEPT !.queues[i] = Append(@, cmd), !.rank_q_empty[cmd.rank] = FALSE]
  ELSE cq

ArbitratePrecharge(cs, queue, j) ==
  LET c == queue[j]
      sameBank(k) == BankOf(queue[k]) = BankOf(c)
      open_row == OpenRow(cs, c.rank, c.bankgroup, c.bank)
      pending_row_hits_exist == \E k \in j..Len(queue) : sameBank(k) /\ queue[k].row = open_row
      rowhit_limit_reached == RowHitCount(cs, c.rank, c.bankgroup, c.bank) >= RowHitLimit
  IN /\ \A k \in 1..(j - 1) : ~sameBank(k)
     /\ ~pending_row_hits_exist \/ rowhit_limit_reached

\* Fault-injection variant of HasRWDependency: the check is missing.
HasRWDependencyNone(queue, j) == FALSE

\* CommandQueue::HasRWDependency: an earlier READ to the same row, column,
\* bank and bankgroup as the WRITE of entry j (the rank is not compared).
HasRWDependency(queue, j) ==
  \E k \in 1..(j - 1) :
    /\ IsRead(queue[k])
    /\ queue[k].row = queue[j].row /\ queue[k].column = queue[j].column
    /\ queue[k].bank = queue[j].bank /\ queue[k].bankgroup = queue[j].bankgroup

\* CommandQueue::GetFirstReadyInQueue: the prerequisite of the first entry
\* that is ready and passes the precharge and write-after-read checks;
\* ready[j] is the channel's answer for entry j.
FirstReadyOf(cs, queue, ready) ==
  LET ok(j) == /\ IsValid(ready[j])
               /\ ready[j].type = "PRECHARGE" => ArbitratePrecharge(cs, queue, j)
               /\ IsWrite(ready[j]) => ~HasRWDependency(queue, j)
      j == FirstIndex(Len(queue), ok)
  IN IF j = 0 THEN InvalidCommand ELSE ready[j]
GetFirstReadyInQueue(cs, queue) ==
  FirstReadyOf(cs, queue, [j \in 1..Len(queue) |-> GetReadyCommandCS(cs, queue[j])])

\* CommandQueue::EraseRWCommand: remove the first entry with the command's
\* hex address and type; "cannot find cmd" exits the program.
EraseRWCommand(cq, cmd) ==
  LET i == GetQueueIndex(cmd.rank, cmd.bankgroup, cmd.bank)
      q == cq.queues[i]
      j == FirstIndex(Len(q), LAMBDA k : q[k].hex = cmd.hex /\ q[k].type = cmd.type)
  IN IF j = 0 THEN <<[cmd EXCEPT !.type = "FATAL"], cq>>
     ELSE <<cmd, [cq EXCEPT !.queues[i] = SubSeq(q, 1, j - 1) \o SubSeq(q, j + 1, Len(q))]>>

\* CommandQueue::GetCommandToIssue: visit the queues round-robin starting
\* after queue_idx (GetNextQueue), skipping those masked by a refresh in
\* progress; the first ready command is returned and queue_idx stays on its
\* queue; a READ/WRITE leaves its queue.  found[i] is the answer of the i-th
\* queue visited.  Result: <<command, new record>>.
Visit(cq, i) == (cq.queue_idx + i) % NumQueues
IssueFirstFound(cq, found) ==
  LET i == FirstIndex(NumQueues, LAMBDA n : IsValid(found[n]))
      cq1 == [cq EXCEPT !.queue_idx = Visit(cq, i)]
  IN IF i = 0 THEN <<InvalidCommand, cq>>
     ELSE IF IsReadWrite(found[i]) THEN EraseRWCommand(cq1, found[i])
     ELSE <<found[i], cq1>>
GetCommandToIssue(cq, cs) ==
  IssueFirstFound(cq, [i \in 1..NumQueues |->
    IF cq.is_in_ref /\ Visit(cq, i) \in cq.ref_q_indices THEN InvalidCommand
    ELSE GetFirstReadyInQueue(cs, cq.queues[Visit(cq, i)])])

\* CommandQueue::GetRefQIndices: the queues a refresh masks.
GetRefQIndices(ref) ==
  IF ref.type = "REFRESH"
  THEN IF QueueStructure = "PER_BANK"
       THEN {i \in QueueIds : i \div NumBanks = ref.rank}
       ELSE {ref.rank}
  ELSE {GetQueueIndex(ref.rank, ref.bankgroup, ref.bank)}

\* Fault-injection variant of FinishRefresh: the refresh's queues are never
\* masked.
FinishRefreshNoMask(cq, cs) ==
  LET cmd == GetReadyCommandCS(cs, PendingRefCommand(cs))
  IN <<cmd, cq>>

\* CommandQueue::FinishRefresh: mask the queues of the pending refresh on
\* first call, then ask for its next step (PRECHARGE or the refresh); the
\* mask is lifted as soon as the refresh itself is returned.
FinishRefresh(cq, cs) ==
  LET ref == PendingRefCommand(cs)
      cq1 == IF ~cq.is_in_ref
             THEN [cq EXCEPT !.ref_q_indices = @ \cup GetRefQIndices(ref), !.is_in_ref = TRUE]
             ELSE cq
      cmd == GetReadyCommandCS(cs, ref)
  IN IF IsRefresh(cmd)
     THEN <<cmd, [cq1 EXCEPT !.ref_q_indices = {}, !.is_in_ref = FALSE]>>
     ELSE <<cmd, cq1>>
=============================================================================
