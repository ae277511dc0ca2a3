----------------------------- MODULE Controller -----------------------------
(***************************************************************************)
(* The memory controller of one channel (src/controller.cc) with the       *)
(* system that drives it (JedecDRAMSystem of src/dram_system.cc, for a     *)
(* one-channel system): the record of ControllerOps, one field per         *)
(* variable.                                                               *)
(*                                                                         *)
(* A step is either the host adding one transaction (AddTransaction) or a  *)
(* whole system cycle (Tick): the completed transactions are handed to the *)
(* callbacks, then Controller::ClockTick runs to the end -- refresh tick,  *)
(* refresh step or queued command, optional second HBM command, idle       *)
(* accounting and self-refresh, ScheduleTransaction and the passing of the *)
(* cycle.  Ghosts: next_id, the id of the next transaction, and callbacks, *)
(* the callbacks run per id.                                               *)
(***************************************************************************)
EXTENDS ControllerOps

VARIABLES
  channel_state, cmd_queue, refresh,               \* owned sub-components
  unified_queue, read_queue, write_buffer,         \* transaction queues
  pending_rd_q, pending_wr_q, return_queue,        \* pending / completed
  write_draining,
  aborted,                                         \* AbruptExit / exit(1)
  next_id, latest, mem, callbacks                  \* ghost

vars == <<channel_state, cmd_queue, refresh, unified_queue, read_queue,
          write_buffer, pending_rd_q, pending_wr_q, return_queue,
          write_draining, aborted, next_id, latest, mem, callbacks>>

\* The bank-parallelism statistics are projected out (ControllerOps).
ASSUME ~TrackServe

\* The controller's state as one record.
Ctrl == [cs |-> channel_state, cq |-> cmd_queue, rf |-> refresh,
         unified_queue |-> unified_queue, read_queue |-> read_queue,
         write_buffer |-> write_buffer, pending_rd_q |-> pending_rd_q,
         pending_wr_q |-> pending_wr_q, return_queue |-> return_queue,
         write_draining |-> write_draining, latest |-> latest, mem |-> mem,
         fatal |-> FALSE, serve |-> InitCtrl.serve, is_active |-> FALSE,
         concurrent_serve |-> 0]

\* The record S becomes the controller's next state.
Become(S) ==
  /\ channel_state' = S.cs /\ cmd_queue' = S.cq /\ refresh' = S.rf
  /\ unified_queue' = S.unified_queue /\ read_queue' = S.read_queue
  /\ write_buffer' = S.write_buffer
  /\ pending_rd_q' = S.pending_rd_q /\ pending_wr_q' = S.pending_wr_q
  /\ return_queue' = S.return_queue /\ write_draining' = S.write_draining
  /\ latest' = S.latest /\ mem' = S.mem

Init ==
  /\ channel_state = InitCtrl.cs
  /\ cmd_queue = InitCtrl.cq
  /\ refresh = InitCtrl.rf
  /\ unified_queue = <<>> /\ read_queue = <<>> /\ write_buffer = <<>>
  /\ pending_rd_q = <<>> /\ pending_wr_q = <<>> /\ return_queue = <<>>
  /\ write_draining = 0
  /\ aborted = FALSE
  /\ next_id = 1
  /\ latest = InitCtrl.latest /\ mem = InitCtrl.mem
  /\ callbacks = [i \in Ids |-> 0]

----------------------------------------------------------------------------
(* Actions                                                                 *)

\* JedecDRAMSystem::AddTransaction -> Controller::AddTransaction, by a host
\* that honours WillAcceptTransaction.
AddTransaction(a, is_write) ==
  /\ ~aborted
  /\ next_id <= MaxTrans
  /\ WillAcceptTransaction(Ctrl, is_write)
  /\ Become(AddTransactionTo(Ctrl, NewTransaction(Ctrl, next_id, a, is_write)))
  /\ next_id' = next_id + 1
  /\ UNCHANGED <<aborted, callbacks>>

\* JedecDRAMSystem::ClockTick for one channel: the callbacks of every done
\* transaction, then Controller::ClockTick.
Tick ==
  /\ ~aborted
  /\ \E S \in {ClockTick([Ctrl EXCEPT !.return_queue = NotDoneTrans(@)])} :
       LET done == DoneTrans(return_queue)
           ncb(i) == Cardinality({k \in 1..Len(done) : done[k].id = i})
       IN /\ callbacks' = [i \in Ids |->
                             IF callbacks[i] + ncb(i) > 2 THEN 2 ELSE callbacks[i] + ncb(i)]
          /\ Become(S)
          /\ aborted' = S.fatal
  /\ UNCHANGED next_id

Next ==
  \/ \E a \in Addr, w \in BOOLEAN : AddTransaction(a, w)
  \/ Tick

\* The simulator's main loop ticks every cycle; the host owes nothing.  This
\* is weak fairness of Tick: Tick is enabled exactly when ~aborted, and
\* aborted never becomes FALSE again, so WF_vars(Tick) is equivalent to
\* TickFairness.  Among the steps of Next, those that change vars but not
\* next_id are exactly the Tick steps (AddTransaction always moves next_id),
\* so TickFairness names them by TickStep: TLC then neither evaluates
\* ENABLED Tick nor Tick itself, a whole controller cycle, on every edge.
\* Every Tick changes vars: the refresh countdown moves (RefreshInterval > 1).
TickStep == next_id' = next_id
TickFairness == <>[](~aborted) => []<><<TickStep>>_vars

Spec == Init /\ [][Next]_vars /\ TickFairness

----------------------------------------------------------------------------
(* Properties                                                              *)

TypeOK ==
  /\ channel_state.banks \in [BankIds -> BankRec]
  /\ channel_state.refresh_q \in Seq(Command)
  /\ cmd_queue.queues \in [QueueIds -> Seq(Command)]
  /\ {unified_queue, read_queue, write_buffer, pending_rd_q, pending_wr_q,
      return_queue} \subseteq Seq(Transaction)
  /\ write_draining \in Nat /\ aborted \in BOOLEAN
  /\ next_id \in 1..(MaxTrans + 1)
  /\ latest \in [Addr -> Nat] /\ mem \in [Addr -> Nat]
  /\ callbacks \in [Ids -> 0..2]

\* No AbruptExit and no exit(1) is ever reached: no bank is asked for a
\* command its state cannot serve (BankState::GetReadyCommand / UpdateState),
\* IssueCommand always finds the pending entry of a READ or WRITE, and
\* EraseRWCommand always finds the command it is asked to erase.
NoFatalError == ~aborted

\* Commands of a transaction still waiting in a transaction queue or in a
\* command queue, by address.
QueuedTrans(a, w) ==
  LET inq(q) == Cardinality({k \in 1..Len(q) : q[k].addr = a /\ q[k].is_write = w})
  IN inq(unified_queue) + inq(read_queue) + inq(write_buffer)
QueuedCmds(a, w) ==
  LET types == IF w THEN WriteTypes ELSE ReadTypes
      hits(i) == LET q == cmd_queue.queues[i]
                 IN {<<i, k>> : k \in {k \in 1..Len(q) : q[k].hex = a /\ q[k].type \in types}}
  IN Cardinality(UNION {hits(i) : i \in QueueIds})
CountPending(q, a) == Cardinality({k \in 1..Len(q) : q[k].addr = a})

\* The pending queues and the queues agree (spec.md invariant 4): an address
\* has at most one pending write, and exactly one read (write) of it is on
\* its way to the DRAM, in a transaction queue or as a command, while it has
\* pending reads (a pending write); none otherwise.  AddTransaction queues
\* only the first pending read, IssueCommand retires them all with one READ.
PendingCoalesced ==
  \A a \in Addr :
    /\ CountPending(pending_wr_q, a) <= 1
    /\ QueuedTrans(a, FALSE) + QueuedCmds(a, FALSE) =
         IF CountPending(pending_rd_q, a) > 0 THEN 1 ELSE 0
    /\ QueuedTrans(a, TRUE) + QueuedCmds(a, TRUE) = CountPending(pending_wr_q, a)

\* Every transaction the host adds is eventually handed back to its
\* callback (ReturnDoneTrans), whatever the scheduler and the refreshes do.
AllTransactionsComplete ==
  \A i \in Ids : [](next_id > i => <>(callbacks[i] > 0))

\* The banks a refresh command covers: the rank, or the one bank.
RefreshScope(ref) ==
  IF ref.type = "REFRESH" THEN {id \in BankIds : id[1] = ref.rank} ELSE {BankOf(ref)}

\* While a refresh waits at the head of the refresh queue, no bank it covers
\* is activated: FinishRefresh masks the queues of its scope (ref_q_indices)
\* from GetCommandToIssue -- also from the second, HBM dual-issue scan --
\* until the refresh itself has issued, so the precharges it needs are not
\* undone by row hits of queued reads and writes.
RefreshBlocksActivation ==
  [][IsRefreshWaiting(channel_state) =>
       \A id \in RefreshScope(PendingRefCommand(channel_state)) :
         channel_state'.banks[id].state = "OPEN" => channel_state.banks[id].state = "OPEN"]_vars

\* Every refresh is issued in time: Refresh::ClockTick never queues a
\* refresh for a rank (bank) whose previous refresh is still waiting, so
\* FinishRefresh always completes a refresh -- precharging the open banks
\* against tRAS, tRTP and tWR and waiting tRP -- within one refresh round.
RefreshIssuedBeforeNext ==
  LET q == channel_state.refresh_q
  IN \A i, j \in 1..Len(q) : i < j => RefreshScope(q[i]) \cap RefreshScope(q[j]) = {}

\* The oldest command queued for bank id is a row miss: the bank is open on
\* another row, so its prerequisite is a PRECHARGE.
OldestIsRowMiss(id) ==
  LET bq == SelectSeq(cmd_queue.queues[GetQueueIndex(id[1], id[2], id[3])],
                      LAMBDA c : BankOf(c) = id)
  IN /\ bq # <<>>
     /\ channel_state.banks[id].state = "OPEN"
     /\ bq[1].row # channel_state.banks[id].open_row

RankHasNoWork(r) ==
  /\ \A i \in QueueIds : \A k \in 1..Len(cmd_queue.queues[i]) : cmd_queue.queues[i][k].rank # r
  /\ \A q \in {unified_queue, read_queue, write_buffer} :
       \A k \in 1..Len(q) : AddressMapping[q[k].addr].rank # r

\* A rank that is left with no work is eventually put into self-refresh:
\* spec.md sec. 4.5 step 5 has the controller issue SREF_ENTER once a rank
\* has been idle for sref_threshold cycles "with empty queue". The code
\* (controller.cc:159) tests CommandQueue::rank_q_empty, which AddCommand
\* clears (command_queue.cc:137) and nothing under src/ sets again.
IdleRankSleeps ==
  \A r \in Ranks : <>[]RankHasNoWork(r) => <>IsRankSelfRefreshing(channel_state, r)

----------------------------------------------------------------------------
(* Refinement of AbstractMemory                                            *)

\* The transactions the controller owes its host (ControllerOps!OwedOf).
OwedTrans == OwedOf(Ctrl)

AM == INSTANCE AbstractMemory WITH owed <- OwedTrans, done <- callbacks

\* The controller implements the abstract memory: every step of
\* AddTransaction, IssueCommand, ReturnDoneTrans and the rest of ClockTick
\* either hands back owed transactions with the values they owe, accepts a
\* new one, or leaves what the host can observe unchanged; and under the
\* ticking of the main loop every accepted transaction is handed back.
Refines == AM!Spec

\* The safety half of Refines, for configurations in which a transaction
\* can starve (split queues): no step of the controller hands back a
\* transaction twice, one it never accepted, or a read with data other
\* than those of the last write accepted before it.
RefinesSafely == AM!Init /\ [][AM!Next]_AM!vars

=============================================================================
