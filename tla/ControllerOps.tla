---------------------------- MODULE ControllerOps ----------------------------
(***************************************************************************)
(* The memory controller of one channel (src/controller.cc) as operators   *)
(* on a record of its state: every method that changes state maps the     *)
(* record it is given to the record it leaves.  Controller makes one such  *)
(* record its state; JedecDRAMSystem holds one per channel.                *)
(*                                                                         *)
(* Record fields: cs (ChannelState), cq (CommandQueue), rf (Refresh), the  *)
(* transaction queues unified_queue, read_queue and write_buffer,          *)
(* pending_rd_q, pending_wr_q, return_queue, write_draining, and fatal    *)
(* (an AbruptExit or exit(1) was reached).                                 *)
(*                                                                         *)
(* Ghost state: every transaction has an id; the host's data is a version  *)
(* number per address (latest = versions written so far, mem = the version *)
(* the DRAM holds); a read records the version it should see (exp) and the *)
(* one it got (val).                                                       *)
(*                                                                         *)
(* Of the statistics, simple_stats_ is left out; the idle-cycle counters  *)
(* that drive self-refresh are kept, and the bank-parallelism accounting  *)
(* (the in_serve marks of IssueCommand and Calculate_stats) is kept in     *)
(* the fields serve, is_active and concurrent_serve when TrackServe holds. *)
(* It never influences scheduling, so runs that do not check it set        *)
(* TrackServe FALSE and the fields keep their initial values.              *)
(***************************************************************************)
EXTENDS CommandQueue
LOCAL INSTANCE SequencesExt

CONSTANTS
  UnifiedQueue,      \* config_.unified_queue
  TransQueueSize,    \* config_.trans_queue_size
  RowBufPolicy,      \* "OPEN_PAGE" or "CLOSE_PAGE"
  EnableHBMDualCmd,  \* config_.enable_hbm_dual_cmd
  ReadDelay,         \* config_.read_delay
  EnableSelfRefresh, \* config_.enable_self_refresh
  SrefThreshold,     \* config_.sref_threshold
  MaxTrans,          \* bound: transactions the host adds in a behaviour
  TrackServe         \* the bank-parallelism statistics are computed

ASSUME RefreshInterval > 1

ASSUME /\ UnifiedQueue \in BOOLEAN /\ EnableHBMDualCmd \in BOOLEAN
       /\ RowBufPolicy \in {"OPEN_PAGE", "CLOSE_PAGE"}
       /\ TransQueueSize \in Nat \ {0}
       /\ ReadDelay \in Nat \ {0}
       /\ EnableSelfRefresh \in BOOLEAN /\ SrefThreshold \in Nat
       /\ MaxTrans \in Nat /\ TrackServe \in BOOLEAN

\* The write-drain lower threshold of ScheduleTransaction, a literal 8.
WriteDrainThreshold == 8

Ids == 1..MaxTrans
Transaction == [id: Ids, addr: Addr, is_write: BOOLEAN, due: Nat, val: Nat, exp: Nat]

\* The serve marks of a bank (BankState's in_serve and serve_end_cycle, 0
\* at construction).  serve_end_cycle is only compared for equality with
\* clk_ - 1, so it is kept as left = serve_end_cycle + 1 - clk_, the cycles
\* until that one comparison holds; -1 once it has passed for good.
InitServe == [in_serve |-> FALSE, left |-> 1]

\* Controller::Controller: every queue empty, nothing pending.
InitCtrl ==
  [cs |-> InitChannelState, cq |-> InitCommandQueue, rf |-> InitRefresh,
   unified_queue |-> <<>>, read_queue |-> <<>>, write_buffer |-> <<>>,
   pending_rd_q |-> <<>>, pending_wr_q |-> <<>>, return_queue |-> <<>>,
   write_draining |-> 0, latest |-> [a \in Addr |-> 0], mem |-> [a \in Addr |-> 0],
   fatal |-> FALSE, serve |-> [id \in BankIds |-> InitServe],
   is_active |-> FALSE, concurrent_serve |-> 0]

----------------------------------------------------------------------------

\* Controller::TransToCommand
TransToCommand(t) ==
  LET type == IF RowBufPolicy = "OPEN_PAGE"
              THEN IF t.is_write THEN "WRITE" ELSE "READ"
              ELSE IF t.is_write THEN "WRITE_PRECHARGE" ELSE "READ_PRECHARGE"
  IN MakeCommand(type, AddressMapping[t.addr], t.addr)

HasPending(q, a) == \E k \in 1..Len(q) : q[k].addr = a

\* Fault-injection variant of ServedReads: only the first pending read of
\* the address is returned.
ServedReadsFirst(pending, a) ==
  LET all == SelectSeq(pending, LAMBDA t : t.addr = a)
  IN IF all = <<>> THEN all ELSE <<Head(all)>>

\* IssueCommand: the pending reads one READ command returns -- every pending
\* read of its address, in insertion order.
ServedReads(pending, a) == SelectSeq(pending, LAMBDA t : t.addr = a)

\* Fault-injection variant of Drained: the unified-queue test is missing.
DrainedAny(wd, cmd) == IF ~UnifiedQueue THEN wd - 1 ELSE wd

\* ScheduleTransaction: write_draining_ counts down the writes it moves.
Drained(wd, cmd) == IF ~UnifiedQueue /\ IsWrite(cmd) THEN wd - 1 ELSE wd

\* Fault-injection variant of WriteWaitsForRead: no R->W dependency.
WriteNeverWaits(S, t, cmd) == FALSE

\* ScheduleTransaction: a write must wait while a read of its address is
\* pending (the R->W dependency of the split queues).
WriteWaitsForRead(S, t, cmd) ==
  ~UnifiedQueue /\ IsWrite(cmd) /\ HasPending(S.pending_rd_q, t.addr)

\* IssueCommand, last part: the channel state takes the command.
WithChannel(S, cs) == [S EXCEPT !.cs = cs, !.fatal = @ \/ ChannelFatal(cs)]

\* Controller::IssueCommand: a READ completes every pending read of its
\* address read_delay cycles from now; a WRITE retires its pending write
\* (and the DRAM now holds the buffered data); then the channel state takes
\* the command.  A data command without its pending entry exits.
IssueCommandOn(S, cmd, reads) ==
  LET served == {reads[k].id : k \in 1..Len(reads)}
      w == FirstIndex(Len(S.pending_wr_q), LAMBDA k : S.pending_wr_q[k].addr = cmd.hex)
  IN CASE cmd.type = "FATAL" \/ (IsRead(cmd) /\ reads = <<>>) \/ (IsWrite(cmd) /\ w = 0)
            -> [S EXCEPT !.fatal = TRUE]
       [] IsRead(cmd) ->
            [S EXCEPT !.pending_rd_q = SelectSeq(@, LAMBDA t : t.id \notin served),
                      !.return_queue = @ \o [k \in 1..Len(reads) |->
                         [reads[k] EXCEPT !.due = ReadDelay, !.val = S.mem[cmd.hex]]]]
       [] IsWrite(cmd) ->
            [S EXCEPT !.pending_wr_q = RemoveAt(@, w),
                      !.mem[cmd.hex] = S.latest[cmd.hex]]
       [] OTHER -> S

IssueCommandThen(S1, cmd) == WithChannel(S1, UpdateTimingAndStates(S1.cs, cmd))

IssueCommand(S, cmd) ==
  IssueCommandThen(IssueCommandOn(S, cmd, ServedReads(S.pending_rd_q, cmd.hex)), cmd)

\* BankState::GetReadyCommand's activate_by_who when an ACTIVATE issues:
\* the command queue scan stops at the first ready command, and every
\* command of a closed bank needs the same ACTIVATE, so the last command
\* asked about on the bank is its first one in its queue.
ActivateByRead(S, cmd) ==
  LET q == S.cq.queues[GetQueueIndex(cmd.rank, cmd.bankgroup, cmd.bank)]
      k == FirstIndex(Len(q), LAMBDA j : BankOf(q[j]) = BankOf(cmd))
  IN k > 0 /\ ~IsWrite(q[k])

\* IssueCommand, the MZOU part: a READ puts its bank in serve until
\* clk_ + read_delay; an ACTIVATE asked for by a read, and a PRECHARGE asked
\* for by a row conflict (precharge_by_refresh = 1; by_conflict: it came
\* from the command queues, not from a refresh or SREF_ENTER), put their
\* bank in serve.
MarkServe(S, cmd, by_conflict) ==
  IF ~TrackServe \/ cmd.type = "FATAL" THEN S
  ELSE CASE IsRead(cmd) ->
              [S EXCEPT !.serve[BankOf(cmd)] = [in_serve |-> TRUE, left |-> ReadDelay + 1]]
         [] \/ cmd.type = "ACTIVATE" /\ ActivateByRead(S, cmd)
            \/ cmd.type = "PRECHARGE" /\ by_conflict ->
              [S EXCEPT !.serve[BankOf(cmd)].in_serve = TRUE]
         [] OTHER -> S

\* ChannelState::InServeBankNum: the banks of rank r in serve.
InServeBankNum(serve, r) == Cardinality({id \in BankIds : id[1] = r /\ serve[id].in_serve})

\* Controller::Calculate_stats: a bank leaves serve in the cycle after its
\* serve end (clk_ == serve_end_cycle + 1) or when it is closed; the
\* controller is active if some rank has a bank in serve, and
\* concurrent_serve adds up the banks in serve of those ranks.
ServeAfter(S, id) ==
  [S.serve[id] EXCEPT !.in_serve = @ /\ S.serve[id].left # 0
                                     /\ S.cs.banks[id].state # "CLOSED"]
WithServe(S, serve) ==
  [S EXCEPT !.serve = serve,
            !.is_active = \E r \in Ranks : InServeBankNum(serve, r) > 0,
            !.concurrent_serve = Cardinality({id \in BankIds : serve[id].in_serve})]
CalculateStats(S) ==
  IF TrackServe THEN WithServe(S, [id \in BankIds |-> ServeAfter(S, id)]) ELSE S

\* Controller::ScheduleTransaction: choose reads or writes (write draining
\* starts when the write buffer is full, or holds more than 8 entries while
\* the command queues are empty), then move the first transaction whose
\* command queue has room into it.  A write whose address still has a
\* pending read ends the drain instead.
ScheduleTransaction(S) ==
  LET wb == S.write_buffer
      wd == IF /\ S.write_draining = 0 /\ ~UnifiedQueue
               /\ \/ Len(wb) >= TransQueueSize
                  \/ Len(wb) > WriteDrainThreshold /\ QueueEmpty(S.cq)
            THEN Len(wb) ELSE S.write_draining
      which == IF UnifiedQueue THEN "unified_queue"
               ELSE IF wd > 0 THEN "write_buffer" ELSE "read_queue"
      q == S[which]
      fits(k) == LET c == TransToCommand(q[k])
                 IN WillAcceptCommand(S.cq, c.rank, c.bankgroup, c.bank)
      k == FirstIndex(Len(q), fits)
      cmd == TransToCommand(q[k])
  IN CASE k = 0 -> [S EXCEPT !.write_draining = wd]
       [] WriteWaitsForRead(S, q[k], cmd) ->
            [S EXCEPT !.write_draining = 0]
       [] OTHER ->
            [S EXCEPT !.write_draining = Drained(wd, cmd),
                      !.cq = AddCommand(S.cq, cmd),
                      ![which] = RemoveAt(q, k)]

\* The cycle ends (clk_++): every relative timestamp moves one step.
TimeAdvance(S) ==
  [S EXCEPT !.cs = ChannelTimeAdvance(@),
            !.return_queue = [k \in 1..Len(@) |->
                [@[k] EXCEPT !.due = IF @ > 0 THEN @ - 1 ELSE 0]],
            !.serve = IF TrackServe
                      THEN [id \in BankIds |-> [@[id] EXCEPT !.left = IF @ >= 0 THEN @ - 1 ELSE -1]]
                      ELSE @]

\* Controller::ClockTick, step by step.  Each step is an operator of the
\* record the previous one produced.
\* 1. The refresh engine ticks.
WithRefresh(S, rt) == [S EXCEPT !.rf = rt[1], !.cs = rt[2]]
RefreshStep(S) == WithRefresh(S, RefreshClockTick(S.rf, S.cs))

\* 2. A waiting refresh's step, else the first ready queued command:
\* <<command, record, whether it came from the command queues>>.
WithQueue(S, got, from_queue) == <<got[1], [S EXCEPT !.cq = got[2]], from_queue>>
QueuedStep(S, fr) ==
  IF IsValid(fr[1]) THEN WithQueue(S, fr, FALSE)
  ELSE WithQueue(S, GetCommandToIssue(fr[2], S.cs), TRUE)
CommandStep(S) ==
  QueuedStep(S, IF IsRefreshWaiting(S.cs) THEN FinishRefresh(S.cq, S.cs)
                ELSE <<InvalidCommand, S.cq>>)

\* 3. With enable_hbm_dual_cmd, a second command is issued when exactly one
\* of the two is a data command.
SecondIssue(S, cmd, second) ==
  IF /\ IsValid(second[1])
     /\ \/ second[1].type = "FATAL"
        \/ IsReadWrite(second[1]) # IsReadWrite(cmd)
  THEN MarkServe(IssueCommand([S EXCEPT !.cq = second[2]], second[1]), second[1], TRUE)
  ELSE [S EXCEPT !.cq = second[2]]
DualStep(S, cmd) ==
  IF EnableHBMDualCmd THEN SecondIssue(S, cmd, GetCommandToIssue(S.cq, S.cs)) ELSE S
IssueStep(got) ==
  IF IsValid(got[1])
  THEN DualStep(MarkServe(IssueCommand(got[2], got[1]), got[1], got[3]), got[1])
  ELSE got[2]

\* 4. Power updates pt 1: a rank not in self-refresh counts the cycles in
\* which none of its banks is open, and restarts on an open bank.  The
\* counter is only compared with sref_threshold, so it saturates there
\* (and stays 0 when self-refresh is disabled and nothing reads it).
IdleCap == IF EnableSelfRefresh THEN SrefThreshold ELSE 0
IdleAccounting(S) ==
  [S EXCEPT !.cs.rank_idle_cycles = [r \in Ranks |->
     IF IsRankSelfRefreshing(S.cs, r) THEN @[r]
     ELSE IF IsAllBankIdleInRank(S.cs, r)
     THEN IF @[r] < IdleCap THEN @[r] + 1 ELSE IdleCap
     ELSE 0]]

\* Fault-injection variant of SrefRequest: SREF_ENTER without the
\* empty-queue test.
SrefRequestBusyQueue(S, r) ==
  IF IsRankSelfRefreshing(S.cs, r)
  THEN IF ~S.cq.rank_q_empty[r]
       THEN GetReadyCommandCS(S.cs, RefreshCommand("SREF_EXIT", r, -1, -1))
       ELSE InvalidCommand
  ELSE IF S.cs.rank_idle_cycles[r] >= SrefThreshold
  THEN GetReadyCommandCS(S.cs, RefreshCommand("SREF_ENTER", r, -1, -1))
  ELSE InvalidCommand

\* 5. Power updates pt 2: the request of rank r -- wake a self-refreshing
\* rank whose queue flag says it has work (SREF_EXIT), or put a rank whose
\* queue flag says empty and that has been idle long enough to sleep
\* (SREF_ENTER) -- as ChannelState::GetReadyCommand answers it.
SrefRequest(S, r) ==
  IF IsRankSelfRefreshing(S.cs, r)
  THEN IF ~S.cq.rank_q_empty[r]
       THEN GetReadyCommandCS(S.cs, RefreshCommand("SREF_EXIT", r, -1, -1))
       ELSE InvalidCommand
  ELSE IF S.cq.rank_q_empty[r] /\ S.cs.rank_idle_cycles[r] >= SrefThreshold
  THEN GetReadyCommandCS(S.cs, RefreshCommand("SREF_ENTER", r, -1, -1))
  ELSE InvalidCommand

\* Only in a cycle in which no command issued: the first rank (in rank
\* order) with a valid request issues it, and the loop breaks.
SelfRefreshStep(S, cmd_issued) ==
  LET ready == {r \in Ranks : IsValid(SrefRequest(S, r))}
  IN IF ~EnableSelfRefresh \/ cmd_issued \/ ready = {} THEN S
     ELSE IssueCommand(S, SrefRequest(S, Min(ready)))

\* 6. Calculate_stats, ScheduleTransaction, and the end of the cycle.
AfterIssue(got) ==
  TimeAdvance(ScheduleTransaction(CalculateStats(
    SelfRefreshStep(IdleAccounting(IssueStep(got)), IsValid(got[1])))))

ClockTick(S) == AfterIssue(CommandStep(RefreshStep(S)))

\* Controller::ReturnDoneTrans, called until it finds nothing: the
\* transactions whose complete cycle has come, in return-queue order.
DoneTrans(rq) == SelectSeq(rq, LAMBDA t : t.due = 0)
NotDoneTrans(rq) == SelectSeq(rq, LAMBDA t : t.due > 0)

\* Controller::WillAcceptTransaction
WillAcceptTransaction(S, is_write) ==
  IF UnifiedQueue THEN Len(S.unified_queue) < TransQueueSize
  ELSE IF ~is_write THEN Len(S.read_queue) < TransQueueSize
  ELSE Len(S.write_buffer) < TransQueueSize

\* Transaction::Transaction: a new transaction with the ghost id and, for a
\* read, the version it must see.
NewTransaction(S, id, a, is_write) ==
  [id |-> id, addr |-> a, is_write |-> is_write, due |-> 0, val |-> 0,
   exp |-> IF is_write THEN 0 ELSE S.latest[a]]

\* Fault-injection variant of FirstPendingRead: every read is queued.
FirstPendingReadAlways(S, a) == TRUE

\* AddTransaction: a read goes to a transaction queue only as the first
\* pending read of its address (pending_rd_q_.count(addr) == 1).
FirstPendingRead(S, a) == ~HasPending(S.pending_rd_q, a)

\* Controller::AddTransaction.  A write joins the write queues unless one to
\* its address is pending (merge) and completes next cycle.  A read with a
\* pending write to its address is served from the write buffer next cycle;
\* otherwise it becomes pending and only the first pending read of an
\* address is queued.
AddTransactionTo(S, t) ==
  LET a == t.addr
      which == IF UnifiedQueue THEN "unified_queue"
               ELSE IF t.is_write THEN "write_buffer" ELSE "read_queue"
      enqueue(R, cond) == IF cond THEN [R EXCEPT ![which] = Append(@, t)] ELSE R
  IN IF t.is_write
     THEN enqueue([S EXCEPT !.pending_wr_q = IF HasPending(@, a) THEN @ ELSE Append(@, t),
                            !.return_queue = Append(@, [t EXCEPT !.due = 1]),
                            !.latest[a] = @ + 1],
                  ~HasPending(S.pending_wr_q, a))
     ELSE IF HasPending(S.pending_wr_q, a)
     THEN [S EXCEPT !.return_queue = Append(@, [t EXCEPT !.due = 1, !.val = S.latest[a]])]
     ELSE enqueue([S EXCEPT !.pending_rd_q = Append(@, t)], FirstPendingRead(S, a))

\* The transactions the controller owes its host, each with the value it
\* will hand back: a read still pending owes the version that was latest
\* when it was accepted (exp); a transaction in the return queue hands back
\* what IssueCommand put there -- the version the DRAM held when the READ
\* issued -- or, for a read served from the write buffer by AddTransaction,
\* the buffered write's version.
OwedOf(S) ==
  {[id |-> t.id, addr |-> t.addr, is_write |-> t.is_write, val |-> t.exp] :
     t \in {S.pending_rd_q[k] : k \in DOMAIN S.pending_rd_q}}
  \cup
  {[id |-> t.id, addr |-> t.addr, is_write |-> t.is_write, val |-> t.val] :
     t \in {S.return_queue[k] : k \in DOMAIN S.return_queue}}
=============================================================================
