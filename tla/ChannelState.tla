---------------------------- MODULE ChannelState ----------------------------
(***************************************************************************)
(* The bank grid of one channel, its four-activation windows and its       *)
(* refresh queue (src/channel_state.h; the .cc and the timing table of     *)
(* timing.cc are not among the sources, so GetReadyCommand,                *)
(* UpdateTimingAndStates, the activation window, the refresh queue and the *)
(* timing matrix follow spec.md sec. 4.2 and sec. 6).                      *)
(*                                                                         *)
(* A channel state is a record                                             *)
(*   [banks: [BankIds -> BankRec], four_aw: [Ranks -> Seq(Nat)],          *)
(*    refresh_q: Seq(Command), rank_is_sref: [Ranks -> BOOLEAN],           *)
(*    rank_idle_cycles: [Ranks -> Nat]]                                    *)
(* where four_aw[r] holds, for each of the last (at most 4) ACTIVATEs of   *)
(* rank r still inside the tFAW window, the cycles left until it leaves.   *)
(***************************************************************************)
EXTENDS BankState
LOCAL INSTANCE SequencesExt

CONSTANT timing   \* the timing parameters of the Timing object, in cycles

TimingNames == {"tCCD_L", "tCCD_S", "tRTRS", "tRTP", "tWTR_L", "tWTR_S", "tWR",
                "tRTW", "tRCD", "tRAS", "tRC", "tRRD_L", "tRRD_S", "tRP",
                "tRFC", "tRFCb", "tFAW", "tXS", "tCKESR"}
ASSUME timing \in [TimingNames -> Nat]

----------------------------------------------------------------------------
(* The timing matrix: for an issued command kind, the (affected kind,      *)
(* delay) pairs at each scope (Timing::Timing, spec.md sec. 4.2 (c)).      *)

Pairs(kinds, d) == {<<k, d>> : k \in kinds}
PreparedKinds == {"ACTIVATE", "REFRESH", "REFRESH_BANK", "SREF_ENTER"}

SameBankTiming(k) ==
  CASE k = "READ" -> Pairs(ReadTypes, timing["tCCD_L"]) \cup Pairs(WriteTypes, timing["tRTW"])
                       \cup Pairs({"PRECHARGE"}, timing["tRTP"])
    [] k = "WRITE" -> Pairs(ReadTypes, timing["tWTR_L"]) \cup Pairs(WriteTypes, timing["tCCD_L"])
                       \cup Pairs({"PRECHARGE"}, timing["tWR"])
    [] k = "READ_PRECHARGE" -> Pairs(PreparedKinds, timing["tRTP"] + timing["tRP"])
    [] k = "WRITE_PRECHARGE" -> Pairs(PreparedKinds, timing["tWR"] + timing["tRP"])
    [] k = "ACTIVATE" -> Pairs({"ACTIVATE"}, timing["tRC"])
                       \cup Pairs(ReadTypes \cup WriteTypes, timing["tRCD"])
                       \cup Pairs({"PRECHARGE"}, timing["tRAS"])
    [] k = "PRECHARGE" -> Pairs(PreparedKinds, timing["tRP"])
    [] k = "REFRESH_BANK" -> Pairs(PreparedKinds, timing["tRFCb"])
    [] OTHER -> {}

\* Data commands and activations seen from another bank: "L" delays inside
\* the bankgroup, "S" delays across bankgroups of the rank.
NeighbourTiming(k, ccd, wtr, rrd) ==
  CASE k \in ReadTypes -> Pairs(ReadTypes, ccd) \cup Pairs(WriteTypes, timing["tRTW"])
    [] k \in WriteTypes -> Pairs(ReadTypes, wtr) \cup Pairs(WriteTypes, ccd)
    [] k = "ACTIVATE" -> Pairs({"ACTIVATE", "REFRESH_BANK"}, rrd)
    [] k = "REFRESH_BANK" -> Pairs({"ACTIVATE", "REFRESH_BANK"}, rrd)
    [] OTHER -> {}

OtherBanksSameBankgroupTiming(k) ==
  NeighbourTiming(k, timing["tCCD_L"], timing["tWTR_L"], timing["tRRD_L"])
OtherBankgroupsSameRankTiming(k) ==
  NeighbourTiming(k, timing["tCCD_S"], timing["tWTR_S"], timing["tRRD_S"])

\* Data bus turnaround to the other ranks of the channel.
OtherRanksTiming(k) ==
  IF k \in ReadTypes \cup WriteTypes
  THEN Pairs(ReadTypes \cup WriteTypes, timing["tCCD_S"] + timing["tRTRS"])
  ELSE {}

\* Rank-wide commands update every bank of their rank.
SameRankTiming(k) ==
  CASE k = "REFRESH" -> Pairs(PreparedKinds, timing["tRFC"])
    [] k = "SREF_ENTER" -> Pairs({"SREF_EXIT"}, timing["tCKESR"])
    [] k = "SREF_EXIT" -> Pairs(PreparedKinds, timing["tXS"])
    [] OTHER -> {}

\* The list that applies to bank id after cmd is issued (the Update*Timing
\* helper that reaches id).
ScopeTiming(cmd, id) ==
  IF IsRankCMD(cmd)
  THEN IF id[1] = cmd.rank THEN SameRankTiming(cmd.type) ELSE {}
  ELSE CASE id = BankOf(cmd) -> SameBankTiming(cmd.type)
         [] id[1] = cmd.rank /\ id[2] = cmd.bankgroup -> OtherBanksSameBankgroupTiming(cmd.type)
         [] id[1] = cmd.rank -> OtherBankgroupsSameRankTiming(cmd.type)
         [] OTHER -> OtherRanksTiming(cmd.type)

----------------------------------------------------------------------------

InitChannelState ==
  [banks |-> [id \in BankIds |-> InitBank],
   four_aw |-> [r \in Ranks |-> <<>>],
   refresh_q |-> <<>>,
   rank_is_sref |-> [r \in Ranks |-> FALSE],
   rank_idle_cycles |-> [r \in Ranks |-> 0]]

\* ChannelState::ActivationWindowOk: fewer than 4 ACTIVATEs of the rank
\* inside the last tFAW cycles.
ActivationWindowOk(cs, r) == Len(cs.four_aw[r]) < 4

\* ChannelState::UpdateActivationTimes: push the new ACTIVATE, keep the last 4.
UpdateActivationTimes(cs, r) ==
  LET w == Append(cs.four_aw[r], timing["tFAW"])
  IN [cs EXCEPT !.four_aw[r] = IF Len(w) > 4 THEN Tail(w) ELSE w]

\* ChannelState::GetReadyCommand.  A rank-wide command asks every bank of
\* the rank: the first bank whose answer is a different, ready command (a
\* PRECHARGE) is returned with that bank's address; the command itself only
\* once every bank is ready for it.  An ACTIVATE must also fit the window.
GetReadyCommandCS(cs, cmd) ==
  IF IsRankCMD(cmd)
  THEN LET ids == {id \in BankIds : id[1] = cmd.rank}
           ans(id) == GetReadyCommand(cs.banks[id], cmd)
           other == {id \in ids : IsValid(ans(id)) /\ ans(id).type # cmd.type}
           first == CHOOSE id \in other : \A j \in other :
                      BankIndexInRank(id[2], id[3]) <= BankIndexInRank(j[2], j[3])
       IN IF \E id \in ids : ans(id).type = "FATAL" THEN [cmd EXCEPT !.type = "FATAL"]
          ELSE IF other # {}
          THEN [ans(first) EXCEPT !.bankgroup = first[2], !.bank = first[3],
                                  !.row = -1, !.column = -1]
          ELSE IF \A id \in ids : IsValid(ans(id)) THEN cmd
          ELSE InvalidCommand
  ELSE LET rc == GetReadyCommand(cs.banks[BankOf(cmd)], cmd) IN
       IF rc.type = "ACTIVATE" /\ ~ActivationWindowOk(cs, cmd.rank)
       THEN InvalidCommand ELSE rc

\* ChannelState::RankNeedRefresh / BankNeedRefresh: queue a refresh, or
\* remove the first queued one of that rank (bank) once it is issued.
RefreshCommand(type, r, g, b) ==
  MakeCommand(type, [NoLocation EXCEPT !.rank = r, !.bankgroup = g, !.bank = b], NoAddr)

\* The first queued refresh that Matches leaves the queue (if there is one).
RemoveRefresh(cs, Matches(_)) ==
  LET i == SelectInSeq(cs.refresh_q, Matches)
  IN IF i = 0 THEN cs ELSE [cs EXCEPT !.refresh_q = RemoveAt(@, i)]

\* Fault-injection variant of RankNeedRefresh: an issued refresh is never
\* dequeued.
RankNeedRefreshNoDequeue(cs, r, need) ==
  IF need THEN [cs EXCEPT !.refresh_q = Append(@, RefreshCommand("REFRESH", r, -1, -1))]
  ELSE cs

RankNeedRefresh(cs, r, need) ==
  IF need THEN [cs EXCEPT !.refresh_q = Append(@, RefreshCommand("REFRESH", r, -1, -1))]
  ELSE RemoveRefresh(cs, LAMBDA c : c.rank = r)

\* Fault-injection variant of BankNeedRefresh: an issued bank refresh is
\* never dequeued.
BankNeedRefreshNoDequeue(cs, r, g, b, need) ==
  IF need THEN [cs EXCEPT !.refresh_q = Append(@, RefreshCommand("REFRESH_BANK", r, g, b))]
  ELSE cs

BankNeedRefresh(cs, r, g, b, need) ==
  IF need THEN [cs EXCEPT !.refresh_q = Append(@, RefreshCommand("REFRESH_BANK", r, g, b))]
  ELSE RemoveRefresh(cs, LAMBDA c : BankOf(c) = <<r, g, b>>)

\* channel_state.h: IsRankSelfRefreshing
IsRankSelfRefreshing(cs, r) == cs.rank_is_sref[r]

\* ChannelState::IsAllBankIdleInRank: no bank of the rank has an open row.
IsAllBankIdleInRank(cs, r) ==
  \A id \in BankIds : id[1] = r => cs.banks[id].state # "OPEN"

\* channel_state.h: IsRefreshWaiting, PendingRefCommand, OpenRow, RowHitCount
IsRefreshWaiting(cs) == cs.refresh_q # <<>>
PendingRefCommand(cs) == Head(cs.refresh_q)
OpenRow(cs, r, g, b) == cs.banks[<<r, g, b>>].open_row
RowHitCount(cs, r, g, b) == cs.banks[<<r, g, b>>].row_hit_count

\* ChannelState::UpdateState: the bank (every bank of the rank for a rank
\* command) changes state; an issued refresh leaves the refresh queue.
UpdateStateCS(cs, cmd) ==
  LET hit(id) == IF IsRankCMD(cmd) THEN id[1] = cmd.rank ELSE id = BankOf(cmd)
      cs1 == [cs EXCEPT !.banks = [id \in BankIds |->
                 IF hit(id) THEN UpdateState(@[id], cmd) ELSE @[id]]]
  IN CASE cmd.type = "REFRESH" -> RankNeedRefresh(cs1, cmd.rank, FALSE)
       [] cmd.type = "REFRESH_BANK" ->
            BankNeedRefresh(cs1, cmd.rank, cmd.bankgroup, cmd.bank, FALSE)
       [] cmd.type = "SREF_ENTER" -> [cs1 EXCEPT !.rank_is_sref[cmd.rank] = TRUE]
       [] cmd.type = "SREF_EXIT" -> [cs1 EXCEPT !.rank_is_sref[cmd.rank] = FALSE]
       [] OTHER -> cs1

\* ChannelState::UpdateTiming: every bank takes the delays of its scope, one
\* BankState::UpdateTiming call per (kind, delay) pair of the list.
UpdateTimingCS(cs, cmd) ==
  LET cs1 == IF cmd.type = "ACTIVATE" THEN UpdateActivationTimes(cs, cmd.rank) ELSE cs
  IN [cs1 EXCEPT !.banks = [id \in BankIds |->
        FoldSet(LAMBDA p, b : UpdateTiming(b, p[1], p[2]), @[id], ScopeTiming(cmd, id))]]

\* ChannelState::UpdateTimingAndStates
UpdateTimingAndStates(cs, cmd) == UpdateTimingCS(UpdateStateCS(cs, cmd), cmd)

\* One cycle passes for every bank and activation window.
ChannelTimeAdvance(cs) ==
  [cs EXCEPT !.banks = [id \in BankIds |-> BankTimeAdvance(@[id])],
             !.four_aw = [r \in Ranks |->
                LET w == [i \in 1..Len(@[r]) |-> @[r][i] - 1]
                IN SelectSeq(w, LAMBDA t : t > 0)]]

\* Some bank of the channel reached an AbruptExit in UpdateState.
ChannelFatal(cs) == \E id \in BankIds : cs.banks[id].state = "FATAL"
=============================================================================
