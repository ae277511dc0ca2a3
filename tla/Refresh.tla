------------------------------ MODULE Refresh ------------------------------
(***************************************************************************)
(* The periodic refresh engine (refresh.cc, not among the sources; this    *)
(* follows spec.md sec. 4.4).  Every refresh_interval cycles it queues a   *)
(* refresh in the channel state: an all-bank REFRESH of the next rank in   *)
(* round-robin order, or a REFRESH_BANK of the next bank.                  *)
(*                                                                         *)
(* The engine state is a record [countdown, next_rank, next_bg, next_bank] *)
(* where countdown is the number of cycles until the next request.         *)
(***************************************************************************)
EXTENDS ChannelState

CONSTANTS
  RefreshPolicy,    \* "RANK_LEVEL_STAGGERED" or "BANK_LEVEL_STAGGERED"
  RefreshInterval   \* tREFI (tREFIb for the bank-level policy), in cycles

ASSUME /\ RefreshPolicy \in {"RANK_LEVEL_STAGGERED", "BANK_LEVEL_STAGGERED"}
       /\ RefreshInterval \in Nat \ {0}

\* The first request comes at cycle refresh_interval, never at cycle 0.
InitRefresh ==
  [countdown |-> RefreshInterval, next_rank |-> 0, next_bg |-> 0, next_bank |-> 0]

\* Refresh::IterateNext: advance the round-robin cursor (bank, then
\* bankgroup, then rank for the bank-level policy; rank otherwise).
IterateNext(rf) ==
  IF RefreshPolicy = "RANK_LEVEL_STAGGERED"
  THEN [rf EXCEPT !.next_rank = (@ + 1) % Cardinality(Ranks)]
  ELSE LET bk == (rf.next_bank + 1) % Cardinality(BanksPerGroup)
           bg == IF bk = 0 THEN (rf.next_bg + 1) % Cardinality(BankGroups) ELSE rf.next_bg
           rk == IF bk = 0 /\ bg = 0 THEN (rf.next_rank + 1) % Cardinality(Ranks)
                 ELSE rf.next_rank
       IN [rf EXCEPT !.next_rank = rk, !.next_bg = bg, !.next_bank = bk]

\* Fault-injection variant of InsertRefresh: a rank in self-refresh is not
\* skipped.
InsertRefreshIntoSref(rf, cs) ==
  <<IterateNext(rf),
    IF RefreshPolicy = "RANK_LEVEL_STAGGERED"
    THEN RankNeedRefresh(cs, rf.next_rank, TRUE)
    ELSE BankNeedRefresh(cs, rf.next_rank, rf.next_bg, rf.next_bank, TRUE)>>

\* Refresh::InsertRefresh: queue the request at the cursor, then advance it.
\* A rank in self-refresh refreshes itself and takes no REFRESH (spec.md
\* sec. 3, a bank in SREF accepts only SREF_EXIT): its turn is skipped.
InsertRefresh(rf, cs) ==
  <<IterateNext(rf),
    IF IsRankSelfRefreshing(cs, rf.next_rank) THEN cs
    ELSE IF RefreshPolicy = "RANK_LEVEL_STAGGERED"
    THEN RankNeedRefresh(cs, rf.next_rank, TRUE)
    ELSE BankNeedRefresh(cs, rf.next_rank, rf.next_bg, rf.next_bank, TRUE)>>

\* Refresh::ClockTick: at every multiple of the interval (clk > 0) a
\* request is inserted; returns the new <<engine, channel state>>.
RefreshClockTick(rf, cs) ==
  IF rf.countdown = 0
  THEN LET res == InsertRefresh(rf, cs)
       IN <<[res[1] EXCEPT !.countdown = RefreshInterval - 1], res[2]>>
  ELSE <<[rf EXCEPT !.countdown = @ - 1], cs>>
=============================================================================
