----------------------------- MODULE BankState -----------------------------
(***************************************************************************)
(* One bank (src/bankstate.cc): its state, the open row, the row-hit count *)
(* and cmd_timing_, the earliest legal cycle of every command kind, kept    *)
(* relative to the current cycle (0 = legal now).  The class's methods are  *)
(* pure operators on a bank record; ChannelState owns the grid of banks.   *)
(* AbruptExit is the value "FATAL" (a state or a command type): the caller  *)
(* turns it into the controller's abort.                                   *)
(*                                                                         *)
(* The in_serve / serve_end_cycle / activate_by_who / precharge_by_refresh *)
(* fields only feed the bank-parallelism statistics and are left out.      *)
(***************************************************************************)
EXTENDS Common

BankRec == [state: {"OPEN", "CLOSED", "SREF", "FATAL"},
            open_row: Rows \cup {-1},
            row_hit_count: Nat,
            cmd_timing: [CommandType -> Nat]]

\* BankState::BankState
InitBank == [state |-> "CLOSED", open_row |-> -1, row_hit_count |-> 0,
             cmd_timing |-> [k \in CommandType |-> 0]]

\* Fault-injection variant of RequiredType: an open bank answers a refresh
\* with the refresh itself instead of a PRECHARGE.
RequiredTypeRefreshOpenBank(b, cmd) ==
  CASE b.state = "CLOSED" /\ IsReadWrite(cmd) -> "ACTIVATE"
    [] b.state \in {"CLOSED", "OPEN"} /\ cmd.type \in {"REFRESH", "REFRESH_BANK", "SREF_ENTER"}
         -> cmd.type
    [] b.state = "OPEN" /\ IsReadWrite(cmd) ->
         IF cmd.row = b.open_row THEN cmd.type ELSE "PRECHARGE"
    [] b.state = "SREF" /\ IsReadWrite(cmd) -> "SREF_EXIT"
    [] OTHER -> "FATAL"

\* The switch of BankState::GetReadyCommand: the command that must execute
\* next to make progress towards cmd; "FATAL" for the AbruptExit cases.
RequiredType(b, cmd) ==
  CASE b.state = "CLOSED" /\ IsReadWrite(cmd) -> "ACTIVATE"
    [] b.state = "CLOSED" /\ cmd.type \in {"REFRESH", "REFRESH_BANK", "SREF_ENTER"}
         -> cmd.type
    [] b.state = "OPEN" /\ IsReadWrite(cmd) ->
         IF cmd.row = b.open_row THEN cmd.type ELSE "PRECHARGE"
    [] b.state = "OPEN" /\ cmd.type \in {"REFRESH", "REFRESH_BANK", "SREF_ENTER"}
         -> "PRECHARGE"
    [] b.state = "SREF" /\ IsReadWrite(cmd) -> "SREF_EXIT"
    [] OTHER -> "FATAL"

\* BankState::GetReadyCommand: the required command with cmd's address if
\* its earliest legal cycle has come, Command() otherwise.
GetReadyCommand(b, cmd) ==
  LET t == RequiredType(b, cmd) IN
  IF t = "FATAL" THEN [cmd EXCEPT !.type = "FATAL"]
  ELSE IF b.cmd_timing[t] = 0 THEN [cmd EXCEPT !.type = t]
  ELSE InvalidCommand

\* BankState::UpdateState: the effect of an issued command on the bank.
UpdateState(b, cmd) ==
  CASE b.state = "OPEN" /\ cmd.type \in {"READ", "WRITE"} ->
         [b EXCEPT !.row_hit_count = @ + 1]
    [] b.state = "OPEN" /\ cmd.type \in {"READ_PRECHARGE", "WRITE_PRECHARGE", "PRECHARGE"} ->
         [b EXCEPT !.state = "CLOSED", !.open_row = -1, !.row_hit_count = 0]
    [] b.state = "CLOSED" /\ cmd.type \in {"REFRESH", "REFRESH_BANK"} -> b
    [] b.state = "CLOSED" /\ cmd.type = "ACTIVATE" ->
         [b EXCEPT !.state = "OPEN", !.open_row = cmd.row]
    [] b.state = "CLOSED" /\ cmd.type = "SREF_ENTER" -> [b EXCEPT !.state = "SREF"]
    [] b.state = "SREF" /\ cmd.type = "SREF_EXIT" -> [b EXCEPT !.state = "CLOSED"]
    [] OTHER -> [b EXCEPT !.state = "FATAL"]

\* BankState::UpdateTiming(cmd_type, clk + delay): max with the old bound.
UpdateTiming(b, kind, delay) ==
  [b EXCEPT !.cmd_timing[kind] = IF @ >= delay THEN @ ELSE delay]

\* One cycle passes: every relative bound moves one step closer to 0.
BankTimeAdvance(b) ==
  [b EXCEPT !.cmd_timing = [k \in CommandType |-> IF @[k] > 0 THEN @[k] - 1 ELSE 0]]
=============================================================================
