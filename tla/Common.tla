------------------------------- MODULE Common -------------------------------
(***************************************************************************)
(* Device geometry, addresses and commands shared by every component of    *)
(* the DRAM core (common.h and configuration.h of the repository; neither   *)
(* file is among the sources, so these definitions follow spec.md, sec. 3). *)
(*                                                                         *)
(* Time is kept relative throughout the project: a timestamp "earliest     *)
(* legal cycle" or "complete cycle" is stored as the number of cycles left  *)
(* until it is reached, and every controller tick decrements it down to 0.  *)
(* Only comparisons "clk >= t" are made on these timestamps in the code, so *)
(* the relative form is exact and keeps the state space finite.            *)
(***************************************************************************)
EXTENDS Integers, Sequences, FiniteSets

CONSTANTS
  Ranks,          \* 0..ranks-1
  BankGroups,     \* 0..bankgroups-1
  BanksPerGroup,  \* 0..banks_per_group-1
  Rows,           \* row indices used by the addresses below
  Columns,        \* column indices used by the addresses below
  Addr,           \* host (hex) addresses, model values
  NoAddr,         \* hex_addr -1 of refresh and self-refresh commands
  AddressMapping  \* Config::AddressMapping: Addr -> location record

ASSUME /\ Ranks = 0..(Cardinality(Ranks) - 1)
       /\ BankGroups = 0..(Cardinality(BankGroups) - 1)
       /\ BanksPerGroup = 0..(Cardinality(BanksPerGroup) - 1)
       /\ NoAddr \notin Addr

\* config_.banks: banks per rank
NumBanks == Cardinality(BankGroups) * Cardinality(BanksPerGroup)

\* A bank of the channel, as the triple (rank, bankgroup, bank).
BankIds == Ranks \X BankGroups \X BanksPerGroup

Location == [rank: Ranks, bankgroup: BankGroups, bank: BanksPerGroup,
             row: Rows, column: Columns]
ASSUME AddressMapping \in [Addr -> Location]

\* CommandType; "SIZE" is the code's marker for "no command" (Command()).
CommandType == {"READ", "READ_PRECHARGE", "WRITE", "WRITE_PRECHARGE",
                "ACTIVATE", "PRECHARGE", "REFRESH", "REFRESH_BANK",
                "SREF_ENTER", "SREF_EXIT"}
ReadTypes  == {"READ", "READ_PRECHARGE"}
WriteTypes == {"WRITE", "WRITE_PRECHARGE"}

\* Command(cmd_type, addr, hex_addr); -1 fields of Address are kept as -1.
Command == [type: CommandType \cup {"SIZE"},
            rank: Ranks \cup {-1}, bankgroup: BankGroups \cup {-1},
            bank: BanksPerGroup \cup {-1}, row: Rows \cup {-1},
            column: Columns \cup {-1}, hex: Addr \cup {NoAddr}]

MakeCommand(type, loc, hex) ==
  [type |-> type, rank |-> loc.rank, bankgroup |-> loc.bankgroup,
   bank |-> loc.bank, row |-> loc.row, column |-> loc.column, hex |-> hex]

NoLocation == [rank |-> -1, bankgroup |-> -1, bank |-> -1, row |-> -1,
               column |-> -1]
InvalidCommand == MakeCommand("SIZE", NoLocation, NoAddr)

IsValid(c)     == c.type # "SIZE"
IsRead(c)      == c.type \in ReadTypes
IsWrite(c)     == c.type \in WriteTypes
IsReadWrite(c) == IsRead(c) \/ IsWrite(c)
IsRefresh(c)   == c.type \in {"REFRESH", "REFRESH_BANK"}
IsRankCMD(c)   == c.type \in {"REFRESH", "SREF_ENTER", "SREF_EXIT"}

BankOf(c) == <<c.rank, c.bankgroup, c.bank>>

\* Position of a bank inside its rank, the order in which the code's nested
\* bankgroup/bank loops visit banks.
BankIndexInRank(g, b) == g * Cardinality(BanksPerGroup) + b

\* The least j in 1..n with P(j), 0 if there is none: the first hit of a
\* front-to-back scan.
FirstIndex(n, P(_)) ==
  IF \E j \in 1..n : P(j)
  THEN CHOOSE j \in 1..n : P(j) /\ \A k \in 1..(j - 1) : ~P(k)
  ELSE 0
=============================================================================
