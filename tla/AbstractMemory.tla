--------------------------- MODULE AbstractMemory ---------------------------
(***************************************************************************)
(* What a memory system promises its host, whatever its controller does   *)
(* inside: every transaction AddTransaction accepts is handed back to its  *)
(* callback exactly once, eventually, and a read hands back the data of   *)
(* the last write to its address accepted before it.                      *)
(*                                                                         *)
(* Data are abstracted to version numbers: latest[a] counts the writes to  *)
(* address a accepted so far, and a read owes the version that was latest  *)
(* when it was accepted.  owed holds the accepted transactions not yet     *)
(* handed back, each with the value it will hand back (0 for a write).     *)
(***************************************************************************)
EXTENDS Naturals, FiniteSets

CONSTANTS Addr, MaxTrans

Ids == 1..MaxTrans

VARIABLES next_id, latest, owed, done

vars == <<next_id, latest, owed, done>>

Request == [id: Ids, addr: Addr, is_write: BOOLEAN, val: Nat]

IdsOf(D) == {t.id : t \in D}

Init ==
  /\ next_id = 1
  /\ latest = [a \in Addr |-> 0]
  /\ owed = {}
  /\ done = [i \in Ids |-> 0]

\* JedecDRAMSystem::AddTransaction: the transaction is owed from now on; a
\* write makes a new version of its address.
Accept(a, is_write) ==
  /\ next_id <= MaxTrans
  /\ owed' = owed \cup {[id |-> next_id, addr |-> a, is_write |-> is_write,
                          val |-> IF is_write THEN 0 ELSE latest[a]]}
  /\ latest' = IF is_write THEN [latest EXCEPT ![a] = @ + 1] ELSE latest
  /\ next_id' = next_id + 1
  /\ UNCHANGED done

\* JedecDRAMSystem::ClockTick: the callbacks of some owed transactions run,
\* each with the value it owes.
Return(D) ==
  /\ D # {}
  /\ D \subseteq owed
  /\ owed' = owed \ D
  /\ done' = [i \in Ids |-> IF i \in IdsOf(D) THEN done[i] + 1 ELSE done[i]]
  /\ UNCHANGED <<next_id, latest>>

Next ==
  \/ \E a \in Addr, w \in BOOLEAN : Accept(a, w)
  \/ \E D \in SUBSET owed : Return(D)

\* Transaction i is handed back in this step.
Returns(i) == \E D \in SUBSET owed : i \in IdsOf(D) /\ Return(D)

\* The host owes nothing; the memory owes every transaction it accepted.
Spec == Init /\ [][Next]_vars /\ \A i \in Ids : WF_vars(Returns(i))

=============================================================================
