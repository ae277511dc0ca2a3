---------------------------- MODULE MCController ----------------------------
(***************************************************************************)
(* Model-checking instance of Controller: one rank, one bankgroup of two   *)
(* banks, three addresses -- a1 and a2 in different rows of bank 0 (a row  *)
(* conflict) and a3 in bank 1 -- and the timings of MCCommon.              *)
(***************************************************************************)
EXTENDS Controller, MCCommon, TLC

CONSTANTS a1, a2, a3

MCAddressMapping == (a1 :> Loc(0, 0)) @@ (a2 :> Loc(0, 1)) @@ (a3 :> Loc(1, 0))

\* a1 and a2 alone, in one bank.
MCAddressMappingOneBank == (a1 :> Loc(0, 0)) @@ (a2 :> Loc(0, 1))
\* The state as the controller's control sees it.  Ids, written versions
\* and the callback counts are ghosts for the refinement and the
\* completion properties: no guard of the controller reads them (a READ
\* retires the pending reads of its address, which the ids only name), so
\* states that differ in them alone have the same futures for a property
\* of the channel state and the command queues.
ControlOf(q) == [k \in DOMAIN q |-> [addr |-> q[k].addr, is_write |-> q[k].is_write, due |-> q[k].due]]
ControlView ==
  <<channel_state, cmd_queue, refresh, ControlOf(unified_queue), ControlOf(read_queue),
    ControlOf(write_buffer), ControlOf(pending_rd_q), ControlOf(pending_wr_q),
    ControlOf(return_queue), write_draining, aborted, next_id>>
=============================================================================
