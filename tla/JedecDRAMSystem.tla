--------------------------- MODULE JedecDRAMSystem ---------------------------
(***************************************************************************)
(* JedecDRAMSystem of src/dram_system.cc: one controller per channel, the  *)
(* transactions routed to a channel by the channel bits of their address   *)
(* (GetChannel), and one system cycle that first drains every channel's    *)
(* done transactions to the callbacks and then ticks every controller.     *)
(*                                                                         *)
(* Each controller is a record of ControllerOps; ctrls maps each channel   *)
(* to its record.  Addresses are hex addresses (natural numbers), so       *)
(* GetChannel's shifts and mask act on them as in the code.  The channels  *)
(* share nothing but the tick, the host and the ghost transaction ids.     *)
(***************************************************************************)
EXTENDS ControllerOps, Bitwise

CONSTANTS
  NumChannels,  \* config_.channels
  ShiftBits,    \* config_.shift_bits
  ChPos,        \* config_.ch_pos
  ChMask,       \* config_.ch_mask
  HostHonoursBackpressure  \* the host asks WillAcceptTransaction first

Channels == 0..NumChannels - 1

\* BaseDRAMSystem::GetChannel
GetChannel(hex_addr) == shiftR(shiftR(hex_addr, ShiftBits), ChPos) & ChMask

ASSUME Addr \subseteq Nat /\ \A a \in Addr : GetChannel(a) \in Channels
ASSUME HostHonoursBackpressure \in BOOLEAN

VARIABLES
  ctrls,      \* ctrls_: the controller of each channel
  aborted,    \* AbruptExit / exit(1) in some controller
  next_id,    \* ghost: id of the next transaction
  callbacks   \* ghost: callbacks run, per id

vars == <<ctrls, aborted, next_id, callbacks>>

\* JedecDRAMSystem::JedecDRAMSystem: one fresh controller per channel.
Init ==
  /\ ctrls = [c \in Channels |-> InitCtrl]
  /\ aborted = FALSE
  /\ next_id = 1
  /\ callbacks = [i \in Ids |-> 0]

\* JedecDRAMSystem::WillAcceptTransaction: asks the address's channel.
WillAccept(hex_addr, is_write) ==
  WillAcceptTransaction(ctrls[GetChannel(hex_addr)], is_write)

\* AddTransaction's "if (ok)": the channel's WillAcceptTransaction.
Admitted(hex_addr, is_write) == WillAccept(hex_addr, is_write)

\* JedecDRAMSystem::AddTransaction: the transaction goes to the controller
\* of its channel if that controller accepts it.  spec.md asks the host to
\* honour WillAcceptTransaction; with HostHonoursBackpressure FALSE the host
\* calls regardless, in a release build (assert(ok) compiled out): a call
\* that is not ok returns false and changes nothing the model keeps, a
\* stuttering step, so it is the disabled case of this action.
AddTransaction(hex_addr, is_write) ==
  /\ ~aborted
  /\ next_id <= MaxTrans
  /\ HostHonoursBackpressure => WillAccept(hex_addr, is_write)
  /\ Admitted(hex_addr, is_write)
  /\ ctrls' = [ctrls EXCEPT ![GetChannel(hex_addr)] =
                 AddTransactionTo(@, NewTransaction(@, next_id, hex_addr, is_write))]
  /\ next_id' = next_id + 1
  /\ UNCHANGED <<aborted, callbacks>>

\* Fault-injection variant of Callbacks: the drain loop stops one channel
\* short (i < ctrls_.size() - 1); the last channel's done transactions
\* leave its return queue without a callback.
CallbacksShort(C, i) ==
  Cardinality(UNION {{<<c, k>> : k \in {k \in DOMAIN DoneTrans(C[c].return_queue) :
                                        DoneTrans(C[c].return_queue)[k].id = i}} :
                     c \in 0..NumChannels - 2})

\* The callbacks of transaction i when every channel drains its done
\* transactions (ReturnDoneTrans until it finds nothing).
Callbacks(C, i) ==
  Cardinality(UNION {{<<c, k>> : k \in {k \in DOMAIN DoneTrans(C[c].return_queue) :
                                        DoneTrans(C[c].return_queue)[k].id = i}} :
                     c \in Channels})

\* JedecDRAMSystem::ClockTick: every channel's done transactions go to the
\* callbacks, then every controller ticks (Controller::ClockTick).
Tick ==
  /\ ~aborted
  /\ \E T \in {[c \in Channels |->
                  ClockTick([ctrls[c] EXCEPT !.return_queue = NotDoneTrans(@)])]} :
       /\ ctrls' = T
       /\ aborted' = \E c \in Channels : T[c].fatal
  /\ callbacks' = [i \in Ids |->
                     IF callbacks[i] + Callbacks(ctrls, i) > 2 THEN 2
                     ELSE callbacks[i] + Callbacks(ctrls, i)]
  /\ UNCHANGED next_id

Next ==
  \/ \E a \in Addr, w \in BOOLEAN : AddTransaction(a, w)
  \/ Tick

\* The main loop ticks the system every cycle; the host owes nothing.  As
\* in Controller, the ticks are the steps that leave next_id alone.
TickStep == next_id' = next_id
TickFairness == <>[](~aborted) => []<><<TickStep>>_vars

Spec == Init /\ [][Next]_vars /\ TickFairness

----------------------------------------------------------------------------
(* Properties                                                              *)

\* Refinement mapping: what the system owes is what its controllers owe;
\* the latest version of an address is kept by the controller of its
\* channel.
OwedAll == UNION {OwedOf(ctrls[c]) : c \in Channels}
LatestAll == [a \in Addr |-> ctrls[GetChannel(a)].latest[a]]

AM == INSTANCE AbstractMemory WITH latest <- LatestAll, owed <- OwedAll, done <- callbacks

\* The whole system implements the abstract memory: routing each address to
\* one controller by its channel bits, draining every channel's done
\* transactions before ticking the controllers, every accepted transaction
\* is handed back once, eventually, with the data of the last write to its
\* address accepted before it.
Refines == AM!Spec

=============================================================================
