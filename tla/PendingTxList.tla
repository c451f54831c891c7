---------------------------- MODULE PendingTxList ----------------------------
(***************************************************************************)
(* The list of pending transmissions (src/src/p2G4_pending_tx_list.c):     *)
(* for each device, what its transmitter is doing, as a set of TXS_ flags, *)
(* and the number of the highest device that is transmitting.              *)
(*                                                                         *)
(* The change counter ctr, which only the caches of the channel wrapper    *)
(* read, is left out.                                                      *)
(***************************************************************************)
EXTENDS FuncQueue

TXS_NOISE          == "NOISE"
TXS_PACKET_ONGOING == "PACKET_ONGOING"
TXS_PACKET_STARTED == "PACKET_STARTED"
TXS_PACKET_ENDED   == "PACKET_ENDED"

TXS_OFF == {}

TxsFlags == SUBSET {TXS_NOISE, TXS_PACKET_ONGOING, TXS_PACKET_STARTED,
                    TXS_PACKET_ENDED}

(***************************************************************************)
(* A value of max_tx_nbr: a device, or -1 when nobody transmits.           *)
(***************************************************************************)
DevOrNone == Dev \cup {-1}

BSMax(a, b) == IF a >= b THEN a ELSE b
BSMin(a, b) == IF a <= b THEN a ELSE b

txl_register(used, d) == [used EXCEPT ![d] = TXS_OFF]

txl_start_tx(used, d) == [used EXCEPT ![d] = {TXS_NOISE}]

\* Variant: the packet is not marked as ongoing.
txl_start_packet_started(used, d) ==
  [used EXCEPT ![d] = @ \cup {TXS_PACKET_STARTED}]

txl_start_packet(used, d) ==
  [used EXCEPT ![d] = @ \cup {TXS_PACKET_ONGOING, TXS_PACKET_STARTED}]

txl_end_packet(used, d) ==
  [used EXCEPT ![d] = (@ \cup {TXS_PACKET_ENDED}) \ {TXS_PACKET_ONGOING}]

\* Variant: a transmission that is over stays on the air.
txl_clear_not(used, d) == used

txl_clear(used, d) == [used EXCEPT ![d] = TXS_OFF]

(***************************************************************************)
(* m is what the loop of txl_clear() finds, walking down from the device   *)
(* top: the highest device in use, -1 if none is.                          *)
(***************************************************************************)
\* Variant: the loop starts one device too low.
HighestUsedBelow(used, top, m) ==
  /\ m \in DevOrNone
  /\ m # -1 => m < top /\ used[m] # TXS_OFF
  /\ \A i \in Dev : m < i /\ i < top => used[i] = TXS_OFF

HighestUsed(used, top, m) ==
  /\ m \in DevOrNone
  /\ m <= top
  /\ m # -1 => used[m] # TXS_OFF
  /\ \A i \in Dev : m < i /\ i <= top => used[i] = TXS_OFF

PacketOngoing(used, d) == TXS_PACKET_ONGOING \in used[d]
=============================================================================
