----------------------------- MODULE PhyProtocol -----------------------------
(***************************************************************************)
(* The Phy implements DeviceProtocol: the exchange each device sees, as a  *)
(* refinement of what it was promised.                                     *)
(***************************************************************************)
EXTENDS Phy

RxRequest(d) == IF rx_a[d].v1_request THEN "RX" ELSE "RXV2"

(***************************************************************************)
(* What a device waits for follows from its event.  A request has started  *)
(* when its first event is over; a reception that lost its packet has the  *)
(* event of a new one.                                                     *)
(***************************************************************************)
Pending(d) ==
  LET Waiting(request, stage) == [request |-> request, stage |-> stage]
      i == fq[d].index
  IN CASE ~On                 -> Waiting("none", "over")
       [] On /\ boot_d <= d   -> Waiting("none", "new")
       [] On /\ boot_d > d    ->
          CASE i = Wait_Done  -> Waiting("WAIT", "asked")
            [] i = RSSI_Meas  -> Waiting("RSSIMEAS", "asked")
            [] i = Rx_CCA_meas ->
                 Waiting("CCA_MEAS", IF cca_a[d].n_meas = 0 THEN "asked" ELSE "started")
            [] i = Tx_Start   -> Waiting("TX", "asked")
            [] i \in {Tx_Abort_Reeval, Tx_Packet_Start, Tx_Packet_End, Tx_End} ->
                 Waiting("TX", "started")
            [] i = Rx_Search_start -> Waiting(RxRequest(d), "asked")
            [] i \in {Rx_Search_reeval, Rx_Found, Rx_Sync} ->
                 Waiting(RxRequest(d), "started")
            [] i \in {Rx_Header, Rx_Payload} -> Waiting(RxRequest(d), "found")
            [] OTHER          -> Waiting("none", "gone")

(***************************************************************************)
(* What it heard are the messages of the step, which are all for one       *)
(* device (two devices that heard something would break DeviceProtocol).   *)
(***************************************************************************)
Heard(d) ==
  IF \E k \in DOMAIN sent : sent[k].to = d
  THEN [k \in DOMAIN sent |-> [msg |-> sent[k].msg, status |-> sent[k].status]]
  ELSE <<>>

Protocol ==
  INSTANCE DeviceProtocol
    WITH pending <- [d \in Dev |-> Pending(d)], heard <- [d \in Dev |-> Heard(d)]

(***************************************************************************)
(* Whatever interleaves, aborts, leaves or is lost, each device sees the   *)
(* documented exchange: every request is answered once, with the response  *)
(* of its kind, its API version and a status that fits what it heard       *)
(* before.                                                                 *)
(***************************************************************************)
KeepsProtocol == Protocol!Spec
=============================================================================
