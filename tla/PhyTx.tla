-------------------------------- MODULE PhyTx --------------------------------
(***************************************************************************)
(* The handlers of a transmission (f_tx_*() of src/src/p2G4_main.c), and   *)
(* the activation of the receivers that may hear the packet it starts.     *)
(***************************************************************************)
EXTENDS PhyState

(***************************************************************************)
(* A reception rx may still catch the packet of t, now.  The subtraction   *)
(* of the code is unsigned: a packet that starts later never matches.      *)
(***************************************************************************)
tx_and_rx_match(t, rx) ==
  /\ t.radio_params = rx.rx_s.radio_params
  /\ t.start_packet_time <= current_time
  /\ current_time - t.start_packet_time <= rx.rx_s.acceptable_pre_truncation
  /\ \E i \in DOMAIN rx.rx_s.phy_address :
       rx.rx_s.phy_address[i] = t.phy_address

(***************************************************************************)
(* find_and_activate_rx(): the receivers the packet of t moves to Rx_Found *)
(* and what that makes of the receptions and of the queue.                 *)
(***************************************************************************)
Activated(t) ==
  {x \in Dev : rx_a[x].state = Searching /\ tx_and_rx_match(t, rx_a[x])}

ActivatedRx(t, d) ==
  [x \in Dev |->
     IF x \in Activated(t)
     THEN [rx_a[x] EXCEPT !.tx_nbr = d, !.state = NotSearching]
     ELSE rx_a[x]]

ActivatedFq(t) ==
  [x \in Dev |->
     IF x \in Activated(t) THEN Event(current_time, Rx_Found) ELSE fq[x]]

(***************************************************************************)
(* tx_schedule_next_event(): the event that a transmission t whose flags   *)
(* are u waits for next.                                                   *)
(***************************************************************************)
\* Variant: the abort is forgotten.
TxEndtNoAbort(t) == t.end_tx_time

\* Variant: the transmission ends with its packet.
TxEndtOfPacket(t) == BSMin(t.end_packet_time, t.abort.abort_time)

TxEndt(t) == BSMin(t.end_tx_time, t.abort.abort_time)

Packet_start_time(t, u) ==
  IF TXS_PACKET_ONGOING \in u THEN TIME_NEVER ELSE t.start_packet_time

Packet_end_time(t, u) ==
  IF TXS_PACKET_ONGOING \in u /\ TXS_PACKET_ENDED \notin u
  THEN t.end_packet_time
  ELSE TIME_NEVER

tx_schedule_next_event(t, u) ==
  LET NextTime ==
        BSMin(BSMin(Packet_start_time(t, u), TxEndt(t)), Packet_end_time(t, u))
  IN IF NextTime >= t.abort.recheck_time
     THEN Event(t.abort.recheck_time, Tx_Abort_Reeval)
     ELSE IF NextTime = Packet_start_time(t, u)
     THEN Event(TxEndt(t), Tx_Packet_Start)
     ELSE IF NextTime = TxEndt(t)
     THEN Event(TxEndt(t), Tx_End)
     ELSE Event(TxEndt(t), Tx_Packet_End)

------------------------------------------------------------------------------
f_tx_start(d) ==
  LET t       == tx_list[d]
      started == t.start_packet_time <= current_time
      u       == IF started THEN txl_start_packet(txl_start_tx(used, d), d)
                            ELSE txl_start_tx(used, d)
  IN /\ used' = u
     /\ max_tx_nbr' = BSMax(max_tx_nbr, d)
     /\ rx_a' = IF started THEN ActivatedRx(t, d) ELSE rx_a
     /\ fq' = [IF started THEN ActivatedFq(t) ELSE fq EXCEPT
                 ![d] = tx_schedule_next_event(t, u[d])]
     /\ sent' = <<>>
     /\ UNCHANGED <<nbr_active_devs, phase, tx_list, cca_a>>

f_tx_packet_start(d) ==
  LET t == tx_list[d]
      u == txl_start_packet(used, d)
  IN /\ used' = u
     /\ rx_a' = ActivatedRx(t, d)
     /\ fq' = [ActivatedFq(t) EXCEPT ![d] = tx_schedule_next_event(t, u[d])]
     /\ sent' = <<>>
     /\ UNCHANGED <<nbr_active_devs, phase, max_tx_nbr, tx_list, cca_a>>

f_tx_packet_end(d) ==
  LET u == txl_end_packet(used, d)
  IN /\ used' = u
     /\ fq' = [fq EXCEPT ![d] = tx_schedule_next_event(tx_list[d], u[d])]
     /\ sent' = <<>>
     /\ UNCHANGED <<nbr_active_devs, phase, max_tx_nbr, tx_list, rx_a, cca_a>>

(***************************************************************************)
(* The transmission is off the air before the device makes a new request.  *)
(***************************************************************************)
f_tx_end(d) ==
  \E m \in DevOrNone :
    /\ HighestUsed(txl_clear(used, d), max_tx_nbr, m)
    /\ p2G4_handle_next_request(d, txl_clear(used, d), m, rx_a[d],
                                cca_a[d], <<Msg(d, "TX_END", "none")>>)

f_tx_abort_reeval(d) ==
  \E n_imm \in 0 .. MaxImmRssi :
    \/ AbortRefused(d) /\ Exit(Reevaluation(d, n_imm))
    \/ /\ DeviceLeaves(d)
       /\ used' = txl_clear(used, d)
       /\ \E m \in DevOrNone :
            HighestUsed(txl_clear(used, d), max_tx_nbr, m) /\ max_tx_nbr' = m
       /\ fq' = fq_remove(fq, d)
       /\ sent' = Reevaluation(d, n_imm)
       /\ UNCHANGED <<phase, tx_list, rx_a, cca_a>>
    \/ \E abort \in NewAborts(d) :
         LET t == [tx_list[d] EXCEPT !.abort = abort]
         IN /\ tx_list' = [tx_list EXCEPT ![d] = t]
            /\ fq' = [fq EXCEPT ![d] = tx_schedule_next_event(t, used[d])]
            /\ sent' = Reevaluation(d, n_imm)
            /\ UNCHANGED <<nbr_active_devs, phase, used, max_tx_nbr, rx_a, cca_a>>
=============================================================================
