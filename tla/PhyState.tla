------------------------------ MODULE PhyState -------------------------------
(***************************************************************************)
(* The state of the Phy (the static variables of src/src/p2G4_main.c, the  *)
(* function queue and the Tx list) and the operations that several of its  *)
(* handlers share: reading the next request of a device, and reevaluating  *)
(* an abort.                                                               *)
(*                                                                         *)
(* An operation that would stop the program with bs_trace_error_*() sets   *)
(* phase to "error".                                                       *)
(***************************************************************************)
EXTENDS PhyTypes

VARIABLES
  current_time,      \* the simulated time, in microseconds
  nbr_active_devs,   \* devices still connected, 0 once one has terminated
  phase,             \* "boot", "running", "ended" or "error"
  boot_d,            \* the device the boot loop of main() comes to next
  next_d,            \* the device whose event is the next one
  fq,                \* the function queue
  used,              \* tx_l_c.used[]
  max_tx_nbr,        \* txl_get_max_tx_nbr()
  tx_list,           \* tx_l_c.tx_list[].tx_s
  rx_a,              \* the receptions
  cca_a,             \* the CCA searches
  sent               \* the messages sent to devices in the last step

vars == <<current_time, nbr_active_devs, phase, boot_d, next_d, fq, used,
          max_tx_nbr, tx_list, rx_a, cca_a, sent>>

TypeOK ==
  /\ current_time \in Time
  /\ nbr_active_devs \in Nat
  /\ phase \in {"boot", "running", "ended", "error"}
  /\ boot_d \in 0 .. n_devs
  /\ next_d \in Dev
  /\ fq \in [Dev -> [time : Time, index : f_index_t]]
  /\ used \in [Dev -> TxsFlags]
  /\ max_tx_nbr \in DevOrNone
  /\ tx_list \in [Dev -> Txv2]
  /\ rx_a \in [Dev -> rx_status_t]
  /\ cca_a \in [Dev -> cca_status_t]
  /\ sent \in Seq(Message)

Init ==
  /\ current_time = 0
  /\ nbr_active_devs = n_devs
  /\ phase = "boot"
  /\ boot_d = 0
  /\ next_d = 0
  /\ fq = fq_init
  /\ used = [d \in Dev |-> TXS_OFF]
  /\ max_tx_nbr = -1
  /\ tx_list = [d \in Dev |-> NoTx]
  /\ rx_a = [d \in Dev |-> NoRx]
  /\ cca_a = [d \in Dev |-> NoCca]
  /\ sent = <<>>

(***************************************************************************)
(* Messages.  Every one is sent in the microsecond it reports as the end.  *)
(***************************************************************************)
Msg(d, m, status) ==
  [to |-> d, msg |-> m, status |-> status, end_time |-> current_time]

(***************************************************************************)
(* The handler stops the program after the messages msgs: what it changed  *)
(* before no longer matters.                                               *)
(***************************************************************************)
Exit(msgs) ==
  /\ phase' = "error"
  /\ sent' = msgs
  /\ UNCHANGED <<nbr_active_devs, fq, used, max_tx_nbr, tx_list, rx_a, cca_a>>

------------------------------------------------------------------------------
(***************************************************************************)
(* The checks a request must pass (PAST_CHECK, check_valid_abort() and the *)
(* prepare_*() functions).                                                 *)
(***************************************************************************)
PAST_CHECK(start) == current_time < start

check_valid_abort(abort, start_time) ==
  /\ current_time < abort.abort_time
  /\ current_time < abort.recheck_time
  /\ start_time <= abort.abort_time
  /\ start_time <= abort.recheck_time

ValidTx(t) ==
  /\ PAST_CHECK(t.start_tx_time)
  /\ t.start_tx_time < t.end_tx_time
  /\ t.start_packet_time < t.end_tx_time
  /\ t.start_packet_time < t.end_packet_time
  /\ check_valid_abort(t.abort, t.start_tx_time)

ValidRx(r) ==
  /\ PAST_CHECK(r.start_time)
  /\ check_valid_abort(r.abort, r.start_time)
  /\ ErrorCalcSupported(r.error_calc_rate)

ValidRxv2(r) ==
  /\ Len(r.phy_address) <= P2G4_RXV2_MAX_ADDRESSES
  /\ r.resp_type = 0
  /\ r.pream_and_addr_duration > 0 =>
       r.acceptable_pre_truncation < r.pream_and_addr_duration
  /\ r.acceptable_pre_truncation <= r.pream_and_addr_duration
  /\ ValidRx(r)

ValidCca(c) ==
  /\ PAST_CHECK(c.start_time)
  /\ check_valid_abort(c.abort, c.start_time)
  /\ c.scan_period # 0
  /\ c.stop_when_found <= 3

ValidRequest(q) ==
  /\ q.msg # "OTHER"
  /\ q.msg = "WAIT"     => current_time <= q.time
  /\ q.msg = "RSSIMEAS" => PAST_CHECK(q.time)
  /\ q.msg = "TX"       => ValidTx(map_txv1_to_txv2(q.body))
  /\ q.msg = "TXV2"     => ValidTx(q.body)
  /\ q.msg = "RX"       => ValidRx(map_rxv1_to_rxv2(q.body))
  /\ q.msg = "RXV2"     => ValidRxv2(q.body)
  /\ q.msg = "CCA_MEAS" => ValidCca(q.body)

------------------------------------------------------------------------------
(***************************************************************************)
(* The last microsecond of the scan of a reception that starts.            *)
(***************************************************************************)
ScanEndUnlimited(r) ==
  IF r.scan_duration < UINT32_MAX
  THEN r.start_time + r.scan_duration - 1
  ELSE TIME_NEVER - 1

\* Variant: the abort does not limit the scan.
ScanEndNoAbort(r) == ScanEndUnlimited(r)

ScanEnd(r) ==
  IF r.abort.abort_time < ScanEndUnlimited(r)
  THEN Before(r.abort.abort_time)
  ELSE ScanEndUnlimited(r)

(***************************************************************************)
(* The status of a reception that starts, from the status rx of the last   *)
(* one of the device: a prelocked reception keeps the transmitter of it.   *)
(***************************************************************************)
StartedRx(rx, r, v1) ==
  [rx EXCEPT !.rx_s = r,
             !.v1_request = v1,
             !.scan_end = ScanEnd(r),
             !.sync_end = 0,
             !.header_end = 0,
             !.payload_end = 0,
             !.tx_nbr = IF r.prelocked_tx THEN @ ELSE -1,
             !.biterrors = 0,
             !.tx_lost = FALSE,
             !.rx_time_stamp = 0,
             !.status = "none",
             !.errorspercalc = ErrorCalc(r.error_calc_rate).errorspercalc,
             !.rate_uspercalc = ErrorCalc(r.error_calc_rate).rate_uspercalc,
             !.us_to_next_calc = 0]

\* Variant: the scan is one microsecond too long.
StartedCcaLong(c) ==
  [scan_end |-> c.start_time + c.scan_duration,
   next_meas |-> c.start_time, n_meas |-> 0,
   rssi_overthreshold |-> FALSE, mod_found |-> FALSE, req |-> c]

StartedCca(c) ==
  [scan_end |-> c.start_time + c.scan_duration - 1,
   next_meas |-> c.start_time, n_meas |-> 0,
   rssi_overthreshold |-> FALSE, mod_found |-> FALSE, req |-> c]

prepare_tx(d, u, t) ==
  /\ used' = txl_register(u, d)
  /\ tx_list' = [tx_list EXCEPT ![d] = t]
  /\ fq' = fq_add(fq, t.start_tx_time, Tx_Start, d)

prepare_rx(d, rx, r, v1) ==
  /\ rx_a' = [rx_a EXCEPT ![d] = StartedRx(rx, r, v1)]
  /\ fq' = fq_add(fq, r.start_time, Rx_Search_start, d)

prepare_CCA(d, c) ==
  /\ cca_a' = [cca_a EXCEPT ![d] = StartedCca(c)]
  /\ fq' = fq_add(fq, c.start_time, Rx_CCA_meas, d)

NoTxReq(u)      == used' = u /\ UNCHANGED tx_list
NoRxReq(d, rx)  == rx_a' = [rx_a EXCEPT ![d] = rx]
NoCcaReq(d, cca) == cca_a' = [cca_a EXCEPT ![d] = cca]

(***************************************************************************)
(* What a valid request q changes: a device that leaves, one that waits,   *)
(* one that starts a transmission, a reception or a CCA search.            *)
(***************************************************************************)
Leaves(q, d) ==
  \/ /\ q.msg = "DISCONNECT"
     /\ nbr_active_devs' = nbr_active_devs - 1
     /\ fq' = fq_remove(fq, d)
  \/ /\ q.msg = "TERMINATE"
     /\ nbr_active_devs' = 0
     /\ UNCHANGED fq

Waits(q, d) ==
  \/ q.msg = "WAIT" /\ fq' = fq_add(fq, q.time, Wait_Done, d)
  \/ q.msg = "RSSIMEAS" /\ fq' = fq_add(fq, q.time, RSSI_Meas, d)

Transmits(q, d, u) ==
  \/ q.msg = "TX" /\ prepare_tx(d, u, map_txv1_to_txv2(q.body))
  \/ q.msg = "TXV2" /\ prepare_tx(d, u, q.body)

Receives(q, d, rx) ==
  \/ q.msg = "RX" /\ prepare_rx(d, rx, map_rxv1_to_rxv2(q.body), TRUE)
  \/ q.msg = "RXV2" /\ prepare_rx(d, rx, q.body, FALSE)

Accepted(q, d, u, rx, cca) ==
  \/ Leaves(q, d) /\ NoTxReq(u) /\ NoRxReq(d, rx) /\ NoCcaReq(d, cca)
  \/ /\ Waits(q, d) /\ NoTxReq(u) /\ NoRxReq(d, rx) /\ NoCcaReq(d, cca)
     /\ UNCHANGED nbr_active_devs
  \/ /\ Transmits(q, d, u) /\ NoRxReq(d, rx) /\ NoCcaReq(d, cca)
     /\ UNCHANGED nbr_active_devs
  \/ /\ Receives(q, d, rx) /\ NoTxReq(u) /\ NoCcaReq(d, cca)
     /\ UNCHANGED nbr_active_devs
  \/ /\ q.msg = "CCA_MEAS" /\ prepare_CCA(d, q.body)
     /\ NoTxReq(u) /\ NoRxReq(d, rx)
     /\ UNCHANGED nbr_active_devs

(***************************************************************************)
(* p2G4_handle_next_request(): device d, which has just been sent the      *)
(* messages msgs, makes its next request.  u, m, rx and cca are the Tx     *)
(* list's flags and highest device, and the reception and CCA statuses of  *)
(* d, as the handler that calls it leaves them.                            *)
(***************************************************************************)
p2G4_handle_next_request(d, u, m, rx, cca, msgs) ==
  \E q \in Requests(d, current_time) :
    \/ ~ValidRequest(q) /\ Exit(msgs)
    \/ /\ ValidRequest(q)
       /\ Accepted(q, d, u, rx, cca)
       /\ sent' = msgs
       /\ max_tx_nbr' = m
       /\ UNCHANGED phase

------------------------------------------------------------------------------
(***************************************************************************)
(* pick_and_validate_abort(): the device is asked for a new abort; it may  *)
(* first ask for immediate RSSI measurements, each answered at once.       *)
(***************************************************************************)
Reevaluation(d, n_imm) ==
  <<Msg(d, "ABORTREEVAL", "none")>>
    \o [k \in 1 .. n_imm |-> Msg(d, "IMMRSSI_RRSI_DONE", "none")]

\* Variant: the recheck is not validated.
pick_abort_tail_only(abort) == current_time <= abort.abort_time

pick_abort_tail(abort) ==
  current_time <= abort.abort_time /\ current_time <= abort.recheck_time

NewAborts(d) ==
  {reply.abort : reply \in {r \in AbortReplies(d, current_time) :
                              r.msg = "RERESP_ABORTREEVAL"
                                /\ pick_abort_tail(r.abort)}}

AbortRefused(d) ==
  \E reply \in AbortReplies(d, current_time) :
    \/ reply.msg = "BROKEN"
    \/ reply.msg = "RERESP_ABORTREEVAL" /\ ~pick_abort_tail(reply.abort)

(***************************************************************************)
(* The device leaves instead of answering.  An unexpected answer counts as *)
(* a termination.                                                          *)
(***************************************************************************)
DeviceLeaves(d) ==
  \E reply \in AbortReplies(d, current_time) :
    \/ reply.msg = "DISCONNECT" /\ nbr_active_devs' = nbr_active_devs - 1
    \/ reply.msg \in {"TERMINATE", "OTHER"} /\ nbr_active_devs' = 0
=============================================================================
