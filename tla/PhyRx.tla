-------------------------------- MODULE PhyRx --------------------------------
(***************************************************************************)
(* The handlers of a reception (f_rx_*() of src/src/p2G4_main.c).          *)
(*                                                                         *)
(* What the channel and the modem decide is nondeterministic: whether the  *)
(* receiver can synchronise to a packet, and how many bit errors there     *)
(* are each time that errors are calculated, up to errorspercalc.          *)
(***************************************************************************)
EXTENDS PhyTx

(***************************************************************************)
(* The reception of d goes on with status rx, and waits for the event e.   *)
(***************************************************************************)
Continue(d, rx, e, msgs) ==
  /\ rx_a' = [rx_a EXCEPT ![d] = rx]
  /\ fq' = [fq EXCEPT ![d] = e]
  /\ sent' = msgs
  /\ UNCHANGED <<nbr_active_devs, phase, used, max_tx_nbr, tx_list, cca_a>>

(***************************************************************************)
(* rx_possible_abort_recheck(): the statuses with which a reception may    *)
(* come out of it, and the messages it may send.                           *)
(***************************************************************************)
RecheckDue(rx) == current_time >= rx.rx_s.abort.recheck_time

\* Variant: the new abort does not limit the scan.
ReevaluatedOnly(rx, abort, scanning) == [rx EXCEPT !.rx_s.abort = abort]

Reevaluated(rx, abort, scanning) ==
  [rx EXCEPT !.rx_s.abort = abort,
             !.scan_end = IF scanning /\ abort.abort_time < @
                          THEN Before(abort.abort_time)
                          ELSE @]

Rechecked(d, scanning) ==
  IF RecheckDue(rx_a[d])
  THEN {Reevaluated(rx_a[d], abort, scanning) : abort \in NewAborts(d)}
  ELSE {rx_a[d]}

RecheckMsgs(d) ==
  IF RecheckDue(rx_a[d])
  THEN {Reevaluation(d, n_imm) : n_imm \in 0 .. MaxImmRssi}
  ELSE {<<>>}

RecheckExits(d, msgs) ==
  RecheckDue(rx_a[d]) /\ AbortRefused(d) /\ Exit(msgs)

(***************************************************************************)
(* The device disconnected or terminated; the handlers of a search also    *)
(* leave the searching state, with rx.                                     *)
(***************************************************************************)
RecheckLeaves(d, rx, msgs) ==
  /\ RecheckDue(rx_a[d])
  /\ DeviceLeaves(d)
  /\ fq' = fq_remove(fq, d)
  /\ rx_a' = [rx_a EXCEPT ![d] = rx]
  /\ sent' = msgs
  /\ UNCHANGED <<phase, used, max_tx_nbr, tx_list, cca_a>>

------------------------------------------------------------------------------
(***************************************************************************)
(* Responses.                                                              *)
(***************************************************************************)
\* Variant: the response is that of the v1 API.
rx_respond_done_v1(d, rx) == Msg(d, "RX_END", rx.status)

rx_respond_done(d, rx) ==
  Msg(d, IF rx.v1_request THEN "RX_END" ELSE "RXV2_END", rx.status)

rx_resp_addr_found(d, rx) ==
  Msg(d, IF rx.v1_request THEN "RX_ADDRESSFOUND" ELSE "RXV2_ADDRESSFOUND",
      rx.status)

(***************************************************************************)
(* The reception ends with a status, and the device makes a new request.   *)
(***************************************************************************)
RxDone(d, rx, msgs) ==
  p2G4_handle_next_request(d, used, max_tx_nbr, rx, cca_a[d],
                           Append(msgs, rx_respond_done(d, rx)))

\* Variant: the device is left in the searching state.
rx_scan_ended_searching(d, rx, msgs) ==
  RxDone(d, [rx EXCEPT !.rx_time_stamp = current_time, !.status = "NOSYNC"], msgs)

\* Variant: the status of the response is not set.
rx_scan_ended_untold(d, rx, msgs) ==
  RxDone(d, [rx EXCEPT !.rx_time_stamp = current_time, !.state = NotSearching], msgs)

rx_scan_ended(d, rx, msgs) ==
  RxDone(d, [rx EXCEPT !.rx_time_stamp = current_time, !.status = "NOSYNC",
                       !.state = NotSearching], msgs)

------------------------------------------------------------------------------
\* Variant: the search is looked at in its last microsecond.
rx_enqueue_search_reeval_early(d, rx, msgs) ==
  Continue(d, [rx EXCEPT !.state = Searching],
           Event(BSMin(rx.scan_end, rx.rx_s.abort.recheck_time),
                 Rx_Search_reeval), msgs)

rx_enqueue_search_reeval(d, rx, msgs) ==
  Continue(d, [rx EXCEPT !.state = Searching],
           Event(BSMin(After(rx.scan_end), rx.rx_s.abort.recheck_time),
                 Rx_Search_reeval), msgs)

(***************************************************************************)
(* i is the device find_fitting_tx() returns: the first that matches, -1   *)
(* if none does.                                                           *)
(***************************************************************************)
Fits(i, rx) == PacketOngoing(used, i) /\ tx_and_rx_match(tx_list[i], rx)

\* Variant: the highest transmitting device is left out.
find_fitting_tx_below(rx, i) ==
  /\ i # -1 => i < max_tx_nbr /\ Fits(i, rx)
  /\ \A j \in Dev : j < max_tx_nbr /\ (i = -1 \/ j < i) => ~Fits(j, rx)

find_fitting_tx(rx, i) ==
  /\ i # -1 => i <= max_tx_nbr /\ Fits(i, rx)
  /\ \A j \in Dev : j <= max_tx_nbr /\ (i = -1 \/ j < i) => ~Fits(j, rx)

(***************************************************************************)
(* A prelocked reception may go on with the transmitter it was locked to.  *)
(***************************************************************************)
\* Variant: the packet may have started at any time.
PrelockHoldsLate(rx) == rx.tx_nbr # -1 /\ PacketOngoing(used, rx.tx_nbr)

PrelockHolds(rx) ==
  /\ rx.tx_nbr # -1
  /\ PacketOngoing(used, rx.tx_nbr)
  /\ current_time <= tx_list[rx.tx_nbr].start_packet_time
                       + rx.rx_s.acceptable_pre_truncation

prelock_check(rx) ==
  IF PrelockHolds(rx)
  THEN rx
  ELSE [rx EXCEPT !.tx_nbr = -1, !.rx_s.prelocked_tx = FALSE]

(***************************************************************************)
(* When the next attempt to synchronise is made.                           *)
(***************************************************************************)
NextSync(rx) ==
  Event(BSMin(BSMin(rx.sync_start, rx.rx_s.abort.recheck_time),
              After(rx.scan_end)), Rx_Sync)

(***************************************************************************)
(* The reception locks to the packet of the transmission t.                *)
(***************************************************************************)
\* Variant: the synchronisation starts with the packet.
LockedToStart(rx, t) ==
  LET sync_end == t.start_packet_time
                    + BSMax(rx.rx_s.pream_and_addr_duration - 1, 0)
  IN [rx EXCEPT !.sync_end = sync_end,
                !.header_end = sync_end + rx.rx_s.header_duration,
                !.payload_end = t.end_packet_time,
                !.biterrors = 0,
                !.sync_start = t.start_packet_time,
                !.tx_lost = FALSE]

Locked(rx, t) ==
  LET sync_end == t.start_packet_time
                    + BSMax(rx.rx_s.pream_and_addr_duration - 1, 0)
  IN [rx EXCEPT !.sync_end = sync_end,
                !.header_end = sync_end + rx.rx_s.header_duration,
                !.payload_end = t.end_packet_time,
                !.biterrors = 0,
                !.sync_start = t.start_packet_time
                                 + rx.rx_s.acceptable_pre_truncation,
                !.tx_lost = FALSE]

(***************************************************************************)
(* f_rx_found() for the status rx.  A prelocked reception does not ask the *)
(* modem whether it can synchronise.                                       *)
(***************************************************************************)
RxFound(d, rx, msgs) ==
  LET locked == Locked(rx, tx_list[rx.tx_nbr])
  IN \/ Continue(d, locked, NextSync(locked), msgs)
     \/ ~rx.rx_s.prelocked_tx /\ rx_enqueue_search_reeval(d, rx, msgs)

f_rx_found(d) == RxFound(d, rx_a[d], <<>>)

SearchStart(d, rx, msgs) ==
  \E i \in DevOrNone :
    LET rx1 == IF rx.rx_s.prelocked_tx THEN prelock_check(rx) ELSE rx
    IN /\ IF rx.rx_s.prelocked_tx THEN i = rx1.tx_nbr ELSE find_fitting_tx(rx, i)
       /\ IF i # -1
          THEN RxFound(d, [rx1 EXCEPT !.tx_nbr = i, !.state = NotSearching], msgs)
          ELSE rx_enqueue_search_reeval(d, rx1, msgs)

f_rx_search_start(d) ==
  \E msgs \in RecheckMsgs(d) :
    \/ RecheckExits(d, msgs)
    \/ RecheckLeaves(d, [rx_a[d] EXCEPT !.state = NotSearching], msgs)
    \/ \E rx \in Rechecked(d, TRUE) : SearchStart(d, rx, msgs)

f_rx_search_reeval(d) ==
  \E msgs \in RecheckMsgs(d) :
    \/ RecheckExits(d, msgs)
    \/ RecheckLeaves(d, [rx_a[d] EXCEPT !.state = NotSearching], msgs)
    \/ \E rx \in Rechecked(d, TRUE) :
         \/ current_time > rx.scan_end /\ rx_scan_ended(d, rx, msgs)
         \/ current_time <= rx.scan_end /\ rx_enqueue_search_reeval(d, rx, msgs)

------------------------------------------------------------------------------
(***************************************************************************)
(* rx_bit_error_calc(), added to the errors of the reception: errors are   *)
(* calculated once every rate_uspercalc calls.                             *)
(***************************************************************************)
BitErrorCalc(rx) ==
  IF rx.us_to_next_calc <= 0
  THEN {[rx EXCEPT !.us_to_next_calc = rx.rate_uspercalc - 1,
                   !.tx_lost = @ \/ ~PacketOngoing(used, rx.tx_nbr),
                   !.biterrors = @ + errors] : errors \in 0 .. rx.errorspercalc}
  ELSE {[rx EXCEPT !.us_to_next_calc = @ - 1]}

\* Variant: the new search starts at once.
SyncLostNow(d, rx, msgs) ==
  Continue(d, rx, Event(current_time, Rx_Search_start), msgs)

SyncLost(d, rx, msgs) ==
  Continue(d, rx, Event(current_time + 1, Rx_Search_start), msgs)

(***************************************************************************)
(* The device has found the address, and is asked whether it goes on.      *)
(***************************************************************************)
\* Variant: the synchronisation goes on.
AfterSyncAgain(rx) == Event(current_time + 1, Rx_Sync)

AfterSync(rx) ==
  Event(current_time + (IF rx.rx_s.pream_and_addr_duration = 0 THEN 0 ELSE 1),
        IF rx.rx_s.header_duration = 0 THEN Rx_Payload ELSE Rx_Header)

SyncDone(d, rx0, msgs0) ==
  LET rx   == [rx0 EXCEPT !.biterrors = 0, !.rx_time_stamp = rx0.sync_end,
                          !.status = "INPROGRESS"]
      msgs == Append(msgs0, rx_resp_addr_found(d, rx))
  IN \E reply \in HeaderReplies(d, current_time) :
       \/ /\ reply.msg = "DISCONNECT"
          /\ nbr_active_devs' = nbr_active_devs - 1
          /\ fq' = fq_remove(fq, d)
          /\ rx_a' = [rx_a EXCEPT ![d] = rx]
          /\ sent' = msgs
          /\ UNCHANGED <<phase, used, max_tx_nbr, tx_list, cca_a>>
       \/ /\ reply.msg = "TERMINATE"
          /\ nbr_active_devs' = 0
          /\ rx_a' = [rx_a EXCEPT ![d] = rx]
          /\ sent' = msgs
          /\ UNCHANGED <<fq, phase, used, max_tx_nbr, tx_list, cca_a>>
       \/ /\ reply.msg = "RXCONT"
          /\ Continue(d, rx, AfterSync(rx), msgs)
       \/ /\ reply.msg = "RXV2CONT"
          /\ pick_abort_tail(reply.abort)
          /\ Continue(d, [rx EXCEPT !.rx_s.abort = reply.abort],
                      AfterSync(rx), msgs)
       \/ /\ reply.msg = "RXV2CONT" /\ ~pick_abort_tail(reply.abort)
          /\ Exit(msgs)
       \/ /\ reply.msg \in {"OTHER", "BROKEN"}
          /\ Exit(msgs)
       \/ /\ reply.msg = "RXSTOP"
          /\ p2G4_handle_next_request(d, used, max_tx_nbr, rx, cca_a[d], msgs)

Sync(d, rx, msgs) ==
  \/ /\ current_time > rx.scan_end
     /\ rx_scan_ended(d, rx, msgs)
  \/ /\ current_time <= rx.scan_end
     /\ current_time < rx.sync_start
     /\ Continue(d, rx, NextSync(rx), msgs)
  \/ /\ current_time <= rx.scan_end
     /\ current_time >= rx.sync_start
     /\ ~PacketOngoing(used, rx.tx_nbr)
     /\ SyncLost(d, rx, msgs)
  \/ /\ current_time <= rx.scan_end
     /\ current_time >= rx.sync_start
     /\ PacketOngoing(used, rx.tx_nbr)
     /\ \E rx1 \in BitErrorCalc(rx) :
          \/ /\ rx1.biterrors > rx1.rx_s.sync_threshold
             /\ SyncLost(d, rx1, msgs)
          \/ /\ rx1.biterrors <= rx1.rx_s.sync_threshold
             /\ current_time >= rx1.sync_end
             /\ SyncDone(d, rx1, msgs)
          \/ /\ rx1.biterrors <= rx1.rx_s.sync_threshold
             /\ current_time < rx1.sync_end
             /\ Continue(d, rx1, Event(current_time + 1, Rx_Sync), msgs)

f_rx_sync(d) ==
  \E msgs \in RecheckMsgs(d) :
    \/ RecheckExits(d, msgs)
    \/ RecheckLeaves(d, rx_a[d], msgs)
    \/ \E rx \in Rechecked(d, TRUE) : Sync(d, rx, msgs)

Header(d, rx, msgs) ==
  LET failed == \/ /\ current_time >= rx.header_end
                   /\ rx.biterrors > rx.rx_s.header_threshold
                \/ current_time >= rx.rx_s.abort.abort_time
  IN \/ failed /\ RxDone(d, [rx EXCEPT !.status = "HEADER_ERROR"], msgs)
     \/ /\ ~failed
        /\ Continue(d, rx, Event(current_time + 1,
                                 IF current_time >= rx.header_end
                                 THEN Rx_Payload ELSE Rx_Header), msgs)

f_rx_header(d) ==
  \E msgs \in RecheckMsgs(d) :
    \/ RecheckExits(d, msgs)
    \/ RecheckLeaves(d, rx_a[d], msgs)
    \/ \E rx0 \in Rechecked(d, FALSE) :
         \E rx \in BitErrorCalc(rx0) : Header(d, rx, msgs)

Payload(d, rx, msgs) ==
  LET failed == \/ current_time >= rx.payload_end /\ rx.biterrors > 0
                \/ current_time >= rx.rx_s.abort.abort_time
  IN \/ failed /\ RxDone(d, [rx EXCEPT !.status = "PACKET_CONTENT_ERROR"], msgs)
     \/ /\ ~failed
        /\ current_time >= rx.payload_end
        /\ RxDone(d, [rx EXCEPT !.status = "OK"], msgs)
     \/ /\ ~failed
        /\ current_time < rx.payload_end
        /\ Continue(d, rx, Event(current_time + 1, Rx_Payload), msgs)

f_rx_payload(d) ==
  \E msgs \in RecheckMsgs(d) :
    \/ RecheckExits(d, msgs)
    \/ RecheckLeaves(d, rx_a[d], msgs)
    \/ \E rx0 \in Rechecked(d, FALSE) :
         \E rx \in BitErrorCalc(rx0) : Payload(d, rx, msgs)
=============================================================================
