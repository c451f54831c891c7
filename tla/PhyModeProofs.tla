------------------------------ MODULE PhyModeProofs ----------------------------
(***************************************************************************)
(* What a step of Phy does to the mode of a device, for any number of      *)
(* devices and whatever the devices request and answer.                    *)
(*                                                                         *)
(* The argument goes by the mode of a device: the event it has in the      *)
(* queue says whether it is on the air and whether it is searching.  A     *)
(* handler leaves its own device in some mode, or gone, and touches        *)
(* another device only to move it from searching to having found a packet. *)
(***************************************************************************)
EXTENDS PhyTypeProofs

TxQueued == {Tx_Abort_Reeval, Tx_Packet_Start, Tx_Packet_End, Tx_End}

(***************************************************************************)
(* The event of device d agrees with the rest of its state.                *)
(***************************************************************************)
Consistent(d) ==
  /\ used[d] # TXS_OFF <=> fq[d].index \in TxQueued
  /\ rx_a[d].state = Searching <=> fq[d].index = Rx_Search_reeval
  /\ fq[d].index = Rx_Found => rx_a[d].tx_nbr \in Dev

------------------------------------------------------------------------------
(***************************************************************************)
(* What a handler of device d does.                                        *)
(***************************************************************************)
Others(d) ==
  \A x \in Dev \ {d} :
    /\ used'[x] = used[x]
    /\ \/ fq'[x] = fq[x] /\ rx_a'[x] = rx_a[x]
       \/ /\ rx_a[x].state = Searching
          /\ fq'[x].index = Rx_Found
          /\ rx_a'[x].state = NotSearching
          /\ rx_a'[x].tx_nbr = d

Counts(d) ==
  \/ fq'[d].index = State_None /\ nbr_active_devs' = nbr_active_devs - 1
  \/ fq'[d].index # State_None /\ nbr_active_devs' = nbr_active_devs

Outcome(d) ==
  \/ phase' = "error"
  \/ /\ phase' = phase
     /\ Others(d)
     /\ \/ nbr_active_devs' = 0
        \/ Counts(d) /\ Consistent(d)'

SameTxs ==
  \/ phase' = "error"
  \/ used' = used /\ max_tx_nbr' = max_tx_nbr

------------------------------------------------------------------------------
(***************************************************************************)
(* Requests.                                                               *)
(***************************************************************************)
LEMMA StartedRxState ==
  ASSUME NEW rx \in rx_status_t, NEW r, NEW v1
  PROVE  StartedRx(rx, r, v1).state = rx.state
BY Zenon DEF StartedRx, rx_status_t

(***************************************************************************)
(* The events that follow a request.                                       *)
(***************************************************************************)
Requested == {Wait_Done, RSSI_Meas, Tx_Start, Rx_Search_start, Rx_CCA_meas}

LEMMA NextRequestOutcome ==
  ASSUME StateOK, NEW d \in Dev, NEW u \in [Dev -> TxsFlags],
         u[d] = TXS_OFF, \A x \in Dev \ {d} : u[x] = used[x],
         NEW m, NEW rx \in rx_status_t, rx.state = NotSearching,
         NEW cca, NEW msgs,
         p2G4_handle_next_request(d, u, m, rx, cca, msgs)
  PROVE  /\ Outcome(d)
         /\ \/ phase' = "error"
            \/ used' = u /\ max_tx_nbr' = m
<1>1. PICK q \in Requests(d, current_time) :
        \/ ~ValidRequest(q) /\ Exit(msgs)
        \/ /\ ValidRequest(q)
           /\ Accepted(q, d, u, rx, cca)
           /\ sent' = msgs
           /\ max_tx_nbr' = m
           /\ UNCHANGED phase
  BY Zenon DEF p2G4_handle_next_request
<1>2. CASE ~ValidRequest(q) /\ Exit(msgs)
  BY <1>2 DEF Exit, Outcome
<1>3. CASE /\ ValidRequest(q)
           /\ Accepted(q, d, u, rx, cca)
           /\ sent' = msgs
           /\ max_tx_nbr' = m
           /\ UNCHANGED phase
  <2>1. txl_register(u, d) = u
    BY DEF txl_register
  <2>2. used' = u
    BY <1>3, <2>1, Zenon
    DEF Accepted, NoTxReq, Transmits, prepare_tx
  <2>3. PICK rx1 : rx_a' = [rx_a EXCEPT ![d] = rx1] /\ rx1.state = NotSearching
    <3>1. \A r, v1 : StartedRx(rx, r, v1).state = NotSearching
      BY StartedRxState
    <3>2. PICK rx1 : /\ rx_a' = [rx_a EXCEPT ![d] = rx1]
                     /\ \/ rx1 = rx
                        \/ \E r, v1 : rx1 = StartedRx(rx, r, v1)
      BY <1>3, Zenon
      DEF Accepted, NoRxReq, Receives, prepare_rx
    <3>3. rx1.state = NotSearching
      BY <3>1, <3>2
    <3> QED
      BY <3>2, <3>3
  <2>4. /\ \A x \in Dev \ {d} : rx_a'[x] = rx_a[x]
        /\ rx_a'[d].state = NotSearching
    BY <2>3 DEF StateOK
  <2>5. \/ nbr_active_devs' = 0 /\ fq' = fq
        \/ nbr_active_devs' = nbr_active_devs - 1 /\ fq' = fq_remove(fq, d)
        \/ /\ nbr_active_devs' = nbr_active_devs
           /\ \E t, i : i \in Requested /\ fq' = fq_add(fq, t, i, d)
    BY <1>3, Zenon
    DEF Accepted, Leaves, Waits, Transmits, prepare_tx, Receives, prepare_rx,
        prepare_CCA, Requested
  <2>6. \A x \in Dev \ {d} : fq'[x] = fq[x]
    BY <2>5 DEF StateOK, fq_remove, fq_add
  <2>7. \/ nbr_active_devs' = 0
        \/ Counts(d) /\ fq'[d].index \in Requested \cup {State_None}
    BY <2>5
    DEF StateOK, fq_remove, fq_add, Event, Counts, Requested, State_None,
        Wait_Done, RSSI_Meas, Tx_Start, Rx_Search_start, Rx_CCA_meas
  <2>8. fq'[d].index \in Requested \cup {State_None} => Consistent(d)'
    BY <2>2, <2>4
    DEF Consistent, Requested, TxQueued, Searching, NotSearching, State_None,
        Wait_Done, RSSI_Meas, Tx_Start, Rx_Search_start, Rx_CCA_meas,
        Tx_Abort_Reeval, Tx_Packet_Start, Tx_Packet_End, Tx_End,
        Rx_Search_reeval, Rx_Found
  <2>9. Others(d)
    BY <2>2, <2>4, <2>6 DEF Others
  <2> QED
    BY <1>3, <2>2, <2>7, <2>8, <2>9 DEF Outcome
<1> QED
  BY <1>1, <1>2, <1>3

(***************************************************************************)
(* A device that is not on the air makes its next request.                 *)
(***************************************************************************)
LEMMA OffAirOutcome ==
  ASSUME StateOK, NEW d \in Dev, used[d] = TXS_OFF,
         NEW rx \in rx_status_t, rx.state = NotSearching, NEW cca, NEW msgs,
         p2G4_handle_next_request(d, used, max_tx_nbr, rx, cca, msgs)
  PROVE  Outcome(d) /\ SameTxs
<1>1. used \in [Dev -> TxsFlags]
  BY DEF StateOK
<1> QED
  BY <1>1, NextRequestOutcome DEF SameTxs

(***************************************************************************)
(* A reception that goes on, with the event of its new status.             *)
(***************************************************************************)
RxQueued == {Rx_Search_start, Rx_Sync, Rx_Header, Rx_Payload}

LEMMA ContinueOutcome ==
  ASSUME StateOK, NEW d \in Dev, used[d] = TXS_OFF, NEW rx, NEW t, NEW i, NEW msgs,
         \/ rx.state = NotSearching /\ i \in RxQueued
         \/ rx.state = Searching /\ i = Rx_Search_reeval,
         Continue(d, rx, Event(t, i), msgs)
  PROVE  Outcome(d) /\ SameTxs
<1>1. /\ rx_a' = [rx_a EXCEPT ![d] = rx]
      /\ fq' = [fq EXCEPT ![d] = Event(t, i)]
      /\ used' = used
      /\ UNCHANGED <<nbr_active_devs, phase, max_tx_nbr>>
  BY DEF Continue
<1>2. fq'[d].index = i /\ rx_a'[d].state = rx.state /\ used'[d] = TXS_OFF
  BY <1>1 DEF StateOK, Event
<1>3. Others(d)
  BY <1>1 DEF Others, StateOK
<1>4. Counts(d) /\ Consistent(d)'
  BY <1>1, <1>2
  DEF Counts, Consistent, RxQueued, TxQueued, Searching, NotSearching,
      State_None, Rx_Search_start, Rx_Sync, Rx_Header, Rx_Payload,
      Rx_Search_reeval, Rx_Found, Tx_Abort_Reeval, Tx_Packet_Start,
      Tx_Packet_End, Tx_End
<1> QED
  BY <1>1, <1>3, <1>4 DEF Outcome, SameTxs

(***************************************************************************)
(* A device that leaves in a reevaluation, on the air no more and not      *)
(* searching.                                                              *)
(***************************************************************************)
LEMMA LeavesOutcome ==
  ASSUME StateOK, NEW d \in Dev, phase' = phase,
         nbr_active_devs' \in {nbr_active_devs - 1, 0},
         fq' = fq_remove(fq, d),
         used'[d] = TXS_OFF, \A x \in Dev \ {d} : used'[x] = used[x],
         rx_a'[d].state = NotSearching, \A x \in Dev \ {d} : rx_a'[x] = rx_a[x]
  PROVE  Outcome(d)
<1>1. fq'[d].index = State_None /\ \A x \in Dev \ {d} : fq'[x] = fq[x]
  BY DEF StateOK, fq_remove, Event
<1>2. Others(d)
  BY <1>1 DEF Others
<1>3. Consistent(d)'
  BY <1>1
  DEF Consistent, TxQueued, Searching, NotSearching, State_None,
      Rx_Search_reeval, Rx_Found, Tx_Abort_Reeval, Tx_Packet_Start,
      Tx_Packet_End, Tx_End
<1> QED
  BY <1>1, <1>2, <1>3 DEF Outcome, Counts

LEMMA RecheckEndsOutcome ==
  ASSUME StateOK, NEW d \in Dev, used[d] = TXS_OFF, NEW msgs
  PROVE  /\ RecheckExits(d, msgs) => Outcome(d) /\ SameTxs
         /\ \A rx : RecheckLeaves(d, rx, msgs) /\ rx.state = NotSearching
                      => Outcome(d) /\ SameTxs
<1>1. RecheckExits(d, msgs) => Outcome(d) /\ SameTxs
  BY DEF RecheckExits, Exit, Outcome, SameTxs
<1>2. ASSUME NEW rx, RecheckLeaves(d, rx, msgs), rx.state = NotSearching
      PROVE  Outcome(d) /\ SameTxs
  <2>1. /\ phase' = phase
        /\ nbr_active_devs' \in {nbr_active_devs - 1, 0}
        /\ fq' = fq_remove(fq, d)
        /\ used' = used /\ max_tx_nbr' = max_tx_nbr
        /\ rx_a' = [rx_a EXCEPT ![d] = rx]
    BY <1>2, Zenon DEF RecheckLeaves, DeviceLeaves
  <2>2. rx_a'[d].state = NotSearching /\ \A x \in Dev \ {d} : rx_a'[x] = rx_a[x]
    BY <1>2, <2>1 DEF StateOK
  <2> QED
    BY <2>1, <2>2, LeavesOutcome DEF SameTxs
<1> QED
  BY <1>1, <1>2

------------------------------------------------------------------------------
(***************************************************************************)
(* Waits and measurements.                                                 *)
(***************************************************************************)
LEMMA OffAir ==
  ASSUME StateOK, NEW d \in Dev, Consistent(d)
  PROVE  /\ fq[d].index \notin TxQueued => used[d] = TXS_OFF
         /\ fq[d].index # Rx_Search_reeval => rx_a[d].state = NotSearching
         /\ rx_a[d] \in rx_status_t
<1>1. rx_a[d] \in rx_status_t
  BY DEF StateOK
<1>2. rx_a[d].state \in {Searching, NotSearching}
  BY <1>1 DEF rx_status_t
<1> QED
  BY <1>1, <1>2 DEF Consistent

LEMMA MeasOutcome ==
  ASSUME StateOK, NEW d \in Dev, Consistent(d),
         fq[d].index \in {Wait_Done, RSSI_Meas, Rx_CCA_meas},
         f_wait_done(d) \/ f_RSSI_meas(d) \/ f_cca_meas(d)
  PROVE  Outcome(d) /\ SameTxs
<1>1. /\ used[d] = TXS_OFF /\ rx_a[d].state = NotSearching
      /\ rx_a[d] \in rx_status_t
  BY OffAir
  DEF TxQueued, Wait_Done, RSSI_Meas, Rx_CCA_meas, Tx_Abort_Reeval,
      Tx_Packet_Start, Tx_Packet_End, Tx_End, Rx_Search_reeval
<1>2. \/ \E cca, msgs :
           p2G4_handle_next_request(d, used, max_tx_nbr, rx_a[d], cca, msgs)
      \/ phase' = "error"
      \/ /\ DeviceLeaves(d)
         /\ fq' = fq_remove(fq, d)
         /\ UNCHANGED <<phase, used, max_tx_nbr, rx_a>>
      \/ \E cca : /\ fq' = [fq EXCEPT ![d] = NextCcaEvent(cca)]
                  /\ UNCHANGED <<nbr_active_devs, phase, used, max_tx_nbr, rx_a>>
  BY Zenon DEF f_wait_done, f_RSSI_meas, f_cca_meas, NextRequest, Exit
<1>3. ASSUME NEW cca, NEW msgs,
             p2G4_handle_next_request(d, used, max_tx_nbr, rx_a[d], cca, msgs)
      PROVE  Outcome(d) /\ SameTxs
  BY <1>1, <1>3, OffAirOutcome
<1>4. CASE phase' = "error"
  BY <1>4 DEF Outcome, SameTxs
<1>5. CASE /\ DeviceLeaves(d)
           /\ fq' = fq_remove(fq, d)
           /\ UNCHANGED <<phase, used, max_tx_nbr, rx_a>>
  <2>1. nbr_active_devs' \in {nbr_active_devs - 1, 0}
    BY <1>5, Zenon DEF DeviceLeaves
  <2> QED
    BY <1>1, <1>5, <2>1, LeavesOutcome DEF SameTxs
<1>6. ASSUME NEW cca, fq' = [fq EXCEPT ![d] = NextCcaEvent(cca)],
             UNCHANGED <<nbr_active_devs, phase, used, max_tx_nbr, rx_a>>
      PROVE  Outcome(d) /\ SameTxs
  <2>1. fq'[d].index = Rx_CCA_meas /\ \A x \in Dev \ {d} : fq'[x] = fq[x]
    BY <1>6 DEF StateOK, NextCcaEvent, Event
  <2>2. Consistent(d)' /\ Counts(d)
    BY <1>1, <1>6, <2>1
    DEF Consistent, Counts, TxQueued, Searching, NotSearching, State_None,
        Rx_CCA_meas, Tx_Abort_Reeval, Tx_Packet_Start, Tx_Packet_End, Tx_End,
        Rx_Search_reeval, Rx_Found
  <2> QED
    BY <1>6, <2>1, <2>2 DEF Outcome, Others, SameTxs
<1> QED
  BY <1>2, <1>3, <1>4, <1>5, <1>6

------------------------------------------------------------------------------
(***************************************************************************)
(* Receptions.                                                             *)
(***************************************************************************)
LEMMA StatesKept ==
  ASSUME NEW rx \in rx_status_t
  PROVE  /\ \A abort, scanning : Reevaluated(rx, abort, scanning).state = rx.state
         /\ \A t : Locked(rx, t).state = rx.state
         /\ \A r \in BitErrorCalc(rx) : r.state = rx.state
         /\ \A s : [rx EXCEPT !.status = s].state = rx.state
         /\ \A s : [rx EXCEPT !.state = s].state = s
         /\ \A t, s : [rx EXCEPT !.biterrors = 0, !.rx_time_stamp = t,
                                 !.status = s].state = rx.state
         /\ \A a : [rx EXCEPT !.rx_s.abort = a].state = rx.state
<1>1. \A abort, scanning : Reevaluated(rx, abort, scanning).state = rx.state
  BY Zenon DEF Reevaluated, rx_status_t
<1>2. \A t : Locked(rx, t).state = rx.state
  BY Zenon DEF Locked, rx_status_t
<1>3. \A r \in BitErrorCalc(rx) : r.state = rx.state
  BY Zenon DEF BitErrorCalc, rx_status_t
<1>4. \A s : [rx EXCEPT !.status = s].state = rx.state
  BY Zenon DEF rx_status_t
<1>5. \A s : [rx EXCEPT !.state = s].state = s
  BY Zenon DEF rx_status_t
<1>6. \A t, s : [rx EXCEPT !.biterrors = 0, !.rx_time_stamp = t,
                           !.status = s].state = rx.state
  BY Zenon DEF rx_status_t
<1>7. \A a : [rx EXCEPT !.rx_s.abort = a].state = rx.state
  BY Zenon DEF rx_status_t
<1> QED
  BY <1>1, <1>2, <1>3, <1>4, <1>5, <1>6, <1>7

LEMMA RecheckedState ==
  ASSUME StateOK, InTime, NEW d \in Dev, NEW scanning \in BOOLEAN
  PROVE  \A rx \in Rechecked(d, scanning) :
           rx \in rx_status_t /\ rx.state = rx_a[d].state
<1>1. rx_a[d] \in rx_status_t
  BY DEF StateOK
<1>2. \A abort, s : Reevaluated(rx_a[d], abort, s).state = rx_a[d].state
  BY <1>1, StatesKept
<1>3. \A rx \in Rechecked(d, scanning) : rx.state = rx_a[d].state
  BY <1>2, Zenon DEF Rechecked
<1> QED
  BY <1>3, RecheckedType

LEMMA EnqueueSearchOutcome ==
  ASSUME StateOK, NEW d \in Dev, used[d] = TXS_OFF, NEW rx \in rx_status_t,
         NEW msgs, rx_enqueue_search_reeval(d, rx, msgs)
  PROVE  Outcome(d) /\ SameTxs
<1>1. [rx EXCEPT !.state = Searching].state = Searching
  BY StatesKept
<1> QED
  BY <1>1, ContinueOutcome DEF rx_enqueue_search_reeval

LEMMA RxFoundOutcome ==
  ASSUME StateOK, NEW d \in Dev, used[d] = TXS_OFF, NEW rx \in rx_status_t,
         rx.state = NotSearching, NEW msgs, RxFound(d, rx, msgs)
  PROVE  Outcome(d) /\ SameTxs
<1> DEFINE locked == Locked(rx, tx_list[rx.tx_nbr])
<1>1. locked.state = NotSearching
  BY StatesKept
<1>2. \/ Continue(d, locked, NextSync(locked), msgs)
      \/ rx_enqueue_search_reeval(d, rx, msgs)
  BY DEF RxFound
<1> HIDE DEF locked
<1>3. CASE Continue(d, locked, NextSync(locked), msgs)
  BY <1>1, <1>3, ContinueOutcome DEF NextSync, RxQueued
<1> QED
  BY <1>2, <1>3, EnqueueSearchOutcome

LEMMA SearchStartOutcome ==
  ASSUME StateOK, NEW d \in Dev, used[d] = TXS_OFF, NEW rx \in rx_status_t,
         NEW msgs, SearchStart(d, rx, msgs)
  PROVE  Outcome(d) /\ SameTxs
<1> DEFINE rx1 == IF rx.rx_s.prelocked_tx THEN prelock_check(rx) ELSE rx
<1>1. rx1 \in rx_status_t
  BY PrelockType
<1>2. PICK i \in DevOrNone :
        \/ RxFound(d, [rx1 EXCEPT !.tx_nbr = i, !.state = NotSearching], msgs)
        \/ rx_enqueue_search_reeval(d, rx1, msgs)
  BY DEF SearchStart
<1> HIDE DEF rx1
<1>3. /\ [rx1 EXCEPT !.tx_nbr = i, !.state = NotSearching] \in rx_status_t
      /\ [rx1 EXCEPT !.tx_nbr = i, !.state = NotSearching].state = NotSearching
  <2>1. [rx1 EXCEPT !.tx_nbr = i, !.state = NotSearching].state = NotSearching
    BY <1>1, Zenon DEF rx_status_t
  <2> QED
    BY <1>1, <2>1, FoundType
<1> QED
  BY <1>1, <1>2, <1>3, RxFoundOutcome, EnqueueSearchOutcome

LEMMA RxDoneOutcome ==
  ASSUME StateOK, NEW d \in Dev, used[d] = TXS_OFF, NEW rx \in rx_status_t,
         rx.state = NotSearching, NEW msgs, RxDone(d, rx, msgs)
  PROVE  Outcome(d) /\ SameTxs
BY OffAirOutcome DEF RxDone

LEMMA ScanEndedOutcome ==
  ASSUME StateOK, InTime, NEW d \in Dev, used[d] = TXS_OFF,
         NEW rx \in rx_status_t, NEW msgs, rx_scan_ended(d, rx, msgs)
  PROVE  Outcome(d) /\ SameTxs
<1> DEFINE rx1 == [rx EXCEPT !.rx_time_stamp = current_time, !.status = "NOSYNC",
                             !.state = NotSearching]
<1>1. rx1 \in rx_status_t
  BY NowType, StatusTypes DEF RxStatus
<1>2. rx1.state = NotSearching
  BY Zenon DEF rx_status_t
<1>3. RxDone(d, rx1, msgs)
  BY DEF rx_scan_ended
<1> HIDE DEF rx1
<1> QED
  BY <1>1, <1>2, <1>3, RxDoneOutcome

LEMMA SearchOutcome ==
  ASSUME StateOK, InTime, NEW d \in Dev, Consistent(d),
         fq[d].index \in {Rx_Search_start, Rx_Search_reeval},
         f_rx_search_start(d) \/ f_rx_search_reeval(d)
  PROVE  Outcome(d) /\ SameTxs
<1>1. used[d] = TXS_OFF /\ rx_a[d] \in rx_status_t
  BY OffAir
  DEF TxQueued, Rx_Search_start, Rx_Search_reeval, Tx_Abort_Reeval,
      Tx_Packet_Start, Tx_Packet_End, Tx_End
<1>2. PICK msgs \in RecheckMsgs(d) :
        \/ RecheckExits(d, msgs)
        \/ RecheckLeaves(d, [rx_a[d] EXCEPT !.state = NotSearching], msgs)
        \/ \E rx \in Rechecked(d, TRUE) :
             \/ SearchStart(d, rx, msgs)
             \/ rx_scan_ended(d, rx, msgs)
             \/ rx_enqueue_search_reeval(d, rx, msgs)
  BY Zenon DEF f_rx_search_start, f_rx_search_reeval
<1>3. [rx_a[d] EXCEPT !.state = NotSearching].state = NotSearching
  BY <1>1, StatesKept
<1>4. ASSUME NEW rx \in Rechecked(d, TRUE),
             \/ SearchStart(d, rx, msgs)
             \/ rx_scan_ended(d, rx, msgs)
             \/ rx_enqueue_search_reeval(d, rx, msgs)
      PROVE  Outcome(d) /\ SameTxs
  <2>1. rx \in rx_status_t
    BY RecheckedState
  <2> QED
    BY <1>1, <1>4, <2>1, SearchStartOutcome, ScanEndedOutcome, EnqueueSearchOutcome
<1> QED
  BY <1>1, <1>2, <1>3, <1>4, RecheckEndsOutcome, Zenon

LEMMA SyncLostOutcome ==
  ASSUME StateOK, NEW d \in Dev, used[d] = TXS_OFF, NEW rx,
         rx.state = NotSearching, NEW msgs, SyncLost(d, rx, msgs)
  PROVE  Outcome(d) /\ SameTxs
BY ContinueOutcome DEF SyncLost, RxQueued

LEMMA SyncDoneOutcome ==
  ASSUME StateOK, InTime, NEW d \in Dev, used[d] = TXS_OFF,
         NEW rx0 \in rx_status_t, rx0.state = NotSearching,
         NEW msgs0, SyncDone(d, rx0, msgs0)
  PROVE  Outcome(d) /\ SameTxs
<1> DEFINE rx == [rx0 EXCEPT !.biterrors = 0, !.rx_time_stamp = rx0.sync_end,
                             !.status = "INPROGRESS"]
           msgs == Append(msgs0, rx_resp_addr_found(d, rx))
           cont(a) == [rx EXCEPT !.rx_s.abort = a]
<1>1. rx0.sync_end \in Nat
  BY DEF rx_status_t
<1>2. rx \in rx_status_t /\ rx.state = NotSearching
  <2>1. rx \in rx_status_t
    BY <1>1, StatusTypes DEF RxStatus
  <2>2. rx.state = rx0.state
    BY Zenon DEF rx_status_t
  <2> QED
    BY <2>1, <2>2
<1>3. PICK reply \in HeaderReplies(d, current_time) :
        \/ /\ nbr_active_devs' = nbr_active_devs - 1
           /\ fq' = fq_remove(fq, d)
           /\ rx_a' = [rx_a EXCEPT ![d] = rx]
           /\ UNCHANGED <<phase, used, max_tx_nbr>>
        \/ /\ nbr_active_devs' = 0
           /\ rx_a' = [rx_a EXCEPT ![d] = rx]
           /\ UNCHANGED <<fq, phase, used, max_tx_nbr>>
        \/ Continue(d, rx, AfterSync(rx), msgs)
        \/ Continue(d, cont(reply.abort), AfterSync(rx), msgs)
        \/ Exit(msgs)
        \/ p2G4_handle_next_request(d, used, max_tx_nbr, rx, cca_a[d], msgs)
  BY Zenon DEF SyncDone
<1>4. cont(reply.abort).state = NotSearching
  BY <1>2, StatesKept
<1> HIDE DEF rx, msgs, cont
<1>5. PICK t, i : i \in RxQueued /\ AfterSync(rx) = Event(t, i)
  <2>1. (IF rx.rx_s.header_duration = 0 THEN Rx_Payload ELSE Rx_Header) \in RxQueued
    BY DEF RxQueued
  <2> QED
    BY <2>1, Zenon DEF AfterSync
<1>6. CASE /\ nbr_active_devs' = nbr_active_devs - 1
           /\ fq' = fq_remove(fq, d)
           /\ rx_a' = [rx_a EXCEPT ![d] = rx]
           /\ UNCHANGED <<phase, used, max_tx_nbr>>
  <2>1. rx_a'[d].state = NotSearching /\ \A x \in Dev \ {d} : rx_a'[x] = rx_a[x]
    BY <1>2, <1>6 DEF StateOK
  <2> QED
    BY <1>6, <2>1, LeavesOutcome DEF SameTxs
<1>7. CASE /\ nbr_active_devs' = 0
           /\ rx_a' = [rx_a EXCEPT ![d] = rx]
           /\ UNCHANGED <<fq, phase, used, max_tx_nbr>>
  <2>1. Others(d)
    BY <1>7 DEF Others, StateOK
  <2> QED
    BY <1>7, <2>1 DEF Outcome, SameTxs
<1>8. CASE Continue(d, rx, AfterSync(rx), msgs)
  BY <1>2, <1>5, <1>8, ContinueOutcome
<1>9. CASE Continue(d, cont(reply.abort), AfterSync(rx), msgs)
  BY <1>4, <1>5, <1>9, ContinueOutcome
<1>10. CASE Exit(msgs)
  BY <1>10 DEF Exit, Outcome, SameTxs
<1>11. CASE p2G4_handle_next_request(d, used, max_tx_nbr, rx, cca_a[d], msgs)
  BY <1>2, <1>11, OffAirOutcome
<1> QED
  BY <1>3, <1>6, <1>7, <1>8, <1>9, <1>10, <1>11

LEMMA SyncOutcome ==
  ASSUME StateOK, InTime, NEW d \in Dev, used[d] = TXS_OFF,
         NEW rx \in rx_status_t, rx.state = NotSearching,
         NEW msgs, Sync(d, rx, msgs)
  PROVE  Outcome(d) /\ SameTxs
<1>1. \/ rx_scan_ended(d, rx, msgs)
      \/ Continue(d, rx, NextSync(rx), msgs)
      \/ SyncLost(d, rx, msgs)
      \/ \E rx1 \in BitErrorCalc(rx) :
           \/ SyncLost(d, rx1, msgs)
           \/ SyncDone(d, rx1, msgs)
           \/ Continue(d, rx1, Event(current_time + 1, Rx_Sync), msgs)
  BY Zenon DEF Sync
<1>2. \A rx1 \in BitErrorCalc(rx) : rx1 \in rx_status_t /\ rx1.state = NotSearching
  BY BitErrorCalcType, StatesKept
<1>3. Rx_Sync \in RxQueued
  BY DEF RxQueued
<1>4. CASE rx_scan_ended(d, rx, msgs)
  BY <1>4, ScanEndedOutcome
<1>5. CASE Continue(d, rx, NextSync(rx), msgs)
  BY <1>3, <1>5, ContinueOutcome DEF NextSync
<1>6. CASE SyncLost(d, rx, msgs)
  BY <1>6, SyncLostOutcome
<1>7. ASSUME NEW rx1 \in BitErrorCalc(rx),
             \/ SyncLost(d, rx1, msgs)
             \/ SyncDone(d, rx1, msgs)
             \/ Continue(d, rx1, Event(current_time + 1, Rx_Sync), msgs)
      PROVE  Outcome(d) /\ SameTxs
  BY <1>2, <1>3, <1>7, SyncLostOutcome, SyncDoneOutcome, ContinueOutcome
<1> QED
  BY <1>1, <1>4, <1>5, <1>6, <1>7

LEMMA HeaderPayloadOutcome ==
  ASSUME StateOK, NEW d \in Dev, used[d] = TXS_OFF,
         NEW rx \in rx_status_t, rx.state = NotSearching, NEW msgs,
         Header(d, rx, msgs) \/ Payload(d, rx, msgs)
  PROVE  Outcome(d) /\ SameTxs
<1>1. PICK s \in RxStatus, i \in {Rx_Header, Rx_Payload} :
        \/ RxDone(d, [rx EXCEPT !.status = s], msgs)
        \/ Continue(d, rx, Event(current_time + 1, i), msgs)
  <2>1. {"HEADER_ERROR", "PACKET_CONTENT_ERROR", "OK"} \subseteq RxStatus
    BY DEF RxStatus
  <2> QED
    BY <2>1, Zenon DEF Header, Payload
<1>2. /\ [rx EXCEPT !.status = s] \in rx_status_t
      /\ [rx EXCEPT !.status = s].state = NotSearching
  BY StatusTypes, StatesKept
<1>3. i \in RxQueued
  BY DEF RxQueued
<1> QED
  BY <1>1, <1>2, <1>3, RxDoneOutcome, ContinueOutcome

LEMMA ReceptionOutcome ==
  ASSUME StateOK, InTime, NEW d \in Dev, Consistent(d),
         fq[d].index \in {Rx_Found, Rx_Sync, Rx_Header, Rx_Payload},
         f_rx_found(d) \/ f_rx_sync(d) \/ f_rx_header(d) \/ f_rx_payload(d)
  PROVE  Outcome(d) /\ SameTxs
<1>1. /\ used[d] = TXS_OFF /\ rx_a[d].state = NotSearching
      /\ rx_a[d] \in rx_status_t
  BY OffAir
  DEF TxQueued, Rx_Found, Rx_Sync, Rx_Header, Rx_Payload, Tx_Abort_Reeval,
      Tx_Packet_Start, Tx_Packet_End, Tx_End, Rx_Search_reeval
<1>2. CASE f_rx_found(d)
  BY <1>1, <1>2, RxFoundOutcome DEF f_rx_found
<1>3. CASE f_rx_sync(d) \/ f_rx_header(d) \/ f_rx_payload(d)
  <2>1. PICK msgs \in RecheckMsgs(d) :
          \/ RecheckExits(d, msgs)
          \/ RecheckLeaves(d, rx_a[d], msgs)
          \/ \E rx \in Rechecked(d, TRUE) : Sync(d, rx, msgs)
          \/ \E rx0 \in Rechecked(d, FALSE) : \E rx \in BitErrorCalc(rx0) :
               Header(d, rx, msgs) \/ Payload(d, rx, msgs)
    BY <1>3, Zenon DEF f_rx_sync, f_rx_header, f_rx_payload
  <2>2. ASSUME NEW rx \in Rechecked(d, TRUE), Sync(d, rx, msgs)
        PROVE  Outcome(d) /\ SameTxs
    <3>1. rx \in rx_status_t /\ rx.state = NotSearching
      BY <1>1, RecheckedState
    <3> QED
      BY <1>1, <2>2, <3>1, SyncOutcome
  <2>3. ASSUME NEW rx0 \in Rechecked(d, FALSE), NEW rx \in BitErrorCalc(rx0),
               Header(d, rx, msgs) \/ Payload(d, rx, msgs)
        PROVE  Outcome(d) /\ SameTxs
    <3>1. rx0 \in rx_status_t /\ rx0.state = NotSearching
      BY <1>1, RecheckedState
    <3>2. rx \in rx_status_t /\ rx.state = NotSearching
      BY <3>1, BitErrorCalcType, StatesKept
    <3> QED
      BY <1>1, <2>3, <3>2, HeaderPayloadOutcome
  <2> QED
    BY <1>1, <2>1, <2>2, <2>3, RecheckEndsOutcome, Zenon
<1> QED
  BY <1>2, <1>3

------------------------------------------------------------------------------
(***************************************************************************)
(* Transmissions.                                                          *)
(***************************************************************************)
LEMMA TxEventIndex ==
  \A t, u : \E time, i : /\ i \in TxQueued
                         /\ tx_schedule_next_event(t, u) = Event(time, i)
<1> SUFFICES ASSUME NEW t, NEW u
             PROVE  \E time, i : /\ i \in TxQueued
                                 /\ tx_schedule_next_event(t, u) = Event(time, i)
  OBVIOUS
<1>1. /\ Tx_Abort_Reeval \in TxQueued /\ Tx_Packet_Start \in TxQueued
      /\ Tx_Packet_End \in TxQueued /\ Tx_End \in TxQueued
  BY DEF TxQueued
<1> QED
  BY <1>1, Zenon DEF tx_schedule_next_event

(***************************************************************************)
(* A device that is on the air, with the receivers it may have activated.  *)
(***************************************************************************)
LEMMA OnAirOutcome ==
  ASSUME StateOK, NEW d \in Dev, rx_a[d].state = NotSearching,
         NEW e, NEW q, NEW t,
         \/ q = fq /\ rx_a' = rx_a
         \/ q = ActivatedFq(t) /\ rx_a' = ActivatedRx(t, d),
         \E time, i : i \in TxQueued /\ e = Event(time, i),
         fq' = [q EXCEPT ![d] = e],
         used'[d] # TXS_OFF, \A x \in Dev \ {d} : used'[x] = used[x],
         UNCHANGED <<nbr_active_devs, phase>>
  PROVE  Outcome(d)
<1>1. d \notin Activated(t)
  BY DEF Activated, Searching, NotSearching
<1>2. rx_a'[d] = rx_a[d]
  BY <1>1 DEF ActivatedRx
<1>3. q \in [Dev -> Entry] \/ q = ActivatedFq(t)
  BY DEF StateOK
<1>4. fq'[d] = e /\ \A x \in Dev \ {d} : fq'[x] = q[x]
  BY <1>3 DEF ActivatedFq
<1>5. fq'[d].index \in TxQueued
  BY <1>4 DEF Event
<1>6. Counts(d) /\ Consistent(d)'
  BY <1>2, <1>5
  DEF Counts, Consistent, TxQueued, Searching, NotSearching, State_None,
      Tx_Abort_Reeval, Tx_Packet_Start, Tx_Packet_End, Tx_End,
      Rx_Search_reeval, Rx_Found
<1>7. ASSUME NEW x \in Dev \ {d}
      PROVE  \/ fq'[x] = fq[x] /\ rx_a'[x] = rx_a[x]
             \/ /\ rx_a[x].state = Searching
                /\ fq'[x].index = Rx_Found
                /\ rx_a'[x].state = NotSearching
                /\ rx_a'[x].tx_nbr = d
  <2>1. CASE q = fq /\ rx_a' = rx_a
    BY <1>4, <2>1
  <2>2. CASE /\ q = ActivatedFq(t) /\ rx_a' = ActivatedRx(t, d)
             /\ x \notin Activated(t)
    BY <1>4, <2>2 DEF ActivatedFq, ActivatedRx
  <2>3. CASE /\ q = ActivatedFq(t) /\ rx_a' = ActivatedRx(t, d)
             /\ x \in Activated(t)
    <3>1. rx_a[x].state = Searching /\ rx_a[x] \in rx_status_t
      BY <2>3 DEF Activated, StateOK
    <3>2. fq'[x] = Event(current_time, Rx_Found)
      BY <1>4, <2>3 DEF ActivatedFq
    <3>3. rx_a'[x] = [rx_a[x] EXCEPT !.tx_nbr = d, !.state = NotSearching]
      BY <2>3 DEF ActivatedRx
    <3>4. rx_a'[x].state = NotSearching /\ rx_a'[x].tx_nbr = d
      BY <3>1, <3>3, Zenon DEF rx_status_t
    <3> QED
      BY <3>1, <3>2, <3>4 DEF Event
  <2> QED
    BY <2>1, <2>2, <2>3
<1>8. Others(d)
  BY <1>7 DEF Others
<1> QED
  BY <1>6, <1>8 DEF Outcome

LEMMA FlagsOn ==
  ASSUME NEW u \in [Dev -> TxsFlags], NEW d \in Dev
  PROVE  /\ txl_start_tx(u, d)[d] # TXS_OFF
         /\ txl_start_packet(u, d)[d] # TXS_OFF
         /\ txl_end_packet(u, d)[d] # TXS_OFF
         /\ txl_clear(u, d)[d] = TXS_OFF
         /\ \A x \in Dev \ {d} : /\ txl_start_tx(u, d)[x] = u[x]
                                 /\ txl_start_packet(u, d)[x] = u[x]
                                 /\ txl_end_packet(u, d)[x] = u[x]
                                 /\ txl_clear(u, d)[x] = u[x]
BY DEF txl_start_tx, txl_start_packet, txl_end_packet, txl_clear, TXS_OFF,
       TXS_NOISE, TXS_PACKET_ONGOING, TXS_PACKET_STARTED, TXS_PACKET_ENDED

LEMMA TxStartOutcome ==
  ASSUME StateOK, NEW d \in Dev, Consistent(d), fq[d].index = Tx_Start,
         MaxTxNbrIsHighest, phase # "error", f_tx_start(d)
  PROVE  Outcome(d) /\ MaxTxNbrIsHighest'
<1> DEFINE t == tx_list[d]
           started == t.start_packet_time <= current_time
           u == IF started THEN txl_start_packet(txl_start_tx(used, d), d)
                           ELSE txl_start_tx(used, d)
<1>1. rx_a[d].state = NotSearching
  BY OffAir DEF Tx_Start, Rx_Search_reeval
<1>2. u[d] # TXS_OFF /\ \A x \in Dev \ {d} : u[x] = used[x]
  <2>1. /\ used \in [Dev -> TxsFlags]
        /\ txl_start_tx(used, d) \in [Dev -> TxsFlags]
    BY TxsFlagsType DEF StateOK
  <2> QED
    BY <2>1, FlagsOn
<1>3. /\ used' = u /\ max_tx_nbr' = BSMax(max_tx_nbr, d)
      /\ rx_a' = IF started THEN ActivatedRx(t, d) ELSE rx_a
      /\ fq' = [IF started THEN ActivatedFq(t) ELSE fq EXCEPT
                  ![d] = tx_schedule_next_event(t, u[d])]
      /\ UNCHANGED <<nbr_active_devs, phase>>
  BY DEF f_tx_start
<1> HIDE DEF u, started, t
<1>4. Outcome(d)
  <2> DEFINE q == IF started THEN ActivatedFq(t) ELSE fq
             e == tx_schedule_next_event(t, u[d])
  <2>1. \/ q = fq /\ rx_a' = rx_a
        \/ q = ActivatedFq(t) /\ rx_a' = ActivatedRx(t, d)
    BY <1>3
  <2>2. fq' = [q EXCEPT ![d] = e]
    BY <1>3
  <2>3. \E time, i : i \in TxQueued /\ e = Event(time, i)
    BY TxEventIndex
  <2>4. /\ used'[d] # TXS_OFF /\ \A x \in Dev \ {d} : used'[x] = used[x]
        /\ UNCHANGED <<nbr_active_devs, phase>>
    BY <1>2, <1>3
  <2> HIDE DEF q, e
  <2> QED
    BY <1>1, <2>1, <2>2, <2>3, <2>4, OnAirOutcome
<1>5. MaxTxNbrIsHighest'
  <2>1. max_tx_nbr \in DevOrNone /\ Dev \subseteq Int
    BY DEF StateOK, Dev
  <2>2. /\ \A x \in Dev : used[x] # TXS_OFF => x <= max_tx_nbr
        /\ max_tx_nbr # -1 => used[max_tx_nbr] # TXS_OFF
    BY DEF MaxTxNbrIsHighest
  <2>3. \A x \in Dev : u[x] # TXS_OFF => x <= BSMax(max_tx_nbr, d)
    BY <1>2, <2>1, <2>2 DEF BSMax, DevOrNone
  <2>4. BSMax(max_tx_nbr, d) # -1 => u[BSMax(max_tx_nbr, d)] # TXS_OFF
    BY <1>2, <2>1, <2>2 DEF BSMax, DevOrNone
  <2> QED
    BY <1>3, <2>3, <2>4 DEF MaxTxNbrIsHighest
<1> QED
  BY <1>4, <1>5

LEMMA TxPacketOutcome ==
  ASSUME StateOK, NEW d \in Dev, Consistent(d),
         fq[d].index \in {Tx_Packet_Start, Tx_Packet_End},
         MaxTxNbrIsHighest, phase # "error",
         f_tx_packet_start(d) \/ f_tx_packet_end(d)
  PROVE  Outcome(d) /\ MaxTxNbrIsHighest'
<1>1. rx_a[d].state = NotSearching /\ used[d] # TXS_OFF
  BY OffAir
  DEF Consistent, TxQueued, Tx_Packet_Start, Tx_Packet_End, Rx_Search_reeval
<1>2. used'[d] # TXS_OFF /\ \A x \in Dev \ {d} : used'[x] = used[x]
  <2>1. used \in [Dev -> TxsFlags]
    BY DEF StateOK
  <2> QED
    BY <2>1, FlagsOn DEF f_tx_packet_start, f_tx_packet_end
<1>3. PICK q, u :
        /\ \/ q = fq /\ rx_a' = rx_a
           \/ q = ActivatedFq(tx_list[d]) /\ rx_a' = ActivatedRx(tx_list[d], d)
        /\ fq' = [q EXCEPT ![d] = tx_schedule_next_event(tx_list[d], u)]
        /\ UNCHANGED <<nbr_active_devs, phase, max_tx_nbr>>
  BY Zenon DEF f_tx_packet_start, f_tx_packet_end
<1>4. Outcome(d)
  <2> DEFINE e == tx_schedule_next_event(tx_list[d], u)
  <2>1. \E time, i : i \in TxQueued /\ e = Event(time, i)
    BY TxEventIndex
  <2>2. fq' = [q EXCEPT ![d] = e]
    BY <1>3
  <2> HIDE DEF e
  <2> QED
    BY <1>1, <1>2, <1>3, <2>1, <2>2, OnAirOutcome
<1>5. MaxTxNbrIsHighest'
  <2>1. \A x \in Dev : used'[x] # TXS_OFF <=> used[x] # TXS_OFF
    BY <1>1, <1>2
  <2>2. max_tx_nbr \in DevOrNone
    BY DEF StateOK
  <2> QED
    BY <1>3, <2>1, <2>2 DEF MaxTxNbrIsHighest, DevOrNone
<1> QED
  BY <1>4, <1>5

(***************************************************************************)
(* What the loop of txl_clear() finds is the highest device that is left   *)
(* on the air.                                                             *)
(***************************************************************************)
LEMMA ClearedHighest ==
  ASSUME StateOK, NEW d \in Dev, MaxTxNbrIsHighest, phase # "error",
         NEW m \in DevOrNone, HighestUsed(txl_clear(used, d), max_tx_nbr, m),
         used' = txl_clear(used, d), max_tx_nbr' = m
  PROVE  MaxTxNbrIsHighest'
<1>1. max_tx_nbr \in Int /\ m \in Int /\ Dev \subseteq Int
  BY DEF StateOK, DevOrNone, Dev
<1>2. /\ used'[d] = TXS_OFF /\ \A x \in Dev \ {d} : used'[x] = used[x]
  BY FlagsOn DEF StateOK
<1>3. ASSUME NEW x \in Dev, used'[x] # TXS_OFF
      PROVE  x <= m
  <2>1. x <= max_tx_nbr
    BY <1>2, <1>3 DEF MaxTxNbrIsHighest
  <2>2. ~(m < x /\ x <= max_tx_nbr)
    BY <1>3 DEF HighestUsed
  <2> QED
    BY <1>1, <2>1, <2>2
<1>4. m # -1 => used'[m] # TXS_OFF
  BY DEF HighestUsed
<1> QED
  BY <1>3, <1>4 DEF MaxTxNbrIsHighest

LEMMA TxEndOutcome ==
  ASSUME StateOK, NEW d \in Dev, Consistent(d), fq[d].index = Tx_End,
         MaxTxNbrIsHighest, phase # "error", f_tx_end(d)
  PROVE  Outcome(d) /\ MaxTxNbrIsHighest'
<1>1. rx_a[d].state = NotSearching /\ rx_a[d] \in rx_status_t
  BY OffAir DEF Tx_End, Rx_Search_reeval
<1>2. /\ txl_clear(used, d) \in [Dev -> TxsFlags]
      /\ txl_clear(used, d)[d] = TXS_OFF
      /\ \A x \in Dev \ {d} : txl_clear(used, d)[x] = used[x]
  BY TxsFlagsType, FlagsOn DEF StateOK
<1>3. PICK m \in DevOrNone :
        /\ HighestUsed(txl_clear(used, d), max_tx_nbr, m)
        /\ p2G4_handle_next_request(d, txl_clear(used, d), m, rx_a[d],
                                    cca_a[d], <<Msg(d, "TX_END", "none")>>)
  BY DEF f_tx_end
<1>4. /\ Outcome(d)
      /\ \/ phase' = "error"
         \/ used' = txl_clear(used, d) /\ max_tx_nbr' = m
  BY <1>1, <1>2, <1>3, NextRequestOutcome
<1>5. CASE phase' = "error"
  BY <1>4, <1>5 DEF MaxTxNbrIsHighest
<1>6. CASE used' = txl_clear(used, d) /\ max_tx_nbr' = m
  BY <1>3, <1>4, <1>6, ClearedHighest
<1> QED
  BY <1>4, <1>5, <1>6

LEMMA TxAbortReevalOutcome ==
  ASSUME StateOK, NEW d \in Dev, Consistent(d), fq[d].index = Tx_Abort_Reeval,
         MaxTxNbrIsHighest, phase # "error", f_tx_abort_reeval(d)
  PROVE  Outcome(d) /\ MaxTxNbrIsHighest'
<1>1. rx_a[d].state = NotSearching /\ used[d] # TXS_OFF
  BY OffAir DEF Consistent, TxQueued, Tx_Abort_Reeval, Rx_Search_reeval
<1>2. \/ phase' = "error"
      \/ /\ DeviceLeaves(d)
         /\ used' = txl_clear(used, d)
         /\ \E m \in DevOrNone :
              HighestUsed(txl_clear(used, d), max_tx_nbr, m) /\ max_tx_nbr' = m
         /\ fq' = fq_remove(fq, d)
         /\ UNCHANGED <<phase, rx_a>>
      \/ /\ \E t : fq' = [fq EXCEPT ![d] = tx_schedule_next_event(t, used[d])]
         /\ UNCHANGED <<nbr_active_devs, phase, used, max_tx_nbr, rx_a>>
  BY Zenon DEF f_tx_abort_reeval, Exit
<1>3. CASE phase' = "error"
  BY <1>3 DEF Outcome, MaxTxNbrIsHighest
<1>4. CASE /\ DeviceLeaves(d)
           /\ used' = txl_clear(used, d)
           /\ \E m \in DevOrNone :
                HighestUsed(txl_clear(used, d), max_tx_nbr, m) /\ max_tx_nbr' = m
           /\ fq' = fq_remove(fq, d)
           /\ UNCHANGED <<phase, rx_a>>
  <2>1. used'[d] = TXS_OFF /\ \A x \in Dev \ {d} : used'[x] = used[x]
    BY <1>4, FlagsOn DEF StateOK
  <2>2. nbr_active_devs' \in {nbr_active_devs - 1, 0}
    BY <1>4, Zenon DEF DeviceLeaves
  <2>3. Outcome(d)
    BY <1>1, <1>4, <2>1, <2>2, LeavesOutcome
  <2> QED
    BY <1>4, <2>3, ClearedHighest
<1>5. CASE /\ \E t : fq' = [fq EXCEPT ![d] = tx_schedule_next_event(t, used[d])]
           /\ UNCHANGED <<nbr_active_devs, phase, used, max_tx_nbr, rx_a>>
  <2>1. PICK t : fq' = [fq EXCEPT ![d] = tx_schedule_next_event(t, used[d])]
    BY <1>5
  <2> DEFINE e == tx_schedule_next_event(t, used[d])
  <2>2. \E time, i : i \in TxQueued /\ e = Event(time, i)
    BY TxEventIndex
  <2>3. fq' = [fq EXCEPT ![d] = e]
    BY <2>1
  <2> HIDE DEF e
  <2>4. Outcome(d)
    BY <1>1, <1>5, <2>2, <2>3, OnAirOutcome
  <2> QED
    BY <1>5, <2>4 DEF MaxTxNbrIsHighest
<1> QED
  BY <1>2, <1>3, <1>4, <1>5
=============================================================================
