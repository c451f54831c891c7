---------------------------- MODULE PhyTypeProofs ----------------------------
(***************************************************************************)
(* The type correctness of Phy.                                            *)
(***************************************************************************)
EXTENDS Phy, SequenceTheorems, TLAPS

Entry == [time : Time, index : f_index_t]

(***************************************************************************)
(* The type of what the handlers change.                                   *)
(***************************************************************************)
StateOK ==
  /\ nbr_active_devs \in Nat
  /\ phase \in {"boot", "running", "ended", "error"}
  /\ fq \in [Dev -> Entry]
  /\ used \in [Dev -> TxsFlags]
  /\ max_tx_nbr \in DevOrNone
  /\ tx_list \in [Dev -> Txv2]
  /\ rx_a \in [Dev -> rx_status_t]
  /\ cca_a \in [Dev -> cca_status_t]
  /\ sent \in Seq(Message)

(***************************************************************************)
(* When a handler runs.                                                    *)
(***************************************************************************)
InTime == current_time \in 0 .. sim_length /\ nbr_active_devs > 0

------------------------------------------------------------------------------
(***************************************************************************)
(* The events, times and queues that the helpers build are well typed.     *)
(***************************************************************************)
LEMMA EventType ==
  ASSUME NEW t \in Time, NEW i \in f_index_t
  PROVE  Event(t, i) \in Entry
BY DEF Event, Entry

LEMMA MinType ==
  ASSUME NEW a \in Nat, NEW b \in Time
  PROVE  BSMin(a, b) \in Time /\ BSMin(b, a) \in Time
BY NeverAssumption DEF BSMin, Time

LEMMA BeforeAfterType ==
  ASSUME NEW t \in Nat
  PROVE  Before(t) \in Nat /\ After(t) \in Nat
BY NeverAssumption DEF Before, After

LEMMA QueueType ==
  ASSUME NEW q \in [Dev -> Entry], NEW d \in Dev
  PROVE  /\ fq_remove(q, d) \in [Dev -> Entry]
         /\ \A t \in Time, i \in f_index_t : fq_add(q, t, i, d) \in [Dev -> Entry]
<1>1. Event(TIME_NEVER, State_None) \in Entry
  BY NeverAssumption, EventType DEF Time, f_index_t, State_None, Tx_Start
<1>2. fq_remove(q, d) \in [Dev -> Entry]
  BY <1>1 DEF fq_remove
<1>3. ASSUME NEW t \in Time, NEW i \in f_index_t
      PROVE  fq_add(q, t, i, d) \in [Dev -> Entry]
  BY EventType DEF fq_add
<1> QED
  BY <1>2, <1>3

LEMMA IndexTypes ==
  {State_None, Wait_Done, Tx_End, Tx_Packet_End, Rx_CCA_meas, RSSI_Meas,
   Rx_Found, Rx_Sync, Rx_Header, Rx_Payload, Tx_Abort_Reeval, Tx_Packet_Start,
   Rx_Search_reeval, Rx_Search_start, Tx_Start} \subseteq f_index_t
BY DEF f_index_t, State_None, Wait_Done, Tx_End, Tx_Packet_End, Rx_CCA_meas,
       RSSI_Meas, Rx_Found, Rx_Sync, Rx_Header, Rx_Payload, Tx_Abort_Reeval,
       Tx_Packet_Start, Rx_Search_reeval, Rx_Search_start, Tx_Start

------------------------------------------------------------------------------
(***************************************************************************)
(* Messages.                                                               *)
(***************************************************************************)
Text == {"WAIT_END", "TX_END", "RSSI_END", "CCA_END", "RX_END", "RXV2_END",
         "RX_ADDRESSFOUND", "RXV2_ADDRESSFOUND", "ABORTREEVAL",
         "IMMRSSI_RRSI_DONE"}

LEMMA MsgType ==
  ASSUME NEW d \in Dev, NEW m \in Text, NEW status \in RxStatus, InTime
  PROVE  Msg(d, m, status) \in Message
BY SimLengthAssumption, NeverAssumption DEF Msg, Message, Text, InTime, Time

LEMMA ReevaluationType ==
  ASSUME NEW d \in Dev, NEW n \in Nat, InTime
  PROVE  Reevaluation(d, n) \in Seq(Message)
<1>1. "none" \in RxStatus
  BY DEF RxStatus
<1>2. /\ Msg(d, "ABORTREEVAL", "none") \in Message
      /\ Msg(d, "IMMRSSI_RRSI_DONE", "none") \in Message
  BY <1>1, MsgType DEF Text
<1>3. <<Msg(d, "ABORTREEVAL", "none")>> \in Seq(Message)
  BY <1>2
<1>4. [k \in 1 .. n |-> Msg(d, "IMMRSSI_RRSI_DONE", "none")] \in Seq(Message)
  BY <1>2, IsASeq
<1> QED
  BY <1>3, <1>4, ConcatProperties DEF Reevaluation

------------------------------------------------------------------------------
(***************************************************************************)
(* A product of 32 bits is a natural number.                               *)
(***************************************************************************)
LEMMA Uint32Type ==
  ASSUME NEW n \in Nat
  PROVE  uint32(n) \in Nat
BY SMT DEF uint32

(***************************************************************************)
(* A supported error rate gives two natural numbers.                       *)
(***************************************************************************)
LEMMA ErrorCalcType ==
  ASSUME NEW rate \in Nat, ErrorCalcSupported(rate)
  PROVE  /\ ErrorCalc(rate).errorspercalc \in Nat
         /\ ErrorCalc(rate).rate_uspercalc \in Nat
<1> DEFINE Least(t) == \A s \in Multiples(rate) : t <= s
<1>1. CASE rate % 1000000 = 0
  <2>1. rate \div 1000000 \in Nat
    OBVIOUS
  <2> QED
    BY <1>1, <2>1 DEF ErrorCalc, Calc
<1>2. CASE rate % 1000000 # 0 /\ 1000000 % rate = 0
  <2>1. rate > 0
    BY <1>2
  <2>2. 1000000 \div rate \in Nat
    BY <2>1
  <2> QED
    BY <1>2, <2>2 DEF ErrorCalc, Calc
<1>3. CASE rate % 1000000 # 0 /\ 1000000 % rate # 0
  <2>1. Multiples(rate) # {} /\ Multiples(rate) \subseteq 2 .. 4
    BY <1>3 DEF ErrorCalcSupported, Multiples
  <2>2. \E t \in Multiples(rate) : Least(t)
    <3>1. CASE 2 \in Multiples(rate)
      BY <2>1, <3>1
    <3>2. CASE 2 \notin Multiples(rate) /\ 3 \in Multiples(rate)
      BY <2>1, <3>2
    <3>3. CASE 2 \notin Multiples(rate) /\ 3 \notin Multiples(rate)
      BY <2>1, <3>3
    <3> QED
      BY <3>1, <3>2, <3>3
  <2> DEFINE t == CHOOSE t \in Multiples(rate) : Least(t)
  <2>3. t \in {2, 3, 4}
    BY <2>1, <2>2
  <2>4. ErrorCalc(rate) = Calc(uint32(rate * t) \div 1000000, t)
    BY <1>3 DEF ErrorCalc
  <2> HIDE DEF t
  <2>5. uint32(rate * t) \in Nat
    BY <2>3, Uint32Type
  <2>6. uint32(rate * t) \div 1000000 \in Nat
    BY <2>5
  <2> QED
    BY <2>3, <2>4, <2>6 DEF Calc
<1> QED
  BY <1>1, <1>2, <1>3

(***************************************************************************)
(* The statuses that a request starts are well typed.                      *)
(***************************************************************************)
LEMMA MappedTypes ==
  /\ \A t \in Txv1 : map_txv1_to_txv2(t) \in Txv2
  /\ \A r \in Rxv1 : map_rxv1_to_rxv2(r) \in Rxv2
<1>1. ASSUME NEW t \in Txv1
      PROVE  map_txv1_to_txv2(t) \in Txv2
  BY DEF map_txv1_to_txv2, Txv1, Txv2
<1>2. ASSUME NEW r \in Rxv1
      PROVE  map_rxv1_to_rxv2(r) \in Rxv2
  <2>1. r.phy_address \in Nat
    BY DEF Rxv1
  <2>2. <<r.phy_address>> \in Seq(Nat)
    BY <2>1
  <2> QED
    BY <2>2 DEF map_rxv1_to_rxv2, Rxv1, Rxv2
<1> QED
  BY <1>1, <1>2

LEMMA ScanEndType ==
  ASSUME NEW r \in Rxv2, InTime, PAST_CHECK(r.start_time)
  PROVE  ScanEnd(r) \in Nat
<1>1. /\ r.start_time \in Time /\ r.start_time > 0
      /\ r.scan_duration \in Nat
      /\ r.abort.abort_time \in Nat
  BY SimLengthAssumption, NeverAssumption, SMTT(30)
  DEF Rxv2, Abort, Time, InTime, PAST_CHECK
<1>2. TIME_NEVER - 1 \in Nat
  BY <1>1, NeverAssumption DEF Time
<1>3. ScanEndUnlimited(r) \in Nat
  BY <1>1, <1>2, NeverAssumption DEF ScanEndUnlimited, Time
<1> QED
  BY <1>1, <1>3, BeforeAfterType DEF ScanEnd

LEMMA StartedRxType ==
  ASSUME NEW rx \in rx_status_t, NEW r \in Rxv2, NEW v1 \in BOOLEAN,
         InTime, ValidRx(r)
  PROVE  StartedRx(rx, r, v1) \in rx_status_t
<1>1. ScanEnd(r) \in Nat
  BY ScanEndType DEF ValidRx
<1>2. r.error_calc_rate \in Nat
  BY DEF Rxv2
<1>3. /\ ErrorCalc(r.error_calc_rate).errorspercalc \in Nat
      /\ ErrorCalc(r.error_calc_rate).rate_uspercalc \in Nat
  BY <1>2, ErrorCalcType DEF ValidRx
<1>4. /\ rx.tx_nbr \in DevOrNone /\ -1 \in DevOrNone
      /\ "none" \in RxStatus
  BY DEF rx_status_t, DevOrNone, RxStatus
<1>5. (IF r.prelocked_tx THEN rx.tx_nbr ELSE -1) \in DevOrNone
  BY <1>4
<1>6. 0 \in Nat /\ 0 \in Int /\ TRUE \in BOOLEAN /\ FALSE \in BOOLEAN
  OBVIOUS
<1> QED
  BY <1>1, <1>3, <1>4, <1>5, <1>6, ZenonT(60) DEF StartedRx, rx_status_t

LEMMA StartedCcaType ==
  ASSUME NEW c \in Cca, InTime, PAST_CHECK(c.start_time)
  PROVE  StartedCca(c) \in cca_status_t
<1>1. c.start_time \in Nat /\ c.start_time > 0 /\ c.scan_duration \in Nat
  BY SimLengthAssumption, NeverAssumption DEF Cca, Time, InTime, PAST_CHECK
<1> QED
  BY <1>1 DEF StartedCca, cca_status_t

------------------------------------------------------------------------------
(***************************************************************************)
(* What the devices send is well typed.                                    *)
(***************************************************************************)
LEMMA RequestTypes ==
  ASSUME NEW q \in Request
  PROVE  /\ q.msg \in {"WAIT", "RSSIMEAS"} => q.time \in Time
         /\ q.msg = "TX" => q.body \in Txv1
         /\ q.msg = "TXV2" => q.body \in Txv2
         /\ q.msg = "RX" => q.body \in Rxv1
         /\ q.msg = "RXV2" => q.body \in Rxv2
         /\ q.msg = "CCA_MEAS" => q.body \in Cca
BY DEF Request

LEMMA NewAbortsType ==
  ASSUME NEW d \in Dev, InTime
  PROVE  NewAborts(d) \subseteq Abort
<1>1. AbortReplies(d, current_time) \subseteq AbortReply
  BY DevicesAssumption DEF InTime
<1>2. ASSUME NEW r \in AbortReply, r.msg = "RERESP_ABORTREEVAL"
      PROVE  r.abort \in Abort
  BY <1>2 DEF AbortReply
<1> QED
  BY <1>1, <1>2 DEF NewAborts

(***************************************************************************)
(* The parts of the state that a request may change.                       *)
(***************************************************************************)
LEMMA PreparedTxTypes ==
  ASSUME StateOK, NEW d \in Dev,
         NEW u \in [Dev -> TxsFlags], NEW t \in Txv2, prepare_tx(d, u, t)
  PROVE  /\ used' \in [Dev -> TxsFlags]
         /\ tx_list' \in [Dev -> Txv2]
         /\ fq' \in [Dev -> Entry]
<1>1. t.start_tx_time \in Time
  BY DEF Txv2
<1>2. TXS_OFF \in TxsFlags
  BY DEF TXS_OFF, TxsFlags
<1>3. fq' \in [Dev -> Entry]
  BY <1>1, QueueType, IndexTypes DEF StateOK, prepare_tx
<1> QED
  BY <1>2, <1>3 DEF StateOK, prepare_tx, txl_register

LEMMA PreparedRxTypes ==
  ASSUME StateOK, InTime, NEW d \in Dev,
         NEW rx \in rx_status_t, NEW r \in Rxv2, NEW v1 \in BOOLEAN,
         ValidRx(r), prepare_rx(d, rx, r, v1)
  PROVE  rx_a' \in [Dev -> rx_status_t] /\ fq' \in [Dev -> Entry]
<1>1. r.start_time \in Time
  BY DEF Rxv2
<1>2. fq' \in [Dev -> Entry]
  BY <1>1, QueueType, IndexTypes DEF StateOK, prepare_rx
<1> QED
  BY <1>2, StartedRxType DEF StateOK, prepare_rx

LEMMA PreparedCcaTypes ==
  ASSUME StateOK, InTime, NEW d \in Dev,
         NEW c \in Cca, PAST_CHECK(c.start_time), prepare_CCA(d, c)
  PROVE  cca_a' \in [Dev -> cca_status_t] /\ fq' \in [Dev -> Entry]
<1>1. c.start_time \in Time
  BY DEF Cca
<1>2. fq' \in [Dev -> Entry]
  BY <1>1, QueueType, IndexTypes DEF StateOK, prepare_CCA
<1> QED
  BY <1>2, StartedCcaType DEF StateOK, prepare_CCA

(***************************************************************************)
(* The handler of the next request leaves a well-typed state.              *)
(***************************************************************************)
LEMMA NextRequestType ==
  ASSUME StateOK, InTime, NEW d \in Dev, NEW u \in [Dev -> TxsFlags],
         NEW m \in DevOrNone, NEW rx \in rx_status_t, NEW cca \in cca_status_t,
         NEW msgs \in Seq(Message),
         p2G4_handle_next_request(d, u, m, rx, cca, msgs)
  PROVE  StateOK'
<1>1. PICK q \in Requests(d, current_time) :
        \/ ~ValidRequest(q) /\ Exit(msgs)
        \/ /\ ValidRequest(q)
           /\ Accepted(q, d, u, rx, cca)
           /\ sent' = msgs
           /\ max_tx_nbr' = m
           /\ UNCHANGED phase
  BY DEF p2G4_handle_next_request
<1>2. q \in Request
  BY DevicesAssumption DEF InTime
<1>3. CASE ~ValidRequest(q) /\ Exit(msgs)
  BY <1>3 DEF StateOK, Exit
<1>4. CASE /\ ValidRequest(q)
           /\ Accepted(q, d, u, rx, cca)
           /\ sent' = msgs
           /\ max_tx_nbr' = m
           /\ UNCHANGED phase
  <2> DEFINE SameTx == NoTxReq(u)
             SameRx == NoRxReq(d, rx)
             SameCca == NoCcaReq(d, cca)
  <2>1. SameTx => used' \in [Dev -> TxsFlags] /\ tx_list' \in [Dev -> Txv2]
    BY DEF StateOK, NoTxReq
  <2>2. SameRx => rx_a' \in [Dev -> rx_status_t]
    BY DEF StateOK, NoRxReq
  <2>3. SameCca => cca_a' \in [Dev -> cca_status_t]
    BY DEF StateOK, NoCcaReq
  <2>4. UNCHANGED nbr_active_devs => nbr_active_devs' \in Nat
    BY DEF StateOK
  <2> HIDE DEF SameTx, SameRx, SameCca
  <2> SUFFICES /\ nbr_active_devs' \in Nat
               /\ fq' \in [Dev -> Entry]
               /\ used' \in [Dev -> TxsFlags]
               /\ tx_list' \in [Dev -> Txv2]
               /\ rx_a' \in [Dev -> rx_status_t]
               /\ cca_a' \in [Dev -> cca_status_t]
    BY <1>4 DEF StateOK
  <2>5. CASE Leaves(q, d) /\ SameTx /\ SameRx /\ SameCca
    <3>1. nbr_active_devs' \in Nat
      BY <2>5 DEF Leaves, StateOK, InTime
    <3>2. fq' \in [Dev -> Entry]
      BY <2>5, QueueType DEF Leaves, StateOK
    <3> QED
      BY <2>1, <2>2, <2>3, <2>5, <3>1, <3>2
  <2>6. CASE Waits(q, d) /\ SameTx /\ SameRx /\ SameCca /\ UNCHANGED nbr_active_devs
    <3>1. q.time \in Time
      BY <1>2, <2>6, RequestTypes DEF Waits
    <3>2. Wait_Done \in f_index_t /\ RSSI_Meas \in f_index_t
      BY IndexTypes
    <3>3. /\ fq_add(fq, q.time, Wait_Done, d) \in [Dev -> Entry]
          /\ fq_add(fq, q.time, RSSI_Meas, d) \in [Dev -> Entry]
      BY <3>1, <3>2, QueueType DEF StateOK
    <3>4. fq' \in [Dev -> Entry]
      BY <2>6, <3>3 DEF Waits
    <3> QED
      BY <2>1, <2>2, <2>3, <2>4, <2>6, <3>4
  <2>7. CASE Transmits(q, d, u) /\ SameRx /\ SameCca /\ UNCHANGED nbr_active_devs
    <3>1. PICK t \in Txv2 : prepare_tx(d, u, t)
      BY <1>2, <2>7, RequestTypes, MappedTypes DEF Transmits
    <3>2. /\ used' \in [Dev -> TxsFlags]
          /\ tx_list' \in [Dev -> Txv2]
          /\ fq' \in [Dev -> Entry]
      BY <3>1, PreparedTxTypes
    <3> QED
      BY <2>2, <2>3, <2>4, <2>7, <3>2
  <2>8. CASE Receives(q, d, rx) /\ SameTx /\ SameCca /\ UNCHANGED nbr_active_devs
    <3>1. PICK r \in Rxv2, v1 \in BOOLEAN : ValidRx(r) /\ prepare_rx(d, rx, r, v1)
      BY <1>2, <1>4, <2>8, RequestTypes, MappedTypes
      DEF Receives, ValidRequest, ValidRxv2
    <3>2. rx_a' \in [Dev -> rx_status_t] /\ fq' \in [Dev -> Entry]
      BY <3>1, PreparedRxTypes
    <3> QED
      BY <2>1, <2>3, <2>4, <2>8, <3>2
  <2>9. CASE /\ q.msg = "CCA_MEAS" /\ prepare_CCA(d, q.body)
             /\ SameTx /\ SameRx /\ UNCHANGED nbr_active_devs
    <3>1. q.body \in Cca /\ PAST_CHECK(q.body.start_time)
      BY <1>2, <1>4, <2>9, RequestTypes DEF ValidRequest, ValidCca
    <3>2. cca_a' \in [Dev -> cca_status_t] /\ fq' \in [Dev -> Entry]
      BY <2>9, <3>1, PreparedCcaTypes
    <3> QED
      BY <2>1, <2>2, <2>4, <2>9, <3>2
  <2> QED
    BY <1>4, <2>5, <2>6, <2>7, <2>8, <2>9 DEF Accepted, SameTx, SameRx, SameCca
<1> QED
  BY <1>1, <1>3, <1>4

------------------------------------------------------------------------------
(***************************************************************************)
(* The handlers of a transmission.                                         *)
(***************************************************************************)
LEMMA TxEventType ==
  ASSUME NEW t \in Txv2, NEW u
  PROVE  tx_schedule_next_event(t, u) \in Entry
<1>1. /\ t.abort.recheck_time \in Time /\ t.abort.abort_time \in Time
      /\ t.end_tx_time \in Time
  BY DEF Txv2, Abort
<1>2. TxEndt(t) \in Time
  BY <1>1 DEF TxEndt, BSMin
<1> QED
  BY <1>1, <1>2, IndexTypes DEF tx_schedule_next_event, Event, Entry

LEMMA TxsFlagsType ==
  ASSUME NEW u \in [Dev -> TxsFlags], NEW d \in Dev
  PROVE  /\ txl_start_tx(u, d) \in [Dev -> TxsFlags]
         /\ txl_start_packet(u, d) \in [Dev -> TxsFlags]
         /\ txl_end_packet(u, d) \in [Dev -> TxsFlags]
         /\ txl_clear(u, d) \in [Dev -> TxsFlags]
BY DEF txl_start_tx, txl_start_packet, txl_end_packet, txl_clear, TxsFlags,
       TXS_OFF, TXS_NOISE, TXS_PACKET_ONGOING, TXS_PACKET_STARTED,
       TXS_PACKET_ENDED

LEMMA FoundType ==
  ASSUME NEW rx \in rx_status_t, NEW i \in DevOrNone
  PROVE  [rx EXCEPT !.tx_nbr = i, !.state = NotSearching] \in rx_status_t
BY Zenon DEF rx_status_t

LEMMA ActivatedType ==
  ASSUME StateOK, InTime, NEW t \in Txv2, NEW d \in Dev
  PROVE  /\ ActivatedRx(t, d) \in [Dev -> rx_status_t]
         /\ ActivatedFq(t) \in [Dev -> Entry]
<1>1. d \in DevOrNone
  BY DEF DevOrNone
<1>2. ActivatedRx(t, d) \in [Dev -> rx_status_t]
  BY <1>1, FoundType DEF ActivatedRx, StateOK
<1>3. current_time \in Time
  BY SimLengthAssumption, NeverAssumption DEF InTime, Time
<1>4. Event(current_time, Rx_Found) \in Entry
  BY <1>3, EventType, IndexTypes
<1> QED
  BY <1>2, <1>4 DEF ActivatedFq, StateOK

LEMMA TxStartType ==
  ASSUME StateOK, InTime, NEW d \in Dev, f_tx_start(d)
  PROVE  StateOK'
<1> DEFINE t == tx_list[d]
           started == t.start_packet_time <= current_time
           u == IF started THEN txl_start_packet(txl_start_tx(used, d), d)
                           ELSE txl_start_tx(used, d)
           r == IF started THEN ActivatedRx(t, d) ELSE rx_a
           q == IF started THEN ActivatedFq(t) ELSE fq
<1>1. t \in Txv2
  BY DEF StateOK
<1>2. u \in [Dev -> TxsFlags]
  BY TxsFlagsType DEF StateOK
<1>3. r \in [Dev -> rx_status_t] /\ q \in [Dev -> Entry]
  BY <1>1, ActivatedType DEF StateOK
<1>4. tx_schedule_next_event(t, u[d]) \in Entry
  BY <1>1, TxEventType
<1>5. BSMax(max_tx_nbr, d) \in DevOrNone
  BY DEF StateOK, BSMax, DevOrNone
<1>6. /\ used' = u /\ max_tx_nbr' = BSMax(max_tx_nbr, d) /\ rx_a' = r
      /\ fq' = [q EXCEPT ![d] = tx_schedule_next_event(t, u[d])]
      /\ sent' = <<>>
      /\ UNCHANGED <<nbr_active_devs, phase, tx_list, cca_a>>
  BY DEF f_tx_start
<1> HIDE DEF u, r, q, t
<1>7. fq' \in [Dev -> Entry]
  BY <1>3, <1>4, <1>6
<1> QED
  BY <1>2, <1>3, <1>5, <1>6, <1>7 DEF StateOK

LEMMA TxPacketType ==
  ASSUME StateOK, InTime, NEW d \in Dev,
         f_tx_packet_start(d) \/ f_tx_packet_end(d)
  PROVE  StateOK'
<1>1. tx_list[d] \in Txv2
  BY DEF StateOK
<1>2. \A u : tx_schedule_next_event(tx_list[d], u) \in Entry
  BY <1>1, TxEventType
<1>3. CASE f_tx_packet_start(d)
  <2>1. /\ ActivatedRx(tx_list[d], d) \in [Dev -> rx_status_t]
        /\ ActivatedFq(tx_list[d]) \in [Dev -> Entry]
        /\ txl_start_packet(used, d) \in [Dev -> TxsFlags]
    BY <1>1, ActivatedType, TxsFlagsType DEF StateOK
  <2> QED
    BY <1>2, <1>3, <2>1 DEF StateOK, f_tx_packet_start
<1>4. CASE f_tx_packet_end(d)
  <2>1. /\ txl_end_packet(used, d) \in [Dev -> TxsFlags]
        /\ tx_schedule_next_event(tx_list[d], txl_end_packet(used, d)[d]) \in Entry
    BY <1>2, TxsFlagsType DEF StateOK
  <2>2. /\ used' = txl_end_packet(used, d)
        /\ fq' = [fq EXCEPT ![d] = tx_schedule_next_event(tx_list[d],
                                     txl_end_packet(used, d)[d])]
        /\ sent' = <<>>
        /\ UNCHANGED <<nbr_active_devs, phase, max_tx_nbr, tx_list, rx_a, cca_a>>
    BY <1>4 DEF f_tx_packet_end
  <2> QED
    BY <2>1, <2>2 DEF StateOK
<1> QED
  BY <1>3, <1>4

LEMMA TxEndType ==
  ASSUME StateOK, InTime, NEW d \in Dev, f_tx_end(d)
  PROVE  StateOK'
<1>1. <<Msg(d, "TX_END", "none")>> \in Seq(Message)
  BY MsgType DEF Text, RxStatus
<1>2. txl_clear(used, d) \in [Dev -> TxsFlags]
  BY TxsFlagsType DEF StateOK
<1>3. rx_a[d] \in rx_status_t /\ cca_a[d] \in cca_status_t
  BY DEF StateOK
<1> QED
  BY <1>1, <1>2, <1>3, NextRequestType DEF f_tx_end

LEMMA LeavesType ==
  ASSUME StateOK, InTime, NEW d \in Dev, DeviceLeaves(d)
  PROVE  nbr_active_devs' \in Nat
BY DEF DeviceLeaves, StateOK, InTime

LEMMA TxAbortReevalType ==
  ASSUME StateOK, InTime, NEW d \in Dev, f_tx_abort_reeval(d)
  PROVE  StateOK'
<1>1. PICK n_imm \in 0 .. MaxImmRssi :
        \/ AbortRefused(d) /\ Exit(Reevaluation(d, n_imm))
        \/ /\ DeviceLeaves(d)
           /\ used' = txl_clear(used, d)
           /\ max_tx_nbr' \in DevOrNone
           /\ fq' = fq_remove(fq, d)
           /\ sent' = Reevaluation(d, n_imm)
           /\ UNCHANGED <<phase, tx_list, rx_a, cca_a>>
        \/ \E abort \in NewAborts(d) :
             LET t == [tx_list[d] EXCEPT !.abort = abort]
             IN /\ tx_list' = [tx_list EXCEPT ![d] = t]
                /\ fq' = [fq EXCEPT ![d] = tx_schedule_next_event(t, used[d])]
                /\ sent' = Reevaluation(d, n_imm)
                /\ UNCHANGED <<nbr_active_devs, phase, used, max_tx_nbr, rx_a, cca_a>>
  BY DEF f_tx_abort_reeval
<1>2. Reevaluation(d, n_imm) \in Seq(Message)
  BY LimitsAssumption, ReevaluationType
<1>3. CASE AbortRefused(d) /\ Exit(Reevaluation(d, n_imm))
  BY <1>2, <1>3 DEF StateOK, Exit
<1>4. CASE /\ DeviceLeaves(d)
           /\ used' = txl_clear(used, d)
           /\ max_tx_nbr' \in DevOrNone
           /\ fq' = fq_remove(fq, d)
           /\ sent' = Reevaluation(d, n_imm)
           /\ UNCHANGED <<phase, tx_list, rx_a, cca_a>>
  <2>1. fq_remove(fq, d) \in [Dev -> Entry] /\ txl_clear(used, d) \in [Dev -> TxsFlags]
    BY QueueType, TxsFlagsType DEF StateOK
  <2>2. nbr_active_devs' \in Nat
    BY <1>4, LeavesType
  <2> QED
    BY <1>2, <1>4, <2>1, <2>2 DEF StateOK
<1>5. ASSUME NEW abort \in NewAborts(d), NEW t,
             t = [tx_list[d] EXCEPT !.abort = abort],
             tx_list' = [tx_list EXCEPT ![d] = t],
             fq' = [fq EXCEPT ![d] = tx_schedule_next_event(t, used[d])],
             sent' = Reevaluation(d, n_imm),
             UNCHANGED <<nbr_active_devs, phase, used, max_tx_nbr, rx_a, cca_a>>
      PROVE  StateOK'
  <2>1. abort \in Abort
    BY NewAbortsType
  <2>2. tx_list[d] \in Txv2
    BY DEF StateOK
  <2>3. t \in Txv2
    BY <1>5, <2>1, <2>2 DEF Txv2
  <2>4. tx_schedule_next_event(t, used[d]) \in Entry
    BY <2>3, TxEventType
  <2> QED
    BY <1>2, <1>5, <2>3, <2>4 DEF StateOK
<1> QED
  BY <1>1, <1>3, <1>4, <1>5

------------------------------------------------------------------------------
(***************************************************************************)
(* The statuses that the handlers of a reception make.                     *)
(***************************************************************************)
LEMMA ReevaluatedType ==
  ASSUME NEW rx \in rx_status_t, NEW abort \in Abort, NEW scanning \in BOOLEAN
  PROVE  Reevaluated(rx, abort, scanning) \in rx_status_t
<1>1. abort.abort_time \in Nat /\ rx.scan_end \in Nat /\ rx.rx_s \in Rxv2
  BY NeverAssumption DEF Abort, Time, rx_status_t
<1>2. (IF scanning /\ abort.abort_time < rx.scan_end
       THEN Before(abort.abort_time) ELSE rx.scan_end) \in Nat
  BY <1>1, BeforeAfterType
<1>3. [rx.rx_s EXCEPT !.abort = abort] \in Rxv2
  BY <1>1, Zenon DEF Rxv2
<1> QED
  BY <1>2, <1>3, Zenon DEF Reevaluated, rx_status_t

LEMMA RecheckedType ==
  ASSUME StateOK, InTime, NEW d \in Dev, NEW scanning \in BOOLEAN
  PROVE  /\ Rechecked(d, scanning) \subseteq rx_status_t
         /\ RecheckMsgs(d) \subseteq Seq(Message)
<1>1. rx_a[d] \in rx_status_t
  BY DEF StateOK
<1>2. Rechecked(d, scanning) \subseteq rx_status_t
  BY <1>1, NewAbortsType, ReevaluatedType DEF Rechecked
<1>3. \A n \in 0 .. MaxImmRssi : Reevaluation(d, n) \in Seq(Message)
  BY LimitsAssumption, ReevaluationType
<1>4. <<>> \in Seq(Message)
  OBVIOUS
<1>5. RecheckMsgs(d) \subseteq Seq(Message)
  BY <1>3, <1>4, Zenon DEF RecheckMsgs
<1> QED
  BY <1>2, <1>5

LEMMA StatusTypes ==
  ASSUME NEW rx \in rx_status_t
  PROVE  /\ \A s \in RxStatus : [rx EXCEPT !.status = s] \in rx_status_t
         /\ \A s \in {Searching, NotSearching} : [rx EXCEPT !.state = s] \in rx_status_t
         /\ \A t \in Nat, s \in RxStatus :
              [rx EXCEPT !.rx_time_stamp = t, !.status = s,
                         !.state = NotSearching] \in rx_status_t
         /\ \A t \in Nat, s \in RxStatus :
              [rx EXCEPT !.biterrors = 0, !.rx_time_stamp = t,
                         !.status = s] \in rx_status_t
         /\ \A a \in Abort : [rx EXCEPT !.rx_s.abort = a] \in rx_status_t
<1>1. \A s \in RxStatus : [rx EXCEPT !.status = s] \in rx_status_t
  BY Zenon DEF rx_status_t
<1>2. \A s \in {Searching, NotSearching} : [rx EXCEPT !.state = s] \in rx_status_t
  BY Zenon DEF rx_status_t
<1>3. \A t \in Nat, s \in RxStatus :
        [rx EXCEPT !.rx_time_stamp = t, !.status = s,
                   !.state = NotSearching] \in rx_status_t
  BY Zenon DEF rx_status_t
<1>4. 0 \in Nat
  OBVIOUS
<1>5. \A t \in Nat, s \in RxStatus :
        [rx EXCEPT !.biterrors = 0, !.rx_time_stamp = t,
                   !.status = s] \in rx_status_t
  BY <1>4, Zenon DEF rx_status_t
<1>6. ASSUME NEW a \in Abort
      PROVE  [rx EXCEPT !.rx_s.abort = a] \in rx_status_t
  <2>1. rx.rx_s \in Rxv2
    BY DEF rx_status_t
  <2>2. [rx.rx_s EXCEPT !.abort = a] \in Rxv2
    BY <2>1, Zenon DEF Rxv2
  <2> QED
    BY <2>2, Zenon DEF rx_status_t
<1> QED
  BY <1>1, <1>2, <1>3, <1>5, <1>6

LEMMA PrelockType ==
  ASSUME NEW rx \in rx_status_t
  PROVE  prelock_check(rx) \in rx_status_t
<1>1. rx.rx_s \in Rxv2 /\ -1 \in DevOrNone
  BY DEF rx_status_t, DevOrNone
<1>2. [rx.rx_s EXCEPT !.prelocked_tx = FALSE] \in Rxv2
  BY <1>1, Zenon DEF Rxv2
<1>3. [rx EXCEPT !.tx_nbr = -1, !.rx_s.prelocked_tx = FALSE] \in rx_status_t
  BY <1>1, <1>2, Zenon DEF rx_status_t
<1> QED
  BY <1>3 DEF prelock_check

LEMMA LockedType ==
  ASSUME NEW rx \in rx_status_t, NEW t \in Txv2
  PROVE  Locked(rx, t) \in rx_status_t
<1> DEFINE sync_end == t.start_packet_time
                         + BSMax(rx.rx_s.pream_and_addr_duration - 1, 0)
<1>1. /\ rx.rx_s.pream_and_addr_duration \in Nat
      /\ rx.rx_s.header_duration \in Nat
      /\ rx.rx_s.acceptable_pre_truncation \in Nat
  BY DEF rx_status_t, Rxv2
<1>2. t.start_packet_time \in Nat /\ t.end_packet_time \in Nat
  BY NeverAssumption DEF Txv2, Time
<1>3. sync_end \in Nat
  BY <1>1, <1>2 DEF BSMax
<1> HIDE DEF sync_end
<1>4. /\ sync_end + rx.rx_s.header_duration \in Nat
      /\ t.start_packet_time + rx.rx_s.acceptable_pre_truncation \in Nat
      /\ 0 \in Nat /\ FALSE \in BOOLEAN
  BY <1>1, <1>2, <1>3
<1>5. [rx EXCEPT !.sync_end = sync_end,
                 !.header_end = sync_end + rx.rx_s.header_duration,
                 !.payload_end = t.end_packet_time,
                 !.biterrors = 0,
                 !.sync_start = t.start_packet_time
                                  + rx.rx_s.acceptable_pre_truncation,
                 !.tx_lost = FALSE] \in rx_status_t
  BY <1>2, <1>3, <1>4, Zenon DEF rx_status_t
<1> QED
  BY <1>5 DEF Locked, sync_end

LEMMA BitErrorCalcType ==
  ASSUME NEW rx \in rx_status_t
  PROVE  BitErrorCalc(rx) \subseteq rx_status_t
<1>1. /\ rx.us_to_next_calc \in Int /\ rx.rate_uspercalc \in Nat
      /\ rx.biterrors \in Nat /\ rx.errorspercalc \in Nat
      /\ rx.tx_lost \in BOOLEAN
  BY DEF rx_status_t
<1>2. (rx.tx_lost \/ ~PacketOngoing(used, rx.tx_nbr)) \in BOOLEAN
  BY DEF PacketOngoing
<1>3. /\ rx.rate_uspercalc - 1 \in Int /\ rx.us_to_next_calc - 1 \in Int
      /\ \A errors \in 0 .. rx.errorspercalc : rx.biterrors + errors \in Nat
  BY <1>1
<1>4. \A errors \in 0 .. rx.errorspercalc :
        [rx EXCEPT !.us_to_next_calc = rx.rate_uspercalc - 1,
                   !.tx_lost = @ \/ ~PacketOngoing(used, rx.tx_nbr),
                   !.biterrors = @ + errors] \in rx_status_t
  BY <1>2, <1>3, Zenon DEF rx_status_t
<1>5. [rx EXCEPT !.us_to_next_calc = @ - 1] \in rx_status_t
  BY <1>3, Zenon DEF rx_status_t
<1> QED
  BY <1>4, <1>5, Zenon DEF BitErrorCalc

------------------------------------------------------------------------------
(***************************************************************************)
(* The handlers of a reception.                                            *)
(***************************************************************************)
LEMMA ContinueType ==
  ASSUME StateOK, NEW d \in Dev, NEW rx \in rx_status_t, NEW e \in Entry,
         NEW msgs \in Seq(Message), Continue(d, rx, e, msgs)
  PROVE  StateOK'
BY DEF Continue, StateOK

LEMMA NowType ==
  ASSUME InTime
  PROVE  current_time \in Nat /\ current_time \in Time
BY SimLengthAssumption, NeverAssumption DEF InTime, Time

(***************************************************************************)
(* The microsecond after now, when an event may be queued: the simulation  *)
(* is not over.                                                            *)
(***************************************************************************)
LEMMA NextMicrosecondType ==
  ASSUME InTime, current_time < sim_length
  PROVE  current_time + 1 \in Time
BY SimLengthAssumption, NeverAssumption DEF InTime, Time

LEMMA RxRespondType ==
  ASSUME InTime, NEW d \in Dev, NEW rx \in rx_status_t
  PROVE  rx_respond_done(d, rx) \in Message /\ rx_resp_addr_found(d, rx) \in Message
<1>1. rx.status \in RxStatus
  BY DEF rx_status_t
<1>2. /\ Msg(d, "RX_END", rx.status) \in Message
      /\ Msg(d, "RXV2_END", rx.status) \in Message
      /\ Msg(d, "RX_ADDRESSFOUND", rx.status) \in Message
      /\ Msg(d, "RXV2_ADDRESSFOUND", rx.status) \in Message
  BY <1>1, MsgType DEF Text
<1> QED
  BY <1>2, Zenon DEF rx_respond_done, rx_resp_addr_found

LEMMA RxDoneType ==
  ASSUME StateOK, InTime, NEW d \in Dev, NEW rx \in rx_status_t,
         NEW msgs \in Seq(Message), RxDone(d, rx, msgs)
  PROVE  StateOK'
<1>1. rx_respond_done(d, rx) \in Message
  BY RxRespondType
<1>2. Append(msgs, rx_respond_done(d, rx)) \in Seq(Message)
  BY <1>1, AppendProperties
<1>3. /\ used \in [Dev -> TxsFlags] /\ max_tx_nbr \in DevOrNone
      /\ cca_a[d] \in cca_status_t
  BY DEF StateOK
<1> QED
  BY <1>2, <1>3, NextRequestType DEF RxDone

LEMMA ScanEndedType ==
  ASSUME StateOK, InTime, NEW d \in Dev, NEW rx \in rx_status_t,
         NEW msgs \in Seq(Message), rx_scan_ended(d, rx, msgs)
  PROVE  StateOK'
<1> DEFINE rx1 == [rx EXCEPT !.rx_time_stamp = current_time, !.status = "NOSYNC",
                             !.state = NotSearching]
<1>1. rx1 \in rx_status_t
  BY NowType, StatusTypes DEF RxStatus
<1>2. RxDone(d, rx1, msgs)
  BY DEF rx_scan_ended
<1> QED
  BY <1>1, <1>2, RxDoneType

LEMMA EnqueueSearchType ==
  ASSUME StateOK, NEW d \in Dev, NEW rx \in rx_status_t,
         NEW msgs \in Seq(Message), rx_enqueue_search_reeval(d, rx, msgs)
  PROVE  StateOK'
<1>1. rx.scan_end \in Nat /\ rx.rx_s.abort.recheck_time \in Time
  BY DEF rx_status_t, Rxv2, Abort
<1>2. BSMin(After(rx.scan_end), rx.rx_s.abort.recheck_time) \in Time
  BY <1>1, BeforeAfterType, MinType
<1>3. Event(BSMin(After(rx.scan_end), rx.rx_s.abort.recheck_time),
            Rx_Search_reeval) \in Entry
  BY <1>2, EventType, IndexTypes
<1>4. [rx EXCEPT !.state = Searching] \in rx_status_t
  BY StatusTypes
<1> QED
  BY <1>3, <1>4, ContinueType DEF rx_enqueue_search_reeval

LEMMA NextSyncType ==
  ASSUME NEW rx \in rx_status_t
  PROVE  NextSync(rx) \in Entry
<1>1. /\ rx.sync_start \in Nat /\ rx.scan_end \in Nat
      /\ rx.rx_s.abort.recheck_time \in Time
  BY DEF rx_status_t, Rxv2, Abort
<1>2. BSMin(rx.sync_start, rx.rx_s.abort.recheck_time) \in Time
  BY <1>1, MinType
<1>3. BSMin(BSMin(rx.sync_start, rx.rx_s.abort.recheck_time),
            After(rx.scan_end)) \in Time
  BY <1>1, <1>2, BeforeAfterType, MinType
<1> QED
  BY <1>3, EventType, IndexTypes DEF NextSync

LEMMA RxFoundType ==
  ASSUME StateOK, InTime, NEW d \in Dev, NEW rx \in rx_status_t,
         rx.tx_nbr \in Dev, NEW msgs \in Seq(Message), RxFound(d, rx, msgs)
  PROVE  StateOK'
<1> DEFINE locked == Locked(rx, tx_list[rx.tx_nbr])
<1>1. tx_list[rx.tx_nbr] \in Txv2
  BY DEF StateOK
<1>2. locked \in rx_status_t
  BY <1>1, LockedType
<1>3. NextSync(locked) \in Entry
  BY <1>2, NextSyncType
<1>4. \/ Continue(d, locked, NextSync(locked), msgs)
      \/ rx_enqueue_search_reeval(d, rx, msgs)
  BY DEF RxFound
<1> HIDE DEF locked
<1> QED
  BY <1>2, <1>3, <1>4, ContinueType, EnqueueSearchType

LEMMA RecheckEndsType ==
  ASSUME StateOK, InTime, NEW d \in Dev, NEW msgs \in Seq(Message)
  PROVE  /\ RecheckExits(d, msgs) => StateOK'
         /\ \A rx \in rx_status_t : RecheckLeaves(d, rx, msgs) => StateOK'
<1>1. RecheckExits(d, msgs) => StateOK'
  BY DEF RecheckExits, Exit, StateOK
<1>2. ASSUME NEW rx \in rx_status_t, RecheckLeaves(d, rx, msgs)
      PROVE  StateOK'
  <2>1. nbr_active_devs' \in Nat
    BY <1>2, LeavesType DEF RecheckLeaves
  <2>2. fq_remove(fq, d) \in [Dev -> Entry]
    BY QueueType DEF StateOK
  <2> QED
    BY <1>2, <2>1, <2>2 DEF RecheckLeaves, StateOK
<1> QED
  BY <1>1, <1>2

LEMMA SearchStartType ==
  ASSUME StateOK, InTime, NEW d \in Dev, NEW rx \in rx_status_t,
         NEW msgs \in Seq(Message), SearchStart(d, rx, msgs)
  PROVE  StateOK'
<1> DEFINE rx1 == IF rx.rx_s.prelocked_tx THEN prelock_check(rx) ELSE rx
<1>1. rx1 \in rx_status_t
  BY PrelockType
<1>2. PICK i \in DevOrNone :
        IF i # -1
        THEN RxFound(d, [rx1 EXCEPT !.tx_nbr = i, !.state = NotSearching], msgs)
        ELSE rx_enqueue_search_reeval(d, rx1, msgs)
  BY DEF SearchStart
<1> HIDE DEF rx1
<1>3. CASE i # -1
  <2> DEFINE rx2 == [rx1 EXCEPT !.tx_nbr = i, !.state = NotSearching]
  <2>1. i \in Dev
    BY <1>3 DEF DevOrNone
  <2>2. rx2 \in rx_status_t
    BY <1>1, FoundType
  <2>3. rx2.tx_nbr = i
    BY <1>1, Zenon DEF rx_status_t
  <2>4. RxFound(d, rx2, msgs)
    BY <1>2, <1>3
  <2> HIDE DEF rx2
  <2> QED
    BY <2>1, <2>2, <2>3, <2>4, RxFoundType
<1>4. CASE i = -1
  BY <1>1, <1>2, <1>4, EnqueueSearchType
<1> QED
  BY <1>3, <1>4

LEMMA SearchType ==
  ASSUME StateOK, InTime, NEW d \in Dev,
         f_rx_search_start(d) \/ f_rx_search_reeval(d)
  PROVE  StateOK'
<1>1. PICK msgs \in RecheckMsgs(d) :
        \/ RecheckExits(d, msgs)
        \/ RecheckLeaves(d, [rx_a[d] EXCEPT !.state = NotSearching], msgs)
        \/ \E rx \in Rechecked(d, TRUE) :
             \/ SearchStart(d, rx, msgs)
             \/ rx_scan_ended(d, rx, msgs)
             \/ rx_enqueue_search_reeval(d, rx, msgs)
  BY Zenon DEF f_rx_search_start, f_rx_search_reeval
<1>2. msgs \in Seq(Message)
  BY RecheckedType
<1>3. [rx_a[d] EXCEPT !.state = NotSearching] \in rx_status_t
  BY StatusTypes DEF StateOK
<1>4. ASSUME NEW rx \in Rechecked(d, TRUE),
             \/ SearchStart(d, rx, msgs)
             \/ rx_scan_ended(d, rx, msgs)
             \/ rx_enqueue_search_reeval(d, rx, msgs)
      PROVE  StateOK'
  <2>1. rx \in rx_status_t
    BY RecheckedType
  <2> QED
    BY <1>2, <1>4, <2>1, SearchStartType, ScanEndedType, EnqueueSearchType
<1> QED
  BY <1>1, <1>2, <1>3, <1>4, RecheckEndsType, Zenon

LEMMA SyncLostType ==
  ASSUME StateOK, InTime, current_time < sim_length, NEW d \in Dev,
         NEW rx \in rx_status_t, NEW msgs \in Seq(Message), SyncLost(d, rx, msgs)
  PROVE  StateOK'
<1>1. Event(current_time + 1, Rx_Search_start) \in Entry
  BY NextMicrosecondType, EventType, IndexTypes
<1> QED
  BY <1>1, ContinueType DEF SyncLost

LEMMA SyncDoneType ==
  ASSUME StateOK, InTime, current_time < sim_length, NEW d \in Dev,
         NEW rx0 \in rx_status_t, NEW msgs0 \in Seq(Message),
         SyncDone(d, rx0, msgs0)
  PROVE  StateOK'
<1> DEFINE rx == [rx0 EXCEPT !.biterrors = 0, !.rx_time_stamp = rx0.sync_end,
                             !.status = "INPROGRESS"]
           msgs == Append(msgs0, rx_resp_addr_found(d, rx))
           cont(a) == [rx EXCEPT !.rx_s.abort = a]
<1>1. rx0.sync_end \in Nat
  BY DEF rx_status_t
<1>2. rx \in rx_status_t
  BY <1>1, StatusTypes DEF RxStatus
<1>3. msgs \in Seq(Message)
  BY <1>2, RxRespondType, AppendProperties
<1>4. PICK reply \in HeaderReplies(d, current_time) :
        \/ /\ nbr_active_devs' \in {nbr_active_devs - 1, 0}
           /\ fq' \in {fq_remove(fq, d), fq}
           /\ rx_a' = [rx_a EXCEPT ![d] = rx]
           /\ sent' = msgs
           /\ UNCHANGED <<phase, used, max_tx_nbr, tx_list, cca_a>>
        \/ Continue(d, rx, AfterSync(rx), msgs)
        \/ /\ reply.msg = "RXV2CONT"
           /\ Continue(d, cont(reply.abort), AfterSync(rx), msgs)
        \/ Exit(msgs)
        \/ p2G4_handle_next_request(d, used, max_tx_nbr, rx, cca_a[d], msgs)
  BY Zenon DEF SyncDone
<1>5. reply \in HeaderReply
  BY DevicesAssumption DEF InTime
<1>6. \A a \in Abort : cont(a) \in rx_status_t
  BY <1>2, StatusTypes
<1>7. AfterSync(rx) \in Entry
  <2>1. current_time + 0 \in Time /\ current_time + 1 \in Time
    BY NowType, NextMicrosecondType
  <2>2. Rx_Payload \in f_index_t /\ Rx_Header \in f_index_t
    BY IndexTypes
  <2> HIDE DEF rx
  <2> QED
    BY <2>1, <2>2, EventType DEF AfterSync
<1> HIDE DEF rx, msgs, cont
<1>8. CASE /\ nbr_active_devs' \in {nbr_active_devs - 1, 0}
           /\ fq' \in {fq_remove(fq, d), fq}
           /\ rx_a' = [rx_a EXCEPT ![d] = rx]
           /\ sent' = msgs
           /\ UNCHANGED <<phase, used, max_tx_nbr, tx_list, cca_a>>
  <2>1. nbr_active_devs' \in Nat
    BY <1>8 DEF StateOK, InTime
  <2>2. fq' \in [Dev -> Entry]
    BY <1>8, QueueType DEF StateOK
  <2> QED
    BY <1>2, <1>3, <1>8, <2>1, <2>2 DEF StateOK
<1>9. CASE Continue(d, rx, AfterSync(rx), msgs)
  BY <1>2, <1>3, <1>7, <1>9, ContinueType
<1>10. CASE /\ reply.msg = "RXV2CONT"
            /\ Continue(d, cont(reply.abort), AfterSync(rx), msgs)
  <2>1. reply.abort \in Abort
    BY <1>5, <1>10 DEF HeaderReply
  <2> QED
    BY <1>3, <1>6, <1>7, <1>10, <2>1, ContinueType
<1>11. CASE Exit(msgs)
  BY <1>3, <1>11 DEF Exit, StateOK
<1>12. CASE p2G4_handle_next_request(d, used, max_tx_nbr, rx, cca_a[d], msgs)
  <2>1. /\ used \in [Dev -> TxsFlags] /\ max_tx_nbr \in DevOrNone
        /\ cca_a[d] \in cca_status_t
    BY DEF StateOK
  <2> QED
    BY <1>2, <1>3, <1>12, <2>1, NextRequestType
<1> QED
  BY <1>4, <1>8, <1>9, <1>10, <1>11, <1>12

LEMMA SyncType ==
  ASSUME StateOK, InTime, current_time < sim_length, NEW d \in Dev,
         NEW rx \in rx_status_t, NEW msgs \in Seq(Message), Sync(d, rx, msgs)
  PROVE  StateOK'
<1>1. \/ rx_scan_ended(d, rx, msgs)
      \/ Continue(d, rx, NextSync(rx), msgs)
      \/ SyncLost(d, rx, msgs)
      \/ \E rx1 \in BitErrorCalc(rx) :
           \/ SyncLost(d, rx1, msgs)
           \/ SyncDone(d, rx1, msgs)
           \/ Continue(d, rx1, Event(current_time + 1, Rx_Sync), msgs)
  BY Zenon DEF Sync
<1>2. BitErrorCalc(rx) \subseteq rx_status_t
  BY BitErrorCalcType
<1>3. Event(current_time + 1, Rx_Sync) \in Entry /\ NextSync(rx) \in Entry
  BY NextMicrosecondType, NextSyncType, EventType, IndexTypes
<1> QED
  BY <1>1, <1>2, <1>3, ScanEndedType, ContinueType, SyncLostType, SyncDoneType

LEMMA HeaderPayloadType ==
  ASSUME StateOK, InTime, current_time < sim_length, NEW d \in Dev,
         NEW rx \in rx_status_t, NEW msgs \in Seq(Message),
         Header(d, rx, msgs) \/ Payload(d, rx, msgs)
  PROVE  StateOK'
<1>1. PICK s \in RxStatus, i \in {Rx_Header, Rx_Payload} :
        \/ RxDone(d, [rx EXCEPT !.status = s], msgs)
        \/ Continue(d, rx, Event(current_time + 1, i), msgs)
  <2>1. {"HEADER_ERROR", "PACKET_CONTENT_ERROR", "OK"} \subseteq RxStatus
    BY DEF RxStatus
  <2> QED
    BY <2>1, Zenon DEF Header, Payload
<1>2. Event(current_time + 1, i) \in Entry
  BY NextMicrosecondType, EventType, IndexTypes
<1>3. [rx EXCEPT !.status = s] \in rx_status_t
  BY StatusTypes
<1> QED
  BY <1>1, <1>2, <1>3, RxDoneType, ContinueType

LEMMA ReceptionType ==
  ASSUME StateOK, InTime, current_time < sim_length, NEW d \in Dev,
         f_rx_sync(d) \/ f_rx_header(d) \/ f_rx_payload(d)
  PROVE  StateOK'
<1>1. PICK msgs \in RecheckMsgs(d) :
        \/ RecheckExits(d, msgs)
        \/ RecheckLeaves(d, rx_a[d], msgs)
        \/ \E rx \in Rechecked(d, TRUE) : Sync(d, rx, msgs)
        \/ \E rx0 \in Rechecked(d, FALSE) : \E rx \in BitErrorCalc(rx0) :
             Header(d, rx, msgs) \/ Payload(d, rx, msgs)
  BY Zenon DEF f_rx_sync, f_rx_header, f_rx_payload
<1>2. msgs \in Seq(Message) /\ rx_a[d] \in rx_status_t
  BY RecheckedType DEF StateOK
<1>3. /\ Rechecked(d, TRUE) \subseteq rx_status_t
      /\ Rechecked(d, FALSE) \subseteq rx_status_t
  BY RecheckedType
<1>4. \A rx0 \in Rechecked(d, FALSE) : BitErrorCalc(rx0) \subseteq rx_status_t
  BY <1>3, BitErrorCalcType
<1> QED
  BY <1>1, <1>2, <1>3, <1>4, RecheckEndsType, SyncType, HeaderPayloadType, Zenon

------------------------------------------------------------------------------
(***************************************************************************)
(* The handlers of waits, RSSI measurements and CCA searches.              *)
(***************************************************************************)
LEMMA WaitType ==
  ASSUME StateOK, InTime, NEW d \in Dev, f_wait_done(d) \/ f_RSSI_meas(d)
  PROVE  StateOK'
<1>1. /\ <<Msg(d, "WAIT_END", "none")>> \in Seq(Message)
      /\ <<Msg(d, "RSSI_END", "none")>> \in Seq(Message)
  BY MsgType DEF Text, RxStatus
<1>2. PICK msgs \in Seq(Message) :
        p2G4_handle_next_request(d, used, max_tx_nbr, rx_a[d], cca_a[d], msgs)
  BY <1>1, Zenon DEF f_wait_done, f_RSSI_meas, NextRequest
<1>3. /\ used \in [Dev -> TxsFlags] /\ max_tx_nbr \in DevOrNone
      /\ rx_a[d] \in rx_status_t /\ cca_a[d] \in cca_status_t
  BY DEF StateOK
<1> QED
  BY <1>2, <1>3, NextRequestType

LEMMA MeasuredType ==
  ASSUME InTime, NEW cca \in cca_status_t
  PROVE  Measurements(cca) \subseteq cca_status_t
<1>1. ASSUME NEW level \in BOOLEAN, NEW modulated \in BOOLEAN
      PROVE  Measured(cca, level, modulated) \in cca_status_t
  <2> DEFINE end == IF \/ level /\ StopsOnLevel(cca.req)
                       \/ modulated /\ StopsOnModulation(cca.req)
                    THEN current_time ELSE cca.scan_end
  <2>1. /\ cca.rssi_overthreshold \in BOOLEAN /\ cca.mod_found \in BOOLEAN
        /\ cca.scan_end \in Nat /\ cca.next_meas \in Nat /\ cca.n_meas \in Nat
        /\ cca.req \in Cca
    BY DEF cca_status_t
  <2>2. end \in Nat
    BY <2>1, NowType
  <2> HIDE DEF end
  <2>3. /\ cca.next_meas + cca.req.scan_period \in Nat /\ cca.n_meas + 1 \in Nat
    BY <2>1 DEF Cca
  <2>4. /\ (cca.rssi_overthreshold \/ level) \in BOOLEAN
        /\ (cca.mod_found \/ modulated) \in BOOLEAN
    BY <2>1
  <2>5. [cca EXCEPT !.rssi_overthreshold = @ \/ level,
                    !.mod_found = @ \/ modulated,
                    !.scan_end = end,
                    !.next_meas = @ + cca.req.scan_period,
                    !.n_meas = @ + 1] \in cca_status_t
    BY <2>2, <2>3, <2>4, Zenon DEF cca_status_t
  <2> QED
    BY <2>5 DEF Measured, end
<1> DEFINE M == IF find_fitting_tx_cca(cca.req) THEN BOOLEAN ELSE {FALSE}
           all == {Measured(cca, level, modulated) : level \in BOOLEAN, modulated \in M}
<1>2. M \subseteq BOOLEAN
  OBVIOUS
<1>3. Measurements(cca) = IF current_time >= cca.next_meas THEN all ELSE {cca}
  BY DEF Measurements
<1> HIDE DEF M
<1>4. all \subseteq cca_status_t
  BY <1>1, <1>2
<1> HIDE DEF all
<1> QED
  BY <1>3, <1>4

LEMMA CcaRecheckedType ==
  ASSUME StateOK, InTime, NEW d \in Dev
  PROVE  /\ CcaRechecked(d) \subseteq cca_status_t
         /\ CcaMsgs(d) \subseteq Seq(Message)
<1>1. cca_a[d] \in cca_status_t
  BY DEF StateOK
<1>2. ASSUME NEW abort \in Abort
      PROVE  CcaReevaluated(cca_a[d], abort) \in cca_status_t
  <2>1. /\ cca_a[d].req \in Cca /\ cca_a[d].scan_end \in Nat
        /\ abort.abort_time \in Nat
    BY <1>1, NeverAssumption DEF cca_status_t, Abort, Time
  <2>2. BSMin(cca_a[d].scan_end, abort.abort_time) \in Nat
    BY <2>1 DEF BSMin
  <2>3. [cca_a[d].req EXCEPT !.abort = abort] \in Cca
    BY <2>1, Zenon DEF Cca
  <2> QED
    BY <1>1, <2>2, <2>3, Zenon DEF CcaReevaluated, cca_status_t
<1>3. CcaRechecked(d) \subseteq cca_status_t
  BY <1>1, <1>2, NewAbortsType, Zenon DEF CcaRechecked
<1>4. \A n \in 0 .. MaxImmRssi : Reevaluation(d, n) \in Seq(Message)
  BY LimitsAssumption, ReevaluationType
<1>5. <<>> \in Seq(Message)
  OBVIOUS
<1>6. CcaMsgs(d) \subseteq Seq(Message)
  BY <1>4, <1>5, Zenon DEF CcaMsgs
<1> QED
  BY <1>3, <1>6

LEMMA CcaMeasType ==
  ASSUME StateOK, InTime, NEW d \in Dev, f_cca_meas(d)
  PROVE  StateOK'
<1>1. PICK msgs \in CcaMsgs(d) :
        \/ Exit(msgs)
        \/ /\ DeviceLeaves(d)
           /\ fq' = fq_remove(fq, d)
           /\ sent' = msgs
           /\ UNCHANGED <<phase, used, max_tx_nbr, tx_list, rx_a, cca_a>>
        \/ \E cca0 \in CcaRechecked(d) : \E cca \in Measurements(cca0) :
             \/ p2G4_handle_next_request(d, used, max_tx_nbr, rx_a[d], cca,
                                         Append(msgs, Msg(d, "CCA_END", "none")))
             \/ /\ cca_a' = [cca_a EXCEPT ![d] = cca]
                /\ fq' = [fq EXCEPT ![d] = NextCcaEvent(cca)]
                /\ sent' = msgs
                /\ UNCHANGED <<nbr_active_devs, phase, used, max_tx_nbr, tx_list, rx_a>>
  BY Zenon DEF f_cca_meas
<1>2. msgs \in Seq(Message)
  BY CcaRecheckedType
<1>3. CASE Exit(msgs)
  BY <1>2, <1>3 DEF Exit, StateOK
<1>4. CASE /\ DeviceLeaves(d)
           /\ fq' = fq_remove(fq, d)
           /\ sent' = msgs
           /\ UNCHANGED <<phase, used, max_tx_nbr, tx_list, rx_a, cca_a>>
  <2>1. nbr_active_devs' \in Nat /\ fq_remove(fq, d) \in [Dev -> Entry]
    BY <1>4, LeavesType, QueueType DEF StateOK
  <2> QED
    BY <1>2, <1>4, <2>1 DEF StateOK
<1>5. ASSUME NEW cca0 \in CcaRechecked(d), NEW cca \in Measurements(cca0),
             \/ p2G4_handle_next_request(d, used, max_tx_nbr, rx_a[d], cca,
                                         Append(msgs, Msg(d, "CCA_END", "none")))
             \/ /\ cca_a' = [cca_a EXCEPT ![d] = cca]
                /\ fq' = [fq EXCEPT ![d] = NextCcaEvent(cca)]
                /\ sent' = msgs
                /\ UNCHANGED <<nbr_active_devs, phase, used, max_tx_nbr, tx_list, rx_a>>
      PROVE  StateOK'
  <2>1. cca \in cca_status_t
    BY CcaRecheckedType, MeasuredType
  <2>2. /\ cca.scan_end \in Nat /\ cca.req.abort.recheck_time \in Time
        /\ cca.next_meas \in Nat
    BY <2>1 DEF cca_status_t, Cca, Abort
  <2>3. NextCcaEvent(cca) \in Entry
    <3>1. BSMin(cca.scan_end, cca.req.abort.recheck_time) \in Time
      BY <2>2, MinType
    <3>2. BSMin(BSMin(cca.scan_end, cca.req.abort.recheck_time),
                cca.next_meas) \in Time
      BY <2>2, <3>1, MinType
    <3> QED
      BY <3>2, EventType, IndexTypes DEF NextCcaEvent
  <2>4. Append(msgs, Msg(d, "CCA_END", "none")) \in Seq(Message)
    <3>1. Msg(d, "CCA_END", "none") \in Message
      BY MsgType DEF Text, RxStatus
    <3> QED
      BY <1>2, <3>1, AppendProperties
  <2>5. /\ used \in [Dev -> TxsFlags] /\ max_tx_nbr \in DevOrNone
        /\ rx_a[d] \in rx_status_t
    BY DEF StateOK
  <2>6. CASE p2G4_handle_next_request(d, used, max_tx_nbr, rx_a[d], cca,
                                      Append(msgs, Msg(d, "CCA_END", "none")))
    BY <2>1, <2>4, <2>5, <2>6, NextRequestType
  <2>7. CASE /\ cca_a' = [cca_a EXCEPT ![d] = cca]
             /\ fq' = [fq EXCEPT ![d] = NextCcaEvent(cca)]
             /\ sent' = msgs
             /\ UNCHANGED <<nbr_active_devs, phase, used, max_tx_nbr, tx_list, rx_a>>
    BY <1>2, <2>1, <2>3, <2>7 DEF StateOK
  <2> QED
    BY <1>5, <2>6, <2>7
<1> QED
  BY <1>1, <1>3, <1>4, <1>5
=============================================================================
