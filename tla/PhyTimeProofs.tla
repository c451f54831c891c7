---------------------------- MODULE PhyTimeProofs ----------------------------
(***************************************************************************)
(* When Phy calls a device, for any number of devices and whatever the     *)
(* devices request and answer.                                             *)
(*                                                                         *)
(* The inductive invariant TimelyInv says of every device whose event is   *)
(* queued how the time of that event relates to what the device asked for: *)
(* to the scan and the abort of its reception, to the end of its           *)
(* transmission, to the period of its CCA search.  A handler leaves its    *)
(* own device timely, and touches another one only to move it from         *)
(* searching to having found the packet that starts now.                   *)
(*                                                                         *)
(* What needs the devices to keep to WellAsked has WellAsked as a          *)
(* condition inside the invariant: that no event is queued in the past,    *)
(* and that a receiver still finds the packet it was activated for.        *)
(***************************************************************************)
EXTENDS PhyProofs

Scanning == {Rx_Search_start, Rx_Search_reeval, Rx_Found, Rx_Sync}

(***************************************************************************)
(* errors of them every us microseconds, the next ones in left, are what a *)
(* device that asks for rate gets, if no product of 32 bits wraps.         *)
(***************************************************************************)
RateFits(errors, rate, us, left) ==
  /\ rate <= MaxExactRate => errors * 1000000 = rate * us
  /\ 0 <= left
  /\ left < us

RateOK(rx) ==
  RateFits(rx.errorspercalc, rx.rx_s.error_calc_rate, rx.rate_uspercalc,
           rx.us_to_next_calc)

(***************************************************************************)
(* The abort limits the scan, and a recheck never comes in the first       *)
(* microsecond: a new abort that is answered to it lies after time 0, and  *)
(* has a microsecond before it for the scan to end in.                     *)
(***************************************************************************)
ScanOK(rx) ==
  /\ rx.scan_end <= rx.rx_s.abort.abort_time
  /\ 0 < rx.rx_s.abort.recheck_time
  /\ WellAsked => rx.scan_end < TIME_NEVER

RxTimely(e, rx) ==
  /\ e.index \in RxEvents => RateOK(rx)
  /\ e.index \in Scanning => ScanOK(rx) /\ e.time <= rx.scan_end + 1
  /\ e.index \in {Rx_Search_reeval, Rx_Found} =>
       e.time <= rx.rx_s.abort.recheck_time
  /\ e.index \in {Rx_Header, Rx_Payload} => e.time <= rx.rx_s.abort.abort_time + 1

TxTimely(e, t, u) ==
  /\ e.index = Tx_Start =>
       /\ e.time = t.start_tx_time
       /\ t.start_tx_time <= TxEndt(t)
       /\ t.start_tx_time <= t.abort.recheck_time
  /\ e.index \in TxQueued => e.time <= TxEndt(t)
  /\ e.index = Tx_End => e.time = TxEndt(t)
  /\ e.index = Tx_Abort_Reeval => e.time = t.abort.recheck_time
  /\ WellAsked =>
       /\ e.index \in TxQueued \cup {Tx_Start} => SpansOrIsNotRechecked(t)
       /\ e.index \in TxQueued /\ SpansItsTx(t) => TXS_PACKET_ONGOING \in u
       /\ e.index \in {Tx_Packet_Start, Tx_Packet_End} => ~SpansItsTx(t)

CcaLast(req) == BSMax(req.start_time, req.start_time + req.scan_duration - 1)

CcaTimely(e, cca) ==
  e.index = Rx_CCA_meas =>
    /\ cca.next_meas = cca.req.start_time + cca.n_meas * cca.req.scan_period
    /\ e.time <= cca.next_meas
    /\ cca.n_meas = 0 => e.time = cca.req.start_time
    /\ 0 < cca.req.scan_period
    /\ e.time <= CcaLast(cca.req)
    /\ cca.scan_end <= CcaLast(cca.req)

Timely(d) ==
  /\ RxTimely(fq[d], rx_a[d])
  /\ TxTimely(fq[d], tx_list[d], used[d])
  /\ CcaTimely(fq[d], cca_a[d])

(***************************************************************************)
(* What a handler of device d does.                                        *)
(***************************************************************************)
Activates(d, x) ==
  /\ rx_a[x].state = Searching
  /\ tx_and_rx_match(tx_list[d], rx_a[x])
  /\ fq'[x] = Event(current_time, Rx_Found)
  /\ rx_a'[x] = [rx_a[x] EXCEPT !.tx_nbr = d, !.state = NotSearching]
  /\ tx_list'[d] = tx_list[d]
  /\ fq'[d].index \in TxQueued /\ PacketOngoing(used', d)

Elsewhere(d) ==
  \A x \in Dev \ {d} :
    /\ used'[x] = used[x] /\ tx_list'[x] = tx_list[x] /\ cca_a'[x] = cca_a[x]
    /\ \/ fq'[x] = fq[x] /\ rx_a'[x] = rx_a[x]
       \/ Activates(d, x)

Keeps(d) ==
  \/ phase' = "error"
  \/ /\ Elsewhere(d)
     /\ \/ nbr_active_devs' = 0
        \/ Timely(d)' /\ fq'[d].index # Rx_Found
     /\ WellAsked => current_time <= fq'[d].time

------------------------------------------------------------------------------
(***************************************************************************)
(* A device is timely if the status that its event is about agrees with    *)
(* it.                                                                     *)
(***************************************************************************)
LEMMA EventClasses ==
  /\ RxEvents \cap (TxQueued \cup {Tx_Start, Rx_CCA_meas}) = {}
  /\ Rx_CCA_meas \notin TxQueued \cup {Tx_Start}
  /\ Tx_Start \notin TxQueued /\ Rx_Found \notin TxQueued
  /\ Rx_Found \notin {Tx_Start, Rx_CCA_meas}
  /\ Scanning \subseteq RxEvents /\ {Rx_Header, Rx_Payload} \subseteq RxEvents
  /\ Scanning \cap {Rx_Header, Rx_Payload} = {}
  /\ {Rx_Search_reeval, Rx_Found} \subseteq Scanning
  /\ {Tx_End, Tx_Packet_Start, Tx_Packet_End, Tx_Abort_Reeval} = TxQueued
BY DEF RxEvents, Scanning, TxQueued, Tx_Start, Rx_CCA_meas, Rx_Found, Rx_Header,
       Rx_Payload, Rx_Sync, Rx_Search_start, Rx_Search_reeval, Tx_Abort_Reeval,
       Tx_Packet_Start, Tx_Packet_End, Tx_End

LEMMA TimelyByEvent ==
  ASSUME NEW d \in Dev,
         \/ fq'[d].index \in RxEvents /\ RxTimely(fq'[d], rx_a'[d])
         \/ /\ fq'[d].index \in TxQueued \cup {Tx_Start}
            /\ TxTimely(fq'[d], tx_list'[d], used'[d])
         \/ fq'[d].index = Rx_CCA_meas /\ CcaTimely(fq'[d], cca_a'[d])
         \/ fq'[d].index \notin RxEvents \cup TxQueued \cup {Tx_Start, Rx_CCA_meas}
  PROVE  Timely(d)'
<1>1. fq'[d].index \notin RxEvents => RxTimely(fq'[d], rx_a'[d])
  BY EventClasses DEF RxTimely
<1>2. fq'[d].index \notin TxQueued \cup {Tx_Start}
        => TxTimely(fq'[d], tx_list'[d], used'[d])
  BY EventClasses DEF TxTimely
<1>3. fq'[d].index # Rx_CCA_meas => CcaTimely(fq'[d], cca_a'[d])
  BY DEF CcaTimely
<1>4. /\ RxTimely(fq'[d], rx_a'[d])
      /\ TxTimely(fq'[d], tx_list'[d], used'[d])
      /\ CcaTimely(fq'[d], cca_a'[d])
  BY <1>1, <1>2, <1>3, EventClasses
<1> QED
  BY <1>4 DEF Timely

------------------------------------------------------------------------------
(***************************************************************************)
(* Requests.                                                               *)
(***************************************************************************)

(***************************************************************************)
(* A product that fits 32 bits is kept.                                    *)
(***************************************************************************)
LEMMA Uint32Exact ==
  ASSUME NEW n \in Nat, n <= 4294967295
  PROVE  uint32(n) = n
<1>1. n \div 65536 < 65536
  BY SMT
<1> QED
  BY <1>1 DEF uint32

(***************************************************************************)
(* Each of the three ways of calculating errors reaches the rate asked for *)
(* exactly, if its products fit their 32 bits.                             *)
(***************************************************************************)
LEMMA RateReached ==
  ASSUME NEW rate \in Nat, ErrorCalcSupported(rate)
  PROVE  /\ rate <= MaxExactRate =>
              ErrorCalc(rate).errorspercalc * 1000000
                = rate * ErrorCalc(rate).rate_uspercalc
         /\ 0 < ErrorCalc(rate).rate_uspercalc
<1> DEFINE Least(t) == \A s \in Multiples(rate) : t <= s
<1>1. CASE rate % 1000000 = 0
  <2>1. (rate \div 1000000) * 1000000 = rate
    BY <1>1, SMT
  <2> QED
    BY <1>1, <2>1, SMT DEF ErrorCalc, Calc
<1>2. CASE rate % 1000000 # 0 /\ 1000000 % rate = 0
  <2>1. rate \in Nat \ {0}
    BY <1>2, SMT
  <2>2. rate * (1000000 \div rate) = 1000000
    BY <1>2, <2>1, SMT
  <2>3. 0 < 1000000 \div rate
    BY <2>1, <2>2, SMT
  <2> QED
    BY <1>2, <2>2, <2>3, SMT DEF ErrorCalc, Calc
<1>3. CASE rate % 1000000 # 0 /\ 1000000 % rate # 0
  <2>1. Multiples(rate) # {} /\ Multiples(rate) \subseteq 2 .. 4
    BY <1>3, SMT DEF ErrorCalcSupported, Multiples
  <2>2. PICK t \in Multiples(rate) : Least(t)
    BY <2>1
  <2>3. (CHOOSE s \in Multiples(rate) : Least(s)) \in Multiples(rate)
    BY <2>2, Zenon
  <2> DEFINE m == CHOOSE s \in Multiples(rate) : Least(s)
  <2>4. m \in Multiples(rate)
    BY <2>3
  <2>5. ErrorCalc(rate) = Calc(uint32(rate * m) \div 1000000, m)
    BY <1>3, SMT DEF ErrorCalc
  <2> HIDE DEF m
  <2>6. m \in 2 .. 4 /\ uint32(rate * m) % 1000000 = 0
    BY <2>4, SMT DEF Multiples
  <2>7. rate <= MaxExactRate =>
          (uint32(rate * m) \div 1000000) * 1000000 = rate * m
    <3> DEFINE n == rate * m
    <3>1. n \in Nat /\ (rate <= MaxExactRate => n <= 4294967295)
      <4>1. m = 2 \/ m = 3 \/ m = 4
        BY <2>6
      <4> QED
        BY <4>1, SMT DEF MaxExactRate
    <3>2. uint32(n) % 1000000 = 0
      BY <2>6
    <3> HIDE DEF n
    <3>3. rate <= MaxExactRate => uint32(n) = n
      BY <3>1, Uint32Exact
    <3>4. rate <= MaxExactRate => (uint32(n) \div 1000000) * 1000000 = n
      BY <3>1, <3>2, <3>3, SMT
    <3> QED
      BY <3>4 DEF n
  <2> QED
    BY <2>5, <2>6, <2>7, SMT DEF Calc
<1> QED
  BY <1>1, <1>2, <1>3

(***************************************************************************)
(* The scan of a reception that starts.                                    *)
(***************************************************************************)
LEMMA ScanEndLimits ==
  ASSUME NEW r \in Rxv2, InTime, ValidRx(r)
  PROVE  /\ ScanEnd(r) <= r.abort.abort_time
         /\ r.start_time <= ScanEnd(r) + 1
         /\ \/ ScanEnd(r) < TIME_NEVER
            \/ /\ r.scan_duration < UINT32_MAX
               /\ r.start_time + r.scan_duration > TIME_NEVER
<1>1. /\ r.start_time \in Nat /\ 0 < r.start_time /\ r.start_time <= TIME_NEVER
      /\ r.start_time <= r.abort.abort_time
      /\ r.abort.abort_time \in Nat /\ r.abort.abort_time <= TIME_NEVER
      /\ r.scan_duration \in Nat /\ UINT32_MAX \in Nat /\ TIME_NEVER \in Nat
  BY SimLengthAssumption, NeverAssumption, LimitsAssumption, SMTT(30)
  DEF ValidRx, PAST_CHECK, check_valid_abort, InTime, Rxv2, Abort, Time
<1>2. /\ ScanEndUnlimited(r) \in Int
      /\ r.start_time <= ScanEndUnlimited(r) + 1
      /\ \/ ScanEndUnlimited(r) < TIME_NEVER
         \/ /\ r.scan_duration < UINT32_MAX
            /\ r.start_time + r.scan_duration > TIME_NEVER
  BY <1>1 DEF ScanEndUnlimited
<1>3. Before(r.abort.abort_time) = r.abort.abort_time - 1
  BY <1>1 DEF Before
<1> QED
  BY <1>1, <1>2, <1>3 DEF ScanEnd

LEMMA StartedRxTimely ==
  ASSUME NEW rx \in rx_status_t, NEW r \in Rxv2, NEW v1, InTime, ValidRx(r),
         WellAsked => \/ r.scan_duration >= UINT32_MAX
                      \/ r.start_time + r.scan_duration <= TIME_NEVER
  PROVE  RxTimely(Event(r.start_time, Rx_Search_start), StartedRx(rx, r, v1))
<1> DEFINE s == StartedRx(rx, r, v1)
<1>1. /\ s.rx_s = r /\ s.scan_end = ScanEnd(r) /\ s.us_to_next_calc = 0
      /\ s.errorspercalc = ErrorCalc(r.error_calc_rate).errorspercalc
      /\ s.rate_uspercalc = ErrorCalc(r.error_calc_rate).rate_uspercalc
  BY Zenon DEF StartedRx, rx_status_t
<1> HIDE DEF s
<1>2. RateOK(s)
  <2>1. r.error_calc_rate \in Nat /\ ErrorCalcSupported(r.error_calc_rate)
    BY DEF Rxv2, ValidRx
  <2>2. /\ r.error_calc_rate <= MaxExactRate =>
             s.errorspercalc * 1000000 = r.error_calc_rate * s.rate_uspercalc
        /\ 0 < s.rate_uspercalc
    BY <1>1, <2>1, RateReached
  <2> QED
    BY <1>1, <2>2, SMT DEF RateOK, RateFits
<1>3. 0 < r.abort.recheck_time
  BY SimLengthAssumption, NeverAssumption, SMTT(30)
  DEF ValidRx, check_valid_abort, InTime, Rxv2, Abort, Time
<1>4. WellAsked => ScanEnd(r) < TIME_NEVER
  <2>1. /\ r.scan_duration \in Nat /\ UINT32_MAX \in Nat /\ TIME_NEVER \in Nat
        /\ r.start_time \in Nat
    BY LimitsAssumption, NeverAssumption DEF Rxv2, Time
  <2> QED
    BY <2>1, ScanEndLimits
<1>5. ScanOK(s) /\ r.start_time <= s.scan_end + 1
  BY <1>1, <1>3, <1>4, ScanEndLimits DEF ScanOK
<1>6. RxTimely(Event(r.start_time, Rx_Search_start), s)
  BY <1>2, <1>5
  DEF RxTimely, Event, Rx_Search_start, Rx_Search_reeval, Rx_Found, Rx_Header,
      Rx_Payload
<1> QED
  BY <1>6 DEF s

LEMMA StartedCcaTimely ==
  ASSUME NEW c \in Cca, InTime, ValidCca(c)
  PROVE  CcaTimely(Event(c.start_time, Rx_CCA_meas), StartedCca(c))
<1>1. /\ c.start_time \in Nat /\ c.scan_duration \in Nat
      /\ c.scan_period \in Nat /\ c.scan_period # 0
  BY NeverAssumption DEF Cca, Time, ValidCca
<1>2. 0 * c.scan_period = 0
  BY <1>1
<1> QED
  BY <1>1, <1>2 DEF CcaTimely, StartedCca, CcaLast, BSMax, Event

LEMMA StartedTxTimely ==
  ASSUME NEW t \in Txv2, NEW u, InTime, ValidTx(t),
         WellAsked => SpansOrIsNotRechecked(t)
  PROVE  TxTimely(Event(t.start_tx_time, Tx_Start), t, u)
<1>1. /\ t.start_tx_time \in Int /\ t.end_tx_time \in Int
      /\ t.abort.abort_time \in Int /\ t.abort.recheck_time \in Int
      /\ t.start_tx_time <= t.end_tx_time
      /\ t.start_tx_time <= t.abort.abort_time
      /\ t.start_tx_time <= t.abort.recheck_time
  BY NeverAssumption DEF Txv2, Abort, Time, ValidTx, check_valid_abort
<1>2. t.start_tx_time <= TxEndt(t)
  BY <1>1 DEF TxEndt, BSMin
<1> QED
  BY <1>1, <1>2
  DEF TxTimely, Event, TxQueued, Tx_Start, Tx_Abort_Reeval, Tx_Packet_Start,
      Tx_Packet_End, Tx_End

(***************************************************************************)
(* The devices that keep to WellAsked.                                     *)
(***************************************************************************)
LEMMA WellAskedRequests ==
  ASSUME InTime, NEW d \in Dev, NEW q \in Requests(d, current_time)
  PROVE  /\ q \in Request
         /\ WellAsked => PacketSpans(q) /\ ScanFits(q)
BY DevicesAssumption DEF InTime, WellAsked

(***************************************************************************)
(* The next request of device d leaves the other devices alone.            *)
(***************************************************************************)
LEMMA NextRequestFrame ==
  ASSUME StateOK, NEW d \in Dev, NEW q, NEW u \in [Dev -> TxsFlags],
         \A x \in Dev \ {d} : u[x] = used[x],
         NEW rx, NEW cca, Accepted(q, d, u, rx, cca)
  PROVE  Elsewhere(d) /\ \A x \in Dev \ {d} : fq'[x] = fq[x]
<1>1. \A x \in Dev \ {d} : used'[x] = used[x]
  <2>1. used' = u \/ used' = txl_register(u, d)
    BY Zenon DEF Accepted, NoTxReq, Transmits, prepare_tx
  <2> QED
    BY <2>1 DEF txl_register
<1>2. \A x \in Dev \ {d} : tx_list'[x] = tx_list[x]
  <2>1. tx_list' = tx_list \/ \E t : tx_list' = [tx_list EXCEPT ![d] = t]
    BY Zenon DEF Accepted, NoTxReq, Transmits, prepare_tx
  <2> QED
    BY <2>1 DEF StateOK
<1>3. \A x \in Dev \ {d} : rx_a'[x] = rx_a[x]
  <2>1. \E r : rx_a' = [rx_a EXCEPT ![d] = r]
    BY Zenon DEF Accepted, NoRxReq, Receives, prepare_rx
  <2> QED
    BY <2>1 DEF StateOK
<1>4. \A x \in Dev \ {d} : cca_a'[x] = cca_a[x]
  <2>1. \E c : cca_a' = [cca_a EXCEPT ![d] = c]
    BY Zenon DEF Accepted, NoCcaReq, prepare_CCA
  <2> QED
    BY <2>1 DEF StateOK
<1>5. \A x \in Dev \ {d} : fq'[x] = fq[x]
  <2>1. \/ fq' = fq \/ fq' = fq_remove(fq, d)
        \/ \E t, i : fq' = fq_add(fq, t, i, d)
    BY Zenon
    DEF Accepted, Leaves, Waits, Transmits, prepare_tx, Receives, prepare_rx,
        prepare_CCA
  <2> QED
    BY <2>1 DEF StateOK, fq_remove, fq_add
<1> QED
  BY <1>1, <1>2, <1>3, <1>4, <1>5 DEF Elsewhere

LEMMA TransmitsTimely ==
  ASSUME StateOK, InTime, NEW d \in Dev, NEW q \in Request, ValidRequest(q),
         WellAsked => PacketSpans(q), NEW u, Transmits(q, d, u)
  PROVE  Timely(d)' /\ fq'[d].index = Tx_Start /\ current_time <= fq'[d].time
<1>1. PICK t \in Txv2 :
        /\ prepare_tx(d, u, t) /\ ValidTx(t)
        /\ WellAsked => SpansOrIsNotRechecked(t)
  <2>1. CASE q.msg = "TX" /\ prepare_tx(d, u, map_txv1_to_txv2(q.body))
    <3>1. map_txv1_to_txv2(q.body) \in Txv2 /\ q.body \in Txv1
      BY <2>1, RequestTypes, MappedTypes
    <3>2. SpansItsTx(map_txv1_to_txv2(q.body))
      BY <3>1, NeverAssumption DEF SpansItsTx, map_txv1_to_txv2, Txv1, Time
    <3> QED
      BY <2>1, <3>1, <3>2 DEF ValidRequest, SpansOrIsNotRechecked
  <2>2. CASE q.msg = "TXV2" /\ prepare_tx(d, u, q.body)
    BY <2>2, RequestTypes DEF ValidRequest, PacketSpans
  <2> QED
    BY <2>1, <2>2 DEF Transmits
<1>2. /\ fq'[d] = Event(t.start_tx_time, Tx_Start)
      /\ tx_list'[d] = t
  BY <1>1 DEF prepare_tx, fq_add, StateOK
<1>3. TxTimely(fq'[d], tx_list'[d], used'[d])
  BY <1>1, <1>2, StartedTxTimely
<1>4. fq'[d].index = Tx_Start /\ fq'[d].time = t.start_tx_time
  BY <1>2 DEF Event
<1>5. current_time <= t.start_tx_time
  BY <1>1, SimLengthAssumption, NeverAssumption
  DEF ValidTx, PAST_CHECK, InTime, Txv2, Time
<1> QED
  BY <1>3, <1>4, <1>5, TimelyByEvent

LEMMA ReceivesTimely ==
  ASSUME StateOK, InTime, NEW d \in Dev, NEW q \in Request, ValidRequest(q),
         WellAsked => ScanFits(q), NEW rx \in rx_status_t, Receives(q, d, rx)
  PROVE  /\ Timely(d)' /\ fq'[d].index = Rx_Search_start
         /\ current_time <= fq'[d].time
<1>1. PICK r \in Rxv2, v1 \in BOOLEAN :
        /\ prepare_rx(d, rx, r, v1) /\ ValidRx(r)
        /\ WellAsked => \/ r.scan_duration >= UINT32_MAX
                        \/ r.start_time + r.scan_duration <= TIME_NEVER
  <2>1. CASE q.msg = "RX" /\ prepare_rx(d, rx, map_rxv1_to_rxv2(q.body), TRUE)
    <3>1. map_rxv1_to_rxv2(q.body) \in Rxv2 /\ q.body \in Rxv1
      BY <2>1, RequestTypes, MappedTypes
    <3>2. /\ map_rxv1_to_rxv2(q.body).scan_duration = q.body.scan_duration
          /\ map_rxv1_to_rxv2(q.body).start_time = q.body.start_time
          /\ q.body.scan_duration \in Int /\ UINT32_MAX \in Int
      BY <3>1, LimitsAssumption DEF map_rxv1_to_rxv2, Rxv1
    <3>3. ValidRx(map_rxv1_to_rxv2(q.body))
      BY <2>1 DEF ValidRequest
    <3>4. WellAsked => \/ q.body.scan_duration >= UINT32_MAX
                       \/ q.body.start_time + q.body.scan_duration <= TIME_NEVER
      BY <2>1, <3>2 DEF ScanFits
    <3> QED
      BY <2>1, <3>1, <3>2, <3>3, <3>4
  <2>2. CASE q.msg = "RXV2" /\ prepare_rx(d, rx, q.body, FALSE)
    <3>1. q.body \in Rxv2 /\ q.body.scan_duration \in Int /\ UINT32_MAX \in Int
      BY <2>2, RequestTypes, LimitsAssumption DEF Rxv2
    <3>2. ValidRx(q.body)
      BY <2>2 DEF ValidRequest, ValidRxv2
    <3>3. WellAsked => \/ q.body.scan_duration >= UINT32_MAX
                       \/ q.body.start_time + q.body.scan_duration <= TIME_NEVER
      BY <2>2, <3>1 DEF ScanFits
    <3> QED
      BY <2>2, <3>1, <3>2, <3>3
  <2> QED
    BY <2>1, <2>2 DEF Receives
<1>2. /\ fq'[d] = Event(r.start_time, Rx_Search_start)
      /\ rx_a'[d] = StartedRx(rx, r, v1)
  BY <1>1 DEF prepare_rx, fq_add, StateOK
<1>3. RxTimely(fq'[d], rx_a'[d])
  BY <1>1, <1>2, StartedRxTimely
<1>4. fq'[d].index = Rx_Search_start /\ fq'[d].time = r.start_time
  BY <1>2 DEF Event
<1>5. current_time <= r.start_time
  BY <1>1, SimLengthAssumption, NeverAssumption
  DEF ValidRx, PAST_CHECK, InTime, Rxv2, Time
<1>6. Rx_Search_start \in RxEvents
  BY DEF RxEvents
<1> QED
  BY <1>3, <1>4, <1>5, <1>6, TimelyByEvent

LEMMA MeasuresTimely ==
  ASSUME StateOK, InTime, NEW d \in Dev, NEW q \in Request, ValidRequest(q),
         q.msg = "CCA_MEAS", prepare_CCA(d, q.body)
  PROVE  Timely(d)' /\ fq'[d].index = Rx_CCA_meas /\ current_time <= fq'[d].time
<1>1. q.body \in Cca /\ ValidCca(q.body)
  BY RequestTypes DEF ValidRequest
<1>2. /\ fq'[d] = Event(q.body.start_time, Rx_CCA_meas)
      /\ cca_a'[d] = StartedCca(q.body)
  BY DEF prepare_CCA, fq_add, StateOK
<1>3. CcaTimely(fq'[d], cca_a'[d])
  BY <1>1, <1>2, StartedCcaTimely
<1>4. fq'[d].index = Rx_CCA_meas /\ fq'[d].time = q.body.start_time
  BY <1>2 DEF Event
<1>5. current_time <= q.body.start_time
  BY <1>1, SimLengthAssumption, NeverAssumption
  DEF ValidCca, PAST_CHECK, InTime, Cca, Time
<1> QED
  BY <1>3, <1>4, <1>5, TimelyByEvent

LEMMA WaitsTimely ==
  ASSUME StateOK, InTime, NEW d \in Dev, NEW q \in Request, ValidRequest(q),
         Waits(q, d)
  PROVE  /\ Timely(d)' /\ fq'[d].index \in {Wait_Done, RSSI_Meas}
         /\ current_time <= fq'[d].time
<1>1. PICK i \in {Wait_Done, RSSI_Meas} :
        fq' = fq_add(fq, q.time, i, d) /\ q.msg \in {"WAIT", "RSSIMEAS"}
  BY Zenon DEF Waits
<1>2. fq'[d].index = i /\ fq'[d].time = q.time
  BY <1>1 DEF fq_add, Event, StateOK
<1>3. current_time <= q.time
  BY <1>1, RequestTypes, SimLengthAssumption, NeverAssumption
  DEF ValidRequest, PAST_CHECK, InTime, Time
<1>4. i \notin RxEvents \cup TxQueued \cup {Tx_Start, Rx_CCA_meas}
  BY DEF Wait_Done, RSSI_Meas, RxEvents, TxQueued, Tx_Start, Rx_CCA_meas,
         Rx_Found, Rx_Header, Rx_Payload, Rx_Sync, Rx_Search_start,
         Rx_Search_reeval, Tx_Abort_Reeval, Tx_Packet_Start, Tx_Packet_End,
         Tx_End
<1> QED
  BY <1>1, <1>2, <1>3, <1>4, TimelyByEvent

(***************************************************************************)
(* A device without an event is timely.                                    *)
(***************************************************************************)
LEMMA RemovedTimely ==
  ASSUME StateOK, InTime, NEW d \in Dev, fq' = fq_remove(fq, d)
  PROVE  /\ Timely(d)' /\ fq'[d].index = State_None
         /\ current_time <= fq'[d].time
<1>1. fq'[d].index = State_None /\ fq'[d].time = TIME_NEVER
  BY DEF fq_remove, Event, StateOK
<1>2. State_None \notin RxEvents \cup TxQueued \cup {Tx_Start, Rx_CCA_meas}
  BY DEF State_None, RxEvents, TxQueued, Tx_Start, Rx_CCA_meas,
         Rx_Found, Rx_Header, Rx_Payload, Rx_Sync, Rx_Search_start,
         Rx_Search_reeval, Tx_Abort_Reeval, Tx_Packet_Start, Tx_Packet_End,
         Tx_End
<1>3. current_time <= TIME_NEVER
  BY SimLengthAssumption, NeverAssumption DEF InTime, Time
<1> QED
  BY <1>1, <1>2, <1>3, TimelyByEvent

LEMMA NotFound ==
  Rx_Found \notin {State_None, Wait_Done, RSSI_Meas, Tx_Start, Rx_Search_start,
                   Rx_CCA_meas, Rx_Search_reeval, Rx_Sync, Rx_Header, Rx_Payload}
BY DEF State_None, Wait_Done, RSSI_Meas, Tx_Start, Rx_Search_start, Rx_CCA_meas,
       Rx_Search_reeval, Rx_Sync, Rx_Header, Rx_Payload, Rx_Found

LEMMA NextRequestKeeps ==
  ASSUME StateOK, InTime, NEW d \in Dev, current_time <= fq[d].time,
         NEW u \in [Dev -> TxsFlags], \A x \in Dev \ {d} : u[x] = used[x],
         NEW m, NEW rx \in rx_status_t, NEW cca, NEW msgs,
         p2G4_handle_next_request(d, u, m, rx, cca, msgs)
  PROVE  /\ Keeps(d) /\ sent' = msgs
         /\ phase' = "error" \/ \A x \in Dev \ {d} : fq'[x] = fq[x]
<1>1. PICK q \in Requests(d, current_time) :
        \/ ~ValidRequest(q) /\ Exit(msgs)
        \/ /\ ValidRequest(q)
           /\ Accepted(q, d, u, rx, cca)
           /\ sent' = msgs
  BY Zenon DEF p2G4_handle_next_request
<1>2. q \in Request /\ (WellAsked => PacketSpans(q) /\ ScanFits(q))
  BY WellAskedRequests
<1>3. CASE Exit(msgs)
  BY <1>3 DEF Exit, Keeps
<1>4. CASE ValidRequest(q) /\ Accepted(q, d, u, rx, cca) /\ sent' = msgs
  <2>1. Elsewhere(d) /\ \A x \in Dev \ {d} : fq'[x] = fq[x]
    BY <1>4, NextRequestFrame
  <2>2. \/ fq' = fq /\ nbr_active_devs' = 0
        \/ fq' = fq_remove(fq, d)
        \/ Waits(q, d) \/ Transmits(q, d, u) \/ Receives(q, d, rx)
        \/ q.msg = "CCA_MEAS" /\ prepare_CCA(d, q.body)
    BY <1>4, Zenon DEF Accepted, Leaves
  <2>3. CASE fq' = fq /\ nbr_active_devs' = 0
    BY <1>4, <2>1, <2>3 DEF Keeps
  <2>4. CASE ~(fq' = fq /\ nbr_active_devs' = 0)
    <3>1. Timely(d)' /\ fq'[d].index # Rx_Found /\ current_time <= fq'[d].time
      BY <1>2, <1>4, <2>2, <2>4, RemovedTimely, WaitsTimely, TransmitsTimely,
         ReceivesTimely, MeasuresTimely, NotFound, Zenon
    <3> QED
      BY <1>4, <2>1, <3>1 DEF Keeps
  <2> QED
    BY <2>3, <2>4
<1> QED
  BY <1>1, <1>3, <1>4 DEF Exit

------------------------------------------------------------------------------
(***************************************************************************)
(* Receptions.  A status that a handler of a search goes on with is one    *)
(* whose scan is not over for more than a microsecond, and whose recheck   *)
(* is not due any more.                                                    *)
(***************************************************************************)
InScan(rx) ==
  /\ RateOK(rx) /\ ScanOK(rx)
  /\ current_time <= rx.scan_end + 1
  /\ current_time <= rx.rx_s.abort.recheck_time

LEMMA TimesOfRx ==
  ASSUME NEW rx \in rx_status_t
  PROVE  /\ rx.rx_s.abort.abort_time \in Nat /\ rx.rx_s.abort.recheck_time \in Nat
         /\ rx.scan_end \in Nat /\ rx.sync_start \in Nat /\ TIME_NEVER \in Nat
         /\ rx.rx_s.acceptable_pre_truncation \in Nat
<1>1. rx.rx_s \in Rxv2 /\ rx.scan_end \in Nat /\ rx.sync_start \in Nat
  BY DEF rx_status_t
<1>2. rx.rx_s.abort \in Abort /\ rx.rx_s.acceptable_pre_truncation \in Nat
  BY <1>1 DEF Rxv2
<1> QED
  BY <1>1, <1>2, NeverAssumption DEF Abort, Time

(***************************************************************************)
(* Two statuses that differ in nothing RxTimely speaks of.                 *)
(***************************************************************************)
SameTiming(r, rx) ==
  /\ r.scan_end = rx.scan_end
  /\ r.rx_s.abort = rx.rx_s.abort
  /\ r.rx_s.error_calc_rate = rx.rx_s.error_calc_rate
  /\ r.errorspercalc = rx.errorspercalc
  /\ r.rate_uspercalc = rx.rate_uspercalc
  /\ r.us_to_next_calc = rx.us_to_next_calc

LEMMA SameTimingKeeps ==
  ASSUME NEW r, NEW rx, SameTiming(r, rx)
  PROVE  /\ RateOK(rx) => RateOK(r)
         /\ ScanOK(rx) => ScanOK(r)
         /\ InScan(rx) => InScan(r)
         /\ \A e : RxTimely(e, rx) => RxTimely(e, r)
BY DEF SameTiming, RateOK, ScanOK, InScan, RxTimely

LEMMA TimingsKept ==
  ASSUME NEW rx \in rx_status_t
  PROVE  /\ \A s : SameTiming([rx EXCEPT !.state = s], rx)
         /\ \A s : SameTiming([rx EXCEPT !.status = s], rx)
         /\ \A i, s : SameTiming([rx EXCEPT !.tx_nbr = i, !.state = s], rx)
         /\ \A t : SameTiming(Locked(rx, t), rx)
         /\ SameTiming(prelock_check(rx), rx)
         /\ \A t, s : SameTiming([rx EXCEPT !.biterrors = 0,
                                            !.rx_time_stamp = t, !.status = s], rx)
<1>1. rx.rx_s \in Rxv2
  BY DEF rx_status_t
<1>2. /\ \A s : SameTiming([rx EXCEPT !.state = s], rx)
      /\ \A s : SameTiming([rx EXCEPT !.status = s], rx)
      /\ \A i, s : SameTiming([rx EXCEPT !.tx_nbr = i, !.state = s], rx)
  BY Zenon DEF SameTiming, rx_status_t
<1>3. \A t : SameTiming(Locked(rx, t), rx)
  BY Zenon DEF SameTiming, Locked, rx_status_t
<1>4. SameTiming(prelock_check(rx), rx)
  <2> DEFINE r == [rx EXCEPT !.tx_nbr = -1, !.rx_s.prelocked_tx = FALSE]
             s == [rx.rx_s EXCEPT !.prelocked_tx = FALSE]
  <2>1. s.abort = rx.rx_s.abort /\ s.error_calc_rate = rx.rx_s.error_calc_rate
    BY <1>1, Zenon DEF Rxv2
  <2>2. /\ r.rx_s = s /\ r.scan_end = rx.scan_end
        /\ r.errorspercalc = rx.errorspercalc
        /\ r.rate_uspercalc = rx.rate_uspercalc
        /\ r.us_to_next_calc = rx.us_to_next_calc
    BY Zenon DEF rx_status_t
  <2>3. SameTiming(r, rx)
    BY <2>1, <2>2 DEF SameTiming
  <2>4. SameTiming(rx, rx)
    BY DEF SameTiming
  <2> QED
    BY <2>3, <2>4 DEF prelock_check
<1>5. \A t, s : SameTiming([rx EXCEPT !.biterrors = 0, !.rx_time_stamp = t,
                                      !.status = s], rx)
  BY Zenon DEF SameTiming, rx_status_t
<1> QED
  BY <1>2, <1>3, <1>4, <1>5

(***************************************************************************)
(* A new abort, for a reception that searches or that is under way.        *)
(***************************************************************************)
LEMMA NewAbortTimes ==
  ASSUME InTime, NEW d \in Dev, NEW abort \in NewAborts(d)
  PROVE  /\ abort \in Abort
         /\ current_time <= abort.abort_time
         /\ current_time <= abort.recheck_time
         /\ abort.abort_time \in Nat /\ abort.recheck_time \in Nat
         /\ current_time \in Nat
BY NewAbortsType, NowType, NeverAssumption
DEF NewAborts, pick_abort_tail, Abort, Time

LEMMA ReevaluatedFields ==
  ASSUME NEW rx \in rx_status_t, NEW abort \in Abort, NEW scanning \in BOOLEAN
  PROVE  LET r == Reevaluated(rx, abort, scanning)
         IN /\ r.rx_s.abort = abort
            /\ r.rx_s.error_calc_rate = rx.rx_s.error_calc_rate
            /\ r.scan_end = IF scanning /\ abort.abort_time < rx.scan_end
                            THEN Before(abort.abort_time) ELSE rx.scan_end
            /\ r.sync_start = rx.sync_start
            /\ r.errorspercalc = rx.errorspercalc
            /\ r.rate_uspercalc = rx.rate_uspercalc
            /\ r.us_to_next_calc = rx.us_to_next_calc
<1>1. rx.rx_s \in Rxv2
  BY DEF rx_status_t
<1> DEFINE s == [rx.rx_s EXCEPT !.abort = abort]
           r == Reevaluated(rx, abort, scanning)
<1>2. s.abort = abort /\ s.error_calc_rate = rx.rx_s.error_calc_rate
  BY <1>1, Zenon DEF Rxv2
<1>3. /\ r.rx_s = s
      /\ r.scan_end = IF scanning /\ abort.abort_time < rx.scan_end
                      THEN Before(abort.abort_time) ELSE rx.scan_end
      /\ r.sync_start = rx.sync_start
      /\ r.errorspercalc = rx.errorspercalc
      /\ r.rate_uspercalc = rx.rate_uspercalc
      /\ r.us_to_next_calc = rx.us_to_next_calc
  BY Zenon DEF Reevaluated, rx_status_t
<1> QED
  BY <1>2, <1>3

LEMMA RecheckedScan ==
  ASSUME StateOK, InTime, NEW d \in Dev, fq[d].index \in Scanning,
         current_time = fq[d].time, Timely(d), NEW rx \in Rechecked(d, TRUE)
  PROVE  rx \in rx_status_t /\ InScan(rx)
<1>1. rx_a[d] \in rx_status_t /\ rx \in rx_status_t
  BY RecheckedType DEF StateOK
<1>2. /\ RateOK(rx_a[d]) /\ ScanOK(rx_a[d])
      /\ current_time <= rx_a[d].scan_end + 1
  BY EventClasses DEF Timely, RxTimely
<1>3. /\ rx_a[d].scan_end \in Nat /\ rx_a[d].rx_s.abort.abort_time \in Nat
      /\ rx_a[d].rx_s.abort.recheck_time \in Nat /\ TIME_NEVER \in Nat
  BY <1>1, TimesOfRx
<1>4. CASE ~RecheckDue(rx_a[d])
  <2>1. current_time <= rx_a[d].rx_s.abort.recheck_time
    BY <1>3, <1>4, NowType DEF RecheckDue
  <2> QED
    BY <1>1, <1>2, <1>4, <2>1 DEF Rechecked, InScan
<1>5. CASE RecheckDue(rx_a[d])
  <2>1. PICK abort \in NewAborts(d) : rx = Reevaluated(rx_a[d], abort, TRUE)
    BY <1>5 DEF Rechecked
  <2>2. /\ abort \in Abort
        /\ current_time <= abort.abort_time /\ current_time <= abort.recheck_time
        /\ abort.abort_time \in Nat /\ abort.recheck_time \in Nat
        /\ current_time \in Nat
    BY NewAbortTimes
  <2>3. /\ rx.rx_s.abort = abort
        /\ rx.rx_s.error_calc_rate = rx_a[d].rx_s.error_calc_rate
        /\ rx.scan_end = IF abort.abort_time < rx_a[d].scan_end
                         THEN Before(abort.abort_time) ELSE rx_a[d].scan_end
        /\ rx.errorspercalc = rx_a[d].errorspercalc
        /\ rx.rate_uspercalc = rx_a[d].rate_uspercalc
        /\ rx.us_to_next_calc = rx_a[d].us_to_next_calc
    BY <1>1, <2>1, <2>2, ReevaluatedFields
  <2>4. RateOK(rx)
    BY <1>2, <2>3 DEF RateOK
  <2>5. 0 < current_time
    BY <1>2, <1>3, <1>5, <2>2 DEF RecheckDue, ScanOK
  <2>6. Before(abort.abort_time) = abort.abort_time - 1
    BY <2>2, <2>5 DEF Before
  <2>7. /\ rx.scan_end <= abort.abort_time /\ rx.scan_end <= rx_a[d].scan_end
        /\ current_time <= rx.scan_end + 1
    BY <1>2, <1>3, <2>2, <2>3, <2>6
  <2>8. ScanOK(rx)
    BY <1>2, <1>3, <2>2, <2>3, <2>5, <2>6, <2>7 DEF ScanOK
  <2> QED
    BY <1>1, <2>2, <2>3, <2>4, <2>7, <2>8 DEF InScan
<1> QED
  BY <1>4, <1>5

LEMMA RecheckedHeard ==
  ASSUME StateOK, InTime, NEW d \in Dev, fq[d].index \in {Rx_Header, Rx_Payload},
         current_time = fq[d].time, Timely(d), NEW rx \in Rechecked(d, FALSE)
  PROVE  rx \in rx_status_t /\ RateOK(rx)
<1>1. rx_a[d] \in rx_status_t /\ rx \in rx_status_t
  BY RecheckedType DEF StateOK
<1>2. RateOK(rx_a[d])
  BY EventClasses DEF Timely, RxTimely
<1>3. CASE RecheckDue(rx_a[d])
  <2>1. PICK abort \in NewAborts(d) : rx = Reevaluated(rx_a[d], abort, FALSE)
    BY <1>3 DEF Rechecked
  <2>2. abort \in Abort
    BY NewAbortTimes
  <2>3. RateOK(rx)
    BY <1>1, <1>2, <2>1, <2>2, ReevaluatedFields DEF RateOK
  <2> QED
    BY <1>1, <2>3
<1> QED
  BY <1>1, <1>2, <1>3 DEF Rechecked

(***************************************************************************)
(* A reception that goes on, and one that does not.                        *)
(***************************************************************************)
LEMMA ContinueKeeps ==
  ASSUME StateOK, NEW d \in Dev, NEW rx, NEW e, NEW msgs, Continue(d, rx, e, msgs),
         e.index \in RxEvents \ {Rx_Found}, RxTimely(e, rx),
         WellAsked => current_time <= e.time
  PROVE  Keeps(d)
<1>1. /\ rx_a' = [rx_a EXCEPT ![d] = rx] /\ fq' = [fq EXCEPT ![d] = e]
      /\ UNCHANGED <<used, tx_list, cca_a>>
  BY DEF Continue
<1>2. fq'[d] = e /\ rx_a'[d] = rx
  BY <1>1 DEF StateOK
<1>3. Timely(d)'
  BY <1>2, TimelyByEvent
<1>4. Elsewhere(d)
  BY <1>1 DEF Elsewhere, StateOK
<1> QED
  BY <1>2, <1>3, <1>4 DEF Keeps

LEMMA RecheckEndsKeep ==
  ASSUME StateOK, InTime, NEW d \in Dev, NEW msgs
  PROVE  /\ RecheckExits(d, msgs) => Keeps(d)
         /\ \A rx : RecheckLeaves(d, rx, msgs) => Keeps(d)
<1>1. RecheckExits(d, msgs) => Keeps(d)
  BY DEF RecheckExits, Exit, Keeps
<1>2. ASSUME NEW rx, RecheckLeaves(d, rx, msgs)
      PROVE  Keeps(d)
  <2>1. /\ fq' = fq_remove(fq, d) /\ rx_a' = [rx_a EXCEPT ![d] = rx]
        /\ UNCHANGED <<used, tx_list, cca_a>>
    BY <1>2 DEF RecheckLeaves
  <2>2. Elsewhere(d)
    BY <2>1 DEF Elsewhere, fq_remove, StateOK
  <2> QED
    BY <2>1, <2>2, RemovedTimely, NotFound DEF Keeps
<1> QED
  BY <1>1, <1>2

LEMMA RxDoneKeeps ==
  ASSUME StateOK, InTime, NEW d \in Dev, current_time = fq[d].time,
         NEW rx \in rx_status_t, NEW msgs, RxDone(d, rx, msgs)
  PROVE  Keeps(d)
<1>1. /\ used \in [Dev -> TxsFlags]
      /\ current_time <= fq[d].time
  BY NowType DEF StateOK
<1> QED
  BY <1>1, NextRequestKeeps DEF RxDone

LEMMA ScanEndedKeeps ==
  ASSUME StateOK, InTime, NEW d \in Dev, current_time = fq[d].time,
         NEW rx \in rx_status_t, NEW msgs, rx_scan_ended(d, rx, msgs)
  PROVE  Keeps(d)
<1> DEFINE rx1 == [rx EXCEPT !.rx_time_stamp = current_time, !.status = "NOSYNC",
                             !.state = NotSearching]
<1>1. rx1 \in rx_status_t
  BY NowType, StatusTypes DEF RxStatus
<1>2. RxDone(d, rx1, msgs)
  BY DEF rx_scan_ended
<1> HIDE DEF rx1
<1> QED
  BY <1>1, <1>2, RxDoneKeeps

LEMMA EnqueueSearchKeeps ==
  ASSUME StateOK, InTime, NEW d \in Dev, NEW rx \in rx_status_t, InScan(rx),
         NEW msgs, rx_enqueue_search_reeval(d, rx, msgs)
  PROVE  Keeps(d)
<1> DEFINE r == [rx EXCEPT !.state = Searching]
           e == Event(BSMin(After(rx.scan_end), rx.rx_s.abort.recheck_time),
                      Rx_Search_reeval)
<1>1. Continue(d, r, e, msgs)
  BY DEF rx_enqueue_search_reeval
<1>2. InScan(r) /\ SameTiming(r, rx)
  BY TimingsKept, SameTimingKeeps
<1>3. /\ e.index = Rx_Search_reeval /\ e.time \in Nat
      /\ e.time <= rx.scan_end + 1 /\ e.time <= rx.rx_s.abort.recheck_time
      /\ WellAsked => current_time <= e.time
  <2>1. After(rx.scan_end) \in Nat /\ After(rx.scan_end) <= rx.scan_end + 1
    BY TimesOfRx DEF After
  <2>2. WellAsked => After(rx.scan_end) = rx.scan_end + 1
    BY TimesOfRx DEF After, InScan, ScanOK
  <2> QED
    BY <2>1, <2>2, TimesOfRx, NowType DEF Event, BSMin, InScan
<1> HIDE DEF r, e
<1>4. RxTimely(e, r)
  BY <1>2, <1>3, EventClasses DEF RxTimely, InScan, SameTiming
<1>5. e.index \in RxEvents \ {Rx_Found}
  BY <1>3, NotFound DEF RxEvents
<1> QED
  BY <1>1, <1>3, <1>4, <1>5, ContinueKeeps

(***************************************************************************)
(* The next attempt to synchronise, to a packet that has not been on for   *)
(* longer than the reception may miss.                                     *)
(***************************************************************************)
LEMMA NextSyncKeeps ==
  ASSUME StateOK, InTime, NEW d \in Dev, NEW rx \in rx_status_t, InScan(rx),
         WellAsked => current_time <= rx.sync_start,
         NEW msgs, Continue(d, rx, NextSync(rx), msgs)
  PROVE  Keeps(d)
<1> DEFINE e == NextSync(rx)
<1>1. /\ e.index = Rx_Sync /\ e.time \in Nat /\ e.time <= rx.scan_end + 1
      /\ WellAsked => current_time <= e.time
  <2>1. After(rx.scan_end) \in Nat /\ After(rx.scan_end) <= rx.scan_end + 1
    BY TimesOfRx DEF After
  <2>2. WellAsked => After(rx.scan_end) = rx.scan_end + 1
    BY TimesOfRx DEF After, InScan, ScanOK
  <2> QED
    BY <2>1, <2>2, TimesOfRx, NowType DEF NextSync, Event, BSMin, InScan
<1> HIDE DEF e
<1>2. RxTimely(e, rx)
  BY <1>1 DEF RxTimely, InScan, Rx_Sync, Rx_Search_reeval, Rx_Found, Rx_Header,
              Rx_Payload
<1>3. e.index \in RxEvents \ {Rx_Found}
  BY <1>1, NotFound DEF RxEvents
<1> QED
  BY <1>1, <1>2, <1>3, ContinueKeeps DEF e

LEMMA LockedFields ==
  ASSUME NEW rx \in rx_status_t, NEW t
  PROVE  /\ Locked(rx, t).rx_s = rx.rx_s
         /\ Locked(rx, t).scan_end = rx.scan_end
         /\ Locked(rx, t).sync_start
              = t.start_packet_time + rx.rx_s.acceptable_pre_truncation
BY Zenon DEF Locked, rx_status_t

LEMMA RxFoundKeeps ==
  ASSUME StateOK, InTime, NEW d \in Dev, NEW rx \in rx_status_t, InScan(rx),
         rx.tx_nbr \in Dev,
         WellAsked => current_time <= tx_list[rx.tx_nbr].start_packet_time
                                        + rx.rx_s.acceptable_pre_truncation,
         NEW msgs, RxFound(d, rx, msgs)
  PROVE  Keeps(d)
<1> DEFINE locked == Locked(rx, tx_list[rx.tx_nbr])
<1>1. locked \in rx_status_t
  BY LockedType DEF StateOK
<1>2. InScan(locked)
  BY TimingsKept, SameTimingKeeps
<1>3. WellAsked => current_time <= locked.sync_start
  BY LockedFields
<1>4. \/ Continue(d, locked, NextSync(locked), msgs)
      \/ rx_enqueue_search_reeval(d, rx, msgs)
  BY DEF RxFound
<1> HIDE DEF locked
<1> QED
  BY <1>1, <1>2, <1>3, <1>4, NextSyncKeeps, EnqueueSearchKeeps

(***************************************************************************)
(* A search that finds a packet at its start, by a prelock or among all    *)
(* transmissions, can still lock to it.                                    *)
(***************************************************************************)
LEMMA FoundInTime ==
  ASSUME StateOK, InTime, NEW rx \in rx_status_t, NEW i \in Dev,
         \/ PrelockHolds(rx) /\ i = rx.tx_nbr
         \/ Fits(i, rx)
  PROVE  current_time <= tx_list[i].start_packet_time
                           + rx.rx_s.acceptable_pre_truncation
<1>1. CASE PrelockHolds(rx) /\ i = rx.tx_nbr
  BY <1>1 DEF PrelockHolds
<1>2. CASE Fits(i, rx)
  <2>1. tx_list[i].start_packet_time \in Nat
    BY NeverAssumption DEF StateOK, Txv2, Time
  <2> QED
    BY <1>2, <2>1, TimesOfRx, NowType DEF Fits, tx_and_rx_match
<1> QED
  BY <1>1, <1>2

LEMMA PrelockFields ==
  ASSUME NEW rx \in rx_status_t
  PROVE  /\ PrelockHolds(rx) => prelock_check(rx) = rx
         /\ ~PrelockHolds(rx) => prelock_check(rx).tx_nbr = -1
BY Zenon DEF prelock_check, rx_status_t

LEMMA SearchStartFinds ==
  ASSUME NEW d, NEW rx \in rx_status_t, NEW msgs, SearchStart(d, rx, msgs)
  PROVE  \/ /\ rx.rx_s.prelocked_tx
            /\ rx_enqueue_search_reeval(d, prelock_check(rx), msgs)
         \/ /\ ~rx.rx_s.prelocked_tx /\ find_fitting_tx(rx, -1)
            /\ rx_enqueue_search_reeval(d, rx, msgs)
         \/ \E i \in Dev :
              /\ \/ rx.rx_s.prelocked_tx /\ PrelockHolds(rx) /\ i = rx.tx_nbr
                 \/ /\ ~rx.rx_s.prelocked_tx
                    /\ find_fitting_tx(rx, i) /\ Fits(i, rx)
              /\ RxFound(d, [rx EXCEPT !.tx_nbr = i, !.state = NotSearching], msgs)
<1>1. PICK i \in DevOrNone :
        LET rx1 == IF rx.rx_s.prelocked_tx THEN prelock_check(rx) ELSE rx
        IN /\ IF rx.rx_s.prelocked_tx THEN i = rx1.tx_nbr ELSE find_fitting_tx(rx, i)
           /\ IF i # -1
              THEN RxFound(d, [rx1 EXCEPT !.tx_nbr = i, !.state = NotSearching], msgs)
              ELSE rx_enqueue_search_reeval(d, rx1, msgs)
  BY DEF SearchStart
<1>2. CASE i = -1
  BY <1>1, <1>2
<1>3. CASE i # -1 /\ rx.rx_s.prelocked_tx
  <2>1. PrelockHolds(rx) /\ prelock_check(rx) = rx /\ i = rx.tx_nbr
    BY <1>1, <1>3, PrelockFields
  <2> QED
    BY <1>1, <1>3, <2>1 DEF DevOrNone
<1>4. CASE i # -1 /\ ~rx.rx_s.prelocked_tx
  BY <1>1, <1>4 DEF DevOrNone, find_fitting_tx
<1> QED
  BY <1>2, <1>3, <1>4

LEMMA SearchStartKeeps ==
  ASSUME StateOK, InTime, NEW d \in Dev, NEW rx \in rx_status_t, InScan(rx),
         NEW msgs, SearchStart(d, rx, msgs)
  PROVE  Keeps(d)
<1>1. prelock_check(rx) \in rx_status_t /\ InScan(prelock_check(rx))
  BY PrelockType, TimingsKept, SameTimingKeeps
<1>2. CASE \/ rx_enqueue_search_reeval(d, prelock_check(rx), msgs)
           \/ rx_enqueue_search_reeval(d, rx, msgs)
  BY <1>1, <1>2, EnqueueSearchKeeps
<1>3. ASSUME NEW i \in Dev, (PrelockHolds(rx) /\ i = rx.tx_nbr) \/ Fits(i, rx),
             RxFound(d, [rx EXCEPT !.tx_nbr = i, !.state = NotSearching], msgs)
      PROVE  Keeps(d)
  <2> DEFINE r == [rx EXCEPT !.tx_nbr = i, !.state = NotSearching]
  <2>1. r \in rx_status_t /\ InScan(r)
    <3>1. i \in DevOrNone
      BY DEF DevOrNone
    <3> QED
      BY <3>1, FoundType, TimingsKept, SameTimingKeeps
  <2>2. r.tx_nbr = i /\ r.rx_s = rx.rx_s
    BY Zenon DEF rx_status_t
  <2>3. current_time <= tx_list[i].start_packet_time
                          + rx.rx_s.acceptable_pre_truncation
    BY <1>3, FoundInTime
  <2>4. RxFound(d, r, msgs)
    BY <1>3
  <2> HIDE DEF r
  <2> QED
    BY <2>1, <2>2, <2>3, <2>4, RxFoundKeeps
<1> QED
  BY <1>2, <1>3, SearchStartFinds, Zenon

LEMMA SearchKeeps ==
  ASSUME StateOK, InTime, NEW d \in Dev, current_time = fq[d].time, Timely(d),
         \/ fq[d].index = Rx_Search_start /\ f_rx_search_start(d)
         \/ fq[d].index = Rx_Search_reeval /\ f_rx_search_reeval(d)
  PROVE  Keeps(d)
<1>1. fq[d].index \in Scanning
  BY DEF Scanning
<1>2. PICK msgs \in RecheckMsgs(d) :
        \/ RecheckExits(d, msgs)
        \/ RecheckLeaves(d, [rx_a[d] EXCEPT !.state = NotSearching], msgs)
        \/ \E rx \in Rechecked(d, TRUE) :
             \/ SearchStart(d, rx, msgs)
             \/ rx_scan_ended(d, rx, msgs)
             \/ rx_enqueue_search_reeval(d, rx, msgs)
  BY Zenon DEF f_rx_search_start, f_rx_search_reeval
<1>3. \A rx \in Rechecked(d, TRUE) : rx \in rx_status_t /\ InScan(rx)
  BY <1>1, RecheckedScan
<1> QED
  BY <1>2, <1>3, RecheckEndsKeep, SearchStartKeeps, ScanEndedKeeps,
     EnqueueSearchKeeps

(***************************************************************************)
(* A reception under way counts down to its next bit error calculation.    *)
(***************************************************************************)
LEMMA BitErrorFields ==
  ASSUME NEW rx \in rx_status_t, NEW r \in BitErrorCalc(rx)
  PROVE  /\ r.rx_s = rx.rx_s /\ r.scan_end = rx.scan_end
         /\ r.sync_start = rx.sync_start
         /\ r.errorspercalc = rx.errorspercalc
         /\ r.rate_uspercalc = rx.rate_uspercalc
         /\ r.us_to_next_calc = IF rx.us_to_next_calc <= 0
                                THEN rx.rate_uspercalc - 1
                                ELSE rx.us_to_next_calc - 1
BY Zenon DEF BitErrorCalc, rx_status_t

LEMMA BitErrorKeepsRate ==
  ASSUME NEW rx \in rx_status_t, RateOK(rx), NEW r \in BitErrorCalc(rx)
  PROVE  RateOK(r)
<1>1. rx.rate_uspercalc \in Int /\ rx.us_to_next_calc \in Int
  BY DEF rx_status_t
<1> QED
  BY <1>1, BitErrorFields, SMT DEF RateOK, RateFits

LEMMA NextMicrosecondKeeps ==
  ASSUME StateOK, InTime, NEW d \in Dev, NEW rx \in rx_status_t,
         RateOK(rx), ScanOK(rx), current_time <= rx.scan_end,
         NEW i \in {Rx_Search_start, Rx_Sync}, NEW msgs,
         Continue(d, rx, Event(current_time + 1, i), msgs)
  PROVE  Keeps(d)
<1> DEFINE e == Event(current_time + 1, i)
<1>1. e.index = i /\ e.time = current_time + 1
  BY DEF Event
<1>2. e.time <= rx.scan_end + 1 /\ current_time <= e.time
  BY <1>1, TimesOfRx, NowType
<1> HIDE DEF e
<1>3. RxTimely(e, rx)
  BY <1>1, <1>2
  DEF RxTimely, Rx_Search_start, Rx_Sync, Rx_Search_reeval, Rx_Found,
      Rx_Header, Rx_Payload
<1>4. e.index \in RxEvents \ {Rx_Found}
  BY <1>1, NotFound DEF RxEvents
<1> QED
  BY <1>2, <1>3, <1>4, ContinueKeeps DEF e

LEMMA HeardKeeps ==
  ASSUME StateOK, InTime, NEW d \in Dev, NEW rx \in rx_status_t, RateOK(rx),
         NEW t \in Nat, current_time <= t, t <= rx.rx_s.abort.abort_time + 1,
         NEW i \in {Rx_Header, Rx_Payload}, NEW msgs,
         Continue(d, rx, Event(t, i), msgs)
  PROVE  Keeps(d)
<1> DEFINE e == Event(t, i)
<1>1. e.index = i /\ e.time = t
  BY DEF Event
<1> HIDE DEF e
<1>2. RxTimely(e, rx)
  BY <1>1, EventClasses DEF RxTimely
<1>3. e.index \in RxEvents \ {Rx_Found}
  BY <1>1, NotFound DEF RxEvents
<1> QED
  BY <1>1, <1>2, <1>3, ContinueKeeps DEF e

LEMMA SyncDoneKeeps ==
  ASSUME StateOK, InTime, NEW d \in Dev, current_time = fq[d].time,
         NEW rx0 \in rx_status_t, RateOK(rx0), ScanOK(rx0),
         current_time <= rx0.scan_end, NEW msgs0, SyncDone(d, rx0, msgs0)
  PROVE  Keeps(d)
<1> DEFINE rx == [rx0 EXCEPT !.biterrors = 0, !.rx_time_stamp = rx0.sync_end,
                             !.status = "INPROGRESS"]
           msgs == Append(msgs0, rx_resp_addr_found(d, rx))
           cont(a) == [rx EXCEPT !.rx_s.abort = a]
<1>1. rx \in rx_status_t
  <2>1. rx0.sync_end \in Nat
    BY DEF rx_status_t
  <2> QED
    BY <2>1, StatusTypes DEF RxStatus
<1>2. RateOK(rx) /\ ScanOK(rx) /\ rx.scan_end = rx0.scan_end
  <2>1. SameTiming(rx, rx0)
    BY TimingsKept
  <2> HIDE DEF rx
  <2> QED
    BY <2>1, SameTimingKeeps, Zenon DEF SameTiming
<1>3. PICK reply \in HeaderReplies(d, current_time) :
        \/ /\ fq' = fq_remove(fq, d)
           /\ rx_a' = [rx_a EXCEPT ![d] = rx]
           /\ UNCHANGED <<used, tx_list, cca_a>>
        \/ /\ nbr_active_devs' = 0
           /\ rx_a' = [rx_a EXCEPT ![d] = rx]
           /\ UNCHANGED <<fq, used, tx_list, cca_a>>
        \/ Continue(d, rx, AfterSync(rx), msgs)
        \/ /\ reply.msg = "RXV2CONT" /\ pick_abort_tail(reply.abort)
           /\ Continue(d, cont(reply.abort), AfterSync(rx), msgs)
        \/ Exit(msgs)
        \/ p2G4_handle_next_request(d, used, max_tx_nbr, rx, cca_a[d], msgs)
  BY Zenon DEF SyncDone
<1>4. reply.msg = "RXV2CONT" =>
        /\ reply.abort \in Abort
        /\ cont(reply.abort) \in rx_status_t
        /\ cont(reply.abort).rx_s.abort = reply.abort
        /\ RateOK(cont(reply.abort))
  <2> SUFFICES ASSUME reply.msg = "RXV2CONT"
               PROVE  /\ reply.abort \in Abort
                      /\ cont(reply.abort) \in rx_status_t
                      /\ cont(reply.abort).rx_s.abort = reply.abort
                      /\ RateOK(cont(reply.abort))
    OBVIOUS
  <2>1. reply \in HeaderReply
    BY DevicesAssumption DEF InTime
  <2>2. reply.abort \in Abort
    BY <2>1 DEF HeaderReply
  <2>3. cont(reply.abort) \in rx_status_t
    BY <1>1, <2>2, StatusTypes
  <2> DEFINE c == cont(reply.abort)
             s == [rx.rx_s EXCEPT !.abort = reply.abort]
  <2> HIDE DEF rx
  <2>4. rx.rx_s \in Rxv2
    BY <1>1 DEF rx_status_t
  <2>5. s.abort = reply.abort /\ s.error_calc_rate = rx.rx_s.error_calc_rate
    BY <2>4, Zenon DEF Rxv2
  <2>6. /\ c.rx_s = s /\ c.errorspercalc = rx.errorspercalc
        /\ c.rate_uspercalc = rx.rate_uspercalc
        /\ c.us_to_next_calc = rx.us_to_next_calc
    BY <1>1, Zenon DEF rx_status_t
  <2>7. RateOK(c)
    BY <1>2, <2>5, <2>6 DEF RateOK
  <2> QED
    BY <2>2, <2>3, <2>5, <2>6, <2>7
<1> HIDE DEF rx, msgs, cont
<1>5. PICK t \in Nat, i \in {Rx_Header, Rx_Payload} :
        /\ AfterSync(rx) = Event(t, i)
        /\ current_time <= t /\ t <= current_time + 1
  <2>1. /\ current_time + 0 \in Nat /\ current_time + 1 \in Nat
        /\ current_time <= current_time + 0 /\ current_time <= current_time + 1
        /\ current_time + 0 <= current_time + 1
        /\ current_time + 1 <= current_time + 1
    BY NowType
  <2> QED
    BY <2>1, Zenon DEF AfterSync
<1>6. current_time <= rx.rx_s.abort.abort_time
  BY <1>1, <1>2, TimesOfRx, NowType DEF ScanOK
<1>7. CASE /\ fq' = fq_remove(fq, d)
           /\ rx_a' = [rx_a EXCEPT ![d] = rx]
           /\ UNCHANGED <<used, tx_list, cca_a>>
  <2>1. Elsewhere(d)
    BY <1>7 DEF Elsewhere, fq_remove, StateOK
  <2> QED
    BY <1>7, <2>1, RemovedTimely, NotFound DEF Keeps
<1>8. CASE /\ nbr_active_devs' = 0
           /\ rx_a' = [rx_a EXCEPT ![d] = rx]
           /\ UNCHANGED <<fq, used, tx_list, cca_a>>
  <2>1. Elsewhere(d)
    BY <1>8 DEF Elsewhere, StateOK
  <2> QED
    BY <1>8, <2>1, NowType DEF Keeps
<1>9. CASE Continue(d, rx, AfterSync(rx), msgs)
  <2>1. t <= rx.rx_s.abort.abort_time + 1
    BY <1>1, <1>5, <1>6, TimesOfRx, NowType
  <2> QED
    BY <1>1, <1>2, <1>5, <1>9, <2>1, HeardKeeps
<1>10. CASE /\ reply.msg = "RXV2CONT" /\ pick_abort_tail(reply.abort)
            /\ Continue(d, cont(reply.abort), AfterSync(rx), msgs)
  <2>1. reply.abort.abort_time \in Nat /\ current_time <= reply.abort.abort_time
    BY <1>4, <1>10, NeverAssumption DEF pick_abort_tail, Abort, Time
  <2>2. t <= cont(reply.abort).rx_s.abort.abort_time + 1
    BY <1>4, <1>5, <1>10, <2>1, NowType
  <2> QED
    BY <1>4, <1>5, <1>10, <2>2, HeardKeeps
<1>11. CASE Exit(msgs)
  BY <1>11 DEF Exit, Keeps
<1>12. CASE p2G4_handle_next_request(d, used, max_tx_nbr, rx, cca_a[d], msgs)
  <2>1. used \in [Dev -> TxsFlags] /\ current_time <= fq[d].time
    BY NowType DEF StateOK
  <2> QED
    BY <1>1, <1>12, <2>1, NextRequestKeeps
<1> QED
  BY <1>3, <1>7, <1>8, <1>9, <1>10, <1>11, <1>12

LEMMA SyncKeeps ==
  ASSUME StateOK, InTime, NEW d \in Dev, current_time = fq[d].time,
         NEW rx \in rx_status_t, InScan(rx), NEW msgs, Sync(d, rx, msgs)
  PROVE  Keeps(d)
<1>1. \/ rx_scan_ended(d, rx, msgs)
      \/ current_time < rx.sync_start /\ Continue(d, rx, NextSync(rx), msgs)
      \/ current_time <= rx.scan_end /\ SyncLost(d, rx, msgs)
      \/ /\ current_time <= rx.scan_end
         /\ \E rx1 \in BitErrorCalc(rx) :
              \/ SyncLost(d, rx1, msgs)
              \/ SyncDone(d, rx1, msgs)
              \/ Continue(d, rx1, Event(current_time + 1, Rx_Sync), msgs)
  BY Zenon DEF Sync
<1>2. CASE rx_scan_ended(d, rx, msgs)
  BY <1>2, ScanEndedKeeps
<1>3. CASE current_time < rx.sync_start /\ Continue(d, rx, NextSync(rx), msgs)
  <2>1. current_time <= rx.sync_start
    BY <1>3, TimesOfRx, NowType
  <2> QED
    BY <1>3, <2>1, NextSyncKeeps
<1>4. CASE current_time <= rx.scan_end /\ SyncLost(d, rx, msgs)
  BY <1>4, NextMicrosecondKeeps DEF SyncLost, InScan
<1>5. ASSUME current_time <= rx.scan_end, NEW rx1 \in BitErrorCalc(rx),
             \/ SyncLost(d, rx1, msgs)
             \/ SyncDone(d, rx1, msgs)
             \/ Continue(d, rx1, Event(current_time + 1, Rx_Sync), msgs)
      PROVE  Keeps(d)
  <2>1. rx1 \in rx_status_t /\ RateOK(rx1)
    BY BitErrorCalcType, BitErrorKeepsRate DEF InScan
  <2>2. ScanOK(rx1) /\ current_time <= rx1.scan_end
    BY <1>5, BitErrorFields DEF InScan, ScanOK
  <2> QED
    BY <1>5, <2>1, <2>2, NextMicrosecondKeeps, SyncDoneKeeps DEF SyncLost
<1> QED
  BY <1>1, <1>2, <1>3, <1>4, <1>5

LEMMA HeaderPayloadKeeps ==
  ASSUME StateOK, InTime, NEW d \in Dev, current_time = fq[d].time,
         NEW rx \in rx_status_t, RateOK(rx), NEW msgs,
         Header(d, rx, msgs) \/ Payload(d, rx, msgs)
  PROVE  Keeps(d)
<1>1. PICK s \in RxStatus, i \in {Rx_Header, Rx_Payload} :
        \/ RxDone(d, [rx EXCEPT !.status = s], msgs)
        \/ /\ ~(current_time >= rx.rx_s.abort.abort_time)
           /\ Continue(d, rx, Event(current_time + 1, i), msgs)
  <2>1. {"HEADER_ERROR", "PACKET_CONTENT_ERROR", "OK"} \subseteq RxStatus
    BY DEF RxStatus
  <2> QED
    BY <2>1, Zenon DEF Header, Payload
<1>2. CASE RxDone(d, [rx EXCEPT !.status = s], msgs)
  BY <1>2, StatusTypes, RxDoneKeeps
<1>3. CASE /\ ~(current_time >= rx.rx_s.abort.abort_time)
           /\ Continue(d, rx, Event(current_time + 1, i), msgs)
  <2>1. /\ current_time + 1 \in Nat /\ current_time <= current_time + 1
        /\ current_time + 1 <= rx.rx_s.abort.abort_time + 1
    BY <1>3, TimesOfRx, NowType
  <2> QED
    BY <1>3, <2>1, HeardKeeps
<1> QED
  BY <1>1, <1>2, <1>3

(***************************************************************************)
(* The receiver that was activated is called while it still can lock to    *)
(* the packet.                                                             *)
(***************************************************************************)
LEMMA ReceptionKeeps ==
  ASSUME StateOK, InTime, NEW d \in Dev, current_time = fq[d].time, Timely(d),
         \/ /\ fq[d].index = Rx_Found /\ f_rx_found(d)
            /\ rx_a[d].tx_nbr \in Dev
            /\ WellAsked => current_time <= tx_list[rx_a[d].tx_nbr].start_packet_time
                                              + rx_a[d].rx_s.acceptable_pre_truncation
         \/ fq[d].index = Rx_Sync /\ f_rx_sync(d)
         \/ fq[d].index = Rx_Header /\ f_rx_header(d)
         \/ fq[d].index = Rx_Payload /\ f_rx_payload(d)
  PROVE  Keeps(d)
<1>1. CASE /\ fq[d].index = Rx_Found /\ f_rx_found(d)
           /\ rx_a[d].tx_nbr \in Dev
           /\ WellAsked => current_time <= tx_list[rx_a[d].tx_nbr].start_packet_time
                                             + rx_a[d].rx_s.acceptable_pre_truncation
  <2>1. rx_a[d] \in rx_status_t
    BY DEF StateOK
  <2>2. InScan(rx_a[d])
    BY <1>1, EventClasses DEF Timely, RxTimely, InScan
  <2> QED
    BY <1>1, <2>1, <2>2, RxFoundKeeps DEF f_rx_found
<1>2. CASE fq[d].index = Rx_Sync /\ f_rx_sync(d)
  <2>1. PICK msgs \in RecheckMsgs(d) :
          \/ RecheckExits(d, msgs)
          \/ RecheckLeaves(d, rx_a[d], msgs)
          \/ \E rx \in Rechecked(d, TRUE) : Sync(d, rx, msgs)
    BY <1>2, Zenon DEF f_rx_sync
  <2>2. \A rx \in Rechecked(d, TRUE) : rx \in rx_status_t /\ InScan(rx)
    BY <1>2, RecheckedScan DEF Scanning
  <2> QED
    BY <2>1, <2>2, RecheckEndsKeep, SyncKeeps
<1>3. CASE \/ fq[d].index = Rx_Header /\ f_rx_header(d)
           \/ fq[d].index = Rx_Payload /\ f_rx_payload(d)
  <2>1. PICK msgs \in RecheckMsgs(d) :
          \/ RecheckExits(d, msgs)
          \/ RecheckLeaves(d, rx_a[d], msgs)
          \/ \E rx0 \in Rechecked(d, FALSE) : \E rx \in BitErrorCalc(rx0) :
               Header(d, rx, msgs) \/ Payload(d, rx, msgs)
    BY <1>3, Zenon DEF f_rx_header, f_rx_payload
  <2>2. \A rx0 \in Rechecked(d, FALSE) : \A rx \in BitErrorCalc(rx0) :
          rx \in rx_status_t /\ RateOK(rx)
    BY <1>3, RecheckedHeard, BitErrorCalcType, BitErrorKeepsRate
  <2> QED
    BY <2>1, <2>2, RecheckEndsKeep, HeaderPayloadKeeps
<1> QED
  BY <1>1, <1>2, <1>3

------------------------------------------------------------------------------
(***************************************************************************)
(* Waits and measurements.                                                 *)
(***************************************************************************)
LEMMA WaitKeeps ==
  ASSUME StateOK, InTime, NEW d \in Dev, current_time = fq[d].time,
         f_wait_done(d) \/ f_RSSI_meas(d)
  PROVE  Keeps(d)
<1>1. PICK msgs :
        p2G4_handle_next_request(d, used, max_tx_nbr, rx_a[d], cca_a[d], msgs)
  BY Zenon DEF f_wait_done, f_RSSI_meas, NextRequest
<1>2. used \in [Dev -> TxsFlags] /\ rx_a[d] \in rx_status_t
  BY DEF StateOK
<1>3. current_time <= fq[d].time
  BY NowType
<1> QED
  BY <1>1, <1>2, <1>3, NextRequestKeeps

(***************************************************************************)
(* A status that a CCA search goes on with: what CcaTimely says of it, and *)
(* that neither its recheck nor its next measurement lies behind.          *)
(***************************************************************************)
CcaInScan(cca) ==
  /\ cca.next_meas = cca.req.start_time + cca.n_meas * cca.req.scan_period
  /\ 0 < cca.req.scan_period
  /\ current_time <= CcaLast(cca.req)
  /\ cca.scan_end <= CcaLast(cca.req)
  /\ current_time <= cca.req.abort.recheck_time

LEMMA TimesOfCca ==
  ASSUME NEW cca \in cca_status_t
  PROVE  /\ cca.scan_end \in Nat /\ cca.next_meas \in Nat /\ cca.n_meas \in Nat
         /\ cca.req \in Cca
         /\ cca.req.start_time \in Nat /\ cca.req.scan_duration \in Nat
         /\ cca.req.scan_period \in Nat
         /\ cca.req.abort.abort_time \in Nat /\ cca.req.abort.recheck_time \in Nat
         /\ CcaLast(cca.req) \in Int
<1>1. /\ cca.scan_end \in Nat /\ cca.next_meas \in Nat /\ cca.n_meas \in Nat
      /\ cca.req \in Cca
  BY DEF cca_status_t
<1>2. /\ cca.req.start_time \in Nat /\ cca.req.scan_duration \in Nat
      /\ cca.req.scan_period \in Nat /\ cca.req.abort \in Abort
  BY <1>1, NeverAssumption DEF Cca, Time
<1> QED
  BY <1>1, <1>2, NeverAssumption DEF Abort, Time, CcaLast, BSMax

LEMMA CcaReevaluatedFields ==
  ASSUME NEW cca \in cca_status_t, NEW abort \in Abort
  PROVE  LET c == CcaReevaluated(cca, abort)
         IN /\ c.req.abort = abort
            /\ c.req.start_time = cca.req.start_time
            /\ c.req.scan_duration = cca.req.scan_duration
            /\ c.req.scan_period = cca.req.scan_period
            /\ c.scan_end = BSMin(cca.scan_end, abort.abort_time)
            /\ c.next_meas = cca.next_meas /\ c.n_meas = cca.n_meas
<1> DEFINE s == [cca.req EXCEPT !.abort = abort]
           c == CcaReevaluated(cca, abort)
<1>1. /\ s.abort = abort /\ s.start_time = cca.req.start_time
      /\ s.scan_duration = cca.req.scan_duration
      /\ s.scan_period = cca.req.scan_period
  BY TimesOfCca, Zenon DEF Cca
<1>2. /\ c.req = s /\ c.scan_end = BSMin(cca.scan_end, abort.abort_time)
      /\ c.next_meas = cca.next_meas /\ c.n_meas = cca.n_meas
  BY Zenon DEF CcaReevaluated, cca_status_t
<1> QED
  BY <1>1, <1>2

(***************************************************************************)
(* The reevaluation of the abort moves neither the measurements nor the    *)
(* last microsecond that the search was asked for.                         *)
(***************************************************************************)
LEMMA RecheckedCca ==
  ASSUME StateOK, InTime, NEW d \in Dev, fq[d].index = Rx_CCA_meas,
         current_time = fq[d].time, Timely(d), NEW cca \in CcaRechecked(d)
  PROVE  /\ cca \in cca_status_t /\ CcaInScan(cca)
         /\ current_time <= cca.next_meas
         /\ cca.n_meas = 0 => current_time = cca.next_meas
         /\ cca.req.start_time = cca_a[d].req.start_time
         /\ cca.req.scan_duration = cca_a[d].req.scan_duration
<1>1. cca_a[d] \in cca_status_t /\ cca \in cca_status_t
  BY CcaRecheckedType DEF StateOK
<1> DEFINE c == cca_a[d]
<1>2. /\ c.next_meas = c.req.start_time + c.n_meas * c.req.scan_period
      /\ current_time <= c.next_meas
      /\ c.n_meas = 0 => current_time = c.req.start_time
      /\ 0 < c.req.scan_period
      /\ current_time <= CcaLast(c.req)
      /\ c.scan_end <= CcaLast(c.req)
  BY DEF Timely, CcaTimely
<1> HIDE DEF c
<1>3. c \in cca_status_t
  BY <1>1 DEF c
<1>4. c.n_meas = 0 => current_time = c.next_meas
  <2>1. c.req.scan_period \in Nat /\ 0 * c.req.scan_period = 0
        /\ c.req.start_time \in Nat
    BY <1>3, TimesOfCca
  <2> QED
    BY <1>2, <2>1
<1>5. CASE ~CcaRecheckDue(d) /\ cca = c
  <2>1. current_time <= c.req.abort.recheck_time
    BY <1>3, <1>5, TimesOfCca, NowType DEF CcaRecheckDue, c
  <2> QED
    BY <1>2, <1>3, <1>4, <1>5, <2>1 DEF CcaInScan, c
<1>6. ASSUME NEW abort \in NewAborts(d), cca = CcaReevaluated(c, abort)
      PROVE  /\ CcaInScan(cca)
             /\ current_time <= cca.next_meas
             /\ cca.n_meas = 0 => current_time = cca.next_meas
             /\ cca.req.start_time = c.req.start_time
             /\ cca.req.scan_duration = c.req.scan_duration
  <2>1. /\ abort \in Abort /\ current_time <= abort.recheck_time
        /\ abort.abort_time \in Nat
    BY NewAbortTimes
  <2>2. /\ cca.req.abort = abort
        /\ cca.req.start_time = c.req.start_time
        /\ cca.req.scan_duration = c.req.scan_duration
        /\ cca.req.scan_period = c.req.scan_period
        /\ cca.scan_end = BSMin(c.scan_end, abort.abort_time)
        /\ cca.next_meas = c.next_meas /\ cca.n_meas = c.n_meas
    BY <1>3, <1>6, <2>1, CcaReevaluatedFields
  <2>3. CcaLast(cca.req) = CcaLast(c.req)
    BY <2>2 DEF CcaLast
  <2>4. cca.scan_end <= CcaLast(c.req)
    BY <1>2, <1>3, <2>1, <2>2, TimesOfCca DEF BSMin
  <2> QED
    BY <1>2, <1>4, <2>1, <2>2, <2>3, <2>4 DEF CcaInScan
<1>7. \/ ~CcaRecheckDue(d) /\ cca = c
      \/ \E abort \in NewAborts(d) : cca = CcaReevaluated(c, abort)
  BY DEF CcaRechecked, c
<1> QED
  BY <1>1, <1>5, <1>6, <1>7 DEF c

LEMMA MeasuredFields ==
  ASSUME NEW cca \in cca_status_t, NEW level, NEW modulated
  PROVE  LET c == Measured(cca, level, modulated)
         IN /\ c.req = cca.req
            /\ c.next_meas = cca.next_meas + cca.req.scan_period
            /\ c.n_meas = cca.n_meas + 1
            /\ c.scan_end = current_time \/ c.scan_end = cca.scan_end
<1> DEFINE end == IF \/ level /\ StopsOnLevel(cca.req)
                     \/ modulated /\ StopsOnModulation(cca.req)
                  THEN current_time ELSE cca.scan_end
           over == cca.rssi_overthreshold \/ level
           found == cca.mod_found \/ modulated
           c == [cca EXCEPT !.rssi_overthreshold = over, !.mod_found = found,
                            !.scan_end = end,
                            !.next_meas = @ + cca.req.scan_period,
                            !.n_meas = @ + 1]
<1>1. Measured(cca, level, modulated) = c
  BY Zenon DEF Measured
<1>2. end = current_time \/ end = cca.scan_end
  OBVIOUS
<1> HIDE DEF end, over, found
<1>3. /\ c.req = cca.req /\ c.scan_end = end
      /\ c.next_meas = cca.next_meas + cca.req.scan_period
      /\ c.n_meas = cca.n_meas + 1
  BY Zenon DEF cca_status_t
<1> QED
  BY <1>1, <1>2, <1>3

(***************************************************************************)
(* A search that is called in the microsecond of its next measurement, or  *)
(* before it, has measured at least once when it goes on.                  *)
(***************************************************************************)
LEMMA MeasuredInScan ==
  ASSUME InTime, NEW cca0 \in cca_status_t, CcaInScan(cca0),
         current_time <= cca0.next_meas,
         cca0.n_meas = 0 => current_time = cca0.next_meas,
         NEW cca \in Measurements(cca0)
  PROVE  /\ cca \in cca_status_t /\ CcaInScan(cca)
         /\ current_time <= cca.next_meas /\ cca.n_meas # 0
         /\ cca.req = cca0.req
<1>1. /\ cca0.next_meas \in Nat /\ cca0.n_meas \in Nat /\ cca0.scan_end \in Nat
      /\ cca0.req.start_time \in Nat /\ cca0.req.scan_period \in Nat
      /\ CcaLast(cca0.req) \in Int /\ current_time \in Nat
  BY TimesOfCca, NowType
<1>2. cca \in cca_status_t
  BY MeasuredType
<1>3. CASE current_time < cca0.next_meas /\ cca = cca0
  BY <1>1, <1>2, <1>3
<1>4. ASSUME current_time >= cca0.next_meas,
             NEW level \in BOOLEAN, NEW modulated \in BOOLEAN,
             cca = Measured(cca0, level, modulated)
      PROVE  /\ CcaInScan(cca) /\ cca.req = cca0.req
             /\ current_time <= cca.next_meas /\ cca.n_meas # 0
  <2>1. /\ cca.req = cca0.req
        /\ cca.next_meas = cca0.next_meas + cca0.req.scan_period
        /\ cca.n_meas = cca0.n_meas + 1
        /\ cca.scan_end = current_time \/ cca.scan_end = cca0.scan_end
    BY <1>4, MeasuredFields
  <2>2. (cca0.n_meas + 1) * cca0.req.scan_period
          = cca0.n_meas * cca0.req.scan_period + cca0.req.scan_period
    BY <1>1
  <2>3. cca.next_meas = cca.req.start_time + cca.n_meas * cca.req.scan_period
    <3>1. cca0.n_meas * cca0.req.scan_period \in Nat
      BY <1>1
    <3>2. cca0.next_meas
            = cca0.req.start_time + cca0.n_meas * cca0.req.scan_period
      BY DEF CcaInScan
    <3> DEFINE p == cca0.n_meas * cca0.req.scan_period
    <3> HIDE DEF p
    <3>3. cca0.next_meas + cca0.req.scan_period
            = cca0.req.start_time + (p + cca0.req.scan_period)
      BY <1>1, <3>1, <3>2 DEF p
    <3> QED
      BY <2>1, <2>2, <3>3 DEF p
  <2>4. CcaInScan(cca)
    BY <1>1, <2>1, <2>3 DEF CcaInScan
  <2> QED
    BY <1>1, <1>4, <2>1, <2>4
<1>5. \/ current_time < cca0.next_meas /\ cca = cca0
      \/ /\ current_time >= cca0.next_meas
         /\ \E level \in BOOLEAN, modulated \in BOOLEAN :
              cca = Measured(cca0, level, modulated)
  <2> DEFINE M == IF find_fitting_tx_cca(cca0.req) THEN BOOLEAN ELSE {FALSE}
             all == {Measured(cca0, level, modulated) :
                       level \in BOOLEAN, modulated \in M}
  <2>1. Measurements(cca0) = IF current_time >= cca0.next_meas THEN all ELSE {cca0}
    BY DEF Measurements
  <2>2. M \subseteq BOOLEAN
    OBVIOUS
  <2> HIDE DEF M
  <2>3. \A c \in all : \E level \in BOOLEAN, modulated \in BOOLEAN :
          c = Measured(cca0, level, modulated)
    BY <2>2
  <2> HIDE DEF all
  <2> QED
    BY <1>1, <2>1, <2>3
<1> QED
  BY <1>2, <1>3, <1>4, <1>5

LEMMA CcaKeeps ==
  ASSUME StateOK, InTime, NEW d \in Dev, fq[d].index = Rx_CCA_meas,
         current_time = fq[d].time, Timely(d), f_cca_meas(d)
  PROVE  Keeps(d)
<1>1. PICK msgs \in CcaMsgs(d) :
        \/ Exit(msgs)
        \/ fq' = fq_remove(fq, d) /\ UNCHANGED <<used, tx_list, rx_a, cca_a>>
        \/ \E cca0 \in CcaRechecked(d) : \E cca \in Measurements(cca0) :
             \/ p2G4_handle_next_request(d, used, max_tx_nbr, rx_a[d], cca,
                                         Append(msgs, Msg(d, "CCA_END", "none")))
             \/ /\ current_time < cca.scan_end
                /\ cca_a' = [cca_a EXCEPT ![d] = cca]
                /\ fq' = [fq EXCEPT ![d] = NextCcaEvent(cca)]
                /\ UNCHANGED <<used, tx_list, rx_a>>
  BY Zenon DEF f_cca_meas
<1>2. CASE Exit(msgs)
  BY <1>2 DEF Exit, Keeps
<1>3. CASE fq' = fq_remove(fq, d) /\ UNCHANGED <<used, tx_list, rx_a, cca_a>>
  <2>1. Elsewhere(d)
    BY <1>3 DEF Elsewhere, fq_remove, StateOK
  <2> QED
    BY <1>3, <2>1, RemovedTimely, NotFound DEF Keeps
<1>4. ASSUME NEW cca0 \in CcaRechecked(d), NEW cca \in Measurements(cca0),
             p2G4_handle_next_request(d, used, max_tx_nbr, rx_a[d], cca,
                                      Append(msgs, Msg(d, "CCA_END", "none")))
      PROVE  Keeps(d)
  <2>1. /\ used \in [Dev -> TxsFlags] /\ rx_a[d] \in rx_status_t
        /\ current_time <= fq[d].time
    BY NowType DEF StateOK
  <2> QED
    BY <1>4, <2>1, NextRequestKeeps
<1>5. ASSUME NEW cca0 \in CcaRechecked(d), NEW cca \in Measurements(cca0),
             current_time < cca.scan_end,
             cca_a' = [cca_a EXCEPT ![d] = cca],
             fq' = [fq EXCEPT ![d] = NextCcaEvent(cca)],
             UNCHANGED <<used, tx_list, rx_a>>
      PROVE  Keeps(d)
  <2>1. /\ cca \in cca_status_t /\ CcaInScan(cca)
        /\ current_time <= cca.next_meas /\ cca.n_meas # 0
    BY RecheckedCca, MeasuredInScan
  <2>2. /\ cca.scan_end \in Nat /\ cca.next_meas \in Nat
        /\ cca.req.abort.recheck_time \in Nat /\ CcaLast(cca.req) \in Int
    BY <2>1, TimesOfCca
  <2> DEFINE t == BSMin(BSMin(cca.scan_end, cca.req.abort.recheck_time),
                        cca.next_meas)
  <2>3. current_time <= t /\ t <= cca.scan_end /\ t <= cca.next_meas
    BY <1>5, <2>1, <2>2, NowType DEF BSMin, CcaInScan
  <2>4. fq'[d].index = Rx_CCA_meas /\ fq'[d].time = t /\ cca_a'[d] = cca
    BY <1>5 DEF NextCcaEvent, Event, StateOK
  <2>5. t \in Nat
    BY <2>2 DEF BSMin
  <2> HIDE DEF t
  <2>6. CcaTimely(fq'[d], cca_a'[d])
    BY <2>1, <2>2, <2>3, <2>4, <2>5 DEF CcaTimely, CcaInScan
  <2>7. Timely(d)'
    BY <2>4, <2>6, TimelyByEvent
  <2>8. Elsewhere(d)
    BY <1>5 DEF Elsewhere, StateOK
  <2> QED
    BY <2>3, <2>4, <2>7, <2>8, NotFound DEF Keeps
<1> QED
  BY <1>1, <1>2, <1>3, <1>4, <1>5

------------------------------------------------------------------------------
(***************************************************************************)
(* Transmissions.                                                          *)
(***************************************************************************)
LEMMA TimesOfTx ==
  ASSUME NEW t \in Txv2
  PROVE  /\ t.start_tx_time \in Nat /\ t.end_tx_time \in Nat
         /\ t.start_packet_time \in Nat /\ t.end_packet_time \in Nat
         /\ t.abort \in Abort
         /\ t.abort.abort_time \in Nat /\ t.abort.recheck_time \in Nat
         /\ TxEndt(t) \in Nat /\ TIME_NEVER \in Nat
         /\ TxEndt(t) <= t.end_tx_time /\ TxEndt(t) <= t.abort.abort_time
         /\ TxEndt(t) = t.end_tx_time \/ TxEndt(t) = t.abort.abort_time
         /\ t.end_tx_time <= TIME_NEVER /\ t.abort.recheck_time <= TIME_NEVER
<1>1. /\ t.start_tx_time \in Time /\ t.end_tx_time \in Time
      /\ t.start_packet_time \in Time /\ t.end_packet_time \in Time
      /\ t.abort \in Abort
  BY DEF Txv2
<1>2. t.abort.abort_time \in Time /\ t.abort.recheck_time \in Time
  BY <1>1 DEF Abort
<1> QED
  BY <1>1, <1>2, NeverAssumption DEF Time, TxEndt, BSMin

(***************************************************************************)
(* The next event of a transmission that is on the air, in the microsecond *)
(* now.  None comes after the end of the transmission.  A packet that      *)
(* spans its transmission waits for neither its start nor its end: by its  *)
(* start it is ongoing, and by its end the transmission is over.           *)
(***************************************************************************)
LEMMA NextTxEvent ==
  ASSUME NEW t \in Txv2, NEW u, NEW now \in Nat,
         now <= TxEndt(t), WellAsked => now <= t.abort.recheck_time,
         WellAsked => SpansOrIsNotRechecked(t),
         WellAsked /\ SpansItsTx(t) => TXS_PACKET_ONGOING \in u
  PROVE  LET e == tx_schedule_next_event(t, u)
         IN /\ e.index \in TxQueued /\ TxTimely(e, t, u)
            /\ WellAsked => now <= e.time
<1> DEFINE e == tx_schedule_next_event(t, u)
           p == Packet_start_time(t, u)
           q == Packet_end_time(t, u)
           n == BSMin(BSMin(p, TxEndt(t)), q)
<1>1. /\ t.start_tx_time \in Nat /\ t.end_tx_time \in Nat
      /\ t.start_packet_time \in Nat /\ t.end_packet_time \in Nat
      /\ t.abort.abort_time \in Nat /\ t.abort.recheck_time \in Nat
      /\ TxEndt(t) \in Nat /\ TIME_NEVER \in Nat
      /\ TxEndt(t) <= t.end_tx_time
      /\ t.end_tx_time <= TIME_NEVER /\ t.abort.recheck_time <= TIME_NEVER
  BY TimesOfTx
<1>2. p \in Nat /\ q \in Nat
  BY <1>1 DEF Packet_start_time, Packet_end_time
<1>3. /\ p = TIME_NEVER \/ TXS_PACKET_ONGOING \notin u
      /\ q = TIME_NEVER \/ q = t.end_packet_time
  BY DEF Packet_start_time, Packet_end_time
<1>4. \/ e = Event(t.abort.recheck_time, Tx_Abort_Reeval)
         /\ t.abort.recheck_time <= n
      \/ e = Event(TxEndt(t), Tx_Packet_Start) /\ n = p /\ n < t.abort.recheck_time
      \/ e = Event(TxEndt(t), Tx_End)
      \/ e = Event(TxEndt(t), Tx_Packet_End) /\ n # TxEndt(t)
         /\ n # p /\ n < t.abort.recheck_time
  BY <1>1, <1>2 DEF tx_schedule_next_event, BSMin
<1>5. n \in Nat /\ n <= TxEndt(t) /\ n \in {p, q, TxEndt(t)}
  BY <1>1, <1>2 DEF BSMin
<1> HIDE DEF e, n, p, q
<1>6. CASE e = Event(t.abort.recheck_time, Tx_Abort_Reeval)
           /\ t.abort.recheck_time <= n
  <2>1. e.index = Tx_Abort_Reeval /\ e.time = t.abort.recheck_time
    BY <1>6 DEF Event
  <2>2. e.time <= TxEndt(t) /\ (WellAsked => now <= e.time)
    BY <1>1, <1>5, <1>6, <2>1
  <2>3. e.index \in TxQueued
        /\ e.index \notin {Tx_Start, Tx_End, Tx_Packet_Start, Tx_Packet_End}
    BY <2>1 DEF TxQueued, Tx_Start, Tx_End, Tx_Packet_Start, Tx_Packet_End,
                Tx_Abort_Reeval
  <2> QED
    BY <2>1, <2>2, <2>3 DEF TxTimely, e
<1>7. ASSUME e.index \in TxQueued \ {Tx_Abort_Reeval}, e.time = TxEndt(t),
             WellAsked /\ e.index \in {Tx_Packet_Start, Tx_Packet_End} =>
               ~SpansItsTx(t)
      PROVE  /\ e.index \in TxQueued /\ TxTimely(e, t, u)
             /\ WellAsked => now <= e.time
  <2>1. e.index # Tx_Start /\ e.time <= TxEndt(t) /\ now <= e.time
    BY <1>1, <1>7, EventClasses
  <2> QED
    BY <1>7, <2>1 DEF TxTimely
<1>8. CASE e = Event(TxEndt(t), Tx_End)
  <2>1. e.index = Tx_End /\ e.time = TxEndt(t)
    BY <1>8 DEF Event
  <2>2. /\ e.index \in TxQueued \ {Tx_Abort_Reeval}
        /\ e.index \notin {Tx_Packet_Start, Tx_Packet_End}
    BY <2>1 DEF TxQueued, Tx_End, Tx_Packet_Start, Tx_Packet_End, Tx_Abort_Reeval
  <2> QED
    BY <1>7, <2>1, <2>2 DEF e
<1>9. CASE e = Event(TxEndt(t), Tx_Packet_Start) /\ n = p
           /\ n < t.abort.recheck_time
  <2>1. e.index = Tx_Packet_Start /\ e.time = TxEndt(t)
    BY <1>9 DEF Event
  <2>2. e.index \in TxQueued \ {Tx_Abort_Reeval}
    BY <2>1 DEF TxQueued, Tx_Packet_Start, Tx_Abort_Reeval
  <2>3. TXS_PACKET_ONGOING \notin u
    <3>1. p # TIME_NEVER
      BY <1>1, <1>9
    <3> QED
      BY <1>3, <3>1
  <2> QED
    BY <1>7, <2>1, <2>2, <2>3 DEF e
<1>10. CASE e = Event(TxEndt(t), Tx_Packet_End) /\ n # TxEndt(t)
            /\ n # p /\ n < t.abort.recheck_time
  <2>1. e.index = Tx_Packet_End /\ e.time = TxEndt(t)
    BY <1>10 DEF Event
  <2>2. e.index \in TxQueued \ {Tx_Abort_Reeval}
    BY <2>1 DEF TxQueued, Tx_Packet_End, Tx_Abort_Reeval
  <2>3. n = q /\ q < TxEndt(t) /\ q # TIME_NEVER
    BY <1>1, <1>2, <1>5, <1>10
  <2>4. ~SpansItsTx(t)
    BY <1>1, <1>3, <2>3 DEF SpansItsTx
  <2> QED
    BY <1>7, <2>1, <2>2, <2>4 DEF e
<1> QED
  BY <1>4, <1>6, <1>8, <1>9, <1>10

(***************************************************************************)
(* A transmission that goes on, with the receivers it may have activated.  *)
(***************************************************************************)
LEMMA OnAirKeeps ==
  ASSUME StateOK, NEW d \in Dev, rx_a[d].state = NotSearching,
         NEW t \in Txv2, NEW u, NEW q,
         \/ q = fq /\ rx_a' = rx_a
         \/ /\ q = ActivatedFq(t) /\ rx_a' = ActivatedRx(t, d)
            /\ t = tx_list[d] /\ tx_list' = tx_list
            /\ TXS_PACKET_ONGOING \in u,
         current_time \in Nat, current_time <= TxEndt(t),
         WellAsked => current_time <= t.abort.recheck_time,
         WellAsked => SpansOrIsNotRechecked(t),
         WellAsked /\ SpansItsTx(t) => TXS_PACKET_ONGOING \in u,
         fq' = [q EXCEPT ![d] = tx_schedule_next_event(t, u)],
         used'[d] = u, \A x \in Dev \ {d} : used'[x] = used[x],
         tx_list'[d] = t, \A x \in Dev \ {d} : tx_list'[x] = tx_list[x],
         UNCHANGED cca_a
  PROVE  Keeps(d) /\ fq'[d].index \in TxQueued
<1> DEFINE e == tx_schedule_next_event(t, u)
<1>1. /\ e.index \in TxQueued /\ TxTimely(e, t, u)
      /\ WellAsked => current_time <= e.time
  BY NextTxEvent
<1> HIDE DEF e
<1>2. q \in [Dev -> Entry] \/ q = ActivatedFq(t)
  BY DEF StateOK
<1>3. fq'[d] = e /\ \A x \in Dev \ {d} : fq'[x] = q[x]
  BY <1>2 DEF ActivatedFq, e
<1>4. Timely(d)'
  BY <1>1, <1>3, TimelyByEvent
<1>5. ASSUME NEW x \in Dev \ {d}
      PROVE  (fq'[x] = fq[x] /\ rx_a'[x] = rx_a[x]) \/ Activates(d, x)
  <2>1. CASE q = fq /\ rx_a' = rx_a
    BY <1>3, <2>1
  <2>2. CASE /\ q = ActivatedFq(t) /\ rx_a' = ActivatedRx(t, d)
             /\ x \notin Activated(t)
    BY <1>3, <2>2 DEF ActivatedFq, ActivatedRx
  <2>3. CASE /\ q = ActivatedFq(t) /\ rx_a' = ActivatedRx(t, d)
             /\ t = tx_list[d] /\ tx_list' = tx_list
             /\ TXS_PACKET_ONGOING \in u /\ x \in Activated(t)
    <3>1. rx_a[x].state = Searching /\ tx_and_rx_match(tx_list[d], rx_a[x])
      BY <2>3 DEF Activated
    <3>2. fq'[x] = Event(current_time, Rx_Found)
      BY <1>3, <2>3 DEF ActivatedFq
    <3>3. rx_a'[x] = [rx_a[x] EXCEPT !.tx_nbr = d, !.state = NotSearching]
      BY <2>3 DEF ActivatedRx
    <3> QED
      BY <1>1, <1>3, <2>3, <3>1, <3>2, <3>3 DEF Activates, PacketOngoing
  <2> QED
    BY <2>1, <2>2, <2>3
<1>6. Elsewhere(d)
  BY <1>5 DEF Elsewhere
<1>7. fq'[d].index # Rx_Found
  BY <1>1, <1>3, EventClasses
<1> QED
  BY <1>1, <1>3, <1>4, <1>6, <1>7 DEF Keeps

LEMMA OngoingFlags ==
  ASSUME NEW u \in [Dev -> TxsFlags], NEW d \in Dev
  PROVE  TXS_PACKET_ONGOING \in txl_start_packet(u, d)[d]
BY DEF txl_start_packet

LEMMA TxStartKeeps ==
  ASSUME StateOK, InTime, NEW d \in Dev, Consistent(d), Timely(d),
         fq[d].index = Tx_Start, current_time = fq[d].time, f_tx_start(d)
  PROVE  Keeps(d)
<1> DEFINE t == tx_list[d]
           started == t.start_packet_time <= current_time
           u == IF started THEN txl_start_packet(txl_start_tx(used, d), d)
                           ELSE txl_start_tx(used, d)
           q == IF started THEN ActivatedFq(t) ELSE fq
<1>1. rx_a[d].state = NotSearching /\ t \in Txv2 /\ current_time \in Nat
  BY OffAir, NowType DEF StateOK, Tx_Start, Rx_Search_reeval
<1>2. /\ current_time = t.start_tx_time
      /\ current_time <= TxEndt(t) /\ current_time <= t.abort.recheck_time
      /\ WellAsked => SpansOrIsNotRechecked(t)
  BY DEF Timely, TxTimely
<1>3. /\ \A x \in Dev \ {d} : u[x] = used[x]
      /\ started => TXS_PACKET_ONGOING \in u[d]
  <2>1. /\ used \in [Dev -> TxsFlags]
        /\ txl_start_tx(used, d) \in [Dev -> TxsFlags]
    BY TxsFlagsType DEF StateOK
  <2> QED
    BY <2>1, FlagsOn, OngoingFlags
<1>4. SpansItsTx(t) => started
  BY <1>2 DEF SpansItsTx
<1>5. /\ used' = u
      /\ rx_a' = IF started THEN ActivatedRx(t, d) ELSE rx_a
      /\ fq' = [q EXCEPT ![d] = tx_schedule_next_event(t, u[d])]
      /\ UNCHANGED <<tx_list, cca_a>>
  BY DEF f_tx_start
<1>6. \/ q = fq /\ rx_a' = rx_a
      \/ /\ q = ActivatedFq(t) /\ rx_a' = ActivatedRx(t, d)
         /\ TXS_PACKET_ONGOING \in u[d]
  BY <1>3, <1>5
<1>7. t = tx_list[d]
  OBVIOUS
<1> HIDE DEF u, started, q, t
<1> DEFINE v == u[d]
<1>8. /\ used'[d] = v /\ \A x \in Dev \ {d} : used'[x] = used[x]
      /\ tx_list' = tx_list /\ cca_a' = cca_a
      /\ WellAsked /\ SpansItsTx(t) => TXS_PACKET_ONGOING \in v
      /\ fq' = [q EXCEPT ![d] = tx_schedule_next_event(t, v)]
  BY <1>3, <1>4, <1>5
<1> HIDE DEF v
<1>9. /\ tx_list'[d] = t /\ \A x \in Dev \ {d} : tx_list'[x] = tx_list[x]
      /\ \/ q = fq /\ rx_a' = rx_a
         \/ /\ q = ActivatedFq(t) /\ rx_a' = ActivatedRx(t, d)
            /\ t = tx_list[d] /\ tx_list' = tx_list
            /\ TXS_PACKET_ONGOING \in v
  BY <1>6, <1>7, <1>8 DEF v
<1> QED
  BY <1>1, <1>2, <1>8, <1>9, OnAirKeeps

(***************************************************************************)
(* A packet starts or ends at the time that was scheduled, which is not    *)
(* after the end of the transmission.                                      *)
(***************************************************************************)
LEMMA TxPacketKeeps ==
  ASSUME StateOK, InTime, NEW d \in Dev, Consistent(d), Timely(d),
         current_time = fq[d].time,
         \/ fq[d].index = Tx_Packet_Start /\ f_tx_packet_start(d)
         \/ fq[d].index = Tx_Packet_End /\ f_tx_packet_end(d)
  PROVE  /\ Keeps(d) /\ fq'[d].index \in TxQueued /\ tx_list' = tx_list
         /\ fq[d].index = Tx_Packet_Start => PacketOngoing(used', d)
<1> DEFINE t == tx_list[d]
<1>1. /\ rx_a[d].state = NotSearching /\ t \in Txv2 /\ current_time \in Nat
      /\ fq[d].index \in TxQueued
      /\ fq[d].index \in {Tx_Packet_Start, Tx_Packet_End}
  BY OffAir, NowType
  DEF StateOK, TxQueued, Tx_Packet_Start, Tx_Packet_End, Rx_Search_reeval
<1>2. /\ current_time <= TxEndt(t)
      /\ WellAsked => SpansOrIsNotRechecked(t) /\ ~SpansItsTx(t)
  BY <1>1 DEF Timely, TxTimely
<1>3. WellAsked => current_time <= t.abort.recheck_time
  BY <1>1, <1>2, TimesOfTx DEF SpansOrIsNotRechecked
<1>4. PICK u, q :
        /\ \/ /\ q = fq /\ rx_a' = rx_a
              /\ fq[d].index # Tx_Packet_Start
           \/ /\ q = ActivatedFq(t) /\ rx_a' = ActivatedRx(t, d)
              /\ TXS_PACKET_ONGOING \in u
        /\ fq' = [q EXCEPT ![d] = tx_schedule_next_event(t, u)]
        /\ used'[d] = u
        /\ \A x \in Dev \ {d} : used'[x] = used[x]
        /\ UNCHANGED <<tx_list, cca_a>>
  <2>1. used \in [Dev -> TxsFlags]
    BY DEF StateOK
  <2>2. CASE f_tx_packet_start(d)
    <3>1. /\ \A x \in Dev \ {d} : used'[x] = used[x]
          /\ TXS_PACKET_ONGOING \in used'[d]
      BY <2>1, <2>2, FlagsOn, OngoingFlags DEF f_tx_packet_start
    <3> QED
      BY <2>2, <3>1, Zenon DEF f_tx_packet_start
  <2>3. CASE fq[d].index = Tx_Packet_End /\ f_tx_packet_end(d)
    <3>1. /\ \A x \in Dev \ {d} : used'[x] = used[x]
          /\ fq[d].index # Tx_Packet_Start
      BY <2>1, <2>3, FlagsOn DEF f_tx_packet_end, Tx_Packet_Start, Tx_Packet_End
    <3> QED
      BY <2>3, <3>1, Zenon DEF f_tx_packet_end
  <2> QED
    BY <2>2, <2>3
<1>5. t = tx_list[d]
  OBVIOUS
<1> HIDE DEF t
<1>6. Keeps(d) /\ fq'[d].index \in TxQueued
  BY <1>1, <1>2, <1>3, <1>4, <1>5, OnAirKeeps
<1> QED
  BY <1>4, <1>6 DEF PacketOngoing

LEMMA TxEndKeeps ==
  ASSUME StateOK, InTime, NEW d \in Dev, current_time = fq[d].time, f_tx_end(d)
  PROVE  Keeps(d)
<1>1. /\ txl_clear(used, d) \in [Dev -> TxsFlags]
      /\ \A x \in Dev \ {d} : txl_clear(used, d)[x] = used[x]
      /\ rx_a[d] \in rx_status_t
  <2>1. used \in [Dev -> TxsFlags] /\ rx_a[d] \in rx_status_t
    BY DEF StateOK
  <2>2. txl_clear(used, d) \in [Dev -> TxsFlags]
    BY <2>1, TxsFlagsType, Zenon
  <2>3. \A x \in Dev \ {d} : txl_clear(used, d)[x] = used[x]
    BY <2>1, FlagsOn, Zenon
  <2> QED
    BY <2>1, <2>2, <2>3
<1>2. current_time <= fq[d].time
  BY NowType
<1>3. PICK m \in DevOrNone :
        p2G4_handle_next_request(d, txl_clear(used, d), m, rx_a[d],
                                 cca_a[d], <<Msg(d, "TX_END", "none")>>)
  BY DEF f_tx_end
<1> QED
  BY <1>1, <1>2, <1>3, NextRequestKeeps

(***************************************************************************)
(* The reevaluation of the abort of a transmission.                        *)
(***************************************************************************)
OnAirOrGone(d) ==
  \/ /\ fq'[d].index \in TxQueued
     /\ PacketOngoing(used, d) => PacketOngoing(used', d)
  \/ fq'[d].index = State_None

LEMMA TxAbortReevalKeeps ==
  ASSUME StateOK, InTime, NEW d \in Dev, Consistent(d), Timely(d),
         fq[d].index = Tx_Abort_Reeval, current_time = fq[d].time,
         f_tx_abort_reeval(d)
  PROVE  /\ Keeps(d)
         /\ \/ phase' = "error"
            \/ /\ OnAirOrGone(d)
               /\ tx_list'[d].start_packet_time = tx_list[d].start_packet_time
<1>1. /\ rx_a[d].state = NotSearching /\ tx_list[d] \in Txv2
      /\ current_time \in Nat /\ fq[d].index \in TxQueued
  BY OffAir, NowType DEF StateOK, TxQueued, Tx_Abort_Reeval, Rx_Search_reeval
<1>2. /\ current_time <= TxEndt(tx_list[d])
      /\ current_time = tx_list[d].abort.recheck_time
      /\ WellAsked => SpansOrIsNotRechecked(tx_list[d])
      /\ WellAsked /\ SpansItsTx(tx_list[d]) => TXS_PACKET_ONGOING \in used[d]
  BY <1>1 DEF Timely, TxTimely
<1>3. \/ phase' = "error"
      \/ /\ used' = txl_clear(used, d) /\ fq' = fq_remove(fq, d)
         /\ UNCHANGED <<tx_list, rx_a, cca_a>>
      \/ \E abort \in NewAborts(d) :
           /\ tx_list' = [tx_list EXCEPT ![d] = [tx_list[d] EXCEPT !.abort = abort]]
           /\ fq' = [fq EXCEPT ![d] = tx_schedule_next_event(
                                        [tx_list[d] EXCEPT !.abort = abort], used[d])]
           /\ UNCHANGED <<used, rx_a, cca_a>>
  BY Zenon DEF f_tx_abort_reeval, Exit
<1>4. CASE phase' = "error"
  BY <1>4 DEF Keeps
<1>5. CASE /\ used' = txl_clear(used, d) /\ fq' = fq_remove(fq, d)
           /\ UNCHANGED <<tx_list, rx_a, cca_a>>
  <2>1. \A x \in Dev \ {d} : used'[x] = used[x]
    BY <1>5, FlagsOn DEF StateOK
  <2>2. Elsewhere(d)
    BY <1>5, <2>1 DEF Elsewhere, fq_remove, StateOK
  <2> QED
    BY <1>5, <2>2, RemovedTimely, NotFound DEF Keeps, OnAirOrGone
<1>6. ASSUME NEW abort \in NewAborts(d), NEW t,
             t = [tx_list[d] EXCEPT !.abort = abort],
             tx_list' = [tx_list EXCEPT ![d] = t],
             fq' = [fq EXCEPT ![d] = tx_schedule_next_event(t, used[d])],
             UNCHANGED <<used, rx_a, cca_a>>
      PROVE  /\ Keeps(d) /\ OnAirOrGone(d)
             /\ tx_list'[d].start_packet_time = tx_list[d].start_packet_time
  <2>1. /\ abort \in Abort
        /\ current_time <= abort.abort_time /\ current_time <= abort.recheck_time
        /\ abort.abort_time \in Nat /\ abort.recheck_time \in Nat
    BY NewAbortTimes
  <2>2. /\ t \in Txv2 /\ t.abort = abort
        /\ t.start_tx_time = tx_list[d].start_tx_time
        /\ t.end_tx_time = tx_list[d].end_tx_time
        /\ t.start_packet_time = tx_list[d].start_packet_time
        /\ t.end_packet_time = tx_list[d].end_packet_time
    BY <1>1, <1>6, <2>1, Zenon DEF Txv2
  <2>3. current_time <= tx_list[d].end_tx_time /\ tx_list[d].end_tx_time \in Nat
    BY <1>1, <1>2, TimesOfTx
  <2>4. current_time <= TxEndt(t)
    BY <2>1, <2>2, <2>3 DEF TxEndt, BSMin
  <2>5. SpansItsTx(t) <=> SpansItsTx(tx_list[d])
    BY <2>2 DEF SpansItsTx
  <2>6. WellAsked => SpansOrIsNotRechecked(t)
    BY <1>1, <1>2, <2>1, <2>2, <2>3, <2>5 DEF SpansOrIsNotRechecked
  <2>7. /\ tx_list'[d] = t /\ used'[d] = used[d]
        /\ \A x \in Dev \ {d} : tx_list'[x] = tx_list[x] /\ used'[x] = used[x]
    BY <1>6 DEF StateOK
  <2>8. Keeps(d) /\ fq'[d].index \in TxQueued
    BY <1>1, <1>2, <1>6, <2>1, <2>2, <2>4, <2>5, <2>6, <2>7, OnAirKeeps
  <2> QED
    BY <2>2, <2>7, <2>8 DEF OnAirOrGone, PacketOngoing
<1>7. CASE \E abort \in NewAborts(d) :
             /\ tx_list' = [tx_list EXCEPT ![d] = [tx_list[d] EXCEPT !.abort = abort]]
             /\ fq' = [fq EXCEPT ![d] = tx_schedule_next_event(
                                          [tx_list[d] EXCEPT !.abort = abort], used[d])]
             /\ UNCHANGED <<used, rx_a, cca_a>>
  BY <1>6, <1>7, Zenon
<1> QED
  BY <1>3, <1>4, <1>5, <1>6, <1>7

------------------------------------------------------------------------------
(***************************************************************************)
(* A receiver that was moved to Rx_Found waits for its call in the present *)
(* microsecond, while the packet it was moved for is still ongoing: the    *)
(* events that may come before it in that microsecond are a packet's start *)
(* and a reevaluation, which leave the packet's start where it was, and    *)
(* take the packet off the air only if the device leaves.                  *)
(***************************************************************************)
Found(x) ==
  fq[x].index = Rx_Found =>
    /\ fq[x].time = current_time
    /\ rx_a[x].tx_nbr \in Dev
    /\ \/ /\ fq[rx_a[x].tx_nbr].index \in TxQueued
          /\ PacketOngoing(used, rx_a[x].tx_nbr)
       \/ fq[rx_a[x].tx_nbr].index = State_None
    /\ tx_list[rx_a[x].tx_nbr].start_packet_time <= current_time
    /\ current_time <= tx_list[rx_a[x].tx_nbr].start_packet_time
                         + rx_a[x].rx_s.acceptable_pre_truncation

NextInv ==
  phase = "running" => IsNext(fq, next_d) /\ current_time = fq[next_d].time

TimelyInv ==
  /\ IInv
  /\ NextInv
  /\ On => \A d \in Dev : Timely(d)
  /\ On /\ phase = "boot" => \A d \in Dev : fq[d].index # Rx_Found
  /\ On /\ WellAsked => \A d \in Dev : Found(d)

LEMMA TimelyInvInit ==
  Init => TimelyInv
<1> SUFFICES ASSUME Init
             PROVE  TimelyInv
  OBVIOUS
<1>1. IInv
  BY IInvInit
<1>2. phase = "boot" /\ \A d \in Dev : fq[d].index = State_None
  BY DEF Init, fq_init, Event
<1>3. State_None \notin RxEvents \cup TxQueued \cup {Tx_Start, Rx_CCA_meas}
  BY DEF State_None, RxEvents, TxQueued, Tx_Start, Rx_CCA_meas,
         Rx_Found, Rx_Header, Rx_Payload, Rx_Sync, Rx_Search_start,
         Rx_Search_reeval, Tx_Abort_Reeval, Tx_Packet_Start, Tx_Packet_End,
         Tx_End
<1>4. ASSUME NEW d \in Dev
      PROVE  Timely(d)
  <2>1. RxTimely(fq[d], rx_a[d])
    BY <1>2, <1>3, EventClasses DEF RxTimely
  <2>2. TxTimely(fq[d], tx_list[d], used[d])
    BY <1>2, <1>3, EventClasses DEF TxTimely
  <2>3. CcaTimely(fq[d], cca_a[d])
    BY <1>2, <1>3 DEF CcaTimely
  <2> QED
    BY <2>1, <2>2, <2>3 DEF Timely
<1>5. \A d \in Dev : fq[d].index # Rx_Found
  BY <1>2, NotFound
<1> QED
  BY <1>1, <1>2, <1>4, <1>5 DEF TimelyInv, NextInv, Found

(***************************************************************************)
(* What a handler does to the other devices leaves them timely.            *)
(***************************************************************************)
LEMMA ActivatedTimely ==
  ASSUME StateOK, NEW d \in Dev, NEW x \in Dev, Consistent(x), Timely(x),
         current_time <= fq[x].time, current_time \in Nat, Activates(d, x)
  PROVE  Timely(x)'
<1>1. fq[x].index = Rx_Search_reeval /\ rx_a[x] \in rx_status_t
  BY DEF Activates, Consistent, StateOK
<1>2. /\ RateOK(rx_a[x]) /\ ScanOK(rx_a[x])
      /\ fq[x].time <= rx_a[x].scan_end + 1
      /\ fq[x].time <= rx_a[x].rx_s.abort.recheck_time
  BY <1>1, EventClasses DEF Timely, RxTimely
<1>3. SameTiming(rx_a'[x], rx_a[x])
  <2>1. SameTiming([rx_a[x] EXCEPT !.tx_nbr = d, !.state = NotSearching], rx_a[x])
    BY <1>1, TimingsKept
  <2> QED
    BY <2>1, Zenon DEF Activates
<1>4. RateOK(rx_a'[x]) /\ ScanOK(rx_a'[x])
  BY <1>2, <1>3, SameTimingKeeps
<1>5. fq'[x].index = Rx_Found /\ fq'[x].time = current_time
  BY DEF Activates, Event
<1>6. fq[x].time \in Nat
  BY NeverAssumption DEF StateOK, Entry, Time
<1>7. /\ current_time <= rx_a'[x].scan_end + 1
      /\ current_time <= rx_a'[x].rx_s.abort.recheck_time
  BY <1>1, <1>2, <1>3, <1>6, TimesOfRx DEF SameTiming
<1>8. RxTimely(fq'[x], rx_a'[x]) /\ fq'[x].index \in RxEvents
  BY <1>4, <1>5, <1>7, EventClasses DEF RxTimely
<1> QED
  BY <1>8, TimelyByEvent

LEMMA KeepsTimely ==
  ASSUME StateOK, NEW d \in Dev, current_time \in Nat, Keeps(d),
         \A x \in Dev : Consistent(x) /\ Timely(x),
         \A x \in Dev \ {d} : current_time <= fq[x].time \/ fq'[x] = fq[x]
  PROVE  On' => \A x \in Dev : Timely(x)'
<1> SUFFICES ASSUME On', NEW x \in Dev
             PROVE  Timely(x)'
  OBVIOUS
<1>1. Elsewhere(d) /\ Timely(d)'
  BY DEF Keeps, On
<1>2. CASE x = d
  BY <1>1, <1>2
<1>3. CASE x # d
  <2>1. /\ used'[x] = used[x] /\ tx_list'[x] = tx_list[x] /\ cca_a'[x] = cca_a[x]
        /\ \/ fq'[x] = fq[x] /\ rx_a'[x] = rx_a[x]
           \/ Activates(d, x)
    BY <1>1, <1>3 DEF Elsewhere
  <2>2. CASE fq'[x] = fq[x] /\ rx_a'[x] = rx_a[x]
    BY <2>1, <2>2 DEF Timely
  <2>3. CASE Activates(d, x) /\ current_time <= fq[x].time
    BY <2>3, ActivatedTimely
  <2>4. CASE Activates(d, x) /\ fq'[x] = fq[x]
    <3>1. fq[x].index = Rx_Search_reeval /\ fq[x].index = Rx_Found
      BY <2>4 DEF Activates, Consistent, Event
    <3> QED
      BY <3>1 DEF Rx_Search_reeval, Rx_Found
  <2> QED
    BY <1>3, <2>1, <2>2, <2>3, <2>4
<1> QED
  BY <1>2, <1>3

LEMMA BootTimely ==
  ASSUME TimelyInv, Boot
  PROVE  TimelyInv'
<1>1. IInv /\ IInv'
  BY IInvStep DEF TimelyInv, Next
<1>2. PICK d \in Dev : d = boot_d
  BY <1>1, TypeParts, NDevsAssumption DEF IInv, Boot, Booting, Dev
<1>3. /\ phase = "boot" /\ current_time = 0 /\ nbr_active_devs > 0 /\ On
      /\ StateOK
      /\ p2G4_handle_next_request(d, used, max_tx_nbr, rx_a[d], cca_a[d], <<>>)
  BY <1>1, <1>2, TypeParts DEF IInv, BootInv, Boot, Booting, On
<1>4. InTime /\ current_time <= fq[d].time
  BY <1>3, SimLengthAssumption, NeverAssumption DEF InTime, Time, StateOK, Entry
<1>5. used \in [Dev -> TxsFlags] /\ rx_a[d] \in rx_status_t
  BY <1>3 DEF StateOK
<1>6. Keeps(d) /\ (phase' = "error" \/ \A x \in Dev \ {d} : fq'[x] = fq[x])
  BY <1>3, <1>4, <1>5, NextRequestKeeps
<1>7. phase' = "boot" \/ phase' = "error"
  <2>1. phase' = phase \/ phase' = "error"
    BY <1>3, Zenon DEF p2G4_handle_next_request, Exit
  <2> QED
    BY <1>3, <2>1
<1>8. NextInv'
  BY <1>7 DEF NextInv
<1>9. On' => \A x \in Dev : Timely(x)'
  <2>1. CASE phase' = "error"
    BY <2>1 DEF On
  <2>2. CASE \A x \in Dev \ {d} : fq'[x] = fq[x]
    <3>1. \A x \in Dev : Consistent(x) /\ Timely(x)
      BY <1>3 DEF TimelyInv, IInv
    <3> QED
      BY <1>3, <1>6, <2>2, <3>1, KeepsTimely
  <2> QED
    BY <1>6, <2>1, <2>2
<1>10. On' => \A x \in Dev : fq'[x].index # Rx_Found
  <2>1. On' => fq'[d].index # Rx_Found
    BY <1>6 DEF Keeps, On
  <2> QED
    BY <1>3, <1>6, <2>1 DEF TimelyInv, On
<1> QED
  BY <1>1, <1>8, <1>9, <1>10 DEF TimelyInv, Found

LEMMA StartLoopTimely ==
  ASSUME TimelyInv, StartLoop
  PROVE  TimelyInv'
<1>1. IInv /\ IInv'
  BY IInvStep DEF TimelyInv, Next
<1>2. /\ phase = "boot" /\ phase' = "running" /\ FindNext
      /\ UNCHANGED <<nbr_active_devs, fq, used, tx_list, rx_a, cca_a>>
  BY DEF StartLoop
<1>3. NextInv'
  BY <1>2 DEF NextInv, FindNext
<1>4. CASE ~On'
  BY <1>1, <1>3, <1>4 DEF TimelyInv
<1>5. CASE On'
  <2>1. On /\ \A x \in Dev : Timely(x) /\ fq[x].index # Rx_Found
    BY <1>2, <1>5 DEF On, TimelyInv
  <2>2. \A x \in Dev : Timely(x)' /\ fq'[x].index # Rx_Found
    BY <1>2, <2>1 DEF Timely
  <2> QED
    BY <1>1, <1>3, <2>2 DEF TimelyInv, Found
<1> QED
  BY <1>4, <1>5

(***************************************************************************)
(* The main loop.                                                          *)
(***************************************************************************)
LEMMA MainLoopCalls ==
  ASSUME TimelyInv, MainLoop, NEW d \in Dev, d = next_d
  PROVE  /\ StateOK /\ InTime /\ phase = "running" /\ On
         /\ current_time = fq[d].time /\ IsNext(fq, d)
         /\ \A x \in Dev : Consistent(x) /\ Timely(x)
         /\ fq[d].index # State_None /\ Handled
<1>1. PICK i \in f_index_t \ {State_None} : Call(i) /\ Handled
  BY EventTypes, Zenon
  DEF MainLoop, WaitDone, RSSIMeas, RxSearchStart, RxSearchReeval, RxFoundStep,
      RxSync, RxHeader, RxPayload, TxAbortReeval, TxStart, TxPacketStart,
      TxPacketEnd, TxEnd, RxCCAMeas
<1>2. IInv
  BY DEF TimelyInv
<1>3. /\ StateOK /\ InTime /\ fq[d].index = i
  BY <1>1, <1>2, HandlerRuns
<1>4. phase = "running" /\ nbr_active_devs > 0 /\ On
  BY <1>1 DEF Call, Looping, On
<1> QED
  BY <1>1, <1>2, <1>3, <1>4 DEF TimelyInv, IInv, NextInv

LEMMA MainLoopKeeps ==
  ASSUME TimelyInv, MainLoop, NEW d \in Dev, d = next_d
  PROVE  /\ Keeps(d) /\ Outcome(d)
         /\ fq[d].index \in {Tx_Abort_Reeval, Tx_Packet_Start} =>
              \/ phase' = "error"
              \/ /\ OnAirOrGone(d)
                 /\ tx_list'[d].start_packet_time = tx_list[d].start_packet_time
<1>1. /\ StateOK /\ InTime /\ On
      /\ current_time = fq[d].time /\ Consistent(d) /\ Timely(d)
      /\ phase # "error" /\ MaxTxNbrIsHighest
  BY MainLoopCalls DEF TimelyInv, IInv
<1>2. /\ Tx_Abort_Reeval \in TxQueued /\ Tx_Packet_Start \in TxQueued
      /\ Tx_Abort_Reeval # Tx_Packet_Start
  BY DEF TxQueued, Tx_Abort_Reeval, Tx_Packet_Start
<1>3. CASE WaitDone \/ RSSIMeas \/ RxCCAMeas
  <2>1. \/ f_wait_done(d) \/ f_RSSI_meas(d)
        \/ fq[d].index = Rx_CCA_meas /\ f_cca_meas(d)
    BY <1>3, Zenon DEF WaitDone, RSSIMeas, RxCCAMeas, Call
  <2>2. fq[d].index \in {Wait_Done, RSSI_Meas, Rx_CCA_meas}
    BY <1>3, Zenon DEF WaitDone, RSSIMeas, RxCCAMeas, Call
  <2>3. fq[d].index \notin {Tx_Abort_Reeval, Tx_Packet_Start}
    BY <2>2 DEF Wait_Done, RSSI_Meas, Rx_CCA_meas, Tx_Abort_Reeval, Tx_Packet_Start
  <2> QED
    BY <1>1, <2>1, <2>2, <2>3, WaitKeeps, CcaKeeps, MeasOutcome
<1>4. CASE RxSearchStart \/ RxSearchReeval
  <2>1. \/ fq[d].index = Rx_Search_start /\ f_rx_search_start(d)
        \/ fq[d].index = Rx_Search_reeval /\ f_rx_search_reeval(d)
    BY <1>4, Zenon DEF RxSearchStart, RxSearchReeval, Call
  <2>2. fq[d].index \notin {Tx_Abort_Reeval, Tx_Packet_Start}
    BY <2>1
    DEF Rx_Search_start, Rx_Search_reeval, Tx_Abort_Reeval, Tx_Packet_Start
  <2> QED
    BY <1>1, <2>1, <2>2, SearchKeeps, SearchOutcome
<1>5. CASE RxFoundStep \/ RxSync \/ RxHeader \/ RxPayload
  <2>1. \/ fq[d].index = Rx_Found /\ f_rx_found(d)
        \/ fq[d].index = Rx_Sync /\ f_rx_sync(d)
        \/ fq[d].index = Rx_Header /\ f_rx_header(d)
        \/ fq[d].index = Rx_Payload /\ f_rx_payload(d)
    BY <1>5, Zenon DEF RxFoundStep, RxSync, RxHeader, RxPayload, Call
  <2>2. fq[d].index = Rx_Found =>
          /\ rx_a[d].tx_nbr \in Dev
          /\ WellAsked => current_time <= tx_list[rx_a[d].tx_nbr].start_packet_time
                                            + rx_a[d].rx_s.acceptable_pre_truncation
    BY <1>1 DEF Consistent, TimelyInv, Found
  <2>3. fq[d].index \notin {Tx_Abort_Reeval, Tx_Packet_Start}
    BY <2>1
    DEF Rx_Found, Rx_Sync, Rx_Header, Rx_Payload, Tx_Abort_Reeval, Tx_Packet_Start
  <2> QED
    BY <1>1, <2>1, <2>2, <2>3, ReceptionKeeps, ReceptionOutcome
<1>6. CASE TxAbortReeval
  <2>1. fq[d].index = Tx_Abort_Reeval /\ f_tx_abort_reeval(d)
    BY <1>6, Zenon DEF TxAbortReeval, Call
  <2> QED
    BY <1>1, <2>1, TxAbortReevalKeeps, TxAbortReevalOutcome
<1>7. CASE TxPacketStart \/ TxPacketEnd
  <2>1. \/ fq[d].index = Tx_Packet_Start /\ f_tx_packet_start(d)
        \/ fq[d].index = Tx_Packet_End /\ f_tx_packet_end(d)
    BY <1>7, Zenon DEF TxPacketStart, TxPacketEnd, Call
  <2>2. /\ Keeps(d) /\ fq'[d].index \in TxQueued /\ tx_list' = tx_list
        /\ fq[d].index = Tx_Packet_Start => PacketOngoing(used', d)
    BY <1>1, <2>1, TxPacketKeeps
  <2>3. Outcome(d)
    BY <1>1, <2>1, TxPacketOutcome
  <2>4. fq[d].index # Tx_Abort_Reeval
    BY <2>1 DEF Tx_Abort_Reeval, Tx_Packet_Start, Tx_Packet_End
  <2> QED
    BY <2>2, <2>3, <2>4 DEF OnAirOrGone
<1>8. CASE TxStart \/ TxEnd
  <2>1. \/ fq[d].index = Tx_Start /\ f_tx_start(d)
        \/ fq[d].index = Tx_End /\ f_tx_end(d)
    BY <1>8, Zenon DEF TxStart, TxEnd, Call
  <2>2. fq[d].index \notin {Tx_Abort_Reeval, Tx_Packet_Start}
    BY <2>1 DEF Tx_Start, Tx_End, Tx_Abort_Reeval, Tx_Packet_Start
  <2> QED
    BY <1>1, <2>1, <2>2, TxStartKeeps, TxEndKeeps, TxStartOutcome, TxEndOutcome
<1> QED
  BY <1>3, <1>4, <1>5, <1>6, <1>7, <1>8, Zenon DEF MainLoop

(***************************************************************************)
(* The event that is called next is nowhere behind another one's.          *)
(***************************************************************************)
LEMMA NextIsEarliest ==
  ASSUME NEW q \in [Dev -> Entry], NEW n, IsNext(q, n)
  PROVE  /\ n \in Dev /\ q[n].time \in Nat
         /\ \A x \in Dev : q[x].time \in Nat /\ q[n].time <= q[x].time
         /\ \A x \in Dev : q[x].time = q[n].time => q[x].index <= q[n].index
<1>1. n \in Dev /\ \A x \in Dev \ {n} : Precedes(q, n, x)
  BY DEF IsNext
<1>2. \A x \in Dev : q[x].time \in Nat /\ q[x].index \in Int
  BY NeverAssumption DEF Entry, Time, f_index_t, State_None, Tx_Start
<1>3. ASSUME NEW x \in Dev
      PROVE  /\ q[n].time <= q[x].time
             /\ q[x].time = q[n].time => q[x].index <= q[n].index
  BY <1>1, <1>2 DEF Precedes
<1> QED
  BY <1>1, <1>2, <1>3

(***************************************************************************)
(* Where the events and the time go in a step of the main loop.            *)
(***************************************************************************)
LEMMA MainLoopTime ==
  ASSUME TimelyInv, MainLoop, NEW d \in Dev, d = next_d, phase' # "error"
  PROVE  /\ Elsewhere(d) /\ fq' \in [Dev -> Entry]
         /\ nbr_active_devs' = 0 \/ fq'[d].index # Rx_Found
         /\ phase' = "running" /\ IsNext(fq', next_d')
         /\ current_time' = fq'[next_d'].time /\ current_time' \in Nat
         /\ \A x \in Dev : current_time' <= fq'[x].time
         /\ current_time \in Nat /\ \A x \in Dev : current_time <= fq[x].time
         /\ WellAsked => current_time <= current_time'
<1>1. /\ StateOK /\ phase = "running" /\ IsNext(fq, d) /\ Handled
      /\ current_time = fq[d].time
  BY MainLoopCalls
<1>2. Keeps(d) /\ phase' = "running"
  BY <1>1, MainLoopKeeps DEF Outcome
<1>3. /\ Elsewhere(d) /\ (nbr_active_devs' = 0 \/ fq'[d].index # Rx_Found)
      /\ WellAsked => current_time <= fq'[d].time
  BY <1>2 DEF Keeps
<1>4. IsNext(fq', next_d') /\ current_time' = fq'[next_d'].time
  BY <1>1, <1>2 DEF Handled, FindNextUnlessError, FindNext
<1>5. fq' \in [Dev -> Entry] /\ fq \in [Dev -> Entry]
  BY <1>1, IInvStep DEF TimelyInv, Next, IInv, TypeOK, Entry, StateOK
<1>6. /\ current_time \in Nat /\ \A x \in Dev : current_time <= fq[x].time
      /\ current_time' \in Nat /\ \A x \in Dev : current_time' <= fq'[x].time
  <2>1. \A q \in [Dev -> Entry] : \A n :
          IsNext(q, n) => \A x \in Dev : /\ n \in Dev /\ q[n].time \in Nat
                                         /\ q[n].time <= q[x].time
    BY NextIsEarliest
  <2> QED
    BY <1>1, <1>4, <1>5, <2>1
<1>7. WellAsked => current_time <= current_time'
  <2> SUFFICES ASSUME WellAsked
               PROVE  current_time <= current_time'
    OBVIOUS
  <2>1. next_d' \in Dev
    BY <1>4 DEF IsNext
  <2>2. CASE next_d' = d
    BY <1>3, <1>4, <2>2
  <2>3. CASE next_d' # d
    <3>1. \/ fq'[next_d'] = fq[next_d']
          \/ fq'[next_d'] = Event(current_time, Rx_Found)
      BY <1>3, <2>1, <2>3 DEF Elsewhere, Activates
    <3> QED
      BY <1>4, <1>6, <2>1, <3>1 DEF Event
  <2> QED
    BY <2>2, <2>3
<1> QED
  BY <1>2, <1>3, <1>4, <1>5, <1>6, <1>7

(***************************************************************************)
(* A receiver stays found until it is called.                              *)
(***************************************************************************)
LEMMA FoundKept ==
  ASSUME TimelyInv, MainLoop, On', WellAsked, NEW x \in Dev
  PROVE  Found(x)'
<1> SUFFICES ASSUME fq'[x].index = Rx_Found
             PROVE  Found(x)'
  BY DEF Found
<1>1. PICK d \in Dev : d = next_d
  BY DEF TimelyInv, IInv, TypeOK
<1>2. /\ StateOK /\ On /\ \A y \in Dev : Consistent(y) /\ Found(y)
      /\ fq[d].index # State_None /\ IsNext(fq, d) /\ current_time = fq[d].time
  BY <1>1, MainLoopCalls DEF TimelyInv
<1>3. /\ Elsewhere(d) /\ x # d
      /\ current_time' \in Nat /\ current_time' <= fq'[x].time
      /\ current_time \in Nat /\ current_time <= current_time'
  BY <1>1, MainLoopTime DEF On
<1>4. CASE Activates(d, x)
  <2>1. fq'[x].time = current_time /\ current_time' = current_time
    BY <1>3, <1>4 DEF Activates, Event
  <2>2. rx_a[x] \in rx_status_t
    BY <1>2 DEF StateOK
  <2>3. rx_a'[x].tx_nbr = d /\ rx_a'[x].rx_s = rx_a[x].rx_s
    BY <1>4, <2>2, Zenon DEF Activates, rx_status_t
  <2>4. /\ tx_list[d].start_packet_time <= current_time
        /\ current_time - tx_list[d].start_packet_time
             <= rx_a[x].rx_s.acceptable_pre_truncation
    BY <1>4 DEF Activates, tx_and_rx_match
  <2>5. /\ tx_list[d].start_packet_time \in Nat
        /\ rx_a[x].rx_s.acceptable_pre_truncation \in Nat
    BY <1>2, <2>2, TimesOfTx, TimesOfRx DEF StateOK
  <2>6. /\ tx_list'[d] = tx_list[d] /\ fq'[d].index \in TxQueued
        /\ PacketOngoing(used', d)
    BY <1>4 DEF Activates
  <2> QED
    BY <1>3, <2>1, <2>3, <2>4, <2>5, <2>6 DEF Found
<1>5. CASE fq'[x] = fq[x] /\ rx_a'[x] = rx_a[x]
  <2> DEFINE y == rx_a[x].tx_nbr
  <2>1. /\ fq[x].index = Rx_Found /\ fq[x].time = current_time
        /\ y \in Dev
        /\ \/ fq[y].index \in TxQueued /\ PacketOngoing(used, y)
           \/ fq[y].index = State_None
        /\ tx_list[y].start_packet_time <= current_time
        /\ current_time <= tx_list[y].start_packet_time
                             + rx_a[x].rx_s.acceptable_pre_truncation
    BY <1>2, <1>5 DEF Found
  <2>2. fq'[x].time = current_time /\ current_time' = current_time
    BY <1>3, <1>5, <2>1
  <2> HIDE DEF y
  <2>3. /\ \/ fq'[y].index \in TxQueued /\ PacketOngoing(used', y)
           \/ fq'[y].index = State_None
        /\ tx_list'[y].start_packet_time = tx_list[y].start_packet_time
    <3>1. CASE y # d
      <4>1. /\ tx_list'[y] = tx_list[y] /\ used'[y] = used[y]
            /\ fq'[y] = fq[y] \/ Activates(d, y)
        BY <1>3, <2>1, <3>1 DEF Elsewhere
      <4>2. ~Activates(d, y)
        BY <1>2, <2>1
        DEF Activates, Consistent, TxQueued, State_None, Rx_Search_reeval,
            Tx_Abort_Reeval, Tx_Packet_Start, Tx_Packet_End, Tx_End
      <4> QED
        BY <2>1, <4>1, <4>2 DEF PacketOngoing
    <3>2. CASE y = d
      <4>1. fq[x].index <= fq[d].index
        BY <1>2, <2>1, NextIsEarliest DEF StateOK
      <4>2. fq[d].index \in {Tx_Abort_Reeval, Tx_Packet_Start}
        BY <1>2, <2>1, <3>2, <4>1
        DEF TxQueued, State_None, Rx_Found, Tx_Abort_Reeval, Tx_Packet_Start,
            Tx_Packet_End, Tx_End
      <4>3. phase' # "error"
        BY DEF On
      <4>4. OnAirOrGone(d) /\ fq[d].index # State_None
        BY <1>1, <1>2, <4>2, <4>3, MainLoopKeeps
      <4> QED
        BY <1>1, <2>1, <3>2, <4>2, <4>3, <4>4, MainLoopKeeps DEF OnAirOrGone
    <3> QED
      BY <3>1, <3>2
  <2>4. rx_a'[x].tx_nbr = y /\ rx_a'[x].rx_s = rx_a[x].rx_s
    BY <1>5 DEF y
  <2> QED
    BY <2>1, <2>2, <2>3, <2>4 DEF Found
<1> QED
  BY <1>3, <1>4, <1>5 DEF Elsewhere

LEMMA MainLoopTimely ==
  ASSUME TimelyInv, MainLoop
  PROVE  TimelyInv'
<1>1. PICK d \in Dev : d = next_d
  BY DEF TimelyInv, IInv, TypeOK
<1>2. /\ StateOK /\ \A x \in Dev : Consistent(x) /\ Timely(x)
      /\ Handled /\ Keeps(d) /\ Outcome(d) /\ phase = "running"
  BY <1>1, MainLoopCalls, MainLoopKeeps
<1>3. IInv'
  BY IInvStep DEF TimelyInv, Next
<1>4. NextInv'
  <2>1. CASE phase' = "error"
    BY <2>1 DEF NextInv
  <2>2. CASE FindNext
    BY <2>2 DEF NextInv, FindNext
  <2> QED
    BY <1>2, <2>1, <2>2 DEF Handled, FindNextUnlessError
<1>5. CASE ~On'
  BY <1>3, <1>4, <1>5 DEF TimelyInv
<1>6. CASE On'
  <2>1. /\ current_time \in Nat /\ \A x \in Dev : current_time <= fq[x].time
        /\ phase' # "boot"
    BY <1>1, <1>6, MainLoopTime DEF On
  <2>2. \A x \in Dev : Timely(x)'
    BY <1>2, <1>6, <2>1, KeepsTimely
  <2>3. WellAsked => \A x \in Dev : Found(x)'
    BY <1>6, FoundKept
  <2> QED
    BY <1>3, <1>4, <2>1, <2>2, <2>3 DEF TimelyInv
<1> QED
  BY <1>5, <1>6

LEMMA TimelyInvStep ==
  TimelyInv /\ [Next]_vars => TimelyInv'
<1> SUFFICES ASSUME TimelyInv, [Next]_vars
             PROVE  TimelyInv'
  OBVIOUS
<1>1. CASE Boot
  BY <1>1, BootTimely
<1>2. CASE StartLoop
  BY <1>2, StartLoopTimely
<1>3. CASE MainLoop
  BY <1>3, MainLoopTimely
<1>4. CASE EndLoop
  <2>1. IInv' /\ phase' = "ended"
    BY <1>4, IInvStep DEF TimelyInv, Next, EndLoop
  <2> QED
    BY <2>1 DEF TimelyInv, NextInv, On
<1>5. CASE Exited \/ UNCHANGED vars
  <2>1. IInv' /\ UNCHANGED vars
    BY <1>5, IInvStep DEF TimelyInv, Exited
  <2> QED
    BY <2>1 DEF TimelyInv, NextInv, On, Timely, Found, PacketOngoing, vars
<1> QED
  BY <1>1, <1>2, <1>3, <1>4, <1>5 DEF Next

------------------------------------------------------------------------------
(***************************************************************************)
(* The inductive invariant holds in every state of main().                 *)
(***************************************************************************)
THEOREM Timeliness == Spec => []TimelyInv
<1>1. Init => TimelyInv
  BY TimelyInvInit
<1>2. TimelyInv /\ [Next]_vars => TimelyInv'
  BY TimelyInvStep
<1> QED
  BY <1>1, <1>2, PTL DEF Spec

(***************************************************************************)
(* A receiver that find_and_activate_rx() moved to Rx_Found is called by   *)
(* the main loop in the same microsecond, and the packet it was moved for  *)
(* is then still on the air, unless its transmitter was asked for its      *)
(* abort in between and has left, if the devices keep to WellAsked.        *)
(***************************************************************************)
THEOREM FoundPacketsAreThere ==
  ASSUME WellAsked
  PROVE  Spec => []RxFoundReadsItsTx
<1>1. TimelyInv => RxFoundReadsItsTx
  <2> SUFFICES ASSUME TimelyInv, On, NEW d \in Dev, fq[d].index = Rx_Found
               PROVE  /\ fq[d].time = current_time
                      /\ rx_a[d].tx_nbr # -1
                      /\ \/ StillSends(rx_a[d].tx_nbr)
                         \/ HasLeft(rx_a[d].tx_nbr)
                      /\ LET t == tx_list[rx_a[d].tx_nbr]
                         IN /\ t.start_packet_time <= current_time
                            /\ current_time <= t.start_packet_time
                                     + rx_a[d].rx_s.acceptable_pre_truncation
    BY DEF RxFoundReadsItsTx
  <2>1. Found(d)
    BY DEF TimelyInv
  <2> QED
    BY <2>1 DEF Found, Dev, StillSends, HasLeft
<1> QED
  BY Timeliness, <1>1, PTL

(***************************************************************************)
(* No event is queued in the past, if the devices keep to WellAsked: the   *)
(* main loop never sets current_time back.                                 *)
(***************************************************************************)
THEOREM TimeGoesOn ==
  ASSUME WellAsked
  PROVE  Spec => TimeNeverGoesBack
<1>1. TimelyInv /\ [Next]_vars => [current_time' >= current_time]_vars
  <2> SUFFICES ASSUME TimelyInv, Next
               PROVE  current_time' >= current_time
    BY DEF vars
  <2>1. current_time \in Nat /\ next_d \in Dev
    BY NeverAssumption DEF TimelyInv, IInv, TypeOK, Time
  <2>2. CASE Boot \/ EndLoop \/ Exited
    BY <2>1, <2>2 DEF Boot, EndLoop, Exited, vars
  <2>3. CASE StartLoop
    <3>1. current_time = 0
      BY <2>3 DEF TimelyInv, IInv, BootInv, StartLoop
    <3>2. current_time' \in Nat
      BY <2>3, IInvStep, NeverAssumption DEF TimelyInv, IInv, TypeOK, Time
    <3> QED
      BY <3>1, <3>2
  <2>4. CASE MainLoop
    <3>1. CASE phase' # "error"
      BY <2>1, <2>4, <3>1, MainLoopTime
    <3>2. CASE phase' = "error"
      <4>1. Handled
        BY <2>1, <2>4, MainLoopCalls
      <4> QED
        BY <2>1, <3>2, <4>1 DEF Handled, FindNextUnlessError
    <3> QED
      BY <3>1, <3>2
  <2> QED
    BY <2>2, <2>3, <2>4 DEF Next
<1> QED
  BY Timeliness, <1>1, PTL DEF Spec, TimeNeverGoesBack

------------------------------------------------------------------------------
(***************************************************************************)
(* What a device that is timely has queued.                                *)
(***************************************************************************)
LEMMA EachIsTimely ==
  ASSUME TimelyInv, On, NEW d \in Dev
  PROVE  /\ StateOK /\ Timely(d)
         /\ rx_a[d] \in rx_status_t /\ cca_a[d] \in cca_status_t
         /\ tx_list[d] \in Txv2 /\ fq[d].time \in Nat
BY TypeParts, NeverAssumption
DEF TimelyInv, IInv, StateOK, On, Entry, Time

(***************************************************************************)
(* An abort bounds a reception, however often rx_possible_abort_recheck()  *)
(* replaces it: every event of the reception is queued at most one         *)
(* microsecond after the abort in force.                                   *)
(***************************************************************************)
THEOREM AbortBoundsReception == Spec => []RxBoundedByAbort
<1>1. TimelyInv => RxBoundedByAbort
  <2> SUFFICES ASSUME TimelyInv, On, NEW d \in Dev, fq[d].index \in RxEvents
               PROVE  fq[d].time <= rx_a[d].rx_s.abort.abort_time + 1
    BY DEF RxBoundedByAbort
  <2>1. RxTimely(fq[d], rx_a[d]) /\ rx_a[d] \in rx_status_t /\ fq[d].time \in Nat
    BY EachIsTimely DEF Timely
  <2>2. CASE fq[d].index \in Scanning
    <3>1. /\ fq[d].time <= rx_a[d].scan_end + 1
          /\ rx_a[d].scan_end <= rx_a[d].rx_s.abort.abort_time
      BY <2>1, <2>2 DEF RxTimely, ScanOK
    <3> QED
      BY <2>1, <3>1, TimesOfRx
  <2>3. CASE fq[d].index \in {Rx_Header, Rx_Payload}
    BY <2>1, <2>3 DEF RxTimely
  <2> QED
    BY <2>2, <2>3 DEF RxEvents, Scanning
<1> QED
  BY Timeliness, <1>1, PTL

(***************************************************************************)
(* Bit errors of a reception are drawn at the rate the device asked for,   *)
(* whichever of the three ways of reaching it prepare_rx() chooses, and    *)
(* rx_bit_error_calc() never lets a draw be late.                          *)
(***************************************************************************)
THEOREM ErrorRates == Spec => []ErrorRateIsAsAsked
<1>1. TimelyInv => ErrorRateIsAsAsked
  <2> SUFFICES ASSUME TimelyInv, On, NEW d \in Dev, fq[d].index \in RxEvents
               PROVE  RateOK(rx_a[d])
    BY SMT DEF ErrorRateIsAsAsked, RateOK, RateFits
  <2> QED
    BY EachIsTimely DEF Timely, RxTimely
<1> QED
  BY Timeliness, <1>1, PTL

(***************************************************************************)
(* f_cca_meas() measures at the start of the search and then every         *)
(* scan_period, whatever its reevaluations, and never ends a search that   *)
(* it has not measured in.                                                 *)
(***************************************************************************)
THEOREM CcaMeasures == Spec => []CcaMeasuresEveryPeriod
<1>1. TimelyInv => CcaMeasuresEveryPeriod
  <2> SUFFICES ASSUME TimelyInv, On, NEW d \in Dev, fq[d].index = Rx_CCA_meas
               PROVE  CcaTimely(fq[d], cca_a[d])
    BY DEF CcaMeasuresEveryPeriod, CcaTimely
  <2> QED
    BY EachIsTimely DEF Timely
<1> QED
  BY Timeliness, <1>1, PTL
=============================================================================
