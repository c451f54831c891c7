---------------------------- MODULE BerCacheProofs ----------------------------
(***************************************************************************)
(* The cache of bit error rates shows in nothing but the parameters of     *)
(* prelocked receptions, for any number of devices, signals and            *)
(* parameters.                                                             *)
(***************************************************************************)
EXTENDS BerCache, TLAPS

(***************************************************************************)
(* The inductive invariant.  That a kept rate is current while the counter *)
(* has not moved is not inductive by itself: the counter must be ahead of  *)
(* what receivers have seen when it moves, must have moved before anything *)
(* is on the air, so that what bs_calloc() left is never used, and what a  *)
(* reception asked for must be in its history.                             *)
(***************************************************************************)
CountersInOrder ==
  \A d \in Dev :
    /\ rec_status[d].last_tx_ctr <= ctr
    /\ rec_status[d].last_rx_ctr = rec_status[d].rx_ctr

AirIsCounted == ctr = 0 => \A d \in Dev : ~OnAir(d)

AskedForItsOwn ==
  \A d \in Dev : rx[d].phase # "idle" => rx[d].params \in rx[d].asked

CacheInv ==
  /\ TypeOK
  /\ CountersInOrder
  /\ AirIsCounted
  /\ AskedForItsOwn
  /\ KeptRateIsCurrent

LEMMA ReceivesFromOne ==
  ASSUME TypeOK, NEW d \in Dev, rx[d].phase = "receive"
  PROVE  rx[d].tx_nbr \in Dev
<1>1. rx[d] \in Reception /\ rx[d].tx_nbr # -1
  BY DEF TypeOK, ReceptionsTypeOK
<1> QED
  BY <1>1 DEF Reception

(***************************************************************************)
(* The wrapper's status of a receiver after a recalculation.               *)
(***************************************************************************)
LEMMA RecalculatedStatus ==
  ASSUME TypeOK, NEW s \in rec_status_t, NEW t \in Dev, NEW p \in RxParams
  PROVE  LET r == Recalculated(s, t, p)
         IN /\ r \in rec_status_t
            /\ r.last_tx_ctr = s.last_tx_ctr
            /\ r.last_rx_ctr = s.last_rx_ctr
            /\ r.rx_ctr = s.rx_ctr
            /\ r.BER = Uncached!Ber(air, t, p)
<1> DEFINE an == Uncached!Analog(air, t, p)
           is == Uncached!ISI(air, t)
           s1 == CalculateRxPowerAndISI(s, t)
           s2 == m_analog_rx(s1, t, p)
           s3 == combine_SNR(s2)
<1>1. an \in Analogs /\ is \in ISIs
  BY DEF TypeOK, ReceptionsTypeOK, Analogs, ISIs, Uncached!Analog, Uncached!ISI
<1>2. t # -1
  BY DevsAssumption DEF Dev
<1>3. s1 \in rec_status_t /\ s1 = [s EXCEPT !.SNR_ISI = is]
  BY <1>1, <1>2 DEF CalculateRxPowerAndISI, rec_status_t
<1>4. s2 \in rec_status_t /\ s2 = [s1 EXCEPT !.SNR_analog_o = an]
  BY <1>1, <1>3 DEF m_analog_rx, rec_status_t
<1>5. s3 \in rec_status_t /\ s3 = [s2 EXCEPT !.SNR_total = <<an, is>>]
  <2> HIDE DEF an, is, s1, s2
  <2>1. s2.SNR_analog_o = an /\ s2.SNR_ISI = is
    BY <1>1, <1>3, <1>4 DEF rec_status_t
  <2>2. s3 = [s2 EXCEPT !.SNR_total = <<an, is>>]
    BY <2>1 DEF combine_SNR
  <2>3. <<an, is>> \in (Analogs \X ISIs) \cup {None}
    BY <1>1
  <2> QED
    BY <1>4, <2>2, <2>3 DEF rec_status_t
<1>6. Recalculated(s, t, p) =
        [s3 EXCEPT !.BER = [analog |-> an, ISI |-> is, params |-> p]]
  BY <1>3, <1>4, <1>5 DEF Recalculated, m_dig_perf_ber, rec_status_t
<1>7. [analog |-> an, ISI |-> is, params |-> p] = Uncached!Ber(air, t, p)
  BY DEF Uncached!Ber
<1> DEFINE ber == Uncached!Ber(air, t, p)
           r == [s3 EXCEPT !.BER = ber]
<1> HIDE DEF an, is, s1, s2, s3, ber
<1>8. ber \in [analog : Analogs, ISI : ISIs, params : RxParams] \cup {None}
  BY <1>1, <1>7 DEF ber
<1>9. r \in rec_status_t /\ r.BER = ber
  BY <1>5, <1>8 DEF rec_status_t
<1>10. /\ r.last_tx_ctr = s.last_tx_ctr
       /\ r.last_rx_ctr = s.last_rx_ctr
       /\ r.rx_ctr = s.rx_ctr
  BY <1>3, <1>4, <1>5 DEF rec_status_t
<1>11. Recalculated(s, t, p) = r
  BY <1>6, <1>7 DEF ber
<1> QED
  BY <1>9, <1>10, <1>11 DEF ber

(***************************************************************************)
(* Both ways in which the wrapper comes to a rate leave the rate of what   *)
(* is on the air, and a status that says so.                               *)
(***************************************************************************)
LEMMA SyncedStatus ==
  ASSUME TypeOK, NEW s \in rec_status_t, NEW t \in Dev, NEW p \in RxParams
  PROVE  LET r == chm_is_packet_synched(s, t, p)
         IN /\ r \in rec_status_t
            /\ r.last_tx_ctr = ctr
            /\ r.last_rx_ctr = r.rx_ctr
            /\ r.BER = Uncached!Ber(air, t, p)
<1> DEFINE s1 == [s EXCEPT !.last_tx_ctr = ctr, !.rx_ctr = @ + 1,
                           !.last_rx_ctr = s.rx_ctr + 1]
<1>1. s1.last_tx_ctr = ctr /\ s1.last_rx_ctr = s1.rx_ctr
  BY DEF TypeOK, rec_status_t
<1>0. s1 \in rec_status_t
  <2>1. ctr \in Nat
    BY DEF TypeOK
  <2>2. s.rx_ctr \in Nat
    BY DEF rec_status_t
  <2>3. s.rx_ctr + 1 \in Nat
    BY <2>2
  <2> QED
    BY <2>1, <2>3 DEF rec_status_t
<1>2. chm_is_packet_synched(s, t, p) = Recalculated(s1, t, p)
  BY DEF chm_is_packet_synched
<1> HIDE DEF s1
<1> QED
  BY <1>0, <1>1, <1>2, RecalculatedStatus

LEMMA CalculatedStatus ==
  ASSUME TypeOK, NEW s \in rec_status_t, NEW t \in Dev, NEW p \in RxParams,
         s.last_rx_ctr = s.rx_ctr
  PROVE  LET r == chm_bit_errors(s, t, p)
         IN /\ r \in rec_status_t
            /\ r.last_tx_ctr = ctr
            /\ r.last_rx_ctr = r.rx_ctr
            /\ \/ s.last_tx_ctr = ctr /\ r = s
               \/ s.last_tx_ctr # ctr /\ r.BER = Uncached!Ber(air, t, p)
<1>1. CASE s.last_tx_ctr = ctr
  BY <1>1 DEF chm_bit_errors, ChannelChanged
<1>2. CASE s.last_tx_ctr # ctr
  <2> DEFINE s1 == [s EXCEPT !.last_tx_ctr = ctr, !.last_rx_ctr = s.rx_ctr]
  <2>1. /\ s1 \in rec_status_t
        /\ s1.last_tx_ctr = ctr
        /\ s1.last_rx_ctr = s1.rx_ctr
    BY DEF TypeOK, rec_status_t
  <2>2. chm_bit_errors(s, t, p) = Recalculated(s1, t, p)
    BY <1>2 DEF chm_bit_errors, ChannelChanged
  <2> HIDE DEF s1
  <2> QED
    BY <1>2, <2>1, <2>2, RecalculatedStatus
<1> QED
  BY <1>1, <1>2

LEMMA MeasuredStatus ==
  ASSUME TypeOK, NEW s \in rec_status_t, NEW p \in RxParams
  PROVE  LET r == chm_RSSImeas(s, p)
         IN /\ r \in rec_status_t
            /\ r.last_tx_ctr = s.last_tx_ctr
            /\ r.last_rx_ctr = s.last_rx_ctr
            /\ r.rx_ctr = s.rx_ctr
            /\ r.BER = s.BER
<1> DEFINE an == Uncached!Analog(air, -1, p)
           s1 == CalculateRxPowerAndISI(s, -1)
<1>1. an \in Analogs
  BY DEF TypeOK, ReceptionsTypeOK, Analogs, Uncached!Analog
<1>2. s1 = s
  BY DEF CalculateRxPowerAndISI, rec_status_t
<1>3. chm_RSSImeas(s, p) = [s EXCEPT !.SNR_analog_o = an]
  BY <1>2 DEF chm_RSSImeas, m_analog_rx
<1> HIDE DEF an
<1> QED
  BY <1>1, <1>3 DEF rec_status_t

-----------------------------------------------------------------------------
LEMMA CacheInvInit == Init => CacheInv
<1> SUFFICES ASSUME Init PROVE CacheInv
  OBVIOUS
<1> USE DevsAssumption, SignalsAssumption
    DEF Init, ReceptionsInit, Dev
<1>1. TypeOK
  <2>1. air \in Air
    BY DEF Air
  <2>2. rx \in [Dev -> Reception] /\ \A d \in Dev : rx[d].phase = "idle"
    BY DEF Reception, Phases
  <2>3. NewStatus \in rec_status_t
    BY DEF NewStatus, rec_status_t, Analogs, ISIs
  <2>4. rec_status \in [Dev -> rec_status_t]
    BY <2>3
  <2> QED
    BY <2>1, <2>2, <2>4 DEF TypeOK, ReceptionsTypeOK
<1>2. CountersInOrder
  BY DEF CountersInOrder, NewStatus
<1>3. AirIsCounted
  BY DEF AirIsCounted, OnAir
<1>4. KeptRateIsCurrent
  BY DEF KeptRateIsCurrent, OnAir
<1>5. AskedForItsOwn
  BY DEF AskedForItsOwn
<1> QED
  BY <1>1, <1>2, <1>3, <1>4, <1>5 DEF CacheInv

(***************************************************************************)
(* A transmission that starts or ends moves the counter past everything    *)
(* that receivers have seen.                                               *)
(***************************************************************************)
LEMMA AirStep ==
  ASSUME CacheInv, ctr' = ctr + 1, air' \in Air, UNCHANGED <<rx, rec_status>>
  PROVE  CacheInv'
<1> USE DEF CacheInv
<1>1. ctr' \in Nat /\ ctr' > ctr
  BY DEF TypeOK
<1>2. TypeOK'
  BY <1>1 DEF TypeOK, ReceptionsTypeOK
<1>3. \A d \in Dev : rec_status[d].last_tx_ctr \in Nat
  BY DEF TypeOK, rec_status_t
<1>4. CountersInOrder'
  BY <1>1, <1>3 DEF CountersInOrder, TypeOK
<1>5. AirIsCounted'
  BY <1>1 DEF AirIsCounted, TypeOK
<1>6. AskedForItsOwn'
  BY DEF AskedForItsOwn
<1>7. KeptRateIsCurrent'
  BY <1>1, <1>3 DEF KeptRateIsCurrent, CountersInOrder, TypeOK
<1> QED
  BY <1>2, <1>4, <1>5, <1>6, <1>7

(***************************************************************************)
(* What main.c changes about a reception without calling the wrapper keeps *)
(* its transmitter and what was asked for, or leaves it without a          *)
(* transmitter.                                                            *)
(***************************************************************************)
LEMMA RxControlStep ==
  ASSUME CacheInv, NEW d \in Dev, NEW r \in Reception,
         rx' = [rx EXCEPT ![d] = r],
         UNCHANGED <<air, ctr, rec_status>>,
         \/ r.tx_nbr = -1
         \/ r.tx_nbr = rx[d].tx_nbr /\ rx[d].asked \subseteq r.asked,
         r.phase = "receive" => r.tx_nbr # -1,
         r.phase # "idle" => r.params \in r.asked
  PROVE  CacheInv'
<1> USE DEF CacheInv
<1>1. \A e \in Dev : rx'[e] = IF e = d THEN r ELSE rx[e]
  BY DEF TypeOK, ReceptionsTypeOK
<1>2. TypeOK'
  BY <1>1 DEF TypeOK, ReceptionsTypeOK
<1>3. CountersInOrder' /\ AirIsCounted'
  BY DEF CountersInOrder, AirIsCounted, OnAir
<1>4. AskedForItsOwn'
  BY <1>1 DEF AskedForItsOwn
<1>5. KeptRateIsCurrent'
  <2> SUFFICES ASSUME NEW e \in Dev, rx'[e].tx_nbr # -1, OnAir(rx'[e].tx_nbr),
                      rec_status[e].last_tx_ctr = ctr
               PROVE  \E p \in rx'[e].asked :
                        rec_status[e].BER = Uncached!Ber(air, rx'[e].tx_nbr, p)
    BY DEF KeptRateIsCurrent, OnAir, Uncached!Ber, Uncached!Analog, Uncached!ISI
  <2>1. rx'[e].tx_nbr = rx[e].tx_nbr /\ rx[e].asked \subseteq rx'[e].asked
    BY <1>1
  <2> QED
    BY <2>1 DEF KeptRateIsCurrent
<1> QED
  BY <1>2, <1>3, <1>4, <1>5

(***************************************************************************)
(* A status that is current takes the place of a receiver's.               *)
(***************************************************************************)
LEMMA StatusStep ==
  ASSUME CacheInv, NEW d \in Dev, NEW s \in rec_status_t, NEW r \in Reception,
         rx' = [rx EXCEPT ![d] = r],
         rec_status' = [rec_status EXCEPT ![d] = s],
         UNCHANGED <<air, ctr>>,
         s.last_tx_ctr <= ctr,
         s.last_rx_ctr = s.rx_ctr,
         r.phase = "receive" => r.tx_nbr # -1,
         r.phase # "idle" => r.params \in r.asked,
         r.tx_nbr # -1 /\ OnAir(r.tx_nbr) /\ s.last_tx_ctr = ctr =>
           \E p \in r.asked : s.BER = Uncached!Ber(air, r.tx_nbr, p)
  PROVE  CacheInv'
<1> USE DEF CacheInv
<1>1. \A e \in Dev : /\ rx'[e] = IF e = d THEN r ELSE rx[e]
                     /\ rec_status'[e] = IF e = d THEN s ELSE rec_status[e]
  BY DEF TypeOK, ReceptionsTypeOK
<1>2. TypeOK'
  BY <1>1 DEF TypeOK, ReceptionsTypeOK
<1>3. CountersInOrder' /\ AirIsCounted'
  BY <1>1 DEF CountersInOrder, AirIsCounted, OnAir
<1>4. AskedForItsOwn'
  BY <1>1 DEF AskedForItsOwn
<1>5. KeptRateIsCurrent'
  <2> DEFINE Current(a, c, r0, s0) ==
        r0.tx_nbr # -1 /\ a[r0.tx_nbr] # NoSignal /\ s0.last_tx_ctr = c =>
          \E p \in r0.asked : s0.BER = Uncached!Ber(a, r0.tx_nbr, p)
  <2>1. Current(air, ctr, r, s)
    BY DEF OnAir
  <2>2. \A e \in Dev : Current(air, ctr, rx[e], rec_status[e])
    BY DEF KeptRateIsCurrent, OnAir
  <2>3. (\A e \in Dev : Current(air', ctr', rx'[e], rec_status'[e])) =>
          KeptRateIsCurrent'
    BY Zenon DEF KeptRateIsCurrent, OnAir, Uncached!Ber, Uncached!Analog,
       Uncached!ISI
  <2> HIDE DEF Current
  <2>4. \A e \in Dev : Current(air, ctr, rx'[e], rec_status'[e])
    BY <1>1, <2>1, <2>2
  <2> QED
    BY <2>3, <2>4
<1> QED
  BY <1>2, <1>3, <1>4, <1>5

(***************************************************************************)
(* No step of the wrapper or of its callers falsifies the invariant.       *)
(***************************************************************************)
LEMMA CacheInvStep ==
  ASSUME CacheInv, [Next]_vars
  PROVE  CacheInv'
<1>1. CASE UNCHANGED vars
  BY <1>1 DEF vars, CacheInv, TypeOK, ReceptionsTypeOK, CountersInOrder,
     AirIsCounted, OnAir, AskedForItsOwn, KeptRateIsCurrent, Uncached!Ber,
     Uncached!Analog, Uncached!ISI
<1>2. ASSUME NEW d \in Dev, NEW s \in Signals, txl_start_tx(d, s)
      PROVE  CacheInv'
  <2>1. air' \in Air
    BY <1>2 DEF txl_start_tx, StartTx, CacheInv, TypeOK, ReceptionsTypeOK, Air
  <2> QED
    BY <1>2, <2>1, AirStep DEF txl_start_tx, StartTx
<1>3. ASSUME NEW d \in Dev, txl_clear(d)
      PROVE  CacheInv'
  <2>1. air' \in Air
    BY <1>3 DEF txl_clear, EndTx, CacheInv, TypeOK, ReceptionsTypeOK, Air
  <2> QED
    BY <1>3, <2>1, AirStep DEF txl_clear, EndTx
<1>4. ASSUME NEW d \in Dev, RxControl(d)
      PROVE  CacheInv'
  <2>1. rx[d] \in Reception
    BY DEF CacheInv, TypeOK, ReceptionsTypeOK
  <2>2. ASSUME NEW p \in RxParams, NEW prelocked \in BOOLEAN,
               StartRx(d, p, prelocked)
        PROVE  CacheInv'
    <3> DEFINE r == [phase |-> "search", prelocked |-> prelocked, params |-> p,
                     tx_nbr |-> IF prelocked THEN rx[d].tx_nbr ELSE -1,
                     asked |-> {p} \cup IF prelocked THEN rx[d].asked ELSE {}]
    <3>1. r \in Reception
      BY <2>1 DEF Reception, Phases
    <3>2. rx' = [rx EXCEPT ![d] = r]
      BY <2>2 DEF StartRx
    <3>3. \/ r.tx_nbr = -1
          \/ r.tx_nbr = rx[d].tx_nbr /\ rx[d].asked \subseteq r.asked
      OBVIOUS
    <3>4. r.phase # "receive" /\ r.params \in r.asked
      OBVIOUS
    <3>5. UNCHANGED <<air, ctr, rec_status>>
      BY <1>4, <2>2 DEF RxControl, StartRx
    <3> HIDE DEF r
    <3> QED
      BY <3>1, <3>2, <3>3, <3>4, <3>5, RxControlStep
  <2>3. ASSUME Prelock(d)
        PROVE  CacheInv'
    <3>1. CASE rx' = [rx EXCEPT ![d].phase = "receive"] /\ rx[d].tx_nbr # -1
      <4> DEFINE r == [rx[d] EXCEPT !.phase = "receive"]
      <4>1. /\ r \in Reception
            /\ r.tx_nbr = rx[d].tx_nbr
            /\ r.asked = rx[d].asked /\ r.params = rx[d].params
        BY <2>1 DEF Reception, Phases
      <4>2. rx' = [rx EXCEPT ![d] = r]
        BY <3>1
      <4>3. UNCHANGED <<air, ctr, rec_status>>
        BY <1>4, <2>3 DEF RxControl, Prelock
      <4>4. r.tx_nbr # -1 /\ r.params \in r.asked
        BY <2>3, <3>1, <4>1 DEF Prelock, CacheInv, AskedForItsOwn
      <4> HIDE DEF r
      <4> QED
        BY <4>1, <4>2, <4>3, <4>4, RxControlStep
    <3>2. CASE rx' = [rx EXCEPT ![d].tx_nbr = -1, ![d].prelocked = FALSE]
      <4> DEFINE r == [[rx[d] EXCEPT !.tx_nbr = -1] EXCEPT !.prelocked = FALSE]
      <4>1. /\ r \in Reception
            /\ r.tx_nbr = -1 /\ r.phase = rx[d].phase
            /\ r.asked = rx[d].asked /\ r.params = rx[d].params
        BY <2>1 DEF Reception, Phases
      <4>2. rx' = [rx EXCEPT ![d] = r]
        BY <3>2 DEF CacheInv, TypeOK, ReceptionsTypeOK
      <4>3. UNCHANGED <<air, ctr, rec_status>>
        BY <1>4, <2>3 DEF RxControl, Prelock
      <4>4. r.phase # "receive" /\ r.params \in r.asked
        BY <2>3, <4>1 DEF Prelock, CacheInv, AskedForItsOwn
      <4> HIDE DEF r
      <4> QED
        BY <4>1, <4>2, <4>3, <4>4, RxControlStep
    <3> QED
      BY <2>3, <3>1, <3>2 DEF Prelock
  <2>4. ASSUME NEW phase \in Phases \ {"receive"},
               rx[d].phase # "idle",
               rx' = [rx EXCEPT ![d].phase = phase],
               UNCHANGED air
        PROVE  CacheInv'
    <3> DEFINE r == [rx[d] EXCEPT !.phase = phase]
    <3>1. /\ r \in Reception
          /\ r.tx_nbr = rx[d].tx_nbr /\ rx[d].asked \subseteq r.asked
          /\ r.phase # "receive" /\ r.params \in r.asked
      BY <2>1, <2>4 DEF Reception, CacheInv, AskedForItsOwn
    <3>2. rx' = [rx EXCEPT ![d] = r]
      BY <2>4
    <3>3. UNCHANGED <<air, ctr, rec_status>>
      BY <1>4, <2>4 DEF RxControl
    <3> HIDE DEF r
    <3> QED
      BY <3>1, <3>2, <3>3, RxControlStep
  <2>5. LoseTx(d) => CacheInv'
    BY <2>4 DEF LoseTx, Phases
  <2>6. EndRx(d) => CacheInv'
    BY <2>4 DEF EndRx, Phases
  <2> QED
    BY <1>4, <2>2, <2>3, <2>5, <2>6 DEF RxControl
<1>5. ASSUME NEW d \in Dev, NEW t \in Dev, Sync(d, t)
      PROVE  CacheInv'
  <2> DEFINE s == chm_is_packet_synched(rec_status[d], t, rx[d].params)
  <2>1. rx[d] \in Reception /\ rec_status[d] \in rec_status_t /\ ctr \in Nat
    BY DEF CacheInv, TypeOK, ReceptionsTypeOK
  <2>2. rx[d].params \in RxParams
    BY <2>1 DEF Reception
  <2>3. /\ s \in rec_status_t
        /\ s.last_tx_ctr = ctr
        /\ s.last_rx_ctr = s.rx_ctr
        /\ s.BER = Uncached!Ber(air, t, rx[d].params)
    BY <2>1, <2>2, SyncedStatus DEF CacheInv
  <2>4. rec_status' = [rec_status EXCEPT ![d] = s] /\ UNCHANGED <<air, ctr>>
    BY <1>5 DEF Sync, Find
  <2>5. PICK phase \in {"search", "receive"} :
          rx' = [rx EXCEPT ![d].phase = phase, ![d].tx_nbr = t,
                           ![d].asked = {rx[d].params}]
    BY <1>5 DEF Sync, Find
  <2> DEFINE r == [rx[d] EXCEPT !.phase = phase, !.tx_nbr = t,
                                !.asked = {rx[d].params}]
  <2>6. /\ r \in Reception
        /\ r.tx_nbr = t
        /\ r.params = rx[d].params /\ r.asked = {rx[d].params}
    BY <2>1 DEF Reception, Phases
  <2>7. rx' = [rx EXCEPT ![d] = r]
    BY <2>5 DEF CacheInv, TypeOK, ReceptionsTypeOK
  <2> HIDE DEF s, r
  <2>8. s.last_tx_ctr <= ctr
    BY <2>1, <2>3
  <2>9. r.tx_nbr # -1 /\ r.params \in r.asked
    BY <2>6, DevsAssumption DEF Dev
  <2>10. \E p \in r.asked : s.BER = Uncached!Ber(air, r.tx_nbr, p)
    BY <2>3, <2>6
  <2> QED
    BY <2>3, <2>4, <2>6, <2>7, <2>8, <2>9, <2>10, StatusStep
<1>6. ASSUME NEW d \in Dev, BitErrors(d)
      PROVE  CacheInv'
  <2> DEFINE s == chm_bit_errors(rec_status[d], rx[d].tx_nbr, rx[d].params)
  <2>1. rx[d] \in Reception /\ rec_status[d] \in rec_status_t /\ ctr \in Nat
    BY DEF CacheInv, TypeOK, ReceptionsTypeOK
  <2>2. rx[d].params \in RxParams /\ rx[d].tx_nbr \in Dev
    BY <1>6, <2>1, ReceivesFromOne DEF Reception, CacheInv, BitErrors, Receive
  <2>3. rec_status[d].last_rx_ctr = rec_status[d].rx_ctr
    BY DEF CacheInv, CountersInOrder
  <2>4. /\ s \in rec_status_t
        /\ s.last_tx_ctr = ctr
        /\ s.last_rx_ctr = s.rx_ctr
        /\ \/ rec_status[d].last_tx_ctr = ctr /\ s = rec_status[d]
           \/ /\ rec_status[d].last_tx_ctr # ctr
              /\ s.BER = Uncached!Ber(air, rx[d].tx_nbr, rx[d].params)
    BY <2>1, <2>2, <2>3, CalculatedStatus DEF CacheInv
  <2>5. /\ rec_status' = [rec_status EXCEPT ![d] = s]
        /\ UNCHANGED <<air, rx, ctr>>
    BY <1>6 DEF BitErrors, Receive
  <2>6. rx' = [rx EXCEPT ![d] = rx[d]]
    BY <2>5 DEF CacheInv, TypeOK, ReceptionsTypeOK
  <2> HIDE DEF s
  <2>7. rx[d].tx_nbr # -1 /\ rx[d].params \in rx[d].asked
    BY <1>6, <2>2, DevsAssumption
    DEF BitErrors, Receive, CacheInv, AskedForItsOwn, Dev
  <2>8. OnAir(rx[d].tx_nbr) =>
          \E p \in rx[d].asked : s.BER = Uncached!Ber(air, rx[d].tx_nbr, p)
    BY <2>4, <2>7 DEF CacheInv, KeptRateIsCurrent
  <2>9. s.last_tx_ctr <= ctr
    BY <2>1, <2>4
  <2> QED
    BY <2>1, <2>4, <2>5, <2>6, <2>7, <2>8, <2>9, StatusStep
<1>7. ASSUME NEW d \in Dev, NEW p \in RxParams, RSSImeas(d, p)
      PROVE  CacheInv'
  <2> DEFINE s == chm_RSSImeas(rec_status[d], p)
  <2>1. rx[d] \in Reception /\ rec_status[d] \in rec_status_t
    BY DEF CacheInv, TypeOK, ReceptionsTypeOK
  <2>2. /\ s \in rec_status_t
        /\ s.last_tx_ctr = rec_status[d].last_tx_ctr
        /\ s.last_rx_ctr = s.rx_ctr
        /\ s.BER = rec_status[d].BER
    BY <2>1, MeasuredStatus DEF CacheInv, CountersInOrder
  <2>3. /\ rec_status' = [rec_status EXCEPT ![d] = s]
        /\ UNCHANGED <<air, rx, ctr>>
    BY <1>7 DEF RSSImeas
  <2>4. rx' = [rx EXCEPT ![d] = rx[d]]
    BY <2>3 DEF CacheInv, TypeOK, ReceptionsTypeOK
  <2> HIDE DEF s
  <2>5. s.last_tx_ctr <= ctr
    BY <2>2 DEF CacheInv, CountersInOrder
  <2>6. /\ rx[d].phase = "receive" => rx[d].tx_nbr # -1
        /\ rx[d].phase # "idle" => rx[d].params \in rx[d].asked
    BY DEF CacheInv, AskedForItsOwn, TypeOK, ReceptionsTypeOK
  <2>7. rx[d].tx_nbr # -1 /\ OnAir(rx[d].tx_nbr) /\ s.last_tx_ctr = ctr =>
          \E q \in rx[d].asked : s.BER = Uncached!Ber(air, rx[d].tx_nbr, q)
    BY <2>2 DEF CacheInv, KeptRateIsCurrent
  <2> QED
    BY <2>1, <2>2, <2>3, <2>4, <2>5, <2>6, <2>7, StatusStep
<1> QED
  BY <1>1, <1>2, <1>3, <1>4, <1>5, <1>6, <1>7 DEF Next

-----------------------------------------------------------------------------
(***************************************************************************)
(* The wrapper's counter and its kept statuses never show in what it       *)
(* draws: its initial states and its steps are those of BerUncached.       *)
(***************************************************************************)
LEMMA UncachedInit == Init => Uncached!Init
BY DEF Init, ReceptionsInit, Uncached!Init, Uncached!ReceptionsInit,
   Dev, Uncached!Dev, Uncached!NoDraw

LEMMA UncachedStep ==
  ASSUME CacheInv, [Next]_vars
  PROVE  [Uncached!Next]_<<air, rx, drawn>>
<1>1. CASE UNCHANGED vars
  BY <1>1 DEF vars
<1>2. ASSUME NEW d \in Dev, NEW s \in Signals, txl_start_tx(d, s)
      PROVE  Uncached!Next
  BY <1>2 DEF txl_start_tx, StartTx, OnAir, Dev, Uncached!Next,
     Uncached!Environment, Uncached!StartTx, Uncached!OnAir, Uncached!Dev
<1>3. ASSUME NEW d \in Dev, txl_clear(d)
      PROVE  Uncached!Next
  BY <1>3 DEF txl_clear, EndTx, OnAir, Dev, Uncached!Next,
     Uncached!Environment, Uncached!EndTx, Uncached!OnAir, Uncached!Dev
<1>4. ASSUME NEW d \in Dev, RxControl(d)
      PROVE  Uncached!Next
  <2>1. d \in Uncached!Dev /\ drawn' = Uncached!NoDraw
    BY <1>4 DEF RxControl, Dev, Uncached!Dev
  <2>2. ASSUME NEW p \in RxParams, NEW prelocked \in BOOLEAN,
               StartRx(d, p, prelocked)
        PROVE  Uncached!StartRx(d, p, prelocked)
    BY <2>2 DEF StartRx, OnAir, Uncached!StartRx, Uncached!OnAir
  <2>3. Prelock(d) => Uncached!Prelock(d)
    BY DEF Prelock, OnAir, Uncached!Prelock, Uncached!OnAir
  <2>4. LoseTx(d) => Uncached!LoseTx(d)
    BY DEF LoseTx, OnAir, Uncached!LoseTx, Uncached!OnAir
  <2>5. EndRx(d) => Uncached!EndRx(d)
    BY DEF EndRx, Uncached!EndRx
  <2> QED
    BY <1>4, <2>1, <2>2, <2>3, <2>4, <2>5
    DEF RxControl, Uncached!Next, Uncached!Environment
<1>5. ASSUME NEW d \in Dev, NEW t \in Dev, Sync(d, t)
      PROVE  Uncached!Next
  <2> DEFINE s == chm_is_packet_synched(rec_status[d], t, rx[d].params)
  <2>1. rx[d].params \in RxParams /\ rec_status[d] \in rec_status_t
    BY DEF CacheInv, TypeOK, ReceptionsTypeOK, Reception
  <2>2. s.BER = Uncached!Ber(air, t, rx[d].params)
    BY <2>1, SyncedStatus DEF CacheInv
  <2>3. Find(d, t) /\ drawn' = Uncached!DrawFrom(d, t, s.BER)
    BY <1>5 DEF Sync
  <2>4. Uncached!Find(d, t)
    BY <2>3 DEF Find, Uncached!Find
  <2>5. Uncached!Sync(d, t)
    BY <2>2, <2>3, <2>4 DEF Uncached!Sync
  <2> QED
    BY <2>5 DEF Uncached!Next, Dev, Uncached!Dev
<1>6. ASSUME NEW d \in Dev, BitErrors(d)
      PROVE  Uncached!Next
  <2> DEFINE s == chm_bit_errors(rec_status[d], rx[d].tx_nbr, rx[d].params)
  <2>1. rx[d] \in Reception /\ rec_status[d] \in rec_status_t
    BY DEF CacheInv, TypeOK, ReceptionsTypeOK
  <2>2. OnAir(rx[d].tx_nbr) /\ rx[d].tx_nbr \in Dev /\ rx[d].params \in RxParams
    BY <1>6, <2>1, ReceivesFromOne DEF Reception, CacheInv, BitErrors, Receive
  <2>3. rx[d].tx_nbr # -1 /\ rx[d].params \in rx[d].asked
    BY <1>6, <2>2, DevsAssumption
    DEF BitErrors, Receive, CacheInv, AskedForItsOwn, Dev
  <2>4. \/ rec_status[d].last_tx_ctr = ctr /\ s = rec_status[d]
        \/ s.BER = Uncached!Ber(air, rx[d].tx_nbr, rx[d].params)
    BY <2>1, <2>2, CalculatedStatus DEF CacheInv, CountersInOrder
  <2>5. \E p \in rx[d].asked : s.BER = Uncached!Ber(air, rx[d].tx_nbr, p)
    BY <2>2, <2>3, <2>4 DEF CacheInv, KeptRateIsCurrent
  <2>6. Receive(d) /\ drawn' = Uncached!Draw(d, s.BER)
    BY <1>6 DEF BitErrors
  <2>7. Uncached!Receive(d)
    BY <2>6 DEF Receive, OnAir, Uncached!Receive, Uncached!OnAir
  <2>8. Uncached!BitErrors(d)
    BY <2>5, <2>6, <2>7 DEF Uncached!BitErrors
  <2> QED
    BY <2>8 DEF Uncached!Next, Dev, Uncached!Dev
<1>7. ASSUME NEW d \in Dev, NEW p \in RxParams, RSSImeas(d, p)
      PROVE  Uncached!Next
  BY <1>7 DEF RSSImeas, Uncached!Next
<1> QED
  BY <1>1, <1>2, <1>3, <1>4, <1>5, <1>6, <1>7 DEF Next

(***************************************************************************)
(* The invariant holds of every behaviour.                                 *)
(***************************************************************************)
LEMMA CacheInvAlways == Spec => []CacheInv
<1>1. CacheInv /\ [Next]_vars => CacheInv'
  BY CacheInvStep
<1> QED
  BY <1>1, CacheInvInit, PTL DEF Spec

(***************************************************************************)
(* The kept statuses, the counter of the Tx list and the receptions keep   *)
(* their types (rec_status_t, tx_l_c_t, rx_status_t), and a reception      *)
(* under way has a transmitter (tx_nbr is not -1).                         *)
(***************************************************************************)
THEOREM CacheTypeOK == Spec => []TypeOK
<1>1. CacheInv => TypeOK
  BY DEF CacheInv
<1> QED
  BY <1>1, CacheInvAlways, PTL

(***************************************************************************)
(* Whatever else happened in between, RSSI measurements of the same device *)
(* and packets of other devices included, a kept rate whose counter is     *)
(* still that of the Tx list is the rate of what is on the air now, for    *)
(* the transmitter of the reception, and with parameters that it or a      *)
(* reception it continues asked for (chm_bit_errors()).                    *)
(***************************************************************************)
THEOREM KeptRate == Spec => []KeptRateIsCurrent
<1>1. CacheInv => KeptRateIsCurrent
  BY DEF CacheInv
<1> QED
  BY <1>1, CacheInvAlways, PTL

(***************************************************************************)
(* The wrapper implements the specification in which nothing is kept: each *)
(* draw of chm_bit_errors() and chm_is_packet_synched() is made with the   *)
(* ratio of what is on the air.  The parameters are those of the reception *)
(* or, if it is prelocked, of one that it continues.                       *)
(***************************************************************************)
THEOREM Transparent == Spec => CacheIsTransparent
<1>1. ASSUME CacheInv, [Next]_vars PROVE [Uncached!Next]_<<air, rx, drawn>>
  BY <1>1, UncachedStep
<1> QED
  BY <1>1, UncachedInit, CacheInvAlways, PTL
  DEF CacheIsTransparent, Spec, Uncached!Spec
=============================================================================
