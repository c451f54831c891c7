------------------------------- MODULE BerCache -------------------------------
(***************************************************************************)
(* The channel and modem wrapper (src/src/p2G4_channel_and_modem.c).  It   *)
(* keeps the bit error rate it last calculated for each receiver, together *)
(* with the value that the counter of the Tx list had then, and calculates *)
(* it again only if that counter has moved or a new synchronisation was    *)
(* tried.                                                                  *)
(*                                                                         *)
(* The channel and the modems are libraries: a quantity is represented by  *)
(* what it was calculated from.  The fading of the channel over time is    *)
(* left out: the wrapper takes it as constant during a reception.          *)
(***************************************************************************)
EXTENDS Receptions

CONSTANTS
  None,      \* the value of what was never calculated
  MaxCtr,    \* bound: how often transmissions start or end
  MaxSyncs   \* bound: how often a receiver tries to synchronise

ASSUME BoundsAssumption == MaxCtr \in Nat /\ MaxSyncs \in Nat

VARIABLES
  ctr,          \* tx_l_c.ctr: moves when a transmission starts or ends
  rec_status,   \* rec_status[]: what is kept for each receiver
  drawn         \* the last step's draw, if it made one

vars == <<air, rx, ctr, rec_status, drawn>>

Uncached == INSTANCE BerUncached

(***************************************************************************)
(* rec_status_t, as bs_calloc() leaves it.                                 *)
(***************************************************************************)
NewStatus ==
  [last_tx_ctr |-> 0, last_rx_ctr |-> 0, rx_ctr |-> 0,
   SNR_analog_o |-> None, SNR_ISI |-> None, SNR_total |-> None, BER |-> None]

Analogs == [air : Air, tx : Dev \cup {-1}, params : RxParams] \cup {None}

ISIs == [air : Air, tx : Dev] \cup {None}

rec_status_t ==
  [last_tx_ctr : Nat, last_rx_ctr : Nat, rx_ctr : Nat,
   SNR_analog_o : Analogs, SNR_ISI : ISIs,
   SNR_total : (Analogs \X ISIs) \cup {None},
   BER : [analog : Analogs, ISI : ISIs, params : RxParams] \cup {None}]

TypeOK ==
  /\ ReceptionsTypeOK
  /\ ctr \in Nat
  /\ rec_status \in [Dev -> rec_status_t]

Init ==
  /\ ReceptionsInit
  /\ ctr = 0
  /\ rec_status = [d \in Dev |-> NewStatus]
  /\ drawn = Uncached!NoDraw

------------------------------------------------------------------------------
(***************************************************************************)
(* The steps from a transmission list to a bit error rate.  Without a      *)
(* transmitter to receive from (t = -1), as in an RSSI measurement, no     *)
(* intersymbol interference is calculated.                                 *)
(***************************************************************************)
CalculateRxPowerAndISI(s, t) ==
  [s EXCEPT !.SNR_ISI = IF t = -1 THEN @ ELSE Uncached!ISI(air, t)]

m_analog_rx(s, t, p) == [s EXCEPT !.SNR_analog_o = Uncached!Analog(air, t, p)]

combine_SNR(s) == [s EXCEPT !.SNR_total = <<s.SNR_analog_o, s.SNR_ISI>>]

m_dig_perf_ber(s, p) ==
  [s EXCEPT !.BER = [analog |-> s.SNR_total[1], ISI |-> s.SNR_total[2],
                     params |-> p]]

\* Variant: the ratios are combined before the analog receiver is asked.
RecalculatedEarly(s, t, p) ==
  m_analog_rx(m_dig_perf_ber(combine_SNR(CalculateRxPowerAndISI(s, t)), p), t, p)

Recalculated(s, t, p) ==
  m_dig_perf_ber(combine_SNR(m_analog_rx(CalculateRxPowerAndISI(s, t), t, p)), p)

(***************************************************************************)
(* chm_is_packet_synched().                                                *)
(***************************************************************************)
chm_is_packet_synched(s, t, p) ==
  Recalculated([s EXCEPT !.last_tx_ctr = ctr, !.rx_ctr = @ + 1,
                         !.last_rx_ctr = s.rx_ctr + 1], t, p)

(***************************************************************************)
(* chm_bit_errors().                                                       *)
(***************************************************************************)
\* Variant: only a new synchronisation counts as a change.
ChannelChangedRx(s) == s.rx_ctr # s.last_rx_ctr

ChannelChanged(s) == s.rx_ctr # s.last_rx_ctr \/ s.last_tx_ctr # ctr

chm_bit_errors(s, t, p) ==
  IF ChannelChanged(s)
  THEN Recalculated([s EXCEPT !.last_tx_ctr = ctr, !.last_rx_ctr = s.rx_ctr],
                    t, p)
  ELSE s

(***************************************************************************)
(* chm_RSSImeas(): it shares the receiver's status with a reception that   *)
(* may be under way.                                                       *)
(***************************************************************************)
chm_RSSImeas(s, p) == m_analog_rx(CalculateRxPowerAndISI(s, -1), -1, p)

------------------------------------------------------------------------------
(***************************************************************************)
(* txl_start_tx() and txl_clear() move the counter; the start and the end  *)
(* of a packet inside its transmission do not.                             *)
(***************************************************************************)
txl_start_tx(d, s) ==
  /\ ctr < MaxCtr
  /\ StartTx(d, s)
  /\ ctr' = ctr + 1
  /\ drawn' = Uncached!NoDraw
  /\ UNCHANGED rec_status

\* Variant: the counter counts the transmissions on the air.
txl_clear_down(d) ==
  /\ EndTx(d)
  /\ ctr' = ctr - 1
  /\ drawn' = Uncached!NoDraw
  /\ UNCHANGED rec_status

txl_clear(d) ==
  /\ ctr < MaxCtr
  /\ EndTx(d)
  /\ ctr' = ctr + 1
  /\ drawn' = Uncached!NoDraw
  /\ UNCHANGED rec_status

(***************************************************************************)
(* What main.c does without calling the wrapper.                           *)
(***************************************************************************)
RxControl(d) ==
  /\ \/ \E p \in RxParams, prelocked \in BOOLEAN : StartRx(d, p, prelocked)
     \/ Prelock(d)
     \/ LoseTx(d)
     \/ EndRx(d)
  /\ drawn' = Uncached!NoDraw
  /\ UNCHANGED <<ctr, rec_status>>

(***************************************************************************)
(* The three calls of main.c.                                              *)
(***************************************************************************)
Sync(d, t) ==
  LET s == chm_is_packet_synched(rec_status[d], t, rx[d].params)
  IN /\ rec_status[d].rx_ctr < MaxSyncs
     /\ Find(d, t)
     /\ rec_status' = [rec_status EXCEPT ![d] = s]
     /\ drawn' = Uncached!DrawFrom(d, t, s.BER)
     /\ UNCHANGED ctr

BitErrors(d) ==
  LET s == chm_bit_errors(rec_status[d], rx[d].tx_nbr, rx[d].params)
  IN /\ Receive(d)
     /\ rec_status' = [rec_status EXCEPT ![d] = s]
     /\ drawn' = Uncached!Draw(d, s.BER)
     /\ UNCHANGED ctr

RSSImeas(d, p) ==
  /\ d \in Listeners
  /\ rec_status' = [rec_status EXCEPT ![d] = chm_RSSImeas(rec_status[d], p)]
  /\ drawn' = Uncached!NoDraw
  /\ UNCHANGED <<air, rx, ctr>>

Next ==
  \E d \in Dev :
    \/ \E s \in Signals : txl_start_tx(d, s)
    \/ txl_clear(d)
    \/ RxControl(d)
    \/ \E t \in Dev : Sync(d, t)
    \/ BitErrors(d)
    \/ \E p \in RxParams : RSSImeas(d, p)

Spec == Init /\ [][Next]_vars

------------------------------------------------------------------------------
(***************************************************************************)
(* Whenever the counter of the Tx list still has the value a receiver last *)
(* saw, and its transmitter is on the air, the rate kept for it is that of *)
(* this transmitter and of everything that is on the air now, with the     *)
(* parameters of its reception or, if that is prelocked, of one that it    *)
(* continues (chm_bit_errors(), chm_RSSImeas()).                           *)
(***************************************************************************)
KeptRateIsCurrent ==
  \A d \in Dev :
    LET s == rec_status[d]
        t == rx[d].tx_nbr
    IN t # -1 /\ OnAir(t) /\ s.last_tx_ctr = ctr =>
         \E p \in rx[d].asked : s.BER = Uncached!Ber(air, t, p)

(***************************************************************************)
(* The cache shows in nothing but the parameters of prelocked receptions:  *)
(* the wrapper implements the specification in which nothing is kept.  A   *)
(* prelocked reception that asks for other parameters may get the rate of  *)
(* those before it, and this is all it may get.                            *)
(***************************************************************************)
CacheIsTransparent == Uncached!Spec
=============================================================================
