--------------------------------- MODULE Phy ---------------------------------
(***************************************************************************)
(* The Phy as a whole: main() of src/src/p2G4_main.c, its boot loop and    *)
(* its main loop, over the handlers of PhyTx, PhyRx and PhyMeas.           *)
(*                                                                         *)
(* The Phy is a single thread which blocks on the device whose turn it is: *)
(* one handler, from the event it takes off the function queue to the next *)
(* request it reads, is one step.  What interleaves are the devices: each  *)
(* of them moves the time and the state that the others' handlers find.    *)
(***************************************************************************)
EXTENDS PhyMeas, FiniteSets

(***************************************************************************)
(* fq_find_next() and the assignment of current_time that follows it.      *)
(***************************************************************************)
FindNext ==
  \E n \in Dev :
    /\ IsNext(fq', n)
    /\ next_d' = n
    /\ current_time' = fq'[n].time

(***************************************************************************)
(* bs_trace_error() leaves the program at once.                            *)
(***************************************************************************)
FindNextUnlessError ==
  \/ phase' # "error" /\ FindNext
  \/ phase' = "error" /\ UNCHANGED <<next_d, current_time>>

------------------------------------------------------------------------------
(***************************************************************************)
(* The boot loop reads the first request of every device, in order.        *)
(***************************************************************************)
Booting == boot_d < n_devs /\ nbr_active_devs > 0

Boot ==
  /\ phase = "boot"
  /\ Booting
  /\ p2G4_handle_next_request(boot_d, used, max_tx_nbr, rx_a[boot_d],
                              cca_a[boot_d], <<>>)
  /\ boot_d' = boot_d + 1
  /\ UNCHANGED <<next_d, current_time>>

StartLoop ==
  /\ phase = "boot"
  /\ ~Booting
  /\ phase' = "running"
  /\ sent' = <<>>
  /\ UNCHANGED <<nbr_active_devs, boot_d, fq, used, max_tx_nbr, tx_list, rx_a,
                 cca_a>>
  /\ FindNext

(***************************************************************************)
(* fq_call_next(): the handler registered for the event of the device      *)
(* next_d.                                                                 *)
(***************************************************************************)
\* Variant: the loop runs on without devices.
LoopingOn == current_time < sim_length

Looping == nbr_active_devs > 0 /\ current_time < sim_length

Call(index) ==
  phase = "running" /\ Looping /\ fq[next_d].index = index

Handled == FindNextUnlessError /\ UNCHANGED boot_d

WaitDone     == Call(Wait_Done) /\ f_wait_done(next_d) /\ Handled
RSSIMeas     == Call(RSSI_Meas) /\ f_RSSI_meas(next_d) /\ Handled
RxSearchStart == Call(Rx_Search_start) /\ f_rx_search_start(next_d) /\ Handled
RxSearchReeval == Call(Rx_Search_reeval) /\ f_rx_search_reeval(next_d) /\ Handled
RxFoundStep  == Call(Rx_Found) /\ f_rx_found(next_d) /\ Handled
RxSync       == Call(Rx_Sync) /\ f_rx_sync(next_d) /\ Handled
RxHeader     == Call(Rx_Header) /\ f_rx_header(next_d) /\ Handled
RxPayload    == Call(Rx_Payload) /\ f_rx_payload(next_d) /\ Handled
TxAbortReeval == Call(Tx_Abort_Reeval) /\ f_tx_abort_reeval(next_d) /\ Handled
TxStart      == Call(Tx_Start) /\ f_tx_start(next_d) /\ Handled
TxPacketStart == Call(Tx_Packet_Start) /\ f_tx_packet_start(next_d) /\ Handled
TxPacketEnd  == Call(Tx_Packet_End) /\ f_tx_packet_end(next_d) /\ Handled
TxEnd        == Call(Tx_End) /\ f_tx_end(next_d) /\ Handled
RxCCAMeas    == Call(Rx_CCA_meas) /\ f_cca_meas(next_d) /\ Handled

MainLoop ==
  \/ WaitDone \/ RSSIMeas
  \/ RxSearchStart \/ RxSearchReeval \/ RxFoundStep
  \/ RxSync \/ RxHeader \/ RxPayload
  \/ TxAbortReeval \/ TxStart \/ TxPacketStart \/ TxPacketEnd \/ TxEnd
  \/ RxCCAMeas

(***************************************************************************)
(* The simulation has reached its length or has no device left.            *)
(***************************************************************************)
EndLoop ==
  /\ phase = "running"
  /\ ~Looping
  /\ phase' = "ended"
  /\ sent' = <<>>
  /\ UNCHANGED <<current_time, nbr_active_devs, boot_d, next_d, fq, used,
                 max_tx_nbr, tx_list, rx_a, cca_a>>

Exited == phase \in {"ended", "error"} /\ UNCHANGED vars

Next == Boot \/ StartLoop \/ MainLoop \/ EndLoop \/ Exited

Spec == Init /\ [][Next]_vars

(***************************************************************************)
(* The program runs on: nothing else ever makes it wait, since a device    *)
(* always answers, at worst with the end of its connection.                *)
(***************************************************************************)
FairSpec == Spec /\ WF_vars(Next)

------------------------------------------------------------------------------
(***************************************************************************)
(* The simulation is on: some device is still expected to act.             *)
(***************************************************************************)
On == phase \in {"boot", "running"} /\ nbr_active_devs > 0

(***************************************************************************)
(* find_and_activate_rx() overwrites the event of every receiver it finds  *)
(* in Rx_State_Searching.  That loses no event, and strands no search:     *)
(* a device is in that state exactly while it waits for its search to be   *)
(* reevaluated.                                                            *)
(***************************************************************************)
SearchingIffQueued ==
  On => \A d \in Dev :
          rx_a[d].state = Searching <=> fq[d].index = Rx_Search_reeval

(***************************************************************************)
(* A device is in the Tx list exactly while one of the events that move    *)
(* its transmission on is queued: no device is heard after it left or      *)
(* while it does something else, and none is dropped from the air early.   *)
(***************************************************************************)
OnAirIffTxQueued ==
  On => \A d \in Dev :
          used[d] # TXS_OFF <=>
            fq[d].index \in {Tx_Abort_Reeval, Tx_Packet_Start, Tx_Packet_End,
                             Tx_End}

(***************************************************************************)
(* max_tx_nbr, where the searches of find_fitting_tx() stop, is the        *)
(* highest transmitting device: it hides no transmission.                  *)
(***************************************************************************)
MaxTxNbrIsHighest ==
  phase # "error" =>
    /\ \A d \in Dev : used[d] # TXS_OFF => d <= max_tx_nbr
    /\ max_tx_nbr # -1 => used[max_tx_nbr] # TXS_OFF

(***************************************************************************)
(* nbr_active_devs, which stops the main loop, counts the devices that     *)
(* still have an event queued or have not been read yet by the boot loop:  *)
(* the simulation stops neither before its last device nor after it.       *)
(***************************************************************************)
ActiveDevsCounted ==
  On => nbr_active_devs =
          Cardinality({d \in Dev : boot_d <= d \/ fq[d].index # State_None})

(***************************************************************************)
(* A receiver that was moved to Rx_Found is called in the same             *)
(* microsecond, and what it reads there of its transmitter is a packet     *)
(* that is still on the air and of whose preamble it has not missed too    *)
(* much.  The one exception is a transmitter that was asked for its abort  *)
(* in between and has left: its packet is off the air, and f_rx_found()    *)
(* does not look; but its times in the list are still those of the packet. *)
(***************************************************************************)
StillSends(i) == PacketOngoing(used, i)
HasLeft(i)    == fq[i].index = State_None

RxFoundReadsItsTx ==
  On => \A d \in Dev :
          fq[d].index = Rx_Found =>
            /\ fq[d].time = current_time
            /\ rx_a[d].tx_nbr # -1
            /\ StillSends(rx_a[d].tx_nbr) \/ HasLeft(rx_a[d].tx_nbr)
            /\ LET t == tx_list[rx_a[d].tx_nbr]
               IN /\ t.start_packet_time <= current_time
                  /\ current_time <= t.start_packet_time
                                       + rx_a[d].rx_s.acceptable_pre_truncation

(***************************************************************************)
(* An abort bounds a reception, however often it is reevaluated: no event  *)
(* of a reception is queued later than the microsecond after its abort.    *)
(***************************************************************************)
RxEvents == {Rx_Search_start, Rx_Search_reeval, Rx_Found, Rx_Sync, Rx_Header,
             Rx_Payload}

RxBoundedByAbort ==
  On => \A d \in Dev :
          fq[d].index \in RxEvents =>
            fq[d].time <= rx_a[d].rx_s.abort.abort_time + 1

(***************************************************************************)
(* A CCA search measures at its start and then every scan_period, whatever *)
(* the reevaluations in between, and has a measurement to average when it  *)
(* ends (f_cca_meas() divides by n_meas).                                  *)
(***************************************************************************)
CcaMeasuresEveryPeriod ==
  On => \A d \in Dev :
          fq[d].index = Rx_CCA_meas =>
            LET cca == cca_a[d]
            IN /\ cca.next_meas =
                    cca.req.start_time + cca.n_meas * cca.req.scan_period
               /\ fq[d].time <= cca.next_meas
               /\ cca.n_meas = 0 => fq[d].time = cca.req.start_time

(***************************************************************************)
(* Bit errors of a reception are drawn at the rate the device asked for,   *)
(* whichever of the three ways of reaching it is taken: errorspercalc of   *)
(* them every rate_uspercalc microseconds, and never later.  The number of *)
(* errors is that of the rate up to MaxExactRate; above, the product that  *)
(* decides whether a rate is supported, and gives the number, may wrap.    *)
(***************************************************************************)
ErrorRateIsAsAsked ==
  On => \A d \in Dev :
          fq[d].index \in RxEvents =>
            LET rx == rx_a[d]
            IN /\ rx.rx_s.error_calc_rate <= MaxExactRate =>
                    rx.errorspercalc * 1000000
                      = rx.rx_s.error_calc_rate * rx.rate_uspercalc
               /\ 0 <= rx.us_to_next_calc
               /\ rx.us_to_next_calc < rx.rate_uspercalc

------------------------------------------------------------------------------
(***************************************************************************)
(* What the devices may be asked to keep to: a transmission whose packet   *)
(* starts late or ends early has no recheck before its end, and a scan     *)
(* ends before TIME_NEVER.                                                 *)
(***************************************************************************)
SpansItsTx(t) ==
  t.start_packet_time <= t.start_tx_time /\ t.end_tx_time <= t.end_packet_time

SpansOrIsNotRechecked(t) ==
  SpansItsTx(t) \/ t.end_tx_time <= t.abort.recheck_time

PacketSpans(q) == q.msg = "TXV2" => SpansOrIsNotRechecked(q.body)

ScanFits(q) ==
  q.msg \in {"RX", "RXV2"} /\ q.body.scan_duration < UINT32_MAX =>
    q.body.start_time + q.body.scan_duration <= TIME_NEVER

WellAsked ==
  \A d \in Dev, now \in 0 .. sim_length :
    \A q \in Requests(d, now) : PacketSpans(q) /\ ScanFits(q)

(***************************************************************************)
(* No device asks for a prelocked reception.                               *)
(***************************************************************************)
NotPrelocked(q) == q.msg = "RXV2" => ~q.body.prelocked_tx

NonePrelocked ==
  \A d \in Dev, now \in 0 .. sim_length :
    \A q \in Requests(d, now) : NotPrelocked(q)

(***************************************************************************)
(* Simulated time never goes back, if the devices keep to WellAsked: see   *)
(* the README on packets that start late or end early.                     *)
(***************************************************************************)
TimeNeverGoesBack == [][current_time' >= current_time]_vars

(***************************************************************************)
(* A message of the last step.                                             *)
(***************************************************************************)
Sends(d, m) == \E k \in DOMAIN sent' : sent'[k].to = d /\ sent'[k].msg = m

(***************************************************************************)
(* A device hears that its transmission is done exactly at the end it      *)
(* asked for or at the abort in force, whichever comes first.              *)
(***************************************************************************)
TxDoneOnTime ==
  [][\A d \in Dev :
       Sends(d, "TX_END") =>
         /\ current_time <= tx_list[d].end_tx_time
         /\ current_time <= tx_list[d].abort.abort_time
         /\ \/ current_time = tx_list[d].end_tx_time
            \/ current_time = tx_list[d].abort.abort_time]_vars

(***************************************************************************)
(* A CCA search is never longer than asked for: it is over in its last     *)
(* microsecond at the latest, or in its first one if it has no duration.   *)
(***************************************************************************)
CcaEndsInTime ==
  [][\A d \in Dev :
       Sends(d, "CCA_END") =>
         LET req == cca_a[d].req
         IN current_time <= BSMax(req.start_time,
                                  req.start_time + req.scan_duration - 1)]_vars

(***************************************************************************)
(* A packet that was lost during its synchronisation is not found again:   *)
(* a receiver locks while the preamble it may miss is not over, and loses  *)
(* its synchronisation only once it is, so that the new search cannot      *)
(* match the same packet.                                                  *)
(***************************************************************************)
LocksTo(d) ==
  fq[d].index \in {Rx_Search_start, Rx_Found} /\ fq'[d].index = Rx_Sync

LosesSync(d) ==
  /\ fq[d].index = Rx_Sync
  /\ fq'[d].index = Rx_Search_start
  /\ ~\E m \in {"RX_END", "RXV2_END", "RX_ADDRESSFOUND", "RXV2_ADDRESSFOUND"} :
        Sends(d, m)

LostPacketIsNotFoundAgain ==
  [][\A d \in Dev :
       /\ LocksTo(d) => current_time <= rx_a'[d].sync_start
       /\ LosesSync(d) => /\ fq'[d].time > rx_a[d].sync_start
                          /\ rx_a'[d].sync_start = rx_a[d].sync_start]_vars

(***************************************************************************)
(* The simulation ends, if its devices do not ask for the present forever. *)
(***************************************************************************)
SimulationEnds == <>(phase \in {"ended", "error"})

(***************************************************************************)
(* A search that is not prelocked, or not any more, looks at everything    *)
(* that is on the air when it starts, and tries one packet: of those that  *)
(* fit, that of the lowest device.  It locks to none that does not fit,    *)
(* and waits only if none fits or the modem fails on this one.  Another    *)
(* packet that fits is missed then (the comment of f_rx_found()).          *)
(***************************************************************************)
SearchTriesFirstFit ==
  [][\A d \in Dev :
       LET rx      == rx_a'[d]
           fitting == {i \in Dev : Fits(i, rx)}
       IN /\ d = next_d
          /\ fq[d].index = Rx_Search_start
          /\ fq'[d].index \in {Rx_Search_reeval, Rx_Sync}
          /\ ~rx.rx_s.prelocked_tx
          =>
          \/ /\ fitting = {}
             /\ fq'[d].index = Rx_Search_reeval
          \/ /\ rx.tx_nbr \in fitting
             /\ \A i \in fitting : rx.tx_nbr <= i]_vars

------------------------------------------------------------------------------
(***************************************************************************)
(* What the documentation and the comments say, and the code does not do.  *)
(* Each of these has a run that shows how it fails, and so have            *)
(* TimeNeverGoesBack for packets inside their transmissions, and           *)
(* SearchTriesFirstFit for prelocked receptions.                           *)
(***************************************************************************)

(***************************************************************************)
(* The packet starts at the later of its start time and the start of the   *)
(* transmission ("@MAX(txs.start_packet_time, current_time)"), and ends at *)
(* the earlier of its end time and the end of the transmission             *)
(* ("@MIN(txs.end_packet_time, txs.end_tx_time)").                         *)
(***************************************************************************)
PacketSpansAsAsked ==
  [][\A d \in Dev :
       LET t == tx_list[d]
       IN /\ TXS_PACKET_STARTED \in used'[d] \ used[d] =>
               current_time = BSMax(t.start_packet_time, t.start_tx_time)
          /\ TXS_PACKET_ENDED \in used'[d] \ used[d] =>
               current_time = BSMin(t.end_packet_time, t.end_tx_time)]_vars

(***************************************************************************)
(* A CCA search does not outlive its abort ("scan_end ... limited by the   *)
(* abort timeout").                                                        *)
(***************************************************************************)
CcaEndsByAbort ==
  [][\A d \in Dev :
       Sends(d, "CCA_END") => current_time <= cca_a[d].req.abort.abort_time]_vars

(***************************************************************************)
(* The abort of a transmission loses the synchronisation to it ("An abort  *)
(* of the Tx during a sync results in the sync being lost always"): an     *)
(* address is found in the transmission the receiver locked to.            *)
(***************************************************************************)
SyncLostWhenTxEnds ==
  [][\A d \in Dev :
       Sends(d, "RX_ADDRESSFOUND") =>
         tx_list[rx_a[d].tx_nbr].start_packet_time
           + rx_a[d].rx_s.acceptable_pre_truncation = rx_a[d].sync_start]_vars
=============================================================================
