------------------------------ MODULE PhyTypes -------------------------------
(***************************************************************************)
(* The messages of the device interface and the statuses the Phy keeps     *)
(* (ext_libPhyComv1's bs_pc_2G4_types.h, as src/src/ uses it, and          *)
(* src/src/p2G4_pending_tx_rx_list.h).                                     *)
(*                                                                         *)
(* Data is abstracted to what the state machine tells apart.  A value of   *)
(* radio_params stands for a centre frequency and a class of similar       *)
(* modulations.  Packets, power levels, antenna gains, coding rates and    *)
(* RSSI values are left out: what the channel and the modem make of them   *)
(* is a nondeterministic choice in the handlers.                           *)
(***************************************************************************)
EXTENDS PendingTxList, Sequences

CONSTANTS
  sim_length,                \* option -sim_length: when the simulation ends
  UINT32_MAX,                \* the scan_duration that stands for "forever"
  P2G4_RXV2_MAX_ADDRESSES,   \* how many addresses an Rx may search for
  MaxImmRssi,                \* bound: immediate RSSIs in one reevaluation
  Requests(_, _),            \* what a device may request, and when
  AbortReplies(_, _),        \* what it may answer to an abort reevaluation
  HeaderReplies(_, _)        \* what it may answer to an address found

Time == 0 .. TIME_NEVER

(***************************************************************************)
(* The microseconds before and after t, unsigned.  Other sums of times are *)
(* not wrapped: no device asks for an interval that ends after TIME_NEVER. *)
(***************************************************************************)
Before(t) == IF t = 0 THEN TIME_NEVER ELSE t - 1
After(t)  == IF t = TIME_NEVER THEN 0 ELSE t + 1

Abort == [abort_time : Time, recheck_time : Time]

Txv1 == [start_time : Time, end_time : Time, abort : Abort,
         radio_params : Nat, phy_address : Nat]

Txv2 == [start_tx_time : Time, end_tx_time : Time,
         start_packet_time : Time, end_packet_time : Time, abort : Abort,
         radio_params : Nat, phy_address : Nat]

Rxv1 == [start_time : Time, scan_duration : Nat, bps : Nat,
         pream_and_addr_duration : Nat, header_duration : Nat,
         sync_threshold : Nat, header_threshold : Nat, abort : Abort,
         radio_params : Nat, phy_address : Nat]

(***************************************************************************)
(* phy_address holds the n_addr addresses that follow the request.         *)
(***************************************************************************)
Rxv2 == [start_time : Time, scan_duration : Nat, error_calc_rate : Nat,
         pream_and_addr_duration : Nat, header_duration : Nat,
         acceptable_pre_truncation : Nat, sync_threshold : Nat,
         header_threshold : Nat, resp_type : Nat, prelocked_tx : BOOLEAN,
         abort : Abort, radio_params : Nat, phy_address : Seq(Nat)]

Cca == [start_time : Time, scan_duration : Nat, scan_period : Nat,
        stop_when_found : Nat, abort : Abort, radio_params : Nat]

(***************************************************************************)
(* "OTHER" is any header the Phy does not expect at that point.            *)
(***************************************************************************)
Request ==
  [msg : {"DISCONNECT", "TERMINATE", "OTHER"}]
    \cup [msg : {"WAIT", "RSSIMEAS"}, time : Time]
    \cup [msg : {"TX"}, body : Txv1]
    \cup [msg : {"TXV2"}, body : Txv2]
    \cup [msg : {"RX"}, body : Rxv1]
    \cup [msg : {"RXV2"}, body : Rxv2]
    \cup [msg : {"CCA_MEAS"}, body : Cca]

(***************************************************************************)
(* "BROKEN" is an answer whose abort structure does not arrive whole.      *)
(***************************************************************************)
AbortReply ==
  [msg : {"DISCONNECT", "TERMINATE", "OTHER", "BROKEN"}]
    \cup [msg : {"RERESP_ABORTREEVAL"}, abort : Abort]

HeaderReply ==
  [msg : {"DISCONNECT", "TERMINATE", "OTHER", "BROKEN", "RXCONT", "RXSTOP"}]
    \cup [msg : {"RXV2CONT"}, abort : Abort]

ASSUME SimLengthAssumption == sim_length \in Time
ASSUME LimitsAssumption ==
  /\ UINT32_MAX \in Nat
  /\ P2G4_RXV2_MAX_ADDRESSES \in Nat
  /\ MaxImmRssi \in Nat
(***************************************************************************)
(* Devices are only spoken to during the simulation.                       *)
(***************************************************************************)
ASSUME DevicesAssumption ==
  \A d \in Dev, now \in 0 .. sim_length :
    /\ Requests(d, now) \subseteq Request
    /\ AbortReplies(d, now) \subseteq AbortReply
    /\ HeaderReplies(d, now) \subseteq HeaderReply

(***************************************************************************)
(* The mapping of the v1 requests (src/src/p2G4_v1_v2_remap.c).            *)
(***************************************************************************)
map_txv1_to_txv2(t) ==
  [start_tx_time |-> t.start_time, end_tx_time |-> t.end_time,
   start_packet_time |-> t.start_time, end_packet_time |-> t.end_time,
   abort |-> t.abort, radio_params |-> t.radio_params,
   phy_address |-> t.phy_address]

map_rxv1_to_rxv2(r) ==
  [start_time |-> r.start_time, scan_duration |-> r.scan_duration,
   error_calc_rate |-> r.bps,
   pream_and_addr_duration |-> r.pream_and_addr_duration,
   header_duration |-> r.header_duration, acceptable_pre_truncation |-> 0,
   sync_threshold |-> r.sync_threshold,
   header_threshold |-> r.header_threshold, resp_type |-> 0,
   prelocked_tx |-> FALSE, abort |-> r.abort,
   radio_params |-> r.radio_params, phy_address |-> <<r.phy_address>>]

(***************************************************************************)
(* How often bit errors are calculated, for an error_calc_rate: how many   *)
(* errors each time, and how many microseconds from one time to the next.  *)
(* The products of the code are of 32 bits: MaxExactRate is the highest    *)
(* rate of which none wraps.  (2^32 is written so that TLC, whose numbers  *)
(* end before it, evaluates it for no rate that it can represent.)         *)
(***************************************************************************)
uint32(n) == IF n \div 65536 < 65536 THEN n ELSE n % (65536 * 65536)

MaxExactRate == 1073741823

Calc(errors, us) == [errorspercalc |-> errors, rate_uspercalc |-> us]

Multiples(rate) == {t \in 2 .. 4 : uint32(rate * t) % 1000000 = 0}

\* Variant: the rates below 1 MHz are taken for rates above.
ErrorCalcInverted(rate) ==
  IF rate % 1000000 = 0 THEN Calc(rate \div 1000000, 1)
  ELSE IF 1000000 % rate = 0 THEN Calc(1000000 \div rate, 1)
  ELSE LET t == CHOOSE t \in Multiples(rate) : \A s \in Multiples(rate) : t <= s
       IN Calc(uint32(rate * t) \div 1000000, t)

ErrorCalc(rate) ==
  IF rate % 1000000 = 0 THEN Calc(rate \div 1000000, 1)
  ELSE IF 1000000 % rate = 0 THEN Calc(1, 1000000 \div rate)
  ELSE LET t == CHOOSE t \in Multiples(rate) : \A s \in Multiples(rate) : t <= s
       IN Calc(uint32(rate * t) \div 1000000, t)

ErrorCalcSupported(rate) ==
  rate % 1000000 = 0 \/ 1000000 % rate = 0 \/ Multiples(rate) # {}

(***************************************************************************)
(* rx_status_t and cca_status_t.                                           *)
(***************************************************************************)
Searching    == "Rx_State_Searching"
NotSearching == "Rx_State_NotSearching"

RxStatus ==
  {"none", "NOSYNC", "INPROGRESS", "HEADER_ERROR", "PACKET_CONTENT_ERROR", "OK"}

rx_status_t ==
  [state : {Searching, NotSearching}, tx_nbr : DevOrNone, scan_end : Nat,
   sync_start : Nat, sync_end : Nat, header_end : Nat, payload_end : Nat,
   biterrors : Nat, tx_lost : BOOLEAN, v1_request : BOOLEAN,
   errorspercalc : Nat, rate_uspercalc : Nat, us_to_next_calc : Int,
   rx_time_stamp : Nat, status : RxStatus, rx_s : Rxv2]

cca_status_t ==
  [scan_end : Nat, next_meas : Nat, n_meas : Nat,
   rssi_overthreshold : BOOLEAN, mod_found : BOOLEAN, req : Cca]

(***************************************************************************)
(* What bs_calloc() leaves in tx_list, rx_a and cca_a.                     *)
(***************************************************************************)
NoAbort == [abort_time |-> 0, recheck_time |-> 0]

NoTx == [start_tx_time |-> 0, end_tx_time |-> 0, start_packet_time |-> 0,
         end_packet_time |-> 0, abort |-> NoAbort, radio_params |-> 0,
         phy_address |-> 0]

NoRx ==
  [state |-> NotSearching, tx_nbr |-> 0, scan_end |-> 0, sync_start |-> 0,
   sync_end |-> 0, header_end |-> 0, payload_end |-> 0, biterrors |-> 0,
   tx_lost |-> FALSE, v1_request |-> FALSE, errorspercalc |-> 0,
   rate_uspercalc |-> 0, us_to_next_calc |-> 0, rx_time_stamp |-> 0,
   status |-> "none",
   rx_s |-> [start_time |-> 0, scan_duration |-> 0, error_calc_rate |-> 0,
             pream_and_addr_duration |-> 0, header_duration |-> 0,
             acceptable_pre_truncation |-> 0, sync_threshold |-> 0,
             header_threshold |-> 0, resp_type |-> 0, prelocked_tx |-> FALSE,
             abort |-> NoAbort, radio_params |-> 0, phy_address |-> <<>>]]

NoCca ==
  [scan_end |-> 0, next_meas |-> 0, n_meas |-> 0,
   rssi_overthreshold |-> FALSE, mod_found |-> FALSE,
   req |-> [start_time |-> 0, scan_duration |-> 0, scan_period |-> 0,
            stop_when_found |-> 0, abort |-> NoAbort, radio_params |-> 0]]

(***************************************************************************)
(* A message of the Phy to a device, and the time and status it carries.   *)
(***************************************************************************)
Message ==
  [to : Dev, status : RxStatus, end_time : Time,
   msg : {"WAIT_END", "TX_END", "RSSI_END", "CCA_END", "RX_END", "RXV2_END",
          "RX_ADDRESSFOUND", "RXV2_ADDRESSFOUND", "ABORTREEVAL",
          "IMMRSSI_RRSI_DONE"}]
=============================================================================
