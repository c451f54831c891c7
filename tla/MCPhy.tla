-------------------------------- MODULE MCPhy --------------------------------
(***************************************************************************)
(* Small instances of Phy: what the devices may ask for and answer in the  *)
(* runs.  Each instance is a few kinds of requests, over all the starts    *)
(* that the length of the simulation leaves them.                          *)
(***************************************************************************)
EXTENDS PhyProtocol

Never == TIME_NEVER

Ab(abort_time, recheck_time) ==
  [abort_time |-> abort_time, recheck_time |-> recheck_time]

Leave == {[msg |-> "DISCONNECT"]}
Quit  == {[msg |-> "TERMINATE"]}
Wrong == {[msg |-> "OTHER"]}

Wait(times) == {[msg |-> "WAIT", time |-> t] : t \in times}
RSSI(times) == {[msg |-> "RSSIMEAS", time |-> t] : t \in times}

TxV1(start, duration, aborts) ==
  {[msg |-> "TX",
    body |-> [start_time |-> start, end_time |-> start + duration,
              abort |-> a, radio_params |-> 1, phy_address |-> 1]] : a \in aborts}

TxV2(start, pstart, pend, end, aborts) ==
  {[msg |-> "TXV2",
    body |-> [start_tx_time |-> start, end_tx_time |-> end,
              start_packet_time |-> pstart, end_packet_time |-> pend,
              abort |-> a, radio_params |-> 1, phy_address |-> 1]] : a \in aborts}

RxV1(start, scan, pream, header, aborts) ==
  {[msg |-> "RX",
    body |-> [start_time |-> start, scan_duration |-> scan, bps |-> 1000000,
              pream_and_addr_duration |-> pream, header_duration |-> header,
              sync_threshold |-> 0, header_threshold |-> 0, abort |-> a,
              radio_params |-> 1, phy_address |-> 1]] : a \in aborts}

RxV2(start, scan, rate, pream, header, trunc, prelocked, aborts) ==
  {[msg |-> "RXV2",
    body |-> [start_time |-> start, scan_duration |-> scan,
              error_calc_rate |-> rate, pream_and_addr_duration |-> pream,
              header_duration |-> header, acceptable_pre_truncation |-> trunc,
              sync_threshold |-> 0, header_threshold |-> 0, resp_type |-> 0,
              prelocked_tx |-> prelocked, abort |-> a, radio_params |-> 1,
              phy_address |-> <<2, 1>>]] : a \in aborts}

CCA(start, duration, period, stop, aborts) ==
  {[msg |-> "CCA_MEAS",
    body |-> [start_time |-> start, scan_duration |-> duration,
              scan_period |-> period, stop_when_found |-> stop, abort |-> a,
              radio_params |-> 1]] : a \in aborts}

Answers(aborts) == {[msg |-> "RERESP_ABORTREEVAL", abort |-> a] : a \in aborts}

RxCont(aborts) ==
  {[msg |-> "RXCONT"], [msg |-> "RXSTOP"]}
    \cup {[msg |-> "RXV2CONT", abort |-> a] : a \in aborts}

Later(now) == now + 1 .. sim_length - 1

------------------------------------------------------------------------------
(***************************************************************************)
(* TxRx: device 0 transmits, with every abort and recheck, device 1        *)
(* receives.                                                               *)
(***************************************************************************)
TxRxRequests(d, now) ==
  IF d = 0
  THEN Wrong \cup Leave \cup Wait({sim_length}) \cup
       UNION {TxV1(s, 3, {Ab(Never, Never)}
                           \cup {Ab(a, r) : a \in s .. s + 3, r \in s .. s + 2}) :
                s \in Later(now)}
  ELSE Leave \cup Quit \cup Wait({now, sim_length}) \cup
       UNION {RxV1(s, scan, 2, 1, {Ab(Never, Never), Ab(s + 3, s + 1), Ab(s + 2, Never)}) :
                s \in Later(now), scan \in {2, UINT32_MAX}}

TxRxAborts(d, now) ==
  Answers({Ab(Never, Never), Ab(now + 1, now + 1), Ab(now, now + 2), Ab(Never, 0)})
    \cup Leave \cup {[msg |-> "BROKEN"]}

TxRxHeaders(d, now) ==
  RxCont({Ab(now + 1, Never), Ab(now + 3, now + 1)}) \cup Leave \cup Quit \cup Wrong

------------------------------------------------------------------------------
(***************************************************************************)
(* Piggyback: device 0 transmits packets that may have started before they *)
(* are on the air, device 1 receives them, the next one prelocked.         *)
(***************************************************************************)
Forever == {Ab(Never, Never)}

PiggyRequests(d, now) ==
  IF d = 0
  THEN UNION {TxV2(s, BSMax(s - cut, 0), s + 3, s + 2, Forever \cup {Ab(s + 1, Never), Ab(Never, s)}) :
                s \in Later(now), cut \in {0, 2}} \cup Wait({sim_length}) \cup Leave
  ELSE Leave \cup RSSI({now + 2}) \cup
       UNION {RxV2(s, 3, rate, 2, header, 1, prelocked, Forever \cup {Ab(s + 2, s + 1), Ab(s + 1, Never)}) :
                s \in Later(now), rate \in {500000, 1500000}, header \in {0, 1},
                prelocked \in BOOLEAN}

PiggyAborts(d, now) ==
  Answers({Ab(now, Never), Ab(now + 1, Never)}) \cup Leave

PiggyHeaders(d, now) == RxCont({Ab(now, now)})

(***************************************************************************)
(* Cca: device 0 transmits, device 1 searches.                             *)
(***************************************************************************)
CcaRequests(d, now) ==
  IF d = 0
  THEN UNION {TxV1(s, 2, Forever \cup {Ab(s + 1, s)}) : s \in Later(now)}
         \cup Leave \cup Wait({sim_length})
  ELSE Leave \cup Wrong \cup CCA(now + 1, 1, 0, 0, Forever)
         \cup CCA(now + 1, 1, 1, 4, Forever)
         \cup UNION {CCA(s, duration, period, stop,
                         {Ab(Never, Never), Ab(s + 1, Never), Ab(s + 4, s + 1)}) :
                       s \in Later(now), duration \in {0, 3}, period \in {1, 2},
                       stop \in {0, 3}}

CcaAborts(d, now) ==
  Answers({Ab(Never, Never), Ab(now, Never), Ab(now + 2, now + 1), Ab(now + 1, now)})
    \cup Leave \cup Wrong

NoHeaders(d, now) == {}

(***************************************************************************)
(* Three: devices 0 and 1 transmit, device 0 packets that start after      *)
(* their transmission or end before it; devices 1 and 2 receive.  Every    *)
(* request and every recheck is in the future, and no recheck falls        *)
(* between a packet's start and the end of a transmission (time would go   *)
(* back to it: Inside).                                                    *)
(***************************************************************************)
ThreeRequests(d, now) ==
  Leave
    \cup (IF d = 0
          THEN Wait({sim_length}) \cup
               UNION {TxV2(s, s + 1, s + 2, s + 3, {Ab(Never, Never)})
                        \cup TxV2(s, s, s + 1, s + 2, {Ab(Never, s + 1)}) :
                      s \in Later(now)}
          ELSE {})
    \cup (IF d = 1
          THEN UNION {TxV1(s, 2, {Ab(Never, Never), Ab(s + 1, s)}) : s \in Later(now)}
          ELSE {})
    \cup (IF d > 0
          THEN UNION {RxV1(s, scan, 1, 0, {Ab(Never, Never)}) :
                      s \in Later(now), scan \in {2, UINT32_MAX}}
          ELSE {})

ThreeAborts(d, now) == Answers({Ab(Never, Never), Ab(now + 2, now + 1)}) \cup Leave

ThreeHeaders(d, now) == {[msg |-> "RXCONT"]}

(***************************************************************************)
(* Inside: a packet that starts after its transmission or ends before it.  *)
(***************************************************************************)
InsideRequests(d, now) ==
  IF d = 0
  THEN UNION {TxV2(s, s + late, s + 3 - early, s + 3, Forever \cup {Ab(Never, s + 1), Ab(Never, s + 2)}) :
                s \in Later(now), late \in {0, 1}, early \in {0, 1}}
         \cup Wait({sim_length})
  ELSE UNION {RxV2(s, 4, 1000000, 2, 0, trunc, FALSE, Forever) :
                s \in Later(now), trunc \in {0, 1}}
         \cup Wait({sim_length})

(***************************************************************************)
(* What the theorems ask of the devices (Phy: WellAsked, NonePrelocked) is *)
(* true of these instances.                                                *)
(***************************************************************************)
Turns == {0, 1} \X (0 .. sim_length)

ASSUME SomeAreWellAsked ==
  \A t \in Turns :
    \A q \in TxRxRequests(t[1], t[2]) \cup PiggyRequests(t[1], t[2])
               \cup CcaRequests(t[1], t[2]) :
      PacketSpans(q) /\ ScanFits(q)

ASSUME SomeAreNotPrelocked ==
  \A t \in Turns \cup ({2} \X (0 .. sim_length)) :
    \A q \in TxRxRequests(t[1], t[2]) \cup CcaRequests(t[1], t[2])
               \cup ThreeRequests(t[1], t[2]) :
      NotPrelocked(q)
=============================================================================
