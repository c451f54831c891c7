------------------------------ MODULE PhyProofs ------------------------------
(***************************************************************************)
(* What Phy keeps, for any number of devices, any length of the simulation *)
(* and whatever the devices request and answer.                            *)
(*                                                                         *)
(* The inductive invariant IInv adds to the properties what the boot loop  *)
(* guarantees, and the consistency of every device's event with the rest   *)
(* of its state.                                                           *)
(***************************************************************************)
EXTENDS PhyModeProofs, FiniteSetTheorems

(***************************************************************************)
(* Until its turn comes in the boot loop, a device has no event; the main  *)
(* loop starts with devices only when each of them had its turn.           *)
(***************************************************************************)
BootInv ==
  /\ phase = "boot" =>
       /\ current_time = 0
       /\ \A d \in Dev : boot_d <= d => fq[d].index = State_None
  /\ phase = "running" /\ nbr_active_devs > 0 => boot_d = n_devs

IInv ==
  /\ TypeOK
  /\ BootInv
  /\ On => \A d \in Dev : Consistent(d)
  /\ MaxTxNbrIsHighest
  /\ ActiveDevsCounted

------------------------------------------------------------------------------
LEMMA TypeParts ==
  TypeOK <=> /\ StateOK
             /\ current_time \in Time
             /\ boot_d \in 0 .. n_devs
             /\ next_d \in Dev
BY DEF TypeOK, StateOK, Entry

LEMMA SameTxsKeepHighest ==
  ASSUME SameTxs, MaxTxNbrIsHighest, phase # "error"
  PROVE  MaxTxNbrIsHighest'
BY DEF SameTxs, MaxTxNbrIsHighest

(***************************************************************************)
(* The initial states.                                                     *)
(***************************************************************************)
LEMMA InitialTypes ==
  NoTx \in Txv2 /\ NoRx \in rx_status_t /\ NoCca \in cca_status_t
<1>1. 0 \in Time /\ 0 \in Nat /\ 0 \in Int /\ <<>> \in Seq(Nat)
  BY NeverAssumption DEF Time
<1>2. NoAbort \in Abort
  BY <1>1 DEF NoAbort, Abort
<1>3. NoTx \in Txv2
  BY <1>1, <1>2 DEF NoTx, Txv2
<1>4. NoRx.rx_s \in Rxv2
  BY <1>1, <1>2 DEF NoRx, Rxv2
<1>5. 0 \in DevOrNone /\ "none" \in RxStatus
  BY NDevsAssumption DEF DevOrNone, Dev, RxStatus
<1>6. NoRx \in rx_status_t
  BY <1>1, <1>4, <1>5 DEF NoRx, rx_status_t, NotSearching
<1>7. NoCca \in cca_status_t
  BY <1>1, <1>2 DEF NoCca, cca_status_t, Cca
<1> QED
  BY <1>3, <1>6, <1>7

LEMMA IInvInit ==
  Init => IInv
<1> SUFFICES ASSUME Init
             PROVE  IInv
  OBVIOUS
<1> USE DEF Init
<1>1. /\ fq \in [Dev -> Entry]
      /\ \A d \in Dev : fq[d].index = State_None
  <2>1. TIME_NEVER \in Time /\ State_None \in f_index_t
    BY NeverAssumption, IndexTypes DEF Time
  <2>2. Event(TIME_NEVER, State_None) \in Entry
    BY <2>1, EventType
  <2> QED
    BY <2>2 DEF fq_init, Event
<1>2. TypeOK
  <2>1. /\ n_devs \in Nat /\ 0 \in 0 .. n_devs /\ 0 \in Dev /\ 0 \in Time
        /\ -1 \in DevOrNone /\ TXS_OFF \in TxsFlags
    BY NDevsAssumption, NeverAssumption
    DEF Dev, Time, DevOrNone, TXS_OFF, TxsFlags
  <2>2. <<>> \in Seq(Message)
    OBVIOUS
  <2> QED
    BY <1>1, <2>1, <2>2, InitialTypes DEF TypeOK, Entry
<1>3. BootInv
  BY <1>1 DEF BootInv
<1>4. \A d \in Dev : Consistent(d)
  BY <1>1
  DEF Consistent, TxQueued, NoRx, Searching, NotSearching, State_None,
      Rx_Search_reeval, Rx_Found, Tx_Abort_Reeval, Tx_Packet_Start,
      Tx_Packet_End, Tx_End
<1>5. MaxTxNbrIsHighest
  BY DEF MaxTxNbrIsHighest
<1>6. ActiveDevsCounted
  <2>1. {d \in Dev : boot_d <= d \/ fq[d].index # State_None} = 0 .. n_devs - 1
    BY NDevsAssumption DEF Dev
  <2>2. Cardinality(0 .. n_devs - 1) = n_devs
    BY NDevsAssumption, FS_Interval
  <2> QED
    BY <2>1, <2>2 DEF ActiveDevsCounted
<1> QED
  BY <1>2, <1>3, <1>4, <1>5, <1>6 DEF IInv

------------------------------------------------------------------------------
(***************************************************************************)
(* A handler of device d keeps every device consistent and the count       *)
(* right.  Turn says which device has the turn: the next one of the boot   *)
(* loop, or one with an event.                                             *)
(***************************************************************************)
Turn(d) ==
  \/ boot_d = d /\ boot_d' = boot_d + 1
  \/ boot_d = n_devs /\ boot_d' = boot_d /\ fq[d].index # State_None

LEMMA OutcomeKeepsModes ==
  ASSUME StateOK, NEW d \in Dev, \A x \in Dev : Consistent(x),
         Others(d), Consistent(d)'
  PROVE  \A x \in Dev : Consistent(x)'
<1> SUFFICES ASSUME NEW x \in Dev \ {d}
             PROVE  Consistent(x)'
  OBVIOUS
<1>1. Consistent(x) /\ used'[x] = used[x]
  BY DEF Others
<1>2. CASE fq'[x] = fq[x] /\ rx_a'[x] = rx_a[x]
  BY <1>1, <1>2 DEF Consistent
<1>3. CASE /\ rx_a[x].state = Searching
           /\ fq'[x].index = Rx_Found
           /\ rx_a'[x].state = NotSearching
           /\ rx_a'[x].tx_nbr = d
  BY <1>1, <1>3
  DEF Consistent, TxQueued, Searching, NotSearching, Rx_Search_reeval,
      Rx_Found, Tx_Abort_Reeval, Tx_Packet_Start, Tx_Packet_End, Tx_End
<1> QED
  BY <1>2, <1>3 DEF Others

LEMMA NoneStaysNone ==
  ASSUME NEW d \in Dev, \A x \in Dev : Consistent(x), Others(d)
  PROVE  \A x \in Dev \ {d} :
           fq'[x].index = State_None <=> fq[x].index = State_None
BY DEF Others, Consistent, State_None, Rx_Search_reeval, Rx_Found

LEMMA OutcomeKeepsCount ==
  ASSUME StateOK, NEW d \in Dev, boot_d \in 0 .. n_devs, On, Turn(d),
         \A x \in Dev : Consistent(x), ActiveDevsCounted,
         Others(d), Counts(d)
  PROVE  ActiveDevsCounted'
<1> DEFINE S == {x \in Dev : boot_d <= x \/ fq[x].index # State_None}
           T == {x \in Dev : boot_d' <= x \/ fq'[x].index # State_None}
<1>1. IsFiniteSet(S) /\ nbr_active_devs = Cardinality(S)
  <2>1. IsFiniteSet(Dev)
    BY NDevsAssumption, FS_Interval DEF Dev
  <2>2. IsFiniteSet(S)
    BY <2>1, FS_Subset
  <2> QED
    BY <2>2 DEF ActiveDevsCounted
<1>2. d \in S
  BY DEF Turn, Dev
<1>3. \A x \in Dev \ {d} : x \in T <=> x \in S
  <2>1. Dev \subseteq Int /\ n_devs \in Int
    BY NDevsAssumption DEF Dev
  <2>2. \A x \in Dev \ {d} : boot_d' <= x <=> boot_d <= x
    BY <2>1 DEF Turn
  <2> QED
    BY <2>2, NoneStaysNone
<1>4. d \in T <=> fq'[d].index # State_None
  <2>1. d \in Int /\ d < n_devs /\ n_devs \in Int
    BY NDevsAssumption DEF Dev
  <2>2. ~(boot_d' <= d)
    BY <2>1 DEF Turn
  <2> QED
    BY <2>2
<1>5. nbr_active_devs' = Cardinality(T)
  <2>1. CASE fq'[d].index = State_None /\ nbr_active_devs' = nbr_active_devs - 1
    <3>1. T = S \ {d}
      BY <1>2, <1>3, <1>4, <2>1
    <3>2. Cardinality(S \ {d}) = Cardinality(S) - 1
      BY <1>1, <1>2, FS_RemoveElement
    <3> QED
      BY <1>1, <2>1, <3>1, <3>2
  <2>2. CASE fq'[d].index # State_None /\ nbr_active_devs' = nbr_active_devs
    <3>1. T = S
      BY <1>2, <1>3, <1>4, <2>2
    <3> QED
      BY <1>1, <2>2, <3>1
  <2> QED
    BY <2>1, <2>2 DEF Counts
<1> QED
  BY <1>5 DEF ActiveDevsCounted

------------------------------------------------------------------------------
(***************************************************************************)
(* The rest of the state: the next device and the time of its event.       *)
(***************************************************************************)
LEMMA FindNextType ==
  ASSUME fq' \in [Dev -> Entry], next_d \in Dev, current_time \in Time,
         FindNextUnlessError
  PROVE  next_d' \in Dev /\ current_time' \in Time
<1>1. \A n \in Dev : fq'[n].time \in Time
  BY DEF Entry
<1> QED
  BY <1>1 DEF FindNextUnlessError, FindNext

LEMMA BootStep ==
  ASSUME IInv, Boot
  PROVE  IInv'
<1>0. boot_d \in Dev /\ boot_d' = boot_d + 1 /\ boot_d' \in 0 .. n_devs
  BY TypeParts, NDevsAssumption DEF IInv, Boot, Booting, Dev
<1> PICK d \in Dev : d = boot_d
  BY <1>0
<1>1. d \in Dev /\ d = boot_d /\ boot_d' = d + 1 /\ boot_d' \in 0 .. n_devs
  BY <1>0
<1>2. StateOK /\ current_time \in Time /\ next_d \in Dev /\ boot_d \in 0 .. n_devs
  BY TypeParts DEF IInv
<1>3. /\ phase = "boot" /\ current_time = 0 /\ nbr_active_devs > 0 /\ On
      /\ \A x \in Dev : boot_d <= x => fq[x].index = State_None
  BY DEF IInv, BootInv, Boot, Booting, On
<1>4. fq[d].index = State_None /\ \A x \in Dev : Consistent(x)
  BY <1>1, <1>2, <1>3, NDevsAssumption DEF IInv, Dev
<1>5. /\ used \in [Dev -> TxsFlags] /\ used[d] = TXS_OFF
      /\ rx_a[d] \in rx_status_t /\ rx_a[d].state = NotSearching
      /\ cca_a[d] \in cca_status_t /\ max_tx_nbr \in DevOrNone
      /\ <<>> \in Seq(Message)
  BY <1>1, <1>2, <1>4, OffAir
  DEF StateOK, TxQueued, State_None, Rx_Search_reeval, Tx_Abort_Reeval,
      Tx_Packet_Start, Tx_Packet_End, Tx_End
<1>6. InTime
  BY <1>3, SimLengthAssumption, NeverAssumption DEF InTime, Time
<1>7. p2G4_handle_next_request(d, used, max_tx_nbr, rx_a[d], cca_a[d], <<>>)
  BY <1>1 DEF Boot
<1>8. StateOK'
  BY <1>1, <1>2, <1>5, <1>6, <1>7, NextRequestType
<1>9. Outcome(d) /\ SameTxs
  BY <1>1, <1>2, <1>5, <1>7, OffAirOutcome
<1>10. next_d' = next_d /\ current_time' = current_time
  BY DEF Boot
<1>11. TypeOK'
  <2>1. current_time' \in Time /\ next_d' \in Dev
    BY <1>2, <1>10
  <2> QED
    BY <1>1, <1>8, <2>1, TypeParts DEF TypeOK, StateOK, Entry
<1>12. MaxTxNbrIsHighest'
  BY <1>3, <1>9, SameTxsKeepHighest DEF IInv
<1>13. CASE phase' = "error"
  BY <1>11, <1>12, <1>13 DEF IInv, BootInv, On, ActiveDevsCounted
<1>14. CASE phase' # "error"
  <2>1. phase' = "boot" /\ Others(d)
    BY <1>3, <1>9, <1>14 DEF Outcome
  <2>2. BootInv'
    <3>1. ASSUME NEW x \in Dev, boot_d' <= x
          PROVE  fq'[x].index = State_None
      <4>1. x \in Dev \ {d} /\ boot_d <= x
        BY <1>1, <3>1, NDevsAssumption DEF Dev
      <4> QED
        BY <1>1, <1>3, <1>4, <2>1, <4>1, NoneStaysNone
    <3> QED
      BY <1>3, <1>10, <2>1, <3>1 DEF BootInv
  <2>3. CASE nbr_active_devs' = 0
    <3>1. ~On'
      BY <2>3 DEF On
    <3> QED
      BY <1>11, <1>12, <2>2, <3>1 DEF IInv, ActiveDevsCounted
  <2>4. CASE Counts(d) /\ Consistent(d)'
    <3>1. \A x \in Dev : Consistent(x)'
      BY <1>1, <1>2, <1>4, <2>1, <2>4, OutcomeKeepsModes
    <3>2. Turn(d)
      BY <1>1 DEF Turn
    <3>3. ActiveDevsCounted'
      BY <1>1, <1>2, <1>3, <1>4, <2>1, <2>4, <3>2, OutcomeKeepsCount DEF IInv
    <3> QED
      BY <1>11, <1>12, <2>2, <3>1, <3>3 DEF IInv
  <2> QED
    BY <1>9, <1>14, <2>3, <2>4 DEF Outcome
<1> QED
  BY <1>13, <1>14

LEMMA StartLoopStep ==
  ASSUME IInv, StartLoop
  PROVE  IInv'
<1>1. StateOK /\ current_time \in Time /\ next_d \in Dev /\ boot_d \in 0 .. n_devs
  BY TypeParts DEF IInv
<1>2. /\ phase' = "running" /\ sent' = <<>> /\ phase = "boot"
      /\ UNCHANGED <<nbr_active_devs, boot_d, fq, used, max_tx_nbr, tx_list,
                     rx_a, cca_a>>
      /\ ~Booting
      /\ FindNext
  BY DEF StartLoop
<1>3. StateOK'
  <2>1. <<>> \in Seq(Message)
    OBVIOUS
  <2> QED
    BY <1>1, <1>2, <2>1 DEF StateOK
<1>4. next_d' \in Dev /\ current_time' \in Time
  BY <1>1, <1>2, <1>3, FindNextType DEF StateOK, FindNextUnlessError
<1>5. TypeOK'
  BY <1>1, <1>2, <1>3, <1>4 DEF TypeOK, StateOK, Entry
<1>6. BootInv'
  BY <1>1, <1>2, NDevsAssumption DEF BootInv, Booting
<1>7. (On => \A x \in Dev : Consistent(x))' /\ MaxTxNbrIsHighest' /\ ActiveDevsCounted'
  BY <1>2 DEF IInv, On, Consistent, MaxTxNbrIsHighest, ActiveDevsCounted
<1> QED
  BY <1>5, <1>6, <1>7 DEF IInv

LEMMA EndLoopStep ==
  ASSUME IInv, EndLoop
  PROVE  IInv'
<1>1. /\ phase' = "ended" /\ sent' = <<>>
      /\ UNCHANGED <<current_time, nbr_active_devs, boot_d, next_d, fq, used,
                     max_tx_nbr, tx_list, rx_a, cca_a>>
      /\ phase = "running"
  BY DEF EndLoop
<1>2. TypeOK'
  <2>1. <<>> \in Seq(Message)
    OBVIOUS
  <2> QED
    BY <1>1, <2>1 DEF IInv, TypeOK
<1> QED
  BY <1>1, <1>2 DEF IInv, BootInv, On, MaxTxNbrIsHighest, ActiveDevsCounted

LEMMA StutterStep ==
  ASSUME IInv, UNCHANGED vars
  PROVE  IInv'
BY DEF vars, IInv, TypeOK, BootInv, On, Consistent, MaxTxNbrIsHighest,
       ActiveDevsCounted

------------------------------------------------------------------------------
(***************************************************************************)
(* The main loop: what a handler of the device next_d needs and leaves.    *)
(***************************************************************************)
LEMMA HandlerRuns ==
  ASSUME IInv, NEW i, Call(i)
  PROVE  /\ StateOK /\ InTime /\ next_d \in Dev /\ Consistent(next_d)
         /\ current_time < sim_length /\ fq[next_d].index = i
         /\ MaxTxNbrIsHighest /\ phase # "error"
<1>1. StateOK /\ current_time \in Time /\ next_d \in Dev
  BY TypeParts DEF IInv
<1>2. /\ phase = "running" /\ nbr_active_devs > 0 /\ current_time < sim_length
      /\ fq[next_d].index = i
  BY DEF Call, Looping
<1>3. InTime
  BY <1>1, <1>2, SimLengthAssumption, NeverAssumption DEF InTime, Time
<1> QED
  BY <1>1, <1>2, <1>3 DEF IInv, On

LEMMA HandlerKeepsIInv ==
  ASSUME IInv, NEW i \in f_index_t \ {State_None}, Call(i), Handled,
         NEW d \in Dev, d = next_d,
         StateOK', Outcome(d), MaxTxNbrIsHighest'
  PROVE  IInv'
<1>1. StateOK /\ current_time \in Time /\ next_d \in Dev /\ boot_d \in 0 .. n_devs
  BY TypeParts DEF IInv
<1>2. /\ phase = "running" /\ nbr_active_devs > 0 /\ On
      /\ fq[d].index # State_None
      /\ \A x \in Dev : Consistent(x)
  BY DEF Call, Looping, On, IInv
<1>3. FindNextUnlessError /\ boot_d' = boot_d /\ boot_d = n_devs
  BY <1>2 DEF Handled, IInv, BootInv
<1>4. next_d' \in Dev /\ current_time' \in Time
  BY <1>1, <1>3, FindNextType DEF StateOK
<1>5. TypeOK'
  BY <1>1, <1>3, <1>4 DEF TypeOK, StateOK, Entry
<1>6. phase' \in {"running", "error"}
  BY <1>2 DEF Outcome
<1>7. BootInv'
  BY <1>3, <1>6, NDevsAssumption DEF BootInv
<1>8. CASE ~On'
  BY <1>5, <1>7, <1>8 DEF IInv, ActiveDevsCounted
<1>9. CASE On'
  <2>1. phase' # "error" /\ nbr_active_devs' # 0
    BY <1>9 DEF On
  <2>2. Others(d) /\ Counts(d) /\ Consistent(d)'
    BY <2>1 DEF Outcome
  <2>3. Turn(d)
    BY <1>2, <1>3 DEF Turn
  <2>4. \A x \in Dev : Consistent(x)'
    BY <1>1, <1>2, <2>2, OutcomeKeepsModes
  <2>5. ActiveDevsCounted'
    BY <1>1, <1>2, <2>2, <2>3, OutcomeKeepsCount DEF IInv
  <2> QED
    BY <1>5, <1>7, <2>4, <2>5 DEF IInv
<1> QED
  BY <1>8, <1>9

LEMMA EventTypes ==
  {Wait_Done, Tx_End, Tx_Packet_End, Rx_CCA_meas, RSSI_Meas, Rx_Found, Rx_Sync,
   Rx_Header, Rx_Payload, Tx_Abort_Reeval, Tx_Packet_Start, Rx_Search_reeval,
   Rx_Search_start, Tx_Start} \subseteq f_index_t \ {State_None}
BY DEF f_index_t, State_None, Wait_Done, Tx_End, Tx_Packet_End, Rx_CCA_meas,
       RSSI_Meas, Rx_Found, Rx_Sync, Rx_Header, Rx_Payload, Tx_Abort_Reeval,
       Tx_Packet_Start, Rx_Search_reeval, Rx_Search_start, Tx_Start

(***************************************************************************)
(* The handlers that do not change the Tx list.                            *)
(***************************************************************************)
LEMMA ListenerStep ==
  ASSUME IInv, NEW i \in f_index_t \ {State_None}, Call(i), Handled,
         NEW d \in Dev, d = next_d, StateOK', Outcome(d), SameTxs
  PROVE  IInv'
BY HandlerRuns, HandlerKeepsIInv, SameTxsKeepHighest

LEMMA MeasSteps ==
  ASSUME IInv, WaitDone \/ RSSIMeas \/ RxCCAMeas
  PROVE  IInv'
<1>1. PICK i \in {Wait_Done, RSSI_Meas, Rx_CCA_meas} :
        /\ Call(i) /\ Handled
        /\ f_wait_done(next_d) \/ f_RSSI_meas(next_d) \/ f_cca_meas(next_d)
  BY Zenon DEF WaitDone, RSSIMeas, RxCCAMeas
<1>2. PICK d \in Dev : d = next_d
  BY <1>1, HandlerRuns
<1>3. StateOK /\ InTime /\ Consistent(d) /\ fq[d].index = i
  BY <1>1, <1>2, HandlerRuns
<1>4. f_wait_done(d) \/ f_RSSI_meas(d) \/ f_cca_meas(d)
  BY <1>1, <1>2
<1>5. StateOK'
  BY <1>3, <1>4, WaitType, CcaMeasType
<1>6. Outcome(d) /\ SameTxs
  BY <1>3, <1>4, MeasOutcome
<1> QED
  BY <1>1, <1>2, <1>5, <1>6, ListenerStep, EventTypes

LEMMA SearchSteps ==
  ASSUME IInv, RxSearchStart \/ RxSearchReeval
  PROVE  IInv'
<1>1. PICK i \in {Rx_Search_start, Rx_Search_reeval} :
        /\ Call(i) /\ Handled
        /\ f_rx_search_start(next_d) \/ f_rx_search_reeval(next_d)
  BY Zenon DEF RxSearchStart, RxSearchReeval
<1>2. PICK d \in Dev : d = next_d
  BY <1>1, HandlerRuns
<1>3. StateOK /\ InTime /\ Consistent(d) /\ fq[d].index = i
  BY <1>1, <1>2, HandlerRuns
<1>4. f_rx_search_start(d) \/ f_rx_search_reeval(d)
  BY <1>1, <1>2
<1>5. StateOK'
  BY <1>3, <1>4, SearchType
<1>6. Outcome(d) /\ SameTxs
  BY <1>3, <1>4, SearchOutcome
<1> QED
  BY <1>1, <1>2, <1>5, <1>6, ListenerStep, EventTypes

LEMMA ReceptionSteps ==
  ASSUME IInv, RxFoundStep \/ RxSync \/ RxHeader \/ RxPayload
  PROVE  IInv'
<1>1. PICK i \in {Rx_Found, Rx_Sync, Rx_Header, Rx_Payload} :
        /\ Call(i) /\ Handled
        /\ \/ i = Rx_Found /\ f_rx_found(next_d)
           \/ f_rx_sync(next_d) \/ f_rx_header(next_d) \/ f_rx_payload(next_d)
  BY Zenon DEF RxFoundStep, RxSync, RxHeader, RxPayload
<1>2. PICK d \in Dev : d = next_d
  BY <1>1, HandlerRuns
<1>3. /\ StateOK /\ InTime /\ Consistent(d) /\ fq[d].index = i
      /\ current_time < sim_length
  BY <1>1, <1>2, HandlerRuns
<1>4. \/ i = Rx_Found /\ f_rx_found(d)
      \/ f_rx_sync(d) \/ f_rx_header(d) \/ f_rx_payload(d)
  BY <1>1, <1>2
<1>5. StateOK'
  <2>1. CASE i = Rx_Found /\ f_rx_found(d)
    <3>1. rx_a[d].tx_nbr \in Dev
      BY <1>3, <2>1 DEF Consistent
    <3>2. rx_a[d] \in rx_status_t /\ <<>> \in Seq(Message)
      BY <1>3 DEF StateOK
    <3> QED
      BY <1>3, <2>1, <3>1, <3>2, RxFoundType DEF f_rx_found
  <2>2. CASE f_rx_sync(d) \/ f_rx_header(d) \/ f_rx_payload(d)
    BY <1>3, <2>2, ReceptionType
  <2> QED
    BY <1>4, <2>1, <2>2
<1>6. Outcome(d) /\ SameTxs
  BY <1>1, <1>3, <1>4, ReceptionOutcome
<1> QED
  BY <1>1, <1>2, <1>5, <1>6, ListenerStep, EventTypes

(***************************************************************************)
(* The handlers of a transmission.                                         *)
(***************************************************************************)
LEMMA TxSteps ==
  ASSUME IInv,
         TxAbortReeval \/ TxStart \/ TxPacketStart \/ TxPacketEnd \/ TxEnd
  PROVE  IInv'
<1>1. PICK i \in {Tx_Abort_Reeval, Tx_Start, Tx_Packet_Start, Tx_Packet_End,
                   Tx_End} :
        /\ Call(i) /\ Handled
        /\ \/ i = Tx_Abort_Reeval /\ f_tx_abort_reeval(next_d)
           \/ i = Tx_Start /\ f_tx_start(next_d)
           \/ i = Tx_Packet_Start /\ f_tx_packet_start(next_d)
           \/ i = Tx_Packet_End /\ f_tx_packet_end(next_d)
           \/ i = Tx_End /\ f_tx_end(next_d)
  BY Zenon DEF TxAbortReeval, TxStart, TxPacketStart, TxPacketEnd, TxEnd
<1>2. PICK d \in Dev : d = next_d
  BY <1>1, HandlerRuns
<1>3. /\ StateOK /\ InTime /\ Consistent(d) /\ fq[d].index = i
      /\ MaxTxNbrIsHighest /\ phase # "error"
  BY <1>1, <1>2, HandlerRuns
<1>4. \/ i = Tx_Abort_Reeval /\ f_tx_abort_reeval(d)
      \/ i = Tx_Start /\ f_tx_start(d)
      \/ i \in {Tx_Packet_Start, Tx_Packet_End}
           /\ (f_tx_packet_start(d) \/ f_tx_packet_end(d))
      \/ i = Tx_End /\ f_tx_end(d)
  BY <1>1, <1>2
<1>5. StateOK'
  BY <1>3, <1>4, TxAbortReevalType, TxStartType, TxPacketType, TxEndType
<1>6. Outcome(d) /\ MaxTxNbrIsHighest'
  BY <1>3, <1>4, TxAbortReevalOutcome, TxStartOutcome, TxPacketOutcome,
     TxEndOutcome
<1> QED
  BY <1>1, <1>2, <1>5, <1>6, HandlerKeepsIInv, EventTypes

LEMMA IInvStep ==
  IInv /\ [Next]_vars => IInv'
<1> SUFFICES ASSUME IInv, [Next]_vars
             PROVE  IInv'
  OBVIOUS
<1>1. CASE Boot
  BY <1>1, BootStep
<1>2. CASE StartLoop
  BY <1>2, StartLoopStep
<1>3. CASE MainLoop
  BY <1>3, MeasSteps, SearchSteps, ReceptionSteps, TxSteps DEF MainLoop
<1>4. CASE EndLoop
  BY <1>4, EndLoopStep
<1>5. CASE Exited \/ UNCHANGED vars
  BY <1>5, StutterStep DEF Exited
<1> QED
  BY <1>1, <1>2, <1>3, <1>4, <1>5 DEF Next

------------------------------------------------------------------------------
(***************************************************************************)
(* The inductive invariant holds in every state of main().                 *)
(***************************************************************************)
THEOREM Invariance == Spec => []IInv
  BY IInvInit, IInvStep, PTL DEF Spec

(***************************************************************************)
(* Whatever the devices ask and answer, the state of the Phy is well typed *)
(* at every turn of the boot loop and of the main loop.                    *)
(***************************************************************************)
THEOREM TypeCorrect == Spec => []TypeOK
<1>1. IInv => TypeOK
  BY DEF IInv
<1> QED
  BY Invariance, <1>1, PTL

(***************************************************************************)
(* The receivers that find_and_activate_rx() (p2G4_main.c) moves to        *)
(* Rx_Found are those that wait for the reevaluation of their search: it   *)
(* overwrites no other event, and no search is left without an event.      *)
(***************************************************************************)
THEOREM SearchesAreQueued == Spec => []SearchingIffQueued
<1>1. IInv => SearchingIffQueued
  BY DEF IInv, Consistent, SearchingIffQueued
<1> QED
  BY Invariance, <1>1, PTL

(***************************************************************************)
(* A device is in the Tx list (p2G4_pending_tx_rx_list.c) exactly while an *)
(* event of its transmission is queued: nothing stays on the air after its *)
(* device left, was aborted or made another request.                       *)
(***************************************************************************)
THEOREM TransmissionsAreQueued == Spec => []OnAirIffTxQueued
<1>1. IInv => OnAirIffTxQueued
  BY DEF IInv, Consistent, OnAirIffTxQueued, TxQueued
<1> QED
  BY Invariance, <1>1, PTL

(***************************************************************************)
(* max_tx_nbr of the Tx list is the highest device on the air: the loops   *)
(* that stop at txl_get_max_tx_nbr() miss no transmission.                 *)
(***************************************************************************)
THEOREM HighestTxIsKnown == Spec => []MaxTxNbrIsHighest
<1>1. IInv => MaxTxNbrIsHighest
  BY DEF IInv
<1> QED
  BY Invariance, <1>1, PTL

(***************************************************************************)
(* nbr_active_devs, the condition of main()'s loops, counts the devices    *)
(* that still have an event or their turn in the boot loop.                *)
(***************************************************************************)
THEOREM DevicesAreCounted == Spec => []ActiveDevsCounted
<1>1. IInv => ActiveDevsCounted
  BY DEF IInv
<1> QED
  BY Invariance, <1>1, PTL
=============================================================================
