-------------------------- MODULE PhyProtocolProofs --------------------------
(***************************************************************************)
(* What Phy tells its devices, for any number of devices and whatever the  *)
(* devices request and answer: that it implements DeviceProtocol, what the *)
(* messages that end a transmission or a CCA search say of the time, and   *)
(* which packets a search finds.                                           *)
(*                                                                         *)
(* A handler speaks to its own device only: first the reevaluation of an   *)
(* abort, if one is due, then at most one response.  What the device waits *)
(* for afterwards follows from the event that the handler leaves queued.   *)
(***************************************************************************)
EXTENDS PhyTimeProofs, PhyProtocol

(***************************************************************************)
(* The messages of a reevaluation.                                         *)
(***************************************************************************)
Reevaluates(d, msgs) ==
  /\ msgs \in Seq(Message)
  /\ \A k \in 1 .. Len(msgs) :
       /\ msgs[k].to = d
       /\ msgs[k].msg = IF k = 1 THEN "ABORTREEVAL" ELSE "IMMRSSI_RRSI_DONE"

LEMMA ReevaluationReevaluates ==
  ASSUME InTime, NEW d \in Dev, NEW n \in Nat
  PROVE  Reevaluates(d, Reevaluation(d, n)) /\ Reevaluation(d, n) # <<>>
<1> DEFINE first == <<Msg(d, "ABORTREEVAL", "none")>>
           rest  == [k \in 1 .. n |-> Msg(d, "IMMRSSI_RRSI_DONE", "none")]
<1>1. Reevaluation(d, n) = first \o rest /\ Reevaluation(d, n) \in Seq(Message)
  BY ReevaluationType DEF Reevaluation
<1>2. /\ Msg(d, "ABORTREEVAL", "none") \in Message
      /\ Msg(d, "IMMRSSI_RRSI_DONE", "none") \in Message
  <2>1. "none" \in RxStatus
    BY DEF RxStatus
  <2> QED
    BY <2>1, MsgType DEF Text
<1>3. /\ first \in Seq(Message) /\ Len(first) = 1
      /\ first[1] = Msg(d, "ABORTREEVAL", "none")
  BY <1>2
<1>4. rest \in Seq(Message) /\ Len(rest) = n
  BY <1>2, IsASeq
<1>5. Len(first \o rest) = 1 + n
  BY <1>3, <1>4, ConcatProperties
<1>6. ASSUME NEW k \in 1 .. Len(first \o rest)
      PROVE  (first \o rest)[k] = IF k = 1 THEN Msg(d, "ABORTREEVAL", "none")
                                  ELSE Msg(d, "IMMRSSI_RRSI_DONE", "none")
  <2>1. (first \o rest)[k] = IF k <= 1 THEN first[k] ELSE rest[k - 1]
    BY <1>3, <1>4, ConcatProperties
  <2>2. CASE k = 1
    BY <1>3, <2>1, <2>2
  <2>3. CASE k # 1
    <3>1. k - 1 \in 1 .. n
      BY <1>5, <2>3
    <3>2. (first \o rest)[k] = rest[k - 1]
      BY <1>5, <2>1, <2>3
    <3> QED
      BY <2>3, <3>1, <3>2
  <2> QED
    BY <2>2, <2>3
<1>7. /\ Msg(d, "ABORTREEVAL", "none").to = d
      /\ Msg(d, "ABORTREEVAL", "none").msg = "ABORTREEVAL"
      /\ Msg(d, "IMMRSSI_RRSI_DONE", "none").to = d
      /\ Msg(d, "IMMRSSI_RRSI_DONE", "none").msg = "IMMRSSI_RRSI_DONE"
  BY DEF Msg
<1>8. Reevaluation(d, n) # <<>>
  BY <1>1, <1>5
<1> HIDE DEF first, rest
<1> QED
  BY <1>1, <1>6, <1>7, <1>8 DEF Reevaluates

LEMMA NothingReevaluates ==
  ASSUME NEW d
  PROVE  Reevaluates(d, <<>>)
BY DEF Reevaluates

LEMMA RecheckReevaluates ==
  ASSUME InTime, NEW d \in Dev
  PROVE  /\ \A msgs \in RecheckMsgs(d) : Reevaluates(d, msgs)
         /\ \A msgs \in CcaMsgs(d) : Reevaluates(d, msgs)
         /\ RecheckDue(rx_a[d]) => \A msgs \in RecheckMsgs(d) : msgs # <<>>
         /\ CcaRecheckDue(d) => \A msgs \in CcaMsgs(d) : msgs # <<>>
<1>1. \A n \in 0 .. MaxImmRssi : Reevaluates(d, Reevaluation(d, n))
                                   /\ Reevaluation(d, n) # <<>>
  BY ReevaluationReevaluates, LimitsAssumption
<1> QED
  BY <1>1, NothingReevaluates DEF RecheckMsgs, CcaMsgs

------------------------------------------------------------------------------
(***************************************************************************)
(* What the device hears.                                                  *)
(***************************************************************************)
Hears(msgs) ==
  [k \in DOMAIN msgs |-> [msg |-> msgs[k].msg, status |-> msgs[k].status]]

SpeaksTo(d, msgs) ==
  msgs \in Seq(Message) /\ \A k \in 1 .. Len(msgs) : msgs[k].to = d

LEMMA HeardIsSent ==
  ASSUME NEW d \in Dev, SpeaksTo(d, sent')
  PROVE  /\ Heard(d)' = Hears(sent')
         /\ \A x \in Dev \ {d} : Heard(x)' = <<>>
<1>1. sent' \in Seq(Message) /\ DOMAIN sent' = 1 .. Len(sent') /\ Len(sent') \in Nat
  BY DEF SpeaksTo
<1>2. CASE Len(sent') = 0
  <2>1. DOMAIN sent' = {}
    BY <1>1, <1>2
  <2>2. Hears(sent') = <<>>
    BY <2>1 DEF Hears
  <2> QED
    BY <2>1, <2>2 DEF Heard
<1>3. CASE Len(sent') # 0
  <2>1. 1 \in DOMAIN sent' /\ \A k \in DOMAIN sent' : sent'[k].to = d
    BY <1>1, <1>3 DEF SpeaksTo
  <2> QED
    BY <2>1 DEF Heard, Hears
<1> QED
  BY <1>2, <1>3

LEMMA HearsReevaluation ==
  ASSUME NEW d, NEW msgs, Reevaluates(d, msgs), NEW p,
         msgs # <<>> => p.request \in {"TX", "RX", "RXV2", "CCA_MEAS"}
  PROVE  /\ Protocol!Reevaluation(p, Hears(msgs))
         /\ msgs # <<>> => Hears(msgs) # <<>>
<1>1. msgs \in Seq(Message) /\ DOMAIN msgs = 1 .. Len(msgs) /\ Len(msgs) \in Nat
  BY DEF Reevaluates
<1>2. \A k \in DOMAIN msgs : Hears(msgs)[k].msg = msgs[k].msg
  BY DEF Hears
<1>3. DOMAIN Hears(msgs) = DOMAIN msgs
  BY DEF Hears
<1>4. msgs = <<>> => Hears(msgs) = <<>>
  BY DEF Hears
<1>5. msgs # <<>> => Hears(msgs) # <<>>
  <2>1. msgs # <<>> => 1 \in DOMAIN msgs
    BY <1>1
  <2> QED
    BY <1>3, <2>1
<1> QED
  BY <1>1, <1>2, <1>3, <1>4, <1>5 DEF Protocol!Reevaluation, Reevaluates

LEMMA HearsResponse ==
  ASSUME NEW d, NEW msgs, Reevaluates(d, msgs), NEW p,
         msgs # <<>> => p.request \in {"TX", "RX", "RXV2", "CCA_MEAS"},
         NEW m \in Message, NEW responses, Protocol!Response(m.msg, m.status) \in responses
  PROVE  Protocol!EndsWith(p, Hears(Append(msgs, m)), responses)
<1> DEFINE all == Append(msgs, m)
           h == Hears(all)
<1>1. /\ all \in Seq(Message) /\ Len(all) = Len(msgs) + 1 /\ Len(msgs) \in Nat
      /\ all[Len(msgs) + 1] = m
      /\ \A k \in 1 .. Len(msgs) : all[k] = msgs[k]
      /\ msgs \in Seq(Message)
  BY DEF Reevaluates
<1>2. h = [k \in 1 .. Len(msgs) + 1 |-> [msg |-> all[k].msg, status |-> all[k].status]]
  BY <1>1 DEF Hears
<1> HIDE DEF h
<1>3. Len(h) = Len(msgs) + 1 /\ h[Len(msgs) + 1] = Protocol!Response(m.msg, m.status)
  BY <1>1, <1>2 DEF Protocol!Response
<1>4. h \in Seq([msg : Text, status : RxStatus])
  <2>1. \A k \in 1 .. Len(msgs) + 1 : all[k] \in Message
    BY <1>1
  <2>2. \A k \in 1 .. Len(msgs) + 1 : all[k].msg \in Text /\ all[k].status \in RxStatus
    BY <2>1 DEF Message, Text
  <2> QED
    BY <1>1, <1>2, <2>2, IsASeq
<1>5. Protocol!Last(h) = Protocol!Response(m.msg, m.status)
  BY <1>3 DEF Protocol!Last
<1>6. Protocol!Front(h) = Hears(msgs)
  <2>1. Protocol!Front(h) = SubSeq(h, 1, Len(msgs))
    BY <1>1, <1>3 DEF Protocol!Front
  <2>2. SubSeq(h, 1, Len(msgs)) = [k \in 1 .. Len(msgs) |-> h[k]]
    BY <1>1, <1>3, <1>4
  <2>3. DOMAIN msgs = 1 .. Len(msgs)
    BY <1>1
  <2>4. Hears(msgs) = [k \in 1 .. Len(msgs) |-> h[k]]
    BY <1>1, <1>2, <2>3 DEF Hears
  <2> QED
    BY <2>1, <2>2, <2>4
<1>7. h # <<>>
  BY <1>1, <1>3
<1>8. Protocol!Reevaluation(p, Hears(msgs))
  BY HearsReevaluation
<1> QED
  BY <1>5, <1>6, <1>7, <1>8 DEF Protocol!EndsWith, h, all

------------------------------------------------------------------------------
(***************************************************************************)
(* What a device waits for, by its event.                                  *)
(***************************************************************************)
TxWait == Protocol!Waiting("TX", "started")

WaitsFor(d) ==
  /\ ~On => Pending(d) = Protocol!Over
  /\ On /\ boot_d <= d => Pending(d) = Protocol!New
  /\ On /\ d < boot_d =>
       LET i == fq[d].index
       IN /\ i = State_None => Pending(d) = Protocol!Gone
          /\ i = Wait_Done => Pending(d) = Protocol!Waiting("WAIT", "asked")
          /\ i = RSSI_Meas => Pending(d) = Protocol!Waiting("RSSIMEAS", "asked")
          /\ i = Rx_CCA_meas =>
               Pending(d) = Protocol!Waiting("CCA_MEAS", IF cca_a[d].n_meas = 0
                                                         THEN "asked" ELSE "started")
          /\ i = Tx_Start => Pending(d) = Protocol!Waiting("TX", "asked")
          /\ i \in TxQueued => Pending(d) = TxWait
          /\ i = Rx_Search_start =>
               Pending(d) = Protocol!Waiting(RxRequest(d), "asked")
          /\ i \in {Rx_Search_reeval, Rx_Found, Rx_Sync} =>
               Pending(d) = Protocol!Waiting(RxRequest(d), "started")
          /\ i \in {Rx_Header, Rx_Payload} =>
               Pending(d) = Protocol!Waiting(RxRequest(d), "found")

LEMMA PendingByEvent ==
  boot_d \in Nat => \A d \in Dev : WaitsFor(d)
<1> SUFFICES ASSUME boot_d \in Nat, NEW d \in Dev
             PROVE  WaitsFor(d)
  OBVIOUS
<1>1. d \in Nat /\ (boot_d <= d <=> ~(boot_d > d)) /\ (d < boot_d <=> boot_d > d)
  BY DEF Dev
<1>2. ~On => Pending(d) = Protocol!Over
  BY DEF Pending, Protocol!Over, Protocol!Waiting
<1>3. On /\ boot_d <= d => Pending(d) = Protocol!New
  BY <1>1 DEF Pending, Protocol!New, Protocol!Waiting
<1>4. ASSUME On, d < boot_d
      PROVE  LET i == fq[d].index
             IN /\ i = State_None => Pending(d) = Protocol!Gone
                /\ i = Wait_Done => Pending(d) = Protocol!Waiting("WAIT", "asked")
                /\ i = RSSI_Meas =>
                     Pending(d) = Protocol!Waiting("RSSIMEAS", "asked")
                /\ i = Rx_CCA_meas =>
                     Pending(d) = Protocol!Waiting("CCA_MEAS",
                                                   IF cca_a[d].n_meas = 0
                                                   THEN "asked" ELSE "started")
                /\ i = Tx_Start => Pending(d) = Protocol!Waiting("TX", "asked")
                /\ i \in TxQueued => Pending(d) = TxWait
                /\ i = Rx_Search_start =>
                     Pending(d) = Protocol!Waiting(RxRequest(d), "asked")
                /\ i \in {Rx_Search_reeval, Rx_Found, Rx_Sync} =>
                     Pending(d) = Protocol!Waiting(RxRequest(d), "started")
                /\ i \in {Rx_Header, Rx_Payload} =>
                     Pending(d) = Protocol!Waiting(RxRequest(d), "found")
  <2> DEFINE i == fq[d].index
  <2>1. /\ i = State_None => Pending(d) = Protocol!Gone
        /\ i = Wait_Done => Pending(d) = Protocol!Waiting("WAIT", "asked")
        /\ i = RSSI_Meas => Pending(d) = Protocol!Waiting("RSSIMEAS", "asked")
        /\ i = Rx_CCA_meas =>
             Pending(d) = Protocol!Waiting("CCA_MEAS", IF cca_a[d].n_meas = 0
                                                       THEN "asked" ELSE "started")
    BY <1>1, <1>4, SMTT(30)
    DEF Pending, Protocol!Gone, Protocol!Waiting, TxWait, TxQueued, State_None,
        Wait_Done, RSSI_Meas, Rx_CCA_meas, Tx_Start, Tx_Abort_Reeval,
        Tx_Packet_Start, Tx_Packet_End, Tx_End, Rx_Search_start,
        Rx_Search_reeval, Rx_Found, Rx_Sync, Rx_Header, Rx_Payload
  <2>2. /\ i = Tx_Start => Pending(d) = Protocol!Waiting("TX", "asked")
        /\ i \in TxQueued => Pending(d) = TxWait
    BY <1>1, <1>4, SMTT(30)
    DEF Pending, Protocol!Gone, Protocol!Waiting, TxWait, TxQueued, State_None,
        Wait_Done, RSSI_Meas, Rx_CCA_meas, Tx_Start, Tx_Abort_Reeval,
        Tx_Packet_Start, Tx_Packet_End, Tx_End, Rx_Search_start,
        Rx_Search_reeval, Rx_Found, Rx_Sync, Rx_Header, Rx_Payload
  <2>3. /\ i = Rx_Search_start =>
             Pending(d) = Protocol!Waiting(RxRequest(d), "asked")
        /\ i \in {Rx_Search_reeval, Rx_Found, Rx_Sync} =>
             Pending(d) = Protocol!Waiting(RxRequest(d), "started")
        /\ i \in {Rx_Header, Rx_Payload} =>
             Pending(d) = Protocol!Waiting(RxRequest(d), "found")
    BY <1>1, <1>4, SMTT(30)
    DEF Pending, Protocol!Gone, Protocol!Waiting, TxWait, TxQueued, State_None,
        Wait_Done, RSSI_Meas, Rx_CCA_meas, Tx_Start, Tx_Abort_Reeval,
        Tx_Packet_Start, Tx_Packet_End, Tx_End, Rx_Search_start,
        Rx_Search_reeval, Rx_Found, Rx_Sync, Rx_Header, Rx_Payload
  <2> QED
    BY <2>1, <2>2, <2>3
<1> QED
  BY <1>2, <1>3, <1>4 DEF WaitsFor

LEMMA PendingAfter ==
  boot_d' \in Nat => \A d \in Dev : WaitsFor(d)'
<1>1. (boot_d \in Nat => \A d \in Dev : WaitsFor(d))'
  BY PendingByEvent, PTL
<1> QED
  BY <1>1

------------------------------------------------------------------------------
(***************************************************************************)
(* What a handler of device d does to the exchange with it.                *)
(***************************************************************************)
Moves(q) == Protocol!NextRequest(q) \/ q = Protocol!Over

Goes(p, q) ==
  /\ q.request = p.request
  /\ \/ q.stage = p.stage
     \/ p.stage = "asked" /\ q.stage = "started"
     \/ p.stage = "started" /\ q.stage = "asked" /\ p.request \in {"RX", "RXV2"}

Tells(d, pre, p, q) ==
  \/ /\ sent' = pre
     /\ Goes(p, q) \/ q = Protocol!Over \/ (pre # <<>> /\ q = Protocol!Gone)
  \/ \E m \in Message :
       /\ sent' = Append(pre, m) /\ m.to = d
       /\ LET response == Protocol!Response(m.msg, m.status)
          IN \/ response \in Protocol!Complete(p) /\ Moves(q)
             \/ /\ response \in Protocol!AddressFound(p)
                /\ q = Protocol!Waiting(p.request, "found") \/ Moves(q)

Obeys(d) ==
  \E pre :
    /\ Reevaluates(d, pre)
    /\ pre # <<>> => Pending(d).request \in {"TX", "RX", "RXV2", "CCA_MEAS"}
    /\ Tells(d, pre, Pending(d), Pending(d)')

LEMMA ObeysSteps ==
  ASSUME NEW d \in Dev, Obeys(d)
  PROVE  /\ Protocol!Step(Pending(d), Pending(d)', Heard(d)')
         /\ \A x \in Dev \ {d} : Heard(x)' = <<>>
<1> DEFINE p == Pending(d)
           q == Pending(d)'
<1>1. PICK pre : /\ Reevaluates(d, pre)
                 /\ pre # <<>> => p.request \in {"TX", "RX", "RXV2", "CCA_MEAS"}
                 /\ Tells(d, pre, p, q)
  BY DEF Obeys
<1> HIDE DEF p, q
<1>2. /\ SpeaksTo(d, pre)
      /\ \A m \in Message : m.to = d => SpeaksTo(d, Append(pre, m))
  <2>1. pre \in Seq(Message) /\ \A k \in 1 .. Len(pre) : pre[k].to = d
    BY <1>1 DEF Reevaluates
  <2>2. ASSUME NEW m \in Message, m.to = d
        PROVE  SpeaksTo(d, Append(pre, m))
    <3>1. /\ Append(pre, m) \in Seq(Message) /\ Len(Append(pre, m)) = Len(pre) + 1
          /\ Append(pre, m)[Len(pre) + 1] = m /\ Len(pre) \in Nat
          /\ \A k \in 1 .. Len(pre) : Append(pre, m)[k] = pre[k]
      BY <2>1
    <3>2. \A k \in 1 .. Len(pre) + 1 : k \in 1 .. Len(pre) \/ k = Len(pre) + 1
      BY <3>1
    <3> QED
      BY <2>1, <2>2, <3>1, <3>2 DEF SpeaksTo
  <2> QED
    BY <2>1, <2>2 DEF SpeaksTo
<1>3. SpeaksTo(d, sent')
  BY <1>1, <1>2 DEF Tells
<1>4. Heard(d)' = Hears(sent') /\ \A x \in Dev \ {d} : Heard(x)' = <<>>
  BY <1>3, HeardIsSent
<1>5. Protocol!Reevaluation(p, Hears(pre)) /\ (pre # <<>> => Hears(pre) # <<>>)
  BY <1>1, HearsReevaluation
<1>6. \A m \in Message : \A responses :
        Protocol!Response(m.msg, m.status) \in responses =>
          Protocol!EndsWith(p, Hears(Append(pre, m)), responses)
  BY <1>1, HearsResponse
<1>7. Protocol!Step(p, q, Hears(sent'))
  <2>1. CASE sent' = pre /\ Goes(p, q)
    BY <1>5, <2>1, Zenon DEF Goes, Protocol!Step, Protocol!GoOn
  <2>2. CASE sent' = pre /\ q = Protocol!Over
    BY <1>5, <2>2, Zenon DEF Protocol!Step, Protocol!BeOver
  <2>3. CASE sent' = pre /\ pre # <<>> /\ q = Protocol!Gone
    BY <1>5, <2>3, Zenon DEF Protocol!Step, Protocol!Leave
  <2>4. ASSUME NEW m \in Message, sent' = Append(pre, m),
               Protocol!Response(m.msg, m.status) \in Protocol!Complete(p), Moves(q)
        PROVE  Protocol!Step(p, q, Hears(sent'))
    <3>1. Protocol!EndsWith(p, Hears(sent'), Protocol!Complete(p))
      BY <1>6, <2>4, Zenon
    <3>2. Protocol!EndsWith(p, Hears(sent'),
                            Protocol!AddressFound(p) \cup Protocol!Complete(p))
      <4>1. Protocol!Response(m.msg, m.status)
              \in Protocol!AddressFound(p) \cup Protocol!Complete(p)
        BY <2>4
      <4> QED
        BY <1>6, <2>4, <4>1, Zenon
    <3> QED
      BY <2>4, <3>1, <3>2, Zenon
      DEF Moves, Protocol!Step, Protocol!Respond, Protocol!BeOver
  <2>5. ASSUME NEW m \in Message, sent' = Append(pre, m),
               Protocol!Response(m.msg, m.status) \in Protocol!AddressFound(p),
               q = Protocol!Waiting(p.request, "found") \/ Moves(q)
        PROVE  Protocol!Step(p, q, Hears(sent'))
    <3>1. Protocol!EndsWith(p, Hears(sent'), Protocol!AddressFound(p))
      BY <1>6, <2>5, Zenon
    <3>2. Protocol!EndsWith(p, Hears(sent'),
                            Protocol!AddressFound(p) \cup Protocol!Complete(p))
      <4>1. Protocol!Response(m.msg, m.status)
              \in Protocol!AddressFound(p) \cup Protocol!Complete(p)
        BY <2>5
      <4> QED
        BY <1>6, <2>5, <4>1, Zenon
    <3> QED
      BY <2>5, <3>1, <3>2, Zenon
      DEF Moves, Protocol!Step, Protocol!FindAddress, Protocol!BeOver
  <2> QED
    BY <1>1, <2>1, <2>2, <2>3, <2>4, <2>5, Zenon DEF Tells
<1> QED
  BY <1>4, <1>7 DEF p, q

(***************************************************************************)
(* The device d is called.                                                 *)
(***************************************************************************)
Called(d) ==
  /\ StateOK /\ InTime /\ On
  /\ boot_d \in Nat /\ d < boot_d /\ boot_d' = boot_d

LEMMA CalledWaits ==
  ASSUME NEW d \in Dev, Called(d)
  PROVE  /\ WaitsFor(d) /\ WaitsFor(d)' /\ On /\ d < boot_d /\ d < boot_d'
         /\ nbr_active_devs \in Nat /\ nbr_active_devs > 0
BY PendingByEvent, PendingAfter DEF Called, On, StateOK

LEMMA OverAtTheEnd ==
  ASSUME NEW d \in Dev, boot_d' \in Nat,
         phase' = "error" \/ nbr_active_devs' = 0
  PROVE  Pending(d)' = Protocol!Over
<1>1. ~On'
  BY DEF On
<1> QED
  BY <1>1, PendingAfter DEF WaitsFor

(***************************************************************************)
(* A device that leaves, and one that makes its next request.              *)
(***************************************************************************)
LEMMA RemovedMoves ==
  ASSUME StateOK, NEW d \in Dev, boot_d' \in Nat, d < boot_d',
         fq' = fq_remove(fq, d)
  PROVE  Pending(d)' = Protocol!Gone \/ Pending(d)' = Protocol!Over
<1>1. fq'[d].index = State_None
  BY DEF fq_remove, Event, StateOK
<1> QED
  BY <1>1, PendingAfter DEF WaitsFor

LEMMA NextRequestMoves ==
  ASSUME StateOK, NEW d \in Dev, boot_d' \in Nat, d < boot_d',
         NEW u, NEW m, NEW rx \in rx_status_t, NEW cca, NEW msgs,
         p2G4_handle_next_request(d, u, m, rx, cca, msgs)
  PROVE  sent' = msgs /\ Moves(Pending(d)')
<1>1. PICK q \in Requests(d, current_time) :
        \/ Exit(msgs)
        \/ Accepted(q, d, u, rx, cca) /\ sent' = msgs
  BY Zenon DEF p2G4_handle_next_request
<1>2. CASE Exit(msgs)
  BY <1>2, OverAtTheEnd DEF Exit, Moves
<1>3. CASE Accepted(q, d, u, rx, cca) /\ sent' = msgs
  <2> SUFFICES Moves(Pending(d)')
    BY <1>3
  <2>1. \/ nbr_active_devs' = 0
        \/ fq' = fq_remove(fq, d)
        \/ \E t : fq' = fq_add(fq, t, Wait_Done, d)
        \/ \E t : fq' = fq_add(fq, t, RSSI_Meas, d)
        \/ \E t : fq' = fq_add(fq, t, Tx_Start, d)
        \/ /\ \E t : fq' = fq_add(fq, t, Rx_Search_start, d)
           /\ \E r : \E v1 \in BOOLEAN :
                rx_a' = [rx_a EXCEPT ![d] = StartedRx(rx, r, v1)]
        \/ /\ \E t : fq' = fq_add(fq, t, Rx_CCA_meas, d)
           /\ \E c : cca_a' = [cca_a EXCEPT ![d] = StartedCca(c)]
    BY <1>3, Zenon
    DEF Accepted, Leaves, Waits, Transmits, prepare_tx, Receives, prepare_rx,
        prepare_CCA
  <2>2. On' \/ Pending(d)' = Protocol!Over
    BY PendingAfter DEF WaitsFor
  <2>3. WaitsFor(d)'
    BY PendingAfter
  <2>4. \A t, i : fq_add(fq, t, i, d)[d].index = i
    BY DEF fq_add, Event, StateOK
  <2>5. CASE nbr_active_devs' = 0
    BY <2>5, OverAtTheEnd DEF Moves
  <2>6. CASE fq' = fq_remove(fq, d)
    BY <2>6, RemovedMoves DEF Moves, Protocol!NextRequest
  <2>7. CASE \/ \E t : fq' = fq_add(fq, t, Wait_Done, d)
             \/ \E t : fq' = fq_add(fq, t, RSSI_Meas, d)
             \/ \E t : fq' = fq_add(fq, t, Tx_Start, d)
    <3>1. fq'[d].index \in {Wait_Done, RSSI_Meas, Tx_Start}
      BY <2>4, <2>7
    <3>2. On' => \E r \in {"WAIT", "RSSIMEAS", "TX"} :
                   Pending(d)' = Protocol!Waiting(r, "asked")
      BY <2>3, <3>1, Zenon DEF WaitsFor
    <3> QED
      BY <2>2, <3>2 DEF Moves, Protocol!NextRequest, Protocol!RequestKinds
  <2>8. CASE /\ \E t : fq' = fq_add(fq, t, Rx_Search_start, d)
             /\ \E r : \E v1 \in BOOLEAN :
                  rx_a' = [rx_a EXCEPT ![d] = StartedRx(rx, r, v1)]
    <3>1. fq'[d].index = Rx_Search_start
      BY <2>4, <2>8
    <3>2. On' => Pending(d)' = Protocol!Waiting(RxRequest(d)', "asked")
      BY <2>3, <3>1 DEF WaitsFor
    <3>3. RxRequest(d)' \in {"RX", "RXV2"}
      BY DEF RxRequest
    <3> QED
      BY <2>2, <3>2, <3>3 DEF Moves, Protocol!NextRequest, Protocol!RequestKinds
  <2>9. CASE /\ \E t : fq' = fq_add(fq, t, Rx_CCA_meas, d)
             /\ \E c : cca_a' = [cca_a EXCEPT ![d] = StartedCca(c)]
    <3>1. fq'[d].index = Rx_CCA_meas
      BY <2>4, <2>9
    <3>2. cca_a'[d].n_meas = 0
      BY <2>9 DEF StartedCca, StateOK
    <3>3. On' => Pending(d)' = Protocol!Waiting("CCA_MEAS", "asked")
      BY <2>3, <3>1, <3>2 DEF WaitsFor
    <3> QED
      BY <2>2, <3>3 DEF Moves, Protocol!NextRequest, Protocol!RequestKinds
  <2> QED
    BY <1>3, <2>1, <2>5, <2>6, <2>7, <2>8, <2>9
<1> QED
  BY <1>1, <1>2, <1>3

(***************************************************************************)
(* A device that leaves, or breaks the exchange, in a reevaluation.        *)
(***************************************************************************)
LEMMA LeavesObeys ==
  ASSUME NEW d \in Dev, Called(d), NEW msgs, Reevaluates(d, msgs), msgs # <<>>,
         Pending(d).request \in {"TX", "RX", "RXV2", "CCA_MEAS"},
         \/ phase' = "error"
         \/ fq' = fq_remove(fq, d),
         sent' = msgs
  PROVE  Obeys(d)
<1>1. Pending(d)' = Protocol!Gone \/ Pending(d)' = Protocol!Over
  BY RemovedMoves, OverAtTheEnd DEF Called
<1> QED
  BY <1>1 DEF Obeys, Tells

(***************************************************************************)
(* The response to a request that is over, or to an address found.         *)
(***************************************************************************)
LEMMA ResponseObeys ==
  ASSUME NEW d \in Dev, NEW pre, Reevaluates(d, pre),
         pre # <<>> => Pending(d).request \in {"TX", "RX", "RXV2", "CCA_MEAS"},
         NEW m \in Message, m.to = d, sent' = Append(pre, m), Moves(Pending(d)'),
         Protocol!Response(m.msg, m.status) \in Protocol!Complete(Pending(d))
  PROVE  Obeys(d)
BY DEF Obeys, Tells

LEMMA GoesOnObeys ==
  ASSUME NEW d \in Dev, NEW pre, Reevaluates(d, pre),
         pre # <<>> => Pending(d).request \in {"TX", "RX", "RXV2", "CCA_MEAS"},
         sent' = pre, Goes(Pending(d), Pending(d)')
  PROVE  Obeys(d)
BY DEF Obeys, Tells

LEMMA OneMessage ==
  ASSUME NEW m
  PROVE  <<m>> = Append(<<>>, m)
OBVIOUS

LEMMA MsgFields ==
  ASSUME InTime, NEW d \in Dev, NEW text \in Text, NEW status \in RxStatus
  PROVE  /\ Msg(d, text, status) \in Message /\ Msg(d, text, status).to = d
         /\ Protocol!Response(Msg(d, text, status).msg, Msg(d, text, status).status)
              = Protocol!Response(text, status)
BY MsgType DEF Msg

LEMMA WaitObeys ==
  ASSUME NEW d \in Dev, Called(d),
         \/ fq[d].index = Wait_Done /\ f_wait_done(d)
         \/ fq[d].index = RSSI_Meas /\ f_RSSI_meas(d)
  PROVE  Obeys(d)
<1>1. PICK text \in {"WAIT_END", "RSSI_END"} :
        /\ text = "WAIT_END" => fq[d].index = Wait_Done
        /\ text = "RSSI_END" => fq[d].index = RSSI_Meas
        /\ NextRequest(d, <<Msg(d, text, "none")>>)
  BY DEF f_wait_done, f_RSSI_meas
<1>2. /\ sent' = Append(<<>>, Msg(d, text, "none")) /\ Moves(Pending(d)')
  <2>1. rx_a[d] \in rx_status_t
    BY DEF Called, StateOK
  <2> QED
    BY <1>1, <2>1, CalledWaits, NextRequestMoves, OneMessage DEF Called, NextRequest
<1>3. /\ Msg(d, text, "none") \in Message /\ Msg(d, text, "none").to = d
      /\ Protocol!Response(Msg(d, text, "none").msg, Msg(d, text, "none").status)
           = Protocol!Response(text, "none")
  BY MsgFields DEF Called, Text, RxStatus
<1>4. Protocol!Response(text, "none") \in Protocol!Complete(Pending(d))
  <2>1. CASE text = "WAIT_END"
    <3>1. Pending(d) = Protocol!Waiting("WAIT", "asked")
      BY <1>1, <2>1, CalledWaits DEF WaitsFor
    <3> QED
      BY <2>1, <3>1 DEF Protocol!Complete, Protocol!Waiting
  <2>2. CASE text = "RSSI_END"
    <3>1. Pending(d) = Protocol!Waiting("RSSIMEAS", "asked")
      BY <1>1, <2>2, CalledWaits DEF WaitsFor
    <3> QED
      BY <2>2, <3>1 DEF Protocol!Complete, Protocol!Waiting
  <2> QED
    BY <1>1, <2>1, <2>2
<1> QED
  BY <1>2, <1>3, <1>4, NothingReevaluates, ResponseObeys

------------------------------------------------------------------------------
(***************************************************************************)
(* A transmission.                                                         *)
(***************************************************************************)
LEMMA TxEventQueued ==
  \A t, u : tx_schedule_next_event(t, u).index \in TxQueued
BY TxEventIndex DEF Event

LEMMA TxGoesOn ==
  ASSUME NEW d \in Dev, Called(d), fq[d].index \in TxQueued \cup {Tx_Start},
         phase' = phase, nbr_active_devs' = nbr_active_devs,
         fq'[d].index \in TxQueued,
         NEW pre, Reevaluates(d, pre), sent' = pre
  PROVE  Obeys(d)
<1>1. /\ Pending(d) = TxWait \/ Pending(d) = Protocol!Waiting("TX", "asked")
      /\ On' /\ Pending(d)' = TxWait
  BY CalledWaits DEF WaitsFor, On
<1>2. Goes(Pending(d), Pending(d)') /\ Pending(d).request = "TX"
  BY <1>1 DEF Goes, TxWait, Protocol!Waiting
<1> QED
  BY <1>2, GoesOnObeys

LEMMA TxObeys ==
  ASSUME NEW d \in Dev, Called(d), Keeps(d),
         \/ fq[d].index = Tx_Start /\ f_tx_start(d)
         \/ fq[d].index = Tx_Packet_Start /\ f_tx_packet_start(d)
         \/ fq[d].index = Tx_Packet_End /\ f_tx_packet_end(d)
  PROVE  Obeys(d)
<1>1. /\ phase' = phase /\ nbr_active_devs' = nbr_active_devs /\ sent' = <<>>
      /\ \E t, u : fq'[d] = tx_schedule_next_event(t, u)
  <2>1. /\ phase' = phase /\ nbr_active_devs' = nbr_active_devs /\ sent' = <<>>
        /\ \E q, t, u : /\ fq' = [q EXCEPT ![d] = tx_schedule_next_event(t, u)]
                        /\ DOMAIN q = Dev
    <3>1. fq \in [Dev -> Entry]
      BY DEF Called, StateOK
    <3>2. \A t : DOMAIN ActivatedFq(t) = Dev
      BY DEF ActivatedFq
    <3>3. CASE f_tx_start(d)
      <4>1. PICK u, t :
              fq' = [IF t.start_packet_time <= current_time
                     THEN ActivatedFq(t) ELSE fq
                       EXCEPT ![d] = tx_schedule_next_event(t, u)]
        BY <3>3, Zenon DEF f_tx_start
      <4>2. DOMAIN (IF t.start_packet_time <= current_time
                    THEN ActivatedFq(t) ELSE fq) = Dev
        BY <3>1, <3>2
      <4> QED
        BY <3>3, <4>1, <4>2, Zenon DEF f_tx_start
    <3>4. CASE f_tx_packet_start(d)
      BY <3>2, <3>4, Zenon DEF f_tx_packet_start
    <3>5. CASE f_tx_packet_end(d)
      <4>1. DOMAIN fq = Dev
        BY <3>1
      <4> QED
        BY <3>5, <4>1, Zenon DEF f_tx_packet_end
    <3> QED
      BY <3>3, <3>4, <3>5
  <2> QED
    BY <2>1, Zenon
<1>2. fq'[d].index \in TxQueued
  BY <1>1, TxEventQueued
<1>3. fq[d].index \in TxQueued \cup {Tx_Start}
  BY DEF TxQueued
<1> QED
  BY <1>1, <1>2, <1>3, NothingReevaluates, TxGoesOn

LEMMA TxEndObeys ==
  ASSUME NEW d \in Dev, Called(d), fq[d].index = Tx_End, f_tx_end(d)
  PROVE  Obeys(d)
<1> DEFINE m == Msg(d, "TX_END", "none")
<1>1. sent' = Append(<<>>, m) /\ Moves(Pending(d)')
  <2>1. rx_a[d] \in rx_status_t
    BY DEF Called, StateOK
  <2>2. \E n : p2G4_handle_next_request(d, txl_clear(used, d), n, rx_a[d], cca_a[d],
                                        <<m>>)
    BY Zenon DEF f_tx_end
  <2> HIDE DEF m
  <2> QED
    BY <2>1, <2>2, CalledWaits, NextRequestMoves, OneMessage DEF Called
<1>2. /\ m \in Message /\ m.to = d
      /\ Protocol!Response(m.msg, m.status) = Protocol!Response("TX_END", "none")
  BY MsgFields DEF Called, Text, RxStatus
<1>3. Protocol!Response("TX_END", "none") \in Protocol!Complete(Pending(d))
  <2>1. Pending(d) = TxWait
    BY CalledWaits DEF WaitsFor, TxQueued
  <2> QED
    BY <2>1 DEF Protocol!Complete, Protocol!Waiting, TxWait
<1> HIDE DEF m
<1> QED
  BY <1>1, <1>2, <1>3, NothingReevaluates, ResponseObeys

LEMMA TxAbortReevalObeys ==
  ASSUME NEW d \in Dev, Called(d), fq[d].index = Tx_Abort_Reeval,
         f_tx_abort_reeval(d)
  PROVE  Obeys(d)
<1>1. PICK n_imm \in 0 .. MaxImmRssi :
        /\ sent' = Reevaluation(d, n_imm)
        /\ \/ phase' = "error"
           \/ fq' = fq_remove(fq, d)
           \/ /\ \E t, u : fq' = [fq EXCEPT ![d] = tx_schedule_next_event(t, u)]
              /\ phase' = phase /\ nbr_active_devs' = nbr_active_devs
  BY Zenon DEF f_tx_abort_reeval, Exit
<1>2. Reevaluates(d, sent') /\ sent' # <<>>
  BY <1>1, ReevaluationReevaluates, LimitsAssumption DEF Called
<1>3. Pending(d).request = "TX" /\ fq[d].index \in TxQueued
  <2>1. fq[d].index \in TxQueued
    BY DEF TxQueued
  <2> QED
    BY <2>1, CalledWaits DEF WaitsFor, TxWait, Protocol!Waiting
<1>4. CASE phase' = "error" \/ fq' = fq_remove(fq, d)
  BY <1>2, <1>3, <1>4, LeavesObeys
<1>5. CASE /\ \E t, u : fq' = [fq EXCEPT ![d] = tx_schedule_next_event(t, u)]
           /\ phase' = phase /\ nbr_active_devs' = nbr_active_devs
  <2>1. fq'[d].index \in TxQueued
    BY <1>5, TxEventQueued DEF Called, StateOK
  <2> QED
    BY <1>2, <1>3, <1>5, <2>1, TxGoesOn
<1> QED
  BY <1>1, <1>4, <1>5

------------------------------------------------------------------------------
(***************************************************************************)
(* A CCA search: it has started once it has measured.                      *)
(***************************************************************************)
LEMMA CcaObeys ==
  ASSUME NEW d \in Dev, Called(d), fq[d].index = Rx_CCA_meas,
         current_time = fq[d].time, Timely(d), f_cca_meas(d)
  PROVE  Obeys(d)
<1> USE DEF Called
<1>1. PICK msgs \in CcaMsgs(d) :
        \/ CcaRecheckDue(d) /\ phase' = "error" /\ sent' = msgs
        \/ CcaRecheckDue(d) /\ fq' = fq_remove(fq, d) /\ sent' = msgs
        \/ \E cca0 \in CcaRechecked(d) : \E cca \in Measurements(cca0) :
             \/ p2G4_handle_next_request(d, used, max_tx_nbr, rx_a[d], cca,
                                         Append(msgs, Msg(d, "CCA_END", "none")))
             \/ /\ current_time < cca.scan_end
                /\ cca_a' = [cca_a EXCEPT ![d] = cca]
                /\ fq' = [fq EXCEPT ![d] = NextCcaEvent(cca)]
                /\ sent' = msgs
                /\ UNCHANGED <<nbr_active_devs, phase>>
  BY Zenon DEF f_cca_meas, Exit
<1>2. /\ Reevaluates(d, msgs) /\ (CcaRecheckDue(d) => msgs # <<>>)
      /\ rx_a[d] \in rx_status_t
  BY RecheckReevaluates DEF StateOK
<1>3. PICK stage \in {"asked", "started"} :
        Pending(d) = Protocol!Waiting("CCA_MEAS", stage)
  BY CalledWaits DEF WaitsFor
<1>4. Pending(d).request = "CCA_MEAS" /\ Pending(d).stage = stage
  BY <1>3 DEF Protocol!Waiting
<1>5. CASE /\ CcaRecheckDue(d) /\ sent' = msgs
           /\ phase' = "error" \/ fq' = fq_remove(fq, d)
  BY <1>2, <1>4, <1>5, LeavesObeys
<1>6. ASSUME NEW cca0 \in CcaRechecked(d), NEW cca \in Measurements(cca0),
             p2G4_handle_next_request(d, used, max_tx_nbr, rx_a[d], cca,
                                      Append(msgs, Msg(d, "CCA_END", "none")))
      PROVE  Obeys(d)
  <2> DEFINE m == Msg(d, "CCA_END", "none")
  <2>1. sent' = Append(msgs, m) /\ Moves(Pending(d)')
    BY <1>2, <1>6, CalledWaits, NextRequestMoves
  <2>2. /\ m \in Message /\ m.to = d
        /\ Protocol!Response(m.msg, m.status) = Protocol!Response("CCA_END", "none")
    BY MsgFields DEF Text, RxStatus
  <2>3. Protocol!Response("CCA_END", "none") \in Protocol!Complete(Pending(d))
    BY <1>4 DEF Protocol!Complete
  <2> HIDE DEF m
  <2> QED
    BY <1>2, <1>4, <2>1, <2>2, <2>3, ResponseObeys
<1>7. ASSUME NEW cca0 \in CcaRechecked(d), NEW cca \in Measurements(cca0),
             current_time < cca.scan_end,
             cca_a' = [cca_a EXCEPT ![d] = cca],
             fq' = [fq EXCEPT ![d] = NextCcaEvent(cca)], sent' = msgs,
             UNCHANGED <<nbr_active_devs, phase>>
      PROVE  Obeys(d)
  <2>1. cca.n_meas # 0
    BY RecheckedCca, MeasuredInScan
  <2>2. fq'[d].index = Rx_CCA_meas /\ cca_a'[d] = cca /\ On'
    BY <1>7 DEF NextCcaEvent, Event, StateOK, On
  <2>3. Pending(d)' = Protocol!Waiting("CCA_MEAS", "started")
    BY <2>1, <2>2, CalledWaits DEF WaitsFor
  <2>4. Goes(Pending(d), Pending(d)')
    BY <1>3, <2>3 DEF Goes, Protocol!Waiting
  <2> QED
    BY <1>2, <1>4, <1>7, <2>4, GoesOnObeys
<1> QED
  BY <1>1, <1>5, <1>6, <1>7

------------------------------------------------------------------------------
(***************************************************************************)
(* A reception.  Its request stays the one of its API version.             *)
(***************************************************************************)
LEMMA ApiKept ==
  ASSUME NEW rx \in rx_status_t
  PROVE  /\ \A s : [rx EXCEPT !.state = s].v1_request = rx.v1_request
         /\ \A s : [rx EXCEPT !.status = s].v1_request = rx.v1_request
         /\ \A i, s : [rx EXCEPT !.tx_nbr = i, !.state = s].v1_request = rx.v1_request
         /\ \A t : Locked(rx, t).v1_request = rx.v1_request
         /\ prelock_check(rx).v1_request = rx.v1_request
         /\ \A a, s : Reevaluated(rx, a, s).v1_request = rx.v1_request
         /\ \A a : [rx EXCEPT !.rx_s.abort = a].v1_request = rx.v1_request
         /\ \A r \in BitErrorCalc(rx) : r.v1_request = rx.v1_request
         /\ \A t, s : [rx EXCEPT !.rx_time_stamp = t, !.status = "NOSYNC",
                                 !.state = s].v1_request = rx.v1_request
         /\ \A t, s : [rx EXCEPT !.biterrors = 0, !.rx_time_stamp = t,
                                 !.status = s].v1_request = rx.v1_request
<1>1. /\ \A s : [rx EXCEPT !.state = s].v1_request = rx.v1_request
      /\ \A s : [rx EXCEPT !.status = s].v1_request = rx.v1_request
      /\ \A i, s : [rx EXCEPT !.tx_nbr = i, !.state = s].v1_request = rx.v1_request
  BY Zenon DEF rx_status_t
<1>2. \A t : Locked(rx, t).v1_request = rx.v1_request
  BY Zenon DEF Locked, rx_status_t
<1>3. prelock_check(rx).v1_request = rx.v1_request
  BY Zenon DEF prelock_check, rx_status_t
<1>4. /\ \A a, s : Reevaluated(rx, a, s).v1_request = rx.v1_request
      /\ \A a : [rx EXCEPT !.rx_s.abort = a].v1_request = rx.v1_request
  BY Zenon DEF Reevaluated, rx_status_t
<1>5. \A r \in BitErrorCalc(rx) : r.v1_request = rx.v1_request
  BY Zenon DEF BitErrorCalc, rx_status_t
<1>6. /\ \A t, s : [rx EXCEPT !.rx_time_stamp = t, !.status = "NOSYNC",
                              !.state = s].v1_request = rx.v1_request
      /\ \A t, s : [rx EXCEPT !.biterrors = 0, !.rx_time_stamp = t,
                              !.status = s].v1_request = rx.v1_request
  BY Zenon DEF rx_status_t
<1> QED
  BY <1>1, <1>2, <1>3, <1>4, <1>5, <1>6

LEMMA RecheckedApi ==
  ASSUME StateOK, InTime, NEW d \in Dev, NEW scanning \in BOOLEAN,
         NEW rx \in Rechecked(d, scanning)
  PROVE  rx \in rx_status_t /\ rx.v1_request = rx_a[d].v1_request
<1>1. rx_a[d] \in rx_status_t /\ rx \in rx_status_t
  BY RecheckedType DEF StateOK
<1> QED
  BY <1>1, ApiKept DEF Rechecked

RxStage(i) ==
  IF i = Rx_Search_start THEN "asked"
  ELSE IF i \in {Rx_Header, Rx_Payload} THEN "found" ELSE "started"

RxWait(d, i) == Protocol!Waiting(RxRequest(d), RxStage(i))

LEMMA RxWaits ==
  ASSUME NEW d \in Dev, Called(d)
  PROVE  /\ fq[d].index \in RxEvents => Pending(d) = RxWait(d, fq[d].index)
         /\ On' /\ fq'[d].index \in RxEvents =>
              Pending(d)' = Protocol!Waiting(RxRequest(d)', RxStage(fq'[d].index))
         /\ RxRequest(d) \in {"RX", "RXV2"}
<1>1. /\ Rx_Search_start \notin {Rx_Search_reeval, Rx_Found, Rx_Sync}
      /\ Rx_Search_start \notin {Rx_Header, Rx_Payload}
      /\ {Rx_Header, Rx_Payload} \cap {Rx_Search_reeval, Rx_Found, Rx_Sync} = {}
  BY DEF Rx_Search_start, Rx_Search_reeval, Rx_Found, Rx_Sync, Rx_Header, Rx_Payload
<1>2. /\ WaitsFor(d) /\ On /\ d < boot_d /\ WaitsFor(d)' /\ d < boot_d'
      /\ RxRequest(d) \in {"RX", "RXV2"}
  BY CalledWaits DEF RxRequest
<1>3. fq[d].index \in RxEvents => Pending(d) = RxWait(d, fq[d].index)
  BY <1>1, <1>2 DEF WaitsFor, RxEvents, RxWait, RxStage
<1>4. On' /\ fq'[d].index \in RxEvents =>
        Pending(d)' = Protocol!Waiting(RxRequest(d)', RxStage(fq'[d].index))
  BY <1>1, <1>2 DEF WaitsFor, RxEvents, RxStage
<1> QED
  BY <1>2, <1>3, <1>4

(***************************************************************************)
(* From one event of a reception to the next.                              *)
(***************************************************************************)
LEMMA ContinueObeys ==
  ASSUME NEW d \in Dev, Called(d), fq[d].index \in RxEvents,
         NEW rx, rx.v1_request = rx_a[d].v1_request, NEW e, e.index \in RxEvents,
         \/ RxStage(e.index) = RxStage(fq[d].index)
         \/ RxStage(fq[d].index) # "found" /\ RxStage(e.index) # "found",
         NEW msgs, Reevaluates(d, msgs), Continue(d, rx, e, msgs)
  PROVE  Obeys(d)
<1>1. rx_a'[d] = rx /\ fq'[d] = e /\ sent' = msgs /\ On'
  BY DEF Continue, Called, StateOK, On
<1>2. RxRequest(d)' = RxRequest(d)
  BY <1>1 DEF RxRequest
<1>3. /\ Pending(d) = RxWait(d, fq[d].index)
      /\ Pending(d)' = RxWait(d, e.index)
      /\ RxRequest(d) \in {"RX", "RXV2"}
  BY <1>1, <1>2, RxWaits DEF RxWait
<1>4. Goes(Pending(d), Pending(d)') /\ Pending(d).request \in {"RX", "RXV2"}
  BY <1>3 DEF Goes, RxWait, RxStage, Protocol!Waiting
<1> QED
  BY <1>1, <1>4, GoesOnObeys

LEMMA RecheckEndsObey ==
  ASSUME NEW d \in Dev, Called(d), fq[d].index \in RxEvents,
         NEW msgs \in RecheckMsgs(d),
         RecheckExits(d, msgs) \/ \E rx : RecheckLeaves(d, rx, msgs)
  PROVE  Obeys(d)
<1>1. Reevaluates(d, msgs) /\ msgs # <<>>
  BY RecheckReevaluates DEF Called, RecheckExits, RecheckLeaves
<1>2. Pending(d).request \in {"RX", "RXV2"}
  BY RxWaits DEF RxWait, Protocol!Waiting
<1>3. /\ sent' = msgs
      /\ phase' = "error" \/ fq' = fq_remove(fq, d)
  BY Zenon DEF RecheckExits, RecheckLeaves, Exit
<1> QED
  BY <1>1, <1>2, <1>3, LeavesObeys

LEMMA RxDoneObeys ==
  ASSUME NEW d \in Dev, Called(d), fq[d].index \in RxEvents,
         NEW rx \in rx_status_t, rx.v1_request = rx_a[d].v1_request,
         rx.status \in IF RxStage(fq[d].index) = "found"
                       THEN {"HEADER_ERROR", "PACKET_CONTENT_ERROR", "OK"}
                       ELSE {"NOSYNC"},
         NEW msgs, Reevaluates(d, msgs), RxDone(d, rx, msgs)
  PROVE  Obeys(d)
<1> DEFINE m == rx_respond_done(d, rx)
<1>1. sent' = Append(msgs, m) /\ Moves(Pending(d)')
  BY CalledWaits, NextRequestMoves DEF Called, RxDone
<1>2. /\ m \in Message /\ m.to = d /\ m.status = rx.status
      /\ m.msg = IF RxRequest(d) = "RX" THEN "RX_END" ELSE "RXV2_END"
  BY RxRespondType DEF Called, rx_respond_done, Msg, RxRequest
<1> HIDE DEF m
<1>3. Pending(d) = RxWait(d, fq[d].index) /\ RxRequest(d) \in {"RX", "RXV2"}
  BY RxWaits
<1>4. Pending(d).request = RxRequest(d) /\ Pending(d).stage = RxStage(fq[d].index)
  BY <1>3 DEF RxWait, Protocol!Waiting
<1>5. Protocol!Response(m.msg, m.status) \in Protocol!Complete(Pending(d))
  BY <1>2, <1>3, <1>4 DEF Protocol!Complete
<1> QED
  BY <1>1, <1>2, <1>3, <1>4, <1>5, ResponseObeys

LEMMA ScanEndedObeys ==
  ASSUME NEW d \in Dev, Called(d), fq[d].index \in RxEvents,
         RxStage(fq[d].index) # "found",
         NEW rx \in rx_status_t, rx.v1_request = rx_a[d].v1_request,
         NEW msgs, Reevaluates(d, msgs), rx_scan_ended(d, rx, msgs)
  PROVE  Obeys(d)
<1> DEFINE r == [rx EXCEPT !.rx_time_stamp = current_time, !.status = "NOSYNC",
                           !.state = NotSearching]
<1>1. r \in rx_status_t
  BY NowType, StatusTypes DEF RxStatus, Called
<1>2. r.v1_request = rx_a[d].v1_request /\ r.status = "NOSYNC"
  BY Zenon DEF rx_status_t
<1>3. RxDone(d, r, msgs)
  BY DEF rx_scan_ended
<1> HIDE DEF r
<1> QED
  BY <1>1, <1>2, <1>3, RxDoneObeys

LEMMA EnqueueSearchObeys ==
  ASSUME NEW d \in Dev, Called(d), fq[d].index \in RxEvents,
         RxStage(fq[d].index) # "found",
         NEW rx \in rx_status_t, rx.v1_request = rx_a[d].v1_request,
         NEW msgs, Reevaluates(d, msgs), rx_enqueue_search_reeval(d, rx, msgs)
  PROVE  Obeys(d)
<1> DEFINE r == [rx EXCEPT !.state = Searching]
           e == Event(BSMin(After(rx.scan_end), rx.rx_s.abort.recheck_time),
                      Rx_Search_reeval)
<1>1. Continue(d, r, e, msgs)
  BY DEF rx_enqueue_search_reeval
<1>2. r.v1_request = rx_a[d].v1_request
  BY ApiKept
<1>3. e.index \in RxEvents /\ RxStage(e.index) # "found"
  BY DEF Event, RxEvents, RxStage, Rx_Search_reeval, Rx_Search_start, Rx_Header,
         Rx_Payload
<1> HIDE DEF r, e
<1> QED
  BY <1>1, <1>2, <1>3, ContinueObeys

LEMMA NextSyncObeys ==
  ASSUME NEW d \in Dev, Called(d), fq[d].index \in RxEvents,
         RxStage(fq[d].index) # "found",
         NEW rx, rx.v1_request = rx_a[d].v1_request,
         NEW msgs, Reevaluates(d, msgs), NEW e,
         e.index \in {Rx_Sync, Rx_Search_start}, Continue(d, rx, e, msgs)
  PROVE  Obeys(d)
<1>1. e.index \in RxEvents /\ RxStage(e.index) # "found"
  BY DEF RxEvents, RxStage, Rx_Sync, Rx_Search_start, Rx_Header, Rx_Payload
<1> QED
  BY <1>1, ContinueObeys

LEMMA RxFoundObeys ==
  ASSUME NEW d \in Dev, Called(d), fq[d].index \in RxEvents,
         RxStage(fq[d].index) # "found",
         NEW rx \in rx_status_t, rx.v1_request = rx_a[d].v1_request,
         NEW msgs, Reevaluates(d, msgs), RxFound(d, rx, msgs)
  PROVE  Obeys(d)
<1>1. \/ \E t : Continue(d, Locked(rx, t), NextSync(Locked(rx, t)), msgs)
      \/ rx_enqueue_search_reeval(d, rx, msgs)
  BY Zenon DEF RxFound
<1>2. \A t : NextSync(Locked(rx, t)).index = Rx_Sync
  BY DEF NextSync, Event
<1>3. \A t : Locked(rx, t).v1_request = rx_a[d].v1_request
  BY ApiKept
<1> QED
  BY <1>1, <1>2, <1>3, NextSyncObeys, EnqueueSearchObeys

LEMMA SearchStartObeys ==
  ASSUME NEW d \in Dev, Called(d), fq[d].index = Rx_Search_start,
         NEW rx \in rx_status_t, rx.v1_request = rx_a[d].v1_request,
         NEW msgs, Reevaluates(d, msgs), SearchStart(d, rx, msgs)
  PROVE  Obeys(d)
<1>1. fq[d].index \in RxEvents /\ RxStage(fq[d].index) # "found"
  BY DEF RxEvents, RxStage
<1>2. /\ prelock_check(rx) \in rx_status_t
      /\ prelock_check(rx).v1_request = rx_a[d].v1_request
  BY PrelockType, ApiKept
<1>3. ASSUME NEW i \in Dev,
             RxFound(d, [rx EXCEPT !.tx_nbr = i, !.state = NotSearching], msgs)
      PROVE  Obeys(d)
  <2> DEFINE r == [rx EXCEPT !.tx_nbr = i, !.state = NotSearching]
  <2>1. r \in rx_status_t
    <3>1. i \in DevOrNone
      BY DEF DevOrNone
    <3> QED
      BY <3>1, FoundType
  <2>2. r.v1_request = rx_a[d].v1_request
    BY ApiKept
  <2>3. RxFound(d, r, msgs)
    BY <1>3
  <2> HIDE DEF r
  <2> QED
    BY <1>1, <2>1, <2>2, <2>3, RxFoundObeys
<1> QED
  BY <1>1, <1>2, <1>3, SearchStartFinds, EnqueueSearchObeys

LEMMA SearchObeys ==
  ASSUME NEW d \in Dev, Called(d),
         \/ fq[d].index = Rx_Search_start /\ f_rx_search_start(d)
         \/ fq[d].index = Rx_Search_reeval /\ f_rx_search_reeval(d)
  PROVE  Obeys(d)
<1>1. /\ fq[d].index \in RxEvents /\ RxStage(fq[d].index) # "found"
      /\ Rx_Search_reeval # Rx_Search_start
  BY DEF RxEvents, RxStage, Rx_Search_start, Rx_Search_reeval, Rx_Header, Rx_Payload
<1>2. PICK msgs \in RecheckMsgs(d) :
        \/ RecheckExits(d, msgs)
        \/ \E rx : RecheckLeaves(d, rx, msgs)
        \/ \E rx \in Rechecked(d, TRUE) :
             \/ fq[d].index = Rx_Search_start /\ SearchStart(d, rx, msgs)
             \/ rx_scan_ended(d, rx, msgs)
             \/ rx_enqueue_search_reeval(d, rx, msgs)
  BY Zenon DEF f_rx_search_start, f_rx_search_reeval
<1>3. \A rx \in Rechecked(d, TRUE) :
        rx \in rx_status_t /\ rx.v1_request = rx_a[d].v1_request
  BY RecheckedApi DEF Called
<1>4. Reevaluates(d, msgs)
  BY RecheckReevaluates DEF Called
<1> QED
  BY <1>1, <1>2, <1>3, <1>4, RecheckEndsObey, SearchStartObeys, ScanEndedObeys,
     EnqueueSearchObeys

------------------------------------------------------------------------------
(***************************************************************************)
(* The device hears that its address was found, after at most one          *)
(* reevaluation.                                                           *)
(***************************************************************************)
LEMMA SyncDoneObeys ==
  ASSUME NEW d \in Dev, Called(d), fq[d].index = Rx_Sync,
         NEW rx0 \in rx_status_t, rx0.v1_request = rx_a[d].v1_request,
         NEW msgs0, Reevaluates(d, msgs0), SyncDone(d, rx0, msgs0)
  PROVE  Obeys(d)
<1> DEFINE rx == [rx0 EXCEPT !.biterrors = 0, !.rx_time_stamp = rx0.sync_end,
                             !.status = "INPROGRESS"]
           m == rx_resp_addr_found(d, rx)
           cont(a) == [rx EXCEPT !.rx_s.abort = a]
<1>1. rx \in rx_status_t /\ rx.status = "INPROGRESS"
  <2>1. rx0.sync_end \in Nat
    BY DEF rx_status_t
  <2>2. rx \in rx_status_t
    BY <2>1, StatusTypes DEF RxStatus
  <2>3. rx.status = "INPROGRESS"
    BY Zenon DEF rx_status_t
  <2> QED
    BY <2>2, <2>3
<1>2. rx.v1_request = rx_a[d].v1_request
  BY ApiKept
<1>3. \/ fq' = fq_remove(fq, d) /\ sent' = Append(msgs0, m)
      \/ nbr_active_devs' = 0 /\ sent' = Append(msgs0, m)
      \/ Continue(d, rx, AfterSync(rx), Append(msgs0, m))
      \/ \E a : Continue(d, cont(a), AfterSync(rx), Append(msgs0, m))
      \/ phase' = "error" /\ sent' = Append(msgs0, m)
      \/ p2G4_handle_next_request(d, used, max_tx_nbr, rx, cca_a[d],
                                  Append(msgs0, m))
  BY Zenon DEF SyncDone, Exit
<1> HIDE DEF rx
<1>4. \A a : cont(a).v1_request = rx_a[d].v1_request
  BY <1>1, <1>2, ApiKept
<1>5. /\ m \in Message /\ m.to = d /\ m.status = "INPROGRESS"
      /\ m.msg = IF RxRequest(d) = "RX" THEN "RX_ADDRESSFOUND"
                 ELSE "RXV2_ADDRESSFOUND"
  BY <1>1, <1>2, RxRespondType DEF Called, rx_resp_addr_found, Msg, RxRequest
<1> HIDE DEF m, cont
<1>6. /\ Pending(d) = RxWait(d, Rx_Sync) /\ RxRequest(d) \in {"RX", "RXV2"}
      /\ RxStage(Rx_Sync) = "started"
  BY RxWaits DEF RxStage, RxEvents, Rx_Sync, Rx_Search_start, Rx_Header, Rx_Payload
<1>7. Pending(d).request = RxRequest(d) /\ Pending(d).stage = "started"
  BY <1>6 DEF RxWait, Protocol!Waiting
<1>8. Protocol!Response(m.msg, m.status) \in Protocol!AddressFound(Pending(d))
  BY <1>5, <1>6, <1>7 DEF Protocol!AddressFound
<1>9. /\ sent' = Append(msgs0, m)
      /\ \/ Pending(d)' = Protocol!Waiting(Pending(d).request, "found")
         \/ Moves(Pending(d)')
  <2>1. CASE fq' = fq_remove(fq, d) /\ sent' = Append(msgs0, m)
    BY <2>1, CalledWaits, RemovedMoves DEF Called, Moves, Protocol!NextRequest
  <2>2. CASE /\ nbr_active_devs' = 0 \/ phase' = "error"
             /\ sent' = Append(msgs0, m)
    BY <2>2, CalledWaits, OverAtTheEnd DEF Called, Moves
  <2>3. ASSUME NEW r, r.v1_request = rx_a[d].v1_request,
               Continue(d, r, AfterSync(rx), Append(msgs0, m))
        PROVE  /\ sent' = Append(msgs0, m)
               /\ Pending(d)' = Protocol!Waiting(Pending(d).request, "found")
    <3>1. /\ sent' = Append(msgs0, m) /\ On' /\ rx_a'[d] = r
          /\ fq'[d] = AfterSync(rx)
      BY <2>3 DEF Continue, Called, StateOK, On
    <3>2. fq'[d].index \in {Rx_Header, Rx_Payload}
      BY <3>1 DEF AfterSync, Event
    <3>3. fq'[d].index \in RxEvents /\ RxStage(fq'[d].index) = "found"
      BY <3>2 DEF RxEvents, RxStage, Rx_Search_start, Rx_Header, Rx_Payload
    <3>4. RxRequest(d)' = RxRequest(d)
      BY <2>3, <3>1 DEF RxRequest
    <3> QED
      BY <1>7, <3>1, <3>3, <3>4, RxWaits
  <2>4. CASE p2G4_handle_next_request(d, used, max_tx_nbr, rx, cca_a[d],
                                      Append(msgs0, m))
    BY <1>1, <2>4, CalledWaits, NextRequestMoves DEF Called
  <2> QED
    BY <1>2, <1>3, <1>4, <2>1, <2>2, <2>3, <2>4
<1> QED
  BY <1>5, <1>6, <1>7, <1>8, <1>9 DEF Obeys, Tells

LEMMA SyncObeys ==
  ASSUME NEW d \in Dev, Called(d), fq[d].index = Rx_Sync, f_rx_sync(d)
  PROVE  Obeys(d)
<1>1. fq[d].index \in RxEvents /\ RxStage(fq[d].index) # "found"
  BY DEF RxEvents, RxStage, Rx_Sync, Rx_Search_start, Rx_Header, Rx_Payload
<1>2. PICK msgs \in RecheckMsgs(d) :
        \/ RecheckExits(d, msgs)
        \/ \E rx : RecheckLeaves(d, rx, msgs)
        \/ \E rx \in Rechecked(d, TRUE) : Sync(d, rx, msgs)
  BY Zenon DEF f_rx_sync
<1>3. Reevaluates(d, msgs)
  BY RecheckReevaluates DEF Called
<1>4. ASSUME NEW rx \in Rechecked(d, TRUE), Sync(d, rx, msgs)
      PROVE  Obeys(d)
  <2>1. rx \in rx_status_t /\ rx.v1_request = rx_a[d].v1_request
    BY RecheckedApi DEF Called
  <2>2. \/ rx_scan_ended(d, rx, msgs)
        \/ \E r \in {rx} \cup BitErrorCalc(rx) :
             \E e : e.index \in {Rx_Sync, Rx_Search_start} /\ Continue(d, r, e, msgs)
        \/ \E r \in BitErrorCalc(rx) : SyncDone(d, r, msgs)
    <3>1. /\ NextSync(rx).index = Rx_Sync
          /\ Event(current_time + 1, Rx_Search_start).index = Rx_Search_start
          /\ Event(current_time + 1, Rx_Sync).index = Rx_Sync
      BY DEF NextSync, Event
    <3>2. \/ rx_scan_ended(d, rx, msgs)
          \/ Continue(d, rx, NextSync(rx), msgs)
          \/ SyncLost(d, rx, msgs)
          \/ \E r \in BitErrorCalc(rx) :
               \/ SyncLost(d, r, msgs)
               \/ SyncDone(d, r, msgs)
               \/ Continue(d, r, Event(current_time + 1, Rx_Sync), msgs)
      BY <1>4, Zenon DEF Sync
    <3>3. \A r : SyncLost(d, r, msgs) =>
                   Continue(d, r, Event(current_time + 1, Rx_Search_start), msgs)
      BY DEF SyncLost
    <3> QED
      BY <3>1, <3>2, <3>3
  <2>3. \A r \in {rx} \cup BitErrorCalc(rx) :
          r \in rx_status_t /\ r.v1_request = rx_a[d].v1_request
    BY <2>1, BitErrorCalcType, ApiKept DEF Called
  <2> QED
    BY <1>1, <1>3, <2>1, <2>2, <2>3, ScanEndedObeys, NextSyncObeys, SyncDoneObeys
<1> QED
  BY <1>1, <1>2, <1>4, RecheckEndsObey

LEMMA HeaderPayloadObeys ==
  ASSUME NEW d \in Dev, Called(d),
         \/ fq[d].index = Rx_Header /\ f_rx_header(d)
         \/ fq[d].index = Rx_Payload /\ f_rx_payload(d)
  PROVE  Obeys(d)
<1>1. fq[d].index \in RxEvents /\ RxStage(fq[d].index) = "found"
  BY DEF RxEvents, RxStage, Rx_Search_start, Rx_Header, Rx_Payload
<1>2. PICK msgs \in RecheckMsgs(d) :
        \/ RecheckExits(d, msgs)
        \/ \E rx : RecheckLeaves(d, rx, msgs)
        \/ \E rx0 \in Rechecked(d, FALSE) : \E rx \in BitErrorCalc(rx0) :
             Header(d, rx, msgs) \/ Payload(d, rx, msgs)
  BY Zenon DEF f_rx_header, f_rx_payload
<1>3. Reevaluates(d, msgs)
  BY RecheckReevaluates DEF Called
<1>4. ASSUME NEW rx0 \in Rechecked(d, FALSE), NEW rx \in BitErrorCalc(rx0),
             Header(d, rx, msgs) \/ Payload(d, rx, msgs)
      PROVE  Obeys(d)
  <2>1. rx \in rx_status_t /\ rx.v1_request = rx_a[d].v1_request
    <3>1. rx0 \in rx_status_t /\ rx0.v1_request = rx_a[d].v1_request
      BY RecheckedApi DEF Called
    <3> QED
      BY <3>1, BitErrorCalcType, ApiKept DEF Called
  <2>2. \/ \E s \in {"HEADER_ERROR", "PACKET_CONTENT_ERROR", "OK"} :
             RxDone(d, [rx EXCEPT !.status = s], msgs)
        \/ \E i \in {Rx_Header, Rx_Payload} :
             Continue(d, rx, Event(current_time + 1, i), msgs)
    BY <1>4, Zenon DEF Header, Payload
  <2>3. ASSUME NEW s \in {"HEADER_ERROR", "PACKET_CONTENT_ERROR", "OK"},
               RxDone(d, [rx EXCEPT !.status = s], msgs)
        PROVE  Obeys(d)
    <3> DEFINE r == [rx EXCEPT !.status = s]
    <3>1. r \in rx_status_t
      BY <2>1, StatusTypes DEF RxStatus
    <3>2. r.v1_request = rx_a[d].v1_request
      BY <2>1, ApiKept
    <3>3. r.status = s
      BY <2>1 DEF rx_status_t
    <3>4. RxDone(d, r, msgs)
      BY <2>3
    <3> HIDE DEF r
    <3> QED
      BY <1>1, <1>3, <3>1, <3>2, <3>3, <3>4, RxDoneObeys
  <2>4. ASSUME NEW i \in {Rx_Header, Rx_Payload},
               Continue(d, rx, Event(current_time + 1, i), msgs)
        PROVE  Obeys(d)
    <3>1. /\ Event(current_time + 1, i).index \in RxEvents
          /\ RxStage(Event(current_time + 1, i).index) = "found"
      BY DEF Event, RxEvents, RxStage, Rx_Search_start, Rx_Header, Rx_Payload
    <3> QED
      BY <1>1, <1>3, <2>1, <2>4, <3>1, ContinueObeys
  <2> QED
    BY <2>2, <2>3, <2>4
<1> QED
  BY <1>1, <1>2, <1>4, RecheckEndsObey

------------------------------------------------------------------------------
(***************************************************************************)
(* Every step of main() is a step of DeviceProtocol.                       *)
(***************************************************************************)
LEMMA QuietSteps ==
  ASSUME NEW p
  PROVE  /\ Protocol!Step(p, p, <<>>)
         /\ Protocol!Step(p, Protocol!Over, <<>>)
<1>1. Protocol!Reevaluation(p, <<>>)
  BY DEF Protocol!Reevaluation
<1>2. Protocol!GoOn(p, p, <<>>)
  BY <1>1 DEF Protocol!GoOn
<1>3. Protocol!BeOver(p, Protocol!Over, <<>>)
  BY <1>1 DEF Protocol!BeOver
<1> QED
  BY <1>2, <1>3 DEF Protocol!Step

LEMMA StepsMakeNext ==
  ASSUME NEW d, \A x \in Dev : Protocol!Step(Pending(x), Pending(x)', Heard(x)'),
         \A x \in Dev \ {d} : Heard(x)' = <<>>
  PROVE  Protocol!Next
<1> DEFINE pending == [x \in Dev |-> Pending(x)]
           heard == [x \in Dev |-> Heard(x)]
<1>1. \A x \in Dev : /\ pending[x] = Pending(x) /\ pending'[x] = Pending(x)'
                     /\ heard'[x] = Heard(x)'
  OBVIOUS
<1> HIDE DEF pending, heard
<1>2. \A x \in Dev : Protocol!Step(pending[x], pending'[x], heard'[x])
  BY <1>1
<1>3. \A x, y \in Dev : x = y \/ heard'[x] = <<>> \/ heard'[y] = <<>>
  BY <1>1
<1> QED
  BY <1>2, <1>3 DEF Protocol!Next, pending, heard

LEMMA NothingHeard ==
  sent' = <<>> => \A x \in Dev : Heard(x)' = <<>>
<1>1. DOMAIN <<>> = {}
  OBVIOUS
<1> QED
  BY <1>1 DEF Heard

(***************************************************************************)
(* A device whose event stays what it was waits for what it waited for.    *)
(***************************************************************************)
LEMMA StaysPending ==
  ASSUME NEW x \in Dev, boot_d \in Nat, boot_d' \in Nat,
         boot_d <= x <=> boot_d' <= x, On,
         fq'[x] = fq[x], rx_a'[x] = rx_a[x], cca_a'[x] = cca_a[x]
  PROVE  Pending(x)' = Pending(x) \/ Pending(x)' = Protocol!Over
<1>1. CASE ~On'
  BY <1>1, PendingAfter DEF WaitsFor
<1>2. CASE On'
  <2>1. RxRequest(x)' = RxRequest(x)
    BY DEF RxRequest
  <2>2. boot_d > x <=> boot_d' > x
    BY DEF Dev
  <2> QED
    BY <1>2, <2>1, <2>2, Zenon DEF Pending
<1> QED
  BY <1>1, <1>2

LEMMA MainLoopObeys ==
  ASSUME TimelyInv, MainLoop, NEW d \in Dev, d = next_d
  PROVE  /\ Called(d) /\ Obeys(d)
         /\ phase' = "error" \/ Elsewhere(d)
<1>1. /\ StateOK /\ InTime /\ On /\ phase = "running"
      /\ current_time = fq[d].time /\ Consistent(d) /\ Timely(d) /\ Handled
  BY MainLoopCalls
<1>2. Keeps(d)
  BY MainLoopKeeps
<1>3. Called(d)
  <2>1. boot_d = n_devs
    BY <1>1 DEF TimelyInv, IInv, BootInv, On
  <2> QED
    BY <1>1, <2>1, NDevsAssumption DEF Called, Dev, Handled
<1>4. Obeys(d)
  <2>1. CASE WaitDone \/ RSSIMeas \/ RxCCAMeas
    <3>1. \/ fq[d].index = Wait_Done /\ f_wait_done(d)
          \/ fq[d].index = RSSI_Meas /\ f_RSSI_meas(d)
          \/ fq[d].index = Rx_CCA_meas /\ f_cca_meas(d)
      BY <2>1, Zenon DEF WaitDone, RSSIMeas, RxCCAMeas, Call
    <3> QED
      BY <1>1, <1>3, <3>1, WaitObeys, CcaObeys
  <2>2. CASE RxSearchStart \/ RxSearchReeval
    <3>1. \/ fq[d].index = Rx_Search_start /\ f_rx_search_start(d)
          \/ fq[d].index = Rx_Search_reeval /\ f_rx_search_reeval(d)
      BY <2>2, Zenon DEF RxSearchStart, RxSearchReeval, Call
    <3> QED
      BY <1>3, <3>1, SearchObeys
  <2>3. CASE RxFoundStep
    <3>1. fq[d].index = Rx_Found /\ RxFound(d, rx_a[d], <<>>)
      BY <2>3, Zenon DEF RxFoundStep, Call, f_rx_found
    <3>2. /\ fq[d].index \in RxEvents /\ RxStage(fq[d].index) # "found"
          /\ rx_a[d] \in rx_status_t
      BY <1>1, <3>1
      DEF RxEvents, RxStage, Rx_Found, Rx_Search_start, Rx_Header, Rx_Payload,
          StateOK
    <3> QED
      BY <1>3, <3>1, <3>2, NothingReevaluates, RxFoundObeys
  <2>4. CASE RxSync \/ RxHeader \/ RxPayload
    <3>1. \/ fq[d].index = Rx_Sync /\ f_rx_sync(d)
          \/ fq[d].index = Rx_Header /\ f_rx_header(d)
          \/ fq[d].index = Rx_Payload /\ f_rx_payload(d)
      BY <2>4, Zenon DEF RxSync, RxHeader, RxPayload, Call
    <3> QED
      BY <1>3, <3>1, SyncObeys, HeaderPayloadObeys
  <2>5. CASE TxStart \/ TxPacketStart \/ TxPacketEnd
    <3>1. \/ fq[d].index = Tx_Start /\ f_tx_start(d)
          \/ fq[d].index = Tx_Packet_Start /\ f_tx_packet_start(d)
          \/ fq[d].index = Tx_Packet_End /\ f_tx_packet_end(d)
      BY <2>5, Zenon DEF TxStart, TxPacketStart, TxPacketEnd, Call
    <3> QED
      BY <1>2, <1>3, <3>1, TxObeys
  <2>6. CASE TxAbortReeval \/ TxEnd
    <3>1. \/ fq[d].index = Tx_Abort_Reeval /\ f_tx_abort_reeval(d)
          \/ fq[d].index = Tx_End /\ f_tx_end(d)
      BY <2>6, Zenon DEF TxAbortReeval, TxEnd, Call
    <3> QED
      BY <1>3, <3>1, TxAbortReevalObeys, TxEndObeys
  <2> QED
    BY <2>1, <2>2, <2>3, <2>4, <2>5, <2>6, Zenon DEF MainLoop
<1> QED
  BY <1>2, <1>3, <1>4 DEF Keeps

LEMMA MainLoopRefines ==
  ASSUME TimelyInv, MainLoop
  PROVE  Protocol!Next
<1>1. PICK d \in Dev : d = next_d
  BY DEF TimelyInv, IInv, TypeOK
<1>2. /\ Called(d) /\ Obeys(d)
      /\ phase' = "error" \/ Elsewhere(d)
  BY <1>1, MainLoopObeys
<1>3. /\ Protocol!Step(Pending(d), Pending(d)', Heard(d)')
      /\ \A x \in Dev \ {d} : Heard(x)' = <<>>
  BY <1>2, ObeysSteps
<1>4. ASSUME NEW x \in Dev \ {d}
      PROVE  Pending(x)' = Pending(x) \/ Pending(x)' = Protocol!Over
  <2>1. On /\ boot_d \in Nat /\ boot_d' = boot_d /\ x \in Dev /\ StateOK
    BY <1>2 DEF Called
  <2>2. Consistent(x)
    BY <1>1, <2>1, MainLoopCalls
  <2>3. CASE phase' = "error"
    BY <2>1, <2>3, OverAtTheEnd
  <2>4. CASE /\ fq'[x] = fq[x] /\ rx_a'[x] = rx_a[x] /\ cca_a'[x] = cca_a[x]
    BY <2>1, <2>4, StaysPending
  <2>5. CASE Activates(d, x)
    <3>1. fq[x].index = Rx_Search_reeval /\ fq'[x].index = Rx_Found
      BY <2>2, <2>5 DEF Activates, Consistent, Event
    <3>2. RxRequest(x)' = RxRequest(x)
      <4>1. rx_a[x] \in rx_status_t
        BY <2>1 DEF StateOK
      <4>2. rx_a'[x].v1_request = rx_a[x].v1_request
        BY <2>5, <4>1, ApiKept DEF Activates
      <4> QED
        BY <4>2 DEF RxRequest
    <3>3. CASE d < boot_d /\ x < boot_d /\ On'
      <4>1. WaitsFor(x) /\ WaitsFor(x)'
        BY <2>1, PendingByEvent, PendingAfter
      <4> QED
        BY <2>1, <3>1, <3>2, <3>3, <4>1 DEF WaitsFor
    <3>4. CASE ~On'
      BY <2>1, <3>4, PendingAfter DEF WaitsFor
    <3>5. CASE ~(x < boot_d) /\ On'
      <4>1. boot_d <= x /\ boot_d' <= x
        BY <2>1, <3>5 DEF Dev
      <4> QED
        BY <2>1, <3>5, <4>1, PendingByEvent, PendingAfter DEF WaitsFor
    <3> QED
      BY <1>2, <3>3, <3>4, <3>5 DEF Called
  <2> QED
    BY <1>2, <2>3, <2>4, <2>5 DEF Elsewhere
<1>5. \A x \in Dev : Protocol!Step(Pending(x), Pending(x)', Heard(x)')
  BY <1>3, <1>4, QuietSteps
<1> QED
  BY <1>3, <1>5, StepsMakeNext

LEMMA BootRefines ==
  ASSUME TimelyInv, Boot
  PROVE  Protocol!Next
<1>1. IInv
  BY DEF TimelyInv
<1>2. PICK d \in Dev : d = boot_d
  BY <1>1, TypeParts, NDevsAssumption DEF IInv, Boot, Booting, Dev
<1>3. /\ phase = "boot" /\ current_time = 0 /\ nbr_active_devs > 0 /\ On
      /\ StateOK /\ boot_d' = boot_d + 1
      /\ p2G4_handle_next_request(d, used, max_tx_nbr, rx_a[d], cca_a[d], <<>>)
  BY <1>1, <1>2, TypeParts DEF IInv, BootInv, Boot, Booting, On
<1>4. InTime /\ current_time <= fq[d].time
  BY <1>3, SimLengthAssumption, NeverAssumption DEF InTime, Time, StateOK, Entry
<1>5. used \in [Dev -> TxsFlags] /\ rx_a[d] \in rx_status_t
  BY <1>3 DEF StateOK
<1>6. /\ Keeps(d) /\ (phase' = "error" \/ \A x \in Dev \ {d} : fq'[x] = fq[x])
  BY <1>3, <1>4, <1>5, NextRequestKeeps
<1>7. boot_d \in Nat /\ boot_d' \in Nat /\ d < boot_d'
  BY <1>2, <1>3 DEF Dev
<1>8. sent' = <<>> /\ Moves(Pending(d)')
  BY <1>3, <1>5, <1>7, NextRequestMoves
<1>9. \A x \in Dev : Heard(x)' = <<>>
  BY <1>8, NothingHeard
<1>10. Protocol!Step(Pending(d), Pending(d)', <<>>)
  <2>1. Pending(d) = Protocol!New
    BY <1>2, <1>3, <1>7, PendingByEvent DEF WaitsFor
  <2>2. CASE Protocol!NextRequest(Pending(d)')
    BY <2>1, <2>2 DEF Protocol!Step, Protocol!FirstRequest
  <2>3. CASE Pending(d)' = Protocol!Over
    BY <2>3, QuietSteps
  <2> QED
    BY <1>8, <2>2, <2>3 DEF Moves
<1>11. ASSUME NEW x \in Dev \ {d}
       PROVE  Pending(x)' = Pending(x) \/ Pending(x)' = Protocol!Over
  <2>1. CASE phase' = "error"
    BY <1>7, <2>1, OverAtTheEnd
  <2>2. CASE Elsewhere(d) /\ fq'[x] = fq[x]
    <3>1. fq'[x] = fq[x] /\ cca_a'[x] = cca_a[x] /\ rx_a'[x] = rx_a[x]
      <4>1. rx_a'[x] = rx_a[x] \/ Activates(d, x)
        BY <2>2 DEF Elsewhere
      <4>2. ~Activates(d, x)
        <5>1. Activates(d, x) => fq[x].index = Rx_Found
          BY <2>2 DEF Activates, Event
        <5> QED
          BY <1>3, <5>1 DEF TimelyInv
      <4> QED
        BY <2>2, <4>1, <4>2 DEF Elsewhere
    <3>2. boot_d <= x <=> boot_d' <= x
      BY <1>2, <1>3, <1>7 DEF Dev
    <3> QED
      BY <1>3, <1>7, <3>1, <3>2, StaysPending
  <2> QED
    BY <1>6, <2>1, <2>2 DEF Keeps
<1>12. \A x \in Dev : Protocol!Step(Pending(x), Pending(x)', Heard(x)')
  BY <1>9, <1>10, <1>11, QuietSteps
<1> QED
  BY <1>9, <1>12, StepsMakeNext

LEMMA EndsRefine ==
  ASSUME TimelyInv, StartLoop \/ EndLoop
  PROVE  Protocol!Next
<1>1. boot_d \in Nat /\ boot_d' = boot_d /\ sent' = <<>>
  BY DEF TimelyInv, IInv, TypeOK, StartLoop, EndLoop
<1>2. \A x \in Dev : Heard(x)' = <<>>
  BY <1>1, NothingHeard
<1>3. ASSUME NEW x \in Dev
      PROVE  Pending(x)' = Pending(x) \/ Pending(x)' = Protocol!Over
  <2>1. CASE ~On'
    BY <1>1, <2>1, PendingAfter DEF WaitsFor
  <2>2. CASE On'
    <3>1. On /\ UNCHANGED <<fq, rx_a, cca_a>>
      BY <2>2 DEF On, StartLoop, EndLoop
    <3> QED
      BY <1>1, <3>1, StaysPending
  <2> QED
    BY <2>1, <2>2
<1>4. \A x \in Dev : Protocol!Step(Pending(x), Pending(x)', Heard(x)')
  BY <1>2, <1>3, QuietSteps
<1> QED
  BY <1>2, <1>4, StepsMakeNext

(***************************************************************************)
(* Whatever interleaves, aborts, leaves or is lost, each device sees the   *)
(* exchange that the device interface documents: main() and its handlers   *)
(* answer every request once, with the response of its kind, its API       *)
(* version and a status that fits what the device heard before.            *)
(***************************************************************************)
THEOREM ProtocolKept == Spec => KeepsProtocol
<1> DEFINE pending == [d \in Dev |-> Pending(d)]
           heard == [d \in Dev |-> Heard(d)]
<1>1. Init => Protocol!Init
  <2> SUFFICES ASSUME Init
               PROVE  Protocol!Init
    OBVIOUS
  <2>1. boot_d = 0 /\ On
    BY NDevsAssumption DEF Init, On
  <2>2. \A d \in Dev : Pending(d) = Protocol!New
    BY <2>1, PendingByEvent DEF WaitsFor, Dev
  <2>3. \A d \in Dev : Heard(d) = <<>>
    BY DEF Init, Heard
  <2> QED
    BY <2>2, <2>3 DEF Protocol!Init
<1>2. TimelyInv /\ [Next]_vars => [Protocol!Next]_<<pending, heard>>
  <2> SUFFICES ASSUME TimelyInv, [Next]_vars
               PROVE  Protocol!Next \/ UNCHANGED <<pending, heard>>
    OBVIOUS
  <2>1. CASE Boot
    BY <2>1, BootRefines
  <2>2. CASE StartLoop \/ EndLoop
    BY <2>2, EndsRefine
  <2>3. CASE MainLoop
    BY <2>3, MainLoopRefines
  <2>4. CASE UNCHANGED vars
    <3>1. \A d \in Dev : Pending(d)' = Pending(d) /\ Heard(d)' = Heard(d)
      BY <2>4, Zenon DEF vars, Pending, RxRequest, Heard, On
    <3> QED
      BY <3>1
  <2> QED
    BY <2>1, <2>2, <2>3, <2>4 DEF Next, Exited
<1> QED
  BY Timeliness, <1>1, <1>2, PTL DEF Spec, KeepsProtocol, Protocol!Spec

------------------------------------------------------------------------------
(***************************************************************************)
(* When a device hears that its request is over.                           *)
(***************************************************************************)
LEMMA ResponseTells ==
  ASSUME NEW p, NEW m,
         Protocol!Response(m.msg, m.status)
           \in Protocol!Complete(p) \cup Protocol!AddressFound(p)
  PROVE  /\ m.msg = "TX_END" => p.request = "TX"
         /\ m.msg = "CCA_END" => p.request = "CCA_MEAS"
<1>1. \A text, status : Protocol!Response(text, status).msg = text
  BY DEF Protocol!Response
<1>2. PICK r \in Protocol!Complete(p) \cup Protocol!AddressFound(p) :
        r.msg = m.msg
  BY <1>1
<1>3. CASE r \in Protocol!Complete(p)
  <2>1. \/ p.request = "TX" /\ r.msg = "TX_END"
        \/ p.request = "CCA_MEAS" /\ r.msg = "CCA_END"
        \/ r.msg \in {"WAIT_END", "RSSI_END", "RX_END", "RXV2_END"}
    BY <1>1, <1>3 DEF Protocol!Complete
  <2> QED
    BY <1>2, <2>1
<1>4. CASE r \in Protocol!AddressFound(p)
  <2>1. r.msg \in {"RX_ADDRESSFOUND", "RXV2_ADDRESSFOUND"}
    BY <1>1, <1>4 DEF Protocol!AddressFound
  <2> QED
    BY <1>2, <2>1
<1> QED
  BY <1>2, <1>3, <1>4

LEMMA RequestByEvent ==
  ASSUME NEW d \in Dev, Called(d)
  PROVE  /\ Pending(d).request = "TX" => fq[d].index \in TxQueued \cup {Tx_Start}
         /\ Pending(d).request = "CCA_MEAS" => fq[d].index = Rx_CCA_meas
<1>1. WaitsFor(d) /\ On /\ d < boot_d
  BY CalledWaits
<1>2. fq[d].index \in f_index_t
  BY DEF Called, StateOK, Entry
<1>3. \A request, stage : Protocol!Waiting(request, stage).request = request
  BY DEF Protocol!Waiting
<1>4. RxRequest(d) \in {"RX", "RXV2"}
  BY DEF RxRequest
<1>5. \/ fq[d].index \in TxQueued \cup {Tx_Start, Rx_CCA_meas}
      \/ Pending(d).request \in {"none", "WAIT", "RSSIMEAS", "RX", "RXV2"}
  BY <1>1, <1>2, <1>3, <1>4
  DEF WaitsFor, f_index_t, TxQueued, Protocol!Gone, State_None, Wait_Done, RSSI_Meas,
      Rx_CCA_meas, Tx_Start, Tx_Abort_Reeval, Tx_Packet_Start, Tx_Packet_End, Tx_End,
      Rx_Search_start, Rx_Search_reeval, Rx_Found, Rx_Sync, Rx_Header, Rx_Payload
<1>6. /\ fq[d].index = Rx_CCA_meas => Pending(d).request = "CCA_MEAS"
      /\ fq[d].index \in TxQueued \cup {Tx_Start} => Pending(d).request = "TX"
  BY <1>1, <1>3 DEF WaitsFor, TxWait
<1> QED
  BY <1>5, <1>6

(***************************************************************************)
(* A response to a device is one to what it was called for.                *)
(***************************************************************************)
LEMMA SendsResponse ==
  ASSUME NEW d \in Dev, Obeys(d), NEW x, NEW text \in {"TX_END", "CCA_END"},
         Sends(x, text)
  PROVE  /\ x = d
         /\ text = "TX_END" => Pending(d).request = "TX"
         /\ text = "CCA_END" => Pending(d).request = "CCA_MEAS"
<1>1. PICK pre : Reevaluates(d, pre) /\ Tells(d, pre, Pending(d), Pending(d)')
  BY DEF Obeys
<1>2. PICK k \in DOMAIN sent' : sent'[k].to = x /\ sent'[k].msg = text
  BY DEF Sends
<1>3. /\ pre \in Seq(Message) /\ DOMAIN pre = 1 .. Len(pre) /\ Len(pre) \in Nat
      /\ \A j \in 1 .. Len(pre) : pre[j].to = d /\ pre[j].msg # text
  BY <1>1 DEF Reevaluates
<1>4. sent' # pre
  BY <1>2, <1>3
<1>5. PICK m \in Message :
        /\ sent' = Append(pre, m) /\ m.to = d
        /\ Protocol!Response(m.msg, m.status)
             \in Protocol!Complete(Pending(d)) \cup Protocol!AddressFound(Pending(d))
  BY <1>1, <1>4, Zenon DEF Tells
<1>6. /\ DOMAIN Append(pre, m) = 1 .. Len(pre) + 1
      /\ \A j \in 1 .. Len(pre) : Append(pre, m)[j] = pre[j]
      /\ Append(pre, m)[Len(pre) + 1] = m
  BY <1>3, <1>5
<1>7. k = Len(pre) + 1
  BY <1>2, <1>3, <1>5, <1>6
<1>8. sent'[k] = m
  BY <1>5, <1>6, <1>7
<1> QED
  BY <1>2, <1>5, <1>8, ResponseTells

(***************************************************************************)
(* Only the end of a transmission says TX_END, and only a CCA search says  *)
(* CCA_END.                                                                *)
(***************************************************************************)
LEMMA SilentSteps ==
  ASSUME TimelyInv, [Next]_vars, ~MainLoop, ~UNCHANGED vars, NEW x, NEW text
  PROVE  ~Sends(x, text)
<1>1. sent' = <<>>
  <2>1. CASE Boot
    <3>1. IInv
      BY DEF TimelyInv
    <3>2. PICK d \in Dev : d = boot_d
      BY <2>1, <3>1, TypeParts, NDevsAssumption DEF IInv, Boot, Booting, Dev
    <3>3. /\ StateOK /\ boot_d' = boot_d + 1
          /\ p2G4_handle_next_request(d, used, max_tx_nbr, rx_a[d], cca_a[d], <<>>)
      BY <2>1, <3>1, <3>2, TypeParts DEF IInv, Boot
    <3>4. rx_a[d] \in rx_status_t
      BY <3>3 DEF StateOK
    <3>5. boot_d' \in Nat /\ d < boot_d'
      BY <3>2, <3>3 DEF Dev
    <3> QED
      BY <3>3, <3>4, <3>5, NextRequestMoves
  <2>2. CASE StartLoop \/ EndLoop
    BY <2>2 DEF StartLoop, EndLoop
  <2> QED
    BY <2>1, <2>2 DEF Next, Exited
<1>2. DOMAIN <<>> = {}
  OBVIOUS
<1> QED
  BY <1>1, <1>2 DEF Sends

LEMMA TxEndSends ==
  ASSUME TimelyInv, MainLoop, NEW d \in Dev, d = next_d, NEW x, Sends(x, "TX_END")
  PROVE  x = d /\ fq[d].index = Tx_End /\ current_time = TxEndt(tx_list[d])
<1>1. /\ StateOK /\ InTime /\ current_time = fq[d].time /\ Timely(d)
  BY MainLoopCalls
<1>2. Called(d) /\ Obeys(d)
  BY MainLoopObeys
<1>3. x = d /\ fq[d].index \in TxQueued \cup {Tx_Start}
  BY <1>2, SendsResponse, RequestByEvent
<1>4. PICK i \in TxQueued \cup {Tx_Start} :
        /\ fq[d].index = i
        /\ i = Tx_Start => f_tx_start(d)
        /\ i = Tx_Packet_Start => f_tx_packet_start(d)
        /\ i = Tx_Packet_End => f_tx_packet_end(d)
        /\ i = Tx_Abort_Reeval => f_tx_abort_reeval(d)
  BY <1>3
  DEF MainLoop, Call, WaitDone, RSSIMeas, RxSearchStart, RxSearchReeval, RxFoundStep,
      RxSync, RxHeader, RxPayload, TxAbortReeval, TxStart, TxPacketStart,
      TxPacketEnd, TxEnd, RxCCAMeas, TxQueued, State_None, Wait_Done, RSSI_Meas,
      Rx_CCA_meas, Tx_Start, Tx_Abort_Reeval, Tx_Packet_Start, Tx_Packet_End, Tx_End,
      Rx_Search_start, Rx_Search_reeval, Rx_Found, Rx_Sync, Rx_Header, Rx_Payload
<1>5. i \notin {Tx_Start, Tx_Packet_Start, Tx_Packet_End}
  <2>1. DOMAIN <<>> = {}
    OBVIOUS
  <2>2. sent' # <<>>
    BY <2>1 DEF Sends
  <2> QED
    BY <1>4, <2>2, Zenon DEF f_tx_start, f_tx_packet_start, f_tx_packet_end
<1>6. i # Tx_Abort_Reeval
  <2>1. SUFFICES ASSUME f_tx_abort_reeval(d)
                 PROVE  FALSE
    BY <1>4
  <2>2. PICK n \in 0 .. MaxImmRssi : sent' = Reevaluation(d, n)
    BY <2>1, Zenon DEF f_tx_abort_reeval, Exit
  <2>3. Reevaluates(d, sent')
    BY <1>1, <2>2, ReevaluationReevaluates, LimitsAssumption
  <2> QED
    BY <2>3 DEF Reevaluates, Sends
<1>7. i = Tx_End
  BY <1>5, <1>6 DEF TxQueued
<1> QED
  BY <1>1, <1>3, <1>4, <1>7 DEF Timely, TxTimely

(***************************************************************************)
(* A device hears that its transmission is done exactly at the end it      *)
(* asked for or at the abort in force, whichever comes first: f_tx_end()   *)
(* is only ever called at tx_schedule_next_event()'s end of the            *)
(* transmission, however often the abort moved in between.                 *)
(***************************************************************************)
THEOREM TransmissionsEndOnTime == Spec => TxDoneOnTime
<1> DEFINE OnTime(d) ==
             Sends(d, "TX_END") =>
               /\ current_time <= tx_list[d].end_tx_time
               /\ current_time <= tx_list[d].abort.abort_time
               /\ \/ current_time = tx_list[d].end_tx_time
                  \/ current_time = tx_list[d].abort.abort_time
<1>1. TimelyInv /\ [Next]_vars => [\A d \in Dev : OnTime(d)]_vars
  <2> SUFFICES ASSUME TimelyInv, [Next]_vars, ~UNCHANGED vars, NEW x \in Dev,
                      Sends(x, "TX_END")
               PROVE  /\ current_time <= tx_list[x].end_tx_time
                      /\ current_time <= tx_list[x].abort.abort_time
                      /\ \/ current_time = tx_list[x].end_tx_time
                         \/ current_time = tx_list[x].abort.abort_time
    OBVIOUS
  <2>1. MainLoop
    BY SilentSteps
  <2>2. PICK d \in Dev : d = next_d
    BY DEF TimelyInv, IInv, TypeOK
  <2>3. x = d /\ fq[d].index = Tx_End /\ current_time = TxEndt(tx_list[d])
    BY <2>1, <2>2, TxEndSends
  <2>4. StateOK /\ fq[d].time = current_time
    BY <2>1, <2>2, MainLoopCalls
  <2>5. /\ tx_list[d].end_tx_time \in Nat
        /\ tx_list[d].abort.abort_time \in Nat
    BY <2>4, TimesOfTx DEF StateOK
  <2> QED
    BY <2>3, <2>5 DEF TxEndt, BSMin
<1> QED
  BY Timeliness, <1>1, PTL DEF Spec, TxDoneOnTime

(***************************************************************************)
(* A CCA search is never longer than asked for, whatever its aborts and    *)
(* its periods: f_cca_meas() is over in its last microsecond at the        *)
(* latest, or in its first one if it has no duration.                      *)
(***************************************************************************)
THEOREM CcaSearchesEndInTime == Spec => CcaEndsInTime
<1>1. ASSUME TimelyInv, [Next]_vars, ~UNCHANGED vars, NEW x \in Dev,
             Sends(x, "CCA_END")
      PROVE  current_time <= CcaLast(cca_a[x].req)
  <2>1. MainLoop
    BY <1>1, SilentSteps
  <2>2. PICK d \in Dev : d = next_d
    BY <1>1 DEF TimelyInv, IInv, TypeOK
  <2>3. /\ StateOK /\ current_time = fq[d].time /\ Timely(d)
        /\ Called(d) /\ Obeys(d)
    BY <1>1, <2>1, <2>2, MainLoopCalls, MainLoopObeys
  <2>4. x = d /\ fq[d].index = Rx_CCA_meas
    BY <1>1, <2>3, SendsResponse, RequestByEvent
  <2> QED
    BY <2>3, <2>4 DEF Timely, CcaTimely
<1>2. TimelyInv /\ [Next]_vars =>
        [\A d \in Dev :
           Sends(d, "CCA_END") =>
             LET req == cca_a[d].req
             IN current_time <= BSMax(req.start_time,
                                      req.start_time + req.scan_duration - 1)]_vars
  BY <1>1 DEF CcaLast
<1> QED
  BY Timeliness, <1>2, PTL DEF Spec, CcaEndsInTime

------------------------------------------------------------------------------
(***************************************************************************)
(* A reception locks to a packet before, and loses it after, the preamble  *)
(* it may miss.  Only the handler of its device does either.               *)
(***************************************************************************)
LEMMA NextRequestStops ==
  ASSUME NEW d, NEW u, NEW m, NEW rx, NEW cca, NEW msgs,
         p2G4_handle_next_request(d, u, m, rx, cca, msgs), phase' # phase
  PROVE  fq' = fq
BY Zenon DEF p2G4_handle_next_request, Exit

LEMMA ErrorsStop ==
  ASSUME MainLoop, phase' # phase
  PROVE  fq' = fq
<1>1. CASE WaitDone \/ RSSIMeas
  BY <1>1, NextRequestStops, Zenon
  DEF WaitDone, RSSIMeas, f_wait_done, f_RSSI_meas, NextRequest
<1>2. CASE RxCCAMeas
  BY <1>2, NextRequestStops, Zenon DEF RxCCAMeas, f_cca_meas, Exit
<1>3. CASE TxStart \/ TxPacketStart \/ TxPacketEnd
  BY <1>3, Zenon
  DEF TxStart, TxPacketStart, TxPacketEnd, f_tx_start, f_tx_packet_start,
      f_tx_packet_end
<1>4. CASE TxAbortReeval \/ TxEnd
  BY <1>4, NextRequestStops, Zenon
  DEF TxAbortReeval, TxEnd, f_tx_abort_reeval, f_tx_end, Exit
<1>5. \A d, rx, msgs :
        \/ RxFound(d, rx, msgs) \/ SearchStart(d, rx, msgs)
        \/ rx_scan_ended(d, rx, msgs) \/ rx_enqueue_search_reeval(d, rx, msgs)
        \/ RxDone(d, rx, msgs)
        => fq' = fq
  <2>1. \A d, rx, e, msgs : ~Continue(d, rx, e, msgs)
    BY DEF Continue
  <2>2. \A d, rx, msgs : ~rx_enqueue_search_reeval(d, rx, msgs)
    BY <2>1, Zenon DEF rx_enqueue_search_reeval
  <2>3. \A d, rx, msgs : ~RxFound(d, rx, msgs)
    BY <2>1, <2>2, Zenon DEF RxFound
  <2>4. \A d, rx, msgs : ~SearchStart(d, rx, msgs)
    BY <2>2, <2>3, Zenon DEF SearchStart
  <2>5. \A d, rx, msgs : RxDone(d, rx, msgs) => fq' = fq
    BY NextRequestStops, Zenon DEF RxDone
  <2>6. \A d, rx, msgs : rx_scan_ended(d, rx, msgs) => fq' = fq
    BY <2>5, Zenon DEF rx_scan_ended
  <2> QED
    BY <2>2, <2>3, <2>4, <2>5, <2>6
<1>6. \A d, rx, e, msgs : ~Continue(d, rx, e, msgs)
  BY DEF Continue
<1>7. \A d, rx, msgs : /\ RecheckExits(d, msgs) => fq' = fq
                       /\ ~RecheckLeaves(d, rx, msgs)
  BY DEF RecheckExits, RecheckLeaves, Exit
<1>8. CASE RxSearchStart \/ RxSearchReeval \/ RxFoundStep
  BY <1>5, <1>7, <1>8, Zenon
  DEF RxSearchStart, RxSearchReeval, RxFoundStep, f_rx_search_start,
      f_rx_search_reeval, f_rx_found
<1>9. CASE RxSync
  <2>1. \A d, rx, msgs : SyncDone(d, rx, msgs) => fq' = fq
    <3> SUFFICES ASSUME NEW d, NEW rx0, NEW msgs0, SyncDone(d, rx0, msgs0)
                 PROVE  fq' = fq
      OBVIOUS
    <3>1. PICK rx, msgs, reply :
            \/ UNCHANGED phase
            \/ Continue(d, rx, AfterSync(rx), msgs)
            \/ Continue(d, [rx EXCEPT !.rx_s.abort = reply.abort], AfterSync(rx), msgs)
            \/ Exit(msgs)
            \/ p2G4_handle_next_request(d, used, max_tx_nbr, rx, cca_a[d], msgs)
      BY Zenon DEF SyncDone
    <3> QED
      BY <1>6, <3>1, NextRequestStops, Zenon DEF Exit
  <2>2. \A d, rx, msgs : Sync(d, rx, msgs) => fq' = fq
    BY <1>5, <1>6, <2>1, ZenonT(60) DEF Sync, SyncLost
  <2> QED
    BY <1>7, <1>9, <2>2, ZenonT(40) DEF RxSync, f_rx_sync
<1>10. CASE RxHeader \/ RxPayload
  <2>1. \A d, rx, msgs : Header(d, rx, msgs) \/ Payload(d, rx, msgs) => fq' = fq
    BY <1>5, <1>6, ZenonT(60) DEF Header, Payload
  <2> QED
    BY <1>7, <1>10, <2>1, ZenonT(40)
    DEF RxHeader, RxPayload, f_rx_header, f_rx_payload
<1> QED
  BY <1>1, <1>2, <1>3, <1>4, <1>8, <1>9, <1>10, Zenon DEF MainLoop

LEMMA OnlyCalledMoves ==
  ASSUME TimelyInv, [Next]_vars, NEW x \in Dev,
         fq'[x].index # fq[x].index, fq'[x].index # Rx_Found,
         fq[x].index # State_None
  PROVE  MainLoop /\ x = next_d /\ phase' # "error"
<1>1. fq' # fq
  OBVIOUS
<1>2. ~(StartLoop \/ EndLoop \/ Exited \/ UNCHANGED vars)
  BY <1>1, Zenon DEF StartLoop, EndLoop, Exited, vars
<1>3. ~Boot
  <2> SUFFICES ASSUME Boot
               PROVE  FALSE
    OBVIOUS
  <2>1. IInv
    BY DEF TimelyInv
  <2>2. PICK d \in Dev : d = boot_d
    BY <2>1, TypeParts, NDevsAssumption DEF IInv, Boot, Booting, Dev
  <2>3. /\ phase = "boot" /\ current_time = 0 /\ StateOK /\ nbr_active_devs > 0
        /\ p2G4_handle_next_request(d, used, max_tx_nbr, rx_a[d], cca_a[d], <<>>)
        /\ fq[d].index = State_None
    BY <2>1, <2>2, TypeParts DEF IInv, BootInv, Boot, Booting, Dev
  <2>4. x # d
    BY <2>3
  <2>5. InTime /\ current_time <= fq[d].time
    <3>1. fq[d] \in Entry /\ sim_length \in Nat
      BY <2>3, SimLengthAssumption, NeverAssumption DEF StateOK, Time
    <3> QED
      BY <2>3, <3>1, SimLengthAssumption, NeverAssumption DEF InTime, Time, Entry
  <2>6. used \in [Dev -> TxsFlags] /\ rx_a[d] \in rx_status_t
    BY <2>3 DEF StateOK
  <2>7. phase' = "error" \/ fq'[x] = fq[x]
    BY <2>3, <2>4, <2>5, <2>6, NextRequestKeeps
  <2>8. CASE phase' = "error"
    BY <1>1, <2>3, <2>8, NextRequestStops
  <2> QED
    BY <2>7, <2>8
<1>4. MainLoop
  BY <1>2, <1>3 DEF Next
<1>5. PICK d \in Dev : d = next_d
  BY DEF TimelyInv, IInv, TypeOK
<1>6. phase = "running"
  BY <1>4, <1>5, MainLoopCalls
<1>7. phase' # "error"
  BY <1>1, <1>4, <1>6, ErrorsStop
<1>8. x = d
  <2>1. Elsewhere(d)
    BY <1>4, <1>5, <1>7, MainLoopTime
  <2>2. Event(current_time, Rx_Found).index = Rx_Found
    BY DEF Event
  <2> SUFFICES ASSUME x # d
               PROVE  FALSE
    OBVIOUS
  <2>3. fq'[x] = fq[x] \/ fq'[x] = Event(current_time, Rx_Found)
    BY <2>1, Zenon DEF Elsewhere, Activates
  <2> QED
    BY <2>2, <2>3
<1> QED
  BY <1>4, <1>5, <1>7, <1>8

LEMMA CalledHandler ==
  ASSUME MainLoop, NEW d, d = next_d
  PROVE  /\ fq[d].index = Rx_Search_start => f_rx_search_start(d)
         /\ fq[d].index = Rx_Found => f_rx_found(d)
         /\ fq[d].index = Rx_Sync => f_rx_sync(d)
BY DEF MainLoop, Call, WaitDone, RSSIMeas, RxSearchStart, RxSearchReeval, RxFoundStep,
       RxSync, RxHeader, RxPayload, TxAbortReeval, TxStart, TxPacketStart,
       TxPacketEnd, TxEnd, RxCCAMeas, Wait_Done, RSSI_Meas,
       Rx_CCA_meas, Tx_Start, Tx_Abort_Reeval, Tx_Packet_Start, Tx_Packet_End, Tx_End,
       Rx_Search_start, Rx_Search_reeval, Rx_Found, Rx_Sync, Rx_Header, Rx_Payload

LEMMA FoundLocksInTime ==
  ASSUME NEW d \in Dev, StateOK, NEW rx \in rx_status_t,
         current_time <= tx_list[rx.tx_nbr].start_packet_time
                           + rx.rx_s.acceptable_pre_truncation,
         NEW msgs, RxFound(d, rx, msgs), fq'[d].index = Rx_Sync
  PROVE  current_time <= rx_a'[d].sync_start
<1>1. CASE Continue(d, Locked(rx, tx_list[rx.tx_nbr]),
                    NextSync(Locked(rx, tx_list[rx.tx_nbr])), msgs)
  <2>1. rx_a'[d] = Locked(rx, tx_list[rx.tx_nbr])
    BY <1>1 DEF Continue, StateOK
  <2> QED
    BY <2>1, LockedFields
<1>2. CASE rx_enqueue_search_reeval(d, rx, msgs)
  <2>1. fq'[d].index = Rx_Search_reeval
    BY <1>2 DEF rx_enqueue_search_reeval, Continue, Event, StateOK
  <2> QED
    BY <2>1 DEF Rx_Search_reeval, Rx_Sync
<1> QED
  BY <1>1, <1>2, Zenon DEF RxFound

LEMMA LocksInTime ==
  ASSUME TimelyInv, WellAsked, MainLoop, NEW d \in Dev, d = next_d,
         phase' # "error", LocksTo(d)
  PROVE  current_time <= rx_a'[d].sync_start
<1>1. /\ StateOK /\ InTime /\ current_time = fq[d].time /\ Consistent(d)
      /\ Timely(d) /\ Found(d) /\ fq'[d].index = Rx_Sync
  BY MainLoopCalls DEF TimelyInv, LocksTo
<1>2. rx_a[d] \in rx_status_t
  BY <1>1 DEF StateOK
<1>3. \/ fq[d].index = Rx_Search_start /\ f_rx_search_start(d)
      \/ fq[d].index = Rx_Found /\ f_rx_found(d)
  BY Zenon, CalledHandler DEF LocksTo
<1>4. CASE fq[d].index = Rx_Found /\ f_rx_found(d)
  <2>1. RxFound(d, rx_a[d], <<>>)
    BY <1>4 DEF f_rx_found
  <2>2. current_time <= tx_list[rx_a[d].tx_nbr].start_packet_time
                          + rx_a[d].rx_s.acceptable_pre_truncation
    BY <1>1, <1>4 DEF Found
  <2> QED
    BY <1>1, <1>2, <2>1, <2>2, FoundLocksInTime
<1>5. CASE fq[d].index = Rx_Search_start /\ f_rx_search_start(d)
  <2>1. PICK msgs \in RecheckMsgs(d) :
          \/ RecheckExits(d, msgs)
          \/ RecheckLeaves(d, [rx_a[d] EXCEPT !.state = NotSearching], msgs)
          \/ \E rx \in Rechecked(d, TRUE) : SearchStart(d, rx, msgs)
    BY <1>5, Zenon DEF f_rx_search_start
  <2>2. ~RecheckExits(d, msgs)
    BY DEF RecheckExits, Exit
  <2>3. ~RecheckLeaves(d, [rx_a[d] EXCEPT !.state = NotSearching], msgs)
    <3>1. fq_remove(fq, d)[d].index = State_None
      BY <1>1 DEF fq_remove, Event, StateOK
    <3> QED
      BY <1>1, <3>1 DEF RecheckLeaves, State_None, Rx_Sync
  <2>4. PICK rx \in Rechecked(d, TRUE) : SearchStart(d, rx, msgs)
    BY <2>1, <2>2, <2>3
  <2>5. rx \in rx_status_t
    BY <1>1, RecheckedType
  <2>6. \A r : ~rx_enqueue_search_reeval(d, r, msgs)
    <3>1. \A t : Event(t, Rx_Search_reeval).index = Rx_Search_reeval
      BY DEF Event
    <3>2. Rx_Search_reeval # Rx_Sync
      BY DEF Rx_Search_reeval, Rx_Sync
    <3>3. \A r, t : ~Continue(d, r, Event(t, Rx_Search_reeval), msgs)
      BY <1>1, <3>1, <3>2 DEF Continue, StateOK
    <3> QED
      BY <3>3, Zenon DEF rx_enqueue_search_reeval
  <2>7. PICK i \in Dev :
          /\ (PrelockHolds(rx) /\ i = rx.tx_nbr) \/ Fits(i, rx)
          /\ RxFound(d, [rx EXCEPT !.tx_nbr = i, !.state = NotSearching], msgs)
    BY <2>4, <2>5, <2>6, SearchStartFinds, Zenon
  <2> DEFINE r == [rx EXCEPT !.tx_nbr = i, !.state = NotSearching]
  <2>8. r \in rx_status_t
    <3>1. i \in DevOrNone
      BY DEF DevOrNone
    <3> QED
      BY <2>5, <3>1, FoundType
  <2>9. r.tx_nbr = i /\ r.rx_s = rx.rx_s /\ RxFound(d, r, msgs)
    BY <2>5, <2>7, Zenon DEF rx_status_t
  <2>10. current_time <= tx_list[i].start_packet_time
                           + rx.rx_s.acceptable_pre_truncation
    BY <1>1, <2>5, <2>7, FoundInTime
  <2> HIDE DEF r
  <2> QED
    BY <1>1, <2>8, <2>9, <2>10, FoundLocksInTime
<1> QED
  BY <1>3, <1>4, <1>5

(***************************************************************************)
(* The end of a reception, and an address found, are told to the device.   *)
(***************************************************************************)
RxAnswers == {"RX_END", "RXV2_END", "RX_ADDRESSFOUND", "RXV2_ADDRESSFOUND"}

LEMMA AnswerIsSent ==
  ASSUME NEW d, NEW msgs \in Seq(Message), NEW m \in Message,
         sent' = Append(msgs, m), m.to = d, m.msg \in RxAnswers
  PROVE  \E text \in RxAnswers : Sends(d, text)
<1>1. /\ DOMAIN Append(msgs, m) = 1 .. Len(msgs) + 1 /\ Len(msgs) \in Nat
      /\ Append(msgs, m)[Len(msgs) + 1] = m
  OBVIOUS
<1>2. Len(msgs) + 1 \in DOMAIN sent' /\ sent'[Len(msgs) + 1] = m
  BY <1>1
<1> QED
  BY <1>2 DEF Sends

LEMMA RequestIsTold ==
  ASSUME NEW d, NEW u, NEW m, NEW rx, NEW cca, NEW msgs,
         p2G4_handle_next_request(d, u, m, rx, cca, msgs)
  PROVE  sent' = msgs
BY Zenon DEF p2G4_handle_next_request, Exit

LEMMA ScanEndedIsTold ==
  ASSUME InTime, NEW d \in Dev, NEW rx \in rx_status_t,
         NEW msgs \in Seq(Message), rx_scan_ended(d, rx, msgs)
  PROVE  \E text \in RxAnswers : Sends(d, text)
<1> DEFINE r == [rx EXCEPT !.rx_time_stamp = current_time, !.status = "NOSYNC",
                           !.state = NotSearching]
           m == rx_respond_done(d, r)
<1>1. r \in rx_status_t
  BY NowType, StatusTypes DEF RxStatus
<1>2. RxDone(d, r, msgs)
  BY DEF rx_scan_ended
<1> HIDE DEF r
<1>3. sent' = Append(msgs, m)
  BY <1>2, RequestIsTold DEF RxDone
<1>4. m \in Message /\ m.to = d /\ m.msg \in RxAnswers
  BY <1>1, RxRespondType DEF rx_respond_done, Msg, RxAnswers
<1> HIDE DEF m
<1> QED
  BY <1>3, <1>4, AnswerIsSent

LEMMA SyncDoneIsTold ==
  ASSUME InTime, NEW d \in Dev, NEW rx0 \in rx_status_t,
         NEW msgs0 \in Seq(Message), SyncDone(d, rx0, msgs0)
  PROVE  \E text \in RxAnswers : Sends(d, text)
<1> DEFINE rx == [rx0 EXCEPT !.biterrors = 0, !.rx_time_stamp = rx0.sync_end,
                             !.status = "INPROGRESS"]
           m == rx_resp_addr_found(d, rx)
           msgs == Append(msgs0, m)
<1>1. rx \in rx_status_t
  <2>1. rx0.sync_end \in Nat
    BY DEF rx_status_t
  <2> QED
    BY <2>1, StatusTypes DEF RxStatus
<1>2. \/ sent' = msgs
      \/ \E r, e : Continue(d, r, e, msgs)
      \/ Exit(msgs)
      \/ \E r : p2G4_handle_next_request(d, used, max_tx_nbr, r, cca_a[d], msgs)
  BY Zenon DEF SyncDone
<1> HIDE DEF rx
<1>3. m \in Message /\ m.to = d /\ m.msg \in RxAnswers
  BY <1>1, RxRespondType DEF rx_resp_addr_found, Msg, RxAnswers
<1> HIDE DEF m, msgs
<1>4. sent' = msgs
  BY <1>2, RequestIsTold DEF Continue, Exit
<1> QED
  BY <1>3, <1>4, AnswerIsSent DEF msgs

LEMMA SyncLostFields ==
  ASSUME StateOK, InTime, NEW d \in Dev, NEW rx, NEW msgs, SyncLost(d, rx, msgs)
  PROVE  fq'[d].time = current_time + 1 /\ rx_a'[d] = rx
BY DEF SyncLost, Continue, Event, StateOK

LEMMA LosesAfterStart ==
  ASSUME TimelyInv, MainLoop, NEW d \in Dev, d = next_d, phase' # "error",
         LosesSync(d)
  PROVE  /\ fq'[d].time > rx_a[d].sync_start
         /\ rx_a'[d].sync_start = rx_a[d].sync_start
<1>1. /\ StateOK /\ InTime /\ f_rx_sync(d) /\ fq'[d].index = Rx_Search_start
      /\ ~\E text \in RxAnswers : Sends(d, text)
  BY MainLoopCalls, CalledHandler DEF LosesSync, RxAnswers
<1>2. rx_a[d] \in rx_status_t
  BY <1>1 DEF StateOK
<1>3. PICK msgs \in RecheckMsgs(d) :
        \/ RecheckExits(d, msgs)
        \/ RecheckLeaves(d, rx_a[d], msgs)
        \/ \E rx \in Rechecked(d, TRUE) : Sync(d, rx, msgs)
  BY <1>1, Zenon DEF f_rx_sync
<1>4. ~RecheckExits(d, msgs)
  BY DEF RecheckExits, Exit
<1>5. ~RecheckLeaves(d, rx_a[d], msgs)
  <2>1. fq_remove(fq, d)[d].index = State_None
    BY <1>1 DEF fq_remove, Event, StateOK
  <2> QED
    BY <1>1, <2>1 DEF RecheckLeaves, State_None, Rx_Search_start
<1>6. PICK rx \in Rechecked(d, TRUE) : Sync(d, rx, msgs)
  BY <1>3, <1>4, <1>5
<1>7. rx \in rx_status_t /\ msgs \in Seq(Message)
  BY <1>1, RecheckedType
<1>8. rx.sync_start = rx_a[d].sync_start
  <2>1. CASE RecheckDue(rx_a[d])
    <3>1. PICK abort \in NewAborts(d) : rx = Reevaluated(rx_a[d], abort, TRUE)
      BY <2>1 DEF Rechecked
    <3>2. abort \in Abort
      BY <1>1, NewAbortTimes
    <3> QED
      BY <1>2, <3>1, <3>2, ReevaluatedFields
  <2> QED
    BY <2>1 DEF Rechecked
<1>9. \A r, t : ~Continue(d, r, Event(t, Rx_Sync), msgs)
  <2>1. \A t : Event(t, Rx_Sync).index # Rx_Search_start
    BY DEF Event, Rx_Sync, Rx_Search_start
  <2> QED
    BY <1>1, <2>1 DEF Continue, StateOK
<1>10. \A r : r \in rx_status_t =>
         ~rx_scan_ended(d, r, msgs) /\ ~SyncDone(d, r, msgs)
  BY <1>1, <1>7, ScanEndedIsTold, SyncDoneIsTold
<1>11. \A r \in BitErrorCalc(rx) : r \in rx_status_t /\ r.sync_start = rx.sync_start
  BY <1>7, BitErrorCalcType, BitErrorFields
<1>12. PICK r : /\ current_time >= rx.sync_start /\ r.sync_start = rx.sync_start
                /\ SyncLost(d, r, msgs)
  BY <1>6, <1>7, <1>9, <1>10, <1>11, Zenon DEF Sync, NextSync
<1>13. fq'[d].time = current_time + 1 /\ rx_a'[d] = r
  BY <1>1, <1>12, SyncLostFields
<1>14. rx.sync_start \in Nat /\ current_time \in Nat
  BY <1>1, <1>7, TimesOfRx, NowType
<1> QED
  BY <1>8, <1>12, <1>13, <1>14

(***************************************************************************)
(* A packet that was lost during its synchronisation is not found again:   *)
(* f_rx_search_start() and f_rx_found() lock while the preamble that may   *)
(* be missed is not over, and f_rx_sync() starts a new search only once it *)
(* is; if the devices keep to WellAsked.                                   *)
(***************************************************************************)
THEOREM LostPacketsStayLost ==
  ASSUME WellAsked
  PROVE  Spec => LostPacketIsNotFoundAgain
<1>1. TimelyInv /\ [Next]_vars =>
        [\A d \in Dev :
           /\ LocksTo(d) => current_time <= rx_a'[d].sync_start
           /\ LosesSync(d) => /\ fq'[d].time > rx_a[d].sync_start
                              /\ rx_a'[d].sync_start = rx_a[d].sync_start]_vars
  <2> SUFFICES ASSUME TimelyInv, [Next]_vars, NEW d \in Dev
               PROVE  /\ LocksTo(d) => current_time <= rx_a'[d].sync_start
                      /\ LosesSync(d) => /\ fq'[d].time > rx_a[d].sync_start
                                         /\ rx_a'[d].sync_start = rx_a[d].sync_start
    OBVIOUS
  <2>1. /\ Rx_Sync \notin {Rx_Search_start, Rx_Found, State_None}
        /\ Rx_Search_start \notin {Rx_Found, State_None}
        /\ Rx_Found # State_None
    BY DEF Rx_Sync, Rx_Search_start, Rx_Found, State_None
  <2>2. LocksTo(d) \/ LosesSync(d) => MainLoop /\ d = next_d /\ phase' # "error"
    BY <2>1, OnlyCalledMoves DEF LocksTo, LosesSync
  <2> QED
    BY <2>2, LocksInTime, LosesAfterStart
<1> QED
  BY Timeliness, <1>1, PTL DEF Spec, LostPacketIsNotFoundAgain

------------------------------------------------------------------------------
(***************************************************************************)
(* A device that never asks for a prelocked reception never has one: no    *)
(* handler sets prelocked_tx.                                              *)
(***************************************************************************)
Free(rx) == rx.rx_s.prelocked_tx = FALSE

AllFree == \A d \in Dev : Free(rx_a[d])

LEMMA FreeKept ==
  ASSUME NEW rx \in rx_status_t, Free(rx)
  PROVE  /\ \A s : Free([rx EXCEPT !.state = s])
         /\ \A s : Free([rx EXCEPT !.status = s])
         /\ \A i, s : Free([rx EXCEPT !.tx_nbr = i, !.state = s])
         /\ \A t : Free(Locked(rx, t))
         /\ \A t, s : Free([rx EXCEPT !.biterrors = 0, !.rx_time_stamp = t,
                                      !.status = s])
         /\ \A t, s, u : Free([rx EXCEPT !.rx_time_stamp = t, !.status = s,
                                         !.state = u])
         /\ \A r \in BitErrorCalc(rx) : Free(r)
         /\ \A a : Free([rx EXCEPT !.rx_s.abort = a])
         /\ \A a : \A scanning \in BOOLEAN : Free(Reevaluated(rx, a, scanning))
<1>1. /\ \A s : Free([rx EXCEPT !.state = s])
      /\ \A s : Free([rx EXCEPT !.status = s])
      /\ \A i, s : Free([rx EXCEPT !.tx_nbr = i, !.state = s])
  BY Zenon DEF Free, rx_status_t
<1>2. \A t : Free(Locked(rx, t))
  BY LockedFields DEF Free
<1>3. /\ \A t, s : Free([rx EXCEPT !.biterrors = 0, !.rx_time_stamp = t,
                                   !.status = s])
      /\ \A t, s, u : Free([rx EXCEPT !.rx_time_stamp = t, !.status = s,
                                      !.state = u])
  BY Zenon DEF Free, rx_status_t
<1>4. \A r \in BitErrorCalc(rx) : Free(r)
  BY BitErrorFields DEF Free
<1>5. ASSUME NEW a
      PROVE  /\ Free([rx EXCEPT !.rx_s.abort = a])
             /\ \A scanning \in BOOLEAN : Free(Reevaluated(rx, a, scanning))
  <2> DEFINE s == [rx.rx_s EXCEPT !.abort = a]
             cont == [rx EXCEPT !.rx_s.abort = a]
  <2>1. s.prelocked_tx = FALSE
    <3>1. rx.rx_s \in Rxv2
      BY DEF rx_status_t
    <3> QED
      BY <3>1, Zenon DEF Free, Rxv2
  <2>2. cont.rx_s = s
    BY Zenon DEF rx_status_t
  <2>3. \A scanning \in BOOLEAN : Reevaluated(rx, a, scanning).rx_s = s
    BY Zenon DEF Reevaluated, rx_status_t
  <2> HIDE DEF s, cont
  <2>4. Free(cont) /\ \A scanning \in BOOLEAN : Free(Reevaluated(rx, a, scanning))
    BY <2>1, <2>2, <2>3 DEF Free
  <2> QED
    BY <2>4 DEF cont
<1> QED
  BY <1>1, <1>2, <1>3, <1>4, <1>5, Zenon

LEMMA ContinueFree ==
  ASSUME StateOK, AllFree, NEW d \in Dev, NEW rx, Free(rx),
         rx_a' = [rx_a EXCEPT ![d] = rx]
  PROVE  AllFree'
BY DEF AllFree, Free, StateOK

LEMMA NextRequestFree ==
  ASSUME StateOK, InTime, AllFree, NonePrelocked, NEW d \in Dev,
         NEW u, NEW m, NEW rx \in rx_status_t, Free(rx), NEW cca, NEW msgs,
         p2G4_handle_next_request(d, u, m, rx, cca, msgs)
  PROVE  AllFree'
<1>1. PICK q \in Requests(d, current_time) :
        \/ Exit(msgs)
        \/ Accepted(q, d, u, rx, cca)
  BY Zenon DEF p2G4_handle_next_request
<1>2. NotPrelocked(q) /\ q \in Request
  <2>1. current_time \in 0 .. sim_length
    BY DEF InTime
  <2> QED
    BY <1>1, <2>1, DevicesAssumption DEF NonePrelocked
<1>3. CASE Exit(msgs)
  BY <1>3 DEF Exit, AllFree
<1>4. CASE NoRxReq(d, rx)
  BY <1>4, ContinueFree DEF NoRxReq
<1>5. CASE Receives(q, d, rx)
  <2>1. PICK r : \E v1 :
          /\ prepare_rx(d, rx, r, v1)
          /\ \/ q.msg = "RX" /\ r = map_rxv1_to_rxv2(q.body)
             \/ q.msg = "RXV2" /\ r = q.body
    BY <1>5, Zenon DEF Receives
  <2>2. r.prelocked_tx = FALSE
    <3>1. CASE q.msg = "RX" /\ r = map_rxv1_to_rxv2(q.body)
      BY <3>1 DEF map_rxv1_to_rxv2
    <3>2. CASE q.msg = "RXV2" /\ r = q.body
      <4>1. r \in Rxv2
        BY <1>2, <3>2, RequestTypes
      <4> QED
        BY <1>2, <3>2, <4>1 DEF NotPrelocked, Rxv2
    <3> QED
      BY <2>1, <3>1, <3>2
  <2>3. \A v1 : StartedRx(rx, r, v1).rx_s = r
    BY Zenon DEF StartedRx, rx_status_t
  <2>4. \A v1 : Free(StartedRx(rx, r, v1))
    BY <2>2, <2>3 DEF Free
  <2> QED
    BY <2>1, <2>4, ContinueFree DEF prepare_rx
<1> QED
  BY <1>1, <1>3, <1>4, <1>5, Zenon DEF Accepted

LEMMA SearchesStayFree ==
  ASSUME StateOK, InTime, AllFree, NonePrelocked, NEW d \in Dev,
         NEW rx \in rx_status_t, Free(rx), NEW msgs
  PROVE  /\ rx_enqueue_search_reeval(d, rx, msgs) => AllFree'
         /\ RxFound(d, rx, msgs) => AllFree'
         /\ SearchStart(d, rx, msgs) => AllFree'
         /\ rx_scan_ended(d, rx, msgs) => AllFree'
<1>1. \A r \in rx_status_t :
        Free(r) /\ rx_enqueue_search_reeval(d, r, msgs) => AllFree'
  BY FreeKept, ContinueFree DEF rx_enqueue_search_reeval, Continue
<1>2. \A r \in rx_status_t : Free(r) /\ RxFound(d, r, msgs) => AllFree'
  <2> SUFFICES ASSUME NEW r \in rx_status_t, Free(r), RxFound(d, r, msgs)
               PROVE  AllFree'
    OBVIOUS
  <2>1. \/ rx_a' = [rx_a EXCEPT ![d] = Locked(r, tx_list[r.tx_nbr])]
        \/ rx_enqueue_search_reeval(d, r, msgs)
    BY Zenon DEF RxFound, Continue
  <2> QED
    BY <1>1, <2>1, FreeKept, ContinueFree
<1>3. SearchStart(d, rx, msgs) => AllFree'
  <2> SUFFICES ASSUME SearchStart(d, rx, msgs)
               PROVE  AllFree'
    OBVIOUS
  <2>1. \/ rx_enqueue_search_reeval(d, rx, msgs)
        \/ \E i \in Dev :
             RxFound(d, [rx EXCEPT !.tx_nbr = i, !.state = NotSearching], msgs)
    BY SearchStartFinds, Zenon DEF Free
  <2>2. \A i \in Dev : LET r == [rx EXCEPT !.tx_nbr = i, !.state = NotSearching]
                       IN r \in rx_status_t /\ Free(r)
    BY FoundType, FreeKept DEF DevOrNone
  <2> QED
    BY <1>1, <1>2, <2>1, <2>2
<1>4. rx_scan_ended(d, rx, msgs) => AllFree'
  <2> DEFINE r == [rx EXCEPT !.rx_time_stamp = current_time, !.status = "NOSYNC",
                             !.state = NotSearching]
  <2>1. r \in rx_status_t /\ Free(r)
    BY NowType, StatusTypes, FreeKept DEF RxStatus
  <2>2. rx_scan_ended(d, rx, msgs) => RxDone(d, r, msgs)
    BY DEF rx_scan_ended
  <2> HIDE DEF r
  <2> QED
    BY <2>1, <2>2, NextRequestFree DEF RxDone
<1> QED
  BY <1>1, <1>2, <1>3, <1>4

LEMMA RecheckEndsFree ==
  ASSUME StateOK, AllFree, NEW d \in Dev, NEW msgs
  PROVE  /\ RecheckExits(d, msgs) => AllFree'
         /\ \A rx : Free(rx) /\ RecheckLeaves(d, rx, msgs) => AllFree'
BY ContinueFree DEF RecheckExits, RecheckLeaves, Exit, AllFree

LEMMA RecheckedFree ==
  ASSUME StateOK, InTime, AllFree, NEW d \in Dev, NEW scanning \in BOOLEAN,
         NEW rx \in Rechecked(d, scanning)
  PROVE  rx \in rx_status_t /\ Free(rx)
<1>1. rx_a[d] \in rx_status_t /\ Free(rx_a[d])
  BY DEF StateOK, AllFree
<1> QED
  BY <1>1, RecheckedType, FreeKept DEF Rechecked

LEMMA SyncStaysFree ==
  ASSUME StateOK, InTime, AllFree, NonePrelocked, NEW d \in Dev,
         NEW rx0 \in rx_status_t, Free(rx0), NEW msgs0
  PROVE  SyncDone(d, rx0, msgs0) => AllFree'
<1> SUFFICES ASSUME SyncDone(d, rx0, msgs0)
             PROVE  AllFree'
  OBVIOUS
<1> DEFINE rx == [rx0 EXCEPT !.biterrors = 0, !.rx_time_stamp = rx0.sync_end,
                             !.status = "INPROGRESS"]
           msgs == Append(msgs0, rx_resp_addr_found(d, rx))
<1>1. rx \in rx_status_t /\ Free(rx)
  <2>1. rx0.sync_end \in Nat
    BY DEF rx_status_t
  <2> QED
    BY <2>1, StatusTypes, FreeKept DEF RxStatus
<1>2. \/ rx_a' = [rx_a EXCEPT ![d] = rx]
      \/ \E a, e : Continue(d, [rx EXCEPT !.rx_s.abort = a], e, msgs)
      \/ \E e : Continue(d, rx, e, msgs)
      \/ Exit(msgs)
      \/ p2G4_handle_next_request(d, used, max_tx_nbr, rx, cca_a[d], msgs)
  BY Zenon DEF SyncDone
<1> HIDE DEF rx, msgs
<1>3. \A a : Free([rx EXCEPT !.rx_s.abort = a])
  BY <1>1, FreeKept
<1>4. CASE p2G4_handle_next_request(d, used, max_tx_nbr, rx, cca_a[d], msgs)
  BY <1>1, <1>4, NextRequestFree
<1>5. CASE Exit(msgs)
  BY <1>5 DEF Exit, AllFree
<1> QED
  BY <1>1, <1>2, <1>3, <1>4, <1>5, ContinueFree DEF Continue

LEMMA ReceptionStaysFree ==
  ASSUME StateOK, InTime, AllFree, NonePrelocked, NEW d \in Dev,
         \/ f_rx_search_start(d) \/ f_rx_search_reeval(d) \/ f_rx_found(d)
         \/ f_rx_sync(d) \/ f_rx_header(d) \/ f_rx_payload(d)
  PROVE  AllFree'
<1>1. rx_a[d] \in rx_status_t /\ Free(rx_a[d])
  BY DEF StateOK, AllFree
<1>2. \A rx \in rx_status_t : \A msgs :
        Free(rx) =>
          /\ Sync(d, rx, msgs) => AllFree'
          /\ Header(d, rx, msgs) \/ Payload(d, rx, msgs) => AllFree'
  <2> SUFFICES ASSUME NEW rx \in rx_status_t, NEW msgs, Free(rx)
               PROVE  /\ Sync(d, rx, msgs) => AllFree'
                      /\ Header(d, rx, msgs) \/ Payload(d, rx, msgs) => AllFree'
    OBVIOUS
  <2>1. \A r, e : Free(r) /\ Continue(d, r, e, msgs) => AllFree'
    BY ContinueFree DEF Continue
  <2>2. \A r \in BitErrorCalc(rx) : r \in rx_status_t /\ Free(r)
    BY BitErrorCalcType, FreeKept
  <2>3. \A r \in rx_status_t : Free(r) /\ SyncDone(d, r, msgs) => AllFree'
    BY SyncStaysFree
  <2>4. \A r : Free(r) /\ SyncLost(d, r, msgs) => AllFree'
    BY <2>1 DEF SyncLost
  <2>5. Sync(d, rx, msgs) => AllFree'
    BY <2>1, <2>2, <2>3, <2>4, SearchesStayFree, Zenon DEF Sync
  <2>6. \A s \in RxStatus : RxDone(d, [rx EXCEPT !.status = s], msgs) => AllFree'
    BY StatusTypes, FreeKept, NextRequestFree DEF RxDone
  <2>7. {"HEADER_ERROR", "PACKET_CONTENT_ERROR", "OK"} \subseteq RxStatus
    BY DEF RxStatus
  <2>8. Header(d, rx, msgs) \/ Payload(d, rx, msgs) => AllFree'
    BY <2>1, <2>6, <2>7, Zenon DEF Header, Payload
  <2> QED
    BY <2>5, <2>8
<1>3. CASE f_rx_found(d)
  BY <1>1, <1>3, SearchesStayFree DEF f_rx_found
<1>4. CASE \/ f_rx_search_start(d) \/ f_rx_search_reeval(d) \/ f_rx_sync(d)
           \/ f_rx_header(d) \/ f_rx_payload(d)
  <2>1. PICK scanning \in BOOLEAN : \E msgs :
          \/ RecheckExits(d, msgs)
          \/ RecheckLeaves(d, [rx_a[d] EXCEPT !.state = NotSearching], msgs)
          \/ RecheckLeaves(d, rx_a[d], msgs)
          \/ \E rx \in Rechecked(d, scanning) :
               \/ SearchStart(d, rx, msgs)
               \/ rx_scan_ended(d, rx, msgs)
               \/ rx_enqueue_search_reeval(d, rx, msgs)
               \/ Sync(d, rx, msgs)
               \/ \E r \in BitErrorCalc(rx) :
                    Header(d, r, msgs) \/ Payload(d, r, msgs)
    BY <1>4, Zenon
    DEF f_rx_search_start, f_rx_search_reeval, f_rx_sync, f_rx_header, f_rx_payload
  <2>2. Free([rx_a[d] EXCEPT !.state = NotSearching])
    BY <1>1, FreeKept
  <2>3. PICK msgs :
          \/ RecheckExits(d, msgs)
          \/ RecheckLeaves(d, [rx_a[d] EXCEPT !.state = NotSearching], msgs)
          \/ RecheckLeaves(d, rx_a[d], msgs)
          \/ \E rx \in Rechecked(d, scanning) :
               \/ SearchStart(d, rx, msgs)
               \/ rx_scan_ended(d, rx, msgs)
               \/ rx_enqueue_search_reeval(d, rx, msgs)
               \/ Sync(d, rx, msgs)
               \/ \E r \in BitErrorCalc(rx) :
                    Header(d, r, msgs) \/ Payload(d, r, msgs)
    BY <2>1
  <2>4. CASE \/ RecheckExits(d, msgs)
             \/ RecheckLeaves(d, [rx_a[d] EXCEPT !.state = NotSearching], msgs)
             \/ RecheckLeaves(d, rx_a[d], msgs)
    BY <1>1, <2>2, <2>4, RecheckEndsFree
  <2>5. ASSUME NEW rx \in Rechecked(d, scanning),
               \/ SearchStart(d, rx, msgs)
               \/ rx_scan_ended(d, rx, msgs)
               \/ rx_enqueue_search_reeval(d, rx, msgs)
               \/ Sync(d, rx, msgs)
               \/ \E r \in BitErrorCalc(rx) :
                    Header(d, r, msgs) \/ Payload(d, r, msgs)
        PROVE  AllFree'
    <3>1. /\ rx \in rx_status_t /\ Free(rx)
          /\ \A r \in BitErrorCalc(rx) : r \in rx_status_t /\ Free(r)
      BY RecheckedFree, BitErrorCalcType, FreeKept
    <3> QED
      BY <1>2, <2>5, <3>1, SearchesStayFree
  <2> QED
    BY <2>3, <2>4, <2>5
<1> QED
  BY <1>3, <1>4

LEMMA MainLoopFree ==
  ASSUME TimelyInv, NonePrelocked, AllFree, MainLoop
  PROVE  AllFree'
<1>1. PICK d \in Dev : d = next_d
  BY DEF TimelyInv, IInv, TypeOK
<1>2. /\ StateOK /\ InTime /\ rx_a[d] \in rx_status_t /\ Free(rx_a[d])
  BY <1>1, MainLoopCalls DEF StateOK, AllFree
<1>3. CASE WaitDone \/ RSSIMeas \/ TxEnd
  <2>1. \E u, m, msgs :
          p2G4_handle_next_request(d, u, m, rx_a[d], cca_a[d], msgs)
    BY <1>1, <1>3, Zenon
    DEF WaitDone, RSSIMeas, TxEnd, f_wait_done, f_RSSI_meas, f_tx_end, NextRequest
  <2> QED
    BY <1>2, <2>1, NextRequestFree
<1>4. CASE RxCCAMeas
  <2>1. \/ rx_a' = rx_a
        \/ \E cca, msgs :
             p2G4_handle_next_request(d, used, max_tx_nbr, rx_a[d], cca, msgs)
    BY <1>1, <1>4, Zenon DEF RxCCAMeas, f_cca_meas, Exit
  <2> QED
    BY <1>2, <2>1, NextRequestFree DEF AllFree
<1>5. CASE TxStart \/ TxPacketStart \/ TxPacketEnd \/ TxAbortReeval
  <2>1. rx_a' = rx_a \/ \E t : rx_a' = ActivatedRx(t, d)
    BY <1>1, <1>5, Zenon
    DEF TxStart, TxPacketStart, TxPacketEnd, TxAbortReeval, f_tx_start,
        f_tx_packet_start, f_tx_packet_end, f_tx_abort_reeval, Exit
  <2>2. \A t : \A x \in Dev : Free(ActivatedRx(t, d)[x])
    <3>1. \A x \in Dev :
            Free([rx_a[x] EXCEPT !.tx_nbr = d, !.state = NotSearching])
      BY <1>2, FreeKept DEF StateOK, AllFree
    <3> QED
      BY <3>1 DEF ActivatedRx, AllFree
  <2> QED
    BY <2>1, <2>2 DEF AllFree
<1>6. CASE \/ RxSearchStart \/ RxSearchReeval \/ RxFoundStep
           \/ RxSync \/ RxHeader \/ RxPayload
  <2>1. \/ f_rx_search_start(d) \/ f_rx_search_reeval(d) \/ f_rx_found(d)
        \/ f_rx_sync(d) \/ f_rx_header(d) \/ f_rx_payload(d)
    BY <1>1, <1>6, Zenon
    DEF RxSearchStart, RxSearchReeval, RxFoundStep, RxSync, RxHeader, RxPayload
  <2> QED
    BY <1>2, <2>1, ReceptionStaysFree
<1> QED
  BY <1>3, <1>4, <1>5, <1>6, Zenon DEF MainLoop

LEMMA AllFreeStep ==
  ASSUME TimelyInv, NonePrelocked, AllFree, [Next]_vars
  PROVE  AllFree'
<1>1. CASE Boot
  <2>1. IInv
    BY DEF TimelyInv
  <2>2. PICK d \in Dev : d = boot_d
    BY <1>1, <2>1, TypeParts, NDevsAssumption DEF IInv, Boot, Booting, Dev
  <2>3. /\ current_time = 0 /\ StateOK /\ nbr_active_devs > 0
        /\ p2G4_handle_next_request(d, used, max_tx_nbr, rx_a[d], cca_a[d], <<>>)
    BY <1>1, <2>1, <2>2, TypeParts DEF IInv, BootInv, Boot, Booting
  <2>4. InTime
    BY <2>3, SimLengthAssumption, NeverAssumption DEF InTime, Time
  <2>5. rx_a[d] \in rx_status_t /\ Free(rx_a[d])
    BY <2>3 DEF StateOK, AllFree
  <2> QED
    BY <2>3, <2>4, <2>5, NextRequestFree
<1>2. CASE StartLoop \/ EndLoop \/ Exited \/ UNCHANGED vars
  <2>1. rx_a' = rx_a
    BY <1>2, Zenon DEF StartLoop, EndLoop, Exited, vars
  <2> QED
    BY <2>1 DEF AllFree
<1>3. CASE MainLoop
  BY <1>3, MainLoopFree
<1> QED
  BY <1>1, <1>2, <1>3 DEF Next

(***************************************************************************)
(* What the first look of a search leaves in the status rx of device d.    *)
(***************************************************************************)
FirstFit(d, rx) ==
  LET fitting == {i \in Dev : Fits(i, rx)}
  IN \/ /\ fitting = {}
        /\ fq'[d].index = Rx_Search_reeval
     \/ /\ rx.tx_nbr \in fitting
        /\ \A i \in fitting : rx.tx_nbr <= i

LEMMA LowestFits ==
  ASSUME MaxTxNbrIsHighest, phase # "error",
         NEW rx, NEW j \in DevOrNone, find_fitting_tx(rx, j), NEW i \in Dev, Fits(i, rx)
  PROVE  j # -1 /\ j <= i
<1>1. i <= max_tx_nbr
  <2>1. used[i] # TXS_OFF
    BY DEF Fits, PacketOngoing, TXS_OFF
  <2> QED
    BY <2>1 DEF MaxTxNbrIsHighest
<1>2. i \in Int /\ j \in Int
  BY DEF Dev, DevOrNone
<1> QED
  BY <1>1, <1>2 DEF find_fitting_tx

LEMMA SearchTriesFirst ==
  ASSUME TimelyInv, AllFree, MainLoop, NEW d \in Dev, d = next_d,
         fq[d].index = Rx_Search_start,
         fq'[d].index \in {Rx_Search_reeval, Rx_Sync}
  PROVE  FirstFit(d, rx_a'[d])
<1>1. /\ StateOK /\ InTime /\ f_rx_search_start(d) /\ MaxTxNbrIsHighest
      /\ phase # "error"
  BY MainLoopCalls, CalledHandler DEF TimelyInv, IInv
<1>2. PICK msgs \in RecheckMsgs(d) :
        \/ RecheckExits(d, msgs)
        \/ RecheckLeaves(d, [rx_a[d] EXCEPT !.state = NotSearching], msgs)
        \/ \E rx \in Rechecked(d, TRUE) : SearchStart(d, rx, msgs)
  BY <1>1, Zenon DEF f_rx_search_start
<1>3. {Rx_Search_reeval, Rx_Sync} \cap {Rx_Search_start, State_None} = {}
  BY DEF Rx_Search_reeval, Rx_Search_start, State_None, Rx_Sync
<1>4. ~RecheckExits(d, msgs)
  BY <1>3 DEF RecheckExits, Exit
<1>5. ~RecheckLeaves(d, [rx_a[d] EXCEPT !.state = NotSearching], msgs)
  <2>1. fq_remove(fq, d)[d].index = State_None
    BY <1>1 DEF fq_remove, Event, StateOK
  <2> QED
    BY <1>3, <2>1 DEF RecheckLeaves
<1>6. PICK rx \in Rechecked(d, TRUE) : SearchStart(d, rx, msgs)
  BY <1>2, <1>4, <1>5
<1>7. rx \in rx_status_t /\ Free(rx)
  BY <1>1, RecheckedFree
<1>8. \A r \in rx_status_t :
        rx_enqueue_search_reeval(d, r, msgs) =>
          /\ rx_a'[d].rx_s = r.rx_s
          /\ rx_a'[d].tx_nbr = r.tx_nbr
          /\ fq'[d].index = Rx_Search_reeval
  <2> SUFFICES ASSUME NEW r \in rx_status_t, rx_enqueue_search_reeval(d, r, msgs)
               PROVE  /\ rx_a'[d].rx_s = r.rx_s /\ rx_a'[d].tx_nbr = r.tx_nbr
                      /\ fq'[d].index = Rx_Search_reeval
    OBVIOUS
  <2>1. /\ rx_a'[d] = [r EXCEPT !.state = Searching]
        /\ fq'[d].index = Rx_Search_reeval
    BY <1>1 DEF rx_enqueue_search_reeval, Continue, Event, StateOK
  <2> QED
    BY <2>1, Zenon DEF rx_status_t
<1>9. \A r, j : r.rx_s = rx_a'[d].rx_s => (Fits(j, r) <=> Fits(j, rx_a'[d]))
  BY Zenon DEF Fits, tx_and_rx_match
<1>10. CASE find_fitting_tx(rx, -1) /\ rx_enqueue_search_reeval(d, rx, msgs)
  <2>1. /\ rx_a'[d].rx_s = rx.rx_s
        /\ fq'[d].index = Rx_Search_reeval
    BY <1>7, <1>8, <1>10
  <2>2. \A i \in Dev : ~Fits(i, rx)
    BY <1>1, <1>10, LowestFits DEF DevOrNone
  <2> QED
    BY <1>9, <2>1, <2>2 DEF FirstFit
<1>11. ASSUME NEW j \in Dev, find_fitting_tx(rx, j), Fits(j, rx),
              RxFound(d, [rx EXCEPT !.tx_nbr = j, !.state = NotSearching], msgs)
       PROVE  FirstFit(d, rx_a'[d])
  <2> DEFINE r == [rx EXCEPT !.tx_nbr = j, !.state = NotSearching]
  <2>1. r \in rx_status_t /\ r.tx_nbr = j /\ r.rx_s = rx.rx_s
    <3>1. r \in rx_status_t
      BY <1>7, FoundType DEF DevOrNone
    <3>2. r.tx_nbr = j /\ r.rx_s = rx.rx_s
      BY <1>7, Zenon DEF rx_status_t
    <3> QED
      BY <3>1, <3>2
  <2>2. RxFound(d, r, msgs)
    BY <1>11
  <2> HIDE DEF r
  <2>3. rx_a'[d].rx_s = rx.rx_s /\ rx_a'[d].tx_nbr = j
    <3>1. CASE rx_enqueue_search_reeval(d, r, msgs)
      BY <1>8, <2>1, <3>1
    <3>2. CASE Continue(d, Locked(r, tx_list[r.tx_nbr]),
                        NextSync(Locked(r, tx_list[r.tx_nbr])), msgs)
      <4>1. rx_a'[d] = Locked(r, tx_list[r.tx_nbr])
        BY <1>1, <3>2 DEF Continue, StateOK
      <4>2. \A t : /\ Locked(r, t).rx_s = r.rx_s
                   /\ Locked(r, t).tx_nbr = r.tx_nbr
        BY <2>1, Zenon DEF Locked, rx_status_t
      <4> QED
        BY <2>1, <4>1, <4>2
    <3> QED
      BY <2>2, <3>1, <3>2, Zenon DEF RxFound
  <2>4. Fits(j, rx_a'[d])
    BY <1>9, <1>11, <2>3
  <2>5. \A i \in Dev : Fits(i, rx_a'[d]) => j <= i
    <3>1. \A i \in Dev : Fits(i, rx_a'[d]) => Fits(i, rx)
      BY <1>9, <2>3
    <3>2. \A i \in Dev : Fits(i, rx) => j <= i
      BY <1>1, <1>11, LowestFits DEF DevOrNone
    <3> QED
      BY <3>1, <3>2
  <2> QED
    BY <2>3, <2>4, <2>5 DEF FirstFit
<1> QED
  BY <1>6, <1>7, <1>10, <1>11, SearchStartFinds, Zenon DEF Free

(***************************************************************************)
(* The first look of a search goes to the packet of the lowest device of   *)
(* all that fit, if no reception is prelocked: find_fitting_tx() looks at  *)
(* every transmission up to max_tx_nbr, and none is above it.              *)
(***************************************************************************)
THEOREM SearchesTryFirstFit ==
  ASSUME NonePrelocked
  PROVE  Spec => SearchTriesFirstFit
<1>1. Init => AllFree
  BY DEF Init, NoRx, AllFree, Free
<1>2. TimelyInv /\ AllFree /\ [Next]_vars => AllFree'
  BY AllFreeStep
<1>3. TimelyInv /\ AllFree /\ [Next]_vars =>
        [\A d \in Dev :
           LET rx      == rx_a'[d]
               fitting == {i \in Dev : Fits(i, rx)}
           IN /\ d = next_d
              /\ fq[d].index = Rx_Search_start
              /\ fq'[d].index \in {Rx_Search_reeval, Rx_Sync}
              /\ ~rx.rx_s.prelocked_tx
              =>
              \/ /\ fitting = {}
                 /\ fq'[d].index = Rx_Search_reeval
              \/ /\ rx.tx_nbr \in fitting
                 /\ \A i \in fitting : rx.tx_nbr <= i]_vars
  <2> SUFFICES ASSUME TimelyInv, AllFree, [Next]_vars, NEW d \in Dev, d = next_d,
                      fq[d].index = Rx_Search_start,
                      fq'[d].index \in {Rx_Search_reeval, Rx_Sync}
               PROVE  FirstFit(d, rx_a'[d])
    BY DEF FirstFit
  <2>1. MainLoop
    <3>1. /\ Rx_Search_start \notin {Rx_Search_reeval, Rx_Sync, State_None}
          /\ Rx_Found \notin {Rx_Search_reeval, Rx_Sync}
      BY DEF Rx_Search_reeval, Rx_Search_start, Rx_Found, State_None, Rx_Sync
    <3> QED
      BY <3>1, OnlyCalledMoves
  <2> QED
    BY <2>1, SearchTriesFirst
<1> QED
  BY Timeliness, <1>1, <1>2, <1>3, PTL DEF Spec, SearchTriesFirstFit
=============================================================================
