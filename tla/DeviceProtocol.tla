---------------------------- MODULE DeviceProtocol ----------------------------
(***************************************************************************)
(* What a device sees of the Phy (src/docs/README_device_interface.md and  *)
(* the handlers of src/src/p2G4_main.c): it has one request outstanding,   *)
(* which is answered once, by the response of its kind; before that, a     *)
(* transmission, a reception or a CCA search may have its abort            *)
(* reevaluated any number of times, and a reception finds an address at    *)
(* most once.  A device that left hears no more.                           *)
(***************************************************************************)
EXTENDS SequencesExt

CONSTANT Dev

VARIABLES
  pending,   \* what each device waits for, and how far that is
  heard      \* what each device was sent in the last step

RequestKinds == {"WAIT", "RSSIMEAS", "TX", "RX", "RXV2", "CCA_MEAS"}

Waiting(request, stage) == [request |-> request, stage |-> stage]

(***************************************************************************)
(* A device that waits for nothing: it was not asked yet, or it left.      *)
(***************************************************************************)
New  == Waiting("none", "new")
Gone == Waiting("none", "gone")
Over == Waiting("none", "over")

(***************************************************************************)
(* After its response a device makes a request, or leaves.                 *)
(***************************************************************************)
NextRequest(q) == q = Gone \/ q \in {Waiting(r, "asked") : r \in RequestKinds}

Response(msg, status) == [msg |-> msg, status |-> status]

(***************************************************************************)
(* The responses that complete a request.  A reception has failed to       *)
(* synchronise if and only if it has found no address.                     *)
(***************************************************************************)
Complete(p) ==
  CASE p.request = "WAIT"     -> {Response("WAIT_END", "none")}
    [] p.request = "RSSIMEAS" -> {Response("RSSI_END", "none")}
    [] p.request = "TX"       -> {Response("TX_END", "none")}
    [] p.request = "CCA_MEAS" -> {Response("CCA_END", "none")}
    [] p.request \in {"RX", "RXV2"} ->
         {Response(IF p.request = "RX" THEN "RX_END" ELSE "RXV2_END", status) :
            status \in IF p.stage = "found"
                       THEN {"HEADER_ERROR", "PACKET_CONTENT_ERROR", "OK"}
                       ELSE {"NOSYNC"}}
    [] OTHER -> {}

AddressFound(p) ==
  CASE p.stage = "found"    -> {}
    [] p.request = "RX"     -> {Response("RX_ADDRESSFOUND", "INPROGRESS")}
    [] p.request = "RXV2"   -> {Response("RXV2_ADDRESSFOUND", "INPROGRESS")}
    [] OTHER                -> {}

(***************************************************************************)
(* In a reevaluation the device may ask for immediate RSSI measurements.   *)
(***************************************************************************)
Reevaluation(p, h) ==
  /\ h # <<>> => p.request \in {"TX", "RX", "RXV2", "CCA_MEAS"}
  /\ \A k \in DOMAIN h :
       h[k].msg = IF k = 1 THEN "ABORTREEVAL" ELSE "IMMRSSI_RRSI_DONE"

EndsWith(p, h, responses) ==
  h # <<>> /\ Last(h) \in responses /\ Reevaluation(p, Front(h))

------------------------------------------------------------------------------
Init ==
  /\ pending = [d \in Dev |-> New]
  /\ heard = [d \in Dev |-> <<>>]

(***************************************************************************)
(* What may happen to a device, between p and q, hearing h.                *)
(***************************************************************************)
FirstRequest(p, q, h) == p = New /\ NextRequest(q) /\ h = <<>>

(***************************************************************************)
(* The request goes on, possibly reevaluated: it may start, and a          *)
(* reception that lost its packet may start over.                          *)
(***************************************************************************)
GoOn(p, q, h) ==
  /\ q.request = p.request
  /\ \/ q.stage = p.stage
     \/ p.stage = "asked" /\ q.stage = "started"
     \/ p.stage = "started" /\ q.stage = "asked" /\ p.request \in {"RX", "RXV2"}
  /\ Reevaluation(p, h)

Leave(p, q, h) == h # <<>> /\ Reevaluation(p, h) /\ q = Gone

\* The device may stop the reception, and makes its next request.
FindAddress(p, q, h) ==
  /\ EndsWith(p, h, AddressFound(p))
  /\ q = Waiting(p.request, "found") \/ NextRequest(q)

Respond(p, q, h) == EndsWith(p, h, Complete(p)) /\ NextRequest(q)

\* The simulation is over for everybody, in the middle of anything.
BeOver(p, q, h) ==
  /\ q = Over
  /\ Reevaluation(p, h) \/ EndsWith(p, h, AddressFound(p) \cup Complete(p))

Step(p, q, h) ==
  \/ FirstRequest(p, q, h)
  \/ GoOn(p, q, h)
  \/ Leave(p, q, h)
  \/ FindAddress(p, q, h)
  \/ Respond(p, q, h)
  \/ BeOver(p, q, h)

(***************************************************************************)
(* The Phy speaks with one device at a time.                               *)
(***************************************************************************)
Next ==
  /\ \A d \in Dev : Step(pending[d], pending'[d], heard'[d])
  /\ \A d, e \in Dev : d = e \/ heard'[d] = <<>> \/ heard'[e] = <<>>

Spec == Init /\ [][Next]_<<pending, heard>>
=============================================================================
