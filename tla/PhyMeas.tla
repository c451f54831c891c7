------------------------------- MODULE PhyMeas -------------------------------
(***************************************************************************)
(* The handlers of waits, RSSI measurements and CCA searches (f_wait_done, *)
(* f_RSSI_meas and f_cca_meas of src/src/p2G4_main.c).                     *)
(*                                                                         *)
(* Whether a measured level is over a threshold is nondeterministic; a     *)
(* modulated signal is only found while a compatible transmission is on.   *)
(***************************************************************************)
EXTENDS PhyRx

NextRequest(d, msgs) ==
  p2G4_handle_next_request(d, used, max_tx_nbr, rx_a[d], cca_a[d], msgs)

f_wait_done(d) == NextRequest(d, <<Msg(d, "WAIT_END", "none")>>)

f_RSSI_meas(d) == NextRequest(d, <<Msg(d, "RSSI_END", "none")>>)

------------------------------------------------------------------------------
(***************************************************************************)
(* stop_when_found is a bit mask: 1 stops at a modulated signal, 2 at a    *)
(* level over the threshold.                                               *)
(***************************************************************************)
StopsOnModulation(req) == req.stop_when_found \in {1, 3}
StopsOnLevel(req)      == req.stop_when_found \in {2, 3}

find_fitting_tx_cca(req) ==
  \E i \in Dev :
    /\ i <= max_tx_nbr
    /\ used[i] # TXS_OFF
    /\ tx_list[i].radio_params = req.radio_params

(***************************************************************************)
(* The status after a measurement, for the level and the modulated signal  *)
(* being over their thresholds or not.                                     *)
(***************************************************************************)
Measured(cca, level, modulated) ==
  [cca EXCEPT
     !.rssi_overthreshold = @ \/ level,
     !.mod_found = @ \/ modulated,
     !.scan_end = IF \/ level /\ StopsOnLevel(cca.req)
                     \/ modulated /\ StopsOnModulation(cca.req)
                  THEN current_time
                  ELSE @,
     !.next_meas = @ + cca.req.scan_period,
     !.n_meas = @ + 1]

Measurements(cca) ==
  IF current_time >= cca.next_meas
  THEN {Measured(cca, level, modulated) : level \in BOOLEAN,
          modulated \in IF find_fitting_tx_cca(cca.req) THEN BOOLEAN ELSE {FALSE}}
  ELSE {cca}

(***************************************************************************)
(* The abort reevaluation of a CCA search.                                 *)
(***************************************************************************)
CcaRecheckDue(d) == current_time >= cca_a[d].req.abort.recheck_time

CcaReevaluated(cca, abort) ==
  [cca EXCEPT !.req.abort = abort,
              !.scan_end = BSMin(@, abort.abort_time)]

CcaRechecked(d) ==
  IF CcaRecheckDue(d)
  THEN {CcaReevaluated(cca_a[d], abort) : abort \in NewAborts(d)}
  ELSE {cca_a[d]}

CcaMsgs(d) ==
  IF CcaRecheckDue(d)
  THEN {Reevaluation(d, n_imm) : n_imm \in 0 .. MaxImmRssi}
  ELSE {<<>>}

\* Variant: the next measurement is not scheduled.
NextCcaEventAtEnd(cca) ==
  Event(BSMin(cca.scan_end, cca.req.abort.recheck_time), Rx_CCA_meas)

\* Variant: the wrong function is registered for it.
NextCcaEventWait(cca) ==
  Event(BSMin(BSMin(cca.scan_end, cca.req.abort.recheck_time), cca.next_meas),
        Wait_Done)

NextCcaEvent(cca) ==
  Event(BSMin(BSMin(cca.scan_end, cca.req.abort.recheck_time), cca.next_meas),
        Rx_CCA_meas)

f_cca_meas(d) ==
  \E msgs \in CcaMsgs(d) :
    \/ CcaRecheckDue(d) /\ AbortRefused(d) /\ Exit(msgs)
    \/ /\ CcaRecheckDue(d)
       /\ DeviceLeaves(d)
       /\ fq' = fq_remove(fq, d)
       /\ sent' = msgs
       /\ UNCHANGED <<phase, used, max_tx_nbr, tx_list, rx_a, cca_a>>
    \/ \E cca0 \in CcaRechecked(d) : \E cca \in Measurements(cca0) :
         \/ /\ current_time >= cca.scan_end
            /\ p2G4_handle_next_request(d, used, max_tx_nbr, rx_a[d], cca,
                                     Append(msgs, Msg(d, "CCA_END", "none")))
         \/ /\ current_time < cca.scan_end
            /\ cca_a' = [cca_a EXCEPT ![d] = cca]
            /\ fq' = [fq EXCEPT ![d] = NextCcaEvent(cca)]
            /\ sent' = msgs
            /\ UNCHANGED <<nbr_active_devs, phase, used, max_tx_nbr, tx_list, rx_a>>
=============================================================================
