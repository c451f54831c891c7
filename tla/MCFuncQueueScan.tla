--------------------------- MODULE MCFuncQueueScan ---------------------------
(***************************************************************************)
(* All queues of three devices over three times, TIME_NEVER among them,    *)
(* and all the function indexes.                                           *)
(***************************************************************************)
EXTENDS FuncQueueScan

MCTimes == {1, 2, TIME_NEVER}
MCIndexes == {State_None, Tx_End, Rx_Payload, Rx_Search_start, Tx_Start}
=============================================================================
