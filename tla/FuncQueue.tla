------------------------------ MODULE FuncQueue ------------------------------
(***************************************************************************)
(* The function queue of the Phy (src/src/p2G4_func_queue.c): one entry    *)
(* per device interface, holding the time at which, and the index of the   *)
(* function with which, the main loop will next call that interface.       *)
(*                                                                         *)
(* A queue is a function from devices to entries.  This module holds its   *)
(* operations; the scan that fq_find_next() performs to find the next      *)
(* entry is the state machine of module FuncQueueScan.                     *)
(***************************************************************************)
EXTENDS Integers

CONSTANTS
  n_devs,      \* number of device interfaces of the simulation (option -D)
  TIME_NEVER   \* the largest bs_time_t: the time at which nothing happens

ASSUME NDevsAssumption == n_devs \in Nat \ {0}
ASSUME NeverAssumption == TIME_NEVER \in Nat

Dev == 0 .. n_devs - 1

(***************************************************************************)
(* f_index_t.  The numbers are the enum's: they are the priorities of the  *)
(* events that fall in the same microsecond, higher first.                 *)
(***************************************************************************)
\* Variant: a transmission ends before anything else of its microsecond.
Tx_End_first == 15

State_None       == 0
Wait_Done        == 1
Tx_End           == 2
Tx_Packet_End    == 3
Rx_CCA_meas      == 4
RSSI_Meas        == 5
Rx_Found         == 6
Rx_Sync          == 7
Rx_Header        == 8
Rx_Payload       == 9
Tx_Abort_Reeval  == 10
Tx_Packet_Start  == 11
Rx_Search_reeval == 12
Rx_Search_start  == 13
Tx_Start         == 14

f_index_t == State_None .. Tx_Start

Event(time, index) == [time |-> time, index |-> index]

fq_add(fq, time, index, d) == [fq EXCEPT ![d] = Event(time, index)]

\* Variant: the function index is not reset.
fq_remove_time(fq, d) == [fq EXCEPT ![d].time = TIME_NEVER]

fq_remove(fq, d) == [fq EXCEPT ![d] = Event(TIME_NEVER, State_None)]

fq_init == [d \in Dev |-> Event(TIME_NEVER, State_None)]

(***************************************************************************)
(* Entry a is called before entry b: lower time, then higher function      *)
(* index, then lower device number (the comment of fq_find_next()).        *)
(***************************************************************************)
Precedes(fq, a, b) ==
  \/ fq[a].time < fq[b].time
  \/ /\ fq[a].time = fq[b].time
     /\ \/ fq[a].index > fq[b].index
        \/ fq[a].index = fq[b].index /\ a < b

(***************************************************************************)
(* n is the device whose entry the main loop calls next.                   *)
(***************************************************************************)
IsNext(fq, n) == n \in Dev /\ \A d \in Dev \ {n} : Precedes(fq, n, d)
=============================================================================
