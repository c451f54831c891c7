---------------------------- MODULE FuncQueueScan ----------------------------
(***************************************************************************)
(* fq_find_next() of src/src/p2G4_func_queue.c, one step per iteration of  *)
(* its loop.  The queue does not change during the scan.                   *)
(***************************************************************************)
EXTENDS FuncQueue

CONSTANTS
  Times,       \* times an entry may hold
  Indexes      \* function indexes an entry may hold

ASSUME TimesAssumption   == Times \subseteq Nat
ASSUME IndexesAssumption == Indexes \subseteq f_index_t

VARIABLES
  fq,             \* f_queue_time[] and f_queue_f_index[]
  i,              \* the loop counter
  next_d,         \* the device chosen so far
  chosen_f_time   \* the time of its entry

vars == <<fq, i, next_d, chosen_f_time>>

Entry == [time : Times, index : Indexes]

TypeOK ==
  /\ fq \in [Dev -> Entry]
  /\ i \in 1 .. n_devs
  /\ next_d \in Dev
  /\ chosen_f_time \in Times

Init ==
  /\ fq \in [Dev -> Entry]
  /\ i = 1
  /\ next_d = 0
  /\ chosen_f_time = fq[0].time

(***************************************************************************)
(* Entry i is a better choice than the one made so far.                    *)
(***************************************************************************)
\* Variant: among equal entries the last device wins.
BetterOrSame ==
  \/ fq[i].time < chosen_f_time
  \/ fq[i].time = chosen_f_time /\ fq[i].index >= fq[next_d].index

Better ==
  \/ fq[i].time < chosen_f_time
  \/ fq[i].time = chosen_f_time /\ fq[i].index > fq[next_d].index

Iterate ==
  /\ i < n_devs
  /\ i' = i + 1
  /\ IF Better
     THEN next_d' = i /\ chosen_f_time' = fq[i].time
     ELSE UNCHANGED <<next_d, chosen_f_time>>
  /\ UNCHANGED fq

Finished == i = n_devs /\ UNCHANGED vars

Next == Iterate \/ Finished

Spec == Init /\ [][Next]_vars /\ WF_vars(Iterate)

(***************************************************************************)
(* The scan is over only with the entry that comes first in the order      *)
(* (time, index, device): the order that makes a transmission that ends in *)
(* a microsecond still be heard in it, and one that starts be found.       *)
(***************************************************************************)
ScanFindsNext == i = n_devs => IsNext(fq, next_d)

(***************************************************************************)
(* What the loop maintains: the choice is the first of the entries seen.   *)
(***************************************************************************)
ScanInv ==
  /\ TypeOK
  /\ next_d < i
  /\ chosen_f_time = fq[next_d].time
  /\ \A d \in 0 .. i - 1 : d # next_d => Precedes(fq, next_d, d)

(***************************************************************************)
(* The scan visits every entry and stops.                                  *)
(***************************************************************************)
ScanEnds == <>(i = n_devs)
=============================================================================
