------------------------- MODULE FuncQueueScanProofs -------------------------
(***************************************************************************)
(* The scan of fq_find_next() finds the first entry, for every number of   *)
(* devices and every contents of the queue.                                *)
(***************************************************************************)
EXTENDS FuncQueueScan, TLAPS

(***************************************************************************)
(* Before the first iteration the choice is entry 0, the only one seen.    *)
(***************************************************************************)
LEMMA ScanInvInit == Init => ScanInv
<1> SUFFICES ASSUME Init PROVE ScanInv
  OBVIOUS
<1> USE NDevsAssumption DEF Init, Dev, Entry
<1>1. TypeOK
  BY DEF TypeOK
<1>2. \A d \in 0 .. i - 1 : d # next_d => Precedes(fq, next_d, d)
  OBVIOUS
<1> QED
  BY <1>1, <1>2 DEF ScanInv

(***************************************************************************)
(* An iteration keeps the choice first among the entries seen: the new     *)
(* entry replaces it exactly if it comes before it.  Entries seen later    *)
(* have higher numbers, so that equal ones never replace it.               *)
(***************************************************************************)
LEMMA ScanInvStep == ScanInv /\ [Next]_vars => ScanInv'
<1> SUFFICES ASSUME ScanInv, [Next]_vars PROVE ScanInv'
  OBVIOUS
<1> USE DEF ScanInv
<1>1. CASE Iterate
  <2> USE NDevsAssumption, TimesAssumption, IndexesAssumption, <1>1
  <2>1. /\ i \in Dev /\ i' = i + 1 /\ fq' = fq /\ i' \in 1 .. n_devs
    BY DEF Iterate, TypeOK, Dev
  <2>2. ASSUME NEW d \in Dev PROVE fq[d].time \in Int /\ fq[d].index \in Int
    <3>1. fq[d] \in Entry
      BY DEF TypeOK
    <3>2. fq[d].time \in Times /\ fq[d].index \in Indexes
      BY <3>1 DEF Entry
    <3>3. fq[d].time \in Nat /\ fq[d].index \in f_index_t
      BY <3>2
    <3> QED
      BY <3>3 DEF f_index_t, State_None, Tx_Start
  <2>3. CASE Better
    <3>1. next_d' = i /\ chosen_f_time' = fq[i].time
      BY <2>3 DEF Iterate
    <3>2. TypeOK'
      BY <2>1, <3>1 DEF TypeOK, Entry
    <3>3. Precedes(fq, i, next_d)
      BY <2>3, <2>1, <2>2 DEF Better, Precedes, TypeOK
    <3>4. ASSUME NEW d \in 0 .. i' - 1, d # i
          PROVE  Precedes(fq, i, d)
      <4>1. d \in Dev /\ d < i /\ d \in 0 .. i - 1
        BY <2>1, <3>4 DEF Dev
      <4>2. CASE d = next_d
        BY <4>2, <3>3
      <4>3. CASE d # next_d
        <5>1. Precedes(fq, next_d, d)
          BY <4>1, <4>3
        <5> QED
          BY <5>1, <2>1, <2>2, <4>1, <2>3 DEF Precedes, TypeOK, Better
      <4> QED
        BY <4>2, <4>3
    <3> QED
      BY <2>1, <3>1, <3>2, <3>4 DEF Dev
  <2>4. CASE ~Better
    <3>1. next_d' = next_d /\ chosen_f_time' = chosen_f_time
      BY <2>4 DEF Iterate
    <3>2. TypeOK'
      BY <2>1, <3>1 DEF TypeOK
    <3>3. Precedes(fq, next_d, i)
      BY <2>4, <2>1, <2>2 DEF Better, Precedes, TypeOK, Dev
    <3>4. ASSUME NEW d \in 0 .. i' - 1, d # next_d
          PROVE  Precedes(fq, next_d, d)
      BY <2>1, <3>3, <3>4 DEF Dev
    <3> QED
      BY <2>1, <3>1, <3>2, <3>4 DEF TypeOK, Dev
  <2> QED
    BY <2>3, <2>4
<1>2. CASE UNCHANGED vars
  BY <1>2 DEF vars, TypeOK, Precedes
<1> QED
  BY <1>1, <1>2 DEF Next, Finished

(***************************************************************************)
(* The scan maintains that its choice is the first of the entries seen.    *)
(***************************************************************************)
THEOREM ScanInvariant == Spec => []ScanInv
  BY ScanInvInit, ScanInvStep, PTL DEF Spec

(***************************************************************************)
(* When fq_find_next() returns, its choice is the entry that comes first   *)
(* in the order (time, function index, device).                            *)
(***************************************************************************)
THEOREM ScanFinds == Spec => []ScanFindsNext
<1>1. ScanInv => ScanFindsNext
  BY DEF ScanInv, ScanFindsNext, IsNext, Dev, TypeOK
<1> QED
  BY ScanInvariant, <1>1, PTL

(***************************************************************************)
(* The order leaves no choice: no two entries can both be the next one, so *)
(* that what the main loop calls is determined by the queue.               *)
(***************************************************************************)
THEOREM NextIsUnique ==
  ASSUME NEW q \in [Dev -> [time : Nat, index : f_index_t]],
         NEW a, NEW b, IsNext(q, a), IsNext(q, b)
  PROVE  a = b
<1> SUFFICES ASSUME a # b PROVE FALSE
  OBVIOUS
<1>1. a \in Dev /\ b \in Dev /\ Precedes(q, a, b) /\ Precedes(q, b, a)
  BY DEF IsNext
<1>2. /\ q[a].time \in Nat /\ q[b].time \in Nat
      /\ q[a].index \in Int /\ q[b].index \in Int
      /\ a \in Int /\ b \in Int
  <2>1. q[a] \in [time : Nat, index : f_index_t] /\ q[b] \in [time : Nat, index : f_index_t]
    BY <1>1
  <2>2. a \in Int /\ b \in Int
    BY <1>1, NDevsAssumption DEF Dev
  <2>3. q[a].index \in f_index_t /\ q[b].index \in f_index_t
    BY <2>1
  <2> QED
    BY <2>1, <2>2, <2>3 DEF f_index_t, State_None, Tx_Start
<1> QED
  BY <1>1, <1>2 DEF Precedes
=============================================================================
