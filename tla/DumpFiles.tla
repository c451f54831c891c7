------------------------------ MODULE DumpFiles -------------------------------
(***************************************************************************)
(* Dump files (src/src/p2G4_dump.c): one per device and kind of activity,  *)
(* either written, or compared line by line with those of an earlier run.  *)
(*                                                                         *)
(* A line is a value; a file is the sequence of the lines that follow its  *)
(* heading.                                                                *)
(***************************************************************************)
EXTENDS Integers, Sequences

CONSTANTS
  Types,        \* the kinds of activity: "Tx", "ModemRx", ...
  MAX_ERRORS,   \* how many differences before a file is ignored
  Closed,       \* a null FILE pointer
  Missing,      \* a file that does not exist
  Blank,        \* a file that has not even a heading
  TooLong       \* a line of ModemRx that does not fit its buffer

ASSUME MaxErrorsAssumption == MAX_ERRORS \in Nat

VARIABLES
  comp, stop_on_diff,   \* the modes
  disk,                 \* the files on the disk
  file,                 \* txv1_f[], ..., modemrx_f[]: what is left to read
  stats                 \* how many lines were dumped, and how many differed

dumpVars == <<comp, stop_on_diff, disk, file, stats>>

FilesOf(n_devs) == Types \X (0 .. n_devs - 1)

\* The pointers and counters of dump.c, before anything was opened.
DumpInit ==
  /\ comp = FALSE /\ stop_on_diff = FALSE
  /\ file = <<>> /\ stats = <<>>

(***************************************************************************)
(* An old file without a heading is not checked; a new file is emptied.    *)
(***************************************************************************)
open_file(compare, contents) ==
  IF ~compare THEN <<>>
  ELSE IF contents = Blank THEN Closed ELSE contents

open_dump_files(compare, stop, n_devs) ==
  /\ comp' = compare
  /\ stop_on_diff' = stop
  /\ file' = [f \in FilesOf(n_devs) |-> open_file(compare, disk[f])]
  /\ stats' = [f \in FilesOf(n_devs) |-> [nbr |-> 0, er |-> 0]]
  /\ disk' = IF compare THEN disk ELSE [f \in FilesOf(n_devs) |-> <<>>]

\* bs_fopen() ends the program when there is no old file.
OldFileMissing(compare, n_devs) ==
  compare /\ \E f \in FilesOf(n_devs) : disk[f] = Missing

(***************************************************************************)
(* print_or_compare() in compare mode, of a line with what is left of the  *)
(* old file.                                                               *)
(***************************************************************************)
Matches(left, line) == left # <<>> /\ Head(left) = line

\* Variant: the file is given up one difference early.
LeftEarly(er, left) ==
  IF left = <<>> \/ er >= MAX_ERRORS THEN Closed ELSE Tail(left)

\* Variant: the file is never given up.
LeftForever(er, left) == IF left = <<>> THEN Closed ELSE Tail(left)

LeftAfter(er, left) ==
  IF left = <<>> \/ er > MAX_ERRORS THEN Closed ELSE Tail(left)

(***************************************************************************)
(* A file that ended with one difference too many is closed twice, the     *)
(* second time with a null pointer.                                        *)
(***************************************************************************)
\* Variant: a difference at the end of the old file does not stop.
DiffOutcomeLines(er, left) ==
  IF left = <<>> THEN IF er > MAX_ERRORS THEN "crash" ELSE "ok"
  ELSE IF stop_on_diff THEN "error" ELSE "ok"

DiffOutcome(er, left) ==
  IF stop_on_diff THEN "error"
  ELSE IF left = <<>> /\ er > MAX_ERRORS THEN "crash" ELSE "ok"

(***************************************************************************)
(* dump_txv1(), ..., dump_ModemRx(): nothing happens without a file.  When *)
(* dump_ModemRx() has too many devices for its buffer, it closes the file  *)
(* and goes on with it.                                                    *)
(***************************************************************************)
IsOpen(f) == f \in DOMAIN file /\ file[f] # Closed

Differs(f, line) == comp /\ ~Matches(file[f], line)

DumpOutcome(f, line) ==
  IF ~IsOpen(f) THEN "ok"
  ELSE IF line = TooLong THEN "crash"
  ELSE IF ~Differs(f, line) THEN "ok"
  ELSE DiffOutcome(stats[f].er + 1, file[f])

dump(f, line) ==
  LET er == stats[f].er + 1
  IN /\ IF ~IsOpen(f)
        THEN UNCHANGED <<disk, file, stats>>
        ELSE IF line = TooLong
        THEN /\ file' = [file EXCEPT ![f] = Closed]
             /\ stats' = [stats EXCEPT ![f].nbr = @ + 1]
             /\ UNCHANGED disk
        ELSE IF ~comp
        THEN /\ disk' = [disk EXCEPT ![f] = Append(@, line)]
             /\ stats' = [stats EXCEPT ![f].nbr = @ + 1]
             /\ UNCHANGED file
        ELSE IF Differs(f, line)
        THEN /\ file' = [file EXCEPT ![f] = LeftAfter(er, @)]
             /\ stats' = [stats EXCEPT ![f] = [nbr |-> @.nbr + 1, er |-> er]]
             /\ UNCHANGED disk
        ELSE /\ file' = [file EXCEPT ![f] = Tail(@)]
             /\ stats' = [stats EXCEPT ![f].nbr = @ + 1]
             /\ UNCHANGED disk
     /\ UNCHANGED <<comp, stop_on_diff>>

(***************************************************************************)
(* close_dump_files() returns whether any line differed.                   *)
(***************************************************************************)
\* Variant: files that were closed before the end are not counted.
CloseErrorsOpen ==
  IF comp /\ \E f \in DOMAIN stats : stats[f].er # 0 /\ IsOpen(f) THEN 1 ELSE 0

close_dump_files ==
  IF comp /\ \E f \in DOMAIN stats : stats[f].er # 0 THEN 1 ELSE 0
=============================================================================
