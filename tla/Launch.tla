-------------------------------- MODULE Launch --------------------------------
(***************************************************************************)
(* main() (src/src/p2G4_main.c) from its command line to its exit status:  *)
(* the arguments are parsed, the channel and the modems get theirs, dump   *)
(* files are opened, the simulation dumps or compares its lines, and the   *)
(* exit status tells whether anything differed.                            *)
(*                                                                         *)
(* The simulation itself is the subject of Phy: here it produces any lines *)
(* in any order.                                                           *)
(***************************************************************************)
EXTENDS Args, DumpFiles, FiniteSets, Functions

CONSTANTS
  CommandLines,   \* the command lines the Phy may be started with
  OldFiles(_),    \* what may be on the disk, for a number of devices
  Lines,          \* what a line may be
  MaxLines        \* bound: how many lines the simulation produces

(***************************************************************************)
(* A command line is a sequence, and the numbers on it are natural.  What  *)
(* is on the disk is a file for every dump of as many devices as a command *)
(* line asks for, and the marks for files without contents are not         *)
(* contents.                                                               *)
(***************************************************************************)
DeviceCounts ==
  UNION {{line[i].nbr : i \in {j \in DOMAIN line : line[j].opt = "D"}} :
           line \in CommandLines}

ASSUME LaunchAssumption ==
  /\ \A line \in CommandLines :
       /\ Len(line) \in Nat /\ DOMAIN line = 1 .. Len(line)
       /\ \A i \in DOMAIN line : line[i].nbr \in Nat
  /\ \A n \in DeviceCounts : \A old \in OldFiles(n) :
       /\ DOMAIN old = FilesOf(n)
       /\ \A f \in FilesOf(n) : old[f] \in {Missing, Blank} \cup Seq(Lines)
  /\ {Closed, Missing, Blank} \cap Seq(Lines) = {}

VARIABLES
  phase,         \* where main() is
  argv,          \* the command line
  args,          \* what of p2G4_args_t is used later
  libs,          \* what channel_and_modem_init() got in the last step
  produced,      \* the lines the simulation produced for each file
  exit_status

vars == <<phase, argv, args, libs, produced, exit_status, dumpVars>>

NoLibs == [modem_name |-> <<>>]

NotParsed == [n_devs |-> 0, dont_dump |-> FALSE, compare |-> FALSE, stop |-> FALSE]

Init ==
  /\ phase = "parse"
  /\ argv \in CommandLines
  /\ args = NotParsed
  /\ libs = NoLibs
  /\ produced = <<>>
  /\ exit_status = 0
  /\ disk = <<>>
  /\ DumpInit

(***************************************************************************)
(* p2G4_argsparse() and channel_and_modem_init().  What is on the disk     *)
(* does not matter before, and is chosen here.                             *)
(***************************************************************************)
Parse ==
  LET a == p2G4_argsparse(argv)
  IN /\ phase = "parse"
     /\ argv' = <<>>
     /\ IF a.outcome = "ok"
        THEN /\ phase' = "open"
             /\ args' = [n_devs |-> a.n_devs, dont_dump |-> a.dont_dump,
                         compare |-> a.compare, stop |-> a.stop_on_diff]
             /\ libs' = [channel_argv |-> a.channel_argv,
                         modem_name |-> a.modem_name, modem_argv |-> a.modem_argv]
             /\ produced' = [f \in FilesOf(a.n_devs) |-> <<>>]
             /\ disk' \in OldFiles(a.n_devs)
             /\ UNCHANGED exit_status
        ELSE /\ phase' = a.outcome
             /\ exit_status' \in IF a.outcome = "error" THEN {1} ELSE {0, 1}
             /\ UNCHANGED <<args, libs, produced, disk>>
     /\ UNCHANGED <<comp, stop_on_diff, file, stats>>

Open ==
  /\ phase = "open"
  /\ libs' = NoLibs
  /\ IF args.dont_dump
     THEN phase' = "run" /\ UNCHANGED <<exit_status, dumpVars>>
     ELSE IF OldFileMissing(args.compare, args.n_devs)
     THEN /\ phase' = "error" /\ exit_status' = 1
          /\ UNCHANGED dumpVars
     ELSE /\ phase' = "run"
          /\ open_dump_files(args.compare, args.stop, args.n_devs)
          /\ UNCHANGED exit_status
  /\ UNCHANGED <<argv, args, produced>>

(***************************************************************************)
(* The simulation dumps a line.  bs_trace_error() ends the program with an *)
(* error status, after cleaning up.                                        *)
(***************************************************************************)
LinesProduced == FoldFunction(LAMBDA s, n : Len(s) + n, 0, produced)

Dump(f, line) ==
  /\ phase = "run"
  /\ LinesProduced < MaxLines
  /\ line = TooLong => f[1] = "ModemRx"
  /\ produced' = [produced EXCEPT ![f] = Append(@, line)]
  /\ dump(f, line)
  /\ LET outcome == DumpOutcome(f, line)
     IN /\ phase' = IF outcome = "ok" THEN "run" ELSE outcome
        /\ exit_status' = IF outcome = "ok" THEN exit_status ELSE 1
  /\ UNCHANGED <<argv, args, libs>>

(***************************************************************************)
(* p2G4_main_clean_up().                                                   *)
(***************************************************************************)
CleanUp ==
  /\ phase = "run"
  /\ phase' = "end"
  /\ exit_status' = close_dump_files
  /\ file' = <<>> /\ stats' = <<>>
  /\ UNCHANGED <<argv, args, libs, produced, comp, stop_on_diff, disk>>

Next ==
  \/ Parse
  \/ Open
  \/ \E f \in DOMAIN produced, line \in Lines \cup {TooLong} : Dump(f, line)
  \/ CleanUp

Spec == Init /\ [][Next]_vars

------------------------------------------------------------------------------
TypeOK ==
  /\ phase \in {"parse", "open", "run", "end", "error", "overflow", "crash"}
  /\ exit_status \in {0, 1}
  /\ \A f \in DOMAIN stats :
       /\ stats[f].er <= stats[f].nbr
       /\ stats[f].er <= MAX_ERRORS + 1
       /\ stats[f].nbr <= Len(produced[f])

Comparing == args.compare /\ ~args.dont_dump

(***************************************************************************)
(* The lines produced that are not, at their place, in the old file, by    *)
(* definition.  What the old file holds beyond them is not looked at.      *)
(***************************************************************************)
Unmatched(f) ==
  {i \in DOMAIN produced[f] :
     i > Len(disk[f]) \/ disk[f][i] # produced[f][i]}

Compared == {f \in DOMAIN produced : disk[f] \notin {Missing, Blank}}

(***************************************************************************)
(* A comparison that came to its end exits with 0 exactly if every line    *)
(* produced is in the old file, at its place, also if the comparison of a  *)
(* file was given up or the end of an old file was reached on the way.     *)
(* The lines of a blank old file, which open_file() announces not to check,*)
(* count as if they were.  It is no statement about the old files: they    *)
(* may go on after what was produced, which the code does not look at.     *)
(***************************************************************************)
ExitStatusTellsUnmatched ==
  phase = "end" /\ Comparing =>
    (exit_status = 0 <=>
       \A f \in DOMAIN produced : disk[f] = Blank \/ Unmatched(f) = {})

(***************************************************************************)
(* The statistics are exact: they count the differences among the lines    *)
(* that were compared, and those are all the lines up to the end of the    *)
(* old file or to more than MAX_ERRORS differences.                        *)
(***************************************************************************)
StatsAreExact ==
  phase = "run" /\ Comparing =>
    \A f \in Compared :
      LET seen == 1 .. stats[f].nbr
      IN /\ stats[f].er = Cardinality(Unmatched(f) \cap seen)
         /\ \/ seen = DOMAIN produced[f]
            \/ stats[f].er = MAX_ERRORS + 1
            \/ stats[f].nbr = Len(disk[f]) + 1

(***************************************************************************)
(* With -stop_on_diff the simulation does not go on past a difference in   *)
(* any of the files.                                                       *)
(***************************************************************************)
StopsAtFirstDifference ==
  phase \in {"run", "end"} /\ args.stop /\ ~args.dont_dump =>
    \A f \in Compared : Unmatched(f) = {}

(***************************************************************************)
(* Old dumps are the reference of later comparisons: no run that compares, *)
(* that stops on a difference or that does not dump ever writes to them.   *)
(***************************************************************************)
OldDumpsAreKept ==
  [][phase # "parse" /\ (args.compare \/ args.stop \/ args.dont_dump) =>
       UNCHANGED disk]_vars

(***************************************************************************)
(* What a section of a command line holds, by definition: the positions of *)
(* the arguments whose last heading before them is that of the section.    *)
(***************************************************************************)
LastOf(S) == CHOOSE i \in S : \A k \in S : k <= i

HeadingsBefore(line, i) == {j \in 1 .. i - 1 : IsHeading(line[j])}

InSection(line, i, opt, nbr) ==
  LET headings == HeadingsBefore(line, i)
      heading  == line[LastOf(headings)]
  IN IF headings = {} THEN opt = "argsmain"
     ELSE heading.opt = opt /\ (opt = "argsmodem" => heading.nbr = nbr)

Section(line, opt, nbr) ==
  {i \in DOMAIN line : ~IsHeading(line[i]) /\ InSection(line, i, opt, nbr)}

\* The arguments at some positions, in their order.
Lists(list, line, positions) ==
  /\ DOMAIN list = 1 .. Cardinality(positions)
  /\ \A i \in positions : list[Cardinality(positions \cap (1 .. i))] = line[i]

\* The last name that one of some options gave.
LastName(line, options, default) ==
  IF options = {} THEN default ELSE line[LastOf(options)].name

DefmodemOptions(line) ==
  {i \in Section(line, "argsmain", 0) : line[i].opt = "defmodem"}

ModemOptions(line, d) ==
  {i \in Section(line, "argsmain", 0) : line[i].opt = "modem" /\ line[i].nbr = d}

(***************************************************************************)
(* The channel gets the arguments of its section, each modem that was      *)
(* named on the command line those of its own, in whatever order the       *)
(* sections came and however often they were taken up again, and every     *)
(* other modem those of the default modem.                                 *)
(***************************************************************************)
LibrariesGetTheirArguments ==
  [][phase = "parse" /\ phase' = "open" =>
       /\ Lists(libs'.channel_argv, argv, Section(argv, "argschannel", 0))
       /\ DOMAIN libs'.modem_name = 0 .. args'.n_devs - 1
       /\ DOMAIN libs'.modem_argv = 0 .. args'.n_devs - 1
       /\ \A d \in DOMAIN libs'.modem_name :
            LET name == LastName(argv, ModemOptions(argv, d), NULL)
                its  == IF name = NULL THEN Section(argv, "argsdefmodem", 0)
                                       ELSE Section(argv, "argsmodem", d)
            IN /\ Lists(libs'.modem_argv[d], argv, its)
               /\ libs'.modem_name[d] =
                    IF name = NULL
                    THEN LastName(argv, DefmodemOptions(argv), DefaultModem)
                    ELSE name]_vars

(***************************************************************************)
(* The default modem may have as many parameters as its limit says: one    *)
(* more is refused, and the program does not go on with it.                *)
(***************************************************************************)
DefmodemLimitIsKept ==
  [][phase = "parse" =>
       (Cardinality(Section(argv, "argsdefmodem", 0)) > MAXPARAMS_LIBRARIES =>
          phase' = "error")]_vars
=============================================================================
