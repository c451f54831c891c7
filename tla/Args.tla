--------------------------------- MODULE Args ---------------------------------
(***************************************************************************)
(* The command line (src/src/p2G4_args.c): which arguments are the Phy's   *)
(* own, and which go to the channel and to the modem of each device.       *)
(*                                                                         *)
(* An argument is a record: its option, and the number and the name that   *)
(* come with it.  Options that only set a value (verbosity, seed, colours, *)
(* sim_length, p_id, channel, dump_imm, crcerr_data) are left out.         *)
(***************************************************************************)
EXTENDS Integers, Sequences

CONSTANTS
  MAXPARAMS_LIBRARIES,   \* how many parameters a library may get
  DefaultModem,          \* "Magic"
  NULL                   \* no name

ASSUME MaxParamsAssumption == MAXPARAMS_LIBRARIES \in Nat

MAIN     == 0
CHANNEL  == 1
DEFMODEM == 2
MODEM    == 1000

Headings == {"argschannel", "argsdefmodem", "argsmain", "argsmodem", "argsother"}

IsHeading(a) == a.opt \in Headings

(***************************************************************************)
(* p2G4_args_t, and the section being parsed.  bs_trace_error_line() ends  *)
(* the program (outcome "error"); a parameter that is stored outside of    *)
(* the array leaves the rest undefined (outcome "overflow").               *)
(***************************************************************************)
Defaults ==
  [parsing |-> MAIN, outcome |-> "ok", s_id |-> FALSE, n_devs |-> 0,
   dont_dump |-> FALSE, compare |-> FALSE, stop_on_diff |-> FALSE,
   channel_argv |-> <<>>, defmodem_argv |-> <<>>, defmodem_name |-> DefaultModem,
   modem_name |-> <<>>, modem_argv |-> <<>>]

Refused(args) == [args EXCEPT !.outcome = "error"]

\* Arrays of n_devs elements, zeroed.
allocate_modems_params(args) ==
  LET Devs == 0 .. args.n_devs - 1
  IN [args EXCEPT !.modem_name = [d \in Devs |-> NULL],
                  !.modem_argv = [d \in Devs |-> <<>>]]

(***************************************************************************)
(* -args*: what follows belongs to another section.                        *)
(***************************************************************************)
Switched(args, a) ==
  CASE a.opt = "argschannel"  -> [args EXCEPT !.parsing = CHANNEL]
    [] a.opt = "argsdefmodem" -> [args EXCEPT !.parsing = DEFMODEM]
    [] a.opt = "argsmain"     -> [args EXCEPT !.parsing = MAIN]
    [] a.opt = "argsmodem"    ->
         IF a.nbr >= args.n_devs \/ args.modem_name[a.nbr] = NULL
         THEN Refused(args)
         ELSE [args EXCEPT !.parsing = MODEM + a.nbr]
    [] OTHER                  -> Refused(args)

(***************************************************************************)
(* The Phy's own options.                                                  *)
(***************************************************************************)
\* Variant: -stop_on_diff does not imply -c.
StopFoundOnly(args) == [args EXCEPT !.stop_on_diff = TRUE]

StopFound(args) == [args EXCEPT !.stop_on_diff = TRUE, !.compare = TRUE]

MainOption(args, a) ==
  CASE a.opt = "s"            -> [args EXCEPT !.s_id = TRUE]
    [] a.opt = "nodump"       -> [args EXCEPT !.dont_dump = TRUE]
    [] a.opt = "dump"         -> [args EXCEPT !.dont_dump = FALSE]
    [] a.opt = "c"            -> [args EXCEPT !.compare = TRUE]
    [] a.opt = "stop_on_diff" -> StopFound(args)
    [] a.opt = "defmodem"     -> [args EXCEPT !.defmodem_name = a.name]
    [] a.opt = "D"            ->
         IF args.n_devs # 0
         THEN Refused(args)
         ELSE allocate_modems_params([args EXCEPT !.n_devs = a.nbr])
    [] a.opt = "modem"        ->
         IF a.nbr >= args.n_devs
         THEN Refused(args)
         ELSE [args EXCEPT !.modem_name[a.nbr] = a.name]
    [] OTHER                  -> Refused(args)

(***************************************************************************)
(* Parameters of the libraries.  Those of the channel and those of the     *)
(* default modem are the two halves of one array.  The limit of the        *)
(* default modem's is checked with the count of the channel's.             *)
(***************************************************************************)
ChannelParam(args, a) ==
  IF Len(args.channel_argv) >= MAXPARAMS_LIBRARIES
  THEN Refused(args)
  ELSE [args EXCEPT !.channel_argv = Append(@, a)]

DefmodemParam(args, a) ==
  IF Len(args.channel_argv) >= MAXPARAMS_LIBRARIES
  THEN Refused(args)
  ELSE IF Len(args.defmodem_argv) >= MAXPARAMS_LIBRARIES
  THEN [args EXCEPT !.outcome = "overflow"]
  ELSE [args EXCEPT !.defmodem_argv = Append(@, a)]

ModemParam(args, a) ==
  LET modem_nbr == args.parsing - MODEM
  IN IF Len(args.modem_argv[modem_nbr]) >= MAXPARAMS_LIBRARIES
     THEN Refused(args)
     ELSE [args EXCEPT !.modem_argv[modem_nbr] = Append(@, a)]

ParseArg(args, a) ==
  IF args.outcome # "ok"          THEN args
  ELSE IF IsHeading(a)            THEN Switched(args, a)
  ELSE IF args.parsing = MAIN     THEN MainOption(args, a)
  ELSE IF args.parsing = CHANNEL  THEN ChannelParam(args, a)
  ELSE IF args.parsing = DEFMODEM THEN DefmodemParam(args, a)
  ELSE ModemParam(args, a)

(***************************************************************************)
(* Modems without a name get the default modem and its parameters.         *)
(***************************************************************************)
\* Variant: so do modems without parameters.
WithDefaultModemsIfEmpty(args) ==
  [args EXCEPT
     !.modem_name = [d \in DOMAIN @ |-> IF @[d] = NULL THEN args.defmodem_name
                                                       ELSE @[d]],
     !.modem_argv = [d \in DOMAIN @ |-> IF @[d] = <<>> THEN args.defmodem_argv
                                                       ELSE @[d]]]

WithDefaultModems(args) ==
  [args EXCEPT
     !.modem_name = [d \in DOMAIN @ |-> IF @[d] = NULL THEN args.defmodem_name
                                                       ELSE @[d]],
     !.modem_argv = [d \in DOMAIN @ |-> IF args.modem_name[d] = NULL
                                        THEN args.defmodem_argv ELSE @[d]]]

p2G4_argsparse(argv) ==
  LET Parsed[i \in 0 .. Len(argv)] ==
        IF i = 0 THEN Defaults ELSE ParseArg(Parsed[i-1], argv[i])
      args == Parsed[Len(argv)]
  IN CASE args.outcome # "ok"               -> args
       [] ~args.s_id \/ args.n_devs = 0     -> Refused(args)
       [] OTHER                             -> WithDefaultModems(args)
=============================================================================
