------------------------------- MODULE MCLaunch -------------------------------
(***************************************************************************)
(* A small instance of Launch: one or two devices with two kinds of dumps. *)
(***************************************************************************)
EXTENDS Launch

Opt(opt) == [opt |-> opt, nbr |-> 0, name |-> NULL]

Nbr(opt, nbr) == [opt |-> opt, nbr |-> nbr, name |-> NULL]

Name(opt, nbr, name) == [opt |-> opt, nbr |-> nbr, name |-> name]

MCArguments ==
  {Opt(o) : o \in {"argschannel", "argsdefmodem", "argsmain", "argsother",
                   "nodump", "dump", "c", "stop_on_diff"}}
  \cup {Nbr("argsmodem", 0), Nbr("D", 1), Name("modem", 0, "own"),
        Name("modem", 1, "own"), Name("defmodem", 0, "other")}

(***************************************************************************)
(* Command lines begin with what most of them need, or lack it.            *)
(***************************************************************************)
MCBeginnings ==
  LET s == Opt("s")
  IN {<<>>,
      <<s, Nbr("D", 1)>>,
      <<s, Nbr("D", 2), Name("modem", 1, "own")>>,
      <<s, Nbr("D", 2), Name("modem", 0, "own"), Nbr("argsmodem", 0)>>,
      <<s, Opt("argschannel"), Opt("a")>>}

MCCommandLines ==
  {b \o e : b \in MCBeginnings, e \in UNION {[1 .. n -> MCArguments] : n \in 0 .. 4}}

(***************************************************************************)
(* All old files of one device; with two devices, one of the files of the  *)
(* second differs from what is there otherwise.                            *)
(***************************************************************************)
MCContents(n) == UNION {[1 .. k -> Lines] : k \in 0 .. n}

MCOldFiles(n) ==
  IF n = 1 THEN [FilesOf(1) -> {Missing, Blank} \cup MCContents(2)]
  ELSE {[f \in FilesOf(2) |-> IF f = g THEN <<>> ELSE l] :
          g \in FilesOf(2), l \in MCContents(1)}
=============================================================================
