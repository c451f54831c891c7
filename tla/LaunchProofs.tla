---------------------------- MODULE LaunchProofs -----------------------------
(***************************************************************************)
(* What the exit status and the statistics of a comparison say, that old   *)
(* dumps survive it, and which arguments the channel and the modems get,   *)
(* for every command line, any old files, and whatever the simulation      *)
(* produces.                                                               *)
(*                                                                         *)
(* The statistics of a file are related to the whole files: they count the *)
(* differences among the lines that were compared (Tallied).  What a       *)
(* library gets is related to the whole command line, by induction over    *)
(* the arguments read so far (SortedInv).                                  *)
(***************************************************************************)
EXTENDS Launch, FiniteSetTheorems, WellFoundedInduction, TLAPS

(***************************************************************************)
(* Induction over the arguments of a command line.                         *)
(***************************************************************************)
Below == {p \in Nat \X Nat : p[1] < p[2]}

LEMMA BelowIsWellFounded == IsWellFoundedOn(Below, Nat)
BY NatLessThanWellFounded DEF OpToRel, Below

LEMMA NatSetInduction ==
  ASSUME NEW S, 0 \in S, \A n \in Nat : n \in S => n + 1 \in S
  PROVE  Nat \subseteq S
<1> SUFFICES ASSUME Nat \ S # {}
             PROVE  FALSE
  OBVIOUS
<1>1. PICK x \in Nat \ S : \A y \in Nat \ S : ~(<<y, x>> \in Below)
  <2> DEFINE T == Nat \ S
  <2>1. T \subseteq Nat /\ T # {}
    OBVIOUS
  <2> HIDE DEF T
  <2>2. \E x \in T : \A y \in T : ~(<<y, x>> \in Below)
    BY <2>1, BelowIsWellFounded, WFMin
  <2> QED
    BY <2>2 DEF T
<1>2. x \in Nat /\ x # 0
  OBVIOUS
<1>3. x - 1 \in Nat /\ x - 1 < x
  BY <1>2
<1>4. <<x - 1, x>> \in Below
  BY <1>2, <1>3 DEF Below
<1>5. x - 1 \in S
  BY <1>1, <1>3, <1>4
<1>6. (x - 1) + 1 \in S
  BY <1>3, <1>5
<1> QED
  BY <1>2, <1>6

(***************************************************************************)
(* What parsing keeps true of p2G4_args_t: how many devices there are      *)
(* comes from the command line, and stopping on a difference implies       *)
(* comparing.                                                              *)
(***************************************************************************)
Wellformed(args_of, line) ==
  /\ {"outcome", "n_devs", "compare", "stop_on_diff"} \subseteq DOMAIN args_of
  /\ args_of.outcome \in {"ok", "error", "overflow"}
  /\ args_of.n_devs = 0
       \/ \E i \in DOMAIN line : line[i].opt = "D" /\ line[i].nbr = args_of.n_devs
  /\ args_of.compare \in BOOLEAN /\ args_of.stop_on_diff \in BOOLEAN
  /\ args_of.stop_on_diff => args_of.compare

LEMMA RefusedWellformed ==
  ASSUME NEW x, NEW line, Wellformed(x, line)
  PROVE  Wellformed(Refused(x), line)
BY DEF Wellformed, Refused

LEMMA ParseArgWellformed ==
  ASSUME NEW x, NEW line, Wellformed(x, line), NEW i \in DOMAIN line
  PROVE  Wellformed(ParseArg(x, line[i]), line)
<1> DEFINE a == line[i]
<1>1. Wellformed(Refused(x), line)
  BY RefusedWellformed
<1>2. Wellformed(Switched(x, a), line)
  <2>1. \A section : Wellformed([x EXCEPT !.parsing = section], line)
    BY DEF Wellformed
  <2> QED
    BY <1>1, <2>1 DEF Switched
<1>3. Wellformed(MainOption(x, a), line)
  <2>1. Wellformed(StopFound(x), line)
    BY DEF Wellformed, StopFound
  <2>2. a.opt = "D" => Wellformed(allocate_modems_params([x EXCEPT !.n_devs = a.nbr]), line)
    BY DEF Wellformed, allocate_modems_params
  <2>3. Wellformed([x EXCEPT !.s_id = TRUE], line)
    BY DEF Wellformed
  <2>4. /\ Wellformed([x EXCEPT !.dont_dump = TRUE], line)
        /\ Wellformed([x EXCEPT !.dont_dump = FALSE], line)
    BY DEF Wellformed
  <2>5. Wellformed([x EXCEPT !.compare = TRUE], line)
    BY DEF Wellformed
  <2>6. Wellformed([x EXCEPT !.defmodem_name = a.name], line)
    BY DEF Wellformed
  <2>7. Wellformed([x EXCEPT !.modem_name[a.nbr] = a.name], line)
    BY DEF Wellformed
  <2> QED
    BY <1>1, <2>1, <2>2, <2>3, <2>4, <2>5, <2>6, <2>7 DEF MainOption
<1>4. Wellformed(ChannelParam(x, a), line)
  BY <1>1 DEF ChannelParam, Wellformed
<1>5. Wellformed(DefmodemParam(x, a), line)
  BY <1>1 DEF DefmodemParam, Wellformed
<1>6. Wellformed(ModemParam(x, a), line)
  <2>1. \A n : Wellformed([x EXCEPT !.modem_argv[n] = Append(@, a)], line)
    BY DEF Wellformed
  <2> QED
    BY <1>1, <2>1 DEF ModemParam
<1> QED
  BY <1>1, <1>2, <1>3, <1>4, <1>5, <1>6 DEF ParseArg

(***************************************************************************)
(* The recursion of p2G4_argsparse() over a line defines a function, and   *)
(* whatever each argument keeps true is true after the last.               *)
(***************************************************************************)
IsParse(f, line, n) ==
  f = [i \in 0 .. n |-> IF i = 0 THEN Defaults ELSE ParseArg(f[i-1], line[i])]

LEMMA ParseExists ==
  ASSUME NEW line, NEW n \in Nat
  PROVE  \E f : IsParse(f, line, n)
<1> DEFINE S == {k \in Nat : \E f : IsParse(f, line, k)}
<1>1. 0 \in S
  <2> DEFINE f == [i \in 0 .. 0 |-> Defaults]
  <2>1. f = [i \in 0 .. 0 |-> IF i = 0 THEN Defaults ELSE ParseArg(f[i-1], line[i])]
    OBVIOUS
  <2> QED
    BY <2>1 DEF IsParse
<1>2. ASSUME NEW k \in Nat, k \in S
      PROVE  k + 1 \in S
  <2>1. PICK f : IsParse(f, line, k)
    BY <1>2
  <2> DEFINE g == [i \in 0 .. k + 1 |-> IF i = k + 1 THEN ParseArg(f[k], line[k + 1])
                                                     ELSE f[i]]
             h == [i \in 0 .. k + 1 |-> IF i = 0 THEN Defaults
                                                 ELSE ParseArg(g[i-1], line[i])]
  <2>2. ASSUME NEW i \in 0 .. k + 1
        PROVE  g[i] = h[i]
    <3>1. CASE i = k + 1
      <4>1. g[k] = f[k]
        OBVIOUS
      <4> QED
        BY <3>1, <4>1
    <3>2. CASE i \in 0 .. k
      <4>1. f[i] = IF i = 0 THEN Defaults ELSE ParseArg(f[i-1], line[i])
        BY <2>1, <3>2 DEF IsParse
      <4>2. i # 0 => g[i-1] = f[i-1]
        BY <3>2
      <4> QED
        BY <3>2, <4>1, <4>2
    <3> QED
      BY <3>1, <3>2
  <2>3. g = h
    <3> HIDE DEF h
    <3>1. DOMAIN h = 0 .. k + 1 /\ h = [i \in 0 .. k + 1 |-> h[i]]
      BY DEF h
    <3> QED
      BY <2>2, <3>1
  <2>4. IsParse(g, line, k + 1)
    <3> HIDE DEF g
    <3> QED
      BY <2>3 DEF IsParse
  <2> HIDE DEF g
  <2> QED
    BY <2>4
<1> HIDE DEF S
<1>3. Nat \subseteq S
  BY <1>1, <1>2, NatSetInduction
<1> QED
  BY <1>3 DEF S

LEMMA ParseWellformed ==
  ASSUME NEW line, NEW n \in Nat, NEW f, IsParse(f, line, n), DOMAIN line = 1 .. n
  PROVE  Wellformed(f[n], line)
<1> DEFINE S == {k \in Nat : k <= n => Wellformed(f[k], line)}
<1>1. 0 \in S
  <2>1. f[0] = Defaults
    BY DEF IsParse
  <2>2. Wellformed(Defaults, line)
    BY DEF Wellformed, Defaults
  <2> QED
    BY <2>1, <2>2
<1>2. ASSUME NEW k \in Nat, k \in S
      PROVE  k + 1 \in S
  <2> SUFFICES ASSUME k + 1 <= n
               PROVE  Wellformed(f[k + 1], line)
    OBVIOUS
  <2>1. Wellformed(f[k], line) /\ k + 1 \in DOMAIN line
    BY <1>2
  <2>2. f[k + 1] = ParseArg(f[k], line[k + 1])
    BY DEF IsParse
  <2> QED
    BY <2>1, <2>2, ParseArgWellformed
<1> HIDE DEF S
<1>3. Nat \subseteq S
  BY <1>1, <1>2, NatSetInduction
<1> QED
  BY <1>3 DEF S

LEMMA ArgsWellformed ==
  ASSUME NEW line \in CommandLines
  PROVE  /\ Wellformed(p2G4_argsparse(line), line)
         /\ p2G4_argsparse(line).outcome = "ok" => p2G4_argsparse(line).n_devs # 0
<1> DEFINE f == CHOOSE f : IsParse(f, line, Len(line))
           last == f[Len(line)]
<1>1. Len(line) \in Nat /\ DOMAIN line = 1 .. Len(line)
  BY LaunchAssumption
<1>2. IsParse(f, line, Len(line))
  BY <1>1, ParseExists
<1>3. Wellformed(last, line)
  <2> HIDE DEF f
  <2> QED
    BY <1>1, <1>2, ParseWellformed
<1>4. p2G4_argsparse(line) =
        CASE last.outcome # "ok"               -> last
          [] ~last.s_id \/ last.n_devs = 0     -> Refused(last)
          [] OTHER                             -> WithDefaultModems(last)
  BY Zenon DEF p2G4_argsparse, IsParse
<1> HIDE DEF last
<1>5. Wellformed(Refused(last), line) /\ Wellformed(WithDefaultModems(last), line)
  BY <1>3, RefusedWellformed DEF WithDefaultModems, Wellformed
<1>6. Refused(last).outcome = "error"
  BY <1>3 DEF Refused, Wellformed
<1>7. last.n_devs # 0 => WithDefaultModems(last).n_devs # 0
  BY <1>3 DEF WithDefaultModems, Wellformed
<1> QED
  BY <1>3, <1>4, <1>5, <1>6, <1>7

(***************************************************************************)
(* Lines and differences.                                                  *)
(***************************************************************************)
Differing(old, new) == {i \in DOMAIN new : i > Len(old) \/ old[i] # new[i]}

LineProduced == Lines \cup {TooLong}

LEMMA DifferingIsFinite ==
  ASSUME NEW old, NEW new, NEW n \in Nat
  PROVE  /\ IsFiniteSet(Differing(old, new) \cap (1 .. n))
         /\ Cardinality(Differing(old, new) \cap (1 .. n)) \in Nat
<1>1. IsFiniteSet(1 .. n)
  BY FS_Interval
<1>2. Differing(old, new) \cap (1 .. n) \subseteq 1 .. n
  OBVIOUS
<1>3. IsFiniteSet(Differing(old, new) \cap (1 .. n))
  BY <1>1, <1>2, FS_Subset
<1> QED
  BY <1>3, FS_CardinalityType

LEMMA EarlierLinesStay ==
  ASSUME NEW old \in Seq(Lines), NEW new \in Seq(LineProduced),
         NEW line \in LineProduced, NEW n \in 0 .. Len(new)
  PROVE  Differing(old, Append(new, line)) \cap (1 .. n) = Differing(old, new) \cap (1 .. n)
BY DEF Differing

LEMMA NextLine ==
  ASSUME NEW old \in Seq(Lines), NEW new \in Seq(LineProduced), NEW line \in LineProduced
  PROVE  LET n == Len(new)
             earlier == Differing(old, new) \cap (1 .. n)
         IN Differing(old, Append(new, line)) \cap (1 .. n + 1) =
              IF n + 1 <= Len(old) /\ old[n + 1] = line THEN earlier
              ELSE earlier \cup {n + 1}
<1> DEFINE n == Len(new)
           more == Append(new, line)
<1>1. /\ DOMAIN more = 1 .. n + 1 /\ more[n + 1] = line
      /\ \A i \in 1 .. n : more[i] = new[i]
      /\ DOMAIN new = 1 .. n /\ n \in Nat /\ Len(old) \in Nat
  OBVIOUS
<1> HIDE DEF n, more
<1>2. \A i \in 1 .. n : i \in Differing(old, more) <=> i \in Differing(old, new)
  BY <1>1 DEF Differing
<1>3. n + 1 \in Differing(old, more) <=> ~(n + 1 <= Len(old) /\ old[n + 1] = line)
  BY <1>1 DEF Differing
<1>4. Differing(old, more) \cap (1 .. n + 1) =
        IF n + 1 <= Len(old) /\ old[n + 1] = line THEN Differing(old, new) \cap (1 .. n)
        ELSE (Differing(old, new) \cap (1 .. n)) \cup {n + 1}
  <2>1. 1 .. n + 1 = (1 .. n) \cup {n + 1}
    BY <1>1
  <2> QED
    BY <1>2, <1>3, <2>1
<1> QED
  BY <1>4 DEF n, more

(***************************************************************************)
(* What is left of an old file after n lines.                              *)
(***************************************************************************)
Rest(left, old, n) ==
  /\ left \in Seq(Lines)
  /\ Len(old) = n + Len(left)
  /\ \A i \in 1 .. Len(left) : left[i] = old[n + i]

LEMMA RestOfTail ==
  ASSUME NEW left, NEW old \in Seq(Lines), NEW n \in Nat, Rest(left, old, n), left # <<>>
  PROVE  Rest(Tail(left), old, n + 1)
<1>1. /\ Tail(left) \in Seq(Lines) /\ Len(Tail(left)) = Len(left) - 1
      /\ Len(left) \in Nat \ {0}
      /\ \A i \in 1 .. Len(left) - 1 : Tail(left)[i] = left[i + 1]
  BY DEF Rest
<1>2. \A i \in 1 .. Len(left) - 1 : left[i + 1] = old[n + (i + 1)]
  BY <1>1 DEF Rest
<1>3. \A i \in 1 .. Len(left) - 1 : n + (i + 1) = (n + 1) + i
  BY <1>1
<1> QED
  BY <1>1, <1>2, <1>3 DEF Rest

LEMMA MatchesNext ==
  ASSUME NEW left, NEW old \in Seq(Lines), NEW n \in Nat, Rest(left, old, n), NEW line
  PROVE  Matches(left, line) <=> n + 1 <= Len(old) /\ old[n + 1] = line
<1>1. left = <<>> <=> Len(left) = 0
  BY DEF Rest
<1>2. CASE left = <<>>
  BY <1>1, <1>2 DEF Matches, Rest
<1>3. CASE left # <<>>
  <2>1. Head(left) = left[1] /\ 1 \in 1 .. Len(left)
    BY <1>1, <1>3 DEF Rest
  <2> QED
    BY <1>3, <2>1 DEF Matches, Rest
<1> QED
  BY <1>2, <1>3

(***************************************************************************)
(* The statistics of a file, in terms of what was produced for it and of   *)
(* the old file.                                                           *)
(***************************************************************************)
Tallied(old, new, left, s) ==
  /\ s \in [nbr : Nat, er : Nat]
  /\ s.er <= s.nbr
  /\ s.er <= MAX_ERRORS + 1
  /\ s.nbr <= Len(new)
  /\ old # Missing
  /\ old = Blank => left = Closed /\ s.er = 0
  /\ old # Blank =>
       /\ s.er = Cardinality(Differing(old, new) \cap (1 .. s.nbr))
       /\ left = Closed => s.er = MAX_ERRORS + 1 \/ s.nbr = Len(old) + 1
       /\ left # Closed =>
            s.er <= MAX_ERRORS /\ s.nbr = Len(new) /\ Rest(left, old, s.nbr)

LEMMA TalliedWhenOpened ==
  ASSUME NEW old \in {Blank} \cup Seq(Lines), old # Missing
  PROVE  Tallied(old, <<>>, open_file(TRUE, old), [nbr |-> 0, er |-> 0])
<1>1. 0 <= MAX_ERRORS /\ MAX_ERRORS \in Nat
  BY MaxErrorsAssumption
<1>2. ASSUME old # Blank
      PROVE  old \in Seq(Lines) /\ old # Closed /\ Rest(old, old, 0)
  <2>1. old \in Seq(Lines) /\ old # Closed
    BY <1>2, LaunchAssumption
  <2> QED
    BY <2>1 DEF Rest
<1>3. Cardinality(Differing(old, <<>>) \cap (1 .. 0)) = 0
  <2>1. Differing(old, <<>>) \cap (1 .. 0) = {}
    OBVIOUS
  <2> QED
    BY <2>1, FS_EmptySet
<1> DEFINE s    == [nbr |-> 0, er |-> 0]
           left == open_file(TRUE, old)
<1>4. Len(<<>>) = 0 /\ s \in [nbr : Nat, er : Nat] /\ s.nbr = 0 /\ s.er = 0
  OBVIOUS
<1>5. left = IF old = Blank THEN Closed ELSE old
  BY DEF open_file
<1> HIDE DEF s, left
<1>6. Tallied(old, <<>>, left, s)
  BY <1>1, <1>2, <1>3, <1>4, <1>5 DEF Tallied
<1> QED
  BY <1>6 DEF s, left

LEMMA TalliedWhenClosed ==
  ASSUME NEW old \in {Blank} \cup Seq(Lines), NEW new \in Seq(LineProduced),
         NEW line \in LineProduced, NEW s, Tallied(old, new, Closed, s)
  PROVE  Tallied(old, Append(new, line), Closed, s)
<1>1. Len(Append(new, line)) = Len(new) + 1 /\ Len(new) \in Nat
  OBVIOUS
<1>2. ASSUME old # Blank
      PROVE  Differing(old, Append(new, line)) \cap (1 .. s.nbr)
               = Differing(old, new) \cap (1 .. s.nbr)
  BY <1>1, <1>2, EarlierLinesStay DEF Tallied
<1>3. s.nbr \in Nat /\ s.nbr <= Len(Append(new, line))
  BY <1>1 DEF Tallied
<1> QED
  BY <1>2, <1>3 DEF Tallied

LEMMA TalliedAfterMatch ==
  ASSUME NEW old \in {Blank} \cup Seq(Lines), NEW new \in Seq(LineProduced),
         NEW line \in LineProduced, NEW s, NEW left,
         Tallied(old, new, left, s), left # Closed, Matches(left, line)
  PROVE  Tallied(old, Append(new, line), Tail(left), [s EXCEPT !.nbr = @ + 1])
<1> DEFINE t == [s EXCEPT !.nbr = @ + 1]
<1>1. Len(Append(new, line)) = Len(new) + 1 /\ Len(new) \in Nat
  OBVIOUS
<1>2. /\ s \in [nbr : Nat, er : Nat] /\ s.nbr = Len(new) /\ Rest(left, old, s.nbr)
      /\ old \in Seq(Lines) /\ old # Blank /\ old # Missing /\ s.er <= MAX_ERRORS
      /\ s.er <= s.nbr /\ left # <<>>
      /\ s.er = Cardinality(Differing(old, new) \cap (1 .. s.nbr))
  BY DEF Tallied, Matches
<1>3. t \in [nbr : Nat, er : Nat] /\ t.nbr = Len(new) + 1 /\ t.er = s.er
  BY <1>2
<1>4. Rest(Tail(left), old, Len(new) + 1) /\ Tail(left) # Closed
  <2>1. Rest(Tail(left), old, Len(new) + 1)
    BY <1>1, <1>2, RestOfTail
  <2> QED
    BY <2>1, LaunchAssumption DEF Rest
<1>5. Differing(old, Append(new, line)) \cap (1 .. Len(new) + 1)
        = Differing(old, new) \cap (1 .. Len(new))
  BY <1>1, <1>2, MatchesNext, NextLine
<1>6. MAX_ERRORS \in Nat
  BY MaxErrorsAssumption
<1> HIDE DEF t
<1>7. t.er = Cardinality(Differing(old, Append(new, line)) \cap (1 .. t.nbr))
  BY <1>2, <1>3, <1>5
<1>8. /\ t.er <= MAX_ERRORS + 1 /\ t.er <= MAX_ERRORS /\ t.er <= t.nbr
      /\ t.nbr = Len(Append(new, line))
  BY <1>1, <1>2, <1>3, <1>6
<1>9. Tallied(old, Append(new, line), Tail(left), t)
  BY <1>2, <1>3, <1>4, <1>7, <1>8 DEF Tallied
<1> QED
  BY <1>9 DEF t

LEMMA TalliedAfterDifference ==
  ASSUME NEW old \in {Blank} \cup Seq(Lines), NEW new \in Seq(LineProduced),
         NEW line \in LineProduced, NEW s, NEW left,
         Tallied(old, new, left, s), left # Closed, ~Matches(left, line)
  PROVE  Tallied(old, Append(new, line), LeftAfter(s.er + 1, left),
                 [nbr |-> s.nbr + 1, er |-> s.er + 1])
<1> DEFINE t == [nbr |-> s.nbr + 1, er |-> s.er + 1]
           rest == LeftAfter(s.er + 1, left)
<1>1. Len(Append(new, line)) = Len(new) + 1 /\ Len(new) \in Nat
  OBVIOUS
<1>2. /\ s \in [nbr : Nat, er : Nat] /\ s.nbr = Len(new) /\ Rest(left, old, s.nbr)
      /\ old \in Seq(Lines) /\ old # Blank /\ old # Missing /\ s.er <= MAX_ERRORS
      /\ s.er <= s.nbr
      /\ s.er = Cardinality(Differing(old, new) \cap (1 .. s.nbr))
  BY DEF Tallied
<1>3. MAX_ERRORS \in Nat
  BY MaxErrorsAssumption
<1>4. t \in [nbr : Nat, er : Nat] /\ t.nbr = Len(new) + 1 /\ t.er = s.er + 1
  BY <1>2
<1>5. t.er = Cardinality(Differing(old, Append(new, line)) \cap (1 .. t.nbr))
  <2> DEFINE earlier == Differing(old, new) \cap (1 .. Len(new))
  <2>1. Differing(old, Append(new, line)) \cap (1 .. Len(new) + 1)
          = earlier \cup {Len(new) + 1}
    BY <1>1, <1>2, MatchesNext, NextLine
  <2>2. IsFiniteSet(earlier) /\ Cardinality(earlier) = s.er
    BY <1>1, <1>2, DifferingIsFinite
  <2>3. Len(new) + 1 \notin earlier
    BY <1>1
  <2> HIDE DEF earlier
  <2>4. Cardinality(earlier \cup {Len(new) + 1}) = s.er + 1
    BY <2>2, <2>3, FS_AddElement
  <2> QED
    BY <1>4, <2>1, <2>4
<1>6. rest = Closed => t.er = MAX_ERRORS + 1 \/ t.nbr = Len(old) + 1
  <2>1. ASSUME rest = Closed
        PROVE  left = <<>> \/ s.er + 1 > MAX_ERRORS
    <3> SUFFICES ASSUME left # <<>>, ~(s.er + 1 > MAX_ERRORS)
                 PROVE  FALSE
      OBVIOUS
    <3>1. Tail(left) \in Seq(Lines)
      BY <1>2 DEF Rest
    <3>2. Tail(left) = Closed
      BY <2>1 DEF LeftAfter
    <3> QED
      BY <3>1, <3>2, LaunchAssumption
  <2>2. left = <<>> => Len(old) = s.nbr
    BY <1>2 DEF Rest
  <2> QED
    BY <1>2, <1>3, <1>4, <2>1, <2>2
<1>7. rest # Closed => t.er <= MAX_ERRORS /\ Rest(rest, old, t.nbr)
  <2> SUFFICES ASSUME rest # Closed
               PROVE  t.er <= MAX_ERRORS /\ Rest(rest, old, t.nbr)
    OBVIOUS
  <2>1. left # <<>> /\ s.er + 1 <= MAX_ERRORS /\ rest = Tail(left)
    BY <1>2, <1>3 DEF LeftAfter
  <2> QED
    BY <1>1, <1>2, <1>4, <2>1, RestOfTail
<1>8. t.er <= MAX_ERRORS + 1 /\ t.er <= t.nbr /\ t.nbr = Len(Append(new, line))
  BY <1>1, <1>2, <1>3, <1>4
<1> HIDE DEF t, rest
<1>9. Tallied(old, Append(new, line), rest, t)
  BY <1>2, <1>4, <1>5, <1>6, <1>7, <1>8 DEF Tallied
<1> QED
  BY <1>9 DEF t, rest
LEMMA TalliedDifferences ==
  ASSUME NEW old \in Seq(Lines), NEW new \in Seq(LineProduced), NEW left, NEW s,
         Tallied(old, new, left, s)
  PROVE  s.er = 0 <=> Differing(old, new) = {}
<1>1. /\ old # Blank /\ s.nbr \in Nat /\ s.er \in Nat /\ s.nbr <= Len(new)
      /\ s.er = Cardinality(Differing(old, new) \cap (1 .. s.nbr))
      /\ left = Closed => s.er = MAX_ERRORS + 1 \/ s.nbr = Len(old) + 1
      /\ left # Closed => s.nbr = Len(new)
  BY LaunchAssumption DEF Tallied
<1>2. CASE Differing(old, new) = {}
  <2>1. Differing(old, new) \cap (1 .. s.nbr) = {}
    BY <1>2
  <2> QED
    BY <1>1, <1>2, <2>1, FS_EmptySet
<1>3. ASSUME s.er = 0
      PROVE  Differing(old, new) = {}
  <2> DEFINE seen == Differing(old, new) \cap (1 .. s.nbr)
  <2>1. seen = {}
    <3>1. IsFiniteSet(seen) /\ Cardinality(seen) = 0
      BY <1>1, <1>3, DifferingIsFinite
    <3> HIDE DEF seen
    <3> QED
      BY <3>1, FS_EmptySet
  <2>2. left # Closed
    <3> SUFFICES ASSUME left = Closed
                 PROVE  FALSE
      OBVIOUS
    <3>1. s.nbr = Len(old) + 1
      BY <1>1, <1>3, MaxErrorsAssumption
    <3>2. s.nbr \in Differing(old, new)
      BY <1>1, <3>1 DEF Differing
    <3> QED
      BY <1>1, <2>1, <3>1, <3>2
  <2>3. DOMAIN new = 1 .. s.nbr
    BY <1>1, <2>2
  <2> QED
    BY <2>1, <2>3 DEF Differing
<1> QED
  BY <1>2, <1>3

(***************************************************************************)
(* The inductive invariant.                                                *)
(***************************************************************************)
Files == FilesOf(args.n_devs)

Unopened == file = <<>> /\ stats = <<>> /\ comp = FALSE

Written(new, s) ==
  s \in [nbr : Nat, er : Nat] /\ s.er = 0 /\ s.nbr <= Len(new)

FileInv(f) ==
  /\ args.compare =>
       /\ disk[f] \in {Blank} \cup Seq(Lines)
       /\ Tallied(disk[f], produced[f], file[f], stats[f])
  /\ ~args.compare => Written(produced[f], stats[f])
  /\ args.stop => stats[f].er = 0

DumpsInv ==
  /\ produced \in [Files -> Seq(LineProduced)]
  /\ args.dont_dump => Unopened
  /\ ~args.dont_dump =>
       /\ comp = args.compare /\ stop_on_diff = args.stop
       /\ DOMAIN file = Files /\ DOMAIN stats = Files
       /\ stats \in [Files -> [nbr : Nat, er : Nat]]
       /\ \A f \in Files : FileInv(f)

OldFilesInv ==
  /\ DOMAIN disk = Files
  /\ \A f \in Files : disk[f] \in {Missing, Blank} \cup Seq(Lines)

Counted(new, s) == s.er <= s.nbr /\ s.er <= MAX_ERRORS + 1 /\ s.nbr <= Len(new)

CountsInv == \A f \in DOMAIN stats : Counted(produced[f], stats[f])

LaunchInv ==
  /\ phase \in {"parse", "open", "run", "end", "error", "overflow", "crash"}
  /\ exit_status \in {0, 1}
  /\ CountsInv
  /\ phase = "parse" => argv \in CommandLines /\ Unopened
  /\ phase \in {"open", "run", "end"} => (args.stop => args.compare)
  /\ phase = "open" => Unopened /\ OldFilesInv /\ produced = [f \in Files |-> <<>>]
  /\ phase = "run" => DumpsInv
  /\ phase = "end" =>
       stats = <<>> /\ ExitStatusTellsUnmatched /\ StopsAtFirstDifference
(***************************************************************************)
(* The steps of main() keep it.                                            *)
(***************************************************************************)
LEMMA ParseKeeps ==
  ASSUME LaunchInv, Parse
  PROVE  LaunchInv'
<1> DEFINE a == p2G4_argsparse(argv)
<1>1. argv \in CommandLines /\ Unopened /\ phase = "parse"
  BY DEF LaunchInv, Parse
<1>2. Wellformed(a, argv) /\ (a.outcome = "ok" => a.n_devs # 0)
  BY <1>1, ArgsWellformed
<1>3. UNCHANGED <<comp, stop_on_diff, file, stats>>
  BY DEF Parse
<1>4. Unopened' /\ CountsInv'
  <2>1. stats' = <<>>
    BY <1>1, <1>3 DEF Unopened
  <2>2. DOMAIN stats' = {}
    BY <2>1
  <2> QED
    BY <1>1, <1>3, <2>2 DEF Unopened, CountsInv
<1>5. CASE a.outcome = "ok"
  <2>1. /\ phase' = "open"
        /\ args' = [n_devs |-> a.n_devs, dont_dump |-> a.dont_dump,
                    compare |-> a.compare, stop |-> a.stop_on_diff]
        /\ produced' = [f \in FilesOf(a.n_devs) |-> <<>>]
        /\ disk' \in OldFiles(a.n_devs)
        /\ exit_status' = exit_status
    BY <1>5 DEF Parse
  <2>2. args'.n_devs = a.n_devs /\ (args'.stop => args'.compare)
    BY <1>2, <2>1 DEF Wellformed
  <2>3. a.n_devs \in DeviceCounts
    <3>1. PICK i \in DOMAIN argv : argv[i].opt = "D" /\ argv[i].nbr = a.n_devs
      BY <1>2, <1>5 DEF Wellformed
    <3> QED
      BY <1>1, <3>1 DEF DeviceCounts
  <2>4. OldFilesInv'
    BY <2>1, <2>2, <2>3, LaunchAssumption DEF OldFilesInv, Files
  <2>5. (produced = [f \in Files |-> <<>>])'
    BY <2>1, <2>2 DEF Files
  <2>6. exit_status \in {0, 1}
    BY DEF LaunchInv
  <2> QED
    BY <1>4, <2>1, <2>2, <2>4, <2>5, <2>6 DEF LaunchInv
<1>6. CASE a.outcome # "ok"
  <2>1. phase' = a.outcome /\ exit_status' \in {0, 1}
    BY <1>6 DEF Parse
  <2>2. phase' \in {"error", "overflow"}
    BY <1>2, <1>6, <2>1 DEF Wellformed
  <2> QED
    BY <1>4, <2>1, <2>2 DEF LaunchInv
<1> QED
  BY <1>5, <1>6

LEMMA TalliedIsCounted ==
  ASSUME NEW old, NEW new, NEW left, NEW s, Tallied(old, new, left, s)
  PROVE  Counted(new, s)
BY DEF Tallied, Counted

LEMMA FilesAreCounted ==
  ASSUME NEW f, FileInv(f)
  PROVE  Counted(produced[f], stats[f])
<1>1. CASE args.compare
  BY <1>1, TalliedIsCounted DEF FileInv
<1>2. CASE ~args.compare
  BY <1>2, MaxErrorsAssumption DEF FileInv, Written, Counted
<1> QED
  BY <1>1, <1>2

LEMMA DumpsAreCounted == DumpsInv => CountsInv
<1> SUFFICES ASSUME DumpsInv
             PROVE  CountsInv
  OBVIOUS
<1>1. CASE args.dont_dump
  <2>1. DOMAIN stats = {}
    BY <1>1 DEF DumpsInv, Unopened
  <2> QED
    BY <2>1 DEF CountsInv
<1>2. CASE ~args.dont_dump
  BY <1>2, FilesAreCounted DEF DumpsInv, CountsInv
<1> QED
  BY <1>1, <1>2

LEMMA OpenKeeps ==
  ASSUME LaunchInv, Open
  PROVE  LaunchInv'
<1>1. /\ phase = "open" /\ Unopened /\ OldFilesInv /\ CountsInv
      /\ produced = [f \in Files |-> <<>>] /\ exit_status \in {0, 1}
      /\ args.stop => args.compare
  BY DEF LaunchInv, Open
<1>2. args' = args /\ produced' = produced /\ Files' = Files
  BY DEF Open, Files
<1>3. produced' \in [Files' -> Seq(LineProduced)]
  BY <1>1, <1>2
<1>4. CASE args.dont_dump
  <2>1. phase' = "run" /\ exit_status' = exit_status /\ UNCHANGED dumpVars
    BY <1>4 DEF Open
  <2>2. DumpsInv'
    BY <1>1, <1>2, <1>3, <1>4, <2>1 DEF DumpsInv, Unopened, dumpVars
  <2>3. CountsInv'
    BY <1>1, <1>2, <2>1 DEF CountsInv, dumpVars
  <2> QED
    BY <1>1, <1>2, <2>1, <2>2, <2>3 DEF LaunchInv
<1>5. CASE ~args.dont_dump /\ OldFileMissing(args.compare, args.n_devs)
  <2>1. phase' = "error" /\ exit_status' = 1 /\ UNCHANGED dumpVars
    BY <1>5 DEF Open
  <2>2. CountsInv'
    BY <1>1, <1>2, <2>1 DEF CountsInv, dumpVars
  <2> QED
    BY <2>1, <2>2 DEF LaunchInv
<1>6. CASE ~args.dont_dump /\ ~OldFileMissing(args.compare, args.n_devs)
  <2>1. /\ phase' = "run" /\ exit_status' = exit_status
        /\ comp' = args.compare /\ stop_on_diff' = args.stop
        /\ file' = [f \in Files |-> open_file(args.compare, disk[f])]
        /\ stats' = [f \in Files |-> [nbr |-> 0, er |-> 0]]
        /\ args.compare => disk' = disk
    BY <1>6 DEF Open, open_dump_files, Files
  <2>2. ASSUME NEW f \in Files
        PROVE  FileInv(f)'
    <3>1. /\ produced'[f] = <<>> /\ stats'[f] = [nbr |-> 0, er |-> 0]
          /\ file'[f] = open_file(args.compare, disk[f])
      BY <1>1, <1>2, <2>1
    <3>2. stats'[f].er = 0
      BY <3>1
    <3>3. CASE args.compare
      <4>1. disk[f] # Missing
        BY <1>6, <3>3 DEF OldFileMissing, Files
      <4>2. disk[f] \in {Blank} \cup Seq(Lines)
        BY <1>1, <4>1 DEF OldFilesInv
      <4>3. file'[f] = open_file(TRUE, disk[f])
        BY <3>1, <3>3 DEF open_file
      <4>4. Tallied(disk[f], <<>>, file'[f], stats'[f])
        BY <3>1, <4>1, <4>2, <4>3, TalliedWhenOpened
      <4> QED
        BY <1>2, <2>1, <3>1, <3>2, <3>3, <4>2, <4>4 DEF FileInv
    <3>4. CASE ~args.compare
      <4>1. Written(<<>>, [nbr |-> 0, er |-> 0])
        BY DEF Written
      <4> QED
        BY <1>2, <3>1, <3>2, <3>4, <4>1 DEF FileInv
    <3> QED
      BY <3>3, <3>4
  <2>3. stats' \in [Files -> [nbr : Nat, er : Nat]]
    BY <2>1
  <2>4. DumpsInv'
    BY <1>2, <1>3, <1>6, <2>1, <2>2, <2>3 DEF DumpsInv
  <2>5. CountsInv'
    BY <2>4, DumpsAreCounted, PTL
  <2> QED
    BY <1>1, <1>2, <2>1, <2>4, <2>5 DEF LaunchInv
<1> QED
  BY <1>4, <1>5, <1>6
(***************************************************************************)
(* A line is dumped: the files it is not for stay as they are.             *)
(***************************************************************************)
LEMMA DumpChanges ==
  ASSUME LaunchInv, NEW f \in DOMAIN produced, NEW line \in LineProduced, Dump(f, line)
  PROVE  /\ phase = "run" /\ DumpsInv /\ f \in Files /\ produced[f] \in Seq(LineProduced)
         /\ args' = args /\ Files' = Files /\ comp' = comp /\ stop_on_diff' = stop_on_diff
         /\ produced' \in [Files -> Seq(LineProduced)]
         /\ produced'[f] = Append(produced[f], line)
         /\ \A g \in Files \ {f} : produced'[g] = produced[g]
         /\ exit_status' \in {0, 1}
         /\ args.stop => args.compare
<1>1. /\ phase = "run" /\ DumpsInv /\ (args.stop => args.compare) /\ exit_status \in {0, 1}
  BY DEF Dump, LaunchInv
<1>2. args' = args /\ comp' = comp /\ stop_on_diff' = stop_on_diff
  BY DEF Dump, dump
<1>3. f \in Files /\ produced[f] \in Seq(LineProduced)
  BY <1>1 DEF DumpsInv
<1>4. produced' = [produced EXCEPT ![f] = Append(produced[f], line)]
  BY DEF Dump
<1>5. produced \in [Files -> Seq(LineProduced)]
  BY <1>1 DEF DumpsInv
<1>6. Append(produced[f], line) \in Seq(LineProduced)
  BY <1>3
<1>7. exit_status' \in {0, 1}
  BY <1>1 DEF Dump
<1>8. Files' = Files
  BY <1>2 DEF Files
<1> QED
  BY <1>1, <1>2, <1>3, <1>4, <1>5, <1>6, <1>7, <1>8

LEMMA OthersKeepTheirs ==
  ASSUME NEW f, NEW g \in Files \ {f}, FileInv(g),
         args' = args, produced'[g] = produced[g],
         file'[g] = file[g], stats'[g] = stats[g], args.compare => disk'[g] = disk[g]
  PROVE  FileInv(g)'
BY DEF FileInv

\* A line for a file that is not open.
LEMMA IgnoredDumpKeeps ==
  ASSUME LaunchInv, NEW f \in DOMAIN produced, NEW line \in LineProduced, Dump(f, line),
         ~IsOpen(f)
  PROVE  LaunchInv'
<1>1. UNCHANGED <<disk, file, stats>> /\ phase' = "run"
  BY DEF Dump, dump, DumpOutcome
<1>2. DumpsInv'
  <2>1. CASE args.dont_dump
    BY <1>1, <2>1, DumpChanges DEF DumpsInv, Unopened
  <2>2. CASE ~args.dont_dump
    <3>1. /\ comp = args.compare /\ stop_on_diff = args.stop
          /\ DOMAIN file = Files /\ DOMAIN stats = Files
          /\ stats \in [Files -> [nbr : Nat, er : Nat]]
          /\ \A g \in Files : FileInv(g)
      BY <2>2, DumpChanges DEF DumpsInv
    <3>2. ASSUME NEW g \in Files \ {f}
          PROVE  FileInv(g)'
      BY <1>1, <3>1, DumpChanges, OthersKeepTheirs
    <3>3. FileInv(f)'
      <4>1. f \in Files /\ FileInv(f) /\ file[f] = Closed
        BY <3>1, DumpChanges DEF IsOpen
      <4>2. CASE args.compare
        <5>1. Tallied(disk[f], Append(produced[f], line), Closed, stats[f])
          BY <4>1, <4>2, DumpChanges, TalliedWhenClosed DEF FileInv
        <5> QED
          BY <1>1, <4>1, <4>2, <5>1, DumpChanges DEF FileInv
      <4>3. CASE ~args.compare
        <5>1. Len(Append(produced[f], line)) = Len(produced[f]) + 1 /\ Len(produced[f]) \in Nat
          BY DumpChanges
        <5>2. Written(Append(produced[f], line), stats[f])
          BY <4>1, <4>3, <5>1 DEF FileInv, Written
        <5> QED
          BY <1>1, <4>1, <4>3, <5>2, DumpChanges DEF FileInv
      <4> QED
        BY <4>2, <4>3
    <3>4. \A g \in Files : FileInv(g)'
      BY <3>2, <3>3
    <3> QED
      BY <1>1, <2>2, <3>1, <3>4, DumpChanges DEF DumpsInv
  <2> QED
    BY <2>1, <2>2
<1>3. CountsInv'
  BY <1>2, DumpsAreCounted, PTL
<1> QED
  BY <1>1, <1>2, <1>3, DumpChanges DEF LaunchInv

LEMMA OnlyOpenedAreOpen ==
  ASSUME DumpsInv, NEW f, IsOpen(f)
  PROVE  ~args.dont_dump
<1> SUFFICES ASSUME args.dont_dump
             PROVE  FALSE
  OBVIOUS
<1>1. file = <<>>
  BY DEF DumpsInv, Unopened
<1>2. DOMAIN <<>> = {}
  OBVIOUS
<1> QED
  BY <1>1, <1>2 DEF IsOpen

\* What the line does to the statistics of its file, if that is open.
Counting(f, s) ==
  /\ stats' = [stats EXCEPT ![f] = s]
  /\ s \in [nbr : Nat, er : Nat]
  /\ \A g \in Files \ {f} : file'[g] = file[g]
  /\ DOMAIN file' = DOMAIN file
  /\ args.compare => disk' = disk

LEMMA CountedDumpKeeps ==
  ASSUME LaunchInv, NEW f \in DOMAIN produced, NEW line \in LineProduced, Dump(f, line),
         IsOpen(f), NEW s, Counting(f, s), Counted(produced'[f], s),
         phase' \in {"run", "crash", "error"},
         phase' = "run" => FileInv(f)'
  PROVE  LaunchInv'
<1>1. ~args.dont_dump
  BY DumpChanges, OnlyOpenedAreOpen
<1>2. /\ comp = args.compare /\ stop_on_diff = args.stop
      /\ DOMAIN file = Files /\ DOMAIN stats = Files
      /\ stats \in [Files -> [nbr : Nat, er : Nat]]
      /\ \A g \in Files : FileInv(g)
  BY <1>1, DumpChanges DEF DumpsInv
<1>3. /\ stats' \in [Files -> [nbr : Nat, er : Nat]] /\ DOMAIN stats' = Files
      /\ stats'[f] = s /\ \A g \in Files \ {f} : stats'[g] = stats[g]
  BY <1>2, DumpChanges DEF Counting
<1>4. ASSUME NEW g \in Files \ {f}
      PROVE  FileInv(g)'
  BY <1>2, <1>3, DumpChanges, OthersKeepTheirs DEF Counting
<1>5. CountsInv'
  <2>1. ASSUME NEW g \in Files \ {f}
        PROVE  Counted(produced'[g], stats'[g])
    BY <1>2, <1>3, DumpChanges, FilesAreCounted
  <2> QED
    BY <1>3, <2>1 DEF CountsInv
<1>6. phase' = "run" => DumpsInv'
  <2> SUFFICES ASSUME phase' = "run"
               PROVE  DumpsInv'
    OBVIOUS
  <2>1. \A g \in Files : FileInv(g)'
    BY <1>4
  <2> QED
    BY <1>1, <1>2, <1>3, <2>1, DumpChanges DEF DumpsInv, Counting
<1> QED
  BY <1>5, <1>6, DumpChanges DEF LaunchInv

LEMMA OpenDumpKeeps ==
  ASSUME LaunchInv, NEW f \in DOMAIN produced, NEW line \in LineProduced, Dump(f, line),
         IsOpen(f)
  PROVE  LaunchInv'
<1> DEFINE s    == stats[f]
           next == [nbr |-> s.nbr + 1, er |-> s.er]
           diff == [nbr |-> s.nbr + 1, er |-> s.er + 1]
<1>1. ~args.dont_dump
  BY DumpChanges, OnlyOpenedAreOpen
<1>2. /\ comp = args.compare /\ stop_on_diff = args.stop /\ DOMAIN file = Files
      /\ f \in Files /\ DOMAIN stats = Files
      /\ s \in [nbr : Nat, er : Nat] /\ FileInv(f) /\ file[f] # Closed
      /\ Counted(produced[f], s)
  BY <1>1, DumpChanges, FilesAreCounted DEF DumpsInv, IsOpen
<1>3. /\ next \in [nbr : Nat, er : Nat] /\ diff \in [nbr : Nat, er : Nat]
      /\ next.nbr = s.nbr + 1 /\ next.er = s.er
      /\ [s EXCEPT !.nbr = @ + 1] = next
  BY <1>2
<1>4. Len(produced'[f]) = Len(produced[f]) + 1 /\ Len(produced[f]) \in Nat
  BY DumpChanges
<1>5. Counted(produced'[f], next)
  BY <1>2, <1>3, <1>4, MaxErrorsAssumption DEF Counted
<1>6. CASE line = TooLong
  <2>1. /\ file' = [file EXCEPT ![f] = Closed] /\ disk' = disk
        /\ stats' = [stats EXCEPT ![f] = [s EXCEPT !.nbr = @ + 1]]
        /\ phase' = "crash"
    BY <1>6 DEF Dump, dump, DumpOutcome
  <2>2. Counting(f, next)
    BY <1>2, <1>3, <2>1 DEF Counting
  <2> QED
    BY <1>5, <2>1, <2>2, CountedDumpKeeps
<1>7. CASE line # TooLong /\ ~comp
  <2>1. /\ file' = file
        /\ stats' = [stats EXCEPT ![f] = [s EXCEPT !.nbr = @ + 1]]
        /\ phase' = "run"
    BY <1>7 DEF Dump, dump, DumpOutcome, Differs
  <2>2. Counting(f, next)
    BY <1>2, <1>3, <1>7, <2>1 DEF Counting
  <2>3. stats'[f] = next
    BY <1>2, <1>3, <2>1
  <2>4. Written(produced'[f], next)
    BY <1>2, <1>3, <1>4, <1>7 DEF FileInv, Written, Counted
  <2>5. FileInv(f)'
    <3>1. ~args.compare /\ ~args.stop
      BY <1>2, <1>7, DumpChanges
    <3> QED
      BY <2>3, <2>4, <3>1, DumpChanges DEF FileInv
  <2> QED
    BY <1>5, <2>1, <2>2, <2>5, CountedDumpKeeps
<1>8. CASE line # TooLong /\ comp /\ Differs(f, line)
  <2> DEFINE rest == LeftAfter(s.er + 1, file[f])
  <2>1. /\ file' = [file EXCEPT ![f] = rest] /\ disk' = disk
        /\ stats' = [stats EXCEPT ![f] = diff]
    BY <1>2, <1>8 DEF Dump, dump
  <2>2. Counting(f, diff)
    BY <1>2, <1>3, <2>1 DEF Counting
  <2>3. /\ phase' \in {"run", "crash", "error"}
        /\ phase' = "run" => ~stop_on_diff
    BY <1>8 DEF Dump, DumpOutcome, DiffOutcome, IsOpen
  <2>4. args.compare /\ Tallied(disk[f], produced[f], file[f], s)
          /\ disk[f] \in {Blank} \cup Seq(Lines)
    BY <1>2, <1>8 DEF FileInv
  <2>5. Tallied(disk[f], produced'[f], rest, diff)
    <3>1. /\ produced[f] \in Seq(LineProduced) /\ ~Matches(file[f], line)
          /\ produced'[f] = Append(produced[f], line)
      BY <1>8, DumpChanges DEF Differs
    <3> HIDE DEF s
    <3>2. Tallied(disk[f], Append(produced[f], line), LeftAfter(s.er + 1, file[f]),
                  [nbr |-> s.nbr + 1, er |-> s.er + 1])
      BY <1>2, <2>4, <3>1, TalliedAfterDifference
    <3> QED
      BY <3>1, <3>2
  <2>6. stats'[f] = diff /\ file'[f] = rest
    BY <1>2, <2>1
  <2>7. phase' = "run" => FileInv(f)'
    BY <1>2, <2>1, <2>3, <2>4, <2>5, <2>6, DumpChanges DEF FileInv
  <2> QED
    BY <2>2, <2>3, <2>5, <2>7, TalliedIsCounted, CountedDumpKeeps
<1>9. CASE line # TooLong /\ comp /\ ~Differs(f, line)
  <2>1. /\ file' = [file EXCEPT ![f] = Tail(file[f])] /\ disk' = disk
        /\ stats' = [stats EXCEPT ![f] = [s EXCEPT !.nbr = @ + 1]]
        /\ phase' = "run"
    BY <1>9 DEF Dump, dump, DumpOutcome
  <2>2. Counting(f, next)
    BY <1>2, <1>3, <2>1 DEF Counting
  <2>3. args.compare /\ Tallied(disk[f], produced[f], file[f], s)
          /\ disk[f] \in {Blank} \cup Seq(Lines)
    BY <1>2, <1>9 DEF FileInv
  <2>4. Tallied(disk[f], produced'[f], Tail(file[f]), next)
    <3>1. /\ produced[f] \in Seq(LineProduced) /\ Matches(file[f], line)
          /\ produced'[f] = Append(produced[f], line)
      BY <1>9, DumpChanges DEF Differs
    <3> HIDE DEF s
    <3>2. Tallied(disk[f], Append(produced[f], line), Tail(file[f]),
                  [s EXCEPT !.nbr = @ + 1])
      BY <1>2, <2>3, <3>1, TalliedAfterMatch
    <3> QED
      BY <1>3, <3>1, <3>2
  <2>5. stats'[f] = next /\ file'[f] = Tail(file[f])
    BY <1>2, <1>3, <2>1
  <2>6. FileInv(f)'
    BY <1>2, <1>3, <2>1, <2>3, <2>4, <2>5, DumpChanges DEF FileInv
  <2> QED
    BY <1>5, <2>1, <2>2, <2>6, CountedDumpKeeps
<1> QED
  BY <1>6, <1>7, <1>8, <1>9
(***************************************************************************)
(* What the statistics of a comparison under way say.                      *)
(***************************************************************************)
LEMMA ComparedIsTallied ==
  ASSUME DumpsInv, Comparing
  PROVE  /\ comp = args.compare
         /\ Compared \subseteq Files /\ DOMAIN produced = Files /\ DOMAIN stats = Files
         /\ \A f \in Files : stats[f].er # 0 => f \in Compared
         /\ \A f \in Files : disk[f] # Blank <=> f \in Compared
         /\ \A f \in Compared :
              /\ disk[f] \in Seq(Lines) /\ produced[f] \in Seq(LineProduced)
              /\ Unmatched(f) = Differing(disk[f], produced[f])
              /\ Tallied(disk[f], produced[f], file[f], stats[f])
              /\ args.stop => stats[f].er = 0
<1>1. args.compare /\ ~args.dont_dump
  BY DEF Comparing
<1>2. /\ comp = args.compare /\ DOMAIN produced = Files /\ DOMAIN stats = Files
      /\ \A f \in Files : FileInv(f) /\ produced[f] \in Seq(LineProduced)
  BY <1>1 DEF DumpsInv
<1>3. \A f \in Files : /\ disk[f] \in {Blank} \cup Seq(Lines)
                       /\ Tallied(disk[f], produced[f], file[f], stats[f])
                       /\ args.stop => stats[f].er = 0
  BY <1>1, <1>2 DEF FileInv
<1>4. \A f \in Files : stats[f].er # 0 => f \in Compared
  BY <1>2, <1>3 DEF Compared, Tallied
<1>5. \A f \in Compared : f \in Files /\ disk[f] \in Seq(Lines)
  BY <1>2, <1>3 DEF Compared
<1>6. \A f \in Compared : Unmatched(f) = Differing(disk[f], produced[f])
  BY DEF Unmatched, Differing
<1>7. \A f \in Files : disk[f] # Blank <=> f \in Compared
  BY <1>2, <1>3 DEF Compared, Tallied
<1> QED
  BY <1>2, <1>3, <1>4, <1>5, <1>6, <1>7

LEMMA CleanUpKeeps ==
  ASSUME LaunchInv, CleanUp
  PROVE  LaunchInv'
<1>1. /\ phase = "run" /\ DumpsInv /\ (args.stop => args.compare)
      /\ phase' = "end" /\ exit_status' = close_dump_files
      /\ file' = <<>> /\ stats' = <<>>
      /\ UNCHANGED <<args, produced, comp, stop_on_diff, disk>>
  BY DEF LaunchInv, CleanUp
<1>2. exit_status' \in {0, 1}
  BY <1>1 DEF close_dump_files
<1>3. CountsInv'
  <2>1. DOMAIN stats' = {}
    BY <1>1
  <2> QED
    BY <2>1 DEF CountsInv
<1>4. Comparing' = Comparing /\ Compared' = Compared
        /\ \A f : Unmatched(f)' = Unmatched(f)
  BY <1>1 DEF Comparing, Compared, Unmatched
<1>5. ExitStatusTellsUnmatched'
  <2> SUFFICES ASSUME Comparing
               PROVE  exit_status' = 0 <=>
                        \A f \in Files : disk[f] = Blank \/ Unmatched(f) = {}
    <3>1. Comparing => DOMAIN produced = Files
      BY <1>1, ComparedIsTallied
    <3> QED
      BY <1>1, <1>4, <3>1 DEF ExitStatusTellsUnmatched
  <2>1. exit_status' = 0 <=> \A f \in Files : stats[f].er = 0
    <3>1. comp /\ DOMAIN stats = Files
      BY <1>1, ComparedIsTallied DEF Comparing
    <3> QED
      BY <1>1, <3>1 DEF close_dump_files
  <2>2. \A f \in Compared : stats[f].er # 0 <=> Unmatched(f) # {}
    BY <1>1, ComparedIsTallied, TalliedDifferences
  <2>3. \A f \in Files : /\ stats[f].er # 0 => f \in Compared
                         /\ disk[f] # Blank <=> f \in Compared
    BY <1>1, ComparedIsTallied
  <2> QED
    BY <2>1, <2>2, <2>3
<1>6. StopsAtFirstDifference'
  <2> SUFFICES ASSUME args.stop, ~args.dont_dump
               PROVE  \A f \in Compared : Unmatched(f) = {}
    BY <1>1, <1>4 DEF StopsAtFirstDifference
  <2>1. Comparing
    BY <1>1 DEF Comparing
  <2> QED
    BY <1>1, <2>1, ComparedIsTallied, TalliedDifferences
<1> QED
  BY <1>1, <1>2, <1>3, <1>5, <1>6 DEF LaunchInv

LEMMA UnchangedKeeps ==
  ASSUME LaunchInv, UNCHANGED vars
  PROVE  LaunchInv'
<1>1. UNCHANGED <<phase, argv, args, produced, exit_status, comp, stop_on_diff, disk, file, stats>>
  BY DEF vars, dumpVars
<1>2. Files' = Files /\ CountsInv' = CountsInv /\ Unopened' = Unopened
  BY <1>1 DEF Files, CountsInv, Unopened
<1>3. OldFilesInv' = OldFilesInv
  BY <1>1, <1>2 DEF OldFilesInv
<1>4. \A f : FileInv(f)' = FileInv(f)
  BY <1>1 DEF FileInv
<1>5. DumpsInv' = DumpsInv
  BY <1>1, <1>2, <1>4 DEF DumpsInv
<1>6. Comparing' = Comparing /\ Compared' = Compared
        /\ \A f : Unmatched(f)' = Unmatched(f)
  BY <1>1 DEF Comparing, Compared, Unmatched
<1>7. /\ ExitStatusTellsUnmatched' = ExitStatusTellsUnmatched
      /\ StopsAtFirstDifference' = StopsAtFirstDifference
  BY <1>1, <1>6 DEF ExitStatusTellsUnmatched, StopsAtFirstDifference
<1> QED
  BY <1>1, <1>2, <1>3, <1>5, <1>7 DEF LaunchInv

(***************************************************************************)
(* The inductive invariant holds: whatever the command line, the old files *)
(* and the simulation, the statistics and what is left of the old files    *)
(* agree with the whole files.                                             *)
(***************************************************************************)
THEOREM LaunchInvariance == Spec => []LaunchInv
<1>1. Init => LaunchInv
  <2> SUFFICES ASSUME Init
               PROVE  LaunchInv
    OBVIOUS
  <2>1. Unopened /\ stats = <<>> /\ phase = "parse" /\ argv \in CommandLines
          /\ exit_status = 0
    BY DEF Init, DumpInit, Unopened
  <2>2. CountsInv
    <3>1. DOMAIN stats = {}
      BY <2>1
    <3> QED
      BY <3>1 DEF CountsInv
  <2> QED
    BY <2>1, <2>2 DEF LaunchInv
<1>2. LaunchInv /\ [Next]_vars => LaunchInv'
  <2> SUFFICES ASSUME LaunchInv, [Next]_vars
               PROVE  LaunchInv'
    OBVIOUS
  <2>1. CASE Parse
    BY <2>1, ParseKeeps
  <2>2. CASE Open
    BY <2>2, OpenKeeps
  <2>3. ASSUME NEW f \in DOMAIN produced, NEW line \in Lines \cup {TooLong}, Dump(f, line)
        PROVE  LaunchInv'
    <3>1. line \in LineProduced
      BY DEF LineProduced
    <3> QED
      BY <2>3, <3>1, IgnoredDumpKeeps, OpenDumpKeeps
  <2>4. CASE CleanUp
    BY <2>4, CleanUpKeeps
  <2>5. CASE UNCHANGED vars
    BY <2>5, UnchangedKeeps
  <2> QED
    BY <2>1, <2>2, <2>3, <2>4, <2>5 DEF Next
<1> QED
  BY <1>1, <1>2, PTL DEF Spec

(***************************************************************************)
(* p2G4_dump.c never counts more differences than lines, nor more lines    *)
(* than were produced, and gives a file up in time.                        *)
(***************************************************************************)
THEOREM LaunchTypeOK == Spec => []TypeOK
<1>1. LaunchInv => TypeOK
  BY DEF LaunchInv, TypeOK, CountsInv, Counted
<1> QED
  BY <1>1, LaunchInvariance, PTL

(***************************************************************************)
(* The statistics of a comparison are exact.                               *)
(***************************************************************************)
THEOREM StatisticsAreExact == Spec => []StatsAreExact
<1>1. LaunchInv => StatsAreExact
  <2> SUFFICES ASSUME LaunchInv, phase = "run", Comparing, NEW f \in Compared
               PROVE  LET seen == 1 .. stats[f].nbr
                      IN /\ stats[f].er = Cardinality(Unmatched(f) \cap seen)
                         /\ \/ seen = DOMAIN produced[f]
                            \/ stats[f].er = MAX_ERRORS + 1
                            \/ stats[f].nbr = Len(disk[f]) + 1
    BY DEF StatsAreExact
  <2>1. DumpsInv
    BY DEF LaunchInv
  <2>2. /\ produced[f] \in Seq(LineProduced) /\ disk[f] # Blank
        /\ Unmatched(f) = Differing(disk[f], produced[f])
        /\ Tallied(disk[f], produced[f], file[f], stats[f])
    BY <2>1, ComparedIsTallied DEF Compared
  <2>3. stats[f].er = Cardinality(Unmatched(f) \cap (1 .. stats[f].nbr))
    BY <2>2 DEF Tallied
  <2>4. file[f] # Closed => 1 .. stats[f].nbr = DOMAIN produced[f]
    BY <2>2 DEF Tallied
  <2>5. file[f] = Closed => stats[f].er = MAX_ERRORS + 1 \/ stats[f].nbr = Len(disk[f]) + 1
    BY <2>2 DEF Tallied
  <2> QED
    BY <2>3, <2>4, <2>5
<1> QED
  BY <1>1, LaunchInvariance, PTL

(***************************************************************************)
(* The exit status of a comparison is 0 exactly if every line produced is, *)
(* at its place, in an old file that could be checked.                     *)
(***************************************************************************)
THEOREM ExitStatusIsTrue == Spec => []ExitStatusTellsUnmatched
<1>1. LaunchInv => ExitStatusTellsUnmatched
  BY DEF LaunchInv, ExitStatusTellsUnmatched
<1> QED
  BY <1>1, LaunchInvariance, PTL

(***************************************************************************)
(* With -stop_on_diff nothing goes on past a difference.                   *)
(***************************************************************************)
THEOREM DifferencesStop == Spec => []StopsAtFirstDifference
<1>1. LaunchInv => StopsAtFirstDifference
  <2>1. CASE phase = "run"
    <3> SUFFICES ASSUME LaunchInv, args.stop, ~args.dont_dump
                 PROVE  \A f \in Compared : Unmatched(f) = {}
      BY DEF StopsAtFirstDifference
    <3>1. DumpsInv /\ Comparing
      BY <2>1 DEF LaunchInv, Comparing
    <3> QED
      BY <3>1, ComparedIsTallied, TalliedDifferences
  <2>2. CASE phase # "run"
    BY <2>2 DEF LaunchInv, StopsAtFirstDifference
  <2> QED
    BY <2>1, <2>2
<1> QED
  BY <1>1, LaunchInvariance, PTL

(***************************************************************************)
(* A run that compares, stops on a difference or does not dump writes to   *)
(* none of the old dumps.                                                  *)
(***************************************************************************)
THEOREM OldDumpsSurvive == Spec => OldDumpsAreKept
<1>1. LaunchInv /\ [Next]_vars =>
        [phase # "parse" /\ (args.compare \/ args.stop \/ args.dont_dump) =>
           UNCHANGED disk]_vars
  <2> SUFFICES ASSUME LaunchInv, Next, phase # "parse",
                      args.compare \/ args.stop \/ args.dont_dump
               PROVE  disk' = disk
    BY DEF vars, dumpVars
  <2>1. CASE Open
    <3>1. args.stop => args.compare
      BY <2>1 DEF LaunchInv, Open
    <3> QED
      BY <2>1, <3>1 DEF Open, open_dump_files, dumpVars
  <2>2. ASSUME NEW f \in DOMAIN produced, NEW line \in Lines \cup {TooLong}, Dump(f, line)
        PROVE  disk' = disk
    <3>1. line \in LineProduced
      BY DEF LineProduced
    <3>2. DumpsInv /\ (args.stop => args.compare)
      BY <2>2, <3>1, DumpChanges
    <3>3. CASE ~IsOpen(f)
      BY <2>2, <3>3 DEF Dump, dump
    <3>4. CASE IsOpen(f)
      <4>1. ~args.dont_dump
        BY <3>2, <3>4, OnlyOpenedAreOpen
      <4>2. comp
        BY <3>2, <4>1 DEF DumpsInv
      <4> QED
        BY <2>2, <4>2 DEF Dump, dump
    <3> QED
      BY <3>3, <3>4
  <2>3. CASE CleanUp
    BY <2>3 DEF CleanUp
  <2>4. CASE Parse
    BY <2>4 DEF Parse
  <2> QED
    BY <2>1, <2>2, <2>3, <2>4 DEF Next
<1> QED
  BY <1>1, LaunchInvariance, PTL DEF Spec, OldDumpsAreKept
(***************************************************************************)
(* Sections of a command line, as far as it has been read.                 *)
(***************************************************************************)
Arguments(line) == {line[i] : i \in DOMAIN line}

Collected(list, line, positions) ==
  list \in Seq(Arguments(line)) /\ Lists(list, line, positions)

LEMMA NothingCollected ==
  ASSUME NEW line
  PROVE  Collected(<<>>, line, {})
<1>1. Cardinality({}) = 0
  BY FS_EmptySet
<1> QED
  BY <1>1 DEF Collected, Lists

LEMMA NotCollected ==
  ASSUME NEW S, NEW n \in Nat, n + 1 \notin S
  PROVE  S \cap (1 .. n + 1) = S \cap (1 .. n)
OBVIOUS

LEMMA AppendExtends ==
  ASSUME NEW S, NEW list \in Seq(S), NEW x \in S
  PROVE  /\ Append(list, x) \in Seq(S) /\ DOMAIN Append(list, x) = 1 .. Len(list) + 1
         /\ Append(list, x)[Len(list) + 1] = x
         /\ \A r \in 1 .. Len(list) : Append(list, x)[r] = list[r]
OBVIOUS

LEMMA CollectNext ==
  ASSUME NEW line, NEW n \in Nat, n + 1 \in DOMAIN line, NEW S, n + 1 \in S,
         NEW list, Collected(list, line, S \cap (1 .. n))
  PROVE  Collected(Append(list, line[n + 1]), line, S \cap (1 .. n + 1))
<1> DEFINE T    == S \cap (1 .. n)
           more == Append(list, line[n + 1])
<1>1. S \cap (1 .. n + 1) = T \cup {n + 1} /\ n + 1 \notin T
  OBVIOUS
<1>2. IsFiniteSet(T)
  <2>1. IsFiniteSet(1 .. n) /\ T \subseteq 1 .. n
    BY FS_Interval
  <2> QED
    BY <2>1, FS_Subset
<1>3. Cardinality(T) \in Nat /\ Cardinality(T \cup {n + 1}) = Cardinality(T) + 1
  <2> HIDE DEF T
  <2> QED
    BY <1>1, <1>2, FS_CardinalityType, FS_AddElement
<1>4. /\ list \in Seq(Arguments(line)) /\ Len(list) = Cardinality(T)
      /\ \A i \in T : list[Cardinality(T \cap (1 .. i))] = line[i]
  <2>1. list \in Seq(Arguments(line)) /\ DOMAIN list = 1 .. Cardinality(T)
    BY DEF Collected, Lists
  <2>2. Len(list) = Cardinality(T)
    BY <1>3, <2>1
  <2> QED
    BY <2>1, <2>2 DEF Collected, Lists
<1>5. /\ more \in Seq(Arguments(line)) /\ DOMAIN more = 1 .. Cardinality(T) + 1
      /\ more[Cardinality(T) + 1] = line[n + 1]
      /\ \A r \in 1 .. Cardinality(T) : more[r] = list[r]
  <2>1. line[n + 1] \in Arguments(line)
    BY DEF Arguments
  <2>2. /\ more \in Seq(Arguments(line)) /\ DOMAIN more = 1 .. Len(list) + 1
        /\ more[Len(list) + 1] = line[n + 1]
        /\ \A r \in 1 .. Len(list) : more[r] = list[r]
    <3> DEFINE A == Arguments(line)
               a == line[n + 1]
    <3>1. list \in Seq(A) /\ a \in A
      BY <1>4, <2>1
    <3> HIDE DEF A, a
    <3>2. /\ Append(list, a) \in Seq(A) /\ DOMAIN Append(list, a) = 1 .. Len(list) + 1
          /\ Append(list, a)[Len(list) + 1] = a
          /\ \A r \in 1 .. Len(list) : Append(list, a)[r] = list[r]
      BY <3>1, AppendExtends
    <3> QED
      BY <3>2 DEF A, a
  <2>3. Len(list) = Cardinality(T)
    BY <1>4
  <2> HIDE DEF T, more
  <2> QED
    BY <2>2, <2>3
<1>6. ASSUME NEW i \in T
      PROVE  more[Cardinality((T \cup {n + 1}) \cap (1 .. i))] = line[i]
  <2> DEFINE R == T \cap (1 .. i)
  <2>1. (T \cup {n + 1}) \cap (1 .. i) = R /\ R \subseteq T /\ R # {}
    OBVIOUS
  <2>2. Cardinality(R) \in 1 .. Cardinality(T)
    <3> HIDE DEF R, T
    <3>1. IsFiniteSet(R) /\ Cardinality(R) <= Cardinality(T)
      BY <1>2, <2>1, FS_Subset
    <3>2. Cardinality(R) \in Nat /\ Cardinality(R) # 0
      BY <2>1, <3>1, FS_CardinalityType, FS_EmptySet
    <3> QED
      BY <1>3, <3>1, <3>2
  <2>3. list[Cardinality(R)] = line[i]
    BY <1>4
  <2> HIDE DEF R, T, more
  <2> QED
    BY <1>5, <2>1, <2>2, <2>3
<1>7. more[Cardinality((T \cup {n + 1}) \cap (1 .. n + 1))] = line[n + 1]
  <2>1. (T \cup {n + 1}) \cap (1 .. n + 1) = T \cup {n + 1}
    OBVIOUS
  <2> HIDE DEF T, more
  <2> QED
    BY <1>3, <1>5, <2>1
<1> HIDE DEF T, more
<1>8. Collected(more, line, T \cup {n + 1})
  BY <1>3, <1>5, <1>6, <1>7 DEF Collected, Lists
<1> QED
  BY <1>1, <1>8 DEF more

LEMMA NextHeading ==
  ASSUME NEW line, NEW n \in Nat
  PROVE  HeadingsBefore(line, (n + 1) + 1) =
           HeadingsBefore(line, n + 1) \cup {j \in {n + 1} : IsHeading(line[j])}
<1>1. 1 .. ((n + 1) + 1) - 1 = (1 .. (n + 1) - 1) \cup {n + 1}
  OBVIOUS
<1> QED
  BY <1>1 DEF HeadingsBefore

LEMMA SectionGoesOn ==
  ASSUME NEW line, NEW n \in Nat, ~IsHeading(line[n + 1]), NEW opt, NEW nbr
  PROVE  InSection(line, (n + 1) + 1, opt, nbr) <=> InSection(line, n + 1, opt, nbr)
<1>1. HeadingsBefore(line, (n + 1) + 1) = HeadingsBefore(line, n + 1)
  BY NextHeading
<1> QED
  BY <1>1 DEF InSection

LEMMA LastIsNext ==
  ASSUME NEW n \in Nat, NEW S, S \subseteq 1 .. n
  PROVE  LastOf(S \cup {n + 1}) = n + 1
<1> DEFINE T == S \cup {n + 1}
<1>1. n + 1 \in T /\ \A k \in T : k <= n + 1
  OBVIOUS
<1>2. \A i \in T : (\A k \in T : k <= i) => i = n + 1
  OBVIOUS
<1> HIDE DEF T
<1>3. (CHOOSE i \in T : \A k \in T : k <= i) = n + 1
  BY <1>1, <1>2
<1> QED
  BY <1>3 DEF LastOf, T

LEMMA SectionStarts ==
  ASSUME NEW line, NEW n \in Nat, IsHeading(line[n + 1]), NEW opt, NEW nbr
  PROVE  InSection(line, (n + 1) + 1, opt, nbr) <=>
           line[n + 1].opt = opt /\ (opt = "argsmodem" => line[n + 1].nbr = nbr)
<1> DEFINE before == HeadingsBefore(line, n + 1)
<1>1. before \subseteq 1 .. n
  BY DEF HeadingsBefore
<1>2. HeadingsBefore(line, (n + 1) + 1) = before \cup {n + 1}
  BY NextHeading
<1> HIDE DEF before
<1>3. LastOf(before \cup {n + 1}) = n + 1
  BY <1>1, LastIsNext
<1>4. before \cup {n + 1} # {}
  OBVIOUS
<1> QED
  BY <1>2, <1>3, <1>4 DEF InSection

LEMMA NextName ==
  ASSUME NEW line, NEW n \in Nat, NEW options, NEW default
  PROVE  LastName(line, options \cap (1 .. n + 1), default) =
           IF n + 1 \in options THEN line[n + 1].name
           ELSE LastName(line, options \cap (1 .. n), default)
<1>1. CASE n + 1 \in options
  <2> DEFINE earlier == options \cap (1 .. n)
  <2>1. options \cap (1 .. n + 1) = earlier \cup {n + 1} /\ earlier \subseteq 1 .. n
    BY <1>1
  <2> HIDE DEF earlier
  <2>2. LastOf(earlier \cup {n + 1}) = n + 1 /\ earlier \cup {n + 1} # {}
    BY <2>1, LastIsNext
  <2> QED
    BY <1>1, <2>1, <2>2 DEF LastName
<1>2. CASE n + 1 \notin options
  BY <1>2, NotCollected
<1> QED
  BY <1>1, <1>2
(***************************************************************************)
(* What parsing n arguments leaves in p2G4_args_t: the section it is in,   *)
(* and for every library the arguments of its own section so far.          *)
(***************************************************************************)
SoFar(line, opt, nbr, n) == Section(line, opt, nbr) \cap (1 .. n)

LocatedInv(x, line, n) ==
  /\ x.parsing \in {MAIN, CHANNEL, DEFMODEM} \cup {MODEM + d : d \in 0 .. x.n_devs - 1}
  /\ InSection(line, n + 1, "argsmain", 0) <=> x.parsing = MAIN
  /\ InSection(line, n + 1, "argschannel", 0) <=> x.parsing = CHANNEL
  /\ InSection(line, n + 1, "argsdefmodem", 0) <=> x.parsing = DEFMODEM
  /\ \A d \in Nat : InSection(line, n + 1, "argsmodem", d) <=> x.parsing = MODEM + d

ChannelInv(x, line, n) ==
  Collected(x.channel_argv, line, SoFar(line, "argschannel", 0, n))

DefmodemInv(x, line, n) ==
  /\ Collected(x.defmodem_argv, line, SoFar(line, "argsdefmodem", 0, n))
  /\ x.defmodem_name = LastName(line, DefmodemOptions(line) \cap (1 .. n), DefaultModem)

ModemInv(x, line, n, d) ==
  IF d < x.n_devs
  THEN /\ Collected(x.modem_argv[d], line, SoFar(line, "argsmodem", d, n))
       /\ x.modem_name[d] = LastName(line, ModemOptions(line, d) \cap (1 .. n), NULL)
  ELSE SoFar(line, "argsmodem", d, n) = {} /\ ModemOptions(line, d) \cap (1 .. n) = {}

FieldsInv(x) ==
  /\ {"parsing", "outcome", "n_devs", "channel_argv", "defmodem_argv", "defmodem_name",
      "modem_name", "modem_argv"} \subseteq DOMAIN x
  /\ x.n_devs \in Nat
  /\ DOMAIN x.modem_name = 0 .. x.n_devs - 1
  /\ DOMAIN x.modem_argv = 0 .. x.n_devs - 1

SortedInv(x, line, n) ==
  /\ FieldsInv(x)
  /\ LocatedInv(x, line, n)
  /\ ChannelInv(x, line, n)
  /\ DefmodemInv(x, line, n)
  /\ \A d \in Nat : ModemInv(x, line, n, d)

ALine(line) ==
  /\ Len(line) \in Nat /\ DOMAIN line = 1 .. Len(line)
  /\ \A i \in DOMAIN line : line[i].nbr \in Nat

LEMMA NothingSorted ==
  ASSUME NEW line
  PROVE  SortedInv(Defaults, line, 0)
<1>1. 1 .. 0 = {} /\ \A S : S \cap (1 .. 0) = {}
  OBVIOUS
<1>2. HeadingsBefore(line, 0 + 1) = {}
  BY DEF HeadingsBefore
<1>3. \A opt, nbr : InSection(line, 0 + 1, opt, nbr) <=> opt = "argsmain"
  BY <1>2 DEF InSection
<1>4. LocatedInv(Defaults, line, 0)
  BY <1>3 DEF LocatedInv, Defaults, MAIN, CHANNEL, DEFMODEM, MODEM
<1>5. \A opt, nbr : SoFar(line, opt, nbr, 0) = {}
  BY <1>1 DEF SoFar
<1>6. \A default : LastName(line, {}, default) = default
  BY DEF LastName
<1>7. ChannelInv(Defaults, line, 0) /\ DefmodemInv(Defaults, line, 0)
  BY <1>1, <1>5, <1>6, NothingCollected DEF ChannelInv, DefmodemInv, Defaults
<1>8. \A d \in Nat : ModemInv(Defaults, line, 0, d)
  BY <1>1, <1>5 DEF ModemInv, Defaults
<1>9. FieldsInv(Defaults)
  BY DEF FieldsInv, Defaults
<1> QED
  BY <1>4, <1>7, <1>8, <1>9 DEF SortedInv

(***************************************************************************)
(* Where the next argument belongs.                                        *)
(***************************************************************************)
LEMMA NextInSection ==
  ASSUME NEW line, NEW n \in Nat, n + 1 \in DOMAIN line, NEW opt, NEW nbr
  PROVE  n + 1 \in Section(line, opt, nbr) <=>
           ~IsHeading(line[n + 1]) /\ InSection(line, n + 1, opt, nbr)
BY DEF Section

LEMMA ElsewhereStays ==
  ASSUME NEW line, NEW n \in Nat, n + 1 \in DOMAIN line, NEW opt, NEW nbr,
         IsHeading(line[n + 1]) \/ ~InSection(line, n + 1, opt, nbr)
  PROVE  SoFar(line, opt, nbr, n + 1) = SoFar(line, opt, nbr, n)
BY NextInSection, NotCollected DEF SoFar

LEMMA HereGrows ==
  ASSUME NEW line, NEW n \in Nat, n + 1 \in DOMAIN line, NEW opt, NEW nbr,
         ~IsHeading(line[n + 1]), InSection(line, n + 1, opt, nbr),
         NEW list, Collected(list, line, SoFar(line, opt, nbr, n))
  PROVE  Collected(Append(list, line[n + 1]), line, SoFar(line, opt, nbr, n + 1))
BY NextInSection, CollectNext DEF SoFar

LEMMA OptionsStay ==
  ASSUME NEW line, NEW n \in Nat, n + 1 \in DOMAIN line,
         IsHeading(line[n + 1]) \/ ~InSection(line, n + 1, "argsmain", 0)
           \/ line[n + 1].opt \notin {"modem", "defmodem"}
  PROVE  /\ DefmodemOptions(line) \cap (1 .. n + 1) = DefmodemOptions(line) \cap (1 .. n)
         /\ \A d : ModemOptions(line, d) \cap (1 .. n + 1) = ModemOptions(line, d) \cap (1 .. n)
<1>1. n + 1 \notin DefmodemOptions(line) /\ \A d : n + 1 \notin ModemOptions(line, d)
  BY NextInSection DEF DefmodemOptions, ModemOptions
<1> QED
  BY <1>1, NotCollected

LEMMA LocatedStays ==
  ASSUME NEW x, NEW y, NEW line, NEW n \in Nat, LocatedInv(x, line, n),
         ~IsHeading(line[n + 1]), y.parsing = x.parsing, y.n_devs = x.n_devs
  PROVE  LocatedInv(y, line, n + 1)
BY SectionGoesOn DEF LocatedInv

(***************************************************************************)
(* A heading, and the Phy's own options other than -D.                     *)
(***************************************************************************)
LEMMA HeadingSorted ==
  ASSUME NEW line, ALine(line), NEW n \in Nat, n + 1 \in DOMAIN line, IsHeading(line[n + 1]),
         NEW x, SortedInv(x, line, n), x.outcome = "ok",
         Switched(x, line[n + 1]).outcome = "ok"
  PROVE  SortedInv(Switched(x, line[n + 1]), line, n + 1)
<1> DEFINE a == line[n + 1]
           y == Switched(x, a)
<1>0. FieldsInv(x) /\ a.nbr \in Nat /\ Refused(x).outcome # "ok"
  BY DEF SortedInv, ALine, FieldsInv, Refused
<1>1. /\ a.opt \in {"argschannel", "argsdefmodem", "argsmain", "argsmodem"}
      /\ a.opt = "argsmodem" => a.nbr < x.n_devs
  BY <1>0 DEF Switched, IsHeading, Headings, FieldsInv
<1>2. y = [x EXCEPT !.parsing = CASE a.opt = "argschannel"  -> CHANNEL
                                  [] a.opt = "argsdefmodem" -> DEFMODEM
                                  [] a.opt = "argsmain"     -> MAIN
                                  [] OTHER                  -> MODEM + a.nbr]
  BY <1>0, <1>1 DEF Switched, FieldsInv
<1> HIDE DEF y
<1>3. /\ y.parsing = CASE a.opt = "argschannel"  -> CHANNEL
                       [] a.opt = "argsdefmodem" -> DEFMODEM
                       [] a.opt = "argsmain"     -> MAIN
                       [] OTHER                  -> MODEM + a.nbr
      /\ DOMAIN y = DOMAIN x
      /\ y.n_devs = x.n_devs /\ y.channel_argv = x.channel_argv
      /\ y.defmodem_argv = x.defmodem_argv /\ y.defmodem_name = x.defmodem_name
      /\ y.modem_name = x.modem_name /\ y.modem_argv = x.modem_argv
  BY <1>0, <1>2 DEF FieldsInv
<1>4. FieldsInv(y)
  BY <1>0, <1>3 DEF FieldsInv
<1>5. \A opt, nbr : InSection(line, (n + 1) + 1, opt, nbr) <=>
                      a.opt = opt /\ (opt = "argsmodem" => a.nbr = nbr)
  BY SectionStarts
<1>6. LocatedInv(y, line, n + 1)
  BY <1>0, <1>1, <1>3, <1>5, SMTT(30)
  DEF LocatedInv, FieldsInv, MAIN, CHANNEL, DEFMODEM, MODEM
<1>7. \A opt, nbr : SoFar(line, opt, nbr, n + 1) = SoFar(line, opt, nbr, n)
  BY ElsewhereStays
<1>8. /\ DefmodemOptions(line) \cap (1 .. n + 1) = DefmodemOptions(line) \cap (1 .. n)
      /\ \A d : ModemOptions(line, d) \cap (1 .. n + 1) = ModemOptions(line, d) \cap (1 .. n)
  BY OptionsStay
<1>9. ChannelInv(y, line, n + 1) /\ DefmodemInv(y, line, n + 1)
  BY <1>3, <1>7, <1>8 DEF SortedInv, ChannelInv, DefmodemInv
<1>10. \A d \in Nat : ModemInv(y, line, n + 1, d)
  BY <1>3, <1>7, <1>8 DEF SortedInv, ModemInv
<1>11. SortedInv(y, line, n + 1)
  BY <1>4, <1>6, <1>9, <1>10 DEF SortedInv
<1> QED
  BY <1>11 DEF y

LEMMA OptionSorted ==
  ASSUME NEW line, NEW n \in Nat, n + 1 \in DOMAIN line, ~IsHeading(line[n + 1]),
         line[n + 1].opt \notin {"modem", "defmodem"},
         NEW x, SortedInv(x, line, n), x.parsing = MAIN,
         NEW y, DOMAIN y = DOMAIN x, y.parsing = x.parsing,
         y.n_devs = x.n_devs, y.channel_argv = x.channel_argv,
         y.defmodem_argv = x.defmodem_argv, y.defmodem_name = x.defmodem_name,
         y.modem_name = x.modem_name, y.modem_argv = x.modem_argv
  PROVE  SortedInv(y, line, n + 1)
<1>1. FieldsInv(y) /\ LocatedInv(y, line, n + 1)
  BY LocatedStays DEF SortedInv, FieldsInv
<1>2. /\ SoFar(line, "argschannel", 0, n + 1) = SoFar(line, "argschannel", 0, n)
      /\ SoFar(line, "argsdefmodem", 0, n + 1) = SoFar(line, "argsdefmodem", 0, n)
      /\ \A d \in Nat : SoFar(line, "argsmodem", d, n + 1) = SoFar(line, "argsmodem", d, n)
  BY ElsewhereStays DEF SortedInv, LocatedInv, MAIN, CHANNEL, DEFMODEM, MODEM
<1>3. /\ DefmodemOptions(line) \cap (1 .. n + 1) = DefmodemOptions(line) \cap (1 .. n)
      /\ \A d : ModemOptions(line, d) \cap (1 .. n + 1) = ModemOptions(line, d) \cap (1 .. n)
  BY OptionsStay
<1>4. ChannelInv(y, line, n + 1) /\ DefmodemInv(y, line, n + 1)
  BY <1>2, <1>3 DEF SortedInv, ChannelInv, DefmodemInv
<1>5. \A d \in Nat : ModemInv(y, line, n + 1, d)
  BY <1>2, <1>3 DEF SortedInv, ModemInv
<1> QED
  BY <1>1, <1>4, <1>5 DEF SortedInv
(***************************************************************************)
(* The options that name modems, and -D.                                   *)
(***************************************************************************)
LEMMA MainStays ==
  ASSUME NEW line, NEW n \in Nat, n + 1 \in DOMAIN line,
         NEW x, LocatedInv(x, line, n), x.parsing = MAIN
  PROVE  /\ SoFar(line, "argschannel", 0, n + 1) = SoFar(line, "argschannel", 0, n)
         /\ SoFar(line, "argsdefmodem", 0, n + 1) = SoFar(line, "argsdefmodem", 0, n)
         /\ \A d \in Nat : SoFar(line, "argsmodem", d, n + 1) = SoFar(line, "argsmodem", d, n)
BY ElsewhereStays DEF LocatedInv, MAIN, CHANNEL, DEFMODEM, MODEM

LEMMA DefmodemSorted ==
  ASSUME NEW line, NEW n \in Nat, n + 1 \in DOMAIN line, ~IsHeading(line[n + 1]),
         line[n + 1].opt = "defmodem",
         NEW x, SortedInv(x, line, n), x.parsing = MAIN
  PROVE  SortedInv([x EXCEPT !.defmodem_name = line[n + 1].name], line, n + 1)
<1> DEFINE a == line[n + 1]
           y == [x EXCEPT !.defmodem_name = a.name]
<1>1. /\ DOMAIN y = DOMAIN x /\ y.parsing = x.parsing
      /\ y.n_devs = x.n_devs /\ y.channel_argv = x.channel_argv
      /\ y.defmodem_argv = x.defmodem_argv /\ y.defmodem_name = a.name
      /\ y.modem_name = x.modem_name /\ y.modem_argv = x.modem_argv
  BY DEF SortedInv, FieldsInv
<1> HIDE DEF y
<1>2. FieldsInv(y) /\ LocatedInv(y, line, n + 1)
  BY <1>1, LocatedStays DEF SortedInv, FieldsInv
<1>3. n + 1 \in Section(line, "argsmain", 0)
  BY NextInSection DEF SortedInv, LocatedInv
<1>4. n + 1 \in DefmodemOptions(line) /\ \A d : n + 1 \notin ModemOptions(line, d)
  BY <1>3 DEF DefmodemOptions, ModemOptions
<1>5. LocatedInv(x, line, n)
  BY DEF SortedInv
<1>6. ChannelInv(y, line, n + 1)
  BY <1>1, <1>5, MainStays DEF SortedInv, ChannelInv
<1>7. DefmodemInv(y, line, n + 1)
  BY <1>1, <1>4, <1>5, MainStays, NextName DEF SortedInv, DefmodemInv
<1>8. \A d : ModemOptions(line, d) \cap (1 .. n + 1) = ModemOptions(line, d) \cap (1 .. n)
  BY <1>4, NotCollected
<1>9. \A d \in Nat : ModemInv(y, line, n + 1, d)
  BY <1>1, <1>5, <1>8, MainStays DEF SortedInv, ModemInv
<1>10. SortedInv(y, line, n + 1)
  BY <1>2, <1>6, <1>7, <1>9 DEF SortedInv
<1> QED
  BY <1>10 DEF y

LEMMA ModemSorted ==
  ASSUME NEW line, ALine(line), NEW n \in Nat, n + 1 \in DOMAIN line,
         ~IsHeading(line[n + 1]), line[n + 1].opt = "modem",
         NEW x, SortedInv(x, line, n), x.parsing = MAIN, line[n + 1].nbr < x.n_devs
  PROVE  SortedInv([x EXCEPT !.modem_name[line[n + 1].nbr] = line[n + 1].name], line, n + 1)
<1> DEFINE a == line[n + 1]
           y == [x EXCEPT !.modem_name[a.nbr] = a.name]
<1>1. /\ DOMAIN y = DOMAIN x /\ y.parsing = x.parsing
      /\ y.n_devs = x.n_devs /\ y.channel_argv = x.channel_argv
      /\ y.defmodem_argv = x.defmodem_argv /\ y.defmodem_name = x.defmodem_name
      /\ y.modem_name = [x.modem_name EXCEPT ![a.nbr] = a.name]
      /\ y.modem_argv = x.modem_argv
  BY DEF SortedInv, FieldsInv
<1> HIDE DEF y
<1>2. a.nbr \in 0 .. x.n_devs - 1 /\ FieldsInv(x)
  BY DEF ALine, SortedInv, FieldsInv
<1>3. FieldsInv(y) /\ LocatedInv(y, line, n + 1)
  BY <1>1, <1>2, LocatedStays DEF SortedInv, FieldsInv
<1>4. n + 1 \in Section(line, "argsmain", 0)
  BY NextInSection DEF SortedInv, LocatedInv
<1>5. n + 1 \notin DefmodemOptions(line) /\ \A d : n + 1 \in ModemOptions(line, d) <=> d = a.nbr
  BY <1>4 DEF DefmodemOptions, ModemOptions
<1>6. LocatedInv(x, line, n)
  BY DEF SortedInv
<1>7. ChannelInv(y, line, n + 1)
  BY <1>1, <1>6, MainStays DEF SortedInv, ChannelInv
<1>8. DefmodemInv(y, line, n + 1)
  BY <1>1, <1>5, <1>6, MainStays, NotCollected DEF SortedInv, DefmodemInv
<1>9. ASSUME NEW d \in Nat
      PROVE  ModemInv(y, line, n + 1, d)
  <2>1. ModemInv(x, line, n, d) /\ x.n_devs \in Nat
    BY <1>2 DEF SortedInv, FieldsInv
  <2>2. CASE d < x.n_devs
    <3>1. y.modem_name[d] = IF d = a.nbr THEN a.name ELSE x.modem_name[d]
      BY <1>1, <1>2, <2>1, <2>2 DEF FieldsInv
    <3>2. y.modem_name[d] = LastName(line, ModemOptions(line, d) \cap (1 .. n + 1), NULL)
      BY <1>5, <2>1, <2>2, <3>1, NextName DEF ModemInv
    <3> QED
      BY <1>1, <1>6, <2>1, <2>2, <3>2, MainStays DEF ModemInv
  <2>3. CASE ~(d < x.n_devs)
    <3>1. n + 1 \notin ModemOptions(line, d)
      BY <1>2, <1>5, <2>1, <2>3
    <3> QED
      BY <1>1, <1>6, <2>1, <2>3, <3>1, MainStays, NotCollected DEF ModemInv
  <2> QED
    BY <2>2, <2>3
<1>10. SortedInv(y, line, n + 1)
  BY <1>3, <1>7, <1>8, <1>9 DEF SortedInv
<1> QED
  BY <1>10 DEF y

LEMMA DevicesSorted ==
  ASSUME NEW line, ALine(line), NEW n \in Nat, n + 1 \in DOMAIN line,
         ~IsHeading(line[n + 1]), line[n + 1].opt = "D",
         NEW x, SortedInv(x, line, n), x.parsing = MAIN, x.n_devs = 0
  PROVE  SortedInv(allocate_modems_params([x EXCEPT !.n_devs = line[n + 1].nbr]), line, n + 1)
<1> DEFINE a == line[n + 1]
           y == allocate_modems_params([x EXCEPT !.n_devs = a.nbr])
<1>1. /\ DOMAIN y = DOMAIN x /\ y.parsing = x.parsing
      /\ y.n_devs = a.nbr /\ y.channel_argv = x.channel_argv
      /\ y.defmodem_argv = x.defmodem_argv /\ y.defmodem_name = x.defmodem_name
      /\ y.modem_name = [d \in 0 .. a.nbr - 1 |-> NULL]
      /\ y.modem_argv = [d \in 0 .. a.nbr - 1 |-> <<>>]
  BY DEF SortedInv, FieldsInv, allocate_modems_params
<1> HIDE DEF y
<1>2. a.nbr \in Nat
  BY DEF ALine
<1>3. FieldsInv(y)
  BY <1>1, <1>2 DEF SortedInv, FieldsInv
<1>4. LocatedInv(x, line, n)
  BY DEF SortedInv
<1>5. LocatedInv(y, line, n + 1)
  BY <1>1, <1>4, SectionGoesOn DEF LocatedInv, MAIN, CHANNEL, DEFMODEM, MODEM
<1>6. /\ DefmodemOptions(line) \cap (1 .. n + 1) = DefmodemOptions(line) \cap (1 .. n)
      /\ \A d : ModemOptions(line, d) \cap (1 .. n + 1) = ModemOptions(line, d) \cap (1 .. n)
  BY OptionsStay
<1>7. ChannelInv(y, line, n + 1) /\ DefmodemInv(y, line, n + 1)
  BY <1>1, <1>4, <1>6, MainStays DEF SortedInv, ChannelInv, DefmodemInv
<1>8. ASSUME NEW d \in Nat
      PROVE  ModemInv(y, line, n + 1, d)
  <2>1. SoFar(line, "argsmodem", d, n) = {} /\ ModemOptions(line, d) \cap (1 .. n) = {}
    <3>1. ModemInv(x, line, n, d)
      BY DEF SortedInv
    <3>2. ~(d < x.n_devs)
      OBVIOUS
    <3> QED
      BY <3>1, <3>2 DEF ModemInv
  <2>2. SoFar(line, "argsmodem", d, n + 1) = {} /\ ModemOptions(line, d) \cap (1 .. n + 1) = {}
    BY <1>4, <1>6, <2>1, MainStays
  <2>3. LastName(line, {}, NULL) = NULL
    BY DEF LastName
  <2> QED
    BY <1>1, <1>2, <2>2, <2>3, NothingCollected DEF ModemInv
<1>9. SortedInv(y, line, n + 1)
  BY <1>3, <1>5, <1>7, <1>8 DEF SortedInv
<1> QED
  BY <1>9 DEF y

LEMMA MainSorted ==
  ASSUME NEW line, ALine(line), NEW n \in Nat, n + 1 \in DOMAIN line, ~IsHeading(line[n + 1]),
         NEW x, SortedInv(x, line, n), x.parsing = MAIN,
         MainOption(x, line[n + 1]).outcome = "ok"
  PROVE  SortedInv(MainOption(x, line[n + 1]), line, n + 1)
<1> DEFINE a == line[n + 1]
           y == MainOption(x, a)
<1>1. FieldsInv(x) /\ Refused(x).outcome # "ok"
  BY DEF SortedInv, FieldsInv, Refused
<1>2. CASE a.opt = "s"
  <2>1. y = [x EXCEPT !.s_id = TRUE]
    BY <1>2 DEF MainOption
  <2> HIDE DEF y
  <2>2. SortedInv(y, line, n + 1)
    BY <1>1, <1>2, <2>1, OptionSorted DEF FieldsInv
  <2> QED
    BY <2>2 DEF y
<1>3. CASE a.opt = "nodump" \/ a.opt = "dump"
  <2>1. y = [x EXCEPT !.dont_dump = (a.opt = "nodump")]
    BY <1>3 DEF MainOption
  <2> HIDE DEF y
  <2>2. SortedInv(y, line, n + 1)
    BY <1>1, <1>3, <2>1, OptionSorted DEF FieldsInv
  <2> QED
    BY <2>2 DEF y
<1>4. CASE a.opt = "c"
  <2>1. y = [x EXCEPT !.compare = TRUE]
    BY <1>4 DEF MainOption
  <2> HIDE DEF y
  <2>2. SortedInv(y, line, n + 1)
    BY <1>1, <1>4, <2>1, OptionSorted DEF FieldsInv
  <2> QED
    BY <2>2 DEF y
<1>5. CASE a.opt = "stop_on_diff"
  <2>1. y = StopFound(x)
    BY <1>5 DEF MainOption
  <2>2. y = [x EXCEPT !.stop_on_diff = TRUE, !.compare = TRUE]
    BY <2>1 DEF StopFound
  <2> HIDE DEF y
  <2>3. SortedInv(y, line, n + 1)
    BY <1>1, <1>5, <2>2, OptionSorted DEF FieldsInv
  <2> QED
    BY <2>3 DEF y
<1>6. CASE a.opt = "defmodem"
  BY <1>6, DefmodemSorted DEF MainOption
<1>7. CASE a.opt = "D"
  BY <1>1, <1>7, DevicesSorted DEF MainOption
<1>8. CASE a.opt = "modem"
  <2>1. a.nbr < x.n_devs
    BY <1>1, <1>8 DEF MainOption, ALine, FieldsInv
  <2>2. y = [x EXCEPT !.modem_name[a.nbr] = a.name]
    BY <1>8, <2>1, <1>1 DEF MainOption, ALine, FieldsInv
  <2> QED
    BY <1>8, <2>1, <2>2, ModemSorted
<1>9. CASE a.opt \notin {"s", "nodump", "dump", "c", "stop_on_diff", "defmodem", "D", "modem"}
  BY <1>1, <1>9 DEF MainOption
<1> QED
  BY <1>2, <1>3, <1>4, <1>5, <1>6, <1>7, <1>8, <1>9
(***************************************************************************)
(* The parameters of the libraries.                                        *)
(***************************************************************************)
LEMMA ChannelSorted ==
  ASSUME NEW line, NEW n \in Nat, n + 1 \in DOMAIN line, ~IsHeading(line[n + 1]),
         NEW x, SortedInv(x, line, n), x.parsing = CHANNEL
  PROVE  SortedInv([x EXCEPT !.channel_argv = Append(@, line[n + 1])], line, n + 1)
<1> DEFINE y == [x EXCEPT !.channel_argv = Append(@, line[n + 1])]
<1>1. /\ DOMAIN y = DOMAIN x /\ y.parsing = x.parsing
      /\ y.n_devs = x.n_devs /\ y.channel_argv = Append(x.channel_argv, line[n + 1])
      /\ y.defmodem_argv = x.defmodem_argv /\ y.defmodem_name = x.defmodem_name
      /\ y.modem_name = x.modem_name /\ y.modem_argv = x.modem_argv
  BY DEF SortedInv, FieldsInv
<1> HIDE DEF y
<1>2. FieldsInv(y) /\ LocatedInv(y, line, n + 1)
  BY <1>1, LocatedStays DEF SortedInv, FieldsInv
<1>3. /\ InSection(line, n + 1, "argschannel", 0)
      /\ ~InSection(line, n + 1, "argsmain", 0)
      /\ ~InSection(line, n + 1, "argsdefmodem", 0)
      /\ \A d \in Nat : ~InSection(line, n + 1, "argsmodem", d)
  BY DEF SortedInv, LocatedInv, MAIN, CHANNEL, DEFMODEM, MODEM
<1>4. ChannelInv(y, line, n + 1)
  <2>1. Collected(Append(x.channel_argv, line[n + 1]), line,
                  SoFar(line, "argschannel", 0, n + 1))
    BY <1>3, HereGrows DEF SortedInv, ChannelInv
  <2> QED
    BY <1>1, <2>1 DEF ChannelInv
<1>5. DefmodemInv(y, line, n + 1)
  BY <1>1, <1>3, ElsewhereStays, OptionsStay DEF SortedInv, DefmodemInv
<1>6. ASSUME NEW d \in Nat
      PROVE  ModemInv(y, line, n + 1, d)
  <2>1. SoFar(line, "argsmodem", d, n + 1) = SoFar(line, "argsmodem", d, n)
    BY <1>3, ElsewhereStays
  <2>2. ModemOptions(line, d) \cap (1 .. n + 1) = ModemOptions(line, d) \cap (1 .. n)
    BY <1>3, OptionsStay
  <2>3. ModemInv(x, line, n, d)
    BY DEF SortedInv
  <2> QED
    BY <1>1, <2>1, <2>2, <2>3 DEF ModemInv
<1>7. SortedInv(y, line, n + 1)
  BY <1>2, <1>4, <1>5, <1>6 DEF SortedInv
<1> QED
  BY <1>7 DEF y

LEMMA DefmodemArgSorted ==
  ASSUME NEW line, NEW n \in Nat, n + 1 \in DOMAIN line, ~IsHeading(line[n + 1]),
         NEW x, SortedInv(x, line, n), x.parsing = DEFMODEM
  PROVE  SortedInv([x EXCEPT !.defmodem_argv = Append(@, line[n + 1])], line, n + 1)
<1> DEFINE y == [x EXCEPT !.defmodem_argv = Append(@, line[n + 1])]
<1>1. /\ DOMAIN y = DOMAIN x /\ y.parsing = x.parsing
      /\ y.n_devs = x.n_devs /\ y.channel_argv = x.channel_argv
      /\ y.defmodem_argv = Append(x.defmodem_argv, line[n + 1])
      /\ y.defmodem_name = x.defmodem_name
      /\ y.modem_name = x.modem_name /\ y.modem_argv = x.modem_argv
  BY DEF SortedInv, FieldsInv
<1> HIDE DEF y
<1>2. FieldsInv(y) /\ LocatedInv(y, line, n + 1)
  BY <1>1, LocatedStays DEF SortedInv, FieldsInv
<1>3. /\ InSection(line, n + 1, "argsdefmodem", 0)
      /\ ~InSection(line, n + 1, "argsmain", 0)
      /\ ~InSection(line, n + 1, "argschannel", 0)
      /\ \A d \in Nat : ~InSection(line, n + 1, "argsmodem", d)
  BY DEF SortedInv, LocatedInv, MAIN, CHANNEL, DEFMODEM, MODEM
<1>4. ChannelInv(y, line, n + 1)
  BY <1>1, <1>3, ElsewhereStays DEF SortedInv, ChannelInv
<1>5. DefmodemInv(y, line, n + 1)
  <2>1. Collected(Append(x.defmodem_argv, line[n + 1]), line,
                  SoFar(line, "argsdefmodem", 0, n + 1))
    BY <1>3, HereGrows DEF SortedInv, DefmodemInv
  <2> QED
    BY <1>1, <1>3, <2>1, OptionsStay DEF SortedInv, DefmodemInv
<1>6. ASSUME NEW d \in Nat
      PROVE  ModemInv(y, line, n + 1, d)
  <2>1. SoFar(line, "argsmodem", d, n + 1) = SoFar(line, "argsmodem", d, n)
    BY <1>3, ElsewhereStays
  <2>2. ModemOptions(line, d) \cap (1 .. n + 1) = ModemOptions(line, d) \cap (1 .. n)
    BY <1>3, OptionsStay
  <2>3. ModemInv(x, line, n, d)
    BY DEF SortedInv
  <2> QED
    BY <1>1, <2>1, <2>2, <2>3 DEF ModemInv
<1>7. SortedInv(y, line, n + 1)
  BY <1>2, <1>4, <1>5, <1>6 DEF SortedInv
<1> QED
  BY <1>7 DEF y

LEMMA ModemArgSorted ==
  ASSUME NEW line, NEW n \in Nat, n + 1 \in DOMAIN line, ~IsHeading(line[n + 1]),
         NEW x, SortedInv(x, line, n),
         NEW m \in Nat, m < x.n_devs, x.parsing = MODEM + m
  PROVE  SortedInv([x EXCEPT !.modem_argv[m] = Append(@, line[n + 1])], line, n + 1)
<1> DEFINE y == [x EXCEPT !.modem_argv[m] = Append(@, line[n + 1])]
<1>1. /\ DOMAIN y = DOMAIN x /\ y.parsing = x.parsing
      /\ y.n_devs = x.n_devs /\ y.channel_argv = x.channel_argv
      /\ y.defmodem_argv = x.defmodem_argv /\ y.defmodem_name = x.defmodem_name
      /\ y.modem_name = x.modem_name
      /\ y.modem_argv = [x.modem_argv EXCEPT ![m] = Append(x.modem_argv[m], line[n + 1])]
  BY DEF SortedInv, FieldsInv
<1> HIDE DEF y
<1>2. FieldsInv(x) /\ m \in DOMAIN x.modem_argv
  BY DEF SortedInv, FieldsInv
<1>3. FieldsInv(y) /\ LocatedInv(y, line, n + 1)
  BY <1>1, <1>2, LocatedStays DEF SortedInv, FieldsInv
<1>4. /\ \A d \in Nat : InSection(line, n + 1, "argsmodem", d) <=> d = m
      /\ ~InSection(line, n + 1, "argsmain", 0)
      /\ ~InSection(line, n + 1, "argschannel", 0)
      /\ ~InSection(line, n + 1, "argsdefmodem", 0)
  BY DEF SortedInv, LocatedInv, MAIN, CHANNEL, DEFMODEM, MODEM
<1>5. ChannelInv(y, line, n + 1)
  BY <1>1, <1>4, ElsewhereStays, SMTT(30) DEF SortedInv, ChannelInv
<1>6. DefmodemInv(y, line, n + 1)
  BY <1>1, <1>4, ElsewhereStays, OptionsStay DEF SortedInv, DefmodemInv
<1>7. ASSUME NEW d \in Nat
      PROVE  ModemInv(y, line, n + 1, d)
  <2>1. /\ ModemInv(x, line, n, d)
        /\ ModemOptions(line, d) \cap (1 .. n + 1) = ModemOptions(line, d) \cap (1 .. n)
    BY <1>4, OptionsStay DEF SortedInv
  <2>2. CASE d = m
    <3>1. Collected(Append(x.modem_argv[m], line[n + 1]), line,
                    SoFar(line, "argsmodem", m, n + 1))
      BY <1>4, <2>1, <2>2, HereGrows DEF ModemInv
    <3>2. y.modem_argv[m] = Append(x.modem_argv[m], line[n + 1])
      BY <1>1, <1>2
    <3> QED
      BY <1>1, <2>1, <2>2, <3>1, <3>2 DEF ModemInv
  <2>3. CASE d # m
    <3>1. d < x.n_devs => y.modem_argv[d] = x.modem_argv[d]
      BY <1>1, <1>2, <2>3 DEF FieldsInv
    <3>2. SoFar(line, "argsmodem", d, n + 1) = SoFar(line, "argsmodem", d, n)
      BY <1>4, <2>3, ElsewhereStays
    <3> QED
      BY <1>1, <2>1, <3>1, <3>2 DEF ModemInv
  <2> QED
    BY <2>2, <2>3
<1>8. SortedInv(y, line, n + 1)
  BY <1>3, <1>5, <1>6, <1>7 DEF SortedInv
<1> QED
  BY <1>8 DEF y

LEMMA ParseArgSorted ==
  ASSUME NEW line, ALine(line), NEW n \in Nat, n + 1 \in DOMAIN line,
         NEW x, x.outcome = "ok" => SortedInv(x, line, n),
         ParseArg(x, line[n + 1]).outcome = "ok"
  PROVE  SortedInv(ParseArg(x, line[n + 1]), line, n + 1)
<1> DEFINE a == line[n + 1]
<1>1. x.outcome = "ok" /\ SortedInv(x, line, n)
  BY DEF ParseArg
<1>2. FieldsInv(x) /\ Refused(x).outcome # "ok"
        /\ [x EXCEPT !.outcome = "overflow"].outcome # "ok"
  BY <1>1 DEF SortedInv, FieldsInv, Refused
<1>3. CASE IsHeading(a)
  BY <1>1, <1>3, HeadingSorted DEF ParseArg
<1>4. CASE ~IsHeading(a) /\ x.parsing = MAIN
  BY <1>1, <1>4, MainSorted DEF ParseArg
<1>5. CASE ~IsHeading(a) /\ x.parsing = CHANNEL
  <2>1. ParseArg(x, a) = ChannelParam(x, a)
    BY <1>1, <1>5 DEF ParseArg, MAIN, CHANNEL
  <2>2. ParseArg(x, a) = [x EXCEPT !.channel_argv = Append(@, a)]
    BY <1>2, <2>1 DEF ChannelParam
  <2>3. SortedInv([x EXCEPT !.channel_argv = Append(@, a)], line, n + 1)
    BY <1>1, <1>5, ChannelSorted
  <2> QED
    BY <2>2, <2>3
<1>6. CASE ~IsHeading(a) /\ x.parsing = DEFMODEM
  <2>1. ParseArg(x, a) = DefmodemParam(x, a)
    BY <1>1, <1>6 DEF ParseArg, MAIN, CHANNEL, DEFMODEM
  <2>2. ParseArg(x, a) = [x EXCEPT !.defmodem_argv = Append(@, a)]
    BY <1>2, <2>1 DEF DefmodemParam
  <2>3. SortedInv([x EXCEPT !.defmodem_argv = Append(@, a)], line, n + 1)
    BY <1>1, <1>6, DefmodemArgSorted
  <2> QED
    BY <2>2, <2>3
<1>7. ASSUME ~IsHeading(a), NEW m \in 0 .. x.n_devs - 1, x.parsing = MODEM + m
      PROVE  SortedInv(ParseArg(x, a), line, n + 1)
  <2>1. m \in Nat /\ m < x.n_devs
    BY <1>2, <1>7 DEF FieldsInv
  <2>2. x.parsing - MODEM = m /\ x.parsing \notin {MAIN, CHANNEL, DEFMODEM}
    BY <1>7, <2>1 DEF MAIN, CHANNEL, DEFMODEM, MODEM
  <2>3. ParseArg(x, a) = ModemParam(x, a)
    BY <1>1, <1>7, <2>2 DEF ParseArg
  <2>4. ParseArg(x, a) = [x EXCEPT !.modem_argv[m] = Append(@, a)]
    BY <1>2, <2>2, <2>3 DEF ModemParam
  <2>5. SortedInv([x EXCEPT !.modem_argv[m] = Append(@, a)], line, n + 1)
    BY <1>1, <1>7, <2>1, ModemArgSorted
  <2> QED
    BY <2>4, <2>5
<1> QED
  BY <1>1, <1>3, <1>4, <1>5, <1>6, <1>7 DEF SortedInv, LocatedInv

LEMMA ParseSorts ==
  ASSUME NEW line, ALine(line), NEW n \in Nat, NEW f, IsParse(f, line, n), DOMAIN line = 1 .. n,
         f[n].outcome = "ok"
  PROVE  SortedInv(f[n], line, n)
<1> DEFINE S == {k \in Nat : k <= n /\ f[k].outcome = "ok" => SortedInv(f[k], line, k)}
<1>1. 0 \in S
  <2>1. f[0] = Defaults
    BY DEF IsParse
  <2> QED
    BY <2>1, NothingSorted
<1>2. ASSUME NEW k \in Nat, k \in S
      PROVE  k + 1 \in S
  <2> SUFFICES ASSUME k + 1 <= n, f[k + 1].outcome = "ok"
               PROVE  SortedInv(f[k + 1], line, k + 1)
    OBVIOUS
  <2>1. (f[k].outcome = "ok" => SortedInv(f[k], line, k)) /\ k + 1 \in DOMAIN line
    BY <1>2
  <2>2. f[k + 1] = ParseArg(f[k], line[k + 1])
    BY DEF IsParse
  <2> QED
    BY <2>1, <2>2, ParseArgSorted
<1> HIDE DEF S
<1>3. Nat \subseteq S
  BY <1>1, <1>2, NatSetInduction
<1> QED
  BY <1>3 DEF S

(***************************************************************************)
(* What p2G4_argsparse() returns.                                          *)
(***************************************************************************)
LEMMA ArgsSorted ==
  ASSUME NEW line \in CommandLines, p2G4_argsparse(line).outcome = "ok"
  PROVE  LET a == p2G4_argsparse(line)
         IN /\ Lists(a.channel_argv, line, Section(line, "argschannel", 0))
            /\ DOMAIN a.modem_name = 0 .. a.n_devs - 1
            /\ DOMAIN a.modem_argv = 0 .. a.n_devs - 1
            /\ \A d \in 0 .. a.n_devs - 1 :
                 LET name == LastName(line, ModemOptions(line, d), NULL)
                     its  == IF name = NULL THEN Section(line, "argsdefmodem", 0)
                                            ELSE Section(line, "argsmodem", d)
                 IN /\ Lists(a.modem_argv[d], line, its)
                    /\ a.modem_name[d] =
                         IF name = NULL
                         THEN LastName(line, DefmodemOptions(line), DefaultModem)
                         ELSE name
<1> DEFINE n == Len(line)
           f == CHOOSE f : IsParse(f, line, n)
           last == f[n]
           a == p2G4_argsparse(line)
<1>1. ALine(line)
  BY LaunchAssumption DEF ALine
<1>2. n \in Nat /\ DOMAIN line = 1 .. n
  BY <1>1 DEF ALine
<1>3. IsParse(f, line, n)
  BY <1>2, ParseExists
<1>4. a = CASE last.outcome # "ok"               -> last
            [] ~last.s_id \/ last.n_devs = 0     -> Refused(last)
            [] OTHER                             -> WithDefaultModems(last)
  BY Zenon DEF p2G4_argsparse, IsParse
<1>5. Wellformed(last, line)
  <2> HIDE DEF f, n
  <2> QED
    BY <1>2, <1>3, ParseWellformed
<1> HIDE DEF last, a
<1>6. Refused(last).outcome # "ok"
  BY <1>5 DEF Wellformed, Refused
<1>7. last.outcome = "ok" /\ a = WithDefaultModems(last)
  BY <1>4, <1>6 DEF a
<1>8. SortedInv(last, line, n)
  <2> HIDE DEF f, n
  <2> QED
    BY <1>1, <1>2, <1>3, <1>7, ParseSorts DEF last
<1>9. \A opt, nbr : SoFar(line, opt, nbr, n) = Section(line, opt, nbr)
  BY <1>2 DEF SoFar, Section
<1>10. /\ DefmodemOptions(line) \cap (1 .. n) = DefmodemOptions(line)
       /\ \A d : ModemOptions(line, d) \cap (1 .. n) = ModemOptions(line, d)
  BY <1>2 DEF DefmodemOptions, ModemOptions, Section
<1> HIDE DEF n
<1>11. FieldsInv(last)
  BY <1>8 DEF SortedInv
<1>12. /\ a.channel_argv = last.channel_argv /\ a.n_devs = last.n_devs
       /\ a.modem_name = [d \in DOMAIN last.modem_name |->
                            IF last.modem_name[d] = NULL THEN last.defmodem_name
                                                         ELSE last.modem_name[d]]
       /\ a.modem_argv = [d \in DOMAIN last.modem_argv |->
                            IF last.modem_name[d] = NULL THEN last.defmodem_argv
                                                         ELSE last.modem_argv[d]]
  BY <1>7, <1>11 DEF WithDefaultModems, FieldsInv
<1>13. Lists(a.channel_argv, line, Section(line, "argschannel", 0))
  BY <1>8, <1>9, <1>12 DEF SortedInv, ChannelInv, Collected
<1>14. /\ DOMAIN a.modem_name = 0 .. a.n_devs - 1
       /\ DOMAIN a.modem_argv = 0 .. a.n_devs - 1
  BY <1>11, <1>12 DEF FieldsInv
<1>15. /\ Lists(last.defmodem_argv, line, Section(line, "argsdefmodem", 0))
       /\ last.defmodem_name = LastName(line, DefmodemOptions(line), DefaultModem)
  BY <1>8, <1>9, <1>10 DEF SortedInv, DefmodemInv, Collected
<1>16. ASSUME NEW d \in 0 .. a.n_devs - 1
       PROVE  LET name == LastName(line, ModemOptions(line, d), NULL)
                  its  == IF name = NULL THEN Section(line, "argsdefmodem", 0)
                                         ELSE Section(line, "argsmodem", d)
              IN /\ Lists(a.modem_argv[d], line, its)
                 /\ a.modem_name[d] =
                      IF name = NULL
                      THEN LastName(line, DefmodemOptions(line), DefaultModem)
                      ELSE name
  <2>1. d \in Nat /\ d < last.n_devs /\ d \in DOMAIN last.modem_name
          /\ d \in DOMAIN last.modem_argv
    BY <1>11, <1>12, <1>16 DEF FieldsInv
  <2>2. /\ Lists(last.modem_argv[d], line, Section(line, "argsmodem", d))
        /\ last.modem_name[d] = LastName(line, ModemOptions(line, d), NULL)
    BY <1>8, <1>9, <1>10, <2>1 DEF SortedInv, ModemInv, Collected
  <2>3. /\ a.modem_argv[d] = IF last.modem_name[d] = NULL THEN last.defmodem_argv
                                                          ELSE last.modem_argv[d]
        /\ a.modem_name[d] = IF last.modem_name[d] = NULL THEN last.defmodem_name
                                                          ELSE last.modem_name[d]
    BY <1>12, <2>1
  <2> QED
    BY <1>15, <2>2, <2>3
<1> QED
  BY <1>13, <1>14, <1>16 DEF a

(***************************************************************************)
(* The channel and every modem get their own arguments.                    *)
(***************************************************************************)
THEOREM ArgumentsReachTheirLibraries == Spec => LibrariesGetTheirArguments
<1> DEFINE Given ==
      phase = "parse" /\ phase' = "open" =>
         /\ Lists(libs'.channel_argv, argv, Section(argv, "argschannel", 0))
         /\ DOMAIN libs'.modem_name = 0 .. args'.n_devs - 1
         /\ DOMAIN libs'.modem_argv = 0 .. args'.n_devs - 1
         /\ \A d \in DOMAIN libs'.modem_name :
              LET name == LastName(argv, ModemOptions(argv, d), NULL)
                  its  == IF name = NULL THEN Section(argv, "argsdefmodem", 0)
                                         ELSE Section(argv, "argsmodem", d)
              IN /\ Lists(libs'.modem_argv[d], argv, its)
                 /\ libs'.modem_name[d] =
                      IF name = NULL
                      THEN LastName(argv, DefmodemOptions(argv), DefaultModem)
                      ELSE name
<1>1. LaunchInv /\ [Next]_vars => [Given]_vars
  <2> SUFFICES ASSUME LaunchInv, Next, phase = "parse", phase' = "open"
               PROVE  Given
    OBVIOUS
  <2> DEFINE a == p2G4_argsparse(argv)
  <2>1. Parse
    BY DEF Next, Open, Dump, CleanUp
  <2>2. argv \in CommandLines
    BY DEF LaunchInv
  <2>3. a.outcome = "ok"
    BY <2>1, <2>2, ArgsWellformed DEF Parse, Wellformed
  <2>4. /\ args'.n_devs = a.n_devs /\ libs'.channel_argv = a.channel_argv
        /\ libs'.modem_name = a.modem_name /\ libs'.modem_argv = a.modem_argv
    BY <2>1, <2>3 DEF Parse
  <2> QED
    BY <2>2, <2>3, <2>4, ArgsSorted
<1> QED
  BY <1>1, LaunchInvariance, PTL DEF Spec, LibrariesGetTheirArguments
=============================================================================
