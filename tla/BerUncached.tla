----------------------------- MODULE BerUncached -----------------------------
(***************************************************************************)
(* What the channel and modem wrapper promises: every draw of bit errors,  *)
(* and every decision on a synchronisation, is made with the signal to     *)
(* noise ratio of what is on the air now, and for the transmitter of the   *)
(* reception.  A reception that synchronised has its own parameters; one   *)
(* that is prelocked has either its own or those of a reception that it    *)
(* continues, since only a synchronisation or a change on the air makes    *)
(* the wrapper look at them.                                               *)
(***************************************************************************)
EXTENDS Receptions

VARIABLES drawn   \* the last step's draw, if it made one

(***************************************************************************)
(* What each quantity was calculated from stands for its value.            *)
(***************************************************************************)
Analog(a, t, p) == [air |-> a, tx |-> t, params |-> p]
ISI(a, t)       == [air |-> a, tx |-> t]

Ber(a, t, p) == [analog |-> Analog(a, t, p), ISI |-> ISI(a, t), params |-> p]

Draw(d, ber) == [rx_nbr |-> d, ber |-> ber]

NoDraw == [rx_nbr |-> -1]

(***************************************************************************)
(* Nothing is promised of a transmitter that is off the air: its level is  *)
(* whatever it was when it was last calculated.                            *)
(***************************************************************************)
DrawFrom(d, t, ber) == IF OnAir(t) THEN Draw(d, ber) ELSE NoDraw

Init == ReceptionsInit /\ drawn = NoDraw

Environment ==
  \E d \in Dev :
    \/ \E s \in Signals : StartTx(d, s)
    \/ EndTx(d)
    \/ \E p \in RxParams, prelocked \in BOOLEAN : StartRx(d, p, prelocked)
    \/ Prelock(d)
    \/ LoseTx(d)
    \/ EndRx(d)

Sync(d, t) ==
  Find(d, t) /\ drawn' = DrawFrom(d, t, Ber(air, t, rx[d].params))

BitErrors(d) ==
  /\ Receive(d)
  /\ \E p \in rx[d].asked : drawn' = Draw(d, Ber(air, rx[d].tx_nbr, p))

(***************************************************************************)
(* RSSI measurements are made of what is on the air, and change nothing.   *)
(***************************************************************************)
Next ==
  \/ (Environment \/ UNCHANGED <<air, rx>>) /\ drawn' = NoDraw
  \/ \E d \in Dev : BitErrors(d) \/ \E t \in Dev : Sync(d, t)

Spec == Init /\ [][Next]_<<air, rx, drawn>>
=============================================================================
