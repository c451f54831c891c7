----------------------------- MODULE Receptions ------------------------------
(***************************************************************************)
(* What the channel and modem wrapper is called for: which devices are on  *)
(* the air, and which receptions are under way (src/src/p2G4_main.c, in    *)
(* the order in which its handlers call src/src/p2G4_channel_and_modem.c). *)
(*                                                                         *)
(* A signal stands for the power, frequency and modulation of a            *)
(* transmission; the parameters of a reception are its antenna gain and    *)
(* its radio and modem parameters.  When the handlers are called, and      *)
(* which packets fit a search, is the subject of Phy: here a receiver may  *)
(* find any transmission at any time.                                      *)
(***************************************************************************)
EXTENDS Integers

CONSTANTS
  n_devs,      \* how many devices are simulated
  Listeners,   \* which of them receive
  Signals,     \* what a device may transmit
  NoSignal,    \* what a device that is off the air transmits
  RxParams     \* what a reception, or an RSSI measurement, may ask for

ASSUME DevsAssumption == n_devs \in Nat \ {0}
ASSUME SignalsAssumption == NoSignal \notin Signals
ASSUME RxParamsAssumption == RxParams # {}

Dev == 0 .. n_devs - 1

ASSUME ListenersAssumption == Listeners \subseteq Dev

VARIABLES
  air,   \* tx_l_c.used[] and the signals of tx_l_c.tx_list[]
  rx     \* rx_a: the receptions, each with a history

Air == [Dev -> Signals \cup {NoSignal}]

Phases == {"idle", "search", "receive", "lost"}

(***************************************************************************)
(* rx_status_t, and a history that the program does not keep: asked is     *)
(* what has been asked for since the modem was last asked to synchronise,  *)
(* by the reception and by those that it continues (prelocked).            *)
(***************************************************************************)
Reception == [phase : Phases, tx_nbr : Dev \cup {-1}, prelocked : BOOLEAN,
              params : RxParams, asked : SUBSET RxParams]

OnAir(t) == air[t] # NoSignal

(***************************************************************************)
(* A reception under way has a transmitter to receive from.                *)
(***************************************************************************)
ReceptionsTypeOK ==
  /\ air \in Air
  /\ rx \in [Dev -> Reception]
  /\ \A d \in Dev : rx[d].phase = "receive" => rx[d].tx_nbr # -1

(***************************************************************************)
(* rx_a is zeroed: a first reception that is prelocked has device 0 as its *)
(* transmitter.                                                            *)
(***************************************************************************)
ReceptionsInit ==
  /\ air = [d \in Dev |-> NoSignal]
  /\ \E p \in RxParams :
       rx = [d \in Dev |-> [phase |-> "idle", tx_nbr |-> 0,
                            prelocked |-> FALSE, params |-> p,
                            asked |-> {}]]

------------------------------------------------------------------------------
StartTx(d, s) ==
  /\ rx[d].phase = "idle" /\ ~OnAir(d)
  /\ air' = [air EXCEPT ![d] = s]
  /\ UNCHANGED rx

EndTx(d) ==
  /\ OnAir(d)
  /\ air' = [air EXCEPT ![d] = NoSignal]
  /\ UNCHANGED rx

(***************************************************************************)
(* A device asks for a reception.  Nothing ties what a prelocked one asks  *)
(* for to what the reception before it asked for.                          *)
(***************************************************************************)
\* Variant: no transmitter is the channel's UINT_MAX instead of -1.
StartRxUnsigned(d, p, prelocked) ==
  /\ d \in Listeners
  /\ rx[d].phase = "idle" /\ ~OnAir(d)
  /\ rx' = [rx EXCEPT ![d] =
              [phase |-> "search", prelocked |-> prelocked, params |-> p,
               tx_nbr |-> IF prelocked THEN rx[d].tx_nbr ELSE n_devs,
               asked |-> {p} \cup IF prelocked THEN rx[d].asked ELSE {}]]
  /\ UNCHANGED air

StartRx(d, p, prelocked) ==
  /\ d \in Listeners
  /\ rx[d].phase = "idle" /\ ~OnAir(d)
  /\ rx' = [rx EXCEPT ![d] =
              [phase |-> "search", prelocked |-> prelocked, params |-> p,
               tx_nbr |-> IF prelocked THEN rx[d].tx_nbr ELSE -1,
               asked |-> {p} \cup IF prelocked THEN rx[d].asked ELSE {}]]
  /\ UNCHANGED air

(***************************************************************************)
(* A search finds the transmission of t: the modem is asked whether it can *)
(* be synchronised to.  A receiver that was found is called later in the   *)
(* microsecond, and f_rx_found() does not look whether t is still there:   *)
(* the device of t may have left (Phy, RxFoundReadsItsTx).                 *)
(***************************************************************************)
Find(d, t) ==
  /\ rx[d].phase = "search" /\ ~rx[d].prelocked
  /\ t # d
  /\ \E phase \in {"search", "receive"} :
       rx' = [rx EXCEPT ![d].phase = phase, ![d].tx_nbr = t,
                        ![d].asked = {rx[d].params}]
  /\ UNCHANGED air

(***************************************************************************)
(* A prelocked reception goes on with the transmission it was locked to,   *)
(* and the modem is not asked; or it finds that transmission gone, or too  *)
(* far advanced.                                                           *)
(***************************************************************************)
Prelock(d) ==
  /\ rx[d].phase = "search" /\ rx[d].prelocked
  /\ \/ /\ rx[d].tx_nbr # -1 /\ OnAir(rx[d].tx_nbr)
        /\ rx' = [rx EXCEPT ![d].phase = "receive"]
     \/ rx' = [rx EXCEPT ![d].tx_nbr = -1, ![d].prelocked = FALSE]
  /\ UNCHANGED air

(***************************************************************************)
(* A reception under way comes to the next calculation of bit errors.      *)
(***************************************************************************)
Receive(d) ==
  /\ rx[d].phase = "receive"
  /\ OnAir(rx[d].tx_nbr)
  /\ UNCHANGED <<air, rx>>

(***************************************************************************)
(* The transmission is gone.  A header or a payload is then received as    *)
(* noise, without asking the modem again; a synchronisation is lost, and   *)
(* so it is with too many errors.                                          *)
(***************************************************************************)
LoseTx(d) ==
  /\ rx[d].phase = "receive"
  /\ \/ ~OnAir(rx[d].tx_nbr) /\ rx' = [rx EXCEPT ![d].phase = "lost"]
     \/ rx' = [rx EXCEPT ![d].phase = "search"]
  /\ UNCHANGED air

EndRx(d) ==
  /\ rx[d].phase # "idle"
  /\ rx' = [rx EXCEPT ![d].phase = "idle"]
  /\ UNCHANGED air
=============================================================================
