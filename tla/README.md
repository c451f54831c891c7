# A formal model of the 2.4 GHz Phy

`ext_2G4_phy_v1` is the simulated physical layer of BabbleSim: one process to
which the simulated devices connect, and which decides what each of them
receives from the others.  This directory holds TLA+ models of its core,
configurations with which TLC checks them on small instances, and proofs that
TLAPS checks for every instance.

## 1. The system

### Components

| component | source (`src/src/`) | state | operations |
|---|---|---|---|
| Function queue | `p2G4_func_queue.c/.h` | per device: the time and the function index of its next event; the device that is next | `fq_init`, `fq_add`, `fq_remove`, `fq_find_next`, `fq_call_next` |
| Pending Tx list | `p2G4_pending_tx_list.c`, `p2G4_pending_tx_rx_list.h` | per device: its transmission, its packet and the flags NOISE / PACKET_ONGOING / PACKET_STARTED / PACKET_ENDED; `max_tx_nbr`; the change counter `ctr` | `txl_register`, `txl_start_tx`, `txl_start_packet`, `txl_end_packet`, `txl_clear` |
| Main loop and handlers | `p2G4_main.c` | `current_time`, `nbr_active_devs`, `rx_a[]`, `cca_a[]`, `RSSI_a[]` | the boot loop, the main loop, 14 event handlers, the reading of requests |
| Device communication | `p2G4_com.c` | the pipes of libPhyCom | requests and answers read, responses written |
| v1/v2 mapping | `p2G4_v1_v2_remap.c` | none | Tx and Rx requests v1 to v2, Rx response v2 to v1 |
| Channel and modem wrapper | `p2G4_channel_and_modem.c` | per receiver: powers, SNR, BER and the counters that tell whether they are current | sync, bit errors, RSSI |
| Dump and compare | `p2G4_dump.c` | open files, how many lines were dumped and how many differed | one line per Tx, Rx, RSSI, CCA, modem; comparison with old dumps; the exit status |
| Command line | `p2G4_args.c` | the arguments, in sections for the Phy, the channel, the default modem and each modem | parsing |
| Channel / modem interfaces | `channel_if.h`, `modem_if*.h` | none | declarations |
| Scripts | `dump_post_process/` | none | conversion of dumps |

### How they interact

The Phy is one thread.  `main()` reads the first request of every device (the
boot loop), and then repeats: find the device whose event comes first, advance
the time to it, call the handler of the event.  A handler works on the Tx list,
on the reception or CCA status of its device, on the function queue, and on the
statuses and queue entries of *other* devices (`find_and_activate_rx()`); it
sends its device a response and blocks until that device has sent its next
request or, in an abort reevaluation or after an address was found, an answer.
Nothing runs concurrently inside the Phy.  What interleaves are the devices:
between two calls for one device, any number of handlers of the others may change
the Tx list and, if the device is searching, its status and its queue entry.

### What is hard here, and what makes each part right

* **Two views of a device.** Its queue entry and its place in the Tx list or in
  the searching state are changed by different code; `find_and_activate_rx()`
  overwrites the entry of a device it knows only by its searching state.  Right
  means that they always agree (`SearchingIffQueued`, `OnAirIffTxQueued`).
* **Order inside a microsecond.** Events of the same time are ordered by the
  values of an enum and by device number.  Right means that the next event is
  the first in the documented order (`ScanFindsNext`), that a found receiver is
  called while its packet is still on the air, unless its transmitter left in
  between (`RxFoundReadsItsTx`), and that time never goes back
  (`TimeNeverGoesBack`).
* **One entry for many deadlines.** The end, the abort and the recheck of a
  transmission or of a search, and the limits of its packet, compete for one
  queue entry which every reevaluation recomputes (`TxDoneOnTime`,
  `RxBoundedByAbort`, `CcaMeasuresEveryPeriod`, `CcaEndsInTime`).
* **Devices that leave** in the middle of anything: they must be off the air
  and out of the queue, and the count of devices, which stops the main loop,
  must be exact (`ActiveDevsCounted`).
* **State kept from one reception to the next** (`tx_nbr` of a prelocked
  reception) and transmissions known by device number only
  (`LostPacketIsNotFoundAgain`, `SyncLostWhenTxEnds`).
* **Searches**: a search tries one of the packets on the air, and none that fits
  may be passed over for another than the first (`SearchTriesFirstFit`,
  `MaxTxNbrIsHighest`).  A second packet that fits is missed when the modem fails
  on the first, as a comment of the code says.
* **Progress**: the simulation ends (`SimulationEnds`).

* **The exchange with a device**: every path through a handler must answer once
  and either queue the next event or read the next request.  What a device sees
  is stated on its own, in `DeviceProtocol`, and the Phy implements it
  (`KeepsProtocol`).
* **A cache of bit error rates** that is shared with RSSI measurements and is
  recalculated when one of two counters moved.  Right means that nobody can
  notice it (`KeptRateIsCurrent`, `CacheIsTransparent`), but for a prelocked
  reception that asks for other parameters (section 5).  The rate of calculations
  itself must be the one asked for (`ErrorRateIsAsAsked`).
* **Comparing with old dumps**: an old file may be missing, empty, shorter or
  longer, and is given up after too many differences.  Right means that the exit
  status tells whether every line produced is in its old file
  (`ExitStatusTellsUnmatched`; it tells nothing of an old file's lines beyond those
  or of a blank old file, see section 5), that the counts are true
  (`StatsAreExact`), that a run stops where it was asked to
  (`StopsAtFirstDifference`) and that old dumps survive (`OldDumpsAreKept`).
* **Sections of arguments** in any order (`LibrariesGetTheirArguments`), each
  with a limit of its own (`DefmodemLimitIsKept`).

The full list of hazards, each at its line, is in `PROJECT.json`.

## 2. Modules

| module | models | notes |
|---|---|---|
| `FuncQueue` | the queue's operations, the order of events | a queue is a function from devices to entries |
| `FuncQueueScan` | the loop of `fq_find_next()` | one action per iteration, every queue as initial state |
| `PendingTxList` | the Tx list | flags are a set; operations are functions of the array |
| `PhyTypes` | requests, answers, statuses, the v1/v2 mapping, error rates | constants of the Phy and what is assumed of the devices |
| `PhyState` | the variables, request validation, `prepare_*()`, `p2G4_handle_next_request()`, abort reevaluation | |
| `PhyTx`, `PhyRx`, `PhyMeas` | the handlers `f_tx_*`, `f_rx_*`, `f_wait_done` / `f_RSSI_meas` / `f_cca_meas` | operators on the variables of `PhyState` |
| `DeviceProtocol` | abstract: the exchange that a device sees | requests, responses and reevaluations of one device at a time |
| `PhyProtocol` | what of the Phy's state stands for that exchange, and `KeepsProtocol` | refinement of `DeviceProtocol` by `Phy` |
| `Receptions` | who is on the air and which receptions are under way, as far as the channel wrapper is concerned | the handlers of `main.c`, without times |
| `BerUncached` | abstract: a wrapper that keeps nothing | a draw of errors is made with what is on the air now |
| `BerCache` | `p2G4_channel_and_modem.c` and `ctr` of the Tx list | a quantity is what it was calculated from; `CacheIsTransparent` is the refinement of `BerUncached` |
| `BerCacheProofs` | the inductive invariant of `BerCache`, the refinement | |
| `Args` | `p2G4_argsparse()` | a recursive function over the arguments |
| `DumpFiles` | `p2G4_dump.c` | a file is a sequence of lines, an old file is what is left of it |
| `Launch` | `main()` around the simulation: arguments, libraries, dump files, clean-up, exit status | composes `Args` and `DumpFiles`; the simulation produces any lines |
| `Phy` | `main()`: one action for the boot loop, one per registered handler, the end; and the properties | composes all of the above |
| `FuncQueueScanProofs` | theorems about the scan | |
| `PhyTypeProofs` | lemmas: every handler keeps the types | |
| `PhyModeProofs` | lemmas: what a handler does to the mode of its device and of the others | |
| `PhyProofs` | the inductive invariant of `Phy` and what follows from it | |
| `PhyTimeProofs` | the inductive invariant about the times of events | extends `PhyProofs` |
| `PhyProtocolProofs` | the refinement of `DeviceProtocol`, what the messages and the searches say | extends `PhyTimeProofs` |
| `LaunchProofs` | the inductive invariant of `Launch`, the induction over the arguments | |
| `MCFuncQueueScan`, `MCPhy`, `MCBerCache`, `MCLaunch` | small instances for TLC | |

### State and actions against the code

A step of `Phy` is one turn of the loop: the handler, everything it calls, the
request it reads at the end, `fq_find_next()` and the assignment to
`current_time`.  The variables have the names of the code's: `fq` (`f_queue`),
`used` and `tx_list` and `max_tx_nbr` (`tx_l_c`), `rx_a`, `cca_a`,
`nbr_active_devs`.  `next_d` is the device that `fq_find_next()` chose, `boot_d`
the counter of the boot loop, `phase` where `main()` is; `sent` holds the
messages of the last step, which the properties talk about.  `bs_trace_error*()`
ends the program: `phase = "error"`.

The device side is three constant operators: `Requests(d, now)`,
`AbortReplies(d, now)`, `HeaderReplies(d, now)`, the messages a device may send
at a time.  They include invalid requests, unexpected headers, disconnection,
termination and broken answers, so that the error paths are taken.

In `PhyProtocol` a device waits for what its queued event belongs to.  A request
is `asked` until its first event is over, then `started`, and a reception whose
address was found is `found`; so a response must be followed by a request that
has not started, and an address cannot be found twice.

In `BerCache` every quantity that the channel or a modem calculates is
represented by the arguments it was calculated from, so that a stale value
differs from a current one.  The actions are the calls into the wrapper
(`chm_is_packet_synched`, `chm_bit_errors`, `chm_RSSImeas`) and into the Tx list
(`txl_start_tx`, `txl_clear`), and what `main.c` does in between.  `drawn` is the
draw that the last call made.  Nothing ties the parameters of a prelocked
reception to those of the reception it continues.  Its history `asked` has all
that were asked for since the modem was last asked to synchronise, and
`BerUncached` allows a draw with any of them: so the refinement says exactly what
the code keeps: with `{rx[d].params}` in the place of `asked` it would not hold.

In `Launch` a variant of `main()`'s end is a `phase`: `error` for
`bs_trace_error*()`, `crash` and `overflow` for what is undefined in C.  `produced`
and `disk` hold whole files, of which `stats` and `file` keep only what the code
keeps; the properties compare the two.

Abstractions:

* In `Phy`, the channel and the modem are nondeterministic: a packet is synchronised or
  not, each calculation finds any number of bit errors up to its limit, a level
  is over its threshold or not.
* Frequencies and modulations are one number, `radio_params`; addresses are
  small numbers.  Packet contents, power levels, coding rates and RSSI values
  are left out.
* Times are naturals up to `TIME_NEVER`.  The two places where the code can go
  below zero or past the end are modelled as unsigned (`Before`, `After`), and
  the subtraction in `tx_and_rx_match()` by its effect.  Other sums of times
  are not wrapped: no device of the model asks for an interval that ends after
  `TIME_NEVER`.
* The product of the error rate and `t` (`p2G4_main.c:950-951`) is of 32 bits, as in
  the code (`uint32`).
* Up to `MaxImmRssi` immediate RSSI measurements are made in one reevaluation.

## 3. Runs

| run | instance | question |
|---|---|---|
| `func_queue_scan` | 4 devices, every queue over 3 times and 5 indexes | does the scan find the first entry? |
| `tx_rx` | a v1 transmitter with every abort and recheck inside its transmission; a v1 receiver; every kind of answer, leaving, violation | do the two views of a device agree, are deadlines kept? |
| `piggyback` | v2 transmissions whose packets began earlier, some with a recheck in the microsecond of their start, in which the device may leave; receptions with truncation and prelock, several error rates | the same for what is new in v2; is a found packet still there; are errors drawn at the rate asked for? |
| `cca` | CCA searches of several durations, periods, stop conditions and aborts, immediate RSSIs | are measurements made on time, does a search end in time? |
| `ber_cache` | 3 devices, one of which receives, 2 signals, 2 sets of reception parameters, of which a prelocked reception may change, 5 starts and ends of transmissions, 2 attempts to synchronise | can the cache be noticed? |
| `launch` | command lines of up to 4 arguments after 5 beginnings; one device with all old dumps of up to 2 lines, two devices with some; 4 lines produced; 2 kinds of files; `MAX_ERRORS` = 1, 2 parameters per library | who gets which argument, and is every line produced that is not in its old file found, counted and reported? |
| `three_devices` | two transmitters and two receivers on three devices, packets inside their transmissions, overlaps; fairness | does a search try the first packet that fits, is `max_tx_nbr` right, does the simulation end? |
| `packet_span`, `cca_abort`, `sync_lost`, `prelock_search`, `defmodem_limit` | as above | each finds a behaviour that contradicts a document or a comment |

`tx_rx`, `piggyback`, `cca` and `three_devices` also check the refinement of
`DeviceProtocol`, each for its kinds of requests.

Bounds.  Simulations are 5 or 6 microseconds long; transmissions last 2 or 3,
preambles 1 or 2, headers 0 or 1, scans 2 or 3 or forever (`UINT32_MAX`).  That
leaves room for a transmission, its abort, and a second one that a receiver
meets in the middle of its reception, which is as far as the state of a device
reaches: every request starts from a fresh status, except for `tx_nbr` of a
prelocked reception, which needs one reception before it.  Three devices are
needed for two transmitters and a listener; the scan is checked with four.
`TIME_NEVER` is far above the end, so that "never" is never reached, and both
sides of `scan_duration < UINT32_MAX` occur.  Each instance restricts the
requests of a device to a few kinds, over all the starts left, since the product
of all kinds is beyond TLC.

The instance of `ber_cache` is proved for every size (section 4); the run is there
for its variants.  In `launch` `MAX_ERRORS` is 1 instead of 15, so that four lines
meet a difference, one too many, the end of the old file before, at and after it,
and a line after the file was given up; four arguments meet a section that is
taken up again after another.

Fairness.  `FairSpec` is weak fairness of `Next`: the Phy is one thread that
waits only for the device whose turn it is, and a device always answers, if only
with the end of its connection.  The requests of `three_devices` are in the
future: a device that asks for the present forever (a wait until now, a recheck
now) keeps the simulation in that microsecond, which the code allows.

Deadlock is checked in every run of the Phy: a handler that finds no answer it
can handle would show.  Only in `launch` and `defmodem_limit` is it not: the
program exits.

## 4. Proofs

All for any number of devices, any length of the simulation, any limits and
whatever devices request and answer, from the assumptions that stand in the
modules: there is at least one device, the limits are natural numbers, and
devices send well-formed messages (`DevicesAssumption`); command lines are
sequences of arguments with natural numbers, and old files are sequences of lines
or are missing or blank (`LaunchAssumption`).  Nothing is assumed of the order or
the times of requests: invalid ones are refused by the code that is modelled.

Four theorems are about devices that keep to more than the code checks, and say so
(`ASSUME WellAsked`, `ASSUME NonePrelocked`):

* `WellAsked`: a transmission whose packet starts late or ends early has no
  recheck before its end, and a finite scan ends before `TIME_NEVER`.  Without the
  first, time goes back and a receiver can be called when its packet is over (see
  `packet_span`); without the second, the sum that the code makes of start and
  duration is beyond the range of its times.
* `NonePrelocked`: no device asks for a prelocked reception.  Such receptions do
  not search when their prelock fails (see `prelock_search`).

That these do not exclude what they are about is checked: the requests of `tx_rx`,
`piggyback` and `cca` are well asked, those of `tx_rx`, `cca` and `three_devices` have
no prelock (`SomeAreWellAsked`, `SomeAreNotPrelocked` in `MCPhy`).

* `FuncQueueScanProofs`: the scan maintains that its choice is the first of what
  it has seen (`ScanInvariant`), and so finds the next event (`ScanFinds`), which
  is unique (`NextIsUnique`).
* `BerCacheProofs`, for every number of devices, every set of signals and
  parameters, and whatever receptions ask for: `CacheTypeOK`, `KeptRate` and
  `Transparent`, the last being the refinement of `BerUncached`.
* `PhyProofs`: `TypeCorrect`, `SearchesAreQueued`, `TransmissionsAreQueued`,
  `HighestTxIsKnown`, `DevicesAreCounted`, all from `Invariance`.
* `PhyTimeProofs`: `AbortBoundsReception`, `ErrorRates` (the number of errors for
  rates up to `MaxExactRate`, 2^30 - 1, the highest of which no product wraps),
  `CcaMeasures`, and with
  `WellAsked` `FoundPacketsAreThere` and `TimeGoesOn`, all from `Timeliness`.
* `PhyProtocolProofs`: `ProtocolKept`, the refinement of `DeviceProtocol`;
  `TransmissionsEndOnTime`, `CcaSearchesEndInTime`; with `WellAsked`
  `LostPacketsStayLost`, and with `NonePrelocked` `SearchesTryFirstFit`.
* `LaunchProofs`, for every command line, any old files and whatever is produced:
  `LaunchTypeOK`, `StatisticsAreExact`, `ExitStatusIsTrue`, `DifferencesStop`,
  `OldDumpsSurvive`, all from `LaunchInvariance`, and
  `ArgumentsReachTheirLibraries`.

The inductive invariant `IInv` is needed because none of the properties holds by
itself: that a handler of a search finds its device off the air follows from
the event with which it was called.  `IInv` therefore says of every device that
its event determines its mode (`Consistent`): an event of a transmission if and
only if it is in the Tx list, the reevaluation of a search if and only if it is
searching, and a transmitter it can read when it was found.  To this it adds
that before its turn in the boot loop a device has no event (`BootInv`), which
the count of devices needs.  `Consistent` is claimed while some device is left:
a termination leaves the queue as it is.

The argument has two halves.  `PhyTypeProofs` shows for each handler that it
keeps the types; a reception only reads a transmitter that exists since
`Consistent` says so.  `PhyModeProofs` shows for each handler the same outcome
(`Outcome`): its own device is in a consistent mode or is gone and counted as
gone, and another device is untouched or was moved from searching to found.
`PhyProofs` puts the outcomes together: a device that was moved had a
reevaluation queued, so that its event is replaced and the number of events
stays the same; the finite set behind the count loses at most the handler's own
device.

The invariant about times, `TimelyInv`, extends `IInv`, since it needs to know what
a device's event is about.  It has two parts.  `NextInv` says that `next_d` is the
first event of the queue and `current_time` its time, so that a handler is called
exactly when its event was due.  `Timely` says of each device how the time of its
event relates to the times it has in its statuses:

* of a reception (`RxTimely`), that a search is due by the microsecond after the
  end of its scan, the scan ends by the abort, a reevaluation comes by the recheck
  and a header or payload by the microsecond after the abort;
* of a transmission (`TxTimely`), that each event comes by the end or the abort,
  whichever is first, the end exactly then, and a reevaluation exactly at the
  recheck;
* of a CCA search (`CcaTimely`), that the next measurement is the start and a
  multiple of the period, and not after the last microsecond of the search.

None of these holds by itself.  `RxBoundedByAbort`, for one, needs that the scan
ends by the abort, which needs that an abort which is postponed lies after the
recheck.  With `WellAsked`, `Found` adds that a receiver that was found is called in
this microsecond, while it still can lock to the packet it was found by.  Two kinds
of events of the transmitter may come before it in this microsecond: a packet's
start puts the packet on the air (`Activates`), and a reevaluation leaves it there
(`OnAirKeeps`) or, when its device leaves, takes it off together with the queue entry
of the device (`OnAirOrGone`); both leave the start of the packet where it was.  The
end of the packet comes after all receivers that were found.  A handler leaves its own
device timely, and touches another one only to move it to found (`Keeps`).

The refinement follows the same events.  What a device waits for in the abstract
specification is determined by the event queued for it (`WaitsFor`); a handler
speaks to its own device only, at most one reevaluation and then at most one
response (`Obeys`), and the other devices wait for what they waited for.
`TransmissionsEndOnTime` and `CcaSearchesEndInTime` then read off the time from
`Timely` at the one handler that sends the message.  A packet that was lost is not
found again since a search locks to a packet only while the part of its preamble
that may be missed is not over (`LocksInTime`), and a search that follows a loss
begins later than that (`LosesAfterStart`).  For
`SearchTriesFirstFit` it is shown that the first look of a search goes over every
device up to `max_tx_nbr`, which hides no transmission (`HighestTxIsKnown`), that it
takes the lowest that fits (`LowestFits`), and that prelocked receptions, which look
at one device only, stay absent (`AllFree`).

The invariant of `BerCache`, `CacheInv`, is `KeptRateIsCurrent` with what makes it
inductive.  The kept counters are never ahead of the real ones
(`CountersInOrder`): only so does a counter that moves make every kept rate old.
Something on the air has been counted (`AirIsCounted`): before the first
transmission the zeroed status would pass for a current one.  And the parameters of
a reception are among those in its history (`AskedForItsOwn`).  That a reception
under way has a transmitter (`ReceivesFromOne`) is part of the types.
`RecalculatedStatus`,
`SyncedStatus`, `CalculatedStatus` and `MeasuredStatus` say what each call leaves
in a status, in particular that an RSSI measurement leaves the rate.  Each step
then is a step of `BerUncached` (`UncachedStep`): a draw is made with the kept
rate only when it is current.

The invariant of `Launch`, `LaunchInv`, says of each file that is compared how its
counters relate to the whole files (`Tallied`): the differences counted are exactly
those among the lines compared; what is left of the old file is its rest after
these lines; and a file is closed only after one difference too many, or at the
line after its last.  Only the last makes the exit status true: a file that is
closed has had its difference, or had no more lines to differ from.

What the libraries get is a statement about the parser's recursive function.  The
library's induction theorems take a predicate as a parameter, which these provers
cannot instantiate, but a set they can: `NatSetInduction`, from the
well-foundedness of `<` on the naturals (`WFMin`), is induction for the members of
a set.  With it the recursive function is shown to exist (`ParseExists`), and
`SortedInv` to hold after every argument: the channel, the default modem and each
modem have exactly the arguments and the last name of their sections up to there,
and the parser is in the section that the last heading opened.

Only model-checked: `SimulationEnds`, since liveness under fairness is beyond the
proof system, and the five runs that expect a violation.  Every other property of a
run is stated by a theorem, `RxFoundReadsItsTx`, `TimeNeverGoesBack`,
`LostPacketIsNotFoundAgain` and `SearchTriesFirstFit` under the hypotheses above;
`three_devices`, where packets start late and end early, has them too, since none of its
rechecks falls where the start or the end of such a packet hides it.

## 5. Where the code and its documents disagree

Each has a run whose counterexample shows it, and is listed in `PROJECT.json`.

* `packet_span`: `tx_schedule_next_event()` queues the start and the end of a
  packet at the end of the transmission (`p2G4_main.c:205`, `:210`).  As a
  consequence a recheck can be skipped and is then queued in the past:
  `current_time` goes back to it, so that `TimeNeverGoesBack` fails for such
  packets too.
* `cca_abort`: the abort that comes with a CCA request limits the search only
  after a reevaluation (`p2G4_main.c:1037`).
* `sync_lost`: a receiver that is synchronising when its transmitter ends and
  starts again goes on with the new packet (`p2G4_main.c:530`).
* `prelock_search`: a reception whose prelock fails does not look for packets
  that are on the air (`p2G4_main.c:371`).
* `defmodem_limit`: the number of the default modem's parameters is not limited;
  the check looks at the number of the channel's (`p2G4_args.c:207`).  One
  parameter too many is written behind the array.

Seen while modelling, with no run:

* `p2G4_channel_and_modem.c:255`: a prelocked reception does not ask
  `chm_is_packet_synched()`, and so does not move `rx_ctr`.  If it asks for other
  radio or modem parameters or another antenna gain than the reception before it,
  and no transmission started or ended in between, it gets the bit error rate of the
  old parameters, although the comment at `:270` says that all that was calculated
  before still applies.  The properties of `BerCache` allow it this much, and no
  more.
* `p2G4_main.c:165`: of two packets that start in the same microsecond the lower
  device takes the receiver, since its start is handled first and
  `find_and_activate_rx()` only moves receivers that still search.  The comment
  `:454-462` says that the bigger device number wins.
* `p2G4_dump.c:257`: an old file that goes on after the last line produced counts as
  no difference, although `README_dumps.md:15-17` says that the contents of the old
  files are compared.  `ExitStatusTellsUnmatched` is about the lines produced.
* `p2G4_dump.c:327-345`: the difference that is one too many closes the file
  again if it is the end of the old file, with a null pointer.  `:728-735`: when a
  line has too many devices, `dump_ModemRx()` closes its file and goes on to write
  to it.  The model has both (`crash`), and its properties are about the runs
  that go on.
* `p2G4_dump.c:166`: an old file that is blank is not compared with, which is
  announced, and the run exits with 0 whatever it produced for it.
* `p2G4_main.c:464`: `f_rx_found()` does not look whether its transmitter is still on
  the air.  When that was asked for its abort in the microsecond the receiver was
  found in, and left, the receiver is asked to synchronise to a transmission that is
  gone (`HasLeft` in `RxFoundReadsItsTx`).
* `p2G4_main.c:454-462`, `:484`: a second packet that fits is missed when the modem
  fails on the first: `rx_enqueue_search_reeval()` does not look at what is on the
  air.  The comment says so.
* `p2G4_main.c:676`: at the end of a reception the packet is dumped from whatever
  transmission its transmitter has then, with the size of the one it was found
  in.  Only a reception whose transmission is gone, and which nevertheless drew
  no errors, gets there with another one.
* `p2G4_channel_and_modem.c:132`: `modem_lib` is tested instead of `modem_lib[d]`.
* `p2G4_main.c:950`: the product of the error rate and `t` is 32 bits wide: it can
  wrap for rates above 1.07 GHz (`MaxExactRate`), which are then accepted or refused,
  and calculated, by what is left of it.  The model wraps too; `ErrorRateIsAsAsked`
  claims the number of errors up to that rate.
* `p2G4_main.c:185-196`: once a packet has ended, PACKET_ONGOING is cleared and
  the packet start is a candidate again: a second `Tx_Packet_Start` is queued.
  The model has it (`Packet_start_time`).
* `:319` and `:935`: `scan_end` becomes `abort_time - 1`, but only when the abort
  is before the scan's end, so that an abort at `scan_end` costs nothing while
  one a microsecond earlier costs two.
* `:1146`: `rx_a` is zeroed, so that the first reception of a device, if it is
  prelocked, has device 0 as its transmitter.  The model has it (`NoRx`).
* `:949`: for `t = 3` the condition only holds for multiples of 1 MHz, which were
  handled before: multiples of 333 kHz, which the message offers, are refused.
* `:319`: a reevaluation that postpones the abort does not give the scan back
  the time that the old abort cut.
* `p2G4_com.c:122`: the reads of a request's body are not checked.

## 6. Not modelled

* What the channel and the modems calculate, the levels measured, the loading and
  unloading of the libraries (`channel_and_modem_init`, `_delete`): external code
  and `dlopen`.
* Who allocates and frees the packets and the arguments.
* How the lines of a dump are written, and options that only set a value.
* A connection that breaks inside the body of a request: the contents would be
  what the stack held.
* The interfaces of channel and modem libraries, the post-processing scripts:
  declarations, and off-line conversions.

## 7. Plan

Every component that is modelled is checked and proved about.  What is left:

1. The converse of the hypotheses: which packets a prelocked search misses, and by
   how much time can go back when a packet does not span its transmission.
2. Two receivers, and a receiver that also transmits, in the run of the cache; the
   proofs cover them.
3. The hazards without a property in `PROJECT.json`: each is a behaviour that no
   document of the code speaks about.
4. Shorter proofs: the case analyses over the handlers in `PhyModeProofs`,
   `PhyTimeProofs` and `PhyProtocolProofs` have the same shape.
