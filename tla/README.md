# A model of the IMSI catcher detector

This directory holds TLA+ modules for the IMSI catcher detector: its cell
scanner, that is the host program `catcher`, the OsmocomBB layer 1 firmware it
drives and the L1CTL link between them; its paging scanner, that is `pch_scan`
and the thread that runs it; its GUI, that is the controller, which starts and
stops the programs that use the phone, the station list and the rules that judge
it; the acknowledged data link of the library all of this is built with; and the
calls of the OsmocomBB phone in whose repository the detector is built, that
phone's choice of a network and a cell, and its access to a radio channel. TLC
checks them on small instances
(`*.cfg`); TLAPS proves some of the properties for all instances
(`*Proofs.tla`). Source paths below are relative to `src/Src/`, where
`layer23` is `osmolib/src/host/layer23/src`, `layer1` is
`osmolib/src/target/firmware/layer1`, and line numbers without a file are of
`layer23/misc/catcher.c` (of
`osmolib/src/shared/libosmocore/src/gsm/lapd_core.c` where `Lapd` is discussed).
`Detection.tex` is the thesis chapter `Tex/Content/Detection.tex` beside `Src`.

## 1. The system

The detector consists of a GUI (`PyCatcher/src`), two command line programs that
use a phone as a receiver (`layer23/misc/catcher.c`, `pch_scan.c`), the phone's
firmware (`layer1`), and `osmocon`, which connects programs and phone by a
serial line.

    PyCatcher GUI --spawns--> catcher, pch_scan --L1CTL--> osmocon --> layer 1 --> radio
          ^                          |
          +------- text output ------+

| Component | State | Operations | Interacts through |
|---|---|---|---|
| catcher (`catcher.c`, `app_catcher.c`) | scan state, `pm[]` table, `sync_count`, `pm_index`, `sysinfo`, `rach_count`, `rach_ref`, one timer, log file | one callback per L1CTL message, one timeout handler | L1CTL requests and messages |
| layer 1 (`layer1/*.c`) | TDMA schedulers, tuned cell, measurement message being filled, flagged completions, RACH parameters, `last_rach` | request handlers in the main loop, completions, frame interrupt | L1CTL, radio |
| L1CTL link (`layer23/common/l1ctl.c`, `osmocon.c`) | frames in flight | send and receive | both of the above |
| pch_scan | synchronisation, CCCH counters printed | callbacks of paging and assignments | L1CTL, as a second program on the same phone |
| GUI controller (`pyCatcherController.py`) | flags of running scans, list of ARFCNs to scan, station list | GUI signals, callbacks of threads | driver threads, views, rules |
| driver threads (`driverConnector.py`) | child process, break flags, parsed station | one thread per firmware, sweep and PCH scan | text output of the programs |
| data model (`pyCatcherModel.py`, `cellIDDatabase.py`, `filters.py`) | stations with the findings about them | add, refresh, evaluate, filter, draw | controller, rules |
| rules and evaluators (`rules.py`, `evaluators.py`) | the memories of the two scan rules | station list to findings and verdict | data model, database |
| local area database (`localAreaDatabse.py`) | sqlite table of sightings, cache | insert or alter, look up | controller, rules |
| phone (`layer23/mobile`: `mnccms.c`, `gsm48_cc.c`, `transaction.c`, `gsm48_mm.c`, `gsm48_rr.c`) | calls of the user, transactions, MM connections, state of MM and of the radio, a timer per transaction and several below | commands of the user, primitives between the layers, messages of the network, timers | queues between layers, drained by `mobile_work` |
| phone, idle (`layer23/mobile`: `gsm322.c`, `gsm48_mm.c`) | states of network selection, cell selection and registration, a list of cells with what is known of each, refused networks and areas, the serving cell, neighbours, seven timers | events between the three processes, answers of layer 1, timers, commands of the user | a queue for each process, drained by `mobile_work` |
| phone, radio resources (`layer23/mobile/gsm48_rr.c`) | state, part of a modification, channel in use, bursts confirmed, five timers | requests of MM, messages of the network, answers of layer 1 and of the data link, timers | the queues of `mobile_work`, the data link, `gsm322.c` |
| LAPDm data link (`libosmocore/src/gsm/lapd_core.c`, `lapdm.c`) | state, sequence numbers, history of frames sent, send and receive buffers, T200 | requests of layer 3, frames of the peer, T200 | layer 3, layer 1, the peer over the radio |

What is hard here:

* **Answers do not name their request.** A `PM_DONE` or `FBSB_CONF` says only
  that *something* finished; catcher relies on never having two outstanding.
* **Messages of the previous cell** are still on the link when the next one is
  tuned to. Only catcher's state separates them.
* **Retries race with late answers**: a RACH burst is repeated on timeout while
  the first may still be due, unconfirmed or answered.
* **One timer for everything**, restarted and stopped in different functions.
* **The phone outlives its clients** and keeps what they left behind; it can
  also be switched off and on while a client runs.
* **A count kept beside the table it counts** (`sync_count`).
* **Callbacks of threads against the GUI loop** in the controller, and two
  evaluations of the station list at a time.
* **Rules with a memory**, which is fed whenever somebody evaluates the list and
  not whenever a station is seen.
* **Clients that are killed, not closed**: what they asked for is answered to the
  next one.
* **Four layers with a record of each call**, which call each other directly in one
  direction and by queues in the other, and may lose the radio in any state.
* **Three processes that look for a cell**, each with a queue: one decides on the
  network, one on the cell, one registers. The end of every search is handed from one
  to another, and an event that fits no state is dropped.
* **What was refused is kept in three places** and read again at other moments than
  it is written.
* **Requests to tune that are dropped** while the answer to another is awaited.
* **A channel owed to many**: its access, change and release wait in turn for cell
  selection, layer 1, layer 2, the network and five timers, some of which outlive the
  state they were started in.
* **A radio link that loses frames**: retransmission must neither duplicate nor
  drop, whatever is lost.

`PROJECT.json` lists every component with its sources and every hazard at its
line.

## 2. Modules

| Module | Models | Source |
|---|---|---|
| `SystemInfo` | messages of system information, which types a cell must send | `new_sysinfo`, `bcch` |
| `L1Link` | bands, the messages in both directions, two reliable FIFOs | `l1ctl.c`, `l1a_l23_handler` |
| `Catcher` | every handler of catcher | `catcher.c` |
| `Layer1` | request handlers, completions, frame interrupt and boot | `l23_api.c`, `prim_*.c`, `sync.c`, `async.c` |
| `CatcherSystem` | composes `Catcher` and `Layer1`; states the properties | |
| `Sweep` | abstract specification: what one sweep promises | |
| `MCCatcher` | instances of `CatcherSystem` for TLC | |
| `PchScan` | `pch_scan`, and the thread that runs it on each ARFCN, on the phone of `Layer1` | `pch_scan.c`, `app_ccch_scan.c`, `driverConnector.py` |
| `Rules` | rules and evaluators, as operators | `rules.py`, `evaluators.py` |
| `Stations` | station list, evaluation and database, by sweep threads and the GUI | `pyCatcherModel.py`, `localAreaDatabse.py`, `pyCatcherController.py` |
| `LinkService` | abstract specification: what an acknowledged data link promises | |
| `Lapd` | two entities of the data link and the radio between them | `lapd_core.c`, `lapdm.c` |
| `MmConn` | MM connections and the radio resource states they are opened and lost by | `gsm48_mm.c`, `gsm48_rr.c` |
| `CallControl` | transactions, their timers, requests of layer 4 and messages of the network | `gsm48_cc.c`, `transaction.c` |
| `Mobile` | the call application and the loop; composes the two | `mnccms.c`, `app_mobile.c`, `main.c` |
| `CellSelect` | scans, cell selection and re-selection, neighbour cells (states C0 to C9) | `gsm322.c` |
| `PlmnSelect` | automatic selection of a network (A0 to A6), refused networks and areas | `gsm322.c`, `subscriber.c` |
| `LocUpd` | location updating, the idle states of MM, and the radio resource states they need | `gsm48_mm.c`, `gsm48_rr.c` |
| `IdleMode` | the loop; composes the three | `app_mobile.c`, `main.c`, `vty_interface.c` |
| `RadioRes` | radio resources: access, link, modification, release, paging | `gsm48_rr.c`, and of the link `lapd_core.c`, `lapdm.c` |
| `Radio` | what surrounds them: queues, timers, layer 1, network, MM | `gsm48_rr.c`, `gsm322.c`, `app_mobile.c` |
| `MCPchScan`, `MCStations`, `MCLapd`, `MCMobile`, `MCIdleMode`, `MCRadio` | instances for TLC | |
| `Controller` | the GUI's controller with its sweep and PCH threads | `pyCatcherController.py`, `driverConnector.py` |
| `MCController` | instances of `Controller` for TLC | |
| `CatcherProofs` | theorems about `CatcherSystem` | |
| `PchScanProofs`, `ControllerProofs`, `StationsProofs`, `LapdProofs`, `MobileProofs`, `RadioProofs` | theorems about the module of that name | |
| `LinkServiceProofs` | the theorem that `Lapd` implements `LinkService`, with the invariants of `LapdProofs` | |

**Catcher.** catcher is single threaded: its select loop runs a callback to the
end before the next, so a callback is one action. `start_pm`, `start_sync` and
`start_rach`, which callbacks call in their tail, are the operators
`PmRequests`, `StartSync` and `StartRach`; their arguments carry what the
callback has changed before the call. `ResetSignal`, `PmResult`, `PmFinished`
and `SyncResult` are the branches of `signal_cb`; `Bcch` is `unit_data_ind` with
`bcch` and `new_sysinfo`; `ImmediateAssignment` is the three assignment messages
with `ta_result`; `ChanConf` is the confirmation of a RACH burst; `ReadTimeout`,
`RachTimeout` and `IdleTimeout` are `timeout_cb` in its states. The timer is a
Boolean, pending or not: it may expire at any moment while pending. The content
of a message is its ARFCN, type, version and whether it announces a further
type; the content of the log is the sequence of system information blocks since
the last `[power]` block.

**Layer1.** `task` is what the schedulers do (off, idle, measuring,
synchronising, camped). The main loop handles one request (`Request`) or one
flagged completion (`Completion`) at a time; the frame interrupt finishes a
measurement, a synchronisation or a burst (the action `Radio`) at any moment in between.
Which level is measured, whether a synchronisation succeeds and what is heard
are free choices. `l1s_reset` clears the schedulers only: a flagged completion
and a half filled measurement message survive, as in the code.

**Sweep** has no phone, messages or timers: levels of all cells are obtained at
once, cells loud enough are visited strongest first and each once, and a cell
is reported only with complete system information that it sent. `ImplementsSweep`
maps `phase` to catcher's state, `level` to `pm[].rxlev` and `reports` to the log;
while catcher measures, the mapping hides the table, so a partly filled one is a
stutter. It is a safety property: a sweep that finds nothing is a stutter too.

**Controller.** The GUI thread runs one handler at a time; each sweep and each
scan of one ARFCN has a thread of its own. Handlers and the callback
`_pch_done_callback` share attributes without a lock, so they are split where
they read an attribute another thread writes: `NormalPchScan` and `UserPchScan`
store the request, `GuiNext` pops an ARFCN and looks at `_pch_scan_running`,
`GuiStart` sets it and starts the thread; in the callback, `Record` stores the
result and clears `_pch_scan_running`, `NextArfcn` or `Verdict` goes on or shows
the result, `StartNext` starts the next thread, `Clear` clears `pch_active`. A
handler that only logs a refusal is a stutter. `pch_scan` is the time between
start and end of a thread: as `pch_failed` is never True, the branch for it is
left out and the retries make no difference to the controller. With a timeout
of zero the thread dies (`Crash`). A scan need not return (`Scanned` is not fair, see
`PchScan`). `patient` is not state of the program: it says
whether the user waits for a result before asking again; both users are in
every run. `asked` and `answer` are what the user entered and what is shown.

**PchScan** `EXTENDS Layer1`: the same phone with another client. Each callback
of `pch_scan.c` is an action; what it prints goes into `pipe`, which a full pipe
makes it wait for. `PCHThread.run` is `Poll`, `ReadLine`, `Retry` and `Finish`;
`time` says whether the scan's time is up and whether the thread has noticed.
`Kill` is what SIGKILL does: requests not written yet are lost, the phone goes on
with what was asked, and what it sends is dropped (`Drop`) until the next client
is connected, and then meets that one. Messages of the paging channel name no
ARFCN; the model records it in `PchInd` for the property only.

**Rules** translates each rule as an operator of an ARFCN and the list, as the code
has it. The loops that look for the ARFCN keep their positions: some return at the first
entry (`Extracted`), some run on and keep the last (`Latest`), and the one for indirect
neighbours breaks at the first direct one (`Passed`). A rule
with a memory takes what it remembers and returns what it will; its finding is
part of that. Percentages are integers, so the comparisons are exact where the
code's are in floating point. The median is that of the code (the upper one),
defined by rank. **Stations** has the list with its loops: `CheckStation` and
`WriteStation` are the two halves of an evaluation of one station, between which
another thread may evaluate. `add_station` is two steps as well: `Found` looks for the
station, and for a known one raises the count; `Refresh` then copies the rest,
or `AppendStation` appends a station that was not found. Two sweep threads, one told to end
and one just started, may so append the same station twice. `overlap` is not state of the program: it says whether the handlers of
two threads may interleave; both kinds of behaviour are in the run.

**Lapd** runs the same code at both ends (`ms`, `bts`), as the library does. A
handler (`lapd_rx_u`, `lapd_rx_s`, `lapd_rx_i`, `lapd_t200_cb`, a request of layer
3) is one action; what it sends is appended to `pipe`. With the window of one
frame that `lapdm_dl_init` sets, `lapd_send_i` sends at most one frame. `view` and
`failed` are what layer 3 was told; `sent` and `got` are history. The radio loses
frames (`Lose`) and may let another phone's SABM win (`Collide`). T200 is longer than the way
of a frame and its answer on the radio (`lapdm.c` sets it to 1 or 2 s), but a comment
(1506) says that replies over the serial line to the phone may be slower: `MayExpire` lets it expire when
nothing is under way, and `MaxLate` times also when something is (`late` counts them). Two
assumptions are the environment's: layer 3 answers an error by a local
release before it does anything else (`Attended`; `gsm48_rr_mdl_error_ind`); and
each side establishes and releases once in a run (`MaxEst`). **LinkService** is
what layer 3 may rely on; `Implements` maps what it still waits for to the send
queue, the message being sent, and what is under way.

**MmConn**, **CallControl** and **Mobile** are one program of one thread. A function of
one layer calls those of the next inside its own body, so in these modules a
function of the code is an operator from the state of the phone `s` to its next
state, and a call is a composition. What the code defers to a queue
(`gsm48_rcv_rsl`, `gsm48_rr_upmsg`, `gsm48_mmxx_upmsg`, `gsm48_mmevent_msgb_alloc`,
`mncc_recvmsg`) is appended to a queue in `s`. A round of the loop is the expiry of
timers, then one message of layer 1 or none with one command of the user or none
(`Receive`, `Dial`, `HangUp`, `AnswerCall`, `Hold`, `Retrieve`), and then `mobile_work`: its
action `Work` handles one message, of the queue that is being emptied (`at`) or, when that is
empty, of the next in the order of the code, until none holds any (`Turn`). Only then
(`at` is 0) does the next round begin; so queued indications meet a command that came
after them, as in the code.
Cell selection is `camped`, which a channel request ends and `CELL` brings back, but not
before `t_rel_wait` has expired: a power scan takes longer than its 1.5 s. A refusal that
ends all calls (the causes with `abort_any`, or an abort for an illegal phone) also
takes the SIM its registration (`updated`), and calls are refused until an update (`Registers`, one
step, which need not come).

**CellSelect**, **PlmnSelect**, **LocUpd** and **IdleMode** are the same program
without a call, in the same form: operators from the state of the phone `ms` to the
next, five queues, and `MobileWork`, which is `mobile_work` as one recursive operator: here an
action drains the queues to the end. `CellSelect` is what `gsm322.c` does with cells and layer
1: `s.si` and the sets `signal`, `known`, `forb`, `aa` are the flags of the list of cells,
`bal` the BA lists, `nb` the neighbours, `sel` the serving cell and `cur` the tuned one.
A cell is its rank in the order of levels, so that the choice of the
strongest is that of the smallest number, and what `gsm322_nb_check` calls
`GSM58_RESEL_THRESHOLD` is whether a neighbour is better by it (`resel`), and whether the five
seconds it looks at are over (`ReselOver`). Neighbours not read yet go before those
read again (`NbTodo`). The radio is the set `air` of the cells that can be
heard, and `CellChanges` lets one come or go. Whether the timer of cell selection is pending is not kept: the code starts
and stops it with the state of layer 1, and `CsTimer` derives it. `PlmnSelect` is the
automatic mode, `LocUpd` registration with all causes for which a network rejects it. The
abstractions: no cell is barred, all are heard at -85 dBm at most, so that networks are tried in the
order of their strongest cells, the SIM is the test card without a list of preferred
networks, the networks are of the home country, and a channel is requested for nothing
but location updating.

**RadioRes** and **Radio** are the layer below both, in the same form again. `MmConn` and
`LocUpd` take of `gsm48_rr.c` the states they are opened and lost by; here each of its
handlers is an operator from the state `ms` to the next: the access with its bursts,
the history they are matched by and T3126, assignments at once and at a starting time,
refusals with T3122, pages, the link, assignment commands and handovers, the release
from either side, losses and aborts. Of the data link there is its state (`l2`), as
`Lapd` shows what it promises, with the suspension and reconnection that `Lapd` leaves
out; of cell selection what happens to the serving cell: it is left for an access,
synchronised to anew, and found again, with an answer for a neighbour possibly pending.
An action is a timer or an event of a round of the loop, or the handling of one queued
message (`RslDequeue`, `RrDequeue`), in the order in which `mobile_work` drains the
queues; events wait until they are empty.

In `Catcher`, `Controller`, `PchScan`, `Rules`, `Stations`, `Lapd`, `MmConn`, `CallControl`,
`CellSelect`, `PlmnSelect`, `LocUpd` and `RadioRes`, an operator whose name begins with `Wrong` is a plausible mistake
in the definition that follows it; it is not part of the model. For every
property of every passing run one of them is known to break it.

## 3. Properties and runs

| Property | Says |
|---|---|
| `TypeOK` | types, and with them: `rach_count` never passes `RACH_MAX`, which the code compares for equality (`Catcher`); the entries are of the ARFCNs read, with one entry for each where handlers take turns (`Stations`); on a quiet established link what is expected next is what is sent next (`Lapd`); the program never ends itself at one of its own tests for a missing cell (`IdleMode`) |
| `OneOutstanding` | at most one measurement or synchronisation is asked, worked on or answered, of the kind catcher waits for |
| `TunedCell` | from the answer to a synchronisation on, all that is heard is of the cell catcher means |
| `OwnSysinfo` | stored system information was sent by the tuned cell |
| `SyncCountExact` | `sync_count` is the number of cells still to visit, in every state |
| `TimerArmed` | the timer is pending exactly while a cell is read or asked for a channel |
| `LoggedAfterFrame` | `log_sysinfo` never divides by zero frames |
| `ConfirmedBurst` | while a cell is asked for a channel, a `rach_ref` that counts as confirmed has the frame of a burst sent on this cell (or 0, which the phone reports of a burst whose frame it has cleared); until the burst is repeated it names this very burst |
| `ImplementsSweep` | catcher and phone together implement `Sweep` |
| `KeepsSweeping`, `HeardIsTuned` | sweeps follow each other; each cell loud enough is tuned to |
| `OneListener` | a sweep thread goes on reading only while a sweep is active, and it is the one `stop_scan` tells |
| `OnePchScan` | user who waits for results: one `pch_scan` at a time, though each is started from the callback of the last |
| `AnsweredAsAsked` | user who waits: the result shown covers the ARFCNs asked for, in the order of their scans |
| `Answered` | user who waits, scans that return: a result is shown, unless the thread has died of a timeout of zero |
| `PhoneExclusive` | `catcher` and `pch_scan` never run at the same time |
| `OwnCell` | what the paging scanner hears after its own reset is of the ARFCN it scans, however the last client ended |
| `ModeInForce` | what `pch_scan` takes for the mode of the CCCH is set in the phone, or will be |
| `NeverDeaf` | a phone that is idle will be told to synchronise, or the program is about to be restarted |
| `EndsInTime` | a scan that was not retried ends after its time is up |
| `WaitsUntilTimeout` | the same of every scan |
| `OrderFree` | as long as each ARFCN has one entry, the findings of the context rules do not depend on the order in which stations were found, although loops stop at the first match, keep the last, or break off |
| `ContextIsFresh` | when no handler runs, findings and verdicts are those of the list as it is |
| `LacChangeSeen` | the LAC change rule is critical exactly for stations whose LAC is not the first one seen, whatever rules were switched off and on; and it never blames a station of which one LAC was read, even when handlers overlap |
| `LevelsLearned` | a level once stored for a cell never makes the database rule critical |
| `NoFalseAlarm` | layer 3 is told of an error only if a frame was lost or T200 expired with one still under way |
| `InOrderOnce` | what layer 3 is given are messages of its peer, whole, in order and none twice, also when answers are slow and T200 expires too early |
| `Implements` | as long as T200 does not expire too early, the two entities and the radio implement `LinkService` |
| `Settled` (of `Lapd`) | what was accepted is in the end delivered or given up |
| `LayersAgree` | whenever the queues are empty every transaction has a connection of MM, one connection at most is waited for, identifiers are distinct, a call of the user, unless it is being initiated, is one that call control knows and, unless it is being set up or released, the reverse, and no connection outlives its channel |
| `Cleared` | a call that is being cleared is gone in the end, from call control and from the user's list |
| `PendingDecided` | if no access waits for ever, a connection for which MM waits for the radio or the network is opened or given up |
| `AllowedCell` | a phone that camps normally and is not in a procedure is never on a cell of a network or an area that refused it |
| `SearchGoesOn` | in a scan something is always due, cell selection is never without a task, and while a network is tried a cell of it is searched for or its answer awaited |
| `ChannelAgreed` | MM, radio resources and cell selection, which end a procedure each on its own account, agree about the channel whenever nothing is queued: a procedure of MM has one or has lost its cell; a channel is of a procedure of MM, on a selected cell and in connected mode; one that is held has T3210 or T3240 running; and connected mode has a channel |
| `HomeSearched` | a phone registered abroad has the next search for its home network ahead of it, and both processes agree on when that search runs |
| `ChannelEnds` | a phone that accesses or leaves a channel is owed an answer by layer 1 or layer 2, or has a timer running, so that access and release end, with two exceptions: a channel the phone finds it cannot use, and one it is given while the link of an old one is still up |
| `ModifyEnds` | a modification under way waits for its starting time, for the peer, or for an indication that is queued |

| Run | Instance | Checks | Distinct states |
|---|---|---|---|
| `MCSweep` | 2 bands, 3 cells, 2 levels, batches of 2, 2 bursts with 2 random references, assignments of other phones, GPS moves, 1 reboot; the references are symmetric | `TypeOK`, `OneOutstanding`, `TunedCell`, `OwnSysinfo`, `TimerArmed`, `SyncCountExact`, `ConfirmedBurst`, `LoggedAfterFrame`, `ImplementsSweep` | 3.3 M |
| `MCLive` | 2 cells, 3 levels, 2 bursts, fairness | `KeepsSweeping`, `HeardIsTuned` | 591 k |
| `MCController` | requests of 1 (by the user) and 3 ARFCNs, timeouts 0 and 10, 2 + 2 threads, both users, scans that return and that do not, fairness | `OneListener`, `OnePchScan`, `AnsweredAsAsked`, `Answered` | 447 k |
| `MCPchScan` | 2 ARFCNs in turn, the second silent, 1 retry, 1 reboot, fairness | `OwnCell`, `ModeInForce`, `NeverDeaf`, `EndsInTime` | 447 k |
| `MCStations` | 3 sightings of 3 stations, one of them replaced by another, 2 sweep threads (symmetric); handlers in turn, with 2 choices of the user and 1 PCH result, or overlapping, with 1 choice | `TypeOK`, `OrderFree`, `ContextIsFresh`, `LacChangeSeen`, `LevelsLearned` | 1.8 M |
| `MCLapd` | 2 messages of 1 or 2 segments, 2 frames lost, 2 early expiries of T200, establishment with and without content, fairness | `TypeOK`, `NoFalseAlarm`, `InOrderOnce`, `Implements`, `Settled` | 286 k |
| `MCCalls` | 1 call dialled, 1 opened by the network, 1 identifier of the phone's own, with and without call waiting and automatic answer, refusals that end all calls; fairness | `TypeOK`, `LayersAgree`, `Cleared`, `PendingDecided` | 401 k |
| `MCIdleMode` | one or two of 3 cells of 2 networks at first, one comes or goes; a SIM last registered at home, or never and with a foreign cell only; updates accepted or rejected: for the network abroad and in a cell at home, for the area or the subscriber in the other | `TypeOK`, `AllowedCell`, `SearchGoesOn`, `ChannelAgreed`, `HomeSearched` | 417 k |
| `MCRadio` | accesses of 2 bursts with 2 references; usable and unusable channels, at once and later | `ChannelEnds`, `ModifyEnds` | 907 k |

`TypeOK` of `Controller` is proved and not repeated as a run.

Three runs show where the program and its documentation differ:

* `MCStuck`: a phone that is switched off and on while catcher waits for a
  measurement or a synchronisation leaves it waiting for ever: `signal_cb`
  ignores the reset (471) and no timer runs in these states.
* `MCBothScans`: `stop_scan` permits a PCH scan at once, but `catcher` keeps the
  phone until the sweep thread has read one more line. (With several ARFCNs the
  callback of the first also clears `pch_active` while the second is scanned.)
* `MCPchSilent`: on a retry `PCHThread` registers the new program's output with
  `poll` beside the closed one of the old (`driverConnector.py:214`). From then on
  `poll` always reports and `readline` blocks; on a cell that sends nothing to
  print the scan outlasts its time for ever.

What modelling met besides, too local for a run of its own:

* `new_sysinfo` (650) sets `rach_count` to 0 also while bursts are sent: a cell whose
  system information changes meanwhile hears more than `--rach` bursts.
* A confirmation that arrives after the timeout is taken for that of the next
  burst (`chan_conf`, 833), whose random reference is another: an assignment of another phone may
  match this reference and that frame, against the comment at 504, "filter confirmed RACH
  requests only". `ConfirmedBurst` therefore says of a repeated burst only that the frame is
  of this cell.
* `user_pch_scan` sets `pch_active` before it finds nothing to scan
  (`pyCatcherController.py:147`), and nothing clears it: sweeps are refused from then
  on. A user scan lasts as long as the last normal one but is normalised by its
  own timeout (241).
* A line of `pch_scan` counts as a hopping assignment when it contains `HOP`, which
  `NONHOP` does: `PCHRule` never sees an assignment without hopping.
* `pch_failed` never is True, so a scan that failed is judged by zero counts
  (critical) and not ignored.
* Two sweep threads (the button released and pressed again before `catcher` has printed
  another line) may both look for a station before one of them appends it
  (`pyCatcherModel.py:101`): the list then has it twice, and only the first is ever refreshed.
* A change of LAC is missed when the GUI evaluates between the two halves of
  `add_station` (`pyCatcherModel.py:104`): the rule takes the old LAC for that of the
  new sighting. `LacChangeSeen` therefore asks for the alarm only where handlers take turns.
* Sightings are added to a row again whenever the list is stored, and the cache is
  refreshed before the rows are inserted (`localAreaDatabse.py`).
* `DiscoveredNeighboursRule` calls `float` on a list when its threshold is between 0
  and 1 (`RulesAssumption` excludes it), and its group is listed under another name
  than its identifier, so the group evaluator never counts it.
* `stop_firmware` sets a flag that no thread reads (`driverConnector.py:47`).
* The memories of the scan rules survive the loading of a project.
* A call that is dialled after the radio was lost and before a cell is found goes to
  `gsm48_mm_init_mm_more`, "on existing RR connection" (`gsm48_mm.c:3154`), as MM is still
  in MM CONNECTION ACTIVE. Its request is dropped. The new cell takes MM to idle
  with the connection pending; from then on calls are refused as one is pending, and
  the hang-up does not remove it, as MM_IDLE handles no release. After a page was
  answered, MM may instead wait for the network without T3240. `PendingDecided` speaks of the states in
  which MM has asked for something.
* DISCONNECT_REQ and DISCONNECT_IND are both 12 (`gsm_04_08.h:1207`), and their bit is
  subtracted twice from ALL_STATES (`gsm48_cc.c:1892`). The borrow leaves it set: a call
  that is being cleared accepts another disconnect, which restarts T305.
* `gsm48_cc_timeout` sets `abort` for every timer, so that the second run of T308 it
  prepares for never begins.
* A hang-up before the network is reached frees the transaction without an indication:
  the call stays in the user's list, and bars dialling, until it is hung up again.
* A SETUP for which no identifier is free, and a first message other than SETUP, leave a
  connection behind; a CM SERVICE REJECT waits for the network without T3240;
  a CM SERVICE ACCEPT after a hang-up makes MM active without a connection; an answered
  page while a call is dialled leaves MM waiting for a confirmation that has become an
  indication; a MODIFY of the network leaves the call in the state of a modification of
  its own. `gsm48_mm_rel_other` or the loss of the radio ends each.
* The search for the home network never leads home: `gsm322_a_sel_first_plmn` (1109) finds
  its cells only if they were marked when a cell was last selected, and passes over
  the network that was selected last. `HomeSearched` says that the search is tried
  again and again, and no more.
* When a network becomes available, its country is passed on as its network code
  (`ngm->mnc = mcc`, `gsm322.c:2141`, 2343), so that the selection never recognises it.
* After a rejected update network selection starts a scan while the channel is still
  being released, for which reason `ChannelAgreed` lets a procedure that has lost its
  cell be.
* NORMAL_SERVICE may remain the substate while no cell is selected.
* T3211 may expire, and be lost, while MM still waits for a channel that is gone or being released: the
  update is then marked as pending and nothing repeats it before the cell changes. The comments at
  `gsm48_mm.c:169` and 185 say "on expirery of T3211 or T3213: Perform location updated".
* T3211 or T3212 that expires during a search for the home network finds the phone in
  MM_IDLE and ATTEMPT_UPDATE but not in C3: `gsm48_mm_loc_upd` (2136) takes the update for
  impossible and drops it, `gsm48_mm_return_idle` does nothing outside C3 and C7, and the
  return to the cell (`gsm322_search_end`, 2094) sends MM no event. A phone whose update
  failed once may then camp on its cell without ever registering, although
  `gsm48_mm.c:154` says "In all IDLE states: on expirery of T3211 or T3213: Perform
  location update". For these two no property says that an update is made in the end;
  `ChannelAgreed` is about the channel of an update under way.
* A neighbour is tested for a refused area in limited service only
  (`gsm322_nb_check`), where refused areas do not matter.
* A SABM in DISC_SENT stops T200 and leaves the state (847): without the UA layer 3
  waits for ever. It takes an establishment by both sides. A link released in
  TIMER_RECOV by a DM keeps its send buffer (974), which is sent on the next link.
  `MaxEst` and `Initiators` exclude both; with `MaxEst = 2`, `TypeOK` fails because a SABM in
  MF_EST with V(S) = V(R) is answered without resetting the numbers (824).

* A SABM that reaches the base station in TIMER_RECOV is answered with its content,
  whatever that is, as a collision (854); the comment at 829 says "Ignore SABM if content differs from
  first SABM". So a mobile may take a link for its own whose base station holds the message of
  another: its SABM was hit by the other's, the UA to that was lost, T200 expired at the base
  station, and then the repetition came. No property says whose the link is.
* A SABM with content that is repeated, because its UA was lost, is never answered:
  the base station compares its content with `memcmp` of the `msgb` structure and not
  of what it holds (`lapd_core.c:835`), finds it different and takes it for that of
  another phone.
* An assignment of a channel the phone cannot use leaves the access without a timer:
  `gsm48_rr_dl_est` has stopped T3126 before it finds out. The phone then waits for
  a loss of the signal. `ChannelEnds` excepts it.
* `t_rel_wait` survives a loss of the signal. If it expires in a later access it makes RR idle
  without an indication, and MM goes on waiting.
* The starting time of an immediate assignment survives an abort: when it comes,
  `gsm48_rr_dl_est` opens a channel with a description that has been cleared, while RR is
  idle, and a link that is confirmed there makes it dedicated for nobody.
* `gsm48_match_ra` (2378) overwrites the reference it looks for by the time of an entry
  that does not match, so that of two bursts with one reference the older is not found.
* `gsm48_rr_dequeue_down` (`gsm48_rr.c:4381`) reads the link of a message that waited for a
  modification from the message itself.

### Bounds

Every bound is a constant and a guard.

| Constant | Bounds | Why it is enough |
|---|---|---|
| `LinkBound` | messages the phone adds to the link on its own | 1 or 2 put a message of the old cell before and after each answer; handling is strictly in order |
| `FnBound` | frames in which bursts are sent | above the number of bursts of a cell, so bursts of one cell have different frames |
| `MaxRefs` | references in an assignment | 1, that of a burst of this cell or of another phone: of several, one that matches decides |
| `MaxReboots` | times the phone is switched off | 1: catcher keeps nothing of the phone but the answers it waits for |
| `CountBound` | `sync_count` from which no more results are counted | above the number of cells; results beyond it come only after a killed client, which the theorem below covers |
| `ScanThreads`, `PchThreads` | driver threads alive at a time | 2: one ending while the next has begun; a user who waits never has more |
| `PipeBound` | lines the pipe holds | 1: the program waits for the thread, as with a full pipe |
| `MaxScans`, `MaxChoices`, `MaxPch` | stations read, choices of the user, PCH results | 3 sightings: a station found, seen again and another between; 2 choices: a rule off and on, where handlers take turns (1 where they overlap) |
| `MaxLost` | frames the radio loses | 2: a frame and its repetition, or an answer and the next |
| `MaxLate` | times T200 expires with a frame under way | 2: the frame and its repetition are both slow |
| `MaxSent` | messages accepted by both entities | 2: one sent, one waiting, by one entity or one by each; with two segments each and `VRange` 4 the numbers wrap |
| `MaxEst` | establishments and releases of an entity | 1, see above |
| `PmBatch` | results in a measurement message | 2 with 2 cells: full at the end of the range; with 1 cell: flushed half full |
| `MaxChanges` | cells that come or go | 1: the serving cell is lost, a neighbour is lost or a better one appears, in any state; the searches then run over what is left |
| `Causes`, `Starts` | reject causes of each cell, first situations of the phone | a cell that bars its network, one that bars an area or the SIM, and the home network barred as well; any cause in any cell outgrows a run |
| `RA`, `MaxReq` | random references, bursts of an access | 2 and 2: bursts with one reference and with two, and the last one |
| `TiCount`, `MaxMo`, `MaxMt` | identifiers of own calls, calls dialled, connections opened by the network | 1, 1, 1: an own call and one of the network, each before, during and after the other, held, waiting, refused or cleared; `MobileProofs` covers the other values for `TypeOK` and `LayersAgree` |

Three levels (`MCLive`) give a tie, a strict order, a cell too quiet and one
exactly at `MIN_RXLEV`; two keep the last two. One cell in `MCSweep` never completes its system
information, one announces SI2bis (`TwoCells`: SI2ter).

Deadlock is checked except where the phone can be switched off (`MCSweep`,
`MCStuck`), after which catcher really may wait for ever; `MCLive` checks it without a
reboot. In the runs of `Controller` a
scan without time leaves a user who waits without an answer, and `PchThreads` bounds what an
other can start. The runs of `PchScan` end when all targets are scanned,
those of `Stations` and `Lapd` at their bounds.

### Fairness

`FairSpec` assumes weak fairness of what the select loop of catcher serves
(`Receipt`, `Timeout`), of what the phone's main loop serves (`Request`,
`Completion`), of the frame interrupt finishing what is scheduled (the action `Radio` of `Layer1`) and
of the first boot. It promises nothing of what cells broadcast and nothing of
a second boot. Fairness of `Timeout` says that a pending timer expires if it
stays pending. In the code a changed message restarts the timer, so this is
justified only because in `MCLive` the content of each message is fixed: each
type restarts it once. Fairness of that action sets aside one loop of the
firmware: an FCCH search that finds the tone with too large an offset starts
again without counting attempts (`layer1/prim_fbsb.c:497`).

In `Controller`, the rest of a begun handler and what a PCH thread does after its scan are weakly
fair: these are threads that run on. That a scan returns is not assumed, as `MCPchSilent` shows that
it may not; `Answered` has it as a premise (`ScansReturn`). A sweep thread
is not fair: it waits for a line that may never come.

`PchScan` assumes the same of phone and program as above, of `PCHThread.run`, a loop
on a thread of its own, and that time passes (`Expire`). It promises nothing of what
a cell sends, so `EndsInTime` holds although `ReadLine` may never be enabled.

`Mobile` assumes that the loop runs on, that a timer that stays pending expires, that a
channel that is released is gone (T3110), and that a cell is found. That a channel that is
requested is had or given up is not assumed, as one that the phone cannot use leaves the access
without a timer (`ChannelEnds`); `PendingDecided` has it as a premise (`AccessesEnd`). The network and the user promise
nothing. `Fairness` writes this out as "infinitely often not called for, or infinitely often
taken", where what calls for an action (a timer that runs, a channel that is asked for, a
queue that holds something) lasts through the rounds, although the action is enabled
only between them: the code looks at timers and sockets in every round. T305 is restarted by
each hang-up while the call is cleared (see below), and its fairness assumes that the
user does not go on doing that faster than T305 expires.

`IdleMode` assumes none and states no liveness: a network that keeps rejecting and cells
that keep changing make the phone search for ever, and the code promises no more
than `SearchGoesOn`, that the search has a next step.

`Radio` assumes none either: the network may keep a channel for ever. Its properties say
that whatever waits has something that will end the wait; deadlock is checked.

`Lapd` assumes that something under way goes on (`LinkStep`): a frame sent arrives
if it is not lost, a timer that stays pending expires (early, if `MaxLate` allows), and layer 3 answers an
error. It promises no request of layer 3. Frames lost are bounded, and must be:
on a radio that loses everything nothing settles but by N200.

## 4. Theorems

Proved for all bands, cells, levels, contents, options, references, sightings, rule settings and
bounds, from the named assumptions on the constants (`LinkAssumption`, `CatcherAssumption`,
`Layer1Assumption`, `SystemAssumption`, `PchScanAssumption`, `ControllerAssumption`,
`RulesAssumption`, `StationsAssumption`, `RadioAssumption`, `LapdAssumption`, `MmAssumption`,
`SettingsAssumption`), which TLC evaluates in
every run. `LapdAssumption` takes the range of the state variables to be even, as the place of a frame in
`tx_hist` is its number modulo 2 (the code's range is 8), and `"none"` to be no message.

| Theorem | States |
|---|---|
| `TypeCorrect` | `CatcherSystem`: `Spec => []TypeOK` |
| `NeverLoggedWithoutFrame` | `Spec => LoggedAfterFrame`, also after a killed client |
| `AtMostOneOutstanding` | `~Leftover`: `Spec => []OneOutstanding`, over any number of reboots |
| `TimerOnlyWhileReading` | `~Leftover`: `Spec => []TimerArmed` |
| `HearsTunedCell` | `~Leftover`: `Spec => []TunedCell` |
| `SysinfoIsOwn` | `~Leftover`: `Spec => []OwnSysinfo` |
| `SyncsLeftExact` | `~Leftover`: `Spec => []SyncCountExact` |
| `ScansLikeSweep` | `~Leftover`, `Steady`: `Spec => ImplementsSweep`, the refinement of `Sweep` |
| `AssignmentsAreOwn` | `~Leftover`, `Steady`, `Needed`: `Spec => []ConfirmedBurst`, for any number of bursts and reboots |
| `HearsTarget` | `PchScan`: `Spec => []OwnCell`, whatever the clients before left |
| `ModeIsInForce` | `PchScan`: `Spec => []ModeInForce` |
| `NeverWaitsDeaf` | `PchScan`: `Spec => []NeverDeaf`, over any resets and retries |
| `ControllerTypeCorrect` | `Controller`: `Spec => []TypeOK` |
| `SweepHasOneListener` | `Controller`: `Spec => []OneListener`, for any number of threads |
| `OnePchScanAtATime` | `Controller`: `Spec => []OnePchScan`, with a user who waits, for any requests and any number of threads |
| `AnswerIsOfRequest` | `Controller`: `Spec => []AnsweredAsAsked`, with a user who waits, for any requests |
| `TypeCorrect` | `Stations`: `Spec => []TypeOK`: types however handlers overlap, one entry for each ARFCN where they take turns |
| `FindingsOrderFree` | `Stations`: `Spec => []OrderFree`, as long as each ARFCN has one entry |
| `ContextStaysFresh` | `Stations`: `Spec => []ContextIsFresh` |
| `LacChangesAreSeen` | `Stations`: `Spec => []LacChangeSeen` |
| `LevelsAreLearned` | `Stations`: `Spec => []LevelsLearned` |
| `TypesHold` | `Lapd`: `Spec => [](TypeInv /\ LateInv)`, `TypeOK` but for `InStep`, with early expiries of T200 too |
| `InStepAlways` | `OneLink`: `Lapd`, `Spec => [](late = 0 => TypeOK)`: as long as T200 has not expired too early, the sequence numbers of the two ends stay in step |
| `NoFalseAlarmAlways` | `OneLink`: `Lapd`, `Spec => []NoFalseAlarm`, layer 3 is told of no error while no frame was lost and T200 has not expired too early |
| `LinkServes` | `OneLink`: `Lapd`, `Spec => Implements`, the refinement of `LinkService` as long as T200 has not expired too early |
| `TypeCorrect` | `Mobile`: `Spec => []TypeOK`, for any number of calls and identifiers |
| `Agreement` | `Mobile`: `Spec => []LayersAgree`, with the exceptions that names, for any number of calls and identifiers |
| `RadioInvariant` | `Radio`: `Spec => []IInv`, the types and what follows |
| `ChannelAlwaysEnds` | `Radio`: `Spec => []ChannelEnds`, with its two exceptions, for any references and number of bursts |
| `ModificationEnds` | `Radio`: `Spec => []ModifyEnds` |

For `Catcher` the argument goes in layers, each conjoined to the one before:

1. `TypeOK` is inductive.
2. `FrameHeard`: in the state RACH a frame was received. This is why
   `log_sysinfo` may divide: the only ways to it start in RACH or in the message
   that completes the system information.
3. `RequestInv`: `TypeOK`, `OneOutstanding` and `MeasuresFirst`, which is what
   `OneOutstanding` lacks to be inductive: before the first reset is seen nothing
   but the reset request was sent. Each of the places where a measurement or
   synchronisation can be - asked, worked on, completed, answered - hands over to
   the next, and a new one is asked only by the handler that takes the answer or
   in a state in which none is due.
4. `CellInv`: `RequestInv`, `TunedCell` and `OwnSysinfo`. `OwnSysinfo` alone is not
   inductive: the message stored must be of the tuned cell, which `TunedCell`
   says of the messages behind the answer on the link, and which in turn
   depends on there being one answer only.
5. `Books`, for `SyncCountExact`. `sync_count` is raised by one per result and lowered by one
   per cell, so it is right only if no ARFCN is counted twice, and the code has no
   test for that: it relies on each band being measured once. The invariant therefore says
   of every ARFCN where its result is: in the table, on the link, in the
   message the phone is filling, or still to be measured, and in one of these only; and
   that a measurement is asked of a whole band of which nothing is measured. A phone that is reset
   stops measuring, so a reset request on its way has a new request behind it.
6. `ReadInv`, for the refinement: what is read was sent by a cell, and it is complete before
   bursts are sent. Each action of catcher is shown to be a step of `Sweep` under the mapping,
   or a stutter, and each action of the phone a stutter.
7. `BurstInv`, for `ConfirmedBurst`. A confirmation names a frame and nothing else, so the invariant
   says where the burst of a cell can be (asked, due, flagged, confirmed), and that none
   of the cell before can be when reading starts: those asked for are in front of the
   reset in front of the next synchronisation, which clears the schedule; a completion flagged by then is executed before the
   synchronisation is taken up (`BurstsCleared`), so its confirmation is in front of the answer to that.
   Of a cell's first burst there is one only, in one of these places (`FirstBurst`); once it is
   repeated all that is left is that whatever is flagged or confirmed was sent on this cell (`BurstsAreOwn`).

`Needed`, that
SI2bis and SI2ter are broadcast only where announced, and `Steady` keep `new_sysinfo` from starting over
with the bursts of a cell.

`Steady` says that a cell broadcasts one message of each type, and cannot be dropped:
`new_sysinfo` (650) also takes a message that announces a further type while bursts are sent,
and the cell is then logged without that type.

In `PchScanProofs` nothing is assumed about earlier clients. `LeftBehind` says why they do no harm:
a request, a tuned cell or a message of another ARFCN than the present one has a reset, or the
answer to one, behind it. `NeverDeaf` is not inductive because it counts every
completion that is flagged: one of a synchronisation before the reset reports by the
state it finds later, which may be a success. `Awake` counts those only
that will report a failure.

In `StationsProofs`, `FindingsOrderFree` rests on a lemma about any bijection between two lists,
not about reversal only. The rules do use positions: the first entry of an ARFCN, the last, and the first of
a neighbour. If each ARFCN has one entry, first and last are the same one, which moves with the bijection; and
the loop over neighbours has passed every entry when it finds none, and what it has passed does not count
when it finds one. The same lemma, with the
identity, shows that a finding survives what a rule does not look at: counts, levels,
PCH results, verdicts. `LevelsLearned` is inductive once rows are said to range over
exactly what was stored (`Spans`); that the tolerance of the rule widens that
range, whatever the signs of its ends, is arithmetic on the code's own formula.
`LacChangeSeen` has two halves. For the first, which holds with overlapping handlers,
`Seen` says that every LAC in an entry, in a read not copied yet and in the memory of the rule was
read of that ARFCN, and that a critical finding, in an entry or not
yet stored, implies two of them. For the second, and for `ContextIsFresh`, handlers come one after the
other: `Serial` is the invariant of the loop (stations behind the position are
judged, all are when no evaluation is under way), and `Memory` says that a memory is never ahead of the
count of sightings, and is right when it has caught up with it. Between the
halves of `add_station` it is strictly behind, which is what an overlapping evaluation breaks.

In `ControllerProofs`, `OneListener` is inductive with the types. `OnePchScan` needs
`OneBusy`: with a user who waits a request is in one hand at a time, the GUI
thread's or one PCH thread's, from when it is made until its result is shown; a
thread that only has to clear `pch_active` is not busy.
`AnsweredAsAsked` needs the books of a request (`Ledger`): the ARFCNs left to
scan are the first part of the request, the results the last part reversed, and the
one in hand, if there is one, lies between them. It needs `OneBusy`: with a
second hand two ARFCNs would be out at a time, and their results in either order.

In `RadioProofs` a state that waits may wait for the message just taken from the queue, so
the invariant has that message as a parameter (`Inv(s, m)`), and each operation of
`RadioRes` has a lemma that leads from the message it handles to no message in hand.
`ChannelEnds` and `ModifyEnds` need three facts to be inductive. A link that went down
under a dedicated channel has its release in the queue (`Links`): else an
assignment would wait for a suspension of a link that is not there. A
confirmation of the establishment that is still queued when the link is down again is
followed by that release (`Ordered`): else `gsm48_rr_estab_cnf` would enter dedicated mode
on a link nobody will report. And modifications are of dedicated mode only, and a
channel is requested only while cell selection is in connected mode (`Base`), so
that it cannot reset layer 1 under the request. That an operation restores
all from `Base` alone (losses, releases, `ToIdle`) is what makes the order of events irrelevant.

In `LapdProofs`, `TypesHold` is of every behaviour, the others of those in which T200 has not expired with a
frame under way: only then is a retransmission the only copy of its frame, on which all that follows rests. With
early expiries TLC checks `InOrderOnce` and `Settled`. `OneLink` is that only the mobile establishes and does so once,
as after a release with frames still on their way those of the first link meet the second.
`OpenInv` says that while the mobile waits
for its UA it has sent its SABM and nothing else, which is under way only if no UA is.

`InStepAlways` needs all that the frames on their way may carry. Its invariant
`LinkInv` is a predicate of the two data links, the two sequences of frames and the two unanswered errors
(`Linked`), so that each handler is a lemma about values, and the mobile's case of `Receive` often gives the
base station's with the ends swapped. It has three parts. `Direction`, of an end `d` that is established and its
peer `q`: at most one frame is unacknowledged and its segment is in the history (`Window`); `q` expects
that one or the next, and the acknowledgements on their way are of these two, the later never in front of
the earlier (`Acks`); an I frame on its way is the last one sent, repeated as a poll only, and what `q` has
put together is the first part of the message in the buffer (`Data`); while `d` recovers its poll or the
answer is under way, never both (`Recovery`). Without the last the second of two answers could acknowledge
a frame sent after the first. `Side` keeps what is needed of this when `d` is not established or
has an error unanswered: at most one I frame, expected if it is not a poll, and one poll or its answer.
`Control` says which frames can meet which states, in particular that a mobile that waits for its UA has not
been heard but for its SABM, so that both ends start from zero (`Waits`). Layer 3 answers an error
by a local release, which is why a direction need not survive one, but what follows must: an entity that is idle
answers a poll with DM, which ends the peer's link (`NoPoll`, `Endings`).

`NoFalseAlarmAlways` adds what holds while nothing is lost (`Calm`). That no sequence number is outside the
window is a matter of `Direction` already (lemma `NoAlarm`); what is left is that `lapd_t200_cb` does not run, since the poll
it sends and the answers to it are the source of all the rest. Whoever waits has what it waits for under way:
a mobile its SABM or the UA with its content (`Called`), a releasing base station its DISC or the UA
(`Left`), the sender of an I frame that or its acknowledgement, unless its peer's DISC is under way
(`Moves`). And T200 runs for nothing else (`Timed`): `lapd_acknowledge` stops it with the last
acknowledgement and `lapd_send_i` starts it with a frame. So with nothing under way T200 is off, no poll is sent, and nothing
is refused with DM or REJ (`Plain`).

`LinkServes` (in `LinkServiceProofs`) rests on `LinkInv`. That a message is delivered whole, in order and once
is `Direction` again: the last segment that the peer expects completes the first of the messages that wait
(`HandsOver`), and what the sender does meanwhile changes `vs`, the buffer and the queue, but not what they
stand for (`OwnSends`, `OwnStays`). What is left are the ends of a link, where an entity that has released the
link, or has an error unanswered, may have its last segment under way. `Handed` says what layer 3 is then
told and what can still be taken: an established base station is sent no I frame any more by a mobile that
is not established, so what a mobile gives up is gone; whatever I frame of a base station that is not
established is under way continues what the mobile has received, so it may still be delivered, and as a
whole; the mobile's layer 3 takes the link to be up only if it is; and the base station's may do so wrongly,
having taken a SABM for an establishment while it released the link (`Sabm` in `DISC_SENT`), but then nothing
of it waits. Each step is a step of `LinkService`: the receipt of a last segment is `Deliver`, a request of layer 3 `Accept`,
and every other `Report`, which gives up a part of what waits at most, of an entity without a sound link (`Changed`).

In `MobileProofs` the invariant (`Sound`) must hold between two messages of a drain, when the layers do
not agree: `LayersAgree` speaks of empty queues only. It says of each reference what the layers keep of it
*and* what is queued about it. `Tie`, of a transaction and its connection: a transaction without one has a
release or an error queued for it, a connection has the identifier of its transaction, and whatever else
MM has queued is about a connection that is there and its present identifier. `Book`, of a transaction and
the call of the user, by what call control has queued for layer 4: a listed call has a transaction, or is
still being set up, or its end is queued; a transaction without a call is being cleared, or the message
that makes the call, or one that will be answered with a release, is queued. `Account`: a reference that was not given out is in none of the
layers and in no message, so that `mm_conn_new_ref` and `new_callref` make no second one.

`LayersAgree` has exceptions that are the code's. A call that is being initiated may be without transaction
(hung up before the network was reached), a transaction that is being set up or released without call, and a connection
without transaction (see above). And `RrMsgsNow` takes `t_rel_wait`, 1.5 s, to expire before a power scan has found
the next cell, as the code does.

What makes these inductive is the order in which `mobile_work` empties the queues, and the invariant has
the queue it is at as a parameter (`Inv(s, a)`). `Signals` says what radio resources can have to tell: one message is
read in a round, so after losses at most one thing that is none, and that last, on a channel that is there.
`Quiet` says that while it is told, call control has been told of nothing but ends. Without the two a call that
was lost could be confirmed by a message queued behind its end. `Link` relates MM and its connections to the
channel: without one, and in idle or waiting for the network, every connection is pending, which is
`ConnsHaveChannel`. The handlers of call control first make a transaction and then its connection or its
call, or the other way round; their lemmas are about `Core`, all but the books, and `BooksBut`, all books but
that of the call in hand. That a table of the code ignores a message in a state is a case of
its lemma like the others.

The assumption `~Leftover` cannot be dropped from the theorems of `CatcherSystem` that state it: a synchronisation result left in the phone by a killed client ends the
first measurement before anything was measured (455).

Only model-checked: `IdleMode` (its queues are drained by a recursive operator, which keeps it
from the prover); `InOrderOnce`, which is about T200 expiring early; and the liveness properties (`KeepsSweeping`, `HeardIsTuned`, `Answered`,
`EndsInTime`, `Settled`, `Cleared`, `PendingDecided`), as liveness under fairness and ENABLED are out of
the prover's reach.

## 5. What is left out

* Content of messages and of the log other than the above; wording; the NMEA
  parser of GPS (a move is a free choice at the place where the code asks).
* Durations. A pending timer may expire at once, so the model has more
  behaviours than the code; nothing here depends on `READ_WAIT` or `RACH_WAIT`.
* L1CTL messages of dedicated channels, SIM, traffic and neighbour measurement,
  which catcher never causes.
* A burst sent between its scheduling and the clearing of `last_rach`
  (`layer1/prim_rach.c:154`), for which it would have to be due within three
  frames.
* The link loses and reorders nothing: it is a Unix socket and a serial line with
  checksummed frames; a damaged frame is not modelled.
* Of PyCatcher: the firmware thread, the parser of catcher's output, the rule and
  the look-ups of the online databases, filters, projects, graph and views. A
  stored PCH result is evaluated at the next trigger, as in the code.
* Of the data link: suspension, resumption and reconnection (but for its state in `Radio`), UI frames,
  FRMR, frames malformed or too long, which this code does not send to itself; T203,
  RNR and the busy states, which `lapdm.c` never enters.
* Of the phone's calls: SMS and supplementary services, DTMF, the in-call modification
  the user may start, NOTIFY, FACILITY and USER INFORMATION, the external MNCC socket
  and voice; detach, SIM and authentication in `gsm48_mm.c`.
* Of the idle phone: manual selection of a network, detach, barred cells and those of low
  priority, preferred networks, pagings and calls from idle mode, the list of cells kept on disk. The counter of
  attempts to update, which the code never increments, and the state
  `PLMN_SEARCH_NORMAL`, which it never enters.
* Of radio resources: channel and frequency descriptions, which are reduced to whether
  the phone can use them; ciphering, classmark enquiries and mode changes, which answer at once;
  SAPI 3 and the messages held back during a modification; measurements.
* `osmocon` with several clients, and its download protocols.
* The rest of OsmocomBB: settings, SIM and the command line of
  `layer23/mobile`, its other programs (`layer23/misc` but for the two), libosmocore but
  for the data link, and firmware
  drivers, loader and user interface. Together they are nearly nine tenths
  of the lines of the repository. The detector neither runs nor links them, with
  the exception of drivers, DSP and library containers, which are represented by the
  choices of `Layer1` and by sequences. Modelling a large share of the repository
  would mean modelling OsmocomBB, not the detector.

## 6. Plan

1. *(done)* `SystemInfo`, `L1Link`, `Catcher`, `Layer1`, `CatcherSystem`, `Sweep`
   and their proofs.
2. *(done)* `Controller` and its first proofs.
3. *(done)* `PchScan` on `L1Link` and `Layer1`, with `PCHThread` and its retries.
4. *(done)* `Rules`, and `Stations` with evaluation and database.
5. *(done)* `Lapd` and `LinkService`.
6. *(done)* `MmConn`, `CallControl` and `Mobile`.
7. *(done)* `CellSelect`, `PlmnSelect`, `LocUpd` and `IdleMode`.
8. *(done)* `RadioRes` and `Radio`, and their proofs.
9. The idle phone and its calls as one (`IdleMode` with `Mobile` on `RadioRes`): pagings, calls
   while an update is under way.
10. `ScanParser`: the positional parser of the output of catcher; two
   clients on the same phone through the broadcast of `osmocon`.
11. *(done)* A drain of `Mobile` that is not recursive, and the proof of `LayersAgree`.
12. The same for `IdleMode`, and the proofs of its properties.
