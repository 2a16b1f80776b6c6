# Verification of SberWifi

SberWifi is an Android application that measures Wi-Fi networks. It scans access points,
rates channels, reports problems to a server, and runs throughput tests with a copy of
iperf3 (C, with a bidirectional mode added) that it calls through JNI. The same C code
also builds the `iperf3` program that plays the server. This directory holds TLA+ models
of the code, TLC configurations that check them, and TLAPS proofs.

## Inventory

The paths are below `src/app/src/main/`.

### iperf (`cpp/iperf/`)

* **Client** (`iperf_client_api.c`). State: `test->state`, the control socket, the list of
  streams, the timers. Operations: `iperf_connect`, `iperf_handle_message_client` (one case
  per state byte of the server), `iperf_create_streams`, the send/receive loop with the
  check "is the test done yet?", `iperf_client_end`. It runs as a program, where an error
  exits, or inside the app (`cpp/src/IperfTest.cpp`), where an error throws.
* **Server** (`iperf_server_api.c`, `main.c`). State: listener, control socket, cookie,
  parameters, streams, timers, `done`. Operations: `iperf_accept`, `protocol->accept`,
  `iperf_handle_message_server`, `server_timer_proc` (watchdog), `cleanup_server`; `run()`
  loops over `iperf_run_server` and `iperf_reset_test`. One test at a time; every other
  client gets `ACCESS_DENIED`.
* **Messages** (`iperf_api.c`): state bytes and length-prefixed JSON (parameters, results)
  share the control connection. `Nread` blocks, so a silent peer stops the process.
* **TCP and UDP streams** (`iperf_tcp.c`, `iperf_udp.c`, `net.c`): connect, listen, accept,
  send and receive; UDP counts lost and reordered packets and jitter.
* **Timers** (`timer.c`, `iperf_time.c`): one global sorted list, callbacks run from
  `tmr_run`.
* **Statistics and reports** (`iperf_api.c`): per-interval and per-test figures, omit period.
* **Options** (`iperf_api.c`, `units.c`): the command line, defaults, what a test leaves
  behind for the next one.

### App (`java/ru/sbrf/sberwifi/`)

* **Iperf screen** (`fragment/IperfFragment.kt`): a coroutine runs a download and an upload
  test through JNI, `reportCallback` collects the JSON, the pair is uploaded.
* **Wi-Fi scan** (`livemodel/*`): every fragment that shows scans has a view model of its own
  that hears all scans; a result is transformed in a coroutine on another thread and published
  to the fragment and to `MainContext.wiFiData`.
* **Background scan** (`livemodel/scheduler/*`): a repeating alarm whose service posts a scan.
* **Channel rating, bands, strength** (`wifi/*`): pure functions over scan results.
* **Vendor database** (`vendor/*`): loaded on first use.
* **Navigation** (`MainActivity.kt`, `FragmentStateHelper.kt`).

### What is hard here

The listener is shared by control connections and data streams of all clients. Handlers
block in the middle, processes die there, signals write into the control connection at any
point, and the server continues with the same `struct iperf_test` after every test. Ids of
streams are positions in two lists that are filled independently. Timers free streams whose
sockets the main loop still uses. `PROJECT.json` lists these hazards at their lines with the
properties that cover them.

## Modules

| module | models |
|---|---|
| `IperfControl` | clients, server and control connections of TCP tests |
| `TestService`, `IperfService` | the abstract service, and the mapping under which `IperfControl` implements it |
| `IperfOptions` | command line, parameters, what a test leaves for the next, `iperf_send` |
| `IperfTimer` | the timer list of `timer.c` and the timers of a test |
| `IperfUdp` | one UDP stream: traffic, omit period, interval records, exchanged results |
| `IperfUdpConnect` | how the streams of a UDP test are set up, and their socket buffers |
| `IperfReport` | the reports of a TCP test on both sides |
| `WifiScan` | scan results on their way to the screens, and the vendor database |
| `IperfScreen` | the iperf screen: pairs of tests, their reports and uploads |
| `..._proofs` | theorems about the module of that name; `IperfControl_proofs` also has those about `IperfService` |
| `MC...` | the instances TLC checks |

Definitions named `X_something` marked "Slip" are wrong variants of `X`, kept to show that
the properties notice them (`mutants` in `PROJECT.json`); no specification uses them.

The parts meet at few places. `IperfControl` is the frame in which streams exist:
`IperfUdpConnect` replaces its TCP streams and keeps of the control connection only whose test
it is; `IperfUdp` and `IperfReport` start where all streams are there, and agree with it on
the order of the end (`TEST_END`, `EXCHANGE_RESULTS`, `DISPLAY_RESULTS`); `IperfTimer` is the
mechanism behind its timers; `IperfOptions` produces the parameters that `IperfControl`
carries. `IperfScreen` starts native tests and sees of them their end only; the Wi-Fi side
reaches it through `MainContext.wiFiData` alone (`Publish`). A composition of `WifiScan` and
`IperfScreen` as one state machine was tried and is too large for TLC; since one variable is
all they share, `Publish` stands for what `WifiScan` can do to it: a scan other than the last is
published, be it newer or older, for the first time or again.

### IperfControl

A connection is `<<c, i>>`, client `c`'s control connection for `i = 0` and its `i`-th
stream otherwise. `up` and `down` hold what was written and not yet read, `cEnd` and `sEnd`
the two sockets, `backlog` the connections the server has not accepted. Clients and server
have a program counter with one value per place where the code can block (`Nread` of a
cookie, `JSON_read` of parameters or results, `select`), the fields of `struct iperf_test`
that steer the protocol, and `i_errno`. One action is what the code does between two such
places. Writes to a control connection are small and never block.

Data is abstracted: a cookie is its owner, parameters are the mode, the number of streams,
whether the test is limited by time or by bytes, and whether the listener has to be reopened
(nodelay, MSS, window); results are the set of stream ids they carry.

Failures are actions: a signal at any point (`iperf_got_sigend`), a process that dies
(`ClientCrash`), resets (`ClientReset`, `ServerReset`), refused connections, a stream connect
that fails, `protocol->listen` that fails, `netannounce` that fails when the listener is reopened
after the last stream (`ReopenError`), the watchdog. A short read is not an error of
`Nread`, so an ended connection can be accepted as a control connection with an empty cookie
(`iperf_accept_cookie`). In `iperf_tcp_accept` the same leaves the cookie buffer
uninitialized; the constant `StaleCookie` says whether that buffer may hold the cookie of the
previous call.

Left out: a listener that cannot be reopened between tests, the failing `netannounce` at start,
reads that return part of a message, the SCTP variant of accept and authentication (compiled
out); the one-off option is in `IperfOptions`, UDP streams in `IperfUdpConnect`, the traffic and
the omit period in `IperfUdp` and `IperfReport`. `iperf_client_end` is taken to succeed in
writing `IPERF_DONE`; when it fails the client leaves its control socket open, which is what
`ClientFails` already does in the app. `IperfTest.cpp:40-42` prints its message into an empty
`std::string` with `sprintf`, which is undefined; the model takes the throw that follows.

### TestService and IperfService

`TestService` says what the control protocol is for, without messages: a holder, a phase of its
test (setup, test, results, shown, over), who has been sent all results, and what each client
reports. `IperfService` maps the server's control connection, `test->state`, the bytes under way
and the clients' program counters to it. `ImplementsService` says that every step of
`IperfControl`, failures included, is one of the abstract steps or none.

### IperfOptions

The state is a process in `iperf_parse_arguments`: the arguments `getopt` has not returned, the
local flags, and `struct iperf_test` as a record (`role`, `mode`, `reverse`, `bidirectional`,
`protocol`, `sender_has_retransmits`, the options without a number, and a function `val` of all
numeric fields). Which argument comes next is open, so every order of a command line is checked.
Options that store a checked number are rows of the table `Ranged`; the rest have an action per
case. `unit_atoi` without digits reads an uninitialized variable: its result is any value of
`Garbage`. `-l` goes through `LowInt`, the cut of the 64 bit result to an int.

A command line with `-s` becomes the server. The others run tests against it, one after another:
`send_parameters` and `get_parameters` carry what is set, `EndTest` applies `iperf_reset_test`.
`EnterSend` to `LeaveSend` are the loop of `iperf_send` over the streams, with the limits of the
settings and full sockets; the counters themselves are abstracted to "the limit is reached".

### IperfUdpConnect

A client's `n`-th socket is `<<c, n>>`. `net` is the set of datagrams under way; `Arrive` may
leave a datagram in it, which is repetition, and nothing orders them. A datagram reaches the
server's socket that is connected to its sender, or else the listener. `iperf_udp_accept` takes
whichever sender is first in the listener's buffer; there is no cookie. The 30 seconds of
`SO_RCVTIMEO` are `ClientTimeout`. `SocketBuf` is the enlargement of a default buffer that cannot
hold a block, `Actual` what a Linux kernel makes of a size. `sLeft` are the peers of sockets that
`cleanup_server` leaves open after an error: what they send arrives there and not at the listener
of the next test. Left out: what the datagrams contain,
and the traffic (a `data` datagram is there because it may arrive in the next test).

### IperfReport

`res` has the counters of `struct iperf_stream_result` for every stream on both sides, `kern` the
kernel's retransmission counters, `out` what was printed: the sums of the interval lines of each
stream (`lines`) and direction (`sum`), and the summary. `iperf_stats_callback`,
`iperf_print_intermediate` and `iperf_print_results` are operators; the timers, the end of the
test on either side, the signal and the peer's end are actions that apply them. The statistics and
the reporter timer are two steps (`due` says that the second has to follow), and so are the sending
and the reading of results and the client's `DISPLAY_RESULTS`; `msg` is what is on the control
connection. A signal (`iperf_got_sigend`) may come between any two of these steps. `how` remembers
which way a side came to its last report ("late" is a client's signal after `TEST_END`), `cut` what
the signal found gathered and not printed. An interval is short or not, by choice.

Left out: a signal inside a callback, and inside `iperf_client_end` once the stream sockets are
closed; the watchdog; a control connection that breaks without a message, after which there are only
fewer reports; rates, times, RTT, congestion window, CPU load, the disk file and server output, and
everything about layout.

### WifiScan

Scans are numbers. `live` are the view models that are not cleared: a fragment in the back stack
keeps its own, and goes on publishing. `pending` are the transformations under way, one per scan
and view model, in no order. `job` and `at` are the coroutines that rate channels on the detail
screen and the other lookups; `load`, `fill` and `findVendorName` are the steps of `VendorDB`,
whose flag `loaded` is set first and is a plain field, so that a thread may see it unset while
another fills the maps. The maps are plain `TreeMap`s: once two jobs were in the loop over
incomplete maps side by side (`raced`), each that leaves it may leave them complete or not, since
the trees keep what the race made of them. A lookup beside a job in the loop may miss; a `missed`
one found the maps incomplete with nobody in the loop. The new view model of the detail screen has a
result at once unless `startScan` fails. What a race can make of a thread that is in the tree (an
exception, an endless loop) is left out. Bounds besides the constants: the detail
screen is opened once, and the navigation leaves once.

### IperfScreen

`pc[p]` is where the coroutine of the `p`-th pair is; the callback is two steps, since it runs on
the thread of the native test, reads `count` and increments it later. An upload is four steps:
started, `ssid` read, `bssid` and `uuid` read and posted, back on the main thread. `tags` is what
was posted. `published` is the history of `MainContext.wiFiData`: scans in any order, since an older
one may be published after a newer one. `upsets` is a history variable that names what went
against the order the screen relies on: a pair started while another is under way (`overlap`), a swipe back (`halt`), a pair
with one report (`half`), an upload that outlived the second test (`slow`), and leaving during a
test (`left`). The properties say exactly after which of these they may fail: removing any of
`half`, `overlap` and `slow` from `PairsTagged`, or `halt` or `left` from `TestsAlone`, makes TLC
find a counterexample (`half` in `TestsAlone` would need a third pair). A report that is posted
before the first scan ends the app (`crashed`), since `wiFiData` is `lateinit`. Left out:
concurrent changes inside the `ArrayList` of reports.

### IperfTimer

`h` is the heap: the heads `timers` and `free_timers` and the fields `next`, `prev`, `time`
and owner (callback and client data) of every `Timer`. `list_add`, `list_remove`,
`list_resort`, `tmr_create`, `tmr_reset` and `tmr_cancel` are functions from heap to heap.
`slot` holds the pointers that the test and its streams keep. `tmr_run` is not atomic: `cur`
and `saved` are its locals `t` and `next`, a callback is entered by `Fires`, and the timer
calls that the callback makes (`todo`) are steps of their own, so that the walk goes on with
a `next` fetched before them. `TestStart` and `TestEnd` are the creation and cancellation of
timers by either role; the next test reuses the structs on the free list. When the watchdog of a
server frees a stream whose send timer `tmr_run` has fetched, `tmr_run` calls it all the same; the
model stops there (`RunsFreed`), since what the callback does with a freed stream is undefined.

Left out: a `malloc` that fails, and `tmr_cleanup` and `tmr_destroy`, which the program never
calls. The clock is external; it runs only while the process waits, and may run past several
due times at once.

### IperfUdp

The two sides of one stream are `"snd"` and `"rcv"`; which of them is the client depends on
`config.reverse`. `sp`, `om`, `rp` and `intervals` are the counters of `struct iperf_stream`
and `struct iperf_stream_result` under their names in the code, `report` what
`iperf_print_results` prints, `net` the datagrams under way. The omit timer, the statistics
timer and the end of the test happen on each side at a moment of its own. `got` is a history
variable: what has arrived, which the code does not record. A datagram counts one byte.

Left out: jitter, rates, the sums over several streams, the datagrams that set up the
connection, and the printing of intervals (among it the suppression of very short ones).

## Runs

| run | bounds | shows |
|---|---|---|
| `control_safety` | 2 clients, up to 2 streams, all three modes | `StreamAgreement`, `SingleSession`, `PhaseAgreement`, `InSync`, `ResultsComplete`, `StreamsReleased` with every failure at every point, and `ImplementsService` |
| `control_live` | 2 clients, 1 stream, a duration | `ServerFreed`, `ClientFinishes` for clients that are processes of their own |
| `control_inapp` | the same, one client inside the app | *violated*: `ServerFreed` |
| `control_reversebytes` | the same, `-R -n` | *violated*: `ClientFinishes` |
| `options_lines` | a role and up to two options, values at and beyond each bound, any order; tests in sequence | `OrderIrrelevant`, `BlockUsable`, `SettingsAgree`, `EveryStreamSends` |
| `timer_test` | 1 stream, paced, either role, test after test | `WellLinked`, `SlotsScheduled`, `RunsScheduled`, `NoTimerLeft`, `TimerFires` |
| `udp_stream` | 3 packets, 1 duplicate, 1 interval before the last, both directions, with and without omit period | `LossExact`, `IntervalBytes`, `ReportedLoss` |
| `udp_connect` | 2 clients, 2 streams each, 2 datagrams in the listener | `UdpPairing`, `BufferHolds`, `SetupEnds` |
| `report_sums` | 1 or 2 streams, up to 2 blocks, 1 retransmission, up to 2 intervals before the last | `IntervalsAddUp`, `SummaryTruthful`, `RetransmitsTruthful`, `SumMarks` |
| `wifi_scan` | 3 scans, 3 jobs | `NewestShown`, `VendorsFound` |
| `screen_pairs` | 2 pairs of tests, 2 scans in either order | `PairsTagged`, `ScreenSettles`, `TestsAlone`, `UploadFresh` |
| `screen_stop` | the same | *violated*: `StopStops` |

Besides, every passing run but `wifi_scan` and `screen_pairs` checks its module's `TypeOK`
(`control_live` leaves it to `control_safety`). `LossNotOverstated`, what remains of `LossExact`
once a datagram was duplicated, has no run of its own: it is proved with it.

Bounds. In `control_safety` the two clients are one that is being served and one that
interferes; the server treats all interfering connections alike, and the proof of
`SingleSession` removes the bound. Two streams are needed for an order of streams to exist,
and one in each direction for the bidirectional mode; `MaxStreams` is also the number of
streams of a bidirectional test. Each client runs once, so a behaviour holds at most two
tests; the server's return to its initial state between them is what the second one tests.
`OptsWide` contains every mode, both limits and both values of `relisten`. The runs of
`IperfControl` do not check deadlock, since a system whose clients have all ended, or whose
server was stopped, has nothing left to do. In `timer_test` a role has five timers, more than
the distinct due times, so that ties, resets behind the walk and reuse of structs all happen;
`MaxTime` lies beyond the last one-shot timer, and the clock starts again with the next test.
In `udp_stream`, three packets (`MaxPackets`) are the least with a gap before and after a
late packet; with `MaxDuplicates` = 1 a duplicate can hit a packet that was late, lost
neighbours or not, and `MaxIntervals` = 1 puts one interval before, across or after the end
of the omit period, besides the record every test ends with. The proof of `LossAccounting`
removes all three bounds.
In `options_lines` two options besides the role are enough, because the checks of the code
relate at most two of them and the role (numbers that the code looks at by themselves are
paired with flags only); `-P 2` with a third option makes the tests whose
settings the next one may inherit. `MULTISEND` is 3 rather than 10: a first, a middle and a last
round. In `udp_connect` the second client's test follows the first's while datagrams of the
first are still under way, and `MaxQueued` = 2 lets a stray one stand before or behind the
right one. In `report_sums` the number of blocks, retransmissions and intervals is the least that
puts one of each before, across and after the end of the omit period (the bidirectional test with an
omit period has one block); each test has bounds of its own. In `wifi_scan` three scans let an old
result be overtaken twice, and of three jobs two can fill the maps side by side while the third
looks vendors up. In `screen_pairs` two pairs overlap or follow each other, and scans are
interchangeable (`SYMMETRY`), since the model only compares them; with `MaxPublished` = 2 the scan
changes once at any point, and the proof of `UploadFresh` removes the bound. These runs do not check
deadlock: a test that is over, a user who does nothing more and a server that waits for clients are
no error. Nor does `timer_test`, where `RunsFreed` is the end of what is defined.

Fairness. `IperfControl`: weak fairness of each client's steps, of the server's steps and of
the watchdog. The processes are scheduled by the operating system, `select` and `Nread`
return once there is something to read or the peer has closed, and a timer that is due fires;
nothing is assumed of users, signals, crashes, resets, or which connection is tried. In
particular a client may stop for good only by dying, which its kernel makes visible by
closing its sockets. `IperfTimer`: the clock goes on, and a process inside a function goes on
with it; neither the start nor the end of a test is assumed. `IperfUdpConnect`: both processes go
on, and the receive timeout expires; the network may lose everything.

## Proofs

Every component has a module of proofs. The proofs assume only the named assumptions of the
modules (`ControlAssumption`, `UdpAssumption`, `UdpConnectAssumption`, `OptionsAssumption` and
`NoTestAssumption`, `ReportAssumption`, `WifiScanAssumption`, `IperfScreenAssumption`,
`TimerAssumption`): types of constants, and that the values standing for "none" are not among the
others. The runs evaluate all of them. Two theorems, `StreamsAgree` and `OrderDoesNotMatter`, have a
hypothesis besides, named below, because without it the code does not have the property. Everything
is proved from nothing by SMT, Zenon and LS4. Each invariant below was checked with TLC on its component's
run before it was proved.

**`IperfControl_proofs`.**
* `TypeCorrect`. `TypeOK` alone is not inductive: several handlers write to the control
  connection `sCtrl`, which is only a connection while the server has one. `WaitsOnSocket` says
  at which places of its program the server has one; `TypeInv == TypeOK /\ WaitsOnSocket` is
  inductive. There is a lemma for each helper (what a send, a close, a dial or a cleanup does to
  the connections) and a step for each action.
* `OneTestAtATime` (`SingleSession`). A client could be told to go on by the server of an earlier
  test, so `SessionInv` also says that nothing is under way to a client whose connection the
  server holds without serving it (`NothingToOthers`), that between tests nobody can connect and
  the old control connection is shut (`ShutBetweenTests`), that a client that has not been started
  is in its first state and was sent nothing (`IdleClients`), and that every connection the server
  handles belongs to a client that has started (`KnownAreStarted`).
* `PhasesAgree`, `NobodyMisreads`, `SuccessHasResults`, `StreamsAreReleased`. Both sides follow a
  script: every place of the client's and of the server's program has a number of messages it has
  read and sent. `Conversation` says of every client that the queues of its control connection
  hold exactly the part of the script between what one side has sent and the other has read. From
  it the four properties follow by arithmetic on places. `Known`, `Fresh`, `StreamsCarryCookies`
  and `ServerStage` say which connections the server knows, what a connection nobody has accepted
  yet carries, and what the server's variables are in each stage.
* `ProtocolImplementsService`: the refinement. Every action of the protocol is, under the mapping
  of `IperfService`, one step of `TestService` or a stutter. It needs `PhaseInv` and
  `ServiceInv`: nobody waits for the server who has been served, except the client it serves.
* `StreamsAgree` (`StreamAgreement`), under the hypothesis `~StaleCookie`: with a stale cookie
  buffer `iperf_tcp_accept` can take another connection for a stream, and the property fails. The
  invariant `StreamInv` says that a client dials its streams in order, that its connections wait
  at the server in that order with their cookies (`InOrder`, `CookiesWait`), and that none the
  server still lacks is lost (`NoneLost`).

**`IperfUdp_proofs`.**
* `TypeCorrect`. The counters are natural numbers, which needs `NetSound` (what is under way or
  has arrived was sent, and before the first duplicate nothing that arrived is still under way)
  and `OmittedWasSent`.
* `LossAccounting` (`LossExact` and `LossNotOverstated`). Two lemmas about cardinality carry it: a
  packet beyond the highest one seen adds to `Missing` exactly the gap (`MissingForward`), and a
  late one removes at most one element, exactly one unless it is a duplicate (`MissingLate`).
* `ReportIsTheReceivers` (`ReportedLoss`), for both directions, with and without an omit period. A
  client that sends sets its own `omitted_` counters against the losses the receiver counted, and
  reports too many by exactly those of the receiver's omit period, because a sender never counts a
  loss (`SenderCountsNoLoss`). The invariant besides is the order in which the two sides leave the
  test (`EndLadder`) and what each has printed by then.
* `IntervalsAddUp` (`IntervalBytes`): the intervals a side has recorded and the one under way add
  up to what it counted. `KeptBytes` adds up a sequence by recursion; that it does so, and what
  another interval adds (`KeptAppend`), is proved from the existence and uniqueness of its partial
  sums, by induction stated for a set of numbers instead of a predicate (`SetInduction`).

**`IperfUdpConnect_proofs`.** `UdpConnectTyped`, `StreamsArePaired` (`UdpPairing`) and
`BuffersHoldABlock` (`BufferHolds`). `PairInv` says for the client of the test that either all
streams of the server are with its streams, in order, or a stray datagram has taken a place and
the client can never get all its answers (`InTurn`); that answers come from streams of this test
(`Answered`), and that nobody waits at the listener who is already a peer (`QueueNew`).
`BufferInv` adds what size each side asks for.

**`IperfOptions_proofs`.** `OptionsTyped`, `BlockIsUsable`, `SidesAgree` (`SettingsAgree`) and
`NoStreamStarves` (`EveryStreamSends`), for all command lines in all orders. `SettingsInv` follows
a setting through its life: what the parser has left open while it runs (`Directed`, `ClientOnly`,
`Bursts`, `Roles`, `BlockChosen`), what a server that waits looks like (`ServerReady`: all that
`send_parameters` may leave out is back at its default, or it is a sticky limit and the server is
not fresh), and then `BlockUsable` and `SettingsAgree` themselves. `Rounds` is the loop invariant
of `iperf_send`.

`OrderDoesNotMatter` (`OrderIrrelevant`) is under the hypothesis `OrdinaryLines`: no line gives an
option twice, since then the last one counts, and lengths in K and M fit the int of `blksize`, since
`-l 4096M` is 0 there and accepted. The instance of `options_lines` satisfies it. While a line is
read, `OrderInv` says which settings are determined by the set of arguments read so far, whatever
their order: role, direction, protocol and flags tell which options there were (`OptionsTold`), the
numbers are those that were given or the defaults (`NumbersTold`), `sender_has_retransmits` follows
from role, direction and protocol (`RetransmitsTold`), and no argument read is one that is refused
by itself. At the end the checks behind the loop, in their order, are compared with the parts of
`RefusedLine` one by one (`RolesChecked`, `LengthsChecked`, `EndsChecked`).

**`IperfReport_proofs`.** `ReportTyped`, `IntervalsAdd`, `SummaryIsTrue`, `RetransmitsAreTrue` and
`SumsAreMarked`, for any number of streams, intervals, blocks and retransmissions, and signals
between any two steps. The invariant
`SideOK` of a side is about the values its variables have, so that a step of one side leaves the
other's alone (`SideStep`): the lines printed plus the interval that is not printed yet are what
the side has counted (`Lines`), the sum lines are the sums of the lines (`SumLines`), the summary
is the side's own count (`OwnReport`). Two conjuncts tie the sides together: the results under way
are the server's (`ResultsSent`), and the client's report has what both counted (`BothReported`),
which stays true since the server does not move any more. The sums are `SumFunctionOnSet` of the
community modules; what they do is proved by induction over the subsets of a finite set, stated
for a set of subsets instead of a predicate (`SubsetsInduction`), on top of `SumsUp`.

**`WifiScan_proofs`.** `ScanTyped`, `NewestIsShown` and `VendorsAreFound`. `ScanInv` says that with
one scan in work at a time whatever does not show it yet will be told of it by what is in work
(`Newest`), which view models exist on which screen (`Screens`), and that a vendor map that is
not full yet has somebody filling it, as long as no two jobs filled them side by side (`Vendors`).

**`IperfScreen_proofs`.** `PairsAreTagged`, `UploadsAreFresh`, `TestsAreAlone` and
`ScreenComesToRest`. `ScreenInv` says, for as long as none of the upsets the properties name has
happened, that one pair is going on (`Alone`, `OnePair`), what the report counter and the uuid are
then (`Counted`, `Uuids`), and that uploads come after their tests (`Ladder`, `Tags`, `Fresh`). What
was published stays in its order (`OrderStays`), and what an upload reads is the last of it
(`LatestIsLast`).

**`IperfTimer_proofs`.** `TimersTyped`, `ListsStayLinked` (`WellLinked`), `SlotsStayScheduled`
(`SlotsScheduled`), `OnlyScheduledRun` (`RunsScheduled`) and `NothingLeft` (`NoTimerLeft`), for any
streams, durations, intervals and pacing on either side. The watchdog may cancel the timer that
`tmr_run` goes on with; the invariant says of what `tmr_run` holds that it is scheduled or that it is
the send timer of a stream the watchdog has freed (`Running`), and nothing is claimed beyond the call
of such a timer.
* A list is a path `p` of `k` timers along `next` that ends with `NULL` and meets no timer twice
  (`Path`); what `Walk` finds is such a path (`WalkPath`, by `SetInduction`). `Lists(g, A, F)` says
  that a heap has the timers `A` scheduled, in order of their times and with the right `prev`, and
  `F` free. A lemma for each function of `timer.c` says what it does to `A` and `F`
  (`RemoveLists`, `AddLists`, `ResortLists`, `CancelLists`, `CreateLists`), by giving the path it
  leaves behind.
* The test sees the lists as sets only. `IInv` adds to `SlotsScheduled` its converse, but for the
  timer of a callback that has cleared its slot (`Owned`); what `tmr_run` holds
  and that the saved timer is not the one that runs (`Running`); what the calls still to be made
  are (`Pending`): each vacant slot at most once at the start, in a callback cancellations by the
  watchdog only, every set slot at the end; and who may have a timer (`Justified`). That `tmr_create`
  finds a struct (`StructLeft`) is a count: the scheduled timers are those of other slots.

Only model-checked:
* liveness (`ServerFreed`, `ClientFinishes`, `TimerFires`, `SetupEnds`) and the violated
  properties of `control_inapp`, `control_reversebytes` and `screen_stop`; liveness under fairness
  is out of the prover's reach.

Every invariant that a passing run checks is proved.

## Disagreements between code and its comments

Shown by a run, and quoted with their lines in `PROJECT.json` under `findings`:

* A client that fails inside the app leaves its sockets open, so a server that waits for its
  streams waits for ever (`control_inapp`).
* A reverse test limited by bytes or blocks never ends (`control_reversebytes`).
* The button that reads "stop the iperf test" only changes the view (`screen_stop`).

Met while modelling; the models contain them, and the constants named here show them:

* `cleanup_server` says "Close open test sockets" and does not close those of streams: a test
  that ends other than through `TEST_END`, `CLIENT_TERMINATE` or the watchdog leaves one
  descriptor per stream open.
* `iperf_tcp_accept` compares an uninitialized buffer after an empty read and can take such a
  connection for a stream (`StaleCookie = TRUE` breaks `StreamAgreement`).
* `tmr_run` can call a timer that its previous callback cancelled, when the watchdog of a server
  that sends at a limited rate frees its streams. `timer_test` contains it (`RunsFreed`), and
  `RunsScheduled` says that there is no other such case.
* `iperf_reset_stats` says "Reset all of a test's stats back to zero" (`iperf_api.c:2570`). A client
  that sends UDP with an omit period nevertheless reports the losses of that period, as it takes its
  own omitted counters, not the receiver's, from what it got: `ReportedLoss` says by how much the
  report is off. The first interval after the omit period contains packets and losses of it.
* A client or server that is interrupted gathers once more: an interval that was gathered and not yet
  printed is in the summary and in no interval line (`IntervalsAddUp` says which). A signal that comes
  to the client after it has read the server's results adds the retransmissions of its own receiving
  sockets to those it reports (`RetransmitsTruthful`).
* After `CLIENT_TERMINATE` or `SERVER_TERMINATE` a side prints the last interval a second time. If it
  was gathered in the omit period and that has ended since, the stream lines are marked as omitted and
  the sum of receiving streams is not (`SumMarks`), which is what the comment "XXX irp->omitted or
  test->omitting?" (`iperf_api.c:2856`) asks.
* `iperf_udp_accept` takes any sender for the peer; `UdpPairing` holds because a client short of
  an answer gives up.
* `iperf_reset_test` leaves `bytes`, `blocks`, `pacing_timer` and some flags; a server's rounds in
  `iperf_send` may end early because of an earlier client (`SettingsAgree` names the fields,
  `EveryStreamSends` holds nevertheless). `--pacing-timer 0` is not sent at all, and
  `--udp-counters-64bit` of a server holds for its first test only.
* `-P` has no lower bound; with a negative number the server waits for streams that never come.
* `unit_atoi` and its relatives return an uninitialized value for an argument without digits.
* Retransmissions of a short interval without bytes are missing from the interval lines, not
  from the summary.
* `VendorDB.load` fills plain `TreeMap`s without a lock; two threads that do so side by side can lose
  vendors for the life of the process (`VendorsFound` promises nothing after that).
* The `ssid` and the `bssid` of an uploaded report may be of different scans, the `bssid` of the older
  one, and the second report of a pair may show an older scan than the first, since older scans are
  published after newer ones (`UploadFresh` bounds this by the order of publication).
* The result screen shows the first two reports of a fragment, so after the second pair it still
  shows the first (`reports` is never cleared).
* `unregisterReceiver` is given a variable that is never set; since the view model observes for
  ever, it is never called.

## Not modelled

* SCTP and authentication are compiled out; `cjson.c` is a third-party library, and messages are
  atomic values here.
* `unit_snprintf`, `iperf_error.c`, `iperf_locale.c` and the printing functions are wording and
  layout. Jitter and rates are floating point.
* `iperf_util.c` and the socket options of `net.c` are wrappers of system calls without state of
  their own.
* The background scan posts one scan per alarm and keeps nothing. `startServer` of the JNI layer
  is never called.
* The arithmetic of `ChannelRating`, `WiFiChannels`, `Strength` and `WiFiSignal`, the form of the
  report screen, the lists and the saved view state are data and layout.

## Plan

1. `ChannelRating`, `WiFiChannels` and `Strength` as pure functions against reference definitions.
