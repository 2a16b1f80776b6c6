---------------------------- MODULE IperfReport ----------------------------
(***************************************************************************)
(* The reports of a TCP test: what iperf_stats_callback collects at the    *)
(* end of an interval, which intervals iperf_print_intermediate prints,    *)
(* how send_results and get_results carry a side's counters to the other   *)
(* side, and what iperf_print_results says of every stream and of every    *)
(* direction (iperf_api.c).  The counters of UDP streams are IperfUdp's.   *)
(*                                                                         *)
(* Both sides of one test are modelled.  Stream n is the n-th of both      *)
(* sides; bytes are counted in blocks.  TRUE and FALSE stand for the two   *)
(* directions of a side, as stream_must_be_sender does in the code.  The   *)
(* wording and the times of a report are left out.                         *)
(***************************************************************************)
EXTENDS Integers, FiniteSets, Sequences, Functions

CONSTANTS
    Tests,       \* mode of the client, num_streams, omit and -J of a test and,
                 \* as bounds, the runs of its stats timers and the blocks sent
    MaxRetrans,  \* bound: retransmissions the kernels count
    None         \* no interval, no results, a value that is not printed

Sides == {"c", "s"}
Peer(x) == IF x = "c" THEN "s" ELSE "c"
Modes == {"SENDER", "RECEIVER", "BIDIRECTIONAL"}

\* struct iperf_interval_results.
Interval == [bytes : Nat, retrans : Nat, omitted : BOOLEAN, short : BOOLEAN]

ASSUME ReportAssumption ==
    /\ Tests \subseteq [mode : Modes, num : Nat \ {0}, omit : BOOLEAN,
                       json : [Sides -> BOOLEAN], ticks : Nat, blocks : Nat]
    /\ MaxRetrans \in Nat
    /\ None \notin Interval \cup Int

VARIABLES
    opt,    \* the test
    test,   \* state, omitting, sender_has_retransmits, other_side_has_retransmits;
            \* due: the stats timer has run, the reporter timer behind it not yet
    res,    \* struct iperf_stream_result of every stream
    kern,   \* tcpi_total_retrans of every socket
    msg,    \* the messages on the control connection to a side, in order
    ticks,  \* runs of both sides' stats timers so far
    out     \* what has been printed, and what the properties remember

vars == <<opt, test, res, kern, msg, ticks, out>>

Bidirectional == opt.mode = "BIDIRECTIONAL"

Streams == 1..(IF Bidirectional THEN 2 * opt.num ELSE opt.num)

\* sp->sender on side x: the first num_streams of a bidirectional test go from
\* the client to the server.
IsSender(x, n) == (x = "c") <=> (opt.mode = "SENDER" \/ (Bidirectional /\ n <= opt.num))

\* lower_mode to upper_mode, each squared.
Directions(x) == IF Bidirectional THEN BOOLEAN ELSE {IsSender(x, 1)}

StreamsOf(x, d) == {n \in Streams : IsSender(x, n) = d}

-----------------------------------------------------------------------------
(* Gathering. *)

\* Slip: retransmissions from before the end of the omit period count.
iperf_reset_stats_retrans(x) ==
    [n \in Streams |->
        [res[x][n] EXCEPT !.omit = res[x][n].sent, !.recv = 0, !.now = 0, !.retrans = 0]]

\* iperf_reset_stats.
iperf_reset_stats(x) ==
    [n \in Streams |->
        [res[x][n] EXCEPT !.omit = res[x][n].sent, !.recv = 0, !.now = 0, !.retrans = 0,
                          !.prev = IF test[x].has = 1 THEN kern[x][n] ELSE @]]

\* Slip: the difference the wrong way round.
iperf_stats_callback_neg(x, short) ==
    [n \in Streams |->
        LET r == res[x][n]
            has == test[x].has = 1
            retrans == IF has THEN r.prev - kern[x][n] ELSE 0
        IN  [r EXCEPT !.now = 0,
                      !.retrans = @ + retrans,
                      !.prev = IF has THEN kern[x][n] ELSE @,
                      !.last = [bytes |-> r.now, retrans |-> retrans,
                                omitted |-> test[x].omitting, short |-> short]]]

\* Slip: temp.omitted is not assigned.
iperf_stats_callback_unmarked(x, short) ==
    [n \in Streams |->
        LET r == res[x][n]
            has == test[x].has = 1
            retrans == IF has THEN kern[x][n] - r.prev ELSE 0
        IN  [r EXCEPT !.now = 0,
                      !.retrans = @ + retrans,
                      !.prev = IF has THEN kern[x][n] ELSE @,
                      !.last = [bytes |-> r.now, retrans |-> retrans,
                                omitted |-> FALSE, short |-> short]]]

\* iperf_stats_callback: the interval that ends is short or not.  Without
\* retransmission counters interval_retrans is never assigned and never read.
iperf_stats_callback(x, short) ==
    [n \in Streams |->
        LET r == res[x][n]
            has == test[x].has = 1
            retrans == IF has THEN kern[x][n] - r.prev ELSE 0
        IN  [r EXCEPT !.now = 0,
                      !.retrans = @ + retrans,
                      !.prev = IF has THEN kern[x][n] ELSE @,
                      !.last = [bytes |-> r.now, retrans |-> retrans,
                                omitted |-> test[x].omitting, short |-> short]]]

-----------------------------------------------------------------------------
(* Printing: each operator takes the results and the state it prints and    *)
(* gives the new output of side x.                                          *)

\* Slip: bytes alone do not keep a short interval.
IntervalOk_longOnly(x, r) == \E n \in Streams : r[n].last # None /\ ~r[n].last.short

\* interval_ok: some stream moved data or the interval has a tenth of its length.
IntervalOk(x, r) ==
    \E n \in Streams : r[n].last # None /\ (~r[n].last.short \/ r[n].last.bytes > 0)

PrintsSum(x) == opt.num > 1 \/ opt.json[x]

\* The omitted mark of the sum line: that of the first stream's interval if the
\* line has retransmissions, else test->omitting.
SumOmits(x, t, r, d) == IF t.has = 1 /\ d THEN r[1].last.omitted ELSE t.omitting

\* print_interval_results of one stream, added to what was printed before.
print_interval_results(x, t, r, o, n) ==
    IF r[n].last.omitted THEN o.lines[n]
    ELSE [bytes |-> o.lines[n].bytes + r[n].last.bytes,
          retrans |-> o.lines[n].retrans
                        + IF t.has = 1 /\ IsSender(x, n) THEN r[n].last.retrans ELSE 0]

\* iperf_print_intermediate.
iperf_print_intermediate(x, t, r, o) ==
    IF ~IntervalOk(x, r) THEN o
    ELSE [o EXCEPT
            !.lines = [n \in Streams |-> print_interval_results(x, t, r, o, n)],
            !.sum = [d \in BOOLEAN |->
                IF d \in Directions(x) /\ PrintsSum(x) /\ ~SumOmits(x, t, r, d)
                THEN @[d] + SumFunctionOnSet([n \in Streams |-> r[n].last.bytes], StreamsOf(x, d))
                ELSE @[d]],
            !.marks = @ /\ \A d \in Directions(x) : \A n \in StreamsOf(x, d) :
                               PrintsSum(x) => SumOmits(x, t, r, d) = r[n].last.omitted]

\* sender_has_retransmits while direction d of a report is printed.
HasRetransmits(t, d) == IF ~Bidirectional \/ d THEN t.has # 0 ELSE t.other # 0

\* In a text report the server leaves out what only the client knows.
Available(x, own) == opt.json[x] \/ x = "c" \/ own

\* Slip: a receiving stream is reported with this side's flag.
StreamSummary_ownFlag(x, t, r, n) ==
    LET d == IsSender(x, n)
    IN  [sent |-> IF Available(x, d) THEN r[n].sent - r[n].omit ELSE None,
         recv |-> IF Available(x, ~d) THEN r[n].recv ELSE None,
         retrans |-> IF t.has # 0 /\ Available(x, d) THEN r[n].retrans ELSE None]

\* Sender and receiver summary of one stream.
StreamSummary(x, t, r, n) ==
    LET d == IsSender(x, n)
    IN  [sent |-> IF Available(x, d) THEN r[n].sent - r[n].omit ELSE None,
         recv |-> IF Available(x, ~d) THEN r[n].recv ELSE None,
         retrans |-> IF HasRetransmits(t, d) /\ Available(x, d) THEN r[n].retrans ELSE None]

\* Sender and receiver sum of one direction.
SumSummary(x, t, r, d) ==
    IF d \notin Directions(x) \/ ~PrintsSum(x) THEN None
    ELSE [sent |-> IF ~Available(x, d) THEN None
                   ELSE SumFunctionOnSet([n \in Streams |-> r[n].sent - r[n].omit], StreamsOf(x, d)),
          recv |-> IF ~Available(x, ~d) THEN None
                   ELSE SumFunctionOnSet([n \in Streams |-> r[n].recv], StreamsOf(x, d)),
          retrans |-> IF ~(HasRetransmits(t, d) /\ Available(x, d)) THEN None
                      ELSE SumFunctionOnSet([n \in Streams |-> r[n].retrans], StreamsOf(x, d))]

\* iperf_print_results; sender_has_retransmits is put back at its end.
iperf_print_results(x, t, r, o) ==
    [o EXCEPT !.summary = [n \in Streams |-> StreamSummary(x, t, r, n)],
              !.total = [d \in BOOLEAN |-> SumSummary(x, t, r, d)]]

\* iperf_reporter_callback; a state other than these prints nothing.
iperf_reporter_callback(x, t, r, o) ==
    CASE t.state = "TEST_RUNNING" -> iperf_print_intermediate(x, t, r, o)
      [] t.state \in {"TEST_END", "DISPLAY_RESULTS"} ->
             iperf_print_results(x, t, r, iperf_print_intermediate(x, t, r, o))
      [] OTHER -> o

-----------------------------------------------------------------------------
(* The test. *)

\* The test of this side runs and none of its timers is in the middle of
\* something: stats and reporter timer are due at the same time, always, and
\* tmr_run calls one after the other.
Running(x) == test[x].state = "TEST_RUNNING" /\ ~test[x].due

BlocksSent ==
    SumFunction([n \in Streams |-> res[IF IsSender("c", n) THEN "c" ELSE "s"][n].sent])

\* iperf_tcp_send and the counting in iperf_send.
Send(x, n) ==
    /\ Running(x) /\ n \in StreamsOf(x, TRUE)
    /\ BlocksSent < opt.blocks
    /\ res' = [res EXCEPT ![x][n].sent = @ + 1, ![x][n].now = @ + 1]
    /\ UNCHANGED <<opt, test, kern, msg, ticks, out>>

\* What this side has read from the socket; recv starts again when it omits.
Read(x, n) == out[x].read[n]

\* iperf_tcp_recv: counted while the test runs only.
Receive(x, n) ==
    /\ Running(x) /\ n \in StreamsOf(x, FALSE)
    /\ Read(x, n) < res[Peer(x)][n].sent
    /\ res' = [res EXCEPT ![x][n].recv = @ + 1, ![x][n].now = @ + 1]
    /\ out' = [out EXCEPT ![x].read[n] = @ + 1]
    /\ UNCHANGED <<opt, test, kern, msg, ticks>>

\* The kernel sends a segment of the socket again.  A side that only receives
\* never looks at the counter before it has the sender's results.
Retransmit(x, n) ==
    /\ test[x].has = 1 /\ n \in Streams
    /\ test[x].state = "TEST_RUNNING"
         \/ (x = "c" /\ test[x].state \notin {"IPERF_DONE", "EXIT"})
    /\ SumFunction([y \in Sides |-> SumFunction(kern[y])]) < MaxRetrans
    /\ kern' = [kern EXCEPT ![x][n] = @ + 1]
    /\ UNCHANGED <<opt, test, res, msg, ticks, out>>

\* client_stats_timer_proc, server_stats_timer_proc.  A late tmr_run makes the
\* next interval short.
stats_timer_proc(x) ==
    /\ Running(x) /\ ticks < opt.ticks
    /\ ticks' = ticks + 1
    /\ \E short \in BOOLEAN : res' = [res EXCEPT ![x] = iperf_stats_callback(x, short)]
    /\ test' = [test EXCEPT ![x].due = TRUE]
    /\ UNCHANGED <<opt, kern, msg, out>>

\* client_reporter_timer_proc, server_reporter_timer_proc.
reporter_timer_proc(x) ==
    /\ test[x].state = "TEST_RUNNING" /\ test[x].due
    /\ out' = [out EXCEPT ![x] = iperf_reporter_callback(x, test[x], res[x], @)]
    /\ test' = [test EXCEPT ![x].due = FALSE]
    /\ UNCHANGED <<opt, res, kern, msg, ticks>>

\* client_omit_timer_proc, server_omit_timer_proc.  The server still runs it
\* when it has reported and waits for the client to finish.
omit_timer_proc(x) ==
    /\ Running(x) \/ (x = "s" /\ test[x].state = "DISPLAY_RESULTS")
    /\ test[x].omitting
    /\ test' = [test EXCEPT ![x].omitting = FALSE]
    /\ res' = [res EXCEPT ![x] = iperf_reset_stats(x)]
    /\ out' = [out EXCEPT ![x].base = IF Running(x) THEN kern[x] ELSE @]
    /\ UNCHANGED <<opt, kern, msg, ticks>>

-----------------------------------------------------------------------------
(* The end of the test. *)

\* send_results.
send_results(x) ==
    [has |-> IF Directions(x) = {FALSE} THEN -1 ELSE test[x].has,
     streams |-> [n \in Streams |->
        [bytes |-> IF IsSender(x, n) THEN res[x][n].sent - res[x][n].omit ELSE res[x][n].recv,
         retrans |-> IF IsSender(x, n) /\ test[x].has # 0 THEN res[x][n].retrans ELSE -1]]]

\* get_results: the flags, then the streams.
GetFlags(x, m) ==
    [test[x] EXCEPT
        !.has = IF Directions(x) = {FALSE} THEN m.has ELSE @,
        !.other = IF Directions(x) = {FALSE} THEN 0 ELSE IF Bidirectional THEN m.has ELSE @]

\* Slip: the bytes of a receiving stream overwrite what this side received.
GetStreams_swapped(x, m) ==
    [n \in Streams |->
        IF IsSender(x, n) THEN [res[x][n] EXCEPT !.recv = m.streams[n].bytes]
        ELSE [res[x][n] EXCEPT !.recv = m.streams[n].bytes,
                               !.retrans = m.streams[n].retrans]]

GetStreams(x, m) ==
    [n \in Streams |->
        IF IsSender(x, n) THEN [res[x][n] EXCEPT !.recv = m.streams[n].bytes]
        ELSE [res[x][n] EXCEPT !.sent = m.streams[n].bytes,
                               !.retrans = m.streams[n].retrans]]

Control(k) == [kind |-> k, results |-> None]
Carrying(m) == [kind |-> "RESULTS", results |-> m]

\* The first message to side x is of kind k.
Reads(x, k) == msg[x] # <<>> /\ Head(msg[x]).kind = k

\* Side x takes the first message to it and sends ms.
Answers(x, ms) == msg' = [msg EXCEPT ![x] = Tail(@), ![Peer(x)] = @ \o ms]

\* The report at the end of side x, in state t and with results r.
LastReport(x, t, r, how) ==
    [iperf_reporter_callback(x, t, r, out[x]) EXCEPT !.how = how, !.omits = t.omitting]

\* iperf_run_client: the end condition holds; the last interval is gathered.
ClientTestEnd ==
    /\ Running("c") /\ ~test["c"].omitting
    /\ \E short \in BOOLEAN :
           LET r == iperf_stats_callback("c", short)
           IN  /\ res' = [res EXCEPT !["c"] = r]
               /\ out' = [out EXCEPT !["c"].counted = r]
    /\ test' = [test EXCEPT !["c"].state = "TEST_END"]
    /\ msg' = [msg EXCEPT !["s"] = Append(@, Control("TEST_END"))]
    /\ UNCHANGED <<opt, kern, ticks>>

\* iperf_handle_message_server, TEST_END: the server reports before it knows
\* the client's results, and asks for them.
ServerTestEnd ==
    LET t == [test["s"] EXCEPT !.state = "TEST_END"]
    IN  /\ Running("s") /\ Reads("s", "TEST_END")
        /\ \E short \in BOOLEAN :
               LET r == iperf_stats_callback("s", short)
               IN  /\ res' = [res EXCEPT !["s"] = r]
                   /\ out' = [out EXCEPT
                         !["s"] = [LastReport("s", t, r, "regular") EXCEPT !.counted = r]]
        /\ test' = [test EXCEPT !["s"].state = "EXCHANGE_RESULTS"]
        /\ Answers("s", <<Control("EXCHANGE_RESULTS")>>)
        /\ UNCHANGED <<opt, kern, ticks>>

\* The client's half of iperf_exchange_results: it sends ...
ClientExchange ==
    /\ test["c"].state = "TEST_END" /\ Reads("c", "EXCHANGE_RESULTS")
    /\ test' = [test EXCEPT !["c"].state = "EXCHANGE_RESULTS"]
    /\ Answers("c", <<Carrying(send_results("c"))>>)
    /\ UNCHANGED <<opt, res, kern, ticks, out>>

\* ... and reads.  The state is EXCHANGE_RESULTS until the next message; here
\* it has the name RESULTS_READ.
ClientResults ==
    /\ test["c"].state = "EXCHANGE_RESULTS" /\ Reads("c", "RESULTS")
    /\ res' = [res EXCEPT !["c"] = GetStreams("c", Head(msg["c"]).results)]
    /\ test' = [test EXCEPT !["c"] = [GetFlags("c", Head(msg["c"]).results)
                                         EXCEPT !.state = "RESULTS_READ"]]
    /\ Answers("c", <<>>)
    /\ UNCHANGED <<opt, kern, ticks, out>>

\* The server's half: it reads, then sends; DISPLAY_RESULTS follows at once.
ServerExchange ==
    /\ test["s"].state = "EXCHANGE_RESULTS" /\ Reads("s", "RESULTS")
    /\ res' = [res EXCEPT !["s"] = GetStreams("s", Head(msg["s"]).results)]
    /\ test' = [test EXCEPT !["s"] = [GetFlags("s", Head(msg["s"]).results)
                                         EXCEPT !.state = "DISPLAY_RESULTS"]]
    /\ Answers("s", <<Carrying(send_results("s")), Control("DISPLAY_RESULTS")>>)
    /\ UNCHANGED <<opt, kern, ticks, out>>

\* JSON_read finds one byte, CLIENT_TERMINATE or SERVER_TERMINATE, and the end
\* of the connection: the exchange fails and with it the test.
ExchangeFails(x) ==
    /\ test[x].state = "EXCHANGE_RESULTS" /\ Reads(x, "TERMINATE")
    /\ test' = [test EXCEPT ![x].state = "EXIT"]
    /\ Answers(x, <<>>)
    /\ UNCHANGED <<opt, res, kern, ticks, out>>

\* The client reads DISPLAY_RESULTS ...
ClientDisplay ==
    /\ test["c"].state = "RESULTS_READ" /\ Reads("c", "DISPLAY_RESULTS")
    /\ test' = [test EXCEPT !["c"].state = "DISPLAY_RESULTS"]
    /\ Answers("c", <<>>)
    /\ UNCHANGED <<opt, res, kern, ticks, out>>

\* ... and reports.
iperf_client_end ==
    /\ test["c"].state = "DISPLAY_RESULTS"
    /\ out' = [out EXCEPT !["c"] = LastReport("c", test["c"], res["c"], "regular")]
    /\ test' = [test EXCEPT !["c"].state = "IPERF_DONE"]
    /\ UNCHANGED <<opt, res, kern, msg, ticks>>

Exits(x) ==
    /\ test' = [test EXCEPT ![x].state = "EXIT"]
    /\ msg' = [msg EXCEPT ![Peer(x)] = Append(@, Control("TERMINATE"))]
    /\ UNCHANGED <<opt, kern, ticks>>

\* iperf_got_sigend of a client, or of a server whose test runs: one more
\* interval, the report, and the other side is told.  The handler jumps out of
\* whatever was under way; what was gathered and not yet printed is cut off.
iperf_got_sigend(x) ==
    /\ test[x].state = "TEST_RUNNING" \/ (x = "c" /\ test[x].state \notin {"IPERF_DONE", "EXIT"})
    /\ \E short \in BOOLEAN :
           LET r == iperf_stats_callback(x, short)
               t == [test[x] EXCEPT !.state = "DISPLAY_RESULTS"]
               how == IF test[x].state = "TEST_RUNNING" THEN "signal" ELSE "late"
           IN  /\ res' = [res EXCEPT ![x] = r]
               /\ out' = [out EXCEPT
                     ![x] = [LastReport(x, t, r, how) EXCEPT
                                !.counted = r,
                                !.cut = IF Running(x) THEN @
                                        ELSE [n \in Streams |-> res[x][n].last.bytes]]]
    /\ Exits(x)

\* iperf_got_sigend of a server that has reported.
ServerInterrupted ==
    /\ test["s"].state \in {"EXCHANGE_RESULTS", "DISPLAY_RESULTS"}
    /\ Exits("s")
    /\ UNCHANGED <<res, out>>

\* CLIENT_TERMINATE, SERVER_TERMINATE: a report of what was gathered last.
PeerTerminated(x) ==
    LET t == [test[x] EXCEPT !.state = "DISPLAY_RESULTS"]
    IN  /\ \/ Running(x)
           \/ test[x].state = IF x = "c" THEN "TEST_END" ELSE "DISPLAY_RESULTS"
        /\ Reads(x, "TERMINATE")
        /\ out' = [out EXCEPT ![x] = LastReport(x, t, res[x], "peer")]
        /\ test' = [test EXCEPT ![x].state = IF x = "c" THEN "EXIT" ELSE "IPERF_DONE"]
        /\ Answers(x, <<>>)
        /\ UNCHANGED <<opt, res, kern, ticks>>

-----------------------------------------------------------------------------
NewResult == [sent |-> 0, omit |-> 0, recv |-> 0, now |-> 0, prev |-> 0, retrans |-> 0,
              last |-> None]

Init ==
    /\ opt \in Tests
    /\ test = [x \in Sides |-> [state |-> "TEST_RUNNING", due |-> FALSE, omitting |-> opt.omit,
                                has |-> IF TRUE \in Directions(x) THEN 1 ELSE 0, other |-> 0]]
    /\ res = [x \in Sides |-> [n \in Streams |-> NewResult]]
    /\ kern = [x \in Sides |-> [n \in Streams |-> 0]]
    /\ msg = [x \in Sides |-> <<>>]
    /\ ticks = 0
    /\ out = [x \in Sides |->
                 [lines |-> [n \in Streams |-> [bytes |-> 0, retrans |-> 0]],
                  sum |-> [d \in BOOLEAN |-> 0],
                  marks |-> TRUE,
                  read |-> [n \in Streams |-> 0],
                  base |-> [n \in Streams |-> 0],
                  summary |-> None,
                  total |-> [d \in BOOLEAN |-> None],
                  how |-> "none",
                  omits |-> FALSE,
                  counted |-> [n \in Streams |-> NewResult],
                  cut |-> [n \in Streams |-> 0]]]

Next ==
    \/ \E x \in Sides :
           \/ \E n \in Streams : Send(x, n) \/ Receive(x, n) \/ Retransmit(x, n)
           \/ stats_timer_proc(x)
           \/ reporter_timer_proc(x)
           \/ omit_timer_proc(x)
           \/ iperf_got_sigend(x)
           \/ PeerTerminated(x)
           \/ ExchangeFails(x)
    \/ ClientTestEnd
    \/ ServerTestEnd
    \/ ClientExchange
    \/ ClientResults
    \/ ServerExchange
    \/ ClientDisplay
    \/ iperf_client_end
    \/ ServerInterrupted

Spec == Init /\ [][Next]_vars

-----------------------------------------------------------------------------
(* Properties. *)

Result == [sent : Nat, omit : Nat, recv : Nat, now : Nat, prev : Nat, retrans : Int,
           last : Interval \cup {None}]

\* Every counter is a number; what is omitted was sent; an interval has no
\* negative number of retransmissions.
TypeOK ==
    /\ opt \in Tests
    /\ test \in [Sides -> [state : {"TEST_RUNNING", "TEST_END", "EXCHANGE_RESULTS",
                                    "RESULTS_READ", "DISPLAY_RESULTS", "IPERF_DONE", "EXIT"},
                           due : BOOLEAN, omitting : BOOLEAN, has : -1..1, other : -1..1]]
    /\ res \in [Sides -> [Streams -> Result]]
    /\ kern \in [Sides -> [Streams -> 0..MaxRetrans]]
    /\ ticks \in 0..opt.ticks
    /\ \A x \in Sides, n \in Streams : IsSender(x, n) => res[x][n].omit <= res[x][n].sent

\* What a side counted of a stream when it last gathered, without what was
\* omitted.
OwnBytes(x, n) ==
    IF IsSender(x, n) THEN out[x].counted[n].sent - out[x].counted[n].omit
    ELSE out[x].counted[n].recv

OwnSummary(x, n) == IF IsSender(x, n) THEN out[x].summary[n].sent ELSE out[x].summary[n].recv

\* The last report was printed when the omit period of the side was over.
Printed(x, ways) == out[x].how \in ways /\ ~out[x].omits

\* The interval lines of a stream add up to its line in the summary and the
\* interval sums to the summary's sum, although short intervals are left out
\* and the omit period ends between two intervals.  What this side's own signal
\* cuts off is missing, exactly: the interval that was gathered and not printed
\* when it came, between the two timers or after the end of the test, is in the
\* summary and in no line, because the handler gathers once more.  Nothing is
\* said of a report the other side broke off, which prints the last interval
\* again, nor of one that begins while the side still omits.
IntervalsAddUp ==
    \A x \in Sides : Printed(x, {"regular", "signal", "late"}) =>
        /\ \A n \in Streams : out[x].lines[n].bytes + out[x].cut[n] = OwnSummary(x, n)
        /\ PrintsSum(x) => \A d \in Directions(x) :
               out[x].sum[d] + SumFunctionOnSet(out[x].cut, StreamsOf(x, d))
                   = IF d THEN out[x].total[d].sent ELSE out[x].total[d].recv
        /\ out[x].how = "regular" => \A n \in Streams : out[x].cut[n] = 0

\* The client's summary of a test that ended regularly tells of every stream
\* what its two ends counted, and the server's tells what the server counted.
SummaryTruthful ==
    /\ out["c"].how = "regular" =>
           \A n \in Streams :
               LET snd == IF IsSender("c", n) THEN "c" ELSE "s"
               IN  /\ out["c"].summary[n].sent = OwnBytes(snd, n)
                   /\ out["c"].summary[n].recv = OwnBytes(Peer(snd), n)
    /\ out["s"].how = "regular" => \A n \in Streams : OwnSummary("s", n) = OwnBytes("s", n)

\* Retransmissions are those the kernel of the sending side counted after that
\* side's omit period: none that a receiving socket counted, in either
\* direction, and none is missing in the client's report.  The interval lines
\* of a sending stream never add up to more; a short interval without bytes that
\* is left out may have had some.  Only a signal that comes to the client when
\* it has the server's results adds to them what its own receiving socket
\* counted.
RetransmitsTruthful ==
    \A x \in Sides, n \in Streams : Printed(x, {"regular", "signal", "late"}) =>
        LET snd == IF IsSender(x, n) THEN x ELSE Peer(x)
            counted == out[snd].counted[n].prev - out[snd].base[n]
            shown == out[x].summary[n].retrans
        IN  /\ IsSender(x, n) => shown = counted /\ out[x].lines[n].retrans <= shown
            /\ x = "c" /\ out[x].how = "regular" => shown # None
            /\ shown # None =>
                   IF out[x].how = "late" THEN shown >= counted ELSE shown = counted

\* The omitted mark of a sum line is that of the stream lines above it, though
\* one is taken from the interval and the other from the test - but for the sum
\* of receiving streams in a report that TERMINATE from the other side brings
\* about: it prints the last interval again, and if that was omitted and the
\* omit period has ended since, the sum line counts what its lines do not.
SumMarks ==
    \A x \in Sides : out[x].marks <=>
        ~( /\ out[x].how = "peer"
           /\ PrintsSum(x) /\ IntervalOk(x, res[x]) /\ ~test[x].omitting
           /\ \E n \in StreamsOf(x, FALSE) : res[x][n].last.omitted )
=============================================================================
