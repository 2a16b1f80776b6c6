------------------------------ MODULE IperfUdp ------------------------------
(***************************************************************************)
(* A UDP stream of a test: the sequence numbers and counters of            *)
(* iperf_udp_send and iperf_udp_recv, the omit period (iperf_reset_stats), *)
(* the interval records (iperf_stats_callback) and the results the two     *)
(* sides exchange and print at the end (send_results, get_results,         *)
(* iperf_print_results).                                                   *)
(*                                                                         *)
(* The network loses, delays and reorders datagrams and repeats up to      *)
(* MaxDuplicates of them.  A datagram counts one byte.  Jitter, rates and  *)
(* the other streams of the test are left out.                             *)
(***************************************************************************)
EXTENDS Integers, Sequences, FiniteSets

CONSTANTS
    Configs,       \* the tests to consider: does the server send, is there an omit period
    MaxDuplicates, \* datagrams the network may deliver once more than it should
    MaxPackets,    \* bound: datagrams sent
    MaxIntervals   \* bound: intervals before the end of the test

ASSUME UdpAssumption ==
    /\ Configs \subseteq [reverse : BOOLEAN, omit : BOOLEAN]
    /\ MaxDuplicates \in Nat
    /\ MaxPackets \in Nat
    /\ MaxIntervals \in Nat

Side == {"snd", "rcv"}

VARIABLES
    config,     \* the options of the test
    state,      \* test->state of each side
    omitting,   \* test->omitting
    sp,         \* the counters of struct iperf_stream
    om,         \* its omitted_ counters, and bytes_sent_omit of the result
    rp,         \* the byte counters of struct iperf_stream_result
    intervals,  \* its interval_results
    report,     \* what iperf_print_results has printed; <<>> before
    net,        \* datagrams under way or in the receiver's socket
    dups,       \* how many deliveries were repetitions
    got         \* the sequence numbers iperf_udp_recv has counted (history)

vars == <<config, state, omitting, sp, om, rp, intervals, report, net, dups, got>>

Client == IF config.reverse THEN "rcv" ELSE "snd"
Server == IF config.reverse THEN "snd" ELSE "rcv"

State == {"TEST_START", "TEST_RUNNING", "TEST_END", "EXCHANGE_RESULTS", "DISPLAY_RESULTS"}

Init ==
    /\ config \in Configs
    /\ state = [x \in Side |-> "TEST_START"]
    /\ omitting = [x \in Side |-> config.omit]
    /\ sp = [x \in Side |-> [packet_count |-> 0, peer_packet_count |-> 0,
                             cnt_error |-> 0, outoforder_packets |-> 0]]
    /\ om = [x \in Side |-> [packet_count |-> 0, cnt_error |-> 0,
                             outoforder_packets |-> 0, bytes_sent |-> 0]]
    /\ rp = [x \in Side |-> [bytes_sent |-> 0, bytes_received |-> 0, this_interval |-> 0]]
    /\ intervals = [x \in Side |-> <<>>]
    /\ report = [x \in Side |-> <<>>]
    /\ net = {}
    /\ dups = 0
    /\ got = {}

-----------------------------------------------------------------------------
(* The traffic. *)

\* The server starts; the client follows when it reads TEST_RUNNING.
TestRunning(x) ==
    /\ state[x] = "TEST_START"
    /\ x = Client => state[Server] # "TEST_START"
    /\ state' = [state EXCEPT ![x] = "TEST_RUNNING"]
    /\ UNCHANGED <<config, omitting, sp, om, rp, intervals, report, net, dups, got>>

\* The sequence number is used up even if Nwrite reports a soft error.
iperf_udp_send ==
    /\ state["snd"] = "TEST_RUNNING"
    /\ sp["snd"].packet_count < MaxPackets
    /\ LET pcount == sp["snd"].packet_count + 1
       IN  /\ sp' = [sp EXCEPT !["snd"].packet_count = pcount]
           /\ \/ /\ net' = net \cup {pcount}
                 /\ rp' = [rp EXCEPT !["snd"].bytes_sent = @ + 1,
                                     !["snd"].this_interval = @ + 1]
              \/ UNCHANGED <<net, rp>>
    /\ UNCHANGED <<config, state, omitting, om, intervals, report, dups, got>>

\* Slip: the packet that has arrived is counted as a part of the gap.
Account_offByOne(s, pcount) ==
    IF pcount > s.packet_count
    THEN [s EXCEPT !.cnt_error = @ + (pcount - s.packet_count), !.packet_count = pcount]
    ELSE [s EXCEPT !.outoforder_packets = @ + 1,
                   !.cnt_error = IF @ > 0 THEN @ - 1 ELSE @]

\* Slip: gaps are not counted, but late packets still take a loss back.
Account_noGap(s, pcount) ==
    IF pcount > s.packet_count THEN [s EXCEPT !.packet_count = pcount]
    ELSE [s EXCEPT !.outoforder_packets = @ + 1, !.cnt_error = @ - 1]

\* The sequence number of a datagram that has arrived.
Account(s, pcount) ==
    IF pcount > s.packet_count
    THEN [s EXCEPT !.cnt_error = @ + (pcount - 1 - s.packet_count),
                   !.packet_count = pcount]
    ELSE [s EXCEPT !.outoforder_packets = @ + 1,
                   !.cnt_error = IF @ > 0 THEN @ - 1 ELSE @]

Delivered(pcount) ==
    /\ pcount \in net
    /\ \/ net' = net \ {pcount} /\ UNCHANGED dups
       \/ dups < MaxDuplicates /\ dups' = dups + 1 /\ UNCHANGED net

iperf_udp_recv(pcount) ==
    /\ state["rcv"] = "TEST_RUNNING"
    /\ Delivered(pcount)
    /\ sp' = [sp EXCEPT !["rcv"] = Account(@, pcount)]
    /\ rp' = [rp EXCEPT !["rcv"].bytes_received = @ + 1, !["rcv"].this_interval = @ + 1]
    /\ got' = got \cup {pcount}
    /\ UNCHANGED <<config, state, omitting, om, intervals, report>>

\* A client that receives goes on draining its socket and counts nothing.
LateReceive(pcount) ==
    /\ config.reverse /\ state["rcv"] = "TEST_END"
    /\ Delivered(pcount)
    /\ UNCHANGED <<config, state, omitting, sp, om, rp, intervals, report, got>>

-----------------------------------------------------------------------------
(* Statistics. *)

\* Slip: the bytes of the interval under way are kept.
iperf_reset_stats_keepsInterval(x) ==
    /\ om' = [om EXCEPT ![x] = [packet_count |-> sp[x].packet_count,
                                cnt_error |-> sp[x].cnt_error,
                                outoforder_packets |-> sp[x].outoforder_packets,
                                bytes_sent |-> rp[x].bytes_sent]]
    /\ rp' = [rp EXCEPT ![x].bytes_received = 0]

iperf_reset_stats(x) ==
    /\ om' = [om EXCEPT ![x] = [packet_count |-> sp[x].packet_count,
                                cnt_error |-> sp[x].cnt_error,
                                outoforder_packets |-> sp[x].outoforder_packets,
                                bytes_sent |-> rp[x].bytes_sent]]
    /\ rp' = [rp EXCEPT ![x].bytes_received = 0, ![x].this_interval = 0]

\* The omit timer fires.
omit_timer_proc(x) ==
    /\ state[x] = "TEST_RUNNING" /\ omitting[x]
    /\ omitting' = [omitting EXCEPT ![x] = FALSE]
    /\ iperf_reset_stats(x)
    /\ UNCHANGED <<config, state, sp, intervals, report, net, dups, got>>

\* The interval record: absolute counters, and their growth since the last one.
Interval(x) ==
    LET n == Len(intervals[x])
        last == IF n = 0 THEN [packet_count |-> 0, outoforder_packets |-> 0, cnt_error |-> 0]
                         ELSE intervals[x][n]
    IN  [omitted |-> omitting[x],
         bytes_transferred |-> rp[x].this_interval,
         interval_packet_count |-> sp[x].packet_count - last.packet_count,
         interval_outoforder_packets |-> sp[x].outoforder_packets - last.outoforder_packets,
         interval_cnt_error |-> sp[x].cnt_error - last.cnt_error,
         packet_count |-> sp[x].packet_count,
         outoforder_packets |-> sp[x].outoforder_packets,
         cnt_error |-> sp[x].cnt_error]

iperf_stats_callback(x) ==
    /\ intervals' = [intervals EXCEPT ![x] = Append(@, Interval(x))]
    /\ rp' = [rp EXCEPT ![x].this_interval = 0]

stats_timer_proc(x) ==
    /\ state[x] = "TEST_RUNNING"
    /\ Len(intervals[x]) < MaxIntervals
    /\ iperf_stats_callback(x)
    /\ UNCHANGED <<config, state, omitting, sp, om, report, net, dups, got>>

-----------------------------------------------------------------------------
(* The end of the test. *)

\* The client is done, never while it omits: statistics, TEST_END.
ClientTestEnd ==
    /\ state[Client] = "TEST_RUNNING" /\ ~omitting[Client]
    /\ iperf_stats_callback(Client)
    /\ state' = [state EXCEPT ![Client] = "TEST_END"]
    /\ UNCHANGED <<config, omitting, sp, om, report, net, dups, got>>

\* The counters of iperf_print_results.  s and b are the stream's, after
\* get_results on the client and before it on the server.
Summary(x, s, b) ==
    LET sender_packet_count == IF x = "snd" THEN s.packet_count ELSE s.peer_packet_count
        receiver_packet_count == IF x = "snd" THEN s.peer_packet_count ELSE s.packet_count
    IN  [sent |-> sender_packet_count - om[x].packet_count,
         received |-> receiver_packet_count - om[x].packet_count,
         lost |-> s.cnt_error - om[x].cnt_error,
         bytes_sent |-> b.bytes_sent - om[x].bytes_sent,
         bytes_received |-> b.bytes_received]

\* TEST_END at the server: statistics, the server's own report.
ServerTestEnd ==
    /\ state[Client] = "TEST_END" /\ state[Server] = "TEST_RUNNING"
    /\ iperf_stats_callback(Server)
    /\ report' = [report EXCEPT ![Server] = Summary(Server, sp[Server], rp[Server])]
    /\ state' = [state EXCEPT ![Server] = "EXCHANGE_RESULTS"]
    /\ UNCHANGED <<config, omitting, sp, om, net, dups, got>>

\* The results of x that the other side applies to its own stream.
send_results(x) ==
    [errors |-> sp[x].cnt_error,
     packets |-> sp[x].packet_count,
     bytes |-> IF x = "snd" THEN rp[x].bytes_sent - om[x].bytes_sent ELSE rp[x].bytes_received]

\* Slip: the sender keeps its own count of errors.
get_results_keepsErrors(x, j) == [sp[x] EXCEPT !.peer_packet_count = j.packets]

get_results(x, j) ==
    IF x = "snd" THEN [sp[x] EXCEPT !.cnt_error = j.errors, !.peer_packet_count = j.packets]
                 ELSE [sp[x] EXCEPT !.peer_packet_count = j.packets]

get_results_bytes(x, j) ==
    IF x = "snd" THEN [rp[x] EXCEPT !.bytes_received = j.bytes]
                 ELSE [rp[x] EXCEPT !.bytes_sent = j.bytes]

\* EXCHANGE_RESULTS at the client, which sends its results first.
ClientExchange ==
    /\ state[Server] = "EXCHANGE_RESULTS" /\ state[Client] = "TEST_END"
    /\ state' = [state EXCEPT ![Client] = "EXCHANGE_RESULTS"]
    /\ UNCHANGED <<config, omitting, sp, om, rp, intervals, report, net, dups, got>>

\* The server gets the client's results, sends its own and DISPLAY_RESULTS.
ServerExchange ==
    /\ state[Server] = "EXCHANGE_RESULTS" /\ state[Client] = "EXCHANGE_RESULTS"
    /\ sp' = [sp EXCEPT ![Server] = get_results(Server, send_results(Client))]
    /\ rp' = [rp EXCEPT ![Server] = get_results_bytes(Server, send_results(Client))]
    /\ state' = [state EXCEPT ![Server] = "DISPLAY_RESULTS"]
    /\ UNCHANGED <<config, omitting, om, intervals, report, net, dups, got>>

\* The client gets the server's results, then DISPLAY_RESULTS: its report.
ClientDisplay ==
    /\ state[Server] = "DISPLAY_RESULTS" /\ state[Client] = "EXCHANGE_RESULTS"
    /\ LET s == get_results(Client, send_results(Server))
           b == get_results_bytes(Client, send_results(Server))
       IN  /\ sp' = [sp EXCEPT ![Client] = s]
           /\ rp' = [rp EXCEPT ![Client] = b]
           /\ report' = [report EXCEPT ![Client] = Summary(Client, s, b)]
    /\ state' = [state EXCEPT ![Client] = "DISPLAY_RESULTS"]
    /\ UNCHANGED <<config, omitting, om, intervals, net, dups, got>>

Over == state[Client] = "DISPLAY_RESULTS" /\ UNCHANGED vars

Next ==
    \/ \E x \in Side : TestRunning(x) \/ omit_timer_proc(x) \/ stats_timer_proc(x)
    \/ iperf_udp_send
    \/ \E pcount \in net : iperf_udp_recv(pcount) \/ LateReceive(pcount)
    \/ ClientTestEnd \/ ServerTestEnd
    \/ ClientExchange \/ ServerExchange \/ ClientDisplay
    \/ Over

Spec == Init /\ [][Next]_vars

-----------------------------------------------------------------------------
Counters == [packet_count : Nat, peer_packet_count : Nat, cnt_error : Nat, outoforder_packets : Nat]

TypeOK ==
    /\ config \in Configs
    /\ state \in [Side -> State]
    /\ omitting \in [Side -> BOOLEAN]
    /\ sp \in [Side -> Counters]
    /\ om \in [Side -> [packet_count : Nat, cnt_error : Nat,
                        outoforder_packets : Nat, bytes_sent : Nat]]
    /\ rp \in [Side -> [bytes_sent : Nat, bytes_received : Nat, this_interval : Nat]]
    /\ net \subseteq 1..MaxPackets
    /\ dups \in 0..MaxDuplicates
    /\ got \subseteq 1..MaxPackets

\* Sequence numbers up to the highest one seen that have not arrived.
Missing == (1..sp["rcv"].packet_count) \ got

\* iperf_udp_recv keeps no record of what has arrived, only a counter that
\* goes up on gaps and down on late packets.  Through any reordering and loss,
\* omit periods and soft errors included, it is the exact number of packets
\* missing; its comment only promises this "might not be correct in all cases".
LossExact == dups = 0 => sp["rcv"].cnt_error = Cardinality(Missing)

\* Once there was a duplicate, which the comment excludes, it can hide a loss,
\* but no loss is ever invented.
LossNotOverstated == sp["rcv"].cnt_error <= Cardinality(Missing)

Bytes(x) == IF x = "snd" THEN rp[x].bytes_sent - om[x].bytes_sent ELSE rp[x].bytes_received

\* The bytes of the intervals after the omit period.
KeptBytes(q) ==
    LET sum[n \in 0..Len(q)] ==
            IF n = 0 THEN 0
            ELSE sum[n - 1] + (IF q[n].omitted THEN 0 ELSE q[n].bytes_transferred)
    IN  sum[Len(q)]

\* The bytes of the intervals add up to the total: iperf_reset_stats and
\* iperf_stats_callback cut the traffic in two different ways, and neither
\* loses a byte or counts one twice, wherever the omit period ends.
IntervalBytes ==
    \A x \in Side : ~omitting[x] =>
        Bytes(x) = rp[x].this_interval + KeptBytes(intervals[x])

\* What the client prints of the receiver, through send_results, the counters of
\* the other role and its own omitted_ counters ("Reset all of a test's stats back
\* to zero").  A client that receives prints what it measured.  One that sends
\* sets the receiver's counters against what it has itself counted by the end of
\* its own omit period, that is no loss at all: its report exceeds the server's by
\* exactly the losses of the receiver's omit period, and its packets are off by
\* what was sent, but not seen yet, when the two sides ended theirs.
ReportedLoss ==
    report[Client] # <<>> =>
        /\ report[Client].bytes_received = rp["rcv"].bytes_received
        /\ config.reverse =>
               /\ report[Client].lost = sp["rcv"].cnt_error - om["rcv"].cnt_error
               /\ report[Client].received = sp["rcv"].packet_count - om["rcv"].packet_count
        /\ ~config.reverse =>
               /\ report[Client].lost = report[Server].lost + om["rcv"].cnt_error
               /\ report[Client].received =
                      report[Server].received + om["rcv"].packet_count - om["snd"].packet_count
=============================================================================
