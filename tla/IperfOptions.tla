---------------------------- MODULE IperfOptions ----------------------------
(***************************************************************************)
(* The settings of a test: how iperf_parse_arguments builds them from a    *)
(* command line, how send_parameters and get_parameters carry them to a    *)
(* server, what iperf_reset_test leaves of them for the server's next      *)
(* test, and what iperf_send makes of them (iperf_api.c, units.c, main.c). *)
(*                                                                         *)
(* One process at a time is started with one of the command lines.  getopt *)
(* hands its arguments over one by one; their order is left open, so that  *)
(* every order of every command line is a behaviour.  A command line with  *)
(* -s becomes the server and stays; the ones with -c run tests against it. *)
(*                                                                         *)
(* An argument is a record: its option, the number before the unit suffix, *)
(* the suffix as a power of the unit's base (0 none, 1 K, 2 M, 3 G, 4 T)   *)
(* and, for -b, the burst behind the slash.  Times are in seconds, the     *)
(* reporting interval in tenths of a second.                               *)
(***************************************************************************)
EXTENDS Integers, FiniteSets, Sequences

CONSTANTS
    Lines,       \* the command lines: sets of arguments
    NoNumber,    \* the number of an argument that has no digits
    Garbage,     \* what sscanf may leave in an uninitialized double
    CtrlMss,     \* what TCP_MAXSEG may say of the control connection
    MULTISEND,   \* test->multisend, 10 in iperf_defaults
    NoTest       \* no struct iperf_test

Argument == [o : STRING, n : Int \cup {NoNumber}, k : 0..4, burst : Int]

\* The limits of iperf.h and iperf_api.h; Linux has no MSS below MIN_MSS.
MIN_UDP_BLOCKSIZE == 4 + 4 + 8
MAX_UDP_BLOCKSIZE == 65535 - 8 - 20
DEFAULT_UDP_BLKSIZE == 1460
MAX_BLOCKSIZE == 1024 * 1024
MAX_BURST == 1000
MIN_MSS == 88

UdpBlockSizes == MIN_UDP_BLOCKSIZE..MAX_UDP_BLOCKSIZE

ASSUME OptionsAssumption ==
    /\ \A l \in Lines : l \subseteq Argument
    /\ NoNumber \notin Int
    /\ Garbage \subseteq Int
    /\ CtrlMss \subseteq {0} \cup MIN_MSS..MAX_UDP_BLOCKSIZE
    /\ MULTISEND \in Nat \ {0}

MaxInt == 2147483647

-----------------------------------------------------------------------------
(* units.c *)

\* unit_atof and unit_atoi: the number times a power of 1024.  Without digits
\* sscanf assigns nothing and the result is whatever the variable held.
unit_atof(a) == IF a.n = NoNumber THEN Garbage ELSE {a.n * 1024 ^ a.k}

\* Slip: the argument is not converted.
unit_atoi_raw(a) == {a.n}

unit_atoi(a) == unit_atof(a)

\* unit_atof_rate: powers of 1000.
unit_atof_rate(a) == IF a.n = NoNumber THEN Garbage ELSE {a.n * 1000 ^ a.k}

\* The 64 bit result of unit_atoi assigned to an int: the low 32 bits, signed.
\* Written so that no intermediate value needs more than 32 bits.
LowInt(a) ==
    IF a.n = NoNumber THEN Garbage
    ELSE IF a.k = 4 THEN {0}
    ELSE IF a.k = 0 THEN {a.n}
    ELSE LET high == 2 ^ (31 - 10 * a.k)
             r == a.n % (2 * high)
         IN  {(IF r < high THEN r ELSE r - 2 * high) * 1024 ^ a.k}

\* -w is compared with MAX_TCP_BUFFER, 512 MB, as a double: nothing wraps.
ExceedsBuffer(a) ==
    IF a.n = NoNumber THEN \E x \in Garbage : x > 512 * 1024 * 1024
    ELSE IF a.k >= 3 THEN a.n > 0
    ELSE a.n > 2 ^ (29 - 10 * a.k)

-----------------------------------------------------------------------------
(* struct iperf_test: what the command line and the parameters change. *)

NumField == {"server_port", "bind_port", "interval", "duration", "num_streams", "omit",
             "tos", "mss", "domain", "unit_format", "bytes", "blocks", "blksize", "rate",
             "burst", "socket_bufsize", "pacing_timer", "connect_timeout"}

DEFAULT_TCP_BLKSIZE == 128 * 1024

\* iperf_defaults.
DefaultVal ==
    [f \in NumField |->
        CASE f = "server_port" -> 5201
          [] f = "interval" -> 10
          [] f = "duration" -> 10
          [] f = "num_streams" -> 1
          [] f = "blksize" -> DEFAULT_TCP_BLKSIZE
          [] f = "pacing_timer" -> 1000
          [] f = "connect_timeout" -> -1
          [] OTHER -> 0]

\* mode is 0, RECEIVER, in the zeroed memory of iperf_new_test; the flags are
\* the options without a number that were given.
iperf_defaults ==
    [role |-> "none", mode |-> "RECEIVER", reverse |-> FALSE, bidirectional |-> FALSE,
     protocol |-> "tcp", retransmits |-> FALSE, flags |-> {}, val |-> DefaultVal]

\* check_sender_has_retransmits: TCP_INFO counts retransmissions here.
check_sender_has_retransmits(t) ==
    [t EXCEPT !.retransmits = (t.mode # "RECEIVER" /\ t.protocol = "tcp")]

\* The mode of a test that runs in one direction; without a role it stays.
OneWay(t) ==
    IF t.role = "none" THEN t.mode
    ELSE IF (t.role = "c") = t.reverse THEN "RECEIVER" ELSE "SENDER"

\* Slip: a role given after --bidir makes the test one-way.
iperf_set_test_role_oneWay(t, role) ==
    check_sender_has_retransmits([t EXCEPT !.role = role, !.mode = OneWay([t EXCEPT !.role = role])])

iperf_set_test_role(t, role) ==
    LET u == [t EXCEPT !.role = role]
    IN  check_sender_has_retransmits(
            [u EXCEPT !.mode = IF t.bidirectional /\ ~t.reverse THEN "BIDIRECTIONAL"
                                                                ELSE OneWay(u)])

iperf_set_test_reverse(t) ==
    LET u == [t EXCEPT !.reverse = TRUE]
    IN  check_sender_has_retransmits([u EXCEPT !.mode = OneWay(u)])

iperf_set_test_bidirectional(t) ==
    [t EXCEPT !.bidirectional = TRUE, !.mode = "BIDIRECTIONAL"]

set_protocol(t, p) == check_sender_has_retransmits([t EXCEPT !.protocol = p])

SetVal(t, f, x) == [t EXCEPT !.val[f] = x]

-----------------------------------------------------------------------------
(* The options. *)

Ranged_(o, field, lo, hi, err, side) ==
    [o |-> o, field |-> field, lo |-> lo, hi |-> hi, err |-> err, side |-> side]

\* Options whose number goes into a field and is checked on the spot.  -t, -P
\* and -M have an upper bound only.
Ranged ==
    {Ranged_("p", "server_port", 1, 65535, "IEBADPORT", "both"),
     Ranged_("cport", "bind_port", 1, 65535, "IEBADPORT", "both"),
     Ranged_("f", "unit_format", 1, 8, "IEBADFORMAT", "both"),
     Ranged_("i", "interval", 1, 600, "IEINTERVAL", "both"),
     Ranged_("t", "duration", -MaxInt, 86400, "IEDURATION", "client"),
     Ranged_("P", "num_streams", -MaxInt, 128, "IENUMSTREAMS", "client"),
     Ranged_("M", "mss", -MaxInt, 9 * 1024, "IEMSS", "client"),
     Ranged_("S", "tos", 0, 255, "IEBADTOS", "client"),
     Ranged_("dscp", "tos", 0, 255, "IEBADTOS", "client"),
     Ranged_("O", "omit", 0, 60, "IEOMIT", "client"),
     Ranged_("4", "domain", -MaxInt, MaxInt, "none", "both"),
     Ranged_("6", "domain", -MaxInt, MaxInt, "none", "both")}

\* atoi and atof give 0 where there are no digits; strtol and parse_qos tell.
Number(r, a) == IF a.n # NoNumber THEN a.n ELSE IF r.field = "tos" THEN -1 ELSE 0

InRange(r, n) == (r.lo <= n /\ n <= r.hi) \/ (r.o = "i" /\ n = 0)

\* Options whose number goes through unit_atoi and is not checked.
Sized == [n |-> "bytes", k |-> "blocks",
          pacing_timer |-> "pacing_timer", connect_timeout |-> "connect_timeout"]

\* Options without a number.
ServerFlags == {"D", "1", "I"}
BothFlags == {"V", "J", "d", "B", "F", "X", "logfile", "forceflush", "udp-counters-64bit"}
ClientFlags == {"N", "Z", "T", "extra-data", "repeating-payload", "get-server-output"}

\* Not built in: the options that need a #define iperf_config.h does not have.
Unimplemented == {"A", "C", "L", "fq-rate", "no-fq-socket-pacing"}

\* -v, -h and what getopt does not know end the program inside the switch.
Exits == {"v", "h", "?"}

ClientOptions ==
    ClientFlags \cup DOMAIN Sized \cup {r.o : r \in {x \in Ranged : x.side = "client"}}
        \cup {"u", "b", "l", "w", "R", "bidir"}

VARIABLES
    pc,      \* where the process that was started last is
    line,    \* its command line
    args,    \* the arguments getopt has not returned yet
    loc,     \* server_flag, client_flag, rate_flag, duration_flag and blksize
    cli,     \* its struct iperf_test
    err,     \* its i_errno
    srv,     \* the server's struct iperf_test
    fresh,   \* the server has not reset its test yet
    call     \* the present call of iperf_send

vars == <<pc, line, args, loc, cli, err, srv, fresh, call>>

NoLoc == [server |-> FALSE, client |-> FALSE, rate |-> FALSE, duration |-> FALSE, blksize |-> 0]
NoCall == [who |-> "none", ms |-> 0, i |-> 0, sent |-> <<>>, reached |-> FALSE, soft |-> FALSE]

\* main: a process starts with the defaults.
main(l) ==
    /\ pc = "idle"
    /\ pc' = "parse"
    /\ line' = l
    /\ args' = l
    /\ loc' = NoLoc
    /\ cli' = iperf_defaults
    /\ err' = "none"
    /\ UNCHANGED <<srv, fresh, call>>

\* getopt returns the argument a.
Takes(a, options) ==
    /\ pc = "parse"
    /\ a \in args
    /\ a.o \in options
    /\ args' = args \ {a}
    /\ UNCHANGED <<line, srv, fresh, call>>

Continue == pc' = "parse" /\ UNCHANGED err
Fail(e) == pc' = "failed" /\ err' = e
Client == loc' = [loc EXCEPT !.client = TRUE]

\* case 'p', 'f', 'i', 't', 'P', 'M', 'S', 'O', '4', '6', --cport, --dscp.
ParseRanged(a) ==
    \E r \in Ranged :
        /\ r.o = a.o
        /\ Takes(a, {r.o})
        /\ cli' = SetVal(cli, r.field, Number(r, a))
        /\ IF InRange(r, Number(r, a))
           THEN /\ Continue
                /\ loc' = [loc EXCEPT !.client = @ \/ r.side = "client",
                                      !.duration = @ \/ r.o = "t"]
           ELSE Fail(r.err) /\ UNCHANGED loc

\* case 'n', 'k', --pacing-timer, --connect-timeout.
ParseSized(a) ==
    /\ Takes(a, DOMAIN Sized)
    /\ \E x \in unit_atoi(a) : cli' = SetVal(cli, Sized[a.o], x)
    /\ Client
    /\ Continue

\* case 'l': blksize is an int.
ParseLength(a) ==
    /\ Takes(a, {"l"})
    /\ \E x \in LowInt(a) : loc' = [loc EXCEPT !.client = TRUE, !.blksize = x]
    /\ Continue
    /\ UNCHANGED cli

\* case 'w'.
ParseWindow(a) ==
    /\ Takes(a, {"w"})
    /\ IF ExceedsBuffer(a)
       THEN Fail("IEBUFSIZE") /\ UNCHANGED <<cli, loc>>
       ELSE /\ \E x \in unit_atof(a) : cli' = SetVal(cli, "socket_bufsize", x)
            /\ Client
            /\ Continue

\* case 'b': a rate and, behind a slash, a burst (-1 stands for no slash).
ParseBitrate(a) ==
    /\ Takes(a, {"b"})
    /\ IF a.burst # -1 /\ a.burst \notin 1..MAX_BURST
       THEN Fail("IEBURST") /\ cli' = SetVal(cli, "burst", a.burst) /\ UNCHANGED loc
       ELSE /\ \E x \in unit_atof_rate(a) :
                   cli' = SetVal(IF a.burst = -1 THEN cli ELSE SetVal(cli, "burst", a.burst),
                                 "rate", x)
            /\ loc' = [loc EXCEPT !.client = TRUE, !.rate = TRUE]
            /\ Continue

\* case 's' and 'c'.
ParseRole(a) ==
    /\ Takes(a, {"s", "c"})
    /\ IF cli.role \notin {"none", a.o}
       THEN Fail("IESERVCLIENT") /\ UNCHANGED cli
       ELSE Continue /\ cli' = iperf_set_test_role(cli, a.o)
    /\ UNCHANGED loc

\* case 'u'.
ParseUdp(a) ==
    /\ Takes(a, {"u"})
    /\ cli' = set_protocol(cli, "udp")
    /\ Client
    /\ Continue

\* case 'R' and --bidir: one of them at most.
ParseDirection(a) ==
    /\ Takes(a, {"R", "bidir"})
    /\ IF (a.o = "R" /\ cli.bidirectional) \/ (a.o = "bidir" /\ cli.reverse)
       THEN Fail("IEREVERSEBIDIR") /\ UNCHANGED <<cli, loc>>
       ELSE /\ cli' = IF a.o = "R" THEN iperf_set_test_reverse(cli)
                                   ELSE iperf_set_test_bidirectional(cli)
            /\ Client
            /\ Continue

\* The options without a number.
ParseFlag(a) ==
    /\ Takes(a, ServerFlags \cup BothFlags \cup ClientFlags)
    /\ cli' = [cli EXCEPT !.flags = @ \cup {a.o}]
    /\ loc' = [loc EXCEPT !.server = @ \/ a.o \in ServerFlags,
                          !.client = @ \/ a.o \in ClientFlags]
    /\ Continue

\* IEUNIMP, and the exits inside the switch.
ParseStop(a) ==
    /\ Takes(a, Unimplemented \cup Exits)
    /\ Fail(IF a.o \in Exits THEN "exit" ELSE "IEUNIMP")
    /\ UNCHANGED <<cli, loc>>

\* The block size of a command line without -l (or with one that is 0 as an
\* int): left to be found from the MSS for UDP.
BlkSize(b, protocol) == IF b = 0 /\ protocol = "tcp" THEN DEFAULT_TCP_BLKSIZE ELSE b

BadBlock(b, protocol) == (protocol = "tcp" /\ b <= 0) \/ b > MAX_BLOCKSIZE

BadUdpBlock(b, protocol) == protocol = "udp" /\ b > 0 /\ b \notin UdpBlockSizes

\* What is given together though only one of it may end the test.
TwoEnds(v, duration) ==
    \/ duration /\ (v["bytes"] # 0 \/ v["blocks"] # 0)
    \/ v["bytes"] # 0 /\ v["blocks"] # 0

\* The checks behind the loop, in their order.
FinalError ==
    LET b == BlkSize(loc.blksize, cli.protocol)
    IN  IF cli.role = "c" /\ loc.server THEN "IESERVERONLY"
        ELSE IF cli.role = "s" /\ loc.client THEN "IECLIENTONLY"
        ELSE IF BadBlock(b, cli.protocol) THEN "IEBLOCKSIZE"
        ELSE IF BadUdpBlock(b, cli.protocol) THEN "IEUDPBLOCKSIZE"
        ELSE IF TwoEnds(cli.val, loc.duration) THEN "IEENDCONDITIONS"
        ELSE IF cli.role = "none" THEN "IENOROLE"
        ELSE "none"

UDP_RATE == 1024 * 1024

\* Slip: -b 0 is taken for no -b.
FinalVal_zeroRate ==
    [cli.val EXCEPT
        !["blksize"] = BlkSize(loc.blksize, cli.protocol),
        !["rate"] = IF @ # 0 THEN @ ELSE IF cli.protocol = "udp" THEN UDP_RATE ELSE 0,
        !["duration"] = IF (cli.val["bytes"] # 0 \/ cli.val["blocks"] # 0) /\ ~loc.duration
                        THEN 0 ELSE @]

\* What the code behind the loop puts into the settings.
FinalVal ==
    [cli.val EXCEPT
        !["blksize"] = BlkSize(loc.blksize, cli.protocol),
        !["rate"] = IF loc.rate THEN @ ELSE IF cli.protocol = "udp" THEN UDP_RATE ELSE 0,
        !["duration"] = IF (cli.val["bytes"] # 0 \/ cli.val["blocks"] # 0) /\ ~loc.duration
                        THEN 0 ELSE @]

\* The end of iperf_parse_arguments.
iperf_parse_arguments ==
    /\ pc = "parse"
    /\ args = {}
    /\ IF FinalError = "none"
       THEN pc' = "parsed" /\ cli' = [cli EXCEPT !.val = FinalVal] /\ UNCHANGED err
       ELSE Fail(FinalError) /\ UNCHANGED cli
    /\ UNCHANGED <<line, args, loc, srv, fresh, call>>

-----------------------------------------------------------------------------
(* The tests of a server. *)

Idle ==
    /\ pc' = "idle"
    /\ line' = {}
    /\ args' = {}
    /\ loc' = NoLoc
    /\ cli' = iperf_defaults
    /\ err' = "none"

\* run, case 's': the process stays and listens; a second one cannot bind.
StartServer ==
    /\ pc = "parsed" /\ cli.role = "s"
    /\ IF srv = NoTest THEN srv' = cli /\ fresh' = TRUE ELSE UNCHANGED <<srv, fresh>>
    /\ Idle
    /\ UNCHANGED call

\* The process exits: a bad command line, or nobody to connect to.
Exit ==
    /\ pc = "failed" \/ (pc = "parsed" /\ cli.role = "c" /\ srv = NoTest)
    /\ Idle
    /\ UNCHANGED <<srv, fresh, call>>

\* Slip: the MSS is taken even when it is not known.
iperf_connect_noFallback ==
    /\ pc = "parsed" /\ cli.role = "c" /\ srv # NoTest
    /\ pc' = "params"
    /\ \E mss \in CtrlMss :
           cli' = IF cli.protocol = "udp" /\ cli.val["blksize"] = 0
                  THEN SetVal(cli, "blksize", mss) ELSE cli
    /\ UNCHANGED <<line, args, loc, err, srv, fresh, call>>

\* iperf_connect: the block size of a UDP test is found out now.
iperf_connect ==
    /\ pc = "parsed" /\ cli.role = "c" /\ srv # NoTest
    /\ pc' = "params"
    /\ \E mss \in CtrlMss :
           cli' = IF cli.protocol = "udp" /\ cli.val["blksize"] = 0
                  THEN SetVal(cli, "blksize", IF mss # 0 THEN mss ELSE DEFAULT_UDP_BLKSIZE)
                  ELSE cli
    /\ UNCHANGED <<line, args, loc, err, srv, fresh, call>>

WireFlags == {"N", "T", "extra-data", "get-server-output", "udp-counters-64bit",
              "repeating-payload"}
AlwaysSent == {"omit", "duration", "num_streams"}
SentIfSet == {"bytes", "blocks", "mss", "socket_bufsize", "blksize", "rate", "pacing_timer",
              "burst", "tos"}

\* send_parameters: the JSON object has a key only for what is set.
send_parameters(t) ==
    [protocol |-> t.protocol, reverse |-> t.reverse, bidirectional |-> t.bidirectional,
     flags |-> t.flags \cap WireFlags,
     val |-> [f \in AlwaysSent \cup {g \in SentIfSet : t.val[g] # 0} |-> t.val[f]]]

\* get_parameters: a key that is not there changes nothing.
get_parameters(t, m) ==
    LET a == [set_protocol(t, m.protocol)
                 EXCEPT !.val = [f \in NumField |-> IF f \in DOMAIN m.val THEN m.val[f] ELSE @[f]],
                        !.flags = @ \cup m.flags]
        b == IF m.reverse THEN iperf_set_test_reverse(a) ELSE a
        d == IF m.bidirectional THEN iperf_set_test_bidirectional(b) ELSE b
    IN  [d EXCEPT !.retransmits = @ \/ (d.mode # "RECEIVER" /\ d.protocol = "tcp")]

\* The parameters are exchanged and the streams made.  A test with -P 0 runs
\* without streams; with a negative number the server waits for a count of
\* accepted streams that never comes, until one side is interrupted.
iperf_exchange_parameters ==
    /\ pc = "params"
    /\ srv' = get_parameters(srv, send_parameters(cli))
    /\ pc' = IF cli.val["num_streams"] >= 0 THEN "running" ELSE "waiting"
    /\ UNCHANGED <<line, args, loc, cli, err, fresh, call>>

\* What iperf_reset_test puts back; bytes, blocks, pacing_timer and the flags
\* of the last client stay as they are, except -N, -T and the two named here.
ResetFields == {"omit", "duration", "num_streams", "socket_bufsize", "blksize", "rate",
                "burst", "mss", "tos"}
ResetFlags == {"N", "T", "extra-data", "udp-counters-64bit"}

\* Slip: the size of the burst is not put back.
iperf_reset_test_burst(t) ==
    [t EXCEPT !.role = "s", !.mode = "RECEIVER", !.retransmits = FALSE, !.protocol = "tcp",
              !.reverse = FALSE, !.bidirectional = FALSE, !.flags = @ \ ResetFlags,
              !.val = [f \in NumField |-> IF f \in ResetFields \ {"burst"}
                                          THEN DefaultVal[f] ELSE @[f]]]

iperf_reset_test(t) ==
    [t EXCEPT !.role = "s", !.mode = "RECEIVER", !.retransmits = FALSE, !.protocol = "tcp",
              !.reverse = FALSE, !.bidirectional = FALSE, !.flags = @ \ ResetFlags,
              !.val = [f \in NumField |-> IF f \in ResetFields THEN DefaultVal[f] ELSE @[f]]]

\* The test ends, for whatever reason; the client exits, the server resets its
\* test and, without -1, serves the next one.
EndTest ==
    /\ pc \in {"running", "waiting"} /\ call = NoCall
    /\ srv' = IF "1" \in srv.flags THEN NoTest ELSE iperf_reset_test(srv)
    /\ fresh' = FALSE
    /\ Idle
    /\ UNCHANGED call

-----------------------------------------------------------------------------
(* iperf_send *)

Side(who) == IF who = "c" THEN cli ELSE srv

\* multisend: the burst, or many blocks when the rate is unlimited.
MultiSend(t) ==
    IF t.val["burst"] # 0 THEN t.val["burst"]
    ELSE IF t.val["rate"] = 0 THEN MULTISEND ELSE 1

\* A side that sends enters iperf_send with all its streams green and writable.
EnterSend(who) ==
    /\ pc = "running" /\ call = NoCall
    /\ Side(who).mode # "RECEIVER"
    /\ call' = [who |-> who, ms |-> MultiSend(Side(who)), i |-> 1,
                sent |-> [s \in 1..Side(who).val["num_streams"] |-> 0],
                reached |-> FALSE, soft |-> FALSE]
    /\ UNCHANGED <<pc, line, args, loc, cli, err, srv, fresh>>

\* bytes_sent or blocks_sent has come to the limit of the settings; once it
\* has, it stays there.
LimitReached ==
    LET v == Side(call.who).val
    IN  IF v["bytes"] = 0 /\ v["blocks"] = 0 THEN {FALSE} ELSE {call.reached, TRUE}

\* Slip: the limit ends the round in the last round too.
SendBlock_lastToo ==
    /\ call # NoCall /\ call.ms > 0 /\ call.i <= Len(call.sent)
    /\ \E reached \in LimitReached :
           call' = [call EXCEPT !.sent[call.i] = @ + 1,
                                !.reached = reached,
                                !.i = IF reached THEN Len(call.sent) + 1 ELSE @ + 1]
    /\ UNCHANGED <<pc, line, args, loc, cli, err, srv, fresh>>

\* One stream sends a block.  A limit that is reached ends this round, unless
\* it is the last one.
SendBlock ==
    /\ call # NoCall /\ call.ms > 0 /\ call.i <= Len(call.sent)
    /\ \E reached \in LimitReached :
           call' = [call EXCEPT !.sent[call.i] = @ + 1,
                                !.reached = reached,
                                !.i = IF reached /\ call.ms > 1 THEN Len(call.sent) + 1 ELSE @ + 1]
    /\ UNCHANGED <<pc, line, args, loc, cli, err, srv, fresh>>

\* A stream whose socket is full (NET_SOFTERROR) ends the round; a round in
\* which no stream sent anything ends the call.
SoftError ==
    /\ call # NoCall /\ call.ms > 0 /\ call.i <= Len(call.sent)
    /\ call' = [call EXCEPT !.soft = TRUE,
                            !.i = Len(call.sent) + 1,
                            !.ms = IF call.i = 1 THEN 1 ELSE @]
    /\ UNCHANGED <<pc, line, args, loc, cli, err, srv, fresh>>

\* The next round, unless there is no stream.
NextRound ==
    /\ call # NoCall /\ call.ms > 0 /\ call.i > Len(call.sent)
    /\ call' = [call EXCEPT !.ms = IF call.sent = <<>> THEN 0 ELSE @ - 1, !.i = 1]
    /\ UNCHANGED <<pc, line, args, loc, cli, err, srv, fresh>>

LeaveSend ==
    /\ call # NoCall /\ call.ms = 0
    /\ call' = NoCall
    /\ UNCHANGED <<pc, line, args, loc, cli, err, srv, fresh>>

-----------------------------------------------------------------------------
Init ==
    /\ pc = "idle"
    /\ line = {}
    /\ args = {}
    /\ loc = NoLoc
    /\ cli = iperf_defaults
    /\ err = "none"
    /\ srv = NoTest
    /\ fresh = FALSE
    /\ call = NoCall

ParseOption(a) ==
    \/ ParseRanged(a)
    \/ ParseSized(a)
    \/ ParseLength(a)
    \/ ParseWindow(a)
    \/ ParseBitrate(a)
    \/ ParseRole(a)
    \/ ParseUdp(a)
    \/ ParseDirection(a)
    \/ ParseFlag(a)
    \/ ParseStop(a)

Next ==
    \/ \E l \in Lines : main(l)
    \/ \E a \in args : ParseOption(a)
    \/ iperf_parse_arguments
    \/ StartServer
    \/ Exit
    \/ iperf_connect
    \/ iperf_exchange_parameters
    \/ EndTest
    \/ \E who \in {"c", "s"} : EnterSend(who)
    \/ SendBlock
    \/ SoftError
    \/ NextRound
    \/ LeaveSend

Spec == Init /\ [][Next]_vars

-----------------------------------------------------------------------------
(* Properties. *)

Test == [role : {"none", "c", "s"}, mode : {"SENDER", "RECEIVER", "BIDIRECTIONAL"},
         reverse : BOOLEAN, bidirectional : BOOLEAN, protocol : {"tcp", "udp"},
         retransmits : BOOLEAN, flags : SUBSET (ServerFlags \cup BothFlags \cup ClientFlags),
         val : [NumField -> Int]]

ASSUME NoTestAssumption == NoTest \notin Test

\* Every struct iperf_test has the fields the code gives it, numbers included.
TypeOK ==
    /\ pc \in {"idle", "parse", "parsed", "failed", "params", "running", "waiting"}
    /\ args \subseteq line
    /\ line \in Lines \cup {{}}
    /\ loc \in [server : BOOLEAN, client : BOOLEAN, rate : BOOLEAN, duration : BOOLEAN,
                blksize : Int]
    /\ cli \in Test
    /\ srv \in Test \cup {NoTest}
    /\ fresh \in BOOLEAN
    /\ call.who \in {"none", "c", "s"} /\ call.ms \in Nat /\ call.i \in Nat

Has(o) == \E a \in line : a.o = o

\* A command line that is refused whatever the order of its arguments.
RefusedLine ==
    \/ Has("s") <=> Has("c")
    \/ Has("R") /\ Has("bidir")
    \/ Has("c") /\ \E o \in ServerFlags : Has(o)
    \/ Has("s") /\ \E o \in ClientOptions : Has(o)
    \/ \E a \in line : \/ a.o \in Unimplemented \cup Exits
                       \/ \E r \in Ranged : r.o = a.o /\ ~InRange(r, a.n)
                       \/ a.o = "b" /\ a.burst \notin {-1} \cup 1..MAX_BURST
                       \/ a.o = "w" /\ ExceedsBuffer(a)
    \/ \E a \in line : /\ a.o = "l"
                       /\ \/ a.n > 0 /\ a.k <= 2 /\ a.n > 2 ^ (20 - 10 * a.k)
                          \/ Has("u") /\ a.n > 0 /\ a.k <= 2 /\ a.n * 1024 ^ a.k \notin UdpBlockSizes
                          \/ ~Has("u") /\ a.n < 0
    \/ Cardinality({o \in {"t", "n", "k"} :
                       \E a \in line : a.o = o /\ (o = "t" \/ a.n # 0)}) > 1

\* The command line means the same in every order: the same lines are refused
\* and the direction, the retransmission counters, the rate and the end
\* condition of an accepted one follow from which options it has.  The setters
\* of role, direction and protocol each derive mode and sender_has_retransmits
\* from what the others have set so far.  Lines with a number missing or a
\* length beyond 2^31 are left out here.
OrderIrrelevant ==
    (\A a \in line : a.n # NoNumber /\ ~(a.o = "l" /\ a.k >= 3)) =>
        /\ pc = "failed" => RefusedLine
        /\ pc = "parsed" =>
            /\ ~RefusedLine
            /\ cli.mode = CASE Has("s") \/ Has("R") -> "RECEIVER"
                            [] Has("bidir") -> "BIDIRECTIONAL"
                            [] OTHER -> "SENDER"
            /\ cli.retransmits <=> Has("c") /\ ~Has("R") /\ ~Has("u")
            /\ ~Has("b") => cli.val["rate"] = IF Has("u") THEN UDP_RATE ELSE 0
            /\ \A a \in line : a.o = "b" => cli.val["rate"] = a.n * 1000 ^ a.k
            /\ Cardinality({f \in {"duration", "bytes", "blocks"} : cli.val[f] # 0})
                   = IF \E a \in line : a.o = "t" /\ a.n = 0 THEN 0 ELSE 1

\* Whatever the length on the command line, a test that is accepted has a block
\* size within the limits of its protocol; the one exception is a UDP length
\* that is negative as an int, which is only found out when the stream is made.
\* The length is cut to 32 bits before it is checked, and 0 stands for none.
BlockUsable ==
    pc \in {"params", "running"} =>
        IF cli.protocol = "udp" THEN cli.val["blksize"] \in UdpBlockSizes \/ cli.val["blksize"] < 0
                                ELSE cli.val["blksize"] \in 1..MAX_BLOCKSIZE

\* What iperf_reset_test does not put back.
Sticky == {"bytes", "blocks"}

\* Both sides run the same test: they send where the other receives, count
\* retransmissions if they send over TCP, and agree on every number that was
\* sent.  What earlier tests left behind shows only in the fields that
\* iperf_reset_test leaves alone, and only when the client did not set them.
SettingsAgree ==
    pc = "running" =>
        /\ srv.protocol = cli.protocol
        /\ srv.mode = CASE cli.mode = "SENDER" -> "RECEIVER"
                        [] cli.mode = "RECEIVER" -> "SENDER"
                        [] OTHER -> "BIDIRECTIONAL"
        /\ srv.retransmits <=> srv.mode # "RECEIVER" /\ srv.protocol = "tcp"
        /\ \A f \in AlwaysSent \cup SentIfSet :
               \/ srv.val[f] = cli.val[f]
               \/ f \in Sticky /\ ~fresh /\ cli.val[f] = 0
               \/ f = "pacing_timer" /\ cli.val[f] = 0
        /\ cli.flags \cap WireFlags \subseteq srv.flags
        /\ ("N" \in srv.flags) = ("N" \in cli.flags)

\* No stream starves: a call of iperf_send that meets no full socket sends on
\* every stream, also when the server still has the byte or block limit of an
\* earlier test and its rounds end early for that reason.
EveryStreamSends ==
    (call # NoCall /\ call.ms = 0 /\ ~call.soft) => \A s \in DOMAIN call.sent : call.sent[s] > 0
=============================================================================
