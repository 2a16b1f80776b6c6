---------------------------- MODULE IperfControl ----------------------------
(***************************************************************************)
(* The control connection of iperf3 as it is built into SberWifi: clients  *)
(* (iperf_client_api.c), one server that runs one test at a time           *)
(* (iperf_server_api.c, the loop of main.c) and the state bytes and JSON   *)
(* messages they exchange (iperf_api.c), for TCP tests (iperf_tcp.c).      *)
(*                                                                         *)
(* A connection is a pair <<c, i>>: client c's control connection when     *)
(* i = 0, its i-th data stream otherwise.  All of them arrive at the one   *)
(* listening socket; what an accepted connection becomes depends on the    *)
(* state the server is in.  A process is single threaded and blocks inside *)
(* its handlers (Nread is a blocking read); every place where it can block *)
(* is a value of its program counter, so the other processes run there.    *)
(*                                                                         *)
(* Data is abstracted: the contents of a cookie and of the parameters are  *)
(* those of the connection's owner, results are the set of stream ids they *)
(* carry, the traffic on the streams itself is left out.                   *)
(***************************************************************************)
EXTENDS Naturals, Sequences, FiniteSets

CONSTANTS
    Clients,      \* the client processes, each runs one test
    MaxStreams,   \* MAX_STREAMS, the largest value of -P
    Configs,      \* the command lines clients are started with
    InApp,        \* clients that run inside the app, through IperfTest.cpp
    StaleCookie,  \* iperf_tcp_accept may find an old cookie in its buffer
    NoConn,       \* "no socket" (-1)
    NoClient      \* the cookie of nobody (iperf_reset_test zeroes it)

Mode == {"SENDER", "RECEIVER", "BIDIRECTIONAL"}

\* relisten stands for nodelay, MSS or window being set; limit for -t or -n.
Config == [mode : Mode, num : 1..MaxStreams, limit : {"time", "bytes"},
           relisten : BOOLEAN]

ASSUME ControlAssumption ==
    /\ MaxStreams \in Nat \ {0}
    /\ Configs \subseteq Config
    /\ InApp \subseteq Clients
    /\ StaleCookie \in BOOLEAN
    /\ NoClient \notin Clients
    /\ NoConn \notin Clients \X (0..(2 * MaxStreams))

Conns == Clients \X (0..(2 * MaxStreams))

Ctrl(c) == <<c, 0>>

Owner(k) == k[1]

\* The bytes of iperf_api.h that travel on the control connection or are only
\* the local state of one side.
State == {"IPERF_START", "PARAM_EXCHANGE", "CREATE_STREAMS", "TEST_START",
          "TEST_RUNNING", "TEST_END", "EXCHANGE_RESULTS", "DISPLAY_RESULTS",
          "IPERF_DONE", "SERVER_TERMINATE", "CLIENT_TERMINATE",
          "ACCESS_DENIED", "SERVER_ERROR"}

\* A state byte, the cookie, or a JSON message; only results carry ids.
Message == [t : State \cup {"COOKIE", "PARAMS", "RESULTS"}, ids : SUBSET Nat]

Msg(t) == [t |-> t, ids |-> {}]

Stream == [conn : Conns, sender : BOOLEAN]

VARIABLES
    up,         \* bytes sent by the client on a connection and not yet read
    down,       \* bytes sent by the server on a connection and not yet read
    cEnd,       \* the client's socket of a connection: none, open or closed
    sEnd,       \* the server's socket of a connection
    backlog,    \* established connections the server has not accepted yet
    listening,  \* test->listener is open
    cPc,        \* where the client process is
    cState,     \* test->state of the client
    cOpt,       \* its command line
    cStreams,   \* its list test->streams
    cGot,       \* the ids in the results it received
    cErr,       \* its i_errno
    sPc,        \* where the server process is
    sState,     \* test->state of the server
    sCtrl,      \* test->ctrl_sck
    sCookie,    \* test->cookie
    sOpt,       \* the parameters it runs the test with
    sStreams,   \* its list test->streams
    sPend,      \* the connection iperf_tcp_accept is reading a cookie from
    sDone,      \* test->done
    sTimer,     \* test->timer is scheduled
    sErr        \* its i_errno

netVars == <<up, down, cEnd, sEnd, backlog, listening>>
cliVars == <<cPc, cState, cOpt, cStreams, cGot, cErr>>
srvVars == <<sPc, sState, sCtrl, sCookie, sOpt, sStreams, sPend, sDone, sTimer, sErr>>
vars == <<netVars, cliVars, srvVars>>

\* test->mode and test->num_streams after iperf_reset_test, seen from the
\* client (the server's own mode is the opposite one: it receives).
DefaultOpt == [mode |-> "SENDER", num |-> 1, limit |-> "time", relisten |-> FALSE]

CPc == {"idle", "dialed", "loop", "streams", "streamCookie", "results",
        "ended", "failed", "killed"}
SPc == {"loop", "cookie", "params", "streamCookie", "results", "ended", "exited"}
Error == {"none", "IECONNECT", "IECTRLCLOSE", "IESTREAMCONNECT", "IESTREAMWRITE",
          "IESTREAMID", "IEMESSAGE", "IESERVERTERM", "IECLIENTTERM",
          "IEACCESSDENIED", "IESERVERERROR", "IESTREAMLISTEN", "IELISTEN", "IESELECT"}

TypeOK ==
    /\ up \in [Conns -> Seq(Message)]
    /\ down \in [Conns -> Seq(Message)]
    /\ cEnd \in [Conns -> {"none", "open", "closed"}]
    /\ sEnd \in [Conns -> {"none", "open", "closed"}]
    /\ backlog \in Seq(Conns)
    /\ listening \in BOOLEAN
    /\ cPc \in [Clients -> CPc]
    /\ cState \in [Clients -> State]
    /\ cOpt \in [Clients -> Config]
    /\ cStreams \in [Clients -> Seq(Stream)]
    /\ cGot \in [Clients -> SUBSET Nat]
    /\ cErr \in [Clients -> Error]
    /\ sPc \in SPc
    /\ sState \in State
    /\ sCtrl \in Conns \cup {NoConn}
    /\ sCookie \in Clients \cup {NoClient}
    /\ sOpt \in Config
    /\ sStreams \in Seq(Stream)
    /\ sPend \in Conns \cup {NoConn}
    /\ sDone \in BOOLEAN
    /\ sTimer \in BOOLEAN
    /\ sErr \in Error

-----------------------------------------------------------------------------
(* Streams. *)

\* iperf_add_stream: the first stream of a test is 1, the next ones 3, 4, ...
StreamId(n) == IF n = 1 THEN 1 ELSE n + 1

IdsOf(streams) == {StreamId(n) : n \in DOMAIN streams}

\* How many streams a test has, counted from the client's options.
StreamsTotal(o) == IF o.mode = "BIDIRECTIONAL" THEN 2 * o.num ELSE o.num

\* The client creates its sending streams first.
ClientSends(o, n) == o.mode = "SENDER" \/ (o.mode = "BIDIRECTIONAL" /\ n <= o.num)

\* streams_to_rec and streams_to_send; get_parameters turns the client's mode
\* into the opposite mode of the server.
StreamsToRec(o) == IF o.mode = "RECEIVER" THEN 0 ELSE o.num
StreamsToSend(o) == IF o.mode = "SENDER" THEN 0 ELSE o.num

ConnsOf(streams) == {streams[n].conn : n \in DOMAIN streams}

Queued == {backlog[i] : i \in DOMAIN backlog}

-----------------------------------------------------------------------------
(* Sockets. *)

ClientSend(k, m) == up' = [up EXCEPT ![k] = Append(@, m)]

ServerSend(k, ms) == down' = [down EXCEPT ![k] = @ \o ms]

ServerClose(S) == sEnd' = [k \in Conns |-> IF k \in S THEN "closed" ELSE sEnd[k]]

\* What the exit of a process does to the sockets it still has.
ClientExitCloses(c) ==
    cEnd' = [k \in Conns |-> IF Owner(k) = c /\ cEnd[k] = "open" THEN "closed" ELSE cEnd[k]]

ServerExitCloses ==
    sEnd' = [k \in Conns |-> IF sEnd[k] = "open" THEN "closed" ELSE sEnd[k]]

\* The kernel completes the connection as soon as the server listens.
Dial(k) ==
    /\ listening
    /\ cEnd' = [cEnd EXCEPT ![k] = "open"]
    /\ sEnd' = [sEnd EXCEPT ![k] = "open"]
    /\ backlog' = Append(backlog, k)
    /\ UNCHANGED <<up, down, listening>>

-----------------------------------------------------------------------------
(* The client: iperf_run_client and the handlers it calls. *)

\* iperf_free_test frees memory and closes no socket.
iperf_free_test == UNCHANGED cEnd

\* An error return of iperf_run_client.  The command line program exits, which
\* closes its sockets.  IperfTest::run_client throws and ~IperfTest calls
\* iperf_free_test.
ClientFails(c, err) ==
    /\ cPc' = [cPc EXCEPT ![c] = "failed"]
    /\ cErr' = [cErr EXCEPT ![c] = err]
    /\ IF c \in InApp THEN iperf_free_test ELSE ClientExitCloses(c)

ClientGoes(c, pc, state) ==
    /\ cPc' = [cPc EXCEPT ![c] = pc]
    /\ cState' = [cState EXCEPT ![c] = state]

\* iperf_connect: netdial, refused when nobody listens ...
iperf_connect(c) ==
    /\ cPc[c] = "idle"
    /\ \/ /\ Dial(Ctrl(c))
          /\ ClientGoes(c, "dialed", cState[c])
          /\ UNCHANGED <<cOpt, cStreams, cGot, cErr, srvVars>>
       \/ /\ ~listening
          /\ ClientFails(c, "IECONNECT")
          /\ UNCHANGED <<up, down, sEnd, backlog, listening,
                         cState, cOpt, cStreams, cGot, srvVars>>

\* ... then the cookie, after which the client waits for the server.
iperf_connect_cookie(c) ==
    /\ cPc[c] = "dialed"
    /\ ClientSend(Ctrl(c), Msg("COOKIE"))
    /\ ClientGoes(c, "loop", cState[c])
    /\ UNCHANGED <<down, cEnd, sEnd, backlog, listening,
                   cOpt, cStreams, cGot, cErr, srvVars>>

\* read() of one state byte in iperf_handle_message_client.
ClientReads(c, t) ==
    /\ cPc[c] = "loop"
    /\ down[Ctrl(c)] # <<>>
    /\ Head(down[Ctrl(c)]).t = t
    /\ down' = [down EXCEPT ![Ctrl(c)] = Tail(@)]

\* case PARAM_EXCHANGE: send_parameters.
ClientParamExchange(c) ==
    /\ ClientReads(c, "PARAM_EXCHANGE")
    /\ ClientGoes(c, "loop", "PARAM_EXCHANGE")
    /\ ClientSend(Ctrl(c), Msg("PARAMS"))
    /\ UNCHANGED <<cEnd, sEnd, backlog, listening, cOpt, cStreams, cGot, cErr, srvVars>>

\* Slip: test->state is not set before iperf_create_streams.
ClientCreateStreams_keepsState(c) ==
    /\ ClientReads(c, "CREATE_STREAMS")
    /\ ClientGoes(c, "streams", cState[c])
    /\ UNCHANGED <<up, cEnd, sEnd, backlog, listening, cOpt, cStreams, cGot, cErr, srvVars>>

\* case CREATE_STREAMS: iperf_create_streams starts.
ClientCreateStreams(c) ==
    /\ ClientReads(c, "CREATE_STREAMS")
    /\ ClientGoes(c, "streams", "CREATE_STREAMS")
    /\ UNCHANGED <<up, cEnd, sEnd, backlog, listening, cOpt, cStreams, cGot, cErr, srvVars>>

\* One round of iperf_create_streams: iperf_tcp_connect dials ...
iperf_tcp_connect(c) ==
    /\ cPc[c] = "streams"
    /\ Len(cStreams[c]) < StreamsTotal(cOpt[c])
    /\ Dial(<<c, Len(cStreams[c]) + 1>>)
    /\ ClientGoes(c, "streamCookie", cState[c])
    /\ UNCHANGED <<cOpt, cStreams, cGot, cErr, srvVars>>

\* ... and sends the cookie; iperf_new_stream appends the stream.
iperf_create_streams(c) ==
    LET n == Len(cStreams[c]) + 1
    IN  /\ cPc[c] = "streamCookie"
        /\ n <= StreamsTotal(cOpt[c])
        /\ ClientSend(<<c, n>>, Msg("COOKIE"))
        /\ cStreams' = [cStreams EXCEPT ![c] =
                            Append(@, [conn |-> <<c, n>>, sender |-> ClientSends(cOpt[c], n)])]
        /\ ClientGoes(c, IF n = StreamsTotal(cOpt[c]) THEN "loop" ELSE "streams", cState[c])
        /\ UNCHANGED <<down, cEnd, sEnd, backlog, listening, cOpt, cGot, cErr, srvVars>>

\* connect() of a stream fails: always when nobody listens, and whenever the
\* network lets it down.
ClientConnectError(c) ==
    /\ cPc[c] = "streams"
    /\ ClientFails(c, "IESTREAMCONNECT")
    /\ UNCHANGED <<up, down, sEnd, backlog, listening, cState, cOpt, cStreams, cGot, srvVars>>

ClientConnectRefused(c) == ~listening /\ ClientConnectError(c)

\* case TEST_START (the timers are created) and case TEST_RUNNING.
ClientTestPhase(c) ==
    \E t \in {"TEST_START", "TEST_RUNNING"} :
        /\ ClientReads(c, t)
        /\ ClientGoes(c, "loop", t)
        /\ UNCHANGED <<up, cEnd, sEnd, backlog, listening,
                       cOpt, cStreams, cGot, cErr, srvVars>>

\* create_client_timers: test->timer runs in a test with a duration, and
\* test_timer_proc then sets test->done.
HasDuration(o) == o.limit = "time"

\* "Is the test done yet?"  Either the duration is over, or enough bytes or
\* blocks were sent; a side that only receives sends none.
ClientTestEnd(c) ==
    /\ cPc[c] = "loop"
    /\ cState[c] = "TEST_RUNNING"
    /\ HasDuration(cOpt[c]) \/ cOpt[c].mode # "RECEIVER"
    /\ ClientGoes(c, "loop", "TEST_END")
    /\ ClientSend(Ctrl(c), Msg("TEST_END"))
    /\ UNCHANGED <<down, cEnd, sEnd, backlog, listening,
                   cOpt, cStreams, cGot, cErr, srvVars>>

\* iperf_send fails on a stream the server has closed.
ClientStreamError(c) ==
    /\ cPc[c] = "loop"
    /\ cState[c] = "TEST_RUNNING"
    /\ \E n \in DOMAIN cStreams[c] :
           cStreams[c][n].sender /\ sEnd[cStreams[c][n].conn] = "closed"
    /\ ClientFails(c, "IESTREAMWRITE")
    /\ UNCHANGED <<up, down, sEnd, backlog, listening, cState, cOpt, cStreams, cGot, srvVars>>

\* Slip: the client sends its results and does not read the server's.
ClientExchangeResults_noGet(c) ==
    /\ ClientReads(c, "EXCHANGE_RESULTS")
    /\ ClientGoes(c, "loop", "EXCHANGE_RESULTS")
    /\ ClientSend(Ctrl(c), [t |-> "RESULTS", ids |-> IdsOf(cStreams[c])])
    /\ UNCHANGED <<cEnd, sEnd, backlog, listening, cOpt, cStreams, cGot, cErr, srvVars>>

\* case EXCHANGE_RESULTS: send_results, then get_results blocks.
ClientExchangeResults(c) ==
    /\ ClientReads(c, "EXCHANGE_RESULTS")
    /\ ClientGoes(c, "results", "EXCHANGE_RESULTS")
    /\ ClientSend(Ctrl(c), [t |-> "RESULTS", ids |-> IdsOf(cStreams[c])])
    /\ UNCHANGED <<cEnd, sEnd, backlog, listening, cOpt, cStreams, cGot, cErr, srvVars>>

\* get_results: every id has to be the id of one of our streams.
ClientGetResults(c) ==
    /\ cPc[c] = "results"
    /\ down[Ctrl(c)] # <<>>
    /\ Head(down[Ctrl(c)]).t = "RESULTS"
    /\ down' = [down EXCEPT ![Ctrl(c)] = Tail(@)]
    /\ cGot' = [cGot EXCEPT ![c] = Head(down[Ctrl(c)]).ids]
    /\ IF Head(down[Ctrl(c)]).ids \subseteq IdsOf(cStreams[c])
       THEN /\ ClientGoes(c, "loop", cState[c])
            /\ UNCHANGED <<cEnd, cErr>>
       ELSE ClientFails(c, "IESTREAMID") /\ UNCHANGED cState
    /\ UNCHANGED <<up, sEnd, backlog, listening, cOpt, cStreams, srvVars>>

\* case DISPLAY_RESULTS: iperf_client_end closes the streams, reports, sends
\* IPERF_DONE and closes the control connection; the loop ends.
iperf_client_end(c) ==
    /\ ClientReads(c, "DISPLAY_RESULTS")
    /\ ClientGoes(c, "ended", "IPERF_DONE")
    /\ ClientSend(Ctrl(c), Msg("IPERF_DONE"))
    /\ ClientExitCloses(c)
    /\ UNCHANGED <<sEnd, backlog, listening, cOpt, cStreams, cGot, cErr, srvVars>>

\* case SERVER_TERMINATE, ACCESS_DENIED, SERVER_ERROR and default (the first
\* byte of a JSON message is no state either).
ClientRefused(c) ==
    \E t \in {"SERVER_TERMINATE", "ACCESS_DENIED", "SERVER_ERROR", "RESULTS"} :
        /\ ClientReads(c, t)
        /\ ClientFails(c, CASE t = "SERVER_TERMINATE" -> "IESERVERTERM"
                            [] t = "ACCESS_DENIED" -> "IEACCESSDENIED"
                            [] t = "SERVER_ERROR" -> "IESERVERERROR"
                            [] OTHER -> "IEMESSAGE")
        /\ UNCHANGED <<up, sEnd, backlog, listening, cState, cOpt, cStreams, cGot, srvVars>>

\* The server closed the control connection: read() returns 0, and so does
\* JSON_read whatever it had found instead of the results.
ClientEOF(c) ==
    /\ sEnd[Ctrl(c)] = "closed"
    /\ \/ cPc[c] = "loop" /\ down[Ctrl(c)] = <<>>
       \/ /\ cPc[c] = "results"
          /\ down[Ctrl(c)] = <<>> \/ Head(down[Ctrl(c)]).t # "RESULTS"
    /\ ClientFails(c, "IECTRLCLOSE")
    /\ UNCHANGED <<up, down, sEnd, backlog, listening, cState, cOpt, cStreams, cGot, srvVars>>

\* A reset connection drops what had not been read.
ClientReset(c) ==
    /\ sEnd[Ctrl(c)] = "closed"
    /\ cPc[c] \in {"dialed", "loop", "results"}
    /\ ClientFails(c, "IECTRLCLOSE")
    /\ UNCHANGED <<up, down, sEnd, backlog, listening, cState, cOpt, cStreams, cGot, srvVars>>

\* iperf_got_sigend: CLIENT_TERMINATE, then exit.  Wherever the client was,
\* the byte goes out next on the control connection.
iperf_got_sigend_client(c) ==
    /\ c \notin InApp
    /\ cPc[c] \in {"dialed", "loop", "streams", "streamCookie", "results"}
    /\ ClientSend(Ctrl(c), Msg("CLIENT_TERMINATE"))
    /\ ClientGoes(c, "killed", "CLIENT_TERMINATE")
    /\ cErr' = [cErr EXCEPT ![c] = "IECLIENTTERM"]
    /\ ClientExitCloses(c)
    /\ UNCHANGED <<down, sEnd, backlog, listening, cOpt, cStreams, cGot, srvVars>>

\* The process dies (the app included) and the kernel closes its sockets.
ClientCrash(c) ==
    /\ cPc[c] \in {"dialed", "loop", "streams", "streamCookie", "results", "failed"}
    /\ \E k \in Conns : Owner(k) = c /\ cEnd[k] = "open"
    /\ cPc' = [cPc EXCEPT ![c] = "killed"]
    /\ ClientExitCloses(c)
    /\ UNCHANGED <<up, down, sEnd, backlog, listening,
                   cState, cOpt, cStreams, cGot, cErr, srvVars>>

-----------------------------------------------------------------------------
(* The server: iperf_run_server and the handlers it calls. *)

\* Slip: the control connection is left open.
cleanup_server_leavesCtrl(S, err) ==
    /\ ServerClose(S \cup Queued)
    /\ backlog' = <<>>
    /\ listening' = FALSE
    /\ sTimer' = FALSE
    /\ sPend' = NoConn
    /\ sPc' = "ended"
    /\ sErr' = err

\* Leaving iperf_run_server: cleanup_server closes the control connection and
\* the listener (and with it every connection not accepted yet) and cancels
\* the timers.  S is what the code closed before.
cleanup_server(S, err) ==
    /\ ServerClose(S \cup {sCtrl} \cup Queued)
    /\ backlog' = <<>>
    /\ listening' = FALSE
    /\ sTimer' = FALSE
    /\ sPend' = NoConn
    /\ sPc' = "ended"
    /\ sErr' = err

\* select() succeeds as long as every socket it is given is open.
SelectOk == sPc = "loop" /\ (sCtrl # NoConn => sEnd[sCtrl] = "open")

\* A state byte, the cookie or a JSON message is there to be read.
ServerFinds(k, t) == up[k] # <<>> /\ Head(up[k]).t = t

ServerReads(k) == up' = [up EXCEPT ![k] = IF @ = <<>> THEN @ ELSE Tail(@)]

\* iperf_accept when the server is free: the connection becomes the control
\* connection, and the server blocks until the cookie has come.
iperf_accept(k) ==
    /\ SelectOk
    /\ sState # "CREATE_STREAMS"
    /\ backlog # <<>> /\ k = Head(backlog)
    /\ sCtrl = NoConn
    /\ sCtrl' = k
    /\ backlog' = Tail(backlog)
    /\ sPc' = "cookie"
    /\ UNCHANGED <<up, down, cEnd, sEnd, listening, cliVars,
                   sState, sCookie, sOpt, sStreams, sPend, sDone, sTimer, sErr>>

\* iperf_accept when it is not: ACCESS_DENIED, and the socket is closed.
iperf_accept_busy(k) ==
    /\ SelectOk
    /\ sState # "CREATE_STREAMS"
    /\ backlog # <<>> /\ k = Head(backlog)
    /\ sCtrl # NoConn
    /\ backlog' = Tail(backlog)
    /\ ServerSend(k, <<Msg("ACCESS_DENIED")>>)
    /\ ServerClose({k})
    /\ UNCHANGED <<up, cEnd, listening, cliVars, srvVars>>

\* The cookie has been read, or the connection ended before it was there,
\* which Nread does not report as an error: PARAM_EXCHANGE goes out, the
\* parameters are next.
iperf_accept_cookie ==
    /\ sPc = "cookie"
    /\ \/ /\ ServerFinds(sCtrl, "COOKIE")
          /\ ServerReads(sCtrl)
          /\ sCookie' = Owner(sCtrl)
       \/ /\ ~ServerFinds(sCtrl, "COOKIE") /\ cEnd[sCtrl] = "closed"
          /\ up' = [up EXCEPT ![sCtrl] = <<>>]
          /\ sCookie' = NoClient
    /\ sState' = "PARAM_EXCHANGE"
    /\ ServerSend(sCtrl, <<Msg("PARAM_EXCHANGE")>>)
    /\ sPc' = "params"
    /\ UNCHANGED <<cEnd, sEnd, backlog, listening, cliVars,
                   sCtrl, sOpt, sStreams, sPend, sDone, sTimer, sErr>>

\* iperf_tcp_listen: with nodelay, MSS or window the listener is thrown away
\* and made anew, which resets the connections waiting on it.
iperf_tcp_listen(anew) ==
    IF anew THEN ServerClose(Queued) /\ backlog' = <<>>
            ELSE UNCHANGED <<sEnd, backlog>>

\* The parameters a client has sent become the server's.
get_parameters(k) == cOpt[Owner(k)]

\* get_parameters and protocol->listen in iperf_exchange_parameters.
iperf_exchange_parameters ==
    /\ sPc = "params"
    /\ ServerFinds(sCtrl, "PARAMS")
    /\ ServerReads(sCtrl)
    /\ sOpt' = get_parameters(sCtrl)
    /\ sState' = "CREATE_STREAMS"
    /\ ServerSend(sCtrl, <<Msg("CREATE_STREAMS")>>)
    /\ iperf_tcp_listen(get_parameters(sCtrl).relisten)
    /\ sPc' = "loop"
    /\ UNCHANGED <<cEnd, listening, cliVars,
                   sCtrl, sCookie, sStreams, sPend, sDone, sTimer, sErr>>

\* protocol->listen fails: SERVER_ERROR with the two error numbers.
ListenError ==
    /\ sPc = "params"
    /\ ServerFinds(sCtrl, "PARAMS")
    /\ ServerReads(sCtrl)
    /\ sOpt' = get_parameters(sCtrl)
    /\ sState' = "SERVER_ERROR"
    /\ ServerSend(sCtrl, <<Msg("SERVER_ERROR")>>)
    /\ cleanup_server({}, "IESTREAMLISTEN")
    /\ UNCHANGED <<cEnd, cliVars, sCtrl, sCookie, sStreams, sDone>>

\* In CREATE_STREAMS every new connection goes to iperf_tcp_accept, which
\* blocks until its cookie has come.
iperf_tcp_accept ==
    /\ SelectOk
    /\ sState = "CREATE_STREAMS"
    /\ backlog # <<>>
    /\ sPend' = Head(backlog)
    /\ backlog' = Tail(backlog)
    /\ sPc' = "streamCookie"
    /\ UNCHANGED <<up, down, cEnd, sEnd, listening, cliVars,
                   sState, sCtrl, sCookie, sOpt, sStreams, sDone, sTimer, sErr>>

\* Slip: any cookie will do.
CookieMatches_any(k) == ServerFinds(k, "COOKIE")

\* strcmp(test->cookie, cookie) == 0
CookieMatches(k) == ServerFinds(k, "COOKIE") /\ Owner(k) = sCookie

\* A connection that ends before it sent a byte leaves the buffer of
\* iperf_tcp_accept uninitialized.  It may hold what the previous call left
\* there, the cookie of this test.
CookieLeftOver(k) ==
    StaleCookie /\ up[k] = <<>> /\ cEnd[k] = "closed" /\ sStreams # <<>>

\* The streams the server receives on are accepted first.
NextIsSender == Len(sStreams) >= StreamsToRec(sOpt)

\* create_server_timers: a test with a duration gets a watchdog.
HasWatchdog(o) == o.limit = "time"

\* The cookie is this test's: iperf_new_stream; with the last stream the test
\* starts and runs.
AcceptStream ==
    LET streams == Append(sStreams, [conn |-> sPend, sender |-> NextIsSender])
        all == Len(streams) = StreamsToRec(sOpt) + StreamsToSend(sOpt)
        timed == all /\ HasWatchdog(sOpt)
    IN  /\ sPc = "streamCookie"
        /\ CookieMatches(sPend) \/ CookieLeftOver(sPend)
        /\ ServerReads(sPend)
        /\ sStreams' = streams
        /\ sPend' = NoConn
        /\ sPc' = "loop"
        /\ sState' = IF all THEN "TEST_RUNNING" ELSE sState
        /\ IF all
           THEN ServerSend(sCtrl, <<Msg("TEST_START"), Msg("TEST_RUNNING")>>)
           ELSE UNCHANGED down
        /\ iperf_tcp_listen(all /\ sOpt.relisten)
        /\ sTimer' = timed
        /\ sDone' = (sDone /\ ~timed)
        /\ UNCHANGED <<cEnd, listening, cliVars, sCtrl, sCookie, sOpt, sErr>>

\* The last stream is there, but netannounce fails when the listener, closed
\* already, is opened again: the test ends before the client hears of it.
ReopenError ==
    LET streams == Append(sStreams, [conn |-> sPend, sender |-> NextIsSender])
    IN  /\ sPc = "streamCookie"
        /\ CookieMatches(sPend) \/ CookieLeftOver(sPend)
        /\ Len(streams) = StreamsToRec(sOpt) + StreamsToSend(sOpt)
        /\ sOpt.relisten
        /\ ServerReads(sPend)
        /\ sStreams' = streams
        /\ cleanup_server({}, "IELISTEN")
        /\ UNCHANGED <<down, cEnd, cliVars, sState, sCtrl, sCookie, sOpt, sDone>>

\* Another cookie, or none because the connection ended: ACCESS_DENIED.
DenyStream ==
    /\ sPc = "streamCookie"
    /\ ~CookieMatches(sPend)
    /\ up[sPend] # <<>> \/ cEnd[sPend] = "closed"
    /\ ServerSend(sPend, <<Msg("ACCESS_DENIED")>>)
    /\ ServerClose({sPend})
    /\ sPend' = NoConn
    /\ sPc' = "loop"
    /\ UNCHANGED <<up, cEnd, backlog, listening, cliVars,
                   sState, sCtrl, sCookie, sOpt, sStreams, sDone, sTimer, sErr>>

\* Slip: the streams are left to be closed with the test.
ServerTestEnd_leavesStreams ==
    /\ SelectOk /\ sCtrl # NoConn
    /\ ServerFinds(sCtrl, "TEST_END")
    /\ ServerReads(sCtrl)
    /\ sDone' = TRUE
    /\ sState' = "EXCHANGE_RESULTS"
    /\ ServerSend(sCtrl, <<Msg("EXCHANGE_RESULTS")>>)
    /\ sPc' = "results"
    /\ UNCHANGED <<cEnd, sEnd, backlog, listening, cliVars,
                   sCtrl, sCookie, sOpt, sStreams, sPend, sTimer, sErr>>

\* iperf_handle_message_server, case TEST_END: the streams are closed and the
\* server blocks in get_results.
ServerTestEnd ==
    /\ SelectOk /\ sCtrl # NoConn
    /\ ServerFinds(sCtrl, "TEST_END")
    /\ ServerReads(sCtrl)
    /\ sDone' = TRUE
    /\ ServerClose(ConnsOf(sStreams))
    /\ sState' = "EXCHANGE_RESULTS"
    /\ ServerSend(sCtrl, <<Msg("EXCHANGE_RESULTS")>>)
    /\ sPc' = "results"
    /\ UNCHANGED <<cEnd, backlog, listening, cliVars,
                   sCtrl, sCookie, sOpt, sStreams, sPend, sTimer, sErr>>

\* Slip: send_results walks an empty list of streams.
iperf_exchange_results_noStreams ==
    /\ sPc = "results"
    /\ ServerFinds(sCtrl, "RESULTS")
    /\ ServerReads(sCtrl)
    /\ ServerSend(sCtrl, <<[t |-> "RESULTS", ids |-> {}], Msg("DISPLAY_RESULTS")>>)
    /\ sState' = "DISPLAY_RESULTS"
    /\ sPc' = "loop"
    /\ UNCHANGED <<cEnd, sEnd, backlog, listening, cliVars,
                   sCtrl, sCookie, sOpt, sStreams, sPend, sDone, sTimer, sErr>>

\* get_results, send_results, DISPLAY_RESULTS.
iperf_exchange_results ==
    /\ sPc = "results"
    /\ ServerFinds(sCtrl, "RESULTS")
    /\ ServerReads(sCtrl)
    /\ IF Head(up[sCtrl]).ids \subseteq IdsOf(sStreams)
       THEN /\ ServerSend(sCtrl, <<[t |-> "RESULTS", ids |-> IdsOf(sStreams)],
                                   Msg("DISPLAY_RESULTS")>>)
            /\ sState' = "DISPLAY_RESULTS"
            /\ sPc' = "loop"
            /\ UNCHANGED <<sEnd, backlog, listening, sPend, sTimer, sErr>>
       ELSE /\ cleanup_server({}, "IESTREAMID")
            /\ UNCHANGED <<down, sState>>
    /\ UNCHANGED <<cEnd, cliVars, sCtrl, sCookie, sOpt, sStreams, sDone>>

\* case IPERF_DONE, case CLIENT_TERMINATE (the streams are closed) and default.
ServerLeaves ==
    /\ SelectOk /\ sCtrl # NoConn
    /\ up[sCtrl] # <<>> /\ Head(up[sCtrl]).t # "TEST_END"
    /\ ServerReads(sCtrl)
    /\ LET t == Head(up[sCtrl]).t
       IN  /\ cleanup_server(IF t = "CLIENT_TERMINATE" THEN ConnsOf(sStreams) ELSE {},
                             CASE t = "IPERF_DONE" -> "none"
                               [] t = "CLIENT_TERMINATE" -> "IECLIENTTERM"
                               [] OTHER -> "IEMESSAGE")
           /\ sState' = IF t \in {"IPERF_DONE", "CLIENT_TERMINATE"} THEN "IPERF_DONE"
                                                                    ELSE sState
    /\ UNCHANGED <<down, cEnd, cliVars, sCtrl, sCookie, sOpt, sStreams, sDone>>

\* Slip: only the loop notices that the client is gone, a blocked read does not.
ServerEOF_loopOnly ==
    /\ sCtrl # NoConn
    /\ cEnd[sCtrl] = "closed"
    /\ SelectOk /\ up[sCtrl] = <<>>
    /\ cleanup_server({}, "IECTRLCLOSE")
    /\ sState' = "IPERF_DONE"
    /\ UNCHANGED <<up, down, cEnd, cliVars, sCtrl, sCookie, sOpt, sStreams, sDone>>

\* The client has closed the control connection.  In the loop that ends the
\* test; a short read of a JSON message fails the handler.
ServerEOF ==
    /\ sCtrl # NoConn
    /\ cEnd[sCtrl] = "closed"
    /\ \/ SelectOk /\ up[sCtrl] = <<>>
       \/ sPc = "params" /\ ~ServerFinds(sCtrl, "PARAMS")
       \/ sPc = "results" /\ ~ServerFinds(sCtrl, "RESULTS")
    /\ cleanup_server({}, "IECTRLCLOSE")
    /\ sState' = IF sPc = "loop" THEN "IPERF_DONE" ELSE sState
    /\ UNCHANGED <<up, down, cEnd, cliVars, sCtrl, sCookie, sOpt, sStreams, sDone>>

\* read() or write() fails because the other side reset the connection: the
\* control connection, the stream being accepted, a client being turned away,
\* or a stream the server sends on.
ServerReset ==
    /\ \/ sCtrl # NoConn /\ cEnd[sCtrl] = "closed" /\ sPc \in {"cookie", "params", "results"}
       \/ SelectOk /\ sCtrl # NoConn /\ cEnd[sCtrl] = "closed"
       \/ sPc = "streamCookie" /\ cEnd[sPend] = "closed"
       \/ /\ SelectOk /\ sCtrl # NoConn /\ sState # "CREATE_STREAMS"
          /\ backlog # <<>> /\ cEnd[Head(backlog)] = "closed"
       \/ /\ SelectOk /\ sState = "TEST_RUNNING"
          /\ \E n \in DOMAIN sStreams :
                 sStreams[n].sender /\ cEnd[sStreams[n].conn] = "closed"
    /\ cleanup_server({}, "IECTRLCLOSE")
    /\ UNCHANGED <<up, down, cEnd, cliVars, sState, sCtrl, sCookie, sOpt, sStreams, sDone>>

\* server_timer_proc, the watchdog of a test with a duration.
server_timer_proc ==
    /\ SelectOk
    /\ sTimer
    /\ sTimer' = FALSE
    /\ IF sDone
       THEN UNCHANGED <<sEnd, sDone, sStreams>>
       ELSE /\ sDone' = TRUE
            /\ ServerClose(ConnsOf(sStreams) \cup {sCtrl})
            /\ sStreams' = <<>>
    /\ UNCHANGED <<up, down, cEnd, backlog, listening, cliVars,
                   sPc, sState, sCtrl, sCookie, sOpt, sPend, sErr>>

\* The watchdog leaves the closed sockets in read_set: select() fails.
SelectError ==
    /\ sPc = "loop" /\ ~SelectOk
    /\ cleanup_server({}, "IESELECT")
    /\ UNCHANGED <<up, down, cEnd, cliVars, sState, sCtrl, sCookie, sOpt, sStreams, sDone>>

\* netannounce opens the listener at the start of iperf_run_server.
iperf_server_listen == listening' = TRUE

\* Slip: num_streams is zeroed like the counters around it.
iperf_reset_test_zero ==
    /\ sPc = "ended"
    /\ sStreams' = <<>>
    /\ sDone' = FALSE
    /\ sCtrl' = NoConn
    /\ sCookie' = NoClient
    /\ sOpt' = [DefaultOpt EXCEPT !.num = 0]
    /\ sState' = "IPERF_START"
    /\ sPc' = "loop"
    /\ iperf_server_listen
    /\ UNCHANGED <<up, down, cEnd, sEnd, backlog, cliVars, sPend, sTimer, sErr>>

\* Slip: the control socket is not reset to -1.
iperf_reset_test_keepsCtrl ==
    /\ sPc = "ended"
    /\ sStreams' = <<>>
    /\ sDone' = FALSE
    /\ sCookie' = NoClient
    /\ sOpt' = DefaultOpt
    /\ sState' = "IPERF_START"
    /\ sPc' = "loop"
    /\ iperf_server_listen
    /\ UNCHANGED <<up, down, cEnd, sEnd, backlog, cliVars, sCtrl, sPend, sTimer, sErr>>

\* The loop of run() in main.c: iperf_reset_test forgets the streams without
\* closing them, then iperf_run_server listens again.
iperf_reset_test ==
    /\ sPc = "ended"
    /\ sStreams' = <<>>
    /\ sDone' = FALSE
    /\ sCtrl' = NoConn
    /\ sCookie' = NoClient
    /\ sOpt' = DefaultOpt
    /\ sState' = "IPERF_START"
    /\ sPc' = "loop"
    /\ iperf_server_listen
    /\ UNCHANGED <<up, down, cEnd, sEnd, backlog, cliVars, sPend, sTimer, sErr>>

\* iperf_got_sigend: SERVER_TERMINATE to the client of the test, then exit.
iperf_got_sigend_server ==
    /\ sPc # "exited"
    /\ IF sCtrl # NoConn /\ sEnd[sCtrl] = "open"
       THEN ServerSend(sCtrl, <<Msg("SERVER_TERMINATE")>>)
       ELSE UNCHANGED down
    /\ ServerExitCloses
    /\ backlog' = <<>>
    /\ listening' = FALSE
    /\ sPc' = "exited"
    /\ sErr' = "IESERVERTERM"
    /\ UNCHANGED <<up, cEnd, cliVars,
                   sState, sCtrl, sCookie, sOpt, sStreams, sPend, sDone, sTimer>>

-----------------------------------------------------------------------------
Init ==
    /\ up = [k \in Conns |-> <<>>]
    /\ down = [k \in Conns |-> <<>>]
    /\ cEnd = [k \in Conns |-> "none"]
    /\ sEnd = [k \in Conns |-> "none"]
    /\ backlog = <<>>
    /\ listening = TRUE
    /\ cPc = [c \in Clients |-> "idle"]
    /\ cState = [c \in Clients |-> "IPERF_START"]
    /\ cOpt \in [Clients -> Configs]
    /\ cStreams = [c \in Clients |-> <<>>]
    /\ cGot = [c \in Clients |-> {}]
    /\ cErr = [c \in Clients |-> "none"]
    /\ sPc = "loop"
    /\ sState = "IPERF_START"
    /\ sCtrl = NoConn
    /\ sCookie = NoClient
    /\ sOpt = DefaultOpt
    /\ sStreams = <<>>
    /\ sPend = NoConn
    /\ sDone = FALSE
    /\ sTimer = FALSE
    /\ sErr = "none"

\* What a running client does by itself.
ClientStep(c) ==
    \/ iperf_connect_cookie(c)
    \/ ClientParamExchange(c)
    \/ ClientCreateStreams(c)
    \/ iperf_tcp_connect(c)
    \/ iperf_create_streams(c)
    \/ ClientConnectRefused(c)
    \/ ClientTestPhase(c)
    \/ ClientTestEnd(c)
    \/ ClientExchangeResults(c)
    \/ ClientGetResults(c)
    \/ iperf_client_end(c)
    \/ ClientRefused(c)
    \/ ClientEOF(c)

\* What users, signals and the network do to a client.
ClientFault(c) ==
    \/ iperf_connect(c)
    \/ ClientConnectError(c)
    \/ ClientStreamError(c)
    \/ ClientReset(c)
    \/ iperf_got_sigend_client(c)
    \/ ClientCrash(c)

\* What the server does by itself.
ServerStep ==
    \/ \E k \in Conns : iperf_accept(k) \/ iperf_accept_busy(k)
    \/ iperf_accept_cookie
    \/ iperf_exchange_parameters
    \/ iperf_tcp_accept
    \/ AcceptStream
    \/ DenyStream
    \/ ServerTestEnd
    \/ iperf_exchange_results
    \/ ServerLeaves
    \/ ServerEOF
    \/ SelectError
    \/ iperf_reset_test

ServerFault ==
    \/ ListenError
    \/ ReopenError
    \/ ServerReset
    \/ iperf_got_sigend_server

Next ==
    \/ \E c \in Clients : ClientStep(c) \/ ClientFault(c)
    \/ ServerStep
    \/ server_timer_proc
    \/ ServerFault

Spec == Init /\ [][Next]_vars

\* Every process is scheduled, select() returns when a socket is ready and a
\* timer expires; nothing is assumed about users, signals and the network.
Fairness ==
    /\ \A c \in Clients : WF_vars(ClientStep(c))
    /\ WF_vars(ServerStep)
    /\ WF_vars(server_timer_proc)

FairSpec == Spec /\ Fairness

-----------------------------------------------------------------------------
(* Safety. *)

\* The client process still runs.
Alive(c) == cPc[c] \notin {"idle", "ended", "failed", "killed"}

\* Stream lists agree: while the server runs a test, its n-th stream is the
\* n-th stream of the client of that test and of nobody else, and one end of
\* it sends where the other receives.  The ids both sides put into their
\* results (iperf_add_stream numbers the streams in list order) rest on it;
\* the list is filled from a listener every other client connects to as well.
StreamAgreement ==
    \A n \in DOMAIN sStreams :
        LET c == Owner(sCtrl)
        IN  /\ sCtrl = Ctrl(c)
            /\ sStreams[n].conn = <<c, n>>
            /\ n \in DOMAIN cStreams[c]
            /\ cStreams[c][n].conn = <<c, n>>
            /\ cStreams[c][n].sender = ~sStreams[n].sender

\* One test at a time: a client whom the server has told to go on, and whose
\* control connection the server still holds, is the client of the server's
\* present test, whatever other clients connected or died in between.
SingleSession ==
    \A c \in Clients :
        (sEnd[Ctrl(c)] = "open" /\ cState[c] \notin {"IPERF_START", "CLIENT_TERMINATE"})
            => sCtrl = Ctrl(c)

\* The last state the server announced to a client, read by it or not yet.
LastAnnounced(c) ==
    IF down[Ctrl(c)] = <<>> THEN cState[c]
    ELSE down[Ctrl(c)][Len(down[Ctrl(c)])].t

\* Phases agree: the phase the server is in is the one the client of its test
\* is in or will reach by reading what is on its way, or the client has asked
\* for the next one itself (TEST_END, IPERF_DONE).
PhaseAgreement ==
    \A c \in Clients :
        (sCtrl = Ctrl(c) /\ Alive(c) /\ sEnd[Ctrl(c)] = "open") =>
            LastAnnounced(c) \in
                CASE sPc = "cookie" -> {"IPERF_START"}
                  [] sState = "TEST_RUNNING" -> {"TEST_RUNNING", "TEST_END"}
                  [] OTHER -> {sState}

\* Nobody misreads the control connection: no process ever takes a JSON
\* message for a state byte, meets a state it does not expect, or receives
\* results about a stream it does not have, wherever signals cut in.
InSync ==
    /\ sErr \notin {"IEMESSAGE", "IESTREAMID"}
    /\ \A c \in Clients : cErr[c] \notin {"IEMESSAGE", "IESTREAMID"}

\* A client that reports success has the server's figures for every one of
\* its streams, and for no other.
ResultsComplete ==
    \A c \in Clients : cPc[c] = "ended" => cGot[c] = IdsOf(cStreams[c]) /\ cGot[c] # {}

\* The ways to end a test that close its streams do close all of them: when the
\* test was done, or the client gave it up by CLIENT_TERMINATE, no stream stays
\* open at the server.  (An error end leaves them open: cleanup_server does not
\* look at them and iperf_reset_test forgets them.)
StreamsReleased ==
    sPc = "ended" /\ (sDone \/ sErr \in {"none", "IECLIENTTERM"})
        => \A n \in DOMAIN sStreams : sEnd[sStreams[n].conn] # "open"

-----------------------------------------------------------------------------
(* Liveness. *)

\* The server does not stay with one client for ever: every test it has
\* taken on ends and it listens again (or exits).
ServerFreed == (sCtrl # NoConn) ~> (sCtrl = NoConn \/ sPc = "exited")

\* Every client that connected comes to an end, with results or an error.
ClientFinishes == \A c \in Clients : Alive(c) ~> ~Alive(c)
=============================================================================
