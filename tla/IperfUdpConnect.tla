-------------------------- MODULE IperfUdpConnect --------------------------
(***************************************************************************)
(* How the streams of a UDP test come about (iperf_udp.c).  UDP has no     *)
(* connections: the client writes one datagram on a new socket             *)
(* (iperf_udp_connect) and waits 30 seconds for an answer; the server      *)
(* takes whatever datagram arrives at its listener for a new stream        *)
(* (iperf_udp_accept), connects the listener's socket to the sender, opens *)
(* a new listener and answers.  There is no cookie and no repetition.      *)
(*                                                                         *)
(* The control connection, modelled in full by IperfControl, is reduced    *)
(* here to whom the server's test belongs to and to what each side has     *)
(* told the other.  Datagrams may be lost, repeated and overtaken, and     *)
(* those of one test may arrive in the next.                               *)
(*                                                                         *)
(* A socket of a client is a pair <<c, n>>, its n-th stream.               *)
(***************************************************************************)
EXTENDS Naturals, Sequences

CONSTANTS
    Clients,      \* the client processes, each runs one UDP test
    Total,        \* the streams of a test, in both directions
    Settings,     \* the blksize and the window (-w, 0 for none) of their tests
    DefaultBuf,   \* the kernel's default size of a socket buffer
    MaxBuf,       \* the largest one it grants
    MaxQueued,    \* bound: datagrams the listener's buffer holds
    NoClient      \* the server has no test

UDP_BUFFER_EXTRA == 1024

ASSUME UdpConnectAssumption ==
    /\ Total \in Nat \ {0}
    /\ Settings \subseteq [Clients -> [blk : Nat \ {0}, window : Nat]]
    /\ DefaultBuf \in Nat \ {0}
    /\ MaxBuf \in Nat \ {0}
    /\ MaxQueued \in Nat \ {0}
    /\ NoClient \notin Clients

Sockets == Clients \X (1..Total)

Owner(k) == k[1]

Datagram == [kind : {"hello", "data", "reply"}, sock : Sockets]

VARIABLES
    net,        \* the datagrams on their way
    cPc,        \* where a client is
    cStreams,   \* how many streams it has
    cOpt,       \* blksize and -w, as given on the command line
    cBuf,       \* settings->socket_bufsize
    cGranted,   \* the buffer size of its streams' sockets, in order
    sTest,      \* the client of the server's test
    sState,     \* test->state of the server
    sStreams,   \* the peers its streams are connected to
    sListen,    \* test->prot_listener is open
    sQueue,     \* the senders of the datagrams in prot_listener's buffer
    sBuf,       \* settings->socket_bufsize of the server
    sGranted,   \* the buffer size of its streams' sockets
    sLeft       \* the peers of stream sockets that earlier tests left open

cliVars == <<cPc, cStreams, cOpt, cBuf, cGranted>>
srvVars == <<sTest, sState, sStreams, sListen, sQueue, sBuf, sGranted, sLeft>>
vars == <<net, cliVars, srvVars>>

ConnsOf(c) == {c} \X (1..Total)

Peers == {sStreams[n] : n \in DOMAIN sStreams}

-----------------------------------------------------------------------------
(* Socket buffers. *)

Least(a, b) == IF a < b THEN a ELSE b

\* What getsockopt says: the default, or twice what was asked for, as far as
\* the kernel grants it.
Actual(size) == IF size = 0 THEN DefaultBuf ELSE 2 * Least(size, MaxBuf)

\* iperf_udp_buffercheck: -1 (here "error"), +1 ("small") or 0 ("ok").
iperf_udp_buffercheck(size, blk) ==
    CASE size > Actual(size) -> "error"
      [] size <= Actual(size) /\ blk > Actual(size) -> "small"
      [] OTHER -> "ok"

\* Slip: a buffer that is too small is left as it is.
SocketBuf_warnOnly(size, blk) == size

\* Both sides: a default buffer that is too small for a block is replaced by
\* one that is larger, and the settings remember it for the next streams.
SocketBuf(size, blk) ==
    IF size = 0 /\ iperf_udp_buffercheck(size, blk) = "small" THEN blk + UDP_BUFFER_EXTRA ELSE size

BufferError(size, blk) == iperf_udp_buffercheck(SocketBuf(size, blk), blk) = "error"

-----------------------------------------------------------------------------
(* The client. *)

\* The control connection: the server is free, both exchange the parameters
\* and the server opens its UDP listener (iperf_udp_listen).
StartTest(c) ==
    /\ cPc[c] = "idle"
    /\ sTest = NoClient
    /\ sTest' = c
    /\ sState' = "CREATE_STREAMS"
    /\ sListen' = TRUE
    /\ sQueue' = <<>>
    /\ sBuf' = cOpt[c].window
    /\ cPc' = [cPc EXCEPT ![c] = "connect"]
    /\ UNCHANGED <<net, cStreams, cOpt, cBuf, cGranted, sStreams, sGranted, sLeft>>

ClientGoes(c, pc) == cPc' = [cPc EXCEPT ![c] = pc]

\* iperf_udp_connect up to its write.
iperf_udp_connect(c) ==
    LET size == SocketBuf(cBuf[c], cOpt[c].blk)
    IN  /\ cPc[c] = "connect"
        /\ cBuf' = [cBuf EXCEPT ![c] = size]
        /\ IF BufferError(cBuf[c], cOpt[c].blk)
           THEN ClientGoes(c, "failed") /\ UNCHANGED <<net, cGranted>>
           ELSE /\ ClientGoes(c, "reply")
                /\ net' = net \cup {[kind |-> "hello", sock |-> <<c, cStreams[c] + 1>>]}
                /\ cGranted' = [cGranted EXCEPT ![c] = Append(@, Actual(size))]
        /\ UNCHANGED <<cStreams, cOpt, srvVars>>

\* Slip: one stream too many is made.
ClientReply_oneMore(c) ==
    LET d == [kind |-> "reply", sock |-> <<c, cStreams[c] + 1>>]
    IN  /\ cPc[c] = "reply"
        /\ d \in net
        /\ net' = net \ {d}
        /\ cStreams' = [cStreams EXCEPT ![c] = @ + 1]
        /\ ClientGoes(c, IF cStreams[c] = Total THEN "loop" ELSE "connect")
        /\ UNCHANGED <<cOpt, cBuf, cGranted, srvVars>>

\* recv returns the answer: iperf_create_streams has one stream more.
ClientReply(c) ==
    LET d == [kind |-> "reply", sock |-> <<c, cStreams[c] + 1>>]
    IN  /\ cPc[c] = "reply"
        /\ d \in net
        /\ net' = net \ {d}
        /\ cStreams' = [cStreams EXCEPT ![c] = @ + 1]
        /\ ClientGoes(c, IF cStreams[c] + 1 = Total THEN "loop" ELSE "connect")
        /\ UNCHANGED <<cOpt, cBuf, cGranted, srvVars>>

\* Slip: recv has no time limit.
ClientTimeout_never(c) == FALSE /\ UNCHANGED vars

\* Slip: the result of recv is not looked at.
ClientTimeout_ignored(c) ==
    /\ cPc[c] = "reply"
    /\ cStreams' = [cStreams EXCEPT ![c] = @ + 1]
    /\ ClientGoes(c, IF cStreams[c] + 1 = Total THEN "loop" ELSE "connect")
    /\ UNCHANGED <<net, cOpt, cBuf, cGranted, srvVars>>

\* SO_RCVTIMEO: no answer in 30 seconds, IESTREAMREAD.  (A port without a
\* socket answers with an ICMP error, which ends recv sooner in the same way.)
ClientTimeout(c) ==
    /\ cPc[c] = "reply"
    /\ ClientGoes(c, "failed")
    /\ UNCHANGED <<net, cStreams, cOpt, cBuf, cGranted, srvVars>>

\* TEST_START and TEST_RUNNING are read from the control connection.
ClientRuns(c) ==
    /\ cPc[c] = "loop"
    /\ sTest = c /\ sState = "TEST_RUNNING"
    /\ ClientGoes(c, "running")
    /\ UNCHANGED <<net, cStreams, cOpt, cBuf, cGranted, srvVars>>

\* iperf_udp_send.
iperf_udp_send(c) ==
    /\ cPc[c] = "running"
    /\ \E n \in 1..Total : net' = net \cup {[kind |-> "data", sock |-> <<c, n>>]}
    /\ UNCHANGED <<cliVars, srvVars>>

\* The client gives up its test: killed, or told by the control connection
\* that the server has ended it.
ClientKilled(c) ==
    /\ cPc[c] \in {"connect", "reply", "loop", "running"}
    /\ ClientGoes(c, "failed")
    /\ UNCHANGED <<net, cStreams, cOpt, cBuf, cGranted, srvVars>>

ClientEOF(c) == cPc[c] \in {"loop", "running"} /\ sTest # c /\ ClientKilled(c)

-----------------------------------------------------------------------------
(* The server. *)

\* cleanup_server, iperf_reset_test.  cleanup_server closes no stream: those that
\* TEST_END, CLIENT_TERMINATE or the watchdog has not closed before are forgotten
\* and stay open (and so does a UDP listener, but a newer one is served first).
ResetServer(leaves) ==
    /\ sLeft' = IF leaves THEN sLeft \cup Peers ELSE sLeft
    /\ sTest' = NoClient
    /\ sState' = "IPERF_START"
    /\ sStreams' = <<>>
    /\ sListen' = FALSE
    /\ sQueue' = <<>>
    /\ sBuf' = 0
    /\ sGranted' = <<>>

\* iperf_udp_accept: the first datagram's sender becomes the peer; what else
\* is in the buffer of that socket stays there and is read as data later.
\* With the last stream the listener is closed and the test starts.
iperf_udp_accept ==
    LET size == SocketBuf(sBuf, cOpt[sTest].blk)
        all == Len(sStreams) + 1 = Total
    IN  /\ sState = "CREATE_STREAMS" /\ sQueue # <<>>
        /\ ~BufferError(sBuf, cOpt[sTest].blk)
        /\ sStreams' = Append(sStreams, Head(sQueue))
        /\ sBuf' = size
        /\ sGranted' = Append(sGranted, Actual(size))
        /\ net' = net \cup {[kind |-> "reply", sock |-> Head(sQueue)]}
        /\ sListen' = ~all
        /\ sQueue' = <<>>
        /\ sState' = IF all THEN "TEST_RUNNING" ELSE sState
        /\ UNCHANGED <<cliVars, sTest, sLeft>>

\* connect, the buffers, netannounce or the write fail: cleanup_server.
AcceptError ==
    /\ sState = "CREATE_STREAMS" /\ sQueue # <<>>
    /\ ResetServer(TRUE)
    /\ UNCHANGED <<net, cliVars>>

BufferAcceptError == sTest # NoClient /\ BufferError(sBuf, cOpt[sTest].blk) /\ AcceptError

\* Slip: a client that failed while the streams are made is not noticed.
ServerEOF_runningOnly ==
    /\ sTest # NoClient
    /\ sState = "TEST_RUNNING"
    /\ cPc[sTest] \in {"failed", "ended"}
    /\ \E leaves \in BOOLEAN : ResetServer(leaves)
    /\ UNCHANGED <<net, cliVars>>

\* The control connection tells the server that its client has gone: its test has
\* ended, or it has sent CLIENT_TERMINATE, or just closed the connection.
ServerEOF ==
    /\ sTest # NoClient
    /\ \/ cPc[sTest] = "ended" /\ ResetServer(FALSE)
       \/ cPc[sTest] = "failed" /\ \E leaves \in BOOLEAN : ResetServer(leaves)
    /\ UNCHANGED <<net, cliVars>>

\* The watchdog or an error ends the test from the server's side.
ServerAborts ==
    /\ sTest # NoClient
    /\ \E leaves \in BOOLEAN : ResetServer(leaves)
    /\ UNCHANGED <<net, cliVars>>

\* The client ends a test that ran, results included.
iperf_client_end(c) ==
    /\ cPc[c] = "running" /\ sTest = c
    /\ ClientGoes(c, "ended")
    /\ UNCHANGED <<net, cStreams, cOpt, cBuf, cGranted, srvVars>>

-----------------------------------------------------------------------------
(* The network. *)

\* A datagram arrives at the server: at the socket connected to its sender (that
\* of an earlier test included), else at the listener, else nowhere.  It may
\* arrive again.
Arrive(d) ==
    /\ d \in net /\ d.kind # "reply"
    /\ \E again \in BOOLEAN : net' = IF again THEN net ELSE net \ {d}
    /\ sQueue' = IF d.sock \notin Peers \cup sLeft /\ sListen /\ Len(sQueue) < MaxQueued
                 THEN Append(sQueue, d.sock) ELSE sQueue
    /\ UNCHANGED <<cliVars, sTest, sState, sStreams, sListen, sBuf, sGranted, sLeft>>

Lose(d) ==
    /\ d \in net
    /\ net' = net \ {d}
    /\ UNCHANGED <<cliVars, srvVars>>

-----------------------------------------------------------------------------
Init ==
    /\ net = {}
    /\ cPc = [c \in Clients |-> "idle"]
    /\ cStreams = [c \in Clients |-> 0]
    /\ cOpt \in Settings
    /\ cBuf = [c \in Clients |-> cOpt[c].window]
    /\ cGranted = [c \in Clients |-> <<>>]
    /\ sTest = NoClient
    /\ sState = "IPERF_START"
    /\ sStreams = <<>>
    /\ sListen = FALSE
    /\ sQueue = <<>>
    /\ sBuf = 0
    /\ sGranted = <<>>
    /\ sLeft = {}

ClientStep(c) ==
    \/ iperf_udp_connect(c)
    \/ ClientReply(c)
    \/ ClientTimeout(c)
    \/ ClientRuns(c)
    \/ ClientEOF(c)
    \/ iperf_client_end(c)

ServerStep == iperf_udp_accept \/ BufferAcceptError \/ ServerEOF

Environment ==
    \/ \E c \in Clients : StartTest(c) \/ iperf_udp_send(c) \/ ClientKilled(c)
    \/ AcceptError
    \/ ServerAborts
    \/ \E d \in net : Arrive(d) \/ Lose(d)

Next == (\E c \in Clients : ClientStep(c)) \/ ServerStep \/ Environment

Spec == Init /\ [][Next]_vars

\* Both processes run and the 30 seconds pass; the network owes nothing.
FairSpec == Spec /\ (\A c \in Clients : WF_vars(ClientStep(c))) /\ WF_vars(ServerStep)

-----------------------------------------------------------------------------
(* Properties. *)

\* Every variable has its type; datagrams and queues name sockets of clients.
TypeOK ==
    /\ net \subseteq Datagram
    /\ cPc \in [Clients -> {"idle", "connect", "reply", "loop", "running", "ended", "failed"}]
    /\ cStreams \in [Clients -> 0..Total]
    /\ cOpt \in Settings
    /\ cBuf \in [Clients -> Nat]
    /\ cGranted \in [Clients -> Seq(Nat)]
    /\ sTest \in Clients \cup {NoClient}
    /\ sState \in {"IPERF_START", "CREATE_STREAMS", "TEST_RUNNING"}
    /\ sStreams \in Seq(Sockets)
    /\ sListen \in BOOLEAN
    /\ sQueue \in Seq(Sockets)
    /\ sBuf \in Nat
    /\ sGranted \in Seq(Nat)
    /\ sLeft \subseteq Sockets

\* A test that runs on both sides is paired: the n-th stream of the client of
\* the server's test is the n-th stream of the server, whatever datagrams were
\* lost, repeated or left over from the test before.  A stray datagram that
\* takes a stream's place leaves the client short of an answer, and the client
\* gives up before it measures anything.
UdpPairing ==
    \A c \in Clients :
        (sTest = c /\ cPc[c] \in {"loop", "running"}) =>
            sStreams = [n \in 1..Total |-> <<c, n>>]

\* A stream whose buffer was left to the program holds at least one block, on
\* both sides and for the later streams as well as for the first.
BufferHolds ==
    /\ \A c \in Clients : \A n \in DOMAIN cGranted[c] :
           cOpt[c].window = 0 => cGranted[c][n] >= cOpt[c].blk
    /\ \A n \in DOMAIN sGranted : cOpt[sTest].window = 0 => sGranted[n] >= cOpt[sTest].blk

\* Setting up ends, however many datagrams are lost: a client gets to its test
\* or fails, and the server never waits for streams for ever.
SetupEnds ==
    /\ \A c \in Clients : (cPc[c] \in {"connect", "reply", "loop"}) ~>
                              (cPc[c] \in {"running", "ended", "failed"})
    /\ (sState = "CREATE_STREAMS") ~> (sState # "CREATE_STREAMS")
=============================================================================
