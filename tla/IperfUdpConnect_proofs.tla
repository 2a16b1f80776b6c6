---------------------- MODULE IperfUdpConnect_proofs ----------------------
(***************************************************************************)
(* Proofs about IperfUdpConnect: a UDP test that runs on both sides is     *)
(* paired stream by stream, and a buffer that was left to the program      *)
(* holds a block, for any number of clients and streams.                   *)
(***************************************************************************)
EXTENDS IperfUdpConnect, SequenceTheorems, TLAPS

-----------------------------------------------------------------------------
(* The inductive invariant. *)

\* How far a client is with its streams.
ClientStage ==
    \A c \in Clients :
        /\ cPc[c] \in {"idle", "connect", "reply"} => cStreams[c] < Total
        /\ cPc[c] = "idle" => cStreams[c] = 0 /\ sTest # c
        /\ cPc[c] \in {"loop", "running"} => cStreams[c] = Total

\* How far the server is with the streams of its test.
ServerStage ==
    /\ (sTest = NoClient) <=> (sState = "IPERF_START")
    /\ sTest = NoClient => sStreams = <<>> /\ sGranted = <<>>
    /\ Len(sStreams) <= Total
    /\ sState = "CREATE_STREAMS" => Len(sStreams) < Total

\* The client has written to this socket: it has the stream, or was waiting
\* for the answer when last seen at it.
Sent(k) ==
    \/ k[2] <= cStreams[k[1]]
    \/ k[2] = cStreams[k[1]] + 1 /\ cPc[k[1]] \notin {"idle", "connect"}

\* No datagram is there that its client has not sent.
AllSent ==
    /\ \A d \in net : Sent(d.sock)
    /\ \A i \in DOMAIN sQueue : Sent(sQueue[i])
    /\ \A i \in DOMAIN sStreams : Sent(sStreams[i])

Reply(k) == [kind |-> "reply", sock |-> k]

\* An answer to the client of the test is of this test: the server has a
\* stream with that peer.
Answered ==
    \A c \in Clients : \A n \in 1..Total :
        sTest = c /\ (Reply(<<c, n>>) \in net \/ n <= cStreams[c]) => <<c, n>> \in Peers

\* What waits at the listener is not from a peer: the queue goes with the
\* listener's socket when that becomes a stream.
QueueNew == \A i \in DOMAIN sQueue : sQueue[i] \notin Peers

Paired(c) == \A i \in DOMAIN sStreams : sStreams[i] = <<c, i>>

Behind(c) ==
    /\ sStreams # <<>>
    /\ \A n \in 1..Total : <<c, n>> \in Peers => n < Len(sStreams)

\* Either all streams of the server are with the client's, in order, or a
\* stray has taken a place and the client is behind for good.
InTurn == \A c \in Clients : sTest = c => Paired(c) \/ Behind(c)

Own(size, blk) == size \in {0, blk + UDP_BUFFER_EXTRA}

\* Without -w the settings ask for the default or for a block and its header.
Buffers ==
    \A c \in Clients : cOpt[c].window = 0 =>
        /\ Own(cBuf[c], cOpt[c].blk)
        /\ sTest = c => Own(sBuf, cOpt[c].blk)

\* The inductive invariant of the pairing.
PairInv ==
    TypeOK /\ ClientStage /\ ServerStage /\ AllSent /\ Answered /\ QueueNew /\ InTurn


-----------------------------------------------------------------------------
(* Buffers. *)

\* The size the program asks for and the one the kernel grants are numbers.
LEMMA SizesAreNumbers ==
    ASSUME NEW size \in Nat, NEW blk \in Nat
    PROVE  Actual(size) \in Nat /\ SocketBuf(size, blk) \in Nat
  BY UdpConnectAssumption DEF Actual, Least, SocketBuf, UDP_BUFFER_EXTRA

\* iperf_udp_buffercheck without its CASE.
LEMMA CheckMeans ==
    ASSUME NEW size \in Nat, NEW blk \in Nat
    PROVE  /\ iperf_udp_buffercheck(size, blk) = "error" <=> size > Actual(size)
           /\ iperf_udp_buffercheck(size, blk) = "small" <=>
                  size <= Actual(size) /\ blk > Actual(size)
  <1>1. Actual(size) \in Nat
    BY SizesAreNumbers
  <1>2. CASE size > Actual(size)
    <2>1. ~(size <= Actual(size))
      BY <1>1, <1>2
    <2>2. iperf_udp_buffercheck(size, blk) = "error"
      BY <1>2, <2>1 DEF iperf_udp_buffercheck
    <2> QED  BY <1>2, <2>1, <2>2
  <1>3. CASE ~(size > Actual(size)) /\ blk > Actual(size)
    <2>1. size <= Actual(size)
      BY <1>1, <1>3
    <2>2. iperf_udp_buffercheck(size, blk) = "small"
      BY <1>3, <2>1 DEF iperf_udp_buffercheck
    <2> QED  BY <1>3, <2>1, <2>2
  <1>4. CASE ~(size > Actual(size)) /\ ~(blk > Actual(size))
    <2>1. iperf_udp_buffercheck(size, blk) = "ok"
      BY <1>4 DEF iperf_udp_buffercheck
    <2> QED  BY <1>4, <2>1
  <1> QED  BY <1>2, <1>3, <1>4

\* A size of the program's own choice stays one, and when the check finds no
\* error the socket's buffer holds a block.
LEMMA OwnBufferHolds ==
    ASSUME NEW size \in Nat, NEW blk \in Nat, Own(size, blk)
    PROVE  /\ Own(SocketBuf(size, blk), blk)
           /\ ~BufferError(size, blk) => Actual(SocketBuf(size, blk)) >= blk
  <1> DEFINE new == SocketBuf(size, blk)
  <1>1. new \in Nat /\ Actual(new) \in Nat /\ Actual(size) \in Nat
    BY SizesAreNumbers
  <1>2. Own(new, blk)
    BY DEF Own, SocketBuf
  <1>3. ASSUME ~BufferError(size, blk) PROVE Actual(new) >= blk
    <2>1. new <= Actual(new)
      BY <1>1, <1>3, CheckMeans DEF BufferError
    <2>2. CASE new = blk + UDP_BUFFER_EXTRA
      BY <1>1, <2>1, <2>2 DEF UDP_BUFFER_EXTRA
    <2>3. CASE new = 0 /\ size = 0
      <3>1. blk + UDP_BUFFER_EXTRA # 0
        BY DEF UDP_BUFFER_EXTRA
      <3>2. iperf_udp_buffercheck(size, blk) # "small"
        BY <2>3, <3>1 DEF SocketBuf
      <3>3. ~(blk > Actual(new))
        BY <2>1, <2>3, <3>2, CheckMeans
      <3> QED  BY <1>1, <3>3
    <2>4. new = 0 => size = 0
      BY DEF SocketBuf, Own, UDP_BUFFER_EXTRA
    <2> QED  BY <1>2, <2>2, <2>3, <2>4 DEF Own
  <1> QED  BY <1>2, <1>3

-----------------------------------------------------------------------------
(* Types. *)

\* What the settings of a client look like.
LEMMA OptTypes ==
    ASSUME TypeOK, NEW c \in Clients
    PROVE  cOpt[c].blk \in Nat /\ cOpt[c].window \in Nat
  <1>1. cOpt \in [Clients -> [blk : Nat \ {0}, window : Nat]]
    BY UdpConnectAssumption DEF TypeOK
  <1> QED  BY <1>1

\* A socket of a client is one of its pairs.
LEMMA SocketPairs ==
    /\ \A c \in Clients : \A n \in 1..Total : <<c, n>> \in Sockets
    /\ \A k \in Sockets : k[1] \in Clients /\ k[2] \in 1..Total /\ k = <<k[1], k[2]>>
  BY DEF Sockets

-----------------------------------------------------------------------------
(* Each operation keeps the types and the parts of the pairing invariant. *)

\* A client that gives up, starts or ends moves on without a datagram: from
\* everywhere it may go to failed, from loop to running, from there to ended.
LEMMA ClientMoves ==
    ASSUME PairInv, NEW c \in Clients, NEW pc \in {"running", "ended", "failed"},
           ClientGoes(c, pc), cPc[c] \notin {"idle"},
           pc = "running" => cPc[c] = "loop",
           UNCHANGED <<net, cStreams, cOpt, cBuf, cGranted, srvVars>>
    PROVE  PairInv'
  <1> USE DEF PairInv, srvVars
  <1>1. TypeOK'
    BY DEF TypeOK, ClientGoes
  <1>2. ClientStage'
    BY DEF TypeOK, ClientStage, ClientGoes
  <1>3. ServerStage' /\ Answered' /\ QueueNew' /\ InTurn'
    BY DEF ServerStage, Answered, QueueNew, InTurn, Paired, Behind, Peers
  <1>5. \A k \in Sockets : Sent(k) => Sent(k)'
    BY SocketPairs DEF Sent, TypeOK, ClientGoes
  <1>6. AllSent'
    BY <1>5 DEF AllSent, TypeOK, Datagram
  <1> QED  BY <1>1, <1>2, <1>3, <1>6

\* The server is reset: what it had is gone.
LEMMA ResetKeeps ==
    ASSUME PairInv, NEW leaves, ResetServer(leaves), UNCHANGED <<net, cliVars>>
    PROVE  PairInv'
  <1> USE DEF PairInv, ResetServer, cliVars
  <1>1. TypeOK'
    <2>1. /\ sTest' \in Clients \cup {NoClient} /\ sListen' \in BOOLEAN
          /\ sState' \in {"IPERF_START", "CREATE_STREAMS", "TEST_RUNNING"}
          /\ sBuf' \in Nat
      OBVIOUS
    <2>2. sStreams' \in Seq(Sockets) /\ sQueue' \in Seq(Sockets) /\ sGranted' \in Seq(Nat)
      OBVIOUS
    <2>3. sLeft' \subseteq Sockets
      BY DEF TypeOK, Peers
    <2> QED  BY <2>1, <2>2, <2>3 DEF TypeOK
  <1>2. ClientStage'
    BY UdpConnectAssumption DEF ClientStage
  <1>3. ServerStage'
    BY UdpConnectAssumption DEF ServerStage
  <1>4. AllSent'
    BY DEF AllSent, Sent
  <1>5. Answered' /\ QueueNew' /\ InTurn'
    BY UdpConnectAssumption DEF Answered, QueueNew, InTurn
  <1> QED  BY <1>1, <1>2, <1>3, <1>4, <1>5

\* StartTest: an idle client has sent nothing, so that no answer of an earlier
\* test can be mistaken for one of this.
LEMMA StartKeeps ==
    ASSUME PairInv, NEW c \in Clients, StartTest(c)
    PROVE  PairInv'
  <1> USE DEF PairInv, StartTest
  <1>1. TypeOK'
    <2>1. cOpt[c].window \in Nat
      BY OptTypes
    <2> QED  BY <2>1 DEF TypeOK
  <1>2. ClientStage'
    BY DEF ClientStage, TypeOK
  <1>3. ServerStage'
    BY UdpConnectAssumption DEF ServerStage
  <1>5. \A k \in Sockets : Sent(k) => Sent(k)'
    BY SocketPairs DEF Sent, TypeOK
  <1>6. AllSent'
    BY <1>5 DEF AllSent, TypeOK, Datagram
  <1>7. Answered'
    <2> SUFFICES ASSUME NEW n \in 1..Total,
                        Reply(<<c, n>>) \in net \/ n <= cStreams[c]
                 PROVE  FALSE
      BY DEF Answered, Reply
    <2>1. cStreams[c] = 0
      BY DEF ClientStage
    <2>2. Reply(<<c, n>>) \notin net
      BY <2>1, UdpConnectAssumption DEF AllSent, Sent, Reply
    <2> QED  BY <2>1, <2>2, UdpConnectAssumption
  <1>8. QueueNew' /\ InTurn'
    BY DEF QueueNew, InTurn, Paired, ServerStage
  <1> QED  BY <1>1, <1>2, <1>3, <1>6, <1>7, <1>8

\* iperf_udp_connect: the datagram is the next of the client.
LEMMA ConnectKeeps ==
    ASSUME PairInv, NEW c \in Clients, iperf_udp_connect(c)
    PROVE  PairInv'
  <1> USE DEF PairInv, srvVars
  <1> DEFINE size == SocketBuf(cBuf[c], cOpt[c].blk)
             hello == [kind |-> "hello", sock |-> <<c, cStreams[c] + 1>>]
  <1>1. size \in Nat /\ Actual(size) \in Nat
    BY OptTypes, SizesAreNumbers DEF TypeOK
  <1>2. /\ cPc[c] = "connect" /\ cStreams[c] < Total /\ cStreams[c] \in Nat
        /\ UNCHANGED <<cStreams, cOpt, srvVars>>
        /\ cBuf' = [cBuf EXCEPT ![c] = size]
    BY DEF iperf_udp_connect, ClientStage, TypeOK
  <1>3. \/ ClientGoes(c, "failed") /\ UNCHANGED <<net, cGranted>>
        \/ /\ ClientGoes(c, "reply")
           /\ net' = net \cup {hello}
           /\ cGranted' = [cGranted EXCEPT ![c] = Append(@, Actual(size))]
    BY DEF iperf_udp_connect
  <1>4. <<c, cStreams[c] + 1>> \in Sockets /\ hello \in Datagram
    BY <1>2, SocketPairs, UdpConnectAssumption DEF Datagram
  <1> HIDE DEF size
  <1>5. TypeOK'
    <2>1. cBuf' \in [Clients -> Nat]
      BY <1>1, <1>2 DEF TypeOK
    <2>2. net' \subseteq Datagram
      BY <1>3, <1>4 DEF TypeOK
    <2>4. cGranted' \in [Clients -> Seq(Nat)]
      <3>1. Append(cGranted[c], Actual(size)) \in Seq(Nat)
        BY <1>1 DEF TypeOK
      <3> QED  BY <1>3, <3>1 DEF TypeOK
    <2>3. cPc' \in [Clients -> {"idle", "connect", "reply", "loop", "running", "ended", "failed"}]
      BY <1>3 DEF TypeOK, ClientGoes
    <2> QED  BY <1>2, <2>1, <2>2, <2>3, <2>4 DEF TypeOK
  <1>6. ClientStage'
    BY <1>2, <1>3 DEF ClientStage, TypeOK, ClientGoes
  <1>8. \A k \in Sockets : Sent(k) => Sent(k)'
    BY <1>2, <1>3, SocketPairs DEF Sent, TypeOK, ClientGoes
  <1>9. AllSent'
    <2>1. (net' = net \cup {hello} /\ ClientGoes(c, "reply")) => Sent(hello.sock)'
      BY <1>2, UdpConnectAssumption DEF Sent, ClientGoes, TypeOK
    <2>2. \A d \in net : d.sock \in Sockets
      BY DEF TypeOK, Datagram
    <2>3. (\A d \in net : Sent(d.sock))'
      <3>1. CASE net' = net
        BY <1>8, <2>2, <3>1 DEF AllSent
      <3>2. CASE net' = net \cup {hello} /\ ClientGoes(c, "reply")
        <4> SUFFICES ASSUME NEW d \in net' PROVE Sent(d.sock)'
          BY DEF Sent
        <4>1. CASE d = hello
          BY <1>2, <2>1, <3>2, <4>1 DEF Sent
        <4>2. CASE d \in net
          BY <1>8, <2>2, <4>2 DEF AllSent
        <4> QED  BY <3>2, <4>1, <4>2
      <3> QED  BY <1>3, <3>1, <3>2
    <2>4. (\A i \in DOMAIN sQueue : Sent(sQueue[i]))'
      BY <1>2, <1>8 DEF AllSent, TypeOK
    <2>5. (\A i \in DOMAIN sStreams : Sent(sStreams[i]))'
      BY <1>2, <1>8 DEF AllSent, TypeOK
    <2> QED  BY <2>3, <2>4, <2>5 DEF AllSent
  <1>10. ServerStage' /\ QueueNew' /\ InTurn'
    BY <1>2 DEF ServerStage, QueueNew, InTurn, Paired, Behind, Peers
  <1>11. Answered'
    <2>1. \A k : Reply(k) \in net' => Reply(k) \in net
      BY <1>3 DEF Reply
    <2> QED  BY <1>2, <2>1 DEF Answered, Peers, Reply
  <1> QED  BY <1>5, <1>6, <1>9, <1>10, <1>11

\* recv returns the answer: the client has one stream more, and so has the
\* server.
LEMMA ReplyKeeps ==
    ASSUME PairInv, NEW c \in Clients, ClientReply(c)
    PROVE  PairInv'
  <1> USE DEF PairInv, srvVars
  <1> DEFINE next == cStreams[c] + 1
             pc == IF next = Total THEN "loop" ELSE "connect"
  <1>1. /\ cPc[c] = "reply" /\ cStreams[c] \in Nat /\ next \in 1..Total
        /\ UNCHANGED <<cOpt, cBuf, cGranted, srvVars>>
        /\ cPc' = [cPc EXCEPT ![c] = pc]
        /\ cStreams' = [cStreams EXCEPT ![c] = next]
    BY UdpConnectAssumption DEF ClientReply, ClientStage, TypeOK, ClientGoes
  <1>2. Reply(<<c, next>>) \in net /\ net' = net \ {Reply(<<c, next>>)}
    BY DEF ClientReply, Reply
  <1>3. pc \in {"loop", "connect"} /\ (pc = "loop" <=> next = Total)
    OBVIOUS
  <1> HIDE DEF next, pc
  <1>4. TypeOK'
    <2>1. net' \subseteq Datagram
      BY <1>2 DEF TypeOK
    <2>2. cPc' \in [Clients -> {"idle", "connect", "reply", "loop", "running", "ended", "failed"}]
      BY <1>1, <1>3 DEF TypeOK
    <2>3. cStreams' \in [Clients -> 0..Total]
      <3>1. next \in 0..Total
        BY <1>1, UdpConnectAssumption
      <3> QED  BY <1>1, <3>1 DEF TypeOK
    <2> QED  BY <1>1, <2>1, <2>2, <2>3 DEF TypeOK
  <1>5. ClientStage'
    <2>1. cPc'[c] = pc /\ cStreams'[c] = next
      BY <1>1 DEF TypeOK
    <2>2. \A b \in Clients \ {c} : cPc'[b] = cPc[b] /\ cStreams'[b] = cStreams[b]
      BY <1>1 DEF TypeOK
    <2>3. sTest' = sTest /\ (next # Total => next < Total)
      BY <1>1, UdpConnectAssumption
    <2> QED  BY <1>3, <2>1, <2>2, <2>3 DEF ClientStage
  <1>7. \A k \in Sockets : Sent(k) => Sent(k)'
    <2> SUFFICES ASSUME NEW k \in Sockets, Sent(k) PROVE Sent(k)'
      OBVIOUS
    <2>1. k[1] \in Clients /\ k[2] \in 1..Total
      BY SocketPairs
    <2>2. CASE k[1] = c
      <3>1. cStreams'[c] = cStreams[c] + 1
        BY <1>1 DEF TypeOK, next
      <3>2. k[2] <= cStreams'[c]
        BY <1>1, <2>1, <2>2, <3>1, UdpConnectAssumption DEF Sent
      <3> QED  BY <2>2, <3>2 DEF Sent
    <2>3. CASE k[1] # c
      BY <1>1, <2>1, <2>3 DEF Sent, TypeOK
    <2> QED  BY <2>2, <2>3
  <1>8. AllSent'
    BY <1>1, <1>2, <1>7 DEF AllSent, TypeOK, Datagram
  <1>9. ServerStage' /\ QueueNew' /\ InTurn'
    BY <1>1 DEF ServerStage, QueueNew, InTurn, Paired, Behind, Peers
  <1>10. Answered'
    <2> SUFFICES ASSUME NEW b \in Clients, NEW n \in 1..Total, sTest' = b,
                        Reply(<<b, n>>) \in net' \/ n <= cStreams'[b]
                 PROVE  <<b, n>> \in Peers'
      BY DEF Answered, Reply
    <2>1. Peers' = Peers /\ sTest = b
      BY <1>1 DEF Peers
    <2>2. CASE Reply(<<b, n>>) \in net'
      BY <1>2, <2>1, <2>2 DEF Answered
    <2>3. CASE n <= cStreams'[b]
      <3>1. CASE b = c /\ n = next
        BY <1>1, <1>2, <2>1, <3>1 DEF Answered
      <3>2. CASE ~(b = c /\ n = next)
        <4>1. n <= cStreams[b]
          BY <1>1, <2>3, <3>2, UdpConnectAssumption DEF TypeOK, next
        <4> QED  BY <2>1, <4>1 DEF Answered
      <3> QED  BY <3>1, <3>2
    <2> QED  BY <2>2, <2>3
  <1> QED  BY <1>4, <1>5, <1>8, <1>9, <1>10


\* Data of a test that runs comes from streams the client has.
LEMMA SendKeeps ==
    ASSUME PairInv, NEW c \in Clients, iperf_udp_send(c)
    PROVE  PairInv'
  <1> USE DEF PairInv, srvVars, cliVars
  <1>1. PICK n \in 1..Total : net' = net \cup {[kind |-> "data", sock |-> <<c, n>>]}
    BY DEF iperf_udp_send
  <1>2. UNCHANGED <<cliVars, srvVars>> /\ cPc[c] = "running" /\ cStreams[c] = Total
    BY DEF iperf_udp_send, ClientStage
  <1> DEFINE data == [kind |-> "data", sock |-> <<c, n>>]
  <1>3. data \in Datagram
    BY SocketPairs DEF Datagram
  <1>4. TypeOK'
    BY <1>1, <1>2, <1>3 DEF TypeOK
  <1>5. ClientStage' /\ ServerStage' /\ QueueNew' /\ InTurn'
    BY <1>2 DEF ClientStage, ServerStage, QueueNew, InTurn, Paired, Behind, Peers
  <1>6. AllSent'
    <2>1. Sent(<<c, n>>)
      BY <1>2, UdpConnectAssumption DEF Sent
    <2>2. \A k : Sent(k)' <=> Sent(k)
      BY <1>2 DEF Sent
    <2> QED  BY <1>1, <1>2, <2>1, <2>2 DEF AllSent
  <1>7. Answered'
    <2>1. \A k : Reply(k) \in net' => Reply(k) \in net
      BY <1>1 DEF Reply
    <2> QED  BY <1>2, <2>1 DEF Answered, Peers, Reply
  <1> QED  BY <1>4, <1>5, <1>6, <1>7

\* A datagram that is lost is not there any more.
LEMMA LoseKeeps ==
    ASSUME PairInv, NEW d \in net, Lose(d)
    PROVE  PairInv'
  <1> USE DEF PairInv, srvVars, cliVars, Lose
  <1>1. TypeOK'
    BY DEF TypeOK
  <1>2. ClientStage' /\ ServerStage' /\ QueueNew' /\ InTurn'
    BY DEF ClientStage, ServerStage, QueueNew, InTurn, Paired, Behind, Peers
  <1>3. AllSent'
    BY DEF AllSent, Sent
  <1>4. Answered'
    BY DEF Answered, Peers, Reply
  <1> QED  BY <1>1, <1>2, <1>3, <1>4

\* A datagram that arrives at the listener is from nobody the server has a
\* stream with.
LEMMA ArriveKeeps ==
    ASSUME PairInv, NEW d \in net, Arrive(d)
    PROVE  PairInv'
  <1> USE DEF PairInv, cliVars
  <1>1. /\ UNCHANGED <<cliVars, sTest, sState, sStreams, sListen, sBuf, sGranted, sLeft>>
        /\ net' \subseteq net
        /\ sQueue' = sQueue \/ (sQueue' = Append(sQueue, d.sock) /\ d.sock \notin Peers)
    BY DEF Arrive
  <1>2. d.sock \in Sockets /\ sQueue \in Seq(Sockets)
    BY DEF TypeOK, Datagram
  <1>3. sQueue' \in Seq(Sockets)
    BY <1>1, <1>2
  <1>4. \A i \in DOMAIN sQueue' :
            \/ i \in DOMAIN sQueue /\ sQueue'[i] = sQueue[i]
            \/ sQueue'[i] = d.sock /\ d.sock \notin Peers
    BY <1>1, <1>2
  <1>5. TypeOK'
    BY <1>1, <1>3 DEF TypeOK
  <1>6. ClientStage' /\ ServerStage' /\ InTurn'
    BY <1>1 DEF ClientStage, ServerStage, InTurn, Paired, Behind, Peers
  <1>7. QueueNew'
    <2>1. Peers' = Peers
      BY <1>1 DEF Peers
    <2> QED  BY <1>4, <2>1 DEF QueueNew
  <1>8. AllSent'
    <2>1. \A k : Sent(k)' <=> Sent(k)
      BY <1>1 DEF Sent
    <2> QED  BY <1>1, <1>4, <2>1 DEF AllSent
  <1>9. Answered'
    BY <1>1 DEF Answered, Peers, Reply
  <1> QED  BY <1>5, <1>6, <1>7, <1>8, <1>9


\* iperf_udp_accept: the stream that is added is the next of the client, or the
\* client is behind from now on.
LEMMA AcceptKeeps ==
    ASSUME PairInv, iperf_udp_accept
    PROVE  PairInv'
  <1> USE DEF PairInv, cliVars
  <1> DEFINE k == Head(sQueue)
             L == Len(sStreams)
             size == SocketBuf(sBuf, cOpt[sTest].blk)
  <1>1. /\ sState = "CREATE_STREAMS" /\ sQueue # <<>>
        /\ sStreams' = Append(sStreams, k)
        /\ net' = net \cup {Reply(k)}
        /\ sQueue' = <<>>
        /\ UNCHANGED <<cliVars, sTest, sLeft>>
    BY DEF iperf_udp_accept, Reply
  <1>2. sState' = IF L + 1 = Total THEN "TEST_RUNNING" ELSE sState
    BY DEF iperf_udp_accept
  <1>3. /\ sListen' \in BOOLEAN
        /\ sBuf' = size
        /\ sGranted' = Append(sGranted, Actual(size))
    BY DEF iperf_udp_accept
  <1>4. sTest \in Clients /\ L \in Nat /\ L < Total
    BY <1>1 DEF ServerStage, TypeOK
  <1>5. k \in Sockets /\ k = sQueue[1] /\ 1 \in DOMAIN sQueue
    BY <1>1 DEF TypeOK
  <1>6. k \notin Peers /\ Sent(k)
    BY <1>5 DEF QueueNew, AllSent
  <1>7. size \in Nat /\ Actual(size) \in Nat
    BY <1>4, OptTypes, SizesAreNumbers DEF TypeOK
  <1> HIDE DEF k, size, L
  <1>8. /\ sStreams' \in Seq(Sockets) /\ Len(sStreams') = L + 1
        /\ \A i \in 1..L : sStreams'[i] = sStreams[i]
        /\ sStreams'[L + 1] = k
    BY <1>1, <1>5 DEF TypeOK, L
  <1>9. Peers' = Peers \cup {k}
    <2>1. DOMAIN sStreams = 1..L /\ DOMAIN sStreams' = 1..(L + 1)
      BY <1>4, <1>8 DEF TypeOK, L
    <2>2. \A i \in 1..(L + 1) : i \in 1..L \/ i = L + 1
      BY <1>4
    <2>3. \A i \in 1..L : i \in 1..(L + 1)
      BY <1>4
    <2>4. L + 1 \in 1..(L + 1)
      BY <1>4
    <2>5. Peers' \subseteq Peers \cup {k}
      BY <1>8, <2>1, <2>2 DEF Peers
    <2>6. Peers \subseteq Peers' /\ k \in Peers'
      BY <1>8, <2>1, <2>3, <2>4 DEF Peers
    <2> QED  BY <2>5, <2>6
  <1>10. TypeOK'
    <2>1. Reply(k) \in Datagram
      BY <1>5 DEF Reply, Datagram
    <2>2. sGranted' \in Seq(Nat) /\ sBuf' \in Nat
      BY <1>3, <1>7 DEF TypeOK
    <2>3. sState' \in {"IPERF_START", "CREATE_STREAMS", "TEST_RUNNING"}
      BY <1>1, <1>2
    <2>4. sQueue' \in Seq(Sockets)
      BY <1>1
    <2>5. net' \subseteq Datagram
      BY <1>1, <2>1 DEF TypeOK
    <2> QED  BY <1>1, <1>3, <1>8, <2>2, <2>3, <2>4, <2>5 DEF TypeOK
  <1>11. ClientStage'
    BY <1>1 DEF ClientStage
  <1>12. ServerStage'
    <2>1. sTest' # NoClient /\ sState' # "IPERF_START"
      BY <1>1, <1>2, <1>4, UdpConnectAssumption
    <2>2. Len(sStreams') <= Total
      BY <1>4, <1>8, UdpConnectAssumption
    <2>3. sState' = "CREATE_STREAMS" => Len(sStreams') < Total
      <3>1. sState' = "CREATE_STREAMS" => L + 1 # Total
        BY <1>2
      <3> QED  BY <1>4, <1>8, <3>1, UdpConnectAssumption
    <2> QED  BY <2>1, <2>2, <2>3 DEF ServerStage
  <1>13. AllSent'
    <2>1. \A j \in Sockets : Sent(j)' <=> Sent(j)
      BY <1>1 DEF Sent
    <2>2. \A d \in net' : d \in net \/ d.sock = k
      BY <1>1 DEF Reply
    <2>3. (\A d \in net : Sent(d.sock))'
      BY <1>5, <1>6, <2>1, <2>2 DEF AllSent, TypeOK, Datagram
    <2>4. (\A i \in DOMAIN sStreams : Sent(sStreams[i]))'
      <3>1. \A i \in DOMAIN sStreams' : sStreams'[i] \in Peers \cup {k}
        BY <1>9 DEF Peers
      <3>2. \A j \in Peers : Sent(j) /\ j \in Sockets
        BY DEF AllSent, Peers, TypeOK
      <3> QED  BY <1>5, <1>6, <2>1, <3>1, <3>2
    <2>5. (\A i \in DOMAIN sQueue : Sent(sQueue[i]))'
      BY <1>1
    <2> QED  BY <2>3, <2>4, <2>5 DEF AllSent
  <1>14. Answered'
    <2> SUFFICES ASSUME NEW c \in Clients, NEW n \in 1..Total, sTest' = c,
                        Reply(<<c, n>>) \in net' \/ n <= cStreams'[c]
                 PROVE  <<c, n>> \in Peers'
      BY DEF Answered, Reply
    <2>1. CASE Reply(<<c, n>>) \in net \/ n <= cStreams[c]
      BY <1>1, <1>9, <2>1 DEF Answered
    <2>2. CASE Reply(<<c, n>>) = Reply(k)
      <3>1. <<c, n>> = k
        BY <2>2 DEF Reply
      <3> QED  BY <1>9, <3>1
    <2> QED  BY <1>1, <2>1, <2>2
  <1>15. QueueNew'
    BY <1>1 DEF QueueNew
  <1>16. InTurn'
    <2> SUFFICES ASSUME NEW c \in Clients, sTest = c
                 PROVE  Paired(c)' \/ Behind(c)'
      BY <1>1 DEF InTurn
    <2> DEFINE m == cStreams[c]
    <2>1. m \in 0..Total /\ m \in Nat
      BY UdpConnectAssumption DEF TypeOK
    <2>2. sStreams' # <<>>
      BY <1>4, <1>8
    <2>3. \A i \in 1..(L + 1) : i \in 1..L \/ i = L + 1
      BY <1>4
    <2>4. DOMAIN sStreams = 1..L /\ DOMAIN sStreams' = 1..(L + 1)
      BY <1>4, <1>8 DEF TypeOK, L
    <2>5. m # 0 => <<c, m>> \in Peers
      BY <2>1, UdpConnectAssumption DEF Answered
    <2>6. ASSUME k[1] # c PROVE Behind(c)'
      <3> SUFFICES ASSUME NEW n \in 1..Total, <<c, n>> \in Peers'
                   PROVE  n < L + 1
        BY <1>8, <2>2 DEF Behind
      <3>1. <<c, n>> \in Peers
        BY <1>9, <2>6
      <3>2. CASE Paired(c)
        <4>1. PICK i \in 1..L : <<c, n>> = sStreams[i]
          BY <2>4, <3>1 DEF Peers
        <4>2. n = i
          BY <2>4, <3>2, <4>1 DEF Paired
        <4> QED  BY <1>4, <4>2
      <3>3. CASE Behind(c)
        <4>1. n < L
          BY <3>1, <3>3 DEF Behind, L
        <4> QED  BY <1>4, <4>1, UdpConnectAssumption
      <3> QED  BY <3>2, <3>3 DEF InTurn
    <2>7. ASSUME k[1] = c PROVE k[2] = m + 1 /\ k = <<c, m + 1>> /\ m + 1 \in 1..Total
      <3>1. k = <<c, k[2]>> /\ k[2] \in 1..Total
        BY <1>5, <2>7, SocketPairs
      <3>2. ~(k[2] <= m)
        BY <1>6, <3>1 DEF Answered
      <3>3. k[2] = m + 1
        BY <1>6, <2>7, <3>2 DEF Sent
      <3> QED  BY <3>1, <3>3
    <2>8. ASSUME k[1] = c, Behind(c) PROVE Behind(c)'
      <3> SUFFICES ASSUME NEW n \in 1..Total, <<c, n>> \in Peers'
                   PROVE  n < L + 1
        BY <1>8, <2>2 DEF Behind
      <3>1. CASE <<c, n>> \in Peers
        <4>1. n < L
          BY <2>8, <3>1 DEF Behind, L
        <4> QED  BY <1>4, <4>1, UdpConnectAssumption
      <3>2. CASE <<c, n>> = k
        <4>1. n = m + 1
          BY <2>7, <2>8, <3>2
        <4>2. m < L
          <5>1. CASE m = 0
            <6>1. L # 0
              BY <2>8 DEF Behind, TypeOK, L
            <6> QED  BY <1>4, <5>1, <6>1
          <5>2. CASE m # 0
            <6>1. m \in 1..Total
              BY <2>1, <5>2, UdpConnectAssumption
            <6> QED  BY <2>5, <2>8, <5>2, <6>1 DEF Behind, L
          <5> QED  BY <5>1, <5>2
        <4> QED  BY <1>4, <2>1, <4>1, <4>2
      <3> QED  BY <1>9, <3>1, <3>2
    <2>9. ASSUME k[1] = c, Paired(c) PROVE Paired(c)'
      <3>1. m + 1 \notin 1..L
        <4>1. <<c, m + 1>> \notin Peers
          BY <1>6, <2>7, <2>9
        <4>2. \A i \in 1..L : <<c, i>> \in Peers
          BY <2>4, <2>9 DEF Paired, Peers
        <4> QED  BY <4>1, <4>2
      <3>2. m <= L
        <4>1. CASE m = 0
          BY <1>4, <4>1
        <4>2. CASE m # 0
          <5>1. PICK i \in 1..L : <<c, m>> = sStreams[i]
            BY <2>4, <2>5, <4>2 DEF Peers
          <5>2. m = i
            BY <2>4, <2>9, <5>1 DEF Paired
          <5> QED  BY <1>4, <5>2
        <4> QED  BY <4>1, <4>2
      <3>3. m = L
        BY <1>4, <2>1, <3>1, <3>2
      <3>4. sStreams'[L + 1] = <<c, L + 1>>
        BY <1>8, <2>7, <2>9, <3>3
      <3>5. \A i \in 1..L : sStreams'[i] = <<c, i>>
        BY <1>8, <2>4, <2>9 DEF Paired
      <3> QED  BY <2>3, <2>4, <3>4, <3>5 DEF Paired
    <2> QED  BY <2>6, <2>8, <2>9 DEF InTurn
  <1> QED  BY <1>10, <1>11, <1>12, <1>13, <1>14, <1>15, <1>16

-----------------------------------------------------------------------------
(* The theorems. *)

\* Every step keeps the pairing invariant.
LEMMA PairStep ==
    ASSUME PairInv, [Next]_vars
    PROVE  PairInv'
  <1>1. CASE UNCHANGED vars
    <2> USE <1>1 DEF vars, cliVars, srvVars, PairInv
    <2>1. TypeOK'
      BY DEF TypeOK
    <2>2. ClientStage' /\ ServerStage' /\ QueueNew' /\ InTurn'
      BY DEF ClientStage, ServerStage, QueueNew, InTurn, Paired, Behind, Peers
    <2>3. AllSent' /\ Answered'
      BY DEF AllSent, Sent, Answered, Peers, Reply
    <2> QED  BY <2>1, <2>2, <2>3
  <1>2. ASSUME NEW c \in Clients, ClientStep(c) PROVE PairInv'
    <2>1. CASE iperf_udp_connect(c)
      BY <2>1, ConnectKeeps
    <2>2. CASE ClientReply(c)
      BY <2>2, ReplyKeeps
    <2>3. CASE ClientTimeout(c)
      BY <2>3, ClientMoves DEF ClientTimeout
    <2>4. CASE ClientRuns(c)
      BY <2>4, ClientMoves DEF ClientRuns
    <2>5. CASE ClientEOF(c)
      BY <2>5, ClientMoves DEF ClientEOF, ClientKilled
    <2>6. CASE iperf_client_end(c)
      BY <2>6, ClientMoves DEF iperf_client_end
    <2> QED  BY <1>2, <2>1, <2>2, <2>3, <2>4, <2>5, <2>6 DEF ClientStep
  <1>3. CASE ServerStep
    BY <1>3, AcceptKeeps, ResetKeeps DEF ServerStep, BufferAcceptError, AcceptError, ServerEOF
  <1>4. CASE Environment
    <2>1. ASSUME NEW c \in Clients, StartTest(c) PROVE PairInv'
      BY <2>1, StartKeeps
    <2>2. ASSUME NEW c \in Clients, iperf_udp_send(c) PROVE PairInv'
      BY <2>2, SendKeeps
    <2>3. ASSUME NEW c \in Clients, ClientKilled(c) PROVE PairInv'
      BY <2>3, ClientMoves DEF ClientKilled
    <2>4. CASE AcceptError \/ ServerAborts
      BY <2>4, ResetKeeps DEF AcceptError, ServerAborts
    <2>5. ASSUME NEW d \in net, Arrive(d) \/ Lose(d) PROVE PairInv'
      BY <2>5, ArriveKeeps, LoseKeeps
    <2> QED  BY <1>4, <2>1, <2>2, <2>3, <2>4, <2>5 DEF Environment
  <1> QED  BY <1>1, <1>2, <1>3, <1>4 DEF Next

\* The pairing invariant holds at the start.
LEMMA PairInit == Init => PairInv
  <1> SUFFICES ASSUME Init PROVE PairInv
    OBVIOUS
  <1> USE DEF Init
  <1>1. TypeOK
    <2>1. cOpt \in [Clients -> [blk : Nat \ {0}, window : Nat]]
      BY UdpConnectAssumption
    <2>2. cBuf \in [Clients -> Nat]
      BY <2>1
    <2>3. cStreams \in [Clients -> 0..Total] /\ net \subseteq Datagram
      BY UdpConnectAssumption
    <2>4. cGranted \in [Clients -> Seq(Nat)]
      OBVIOUS
    <2>5. sStreams \in Seq(Sockets) /\ sQueue \in Seq(Sockets) /\ sGranted \in Seq(Nat)
      OBVIOUS
    <2>6. cPc \in [Clients -> {"idle", "connect", "reply", "loop", "running", "ended", "failed"}]
      OBVIOUS
    <2> QED  BY <2>1, <2>2, <2>3, <2>4, <2>5, <2>6 DEF TypeOK
  <1>2. ClientStage /\ ServerStage
    BY UdpConnectAssumption DEF ClientStage, ServerStage
  <1>3. AllSent /\ QueueNew
    BY DEF AllSent, QueueNew
  <1>4. Answered /\ InTurn
    BY UdpConnectAssumption DEF Answered, InTurn
  <1> QED  BY <1>1, <1>2, <1>3, <1>4 DEF PairInv

\* The pairing invariant always holds.
LEMMA PairInvariant == Spec => []PairInv
  BY PairInit, PairStep, PTL DEF Spec

\* The variables of IperfUdpConnect always have their types: no client counts
\* more streams than the test has, and no datagram names a socket nobody made.
THEOREM UdpConnectTyped == Spec => []TypeOK
  <1>1. PairInv => TypeOK
    BY DEF PairInv
  <1> QED  BY <1>1, PairInvariant, PTL

\* iperf_udp_connect and iperf_udp_accept pair the streams of a test that runs
\* on both sides, in order, whatever datagrams are lost, repeated, overtaken or
\* left over from an earlier test.
THEOREM StreamsArePaired == Spec => []UdpPairing
  <1>1. PairInv => UdpPairing
    <2> SUFFICES ASSUME PairInv, NEW c \in Clients, sTest = c, cPc[c] \in {"loop", "running"}
                 PROVE  sStreams = [n \in 1..Total |-> <<c, n>>]
      BY DEF UdpPairing
    <2> USE DEF PairInv
    <2>1. cStreams[c] = Total /\ Total \in 1..Total
      BY UdpConnectAssumption DEF ClientStage
    <2>2. <<c, Total>> \in Peers
      BY <2>1, UdpConnectAssumption DEF Answered
    <2>3. Len(sStreams) <= Total /\ Len(sStreams) \in Nat
      BY DEF ServerStage, TypeOK
    <2>4. ~Behind(c)
      BY <2>1, <2>2, <2>3, UdpConnectAssumption DEF Behind
    <2>5. Paired(c)
      BY <2>4 DEF InTurn
    <2>6. DOMAIN sStreams = 1..Len(sStreams) /\ sStreams \in Seq(Sockets)
      BY DEF TypeOK
    <2>7. PICK i \in 1..Len(sStreams) : sStreams[i] = <<c, Total>>
      BY <2>2, <2>6 DEF Peers
    <2>8. i = Total
      BY <2>5, <2>6, <2>7 DEF Paired
    <2>9. Len(sStreams) = Total
      BY <2>3, <2>8, UdpConnectAssumption
    <2>10. sStreams \in [1..Total -> Sockets]
      BY <2>6, <2>9
    <2>11. \A n \in 1..Total : sStreams[n] = <<c, n>>
      BY <2>5, <2>6, <2>9 DEF Paired
    <2> QED  BY <2>10, <2>11
  <1> QED  BY <1>1, PairInvariant, PTL

\* The inductive invariant of the buffers.
BufferInv == PairInv /\ Buffers /\ BufferHolds

\* A step that leaves the sizes alone, or resets those of the server, keeps
\* what is said of them.
LEMMA SizesKept ==
    ASSUME BufferInv,
           cOpt' = cOpt, cBuf' = cBuf, cGranted' = cGranted,
           \/ sTest' = sTest /\ sBuf' = sBuf /\ sGranted' = sGranted
           \/ sTest' = NoClient /\ sGranted' = <<>>
    PROVE  Buffers' /\ BufferHolds'
  <1>1. Buffers'
    BY UdpConnectAssumption DEF BufferInv, Buffers, Own
  <1>2. BufferHolds'
    BY DEF BufferInv, BufferHolds
  <1> QED  BY <1>1, <1>2

\* Every step keeps the invariant of the buffers.
LEMMA BufferStep ==
    ASSUME BufferInv, [Next]_vars
    PROVE  BufferInv'
  <1> SUFFICES Buffers' /\ BufferHolds'
    BY PairStep DEF BufferInv
  <1>1. TypeOK /\ ServerStage /\ Buffers /\ BufferHolds
    BY DEF BufferInv, PairInv
  <1>2. ASSUME NEW c \in Clients, StartTest(c) PROVE Buffers' /\ BufferHolds'
    <2>1. /\ UNCHANGED <<cOpt, cBuf, cGranted>> /\ sTest' = c
          /\ sBuf' = cOpt[c].window /\ sGranted' = <<>>
      BY <1>1, <1>2 DEF StartTest, ServerStage
    <2>2. Buffers'
      BY <1>1, <2>1 DEF Buffers, Own
    <2>3. BufferHolds'
      BY <1>1, <2>1 DEF BufferHolds
    <2> QED  BY <2>2, <2>3
  <1>3. ASSUME NEW c \in Clients, iperf_udp_connect(c) PROVE Buffers' /\ BufferHolds'
    <2> DEFINE blk == cOpt[c].blk
               size == SocketBuf(cBuf[c], blk)
    <2>1. /\ cBuf' = [cBuf EXCEPT ![c] = size]
          /\ UNCHANGED <<cOpt, sTest, sBuf, sGranted>>
          /\ \/ UNCHANGED cGranted
             \/ /\ ~BufferError(cBuf[c], blk)
                /\ cGranted' = [cGranted EXCEPT ![c] = Append(@, Actual(size))]
      BY <1>3 DEF iperf_udp_connect, srvVars
    <2>2. cBuf[c] \in Nat /\ blk \in Nat /\ cOpt[c].window \in Nat /\ cGranted[c] \in Seq(Nat)
      BY <1>1, OptTypes DEF TypeOK
    <2>3. Actual(size) \in Nat
      BY <2>2, SizesAreNumbers
    <2>4. cOpt[c].window = 0 =>
              Own(size, blk) /\ (~BufferError(cBuf[c], blk) => Actual(size) >= blk)
      BY <1>1, <2>2, OwnBufferHolds DEF Buffers
    <2> HIDE DEF blk, size
    <2>5. Buffers'
      <3> SUFFICES ASSUME NEW b \in Clients, cOpt[b].window = 0
                   PROVE  /\ Own(cBuf'[b], cOpt[b].blk)
                          /\ sTest = b => Own(sBuf, cOpt[b].blk)
        BY <2>1 DEF Buffers, Own
      <3>1. CASE b = c
        BY <1>1, <2>1, <2>4, <3>1 DEF Buffers, TypeOK, blk
      <3>2. CASE b # c
        BY <1>1, <2>1, <3>2 DEF Buffers, TypeOK
      <3> QED  BY <3>1, <3>2
    <2>6. BufferHolds'
      <3>1. ASSUME NEW b \in Clients, NEW n \in DOMAIN cGranted'[b], cOpt[b].window = 0
            PROVE  cGranted'[b][n] >= cOpt[b].blk
        <4>1. CASE cGranted'[b] = cGranted[b]
          BY <1>1, <3>1, <4>1 DEF BufferHolds
        <4>2. CASE /\ b = c /\ ~BufferError(cBuf[c], blk)
                   /\ cGranted'[c] = Append(cGranted[c], Actual(size))
          <5>1. CASE n \in DOMAIN cGranted[c]
            BY <1>1, <2>2, <2>3, <3>1, <4>2, <5>1 DEF BufferHolds
          <5>2. CASE n = Len(cGranted[c]) + 1
            BY <2>2, <2>3, <2>4, <3>1, <4>2, <5>2 DEF blk
          <5> QED  BY <2>2, <2>3, <3>1, <4>2, <5>1, <5>2
        <4> QED  BY <1>1, <2>1, <4>1, <4>2 DEF TypeOK
      <3>2. \A n \in DOMAIN sGranted' : cOpt'[sTest'].window = 0 => sGranted'[n] >= cOpt'[sTest'].blk
        BY <1>1, <2>1 DEF BufferHolds
      <3> QED  BY <2>1, <3>1, <3>2 DEF BufferHolds
    <2> QED  BY <2>5, <2>6
  <1>4. ASSUME iperf_udp_accept PROVE Buffers' /\ BufferHolds'
    <2> DEFINE blk == cOpt[sTest].blk
               size == SocketBuf(sBuf, blk)
    <2>1. /\ UNCHANGED <<cOpt, cBuf, cGranted, sTest>>
          /\ ~BufferError(sBuf, blk)
          /\ sBuf' = size
          /\ sGranted' = Append(sGranted, Actual(size))
      BY <1>4 DEF iperf_udp_accept, cliVars
    <2>2. sTest \in Clients
      BY <1>1, <1>4 DEF iperf_udp_accept, ServerStage, TypeOK
    <2>3. sBuf \in Nat /\ blk \in Nat /\ sGranted \in Seq(Nat)
      BY <1>1, <2>2, OptTypes DEF TypeOK
    <2>4. Actual(size) \in Nat
      BY <2>3, SizesAreNumbers
    <2>5. cOpt[sTest].window = 0 => Own(size, blk) /\ Actual(size) >= blk
      BY <1>1, <2>1, <2>2, <2>3, OwnBufferHolds DEF Buffers
    <2> HIDE DEF size
    <2>6. Buffers'
      BY <1>1, <2>1, <2>5 DEF Buffers, Own
    <2>7. BufferHolds'
      <3>1. ASSUME NEW n \in DOMAIN sGranted', cOpt[sTest].window = 0
            PROVE  sGranted'[n] >= blk
        <4>1. CASE n \in DOMAIN sGranted
          BY <1>1, <2>1, <2>3, <2>4, <3>1, <4>1 DEF BufferHolds
        <4>2. CASE n = Len(sGranted) + 1
          BY <2>1, <2>3, <2>4, <2>5, <3>1, <4>2
        <4> QED  BY <2>1, <2>3, <2>4, <3>1, <4>1, <4>2
      <3> QED  BY <1>1, <2>1, <3>1 DEF BufferHolds
    <2> QED  BY <2>6, <2>7
  <1>5. CASE \/ UNCHANGED vars
             \/ \E c \in Clients : \/ ClientReply(c) \/ ClientTimeout(c) \/ ClientRuns(c)
                                   \/ ClientEOF(c) \/ iperf_client_end(c)
                                   \/ iperf_udp_send(c) \/ ClientKilled(c)
             \/ \E d \in net : Arrive(d) \/ Lose(d)
    <2>1. UNCHANGED <<cOpt, cBuf, cGranted, sTest, sBuf, sGranted>>
      BY <1>5 DEF vars, cliVars, srvVars, ClientReply, ClientTimeout, ClientRuns, ClientEOF,
                  iperf_client_end, iperf_udp_send, ClientKilled, Arrive, Lose
    <2> QED  BY <2>1, SizesKept
  <1>6. CASE BufferAcceptError \/ AcceptError \/ ServerEOF \/ ServerAborts
    <2>1. UNCHANGED <<cOpt, cBuf, cGranted>> /\ sTest' = NoClient /\ sGranted' = <<>>
      BY <1>6 DEF BufferAcceptError, AcceptError, ServerEOF, ServerAborts, ResetServer, cliVars
    <2> QED  BY <2>1, SizesKept
  <1> QED  BY <1>2, <1>3, <1>4, <1>5, <1>6 DEF Next, ClientStep, ServerStep, Environment

\* A stream whose buffer was left to iperf_udp_buffercheck holds a block on both
\* sides, for every block size and whatever the kernel grants, the streams after
\* the first included: where no buffer is large enough there is no stream.
THEOREM BuffersHoldABlock == Spec => []BufferHolds
  <1>1. Init => BufferInv
    <2> SUFFICES ASSUME Init PROVE Buffers /\ BufferHolds
      BY PairInit DEF BufferInv
    <2>1. Buffers
      BY UdpConnectAssumption DEF Init, Buffers, Own
    <2>2. BufferHolds
      BY DEF Init, BufferHolds
    <2> QED  BY <2>1, <2>2
  <1>2. BufferInv /\ [Next]_vars => BufferInv'
    BY BufferStep
  <1>3. BufferInv => BufferHolds
    BY DEF BufferInv
  <1> QED  BY <1>1, <1>2, <1>3, PTL DEF Spec

=============================================================================
