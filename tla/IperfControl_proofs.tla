------------------------- MODULE IperfControl_proofs -------------------------
(***************************************************************************)
(* Proofs about IperfControl, for any number of clients and streams: types *)
(* and the server's one test at a time; then the control conversation, in  *)
(* which both sides say what the other expects, whatever fails, and a      *)
(* client that reports success has complete results; then that every step  *)
(* of a client or of the server is a step of TestService, or none; and the *)
(* streams behind a test: as long as iperf_tcp_accept never takes a buffer *)
(* it did not fill for a cookie, the lists of streams of both sides agree. *)
(***************************************************************************)
EXTENDS IperfService, TLAPS

(* Facts about connections and messages that hide their representation. *)

\* A client's control connection is a connection, and it is the client's.
LEMMA CtrlConn == \A c \in Clients : Ctrl(c) \in Conns /\ Owner(Ctrl(c)) = c
BY ControlAssumption DEF Ctrl, Conns, Owner

\* Different clients have different control connections, and NoConn is none.
LEMMA CtrlDistinct ==
    /\ \A c, d \in Clients : Ctrl(c) = Ctrl(d) => c = d
    /\ \A c \in Clients : Ctrl(c) # NoConn
    /\ NoConn \notin Conns
BY ControlAssumption DEF Ctrl, Conns

\* Every connection belongs to a client.
LEMMA OwnerIsClient == \A k \in Conns : Owner(k) \in Clients
BY DEF Conns, Owner

\* The stream iperf_tcp_connect opens next is a connection and no control connection.
LEMMA StreamConn ==
    ASSUME NEW c \in Clients, NEW o \in Config, NEW n \in Nat, n >= 1, n <= StreamsTotal(o)
    PROVE  <<c, n>> \in Conns /\ \A d \in Clients : <<c, n>> # Ctrl(d)
BY ControlAssumption DEF Conns, Ctrl, StreamsTotal, Config

\* State bytes, cookies and JSON messages are messages.
LEMMA MsgType ==
    /\ \A t \in State \cup {"COOKIE", "PARAMS", "RESULTS"} : Msg(t) \in Message
    /\ \A S \in SUBSET Nat : [t |-> "RESULTS", ids |-> S] \in Message
BY DEF Msg, Message

\* Stream ids are numbers.
LEMMA IdsType == \A streams \in Seq(Stream) : IdsOf(streams) \subseteq Nat
BY DEF IdsOf, StreamId

\* What a client that ran on the default options would exchange is legal.
LEMMA DefaultType == DefaultOpt \in Config
BY ControlAssumption DEF DefaultOpt, Config, Mode

-----------------------------------------------------------------------------
(* Type correctness, first of the operators the actions are made of. *)

\* Sending on a connection keeps what is on its way to the server a list of messages.
LEMMA ClientSendType ==
    ASSUME TypeOK, NEW k \in Conns, NEW m \in Message, ClientSend(k, m)
    PROVE  up' \in [Conns -> Seq(Message)]
BY DEF TypeOK, ClientSend

\* So does a list of messages the server sends.
LEMMA ServerSendType ==
    ASSUME TypeOK, NEW k \in Conns, NEW ms \in Seq(Message), ServerSend(k, ms)
    PROVE  down' \in [Conns -> Seq(Message)]
<1>1. down[k] \o ms \in Seq(Message)
    BY DEF TypeOK
<1> QED
    BY <1>1 DEF TypeOK, ServerSend

\* A client reads a message, and the rest stays on its way.
LEMMA ClientReadsType ==
    ASSUME TypeOK, NEW c \in Clients, NEW t, ClientReads(c, t)
    PROVE  /\ down' \in [Conns -> Seq(Message)]
           /\ Head(down[Ctrl(c)]) \in Message
<1>1. Tail(down[Ctrl(c)]) \in Seq(Message) /\ Head(down[Ctrl(c)]) \in Message
    BY CtrlConn DEF TypeOK, ClientReads
<1> QED
    BY <1>1, CtrlConn DEF TypeOK, ClientReads

\* The server reads one message and leaves the others.
LEMMA ServerReadsType ==
    ASSUME TypeOK, NEW k \in Conns, ServerReads(k)
    PROVE  up' \in [Conns -> Seq(Message)]
<1>1. up[k] # <<>> => Tail(up[k]) \in Seq(Message)
    BY DEF TypeOK
<1> QED
    BY <1>1 DEF TypeOK, ServerReads

\* close() by the server leaves every socket in a legal state.
LEMMA ServerCloseType ==
    ASSUME TypeOK, NEW S, ServerClose(S)
    PROVE  sEnd' \in [Conns -> {"none", "open", "closed"}]
BY DEF TypeOK, ServerClose

\* So does the exit of a process.
LEMMA ExitClosesType ==
    ASSUME TypeOK
    PROVE  /\ \A c \in Clients : ClientExitCloses(c) => cEnd' \in [Conns -> {"none", "open", "closed"}]
           /\ ServerExitCloses => sEnd' \in [Conns -> {"none", "open", "closed"}]
BY DEF TypeOK, ClientExitCloses, ServerExitCloses

\* A dialed connection is open at both ends and in the backlog.
LEMMA DialType ==
    ASSUME TypeOK, NEW k \in Conns, Dial(k)
    PROVE  /\ cEnd' \in [Conns -> {"none", "open", "closed"}]
           /\ sEnd' \in [Conns -> {"none", "open", "closed"}]
           /\ backlog' \in Seq(Conns)
           /\ UNCHANGED <<up, down, listening>>
BY DEF TypeOK, Dial

\* test->state and the place of a client stay legal.
LEMMA ClientGoesType ==
    ASSUME TypeOK, NEW c \in Clients, NEW pc \in CPc, NEW state \in State,
           ClientGoes(c, pc, state)
    PROVE  cPc' \in [Clients -> CPc] /\ cState' \in [Clients -> State]
BY DEF TypeOK, ClientGoes

\* An error return of iperf_run_client leaves the client in a legal state.
LEMMA ClientFailsType ==
    ASSUME TypeOK, NEW c \in Clients, NEW err \in Error, ClientFails(c, err)
    PROVE  /\ cPc' \in [Clients -> CPc]
           /\ cErr' \in [Clients -> Error]
           /\ cEnd' \in [Conns -> {"none", "open", "closed"}]
<1>1. cEnd' \in [Conns -> {"none", "open", "closed"}]
    BY ExitClosesType DEF TypeOK, ClientFails, iperf_free_test
<1> QED
    BY <1>1 DEF TypeOK, ClientFails, CPc

\* cleanup_server leaves the server and its sockets in a legal state.
LEMMA CleanupType ==
    ASSUME TypeOK, NEW S, NEW err \in Error, cleanup_server(S, err)
    PROVE  /\ sEnd' \in [Conns -> {"none", "open", "closed"}]
           /\ backlog' \in Seq(Conns)
           /\ listening' \in BOOLEAN
           /\ sTimer' \in BOOLEAN
           /\ sPend' \in Conns \cup {NoConn}
           /\ sPc' \in SPc
           /\ sErr' \in Error
<1>1. ServerClose(S \cup {sCtrl} \cup Queued)
    BY DEF cleanup_server
<1>2. sEnd' \in [Conns -> {"none", "open", "closed"}]
    BY <1>1, ServerCloseType
<1>3. backlog' \in Seq(Conns)
    BY DEF cleanup_server
<1>4. listening' \in BOOLEAN /\ sTimer' \in BOOLEAN
    BY DEF cleanup_server
<1>5. sPend' \in Conns \cup {NoConn} /\ sPc' \in SPc /\ sErr' \in Error
    BY DEF cleanup_server, SPc
<1> QED
    BY <1>2, <1>3, <1>4, <1>5

\* accept() takes a connection off the backlog and leaves connections.
LEMMA BacklogType ==
    ASSUME TypeOK, backlog # <<>>
    PROVE  Head(backlog) \in Conns /\ Tail(backlog) \in Seq(Conns)
BY DEF TypeOK

\* The server reads only from sockets it has: it waits for the cookie, the
\* parameters or the results of a test on that test's control connection, and
\* for a stream's cookie on the stream it has accepted.
WaitsOnSocket ==
    /\ sPc \in {"cookie", "params", "results", "streamCookie"} => sCtrl # NoConn
    /\ sPc = "streamCookie" => sPend # NoConn
    /\ sState # "IPERF_START" => sCtrl # NoConn

TypeInv == TypeOK /\ WaitsOnSocket

\* Every step of a client keeps the types: iperf_run_client and its handlers.
LEMMA ClientTypeStep ==
    ASSUME TypeInv, NEW c \in Clients, ClientStep(c) \/ ClientFault(c)
    PROVE  TypeInv'
<1> USE CtrlConn
<1>s. ASSUME UNCHANGED srvVars PROVE WaitsOnSocket'
    BY <1>s DEF TypeInv, WaitsOnSocket, srvVars
<1>t. TypeOK /\ cState[c] \in State /\ cOpt[c] \in Config /\ cStreams[c] \in Seq(Stream)
    BY DEF TypeInv, TypeOK
<1>1. ASSUME iperf_connect(c) PROVE TypeInv'
  <2>1. CASE Dial(Ctrl(c)) /\ ClientGoes(c, "dialed", cState[c]) /\ UNCHANGED <<cOpt, cStreams, cGot, cErr, srvVars>>
    <3>1. cPc' \in [Clients -> CPc] /\ cState' \in [Clients -> State]
      BY <2>1, <1>t, ClientGoesType DEF CPc
    <3>2. /\ cEnd' \in [Conns -> {"none", "open", "closed"}]
          /\ sEnd' \in [Conns -> {"none", "open", "closed"}]
          /\ backlog' \in Seq(Conns)
          /\ UNCHANGED <<up, down, listening>>
      BY <2>1, <1>t, DialType
    <3> QED
      BY <2>1, <3>1, <3>2, <1>s, <1>t DEF TypeInv, TypeOK, srvVars
  <2>2. CASE /\ ClientFails(c, "IECONNECT")
             /\ UNCHANGED <<up, down, sEnd, backlog, listening,
                            cState, cOpt, cStreams, cGot, srvVars>>
    <3>1. /\ cPc' \in [Clients -> CPc] /\ cErr' \in [Clients -> Error]
          /\ cEnd' \in [Conns -> {"none", "open", "closed"}]
      BY <2>2, <1>t, ClientFailsType DEF Error
    <3> QED
      BY <2>2, <3>1, <1>s, <1>t DEF TypeInv, TypeOK, srvVars
  <2> QED
    BY <1>1, <2>1, <2>2 DEF iperf_connect
<1>2. ASSUME iperf_connect_cookie(c) PROVE TypeInv'
  <2>1. up' \in [Conns -> Seq(Message)]
    BY <1>2, <1>t, ClientSendType, MsgType DEF iperf_connect_cookie, State
  <2>2. cPc' \in [Clients -> CPc] /\ cState' \in [Clients -> State]
    BY <1>2, <1>t, ClientGoesType DEF iperf_connect_cookie, CPc, State
  <2> QED
    BY <1>2, <1>s, <1>t, <2>1, <2>2 DEF TypeInv, TypeOK, iperf_connect_cookie, cliVars, srvVars
<1>3. ASSUME ClientParamExchange(c) PROVE TypeInv'
  <2>1. down' \in [Conns -> Seq(Message)]
    BY <1>3, <1>t, ClientReadsType DEF ClientParamExchange
  <2>2. up' \in [Conns -> Seq(Message)]
    BY <1>3, <1>t, ClientSendType, MsgType DEF ClientParamExchange, State
  <2>3. cPc' \in [Clients -> CPc] /\ cState' \in [Clients -> State]
    BY <1>3, <1>t, ClientGoesType DEF ClientParamExchange, CPc, State
  <2> QED
    BY <1>3, <1>s, <1>t, <2>1, <2>2, <2>3 DEF TypeInv, TypeOK, ClientParamExchange, cliVars, srvVars
<1>4. ASSUME ClientCreateStreams(c) PROVE TypeInv'
  <2>1. down' \in [Conns -> Seq(Message)]
    BY <1>4, <1>t, ClientReadsType DEF ClientCreateStreams
  <2>2. cPc' \in [Clients -> CPc] /\ cState' \in [Clients -> State]
    BY <1>4, <1>t, ClientGoesType DEF ClientCreateStreams, CPc, State
  <2> QED
    BY <1>4, <1>s, <1>t, <2>1, <2>2 DEF TypeInv, TypeOK, ClientCreateStreams, cliVars, srvVars
<1>5. ASSUME iperf_tcp_connect(c) PROVE TypeInv'
  <2>1. <<c, Len(cStreams[c]) + 1>> \in Conns
    BY <1>5, <1>t, StreamConn DEF iperf_tcp_connect, StreamsTotal, Config
  <2>2. /\ cEnd' \in [Conns -> {"none", "open", "closed"}]
        /\ sEnd' \in [Conns -> {"none", "open", "closed"}]
        /\ backlog' \in Seq(Conns)
        /\ UNCHANGED <<up, down, listening>>
    BY <1>5, <2>1, <1>t, DialType DEF iperf_tcp_connect
  <2>3. cPc' \in [Clients -> CPc] /\ cState' \in [Clients -> State]
    BY <1>5, <1>t, ClientGoesType DEF iperf_tcp_connect, CPc, State
  <2> QED
    BY <1>5, <1>s, <1>t, <2>1, <2>2, <2>3 DEF TypeInv, TypeOK, iperf_tcp_connect, cliVars, srvVars
<1>6. ASSUME iperf_create_streams(c) PROVE TypeInv'
  <2>1. <<c, Len(cStreams[c]) + 1>> \in Conns
    BY <1>6, <1>t, StreamConn DEF iperf_create_streams
  <2>2. up' \in [Conns -> Seq(Message)]
    BY <1>6, <2>1, <1>t, ClientSendType, MsgType DEF iperf_create_streams
  <2>3. [conn |-> <<c, Len(cStreams[c]) + 1>>, sender |-> ClientSends(cOpt[c], Len(cStreams[c]) + 1)] \in Stream
    BY <2>1 DEF Stream, ClientSends
  <2>4. cStreams' \in [Clients -> Seq(Stream)]
    BY <1>6, <2>3, <1>t DEF iperf_create_streams, TypeOK
  <2>5. cPc' \in [Clients -> CPc] /\ cState' \in [Clients -> State]
    BY <1>6, <1>t, ClientGoesType DEF iperf_create_streams, CPc, State
  <2> QED
    BY <1>6, <1>s, <1>t, <2>1, <2>2, <2>3, <2>4, <2>5 DEF TypeInv, TypeOK,
       iperf_create_streams, cliVars, srvVars
<1>7. ASSUME ClientConnectError(c) PROVE TypeInv'
  <2>1. /\ cPc' \in [Clients -> CPc] /\ cErr' \in [Clients -> Error]
        /\ cEnd' \in [Conns -> {"none", "open", "closed"}]
    BY <1>7, <1>t, ClientFailsType DEF ClientConnectError, Error
  <2> QED
    BY <1>7, <1>s, <1>t, <2>1 DEF TypeInv, TypeOK, ClientConnectError, cliVars, srvVars
<1>8. ASSUME ClientConnectRefused(c) PROVE TypeInv'
    BY <1>7, <1>8 DEF ClientConnectRefused
<1>9. ASSUME ClientTestPhase(c) PROVE TypeInv'
  <2>1. down' \in [Conns -> Seq(Message)]
    BY <1>9, <1>t, ClientReadsType DEF ClientTestPhase
  <2>2. cPc' \in [Clients -> CPc] /\ cState' \in [Clients -> State]
    BY <1>9, <1>t, ClientGoesType DEF ClientTestPhase, CPc, State
  <2> QED
    BY <1>9, <1>s, <1>t, <2>1, <2>2 DEF TypeInv, TypeOK, ClientTestPhase, cliVars, srvVars
<1>10. ASSUME ClientTestEnd(c) PROVE TypeInv'
  <2>1. up' \in [Conns -> Seq(Message)]
    BY <1>10, <1>t, ClientSendType, MsgType DEF ClientTestEnd, State
  <2>2. cPc' \in [Clients -> CPc] /\ cState' \in [Clients -> State]
    BY <1>10, <1>t, ClientGoesType DEF ClientTestEnd, CPc, State
  <2> QED
    BY <1>10, <1>s, <1>t, <2>1, <2>2 DEF TypeInv, TypeOK, ClientTestEnd, cliVars, srvVars
<1>11. ASSUME ClientStreamError(c) PROVE TypeInv'
  <2>1. /\ cPc' \in [Clients -> CPc] /\ cErr' \in [Clients -> Error]
        /\ cEnd' \in [Conns -> {"none", "open", "closed"}]
    BY <1>11, <1>t, ClientFailsType DEF ClientStreamError, Error
  <2> QED
    BY <1>11, <1>s, <1>t, <2>1 DEF TypeInv, TypeOK, ClientStreamError, cliVars, srvVars
<1>12. ASSUME ClientExchangeResults(c) PROVE TypeInv'
  <2>1. down' \in [Conns -> Seq(Message)]
    BY <1>12, <1>t, ClientReadsType DEF ClientExchangeResults
  <2>2. IdsOf(cStreams[c]) \subseteq Nat
    BY <1>t, IdsType
  <2>3. up' \in [Conns -> Seq(Message)]
    BY <1>12, <2>2, <1>t, ClientSendType, MsgType DEF ClientExchangeResults
  <2>4. cPc' \in [Clients -> CPc] /\ cState' \in [Clients -> State]
    BY <1>12, <1>t, ClientGoesType DEF ClientExchangeResults, CPc, State
  <2> QED
    BY <1>12, <1>s, <1>t, <2>1, <2>2, <2>3, <2>4 DEF TypeInv, TypeOK, ClientExchangeResults,
       cliVars, srvVars
<1>13. ASSUME ClientGetResults(c) PROVE TypeInv'
  <2>1. /\ Head(down[Ctrl(c)]) \in Message
        /\ Tail(down[Ctrl(c)]) \in Seq(Message)
    BY <1>13, <1>t DEF ClientGetResults, TypeOK
  <2>2. down' \in [Conns -> Seq(Message)] /\ cGot' \in [Clients -> SUBSET Nat]
    BY <1>13, <2>1, <1>t DEF ClientGetResults, TypeOK, Message
  <2>3. /\ cPc' \in [Clients -> CPc] /\ cState' \in [Clients -> State] /\ cErr' \in [Clients -> Error]
        /\ cEnd' \in [Conns -> {"none", "open", "closed"}]
    BY <1>13, <1>t, ClientGoesType, ClientFailsType DEF ClientGetResults, TypeOK, CPc, Error
  <2> QED
    BY <1>13, <1>s, <1>t, <2>1, <2>2, <2>3 DEF TypeInv, TypeOK, ClientGetResults, cliVars, srvVars
<1>14. ASSUME iperf_client_end(c) PROVE TypeInv'
  <2>1. down' \in [Conns -> Seq(Message)]
    BY <1>14, <1>t, ClientReadsType DEF iperf_client_end
  <2>2. up' \in [Conns -> Seq(Message)]
    BY <1>14, <1>t, ClientSendType, MsgType DEF iperf_client_end, State
  <2>3. cPc' \in [Clients -> CPc] /\ cState' \in [Clients -> State]
    BY <1>14, <1>t, ClientGoesType DEF iperf_client_end, CPc, State
  <2>4. cEnd' \in [Conns -> {"none", "open", "closed"}]
    BY <1>14, <1>t, ExitClosesType DEF iperf_client_end
  <2> QED
    BY <1>14, <1>s, <1>t, <2>1, <2>2, <2>3, <2>4 DEF TypeInv, TypeOK, iperf_client_end,
       cliVars, srvVars
<1>15. ASSUME ClientRefused(c) PROVE TypeInv'
  <2>1. down' \in [Conns -> Seq(Message)]
    BY <1>15, <1>t, ClientReadsType DEF ClientRefused
  <2>2. /\ cPc' \in [Clients -> CPc] /\ cErr' \in [Clients -> Error]
        /\ cEnd' \in [Conns -> {"none", "open", "closed"}]
    BY <1>15, <1>t, ClientFailsType DEF ClientRefused, Error
  <2> QED
    BY <1>15, <1>s, <1>t, <2>1, <2>2 DEF TypeInv, TypeOK, ClientRefused, cliVars, srvVars
<1>16. ASSUME ClientEOF(c) PROVE TypeInv'
  <2>1. /\ cPc' \in [Clients -> CPc] /\ cErr' \in [Clients -> Error]
        /\ cEnd' \in [Conns -> {"none", "open", "closed"}]
    BY <1>16, <1>t, ClientFailsType DEF ClientEOF, Error
  <2> QED
    BY <1>16, <1>s, <1>t, <2>1 DEF TypeInv, TypeOK, ClientEOF, cliVars, srvVars
<1>17. ASSUME ClientReset(c) PROVE TypeInv'
  <2>1. /\ cPc' \in [Clients -> CPc] /\ cErr' \in [Clients -> Error]
        /\ cEnd' \in [Conns -> {"none", "open", "closed"}]
    BY <1>17, <1>t, ClientFailsType DEF ClientReset, Error
  <2> QED
    BY <1>17, <1>s, <1>t, <2>1 DEF TypeInv, TypeOK, ClientReset, cliVars, srvVars
<1>18. ASSUME iperf_got_sigend_client(c) PROVE TypeInv'
  <2>1. up' \in [Conns -> Seq(Message)]
    BY <1>18, <1>t, ClientSendType, MsgType DEF iperf_got_sigend_client, State
  <2>2. cPc' \in [Clients -> CPc] /\ cState' \in [Clients -> State]
    BY <1>18, <1>t, ClientGoesType DEF iperf_got_sigend_client, CPc, State
  <2>3. cEnd' \in [Conns -> {"none", "open", "closed"}]
    BY <1>18, <1>t, ExitClosesType DEF iperf_got_sigend_client
  <2> QED
    BY <1>18, <1>s, <1>t, <2>1, <2>2, <2>3, SMTT(30) DEF TypeInv, TypeOK, iperf_got_sigend_client,
       cliVars, srvVars, Error
<1>19. ASSUME ClientCrash(c) PROVE TypeInv'
  <2>1. cEnd' \in [Conns -> {"none", "open", "closed"}]
    BY <1>19, <1>t, ExitClosesType DEF ClientCrash
  <2> QED
    BY <1>19, <1>s, <1>t, <2>1 DEF TypeInv, TypeOK, ClientCrash, cliVars, srvVars, CPc
<1> QED
    BY <1>1, <1>2, <1>3, <1>4, <1>5, <1>6, <1>7, <1>8, <1>9, <1>10, <1>11, <1>12, <1>13,
       <1>14, <1>15, <1>16, <1>17, <1>18, <1>19 DEF ClientStep, ClientFault

\* The empty list is a list of streams.
LEMMA NoStreams == <<>> \in Seq(Stream)
OBVIOUS

\* iperf_set_send_state: one state byte on its way to a client.
LEMMA ServerSendsState ==
    ASSUME TypeOK, NEW k \in Conns, NEW t \in State, ServerSend(k, <<Msg(t)>>)
    PROVE  down' \in [Conns -> Seq(Message)]
<1>1. <<Msg(t)>> \in Seq(Message)
    BY MsgType
<1> QED
    BY <1>1, ServerSendType

\* Reopening the listener, or keeping it, leaves sockets and backlog legal.
LEMMA RelistenType ==
    ASSUME TypeOK,
           (ServerClose(Queued) /\ backlog' = <<>>) \/ UNCHANGED <<sEnd, backlog>>
    PROVE  sEnd' \in [Conns -> {"none", "open", "closed"}] /\ backlog' \in Seq(Conns)
<1>1. CASE ServerClose(Queued) /\ backlog' = <<>>
    BY <1>1, ServerCloseType
<1>2. CASE UNCHANGED <<sEnd, backlog>>
    BY <1>2 DEF TypeOK
<1> QED
    BY <1>1, <1>2

\* Every step of the server keeps the types: iperf_run_server, its handlers and
\* its watchdog.
LEMMA ServerTypeStep ==
    ASSUME TypeInv, ServerStep \/ server_timer_proc \/ ServerFault
    PROVE  TypeInv'
<1>t. /\ TypeOK /\ WaitsOnSocket
      /\ sCtrl # NoConn => sCtrl \in Conns /\ Owner(sCtrl) \in Clients
      /\ sPend # NoConn => sPend \in Conns /\ Owner(sPend) \in Clients
    BY OwnerIsClient DEF TypeInv, TypeOK
<1>1. ASSUME NEW k \in Conns, iperf_accept(k) PROVE TypeInv'
  <2>1. Head(backlog) \in Conns /\ Tail(backlog) \in Seq(Conns)
    BY <1>1, <1>t, BacklogType DEF iperf_accept
  <2>2. TypeOK'
    BY <1>1, <1>t, <2>1 DEF TypeOK, iperf_accept, cliVars, srvVars, SPc
  <2>3. WaitsOnSocket'
    BY <1>1, <1>t, <2>1, CtrlDistinct DEF WaitsOnSocket, TypeOK, iperf_accept, SelectOk,
       cliVars, srvVars
  <2> QED
    BY <2>2, <2>3 DEF TypeInv
<1>2. ASSUME NEW k \in Conns, iperf_accept_busy(k) PROVE TypeInv'
  <2>1. Head(backlog) \in Conns /\ Tail(backlog) \in Seq(Conns)
    BY <1>2, <1>t, BacklogType DEF iperf_accept_busy
  <2>2. sEnd' \in [Conns -> {"none", "open", "closed"}]
    BY <1>2, <1>t, ServerCloseType DEF iperf_accept_busy
  <2>3. down' \in [Conns -> Seq(Message)]
    BY <1>2, <1>t, ServerSendsState DEF iperf_accept_busy, State, WaitsOnSocket
  <2>4. TypeOK'
    BY <1>2, <1>t, <2>1, <2>2, <2>3 DEF TypeOK, iperf_accept_busy, cliVars, srvVars
  <2>5. WaitsOnSocket'
    BY <1>2, <1>t, <2>1, <2>2, <2>3, CtrlDistinct DEF WaitsOnSocket, TypeOK,
       iperf_accept_busy, SelectOk, cliVars, srvVars
  <2> QED
    BY <2>4, <2>5 DEF TypeInv
<1>3. ASSUME iperf_accept_cookie PROVE TypeInv'
  <2>1. sCtrl \in Conns /\ Owner(sCtrl) \in Clients
    BY <1>3, <1>t DEF iperf_accept_cookie, WaitsOnSocket
  <2>2. <<>> \in Seq(Message)
    OBVIOUS
  <2>3. up' \in [Conns -> Seq(Message)]
    BY <1>3, <1>t, <2>1, <2>2, ServerReadsType DEF iperf_accept_cookie, TypeOK
  <2>4. down' \in [Conns -> Seq(Message)]
    BY <1>3, <1>t, ServerSendsState DEF iperf_accept_cookie, State, WaitsOnSocket
  <2>5. sState' \in State /\ sPc' \in SPc
    BY <1>3, <1>t DEF iperf_accept_cookie, State, SPc
  <2>6. TypeOK'
    BY <1>3, <1>t, <2>1, <2>2, <2>3, <2>4, <2>5 DEF TypeOK, iperf_accept_cookie, cliVars, srvVars
  <2>7. WaitsOnSocket'
    BY <1>3, <1>t, <2>1, <2>2, <2>3, <2>4, <2>5, CtrlDistinct DEF WaitsOnSocket, TypeOK,
       iperf_accept_cookie, SelectOk, cliVars, srvVars
  <2> QED
    BY <2>6, <2>7 DEF TypeInv
<1>4. ASSUME iperf_exchange_parameters PROVE TypeInv'
  <2>1. sCtrl \in Conns /\ Owner(sCtrl) \in Clients
    BY <1>4, <1>t DEF iperf_exchange_parameters, WaitsOnSocket
  <2>2. up' \in [Conns -> Seq(Message)]
    BY <1>4, <1>t, ServerReadsType DEF iperf_exchange_parameters, WaitsOnSocket
  <2>3. down' \in [Conns -> Seq(Message)]
    BY <1>4, <1>t, ServerSendsState DEF iperf_exchange_parameters, State, WaitsOnSocket
  <2>4. (ServerClose(Queued) /\ backlog' = <<>>) \/ UNCHANGED <<sEnd, backlog>>
    BY <1>4, <1>t DEF iperf_exchange_parameters, iperf_tcp_listen
  <2>5. sEnd' \in [Conns -> {"none", "open", "closed"}] /\ backlog' \in Seq(Conns)
    BY <1>4, <1>t, <2>4, RelistenType
  <2>6. sState' \in State /\ sPc' \in SPc
    BY <1>4, <1>t DEF iperf_exchange_parameters, State, SPc
  <2>7. sOpt' \in Config
    BY <1>4, <1>t, <2>1 DEF iperf_exchange_parameters, TypeOK, get_parameters
  <2>8. TypeOK'
    BY <1>4, <1>t, <2>1, <2>2, <2>3, <2>4, <2>5, <2>6, <2>7 DEF TypeOK,
       iperf_exchange_parameters, cliVars, srvVars
  <2>9. WaitsOnSocket'
    BY <1>4, <1>t, <2>1, <2>2, <2>3, <2>4, <2>5, <2>6, <2>7, CtrlDistinct DEF WaitsOnSocket,
       TypeOK, iperf_exchange_parameters, SelectOk, cliVars, srvVars
  <2> QED
    BY <2>8, <2>9 DEF TypeInv
<1>5. ASSUME ListenError PROVE TypeInv'
  <2>1. sCtrl \in Conns /\ Owner(sCtrl) \in Clients
    BY <1>5, <1>t DEF ListenError, WaitsOnSocket
  <2>2. up' \in [Conns -> Seq(Message)]
    BY <1>5, <1>t, ServerReadsType DEF ListenError, WaitsOnSocket
  <2>3. down' \in [Conns -> Seq(Message)]
    BY <1>5, <1>t, ServerSendsState DEF ListenError, State, WaitsOnSocket
  <2>4. /\ sEnd' \in [Conns -> {"none", "open", "closed"}]
        /\ backlog' \in Seq(Conns)
        /\ listening' \in BOOLEAN
        /\ sTimer' \in BOOLEAN
        /\ sPend' \in Conns \cup {NoConn}
        /\ sPc' \in SPc
        /\ sErr' \in Error
    BY <1>5, <1>t, CleanupType DEF ListenError, Error
  <2>5. sState' \in State
    BY <1>5, <1>t DEF ListenError, State
  <2>6. sOpt' \in Config
    BY <1>5, <1>t, <2>1 DEF ListenError, TypeOK, get_parameters
  <2>7. TypeOK'
    BY <1>5, <1>t, <2>1, <2>2, <2>3, <2>4, <2>5, <2>6 DEF TypeOK, ListenError, cliVars, srvVars
  <2>8. WaitsOnSocket'
    BY <1>5, <1>t, <2>1, <2>2, <2>3, <2>4, <2>5, <2>6, CtrlDistinct DEF WaitsOnSocket,
       TypeOK, ListenError, SelectOk, cliVars, srvVars, cleanup_server
  <2> QED
    BY <2>7, <2>8 DEF TypeInv
<1>6. ASSUME iperf_tcp_accept PROVE TypeInv'
  <2>1. Head(backlog) \in Conns /\ Tail(backlog) \in Seq(Conns)
    BY <1>6, <1>t, BacklogType DEF iperf_tcp_accept
  <2>2. TypeOK'
    BY <1>6, <1>t, <2>1 DEF TypeOK, iperf_tcp_accept, cliVars, srvVars, SPc
  <2>3. WaitsOnSocket'
    BY <1>6, <1>t, <2>1, CtrlDistinct DEF WaitsOnSocket, TypeOK, iperf_tcp_accept, SelectOk,
       cliVars, srvVars
  <2> QED
    BY <2>2, <2>3 DEF TypeInv
<1>7. ASSUME AcceptStream PROVE TypeInv'
  <2>1. sPend \in Conns /\ sCtrl \in Conns
    BY <1>7, <1>t DEF AcceptStream, WaitsOnSocket
  <2>2. up' \in [Conns -> Seq(Message)]
    BY <1>7, <1>t, ServerReadsType DEF AcceptStream, WaitsOnSocket
  <2>3. <<Msg("TEST_START"), Msg("TEST_RUNNING")>> \in Seq(Message)
    BY MsgType DEF State
  <2>4. down' \in [Conns -> Seq(Message)]
    BY <1>7, <1>t, <2>1, <2>3, ServerSendType DEF AcceptStream, TypeOK
  <2>5. (ServerClose(Queued) /\ backlog' = <<>>) \/ UNCHANGED <<sEnd, backlog>>
    BY <1>7, <1>t DEF AcceptStream, iperf_tcp_listen
  <2>6. sEnd' \in [Conns -> {"none", "open", "closed"}] /\ backlog' \in Seq(Conns)
    BY <1>7, <1>t, <2>5, RelistenType
  <2>7. [conn |-> sPend, sender |-> NextIsSender] \in Stream
    BY <2>1 DEF Stream, NextIsSender
  <2>8. sStreams' \in Seq(Stream)
    BY <1>7, <1>t, <2>7 DEF AcceptStream, TypeOK
  <2>9. sTimer' \in BOOLEAN /\ sDone' \in BOOLEAN
    BY <1>7, <1>t DEF AcceptStream, HasWatchdog
  <2>10. sState' \in State
    BY <1>7, <1>t DEF AcceptStream, TypeOK, State
  <2>11. UNCHANGED <<cEnd, listening, cliVars, sCtrl, sCookie, sOpt, sErr>> /\ sPend' = NoConn /\ sPc' = "loop"
    BY <1>7, <1>t DEF AcceptStream
  <2>12. TypeOK'
    BY <1>7, <1>t, <2>1, <2>2, <2>3, <2>4, <2>5, <2>6, <2>7, <2>8, <2>9, <2>10, <2>11 DEF
       TypeOK, AcceptStream, cliVars, srvVars, SPc
  <2>13. WaitsOnSocket'
    BY <1>7, <1>t, <2>1, <2>2, <2>3, <2>4, <2>5, <2>6, <2>7, <2>8, <2>9, <2>10, <2>11,
       CtrlDistinct DEF WaitsOnSocket, TypeOK, AcceptStream, SelectOk, cliVars, srvVars
  <2> QED
    BY <2>12, <2>13 DEF TypeInv
<1>8. ASSUME DenyStream PROVE TypeInv'
  <2>1. sPend \in Conns
    BY <1>8, <1>t DEF DenyStream, WaitsOnSocket
  <2>2. sEnd' \in [Conns -> {"none", "open", "closed"}]
    BY <1>8, <1>t, ServerCloseType DEF DenyStream
  <2>3. down' \in [Conns -> Seq(Message)]
    BY <1>8, <1>t, ServerSendsState DEF DenyStream, State, WaitsOnSocket
  <2>4. TypeOK'
    BY <1>8, <1>t, <2>1, <2>2, <2>3 DEF TypeOK, DenyStream, cliVars, srvVars, SPc
  <2>5. WaitsOnSocket'
    BY <1>8, <1>t, <2>1, <2>2, <2>3, CtrlDistinct DEF WaitsOnSocket, TypeOK, DenyStream,
       SelectOk, cliVars, srvVars
  <2> QED
    BY <2>4, <2>5 DEF TypeInv
<1>9. ASSUME ServerTestEnd PROVE TypeInv'
  <2>1. sCtrl \in Conns
    BY <1>9, <1>t DEF ServerTestEnd
  <2>2. up' \in [Conns -> Seq(Message)]
    BY <1>9, <1>t, ServerReadsType DEF ServerTestEnd, WaitsOnSocket
  <2>3. sEnd' \in [Conns -> {"none", "open", "closed"}]
    BY <1>9, <1>t, ServerCloseType DEF ServerTestEnd
  <2>4. down' \in [Conns -> Seq(Message)]
    BY <1>9, <1>t, ServerSendsState DEF ServerTestEnd, State, WaitsOnSocket
  <2>5. TypeOK'
    BY <1>9, <1>t, <2>1, <2>2, <2>3, <2>4 DEF TypeOK, ServerTestEnd, cliVars, srvVars, SPc, State
  <2>6. WaitsOnSocket'
    BY <1>9, <1>t, <2>1, <2>2, <2>3, <2>4, CtrlDistinct DEF WaitsOnSocket, TypeOK,
       ServerTestEnd, SelectOk, cliVars, srvVars
  <2> QED
    BY <2>5, <2>6 DEF TypeInv
<1>10. ASSUME iperf_exchange_results PROVE TypeInv'
  <2>1. sCtrl \in Conns
    BY <1>10, <1>t DEF iperf_exchange_results, WaitsOnSocket
  <2>2. up' \in [Conns -> Seq(Message)]
    BY <1>10, <1>t, ServerReadsType DEF iperf_exchange_results, WaitsOnSocket
  <2>3. [t |-> "RESULTS", ids |-> IdsOf(sStreams)] \in Message
    BY <1>10, <1>t, MsgType, IdsType DEF TypeOK
  <2>4. <<[t |-> "RESULTS", ids |-> IdsOf(sStreams)], Msg("DISPLAY_RESULTS")>> \in Seq(Message)
    BY <2>3, MsgType DEF State
  <2>5. down' \in [Conns -> Seq(Message)]
    BY <1>10, <1>t, <2>1, <2>4, ServerSendType DEF iperf_exchange_results, TypeOK
  <2>6. /\ sEnd' \in [Conns -> {"none", "open", "closed"}]
        /\ backlog' \in Seq(Conns)
        /\ listening' \in BOOLEAN
        /\ sTimer' \in BOOLEAN
        /\ sPend' \in Conns \cup {NoConn}
        /\ sPc' \in SPc
        /\ sErr' \in Error
    BY <1>10, <1>t, CleanupType DEF iperf_exchange_results, TypeOK, SPc, Error
  <2>7. TypeOK'
    BY <1>10, <1>t, <2>1, <2>2, <2>3, <2>4, <2>5, <2>6 DEF TypeOK, iperf_exchange_results,
       cliVars, srvVars, State
  <2>8. WaitsOnSocket'
    BY <1>10, <1>t, <2>1, <2>2, <2>3, <2>4, <2>5, <2>6, CtrlDistinct DEF WaitsOnSocket,
       TypeOK, iperf_exchange_results, SelectOk, cliVars, srvVars, cleanup_server
  <2> QED
    BY <2>7, <2>8 DEF TypeInv
<1>11. ASSUME ServerLeaves PROVE TypeInv'
  <2>1. up' \in [Conns -> Seq(Message)]
    BY <1>11, <1>t, ServerReadsType DEF ServerLeaves, WaitsOnSocket
  <2>2. /\ sEnd' \in [Conns -> {"none", "open", "closed"}]
        /\ backlog' \in Seq(Conns)
        /\ listening' \in BOOLEAN
        /\ sTimer' \in BOOLEAN
        /\ sPend' \in Conns \cup {NoConn}
        /\ sPc' \in SPc
        /\ sErr' \in Error
    BY <1>11, <1>t, CleanupType DEF ServerLeaves, Error
  <2>3. TypeOK'
    BY <1>11, <1>t, <2>1, <2>2 DEF TypeOK, ServerLeaves, cliVars, srvVars, State
  <2>4. WaitsOnSocket'
    BY <1>11, <1>t, <2>1, <2>2, CtrlDistinct DEF WaitsOnSocket, TypeOK, ServerLeaves,
       SelectOk, cliVars, srvVars, cleanup_server
  <2> QED
    BY <2>3, <2>4 DEF TypeInv
<1>12. ASSUME ServerEOF PROVE TypeInv'
  <2>1. /\ sEnd' \in [Conns -> {"none", "open", "closed"}]
        /\ backlog' \in Seq(Conns)
        /\ listening' \in BOOLEAN
        /\ sTimer' \in BOOLEAN
        /\ sPend' \in Conns \cup {NoConn}
        /\ sPc' \in SPc
        /\ sErr' \in Error
    BY <1>12, <1>t, CleanupType DEF ServerEOF, Error
  <2>2. TypeOK'
    BY <1>12, <1>t, <2>1 DEF TypeOK, ServerEOF, cliVars, srvVars, State
  <2>3. WaitsOnSocket'
    BY <1>12, <1>t, <2>1, CtrlDistinct DEF WaitsOnSocket, TypeOK, ServerEOF, SelectOk,
       cliVars, srvVars, cleanup_server
  <2> QED
    BY <2>2, <2>3 DEF TypeInv
<1>13. ASSUME ServerReset PROVE TypeInv'
  <2>1. /\ sEnd' \in [Conns -> {"none", "open", "closed"}]
        /\ backlog' \in Seq(Conns)
        /\ listening' \in BOOLEAN
        /\ sTimer' \in BOOLEAN
        /\ sPend' \in Conns \cup {NoConn}
        /\ sPc' \in SPc
        /\ sErr' \in Error
    BY <1>13, <1>t, CleanupType DEF ServerReset, Error
  <2>2. TypeOK'
    BY <1>13, <1>t, <2>1 DEF TypeOK, ServerReset, cliVars, srvVars
  <2>3. WaitsOnSocket'
    BY <1>13, <1>t, <2>1, CtrlDistinct DEF WaitsOnSocket, TypeOK, ServerReset, SelectOk,
       cliVars, srvVars, cleanup_server
  <2> QED
    BY <2>2, <2>3 DEF TypeInv
<1>14. ASSUME server_timer_proc PROVE TypeInv'
  <2>1. \/ UNCHANGED <<sEnd, sDone, sStreams>>
        \/ sDone' = TRUE /\ ServerClose(ConnsOf(sStreams) \cup {sCtrl}) /\ sStreams' = <<>>
    BY <1>14, <1>t DEF server_timer_proc
  <2>2. sEnd' \in [Conns -> {"none", "open", "closed"}]
    BY <1>14, <1>t, <2>1, ServerCloseType DEF TypeOK
  <2>3. sDone' \in BOOLEAN /\ sTimer' \in BOOLEAN
    BY <1>14, <1>t, <2>1 DEF server_timer_proc, TypeOK
  <2>4. sStreams' \in Seq(Stream)
    BY <1>14, <1>t, <2>1, NoStreams DEF TypeOK
  <2>5. TypeOK'
    BY <1>14, <1>t, <2>1, <2>2, <2>3, <2>4 DEF TypeOK, server_timer_proc, cliVars, srvVars
  <2>6. WaitsOnSocket'
    BY <1>14, <1>t, <2>1, <2>2, <2>3, <2>4, CtrlDistinct DEF WaitsOnSocket, TypeOK,
       server_timer_proc, SelectOk, cliVars, srvVars
  <2> QED
    BY <2>5, <2>6 DEF TypeInv
<1>15. ASSUME SelectError PROVE TypeInv'
  <2>1. /\ sEnd' \in [Conns -> {"none", "open", "closed"}]
        /\ backlog' \in Seq(Conns)
        /\ listening' \in BOOLEAN
        /\ sTimer' \in BOOLEAN
        /\ sPend' \in Conns \cup {NoConn}
        /\ sPc' \in SPc
        /\ sErr' \in Error
    BY <1>15, <1>t, CleanupType DEF SelectError, Error
  <2>2. TypeOK'
    BY <1>15, <1>t, <2>1 DEF TypeOK, SelectError, cliVars, srvVars
  <2>3. WaitsOnSocket'
    BY <1>15, <1>t, <2>1, CtrlDistinct DEF WaitsOnSocket, TypeOK, SelectError, SelectOk,
       cliVars, srvVars, cleanup_server
  <2> QED
    BY <2>2, <2>3 DEF TypeInv
<1>16. ASSUME iperf_reset_test PROVE TypeInv'
  <2>1. sOpt' \in Config
    BY <1>16, <1>t, DefaultType DEF iperf_reset_test
  <2>2. sState' \in State /\ sPc' \in SPc
    BY <1>16, <1>t DEF iperf_reset_test, State, SPc
  <2>3. sStreams' \in Seq(Stream)
    BY <1>16, <1>t DEF iperf_reset_test
  <2>4. sDone' \in BOOLEAN /\ listening' \in BOOLEAN
    BY <1>16, <1>t DEF iperf_reset_test, iperf_server_listen
  <2>5. TypeOK'
    BY <1>16, <1>t, <2>1, <2>2, <2>3, <2>4 DEF TypeOK, iperf_reset_test, cliVars, srvVars
  <2>6. WaitsOnSocket'
    BY <1>16, <1>t, <2>1, <2>2, <2>3, <2>4, CtrlDistinct DEF WaitsOnSocket, TypeOK,
       iperf_reset_test, SelectOk, cliVars, srvVars
  <2> QED
    BY <2>5, <2>6 DEF TypeInv
<1>17. ASSUME iperf_got_sigend_server PROVE TypeInv'
  <2>1. sEnd' \in [Conns -> {"none", "open", "closed"}]
    BY <1>17, <1>t, ExitClosesType DEF iperf_got_sigend_server
  <2>2. down' \in [Conns -> Seq(Message)]
    BY <1>17, <1>t, ServerSendsState DEF iperf_got_sigend_server, State, TypeOK
  <2>3. backlog' \in Seq(Conns)
    BY <1>17, <1>t DEF iperf_got_sigend_server
  <2>4. listening' \in BOOLEAN
    BY <1>17, <1>t DEF iperf_got_sigend_server
  <2>5. TypeOK'
    BY <1>17, <1>t, <2>1, <2>2, <2>3, <2>4 DEF TypeOK, iperf_got_sigend_server, cliVars,
       srvVars, SPc, Error
  <2>6. WaitsOnSocket'
    BY <1>17, <1>t, <2>1, <2>2, <2>3, <2>4, CtrlDistinct DEF WaitsOnSocket, TypeOK,
       iperf_got_sigend_server, SelectOk, cliVars, srvVars
  <2> QED
    BY <2>5, <2>6 DEF TypeInv
<1>18. ASSUME ReopenError PROVE TypeInv'
  <2>1. sPend \in Conns /\ sCtrl \in Conns
    BY <1>18, <1>t DEF ReopenError, WaitsOnSocket
  <2>2. up' \in [Conns -> Seq(Message)]
    BY <1>18, <1>t, ServerReadsType DEF ReopenError, WaitsOnSocket
  <2>3. [conn |-> sPend, sender |-> NextIsSender] \in Stream
    BY <2>1 DEF Stream, NextIsSender
  <2>4. sStreams' \in Seq(Stream)
    BY <1>18, <1>t, <2>3 DEF ReopenError, TypeOK
  <2>5. /\ sEnd' \in [Conns -> {"none", "open", "closed"}]
        /\ backlog' \in Seq(Conns)
        /\ listening' \in BOOLEAN
        /\ sTimer' \in BOOLEAN
        /\ sPend' \in Conns \cup {NoConn}
        /\ sPc' \in SPc
        /\ sErr' \in Error
    BY <1>18, <1>t, CleanupType DEF ReopenError, Error
  <2>6. TypeOK'
    BY <1>18, <1>t, <2>1, <2>2, <2>4, <2>5 DEF TypeOK, ReopenError, cliVars, srvVars
  <2>7. WaitsOnSocket'
    BY <1>18, <1>t, <2>1, <2>2, <2>4, <2>5, CtrlDistinct DEF WaitsOnSocket,
       TypeOK, ReopenError, SelectOk, cliVars, srvVars, cleanup_server
  <2> QED
    BY <2>6, <2>7 DEF TypeInv
<1> QED
    BY <1>1, <1>2, <1>3, <1>4, <1>5, <1>6, <1>7, <1>8, <1>9, <1>10, <1>11, <1>12, <1>13,
       <1>14, <1>15, <1>16, <1>17, <1>18 DEF ServerStep, ServerFault

\* The processes start in legal states.
LEMMA TypeInit == Init => TypeInv
<1> SUFFICES ASSUME Init PROVE TypeInv
    OBVIOUS
<1>1. /\ up \in [Conns -> Seq(Message)] /\ down \in [Conns -> Seq(Message)]
        /\ cEnd \in [Conns -> {"none", "open", "closed"}]
        /\ sEnd \in [Conns -> {"none", "open", "closed"}]
        /\ backlog \in Seq(Conns) /\ listening \in BOOLEAN
    BY DEF Init
<1>2. /\ cPc \in [Clients -> CPc] /\ cState \in [Clients -> State]
        /\ cOpt \in [Clients -> Config] /\ cStreams \in [Clients -> Seq(Stream)]
        /\ cGot \in [Clients -> SUBSET Nat] /\ cErr \in [Clients -> Error]
    BY ControlAssumption DEF Init, CPc, State, Error
<1>3. /\ sPc \in SPc /\ sState \in State /\ sCtrl \in Conns \cup {NoConn}
        /\ sCookie \in Clients \cup {NoClient} /\ sOpt \in Config
        /\ sPend \in Conns \cup {NoConn} /\ sErr \in Error
    BY DefaultType DEF Init, SPc, State, Error
<1>4. sStreams \in Seq(Stream) /\ sDone \in BOOLEAN /\ sTimer \in BOOLEAN
    BY NoStreams DEF Init
<1>5. WaitsOnSocket
    BY DEF Init, WaitsOnSocket
<1> QED
    BY <1>1, <1>2, <1>3, <1>4, <1>5 DEF TypeInv, TypeOK

\* TypeInv is inductive.
LEMMA TypeStep == TypeInv /\ [Next]_vars => TypeInv'
<1>1. ASSUME TypeInv, UNCHANGED vars PROVE TypeInv'
    BY <1>1 DEF TypeInv, TypeOK, WaitsOnSocket, vars, netVars, cliVars, srvVars
<1> QED
    BY <1>1, ClientTypeStep, ServerTypeStep DEF Next

\* Type correctness of the whole control protocol, for any number of clients
\* and streams: in particular the server never waits on a socket it does not have.
THEOREM TypeCorrect == Spec => []TypeOK
<1>1. TypeInv => TypeOK
    BY DEF TypeInv
<1> QED
    BY <1>1, TypeInit, TypeStep, PTL DEF Spec

-----------------------------------------------------------------------------
(***************************************************************************)
(* SingleSession.  It is not inductive: a client leaves IPERF_START by     *)
(* reading a state byte, so what is on its way to a client matters, and so *)
(* does what becomes of the control connection when a test ends.           *)
(***************************************************************************)

\* A client whose connection the server holds without having made it the
\* control connection has been sent nothing.
NothingToOthers ==
    \A c \in Clients :
        (sEnd[Ctrl(c)] = "open" /\ sCtrl # Ctrl(c)) => down[Ctrl(c)] = <<>>

\* Between two tests nobody can connect and the old control connection is shut.
ShutBetweenTests ==
    sPc = "ended" => ~listening /\ (sCtrl # NoConn => sEnd[sCtrl] = "closed")

\* A client that has not been started is in its first state and knows nothing.
IdleClients ==
    \A c \in Clients : cPc[c] = "idle" => cState[c] = "IPERF_START" /\ down[Ctrl(c)] = <<>>

\* Every connection the server handles was made by a client that has started.
KnownAreStarted ==
    \A k \in Queued \cup {sCtrl, sPend} : k # NoConn => cPc[Owner(k)] # "idle"

SessionInv ==
    /\ SingleSession
    /\ NothingToOthers
    /\ ShutBetweenTests
    /\ IdleClients
    /\ KnownAreStarted

\* What a client does to its own end keeps the session invariant, provided it
\* only leaves IPERF_START on a byte from the server.
LEMMA ClientKeepsSession ==
    ASSUME TypeInv, SessionInv, NEW c \in Clients,
           UNCHANGED <<sEnd, backlog, listening, srvVars>>,
           \A d \in Clients : d # c =>
               /\ cPc'[d] = cPc[d] /\ cState'[d] = cState[d]
               /\ down'[Ctrl(d)] = down[Ctrl(d)],
           cPc'[c] # "idle",
           down[Ctrl(c)] = <<>> => down'[Ctrl(c)] = <<>>,
           \/ cState'[c] \in {cState[c], "CLIENT_TERMINATE"}
           \/ cState[c] \notin {"IPERF_START", "CLIENT_TERMINATE"}
           \/ down[Ctrl(c)] # <<>>
    PROVE  SessionInv'
<1>1. SingleSession'
    BY DEF SessionInv, SingleSession, NothingToOthers, srvVars
<1>2. NothingToOthers'
    BY DEF SessionInv, NothingToOthers, srvVars
<1>3. ShutBetweenTests'
    BY DEF SessionInv, ShutBetweenTests, srvVars
<1>4. IdleClients'
    BY DEF SessionInv, IdleClients
<1>5. KnownAreStarted'
  <2>1. \A k \in Queued \cup {sCtrl, sPend} : k # NoConn => Owner(k) \in Clients
    BY OwnerIsClient DEF TypeInv, TypeOK, Queued
  <2> QED
    BY <2>1 DEF SessionInv, KnownAreStarted, Queued, srvVars
<1> QED
    BY <1>1, <1>2, <1>3, <1>4, <1>5 DEF SessionInv

\* A dialed connection enters the server's backlog.
LEMMA DialKeepsSession ==
    ASSUME TypeInv, SessionInv, NEW c \in Clients, NEW k \in Conns, Dial(k),
           Owner(k) = c, cPc'[c] # "idle",
           UNCHANGED <<cState, srvVars>>,
           \A d \in Clients : d # c => cPc'[d] = cPc[d],
           (k = Ctrl(c) /\ cPc[c] = "idle") \/ (\A d \in Clients : k # Ctrl(d))
    PROVE  SessionInv'
<1> USE CtrlConn, CtrlDistinct
<1>1. SingleSession'
    BY DEF SessionInv, SingleSession, IdleClients, Dial, srvVars, TypeInv, TypeOK
<1>2. NothingToOthers'
    BY DEF SessionInv, NothingToOthers, IdleClients, Dial, srvVars, TypeInv, TypeOK
<1>3. ShutBetweenTests'
    BY DEF SessionInv, ShutBetweenTests, Dial, srvVars
<1>4. IdleClients'
    BY DEF SessionInv, IdleClients, Dial
<1>5. KnownAreStarted'
  <2>1. \A j \in Queued \cup {sCtrl, sPend} : j # NoConn => Owner(j) \in Clients
    BY OwnerIsClient DEF TypeInv, TypeOK, Queued
  <2>2. Queued' \subseteq Queued \cup {k}
    <3>1. backlog' = Append(backlog, k) /\ backlog \in Seq(Conns)
      BY DEF Dial, TypeInv, TypeOK
    <3>2. \A i \in DOMAIN backlog' :
              backlog'[i] = k \/ (i \in DOMAIN backlog /\ backlog'[i] = backlog[i])
      BY <3>1
    <3> QED
      BY <3>2 DEF Queued
  <2> QED
    BY <2>1, <2>2 DEF SessionInv, KnownAreStarted, srvVars
<1> QED
    BY <1>1, <1>2, <1>3, <1>4, <1>5 DEF SessionInv

\* What the server does within a test keeps it: it writes to the control
\* connection, or to a connection it then closes.
LEMMA ServerKeepsSession ==
    ASSUME TypeInv, SessionInv, UNCHANGED <<cliVars, sCtrl>>,
           \A k \in Conns : sEnd'[k] \in {sEnd[k], "closed"},
           \A k \in Conns : k # sCtrl =>
               \/ down'[k] = down[k]
               \/ sEnd'[k] = "closed" /\ k \in Queued \cup {sPend},
           Queued' \subseteq Queued,
           sPend' \in Queued \cup {sPend, NoConn},
           ShutBetweenTests'
    PROVE  SessionInv'
<1> USE CtrlConn, CtrlDistinct
<1>1. SingleSession'
    BY DEF SessionInv, SingleSession, cliVars
<1>2. NothingToOthers'
    BY DEF SessionInv, NothingToOthers
<1>3. IdleClients'
    BY DEF SessionInv, IdleClients, KnownAreStarted, cliVars
<1>4. KnownAreStarted'
    BY DEF SessionInv, KnownAreStarted, cliVars
<1> QED
    BY <1>1, <1>2, <1>3, <1>4 DEF SessionInv

\* Accepting the first connection leaves the others in the backlog.
LEMMA BacklogShrinks ==
    ASSUME TypeInv, backlog # <<>>
    PROVE  /\ Head(backlog) \in Queued
           /\ backlog' = Tail(backlog) => Queued' \subseteq Queued
<1>1. backlog \in Seq(Conns) /\ 1 \in DOMAIN backlog
    BY DEF TypeInv, TypeOK
<1>2. \A i \in DOMAIN Tail(backlog) :
          i + 1 \in DOMAIN backlog /\ Tail(backlog)[i] = backlog[i + 1]
    BY <1>1
<1> QED
    BY <1>1, <1>2 DEF Queued

\* Throwing the listener away, or leaving it alone, adds nothing to the backlog.
LEMMA QueuedEmpty ==
    /\ backlog' = <<>> => Queued' \subseteq Queued
    /\ UNCHANGED backlog => Queued' = Queued
BY DEF Queued

\* What cleanup_server does to the sockets is what the next test relies on.
LEMMA CleanupEffect ==
    ASSUME TypeInv, NEW S, NEW err, cleanup_server(S, err), UNCHANGED sCtrl
    PROVE  /\ \A k \in Conns : sEnd'[k] \in {sEnd[k], "closed"}
           /\ Queued' \subseteq Queued
           /\ sPend' = NoConn
           /\ ShutBetweenTests'
BY QueuedEmpty DEF cleanup_server, ServerClose, ShutBetweenTests, TypeInv, TypeOK

\* Every step of a client keeps SessionInv.
LEMMA ClientSessionStep ==
    ASSUME TypeInv, SessionInv, NEW c \in Clients, ClientStep(c) \/ ClientFault(c)
    PROVE  SessionInv'
<1>t. /\ TypeOK /\ Ctrl(c) \in Conns /\ cPc \in [Clients -> CPc] /\ cState \in [Clients -> State]
      /\ down \in [Conns -> Seq(Message)]
      /\ \A d \in Clients : Ctrl(d) \in Conns /\ (d # c => Ctrl(d) # Ctrl(c))
    BY CtrlConn, CtrlDistinct DEF TypeInv, TypeOK
<1>1. ASSUME iperf_connect(c) PROVE SessionInv'
  <2>1. CASE /\ Dial(Ctrl(c)) /\ ClientGoes(c, "dialed", cState[c])
             /\ UNCHANGED <<cOpt, cStreams, cGot, cErr, srvVars>>
    <3>1. /\ cPc'[c] # "idle" /\ UNCHANGED <<cState, srvVars>> /\ Owner(Ctrl(c)) = c
          /\ \A d \in Clients : d # c => cPc'[d] = cPc[d]
      BY <2>1, <1>t, CtrlConn DEF ClientGoes
    <3> QED
      BY <1>1, <2>1, <3>1, <1>t, DialKeepsSession DEF iperf_connect
  <2>2. CASE /\ ClientFails(c, "IECONNECT")
             /\ UNCHANGED <<up, down, sEnd, backlog, listening,
                            cState, cOpt, cStreams, cGot, srvVars>>
    BY <2>2, <1>t, ClientKeepsSession DEF ClientFails
  <2> QED
    BY <1>1, <2>1, <2>2 DEF iperf_connect
<1>2. ASSUME iperf_connect_cookie(c) PROVE SessionInv'
    BY <1>2, <1>t, ClientKeepsSession DEF iperf_connect_cookie, ClientGoes
<1>3. ASSUME ClientParamExchange(c) PROVE SessionInv'
    BY <1>3, <1>t, ClientKeepsSession DEF ClientParamExchange, ClientReads, ClientGoes
<1>4. ASSUME ClientCreateStreams(c) PROVE SessionInv'
    BY <1>4, <1>t, ClientKeepsSession DEF ClientCreateStreams, ClientReads, ClientGoes
<1>5. ASSUME iperf_tcp_connect(c) PROVE SessionInv'
  <2>1. /\ <<c, Len(cStreams[c]) + 1>> \in Conns
        /\ \A d \in Clients : <<c, Len(cStreams[c]) + 1>> # Ctrl(d)
    BY <1>5, <1>t, StreamConn, SMTT(30) DEF iperf_tcp_connect, StreamsTotal, Config, TypeOK
  <2>2. Owner(<<c, Len(cStreams[c]) + 1>>) = c
    BY DEF Owner
  <2>3. cPc'[c] # "idle" /\ cState' = cState /\ \A d \in Clients : d # c => cPc'[d] = cPc[d]
    BY <1>5, <1>t DEF iperf_tcp_connect, ClientGoes
  <2> QED
    BY <1>5, <2>1, <2>2, <2>3, DialKeepsSession DEF iperf_tcp_connect
<1>6. ASSUME iperf_create_streams(c) PROVE SessionInv'
    BY <1>6, <1>t, ClientKeepsSession DEF iperf_create_streams, ClientGoes
<1>7. ASSUME ClientConnectError(c) PROVE SessionInv'
    BY <1>7, <1>t, ClientKeepsSession DEF ClientConnectError, ClientFails
<1>8. ASSUME ClientConnectRefused(c) PROVE SessionInv'
    BY <1>7, <1>8 DEF ClientConnectRefused
<1>9. ASSUME ClientTestPhase(c) PROVE SessionInv'
    BY <1>9, <1>t, ClientKeepsSession DEF ClientTestPhase, ClientReads, ClientGoes
<1>10. ASSUME ClientTestEnd(c) PROVE SessionInv'
    BY <1>10, <1>t, ClientKeepsSession DEF ClientTestEnd, ClientGoes
<1>11. ASSUME ClientStreamError(c) PROVE SessionInv'
    BY <1>11, <1>t, ClientKeepsSession DEF ClientStreamError, ClientFails
<1>12. ASSUME ClientExchangeResults(c) PROVE SessionInv'
    BY <1>12, <1>t, ClientKeepsSession DEF ClientExchangeResults, ClientReads, ClientGoes
<1>13. ASSUME ClientGetResults(c) PROVE SessionInv'
    BY <1>13, <1>t, ClientKeepsSession DEF ClientGetResults, ClientGoes, ClientFails
<1>14. ASSUME iperf_client_end(c) PROVE SessionInv'
    BY <1>14, <1>t, ClientKeepsSession DEF iperf_client_end, ClientReads, ClientGoes
<1>15. ASSUME ClientRefused(c) PROVE SessionInv'
    BY <1>15, <1>t, ClientKeepsSession DEF ClientRefused, ClientReads, ClientFails
<1>16. ASSUME ClientEOF(c) PROVE SessionInv'
    BY <1>16, <1>t, ClientKeepsSession DEF ClientEOF, ClientFails
<1>17. ASSUME ClientReset(c) PROVE SessionInv'
    BY <1>17, <1>t, ClientKeepsSession DEF ClientReset, ClientFails
<1>18. ASSUME iperf_got_sigend_client(c) PROVE SessionInv'
    BY <1>18, <1>t, ClientKeepsSession DEF iperf_got_sigend_client, ClientGoes
<1>19. ASSUME ClientCrash(c) PROVE SessionInv'
    BY <1>19, <1>t, ClientKeepsSession DEF ClientCrash
<1> QED
    BY <1>1, <1>2, <1>3, <1>4, <1>5, <1>6, <1>7, <1>8, <1>9, <1>10, <1>11, <1>12, <1>13,
       <1>14, <1>15, <1>16, <1>17, <1>18, <1>19 DEF ClientStep, ClientFault

\* Every step of the server keeps SessionInv.
LEMMA ServerSessionStep ==
    ASSUME TypeInv, SessionInv, ServerStep \/ server_timer_proc \/ ServerFault
    PROVE  SessionInv'
<1>t. /\ TypeOK /\ WaitsOnSocket /\ SingleSession /\ NothingToOthers
      /\ ShutBetweenTests /\ IdleClients /\ KnownAreStarted
      /\ down \in [Conns -> Seq(Message)]
    BY DEF TypeInv, TypeOK, SessionInv
<1> USE CtrlDistinct
<1>1. ASSUME NEW k \in Conns, iperf_accept(k) PROVE SessionInv'
  <2>1. k \in Queued /\ Queued' \subseteq Queued
    BY <1>1, BacklogShrinks DEF iperf_accept
  <2>2. SingleSession'
    BY <1>1, <1>t DEF iperf_accept, SingleSession, cliVars
  <2>3. NothingToOthers'
    BY <1>1, <1>t, CtrlDistinct DEF iperf_accept, NothingToOthers
  <2>4. ShutBetweenTests' /\ IdleClients'
    BY <1>1, <1>t DEF iperf_accept, ShutBetweenTests, IdleClients, cliVars
  <2>5. KnownAreStarted'
    BY <1>1, <1>t, <2>1 DEF iperf_accept, KnownAreStarted, cliVars
  <2> QED
    BY <2>2, <2>3, <2>4, <2>5 DEF SessionInv
<1>2. ASSUME NEW k \in Conns, iperf_accept_busy(k) PROVE SessionInv'
  <2>1. Queued' \subseteq Queued /\ sPend' \in Queued \cup {sPend, NoConn}
    BY <1>2, BacklogShrinks DEF iperf_accept_busy, srvVars
  <2>2. \A j \in Conns : sEnd'[j] \in {sEnd[j], "closed"}
    BY <1>2, <1>t DEF iperf_accept_busy, ServerClose
  <2>3. ShutBetweenTests'
    BY <1>2, <1>t DEF iperf_accept_busy, ShutBetweenTests, SelectOk, srvVars
  <2>4. \A j \in Conns : j # sCtrl =>
            down'[j] = down[j] \/ (sEnd'[j] = "closed" /\ j \in Queued \cup {sPend})
    BY <1>2, <1>t, BacklogShrinks DEF iperf_accept_busy, ServerSend, ServerClose
  <2> QED
    BY <1>2, <2>1, <2>2, <2>3, <2>4, ServerKeepsSession DEF iperf_accept_busy, srvVars
<1>3. ASSUME iperf_accept_cookie PROVE SessionInv'
  <2>1. Queued' \subseteq Queued /\ sPend' \in Queued \cup {sPend, NoConn}
    BY <1>3, QueuedEmpty DEF iperf_accept_cookie
  <2>2. \A k \in Conns : sEnd'[k] \in {sEnd[k], "closed"}
    BY <1>3, <1>t DEF iperf_accept_cookie, ServerClose
  <2>3. ShutBetweenTests'
    BY <1>3, <1>t DEF iperf_accept_cookie, ShutBetweenTests, SelectOk, srvVars
  <2>4. \A k \in Conns : k # sCtrl =>
            down'[k] = down[k] \/ (sEnd'[k] = "closed" /\ k \in Queued \cup {sPend})
    BY <1>3, <1>t DEF iperf_accept_cookie, ServerSend, ServerClose
  <2> QED
    BY <1>3, <2>1, <2>2, <2>3, <2>4, ServerKeepsSession DEF iperf_accept_cookie, srvVars
<1>4. ASSUME iperf_exchange_parameters PROVE SessionInv'
  <2>1. Queued' \subseteq Queued /\ sPend' \in Queued \cup {sPend, NoConn}
    BY <1>4, QueuedEmpty DEF iperf_exchange_parameters, iperf_tcp_listen
  <2>2. \A k \in Conns : sEnd'[k] \in {sEnd[k], "closed"}
    BY <1>4, <1>t DEF iperf_exchange_parameters, ServerClose, iperf_tcp_listen
  <2>3. ShutBetweenTests'
    BY <1>4, <1>t DEF iperf_exchange_parameters, ShutBetweenTests, SelectOk, srvVars
  <2>4. \A k \in Conns : k # sCtrl =>
            down'[k] = down[k] \/ (sEnd'[k] = "closed" /\ k \in Queued \cup {sPend})
    BY <1>4, <1>t DEF iperf_exchange_parameters, ServerSend, ServerClose
  <2> QED
    BY <1>4, <2>1, <2>2, <2>3, <2>4, ServerKeepsSession DEF iperf_exchange_parameters, srvVars
<1>5. ASSUME ListenError PROVE SessionInv'
  <2>1. /\ \A k \in Conns : sEnd'[k] \in {sEnd[k], "closed"}
        /\ Queued' \subseteq Queued /\ sPend' = NoConn /\ ShutBetweenTests'
    BY <1>5, CleanupEffect DEF ListenError
  <2>2. \A k \in Conns : k # sCtrl => down'[k] = down[k]
    BY <1>5, <1>t DEF ListenError, ServerSend
  <2> QED
    BY <1>5, <2>1, <2>2, ServerKeepsSession DEF ListenError
<1>6. ASSUME iperf_tcp_accept PROVE SessionInv'
  <2>1. Queued' \subseteq Queued /\ sPend' \in Queued \cup {sPend, NoConn}
    BY <1>6, BacklogShrinks DEF iperf_tcp_accept, srvVars
  <2>2. \A k \in Conns : sEnd'[k] \in {sEnd[k], "closed"}
    BY <1>6, <1>t DEF iperf_tcp_accept, ServerClose
  <2>3. ShutBetweenTests'
    BY <1>6, <1>t DEF iperf_tcp_accept, ShutBetweenTests, SelectOk, srvVars
  <2>4. \A k \in Conns : k # sCtrl =>
            down'[k] = down[k] \/ (sEnd'[k] = "closed" /\ k \in Queued \cup {sPend})
    BY <1>6, <1>t, BacklogShrinks DEF iperf_tcp_accept, ServerSend, ServerClose
  <2> QED
    BY <1>6, <2>1, <2>2, <2>3, <2>4, ServerKeepsSession DEF iperf_tcp_accept, srvVars
<1>7. ASSUME AcceptStream PROVE SessionInv'
  <2>1. Queued' \subseteq Queued /\ sPend' \in Queued \cup {sPend, NoConn}
    BY <1>7, QueuedEmpty DEF AcceptStream, iperf_tcp_listen
  <2>2. \A k \in Conns : sEnd'[k] \in {sEnd[k], "closed"}
    BY <1>7, <1>t DEF AcceptStream, ServerClose, iperf_tcp_listen
  <2>3. ShutBetweenTests'
    BY <1>7, <1>t DEF AcceptStream, ShutBetweenTests, SelectOk, srvVars
  <2>4. \A k \in Conns : k # sCtrl =>
            down'[k] = down[k] \/ (sEnd'[k] = "closed" /\ k \in Queued \cup {sPend})
    BY <1>7, <1>t DEF AcceptStream, ServerSend, ServerClose
  <2> QED
    BY <1>7, <2>1, <2>2, <2>3, <2>4, ServerKeepsSession DEF AcceptStream, srvVars
<1>8. ASSUME DenyStream PROVE SessionInv'
  <2>1. Queued' \subseteq Queued /\ sPend' \in Queued \cup {sPend, NoConn}
    BY <1>8, QueuedEmpty DEF DenyStream
  <2>2. \A k \in Conns : sEnd'[k] \in {sEnd[k], "closed"}
    BY <1>8, <1>t DEF DenyStream, ServerClose
  <2>3. ShutBetweenTests'
    BY <1>8, <1>t DEF DenyStream, ShutBetweenTests, SelectOk, srvVars
  <2>4. \A k \in Conns : k # sCtrl =>
            down'[k] = down[k] \/ (sEnd'[k] = "closed" /\ k \in Queued \cup {sPend})
    BY <1>8, <1>t DEF DenyStream, ServerSend, ServerClose
  <2> QED
    BY <1>8, <2>1, <2>2, <2>3, <2>4, ServerKeepsSession DEF DenyStream, srvVars
<1>9. ASSUME ServerTestEnd PROVE SessionInv'
  <2>1. Queued' \subseteq Queued /\ sPend' \in Queued \cup {sPend, NoConn}
    BY <1>9, QueuedEmpty DEF ServerTestEnd
  <2>2. \A k \in Conns : sEnd'[k] \in {sEnd[k], "closed"}
    BY <1>9, <1>t DEF ServerTestEnd, ServerClose
  <2>3. ShutBetweenTests'
    BY <1>9, <1>t DEF ServerTestEnd, ShutBetweenTests, SelectOk, srvVars
  <2>4. \A k \in Conns : k # sCtrl =>
            down'[k] = down[k] \/ (sEnd'[k] = "closed" /\ k \in Queued \cup {sPend})
    BY <1>9, <1>t DEF ServerTestEnd, ServerSend, ServerClose
  <2> QED
    BY <1>9, <2>1, <2>2, <2>3, <2>4, ServerKeepsSession DEF ServerTestEnd, srvVars
<1>10. ASSUME iperf_exchange_results PROVE SessionInv'
  <2>1. \A k \in Conns : k # sCtrl => down'[k] = down[k]
    BY <1>10, <1>t DEF iperf_exchange_results, ServerSend
  <2>2. CASE Head(up[sCtrl]).ids \subseteq IdsOf(sStreams)
    <3>1. /\ UNCHANGED <<sEnd, backlog, listening, sPend, cliVars, sCtrl>>
          /\ sPc' = "loop"
      BY <1>10, <2>2 DEF iperf_exchange_results
    <3>2. Queued' \subseteq Queued /\ ShutBetweenTests'
      BY <3>1, QueuedEmpty DEF ShutBetweenTests
    <3> QED
      BY <2>1, <3>1, <3>2, ServerKeepsSession
  <2>3. CASE ~(Head(up[sCtrl]).ids \subseteq IdsOf(sStreams))
    <3>1. cleanup_server({}, "IESTREAMID") /\ UNCHANGED <<cliVars, sCtrl>>
      BY <1>10, <2>3 DEF iperf_exchange_results
    <3> QED
      BY <2>1, <3>1, CleanupEffect, ServerKeepsSession
  <2> QED
    BY <2>2, <2>3
<1>11. ASSUME ServerLeaves PROVE SessionInv'
  <2>1. /\ \A k \in Conns : sEnd'[k] \in {sEnd[k], "closed"}
        /\ Queued' \subseteq Queued /\ sPend' = NoConn /\ ShutBetweenTests'
    BY <1>11, CleanupEffect DEF ServerLeaves
  <2>2. \A k \in Conns : k # sCtrl => down'[k] = down[k]
    BY <1>11, <1>t DEF ServerLeaves, ServerSend
  <2> QED
    BY <1>11, <2>1, <2>2, ServerKeepsSession DEF ServerLeaves
<1>12. ASSUME ServerEOF PROVE SessionInv'
  <2>1. /\ \A k \in Conns : sEnd'[k] \in {sEnd[k], "closed"}
        /\ Queued' \subseteq Queued /\ sPend' = NoConn /\ ShutBetweenTests'
    BY <1>12, CleanupEffect DEF ServerEOF
  <2>2. \A k \in Conns : k # sCtrl => down'[k] = down[k]
    BY <1>12, <1>t DEF ServerEOF, ServerSend
  <2> QED
    BY <1>12, <2>1, <2>2, ServerKeepsSession DEF ServerEOF
<1>13. ASSUME ServerReset PROVE SessionInv'
  <2>1. /\ \A k \in Conns : sEnd'[k] \in {sEnd[k], "closed"}
        /\ Queued' \subseteq Queued /\ sPend' = NoConn /\ ShutBetweenTests'
    BY <1>13, CleanupEffect DEF ServerReset
  <2>2. \A k \in Conns : k # sCtrl => down'[k] = down[k]
    BY <1>13, <1>t DEF ServerReset, ServerSend
  <2> QED
    BY <1>13, <2>1, <2>2, ServerKeepsSession DEF ServerReset
<1>14. ASSUME server_timer_proc PROVE SessionInv'
  <2>1. Queued' \subseteq Queued /\ sPend' \in Queued \cup {sPend, NoConn}
    BY <1>14, QueuedEmpty DEF server_timer_proc
  <2>2. \A k \in Conns : sEnd'[k] \in {sEnd[k], "closed"}
    BY <1>14, <1>t DEF server_timer_proc, ServerClose
  <2>3. ShutBetweenTests'
    BY <1>14, <1>t DEF server_timer_proc, ShutBetweenTests, SelectOk, srvVars
  <2>4. \A k \in Conns : k # sCtrl =>
            down'[k] = down[k] \/ (sEnd'[k] = "closed" /\ k \in Queued \cup {sPend})
    BY <1>14, <1>t DEF server_timer_proc, ServerSend, ServerClose
  <2> QED
    BY <1>14, <2>1, <2>2, <2>3, <2>4, ServerKeepsSession DEF server_timer_proc, srvVars
<1>15. ASSUME SelectError PROVE SessionInv'
  <2>1. /\ \A k \in Conns : sEnd'[k] \in {sEnd[k], "closed"}
        /\ Queued' \subseteq Queued /\ sPend' = NoConn /\ ShutBetweenTests'
    BY <1>15, CleanupEffect DEF SelectError
  <2>2. \A k \in Conns : k # sCtrl => down'[k] = down[k]
    BY <1>15, <1>t DEF SelectError, ServerSend
  <2> QED
    BY <1>15, <2>1, <2>2, ServerKeepsSession DEF SelectError
<1>16. ASSUME iperf_reset_test PROVE SessionInv'
  <2>1. SingleSession'
    BY <1>16, <1>t, CtrlConn DEF iperf_reset_test, SingleSession, ShutBetweenTests, cliVars
  <2>2. NothingToOthers'
    BY <1>16, <1>t, CtrlConn DEF iperf_reset_test, NothingToOthers, ShutBetweenTests
  <2>3. ShutBetweenTests' /\ IdleClients'
    BY <1>16, <1>t DEF iperf_reset_test, ShutBetweenTests, IdleClients, cliVars
  <2>4. KnownAreStarted'
    BY <1>16, <1>t, QueuedEmpty DEF iperf_reset_test, KnownAreStarted, cliVars
  <2> QED
    BY <2>1, <2>2, <2>3, <2>4 DEF SessionInv
<1>17. ASSUME iperf_got_sigend_server PROVE SessionInv'
  <2>1. /\ Queued' \subseteq Queued
        /\ ShutBetweenTests'
    BY <1>17, QueuedEmpty DEF iperf_got_sigend_server, ShutBetweenTests
  <2>2. \A k \in Conns : sEnd'[k] \in {sEnd[k], "closed"}
    BY <1>17, <1>t DEF iperf_got_sigend_server, ServerExitCloses
  <2>3. \A k \in Conns : k # sCtrl => down'[k] = down[k]
    BY <1>17, <1>t DEF iperf_got_sigend_server, ServerSend
  <2> QED
    BY <1>17, <2>1, <2>2, <2>3, ServerKeepsSession DEF iperf_got_sigend_server
<1>18. ASSUME ReopenError PROVE SessionInv'
  <2>1. /\ \A k \in Conns : sEnd'[k] \in {sEnd[k], "closed"}
        /\ Queued' \subseteq Queued /\ sPend' = NoConn /\ ShutBetweenTests'
    BY <1>18, CleanupEffect DEF ReopenError
  <2> QED
    BY <1>18, <2>1, ServerKeepsSession DEF ReopenError
<1> QED
    BY <1>1, <1>2, <1>3, <1>4, <1>5, <1>6, <1>7, <1>8, <1>9, <1>10, <1>11, <1>12, <1>13,
       <1>14, <1>15, <1>16, <1>17, <1>18 DEF ServerStep, ServerFault

\* One test at a time, for any number of clients: a client whom the server has
\* told to go on, and whose control connection the server still holds, is the
\* client of the present test of iperf_run_server.
THEOREM OneTestAtATime == Spec => []SingleSession
<1>1. Init => TypeInv /\ SessionInv
  <2>1. ASSUME Init PROVE SessionInv
    BY <2>1, CtrlConn DEF Init, SessionInv, SingleSession, NothingToOthers, ShutBetweenTests,
                          IdleClients, KnownAreStarted, Queued
  <2> QED
    BY <2>1, TypeInit
<1>2. TypeInv /\ SessionInv /\ [Next]_vars => TypeInv' /\ SessionInv'
  <2>1. ASSUME TypeInv, SessionInv, UNCHANGED vars PROVE SessionInv'
    BY <2>1 DEF SessionInv, SingleSession, NothingToOthers, ShutBetweenTests, IdleClients,
                KnownAreStarted, Queued, vars, netVars, cliVars, srvVars
  <2> QED
    BY <2>1, TypeStep, ClientSessionStep, ServerSessionStep DEF Next
<1>3. SessionInv => SingleSession
    BY DEF SessionInv
<1> QED
    BY <1>1, <1>2, <1>3, PTL DEF Spec

-----------------------------------------------------------------------------
(* The control conversation. *)


(***************************************************************************)
(* The conversation on a control connection follows two scripts.  A client *)
(* is at a place p of its program: what it has read and sent is then known.*)
(* So is what the server has read and sent, from its state.  The queues    *)
(* are what lies between.                                                  *)
(***************************************************************************)
Place == 0..9

DownScript == <<"PARAM_EXCHANGE", "CREATE_STREAMS", "TEST_START", "TEST_RUNNING",
                "EXCHANGE_RESULTS", "RESULTS", "DISPLAY_RESULTS">>

UpScript == <<"COOKIE", "PARAMS", "TEST_END", "RESULTS", "IPERF_DONE">>

Final == {"SERVER_TERMINATE", "SERVER_ERROR", "ACCESS_DENIED"}

StateAt(p) ==
    IF p <= 1 THEN "IPERF_START"
    ELSE IF p = 2 THEN "PARAM_EXCHANGE"
    ELSE IF p = 3 THEN "CREATE_STREAMS"
    ELSE IF p = 4 THEN "TEST_START"
    ELSE IF p = 5 THEN "TEST_RUNNING"
    ELSE IF p = 6 THEN "TEST_END"
    ELSE IF p <= 8 THEN "EXCHANGE_RESULTS"
    ELSE "IPERF_DONE"

PcAt(p) ==
    IF p = 0 THEN {"idle", "dialed", "failed", "killed"}
    ELSE IF p = 3 THEN {"streams", "streamCookie", "loop", "failed", "killed"}
    ELSE IF p = 7 THEN {"results", "failed", "killed"}
    ELSE IF p = 9 THEN {"ended"}
    ELSE {"loop", "failed", "killed"}

HasRead(p) == IF p <= 1 THEN 0 ELSE IF p <= 5 THEN p - 1 ELSE IF p = 6 THEN 4 ELSE p - 2

HasSent(p) == IF p <= 2 THEN p ELSE IF p <= 5 THEN 2 ELSE IF p = 6 THEN 3
              ELSE IF p <= 8 THEN 4 ELSE 5

SrvSent ==
    IF sState = "PARAM_EXCHANGE" THEN 1
    ELSE IF sState = "CREATE_STREAMS" THEN 2
    ELSE IF sState = "TEST_RUNNING" THEN 4
    ELSE IF sState = "EXCHANGE_RESULTS" THEN 5
    ELSE IF sState = "DISPLAY_RESULTS" THEN 7
    ELSE 0

SrvRead ==
    IF sState = "PARAM_EXCHANGE" THEN 1
    ELSE IF sState \in {"CREATE_STREAMS", "TEST_RUNNING"} THEN 2
    ELSE IF sState = "EXCHANGE_RESULTS" THEN 3
    ELSE IF sState = "DISPLAY_RESULTS" THEN 4
    ELSE 0

SentTo(c) == IF sCtrl = Ctrl(c) THEN SrvSent ELSE 0
ReadFrom(c) == IF sCtrl = Ctrl(c) THEN SrvRead ELSE 0

AllIds(o) == {StreamId(n) : n \in 1..StreamsTotal(o)}

\* Client c is at place p.
At(c, p) ==
    /\ cPc[c] \in PcAt(p)
    /\ cState[c] = StateAt(p) \/ (cState[c] = "CLIENT_TERMINATE" /\ cPc[c] = "killed")

\* What it has made by then: its streams, and the results it got.
Made(c, p) ==
    /\ p >= 4 \/ (p = 3 /\ cPc[c] = "loop") => Len(cStreams[c]) = StreamsTotal(cOpt[c])
    /\ p <= 2 => cStreams[c] = <<>>
    /\ p >= 8 => cGot[c] = AllIds(cOpt[c])
    /\ cErr[c] \notin {"IEMESSAGE", "IESTREAMID"}
    /\ cPc[c] \notin {"idle", "ended", "failed", "killed"} => cEnd[Ctrl(c)] # "closed"

\* What is on its way to it: the script after what it has read, up to m, and
\* perhaps a last word on a connection that the server has closed.
Told(c, p, m) ==
    /\ HasRead(p) <= m
    /\ m >= 5 => p >= 6
    /\ m = 7 => p >= 7
    /\ \A i \in 1..(m - HasRead(p)) :
           /\ i \in DOMAIN down[Ctrl(c)]
           /\ down[Ctrl(c)][i].t = DownScript[HasRead(p) + i]
           /\ HasRead(p) + i = 6 => down[Ctrl(c)][i].ids = AllIds(cOpt[c])
    /\ \/ Len(down[Ctrl(c)]) = m - HasRead(p)
       \/ /\ Len(down[Ctrl(c)]) = m - HasRead(p) + 1
          /\ down[Ctrl(c)][m - HasRead(p) + 1].t \in Final
          /\ sEnd[Ctrl(c)] = "closed"

\* What is on its way from it, while the server can still read it.
Asked(c, p) ==
    \/ /\ ReadFrom(c) <= HasSent(p)
       /\ \A i \in 1..(HasSent(p) - ReadFrom(c)) :
              /\ i \in DOMAIN up[Ctrl(c)]
              /\ up[Ctrl(c)][i].t = UpScript[ReadFrom(c) + i]
              /\ ReadFrom(c) + i = 4 => up[Ctrl(c)][i].ids = AllIds(cOpt[c])
       /\ \/ Len(up[Ctrl(c)]) = HasSent(p) - ReadFrom(c)
          \/ /\ Len(up[Ctrl(c)]) = HasSent(p) - ReadFrom(c) + 1
             /\ up[Ctrl(c)][HasSent(p) - ReadFrom(c) + 1].t = "CLIENT_TERMINATE"
             /\ cState[c] = "CLIENT_TERMINATE"
    \/ /\ p = 0 /\ cPc[c] \in {"failed", "killed"}
       /\ sCtrl = Ctrl(c) /\ sState = "PARAM_EXCHANGE"
       /\ up[Ctrl(c)] = <<>>

Talk(c, p, m) ==
    /\ At(c, p)
    /\ Made(c, p)
    /\ Told(c, p, m)
    /\ sEnd[Ctrl(c)] # "closed" => m = SentTo(c) /\ Asked(c, p)

Conversation == \A c \in Clients : \E p \in Place, m \in 0..7 : Talk(c, p, m)

\* The connections the server knows of are made, and each is in one place.
Known ==
    /\ \A k \in Queued : sEnd[k] = "open" /\ k # sCtrl
    /\ \A i, j \in DOMAIN backlog : backlog[i] = backlog[j] => i = j
    /\ sPc = "streamCookie" => sEnd[sPend] = "open" /\ sPend \notin Queued /\ sPend # sCtrl
    /\ sCtrl # NoConn => sEnd[sCtrl] # "none"
    /\ \A n \in DOMAIN sStreams : /\ sEnd[sStreams[n].conn] # "none"
                                  /\ sStreams[n].conn # sCtrl /\ sStreams[n].conn \notin Queued
    /\ sPc \in {"ended", "exited"} /\ sCtrl # NoConn => sEnd[sCtrl] = "closed"

\* The connections a client will make are not made.
Fresh ==
    \A c \in Clients :
        /\ cPc[c] = "idle" => cStreams[c] = <<>> /\ sEnd[Ctrl(c)] = "none"
        /\ cPc[c] \notin {"ended", "failed", "killed"} =>
             \A n \in 1..(2 * MaxStreams) :
                 n > Len(cStreams[c]) + (IF cPc[c] = "streamCookie" THEN 1 ELSE 0)
                     => sEnd[<<c, n>>] = "none"

\* On a stream only cookies are sent.
StreamsCarryCookies ==
    \A k \in Conns : (\A c \in Clients : k # Ctrl(c)) =>
        \A i \in DOMAIN up[k] : up[k][i].t = "COOKIE"

Stages == ({"cookie"} \X {"IPERF_START"}) \cup ({"params"} \X {"PARAM_EXCHANGE"})
          \cup ({"loop", "streamCookie"} \X {"CREATE_STREAMS"})
          \cup ({"loop"} \X {"TEST_RUNNING", "DISPLAY_RESULTS"})
          \cup ({"results"} \X {"EXCHANGE_RESULTS"})

\* Where the server is in its program tells how far its test is.
ServerStage ==
    /\ sCtrl = NoConn => sPc \in {"loop", "exited"} /\ sState = "IPERF_START"
                         /\ sStreams = <<>> /\ ~sDone /\ ~sTimer
    /\ sCtrl # NoConn /\ sPc \notin {"ended", "exited"} =>
           /\ <<sPc, sState>> \in Stages
           /\ sPc \notin {"cookie", "params"} => sCtrl = Ctrl(Owner(sCtrl))
                                                 /\ sOpt = cOpt[Owner(sCtrl)]
           /\ sPc # "cookie" => sCookie \in {Owner(sCtrl), NoClient}
           /\ sEnd[sCtrl] = "open" =>
                /\ sDone <=> sState \in {"EXCHANGE_RESULTS", "DISPLAY_RESULTS"}
                /\ sState \in {"TEST_RUNNING", "EXCHANGE_RESULTS", "DISPLAY_RESULTS"}
                       => Len(sStreams) = StreamsTotal(sOpt)
           /\ sEnd[sCtrl] # "open" => sPc = "loop" /\ sDone /\ sStreams = <<>>
    /\ sDone => \A n \in DOMAIN sStreams : sEnd[sStreams[n].conn] # "open"
    /\ sPc = "ended" => ~sTimer
    /\ sErr \notin {"IEMESSAGE", "IESTREAMID"}

PhaseInv == Conversation /\ Known /\ Fresh /\ StreamsCarryCookies /\ ServerStage /\ StreamsReleased

-----------------------------------------------------------------------------
(* The scripts and the places. *)

\* Places, and what has been read and sent at each, are small numbers.
LEMMA PlaceType ==
    \A p \in Place : p \in Nat /\ HasRead(p) \in 0..7 /\ HasSent(p) \in 0..5
BY DEF Place, HasRead, HasSent

\* So is what the server has sent and read.
LEMMA StageType == SrvSent \in 0..7 /\ SrvRead \in 0..4
BY DEF SrvSent, SrvRead

\* The queues of a control connection are lists of messages.
LEMMA QueueType ==
    ASSUME TypeInv, NEW c \in Clients
    PROVE  /\ down[Ctrl(c)] \in Seq(Message) /\ up[Ctrl(c)] \in Seq(Message)
           /\ cStreams[c] \in Seq(Stream) /\ cOpt[c] \in Config /\ Ctrl(c) \in Conns
BY CtrlConn DEF TypeInv, TypeOK

\* A client that reads a byte meets the next one of the script, or a last word.
LEMMA NextByte ==
    ASSUME TypeInv, NEW c \in Clients, NEW p \in Place, NEW m \in 0..7, Told(c, p, m),
           down[Ctrl(c)] # <<>>
    PROVE  \/ /\ HasRead(p) < m
              /\ Head(down[Ctrl(c)]).t = DownScript[HasRead(p) + 1]
              /\ HasRead(p) = 5 => Head(down[Ctrl(c)]).ids = AllIds(cOpt[c])
           \/ /\ HasRead(p) = m
              /\ Head(down[Ctrl(c)]).t \in Final
              /\ Len(down[Ctrl(c)]) = 1
<1>1. down[Ctrl(c)] \in Seq(Message) /\ Len(down[Ctrl(c)]) >= 1 /\ HasRead(p) \in 0..7
    BY QueueType, PlaceType
<1>2. Head(down[Ctrl(c)]) = down[Ctrl(c)][1]
    BY <1>1
<1>3. CASE HasRead(p) < m
  <2>1. 1 \in 1..(m - HasRead(p))
    BY <1>1, <1>3
  <2> QED
    BY <1>1, <1>2, <1>3, <2>1 DEF Told
<1>4. CASE HasRead(p) = m
    BY <1>1, <1>2, <1>4 DEF Told
<1> QED
    BY <1>1, <1>3, <1>4 DEF Told

\* Reading the next byte of the script.
LEMMA ReadKeepsTold ==
    ASSUME TypeInv, NEW c \in Clients, NEW p \in Place, NEW q \in Place, NEW m \in 0..7,
           Told(c, p, m), HasRead(p) < m, HasRead(q) = HasRead(p) + 1, q >= p,
           down'[Ctrl(c)] = Tail(down[Ctrl(c)]),
           UNCHANGED <<sEnd, cOpt>>
    PROVE  Told(c, q, m)'
<1> DEFINE d == down[Ctrl(c)]
           r == HasRead(p)
<1>1. d \in Seq(Message) /\ r \in 0..7 /\ p \in Nat /\ q \in Nat
    BY QueueType, PlaceType
<1>2. Len(d) >= 1 /\ d # <<>>
    BY <1>1 DEF Told
<1>3. /\ Len(Tail(d)) = Len(d) - 1
      /\ \A i \in 1..Len(Tail(d)) : i + 1 \in DOMAIN d /\ Tail(d)[i] = d[i + 1]
      /\ DOMAIN Tail(d) = 1..Len(Tail(d))
    BY <1>1, <1>2
<1>4. \A i \in 1..(m - HasRead(q)) :
          /\ i \in DOMAIN Tail(d)
          /\ Tail(d)[i].t = DownScript[HasRead(q) + i]
          /\ HasRead(q) + i = 6 => Tail(d)[i].ids = AllIds(cOpt[c])
  <2> TAKE i \in 1..(m - HasRead(q))
  <2>1. i + 1 \in 1..(m - r) /\ i \in Nat /\ r + (i + 1) = HasRead(q) + i
    <3> DEFINE s == HasRead(q)
    <3>1. s = r + 1 /\ r \in Nat /\ m \in Nat /\ i \in 1..(m - s)
      BY <1>1
    <3> HIDE DEF r, s
    <3> QED
      BY <3>1 DEF s
  <2>2. /\ i + 1 \in DOMAIN d
        /\ d[i + 1].t = DownScript[r + (i + 1)]
        /\ r + (i + 1) = 6 => d[i + 1].ids = AllIds(cOpt[c])
    BY <2>1 DEF Told
  <2> QED
    BY <1>1, <1>3, <2>1, <2>2
<1>5. \/ Len(Tail(d)) = m - HasRead(q)
      \/ /\ Len(Tail(d)) = m - HasRead(q) + 1
         /\ Tail(d)[m - HasRead(q) + 1].t \in Final
         /\ sEnd[Ctrl(c)] = "closed"
  <2>1. CASE Len(d) = m - r
    BY <1>1, <1>3, <2>1
  <2>2. CASE Len(d) = m - r + 1 /\ d[m - r + 1].t \in Final /\ sEnd[Ctrl(c)] = "closed"
    <3>a. Len(d) = m - r + 1 /\ Len(Tail(d)) = Len(d) - 1
      BY <1>3, <2>2
    <3>0. HasRead(q) \in 1..7 /\ HasRead(q) <= m /\ Len(Tail(d)) = m - HasRead(q) + 1
      BY <1>1, <3>a
    <3>1. m - HasRead(q) + 1 \in 1..Len(Tail(d)) /\ (m - HasRead(q) + 1) + 1 = m - r + 1
      BY <1>1, <3>0, SMTT(30)
    <3> QED
      BY <1>1, <1>3, <2>2, <3>0, <3>1
  <2> QED
    BY <2>1, <2>2 DEF Told
<1>6. HasRead(q) <= m /\ (m >= 5 => q >= 6) /\ (m = 7 => q >= 7)
    BY <1>1 DEF Told
<1>7. (AllIds(cOpt[c]))' = AllIds(cOpt[c])
    BY DEF AllIds
<1> QED
    BY <1>4, <1>5, <1>6, <1>7 DEF Told

\* Reading the last word.
LEMMA LastWordRead ==
    ASSUME TypeInv, NEW c \in Clients, NEW p \in Place, NEW m \in 0..7, Told(c, p, m),
           HasRead(p) = m, Len(down[Ctrl(c)]) = 1,
           down'[Ctrl(c)] = Tail(down[Ctrl(c)]),
           UNCHANGED <<sEnd, cOpt>>
    PROVE  Told(c, p, m)'
<1>1. Len(Tail(down[Ctrl(c)])) = 0 /\ m - HasRead(p) = 0
    BY QueueType, PlaceType
<1> QED
    BY <1>1, PlaceType DEF Told

\* What is on its way stays when neither side reads or writes.
LEMMA ToldStays ==
    ASSUME NEW c \in Clients, NEW p \in Place, NEW q \in Place, NEW m \in 0..7, Told(c, p, m),
           HasRead(q) = HasRead(p), q >= p,
           down'[Ctrl(c)] = down[Ctrl(c)], cOpt' = cOpt,
           sEnd[Ctrl(c)] = "closed" => sEnd'[Ctrl(c)] = "closed"
    PROVE  Told(c, q, m)'
<1>1. (AllIds(cOpt[c]))' = AllIds(cOpt[c]) /\ p \in Nat /\ q \in Nat
    BY PlaceType DEF AllIds
<1> QED
    BY <1>1 DEF Told

\* ms is what the script has after the first m messages.
NextWords(c, m, ms) ==
    \A j \in 1..Len(ms) : /\ ms[j].t = DownScript[m + j]
                          /\ m + j = 6 => ms[j].ids = AllIds(cOpt[c])

\* A list after another: each element is one of the first or one of the second.
LEMMA Concatenated ==
    ASSUME NEW d \in Seq(Message), NEW ms \in Seq(Message)
    PROVE  /\ Len(d \o ms) = Len(d) + Len(ms)
           /\ DOMAIN (d \o ms) = 1..(Len(d) + Len(ms))
           /\ \A i \in 1..(Len(d) + Len(ms)) :
                  \/ i \in 1..Len(d) /\ (d \o ms)[i] = d[i]
                  \/ \E j \in 1..Len(ms) : i = Len(d) + j /\ (d \o ms)[i] = ms[j]
<1>1. Len(d \o ms) = Len(d) + Len(ms) /\ DOMAIN (d \o ms) = 1..(Len(d) + Len(ms))
    OBVIOUS
<1>2. ASSUME NEW i \in 1..(Len(d) + Len(ms))
      PROVE  \/ i \in 1..Len(d) /\ (d \o ms)[i] = d[i]
             \/ \E j \in 1..Len(ms) : i = Len(d) + j /\ (d \o ms)[i] = ms[j]
  <2>1. CASE i <= Len(d)
    BY <2>1
  <2>2. CASE ~(i <= Len(d))
    <3>1. i - Len(d) \in 1..Len(ms) /\ i = Len(d) + (i - Len(d))
      BY <2>2
    <3>2. (d \o ms)[i] = ms[i - Len(d)]
      BY <2>2
    <3> QED
      BY <3>1, <3>2
  <2> QED
    BY <2>1, <2>2
<1> QED
    BY <1>1, <1>2

\* The server sends what the script has next.
LEMMA WriteKeepsTold ==
    ASSUME TypeInv, NEW c \in Clients, NEW p \in Place, NEW m \in 0..7, NEW n \in 0..7,
           Told(c, p, m), sEnd[Ctrl(c)] # "closed",
           NEW ms \in Seq(Message), n = m + Len(ms), NextWords(c, m, ms),
           n >= 5 => p >= 6, n = 7 => p >= 7,
           down'[Ctrl(c)] = down[Ctrl(c)] \o ms, cOpt' = cOpt
    PROVE  Told(c, p, n)'
<1> DEFINE d == down[Ctrl(c)]
           r == HasRead(p)
<1>1. d \in Seq(Message) /\ r \in 0..7 /\ p \in Nat
    BY QueueType, PlaceType
<1>2. Len(d) = m - r /\ r <= m /\ Len(ms) \in Nat
    BY DEF Told
<1>3. Len(d) + Len(ms) = n - r /\ r <= n /\ n - r = n - HasRead(p)
    BY <1>1, <1>2
<1>4. \A i \in 1..(n - r) :
          /\ (d \o ms)[i].t = DownScript[r + i]
          /\ r + i = 6 => (d \o ms)[i].ids = AllIds(cOpt[c])
  <2> TAKE i \in 1..(n - r)
  <2>1. CASE i \in 1..Len(d) /\ (d \o ms)[i] = d[i]
    BY <1>2, <2>1 DEF Told
  <2>2. ASSUME NEW j \in 1..Len(ms), i = Len(d) + j, (d \o ms)[i] = ms[j]
        PROVE  /\ (d \o ms)[i].t = DownScript[r + i]
               /\ r + i = 6 => (d \o ms)[i].ids = AllIds(cOpt[c])
    <3>0. i = (m - r) + j /\ j \in Nat /\ r \in Nat
      BY <1>1, <1>2, <2>2
    <3>1. m + j = r + i
      BY <3>0
    <3>2. ms[j].t = DownScript[m + j] /\ (m + j = 6 => ms[j].ids = AllIds(cOpt[c]))
      BY DEF NextWords
    <3> QED
      BY <2>2, <3>1, <3>2
  <2> QED
    BY <1>1, <1>3, <2>1, <2>2, Concatenated
<1>5. (AllIds(cOpt[c]))' = AllIds(cOpt[c])
    BY DEF AllIds
<1>6. Len(d \o ms) = n - r /\ DOMAIN (d \o ms) = 1..(n - r)
    BY <1>1, <1>3, Concatenated
<1> QED
    BY <1>3, <1>4, <1>5, <1>6 DEF Told

\* The server turns a client away, or says good-bye, and closes.
LEMMA LastWordSaid ==
    ASSUME TypeInv, NEW c \in Clients, NEW p \in Place, NEW m \in 0..7,
           Told(c, p, m), sEnd[Ctrl(c)] # "closed",
           NEW x \in Message, x.t \in Final,
           down'[Ctrl(c)] = down[Ctrl(c)] \o <<x>>, cOpt' = cOpt, sEnd'[Ctrl(c)] = "closed"
    PROVE  Told(c, p, m)'
<1> DEFINE d == down[Ctrl(c)]
           r == HasRead(p)
<1>1. d \in Seq(Message) /\ r \in 0..7 /\ p \in Nat
    BY QueueType, PlaceType
<1>2. Len(d) = m - r /\ r <= m
    BY DEF Told
<1>a. d \o <<x>> \in Seq(Message) /\ Len(d \o <<x>>) = Len(d) + 1
    BY <1>1
<1>b. /\ \A i \in 1..Len(d) : (d \o <<x>>)[i] = d[i]
      /\ (d \o <<x>>)[Len(d) + 1] = x
    BY <1>1
<1>c. \A i \in 1..(m - r) : i \in 1..(m - r + 1)
    BY <1>1, <1>2
<1>3. /\ Len(d \o <<x>>) = m - r + 1
      /\ \A i \in 1..(m - r) : i \in DOMAIN (d \o <<x>>) /\ (d \o <<x>>)[i] = d[i]
      /\ (d \o <<x>>)[m - r + 1] = x
    BY <1>2, <1>a, <1>b, <1>c
<1>4. (AllIds(cOpt[c]))' = AllIds(cOpt[c])
    BY DEF AllIds
<1>5. \A i \in 1..(m - r) :
          /\ i \in DOMAIN (d \o <<x>>)
          /\ (d \o <<x>>)[i].t = DownScript[r + i]
          /\ r + i = 6 => (d \o <<x>>)[i].ids = AllIds(cOpt[c])
    BY <1>3 DEF Told
<1>6. (m >= 5 => p >= 6) /\ (m = 7 => p >= 7)
    BY DEF Told
<1> QED
    BY <1>2, <1>3, <1>4, <1>5, <1>6 DEF Told

-----------------------------------------------------------------------------
(* What is on its way to the server. *)

\* What the server has read of a client's script is a small number.
LEMMA ReadFromType == \A c \in Clients : ReadFrom(c) \in 0..4 /\ SentTo(c) \in 0..7
BY StageType DEF ReadFrom, SentTo

\* The server meets the next message of the script, or CLIENT_TERMINATE.
LEMMA NextMessage ==
    ASSUME TypeInv, NEW c \in Clients, NEW p \in Place, Asked(c, p), up[Ctrl(c)] # <<>>
    PROVE  \/ /\ ReadFrom(c) < HasSent(p)
              /\ Head(up[Ctrl(c)]).t = UpScript[ReadFrom(c) + 1]
              /\ ReadFrom(c) = 3 => Head(up[Ctrl(c)]).ids = AllIds(cOpt[c])
           \/ /\ ReadFrom(c) = HasSent(p)
              /\ Head(up[Ctrl(c)]).t = "CLIENT_TERMINATE"
<1>1. up[Ctrl(c)] \in Seq(Message) /\ HasSent(p) \in 0..5 /\ ReadFrom(c) \in 0..4
    BY QueueType, PlaceType, ReadFromType
<1>2. Head(up[Ctrl(c)]) = up[Ctrl(c)][1] /\ Len(up[Ctrl(c)]) >= 1
    BY <1>1
<1>3. CASE ReadFrom(c) < HasSent(p)
  <2>1. 1 \in 1..(HasSent(p) - ReadFrom(c))
    BY <1>1, <1>3
  <2> QED
    BY <1>1, <1>2, <1>3, <2>1 DEF Asked
<1>4. CASE ReadFrom(c) = HasSent(p)
  <2>1. HasSent(p) - ReadFrom(c) = 0
    BY <1>1, <1>4
  <2> QED
    BY <1>1, <1>2, <1>4, <2>1 DEF Asked
<1> QED
    BY <1>1, <1>3, <1>4 DEF Asked

\* The client sends what its script has next.
LEMMA ClientSays ==
    ASSUME TypeInv, NEW c \in Clients, NEW p \in Place, NEW q \in Place, Asked(c, p),
           cPc[c] \notin {"failed", "killed"}, cState[c] # "CLIENT_TERMINATE",
           HasSent(q) = HasSent(p) + 1,
           NEW x \in Message, x.t = UpScript[HasSent(q)],
           HasSent(q) = 4 => x.ids = AllIds(cOpt[c]),
           up'[Ctrl(c)] = Append(up[Ctrl(c)], x), UNCHANGED <<srvVars, cOpt>>
    PROVE  Asked(c, q)'
<1> DEFINE u == up[Ctrl(c)]
           r == ReadFrom(c)
           s == HasSent(p)
<1>1. u \in Seq(Message) /\ s \in 0..5 /\ HasSent(q) \in 0..5 /\ r \in 0..4
    BY QueueType, PlaceType, ReadFromType
<1>2. Len(u) = s - r /\ r <= s
    BY DEF Asked
<1>3. /\ Len(Append(u, x)) = HasSent(q) - r
      /\ \A i \in 1..(s - r) : i \in DOMAIN Append(u, x) /\ Append(u, x)[i] = u[i]
      /\ HasSent(q) - r \in DOMAIN Append(u, x)
      /\ Append(u, x)[HasSent(q) - r] = x
    BY <1>1, <1>2
<1>4. \A i \in 1..(HasSent(q) - r) :
          /\ i \in DOMAIN Append(u, x)
          /\ Append(u, x)[i].t = UpScript[r + i]
          /\ r + i = 4 => Append(u, x)[i].ids = AllIds(cOpt[c])
  <2> TAKE i \in 1..(HasSent(q) - r)
  <2>1. i \in 1..(s - r) \/ (i = HasSent(q) - r /\ r + i = HasSent(q))
    BY <1>1, <1>2
  <2>2. CASE i \in 1..(s - r)
    BY <1>1, <1>3, <2>2 DEF Asked
  <2>3. CASE i = HasSent(q) - r /\ r + i = HasSent(q)
    BY <1>3, <2>3
  <2> QED
    BY <2>1, <2>2, <2>3
<1>5. (AllIds(cOpt[c]))' = AllIds(cOpt[c]) /\ (ReadFrom(c))' = r /\ r <= HasSent(q)
    BY <1>1, <1>2 DEF AllIds, ReadFrom, SrvRead, srvVars
<1> QED
    BY <1>3, <1>4, <1>5 DEF Asked

\* The client is interrupted and says so.
LEMMA ClientSaysGoodbye ==
    ASSUME TypeInv, NEW c \in Clients, NEW p \in Place, Asked(c, p),
           cPc[c] \notin {"failed", "killed"}, cState[c] # "CLIENT_TERMINATE",
           NEW x \in Message, x.t = "CLIENT_TERMINATE",
           up'[Ctrl(c)] = Append(up[Ctrl(c)], x), cState'[c] = "CLIENT_TERMINATE",
           UNCHANGED <<srvVars, cOpt>>
    PROVE  Asked(c, p)'
<1> DEFINE u == up[Ctrl(c)]
           r == ReadFrom(c)
           s == HasSent(p)
<1>1. u \in Seq(Message) /\ s \in 0..5 /\ r \in 0..4
    BY QueueType, PlaceType, ReadFromType
<1>2. Len(u) = s - r /\ r <= s
    BY DEF Asked
<1>3. /\ Len(Append(u, x)) = s - r + 1
      /\ \A i \in 1..(s - r) : i \in DOMAIN Append(u, x) /\ Append(u, x)[i] = u[i]
      /\ Append(u, x)[s - r + 1] = x
    BY <1>1, <1>2
<1>4. \A i \in 1..(s - r) :
          /\ i \in DOMAIN Append(u, x)
          /\ Append(u, x)[i].t = UpScript[r + i]
          /\ r + i = 4 => Append(u, x)[i].ids = AllIds(cOpt[c])
    BY <1>1, <1>2, <1>3 DEF Asked
<1>5. (AllIds(cOpt[c]))' = AllIds(cOpt[c]) /\ (ReadFrom(c))' = r
    BY DEF AllIds, ReadFrom, SrvRead, srvVars
<1> QED
    BY <1>2, <1>3, <1>4, <1>5 DEF Asked

\* What is on its way to the server stays when neither side reads or writes.
LEMMA AskedStays ==
    ASSUME NEW c \in Clients, NEW p \in Place, NEW q \in Place, Asked(c, p),
           HasSent(q) = HasSent(p), up'[Ctrl(c)] = up[Ctrl(c)],
           cState[c] = "CLIENT_TERMINATE" => cState'[c] = "CLIENT_TERMINATE",
           cPc[c] \in {"failed", "killed"} => q = p /\ cPc'[c] \in {"failed", "killed"},
           (ReadFrom(c))' = ReadFrom(c),
           sCtrl = Ctrl(c) /\ sState = "PARAM_EXCHANGE" => UNCHANGED <<sCtrl, sState>>,
           cOpt' = cOpt
    PROVE  Asked(c, q)'
<1>1. (AllIds(cOpt[c]))' = AllIds(cOpt[c])
    BY DEF AllIds
<1> QED
    BY <1>1 DEF Asked

\* The server reads the next message and goes on to the next stage.
LEMMA ServerTakes ==
    ASSUME TypeInv, NEW c \in Clients, NEW p \in Place, Asked(c, p),
           ReadFrom(c) < HasSent(p), (ReadFrom(c))' = ReadFrom(c) + 1,
           up[Ctrl(c)] # <<>>,
           up'[Ctrl(c)] = Tail(up[Ctrl(c)]), UNCHANGED <<cState, cOpt>>
    PROVE  Asked(c, p)'
<1> DEFINE u == up[Ctrl(c)]
           r == ReadFrom(c)
           s == HasSent(p)
<1>1. u \in Seq(Message) /\ s \in 0..5 /\ r \in 0..4
    BY QueueType, PlaceType, ReadFromType
<1>2. /\ Len(Tail(u)) = Len(u) - 1
      /\ \A i \in 1..Len(Tail(u)) : i + 1 \in DOMAIN u /\ Tail(u)[i] = u[i + 1]
      /\ DOMAIN Tail(u) = 1..Len(Tail(u))
    BY <1>1
<1>3. Len(u) >= s - r
    BY <1>1 DEF Asked
<1>4. \A i \in 1..(s - (r + 1)) :
          /\ i \in DOMAIN Tail(u)
          /\ Tail(u)[i].t = UpScript[(r + 1) + i]
          /\ (r + 1) + i = 4 => Tail(u)[i].ids = AllIds(cOpt[c])
  <2> TAKE i \in 1..(s - (r + 1))
  <2>1. i + 1 \in 1..(s - r) /\ i \in Nat /\ r + (i + 1) = (r + 1) + i /\ i \in 1..Len(Tail(u))
    BY <1>1, <1>2, <1>3
  <2>2. /\ i + 1 \in DOMAIN u
        /\ u[i + 1].t = UpScript[r + (i + 1)]
        /\ r + (i + 1) = 4 => u[i + 1].ids = AllIds(cOpt[c])
    BY <2>1 DEF Asked
  <2> QED
    BY <1>1, <1>2, <2>1, <2>2
<1>5. \/ Len(Tail(u)) = s - (r + 1)
      \/ /\ Len(Tail(u)) = s - (r + 1) + 1
         /\ Tail(u)[s - (r + 1) + 1].t = "CLIENT_TERMINATE"
         /\ cState[c] = "CLIENT_TERMINATE"
  <2>1. CASE Len(u) = s - r
    BY <1>1, <1>2, <2>1
  <2>2. CASE Len(u) = s - r + 1 /\ u[s - r + 1].t = "CLIENT_TERMINATE" /\ cState[c] = "CLIENT_TERMINATE"
    <3>1. Len(Tail(u)) = Len(u) - 1 /\ Len(u) = s - r + 1
      BY <1>2, <2>2
    <3>2. /\ Len(Tail(u)) = s - (r + 1) + 1
          /\ s - (r + 1) + 1 \in 1..Len(Tail(u)) /\ (s - (r + 1) + 1) + 1 = s - r + 1
      BY <1>1, <3>1
    <3> QED
      BY <1>1, <1>2, <2>2, <3>2
  <2> QED
    BY <1>1, <2>1, <2>2 DEF Asked
<1>6. (AllIds(cOpt[c]))' = AllIds(cOpt[c]) /\ r + 1 <= s
    BY <1>1 DEF AllIds
<1> QED
    BY <1>4, <1>5, <1>6 DEF Asked

-----------------------------------------------------------------------------
(* Steps of a client. *)

\* A client that does not move notices nothing of another one's step.
Apart(d) ==
    /\ cPc'[d] = cPc[d] /\ cState'[d] = cState[d] /\ cStreams'[d] = cStreams[d]
    /\ cGot'[d] = cGot[d] /\ cErr'[d] = cErr[d]
    /\ up'[Ctrl(d)] = up[Ctrl(d)] /\ down'[Ctrl(d)] = down[Ctrl(d)]
    /\ cEnd'[Ctrl(d)] = cEnd[Ctrl(d)] /\ sEnd'[Ctrl(d)] = sEnd[Ctrl(d)]

\* A conversation neither side of which does anything goes on.
LEMMA TalkStays ==
    ASSUME NEW d \in Clients, NEW p \in Place, NEW m \in 0..7, Talk(d, p, m),
           cPc'[d] = cPc[d], cState'[d] = cState[d], cStreams'[d] = cStreams[d],
           cGot'[d] = cGot[d], cErr'[d] = cErr[d], cOpt' = cOpt,
           cEnd'[Ctrl(d)] = cEnd[Ctrl(d)], down'[Ctrl(d)] = down[Ctrl(d)],
           sEnd[Ctrl(d)] = "closed" => sEnd'[Ctrl(d)] = "closed",
           sEnd'[Ctrl(d)] # "closed" =>
               /\ up'[Ctrl(d)] = up[Ctrl(d)]
               /\ (ReadFrom(d))' = ReadFrom(d) /\ (SentTo(d))' = SentTo(d)
               /\ sCtrl = Ctrl(d) /\ sState = "PARAM_EXCHANGE" => UNCHANGED <<sCtrl, sState>>
    PROVE  Talk(d, p, m)'
<1>1. At(d, p)'
    BY DEF Talk, At
<1>2. (AllIds(cOpt[d]))' = AllIds(cOpt[d])
    BY DEF AllIds
<1>3. Made(d, p)'
    BY <1>2 DEF Talk, Made
<1>4. Told(d, p, m)'
    BY ToldStays, PlaceType DEF Talk
<1>5. sEnd'[Ctrl(d)] # "closed" => m = (SentTo(d))' /\ Asked(d, p)'
    BY AskedStays DEF Talk
<1> QED
    BY <1>1, <1>3, <1>4, <1>5 DEF Talk

\* What the server has read and sent does not change while it does nothing.
LEMMA ServerIdle ==
    ASSUME UNCHANGED <<sCtrl, sState>>, NEW d \in Clients
    PROVE  (ReadFrom(d))' = ReadFrom(d) /\ (SentTo(d))' = SentTo(d)
BY DEF ReadFrom, SentTo, SrvRead, SrvSent

\* One client goes on with its conversation, the others stay.
LEMMA ClientMoves ==
    ASSUME Conversation, NEW c \in Clients, \E q \in Place, n \in 0..7 : Talk(c, q, n)',
           UNCHANGED <<cOpt, srvVars>>,
           \A d \in Clients : d # c => Apart(d)
    PROVE  Conversation'
<1> SUFFICES ASSUME NEW d \in Clients, d # c
             PROVE  \E q \in Place, n \in 0..7 : Talk(d, q, n)'
    BY DEF Conversation
<1>1. PICK p \in Place, m \in 0..7 : Talk(d, p, m)
    BY DEF Conversation
<1>2. Apart(d) /\ UNCHANGED <<sCtrl, sState>>
    BY DEF srvVars
<1>3. Talk(d, p, m)'
    BY <1>1, <1>2, ServerIdle, TalkStays DEF Apart
<1> QED
    BY <1>3

\* What a client does leaves the others where they are.
LEMMA OthersApart ==
    ASSUME TypeInv, NEW c \in Clients, ClientStep(c) \/ ClientFault(c),
           NEW d \in Clients, d # c
    PROVE  Apart(d)
<1>t. /\ Ctrl(c) \in Conns /\ Ctrl(d) \in Conns /\ Ctrl(d) # Ctrl(c) /\ Owner(Ctrl(d)) = d
      /\ up \in [Conns -> Seq(Message)] /\ down \in [Conns -> Seq(Message)]
      /\ cEnd \in [Conns -> {"none", "open", "closed"}]
      /\ sEnd \in [Conns -> {"none", "open", "closed"}]
      /\ cPc \in [Clients -> CPc] /\ cState \in [Clients -> State]
      /\ cStreams \in [Clients -> Seq(Stream)] /\ cGot \in [Clients -> SUBSET Nat]
      /\ cErr \in [Clients -> Error]
    BY CtrlConn, CtrlDistinct DEF TypeInv, TypeOK
<1>f. ASSUME NEW err, ClientFails(c, err)
      PROVE  cPc'[d] = cPc[d] /\ cErr'[d] = cErr[d] /\ cEnd'[Ctrl(d)] = cEnd[Ctrl(d)]
    BY <1>t, <1>f DEF ClientFails, ClientExitCloses, iperf_free_test
<1>g. ASSUME NEW pc, NEW state, ClientGoes(c, pc, state)
      PROVE  cPc'[d] = cPc[d] /\ cState'[d] = cState[d]
    BY <1>t, <1>g DEF ClientGoes
<1>d. ASSUME NEW k \in Conns, Dial(k), k # Ctrl(d)
      PROVE  /\ cEnd'[Ctrl(d)] = cEnd[Ctrl(d)] /\ sEnd'[Ctrl(d)] = sEnd[Ctrl(d)]
             /\ up' = up /\ down' = down
    BY <1>t, <1>d DEF Dial
<1>e. ASSUME ClientExitCloses(c)
      PROVE  cEnd'[Ctrl(d)] = cEnd[Ctrl(d)]
    BY <1>t, <1>e DEF ClientExitCloses
<1>r. ASSUME NEW t, ClientReads(c, t)
      PROVE  down'[Ctrl(d)] = down[Ctrl(d)]
    BY <1>t, <1>r DEF ClientReads
<1>w. ASSUME NEW k \in Conns, k # Ctrl(d), NEW x, ClientSend(k, x)
      PROVE  up'[Ctrl(d)] = up[Ctrl(d)]
    BY <1>t, <1>w DEF ClientSend
<1>1. CASE iperf_connect(c)
    BY <1>1, <1>t, <1>f, <1>g, <1>d DEF iperf_connect, Apart
<1>2. CASE iperf_connect_cookie(c)
    BY <1>2, <1>t, <1>g, <1>w DEF iperf_connect_cookie, Apart
<1>3. CASE ClientParamExchange(c)
    BY <1>3, <1>t, <1>g, <1>w, <1>r DEF ClientParamExchange, Apart
<1>4. CASE ClientCreateStreams(c)
    BY <1>4, <1>t, <1>g, <1>r DEF ClientCreateStreams, Apart
<1>5. CASE iperf_tcp_connect(c)
  <2> DEFINE n == Len(cStreams[c]) + 1
  <2>n. n \in Nat /\ n >= 1 /\ n <= StreamsTotal(cOpt[c]) /\ cOpt[c] \in Config
    BY <1>5, <1>t, QueueType DEF iperf_tcp_connect, StreamsTotal, Config
  <2>1. <<c, n>> \in Conns /\ \A e \in Clients : <<c, n>> # Ctrl(e)
    BY <2>n, StreamConn
  <2> QED
    BY <1>5, <1>t, <1>g, <1>d, <2>1 DEF iperf_tcp_connect, Apart
<1>6. CASE iperf_create_streams(c)
  <2> DEFINE n == Len(cStreams[c]) + 1
  <2>n. n \in Nat /\ n >= 1 /\ n <= StreamsTotal(cOpt[c]) /\ cOpt[c] \in Config
    BY <1>6, <1>t, QueueType DEF iperf_create_streams
  <2>1. <<c, n>> \in Conns /\ \A e \in Clients : <<c, n>> # Ctrl(e)
    BY <2>n, StreamConn
  <2> QED
    BY <1>6, <1>t, <1>g, <1>w, <2>1 DEF iperf_create_streams, Apart
<1>7. CASE ClientConnectError(c)
    BY <1>7, <1>t, <1>f DEF ClientConnectError, Apart
<1>8. CASE ClientTestPhase(c)
    BY <1>8, <1>t, <1>g, <1>r DEF ClientTestPhase, Apart
<1>9. CASE ClientTestEnd(c)
    BY <1>9, <1>t, <1>g, <1>w DEF ClientTestEnd, Apart
<1>10. CASE ClientStreamError(c)
    BY <1>10, <1>t, <1>f DEF ClientStreamError, Apart
<1>11. CASE ClientExchangeResults(c)
    BY <1>11, <1>t, <1>g, <1>w, <1>r DEF ClientExchangeResults, Apart
<1>12. CASE ClientGetResults(c)
    BY <1>12, <1>t, <1>g, <1>f DEF ClientGetResults, Apart
<1>13. CASE iperf_client_end(c)
    BY <1>13, <1>t, <1>g, <1>w, <1>r, <1>e DEF iperf_client_end, Apart
<1>14. CASE ClientRefused(c)
    BY <1>14, <1>t, <1>f, <1>r DEF ClientRefused, Apart
<1>15. CASE ClientEOF(c)
    BY <1>15, <1>t, <1>f DEF ClientEOF, Apart
<1>16. CASE ClientReset(c)
    BY <1>16, <1>t, <1>f DEF ClientReset, Apart
<1>17. CASE iperf_got_sigend_client(c)
    BY <1>17, <1>t, <1>g, <1>w, <1>e DEF iperf_got_sigend_client, Apart
<1>18. CASE ClientCrash(c)
    BY <1>18, <1>t, <1>e DEF ClientCrash, Apart
<1> QED
    BY <1>1, <1>2, <1>3, <1>4, <1>5, <1>6, <1>7, <1>8, <1>9, <1>10, <1>11, <1>12, <1>13,
       <1>14, <1>15, <1>16, <1>17, <1>18
       DEF ClientStep, ClientFault, ClientConnectRefused

\* The ids of a full list of streams are those of the test.
LEMMA FullIds ==
    ASSUME NEW o, NEW streams \in Seq(Stream), Len(streams) = StreamsTotal(o)
    PROVE  IdsOf(streams) = AllIds(o)
BY DEF IdsOf, AllIds

\* A client that stops has said and read what it had.
LEMMA ClientStops ==
    ASSUME TypeInv, NEW c \in Clients, NEW p \in Place, NEW m \in 0..7, Talk(c, p, m),
           cPc[c] # "ended", cPc'[c] \in {"failed", "killed"},
           cState'[c] = cState[c], cState[c] = "CLIENT_TERMINATE" => cPc'[c] = "killed",
           cErr'[c] \notin {"IEMESSAGE", "IESTREAMID"},
           cStreams'[c] = cStreams[c], cGot'[c] = cGot[c], cOpt' = cOpt,
           up'[Ctrl(c)] = up[Ctrl(c)], sEnd' = sEnd, UNCHANGED srvVars,
           Told(c, p, m)'
    PROVE  Talk(c, p, m)'
<1>1. At(c, p)'
    BY DEF Talk, At, PcAt, Place
<1>2. (AllIds(cOpt[c]))' = AllIds(cOpt[c])
    BY DEF AllIds
<1>3. Made(c, p)'
    BY <1>2 DEF Talk, Made
<1>4. sEnd'[Ctrl(c)] # "closed" => m = (SentTo(c))' /\ Asked(c, p)'
    BY ServerIdle, AskedStays DEF Talk, srvVars
<1> QED
    BY <1>1, <1>3, <1>4 DEF Talk

\* A client that meets an error on a connection it has not read from.
LEMMA ClientErrorTalks ==
    ASSUME TypeInv, NEW c \in Clients, NEW p \in Place, NEW m \in 0..7, Talk(c, p, m),
           NEW err, err \notin {"IEMESSAGE", "IESTREAMID"}, ClientFails(c, err),
           cPc[c] \notin {"ended", "failed", "killed"},
           UNCHANGED <<up, down, sEnd, cState, cOpt, cStreams, cGot, srvVars>>
    PROVE  Talk(c, p, m)'
<1>1. cPc'[c] = "failed" /\ cErr'[c] = err /\ cState[c] # "CLIENT_TERMINATE"
    BY DEF ClientFails, TypeInv, TypeOK, Talk, At, StateAt
<1>2. Told(c, p, m)'
    BY ToldStays, PlaceType DEF Talk
<1> QED
    BY <1>1, <1>2, ClientStops

\* Every step of a client takes its conversation on.
LEMMA ClientTalks ==
    ASSUME TypeInv, PhaseInv, NEW c \in Clients, ClientStep(c) \/ ClientFault(c)
    PROVE  \E q \in Place, n \in 0..7 : Talk(c, q, n)'
<1>p. PICK p \in Place, m \in 0..7 : Talk(c, p, m)
    BY DEF PhaseInv, Conversation
<1>t. /\ Ctrl(c) \in Conns /\ up[Ctrl(c)] \in Seq(Message) /\ down[Ctrl(c)] \in Seq(Message)
      /\ up \in [Conns -> Seq(Message)] /\ down \in [Conns -> Seq(Message)]
      /\ cEnd \in [Conns -> {"none", "open", "closed"}]
      /\ sEnd \in [Conns -> {"none", "open", "closed"}]
      /\ cPc \in [Clients -> CPc] /\ cState \in [Clients -> State]
      /\ cStreams \in [Clients -> Seq(Stream)] /\ cGot \in [Clients -> SUBSET Nat]
      /\ cErr \in [Clients -> Error]
    BY CtrlConn DEF TypeInv, TypeOK
<1>a. /\ At(c, p) /\ Made(c, p) /\ Told(c, p, m)
      /\ sEnd[Ctrl(c)] # "closed" => m = SentTo(c) /\ Asked(c, p)
    BY <1>p DEF Talk
<1>i. ASSUME UNCHANGED srvVars
      PROVE  (SentTo(c))' = SentTo(c) /\ (ReadFrom(c))' = ReadFrom(c) /\ UNCHANGED <<sCtrl, sState>>
    BY <1>i, ServerIdle DEF srvVars
<1>x. cPc[c] \notin {"failed", "killed"} => cState[c] = StateAt(p) /\ cState[c] # "CLIENT_TERMINATE"
    BY <1>a DEF At, StateAt
<1>1. CASE iperf_connect(c)
  <2>1. p = 0 /\ cPc[c] = "idle"
    BY <1>1, <1>a DEF iperf_connect, At, PcAt, Place
  <2>2. CASE /\ Dial(Ctrl(c)) /\ ClientGoes(c, "dialed", cState[c])
             /\ UNCHANGED <<cOpt, cStreams, cGot, cErr, srvVars>>
    <3>1. sEnd[Ctrl(c)] = "none"
      BY <2>1 DEF PhaseInv, Fresh
    <3>2. /\ cPc'[c] = "dialed" /\ cState'[c] = cState[c] /\ cEnd'[Ctrl(c)] = "open"
          /\ UNCHANGED <<up, down>>
      BY <1>t, <2>2 DEF Dial, ClientGoes
    <3>3. At(c, 0)' /\ Made(c, 0)'
      BY <1>a, <2>1, <2>2, <3>2 DEF At, Made, PcAt, StateAt
    <3>4. Told(c, 0, m)'
      BY <1>a, <2>1, <2>2, <3>1, <3>2, ToldStays, PlaceType
    <3>5. m = (SentTo(c))' /\ Asked(c, 0)'
      BY <1>a, <1>i, <2>1, <2>2, <3>1, <3>2, AskedStays
    <3>6. Talk(c, 0, m)'
      BY <3>3, <3>4, <3>5 DEF Talk
    <3> QED
      BY <2>1, <3>6
  <2>3. CASE /\ ClientFails(c, "IECONNECT")
             /\ UNCHANGED <<up, down, sEnd, backlog, listening,
                            cState, cOpt, cStreams, cGot, srvVars>>
    BY <1>p, <2>1, <2>3, ClientErrorTalks
  <2> QED
    BY <1>1, <2>2, <2>3 DEF iperf_connect
<1>2. CASE iperf_connect_cookie(c)
  <2>1. p = 0 /\ cPc[c] = "dialed" /\ 0 \in Place /\ 1 \in Place
    BY <1>2, <1>a DEF iperf_connect_cookie, At, PcAt, Place
  <2>2. /\ cPc'[c] = "loop" /\ cState'[c] = cState[c] /\ up'[Ctrl(c)] = Append(up[Ctrl(c)], Msg("COOKIE"))
        /\ UNCHANGED <<down, cEnd, sEnd, cOpt, cStreams, cGot, cErr, srvVars>>
    BY <1>2, <1>t DEF iperf_connect_cookie, ClientGoes, ClientSend
  <2>3. At(c, 1)' /\ Made(c, 1)'
    BY <1>a, <2>1, <2>2 DEF At, Made, PcAt, StateAt
  <2>4. Told(c, 1, m)'
    BY <1>a, <2>1, <2>2, ToldStays, PlaceType DEF HasRead
  <2>5. ASSUME sEnd[Ctrl(c)] # "closed" PROVE Asked(c, 1)'
    <3>1. Msg("COOKIE") \in Message /\ Msg("COOKIE").t = "COOKIE"
      BY MsgType DEF Msg
    <3>2. HasSent(0) = 0 /\ HasSent(1) = 1 /\ UpScript[1] = "COOKIE"
      BY DEF HasSent, UpScript
    <3> QED
      BY <1>a, <1>x, <2>1, <2>2, <2>5, <3>1, <3>2, ClientSays
  <2>6. Talk(c, 1, m)'
    BY <1>a, <1>i, <2>2, <2>3, <2>4, <2>5 DEF Talk
  <2> QED
    BY <2>1, <2>6
<1>3. CASE ClientParamExchange(c)
  <2>1. /\ cPc[c] = "loop" /\ down[Ctrl(c)] # <<>> /\ Head(down[Ctrl(c)]).t = "PARAM_EXCHANGE"
        /\ down'[Ctrl(c)] = Tail(down[Ctrl(c)])
        /\ cPc'[c] = "loop" /\ cState'[c] = "PARAM_EXCHANGE"
        /\ up'[Ctrl(c)] = Append(up[Ctrl(c)], Msg("PARAMS"))
        /\ UNCHANGED <<cEnd, sEnd, cOpt, cStreams, cGot, cErr, srvVars>>
    BY <1>3, <1>t DEF ClientParamExchange, ClientReads, ClientGoes, ClientSend
  <2>2. p = 1 /\ HasRead(p) < m
    BY <1>a, <2>1, NextByte DEF At, PcAt, Place, HasRead, DownScript, Final
  <2>3. At(c, 2)' /\ Made(c, 2)' /\ 2 \in Place
    BY <1>a, <2>1, <2>2 DEF At, Made, PcAt, StateAt, Place
  <2>4. Told(c, 2, m)'
    <3>1. HasRead(2) = HasRead(1) + 1 /\ 2 >= 1 /\ 2 \in Place /\ 1 \in Place
      BY DEF HasRead, Place
    <3> QED
      BY <1>a, <2>1, <2>2, <3>1, ReadKeepsTold
  <2>5. ASSUME sEnd[Ctrl(c)] # "closed" PROVE Asked(c, 2)'
    <3>1. Msg("PARAMS") \in Message /\ Msg("PARAMS").t = "PARAMS"
      BY MsgType DEF Msg
    <3>2. HasSent(1) = 1 /\ HasSent(2) = 2 /\ UpScript[2] = "PARAMS"
      BY DEF HasSent, UpScript
    <3> QED
      BY <1>a, <1>x, <2>1, <2>2, <2>3, <2>5, <3>1, <3>2, ClientSays
  <2>6. Talk(c, 2, m)'
    BY <1>a, <1>i, <2>1, <2>3, <2>4, <2>5 DEF Talk
  <2> QED
    BY <2>3, <2>6
<1>4. CASE ClientCreateStreams(c)
  <2>1. /\ cPc[c] = "loop" /\ down[Ctrl(c)] # <<>> /\ Head(down[Ctrl(c)]).t = "CREATE_STREAMS"
        /\ down'[Ctrl(c)] = Tail(down[Ctrl(c)])
        /\ cPc'[c] = "streams" /\ cState'[c] = "CREATE_STREAMS"
        /\ UNCHANGED <<up, cEnd, sEnd, cOpt, cStreams, cGot, cErr, srvVars>>
    BY <1>4, <1>t DEF ClientCreateStreams, ClientReads, ClientGoes
  <2>2. p = 2 /\ HasRead(p) < m
    BY <1>a, <2>1, NextByte DEF At, PcAt, Place, HasRead, DownScript, Final
  <2>3. At(c, 3)' /\ Made(c, 3)' /\ 3 \in Place
    BY <1>a, <2>1, <2>2 DEF At, Made, PcAt, StateAt, Place
  <2>4. HasRead(3) = HasRead(2) + 1 /\ 3 >= 2 /\ HasSent(3) = HasSent(2)
    BY DEF HasRead, HasSent
  <2>5. Told(c, 3, m)'
    BY <1>a, <2>1, <2>2, <2>3, <2>4, ReadKeepsTold
  <2>6. ASSUME sEnd[Ctrl(c)] # "closed" PROVE Asked(c, 3)'
    BY <1>a, <1>i, <1>x, <2>1, <2>2, <2>3, <2>4, <2>6, AskedStays
  <2>7. Talk(c, 3, m)'
    BY <1>a, <1>i, <2>1, <2>3, <2>5, <2>6 DEF Talk
  <2> QED
    BY <2>3, <2>7
<1>5. CASE iperf_tcp_connect(c)
  <2> DEFINE n == Len(cStreams[c]) + 1
  <2>n. n \in Nat /\ n >= 1 /\ n <= StreamsTotal(cOpt[c]) /\ cOpt[c] \in Config
    BY <1>5, <1>t, QueueType DEF iperf_tcp_connect, StreamsTotal, Config
  <2>0. <<c, n>> \in Conns /\ \A e \in Clients : <<c, n>> # Ctrl(e)
    BY <2>n, StreamConn
  <2>1. /\ cPc[c] = "streams" /\ cPc'[c] = "streamCookie" /\ cState'[c] = cState[c]
        /\ up'[Ctrl(c)] = up[Ctrl(c)] /\ down'[Ctrl(c)] = down[Ctrl(c)]
        /\ cEnd'[Ctrl(c)] = cEnd[Ctrl(c)] /\ sEnd'[Ctrl(c)] = sEnd[Ctrl(c)]
        /\ UNCHANGED <<cOpt, cStreams, cGot, cErr, srvVars>>
    BY <1>5, <1>t, <2>0 DEF iperf_tcp_connect, Dial, ClientGoes
  <2>2. p = 3 /\ 3 \in Place
    BY <1>a, <2>1 DEF At, PcAt, Place
  <2>3. At(c, 3)' /\ Made(c, 3)'
    BY <1>a, <2>1, <2>2 DEF At, Made, PcAt, StateAt
  <2>4. Told(c, 3, m)'
    BY <1>a, <2>1, <2>2, ToldStays, PlaceType
  <2>5. ASSUME sEnd[Ctrl(c)] # "closed" PROVE Asked(c, 3)'
    BY <1>a, <1>i, <1>x, <2>1, <2>2, <2>5, AskedStays
  <2>6. Talk(c, 3, m)'
    BY <1>a, <1>i, <2>1, <2>3, <2>4, <2>5 DEF Talk
  <2> QED
    BY <2>2, <2>6
<1>6. CASE iperf_create_streams(c)
  <2> DEFINE n == Len(cStreams[c]) + 1
  <2>n. n \in Nat /\ n >= 1 /\ n <= StreamsTotal(cOpt[c]) /\ cOpt[c] \in Config
    BY <1>6, <1>t, QueueType DEF iperf_create_streams
  <2>0. <<c, n>> \in Conns /\ \A e \in Clients : <<c, n>> # Ctrl(e)
    BY <2>n, StreamConn
  <2>1. /\ cPc[c] = "streamCookie" /\ cState'[c] = cState[c]
        /\ cPc'[c] = IF n = StreamsTotal(cOpt[c]) THEN "loop" ELSE "streams"
        /\ up'[Ctrl(c)] = up[Ctrl(c)]
        /\ UNCHANGED <<down, cEnd, sEnd, cOpt, cGot, cErr, srvVars>>
    BY <1>6, <1>t, <2>0 DEF iperf_create_streams, ClientSend, ClientGoes
  <2>a. cStreams'[c] = Append(cStreams[c], [conn |-> <<c, n>>, sender |-> ClientSends(cOpt[c], n)])
    BY <1>6, <1>t DEF iperf_create_streams
  <2>b. Len(cStreams'[c]) = n
    BY <1>t, <2>a
  <2>2. p = 3 /\ 3 \in Place
    BY <1>a, <2>1 DEF At, PcAt, Place
  <2>3. At(c, 3)' /\ Made(c, 3)'
    BY <1>a, <2>1, <2>2, <2>b DEF At, Made, PcAt, StateAt
  <2>4. Told(c, 3, m)'
    BY <1>a, <2>1, <2>2, ToldStays, PlaceType
  <2>5. ASSUME sEnd[Ctrl(c)] # "closed" PROVE Asked(c, 3)'
    BY <1>a, <1>i, <1>x, <2>1, <2>2, <2>5, AskedStays
  <2>6. Talk(c, 3, m)'
    BY <1>a, <1>i, <2>1, <2>3, <2>4, <2>5 DEF Talk
  <2> QED
    BY <2>2, <2>6
<1>7. CASE ClientConnectError(c)
    BY <1>7, <1>p, ClientErrorTalks DEF ClientConnectError
<1>8. CASE ClientTestPhase(c)
  <2>0. PICK t \in {"TEST_START", "TEST_RUNNING"} :
            /\ ClientReads(c, t) /\ ClientGoes(c, "loop", t)
            /\ UNCHANGED <<up, cEnd, sEnd, backlog, listening, cOpt, cStreams, cGot, cErr, srvVars>>
    BY <1>8 DEF ClientTestPhase
  <2>1. /\ cPc[c] = "loop" /\ down[Ctrl(c)] # <<>> /\ Head(down[Ctrl(c)]).t = t
        /\ down'[Ctrl(c)] = Tail(down[Ctrl(c)])
        /\ cPc'[c] = "loop" /\ cState'[c] = t
        /\ UNCHANGED <<up, cEnd, sEnd, cOpt, cStreams, cGot, cErr, srvVars>>
    BY <2>0, <1>t DEF ClientReads, ClientGoes
  <2> DEFINE q == IF t = "TEST_START" THEN 4 ELSE 5
  <2>2. /\ p = IF t = "TEST_START" THEN 3 ELSE 4
        /\ HasRead(p) < m
    BY <1>a, <2>1, NextByte DEF At, PcAt, Place, HasRead, DownScript, Final
  <2>3. At(c, q)' /\ Made(c, q)' /\ q \in Place
    BY <1>a, <2>1, <2>2 DEF At, Made, PcAt, StateAt, Place
  <2>4. HasRead(q) = HasRead(p) + 1 /\ q >= p /\ HasSent(q) = HasSent(p)
    BY <2>2 DEF HasRead, HasSent
  <2>5. Told(c, q, m)'
    BY <1>a, <2>1, <2>3, <2>2, <2>4, ReadKeepsTold
  <2>6. ASSUME sEnd[Ctrl(c)] # "closed" PROVE Asked(c, q)'
    BY <1>a, <1>i, <1>x, <2>1, <2>3, <2>4, <2>6, AskedStays
  <2>7. Talk(c, q, m)'
    BY <1>a, <1>i, <2>1, <2>3, <2>5, <2>6 DEF Talk
  <2> QED
    BY <2>3, <2>7
<1>9. CASE ClientTestEnd(c)
  <2>1. /\ cPc[c] = "loop" /\ cState[c] = "TEST_RUNNING"
        /\ cPc'[c] = "loop" /\ cState'[c] = "TEST_END"
        /\ up'[Ctrl(c)] = Append(up[Ctrl(c)], Msg("TEST_END"))
        /\ UNCHANGED <<down, cEnd, sEnd, cOpt, cStreams, cGot, cErr, srvVars>>
    BY <1>9, <1>t DEF ClientTestEnd, ClientGoes, ClientSend
  <2>2. p = 5 /\ 5 \in Place /\ 6 \in Place
    BY <1>x, <2>1 DEF StateAt, Place
  <2>3. At(c, 6)' /\ Made(c, 6)'
    BY <1>a, <2>1, <2>2 DEF At, Made, PcAt, StateAt
  <2>4. HasRead(5) = HasRead(6) /\ HasSent(5) = 2 /\ HasSent(6) = 3 /\ UpScript[3] = "TEST_END"
    BY DEF HasRead, HasSent, UpScript
  <2>5. Told(c, 6, m)'
    BY <1>a, <2>1, <2>2, <2>4, ToldStays, PlaceType
  <2>6. ASSUME sEnd[Ctrl(c)] # "closed" PROVE Asked(c, 6)'
    <3>1. Msg("TEST_END") \in Message /\ Msg("TEST_END").t = "TEST_END"
      BY MsgType DEF Msg, State
    <3> QED
      BY <1>a, <1>x, <2>1, <2>2, <2>4, <2>6, <3>1, ClientSays
  <2>7. Talk(c, 6, m)'
    BY <1>a, <1>i, <2>1, <2>3, <2>5, <2>6 DEF Talk
  <2> QED
    BY <2>2, <2>7
<1>10. CASE ClientStreamError(c)
    BY <1>10, <1>p, ClientErrorTalks DEF ClientStreamError
<1>11. CASE ClientExchangeResults(c)
  <2> DEFINE x == [t |-> "RESULTS", ids |-> IdsOf(cStreams[c])]
  <2>1. /\ cPc[c] = "loop" /\ down[Ctrl(c)] # <<>> /\ Head(down[Ctrl(c)]).t = "EXCHANGE_RESULTS"
        /\ down'[Ctrl(c)] = Tail(down[Ctrl(c)])
        /\ cPc'[c] = "results" /\ cState'[c] = "EXCHANGE_RESULTS"
        /\ up'[Ctrl(c)] = Append(up[Ctrl(c)], x)
        /\ UNCHANGED <<cEnd, sEnd, cOpt, cStreams, cGot, cErr, srvVars>>
    BY <1>11, <1>t DEF ClientExchangeResults, ClientReads, ClientGoes, ClientSend
  <2>2. HasRead(p) = 4 /\ HasRead(p) < m
    BY <1>a, <2>1, NextByte DEF At, PcAt, Place, HasRead, DownScript, Final
  <2>a. p = 6 /\ 6 \in Place /\ 7 \in Place
    BY <1>a, <2>2 DEF Told, HasRead, Place
  <2>3. At(c, 7)' /\ Made(c, 7)'
    BY <1>a, <2>1, <2>a DEF At, Made, PcAt, StateAt
  <2>4. HasRead(7) = HasRead(6) + 1 /\ HasSent(6) = 3 /\ HasSent(7) = 4 /\ UpScript[4] = "RESULTS"
    BY DEF HasRead, HasSent, UpScript
  <2>5. Told(c, 7, m)'
    BY <1>a, <2>1, <2>2, <2>a, <2>4, ReadKeepsTold
  <2>6. ASSUME sEnd[Ctrl(c)] # "closed" PROVE Asked(c, 7)'
    <3>1. IdsOf(cStreams[c]) \in SUBSET Nat /\ IdsOf(cStreams[c]) = AllIds(cOpt[c])
      BY <1>a, <1>t, <2>a, IdsType, FullIds DEF Made
    <3>2. x \in Message /\ x.t = "RESULTS" /\ x.ids = AllIds(cOpt[c])
      BY <3>1, MsgType
    <3> QED
      BY <1>a, <1>x, <2>1, <2>a, <2>4, <2>6, <3>2, ClientSays
  <2>7. Talk(c, 7, m)'
    BY <1>a, <1>i, <2>1, <2>3, <2>5, <2>6 DEF Talk
  <2> QED
    BY <2>a, <2>7
<1>12. CASE ClientGetResults(c)
  <2>1. /\ cPc[c] = "results" /\ down[Ctrl(c)] # <<>> /\ Head(down[Ctrl(c)]).t = "RESULTS"
        /\ down'[Ctrl(c)] = Tail(down[Ctrl(c)])
        /\ cGot'[c] = Head(down[Ctrl(c)]).ids
        /\ UNCHANGED <<up, sEnd, cOpt, cStreams, srvVars>>
    BY <1>12, <1>t DEF ClientGetResults
  <2>2. p = 7 /\ 7 \in Place /\ 8 \in Place
    BY <1>a, <2>1 DEF At, PcAt, Place
  <2>3. HasRead(7) = 5 /\ HasRead(8) = 6 /\ HasSent(7) = HasSent(8)
    BY DEF HasRead, HasSent
  <2>4. 5 < m /\ Head(down[Ctrl(c)]).ids = AllIds(cOpt[c])
    BY <1>a, <2>1, <2>2, <2>3, NextByte DEF Final
  <2>5. AllIds(cOpt[c]) = IdsOf(cStreams[c])
    BY <1>a, <1>t, <2>2, FullIds DEF Made
  <2>6. /\ cPc'[c] = "loop" /\ cState'[c] = cState[c] /\ UNCHANGED <<cEnd, cErr>>
    BY <1>12, <1>t, <2>4, <2>5 DEF ClientGetResults, ClientGoes
  <2>7. At(c, 8)'
    BY <1>a, <2>1, <2>2, <2>6 DEF At, PcAt, StateAt
  <2>a. (AllIds(cOpt[c]))' = AllIds(cOpt[c])
    BY <2>1 DEF AllIds
  <2>8. Made(c, 8)'
    BY <1>a, <2>1, <2>2, <2>4, <2>6, <2>a DEF Made
  <2>9. Told(c, 8, m)'
    BY <1>a, <2>1, <2>2, <2>3, <2>4, ReadKeepsTold
  <2>10. ASSUME sEnd[Ctrl(c)] # "closed" PROVE Asked(c, 8)'
    BY <1>a, <1>i, <1>x, <2>1, <2>2, <2>3, <2>6, <2>10, AskedStays
  <2>11. Talk(c, 8, m)'
    BY <1>a, <1>i, <2>1, <2>7, <2>8, <2>9, <2>10 DEF Talk
  <2> QED
    BY <2>2, <2>11
<1>13. CASE iperf_client_end(c)
  <2>1. /\ cPc[c] = "loop" /\ down[Ctrl(c)] # <<>> /\ Head(down[Ctrl(c)]).t = "DISPLAY_RESULTS"
        /\ down'[Ctrl(c)] = Tail(down[Ctrl(c)])
        /\ cPc'[c] = "ended" /\ cState'[c] = "IPERF_DONE"
        /\ up'[Ctrl(c)] = Append(up[Ctrl(c)], Msg("IPERF_DONE"))
        /\ UNCHANGED <<sEnd, cOpt, cStreams, cGot, cErr, srvVars>>
    BY <1>13, <1>t DEF iperf_client_end, ClientReads, ClientGoes, ClientSend
  <2>2. p = 8 /\ HasRead(p) < m
    BY <1>a, <2>1, NextByte DEF At, PcAt, Place, HasRead, DownScript, Final
  <2>a. (AllIds(cOpt[c]))' = AllIds(cOpt[c])
    BY <2>1 DEF AllIds
  <2>3. At(c, 9)' /\ Made(c, 9)' /\ 8 \in Place /\ 9 \in Place
    BY <1>a, <2>1, <2>2, <2>a DEF At, Made, PcAt, StateAt, Place
  <2>4. HasRead(9) = HasRead(8) + 1 /\ HasSent(8) = 4 /\ HasSent(9) = 5 /\ UpScript[5] = "IPERF_DONE"
    BY DEF HasRead, HasSent, UpScript
  <2>5. Told(c, 9, m)'
    BY <1>a, <2>1, <2>2, <2>3, <2>4, ReadKeepsTold
  <2>6. ASSUME sEnd[Ctrl(c)] # "closed" PROVE Asked(c, 9)'
    <3>1. Msg("IPERF_DONE") \in Message /\ Msg("IPERF_DONE").t = "IPERF_DONE"
      BY MsgType DEF Msg, State
    <3> QED
      BY <1>a, <1>x, <2>1, <2>2, <2>3, <2>4, <2>6, <3>1, ClientSays
  <2>7. Talk(c, 9, m)'
    BY <1>a, <1>i, <2>1, <2>3, <2>5, <2>6 DEF Talk
  <2> QED
    BY <2>3, <2>7
<1>14. CASE ClientRefused(c)
  <2>0. PICK t \in {"SERVER_TERMINATE", "ACCESS_DENIED", "SERVER_ERROR", "RESULTS"} :
            /\ ClientReads(c, t)
            /\ ClientFails(c, CASE t = "SERVER_TERMINATE" -> "IESERVERTERM"
                                [] t = "ACCESS_DENIED" -> "IEACCESSDENIED"
                                [] t = "SERVER_ERROR" -> "IESERVERERROR"
                                [] OTHER -> "IEMESSAGE")
            /\ UNCHANGED <<up, sEnd, backlog, listening, cState, cOpt, cStreams, cGot, srvVars>>
    BY <1>14, Zenon DEF ClientRefused
  <2> DEFINE err == CASE t = "SERVER_TERMINATE" -> "IESERVERTERM"
                      [] t = "ACCESS_DENIED" -> "IEACCESSDENIED"
                      [] t = "SERVER_ERROR" -> "IESERVERERROR"
                      [] OTHER -> "IEMESSAGE"
  <2>1. ClientReads(c, t) /\ ClientFails(c, err)
        /\ UNCHANGED <<up, sEnd, cState, cOpt, cStreams, cGot, srvVars>>
    BY <2>0
  <2>2. t # "RESULTS" => err \in {"IESERVERTERM", "IEACCESSDENIED", "IESERVERERROR"}
    OBVIOUS
  <2> HIDE DEF err
  <2>3. /\ cPc[c] = "loop" /\ down[Ctrl(c)] # <<>> /\ Head(down[Ctrl(c)]).t = t
        /\ down'[Ctrl(c)] = Tail(down[Ctrl(c)])
        /\ cPc'[c] = "failed" /\ cErr'[c] = err /\ cState'[c] = cState[c]
    BY <2>1, <1>t DEF ClientReads, ClientFails
  <2>4. t # "RESULTS" /\ HasRead(p) = m /\ Len(down[Ctrl(c)]) = 1
    BY <1>a, <2>3, NextByte DEF At, PcAt, Place, HasRead, DownScript, Final
  <2>5. Told(c, p, m)'
    BY <1>a, <2>1, <2>3, <2>4, LastWordRead
  <2> QED
    BY <1>p, <1>x, <2>1, <2>2, <2>3, <2>4, <2>5, ClientStops
<1>15. CASE ClientEOF(c)
    BY <1>15, <1>p, ClientErrorTalks DEF ClientEOF
<1>16. CASE ClientReset(c)
    BY <1>16, <1>p, ClientErrorTalks DEF ClientReset
<1>17. CASE iperf_got_sigend_client(c)
  <2>1. /\ cPc[c] \in {"dialed", "loop", "streams", "streamCookie", "results"}
        /\ cPc'[c] = "killed" /\ cState'[c] = "CLIENT_TERMINATE" /\ cErr'[c] = "IECLIENTTERM"
        /\ up'[Ctrl(c)] = Append(up[Ctrl(c)], Msg("CLIENT_TERMINATE"))
        /\ UNCHANGED <<down, sEnd, cOpt, cStreams, cGot, srvVars>>
    BY <1>17, <1>t DEF iperf_got_sigend_client, ClientGoes, ClientSend
  <2>a. (AllIds(cOpt[c]))' = AllIds(cOpt[c])
    BY <2>1 DEF AllIds
  <2>2. At(c, p)' /\ Made(c, p)'
    BY <1>a, <2>1, <2>a DEF At, Made, PcAt, Place
  <2>3. Told(c, p, m)'
    BY <1>a, <2>1, ToldStays, PlaceType
  <2>4. ASSUME sEnd[Ctrl(c)] # "closed" PROVE Asked(c, p)'
    <3>1. Msg("CLIENT_TERMINATE") \in Message /\ Msg("CLIENT_TERMINATE").t = "CLIENT_TERMINATE"
      BY MsgType DEF Msg, State
    <3> QED
      BY <1>a, <1>x, <2>1, <2>4, <3>1, ClientSaysGoodbye
  <2>5. Talk(c, p, m)'
    BY <1>a, <1>i, <2>1, <2>2, <2>3, <2>4 DEF Talk
  <2> QED
    BY <2>5
<1>18. CASE ClientCrash(c)
  <2>1. /\ cPc[c] # "ended" /\ cPc'[c] = "killed"
        /\ UNCHANGED <<up, down, sEnd, cState, cOpt, cStreams, cGot, cErr, srvVars>>
    BY <1>18, <1>t DEF ClientCrash
  <2>2. Told(c, p, m)'
    BY <1>a, <2>1, ToldStays, PlaceType
  <2>3. cErr[c] \notin {"IEMESSAGE", "IESTREAMID"}
    BY <1>a DEF Made
  <2> QED
    BY <1>p, <2>1, <2>2, <2>3, ClientStops
<1> QED
    BY <1>1, <1>2, <1>3, <1>4, <1>5, <1>6, <1>7, <1>8, <1>9, <1>10, <1>11, <1>12, <1>13,
       <1>14, <1>15, <1>16, <1>17, <1>18
       DEF ClientStep, ClientFault, ClientConnectRefused

\* As far as the server is concerned, nothing happened.
LEMMA ServerSideStays ==
    ASSUME Known, ServerStage, StreamsReleased, UNCHANGED <<sEnd, backlog, cOpt, srvVars>>
    PROVE  Known' /\ ServerStage' /\ StreamsReleased'
<1>1. Queued' = Queued
    BY DEF Queued
<1> QED
    BY <1>1 DEF Known, ServerStage, StreamsReleased, srvVars

\* A client step that opens no connection makes none that it is yet to open.
LEMMA FreshStays ==
    ASSUME TypeInv, Fresh, sEnd' = sEnd, NEW c \in Clients,
           \A d \in Clients : d # c => cPc'[d] = cPc[d] /\ cStreams'[d] = cStreams[d],
           cPc'[c] # "idle",
           \/ cPc'[c] \in {"ended", "failed", "killed"}
           \/ /\ cPc[c] \notin {"ended", "failed", "killed"}
              /\ cStreams'[c] = cStreams[c] /\ cPc[c] # "streamCookie"
           \/ /\ cPc[c] = "streamCookie" /\ cPc'[c] # "streamCookie"
              /\ Len(cStreams'[c]) = Len(cStreams[c]) + 1
    PROVE  Fresh'
<1> SUFFICES ASSUME NEW d \in Clients
             PROVE  /\ cPc'[d] = "idle" => cStreams'[d] = <<>> /\ sEnd[Ctrl(d)] = "none"
                    /\ cPc'[d] \notin {"ended", "failed", "killed"} =>
                         \A n \in 1..(2 * MaxStreams) :
                             n > Len(cStreams'[d]) + (IF cPc'[d] = "streamCookie" THEN 1 ELSE 0)
                                 => sEnd[<<d, n>>] = "none"
    BY DEF Fresh
<1>1. CASE d # c
    BY <1>1 DEF Fresh
<1>2. CASE d = c /\ cPc'[c] \in {"ended", "failed", "killed"}
    BY <1>2
<1>3. CASE /\ d = c /\ cPc[c] \notin {"ended", "failed", "killed"}
           /\ cStreams'[c] = cStreams[c] /\ cPc[c] # "streamCookie"
  <2>1. Len(cStreams[c]) \in Nat
    BY QueueType
  <2>2. ASSUME NEW n \in 1..(2 * MaxStreams),
               n > Len(cStreams'[d]) + (IF cPc'[d] = "streamCookie" THEN 1 ELSE 0)
        PROVE  sEnd[<<d, n>>] = "none"
    <3>0. n > Len(cStreams[c]) + 1 \/ n > Len(cStreams[c]) + 0
      BY <1>3, <2>2
    <3>n. n \in Nat
      BY ControlAssumption
    <3>1. n > Len(cStreams[c]) + 0
      BY <2>1, <3>n, <3>0
    <3> QED
      BY <1>3, <3>1 DEF Fresh
  <2> QED
    BY <1>3, <2>2
<1>4. CASE /\ d = c /\ cPc[c] = "streamCookie" /\ cPc'[c] # "streamCookie"
           /\ Len(cStreams'[c]) = Len(cStreams[c]) + 1
  <2>1. Len(cStreams[c]) \in Nat
    BY QueueType
  <2>2. ASSUME NEW n \in 1..(2 * MaxStreams),
               n > Len(cStreams'[d]) + (IF cPc'[d] = "streamCookie" THEN 1 ELSE 0)
        PROVE  sEnd[<<d, n>>] = "none"
    <3>1. n > Len(cStreams[c]) + 1
      BY ControlAssumption, <1>4, <2>1, <2>2
    <3> QED
      BY <1>4, <3>1 DEF Fresh
  <2> QED
    BY <1>4, <2>2
<1> QED
    BY <1>1, <1>2, <1>3, <1>4

\* What a client writes on its control connection is not on a stream.
LEMMA CookiesStay ==
    ASSUME TypeInv, StreamsCarryCookies, NEW c \in Clients,
           \A k \in Conns : k # Ctrl(c) => up'[k] = up[k]
    PROVE  StreamsCarryCookies'
BY DEF StreamsCarryCookies

\* A connection is made: it is new to the server, and to the client it was the next.
LEMMA DialKeepsSides ==
    ASSUME TypeInv, PhaseInv, NEW c \in Clients, NEW k \in Conns, Dial(k), sEnd[k] = "none",
           UNCHANGED <<cOpt, srvVars>>
    PROVE  Known' /\ ServerStage' /\ StreamsReleased' /\ StreamsCarryCookies'
<1>t. /\ Known /\ ServerStage /\ StreamsReleased /\ StreamsCarryCookies
      /\ sEnd \in [Conns -> {"none", "open", "closed"}] /\ backlog \in Seq(Conns)
      /\ sStreams \in Seq(Stream)
    BY DEF PhaseInv, TypeInv, TypeOK
<1>1. \A j \in Conns : j # k => sEnd'[j] = sEnd[j]
    BY <1>t DEF Dial
<1>2. sEnd'[k] = "open" /\ backlog' = Append(backlog, k) /\ up' = up
    BY <1>t DEF Dial
<1>3. k \notin Queued /\ k # sCtrl /\ (sPc = "streamCookie" => k # sPend)
    BY <1>t, CtrlDistinct DEF Known
<1>4. /\ Len(backlog') = Len(backlog) + 1 /\ DOMAIN backlog' = 1..(Len(backlog) + 1)
      /\ DOMAIN backlog = 1..Len(backlog)
      /\ \A i \in 1..Len(backlog) : backlog'[i] = backlog[i]
      /\ backlog'[Len(backlog) + 1] = k
    BY <1>t, <1>2
<1>5. Queued' = Queued \cup {k}
  <2>1. \A i \in DOMAIN backlog' : i \in DOMAIN backlog \/ i = Len(backlog) + 1
    BY <1>4, <1>t
  <2>2. \A i \in DOMAIN backlog : i \in DOMAIN backlog'
    BY <1>4, <1>t
  <2>3. Len(backlog) + 1 \in DOMAIN backlog'
    BY <1>4, <1>t
  <2> QED
    BY <1>4, <2>1, <2>2, <2>3 DEF Queued
<1>6. \A n \in DOMAIN sStreams : sStreams[n].conn \in Conns /\ sEnd'[sStreams[n].conn] = sEnd[sStreams[n].conn]
  <2>1. \A n \in DOMAIN sStreams : sStreams[n] \in Stream
    BY <1>t
  <2>2. \A n \in DOMAIN sStreams : sStreams[n].conn \in Conns /\ sStreams[n].conn # k
    BY <1>t, <2>1 DEF Known, Stream
  <2> QED
    BY <1>1, <2>2
<1>7. \A j \in Queued : j \in Conns
    BY <1>t DEF Queued
<1>8. sCtrl # NoConn => sEnd'[sCtrl] = sEnd[sCtrl]
    BY <1>1, <1>3 DEF TypeInv, TypeOK
<1>9. sPc = "streamCookie" => sEnd'[sPend] = sEnd[sPend]
    BY <1>1, <1>3, <1>t DEF TypeInv, TypeOK, WaitsOnSocket
<1>10. \A i, j \in DOMAIN backlog' : backlog'[i] = backlog'[j] => i = j
  <2> TAKE i, j \in DOMAIN backlog'
  <2>1. /\ i \in 1..Len(backlog) \/ i = Len(backlog) + 1
        /\ j \in 1..Len(backlog) \/ j = Len(backlog) + 1
    BY <1>t, <1>4
  <2>2. \A n \in 1..Len(backlog) : backlog[n] # k
    BY <1>3, <1>4 DEF Queued
  <2> QED
    BY <1>t, <1>4, <2>1, <2>2 DEF Known
<1>11. Known'
  <2>1. UNCHANGED <<sPc, sCtrl, sPend, sStreams>>
    BY DEF srvVars
  <2>2. \A j \in Queued' : sEnd'[j] = "open" /\ j # sCtrl
    BY <1>1, <1>2, <1>3, <1>5, <1>7, <1>t DEF Known
  <2>3. sPc = "streamCookie" => sEnd'[sPend] = "open" /\ sPend \notin Queued' /\ sPend # sCtrl
    BY <1>3, <1>5, <1>9, <1>t DEF Known
  <2>4. \A n \in DOMAIN sStreams : sStreams[n].conn \notin Queued'
    BY <1>5, <1>t DEF Known
  <2> QED
    BY <1>6, <1>8, <1>10, <1>t, <2>1, <2>2, <2>3, <2>4 DEF Known
<1>12. ServerStage'
    BY <1>t, <1>6, <1>8 DEF ServerStage, srvVars
<1>13. StreamsReleased' /\ StreamsCarryCookies'
    BY <1>t, <1>2, <1>6 DEF StreamsReleased, StreamsCarryCookies, srvVars
<1> QED
    BY <1>11, <1>12, <1>13

\* Every step of a client keeps the rest of the invariant.
LEMMA ClientKeepsSides ==
    ASSUME TypeInv, PhaseInv, NEW c \in Clients, ClientStep(c) \/ ClientFault(c)
    PROVE  Known' /\ Fresh' /\ StreamsCarryCookies' /\ ServerStage' /\ StreamsReleased'
<1>t. /\ Known /\ Fresh /\ StreamsCarryCookies /\ ServerStage /\ StreamsReleased
      /\ Ctrl(c) \in Conns
      /\ up \in [Conns -> Seq(Message)] /\ down \in [Conns -> Seq(Message)]
      /\ cPc \in [Clients -> CPc] /\ cStreams \in [Clients -> Seq(Stream)]
      /\ sEnd \in [Conns -> {"none", "open", "closed"}]
    BY CtrlConn DEF PhaseInv, TypeInv, TypeOK
<1>o. \A d \in Clients : d # c => cPc'[d] = cPc[d] /\ cStreams'[d] = cStreams[d]
    BY OthersApart DEF Apart
<1>g. ASSUME NEW pc, NEW state, ClientGoes(c, pc, state) PROVE cPc'[c] = pc
    BY <1>g, <1>t DEF ClientGoes
<1>f. ASSUME NEW err, ClientFails(c, err) PROVE cPc'[c] = "failed"
    BY <1>f, <1>t DEF ClientFails
<1>w. ASSUME NEW x, ClientSend(Ctrl(c), x) PROVE \A k \in Conns : k # Ctrl(c) => up'[k] = up[k]
    BY <1>w, <1>t DEF ClientSend
<1>d. ASSUME NEW k \in Conns, k = Ctrl(c) \/ k = <<c, Len(cStreams[c]) + 1>>, Dial(k),
             cPc'[c] = IF k = Ctrl(c) THEN "dialed" ELSE "streamCookie",
             cPc[c] = IF k = Ctrl(c) THEN "idle" ELSE "streams",
             k # Ctrl(c) => k[2] = Len(cStreams[c]) + 1 /\ k[2] \in 1..(2 * MaxStreams),
             UNCHANGED <<cOpt, cStreams, srvVars>>
      PROVE  Known' /\ Fresh' /\ StreamsCarryCookies' /\ ServerStage' /\ StreamsReleased'
  <2>0. Len(cStreams[c]) \in Nat
    BY <1>t
  <2>1. sEnd[k] = "none"
    <3>1. CASE k = Ctrl(c)
      BY <1>d, <1>t, <3>1 DEF Fresh
    <3>2. CASE k # Ctrl(c)
      <4>0. k = <<c, Len(cStreams[c]) + 1>> /\ k[2] = Len(cStreams[c]) + 1
            /\ k[2] \in 1..(2 * MaxStreams)
        BY <1>d, <3>2
      <4>1. k = <<c, k[2]>>
        BY <4>0, Zenon
      <4>2. k[2] > Len(cStreams[c]) + 0
        <5>1. \A i \in Nat : i + 1 > i + 0
          OBVIOUS
        <5> QED
          BY <2>0, <4>0, <5>1, Zenon
      <4> QED
        BY <1>d, <1>t, <3>2, <4>0, <4>1, <4>2 DEF Fresh
    <3> QED
      BY <3>1, <3>2
  <2>2. Known' /\ ServerStage' /\ StreamsReleased' /\ StreamsCarryCookies'
    BY <1>d, <2>1, DialKeepsSides
  <2>3. Fresh'
    <3> SUFFICES ASSUME NEW d \in Clients
                 PROVE  /\ cPc'[d] = "idle" => cStreams[d] = <<>> /\ sEnd'[Ctrl(d)] = "none"
                        /\ cPc'[d] \notin {"ended", "failed", "killed"} =>
                             \A n \in 1..(2 * MaxStreams) :
                                 n > Len(cStreams[d]) + (IF cPc'[d] = "streamCookie" THEN 1 ELSE 0)
                                     => sEnd'[<<d, n>>] = "none"
      BY <1>d DEF Fresh
    <3>0. \A j \in Conns : j # k => sEnd'[j] = sEnd[j]
      BY <1>d, <1>t DEF Dial
    <3>1. \A n \in 1..(2 * MaxStreams) : <<d, n>> \in Conns /\ Ctrl(d) \in Conns
      BY ControlAssumption, CtrlConn DEF Conns
    <3>2. CASE d # c
      <4>1. Ctrl(d) # k /\ \A n \in 1..(2 * MaxStreams) : <<d, n>> # k
        BY <1>d, <3>2 DEF Ctrl
      <4> QED
        BY <1>t, <1>o, <3>0, <3>1, <3>2, <4>1, CtrlConn DEF Fresh
    <3>3. CASE d = c /\ k = Ctrl(c)
      <4>1. \A n \in 1..(2 * MaxStreams) : <<c, n>> # k
        BY ControlAssumption, <3>3 DEF Ctrl
      <4> QED
        BY <1>d, <1>t, <3>0, <3>1, <3>3, <4>1 DEF Fresh
    <3>4. CASE d = c /\ k # Ctrl(c)
      <4>1. ASSUME NEW n \in 1..(2 * MaxStreams), n > Len(cStreams[c]) + 1
            PROVE  sEnd'[<<c, n>>] = "none"
        <5>1. n # k[2] /\ <<c, n>> # k /\ n > Len(cStreams[c]) + 0
          BY ControlAssumption, <1>d, <2>0, <3>4, <4>1
        <5> QED
          BY <1>d, <1>t, <3>0, <3>1, <3>4, <5>1 DEF Fresh
      <4> QED
        BY <1>d, <3>4, <4>1
    <3> QED
      BY <3>2, <3>3, <3>4
  <2> QED
    BY <2>2, <2>3
<1>q. ASSUME UNCHANGED <<sEnd, backlog, cOpt, srvVars>>,
             \A k \in Conns : k # Ctrl(c) => up'[k] = up[k],
             cPc'[c] # "idle",
             \/ cPc'[c] \in {"ended", "failed", "killed"}
             \/ /\ cPc[c] \notin {"ended", "failed", "killed"}
                /\ cStreams'[c] = cStreams[c] /\ cPc[c] # "streamCookie"
      PROVE  Known' /\ Fresh' /\ StreamsCarryCookies' /\ ServerStage' /\ StreamsReleased'
  <2>1. Known' /\ ServerStage' /\ StreamsReleased'
    BY <1>q, <1>t, ServerSideStays
  <2>2. Fresh'
    BY <1>q, <1>t, <1>o, FreshStays
  <2>3. StreamsCarryCookies'
    BY <1>q, <1>t, CookiesStay
  <2> QED
    BY <2>1, <2>2, <2>3
<1>1. CASE iperf_connect(c)
  <2>1. CASE /\ Dial(Ctrl(c)) /\ ClientGoes(c, "dialed", cState[c])
             /\ UNCHANGED <<cOpt, cStreams, cGot, cErr, srvVars>>
    BY <1>1, <1>t, <1>g, <1>d, <2>1 DEF iperf_connect
  <2>2. CASE /\ ClientFails(c, "IECONNECT")
             /\ UNCHANGED <<up, down, sEnd, backlog, listening,
                            cState, cOpt, cStreams, cGot, srvVars>>
    BY <1>f, <1>q, <2>2
  <2> QED
    BY <1>1, <2>1, <2>2 DEF iperf_connect
<1>2. CASE iperf_connect_cookie(c)
    BY <1>2, <1>g, <1>w, <1>q DEF iperf_connect_cookie
<1>3. CASE ClientParamExchange(c)
    BY <1>3, <1>g, <1>w, <1>q DEF ClientParamExchange, ClientReads
<1>4. CASE ClientCreateStreams(c)
    BY <1>4, <1>g, <1>q DEF ClientCreateStreams, ClientReads
<1>5. CASE iperf_tcp_connect(c)
  <2> DEFINE n == Len(cStreams[c]) + 1
  <2>1. n \in Nat /\ n >= 1 /\ n <= StreamsTotal(cOpt[c]) /\ cOpt[c] \in Config
    BY <1>5, <1>t, QueueType DEF iperf_tcp_connect, StreamsTotal, Config
  <2>2. <<c, n>> \in Conns /\ <<c, n>> # Ctrl(c)
    BY <2>1, StreamConn
  <2>3. n \in 1..(2 * MaxStreams)
    BY <2>1, ControlAssumption DEF StreamsTotal, Config
  <2>4. /\ Dial(<<c, n>>) /\ cPc'[c] = "streamCookie" /\ cPc[c] = "streams"
        /\ UNCHANGED <<cOpt, cStreams, srvVars>>
    BY <1>5, <1>g DEF iperf_tcp_connect
  <2>5. <<c, n>>[2] = n
    OBVIOUS
  <2> HIDE DEF n
  <2>6. n = Len(cStreams[c]) + 1
    BY DEF n
  <2> QED
    BY <1>d, <2>2, <2>3, <2>4, <2>5, <2>6
<1>6. CASE iperf_create_streams(c)
  <2> DEFINE n == Len(cStreams[c]) + 1
  <2>1. n \in Nat /\ n >= 1 /\ n <= StreamsTotal(cOpt[c]) /\ cOpt[c] \in Config
    BY <1>6, <1>t, QueueType DEF iperf_create_streams
  <2>2. <<c, n>> \in Conns
    BY <2>1, StreamConn
  <2>3. /\ cPc[c] = "streamCookie" /\ cPc'[c] \in {"loop", "streams"}
        /\ ClientSend(<<c, n>>, Msg("COOKIE"))
        /\ UNCHANGED <<sEnd, backlog, cOpt, srvVars>>
    BY <1>6, <1>g DEF iperf_create_streams
  <2>4. cStreams'[c] = Append(cStreams[c], [conn |-> <<c, n>>, sender |-> ClientSends(cOpt[c], n)])
    BY <1>6, <1>t DEF iperf_create_streams
  <2>5. Len(cStreams'[c]) = Len(cStreams[c]) + 1
    BY <1>t, <2>4
  <2>6. Known' /\ ServerStage' /\ StreamsReleased'
    BY <1>t, <2>3, ServerSideStays
  <2>7. Fresh'
    BY <1>t, <1>o, <2>3, <2>5, FreshStays
  <2>8. StreamsCarryCookies'
    <3> SUFFICES ASSUME NEW k \in Conns, \A d \in Clients : k # Ctrl(d),
                        NEW i \in DOMAIN up'[k]
                 PROVE  up'[k][i].t = "COOKIE"
      BY DEF StreamsCarryCookies
    <3>1. CASE k # <<c, n>>
      BY <1>t, <2>3, <3>1 DEF StreamsCarryCookies, ClientSend
    <3>2. CASE k = <<c, n>>
      <4>1. up'[k] = Append(up[k], Msg("COOKIE")) /\ up[k] \in Seq(Message)
        BY <1>t, <2>2, <2>3, <3>2 DEF ClientSend
      <4>0. DOMAIN up[k] = 1..Len(up[k]) /\ DOMAIN up'[k] = 1..(Len(up[k]) + 1)
        BY <4>1
      <4>2. (i \in DOMAIN up[k] /\ up'[k][i] = up[k][i]) \/ up'[k][i] = Msg("COOKIE")
        BY <4>0, <4>1
      <4>3. \A j \in DOMAIN up[k] : up[k][j].t = "COOKIE"
        BY <1>t DEF StreamsCarryCookies
      <4>4. Msg("COOKIE").t = "COOKIE"
        BY DEF Msg
      <4> QED
        BY <4>2, <4>3, <4>4, Zenon
    <3> QED
      BY <3>1, <3>2
  <2> QED
    BY <2>6, <2>7, <2>8
<1>7. CASE ClientConnectError(c)
    BY <1>7, <1>f, <1>q DEF ClientConnectError
<1>8. CASE ClientTestPhase(c)
    BY <1>8, <1>g, <1>q DEF ClientTestPhase, ClientReads
<1>9. CASE ClientTestEnd(c)
    BY <1>9, <1>g, <1>w, <1>q DEF ClientTestEnd
<1>10. CASE ClientStreamError(c)
    BY <1>10, <1>f, <1>q DEF ClientStreamError
<1>11. CASE ClientExchangeResults(c)
    BY <1>11, <1>g, <1>w, <1>q DEF ClientExchangeResults, ClientReads
<1>12. CASE ClientGetResults(c)
  <2>1. /\ UNCHANGED <<up, sEnd, backlog, cOpt, cStreams, srvVars>>
        /\ cPc[c] = "results" /\ cPc'[c] \in {"loop", "failed"}
    BY <1>12, <1>g, <1>f DEF ClientGetResults
  <2> QED
    BY <1>q, <2>1
<1>13. CASE iperf_client_end(c)
    BY <1>13, <1>g, <1>w, <1>q DEF iperf_client_end
<1>14. CASE ClientRefused(c)
  <2>1. /\ UNCHANGED <<up, sEnd, backlog, cOpt, cStreams, srvVars>>
        /\ cPc'[c] = "failed"
    BY <1>14, <1>f, Zenon DEF ClientRefused
  <2> QED
    BY <1>q, <2>1
<1>15. CASE ClientEOF(c)
    BY <1>15, <1>f, <1>q DEF ClientEOF
<1>16. CASE ClientReset(c)
    BY <1>16, <1>f, <1>q DEF ClientReset
<1>17. CASE iperf_got_sigend_client(c)
    BY <1>17, <1>g, <1>w, <1>q DEF iperf_got_sigend_client
<1>18. CASE ClientCrash(c)
  <2>1. /\ UNCHANGED <<up, sEnd, backlog, cOpt, cStreams, srvVars>>
        /\ cPc'[c] = "killed"
    BY <1>18, <1>t DEF ClientCrash
  <2> QED
    BY <1>q, <2>1
<1> QED
    BY <1>1, <1>2, <1>3, <1>4, <1>5, <1>6, <1>7, <1>8, <1>9, <1>10, <1>11, <1>12, <1>13,
       <1>14, <1>15, <1>16, <1>17, <1>18
       DEF ClientStep, ClientFault, ClientConnectRefused

\* Every step of a client keeps the whole of it.
LEMMA ClientPhaseStep ==
    ASSUME TypeInv, PhaseInv, NEW c \in Clients, ClientStep(c) \/ ClientFault(c)
    PROVE  PhaseInv'
<1>1. UNCHANGED <<cOpt, srvVars>>
    BY Zenon DEF ClientStep, ClientFault, iperf_connect, iperf_connect_cookie, ClientParamExchange,
       ClientCreateStreams, iperf_tcp_connect, iperf_create_streams, ClientConnectRefused,
       ClientConnectError, ClientTestPhase, ClientTestEnd, ClientStreamError,
       ClientExchangeResults, ClientGetResults, iperf_client_end, ClientRefused, ClientEOF,
       ClientReset, iperf_got_sigend_client, ClientCrash
<1>2. Conversation'
    BY <1>1, ClientTalks, OthersApart, ClientMoves DEF PhaseInv
<1> QED
    BY <1>2, ClientKeepsSides DEF PhaseInv

-----------------------------------------------------------------------------
(* Steps of the server. *)

\* A client the server neither reads from nor writes to stays where it is.
LEMMA UntouchedTalk ==
    ASSUME Conversation, UNCHANGED <<cEnd, cliVars>>, NEW d \in Clients,
           down'[Ctrl(d)] = down[Ctrl(d)],
           sEnd[Ctrl(d)] = "closed" => sEnd'[Ctrl(d)] = "closed",
           \/ sEnd'[Ctrl(d)] = "closed"
           \/ /\ up'[Ctrl(d)] = up[Ctrl(d)]
              /\ \/ UNCHANGED <<sCtrl, sState>>
                 \/ Ctrl(d) \notin {sCtrl, sCtrl'}
                 \/ sState = "IPERF_START" /\ sState' = "IPERF_START"
    PROVE  \E q \in Place, n \in 0..7 : Talk(d, q, n)'
<1>1. PICK p \in Place, m \in 0..7 : Talk(d, p, m)
    BY DEF Conversation
<1>2. ASSUME sEnd'[Ctrl(d)] # "closed"
      PROVE  /\ up'[Ctrl(d)] = up[Ctrl(d)]
             /\ (ReadFrom(d))' = ReadFrom(d) /\ (SentTo(d))' = SentTo(d)
             /\ sCtrl = Ctrl(d) /\ sState = "PARAM_EXCHANGE" => UNCHANGED <<sCtrl, sState>>
    BY <1>2 DEF ReadFrom, SentTo, SrvRead, SrvSent
<1>3. Talk(d, p, m)'
    BY <1>1, <1>2, TalkStays DEF cliVars
<1> QED
    BY <1>3

\* A last word on a connection that is closed with it.
LEMMA DismissedTalk ==
    ASSUME TypeInv, Conversation, UNCHANGED <<cEnd, cliVars>>, NEW d \in Clients,
           sEnd[Ctrl(d)] = "open", sEnd'[Ctrl(d)] = "closed",
           NEW t \in Final, down'[Ctrl(d)] = down[Ctrl(d)] \o <<Msg(t)>>
    PROVE  \E q \in Place, n \in 0..7 : Talk(d, q, n)'
<1>1. PICK p \in Place, m \in 0..7 : Talk(d, p, m)
    BY DEF Conversation
<1>2. Msg(t) \in Message /\ Msg(t).t \in Final
    BY MsgType DEF Msg, Final, State
<1>3. Told(d, p, m)'
    BY <1>1, <1>2, LastWordSaid DEF Talk, cliVars
<1>4. (AllIds(cOpt[d]))' = AllIds(cOpt[d])
    BY DEF AllIds, cliVars
<1>5. At(d, p)' /\ Made(d, p)'
    BY <1>1, <1>4 DEF Talk, At, Made, cliVars
<1>6. Talk(d, p, m)'
    BY <1>3, <1>5 DEF Talk
<1> QED
    BY <1>6

\* The server goes on to its next stage with the client of its test.
LEMMA HolderTalk ==
    ASSUME TypeInv, UNCHANGED <<cEnd, cliVars>>, NEW c \in Clients,
           NEW p \in Place, NEW m \in 0..7, NEW n \in 0..7, Talk(c, p, m),
           sEnd[Ctrl(c)] = "open", sEnd'[Ctrl(c)] = "open",
           NEW ms \in Seq(Message), n = m + Len(ms), NextWords(c, m, ms),
           down'[Ctrl(c)] = down[Ctrl(c)] \o ms,
           (SentTo(c))' = n, Asked(c, p)', n >= 5 => p >= 6, n = 7 => p >= 7
    PROVE  \E q \in Place, i \in 0..7 : Talk(c, q, i)'
<1>1. Told(c, p, n)'
    BY WriteKeepsTold DEF Talk, cliVars
<1>2. (AllIds(cOpt[c]))' = AllIds(cOpt[c])
    BY DEF AllIds, cliVars
<1>3. At(c, p)' /\ Made(c, p)'
    BY <1>2 DEF Talk, At, Made, cliVars
<1>4. Talk(c, p, n)'
    BY <1>1, <1>3 DEF Talk
<1> QED
    BY <1>4

\* What the server can see of a connection it waits on.
LEMMA HolderFacts ==
    ASSUME TypeInv, PhaseInv, NEW c \in Clients, sCtrl = Ctrl(c), sEnd[sCtrl] = "open"
    PROVE  \E p \in Place, m \in 0..7 :
               /\ Talk(c, p, m) /\ m = SrvSent /\ Asked(c, p)
               /\ SentTo(c) = SrvSent /\ ReadFrom(c) = SrvRead
BY DEF PhaseInv, Conversation, Talk, SentTo, ReadFrom

\* On a stream the server can only find cookies.
LEMMA StreamCookie ==
    ASSUME TypeInv, PhaseInv, NEW k \in Conns, \A c \in Clients : k # Ctrl(c), NEW t, t # "COOKIE"
    PROVE  ~ServerFinds(k, t)
<1>1. up[k] \in Seq(Message)
    BY DEF TypeInv, TypeOK
<1>2. up[k] # <<>> => 1 \in DOMAIN up[k] /\ Head(up[k]) = up[k][1]
    BY <1>1
<1> QED
    BY <1>2 DEF PhaseInv, StreamsCarryCookies, ServerFinds

\* In the loop of a test the server finds TEST_END while the test runs, IPERF_DONE
\* when the results were shown, or CLIENT_TERMINATE, and nothing else.
LEMMA ServerMeets ==
    ASSUME TypeInv, PhaseInv, SelectOk, sCtrl # NoConn, up[sCtrl] # <<>>
    PROVE  \E c \in Clients, p \in Place, m \in 0..7 :
               /\ sCtrl = Ctrl(c) /\ sEnd[sCtrl] = "open"
               /\ Talk(c, p, m) /\ m = SrvSent /\ Asked(c, p)
               /\ SentTo(c) = SrvSent /\ ReadFrom(c) = SrvRead
               /\ \/ /\ Head(up[sCtrl]).t = "TEST_END" /\ sState = "TEST_RUNNING"
                     /\ SrvRead < HasSent(p) /\ p >= 6
                  \/ /\ Head(up[sCtrl]).t = "IPERF_DONE" /\ sState = "DISPLAY_RESULTS"
                  \/ /\ Head(up[sCtrl]).t = "CLIENT_TERMINATE"
<1>1. /\ sCtrl = Ctrl(Owner(sCtrl)) /\ Owner(sCtrl) \in Clients /\ sEnd[sCtrl] = "open"
      /\ sState \in {"CREATE_STREAMS", "TEST_RUNNING", "DISPLAY_RESULTS"}
    BY OwnerIsClient DEF PhaseInv, ServerStage, SelectOk, Stages, TypeInv, TypeOK
<1> DEFINE c == Owner(sCtrl)
<1>2. PICK p \in Place, m \in 0..7 :
          /\ Talk(c, p, m) /\ m = SrvSent /\ Asked(c, p)
          /\ SentTo(c) = SrvSent /\ ReadFrom(c) = SrvRead
    BY <1>1, HolderFacts
<1>3. \/ /\ SrvRead < HasSent(p)
         /\ Head(up[sCtrl]).t = UpScript[SrvRead + 1]
      \/ Head(up[sCtrl]).t = "CLIENT_TERMINATE"
    BY <1>1, <1>2, NextMessage
<1>4. HasRead(p) <= SrvSent
    BY <1>2 DEF Talk, Told
<1>5. CASE SrvRead < HasSent(p) /\ Head(up[sCtrl]).t = UpScript[SrvRead + 1]
  <2>1. CASE sState = "CREATE_STREAMS"
    BY <1>4, <1>5, <2>1 DEF SrvRead, SrvSent, HasRead, HasSent, Place
  <2>2. CASE sState = "TEST_RUNNING"
    <3>1. Head(up[sCtrl]).t = "TEST_END" /\ p >= 6
      BY <1>5, <2>2 DEF SrvRead, HasSent, UpScript, Place
    <3> QED
      BY <1>1, <1>2, <1>5, <2>2, <3>1
  <2>3. CASE sState = "DISPLAY_RESULTS"
    <3>1. Head(up[sCtrl]).t = "IPERF_DONE"
      BY <1>5, <2>3 DEF SrvRead, UpScript
    <3> QED
      BY <1>1, <1>2, <2>3, <3>1
  <2> QED
    BY <1>1, <2>1, <2>2, <2>3
<1>6. CASE Head(up[sCtrl]).t = "CLIENT_TERMINATE"
    BY <1>1, <1>2, <1>6
<1> QED
    BY <1>3, <1>5, <1>6

\* Sockets nobody opened stay so, and that is all Fresh is about.
LEMMA FreshKept ==
    ASSUME TypeInv, Fresh, UNCHANGED cliVars,
           \A k \in Conns : sEnd[k] = "none" => sEnd'[k] = "none"
    PROVE  Fresh'
<1>1. \A c \in Clients : Ctrl(c) \in Conns /\ \A n \in 1..(2 * MaxStreams) : <<c, n>> \in Conns
    BY CtrlConn, ControlAssumption DEF Conns
<1> QED
    BY <1>1 DEF Fresh, cliVars

\* What the server reads of a stream leaves nothing but cookies.
LEMMA CookiesRead ==
    ASSUME TypeInv, StreamsCarryCookies,
           \A k \in Conns : \/ up'[k] = up[k] \/ up'[k] = <<>>
                            \/ up[k] # <<>> /\ up'[k] = Tail(up[k])
    PROVE  StreamsCarryCookies'
<1> SUFFICES ASSUME NEW k \in Conns, \A c \in Clients : k # Ctrl(c), NEW i \in DOMAIN up'[k]
             PROVE  up'[k][i].t = "COOKIE"
    BY DEF StreamsCarryCookies
<1>0. \A j \in DOMAIN up[k] : up[k][j].t = "COOKIE"
    BY DEF StreamsCarryCookies
<1>1. CASE up'[k] = up[k]
    BY <1>0, <1>1
<1>2. CASE up'[k] = <<>>
    BY <1>2
<1>3. CASE up[k] # <<>> /\ up'[k] = Tail(up[k])
  <2>1. up[k] \in Seq(Message)
    BY DEF TypeInv, TypeOK
  <2>2. i + 1 \in DOMAIN up[k] /\ up'[k][i] = up[k][i + 1]
    BY <1>3, <2>1
  <2> QED
    BY <1>0, <2>2
<1> QED
    BY <1>1, <1>2, <1>3

\* ServerReads takes at most one message of one connection.
LEMMA ReadsOne ==
    ASSUME TypeInv, NEW j \in Conns, ServerReads(j)
    PROVE  /\ \A k \in Conns : \/ up'[k] = up[k] \/ up'[k] = <<>>
                               \/ up[k] # <<>> /\ up'[k] = Tail(up[k])
           /\ \A k \in Conns : k # j => up'[k] = up[k]
           /\ up[j] # <<>> => up'[j] = Tail(up[j])
           /\ up[j] = <<>> => up'[j] = up[j]
BY DEF ServerReads, TypeInv, TypeOK

\* ServerSend writes to one connection.
LEMMA SendsOne ==
    ASSUME TypeInv, NEW j \in Conns, NEW ms, ServerSend(j, ms)
    PROVE  /\ down'[j] = down[j] \o ms
           /\ \A k \in Conns : k # j => down'[k] = down[k]
BY DEF ServerSend, TypeInv, TypeOK

\* The streams' sockets are sockets.
LEMMA StreamSockets ==
    ASSUME TypeInv
    PROVE  /\ ConnsOf(sStreams) \subseteq Conns /\ Queued \subseteq Conns
           /\ \A n \in DOMAIN sStreams : sStreams[n].conn \in Conns /\ sStreams[n].conn \in ConnsOf(sStreams)
           /\ \A k \in ConnsOf(sStreams) : \E n \in DOMAIN sStreams : k = sStreams[n].conn
<1>1. sStreams \in Seq(Stream) /\ backlog \in Seq(Conns)
    BY DEF TypeInv, TypeOK
<1>2. \A n \in DOMAIN sStreams : sStreams[n] \in Stream
    BY <1>1
<1>3. \A n \in DOMAIN backlog : backlog[n] \in Conns
    BY <1>1
<1> QED
    BY <1>2, <1>3 DEF ConnsOf, Queued, Stream

\* Closing connections the server knows.
LEMMA CloseKnown ==
    ASSUME TypeInv, Known, NEW S, S \subseteq Queued \cup {sCtrl} \cup ConnsOf(sStreams),
           ServerClose(S)
    PROVE  /\ \A k \in Conns : sEnd[k] = "none" => sEnd'[k] = "none"
           /\ \A k \in Conns : sEnd'[k] \in {sEnd[k], "closed"}
           /\ \A k \in Conns : k \in S => sEnd'[k] = "closed"
           /\ \A k \in Conns : k \notin S => sEnd'[k] = sEnd[k]
<1>1. /\ \A k \in Conns : k \in S => sEnd'[k] = "closed"
      /\ \A k \in Conns : k \notin S => sEnd'[k] = sEnd[k]
    BY DEF ServerClose
<1>2. \A k \in Conns : k \in S => sEnd[k] # "none"
    BY StreamSockets, CtrlDistinct DEF Known
<1> QED
    BY <1>1, <1>2

\* The backlog without its first connection.
LEMMA BacklogNext ==
    ASSUME TypeInv, Known, backlog # <<>>, backlog' = Tail(backlog)
    PROVE  /\ Head(backlog) \in Queued /\ Head(backlog) \in Conns
           /\ Queued' \subseteq Queued /\ Head(backlog) \notin Queued'
           /\ \A i, j \in DOMAIN backlog' : backlog'[i] = backlog'[j] => i = j
<1>1. backlog \in Seq(Conns) /\ 1 \in DOMAIN backlog /\ Head(backlog) = backlog[1]
    BY DEF TypeInv, TypeOK
<1>2. \A i \in DOMAIN Tail(backlog) :
          i \in Nat /\ i + 1 \in DOMAIN backlog /\ i + 1 # 1 /\ Tail(backlog)[i] = backlog[i + 1]
    BY <1>1
<1>3. \A i, j \in DOMAIN backlog : backlog[i] = backlog[j] => i = j
    BY DEF Known
<1>4. Head(backlog) \in Queued /\ Queued' \subseteq Queued
    BY BacklogShrinks
<1>5. Head(backlog) \notin Queued'
    BY <1>1, <1>2, <1>3 DEF Queued
<1>6. ASSUME NEW i \in DOMAIN backlog', NEW j \in DOMAIN backlog', backlog'[i] = backlog'[j]
      PROVE  i = j
  <2>1. i + 1 = j + 1 /\ i \in Nat /\ j \in Nat
    BY <1>2, <1>3, <1>6
  <2> QED
    BY <2>1
<1> QED
    BY <1>1, <1>4, <1>5, <1>6

\* A test ends: cleanup_server closes the control connection and what waits, so
\* nothing is left of the conversations that the next test could misread.
LEMMA CleanupKeeps ==
    ASSUME TypeInv, PhaseInv, sCtrl # NoConn, NEW S, S \subseteq ConnsOf(sStreams),
           NEW err, err \notin {"IEMESSAGE", "IESTREAMID"}, cleanup_server(S, err),
           UNCHANGED <<cEnd, cliVars, sCtrl, sStreams, sDone>>,
           \A k \in Conns : k # sCtrl => up'[k] = up[k],
           \/ up'[sCtrl] = up[sCtrl]
           \/ up[sCtrl] # <<>> /\ up'[sCtrl] = Tail(up[sCtrl]),
           \/ down' = down
           \/ sEnd[sCtrl] = "open" /\ \E t \in Final : ServerSend(sCtrl, <<Msg(t)>>),
           err \in {"none", "IECLIENTTERM"} => sDone \/ S = ConnsOf(sStreams)
    PROVE  PhaseInv'
<1>t. /\ Conversation /\ Known /\ Fresh /\ StreamsCarryCookies /\ ServerStage
      /\ sCtrl \in Conns /\ S \cup {sCtrl} \cup Queued \subseteq Queued \cup {sCtrl} \cup ConnsOf(sStreams)
    BY DEF PhaseInv, TypeInv, TypeOK
<1>c. /\ ServerClose(S \cup {sCtrl} \cup Queued) /\ backlog' = <<>> /\ sPc' = "ended" /\ sErr' = err
      /\ sTimer' = FALSE
    BY DEF cleanup_server
<1>1. /\ \A k \in Conns : sEnd[k] = "none" => sEnd'[k] = "none"
      /\ \A k \in Conns : sEnd'[k] \in {sEnd[k], "closed"}
      /\ \A k \in Conns : k \in S \cup {sCtrl} \cup Queued => sEnd'[k] = "closed"
    BY <1>c, <1>t, CloseKnown
<1>2. Fresh'
    BY <1>1, <1>t, FreshKept
<1>3. StreamsCarryCookies'
    BY <1>t, CookiesRead
<1>4. Queued' = {}
    BY <1>c DEF Queued
<1>5. \A n \in DOMAIN sStreams : /\ sStreams[n].conn \in Conns
                                 /\ sStreams[n].conn \in ConnsOf(sStreams)
                                 /\ sEnd'[sStreams[n].conn] \in {sEnd[sStreams[n].conn], "closed"}
    BY <1>1, StreamSockets
<1>6. Known'
    BY <1>1, <1>4, <1>5, <1>c, <1>t DEF Known
<1>7. ServerStage'
    BY <1>5, <1>c, <1>t DEF ServerStage
<1>8. StreamsReleased'
  <2>1. CASE sDone
    BY <1>5, <1>t, <2>1 DEF StreamsReleased, ServerStage
  <2>2. CASE S = ConnsOf(sStreams)
    BY <1>1, <1>5, <2>2 DEF StreamsReleased
  <2>3. CASE ~sDone /\ err \notin {"none", "IECLIENTTERM"}
    BY <1>c, <2>3 DEF StreamsReleased
  <2> QED
    BY <2>1, <2>2, <2>3
<1>9. Conversation'
  <2> SUFFICES ASSUME NEW d \in Clients
               PROVE  \E q \in Place, n \in 0..7 : Talk(d, q, n)'
    BY DEF Conversation
  <2>1. Ctrl(d) \in Conns
    BY CtrlConn
  <2>2. CASE Ctrl(d) # sCtrl
    <3>1. down'[Ctrl(d)] = down[Ctrl(d)]
      BY <1>t, <2>1, <2>2, SendsOne
    <3> QED
      BY <1>1, <1>t, <2>1, <2>2, <3>1, UntouchedTalk
  <2>3. CASE Ctrl(d) = sCtrl /\ down' = down
    BY <1>1, <1>t, <2>1, <2>3, UntouchedTalk
  <2>4. CASE Ctrl(d) = sCtrl /\ sEnd[sCtrl] = "open" /\ \E t \in Final : ServerSend(sCtrl, <<Msg(t)>>)
    <3>1. PICK t \in Final : down'[Ctrl(d)] = down[Ctrl(d)] \o <<Msg(t)>>
      BY <1>t, <2>4, SendsOne
    <3> QED
      BY <1>1, <1>t, <2>1, <2>4, <3>1, DismissedTalk
  <2> QED
    BY <2>2, <2>3, <2>4
<1> QED
    BY <1>2, <1>3, <1>6, <1>7, <1>8, <1>9 DEF PhaseInv

\* iperf_accept on a free server.
LEMMA AcceptKeeps ==
    ASSUME TypeInv, PhaseInv, NEW k \in Conns, iperf_accept(k)
    PROVE  PhaseInv'
<1>t. /\ Conversation /\ Known /\ Fresh /\ StreamsCarryCookies /\ ServerStage
    BY DEF PhaseInv
<1>1. /\ sPc = "loop" /\ sCtrl = NoConn /\ sCtrl' = k /\ sPc' = "cookie" /\ backlog # <<>>
      /\ k = Head(backlog) /\ backlog' = Tail(backlog)
      /\ UNCHANGED <<up, down, cEnd, sEnd, cliVars, sState, sCookie, sOpt, sStreams, sDone, sTimer, sErr>>
    BY DEF iperf_accept, SelectOk
<1>2. sState = "IPERF_START" /\ sStreams = <<>> /\ ~sDone
    BY <1>1, <1>t DEF ServerStage
<1>3. /\ k \in Queued /\ Queued' \subseteq Queued /\ k \notin Queued'
      /\ \A i, j \in DOMAIN backlog' : backlog'[i] = backlog'[j] => i = j
    BY <1>1, <1>t, BacklogNext
<1>4. k # NoConn /\ sEnd[k] = "open"
    BY <1>3, <1>t, CtrlDistinct DEF Known
<1>5. Known'
    BY <1>1, <1>2, <1>3, <1>4, <1>t DEF Known
<1>6. Fresh' /\ StreamsCarryCookies'
    BY <1>1, <1>t, FreshKept DEF StreamsCarryCookies
<1>7. ServerStage' /\ StreamsReleased'
    BY <1>1, <1>2, <1>4, <1>t DEF ServerStage, Stages, StreamsReleased
<1>8. Conversation'
    BY <1>1, <1>2, <1>t, UntouchedTalk DEF Conversation
<1> QED
    BY <1>5, <1>6, <1>7, <1>8 DEF PhaseInv

\* iperf_accept on a server that runs a test.
LEMMA BusyKeeps ==
    ASSUME TypeInv, PhaseInv, NEW k \in Conns, iperf_accept_busy(k)
    PROVE  PhaseInv'
<1>t. /\ Conversation /\ Known /\ Fresh /\ StreamsCarryCookies /\ ServerStage
    BY DEF PhaseInv
<1>1. /\ sPc = "loop" /\ sCtrl # NoConn /\ backlog # <<>>
      /\ k = Head(backlog) /\ backlog' = Tail(backlog)
      /\ ServerSend(k, <<Msg("ACCESS_DENIED")>>) /\ ServerClose({k})
      /\ UNCHANGED <<up, cEnd, cliVars, srvVars>>
    BY DEF iperf_accept_busy, SelectOk
<1>s. UNCHANGED <<sPc, sState, sCtrl, sCookie, sOpt, sStreams, sPend, sDone, sTimer, sErr>>
    BY <1>1 DEF srvVars
<1>2. /\ k \in Queued /\ Queued' \subseteq Queued /\ k \notin Queued'
      /\ \A i, j \in DOMAIN backlog' : backlog'[i] = backlog'[j] => i = j
    BY <1>1, <1>t, BacklogNext
<1>3. sEnd[k] = "open" /\ k # sCtrl /\ sCtrl \in Conns
    BY <1>1, <1>2, <1>t DEF Known, TypeInv, TypeOK
<1>4. /\ \A j \in Conns : sEnd[j] = "none" => sEnd'[j] = "none"
      /\ \A j \in Conns : sEnd'[j] \in {sEnd[j], "closed"}
      /\ sEnd'[k] = "closed"
      /\ \A j \in Conns : j # k => sEnd'[j] = sEnd[j]
    BY <1>1, <1>2, <1>t, CloseKnown
<1>5. \A n \in DOMAIN sStreams : /\ sStreams[n].conn \in Conns
                                 /\ sEnd'[sStreams[n].conn] \in {sEnd[sStreams[n].conn], "closed"}
    BY <1>4, StreamSockets
<1>6. Known'
    BY <1>1, <1>s, <1>2, <1>3, <1>4, <1>5, <1>t, StreamSockets DEF Known
<1>7. Fresh' /\ StreamsCarryCookies'
    BY <1>1, <1>4, <1>t, FreshKept DEF StreamsCarryCookies
<1>8. ServerStage' /\ StreamsReleased'
    BY <1>1, <1>s, <1>3, <1>4, <1>5, <1>t DEF ServerStage, StreamsReleased, cliVars
<1>9. Conversation'
  <2> SUFFICES ASSUME NEW d \in Clients
               PROVE  \E q \in Place, n \in 0..7 : Talk(d, q, n)'
    BY DEF Conversation
  <2>1. Ctrl(d) \in Conns
    BY CtrlConn
  <2>2. CASE Ctrl(d) # k
    BY <1>1, <1>s, <1>4, <1>t, <2>1, <2>2, SendsOne, UntouchedTalk
  <2>3. CASE Ctrl(d) = k
    BY <1>1, <1>3, <1>4, <1>t, <2>1, <2>3, SendsOne, DismissedTalk DEF Final
  <2> QED
    BY <2>2, <2>3
<1> QED
    BY <1>6, <1>7, <1>8, <1>9 DEF PhaseInv

\* A stream with another cookie is turned away.
LEMMA DenyKeeps ==
    ASSUME TypeInv, PhaseInv, DenyStream
    PROVE  PhaseInv'
<1>t. /\ Conversation /\ Known /\ Fresh /\ StreamsCarryCookies /\ ServerStage
    BY DEF PhaseInv
<1>1. /\ sPc = "streamCookie" /\ sPc' = "loop"
      /\ ServerSend(sPend, <<Msg("ACCESS_DENIED")>>) /\ ServerClose({sPend})
      /\ UNCHANGED <<up, cEnd, backlog, cliVars, sState, sCtrl, sCookie, sOpt, sStreams, sDone, sTimer, sErr>>
    BY DEF DenyStream
<1>2. sCtrl # NoConn /\ sCtrl \in Conns /\ sPend \in Conns
    BY <1>1 DEF TypeInv, TypeOK, WaitsOnSocket
<1>3. sEnd[sPend] = "open" /\ sPend # sCtrl /\ sPend \notin Queued /\ Queued' = Queued
    BY <1>1, <1>t DEF Known, Queued
<1>4. /\ sEnd'[sPend] = "closed"
      /\ \A j \in Conns : j # sPend => sEnd'[j] = sEnd[j]
    BY <1>1, <1>2 DEF ServerClose
<1>5. \A n \in DOMAIN sStreams : /\ sStreams[n].conn \in Conns
                                 /\ sEnd'[sStreams[n].conn] \in {sEnd[sStreams[n].conn], "closed"}
    BY <1>4, StreamSockets
<1>6. Known'
    BY <1>1, <1>2, <1>3, <1>4, <1>5, <1>t, StreamSockets DEF Known
<1>7. Fresh' /\ StreamsCarryCookies'
    BY <1>1, <1>3, <1>4, <1>t, FreshKept DEF StreamsCarryCookies
<1>8. ServerStage' /\ StreamsReleased'
    BY <1>1, <1>2, <1>3, <1>4, <1>5, <1>t DEF ServerStage, StreamsReleased, Stages, cliVars
<1>9. Conversation'
  <2> SUFFICES ASSUME NEW d \in Clients
               PROVE  \E q \in Place, n \in 0..7 : Talk(d, q, n)'
    BY DEF Conversation
  <2>1. Ctrl(d) \in Conns
    BY CtrlConn
  <2>2. CASE Ctrl(d) # sPend
    BY <1>1, <1>2, <1>4, <1>t, <2>1, <2>2, SendsOne, UntouchedTalk
  <2>3. CASE Ctrl(d) = sPend
    BY <1>1, <1>2, <1>3, <1>4, <1>t, <2>1, <2>3, SendsOne, DismissedTalk DEF Final
  <2> QED
    BY <2>2, <2>3
<1> QED
    BY <1>6, <1>7, <1>8, <1>9 DEF PhaseInv

\* iperf_tcp_accept takes the next connection.
LEMMA TcpAcceptKeeps ==
    ASSUME TypeInv, PhaseInv, iperf_tcp_accept
    PROVE  PhaseInv'
<1>t. /\ Conversation /\ Known /\ Fresh /\ StreamsCarryCookies /\ ServerStage
    BY DEF PhaseInv
<1>1. /\ sPc = "loop" /\ sPc' = "streamCookie" /\ sState = "CREATE_STREAMS"
      /\ sCtrl # NoConn => sEnd[sCtrl] = "open"
      /\ backlog # <<>> /\ sPend' = Head(backlog) /\ backlog' = Tail(backlog)
      /\ UNCHANGED <<up, down, cEnd, sEnd, cliVars, sState, sCtrl, sCookie, sOpt, sStreams, sDone, sTimer, sErr>>
    BY DEF iperf_tcp_accept, SelectOk
<1>2. sCtrl # NoConn
    BY <1>1 DEF TypeInv, WaitsOnSocket
<1>3. /\ Head(backlog) \in Queued /\ Queued' \subseteq Queued /\ Head(backlog) \notin Queued'
      /\ \A i, j \in DOMAIN backlog' : backlog'[i] = backlog'[j] => i = j
    BY <1>1, <1>t, BacklogNext
<1>4. Known'
    BY <1>1, <1>2, <1>3, <1>t DEF Known
<1>5. Fresh' /\ StreamsCarryCookies'
    BY <1>1, <1>t, FreshKept DEF StreamsCarryCookies
<1>6. ServerStage' /\ StreamsReleased'
    BY <1>1, <1>2, <1>t DEF ServerStage, StreamsReleased, Stages, cliVars
<1>7. Conversation'
    BY <1>1, <1>t, UntouchedTalk DEF Conversation
<1> QED
    BY <1>4, <1>5, <1>6, <1>7 DEF PhaseInv

\* One state byte is the next of the script.
LEMMA NextState ==
    ASSUME NEW c \in Clients, NEW m \in 0..4, NEW t \in State, t = DownScript[m + 1]
    PROVE  /\ <<Msg(t)>> \in Seq(Message) /\ Len(<<Msg(t)>>) = 1
           /\ NextWords(c, m, <<Msg(t)>>)
<1>1. Msg(t) \in Message /\ Msg(t).t = t
    BY MsgType DEF Msg
<1>2. ASSUME NEW j \in 1..1
      PROVE  /\ <<Msg(t)>>[j].t = DownScript[m + j]
             /\ m + j = 6 => <<Msg(t)>>[j].ids = AllIds(cOpt[c])
    BY <1>1, <1>2
<1>3. <<Msg(t)>> \in Seq(Message) /\ Len(<<Msg(t)>>) = 1
    BY <1>1
<1> QED
    BY <1>2, <1>3 DEF NextWords

\* The cookie of a client, or the end of its connection, makes it the client of a test.
LEMMA CookieKeeps ==
    ASSUME TypeInv, PhaseInv, iperf_accept_cookie
    PROVE  PhaseInv'
<1>t. /\ Conversation /\ Known /\ Fresh /\ StreamsCarryCookies /\ ServerStage
      /\ up \in [Conns -> Seq(Message)]
    BY DEF PhaseInv, TypeInv, TypeOK
<1>1. /\ sPc = "cookie" /\ sPc' = "params" /\ sState' = "PARAM_EXCHANGE"
      /\ ServerSend(sCtrl, <<Msg("PARAM_EXCHANGE")>>)
      /\ UNCHANGED <<cEnd, sEnd, backlog, cliVars, sCtrl, sOpt, sStreams, sPend, sDone, sTimer, sErr>>
    BY DEF iperf_accept_cookie
<1>2. sCtrl # NoConn /\ sCtrl \in Conns
    BY <1>1 DEF TypeInv, TypeOK, WaitsOnSocket
<1>3. sState = "IPERF_START" /\ sEnd[sCtrl] = "open"
    BY <1>1, <1>2, <1>t DEF ServerStage, Stages
<1>4. \/ /\ ServerFinds(sCtrl, "COOKIE") /\ ServerReads(sCtrl) /\ sCookie' = Owner(sCtrl)
      \/ /\ ~ServerFinds(sCtrl, "COOKIE") /\ cEnd[sCtrl] = "closed"
         /\ up' = [up EXCEPT ![sCtrl] = <<>>] /\ sCookie' = NoClient
    BY DEF iperf_accept_cookie
<1>5. /\ \A k \in Conns : k # sCtrl => up'[k] = up[k]
      /\ \A k \in Conns : \/ up'[k] = up[k] \/ up'[k] = <<>>
                          \/ up[k] # <<>> /\ up'[k] = Tail(up[k])
    BY <1>2, <1>4, <1>t, ReadsOne
<1>6. Queued' = Queued
    BY <1>1 DEF Queued
<1>7. Known'
    BY <1>1, <1>2, <1>6, <1>t DEF Known
<1>8. Fresh' /\ StreamsCarryCookies'
    BY <1>1, <1>5, <1>t, FreshKept, CookiesRead
<1>9. ServerStage' /\ StreamsReleased'
    BY <1>1, <1>2, <1>3, <1>4, <1>t DEF ServerStage, StreamsReleased, Stages
<1>10. Conversation'
  <2> SUFFICES ASSUME NEW d \in Clients
               PROVE  \E q \in Place, n \in 0..7 : Talk(d, q, n)'
    BY DEF Conversation
  <2>1. Ctrl(d) \in Conns
    BY CtrlConn
  <2>2. CASE Ctrl(d) # sCtrl
    BY <1>1, <1>2, <1>5, <1>t, <2>1, <2>2, SendsOne, UntouchedTalk
  <2>3. CASE Ctrl(d) = sCtrl
    <3>1. PICK p \in Place, m \in 0..7 :
              /\ Talk(d, p, m) /\ m = SrvSent /\ Asked(d, p)
              /\ SentTo(d) = SrvSent /\ ReadFrom(d) = SrvRead
      BY <1>3, <2>3, HolderFacts
    <3>2. m = 0 /\ ReadFrom(d) = 0 /\ (SentTo(d))' = 1 /\ (ReadFrom(d))' = 1
      BY <1>1, <1>3, <2>3, <3>1 DEF SrvSent, SrvRead, SentTo, ReadFrom
    <3>3. Asked(d, p)'
      <4>1. CASE ServerFinds(sCtrl, "COOKIE") /\ ServerReads(sCtrl)
        <5>1. up[Ctrl(d)] # <<>> /\ Head(up[Ctrl(d)]).t = "COOKIE" /\ up'[Ctrl(d)] = Tail(up[Ctrl(d)])
          BY <1>2, <2>3, <4>1, ReadsOne DEF ServerFinds
        <5>2. ReadFrom(d) < HasSent(p)
          BY <3>1, <5>1, NextMessage
        <5> QED
          BY <1>1, <3>1, <3>2, <5>1, <5>2, ServerTakes DEF cliVars
      <4>2. CASE ~ServerFinds(sCtrl, "COOKIE") /\ cEnd[sCtrl] = "closed"
                 /\ up' = [up EXCEPT ![sCtrl] = <<>>]
        <5>1. cPc[d] \in {"idle", "ended", "failed", "killed"}
          BY <2>3, <3>1, <4>2 DEF Talk, Made
        <5>2. cPc[d] # "idle"
          BY <1>3, <1>t, <2>3 DEF Fresh
        <5>3. HasSent(p) = 0
          <6>1. SUFFICES ASSUME HasSent(p) >= 1 PROVE FALSE
            BY PlaceType
          <6>2. 1 \in 1..(HasSent(p) - ReadFrom(d)) /\ p # 0
            BY <3>2, <6>1, PlaceType DEF HasSent
          <6>3. 1 \in DOMAIN up[Ctrl(d)] /\ up[Ctrl(d)][1].t = UpScript[0 + 1]
            BY <3>1, <3>2, <6>2 DEF Asked
          <6>4. up[Ctrl(d)] # <<>> /\ Head(up[Ctrl(d)]) = up[Ctrl(d)][1]
            BY <1>t, <2>1, <6>3
          <6> QED
            BY <2>3, <4>2, <6>3, <6>4 DEF ServerFinds, UpScript
        <5>4. p = 0 /\ cPc[d] \in {"failed", "killed"}
          BY <3>1, <5>1, <5>2, <5>3 DEF HasSent, Place, Talk, At, PcAt
        <5>5. up'[Ctrl(d)] = <<>>
          BY <1>2, <1>t, <2>3, <4>2
        <5> QED
          BY <1>1, <2>3, <5>4, <5>5 DEF Asked, cliVars
      <4> QED
        BY <1>4, <4>1, <4>2
    <3> DEFINE ms == <<Msg("PARAM_EXCHANGE")>>
    <3>4. ms \in Seq(Message) /\ Len(ms) = 1 /\ NextWords(d, 0, ms)
      BY NextState DEF State, DownScript
    <3>5. down'[Ctrl(d)] = down[Ctrl(d)] \o ms
      BY <1>1, <1>2, <2>3, SendsOne
    <3> DEFINE n == 1
    <3> HIDE DEF ms
    <3>6. NextWords(d, m, ms) /\ sEnd[Ctrl(d)] = "open" /\ sEnd'[Ctrl(d)] = "open"
      BY <1>1, <1>3, <2>3, <3>2, <3>4
    <3>7. n \in 0..7 /\ n = m + Len(ms) /\ ~(n >= 5) /\ n # 7 /\ (SentTo(d))' = n
      BY <3>2, <3>4
    <3>8. UNCHANGED <<cEnd, cliVars>> /\ Talk(d, p, m)
      BY <1>1, <3>1
    <3> HIDE DEF n
    <3> QED
      BY <3>3, <3>4, <3>5, <3>6, <3>7, <3>8, HolderTalk
  <2> QED
    BY <2>2, <2>3
<1> QED
    BY <1>7, <1>8, <1>9, <1>10 DEF PhaseInv

\* iperf_tcp_listen closes at most what waits.
LEMMA RelistenEffect ==
    ASSUME TypeInv, Known, NEW anew, iperf_tcp_listen(anew)
    PROVE  /\ \A k \in Conns : sEnd[k] = "none" => sEnd'[k] = "none"
           /\ \A k \in Conns : sEnd'[k] \in {sEnd[k], "closed"}
           /\ \A k \in Conns : k \notin Queued => sEnd'[k] = sEnd[k]
           /\ \A k \in Queued' : k \in Queued /\ sEnd'[k] = sEnd[k]
           /\ \A i, j \in DOMAIN backlog' : backlog'[i] = backlog'[j] => i = j
<1>1. CASE ServerClose(Queued) /\ backlog' = <<>>
  <2>1. Queued' = {} /\ DOMAIN backlog' = {}
    BY <1>1 DEF Queued
  <2> QED
    BY <1>1, <2>1, CloseKnown
<1>2. CASE UNCHANGED <<sEnd, backlog>>
    BY <1>2 DEF Known, Queued
<1> QED
    BY <1>1, <1>2 DEF iperf_tcp_listen

\* The parameters of the client of a test arrive.
LEMMA ParametersKeep ==
    ASSUME TypeInv, PhaseInv, iperf_exchange_parameters
    PROVE  PhaseInv'
<1>t. /\ Conversation /\ Known /\ Fresh /\ StreamsCarryCookies /\ ServerStage
    BY DEF PhaseInv
<1>1. /\ sPc = "params" /\ sPc' = "loop" /\ sState' = "CREATE_STREAMS"
      /\ ServerFinds(sCtrl, "PARAMS") /\ ServerReads(sCtrl) /\ sOpt' = cOpt[Owner(sCtrl)]
      /\ ServerSend(sCtrl, <<Msg("CREATE_STREAMS")>>)
      /\ iperf_tcp_listen(get_parameters(sCtrl).relisten)
      /\ UNCHANGED <<cEnd, cliVars, sCtrl, sCookie, sStreams, sPend, sDone, sTimer, sErr>>
    BY DEF iperf_exchange_parameters, get_parameters
<1>2. sCtrl # NoConn /\ sCtrl \in Conns /\ Owner(sCtrl) \in Clients
    BY <1>1, OwnerIsClient DEF TypeInv, TypeOK, WaitsOnSocket
<1>3. sState = "PARAM_EXCHANGE" /\ sEnd[sCtrl] = "open" /\ ~sDone
    BY <1>1, <1>2, <1>t DEF ServerStage, Stages
<1>4. PICK c \in Clients : sCtrl = Ctrl(c)
    BY <1>1, <1>2, StreamCookie
<1>5. sCtrl = Ctrl(Owner(sCtrl))
    BY <1>4, CtrlConn
<1>6. /\ \A k \in Conns : sEnd[k] = "none" => sEnd'[k] = "none"
      /\ \A k \in Conns : sEnd'[k] \in {sEnd[k], "closed"}
      /\ \A k \in Conns : k \notin Queued => sEnd'[k] = sEnd[k]
      /\ \A k \in Queued' : k \in Queued /\ sEnd'[k] = sEnd[k]
      /\ \A i, j \in DOMAIN backlog' : backlog'[i] = backlog'[j] => i = j
    BY <1>1, <1>t, RelistenEffect
<1>7. \A n \in DOMAIN sStreams : /\ sStreams[n].conn \in Conns
                                 /\ sEnd'[sStreams[n].conn] \in {sEnd[sStreams[n].conn], "closed"}
    BY <1>6, StreamSockets
<1>a. sEnd'[sCtrl] = "open"
    BY <1>2, <1>3, <1>6, <1>t DEF Known
<1>8. Known'
    BY <1>1, <1>2, <1>a, <1>6, <1>7, <1>t DEF Known
<1>b. /\ \A k \in Conns : \/ up'[k] = up[k] \/ up'[k] = <<>>
                          \/ up[k] # <<>> /\ up'[k] = Tail(up[k])
      /\ \A k \in Conns : k # sCtrl => up'[k] = up[k]
      /\ up[sCtrl] # <<>> /\ up'[sCtrl] = Tail(up[sCtrl])
    BY <1>1, <1>2, ReadsOne DEF ServerFinds
<1>9. Fresh' /\ StreamsCarryCookies'
    BY <1>1, <1>6, <1>b, <1>t, FreshKept, CookiesRead
<1>10. ServerStage' /\ StreamsReleased'
    BY <1>1, <1>2, <1>3, <1>5, <1>a, <1>t DEF ServerStage, StreamsReleased, Stages, cliVars
<1>11. Conversation'
  <2> SUFFICES ASSUME NEW d \in Clients
               PROVE  \E q \in Place, n \in 0..7 : Talk(d, q, n)'
    BY DEF Conversation
  <2>1. Ctrl(d) \in Conns
    BY CtrlConn
  <2>2. CASE Ctrl(d) # sCtrl
    BY <1>1, <1>2, <1>6, <1>b, <1>t, <2>1, <2>2, SendsOne, UntouchedTalk
  <2>3. CASE Ctrl(d) = sCtrl
    <3>1. PICK p \in Place, m \in 0..7 :
              /\ Talk(d, p, m) /\ m = SrvSent /\ Asked(d, p)
              /\ SentTo(d) = SrvSent /\ ReadFrom(d) = SrvRead
      BY <1>3, <2>3, HolderFacts
    <3>2. m = 1 /\ ReadFrom(d) = 1 /\ (SentTo(d))' = 2 /\ (ReadFrom(d))' = 2
      BY <1>1, <1>3, <2>3, <3>1 DEF SrvSent, SrvRead, SentTo, ReadFrom
    <3>3. ReadFrom(d) < HasSent(p)
      BY <1>1, <2>3, <3>1, NextMessage DEF ServerFinds
    <3>4. Asked(d, p)'
      BY <1>1, <1>b, <2>3, <3>1, <3>2, <3>3, ServerTakes DEF cliVars
    <3> DEFINE ms == <<Msg("CREATE_STREAMS")>>
    <3>5. ms \in Seq(Message) /\ Len(ms) = 1 /\ NextWords(d, 1, ms)
      BY NextState DEF State, DownScript
    <3>6. down'[Ctrl(d)] = down[Ctrl(d)] \o ms
      BY <1>1, <1>2, <2>3, SendsOne
    <3> DEFINE n == 2
    <3> HIDE DEF ms
    <3>7. NextWords(d, m, ms) /\ sEnd[Ctrl(d)] = "open" /\ sEnd'[Ctrl(d)] = "open"
      BY <1>1, <1>3, <1>a, <2>3, <3>2, <3>5
    <3>8. n \in 0..7 /\ n = m + Len(ms) /\ ~(n >= 5) /\ n # 7 /\ (SentTo(d))' = n
      BY <3>2, <3>5
    <3>9. UNCHANGED <<cEnd, cliVars>> /\ Talk(d, p, m)
      BY <1>1, <3>1
    <3> HIDE DEF n
    <3> QED
      BY <3>4, <3>5, <3>6, <3>7, <3>8, <3>9, HolderTalk
  <2> QED
    BY <2>2, <2>3
<1> QED
    BY <1>8, <1>9, <1>10, <1>11 DEF PhaseInv

\* The two bytes that start a test, and the two messages that end it, are the
\* next ones of the script.
LEMMA NextPair ==
    ASSUME NEW c \in Clients, NEW x \in Message, NEW y \in Message, NEW m \in 0..5,
           x.t = DownScript[m + 1], y.t = DownScript[m + 2],
           m = 5 => x.ids = AllIds(cOpt[c]), m # 4
    PROVE  /\ <<x, y>> \in Seq(Message) /\ Len(<<x, y>>) = 2
           /\ NextWords(c, m, <<x, y>>)
<1>1. <<x, y>> \in Seq(Message) /\ Len(<<x, y>>) = 2
    OBVIOUS
<1>2. ASSUME NEW j \in 1..2
      PROVE  /\ <<x, y>>[j].t = DownScript[m + j]
             /\ m + j = 6 => <<x, y>>[j].ids = AllIds(cOpt[c])
  <2>1. CASE j = 1
    BY <2>1
  <2>2. CASE j = 2
    BY <2>2
  <2> QED
    BY <2>1, <2>2
<1> QED
    BY <1>1, <1>2 DEF NextWords

\* iperf_tcp_accept adds a stream; with the last one the test starts and runs.
LEMMA AcceptStreamKeeps ==
    ASSUME TypeInv, PhaseInv, AcceptStream
    PROVE  PhaseInv'
<1> DEFINE x == [conn |-> sPend, sender |-> NextIsSender]
           all == Len(sStreams') = StreamsToRec(sOpt) + StreamsToSend(sOpt)
<1>t. /\ Conversation /\ Known /\ Fresh /\ StreamsCarryCookies /\ ServerStage
      /\ up \in [Conns -> Seq(Message)] /\ sStreams \in Seq(Stream)
      /\ \A n \in DOMAIN sStreams : sStreams[n].conn \in Conns
    BY StreamSockets DEF PhaseInv, TypeInv, TypeOK
<1>1. /\ sPc = "streamCookie" /\ sPc' = "loop" /\ sStreams' = Append(sStreams, x)
      /\ CookieMatches(sPend) \/ CookieLeftOver(sPend)
      /\ ServerReads(sPend) /\ iperf_tcp_listen(all /\ sOpt.relisten)
      /\ sState' = IF all THEN "TEST_RUNNING" ELSE sState
      /\ all => ServerSend(sCtrl, <<Msg("TEST_START"), Msg("TEST_RUNNING")>>)
      /\ ~all => down' = down
      /\ sDone' => sDone
      /\ UNCHANGED <<cEnd, cliVars, sCtrl, sCookie, sOpt, sErr>>
    BY DEF AcceptStream
<1> HIDE DEF x, all
<1>2. sCtrl # NoConn /\ sCtrl \in Conns /\ sPend \in Conns /\ Owner(sCtrl) \in Clients
    BY <1>1, OwnerIsClient DEF TypeInv, TypeOK, WaitsOnSocket
<1>3. /\ sEnd[sPend] = "open" /\ sPend # sCtrl /\ sPend \notin Queued
    BY <1>1, <1>t DEF Known
<1>4. /\ sState = "CREATE_STREAMS" /\ sEnd[sCtrl] = "open" /\ ~sDone
      /\ sCtrl = Ctrl(Owner(sCtrl)) /\ sOpt = cOpt[Owner(sCtrl)]
      /\ sCookie \in {Owner(sCtrl), NoClient}
    BY <1>1, <1>2, <1>t DEF ServerStage, Stages
<1>5. \A d \in Clients : Ctrl(d) = sPend => up[sPend] = <<>>
  <2>1. CASE CookieMatches(sPend)
    <3>1. Owner(sPend) = Owner(sCtrl)
      BY <1>2, <1>4, <2>1, OwnerIsClient, ControlAssumption DEF CookieMatches
    <3> QED
      BY <1>3, <1>4, <3>1, CtrlConn
  <2>2. CASE CookieLeftOver(sPend)
    BY <2>2 DEF CookieLeftOver
  <2> QED
    BY <1>1, <2>1, <2>2
<1>6. /\ \A k \in Conns : \/ up'[k] = up[k] \/ up'[k] = <<>>
                          \/ up[k] # <<>> /\ up'[k] = Tail(up[k])
      /\ \A d \in Clients : up'[Ctrl(d)] = up[Ctrl(d)]
    BY <1>1, <1>2, <1>5, ReadsOne, CtrlConn
<1>7. /\ \A k \in Conns : sEnd[k] = "none" => sEnd'[k] = "none"
      /\ \A k \in Conns : sEnd'[k] \in {sEnd[k], "closed"}
      /\ \A k \in Conns : k \notin Queued => sEnd'[k] = sEnd[k]
      /\ \A k \in Queued' : k \in Queued /\ sEnd'[k] = sEnd[k]
      /\ \A i, j \in DOMAIN backlog' : backlog'[i] = backlog'[j] => i = j
    BY <1>1, <1>t, RelistenEffect
<1>8. sEnd'[sCtrl] = "open" /\ sEnd'[sPend] = "open"
    BY <1>2, <1>3, <1>4, <1>7, <1>t DEF Known
<1>9. \A n \in DOMAIN sStreams' : \/ n \in DOMAIN sStreams /\ sStreams'[n] = sStreams[n]
                                  \/ sStreams'[n] = x
    BY <1>1, <1>t
<1>10. x.conn = sPend
    BY DEF x
<1>11. \A n \in DOMAIN sStreams' : /\ sStreams'[n].conn # sCtrl /\ sEnd'[sStreams'[n].conn] # "none"
                                   /\ sStreams'[n].conn \notin Queued'
  <2> TAKE n \in DOMAIN sStreams'
  <2>1. CASE sStreams'[n] = x
    BY <1>3, <1>7, <1>8, <1>10, <2>1
  <2>2. CASE n \in DOMAIN sStreams /\ sStreams'[n] = sStreams[n]
    BY <1>7, <1>t, <2>2 DEF Known
  <2> QED
    BY <1>9, <2>1, <2>2
<1>12. Known'
    BY <1>1, <1>2, <1>7, <1>8, <1>11, <1>t DEF Known
<1>13. Fresh' /\ StreamsCarryCookies'
    BY <1>1, <1>6, <1>7, <1>t, FreshKept, CookiesRead
<1>14. all => Len(sStreams') = StreamsTotal(sOpt)
  <2>1. sOpt \in Config
    BY DEF TypeInv, TypeOK
  <2> QED
    BY <2>1 DEF all, StreamsTotal, StreamsToRec, StreamsToSend, Config, Mode
<1>15. ServerStage' /\ StreamsReleased'
    BY <1>1, <1>2, <1>4, <1>8, <1>14, <1>t DEF ServerStage, StreamsReleased, Stages, cliVars
<1>16. Conversation'
  <2> SUFFICES ASSUME NEW d \in Clients
               PROVE  \E q \in Place, n \in 0..7 : Talk(d, q, n)'
    BY DEF Conversation
  <2>1. Ctrl(d) \in Conns
    BY CtrlConn
  <2>2. CASE Ctrl(d) # sCtrl \/ ~all
    <3>1. down'[Ctrl(d)] = down[Ctrl(d)]
      BY <1>1, <1>2, <2>1, <2>2, SendsOne
    <3>2. UNCHANGED <<sCtrl, sState>> \/ Ctrl(d) \notin {sCtrl, sCtrl'}
      BY <1>1, <2>2
    <3>3. sEnd'[Ctrl(d)] \in {sEnd[Ctrl(d)], "closed"} /\ up'[Ctrl(d)] = up[Ctrl(d)]
      BY <1>6, <1>7, <2>1
    <3> QED
      BY <1>1, <1>t, <3>1, <3>2, <3>3, UntouchedTalk
  <2>3. CASE Ctrl(d) = sCtrl /\ all
    <3>1. PICK p \in Place, m \in 0..7 :
              /\ Talk(d, p, m) /\ m = SrvSent /\ Asked(d, p)
              /\ SentTo(d) = SrvSent /\ ReadFrom(d) = SrvRead
      BY <1>4, <2>3, HolderFacts
    <3>2. m = 2 /\ ReadFrom(d) = 2 /\ (SentTo(d))' = 4 /\ (ReadFrom(d))' = 2
      BY <1>1, <1>4, <2>3, <3>1 DEF SrvSent, SrvRead, SentTo, ReadFrom
    <3>3. Asked(d, p)'
      BY <1>1, <1>4, <1>6, <3>1, <3>2, AskedStays DEF cliVars
    <3> DEFINE ms == <<Msg("TEST_START"), Msg("TEST_RUNNING")>>
               n == 4
    <3>4. ms \in Seq(Message) /\ Len(ms) = 2 /\ NextWords(d, 2, ms)
      <4>1. /\ Msg("TEST_START") \in Message /\ Msg("TEST_RUNNING") \in Message
            /\ Msg("TEST_START").t = DownScript[2 + 1] /\ Msg("TEST_RUNNING").t = DownScript[2 + 2]
        BY MsgType DEF Msg, State, DownScript
      <4> QED
        BY <4>1, NextPair
    <3>5. down'[Ctrl(d)] = down[Ctrl(d)] \o ms
      BY <1>1, <1>2, <2>3, SendsOne
    <3> HIDE DEF ms
    <3>6. NextWords(d, m, ms) /\ sEnd[Ctrl(d)] = "open" /\ sEnd'[Ctrl(d)] = "open"
      BY <1>4, <1>8, <2>3, <3>2, <3>4
    <3>7. n \in 0..7 /\ n = m + Len(ms) /\ ~(n >= 5) /\ n # 7 /\ (SentTo(d))' = n
      BY <3>2, <3>4
    <3>8. UNCHANGED <<cEnd, cliVars>> /\ Talk(d, p, m)
      BY <1>1, <3>1
    <3> HIDE DEF n
    <3> QED
      BY <3>3, <3>4, <3>5, <3>6, <3>7, <3>8, HolderTalk
  <2> QED
    BY <2>2, <2>3
<1> QED
    BY <1>12, <1>13, <1>15, <1>16 DEF PhaseInv

\* The listener cannot be opened again: the test ends with its last stream.
LEMMA ReopenErrorKeeps ==
    ASSUME TypeInv, PhaseInv, ReopenError
    PROVE  PhaseInv'
<1> DEFINE x == [conn |-> sPend, sender |-> NextIsSender]
<1>t. /\ Conversation /\ Known /\ Fresh /\ StreamsCarryCookies /\ ServerStage
      /\ up \in [Conns -> Seq(Message)] /\ sStreams \in Seq(Stream)
      /\ \A n \in DOMAIN sStreams : sStreams[n].conn \in Conns
    BY StreamSockets DEF PhaseInv, TypeInv, TypeOK
<1>1. /\ sPc = "streamCookie" /\ sPc' = "ended" /\ sStreams' = Append(sStreams, x)
      /\ CookieMatches(sPend) \/ CookieLeftOver(sPend)
      /\ ServerReads(sPend) /\ ServerClose({sCtrl} \cup Queued)
      /\ backlog' = <<>> /\ sErr' = "IELISTEN" /\ sTimer' = FALSE
      /\ UNCHANGED <<down, cEnd, cliVars, sState, sCtrl, sCookie, sOpt, sDone>>
    BY DEF ReopenError, cleanup_server
<1> HIDE DEF x
<1>2. sCtrl # NoConn /\ sCtrl \in Conns /\ sPend \in Conns /\ Owner(sCtrl) \in Clients
    BY <1>1, OwnerIsClient DEF TypeInv, TypeOK, WaitsOnSocket
<1>3. sEnd[sPend] = "open" /\ sPend # sCtrl /\ sPend \notin Queued
    BY <1>1, <1>t DEF Known
<1>4. /\ sState = "CREATE_STREAMS" /\ sEnd[sCtrl] = "open" /\ ~sDone
      /\ sCtrl = Ctrl(Owner(sCtrl)) /\ sCookie \in {Owner(sCtrl), NoClient}
    BY <1>1, <1>2, <1>t DEF ServerStage, Stages
<1>5. \A d \in Clients : Ctrl(d) = sPend => up[sPend] = <<>>
  <2>1. CASE CookieMatches(sPend)
    <3>1. Owner(sPend) = Owner(sCtrl)
      BY <1>2, <1>4, <2>1, OwnerIsClient, ControlAssumption DEF CookieMatches
    <3> QED
      BY <1>3, <1>4, <3>1, CtrlConn
  <2>2. CASE CookieLeftOver(sPend)
    BY <2>2 DEF CookieLeftOver
  <2> QED
    BY <1>1, <2>1, <2>2
<1>6. /\ \A k \in Conns : \/ up'[k] = up[k] \/ up'[k] = <<>>
                          \/ up[k] # <<>> /\ up'[k] = Tail(up[k])
      /\ \A d \in Clients : up'[Ctrl(d)] = up[Ctrl(d)]
    BY <1>1, <1>2, <1>5, ReadsOne, CtrlConn
<1>7. /\ \A k \in Conns : sEnd[k] = "none" => sEnd'[k] = "none"
      /\ \A k \in Conns : sEnd'[k] \in {sEnd[k], "closed"}
      /\ \A k \in Conns : k \in {sCtrl} \cup Queued => sEnd'[k] = "closed"
      /\ \A k \in Conns : k \notin {sCtrl} \cup Queued => sEnd'[k] = sEnd[k]
    BY <1>1, <1>t, CloseKnown
<1>8. Queued' = {}
    BY <1>1 DEF Queued
<1>9. \A n \in DOMAIN sStreams' : \/ n \in DOMAIN sStreams /\ sStreams'[n] = sStreams[n]
                                  \/ sStreams'[n] = x
    BY <1>1, <1>t
<1>10. \A n \in DOMAIN sStreams' : sStreams'[n].conn # sCtrl /\ sEnd'[sStreams'[n].conn] # "none"
  <2> TAKE n \in DOMAIN sStreams'
  <2>1. CASE sStreams'[n] = x
    BY <1>2, <1>3, <1>7, <2>1 DEF x
  <2>2. CASE n \in DOMAIN sStreams /\ sStreams'[n] = sStreams[n]
    BY <1>7, <1>t, <2>2 DEF Known
  <2> QED
    BY <1>9, <2>1, <2>2
<1>11. Known'
    BY <1>1, <1>2, <1>7, <1>8, <1>10 DEF Known
<1>12. Fresh' /\ StreamsCarryCookies'
    BY <1>1, <1>6, <1>7, <1>t, FreshKept, CookiesRead
<1>13. ServerStage' /\ StreamsReleased'
    BY <1>1, <1>2, <1>4 DEF ServerStage, StreamsReleased
<1>14. Conversation'
  <2> SUFFICES ASSUME NEW d \in Clients
               PROVE  \E q \in Place, n \in 0..7 : Talk(d, q, n)'
    BY DEF Conversation
  <2>1. Ctrl(d) \in Conns
    BY CtrlConn
  <2>2. sEnd'[Ctrl(d)] \in {sEnd[Ctrl(d)], "closed"} /\ up'[Ctrl(d)] = up[Ctrl(d)]
    BY <1>6, <1>7, <2>1
  <2> QED
    BY <1>1, <1>t, <2>2, UntouchedTalk
<1> QED
    BY <1>11, <1>12, <1>13, <1>14 DEF PhaseInv

\* The client ends the test.
LEMMA TestEndKeeps ==
    ASSUME TypeInv, PhaseInv, ServerTestEnd
    PROVE  PhaseInv'
<1>t. /\ Conversation /\ Known /\ Fresh /\ StreamsCarryCookies /\ ServerStage
    BY DEF PhaseInv
<1>1. /\ SelectOk /\ sPc = "loop" /\ sCtrl # NoConn /\ up[sCtrl] # <<>> /\ Head(up[sCtrl]).t = "TEST_END"
      /\ ServerReads(sCtrl) /\ sDone' = TRUE /\ ServerClose(ConnsOf(sStreams))
      /\ sState' = "EXCHANGE_RESULTS" /\ ServerSend(sCtrl, <<Msg("EXCHANGE_RESULTS")>>)
      /\ sPc' = "results"
      /\ UNCHANGED <<cEnd, backlog, cliVars, sCtrl, sCookie, sOpt, sStreams, sPend, sTimer, sErr>>
    BY DEF ServerTestEnd, SelectOk, ServerFinds
<1>2. sCtrl \in Conns
    BY <1>1 DEF TypeInv, TypeOK
<1>3. PICK c \in Clients, p \in Place, m \in 0..7 :
          /\ sCtrl = Ctrl(c) /\ sEnd[sCtrl] = "open"
          /\ Talk(c, p, m) /\ m = SrvSent /\ Asked(c, p)
          /\ SentTo(c) = SrvSent /\ ReadFrom(c) = SrvRead
          /\ sState = "TEST_RUNNING" /\ SrvRead < HasSent(p) /\ p >= 6
    BY <1>1, ServerMeets
<1>4. sCtrl \notin ConnsOf(sStreams)
    BY <1>t, StreamSockets DEF Known
<1>5. /\ \A k \in Conns : sEnd[k] = "none" => sEnd'[k] = "none"
      /\ \A k \in Conns : sEnd'[k] \in {sEnd[k], "closed"}
      /\ \A k \in Conns : k \in ConnsOf(sStreams) => sEnd'[k] = "closed"
      /\ \A k \in Conns : k \notin ConnsOf(sStreams) => sEnd'[k] = sEnd[k]
    BY <1>1, <1>t, CloseKnown
<1>6. \A n \in DOMAIN sStreams : sEnd'[sStreams[n].conn] = "closed"
    BY <1>5, StreamSockets
<1>7. sEnd'[sCtrl] = "open"
    BY <1>2, <1>3, <1>4, <1>5
<1>8. Known'
  <2>1. Queued' = Queued
    BY <1>1 DEF Queued
  <2>2. \A k \in Queued : sEnd'[k] = "open"
    BY <1>5, <1>t, StreamSockets DEF Known
  <2> QED
    BY <1>1, <1>6, <1>7, <1>t, <2>1, <2>2 DEF Known
<1>9. /\ \A k \in Conns : \/ up'[k] = up[k] \/ up'[k] = <<>>
                          \/ up[k] # <<>> /\ up'[k] = Tail(up[k])
      /\ \A k \in Conns : k # sCtrl => up'[k] = up[k]
      /\ up'[sCtrl] = Tail(up[sCtrl])
    BY <1>1, <1>2, ReadsOne
<1>10. Fresh' /\ StreamsCarryCookies'
    BY <1>1, <1>5, <1>9, <1>t, FreshKept, CookiesRead
<1>11. ServerStage' /\ StreamsReleased'
    BY <1>1, <1>3, <1>6, <1>7, <1>t DEF ServerStage, StreamsReleased, Stages, cliVars
<1>12. Conversation'
  <2> SUFFICES ASSUME NEW d \in Clients
               PROVE  \E q \in Place, n \in 0..7 : Talk(d, q, n)'
    BY DEF Conversation
  <2>1. Ctrl(d) \in Conns
    BY CtrlConn
  <2>2. CASE Ctrl(d) # sCtrl
    BY <1>1, <1>2, <1>5, <1>9, <1>t, <2>1, <2>2, SendsOne, UntouchedTalk
  <2>3. CASE Ctrl(d) = sCtrl
    <3>0. d = c
      BY <1>3, <2>3, CtrlDistinct
    <3>2. m = 4 /\ ReadFrom(c) = 2 /\ (SentTo(c))' = 5 /\ (ReadFrom(c))' = 3
      BY <1>1, <1>3 DEF SrvSent, SrvRead, SentTo, ReadFrom
    <3>3. Asked(c, p)'
      BY <1>1, <1>3, <1>9, <3>2, ServerTakes DEF cliVars
    <3> DEFINE ms == <<Msg("EXCHANGE_RESULTS")>>
               n == 5
    <3>4. ms \in Seq(Message) /\ Len(ms) = 1 /\ NextWords(c, 4, ms)
      BY NextState DEF State, DownScript
    <3>5. down'[Ctrl(c)] = down[Ctrl(c)] \o ms
      BY <1>1, <1>2, <1>3, SendsOne
    <3> HIDE DEF ms
    <3>6. NextWords(c, m, ms) /\ sEnd[Ctrl(c)] = "open" /\ sEnd'[Ctrl(c)] = "open"
      BY <1>3, <1>7, <3>2, <3>4
    <3>7. n \in 0..7 /\ n = m + Len(ms) /\ n # 7 /\ (SentTo(c))' = n
      BY <3>2, <3>4
    <3>8. UNCHANGED <<cEnd, cliVars>> /\ Talk(c, p, m) /\ p >= 6
      BY <1>1, <1>3
    <3> HIDE DEF n
    <3> QED
      BY <3>0, <3>3, <3>4, <3>5, <3>6, <3>7, <3>8, HolderTalk
  <2> QED
    BY <2>2, <2>3
<1> QED
    BY <1>8, <1>10, <1>11, <1>12 DEF PhaseInv

\* The results are exchanged: they are about the streams both sides have.
LEMMA ResultsKeep ==
    ASSUME TypeInv, PhaseInv, iperf_exchange_results
    PROVE  PhaseInv'
<1>t. /\ Conversation /\ Known /\ Fresh /\ StreamsCarryCookies /\ ServerStage
      /\ sStreams \in Seq(Stream)
    BY DEF PhaseInv, TypeInv, TypeOK
<1>1. /\ sPc = "results" /\ up[sCtrl] # <<>> /\ Head(up[sCtrl]).t = "RESULTS"
      /\ ServerReads(sCtrl)
      /\ UNCHANGED <<cEnd, cliVars, sCtrl, sCookie, sOpt, sStreams, sDone>>
    BY DEF iperf_exchange_results, ServerFinds
<1>2. sCtrl # NoConn /\ sCtrl \in Conns /\ Owner(sCtrl) \in Clients
    BY <1>1, OwnerIsClient DEF TypeInv, TypeOK, WaitsOnSocket
<1>c. PICK c \in Clients : c = Owner(sCtrl)
    BY <1>2
<1>3. /\ sState = "EXCHANGE_RESULTS" /\ sEnd[sCtrl] = "open" /\ sDone /\ sCtrl = Ctrl(c)
      /\ sOpt = cOpt[c] /\ Len(sStreams) = StreamsTotal(sOpt)
    BY <1>1, <1>c, <1>2, <1>t DEF ServerStage, Stages
<1>4. PICK p \in Place, m \in 0..7 :
          /\ Talk(c, p, m) /\ m = SrvSent /\ Asked(c, p)
          /\ SentTo(c) = SrvSent /\ ReadFrom(c) = SrvRead
    BY <1>2, <1>3, HolderFacts
<1>5. m = 5 /\ ReadFrom(c) = 3
    BY <1>3, <1>4 DEF SrvSent, SrvRead
<1>6. ReadFrom(c) < HasSent(p) /\ Head(up[sCtrl]).ids = AllIds(cOpt[c])
    BY <1>1, <1>2, <1>3, <1>4, <1>5, NextMessage
<1>7. IdsOf(sStreams) = AllIds(cOpt[c]) /\ IdsOf(sStreams) \in SUBSET Nat
    BY <1>3, <1>t, FullIds, IdsType
<1>8. /\ ServerSend(sCtrl, <<[t |-> "RESULTS", ids |-> IdsOf(sStreams)], Msg("DISPLAY_RESULTS")>>)
      /\ sState' = "DISPLAY_RESULTS" /\ sPc' = "loop"
      /\ UNCHANGED <<sEnd, backlog, sPend, sTimer, sErr>>
    BY <1>6, <1>7 DEF iperf_exchange_results
<1>9. p >= 7
    BY <1>5, <1>6 DEF HasSent, Place
<1>10. /\ \A k \in Conns : \/ up'[k] = up[k] \/ up'[k] = <<>>
                           \/ up[k] # <<>> /\ up'[k] = Tail(up[k])
       /\ \A k \in Conns : k # sCtrl => up'[k] = up[k]
       /\ up'[sCtrl] = Tail(up[sCtrl])
    BY <1>1, <1>2, ReadsOne
<1>11. Known'
  <2>1. Queued' = Queued
    BY <1>8 DEF Queued
  <2> QED
    BY <1>1, <1>8, <1>t, <2>1 DEF Known
<1>12. Fresh' /\ StreamsCarryCookies'
    BY <1>1, <1>8, <1>10, <1>t, FreshKept, CookiesRead
<1>13. ServerStage' /\ StreamsReleased'
    BY <1>1, <1>2, <1>3, <1>8, <1>t DEF ServerStage, StreamsReleased, Stages, cliVars
<1>14. Conversation'
  <2> SUFFICES ASSUME NEW d \in Clients
               PROVE  \E q \in Place, n \in 0..7 : Talk(d, q, n)'
    BY DEF Conversation
  <2>1. Ctrl(d) \in Conns
    BY CtrlConn
  <2>2. CASE Ctrl(d) # sCtrl
    BY <1>1, <1>2, <1>8, <1>10, <1>t, <2>1, <2>2, SendsOne, UntouchedTalk
  <2>3. CASE Ctrl(d) = sCtrl
    <3>0. d = c
      BY <1>2, <1>3, <2>3, CtrlDistinct
    <3>2. (SentTo(c))' = 7 /\ (ReadFrom(c))' = 4
      BY <1>1, <1>3, <1>8 DEF SrvSent, SrvRead, SentTo, ReadFrom
    <3>3. Asked(c, p)'
      BY <1>1, <1>2, <1>3, <1>4, <1>5, <1>6, <1>10, <3>2, ServerTakes DEF cliVars
    <3> DEFINE x == [t |-> "RESULTS", ids |-> IdsOf(sStreams)]
               y == Msg("DISPLAY_RESULTS")
               ms == <<x, y>>
               n == 7
    <3>4. ms \in Seq(Message) /\ Len(ms) = 2 /\ NextWords(c, 5, ms)
      <4>1. /\ x \in Message /\ y \in Message /\ x.ids = AllIds(cOpt[c])
            /\ x.t = DownScript[5 + 1] /\ y.t = DownScript[5 + 2]
        BY <1>7, MsgType DEF Msg, State, DownScript
      <4> HIDE DEF x, y
      <4> QED
        BY <1>2, <4>1, NextPair
    <3>5. down'[Ctrl(c)] = down[Ctrl(c)] \o ms
      BY <1>2, <1>3, <1>8, SendsOne
    <3> HIDE DEF ms
    <3>6. NextWords(c, m, ms) /\ sEnd[Ctrl(c)] = "open" /\ sEnd'[Ctrl(c)] = "open"
      BY <1>3, <1>5, <1>8, <3>4
    <3>7. n \in 0..7 /\ n = m + Len(ms) /\ (SentTo(c))' = n
      BY <1>5, <3>2, <3>4
    <3>8. UNCHANGED <<cEnd, cliVars>> /\ Talk(c, p, m) /\ p >= 6 /\ p >= 7
      BY <1>1, <1>4, <1>9 DEF Place
    <3> HIDE DEF n
    <3> QED
      BY <1>2, <3>0, <3>3, <3>4, <3>5, <3>6, <3>7, <3>8, HolderTalk
  <2> QED
    BY <2>2, <2>3
<1> QED
    BY <1>11, <1>12, <1>13, <1>14 DEF PhaseInv

\* The watchdog closes the test's sockets.
LEMMA TimerKeeps ==
    ASSUME TypeInv, PhaseInv, server_timer_proc
    PROVE  PhaseInv'
<1>t. /\ Conversation /\ Known /\ Fresh /\ StreamsCarryCookies /\ ServerStage
    BY DEF PhaseInv
<1>1. /\ SelectOk /\ sPc = "loop" /\ sTimer
      /\ UNCHANGED <<up, down, cEnd, backlog, cliVars, sPc, sState, sCtrl, sCookie, sOpt, sPend, sErr>>
    BY DEF server_timer_proc, SelectOk
<1>2. sCtrl # NoConn /\ sCtrl \in Conns
    BY <1>1, <1>t DEF ServerStage, TypeInv, TypeOK
<1>3. CASE sDone
  <2>1. UNCHANGED <<sEnd, sDone, sStreams>> /\ Queued' = Queued
    BY <1>1, <1>3 DEF server_timer_proc, Queued
  <2>2. Known' /\ Fresh' /\ StreamsCarryCookies' /\ ServerStage' /\ StreamsReleased'
    BY <1>1, <1>2, <1>t, <2>1, FreshKept DEF Known, StreamsCarryCookies, ServerStage, StreamsReleased, cliVars
  <2>3. Conversation'
    BY <1>1, <1>t, <2>1, UntouchedTalk DEF Conversation
  <2> QED
    BY <2>2, <2>3 DEF PhaseInv
<1>4. CASE ~sDone
  <2>1. /\ sDone' = TRUE /\ ServerClose(ConnsOf(sStreams) \cup {sCtrl}) /\ sStreams' = <<>>
        /\ Queued' = Queued
    BY <1>1, <1>4 DEF server_timer_proc, Queued
  <2>2. /\ \A k \in Conns : sEnd[k] = "none" => sEnd'[k] = "none"
        /\ \A k \in Conns : sEnd'[k] \in {sEnd[k], "closed"}
        /\ \A k \in Conns : k \in ConnsOf(sStreams) \cup {sCtrl} => sEnd'[k] = "closed"
        /\ \A k \in Conns : k \notin ConnsOf(sStreams) \cup {sCtrl} => sEnd'[k] = sEnd[k]
    BY <1>t, <2>1, CloseKnown
  <2>3. \A k \in Queued : sEnd'[k] = "open"
    BY <1>t, <2>2, StreamSockets DEF Known
  <2>4. Known'
    BY <1>1, <1>2, <1>t, <2>1, <2>2, <2>3 DEF Known
  <2>5. Fresh' /\ StreamsCarryCookies'
    BY <1>1, <1>t, <2>2, FreshKept DEF StreamsCarryCookies
  <2>6. ServerStage' /\ StreamsReleased'
    BY <1>1, <1>2, <1>t, <2>1, <2>2 DEF ServerStage, StreamsReleased, cliVars
  <2>7. Conversation'
    BY <1>1, <1>t, <2>2, UntouchedTalk, CtrlConn DEF Conversation
  <2> QED
    BY <2>4, <2>5, <2>6, <2>7 DEF PhaseInv
<1> QED
    BY <1>3, <1>4

\* The server is made ready for the next test.
LEMMA ResetKeeps ==
    ASSUME TypeInv, PhaseInv, iperf_reset_test
    PROVE  PhaseInv'
<1>t. /\ Conversation /\ Known /\ Fresh /\ StreamsCarryCookies /\ ServerStage
    BY DEF PhaseInv
<1>1. /\ sPc = "ended" /\ sPc' = "loop" /\ sStreams' = <<>> /\ sDone' = FALSE /\ sCtrl' = NoConn
      /\ sState' = "IPERF_START"
      /\ UNCHANGED <<up, down, cEnd, sEnd, backlog, cliVars, sPend, sTimer, sErr>>
    BY DEF iperf_reset_test
<1>2. Queued' = Queued /\ \A k \in Queued : k # NoConn
    BY <1>1, StreamSockets, CtrlDistinct DEF Queued
<1>3. Known'
    BY <1>1, <1>2, <1>t DEF Known
<1>4. Fresh' /\ StreamsCarryCookies'
    BY <1>1, <1>t, FreshKept DEF StreamsCarryCookies
<1>5. ServerStage' /\ StreamsReleased'
    BY <1>1, <1>t DEF ServerStage, StreamsReleased
<1>6. Conversation'
  <2> SUFFICES ASSUME NEW d \in Clients
               PROVE  \E q \in Place, n \in 0..7 : Talk(d, q, n)'
    BY DEF Conversation
  <2>1. Ctrl(d) = sCtrl => sEnd'[Ctrl(d)] = "closed"
    BY <1>1, <1>t, CtrlDistinct DEF Known
  <2>2. Ctrl(d) # sCtrl'
    BY <1>1, CtrlDistinct
  <2> QED
    BY <1>1, <1>t, <2>1, <2>2, UntouchedTalk
<1> QED
    BY <1>3, <1>4, <1>5, <1>6 DEF PhaseInv

\* The server is killed and says so to the client of its test.
LEMMA SigendKeeps ==
    ASSUME TypeInv, PhaseInv, iperf_got_sigend_server
    PROVE  PhaseInv'
<1>t. /\ Conversation /\ Known /\ Fresh /\ StreamsCarryCookies /\ ServerStage
      /\ sEnd \in [Conns -> {"none", "open", "closed"}]
    BY DEF PhaseInv, TypeInv, TypeOK
<1>1. /\ sPc # "exited" /\ sPc' = "exited" /\ sErr' = "IESERVERTERM" /\ backlog' = <<>>
      /\ sCtrl # NoConn /\ sEnd[sCtrl] = "open" => ServerSend(sCtrl, <<Msg("SERVER_TERMINATE")>>)
      /\ ~(sCtrl # NoConn /\ sEnd[sCtrl] = "open") => down' = down
      /\ ServerExitCloses
      /\ UNCHANGED <<up, cEnd, cliVars, sState, sCtrl, sCookie, sOpt, sStreams, sPend, sDone, sTimer>>
    BY DEF iperf_got_sigend_server
<1>2. \A k \in Conns : sEnd'[k] = IF sEnd[k] = "open" THEN "closed" ELSE sEnd[k]
    BY <1>1 DEF ServerExitCloses
<1>3. Queued' = {}
    BY <1>1 DEF Queued
<1>4. \A n \in DOMAIN sStreams : sStreams[n].conn \in Conns
    BY StreamSockets
<1>5. sCtrl # NoConn => sCtrl \in Conns
    BY DEF TypeInv, TypeOK
<1>6. Known'
    BY <1>1, <1>2, <1>3, <1>4, <1>5, <1>t DEF Known
<1>7. Fresh' /\ StreamsCarryCookies'
    BY <1>1, <1>2, <1>t, FreshKept DEF StreamsCarryCookies
<1>8. ServerStage' /\ StreamsReleased'
    BY <1>1, <1>2, <1>4, <1>5, <1>t DEF ServerStage, StreamsReleased, cliVars
<1>9. Conversation'
  <2> SUFFICES ASSUME NEW d \in Clients
               PROVE  \E q \in Place, n \in 0..7 : Talk(d, q, n)'
    BY DEF Conversation
  <2>1. Ctrl(d) \in Conns /\ Ctrl(d) # NoConn
    BY CtrlConn, CtrlDistinct
  <2>2. CASE Ctrl(d) = sCtrl /\ sEnd[sCtrl] = "open"
    BY <1>1, <1>2, <1>t, <2>1, <2>2, SendsOne, DismissedTalk DEF Final
  <2>3. CASE ~(Ctrl(d) = sCtrl /\ sEnd[sCtrl] = "open")
    <3>1. down'[Ctrl(d)] = down[Ctrl(d)]
      BY <1>1, <1>5, <2>1, <2>3, SendsOne
    <3> QED
      BY <1>1, <1>2, <1>t, <2>1, <3>1, UntouchedTalk
  <2> QED
    BY <2>2, <2>3
<1> QED
    BY <1>6, <1>7, <1>8, <1>9 DEF PhaseInv

\* IPERF_DONE, CLIENT_TERMINATE: the server leaves the test.
LEMMA LeavesKeeps ==
    ASSUME TypeInv, PhaseInv, ServerLeaves
    PROVE  PhaseInv'
<1> DEFINE t == Head(up[sCtrl]).t
           err == CASE t = "IPERF_DONE" -> "none"
                    [] t = "CLIENT_TERMINATE" -> "IECLIENTTERM"
                    [] OTHER -> "IEMESSAGE"
           S == IF t = "CLIENT_TERMINATE" THEN ConnsOf(sStreams) ELSE {}
<1>1. /\ SelectOk /\ sCtrl # NoConn /\ up[sCtrl] # <<>> /\ t # "TEST_END" /\ ServerReads(sCtrl)
      /\ cleanup_server(S, err)
      /\ UNCHANGED <<down, cEnd, cliVars, sCtrl, sStreams, sDone>>
    BY Zenon DEF ServerLeaves
<1>2. t = "IPERF_DONE" => err = "none"
    OBVIOUS
<1>3. t = "CLIENT_TERMINATE" => err = "IECLIENTTERM"
    OBVIOUS
<1>4. S \subseteq ConnsOf(sStreams) /\ (t = "CLIENT_TERMINATE" => S = ConnsOf(sStreams))
    OBVIOUS
<1> HIDE DEF err, S
<1>5. (t = "IPERF_DONE" /\ sState = "DISPLAY_RESULTS") \/ t = "CLIENT_TERMINATE"
    BY <1>1, ServerMeets
<1>6. t = "IPERF_DONE" => sDone
    BY <1>1, <1>5 DEF PhaseInv, ServerStage, SelectOk
<1>7. sCtrl \in Conns
    BY <1>1 DEF TypeInv, TypeOK
<1>8. (\A k \in Conns : k # sCtrl => up'[k] = up[k]) /\ up'[sCtrl] = Tail(up[sCtrl])
    BY <1>1, <1>7, ReadsOne
<1> HIDE DEF t
<1>9. err \notin {"IEMESSAGE", "IESTREAMID"} /\ (sDone \/ S = ConnsOf(sStreams))
    BY <1>2, <1>3, <1>4, <1>5, <1>6
<1> QED
    BY <1>1, <1>4, <1>8, <1>9, CleanupKeeps

\* Every step of the server keeps the invariant.
LEMMA ServerPhaseStep ==
    ASSUME TypeInv, PhaseInv, ServerStep \/ server_timer_proc \/ ServerFault
    PROVE  PhaseInv'
<1>0. sCtrl # NoConn => sCtrl \in Conns
    BY DEF TypeInv, TypeOK
<1>e. {} \subseteq ConnsOf(sStreams)
    OBVIOUS
<1>1. CASE ListenError
  <2>1. sCtrl # NoConn /\ sPc = "params"
    BY <1>1 DEF ListenError, TypeInv, WaitsOnSocket
  <2>2. /\ sEnd[sCtrl] = "open"
    BY <2>1 DEF PhaseInv, ServerStage
  <2>3. /\ cleanup_server({}, "IESTREAMLISTEN") /\ ServerReads(sCtrl) /\ up[sCtrl] # <<>>
        /\ ServerSend(sCtrl, <<Msg("SERVER_ERROR")>>)
        /\ UNCHANGED <<cEnd, cliVars, sCtrl, sStreams, sDone>>
    BY <1>1 DEF ListenError, ServerFinds
  <2>4. (\A k \in Conns : k # sCtrl => up'[k] = up[k]) /\ up'[sCtrl] = Tail(up[sCtrl])
    BY <1>0, <2>1, <2>3, ReadsOne
  <2>5. \E t \in Final : ServerSend(sCtrl, <<Msg(t)>>)
    BY <2>3 DEF Final
  <2> QED
    BY <1>e, <2>1, <2>2, <2>3, <2>4, <2>5, CleanupKeeps
<1>2. CASE ServerEOF
    BY <1>2, <1>e, CleanupKeeps DEF ServerEOF
<1>3. CASE ServerReset
  <2>1. sCtrl # NoConn
    BY <1>3 DEF ServerReset, TypeInv, WaitsOnSocket
  <2> QED
    BY <1>3, <1>e, <2>1, CleanupKeeps DEF ServerReset
<1>4. CASE SelectError
    BY <1>4, <1>e, CleanupKeeps DEF SelectError, SelectOk
<1> QED
    BY <1>1, <1>2, <1>3, <1>4, AcceptKeeps, BusyKeeps, CookieKeeps, ParametersKeep, TcpAcceptKeeps,
       AcceptStreamKeeps, ReopenErrorKeeps, DenyKeeps, TestEndKeeps, ResultsKeep, LeavesKeeps, ResetKeeps,
       TimerKeeps, SigendKeeps DEF ServerStep, ServerFault

-----------------------------------------------------------------------------
(* The theorems. *)

\* Nothing has been said before anybody has connected.
LEMMA PhaseInit == Init => PhaseInv
<1> SUFFICES ASSUME Init PROVE PhaseInv
    OBVIOUS
<1>1. Conversation
  <2> SUFFICES ASSUME NEW c \in Clients PROVE Talk(c, 0, 0)
    BY DEF Conversation, Place
  <2>0. Ctrl(c) \in Conns
    BY CtrlConn
  <2>1. At(c, 0)
    BY DEF Init, At, PcAt, StateAt
  <2>2. Made(c, 0)
    BY DEF Init, Made
  <2>3. down[Ctrl(c)] = <<>> /\ up[Ctrl(c)] = <<>> /\ sEnd[Ctrl(c)] = "none" /\ sCtrl = NoConn
    BY <2>0 DEF Init
  <2>4. HasRead(0) = 0 /\ HasSent(0) = 0 /\ ReadFrom(c) = 0 /\ SentTo(c) = 0
    BY <2>3, CtrlDistinct DEF HasRead, HasSent, ReadFrom, SentTo
  <2>5. Told(c, 0, 0)
    BY <2>3, <2>4 DEF Told
  <2>6. Asked(c, 0)
    BY <2>3, <2>4 DEF Asked
  <2> QED
    BY <2>1, <2>2, <2>4, <2>5, <2>6 DEF Talk
<1>2. Known /\ StreamsCarryCookies
    BY DEF Init, Known, StreamsCarryCookies, Queued
<1>3. Fresh
  <2>1. \A c \in Clients : Ctrl(c) \in Conns /\ \A n \in 1..(2 * MaxStreams) : <<c, n>> \in Conns
    BY CtrlConn, ControlAssumption DEF Conns
  <2> QED
    BY <2>1 DEF Init, Fresh
<1>4. ServerStage /\ StreamsReleased
    BY DEF Init, ServerStage, StreamsReleased
<1> QED
    BY <1>1, <1>2, <1>3, <1>4 DEF PhaseInv

\* No step breaks it.
LEMMA PhaseStep == TypeInv /\ PhaseInv /\ [Next]_vars => PhaseInv'
<1>1. ASSUME TypeInv, PhaseInv, UNCHANGED vars PROVE PhaseInv'
  <2>1. UNCHANGED <<sEnd, backlog, cOpt, srvVars, cEnd, cliVars, up, down, sCtrl, sState>>
    BY <1>1 DEF vars, netVars, srvVars, cliVars
  <2>2. Conversation'
    BY <1>1, <2>1, UntouchedTalk DEF PhaseInv, Conversation
  <2>3. Known' /\ ServerStage' /\ StreamsReleased'
    BY <1>1, <2>1, ServerSideStays DEF PhaseInv
  <2>4. Fresh' /\ StreamsCarryCookies'
    BY <1>1, <2>1 DEF PhaseInv, Fresh, StreamsCarryCookies, cliVars
  <2> QED
    BY <2>2, <2>3, <2>4 DEF PhaseInv
<1> QED
    BY <1>1, ClientPhaseStep, ServerPhaseStep DEF Next

\* The last state announced to the client of the server's test.
LEMMA Announced ==
    ASSUME TypeInv, PhaseInv, NEW c \in Clients, sCtrl = Ctrl(c), Alive(c), sEnd[Ctrl(c)] = "open"
    PROVE  \/ sPc = "cookie" /\ LastAnnounced(c) = "IPERF_START"
           \/ sPc # "cookie" /\ sState = "TEST_RUNNING" /\ LastAnnounced(c) \in {"TEST_RUNNING", "TEST_END"}
           \/ sPc # "cookie" /\ sState # "TEST_RUNNING" /\ LastAnnounced(c) = sState
<1>1. sCtrl # NoConn /\ sPc \notin {"ended", "exited"}
    BY CtrlDistinct DEF PhaseInv, Known
<1>2. <<sPc, sState>> \in Stages
    BY <1>1 DEF PhaseInv, ServerStage
<1>3. PICK p \in Place, m \in 0..7 : Talk(c, p, m) /\ m = SrvSent
    BY HolderFacts
<1> DEFINE d == down[Ctrl(c)]
<1>4. Len(d) = m - HasRead(p) /\ HasRead(p) <= m /\ d \in Seq(Message)
    BY <1>3, QueueType DEF Talk, Told
<1>5. /\ cState[c] = StateAt(p) /\ p # 9
    BY <1>3 DEF Alive, Talk, At, PcAt
<1>6. CASE d = <<>>
  <2>1. HasRead(p) = m /\ LastAnnounced(c) = StateAt(p)
    BY <1>4, <1>5, <1>6, PlaceType DEF LastAnnounced
  <2> QED
    BY <1>2, <1>3, <1>5, <2>1 DEF Stages, SrvSent, HasRead, StateAt, Place
<1>7. CASE d # <<>>
  <2>0. Len(d) \in Nat /\ Len(d) # 0 /\ HasRead(p) \in 0..7
    BY <1>4, <1>7, PlaceType
  <2>1. Len(d) \in 1..(m - HasRead(p)) /\ HasRead(p) + Len(d) = m /\ m \in 1..7
    BY <1>4, <2>0
  <2>2. LastAnnounced(c) = DownScript[m]
    BY <1>3, <1>7, <2>1 DEF LastAnnounced, Talk, Told
  <2> QED
    BY <1>2, <1>3, <2>1, <2>2 DEF Stages, SrvSent, DownScript
<1> QED
    BY <1>6, <1>7

\* PhaseAgreement for any number of clients and streams, whoever is killed or
\* turned away: the server's phase is the one its client is in or is about to
\* read, or the client has asked for the next one.
THEOREM PhasesAgree == Spec => []PhaseAgreement
<1>1. TypeInv /\ PhaseInv => PhaseAgreement
  <2> SUFFICES ASSUME TypeInv, PhaseInv, NEW c \in Clients,
                      sCtrl = Ctrl(c), Alive(c), sEnd[Ctrl(c)] = "open"
               PROVE  LastAnnounced(c) \in CASE sPc = "cookie" -> {"IPERF_START"}
                                             [] sState = "TEST_RUNNING" -> {"TEST_RUNNING", "TEST_END"}
                                             [] OTHER -> {sState}
    BY Zenon DEF PhaseAgreement
  <2>0. sPc = "cookie" => sState = "IPERF_START"
    BY CtrlDistinct DEF PhaseInv, ServerStage, Stages, Known
  <2>1. CASE sPc = "cookie" /\ LastAnnounced(c) = "IPERF_START"
    <3>1. sState # "TEST_RUNNING"
      BY <2>0, <2>1
    <3> QED
      BY <2>1, <3>1, Zenon
  <2>2. CASE sPc # "cookie" /\ sState = "TEST_RUNNING" /\ LastAnnounced(c) \in {"TEST_RUNNING", "TEST_END"}
    BY <2>2, Zenon
  <2>3. CASE sPc # "cookie" /\ sState # "TEST_RUNNING" /\ LastAnnounced(c) = sState
    BY <2>3, Zenon
  <2> QED
    BY <2>1, <2>2, <2>3, Announced
<1> QED
    BY <1>1, TypeInit, TypeStep, PhaseInit, PhaseStep, PTL DEF Spec

\* InSync for any number of clients and streams: no process takes a message for
\* another one, or gets results about a stream that it does not have.
THEOREM NobodyMisreads == Spec => []InSync
<1>1. PhaseInv => InSync
    BY DEF PhaseInv, ServerStage, Conversation, Talk, Made, InSync
<1> QED
    BY <1>1, TypeInit, TypeStep, PhaseInit, PhaseStep, PTL DEF Spec

\* ResultsComplete for any number of clients and streams: a client that reports
\* success (iperf_client_end) has figures for all of its streams, and only them.
THEOREM SuccessHasResults == Spec => []ResultsComplete
<1>1. TypeInv /\ PhaseInv => ResultsComplete
  <2> SUFFICES ASSUME TypeInv, PhaseInv, NEW c \in Clients, cPc[c] = "ended"
               PROVE  cGot[c] = IdsOf(cStreams[c]) /\ cGot[c] # {}
    BY DEF ResultsComplete
  <2>1. PICK p \in Place, m \in 0..7 : Talk(c, p, m)
    BY DEF PhaseInv, Conversation
  <2>2. p = 9
    BY <2>1 DEF Talk, At, PcAt, Place
  <2>3. Len(cStreams[c]) = StreamsTotal(cOpt[c]) /\ cGot[c] = AllIds(cOpt[c])
    BY <2>1, <2>2 DEF Talk, Made
  <2>4. IdsOf(cStreams[c]) = AllIds(cOpt[c])
    BY <2>3, QueueType, FullIds
  <2>5. StreamId(1) \in AllIds(cOpt[c])
    <3>1. cOpt[c] \in Config
      BY QueueType
    <3>2. 1 \in 1..StreamsTotal(cOpt[c])
      BY <3>1, ControlAssumption DEF Config, StreamsTotal
    <3> QED
      BY <3>2 DEF AllIds
  <2> QED
    BY <2>3, <2>4, <2>5
<1> QED
    BY <1>1, TypeInit, TypeStep, PhaseInit, PhaseStep, PTL DEF Spec

\* StreamsReleased for any number of clients and streams: a test that was done,
\* or given up by CLIENT_TERMINATE, leaves no stream open at the server.
THEOREM StreamsAreReleased == Spec => []StreamsReleased
<1>1. PhaseInv => StreamsReleased
    BY DEF PhaseInv
<1> QED
    BY <1>1, TypeInit, TypeStep, PhaseInit, PhaseStep, PTL DEF Spec


-----------------------------------------------------------------------------
(* The refinement.  Its mapping, without CASE. *)

PhaseOf(pc, ctrl, state) ==
    IF pc \in {"ended", "exited"} THEN "over"
    ELSE IF ctrl = NoConn THEN "free"
    ELSE IF state = "TEST_RUNNING" THEN "test"
    ELSE IF state = "EXCHANGE_RESULTS" THEN "results"
    ELSE IF state = "DISPLAY_RESULTS" THEN "shown"
    ELSE "setup"

OutcomeOf(pc) ==
    IF pc = "ended" THEN "success"
    ELSE IF pc \in {"failed", "killed"} THEN "failure"
    ELSE "open"

HasResults(d) == \E i \in DOMAIN d : d[i].t = "DISPLAY_RESULTS"

\* The phase follows from where the server is, now and after the step.
LEMMA PhaseIs ==
    /\ Phase = PhaseOf(sPc, sCtrl, sState)
    /\ Phase' = PhaseOf(sPc', sCtrl', sState')
<1>1. Phase = PhaseOf(sPc, sCtrl, sState)
  <2>1. CASE sPc \in {"ended", "exited"}
    BY <2>1, Zenon DEF Phase, PhaseOf
  <2>2. CASE sPc \notin {"ended", "exited"} /\ sCtrl = NoConn
    BY <2>2, Zenon DEF Phase, PhaseOf
  <2>3. CASE sPc \notin {"ended", "exited"} /\ sCtrl # NoConn
    BY <2>3, Zenon DEF Phase, PhaseOf
  <2> QED
    BY <2>1, <2>2, <2>3
<1>2. Phase' = PhaseOf(sPc', sCtrl', sState')
  <2>1. CASE sPc' \in {"ended", "exited"}
    BY <2>1, Zenon DEF Phase, PhaseOf
  <2>2. CASE sPc' \notin {"ended", "exited"} /\ sCtrl' = NoConn
    BY <2>2, Zenon DEF Phase, PhaseOf
  <2>3. CASE sPc' \notin {"ended", "exited"} /\ sCtrl' # NoConn
    BY <2>3, Zenon DEF Phase, PhaseOf
  <2> QED
    BY <2>1, <2>2, <2>3
<1> QED
    BY <1>1, <1>2

\* So does what a client reports, from where it is.
LEMMA OutcomeIs ==
    ASSUME NEW c \in Clients
    PROVE  Outcome(c) = OutcomeOf(cPc[c]) /\ Outcome(c)' = OutcomeOf(cPc'[c])
<1>1. Outcome(c) = OutcomeOf(cPc[c])
    BY Zenon DEF Outcome, OutcomeOf
<1>2. Outcome(c)' = OutcomeOf(cPc'[c])
    BY Zenon DEF Outcome, OutcomeOf
<1> QED
    BY <1>1, <1>2

-----------------------------------------------------------------------------
(* Whom the server has served. *)

\* A word other than DISPLAY_RESULTS, read or sent, leaves it as it is.
LEMMA OtherWords ==
    ASSUME NEW d \in Seq(Message)
    PROVE  /\ d # <<>> /\ Head(d).t # "DISPLAY_RESULTS" => (HasResults(Tail(d)) <=> HasResults(d))
           /\ \A ms \in Seq(Message) : ~HasResults(ms) => (HasResults(d \o ms) <=> HasResults(d))
<1>1. ASSUME d # <<>>, Head(d).t # "DISPLAY_RESULTS" PROVE HasResults(Tail(d)) <=> HasResults(d)
  <2>1. /\ DOMAIN d = 1..Len(d) /\ DOMAIN Tail(d) = 1..(Len(d) - 1) /\ d[1] = Head(d)
        /\ Len(d) \in Nat
        /\ \A i \in 1..(Len(d) - 1) : Tail(d)[i] = d[i + 1]
    BY <1>1
  <2>2. ASSUME HasResults(Tail(d)) PROVE HasResults(d)
    <3>1. PICK i \in 1..(Len(d) - 1) : Tail(d)[i].t = "DISPLAY_RESULTS"
      BY <2>1, <2>2 DEF HasResults
    <3>2. i + 1 \in 1..Len(d) /\ d[i + 1].t = "DISPLAY_RESULTS"
      BY <2>1, <3>1
    <3> QED
      BY <2>1, <3>2 DEF HasResults
  <2>3. ASSUME HasResults(d) PROVE HasResults(Tail(d))
    <3>1. PICK i \in 1..Len(d) : d[i].t = "DISPLAY_RESULTS"
      BY <2>1, <2>3 DEF HasResults
    <3>2. i - 1 \in 1..(Len(d) - 1) /\ (i - 1) + 1 = i
      BY <1>1, <2>1, <3>1
    <3>3. Tail(d)[i - 1].t = "DISPLAY_RESULTS"
      BY <2>1, <3>1, <3>2
    <3> QED
      BY <2>1, <3>2, <3>3 DEF HasResults
  <2> QED
    BY <2>2, <2>3
<1>2. ASSUME NEW ms \in Seq(Message), ~HasResults(ms)
      PROVE  HasResults(d \o ms) <=> HasResults(d)
  <2>1. /\ DOMAIN d = 1..Len(d) /\ DOMAIN ms = 1..Len(ms)
        /\ Len(d) \in Nat /\ Len(ms) \in Nat
    OBVIOUS
  <2>2. /\ DOMAIN (d \o ms) = 1..(Len(d) + Len(ms))
        /\ \A i \in 1..(Len(d) + Len(ms)) :
               \/ i \in 1..Len(d) /\ (d \o ms)[i] = d[i]
               \/ \E j \in 1..Len(ms) : i = Len(d) + j /\ (d \o ms)[i] = ms[j]
    BY Concatenated
  <2>3. \A i \in 1..Len(d) : i \in 1..(Len(d) + Len(ms)) /\ (d \o ms)[i] = d[i]
    OBVIOUS
  <2>4. ASSUME HasResults(d) PROVE HasResults(d \o ms)
    BY <2>1, <2>2, <2>3, <2>4 DEF HasResults
  <2>5. ASSUME HasResults(d \o ms) PROVE HasResults(d)
    <3>1. PICK i \in 1..(Len(d) + Len(ms)) : (d \o ms)[i].t = "DISPLAY_RESULTS"
      BY <2>2, <2>5 DEF HasResults
    <3>2. ~\E j \in 1..Len(ms) : i = Len(d) + j /\ (d \o ms)[i] = ms[j]
      BY <1>2, <2>1, <3>1 DEF HasResults
    <3> QED
      BY <2>1, <2>2, <3>1, <3>2 DEF HasResults
  <2> QED
    BY <2>4, <2>5
<1> QED
    BY <1>1, <1>2

\* A client is served when its process ended well or DISPLAY_RESULTS is on its way.
LEMMA ServedIs ==
    ASSUME NEW c \in Clients
    PROVE  /\ Served(c) <=> cPc[c] = "ended" \/ HasResults(down[Ctrl(c)])
           /\ Served(c)' <=> cPc'[c] = "ended" \/ HasResults(down'[Ctrl(c)])
BY DEF Served, HasResults

\* A client that still dials has not been served.
LEMMA DialingUnserved ==
    ASSUME TypeInv, PhaseInv, NEW c \in Clients, cPc[c] \in {"idle", "streams"}
    PROVE  ~Served(c)
<1>1. PICK p \in Place, m \in 0..7 : Talk(c, p, m)
    BY DEF PhaseInv, Conversation
<1>2. p \in {0, 3} /\ HasRead(p) \in {0, 2}
    BY <1>1 DEF Talk, At, PcAt, Place, HasRead
<1>3. m < 5 /\ down[Ctrl(c)] \in Seq(Message)
    BY <1>1, <1>2, QueueType DEF Talk, Told
<1>4. SUFFICES ASSUME NEW i \in DOMAIN down[Ctrl(c)]
               PROVE  down[Ctrl(c)][i].t # "DISPLAY_RESULTS"
    BY ServedIs DEF HasResults
<1>5. Told(c, p, m)
    BY <1>1 DEF Talk
<1>6. i \in 1..Len(down[Ctrl(c)])
    BY <1>3
<1>7. CASE i \in 1..(m - HasRead(p))
  <2>1. down[Ctrl(c)][i].t = DownScript[HasRead(p) + i]
    BY <1>5, <1>7 DEF Told
  <2>2. HasRead(p) + i \in 1..4
    BY <1>2, <1>3, <1>7
  <2> QED
    BY <2>1, <2>2 DEF DownScript
<1>8. CASE i \notin 1..(m - HasRead(p))
  <2>1. i = m - HasRead(p) + 1 /\ down[Ctrl(c)][m - HasRead(p) + 1].t \in Final
    BY <1>2, <1>3, <1>5, <1>6, <1>8 DEF Told
  <2> QED
    BY <2>1 DEF Final
<1> QED
    BY <1>7, <1>8

\* Nobody waits for the server who has been served, except the client it serves;
\* nobody waits at all once the test is over.
ServiceInv ==
    /\ \A k \in Queued : Served(Owner(k)) => sCtrl = Ctrl(Owner(k))
    /\ sPc \in {"ended", "exited"} => backlog = <<>> /\ ~listening

-----------------------------------------------------------------------------
(* Steps of a client. *)

\* What a step of a client is to the service: it reports failure, or success
\* after it was served, or nothing; and it may join those who wait.
ClientReport(c) ==
    /\ Served(c)' <=> Served(c)
    /\ \/ OutcomeOf(cPc'[c]) = OutcomeOf(cPc[c])
       \/ OutcomeOf(cPc[c]) = "open" /\ OutcomeOf(cPc'[c]) = "failure"
       \/ OutcomeOf(cPc[c]) = "open" /\ OutcomeOf(cPc'[c]) = "success" /\ Served(c)
    /\ UNCHANGED srvVars
    /\ \/ UNCHANGED <<backlog, listening>>
       \/ /\ cPc[c] \in {"idle", "streams"} /\ listening /\ listening' = listening
          /\ \E k \in Conns : Owner(k) = c /\ backlog' = Append(backlog, k)

\* Every step of a client is one of these.
LEMMA ClientReports ==
    ASSUME TypeInv, NEW c \in Clients, ClientStep(c) \/ ClientFault(c)
    PROVE  ClientReport(c)
<1>t. /\ Ctrl(c) \in Conns /\ Owner(Ctrl(c)) = c
      /\ down \in [Conns -> Seq(Message)] /\ down[Ctrl(c)] \in Seq(Message)
      /\ cPc \in [Clients -> CPc]
    BY CtrlConn DEF TypeInv, TypeOK
<1>f. ASSUME NEW err, ClientFails(c, err) PROVE cPc'[c] = "failed"
    BY <1>t, <1>f DEF ClientFails
<1>g. ASSUME NEW pc, NEW state, ClientGoes(c, pc, state) PROVE cPc'[c] = pc
    BY <1>t, <1>g DEF ClientGoes
<1>r. ASSUME NEW t, ClientReads(c, t), t # "DISPLAY_RESULTS"
      PROVE  cPc[c] = "loop" /\ (HasResults(down'[Ctrl(c)]) <=> HasResults(down[Ctrl(c)]))
    BY <1>t, <1>r, OtherWords DEF ClientReads
<1>s. ASSUME HasResults(down'[Ctrl(c)]) <=> HasResults(down[Ctrl(c)]),
             cPc[c] # "ended", cPc'[c] # "ended", UNCHANGED srvVars,
             OutcomeOf(cPc[c]) = "open",
             \/ UNCHANGED <<backlog, listening>>
             \/ /\ cPc[c] \in {"idle", "streams"} /\ listening /\ listening' = listening
                /\ \E k \in Conns : Owner(k) = c /\ backlog' = Append(backlog, k)
      PROVE  ClientReport(c)
    BY <1>s, ServedIs DEF ClientReport, OutcomeOf
<1>o. \A pc \in {"idle", "dialed", "loop", "streams", "streamCookie", "results"} :
          OutcomeOf(pc) = "open"
    BY DEF OutcomeOf
<1>1. CASE iperf_connect(c)
    BY <1>1, <1>t, <1>f, <1>g, <1>o, <1>s DEF iperf_connect, Dial
<1>2. CASE iperf_connect_cookie(c)
    BY <1>2, <1>g, <1>o, <1>s DEF iperf_connect_cookie
<1>3. CASE ClientParamExchange(c)
    BY <1>3, <1>g, <1>o, <1>r, <1>s DEF ClientParamExchange
<1>4. CASE ClientCreateStreams(c)
    BY <1>4, <1>g, <1>o, <1>r, <1>s DEF ClientCreateStreams
<1>5. CASE iperf_tcp_connect(c)
  <2> DEFINE n == Len(cStreams[c]) + 1
  <2>1. n \in Nat /\ n >= 1 /\ n <= StreamsTotal(cOpt[c]) /\ cOpt[c] \in Config
    BY <1>5, QueueType DEF iperf_tcp_connect, StreamsTotal, Config
  <2>2. <<c, n>> \in Conns /\ Owner(<<c, n>>) = c
    BY <2>1, StreamConn DEF Owner
  <2>3. /\ Dial(<<c, n>>) /\ cPc[c] = "streams" /\ cPc'[c] = "streamCookie"
        /\ UNCHANGED srvVars
    BY <1>5, <1>g DEF iperf_tcp_connect
  <2> QED
    BY <1>o, <1>s, <2>2, <2>3 DEF Dial
<1>6. CASE iperf_create_streams(c)
    BY <1>6, <1>g, <1>o, <1>s DEF iperf_create_streams
<1>7. CASE ClientConnectError(c)
    BY <1>7, <1>f, <1>o, <1>s DEF ClientConnectError
<1>8. CASE ClientTestPhase(c)
    BY <1>8, <1>g, <1>o, <1>r, <1>s DEF ClientTestPhase
<1>9. CASE ClientTestEnd(c)
    BY <1>9, <1>g, <1>o, <1>s DEF ClientTestEnd
<1>10. CASE ClientStreamError(c)
    BY <1>10, <1>f, <1>o, <1>s DEF ClientStreamError
<1>11. CASE ClientExchangeResults(c)
    BY <1>11, <1>g, <1>o, <1>r, <1>s DEF ClientExchangeResults
<1>12. CASE ClientGetResults(c)
  <2>1. HasResults(down'[Ctrl(c)]) <=> HasResults(down[Ctrl(c)])
    BY <1>12, <1>t, OtherWords DEF ClientGetResults
  <2>2. cPc[c] = "results" /\ cPc'[c] \in {"loop", "failed"}
        /\ UNCHANGED <<backlog, listening, srvVars>>
    BY <1>12, <1>f, <1>g DEF ClientGetResults
  <2> QED
    BY <1>o, <1>s, <2>1, <2>2
<1>13. CASE iperf_client_end(c)
  <2>1. /\ cPc[c] = "loop" /\ cPc'[c] = "ended" /\ UNCHANGED <<backlog, listening, srvVars>>
        /\ down[Ctrl(c)] # <<>> /\ Head(down[Ctrl(c)]).t = "DISPLAY_RESULTS"
    BY <1>13, <1>g DEF iperf_client_end, ClientReads
  <2>2. 1 \in DOMAIN down[Ctrl(c)] /\ Head(down[Ctrl(c)]) = down[Ctrl(c)][1]
    BY <1>t, <2>1
  <2>3. Served(c) /\ Served(c)'
    BY <2>1, <2>2, ServedIs DEF HasResults
  <2> QED
    BY <2>1, <2>3 DEF ClientReport, OutcomeOf
<1>14. CASE ClientRefused(c)
    BY <1>14, <1>f, <1>o, <1>r, <1>s DEF ClientRefused
<1>15. CASE ClientEOF(c)
    BY <1>15, <1>f, <1>o, <1>s DEF ClientEOF
<1>16. CASE ClientReset(c)
    BY <1>16, <1>f, <1>o, <1>s DEF ClientReset
<1>17. CASE iperf_got_sigend_client(c)
    BY <1>17, <1>g, <1>o, <1>s DEF iperf_got_sigend_client
<1>18. CASE ClientCrash(c)
  <2>1. /\ cPc[c] # "ended" /\ cPc'[c] = "killed" /\ UNCHANGED <<down, backlog, listening, srvVars>>
        /\ OutcomeOf(cPc[c]) = "open" \/ cPc[c] = "failed"
    BY <1>18, <1>t, <1>o DEF ClientCrash
  <2> QED
    BY <2>1, ServedIs DEF ClientReport, OutcomeOf
<1> QED
    BY <1>1, <1>2, <1>3, <1>4, <1>5, <1>6, <1>7, <1>8, <1>9, <1>10, <1>11, <1>12, <1>13,
       <1>14, <1>15, <1>16, <1>17, <1>18
       DEF ClientStep, ClientFault, ClientConnectRefused

\* The queue after somebody joined it.
LEMMA QueueGrows ==
    ASSUME TypeInv, NEW k \in Conns, backlog' = Append(backlog, k)
    PROVE  Queued' \subseteq Queued \cup {k}
<1>1. /\ backlog \in Seq(Conns) /\ DOMAIN backlog = 1..Len(backlog)
      /\ DOMAIN backlog' = 1..(Len(backlog) + 1)
      /\ \A i \in 1..(Len(backlog) + 1) : backlog'[i] = IF i <= Len(backlog) THEN backlog[i] ELSE k
    BY DEF TypeInv, TypeOK
<1>2. \A i \in 1..(Len(backlog) + 1) : i <= Len(backlog) => i \in 1..Len(backlog)
    BY <1>1
<1> QED
    BY <1>1, <1>2 DEF Queued

\* A step of a client is a step of the service.
LEMMA ClientServiceStep ==
    ASSUME TypeInv, PhaseInv, ServiceInv, NEW c \in Clients, ClientStep(c) \/ ClientFault(c)
    PROVE  ServiceInv' /\ [Service!Next]_(Service!vars)
<1>1. ClientReport(c)
    BY ClientReports
<1>2. \A d \in Clients : d # c => cPc'[d] = cPc[d] /\ down'[Ctrl(d)] = down[Ctrl(d)]
    BY OthersApart DEF Apart
<1>3. \A d \in Clients : Served(d)' <=> Served(d)
  <2> TAKE d \in Clients
  <2>1. CASE d = c
    BY <1>1, <2>1 DEF ClientReport
  <2>2. CASE d # c
    BY <1>2, <2>2, ServedIs
  <2> QED
    BY <2>1, <2>2
<1>4. UNCHANGED srvVars /\ UNCHANGED <<sPc, sCtrl, sState>>
    BY <1>1 DEF ClientReport, srvVars
<1>5. ServiceInv'
  <2>1. CASE UNCHANGED <<backlog, listening>>
    <3>1. Queued' = Queued /\ \A k \in Queued : Owner(k) \in Clients
      BY <2>1, OwnerIsClient DEF Queued, TypeInv, TypeOK
    <3> QED
      BY <1>3, <1>4, <2>1, <3>1 DEF ServiceInv
  <2>2. CASE /\ cPc[c] \in {"idle", "streams"} /\ listening /\ listening' = listening
             /\ \E k \in Conns : Owner(k) = c /\ backlog' = Append(backlog, k)
    <3>1. PICK k \in Conns : Owner(k) = c /\ backlog' = Append(backlog, k)
      BY <2>2
    <3>a. \A j \in Queued : Owner(j) \in Clients
      BY OwnerIsClient DEF Queued, TypeInv, TypeOK
    <3>2. Queued' \subseteq Queued \cup {k} /\ \A j \in Queued : Owner(j) \in Clients
      BY <3>a, <3>1, QueueGrows
    <3>3. ~Served(c)
      BY <2>2, DialingUnserved
    <3> QED
      BY <1>3, <1>4, <2>2, <3>1, <3>2, <3>3 DEF ServiceInv
  <2> QED
    BY <1>1, <2>1, <2>2 DEF ClientReport
<1>6. UNCHANGED <<Holder, Phase>>
    BY <1>4, PhaseIs DEF Holder
<1> DEFINE served == {d \in Clients : Served(d)}
           reports == [d \in Clients |-> Outcome(d)]
<1>7. served' = served
    BY <1>3
<1>8. \A d \in Clients : d # c => Outcome(d)' = Outcome(d)
    BY <1>2, OutcomeIs
<1>9. /\ Outcome(c) = OutcomeOf(cPc[c]) /\ Outcome(c)' = OutcomeOf(cPc'[c])
      /\ reports[c] = Outcome(c)
    BY OutcomeIs
<1>10. CASE OutcomeOf(cPc'[c]) = OutcomeOf(cPc[c])
  <2>1. \A d \in Clients : Outcome(d)' = Outcome(d)
    BY <1>8, <1>9, <1>10
  <2>2. reports' = reports
    BY <2>1
  <2> QED
    BY <1>5, <1>6, <1>7, <2>2 DEF Service!vars
<1>11. CASE OutcomeOf(cPc[c]) = "open" /\ OutcomeOf(cPc'[c]) = "failure"
  <2>1. reports' = [reports EXCEPT ![c] = "failure"]
    BY <1>8, <1>9, <1>11
  <2>2. Service!Fail(c)
    BY <1>6, <1>7, <1>9, <1>11, <2>1 DEF Service!Fail
  <2> QED
    BY <1>5, <2>2 DEF Service!Next
<1>12. CASE OutcomeOf(cPc[c]) = "open" /\ OutcomeOf(cPc'[c]) = "success" /\ Served(c)
  <2>1. reports' = [reports EXCEPT ![c] = "success"]
    BY <1>8, <1>9, <1>12
  <2>2. Service!Succeed(c)
    BY <1>6, <1>7, <1>9, <1>12, <2>1 DEF Service!Succeed
  <2> QED
    BY <1>5, <2>2 DEF Service!Next
<1> QED
    BY <1>1, <1>10, <1>11, <1>12 DEF ClientReport

-----------------------------------------------------------------------------
(* Steps of the server. *)

\* What the server says to anybody, other than DISPLAY_RESULTS, serves nobody.
LEMMA SaysOther ==
    ASSUME TypeInv, UNCHANGED cPc,
           \/ down' = down
           \/ \E k \in Conns, t \in State \ {"DISPLAY_RESULTS"} : ServerSend(k, <<Msg(t)>>)
           \/ \E k \in Conns : ServerSend(k, <<Msg("TEST_START"), Msg("TEST_RUNNING")>>)
    PROVE  \A c \in Clients : Served(c)' <=> Served(c)
<1>1. ASSUME NEW k \in Conns, NEW ms \in Seq(Message), ~HasResults(ms), ServerSend(k, ms),
             NEW c \in Clients
      PROVE  Served(c)' <=> Served(c)
  <2>1. Ctrl(c) \in Conns /\ down \in [Conns -> Seq(Message)] /\ down[Ctrl(c)] \in Seq(Message)
    BY CtrlConn DEF TypeInv, TypeOK
  <2>2. down'[Ctrl(c)] = down[Ctrl(c)] \/ down'[Ctrl(c)] = down[Ctrl(c)] \o ms
    BY <1>1, <2>1 DEF ServerSend
  <2>3. HasResults(down'[Ctrl(c)]) <=> HasResults(down[Ctrl(c)])
    BY <1>1, <2>1, <2>2, OtherWords
  <2> QED
    BY <2>3, ServedIs
<1>2. ASSUME NEW t \in State \ {"DISPLAY_RESULTS"}
      PROVE  <<Msg(t)>> \in Seq(Message) /\ ~HasResults(<<Msg(t)>>)
  <2>1. Msg(t) \in Message /\ Msg(t).t # "DISPLAY_RESULTS"
    BY MsgType DEF Msg
  <2> QED
    BY <2>1 DEF HasResults
<1>3. /\ <<Msg("TEST_START"), Msg("TEST_RUNNING")>> \in Seq(Message)
      /\ ~HasResults(<<Msg("TEST_START"), Msg("TEST_RUNNING")>>)
  <2>1. /\ Msg("TEST_START") \in Message /\ Msg("TEST_START").t # "DISPLAY_RESULTS"
        /\ Msg("TEST_RUNNING") \in Message /\ Msg("TEST_RUNNING").t # "DISPLAY_RESULTS"
    BY MsgType DEF Msg, State
  <2>2. ASSUME NEW x \in Message, NEW y \in Message,
               x.t # "DISPLAY_RESULTS", y.t # "DISPLAY_RESULTS"
        PROVE  <<x, y>> \in Seq(Message) /\ ~HasResults(<<x, y>>)
    BY <2>2 DEF HasResults
  <2> QED
    BY <2>1, <2>2
<1>4. CASE down' = down
    BY <1>4, ServedIs
<1> QED
    BY <1>1, <1>2, <1>3, <1>4

\* Serving nobody and hearing of nobody, the server leaves two variables of the
\* service alone.
LEMMA ServesNobody ==
    ASSUME UNCHANGED cliVars, \A c \in Clients : Served(c)' <=> Served(c)
    PROVE  UNCHANGED <<{c \in Clients : Served(c)}, [c \in Clients |-> Outcome(c)]>>
<1>1. \A c \in Clients : Outcome(c)' = Outcome(c)
    BY OutcomeIs DEF cliVars
<1> QED
    BY <1>1

\* Those who wait stay as they are when the server serves nobody.
LEMMA WaitersStay ==
    ASSUME TypeInv, ServiceInv, \A c \in Clients : Served(c)' <=> Served(c),
           Queued' \subseteq Queued, sCtrl' = sCtrl \/ sCtrl = NoConn \/ backlog = <<>>,
           sPc' \in {"ended", "exited"} => (backlog' = <<>> /\ ~listening')
    PROVE  ServiceInv'
<1>1. \A k \in Queued : Owner(k) \in Clients /\ Ctrl(Owner(k)) # NoConn
    BY OwnerIsClient, CtrlDistinct DEF Queued, TypeInv, TypeOK
<1>2. backlog = <<>> => Queued = {}
    BY DEF Queued
<1> QED
    BY <1>1, <1>2 DEF ServiceInv

\* The end of a test is the end of a session, and serves nobody.
LEMMA EndServes ==
    ASSUME TypeInv, ServiceInv, sPc \notin {"ended", "exited"}, sPc' \in {"ended", "exited"},
           backlog' = <<>>, ~listening', UNCHANGED <<sCtrl, cliVars>>,
           \A c \in Clients : Served(c)' <=> Served(c)
    PROVE  ServiceInv' /\ Service!Next
<1>1. Queued' \subseteq Queued
    BY QueuedEmpty
<1>2. ServiceInv'
    BY <1>1, WaitersStay
<1>3. UNCHANGED Holder /\ Phase # "over" /\ Phase' = "over"
    BY PhaseIs DEF PhaseOf, Holder
<1>4. Service!Close
    BY <1>3, ServesNobody DEF Service!Close
<1> QED
    BY <1>2, <1>4 DEF Service!Next

\* A step that leaves the phase alone and serves nobody is none of the service.
LEMMA StutterServes ==
    ASSUME TypeInv, ServiceInv, UNCHANGED <<sCtrl, cliVars>>, Queued' \subseteq Queued,
           PhaseOf(sPc', sCtrl, sState') = PhaseOf(sPc, sCtrl, sState),
           sPc' \in {"ended", "exited"} => (backlog' = <<>> /\ ~listening'),
           \A c \in Clients : Served(c)' <=> Served(c)
    PROVE  ServiceInv' /\ UNCHANGED Service!vars
<1>1. ServiceInv'
    BY WaitersStay
<1>2. UNCHANGED <<Holder, Phase>>
    BY PhaseIs DEF Holder
<1> QED
    BY <1>1, <1>2, ServesNobody DEF Service!vars

\* iperf_accept takes a client on that has not been served.
LEMMA AcceptServes ==
    ASSUME TypeInv, PhaseInv, ServiceInv, NEW k \in Conns, iperf_accept(k)
    PROVE  ServiceInv' /\ Service!Next
<1>1. /\ sPc = "loop" /\ sCtrl = NoConn /\ sCtrl' = k /\ sPc' = "cookie" /\ sState' = sState
      /\ backlog # <<>> /\ k = Head(backlog) /\ backlog' = Tail(backlog)
      /\ UNCHANGED <<down, listening, cliVars, cPc>>
    BY DEF iperf_accept, SelectOk, cliVars
<1>2. k \in Queued /\ Queued' \subseteq Queued
    BY <1>1, BacklogShrinks
<1>3. \A c \in Clients : Served(c)' <=> Served(c)
    BY <1>1, SaysOther
<1>4. ServiceInv'
    BY <1>1, <1>2, <1>3, WaitersStay
<1>5. Owner(k) \in Clients /\ Ctrl(Owner(k)) # NoConn /\ k # NoConn
    BY OwnerIsClient, CtrlDistinct
<1>6. ~Served(Owner(k))
    BY <1>1, <1>2, <1>5 DEF ServiceInv
<1>7. sState = "IPERF_START"
    BY <1>1 DEF PhaseInv, ServerStage
<1>8. Phase = "free" /\ Phase' = "setup" /\ Holder' = Owner(k)
    BY <1>1, <1>5, <1>7, PhaseIs DEF PhaseOf, Holder
<1>9. Service!Take(Owner(k))
    BY <1>1, <1>3, <1>6, <1>8, ServesNobody DEF Service!Take
<1> QED
    BY <1>4, <1>5, <1>9 DEF Service!Next

\* With the last stream the test begins.
LEMMA AcceptStreamServes ==
    ASSUME TypeInv, PhaseInv, ServiceInv, AcceptStream
    PROVE  ServiceInv' /\ [Service!Next]_(Service!vars)
<1>1. /\ sPc = "streamCookie" /\ sPc' = "loop" /\ sCtrl' = sCtrl /\ UNCHANGED <<cliVars, cPc>>
      /\ \/ /\ sState' = "TEST_RUNNING"
            /\ ServerSend(sCtrl, <<Msg("TEST_START"), Msg("TEST_RUNNING")>>)
         \/ sState' = sState /\ down' = down
      /\ backlog' = <<>> \/ UNCHANGED backlog
    BY DEF AcceptStream, iperf_tcp_listen, cliVars
<1>2. sCtrl # NoConn /\ sCtrl \in Conns
    BY <1>1 DEF TypeInv, TypeOK, WaitsOnSocket
<1>3. sState = "CREATE_STREAMS"
    BY <1>1, <1>2 DEF PhaseInv, ServerStage, Stages
<1>4. \A c \in Clients : Served(c)' <=> Served(c)
    BY <1>1, <1>2, SaysOther
<1>5. Queued' \subseteq Queued
    BY <1>1, QueuedEmpty
<1>6. CASE sState' = sState
  <2>1. PhaseOf(sPc', sCtrl, sState') = PhaseOf(sPc, sCtrl, sState)
    BY <1>1, <1>6 DEF PhaseOf
  <2> QED
    BY <1>1, <1>4, <1>5, <2>1, StutterServes
<1>7. CASE sState' = "TEST_RUNNING"
  <2>1. Phase = "setup" /\ Phase' = "test" /\ Holder' = Holder
    BY <1>1, <1>2, <1>3, <1>7, PhaseIs DEF PhaseOf, Holder
  <2>2. Service!Advance
    BY <1>1, <1>4, <2>1, ServesNobody DEF Service!Advance
  <2>3. ServiceInv'
    BY <1>1, <1>4, <1>5, WaitersStay
  <2> QED
    BY <2>2, <2>3 DEF Service!Next
<1> QED
    BY <1>1, <1>6, <1>7

\* TEST_END is read while the test runs, and the results are next.
LEMMA TestEndServes ==
    ASSUME TypeInv, PhaseInv, ServiceInv, ServerTestEnd
    PROVE  ServiceInv' /\ Service!Next
<1>1. /\ sPc = "loop" /\ sPc' = "results" /\ sCtrl' = sCtrl /\ sCtrl # NoConn /\ sCtrl \in Conns
      /\ sState' = "EXCHANGE_RESULTS" /\ ServerSend(sCtrl, <<Msg("EXCHANGE_RESULTS")>>)
      /\ UNCHANGED <<backlog, cliVars, cPc>>
      /\ SelectOk /\ up[sCtrl] # <<>> /\ Head(up[sCtrl]).t = "TEST_END"
    BY DEF ServerTestEnd, SelectOk, ServerFinds, cliVars, TypeInv, TypeOK
<1>2. sState = "TEST_RUNNING"
    BY <1>1, ServerMeets
<1>3. \A c \in Clients : Served(c)' <=> Served(c)
    BY <1>1, SaysOther DEF State
<1>4. Queued' \subseteq Queued
    BY <1>1, QueuedEmpty
<1>5. Phase = "test" /\ Phase' = "results" /\ Holder' = Holder
    BY <1>1, <1>2, PhaseIs DEF PhaseOf, Holder
<1>6. Service!Advance
    BY <1>1, <1>3, <1>5, ServesNobody DEF Service!Advance
<1>7. ServiceInv'
    BY <1>1, <1>3, <1>4, WaitersStay
<1> QED
    BY <1>6, <1>7 DEF Service!Next

\* DISPLAY_RESULTS goes to the client of the test and to nobody else.
LEMMA ResultsServe ==
    ASSUME TypeInv, PhaseInv, ServiceInv, iperf_exchange_results
    PROVE  ServiceInv' /\ Service!Next
<1>1. /\ sPc = "results" /\ sCtrl' = sCtrl /\ UNCHANGED <<cliVars, cPc>>
    BY DEF iperf_exchange_results, cliVars
<1>2. sCtrl # NoConn /\ sCtrl \in Conns
    BY <1>1 DEF TypeInv, TypeOK, WaitsOnSocket
<1>3. sState = "EXCHANGE_RESULTS" /\ sCtrl = Ctrl(Owner(sCtrl))
    BY <1>1, <1>2 DEF PhaseInv, ServerStage, Stages
<1>4. CASE cleanup_server({}, "IESTREAMID") /\ UNCHANGED <<down, sState>>
  <2>1. \A c \in Clients : Served(c)' <=> Served(c)
    BY <1>1, <1>4, SaysOther
  <2>2. sPc' = "ended" /\ backlog' = <<>> /\ ~listening'
    BY <1>4 DEF cleanup_server
  <2> QED
    BY <1>1, <2>1, <2>2, EndServes
<1>5. CASE /\ ServerSend(sCtrl, <<[t |-> "RESULTS", ids |-> IdsOf(sStreams)], Msg("DISPLAY_RESULTS")>>)
           /\ sState' = "DISPLAY_RESULTS" /\ sPc' = "loop"
           /\ UNCHANGED <<sEnd, backlog, listening, sPend, sTimer, sErr>>
  <2> DEFINE x == [t |-> "RESULTS", ids |-> IdsOf(sStreams)]
             y == Msg("DISPLAY_RESULTS")
             d == down[sCtrl]
  <2>1. PICK c \in Clients : sCtrl = Ctrl(c) /\ Owner(sCtrl) = c
    BY <1>2, <1>3, OwnerIsClient
  <2>2. x \in Message /\ y \in Message /\ y.t = "DISPLAY_RESULTS" /\ d \in Seq(Message)
        /\ down \in [Conns -> Seq(Message)]
    BY <1>2, MsgType, IdsType DEF Msg, State, TypeInv, TypeOK
  <2>3. down'[sCtrl] = d \o <<x, y>> /\ \A k \in Conns : k # sCtrl => down'[k] = down[k]
    BY <1>2, <1>5, <2>2 DEF ServerSend
  <2> HIDE DEF x, y
  <2>4. HasResults(d \o <<x, y>>)
    <3>1. <<x, y>> \in Seq(Message) /\ Len(<<x, y>>) = 2 /\ <<x, y>>[2] = y
      BY <2>2
    <3>2. Len(d) + 2 \in DOMAIN (d \o <<x, y>>) /\ (d \o <<x, y>>)[Len(d) + 2] = y
      BY <2>2, <3>1
    <3> QED
      BY <2>2, <3>2 DEF HasResults
  <2>5. Served(c)'
    BY <2>1, <2>3, <2>4, ServedIs
  <2>6. \A e \in Clients : e # c => (Served(e)' <=> Served(e))
    BY <1>1, <2>1, <2>3, ServedIs, CtrlDistinct, CtrlConn
  <2>7. {e \in Clients : Served(e)}' = {e \in Clients : Served(e)} \cup {c}
    BY <2>5, <2>6
  <2>8. Phase = "results" /\ Phase' = "shown" /\ Holder' = Holder /\ Holder = c
    BY <1>1, <1>2, <1>3, <1>5, <2>1, PhaseIs DEF PhaseOf, Holder
  <2>9. \A e \in Clients : Outcome(e)' = Outcome(e)
    BY <1>1, OutcomeIs
  <2>10. Service!Deliver
    BY <2>7, <2>8, <2>9 DEF Service!Deliver
  <2>11. ServiceInv'
    <3>1. Queued' = Queued /\ \A k \in Queued : Owner(k) \in Clients
      BY <1>5, OwnerIsClient DEF Queued, TypeInv, TypeOK
    <3> QED
      BY <1>1, <1>5, <2>1, <2>6, <3>1 DEF ServiceInv
  <2> QED
    BY <2>10, <2>11 DEF Service!Next
<1> QED
    BY <1>4, <1>5 DEF iperf_exchange_results

\* Every step of the server is a step of the service, or none.
LEMMA ServerServiceStep ==
    ASSUME TypeInv, PhaseInv, ServiceInv, ServerStep \/ server_timer_proc \/ ServerFault
    PROVE  ServiceInv' /\ [Service!Next]_(Service!vars)
<1>a. cliVars' = cliVars => cPc' = cPc
    BY DEF cliVars
<1>c. ASSUME NEW S, NEW err, cleanup_server(S, err), UNCHANGED <<sCtrl, cliVars>>,
             sPc \notin {"ended", "exited"},
             down' = down \/ (sCtrl \in Conns /\ ServerSend(sCtrl, <<Msg("SERVER_ERROR")>>))
      PROVE  ServiceInv' /\ Service!Next
  <2>1. \A c \in Clients : Served(c)' <=> Served(c)
    BY <1>a, <1>c, SaysOther DEF State
  <2>2. sPc' = "ended" /\ backlog' = <<>> /\ ~listening'
    BY <1>c DEF cleanup_server
  <2> QED
    BY <1>c, <2>1, <2>2, EndServes
<1>1. CASE \E k \in Conns : iperf_accept_busy(k)
  <2>1. PICK k \in Conns : iperf_accept_busy(k)
    BY <1>1
  <2>2. /\ ServerSend(k, <<Msg("ACCESS_DENIED")>>) /\ UNCHANGED <<cliVars, sCtrl, sPc, sState>>
        /\ sPc = "loop" /\ backlog # <<>> /\ backlog' = Tail(backlog)
    BY <2>1 DEF iperf_accept_busy, SelectOk, srvVars
  <2>3. \A c \in Clients : Served(c)' <=> Served(c)
    BY <1>a, <2>2, SaysOther DEF State
  <2>4. Queued' \subseteq Queued
    BY <2>2, BacklogShrinks
  <2> QED
    BY <2>2, <2>3, <2>4, StutterServes
<1>2. CASE iperf_accept_cookie
  <2>1. /\ sPc = "cookie" /\ sPc' = "params" /\ sState' = "PARAM_EXCHANGE"
        /\ ServerSend(sCtrl, <<Msg("PARAM_EXCHANGE")>>) /\ UNCHANGED <<cliVars, sCtrl, backlog>>
    BY <1>2 DEF iperf_accept_cookie
  <2>2. sCtrl # NoConn /\ sCtrl \in Conns
    BY <2>1 DEF TypeInv, TypeOK, WaitsOnSocket
  <2>3. sState = "IPERF_START"
    BY <2>1, <2>2 DEF PhaseInv, ServerStage, Stages
  <2>4. PhaseOf(sPc', sCtrl, sState') = PhaseOf(sPc, sCtrl, sState)
    BY <2>1, <2>2, <2>3 DEF PhaseOf
  <2>5. \A c \in Clients : Served(c)' <=> Served(c)
    BY <1>a, <2>1, <2>2, SaysOther DEF State
  <2> QED
    BY <2>1, <2>4, <2>5, QueuedEmpty, StutterServes
<1>3. CASE iperf_exchange_parameters
  <2>1. /\ sPc = "params" /\ sPc' = "loop" /\ sState' = "CREATE_STREAMS"
        /\ ServerSend(sCtrl, <<Msg("CREATE_STREAMS")>>) /\ UNCHANGED <<cliVars, sCtrl>>
        /\ backlog' = <<>> \/ UNCHANGED backlog
    BY <1>3 DEF iperf_exchange_parameters, iperf_tcp_listen
  <2>2. sCtrl # NoConn /\ sCtrl \in Conns
    BY <2>1 DEF TypeInv, TypeOK, WaitsOnSocket
  <2>3. sState = "PARAM_EXCHANGE"
    BY <2>1, <2>2 DEF PhaseInv, ServerStage, Stages
  <2>4. PhaseOf(sPc', sCtrl, sState') = PhaseOf(sPc, sCtrl, sState)
    BY <2>1, <2>2, <2>3 DEF PhaseOf
  <2>5. \A c \in Clients : Served(c)' <=> Served(c)
    BY <1>a, <2>1, <2>2, SaysOther DEF State
  <2>6. Queued' \subseteq Queued
    BY <2>1, QueuedEmpty
  <2> QED
    BY <2>1, <2>4, <2>5, <2>6, StutterServes
<1>4. CASE iperf_tcp_accept
  <2>1. /\ sPc = "loop" /\ sPc' = "streamCookie" /\ UNCHANGED <<down, cliVars, sCtrl, sState>>
        /\ backlog # <<>> /\ backlog' = Tail(backlog)
    BY <1>4 DEF iperf_tcp_accept, SelectOk
  <2>2. PhaseOf(sPc', sCtrl, sState') = PhaseOf(sPc, sCtrl, sState)
    BY <2>1 DEF PhaseOf
  <2>3. \A c \in Clients : Served(c)' <=> Served(c)
    BY <1>a, <2>1, SaysOther
  <2> QED
    BY <2>1, <2>2, <2>3, BacklogShrinks, StutterServes
<1>5. CASE DenyStream
  <2>1. /\ sPc = "streamCookie" /\ sPc' = "loop" /\ UNCHANGED <<cliVars, sCtrl, sState, backlog>>
        /\ ServerSend(sPend, <<Msg("ACCESS_DENIED")>>)
    BY <1>5 DEF DenyStream
  <2>2. sPend \in Conns
    BY <2>1 DEF TypeInv, TypeOK, WaitsOnSocket
  <2>3. PhaseOf(sPc', sCtrl, sState') = PhaseOf(sPc, sCtrl, sState)
    BY <2>1 DEF PhaseOf
  <2>4. \A c \in Clients : Served(c)' <=> Served(c)
    BY <1>a, <2>1, <2>2, SaysOther DEF State
  <2> QED
    BY <2>1, <2>3, <2>4, QueuedEmpty, StutterServes
<1>6. CASE ServerLeaves
  <2>1. /\ \E S, err : cleanup_server(S, err)
        /\ sPc = "loop" /\ UNCHANGED <<down, cliVars, sCtrl>>
    BY <1>6, Zenon DEF ServerLeaves, SelectOk
  <2> QED
    BY <1>c, <2>1
<1>7. CASE ServerEOF
  <2>1. sPc \in {"loop", "params", "results"}
    BY <1>7 DEF ServerEOF, SelectOk
  <2> QED
    BY <1>7, <1>c, <2>1 DEF ServerEOF
<1>8. CASE ServerReset
  <2>1. sPc \in {"loop", "params", "cookie", "results", "streamCookie"}
    BY <1>8 DEF ServerReset, SelectOk
  <2> QED
    BY <1>8, <1>c, <2>1 DEF ServerReset
<1>9. CASE SelectError
    BY <1>9, <1>c DEF SelectError
<1>10. CASE ListenError
  <2>1. sPc = "params" /\ sCtrl \in Conns
    BY <1>10 DEF ListenError, TypeInv, TypeOK, WaitsOnSocket
  <2> QED
    BY <1>10, <1>c, <2>1 DEF ListenError
<1>11. CASE server_timer_proc
  <2>1. UNCHANGED <<down, cliVars, sCtrl, sState, sPc, backlog>> /\ sPc = "loop"
    BY <1>11 DEF server_timer_proc, SelectOk
  <2>2. \A c \in Clients : Served(c)' <=> Served(c)
    BY <1>a, <2>1, SaysOther
  <2> QED
    BY <2>1, <2>2, QueuedEmpty, StutterServes
<1>12. CASE iperf_reset_test
  <2>1. /\ sPc = "ended" /\ sPc' = "loop" /\ sCtrl' = NoConn
        /\ UNCHANGED <<down, cliVars, backlog>>
    BY <1>12 DEF iperf_reset_test
  <2>2. backlog = <<>>
    BY <2>1 DEF ServiceInv
  <2>3. \A c \in Clients : Served(c)' <=> Served(c)
    BY <1>a, <2>1, SaysOther
  <2>4. ServiceInv'
    BY <2>1, <2>2, <2>3, QueuedEmpty, WaitersStay
  <2>5. Phase = "over" /\ Phase' = "free" /\ Holder' = NoClient
    BY <2>1, PhaseIs DEF PhaseOf, Holder
  <2>6. Service!Free
    BY <2>1, <2>3, <2>5, ServesNobody DEF Service!Free
  <2> QED
    BY <2>4, <2>6 DEF Service!Next
<1>13. CASE iperf_got_sigend_server
  <2>1. /\ sPc # "exited" /\ sPc' = "exited" /\ backlog' = <<>> /\ ~listening'
        /\ UNCHANGED <<cliVars, sCtrl, sState>>
        /\ down' = down \/ (sCtrl # NoConn /\ ServerSend(sCtrl, <<Msg("SERVER_TERMINATE")>>))
    BY <1>13 DEF iperf_got_sigend_server
  <2>2. \A c \in Clients : Served(c)' <=> Served(c)
    BY <1>a, <2>1, SaysOther DEF State, TypeInv, TypeOK
  <2>3. CASE sPc = "ended"
    <3>1. PhaseOf(sPc', sCtrl, sState') = PhaseOf(sPc, sCtrl, sState)
      BY <2>1, <2>3 DEF PhaseOf
    <3> QED
      BY <2>1, <2>2, <3>1, QueuedEmpty, StutterServes
  <2>4. CASE sPc # "ended"
    BY <2>1, <2>2, <2>4, EndServes
  <2> QED
    BY <2>3, <2>4
<1>14. CASE ReopenError
  <2>1. /\ sPc = "streamCookie" /\ UNCHANGED <<down, cliVars, sCtrl>>
        /\ cleanup_server({}, "IELISTEN")
    BY <1>14 DEF ReopenError
  <2> QED
    BY <1>c, <2>1
<1> QED
    BY <1>1, <1>2, <1>3, <1>4, <1>5, <1>6, <1>7, <1>8, <1>9, <1>10, <1>11, <1>12, <1>13, <1>14,
       AcceptServes, AcceptStreamServes, TestEndServes, ResultsServe DEF ServerStep, ServerFault

-----------------------------------------------------------------------------
\* The service begins where the protocol does.
LEMMA ServiceInit == Init => ServiceInv /\ Service!Init
<1> SUFFICES ASSUME Init PROVE ServiceInv /\ Service!Init
    OBVIOUS
<1>1. \A c \in Clients : ~Served(c) /\ Outcome(c) = "open"
    BY CtrlConn, ServedIs, OutcomeIs DEF Init, HasResults, OutcomeOf
<1>2. Phase = "free" /\ Holder = NoClient
    BY PhaseIs DEF Init, PhaseOf, Holder
<1>3. {c \in Clients : Served(c)} = {} /\ [c \in Clients |-> Outcome(c)] = [c \in Clients |-> "open"]
    BY <1>1
<1>4. ServiceInv
    BY DEF Init, ServiceInv, Queued
<1> QED
    BY <1>2, <1>3, <1>4 DEF Service!Init

\* Every step of the protocol is one of the service.
LEMMA ServiceStep ==
    TypeInv /\ PhaseInv /\ ServiceInv /\ [Next]_vars => ServiceInv' /\ [Service!Next]_(Service!vars)
<1>1. ASSUME TypeInv, PhaseInv, ServiceInv, UNCHANGED vars
      PROVE  ServiceInv' /\ UNCHANGED Service!vars
  <2>1. UNCHANGED <<down, backlog, listening, cPc, cliVars, sCtrl, sPc, sState>>
    BY <1>1 DEF vars, netVars, cliVars, srvVars
  <2>2. \A c \in Clients : Served(c)' <=> Served(c)
    BY <2>1, ServedIs
  <2>3. Queued' = Queued
    BY <2>1 DEF Queued
  <2>4. sPc' \in {"ended", "exited"} => backlog' = <<>> /\ ~listening'
    BY <1>1, <2>1 DEF ServiceInv
  <2> QED
    BY <1>1, <2>1, <2>2, <2>3, <2>4, StutterServes
<1> QED
    BY <1>1, ClientServiceStep, ServerServiceStep DEF Next

\* The control protocol implements the service, for any number of clients and
\* streams: iperf_run_server serves one test after another, each through its
\* phases in order, nobody twice after a whole test, and iperf_run_client
\* reports success only after the server sent it DISPLAY_RESULTS.
THEOREM ProtocolImplementsService == Spec => ImplementsService
<1>1. Init => TypeInv /\ PhaseInv /\ ServiceInv /\ Service!Init
    BY TypeInit, PhaseInit, ServiceInit
<1>2. TypeInv /\ PhaseInv /\ ServiceInv /\ [Next]_vars
          => TypeInv' /\ PhaseInv' /\ ServiceInv' /\ [Service!Next]_(Service!vars)
    BY TypeStep, PhaseStep, ServiceStep
<1> QED
    BY <1>1, <1>2, PTL DEF Spec, ImplementsService, Service!Spec

-----------------------------------------------------------------------------
(* The streams. *)


\* The connections the server has not dealt with: those that wait, and the one
\* whose cookie iperf_tcp_accept is waiting for.
Pending == Queued \cup (IF sPc = "streamCookie" THEN {sPend} ELSE {})

\* How many streams a client has dialed, whether their cookie went out or not.
Dialed(c) == Len(cStreams[c]) + (IF cPc[c] = "streamCookie" THEN 1 ELSE 0)

\* A client lists the streams it asked for in the order it dialed them.
ClientLists ==
    \A c \in Clients :
        /\ Len(cStreams[c]) <= StreamsTotal(cOpt[c])
        /\ \A n \in DOMAIN cStreams[c] :
               cStreams[c][n] = [conn |-> <<c, n>>, sender |-> ClientSends(cOpt[c], n)]

\* A stream that is not on the list carries no cookie; the one being made is open.
CookiesInTurn ==
    \A c \in Clients :
        /\ \A n \in 1..(2 * MaxStreams) : n > Len(cStreams[c]) => up[<<c, n>>] = <<>>
        /\ cPc[c] = "streamCookie" =>
               /\ Len(cStreams[c]) < StreamsTotal(cOpt[c])
               /\ cEnd[<<c, Len(cStreams[c]) + 1>>] = "open"

\* The connections of one client wait in the order it made them, and none is
\* taken twice.
InOrder ==
    /\ \A i, j \in DOMAIN backlog :
           i < j /\ Owner(backlog[i]) = Owner(backlog[j]) => backlog[i][2] < backlog[j][2]
    /\ sPc = "streamCookie" =>
           /\ \A k \in Queued : Owner(k) = Owner(sPend) => sPend[2] < k[2]
           /\ \A n \in DOMAIN sStreams : sStreams[n].conn # sPend

\* A listed stream that waits has its cookie.
CookiesWait ==
    \A k \in Pending : k[2] \in 1..Len(cStreams[Owner(k)]) => up[k] # <<>>

\* While the server takes streams, the ones it lacks are those that wait.
NoneLost ==
    (/\ sCtrl # NoConn /\ sState = "CREATE_STREAMS" /\ sPc \in {"loop", "streamCookie"}
     /\ sEnd[sCtrl] = "open" /\ sCookie = Owner(sCtrl)) =>
        \A n \in 1..(2 * MaxStreams) :
            n > Len(sStreams) /\ n <= Dialed(Owner(sCtrl)) => <<Owner(sCtrl), n>> \in Pending

StreamInv ==
    /\ ClientLists
    /\ CookiesInTurn
    /\ InOrder
    /\ CookiesWait
    /\ NoneLost
    /\ StreamAgreement

-----------------------------------------------------------------------------
(* Steps of a client. *)

\* The next stream of a client that lacks one is a connection of its own.
LEMMA NextStream ==
    ASSUME NEW c \in Clients, NEW o \in Config, NEW streams \in Seq(Stream),
           Len(streams) < StreamsTotal(o)
    PROVE  /\ Len(streams) + 1 \in 1..(2 * MaxStreams) /\ <<c, Len(streams) + 1>> \in Conns
           /\ Owner(<<c, Len(streams) + 1>>) = c
<1>1. Len(streams) \in Nat /\ o.num \in Nat /\ o.num <= MaxStreams
    BY ControlAssumption DEF Config
<1>2. Len(streams) + 1 \in 1..(2 * MaxStreams)
    BY <1>1, ControlAssumption DEF StreamsTotal
<1> QED
    BY <1>2, ControlAssumption DEF Conns, Owner

\* The connections the server has not dealt with are open connections.
LEMMA PendingOpen ==
    ASSUME TypeInv, Known
    PROVE  \A k \in Pending : k \in Conns /\ Owner(k) \in Clients /\ sEnd[k] = "open" /\ k # sCtrl
<1>1. \A k \in Pending : k \in Conns /\ sEnd[k] = "open" /\ k # sCtrl
    BY DEF Pending, Queued, TypeInv, TypeOK, WaitsOnSocket, Known
<1> QED
    BY <1>1, OwnerIsClient

\* A step of client c that has nothing to do with streams, or ends them.
Quiet(c) ==
    /\ UNCHANGED <<cStreams, cOpt, backlog, sEnd, srvVars>>
    /\ cPc'[c] # "streamCookie"
    /\ \A e \in Clients : e # c => cPc'[e] = cPc[e]
    /\ \A k \in Conns : Owner(k) # c => cEnd'[k] = cEnd[k]
    /\ \A k \in Conns : k[2] # 0 => up'[k] = up[k]

\* Every step of a client is quiet, or dials, or sends the cookie of a stream.
LEMMA ClientQuiet ==
    ASSUME TypeInv, NEW c \in Clients, ClientStep(c) \/ ClientFault(c)
    PROVE  \/ Quiet(c)
           \/ iperf_connect(c) /\ Dial(Ctrl(c))
           \/ iperf_tcp_connect(c)
           \/ iperf_create_streams(c)
<1>t. /\ Ctrl(c) \in Conns /\ cPc \in [Clients -> CPc]
      /\ up \in [Conns -> Seq(Message)]
      /\ cEnd \in [Conns -> {"none", "open", "closed"}]
    BY CtrlConn DEF TypeInv, TypeOK
<1>c. Ctrl(c)[2] = 0
    BY DEF Ctrl
<1>f. ASSUME NEW err, ClientFails(c, err)
      PROVE  /\ cPc'[c] = "failed" /\ \A e \in Clients : e # c => cPc'[e] = cPc[e]
             /\ \A k \in Conns : Owner(k) # c => cEnd'[k] = cEnd[k]
    BY <1>t, <1>f DEF ClientFails, ClientExitCloses, iperf_free_test
<1>g. ASSUME NEW pc, NEW state, ClientGoes(c, pc, state)
      PROVE  cPc'[c] = pc /\ \A e \in Clients : e # c => cPc'[e] = cPc[e]
    BY <1>t, <1>g DEF ClientGoes
<1>w. ASSUME NEW x, ClientSend(Ctrl(c), x)
      PROVE  \A k \in Conns : k[2] # 0 => up'[k] = up[k]
    BY <1>t, <1>c, <1>w DEF ClientSend
<1>e. ASSUME ClientExitCloses(c)
      PROVE  \A k \in Conns : Owner(k) # c => cEnd'[k] = cEnd[k]
    BY <1>t, <1>e DEF ClientExitCloses
<1>1. CASE iperf_connect(c) /\ ~Dial(Ctrl(c))
    BY <1>1, <1>f DEF iperf_connect, Quiet
<1>2. CASE iperf_connect_cookie(c)
    BY <1>2, <1>g, <1>w DEF iperf_connect_cookie, Quiet
<1>3. CASE ClientParamExchange(c)
    BY <1>3, <1>g, <1>w DEF ClientParamExchange, Quiet
<1>4. CASE ClientCreateStreams(c)
    BY <1>4, <1>g DEF ClientCreateStreams, Quiet
<1>7. CASE ClientConnectError(c)
    BY <1>7, <1>f DEF ClientConnectError, Quiet
<1>8. CASE ClientTestPhase(c)
    BY <1>8, <1>g DEF ClientTestPhase, Quiet
<1>9. CASE ClientTestEnd(c)
    BY <1>9, <1>g, <1>w DEF ClientTestEnd, Quiet
<1>10. CASE ClientStreamError(c)
    BY <1>10, <1>f DEF ClientStreamError, Quiet
<1>11. CASE ClientExchangeResults(c)
    BY <1>11, <1>g, <1>w DEF ClientExchangeResults, Quiet
<1>12. CASE ClientGetResults(c)
    BY <1>12, <1>f, <1>g DEF ClientGetResults, Quiet
<1>13. CASE iperf_client_end(c)
    BY <1>13, <1>g, <1>w, <1>e DEF iperf_client_end, Quiet
<1>14. CASE ClientRefused(c)
    BY <1>14, <1>f DEF ClientRefused, Quiet
<1>15. CASE ClientEOF(c)
    BY <1>15, <1>f DEF ClientEOF, Quiet
<1>16. CASE ClientReset(c)
    BY <1>16, <1>f DEF ClientReset, Quiet
<1>17. CASE iperf_got_sigend_client(c)
    BY <1>17, <1>g, <1>w, <1>e DEF iperf_got_sigend_client, Quiet
<1>18. CASE ClientCrash(c)
    BY <1>18, <1>t, <1>e DEF ClientCrash, Quiet
<1> QED
    BY <1>1, <1>2, <1>3, <1>4, <1>7, <1>8, <1>9, <1>10, <1>11, <1>12, <1>13,
       <1>14, <1>15, <1>16, <1>17, <1>18
       DEF ClientStep, ClientFault, ClientConnectRefused

\* A connection newer than all others of its client joins those that wait.
LEMMA DialKeepsOrder ==
    ASSUME TypeInv, StreamInv, NEW k \in Conns, Dial(k), UNCHANGED <<cStreams, cOpt, srvVars>>,
           \A j \in Pending : Owner(j) = Owner(k) => j[2] < k[2],
           k[2] \notin 1..Len(cStreams[Owner(k)])
    PROVE  ClientLists' /\ InOrder' /\ CookiesWait' /\ StreamAgreement' /\ Pending' = Pending \cup {k}
<1>t. /\ backlog \in Seq(Conns) /\ backlog' = Append(backlog, k) /\ up' = up
      /\ UNCHANGED <<sPc, sCtrl, sStreams, sPend>>
    BY DEF Dial, srvVars, TypeInv, TypeOK
<1>1. /\ DOMAIN backlog = 1..Len(backlog) /\ Len(backlog) \in Nat
      /\ DOMAIN backlog' = 1..(Len(backlog) + 1)
      /\ \A i \in 1..Len(backlog) : backlog'[i] = backlog[i]
      /\ backlog'[Len(backlog) + 1] = k
    BY <1>t
<1>2. \A i \in 1..(Len(backlog) + 1) : i \in 1..Len(backlog) \/ i = Len(backlog) + 1
    BY <1>1
<1>3. Queued' = Queued \cup {k}
  <2>1. Queued' \subseteq Queued \cup {k}
    BY <1>1, <1>2 DEF Queued
  <2>2. \A i \in 1..Len(backlog) : i \in 1..(Len(backlog) + 1)
    BY <1>1
  <2>3. Queued \subseteq Queued'
    BY <1>1, <2>2 DEF Queued
  <2>4. k \in Queued'
    BY <1>1 DEF Queued
  <2> QED
    BY <2>1, <2>3, <2>4
<1>4. Pending' = Pending \cup {k}
    BY <1>3, <1>t DEF Pending
<1>5. InOrder'
  <2>1. ASSUME NEW i \in DOMAIN backlog', NEW j \in DOMAIN backlog', i < j,
               Owner(backlog'[i]) = Owner(backlog'[j])
        PROVE  backlog'[i][2] < backlog'[j][2]
    <3>1. i \in 1..Len(backlog)
      BY <1>1, <2>1
    <3>2. CASE j \in 1..Len(backlog)
      BY <1>1, <2>1, <3>1, <3>2 DEF StreamInv, InOrder
    <3>3. CASE j = Len(backlog) + 1
      <4>1. backlog[i] \in Pending /\ Owner(backlog[i]) = Owner(k)
        BY <1>1, <2>1, <3>1, <3>3 DEF Pending, Queued
      <4> QED
        BY <1>1, <3>1, <3>3, <4>1
    <3> QED
      BY <1>1, <1>2, <3>2, <3>3
  <2>2. ASSUME sPc = "streamCookie", NEW j \in Queued', Owner(j) = Owner(sPend)
        PROVE  sPend[2] < j[2]
    BY <1>3, <2>2 DEF StreamInv, InOrder, Pending
  <2> QED
    BY <1>t, <2>1, <2>2 DEF StreamInv, InOrder
<1>6. CookiesWait'
    BY <1>4, <1>t DEF StreamInv, CookiesWait
<1>7. ClientLists' /\ StreamAgreement'
    BY <1>t DEF StreamInv, ClientLists, StreamAgreement
<1> QED
    BY <1>4, <1>5, <1>6, <1>7

\* iperf_connect: the first connection of a client.
LEMMA ConnectKeeps ==
    ASSUME TypeInv, PhaseInv, StreamInv, NEW c \in Clients, iperf_connect(c), Dial(Ctrl(c))
    PROVE  StreamInv'
<1>t. /\ Known /\ Fresh /\ Ctrl(c) \in Conns /\ Ctrl(c)[2] = 0 /\ Owner(Ctrl(c)) = c
      /\ cPc \in [Clients -> CPc] /\ cEnd \in [Conns -> {"none", "open", "closed"}]
      /\ sEnd \in [Conns -> {"none", "open", "closed"}]
      /\ cStreams \in [Clients -> Seq(Stream)] /\ cOpt \in [Clients -> Config]
    BY CtrlConn DEF PhaseInv, TypeInv, TypeOK, Ctrl
<1>1. /\ cPc[c] = "idle" /\ UNCHANGED <<cStreams, cOpt>>
      /\ cPc'[c] # "streamCookie" /\ \A e \in Clients : e # c => cPc'[e] = cPc[e]
      /\ UNCHANGED srvVars
    BY <1>t DEF iperf_connect, ClientGoes, ClientFails
<1>2. /\ sEnd[Ctrl(c)] = "none" /\ cStreams[c] = <<>>
      /\ \A n \in 1..(2 * MaxStreams) : sEnd[<<c, n>>] = "none"
  <2>1. sEnd[Ctrl(c)] = "none" /\ cStreams[c] = <<>>
    BY <1>1, <1>t DEF Fresh
  <2>2. \A n \in 1..(2 * MaxStreams) : n > Len(cStreams[c]) + 0
    BY <2>1, ControlAssumption
  <2> QED
    BY <1>1, <1>t, <2>1, <2>2 DEF Fresh
<1>3. \A j \in Conns : Owner(j) = c => sEnd[j] = "none"
  <2> TAKE j \in Conns
  <2>1. j = <<Owner(j), j[2]>> /\ j[2] \in 0..(2 * MaxStreams)
    BY DEF Conns, Owner
  <2>2. j[2] = 0 \/ j[2] \in 1..(2 * MaxStreams)
    BY <2>1, ControlAssumption
  <2> QED
    BY <1>2, <2>1, <2>2 DEF Ctrl
<1>4. \A j \in Pending : Owner(j) # c
    BY <1>3, <1>t, PendingOpen
<1>5. ClientLists' /\ InOrder' /\ CookiesWait' /\ StreamAgreement' /\ Pending' = Pending \cup {Ctrl(c)}
    BY <1>1, <1>4, <1>t, DialKeepsOrder
<1>6. UNCHANGED <<sPc, sState, sCtrl, sCookie, sStreams>> /\ up' = up
    BY <1>1 DEF srvVars, Dial
<1>7. CookiesInTurn'
  <2>1. \A k \in Conns : k # Ctrl(c) => cEnd'[k] = cEnd[k]
    BY <1>t DEF Dial
  <2>2. ASSUME NEW e \in Clients, cPc'[e] = "streamCookie"
        PROVE  Len(cStreams[e]) < StreamsTotal(cOpt[e]) /\ cEnd'[<<e, Len(cStreams[e]) + 1>>] = "open"
    <3>1. cPc[e] = "streamCookie" /\ e # c
      BY <1>1, <2>2
    <3>2. Len(cStreams[e]) < StreamsTotal(cOpt[e]) /\ cEnd[<<e, Len(cStreams[e]) + 1>>] = "open"
      BY <3>1 DEF StreamInv, CookiesInTurn
    <3>3. <<e, Len(cStreams[e]) + 1>> \in Conns /\ Owner(<<e, Len(cStreams[e]) + 1>>) = e
      BY <1>t, <3>2, NextStream
    <3> QED
      BY <1>t, <2>1, <3>1, <3>2, <3>3
  <2> QED
    BY <1>1, <1>6, <2>2 DEF StreamInv, CookiesInTurn
<1>8. NoneLost'
  <2>1. sCtrl # NoConn => Owner(sCtrl) \in Clients /\ sCtrl \in Conns /\ Owner(sCtrl) # c
    BY <1>3, <1>t, OwnerIsClient DEF TypeInv, TypeOK, Known
  <2>2. \A k \in Conns : Owner(k) # c => sEnd'[k] = sEnd[k]
    BY <1>t DEF Dial
  <2>3. \A e \in Clients : e # c => Dialed(e)' = Dialed(e)
    BY <1>1 DEF Dialed
  <2> QED
    BY <1>5, <1>6, <2>1, <2>2, <2>3 DEF StreamInv, NoneLost
<1> QED
    BY <1>5, <1>7, <1>8 DEF StreamInv

\* A quiet step leaves the streams as they are.
LEMMA QuietKeeps ==
    ASSUME TypeInv, StreamInv, NEW c \in Clients, Quiet(c)
    PROVE  StreamInv'
<1>t. /\ UNCHANGED <<cStreams, cOpt, backlog, sEnd>> /\ cPc'[c] # "streamCookie"
      /\ UNCHANGED <<sPc, sState, sCtrl, sCookie, sStreams, sPend>>
      /\ Queued' = Queued
      /\ \A e \in Clients : e # c => cPc'[e] = cPc[e]
      /\ \A k \in Conns : k[2] # 0 => up'[k] = up[k]
      /\ \A k \in Conns : Owner(k) # c => cEnd'[k] = cEnd[k]
      /\ cStreams \in [Clients -> Seq(Stream)] /\ cOpt \in [Clients -> Config]
    BY DEF Quiet, srvVars, Queued, TypeInv, TypeOK
<1>p. Pending' = Pending
    BY <1>t DEF Pending
<1>l. \A e \in Clients : Len(cStreams[e]) \in Nat
    BY <1>t
<1>q. \A k \in Pending : k \in Conns
    BY DEF Pending, Queued, TypeInv, TypeOK, WaitsOnSocket
<1>1. ClientLists'
    BY <1>t DEF StreamInv, ClientLists
<1>2. CookiesInTurn'
  <2>1. ASSUME NEW e \in Clients, NEW n \in 1..(2 * MaxStreams), n > Len(cStreams[e])
        PROVE  up'[<<e, n>>] = <<>>
    <3>1. <<e, n>> \in Conns /\ <<e, n>>[2] # 0
      BY ControlAssumption DEF Conns
    <3> QED
      BY <1>t, <2>1, <3>1 DEF StreamInv, CookiesInTurn
  <2>2. ASSUME NEW e \in Clients, cPc'[e] = "streamCookie"
        PROVE  Len(cStreams[e]) < StreamsTotal(cOpt[e]) /\ cEnd'[<<e, Len(cStreams[e]) + 1>>] = "open"
    <3>1. e # c /\ cPc[e] = "streamCookie"
      BY <1>t, <2>2
    <3>2. Len(cStreams[e]) < StreamsTotal(cOpt[e]) /\ cEnd[<<e, Len(cStreams[e]) + 1>>] = "open"
      BY <3>1 DEF StreamInv, CookiesInTurn
    <3>3. <<e, Len(cStreams[e]) + 1>> \in Conns
      BY <1>t, <3>2, NextStream
    <3>4. Owner(<<e, Len(cStreams[e]) + 1>>) # c
      BY <3>1 DEF Owner
    <3> QED
      BY <1>t, <3>2, <3>3, <3>4
  <2> QED
    BY <1>t, <2>1, <2>2 DEF CookiesInTurn
<1>3. InOrder'
    BY <1>t DEF StreamInv, InOrder
<1>4. CookiesWait'
  <2>1. \A k \in Pending : k[2] \in 1..Len(cStreams[Owner(k)]) => k[2] # 0
    OBVIOUS
  <2> QED
    BY <1>t, <1>p, <1>q, <2>1 DEF StreamInv, CookiesWait
<1>5. NoneLost'
  <2>1. \A e \in Clients : Dialed(e)' \in Nat /\ Dialed(e) \in Nat /\ Dialed(e)' <= Dialed(e)
    BY <1>t, <1>l DEF Dialed
  <2>2. sCtrl # NoConn => Owner(sCtrl) \in Clients
    BY OwnerIsClient DEF TypeInv, TypeOK
  <2> QED
    BY <1>t, <1>p, <2>1, <2>2 DEF StreamInv, NoneLost
<1>6. StreamAgreement'
    BY <1>t DEF StreamInv, StreamAgreement
<1> QED
    BY <1>1, <1>2, <1>3, <1>4, <1>5, <1>6 DEF StreamInv

\* iperf_tcp_connect: the next stream is the newest connection of its client.
LEMMA StreamDialKeeps ==
    ASSUME TypeInv, PhaseInv, StreamInv, NEW c \in Clients, iperf_tcp_connect(c)
    PROVE  StreamInv'
<1> DEFINE n == Len(cStreams[c]) + 1
<1>t. /\ Known /\ Fresh
      /\ cPc \in [Clients -> CPc] /\ cEnd \in [Conns -> {"none", "open", "closed"}]
      /\ sEnd \in [Conns -> {"none", "open", "closed"}]
      /\ cStreams \in [Clients -> Seq(Stream)] /\ cOpt \in [Clients -> Config]
    BY DEF PhaseInv, TypeInv, TypeOK
<1>1. /\ cPc[c] = "streams" /\ UNCHANGED <<cStreams, cOpt, srvVars>>
      /\ cPc'[c] = "streamCookie" /\ \A e \in Clients : e # c => cPc'[e] = cPc[e]
      /\ Dial(<<c, n>>) /\ Len(cStreams[c]) < StreamsTotal(cOpt[c])
    BY <1>t DEF iperf_tcp_connect, ClientGoes
<1>2. n \in 1..(2 * MaxStreams) /\ <<c, n>> \in Conns /\ Owner(<<c, n>>) = c
    BY <1>1, <1>t, NextStream
<1>3. n \notin 1..Len(cStreams[c]) /\ Len(cStreams[c]) \in Nat
    BY <1>t
<1>4. \A m \in 1..(2 * MaxStreams) : m >= n => sEnd[<<c, m>>] = "none"
  <2>1. \A m \in 1..(2 * MaxStreams) : m >= n => m > Len(cStreams[c]) + 0
    BY <1>3, ControlAssumption
  <2> QED
    BY <1>1, <1>t, <2>1 DEF Fresh
<1>5. \A j \in Pending : Owner(j) = c => j[2] < n
  <2> SUFFICES ASSUME NEW j \in Pending, Owner(j) = c PROVE j[2] < n
    OBVIOUS
  <2>1. j \in Conns /\ sEnd[j] = "open"
    BY <1>t, PendingOpen
  <2>2. j = <<c, j[2]>> /\ j[2] \in 0..(2 * MaxStreams)
    BY <2>1 DEF Conns, Owner
  <2>3. ~(j[2] \in 1..(2 * MaxStreams) /\ j[2] >= n)
    BY <1>4, <2>1, <2>2
  <2> QED
    BY <1>2, <2>2, <2>3, ControlAssumption
<1>6. /\ <<c, n>>[2] = n
      /\ sEnd[<<c, n>>] = "none"
    BY <1>2, <1>4
<1> HIDE DEF n
<1>7. ClientLists' /\ InOrder' /\ CookiesWait' /\ StreamAgreement' /\ Pending' = Pending \cup {<<c, n>>}
    BY <1>1, <1>2, <1>3, <1>5, <1>6, DialKeepsOrder
<1>8. UNCHANGED <<sPc, sState, sCtrl, sCookie, sStreams>> /\ up' = up
    BY <1>1 DEF srvVars, Dial
<1>9. CookiesInTurn'
  <2>1. /\ \A k \in Conns : k # <<c, n>> => cEnd'[k] = cEnd[k]
        /\ cEnd'[<<c, n>>] = "open"
    BY <1>1, <1>2, <1>t DEF Dial
  <2>2. ASSUME NEW e \in Clients, cPc'[e] = "streamCookie"
        PROVE  Len(cStreams[e]) < StreamsTotal(cOpt[e]) /\ cEnd'[<<e, Len(cStreams[e]) + 1>>] = "open"
    <3>1. CASE e = c
      BY <1>1, <2>1, <3>1 DEF n
    <3>2. CASE e # c
      <4>1. Len(cStreams[e]) < StreamsTotal(cOpt[e]) /\ cEnd[<<e, Len(cStreams[e]) + 1>>] = "open"
        BY <1>1, <2>2, <3>2 DEF StreamInv, CookiesInTurn
      <4>2. <<e, Len(cStreams[e]) + 1>> \in Conns /\ Owner(<<e, Len(cStreams[e]) + 1>>) = e
        BY <1>t, <4>1, NextStream
      <4> QED
        BY <1>2, <2>1, <3>2, <4>1, <4>2
    <3> QED
      BY <3>1, <3>2
  <2> QED
    BY <1>1, <1>8, <2>2 DEF StreamInv, CookiesInTurn
<1>10. NoneLost'
  <2>1. sCtrl # NoConn => Owner(sCtrl) \in Clients /\ sCtrl \in Conns /\ sCtrl # <<c, n>>
    BY <1>6, <1>t, OwnerIsClient DEF TypeInv, TypeOK, Known
  <2>2. \A k \in Conns : k # <<c, n>> => sEnd'[k] = sEnd[k]
    BY <1>1, <1>t DEF Dial
  <2>3. \A e \in Clients : e # c => Dialed(e)' = Dialed(e)
    BY <1>1 DEF Dialed
  <2>4. Dialed(c)' = n /\ \A m \in 1..(2 * MaxStreams) : m <= n => m = n \/ m <= Dialed(c)
    BY <1>1, <1>3, ControlAssumption DEF Dialed, n
  <2> QED
    BY <1>7, <1>8, <2>1, <2>2, <2>3, <2>4 DEF StreamInv, NoneLost
<1> QED
    BY <1>7, <1>9, <1>10 DEF StreamInv

\* iperf_create_streams: the cookie follows, and the stream is on the list.
LEMMA StreamListKeeps ==
    ASSUME TypeInv, PhaseInv, StreamInv, NEW c \in Clients, iperf_create_streams(c)
    PROVE  StreamInv'
<1> DEFINE n == Len(cStreams[c]) + 1
           stream == [conn |-> <<c, n>>, sender |-> ClientSends(cOpt[c], n)]
<1>t. /\ Known
      /\ cPc \in [Clients -> CPc] /\ up \in [Conns -> Seq(Message)]
      /\ cStreams \in [Clients -> Seq(Stream)] /\ cOpt \in [Clients -> Config]
    BY DEF PhaseInv, TypeInv, TypeOK
<1>1. /\ cPc[c] = "streamCookie" /\ cPc'[c] # "streamCookie"
      /\ \A e \in Clients : e # c => cPc'[e] = cPc[e] /\ cStreams'[e] = cStreams[e]
      /\ cStreams'[c] = Append(cStreams[c], stream) /\ n <= StreamsTotal(cOpt[c])
      /\ ClientSend(<<c, n>>, Msg("COOKIE"))
      /\ UNCHANGED <<cEnd, sEnd, backlog, cOpt, srvVars>>
    BY <1>t DEF iperf_create_streams, ClientGoes
<1>2. Len(cStreams[c]) < StreamsTotal(cOpt[c]) /\ Len(cStreams[c]) \in Nat
    BY <1>1, <1>t DEF StreamInv, CookiesInTurn
<1>3. n \in 1..(2 * MaxStreams) /\ <<c, n>> \in Conns /\ Owner(<<c, n>>) = c
    BY <1>2, <1>t, NextStream
<1>4. UNCHANGED <<sPc, sState, sCtrl, sCookie, sStreams, sPend>> /\ Queued' = Queued /\ Pending' = Pending
    BY <1>1 DEF srvVars, Pending, Queued
<1>5. /\ Len(cStreams'[c]) = n /\ DOMAIN cStreams'[c] = 1..n
      /\ \A i \in DOMAIN cStreams[c] : i \in 1..n /\ cStreams'[c][i] = cStreams[c][i]
      /\ \A i \in 1..n : i \in DOMAIN cStreams[c] \/ i = n
      /\ cStreams'[c][n] = stream
    BY <1>1, <1>2, <1>t
<1>6. /\ up'[<<c, n>>] # <<>>
      /\ \A k \in Conns : k # <<c, n>> => up'[k] = up[k]
  <2>1. /\ up'[<<c, n>>] = Append(up[<<c, n>>], Msg("COOKIE"))
        /\ \A k \in Conns : k # <<c, n>> => up'[k] = up[k]
    BY <1>1, <1>3, <1>t DEF ClientSend
  <2>2. up[<<c, n>>] \in Seq(Message) /\ Msg("COOKIE") \in Message
    BY <1>3, <1>t, MsgType
  <2>3. Len(up'[<<c, n>>]) = Len(up[<<c, n>>]) + 1 /\ Len(up[<<c, n>>]) \in Nat
    BY <2>1, <2>2
  <2>4. Len(up'[<<c, n>>]) # 0
    BY <2>3
  <2>5. \A s : s = <<>> => Len(s) = 0
    OBVIOUS
  <2> QED
    BY <2>1, <2>4, <2>5
<1>7. ClientLists'
  <2> SUFFICES ASSUME NEW e \in Clients
               PROVE  /\ Len(cStreams'[e]) <= StreamsTotal(cOpt[e])
                      /\ \A i \in DOMAIN cStreams'[e] :
                             cStreams'[e][i] = [conn |-> <<e, i>>, sender |-> ClientSends(cOpt[e], i)]
    BY <1>1 DEF ClientLists
  <2>1. CASE e = c
    BY <1>1, <1>5, <2>1 DEF StreamInv, ClientLists
  <2>2. CASE e # c
    BY <1>1, <2>2 DEF StreamInv, ClientLists
  <2> QED
    BY <2>1, <2>2
<1> HIDE DEF n, stream
<1>8. CookiesInTurn'
  <2>1. ASSUME NEW e \in Clients, NEW m \in 1..(2 * MaxStreams), m > Len(cStreams'[e])
        PROVE  up'[<<e, m>>] = <<>>
    <3>1. <<e, m>> \in Conns
      BY ControlAssumption DEF Conns
    <3>2. <<e, m>> # <<c, n>> /\ m > Len(cStreams[e])
      BY <1>1, <1>2, <1>5, <2>1 DEF n
    <3> QED
      BY <1>6, <3>1, <3>2 DEF StreamInv, CookiesInTurn
  <2>2. ASSUME NEW e \in Clients, cPc'[e] = "streamCookie"
        PROVE  /\ Len(cStreams'[e]) < StreamsTotal(cOpt[e])
               /\ cEnd[<<e, Len(cStreams'[e]) + 1>>] = "open"
    BY <1>1, <2>2 DEF StreamInv, CookiesInTurn
  <2> QED
    BY <1>1, <2>1, <2>2 DEF CookiesInTurn
<1>9. InOrder'
    BY <1>1, <1>4 DEF StreamInv, InOrder
<1>10. CookiesWait'
  <2> SUFFICES ASSUME NEW k \in Pending, k[2] \in 1..Len(cStreams'[Owner(k)]), k # <<c, n>>
               PROVE  up[k] # <<>> /\ k \in Conns
    BY <1>4, <1>6 DEF CookiesWait
  <2>1. k \in Conns /\ Owner(k) \in Clients /\ k = <<Owner(k), k[2]>>
    BY <1>t, PendingOpen DEF Conns, Owner
  <2>2. k[2] \in 1..Len(cStreams[Owner(k)])
    BY <1>1, <1>2, <1>5, <2>1 DEF n
  <2> QED
    BY <2>1, <2>2 DEF StreamInv, CookiesWait
<1>11. NoneLost'
  <2>1. sCtrl # NoConn => Owner(sCtrl) \in Clients
    BY OwnerIsClient DEF TypeInv, TypeOK
  <2>a. \A e \in Clients : e # c => Dialed(e)' = Dialed(e)
    BY <1>1 DEF Dialed
  <2>b. Dialed(c)' = Dialed(c)
    BY <1>1, <1>2, <1>5 DEF Dialed, n
  <2>2. \A e \in Clients : Dialed(e)' = Dialed(e)
    BY <2>a, <2>b
  <2> QED
    BY <1>1, <1>4, <2>1, <2>2 DEF StreamInv, NoneLost
<1>12. StreamAgreement'
  <2>1. \A i \in DOMAIN sStreams : sCtrl = Ctrl(Owner(sCtrl)) /\ sCtrl \in Conns \cup {NoConn}
    BY DEF StreamInv, StreamAgreement, TypeInv, TypeOK
  <2>2. \A i \in DOMAIN sStreams : Owner(sCtrl) \in Clients
    BY <1>t, OwnerIsClient, <2>1 DEF PhaseInv, ServerStage
  <2>3. ASSUME NEW e \in Clients, NEW i \in DOMAIN cStreams[e]
        PROVE  i \in DOMAIN cStreams'[e] /\ cStreams'[e][i] = cStreams[e][i]
    BY <1>1, <1>5, <2>3
  <2> QED
    BY <1>4, <2>1, <2>2, <2>3 DEF StreamInv, StreamAgreement
<1> QED
    BY <1>7, <1>8, <1>9, <1>10, <1>11, <1>12 DEF StreamInv

\* Every step of a client keeps the invariant.
LEMMA ClientStreamStep ==
    ASSUME TypeInv, PhaseInv, StreamInv, NEW c \in Clients, ClientStep(c) \/ ClientFault(c)
    PROVE  StreamInv'
BY ClientQuiet, QuietKeeps, ConnectKeeps, StreamDialKeeps, StreamListKeeps

-----------------------------------------------------------------------------
(* Steps of the server. *)

\* What waits stays in order when nobody joins.
LEMMA OrderStays ==
    ASSUME TypeInv, InOrder, sPc' # "streamCookie",
           \/ backlog' = backlog
           \/ backlog' = <<>>
           \/ backlog # <<>> /\ backlog' = Tail(backlog)
    PROVE  InOrder' /\ Pending' = Queued' /\ Queued' \subseteq Queued
<1>t. backlog \in Seq(Conns)
    BY DEF TypeInv, TypeOK
<1>1. Pending' = Queued'
    BY DEF Pending
<1>2. CASE backlog' = backlog
    BY <1>1, <1>2 DEF InOrder, Queued
<1>3. CASE backlog' = <<>>
    BY <1>1, <1>3 DEF InOrder, Queued
<1>4. CASE backlog # <<>> /\ backlog' = Tail(backlog)
  <2>1. \A i \in DOMAIN backlog' : i \in Nat /\ i + 1 \in DOMAIN backlog /\ backlog'[i] = backlog[i + 1]
    BY <1>4, <1>t
  <2>2. Queued' \subseteq Queued
    BY <2>1 DEF Queued
  <2>3. ASSUME NEW i \in DOMAIN backlog', NEW j \in DOMAIN backlog', i < j,
               Owner(backlog'[i]) = Owner(backlog'[j])
        PROVE  backlog'[i][2] < backlog'[j][2]
    <3>1. i + 1 < j + 1
      BY <2>1, <2>3
    <3> QED
      BY <2>1, <2>3, <3>1 DEF InOrder
  <2> QED
    BY <1>1, <2>2, <2>3 DEF InOrder
<1> QED
    BY <1>2, <1>3, <1>4

\* A server step that takes on no connection and lists no stream.
LEMMA ServerSteady ==
    ASSUME TypeInv, PhaseInv, StreamInv, UNCHANGED <<cliVars, cEnd>>,
           \A k \in Conns : up[k] = <<>> => up'[k] = <<>>,
           Pending' \subseteq Pending, \A k \in Pending' : up'[k] = up[k],
           InOrder', NoneLost',
           sStreams' = <<>> \/ UNCHANGED <<sStreams, sCtrl>>
    PROVE  StreamInv'
<1>t. UNCHANGED <<cPc, cStreams, cOpt>>
    BY DEF cliVars
<1>1. ClientLists'
    BY <1>t DEF StreamInv, ClientLists
<1>2. CookiesInTurn'
  <2>1. \A c \in Clients, n \in 1..(2 * MaxStreams) : <<c, n>> \in Conns
    BY ControlAssumption DEF Conns
  <2> QED
    BY <1>t, <2>1 DEF StreamInv, CookiesInTurn
<1>3. CookiesWait'
    BY <1>t DEF StreamInv, CookiesWait
<1>4. StreamAgreement'
    BY <1>t DEF StreamInv, StreamAgreement
<1> QED
    BY <1>1, <1>2, <1>3, <1>4 DEF StreamInv

\* The end of a test, by cleanup_server or by a signal: nobody waits any more.
LEMMA EndKeepsStreams ==
    ASSUME TypeInv, PhaseInv, StreamInv, UNCHANGED <<cliVars, cEnd, sStreams, sCtrl>>,
           \A k \in Conns : up[k] = <<>> => up'[k] = <<>>,
           backlog' = <<>>, sPc' \in {"ended", "exited"}
    PROVE  StreamInv'
<1>1. InOrder' /\ Pending' = Queued' /\ Queued' = {}
    BY OrderStays DEF StreamInv, Queued
<1>2. NoneLost'
    BY DEF NoneLost
<1> QED
    BY <1>1, <1>2, ServerSteady

\* A step of the server that reads at most its control connection and takes
\* no streams.
LEMMA PassKeepsStreams ==
    ASSUME TypeInv, PhaseInv, StreamInv, UNCHANGED <<cliVars, cEnd>>,
           sPc # "streamCookie", sPc' # "streamCookie",
           \/ backlog' = backlog
           \/ backlog' = <<>>
           \/ backlog # <<>> /\ backlog' = Tail(backlog),
           \A k \in Conns : up[k] = <<>> => up'[k] = <<>>,
           \A k \in Conns : k # sCtrl => up'[k] = up[k],
           NoneLost',
           sStreams' = <<>> \/ UNCHANGED <<sStreams, sCtrl>>
    PROVE  StreamInv'
<1>1. InOrder' /\ Pending' = Queued' /\ Queued' \subseteq Queued /\ Pending = Queued
    BY OrderStays DEF StreamInv, Pending
<1>2. \A k \in Pending : k \in Conns /\ k # sCtrl
    BY PendingOpen DEF PhaseInv
<1> QED
    BY <1>1, <1>2, ServerSteady

\* A client that still has to be told to make streams has made none.
LEMMA NoneYet ==
    ASSUME TypeInv, PhaseInv, NEW c \in Clients, sCtrl = Ctrl(c), sState = "PARAM_EXCHANGE",
           sEnd[sCtrl] = "open"
    PROVE  Dialed(c) = 0
<1>1. PICK p \in Place, m \in 0..7 : Talk(c, p, m) /\ m = SrvSent
    BY HolderFacts
<1>2. HasRead(p) <= 1
    BY <1>1 DEF Talk, Told, SrvSent
<1>3. p \in 0..2
    BY <1>2 DEF HasRead, Place
<1>4. cStreams[c] = <<>> /\ cPc[c] # "streamCookie"
    BY <1>1, <1>3 DEF Talk, Made, At, PcAt
<1> QED
    BY <1>4 DEF Dialed

\* The parameters have come: from now on the server takes streams.
LEMMA ParametersKeepStreams ==
    ASSUME TypeInv, PhaseInv, StreamInv, iperf_exchange_parameters
    PROVE  StreamInv'
<1>1. /\ sPc = "params" /\ sPc' = "loop" /\ sState' = "CREATE_STREAMS"
      /\ ServerFinds(sCtrl, "PARAMS") /\ ServerReads(sCtrl)
      /\ iperf_tcp_listen(get_parameters(sCtrl).relisten)
      /\ UNCHANGED <<cEnd, cliVars, sCtrl, sCookie, sStreams, cPc, cStreams>>
    BY DEF iperf_exchange_parameters, cliVars
<1>2. sCtrl # NoConn /\ sCtrl \in Conns
    BY <1>1 DEF TypeInv, TypeOK, WaitsOnSocket
<1>3. sState = "PARAM_EXCHANGE" /\ sEnd[sCtrl] = "open"
    BY <1>1, <1>2 DEF PhaseInv, ServerStage, Stages
<1>4. PICK c \in Clients : sCtrl = Ctrl(c)
    BY <1>1, <1>2, StreamCookie
<1>5. Dialed(c) = 0 /\ Owner(sCtrl) = c
    BY <1>3, <1>4, NoneYet, CtrlConn
<1>6. Dialed(c)' = 0
    BY <1>1, <1>5 DEF Dialed
<1>7. NoneLost'
  <2>1. \A n \in 1..(2 * MaxStreams) : ~(n <= 0)
    BY ControlAssumption
  <2> QED
    BY <1>1, <1>5, <1>6, <2>1 DEF NoneLost
<1>8. backlog' = backlog \/ backlog' = <<>>
    BY <1>1 DEF iperf_tcp_listen
<1>9. /\ \A k \in Conns : up[k] = <<>> => up'[k] = <<>>
      /\ \A k \in Conns : k # sCtrl => up'[k] = up[k]
    BY <1>1, <1>2 DEF ServerReads, TypeInv, TypeOK
<1> QED
    BY <1>1, <1>7, <1>8, <1>9, PassKeepsStreams

\* iperf_tcp_accept takes the connection that waited longest.
LEMMA TcpAcceptKeepsStreams ==
    ASSUME TypeInv, PhaseInv, StreamInv, iperf_tcp_accept
    PROVE  StreamInv'
<1>t. backlog \in Seq(Conns)
    BY DEF TypeInv, TypeOK
<1>1. /\ sPc = "loop" /\ sPc' = "streamCookie" /\ sState = "CREATE_STREAMS"
      /\ backlog # <<>> /\ sPend' = Head(backlog) /\ backlog' = Tail(backlog)
      /\ UNCHANGED <<up, cEnd, sEnd, cliVars, sState, sCtrl, sCookie, sStreams, cPc, cStreams>>
    BY DEF iperf_tcp_accept, SelectOk, cliVars
<1>2. /\ \A i \in DOMAIN backlog' : i \in Nat /\ i >= 1 /\ i + 1 \in DOMAIN backlog
                                    /\ backlog'[i] = backlog[i + 1]
      /\ \A i \in DOMAIN backlog : i = 1 \/ (i - 1 \in DOMAIN backlog' /\ backlog[i] = backlog'[i - 1])
      /\ 1 \in DOMAIN backlog /\ Head(backlog) = backlog[1]
    BY <1>1, <1>t
<1>3. Pending' = Pending
  <2>1. Queued' \subseteq Queued /\ Queued \subseteq Queued' \cup {Head(backlog)} /\ Head(backlog) \in Queued
    BY <1>2 DEF Queued
  <2> QED
    BY <1>1, <2>1 DEF Pending
<1>4. InOrder'
  <2>1. ASSUME NEW i \in DOMAIN backlog', NEW j \in DOMAIN backlog', i < j,
               Owner(backlog'[i]) = Owner(backlog'[j])
        PROVE  backlog'[i][2] < backlog'[j][2]
    <3>1. i + 1 < j + 1
      BY <1>2, <2>1
    <3> QED
      BY <1>2, <2>1, <3>1 DEF StreamInv, InOrder
  <2>2. ASSUME NEW j \in DOMAIN backlog', Owner(backlog'[j]) = Owner(Head(backlog))
        PROVE  Head(backlog)[2] < backlog'[j][2]
    <3>1. 1 < j + 1
      BY <1>2
    <3> QED
      BY <1>2, <2>2, <3>1 DEF StreamInv, InOrder
  <2>3. \A n \in DOMAIN sStreams : sStreams[n].conn # Head(backlog)
    BY <1>2 DEF PhaseInv, Known, Queued
  <2> QED
    BY <1>1, <2>1, <2>2, <2>3 DEF InOrder, Queued
<1>5. NoneLost'
  <2>1. Dialed(Owner(sCtrl))' = Dialed(Owner(sCtrl))
    BY <1>1 DEF Dialed
  <2> QED
    BY <1>1, <1>3, <2>1 DEF StreamInv, NoneLost
<1> QED
    BY <1>1, <1>3, <1>4, <1>5, ServerSteady

\* The server and its client split the streams of a test in the same way.
LEMMA EndsOpposite ==
    ASSUME NEW o \in Config, NEW n \in Nat, n >= 1, n <= StreamsTotal(o)
    PROVE  ClientSends(o, n) = ~(n - 1 >= StreamsToRec(o))
BY DEF ClientSends, StreamsToRec, StreamsTotal, Config, Mode

\* A client has dialed at least the streams on its list.
LEMMA DialedType ==
    ASSUME TypeInv, NEW c \in Clients
    PROVE  Dialed(c) \in Nat /\ Len(cStreams[c]) <= Dialed(c)
<1>1. Len(cStreams[c]) \in Nat
    BY QueueType
<1>2. CASE cPc[c] = "streamCookie"
    BY <1>1, <1>2 DEF Dialed
<1>3. CASE cPc[c] # "streamCookie"
    BY <1>1, <1>3 DEF Dialed
<1> QED
    BY <1>2, <1>3

\* The cookie of the test comes on the next stream of its client, which joins
\* the list.
LEMMA AcceptStreamKeepsStreams ==
    ASSUME TypeInv, PhaseInv, StreamInv, ~StaleCookie, AcceptStream \/ ReopenError
    PROVE  StreamInv'
<1> DEFINE stream == [conn |-> sPend, sender |-> NextIsSender]
<1>a. /\ sPc = "streamCookie" /\ CookieMatches(sPend)
      /\ sStreams' = Append(sStreams, stream)
      /\ ServerReads(sPend)
      /\ UNCHANGED <<cEnd, cliVars, sCtrl, sCookie, sOpt, cPc, cStreams, cOpt>>
    BY DEF AcceptStream, ReopenError, CookieLeftOver, cliVars
<1>b. /\ backlog' = backlog \/ backlog' = <<>>
      /\ \/ sPc' = "loop" /\ sState' = sState /\ UNCHANGED <<sEnd, backlog>>
         \/ sPc' = "loop" /\ sState' = "TEST_RUNNING"
         \/ sPc' = "ended"
    BY DEF AcceptStream, ReopenError, iperf_tcp_listen, cleanup_server
<1>1. /\ sPc = "streamCookie" /\ sPc' # "streamCookie" /\ CookieMatches(sPend)
      /\ sStreams' = Append(sStreams, stream)
      /\ backlog' = backlog \/ backlog' = <<>>
      /\ ServerReads(sPend)
      /\ \/ sState' # "CREATE_STREAMS" \/ sPc' \notin {"loop", "streamCookie"}
         \/ UNCHANGED <<sEnd, backlog>>
      /\ UNCHANGED <<cEnd, cliVars, sCtrl, sCookie, sOpt, cPc, cStreams, cOpt>>
    BY <1>a, <1>b
<1>2. /\ sCtrl # NoConn /\ sCtrl \in Conns /\ sPend \in Conns /\ sStreams \in Seq(Stream)
      /\ up \in [Conns -> Seq(Message)] /\ Owner(sCtrl) \in Clients /\ Owner(sPend) \in Clients
      /\ cOpt \in [Clients -> Config] /\ cStreams \in [Clients -> Seq(Stream)]
    BY <1>1, OwnerIsClient DEF TypeInv, TypeOK, WaitsOnSocket
<1>3. /\ sState = "CREATE_STREAMS" /\ sCtrl = Ctrl(Owner(sCtrl)) /\ sOpt = cOpt[Owner(sCtrl)]
      /\ sCookie \in {Owner(sCtrl), NoClient} /\ sEnd[sCtrl] = "open"
    BY <1>1, <1>2 DEF PhaseInv, ServerStage, Stages
<1>4. PICK c \in Clients : c = Owner(sCtrl)
    BY <1>2
<1>5. Owner(sPend) = c /\ sCookie = c /\ up[sPend] # <<>>
    BY <1>1, <1>2, <1>3, <1>4, ControlAssumption DEF CookieMatches, ServerFinds
<1>6. /\ sPend # Ctrl(c) /\ sPend \notin Queued
      /\ \A n \in DOMAIN sStreams : sStreams[n].conn # sPend
    BY <1>1, <1>3, <1>4 DEF PhaseInv, Known, StreamInv, InOrder
<1> DEFINE x == sPend[2]
           L == Len(sStreams)
<1>7. sPend = <<c, x>> /\ x \in 1..(2 * MaxStreams)
  <2>1. sPend = <<Owner(sPend), x>> /\ x \in 0..(2 * MaxStreams)
    BY <1>2 DEF Conns, Owner
  <2>2. x # 0
    BY <1>5, <1>6, <2>1 DEF Ctrl
  <2> QED
    BY <1>5, <2>1, <2>2, ControlAssumption
<1> HIDE DEF x
<1>8. x <= Len(cStreams[c]) /\ Len(cStreams[c]) \in Nat /\ L \in Nat /\ DOMAIN sStreams = 1..L
  <2>1. ~(x > Len(cStreams[c]))
    BY <1>5, <1>7 DEF StreamInv, CookiesInTurn
  <2>2. Len(cStreams[c]) \in Nat /\ L \in Nat /\ DOMAIN sStreams = 1..L /\ x \in Nat
    BY <1>2, <1>7, ControlAssumption
  <2> QED
    BY <2>1, <2>2
<1>9. \A n \in DOMAIN sStreams : sStreams[n].conn = <<c, n>>
    BY <1>4 DEF StreamInv, StreamAgreement
<1>10. x > L
  <2>1. x \notin DOMAIN sStreams
    BY <1>6, <1>7, <1>9
  <2> QED
    BY <1>7, <1>8, <2>1, ControlAssumption
<1>11. x = L + 1
  <2> SUFFICES ASSUME x > L + 1 PROVE FALSE
    BY <1>7, <1>8, <1>10, ControlAssumption
  <2> DEFINE m == L + 1
  <2>1. m \in 1..(2 * MaxStreams) /\ m > L /\ m <= Len(cStreams[c]) /\ m < x
    BY <1>7, <1>8, ControlAssumption
  <2>a. Dialed(c) \in Nat /\ Len(cStreams[c]) <= Dialed(c)
    BY DialedType
  <2>2. m <= Dialed(c)
    BY <1>8, <2>1, <2>a
  <2> HIDE DEF m
  <2>3. <<c, m>> \in Pending
    BY <1>1, <1>2, <1>3, <1>4, <1>5, <2>1, <2>2 DEF StreamInv, NoneLost
  <2>4. <<c, m>> # sPend
    BY <1>7, <1>8, <2>1
  <2>5. <<c, m>> \in Queued /\ Owner(<<c, m>>) = c /\ <<c, m>>[2] = m
    BY <2>3, <2>4 DEF Pending, Owner
  <2>6. sPend[2] < <<c, m>>[2]
    BY <1>1, <1>5, <2>5 DEF StreamInv, InOrder
  <2> QED
    BY <1>7, <1>8, <2>1, <2>5, <2>6, ControlAssumption
<1>12. /\ Len(sStreams') = L + 1 /\ DOMAIN sStreams' = 1..(L + 1)
       /\ \A n \in 1..(L + 1) : n \in DOMAIN sStreams \/ n = L + 1
       /\ \A n \in DOMAIN sStreams : sStreams'[n] = sStreams[n]
       /\ sStreams'[L + 1] = stream
  <2>1. stream \in Stream
    BY <1>2 DEF Stream, NextIsSender
  <2> QED
    BY <1>1, <1>2, <1>8, <2>1
<1>13. StreamAgreement'
  <2>a. x \in 1..Len(cStreams[c])
    BY <1>7, <1>8, ControlAssumption
  <2>b. x \in DOMAIN cStreams[c]
    BY <1>2, <2>a
  <2>1. x \in DOMAIN cStreams[c] /\ cStreams[c][x] = [conn |-> <<c, x>>, sender |-> ClientSends(cOpt[c], x)]
    BY <2>b DEF StreamInv, ClientLists
  <2>2. x \in Nat /\ x >= 1 /\ x <= StreamsTotal(cOpt[c])
    <3>1. Len(cStreams[c]) <= StreamsTotal(cOpt[c]) /\ StreamsTotal(cOpt[c]) \in Nat
      BY <1>2, ControlAssumption DEF StreamInv, ClientLists, StreamsTotal, Config
    <3> QED
      BY <1>7, <1>8, <3>1, ControlAssumption
  <2>3. ClientSends(cOpt[c], x) = ~(x - 1 >= StreamsToRec(cOpt[c]))
    BY <1>2, <2>2, EndsOpposite
  <2>4. x - 1 = L
    BY <1>8, <1>11
  <2>5. stream.sender = (L >= StreamsToRec(cOpt[c])) /\ stream.conn = <<c, x>>
    BY <1>3, <1>4, <1>7 DEF NextIsSender
  <2>6. cStreams[c][x].conn = <<c, x>> /\ cStreams[c][x].sender = ~stream.sender
    <3>1. cStreams[c][x].conn = <<c, x>> /\ cStreams[c][x].sender = ClientSends(cOpt[c], x)
      BY <2>1
    <3>2. ClientSends(cOpt[c], x) = ~(L >= StreamsToRec(cOpt[c]))
      BY <2>3, <2>4
    <3> QED
      BY <2>5, <3>1, <3>2
  <2>7. ASSUME NEW n \in DOMAIN sStreams'
        PROVE  /\ sStreams'[n].conn = <<c, n>> /\ n \in DOMAIN cStreams[c]
               /\ cStreams[c][n].conn = <<c, n>> /\ cStreams[c][n].sender = ~sStreams'[n].sender
    <3>1. CASE n \in DOMAIN sStreams
      BY <1>4, <1>12, <3>1 DEF StreamInv, StreamAgreement
    <3>2. CASE n = L + 1
      <4>1. n = x /\ sStreams'[n] = stream
        BY <1>11, <1>12, <3>2
      <4> QED
        BY <2>1, <2>5, <2>6, <4>1
    <3> QED
      BY <1>12, <3>1, <3>2
  <2> QED
    BY <1>1, <1>3, <1>4, <2>7 DEF StreamAgreement
<1>14. InOrder' /\ Pending' = Queued' /\ Queued' \subseteq Queued
    BY <1>1, OrderStays DEF StreamInv
<1>15. /\ \A k \in Conns : k # sPend => up'[k] = up[k]
       /\ \A k \in Conns : up[k] = <<>> => up'[k] = <<>>
    BY <1>1, <1>2 DEF ServerReads
<1>16. ClientLists'
    BY <1>1 DEF StreamInv, ClientLists
<1>17. CookiesInTurn'
  <2>1. \A e \in Clients, n \in 1..(2 * MaxStreams) : <<e, n>> \in Conns
    BY ControlAssumption DEF Conns
  <2> QED
    BY <1>1, <1>15, <2>1 DEF StreamInv, CookiesInTurn
<1>18. CookiesWait'
  <2>1. \A k \in Queued : k \in Conns /\ k # sPend /\ k \in Pending
    BY <1>6 DEF Pending, Queued, TypeInv, TypeOK
  <2> QED
    BY <1>1, <1>14, <1>15, <2>1 DEF StreamInv, CookiesWait
<1>19. NoneLost'
  <2> SUFFICES ASSUME sState' = "CREATE_STREAMS", sPc' \in {"loop", "streamCookie"},
                      NEW n \in 1..(2 * MaxStreams), n > L + 1, n <= Dialed(c)
               PROVE  <<c, n>> \in Pending'
    BY <1>1, <1>4, <1>12 DEF NoneLost, Dialed
  <2>1. backlog' = backlog /\ Queued' = Queued
    BY <1>1 DEF Queued
  <2>2. n > L
    BY <1>8, ControlAssumption
  <2>3. <<c, n>> \in Pending
    BY <1>1, <1>2, <1>3, <1>4, <1>5, <2>2 DEF StreamInv, NoneLost
  <2>4. <<c, n>> # sPend
    BY <1>7, <1>11, <1>8, ControlAssumption
  <2> QED
    BY <1>14, <2>1, <2>3, <2>4 DEF Pending
<1> QED
    BY <1>13, <1>14, <1>16, <1>17, <1>18, <1>19 DEF StreamInv

\* A connection that is turned away is no stream of the test.
LEMMA DenyKeepsStreams ==
    ASSUME TypeInv, PhaseInv, StreamInv, DenyStream
    PROVE  StreamInv'
<1>1. /\ sPc = "streamCookie" /\ sPc' = "loop" /\ ~CookieMatches(sPend)
      /\ up[sPend] # <<>> \/ cEnd[sPend] = "closed"
      /\ ServerClose({sPend})
      /\ UNCHANGED <<up, cEnd, backlog, cliVars, sState, sCtrl, sCookie, sStreams, cPc, cStreams>>
    BY DEF DenyStream, cliVars
<1>2. /\ sPend \in Conns /\ sCtrl \in Conns /\ up \in [Conns -> Seq(Message)]
      /\ sEnd \in [Conns -> {"none", "open", "closed"}] /\ Owner(sCtrl) \in Clients
    BY <1>1, OwnerIsClient DEF TypeInv, TypeOK, WaitsOnSocket
<1>3. InOrder' /\ Pending' = Queued' /\ Queued' = Queued /\ Queued \subseteq Pending
    BY <1>1, OrderStays DEF StreamInv, Queued, Pending
<1>4. PICK c \in Clients : c = Owner(sCtrl)
    BY <1>2
<1>5. ASSUME sCookie = c, NEW n \in 1..(2 * MaxStreams), n <= Dialed(c)
      PROVE  <<c, n>> # sPend
  <2> SUFFICES ASSUME sPend = <<c, n>> PROVE FALSE
    OBVIOUS
  <2>0. Len(cStreams[c]) \in Nat /\ Owner(sPend) = c /\ sPend[2] = n /\ n \in Nat
    BY QueueType, ControlAssumption DEF Owner
  <2>1. CASE n <= Len(cStreams[c])
    <3>1. sPend[2] \in 1..Len(cStreams[Owner(sPend)])
      BY <2>0, <2>1, ControlAssumption
    <3>2. up[sPend] # <<>>
      BY <1>1, <3>1 DEF StreamInv, CookiesWait, Pending
    <3>3. \A e \in Clients : sPend # Ctrl(e)
      BY <1>5, ControlAssumption DEF Ctrl
    <3>4. 1 \in DOMAIN up[sPend] /\ Head(up[sPend]) = up[sPend][1]
      BY <1>2, <3>2
    <3>5. ServerFinds(sPend, "COOKIE")
      BY <1>2, <3>2, <3>3, <3>4 DEF PhaseInv, StreamsCarryCookies, ServerFinds
    <3> QED
      BY <1>1, <1>5, <2>0, <3>5 DEF CookieMatches
  <2>2. CASE n > Len(cStreams[c])
    <3>1. cPc[c] = "streamCookie" /\ n = Len(cStreams[c]) + 1
      <4>1. CASE cPc[c] # "streamCookie"
        <5>1. Dialed(c) = Len(cStreams[c])
          BY <2>0, <4>1 DEF Dialed
        <5> QED
          BY <1>5, <2>0, <2>2, <5>1
      <4>2. CASE cPc[c] = "streamCookie"
        <5>1. Dialed(c) = Len(cStreams[c]) + 1
          BY <2>0, <4>2 DEF Dialed
        <5> QED
          BY <1>5, <2>0, <2>2, <4>2, <5>1
      <4> QED
        BY <4>1, <4>2
    <3>2. cEnd[sPend] = "open" /\ up[sPend] = <<>>
      BY <2>2, <3>1 DEF StreamInv, CookiesInTurn
    <3> QED
      BY <1>1, <3>2
  <2> QED
    BY <2>0, <2>1, <2>2
<1>6. NoneLost'
  <2> SUFFICES ASSUME sCtrl # NoConn, sState = "CREATE_STREAMS", sEnd'[sCtrl] = "open", sCookie = c,
                      NEW n \in 1..(2 * MaxStreams), n > Len(sStreams), n <= Dialed(c)
               PROVE  <<c, n>> \in Queued
    BY <1>1, <1>3, <1>4 DEF NoneLost, Dialed
  <2>1. sEnd[sCtrl] = "open"
    BY <1>1, <1>2 DEF ServerClose
  <2>2. <<c, n>> \in Pending
    BY <1>1, <1>4, <2>1 DEF StreamInv, NoneLost
  <2>3. <<c, n>> # sPend
    BY <1>5
  <2> QED
    BY <2>2, <2>3 DEF Pending
<1>7. Pending' \subseteq Pending /\ \A k \in Pending' : up'[k] = up[k]
    BY <1>1, <1>3
<1> QED
    BY <1>1, <1>3, <1>6, <1>7, ServerSteady

\* Every step of the server keeps the invariant.
LEMMA ServerStreamStep ==
    ASSUME TypeInv, PhaseInv, StreamInv, ~StaleCookie, ServerStep \/ server_timer_proc \/ ServerFault
    PROVE  StreamInv'
<1>t. up \in [Conns -> Seq(Message)]
    BY DEF TypeInv, TypeOK
<1>r. ASSUME ServerReads(sCtrl)
      PROVE  /\ \A k \in Conns : up[k] = <<>> => up'[k] = <<>>
             /\ \A k \in Conns : k # sCtrl => up'[k] = up[k]
    BY <1>r, <1>t DEF ServerReads
<1>c. ASSUME NEW S, NEW err, cleanup_server(S, err), UNCHANGED <<cliVars, cEnd, sStreams, sCtrl>>,
             \A k \in Conns : up[k] = <<>> => up'[k] = <<>>
      PROVE  StreamInv'
  <2>1. backlog' = <<>> /\ sPc' = "ended"
    BY <1>c DEF cleanup_server
  <2> QED
    BY <1>c, <2>1, EndKeepsStreams
<1>n. ASSUME sState' # "CREATE_STREAMS" \/ sPc' \notin {"loop", "streamCookie"} PROVE NoneLost'
    BY <1>n DEF NoneLost
<1>1. ASSUME NEW k \in Conns, iperf_accept(k) PROVE StreamInv'
  <2>1. /\ sPc = "loop" /\ sPc' = "cookie" /\ backlog # <<>> /\ backlog' = Tail(backlog)
        /\ sCtrl = NoConn /\ UNCHANGED <<up, cEnd, cliVars, sStreams>>
    BY <1>1 DEF iperf_accept, SelectOk
  <2>2. sStreams' = <<>>
    BY <2>1 DEF PhaseInv, ServerStage
  <2> QED
    BY <1>n, <2>1, <2>2, PassKeepsStreams
<1>2. ASSUME NEW k \in Conns, iperf_accept_busy(k) PROVE StreamInv'
  <2>1. /\ sPc = "loop" /\ sPc' = "loop" /\ backlog # <<>> /\ backlog' = Tail(backlog)
        /\ sState' # "CREATE_STREAMS" /\ UNCHANGED <<up, cEnd, cliVars, sStreams, sCtrl>>
    BY <1>2 DEF iperf_accept_busy, SelectOk, srvVars
  <2> QED
    BY <1>n, <2>1, PassKeepsStreams
<1>3. ASSUME iperf_accept_cookie PROVE StreamInv'
  <2>1. /\ sPc = "cookie" /\ sPc' = "params" /\ UNCHANGED <<backlog, cEnd, cliVars, sStreams, sCtrl>>
        /\ ServerReads(sCtrl) \/ up' = [up EXCEPT ![sCtrl] = <<>>]
    BY <1>3 DEF iperf_accept_cookie
  <2>2. /\ \A k \in Conns : up[k] = <<>> => up'[k] = <<>>
        /\ \A k \in Conns : k # sCtrl => up'[k] = up[k]
    BY <1>r, <1>t, <2>1
  <2> QED
    BY <1>n, <2>1, <2>2, PassKeepsStreams
<1>4. ASSUME ServerTestEnd PROVE StreamInv'
  <2>1. /\ sPc = "loop" /\ sPc' = "results" /\ ServerReads(sCtrl)
        /\ UNCHANGED <<backlog, cEnd, cliVars, sStreams, sCtrl>>
    BY <1>4 DEF ServerTestEnd, SelectOk
  <2> QED
    BY <1>n, <1>r, <2>1, PassKeepsStreams
<1>5. ASSUME iperf_exchange_results PROVE StreamInv'
  <2>1. /\ sPc = "results" /\ ServerReads(sCtrl) /\ UNCHANGED <<cEnd, cliVars, sStreams, sCtrl>>
        /\ \/ cleanup_server({}, "IESTREAMID")
           \/ sPc' = "loop" /\ sState' = "DISPLAY_RESULTS" /\ UNCHANGED backlog
    BY <1>5 DEF iperf_exchange_results
  <2> QED
    BY <1>c, <1>n, <1>r, <2>1, PassKeepsStreams
<1>6. ASSUME ServerLeaves PROVE StreamInv'
  <2>1. /\ \E S, err : cleanup_server(S, err)
        /\ ServerReads(sCtrl) /\ UNCHANGED <<cEnd, cliVars, sStreams, sCtrl>>
    BY <1>6, Zenon DEF ServerLeaves
  <2> QED
    BY <1>c, <1>r, <2>1
<1>7. ASSUME ServerEOF \/ ServerReset \/ SelectError PROVE StreamInv'
    BY <1>7, <1>c DEF ServerEOF, ServerReset, SelectError
<1>8. ASSUME ListenError PROVE StreamInv'
    BY <1>8, <1>c, <1>r DEF ListenError
<1>9. ASSUME server_timer_proc PROVE StreamInv'
  <2>1. /\ sPc = "loop" /\ sPc' = "loop" /\ sTimer
        /\ UNCHANGED <<up, cEnd, backlog, cliVars, sState, sCtrl, sCookie, cPc, cStreams>>
        /\ \/ UNCHANGED <<sEnd, sStreams>>
           \/ ServerClose(ConnsOf(sStreams) \cup {sCtrl}) /\ sStreams' = <<>>
    BY <1>9 DEF server_timer_proc, SelectOk, cliVars
  <2>2. sCtrl # NoConn /\ sCtrl \in Conns
    BY <2>1 DEF PhaseInv, ServerStage, TypeInv, TypeOK
  <2>3. CASE UNCHANGED <<sEnd, sStreams>>
    <3>1. NoneLost'
      BY <2>1, <2>3 DEF StreamInv, NoneLost, Pending, Queued, Dialed
    <3> QED
      BY <2>1, <2>3, <3>1, PassKeepsStreams
  <2>4. CASE ServerClose(ConnsOf(sStreams) \cup {sCtrl}) /\ sStreams' = <<>>
    <3>1. sEnd'[sCtrl] = "closed"
      BY <2>2, <2>4 DEF ServerClose
    <3>2. NoneLost'
      BY <2>1, <3>1 DEF NoneLost
    <3> QED
      BY <2>1, <2>4, <3>2, PassKeepsStreams
  <2> QED
    BY <2>1, <2>3, <2>4
<1>10. ASSUME iperf_reset_test PROVE StreamInv'
  <2>1. /\ sPc = "ended" /\ sPc' = "loop" /\ sState' = "IPERF_START" /\ sStreams' = <<>>
        /\ UNCHANGED <<up, cEnd, backlog, cliVars>>
    BY <1>10 DEF iperf_reset_test
  <2> QED
    BY <1>n, <2>1, PassKeepsStreams
<1>11. ASSUME iperf_got_sigend_server PROVE StreamInv'
    BY <1>11, EndKeepsStreams DEF iperf_got_sigend_server
<1> QED
    BY <1>1, <1>2, <1>3, <1>4, <1>5, <1>6, <1>7, <1>8, <1>9, <1>10, <1>11, ParametersKeepStreams,
       TcpAcceptKeepsStreams, AcceptStreamKeepsStreams, DenyKeepsStreams DEF ServerStep, ServerFault

-----------------------------------------------------------------------------
\* At the start there are no streams.
LEMMA StreamInit == Init => StreamInv
<1> SUFFICES ASSUME Init PROVE StreamInv
    OBVIOUS
<1>1. \A c \in Clients : cStreams[c] = <<>> /\ cPc[c] = "idle" /\ cOpt[c] \in Config
    BY ControlAssumption DEF Init
<1>2. ClientLists
  <2>1. \A c \in Clients : StreamsTotal(cOpt[c]) \in Nat
    BY <1>1 DEF StreamsTotal, Config
  <2> QED
    BY <1>1, <2>1 DEF ClientLists
<1>3. CookiesInTurn
  <2>1. \A c \in Clients, n \in 1..(2 * MaxStreams) : <<c, n>> \in Conns
    BY ControlAssumption DEF Conns
  <2> QED
    BY <1>1, <2>1 DEF Init, CookiesInTurn
<1>4. InOrder /\ CookiesWait /\ NoneLost /\ StreamAgreement
    BY DEF Init, InOrder, CookiesWait, NoneLost, StreamAgreement, Pending, Queued
<1> QED
    BY <1>2, <1>3, <1>4 DEF StreamInv

\* Every step keeps the invariant, if no buffer is taken for a cookie.
LEMMA StreamStep == ~StaleCookie /\ TypeInv /\ PhaseInv /\ StreamInv /\ [Next]_vars => StreamInv'
<1>1. ASSUME TypeInv, PhaseInv, StreamInv, UNCHANGED vars PROVE StreamInv'
  <2>1. UNCHANGED <<up, cEnd, sEnd, backlog, cPc, cStreams, cOpt>>
        /\ UNCHANGED <<sPc, sState, sCtrl, sCookie, sStreams, sPend>>
    BY <1>1 DEF vars, netVars, cliVars, srvVars
  <2>2. Pending' = Pending /\ Queued' = Queued
    BY <2>1 DEF Pending, Queued
  <2>3. ClientLists' /\ CookiesInTurn' /\ InOrder'
    BY <1>1, <2>1, <2>2 DEF StreamInv, ClientLists, CookiesInTurn, InOrder
  <2>4. CookiesWait' /\ NoneLost' /\ StreamAgreement'
    BY <1>1, <2>1, <2>2 DEF StreamInv, CookiesWait, NoneLost, StreamAgreement, Dialed
  <2> QED
    BY <2>3, <2>4 DEF StreamInv
<1> QED
    BY <1>1, ClientStreamStep, ServerStreamStep DEF Next

\* StreamAgreement, for any number of clients and streams: as long as
\* iperf_tcp_accept compares the cookie it has read, and not what a short read
\* left in its buffer, the n-th stream of the server is the n-th stream of the
\* client of its test, and one end sends where the other receives.
THEOREM StreamsAgree == ~StaleCookie => (Spec => []StreamAgreement)
<1> SUFFICES ASSUME ~StaleCookie PROVE Spec => []StreamAgreement
    OBVIOUS
<1>1. Init => TypeInv /\ PhaseInv /\ StreamInv
    BY TypeInit, PhaseInit, StreamInit
<1>2. TypeInv /\ PhaseInv /\ StreamInv /\ [Next]_vars => TypeInv' /\ PhaseInv' /\ StreamInv'
    BY TypeStep, PhaseStep, StreamStep
<1>3. StreamInv => StreamAgreement
    BY DEF StreamInv
<1> QED
    BY <1>1, <1>2, <1>3, PTL DEF Spec
=============================================================================
