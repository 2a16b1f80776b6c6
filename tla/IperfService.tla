---------------------------- MODULE IperfService ----------------------------
(***************************************************************************)
(* IperfControl implements TestService: the server's control connection is *)
(* the session, its state the phase, and a client is served once the byte  *)
(* DISPLAY_RESULTS is on its way, or read.                                 *)
(***************************************************************************)
EXTENDS IperfControl

Holder == IF sCtrl = NoConn THEN NoClient ELSE Owner(sCtrl)

Phase ==
    CASE sPc \in {"ended", "exited"} -> "over"
      [] sPc \notin {"ended", "exited"} /\ sCtrl = NoConn -> "free"
      [] OTHER -> CASE sState = "TEST_RUNNING" -> "test"
                    [] sState = "EXCHANGE_RESULTS" -> "results"
                    [] sState = "DISPLAY_RESULTS" -> "shown"
                    [] OTHER -> "setup"

Served(c) ==
    \/ cPc[c] = "ended"
    \/ \E i \in DOMAIN down[Ctrl(c)] : down[Ctrl(c)][i].t = "DISPLAY_RESULTS"

Outcome(c) ==
    CASE cPc[c] = "ended" -> "success"
      [] cPc[c] \in {"failed", "killed"} -> "failure"
      [] OTHER -> "open"

Service ==
    INSTANCE TestService
        WITH holder <- Holder,
             phase <- Phase,
             delivered <- {c \in Clients : Served(c)},
             outcome <- [c \in Clients |-> Outcome(c)]

\* Whatever clients connect, die or are turned away meanwhile, the server runs
\* one test at a time through its phases in order, and a client that reports
\* success (iperf_client_end) was served a whole one.
ImplementsService == Service!Spec
=============================================================================
