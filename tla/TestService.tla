---------------------------- MODULE TestService ----------------------------
(***************************************************************************)
(* What the control protocol promises: tests are served one after another, *)
(* each goes through its phases in order for one client, and a client that *)
(* reports success was served a whole test of its own.  Messages, streams  *)
(* and connections are not there; a session may be given up at any time,   *)
(* and a client may fail at any time.                                      *)
(***************************************************************************)
CONSTANTS
    Clients,
    NoClient    \* the holder when no test is on

VARIABLES
    holder,     \* the client that is served
    phase,      \* how far its test is at the server
    delivered,  \* the clients the server has sent all results to
    outcome     \* what a client reports

vars == <<holder, phase, delivered, outcome>>

Init ==
    /\ holder = NoClient
    /\ phase = "free"
    /\ delivered = {}
    /\ outcome = [c \in Clients |-> "open"]

\* A free server takes a client on, and nobody twice after a whole test.
Take(c) ==
    /\ phase = "free"
    /\ c \notin delivered
    /\ holder' = c
    /\ phase' = "setup"
    /\ UNCHANGED <<delivered, outcome>>

\* All streams are there; later the client has ended the test.
Advance ==
    /\ \/ phase = "setup" /\ phase' = "test"
       \/ phase = "test" /\ phase' = "results"
    /\ UNCHANGED <<holder, delivered, outcome>>

\* The results have been exchanged.
Deliver ==
    /\ phase = "results"
    /\ phase' = "shown"
    /\ delivered' = delivered \cup {holder}
    /\ UNCHANGED <<holder, outcome>>

\* The session ends, complete or not; afterwards the server is free again.
Close ==
    /\ phase # "over"
    /\ phase' = "over"
    /\ UNCHANGED <<holder, delivered, outcome>>

Free ==
    /\ phase = "over"
    /\ phase' = "free"
    /\ holder' = NoClient
    /\ UNCHANGED <<delivered, outcome>>

Succeed(c) ==
    /\ c \in delivered
    /\ outcome[c] = "open"
    /\ outcome' = [outcome EXCEPT ![c] = "success"]
    /\ UNCHANGED <<holder, phase, delivered>>

Fail(c) ==
    /\ outcome[c] = "open"
    /\ outcome' = [outcome EXCEPT ![c] = "failure"]
    /\ UNCHANGED <<holder, phase, delivered>>

Next ==
    \/ Advance \/ Deliver \/ Close \/ Free
    \/ \E c \in Clients : Take(c) \/ Succeed(c) \/ Fail(c)

Spec == Init /\ [][Next]_vars
=============================================================================
