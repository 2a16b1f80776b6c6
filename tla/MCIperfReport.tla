--------------------------- MODULE MCIperfReport ---------------------------
(* Instances of IperfReport for TLC. *)
EXTENDS IperfReport

Options(mode, num, omit, json, t, b) ==
    [mode |-> mode, num |-> num, omit |-> omit, json |-> [x \in Sides |-> json],
     ticks |-> t, blocks |-> b]

\* Two streams in one direction, one that is omitted at first, one each way,
\* with text and JSON reports.
MixedTests ==
    {Options("SENDER", 2, FALSE, FALSE, 2, 2), Options("RECEIVER", 2, FALSE, FALSE, 1, 2),
     Options("SENDER", 1, TRUE, FALSE, 2, 2), Options("RECEIVER", 1, TRUE, TRUE, 2, 2),
     Options("BIDIRECTIONAL", 1, FALSE, FALSE, 1, 2),
     Options("BIDIRECTIONAL", 1, TRUE, TRUE, 1, 1)}
=============================================================================
