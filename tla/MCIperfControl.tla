--------------------------- MODULE MCIperfControl ---------------------------
(* Instances of IperfControl for TLC. *)
EXTENDS IperfService

CONSTANTS c1, c2

Opt(mode, num, limit, relisten) ==
    [mode |-> mode, num |-> num, limit |-> limit, relisten |-> relisten]

\* Two streams, so that their order matters, in every direction.
OptsWide == {Opt("BIDIRECTIONAL", 1, "time", FALSE), Opt("SENDER", 2, "bytes", TRUE),
             Opt("RECEIVER", 2, "time", FALSE)}

\* One stream: the smallest tests, for liveness.
OptsTimed == {Opt("SENDER", 1, "time", FALSE), Opt("RECEIVER", 1, "time", FALSE)}
OptsReverseBytes == {Opt("RECEIVER", 1, "bytes", FALSE)}
=============================================================================
