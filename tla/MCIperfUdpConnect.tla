------------------------- MODULE MCIperfUdpConnect -------------------------
(* Instances of IperfUdpConnect for TLC. *)
EXTENDS IperfUdpConnect

CONSTANTS c1, c2

Sizes(blk, window) == [blk |-> blk, window |-> window]

\* A block that needs a larger buffer than the default, with and without a
\* window of its own, and one for which no buffer is large enough.
MixedSettings ==
    {[c \in Clients |-> IF c = c1 THEN Sizes(3500, 0) ELSE Sizes(3500, 1000)],
     [c \in Clients |-> IF c = c1 THEN Sizes(4000, 0) ELSE Sizes(3500, 0)]}
=============================================================================
