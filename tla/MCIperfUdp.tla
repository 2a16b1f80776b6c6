----------------------------- MODULE MCIperfUdp -----------------------------
(* Instances of IperfUdp for TLC. *)
EXTENDS IperfUdp

\* Forward and reverse tests, each with and without an omit period.
MCConfigs == [reverse : BOOLEAN, omit : BOOLEAN]
=============================================================================
