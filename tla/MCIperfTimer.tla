---------------------------- MODULE MCIperfTimer ----------------------------
(* Instances of IperfTimer for TLC. *)
EXTENDS IperfTimer

CONSTANT s1
=============================================================================
