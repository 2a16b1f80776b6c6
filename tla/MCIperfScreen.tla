--------------------------- MODULE MCIperfScreen ---------------------------
(* Two pairs of tests, so that one can overlap or follow another, and two   *)
(* scans, so that another one can be published between any two reads of     *)
(* an upload or of a pair.  The model only compares scans, so that          *)
(* exchanging them changes nothing; either may be the older one.            *)
EXTENDS IperfScreen, TLC

ScanSymmetry == Permutations(Scans)
=============================================================================
