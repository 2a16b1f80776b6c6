----------------------------- MODULE MCWifiScan -----------------------------
(* Three scans, so that an older one can be overtaken by two, and three      *)
(* jobs: the rating at the opening of the detail screen and two beside it.   *)
EXTENDS WifiScan
=============================================================================
