-------------------------- MODULE WifiScan_proofs --------------------------
(***************************************************************************)
(* Proofs about WifiScan: what the screens show when nothing is in work,   *)
(* and what the jobs that load the vendors leave behind, for any number of *)
(* scans and jobs.                                                         *)
(***************************************************************************)
EXTENDS WifiScan, TLAPS

-----------------------------------------------------------------------------
(* The inductive invariants. *)

\* Until two jobs race, the flag is set only when somebody fills the maps or they
\* are complete.
Vendors ==
    /\ \A k \in Jobs : at[k] \in {"fill", "find", "show", "done"} => loaded
    /\ ~raced => missed = {} /\ (loaded => filled \/ Filling # {})

\* Which view models there are on which screen.
Screens ==
    /\ live \in {{}, {"list"}, {"list", "detail"}}
    /\ screen = "list" => live = {"list"}
    /\ screen = "detail" => live = {"list", "detail"} /\ scans > 0
    /\ \A k \in Jobs : at[k] = "show" => job[k] # 0

\* With one scan in work at a time it is the newest, and whatever does not show
\* it yet will be told of it by what is in work.
Newest ==
    ~crowded /\ live # {} =>
        /\ \A r \in pending : r[1] = scans
        /\ \A k \in Running : job[k] \in {0, scans}
        /\ <<scans, "list">> \notin pending =>
               /\ value["list"] = scans
               /\ wiFiData = scans
               /\ screen = "list" => list = scans
        /\ \A k \in Jobs : at[k] = "show" => details = scans
        /\ screen = "detail" => \/ items = scans
                                \/ <<scans, "detail">> \in pending
                                \/ \E k \in Running : job[k] = scans

\* The inductive invariant of the module.
ScanInv == TypeOK /\ Vendors /\ Screens /\ Newest

-----------------------------------------------------------------------------
\* What is in work is a scan of a pending result or of a running job.
LEMMA InWorkHas ==
    /\ \A r \in pending : r[1] \in InWork
    /\ \A k \in Running : job[k] # 0 => job[k] \in InWork
  BY DEF InWork

\* Launch takes one idle job.
LEMMA LaunchOne ==
    ASSUME NEW s, Launch(s)
    PROVE  \E k \in Jobs : /\ at[k] = "none"
                           /\ job' = [job EXCEPT ![k] = s]
                           /\ at' = [at EXCEPT ![k] = "load"]
  BY DEF Launch

\* A job that is launched changes nothing for the vendors.
LEMMA LaunchVendors ==
    ASSUME TypeOK, Vendors, NEW s, Launch(s), UNCHANGED <<loaded, filled, raced, missed>>
    PROVE  Vendors' /\ at' \in [Jobs -> {"none", "load", "fill", "find", "show", "done"}]
  <1>1. PICK k \in Jobs : at[k] = "none" /\ at' = [at EXCEPT ![k] = "load"]
    BY LaunchOne
  <1>2. \A j \in Jobs : at'[j] = IF j = k THEN "load" ELSE at[j]
    BY <1>1 DEF TypeOK
  <1>3. at' \in [Jobs -> {"none", "load", "fill", "find", "show", "done"}]
    BY <1>1 DEF TypeOK
  <1>4. (\A j \in Jobs : at[j] \in {"fill", "find", "show", "done"} => loaded)'
    BY <1>2 DEF Vendors
  <1>5. Filling' = Filling
    BY <1>1, <1>2 DEF Filling
  <1> QED  BY <1>3, <1>4, <1>5 DEF Vendors

\* A step that leaves the jobs and the maps alone keeps what is said of them.
LEMMA SameVendors ==
    ASSUME Vendors, UNCHANGED <<at, loaded, filled, raced, missed>>
    PROVE  Vendors'
  BY DEF Vendors, Filling

\* handlerResultScan: a scan with nothing of an earlier one in work.
LEMMA ResultKeeps ==
    ASSUME ScanInv, handlerResultScan
    PROVE  ScanInv'
  <1> USE DEF ScanInv
  <1>1. /\ scans < MaxScans /\ scans' = scans + 1 /\ scans \in Nat
        /\ pending' = pending \cup ({scans + 1} \X live)
        /\ UNCHANGED <<screen, live, value, wiFiData, list, job, at, details, items, loaded,
                       filled, raced, missed>>
    BY WifiScanAssumption DEF handlerResultScan, TypeOK
  <1>2. crowded' = (crowded \/ (live # {} /\ Side(scans + 1)))
    BY DEF handlerResultScan
  <1>3. TypeOK'
    <2>1. 0..scans \subseteq 0..scans' /\ 1..scans \subseteq 1..scans' /\ scans' \in 0..MaxScans
      BY <1>1, WifiScanAssumption
    <2>2. pending' \subseteq (1..scans') \X live
      BY <1>1, <2>1 DEF TypeOK
    <2>3. {loaded', filled', raced', crowded'} \subseteq BOOLEAN
      BY <1>1, <1>2 DEF TypeOK
    <2> QED  BY <1>1, <2>1, <2>2, <2>3 DEF TypeOK
  <1>4. Vendors'
    BY <1>1, SameVendors
  <1>5. Screens'
    BY <1>1 DEF Screens
  <1>6. Newest'
    <2> SUFFICES ASSUME ~crowded', live # {}
                 PROVE  Newest'
      BY <1>1 DEF Newest
    <2>1. ~crowded /\ \A j \in InWork : j = scans + 1
      BY <1>2 DEF Side
    <2>2. pending = {}
      BY <1>1, <2>1, InWorkHas DEF TypeOK
    <2>3. \A k \in Running : job[k] = 0
      BY <1>1, <2>1, InWorkHas DEF TypeOK, Running
    <2>4. Running' = Running
      BY <1>1 DEF Running
    <2>5. \A r \in pending' : r[1] = scans'
      BY <1>1, <2>2
    <2>6. <<scans', "list">> \in pending'
      BY <1>1 DEF Screens
    <2>7. \A k \in Jobs : at[k] # "show"
      BY <2>3 DEF Screens, Running
    <2>8. screen = "detail" => <<scans', "detail">> \in pending'
      BY <1>1 DEF Screens
    <2> QED  BY <1>1, <2>3, <2>4, <2>5, <2>6, <2>7, <2>8 DEF Newest
  <1> QED  BY <1>3, <1>4, <1>5, <1>6


\* publish: with one scan in work the result that comes back is the newest.
LEMMA PublishKeeps ==
    ASSUME ScanInv, NEW j \in Scans, NEW v \in Models, publish(j, v)
    PROVE  ScanInv'
  <1> USE DEF ScanInv
  <1>1. /\ <<j, v>> \in pending
        /\ pending' = pending \ {<<j, v>>}
        /\ value' = [value EXCEPT ![v] = j]
        /\ wiFiData' = j
        /\ list' = IF v = "list" /\ screen = "list" THEN j ELSE list
        /\ UNCHANGED <<screen, live, scans, details, items, loaded, filled, raced, missed, crowded>>
    BY DEF publish
  <1>2. CASE v = "detail" /\ screen = "detail" /\ Launch(j)
    <2>1. PICK k \in Jobs : /\ at[k] = "none"
                            /\ job' = [job EXCEPT ![k] = j]
                            /\ at' = [at EXCEPT ![k] = "load"]
      BY <1>2, LaunchOne
    <2>2. Vendors' /\ at' \in [Jobs -> {"none", "load", "fill", "find", "show", "done"}]
      BY <1>1, <1>2, LaunchVendors
    <2>3. j \in 1..scans /\ j \in 0..scans /\ scans \in Nat
      BY <1>1, WifiScanAssumption DEF TypeOK
    <2>4. TypeOK'
      BY <1>1, <2>1, <2>2, <2>3 DEF TypeOK, Models
    <2>5. \A l \in Jobs : /\ at'[l] = IF l = k THEN "load" ELSE at[l]
                          /\ job'[l] = IF l = k THEN j ELSE job[l]
      BY <2>1 DEF TypeOK
    <2>6. Screens'
      BY <1>1, <2>5 DEF Screens
    <2>7. Newest'
      <3> SUFFICES ASSUME ~crowded, live # {}
                   PROVE  Newest'
        BY <1>1 DEF Newest
      <3>1. j = scans
        BY <1>1 DEF Newest
      <3>2. Running' = Running \cup {k}
        BY <2>5 DEF Running
      <3>3. \A l \in Running' : job'[l] \in {0, scans}
        BY <2>5, <3>1, <3>2 DEF Newest, Running
      <3>4. \A l \in Jobs : at'[l] = "show" => details = scans
        BY <2>5 DEF Newest
      <3>5. k \in Running' /\ job'[k] = scans
        BY <2>5, <3>1, <3>2
      <3>6. <<scans, "list">> \notin pending' => value'["list"] = scans /\ wiFiData' = scans
        BY <1>1, <1>2, <3>1 DEF Newest, TypeOK
      <3> QED  BY <1>1, <1>2, <3>3, <3>4, <3>5, <3>6 DEF Newest
    <2> QED  BY <2>2, <2>4, <2>6, <2>7
  <1>3. CASE ~(v = "detail" /\ screen = "detail") /\ UNCHANGED <<job, at>>
    <2>1. Vendors'
      BY <1>1, <1>3, SameVendors
    <2>2. j \in 1..scans /\ j \in 0..scans /\ scans \in Nat
      BY <1>1, WifiScanAssumption DEF TypeOK
    <2>3. TypeOK'
      BY <1>1, <1>3, <2>2 DEF TypeOK, Models
    <2>4. Screens'
      BY <1>1, <1>3 DEF Screens
    <2>5. Newest'
      <3> SUFFICES ASSUME ~crowded, live # {}
                   PROVE  Newest'
        BY <1>1 DEF Newest
      <3>1. j = scans
        BY <1>1 DEF Newest
      <3>2. Running' = Running
        BY <1>3 DEF Running
      <3>3. <<scans, "list">> \notin pending' =>
                value'["list"] = scans /\ wiFiData' = scans /\ (screen = "list" => list' = scans)
        <4>1. CASE v = "list"
          BY <1>1, <3>1, <4>1 DEF TypeOK, Models
        <4>2. CASE v # "list"
          BY <1>1, <3>1, <4>2 DEF Newest, TypeOK, Models
        <4> QED  BY <4>1, <4>2
      <3>4. screen = "detail" => \/ items = scans
                                 \/ <<scans, "detail">> \in pending'
                                 \/ \E k \in Running : job[k] = scans
        BY <1>1, <1>3 DEF Newest
      <3> QED  BY <1>1, <1>3, <3>2, <3>3, <3>4 DEF Newest
    <2> QED  BY <2>1, <2>3, <2>4, <2>5
  <1> QED  BY <1>2, <1>3 DEF publish

\* OpenDetail: the adapter rates the newest scan, and the new view model waits
\* for it too if it can scan.
LEMMA OpenKeeps ==
    ASSUME ScanInv, OpenDetail
    PROVE  ScanInv'
  <1> USE DEF ScanInv
  <1>1. /\ screen = "list" /\ list # 0 /\ at = [k \in Jobs |-> "none"]
        /\ screen' = "detail" /\ live' = live \cup {"detail"}
        /\ pending' \in {pending, pending \cup {<<scans, "detail">>}}
        /\ UNCHANGED <<scans, value, wiFiData, list, details, items, loaded, filled, raced, missed>>
    BY DEF OpenDetail
  <1>2. crowded' = (crowded \/ Side(scans) \/ wiFiData # scans)
    BY DEF OpenDetail
  <1>3. PICK k \in Jobs : /\ at[k] = "none"
                          /\ job' = [job EXCEPT ![k] = wiFiData]
                          /\ at' = [at EXCEPT ![k] = "load"]
    BY LaunchOne DEF OpenDetail
  <1>4. Vendors' /\ at' \in [Jobs -> {"none", "load", "fill", "find", "show", "done"}]
    BY <1>1, LaunchVendors DEF OpenDetail
  <1>5. scans \in Nat /\ scans > 0 /\ scans \in 1..scans
    BY <1>1, WifiScanAssumption DEF TypeOK
  <1>6. \A l \in Jobs : /\ at'[l] = IF l = k THEN "load" ELSE "none"
                        /\ job'[l] = IF l = k THEN wiFiData ELSE job[l]
    BY <1>1, <1>3 DEF TypeOK
  <1>7. TypeOK'
    <2>1. pending' \subseteq (1..scans) \X live'
      BY <1>1, <1>5 DEF TypeOK
    <2>2. {loaded', filled', raced', crowded'} \subseteq BOOLEAN
      BY <1>1, <1>2 DEF TypeOK
    <2>3. job' \in [Jobs -> 0..scans]
      BY <1>3 DEF TypeOK
    <2>4. live' \subseteq Models /\ screen' \in Models
      BY <1>1 DEF TypeOK, Models
    <2> QED  BY <1>1, <1>4, <2>1, <2>2, <2>3, <2>4 DEF TypeOK
  <1>8. Screens'
    BY <1>1, <1>5, <1>6 DEF Screens
  <1>9. Newest'
    <2> SUFFICES ASSUME ~crowded'
                 PROVE  Newest'
      BY DEF Newest
    <2>1. ~crowded /\ wiFiData = scans /\ live # {}
      BY <1>1, <1>2 DEF Screens
    <2>2. Running' = {k}
      BY <1>6 DEF Running
    <2>3. k \in Running' /\ job'[k] = scans
      BY <1>6, <2>1, <2>2
    <2>4. \A r \in pending' : r[1] = scans
      BY <1>1, <2>1 DEF Newest
    <2>5. <<scans, "list">> \notin pending' => value["list"] = scans /\ wiFiData = scans
      BY <1>1, <2>1 DEF Newest
    <2>6. \A l \in Jobs : at'[l] # "show"
      BY <1>6
    <2> QED  BY <1>1, <2>2, <2>3, <2>4, <2>5, <2>6 DEF Newest
  <1> QED  BY <1>4, <1>7, <1>8, <1>9

\* LookUp: a job that rates nothing.
LEMMA LookUpKeeps ==
    ASSUME ScanInv, LookUp
    PROVE  ScanInv'
  <1> USE DEF ScanInv
  <1>1. UNCHANGED <<screen, live, scans, pending, value, wiFiData, list, details, items, loaded,
                    filled, raced, missed, crowded>>
    BY DEF LookUp
  <1>2. PICK k \in Jobs : /\ at[k] = "none"
                          /\ job' = [job EXCEPT ![k] = 0]
                          /\ at' = [at EXCEPT ![k] = "load"]
    BY LaunchOne DEF LookUp
  <1>3. Vendors' /\ at' \in [Jobs -> {"none", "load", "fill", "find", "show", "done"}]
    BY <1>1, LaunchVendors DEF LookUp
  <1>4. \A l \in Jobs : /\ at'[l] = IF l = k THEN "load" ELSE at[l]
                        /\ job'[l] = IF l = k THEN 0 ELSE job[l]
    BY <1>2 DEF TypeOK
  <1>5. TypeOK'
    <2>1. scans \in Nat /\ 0 \in 0..scans
      BY WifiScanAssumption DEF TypeOK
    <2> QED  BY <1>1, <1>2, <1>3, <2>1 DEF TypeOK
  <1>6. Screens'
    BY <1>1, <1>4 DEF Screens
  <1>7. Newest'
    <2>1. Running' = Running \cup {k}
      BY <1>4 DEF Running
    <2>2. k \notin Running /\ \A l \in Running : job'[l] = job[l]
      BY <1>2, <1>4 DEF Running
    <2>3. ~crowded /\ live # {} => \A l \in Running' : job'[l] \in {0, scans}
      BY <1>4, <2>1, <2>2 DEF Newest
    <2>4. ~crowded /\ live # {} => \A l \in Jobs : at'[l] = "show" => details = scans
      BY <1>4 DEF Newest
    <2>5. (\E l \in Running : job[l] = scans) => \E l \in Running' : job'[l] = scans
      BY <2>1, <2>2
    <2> QED  BY <1>1, <2>3, <2>4, <2>5 DEF Newest
  <1> QED  BY <1>3, <1>5, <1>6, <1>7

\* Back and Navigate: the list is told what its view model has; when both view
\* models are gone there is nothing left to say.
LEMMA LeaveKeeps ==
    ASSUME ScanInv, Back \/ Navigate
    PROVE  ScanInv'
  <1> USE DEF ScanInv
  <1>1. UNCHANGED <<scans, value, wiFiData, job, at, details, items, loaded, filled, raced, missed,
                    crowded>>
    BY DEF Back, Navigate
  <1>2. Vendors' /\ Running' = Running
    BY <1>1, SameVendors DEF Running
  <1>3. CASE Back
    <2>1. /\ screen = "detail" /\ screen' = "list" /\ live' = live \ {"detail"}
          /\ pending' = {r \in pending : r[2] # "detail"} /\ list' = value["list"]
      BY <1>3 DEF Back
    <2>2. TypeOK'
      <3>1. pending' \subseteq (1..scans) \X live'
        BY <2>1 DEF TypeOK
      <3>2. list' \in 0..scans /\ live' \subseteq Models /\ screen' \in Models
        BY <2>1 DEF TypeOK, Models
      <3> QED  BY <1>1, <3>1, <3>2 DEF TypeOK
    <2>3. live' = {"list"}
      BY <2>1 DEF Screens
    <2>4. Screens'
      BY <1>1, <2>1, <2>3 DEF Screens
    <2>5. <<scans, "list">> \notin pending' => <<scans, "list">> \notin pending
      BY <2>1
    <2>6. live # {}
      BY <2>1 DEF Screens
    <2> QED  BY <1>1, <1>2, <2>1, <2>2, <2>4, <2>5, <2>6 DEF Newest
  <1>4. CASE Navigate /\ screen = "list"
    <2>1. screen' = "other" /\ live' = {} /\ pending' = {} /\ list' = list
      BY <1>4 DEF Navigate
    <2>2. TypeOK' /\ Screens' /\ Newest'
      BY <1>1, <2>1 DEF TypeOK, Screens, Newest
    <2> QED  BY <1>2, <2>2
  <1>5. CASE Navigate /\ screen # "list"
    <2>1. screen' = "other" /\ live' = live /\ pending' = pending /\ list' = list
      BY <1>5 DEF Navigate
    <2>2. TypeOK' /\ Screens'
      BY <1>1, <2>1 DEF TypeOK, Screens
    <2>3. Newest'
      BY <1>1, <1>2, <2>1 DEF Newest
    <2> QED  BY <1>2, <2>2, <2>3
  <1> QED  BY <1>3, <1>4, <1>5


\* VendorDB.load and its loop: whoever sets the flag fills the maps, and has
\* filled them when it goes on, if no other did beside it.
LEMMA LoadKeeps ==
    ASSUME ScanInv, NEW k \in Jobs, load(k) \/ fill(k)
    PROVE  ScanInv'
  <1> USE DEF ScanInv
  <1>1. /\ UNCHANGED <<screen, live, scans, pending, value, wiFiData, list, job, details, items,
                       missed, crowded>>
        /\ at[k] \in {"load", "fill"}
    BY DEF load, fill
  <1>2. PICK to \in {"fill", "find"} : at' = [at EXCEPT ![k] = to]
    BY DEF load, fill
  <1>3. \A l \in Jobs : at'[l] = IF l = k THEN to ELSE at[l]
    BY <1>2 DEF TypeOK
  <1>4. loaded' = TRUE /\ filled' \in BOOLEAN /\ raced' \in BOOLEAN /\ (raced => raced')
    <2>0. {loaded, filled, raced} \subseteq BOOLEAN
      BY DEF TypeOK
    <2>1. CASE load(k)
      <3>1. loaded' = TRUE /\ filled' = filled
        BY <2>1 DEF load
      <3>2. raced' = raced \/ raced' = (raced \/ (~filled /\ Filling # {}))
        BY <2>1 DEF load
      <3>3. raced' \in BOOLEAN /\ (raced => raced')
        <4> DEFINE p == ~filled /\ Filling # {}
        <4>1. p \in BOOLEAN /\ raced \in BOOLEAN /\ (raced' = raced \/ raced' = (raced \/ p))
          BY <2>0, <3>2
        <4> HIDE DEF p
        <4> QED  BY <4>1, Zenon
      <3> QED  BY <2>0, <3>1, <3>3
    <2>2. CASE fill(k)
      BY <2>0, <2>2 DEF fill, Vendors
    <2> QED  BY <2>1, <2>2
  <1>5. TypeOK'
    <2>1. at' \in [Jobs -> {"none", "load", "fill", "find", "show", "done"}]
      BY <1>2 DEF TypeOK
    <2> QED  BY <1>1, <1>4, <2>1 DEF TypeOK
  <1>6. Screens'
    BY <1>1, <1>3 DEF Screens
  <1>7. Newest'
    <2>1. Running' = Running
      BY <1>1, <1>3 DEF Running
    <2>2. \A l \in Jobs : at'[l] = "show" => at[l] = "show"
      BY <1>3
    <2> QED  BY <1>1, <2>1, <2>2 DEF Newest
  <1>8. ~raced' => filled' \/ Filling' # {}
    <2>1. CASE to = "fill"
      BY <1>3, <2>1 DEF Filling
    <2>2. CASE to = "find" /\ load(k)
      <3>1. at' # [at EXCEPT ![k] = "fill"]
        BY <1>3, <2>2 DEF TypeOK
      <3>2. loaded /\ filled' = filled /\ at[k] = "load"
        BY <2>2, <3>1 DEF load
      <3>3. \A l \in Filling : l \in Filling'
        BY <1>3, <3>2 DEF Filling
      <3> QED  BY <1>4, <3>2, <3>3 DEF Vendors, TypeOK
    <2>3. CASE fill(k)
      BY <2>3 DEF fill
    <2> QED  BY <2>1, <2>2, <2>3
  <1>9. Vendors'
    BY <1>1, <1>4, <1>8 DEF Vendors, TypeOK
  <1> QED  BY <1>5, <1>6, <1>7, <1>9

\* findVendorName and setWiFiDetails: without a race the maps are complete or in
\* work, and the details are those of the scan in work.
LEMMA FindKeeps ==
    ASSUME ScanInv, NEW k \in Jobs, findVendorName(k)
    PROVE  ScanInv'
  <1> USE DEF ScanInv
  <1> DEFINE to == IF job[k] = 0 THEN "done" ELSE "show"
  <1>1. /\ UNCHANGED <<screen, live, scans, pending, value, wiFiData, list, job, items, loaded,
                       filled, raced, crowded>>
        /\ at[k] = "find" /\ at' = [at EXCEPT ![k] = to]
        /\ missed' = IF filled \/ Filling # {} THEN missed ELSE missed \cup {k}
        /\ details' = IF job[k] = 0 THEN details ELSE job[k]
    BY DEF findVendorName
  <1>2. to \in {"done", "show"} /\ (to = "done" <=> job[k] = 0)
    OBVIOUS
  <1> HIDE DEF to
  <1>3. \A l \in Jobs : at'[l] = IF l = k THEN to ELSE at[l]
    BY <1>1 DEF TypeOK
  <1>4. TypeOK'
    <2>1. at' \in [Jobs -> {"none", "load", "fill", "find", "show", "done"}]
      BY <1>1, <1>2 DEF TypeOK
    <2>2. details' \in 0..scans /\ missed' \subseteq Jobs
      BY <1>1 DEF TypeOK
    <2> QED  BY <1>1, <2>1, <2>2 DEF TypeOK
  <1>5. Screens'
    BY <1>1, <1>2, <1>3 DEF Screens
  <1>6. Newest'
    <2> SUFFICES ASSUME ~crowded, live # {}
                 PROVE  Newest'
      BY <1>1 DEF Newest
    <2>1. Running' \subseteq Running /\ k \in Running
      BY <1>1, <1>3 DEF Running
    <2>2. \A l \in Running : l # k => l \in Running'
      BY <1>3 DEF Running
    <2>3. to = "show" => k \in Running' /\ job[k] = scans
      BY <1>2, <1>3, <2>1 DEF Newest, Running
    <2>4. \A l \in Jobs : at'[l] = "show" => details' = scans
      BY <1>1, <1>2, <1>3, <2>3 DEF Newest
    <2>5. screen = "detail" => \/ items = scans
                               \/ <<scans, "detail">> \in pending
                               \/ \E l \in Running' : job[l] = scans
      <3>1. ASSUME screen = "detail", job[k] = scans PROVE to = "show"
        <4>1. scans # 0
          BY <3>1, WifiScanAssumption DEF Screens, TypeOK
        <4> QED  BY <1>2, <3>1, <4>1
      <3> QED  BY <2>2, <2>3, <3>1 DEF Newest
    <2> QED  BY <1>1, <2>1, <2>4, <2>5 DEF Newest
  <1>7. Vendors'
    <2>1. loaded
      BY <1>1 DEF Vendors
    <2>2. ~raced => missed' = missed
      BY <1>1, <2>1 DEF Vendors
    <2>3. Filling' = Filling
      BY <1>1, <1>2, <1>3 DEF Filling
    <2> QED  BY <1>1, <2>1, <2>2, <2>3 DEF Vendors
  <1> QED  BY <1>4, <1>5, <1>6, <1>7

\* setData: what the job shows are the details of the scan in work.
LEMMA SetDataKeeps ==
    ASSUME ScanInv, NEW k \in Jobs, setData(k)
    PROVE  ScanInv'
  <1> USE DEF ScanInv
  <1>1. /\ UNCHANGED <<screen, live, scans, pending, value, wiFiData, list, job, details, loaded,
                       filled, raced, missed, crowded>>
        /\ at[k] = "show" /\ at' = [at EXCEPT ![k] = "done"] /\ items' = details
    BY DEF setData
  <1>2. \A l \in Jobs : at'[l] = IF l = k THEN "done" ELSE at[l]
    BY <1>1 DEF TypeOK
  <1>3. TypeOK'
    BY <1>1 DEF TypeOK
  <1>4. Screens'
    BY <1>1, <1>2 DEF Screens
  <1>5. Newest'
    <2>1. Running' \subseteq Running
      BY <1>2 DEF Running
    <2> QED  BY <1>1, <1>2, <2>1 DEF Newest
  <1>6. Vendors'
    <2>1. Filling' = Filling
      BY <1>1, <1>2 DEF Filling
    <2>2. \A l \in Jobs : at'[l] \in {"fill", "find", "show", "done"} => loaded
      BY <1>1, <1>2 DEF Vendors
    <2> QED  BY <1>1, <2>1, <2>2 DEF Vendors
  <1> QED  BY <1>3, <1>4, <1>5, <1>6

-----------------------------------------------------------------------------
(* The theorems. *)

\* The invariant always holds.
LEMMA ScanInvariant == Spec => []ScanInv
  <1>1. Init => ScanInv
    <2> SUFFICES ASSUME Init PROVE ScanInv
      OBVIOUS
    <2> USE DEF Init
    <2>1. TypeOK
      <3>1. scans \in 0..MaxScans /\ 0 \in 0..scans
        BY WifiScanAssumption
      <3>2. screen \in Models \cup {"other"} /\ live \subseteq Models
        BY DEF Models
      <3>3. value \in [Models -> 0..scans] /\ job \in [Jobs -> 0..scans]
        BY <3>1
      <3>4. at \in [Jobs -> {"none", "load", "fill", "find", "show", "done"}]
        OBVIOUS
      <3>5. {loaded, filled, raced, crowded} \subseteq BOOLEAN /\ (filled => loaded)
        OBVIOUS
      <3> QED  BY <3>1, <3>2, <3>3, <3>4, <3>5 DEF TypeOK
    <2>2. Vendors /\ Screens
      BY DEF Vendors, Screens
    <2>3. Newest
      <3>1. Running = {} /\ \A k \in Jobs : at[k] # "show"
        BY DEF Running
      <3>2. value["list"] = scans /\ wiFiData = scans /\ list = scans /\ screen # "detail"
        BY DEF Models
      <3> QED  BY <3>1, <3>2 DEF Newest
    <2> QED  BY <2>1, <2>2, <2>3 DEF ScanInv
  <1>2. ScanInv /\ [Next]_vars => ScanInv'
    <2> SUFFICES ASSUME ScanInv, [Next]_vars PROVE ScanInv'
      OBVIOUS
    <2>1. CASE UNCHANGED vars
      <3> USE <2>1 DEF vars, ScanInv
      <3>1. TypeOK' /\ Screens'
        BY DEF TypeOK, Screens
      <3>2. Vendors'
        BY SameVendors
      <3>3. Newest'
        BY DEF Newest, Running
      <3> QED  BY <3>1, <3>2, <3>3
    <2>2. CASE handlerResultScan
      BY <2>2, ResultKeeps
    <2>3. CASE OpenDetail
      BY <2>3, OpenKeeps
    <2>4. CASE LookUp
      BY <2>4, LookUpKeeps
    <2>5. CASE Back \/ Navigate
      BY <2>5, LeaveKeeps
    <2>6. ASSUME NEW j \in Scans, NEW v \in Models, publish(j, v) PROVE ScanInv'
      BY <2>6, PublishKeeps
    <2>7. ASSUME NEW k \in Jobs, load(k) \/ fill(k) \/ findVendorName(k) \/ setData(k)
          PROVE  ScanInv'
      BY <2>7, LoadKeeps, FindKeeps, SetDataKeeps
    <2> QED  BY <2>1, <2>2, <2>3, <2>4, <2>5, <2>6, <2>7 DEF Next
  <1> QED  BY <1>1, <1>2, PTL DEF Spec

\* The variables of WifiScan always have their types: nothing shown or in work
\* is a scan there was not, and no result is pending for a cleared view model.
THEOREM ScanTyped == Spec => []TypeOK
  <1>1. ScanInv => TypeOK
    BY DEF ScanInv
  <1> QED  BY <1>1, ScanInvariant, PTL

\* DetectorViewModel and the adapters: when nothing is in work and the results
\* of no two scans ever were at once, the screen and MainContext.wiFiData are of
\* the newest scan, however the fragments were opened, left and navigated.
THEOREM NewestIsShown == Spec => []NewestShown
  <1>1. ScanInv => NewestShown
    <2> SUFFICES ASSUME ScanInv, InWork = {}, ~crowded, live # {}
                 PROVE  /\ wiFiData = scans
                        /\ screen = "list" => list = scans
                        /\ screen = "detail" => items = scans
      BY DEF NewestShown
    <2>1. Newest /\ Screens /\ TypeOK
      BY DEF ScanInv
    <2>2. pending = {}
      BY InWorkHas
    <2>3. \A k \in Running : job[k] = 0
      BY InWorkHas
    <2>4. screen = "detail" => scans # 0
      BY <2>1, WifiScanAssumption DEF Screens, TypeOK
    <2> QED  BY <2>1, <2>2, <2>3, <2>4 DEF Newest
  <1> QED  BY <1>1, ScanInvariant, PTL

\* VendorDB.load without a lock: as long as no two jobs fill the maps side by
\* side, a lookup finds them incomplete only while they are filled, and with all
\* jobs over they are complete.  A job that fills complete maps again, because it
\* saw the flag unset, does no harm.
THEOREM VendorsAreFound == Spec => []VendorsFound
  <1>1. ScanInv => VendorsFound
    <2> SUFFICES ASSUME ScanInv, ~raced
                 PROVE  missed = {} /\ (Running = {} /\ loaded => filled)
      BY DEF VendorsFound
    <2>1. missed = {} /\ (loaded => filled \/ Filling # {})
      BY DEF ScanInv, Vendors
    <2>2. Filling \subseteq Running
      BY DEF Filling, Running
    <2> QED  BY <2>1, <2>2
  <1> QED  BY <1>1, ScanInvariant, PTL
=============================================================================
