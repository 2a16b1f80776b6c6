------------------------------ MODULE WifiScan ------------------------------
(***************************************************************************)
(* The scan results on their way to the screens.  Every fragment that      *)
(* shows scans has a DetectorViewModel of its own, with a WiFiScanLiveData *)
(* that hears every scan; each result is transformed in a coroutine of its *)
(* own and published to the fragment and to MainContext.wiFiData.  The     *)
(* detail screen rates the channels of each published result, again in a   *)
(* coroutine of its own, and for that looks vendors up in VendorDB, which  *)
(* loads itself on first use.  Scans are numbered; WiFiData is known by    *)
(* the number of its scan.                                                 *)
(***************************************************************************)
EXTENDS Naturals, FiniteSets

CONSTANTS
    MaxScans,   \* bound: scan results
    MaxJobs     \* bound: coroutines that look vendors up

ASSUME WifiScanAssumption == MaxScans \in Nat /\ MaxJobs \in Nat

Scans == 1..MaxScans
Jobs == 1..MaxJobs
Models == {"list", "detail"}

VARIABLES
    screen,     \* the fragment on the screen; "other" is the report or the iperf one
    live,       \* the view models that are not cleared
    scans,      \* how many scan results there were
    pending,    \* the results that view models are transforming
    value,      \* resultScanLiveData of a view model, 0 for none
    wiFiData,   \* MainContext.wiFiData, 0 for none
    list,       \* what the list screen shows
    job,        \* the coroutines that look vendors up: the scan rated, or 0
    at,         \* and where they are
    details,    \* channelRating.wiFiDetails of the detail screen
    items,      \* the ratings the detail screen shows
    loaded,     \* VendorDB.loaded
    filled,     \* the maps of VendorDB are complete
    raced,      \* history: two jobs filled incomplete maps side by side
    missed,     \* history: the jobs that looked vendors up in incomplete maps
                \* that nobody was filling
    crowded     \* history: results of two scans were in work side by side

vars == <<screen, live, scans, pending, value, wiFiData, list, job, at, details, items,
          loaded, filled, raced, missed, crowded>>

Running == {k \in Jobs : at[k] \notin {"none", "done"}}
InWork == {r[1] : r \in pending} \cup ({job[k] : k \in Running} \ {0})
Side(s) == \E j \in InWork : j # s

\* A coroutine or a thread that is about to call findVendorName.
Launch(s) ==
    \E k \in Jobs :
        /\ at[k] = "none" /\ \A l \in 1..(k - 1) : at[l] # "none"
        /\ job' = [job EXCEPT ![k] = s]
        /\ at' = [at EXCEPT ![k] = "load"]

-----------------------------------------------------------------------------
\* handlerResultScan with success: each live view model sets the value and
\* launches transform.  Without success nothing is set.
handlerResultScan ==
    /\ scans < MaxScans
    /\ scans' = scans + 1
    /\ pending' = pending \cup ({scans + 1} \X live)
    /\ crowded' = (crowded \/ (live # {} /\ Side(scans + 1)))
    /\ UNCHANGED <<screen, live, value, wiFiData, list, job, at, details, items, loaded,
                   filled, raced, missed>>

\* Slip: a view model publishes its first result only.
publish_once(j, v) ==
    /\ <<j, v>> \in pending
    /\ pending' = pending \ {<<j, v>>}
    /\ value' = [value EXCEPT ![v] = IF @ = 0 THEN j ELSE @]
    /\ wiFiData' = IF value[v] = 0 THEN j ELSE wiFiData
    /\ list' = IF v = "list" /\ screen = "list" THEN value'[v] ELSE list
    /\ IF v = "detail" /\ screen = "detail" THEN Launch(value'[v]) ELSE UNCHANGED <<job, at>>
    /\ UNCHANGED <<screen, live, scans, details, items, loaded, filled, raced, missed, crowded>>

\* transform comes back: the result is published, whatever came back before.
\* LiveData tells the fragment on the screen only: the list takes the result
\* over, the detail screen launches updateViewFragment.
publish(j, v) ==
    /\ <<j, v>> \in pending
    /\ pending' = pending \ {<<j, v>>}
    /\ value' = [value EXCEPT ![v] = j]
    /\ wiFiData' = j
    /\ list' = IF v = "list" /\ screen = "list" THEN j ELSE list
    /\ IF v = "detail" /\ screen = "detail" THEN Launch(j) ELSE UNCHANGED <<job, at>>
    /\ UNCHANGED <<screen, live, scans, details, items, loaded, filled, raced, missed, crowded>>

-----------------------------------------------------------------------------
\* An item of the list is opened (bound: once).  The list fragment goes to the
\* back stack and keeps its view model; the new view model scans at once, and
\* gets the results there are unless startScan fails; the adapter rates
\* MainContext.wiFiData.
OpenDetail ==
    /\ screen = "list" /\ list # 0 /\ "detail" \notin live
    /\ at = [k \in Jobs |-> "none"]
    /\ screen' = "detail"
    /\ live' = live \cup {"detail"}
    /\ \E success \in BOOLEAN :
           pending' = IF success THEN pending \cup {<<scans, "detail">>} ELSE pending
    /\ Launch(wiFiData)
    /\ crowded' = (crowded \/ Side(scans) \/ wiFiData # scans)
    /\ UNCHANGED <<scans, value, wiFiData, list, details, items, loaded, filled, raced, missed>>

\* onViewCreated and sendReport look vendors up beside the ratings, on the main
\* thread and on an IO thread.
LookUp ==
    /\ screen # "list"
    /\ Launch(0)
    /\ UNCHANGED <<screen, live, scans, pending, value, wiFiData, list, details, items, loaded,
                   filled, raced, missed, crowded>>

\* Back: the detail fragment is destroyed and its view model cleared, which
\* cancels its transformations but not the ratings of the adapter.  The list
\* is told the latest value of its own view model.
Back ==
    /\ screen = "detail"
    /\ screen' = "list"
    /\ live' = live \ {"detail"}
    /\ pending' = {r \in pending : r[2] # "detail"}
    /\ list' = value["list"]
    /\ UNCHANGED <<scans, value, wiFiData, job, at, details, items, loaded, filled, raced,
                   missed, crowded>>

\* The bottom navigation replaces the fragment.  From the list that destroys it
\* with its view model; from the detail screen both fragments stay in the back
\* stack, and their view models go on publishing.
Navigate ==
    /\ screen # "other"
    /\ screen' = "other"
    /\ live' = IF screen = "list" THEN {} ELSE live
    /\ pending' = IF screen = "list" THEN {} ELSE pending
    /\ UNCHANGED <<scans, value, wiFiData, list, job, at, details, items, loaded, filled,
                   raced, missed, crowded>>

-----------------------------------------------------------------------------
\* A job is in the loop of VendorDB.load.
Filling == {k \in Jobs : at[k] = "fill"}

\* VendorDB.load: the flag is set before the maps are filled.  It is a plain
\* field, read and written without a lock: a thread that another one does not
\* wait for may see it unset however long it has been set.
load(k) ==
    /\ at[k] = "load"
    /\ loaded' = TRUE
    /\ \/ loaded /\ at' = [at EXCEPT ![k] = "find"] /\ raced' = raced
       \/ /\ at' = [at EXCEPT ![k] = "fill"]
          /\ raced' = (raced \/ (~filled /\ Filling # {}))
    /\ UNCHANGED <<screen, live, scans, pending, value, wiFiData, list, job, details, items,
                   filled, missed, crowded>>

\* Slip: the maps stay empty.
fill_nothing(k) ==
    /\ at[k] = "fill"
    /\ at' = [at EXCEPT ![k] = "find"]
    /\ UNCHANGED <<screen, live, scans, pending, value, wiFiData, list, job, details, items,
                   loaded, filled, raced, missed, crowded>>

\* The loop of VendorDB.load.  Maps that are complete get the same keys again.
\* They are TreeMaps: two threads that insert side by side can lose entries of
\* each other, for good, since the trees keep what the race made of them.
\* (They can also make a thread loop for ever, a job that never takes this step.)
fill(k) ==
    /\ at[k] = "fill"
    /\ filled' \in IF raced THEN BOOLEAN ELSE {TRUE}
    /\ at' = [at EXCEPT ![k] = "find"]
    /\ UNCHANGED <<screen, live, scans, pending, value, wiFiData, list, job, details, items,
                   loaded, raced, missed, crowded>>

\* findVendorName for the access points of a scan, then setWiFiDetails; the
\* other callers stop after findVendorName.
findVendorName(k) ==
    /\ at[k] = "find"
    /\ missed' = IF filled \/ Filling # {} THEN missed ELSE missed \cup {k}
    /\ at' = [at EXCEPT ![k] = IF job[k] = 0 THEN "done" ELSE "show"]
    /\ details' = IF job[k] = 0 THEN details ELSE job[k]
    /\ UNCHANGED <<screen, live, scans, pending, value, wiFiData, list, job, items, loaded,
                   filled, raced, crowded>>

\* getStrength and getCount over channelRating, whose details another rating
\* may have replaced; setData and notifyDataSetChanged.
setData(k) ==
    /\ at[k] = "show"
    /\ items' = details
    /\ at' = [at EXCEPT ![k] = "done"]
    /\ UNCHANGED <<screen, live, scans, pending, value, wiFiData, list, job, details, loaded,
                   filled, raced, missed, crowded>>

-----------------------------------------------------------------------------
Init ==
    /\ screen = "list" /\ live = {"list"}
    /\ scans = 0 /\ pending = {}
    /\ value = [v \in Models |-> 0]
    /\ wiFiData = 0 /\ list = 0
    /\ job = [k \in Jobs |-> 0] /\ at = [k \in Jobs |-> "none"]
    /\ details = 0 /\ items = 0
    /\ loaded = FALSE /\ filled = FALSE
    /\ raced = FALSE /\ missed = {} /\ crowded = FALSE

Next ==
    \/ handlerResultScan \/ OpenDetail \/ LookUp \/ Back \/ Navigate
    \/ \E j \in Scans, v \in Models : publish(j, v)
    \/ \E k \in Jobs : load(k) \/ fill(k) \/ findVendorName(k) \/ setData(k)

Spec == Init /\ [][Next]_vars

-----------------------------------------------------------------------------
\* The values the variables take: what is in work or shown is a scan there was.
TypeOK ==
    /\ screen \in Models \cup {"other"}
    /\ live \subseteq Models
    /\ scans \in 0..MaxScans
    /\ pending \subseteq (1..scans) \X live
    /\ value \in [Models -> 0..scans]
    /\ {wiFiData, list, details, items} \subseteq 0..scans
    /\ job \in [Jobs -> 0..scans]
    /\ at \in [Jobs -> {"none", "load", "fill", "find", "show", "done"}]
    /\ filled => loaded
    /\ {loaded, filled, raced, crowded} \subseteq BOOLEAN
    /\ missed \subseteq Jobs

\* When nothing is in work, the screens and MainContext show one scan, the
\* newest that a view model heard.  Nothing in the code orders the coroutines,
\* so that this rests on scans being far enough apart: with results of two in
\* work at a time, an older one may be the last to be published or rated.
NewestShown ==
    InWork = {} /\ ~crowded /\ live # {} =>
        /\ wiFiData = scans
        /\ screen = "list" => list = scans
        /\ screen = "detail" => items = scans

\* Although the flag is set first and nothing is locked, a lookup finds the maps
\* incomplete only while another job fills them, and when all jobs are over they
\* are complete - unless two jobs ever filled them side by side.  After that
\* nothing is promised: entries may be gone for all later lookups.
VendorsFound ==
    ~raced => /\ missed = {}
              /\ Running = {} /\ loaded => filled
=============================================================================
