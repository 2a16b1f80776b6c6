---------------------------- MODULE IperfScreen ----------------------------
(***************************************************************************)
(* IperfFragment: one swipe starts a pair of tests, towards the server and *)
(* back.  A native test runs on a thread of Dispatchers.IO and hands its   *)
(* report to reportCallback on that thread; the callback counts it and     *)
(* launches an upload on the main thread, which shows the result when two  *)
(* reports are counted.  The Wi-Fi side (WifiScan) is here by the order in *)
(* which its scans reach MainContext.wiFiData, which need not be theirs.   *)
(***************************************************************************)
EXTENDS Naturals, Sequences, FiniteSets

CONSTANTS
    MaxPairs,     \* bound: pairs of tests the user starts
    Scans,        \* the scans, whose order in time the screen does not see
    NoScan,       \* none yet
    MaxPublished  \* bound: changes of MainContext.wiFiData

ASSUME IperfScreenAssumption ==
    MaxPairs \in Nat /\ MaxPublished \in Nat /\ NoScan \notin Scans

Pairs == 1..MaxPairs
Dirs == {"fwd", "rev"}
Reports == Pairs \X Dirs

VARIABLES
    published,  \* the scans that MainContext.wiFiData was set to, in that order
    pc,         \* where the coroutine of a pair is
    seen,       \* the count that the callback of a pair has read
    count,      \* IperfFragment.count
    reports,    \* IperfFragment.reports
    uuid,       \* IperfFragment.uuid, numbered
    upload,     \* where the upload of a report is
    tags,       \* the Info of every report that was posted
    view,       \* what the screen shows
    shown,      \* resultTest.text
    left,       \* the user has left the screen once (bound: one time)
    crashed,    \* an exception has ended the process
    upsets      \* history: what went against the order the screen relies on

vars == <<published, pc, seen, count, reports, uuid, upload, tags, view, shown, left, crashed,
          upsets>>

\* MainContext.wiFiData by its scan.
wiFiData == IF published = <<>> THEN NoScan ELSE published[Len(published)]

Native == {p \in Pairs : pc[p] \in {"fwd", "rev", "orphan"}}
AtWork == {p \in Pairs : pc[p] \notin {"none", "over"}}
Uploading == {r \in Reports : upload[r] \notin {"none", "done"}}
After(dir) == IF dir = "fwd" THEN "delay" ELSE "over"

-----------------------------------------------------------------------------
\* The button is at its start: iperfStartView, and start on an IO thread.
onSwipe_Forward(p) ==
    /\ view # "running"
    /\ pc[p] = "none" /\ \A q \in 1..(p - 1) : pc[q] # "none"
    /\ pc' = [pc EXCEPT ![p] = "fwd"]
    /\ view' = "running"
    /\ upsets' = IF AtWork = {} /\ Uploading = {} THEN upsets ELSE upsets \cup {"overlap"}
    /\ UNCHANGED <<published, seen, count, reports, uuid, upload, tags, shown, left, crashed>>

\* iperfStopView, and nothing else.
onSwipe_Reverse ==
    /\ view = "running"
    /\ view' = "stopped"
    /\ upsets' = upsets \cup {"halt"}
    /\ UNCHANGED <<published, pc, seen, count, reports, uuid, upload, tags, shown, left, crashed>>

\* iperf_run_client fails: IperfTest throws, the JNI function raises
\* ConnectException and the handler of the swipe ends the pair.
TestFails(p) ==
    /\ pc[p] \in Dirs
    /\ pc' = [pc EXCEPT ![p] = "over"]
    /\ view' = "stopped"
    /\ upsets' = IF pc[p] = "rev" THEN upsets \cup {"half"} ELSE upsets
    /\ UNCHANGED <<published, seen, count, reports, uuid, upload, tags, shown, left, crashed>>

\* reportCallback up to reports.add: the count alone decides which line is made.
TestEnds(p) ==
    /\ pc[p] \in Dirs
    /\ seen' = [seen EXCEPT ![p] = count]
    /\ reports' = Append(reports, [pair |-> p, dir |-> pc[p],
                                   line |-> IF count = 0 THEN "sent" ELSE "received"])
    /\ pc' = [pc EXCEPT ![p] = IF @ = "fwd" THEN "fwdCallback" ELSE "revCallback"]
    /\ UNCHANGED <<published, count, uuid, upload, tags, view, shown, left, crashed, upsets>>

\* The report cannot be read (a byte count that does not fit an Int is a Long
\* to JsonPath): the callback logs it, and it is neither counted nor uploaded.
ReportUnreadable(p) ==
    /\ pc[p] \in Dirs
    /\ pc' = [pc EXCEPT ![p] = After(@)]
    /\ upsets' = upsets \cup {"half"}
    /\ UNCHANGED <<published, seen, count, reports, uuid, upload, tags, view, shown, left, crashed>>

\* count++ and the launch of the upload.  The increment is not atomic: what it
\* reads may be as old as what the branch has read.
CountUp(p, dir) ==
    /\ pc[p] = IF dir = "fwd" THEN "fwdCallback" ELSE "revCallback"
    /\ count' \in {seen[p] + 1, count + 1}
    /\ seen' = [seen EXCEPT ![p] = 0]
    /\ pc' = [pc EXCEPT ![p] = After(dir)]
    /\ upload' = [upload EXCEPT ![<<p, dir>>] = "queued"]
    /\ upsets' = IF dir = "rev" /\ <<p, "fwd">> \in Uploading
                 THEN upsets \cup {"slow"} ELSE upsets
    /\ UNCHANGED <<published, reports, uuid, tags, view, shown, left, crashed>>

\* delay(1500) is over and the second test starts, whatever the screen shows.
StartReverse(p) ==
    /\ pc[p] = "delay"
    /\ pc' = [pc EXCEPT ![p] = "rev"]
    /\ UNCHANGED <<published, seen, count, reports, uuid, upload, tags, view, shown, left, crashed,
                   upsets>>

-----------------------------------------------------------------------------
\* Slip: the ssid of the first scan there was.
ReadSsid_cached(r) ==
    /\ upload[r] = "queued"
    /\ wiFiData # NoScan
    /\ upload' = [upload EXCEPT ![r] = "ssid"]
    /\ tags' = tags \cup {[report |-> r, ssid |-> published[1], bssid |-> NoScan, uuid |-> 0]}
    /\ UNCHANGED <<published, pc, seen, count, reports, uuid, view, shown, left, crashed, upsets>>

\* sendReport on an IO thread: MainContext.wiFiData is read for the ssid.  Before
\* the first scan it is not initialized, and nothing catches the exception.
ReadSsid(r) ==
    /\ upload[r] = "queued"
    /\ \/ /\ wiFiData = NoScan
          /\ crashed' = TRUE
          /\ UNCHANGED <<upload, tags>>
       \/ /\ wiFiData # NoScan
          /\ upload' = [upload EXCEPT ![r] = "ssid"]
          /\ tags' = tags \cup {[report |-> r, ssid |-> wiFiData, bssid |-> NoScan, uuid |-> 0]}
          /\ UNCHANGED crashed
    /\ UNCHANGED <<published, pc, seen, count, reports, uuid, view, shown, left, upsets>>

\* It is read again for the bssid, then the uuid, and the report is posted.
ReadBssid(r) ==
    /\ upload[r] = "ssid"
    /\ upload' = [upload EXCEPT ![r] = "posted"]
    /\ tags' = {IF t.report = r THEN [t EXCEPT !.bssid = wiFiData, !.uuid = uuid] ELSE t : t \in tags}
    /\ UNCHANGED <<published, pc, seen, count, reports, uuid, view, shown, left, crashed, upsets>>

\* Slip: the result is shown with the first report of a pair.
EndUpload_early(r) ==
    /\ upload[r] = "posted"
    /\ upload' = [upload EXCEPT ![r] = "done"]
    /\ view' = "result"
    /\ UNCHANGED <<published, pc, seen, count, reports, uuid, tags, shown, left, crashed, upsets>>

\* Slip: every upload takes a new uuid.
EndUpload_newUuid(r) ==
    /\ upload[r] = "posted"
    /\ upload' = [upload EXCEPT ![r] = "done"]
    /\ view' = IF count = 2 THEN "result" ELSE view
    /\ shown' = IF count = 2 THEN SubSeq(reports, 1, 2) ELSE shown
    /\ uuid' = uuid + 1
    /\ count' = IF count = 2 THEN 0 ELSE count
    /\ UNCHANGED <<published, pc, seen, reports, tags, left, crashed, upsets>>

\* Slip: the count is not reset.
EndUpload_keepsCount(r) ==
    /\ upload[r] = "posted"
    /\ upload' = [upload EXCEPT ![r] = "done"]
    /\ view' = IF count = 2 THEN "result" ELSE view
    /\ shown' = IF count = 2 THEN SubSeq(reports, 1, 2) ELSE shown
    /\ uuid' = IF count = 2 THEN uuid + 1 ELSE uuid
    /\ UNCHANGED <<published, pc, seen, count, reports, tags, left, crashed, upsets>>

\* The upload is back on the main thread (the repository answers with success
\* whatever happened): with two reports counted the pair is complete.
EndUpload(r) ==
    /\ upload[r] = "posted"
    /\ upload' = [upload EXCEPT ![r] = "done"]
    /\ \/ /\ count = 2
          /\ view' = "result"
          /\ shown' = SubSeq(reports, 1, 2)
          /\ uuid' = uuid + 1
          /\ count' = 0
       \/ /\ count # 2
          /\ UNCHANGED <<view, shown, uuid, count>>
    /\ UNCHANGED <<published, pc, seen, reports, tags, left, crashed, upsets>>

-----------------------------------------------------------------------------
\* The navigation replaces the fragment: onDestroy cancels its coroutines, but a
\* native test runs on.  The next visit makes a new fragment.
Leave ==
    /\ ~left /\ left' = TRUE
    /\ pc' = [p \in Pairs |-> CASE pc[p] \in Dirs -> "orphan"
                                [] pc[p] = "none" -> "none"
                                [] OTHER          -> "over"]
    /\ upload' = [r \in Reports |-> IF upload[r] = "none" THEN "none" ELSE "done"]
    /\ seen' = [p \in Pairs |-> 0]
    /\ count' = 0 /\ reports' = <<>> /\ shown' = <<>>
    /\ view' = "stopped"
    /\ uuid' = uuid + 1
    /\ upsets' = IF Native = {} THEN upsets ELSE upsets \cup {"left"}
    /\ UNCHANGED <<published, tags, crashed>>

\* The callback of a destroyed fragment changes that fragment alone, and its
\* cancelled job launches no upload.
OrphanEnds(p) ==
    /\ pc[p] = "orphan"
    /\ pc' = [pc EXCEPT ![p] = "over"]
    /\ UNCHANGED <<published, seen, count, reports, uuid, upload, tags, view, shown, left, crashed,
                   upsets>>

\* A view model that is kept in the back stack publishes another scan than the
\* last: a newer one, or an older one whose transformation took longer.  Two view
\* models hear every scan, so that one may come back.
Publish ==
    /\ Len(published) < MaxPublished
    /\ \E scan \in Scans \ {wiFiData} : published' = Append(published, scan)
    /\ UNCHANGED <<pc, seen, count, reports, uuid, upload, tags, view, shown, left, crashed,
                   upsets>>

Init ==
    /\ published = <<>>
    /\ pc = [p \in Pairs |-> "none"]
    /\ seen = [p \in Pairs |-> 0]
    /\ count = 0 /\ uuid = 0
    /\ reports = <<>> /\ shown = <<>>
    /\ upload = [r \in Reports |-> "none"]
    /\ tags = {} /\ upsets = {}
    /\ view = "stopped"
    /\ left = FALSE /\ crashed = FALSE

Next ==
    /\ ~crashed
    /\ \/ onSwipe_Reverse \/ Leave \/ Publish
       \/ \E p \in Pairs :
           \/ onSwipe_Forward(p) \/ TestFails(p) \/ TestEnds(p) \/ ReportUnreadable(p)
           \/ StartReverse(p) \/ OrphanEnds(p)
           \/ \E dir \in Dirs : CountUp(p, dir)
       \/ \E r \in Reports : ReadSsid(r) \/ ReadBssid(r) \/ EndUpload(r)

Spec == Init /\ [][Next]_vars

-----------------------------------------------------------------------------
\* The values the variables take; an upload that set a tag is one that was begun.
TypeOK ==
    /\ Len(published) \in 0..MaxPublished
    /\ pc \in [Pairs -> {"none", "fwd", "fwdCallback", "delay", "rev", "revCallback", "orphan", "over"}]
    /\ seen \in [Pairs -> 0..(2 * MaxPairs)]
    /\ count \in 0..(2 * MaxPairs)
    /\ Len(reports) \in 0..(2 * MaxPairs)
    /\ shown = <<>> \/ shown = SubSeq(reports, 1, 2)
    /\ uuid \in 0..(2 * MaxPairs + 1)
    /\ upload \in [Reports -> {"none", "queued", "ssid", "posted", "done"}]
    /\ \A t \in tags : upload[t.report] # "none" /\ {t.ssid, t.bssid} \subseteq Scans \cup {NoScan}
    /\ view \in {"stopped", "running", "result"}
    /\ left \in BOOLEAN /\ crashed \in BOOLEAN
    /\ upsets \subseteq {"overlap", "halt", "half", "slow", "left"}

\* The two reports of a pair are posted under one uuid that no other pair has,
\* unless a pair was left with one report counted, two pairs overlapped or the
\* first upload outlived the second test.
PairsTagged ==
    \A t, u \in {t \in tags : t.bssid # NoScan} :
        upsets \cap {"half", "overlap", "slow"} = {}
            => (t.uuid = u.uuid <=> t.report[1] = u.report[1])

\* When everything is at rest no half pair is left in the counter, the screen is
\* not waiting any more, and the two lines it shows are the sent line and the
\* received line of one pair -- unless a pair was stopped, left or incomplete.
ScreenSettles ==
    /\ AtWork = {} /\ Uploading = {} /\ upsets = {} => count = 0 /\ view # "running"
    /\ shown # <<>> /\ upsets = {} =>
         \E p \in Pairs : shown = <<[pair |-> p, dir |-> "fwd", line |-> "sent"],
                                    [pair |-> p, dir |-> "rev", line |-> "received"]>>

\* Native tests share the timer list and i_errno, so that two at a time disturb
\* each other.  The screen lets that happen only when the user swiped back or
\* left during a test, or when a pair was left with one report counted.
TestsAlone ==
    Cardinality(Native) > 1 => upsets \cap {"halt", "left", "half"} # {}

\* Scan a was published, and scan b no earlier.
Follows(a, b) ==
    \E i, j \in DOMAIN published : i <= j /\ published[i] = a /\ published[j] = b

\* A report is posted with what MainContext.wiFiData was during its upload: within
\* one Info the bssid is of the scan that the ssid is of or of one published
\* after it, and so is the ssid of the second report of a pair against the bssid
\* of the first, unless the first upload outlived the second test.  Published
\* later need not be taken later: the two can be of different scans, and the
\* second of them the older one.
UploadFresh ==
    \A t, u \in {t \in tags : t.bssid # NoScan} :
        /\ Follows(t.ssid, t.bssid)
        /\ /\ "slow" \notin upsets
           /\ t.report[1] = u.report[1] /\ t.report[2] = "fwd" /\ u.report[2] = "rev"
           => Follows(t.bssid, u.ssid)

\* The button that is shown during a test reads "stop the iperf test": once the
\* screen says that the test is stopped, no pair of this fragment is going on.
StopStops ==
    view = "stopped" => \A p \in Pairs : pc[p] \in {"none", "orphan", "over"}
=============================================================================
