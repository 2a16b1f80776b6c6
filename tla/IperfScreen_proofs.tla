------------------------- MODULE IperfScreen_proofs -------------------------
(***************************************************************************)
(* Proofs about IperfScreen, for any number of pairs and scans: when the   *)
(* native tests are alone, when the two reports of a pair are posted under *)
(* one uuid, how fresh their connections are and what the screen comes to. *)
(***************************************************************************)
EXTENDS IperfScreen, FiniteSetTheorems, SequenceTheorems, TLAPS

-----------------------------------------------------------------------------
(* The inductive invariant. *)

PC == {"none", "fwd", "fwdCallback", "delay", "rev", "revCallback", "orphan", "over"}
Line == [pair : Pairs, dir : Dirs, line : {"sent", "received"}]
Info == [report : Reports, ssid : Scans \cup {NoScan}, bssid : Scans \cup {NoScan}, uuid : Nat]

\* The values the variables take, without the bounds that TypeOK puts on the
\* counters.
Types ==
    /\ published \in Seq(Scans)
    /\ pc \in [Pairs -> PC]
    /\ seen \in [Pairs -> Nat]
    /\ count \in Nat /\ uuid \in Nat
    /\ upload \in [Reports -> {"none", "queued", "ssid", "posted", "done"}]
    /\ tags \subseteq Info
    /\ reports \in Seq(Line)
    /\ view \in {"stopped", "running", "result"}
    /\ upsets \subseteq {"overlap", "halt", "half", "slow", "left"}

\* A report is uploaded after its test, and nobody uploads for a fragment that
\* is gone.
Ladder ==
    \A p \in Pairs :
        /\ pc[p] \in {"none", "fwd", "fwdCallback"} => upload[<<p, "fwd">>] = "none"
        /\ pc[p] \notin {"orphan", "over"} => upload[<<p, "rev">>] = "none"
        /\ pc[p] = "orphan" => <<p, "fwd">> \notin Uploading /\ <<p, "rev">> \notin Uploading

\* A tag is of an upload that was begun and of scans that were published, that of
\* the bssid no earlier than that of the ssid.
Tags ==
    \A t \in tags :
        /\ upload[t.report] # "none"
        /\ Follows(t.ssid, t.ssid)
        /\ t.bssid # NoScan => Follows(t.bssid, t.bssid) /\ Follows(t.ssid, t.bssid)

\* Without a slow upload the first of a pair is over before the second begins.
Fresh ==
    "slow" \notin upsets =>
        /\ \A p \in Pairs : upload[<<p, "rev">>] # "none" => <<p, "fwd">> \notin Uploading
        /\ \A t, u \in tags :
               /\ t.bssid # NoScan /\ t.report[1] = u.report[1]
               /\ t.report[2] = "fwd" /\ u.report[2] = "rev"
               => Follows(t.bssid, u.ssid)

\* What the counter says while a pair is going on.
Counted(p) ==
    /\ pc[p] \in {"fwd", "fwdCallback", "orphan"} => count = 0
    /\ pc[p] \in {"delay", "rev", "revCallback"} => count = 1
    /\ pc[p] = "fwdCallback" => seen[p] = 0
    /\ pc[p] = "revCallback" => seen[p] = 1

Steady == upsets \cap {"halt", "left", "half"} = {}

Sent(p) == [pair |-> p, dir |-> "fwd", line |-> "sent"]
Received(p) == [pair |-> p, dir |-> "rev", line |-> "received"]

\* Unless the user intervenes or a pair stays incomplete, one pair at a time is
\* going on, the screen waits for it, and it counts to two.
Alone ==
    Steady =>
        /\ \A p \in Pairs : pc[p] # "orphan" /\ Counted(p)
        /\ \A p, q \in AtWork : p = q
        /\ AtWork # {} => view = "running"
        /\ view # "running" => count = 0
        /\ AtWork = {} /\ view = "running" => count = 2
        /\ count = 2 => Uploading # {}

\* The lines begin with those of one pair.
Lines ==
    Steady =>
        /\ Len(reports) = 0 =>
               \A p \in Pairs : pc[p] \notin {"fwdCallback", "delay", "rev", "revCallback"}
        /\ Len(reports) = 1 =>
               \E p \in Pairs : pc[p] \in {"fwdCallback", "delay", "rev"} /\ reports[1] = Sent(p)
        /\ Len(reports) >= 2 => \E p \in Pairs : reports[1] = Sent(p) /\ reports[2] = Received(p)
        /\ count = 2 \/ (\E p \in Pairs : pc[p] = "revCallback") => Len(reports) >= 2
        /\ shown # <<>> => \E p \in Pairs : shown = <<Sent(p), Received(p)>>

Orderly == upsets \cap {"half", "overlap", "slow"} = {}

Active == {p \in Pairs : \/ pc[p] \notin {"none", "over"}
                         \/ <<p, "fwd">> \in Uploading
                         \/ <<p, "rev">> \in Uploading}

\* Unless pairs overlap, uploads are slow or a pair stays incomplete, one pair
\* at a time is going on, its uploads included.
OnePair ==
    Orderly =>
        /\ \A p, q \in Active : p = q
        /\ \A p \in Pairs : Counted(p)
        /\ \A p \in Active : pc[p] = "over" =>
               count = 2 /\ <<p, "fwd">> \notin Uploading /\ <<p, "rev">> \in Uploading
        /\ Active = {} => count = 0

\* The uuid belongs to the pair that is going on; those before it have others.
Uuids ==
    Orderly =>
        \A t \in tags : t.bssid # NoScan =>
            /\ t.uuid <= uuid
            /\ t.uuid = uuid <=> t.report[1] \in Active /\ pc[t.report[1]] # "orphan"

\* The inductive invariant of the module.
ScreenInv ==
    /\ Types /\ Ladder /\ Tags /\ Fresh
    /\ Alone /\ Lines
    /\ OnePair /\ Uuids /\ PairsTagged

-----------------------------------------------------------------------------
(* What is used everywhere. *)

\* A report is of a pair and a direction.
LEMMA ReportPairs ==
    /\ \A p \in Pairs : \A d \in Dirs : <<p, d>> \in Reports
    /\ \A r \in Reports : r[1] \in Pairs /\ r[2] \in Dirs /\ r = <<r[1], r[2]>>
    /\ \A p \in Pairs : <<p, "fwd">> \in Reports /\ <<p, "rev">> \in Reports
  BY DEF Reports, Dirs

\* Uploading, report by report.
LEMMA UploadingMeans ==
    \A p \in Pairs :
        /\ <<p, "fwd">> \in Uploading <=> upload[<<p, "fwd">>] \notin {"none", "done"}
        /\ <<p, "rev">> \in Uploading <=> upload[<<p, "rev">>] \notin {"none", "done"}
  BY ReportPairs DEF Uploading

\* The tags are of reports.
LEMMA TagTypes ==
    ASSUME Types, NEW t \in tags
    PROVE  /\ t.report \in Reports /\ t.report[1] \in Pairs /\ t.report[2] \in Dirs
           /\ t.report = <<t.report[1], t.report[2]>>
           /\ {t.ssid, t.bssid} \subseteq Scans \cup {NoScan} /\ t.uuid \in Nat
  BY ReportPairs DEF Types, Info

\* A pair none of whose reports is uploaded has no tags.
LEMMA NoTags ==
    ASSUME Types, Tags, NEW p \in Pairs, upload[<<p, "fwd">>] = "none", upload[<<p, "rev">>] = "none",
           NEW t \in tags
    PROVE  t.report[1] # p
  BY TagTypes DEF Tags, Dirs

\* What went against the order is not forgotten.
LEMMA UpsetsStay ==
    ASSUME upsets \subseteq upsets'
    PROVE  (Steady' => Steady) /\ (Orderly' => Orderly)
  BY DEF Steady, Orderly

\* The order of publication stays while nothing is published, or the next scan is.
LEMMA OrderStays ==
    ASSUME Types, \/ published' = published
                  \/ \E scan \in Scans : published' = Append(published, scan)
    PROVE  \A a, b : Follows(a, b) => Follows(a, b)'
  <1>1. CASE published' = published
    BY <1>1 DEF Follows
  <1>2. ASSUME NEW scan \in Scans, published' = Append(published, scan)
        PROVE  \A a, b : Follows(a, b) => Follows(a, b)'
    <2>1. published \in Seq(Scans) /\ scan \in Scans
      BY DEF Types
    <2>2. /\ DOMAIN published \subseteq DOMAIN published'
          /\ \A i \in DOMAIN published : published'[i] = published[i]
      BY <1>2, <2>1, AppendProperties
    <2> QED  BY <2>2 DEF Follows
  <1> QED  BY <1>1, <1>2

\* What MainContext.wiFiData is was published last.
LEMMA LatestIsLast ==
    ASSUME Types
    PROVE  /\ wiFiData \in Scans \cup {NoScan}
           /\ wiFiData # NoScan => Follows(wiFiData, wiFiData)
           /\ \A a : Follows(a, a) => Follows(a, wiFiData) /\ wiFiData # NoScan
  <1>1. CASE published = <<>>
    BY <1>1 DEF wiFiData, Follows
  <1>2. CASE published # <<>>
    <2>1. /\ Len(published) \in DOMAIN published
          /\ published[Len(published)] \in Scans
          /\ \A i \in DOMAIN published : i <= Len(published)
          /\ Len(published) <= Len(published)
      BY <1>2 DEF Types
    <2>2. wiFiData = published[Len(published)]
      BY <1>2 DEF wiFiData
    <2> HIDE DEF Types
    <2> QED  BY <2>1, <2>2, IperfScreenAssumption DEF Follows
  <1> QED  BY <1>1, <1>2

\* A step that leaves tags and uploads alone keeps what is said of them.
LEMMA TagsKept ==
    ASSUME Types, Tags, Fresh, tags' = tags, upload' = upload, upsets \subseteq upsets',
           \/ published' = published
           \/ \E scan \in Scans : published' = Append(published, scan)
    PROVE  Tags' /\ Fresh'
  <1>1. Uploading' = Uploading
    BY DEF Uploading
  <1>2. \A a, b : Follows(a, b) => Follows(a, b)'
    BY OrderStays
  <1>3. Tags'
    BY <1>2 DEF Tags
  <1>4. Fresh'
    BY <1>1, <1>2 DEF Fresh
  <1> QED  BY <1>3, <1>4

\* A step of one pair that fits its uploads keeps the ladder.
LEMMA LadderKept ==
    ASSUME Ladder, NEW p \in Pairs, upload' = upload,
           \A q \in Pairs \ {p} : pc'[q] = pc[q],
           pc'[p] \in {"none", "fwd", "fwdCallback"} => upload[<<p, "fwd">>] = "none",
           pc'[p] \notin {"orphan", "over"} => upload[<<p, "rev">>] = "none",
           pc'[p] # "orphan"
    PROVE  Ladder'
  <1>1. Uploading' = Uploading
    BY DEF Uploading
  <1> SUFFICES ASSUME NEW q \in Pairs
               PROVE  /\ pc'[q] \in {"none", "fwd", "fwdCallback"} => upload[<<q, "fwd">>] = "none"
                      /\ pc'[q] \notin {"orphan", "over"} => upload[<<q, "rev">>] = "none"
                      /\ pc'[q] = "orphan" =>
                             <<q, "fwd">> \notin Uploading /\ <<q, "rev">> \notin Uploading
    BY <1>1 DEF Ladder
  <1>2. CASE q = p
    BY <1>2
  <1>3. CASE q # p
    BY <1>3 DEF Ladder
  <1> QED  BY <1>2, <1>3

\* A step that adds no line and moves no pair between its tests keeps what is
\* said of the lines.
LEMMA LinesKept ==
    ASSUME Steady, Lines, reports' = reports, shown' = shown, count' = 2 => count = 2,
           \A q \in Pairs :
               /\ pc'[q] \in {"fwdCallback", "delay", "rev"} <=>
                      pc[q] \in {"fwdCallback", "delay", "rev"}
               /\ pc'[q] = "revCallback" <=> pc[q] = "revCallback"
    PROVE  Lines'
  <1>1. Len(reports) = 0 =>
            \A p \in Pairs : pc'[p] \notin {"fwdCallback", "delay", "rev", "revCallback"}
    BY DEF Lines
  <1>2. Len(reports) = 1 =>
            \E p \in Pairs : pc'[p] \in {"fwdCallback", "delay", "rev"} /\ reports[1] = Sent(p)
    BY DEF Lines
  <1>3. count' = 2 \/ (\E p \in Pairs : pc'[p] = "revCallback") => Len(reports) >= 2
    BY DEF Lines
  <1> QED  BY <1>1, <1>2, <1>3 DEF Lines, Sent, Received

-----------------------------------------------------------------------------
(* Each operation keeps the invariant. *)

\* onSwipe_Forward: without an upset nothing of an earlier pair is going on.
LEMMA SwipeForward ==
    ASSUME ScreenInv, NEW p \in Pairs, onSwipe_Forward(p)
    PROVE  ScreenInv'
  <1> USE DEF ScreenInv
  <1>1. /\ view # "running" /\ pc[p] = "none"
        /\ pc' = [pc EXCEPT ![p] = "fwd"] /\ view' = "running"
        /\ UNCHANGED <<published, seen, count, reports, uuid, upload, tags, shown, left, crashed>>
    BY DEF onSwipe_Forward
  <1>2. upsets' = IF AtWork = {} /\ Uploading = {} THEN upsets ELSE upsets \cup {"overlap"}
    BY DEF onSwipe_Forward
  <1>3. upsets \subseteq upsets' /\ (Orderly' => AtWork = {} /\ Uploading = {})
    BY <1>2 DEF Orderly
  <1>4. \A q \in Pairs : pc'[q] = IF q = p THEN "fwd" ELSE pc[q]
    BY <1>1 DEF Types
  <1>5. Types'
    BY <1>1, <1>2 DEF Types, PC
  <1>6. Uploading' = Uploading
    BY <1>1 DEF Uploading
  <1>7. Ladder'
    <2>1. pc'[p] = "fwd" /\ \A q \in Pairs \ {p} : pc'[q] = pc[q]
      BY <1>4
    <2>2. upload[<<p, "fwd">>] = "none" /\ upload[<<p, "rev">>] = "none"
      BY <1>1 DEF Ladder
    <2> QED  BY <1>1, <2>1, <2>2, LadderKept
  <1>8. Tags' /\ Fresh'
    BY <1>1, <1>3, TagsKept DEF Types
  <1>9. Alone'
    <2> SUFFICES ASSUME Steady' PROVE Alone'
      BY DEF Alone
    <2>1. Steady /\ count = 0 /\ AtWork = {}
      BY <1>1, <1>3, UpsetsStay DEF Alone
    <2>2. AtWork' = {p}
      BY <1>4, <2>1 DEF AtWork
    <2>3. \A q \in Pairs : (pc[q] # "orphan" /\ Counted(q))'
      BY <1>1, <1>4, <2>1 DEF Alone, Counted
    <2> QED  BY <1>1, <2>1, <2>2, <2>3 DEF Alone
  <1>10. Lines'
    <2> SUFFICES ASSUME Steady' PROVE Lines'
      BY DEF Lines
    <2>1. Steady
      BY <1>3, UpsetsStay
    <2> QED  BY <1>1, <1>4, <2>1, LinesKept
  <1>11. OnePair' /\ Uuids' /\ PairsTagged'
    <2> SUFFICES ASSUME Orderly' PROVE OnePair' /\ Uuids' /\ PairsTagged'
      BY DEF OnePair, Uuids, PairsTagged, Orderly
    <2>1. Orderly /\ AtWork = {} /\ Uploading = {}
      BY <1>3, UpsetsStay
    <2>2. Active = {} /\ Active' = {p}
      BY <1>4, <1>6, <2>1 DEF Active, AtWork
    <2>3. count = 0
      BY <2>1, <2>2 DEF OnePair
    <2>4. OnePair'
      BY <1>1, <1>4, <2>1, <2>2, <2>3 DEF OnePair, Counted
    <2>5. \A t \in tags : t.report[1] # p
      BY <1>1, NoTags DEF Ladder
    <2>6. Uuids'
      BY <1>1, <2>1, <2>2, <2>5 DEF Uuids
    <2>7. PairsTagged'
      BY <1>1, <2>1 DEF PairsTagged, Orderly
    <2> QED  BY <2>4, <2>6, <2>7
  <1> QED  BY <1>5, <1>7, <1>8, <1>9, <1>10, <1>11

\* onSwipe_Reverse changes what the screen shows and nothing else.
LEMMA SwipeReverse ==
    ASSUME ScreenInv, onSwipe_Reverse
    PROVE  ScreenInv'
  <1> USE DEF ScreenInv
  <1>1. /\ view' = "stopped" /\ upsets' = upsets \cup {"halt"}
        /\ UNCHANGED <<published, pc, seen, count, reports, uuid, upload, tags, shown>>
    BY DEF onSwipe_Reverse
  <1>2. ~Steady' /\ (Orderly' => Orderly)
    BY <1>1 DEF Steady, Orderly
  <1>3. Uploading' = Uploading /\ Active' = Active
    BY <1>1 DEF Uploading, Active
  <1>4. Types'
    BY <1>1 DEF Types
  <1>5. Ladder'
    BY <1>1, <1>3 DEF Ladder
  <1>6. Tags' /\ Fresh'
    BY <1>1, TagsKept DEF Types
  <1>7. Alone' /\ Lines'
    BY <1>2 DEF Alone, Lines
  <1>8. OnePair'
    BY <1>1, <1>2, <1>3 DEF OnePair, Counted
  <1>9. Uuids'
    BY <1>1, <1>2, <1>3 DEF Uuids
  <1>10. PairsTagged'
    BY <1>1, <1>2 DEF PairsTagged, Orderly
  <1> QED  BY <1>4, <1>5, <1>6, <1>7, <1>8, <1>9, <1>10

\* TestFails: without an upset it is the first test of the pair, with nothing
\* counted and nothing uploaded.
LEMMA FailsKeeps ==
    ASSUME ScreenInv, NEW p \in Pairs, TestFails(p)
    PROVE  ScreenInv'
  <1> USE DEF ScreenInv
  <1>1. /\ pc[p] \in Dirs /\ pc' = [pc EXCEPT ![p] = "over"] /\ view' = "stopped"
        /\ UNCHANGED <<published, seen, count, reports, uuid, upload, tags, shown>>
    BY DEF TestFails
  <1>2. upsets' = IF pc[p] = "rev" THEN upsets \cup {"half"} ELSE upsets
    BY DEF TestFails
  <1>3. upsets \subseteq upsets' /\ (Steady' \/ Orderly' => pc[p] = "fwd")
    BY <1>1, <1>2 DEF Orderly, Steady, Dirs
  <1>4. \A q \in Pairs : pc'[q] = IF q = p THEN "over" ELSE pc[q]
    BY <1>1 DEF Types
  <1>5. Types'
    BY <1>1, <1>2 DEF Types, PC
  <1>6. Uploading' = Uploading
    BY <1>1 DEF Uploading
  <1>7. Ladder'
    <2>1. pc'[p] = "over" /\ \A q \in Pairs \ {p} : pc'[q] = pc[q]
      BY <1>4
    <2> QED  BY <1>1, <2>1, LadderKept
  <1>8. Tags' /\ Fresh'
    BY <1>1, <1>3, TagsKept DEF Types
  <1>9. Alone' /\ Lines'
    <2> SUFFICES ASSUME Steady' PROVE Alone' /\ Lines'
      BY DEF Alone, Lines
    <2>1. Steady /\ pc[p] = "fwd"
      BY <1>3, UpsetsStay
    <2>2. count = 0
      BY <2>1 DEF Alone, Counted
    <2>3. \A q \in AtWork : q = p
      BY <2>1 DEF Alone, AtWork
    <2>4. AtWork' = {}
      BY <1>4, <2>3 DEF AtWork
    <2>5. \A q \in Pairs : (pc[q] # "orphan" /\ Counted(q))'
      BY <1>1, <1>4, <2>1, <2>2 DEF Alone, Counted
    <2>6. Alone'
      BY <1>1, <2>2, <2>4, <2>5 DEF Alone
    <2>7. Lines'
      BY <1>1, <1>4, <2>1, LinesKept
    <2> QED  BY <2>6, <2>7
  <1>10. OnePair' /\ Uuids' /\ PairsTagged'
    <2> SUFFICES ASSUME Orderly' PROVE OnePair' /\ Uuids' /\ PairsTagged'
      BY DEF OnePair, Uuids, PairsTagged, Orderly
    <2>1. Orderly /\ pc[p] = "fwd"
      BY <1>3, UpsetsStay
    <2>2. upload[<<p, "fwd">>] = "none" /\ upload[<<p, "rev">>] = "none"
      BY <2>1 DEF Ladder
    <2>3. count = 0
      BY <2>1 DEF OnePair, Counted
    <2>4. p \in Active
      BY <2>1 DEF Active
    <2>5. Active = {p}
      BY <2>1, <2>4 DEF OnePair
    <2>6. Active' = {}
      <3>1. Active' \subseteq Active
        BY <1>1, <1>4, <1>6, <2>1 DEF Active
      <3>2. p \notin Active'
        BY <1>4, <1>6, <2>2, UploadingMeans DEF Active
      <3> QED  BY <2>5, <3>1, <3>2
    <2>7. OnePair'
      BY <1>1, <1>4, <2>1, <2>3, <2>6 DEF OnePair, Counted
    <2>8. \A t \in tags : t.report[1] # p
      BY <2>2, NoTags
    <2>9. Uuids'
      BY <1>1, <2>1, <2>5, <2>6, <2>8 DEF Uuids
    <2>10. PairsTagged'
      BY <1>1, <2>1 DEF PairsTagged, Orderly
    <2> QED  BY <2>7, <2>9, <2>10
  <1> QED  BY <1>5, <1>7, <1>8, <1>9, <1>10


\* TestEnds: the callback has read the count, and adds the line that goes with
\* it.
LEMMA EndsKeeps ==
    ASSUME ScreenInv, NEW p \in Pairs, TestEnds(p)
    PROVE  ScreenInv'
  <1> USE DEF ScreenInv
  <1> DEFINE to == IF pc[p] = "fwd" THEN "fwdCallback" ELSE "revCallback"
             line == [pair |-> p, dir |-> pc[p],
                      line |-> IF count = 0 THEN "sent" ELSE "received"]
  <1>1. /\ pc[p] \in Dirs
        /\ seen' = [seen EXCEPT ![p] = count]
        /\ reports' = Append(reports, line)
        /\ pc' = [pc EXCEPT ![p] = to]
        /\ UNCHANGED <<published, count, uuid, upload, tags, view, shown, left, crashed, upsets>>
    BY DEF TestEnds
  <1>2. /\ pc[p] = "fwd" => to = "fwdCallback"
        /\ pc[p] = "rev" => to = "revCallback"
        /\ pc[p] \in {"fwd", "rev"}
    BY <1>1 DEF Dirs
  <1>3. line \in Line
    BY <1>1 DEF Line
  <1>4. line.pair = p /\ line.dir = pc[p] /\ (count = 0 => line.line = "sent")
        /\ (count # 0 => line.line = "received")
    OBVIOUS
  <1>5. (pc[p] = "fwd" /\ count = 0 => line = Sent(p)) /\ (pc[p] = "rev" /\ count = 1 => line = Received(p))
    BY DEF Sent, Received
  <1> HIDE DEF to, line
  <1>6. \A q \in Pairs : /\ pc'[q] = IF q = p THEN to ELSE pc[q]
                         /\ seen'[q] = IF q = p THEN count ELSE seen[q]
    BY <1>1 DEF Types
  <1>7. /\ reports' \in Seq(Line) /\ Len(reports') = Len(reports) + 1
        /\ Len(reports) \in Nat
        /\ \A i \in 1..Len(reports) : reports'[i] = reports[i]
        /\ reports'[Len(reports) + 1] = line
    BY <1>1, <1>3 DEF Types
  <1>8. Types'
    <2>1. to \in PC
      BY <1>2 DEF PC
    <2> QED  BY <1>1, <1>7, <2>1 DEF Types
  <1>9. Uploading' = Uploading
    BY <1>1 DEF Uploading
  <1>10. Ladder'
    <2>1. pc'[p] = to /\ \A q \in Pairs \ {p} : pc'[q] = pc[q]
      BY <1>6
    <2>2. upload[<<p, "rev">>] = "none" /\ (pc[p] = "fwd" => upload[<<p, "fwd">>] = "none")
      BY <1>2 DEF Ladder
    <2> QED  BY <1>1, <1>2, <2>1, <2>2, LadderKept
  <1>11. Tags' /\ Fresh'
    BY <1>1, TagsKept DEF Types
  <1>12. Alone'
    <2> SUFFICES ASSUME Steady PROVE Alone'
      BY <1>1 DEF Alone, Steady
    <2>1. AtWork' = AtWork
      BY <1>2, <1>6 DEF AtWork
    <2>2. \A q \in Pairs : (pc[q] # "orphan" /\ Counted(q))'
      BY <1>1, <1>2, <1>6 DEF Alone, Counted
    <2> QED  BY <1>1, <1>9, <2>1, <2>2 DEF Alone
  <1>13. Lines'
    <2> SUFFICES ASSUME Steady PROVE Lines'
      BY <1>1 DEF Lines, Steady
    <2>1. \A q \in Pairs : pc[q] \in {"fwdCallback", "delay", "rev"} => q = p
      <3>1. p \in AtWork
        BY <1>2 DEF AtWork
      <3>2. \A q \in Pairs : pc[q] \in {"fwdCallback", "delay", "rev"} => q \in AtWork
        BY DEF AtWork
      <3> QED  BY <3>1, <3>2 DEF Alone
    <2>2. CASE pc[p] = "fwd"
      <3>1. count = 0 /\ pc'[p] = "fwdCallback" /\ line = Sent(p)
        BY <1>2, <1>5, <1>6, <2>2 DEF Alone, Counted
      <3>2. Len(reports) # 1
        BY <2>1, <2>2 DEF Lines
      <3>3. Len(reports') # 0
        BY <1>7
      <3>4. Len(reports') = 1 => reports'[1] = Sent(p)
        BY <1>7, <3>1
      <3>5. Len(reports') >= 2 => Len(reports) >= 2 /\ reports'[1] = reports[1] /\ reports'[2] = reports[2]
        <4>0. \A n \in Nat : n + 1 >= 2 /\ n # 1 => n >= 2
          OBVIOUS
        <4>1. Len(reports') >= 2 => Len(reports) >= 2
          BY <1>7, <3>2, <4>0
        <4>2. Len(reports) >= 2 => 1 \in 1..Len(reports) /\ 2 \in 1..Len(reports)
          BY <1>7
        <4> QED  BY <1>7, <4>1, <4>2
      <3>6. \A q \in Pairs : pc'[q] # "revCallback" \/ pc[q] = "revCallback"
        BY <1>6, <3>1
      <3>7. (\E q \in Pairs : pc'[q] = "revCallback") => Len(reports') >= 2
        BY <1>7, <3>6 DEF Lines
      <3>8. count' # 2
        BY <1>1, <3>1
      <3>9. Len(reports') >= 2 =>
                \E q \in Pairs : reports'[1] = Sent(q) /\ reports'[2] = Received(q)
        BY <3>5 DEF Lines
      <3>10. shown' # <<>> => \E q \in Pairs : shown' = <<Sent(q), Received(q)>>
        BY <1>1 DEF Lines
      <3> QED  BY <3>1, <3>3, <3>4, <3>7, <3>8, <3>9, <3>10 DEF Lines, Sent, Received
    <2>3. CASE pc[p] = "rev"
      <3>1. count = 1 /\ pc'[p] = "revCallback" /\ line = Received(p)
        BY <1>2, <1>5, <1>6, <2>3 DEF Alone, Counted
      <3>2. Len(reports) # 0
        BY <2>3 DEF Lines
      <3>3. Len(reports) = 1 => reports[1] = Sent(p)
        BY <2>1 DEF Lines
      <3>4. Len(reports') >= 2
        BY <1>7, <3>2
      <3>5. \E q \in Pairs : reports'[1] = Sent(q) /\ reports'[2] = Received(q)
        <4>1. CASE Len(reports) = 1
          BY <1>7, <3>1, <3>3, <4>1
        <4>2. CASE Len(reports) # 1
          <5>0. \A n \in Nat : n # 0 /\ n # 1 => n >= 2
            OBVIOUS
          <5>1. Len(reports) >= 2
            BY <1>7, <3>2, <4>2, <5>0
          <5>2. reports'[1] = reports[1] /\ reports'[2] = reports[2]
            <6>1. 1 \in 1..Len(reports) /\ 2 \in 1..Len(reports)
              BY <1>7, <5>1
            <6> QED  BY <1>7, <6>1
          <5> QED  BY <5>1, <5>2 DEF Lines
        <4> QED  BY <4>1, <4>2
      <3>6. shown' # <<>> => \E q \in Pairs : shown' = <<Sent(q), Received(q)>>
        BY <1>1 DEF Lines
      <3>7. Len(reports') # 0 /\ Len(reports') # 1
        BY <1>7, <3>4
      <3> QED  BY <3>4, <3>5, <3>6, <3>7 DEF Lines, Sent, Received
    <2> QED  BY <1>2, <2>2, <2>3
  <1>14. OnePair' /\ Uuids' /\ PairsTagged'
    <2>1. Active' = Active
      BY <1>2, <1>6, <1>9 DEF Active
    <2>2. OnePair'
      <3>1. Orderly => \A q \in Pairs : Counted(q)'
        BY <1>1, <1>2, <1>6 DEF OnePair, Counted
      <3>2. Orderly => \A q \in Active : pc'[q] = "over" =>
                count = 2 /\ <<q, "fwd">> \notin Uploading /\ <<q, "rev">> \in Uploading
        BY <1>2, <1>6 DEF OnePair, Active
      <3> QED  BY <1>1, <1>9, <2>1, <3>1, <3>2 DEF OnePair, Orderly
    <2>3. Uuids'
      <3>1. \A q \in Pairs : pc'[q] # "orphan" <=> pc[q] # "orphan"
        BY <1>2, <1>6
      <3> QED  BY <1>1, <2>1, <3>1, TagTypes DEF Uuids, Orderly
    <2>4. PairsTagged'
      BY <1>1 DEF PairsTagged
    <2> QED  BY <2>2, <2>3, <2>4
  <1> QED  BY <1>8, <1>10, <1>11, <1>12, <1>13, <1>14


\* ReportUnreadable leaves a pair incomplete.
LEMMA UnreadableKeeps ==
    ASSUME ScreenInv, NEW p \in Pairs, ReportUnreadable(p)
    PROVE  ScreenInv'
  <1> USE DEF ScreenInv
  <1>1. /\ pc[p] \in {"fwd", "rev"} /\ pc' = [pc EXCEPT ![p] = After(@)]
        /\ upsets' = upsets \cup {"half"}
        /\ UNCHANGED <<published, seen, count, reports, uuid, upload, tags, view, shown>>
    BY DEF ReportUnreadable, Dirs
  <1>2. ~Steady' /\ ~Orderly'
    BY <1>1 DEF Steady, Orderly
  <1>3. pc'[p] \in {"delay", "over"} /\ \A q \in Pairs \ {p} : pc'[q] = pc[q]
    BY <1>1 DEF Types, After
  <1>4. Types'
    BY <1>1 DEF Types, After, PC
  <1>5. Ladder'
    <2>1. upload[<<p, "rev">>] = "none"
      BY <1>1 DEF Ladder
    <2> QED  BY <1>1, <1>3, <2>1, LadderKept
  <1>6. Tags' /\ Fresh'
    BY <1>1, TagsKept DEF Types
  <1>7. Alone' /\ Lines' /\ OnePair' /\ Uuids'
    BY <1>2 DEF Alone, Lines, OnePair, Uuids
  <1>8. PairsTagged'
    BY <1>2 DEF PairsTagged, Orderly
  <1> QED  BY <1>4, <1>5, <1>6, <1>7, <1>8

\* StartReverse: the pair goes on with the same count.
LEMMA StartReverseKeeps ==
    ASSUME ScreenInv, NEW p \in Pairs, StartReverse(p)
    PROVE  ScreenInv'
  <1> USE DEF ScreenInv
  <1>1. /\ pc[p] = "delay" /\ pc' = [pc EXCEPT ![p] = "rev"]
        /\ UNCHANGED <<published, seen, count, reports, uuid, upload, tags, view, shown, upsets>>
    BY DEF StartReverse
  <1>2. \A q \in Pairs : pc'[q] = IF q = p THEN "rev" ELSE pc[q]
    BY <1>1 DEF Types
  <1>3. AtWork' = AtWork /\ Uploading' = Uploading /\ Active' = Active
    BY <1>1, <1>2 DEF AtWork, Uploading, Active
  <1>4. \A q \in Pairs : /\ Counted(q) => Counted(q)'
                         /\ pc'[q] = "orphan" <=> pc[q] = "orphan"
                         /\ pc'[q] = "over" <=> pc[q] = "over"
    BY <1>1, <1>2 DEF Counted
  <1>5. Types'
    BY <1>1 DEF Types, PC
  <1>6. Ladder'
    <2>1. pc'[p] = "rev" /\ \A q \in Pairs \ {p} : pc'[q] = pc[q]
      BY <1>2
    <2>2. upload[<<p, "rev">>] = "none"
      BY <1>1 DEF Ladder
    <2> QED  BY <1>1, <2>1, <2>2, LadderKept
  <1>7. Tags' /\ Fresh'
    BY <1>1, TagsKept DEF Types
  <1>8. Alone'
    BY <1>1, <1>3, <1>4 DEF Alone, Steady
  <1>9. Lines'
    <2> SUFFICES ASSUME Steady PROVE Lines'
      BY <1>1 DEF Lines, Steady
    <2> QED  BY <1>1, <1>2, LinesKept
  <1>10. OnePair'
    BY <1>1, <1>3, <1>4 DEF OnePair, Orderly, Active
  <1>11. Uuids'
    BY <1>1, <1>3, <1>4, TagTypes DEF Uuids, Orderly
  <1>12. PairsTagged'
    BY <1>1 DEF PairsTagged
  <1> QED  BY <1>5, <1>6, <1>7, <1>8, <1>9, <1>10, <1>11, <1>12

\* OrphanEnds: the test of a fragment that is gone.
LEMMA OrphanKeeps ==
    ASSUME ScreenInv, NEW p \in Pairs, OrphanEnds(p)
    PROVE  ScreenInv'
  <1> USE DEF ScreenInv
  <1>1. /\ pc[p] = "orphan" /\ pc' = [pc EXCEPT ![p] = "over"]
        /\ UNCHANGED <<published, seen, count, reports, uuid, upload, tags, view, shown, upsets>>
    BY DEF OrphanEnds
  <1>2. \A q \in Pairs : pc'[q] = IF q = p THEN "over" ELSE pc[q]
    BY <1>1 DEF Types
  <1>3. ~Steady'
    BY <1>1 DEF Alone, Steady
  <1>4. Types'
    BY <1>1 DEF Types, PC
  <1>5. Ladder'
    <2>1. pc'[p] = "over" /\ \A q \in Pairs \ {p} : pc'[q] = pc[q]
      BY <1>2
    <2> QED  BY <1>1, <2>1, LadderKept
  <1>6. Tags' /\ Fresh'
    BY <1>1, TagsKept DEF Types
  <1>7. Alone' /\ Lines'
    BY <1>3 DEF Alone, Lines
  <1>8. OnePair' /\ Uuids' /\ PairsTagged'
    <2> SUFFICES ASSUME Orderly PROVE OnePair' /\ Uuids' /\ PairsTagged'
      BY <1>1 DEF OnePair, Uuids, PairsTagged, Orderly
    <2>1. Uploading' = Uploading
      BY <1>1 DEF Uploading
    <2>2. p \in Active /\ count = 0
      BY <1>1 DEF Active, OnePair, Counted
    <2>3. Active = {p}
      BY <2>2 DEF OnePair
    <2>4. Active' = {}
      <3>1. Active' \subseteq Active
        BY <1>1, <1>2, <2>1 DEF Active
      <3>2. p \notin Active'
        BY <1>1, <1>2, <2>1 DEF Active, Ladder
      <3> QED  BY <2>3, <3>1, <3>2
    <2>5. OnePair'
      BY <1>1, <1>2, <2>2, <2>4 DEF OnePair, Counted
    <2>6. Uuids'
      BY <1>1, <2>3, <2>4 DEF Uuids
    <2>7. PairsTagged'
      BY <1>1 DEF PairsTagged
    <2> QED  BY <2>5, <2>6, <2>7
  <1> QED  BY <1>4, <1>5, <1>6, <1>7, <1>8

\* Publish: one more scan is published.
LEMMA PublishKeeps ==
    ASSUME ScreenInv, Publish
    PROVE  ScreenInv'
  <1> USE DEF ScreenInv
  <1>1. /\ \E scan \in Scans : published' = Append(published, scan)
        /\ UNCHANGED <<pc, seen, count, reports, uuid, upload, tags, view, shown, upsets>>
    BY DEF Publish
  <1>2. AtWork' = AtWork /\ Uploading' = Uploading /\ Active' = Active
    BY <1>1 DEF AtWork, Uploading, Active
  <1>3. Types'
    <2>1. published' \in Seq(Scans)
      BY <1>1 DEF Types
    <2> QED  BY <1>1, <2>1 DEF Types
  <1>4. Ladder'
    BY <1>1, <1>2 DEF Ladder
  <1>5. Tags' /\ Fresh'
    BY <1>1, TagsKept
  <1>6. Alone'
    BY <1>1, <1>2 DEF Alone, Steady, Counted
  <1>7. Lines'
    <2> SUFFICES ASSUME Steady PROVE Lines'
      BY <1>1 DEF Lines, Steady
    <2> QED  BY <1>1, LinesKept
  <1>8. OnePair' /\ Uuids' /\ PairsTagged'
    BY <1>1, <1>2 DEF OnePair, Uuids, PairsTagged, Orderly, Counted
  <1> QED  BY <1>3, <1>4, <1>5, <1>6, <1>7, <1>8


\* CountUp: one more is counted and its upload begins.
LEMMA CountKeeps ==
    ASSUME ScreenInv, NEW p \in Pairs, NEW dir \in Dirs, CountUp(p, dir)
    PROVE  ScreenInv'
  <1> USE DEF ScreenInv
  <1> DEFINE r == <<p, dir>>
             to == After(dir)
  <1>1. /\ count' \in {seen[p] + 1, count + 1}
        /\ seen' = [seen EXCEPT ![p] = 0]
        /\ pc' = [pc EXCEPT ![p] = to]
        /\ upload' = [upload EXCEPT ![r] = "queued"]
        /\ UNCHANGED <<published, reports, uuid, tags, view, shown, left, crashed>>
    BY DEF CountUp
  <1>2. upsets' = IF dir = "rev" /\ <<p, "fwd">> \in Uploading
                  THEN upsets \cup {"slow"} ELSE upsets
    BY DEF CountUp
  <1>3. \/ dir = "fwd" /\ pc[p] = "fwdCallback" /\ to = "delay"
        \/ dir = "rev" /\ pc[p] = "revCallback" /\ to = "over"
    BY DEF CountUp, Dirs, After
  <1>4. /\ upsets \subseteq upsets'
        /\ "slow" \notin upsets' /\ dir = "rev" => <<p, "fwd">> \notin Uploading
        /\ Orderly' => "slow" \notin upsets'
        /\ "slow" \notin upsets' => "slow" \notin upsets
    BY <1>2 DEF Orderly
  <1>5. r \in Reports
    BY ReportPairs
  <1> HIDE DEF to
  <1>6. \A q \in Pairs : /\ pc'[q] = IF q = p THEN to ELSE pc[q]
                         /\ seen'[q] = IF q = p THEN 0 ELSE seen[q]
    BY <1>1 DEF Types
  <1>7. \A k \in Reports : upload'[k] = IF k = r THEN "queued" ELSE upload[k]
    BY <1>1 DEF Types
  <1>8. Uploading' = Uploading \cup {r}
    BY <1>5, <1>7 DEF Uploading
  <1>9. Types'
    <2>1. count' \in Nat /\ to \in PC
      BY <1>1, <1>3 DEF Types, PC
    <2>2. upsets' \subseteq {"overlap", "halt", "half", "slow", "left"}
      BY <1>2 DEF Types
    <2> QED  BY <1>1, <2>1, <2>2 DEF Types
  <1>10. \A q \in Pairs : q # p => /\ upload'[<<q, "fwd">>] = upload[<<q, "fwd">>]
                                  /\ upload'[<<q, "rev">>] = upload[<<q, "rev">>]
    BY <1>7, ReportPairs
  <1>11. Ladder'
    <2> SUFFICES ASSUME NEW q \in Pairs
                 PROVE  /\ pc'[q] \in {"none", "fwd", "fwdCallback"} => upload'[<<q, "fwd">>] = "none"
                        /\ pc'[q] \notin {"orphan", "over"} => upload'[<<q, "rev">>] = "none"
                        /\ pc'[q] = "orphan" =>
                             <<q, "fwd">> \notin Uploading' /\ <<q, "rev">> \notin Uploading'
      BY DEF Ladder
    <2>1. CASE q # p
      BY <1>6, <1>8, <1>10, <2>1 DEF Ladder
    <2>2. CASE q = p /\ dir = "fwd"
      <3>1. pc'[q] = "delay" /\ pc[p] = "fwdCallback"
        BY <1>3, <1>6, <2>2
      <3>2. upload'[<<q, "rev">>] = upload[<<q, "rev">>]
        BY <1>7, <2>2, ReportPairs
      <3>3. upload[<<p, "rev">>] = "none"
        BY <3>1 DEF Ladder
      <3> QED  BY <2>2, <3>1, <3>2, <3>3
    <2>3. CASE q = p /\ dir = "rev"
      BY <1>3, <1>6, <2>3
    <2> QED  BY <1>3, <2>1, <2>2, <2>3
  <1>12. Tags'
    <2>1. \A t \in tags : upload'[t.report] # "none"
      BY <1>7, TagTypes DEF Tags
    <2>2. \A a, b : Follows(a, b)' <=> Follows(a, b)
      BY <1>1 DEF Follows
    <2> QED  BY <1>1, <2>1, <2>2 DEF Tags
  <1>13. Fresh'
    <2> SUFFICES ASSUME "slow" \notin upsets' PROVE Fresh'
      BY DEF Fresh
    <2>1. "slow" \notin upsets
      BY <1>4
    <2>2. ASSUME NEW q \in Pairs, upload'[<<q, "rev">>] # "none"
          PROVE  <<q, "fwd">> \notin Uploading'
      <3>1. CASE q # p
        BY <1>8, <1>10, <2>1, <2>2, <3>1 DEF Fresh
      <3>2. CASE q = p /\ dir = "fwd"
        <4>1. upload'[<<q, "rev">>] = upload[<<q, "rev">>]
          BY <1>7, <3>2, ReportPairs
        <4>2. upload[<<p, "rev">>] = "none"
          BY <1>3, <3>2 DEF Ladder
        <4> QED  BY <2>2, <3>2, <4>1, <4>2
      <3>3. CASE q = p /\ dir = "rev"
        BY <1>4, <1>8, <3>3
      <3> QED  BY <1>3, <3>1, <3>2, <3>3
    <2>3. \A a, b : Follows(a, b)' <=> Follows(a, b)
      BY <1>1 DEF Follows
    <2> QED  BY <1>1, <2>1, <2>2, <2>3 DEF Fresh
  <1>14. ASSUME Counted(p)
         PROVE  (dir = "fwd" => count = 0 /\ count' = 1) /\ (dir = "rev" => count = 1 /\ count' = 2)
    <2>1. dir = "fwd" => count = 0 /\ seen[p] = 0
      BY <1>3, <1>14 DEF Counted
    <2>2. dir = "rev" => count = 1 /\ seen[p] = 1
      BY <1>3, <1>14 DEF Counted
    <2> QED  BY <1>1, <2>1, <2>2
  <1>15. ASSUME Counted(p), \A q \in Pairs : q # p => pc[q] \in {"none", "over"}
         PROVE  \A q \in Pairs : Counted(q)'
    <2>1. \A q \in Pairs : q # p => Counted(q)'
      BY <1>6, <1>15 DEF Counted
    <2>2. Counted(p)'
      BY <1>3, <1>6, <1>14, <1>15 DEF Counted
    <2> QED  BY <2>1, <2>2
  <1>16. Alone'
    <2> SUFFICES ASSUME Steady' PROVE Alone'
      BY DEF Alone
    <2>1. Steady
      BY <1>4, UpsetsStay
    <2>2. p \in AtWork
      BY <1>3 DEF AtWork
    <2>3. AtWork = {p} /\ view = "running"
      BY <2>1, <2>2 DEF Alone
    <2>4. Counted(p) /\ \A q \in Pairs : q # p => pc[q] \in {"none", "over"}
      BY <2>1, <2>3 DEF Alone, AtWork
    <2>5. \A q \in Pairs : (pc[q] # "orphan" /\ Counted(q))'
      BY <1>3, <1>6, <1>15, <2>4
    <2>6. CASE dir = "fwd"
      <3>1. AtWork' = {p} /\ count' = 1
        BY <1>3, <1>6, <1>14, <2>4, <2>6 DEF AtWork
      <3> QED  BY <1>1, <2>3, <2>5, <3>1 DEF Alone
    <2>7. CASE dir = "rev"
      <3>1. AtWork' = {} /\ count' = 2
        BY <1>3, <1>6, <1>14, <2>4, <2>7 DEF AtWork
      <3> QED  BY <1>1, <1>8, <2>3, <2>5, <3>1 DEF Alone
    <2> QED  BY <1>3, <2>6, <2>7
  <1>17. Lines'
    <2> SUFFICES ASSUME Steady' PROVE Lines'
      BY DEF Lines
    <2>1. Steady /\ Counted(p)
      BY <1>4, UpsetsStay DEF Alone
    <2>2. Len(reports) \in Nat
      BY DEF Types
    <2>3. CASE dir = "fwd"
      <3>1. count' = 1 /\ pc[p] = "fwdCallback" /\ pc'[p] = "delay"
        BY <1>3, <1>6, <1>14, <2>1, <2>3
      <3> QED  BY <1>1, <1>6, <2>1, <3>1, LinesKept
    <2>4. CASE dir = "rev"
      <3>1. Len(reports) >= 2
        BY <1>3, <2>1, <2>4 DEF Lines
      <3>2. Len(reports) # 0 /\ Len(reports) # 1
        BY <2>2, <3>1
      <3> QED  BY <1>1, <2>1, <3>1, <3>2 DEF Lines, Sent, Received
    <2> QED  BY <1>3, <2>3, <2>4
  <1>18. OnePair' /\ Uuids' /\ PairsTagged'
    <2> SUFFICES ASSUME Orderly' PROVE OnePair' /\ Uuids' /\ PairsTagged'
      BY DEF OnePair, Uuids, PairsTagged, Orderly
    <2>1. Orderly
      BY <1>4, UpsetsStay
    <2>2. p \in Active
      BY <1>3 DEF Active
    <2>3. Active = {p}
      BY <2>1, <2>2 DEF OnePair
    <2>4. Counted(p) /\ \A q \in Pairs : q # p => pc[q] \in {"none", "over"}
      BY <2>1, <2>3 DEF OnePair, Active
    <2>5. Active' = {p}
      <3>1. p \in Active'
        BY <1>3, <1>6, <1>8 DEF Active
      <3>2. ASSUME NEW q \in Active' PROVE q = p
        <4>1. q \in Pairs
          BY DEF Active
        <4>2. q # p => q \in Active
          BY <1>6, <1>8, <4>1 DEF Active
        <4> QED  BY <2>3, <4>2
      <3> QED  BY <3>1, <3>2
    <2>6. pc'[p] = "over" =>
              count' = 2 /\ <<p, "fwd">> \notin Uploading' /\ <<p, "rev">> \in Uploading'
      <3>1. pc'[p] = "over" => dir = "rev"
        BY <1>3, <1>6
      <3>2. dir = "rev" => <<p, "fwd">> \notin Uploading
        BY <1>4
      <3> QED  BY <1>8, <1>14, <2>4, <3>1, <3>2
    <2>7. OnePair'
      BY <1>15, <2>4, <2>5, <2>6 DEF OnePair
    <2>8. pc[p] # "orphan" /\ pc'[p] # "orphan"
      BY <1>3, <1>6
    <2>9. Uuids'
      BY <1>1, <2>1, <2>3, <2>5, <2>8 DEF Uuids
    <2>10. PairsTagged'
      BY <1>1, <2>1 DEF PairsTagged, Orderly
    <2> QED  BY <2>7, <2>9, <2>10
  <1> QED  BY <1>9, <1>11, <1>12, <1>13, <1>16, <1>17, <1>18


\* An upload that goes on without ending: what is said of pairs, counter and
\* lines is not concerned.
LEMMA UploadGoesOn ==
    ASSUME ScreenInv, NEW r \in Reports, NEW to \in {"queued", "ssid", "posted"},
           r \in Uploading, upload' = [upload EXCEPT ![r] = to],
           UNCHANGED <<pc, seen, count, reports, uuid, view, shown, upsets>>
    PROVE  /\ Uploading' = Uploading /\ Active' = Active
           /\ \A k \in Reports : upload'[k] # "none" <=> upload[k] # "none"
           /\ Ladder' /\ Alone' /\ Lines' /\ OnePair'
  <1> USE DEF ScreenInv
  <1>1. \A k \in Reports : upload'[k] = IF k = r THEN to ELSE upload[k]
    BY DEF Types
  <1>2. Uploading' = Uploading
    BY <1>1 DEF Uploading
  <1>3. \A k \in Reports : upload'[k] # "none" <=> upload[k] # "none"
    BY <1>1 DEF Uploading
  <1>4. Active' = Active /\ AtWork' = AtWork
    BY <1>2 DEF Active, AtWork
  <1>5. Ladder'
    BY <1>2, <1>3, ReportPairs DEF Ladder
  <1>6. Alone'
    BY <1>2, <1>4 DEF Alone, Steady, Counted
  <1>7. Lines'
    <2> SUFFICES ASSUME Steady PROVE Lines'
      BY DEF Lines, Steady
    <2> QED  BY LinesKept
  <1>8. OnePair'
    BY <1>2, <1>4 DEF OnePair, Orderly, Counted
  <1> QED  BY <1>2, <1>3, <1>4, <1>5, <1>6, <1>7, <1>8

\* ReadSsid: a tag of the connection there is.
LEMMA SsidKeeps ==
    ASSUME ScreenInv, NEW r \in Reports, ReadSsid(r)
    PROVE  ScreenInv'
  <1> USE DEF ScreenInv
  <1> DEFINE new == [report |-> r, ssid |-> wiFiData, bssid |-> NoScan, uuid |-> 0]
  <1>1. /\ upload[r] = "queued"
        /\ UNCHANGED <<published, pc, seen, count, reports, uuid, view, shown, left, upsets>>
    BY DEF ReadSsid
  <1> DEFINE Kept == \A a, b : Follows(a, b)' <=> Follows(a, b)
  <1>order. Kept
    BY <1>1 DEF Follows
  <1>5. /\ wiFiData \in Scans \cup {NoScan}
        /\ wiFiData # NoScan => Follows(wiFiData, wiFiData)
        /\ \A a : Follows(a, a) => Follows(a, wiFiData)
    BY LatestIsLast
  <1> HIDE DEF Kept
  <1>2. CASE UNCHANGED <<upload, tags>>
    <2>1. AtWork' = AtWork /\ Uploading' = Uploading /\ Active' = Active
      BY <1>1, <1>2 DEF AtWork, Uploading, Active
    <2>2. Types' /\ Ladder'
      BY <1>1, <1>2, <2>1 DEF Types, Ladder
    <2>3. Tags' /\ Fresh'
      BY <1>1, <1>2, TagsKept DEF Types
    <2>4. Alone'
      BY <1>1, <2>1 DEF Alone, Steady, Counted
    <2>5. Lines'
      <3> SUFFICES ASSUME Steady PROVE Lines'
        BY <1>1 DEF Lines, Steady
      <3> QED  BY <1>1, LinesKept
    <2>6. OnePair' /\ Uuids' /\ PairsTagged'
      BY <1>1, <1>2, <2>1 DEF OnePair, Uuids, PairsTagged, Orderly, Counted
    <2> QED  BY <2>2, <2>3, <2>4, <2>5, <2>6
  <1>3. CASE /\ wiFiData # NoScan
             /\ upload' = [upload EXCEPT ![r] = "ssid"] /\ tags' = tags \cup {new}
    <2>1. r \in Uploading
      BY <1>1 DEF Uploading
    <2>2. /\ Uploading' = Uploading /\ Active' = Active
          /\ \A k \in Reports : upload'[k] # "none" <=> upload[k] # "none"
          /\ Ladder' /\ Alone' /\ Lines' /\ OnePair'
      BY <1>1, <1>3, <2>1, UploadGoesOn
    <2>3. Types'
      <3>1. new \in Info
        BY <1>5 DEF Info
      <3> QED  BY <1>1, <1>3, <3>1 DEF Types
    <2>4. new.report = r /\ new.ssid = wiFiData /\ new.bssid = NoScan
      OBVIOUS
    <2> HIDE DEF new
    <2>5. Tags'
      <3>1. \A t \in tags : upload'[t.report] # "none"
        BY <2>2, TagTypes DEF Tags
      <3>2. upload'[r] # "none"
        BY <1>1, <2>2
      <3> QED  BY <1>3, <1>order, <1>5, <2>4, <3>1, <3>2 DEF Tags, Kept
    <2>6. Fresh'
      <3>1. "slow" \notin upsets =>
                \A p \in Pairs : upload'[<<p, "rev">>] # "none" => <<p, "fwd">> \notin Uploading'
        BY <2>2, ReportPairs DEF Fresh
      <3>2. ASSUME "slow" \notin upsets, NEW t \in tags', NEW u \in tags',
                   t.bssid # NoScan, t.report[1] = u.report[1], t.report[2] = "fwd", u.report[2] = "rev"
            PROVE  Follows(t.bssid, u.ssid)
        <4>1. t \in tags
          BY <1>3, <2>4, <3>2
        <4>2. CASE u \in tags
          BY <3>2, <4>1, <4>2 DEF Fresh
        <4>3. CASE u = new
          BY <1>5, <2>4, <3>2, <4>1, <4>3 DEF Tags
        <4> QED  BY <1>3, <4>2, <4>3
      <3> QED  BY <1>1, <1>order, <3>1, <3>2 DEF Fresh, Kept
    <2>7. \A t \in tags' : t.bssid # NoScan => t \in tags
      BY <1>3, <2>4
    <2>8. Uuids'
      BY <1>1, <2>2, <2>7 DEF Uuids, Orderly
    <2>9. PairsTagged'
      BY <1>1, <2>7 DEF PairsTagged
    <2> QED  BY <2>2, <2>3, <2>5, <2>6, <2>8, <2>9
  <1> QED  BY <1>2, <1>3 DEF ReadSsid

\* ReadBssid: the tag takes the connection there is now, and the uuid of the
\* pair that is going on.
LEMMA BssidKeeps ==
    ASSUME ScreenInv, NEW r \in Reports, ReadBssid(r)
    PROVE  ScreenInv'
  <1> USE DEF ScreenInv
  <1> DEFINE f(t) == [t EXCEPT !.bssid = wiFiData, !.uuid = uuid]
  <1>1. /\ upload[r] = "ssid" /\ upload' = [upload EXCEPT ![r] = "posted"]
        /\ UNCHANGED <<published, pc, seen, count, reports, uuid, view, shown, left, upsets>>
    BY DEF ReadBssid
  <1>2. tags' = {IF t.report = r THEN f(t) ELSE t : t \in tags}
    BY DEF ReadBssid
  <1>3. r \in Uploading
    BY <1>1 DEF Uploading
  <1>4. /\ Uploading' = Uploading /\ Active' = Active
        /\ \A k \in Reports : upload'[k] # "none" <=> upload[k] # "none"
        /\ Ladder' /\ Alone' /\ Lines' /\ OnePair'
    BY <1>1, <1>3, UploadGoesOn
  <1>5. \A t \in tags : /\ f(t) \in Info /\ f(t).report = t.report /\ f(t).ssid = t.ssid
                        /\ f(t).bssid = wiFiData /\ f(t).uuid = uuid
    BY LatestIsLast DEF Types, Info
  <1> DEFINE Kept == \A a, b : Follows(a, b)' <=> Follows(a, b)
  <1>order. Kept
    BY <1>1 DEF Follows
  <1> HIDE DEF f, Kept
  <1>6. \A u \in tags' : \/ u \in tags /\ u.report # r
                         \/ \E t \in tags : t.report = r /\ u = f(t)
    BY <1>2
  <1>7. Types'
    <2>1. tags' \subseteq Info
      BY <1>5, <1>6 DEF Types
    <2> QED  BY <1>1, <2>1 DEF Types
  <1>8. uuid \in Nat /\ uuid <= uuid
    BY DEF Types
  <1>9. Tags'
    <2> SUFFICES ASSUME NEW u \in tags'
                 PROVE  /\ upload'[u.report] # "none"
                        /\ Follows(u.ssid, u.ssid)
                        /\ u.bssid # NoScan =>
                               Follows(u.bssid, u.bssid) /\ Follows(u.ssid, u.bssid)
      BY <1>order DEF Tags, Kept
    <2>1. CASE u \in tags
      BY <1>4, <2>1, TagTypes DEF Tags
    <2>2. ASSUME NEW t \in tags, t.report = r, u = f(t)
          PROVE  /\ upload'[u.report] # "none"
                 /\ Follows(u.ssid, u.ssid)
                 /\ u.bssid # NoScan => Follows(u.bssid, u.bssid) /\ Follows(u.ssid, u.bssid)
      <3>1. u.report = t.report /\ u.ssid = t.ssid /\ u.bssid = wiFiData
        BY <1>5, <2>2
      <3>2. upload'[t.report] # "none" /\ Follows(t.ssid, t.ssid)
        BY <1>4, TagTypes DEF Tags
      <3> QED  BY <3>1, <3>2, LatestIsLast
    <2> QED  BY <1>6, <2>1, <2>2
  <1>10. Fresh'
    <2>1. "slow" \notin upsets =>
              \A p \in Pairs : upload'[<<p, "rev">>] # "none" => <<p, "fwd">> \notin Uploading'
      BY <1>4, ReportPairs DEF Fresh
    <2>2. ASSUME "slow" \notin upsets, NEW t \in tags', NEW u \in tags',
                 t.bssid # NoScan, t.report[1] = u.report[1], t.report[2] = "fwd", u.report[2] = "rev"
          PROVE  Follows(t.bssid, u.ssid)
      <3>1. PICK s \in tags : s.report = u.report /\ s.ssid = u.ssid
        BY <1>5, <1>6
      <3>2. CASE t \in tags
        BY <2>2, <3>1, <3>2 DEF Fresh
      <3>3. ASSUME NEW o \in tags, o.report = r, t = f(o) PROVE FALSE
        <4>1. t.report = r
          BY <1>5, <3>3
        <4>2. r = <<r[1], "fwd">> /\ r[1] \in Pairs
          BY <2>2, <4>1, ReportPairs
        <4>3. s.report = <<r[1], "rev">>
          BY <2>2, <3>1, <4>1, TagTypes
        <4>4. upload[<<r[1], "rev">>] # "none"
          BY <4>3 DEF Tags
        <4> QED  BY <1>3, <2>2, <4>2, <4>4 DEF Fresh
      <3> QED  BY <1>6, <3>2, <3>3
    <2> QED  BY <1>1, <1>order, <2>1, <2>2 DEF Fresh, Kept
  <1>11. r[1] \in Active /\ pc[r[1]] # "orphan" /\ r[1] \in Pairs
    <2>1. r = <<r[1], r[2]>> /\ r[1] \in Pairs /\ r[2] \in {"fwd", "rev"}
      BY ReportPairs DEF Dirs
    <2>2. <<r[1], "fwd">> \in Uploading \/ <<r[1], "rev">> \in Uploading
      BY <1>3, <2>1
    <2> QED  BY <2>1, <2>2 DEF Active, Ladder
  <1>12. Uuids'
    <2> SUFFICES ASSUME Orderly, NEW u \in tags', u.bssid # NoScan
                 PROVE  /\ u.uuid <= uuid
                        /\ u.uuid = uuid <=>
                               u.report[1] \in Active /\ pc[u.report[1]] # "orphan"
      BY <1>1, <1>4 DEF Uuids, Orderly
    <2>1. CASE u \in tags
      BY <2>1 DEF Uuids
    <2>2. ASSUME NEW t \in tags, t.report = r, u = f(t)
          PROVE  u.uuid = uuid /\ u.report = r
      BY <1>5, <2>2
    <2> QED  BY <1>6, <1>8, <1>11, <2>1, <2>2
  <1>13. PairsTagged'
    <2> SUFFICES ASSUME Orderly, NEW t \in tags', NEW u \in tags', t.bssid # NoScan, u.bssid # NoScan
                 PROVE  t.uuid = u.uuid <=> t.report[1] = u.report[1]
      BY <1>1 DEF PairsTagged, Orderly
    <2>1. \A s \in tags' : s.bssid # NoScan /\ s \notin tags => s.uuid = uuid /\ s.report = r
      BY <1>5, <1>6
    <2>2. \A s \in tags' : s.bssid # NoScan => (s.uuid = uuid <=> s.report[1] = r[1])
      <3>1. \A q \in Active : q = r[1]
        BY <1>11 DEF OnePair
      <3>2. \A s \in tags : s.bssid # NoScan => (s.uuid = uuid <=> s.report[1] = r[1])
        BY <1>11, <3>1 DEF Uuids
      <3> QED  BY <2>1, <3>2
    <2>3. CASE t \in tags /\ u \in tags
      BY <2>3 DEF PairsTagged, Orderly
    <2>4. CASE t \notin tags \/ u \notin tags
      BY <2>1, <2>2, <2>4
    <2> QED  BY <2>3, <2>4
  <1> QED  BY <1>4, <1>7, <1>9, <1>10, <1>12, <1>13


\* EndUpload: with two counted the pair is complete, and the next one has a
\* uuid of its own.
LEMMA EndUploadKeeps ==
    ASSUME ScreenInv, NEW r \in Reports, EndUpload(r)
    PROVE  ScreenInv'
  <1> USE DEF ScreenInv
  <1>1. /\ upload[r] = "posted" /\ upload' = [upload EXCEPT ![r] = "done"]
        /\ UNCHANGED <<published, pc, seen, reports, tags, upsets>>
    BY DEF EndUpload
  <1>2. \/ /\ count = 2 /\ view' = "result" /\ shown' = SubSeq(reports, 1, 2)
           /\ uuid' = uuid + 1 /\ count' = 0
        \/ count # 2 /\ UNCHANGED <<view, shown, uuid, count>>
    BY DEF EndUpload
  <1>3. \A k \in Reports : upload'[k] = IF k = r THEN "done" ELSE upload[k]
    BY <1>1 DEF Types
  <1>4. Uploading' = Uploading \ {r} /\ r \in Uploading
    BY <1>1, <1>3 DEF Uploading
  <1>5. \A k \in Reports : upload'[k] # "none" <=> upload[k] # "none"
    BY <1>1, <1>3
  <1>6. Types'
    BY <1>1, <1>2 DEF Types
  <1>7. Ladder'
    BY <1>1, <1>4, <1>5, ReportPairs DEF Ladder
  <1>order. \A a, b : Follows(a, b)' <=> Follows(a, b)
    BY <1>1 DEF Follows
  <1>8. Tags'
    BY <1>1, <1>5, <1>order, TagTypes DEF Tags
  <1>9. Fresh'
    <2>1. "slow" \notin upsets =>
              \A p \in Pairs : upload'[<<p, "rev">>] # "none" => <<p, "fwd">> \notin Uploading'
      BY <1>4, <1>5, ReportPairs DEF Fresh
    <2> QED  BY <1>1, <1>order, <2>1 DEF Fresh
  <1>10. AtWork' = AtWork
    BY <1>1 DEF AtWork
  <1>11. Alone'
    <2> SUFFICES ASSUME Steady PROVE Alone'
      BY <1>1 DEF Alone, Steady
    <2>1. CASE count = 2
      <3>1. \A p \in Pairs : pc[p] \in {"none", "over"}
        BY <2>1 DEF Alone, Counted, Types, PC
      <3>2. AtWork = {}
        BY <3>1 DEF AtWork
      <3>3. count' = 0 /\ view' = "result"
        BY <1>2, <2>1
      <3>4. \A p \in Pairs : (pc[p] # "orphan" /\ Counted(p))'
        BY <1>1, <3>1, <3>3 DEF Counted
      <3> QED  BY <1>10, <3>2, <3>3, <3>4 DEF Alone
    <2>2. CASE count # 2
      BY <1>1, <1>2, <1>10, <2>2 DEF Alone, Counted
    <2> QED  BY <2>1, <2>2
  <1>12. Lines'
    <2> SUFFICES ASSUME Steady PROVE Lines'
      BY <1>1 DEF Lines, Steady
    <2>1. CASE count # 2
      BY <1>1, <1>2, <2>1, LinesKept
    <2>2. CASE count = 2
      <3>1. Len(reports) >= 2 /\ Len(reports) \in Nat
        BY <2>2 DEF Lines, Types
      <3>2. PICK p \in Pairs : reports[1] = Sent(p) /\ reports[2] = Received(p)
        BY <3>1 DEF Lines
      <3>3. SubSeq(reports, 1, 2) = <<reports[1], reports[2]>>
        <4> DEFINE two == SubSeq(reports, 1, 2)
        <4>1. \A i \in 1..2 : reports[i] \in Line
          BY <3>1 DEF Types
        <4>2. two \in Seq(Line) /\ Len(two) = 2 /\ \A i \in 1..2 : two[i] = reports[i]
          BY <4>1, SubSeqProperties
        <4>3. <<reports[1], reports[2]>> \in Seq(Line)
          BY <4>1
        <4> HIDE DEF two
        <4>4. Len(<<reports[1], reports[2]>>) = 2
          OBVIOUS
        <4>5. \A i \in 1..2 : two[i] = <<reports[1], reports[2]>>[i]
          BY <4>2
        <4>6. two = <<reports[1], reports[2]>>
          BY <4>2, <4>3, <4>4, <4>5, SeqEqual
        <4> QED  BY <4>6 DEF two
      <3>4. shown' = <<Sent(p), Received(p)>> /\ count' # 2
        BY <1>2, <2>2, <3>2, <3>3
      <3>5. Len(reports) # 0 /\ Len(reports) # 1
        BY <3>1
      <3> QED  BY <1>1, <3>1, <3>2, <3>4, <3>5 DEF Lines, Sent, Received
    <2> QED  BY <2>1, <2>2
  <1>13. OnePair' /\ Uuids' /\ PairsTagged'
    <2> SUFFICES ASSUME Orderly PROVE OnePair' /\ Uuids' /\ PairsTagged'
      BY <1>1 DEF OnePair, Uuids, PairsTagged, Orderly
    <2> DEFINE p == r[1]
    <2>1. r = <<p, r[2]>> /\ p \in Pairs /\ r[2] \in {"fwd", "rev"}
      BY ReportPairs DEF Dirs
    <2> HIDE DEF p
    <2>2. p \in Active /\ pc[p] # "orphan"
      <3>1. <<p, "fwd">> \in Uploading \/ <<p, "rev">> \in Uploading
        BY <1>4, <2>1
      <3> QED  BY <2>1, <3>1 DEF Active, Ladder
    <2>3. Active = {p}
      BY <2>2 DEF OnePair
    <2>4. PairsTagged'
      BY <1>1 DEF PairsTagged
    <2>5. CASE r[2] = "rev"
      <3>1. upload[<<p, "rev">>] # "none"
        BY <1>1, <2>1, <2>5
      <3>2. pc[p] = "over"
        BY <2>1, <2>2, <3>1 DEF Ladder
      <3>3. count = 2 /\ <<p, "fwd">> \notin Uploading
        BY <2>2, <3>2 DEF OnePair
      <3>4. count' = 0 /\ uuid' = uuid + 1
        BY <1>2, <3>3
      <3>5. Active' = {}
        <4>1. Active' \subseteq Active
          BY <1>1, <1>4 DEF Active
        <4>2. p \notin Active'
          BY <1>1, <1>4, <2>1, <2>5, <3>2, <3>3 DEF Active
        <4> QED  BY <2>3, <4>1, <4>2
      <3>6. \A q \in Pairs : pc[q] \in {"none", "over"}
        BY <2>3, <3>2 DEF Active
      <3>7. OnePair'
        BY <1>1, <3>4, <3>5, <3>6 DEF OnePair, Counted
      <3>8. \A t \in tags : t.bssid # NoScan => t.uuid <= uuid' /\ t.uuid # uuid'
        BY <3>4, TagTypes DEF Uuids, Types
      <3>9. Uuids'
        BY <1>1, <3>5, <3>8 DEF Uuids
      <3> QED  BY <2>4, <3>7, <3>9
    <2>6. CASE r[2] = "fwd"
      <3>1. upload[<<p, "fwd">>] # "none" /\ <<p, "fwd">> \in Uploading
        BY <1>1, <1>4, <2>1, <2>6
      <3>2. pc[p] \in {"delay", "rev", "revCallback"}
        <4>1. pc[p] # "over"
          BY <2>2, <3>1 DEF OnePair
        <4>2. pc[p] \notin {"none", "fwd", "fwdCallback"}
          BY <2>1, <3>1 DEF Ladder
        <4> QED  BY <2>1, <2>2, <4>1, <4>2 DEF Types, PC
      <3>3. count = 1
        BY <2>1, <3>2 DEF OnePair, Counted
      <3>4. count' = count /\ uuid' = uuid
        BY <1>2, <3>3
      <3>5. Active' = Active
        <4>1. Active' \subseteq Active
          BY <1>1, <1>4 DEF Active
        <4>2. p \in Active'
          BY <1>1, <2>1, <3>2 DEF Active
        <4> QED  BY <2>3, <4>1, <4>2
      <3>6. OnePair'
        <4>1. \A q \in Active' : pc'[q] # "over"
          BY <1>1, <2>3, <3>2, <3>5
        <4> QED  BY <1>1, <3>4, <3>5, <4>1 DEF OnePair, Counted
      <3>7. Uuids'
        BY <1>1, <3>4, <3>5 DEF Uuids
      <3> QED  BY <2>4, <3>6, <3>7
    <2> QED  BY <2>1, <2>5, <2>6
  <1> QED  BY <1>6, <1>7, <1>8, <1>9, <1>11, <1>12, <1>13

\* Leave: the coroutines and uploads of the fragment are over, its native tests
\* are orphans, and the next fragment has a new uuid.
LEMMA LeaveKeeps ==
    ASSUME ScreenInv, Leave
    PROVE  ScreenInv'
  <1> USE DEF ScreenInv
  <1>1. /\ upload' = [r \in Reports |-> IF upload[r] = "none" THEN "none" ELSE "done"]
        /\ seen' = [p \in Pairs |-> 0]
        /\ count' = 0 /\ reports' = <<>> /\ shown' = <<>>
        /\ view' = "stopped" /\ uuid' = uuid + 1
        /\ UNCHANGED <<published, tags>>
    BY DEF Leave
  <1>2. upsets' = IF Native = {} THEN upsets ELSE upsets \cup {"left"}
    BY DEF Leave
  <1>3. /\ pc' \in [Pairs -> PC]
        /\ \A p \in Pairs : /\ pc[p] \in Dirs => pc'[p] = "orphan"
                            /\ pc[p] = "none" => pc'[p] = "none"
                            /\ pc[p] \notin Dirs /\ pc[p] # "none" => pc'[p] = "over"
    <2> DEFINE after(x) == CASE x \in Dirs -> "orphan" [] x = "none" -> "none" [] OTHER -> "over"
    <2>1. pc' = [p \in Pairs |-> after(pc[p])]
      BY DEF Leave
    <2>2. "none" \notin Dirs
      BY DEF Dirs
    <2>3. \A x : /\ x \in Dirs => after(x) = "orphan"
                 /\ x = "none" => after(x) = "none"
                 /\ x \notin Dirs /\ x # "none" => after(x) = "over"
      BY <2>2, Zenon
    <2>4. \A x : after(x) \in PC
      BY <2>3 DEF PC
    <2> HIDE DEF after
    <2> QED  BY <2>1, <2>3, <2>4
  <1>4. upsets \subseteq upsets' /\ (Steady' => Native = {})
    BY <1>2 DEF Steady
  <1>5. Uploading' = {} /\ \A r \in Reports : upload'[r] = "none" <=> upload[r] = "none"
    BY <1>1 DEF Uploading
  <1>6. Types'
    <2>1. upload' \in [Reports -> {"none", "queued", "ssid", "posted", "done"}]
      BY <1>1
    <2>2. seen' \in [Pairs -> Nat] /\ reports' \in Seq(Line)
      BY <1>1
    <2>3. upsets' \subseteq {"overlap", "halt", "half", "slow", "left"}
      BY <1>2 DEF Types
    <2>4. uuid' \in Nat
      BY <1>1 DEF Types
    <2> QED  BY <1>1, <1>3, <2>1, <2>2, <2>3, <2>4 DEF Types
  <1>7. \A p \in Pairs : /\ pc'[p] \in {"none", "orphan", "over"}
                         /\ pc'[p] = "none" => pc[p] = "none"
    BY <1>3
  <1>8. Ladder'
    <2>1. \A p \in Pairs : pc'[p] = "none" =>
              upload'[<<p, "fwd">>] = "none" /\ upload'[<<p, "rev">>] = "none"
      BY <1>5, <1>7, ReportPairs DEF Ladder
    <2> QED  BY <1>5, <1>7, <2>1 DEF Ladder
  <1>order. \A a, b : Follows(a, b)' <=> Follows(a, b)
    BY <1>1 DEF Follows
  <1>9. Tags'
    BY <1>1, <1>5, <1>order, TagTypes DEF Tags
  <1>10. Fresh'
    <2>1. "slow" \notin upsets' => "slow" \notin upsets
      BY <1>4
    <2> QED  BY <1>1, <1>5, <1>order, <2>1 DEF Fresh
  <1>11. Alone' /\ Lines'
    <2> SUFFICES ASSUME Steady' PROVE Alone' /\ Lines'
      BY DEF Alone, Lines
    <2>1. \A p \in Pairs : pc'[p] \in {"none", "over"}
      <3>1. \A p \in Pairs : pc[p] \notin Dirs
        BY <1>4 DEF Native, Dirs
      <3> QED  BY <1>3, <3>1
    <2>2. AtWork' = {}
      BY <2>1 DEF AtWork
    <2>3. \A p \in Pairs : (pc[p] # "orphan" /\ Counted(p))'
      BY <2>1 DEF Counted
    <2>4. Alone'
      BY <1>1, <2>2, <2>3 DEF Alone
    <2>5. Len(reports') = 0
      BY <1>1
    <2>6. Lines'
      BY <1>1, <2>1, <2>5 DEF Lines
    <2> QED  BY <2>4, <2>6
  <1>12. OnePair' /\ Uuids' /\ PairsTagged'
    <2> SUFFICES ASSUME Orderly' PROVE OnePair' /\ Uuids' /\ PairsTagged'
      BY DEF OnePair, Uuids, PairsTagged, Orderly
    <2>1. Orderly
      BY <1>4, UpsetsStay
    <2>2. \A p \in Active' : p \in Active /\ pc'[p] = "orphan"
      BY <1>3, <1>5, <1>7 DEF Active, Dirs
    <2>3. \A p \in Pairs : Counted(p)'
      BY <1>1, <1>7 DEF Counted
    <2>4. OnePair'
      BY <1>1, <2>1, <2>2, <2>3 DEF OnePair
    <2>5. \A t \in tags : t.bssid # NoScan => t.uuid <= uuid' /\ t.uuid # uuid'
      BY <1>1, <2>1, TagTypes DEF Uuids, Types
    <2>6. Uuids'
      BY <1>1, <2>2, <2>5 DEF Uuids
    <2>7. PairsTagged'
      BY <1>1, <2>1 DEF PairsTagged, Orderly
    <2> QED  BY <2>4, <2>6, <2>7
  <1> QED  BY <1>6, <1>8, <1>9, <1>10, <1>11, <1>12

-----------------------------------------------------------------------------
(* The theorems. *)

\* The invariant always holds.
LEMMA ScreenInvariant == Spec => []ScreenInv
  <1>1. Init => ScreenInv
    <2> SUFFICES ASSUME Init PROVE ScreenInv
      OBVIOUS
    <2> USE DEF Init
    <2>1. Types
      <3>1. published \in Seq(Scans)
        OBVIOUS
      <3>2. pc \in [Pairs -> PC] /\ seen \in [Pairs -> Nat]
        BY DEF PC
      <3>3. upload \in [Reports -> {"none", "queued", "ssid", "posted", "done"}]
        OBVIOUS
      <3>4. reports \in Seq(Line)
        OBVIOUS
      <3> QED  BY <3>1, <3>2, <3>3, <3>4 DEF Types
    <2>2. Uploading = {} /\ AtWork = {} /\ Active = {}
      BY DEF Uploading, AtWork, Active
    <2>3. Ladder
      BY ReportPairs, <2>2 DEF Ladder
    <2>4. Tags /\ Fresh /\ Uuids /\ PairsTagged
      BY <2>2 DEF Tags, Fresh, Uuids, PairsTagged
    <2>5. \A p \in Pairs : pc[p] = "none" /\ Counted(p)
      BY DEF Counted
    <2>6. Alone /\ OnePair
      BY <2>2, <2>5 DEF Alone, OnePair
    <2>7. Len(reports) = 0
      OBVIOUS
    <2>8. Lines
      BY <2>5, <2>7 DEF Lines
    <2> QED  BY <2>1, <2>3, <2>4, <2>6, <2>8 DEF ScreenInv
  <1>2. ScreenInv /\ [Next]_vars => ScreenInv'
    <2> SUFFICES ASSUME ScreenInv, [Next]_vars PROVE ScreenInv'
      OBVIOUS
    <2>1. CASE UNCHANGED vars
      <3> USE <2>1 DEF vars, ScreenInv
      <3>1. AtWork' = AtWork /\ Uploading' = Uploading /\ Active' = Active
        BY DEF AtWork, Uploading, Active
      <3>2. Types' /\ Ladder'
        BY <3>1 DEF Types, Ladder
      <3>3. Tags' /\ Fresh'
        BY <3>1, TagsKept
      <3>4. Alone'
        BY <3>1 DEF Alone, Steady, Counted
      <3>5. Lines'
        BY DEF Lines, Steady, Sent, Received
      <3>6. OnePair' /\ Uuids' /\ PairsTagged'
        BY <3>1 DEF OnePair, Uuids, PairsTagged, Orderly, Counted
      <3> QED  BY <3>2, <3>3, <3>4, <3>5, <3>6
    <2>2. CASE onSwipe_Reverse \/ Leave \/ Publish
      BY <2>2, SwipeReverse, LeaveKeeps, PublishKeeps
    <2>3. ASSUME NEW p \in Pairs,
                 \/ onSwipe_Forward(p) \/ TestFails(p) \/ TestEnds(p) \/ ReportUnreadable(p)
                 \/ StartReverse(p) \/ OrphanEnds(p)
                 \/ \E dir \in Dirs : CountUp(p, dir)
          PROVE  ScreenInv'
      BY <2>3, SwipeForward, FailsKeeps, EndsKeeps, UnreadableKeeps, StartReverseKeeps,
         OrphanKeeps, CountKeeps
    <2>4. ASSUME NEW r \in Reports, ReadSsid(r) \/ ReadBssid(r) \/ EndUpload(r)
          PROVE  ScreenInv'
      BY <2>4, SsidKeeps, BssidKeeps, EndUploadKeeps
    <2> QED  BY <2>1, <2>2, <2>3, <2>4 DEF Next
  <1> QED  BY <1>1, <1>2, PTL DEF Spec

\* reportCallback and sendReport: the two reports of a pair are posted under one
\* uuid and no two pairs share one, however many pairs there are and whenever
\* the user stops or leaves, unless one of the three upsets came before.
THEOREM PairsAreTagged == Spec => []PairsTagged
  <1>1. ScreenInv => PairsTagged
    BY DEF ScreenInv
  <1> QED  BY <1>1, ScreenInvariant, PTL

\* sendReport: the bssid of a tag is of the scan of its ssid or of one published
\* later, and the second report of a pair carries nothing published before the
\* bssid of the first, in whatever order the view models publish their scans.
THEOREM UploadsAreFresh == Spec => []UploadFresh
  <1>1. ScreenInv => UploadFresh
    BY DEF ScreenInv, UploadFresh, Tags, Fresh
  <1> QED  BY <1>1, ScreenInvariant, PTL

\* The swipe handlers: two native tests run at once only after the user swiped
\* back or left during a test or a pair stayed incomplete.
THEOREM TestsAreAlone == Spec => []TestsAlone
  <1>1. ScreenInv => TestsAlone
    <2> SUFFICES ASSUME ScreenInv, Steady PROVE ~(Cardinality(Native) > 1)
      BY DEF TestsAlone, Steady
    <2>1. Native \subseteq AtWork
      BY DEF Native, AtWork
    <2>2. \A p, q \in Native : p = q
      BY <2>1 DEF ScreenInv, Alone
    <2>3. CASE Native = {}
      <3>1. Cardinality(Native) = 0
        BY <2>3, FS_EmptySet
      <3> QED  BY <3>1
    <2>4. CASE Native # {}
      <3>1. PICK p \in Native : Native = {p}
        BY <2>2, <2>4
      <3>2. Cardinality(Native) = 1
        BY <3>1, FS_Singleton
      <3> QED  BY <3>2
    <2> QED  BY <2>3, <2>4
  <1> QED  BY <1>1, ScreenInvariant, PTL

\* The screen comes to rest with nothing counted and nothing waited for, and
\* what it shows are the two lines of one pair.
THEOREM ScreenComesToRest == Spec => []ScreenSettles
  <1>1. ScreenInv => ScreenSettles
    <2> SUFFICES ASSUME ScreenInv, upsets = {}
                 PROVE  /\ AtWork = {} /\ Uploading = {} => count = 0 /\ view # "running"
                        /\ shown # <<>> =>
                             \E p \in Pairs :
                                 shown = <<[pair |-> p, dir |-> "fwd", line |-> "sent"],
                                           [pair |-> p, dir |-> "rev", line |-> "received"]>>
      BY DEF ScreenSettles
    <2>1. Steady
      BY DEF Steady
    <2>2. AtWork = {} /\ Uploading = {} => count = 0 /\ view # "running"
      BY <2>1 DEF ScreenInv, Alone
    <2>3. shown # <<>> => \E p \in Pairs : shown = <<Sent(p), Received(p)>>
      BY <2>1 DEF ScreenInv, Lines
    <2> QED  BY <2>2, <2>3 DEF Sent, Received
  <1> QED  BY <1>1, ScreenInvariant, PTL
=============================================================================
