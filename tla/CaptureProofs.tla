---------------------------- MODULE CaptureProofs ---------------------------
(***************************************************************************)
(* Proofs about Capture, for every set of captures and fixes.              *)
(***************************************************************************)
EXTENDS Capture, TLAPS

LEMMA TypeStep ==
  ASSUME TypeOK, NEW p \in Procs, Step(p)
  PROVE  TypeOK'
<1> USE ProcsAssumption DEF TypeOK, Inodes, Running, Ended, Goto, Saved, fileVars,
      markerVars, dirVars, localVars
<1>1. CASE StartFix(p)
  BY <1>1 DEF StartFix, HandedOver
<1>2. CASE EnterCapture(p)
  BY <1>2 DEF EnterCapture
<1>3. CASE Gather(p)
  BY <1>3 DEF Gather
<1>4. CASE HandOver(p)
  <2>1. CASE CopyPending(p)
    BY <2>1 DEF CopyPending
  <2>2. CASE RemovePending(p)
    BY <2>2 DEF RemovePending
  <2>. QED  BY <1>4, <2>1, <2>2 DEF HandOver
<1>5. CASE SetMarkers(p)
  <2>1. CASE MarkCorrupt(p)
    BY <2>1 DEF MarkCorrupt, Alarm
  <2>2. CASE NoticeReboot(p)
    BY <2>2 DEF NoticeReboot
  <2>3. CASE LogAlert(p)
    BY <2>3 DEF LogAlert
  <2>4. CASE NoticeCurrent(p)
    BY <2>4 DEF NoticeCurrent
  <2>5. CASE Page(p)
    BY <2>5 DEF Page
  <2>6. CASE MarkHealthy(p)
    BY <2>6 DEF MarkHealthy
  <2>7. CASE DropNotice(p)
    BY <2>7 DEF DropNotice, NoticeDropped
  <2>8. CASE WriteBaseline(p)
    BY <2>8 DEF WriteBaseline
  <2>. QED  BY <1>5, <2>1, <2>2, <2>3, <2>4, <2>5, <2>6, <2>7,
     <2>8 DEF SetMarkers
<1>6. CASE AppendTimeline(p)
  <2>1. CASE OpenTimeline(p)
    BY <2>1 DEF OpenTimeline
  <2>2. CASE AppendRecord(p)
    BY <2>2 DEF AppendRecord
  <2>. QED  BY <1>6, <2>1, <2>2 DEF AppendTimeline
<1>7. CASE PruneOldEvents(p)
  <2>1. CASE RemoveAged(p)
    BY <2>1 DEF RemoveAged
  <2>2. CASE ReadTimeline(p)
    BY <2>2 DEF ReadTimeline, Survivors
  <2>3. CASE OpenTmp(p)
    BY <2>3 DEF OpenTmp, TmpInode
  <2>4. CASE WriteTmp(p)
      <3>1. PICK tail \in SUBSET data[handle[p]] :
              data' = [data EXCEPT ![handle[p]] = kept[p] \union tail]
        BY <2>4 DEF WriteTmp
      <3>2. data' \in [Inodes -> SUBSET Procs]
        <4>1. ASSUME NEW i \in Inodes
              PROVE  data'[i] \subseteq Procs
          BY <3>1, <4>1
        <4>. QED  BY <3>1, <4>1
      <3>. QED  BY <2>4, <3>2 DEF WriteTmp
  <2>5. CASE RenameTmp(p)
    BY <2>5 DEF RenameTmp
  <2>. QED  BY <1>7, <2>1, <2>2, <2>3, <2>4, <2>5 DEF PruneOldEvents
<1>8. CASE GatherLate(p)
  BY <1>8 DEF GatherLate
<1>9. CASE DropPending(p)
  BY <1>9 DEF DropPending
<1>10. CASE Ends(p)
  <2>1. CASE Fail(p)
    BY <2>1 DEF Fail, MayFail
  <2>2. CASE FailPrune(p)
    BY <2>2 DEF FailPrune
  <2>3. CASE Killed(p)
    BY <2>3 DEF Killed, Die, LockAfterDeath
  <2>. QED  BY <1>10, <2>1, <2>2, <2>3 DEF Ends
<1>11. CASE Age(p)
  BY <1>11 DEF Age
<1>. QED
  BY <1>1, <1>2, <1>3, <1>4, <1>5, <1>6, <1>7, <1>8, <1>9, <1>10, <1>11
     DEF Step, Proceed

(***************************************************************************)
(* Every variable keeps its type: whatever captures do to each other, the  *)
(* timeline's name leads to an inode some capture made, the lock has one   *)
(* holder and a marker file one of its few contents.                       *)
(***************************************************************************)
THEOREM TypeCorrect == Spec => []TypeOK
<1>1. Init => TypeOK
  BY ProcsAssumption DEF Init, TypeOK, Inodes, Running, Ended
<1>2. TypeOK /\ [Next]_vars => TypeOK'
  <2>1. ASSUME TypeOK, UNCHANGED vars
        PROVE  TypeOK'
    BY <2>1 DEF vars, fileVars, markerVars, dirVars, localVars, TypeOK
  <2>. QED  BY <2>1, TypeStep DEF Next, Step
<1>. QED  BY <1>1, <1>2, PTL DEF Spec

-----------------------------------------------------------------------------
(***************************************************************************)
(* The inductive invariant behind AlarmBeforeRecord.  A record travels:    *)
(* prune copies it from file to file through kept, so every place a record *)
(* can be in vouches for it, and evidence and recover.json of a capture    *)
(* are final before its alarm is chosen.                                   *)
(***************************************************************************)
Final(p) ==
  pc[p] \notin {"idle", "enter", "evidence", "copy", "unlink", "judge"}

Alarmed(p) == Flagged(p) => p \in alerts \/ HushFixNotice(p)

Vouched(p) == Alarmed(p) /\ Final(p)

AlarmChosen(p) ==
  /\ pc[p] = "hush" => HushFixNotice(p)
  /\ pc[p] \in {"page", "notify"} => p \in alerts
  /\ pc[p] \in {"unnotice", "baseline"} => ~Flagged(p)
  /\ pc[p] \in {"late", "lock", "append"} => Alarmed(p)

AlarmInv ==
  /\ \A i \in Inodes : \A p \in data[i] : Vouched(p)
  /\ \A q \in Procs : \A p \in kept[q] : Vouched(p)
  /\ \A p \in Procs : AlarmChosen(p)

LEMMA AlarmStep ==
  ASSUME TypeOK, AlarmInv, NEW p \in Procs, Step(p)
  PROVE  AlarmInv'
<1> USE ProcsAssumption DEF TypeOK, Inodes, AlarmInv, AlarmChosen, Vouched,
      Alarmed, Final, Flagged, HushFixNotice, Goto, Saved, fileVars,
      markerVars, dirVars, localVars
<1>1. CASE StartFix(p)
  BY <1>1 DEF StartFix, HandedOver
<1>2. CASE EnterCapture(p)
  BY <1>2 DEF EnterCapture
<1>3. CASE Gather(p)
  BY <1>3 DEF Gather
<1>4. CASE HandOver(p)
  <2>1. CASE CopyPending(p)
    BY <2>1 DEF CopyPending
  <2>2. CASE RemovePending(p)
    BY <2>2 DEF RemovePending
  <2>. QED  BY <1>4, <2>1, <2>2 DEF HandOver
<1>5. CASE SetMarkers(p)
  <2>1. CASE MarkCorrupt(p)
    BY <2>1 DEF MarkCorrupt, Alarm
  <2>2. CASE NoticeReboot(p)
    BY <2>2 DEF NoticeReboot
  <2>3. CASE LogAlert(p)
    BY <2>3 DEF LogAlert
  <2>4. CASE NoticeCurrent(p)
    BY <2>4 DEF NoticeCurrent
  <2>5. CASE Page(p)
    BY <2>5 DEF Page
  <2>6. CASE MarkHealthy(p)
    BY <2>6 DEF MarkHealthy
  <2>7. CASE DropNotice(p)
    BY <2>7 DEF DropNotice, NoticeDropped
  <2>8. CASE WriteBaseline(p)
    BY <2>8 DEF WriteBaseline
  <2>. QED  BY <1>5, <2>1, <2>2, <2>3, <2>4, <2>5, <2>6, <2>7,
     <2>8 DEF SetMarkers
<1>6. CASE AppendTimeline(p)
  <2>1. CASE OpenTimeline(p)
    BY <2>1 DEF OpenTimeline
  <2>2. CASE AppendRecord(p)
    BY <2>2 DEF AppendRecord
  <2>. QED  BY <1>6, <2>1, <2>2 DEF AppendTimeline
<1>7. CASE PruneOldEvents(p)
  <2>1. CASE RemoveAged(p)
    BY <2>1 DEF RemoveAged
  <2>2. CASE ReadTimeline(p)
    BY <2>2 DEF ReadTimeline, Survivors
  <2>3. CASE OpenTmp(p)
    BY <2>3 DEF OpenTmp, TmpInode
  <2>4. CASE WriteTmp(p)
    BY <2>4 DEF WriteTmp
  <2>5. CASE RenameTmp(p)
    BY <2>5 DEF RenameTmp
  <2>. QED  BY <1>7, <2>1, <2>2, <2>3, <2>4, <2>5 DEF PruneOldEvents
<1>8. CASE GatherLate(p)
  BY <1>8 DEF GatherLate
<1>9. CASE DropPending(p)
  BY <1>9 DEF DropPending
<1>10. CASE Ends(p)
  BY <1>10 DEF Ends, Fail, MayFail, FailPrune, Die, Running, Killed
<1>11. CASE Age(p)
  BY <1>11 DEF Age
<1>. QED
  BY <1>1, <1>2, <1>3, <1>4, <1>5, <1>6, <1>7, <1>8, <1>9, <1>10, <1>11
     DEF Step, Proceed

(***************************************************************************)
(* AlarmBeforeRecord for any number of captures and fixes: no interleaving *)
(* of prunes, no kill and no failed write puts a corrupt machine on record *)
(* without its alarm or a verified clear to excuse the silence.            *)
(***************************************************************************)
THEOREM AlarmBeforeRecordHolds == Spec => []AlarmBeforeRecord
<1>1. Init => AlarmInv
  BY DEF Init, AlarmInv, AlarmChosen, Inodes
<1>2. TypeOK /\ AlarmInv /\ [Next]_vars => AlarmInv'
  <2>1. ASSUME AlarmInv, UNCHANGED vars
        PROVE  AlarmInv'
    BY <2>1 DEF vars, fileVars, markerVars, localVars, AlarmInv,
       AlarmChosen, Vouched, Alarmed, Final, Flagged, HushFixNotice
  <2>. QED  BY <2>1, AlarmStep DEF Next, Step
<1>3. AlarmInv => AlarmBeforeRecord
  BY DEF AlarmInv, AlarmBeforeRecord, Vouched, Alarmed, HushFixNotice
<1>. QED  BY <1>1, <1>2, <1>3, TypeCorrect, PTL DEF Spec

-----------------------------------------------------------------------------
(***************************************************************************)
(* The inductive invariant behind PagedUnlessCleared.  From its write to   *)
(* its removal pending-recover.json is the running fix's own, because no   *)
(* other fix runs and a fix overwrites what a killed one left; so          *)
(* recover.json is its own too, and decides between hush and page.         *)
(***************************************************************************)
\* At most one capture of S runs.
OneRunning(S) ==
  \A p, q \in S : pc[p] \in Running /\ pc[q] \in Running => p = q

OwnVerdict(p) ==
  p \in Fixes =>
    /\ pc[p] \in {"enter", "evidence", "copy", "unlink"} => pending = p
    /\ pc[p] \in {"unlink", "judge", "hush", "log", "page", "notify"} =>
         recover[p] = p

PageDecided(p) ==
  /\ pc[p] \in {"hush", "log", "page", "notify"} =>
       (pc[p] = "hush") = (p \in cleared)
  /\ pc[p] \in {"unnotice", "baseline"} => ~Flagged(p)
  /\ pc[p] \in {"idle", "enter", "evidence", "copy", "unlink", "judge", "hush",
                "log", "page", "notify"} => p \notin paged
  /\ Settled(p) /\ Flagged(p) => (p \in paged) = (p \notin cleared)
  /\ pc[p] = "idle" => p \notin cleared
  /\ pc[p] \in {"enter", "copy", "unlink"} => p \in Fixes
  /\ pc[p] # "error"

PageInv ==
  /\ OneRunning(Fixes)
  /\ \A p \in Procs : OwnVerdict(p) /\ PageDecided(p)

\* Exclusive captures wait for each other: only a start adds a running one.
LEMMA OneRunningStep ==
  ASSUME TypeOK, NEW S \in SUBSET Exclusive, OneRunning(S),
         NEW p \in Procs, Step(p)
  PROVE  OneRunning(S)'
<1> USE ProcsAssumption DEF TypeOK, OneRunning, MayStart, Goto, Running, Ended,
      dirVars
<1>1. CASE StartFix(p)
  BY <1>1 DEF StartFix, HandedOver
<1>2. CASE EnterCapture(p)
  BY <1>2 DEF EnterCapture
<1>3. CASE Gather(p)
  BY <1>3 DEF Gather
<1>4. CASE HandOver(p)
  BY <1>4 DEF HandOver, CopyPending, RemovePending
<1>5. CASE SetMarkers(p)
  BY <1>5 DEF SetMarkers, MarkCorrupt, Alarm, NoticeReboot, LogAlert,
     NoticeCurrent, Page, MarkHealthy, DropNotice, NoticeDropped, WriteBaseline
<1>6. CASE AppendTimeline(p)
  BY <1>6 DEF AppendTimeline, OpenTimeline, AppendRecord
<1>7. CASE PruneOldEvents(p)
  BY <1>7 DEF PruneOldEvents, RemoveAged, ReadTimeline, Survivors, OpenTmp,
     TmpInode, WriteTmp, RenameTmp
<1>8. CASE GatherLate(p)
  BY <1>8 DEF GatherLate
<1>9. CASE DropPending(p)
  BY <1>9 DEF DropPending
<1>10. CASE Ends(p)
  BY <1>10 DEF Ends, Fail, MayFail, FailPrune, Die, Running, Killed
<1>11. CASE Age(p)
  BY <1>11 DEF Age
<1>. QED
  BY <1>1, <1>2, <1>3, <1>4, <1>5, <1>6, <1>7, <1>8, <1>9, <1>10, <1>11
     DEF Step, Proceed

LEMMA OwnVerdictStep ==
  ASSUME TypeOK, PageInv, Fixes \subseteq Exclusive, Faulty = FALSE,
         NEW p \in Procs, NEW q \in Procs, Step(p)
  PROVE  OwnVerdict(q)'
<1> USE ProcsAssumption DEF TypeOK, PageInv, OneRunning, OwnVerdict, PageDecided,
      MayStart, Goto, Saved, Running, Ended, dirVars, localVars
<1>1. CASE StartFix(p)
  BY <1>1 DEF StartFix, HandedOver
<1>2. CASE EnterCapture(p)
  BY <1>2 DEF EnterCapture
<1>3. CASE Gather(p)
  BY <1>3 DEF Gather
<1>4. CASE HandOver(p)
  <2>1. CASE CopyPending(p)
    BY <2>1 DEF CopyPending
  <2>2. CASE RemovePending(p)
    BY <2>2 DEF RemovePending
  <2>. QED  BY <1>4, <2>1, <2>2 DEF HandOver
<1>5. CASE SetMarkers(p)
  BY <1>5 DEF SetMarkers, MarkCorrupt, Alarm, NoticeReboot, LogAlert,
     NoticeCurrent, Page, MarkHealthy, DropNotice, NoticeDropped, WriteBaseline
<1>6. CASE AppendTimeline(p)
  BY <1>6 DEF AppendTimeline, OpenTimeline, AppendRecord
<1>7. CASE PruneOldEvents(p)
  BY <1>7 DEF PruneOldEvents, RemoveAged, ReadTimeline, Survivors, OpenTmp,
     TmpInode, WriteTmp, RenameTmp
<1>8. CASE GatherLate(p)
  BY <1>8 DEF GatherLate
<1>9. CASE DropPending(p)
  BY <1>9 DEF DropPending
<1>10. CASE Ends(p)
  BY <1>10 DEF Ends, Fail, MayFail, FailPrune, Die, Running, Killed
<1>11. CASE Age(p)
  BY <1>11 DEF Age
<1>. QED
  BY <1>1, <1>2, <1>3, <1>4, <1>5, <1>6, <1>7, <1>8, <1>9, <1>10, <1>11
     DEF Step, Proceed

LEMMA PageDecidedStep ==
  ASSUME TypeOK, PageInv, Faulty = FALSE, NEW p \in Procs, NEW q \in Procs,
         Step(p)
  PROVE  PageDecided(q)'
<1> USE ProcsAssumption DEF TypeOK, PageInv, OwnVerdict, PageDecided, Settled,
      Flagged, HushFixNotice, Goto, Saved, localVars
<1>1. CASE StartFix(p)
  BY <1>1 DEF StartFix, HandedOver
<1>2. CASE EnterCapture(p)
  BY <1>2 DEF EnterCapture
<1>3. CASE Gather(p)
  BY <1>3 DEF Gather
<1>4. CASE HandOver(p)
  <2>1. CASE CopyPending(p)
    BY <2>1 DEF CopyPending
  <2>2. CASE RemovePending(p)
    BY <2>2 DEF RemovePending
  <2>. QED  BY <1>4, <2>1, <2>2 DEF HandOver
<1>5. CASE SetMarkers(p)
  <2>1. CASE MarkCorrupt(p)
    BY <2>1 DEF MarkCorrupt, Alarm
  <2>2. CASE NoticeReboot(p)
    BY <2>2 DEF NoticeReboot
  <2>3. CASE LogAlert(p)
    BY <2>3 DEF LogAlert
  <2>4. CASE NoticeCurrent(p)
    BY <2>4 DEF NoticeCurrent
  <2>5. CASE Page(p)
    BY <2>5 DEF Page
  <2>6. CASE MarkHealthy(p)
    BY <2>6 DEF MarkHealthy
  <2>7. CASE DropNotice(p)
    BY <2>7 DEF DropNotice, NoticeDropped
  <2>8. CASE WriteBaseline(p)
    BY <2>8 DEF WriteBaseline
  <2>. QED  BY <1>5, <2>1, <2>2, <2>3, <2>4, <2>5, <2>6, <2>7,
     <2>8 DEF SetMarkers
<1>6. CASE AppendTimeline(p)
  BY <1>6 DEF AppendTimeline, OpenTimeline, AppendRecord
<1>7. CASE PruneOldEvents(p)
  BY <1>7 DEF PruneOldEvents, RemoveAged, ReadTimeline, Survivors, OpenTmp,
     TmpInode, WriteTmp, RenameTmp
<1>8. CASE GatherLate(p)
  BY <1>8 DEF GatherLate
<1>9. CASE DropPending(p)
  BY <1>9 DEF DropPending
<1>10. CASE Ends(p)
  BY <1>10 DEF Ends, Fail, MayFail, FailPrune, Die, Running, Killed
<1>11. CASE Age(p)
  BY <1>11 DEF Age
<1>. QED
  BY <1>1, <1>2, <1>3, <1>4, <1>5, <1>6, <1>7, <1>8, <1>9, <1>10, <1>11
     DEF Step, Proceed

LEMMA PageInit == Init => PageInv
BY ProcsAssumption DEF Init, PageInv, OneRunning, OwnVerdict, PageDecided, Running,
   Settled

LEMMA PageStep ==
  ASSUME Fixes \subseteq Exclusive, Faulty = FALSE, TypeOK, PageInv, [Next]_vars
  PROVE  PageInv'
<1>1. ASSUME UNCHANGED vars
      PROVE  PageInv'
  BY <1>1 DEF vars, localVars, PageInv, OneRunning, OwnVerdict, PageDecided, Settled,
     Flagged
<1>2. ASSUME NEW p \in Procs, Step(p)
      PROVE  PageInv'
  BY <1>2, OneRunningStep, OwnVerdictStep, PageDecidedStep DEF PageInv
<1>. QED  BY <1>1, <1>2 DEF Next, Step

(***************************************************************************)
(* PagedUnlessCleared for any number of captures and fixes, provided fixes *)
(* do not overlap each other and writes to STATE_DIR succeed: then a page  *)
(* is skipped for a verified clear of the same fix and for nothing else,   *)
(* even when earlier fixes were killed anywhere.                           *)
(***************************************************************************)
THEOREM PagedUnlessClearedHolds ==
  ASSUME Fixes \subseteq Exclusive, Faulty = FALSE
  PROVE  Spec => []PagedUnlessCleared
<1>1. TypeOK /\ PageInv /\ [Next]_vars => PageInv'
  BY PageStep
<1>2. PageInv => PagedUnlessCleared
  BY DEF PageInv, PageDecided, PagedUnlessCleared
<1>. QED  BY <1>1, <1>2, PageInit, TypeCorrect, PTL DEF Spec

-----------------------------------------------------------------------------
(***************************************************************************)
(* The inductive invariant behind MarkersTellLastCapture.  One capture     *)
(* runs; while it sets the marker files, each step vouches for the files   *)
(* already set, and nobody is running once a capture counts as the last.   *)
(***************************************************************************)
\* The markers tell what p saw.
Told(p) ==
  IF Flagged(p)
  THEN /\ spdNow = "corrupt"
       /\ notice = IF p \in cleared THEN "reboot" ELSE "current"
  ELSE spdNow = "healthy" /\ notice = "none" /\ baseline = p

MarkedSoFar(p) ==
  /\ pc[p] \in {"hush", "log", "page", "notify"} =>
       Flagged(p) /\ spdNow = "corrupt"
  /\ pc[p] = "notify" => notice = "current"
  /\ pc[p] \in {"unnotice", "baseline"} => ~Flagged(p) /\ spdNow = "healthy"
  /\ pc[p] = "baseline" => notice = "none"
  /\ pc[p] \in Running /\ Settled(p) => Told(p)

MarkInv ==
  /\ OneRunning(Procs)
  /\ \A p \in Procs : MarkedSoFar(p)
  /\ last # Nobody => Told(last) /\ \A p \in Procs : pc[p] \notin Running

LEMMA MarkStep ==
  ASSUME TypeOK, PageInv, MarkInv, Exclusive = Procs, Faulty = FALSE,
         NEW p \in Procs, Step(p)
  PROVE  MarkInv'
<1> USE ProcsAssumption DEF TypeOK, MarkInv, MarkedSoFar, Told, Settled, Flagged,
      OneRunning, Goto, Saved, Running, Ended, localVars
<1>0. OneRunning(Procs)'
  BY OneRunningStep
<1>1. CASE StartFix(p)
  BY <1>0, <1>1 DEF StartFix, HandedOver, MayStart, markerVars
<1>2. CASE EnterCapture(p)
  BY <1>0, <1>2 DEF EnterCapture, MayStart, markerVars
<1>3. CASE Gather(p)
  BY <1>0, <1>3 DEF Gather, markerVars
<1>4. CASE HandOver(p)
  BY <1>0, <1>4 DEF HandOver, CopyPending, RemovePending, markerVars
<1>5. CASE SetMarkers(p)
  <2>0. PageDecided(p)
    BY DEF PageInv
  <2>1. CASE MarkCorrupt(p)
    BY <1>0, <2>1 DEF MarkCorrupt, Alarm
  <2>2. CASE NoticeReboot(p)
    BY <1>0, <2>0, <2>2 DEF NoticeReboot, PageDecided
  <2>3. CASE LogAlert(p)
    BY <1>0, <2>3 DEF LogAlert
  <2>4. CASE NoticeCurrent(p)
    BY <1>0, <2>0, <2>4 DEF NoticeCurrent, PageDecided
  <2>5. CASE Page(p)
    BY <1>0, <2>0, <2>5 DEF Page, PageDecided, markerVars
  <2>6. CASE MarkHealthy(p)
    BY <1>0, <2>6 DEF MarkHealthy
  <2>7. CASE DropNotice(p)
    BY <1>0, <2>7 DEF DropNotice, NoticeDropped
  <2>8. CASE WriteBaseline(p)
    BY <1>0, <2>8 DEF WriteBaseline
  <2>. QED  BY <1>5, <2>1, <2>2, <2>3, <2>4, <2>5, <2>6, <2>7,
     <2>8 DEF SetMarkers
<1>6. CASE AppendTimeline(p)
  BY <1>0, <1>6 DEF AppendTimeline, OpenTimeline, AppendRecord, markerVars
<1>7. CASE PruneOldEvents(p)
  BY <1>0, <1>7 DEF PruneOldEvents, RemoveAged, ReadTimeline, Survivors, OpenTmp,
     TmpInode, WriteTmp, RenameTmp, markerVars
<1>8. CASE GatherLate(p)
  BY <1>0, <1>8 DEF GatherLate, markerVars
<1>9. CASE DropPending(p)
  BY <1>0, <1>9 DEF DropPending, markerVars
<1>10. CASE Ends(p)
  BY <1>0, <1>10 DEF Ends, Fail, MayFail, FailPrune, Die, Killed, markerVars
<1>11. CASE Age(p)
  BY <1>0, <1>11 DEF Age, markerVars
<1>. QED
  BY <1>1, <1>2, <1>3, <1>4, <1>5, <1>6, <1>7, <1>8, <1>9, <1>10, <1>11
     DEF Step, Proceed

(***************************************************************************)
(* MarkersTellLastCapture for any number of captures and fixes, provided   *)
(* they do not overlap and writes to STATE_DIR succeed: whatever the ones  *)
(* before left half set when they were killed, SPD_NOW, NOTICE and         *)
(* baseline.json are those of the last complete one.                       *)
(***************************************************************************)
THEOREM MarkersTellLastCaptureHolds ==
  ASSUME Exclusive = Procs, Faulty = FALSE
  PROVE  Spec => []MarkersTellLastCapture
<1>1. Init => PageInv /\ MarkInv
  BY PageInit, ProcsAssumption DEF Init, MarkInv, MarkedSoFar, OneRunning, Settled, Running
<1>2. TypeOK /\ PageInv /\ MarkInv /\ [Next]_vars => PageInv' /\ MarkInv'
  <2>1. ASSUME MarkInv, UNCHANGED vars
        PROVE  MarkInv'
    BY <2>1 DEF vars, markerVars, localVars, MarkInv, MarkedSoFar, Told, Settled,
       Flagged, OneRunning
  <2>2. Fixes \subseteq Exclusive
    BY ProcsAssumption
  <2>. QED  BY <2>1, <2>2, PageStep, MarkStep DEF Next, Step
<1>3. MarkInv => MarkersTellLastCapture
  BY DEF MarkInv, Told, MarkersTellLastCapture
<1>. QED  BY <1>1, <1>2, <1>3, TypeCorrect, PTL DEF Spec

-----------------------------------------------------------------------------
(***************************************************************************)
(* The inductive invariant behind the refinement.  One capture runs; the   *)
(* inode it writes is the timeline's own while it appends and never the    *)
(* timeline's while it prunes, since a prune's inode is new or a left-over *)
(* that was never renamed; and what a prune leaves out has expired.        *)
(***************************************************************************)
\* p has not appended its record.
Unrecorded(p) ==
  pc[p] \in {"idle", "enter", "evidence", "copy", "unlink", "judge", "hush",
            "log", "page", "notify", "unnotice", "baseline", "late", "lock",
            "append"}

RecordsAppended ==
  /\ \A i \in Inodes : \A p \in data[i] : ~Unrecorded(p)
  /\ \A p \in Procs :
       tmp = p \/ timeline = p => pc[p] \in {"body", "rename"} \union Ended
  /\ tmp # timeline

DirsOfRecords ==
  /\ data[timeline] \subseteq dirs \union aged
  /\ \A p \in Procs :
       /\ pc[p] \in Running \ {"enter", "error"} => p \in dirs
       /\ p \in aged => pc[p] \in Ended

\* What S leaves out of the timeline has expired.
Prunes(S) == S \subseteq data[timeline] /\ data[timeline] \ S \subseteq aged

PruneOnTrack(p) ==
  /\ pc[p] = "append" => handle[p] = timeline
  /\ pc[p] \in {"tmp", "body"} => Prunes(kept[p])
  /\ pc[p] = "body" => tmp # Nobody /\ handle[p] = tmp /\ data[tmp] = {}
  /\ pc[p] = "rename" => tmp # Nobody /\ Prunes(data[tmp])

SerialInv ==
  /\ OneRunning(Procs)
  /\ RecordsAppended
  /\ DirsOfRecords
  /\ \A p \in Procs : PruneOnTrack(p)

LEMMA RecordsAppendedStep ==
  ASSUME TypeOK, SerialInv, NEW p \in Procs, Step(p)
  PROVE  RecordsAppended'
<1> USE ProcsAssumption DEF TypeOK, Inodes, SerialInv, RecordsAppended, Unrecorded,
      PruneOnTrack, Prunes, Goto, Ended, fileVars
<1>1. CASE StartFix(p)
  BY <1>1 DEF StartFix, HandedOver
<1>2. CASE EnterCapture(p)
  BY <1>2 DEF EnterCapture
<1>3. CASE Gather(p)
  BY <1>3 DEF Gather
<1>4. CASE HandOver(p)
  BY <1>4 DEF HandOver, CopyPending, RemovePending
<1>5. CASE SetMarkers(p)
  BY <1>5 DEF SetMarkers, MarkCorrupt, Alarm, NoticeReboot, LogAlert,
     NoticeCurrent, Page, MarkHealthy, DropNotice, NoticeDropped, WriteBaseline
<1>6. CASE AppendTimeline(p)
  <2>1. CASE OpenTimeline(p)
    BY <2>1 DEF OpenTimeline
  <2>2. CASE AppendRecord(p)
    BY <2>2 DEF AppendRecord
  <2>. QED  BY <1>6, <2>1, <2>2 DEF AppendTimeline
<1>7. CASE PruneOldEvents(p)
  <2>1. CASE RemoveAged(p)
    BY <2>1 DEF RemoveAged
  <2>2. CASE ReadTimeline(p)
    BY <2>2 DEF ReadTimeline, Survivors
  <2>3. CASE OpenTmp(p)
    BY <2>3 DEF OpenTmp, TmpInode
  <2>4. CASE WriteTmp(p)
    BY <2>4 DEF WriteTmp
  <2>5. CASE RenameTmp(p)
    BY <2>5 DEF RenameTmp
  <2>. QED  BY <1>7, <2>1, <2>2, <2>3, <2>4, <2>5 DEF PruneOldEvents
<1>8. CASE GatherLate(p)
  BY <1>8 DEF GatherLate
<1>9. CASE DropPending(p)
  BY <1>9 DEF DropPending
<1>10. CASE Ends(p)
  BY <1>10 DEF Ends, Fail, MayFail, FailPrune, Die, Running, Killed
<1>11. CASE Age(p)
  BY <1>11 DEF Age
<1>. QED
  BY <1>1, <1>2, <1>3, <1>4, <1>5, <1>6, <1>7, <1>8, <1>9, <1>10, <1>11
     DEF Step, Proceed

LEMMA DirsOfRecordsStep ==
  ASSUME TypeOK, SerialInv, NEW p \in Procs, Step(p)
  PROVE  DirsOfRecords'
<1> USE ProcsAssumption DEF TypeOK, Inodes, SerialInv, RecordsAppended,
      DirsOfRecords, PruneOnTrack, Prunes, Goto, Saved, Running, Ended,
      fileVars, dirVars
<1>1. CASE StartFix(p)
  BY <1>1 DEF StartFix, HandedOver
<1>2. CASE EnterCapture(p)
  BY <1>2 DEF EnterCapture
<1>3. CASE Gather(p)
  BY <1>3 DEF Gather
<1>4. CASE HandOver(p)
  BY <1>4 DEF HandOver, CopyPending, RemovePending
<1>5. CASE SetMarkers(p)
  BY <1>5 DEF SetMarkers, MarkCorrupt, Alarm, NoticeReboot, LogAlert,
     NoticeCurrent, Page, MarkHealthy, DropNotice, NoticeDropped, WriteBaseline
<1>6. CASE AppendTimeline(p)
  <2>1. CASE OpenTimeline(p)
    BY <2>1 DEF OpenTimeline
  <2>2. CASE AppendRecord(p)
    BY <2>2 DEF AppendRecord
  <2>. QED  BY <1>6, <2>1, <2>2 DEF AppendTimeline
<1>7. CASE PruneOldEvents(p)
  <2>1. CASE RemoveAged(p)
    BY <2>1 DEF RemoveAged
  <2>2. CASE ReadTimeline(p)
    BY <2>2 DEF ReadTimeline, Survivors
  <2>3. CASE OpenTmp(p)
    BY <2>3 DEF OpenTmp, TmpInode
  <2>4. CASE WriteTmp(p)
    BY <2>4 DEF WriteTmp
  <2>5. CASE RenameTmp(p)
    BY <2>5 DEF RenameTmp
  <2>. QED  BY <1>7, <2>1, <2>2, <2>3, <2>4, <2>5 DEF PruneOldEvents
<1>8. CASE GatherLate(p)
  BY <1>8 DEF GatherLate
<1>9. CASE DropPending(p)
  BY <1>9 DEF DropPending
<1>10. CASE Ends(p)
  BY <1>10 DEF Ends, Fail, MayFail, FailPrune, Die, Running, Killed
<1>11. CASE Age(p)
  BY <1>11 DEF Age
<1>. QED
  BY <1>1, <1>2, <1>3, <1>4, <1>5, <1>6, <1>7, <1>8, <1>9, <1>10, <1>11
     DEF Step, Proceed

LEMMA PruneOnTrackStep ==
  ASSUME TypeOK, SerialInv, NEW p \in Procs, NEW q \in Procs, Step(p)
  PROVE  PruneOnTrack(q)'
<1> USE ProcsAssumption DEF TypeOK, Inodes, SerialInv, OneRunning,
      RecordsAppended, DirsOfRecords, PruneOnTrack, Prunes, Goto, Running,
      Ended, fileVars, dirVars, localVars
<1>1. CASE StartFix(p)
  BY <1>1 DEF StartFix, HandedOver
<1>2. CASE EnterCapture(p)
  BY <1>2 DEF EnterCapture
<1>3. CASE Gather(p)
  BY <1>3 DEF Gather
<1>4. CASE HandOver(p)
  BY <1>4 DEF HandOver, CopyPending, RemovePending
<1>5. CASE SetMarkers(p)
  BY <1>5 DEF SetMarkers, MarkCorrupt, Alarm, NoticeReboot, LogAlert,
     NoticeCurrent, Page, MarkHealthy, DropNotice, NoticeDropped, WriteBaseline
<1>6. CASE AppendTimeline(p)
  <2>1. CASE OpenTimeline(p)
    BY <2>1 DEF OpenTimeline
  <2>2. CASE AppendRecord(p)
    BY <2>2 DEF AppendRecord
  <2>. QED  BY <1>6, <2>1, <2>2 DEF AppendTimeline
<1>7. CASE PruneOldEvents(p)
  <2>1. CASE RemoveAged(p)
    BY <2>1 DEF RemoveAged
  <2>2. CASE ReadTimeline(p)
    BY <2>2 DEF ReadTimeline, Survivors
  <2>3. CASE OpenTmp(p)
    BY <2>3 DEF OpenTmp, TmpInode
  <2>4. CASE WriteTmp(p)
    BY <2>4 DEF WriteTmp
  <2>5. CASE RenameTmp(p)
    BY <2>5 DEF RenameTmp
  <2>. QED  BY <1>7, <2>1, <2>2, <2>3, <2>4, <2>5 DEF PruneOldEvents
<1>8. CASE GatherLate(p)
  BY <1>8 DEF GatherLate
<1>9. CASE DropPending(p)
  BY <1>9 DEF DropPending
<1>10. CASE Ends(p)
  BY <1>10 DEF Ends, Fail, MayFail, FailPrune, Die, Running, Killed
<1>11. CASE Age(p)
  BY <1>11 DEF Age
<1>. QED
  BY <1>1, <1>2, <1>3, <1>4, <1>5, <1>6, <1>7, <1>8, <1>9, <1>10, <1>11
     DEF Step, Proceed

\* Every step is one of the log's steps or leaves the log as it is.
LEMMA LogStep ==
  ASSUME TypeOK, SerialInv, NEW p \in Procs, Step(p)
  PROVE  [Log!Next]_(Log!vars)
<1> USE ProcsAssumption DEF TypeOK, Inodes, SerialInv, RecordsAppended,
      DirsOfRecords, PruneOnTrack, Prunes, Unrecorded, Goto, Ended, fileVars,
      dirVars, Log!vars
<1>1. CASE StartFix(p)
  BY <1>1 DEF StartFix, HandedOver
<1>2. CASE EnterCapture(p)
  BY <1>2 DEF EnterCapture
<1>3. CASE Gather(p)
  BY <1>3 DEF Gather
<1>4. CASE HandOver(p)
  BY <1>4 DEF HandOver, CopyPending, RemovePending
<1>5. CASE SetMarkers(p)
  BY <1>5 DEF SetMarkers, MarkCorrupt, Alarm, NoticeReboot, LogAlert,
     NoticeCurrent, Page, MarkHealthy, DropNotice, NoticeDropped, WriteBaseline
<1>6. CASE AppendTimeline(p)
  <2>1. CASE OpenTimeline(p)
    BY <2>1 DEF OpenTimeline
  <2>2. CASE AppendRecord(p)
    <3>1. Log!Record(p)
      BY <2>2 DEF AppendRecord, Log!Record
    <3>. QED  BY <3>1 DEF Log!Next
  <2>. QED  BY <1>6, <2>1, <2>2 DEF AppendTimeline
<1>7. CASE PruneOldEvents(p)
  <2>1. CASE RemoveAged(p)
    BY <2>1 DEF RemoveAged
  <2>2. CASE ReadTimeline(p)
    BY <2>2 DEF ReadTimeline, Survivors
  <2>3. CASE OpenTmp(p)
    BY <2>3 DEF OpenTmp, TmpInode
  <2>4. CASE WriteTmp(p)
    BY <2>4 DEF WriteTmp
  <2>5. CASE RenameTmp(p)
    <3>1. data[tmp] = data[timeline] \ (data[timeline] \ data[tmp])
      BY <2>5 DEF RenameTmp
    <3>2. data[timeline] \ data[tmp] \in SUBSET aged
      BY <2>5 DEF RenameTmp
    <3>3. UNCHANGED aged /\ data[timeline]' = data[tmp]
      BY <2>5 DEF RenameTmp
    <3>4. Log!Forget
      BY <3>1, <3>2, <3>3 DEF Log!Forget
    <3>. QED  BY <3>4 DEF Log!Next
  <2>. QED  BY <1>7, <2>1, <2>2, <2>3, <2>4, <2>5 DEF PruneOldEvents
<1>8. CASE GatherLate(p)
  BY <1>8 DEF GatherLate
<1>9. CASE DropPending(p)
  BY <1>9 DEF DropPending
<1>10. CASE Ends(p)
  BY <1>10 DEF Ends, Fail, MayFail, FailPrune, Die, Running, Killed
<1>11. CASE Age(p)
  <2>1. Log!Expire(p)
    BY <1>11 DEF Age, Log!Expire
  <2>. QED  BY <2>1 DEF Log!Next
<1>. QED
  BY <1>1, <1>2, <1>3, <1>4, <1>5, <1>6, <1>7, <1>8, <1>9, <1>10, <1>11
     DEF Step, Proceed

(***************************************************************************)
(* Captures that do not overlap implement the log: whatever number of them *)
(* ran before, were killed or failed at any file operation, a record is    *)
(* lost only after its event expired.                                      *)
(***************************************************************************)
THEOREM SerialKeepsLog ==
  ASSUME Exclusive = Procs
  PROVE  Spec => KeepsLog
<1>1. Init => SerialInv
  BY ProcsAssumption DEF Init, SerialInv, OneRunning, RecordsAppended,
     DirsOfRecords, PruneOnTrack, Inodes, Running
<1>2. TypeOK /\ SerialInv /\ [Next]_vars => SerialInv'
  <2>1. ASSUME SerialInv, UNCHANGED vars
        PROVE  SerialInv'
    BY <2>1 DEF vars, fileVars, dirVars, localVars, SerialInv, OneRunning,
       RecordsAppended, Unrecorded, DirsOfRecords, PruneOnTrack, Prunes
  <2>2. ASSUME TypeOK, SerialInv, NEW p \in Procs, Step(p)
        PROVE  SerialInv'
    BY <2>2, OneRunningStep, RecordsAppendedStep, DirsOfRecordsStep,
       PruneOnTrackStep DEF SerialInv
  <2>. QED  BY <2>1, <2>2 DEF Next, Step
<1>3. Init => Log!Init
  BY DEF Init, Log!Init, Inodes
<1>4. TypeOK /\ SerialInv /\ [Next]_vars => [Log!Next]_(Log!vars)
  <2>1. ASSUME UNCHANGED vars
        PROVE  UNCHANGED Log!vars
    BY <2>1 DEF vars, fileVars, dirVars, Log!vars
  <2>. QED  BY <2>1, LogStep DEF Next, Step
<1>. QED  BY <1>1, <1>2, <1>3, <1>4, TypeCorrect, PTL DEF Spec, KeepsLog,
   Log!Spec
=============================================================================
