------------------------------- MODULE Capture ------------------------------
(***************************************************************************)
(* The event store of crates/am5-spd-diag/src/capture.rs: capture_event    *)
(* collects evidence into an event directory, sets the marker files of     *)
(* STATE_DIR, pages the user, appends a record to timeline.jsonl and       *)
(* prunes old events; recover_and_record hands the verdict of a fix to it  *)
(* through pending-recover.json.                                           *)
(*                                                                         *)
(* systemd units, the CLI and the window start captures independently.     *)
(* Only the append takes a lock, so every file operation another capture   *)
(* can come between is a step of its own.  A file of one JSON object or    *)
(* one marker is written in one step.  timeline.jsonl is an inode: prune   *)
(* renames another one over it, and a handle opened before keeps the old.  *)
(* It is the set of the records its lines hold; no step here depends on    *)
(* their order.                                                            *)
(***************************************************************************)
EXTENDS FiniteSets

CONSTANTS
  Procs,       \* runs of capture_event; each names its event dir and record
  Fixes,       \* those that recover_and_record starts
  Exclusive,   \* those that never run while another of them runs
  Verdicts,    \* what the evidence of this machine may say
  Faulty,      \* TRUE: a write to STATE_DIR may fail
  Original,    \* the inode timeline.jsonl has at first
  Nobody       \* no process, no file, no content

ASSUME ProcsAssumption ==
  /\ Fixes \subseteq Procs
  /\ Exclusive \subseteq Procs
  /\ Original \notin Procs
  /\ Nobody \notin Procs \union {Original}
ASSUME VerdictsAssumption == Verdicts \subseteq {"flagged", "clean", "blank"}
ASSUME FaultyAssumption == Faulty \in BOOLEAN

\* An inode is named after the prune that created it.
Inodes == Procs \union {Original}

Ended   == {"done", "failed", "killed"}
Running == {"enter", "evidence", "copy", "unlink", "judge", "hush", "log",
            "page", "notify", "unnotice", "baseline", "late", "lock", "append",
            "expire", "read", "tmp", "body", "rename", "error"}

VARIABLES
  timeline,  \* the inode behind timeline.jsonl
  tmp,       \* the inode behind timeline.jsonl.tmp, or Nobody
  data,      \* [Inodes -> SUBSET Procs]: the records each inode holds
  lock,      \* who holds the flock on timeline.lock
  pending,   \* whose verdict pending-recover.json holds
  spdNow,    \* SPD_NOW
  notice,    \* NOTICE: none, "reboot to finish the fix", "corruption is current"
  alerts,    \* captures with an entry in ALERTS.log
  baseline,  \* the capture baseline.json was written by
  dirs,      \* captures whose event directory exists
  aged,      \* captures older than KEEP_DAYS
  pc,        \* [Procs -> step of capture_event]
  verdict,   \* [Procs -> Verdicts or "none"]: what the evidence said
  recover,   \* [Procs -> whose verdict recover.json in the event dir holds]
  handle,    \* [Procs -> the inode p has open for writing]
  kept,      \* [Procs -> the records prune_old_events means to keep]
  cleared,   \* fixes that ended with a verified clear (ok: true)
  paged,     \* history: captures that broadcast to the user
  last       \* history: the capture that completed last, with none started since

fileVars   == <<timeline, tmp, data>>
markerVars == <<spdNow, notice, alerts, baseline>>
dirVars    == <<dirs, aged>>
localVars  == <<verdict, recover, handle, kept, cleared, paged>>
vars == <<fileVars, lock, pending, markerVars, dirVars, pc, localVars, last>>

TypeOK ==
  /\ timeline \in Inodes
  /\ tmp \in Procs \union {Nobody}
  /\ data \in [Inodes -> SUBSET Procs]
  /\ lock \in Procs \union {Nobody}
  /\ pending \in Fixes \union {Nobody}
  /\ spdNow \in {"none", "healthy", "corrupt"}
  /\ notice \in {"none", "reboot", "current"}
  /\ alerts \subseteq Procs
  /\ baseline \in Procs \union {Nobody}
  /\ dirs \subseteq Procs
  /\ aged \subseteq Procs
  /\ pc \in [Procs -> {"idle"} \union Running \union Ended]
  /\ verdict \in [Procs -> Verdicts \union {"none"}]
  /\ recover \in [Procs -> Fixes \union {Nobody}]
  /\ handle \in [Procs -> Inodes \union {Nobody}]
  /\ kept \in [Procs -> SUBSET Procs]
  /\ cleared \subseteq Fixes
  /\ paged \subseteq Procs
  /\ last \in Procs \union {Nobody}

Init ==
  /\ timeline = Original
  /\ tmp = Nobody
  /\ data = [i \in Inodes |-> {}]
  /\ lock = Nobody
  /\ pending = Nobody
  /\ spdNow = "none"
  /\ notice = "none"
  /\ alerts = {}
  /\ baseline = Nobody
  /\ dirs = {}
  /\ aged = {}
  /\ pc = [p \in Procs |-> "idle"]
  /\ verdict = [p \in Procs |-> "none"]
  /\ recover = [p \in Procs |-> Nobody]
  /\ handle = [p \in Procs |-> Nobody]
  /\ kept = [p \in Procs |-> {}]
  /\ cleared = {}
  /\ paged = {}
  /\ last = Nobody

-----------------------------------------------------------------------------

Goto(p, step) == pc' = [pc EXCEPT ![p] = step]

\* What a file holds after `let _ = write_nofollow(..)`: errors are ignored.
Saved(old, new) == {new} \union (IF Faulty THEN {old} ELSE {})

\* Whoever starts p waits for the other exclusive captures.
MayStart(p) ==
  p \in Exclusive => \A q \in Exclusive : pc[q] \notin Running

\* MUTANT: keep a verdict that is still pending.
HandedOverOnce(p) == IF pending = Nobody THEN Saved(pending, p) ELSE {pending}

\* The content of pending-recover.json after recover_and_record wrote it.
HandedOver(p) == Saved(pending, p)

\* recover_and_record: recover_stuck has ended, its verdict becomes pending.
StartFix(p) ==
  /\ p \in Fixes
  /\ pc[p] = "idle"
  /\ MayStart(p)
  /\ cleared' \in {cleared, cleared \union {p}}
  /\ pending' \in HandedOver(p)
  /\ Goto(p, "enter")
  /\ last' = Nobody
  /\ UNCHANGED <<fileVars, lock, markerVars, dirVars, verdict, recover,
                 handle, kept, paged>>

\* capture_event makes its event directory.
EnterCapture(p) ==
  /\ \/ p \in Fixes /\ pc[p] = "enter"
     \/ p \notin Fixes /\ pc[p] = "idle" /\ MayStart(p)
  /\ dirs' = dirs \union {p}
  /\ Goto(p, "evidence")
  /\ last' = Nobody
  /\ UNCHANGED <<fileVars, lock, pending, markerVars, aged, localVars>>

\* SMBIOS, hubs and kernel log are read into the event directory.
Gather(p) ==
  /\ pc[p] = "evidence"
  /\ \E v \in Verdicts : verdict' = [verdict EXCEPT ![p] = v]
  /\ Goto(p, IF p \in Fixes THEN "copy" ELSE "judge")
  /\ UNCHANGED <<fileVars, lock, pending, markerVars, dirVars, recover,
                 handle, kept, cleared, paged, last>>

CopyPending(p) ==
  /\ pc[p] = "copy"
  /\ \/ /\ pending = Nobody
        /\ Goto(p, "judge")
        /\ UNCHANGED recover
     \/ /\ pending # Nobody
        /\ Goto(p, "unlink")
        /\ \E r \in Saved(Nobody, pending) :
             recover' = [recover EXCEPT ![p] = r]
  /\ UNCHANGED <<fileVars, lock, pending, markerVars, dirVars, verdict,
                 handle, kept, cleared, paged, last>>

RemovePending(p) ==
  /\ pc[p] = "unlink"
  /\ pending' = Nobody
  /\ Goto(p, "judge")
  /\ UNCHANGED <<fileVars, lock, markerVars, dirVars, localVars, last>>

-----------------------------------------------------------------------------
(* Markers and the page. *)

\* flags is not empty.
Flagged(p) == verdict[p] = "flagged"

\* skip_corruption_broadcast: recover.json says ok.
HushFixNotice(p) == p \in Fixes /\ recover[p] \in cleared

\* MUTANT: no page for any fix, verified or not.
AlarmHushesEveryFix(p) == IF p \in Fixes THEN "hush" ELSE "log"

\* The alarm a flagged capture raises.
Alarm(p) == IF HushFixNotice(p) THEN "hush" ELSE "log"

MarkCorrupt(p) ==
  /\ pc[p] = "judge"
  /\ Flagged(p)
  /\ spdNow' \in Saved(spdNow, "corrupt")
  /\ Goto(p, Alarm(p))
  /\ UNCHANGED <<fileVars, lock, pending, notice, alerts, baseline, dirVars,
                 localVars, last>>

NoticeReboot(p) ==
  /\ pc[p] = "hush"
  /\ notice' \in Saved(notice, "reboot")
  /\ Goto(p, "late")
  /\ UNCHANGED <<fileVars, lock, pending, spdNow, alerts, baseline, dirVars,
                 localVars, last>>

LogAlert(p) ==
  /\ pc[p] = "log"
  /\ alerts' = alerts \union {p}
  /\ Goto(p, "page")
  /\ UNCHANGED <<fileVars, lock, pending, spdNow, notice, baseline, dirVars,
                 localVars, last>>

NoticeCurrent(p) ==
  /\ pc[p] = "page"
  /\ notice' \in Saved(notice, "current")
  /\ Goto(p, "notify")
  /\ UNCHANGED <<fileVars, lock, pending, spdNow, alerts, baseline, dirVars,
                 localVars, last>>

\* notify_all has returned: it waits for logger and wall.
Page(p) ==
  /\ pc[p] = "notify"
  /\ paged' = paged \union {p}
  /\ Goto(p, "late")
  /\ UNCHANGED <<fileVars, lock, pending, markerVars, dirVars, verdict,
                 recover, handle, kept, cleared, last>>

MarkHealthy(p) ==
  /\ pc[p] = "judge"
  /\ ~Flagged(p)
  /\ spdNow' \in Saved(spdNow, "healthy")
  /\ Goto(p, "unnotice")
  /\ UNCHANGED <<fileVars, lock, pending, notice, alerts, baseline, dirVars,
                 localVars, last>>

\* MUTANT: a healthy capture leaves NOTICE alone.
NoticeKept(p) == Saved(notice, notice)

\* NOTICE once a healthy capture has removed it.
NoticeDropped(p) == Saved(notice, "none")

DropNotice(p) ==
  /\ pc[p] = "unnotice"
  /\ notice' \in NoticeDropped(p)
  /\ Goto(p, "baseline")
  /\ UNCHANGED <<fileVars, lock, pending, spdNow, alerts, baseline, dirVars,
                 localVars, last>>

WriteBaseline(p) ==
  /\ pc[p] = "baseline"
  /\ baseline' \in Saved(baseline, p)
  /\ Goto(p, "late")
  /\ UNCHANGED <<fileVars, lock, pending, spdNow, notice, alerts, dirVars,
                 localVars, last>>

\* The kernel log and the memory map are read once the markers are set.
GatherLate(p) ==
  /\ pc[p] = "late"
  /\ Goto(p, "lock")
  /\ UNCHANGED <<fileVars, lock, pending, markerVars, dirVars, localVars, last>>

-----------------------------------------------------------------------------
(* The timeline. *)

\* append_timeline: flock, then open the file the name leads to.
OpenTimeline(p) ==
  /\ pc[p] = "lock"
  /\ lock = Nobody
  /\ lock' = p
  /\ handle' = [handle EXCEPT ![p] = timeline]
  /\ Goto(p, "append")
  /\ UNCHANGED <<fileVars, pending, markerVars, dirVars, verdict, recover,
                 kept, cleared, paged, last>>

\* The line is written to the open file; the lock goes with its descriptor.
AppendRecord(p) ==
  /\ pc[p] = "append"
  /\ data' = [data EXCEPT ![handle[p]] = @ \union {p}]
  /\ lock' = Nobody
  /\ handle' = [handle EXCEPT ![p] = Nobody]
  /\ Goto(p, "expire")
  /\ UNCHANGED <<timeline, tmp, pending, markerVars, dirVars, verdict,
                 recover, kept, cleared, paged, last>>

\* prune_old_events, without the lock: first the old directories go ...
RemoveAged(p) ==
  /\ pc[p] = "expire"
  /\ \E stay \in Saved(dirs, dirs \ aged) : dirs' = stay
  /\ Goto(p, "read")
  /\ UNCHANGED <<fileVars, lock, pending, markerVars, aged, localVars, last>>

\* MUTANT: keep the records of the directories that are gone.
SurvivorsInverted(S) == S \ dirs

\* Records whose event directory still exists.
Survivors(S) == S \intersect dirs

\* ... then the timeline is read and filtered ...
ReadTimeline(p) ==
  /\ pc[p] = "read"
  /\ kept' = [kept EXCEPT ![p] = Survivors(data[timeline])]
  /\ Goto(p, "tmp")
  /\ UNCHANGED <<fileVars, lock, pending, markerVars, dirVars, verdict,
                 recover, handle, cleared, paged, last>>

\* MUTANT: rewrite timeline.jsonl in place.
TmpInodeInPlace(p) == timeline

\* open(O_CREAT | O_TRUNC) of the one timeline.jsonl.tmp: another prune, alive
\* or killed, may have left its inode there.
TmpInode(p) == IF tmp = Nobody THEN p ELSE tmp

\* ... timeline.jsonl.tmp is opened and truncated ...
OpenTmp(p) ==
  /\ pc[p] = "tmp"
  /\ tmp' = TmpInode(p)
  /\ data' = [data EXCEPT ![TmpInode(p)] = {}]
  /\ handle' = [handle EXCEPT ![p] = TmpInode(p)]
  /\ Goto(p, "body")
  /\ UNCHANGED <<timeline, lock, pending, markerVars, dirVars, verdict,
                 recover, kept, cleared, paged, last>>

\* ... written from offset 0: of what another process wrote there meanwhile,
\* lines beyond the length of the body survive ...
WriteTmp(p) ==
  /\ pc[p] = "body"
  /\ \E tail \in SUBSET data[handle[p]] :
       data' = [data EXCEPT ![handle[p]] = kept[p] \union tail]
  /\ handle' = [handle EXCEPT ![p] = Nobody]
  /\ Goto(p, "rename")
  /\ UNCHANGED <<timeline, tmp, lock, pending, markerVars, dirVars, verdict,
                 recover, kept, cleared, paged, last>>

\* ... and renamed over the timeline, unless another prune took the name.
RenameTmp(p) ==
  /\ pc[p] = "rename"
  /\ timeline' = IF tmp = Nobody THEN timeline ELSE tmp
  /\ tmp' = Nobody
  /\ last' = p
  /\ Goto(p, "done")
  /\ UNCHANGED <<data, lock, pending, markerVars, dirVars, localVars>>

-----------------------------------------------------------------------------
(* Failure. *)

\* Steps whose error leaves capture_event by `?`; "page" is the last line of
\* the entry in ALERTS.log.
MayFail == {"enter", "log", "page", "lock", "append"}

Fail(p) ==
  /\ Faulty
  /\ pc[p] \in MayFail
  /\ Goto(p, IF p \in Fixes THEN "error" ELSE "failed")
  /\ lock' = IF lock = p THEN Nobody ELSE lock
  /\ handle' = [handle EXCEPT ![p] = Nobody]
  /\ UNCHANGED <<fileVars, pending, markerVars, dirVars, verdict, recover,
                 kept, cleared, paged, last>>

\* recover_and_record drops what is pending when capture_event failed.
DropPending(p) ==
  /\ pc[p] = "error"
  /\ pending' = Nobody
  /\ Goto(p, "failed")
  /\ UNCHANGED <<fileVars, lock, markerVars, dirVars, localVars, last>>

\* The timeline cannot be read or its tmp file not written: the prune gives up,
\* the capture is complete.
FailPrune(p) ==
  /\ Faulty
  /\ pc[p] \in {"read", "tmp", "body"}
  /\ handle' = [handle EXCEPT ![p] = Nobody]
  /\ last' = p
  /\ Goto(p, "done")
  /\ UNCHANGED <<fileVars, lock, pending, markerVars, dirVars, verdict,
                 recover, kept, cleared, paged>>

\* MUTANT: a lock that outlives the process, like a lock file.
LockAfterDeathStale(p) == lock

\* The kernel drops the flock of a process that dies.
LockAfterDeath(p) == IF lock = p THEN Nobody ELSE lock

\* A process ends at any step, and with it its descriptors.
Die(p) ==
  /\ pc[p] \in Running
  /\ Goto(p, "killed")
  /\ lock' = LockAfterDeath(p)
  /\ handle' = [handle EXCEPT ![p] = Nobody]
  /\ UNCHANGED <<fileVars, pending, markerVars, dirVars, verdict, recover,
                 kept, cleared, paged, last>>

\* `timeout`, Ctrl-C, a closed session, the shutdown of the machine.  None of
\* them need come: a fix has no time limit, and where `timeout` cannot be
\* spawned capture_main runs the capture without one.
Killed(p) == Die(p)

\* Sixty days pass.
Age(p) ==
  /\ pc[p] \in Ended
  /\ p \in dirs \ aged
  /\ aged' = aged \union {p}
  /\ UNCHANGED <<fileVars, lock, pending, markerVars, dirs, pc, localVars, last>>

-----------------------------------------------------------------------------

HandOver(p) == CopyPending(p) \/ RemovePending(p)

SetMarkers(p) ==
  \/ MarkCorrupt(p)
  \/ NoticeReboot(p)
  \/ LogAlert(p)
  \/ NoticeCurrent(p)
  \/ Page(p)
  \/ MarkHealthy(p)
  \/ DropNotice(p)
  \/ WriteBaseline(p)

AppendTimeline(p) == OpenTimeline(p) \/ AppendRecord(p)

PruneOldEvents(p) ==
  \/ RemoveAged(p)
  \/ ReadTimeline(p)
  \/ OpenTmp(p)
  \/ WriteTmp(p)
  \/ RenameTmp(p)

\* A capture once its first evidence is in.
Proceed(p) ==
  \/ HandOver(p)
  \/ SetMarkers(p)
  \/ GatherLate(p)
  \/ AppendTimeline(p)
  \/ PruneOldEvents(p)
  \/ DropPending(p)

Ends(p) == Fail(p) \/ FailPrune(p) \/ Killed(p)

Step(p) ==
  \/ StartFix(p)
  \/ EnterCapture(p)
  \/ Gather(p)
  \/ Proceed(p)
  \/ Ends(p)
  \/ Age(p)

Next == \E p \in Procs : Step(p)

Spec == Init /\ [][Next]_vars

\* Only file operations go on by themselves: commands, bus reads and the page
\* may hang for ever, and nothing need end them.
FairSpec ==
  /\ Spec
  /\ \A p \in Procs : WF_vars(AppendTimeline(p))
  /\ \A p \in Procs : WF_vars(PruneOldEvents(p))
  /\ \A p \in Procs : WF_vars(DropPending(p))

-----------------------------------------------------------------------------
(* Safety. *)

\* p has raised its alarm or found nothing to raise one for.
Settled(p) ==
  pc[p] \in {"late", "lock", "append", "expire", "read", "tmp", "body", "rename",
            "done"}

(***************************************************************************)
(* No record of a corrupt machine without its alarm: a flagged capture     *)
(* that any file of the timeline names has its entry in ALERTS.log or took *)
(* its silence from a recover.json that reports a verified clear, however  *)
(* captures overlap, fail and die.                                         *)
(***************************************************************************)
AlarmBeforeRecord ==
  \A i \in Inodes : \A p \in data[i] :
    Flagged(p) => p \in alerts \/ (p \in Fixes /\ recover[p] \in cleared)

(***************************************************************************)
(* With one fix at a time the page is skipped for exactly those flagged    *)
(* captures whose own fix was verified, whatever earlier, killed fixes     *)
(* left in pending-recover.json (skip_corruption_broadcast).               *)
(***************************************************************************)
PagedUnlessCleared ==
  \A p \in Procs :
    Settled(p) /\ Flagged(p) => (p \in paged) = (p \notin cleared)

(***************************************************************************)
(* When captures do not overlap, the marker files the status reads tell    *)
(* what the last complete capture saw, even after captures that died       *)
(* between two of these files.                                             *)
(***************************************************************************)
MarkersTellLastCapture ==
  last # Nobody =>
    IF Flagged(last)
    THEN /\ spdNow = "corrupt"
         /\ notice = IF last \in cleared THEN "reboot" ELSE "current"
    ELSE spdNow = "healthy" /\ notice = "none" /\ baseline = last

\* The timeline as the analysis may rely on it.
Log == INSTANCE EventLog WITH
         Events <- Procs, log <- data[timeline], expired <- aged

(***************************************************************************)
(* When captures do not overlap, the timeline is that log: kills between   *)
(* any two file operations and stale tmp files lose no record.             *)
(***************************************************************************)
KeepsLog == Log!Spec

(***************************************************************************)
(* `fix --help`: "Records a `recover` timeline event (hub.json +           *)
(* recover.json) so analyze can credit the in-band clear."                 *)
(***************************************************************************)
FixOnRecord ==
  \A f \in Fixes : pc[f] = "done" /\ f \notin aged => f \in data[timeline]

(***************************************************************************)
(* config/default.conf: installed capacity "is taken from the last healthy *)
(* capture (baseline.json)".                                               *)
(***************************************************************************)
BaselineIsHealthy == baseline # Nobody => verdict[baseline] = "clean"

-----------------------------------------------------------------------------
(* Liveness, under FairSpec. *)

(***************************************************************************)
(* Whoever comes to append its record ends, though any other capture may   *)
(* hang before its own append, fail or die, and may die with the lock:     *)
(* nobody waits for ever on timeline.lock (append_timeline).               *)
(***************************************************************************)
AppendEnds ==
  \A p \in Procs : pc[p] = "lock" ~> pc[p] \in Ended
=============================================================================
