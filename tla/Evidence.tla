------------------------------ MODULE Evidence ------------------------------
(***************************************************************************)
(* What users make of the captured evidence: report and package (live or   *)
(* from an archive), the results window with its Package and Fix buttons,  *)
(* fix and purge, while the units capture and prune.  Source:              *)
(* bin/am5-spd-diag.rs, analyze.rs, purge.rs, paths.rs, and main.rs and    *)
(* gtk_api.rs of am5-spd-diag-notify.                                      *)
(*                                                                         *)
(* Events are numbered in the order of their captures; an event is a       *)
(* record in timeline.jsonl and a directory under events/.  What a capture *)
(* writes into them is module Capture, which of them a package takes       *)
(* without --all and when the Fix button is offered are Lifecycle.         *)
(***************************************************************************)
EXTENDS Naturals, FiniteSets

CONSTANTS
  Users,      \* each runs one command or one window
  Roots,      \* the users that are root
  Homes,      \* directories for documents below a home
  Home,       \* each user's; root under sudo has its caller's
  Units,      \* processes of the capture units
  Menu,       \* what each user may do
  MaxEvents,  \* bound: captures
  MaxDocs     \* bound: documents made

ASSUME EvidenceAssumption ==
  /\ Roots \subseteq Users
  /\ Users \intersect Units = {}
  /\ Home \in [Users -> Homes]
  /\ Menu \in [Users -> SUBSET {"report", "package", "window", "archive", "fix", "purge"}]
  /\ MaxEvents \in Nat /\ MaxDocs \in Nat

VARIABLES
  tree,   \* /var/log/am5-spd-diag exists
  dirs,   \* events with a directory
  line,   \* events with a record
  born,   \* events so far
  docs,   \* reports and packages on disk
  pc,     \* what each process does next
  what,   \* the command it runs
  snap,   \* a snapshot was asked for
  ev,     \* the event it captured last
  kept,   \* records its prune has read
  got,    \* events it has loaded
  pack,   \* the package it stages
  offers, \* its Fix button is sensitive
  old,    \* history: events complete when its purge began
  wiped,  \* history: its purge has wiped the tree and made it anew
  gone,   \* history: events that lost their directory or record
  back,   \* history: records a prune put back
  agreed  \* history: its user's answer to the last question, until acted on

treeVars == <<tree, dirs, line, gone, back>>
fixVars  == <<offers, agreed>>
purgeVars == <<old, wiped>>
userVars == <<what, snap, got, pack, fixVars, purgeVars>>
vars     == <<treeVars, born, docs, pc, ev, kept, userVars>>

Procs  == Users \union Units
Events == 1..MaxEvents
Places == {"tree", "home"}
\* torn: history, events whose record or directory could not be copied.
Pack   == [at : Places, report : BOOLEAN, line : SUBSET Events, wants : SUBSET Events,
           full : SUBSET Events, torn : SUBSET Events]
Doc    == [kind : {"report", "package"}, home : Homes, snap : BOOLEAN, fresh : 0..MaxEvents,
           tells : SUBSET Events, pack : Pack]

Empty(place) ==
  [at |-> place, report |-> FALSE, line |-> {}, wants |-> {}, full |-> {}, torn |-> {}]

TypeOK ==
  /\ tree \in BOOLEAN
  /\ dirs \subseteq Events /\ line \subseteq Events /\ born \in 0..MaxEvents
  /\ docs \subseteq Doc
  /\ pc \in [Procs -> {"idle", "capture", "append", "prune", "rename", "load", "write",
                       "stage", "chain", "copy", "tar", "open", "dialog", "auth", "wipe",
                       "rmdir", "create", "home", "done", "failed"}]
  /\ what \in [Procs -> {"report", "package", "window", "archive", "fix", "purge", "none"}]
  /\ snap \in [Procs -> BOOLEAN]
  /\ ev \in [Procs -> 0..MaxEvents]
  /\ kept \in [Procs -> SUBSET Events]
  /\ got \in [Procs -> SUBSET Events]
  /\ pack \in [Procs -> Pack]
  /\ offers \in [Procs -> BOOLEAN]
  /\ old \in [Procs -> SUBSET Events] /\ wiped \in [Procs -> BOOLEAN]
  /\ gone \subseteq Events /\ back \subseteq Events
  /\ agreed \in [Procs -> BOOLEAN]

Init ==
  /\ tree = TRUE /\ dirs = {} /\ line = {} /\ born = 0 /\ docs = {}
  /\ gone = {} /\ back = {}
  /\ pc = [p \in Procs |-> "idle"]
  /\ what = [p \in Procs |-> "none"]
  /\ snap = [p \in Procs |-> FALSE]
  /\ ev = [p \in Procs |-> 0]
  /\ kept = [p \in Procs |-> {}]
  /\ got = [p \in Procs |-> {}]
  /\ pack = [p \in Procs |-> Empty("home")]
  /\ offers = [p \in Procs |-> FALSE]
  /\ old = [p \in Procs |-> {}]
  /\ wiped = [p \in Procs |-> FALSE]
  /\ agreed = [p \in Procs |-> FALSE]

Goes(p, from, to) == pc[p] = from /\ pc' = [pc EXCEPT ![p] = to]

-----------------------------------------------------------------------------
(* Captures, by a unit, a snapshot or the fix helper. *)

\* MUTANT: the exit code of the snapshot is not looked at.
AfterAnyCapture(p, ok) ==
  CASE what[p] = "none"                     -> "idle"
    [] what[p] \in {"report", "package"}    -> "load"
    [] what[p] = "window"                   -> IF ok THEN "load" ELSE "open"
    [] OTHER                                -> IF ok THEN "done" ELSE "failed"

\* Where a command goes on when its capture has ended.
AfterCapture(p, ok) ==
  CASE what[p] = "none"                     -> "idle"
    [] what[p] \in {"report", "package"}    -> IF ok THEN "load" ELSE "failed"
    [] what[p] = "window"                   -> IF ok THEN "load" ELSE "open"
    [] OTHER                                -> IF ok THEN "done" ELSE "failed"

UnitStarts(p) ==
  /\ p \in Units
  /\ Goes(p, "idle", "capture")
  /\ UNCHANGED <<treeVars, born, docs, ev, kept, userVars>>

\* MUTANT: the record is numbered after the directory.
MakeDirOnly(p) ==
  /\ Goes(p, "capture", "append")
  /\ born < MaxEvents
  /\ born' = born + 1
  /\ ev' = [ev EXCEPT ![p] = born' + 1]
  /\ tree' = TRUE
  /\ dirs' = dirs \union {born'}
  /\ UNCHANGED <<line, gone, back, docs, kept, userVars>>

\* ensure_dir makes every missing directory on the way.
MakeDir(p) ==
  /\ Goes(p, "capture", "append")
  /\ born < MaxEvents
  /\ born' = born + 1
  /\ ev' = [ev EXCEPT ![p] = born']
  /\ tree' = TRUE
  /\ dirs' = dirs \union {born'}
  /\ UNCHANGED <<line, gone, back, docs, kept, userVars>>

\* polkit says no, the helper is not installed, timeout, disk full.
CaptureFails(p) ==
  /\ pc[p] \in {"capture", "append"}
  /\ pc' = [pc EXCEPT ![p] = AfterCapture(p, FALSE)]
  /\ UNCHANGED <<treeVars, born, docs, ev, kept, userVars>>

AppendRecord(p) ==
  /\ Goes(p, "append", "prune")
  /\ tree' = TRUE
  /\ line' = line \union {ev[p]}
  /\ UNCHANGED <<dirs, gone, back, born, docs, ev, kept, userVars>>

\* Directories older than KEEP_DAYS go; the records of those left are read.
PruneDirs(p) ==
  /\ Goes(p, "prune", "rename")
  /\ \E aged \in SUBSET {e \in dirs : e < ev[p]} :
       /\ dirs' = dirs \ aged
       /\ gone' = gone \union aged
  /\ kept' = [kept EXCEPT ![p] = line \intersect dirs']
  /\ UNCHANGED <<tree, line, back, born, docs, ev, userVars>>

\* The copy replaces the timeline, whatever happened to that since.
PruneRename(p) ==
  /\ pc[p] = "rename"
  /\ pc' = [pc EXCEPT ![p] = AfterCapture(p, TRUE)]
  /\ IF tree
     THEN /\ line' = kept[p]
          /\ gone' = gone \union (line \ kept[p])
          /\ back' = back \union (kept[p] \ line)
     ELSE UNCHANGED <<line, gone, back>>
  /\ kept' = [kept EXCEPT ![p] = {}]
  /\ ev' = [ev EXCEPT ![p] = IF snap[p] THEN @ ELSE 0]
  /\ UNCHANGED <<tree, dirs, born, docs, userVars>>

-----------------------------------------------------------------------------
(* Commands that read: report, package and the pages of the window. *)

StartsReading(p) ==
  \E w \in Menu[p] \intersect {"report", "package"}, s \in BOOLEAN :
    /\ Goes(p, "idle", IF s THEN "capture" ELSE "load")
    /\ what' = [what EXCEPT ![p] = w]
    /\ snap' = [snap EXCEPT ![p] = s]
    /\ UNCHANGED <<treeVars, born, docs, ev, kept, got, pack, fixVars, purgeVars>>

OpensWindow(p) ==
  /\ "window" \in Menu[p]
  /\ Goes(p, "idle", "load")
  /\ what' = [what EXCEPT ![p] = "window"]
  /\ UNCHANGED <<treeVars, born, docs, ev, kept, snap, got, pack, fixVars, purgeVars>>

\* open_package unpacks it into a directory of the process's own.
Archives == {d.pack : d \in {e \in docs : e.kind = "package"}}

\* --from.
OpensArchive(p) ==
  /\ "archive" \in Menu[p]
  /\ Goes(p, "idle", "load")
  /\ what' = [what EXCEPT ![p] = "archive"]
  /\ \E package \in Archives : pack' = [pack EXCEPT ![p] = package]
  /\ UNCHANGED <<treeVars, born, docs, ev, kept, snap, got, fixVars, purgeVars>>

\* load_timeline; what the pages of a window have loaded is not kept.
Loaded(p) == IF what[p] \in {"report", "package"} THEN line ELSE {}

\* The window's buttons are set afterwards.
Load(p) ==
  /\ pc[p] = "load"
  /\ got' = [got EXCEPT ![p] = Loaded(p)]
  /\ \/ /\ what[p] = "report"
        /\ pc' = [pc EXCEPT ![p] = "write"]
        /\ UNCHANGED fixVars
     \/ /\ what[p] = "package"
        /\ pc' = [pc EXCEPT ![p] = "stage"]
        /\ UNCHANGED fixVars
     \/ /\ what[p] \in {"window", "archive"}
        /\ pc' = [pc EXCEPT ![p] = "open"]
        /\ \E b \in {FALSE, what[p] = "window"} : offers' = [offers EXCEPT ![p] = b]
        /\ UNCHANGED agreed
  /\ UNCHANGED <<treeVars, born, docs, ev, kept, what, snap, pack, purgeVars>>

\* Root writes below the tree if it can, everybody below the user's directory.
MayWrite(p) == IF p \in Roots THEN {"tree", "home"} ELSE {"home"}

Made(p, kind, package) ==
  [kind |-> kind, home |-> Home[p], snap |-> snap[p], fresh |-> ev[p], tells |-> got[p],
   pack |-> package]

\* What a command leaves behind when it has made its document or failed to.
Forgets(p) ==
  /\ ev' = [ev EXCEPT ![p] = 0]
  /\ got' = [got EXCEPT ![p] = {}]
  /\ pack' = [pack EXCEPT ![p] = Empty("home")]

\* write_report: a report that can be written nowhere is lost without an error.
WriteReport(p) ==
  /\ Goes(p, "write", "done")
  /\ Cardinality(docs) < MaxDocs
  /\ \/ \E place \in MayWrite(p) :
          /\ docs' = docs \union {Made(p, "report", Empty(place))}
          /\ tree' = (tree \/ place = "tree")
     \/ UNCHANGED <<docs, tree>>
  /\ Forgets(p)
  /\ UNCHANGED <<dirs, line, gone, back, born, kept, what, snap, fixVars, purgeVars>>

\* write_report inside the package falls back to the user's directory, too.
ReportStrays(p) ==
  \/ UNCHANGED docs
  \/ /\ Cardinality(docs) < MaxDocs
     /\ docs' = docs \union {Made(p, "report", Empty("home"))}

\* make_package: the place, then the report and a copy of the timeline; a full
\* disk or an unreadable file is not noticed.
Stage(p) ==
  /\ Goes(p, "stage", "chain")
  /\ \E place \in MayWrite(p), written \in BOOLEAN, copied \in SUBSET line :
       /\ tree' = (tree \/ place = "tree")
       /\ IF written THEN UNCHANGED docs ELSE ReportStrays(p)
       /\ pack' = [pack EXCEPT ![p] =
            [Empty(place) EXCEPT !.report = written, !.line = copied, !.torn = line \ copied]]
  /\ UNCHANGED <<dirs, line, gone, back, born, ev, kept, what, snap, got, fixVars, purgeVars>>

\* MUTANT: the newest event is left out.
ChainButNewest(p) ==
  /\ Goes(p, "chain", "copy")
  /\ pack' = [pack EXCEPT ![p].wants = {e \in got[p] \intersect dirs : \E f \in got[p] : f > e}]
  /\ UNCHANGED <<treeVars, born, docs, ev, kept, what, snap, got, fixVars, purgeVars>>

\* chain_dirs with --all.
Chain(p) ==
  /\ Goes(p, "chain", "copy")
  /\ pack' = [pack EXCEPT ![p].wants = got[p] \intersect dirs]
  /\ UNCHANGED <<treeVars, born, docs, ev, kept, what, snap, got, fixVars, purgeVars>>

\* copy_dir_all: a directory that has gone since is an empty one in the package,
\* and one that cannot be copied in full is no error either.
CopyDirs(p) ==
  /\ Goes(p, "copy", "tar")
  /\ \E copied \in SUBSET (pack[p].wants \intersect dirs) :
       pack' = [pack EXCEPT ![p].full = copied,
                            ![p].torn = @ \union ((pack[p].wants \intersect dirs) \ copied)]
  /\ UNCHANGED <<treeVars, born, docs, ev, kept, what, snap, got, fixVars, purgeVars>>

AfterPackage(p, ok) == IF what[p] = "window" THEN "open" ELSE IF ok THEN "done" ELSE "failed"

WriteTar(p) ==
  /\ pc[p] = "tar"
  /\ Cardinality(docs) < MaxDocs
  /\ pack[p].at = "tree" => tree
  /\ docs' = docs \union {Made(p, "package", pack[p])}
  /\ pc' = [pc EXCEPT ![p] = AfterPackage(p, TRUE)]
  /\ Forgets(p)
  /\ UNCHANGED <<treeVars, born, kept, what, snap, fixVars, purgeVars>>

\* No place, no room, or the place has gone.
PackageFails(p) ==
  /\ pc[p] \in {"stage", "tar"}
  /\ pc' = [pc EXCEPT ![p] = AfterPackage(p, FALSE)]
  /\ Forgets(p)
  /\ UNCHANGED <<treeVars, born, docs, kept, what, snap, fixVars, purgeVars>>

-----------------------------------------------------------------------------
(* The open window. *)

PressesPage(p) ==
  /\ Goes(p, "open", "load")
  /\ UNCHANGED <<treeVars, born, docs, ev, kept, userVars>>

\* Insensitive while an archive is shown.
PressesPackage(p) ==
  /\ what[p] = "window"
  /\ Goes(p, "open", "stage")
  /\ Cardinality(docs) < MaxDocs
  /\ got' = [got EXCEPT ![p] = line]
  /\ UNCHANGED <<treeVars, born, docs, ev, kept, what, snap, pack, fixVars, purgeVars>>

PressesFix(p) ==
  /\ offers[p]
  /\ Goes(p, "open", "dialog")
  /\ UNCHANGED <<treeVars, born, docs, ev, kept, userVars>>

\* MUTANT: anything but Cancel is a yes.
AcceptsAnything(response) == response # "cancel"

Accepts(response) == response = "fix"

\* The dialog hands over the first response it gets.  Closing a MessageDialog
\* is a response of its own, and it may come before the one that closes it.
AnswersDialog(p) ==
  \E response \in {"fix", "cancel", "delete"} :
    \E first \in {response, "delete"} :
      /\ Goes(p, "dialog", IF Accepts(first) THEN "auth" ELSE "open")
      /\ agreed' = [agreed EXCEPT ![p] = response = "fix"]
      /\ UNCHANGED <<treeVars, born, docs, ev, kept, what, snap, got, pack, offers, purgeVars>>

\* fix asks, or takes --yes for an answer.
AsksForFix(p) ==
  /\ "fix" \in Menu[p]
  /\ \E answer \in BOOLEAN :
       /\ Goes(p, "idle", IF answer THEN "auth" ELSE "failed")
       /\ agreed' = [agreed EXCEPT ![p] = answer]
  /\ what' = [what EXCEPT ![p] = "fix"]
  /\ UNCHANGED <<treeVars, born, docs, ev, kept, snap, got, pack, offers, purgeVars>>

\* pkexec asks for a password; the helper captures a recover event.
RunsHelper(p) ==
  /\ pc[p] = "auth"
  /\ \E allowed \in BOOLEAN :
       pc' = [pc EXCEPT ![p] = IF allowed THEN "capture" ELSE AfterCapture(p, FALSE)]
  /\ agreed' = [agreed EXCEPT ![p] = FALSE]
  /\ UNCHANGED <<treeVars, born, docs, ev, kept, what, snap, got, pack, offers, purgeVars>>

-----------------------------------------------------------------------------
(* purge. *)

Capturing(p) == pc[p] \in {"append", "prune", "rename"}

\* Where purge goes on: root wipes; everybody else has sudo do it, which may
\* refuse, and which counts as a success when it cannot be started at all.
WhenAgreed(p) == IF p \in Roots THEN {"wipe"} ELSE {"wipe", "failed", "home"}

StartsPurge(p) ==
  /\ "purge" \in Menu[p]
  /\ \E step \in {"failed"} \union WhenAgreed(p) : Goes(p, "idle", step)
  /\ what' = [what EXCEPT ![p] = "purge"]
  /\ old' = [old EXCEPT ![p] = (dirs \union line) \ {ev[q] : q \in {r \in Procs : Capturing(r)}}]
  /\ UNCHANGED <<treeVars, born, docs, ev, kept, snap, got, pack, fixVars, wiped>>

\* systemd-tmpfiles --remove goes through the tree and may not get through it.
Wipe(p) ==
  /\ Goes(p, "wipe", "rmdir")
  /\ \E stuck \in SUBSET dirs : dirs' = stuck /\ gone' = gone \union (dirs \ stuck) \union line
  /\ line' = {}
  /\ docs' = {d \in docs : d.pack.at # "tree"}
  /\ UNCHANGED <<tree, back, born, ev, kept, userVars>>

\* MUTANT: the status of --remove is not looked at.
RemoveTreeAnyhow(p) ==
  /\ pc[p] = "rmdir"
  /\ IF dirs = {} /\ line = {}
     THEN tree' = FALSE /\ pc' = [pc EXCEPT ![p] = "create"]
     ELSE UNCHANGED tree /\ pc' = [pc EXCEPT ![p] = "create"]
  /\ UNCHANGED <<dirs, line, gone, back, born, docs, ev, kept, userVars>>

\* Only an empty tree goes; a capture may have put something there meanwhile.
RemoveTree(p) ==
  /\ pc[p] = "rmdir"
  /\ IF dirs = {} /\ line = {}
     THEN tree' = FALSE /\ pc' = [pc EXCEPT ![p] = "create"]
     ELSE UNCHANGED tree /\ pc' = [pc EXCEPT ![p] = "failed"]
  /\ UNCHANGED <<dirs, line, gone, back, born, docs, ev, kept, userVars>>

CreateTree(p) ==
  /\ Goes(p, "create", "home")
  /\ tree' = TRUE
  /\ wiped' = [wiped EXCEPT ![p] = TRUE]
  /\ UNCHANGED <<dirs, line, gone, back, born, docs, ev, kept, what, snap, got, pack, fixVars,
                 old>>

CreateFails(p) ==
  /\ Goes(p, "create", "failed")
  /\ UNCHANGED <<treeVars, born, docs, ev, kept, userVars>>

\* user_purge_targets: the directory below the user's home, unless that is not
\* there or not the user's own; that it cannot be removed is no error.
RemoveHome(p) ==
  /\ Goes(p, "home", "done")
  /\ \E removed \in SUBSET {d \in docs : d.pack.at = "home" /\ d.home = Home[p]} :
       docs' = docs \ removed
  /\ UNCHANGED <<treeVars, born, ev, kept, userVars>>

-----------------------------------------------------------------------------

Captures(p) ==
  UnitStarts(p) \/ MakeDir(p) \/ CaptureFails(p) \/ AppendRecord(p) \/ PruneDirs(p)
    \/ PruneRename(p)

Reads(p) ==
  StartsReading(p) \/ OpensWindow(p) \/ OpensArchive(p) \/ Load(p) \/ WriteReport(p)
    \/ Stage(p) \/ Chain(p) \/ CopyDirs(p) \/ WriteTar(p) \/ PackageFails(p)

Decides(p) ==
  PressesPage(p) \/ PressesPackage(p) \/ PressesFix(p) \/ AnswersDialog(p) \/ AsksForFix(p)
    \/ RunsHelper(p)

Purges(p) ==
  StartsPurge(p) \/ Wipe(p) \/ RemoveTree(p) \/ CreateTree(p) \/ CreateFails(p) \/ RemoveHome(p)

Next ==
  \/ \E p \in Procs : Captures(p)
  \/ \E p \in Users : Reads(p) \/ Decides(p) \/ Purges(p)

Spec == Init /\ [][Next]_vars

-----------------------------------------------------------------------------

(***************************************************************************)
(* A report or package for which a snapshot was asked tells that snapshot, *)
(* whatever other captures, prunes and purges did meanwhile, unless these  *)
(* have taken the event away again ("snapshot failed; not writing a ticket *)
(* from stale logs").                                                      *)
(***************************************************************************)
FreshTicket == \A d \in docs : d.snap => d.fresh \in d.tells \union gone

(***************************************************************************)
(* A package (--all) holds what its report tells: each event told has its  *)
(* record and its directory in it, unless a prune or purge took them       *)
(* between the load and the copy or its own copy failed; and it holds no   *)
(* directory its report does not tell of.                                  *)
(***************************************************************************)
PackageHoldsReport ==
  \A d \in docs : d.kind = "package" =>
    /\ d.tells \subseteq d.pack.line \union gone \union d.pack.torn
    /\ d.tells \subseteq d.pack.full \union gone \union d.pack.torn
    /\ d.pack.wants \subseteq d.tells

(***************************************************************************)
(* `package --help`: "Build an evidence tarball (report, timeline, alerts, *)
(* baseline, event dirs)."                                                 *)
(***************************************************************************)
PackageIsComplete ==
  \A d \in docs : d.kind = "package" =>
    d.pack.report /\ d.tells \subseteq (d.pack.line \intersect d.pack.full) \union gone

(***************************************************************************)
(* When purge has said "Purged." after its privileged half, no directory   *)
(* of an event that was complete when it began is left, and no record but  *)
(* those a prune running beside it wrote back.                             *)
(***************************************************************************)
PurgedMeansGone ==
  \A p \in Users : what[p] = "purge" /\ pc[p] = "done" /\ wiped[p] =>
    /\ old[p] \intersect dirs = {}
    /\ old[p] \intersect line \subseteq back

(***************************************************************************)
(* `purge --help`: "User reports under $XDG_DATA_HOME/am5-spd-diag [...]   *)
(* are removed as you only after /var/log/am5-spd-diag is wiped with       *)
(* systemd-tmpfiles (needs root)."                                         *)
(***************************************************************************)
ReportsGoLast ==
  [][\A p \in Users :
       pc[p] = "home" /\ pc'[p] = "done" /\ ~wiped[p] => docs \subseteq docs']_vars

(***************************************************************************)
(* The fix helper is started only when the user of that very process has   *)
(* just agreed, once per answer and however the dialog was closed, and     *)
(* never by a window that shows an archive.                                *)
(***************************************************************************)
FixOnlyConfirmed ==
  \A p \in Users :
    pc[p] = "auth" => agreed[p] /\ what[p] \in {"window", "fix"}
=============================================================================
