------------------------------ MODULE BootStory -----------------------------
(***************************************************************************)
(* How the program reads a timeline: classify_boot_kind of                 *)
(* crates/am5-spd-diag/src/capture.rs, and the analysis of boots,          *)
(* transitions, fixes and packages of crates/am5-spd-diag/src/analyze.rs.  *)
(*                                                                         *)
(* A timeline is a sequence of records                                     *)
(*   [event, boot, kind, alert, cleared]                                   *)
(* with the boot_id as a number, the boot_kind stored with the event, and  *)
(* whether recover.json in its directory reports a verified clear.  The    *)
(* functions here name a record by its index.                              *)
(***************************************************************************)
EXTENDS Naturals, Sequences, FiniteSets

SleepEvents == {"suspend-pre", "hibernate-pre"}
StopEvents  == {"poweroff", "shutdown", "halt"}

\* The largest index of a set of indices, 0 when it is empty.
LastOf(S) == IF S = {} THEN 0 ELSE CHOOSE i \in S : \A j \in S : j <= i

FirstOf(S) == CHOOSE i \in S : \A j \in S : i <= j

Before(i) == 1..(i - 1)

-----------------------------------------------------------------------------
(* How a boot started. *)

\* MUTANT: the fallback "shutdown" is not among the orderly stops.
ClassifyPreviousNoFallback(event) ==
  CASE event = "reboot"               -> "warm_reboot"
    [] event \in {"poweroff", "halt"} -> "shutdown_poweroff"
    [] OTHER                          -> "unexpected_power_loss"

\* MUTANT: an orderly stop keeps its own name.
ClassifyPreviousByName(event) ==
  CASE event = "reboot"     -> "warm_reboot"
    [] event \in StopEvents -> event
    [] OTHER                -> "unexpected_power_loss"

\* What capture makes of the last event of the previous boot.
ClassifyPrevious(event) ==
  CASE event = "reboot"     -> "warm_reboot"
    [] event \in StopEvents -> "shutdown_poweroff"
    [] OTHER                -> "unexpected_power_loss"

\* classify_boot_kind, called before the boot event is appended.
ClassifyBootKind(tl, boot) ==
  CASE tl = <<>>                -> "unknown"
    [] tl # <<>> /\ tl[Len(tl)].boot = boot -> "same_boot"
    [] OTHER                    -> ClassifyPrevious(tl[Len(tl)].event)

\* boot_kind_from_previous_event: analyze lets a fix stand for the reboot it
\* asks for.
KindFromPrevious(event) ==
  IF event = "recover" THEN "warm_reboot" ELSE ClassifyPrevious(event)

Known(kind) == kind \notin {"", "unknown", "same_boot"}

\* MUTANT: the record before i, of whatever boot.
PrevBootAny(tl, i) == i - 1

\* The last record of another boot before i.
PrevBoot(tl, i) == LastOf({j \in Before(i) : tl[j].boot # tl[i].boot})

InferBootKind(tl, i) ==
  CASE Known(tl[i].kind)    -> tl[i].kind
    [] ~Known(tl[i].kind) /\ PrevBoot(tl, i) = 0 -> "unknown"
    [] OTHER                -> KindFromPrevious(tl[PrevBoot(tl, i)].event)

-----------------------------------------------------------------------------
(* group_boots: the records of each boot_id, in order of first appearance. *)

OfBoot(tl, boot) == {i \in DOMAIN tl : tl[i].boot = boot}

BootIds(tl) == {tl[i].boot : i \in DOMAIN tl}

\* The boot listed before this one; 0 for the first.
ListedBefore(tl, boot) ==
  LET head(b) == FirstOf(OfBoot(tl, b))
      prev == LastOf({head(b) : b \in {c \in BootIds(tl) : head(c) < head(boot)}})
  IN  IF prev = 0 THEN 0 ELSE tl[prev].boot

SleepCycles(tl, boot) ==
  Cardinality({i \in OfBoot(tl, boot) : tl[i].event \in SleepEvents})

\* The "Started" column of render_boot_timeline.
Started(tl, boot) ==
  LET boots == {i \in OfBoot(tl, boot) : tl[i].event = "boot"}
      kind  == IF boots = {} THEN "" ELSE tl[FirstOf(boots)].kind
      prev  == ListedBefore(tl, boot)
  IN  CASE Known(kind)               -> kind
        [] ~Known(kind) /\ prev = 0  -> "unknown"
        [] OTHER -> KindFromPrevious(tl[LastOf(OfBoot(tl, prev))].event)

-----------------------------------------------------------------------------
(* find_transitions: healthy to corrupt, once per boot. *)

Alerts(tl) == {i \in DOMAIN tl : tl[i].alert /\ tl[i].event # "recover"}

\* MUTANT: an alert is a repetition only right after another one.
RepeatsAdjacent(tl, i) ==
  i > 1 /\ i - 1 \in Alerts(tl) /\ tl[i - 1].boot = tl[i].boot

\* last_alert_boot: the alert before i was on the same boot.
Repeats(tl, i) ==
  LET last == LastOf(Alerts(tl) \intersect Before(i))
  IN  last # 0 /\ tl[last].boot = tl[i].boot

Transitions(tl) == {i \in Alerts(tl) : ~Repeats(tl, i)}

\* Back to the boot event of the previous boot, or to a corrupt boot event.
ChainStart(tl, i) ==
  LET stops == {j \in Before(i) :
                  /\ tl[j].event = "boot"
                  /\ tl[j].boot # tl[i].boot \/ tl[j].alert}
  IN  IF stops = {} THEN 1 ELSE LastOf(stops)

Chain(tl, i) == ChainStart(tl, i)..i

\* MUTANT: count the sleeps of the boot that shows the corruption.
SleepCountThisBoot(tl, i) == SleepCycles(tl, tl[i].boot)

\* The sleeps of the boot before the corrupt one.
SleepCount(tl, i) ==
  IF PrevBoot(tl, i) = 0 THEN 0 ELSE SleepCycles(tl, tl[PrevBoot(tl, i)].boot)

-----------------------------------------------------------------------------
(* What status says of the machine and of fixes. *)

\* spd_now_from_state for captures that found DIMMs and left SPD_NOW behind.
SpdNow(tl) ==
  CASE tl = <<>> -> "unknown"
    [] tl # <<>> /\ tl[Len(tl)].alert -> "corrupted"
    [] OTHER -> "healthy"

LatestBoot(tl) == LastOf({i \in DOMAIN tl : tl[i].event = "boot"})

LatestBootId(tl) ==
  IF LatestBoot(tl) # 0 THEN tl[LatestBoot(tl)].boot ELSE tl[Len(tl)].boot

Recovers(tl) == {i \in DOMAIN tl : tl[i].event = "recover"}

\* MUTANT: the last fix on record, of whatever boot.
RecoverAnyBoot(tl) == LastOf(Recovers(tl))

RecoverThisBoot(tl) ==
  LastOf({i \in Recovers(tl) : tl[i].boot = LatestBootId(tl)})

RecoverBeforeLatestBoot(tl) ==
  LastOf({i \in Recovers(tl) : i < LatestBoot(tl)})

\* recover_status_lines.
RecoverStatus(tl) ==
  LET this == RecoverThisBoot(tl)
      prev == RecoverBeforeLatestBoot(tl)
  IN  CASE tl = <<>>                         -> "none"
        [] tl # <<>> /\ this # 0             -> IF tl[this].cleared
                                                THEN "applied" ELSE "unverified"
        [] tl # <<>> /\ this = 0 /\ prev # 0 /\ tl[prev].cleared
             /\ SpdNow(tl) = "healthy"       -> "restored"
        [] OTHER                             -> "none"

\* MUTANT: any fix of this boot disables the button, verified or not.
FixButtonAnyVerdict(tl) ==
  CASE SpdNow(tl) # "corrupted" -> "not corrupted"
    [] SpdNow(tl) = "corrupted" /\ RecoverThisBoot(tl) # 0 -> "already cleared"
    [] OTHER -> "enabled"

\* update_fix_button: enabled, or why not.  Without a boot event any fix counts.
FixButton(tl) ==
  LET this == IF LatestBoot(tl) = 0 THEN LastOf(Recovers(tl)) ELSE RecoverThisBoot(tl)
  IN  CASE SpdNow(tl) # "corrupted" -> "not corrupted"
        [] SpdNow(tl) = "corrupted" /\ this # 0 /\ tl[this].cleared -> "already cleared"
        [] OTHER -> "enabled"

-----------------------------------------------------------------------------
(* chain_dirs: the event directories that go into a package. *)

\* MUTANT: only the records of the chains and the alerts themselves.
PackagedBootsNone(tl) == {}

\* boots_needed: boots of a chain, boots with an alert, the boot before those.
PackagedBoots(tl) ==
  LET chained == {tl[j].boot : j \in UNION {Chain(tl, i) : i \in Transitions(tl)}}
      alerted == {tl[i].boot : i \in {j \in DOMAIN tl : tl[j].alert}}
  IN  chained \union alerted \union {ListedBefore(tl, b) : b \in alerted}

\* Events of a chain, alerts, and every event of a boot needed.
WantedDirs(tl) ==
  (UNION {Chain(tl, i) : i \in Transitions(tl)})
    \union {i \in DOMAIN tl : tl[i].alert}
    \union {i \in DOMAIN tl : tl[i].boot \in PackagedBoots(tl)}

\* A timeline that wants none sends its last dozen.
PackageDirs(tl) ==
  IF WantedDirs(tl) # {} THEN WantedDirs(tl)
  ELSE {i \in DOMAIN tl : i + 12 > Len(tl)}
=============================================================================
