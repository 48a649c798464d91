------------------------------ MODULE Lifecycle -----------------------------
(***************************************************************************)
(* A machine that sleeps, reboots, crashes and loses power, with the       *)
(* captures its systemd units, the CLI and the window take on the way, and *)
(* what BootStory makes of the timeline they leave.                        *)
(*                                                                         *)
(* The machine is the environment: firmware that latches an SPD hub on     *)
(* resume or in POST, a latch that lives on standby power, firmware        *)
(* identity read once per POST.  A capture is one step here; Capture       *)
(* models what happens inside it.                                          *)
(***************************************************************************)
EXTENDS BootStory

CONSTANTS
  MaxBoots,    \* bound: boots of the machine
  MaxRecords,  \* bound: records of the timeline
  MaxLatches,  \* bound: how often firmware latches the hub
  MaxLapses    \* bound: captures that leave no record, boot units stopped

ASSUME BoundsAssumption ==
  /\ MaxBoots \in Nat \ {0}
  /\ MaxRecords \in Nat
  /\ MaxLatches \in Nat
  /\ MaxLapses \in Nat

Boots   == 1..MaxBoots
Endings == {"none", "reboot", "poweroff", "crash", "accut"}

VARIABLES
  power,     \* on, asleep, stopping, off
  boot,      \* the boot_id, counted from 1
  ending,    \* how the last boot ended, "none" while one runs
  asked,     \* what this boot was asked to end with
  latched,   \* MR11 of the hub reads 0x08
  ghost,     \* this boot's SMBIOS tables show the ghost
  dmesg,     \* this boot's kernel log names the stuck hub
  latches,   \* how often firmware latched the hub
  unit,      \* the boot unit is active: its ExecStop is due
  lapses,    \* captures that left no record and stops of the boot unit
  timeline,  \* timeline.jsonl
  began,     \* history: [Boots -> Endings] how the boot before each one ended
  request,   \* history: [Boots -> Endings] what each boot was asked to end with
  slept,     \* history: [Boots -> Nat] sleeps of each boot
  cleared    \* history: boots in which a fix verified a clear

machineVars == <<power, boot, ending, asked, latched, ghost, dmesg, latches,
                 unit>>
recordVars  == <<lapses, timeline>>
historyVars == <<began, request, slept, cleared>>
vars        == <<machineVars, recordVars, historyVars>>

Events == {"boot", "suspend-pre", "suspend-post", "reboot", "poweroff",
           "shutdown", "manual", "recover"}
Kinds  == {"warm_reboot", "shutdown_poweroff", "unexpected_power_loss",
           "same_boot", "unknown"}
Record == [event : Events, boot : Boots, kind : Kinds, alert : BOOLEAN,
           cleared : BOOLEAN]

TypeOK ==
  /\ power \in {"on", "asleep", "stopping", "off"}
  /\ boot \in 0..MaxBoots
  /\ ending \in Endings
  /\ asked \in {"none", "reboot", "poweroff"}
  /\ latched \in BOOLEAN
  /\ ghost \in BOOLEAN
  /\ dmesg \in BOOLEAN
  /\ latches \in 0..MaxLatches
  /\ unit \in BOOLEAN
  /\ lapses \in 0..MaxLapses
  /\ timeline \in Seq(Record)
  /\ began \in [Boots -> Endings]
  /\ request \in [Boots -> Endings]
  /\ slept \in [Boots -> Nat]
  /\ cleared \subseteq Boots

Init ==
  /\ power = "off"
  /\ boot = 0
  /\ ending = "none"
  /\ asked = "none"
  /\ latched = FALSE
  /\ ghost = FALSE
  /\ dmesg = FALSE
  /\ latches = 0
  /\ unit = FALSE
  /\ lapses = 0
  /\ timeline = <<>>
  /\ began = [b \in Boots |-> "none"]
  /\ request = [b \in Boots |-> "none"]
  /\ slept = [b \in Boots |-> 0]
  /\ cleared = {}

-----------------------------------------------------------------------------
(* Captures. *)

\* Evidence of this moment raises a flag: SMBIOS ghost, stuck hub, kernel log.
Corrupt == ghost \/ latched \/ dmesg

Recorded(rec) ==
  /\ Len(timeline) < MaxRecords
  /\ timeline' = Append(timeline, rec)

\* capture_event: a record is appended, or the capture is killed before that.
Capture(rec) ==
  \/ Recorded(rec) /\ UNCHANGED lapses
  \/ /\ lapses < MaxLapses
     /\ lapses' = lapses + 1
     /\ UNCHANGED timeline

\* The record of any event but boot and recover; evidence is of after the step.
Plain(event) ==
  [event |-> event, boot |-> boot, kind |-> "unknown", alert |-> Corrupt',
   cleared |-> FALSE]

BootRecord ==
  [event |-> "boot", boot |-> boot', kind |-> ClassifyBootKind(timeline, boot'),
   alert |-> Corrupt', cleared |-> FALSE]

-----------------------------------------------------------------------------
(* The machine and the captures its life triggers. *)

\* Firmware may leave the hub latched; the driver may report it.
FirmwareRuns ==
  \/ /\ latches < MaxLatches
     /\ ~latched
     /\ latched' = TRUE
     /\ latches' = latches + 1
  \/ UNCHANGED <<latched, latches>>

\* POST reads the identity; the boot unit captures.
PowerUp ==
  /\ power = "off"
  /\ boot < MaxBoots
  /\ power' = "on"
  /\ boot' = boot + 1
  /\ FirmwareRuns
  /\ ghost' = latched'
  /\ dmesg' \in {FALSE, latched'}
  /\ began' = [began EXCEPT ![boot + 1] = ending]
  /\ ending' = "none"
  /\ asked' = "none"
  /\ unit' = TRUE
  /\ Capture(BootRecord)
  /\ UNCHANGED <<request, slept, cleared>>

Suspend ==
  /\ power = "on"
  /\ power' = "asleep"
  /\ slept' = [slept EXCEPT ![boot] = @ + 1]
  /\ UNCHANGED <<boot, ending, asked, latched, ghost, dmesg, latches, unit,
                 began, request, cleared>>
  /\ Capture(Plain("suspend-pre"))

Resume ==
  /\ power = "asleep"
  /\ power' = "on"
  /\ FirmwareRuns
  /\ dmesg' \in {dmesg, dmesg \/ latched'}
  /\ UNCHANGED <<boot, ending, asked, ghost, unit, historyVars>>
  /\ Capture(Plain("suspend-post"))

Snapshot ==
  /\ power = "on"
  /\ UNCHANGED <<machineVars, historyVars>>
  /\ Capture(Plain("manual"))

\* systemctl stop, or the package removed: ExecStop captures a shutdown that
\* is none.
StopUnit ==
  /\ power = "on"
  /\ unit
  /\ lapses < MaxLapses
  /\ lapses' = lapses + 1
  /\ unit' = FALSE
  /\ UNCHANGED <<power, boot, ending, asked, latched, ghost, dmesg, latches,
                 historyVars>>
  /\ Recorded(Plain("shutdown"))

\* systemctl start, or the package installed again: a second boot event.
StartUnit ==
  /\ power = "on"
  /\ ~unit
  /\ unit' = TRUE
  /\ UNCHANGED <<power, boot, ending, asked, latched, ghost, dmesg, latches,
                 historyVars>>
  /\ Capture(BootRecord)

\* fix: a latched hub is cleared and verified, or stays; without one there is
\* nothing to clear and the verdict is no_stuck_hub.
Fix ==
  /\ power = "on"
  /\ latched' \in {FALSE, latched}
  /\ cleared' = IF latched /\ ~latched' THEN cleared \union {boot} ELSE cleared
  /\ UNCHANGED <<power, boot, ending, asked, ghost, dmesg, latches, unit,
                 began, request, slept>>
  /\ Capture([Plain("recover") EXCEPT !.cleared = latched /\ ~latched'])

\* An active unit's ExecStop captures; detect_shutdown_mode may not see which
\* stop it is.
Stop(mode) ==
  /\ power = "on"
  /\ power' = "stopping"
  /\ asked' = mode
  /\ request' = [request EXCEPT ![boot] = mode]
  /\ UNCHANGED <<boot, ending, latched, ghost, dmesg, latches, unit, began,
                 slept, cleared>>
  /\ IF unit THEN \E event \in {mode, "shutdown"} : Capture(Plain(event))
             ELSE UNCHANGED recordVars

GoesDown ==
  /\ power = "stopping"
  /\ power' = "off"
  /\ ending' = asked
  /\ UNCHANGED <<boot, asked, latched, ghost, dmesg, latches, unit,
                 recordVars, historyVars>>

\* A crash, a reset or a blip that standby power survives.
Crash ==
  /\ power \in {"on", "asleep", "stopping"}
  /\ power' = "off"
  /\ ending' = "crash"
  /\ UNCHANGED <<boot, asked, latched, ghost, dmesg, latches, unit,
                 recordVars, historyVars>>

\* The cord is pulled: VDDSPD falls and the hub resets.
CutAC ==
  /\ power # "off" \/ ending \in {"reboot", "poweroff", "crash"}
  /\ power' = "off"
  /\ ending' = "accut"
  /\ latched' = FALSE
  /\ UNCHANGED <<boot, asked, ghost, dmesg, latches, unit, recordVars,
                 historyVars>>

Next ==
  \/ PowerUp
  \/ Suspend
  \/ Resume
  \/ Snapshot
  \/ StopUnit
  \/ StartUnit
  \/ Fix
  \/ \E mode \in {"reboot", "poweroff"} : Stop(mode)
  \/ GoesDown
  \/ Crash
  \/ CutAC

Spec == Init /\ [][Next]_vars

-----------------------------------------------------------------------------
(* What the analysis gets right. *)

(***************************************************************************)
(* As long as every capture left its record and nobody stopped the boot    *)
(* unit, a stored boot_kind is true: an unexpected power loss was a crash  *)
(* or a cut, a warm reboot had been asked for, a poweroff was some orderly *)
(* stop (classify_boot_kind), even if power fails while the machine goes   *)
(* down.                                                                   *)
(***************************************************************************)
BootKindTruthful ==
  lapses = 0 => \A i \in DOMAIN timeline :
    LET b == timeline[i].boot IN
    /\ timeline[i].kind = "unexpected_power_loss" => began[b] \in {"crash", "accut"}
    /\ timeline[i].kind = "warm_reboot" => request[b - 1] = "reboot"
    /\ timeline[i].kind = "shutdown_poweroff" =>
         request[b - 1] \in {"reboot", "poweroff"}

(***************************************************************************)
(* The report tells each corrupt boot once, at its first alert, however    *)
(* many captures of that boot alert, and whatever fixes come between       *)
(* (find_transitions).                                                     *)
(***************************************************************************)
OneTransitionPerCorruptBoot ==
  LET told == Transitions(timeline) IN
  \A i \in Alerts(timeline) :
    LET same == Alerts(timeline) \intersect OfBoot(timeline, timeline[i].boot)
    IN  same \intersect told = {FirstOf(same)}

(***************************************************************************)
(* As long as every capture left its record, the sleeps a transition       *)
(* reports are those the machine really had on the boot before             *)
(* (find_transitions, sleep_cycles).                                       *)
(***************************************************************************)
SleepCountTruthful ==
  lapses = 0 => \A i \in Transitions(timeline) :
    timeline[i].boot > 1 =>
      SleepCount(timeline, i) = slept[timeline[i].boot - 1]

(***************************************************************************)
(* Two sections of one report agree on how a boot started: the transition  *)
(* infers it from the alert, the boot table from the boot event and the    *)
(* grouped boots, and captures may be missing.  The one exception is a     *)
(* boot that ended right after a fix.                                      *)
(***************************************************************************)
StartedAgrees ==
  \A i \in Transitions(timeline) :
    LET prev == PrevBoot(timeline, i) IN
    (prev # 0 => timeline[prev].event # "recover") =>
      InferBootKind(timeline, i) = Started(timeline, timeline[i].boot)

(***************************************************************************)
(* Whatever the report's transitions show or count is in the package: the  *)
(* event sequence, and every record of the corrupt boot and of the boot    *)
(* whose sleeps were counted (chain_dirs).                                 *)
(***************************************************************************)
ReportRowsPacked ==
  LET packed == PackageDirs(timeline) IN
  \A i \in Transitions(timeline) :
    LET prev == PrevBoot(timeline, i) IN
    /\ Chain(timeline, i) \subseteq packed
    /\ OfBoot(timeline, timeline[i].boot) \subseteq packed
    /\ prev # 0 => OfBoot(timeline, timeline[prev].boot) \subseteq packed

(***************************************************************************)
(* "In-band MR11 clear applied ... this boot" is said only when a fix of   *)
(* the machine's latest recorded boot really verified a clear              *)
(* (recover_status_lines).                                                 *)
(***************************************************************************)
AppliedMeansCleared ==
  RecoverStatus(timeline) = "applied" => LatestBootId(timeline) \in cleared

(***************************************************************************)
(* Once the running boot has its boot event on record, the Fix button      *)
(* refuses with "MR11 already cleared this boot" only after a fix of this  *)
(* very boot verified a clear: an unverified fix may be repeated           *)
(* (update_fix_button).                                                    *)
(***************************************************************************)
RefusedFixWasDone ==
  /\ FixButton(timeline) = "already cleared"
  /\ \E i \in OfBoot(timeline, boot) : timeline[i].event = "boot"
  => boot \in cleared

-----------------------------------------------------------------------------
(* What the program says of itself. *)

(***************************************************************************)
(* The status line "Identity looks restored after in-band MR11 clear ...   *)
(* and a warm reboot (not an AC power loss)".                              *)
(***************************************************************************)
RestoredMeansWarmReboot ==
  RecoverStatus(timeline) = "restored" => began[boot] # "accut"

(***************************************************************************)
(* README: status "will credit that clear plus reboot once identity looks  *)
(* healthy again": a boot with a verified fix, a warm reboot, a healthy    *)
(* boot capture.                                                           *)
(***************************************************************************)
ClearCredited ==
  /\ boot > 1
  /\ boot - 1 \in cleared
  /\ began[boot] = "reboot"
  /\ SpdNow(timeline) = "healthy"
  /\ timeline[Len(timeline)].event = "boot"
  => RecoverStatus(timeline) = "restored"

(***************************************************************************)
(* render_pattern: "POST with no sleep this boot matches the forum report  *)
(* that firmware can write MR11 during POST, not only on S3 resume", said  *)
(* when a transition counts no sleep.                                      *)
(***************************************************************************)
NoSleepMeansPost ==
  \A i \in Transitions(timeline) :
    SleepCount(timeline, i) = 0 =>
      ~\E j \in Before(i) : /\ timeline[j].boot = timeline[i].boot
                            /\ timeline[j].event \in SleepEvents
=============================================================================
