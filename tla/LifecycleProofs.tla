--------------------------- MODULE LifecycleProofs --------------------------
(***************************************************************************)
(* What holds of Lifecycle for every number of boots, records, latches and *)
(* lapses: type correctness, truthful boot kinds, one transition per       *)
(* corrupt boot, what status and the window say of fixes, that a package   *)
(* holds what its report shows, and what a transition says of the start    *)
(* and the sleeps before it.                                               *)
(***************************************************************************)
EXTENDS Lifecycle, TLAPS, FiniteSetTheorems, WellFoundedInduction

-----------------------------------------------------------------------------
(* First and last elements of sets of indices. *)

\* A set of naturals has a least element: proper inclusion of the intervals up to
\* its elements is well founded.
LEMMA LeastNatural ==
  ASSUME NEW X \in SUBSET Nat, X # {}
  PROVE  \E x \in X : \A y \in X : x <= y
<1>. DEFINE T == {1..x : x \in X}
<1>1. T \subseteq FiniteSubsetsOf(Nat)
  BY FS_Interval DEF FiniteSubsetsOf
<1>2. IsWellFoundedOn(StrictSubsetOrdering(Nat), FiniteSubsetsOf(Nat))
  BY FS_StrictSubsetOrderingWellFounded
<1>3. T # {}
  OBVIOUS
<1>. HIDE DEF T
<1>4. PICK t \in T : \A u \in T : ~ (<<u, t>> \in StrictSubsetOrdering(Nat))
  BY <1>1, <1>2, <1>3, WFMin
<1>5. PICK x \in X : t = 1..x
  BY <1>4 DEF T
<1>6. ASSUME NEW y \in X, y < x
      PROVE  FALSE
  <2>1. 1..y \in T
    BY DEF T
  <2>2. 1..y \subseteq 1..x /\ 1..y # 1..x
    <3>1. x \in 1..x /\ x \notin 1..y
      BY <1>6
    <3>. QED  BY <1>6, <3>1
  <2>3. 1..x \in SUBSET Nat /\ 1..y \in SUBSET Nat
    OBVIOUS
  <2>4. <<1..y, 1..x>> \in StrictSubsetOrdering(Nat)
    BY <2>2, <2>3, Zenon DEF StrictSubsetOrdering
  <2>. QED  BY <1>4, <1>5, <2>1, <2>4
<1>. QED  BY <1>6

\* FirstOf picks the least index.
LEMMA FirstOfSet ==
  ASSUME NEW S \in SUBSET Nat, S # {}
  PROVE  FirstOf(S) \in S /\ \A j \in S : FirstOf(S) <= j
BY LeastNatural DEF FirstOf

\* LastOf picks the greatest index below a bound.
LEMMA LastOfSet ==
  ASSUME NEW n \in Nat, NEW S \in SUBSET (1..n), S # {}
  PROVE  LastOf(S) \in S /\ \A j \in S : j <= LastOf(S)
<1>. DEFINE X == {n - i : i \in S}
<1>1. X \in SUBSET Nat /\ X # {}
  <2>1. \A i \in S : n - i \in Nat
    OBVIOUS
  <2>2. PICK i \in S : TRUE
    OBVIOUS
  <2>. QED  BY <2>1, <2>2
<1>. HIDE DEF X
<1>2. PICK x \in X : \A y \in X : x <= y
  BY <1>1, LeastNatural
<1>3. PICK i \in S : x = n - i
  BY DEF X
<1>4. ASSUME NEW j \in S
      PROVE  j <= i
  <2>1. n - j \in X
    BY DEF X
  <2>. QED  BY <1>2, <1>3, <2>1
<1>. QED  BY <1>4 DEF LastOf
-----------------------------------------------------------------------------
(* Types. *)

\* Captures only happen on a boot.
TypeInv == TypeOK /\ (power # "off" => boot \in Boots)

\* What appending does to a timeline.
LEMMA Appended ==
  ASSUME NEW tl \in Seq(Record), NEW rec \in Record
  PROVE  /\ Append(tl, rec) \in Seq(Record)
         /\ Len(Append(tl, rec)) = Len(tl) + 1
         /\ DOMAIN Append(tl, rec) = 1..(Len(tl) + 1)
         /\ \A i \in 1..Len(tl) : Append(tl, rec)[i] = tl[i]
         /\ Append(tl, rec)[Len(tl) + 1] = rec
OBVIOUS

\* A capture leaves a typed timeline if what it records is a record.
LEMMA CaptureType ==
  ASSUME TypeOK, NEW rec \in Record, Capture(rec)
  PROVE  timeline' \in Seq(Record) /\ lapses' \in 0..MaxLapses
<1>. timeline \in Seq(Record) /\ lapses \in 0..MaxLapses /\ MaxLapses \in Nat
  BY BoundsAssumption DEF TypeOK
<1>1. CASE Recorded(rec) /\ UNCHANGED lapses
  <2>1. timeline' = Append(timeline, rec)
    BY <1>1 DEF Recorded
  <2>. QED  BY <1>1, <2>1, Appended
<1>2. CASE lapses < MaxLapses /\ lapses' = lapses + 1 /\ UNCHANGED timeline
  BY <1>2
<1>. QED  BY <1>1, <1>2 DEF Capture

\* Evidence of the step's end raises a flag or does not.
LEMMA FlagType ==
  ASSUME ghost' \in BOOLEAN, latched' \in BOOLEAN, dmesg' \in BOOLEAN
  PROVE  Corrupt' \in BOOLEAN
BY DEF Corrupt

\* What ClassifyBootKind returns is a boot kind.
LEMMA KindType ==
  ASSUME NEW tl, NEW b
  PROVE  ClassifyBootKind(tl, b) \in Kinds
BY DEF ClassifyBootKind, ClassifyPrevious, Kinds

\* What Plain and BootRecord build are records.
LEMMA RecordTypes ==
  ASSUME ghost' \in BOOLEAN, latched' \in BOOLEAN, dmesg' \in BOOLEAN
  PROVE  /\ \A event \in Events : boot \in Boots => Plain(event) \in Record
         /\ boot' \in Boots => BootRecord \in Record
<1>1. Corrupt' \in BOOLEAN
  BY FlagType
<1>2. "unknown" \in Kinds /\ "boot" \in Events /\ FALSE \in BOOLEAN
  BY DEF Kinds, Events
<1>3. ClassifyBootKind(timeline, boot') \in Kinds
  BY KindType
<1>. HIDE DEF Kinds, Events
<1>4. ASSUME NEW event \in Events, boot \in Boots
      PROVE  Plain(event) \in Record
  BY <1>1, <1>2, <1>4, Zenon DEF Plain, Record
<1>5. ASSUME boot' \in Boots
      PROVE  BootRecord \in Record
  BY <1>1, <1>2, <1>3, <1>5, Zenon DEF BootRecord, Record
<1>. QED  BY <1>4, <1>5

LEMMA TypeInit == Init => TypeInv
<1>. SUFFICES ASSUME Init PROVE TypeInv
  OBVIOUS
<1>1. <<>> \in Seq(Record)
  OBVIOUS
<1>2. "none" \in Endings
  BY DEF Endings
<1>3. 0 \in 0..MaxBoots /\ 0 \in 0..MaxLatches /\ 0 \in 0..MaxLapses
  BY BoundsAssumption
<1>. HIDE DEF Endings, Boots, Record
<1>. QED  BY <1>1, <1>2, <1>3 DEF Init, TypeInv, TypeOK

\* Firmware keeps the latch and its count typed.
LEMMA FirmwareType ==
  ASSUME TypeOK, FirmwareRuns
  PROVE  latched' \in BOOLEAN /\ latches' \in 0..MaxLatches
<1>. latched \in BOOLEAN /\ latches \in 0..MaxLatches /\ MaxLatches \in Nat
  BY BoundsAssumption DEF TypeOK
<1>1. CASE UNCHANGED <<latched, latches>>
  <2>1. latched' = latched /\ latches' = latches
    BY <1>1
  <2>. QED  BY <2>1, Zenon
<1>2. CASE latches < MaxLatches /\ latched' = TRUE /\ latches' = latches + 1
  <2>1. latches' \in 0..MaxLatches
    BY <1>2
  <2>. QED  BY <1>2, <2>1, Zenon
<1>. QED  BY <1>1, <1>2, Zenon DEF FirmwareRuns

\* Every step keeps the types.
LEMMA TypeStep ==
  ASSUME TypeInv, [Next]_vars
  PROVE  TypeInv'
<1>. TypeOK /\ (power # "off" => boot \in Boots)
  BY DEF TypeInv
<1>. lapses \in 0..MaxLapses /\ timeline \in Seq(Record)
  BY DEF TypeOK
<1>. "suspend-pre" \in Events /\ "suspend-post" \in Events /\ "reboot" \in Events
     /\ "poweroff" \in Events /\ "shutdown" \in Events /\ "manual" \in Events
     /\ "recover" \in Events
  BY DEF Events
<1>1. CASE PowerUp
  <2>1. boot + 1 \in Boots /\ boot' = boot + 1
    BY <1>1, BoundsAssumption DEF PowerUp, TypeOK, Boots
  <2>2. latched' \in BOOLEAN /\ latches' \in 0..MaxLatches
    BY <1>1, FirmwareType DEF PowerUp
  <2>3. ghost' \in BOOLEAN /\ dmesg' \in BOOLEAN
    BY <1>1, <2>2 DEF PowerUp
  <2>4. BootRecord \in Record
    BY <2>1, <2>2, <2>3, RecordTypes
  <2>5. timeline' \in Seq(Record) /\ lapses' \in 0..MaxLapses
    BY <1>1, <2>4, CaptureType DEF PowerUp
  <2>6. began' \in [Boots -> Endings]
    BY <1>1, <2>1 DEF PowerUp, TypeOK
  <2>. QED
    BY <1>1, <2>1, <2>2, <2>3, <2>5, <2>6 DEF PowerUp, TypeInv, TypeOK, Boots, Endings
<1>2. CASE Suspend
  <2>1. Plain("suspend-pre") \in Record
    BY <1>2, RecordTypes DEF Suspend, TypeOK
  <2>2. timeline' \in Seq(Record) /\ lapses' \in 0..MaxLapses
    BY <1>2, <2>1, CaptureType DEF Suspend
  <2>3. slept' \in [Boots -> Nat]
    BY <1>2 DEF Suspend, TypeOK
  <2>. QED  BY <1>2, <2>2, <2>3 DEF Suspend, TypeInv, TypeOK
<1>3. CASE Resume
  <2>1. latched' \in BOOLEAN /\ latches' \in 0..MaxLatches
    BY <1>3, FirmwareType DEF Resume
  <2>2. ghost' \in BOOLEAN /\ dmesg' \in BOOLEAN
    BY <1>3, <2>1 DEF Resume, TypeOK
  <2>3. Plain("suspend-post") \in Record
    BY <1>3, <2>1, <2>2, RecordTypes DEF Resume
  <2>4. timeline' \in Seq(Record) /\ lapses' \in 0..MaxLapses
    BY <1>3, <2>3, CaptureType DEF Resume
  <2>. QED
    BY <1>3, <2>1, <2>2, <2>4 DEF Resume, TypeInv, TypeOK, historyVars
<1>4. CASE Snapshot
  <2>1. Plain("manual") \in Record
    BY <1>4, RecordTypes DEF Snapshot, TypeOK, machineVars
  <2>2. timeline' \in Seq(Record) /\ lapses' \in 0..MaxLapses
    BY <1>4, <2>1, CaptureType DEF Snapshot
  <2>. QED
    BY <1>4, <2>2 DEF Snapshot, TypeInv, TypeOK, machineVars, historyVars
<1>5. CASE StopUnit
  <2>1. Plain("shutdown") \in Record
    BY <1>5, RecordTypes DEF StopUnit, TypeOK
  <2>2. timeline' \in Seq(Record)
    BY <1>5, <2>1, Appended DEF StopUnit, Recorded
  <2>3. lapses' \in 0..MaxLapses
    BY <1>5, BoundsAssumption DEF StopUnit
  <2>. QED  BY <1>5, <2>2, <2>3 DEF StopUnit, TypeInv, TypeOK, historyVars
<1>6. CASE StartUnit
  <2>1. BootRecord \in Record
    BY <1>6, RecordTypes DEF StartUnit, TypeOK
  <2>2. timeline' \in Seq(Record) /\ lapses' \in 0..MaxLapses
    BY <1>6, <2>1, CaptureType DEF StartUnit
  <2>. QED  BY <1>6, <2>2 DEF StartUnit, TypeInv, TypeOK, historyVars
<1>7. CASE Fix
  <2>1. latched' \in BOOLEAN
    BY <1>7 DEF Fix, TypeOK
  <2>2. Plain("recover") \in Record
    BY <1>7, <2>1, RecordTypes DEF Fix, TypeOK
  <2>3. (latched /\ ~latched') \in BOOLEAN
    OBVIOUS
  <2>4. [Plain("recover") EXCEPT !.cleared = latched /\ ~latched'] \in Record
    BY <2>2, <2>3 DEF Record
  <2>5. timeline' \in Seq(Record) /\ lapses' \in 0..MaxLapses
    BY <1>7, <2>4, CaptureType DEF Fix
  <2>6. cleared' \subseteq Boots
    BY <1>7 DEF Fix, TypeOK
  <2>. QED  BY <1>7, <2>1, <2>5, <2>6 DEF Fix, TypeInv, TypeOK
<1>8. ASSUME NEW mode \in {"reboot", "poweroff"}, Stop(mode)
      PROVE  TypeInv'
  <2>1. \A event \in {mode, "shutdown"} : Plain(event) \in Record
    BY <1>8, RecordTypes DEF Stop, TypeOK
  <2>2. timeline' \in Seq(Record) /\ lapses' \in 0..MaxLapses
    <3>1. CASE unit
      <4>1. PICK event \in {mode, "shutdown"} : Capture(Plain(event))
        BY <1>8, <3>1 DEF Stop
      <4>. QED  BY <2>1, <4>1, CaptureType
    <3>2. CASE ~unit
      BY <1>8, <3>2 DEF Stop, recordVars
    <3>. QED  BY <3>1, <3>2
  <2>3. request' \in [Boots -> Endings]
    BY <1>8 DEF Stop, TypeOK, Endings
  <2>. QED  BY <1>8, <2>2, <2>3 DEF Stop, TypeInv, TypeOK
<1>9. CASE GoesDown
  BY <1>9 DEF GoesDown, TypeInv, TypeOK, Endings, recordVars, historyVars
<1>10. CASE Crash
  BY <1>10 DEF Crash, TypeInv, TypeOK, Endings, recordVars, historyVars
<1>11. CASE CutAC
  BY <1>11 DEF CutAC, TypeInv, TypeOK, Endings, recordVars, historyVars
<1>12. CASE UNCHANGED vars
  BY <1>12 DEF TypeInv, TypeOK, vars, machineVars, recordVars, historyVars
<1>. QED
  BY <1>1, <1>2, <1>3, <1>4, <1>5, <1>6, <1>7, <1>8, <1>9, <1>10, <1>11, <1>12
     DEF Next

\* TypeOK is an invariant for every bound.
THEOREM TypeCorrect == Spec => []TypeOK
<1>1. TypeInv => TypeOK
  BY DEF TypeInv
<1>. QED  BY <1>1, TypeInit, TypeStep, PTL DEF Spec
-----------------------------------------------------------------------------
(***************************************************************************)
(* Truthful boot kinds.  BootKindTruthful speaks of kinds stored long ago; *)
(* what keeps it true is how the last record, the unit and the machine's   *)
(* fate hang together while no capture has been missed.                    *)
(***************************************************************************)

Last == timeline[Len(timeline)]

\* A running boot has its ExecStop due.
UnitWatches == power # "off" => unit

\* The last record is of the current boot.
LastOfBoot ==
  IF boot = 0 THEN power = "off" /\ timeline = <<>>
              ELSE timeline # <<>> /\ Last.boot = boot

\* A last record that tells a stop is true, and only a crash or a cut ends a
\* boot without one.
StopsTold ==
  boot > 0 =>
    /\ Last.event = "reboot" => request[boot] = "reboot"
    /\ Last.event \in StopEvents => request[boot] \in {"reboot", "poweroff"}
    /\ power = "stopping" => Last.event \in {"reboot"} \union StopEvents
    /\ power = "off" => \/ Last.event \in {"reboot"} \union StopEvents
                        \/ ending \in {"crash", "accut"}

\* What a stored kind says happened.
KindTold(rec) ==
  /\ rec.boot <= boot
  /\ rec.kind = "unexpected_power_loss" => began[rec.boot] \in {"crash", "accut"}
  /\ rec.kind = "warm_reboot" => rec.boot > 1 /\ request[rec.boot - 1] = "reboot"
  /\ rec.kind = "shutdown_poweroff" =>
       rec.boot > 1 /\ request[rec.boot - 1] \in {"reboot", "poweroff"}

KindsTold == \A i \in DOMAIN timeline : KindTold(timeline[i])

Truth == UnitWatches /\ LastOfBoot /\ StopsTold /\ KindsTold

TruthInv == lapses = 0 => Truth

\* A step that leaves no lapse had none before, and its capture recorded.
LEMMA NoLapse ==
  ASSUME TypeOK, NEW rec, Capture(rec), lapses' = 0
  PROVE  lapses = 0 /\ Recorded(rec)
BY DEF TypeOK, Capture

\* What is told stays told when only the running boot's request changes.
LEMMA ToldStays ==
  ASSUME TypeOK, NEW rec \in Record, KindTold(rec), boot' = boot,
         began' = began, \A b \in Boots : b < boot => request'[b] = request[b]
  PROVE  KindTold(rec)'
<1>. rec.boot \in Boots /\ boot \in 0..MaxBoots
  BY DEF TypeOK, Record
<1>1. rec.boot <= boot
  BY DEF KindTold
<1>2. rec.boot > 1 => rec.boot - 1 \in Boots /\ rec.boot - 1 < boot
  BY <1>1, BoundsAssumption DEF Boots
<1>3. rec.boot > 1 => request'[rec.boot - 1] = request[rec.boot - 1]
  BY <1>2
<1>. QED  BY <1>3 DEF KindTold

\* A record of the running boot that classifies nothing becomes the last one
\* and tells nothing untrue.
LEMMA RecordedTruth ==
  ASSUME TypeInv, Truth, boot \in Boots, boot' = boot, began' = began,
         \A b \in Boots : b < boot => request'[b] = request[b],
         NEW rec \in Record, rec.boot = boot, rec.kind = "unknown", Recorded(rec)
  PROVE  Last' = rec /\ LastOfBoot' /\ KindsTold'
<1>. TypeOK /\ timeline \in Seq(Record) /\ timeline' = Append(timeline, rec)
  BY DEF TypeInv, TypeOK, Recorded
<1>. /\ Len(timeline') = Len(timeline) + 1
     /\ DOMAIN timeline' = 1..(Len(timeline) + 1)
     /\ \A i \in 1..Len(timeline) : timeline'[i] = timeline[i]
     /\ timeline'[Len(timeline) + 1] = rec
  BY Appended
<1>1. Last' = rec
  BY DEF Last
<1>2. LastOfBoot'
  BY <1>1, BoundsAssumption DEF LastOfBoot, Boots
<1>3. ASSUME NEW i \in 1..(Len(timeline) + 1)
      PROVE  KindTold(timeline[i])'
  <2>1. CASE i = Len(timeline) + 1
    BY <2>1, BoundsAssumption DEF KindTold, Boots
  <2>2. CASE i # Len(timeline) + 1
    <3>1. i \in 1..Len(timeline) /\ i \in DOMAIN timeline
      BY <2>2
    <3>2. KindTold(timeline[i]) /\ timeline[i] \in Record
      BY <3>1 DEF Truth, KindsTold
    <3>3. PICK r \in Record : r = timeline[i]
      BY <3>2
    <3>4. KindTold(r)'
      BY <3>2, <3>3, ToldStays
    <3>5. timeline'[i] = r
      BY <3>1, <3>3
    <3>. QED  BY <3>4, <3>5 DEF KindTold
  <2>. QED  BY <2>1, <2>2
<1>. QED  BY <1>1, <1>2, <1>3 DEF KindsTold

\* The same for a capture of any event but boot and recover.
LEMMA PlainTruth ==
  ASSUME TypeInv, Truth, boot \in Boots, boot' = boot, began' = began,
         \A b \in Boots : b < boot => request'[b] = request[b],
         NEW event \in Events, Plain(event) \in Record, Recorded(Plain(event))
  PROVE  Last'.event = event /\ LastOfBoot' /\ KindsTold'
<1>1. /\ Plain(event).boot = boot
      /\ Plain(event).kind = "unknown"
      /\ Plain(event).event = event
  BY DEF Plain
<1>2. Last' = Plain(event) /\ LastOfBoot' /\ KindsTold'
  BY <1>1, RecordedTruth
<1>. QED  BY <1>1, <1>2, Zenon

\* Steps that touch neither record nor boot leave what is told as it was.
LEMMA SilentTruth ==
  ASSUME TypeInv, Truth, boot \in Boots, boot' = boot, began' = began,
         request' = request, timeline' = timeline
  PROVE  Last' = Last /\ LastOfBoot' /\ KindsTold'
<1>1. Last' = Last
  BY DEF Last
<1>2. LastOfBoot'
  BY <1>1, BoundsAssumption DEF Truth, LastOfBoot, Boots
<1>3. KindsTold'
  BY DEF Truth, KindsTold, KindTold
<1>. QED  BY <1>1, <1>2, <1>3

\* The record of a boot tells the truth about the end of the one before.
LEMMA BootRecordTruth ==
  ASSUME TypeInv, Truth, PowerUp, Recorded(BootRecord), BootRecord \in Record
  PROVE  Last' = BootRecord /\ LastOfBoot' /\ KindsTold'
<1>. TypeOK /\ timeline \in Seq(Record) /\ timeline' = Append(timeline, BootRecord)
  BY DEF TypeInv, TypeOK, Recorded
<1>. /\ Len(timeline') = Len(timeline) + 1
     /\ DOMAIN timeline' = 1..(Len(timeline) + 1)
     /\ \A i \in 1..Len(timeline) : timeline'[i] = timeline[i]
     /\ timeline'[Len(timeline) + 1] = BootRecord
  BY Appended
<1>. boot \in Nat /\ boot' = boot + 1 /\ boot + 1 \in Boots
  BY BoundsAssumption DEF PowerUp, TypeOK, Boots
<1>. /\ began' = [began EXCEPT ![boot + 1] = ending]
     /\ request' = request /\ power = "off"
     /\ began \in [Boots -> Endings]
  BY DEF PowerUp, TypeOK
<1>1. Last' = BootRecord
  BY DEF Last
<1>2. BootRecord.boot = boot + 1 /\ BootRecord.kind = ClassifyBootKind(timeline, boot + 1)
  BY DEF BootRecord
<1>3. LastOfBoot'
  BY <1>1, <1>2 DEF LastOfBoot
<1>. PICK rec \in Record : rec = BootRecord
  OBVIOUS
<1>4. KindTold(rec)'
  <2>1. CASE boot = 0
    <3>1. timeline = <<>>
      BY <2>1 DEF Truth, LastOfBoot
    <3>2. rec.kind = "unknown"
      BY <1>2, <3>1 DEF ClassifyBootKind
    <3>. QED  BY <1>2, <3>2 DEF KindTold
  <2>2. CASE boot # 0
    <3>1. timeline # <<>> /\ Last.boot = boot
      BY <2>2 DEF Truth, LastOfBoot
    <3>2. rec.kind = ClassifyPrevious(Last.event)
      BY <1>2, <3>1 DEF ClassifyBootKind, Last
    <3>3. /\ Last.event = "reboot" => request[boot] = "reboot"
          /\ Last.event \in StopEvents => request[boot] \in {"reboot", "poweroff"}
          /\ \/ Last.event \in {"reboot"} \union StopEvents
             \/ ending \in {"crash", "accut"}
      BY <2>2 DEF Truth, StopsTold
    <3>4. began'[boot + 1] = ending
      OBVIOUS
    <3>5. rec.boot > 1 /\ rec.boot - 1 = boot
      BY <1>2, <2>2
    <3>6. CASE Last.event = "reboot"
      <4>1. rec.kind = "warm_reboot"
        BY <3>2, <3>6 DEF ClassifyPrevious, StopEvents
      <4>. QED  BY <1>2, <3>3, <3>5, <3>6, <4>1 DEF KindTold
    <3>7. CASE Last.event \in StopEvents
      <4>1. rec.kind = "shutdown_poweroff"
        BY <3>2, <3>7 DEF ClassifyPrevious, StopEvents
      <4>. QED  BY <1>2, <3>3, <3>5, <3>7, <4>1 DEF KindTold
    <3>8. CASE Last.event \notin {"reboot"} \union StopEvents
      <4>1. rec.kind = "unexpected_power_loss"
        BY <3>2, <3>8 DEF ClassifyPrevious, StopEvents
      <4>. QED  BY <1>2, <3>3, <3>4, <3>8, <4>1 DEF KindTold
    <3>. QED  BY <3>6, <3>7, <3>8
  <2>. QED  BY <2>1, <2>2
<1>5. ASSUME NEW i \in 1..(Len(timeline) + 1)
      PROVE  KindTold(timeline[i])'
  <2>1. CASE i = Len(timeline) + 1
    <3>1. timeline'[i] = rec
      BY <2>1
    <3>. QED  BY <1>4, <3>1 DEF KindTold
  <2>2. CASE i # Len(timeline) + 1
    <3>1. i \in 1..Len(timeline) /\ i \in DOMAIN timeline
      BY <2>2
    <3>2. PICK r \in Record : r = timeline[i]
      BY <3>1
    <3>3. KindTold(r)
      BY <3>1, <3>2 DEF Truth, KindsTold
    <3>4. r.boot \in Boots /\ r.boot <= boot /\ r.boot # boot + 1
      BY <3>3 DEF KindTold, Record, Boots
    <3>5. began'[r.boot] = began[r.boot]
      BY <3>4
    <3>6. KindTold(r)'
      BY <3>3, <3>4, <3>5 DEF KindTold, Boots
    <3>7. timeline'[i] = r
      BY <3>1, <3>2
    <3>. QED  BY <3>6, <3>7 DEF KindTold
  <2>. QED  BY <2>1, <2>2
<1>. QED  BY <1>1, <1>3, <1>5 DEF KindsTold

LEMMA TruthInit == Init => TruthInv
BY DEF Init, TruthInv, Truth, UnitWatches, LastOfBoot, StopsTold, KindsTold

\* Every step that misses no capture keeps the truth.
LEMMA TruthStep ==
  ASSUME TypeInv, TypeInv', TruthInv, [Next]_vars
  PROVE  TruthInv'
<1>. SUFFICES ASSUME lapses' = 0
              PROVE  Truth'
  BY DEF TruthInv
<1>. TypeOK /\ TypeOK' /\ (power # "off" => boot \in Boots)
  BY DEF TypeInv
<1>. lapses \in Nat /\ timeline \in Seq(Record)
  BY DEF TypeOK
<1>. /\ "suspend-pre" \in Events /\ "suspend-post" \in Events
     /\ "reboot" \in Events /\ "poweroff" \in Events /\ "shutdown" \in Events
     /\ "manual" \in Events /\ "recover" \in Events
  BY DEF Events
<1>. /\ "reboot" \notin StopEvents /\ "boot" \notin StopEvents
     /\ "suspend-pre" \notin StopEvents /\ "suspend-post" \notin StopEvents
     /\ "manual" \notin StopEvents /\ "recover" \notin StopEvents
     /\ "shutdown" \in StopEvents /\ "poweroff" \in StopEvents
  BY DEF StopEvents
<1>1. CASE PowerUp
  <2>1. lapses = 0 /\ Recorded(BootRecord)
    BY <1>1, NoLapse DEF PowerUp
  <2>2. Truth
    BY <2>1 DEF TruthInv
  <2>3. BootRecord \in Record
    BY <1>1, RecordTypes DEF PowerUp, TypeInv, TypeOK
  <2>4. Last' = BootRecord /\ LastOfBoot' /\ KindsTold'
    BY <1>1, <2>1, <2>2, <2>3, BootRecordTruth
  <2>5. Last'.event = "boot"
    BY <2>4 DEF BootRecord
  <2>6. UnitWatches' /\ StopsTold'
    BY <1>1, <2>5 DEF PowerUp, UnitWatches, StopsTold
  <2>. QED  BY <2>4, <2>6 DEF Truth
<1>2. CASE Suspend
  <2>1. lapses = 0 /\ Recorded(Plain("suspend-pre"))
    BY <1>2, NoLapse DEF Suspend
  <2>2. Plain("suspend-pre") \in Record
    BY <1>2, RecordTypes DEF Suspend, TypeOK
  <2>3. Last'.event = "suspend-pre" /\ LastOfBoot' /\ KindsTold'
    BY <1>2, <2>1, <2>2, PlainTruth DEF Suspend, TruthInv
  <2>4. UnitWatches' /\ StopsTold'
    BY <1>2, <2>1, <2>3
       DEF Suspend, TruthInv, Truth, UnitWatches, StopsTold
  <2>. QED  BY <2>3, <2>4 DEF Truth
<1>3. CASE Resume
  <2>1. lapses = 0 /\ Recorded(Plain("suspend-post"))
    BY <1>3, NoLapse DEF Resume
  <2>2. Plain("suspend-post") \in Record
    BY <1>3, RecordTypes DEF Resume, TypeOK
  <2>3. Last'.event = "suspend-post" /\ LastOfBoot' /\ KindsTold'
    BY <1>3, <2>1, <2>2, PlainTruth DEF Resume, TruthInv, historyVars
  <2>4. UnitWatches' /\ StopsTold'
    BY <1>3, <2>1, <2>3
       DEF Resume, TruthInv, Truth, UnitWatches, StopsTold
  <2>. QED  BY <2>3, <2>4 DEF Truth
<1>4. CASE Snapshot
  <2>1. lapses = 0 /\ Recorded(Plain("manual"))
    BY <1>4, NoLapse DEF Snapshot
  <2>2. Plain("manual") \in Record
    BY <1>4, RecordTypes DEF Snapshot, TypeOK
  <2>3. Last'.event = "manual" /\ LastOfBoot' /\ KindsTold'
    BY <1>4, <2>1, <2>2, PlainTruth
       DEF Snapshot, TruthInv, machineVars, historyVars
  <2>4. UnitWatches' /\ StopsTold'
    BY <1>4, <2>1, <2>3
       DEF Snapshot, TruthInv, Truth, UnitWatches, StopsTold, machineVars
  <2>. QED  BY <2>3, <2>4 DEF Truth
<1>5. CASE StopUnit
  BY <1>5 DEF StopUnit
<1>6. CASE StartUnit
  <2>1. lapses = 0
    BY <1>6, NoLapse DEF StartUnit
  <2>2. unit
    BY <1>6, <2>1 DEF StartUnit, TruthInv, Truth, UnitWatches
  <2>. QED  BY <1>6, <2>2 DEF StartUnit
<1>7. CASE Fix
  <2>. DEFINE rec == [Plain("recover") EXCEPT !.cleared = latched /\ ~latched']
  <2>1. lapses = 0 /\ Recorded(rec)
    BY <1>7, NoLapse DEF Fix
  <2>2. latched' \in BOOLEAN /\ ghost' \in BOOLEAN /\ dmesg' \in BOOLEAN
    BY DEF TypeOK
  <2>3. Plain("recover") \in Record
    BY <1>7, <2>2, RecordTypes DEF Fix
  <2>4. (latched /\ ~latched') \in BOOLEAN
    OBVIOUS
  <2>5. rec \in Record
    BY <2>3, <2>4 DEF Record
  <2>6. rec.boot = boot /\ rec.kind = "unknown" /\ rec.event = "recover"
    BY DEF Plain
  <2>. HIDE DEF rec
  <2>7. Last' = rec /\ LastOfBoot' /\ KindsTold'
    BY <1>7, <2>1, <2>5, <2>6, RecordedTruth DEF Fix, TruthInv
  <2>8. UnitWatches' /\ StopsTold'
    BY <1>7, <2>1, <2>6, <2>7 DEF Fix, TruthInv, Truth, UnitWatches, StopsTold
  <2>. QED  BY <2>7, <2>8 DEF Truth
<1>8. ASSUME NEW mode \in {"reboot", "poweroff"}, Stop(mode)
      PROVE  Truth'
  <2>1. boot \in Boots /\ unit /\ lapses = 0
    <3>1. CASE unit
      BY <1>8, <3>1, NoLapse DEF Stop
    <3>2. CASE ~unit
      BY <1>8, <3>2 DEF Stop, recordVars, TruthInv, Truth, UnitWatches
    <3>. QED  BY <3>1, <3>2
  <2>2. PICK event \in {mode, "shutdown"} : Capture(Plain(event))
    BY <1>8, <2>1 DEF Stop
  <2>3. Recorded(Plain(event))
    BY <2>2, NoLapse
  <2>4. Plain(event) \in Record /\ event \in Events
    BY <1>8, <2>1, RecordTypes DEF Stop, TypeOK
  <2>5. /\ request' = [request EXCEPT ![boot] = mode]
        /\ boot' = boot /\ began' = began /\ power' = "stopping"
        /\ unit' = unit
    BY <1>8 DEF Stop
  <2>6. request'[boot] = mode /\ \A b \in Boots : b < boot => request'[b] = request[b]
    BY <2>1, <2>5, BoundsAssumption DEF TypeOK, Boots
  <2>7. Last'.event = event /\ LastOfBoot' /\ KindsTold'
    BY <2>1, <2>3, <2>4, <2>5, <2>6, PlainTruth DEF TruthInv
  <2>8. UnitWatches' /\ StopsTold'
    BY <1>8, <2>1, <2>5, <2>6, <2>7 DEF UnitWatches, StopsTold
  <2>. QED  BY <2>7, <2>8 DEF Truth
<1>9. CASE GoesDown
  <2>1. lapses = 0 /\ boot \in Boots
    BY <1>9 DEF GoesDown, recordVars
  <2>2. Last' = Last /\ LastOfBoot' /\ KindsTold'
    BY <1>9, <2>1, SilentTruth
       DEF GoesDown, TruthInv, recordVars, historyVars
  <2>3. UnitWatches' /\ StopsTold'
    BY <1>9, <2>1, <2>2
       DEF GoesDown, TruthInv, Truth, UnitWatches, StopsTold, historyVars
  <2>. QED  BY <2>2, <2>3 DEF Truth
<1>10. CASE Crash
  <2>1. lapses = 0 /\ boot \in Boots
    BY <1>10 DEF Crash, recordVars
  <2>2. Last' = Last /\ LastOfBoot' /\ KindsTold'
    BY <1>10, <2>1, SilentTruth
       DEF Crash, TruthInv, recordVars, historyVars
  <2>3. UnitWatches' /\ StopsTold'
    BY <1>10, <2>1, <2>2
       DEF Crash, TruthInv, Truth, UnitWatches, StopsTold, historyVars
  <2>. QED  BY <2>2, <2>3 DEF Truth
<1>11. CASE CutAC
  <2>1. lapses = 0 /\ Truth
    BY <1>11 DEF CutAC, recordVars, TruthInv
  <2>2. CASE boot \in Boots
    <3>1. Last' = Last /\ LastOfBoot' /\ KindsTold'
      BY <1>11, <2>1, <2>2, SilentTruth
         DEF CutAC, recordVars, historyVars
    <3>2. UnitWatches' /\ StopsTold'
      BY <1>11, <2>1, <2>2, <3>1
         DEF CutAC, Truth, UnitWatches, StopsTold, historyVars
    <3>. QED  BY <3>1, <3>2 DEF Truth
  <2>3. CASE boot = 0
    <3>1. power = "off" /\ timeline = <<>>
      BY <2>1, <2>3 DEF Truth, LastOfBoot
    <3>2. power' = "off" /\ timeline' = <<>> /\ boot' = 0
      BY <1>11, <2>3, <3>1 DEF CutAC, recordVars
    <3>. QED
      BY <3>2 DEF Truth, UnitWatches, LastOfBoot, StopsTold, KindsTold
  <2>. QED  BY <2>2, <2>3, BoundsAssumption DEF TypeOK, Boots
<1>12. CASE UNCHANGED vars
  BY <1>12 DEF TruthInv, Truth, UnitWatches, LastOfBoot, StopsTold, KindsTold,
     KindTold, Last, vars, machineVars, recordVars, historyVars
<1>. QED
  BY <1>1, <1>2, <1>3, <1>4, <1>5, <1>6, <1>7, <1>8, <1>9, <1>10, <1>11, <1>12
     DEF Next

\* What the invariant tells of stored kinds is what BootKindTruthful states.
LEMMA TruthTold == TruthInv => BootKindTruthful
BY DEF TruthInv, Truth, KindsTold, KindTold, BootKindTruthful

\* A stored boot kind is true as long as no capture was missed, for any number
\* of boots and records.
THEOREM BootKindTruthfulHolds == Spec => []BootKindTruthful
<1>1. TypeInv /\ TruthInv /\ [Next]_vars => (TypeInv /\ TruthInv)'
  BY TypeStep, TruthStep
<1>. QED  BY <1>1, TypeInit, TruthInit, TruthTold, PTL DEF Spec
-----------------------------------------------------------------------------
(***************************************************************************)
(* One transition per corrupt boot.  Repeats looks only at the alert just  *)
(* before; that is enough because the boots of a timeline never go back.   *)
(***************************************************************************)

\* Boots never go back along a timeline.
BootsRise(tl) ==
  \A i, j \in DOMAIN tl : i <= j => tl[i].boot <= tl[j].boot

RiseInv ==
  /\ BootsRise(timeline)
  /\ \A i \in DOMAIN timeline : timeline[i].boot <= boot

\* The boots of a timeline are numbers.
LEMMA BootNumbers ==
  ASSUME NEW tl \in Seq(Record)
  PROVE  /\ DOMAIN tl = 1..Len(tl) /\ Len(tl) \in Nat
         /\ \A k \in DOMAIN tl : tl[k].boot \in Nat
<1>1. \A rec \in Record : rec.boot \in Nat
  BY DEF Record, Boots
<1>2. \A k \in DOMAIN tl : tl[k] \in Record
  OBVIOUS
<1>. QED  BY <1>1, <1>2

\* A capture appends a record of the boot it names, or nothing.
LEMMA CaptureGrows ==
  ASSUME NEW rec, Capture(rec)
  PROVE  timeline' = timeline \/ timeline' = Append(timeline, rec)
BY DEF Capture, Recorded

\* A step appends at most one record, of the boot it ends in.
LEMMA TimelineGrows ==
  ASSUME TypeInv, TypeInv', [Next]_vars
  PROVE  /\ boot <= boot'
         /\ \/ timeline' = timeline
            \/ \E rec \in Record : rec.boot = boot' /\ timeline' = Append(timeline, rec)
<1>. TypeOK /\ boot \in Nat /\ (power # "off" => boot \in Boots)
  BY BoundsAssumption DEF TypeInv, TypeOK
<1>. latched' \in BOOLEAN /\ ghost' \in BOOLEAN /\ dmesg' \in BOOLEAN
  BY DEF TypeInv, TypeOK
<1>. DEFINE Grown == \/ timeline' = timeline
                     \/ \E rec \in Record : /\ rec.boot = boot'
                                            /\ timeline' = Append(timeline, rec)
<1>0. ASSUME NEW event \in Events, boot \in Boots, boot' = boot, Capture(Plain(event))
      PROVE  Grown
  <2>1. Plain(event) \in Record /\ Plain(event).boot = boot
    BY <1>0, RecordTypes DEF Plain
  <2>. QED  BY <1>0, <2>1, CaptureGrows
<1>1. CASE PowerUp
  <2>1. boot' = boot + 1 /\ boot' \in Boots /\ Capture(BootRecord)
    BY <1>1, BoundsAssumption DEF PowerUp, TypeOK, Boots
  <2>2. BootRecord \in Record /\ BootRecord.boot = boot'
    BY <2>1, RecordTypes DEF BootRecord
  <2>. QED  BY <2>1, <2>2, CaptureGrows
<1>2. CASE Suspend
  BY <1>0, <1>2 DEF Suspend, Events
<1>3. CASE Resume
  BY <1>0, <1>3 DEF Resume, Events
<1>4. CASE Snapshot
  BY <1>0, <1>4 DEF Snapshot, Events, machineVars
<1>5. CASE StopUnit
  <2>1. boot' = boot /\ timeline' = Append(timeline, Plain("shutdown")) /\ boot \in Boots
    BY <1>5 DEF StopUnit, Recorded
  <2>2. Plain("shutdown") \in Record /\ Plain("shutdown").boot = boot
    BY <2>1, RecordTypes DEF Plain, Events
  <2>. QED  BY <2>1, <2>2
<1>6. CASE StartUnit
  <2>1. boot' = boot /\ boot' \in Boots /\ Capture(BootRecord)
    BY <1>6 DEF StartUnit
  <2>2. BootRecord \in Record /\ BootRecord.boot = boot'
    BY <2>1, RecordTypes DEF BootRecord
  <2>. QED  BY <2>1, <2>2, CaptureGrows
<1>7. CASE Fix
  <2>. DEFINE fixed == [Plain("recover") EXCEPT !.cleared = latched /\ ~latched']
  <2>1. boot' = boot /\ boot \in Boots /\ Capture(fixed)
    BY <1>7 DEF Fix
  <2>2. Plain("recover") \in Record
    BY <2>1, RecordTypes DEF Events
  <2>3. (latched /\ ~latched') \in BOOLEAN
    OBVIOUS
  <2>4. fixed \in Record /\ fixed.boot = boot
    BY <2>2, <2>3 DEF Record, Plain
  <2>. HIDE DEF fixed
  <2>. QED  BY <2>1, <2>4, CaptureGrows
<1>8. ASSUME NEW mode \in {"reboot", "poweroff"}, Stop(mode)
      PROVE  boot <= boot' /\ Grown
  <2>1. CASE unit
    <3>1. PICK event \in {mode, "shutdown"} : Capture(Plain(event))
      BY <1>8, <2>1 DEF Stop
    <3>2. boot' = boot /\ boot \in Boots /\ event \in Events
      BY <1>8 DEF Stop, Events
    <3>. QED  BY <1>0, <3>1, <3>2
  <2>2. CASE ~unit
    BY <1>8, <2>2 DEF Stop, recordVars
  <2>. QED  BY <2>1, <2>2
<1>9. CASE GoesDown
  BY <1>9 DEF GoesDown, recordVars
<1>10. CASE Crash
  BY <1>10 DEF Crash, recordVars
<1>11. CASE CutAC
  BY <1>11 DEF CutAC, recordVars
<1>12. CASE UNCHANGED vars
  BY <1>12 DEF vars, machineVars, recordVars
<1>. HIDE DEF Grown
<1>. QED
  BY <1>1, <1>2, <1>3, <1>4, <1>5, <1>6, <1>7, <1>8, <1>9, <1>10, <1>11, <1>12
     DEF Next, Grown

LEMMA RiseInit == Init => RiseInv
BY DEF Init, RiseInv, BootsRise

\* Every step keeps the boots of the timeline in order.
LEMMA RiseStep ==
  ASSUME TypeInv, TypeInv', RiseInv, [Next]_vars
  PROVE  RiseInv'
<1>. timeline \in Seq(Record) /\ boot \in Nat /\ boot' \in Nat
  BY BoundsAssumption DEF TypeInv, TypeOK
<1>. \A i \in DOMAIN timeline : timeline[i].boot \in Nat
  BY BootNumbers
<1>0. boot <= boot'
  BY TimelineGrows
<1>1. CASE timeline' = timeline
  BY <1>0, <1>1 DEF RiseInv, BootsRise
<1>2. ASSUME NEW rec \in Record, rec.boot = boot', timeline' = Append(timeline, rec)
      PROVE  RiseInv'
  <2>. DEFINE n == Len(timeline)
  <2>1. /\ DOMAIN timeline' = 1..(n + 1)
        /\ \A i \in 1..n : timeline'[i] = timeline[i]
        /\ timeline'[n + 1] = rec
    BY <1>2, Appended
  <2>2. \A i \in 1..n : timeline[i].boot <= boot' /\ timeline[i].boot \in Nat
    BY <1>0 DEF RiseInv
  <2>3. \A i \in 1..(n + 1) : timeline'[i].boot <= boot'
    BY <1>2, <2>1, <2>2
  <2>4. ASSUME NEW i \in 1..(n + 1), NEW j \in 1..(n + 1), i <= j
        PROVE  timeline'[i].boot <= timeline'[j].boot
    <3>1. CASE j = n + 1
      BY <1>2, <2>1, <2>3, <3>1
    <3>2. CASE j # n + 1
      <4>1. i \in 1..n /\ j \in 1..n
        BY <2>4, <3>2
      <4>. QED  BY <2>1, <2>4, <4>1 DEF RiseInv, BootsRise
    <3>. QED  BY <3>1, <3>2
  <2>. QED  BY <2>1, <2>3, <2>4 DEF RiseInv, BootsRise
<1>. QED  BY <1>1, <1>2, TimelineGrows

\* When boots never go back, the first alert of a boot is its only transition.
LEMMA FirstAlertOnly ==
  ASSUME NEW tl \in Seq(Record), BootsRise(tl), NEW i \in Alerts(tl)
  PROVE  LET same == Alerts(tl) \intersect OfBoot(tl, tl[i].boot)
         IN  same \intersect Transitions(tl) = {FirstOf(same)}
<1>. DEFINE same == Alerts(tl) \intersect OfBoot(tl, tl[i].boot)
<1>. DEFINE first == FirstOf(same)
<1>1. /\ DOMAIN tl = 1..Len(tl) /\ Len(tl) \in Nat
      /\ \A k \in DOMAIN tl : tl[k].boot \in Nat
  BY BootNumbers
<1>2. Alerts(tl) \subseteq 1..Len(tl)
  BY <1>1 DEF Alerts
<1>3. \A k : k \in same <=> k \in Alerts(tl) /\ tl[k].boot = tl[i].boot
  BY DEF OfBoot, Alerts
<1>4. i \in same /\ same \in SUBSET Nat
  BY <1>2, <1>3
<1>. HIDE DEF same
<1>5. first \in same /\ \A k \in same : first <= k
  BY <1>4, FirstOfSet
<1>. HIDE DEF first
<1>6. first \in Alerts(tl) /\ first \in 1..Len(tl) /\ tl[first].boot = tl[i].boot
  BY <1>2, <1>3, <1>5
<1>7. ASSUME NEW k \in 1..Len(tl), Alerts(tl) \intersect Before(k) # {}
      PROVE  /\ LastOf(Alerts(tl) \intersect Before(k)) \in Alerts(tl)
             /\ LastOf(Alerts(tl) \intersect Before(k)) < k
             /\ \A j \in Alerts(tl) : j < k => j <= LastOf(Alerts(tl) \intersect Before(k))
  <2>. DEFINE S == Alerts(tl) \intersect Before(k)
  <2>1. S \in SUBSET (1..Len(tl)) /\ \A j \in Alerts(tl) : j \in S <=> j < k
    BY <1>2 DEF Before
  <2>2. LastOf(S) \in S /\ \A j \in S : j <= LastOf(S)
    BY <1>1, <1>7, <2>1, LastOfSet
  <2>. QED  BY <2>1, <2>2
<1>8. ~Repeats(tl, first)
  <2>. DEFINE last == LastOf(Alerts(tl) \intersect Before(first))
  <2>1. CASE Alerts(tl) \intersect Before(first) = {}
    BY <2>1 DEF Repeats, LastOf
  <2>2. CASE Alerts(tl) \intersect Before(first) # {}
    <3>1. last \in Alerts(tl) /\ last < first
      BY <1>6, <1>7, <2>2
    <3>2. last \notin same
      BY <1>2, <1>5, <1>6, <3>1
    <3>. QED  BY <1>3, <1>6, <3>1, <3>2 DEF Repeats
  <2>. QED  BY <2>1, <2>2
<1>9. ASSUME NEW k \in same, k # first
      PROVE  Repeats(tl, k)
  <2>. DEFINE last == LastOf(Alerts(tl) \intersect Before(k))
  <2>1. k \in 1..Len(tl) /\ first < k /\ tl[k].boot = tl[first].boot
    BY <1>2, <1>3, <1>5, <1>6, <1>9
  <2>2. first \in Alerts(tl) \intersect Before(k)
    BY <1>6, <2>1 DEF Before
  <2>3. last \in Alerts(tl) /\ last < k /\ first <= last
    BY <1>6, <1>7, <2>1, <2>2
  <2>4. last \in 1..Len(tl)
    BY <1>2, <2>3
  <2>5. tl[first].boot <= tl[last].boot /\ tl[last].boot <= tl[k].boot
    BY <1>1, <1>6, <2>1, <2>3, <2>4 DEF BootsRise
  <2>6. tl[last].boot = tl[k].boot
    BY <1>1, <1>6, <2>1, <2>4, <2>5
  <2>. QED  BY <2>4, <2>6 DEF Repeats
<1>10. same \intersect Transitions(tl) = {first}
  BY <1>3, <1>5, <1>6, <1>8, <1>9 DEF Transitions
<1>. QED  BY <1>10 DEF same, first

\* The invariant makes every corrupt boot tell one transition.
LEMMA RiseTells ==
  ASSUME TypeInv, RiseInv
  PROVE  OneTransitionPerCorruptBoot
BY FirstAlertOnly DEF TypeInv, TypeOK, RiseInv, OneTransitionPerCorruptBoot

\* The report tells each corrupt boot once, at its first alert, for any number
\* of boots, records, fixes and missed captures.
THEOREM OneTransitionPerCorruptBootHolds == Spec => []OneTransitionPerCorruptBoot
<1>1. TypeInv /\ RiseInv /\ [Next]_vars => (TypeInv /\ RiseInv)'
  BY TypeStep, RiseStep
<1>2. TypeInv /\ RiseInv => OneTransitionPerCorruptBoot
  BY RiseTells
<1>. QED  BY <1>1, <1>2, TypeInit, RiseInit, PTL DEF Spec
-----------------------------------------------------------------------------
(***************************************************************************)
(* Clears on record.  A record of a verified clear stands for one in its   *)
(* boot, whichever captures of other fixes were missed.                    *)
(***************************************************************************)

ClearInv == \A i \in DOMAIN timeline : timeline[i].cleared => timeline[i].boot \in cleared

\* A capture's record is the last one.
LEMMA CaptureLast ==
  ASSUME TypeInv, NEW rec \in Record, Capture(rec), timeline' # timeline
  PROVE  timeline'[Len(timeline) + 1] = rec
BY Appended, CaptureGrows DEF TypeInv, TypeOK

\* Only a fix records a clear, and only one it verified.
LEMMA ClearTold ==
  ASSUME TypeInv, TypeInv', [Next]_vars, timeline' # timeline,
         timeline'[Len(timeline) + 1].cleared
  PROVE  boot' \in cleared'
<1>. TypeOK /\ boot \in Nat /\ (power # "off" => boot \in Boots)
  BY BoundsAssumption DEF TypeInv, TypeOK
<1>. latched' \in BOOLEAN /\ ghost' \in BOOLEAN /\ dmesg' \in BOOLEAN
  BY DEF TypeInv, TypeOK
<1>1. ASSUME NEW event \in Events, boot \in Boots, Capture(Plain(event))
      PROVE  FALSE
  <2>1. Plain(event) \in Record /\ Plain(event).cleared = FALSE
    BY <1>1, RecordTypes DEF Plain
  <2>2. timeline'[Len(timeline) + 1] = Plain(event)
    BY <1>1, <2>1, CaptureLast
  <2>. QED  BY <2>1, <2>2
<1>2. ASSUME boot' \in Boots, Capture(BootRecord)
      PROVE  FALSE
  <2>1. BootRecord \in Record /\ BootRecord.cleared = FALSE
    BY <1>2, RecordTypes DEF BootRecord
  <2>2. timeline'[Len(timeline) + 1] = BootRecord
    BY <1>2, <2>1, CaptureLast
  <2>. QED  BY <2>1, <2>2
<1>3. CASE Suspend \/ Resume \/ Snapshot
  BY <1>1, <1>3 DEF Suspend, Resume, Snapshot, Events
<1>4. CASE PowerUp \/ StartUnit
  <2>1. CASE PowerUp
    <3>1. boot' = boot + 1 /\ boot' \in Boots /\ Capture(BootRecord)
      BY <2>1, BoundsAssumption DEF PowerUp, TypeOK, Boots
    <3>. QED  BY <1>2, <3>1
  <2>2. CASE StartUnit
    <3>1. boot' \in Boots /\ Capture(BootRecord)
      BY <2>2 DEF StartUnit
    <3>. QED  BY <1>2, <3>1
  <2>. QED  BY <1>4, <2>1, <2>2
<1>5. CASE StopUnit
  <2>1. Capture(Plain("shutdown")) \/ timeline' = Append(timeline, Plain("shutdown"))
    BY <1>5 DEF StopUnit, Recorded
  <2>2. Plain("shutdown") \in Record /\ Plain("shutdown").cleared = FALSE
    BY <1>5, RecordTypes DEF StopUnit, Plain, Events
  <2>3. timeline'[Len(timeline) + 1] = Plain("shutdown")
    BY <2>1, <2>2, CaptureLast, Appended DEF TypeOK
  <2>. QED  BY <2>2, <2>3
<1>6. CASE Fix
  <2>. DEFINE fixed == [Plain("recover") EXCEPT !.cleared = latched /\ ~latched']
  <2>1. Plain("recover") \in Record
    BY <1>6, RecordTypes DEF Fix, Events
  <2>2. (latched /\ ~latched') \in BOOLEAN
    OBVIOUS
  <2>3. fixed \in Record /\ fixed.cleared = (latched /\ ~latched')
    BY <2>1, <2>2 DEF Record
  <2>4. Capture(fixed) /\ boot' = boot
    BY <1>6 DEF Fix
  <2>. HIDE DEF fixed
  <2>5. timeline'[Len(timeline) + 1] = fixed
    BY <2>3, <2>4, CaptureLast
  <2>6. latched /\ ~latched'
    BY <2>3, <2>5, Zenon
  <2>. QED  BY <1>6, <2>4, <2>6 DEF Fix
<1>7. ASSUME NEW mode \in {"reboot", "poweroff"}, Stop(mode)
      PROVE  FALSE
  <2>1. CASE unit
    <3>1. PICK event \in {mode, "shutdown"} : Capture(Plain(event))
      BY <1>7, <2>1 DEF Stop
    <3>. QED  BY <1>1, <1>7, <3>1 DEF Stop, Events
  <2>2. CASE ~unit
    BY <1>7, <2>2 DEF Stop, recordVars
  <2>. QED  BY <2>1, <2>2
<1>8. CASE GoesDown \/ Crash \/ CutAC \/ UNCHANGED vars
  BY <1>8 DEF GoesDown, Crash, CutAC, vars, recordVars
<1>. QED  BY <1>3, <1>4, <1>5, <1>6, <1>7, <1>8 DEF Next

\* Every step keeps what is said of clears true.
LEMMA ClearStep ==
  ASSUME TypeInv, TypeInv', ClearInv, [Next]_vars
  PROVE  ClearInv'
<1>. timeline \in Seq(Record)
  BY DEF TypeInv, TypeOK
<1>1. cleared \subseteq cleared'
  BY DEF Next, PowerUp, Suspend, Resume, Snapshot, StopUnit, StartUnit, Fix, Stop, GoesDown,
     Crash, CutAC, vars, historyVars
<1>2. CASE timeline' = timeline
  BY <1>1, <1>2 DEF ClearInv
<1>3. ASSUME NEW rec \in Record, rec.boot = boot', timeline' = Append(timeline, rec),
             timeline' # timeline
      PROVE  ClearInv'
  <2>1. /\ DOMAIN timeline' = 1..(Len(timeline) + 1)
        /\ \A i \in 1..Len(timeline) : timeline'[i] = timeline[i]
        /\ timeline'[Len(timeline) + 1] = rec
    BY <1>3, Appended
  <2>. SUFFICES ASSUME NEW i \in 1..(Len(timeline) + 1), timeline'[i].cleared
                PROVE  timeline'[i].boot \in cleared'
    BY <2>1 DEF ClearInv
  <2>2. CASE i = Len(timeline) + 1
    <3>1. boot' \in cleared'
      BY <1>3, <2>2, ClearTold
    <3>. QED  BY <1>3, <2>1, <2>2, <3>1
  <2>3. CASE i # Len(timeline) + 1
    <3>1. i \in 1..Len(timeline) /\ i \in DOMAIN timeline
      BY <2>3
    <3>. QED  BY <1>1, <2>1, <3>1 DEF ClearInv
  <2>. QED  BY <2>2, <2>3
<1>. QED  BY <1>2, <1>3, TimelineGrows

\* The last of some records of a timeline is one of them.
LEMMA LastRecord ==
  ASSUME NEW tl \in Seq(Record), NEW S \in SUBSET (DOMAIN tl), LastOf(S) # 0
  PROVE  LastOf(S) \in S /\ \A j \in S : j <= LastOf(S)
<1>1. S # {}
  BY DEF LastOf
<1>. QED  BY <1>1, BootNumbers, LastOfSet

\* "applied" is said of a recorded clear of the boot status speaks of.
LEMMA AppliedTold ==
  ASSUME TypeInv, ClearInv
  PROVE  AppliedMeansCleared
<1>. SUFFICES ASSUME RecoverStatus(timeline) = "applied"
              PROVE  LatestBootId(timeline) \in cleared
  BY DEF AppliedMeansCleared
<1>. DEFINE S == {i \in Recovers(timeline) : timeline[i].boot = LatestBootId(timeline)}
<1>1. timeline \in Seq(Record) /\ S \in SUBSET (DOMAIN timeline)
  BY DEF TypeInv, TypeOK, Recovers
<1>2. RecoverThisBoot(timeline) # 0 /\ timeline[RecoverThisBoot(timeline)].cleared
  BY DEF RecoverStatus
<1>3. RecoverThisBoot(timeline) \in S
  BY <1>1, <1>2, LastRecord DEF RecoverThisBoot
<1>. QED  BY <1>1, <1>2, <1>3 DEF ClearInv

\* What status says was applied this boot was, for any number of boots, fixes
\* and missed captures.
THEOREM AppliedMeansClearedHolds == Spec => []AppliedMeansCleared
<1>1. Init => ClearInv
  BY DEF Init, ClearInv
<1>2. TypeInv /\ ClearInv /\ [Next]_vars => (TypeInv /\ ClearInv)'
  BY TypeStep, ClearStep
<1>3. TypeInv /\ ClearInv => AppliedMeansCleared
  BY AppliedTold
<1>. QED  BY <1>1, <1>2, <1>3, TypeInit, PTL DEF Spec

\* The parts of the type the lemma below needs.
LEMMA TypeParts ==
  ASSUME TypeInv
  PROVE  timeline \in Seq(Record) /\ boot \in Nat
BY BoundsAssumption DEF TypeInv, TypeOK

\* After a record of the running boot come only records of it.
LEMMA SameBootLater ==
  ASSUME TypeInv, RiseInv, NEW i \in DOMAIN timeline, NEW j \in DOMAIN timeline,
         i <= j, timeline[i].boot = boot
  PROVE  j # 0 /\ timeline[j].boot = boot
<1>1. timeline \in Seq(Record) /\ boot \in Nat
  BY TypeParts
<1>2. timeline[j].boot \in Nat /\ j \in 1..Len(timeline) /\ Len(timeline) \in Nat
  BY <1>1, BootNumbers
<1>3. timeline[i].boot <= timeline[j].boot /\ timeline[j].boot <= boot
  BY DEF RiseInv, BootsRise
<1>. QED  BY <1>1, <1>2, <1>3

\* With its boot event on record, the running boot is the latest one recorded.
LEMMA RefusedTold ==
  ASSUME TypeInv, RiseInv, ClearInv
  PROVE  RefusedFixWasDone
<1>. SUFFICES ASSUME FixButton(timeline) = "already cleared",
                     NEW e \in OfBoot(timeline, boot), timeline[e].event = "boot"
              PROVE  boot \in cleared
  BY DEF RefusedFixWasDone
<1>. DEFINE B == {i \in DOMAIN timeline : timeline[i].event = "boot"}
            S == {i \in Recovers(timeline) : timeline[i].boot = LatestBootId(timeline)}
            last == LatestBoot(timeline)
<1>1. /\ timeline \in Seq(Record)
      /\ DOMAIN timeline = 1..Len(timeline) /\ Len(timeline) \in Nat
      /\ \A k \in DOMAIN timeline : timeline[k].boot \in Nat
      /\ boot \in Nat
  <2>1. timeline \in Seq(Record) /\ boot \in Nat
    BY TypeParts
  <2>. QED  BY <2>1, BootNumbers
<1>2. e \in B /\ timeline[e].boot = boot
  BY DEF OfBoot
<1>3. last \in B /\ e <= last
  <2>1. B \in SUBSET (1..Len(timeline)) /\ B # {}
    BY <1>1, <1>2
  <2>. QED  BY <1>1, <1>2, <2>1, LastOfSet DEF LatestBoot
<1>4. last # 0 /\ timeline[last].boot = boot
  <2>1. e \in DOMAIN timeline /\ last \in DOMAIN timeline /\ e <= last
    BY <1>2, <1>3
  <2>. HIDE DEF B, S, last
  <2>. QED  BY <1>2, <2>1, SameBootLater
<1>5. LatestBootId(timeline) = boot
  BY <1>4 DEF LatestBootId
<1>6. RecoverThisBoot(timeline) # 0 /\ timeline[RecoverThisBoot(timeline)].cleared
  BY <1>4 DEF FixButton
<1>7. S \in SUBSET (DOMAIN timeline) /\ RecoverThisBoot(timeline) \in S
  <2>1. S \in SUBSET (DOMAIN timeline)
    BY DEF Recovers
  <2>. QED  BY <1>1, <1>6, <2>1, LastRecord DEF RecoverThisBoot
<1>. QED  BY <1>5, <1>6, <1>7 DEF ClearInv

\* The Fix button refuses a running boot on record only after its own verified
\* clear, for any number of boots, fixes and missed captures.
THEOREM RefusedFixWasDoneHolds == Spec => []RefusedFixWasDone
<1>1. Init => RiseInv /\ ClearInv
  BY RiseInit DEF Init, ClearInv
<1>2. TypeInv /\ RiseInv /\ ClearInv /\ [Next]_vars => (TypeInv /\ RiseInv /\ ClearInv)'
  BY TypeStep, RiseStep, ClearStep
<1>3. TypeInv /\ RiseInv /\ ClearInv => RefusedFixWasDone
  BY RefusedTold
<1>. QED  BY <1>1, <1>2, <1>3, TypeInit, PTL DEF Spec
-----------------------------------------------------------------------------
(***************************************************************************)
(* Packages.  The chain of a transition reaches back to another boot, so   *)
(* the record whose boot's sleeps are counted is in it.                    *)
(***************************************************************************)

\* A chain holds the transition and the last record of another boot before it.
LEMMA ChainHolds ==
  ASSUME NEW tl \in Seq(Record), BootsRise(tl), NEW i \in Transitions(tl)
  PROVE  /\ i \in Chain(tl, i)
         /\ PrevBoot(tl, i) # 0 =>
              PrevBoot(tl, i) \in Chain(tl, i) /\ PrevBoot(tl, i) \in DOMAIN tl
<1>. DEFINE stops == {j \in Before(i) : /\ tl[j].event = "boot"
                                        /\ tl[j].boot # tl[i].boot \/ tl[j].alert}
            others == {j \in Before(i) : tl[j].boot # tl[i].boot}
            start == ChainStart(tl, i)
<1>1. /\ DOMAIN tl = 1..Len(tl) /\ Len(tl) \in Nat
      /\ \A k \in DOMAIN tl : tl[k].boot \in Nat
      /\ i \in 1..Len(tl) /\ i \in Alerts(tl)
  BY BootNumbers DEF Transitions, Alerts
<1>2. Before(i) \subseteq 1..Len(tl) /\ \A j \in Before(i) : j < i /\ j \in Nat
  BY <1>1 DEF Before
<1>3. ASSUME NEW j \in stops
      PROVE  tl[j].boot # tl[i].boot
  <2>. SUFFICES ASSUME tl[j].boot = tl[i].boot
                PROVE  FALSE
    OBVIOUS
  <2>. DEFINE A == Alerts(tl) \intersect Before(i)
              last == LastOf(A)
  <2>1. j \in A
    BY <1>1, <1>2 DEF Alerts
  <2>2. A \in SUBSET (1..Len(tl)) /\ A # {}
    BY <1>2, <2>1
  <2>. HIDE DEF A
  <2>3. last \in A /\ j <= last
    BY <1>1, <2>1, <2>2, LastOfSet
  <2>4. last \in 1..Len(tl) /\ last < i /\ last # 0 /\ j \in 1..Len(tl)
    BY <1>2, <2>1, <2>3 DEF A
  <2>5. tl[last].boot = tl[i].boot
    <3>1. tl[j].boot <= tl[last].boot /\ tl[last].boot <= tl[i].boot
      BY <1>1, <2>3, <2>4 DEF BootsRise
    <3>. QED  BY <1>1, <2>4, <3>1
  <2>. QED  BY <2>4, <2>5 DEF Transitions, Repeats, A
<1>4. /\ start \in 1..i
      /\ \A j \in others : (\A k \in others : k <= j) => start <= j
  <2>1. CASE stops = {}
    BY <1>1, <1>2, <2>1 DEF ChainStart
  <2>2. CASE stops # {}
    <3>1. stops \in SUBSET (1..Len(tl)) /\ start = LastOf(stops)
      BY <1>2, <2>2 DEF ChainStart
    <3>2. start \in stops
      BY <1>1, <2>2, <3>1, LastOfSet
    <3>3. start \in Before(i) /\ tl[start].boot # tl[i].boot
      BY <1>3, <3>1, <3>2
    <3>4. start \in others /\ start \in 1..i
      BY <1>1, <3>3 DEF Before
    <3>. QED  BY <3>4
  <2>. QED  BY <2>1, <2>2
<1>5. ASSUME PrevBoot(tl, i) # 0
      PROVE  PrevBoot(tl, i) \in others /\ \A k \in others : k <= PrevBoot(tl, i)
  <2>1. others \in SUBSET (DOMAIN tl)
    BY <1>1, <1>2
  <2>. QED  BY <1>5, <2>1, LastRecord DEF PrevBoot
<1>. QED  BY <1>1, <1>2, <1>4, <1>5 DEF Chain

\* A package of a timeline whose boots never go back holds what the report
\* shows and counts.
LEMMA PackedRows ==
  ASSUME NEW tl \in Seq(Record), BootsRise(tl), NEW i \in Transitions(tl)
  PROVE  /\ Chain(tl, i) \subseteq PackageDirs(tl)
         /\ OfBoot(tl, tl[i].boot) \subseteq PackageDirs(tl)
         /\ PrevBoot(tl, i) # 0 => OfBoot(tl, tl[PrevBoot(tl, i)].boot) \subseteq PackageDirs(tl)
<1>. DEFINE chained == UNION {Chain(tl, k) : k \in Transitions(tl)}
            boots == {j \in DOMAIN tl : tl[j].boot \in PackagedBoots(tl)}
<1>1. i \in DOMAIN tl /\ tl[i].alert
  BY DEF Transitions, Alerts
<1>2. chained \subseteq WantedDirs(tl) /\ boots \subseteq WantedDirs(tl)
  BY DEF WantedDirs
<1>3. i \in WantedDirs(tl)
  BY <1>1 DEF WantedDirs
<1>4. PackageDirs(tl) = WantedDirs(tl)
  BY <1>3 DEF PackageDirs
<1>5. Chain(tl, i) \subseteq chained
  OBVIOUS
<1>6. tl[i].boot \in PackagedBoots(tl)
  BY <1>1 DEF PackagedBoots
<1>7. ASSUME PrevBoot(tl, i) # 0
      PROVE  tl[PrevBoot(tl, i)].boot \in PackagedBoots(tl)
  <2>1. PrevBoot(tl, i) \in chained
    BY <1>5, <1>7, ChainHolds
  <2>. QED  BY <2>1 DEF PackagedBoots
<1>8. \A b \in PackagedBoots(tl) : OfBoot(tl, b) \subseteq boots
  BY DEF OfBoot
<1>. HIDE DEF chained, boots
<1>. QED  BY <1>2, <1>4, <1>5, <1>6, <1>7, <1>8

\* What the report shows and counts is in the package, for any number of boots,
\* records and missed captures.
THEOREM ReportRowsPackedHolds == Spec => []ReportRowsPacked
<1>1. TypeInv /\ RiseInv /\ [Next]_vars => (TypeInv /\ RiseInv)'
  BY TypeStep, RiseStep
<1>2. TypeInv /\ RiseInv => ReportRowsPacked
  BY PackedRows DEF TypeInv, TypeOK, RiseInv, ReportRowsPacked
<1>. QED  BY <1>1, <1>2, TypeInit, RiseInit, PTL DEF Spec

-----------------------------------------------------------------------------
(***************************************************************************)
(* How a boot started.  A boot event keeps what classify_boot_kind made of *)
(* the record before it, nothing else classifies; so a known kind stands   *)
(* on the first record of its boot, and both sections of a report look at  *)
(* the record before that one.                                             *)
(***************************************************************************)

\* The kind of record k is what its capture made of the record before it.
KindStored(tl, k) ==
  IF tl[k].event # "boot" THEN tl[k].kind = "unknown"
  ELSE IF k = 1 THEN tl[k].kind = "unknown"
  ELSE IF tl[k - 1].boot = tl[k].boot THEN tl[k].kind = "same_boot"
  ELSE tl[k].kind = ClassifyPrevious(tl[k - 1].event)

StoredInv == \A k \in DOMAIN timeline : KindStored(timeline, k)

\* What a capture may have recorded: who classifies, and who counts as a sleep.
Gained(rec) ==
  /\ rec \in Record
  /\ timeline' = Append(timeline, rec)
  /\ rec.boot = boot'
  /\ rec.kind = IF rec.event = "boot" THEN ClassifyBootKind(timeline, boot')
                                      ELSE "unknown"

\* A capture of a plain event records it or nothing.
LEMMA PlainGained ==
  ASSUME NEW event \in Events, Plain(event) \in Record, boot' = boot,
         event # "boot", timeline' # timeline,
         Capture(Plain(event)) \/ Recorded(Plain(event))
  PROVE  Gained(Plain(event)) /\ Plain(event).event = event
<1>1. timeline' = Append(timeline, Plain(event))
  BY DEF Capture, Recorded
<1>. HIDE DEF Events, Record
<1>2. /\ Plain(event).boot = boot
      /\ Plain(event).kind = "unknown"
      /\ Plain(event).event = event
  BY DEF Plain
<1>. QED  BY <1>1, <1>2, Zenon DEF Gained

\* A timeline that changed gained such a record; a sleep is one of Suspend.
LEMMA TimelineGains ==
  ASSUME TypeInv, TypeInv', [Next]_vars, timeline' # timeline
  PROVE  \E rec \in Record : /\ Gained(rec)
                             /\ Suspend => rec.event = "suspend-pre"
                             /\ ~Suspend => rec.event # "suspend-pre"
<1>. TypeOK /\ boot \in Nat /\ (power # "off" => boot \in Boots)
  BY BoundsAssumption DEF TypeInv, TypeOK
<1>. latched' \in BOOLEAN /\ ghost' \in BOOLEAN /\ dmesg' \in BOOLEAN
  BY DEF TypeInv, TypeOK
<1>. DEFINE Gain == \E rec \in Record : /\ Gained(rec)
                                        /\ Suspend => rec.event = "suspend-pre"
                                        /\ ~Suspend => rec.event # "suspend-pre"
<1>1. ASSUME NEW event \in Events, event # "boot", boot \in Boots, boot' = boot,
             Suspend <=> event = "suspend-pre",
             Capture(Plain(event)) \/ Recorded(Plain(event))
      PROVE  Gain
  <2>1. Plain(event) \in Record
    BY <1>1, RecordTypes
  <2>2. Gained(Plain(event)) /\ Plain(event).event = event
    BY <1>1, <2>1, PlainGained
  <2>. QED  BY <1>1, <2>1, <2>2
<1>2. ASSUME boot' \in Boots, ~Suspend, Capture(BootRecord)
      PROVE  Gain
  <2>1. BootRecord \in Record
    BY <1>2, RecordTypes
  <2>2. timeline' = Append(timeline, BootRecord)
    BY <1>2 DEF Capture, Recorded
  <2>3. /\ BootRecord.boot = boot' /\ BootRecord.event = "boot"
        /\ BootRecord.kind = ClassifyBootKind(timeline, boot')
    BY DEF BootRecord
  <2>. QED  BY <1>2, <2>1, <2>2, <2>3, Zenon DEF Gained
<1>3. CASE PowerUp
  <2>1. boot' \in Boots /\ Capture(BootRecord)
    BY <1>3, BoundsAssumption DEF PowerUp, TypeOK, Boots
  <2>2. ~Suspend
    BY <1>3 DEF PowerUp, Suspend
  <2>. QED  BY <1>2, <2>1, <2>2
<1>4. CASE Suspend
  BY <1>1, <1>4 DEF Suspend, Events
<1>5. CASE Resume
  BY <1>1, <1>5 DEF Resume, Suspend, Events
<1>6. CASE Snapshot
  <2>1. boot' = boot /\ power' = power /\ Capture(Plain("manual")) /\ power = "on"
    BY <1>6 DEF Snapshot, machineVars
  <2>2. ~Suspend
    BY <2>1 DEF Suspend
  <2>. QED  BY <1>1, <2>1, <2>2 DEF Events
<1>7. CASE StopUnit
  <2>1. boot' = boot /\ power' = power /\ Recorded(Plain("shutdown")) /\ power = "on"
    BY <1>7 DEF StopUnit
  <2>2. ~Suspend
    BY <2>1 DEF Suspend
  <2>. QED  BY <1>1, <2>1, <2>2 DEF Events
<1>8. CASE StartUnit
  <2>1. boot' \in Boots /\ power' = power /\ Capture(BootRecord) /\ power = "on"
    BY <1>8 DEF StartUnit
  <2>2. ~Suspend
    BY <2>1 DEF Suspend
  <2>. QED  BY <1>2, <2>1, <2>2
<1>9. CASE Fix
  <2>. DEFINE fixed == [Plain("recover") EXCEPT !.cleared = latched /\ ~latched']
  <2>1. boot' = boot /\ boot \in Boots /\ power' = power /\ power = "on" /\ Capture(fixed)
    BY <1>9 DEF Fix
  <2>2. Plain("recover") \in Record
    BY <2>1, RecordTypes DEF Events
  <2>3. (latched /\ ~latched') \in BOOLEAN
    OBVIOUS
  <2>4. /\ fixed \in Record /\ fixed.boot = boot
        /\ fixed.event = "recover" /\ fixed.kind = "unknown"
    BY <2>2, <2>3 DEF Record, Plain
  <2>5. ~Suspend
    BY <2>1 DEF Suspend
  <2>. HIDE DEF fixed
  <2>6. timeline' = Append(timeline, fixed)
    BY <2>1 DEF Capture, Recorded
  <2>7. Gained(fixed)
    BY <2>1, <2>4, <2>6 DEF Gained
  <2>. QED  BY <2>4, <2>5, <2>7
<1>10. ASSUME NEW mode \in {"reboot", "poweroff"}, Stop(mode)
       PROVE  Gain
  <2>1. power = "on" /\ power' = "stopping" /\ boot' = boot /\ unit
    BY <1>10 DEF Stop, recordVars
  <2>2. PICK event \in {mode, "shutdown"} : Capture(Plain(event))
    BY <1>10, <2>1 DEF Stop
  <2>3. ~Suspend
    BY <2>1 DEF Suspend
  <2>. QED  BY <1>1, <2>1, <2>2, <2>3 DEF Events
<1>11. CASE GoesDown \/ Crash \/ CutAC \/ UNCHANGED vars
  BY <1>11 DEF GoesDown, Crash, CutAC, recordVars, vars
<1>. QED
  BY <1>3, <1>4, <1>5, <1>6, <1>7, <1>8, <1>9, <1>10, <1>11 DEF Next

\* A gained record stores its kind by the record before it.
LEMMA GainedStored ==
  ASSUME timeline \in Seq(Record), StoredInv, NEW rec, Gained(rec)
  PROVE  StoredInv'
<1>. DEFINE n == Len(timeline)
<1>1. /\ n \in Nat
      /\ DOMAIN timeline = 1..n /\ DOMAIN timeline' = 1..(n + 1)
      /\ \A k \in 1..n : timeline'[k] = timeline[k]
      /\ timeline'[n + 1] = rec
  BY Appended DEF Gained
<1>. HIDE DEF n
<1>2. ASSUME NEW k \in 1..n
      PROVE  KindStored(timeline', k)
  <2>1. KindStored(timeline, k) /\ timeline'[k] = timeline[k]
    BY <1>1 DEF StoredInv
  <2>2. k # 1 => timeline'[k - 1] = timeline[k - 1]
    BY <1>1
  <2>. QED  BY <2>1, <2>2, Zenon DEF KindStored
<1>3. KindStored(timeline', n + 1)
  <2>1. n # 0 => timeline'[n] = timeline[n] /\ timeline # <<>> /\ (n + 1) - 1 = n /\ n + 1 # 1
    BY <1>1
  <2>2. n = 0 => timeline = <<>>
    BY DEF n
  <2>3. rec.boot = boot'
    BY DEF Gained
  <2>4. CASE rec.event # "boot"
    BY <1>1, <2>4 DEF Gained, KindStored
  <2>5. CASE rec.event = "boot"
    <3>1. rec.kind = ClassifyBootKind(timeline, boot')
      BY <2>5 DEF Gained
    <3>2. CASE n = 0
      BY <1>1, <2>2, <2>5, <3>1, <3>2 DEF ClassifyBootKind, KindStored
    <3>3. CASE n # 0
      <4>1. rec.kind = IF timeline[n].boot = rec.boot THEN "same_boot"
                       ELSE ClassifyPrevious(timeline[n].event)
        BY <2>1, <2>3, <3>1, <3>3 DEF ClassifyBootKind, n
      <4>. QED  BY <1>1, <2>1, <2>5, <3>3, <4>1 DEF KindStored
    <3>. QED  BY <3>2, <3>3
  <2>. QED  BY <2>4, <2>5
<1>. QED  BY <1>1, <1>2, <1>3 DEF StoredInv

LEMMA StoredStep == TypeInv /\ TypeInv' /\ StoredInv /\ [Next]_vars => StoredInv'
<1>. SUFFICES ASSUME TypeInv, TypeInv', StoredInv, [Next]_vars
              PROVE  StoredInv'
  OBVIOUS
<1>1. CASE timeline' = timeline
  BY <1>1 DEF StoredInv, KindStored
<1>2. CASE timeline' # timeline
  BY <1>2, TimelineGains, GainedStored, TypeParts
<1>. QED  BY <1>1, <1>2

\* The first record of a boot, and what is before it: the last record of any
\* boot before, and the boot listed before.
LEMMA BootHead ==
  ASSUME NEW tl \in Seq(Record), BootsRise(tl), NEW i \in DOMAIN tl
  PROVE  LET f == FirstOf(OfBoot(tl, tl[i].boot))
         IN  /\ f \in DOMAIN tl /\ f <= i /\ tl[f].boot = tl[i].boot
             /\ \A j \in DOMAIN tl : j < f => tl[j].boot < tl[i].boot
             /\ \A j \in f..i : tl[j].boot = tl[i].boot
<1>. DEFINE S == OfBoot(tl, tl[i].boot)
            f == FirstOf(S)
<1>1. /\ DOMAIN tl = 1..Len(tl) /\ Len(tl) \in Nat
      /\ \A k \in DOMAIN tl : tl[k].boot \in Nat
  BY BootNumbers
<1>2. S \in SUBSET Nat /\ i \in S /\ S \subseteq DOMAIN tl
  BY <1>1 DEF OfBoot
<1>. HIDE DEF S
<1>3. f \in S /\ \A j \in S : f <= j
  BY <1>2, FirstOfSet
<1>4. f \in DOMAIN tl /\ f <= i /\ tl[f].boot = tl[i].boot
  BY <1>2, <1>3 DEF S, OfBoot
<1>. HIDE DEF f
<1>5. ASSUME NEW j \in DOMAIN tl, j < f
      PROVE  tl[j].boot < tl[i].boot
  <2>1. j \notin S
    BY <1>1, <1>3, <1>4, <1>5
  <2>2. tl[j].boot # tl[i].boot
    BY <2>1 DEF S, OfBoot
  <2>3. tl[j].boot <= tl[f].boot
    BY <1>1, <1>4, <1>5 DEF BootsRise
  <2>4. tl[j].boot \in Nat /\ tl[i].boot \in Nat
    BY <1>1
  <2>. QED  BY <1>4, <2>2, <2>3, <2>4
<1>6. ASSUME NEW j \in f..i
      PROVE  tl[j].boot = tl[i].boot
  <2>1. j \in DOMAIN tl /\ f <= j /\ j <= i
    BY <1>1, <1>4, <1>6
  <2>2. tl[f].boot <= tl[j].boot /\ tl[j].boot <= tl[i].boot
    BY <1>4, <2>1 DEF BootsRise
  <2>3. tl[j].boot \in Nat /\ tl[i].boot \in Nat
    BY <1>1, <2>1
  <2>. QED  BY <1>4, <2>2, <2>3
<1>. QED  BY <1>4, <1>5, <1>6 DEF f, S

\* The last record of another boot before i is the one before the boot of i.
LEMMA PrevBootIs ==
  ASSUME NEW tl \in Seq(Record), BootsRise(tl), NEW i \in DOMAIN tl
  PROVE  PrevBoot(tl, i) = FirstOf(OfBoot(tl, tl[i].boot)) - 1
<1>. DEFINE f == FirstOf(OfBoot(tl, tl[i].boot))
            others == {j \in Before(i) : tl[j].boot # tl[i].boot}
<1>1. /\ DOMAIN tl = 1..Len(tl) /\ Len(tl) \in Nat
      /\ \A k \in DOMAIN tl : tl[k].boot \in Nat
  BY BootNumbers
<1>2. /\ f \in DOMAIN tl /\ f <= i
      /\ \A j \in DOMAIN tl : j < f => tl[j].boot < tl[i].boot
      /\ \A j \in f..i : tl[j].boot = tl[i].boot
  BY BootHead
<1>. HIDE DEF f
<1>3. others = 1..(f - 1)
  <2>1. ASSUME NEW j \in others
        PROVE  j \in 1..(f - 1)
    <3>1. j \in 1..(i - 1) /\ tl[j].boot # tl[i].boot
      BY DEF Before
    <3>2. j \notin f..i
      BY <1>2, <3>1
    <3>. QED  BY <1>1, <1>2, <3>1, <3>2
  <2>2. ASSUME NEW j \in 1..(f - 1)
        PROVE  j \in others
    <3>1. j \in DOMAIN tl /\ j < f /\ j \in Before(i)
      BY <1>1, <1>2 DEF Before
    <3>2. tl[j].boot < tl[i].boot /\ tl[j].boot \in Nat /\ tl[i].boot \in Nat
      BY <1>1, <1>2, <3>1
    <3>. QED  BY <3>1, <3>2
  <2>. HIDE DEF others
  <2>. QED  BY <2>1, <2>2
<1>4. PrevBoot(tl, i) = LastOf(others)
  BY DEF PrevBoot
<1>. HIDE DEF others
<1>5. CASE f = 1
  BY <1>3, <1>4, <1>5 DEF f, LastOf
<1>6. CASE f # 1
  <2>1. f - 1 \in Nat /\ f - 1 \in others /\ others \in SUBSET (1..(f - 1)) /\ others # {}
    BY <1>1, <1>2, <1>3, <1>6
  <2>2. LastOf(others) \in others /\ \A j \in others : j <= LastOf(others)
    BY <2>1, LastOfSet
  <2>3. LastOf(others) \in 1..(f - 1) /\ f - 1 <= LastOf(others)
    BY <1>3, <2>1, <2>2
  <2>. HIDE DEF others
  <2>. QED  BY <1>4, <2>1, <2>3 DEF f
<1>. QED  BY <1>5, <1>6

\* The boot listed before is that of the record before, and ends there.
LEMMA ListedBeforeIs ==
  ASSUME NEW tl \in Seq(Record), BootsRise(tl), NEW i \in DOMAIN tl
  PROVE  LET f == FirstOf(OfBoot(tl, tl[i].boot))
         IN  /\ f = 1 => ListedBefore(tl, tl[i].boot) = 0
             /\ f # 1 => /\ ListedBefore(tl, tl[i].boot) = tl[f - 1].boot
                         /\ LastOf(OfBoot(tl, tl[f - 1].boot)) = f - 1
                         /\ f - 1 \in DOMAIN tl
                         /\ tl[f - 1].boot # 0
<1>. DEFINE HeadOf(c) == FirstOf(OfBoot(tl, c))
            f == HeadOf(tl[i].boot)
            heads == {HeadOf(c) : c \in {d \in BootIds(tl) : HeadOf(d) < f}}
<1>1. /\ DOMAIN tl = 1..Len(tl) /\ Len(tl) \in Nat
      /\ \A k \in DOMAIN tl : tl[k].boot \in Nat
  BY BootNumbers
<1>2. \A k \in DOMAIN tl : tl[k].boot # 0
  <2>1. \A rec \in Record : rec.boot # 0
    BY DEF Record, Boots
  <2>. QED  BY <2>1
<1>3. \A k \in DOMAIN tl :
        /\ HeadOf(tl[k].boot) \in DOMAIN tl /\ HeadOf(tl[k].boot) <= k
        /\ tl[HeadOf(tl[k].boot)].boot = tl[k].boot
        /\ \A j \in DOMAIN tl : j < HeadOf(tl[k].boot) => tl[j].boot < tl[k].boot
        /\ \A j \in HeadOf(tl[k].boot)..k : tl[j].boot = tl[k].boot
  BY BootHead
<1>4. ListedBefore(tl, tl[i].boot) = IF LastOf(heads) = 0 THEN 0 ELSE tl[LastOf(heads)].boot
  BY DEF ListedBefore
<1>. HIDE DEF HeadOf
<1>5. f \in DOMAIN tl
  BY <1>3
<1>6. ASSUME NEW x \in heads
      PROVE  \E k \in DOMAIN tl : x = HeadOf(tl[k].boot) /\ x < f
  BY DEF BootIds
<1>7. CASE f = 1
  <2>1. heads = {}
    <3>1. ASSUME NEW x \in heads
          PROVE  FALSE
      BY <1>1, <1>3, <1>6, <1>7
    <3>. QED  BY <3>1
  <2>. HIDE DEF heads
  <2>. QED  BY <1>4, <1>7, <2>1 DEF LastOf, HeadOf
<1>8. CASE f # 1
  <2>. DEFINE p == f - 1
              h == HeadOf(tl[p].boot)
  <2>1. p \in DOMAIN tl /\ p < f /\ p \in Nat
    BY <1>1, <1>5, <1>8
  <2>. HIDE DEF p
  <2>2. /\ h \in DOMAIN tl /\ h <= p /\ tl[h].boot = tl[p].boot
        /\ \A j \in h..p : tl[j].boot = tl[p].boot
    BY <1>3, <2>1
  <2>3. h \in heads
    <3>1. tl[p].boot \in BootIds(tl)
      BY <2>1 DEF BootIds
    <3>2. h < f
      BY <1>1, <1>5, <2>1, <2>2
    <3>. QED  BY <3>1, <3>2
  <2>. HIDE DEF heads
  <2>4. ASSUME NEW x \in heads
        PROVE  x \in 1..Len(tl) /\ x <= h
    <3>1. PICK k \in DOMAIN tl : x = HeadOf(tl[k].boot) /\ x < f
      BY <1>6
    <3>2. x \in DOMAIN tl /\ tl[x].boot = tl[k].boot
      BY <1>3, <3>1
    <3>3. CASE x > h
      <4>1. x \in h..p
        BY <1>1, <1>5, <2>1, <2>2, <3>1, <3>2, <3>3 DEF p
      <4>2. tl[x].boot = tl[p].boot
        BY <2>2, <4>1
      <4>3. x = h
        BY <3>1, <3>2, <4>2
      <4>. QED  BY <1>1, <2>2, <3>3, <4>3
    <3>. QED  BY <1>1, <2>2, <3>2, <3>3
  <2>5. LastOf(heads) = h
    <3>1. heads \in SUBSET (1..Len(tl)) /\ heads # {}
      BY <2>3, <2>4
    <3>2. LastOf(heads) \in heads /\ h <= LastOf(heads)
      BY <1>1, <2>3, <3>1, LastOfSet
    <3>3. LastOf(heads) <= h /\ LastOf(heads) \in 1..Len(tl)
      BY <2>4, <3>2
    <3>. QED  BY <1>1, <2>2, <3>2, <3>3
  <2>6. ListedBefore(tl, tl[i].boot) = tl[p].boot
    BY <1>1, <1>4, <2>2, <2>5
  <2>7. LastOf(OfBoot(tl, tl[p].boot)) = p
    <3>. DEFINE S == OfBoot(tl, tl[p].boot)
    <3>1. S \in SUBSET (1..Len(tl)) /\ p \in S
      BY <1>1, <2>1 DEF OfBoot
    <3>2. ASSUME NEW j \in S
          PROVE  j <= p
      <4>1. j \in DOMAIN tl /\ tl[j].boot = tl[p].boot
        BY DEF OfBoot
      <4>2. tl[p].boot < tl[i].boot /\ tl[f].boot = tl[i].boot
        BY <1>3, <2>1
      <4>3. CASE f <= j
        <5>1. tl[f].boot <= tl[j].boot
          BY <1>5, <4>1, <4>3 DEF BootsRise
        <5>2. tl[p].boot \in Nat /\ tl[i].boot \in Nat
          BY <1>1, <2>1
        <5>. QED  BY <4>1, <4>2, <5>1, <5>2
      <4>. QED  BY <1>1, <1>5, <4>1, <4>3 DEF p
    <3>. HIDE DEF S
    <3>3. LastOf(S) \in S /\ p <= LastOf(S)
      BY <1>1, <3>1, LastOfSet
    <3>. QED  BY <1>1, <3>1, <3>2, <3>3 DEF S
  <2>8. tl[p].boot # 0
    BY <1>2, <2>1
  <2>. QED  BY <1>8, <2>1, <2>6, <2>7, <2>8 DEF p, HeadOf
<1>. QED  BY <1>7, <1>8 DEF HeadOf

\* A known kind stands on the first record of its boot.
LEMMA KnownFirst ==
  ASSUME NEW tl \in Seq(Record), BootsRise(tl), NEW k \in DOMAIN tl, KindStored(tl, k)
  PROVE  LET f == FirstOf(OfBoot(tl, tl[k].boot))
         IN  Known(tl[k].kind) <=>
               k = f /\ f # 1 /\ tl[k].event = "boot"
<1>. DEFINE f == FirstOf(OfBoot(tl, tl[k].boot))
<1>1. /\ DOMAIN tl = 1..Len(tl) /\ Len(tl) \in Nat
      /\ \A j \in DOMAIN tl : tl[j].boot \in Nat
  BY BootNumbers
<1>2. /\ f \in DOMAIN tl /\ f <= k
      /\ \A j \in DOMAIN tl : j < f => tl[j].boot < tl[k].boot
      /\ \A j \in f..k : tl[j].boot = tl[k].boot
  BY BootHead
<1>. HIDE DEF f
<1>3. \A event : Known(ClassifyPrevious(event))
  BY DEF Known, ClassifyPrevious, StopEvents
<1>4. ~Known("unknown") /\ ~Known("same_boot")
  BY DEF Known
<1>5. CASE tl[k].event # "boot" \/ k = 1
  <2>1. tl[k].kind = "unknown"
    BY <1>5 DEF KindStored
  <2>2. k = f => f = 1 \/ tl[k].event # "boot"
    BY <1>5
  <2>. QED  BY <1>4, <2>1, <2>2 DEF f
<1>6. CASE tl[k].event = "boot" /\ k # 1
  <2>1. k - 1 \in DOMAIN tl
    BY <1>1, <1>6
  <2>2. tl[k - 1].boot = tl[k].boot <=> k # f
    <3>1. ASSUME k = f
          PROVE  tl[k - 1].boot # tl[k].boot
      <4>1. tl[k - 1].boot < tl[k].boot
        BY <1>1, <1>2, <2>1, <3>1
      <4>. QED  BY <1>1, <2>1, <4>1
    <3>2. ASSUME k # f
          PROVE  tl[k - 1].boot = tl[k].boot
      <4>1. k - 1 \in f..k
        BY <1>1, <1>2, <3>2
      <4>. QED  BY <1>2, <4>1
    <3>. QED  BY <3>1, <3>2
  <2>3. tl[k].kind = IF k # f THEN "same_boot" ELSE ClassifyPrevious(tl[k - 1].event)
    BY <1>6, <2>2 DEF KindStored
  <2>. QED  BY <1>3, <1>4, <1>6, <2>3 DEF f
<1>. QED  BY <1>5, <1>6

\* Two readings of how a boot started agree on every timeline that stores its
\* kinds and whose boots never go back.
LEMMA StartsAgree ==
  ASSUME NEW tl \in Seq(Record), BootsRise(tl), \A k \in DOMAIN tl : KindStored(tl, k),
         NEW i \in DOMAIN tl,
         PrevBoot(tl, i) # 0 => tl[PrevBoot(tl, i)].event # "recover"
  PROVE  InferBootKind(tl, i) = Started(tl, tl[i].boot)
<1>. DEFINE f == FirstOf(OfBoot(tl, tl[i].boot))
            boots == {j \in OfBoot(tl, tl[i].boot) : tl[j].event = "boot"}
            kind == IF boots = {} THEN "" ELSE tl[FirstOf(boots)].kind
            prev == ListedBefore(tl, tl[i].boot)
            before == IF f = 1 THEN "unknown" ELSE KindFromPrevious(tl[f - 1].event)
<1>1. /\ DOMAIN tl = 1..Len(tl) /\ Len(tl) \in Nat
      /\ \A j \in DOMAIN tl : tl[j].boot \in Nat
  BY BootNumbers
<1>2. f \in DOMAIN tl /\ f <= i /\ tl[f].boot = tl[i].boot
  BY BootHead
<1>3. PrevBoot(tl, i) = f - 1
  BY PrevBootIs
<1>4. f # 1 => f - 1 # 0 /\ tl[f - 1].event # "recover"
  BY <1>1, <1>2, <1>3
<1>5. InferBootKind(tl, i) = IF Known(tl[i].kind) THEN tl[i].kind ELSE before
  <2>1. PrevBoot(tl, i) = 0 <=> f = 1
    BY <1>1, <1>2, <1>3
  <2>. HIDE DEF f
  <2>. QED  BY <1>3, <2>1 DEF InferBootKind
<1>6. Started(tl, tl[i].boot) = IF Known(kind) THEN kind ELSE before
  <2>1. /\ f = 1 => prev = 0
        /\ f # 1 => /\ prev = tl[f - 1].boot /\ prev # 0
                    /\ LastOf(OfBoot(tl, tl[f - 1].boot)) = f - 1
    BY ListedBeforeIs
  <2>2. Started(tl, tl[i].boot) =
          CASE Known(kind)              -> kind
            [] ~Known(kind) /\ prev = 0 -> "unknown"
            [] OTHER -> KindFromPrevious(tl[LastOf(OfBoot(tl, prev))].event)
    BY DEF Started
  <2>. HIDE DEF f, kind, prev
  <2>3. CASE f = 1
    BY <2>1, <2>2, <2>3
  <2>4. CASE f # 1
    BY <2>1, <2>2, <2>4
  <2>. QED  BY <2>3, <2>4
\* The first record of the boot decides, if it is a boot event after another boot.
<1>7. ASSUME NEW j \in OfBoot(tl, tl[i].boot)
      PROVE  /\ j \in DOMAIN tl /\ f <= j
             /\ Known(tl[j].kind) <=> j = f /\ f # 1 /\ tl[j].event = "boot"
  <2>1. j \in DOMAIN tl /\ tl[j].boot = tl[i].boot
    BY DEF OfBoot
  <2>2. f <= j
    BY <2>1, BootHead
  <2>. QED  BY <2>1, <2>2, KnownFirst
<1>8. f # 1 /\ tl[f].event = "boot" => tl[f].kind = before
  <2>1. ASSUME f # 1, tl[f].event = "boot"
        PROVE  tl[f].kind = before
    <3>1. tl[f - 1].boot # tl[f].boot
      <4>1. f - 1 \in DOMAIN tl /\ f - 1 < f
        BY <1>1, <1>2, <2>1
      <4>2. tl[f - 1].boot < tl[i].boot
        BY <4>1, BootHead
      <4>. QED  BY <1>1, <1>2, <4>1, <4>2
    <3>2. tl[f].kind = ClassifyPrevious(tl[f - 1].event)
      BY <1>2, <2>1, <3>1 DEF KindStored
    <3>. QED  BY <1>4, <2>1, <3>2 DEF KindFromPrevious
  <2>. QED  BY <2>1
<1>9. Known(tl[i].kind) => tl[i].kind = before
  <2>1. i \in OfBoot(tl, tl[i].boot)
    BY DEF OfBoot
  <2>. QED  BY <1>7, <1>8, <2>1
<1>10. Known(kind) => kind = before
  <2>1. CASE boots = {}
    BY <2>1 DEF Known
  <2>2. CASE boots # {}
    <3>1. boots \in SUBSET Nat
      BY <1>1 DEF OfBoot
    <3>2. FirstOf(boots) \in boots
      BY <2>2, <3>1, FirstOfSet
    <3>3. FirstOf(boots) \in OfBoot(tl, tl[i].boot) /\ kind = tl[FirstOf(boots)].kind
      BY <2>2, <3>2
    <3>. QED  BY <1>7, <1>8, <3>3
  <2>. QED  BY <2>1, <2>2
<1>. HIDE DEF kind, before
<1>. QED  BY <1>5, <1>6, <1>9, <1>10

(***************************************************************************)
(* StartedAgrees for any number of boots, records, fixes and missed        *)
(* captures: the transition's reading of a start and the boot table's.     *)
(***************************************************************************)
THEOREM StartedAgreesHolds == Spec => []StartedAgrees
<1>1. Init => StoredInv
  BY DEF Init, StoredInv
<1>2. TypeInv /\ StoredInv /\ [Next]_vars => (TypeInv /\ StoredInv)'
  BY TypeStep, StoredStep
<1>3. TypeInv /\ RiseInv /\ StoredInv => StartedAgrees
  BY StartsAgree, TypeParts DEF RiseInv, StoredInv, StartedAgrees, Transitions, Alerts
<1>. QED  BY <1>1, <1>2, <1>3, TypeInit, TypeStep, RiseInit, RiseStep, PTL DEF Spec
-----------------------------------------------------------------------------
(***************************************************************************)
(* Sleeps on record.  While no capture was missed, each boot so far has a  *)
(* record, and as many records of a sleep as it slept.                     *)
(***************************************************************************)

SleepsTold ==
  /\ \A b \in 1..boot : OfBoot(timeline, b) # {}
  /\ \A b \in Boots : SleepCycles(timeline, b) = slept[b]

SleepInv == lapses = 0 => SleepsTold

\* A record more is a sleep more of its boot, if it tells of one.
LEMMA SleepCounted ==
  ASSUME NEW tl \in Seq(Record), NEW rec \in Record, NEW b
  PROVE  /\ SleepCycles(tl, b) \in Nat
         /\ SleepCycles(Append(tl, rec), b) =
              IF rec.boot = b /\ rec.event \in SleepEvents
              THEN SleepCycles(tl, b) + 1 ELSE SleepCycles(tl, b)
         /\ OfBoot(tl, b) \subseteq OfBoot(Append(tl, rec), b)
         /\ rec.boot = b => OfBoot(Append(tl, rec), b) # {}
<1>. DEFINE new == Append(tl, rec)
            n == Len(tl)
            S == {i \in OfBoot(tl, b) : tl[i].event \in SleepEvents}
            T == {i \in OfBoot(new, b) : new[i].event \in SleepEvents}
<1>1. /\ n \in Nat /\ DOMAIN tl = 1..n /\ DOMAIN new = 1..(n + 1)
      /\ \A i \in 1..n : new[i] = tl[i]
      /\ new[n + 1] = rec
  BY Appended
<1>. HIDE DEF new, n
<1>2. \A i : i \in OfBoot(tl, b) <=> i \in 1..n /\ tl[i].boot = b
  BY <1>1 DEF OfBoot
<1>3. \A i : i \in OfBoot(new, b) <=> i \in 1..(n + 1) /\ new[i].boot = b
  BY <1>1 DEF OfBoot
<1>4. IsFiniteSet(S) /\ n + 1 \notin S
  <2>1. IsFiniteSet(1..n)
    BY <1>1, FS_Interval
  <2>2. S \in SUBSET (1..n)
    BY <1>2
  <2>. HIDE DEF S
  <2>. QED  BY <1>1, <2>1, <2>2, FS_Subset
<1>5. T = IF rec.boot = b /\ rec.event \in SleepEvents THEN S \union {n + 1} ELSE S
  <2>1. \A i \in 1..(n + 1) : i \in 1..n \/ i = n + 1
    BY <1>1
  <2>2. n + 1 \in 1..(n + 1) /\ n + 1 \notin 1..n /\ \A i \in 1..n : i \in 1..(n + 1)
    BY <1>1
  <2>3. ASSUME NEW i
        PROVE  i \in T <=> i \in S \/ (i = n + 1 /\ rec.boot = b /\ rec.event \in SleepEvents)
    <3>1. CASE i \in 1..n
      <4>1. new[i] = tl[i] /\ i # n + 1 /\ i \in 1..(n + 1)
        BY <1>1, <2>2, <3>1
      <4>. QED  BY <1>2, <1>3, <3>1, <4>1, Zenon
    <3>2. CASE i = n + 1
      <4>1. new[i] = rec /\ i \in 1..(n + 1) /\ i \notin 1..n
        BY <1>1, <2>2, <3>2
      <4>. QED  BY <1>2, <1>3, <3>2, <4>1, Zenon
    <3>3. CASE i \notin 1..n /\ i # n + 1
      BY <1>2, <1>3, <2>1, <3>3, Zenon
    <3>. QED  BY <3>1, <3>2, <3>3
  <2>. HIDE DEF S, T
  <2>4. CASE rec.boot = b /\ rec.event \in SleepEvents
    BY <2>3, <2>4
  <2>5. CASE ~(rec.boot = b /\ rec.event \in SleepEvents)
    BY <2>3, <2>5
  <2>. QED  BY <2>4, <2>5
<1>6. SleepCycles(tl, b) = Cardinality(S) /\ SleepCycles(new, b) = Cardinality(T)
  BY DEF SleepCycles
<1>. HIDE DEF S, T
<1>7. Cardinality(S) \in Nat
  BY <1>4, FS_CardinalityType
<1>8. Cardinality(S \union {n + 1}) = Cardinality(S) + 1
  BY <1>4, FS_AddElement
<1>9. OfBoot(tl, b) \subseteq OfBoot(new, b)
  <2>1. \A i \in 1..n : i \in 1..(n + 1)
    BY <1>1
  <2>. QED  BY <1>1, <1>2, <1>3, <2>1
<1>10. rec.boot = b => n + 1 \in OfBoot(new, b)
  BY <1>1, <1>3
<1>. QED  BY <1>5, <1>6, <1>7, <1>8, <1>9, <1>10 DEF new

\* Captures that leave no lapse record what they were called for.
LEMMA NoLapseGains ==
  ASSUME TypeInv, TypeInv', Next, lapses' = 0
  PROVE  /\ lapses = 0
         /\ Suspend \/ PowerUp => timeline' # timeline
         /\ boot' = IF PowerUp THEN boot + 1 ELSE boot
         /\ slept' = IF Suspend THEN [slept EXCEPT ![boot] = @ + 1] ELSE slept
<1>. TypeOK /\ timeline \in Seq(Record) /\ lapses \in Nat
  BY BoundsAssumption DEF TypeInv, TypeOK
<1>1. \A rec : Recorded(rec) => timeline' # timeline
  <2>1. \A rec : Append(timeline, rec) # timeline
    <3>1. \A rec : Len(Append(timeline, rec)) = Len(timeline) + 1 /\ Len(timeline) \in Nat
      OBVIOUS
    <3>2. Len(timeline) # Len(timeline) + 1
      OBVIOUS
    <3>. QED  BY <3>1, <3>2
  <2>. QED  BY <2>1 DEF Recorded
<1>2. \A rec : Capture(rec) => lapses = 0 /\ timeline' # timeline
  BY <1>1 DEF Capture
<1>3. CASE PowerUp
  <2>1. ~Suspend
    BY <1>3 DEF PowerUp, Suspend
  <2>. QED  BY <1>2, <1>3, <2>1 DEF PowerUp
<1>4. CASE Suspend
  <2>1. ~PowerUp
    BY <1>4 DEF PowerUp, Suspend
  <2>. QED  BY <1>2, <1>4, <2>1 DEF Suspend
<1>5. CASE Resume
  BY <1>2, <1>5 DEF Resume, Suspend, PowerUp, historyVars
<1>6. CASE Snapshot
  BY <1>2, <1>6 DEF Snapshot, Suspend, PowerUp, historyVars, machineVars
<1>7. CASE StopUnit
  BY <1>7 DEF StopUnit
<1>8. CASE StartUnit
  BY <1>2, <1>8 DEF StartUnit, Suspend, PowerUp, historyVars
<1>9. CASE Fix
  BY <1>2, <1>9 DEF Fix, Suspend, PowerUp
<1>10. ASSUME NEW mode \in {"reboot", "poweroff"}, Stop(mode)
       PROVE  lapses = 0 /\ boot' = boot /\ slept' = slept /\ ~Suspend /\ ~PowerUp
  BY <1>2, <1>10 DEF Stop, Suspend, PowerUp, recordVars
<1>11. CASE GoesDown \/ Crash \/ CutAC
  BY <1>11 DEF GoesDown, Crash, CutAC, Suspend, PowerUp, recordVars, historyVars
<1>. QED
  BY <1>3, <1>4, <1>5, <1>6, <1>7, <1>8, <1>9, <1>10, <1>11 DEF Next

\* What a step that records what it was called for does to the count of a boot.
LEMMA SleepStep ==
  TypeInv /\ TypeInv' /\ RiseInv /\ SleepInv /\ [Next]_vars => SleepInv'
<1>. SUFFICES ASSUME TypeInv, TypeInv', RiseInv, SleepInv, [Next]_vars, lapses' = 0
              PROVE  SleepsTold'
  BY DEF SleepInv
<1>1. CASE UNCHANGED vars
  <2>1. lapses = 0 /\ UNCHANGED <<boot, timeline, slept>>
    BY <1>1 DEF vars, machineVars, recordVars, historyVars
  <2>. QED  BY <2>1 DEF SleepInv, SleepsTold
<1>2. CASE Next
  <2>1. timeline \in Seq(Record) /\ boot \in Nat
    BY TypeParts
  <2>2. slept \in [Boots -> Nat] /\ Boots = 1..MaxBoots /\ MaxBoots \in Nat /\ boot' \in 0..MaxBoots
    BY BoundsAssumption DEF TypeInv, TypeOK, Boots
  <2>3. /\ lapses = 0
        /\ Suspend \/ PowerUp => timeline' # timeline
        /\ boot' = IF PowerUp THEN boot + 1 ELSE boot
        /\ slept' = IF Suspend THEN [slept EXCEPT ![boot] = @ + 1] ELSE slept
    BY <1>2, NoLapseGains
  <2>4. /\ \A b \in 1..boot : OfBoot(timeline, b) # {}
        /\ \A b \in Boots : SleepCycles(timeline, b) = slept[b]
    BY <2>3 DEF SleepInv, SleepsTold
  <2>5. CASE timeline' = timeline
    BY <2>3, <2>4, <2>5 DEF SleepsTold
  <2>6. CASE timeline' # timeline
    <3>1. PICK rec \in Record : /\ Gained(rec)
                                /\ Suspend => rec.event = "suspend-pre"
                                /\ ~Suspend => rec.event # "suspend-pre"
      BY <2>6, TimelineGains
    <3>2. timeline' = Append(timeline, rec) /\ rec.boot = boot'
      BY <3>1 DEF Gained
    <3>3. rec.event \in SleepEvents <=> Suspend
      <4>1. rec.event # "hibernate-pre"
        BY DEF Record, Events
      <4>. QED  BY <3>1, <4>1 DEF SleepEvents
    <3>4. ASSUME NEW b \in 1..boot'
          PROVE  OfBoot(timeline', b) # {}
      <4>1. b = boot' \/ b \in 1..boot
        BY <2>1, <2>3
      <4>. QED  BY <2>1, <2>4, <3>2, <4>1, SleepCounted
    <3>5. ASSUME NEW b \in Boots
          PROVE  SleepCycles(timeline', b) = slept'[b]
      <4>1. SleepCycles(timeline', b) =
              IF b = boot' /\ Suspend THEN slept[b] + 1 ELSE slept[b]
        BY <2>1, <2>4, <3>2, <3>3, SleepCounted
      <4>2. Suspend => boot' = boot
        BY DEF Suspend
      <4>3. slept'[b] = IF b = boot /\ Suspend THEN slept[b] + 1 ELSE slept[b]
        BY <2>2, <2>3
      <4>. QED  BY <4>1, <4>2, <4>3
    <3>. QED  BY <3>4, <3>5 DEF SleepsTold
  <2>. QED  BY <2>5, <2>6
<1>. QED  BY <1>1, <1>2

\* No record, no sleep.
LEMMA SleepInit == Init => SleepInv
<1>. SUFFICES ASSUME Init
              PROVE  SleepsTold
  BY DEF SleepInv
<1>1. \A b : OfBoot(<<>>, b) = {}
  BY DEF OfBoot
<1>2. \A b : SleepCycles(<<>>, b) = 0
  BY <1>1, FS_EmptySet DEF SleepCycles
<1>. QED  BY <1>2 DEF Init, SleepsTold

\* With a record of each boot the one before the corrupt boot is the last of the
\* boot before.
LEMMA SleepsReported ==
  ASSUME TypeInv, RiseInv, SleepInv
  PROVE  SleepCountTruthful
<1>. SUFFICES ASSUME lapses = 0, NEW i \in DOMAIN timeline, timeline[i].boot > 1
              PROVE  SleepCount(timeline, i) = slept[timeline[i].boot - 1]
  BY DEF SleepCountTruthful, Transitions, Alerts
<1>. DEFINE b == timeline[i].boot
            f == FirstOf(OfBoot(timeline, b))
<1>1. timeline \in Seq(Record) /\ boot \in Nat
  BY TypeParts
<1>2. /\ DOMAIN timeline = 1..Len(timeline) /\ Len(timeline) \in Nat
      /\ \A k \in DOMAIN timeline : timeline[k].boot \in Nat
  BY <1>1, BootNumbers
<1>3. /\ BootsRise(timeline)
      /\ b \in Nat /\ b > 1 /\ b <= boot
  BY <1>2 DEF RiseInv
<1>4. PrevBoot(timeline, i) = f - 1
  BY <1>1, <1>3, PrevBootIs
<1>5. /\ f \in DOMAIN timeline /\ timeline[f].boot = b
      /\ \A j \in DOMAIN timeline : j < f => timeline[j].boot < b
  BY <1>1, <1>3, BootHead
<1>6. b - 1 \in 1..boot /\ b - 1 \in Boots
  <2>. HIDE DEF b
  <2>1. boot \in 0..MaxBoots
    BY DEF TypeInv, TypeOK
  <2>. QED  BY <1>3, <2>1, BoundsAssumption DEF Boots
<1>. HIDE DEF f, b
<1>7. PICK j \in DOMAIN timeline : timeline[j].boot = b - 1
  BY <1>6 DEF SleepInv, SleepsTold, OfBoot
<1>8. j < f
  <2>1. CASE f <= j
    <3>1. timeline[f].boot <= timeline[j].boot
      BY <1>3, <1>5, <2>1 DEF BootsRise
    <3>. QED  BY <1>3, <1>5, <1>7, <3>1
  <2>. QED  BY <1>2, <1>5, <2>1
<1>9. f - 1 \in DOMAIN timeline /\ f - 1 < f /\ j <= f - 1 /\ f - 1 # 0
  BY <1>2, <1>5, <1>8
<1>10. timeline[f - 1].boot = b - 1
  <2>1. timeline[f - 1].boot < b
    BY <1>5, <1>9
  <2>2. timeline[j].boot <= timeline[f - 1].boot
    BY <1>3, <1>9 DEF BootsRise
  <2>3. timeline[f - 1].boot \in Nat
    BY <1>2, <1>9
  <2>. QED  BY <1>3, <1>7, <2>1, <2>2, <2>3
<1>11. SleepCount(timeline, i) = SleepCycles(timeline, b - 1)
  BY <1>4, <1>9, <1>10 DEF SleepCount
<1>. QED  BY <1>6, <1>11 DEF SleepInv, SleepsTold, b

(***************************************************************************)
(* SleepCountTruthful for any number of boots, sleeps and records.         *)
(***************************************************************************)
THEOREM SleepCountTruthfulHolds == Spec => []SleepCountTruthful
<1>1. TypeInv /\ RiseInv /\ SleepInv /\ [Next]_vars => (TypeInv /\ RiseInv /\ SleepInv)'
  BY TypeStep, RiseStep, SleepStep
<1>2. TypeInv /\ RiseInv /\ SleepInv => SleepCountTruthful
  BY SleepsReported
<1>. QED  BY <1>1, <1>2, TypeInit, RiseInit, SleepInit, PTL DEF Spec
=============================================================================
