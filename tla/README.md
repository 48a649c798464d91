# Verification of am5-spd-diag

`am5-spd-diag` diagnoses corrupted SPD data on AM5 machines: the SPD5118 hub of a DIMM gets
latched in legacy two-byte addressing (MR11 reads `0x08`) on resume or in POST, and the
firmware then reports a ghost module. The program records evidence at every boot, suspend,
resume and stop, tells the user when the machine turns corrupt, clears the hub in-band on
request, and tells from the records of the last weeks what happened.

This directory holds TLA+ models of the parts of it where order, overlap, loss or failure
decide the outcome, the TLC configurations that check them, and proofs checked by TLAPS.
Sources are named relative to `src/`; `PROJECT.json` maps every definition to its lines.

## The system

| Part (source) | State | Operations | Interacts with |
|---|---|---|---|
| Hub fix (`crates/am5-spd-diag/src/i2c.rs`) | registers MR11/MR12 of each hub; probe rows, verdict | `probe_hubs`, `recover_stuck`: probe all, write the stuck ones, verify each | SMBus hubs, kernel log, `spd5118` driver, other fixes |
| Event store (`capture.rs`, `safe_fs.rs`) | `events/*/`, `timeline.jsonl`, `timeline.lock`, `timeline.jsonl.tmp`, `pending-recover.json`, `SPD_NOW`, `NOTICE`, `ALERTS.log`, `baseline.json` | `capture_event`, `recover_and_record`, `append_timeline`, `prune_old_events` | every starter of captures; all of them share the files, only the append takes a lock |
| Triggers (`systemd/*.service`, `bin/am5-spd-diag.rs`, packaging scripts) | which unit is active | boot, suspend, resume, stop, manual snapshot, fix | start captures; run them under `timeout` |
| Analysis (`analyze.rs`, `classify_boot_kind` of `capture.rs`) | none: reads the timeline | boots, transitions, sleep counts, fix status, choice of package directories | reads what captures wrote, lost or never wrote |
| Report and package (`bin/am5-spd-diag.rs`, `analyze.rs`) | output directory, staging, archives unpacked | snapshot, load, `write_report`, `make_package`, `open_package` | copies event directories a prune or purge may be deleting |
| Desktop notice and activation (`hub.rs`, `am5-spd-diag-notify/src/main.rs`) | notices shown, a process for each, the D-Bus name, the activation queue | `send_fdo_and_wait`, `serve_application`, `queue_activation`, `show_window` | D-Bus daemon, desktop shell, user |
| Window (`am5-spd-diag-notify`) | page, Fix and Package buttons, dialog | pages, `confirm_fix`, `make_package` | everything above |
| Markdown pane (`am5-spd-diag-notify/src/markdown.rs`) | markup collected for the open block | `render_markdown` | reports, GTK labels |
| SMBIOS and DIMM parsers (`smbios.rs`, `dimm.rs`) | none | structure walk, memory dump, DIMM rows, flags | sysfs table, dmidecode |
| Purge (`purge.rs`, `paths.rs`) | the state directory, the user's directory | remove and recreate | captures, reports, packages |

Hard behaviour, and the properties that make each part correct:

* **Hub fix.** Nothing serialises two fixes, and each one writes a list it probed earlier.
  Transfers fail, or take effect and report failure. Correct means: only hubs its own probe
  found stuck are written; `ok` is truthful; one bad hub costs no other its clear; MR12, next
  to MR11, stays as it was.
* **Event store.** Captures overlap, are killed by `timeout` between any two file operations,
  meet failing writes; a prune rewrites the timeline other captures append to. Correct means:
  no record is lost before its time; no corrupt machine is on record without its alarm; a
  page is skipped only for a verified clear; the marker files tell what the last complete
  capture saw; nobody waits for ever on the lock.
* **Life of the machine and its analysis.** Captures get lost, power fails while the machine
  goes down, fixes fail, latches survive some power losses and not others. Correct means: what
  the report says of a boot, a sleep count, a transition or a fix is what happened.
* **Commands and window.** Whatever is loaded, staged and copied, captures, prunes and purges
  go on changing; polkit may say no, disks are full, dialogs send two responses. Correct means:
  a ticket tells the snapshot it was asked for; a package holds what its report tells, or a copy
  failed; what a purge wiped is gone; no fix runs unasked.
* **Notice.** Services close notices before or after they send the click, signals of other
  programs' notices pass by, activations are handed over by detached threads. Correct means: a
  process that heard a click becomes a window, on its page and with its token; a server keeps
  what it promised; no process waits for ever on a close it heard.
* **Pane.** Blocks nest in any order, and lines of the e820 map break them up. Correct means:
  tags nest in every label, a label shows one block, and no text of a block is lost.
* **Parsers.** Tables are cut off, structures are short, texts come from two tools. Correct
  means: nothing is read outside its structure, nothing invented, each field stays with its
  DIMM, and flags are for ghosts.

## Modules

| Module | What it is |
|---|---|
| `HubFix` | `recover_stuck` transfer by transfer, any number of fixes |
| `HubPromise` | abstract: how MR11 and MR12 may change, as SECURITY.md promises |
| `Capture` | `capture_event` file operation by file operation, any number of captures and fixes |
| `EventLog` | abstract: the timeline the analysis relies on |
| `BootStory` | the analysis as operators on a timeline |
| `Lifecycle` | the machine, what it triggers, and what `BootStory` makes of it (extends `BootStory`) |
| `SmbiosWalk` | `iter_smbios_structures` over a table of any bytes, and what the dumps read of a structure |
| `DimmEvidence` | from that walk, or dmidecode's text, to DIMM rows and flags (extends `SmbiosWalk`) |
| `Evidence` | the users' commands and the window's buttons beside captures, prunes and purges |
| `Notifier` | notices, clicks and activations up to the window they open |
| `Markdown` | `render_markdown` event by event; needs no instance module |
| `HubFixProofs`, `CaptureProofs`, `LifecycleProofs`, `SmbiosProofs`, `EvidenceProofs`, `NotifierProofs`, `MarkdownProofs`, `DimmProofs` | theorems |
| `MCHubFix`, `MCCapture`, `MCLifecycle`, `MCTexts`, `MCEvidence`, `MCNotifier` | instances for TLC |

Operators commented `MUTANT` are plausible bugs; each stands before the definition it would
replace, and no specification uses them. They are the evidence that a property can fail.

### HubFix

One process per fix with the control state of `recover_stuck`: `StartFix` reads the kernel log
and lists the targets, `ProbeHub` reads one hub after the other in `(bus, addr)` order,
`NoStuckHub` is the early return, `BeginWrites` the start of the loop, `WriteAttempt` one of
the three methods (`ioctl`, `i2cset`, `i2cset -f`, stopping at the first that reports success),
`Verify` the read back and the verdict. A hub outside `Unreliable` does what it is told; on a
hub in it, a read may fail and a write may land or not and be acknowledged or not.

The environment is modelled from how the code and its comments use it: firmware latches a hub
(`FirmwareLatches`), the driver selects pages (which a latched hub ignores) and may name a
stuck hub in the kernel log. The word `0x0000` written at `0x0B` is one byte for a latched hub,
but MR11 and MR12 for a hub in one-byte mode (`Land`). Reading page 0 for the record and the
JSON rows are left out.

### Capture

One process per run of `capture_event`; those in `Fixes` are started by `recover_and_record`
after `recover_stuck` ended. The steps are the file operations another process can come
between, in the code's order: event directory, evidence, hand-over of `pending-recover.json`
(copy, then remove), markers and page (corrupt: `SPD_NOW`, then `NOTICE` alone or `ALERTS.log`
and the page; healthy: `SPD_NOW`, remove `NOTICE`, `baseline.json`), append under the lock, and
the prune without it (directories, read, open tmp, write tmp, rename). Errors that `let _ =`
ignores leave the old content (`Saved`); those that leave with `?` are `Fail`, after which a
fix drops its pending verdict. `Die` is a kill at any step, by `timeout` or by hand. No capture
has to die: a fix has no time limit, and one whose `timeout` cannot be started runs without
(`capture.rs:37`).

`timeline.jsonl` is a name for an inode, because an append holds a handle while a prune renames
another inode over the name; an inode is named after the prune that created it. Evidence says
`flagged`, `clean`, or `blank` (nothing could be read).

Abstractions: the timeline is the set of its records (no step depends on their order); a file
of one small object is written in one step (that `write_nofollow` truncates first is a listed
hazard without a property yet); the `latest` links, and `capture recover` started by hand, are
left out, as is power loss that loses unsynced data.

### BootStory and Lifecycle

`BootStory` translates the timeline functions: `classify_boot_kind`, `infer_boot_kind`,
`group_boots`, `sleep_cycles`, `find_transitions` (with the chain of events each transition
shows), `recover_status_lines`, the Fix button's verdict, and `chain_dirs`. A record keeps the
event, its boot, the stored boot kind, whether flags were raised, and whether `recover.json`
reports a verified clear. Wording, tables and DIMM rows are left out.

`Lifecycle` supplies timelines a machine can really leave: `PowerUp`, `Suspend`, `Resume`,
`Stop` (asked for a reboot or a poweroff; `detect_shutdown_mode` may not see which), `GoesDown`,
`Crash` (standby power stays, so does the latch), `CutAC` (the hub resets), `Snapshot`, `Fix`,
and `StopUnit`/`StartUnit`, which a `systemctl stop`, a package removal or installation cause.
Each takes the capture its unit takes, as one step: the record is appended or, at most
`MaxLapses` times, lost. The history variables `began`, `request`, `slept` and `cleared` keep
what really happened; no guard reads them, the properties compare the analysis with them.
Hibernation (the same events under other names), a scheduled shutdown that names another mode,
and captures of several units at once are left out.

`Capture` explains how records get lost and `Lifecycle` what their loss does to the analysis;
the link between the two is the abstract log (`EventLog`): a record is there or not. They are
not composed into one state machine, whose product would only multiply the interleavings.

### SmbiosWalk and DimmEvidence

`SmbiosWalk` reads the table byte by byte as the code does: `ReadHeader` stops at a length below
4 or past the end (`Fits`), `ReadString` and `EndOfString` collect the string table up to the
second zero, `Push` records the structure and stops at type 127. A string is the interval of the
table it came from, so the properties can say where everything was read. `Fields0`, `Fields1`,
`Fields2`, `Fields4`, `Fields17` are the bytes each dump reads, with the length guard of each.

`DimmEvidence` turns structures into the lines of a memory dump (`SlotLines` for any slot,
`Shown` and `ShownId` for a field a long enough structure has, together `Dump`), or takes those
dmidecode prints (`Collect`, which knows when the table gives nothing), and parses them line by
line (`HeaderLine`, `MentionLine`, `FieldLine`, `EndOfText`; `Record` is what is kept of a row),
with population, JEDEC vendors, the summary and its way back, and the flags. On that way a line
is split at every `|`, each `name=value` between two sets a field, and a later one overrides an
earlier (`Naming`, `Said`, `ReadBack`); `FieldNames` are the names, `SizeTexts` and
`EightBitTexts` what values given that way are looked at for. Texts are sequences of ASCII bytes,
trimmed where the code trims (`Trim`). Firmware may put others in a table: bytes beyond ASCII,
which `from_utf8_lossy` replaces, line breaks, which make a text two lines, or the words
"DMI type 16," or "DMI type 17,", which the parser takes for a header; these are left out
(`TextByte`). `Encode` builds the tables firmware may build. The properties compare the outcome with reference
operators that read neither dump nor parser: `RowOf` and `Modules` take a row from what firmware
built, `Printed` from all lines with one `handle`. That handle, and the empty key of a line that
mentions type 17 where no device is open, are history values, which no step of the parser
decides by; `WellMarked` says that they are right, `DmidecodeAssumption` that they are in every
text dmidecode prints. `VendorIdsAssumption`: id 0, which a row without the field has, names no
vendor. Numbers keep their byte layout (extended sizes, `0x7FFF`, the KiB bit); the
wording of values, speeds, voltages, and the redaction of dmidecode's text are left out.

### Evidence

One process per user and one per capture unit. An event is a number: its record in the timeline
and its directory; `Capture` says what a capture writes. `Menu` says what a user may do: `report`
and `package` with or without a snapshot, `archive` (`--from`), `window` with its Page, Package
and Fix buttons, `fix`, `purge`. Between any two steps another process may move: the timeline is
loaded (`Load`), copied again when a package is staged (`Stage`), directories are chosen
(`Chain`) and copied (`CopyDirs`); a prune removes directories, then reads and renames
(`PruneDirs`, `PruneRename`); a purge removes what it finds (`Wipe`), checks that the tree went
(`RemoveTree`), recreates it (`CreateTree`), then removes the user's copies (`RemoveHome`), in the
home of the caller of `sudo` if root has one (`Home`). A copy into a package may fail, of the
report, of the timeline or of any directory (`Stage`, `CopyDirs`), and the package is made all the
same; the privileged half of a purge may be skipped because `sudo` cannot be started
(`WhenAgreed`). `CaptureFails`, `PackageFails`, `CreateFails`, and a report that can be written
nowhere are further failures the code handles or ignores. Which directories a package takes without `--all`, and
when the Fix button is offered, is `Lifecycle`'s; here the first is "all" and the second any
answer. History: `gone` and `back`, what prunes and purges took or put back; `old`, what was
there when a purge began; `wiped`, that its privileged half ran; a package's `torn`, what could
not be copied; `agreed`, the user's answer.

### Notifier

`waiter[n]` is the process `notify_desktop` starts for notice `n`: it posts with the desktop's own
service and ends (`PostToDesktop`), or with the freedesktop one (`Notify`), subscribes
(`Subscribe`) and takes signals in the order they were sent: other notices' (`SkipsSignal`), the
token, the click, the close, after which it waits `CLOSE_GRACE_MS` (`GraceOver`). `service` is
drawn once: whether it gives tokens, and whether it closes a clicked notice before the click,
after it, or not. A server started for an activation asks for the name (`RequestName`), answers
activations (`Answer`), each of which a thread hands over later (`HandOver`), and becomes a
window on the first that arrives (`OpenAsked`) or after 25 s (`OpenUnasked`). A click's number is
its activation token, which is how a window can be told to show the wrong one's.

### Markdown

The parser is the environment: it opens and closes elements as CommonMark nests them (`Opens`,
`Closes`), raw HTML among them, and every event is an action with the body of its match arm. Text
may be a line of the e820 map wherever text may be (`E820Text`, with or without an introduction on
the line). Markup is a sequence of opened and closed tags and texts with their block's number;
`shown` are the labels the last event made, `dropped` what `flush_markup` threw away. A block has
one label; an element with a star is one whose label has been shown before its end, and text that
still comes in it is numbered 0, as is that of raw HTML outside a block. `torn` remembers that an
e820 line came between a tag and its end.

## Runs

`tlc -workers 2 -config <cfg> <module>` in this directory. `CHECK_DEADLOCK FALSE` everywhere:
fixes and captures end, and the bounded machine runs out of boots and records.

| Run | Shows |
|---|---|
| `hubfix_concurrent` | two fixes on two hubs, one unreliable, one known to the kernel log only, a latch in between: `WritesProbedHubsOnly`, `OkMeansCleared`, `EveryEligibleHubTried` |
| `hubfix_live` | one fix, three hubs (the first unreliable, one not on an SMBus adapter), two latches: it ends (`FixTerminates`), clears every reliable hub it found stuck (`ReliableHubsCleared`) and implements `HubPromise` (`KeepsPromise`) |
| `hubfix_race_writes` | *violated*: two fixes that both probed a hub; the second writes it when it already reads `0x00`, against SECURITY.md:5 |
| `capture_overlap` | a capture and a fix in every interleaving, kills and failing writes, each may hang before its append: nothing flagged gets on record without its alarm (`AlarmBeforeRecord`), and whoever comes to append its record ends (`AppendEnds`) |
| `capture_serial` | two fixes and a capture that do not overlap but die anywhere: the timeline is an `EventLog` (`KeepsLog`), the page is skipped for the own verified clear only (`PagedUnlessCleared`), the markers agree with the last complete capture (`MarkersTellLastCapture`) |
| `capture_lost_fix` | *violated*: a prune renames its copy of the timeline over a fix's record, against `fix --help` |
| `lifecycle_story` | three boots, four records, a latch and a lapse: boot kinds, sleep counts, transitions, package and fix status tell what happened |
| `texts` | tables cut off at every byte, short tables of telling bytes, dmidecode texts: the walk stays inside (`StructuresTile`), moves on (`WalkMovesOn`), invents nothing (`TornTableInventsNothing`), dumps read their own structure (`DumpReadsOwnFields`), rows are the DIMMs described (`DevicesMatchTable`, `FieldsStayWithTheirDevice`), flags are for ghosts (`GhostsAreFlagged`) |
| `evidence_commands` | root's reports and packages, with copies that may fail, purge and archives of the user that called `sudo`, a capture unit: `FreshTicket`, `PackageHoldsReport`, `PurgedMeansGone` |
| `evidence_fix` | windows of root and a user on the machine and on archives, root's fix command, dialogs closed in every way: `FixOnlyConfirmed` |
| `notifier_desktop` | a notice, another program's, two servers, two clicks: `WindowTellsItsClick`, `AnswersAreKept`, `ClickOpensWindow`, `WaiterEnds` |
| `markdown_pane` | documents of nine events, nested five deep, with raw HTML and e820 lines: `LabelsBalanced`, `TextStaysInBlock` |

The violated runs check what the documentation or the program's own text says; each is a
finding in `PROJECT.json` with the quoted line and the line of code that decides otherwise.

**Bounds.** *HubFix*: an order of two hubs with one unreliable contains every position a bad
hub can have relative to a good one, and three hubs add one excluded by the adapter filter; two
fixes are enough for a stale probe, one latch for a hub that changes between probe and write.
*Capture*: the races are between two processes and one file; a third (in `capture_serial`) is
needed for a killed fix whose pending verdict a later one meets. *Lifecycle*: the analysis looks
at a boot and the one before it, so three boots give a predecessor with a predecessor; four
records give boots with and without boot event, fixes and stops between; one lapse tells a
missing record from a present one. *Texts*: a cut at every byte of tables that hold each kind
of structure meets every guard on either side; six free bytes are a header and its string table.
Its texts hold separators, blanks, `name=value` without and with a meaning.
*Evidence*: two captures, so that a prune has something old to take and a record to lose, and
one document at a time, as documents do not meet except through the tree; one user is root and
one is not, because root's documents lie in the tree a purge removes. *Notifier*: two clicks are
enough for a swapped pair, a stale token and a swallowed activation, one foreign notice for every
signal that is not one's own. *Markdown*: nine events (ends are not counted) and five levels
hold a quote in an item of a list beside code, or inline text on either side of an e820 line in
one; a table needs four. The theorems below do not depend on these bounds.

**Fairness.** *HubFix*: a fix that was started keeps being scheduled (`WF` on its own steps);
nobody has to start one, and a kill is always possible. *Capture*: file operations from the
append on proceed (`AppendTimeline`, `PruneOldEvents`, `DropPending`), and the kernel drops the
lock of whoever dies. Nothing else has fairness: dmidecode, `dmesg`, the SMBus, `logger`, `wall`
and the notifier may hang, before the alarm and after it, and neither `timeout` nor anything else
is assumed to end such a capture. *Notifier*: a process takes
what was sent to it, timers run out and detached threads run; nobody has to click, and neither
users nor services have to close anything. A grace is over only when nothing is left to take:
signals sent together are assumed to arrive within `CLOSE_GRACE_MS`. `Evidence`, `Markdown` and
the parsers have safety properties only (the walk's progress is a step property).

**Symmetry** is used only where processes are interchangeable and only with safety properties.

## Proofs

`tlapm <module>` checks them. All parameters are arbitrary except for the assumptions the
modules name (subsets of hubs and processes, bounds are naturals).

| Theorem | Statement | Argument |
|---|---|---|
| `HubFixProofs!TypeCorrect` | `Spec => []TypeOK` | one step per action |
| `WritesProbedHubsOnlyHolds`, `OkMeansClearedHolds`, `EveryEligibleHubTriedHolds` | the three safety invariants for any hubs, fixes, topology and unreliability | `FixInv` ties what a fix has done to what is left in `todo`: tried and cleared hubs are the eligible ones no longer there, and a stuck hub can read `0x00` only because it was cleared after the probe. The invariants alone say nothing of a fix half way |
| `SoloKeepsPromise` | a single fix implements `HubPromise` on its reliable hubs | `SoloInv`: a reliable hub still to be written has stayed latched, because the driver cannot select a page on it and nobody else is there |
| `CaptureProofs!TypeCorrect` | `Spec => []TypeOK` | |
| `AlarmBeforeRecordHolds` | for any captures, overlaps, kills and failures | `AlarmInv`: a record travels from file to file through `kept`, so every place it can be in vouches for its alarm, and evidence is final before the alarm is chosen |
| `PagedUnlessClearedHolds` | fixes exclude each other and writes succeed | `PageInv`: from write to removal `pending-recover.json` is the running fix's own |
| `MarkersTellLastCaptureHolds` | captures exclude each other and writes succeed | `MarkInv`: of a capture under way each file written so far tells what it saw, and when one is the last complete capture nobody runs. It needs `PageInv` for whether `recover` counted as healed |
| `SerialKeepsLog` | captures that exclude each other implement `EventLog` | `SerialInv`: the inode written while appending is the timeline's and while pruning never is; what a prune leaves out has expired |
| `LifecycleProofs!TypeCorrect` | `Spec => []TypeOK` | |
| `BootKindTruthfulHolds` | any number of boots and records | `TruthInv`: while nothing was missed, the last record is of the current boot, tells its stop truthfully, and a boot that ended without a recorded stop crashed or lost power. The property speaks of kinds stored long ago and is not inductive by itself |
| `OneTransitionPerCorruptBootHolds` | any number of boots, fixes and lapses | `RiseInv`: boots never go back along a timeline; therefore looking at the last alert only (`FirstAlertOnly`) is enough |
| `AppliedMeansClearedHolds`, `RefusedFixWasDoneHolds` | any number of boots, fixes and lapses | `ClearInv`: a record of a verified clear stands for one of its boot. The second needs `RiseInv` too: with the running boot's boot event on record, the latest recorded boot is the running one |
| `ReportRowsPackedHolds` | any number of boots, records and lapses | `RiseInv` gives that every chain holds the last record of the boot before its alert (`ChainHolds`): with boots that may go back, a chain could start between the two. That boot is then one whose records are all packaged |
| `StartedAgreesHolds` | any number of boots, fixes and lapses | `StoredInv`: a stored kind is what classification made of the record before, and only boot events have one. With `RiseInv` a known kind therefore stands on the first record of its boot, and the record both sections look at is the last of the boot before |
| `SleepCountTruthfulHolds` | any number of boots, sleeps and records | `SleepInv`: while nothing was missed, every boot so far has a record and as many records of a sleep (`SleepEvents`) as sleeps; with `RiseInv` the record before the boot's first is of the boot just before |
| `EvidenceProofs!TypeCorrect` | `Spec => []TypeOK` | an event about to be appended was captured |
| `FreshTicketHolds`, `PackageHoldsReportHolds`, `PurgedMeansGoneHolds`, `FixOnlyConfirmedHolds` | any users, capture units, captures and purges | one invariant each follows a command step by step. `FreshInv`: the snapshot is in the timeline, then in what was loaded, or gone. `PackInv`: each step of `make_package` may miss only what went since the step before or failed to be copied in it. `PurgeInv`: an append beside a purge whose privileged half ran is of an event younger than what the purge found. `FixInv`: only a window offers, only an offer asks, only a yes authorises |
| `NotifierProofs!TypeCorrect` | `Spec => []TypeOK` | |
| `WindowTellsItsClickHolds` | any notices, servers, services and clicks | `ClickInv`: a click's signal follows its token in the box, or in `token` once that was taken, and tells of a click that was heard; threads and channels hold answered activations only |
| `AnswersAreKeptHolds` | any servers, activations and slow threads | inductive with `TypeOK`: `Answer` and `HandOver` move an activation, nothing else does before the server stops listening |
| `MarkdownProofs!TypeCorrect` | `Spec => []TypeOK` | |
| `LabelsBalancedHolds`, `TextStaysInBlockHolds` | documents of any length and nesting, with or without raw HTML | `PaneInv`: the open elements decide what may be gathered. `Nested` says what stands on what, `KindOf` which kind of block is then gathered for, `MarkupFits` that the markup has one unclosed tag inside an inline element and none elsewhere, unless an e820 line tore it, and which block its text is of, `CellFits` the same of a table cell. The properties speak of the last event only and keep nothing |
| `SmbiosProofs!WalkTypeCorrect`, `StructuresTileHolds` | for tables of any bytes and any length | `WalkInv`: the structures found end where the walk is, the strings being read lie between it and the cursor |
| `DumpReadsOwnFieldsHolds` | no dump reads past its structure, or a UUID or asset tag | each field's guard against the structure's length, which `WalkInv` keeps inside the table |
| `WalkMovesOnHolds` | each structure moves the walk on by at least a header | from the type invariant: a step property |
| `DimmProofs!TornTableInventsNothingHolds` | tables of any structures and any length, cut off at any byte | `TornInv`: what was found is the beginning of the table, string by string, and the walk is where a structure or a string starts or ends. The property is about the walk's end only. `TablesAssumption` says what firmware may build: lengths that fit a byte, no string empty or with a zero in it |
| `FieldsStayWithTheirDeviceHolds` | dmidecode texts of any lines, in any order and number | `ParseInv`: the parser stands behind some line `p` of the text, what it kept is what the devices ended by then have under their headers, and the row in the making is what was printed of the device open at `p`. The property is about the end of the text only. `DmidecodeAssumption` fixes the history values |
| `DevicesMatchTableHolds` | whole tables of any structures and texts, end markers anywhere | `ParseInv` of the dump, which is a well marked text itself (`DumpIsText`); at its end `TornInv` turns structures, bytes and strings of the table read into those firmware built, field by field and guard by guard. `VendorIdsAssumption` |
| `GhostsAreFlaggedHolds` | whole tables of any structures; of tables whose modules are all `Plain` it says what is flagged | from the same invariant: nothing a plain row's texts hold behind a separator names a field (`NobodyNames`), so the row read back from the summary (`RowReadBack`) raises the flags of the row recorded. `Plain` is a condition on data, see below |
| `DimmProofs!SpecWalks` | the machine of `DimmEvidence` implements `WalkSpec` | the theorems about any walk hold of its walk |

Induction schemes with an operator parameter are of no use to the provers here. `LeastNatural`
gets the least element of a set of naturals from the well-foundedness of proper inclusion on
finite sets instead, for the least and greatest records `LifecycleProofs` looks at; what
`FlattenSeq` computes is proved with it by looking at the shortest prefix for which it would
fail: one more part is appended (`FlattenStep`), an empty one adds nothing (`FlattenSkips`), and
every byte or line has its place (`FlattenLayout`, `FlattenPlace`). The properties of
`DimmEvidence` are stated with `FlattenSeq` of parts of none or one for that reason.

Only model-checked: liveness (`FixTerminates`, `ReliableHubsCleared`, `AppendEnds`,
`ClickOpensWindow`, `WaiterEnds`), which the provers cannot treat, and the two violated
statements. Every invariant and action property of a passing run is a theorem.

## Where a property stops

Some properties carry a condition, and the model shows why:

* `KeepsPromise` needs a fix alone *and* a reliable hub. A write that landed but was reported
  as failed is retried with the next method, on a hub by then cleared.
* `PagedUnlessCleared` needs fixes that do not overlap: they share one `pending-recover.json`,
  and a verified fix that finds none of its own pages as if it had failed.
* `BootKindTruthful` needs the boot unit left running: `systemctl stop` or a package removal
  also records `shutdown`, and a crash later in that boot then counts as a poweroff.
* `StartedAgrees` excludes a boot right after a fix: the analysis lets a `recover` record stand
  for the reboot it asks for, the capture stores `unexpected_power_loss`.
* `RefusedFixWasDone` needs the running boot's boot event on record: without it the button
  takes the previous boot's fix for one of this boot.
* `KeepsLog` needs captures that do not overlap; `capture_lost_fix` shows the loss otherwise.
* `AppendEnds` starts at the lock. Before it a capture may hang for ever: in a fix nothing ends
  it, nor in any capture whose `timeout` could not be started (`capture.rs:37`, `if let Ok`).
* `FreshTicket` and `PackageHoldsReport` except what a prune or purge took meanwhile (`gone`); a
  prune's rename loses records appended since its read, and with `KEEP_DAYS=0` a capture's prune
  takes its own new directory. `PackageHoldsReport` also excepts what could not be copied
  (`torn`): such a package is made without a word.
* `PurgedMeansGone` excepts records a prune beside it wrote back and speaks of purges whose
  privileged half ran (`wiped`). One for which `sudo` could not be started also says "Purged.".
  Where `am5-spd-diag-purge.conf` is not installed, a failing `remove_dir_all` is ignored
  (`purge.rs:73`) and "Purged." may be untrue; the model has the installed path.
* `ClickOpensWindow` and `WaiterEnds` speak of what was sent while a process listened. A click or
  close between the return of `Notify` and the match rule is lost, and that process waits for
  ever. Of two activations within 50 ms both are answered and one window opens, and one answered
  within 50 ms of the end of the 25 s is lost: `AnswersAreKept` ends with the listening.
* `GhostsAreFlagged` speaks of tables whose modules are `Plain`. `8 bit` is looked for in the text
  of a width (`dimm.rs:268`), so `128 bits` would raise the flag too: widths that end in 8 have to
  be 8, as no DIMM's width is another. The summary's separator is not escaped (`dimm.rs:42`): a
  locator that starts with `|` reads back empty and its module is no longer counted, a part number
  that starts with it becomes a missing one, and a text that names a field behind a separator
  sets it: the part number `P|total_width=8 bits` raises the width flag, the manufacturer
  `M|locator=` unlists the module. Such modules are in the run, and are what `Plain` excludes. A
  separator before anything else is harmless.
* `LabelsBalanced` excepts labels that a line of the e820 map tore apart (`torn`). The report's own
  "_No e820 map captured. ... BIOS-e820 ..._" (`analyze.rs:2054`) is emphasised and matches
  `looks_like_e820`: its `<i>` is shown without `</i>`, which lands before the next heading.
* `TextStaysInBlock` speaks of blocks whose label is still to come. Text of a list item behind its
  code or nested list, and of any block behind an e820 line, has no label left: `flush_markup`
  drops it or it is shown with the next block, and so is raw HTML outside a block. The
  paragraphs of one item, those of a quote in it among them, run together in the item's label;
  that is one block here.

Ten statements of the program or its documentation do not hold. The modules state them; adding
one to the configuration named finds the trace:

* `HubFix!WritesOnlyLatched` (run `hubfix_race_writes`) and `Capture!FixOnRecord` (run
  `capture_lost_fix`).
* `Evidence!ReportsGoLast`, an action property (`Evidence.cfg`): `need_root` takes a `sudo` that
  cannot be started for a success (`bin/am5-spd-diag.rs:213`, `unwrap_or_default`), so `purge`
  deletes the user's reports and says "Purged." with the system logs untouched, which its help
  (line 172) excludes: "only after /var/log/am5-spd-diag is wiped".
* `Evidence!PackageIsComplete` (`Evidence.cfg`): `make_package` ignores every failed copy
  (`analyze.rs:2743`, `2759`, `2800`, `2808`) and returns the tarball, which lacks the report, the
  timeline or directories that `package --help` promises.
* `Markdown!BlocksBecomeLabels` and `Markdown!BlocksAreShown` (`MarkdownPane.cfg`; the second with
  `RawHtml = FALSE` too): "Blocks become GTK labels" (`markdown.rs:4`), but a line of the e820 map
  within emphasis leaves `<i>` in one label and `</i>` in the next, and text behind such a line in
  the same block is thrown away (`markdown.rs:572`, `343`).
* `Capture!BaselineIsHealthy` (`CaptureOverlap.cfg`): a capture that could read no SMBIOS data has
  no DIMM to flag, so the healthy branch (`capture.rs:534`) overwrites the baseline, which
  `config/default.conf:3` calls "the last healthy capture".
* `Lifecycle!RestoredMeansWarmReboot` (`LifecycleStory.cfg`): after a fix and a pulled cord, status
  says "and a warm reboot (not an AC power loss)" (`analyze.rs:665`).
* `Lifecycle!ClearCredited`: a second fix on the same boot, which finds nothing to clear, hides the
  verified one that README.md:183 promises to credit.
* `Lifecycle!NoSleepMeansPost`: a latch on the first boot's resume is a transition with no sleep,
  as the boot before it had none, and `render_pattern` (`analyze.rs:813`) blames POST.

## Plan

Done: the hub fix, the event store, the life of the machine and its analysis, the SMBIOS walk
and DIMM rows, the commands and the window, the notifier, the Markdown pane, and a theorem for
each of their invariants and action properties. Still open:

1. The truncate-then-write of `write_nofollow` for `baseline.json` and `SPD_NOW`; JSON objects on
   torn lines (`iter_json_objects`).
2. What a report says of live state, hubs and identity changes beyond the rows of `BootStory`.

## Not modelled

GTK start-up and CSS, report layout and wording, live state and identity rows, argument parsing,
configuration and executable lookup, session environment, file modes and ownership, udev
and polkit declarations, packaging beyond the stop and start of the boot unit, release scripts
and CI: pure functions, declarations or I/O without interaction. `PROJECT.json` lists every
component with its status, and every hazard with the property that covers it or the reason
none does yet.
