---------------------------- MODULE DimmEvidence ----------------------------
(***************************************************************************)
(* From an SMBIOS table to the DIMMs and flags a capture records:          *)
(* collect_memory_dump and format_smbios_memory_dump of smbios.rs,         *)
(* parse_dmidecode_memory, dimm_flags and the summary of dimm.rs.          *)
(*                                                                         *)
(* A line of the dump is a record [kind, handle, key, num, str]: a header  *)
(* or a field.  `handle` is a history value: the header the field stands   *)
(* under.  A text is a sequence of bytes; the text of a size is <<KiB>>,   *)
(* or <<>> when it has no digit; a width is a number, 0 for "Unknown".     *)
(* Texts firmware builds are ASCII, without line break and without the     *)
(* words "DMI type 16," or "DMI type 17,": of others the bytes kept are    *)
(* not those read, or the line printed is not one line.                    *)
(***************************************************************************)
EXTENDS SmbiosWalk, SequencesExt

CONSTANTS
  Tables,        \* tables firmware may build: sequences of structures
  Dmidecode,     \* what dmidecode may print: sequences of lines
  Placeholders,  \* texts that stand for "unknown", the empty text among them
  GhostSerials,  \* texts of the ghost's serial number
  Misnamed,      \* locators that name no DIMM ("channel" without "dimm")
  VendorIds,     \* JEDEC ids module_mfg_id knows
  FieldNames,    \* the texts that name a field of the summary: which one
  SizeTexts,     \* texts that tell a size: one with a digit, not "no module ..."
  EightBitTexts  \* texts that hold "8 bit"

\* Lines that begin a device.  History: the key of a line that mentions type 17
\* is empty if no device is open there.
Opens(line) == line.kind = "device" \/ (line.kind = "mention" /\ line.key = "")

\* Lines that begin a part of the text of their own.
Starts(line) == line.kind \in {"device", "other", "array"} \/ Opens(line)

\* The device that line i began is still open behind line p.
OpenAt(lines, i, p) == Opens(lines[i]) /\ \A k \in (i + 1)..p : ~Starts(lines[k])

\* History values are right: lines have the same handle exactly if nothing
\* starts between them.
WellMarked(lines) ==
  \A j \in DOMAIN lines :
    /\ lines[j].kind \in {"device", "other", "array", "mention", "field"}
    /\ \A i \in 1..(j - 1) :
         lines[i].handle = lines[j].handle <=> \A k \in (i + 1)..j : ~Starts(lines[k])
    /\ lines[j].kind = "mention" =>
         (lines[j].key = "" <=> ~\E i \in 1..(j - 1) : OpenAt(lines, i, j - 1))

\* The bytes of a text: neither a terminator nor a line break.
TextByte == (1..127) \ {10}

\* A structure behind its header, as firmware builds it: no string is empty or
\* holds a terminator.
FirmwareStructure ==
  [typ : Byte, body : Seq(Byte), strings : Seq(Seq(TextByte) \ {<<>>})]

ASSUME TablesAssumption ==
  \A t \in Tables :
    t \in Seq(FirmwareStructure) /\ \A i \in DOMAIN t : 4 + Len(t[i].body) \in Byte

ASSUME DmidecodeAssumption ==
  \A lines \in Dmidecode : lines \in Seq({lines[i] : i \in DOMAIN lines}) /\ WellMarked(lines)

\* No vendor has the id an absent field leaves.
ASSUME VendorIdsAssumption == 0 \notin VendorIds

VARIABLES
  table,     \* history: what firmware built
  dmi,       \* what dmidecode would print; <<>> if it fails
  source,    \* walking, sysfs, dmidecode, none
  text,      \* the lines of the dump still to be parsed
  cur,       \* rows in the making: one or none
  devices    \* the DIMMs found

parseVars == <<table, dmi, source, text, cur, devices>>
vars      == <<walkVars, parseVars>>

NoDevice == [handle |-> 0, locator |-> <<>>, size |-> <<>>, total |-> 0, data |-> 0,
             maker |-> <<>>, serial |-> <<>>, part |-> <<>>, mfgId |-> 0]

-----------------------------------------------------------------------------
(* What firmware builds, and how it may be cut short. *)

Encode(s) ==
  <<s.typ, 4 + Len(s.body), 0, 0>> \o s.body
    \o (IF s.strings = <<>> THEN <<0>>
        ELSE FlattenSeq([i \in DOMAIN s.strings |-> s.strings[i] \o <<0>>]))
    \o <<0>>

EncodeAll(t) == FlattenSeq([i \in DOMAIN t |-> Encode(t[i])])

\* The table read is what firmware built, cut off anywhere; or anything.
Genuine == IsPrefix(blob, EncodeAll(table))

Init ==
  /\ WalkInit
  /\ table \in Tables
  /\ table = <<>> \/ Genuine
  /\ dmi \in Dmidecode
  /\ source = "walking"
  /\ text = <<>>
  /\ cur = <<>>
  /\ devices = <<>>

-----------------------------------------------------------------------------
(* The dump of a structure. *)

Has(s, f) == s.len >= f.need

\* u16_at, or a string index, at a field of a structure.
Word(s, f)  == At(s.at + f.at) + 256 * At(s.at + f.at + 1)
Index(s, f) == IF Has(s, f) THEN At(s.at + f.at) ELSE 0

Blank == {9, 10, 11, 12, 13, 32}

\* str::trim.
Trim(str) ==
  LET ink == {i \in DOMAIN str : str[i] \notin Blank} IN
  IF ink = {} THEN <<>> ELSE SubSeq(str, Min(ink), Max(ink))

\* smbios_string: 0 is no string, and so is an index beyond the set.
Text(s, f) ==
  LET i == Index(s, f) IN
  IF i \in DOMAIN s.strings
  THEN Trim(SubSeq(blob, s.strings[i].from + 1, s.strings[i].to))
  ELSE <<>>

Width(s, f) == IF Has(s, f) /\ Word(s, f) # 65535 THEN Word(s, f) ELSE 0

ExtMiB(s) == At(s.at + 28) + 256 * At(s.at + 29) + 65536 * At(s.at + 30)
               + 16777216 * (At(s.at + 31) % 128)

\* MUTANT: the extended size is not looked at.
CapacityNoExt(s) ==
  LET code == Word(s, SizeCode) IN
  CASE ~Has(s, SizeCode) \/ code \in {0, 65535} -> <<>>
    [] code >= 32768 /\ code # 65535 -> <<code - 32768>>
    [] OTHER -> <<code * 1024>>

\* format_size: the extended size, KiB or MiB.
Capacity(s) ==
  LET code == Word(s, SizeCode) IN
  CASE ~Has(s, SizeCode) \/ code \in {0, 65535} -> <<>>
    [] Has(s, SizeCode) /\ code = 32767 /\ Has(s, ExtSize) -> <<ExtMiB(s) * 1024>>
    [] Has(s, SizeCode) /\ code >= 32768 /\ code # 65535   -> <<code - 32768>>
    [] OTHER -> <<code * 1024>>

Empty(s) == Has(s, SizeCode) /\ Word(s, SizeCode) = 0

Line(kind, h, key, num, str) ==
  [kind |-> kind, handle |-> h, key |-> key, num |-> num, str |-> str]

\* type17_display_fields, and each field's lines in format_smbios_memory_dump.
Shown(s, h, f, key) ==
  IF Has(s, f) THEN <<Line("field", h, key, 0, Text(s, f))>> ELSE <<>>
ShownId(s, h) ==
  IF Has(s, MakerId)
  THEN <<Line("field", h, "mfgId", At(s.at + MakerId.at + 1), <<>>)>> ELSE <<>>

SlotLines(s, h) ==
  << Line("device", h, "", 0, <<>>),
     Line("field", h, "total", Width(s, TotalWidth), <<>>),
     Line("field", h, "data", Width(s, DataWidth), <<>>),
     Line("field", h, "size", 0, Capacity(s)),
     Line("field", h, "locator", 0, Text(s, Locator)) >>

\* format_smbios_memory_dump for one structure: an empty slot ends early.
Dump(s, h) ==
  IF Empty(s) THEN SlotLines(s, h)
  ELSE SlotLines(s, h) \o Shown(s, h, Maker, "maker") \o Shown(s, h, Serial, "serial")
         \o Shown(s, h, Part, "part") \o ShownId(s, h)

\* The structures of other types print nothing.
Dumps == [i \in DOMAIN out |-> IF out[i].typ = 17 THEN Dump(out[i], i) ELSE <<>>]

DumpAll == FlattenSeq(Dumps)

Described == \E i \in DOMAIN out : out[i].typ = 17

\* collect_memory_dump: the table if it describes memory, else dmidecode.
Collect ==
  /\ walk = "done"
  /\ source = "walking"
  /\ source' = CASE Described -> "sysfs"
                 [] ~Described /\ dmi # <<>> -> "dmidecode"
                 [] ~Described /\ dmi = <<>> -> "none"
  /\ text' = IF Described THEN DumpAll ELSE dmi
  /\ UNCHANGED <<walkVars, table, dmi, cur, devices>>

-----------------------------------------------------------------------------
(* Parsing the dump, line by line. *)

Populated(d) == d.size # <<>> /\ d.locator # <<>> /\ d.locator \notin Misnamed

\* apply_jedec_manufacturer; a vendor's name is its id.
Jedec(d) ==
  IF d.maker \in Placeholders /\ d.mfgId \in VendorIds
  THEN [d EXCEPT !.maker = <<d.mfgId>>] ELSE d

\* What is kept of a row.
Record(d) == [Jedec(d) EXCEPT !.mfgId = 0]

\* finish: the row in the making is kept if it describes a DIMM.
Finished ==
  IF cur # <<>> /\ Populated(Head(cur)) THEN Append(devices, Record(Head(cur))) ELSE devices

\* MUTANT: a header of another type leaves the device open.
ClosesSameType(kind) == kind = "device"

\* Lines at which the device before them ends.
Closes(kind) == kind \in {"device", "other", "array"}

HeaderLine ==
  /\ source # "walking"
  /\ text # <<>>
  /\ Closes(Head(text).kind)
  /\ devices' = Finished
  /\ IF Head(text).kind = "device"
     THEN cur' = <<[NoDevice EXCEPT !.handle = Head(text).handle]>>
     ELSE cur' = <<>>
  /\ text' = Tail(text)
  /\ UNCHANGED <<walkVars, table, dmi, source>>

\* A line that mentions type 17 elsewhere opens a device when none is open.
MentionLine ==
  /\ source # "walking"
  /\ text # <<>>
  /\ Head(text).kind = "mention"
  /\ IF cur = <<>>
     THEN cur' = <<[NoDevice EXCEPT !.handle = Head(text).handle]>>
     ELSE UNCHANGED cur
  /\ text' = Tail(text)
  /\ UNCHANGED <<walkVars, table, dmi, source, devices>>

Taken(d, line) ==
  CASE line.key \in {"total", "data", "mfgId"}                   -> [d EXCEPT ![line.key] = line.num]
    [] line.key \in {"size", "locator", "maker", "serial", "part"} -> [d EXCEPT ![line.key] = line.str]
    [] OTHER                                                 -> d

FieldLine ==
  /\ source # "walking"
  /\ text # <<>>
  /\ ~Closes(Head(text).kind)
  /\ Head(text).kind # "mention"
  /\ cur' = [i \in DOMAIN cur |-> Taken(cur[i], Head(text))]
  /\ text' = Tail(text)
  /\ UNCHANGED <<walkVars, table, dmi, source, devices>>

\* The last device ends with the text.
EndOfText ==
  /\ source # "walking"
  /\ text = <<>>
  /\ cur # <<>>
  /\ devices' = Finished
  /\ cur' = <<>>
  /\ UNCHANGED <<walkVars, table, dmi, source, text>>

Next ==
  \/ WalkNext /\ UNCHANGED parseVars
  \/ Collect
  \/ HeaderLine
  \/ MentionLine
  \/ FieldLine
  \/ EndOfText

Spec == Init /\ [][Next]_vars

Parsed == source # "walking" /\ text = <<>> /\ cur = <<>>

-----------------------------------------------------------------------------
(* What the capture makes of the DIMMs. *)

\* MUTANT: total width alone decides.
FlagsTotalOnly(d) ==
  (IF d.part \in Placeholders THEN {"unknown_part"} ELSE {})
    \union (IF d.total % 10 = 8 THEN {"dimm_8bit_width"} ELSE {})

\* dimm_flags of a populated DIMM; "8 bit" is looked for in the width's text.
Flags(d) ==
  (IF d.part \in Placeholders THEN {"unknown_part"} ELSE {})
    \union (IF 8 \in {d.total % 10, d.data % 10} THEN {"dimm_8bit_width"} ELSE {})
    \union (IF d.serial \in GhostSerials /\ d.part \in Placeholders
            THEN {"ghost_page0"} ELSE {})

\* The bytes that separate the fields of a summary line, and name from value.
Bar    == 124
Equals == 61

UpTo(str, c) ==
  LET at == {i \in DOMAIN str : str[i] = c} IN
  IF at = {} THEN str ELSE SubSeq(str, 1, Min(at) - 1)

\* What a field keeps of its text: the part before the first separator in it.
Own(str) == Trim(UpTo(str, Bar))

\* The part of a text behind a separator in it, up to the next one.
Behind(str, i) == UpTo(SubSeq(str, i + 1, Len(str)), Bar)

\* The separators in a text behind which it gives field f a value of its own.
Naming(str, f) ==
  {i \in DOMAIN str :
     /\ str[i] = Bar
     /\ Equals \in ToSet(Behind(str, i))
     /\ LET name == Trim(UpTo(Behind(str, i), Equals)) IN
        name \in DOMAIN FieldNames /\ FieldNames[name] = f}

\* The texts, of those printed behind a field, that name it: the last one wins.
Namers(texts, f) == {k \in DOMAIN texts : Naming(texts[k], f) # {}}

Said(texts, f) ==
  LET str  == texts[Max(Namers(texts, f))]
      part == Behind(str, Max(Naming(str, f)))
  IN  Trim(SubSeq(part, Len(UpTo(part, Equals)) + 2, Len(part)))

\* The value a field ends up with, as a text, a size or a width.
TextOver(texts, f, own) == IF Namers(texts, f) = {} THEN Own(own) ELSE Said(texts, f)
SizeOver(texts, own) ==
  CASE Namers(texts, "size") = {}         -> own
    [] Namers(texts, "size") # {}
         /\ Said(texts, "size") \in SizeTexts -> Said(texts, "size")
    [] OTHER                              -> <<>>
WidthOver(texts, f, own) ==
  CASE Namers(texts, f) = {}              -> own
    [] Namers(texts, f) # {}
         /\ Said(texts, f) \in EightBitTexts  -> 8
    [] OTHER                              -> 0

\* format_dimm_summary, then parse_dimm_summary: fields are printed in the order
\* locator, size, widths, maker, serial, part, and a name given again counts.
\* An id that a text gives only names the maker, which no flag reads.
ReadBack(d) ==
  LET texts == <<d.maker, d.serial, d.part>> IN
  Jedec([d EXCEPT !.locator = TextOver(<<@, d.maker, d.serial, d.part>>, "locator", @),
                  !.size    = SizeOver(texts, @),
                  !.total   = WidthOver(texts, "total", @),
                  !.data    = WidthOver(texts, "data", @),
                  !.maker   = TextOver(texts, "maker", @),
                  !.serial  = TextOver(<<@, d.part>>, "serial", @),
                  !.part    = TextOver(<<@>>, "part", @)])

\* summary_flags of what was recorded.
AlertFlags == UNION {Flags(ReadBack(d)) : d \in {e \in ToSet(devices) : Populated(ReadBack(e))}}

-----------------------------------------------------------------------------
(* Reference: the same from what firmware built, and from the lines.       *)

\* The structures up to the end marker.
UpToEnd(t) ==
  LET ends == {i \in DOMAIN t : t[i].typ = 127} IN
  IF ends = {} THEN t ELSE SubSeq(t, 1, CHOOSE i \in ends : \A j \in ends : i <= j)

Whole == blob = EncodeAll(table)

ByteOf(s, at) == IF at - 3 \in DOMAIN s.body THEN s.body[at - 3] ELSE 0
WordOf(s, at) == ByteOf(s, at) + 256 * ByteOf(s, at + 1)
TextOf(s, at) ==
  IF ByteOf(s, at) \in DOMAIN s.strings THEN Trim(s.strings[ByteOf(s, at)]) ELSE <<>>
HasBytes(s, upTo) == 4 + Len(s.body) > upTo

SizeOf(s) ==
  LET code == WordOf(s, 12) IN
  CASE ~HasBytes(s, 13) \/ code \in {0, 65535} -> <<>>
    [] HasBytes(s, 13) /\ HasBytes(s, 31) /\ code = 32767 ->
         <<1024 * (WordOf(s, 28) + 65536 * (WordOf(s, 30) % 32768))>>
    [] HasBytes(s, 13) /\ code # 65535 /\ code >= 32768 -> <<code - 32768>>
    [] OTHER -> <<1024 * code>>

WidthOf(s, at) == IF HasBytes(s, at + 1) /\ WordOf(s, at) # 65535 THEN WordOf(s, at) ELSE 0

MakerOf(s) ==
  IF TextOf(s, 23) \in Placeholders /\ HasBytes(s, 45) /\ ByteOf(s, 45) \in VendorIds
  THEN <<ByteOf(s, 45)>> ELSE TextOf(s, 23)

\* The row of structure i of table t as the SMBIOS standard reads it.
RowOf(t, i) ==
  [handle |-> i, total |-> WidthOf(t[i], 8), data |-> WidthOf(t[i], 10), size |-> SizeOf(t[i]),
   locator |-> TextOf(t[i], 16), maker |-> MakerOf(t[i]), serial |-> TextOf(t[i], 24),
   part |-> TextOf(t[i], 26), mfgId |-> 0]

\* The populated memory devices of a table.
Modules(t) == {i \in DOMAIN UpToEnd(t) : t[i].typ = 17 /\ Populated(RowOf(t, i))}

\* The lines under header h that say something of field key; the last one counts.
Under(lines, h, key) ==
  {i \in DOMAIN lines : lines[i].kind = "field" /\ lines[i].handle = h /\ lines[i].key = key}

LastIn(S) == CHOOSE i \in S : \A j \in S : j <= i

Num(lines, h, key) ==
  IF Under(lines, h, key) = {} THEN 0 ELSE lines[LastIn(Under(lines, h, key))].num
Str(lines, h, key) ==
  IF Under(lines, h, key) = {} THEN <<>> ELSE lines[LastIn(Under(lines, h, key))].str

LineRow(lines, h) ==
  [handle |-> h, locator |-> Str(lines, h, "locator"), size |-> Str(lines, h, "size"),
   total |-> Num(lines, h, "total"), data |-> Num(lines, h, "data"),
   maker |-> Str(lines, h, "maker"), serial |-> Str(lines, h, "serial"),
   part |-> Str(lines, h, "part"), mfgId |-> Num(lines, h, "mfgId")]

\* The DIMM described by what is printed under line i.
Printed(lines, i) == LineRow(lines, lines[i].handle)

(***************************************************************************)
(* A table cut off anywhere yields the structures that are whole and at    *)
(* most one whose last string is cut short; none is invented, none is read *)
(* shifted (iter_smbios_structures, parse_string_table).                   *)
(***************************************************************************)
TornTableInventsNothing ==
  walk = "done" /\ table # <<>> /\ Genuine =>
    /\ Len(out) <= Len(UpToEnd(table))
    /\ \A k \in DOMAIN out :
         LET s == out[k]
             told == [j \in DOMAIN s.strings |->
                        SubSeq(blob, s.strings[j].from + 1, s.strings[j].to)]
         IN  /\ s.typ = table[k].typ
             /\ SubSeq(blob, s.at + 5, s.at + s.len) = table[k].body
             /\ IF k < Len(out) \/ Whole THEN told = table[k].strings
                ELSE \/ told = <<>>
                     \/ /\ IsPrefix(Front(told), table[k].strings)
                        /\ Len(told) <= Len(table[k].strings)
                        /\ IsPrefix(Last(told), table[k].strings[Len(told)])
    /\ \A k \in DOMAIN UpToEnd(table) :
         Len(EncodeAll(SubSeq(table, 1, k))) <= Size => k \in DOMAIN out

(***************************************************************************)
(* A whole table is recorded as exactly its populated memory devices, in   *)
(* order, with the sizes, widths and texts firmware gave them, through     *)
(* walk, dump and parse (format_smbios_memory_dump,                        *)
(* parse_dmidecode_memory).                                                *)
(***************************************************************************)
DevicesMatchTable ==
  Parsed /\ source = "sysfs" /\ table # <<>> /\ Whole =>
    devices = FlattenSeq([i \in DOMAIN UpToEnd(table) |->
                            IF i \in Modules(table) THEN <<RowOf(table, i)>> ELSE <<>>])

(***************************************************************************)
(* Of dmidecode's text, every device gets the fields printed under its own *)
(* header and no others, whatever structures are printed in between        *)
(* (parse_dmidecode_memory).                                               *)
(***************************************************************************)
FieldsStayWithTheirDevice ==
  Parsed /\ source = "dmidecode" =>
    devices = FlattenSeq([i \in DOMAIN dmi |->
                            IF Opens(dmi[i]) /\ Populated(Printed(dmi, i))
                            THEN <<Record(Printed(dmi, i))>> ELSE <<>>])

\* The module's own fields decide: a width whose text ends in "8 bit" is 8, no
\* text names a field of the summary behind a separator in it, and what comes
\* before the first separator passes for the whole text.
Plain(d) ==
  /\ \A w \in {d.total, d.data} : w % 10 = 8 => w = 8
  /\ \A str \in {d.locator, d.maker, d.serial, d.part} :
       \A f \in {"locator", "size", "total", "data", "maker", "serial", "part"} :
         Naming(str, f) = {}
  /\ Own(d.locator) # <<>> /\ Own(d.locator) \notin Misnamed
  /\ Own(d.part) \in Placeholders <=> d.part \in Placeholders

\* A memory device as the ghost shows it.
ShowsGhost(s) == WordOf(s, 8) = 8 \/ WordOf(s, 10) = 8

(***************************************************************************)
(* The summary of a whole table whose modules are Plain raises the width   *)
(* flag exactly if firmware reports a populated module eight bits wide, in *)
(* either width, and the part flag exactly if one has no part number       *)
(* (dimm_flags, parse_dimm_summary, summary_flags), though texts hold the  *)
(* summary's separator and things like "X=1" behind it.                    *)
(***************************************************************************)
GhostsAreFlagged ==
  Parsed /\ source = "sysfs" /\ table # <<>> /\ Whole
         /\ (\A i \in Modules(table) : Plain(RowOf(table, i))) =>
    LET flags == AlertFlags
        mods  == Modules(table)
    IN  /\ (\E i \in mods : ShowsGhost(table[i])) <=> "dimm_8bit_width" \in flags
        /\ (\E i \in mods : RowOf(table, i).part \in Placeholders)
             <=> "unknown_part" \in flags
        /\ "ghost_page0" \in flags => "unknown_part" \in flags
=============================================================================
