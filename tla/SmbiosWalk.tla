----------------------------- MODULE SmbiosWalk -----------------------------
(***************************************************************************)
(* The walk over a raw SMBIOS table, iter_smbios_structures and            *)
(* parse_string_table of crates/am5-spd-diag/src/smbios.rs, and which      *)
(* bytes of a structure the dumps read.                                    *)
(*                                                                         *)
(* The table is whatever /sys/firmware/dmi/tables/DMI or a file holds:     *)
(* any bytes at all.  Offsets count from 0, as in the code.                *)
(***************************************************************************)
EXTENDS Naturals, Sequences

Byte == 0..255

CONSTANT Blobs  \* the tables to walk

ASSUME BlobsAssumption == Blobs \subseteq Seq(Byte)

VARIABLES
  blob,     \* the table
  walk,     \* header, strings, push, done
  off,      \* offset of the structure being read
  cursor,   \* offset in its string table
  strings,  \* its strings so far, as [from, to) intervals of the table
  out       \* the structures found

walkVars == <<blob, walk, off, cursor, strings, out>>

Size  == Len(blob)
At(i) == blob[i + 1]

Interval  == [from : Nat, to : Nat]
Structure == [at : Nat, len : Nat, typ : Byte, strings : Seq(Interval), next : Nat]

WalkTypeOK ==
  /\ blob \in Seq(Byte)
  /\ walk \in {"header", "strings", "push", "done"}
  /\ off \in Nat
  /\ cursor \in Nat
  /\ strings \in Seq(Interval)
  /\ out \in Seq(Structure)

WalkInit ==
  /\ blob \in Blobs
  /\ walk = "header"
  /\ off = 0
  /\ cursor = 0
  /\ strings = <<>>
  /\ out = <<>>

-----------------------------------------------------------------------------
(* One structure after the other. *)

\* MUTANT: a length shorter than the header is not the end of the table.
FitsAnyLength == off + 4 <= Size /\ off + At(off + 1) <= Size

\* MUTANT: the structure may run one byte past the table.
FitsOffByOne == off + 4 <= Size /\ At(off + 1) >= 4 /\ off + At(off + 1) <= Size + 1

\* There is a header, and the length it claims lies in the table.
Fits == off + 4 <= Size /\ At(off + 1) >= 4 /\ off + At(off + 1) <= Size

EndOfTable ==
  /\ walk = "header"
  /\ ~Fits
  /\ walk' = "done"
  /\ UNCHANGED <<blob, off, cursor, strings, out>>

ReadHeader ==
  /\ walk = "header"
  /\ Fits
  /\ walk' = "strings"
  /\ cursor' = off + At(off + 1)
  /\ strings' = <<>>
  /\ UNCHANGED <<blob, off, out>>

\* MUTANT: the terminator of a structure without strings is one byte.
EmptySetSingle(i) == i + 1

\* The end of a string set without strings: two zeros, or what is left of them.
EmptySet(i) ==
  CASE i >= Size -> i
    [] i < Size /\ i + 1 < Size /\ At(i + 1) = 0 -> i + 2
    [] OTHER -> i + 1

NoStrings ==
  /\ walk = "strings"
  /\ strings = <<>>
  /\ cursor < Size => At(cursor) = 0
  /\ walk' = "push"
  /\ cursor' = EmptySet(cursor)
  /\ UNCHANGED <<blob, off, strings, out>>

Zeros(i) == {j \in i..(Size - 1) : At(j) = 0}

\* The first zero from i on; the end of the table if there is none.
EndOfString(i) ==
  IF Zeros(i) = {} THEN Size
  ELSE CHOOSE j \in Zeros(i) : \A k \in Zeros(i) : j <= k

\* A string; the set ends at a second zero or with the table.
ReadString ==
  /\ walk = "strings"
  /\ cursor < Size
  /\ At(cursor) # 0
  /\ LET end == EndOfString(cursor)
         nxt == end + 1
     IN  /\ strings' = Append(strings, [from |-> cursor, to |-> end])
         /\ cursor' = CASE end = Size -> Size
                        [] end < Size /\ nxt < Size /\ At(nxt) = 0 -> nxt + 1
                        [] OTHER -> nxt
         /\ walk' = IF nxt < Size /\ At(nxt) # 0 THEN "strings" ELSE "push"
  /\ UNCHANGED <<blob, off, out>>

\* The structure is taken; type 127 is the last one.
Push ==
  /\ walk = "push"
  /\ out' = Append(out, [at |-> off, len |-> At(off + 1), typ |-> At(off),
                         strings |-> strings, next |-> cursor])
  /\ IF At(off) = 127 \/ cursor <= off
     THEN walk' = "done" /\ UNCHANGED off
     ELSE walk' = "header" /\ off' = cursor
  /\ UNCHANGED <<blob, cursor, strings>>

WalkNext == EndOfTable \/ ReadHeader \/ NoStrings \/ ReadString \/ Push

WalkSpec == WalkInit /\ [][WalkNext]_walkVars

-----------------------------------------------------------------------------
(* Which bytes of a structure the dumps read, type by type. *)

\* A field: where it starts, its width, the length a structure needs to have it.
Field(at, width, need) == [at |-> at, width |-> width, need |-> need]

TotalWidth == Field(8, 2, 10)
DataWidth  == Field(10, 2, 12)
SizeCode   == Field(12, 2, 14)
ExtSize    == Field(28, 4, 32)
Locator    == Field(16, 1, 17)
Maker      == Field(23, 1, 24)
Serial     == Field(24, 1, 25)
Part       == Field(26, 1, 27)
MakerId    == Field(44, 2, 46)

Fields17 ==
  {TotalWidth, DataWidth, SizeCode, ExtSize, Locator, Maker, Serial, Part, MakerId,
   Field(14, 1, 15), Field(17, 1, 18), Field(18, 1, 19), Field(27, 1, 28),
   Field(32, 2, 34), Field(50, 2, 52), Field(88, 4, 92)}
Fields0 == {Field(4, 2, 6), Field(8, 1, 9), Field(20, 4, 24)}
Fields1 == {Field(4, 3, 7), Field(25, 2, 27)}

\* MUTANT: the serial number is read behind its neighbour's guard.
Fields2Short == {Field(4, 4, 7), Field(13, 1, 14)}

Fields2 == {Field(4, 3, 7), Field(7, 1, 8), Field(13, 1, 14)}
Fields4 == {Field(4, 1, 26), Field(7, 1, 26), Field(16, 1, 26), Field(20, 4, 26),
            Field(24, 1, 26)}

\* The structures format_smbios_memory_dump and format_smbios_system_dump show.
Fields(typ) ==
  CASE typ = 17 -> Fields17
    [] typ = 0  -> Fields0
    [] typ = 1  -> Fields1
    [] typ = 2  -> Fields2
    [] typ = 4  -> Fields4
    [] OTHER    -> {}

\* Offsets in the table that formatting structure s reads.
Reads(s) ==
  UNION {{s.at + i : i \in f.at..(f.at + f.width - 1)}
           : f \in {g \in Fields(s.typ) : s.len >= g.need}}

\* The system UUID and the asset tags, by type.
Secret(typ) ==
  CASE typ = 1  -> 8..23
    [] typ = 2  -> {8}
    [] typ = 4  -> {33}
    [] typ = 17 -> {25}
    [] OTHER    -> {}

-----------------------------------------------------------------------------

(***************************************************************************)
(* Whatever bytes the table holds, the structures found lie in it one      *)
(* after the other, the first at its start, each with a whole header, none *)
(* reaching into the next, and their strings lie between their formatted   *)
(* area and the next structure: no slice of the walk is out of range       *)
(* (iter_smbios_structures, parse_string_table).                           *)
(***************************************************************************)
StructuresTile ==
  \A k \in DOMAIN out :
    LET s == out[k] IN
    /\ s.at = IF k = 1 THEN 0 ELSE out[k - 1].next
    /\ s.len >= 4
    /\ s.at + s.len <= s.next
    /\ s.next <= Size
    /\ \A j \in DOMAIN s.strings :
         /\ s.at + s.len <= s.strings[j].from
         /\ s.strings[j].from < s.strings[j].to
         /\ s.strings[j].to <= s.next

(***************************************************************************)
(* The dumps index only the formatted area of the structure they describe, *)
(* however short firmware made it, and never the system UUID or an asset   *)
(* tag, which the dump's header says are omitted.                          *)
(***************************************************************************)
DumpReadsOwnFields ==
  \A k \in DOMAIN out :
    LET s == out[k] IN
    /\ Reads(s) \subseteq s.at..(s.at + s.len - 1)
    /\ Reads(s) \subseteq 0..(Size - 1)
    /\ Reads(s) \intersect {s.at + i : i \in Secret(s.typ)} = {}

(***************************************************************************)
(* Every structure moves the walk on by at least its header, so the walk   *)
(* over any table ends: the guard against standing still is never needed   *)
(* (`if nxt <= off { break; }`).                                           *)
(***************************************************************************)
WalkMovesOn ==
  [][/\ off' # off => off' >= off + 4
     /\ walk = "push" /\ walk' = "done" => At(off) = 127]_walkVars
=============================================================================
