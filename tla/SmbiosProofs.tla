---------------------------- MODULE SmbiosProofs ----------------------------
(* Theorems about SmbiosWalk, for tables of any bytes and any length. *)
EXTENDS SmbiosWalk, TLAPS, FiniteSetTheorems, WellFoundedInduction

-----------------------------------------------------------------------------
(* Helpers. *)

\* A nonempty set of naturals has a least element.
LEMMA LeastNatural ==
  ASSUME NEW X \in SUBSET Nat, X # {}
  PROVE  \E x \in X : \A y \in X : x <= y
<1>. DEFINE T == {1..x : x \in X}
<1>1. T \subseteq FiniteSubsetsOf(Nat)
  BY FS_Interval DEF FiniteSubsetsOf
<1>2. IsWellFoundedOn(StrictSubsetOrdering(Nat), FiniteSubsetsOf(Nat))
  BY FS_StrictSubsetOrderingWellFounded
<1>3. T # {}
  OBVIOUS
<1>. HIDE DEF T
<1>4. PICK t \in T : \A u \in T : ~ (<<u, t>> \in StrictSubsetOrdering(Nat))
  BY <1>1, <1>2, <1>3, WFMin
<1>5. PICK x \in X : t = 1..x
  BY <1>4 DEF T
<1>6. ASSUME NEW y \in X, y < x
      PROVE  FALSE
  <2>1. 1..y \in T
    BY DEF T
  <2>2. 1..y \subseteq 1..x /\ 1..y # 1..x
    <3>1. x \in 1..x /\ x \notin 1..y
      BY <1>6
    <3>. QED  BY <1>6, <3>1
  <2>3. 1..x \in SUBSET Nat /\ 1..y \in SUBSET Nat
    OBVIOUS
  <2>4. <<1..y, 1..x>> \in StrictSubsetOrdering(Nat)
    BY <2>2, <2>3, Zenon DEF StrictSubsetOrdering
  <2>. QED  BY <1>4, <1>5, <2>1, <2>4
<1>. QED  BY <1>6

\* A string that starts in the table at a byte that is no terminator has at
\* least that byte and ends in the table; unless cut off it ends at a zero.
LEMMA StringInside ==
  ASSUME blob \in Seq(Byte), NEW i \in Nat, i < Size, At(i) # 0
  PROVE  /\ EndOfString(i) \in Nat
         /\ i < EndOfString(i)
         /\ EndOfString(i) <= Size
<1>1. Size \in Nat
  BY DEF Size
<1>2. CASE Zeros(i) = {}
  BY <1>1, <1>2 DEF EndOfString
<1>3. CASE Zeros(i) # {}
  <2>1. Zeros(i) \in SUBSET Nat
    BY <1>1 DEF Zeros
  <2>2. \E j \in Zeros(i) : \A k \in Zeros(i) : j <= k
    BY <1>3, <2>1, LeastNatural
  <2>3. EndOfString(i) \in Zeros(i)
    BY <1>3, <2>2 DEF EndOfString
  <2>. QED  BY <1>1, <2>3 DEF Zeros
<1>. QED  BY <1>2, <1>3

\* A byte of the table.
LEMMA ByteInside ==
  ASSUME blob \in Seq(Byte), NEW i \in Nat, i < Size
  PROVE  At(i) \in Byte /\ At(i) \in Nat
<1>1. i + 1 \in DOMAIN blob
  BY DEF Size, Byte
<1>2. blob[i + 1] \in Byte
  BY <1>1
<1>3. \A b \in Byte : b \in Nat
  BY DEF Byte
<1>. QED  BY <1>2, <1>3 DEF At

-----------------------------------------------------------------------------
(* Type correctness. *)

\* Every step keeps the types; a header is read only where it fits.
LEMMA WalkTypeStep ==
  ASSUME WalkTypeOK, [WalkNext]_walkVars,
         walk \in {"strings", "push"} => Fits /\ cursor <= Size
  PROVE  WalkTypeOK'
<1>. USE DEF WalkTypeOK
<1>0. Size \in Nat
  BY DEF Size
<1>1. CASE EndOfTable
  BY <1>1 DEF EndOfTable
<1>2. CASE ReadHeader
  <2>1. At(off + 1) \in Nat
    BY <1>0, <1>2, ByteInside DEF ReadHeader, Fits
  <2>. QED  BY <1>2, <2>1 DEF ReadHeader
<1>3. CASE NoStrings
  BY <1>3, <1>0 DEF NoStrings, EmptySet
<1>4. CASE ReadString
  <2>1. /\ EndOfString(cursor) \in Nat
        /\ EndOfString(cursor) <= Size
    BY <1>4, StringInside DEF ReadString
  <2>2. [from |-> cursor, to |-> EndOfString(cursor)] \in Interval
    BY <2>1 DEF Interval
  <2>. QED  BY <1>0, <1>4, <2>1, <2>2 DEF ReadString
<1>5. CASE Push
  <2>1. At(off) \in Byte /\ At(off + 1) \in Nat
    BY <1>0, <1>5, ByteInside DEF Push, Fits
  <2>2. [at |-> off, len |-> At(off + 1), typ |-> At(off),
         strings |-> strings, next |-> cursor] \in Structure
    BY <2>1 DEF Structure
  <2>. QED  BY <1>5, <2>2 DEF Push
<1>6. CASE UNCHANGED walkVars
  BY <1>6 DEF walkVars
<1>. QED  BY <1>1, <1>2, <1>3, <1>4, <1>5, <1>6 DEF WalkNext

-----------------------------------------------------------------------------
(* The structures tile the table. *)

\* The strings lie in [low, high).
StringsIn(strs, low, high) ==
  \A j \in DOMAIN strs :
    low <= strs[j].from /\ strs[j].from < strs[j].to /\ strs[j].to <= high

\* Where the structure being read starts.
StartsAt == off = IF out = <<>> THEN 0 ELSE out[Len(out)].next

\* While a structure is read, its formatted area and strings lie behind the
\* cursor and the cursor in the table.
InStructure ==
  walk \in {"strings", "push"} =>
    /\ Fits
    /\ off + At(off + 1) <= cursor
    /\ cursor <= Size
    /\ StringsIn(strings, off + At(off + 1), cursor)

WalkInv ==
  /\ WalkTypeOK
  /\ walk # "done" => StartsAt
  /\ InStructure
  /\ StructuresTile

\* The walk starts with the invariant.
LEMMA WalkInvInit == WalkInit => WalkInv
BY BlobsAssumption
   DEF WalkInit, WalkInv, WalkTypeOK, StartsAt, InStructure, StructuresTile

\* Only Push touches the structures found.
LEMMA TileUnchanged ==
  ASSUME StructuresTile, UNCHANGED <<blob, out>>
  PROVE  StructuresTile'
BY DEF StructuresTile, Size

\* What Push adds continues the tiling.
LEMMA TilePush ==
  ASSUME WalkInv, Push
  PROVE  StructuresTile'
<1>. DEFINE new == [at |-> off, len |-> At(off + 1), typ |-> At(off),
                    strings |-> strings, next |-> cursor]
<1>1. out' = Append(out, new) /\ blob' = blob /\ walk = "push"
  BY DEF Push
<1>2. /\ out \in Seq(Structure)
      /\ Fits /\ off + At(off + 1) <= cursor /\ cursor <= Size
      /\ StringsIn(strings, off + At(off + 1), cursor)
      /\ StartsAt
      /\ StructuresTile
      /\ off \in Nat /\ cursor \in Nat /\ blob \in Seq(Byte) /\ strings \in Seq(Interval)
  BY <1>1 DEF WalkInv, InStructure, WalkTypeOK
<1>3. Size \in Nat /\ Size' = Size
  BY <1>1, <1>2 DEF Size
<1>4. At(off) \in Byte /\ At(off + 1) \in Nat
  BY <1>2, <1>3, ByteInside DEF Fits
<1>5. new \in Structure
  BY <1>2, <1>4 DEF Structure
<1>. SUFFICES ASSUME NEW k \in DOMAIN out'
              PROVE  /\ out'[k].at = IF k = 1 THEN 0 ELSE out'[k - 1].next
                     /\ out'[k].len >= 4
                     /\ out'[k].at + out'[k].len <= out'[k].next
                     /\ out'[k].next <= Size
                     /\ \A j \in DOMAIN out'[k].strings :
                          /\ out'[k].at + out'[k].len <= out'[k].strings[j].from
                          /\ out'[k].strings[j].from < out'[k].strings[j].to
                          /\ out'[k].strings[j].to <= out'[k].next
  BY <1>3 DEF StructuresTile
<1>6. /\ DOMAIN out' = 1..(Len(out) + 1) /\ Len(out) \in Nat
      /\ \A i \in 1..Len(out) : out'[i] = out[i]
      /\ out'[Len(out) + 1] = new
      /\ DOMAIN out = 1..Len(out)
      /\ out = <<>> <=> Len(out) = 0
  <2>. HIDE DEF new
  <2>. QED  BY <1>1, <1>2, <1>5
<1>7. CASE k \in DOMAIN out
  <2>1. out'[k] = out[k] /\ (k # 1 => out'[k - 1] = out[k - 1])
    BY <1>6, <1>7
  <2>. QED  BY <1>2, <1>7, <2>1 DEF StructuresTile
<1>8. CASE k = Len(out) + 1
  <2>1. out'[k] = new
    BY <1>6, <1>8
  <2>2. off = IF k = 1 THEN 0 ELSE out'[k - 1].next
    BY <1>2, <1>6, <1>8 DEF StartsAt
  <2>3. At(off + 1) >= 4
    BY <1>2 DEF Fits
  <2>. QED  BY <1>2, <2>1, <2>2, <2>3 DEF StringsIn
<1>. QED  BY <1>6, <1>7, <1>8

\* Every step keeps the invariant.
LEMMA WalkInvStep ==
  ASSUME WalkInv, [WalkNext]_walkVars
  PROVE  WalkInv'
<1>. USE DEF WalkInv
<1>1. WalkTypeOK'
  BY WalkTypeStep DEF InStructure
<1>2. Size \in Nat
  BY DEF Size, WalkTypeOK
<1>3. CASE EndOfTable
  <2>1. StructuresTile'
    BY <1>3, TileUnchanged DEF EndOfTable
  <2>. QED  BY <1>1, <1>3, <2>1 DEF EndOfTable, InStructure
<1>4. CASE ReadHeader
  <2>1. StructuresTile'
    BY <1>4, TileUnchanged DEF ReadHeader
  <2>2. StartsAt'
    BY <1>4 DEF ReadHeader, StartsAt
  <2>3. Fits /\ cursor' = off + At(off + 1) /\ strings' = <<>>
        /\ blob' = blob /\ off' = off
    BY <1>4 DEF ReadHeader
  <2>4. At(off + 1) \in Nat
    BY <1>2, <2>3, ByteInside DEF Fits, WalkTypeOK
  <2>5. InStructure'
    BY <1>2, <2>3, <2>4 DEF InStructure, Fits, StringsIn, Size, At, WalkTypeOK
  <2>. QED  BY <1>1, <2>1, <2>2, <2>5
<1>5. CASE NoStrings
  <2>1. StructuresTile'
    BY <1>5, TileUnchanged DEF NoStrings
  <2>2. StartsAt'
    BY <1>5 DEF NoStrings, StartsAt
  <2>3. /\ Fits /\ off + At(off + 1) <= cursor /\ cursor <= Size
        /\ strings = <<>> /\ strings' = strings /\ blob' = blob /\ off' = off
        /\ cursor' = EmptySet(cursor)
    BY <1>5 DEF NoStrings, InStructure
  <2>4. cursor <= EmptySet(cursor) /\ EmptySet(cursor) <= Size
    BY <1>2, <2>3 DEF EmptySet, WalkTypeOK
  <2>5. At(off + 1) \in Nat
    BY <1>2, <2>3, ByteInside DEF Fits, WalkTypeOK
  <2>6. InStructure'
    BY <1>1, <1>2, <2>3, <2>4, <2>5 DEF InStructure, Fits, StringsIn, Size, At, WalkTypeOK
  <2>. QED  BY <1>1, <2>1, <2>2, <2>6
<1>6. CASE ReadString
  <2>1. StructuresTile'
    BY <1>6, TileUnchanged DEF ReadString
  <2>2. StartsAt'
    BY <1>6 DEF ReadString, StartsAt
  <2>. DEFINE end == EndOfString(cursor)
  <2>3. /\ Fits /\ off + At(off + 1) <= cursor /\ cursor < Size
        /\ StringsIn(strings, off + At(off + 1), cursor)
        /\ strings' = Append(strings, [from |-> cursor, to |-> end])
        /\ blob' = blob /\ off' = off
    BY <1>6 DEF ReadString, InStructure
  <2>4. end \in Nat /\ cursor < end /\ end <= Size
    BY <1>6, StringInside DEF ReadString, WalkTypeOK
  <2>5. end <= cursor' /\ cursor' <= Size /\ cursor' \in Nat
    BY <1>2, <1>6, <2>4 DEF ReadString
  <2>6. At(off + 1) \in Nat
    BY <1>2, <2>3, ByteInside DEF Fits, WalkTypeOK
  <2>7. StringsIn(strings', off + At(off + 1), cursor')
    <3>. SUFFICES ASSUME NEW j \in DOMAIN strings'
                  PROVE  /\ off + At(off + 1) <= strings'[j].from
                         /\ strings'[j].from < strings'[j].to
                         /\ strings'[j].to <= cursor'
      BY DEF StringsIn
    <3>. HIDE DEF end
    <3>0. strings \in Seq(Interval) /\ off \in Nat /\ cursor \in Nat
      BY DEF WalkTypeOK
    <3>1. CASE j \in DOMAIN strings
      <4>1. strings'[j] = strings[j] /\ strings[j] \in Interval
        BY <2>3, <3>0, <3>1
      <4>2. strings[j].to <= cursor /\ strings[j].to \in Nat
        BY <2>3, <3>1, <4>1 DEF StringsIn, Interval
      <4>. QED  BY <2>3, <2>4, <2>5, <3>0, <3>1, <4>1, <4>2 DEF StringsIn
    <3>2. CASE j = Len(strings) + 1
      <4>1. strings'[j] = [from |-> cursor, to |-> end]
        BY <2>3, <3>0, <3>2
      <4>. QED  BY <2>3, <2>4, <2>5, <4>1
    <3>. QED  BY <2>3, <3>0, <3>1, <3>2
  <2>8. InStructure'
    <3>. HIDE DEF end
    <3>1. Fits' /\ At(off + 1)' = At(off + 1) /\ Size' = Size
      BY <2>3 DEF Fits, At, Size
    <3>2. off + At(off + 1) <= cursor'
      BY <2>3, <2>4, <2>5, <2>6 DEF WalkTypeOK
    <3>. QED  BY <2>3, <2>5, <2>7, <3>1, <3>2 DEF InStructure, StringsIn
  <2>. QED  BY <1>1, <2>1, <2>2, <2>8
<1>7. CASE Push
  <2>1. StructuresTile'
    BY <1>7, TilePush
  <2>2. walk' # "done" => StartsAt'
    <3>1. /\ out' = Append(out, [at |-> off, len |-> At(off + 1), typ |-> At(off),
                                 strings |-> strings, next |-> cursor])
          /\ walk' # "done" => off' = cursor
      BY <1>7 DEF Push
    <3>2. out \in Seq(Structure)
      BY DEF WalkTypeOK
    <3>3. out' # <<>> /\ out'[Len(out')].next = cursor
      <4>. DEFINE new == [at |-> off, len |-> At(off + 1), typ |-> At(off),
                          strings |-> strings, next |-> cursor]
      <4>1. out' = Append(out, new) /\ new.next = cursor
        BY <3>1
      <4>. HIDE DEF new
      <4>. QED  BY <3>2, <4>1
    <3>. QED  BY <3>1, <3>3 DEF StartsAt
  <2>3. InStructure'
    BY <1>7 DEF Push, InStructure
  <2>. QED  BY <1>1, <2>1, <2>2, <2>3
<1>8. CASE UNCHANGED walkVars
  BY <1>1, <1>8 DEF walkVars, StartsAt, InStructure, StructuresTile, StringsIn, Fits, Size, At
<1>. QED  BY <1>3, <1>4, <1>5, <1>6, <1>7, <1>8 DEF WalkNext

\* The walk keeps its variables well typed on every table.
THEOREM WalkTypeCorrect == WalkSpec => []WalkTypeOK
<1>1. WalkInv /\ [WalkNext]_walkVars => WalkInv'
  BY WalkInvStep
<1>2. WalkInv => WalkTypeOK
  BY DEF WalkInv
<1>. QED  BY <1>1, <1>2, WalkInvInit, PTL DEF WalkSpec

\* Structures and strings lie in the table, one after the other, whatever its
\* bytes: no slice is out of range.
THEOREM StructuresTileHolds == WalkSpec => []StructuresTile
<1>1. WalkInv /\ [WalkNext]_walkVars => WalkInv'
  BY WalkInvStep
<1>2. WalkInv => StructuresTile
  BY DEF WalkInv
<1>. QED  BY <1>1, <1>2, WalkInvInit, PTL DEF WalkSpec

-----------------------------------------------------------------------------
(* What is read of a structure. *)

\* A structure long enough for a field has all its bytes, and none is secret.
LEMMA FieldsFit ==
  ASSUME NEW typ \in Byte, NEW f \in Fields(typ)
  PROVE  /\ f.at \in Nat /\ f.width \in Nat /\ f.need \in Nat
         /\ f.at + f.width <= f.need
         /\ \A i \in f.at..(f.at + f.width - 1) : i \notin Secret(typ)
<1>. USE DEF Fields, Secret, Field, Fields17, Fields0, Fields1, Fields2, Fields4
<1>1. CASE typ = 17
  BY <1>1 DEF TotalWidth, DataWidth, SizeCode, ExtSize, Locator, Maker, Serial, Part, MakerId
<1>2. CASE typ = 0
  BY <1>2
<1>3. CASE typ = 1
  BY <1>3
<1>4. CASE typ = 2
  BY <1>4
<1>5. CASE typ = 4
  BY <1>5
<1>. QED  BY <1>1, <1>2, <1>3, <1>4, <1>5

\* A tiled structure is read inside its formatted area only.
LEMMA TiledReads ==
  ASSUME WalkTypeOK, StructuresTile
  PROVE  DumpReadsOwnFields
<1>. SUFFICES ASSUME NEW k \in DOMAIN out
              PROVE  /\ Reads(out[k]) \subseteq out[k].at..(out[k].at + out[k].len - 1)
                     /\ Reads(out[k]) \subseteq 0..(Size - 1)
                     /\ Reads(out[k]) \intersect
                          {out[k].at + i : i \in Secret(out[k].typ)} = {}
  BY DEF DumpReadsOwnFields
<1>. DEFINE s == out[k]
<1>1. s \in Structure
  BY DEF WalkTypeOK
<1>2. s.at \in Nat /\ s.len \in Nat /\ s.typ \in Byte /\ s.next \in Nat
  BY <1>1 DEF Structure
<1>3. s.at + s.len <= s.next /\ s.next <= Size /\ Size \in Nat
  BY DEF StructuresTile, Size, WalkTypeOK
<1>4. \A i \in Secret(s.typ) : i \in Nat
  BY DEF Secret
<1>. HIDE DEF s
<1>5. ASSUME NEW x \in Reads(s)
      PROVE  /\ x \in s.at..(s.at + s.len - 1)
             /\ x \notin {s.at + i : i \in Secret(s.typ)}
  <2>1. PICK f \in Fields(s.typ) :
          s.len >= f.need /\ x \in {s.at + i : i \in f.at..(f.at + f.width - 1)}
    BY <1>5 DEF Reads
  <2>2. PICK i \in f.at..(f.at + f.width - 1) : x = s.at + i
    BY <2>1
  <2>3. /\ f.at \in Nat /\ f.width \in Nat /\ f.need \in Nat
        /\ f.at + f.width <= f.need
        /\ i \notin Secret(s.typ)
    BY <1>2, <2>1, <2>2, FieldsFit
  <2>4. x \in s.at..(s.at + s.len - 1)
    BY <1>2, <2>1, <2>2, <2>3
  <2>5. \A j \in Secret(s.typ) : x # s.at + j
    <3>. SUFFICES ASSUME NEW j \in Secret(s.typ), x = s.at + j
                  PROVE  FALSE
      OBVIOUS
    <3>1. i = j
      BY <1>2, <1>4, <2>2, <2>3
    <3>. QED  BY <2>3, <3>1
  <2>. QED  BY <2>4, <2>5
<1>6. Reads(s) \subseteq s.at..(s.at + s.len - 1)
  BY <1>5
<1>7. \A x \in s.at..(s.at + s.len - 1) : x \in 0..(Size - 1)
  BY <1>2, <1>3
<1>. QED  BY <1>5, <1>6, <1>7 DEF s

\* The dumps read no byte outside the structure they describe and neither the
\* system UUID nor an asset tag, however short firmware made a structure.
THEOREM DumpReadsOwnFieldsHolds == WalkSpec => []DumpReadsOwnFields
<1>1. WalkInv /\ [WalkNext]_walkVars => WalkInv'
  BY WalkInvStep
<1>2. WalkInv => DumpReadsOwnFields
  BY TiledReads DEF WalkInv
<1>. QED  BY <1>1, <1>2, WalkInvInit, PTL DEF WalkSpec

\* Every structure moves the walk on by a header at least, and only type 127
\* or the end of the table stops it: the walk over a table of n bytes takes at
\* most n / 4 structures.
THEOREM WalkMovesOnHolds == WalkSpec => WalkMovesOn
<1>. DEFINE Moves == /\ off' # off => off' >= off + 4
                     /\ walk = "push" /\ walk' = "done" => At(off) = 127
<1>1. WalkInv /\ [WalkNext]_walkVars => WalkInv'
  BY WalkInvStep
<1>2. WalkInv /\ [WalkNext]_walkVars => [Moves]_walkVars
  <2>. SUFFICES ASSUME WalkInv, WalkNext
                PROVE  Moves
    OBVIOUS
  <2>1. CASE Push
    <3>1. Fits /\ off + At(off + 1) <= cursor /\ walk = "push"
      BY <2>1 DEF Push, WalkInv, InStructure
    <3>2. At(off + 1) \in Nat /\ At(off + 1) >= 4 /\ off \in Nat /\ cursor \in Nat
      BY <3>1, ByteInside DEF Fits, WalkInv, WalkTypeOK, Size
    <3>3. cursor >= off + 4
      BY <3>1, <3>2
    <3>. QED  BY <2>1, <3>2, <3>3 DEF Push
  <2>2. CASE EndOfTable \/ ReadHeader \/ NoStrings \/ ReadString
    BY <2>2 DEF EndOfTable, ReadHeader, NoStrings, ReadString
  <2>. QED  BY <2>1, <2>2 DEF WalkNext
<1>. QED  BY <1>1, <1>2, WalkInvInit, PTL DEF WalkSpec, WalkMovesOn
=============================================================================
