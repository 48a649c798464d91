------------------------------- MODULE MCTexts ------------------------------
(* Finite instances of DimmEvidence for TLC. *)
EXTENDS DimmEvidence, TLC

\* A structure body of n bytes beyond the header, zero but where set.
Body(n, set) == [i \in 1..n |-> IF i + 3 \in DOMAIN set THEN set[i + 3] ELSE 0]

\* "A|B", a padded name with a field of no meaning, and a part number that names
\* a field: "P|total_width=8 bits", one byte for each name and value.
Name    == <<65, 124, 66>>
Padded  == <<32, 65, 124, 88, 61, 49, 9>>
Liar    == <<80, 124, 84, 32, 61, 56>>
Ghost   == <<71>>
None    == <<85>>
Channel == <<67>>

SomePlaceholders == {<<>>, None}
SomeGhosts       == {Ghost}
SomeMisnamed     == {Channel}
SomeFieldNames   == <<83>> :> "size" @@ <<84>> :> "total" @@ <<76>> :> "locator" @@ <<82>> :> "part"
SomeSizes        == {<<57>>}
SomeEightBits    == {<<56>>}

\* Offsets 8, 10: widths; 12: size; 16: locator; 23, 24, 26: maker, serial, part.
Module(n, total, data, code, part, strs) ==
  [typ |-> 17, strings |-> strs,
   body |-> Body(n, 8 :> total @@ 10 :> data @@ 12 :> code % 256 @@ 13 :> code \div 256
                      @@ 16 :> 1 @@ 23 :> 2 @@ 24 :> 2 @@ 26 :> part @@ 28 :> 0 @@ 29 :> 64
                      @@ 44 :> 1 @@ 45 :> 173)]

Healthy  == Module(44, 72, 64, 32767, 3, <<Padded, None, Name>>)
TheGhost == Module(44, 0, 8, 2048, 9, <<Name, Ghost>>)
Short    == Module(14, 64, 64, 32770, 0, <<Name>>)
Slot     == Module(24, 0, 0, 0, 0, <<Name>>)
Odd      == Module(24, 64, 64, 16, 3, <<Channel, Name, Name>>)
Lying    == Module(24, 64, 64, 16, 3, <<Name, Name, Liar>>)
Emptied  == Module(24, 64, 8, 16, 1, <<Name, <<77, 124, 83, 61, 124, 76, 61, 90, 124, 82, 61>> >>)
Board    == [typ |-> 2, body |-> Body(3, 4 :> 1), strings |-> <<Name>>]
Other    == [typ |-> 16, body |-> <<7>>, strings |-> <<>>]
End      == [typ |-> 127, body |-> <<>>, strings |-> <<>>]

SomeTables ==
  {<<>>, <<Other, End, Healthy>>, <<Board>>, <<Healthy, Slot>>, <<Other, TheGhost, End>>,
   <<Short, Odd, Other>>, <<TheGhost, Healthy>>, <<Lying>>, <<Emptied>>}

\* The tables cut off anywhere, and short sequences of telling bytes.
SomeBlobs ==
  UNION {{SubSeq(EncodeAll(t), 1, n) : n \in 0..Len(EncodeAll(t))} : t \in SomeTables}
    \union {p \o g : p \in {<<>>, <<1, 4, 0, 0>>},
                       g \in UNION {[1..n -> {0, 1, 4, 127}] : n \in 0..6}}

F(h, key, num, str) == Line("field", h, key, num, str)
Header(kind, h) == Line(kind, h, "", 0, <<>>)

\* Two modules with another structure between; a module without "Handle" line.
SomeDmidecode ==
  {<<>>,
   <<Header("device", 1), F(1, "locator", 0, Name), F(1, "size", 0, <<16>>),
     F(1, "maker", 0, None), F(1, "mfgId", 173, <<>>), Header("other", 2),
     F(2, "part", 0, Ghost), F(2, "total", 8, <<>>), Header("device", 3),
     F(3, "size", 0, <<8>>), F(3, "locator", 0, Name), F(3, "part", 0, Name)>>,
   <<Header("mention", 1), F(1, "locator", 0, Name), F(1, "size", 0, <<16>>),
     Line("mention", 1, "again", 0, <<>>), F(1, "serial", 0, Name),
     Header("array", 2), F(2, "locator", 0, Channel), Header("device", 3),
     F(3, "locator", 0, Name)>>}
=============================================================================
