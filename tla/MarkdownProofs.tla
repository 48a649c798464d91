--------------------------- MODULE MarkdownProofs ---------------------------
(***************************************************************************)
(* What holds of Markdown for documents of any length and nesting: type    *)
(* correctness, labels that nest unless the e820 map tears them, and text  *)
(* that is shown with its own block while that block gathers.              *)
(***************************************************************************)
EXTENDS Markdown, TLAPS, FiniteSetTheorems, SequenceTheorems

-----------------------------------------------------------------------------
(***************************************************************************)
(* The inductive invariant.  The open elements decide everything: what     *)
(* kind of block is being gathered, how many tags of the markup are        *)
(* unclosed (the inline element, if that is the innermost), and whose text *)
(* has been gathered.                                                      *)
(***************************************************************************)

Has(s, tag) == \E i \in DOMAIN s : s[i] = tag

\* What may be open within an element.  A block that still gathers holds inline
\* text only, an item also the paragraphs and quotes that go into its label.
Holds(tag) ==
  CASE tag \in {"inline", "code"}               -> {}
    [] tag \in {"heading", "paragraph", "cell"} -> {"inline"}
    [] tag = "item"                             -> {"inline", "paragraph", "quote"}
    [] OTHER                                    -> Tags

Nested(s) == \A i, j \in DOMAIN s : i < j => s[i] \in Holds(s[j])

\* The block being gathered.
KindOf(s) ==
  IF Has(s, "item") THEN "item"
  ELSE IF Has(s, "heading") THEN "heading"
  ELSE IF Has(s, "paragraph") THEN "paragraph"
  ELSE "none"

\* `unclosed` tags of m are unclosed, and it never closed more than it opened.
Unclosed(m, unclosed) ==
  /\ \A k \in DOMAIN m : Count(m, k, "close") <= Count(m, k, "open")
  /\ Count(m, Len(m), "open") = Count(m, Len(m), "close") + unclosed

\* Text is of the block being gathered or of none.
TextFits(m) ==
  \A i \in DOMAIN m :
    m[i].tag = "text" => m[i].of = 0 \/ (m[i].of = block /\ kind # "none")

MarkupFits ==
  /\ torn \/ Unclosed(markup, IF Inner = "inline" THEN 1 ELSE 0)
  /\ TextFits(markup)

TextOnly(m) == \A i \in DOMAIN m : m[i].tag = "text"

\* A cell holds text of the block it is, and is empty outside of cells.
CellFits ==
  /\ \A i \in DOMAIN cell : cell[i].tag = "text" /\ cell[i].of = block
  /\ ~InCell => cell = <<>>
  /\ \A m \in cells : TextOnly(m) /\ OfOneBlock(m)

PaneInv == Nested(open) /\ kind = KindOf(open) /\ MarkupFits /\ CellFits

-----------------------------------------------------------------------------
(* Counting tags. *)

\* What appending does to markup.
LEMMA Appended ==
  ASSUME NEW m \in Seq(Token), NEW t \in Token
  PROVE  /\ Append(m, t) \in Seq(Token)
         /\ Len(m) \in Nat /\ DOMAIN m = 1..Len(m)
         /\ Len(Append(m, t)) = Len(m) + 1
         /\ DOMAIN Append(m, t) = 1..(Len(m) + 1)
         /\ \A i \in 1..Len(m) : Append(m, t)[i] = m[i]
         /\ Append(m, t)[Len(m) + 1] = t
OBVIOUS

\* A count is a number.
LEMMA CountNat ==
  ASSUME NEW m, NEW k \in Nat, NEW tag
  PROVE  Count(m, k, tag) \in Nat
<1>1. IsFiniteSet(1..k)
  BY FS_Interval
<1>2. IsFiniteSet({i \in 1..k : m[i].tag = tag})
  BY <1>1, FS_Subset
<1>. QED  BY <1>2, FS_CardinalityType DEF Count

\* A token more counts only for its own tag and from its own place on.
LEMMA CountAppended ==
  ASSUME NEW m \in Seq(Token), NEW t \in Token, NEW tag
  PROVE  /\ \A k \in 0..Len(m) : Count(Append(m, t), k, tag) = Count(m, k, tag)
         /\ Count(Append(m, t), Len(m) + 1, tag)
              = Count(m, Len(m), tag) + (IF t.tag = tag THEN 1 ELSE 0)
<1>. DEFINE n == Len(m)
            a == Append(m, t)
            Of(q, k) == {i \in 1..k : q[i].tag = tag}
<1>1. /\ n \in Nat
      /\ \A i \in 1..n : a[i] = m[i]
      /\ a[n + 1] = t
  BY Appended
<1>. HIDE DEF n, a
<1>2. ASSUME NEW k \in 0..n
      PROVE  Of(a, k) = Of(m, k)
  BY <1>1, <1>2
<1>3. IsFiniteSet(Of(m, n)) /\ n + 1 \notin Of(m, n)
  <2>1. IsFiniteSet(1..n)
    BY <1>1, FS_Interval
  <2>. QED  BY <1>1, <2>1, FS_Subset
<1>4. Of(a, n + 1) = IF t.tag = tag THEN Of(m, n) \union {n + 1} ELSE Of(m, n)
  BY <1>1
<1>. HIDE DEF Of
<1>5. Cardinality(Of(m, n) \union {n + 1}) = Cardinality(Of(m, n)) + 1
  BY <1>3, FS_AddElement
<1>6. \A q, k : Count(q, k, tag) = Cardinality(Of(q, k))
  BY DEF Count, Of
<1>7. \A k \in 0..n : Count(a, k, tag) = Count(m, k, tag)
  BY <1>2, <1>6
<1>8. Count(a, n + 1, tag) = Count(m, n, tag) + (IF t.tag = tag THEN 1 ELSE 0)
  <2>1. CASE t.tag = tag
    <3>1. Of(a, n + 1) = Of(m, n) \union {n + 1}
      BY <1>4, <2>1
    <3>2. Count(a, n + 1, tag) = Cardinality(Of(m, n)) + 1
      BY <1>5, <1>6, <3>1
    <3>3. Count(m, n, tag) = Cardinality(Of(m, n))
      BY <1>6
    <3>. QED  BY <2>1, <3>2, <3>3
  <2>2. CASE t.tag # tag
    <3>1. Count(m, n, tag) \in Nat
      BY <1>1, CountNat
    <3>. QED  BY <1>4, <1>6, <2>2, <3>1
  <2>. QED  BY <2>1, <2>2
<1>. QED  BY <1>7, <1>8 DEF n, a

\* A token more: an opening tag is unclosed, a closing one closes it, text is
\* neither.
LEMMA UnclosedAppended ==
  ASSUME NEW m \in Seq(Token), NEW t \in Token, NEW d \in Nat, NEW e \in Nat,
         Unclosed(m, d),
         \/ t.tag = "text" /\ e = d
         \/ t.tag = "open" /\ e = d + 1
         \/ t.tag = "close" /\ d = e + 1
  PROVE  Unclosed(Append(m, t), e)
<1>. DEFINE n == Len(m)
            a == Append(m, t)
<1>1. /\ n \in Nat /\ DOMAIN m = 1..n
      /\ Len(a) = n + 1 /\ DOMAIN a = 1..(n + 1)
  BY Appended
<1>2. /\ \A k \in 0..n : Count(a, k, "open") = Count(m, k, "open")
      /\ \A k \in 0..n : Count(a, k, "close") = Count(m, k, "close")
      /\ Count(a, n + 1, "open")
           = Count(m, n, "open") + (IF t.tag = "open" THEN 1 ELSE 0)
      /\ Count(a, n + 1, "close")
           = Count(m, n, "close") + (IF t.tag = "close" THEN 1 ELSE 0)
  BY CountAppended
<1>3. Count(m, n, "open") \in Nat /\ Count(m, n, "close") \in Nat
  BY <1>1, CountNat
<1>4. Count(m, n, "open") = Count(m, n, "close") + d
  BY DEF Unclosed
<1>. HIDE DEF a, n
<1>5. Count(a, n + 1, "open") = Count(a, n + 1, "close") + e
  BY <1>2, <1>3, <1>4
<1>6. ASSUME NEW k \in DOMAIN a
      PROVE  Count(a, k, "close") <= Count(a, k, "open")
  <2>1. CASE k = n + 1
    <3>1. Count(a, n + 1, "close") \in Nat
      BY <1>1, CountNat
    <3>. QED  BY <1>5, <2>1, <3>1
  <2>2. CASE k # n + 1
    <3>1. k \in 0..n /\ k \in DOMAIN m
      BY <1>1, <1>6, <2>2
    <3>. QED  BY <1>2, <3>1 DEF Unclosed
  <2>. QED  BY <2>1, <2>2
<1>. QED  BY <1>1, <1>5, <1>6 DEF Unclosed, a

\* Nothing unclosed is balanced.
LEMMA BalancedIs ==
  ASSUME NEW m \in Seq(Token), Unclosed(m, 0)
  PROVE  Balanced(m)
<1>1. Count(m, Len(m), "close") \in Nat
  BY CountNat, LenProperties
<1>. QED  BY <1>1 DEF Unclosed, Balanced

\* Text alone is balanced.
LEMMA TextBalanced ==
  ASSUME NEW m \in Seq(Token), TextOnly(m)
  PROVE  Balanced(m) /\ Unclosed(m, 0)
<1>1. Len(m) \in Nat /\ DOMAIN m = 1..Len(m)
  BY LenProperties
<1>2. ASSUME NEW k \in 0..Len(m)
      PROVE  Count(m, k, "open") = 0 /\ Count(m, k, "close") = 0
  <2>1. \A i \in 1..k : m[i].tag = "text"
    BY <1>1, <1>2 DEF TextOnly
  <2>2. /\ {i \in 1..k : m[i].tag = "open"} = {}
        /\ {i \in 1..k : m[i].tag = "close"} = {}
    BY <2>1
  <2>. QED  BY <2>2, FS_EmptySet DEF Count
<1>3. Len(m) \in 0..Len(m) /\ DOMAIN m \subseteq 0..Len(m)
  BY <1>1
<1>. QED  BY <1>2, <1>3 DEF Balanced, Unclosed

\* So is nothing.
LEMMA EmptyBalanced == Unclosed(<<>>, 0)
<1>1. <<>> \in Seq(Token) /\ TextOnly(<<>>)
  BY DEF TextOnly
<1>. QED  BY <1>1, TextBalanced

-----------------------------------------------------------------------------
(* The parser's elements. *)

\* An element more, within what may hold it.
LEMMA Pushed ==
  ASSUME NEW s \in Seq(Tags), NEW tag \in Tags, Nested(s),
         \A t \in Tags : Has(s, t) => tag \in Holds(t)
  PROVE  /\ <<tag>> \o s \in Seq(Tags)
         /\ Nested(<<tag>> \o s)
         /\ \A t : Has(<<tag>> \o s, t) <=> t = tag \/ Has(s, t)
         /\ <<tag>> \o s # <<>> /\ Head(<<tag>> \o s) = tag
<1>. DEFINE n == Len(s)
            p == <<tag>> \o s
<1>1. /\ n \in Nat /\ DOMAIN s = 1..n
      /\ \A i \in 1..n : s[i] \in Tags
  BY LenProperties, ElementOfSeq
<1>2. /\ p \in Seq(Tags) /\ Len(p) = n + 1 /\ DOMAIN p = 1..(n + 1)
      /\ p[1] = tag
      /\ \A i \in 2..(n + 1) : p[i] = s[i - 1]
  BY <1>1
<1>. HIDE DEF n, p
<1>3. Nested(p)
  <2>. SUFFICES ASSUME NEW i \in 1..(n + 1), NEW j \in 1..(n + 1), i < j
                PROVE  p[i] \in Holds(p[j])
    BY <1>2 DEF Nested
  <2>1. j - 1 \in 1..n /\ p[j] = s[j - 1]
    BY <1>1, <1>2
  <2>2. CASE i = 1
    <3>1. Has(s, p[j]) /\ p[j] \in Tags
      BY <1>1, <2>1 DEF Has
    <3>. QED  BY <1>2, <2>2, <3>1
  <2>3. CASE i # 1
    <3>1. i - 1 \in 1..n /\ i - 1 < j - 1 /\ p[i] = s[i - 1]
      BY <1>1, <1>2, <2>3
    <3>. QED  BY <1>1, <2>1, <3>1 DEF Nested
  <2>. QED  BY <2>2, <2>3
<1>4. ASSUME NEW t
      PROVE  Has(p, t) <=> t = tag \/ Has(s, t)
  <2>1. ASSUME Has(p, t)
        PROVE  t = tag \/ Has(s, t)
    <3>1. PICK i \in 1..(n + 1) : p[i] = t
      BY <1>2, <2>1 DEF Has
    <3>2. CASE i = 1
      BY <1>2, <3>1, <3>2
    <3>3. CASE i # 1
      <4>1. i - 1 \in 1..n /\ s[i - 1] = t
        BY <1>1, <1>2, <3>1, <3>3
      <4>. QED  BY <1>1, <4>1 DEF Has
    <3>. QED  BY <3>2, <3>3
  <2>2. ASSUME t = tag
        PROVE  Has(p, t)
    <3>1. 1 \in DOMAIN p
      BY <1>1, <1>2
    <3>. QED  BY <1>2, <2>2, <3>1 DEF Has
  <2>3. ASSUME Has(s, t)
        PROVE  Has(p, t)
    <3>1. PICK i \in 1..n : s[i] = t
      BY <1>1, <2>3 DEF Has
    <3>2. i + 1 \in DOMAIN p /\ p[i + 1] = t
      BY <1>1, <1>2, <3>1
    <3>. QED  BY <3>2 DEF Has
  <2>. QED  BY <2>1, <2>2, <2>3
<1>5. p # <<>> /\ Head(p) = tag
  BY <1>1, <1>2
<1>. QED  BY <1>2, <1>3, <1>4, <1>5 DEF p

\* The innermost element is within all others, and without it the rest stands.
LEMMA Popped ==
  ASSUME NEW s \in Seq(Tags), s # <<>>, Nested(s)
  PROVE  /\ Head(s) \in Tags
         /\ Tail(s) \in Seq(Tags) /\ Nested(Tail(s))
         /\ \A t : Has(s, t) <=> t = Head(s) \/ Has(Tail(s), t)
         /\ \A t : Has(Tail(s), t) => t \in Tags /\ Head(s) \in Holds(t)
<1>. DEFINE n == Len(s)
            r == Tail(s)
<1>1. /\ n \in Nat \ {0} /\ DOMAIN s = 1..n
      /\ \A i \in 1..n : s[i] \in Tags
      /\ Head(s) = s[1]
  BY LenProperties, ElementOfSeq, EmptySeq
<1>2. /\ r \in Seq(Tags) /\ Len(r) = n - 1 /\ DOMAIN r = 1..(n - 1)
      /\ \A i \in 1..(n - 1) : r[i] = s[i + 1]
  BY <1>1, HeadTailProperties, LenProperties
<1>. HIDE DEF n, r
<1>3. Nested(r)
  <2>. SUFFICES ASSUME NEW i \in 1..(n - 1), NEW j \in 1..(n - 1), i < j
                PROVE  r[i] \in Holds(r[j])
    BY <1>2 DEF Nested
  <2>1. i + 1 \in DOMAIN s /\ j + 1 \in DOMAIN s /\ i + 1 < j + 1
    BY <1>1
  <2>2. s[i + 1] \in Holds(s[j + 1])
    BY <2>1 DEF Nested
  <2>. QED  BY <1>2, <2>2
<1>4. ASSUME NEW t
      PROVE  Has(s, t) <=> t = Head(s) \/ Has(r, t)
  <2>1. ASSUME Has(s, t)
        PROVE  t = Head(s) \/ Has(r, t)
    <3>1. PICK i \in 1..n : s[i] = t
      BY <1>1, <2>1 DEF Has
    <3>2. CASE i = 1
      BY <1>1, <3>1, <3>2
    <3>3. CASE i # 1
      <4>1. i - 1 \in DOMAIN r /\ r[i - 1] = t
        BY <1>1, <1>2, <3>1, <3>3
      <4>. QED  BY <4>1 DEF Has
    <3>. QED  BY <3>2, <3>3
  <2>2. ASSUME t = Head(s)
        PROVE  Has(s, t)
    <3>1. 1 \in DOMAIN s /\ s[1] = t
      BY <1>1, <2>2
    <3>. QED  BY <3>1 DEF Has
  <2>3. ASSUME Has(r, t)
        PROVE  Has(s, t)
    <3>1. PICK i \in 1..(n - 1) : r[i] = t
      BY <1>2, <2>3 DEF Has
    <3>2. i + 1 \in DOMAIN s /\ s[i + 1] = t
      BY <1>1, <1>2, <3>1
    <3>. QED  BY <3>2 DEF Has
  <2>. QED  BY <2>1, <2>2, <2>3
<1>5. ASSUME NEW t, Has(r, t)
      PROVE  t \in Tags /\ Head(s) \in Holds(t)
  <2>1. PICK i \in 1..(n - 1) : r[i] = t
    BY <1>2, <1>5 DEF Has
  <2>2. /\ 1 \in DOMAIN s /\ i + 1 \in DOMAIN s /\ 1 < i + 1
        /\ s[i + 1] = t
    BY <1>1, <1>2, <2>1
  <2>3. s[1] \in Holds(s[i + 1])
    BY <2>2 DEF Nested
  <2>. QED  BY <1>1, <2>2, <2>3
<1>. QED  BY <1>1, <1>2, <1>3, <1>4, <1>5 DEF r

\* The stages a block goes through.
LEMMA Stages ==
  /\ \A t \in Fresh : Stale[t] \in Tags /\ Stale[t] \notin Fresh /\ Holds(Stale[t]) = Tags
  /\ \A t \in Fresh : Stale[t] \notin {"inline", "code", "cell", "doc", "quote"}
  /\ \A t \in Fresh : t \in Tags /\ t \notin {"inline", "code", "cell"}
  /\ \A t \in Tags : t # "inline" => "inline" \in Holds(t) \/ t = "code"
BY DEF Fresh, Stale, Tags, Holds

\* Spent blocks stand where they stood.
LEMMA SpentIs ==
  ASSUME open \in Seq(Tags), Nested(open)
  PROVE  /\ Spent \in Seq(Tags) /\ Nested(Spent)
         /\ \A t \in Fresh : ~Has(Spent, t)
         /\ \A t \in {"inline", "code", "cell"} : Has(Spent, t) <=> Has(open, t)
         /\ open # <<>> => /\ Spent # <<>>
                           /\ Head(Spent) = IF Head(open) \in Fresh
                                            THEN Stale[Head(open)] ELSE Head(open)
<1>. DEFINE n == Len(open)
<1>1. /\ n \in Nat /\ DOMAIN open = 1..n
      /\ \A i \in 1..n : open[i] \in Tags
  BY LenProperties, ElementOfSeq
<1>2. /\ DOMAIN Spent = 1..n
      /\ \A i \in 1..n :
           /\ open[i] \in Fresh => Spent[i] = Stale[open[i]]
           /\ open[i] \notin Fresh => Spent[i] = open[i]
  BY <1>1 DEF Spent
<1>3. \A i \in 1..n : Spent[i] \in Tags /\ Spent[i] \notin Fresh
  BY <1>1, <1>2, Stages
<1>4. Spent \in Seq(Tags) /\ Len(Spent) = n
  <2>1. Spent = [i \in 1..n |-> Spent[i]]
    BY <1>1 DEF Spent
  <2>2. Spent \in [1..n -> Tags]
    BY <1>3, <2>1
  <2>. QED  BY <1>1, <2>2
<1>. HIDE DEF n
<1>5. Nested(Spent)
  <2>. SUFFICES ASSUME NEW i \in 1..n, NEW j \in 1..n, i < j
                PROVE  Spent[i] \in Holds(Spent[j])
    BY <1>2 DEF Nested
  <2>1. open[i] \in Holds(open[j])
    BY <1>1 DEF Nested
  <2>2. CASE open[j] \in Fresh
    BY <1>2, <1>3, <2>2, Stages
  <2>3. CASE open[j] \notin Fresh
    <3>1. Spent[j] = open[j] /\ open[j] \in Tags
      BY <1>1, <1>2, <2>3
    <3>2. CASE open[j] \in {"inline", "code"}
      BY <2>1, <3>2 DEF Holds
    <3>3. CASE open[j] = "cell"
      <4>1. open[i] = "inline"
        BY <2>1, <3>3 DEF Holds
      <4>2. Spent[i] = "inline"
        BY <1>2, <4>1, Stages
      <4>. QED  BY <3>1, <3>3, <4>2 DEF Holds
    <3>4. CASE open[j] \notin {"inline", "code", "cell"}
      <4>1. Holds(open[j]) = Tags
        BY <2>3, <3>4 DEF Holds, Fresh
      <4>. QED  BY <1>3, <3>1, <4>1
    <3>. QED  BY <3>2, <3>3, <3>4
  <2>. QED  BY <2>2, <2>3
<1>6. ASSUME NEW t \in Fresh
      PROVE  ~Has(Spent, t)
  BY <1>2, <1>3, <1>6 DEF Has
<1>7. ASSUME NEW t \in {"inline", "code", "cell"}
      PROVE  Has(Spent, t) <=> Has(open, t)
  <2>1. \A i \in 1..n : Spent[i] = t <=> open[i] = t
    <3>. SUFFICES ASSUME NEW i \in 1..n
                  PROVE  Spent[i] = t <=> open[i] = t
      OBVIOUS
    <3>1. CASE open[i] \in Fresh
      BY <1>2, <1>7, <3>1, Stages
    <3>2. CASE open[i] \notin Fresh
      BY <1>2, <3>2
    <3>. QED  BY <3>1, <3>2
  <2>. QED  BY <1>1, <1>2, <2>1 DEF Has
<1>8. ASSUME open # <<>>
      PROVE  /\ Spent # <<>>
             /\ Head(Spent) = IF Head(open) \in Fresh THEN Stale[Head(open)] ELSE Head(open)
  <2>1. 1 \in 1..n /\ Head(open) = open[1]
    BY <1>1, <1>8, EmptySeq DEF n
  <2>2. Spent # <<>> /\ Head(Spent) = Spent[1]
    BY <1>4, <2>1
  <2>. QED  BY <1>2, <2>1, <2>2
<1>. QED  BY <1>4, <1>5, <1>6, <1>7, <1>8

\* What the elements hold, by name.
LEMMA HoldsTable ==
  /\ Holds("inline") = {} /\ Holds("code") = {}
  /\ Holds("heading") = {"inline"}
  /\ Holds("paragraph") = {"inline"}
  /\ Holds("cell") = {"inline"}
  /\ Holds("item") = {"inline", "paragraph", "quote"}
  /\ \A t : t \notin Fresh \union {"inline", "code", "cell"} => Holds(t) = Tags
BY DEF Holds, Fresh

\* The innermost element and the others.
LEMMA InnerIs ==
  ASSUME open \in Seq(Tags), Nested(open), Inner \in Tags
  PROVE  /\ open # <<>> /\ Inner = Head(open)
         /\ Tail(open) \in Seq(Tags) /\ Nested(Tail(open))
         /\ \A t : Has(open, t) <=> t = Inner \/ Has(Tail(open), t)
         /\ \A t : Has(Tail(open), t) => t \in Tags /\ Inner \in Holds(t)
<1>1. open # <<>> /\ Inner = Head(open)
  BY DEF Inner, Tags, Fresh
<1>. QED  BY <1>1, Popped

\* A block or what stands between blocks opens once all others are spent.
LEMMA SpendOpens ==
  ASSUME open \in Seq(Tags), Nested(open), NEW tag \in Tags,
         NEW where \in SUBSET (Flow \union {"list"}), Opens(tag, where, Spent)
  PROVE  /\ open' \in Seq(Tags) /\ Nested(open')
         /\ Inner \in where /\ Inner # "inline" /\ Inner' = tag
         /\ ~InCell /\ (InCell' <=> tag = "cell")
         /\ KindOf(open') = IF tag \in Fresh THEN tag ELSE "none"
<1>1. Inner \in where /\ open' = <<tag>> \o Spent
  BY DEF Opens
<1>2. Inner \in Tags /\ Inner \notin {"inline", "cell", "code"}
      /\ Inner \notin {"heading", "paragraph"}
  BY <1>1 DEF Flow, Tags, Fresh
<1>3. \A t \in {"inline", "code", "cell"} : ~Has(open, t)
  BY <1>2, InnerIs, HoldsTable
<1>4. /\ Spent \in Seq(Tags) /\ Nested(Spent)
      /\ \A t \in Fresh \union {"inline", "code", "cell"} : ~Has(Spent, t)
  BY <1>3, SpentIs
<1>5. \A t \in Tags : Has(Spent, t) => tag \in Holds(t)
  BY <1>4, HoldsTable
<1>6. /\ open' \in Seq(Tags) /\ Nested(open') /\ open' # <<>> /\ Head(open') = tag
      /\ \A t : Has(open', t) <=> t = tag \/ Has(Spent, t)
  BY <1>1, <1>4, <1>5, Pushed
<1>7. Inner' = tag
  BY <1>6 DEF Inner
<1>8. (InCell <=> Has(open, "cell")) /\ (InCell' <=> Has(open', "cell"))
  BY DEF InCell, Has
<1>9. ~InCell /\ (InCell' <=> tag = "cell")
  BY <1>3, <1>4, <1>6, <1>8
<1>10. \A t \in Fresh : Has(open', t) <=> t = tag
  BY <1>4, <1>6
<1>11. KindOf(open') = IF tag \in Fresh THEN tag ELSE "none"
  BY <1>10 DEF KindOf, Fresh
<1>. QED  BY <1>1, <1>2, <1>6, <1>7, <1>9, <1>11

\* A paragraph or quote opens; within an item it goes on with the item's block.
LEMMA FlowOpens ==
  ASSUME open \in Seq(Tags), Nested(open), NEW tag \in {"paragraph", "quote"},
         Opens(tag, Flow, open)
  PROVE  /\ open' \in Seq(Tags) /\ Nested(open')
         /\ Inner # "inline" /\ Inner' = tag
         /\ ~InCell /\ ~InCell'
         /\ KindOf(open) \in {"item", "none"} /\ (InBlock <=> KindOf(open) # "none")
         /\ KindOf(open') = IF tag = "quote" \/ InBlock THEN KindOf(open) ELSE tag
<1>1. Inner \in Flow /\ open' = <<tag>> \o open
  BY DEF Opens
<1>2. /\ Inner \in Tags /\ tag \in Tags /\ Inner # "inline"
      /\ \A t \in {"inline", "code", "cell", "heading", "paragraph"} : Inner \notin Holds(t)
      /\ \A t \in {"inline", "code", "cell", "heading", "paragraph"} : Inner # t
  BY <1>1, HoldsTable DEF Flow, Tags, Fresh
<1>3. \A t \in {"inline", "code", "cell", "heading", "paragraph"} : ~Has(open, t)
  BY <1>2, InnerIs
<1>4. \A t \in Tags : Has(open, t) => tag \in Holds(t)
  BY <1>2, <1>3, HoldsTable DEF Fresh
<1>5. /\ open' \in Seq(Tags) /\ Nested(open') /\ open' # <<>> /\ Head(open') = tag
      /\ \A t : Has(open', t) <=> t = tag \/ Has(open, t)
  BY <1>1, <1>2, <1>4, Pushed
<1>6. Inner' = tag
  BY <1>5 DEF Inner
<1>7. ~InCell /\ ~InCell'
  <2>1. (InCell <=> Has(open, "cell")) /\ (InCell' <=> Has(open', "cell"))
    BY DEF InCell, Has
  <2>. QED  BY <1>3, <1>5, <2>1
<1>8. InBlock <=> Has(open, "item")
  <2>1. InBlock <=> \E t \in Fresh \union {"code", "cell"} : Has(open, t)
    BY DEF InBlock, Has
  <2>. QED  BY <1>3, <2>1 DEF Fresh
<1>9. KindOf(open) = IF InBlock THEN "item" ELSE "none"
  BY <1>3, <1>8 DEF KindOf
<1>10. /\ Has(open', "item") <=> InBlock
       /\ ~Has(open', "heading")
       /\ Has(open', "paragraph") <=> tag = "paragraph"
  BY <1>3, <1>5, <1>8
<1>11. KindOf(open') = IF tag = "quote" \/ InBlock THEN KindOf(open) ELSE tag
  BY <1>9, <1>10 DEF KindOf
<1>. QED  BY <1>2, <1>5, <1>6, <1>7, <1>9, <1>11

\* A cell opens in a table.
LEMMA CellOpens ==
  ASSUME open \in Seq(Tags), Nested(open), Opens("cell", {"table"}, open)
  PROVE  /\ open' \in Seq(Tags) /\ Nested(open')
         /\ Inner # "inline" /\ Inner' = "cell"
         /\ ~InCell /\ InCell'
         /\ KindOf(open) = "none" /\ KindOf(open') = "none"
<1>1. Inner = "table" /\ open' = <<"cell">> \o open
  BY DEF Opens
<1>2. Inner \in Tags /\ "cell" \in Tags /\ Inner # "inline"
  BY <1>1 DEF Tags
<1>3. \A t \in Fresh \union {"inline", "code", "cell"} : ~Has(open, t)
  BY <1>1, <1>2, InnerIs, HoldsTable DEF Fresh
<1>4. \A t \in Tags : Has(open, t) => "cell" \in Holds(t)
  BY <1>2, <1>3, HoldsTable
<1>5. /\ open' \in Seq(Tags) /\ Nested(open') /\ open' # <<>> /\ Head(open') = "cell"
      /\ \A t : Has(open', t) <=> t = "cell" \/ Has(open, t)
  BY <1>1, <1>2, <1>4, Pushed
<1>6. Inner' = "cell"
  BY <1>5 DEF Inner
<1>7. (InCell <=> Has(open, "cell")) /\ (InCell' <=> Has(open', "cell"))
  BY DEF InCell, Has
<1>8. KindOf(open) = "none" /\ KindOf(open') = "none"
  BY <1>3, <1>5 DEF KindOf, Fresh
<1>. QED  BY <1>2, <1>3, <1>5, <1>6, <1>7, <1>8

\* Inline text opens within a block or a cell.
LEMMA InlineOpens ==
  ASSUME open \in Seq(Tags), Nested(open), Opens("inline", Inline \ {"inline"}, open)
  PROVE  /\ open' \in Seq(Tags) /\ Nested(open')
         /\ Inner # "inline" /\ Inner' = "inline"
         /\ (InCell' <=> InCell) /\ KindOf(open') = KindOf(open)
<1>1. Inner \in Inline \ {"inline"} /\ open' = <<"inline">> \o open
  BY DEF Opens
<1>2. Inner \in Tags /\ "inline" \in Tags /\ Inner \notin {"inline", "code"}
  BY <1>1 DEF Inline, Tags, Fresh
<1>3. ~Has(open, "inline") /\ ~Has(open, "code")
  BY <1>2, InnerIs, HoldsTable
<1>4. \A t \in Tags : Has(open, t) => "inline" \in Holds(t)
  BY <1>2, <1>3, HoldsTable DEF Fresh
<1>5. /\ open' \in Seq(Tags) /\ Nested(open') /\ open' # <<>> /\ Head(open') = "inline"
      /\ \A t : Has(open', t) <=> t = "inline" \/ Has(open, t)
  BY <1>1, <1>2, <1>4, Pushed
<1>6. Inner' = "inline"
  BY <1>5 DEF Inner
<1>7. (InCell <=> Has(open, "cell")) /\ (InCell' <=> Has(open', "cell"))
  BY DEF InCell, Has
<1>8. KindOf(open') = KindOf(open)
  BY <1>5 DEF KindOf
<1>. QED  BY <1>2, <1>5, <1>6, <1>7, <1>8

\* An element closes.  Only an item goes on after what it held.
LEMMA ElementCloses ==
  ASSUME open \in Seq(Tags), Nested(open), NEW tags \in SUBSET Tags, Closes(tags)
  PROVE  /\ open' \in Seq(Tags) /\ Nested(open')
         /\ Inner \in tags /\ Inner' # "inline"
         /\ InCell' <=> InCell /\ Inner # "cell"
         /\ InCell => Inner \in {"inline", "cell"}
         /\ Inner \in {"inline", "quote"} => KindOf(open') = KindOf(open)
         /\ Inner = "quote" => KindOf(open) # "paragraph"
         /\ Inner = "paragraph" =>
              /\ KindOf(open) \in {"paragraph", "item"}
              /\ KindOf(open') = IF KindOf(open) = "item" THEN "item" ELSE "none"
         /\ Inner \notin {"inline", "quote", "paragraph"} => KindOf(open') = "none"
         /\ Inner \notin Fresh \union {"inline", "quote"} => KindOf(open) = "none"
<1>. DEFINE r == Tail(open)
<1>1. Inner \in tags /\ Inner \in Tags /\ open' = r
  BY DEF Closes
<1>2. /\ r \in Seq(Tags) /\ Nested(r)
      /\ \A t : Has(open, t) <=> t = Inner \/ Has(r, t)
      /\ \A t : Has(r, t) => t \in Tags /\ Inner \in Holds(t)
  BY <1>1, InnerIs
<1>3. /\ ~Has(r, "inline") /\ ~Has(r, "code")
      /\ Has(r, "cell") => Inner = "inline"
      /\ Has(r, "heading") => Inner = "inline"
      /\ Has(r, "paragraph") => Inner = "inline"
      /\ Has(r, "item") => Inner \in {"inline", "paragraph", "quote"}
  BY <1>2, HoldsTable
<1>4. Inner' # "inline"
  <2>1. CASE r = <<>>
    BY <1>1, <2>1 DEF Inner
  <2>2. CASE r # <<>>
    <3>1. Inner' = Head(r)
      BY <1>1, <2>2 DEF Inner
    <3>2. Has(r, Head(r))
      BY <1>2, <2>2, Popped
    <3>. QED  BY <1>3, <3>1, <3>2
  <2>. QED  BY <2>1, <2>2
<1>5. (InCell <=> Has(open, "cell")) /\ (InCell' <=> Has(r, "cell"))
  BY <1>1 DEF InCell, Has
<1>. HIDE DEF r
<1>6. /\ InCell' <=> InCell /\ Inner # "cell"
      /\ InCell => Inner \in {"inline", "cell"}
  BY <1>2, <1>3, <1>5
<1>7. ASSUME Inner \in {"inline", "quote"}
      PROVE  KindOf(r) = KindOf(open)
  BY <1>2, <1>7 DEF KindOf
<1>8. ASSUME Inner = "quote"
      PROVE  KindOf(open) # "paragraph"
  BY <1>2, <1>3, <1>8 DEF KindOf
<1>9. ASSUME Inner = "paragraph"
      PROVE  /\ KindOf(open) \in {"paragraph", "item"}
             /\ KindOf(r) = IF KindOf(open) = "item" THEN "item" ELSE "none"
  BY <1>2, <1>3, <1>9 DEF KindOf
<1>10. ASSUME Inner \notin {"inline", "quote", "paragraph"}
       PROVE  KindOf(r) = "none"
  BY <1>3, <1>10 DEF KindOf
<1>11. ASSUME Inner \notin Fresh \union {"inline", "quote"}
       PROVE  KindOf(open) = "none"
  BY <1>2, <1>3, <1>11 DEF KindOf, Fresh
<1>. QED  BY <1>1, <1>2, <1>4, <1>6, <1>7, <1>8, <1>9, <1>10, <1>11

\* Nothing opens or closes, but all blocks are spent.
LEMMA BlocksSpent ==
  ASSUME open \in Seq(Tags), Nested(open), Inner \in Flow \union Inline, open' = Spent
  PROVE  /\ open' \in Seq(Tags) /\ Nested(open') /\ KindOf(open') = "none"
         /\ Inner' = "inline" <=> Inner = "inline"
         /\ InCell' <=> InCell
<1>1. Inner \in Tags
  BY DEF Flow, Inline, Tags, Fresh
<1>2. /\ open' \in Seq(Tags) /\ Nested(open') /\ open # <<>> /\ open' # <<>>
      /\ \A t \in Fresh : ~Has(open', t)
      /\ Has(open', "cell") <=> Has(open, "cell")
      /\ Head(open') = IF Head(open) \in Fresh THEN Stale[Head(open)] ELSE Head(open)
  BY <1>1, SpentIs, InnerIs
<1>3. Inner = Head(open) /\ Inner' = Head(open')
  BY <1>2 DEF Inner
<1>4. Inner' = "inline" <=> Inner = "inline"
  BY <1>2, <1>3, Stages
<1>5. (InCell <=> Has(open, "cell")) /\ (InCell' <=> Has(open', "cell"))
  BY DEF InCell, Has
<1>6. KindOf(open') = "none"
  BY <1>2 DEF KindOf, Fresh
<1>. QED  BY <1>2, <1>4, <1>5, <1>6

-----------------------------------------------------------------------------
(* Type correctness. *)

BlockKinds == {"none", "heading", "paragraph", "item"}

ParserType == open \in Seq(Tags) /\ events \in 0..MaxEvents /\ block \in Nat

PaneType ==
  /\ kind \in BlockKinds
  /\ markup \in Seq(Token)
  /\ shown \subseteq Seq(Token)
  /\ dropped \in Seq(Token)

TableType == cell \in Seq(Token) /\ cells \subseteq Seq(Token)

LEMMA TypeParts == TypeOK <=> ParserType /\ PaneType /\ TableType /\ torn \in BOOLEAN
BY DEF TypeOK, ParserType, PaneType, TableType, BlockKinds

LEMMA TypeInit == Init => TypeOK
<1>. SUFFICES ASSUME Init
              PROVE  ParserType /\ PaneType /\ TableType /\ torn \in BOOLEAN
  BY TypeParts
<1>1. ParserType
  BY BoundsAssumption DEF Init, ParserType, Tags
<1>2. PaneType
  BY DEF Init, PaneType, BlockKinds
<1>3. TableType
  BY DEF Init, TableType
<1>4. torn \in BOOLEAN
  BY DEF Init
<1>. QED  BY <1>1, <1>2, <1>3, <1>4

\* Text and tags are tokens.
LEMMA TokenTypes ==
  ASSUME block \in Nat
  PROVE  /\ Text \in Token /\ Text.tag = "text"
         /\ Text.of = IF InBlock THEN block ELSE 0
         /\ \A t \in {"open", "close"} : Tag(t) \in Token /\ Tag(t).tag = t
         /\ CodeLines \subseteq Seq(Token)
BY DEF Text, Tag, Token, CodeLines

\* What becomes of the pane, whichever way an event treats it.
LEMMA PaneTypes ==
  ASSUME PaneType
  PROVE  /\ Flush => PaneType'
         /\ \A next \in BlockKinds : StartBlock(next) => PaneType'
         /\ \A t \in Token : Pushes(t) => PaneType'
         /\ Quiet => PaneType'
<1>1. Labels(markup) \subseteq Seq(Token) /\ <<>> \in Seq(Token)
  BY DEF PaneType, Labels
<1>2. Flush => PaneType'
  BY <1>1 DEF PaneType, Flush, BlockKinds
<1>3. ASSUME NEW next \in BlockKinds, StartBlock(next)
      PROVE  PaneType'
  BY <1>1, <1>3 DEF PaneType, StartBlock
<1>4. ASSUME NEW t \in Token, Pushes(t)
      PROVE  PaneType'
  <2>1. Append(markup, t) \in Seq(Token)
    BY Appended DEF PaneType
  <2>. QED  BY <1>1, <1>4, <2>1 DEF PaneType, Pushes
<1>5. Quiet => PaneType'
  BY <1>1 DEF PaneType, Quiet
<1>. QED  BY <1>2, <1>3, <1>4, <1>5

\* Spent blocks are elements too.
LEMMA SpentType ==
  ASSUME open \in Seq(Tags)
  PROVE  Spent \in Seq(Tags)
<1>1. /\ Len(open) \in Nat /\ DOMAIN open = 1..Len(open)
      /\ \A i \in 1..Len(open) : open[i] \in Tags
  BY LenProperties, ElementOfSeq
<1>2. \A i \in 1..Len(open) :
        (IF open[i] \in Fresh THEN Stale[open[i]] ELSE open[i]) \in Tags
  BY <1>1, Stages
<1>3. Spent \in [1..Len(open) -> Tags]
  BY <1>1, <1>2 DEF Spent
<1>. QED  BY <1>1, <1>3

\* What becomes of the parser's elements.
LEMMA ParserTypes ==
  ASSUME ParserType, torn \in BOOLEAN
  PROVE  /\ \A tag \in Tags, where \in SUBSET Tags, within \in Seq(Tags) :
              Opens(tag, where, within) =>
                open' \in Seq(Tags) /\ events' \in 0..MaxEvents /\ torn' \in BOOLEAN
         /\ \A tags \in SUBSET Tags : Closes(tags) => ParserType' /\ torn' \in BOOLEAN
         /\ Says => events' \in 0..MaxEvents /\ block' \in Nat
         /\ Mends => torn' \in BOOLEAN
<1>1. /\ open \in Seq(Tags) /\ events \in 0..MaxEvents /\ block \in Nat
      /\ MaxEvents \in Nat
  BY BoundsAssumption DEF ParserType
<1>2. Inner \in Tags => open # <<>>
  BY DEF Inner, Tags, Fresh
<1>3. open # <<>> => Tail(open) \in Seq(Tags)
  BY <1>1
<1>4. Mends => torn' \in BOOLEAN
  BY DEF Mends
<1>5. ASSUME NEW tag \in Tags, NEW where \in SUBSET Tags, NEW within \in Seq(Tags),
             Opens(tag, where, within)
      PROVE  open' \in Seq(Tags) /\ events' \in 0..MaxEvents /\ torn' \in BOOLEAN
  <2>1. /\ events < MaxEvents /\ events' = events + 1 /\ Mends
        /\ open' = <<tag>> \o within
    BY <1>5 DEF Opens
  <2>2. <<tag>> \in Seq(Tags)
    OBVIOUS
  <2>3. open' \in Seq(Tags)
    BY <2>1, <2>2, ConcatProperties
  <2>. QED  BY <1>1, <1>4, <2>1, <2>3
<1>6. ASSUME NEW tags \in SUBSET Tags, Closes(tags)
      PROVE  ParserType' /\ torn' \in BOOLEAN
  BY <1>1, <1>2, <1>3, <1>4, <1>6 DEF Closes, ParserType
<1>7. Says => events' \in 0..MaxEvents /\ block' \in Nat
  BY <1>1 DEF Says
<1>. QED  BY <1>4, <1>5, <1>6, <1>7

LEMMA TypeStep == TypeOK /\ [Next]_vars => TypeOK'
<1>. SUFFICES ASSUME ParserType, PaneType, TableType, torn \in BOOLEAN, [Next]_vars
              PROVE  ParserType' /\ PaneType' /\ TableType' /\ torn' \in BOOLEAN
  BY DEF TypeOK, ParserType, PaneType, TableType, BlockKinds
<1>0. /\ Flow \subseteq Tags /\ Inline \subseteq Tags
      /\ block \in Nat /\ open \in Seq(Tags) /\ Spent \in Seq(Tags)
  BY SpentType DEF Flow, Inline, Tags, Fresh, ParserType
<1>1. /\ Text \in Token /\ CodeLines \subseteq Seq(Token)
      /\ Tag("open") \in Token /\ Tag("close") \in Token
  BY <1>0, TokenTypes
<1>2. /\ Flush => PaneType'
      /\ \A next \in BlockKinds : StartBlock(next) => PaneType'
      /\ \A t \in Token : Pushes(t) => PaneType'
      /\ Quiet => PaneType'
  BY PaneTypes
<1>3. /\ \A tag \in Tags, where \in SUBSET Tags, within \in Seq(Tags) :
           Opens(tag, where, within) =>
             open' \in Seq(Tags) /\ events' \in 0..MaxEvents /\ torn' \in BOOLEAN
      /\ \A tags \in SUBSET Tags : Closes(tags) => ParserType' /\ torn' \in BOOLEAN
      /\ Says => events' \in 0..MaxEvents /\ block' \in Nat
      /\ Mends => torn' \in BOOLEAN
  BY ParserTypes
<1>4. UNCHANGED tableVars => TableType'
  BY DEF TableType, tableVars
<1>5. UNCHANGED block \/ block' = block + 1 => block' \in Nat
  BY <1>0
<1>6. \A t \in Tags : {t} \subseteq Tags
  OBVIOUS
<1>7. {"heading", "paragraph", "item"} \subseteq BlockKinds
  BY DEF BlockKinds
<1>8. \A t \in {"heading", "paragraph", "item", "heading*", "paragraph*", "item*",
                "inline", "quote", "list", "code", "table", "cell", "doc"} : t \in Tags
  BY DEF Tags, Fresh
<1>. USE <1>0, <1>4
<1>11. CASE StartHeading
  BY <1>2, <1>3, <1>5, <1>7, <1>8, <1>11 DEF StartHeading, ParserType
<1>12. CASE EndHeading
  BY <1>2, <1>3, <1>8, <1>12 DEF EndHeading
<1>13. CASE StartParagraph
  BY <1>2, <1>3, <1>5, <1>7, <1>8, <1>13 DEF StartParagraph, ParserType
<1>14. CASE EndParagraph
  BY <1>2, <1>3, <1>8, <1>14 DEF EndParagraph
<1>15. CASE StartInline
  BY <1>1, <1>2, <1>3, <1>5, <1>8, <1>15 DEF StartInline, ParserType
<1>16. CASE EndInline
  BY <1>1, <1>2, <1>3, <1>8, <1>16 DEF EndInline
<1>17. CASE StartQuote
  BY <1>2, <1>3, <1>5, <1>8, <1>17 DEF StartQuote, ParserType
<1>18. CASE EndQuote
  BY <1>2, <1>3, <1>8, <1>18 DEF EndQuote
<1>19. CASE StartList
  BY <1>2, <1>3, <1>5, <1>8, <1>19 DEF StartList, ParserType
<1>20. CASE EndList
  BY <1>2, <1>3, <1>8, <1>20 DEF EndList
<1>21. CASE StartItem
  BY <1>2, <1>3, <1>5, <1>7, <1>8, <1>21 DEF StartItem, ParserType
<1>22. CASE EndItem
  BY <1>2, <1>3, <1>8, <1>22 DEF EndItem
<1>23. CASE CodeBlock
  BY <1>2, <1>3, <1>5, <1>8, <1>23 DEF CodeBlock, ParserType
<1>24. CASE EndCodeBlock
  <2>1. PaneType'
    BY <1>1, <1>24, EmptySeq DEF EndCodeBlock, PaneType
  <2>2. ParserType' /\ torn' \in BOOLEAN
    BY <1>3, <1>8, <1>24 DEF EndCodeBlock
  <2>. QED  BY <1>24, <2>1, <2>2 DEF EndCodeBlock
<1>25. CASE StartTable
  <2>1. ParserType' /\ PaneType' /\ torn' \in BOOLEAN
    BY <1>2, <1>3, <1>5, <1>8, <1>25 DEF StartTable, ParserType
  <2>2. TableType'
    BY <1>25 DEF StartTable, TableType
  <2>. QED  BY <2>1, <2>2
<1>26. CASE EndTable
  <2>1. PaneType'
    BY <1>26, EmptySeq DEF EndTable, PaneType, TableType, Grid
  <2>2. ParserType' /\ torn' \in BOOLEAN
    BY <1>3, <1>8, <1>26 DEF EndTable
  <2>. QED  BY <1>26, <2>1, <2>2 DEF EndTable
<1>27. CASE StartCell
  <2>1. ParserType' /\ PaneType' /\ torn' \in BOOLEAN
    BY <1>2, <1>3, <1>5, <1>6, <1>8, <1>27 DEF StartCell, ParserType
  <2>2. TableType'
    BY <1>27, EmptySeq DEF StartCell, TableType
  <2>. QED  BY <2>1, <2>2
<1>28. CASE EndCell
  <2>1. ParserType' /\ PaneType' /\ torn' \in BOOLEAN
    BY <1>2, <1>3, <1>8, <1>28 DEF EndCell
  <2>2. TableType'
    BY <1>28, EmptySeq DEF EndCell, TableType
  <2>. QED  BY <2>1, <2>2
<1>29. CASE Rule
  BY <1>2, <1>3, <1>29 DEF Rule, ParserType
<1>30. CASE PlainText
  <2>1. ParserType' /\ torn' \in BOOLEAN
    BY <1>3, <1>30 DEF PlainText, ParserType
  <2>2. CASE InCell
    <3>1. cell' = Append(cell, Text) /\ cells' = cells /\ Quiet
      BY <1>30, <2>2 DEF PlainText
    <3>2. Append(cell, Text) \in Seq(Token)
      BY <1>1, Appended DEF TableType
    <3>. QED  BY <1>2, <2>1, <3>1, <3>2 DEF TableType
  <2>3. CASE ~InCell
    <3>1. Pushes(Text) /\ UNCHANGED tableVars
      BY <1>30, <2>3 DEF PlainText, tableVars
    <3>. QED  BY <1>1, <1>2, <2>1, <3>1
  <2>. QED  BY <2>2, <2>3
<1>31. CASE HtmlBlock
  BY <1>1, <1>2, <1>3, <1>31 DEF HtmlBlock, ParserType
<1>32. ASSUME NEW intro \in BOOLEAN, E820Text(intro)
       PROVE  ParserType' /\ PaneType' /\ TableType' /\ torn' \in BOOLEAN
  <2>. DEFINE said == IF intro THEN Append(markup, Text) ELSE markup
  <2>1. said \in Seq(Token) /\ <<>> \in Seq(Token)
    BY <1>1, Appended DEF PaneType
  <2>2. /\ dropped' = <<>> \/ dropped' = said
        /\ \A m \in shown' : m \in CodeLines \/ m = said
        /\ markup' = <<>> /\ kind' = "none"
    BY <1>32 DEF E820Text, Labels
  <2>. HIDE DEF said
  <2>3. PaneType'
    BY <1>1, <2>1, <2>2 DEF PaneType, BlockKinds
  <2>4. ParserType' /\ TableType' /\ torn' \in BOOLEAN
    BY <1>3, <1>32 DEF E820Text, ParserType
  <2>. QED  BY <2>3, <2>4
<1>33. CASE EndDocument
  BY <1>2, <1>3, <1>8, <1>33 DEF EndDocument
<1>34. CASE UNCHANGED vars
  BY <1>34 DEF vars, parserVars, paneVars, ParserType, PaneType
<1>. QED
  BY <1>11, <1>12, <1>13, <1>14, <1>15, <1>16, <1>17, <1>18, <1>19, <1>20, <1>21,
     <1>22, <1>23, <1>24, <1>25, <1>26, <1>27, <1>28, <1>29, <1>30, <1>31, <1>32,
     <1>33, <1>34 DEF Next

(***************************************************************************)
(* Type correctness for documents of any length and nesting.               *)
(***************************************************************************)
THEOREM TypeCorrect == Spec => []TypeOK
BY TypeInit, TypeStep, PTL DEF Spec

-----------------------------------------------------------------------------
(* What events do to the pane. *)

Shows == LabelsBalanced /\ TextStaysInBlock

\* An event that shows and drops nothing says nothing wrong.
LEMMA SilentShows == shown' = {} /\ dropped' = <<>> => Shows'
BY DEF Shows, LabelsBalanced, TextStaysInBlock

\* Nor does a line of code or of the e820 map.
LEMMA LinesRight ==
  ASSUME block \in Nat
  PROVE  \A m \in CodeLines : Balanced(m) /\ OfOneBlock(m)
<1>1. <<Text>> \in Seq(Token) /\ TextOnly(<<Text>>)
  BY TokenTypes DEF TextOnly
<1>2. Balanced(<<Text>>)
  BY <1>1, TextBalanced
<1>3. OfOneBlock(<<Text>>)
  <2>1. DOMAIN <<Text>> = {1}
    OBVIOUS
  <2>. QED  BY <2>1 DEF OfOneBlock
<1>. QED  BY <1>2, <1>3 DEF CodeLines

\* Once all that was torn apart has been shown, the markup nests again.
LEMMA Mended ==
  ASSUME MarkupFits, ~(torn /\ (markup # <<>> \/ Inner = "inline"))
  PROVE  Unclosed(markup, IF Inner = "inline" THEN 1 ELSE 0)
<1>1. CASE ~torn
  BY <1>1 DEF MarkupFits
<1>2. CASE torn
  <2>1. markup = <<>> /\ Inner # "inline"
    BY <1>2
  <2>. QED  BY <2>1, EmptyBalanced
<1>. QED  BY <1>1, <1>2

\* Text that fits is of one block, and of none when no block is gathered.
LEMMA FittingText ==
  ASSUME NEW m, TextFits(m)
  PROVE  /\ OfOneBlock(m)
         /\ kind = "none" => \A i \in DOMAIN m : m[i].tag = "text" => m[i].of = 0
BY DEF TextFits, OfOneBlock

\* What was gathered may be shown, and without a block it is text of none.
LEMMA GatheredRight ==
  ASSUME markup \in Seq(Token), MarkupFits, Mends, Inner # "inline"
  PROVE  /\ ~torn' => Balanced(markup)
         /\ OfOneBlock(markup)
         /\ kind = "none" =>
              \A i \in DOMAIN markup : markup[i].tag = "text" => markup[i].of = 0
<1>1. ASSUME ~torn'
      PROVE  Balanced(markup)
  <2>1. Unclosed(markup, 0)
    BY <1>1, Mended DEF Mends
  <2>. QED  BY <2>1, BalancedIs
<1>. QED  BY <1>1, FittingText DEF MarkupFits

\* A cleared pane.
LEMMA ClearedFits ==
  ASSUME markup' = <<>>, Inner' # "inline"
  PROVE  MarkupFits'
BY EmptyBalanced DEF MarkupFits, TextFits

\* Markup that stays is that of the same block, or of none.
LEMMA KeptFits ==
  ASSUME MarkupFits, Mends, UNCHANGED markup, Inner # "inline", Inner' # "inline",
         kind = "none" \/ (UNCHANGED block /\ kind' # "none")
  PROVE  MarkupFits'
<1>1. torn' \/ Unclosed(markup', 0)
  BY Mended DEF Mends
<1>2. TextFits(markup)'
  BY DEF MarkupFits, TextFits
<1>. QED  BY <1>1, <1>2 DEF MarkupFits

\* Outside of cells the table does not change.
LEMMA TableFits ==
  ASSUME CellFits, UNCHANGED tableVars, ~InCell \/ (InCell' /\ UNCHANGED block)
  PROVE  CellFits'
<1>1. cell' = cell /\ cells' = cells
  BY DEF tableVars
<1>2. CASE ~InCell
  <2>1. cell = <<>>
    BY <1>2 DEF CellFits
  <2>. QED  BY <1>1, <2>1 DEF CellFits
<1>3. CASE InCell' /\ UNCHANGED block
  BY <1>1, <1>3 DEF CellFits
<1>. QED  BY <1>2, <1>3

-----------------------------------------------------------------------------
(* The ways an event may go, once it is known where it leaves the parser. *)

\* What was gathered is shown and no block is left.
LEMMA FlushStep ==
  ASSUME PaneType, MarkupFits, CellFits, Nested(open'), Mends, Flush,
         UNCHANGED tableVars, ~InCell, Inner # "inline", Inner' # "inline",
         KindOf(open') = "none"
  PROVE  PaneInv' /\ Shows'
<1>1. /\ \A m \in shown' : m = markup
      /\ dropped' = IF kind = "none" THEN markup ELSE <<>>
      /\ markup' = <<>> /\ kind' = "none"
  BY DEF Flush, Labels
<1>2. Shows'
  <2>1. /\ ~torn' => Balanced(markup)
        /\ OfOneBlock(markup)
        /\ kind = "none" =>
             \A i \in DOMAIN markup : markup[i].tag = "text" => markup[i].of = 0
    BY GatheredRight DEF PaneType
  <2>. QED  BY <1>1, <2>1 DEF Shows, LabelsBalanced, TextStaysInBlock
<1>3. MarkupFits' /\ CellFits'
  BY <1>1, ClearedFits, TableFits
<1>. QED  BY <1>1, <1>2, <1>3 DEF PaneInv

\* Nothing is shown, and the block goes on or there was none.
LEMMA QuietStep ==
  ASSUME MarkupFits, CellFits, Nested(open'), Mends, Quiet,
         UNCHANGED tableVars, ~InCell, Inner # "inline", Inner' # "inline",
         KindOf(open') = kind, kind = "none" \/ UNCHANGED block
  PROVE  PaneInv' /\ Shows'
<1>1. UNCHANGED <<kind, markup>> /\ Shows'
  BY SilentShows DEF Quiet
<1>2. MarkupFits' /\ CellFits'
  BY <1>1, KeptFits, TableFits
<1>. QED  BY <1>1, <1>2 DEF PaneInv

\* A block begins, after the one before has been shown.
LEMMA BlockStep ==
  ASSUME PaneType, MarkupFits, CellFits, Nested(open'), Mends, NEW next,
         StartBlock(next), next # "none",
         UNCHANGED tableVars, ~InCell, Inner # "inline", Inner' # "inline",
         KindOf(open') = next
  PROVE  PaneInv' /\ Shows'
<1>1. /\ \A m \in shown' : m = markup
      /\ dropped' = <<>> /\ kind' = next
      /\ markup' = IF kind = "none" THEN markup ELSE <<>>
  BY DEF StartBlock, Labels
<1>2. Shows'
  <2>1. (~torn' => Balanced(markup)) /\ OfOneBlock(markup)
    BY GatheredRight DEF PaneType
  <2>. QED  BY <1>1, <2>1 DEF Shows, LabelsBalanced, TextStaysInBlock
<1>3. MarkupFits'
  <2>1. CASE kind = "none"
    BY <1>1, <2>1, KeptFits
  <2>2. CASE kind # "none"
    BY <1>1, <2>2, ClearedFits
  <2>. QED  BY <2>1, <2>2
<1>4. CellFits'
  BY TableFits
<1>. QED  BY <1>1, <1>2, <1>3, <1>4 DEF PaneInv

\* A token more: an inline tag as it opens and closes, or text of the block or
\* of none.
LEMMA PushStep ==
  ASSUME PaneType, block \in Nat, MarkupFits, kind = KindOf(open), Nested(open'), Mends,
         NEW t \in Token, Pushes(t), UNCHANGED block, CellFits', KindOf(open') = kind,
         \/ /\ t.tag = "text" /\ (Inner' = "inline" <=> Inner = "inline")
            /\ t.of = 0 \/ (t.of = block /\ kind # "none")
         \/ t.tag = "open" /\ Inner # "inline" /\ Inner' = "inline"
         \/ t.tag = "close" /\ Inner = "inline" /\ Inner' # "inline"
  PROVE  PaneInv' /\ Shows'
<1>. DEFINE d == IF Inner = "inline" THEN 1 ELSE 0
            e == IF Inner' = "inline" THEN 1 ELSE 0
<1>1. markup \in Seq(Token) /\ markup' = Append(markup, t) /\ UNCHANGED kind
  BY DEF PaneType, Pushes
<1>2. d \in Nat /\ e \in Nat
  OBVIOUS
<1>3. \/ t.tag = "text" /\ e = d
      \/ t.tag = "open" /\ e = d + 1
      \/ t.tag = "close" /\ d = e + 1
  OBVIOUS
<1>4. ~torn' => Unclosed(markup, d)
  BY Mended DEF Mends
<1>. HIDE DEF d, e
<1>5. ~torn' => Unclosed(markup', e)
  BY <1>1, <1>2, <1>3, <1>4, UnclosedAppended
<1>6. ASSUME NEW i \in DOMAIN markup', markup'[i].tag = "text"
      PROVE  markup'[i].of = 0 \/ (markup'[i].of = block' /\ kind' # "none")
  <2>1. CASE i \in DOMAIN markup
    <3>1. markup'[i] = markup[i]
      BY <1>1, <2>1, Appended
    <3>. QED  BY <1>1, <1>6, <2>1, <3>1 DEF MarkupFits, TextFits
  <2>2. CASE i \notin DOMAIN markup
    <3>1. markup'[i] = t
      BY <1>1, <1>6, <2>2, Appended
    <3>. QED  BY <1>1, <1>6, <3>1
  <2>. QED  BY <2>1, <2>2
<1>7. Shows'
  BY SilentShows DEF Pushes
<1>8. TextFits(markup)'
  BY <1>6 DEF TextFits
<1>9. MarkupFits'
  BY <1>5, <1>8 DEF MarkupFits, e
<1>. QED  BY <1>1, <1>7, <1>9 DEF PaneInv

-----------------------------------------------------------------------------
(* Every event keeps the pane right. *)

\* Text belongs to the block being gathered, if one is, or else to a cell.
LEMMA TextIs ==
  ASSUME open \in Seq(Tags), Nested(open), Inner \in Flow \union Inline
  PROVE  /\ ~InCell => (InBlock <=> KindOf(open) # "none")
         /\ InCell => InBlock
<1>1. Inner \in Tags /\ Inner # "code"
  BY DEF Flow, Inline, Tags, Fresh
<1>2. ~Has(open, "code")
  BY <1>1, InnerIs, HoldsTable
<1>3. InCell <=> Has(open, "cell")
  BY DEF InCell, Has
<1>4. InBlock <=> \E t \in Fresh \union {"code", "cell"} : Has(open, t)
  BY DEF InBlock, Has
<1>. QED  BY <1>2, <1>3, <1>4 DEF KindOf, Fresh

LEMMA PaneInit == Init => PaneInv /\ Shows
<1>. SUFFICES ASSUME Init
              PROVE  PaneInv /\ Shows
  OBVIOUS
<1>1. open = <<"doc">> /\ DOMAIN open = {1} /\ open[1] = "doc"
  BY DEF Init
<1>2. Nested(open)
  BY <1>1 DEF Nested
<1>3. \A t : Has(open, t) <=> t = "doc"
  BY <1>1 DEF Has
<1>4. kind = KindOf(open)
  BY <1>3 DEF KindOf, Init
<1>5. Inner = "doc"
  BY <1>1 DEF Inner
<1>6. MarkupFits
  BY <1>5, EmptyBalanced DEF Init, MarkupFits, TextFits
<1>7. CellFits
  BY DEF Init, CellFits
<1>8. Shows
  BY DEF Init, Shows, LabelsBalanced, TextStaysInBlock
<1>. QED  BY <1>2, <1>4, <1>6, <1>7, <1>8 DEF PaneInv

\* Headings, lists, items and code begin once the other blocks are spent.
LEMMA SpendingSteps ==
  ASSUME ParserType, PaneType, PaneInv,
         StartHeading \/ StartList \/ StartItem \/ CodeBlock
  PROVE  PaneInv' /\ Shows'
<1>. USE DEF ParserType, PaneInv
<1>1. Flow \in SUBSET (Flow \union {"list"}) /\ {"list"} \in SUBSET (Flow \union {"list"})
  OBVIOUS
<1>2. /\ {"heading", "list", "item", "code"} \subseteq Tags
      /\ "heading" \in Fresh /\ "item" \in Fresh
      /\ "list" \notin Fresh /\ "code" \notin Fresh
  BY DEF Tags, Fresh
<1>3. ASSUME NEW tag \in {"heading", "list", "item", "code"},
             NEW where \in SUBSET (Flow \union {"list"}), Opens(tag, where, Spent)
      PROVE  /\ Nested(open') /\ Mends
             /\ ~InCell /\ ~InCell' /\ Inner # "inline" /\ Inner' # "inline"
             /\ KindOf(open') = IF tag \in Fresh THEN tag ELSE "none"
             /\ Inner \in where
  <2>1. Mends
    BY <1>3 DEF Opens
  <2>. QED  BY <1>2, <1>3, <2>1, SpendOpens
<1>4. CASE StartHeading
  <2>1. Opens("heading", Flow, Spent) /\ StartBlock("heading") /\ UNCHANGED tableVars
    BY <1>4 DEF StartHeading
  <2>. QED  BY <1>1, <1>2, <1>3, <2>1, BlockStep
<1>5. CASE StartItem
  <2>1. Opens("item", {"list"}, Spent) /\ StartBlock("item") /\ UNCHANGED tableVars
    BY <1>5 DEF StartItem
  <2>. QED  BY <1>1, <1>2, <1>3, <2>1, BlockStep
<1>6. CASE CodeBlock
  <2>1. Opens("code", Flow, Spent) /\ Flush /\ UNCHANGED tableVars
    BY <1>6 DEF CodeBlock
  <2>. QED  BY <1>1, <1>2, <1>3, <2>1, FlushStep
<1>7. CASE StartList
  <2>1. /\ Opens("list", Flow, Spent) /\ UNCHANGED <<block, tableVars>>
        /\ IF kind \in {"item", "paragraph"} THEN Flush ELSE Quiet
    BY <1>7 DEF StartList
  <2>2. /\ Nested(open') /\ Mends /\ KindOf(open') = "none" /\ Inner \in Flow
        /\ ~InCell /\ ~InCell' /\ Inner # "inline" /\ Inner' # "inline"
    BY <1>1, <1>2, <1>3, <2>1
  <2>3. CASE kind \in {"item", "paragraph"}
    BY <2>1, <2>2, <2>3, FlushStep
  <2>4. CASE kind \notin {"item", "paragraph"}
    <3>1. kind # "heading"
      <4>1. Inner \in Tags /\ Inner # "heading" /\ Inner \notin Holds("heading")
        BY <2>2, HoldsTable DEF Flow, Tags, Fresh
      <4>2. ~Has(open, "heading")
        BY <4>1, InnerIs
      <4>. QED  BY <4>2 DEF KindOf
    <3>2. kind = "none"
      BY <2>4, <3>1 DEF PaneType, BlockKinds
    <3>. QED  BY <2>1, <2>2, <2>4, <3>2, QuietStep
  <2>. QED  BY <2>3, <2>4
<1>. QED  BY <1>4, <1>5, <1>6, <1>7

\* Paragraphs and quotes may go on with the block of their item.
LEMMA FlowSteps ==
  ASSUME ParserType, PaneType, PaneInv, StartParagraph \/ StartQuote
  PROVE  PaneInv' /\ Shows'
<1>. USE DEF ParserType, PaneInv
<1>1. ASSUME NEW tag \in {"paragraph", "quote"}, Opens(tag, Flow, open)
      PROVE  /\ Nested(open') /\ Mends
             /\ ~InCell /\ ~InCell' /\ Inner # "inline" /\ Inner' # "inline"
             /\ InBlock <=> kind # "none"
             /\ KindOf(open') = IF tag = "quote" \/ InBlock THEN kind ELSE tag
  <2>1. Mends
    BY <1>1 DEF Opens
  <2>. QED  BY <1>1, <2>1, FlowOpens
<1>2. CASE StartParagraph
  <2>1. /\ Opens("paragraph", Flow, open) /\ UNCHANGED tableVars
        /\ block' = IF InBlock THEN block ELSE block + 1
        /\ IF kind = "none" THEN StartBlock("paragraph") ELSE Quiet
    BY <1>2 DEF StartParagraph
  <2>2. /\ Nested(open') /\ Mends
        /\ ~InCell /\ ~InCell' /\ Inner # "inline" /\ Inner' # "inline"
        /\ InBlock <=> kind # "none"
        /\ KindOf(open') = IF InBlock THEN kind ELSE "paragraph"
    BY <1>1, <2>1
  <2>3. CASE kind = "none"
    BY <2>1, <2>2, <2>3, BlockStep
  <2>4. CASE kind # "none"
    BY <2>1, <2>2, <2>4, QuietStep
  <2>. QED  BY <2>3, <2>4
<1>3. CASE StartQuote
  <2>1. Opens("quote", Flow, open) /\ Quiet /\ UNCHANGED <<block, tableVars>>
    BY <1>3 DEF StartQuote
  <2>. QED  BY <1>1, <2>1, QuietStep
<1>. QED  BY <1>2, <1>3

\* Blocks and what stands between them end.
LEMMA ClosingSteps ==
  ASSUME ParserType, PaneType, PaneInv,
         \/ EndHeading \/ EndParagraph \/ EndQuote \/ EndList \/ EndItem \/ EndDocument
  PROVE  PaneInv' /\ Shows'
<1>. USE DEF ParserType, PaneInv
<1>1. ASSUME NEW tags \in SUBSET Tags, Closes(tags), "inline" \notin tags, "cell" \notin tags
      PROVE  /\ Nested(open') /\ Mends /\ UNCHANGED block
             /\ ~InCell /\ ~InCell' /\ Inner # "inline" /\ Inner' # "inline"
             /\ Inner \in tags
             /\ Inner = "quote" => KindOf(open') = kind /\ kind # "paragraph"
             /\ Inner = "paragraph" =>
                  /\ kind \in {"paragraph", "item"}
                  /\ KindOf(open') = IF kind = "item" THEN "item" ELSE "none"
             /\ Inner \notin {"quote", "paragraph"} => KindOf(open') = "none"
             /\ Inner \notin Fresh \union {"quote"} => kind = "none"
  <2>1. Mends /\ UNCHANGED block
    BY <1>1 DEF Closes
  <2>2. Inner \in tags
    BY <1>1, ElementCloses
  <2>3. Inner # "inline" /\ Inner # "cell"
    BY <1>1, <2>2
  <2>. QED  BY <1>1, <2>1, <2>2, <2>3, ElementCloses
<1>2. ASSUME Closes({"heading", "heading*"}) \/ Closes({"item", "item*"}) \/ Closes({"doc"}),
             Flush, UNCHANGED tableVars
      PROVE  PaneInv' /\ Shows'
  <2>1. PICK tags \in {{"heading", "heading*"}, {"item", "item*"}, {"doc"}} : Closes(tags)
    BY <1>2
  <2>2. /\ tags \in SUBSET Tags
        /\ "inline" \notin tags /\ "cell" \notin tags
        /\ "quote" \notin tags /\ "paragraph" \notin tags
    BY <2>1 DEF Tags, Fresh
  <2>3. /\ Nested(open') /\ Mends /\ KindOf(open') = "none"
        /\ ~InCell /\ ~InCell' /\ Inner # "inline" /\ Inner' # "inline"
    BY <1>1, <2>1, <2>2
  <2>. QED  BY <1>2, <2>3, FlushStep
<1>3. CASE EndHeading \/ EndItem \/ EndDocument
  BY <1>2, <1>3 DEF EndHeading, EndItem, EndDocument
<1>4. CASE EndParagraph
  <2>1. /\ Closes({"paragraph", "paragraph*"}) /\ UNCHANGED tableVars
        /\ IF kind = "paragraph" THEN Flush ELSE Quiet
    BY <1>4 DEF EndParagraph
  <2>2. {"paragraph", "paragraph*"} \in SUBSET Tags /\ "paragraph*" \notin Fresh
    BY DEF Tags, Fresh
  <2>3. /\ Nested(open') /\ Mends /\ UNCHANGED block
        /\ ~InCell /\ ~InCell' /\ Inner # "inline" /\ Inner' # "inline"
        /\ kind = "paragraph" => KindOf(open') = "none"
        /\ kind # "paragraph" => KindOf(open') = kind
    BY <1>1, <2>1, <2>2
  <2>4. CASE kind = "paragraph"
    BY <2>1, <2>3, <2>4, FlushStep
  <2>5. CASE kind # "paragraph"
    BY <2>1, <2>3, <2>5, QuietStep
  <2>. QED  BY <2>4, <2>5
<1>5. CASE EndQuote
  <2>1. /\ Closes({"quote"}) /\ UNCHANGED tableVars
        /\ IF kind = "paragraph" THEN Flush ELSE Quiet
    BY <1>5 DEF EndQuote
  <2>2. {"quote"} \in SUBSET Tags
    BY DEF Tags
  <2>3. /\ Nested(open') /\ Mends /\ UNCHANGED block
        /\ ~InCell /\ ~InCell' /\ Inner # "inline" /\ Inner' # "inline"
        /\ kind # "paragraph" /\ KindOf(open') = kind
    BY <1>1, <2>1, <2>2
  <2>. QED  BY <2>1, <2>3, QuietStep
<1>6. CASE EndList
  <2>1. Closes({"list"}) /\ Quiet /\ UNCHANGED tableVars
    BY <1>6 DEF EndList
  <2>2. {"list"} \in SUBSET Tags /\ "list" \notin Fresh
    BY DEF Tags, Fresh
  <2>3. /\ Nested(open') /\ Mends /\ UNCHANGED block
        /\ ~InCell /\ ~InCell' /\ Inner # "inline" /\ Inner' # "inline"
        /\ kind = "none" /\ KindOf(open') = "none"
    BY <1>1, <2>1, <2>2
  <2>. QED  BY <2>1, <2>3, QuietStep
<1>. QED  BY <1>3, <1>4, <1>5, <1>6

\* Inline tags.
LEMMA InlineSteps ==
  ASSUME ParserType, PaneType, PaneInv, StartInline \/ EndInline
  PROVE  PaneInv' /\ Shows'
<1>. USE DEF ParserType, PaneInv
<1>1. /\ Tag("open") \in Token /\ Tag("open").tag = "open"
      /\ Tag("close") \in Token /\ Tag("close").tag = "close"
  BY TokenTypes
<1>2. CASE StartInline
  <2>1. /\ Opens("inline", Inline \ {"inline"}, open) /\ Mends
        /\ Pushes(Tag("open")) /\ UNCHANGED block /\ UNCHANGED tableVars
    BY <1>2 DEF StartInline, Opens
  <2>2. /\ Nested(open') /\ Inner # "inline" /\ Inner' = "inline"
        /\ (InCell' <=> InCell) /\ KindOf(open') = kind
    BY <2>1, InlineOpens
  <2>3. CellFits'
    BY <2>1, <2>2, TableFits
  <2>. QED  BY <1>1, <2>1, <2>2, <2>3, PushStep
<1>3. CASE EndInline
  <2>1. /\ Closes({"inline"}) /\ Mends
        /\ Pushes(Tag("close")) /\ UNCHANGED block /\ UNCHANGED tableVars
    BY <1>3 DEF EndInline, Closes
  <2>2. {"inline"} \in SUBSET Tags
    BY DEF Tags
  <2>3. /\ Nested(open') /\ Inner = "inline" /\ Inner' # "inline"
        /\ (InCell' <=> InCell) /\ KindOf(open') = kind
    BY <2>1, <2>2, ElementCloses
  <2>4. CellFits'
    BY <2>1, <2>3, TableFits
  <2>. QED  BY <1>1, <2>1, <2>3, <2>4, PushStep
<1>. QED  BY <1>2, <1>3

\* The end of code and of a table shows what they hold and no markup.
LEMMA ContentStep ==
  ASSUME ParserType, PaneType, PaneInv, Closes({"code"}) \/ Closes({"table"}),
         \A m \in shown' : Balanced(m) /\ OfOneBlock(m), dropped' = <<>>,
         UNCHANGED <<kind, markup, tableVars>>
  PROVE  PaneInv' /\ Shows'
<1>. USE DEF ParserType, PaneInv
<1>1. PICK tag \in {"code", "table"} : Closes({tag})
  OBVIOUS
<1>2. {tag} \in SUBSET Tags /\ tag \notin Fresh
  BY DEF Tags, Fresh
<1>3. /\ Nested(open') /\ Inner = tag /\ Inner' # "inline"
      /\ ~InCell /\ kind = "none" /\ KindOf(open') = "none"
  BY <1>1, <1>2, ElementCloses
<1>4. Mends /\ Inner # "inline"
  BY <1>1, <1>3 DEF Closes
<1>5. MarkupFits' /\ CellFits'
  BY <1>3, <1>4, KeptFits, TableFits
<1>6. Shows'
  BY DEF Shows, LabelsBalanced, TextStaysInBlock
<1>. QED  BY <1>3, <1>5, <1>6

\* Code and tables.
LEMMA TableSteps ==
  ASSUME ParserType, PaneType, TableType, PaneInv,
         EndCodeBlock \/ StartTable \/ EndTable \/ StartCell \/ EndCell
  PROVE  PaneInv' /\ Shows'
<1>. USE DEF ParserType, PaneInv
<1>1. CASE EndCodeBlock
  BY <1>1, LinesRight, ContentStep DEF EndCodeBlock
<1>2. CASE EndTable
  <2>1. \A m \in Grid : Balanced(m) /\ OfOneBlock(m)
    BY TextBalanced DEF Grid, CellFits, TableType
  <2>. QED  BY <1>2, <2>1, ContentStep DEF EndTable
<1>3. CASE StartTable
  <2>1. /\ Opens("table", Flow, Spent) /\ Mends /\ Flush
        /\ cells' = {} /\ UNCHANGED cell
    BY <1>3 DEF StartTable, Opens
  <2>2. "table" \in Tags /\ "table" \notin Fresh /\ Flow \in SUBSET (Flow \union {"list"})
    BY DEF Tags, Fresh
  <2>3. /\ Nested(open') /\ ~InCell /\ ~InCell' /\ Inner # "inline" /\ Inner' = "table"
        /\ KindOf(open') = "none"
    BY <2>1, <2>2, SpendOpens
  <2>4. /\ markup' = <<>> /\ kind' = "none"
        /\ \A m \in shown' : m = markup
        /\ dropped' = IF kind = "none" THEN markup ELSE <<>>
    BY <2>1 DEF Flush, Labels
  <2>5. cell = <<>>
    BY <2>3 DEF CellFits
  <2>6. CellFits'
    BY <2>1, <2>5 DEF CellFits
  <2>7. MarkupFits'
    BY <2>3, <2>4, ClearedFits
  <2>8. Shows'
    <3>1. /\ ~torn' => Balanced(markup)
          /\ OfOneBlock(markup)
          /\ kind = "none" =>
               \A i \in DOMAIN markup : markup[i].tag = "text" => markup[i].of = 0
      BY <2>1, <2>3, GatheredRight DEF PaneType
    <3>. QED  BY <2>4, <3>1 DEF Shows, LabelsBalanced, TextStaysInBlock
  <2>. QED  BY <2>3, <2>4, <2>6, <2>7, <2>8
<1>4. CASE StartCell
  <2>1. /\ Opens("cell", {"table"}, open) /\ Mends /\ Quiet
        /\ cell' = <<>> /\ UNCHANGED cells
    BY <1>4 DEF StartCell, Opens
  <2>2. /\ Nested(open') /\ ~InCell /\ InCell' /\ Inner # "inline" /\ Inner' = "cell"
        /\ kind = "none" /\ KindOf(open') = "none"
    BY <2>1, CellOpens
  <2>3. UNCHANGED kind /\ UNCHANGED markup /\ Shows'
    BY <2>1, SilentShows DEF Quiet
  <2>4. CellFits'
    BY <2>1 DEF CellFits
  <2>5. MarkupFits'
    BY <2>1, <2>2, <2>3, KeptFits
  <2>. QED  BY <2>2, <2>3, <2>4, <2>5
<1>5. CASE EndCell
  <2>1. /\ Closes({"cell"}) /\ Mends /\ Quiet
        /\ cells' = cells \union {cell} /\ cell' = <<>>
    BY <1>5 DEF EndCell, Closes
  <2>2. {"cell"} \in SUBSET Tags /\ "cell" \notin Fresh
    BY DEF Tags, Fresh
  <2>3. /\ Nested(open') /\ Inner = "cell" /\ Inner' # "inline"
        /\ kind = "none" /\ KindOf(open') = "none"
    BY <2>1, <2>2, ElementCloses
  <2>4. UNCHANGED kind /\ UNCHANGED markup /\ Shows'
    BY <2>1, SilentShows DEF Quiet
  <2>5. TextOnly(cell) /\ OfOneBlock(cell)
    BY DEF CellFits, TextOnly, OfOneBlock
  <2>6. CellFits'
    BY <2>1, <2>5 DEF CellFits
  <2>7. MarkupFits'
    BY <2>1, <2>3, <2>4, KeptFits
  <2>. QED  BY <2>3, <2>4, <2>6, <2>7
<1>. QED  BY <1>1, <1>2, <1>3, <1>4, <1>5

\* Text, of a block or raw HTML, and rules.
LEMMA TextSteps ==
  ASSUME ParserType, PaneType, TableType, PaneInv, PlainText \/ HtmlBlock \/ Rule
  PROVE  PaneInv' /\ Shows'
<1>. USE DEF ParserType, PaneInv
<1>1. /\ Text \in Token /\ Text.tag = "text"
      /\ Text.of = IF InBlock THEN block ELSE 0
  BY TokenTypes
<1>2. CASE PlainText
  <2>1. /\ Inner \in Flow \union Inline /\ Mends
        /\ UNCHANGED block /\ UNCHANGED open /\ UNCHANGED cells
        /\ IF InCell THEN cell' = Append(cell, Text) /\ Quiet
                     ELSE Pushes(Text) /\ UNCHANGED cell
    BY <1>2 DEF PlainText, Says
  <2>2. Inner' = Inner /\ (InCell' <=> InCell)
    BY <2>1 DEF Inner, InCell
  <2>3. CASE InCell
    <3>1. cell' = Append(cell, Text) /\ UNCHANGED kind /\ UNCHANGED markup /\ Shows'
      BY <2>1, <2>3, SilentShows DEF Quiet
    <3>2. Text.of = block
      BY <1>1, <2>1, <2>3, TextIs
    <3>3. \A i \in DOMAIN cell' : cell'[i].tag = "text" /\ cell'[i].of = block'
      <4>1. cell \in Seq(Token)
        BY DEF TableType
      <4>2. \A i \in DOMAIN cell' : (i \in DOMAIN cell /\ cell'[i] = cell[i]) \/ cell'[i] = Text
        BY <1>1, <3>1, <4>1, Appended
      <4>. QED  BY <1>1, <2>1, <3>2, <4>2 DEF CellFits
    <3>4. CellFits'
      BY <2>1, <2>2, <2>3, <3>3 DEF CellFits
    <3>5. torn' \/ Unclosed(markup', IF Inner' = "inline" THEN 1 ELSE 0)
      BY <2>1, <2>2, <3>1, Mended DEF Mends
    <3>6. TextFits(markup)'
      BY <2>1, <3>1 DEF MarkupFits, TextFits
    <3>. QED  BY <2>1, <3>1, <3>4, <3>5, <3>6 DEF MarkupFits
  <2>4. CASE ~InCell
    <3>1. Pushes(Text) /\ UNCHANGED tableVars
      BY <2>1, <2>4 DEF tableVars
    <3>2. CellFits'
      BY <2>4, <3>1, TableFits
    <3>3. Text.of = 0 \/ (Text.of = block /\ kind # "none")
      BY <1>1, <2>1, <2>4, TextIs
    <3>. QED  BY <1>1, <2>1, <2>2, <3>1, <3>2, <3>3, PushStep
  <2>. QED  BY <2>3, <2>4
<1>3. CASE HtmlBlock
  <2>1. /\ Inner \in Flow /\ Mends /\ Pushes(Text)
        /\ UNCHANGED block /\ UNCHANGED open /\ UNCHANGED tableVars
    BY <1>3 DEF HtmlBlock, Says
  <2>2. Inner' = Inner /\ (InCell' <=> InCell)
    BY <2>1 DEF Inner, InCell
  <2>3. ~InCell
    <3>1. Inner \in Tags /\ Inner # "cell" /\ Inner # "inline"
      BY <2>1 DEF Flow, Tags, Fresh
    <3>2. ~Has(open, "cell")
      BY <3>1, InnerIs, HoldsTable
    <3>. QED  BY <3>2 DEF InCell, Has
  <2>4. CellFits'
    BY <2>1, <2>3, TableFits
  <2>5. Text.of = 0 \/ (Text.of = block /\ kind # "none")
    BY <1>1, <2>1, <2>3, TextIs
  <2>. QED  BY <1>1, <2>1, <2>2, <2>4, <2>5, PushStep
<1>4. CASE Rule
  <2>1. /\ Inner \in Flow /\ Flush /\ open' = Spent /\ Mends /\ UNCHANGED tableVars
    BY <1>4 DEF Rule
  <2>2. Inner \in Tags /\ Inner # "cell" /\ Inner # "inline"
    BY <2>1 DEF Flow, Tags, Fresh
  <2>3. /\ Nested(open') /\ KindOf(open') = "none" /\ Inner' # "inline"
        /\ (InCell' <=> InCell)
    BY <2>1, <2>2, BlocksSpent
  <2>4. ~InCell
    <3>1. ~Has(open, "cell")
      BY <2>2, InnerIs, HoldsTable
    <3>. QED  BY <3>1 DEF InCell, Has
  <2>. QED  BY <2>1, <2>2, <2>3, <2>4, FlushStep
<1>. QED  BY <1>2, <1>3, <1>4

\* A line of the e820 map shows what was gathered, and tears it if that was
\* within inline text.
LEMMA E820Step ==
  ASSUME ParserType, PaneType, PaneInv, NEW intro \in BOOLEAN, E820Text(intro)
  PROVE  PaneInv' /\ Shows'
<1>. USE DEF ParserType, PaneInv
<1>. DEFINE said == IF intro THEN Append(markup, Text) ELSE markup
<1>1. /\ ~InCell /\ Inner \in Inline
      /\ UNCHANGED block /\ UNCHANGED tableVars
      /\ \A m \in shown' : m \in CodeLines \/ (m = said /\ (intro \/ kind # "none"))
      /\ dropped' = IF intro \/ kind # "none" THEN <<>> ELSE said
      /\ markup' = <<>> /\ kind' = "none" /\ open' = Spent
      /\ torn' = (Inner = "inline" \/ (torn /\ markup # <<>>))
  BY DEF E820Text, Says, Labels
<1>2. /\ Text \in Token /\ Text.tag = "text"
      /\ Text.of = IF InBlock THEN block ELSE 0
      /\ InBlock => kind # "none"
      /\ markup \in Seq(Token)
  BY <1>1, TokenTypes, TextIs DEF PaneType
<1>3. TextFits(said)
  <2>1. CASE intro
    <3>1. \A i \in DOMAIN said : (i \in DOMAIN markup /\ said[i] = markup[i]) \/ said[i] = Text
      BY <1>2, <2>1, Appended
    <3>. HIDE DEF said
    <3>. QED  BY <1>2, <3>1 DEF TextFits, MarkupFits
  <2>2. CASE ~intro
    BY <2>2 DEF MarkupFits
  <2>. QED  BY <2>1, <2>2
<1>4. ASSUME ~torn'
      PROVE  Balanced(said) /\ Inner # "inline"
  <2>1. Inner # "inline" /\ Unclosed(markup, 0)
    BY <1>1, <1>4, Mended
  <2>2. said \in Seq(Token) /\ Unclosed(said, 0)
    BY <1>2, <2>1, Appended, UnclosedAppended
  <2>. QED  BY <2>1, <2>2, BalancedIs
<1>. HIDE DEF said
<1>5. Shows'
  <2>1. OfOneBlock(said)
    BY <1>3, FittingText
  <2>2. kind = "none" => \A i \in DOMAIN said : said[i].tag = "text" => said[i].of = 0
    BY <1>3, FittingText
  <2>. QED  BY <1>1, <1>4, <2>1, <2>2, LinesRight DEF Shows, LabelsBalanced, TextStaysInBlock
<1>6. /\ Nested(open') /\ KindOf(open') = "none"
      /\ Inner' = "inline" <=> Inner = "inline"
  BY <1>1, BlocksSpent
<1>7. MarkupFits'
  <2>1. TextFits(markup)'
    BY <1>1 DEF TextFits
  <2>2. torn' \/ Unclosed(markup', IF Inner' = "inline" THEN 1 ELSE 0)
    BY <1>1, <1>4, <1>6, EmptyBalanced
  <2>. QED  BY <2>1, <2>2 DEF MarkupFits
<1>8. CellFits'
  BY <1>1, TableFits
<1>. QED  BY <1>1, <1>5, <1>6, <1>7, <1>8

LEMMA PaneStep == TypeOK /\ PaneInv /\ Shows /\ [Next]_vars => (PaneInv /\ Shows)'
<1>. SUFFICES ASSUME ParserType, PaneType, TableType, PaneInv, Shows, [Next]_vars
              PROVE  PaneInv' /\ Shows'
  BY TypeParts
<1>1. CASE UNCHANGED vars
  <2>1. /\ open' = open /\ block' = block /\ kind' = kind /\ markup' = markup
        /\ cell' = cell /\ cells' = cells /\ shown' = shown /\ dropped' = dropped
        /\ torn' = torn
    BY <1>1 DEF vars, parserVars, paneVars, tableVars
  <2>2. Inner' = Inner /\ (InCell' <=> InCell)
    BY <2>1 DEF Inner, InCell
  <2>3. MarkupFits' /\ CellFits'
    BY <2>1, <2>2 DEF PaneInv, MarkupFits, TextFits, CellFits
  <2>4. Shows'
    BY <2>1 DEF Shows, LabelsBalanced, TextStaysInBlock
  <2>. QED  BY <2>1, <2>3, <2>4 DEF PaneInv
<1>2. CASE \E intro \in BOOLEAN : E820Text(intro)
  BY <1>2, E820Step
<1>. QED
  BY <1>1, <1>2, SpendingSteps, FlowSteps, ClosingSteps, InlineSteps, TableSteps, TextSteps
  DEF Next

LEMMA PaneHolds == Spec => [](PaneInv /\ Shows)
<1>1. TypeOK /\ PaneInv /\ Shows /\ [Next]_vars => (TypeOK /\ PaneInv /\ Shows)'
  BY PaneStep, TypeStep
<1>. QED  BY <1>1, TypeInit, PaneInit, PTL DEF Spec

(***************************************************************************)
(* LabelsBalanced for documents of any length and nesting, of any number   *)
(* of tables and cells.                                                    *)
(***************************************************************************)
THEOREM LabelsBalancedHolds == Spec => []LabelsBalanced
<1>1. PaneInv /\ Shows => LabelsBalanced
  BY DEF Shows
<1>. QED  BY <1>1, PaneHolds, PTL

(***************************************************************************)
(* TextStaysInBlock for the same documents.                                *)
(***************************************************************************)
THEOREM TextStaysInBlockHolds == Spec => []TextStaysInBlock
<1>1. PaneInv /\ Shows => TextStaysInBlock
  BY DEF Shows
<1>. QED  BY <1>1, PaneHolds, PTL
=============================================================================
