----------------------------- MODULE DimmProofs -----------------------------
(***************************************************************************)
(* From tables of any structures and any length, cut off anywhere, to the  *)
(* flags of a capture.  The inductive invariant has three parts.  WalkInv  *)
(* is the walk's own.  TornInv: what was found is the beginning of the     *)
(* table, and the walk is where a structure or a string of it starts or    *)
(* ends.  ParseInv: behind some line of the text, what was kept is what    *)
(* the devices ended so far have under their headers, and the row in the   *)
(* making is what was printed of the device still open.                    *)
(***************************************************************************)
EXTENDS DimmEvidence, SmbiosProofs, SequenceTheorems

-----------------------------------------------------------------------------
(***************************************************************************)
(* FlattenSeq.  Its recursion is over the prefixes of the sequence; what   *)
(* it computes is proved by looking at the least prefix it would fail for. *)
(***************************************************************************)

\* There are the concatenations of all prefixes.
LEMMA FlattenExists ==
  ASSUME NEW S, NEW q \in Seq(Seq(S))
  PROVE  \E F \in [0..Len(q) -> Seq(S)] :
           /\ F[0] = <<>>
           /\ \A i \in 1..Len(q) : F[i] = F[i - 1] \o q[i]
<1>. DEFINE n == Len(q)
            Good(k) == \E F \in [0..k -> Seq(S)] :
                         /\ F[0] = <<>>
                         /\ \A i \in 1..k : F[i] = F[i - 1] \o q[i]
            Bad == {k \in 0..n : ~Good(k)}
<1>1. n \in Nat /\ \A i \in 1..n : q[i] \in Seq(S)
  BY LenProperties
<1>. HIDE DEF n
<1>2. Good(0)
  <2>. DEFINE F == [i \in 0..0 |-> <<>>]
  <2>1. F \in [0..0 -> Seq(S)] /\ F[0] = <<>> /\ 1..0 = {}
    OBVIOUS
  <2>. QED  BY <2>1
<1>3. ASSUME NEW k \in Nat, k # 0, k <= n, Good(k - 1)
      PROVE  Good(k)
  <2>1. PICK F \in [0..(k - 1) -> Seq(S)] :
          /\ F[0] = <<>>
          /\ \A i \in 1..(k - 1) : F[i] = F[i - 1] \o q[i]
    BY <1>3
  <2>. DEFINE G == [i \in 0..k |-> IF i = k THEN F[k - 1] \o q[k] ELSE F[i]]
  <2>2. F[k - 1] \o q[k] \in Seq(S)
    <3>1. F[k - 1] \in Seq(S) /\ q[k] \in Seq(S)
      BY <1>1, <1>3
    <3>. QED  BY <3>1, ConcatProperties
  <2>3. G \in [0..k -> Seq(S)]
    BY <1>3, <2>2
  <2>4. G[0] = <<>>
    BY <1>3, <2>1
  <2>5. ASSUME NEW i \in 1..k
        PROVE  G[i] = G[i - 1] \o q[i]
    <3>1. /\ i - 1 \in 0..k /\ i - 1 # k /\ i \in 0..k
          /\ i # k => i \in 1..(k - 1)
      BY <1>3, <2>5
    <3>2. G[i - 1] = F[i - 1]
      BY <3>1
    <3>3. G[i] = F[i - 1] \o q[i]
      <4>1. CASE i = k
        <5>1. G[i] = F[k - 1] \o q[k]
          BY <3>1, <4>1
        <5>. QED  BY <4>1, <5>1
      <4>2. CASE i # k
        <5>1. G[i] = F[i]
          BY <3>1, <4>2
        <5>2. F[i] = F[i - 1] \o q[i]
          BY <2>1, <3>1, <4>2
        <5>. QED  BY <5>1, <5>2
      <4>. QED  BY <4>1, <4>2
    <3>. QED  BY <3>2, <3>3
  <2>. QED  BY <2>3, <2>4, <2>5
<1>. HIDE DEF Good
<1>4. Bad = {}
  <2>. SUFFICES ASSUME Bad # {}
                PROVE  FALSE
    OBVIOUS
  <2>1. PICK m \in Bad : \A k \in Bad : m <= k
    <3>1. Bad \in SUBSET Nat
      BY <1>1
    <3>. HIDE DEF Bad
    <3>. QED  BY <3>1, LeastNatural
  <2>2. m # 0 /\ m \in Nat /\ m <= n /\ m - 1 \in 0..n /\ m - 1 \notin Bad
    BY <1>1, <1>2, <2>1
  <2>3. Good(m - 1)
    BY <2>2
  <2>. QED  BY <1>3, <2>1, <2>2, <2>3
<1>5. Good(n)
  BY <1>1, <1>4
<1>. QED  BY <1>5 DEF Good, n

\* FlattenSeq is the last of them.
LEMMA FlattenIs ==
  ASSUME NEW S, NEW q \in Seq(Seq(S)), NEW F \in [0..Len(q) -> Seq(S)],
         F[0] = <<>>,
         \A i \in 1..Len(q) : F[i] = F[i - 1] \o q[i]
  PROVE  FlattenSeq(q) = F[Len(q)]
<1>1. Len(q) \in Nat /\ \A i \in 1..Len(q) : q[i] \in Seq(S)
  BY LenProperties
<1>2. CASE Len(q) = 0
  <2>1. q = <<>>
    BY <1>2, EmptySeq
  <2>. QED  BY <1>2, <2>1 DEF FlattenSeq
<1>3. CASE Len(q) # 0
  <2>. DEFINE Rec(f) == f = [i \in 1..Len(q) |->
                               IF i = 1 THEN q[i] ELSE f[i - 1] \o q[i]]
              H == CHOOSE f : f = [i \in 1..Len(q) |->
                                     IF i = 1 THEN q[i] ELSE f[i - 1] \o q[i]]
              G == [i \in 1..Len(q) |-> F[i]]
              Bad == {i \in 1..Len(q) : H[i] # F[i]}
  <2>1. F[1] = q[1]
    <3>1. 1 \in 1..Len(q) /\ 1 - 1 = 0
      BY <1>1, <1>3
    <3>2. F[1] = F[1 - 1] \o q[1] /\ q[1] \in Seq(S)
      BY <1>1, <3>1
    <3>. QED  BY <3>1, <3>2, ConcatEmptySeq
  <2>2. Rec(G)
    <3>. SUFFICES ASSUME NEW i \in 1..Len(q)
                  PROVE  G[i] = IF i = 1 THEN q[i] ELSE G[i - 1] \o q[i]
      OBVIOUS
    <3>1. CASE i = 1
      BY <2>1, <3>1
    <3>2. CASE i # 1
      <4>1. i - 1 \in 1..Len(q)
        BY <1>1, <3>2
      <4>2. G[i] = F[i] /\ G[i - 1] = F[i - 1]
        BY <4>1
      <4>. QED  BY <3>2, <4>2
    <3>. QED  BY <3>1, <3>2
  <2>3. Rec(H)
    <3>1. \E f : Rec(f)
      BY <2>2
    <3>. QED  BY <3>1, Zenon
  <2>4. FlattenSeq(q) = H[Len(q)]
    BY <1>3, Zenon DEF FlattenSeq
  <2>. HIDE DEF H
  <2>5. \A i \in 1..Len(q) : H[i] = IF i = 1 THEN q[i] ELSE H[i - 1] \o q[i]
    BY <2>3
  <2>6. Bad = {}
    <3>. SUFFICES ASSUME Bad # {}
                  PROVE  FALSE
      OBVIOUS
    <3>1. PICK m \in Bad : \A k \in Bad : m <= k
      <4>1. Bad \in SUBSET Nat
        BY <1>1
      <4>. HIDE DEF Bad
      <4>. QED  BY <4>1, LeastNatural
    <3>2. m \in 1..Len(q) /\ H[m] # F[m]
      OBVIOUS
    <3>3. m # 1
      BY <2>1, <2>5, <3>2
    <3>4. m - 1 \in 1..Len(q) /\ ~(m <= m - 1)
      BY <1>1, <3>2, <3>3
    <3>5. H[m - 1] = F[m - 1]
      BY <3>1, <3>4
    <3>6. F[m] = F[m - 1] \o q[m] /\ H[m] = H[m - 1] \o q[m]
      BY <2>5, <3>2, <3>3
    <3>. QED  BY <3>2, <3>5, <3>6
  <2>7. Len(q) \in 1..Len(q)
    BY <1>1, <1>3
  <2>. QED  BY <2>4, <2>6, <2>7
<1>. QED  BY <1>2, <1>3

\* The concatenation of a prefix is the one of a prefix shorter by one, and one more.
LEMMA FlattenStep ==
  ASSUME NEW S, NEW q \in Seq(Seq(S))
  PROVE  /\ FlattenSeq(SubSeq(q, 1, 0)) = <<>>
         /\ \A k \in 0..Len(q) : FlattenSeq(SubSeq(q, 1, k)) \in Seq(S)
         /\ \A k \in 1..Len(q) :
              FlattenSeq(SubSeq(q, 1, k)) = FlattenSeq(SubSeq(q, 1, k - 1)) \o q[k]
         /\ FlattenSeq(SubSeq(q, 1, Len(q))) = FlattenSeq(q)
<1>. DEFINE n == Len(q)
<1>1. n \in Nat /\ \A i \in 1..n : q[i] \in Seq(S)
  BY LenProperties
<1>2. PICK F \in [0..n -> Seq(S)] :
        /\ F[0] = <<>>
        /\ \A i \in 1..n : F[i] = F[i - 1] \o q[i]
  BY FlattenExists
<1>3. ASSUME NEW k \in 0..n
      PROVE  FlattenSeq(SubSeq(q, 1, k)) = F[k]
  <2>. DEFINE p == SubSeq(q, 1, k)
              G == [i \in 0..k |-> F[i]]
  <2>1. /\ p \in Seq(Seq(S)) /\ Len(p) = k
        /\ \A i \in 1..k : p[i] = q[i]
    BY <1>1, <1>3
  <2>2. G \in [0..Len(p) -> Seq(S)] /\ G[0] = <<>>
    <3>1. /\ 0 \in 0..k /\ Len(p) = k
          /\ \A i \in 0..k : i \in 0..n
      BY <1>1, <1>3, <2>1
    <3>2. \A i \in 0..k : F[i] \in Seq(S)
      BY <1>2, <3>1
    <3>. HIDE DEF p, n
    <3>3. G \in [0..k -> Seq(S)] /\ G[0] = F[0]
      BY <3>1, <3>2
    <3>. QED  BY <1>2, <3>1, <3>3
  <2>3. \A i \in 1..Len(p) : G[i] = G[i - 1] \o p[i]
    <3>. SUFFICES ASSUME NEW i \in 1..k
                  PROVE  G[i] = G[i - 1] \o p[i]
      BY <2>1
    <3>1. i \in 0..k /\ i - 1 \in 0..k /\ i \in 1..n
      BY <1>1, <1>3
    <3>. QED  BY <1>2, <2>1, <3>1
  <2>4. FlattenSeq(p) = G[Len(p)]
    <3>. HIDE DEF p, G
    <3>. QED  BY <2>1, <2>2, <2>3, FlattenIs
  <2>. QED  BY <1>3, <2>1, <2>4
<1>4. \A k \in 1..n : k \in 0..n /\ k - 1 \in 0..n
  BY <1>1
<1>5. SubSeq(q, 1, n) = q
  BY <1>1
<1>6. 0 \in 0..n
  BY <1>1
<1>. QED  BY <1>2, <1>3, <1>4, <1>5, <1>6

\* Where the concatenation of the first k ends.
Ends(q, k) == Len(FlattenSeq(SubSeq(q, 1, k)))

\* Each element lies behind the ones before it.
LEMMA FlattenLayout ==
  ASSUME NEW S, NEW q \in Seq(Seq(S))
  PROVE  /\ FlattenSeq(q) \in Seq(S)
         /\ \A k \in 0..Len(q) : Ends(q, k) \in Nat
         /\ Ends(q, 0) = 0
         /\ \A k \in 1..Len(q) : Ends(q, k) = Ends(q, k - 1) + Len(q[k])
         /\ Ends(q, Len(q)) = Len(FlattenSeq(q))
         /\ \A k \in 0..Len(q) : \A j \in 0..k : Ends(q, j) <= Ends(q, k)
         /\ \A k \in 1..Len(q) : \A i \in 1..Len(q[k]) :
              FlattenSeq(q)[Ends(q, k - 1) + i] = q[k][i]
<1>. DEFINE n == Len(q)
<1>1. n \in Nat /\ \A i \in 1..n : q[i] \in Seq(S)
  BY LenProperties
<1>. DEFINE F == [k \in 0..n |-> FlattenSeq(SubSeq(q, 1, k))]
<1>2. /\ F \in [0..n -> Seq(S)] /\ F[0] = <<>> /\ F[n] = FlattenSeq(q)
      /\ \A i \in 1..n : F[i] = F[i - 1] \o q[i]
  <2>1. /\ FlattenSeq(SubSeq(q, 1, 0)) = <<>>
        /\ \A k \in 0..n : FlattenSeq(SubSeq(q, 1, k)) \in Seq(S)
        /\ \A k \in 1..n :
             FlattenSeq(SubSeq(q, 1, k)) = FlattenSeq(SubSeq(q, 1, k - 1)) \o q[k]
        /\ FlattenSeq(SubSeq(q, 1, n)) = FlattenSeq(q)
    BY FlattenStep
  <2>2. /\ 0 \in 0..n /\ n \in 0..n
        /\ \A i \in 1..n : i \in 0..n /\ i - 1 \in 0..n
    BY <1>1
  <2>. HIDE DEF n
  <2>. QED  BY <2>1, <2>2
<1>3. \A k \in 0..n : FlattenSeq(SubSeq(q, 1, k)) = F[k]
  OBVIOUS
<1>. HIDE DEF F
<1>4. FlattenSeq(q) = F[n]
  BY <1>2
<1>5. \A k \in 0..n : Ends(q, k) = Len(F[k]) /\ F[k] \in Seq(S)
  BY <1>2, <1>3 DEF Ends
<1>. HIDE DEF n
<1>6. \A k \in 0..n : Ends(q, k) \in Nat
  BY <1>5, LenProperties
<1>7. ASSUME NEW k \in 1..n
      PROVE  Ends(q, k) = Ends(q, k - 1) + Len(q[k])
  <2>1. k - 1 \in 0..n /\ k \in 0..n
    BY <1>1, <1>7
  <2>2. F[k] = F[k - 1] \o q[k]
    BY <1>2, <1>7
  <2>3. F[k - 1] \in Seq(S) /\ q[k] \in Seq(S)
    BY <1>1, <1>2, <1>7, <2>1
  <2>4. Len(F[k]) = Len(F[k - 1]) + Len(q[k])
    BY <2>2, <2>3, ConcatProperties
  <2>. QED  BY <1>5, <2>1, <2>4
\* Nothing is changed by what comes later.
<1>8. ASSUME NEW j \in 0..n, NEW k \in 0..n, j <= k
      PROVE  /\ Ends(q, j) <= Ends(q, k)
             /\ \A i \in 1..Ends(q, j) : F[k][i] = F[j][i]
  <2>. DEFINE Same(m) == /\ Ends(q, j) <= Ends(q, m)
                         /\ \A i \in 1..Ends(q, j) : F[m][i] = F[j][i]
              Bad == {m \in j..n : ~Same(m)}
  <2>1. ASSUME NEW m \in 0..n, m # 0, j <= m - 1, Same(m - 1)
        PROVE  Same(m)
    <3>1. m \in 1..n /\ m - 1 \in 0..n
      BY <1>1, <2>1
    <3>2. /\ F[m] = F[m - 1] \o q[m] /\ F[m - 1] \in Seq(S) /\ q[m] \in Seq(S)
          /\ Ends(q, m - 1) = Len(F[m - 1])
      BY <1>1, <1>2, <1>5, <3>1
    <3>3. /\ Len(F[m - 1]) \in Nat /\ Len(q[m]) \in Nat
          /\ \A i \in 1..Len(F[m - 1]) : F[m][i] = F[m - 1][i]
          /\ Ends(q, m) = Ends(q, m - 1) + Len(q[m])
      <4>. DEFINE a == F[m - 1]
                  b == q[m]
      <4>1. a \in Seq(S) /\ b \in Seq(S) /\ F[m] = a \o b
        BY <3>2
      <4>2. Ends(q, m) = Ends(q, m - 1) + Len(q[m])
        BY <1>7, <3>1
      <4>. HIDE DEF a, b
      <4>3. /\ Len(a) \in Nat /\ Len(b) \in Nat
            /\ \A i \in 1..Len(a) : (a \o b)[i] = a[i]
        BY <4>1
      <4>. QED  BY <4>1, <4>2, <4>3 DEF a, b
    <3>4. Ends(q, j) \in Nat /\ Ends(q, m - 1) \in Nat
      BY <1>6, <3>1
    <3>5. Ends(q, j) <= Ends(q, m - 1) /\ Ends(q, j) <= Ends(q, m)
      BY <2>1, <3>3, <3>4
    <3>6. \A i \in 1..Ends(q, j) : i \in 1..Len(F[m - 1])
      BY <3>2, <3>4, <3>5
    <3>7. \A i \in 1..Ends(q, j) : F[m][i] = F[j][i]
      BY <2>1, <3>3, <3>6
    <3>. QED  BY <3>5, <3>7
  <2>. HIDE DEF Same
  <2>2. Same(j)
    BY <1>6 DEF Same
  <2>3. Bad = {}
    <3>. SUFFICES ASSUME Bad # {}
                  PROVE  FALSE
      OBVIOUS
    <3>1. PICK m \in Bad : \A i \in Bad : m <= i
      <4>1. Bad \in SUBSET Nat
        BY <1>1
      <4>. HIDE DEF Bad
      <4>. QED  BY <4>1, LeastNatural
    <3>2. m # j
      BY <2>2
    <3>3. m \in 0..n /\ m # 0 /\ j <= m - 1 /\ m - 1 \in j..n /\ m - 1 \notin Bad
      BY <1>1, <3>1, <3>2
    <3>4. Same(m - 1)
      BY <3>3
    <3>. QED  BY <2>1, <3>1, <3>3, <3>4
  <2>4. k \in j..n
    BY <1>1, <1>8
  <2>5. Same(k)
    BY <2>3, <2>4
  <2>. QED  BY <2>5 DEF Same
<1>9. ASSUME NEW k \in 1..n, NEW i \in 1..Len(q[k])
      PROVE  FlattenSeq(q)[Ends(q, k - 1) + i] = q[k][i]
  <2>1. k \in 0..n /\ k - 1 \in 0..n /\ n \in 0..n /\ k <= n
    BY <1>1
  <2>2. /\ F[k] = F[k - 1] \o q[k] /\ F[k - 1] \in Seq(S) /\ q[k] \in Seq(S)
        /\ Ends(q, k - 1) = Len(F[k - 1])
        /\ Ends(q, k) = Ends(q, k - 1) + Len(q[k])
    BY <1>1, <1>2, <1>5, <1>7, <2>1
  <2>3. F[k][Ends(q, k - 1) + i] = q[k][i]
    <3>. DEFINE a == F[k - 1]
                b == q[k]
    <3>1. a \in Seq(S) /\ b \in Seq(S) /\ i \in 1..Len(b)
      BY <2>2
    <3>. HIDE DEF a, b
    <3>2. (a \o b)[Len(a) + i] = b[i]
      BY <3>1
    <3>. QED  BY <2>2, <3>2 DEF a, b
  <2>4. Ends(q, k - 1) + i \in 1..Ends(q, k)
    BY <2>2
  <2>5. F[n][Ends(q, k - 1) + i] = F[k][Ends(q, k - 1) + i]
    BY <1>8, <2>1, <2>4
  <2>. QED  BY <1>4, <2>3, <2>5
<1>10. Ends(q, 0) = 0
  <2>1. 0 \in 0..n
    BY <1>1
  <2>. QED  BY <1>2, <1>5, <2>1
<1>11. FlattenSeq(q) \in Seq(S) /\ Ends(q, n) = Len(FlattenSeq(q))
  BY <1>1, <1>4, <1>5
<1>12. \A k \in 0..n : \A j \in 0..k : Ends(q, j) <= Ends(q, k)
  BY <1>1, <1>8
<1>. QED
  BY <1>6, <1>7, <1>9, <1>10, <1>11, <1>12 DEF n

-----------------------------------------------------------------------------
(***************************************************************************)
(* The bytes of a structure: header, body, strings with their terminators, *)
(* a terminator of the set.                                                *)
(***************************************************************************)

Zeroed(s) == [i \in DOMAIN s.strings |-> s.strings[i] \o <<0>>]

\* The strings of the set, each with its terminator.
StringBytes(s) == FlattenSeq(Zeroed(s))

\* Where string j ends in the string set, its terminator included.
SetEnd(s, j) == Ends(Zeroed(s), j)

\* The formatted area; the whole string set.
Formatted(s) == 4 + Len(s.body)
SetLen(s)    == IF s.strings = <<>> THEN 2 ELSE SetEnd(s, Len(s.strings)) + 1

\* The parts of a structure as firmware builds it.
LEMMA StructureParts ==
  ASSUME NEW s \in FirmwareStructure
  PROVE  /\ s.typ \in Byte
         /\ s.body \in Seq(Byte) /\ Len(s.body) \in Nat
         /\ s.strings \in Seq(Seq(1..255)) /\ Len(s.strings) \in Nat
         /\ DOMAIN s.strings = 1..Len(s.strings)
         /\ \A j \in 1..Len(s.strings) :
              /\ s.strings[j] \in Seq(1..255) /\ s.strings[j] # <<>>
              /\ Len(s.strings[j]) \in Nat \ {0}
              /\ \A i \in 1..Len(s.strings[j]) : s.strings[j][i] \in 1..255
<1>1. /\ s.typ \in Byte
      /\ s.body \in Seq(Byte)
      /\ s.strings \in Seq(Seq(TextByte) \ {<<>>})
  BY DEF FirmwareStructure
<1>0. Seq(TextByte) \subseteq Seq(1..255)
  <2>. DEFINE Nonzero == 1..255
  <2>1. TextByte \subseteq Nonzero
    BY DEF TextByte
  <2>. HIDE DEF Nonzero
  <2>2. Seq(TextByte) \subseteq Seq(Nonzero)
    BY <2>1
  <2>. QED  BY <2>2 DEF Nonzero
<1>2. Len(s.body) \in Nat
  BY <1>1, LenProperties
<1>3. s.strings \in Seq(Seq(1..255))
  <2>1. (Seq(TextByte) \ {<<>>}) \subseteq Seq(1..255)
    BY <1>0
  <2>. QED  BY <1>1, <2>1, SeqMonotonic
<1>4. Len(s.strings) \in Nat /\ DOMAIN s.strings = 1..Len(s.strings)
  BY <1>3, LenProperties
<1>5. ASSUME NEW j \in 1..Len(s.strings)
      PROVE  /\ s.strings[j] \in Seq(1..255) /\ s.strings[j] # <<>>
             /\ Len(s.strings[j]) \in Nat \ {0}
             /\ \A i \in 1..Len(s.strings[j]) : s.strings[j][i] \in 1..255
  <2>1. s.strings[j] \in Seq(1..255) \ {<<>>}
    <3>1. s.strings[j] \in Seq(TextByte) \ {<<>>}
      BY <1>1, ElementOfSeq
    <3>. QED  BY <1>0, <3>1
  <2>2. Len(s.strings[j]) \in Nat \ {0}
    BY <2>1, EmptySeq
  <2>. QED  BY <2>1, <2>2, ElementOfSeq
<1>. QED  BY <1>1, <1>2, <1>3, <1>4, <1>5

\* The strings of the set.
LEMMA SetLayout ==
  ASSUME NEW s \in FirmwareStructure
  PROVE  /\ StringBytes(s) \in Seq(Byte)
         /\ Len(StringBytes(s)) = SetEnd(s, Len(s.strings))
         /\ SetEnd(s, 0) = 0
         /\ \A j \in 0..Len(s.strings) :
              /\ SetEnd(s, j) \in Nat
              /\ SetEnd(s, j) <= SetEnd(s, Len(s.strings))
              /\ \A i \in 0..j : SetEnd(s, i) <= SetEnd(s, j)
         /\ \A j \in 1..Len(s.strings) :
              /\ SetEnd(s, j) = SetEnd(s, j - 1) + Len(s.strings[j]) + 1
              /\ \A i \in 1..Len(s.strings[j]) :
                   StringBytes(s)[SetEnd(s, j - 1) + i] = s.strings[j][i]
              /\ StringBytes(s)[SetEnd(s, j)] = 0
<1>. DEFINE n == Len(s.strings)
            z == Zeroed(s)
<1>1. /\ n \in Nat /\ DOMAIN s.strings = 1..n
      /\ \A j \in 1..n : s.strings[j] \in Seq(1..255) /\ Len(s.strings[j]) \in Nat
  <2>1. \A j \in 1..n : Len(s.strings[j]) \in Nat \ {0}
    BY StructureParts, Zenon
  <2>2. \A j \in 1..n : Len(s.strings[j]) \in Nat
    BY <2>1
  <2>. QED  BY <2>2, StructureParts, Zenon
<1>2. ASSUME NEW j \in 1..n
      PROVE  /\ z[j] \in Seq(Byte) /\ Len(z[j]) = Len(s.strings[j]) + 1
             /\ \A i \in 1..Len(s.strings[j]) : z[j][i] = s.strings[j][i]
             /\ z[j][Len(s.strings[j]) + 1] = 0
  <2>. DEFINE a == s.strings[j]
  <2>1. z[j] = a \o <<0>>
    BY <1>1 DEF Zeroed
  <2>2. 1..255 \subseteq Byte /\ 0 \in Byte
    BY DEF Byte
  <2>3. a \in Seq(Byte)
    BY <1>1, <2>2, SeqMonotonic
  <2>. HIDE DEF a
  <2>4. <<0>> \in Seq(Byte) /\ Len(<<0>>) = 1 /\ <<0>>[1] = 0 /\ Len(a) \in Nat
    BY <2>2, <2>3
  <2>5. /\ a \o <<0>> \in Seq(Byte)
        /\ Len(a \o <<0>>) = Len(a) + 1
        /\ \A i \in 1..(Len(a) + 1) :
             (a \o <<0>>)[i] = IF i <= Len(a) THEN a[i] ELSE <<0>>[i - Len(a)]
    BY <2>3, <2>4, ConcatProperties
  <2>6. (a \o <<0>>)[Len(a) + 1] = 0
    BY <2>4, <2>5
  <2>7. \A i \in 1..Len(a) : (a \o <<0>>)[i] = a[i]
    BY <2>4, <2>5
  <2>. QED  BY <2>1, <2>5, <2>6, <2>7 DEF a
<1>3. z \in Seq(Seq(Byte)) /\ Len(z) = n
  <2>1. z = [j \in 1..n |-> s.strings[j] \o <<0>>]
    BY <1>1 DEF Zeroed
  <2>2. \A j \in 1..n : s.strings[j] \o <<0>> \in Seq(Byte)
    BY <1>2, <2>1
  <2>3. z \in [1..n -> Seq(Byte)] /\ n \in Nat
    BY <1>1, <2>1, <2>2
  <2>. HIDE DEF z, n
  <2>. QED  BY <2>3
<1>. HIDE DEF z, n
<1>4. /\ FlattenSeq(z) \in Seq(Byte)
      /\ \A k \in 0..n : Ends(z, k) \in Nat
      /\ Ends(z, 0) = 0
      /\ \A k \in 1..n : Ends(z, k) = Ends(z, k - 1) + Len(z[k])
      /\ Ends(z, n) = Len(FlattenSeq(z))
      /\ \A k \in 0..n : \A j \in 0..k : Ends(z, j) <= Ends(z, k)
      /\ \A k \in 1..n : \A i \in 1..Len(z[k]) :
           FlattenSeq(z)[Ends(z, k - 1) + i] = z[k][i]
  BY <1>3, FlattenLayout
<1>5. \A j : SetEnd(s, j) = Ends(z, j)
  BY DEF SetEnd, z
<1>6. ASSUME NEW j \in 0..n
      PROVE  /\ SetEnd(s, j) \in Nat
             /\ SetEnd(s, j) <= SetEnd(s, n)
             /\ \A i \in 0..j : SetEnd(s, i) <= SetEnd(s, j)
  <2>0. n \in Nat
    BY <1>1
  <2>1. n \in 0..n /\ j \in 0..n
    BY <1>6, <2>0
  <2>. QED  BY <1>4, <1>5, <2>1
<1>7. ASSUME NEW j \in 1..n
      PROVE  /\ SetEnd(s, j) = SetEnd(s, j - 1) + Len(s.strings[j]) + 1
             /\ \A i \in 1..Len(s.strings[j]) :
                  FlattenSeq(z)[SetEnd(s, j - 1) + i] = s.strings[j][i]
             /\ FlattenSeq(z)[SetEnd(s, j)] = 0
  <2>1. j - 1 \in 0..n /\ Len(s.strings[j]) \in Nat
    BY <1>1, <1>7 DEF n
  <2>2. SetEnd(s, j) = SetEnd(s, j - 1) + Len(s.strings[j]) + 1
    <3>1. SetEnd(s, j - 1) \in Nat
      BY <1>6, <2>1
    <3>. QED  BY <1>2, <1>4, <1>5, <2>1, <3>1 DEF n
  <2>3. ASSUME NEW i \in 1..Len(s.strings[j])
        PROVE  FlattenSeq(z)[SetEnd(s, j - 1) + i] = s.strings[j][i]
    <3>1. i \in 1..Len(z[j]) /\ z[j][i] = s.strings[j][i]
      BY <1>2, <2>1, <2>3 DEF n
    <3>. QED  BY <1>4, <1>5, <3>1
  <2>4. FlattenSeq(z)[SetEnd(s, j)] = 0
    <3>1. /\ Len(s.strings[j]) + 1 \in 1..Len(z[j])
          /\ z[j][Len(s.strings[j]) + 1] = 0
      BY <1>2, <2>1 DEF n
    <3>2. FlattenSeq(z)[Ends(z, j - 1) + (Len(s.strings[j]) + 1)] = 0
      BY <1>4, <3>1
    <3>3. SetEnd(s, j - 1) \in Nat
      BY <1>6, <2>1
    <3>4. SetEnd(s, j) = Ends(z, j - 1) + (Len(s.strings[j]) + 1)
      BY <1>5, <2>1, <2>2, <3>3
    <3>. QED  BY <3>2, <3>4
  <2>. QED  BY <2>2, <2>3, <2>4
<1>8. SetEnd(s, 0) = 0 /\ Len(FlattenSeq(z)) = SetEnd(s, n)
  BY <1>4, <1>5
<1>. QED  BY <1>4, <1>6, <1>7, <1>8 DEF n, z, StringBytes

\* w is a, b, c and d, one after the other.
Parts(S, w, a, b, c, d) ==
  /\ w \in Seq(S)
  /\ Len(a) \in Nat /\ Len(b) \in Nat /\ Len(c) \in Nat /\ Len(d) \in Nat
  /\ Len(w) = Len(a) + Len(b) + Len(c) + Len(d)
  /\ \A i \in 1..Len(a) : w[i] = a[i]
  /\ \A i \in 1..Len(b) : w[Len(a) + i] = b[i]
  /\ \A i \in 1..Len(c) : w[Len(a) + Len(b) + i] = c[i]
  /\ \A i \in 1..Len(d) : w[Len(a) + Len(b) + Len(c) + i] = d[i]

\* Four sequences one after the other.
LEMMA FourParts ==
  ASSUME NEW S, NEW a \in Seq(S), NEW b \in Seq(S), NEW c \in Seq(S), NEW d \in Seq(S)
  PROVE  Parts(S, a \o b \o c \o d, a, b, c, d)
<1>0. ASSUME NEW u \in Seq(S), NEW v \in Seq(S)
      PROVE  /\ u \o v \in Seq(S)
             /\ Len(u) \in Nat /\ Len(v) \in Nat
             /\ Len(u \o v) = Len(u) + Len(v)
             /\ \A i \in 1..Len(u) : (u \o v)[i] = u[i]
             /\ \A i \in 1..Len(v) : (u \o v)[Len(u) + i] = v[i]
  OBVIOUS
<1>. DEFINE ab == a \o b
            abc == ab \o c
            abcd == abc \o d
<1>1. /\ ab \in Seq(S) /\ Len(a) \in Nat /\ Len(b) \in Nat
      /\ Len(ab) = Len(a) + Len(b)
      /\ \A i \in 1..Len(a) : ab[i] = a[i]
      /\ \A i \in 1..Len(b) : ab[Len(a) + i] = b[i]
  BY <1>0
<1>. HIDE DEF ab
<1>2. /\ abc \in Seq(S) /\ Len(c) \in Nat /\ Len(ab) \in Nat
      /\ Len(abc) = Len(ab) + Len(c)
      /\ \A i \in 1..Len(ab) : abc[i] = ab[i]
      /\ \A i \in 1..Len(c) : abc[Len(ab) + i] = c[i]
  BY <1>0, <1>1
<1>. HIDE DEF abc
<1>3. /\ abcd \in Seq(S) /\ Len(d) \in Nat /\ Len(abc) \in Nat
      /\ Len(abcd) = Len(abc) + Len(d)
      /\ \A i \in 1..Len(abc) : abcd[i] = abc[i]
      /\ \A i \in 1..Len(d) : abcd[Len(abc) + i] = d[i]
  BY <1>0, <1>2
<1>. HIDE DEF abcd
<1>4. Len(abcd) = Len(a) + Len(b) + Len(c) + Len(d)
  BY <1>1, <1>2, <1>3
<1>5. \A i \in 1..Len(a) : abcd[i] = a[i]
  BY <1>1, <1>2, <1>3
<1>6. ASSUME NEW i \in 1..Len(b)
      PROVE  abcd[Len(a) + i] = b[i]
  <2>1. Len(a) + i \in 1..Len(ab) /\ Len(a) + i \in 1..Len(abc)
    BY <1>1, <1>2
  <2>. QED  BY <1>1, <1>2, <1>3, <2>1
<1>7. ASSUME NEW i \in 1..Len(c)
      PROVE  abcd[Len(a) + Len(b) + i] = c[i]
  <2>1. Len(ab) + i \in 1..Len(abc)
    BY <1>1, <1>2
  <2>2. abcd[Len(ab) + i] = c[i]
    BY <1>2, <1>3, <2>1
  <2>. QED  BY <1>1, <2>2
<1>8. ASSUME NEW i \in 1..Len(d)
      PROVE  abcd[Len(a) + Len(b) + Len(c) + i] = d[i]
  <2>1. Len(abc) = Len(a) + Len(b) + Len(c)
    BY <1>1, <1>2
  <2>. QED  BY <1>3, <2>1
<1>. QED  BY <1>1, <1>2, <1>3, <1>4, <1>5, <1>6, <1>7, <1>8 DEF Parts, ab, abc, abcd

\* A structure's bytes.
LEMMA EncodeLayout ==
  ASSUME NEW s \in FirmwareStructure, Formatted(s) \in Byte
  PROVE  /\ Encode(s) \in Seq(Byte)
         /\ Len(Encode(s)) = Formatted(s) + SetLen(s)
         /\ Formatted(s) \in Nat /\ Formatted(s) >= 4
         /\ SetLen(s) \in Nat /\ SetLen(s) >= 2
         /\ Encode(s)[1] = s.typ /\ Encode(s)[2] = Formatted(s)
         /\ \A i \in 1..Len(s.body) : Encode(s)[4 + i] = s.body[i]
         /\ \A j \in 1..Len(s.strings) :
              /\ \A i \in 1..Len(s.strings[j]) :
                   Encode(s)[Formatted(s) + SetEnd(s, j - 1) + i] = s.strings[j][i]
              /\ Encode(s)[Formatted(s) + SetEnd(s, j)] = 0
         /\ s.strings = <<>> => Encode(s)[Formatted(s) + 1] = 0
         /\ Encode(s)[Formatted(s) + SetLen(s)] = 0
<1>. DEFINE h == Formatted(s)
            n == Len(s.strings)
            head == <<s.typ, h, 0, 0>>
            set == IF s.strings = <<>> THEN <<0>> ELSE StringBytes(s)
            end == <<0>>
            e == Encode(s)
<1>1. /\ s.typ \in Byte /\ s.body \in Seq(Byte) /\ Len(s.body) \in Nat
      /\ n \in Nat /\ \A j \in 1..n : Len(s.strings[j]) \in Nat \ {0}
      /\ s.strings = <<>> <=> n = 0
  <2>1. s.strings = <<>> <=> n = 0
    BY StructureParts, EmptySeq
  <2>2. s.typ \in Byte /\ s.body \in Seq(Byte) /\ Len(s.body) \in Nat /\ n \in Nat
    BY StructureParts
  <2>3. \A j \in 1..n : Len(s.strings[j]) \in Nat \ {0}
    BY StructureParts
  <2>. HIDE DEF n
  <2>. QED  BY <2>1, <2>2, <2>3
<1>2. /\ StringBytes(s) \in Seq(Byte) /\ Len(StringBytes(s)) = SetEnd(s, n)
      /\ SetEnd(s, 0) = 0
      /\ \A j \in 0..n : SetEnd(s, j) \in Nat /\ SetEnd(s, j) <= SetEnd(s, n)
      /\ \A j \in 1..n : SetEnd(s, j) = SetEnd(s, j - 1) + Len(s.strings[j]) + 1
      /\ \A j \in 1..n : \A i \in 1..Len(s.strings[j]) :
           StringBytes(s)[SetEnd(s, j - 1) + i] = s.strings[j][i]
      /\ \A j \in 1..n : StringBytes(s)[SetEnd(s, j)] = 0
  BY SetLayout
<1>3. /\ 0 \in Byte /\ h \in Byte /\ h \in Nat /\ h = 4 + Len(s.body)
  BY <1>1 DEF Byte, Formatted
<1>4. /\ head \in Seq(Byte) /\ Len(head) = 4 /\ head[1] = s.typ /\ head[2] = h
  <2>. HIDE DEF h
  <2>. QED  BY <1>1, <1>3
<1>5. /\ end \in Seq(Byte) /\ Len(end) = 1 /\ end[1] = 0
  BY <1>3
<1>6. /\ set \in Seq(Byte)
      /\ s.strings = <<>> => Len(set) = 1 /\ set[1] = 0
      /\ s.strings # <<>> => set = StringBytes(s) /\ Len(set) = SetEnd(s, n)
  BY <1>2, <1>5
<1>7. e = head \o s.body \o set \o end
  BY DEF Encode, StringBytes, Zeroed, Formatted
<1>. HIDE DEF h, n, head, set, end, e
<1>8. /\ e \in Seq(Byte)
      /\ Len(e) = 4 + Len(s.body) + Len(set) + 1 /\ Len(set) \in Nat
      /\ \A i \in 1..4 : e[i] = head[i]
      /\ \A i \in 1..Len(s.body) : e[4 + i] = s.body[i]
      /\ \A i \in 1..Len(set) : e[4 + Len(s.body) + i] = set[i]
      /\ e[4 + Len(s.body) + Len(set) + 1] = 0
  <2>1. /\ e \in Seq(Byte)
        /\ Len(set) \in Nat
        /\ Len(e) = Len(head) + Len(s.body) + Len(set) + Len(end)
        /\ \A i \in 1..Len(head) : e[i] = head[i]
        /\ \A i \in 1..Len(s.body) : e[Len(head) + i] = s.body[i]
        /\ \A i \in 1..Len(set) : e[Len(head) + Len(s.body) + i] = set[i]
        /\ \A i \in 1..Len(end) : e[Len(head) + Len(s.body) + Len(set) + i] = end[i]
    <3>1. Parts(Byte, head \o s.body \o set \o end, head, s.body, set, end)
      BY <1>1, <1>4, <1>5, <1>6, FourParts, Zenon
    <3>. QED  BY <1>7, <3>1 DEF Parts
  <2>2. 1 \in 1..Len(end)
    BY <1>5
  <2>. QED  BY <1>4, <1>5, <2>1, <2>2
<1>9. SetLen(s) = Len(set) + 1 /\ SetLen(s) \in Nat /\ SetLen(s) >= 2
  <2>1. CASE s.strings = <<>>
    <3>1. SetLen(s) = 2 /\ Len(set) = 1
      BY <1>6, <2>1 DEF SetLen
    <3>. QED  BY <3>1
  <2>2. CASE s.strings # <<>>
    <3>1. 1 \in 1..n /\ 0 \in 0..n /\ 1 - 1 = 0 /\ n \in 0..n /\ 1 \in 0..n
      BY <1>1, <2>2
    <3>2. SetEnd(s, 1) = SetEnd(s, 1 - 1) + Len(s.strings[1]) + 1 /\ SetEnd(s, 1) <= SetEnd(s, n)
          /\ SetEnd(s, 1) \in Nat /\ SetEnd(s, n) \in Nat
      BY <1>2, <3>1
    <3>3. SetEnd(s, n) >= 1
      BY <1>1, <1>2, <3>1, <3>2
    <3>. QED  BY <1>6, <2>2, <3>2, <3>3 DEF SetLen, n
  <2>. QED  BY <2>1, <2>2
<1>10. e[1] = s.typ /\ e[2] = h
  BY <1>4, <1>8
<1>11. ASSUME NEW j \in 1..n
       PROVE  /\ \A i \in 1..Len(s.strings[j]) : e[h + SetEnd(s, j - 1) + i] = s.strings[j][i]
              /\ e[h + SetEnd(s, j)] = 0
  <2>1. s.strings # <<>> /\ j \in 0..n /\ j - 1 \in 0..n
    BY <1>1
  <2>2. /\ SetEnd(s, j) \in Nat /\ SetEnd(s, j - 1) \in Nat
        /\ SetEnd(s, j) <= Len(set) /\ Len(s.strings[j]) \in Nat \ {0}
        /\ SetEnd(s, j) = SetEnd(s, j - 1) + Len(s.strings[j]) + 1
    BY <1>1, <1>2, <1>6, <2>1
  <2>3. \A x \in 1..Len(set) : e[h + x] = set[x]
    BY <1>3, <1>8
  <2>4. e[h + SetEnd(s, j)] = 0
    <3>1. SetEnd(s, j) \in 1..Len(set)
      BY <1>8, <2>2
    <3>. QED  BY <1>2, <1>6, <2>1, <2>3, <3>1
  <2>5. ASSUME NEW i \in 1..Len(s.strings[j])
        PROVE  e[h + SetEnd(s, j - 1) + i] = s.strings[j][i]
    <3>0. i \in Nat /\ 1 <= i /\ i <= Len(s.strings[j])
      BY <2>2
    <3>1. SetEnd(s, j - 1) + i \in 1..Len(set)
      <4>. DEFINE a == SetEnd(s, j - 1)
                  b == SetEnd(s, j)
                  l == Len(s.strings[j])
      <4>1. a \in Nat /\ b \in Nat /\ l \in Nat /\ b = a + l + 1 /\ b <= Len(set) /\ i <= l
        BY <2>2, <3>0
      <4>. HIDE DEF a, b, l
      <4>2. a + i \in 1..Len(set)
        BY <1>8, <3>0, <4>1
      <4>. QED  BY <4>2 DEF a
    <3>2. e[h + (SetEnd(s, j - 1) + i)] = s.strings[j][i]
      BY <1>2, <1>6, <2>1, <2>3, <3>1
    <3>3. h + (SetEnd(s, j - 1) + i) = h + SetEnd(s, j - 1) + i
      BY <1>3, <2>2, <3>0
    <3>. QED  BY <3>2, <3>3
  <2>. QED  BY <2>4, <2>5
<1>12. s.strings = <<>> => e[h + 1] = 0
  <2>. SUFFICES ASSUME s.strings = <<>>
                PROVE  e[h + 1] = 0
    OBVIOUS
  <2>0. Len(set) = 1 /\ set[1] = 0
    BY <1>6
  <2>1. 1 \in 1..Len(set) /\ set[1] = 0
    BY <2>0
  <2>2. e[4 + Len(s.body) + 1] = 0
    BY <1>8, <2>1
  <2>. QED  BY <1>3, <2>2
<1>13. e[h + SetLen(s)] = 0 /\ Len(e) = h + SetLen(s)
  <2>. DEFINE lb == Len(s.body)
              ls == Len(set)
              sl == SetLen(s)
  <2>1. lb \in Nat /\ ls \in Nat /\ h \in Nat /\ sl \in Nat /\ h = 4 + lb /\ sl = ls + 1
    BY <1>1, <1>3, <1>8, <1>9
  <2>. HIDE DEF lb, ls, sl
  <2>2. h + sl = 4 + lb + ls + 1
    BY <2>1
  <2>. QED  BY <1>8, <2>2 DEF lb, ls, sl
<1>14. h >= 4
  BY <1>1, <1>3
<1>. QED
  BY <1>3, <1>8, <1>9, <1>10, <1>11, <1>12, <1>13, <1>14 DEF e, h, n

-----------------------------------------------------------------------------
(***************************************************************************)
(* The table: where structures and strings start, and what the walk makes  *)
(* of the first n bytes of it.                                             *)
(***************************************************************************)

Encoded(t) == [i \in DOMAIN t |-> Encode(t[i])]

\* Where structure k ends and the next starts.
EndAt(t, k) == Ends(Encoded(t), k)

\* Where string j of structure k starts.
StringAt(t, k, j) == EndAt(t, k - 1) + Formatted(t[k]) + SetEnd(t[k], j - 1)

\* Of n bytes, those up to x.
Cut(n, x) == IF x <= n THEN x ELSE n

\* The first m strings of structure k.
Found(t, n, k, m) ==
  [j \in 1..m |-> [from |-> StringAt(t, k, j),
                   to   |-> Cut(n, StringAt(t, k, j) + Len(t[k].strings[j]))]]

\* They are the strings that start in the n bytes.
AllFound(t, n, k, m) ==
  /\ m \in 0..Len(t[k].strings)
  /\ m > 0 => StringAt(t, k, m) < n
  /\ m < Len(t[k].strings) => StringAt(t, k, m + 1) >= n

\* What is found of structure k if its formatted area is there.
IsStructure(t, n, k, s) ==
  /\ s.at = EndAt(t, k - 1)
  /\ s.len = Formatted(t[k])
  /\ s.typ = t[k].typ
  /\ s.at + s.len <= n
  /\ \E m \in 0..Len(t[k].strings) : AllFound(t, n, k, m) /\ s.strings = Found(t, n, k, m)

\* The structures walked are the first of the table, none behind its end mark.
FoundInv ==
  /\ Len(out) <= Len(UpToEnd(table))
  /\ \A k \in 1..Len(out) : IsStructure(table, Size, k, out[k])

\* Where the walk is in the structure behind them.
PlaceInv ==
  LET n == Len(out)
      k == n + 1
  IN  /\ walk = "header" =>
           /\ off = Cut(Size, EndAt(table, n))
           /\ n > 0 => table[n].typ # 127
      /\ walk \in {"strings", "push"} =>
           /\ k <= Len(UpToEnd(table))
           /\ off = EndAt(table, n)
           /\ off + Formatted(table[k]) <= Size
           /\ Len(strings) <= Len(table[k].strings)
           /\ strings = Found(table, Size, k, Len(strings))
      /\ walk = "strings" =>
           /\ cursor = StringAt(table, k, Len(strings) + 1)
           /\ Len(strings) > 0 => cursor < Size /\ Len(strings) < Len(table[k].strings)
      /\ walk = "push" =>
           /\ cursor = Cut(Size, EndAt(table, k))
           /\ AllFound(table, Size, k, Len(strings))
      /\ walk = "done" =>
           \A j \in 1..Len(UpToEnd(table)) : EndAt(table, j) <= Size => j <= n

TornInv ==
  /\ table \in Tables
  /\ table # <<>> /\ Genuine => FoundInv /\ PlaceInv

-----------------------------------------------------------------------------
(* The layout of a table of structures. *)

\* The structures of a table.
LEMMA TableParts ==
  ASSUME NEW t \in Tables
  PROVE  /\ t \in Seq(FirmwareStructure) /\ Len(t) \in Nat /\ DOMAIN t = 1..Len(t)
         /\ \A k \in 1..Len(t) : t[k] \in FirmwareStructure /\ Formatted(t[k]) \in Byte
<1>1. t \in Seq(FirmwareStructure) /\ \A i \in DOMAIN t : 4 + Len(t[i].body) \in Byte
  BY TablesAssumption
<1>2. Len(t) \in Nat /\ DOMAIN t = 1..Len(t)
  BY <1>1, LenProperties
<1>3. \A k \in 1..Len(t) : t[k] \in FirmwareStructure
  BY <1>1, ElementOfSeq
<1>. QED  BY <1>1, <1>2, <1>3 DEF Formatted

\* Structures lie one behind the other, with the bytes firmware gives each.
LEMMA TableLayout ==
  ASSUME NEW t \in Tables
  PROVE  /\ EncodeAll(t) \in Seq(Byte) /\ Len(EncodeAll(t)) = EndAt(t, Len(t))
         /\ EndAt(t, 0) = 0
         /\ \A k \in 0..Len(t) :
              /\ EndAt(t, k) \in Nat
              /\ EndAt(t, k) <= EndAt(t, Len(t))
              /\ \A j \in 0..k : EndAt(t, j) <= EndAt(t, k)
         /\ \A k \in 1..Len(t) :
              /\ EndAt(t, k) = EndAt(t, k - 1) + Formatted(t[k]) + SetLen(t[k])
              /\ \A i \in 1..(Formatted(t[k]) + SetLen(t[k])) :
                   EncodeAll(t)[EndAt(t, k - 1) + i] = Encode(t[k])[i]
<1>. DEFINE es == Encoded(t)
            n  == Len(t)
<1>1. /\ n \in Nat /\ DOMAIN t = 1..n
      /\ \A k \in 1..n : t[k] \in FirmwareStructure /\ Formatted(t[k]) \in Byte
  BY TableParts
<1>2. \A k \in 1..n : /\ Encode(t[k]) \in Seq(Byte)
                      /\ Len(Encode(t[k])) = Formatted(t[k]) + SetLen(t[k])
                      /\ Formatted(t[k]) \in Nat /\ SetLen(t[k]) \in Nat
  BY <1>1, EncodeLayout
<1>3. es \in Seq(Seq(Byte)) /\ Len(es) = n /\ \A k \in 1..n : es[k] = Encode(t[k])
  <2>1. es = [i \in 1..n |-> Encode(t[i])]
    BY <1>1 DEF Encoded
  <2>2. es \in [1..n -> Seq(Byte)]
    BY <1>2, <2>1
  <2>. QED  BY <1>1, <2>1, <2>2
<1>4. EncodeAll(t) = FlattenSeq(es) /\ \A k : EndAt(t, k) = Ends(es, k)
  BY DEF EncodeAll, EndAt, Encoded
<1>. HIDE DEF es, n
<1>5. /\ FlattenSeq(es) \in Seq(Byte)
      /\ \A k \in 0..n : Ends(es, k) \in Nat
      /\ Ends(es, 0) = 0
      /\ \A k \in 1..n : Ends(es, k) = Ends(es, k - 1) + Len(es[k])
      /\ Ends(es, n) = Len(FlattenSeq(es))
      /\ \A k \in 0..n : \A j \in 0..k : Ends(es, j) <= Ends(es, k)
      /\ \A k \in 1..n : \A i \in 1..Len(es[k]) :
           FlattenSeq(es)[Ends(es, k - 1) + i] = es[k][i]
  <2>1. es \in Seq(Seq(Byte)) /\ Len(es) = n
    BY <1>3
  <2>. QED  BY <2>1, FlattenLayout
<1>6. ASSUME NEW k \in 0..n
      PROVE  /\ EndAt(t, k) \in Nat
             /\ EndAt(t, k) <= EndAt(t, n)
             /\ \A j \in 0..k : EndAt(t, j) <= EndAt(t, k)
  <2>1. n \in 0..n /\ k \in 0..n
    BY <1>1, <1>6 DEF n
  <2>. QED  BY <1>4, <1>5, <2>1
<1>7. ASSUME NEW k \in 1..n
      PROVE  /\ EndAt(t, k) = EndAt(t, k - 1) + Formatted(t[k]) + SetLen(t[k])
             /\ \A i \in 1..(Formatted(t[k]) + SetLen(t[k])) :
                  EncodeAll(t)[EndAt(t, k - 1) + i] = Encode(t[k])[i]
  <2>1. /\ es[k] = Encode(t[k]) /\ Len(es[k]) = Formatted(t[k]) + SetLen(t[k])
        /\ Formatted(t[k]) \in Nat /\ SetLen(t[k]) \in Nat
    BY <1>2, <1>3
  <2>2. k - 1 \in 0..n
    BY <1>1, <1>7 DEF n
  <2>3. EndAt(t, k - 1) \in Nat
    BY <1>6, <2>2
  <2>4. EndAt(t, k) = EndAt(t, k - 1) + (Formatted(t[k]) + SetLen(t[k]))
    BY <1>4, <1>5, <2>1
  <2>5. \A i \in 1..(Formatted(t[k]) + SetLen(t[k])) :
          EncodeAll(t)[EndAt(t, k - 1) + i] = Encode(t[k])[i]
    BY <1>4, <1>5, <2>1
  <2>6. EndAt(t, k) = EndAt(t, k - 1) + Formatted(t[k]) + SetLen(t[k])
    <3>. DEFINE a == EndAt(t, k - 1)
                b == Formatted(t[k])
                c == SetLen(t[k])
    <3>1. a \in Nat /\ b \in Nat /\ c \in Nat /\ EndAt(t, k) = a + (b + c)
      BY <2>1, <2>3, <2>4
    <3>. HIDE DEF a, b, c
    <3>2. EndAt(t, k) = a + b + c
      BY <3>1
    <3>. QED  BY <3>2 DEF a, b, c
  <2>. QED  BY <2>5, <2>6
<1>8. EncodeAll(t) \in Seq(Byte) /\ Len(EncodeAll(t)) = EndAt(t, n) /\ EndAt(t, 0) = 0
  BY <1>4, <1>5
<1>. QED  BY <1>6, <1>7, <1>8 DEF n

\* The encoding of the first structures ends where the last of them ends.
LEMMA FirstEncoded ==
  ASSUME NEW t \in Tables, NEW k \in 0..Len(t)
  PROVE  Len(EncodeAll(SubSeq(t, 1, k))) = EndAt(t, k)
<1>. DEFINE n == Len(t)
            first == SubSeq(t, 1, k)
<1>1. /\ n \in Nat /\ DOMAIN t = 1..n /\ t \in Seq(FirmwareStructure)
  BY TableParts
<1>2. DOMAIN first = 1..k /\ \A i \in 1..k : first[i] = t[i]
  BY <1>1
<1>3. Encoded(t) = [i \in 1..n |-> Encode(t[i])]
  BY <1>1 DEF Encoded
<1>. DEFINE es == [i \in 1..n |-> Encode(t[i])]
<1>4. SubSeq(es, 1, k) = [i \in 1..k |-> es[i]]
  BY <1>1
<1>5. \A i \in 1..k : es[i] = Encode(t[i])
  BY <1>1
<1>6. [i \in DOMAIN first |-> Encode(first[i])] = SubSeq(es, 1, k)
  BY <1>2, <1>4, <1>5
<1>. QED  BY <1>3, <1>6 DEF EncodeAll, EndAt, Ends

-----------------------------------------------------------------------------
(* The bytes that are left of a table cut off anywhere. *)

\* They are the first bytes of the table.
LEMMA GenuineBytes ==
  ASSUME table \in Tables, Genuine, blob \in Seq(Byte)
  PROVE  /\ Size \in Nat /\ Size <= EndAt(table, Len(table))
         /\ \A x \in 1..Size : blob[x] = EncodeAll(table)[x]
<1>. DEFINE all == EncodeAll(table)
<1>1. all \in Seq(Byte) /\ Len(all) = EndAt(table, Len(table))
  BY TableLayout
<1>2. Size \in Nat /\ Size = Len(blob)
  BY DEF Size
<1>. HIDE DEF all
<1>3. Size <= Len(all) /\ SubSeq(blob, 1, Size) = SubSeq(all, 1, Size)
  BY <1>2 DEF Genuine, IsPrefix, all
<1>4. \A x \in 1..Size : SubSeq(blob, 1, Size)[x] = blob[x]
  BY <1>2
<1>5. \A x \in 1..Size : SubSeq(all, 1, Size)[x] = all[x]
  BY <1>1, <1>2, <1>3
<1>6. \A x \in 1..Size : blob[x] = all[x]
  BY <1>3, <1>4, <1>5
<1>. QED  BY <1>1, <1>2, <1>3, <1>6 DEF all

\* Where structure k and its strings lie.
LEMMA PlacesInTable ==
  ASSUME NEW t \in Tables, NEW k \in 1..Len(t)
  PROVE  /\ EndAt(t, k - 1) \in Nat /\ EndAt(t, k) \in Nat
         /\ Formatted(t[k]) \in Nat /\ Formatted(t[k]) >= 4
         /\ EndAt(t, k) >= EndAt(t, k - 1) + Formatted(t[k]) + 2
         /\ StringAt(t, k, 1) = EndAt(t, k - 1) + Formatted(t[k])
         /\ \A j \in 1..Len(t[k].strings) :
              /\ StringAt(t, k, j) \in Nat
              /\ StringAt(t, k, j) >= EndAt(t, k - 1) + Formatted(t[k])
              /\ StringAt(t, k, j + 1) = StringAt(t, k, j) + Len(t[k].strings[j]) + 1
              /\ StringAt(t, k, j + 1) < EndAt(t, k)
              /\ \A i \in 1..j : StringAt(t, k, i) <= StringAt(t, k, j)
         /\ t[k].strings = <<>> => EndAt(t, k) = EndAt(t, k - 1) + Formatted(t[k]) + 2
         /\ t[k].strings # <<>> => EndAt(t, k) = StringAt(t, k, Len(t[k].strings) + 1) + 1
<1>. DEFINE o == EndAt(t, k - 1)
            h == Formatted(t[k])
            n == Len(t[k].strings)
            c == SetLen(t[k])
            e == EndAt(t, k)
<1>1. t[k] \in FirmwareStructure /\ h \in Byte /\ Len(t) \in Nat
  BY TableParts
<1>2. h \in Nat /\ h >= 4 /\ c \in Nat /\ c >= 2
  BY <1>1, EncodeLayout
<1>3. o \in Nat /\ e \in Nat /\ e = o + h + c
  <2>1. k - 1 \in 0..Len(t) /\ k \in 0..Len(t)
    BY <1>1
  <2>. QED  BY <2>1, TableLayout
<1>4. /\ n \in Nat /\ (t[k].strings = <<>> <=> n = 0)
      /\ \A j \in 1..n : Len(t[k].strings[j]) \in Nat \ {0}
  <2>1. t[k].strings = <<>> <=> n = 0
    BY <1>1, StructureParts, EmptySeq
  <2>2. n \in Nat /\ \A j \in 1..n : Len(t[k].strings[j]) \in Nat \ {0}
    BY <1>1, StructureParts
  <2>. QED  BY <2>1, <2>2
<1>5. /\ SetEnd(t[k], 0) = 0
      /\ \A j \in 0..n : SetEnd(t[k], j) \in Nat /\ SetEnd(t[k], j) <= SetEnd(t[k], n)
      /\ \A j \in 0..n : \A i \in 0..j : SetEnd(t[k], i) <= SetEnd(t[k], j)
      /\ \A j \in 1..n : SetEnd(t[k], j) = SetEnd(t[k], j - 1) + Len(t[k].strings[j]) + 1
  BY <1>1, SetLayout
<1>6. t[k].strings = <<>> => c = 2
  BY DEF SetLen
<1>7. t[k].strings # <<>> => c = SetEnd(t[k], n) + 1
  BY DEF SetLen
<1>8. \A j : StringAt(t, k, j) = o + h + SetEnd(t[k], j - 1)
  BY DEF StringAt
<1>. HIDE DEF o, h, n, c, e
<1>9. ASSUME NEW j \in 1..n
      PROVE  /\ StringAt(t, k, j) \in Nat
             /\ StringAt(t, k, j) >= o + h
             /\ StringAt(t, k, j + 1) = StringAt(t, k, j) + Len(t[k].strings[j]) + 1
             /\ StringAt(t, k, j + 1) < e
             /\ \A i \in 1..j : StringAt(t, k, i) <= StringAt(t, k, j)
  <2>1. j \in 0..n /\ j - 1 \in 0..n /\ (j + 1) - 1 = j /\ n # 0
    BY <1>4
  <2>. DEFINE a == SetEnd(t[k], j - 1)
              b == SetEnd(t[k], j)
              l == Len(t[k].strings[j])
              z == SetEnd(t[k], n)
  <2>2. a \in Nat /\ b \in Nat /\ l \in Nat /\ z \in Nat /\ b = a + l + 1 /\ b <= z /\ c = z + 1
    <3>1. n \in 0..n
      BY <1>4
    <3>. QED  BY <1>4, <1>5, <1>7, <2>1, <3>1
  <2>3. StringAt(t, k, j) = o + h + a /\ StringAt(t, k, j + 1) = o + h + b
    BY <1>8, <2>1
  <2>. HIDE DEF a, b, l, z
  <2>4. o + h + b = o + h + a + l + 1 /\ o + h + b < e /\ o + h + a >= o + h /\ o + h + a \in Nat
    BY <1>2, <1>3, <2>2
  <2>5. ASSUME NEW i \in 1..j
        PROVE  StringAt(t, k, i) <= StringAt(t, k, j)
    <3>1. i - 1 \in 0..(j - 1) /\ i - 1 \in 0..n
      BY <1>4, <2>5
    <3>. DEFINE d == SetEnd(t[k], i - 1)
    <3>2. d \in Nat /\ d <= a /\ StringAt(t, k, i) = o + h + d
      BY <1>5, <1>8, <2>1, <3>1 DEF a
    <3>. HIDE DEF d
    <3>. QED  BY <1>2, <1>3, <2>2, <2>3, <3>2
  <2>. QED  BY <2>3, <2>4, <2>5 DEF l
<1>10. StringAt(t, k, 1) = o + h
  <2>1. SetEnd(t[k], 1 - 1) = 0
    BY <1>5
  <2>. QED  BY <1>2, <1>3, <1>8, <2>1
<1>11. t[k].strings = <<>> => e = o + h + 2
  BY <1>2, <1>3, <1>6
<1>12. ASSUME t[k].strings # <<>>
       PROVE  e = StringAt(t, k, n + 1) + 1
  <2>1. (n + 1) - 1 = n /\ n \in 0..n
    BY <1>4
  <2>. DEFINE z == SetEnd(t[k], n)
  <2>2. z \in Nat /\ c = z + 1 /\ StringAt(t, k, n + 1) = o + h + z
    BY <1>5, <1>7, <1>8, <1>12, <2>1
  <2>. HIDE DEF z
  <2>. QED  BY <1>2, <1>3, <2>2
<1>13. e >= o + h + 2
  BY <1>2, <1>3
<1>. QED  BY <1>2, <1>3, <1>9, <1>10, <1>11, <1>12, <1>13 DEF o, h, n, c, e

\* What is left of structure k.
LEMMA BytesLeft ==
  ASSUME table \in Tables, Genuine, blob \in Seq(Byte), NEW k \in 1..Len(table)
  PROVE  /\ EndAt(table, k - 1) < Size => At(EndAt(table, k - 1)) = table[k].typ
         /\ EndAt(table, k - 1) + 1 < Size =>
              At(EndAt(table, k - 1) + 1) = Formatted(table[k])
         /\ \A i \in 1..Len(table[k].body) :
              EndAt(table, k - 1) + 4 + i <= Size =>
                blob[EndAt(table, k - 1) + 4 + i] = table[k].body[i]
         /\ \A j \in 1..Len(table[k].strings) :
              /\ \A i \in 1..Len(table[k].strings[j]) :
                   StringAt(table, k, j) + i <= Size =>
                     blob[StringAt(table, k, j) + i] = table[k].strings[j][i]
              /\ StringAt(table, k, j) + Len(table[k].strings[j]) < Size =>
                   At(StringAt(table, k, j) + Len(table[k].strings[j])) = 0
         /\ table[k].strings = <<>> /\ StringAt(table, k, 1) < Size =>
              At(StringAt(table, k, 1)) = 0
         /\ EndAt(table, k) <= Size => At(EndAt(table, k) - 1) = 0
<1>. DEFINE s == table[k]
            o == EndAt(table, k - 1)
            h == Formatted(s)
            c == SetLen(s)
            e == Encode(s)
<1>1. Size \in Nat /\ \A x \in 1..Size : blob[x] = EncodeAll(table)[x]
  BY GenuineBytes
<1>2. /\ s \in FirmwareStructure /\ h \in Byte
  BY TableParts
<1>3. /\ o \in Nat /\ EndAt(table, k) \in Nat /\ h \in Nat /\ h >= 4
      /\ StringAt(table, k, 1) = o + h
      /\ EndAt(table, k) >= o + h + 2
  BY PlacesInTable
<1>4. /\ EndAt(table, k) = o + h + c
      /\ \A i \in 1..(h + c) : EncodeAll(table)[o + i] = e[i]
  BY TableLayout
<1>5. /\ c \in Nat /\ c >= 2
      /\ e[1] = s.typ /\ e[2] = h
      /\ \A i \in 1..Len(s.body) : e[4 + i] = s.body[i]
      /\ \A j \in 1..Len(s.strings) :
           /\ \A i \in 1..Len(s.strings[j]) : e[h + SetEnd(s, j - 1) + i] = s.strings[j][i]
           /\ e[h + SetEnd(s, j)] = 0
      /\ s.strings = <<>> => e[h + 1] = 0
      /\ e[h + c] = 0
  BY <1>2, EncodeLayout
<1>6. h = 4 + Len(s.body) /\ Len(s.body) \in Nat /\ Len(s.strings) \in Nat
  BY <1>2, StructureParts DEF Formatted
<1>7. \A j : StringAt(table, k, j) = o + h + SetEnd(s, j - 1)
  BY DEF StringAt
<1>. DEFINE z == Len(s.strings)
<1>8. /\ \A j \in 0..z : SetEnd(s, j) \in Nat /\ SetEnd(s, j) <= SetEnd(s, z)
      /\ \A j \in 1..z :
           SetEnd(s, j) = SetEnd(s, j - 1) + Len(s.strings[j]) + 1
  BY <1>2, SetLayout
<1>9. \A j \in 1..z : Len(s.strings[j]) \in Nat
  BY <1>2, StructureParts
<1>10. z > 0 => c = SetEnd(s, z) + 1
  BY <1>6 DEF SetLen
<1>. HIDE DEF s, o, h, c, e, z
<1>0. Size \in Nat /\ o \in Nat /\ h \in Nat /\ h >= 4 /\ c \in Nat /\ c >= 2
  BY <1>1, <1>3, <1>5
<1>11. ASSUME NEW i \in 1..(h + c), o + i <= Size
       PROVE  blob[o + i] = e[i] /\ At(o + i - 1) = e[i]
  <2>1. o + i \in 1..Size /\ (o + i - 1) + 1 = o + i
    BY <1>0, <1>11
  <2>. QED  BY <1>1, <1>4, <2>1 DEF At
<1>12. o < Size => At(o) = s.typ
  <2>1. 1 \in 1..(h + c) /\ o + 1 - 1 = o /\ (o < Size => o + 1 <= Size)
    BY <1>0
  <2>. QED  BY <1>5, <1>11, <2>1
<1>13. o + 1 < Size => At(o + 1) = h
  <2>1. 2 \in 1..(h + c) /\ o + 2 - 1 = o + 1 /\ (o + 1 < Size => o + 2 <= Size)
    BY <1>0
  <2>. QED  BY <1>5, <1>11, <2>1
<1>14. ASSUME NEW i \in 1..Len(s.body), o + 4 + i <= Size
       PROVE  blob[o + 4 + i] = s.body[i]
  <2>1. 4 + i \in 1..(h + c) /\ o + (4 + i) = o + 4 + i
    <3>. DEFINE lb == Len(s.body)
    <3>1. lb \in Nat /\ h = 4 + lb /\ i \in 1..lb
      BY <1>6
    <3>. HIDE DEF lb
    <3>. QED  BY <1>0, <3>1
  <2>. QED  BY <1>5, <1>11, <1>14, <2>1
<1>15. ASSUME NEW j \in 1..z
       PROVE  /\ \A i \in 1..Len(s.strings[j]) :
                   StringAt(table, k, j) + i <= Size =>
                     blob[StringAt(table, k, j) + i] = s.strings[j][i]
              /\ StringAt(table, k, j) + Len(s.strings[j]) < Size =>
                   At(StringAt(table, k, j) + Len(s.strings[j])) = 0
  <2>1. j \in 0..z /\ j - 1 \in 0..z /\ z > 0
    BY <1>6 DEF z
  <2>. DEFINE a == SetEnd(s, j - 1)
              b == SetEnd(s, j)
              l == Len(s.strings[j])
              f == StringAt(table, k, j)
  <2>2. a \in Nat /\ b \in Nat /\ l \in Nat /\ b = a + l + 1 /\ b < c
    <3>1. z \in 0..z
      BY <1>6 DEF z
    <3>2. b <= SetEnd(s, z) /\ c = SetEnd(s, z) + 1 /\ SetEnd(s, z) \in Nat /\ b \in Nat
      BY <1>8, <1>10, <2>1, <3>1
    <3>3. b < c
      <4>. HIDE DEF b
      <4>. QED  BY <3>2
    <3>. QED  BY <1>8, <1>9, <2>1, <3>3
  <2>3. f = o + h + a
    BY <1>7
  <2>4. \A i \in 1..l : e[h + a + i] = s.strings[j][i]
    BY <1>5 DEF z
  <2>5. e[h + b] = 0
    BY <1>5 DEF z
  <2>. HIDE DEF a, b, l, f
  <2>6. ASSUME NEW i \in 1..l, f + i <= Size
        PROVE  blob[f + i] = s.strings[j][i]
    <3>1. h + a + i \in 1..(h + c) /\ o + (h + a + i) = f + i
      BY <1>0, <2>2, <2>3
    <3>. QED  BY <1>11, <2>4, <2>6, <3>1
  <2>7. ASSUME f + l < Size
        PROVE  At(f + l) = 0
    <3>1. h + b \in 1..(h + c) /\ o + (h + b) - 1 = f + l /\ o + (h + b) <= Size
      BY <1>0, <2>2, <2>3, <2>7
    <3>. QED  BY <1>11, <2>5, <3>1
  <2>. QED  BY <2>6, <2>7 DEF f, l
<1>16. s.strings = <<>> /\ o + h < Size => At(o + h) = 0
  <2>1. h + 1 \in 1..(h + c) /\ o + (h + 1) - 1 = o + h /\ (o + h < Size => o + (h + 1) <= Size)
    BY <1>0
  <2>. QED  BY <1>5, <1>11, <2>1
<1>17. EndAt(table, k) <= Size => At(EndAt(table, k) - 1) = 0
  <2>1. h + c \in 1..(h + c) /\ o + (h + c) - 1 = EndAt(table, k) - 1
        /\ (EndAt(table, k) <= Size => o + (h + c) <= Size)
    BY <1>0, <1>4
  <2>. QED  BY <1>5, <1>11, <2>1
<1>18. StringAt(table, k, 1) = o + h
  BY <1>3
<1>. QED  BY <1>12, <1>13, <1>14, <1>15, <1>16, <1>17, <1>18 DEF s, o, h, z

\* A string of which something is left: it ends at its terminator or is cut.
LEMMA StringFound ==
  ASSUME table \in Tables, Genuine, blob \in Seq(Byte), NEW k \in 1..Len(table),
         NEW j \in 1..Len(table[k].strings), StringAt(table, k, j) < Size
  PROVE  /\ At(StringAt(table, k, j)) # 0
         /\ EndOfString(StringAt(table, k, j)) =
              Cut(Size, StringAt(table, k, j) + Len(table[k].strings[j]))
<1>. DEFINE f == StringAt(table, k, j)
            l == Len(table[k].strings[j])
<1>1. table[k] \in FirmwareStructure
  BY TableParts
<1>2. f \in Nat /\ l \in Nat /\ l # 0 /\ Size \in Nat
  <2>1. f \in Nat
    BY PlacesInTable
  <2>2. l \in Nat \ {0}
    BY <1>1, StructureParts
  <2>3. Size \in Nat
    BY GenuineBytes
  <2>. HIDE DEF f, l
  <2>. QED  BY <2>1, <2>2, <2>3
<1>3. \A i \in 1..l : table[k].strings[j][i] \in 1..255
  BY <1>1, StructureParts
<1>4. /\ \A i \in 1..l : f + i <= Size => blob[f + i] = table[k].strings[j][i]
      /\ f + l < Size => At(f + l) = 0
  BY BytesLeft
<1>. HIDE DEF f, l
<1>5. ASSUME NEW x \in f..(Size - 1), x < f + l
      PROVE  At(x) # 0
  <2>0. x \in Nat /\ f <= x /\ x < f + l /\ x + 1 <= Size
    BY <1>2, <1>5
  <2>. DEFINE i == x + 1 - f
  <2>1. i \in 1..l /\ f + i = x + 1
    BY <1>2, <2>0
  <2>. HIDE DEF i
  <2>2. blob[f + i] \in 1..255
    BY <1>4, <1>3, <2>0, <2>1
  <2>3. At(x) \in 1..255
    BY <2>1, <2>2 DEF At
  <2>4. \A b \in 1..255 : b # 0
    OBVIOUS
  <2>. QED  BY <2>3, <2>4
<1>6. At(f) # 0
  <2>0. f < Size
    BY DEF f
  <2>1. f \in f..(Size - 1) /\ f < f + l
    BY <1>2, <2>0
  <2>. QED  BY <1>5, <2>1
<1>7. CASE f + l < Size
  <2>1. f + l \in Zeros(f)
    <3>1. f + l \in f..(Size - 1)
      BY <1>2, <1>7
    <3>2. At(f + l) = 0
      BY <1>4, <1>7
    <3>. QED  BY <3>1, <3>2 DEF Zeros
  <2>2. ASSUME NEW x \in Zeros(f)
        PROVE  x \in Int /\ f + l <= x
    <3>1. x \in f..(Size - 1) /\ At(x) = 0
      BY DEF Zeros
    <3>2. ~(x < f + l)
      BY <1>5, <3>1
    <3>. QED  BY <1>2, <3>1, <3>2
  <2>3. ASSUME NEW y \in Zeros(f), \A x \in Zeros(f) : y <= x
        PROVE  y = f + l
    <3>1. y \in Int /\ f + l <= y /\ y <= f + l
      BY <2>1, <2>2, <2>3
    <3>. QED  BY <1>2, <3>1
  <2>4. EndOfString(f) = f + l
    <3>1. \A x \in Zeros(f) : f + l <= x
      BY <2>2
    <3>2. \A y \in Zeros(f) : (\A x \in Zeros(f) : y <= x) => y = f + l
      BY <2>3
    <3>. QED  BY <2>1, <3>1, <3>2, Zenon DEF EndOfString
  <2>5. Cut(Size, f + l) = f + l
    BY <1>2, <1>7 DEF Cut
  <2>. QED  BY <1>6, <2>4, <2>5 DEF f, l
<1>8. CASE ~(f + l < Size)
  <2>1. Zeros(f) = {}
    <3>. SUFFICES ASSUME NEW x \in Zeros(f)
                  PROVE  FALSE
      OBVIOUS
    <3>1. x \in f..(Size - 1) /\ At(x) = 0
      BY DEF Zeros
    <3>2. x < f + l
      BY <1>2, <1>8, <3>1
    <3>. QED  BY <1>5, <3>1, <3>2
  <2>2. EndOfString(f) = Size
    BY <2>1 DEF EndOfString
  <2>3. Cut(Size, f + l) = Size
    BY <1>2, <1>8 DEF Cut
  <2>. QED  BY <1>6, <2>2, <2>3 DEF f, l
<1>. QED  BY <1>7, <1>8

\* The structures up to the end mark.
LEMMA UpToEndParts ==
  ASSUME NEW t \in Tables
  PROVE  /\ Len(UpToEnd(t)) \in 0..Len(t)
         /\ DOMAIN UpToEnd(t) = 1..Len(UpToEnd(t))
         /\ \A k \in 1..(Len(UpToEnd(t)) - 1) : t[k].typ # 127
         /\ Len(UpToEnd(t)) < Len(t) =>
              Len(UpToEnd(t)) # 0 /\ t[Len(UpToEnd(t))].typ = 127
<1>. DEFINE ends == {i \in DOMAIN t : t[i].typ = 127}
            e    == CHOOSE i \in ends : \A j \in ends : i <= j
<1>1. t \in Seq(FirmwareStructure) /\ Len(t) \in Nat /\ DOMAIN t = 1..Len(t)
  BY TableParts
<1>2. CASE ends = {}
  <2>1. UpToEnd(t) = t
    BY <1>2 DEF UpToEnd
  <2>. QED  BY <1>1, <1>2, <2>1
<1>3. CASE ends # {}
  <2>1. ends \in SUBSET Nat
    BY <1>1
  <2>2. e \in ends /\ \A j \in ends : e <= j
    <3>1. \E i \in ends : \A j \in ends : i <= j
      <4>. HIDE DEF ends
      <4>. QED  BY <1>3, <2>1, LeastNatural
    <3>. QED  BY <3>1, Zenon
  <2>3. UpToEnd(t) = SubSeq(t, 1, e)
    BY <1>3, Zenon DEF UpToEnd
  <2>. HIDE DEF e
  <2>4. e \in 1..Len(t) /\ t[e].typ = 127
    BY <1>1, <2>2
  <2>5. Len(UpToEnd(t)) = e /\ DOMAIN UpToEnd(t) = 1..e
    BY <1>1, <2>3, <2>4
  <2>6. \A k \in 1..(e - 1) : t[k].typ # 127
    BY <1>1, <2>2, <2>4
  <2>. QED  BY <2>4, <2>5, <2>6
<1>. QED  BY <1>2, <1>3

-----------------------------------------------------------------------------
(* Every step of the walk keeps the invariant. *)

\* What the steps below start from.
Torn == WalkInv /\ table \in Tables /\ Genuine /\ FoundInv /\ PlaceInv

\* The structures found and those still to come.
LEMMA TornParts ==
  ASSUME Torn
  PROVE  /\ blob \in Seq(Byte) /\ Size \in Nat /\ off \in Nat /\ cursor \in Nat
         /\ out \in Seq(Structure) /\ strings \in Seq(Interval)
         /\ Len(out) \in Nat /\ Len(strings) \in Nat
         /\ Len(UpToEnd(table)) \in Nat /\ Len(table) \in Nat
         /\ Len(out) <= Len(UpToEnd(table)) /\ Len(UpToEnd(table)) <= Len(table)
         /\ EndAt(table, Len(out)) \in Nat
         /\ (Len(out) + 1) - 1 = Len(out)
<1>1. /\ blob \in Seq(Byte) /\ off \in Nat /\ cursor \in Nat
      /\ out \in Seq(Structure) /\ strings \in Seq(Interval)
  BY DEF Torn, WalkInv, WalkTypeOK
<1>2. Size \in Nat /\ Len(out) \in Nat /\ Len(strings) \in Nat
  BY <1>1 DEF Size
<1>3. Len(UpToEnd(table)) \in 0..Len(table) /\ Len(table) \in Nat /\ table \in Tables
  BY UpToEndParts, TableParts DEF Torn
<1>4. Len(out) <= Len(UpToEnd(table))
  BY DEF Torn, FoundInv
<1>5. Len(out) \in 0..Len(table)
  BY <1>2, <1>3, <1>4
<1>6. EndAt(table, Len(out)) \in Nat
  BY <1>3, <1>5, TableLayout
<1>. QED  BY <1>1, <1>2, <1>3, <1>4, <1>6

\* At the next structure: what is there of it, and whether a header fits.
LEMMA AtHeader ==
  ASSUME Torn, walk = "header"
  PROVE  /\ Fits =>
              /\ Len(out) + 1 <= Len(UpToEnd(table))
              /\ off = EndAt(table, Len(out))
              /\ At(off + 1) = Formatted(table[Len(out) + 1])
         /\ ~Fits =>
              \A k \in 1..Len(UpToEnd(table)) : EndAt(table, k) <= Size => k <= Len(out)
<1>. DEFINE n == Len(out)
            k == n + 1
            o == EndAt(table, n)
            h == Formatted(table[k])
            K == Len(UpToEnd(table))
<1>1. /\ blob \in Seq(Byte) /\ Size \in Nat /\ off \in Nat /\ n \in Nat
      /\ K \in Nat /\ Len(table) \in Nat /\ n <= K /\ K <= Len(table)
      /\ o \in Nat /\ k - 1 = n
  BY TornParts
<1>2. /\ off = Cut(Size, o)
      /\ n > 0 => table[n].typ # 127
      /\ table \in Tables /\ Genuine
  BY DEF Torn, PlaceInv
<1>3. Size <= EndAt(table, Len(table))
  BY <1>1, <1>2, GenuineBytes
<1>4. K < Len(table) => K # 0 /\ table[K].typ = 127
  BY <1>2, UpToEndParts
<1>5. /\ \A j \in 0..Len(table) : EndAt(table, j) \in Nat
      /\ \A j \in 0..Len(table) : \A i \in 0..j : EndAt(table, i) <= EndAt(table, j)
  BY <1>2, TableLayout
<1>6. ASSUME k <= Len(table)
      PROVE  /\ h \in Nat /\ h >= 4 /\ EndAt(table, k) \in Nat /\ EndAt(table, k) >= o + h + 2
             /\ o + 1 < Size => At(o + 1) = h
  <2>1. k \in 1..Len(table)
    BY <1>1, <1>6
  <2>2. o = EndAt(table, k - 1)
    BY <1>1
  <2>. QED  BY <1>1, <1>2, <2>1, <2>2, PlacesInTable, BytesLeft
<1>. HIDE DEF k, o, h, K, n
<1>7. ASSUME Fits
      PROVE  /\ k <= K
             /\ off = o
             /\ At(off + 1) = h
  <2>1. off + 4 <= Size /\ off = o /\ o + 1 < Size
    BY <1>1, <1>2, <1>7 DEF Fits, Cut
  <2>2. n # Len(table)
    BY <1>1, <1>3, <2>1 DEF o, n
  <2>3. k <= Len(table)
    BY <1>1, <2>2 DEF k
  <2>4. n # K
    <3>1. SUFFICES ASSUME n = K
                   PROVE  FALSE
      OBVIOUS
    <3>2. K < Len(table)
      BY <1>1, <2>2, <3>1
    <3>3. n > 0 /\ table[n].typ = 127
      BY <1>1, <1>4, <3>1, <3>2
    <3>. QED  BY <1>2, <3>3
  <2>5. k <= K
    BY <1>1, <2>4 DEF k
  <2>. QED  BY <1>6, <2>1, <2>3, <2>5
<1>8. ASSUME ~Fits, NEW j \in 1..K, EndAt(table, j) <= Size, ~(j <= n)
      PROVE  FALSE
  <2>1. j \in 0..Len(table) /\ k \in 0..j /\ k <= Len(table)
    BY <1>1, <1>8 DEF k
  <2>2. EndAt(table, k) <= EndAt(table, j) /\ EndAt(table, j) \in Nat
    BY <1>5, <2>1
  <2>3. /\ h \in Nat /\ h >= 4 /\ EndAt(table, k) \in Nat /\ EndAt(table, k) >= o + h + 2
        /\ o + 1 < Size => At(o + 1) = h
    BY <1>6, <2>1
  <2>4. o + h + 2 <= Size
    BY <1>1, <1>8, <2>2, <2>3
  <2>5. off = o /\ o + 1 < Size
    BY <1>1, <1>2, <2>3, <2>4 DEF Cut
  <2>. QED  BY <1>1, <1>8, <2>3, <2>4, <2>5 DEF Fits
<1>9. /\ Fits => k <= K /\ off = o /\ At(off + 1) = h
      /\ ~Fits => \A j \in 1..K : EndAt(table, j) <= Size => j <= n
  BY <1>7, <1>8
<1>. QED  BY <1>9 DEF n, k, o, h, K

\* Only Push touches the structures found.
LEMMA FoundUnchanged ==
  ASSUME FoundInv, UNCHANGED <<table, blob, out>>
  PROVE  FoundInv'
BY DEF FoundInv, Size

\* Where no header fits, no structure that is whole is left.
LEMMA TornEndOfTable ==
  ASSUME Torn, EndOfTable, table' = table
  PROVE  (FoundInv /\ PlaceInv)'
<1>1. FoundInv'
  BY FoundUnchanged DEF Torn, EndOfTable
<1>2. \A k \in 1..Len(UpToEnd(table)) : EndAt(table, k) <= Size => k <= Len(out)
  BY AtHeader DEF EndOfTable
<1>3. walk' = "done" /\ out' = out /\ Size' = Size
  BY DEF EndOfTable, Size
<1>4. PlaceInv'
  BY <1>2, <1>3 DEF PlaceInv
<1>. QED  BY <1>1, <1>4

\* A header that fits is the next structure's.
LEMMA TornReadHeader ==
  ASSUME Torn, ReadHeader, table' = table
  PROVE  (FoundInv /\ PlaceInv)'
<1>. DEFINE n == Len(out)
            k == n + 1
            o == EndAt(table, n)
            h == Formatted(table[k])
            K == Len(UpToEnd(table))
<1>1. FoundInv'
  BY FoundUnchanged DEF Torn, ReadHeader
<1>2. /\ walk = "header" /\ Fits /\ walk' = "strings"
      /\ cursor' = off + At(off + 1) /\ strings' = <<>>
      /\ off' = off /\ out' = out /\ Size' = Size
  BY DEF ReadHeader, Size
<1>3. k <= K /\ off = o /\ At(off + 1) = h
  BY <1>2, AtHeader
<1>4. /\ n \in Nat /\ K \in Nat /\ Len(table) \in Nat /\ K <= Len(table) /\ k - 1 = n
      /\ table \in Tables /\ off \in Nat /\ Size \in Nat
  BY TornParts DEF Torn
<1>5. k \in 1..Len(table)
  BY <1>3, <1>4
<1>6. /\ h \in Nat /\ StringAt(table, k, 1) = o + h
      /\ table[k] \in FirmwareStructure
  BY <1>4, <1>5, PlacesInTable, TableParts
<1>7. o + h <= Size
  BY <1>2, <1>3 DEF Fits
<1>8. strings' = Found(table, Size, k, 0) /\ Len(strings') = 0
  <2>1. Found(table, Size, k, 0) = <<>>
    <3>1. 1..0 = {}
      OBVIOUS
    <3>. QED  BY <3>1 DEF Found
  <2>. QED  BY <1>2, <2>1
<1>9. Len(table[k].strings) \in Nat
  BY <1>6, StructureParts
<1>10. /\ 0 <= Len(table[k].strings) /\ 0 + 1 = 1 /\ ~(0 > 0)
  BY <1>9
<1>. HIDE DEF k, n, o, h, K
<1>11. /\ k <= K
       /\ off' = o
       /\ o + h <= Size'
       /\ Len(strings') <= Len(table[k].strings)
       /\ strings' = Found(table, Size', k, Len(strings'))
       /\ cursor' = StringAt(table, k, Len(strings') + 1)
       /\ ~(Len(strings') > 0)
  BY <1>2, <1>3, <1>6, <1>7, <1>8, <1>10
<1>12. PlaceInv'
  BY <1>2, <1>11 DEF PlaceInv, k, n, o, h, K
<1>. QED  BY <1>1, <1>12

\* Inside structure k.
LEMMA AtStrings ==
  ASSUME Torn, walk \in {"strings", "push"}
  PROVE  /\ Len(out) + 1 \in 1..Len(UpToEnd(table))
         /\ Len(out) + 1 \in 1..Len(table)
         /\ off = EndAt(table, Len(out))
         /\ off + Formatted(table[Len(out) + 1]) <= Size
         /\ strings = Found(table, Size, Len(out) + 1, Len(strings))
         /\ Len(table[Len(out) + 1].strings) \in Nat
         /\ Len(strings) <= Len(table[Len(out) + 1].strings)
<1>1. /\ Len(out) + 1 <= Len(UpToEnd(table))
      /\ off = EndAt(table, Len(out))
      /\ off + Formatted(table[Len(out) + 1]) <= Size
      /\ Len(strings) <= Len(table[Len(out) + 1].strings)
      /\ strings = Found(table, Size, Len(out) + 1, Len(strings))
      /\ table \in Tables
  BY DEF Torn, PlaceInv
<1>2. /\ Len(out) \in Nat /\ Len(UpToEnd(table)) \in Nat
      /\ Len(table) \in Nat /\ Len(UpToEnd(table)) <= Len(table)
  BY TornParts
<1>3. Len(out) + 1 \in 1..Len(UpToEnd(table)) /\ Len(out) + 1 \in 1..Len(table)
  BY <1>1, <1>2
<1>4. Len(table[Len(out) + 1].strings) \in Nat
  BY <1>1, <1>3, TableParts, StructureParts
<1>. QED  BY <1>1, <1>3, <1>4

\* An empty string set, or none that is there.
LEMMA TornNoStrings ==
  ASSUME Torn, NoStrings, table' = table
  PROVE  (FoundInv /\ PlaceInv)'
<1>. DEFINE n == Len(out)
            k == n + 1
            h == Formatted(table[k])
            e == EndAt(table, k)
<1>1. FoundInv'
  BY FoundUnchanged DEF Torn, NoStrings
<1>2. /\ walk = "strings" /\ strings = <<>> /\ (cursor < Size => At(cursor) = 0)
      /\ walk' = "push" /\ cursor' = EmptySet(cursor)
      /\ off' = off /\ out' = out /\ strings' = strings /\ Size' = Size
  BY DEF NoStrings, Size
<1>3. /\ k \in 1..Len(UpToEnd(table)) /\ k \in 1..Len(table)
      /\ off = EndAt(table, n) /\ off + h <= Size
      /\ strings = Found(table, Size, k, Len(strings))
      /\ Len(table[k].strings) \in Nat
  BY <1>2, AtStrings
<1>4. /\ blob \in Seq(Byte) /\ Size \in Nat /\ cursor \in Nat /\ n \in Nat /\ k - 1 = n
      /\ table \in Tables /\ Genuine /\ off \in Nat
  BY TornParts DEF Torn
<1>5. Len(strings) = 0 /\ cursor = StringAt(table, k, 1)
  BY <1>2 DEF Torn, PlaceInv
<1>6. /\ h \in Nat /\ e \in Nat /\ e >= off + h + 2 /\ cursor = off + h
      /\ table[k].strings = <<>> => e = off + h + 2
  BY <1>3, <1>4, <1>5, PlacesInTable
<1>7. table[k].strings = <<>> <=> Len(table[k].strings) = 0
  <2>1. table[k].strings \in Seq(Seq(1..255))
    BY <1>3, <1>4, TableParts, StructureParts
  <2>. QED  BY <2>1, EmptySeq
<1>8. e <= Size => At(e - 1) = 0
  BY <1>3, <1>4, BytesLeft
<1>9. table[k].strings # <<>> => cursor >= Size
  <2>. SUFFICES ASSUME table[k].strings # <<>>, cursor < Size
                PROVE  FALSE
    BY <1>4
  <2>1. 1 \in 1..Len(table[k].strings)
    BY <1>3, <1>7
  <2>2. At(StringAt(table, k, 1)) # 0
    BY <1>3, <1>4, <1>5, <2>1, StringFound
  <2>. QED  BY <1>2, <1>5, <2>2
<1>10. cursor' = Cut(Size, e)
  <2>1. cursor <= Size
    BY <1>3, <1>6
  <2>2. CASE cursor >= Size
    <3>1. EmptySet(cursor) = cursor /\ cursor = Size
      BY <1>4, <2>1, <2>2 DEF EmptySet
    <3>2. Cut(Size, e) = Size
      BY <1>4, <1>6, <3>1 DEF Cut
    <3>. QED  BY <1>2, <3>1, <3>2
  <2>3. CASE cursor < Size
    <3>1. e = cursor + 2
      BY <1>4, <1>6, <1>9, <2>3
    <3>2. e - 1 = cursor + 1
      BY <1>4, <3>1
    <3>3. cursor + 1 < Size => At(cursor + 1) = 0
      BY <1>4, <1>8, <3>1, <3>2
    <3>4. CASE cursor + 1 < Size
      <4>1. EmptySet(cursor) = cursor + 2
        BY <1>4, <2>3, <3>3, <3>4 DEF EmptySet
      <4>2. Cut(Size, e) = e
        BY <1>4, <3>1, <3>4 DEF Cut
      <4>. QED  BY <1>2, <3>1, <4>1, <4>2
    <3>5. CASE ~(cursor + 1 < Size)
      <4>1. EmptySet(cursor) = cursor + 1 /\ cursor + 1 = Size
        BY <1>4, <2>3, <3>5 DEF EmptySet
      <4>2. Cut(Size, e) = Size
        BY <1>4, <3>1, <4>1 DEF Cut
      <4>. QED  BY <1>2, <4>1, <4>2
    <3>. QED  BY <3>4, <3>5
  <2>. QED  BY <1>4, <2>2, <2>3
<1>11. AllFound(table, Size, k, 0)
  <2>1. 0 \in 0..Len(table[k].strings) /\ ~(0 > 0) /\ 0 + 1 = 1
    BY <1>3
  <2>2. 0 < Len(table[k].strings) => StringAt(table, k, 0 + 1) >= Size
    BY <1>3, <1>5, <1>7, <1>9
  <2>. QED  BY <2>1, <2>2 DEF AllFound
<1>. HIDE DEF e, h
<1>12. /\ k <= Len(UpToEnd(table))
       /\ off' = EndAt(table, n) /\ off' + h <= Size'
       /\ Len(strings') <= Len(table[k].strings)
       /\ strings' = Found(table, Size', k, Len(strings'))
       /\ cursor' = Cut(Size', e)
       /\ AllFound(table, Size', k, Len(strings'))
  BY <1>2, <1>3, <1>5, <1>10, <1>11
<1>13. PlaceInv'
  BY <1>2, <1>12 DEF PlaceInv, e, h
<1>. QED  BY <1>1, <1>13

\* One string more.
LEMMA FoundNext ==
  ASSUME NEW t, NEW n, NEW k, NEW m \in Nat
  PROVE  Found(t, n, k, m + 1) =
           Append(Found(t, n, k, m),
                  [from |-> StringAt(t, k, m + 1),
                   to   |-> Cut(n, StringAt(t, k, m + 1) + Len(t[k].strings[m + 1]))])
<1>. DEFINE part(j) == [from |-> StringAt(t, k, j),
                        to   |-> Cut(n, StringAt(t, k, j) + Len(t[k].strings[j]))]
            S == {part(j) : j \in 1..(m + 1)}
<1>1. Found(t, n, k, m) = [j \in 1..m |-> part(j)]
  BY DEF Found
<1>2. Found(t, n, k, m + 1) = [j \in 1..(m + 1) |-> part(j)]
  BY DEF Found
<1>3. part(m + 1) \in S /\ \A j \in 1..m : part(j) \in S
  OBVIOUS
<1>. HIDE DEF part, S
<1>4. [j \in 1..m |-> part(j)] \in Seq(S) /\ Len([j \in 1..m |-> part(j)]) = m
  BY <1>3
<1>5. Append([j \in 1..m |-> part(j)], part(m + 1)) = [j \in 1..(m + 1) |-> part(j)]
  BY <1>4
<1>. QED  BY <1>1, <1>2, <1>5 DEF part

\* The next string, whole or cut short.
LEMMA TornReadString ==
  ASSUME Torn, ReadString, table' = table
  PROVE  (FoundInv /\ PlaceInv)'
<1>. DEFINE n == Len(out)
            k == n + 1
            h == Formatted(table[k])
            e == EndAt(table, k)
            m == Len(strings)
            j == m + 1
            z == Len(table[k].strings)
            f == StringAt(table, k, j)
            l == Len(table[k].strings[j])
            g == StringAt(table, k, j + 1)
            end == EndOfString(cursor)
<1>1. FoundInv'
  BY FoundUnchanged DEF Torn, ReadString
<1>2. /\ walk = "strings" /\ cursor < Size /\ At(cursor) # 0
      /\ strings' = Append(strings, [from |-> cursor, to |-> end])
      /\ cursor' = CASE end = Size -> Size
                     [] end < Size /\ end + 1 < Size /\ At(end + 1) = 0 -> (end + 1) + 1
                     [] OTHER -> end + 1
      /\ walk' = IF end + 1 < Size /\ At(end + 1) # 0 THEN "strings" ELSE "push"
      /\ off' = off /\ out' = out /\ Size' = Size
  BY DEF ReadString, Size
<1>3. /\ k \in 1..Len(UpToEnd(table)) /\ k \in 1..Len(table)
      /\ off = EndAt(table, n) /\ off + h <= Size
      /\ strings = Found(table, Size, k, m)
      /\ z \in Nat /\ m <= z
  BY <1>2, AtStrings
<1>4. /\ blob \in Seq(Byte) /\ Size \in Nat /\ cursor \in Nat /\ n \in Nat /\ k - 1 = n
      /\ table \in Tables /\ Genuine /\ off \in Nat /\ m \in Nat
      /\ strings \in Seq(Interval)
  BY TornParts DEF Torn
<1>5. cursor = f /\ (m > 0 => m < z)
  BY <1>2 DEF Torn, PlaceInv
<1>6. table[k].strings = <<>> <=> z = 0
  <2>1. table[k].strings \in Seq(Seq(1..255))
    BY <1>3, <1>4, TableParts, StructureParts
  <2>. QED  BY <2>1, EmptySeq
<1>7. m < z
  <2>1. CASE m > 0
    BY <1>5, <2>1
  <2>2. CASE m = 0
    <3>. SUFFICES ASSUME z = 0
                  PROVE  FALSE
      BY <1>3, <2>2
    <3>1. table[k].strings = <<>> /\ j = 1
      BY <1>6, <2>2
    <3>2. At(StringAt(table, k, 1)) = 0
      BY <1>2, <1>3, <1>4, <1>5, <3>1, BytesLeft
    <3>. QED  BY <1>2, <1>5, <3>1, <3>2
  <2>. QED  BY <1>4, <2>1, <2>2
<1>8. j \in 1..z /\ (j = z \/ j + 1 \in 1..z)
  <2>1. m \in Nat /\ z \in Nat
    BY <1>3, <1>4
  <2>. HIDE DEF m, z
  <2>. QED  BY <1>7, <2>1
<1>9. end = Cut(Size, f + l)
  BY <1>2, <1>3, <1>4, <1>5, <1>8, StringFound
<1>10. /\ f \in Nat /\ l \in Nat /\ e \in Nat
       /\ g = f + l + 1 /\ g < e
       /\ j = z => e = g + 1
  <2>1. l \in Nat
    BY <1>3, <1>4, <1>8, TableParts, StructureParts
  <2>2. /\ f \in Nat /\ e \in Nat /\ g = f + l + 1 /\ g < e
    BY <1>3, <1>4, <1>8, PlacesInTable
  <2>3. j = z => e = g + 1
    <3>. SUFFICES ASSUME j = z
                  PROVE  e = g + 1
      OBVIOUS
    <3>1. table[k].strings # <<>>
      BY <1>4, <1>6, <1>7
    <3>2. e = StringAt(table, k, z + 1) + 1
      BY <1>3, <1>4, <3>1, PlacesInTable
    <3>. QED  BY <3>2
  <2>. QED  BY <2>1, <2>2, <2>3
\* What follows the string: the next one, or the end of the set.
<1>11. j # z /\ g < Size => At(g) # 0
  <2>. SUFFICES ASSUME j # z, g < Size
                PROVE  At(g) # 0
    OBVIOUS
  <2>1. j + 1 \in 1..z
    BY <1>8
  <2>. QED  BY <1>3, <1>4, <2>1, StringFound
<1>12. e <= Size => At(e - 1) = 0
  BY <1>3, <1>4, BytesLeft
<1>13. strings' = Found(table, Size, k, j) /\ Len(strings') = j
  <2>1. strings' = Append(Found(table, Size, k, m), [from |-> f, to |-> Cut(Size, f + l)])
    BY <1>2, <1>3, <1>5, <1>9
  <2>2. strings' = Found(table, Size, k, j)
    BY <1>4, <2>1, FoundNext
  <2>3. Len(strings') = j
    <3>. DEFINE new == [from |-> cursor, to |-> end]
    <3>1. strings' = Append(strings, new)
      BY <1>2
    <3>. HIDE DEF new
    <3>. QED  BY <1>4, <3>1
  <2>. QED  BY <2>2, <2>3
<1>14. f < Size
  BY <1>2, <1>5
<1>. HIDE DEF n, h, e, j, z, f, l, g, end
<1>15. CASE end + 1 < Size /\ At(end + 1) # 0
  <2>1. end = f + l /\ end + 1 = g
    BY <1>4, <1>9, <1>10, <1>15 DEF Cut
  <2>2. j # z
    <3>. SUFFICES ASSUME j = z
                  PROVE  FALSE
      OBVIOUS
    <3>1. e = g + 1 /\ e <= Size /\ e - 1 = g
      BY <1>4, <1>10, <1>15, <2>1
    <3>. QED  BY <1>12, <1>15, <2>1, <3>1
  <2>3. cursor' = g /\ walk' = "strings"
    BY <1>2, <1>4, <1>10, <1>15, <2>1
  <2>4. /\ k <= Len(UpToEnd(table))
        /\ off' = EndAt(table, n) /\ off' + h <= Size'
        /\ Len(strings') <= z
        /\ strings' = Found(table, Size', k, Len(strings'))
        /\ cursor' = StringAt(table, k, Len(strings') + 1)
        /\ cursor' < Size' /\ Len(strings') < z
    <3>1. j <= z /\ j < z
      BY <1>3, <1>8, <2>2
    <3>2. g = StringAt(table, k, j + 1)
      BY DEF g
    <3>. QED  BY <1>2, <1>3, <1>13, <1>15, <2>1, <2>3, <3>1, <3>2
  <2>5. PlaceInv'
    BY <1>2, <2>3, <2>4 DEF PlaceInv, n, h, z
  <2>. QED  BY <1>1, <2>5
<1>16. CASE ~(end + 1 < Size /\ At(end + 1) # 0)
  <2>1. walk' = "push"
    BY <1>2, <1>16
  <2>0. cursor' = CASE end = Size -> Size
                    [] end < Size /\ end + 1 < Size /\ At(end + 1) = 0 -> (end + 1) + 1
                    [] OTHER -> end + 1
    BY <1>2
  <2>2. /\ cursor' = Cut(Size, e)
        /\ j # z => g >= Size
    <3>1. CASE f + l >= Size
      <4>1. end = Size /\ Cut(Size, e) = Size /\ g >= Size
        BY <1>4, <1>9, <1>10, <3>1 DEF Cut
      <4>2. cursor' = Size
        <5>1. ~(end < Size)
          BY <1>4, <4>1
        <5>. QED  BY <2>0, <4>1, <5>1
      <4>. QED  BY <4>1, <4>2
    <3>2. CASE f + l < Size
      <4>1. end = f + l /\ end + 1 = g /\ end # Size /\ end < Size
        BY <1>4, <1>9, <1>10, <3>2 DEF Cut
      <4>2. CASE g < Size
        <5>1. At(g) = 0 /\ j = z
          BY <1>11, <1>16, <4>1, <4>2
        <5>2. cursor' = g + 1
          BY <1>2, <4>1, <4>2, <5>1
        <5>3. e = g + 1 /\ Cut(Size, e) = e
          BY <1>4, <1>10, <4>2, <5>1 DEF Cut
        <5>. QED  BY <5>1, <5>2, <5>3
      <4>3. CASE ~(g < Size)
        <5>0. ~(end + 1 < Size) /\ g = Size
          BY <1>4, <1>10, <4>1, <4>3
        <5>1. cursor' = g /\ g = Size
          BY <2>0, <4>1, <5>0
        <5>2. Cut(Size, e) = Size
          BY <1>4, <1>10, <5>1 DEF Cut
        <5>. QED  BY <1>4, <5>1, <5>2
      <4>. QED  BY <4>2, <4>3
    <3>. QED  BY <1>4, <1>10, <3>1, <3>2
  <2>3. AllFound(table, Size, k, j)
    <3>1. j \in 0..z /\ (j < z => j # z)
      BY <1>3, <1>8
    <3>2. f < Size /\ f = StringAt(table, k, j) /\ g = StringAt(table, k, j + 1)
      BY <1>14 DEF f, g
    <3>. QED  BY <2>2, <3>1, <3>2 DEF AllFound, z
  <2>4. /\ k <= Len(UpToEnd(table))
        /\ off' = EndAt(table, n) /\ off' + h <= Size'
        /\ Len(strings') <= z
        /\ strings' = Found(table, Size', k, Len(strings'))
        /\ cursor' = Cut(Size', e)
        /\ AllFound(table, Size', k, Len(strings'))
    <3>1. j <= z
      BY <1>3, <1>8
    <3>. QED  BY <1>2, <1>3, <1>13, <2>2, <2>3, <3>1
  <2>5. PlaceInv'
    BY <1>2, <2>1, <2>4 DEF PlaceInv, n, h, e, z
  <2>. QED  BY <1>1, <2>5
<1>. QED  BY <1>15, <1>16

\* A structure found is the table's next.
LEMMA TornPush ==
  ASSUME Torn, Push, table' = table
  PROVE  (FoundInv /\ PlaceInv)'
<1>. DEFINE n == Len(out)
            k == n + 1
            h == Formatted(table[k])
            e == EndAt(table, k)
            K == Len(UpToEnd(table))
            new == [at |-> off, len |-> At(off + 1), typ |-> At(off),
                    strings |-> strings, next |-> cursor]
<1>1. /\ walk = "push" /\ out' = Append(out, new) /\ Size' = Size
      /\ IF At(off) = 127 \/ cursor <= off
         THEN walk' = "done" /\ UNCHANGED off
         ELSE walk' = "header" /\ off' = cursor
  BY DEF Push, Size
<1>2. /\ k \in 1..K /\ k \in 1..Len(table)
      /\ off = EndAt(table, n) /\ off + h <= Size
      /\ strings = Found(table, Size, k, Len(strings))
      /\ Len(table[k].strings) \in Nat
      /\ Len(strings) <= Len(table[k].strings)
  BY <1>1, AtStrings
<1>3. /\ blob \in Seq(Byte) /\ Size \in Nat /\ cursor \in Nat /\ n \in Nat /\ k - 1 = n
      /\ table \in Tables /\ Genuine /\ off \in Nat /\ out \in Seq(Structure)
      /\ strings \in Seq(Interval) /\ Len(strings) \in Nat /\ K \in Nat
  BY TornParts DEF Torn
<1>4. cursor = Cut(Size, e) /\ AllFound(table, Size, k, Len(strings))
  BY <1>1 DEF Torn, PlaceInv
<1>5. /\ h \in Nat /\ h >= 4 /\ e \in Nat /\ e >= off + h + 2
  BY <1>2, <1>3, PlacesInTable
<1>6. At(off) = table[k].typ /\ At(off + 1) = h
  <2>0. off \in Nat /\ Size \in Nat /\ off + h <= Size
    BY <1>2, <1>3
  <2>1. off < Size /\ off + 1 < Size
    <3>. HIDE DEF h
    <3>. QED  BY <1>5, <2>0
  <2>2. off = EndAt(table, k - 1)
    BY <1>2, <1>3
  <2>. QED  BY <1>2, <1>3, <2>1, <2>2, BytesLeft
<1>7. IsStructure(table, Size, k, new)
  <2>1. /\ new.at = off /\ new.len = At(off + 1) /\ new.typ = At(off)
        /\ new.strings = strings
    OBVIOUS
  <2>. HIDE DEF new, k, h
  <2>2. Len(strings) \in 0..Len(table[k].strings)
    BY <1>2, <1>3
  <2>3. /\ new.at = EndAt(table, k - 1) /\ new.len = Formatted(table[k])
        /\ new.typ = table[k].typ /\ new.at + new.len <= Size
    BY <1>2, <1>3, <1>6, <2>1 DEF h
  <2>. QED  BY <1>2, <1>4, <2>1, <2>2, <2>3 DEF IsStructure
<1>8. /\ Len(out') = k
      /\ \A i \in 1..n : out'[i] = out[i]
      /\ out'[k] = new
  <2>1. new \in Structure
    <3>1. At(off) \in Byte /\ At(off + 1) \in Nat
      <4>1. table[k] \in FirmwareStructure
        BY <1>2, <1>3, TableParts
      <4>. QED  BY <1>5, <1>6, <4>1, StructureParts
    <3>. QED  BY <1>3, <3>1 DEF Structure
  <2>. HIDE DEF new
  <2>. QED  BY <1>1, <1>3, <2>1
<1>9. \A i \in 1..n : IsStructure(table, Size, i, out[i])
  BY DEF Torn, FoundInv
<1>. HIDE DEF new, h, e, K
<1>10. FoundInv'
  <2>1. Len(out') <= K
    BY <1>2, <1>3, <1>8
  <2>2. ASSUME NEW i \in 1..Len(out')
        PROVE  IsStructure(table, Size, i, out'[i])
    <3>1. CASE i = k
      BY <1>7, <1>8, <3>1
    <3>2. CASE i # k
      <4>1. i \in 1..n
        BY <1>3, <1>8, <3>2
      <4>. QED  BY <1>8, <1>9, <4>1
    <3>. QED  BY <3>1, <3>2
  <2>. QED  BY <1>1, <2>1, <2>2 DEF FoundInv, K
<1>11. ~(cursor <= off)
  <2>1. off \in Nat /\ Size \in Nat /\ off + h <= Size /\ cursor = Cut(Size, e)
    BY <1>2, <1>3, <1>4
  <2>. QED  BY <1>5, <2>1 DEF Cut
<1>12. CASE At(off) = 127
  <2>1. walk' = "done"
    BY <1>1, <1>12
  <2>2. \A i \in 1..(K - 1) : table[i].typ # 127
    BY <1>3, UpToEndParts DEF K
  <2>3. K = k
    <3>0. table[k].typ = 127
      BY <1>6, <1>12
    <3>1. k \notin 1..(K - 1)
      BY <2>2, <3>0
    <3>2. K \in Nat /\ k \in 1..K
      BY <1>2, <1>3
    <3>. HIDE DEF k
    <3>. QED  BY <3>1, <3>2
  <2>4. \A j \in 1..K : EndAt(table, j) <= Size' => j <= Len(out')
    BY <1>2, <1>3, <1>8, <2>3
  <2>5. PlaceInv'
    BY <2>1, <2>4 DEF PlaceInv, K
  <2>. QED  BY <1>10, <2>5
<1>13. CASE At(off) # 127
  <2>1. walk' = "header" /\ off' = Cut(Size', e) /\ table[k].typ # 127
    BY <1>1, <1>4, <1>6, <1>11, <1>13
  <2>2. off' = Cut(Size', EndAt(table, Len(out'))) /\ table[Len(out')].typ # 127
    BY <1>8, <2>1 DEF e
  <2>3. PlaceInv'
    BY <2>1, <2>2 DEF PlaceInv
  <2>. QED  BY <1>10, <2>3
<1>. QED  BY <1>12, <1>13

\* Before the first structure.
LEMMA TornInit ==
  ASSUME Init
  PROVE  TornInv
<1>1. /\ table \in Tables /\ walk = "header" /\ off = 0 /\ out = <<>> /\ Len(out) = 0
      /\ blob \in Seq(Byte)
  BY BlobsAssumption DEF Init, WalkInit
<1>2. EndAt(table, 0) = 0 /\ Size \in Nat
  BY <1>1, TableLayout DEF Size
<1>3. FoundInv
  <2>1. Len(UpToEnd(table)) \in Nat
    BY <1>1, UpToEndParts, TableParts
  <2>. QED  BY <1>1, <2>1 DEF FoundInv
<1>4. PlaceInv
  <2>1. off = Cut(Size, EndAt(table, Len(out)))
    BY <1>1, <1>2 DEF Cut
  <2>. QED  BY <1>1, <2>1 DEF PlaceInv
<1>. QED  BY <1>1, <1>3, <1>4 DEF TornInv

\* Parsing leaves the table and the walk alone.
LEMMA TornUnchanged ==
  ASSUME TornInv, UNCHANGED <<walkVars, table>>
  PROVE  TornInv'
BY DEF TornInv, FoundInv, PlaceInv, Genuine, Size, walkVars

\* Every step.
LEMMA TornStep ==
  ASSUME TornInv, WalkInv, [Next]_vars
  PROVE  TornInv'
<1>1. CASE WalkNext /\ UNCHANGED parseVars
  <2>1. table' = table /\ blob' = blob /\ table \in Tables
    BY <1>1 DEF parseVars, TornInv, WalkNext, EndOfTable, ReadHeader, NoStrings, ReadString,
                Push
  <2>2. Genuine' <=> Genuine
    BY <2>1 DEF Genuine
  <2>. SUFFICES ASSUME table # <<>>, Genuine
                PROVE  (FoundInv /\ PlaceInv)'
    BY <2>1, <2>2 DEF TornInv
  <2>3. Torn
    BY DEF TornInv, Torn
  <2>. QED
    BY <1>1, <2>1, <2>3, TornEndOfTable, TornReadHeader, TornNoStrings, TornReadString,
       TornPush DEF WalkNext
<1>2. CASE Collect \/ HeaderLine \/ MentionLine \/ FieldLine \/ EndOfText \/ UNCHANGED vars
  <2>1. UNCHANGED <<walkVars, table>>
    BY <1>2 DEF Collect, HeaderLine, MentionLine, FieldLine, EndOfText, vars, parseVars
  <2>. QED  BY <2>1, TornUnchanged
<1>. QED  BY <1>1, <1>2 DEF Next

\* The walk's own invariant, in the machine around it.
LEMMA WalkStep ==
  ASSUME WalkInv, [Next]_vars
  PROVE  WalkInv'
<1>1. [WalkNext]_walkVars
  BY DEF Next, Collect, HeaderLine, MentionLine, FieldLine, EndOfText, vars
<1>. QED  BY <1>1, WalkInvStep

-----------------------------------------------------------------------------
(* What the invariant says of the structures found. *)

\* The texts of a structure found.
Told(s) == [j \in DOMAIN s.strings |-> SubSeq(blob, s.strings[j].from + 1, s.strings[j].to)]

\* Some bytes of the table that are known.
LEMMA BytesAre ==
  ASSUME blob \in Seq(Byte), NEW f \in Nat, NEW c \in Nat, f <= c, c <= Size,
         NEW str \in Seq(Byte), c - f <= Len(str),
         \A i \in 1..(c - f) : blob[f + i] = str[i]
  PROVE  /\ SubSeq(blob, f + 1, c) = SubSeq(str, 1, c - f)
         /\ Len(SubSeq(blob, f + 1, c)) = c - f
         /\ IsPrefix(SubSeq(blob, f + 1, c), str)
         /\ c - f = Len(str) => SubSeq(blob, f + 1, c) = str
<1>. DEFINE w == c - f
            p == SubSeq(blob, f + 1, c)
            q == SubSeq(str, 1, w)
<1>1. Len(blob) \in Nat /\ Len(blob) = Size /\ w \in Nat /\ Len(str) \in Nat
  BY DEF Size
<1>2. /\ p \in Seq(Byte) /\ Len(p) = w
      /\ \A i \in 1..w : p[i] = blob[f + i]
  BY <1>1
<1>3. /\ q \in Seq(Byte) /\ Len(q) = w
      /\ \A i \in 1..w : q[i] = str[i]
  BY <1>1
<1>. HIDE DEF w, p, q
<1>4. p = q
  <2>1. \A i \in 1..Len(p) : p[i] = q[i]
    BY <1>2, <1>3 DEF w
  <2>. QED  BY <1>2, <1>3, <2>1, SeqEqual
<1>5. SubSeq(p, 1, w) = p
  <2>1. Len(SubSeq(p, 1, w)) = w /\ SubSeq(p, 1, w) \in Seq(Byte)
        /\ \A i \in 1..w : SubSeq(p, 1, w)[i] = p[i]
    BY <1>1, <1>2
  <2>. QED  BY <1>2, <2>1, SeqEqual
<1>6. IsPrefix(p, str)
  <2>1. Len(p) <= Len(str)
    BY <1>2 DEF w
  <2>2. SubSeq(p, 1, Len(p)) = SubSeq(str, 1, Len(p))
    BY <1>2, <1>4, <1>5 DEF q
  <2>. QED  BY <2>1, <2>2 DEF IsPrefix
<1>7. w = Len(str) => p = str
  <2>. SUFFICES ASSUME w = Len(str)
                PROVE  p = str
    OBVIOUS
  <2>1. \A i \in 1..Len(p) : p[i] = str[i]
    BY <1>2, <1>3, <1>4
  <2>. QED  BY <1>2, <2>1, SeqEqual
<1>. QED  BY <1>2, <1>4, <1>6, <1>7 DEF p, q, w

\* What is told of string j is its beginning, and all of it unless cut off.
LEMMA StringTold ==
  ASSUME table \in Tables, Genuine, blob \in Seq(Byte), NEW k \in 1..Len(table),
         NEW j \in 1..Len(table[k].strings), StringAt(table, k, j) < Size
  PROVE  LET f == StringAt(table, k, j)
             l == Len(table[k].strings[j])
             told == SubSeq(blob, f + 1, Cut(Size, f + l))
         IN  /\ IsPrefix(told, table[k].strings[j])
             /\ f + l <= Size => told = table[k].strings[j]
<1>. DEFINE f == StringAt(table, k, j)
            str == table[k].strings[j]
            l == Len(str)
            c == Cut(Size, f + l)
<1>1. /\ f \in Nat /\ l \in Nat /\ Size \in Nat /\ str \in Seq(1..255)
  <2>1. table[k] \in FirmwareStructure
    BY TableParts
  <2>2. f \in Nat
    BY PlacesInTable
  <2>3. str \in Seq(1..255) /\ l \in Nat
    BY <2>1, StructureParts
  <2>4. Size \in Nat
    BY GenuineBytes
  <2>. HIDE DEF f, str
  <2>. QED  BY <2>2, <2>3, <2>4
<1>2. \A i \in 1..l : f + i <= Size => blob[f + i] = str[i]
  BY BytesLeft
<1>3. str \in Seq(Byte)
  <2>1. 1..255 \subseteq Byte
    BY DEF Byte
  <2>. QED  BY <1>1, <2>1, SeqMonotonic
<1>4. f < Size
  OBVIOUS
<1>. HIDE DEF f, str
<1>5. /\ c \in Nat /\ f <= c /\ c <= Size /\ c - f <= l
      /\ f + l <= Size => c - f = l
  <2>. HIDE DEF l
  <2>. QED  BY <1>1, <1>4 DEF Cut
<1>. HIDE DEF c
<1>6. \A i \in 1..(c - f) : blob[f + i] = str[i]
  <2>. HIDE DEF l
  <2>1. \A i \in 1..(c - f) : i \in 1..l /\ f + i <= Size
    BY <1>1, <1>5
  <2>. QED  BY <1>2, <2>1
<1>7. /\ IsPrefix(SubSeq(blob, f + 1, c), str)
      /\ c - f = Len(str) => SubSeq(blob, f + 1, c) = str
  BY <1>1, <1>3, <1>5, <1>6, BytesAre
<1>. QED  BY <1>5, <1>7 DEF f, str, c

\* The texts of a structure: all of them if it is whole, else the first ones,
\* the last of which may be cut short.
LEMMA StructureTold ==
  ASSUME table \in Tables, Genuine, blob \in Seq(Byte), NEW k \in 1..Len(table),
         NEW s, NEW m \in 0..Len(table[k].strings),
         AllFound(table, Size, k, m), s.strings = Found(table, Size, k, m)
  PROVE  /\ EndAt(table, k) <= Size => Told(s) = table[k].strings
         /\ \/ Told(s) = <<>>
            \/ /\ IsPrefix(Front(Told(s)), table[k].strings)
               /\ Len(Told(s)) <= Len(table[k].strings)
               /\ IsPrefix(Last(Told(s)), table[k].strings[Len(Told(s))])
<1>. DEFINE strs == table[k].strings
            z == Len(strs)
            f(j) == StringAt(table, k, j)
            l(j) == Len(strs[j])
            piece(j) == SubSeq(blob, f(j) + 1, Cut(Size, f(j) + l(j)))
            told == Told(s)
<1>1. /\ z \in Nat /\ strs \in Seq(Seq(1..255)) /\ m \in Nat /\ m <= z
      /\ \A j \in 1..z : l(j) \in Nat
  <2>1. table[k] \in FirmwareStructure
    BY TableParts
  <2>. QED  BY <2>1, StructureParts
<1>2. /\ \A j \in 1..z : /\ f(j) \in Nat
                         /\ f(j + 1) = f(j) + l(j) + 1
                         /\ f(j + 1) < EndAt(table, k)
                         /\ \A i \in 1..j : f(i) <= f(j)
      /\ EndAt(table, k) \in Nat /\ Size \in Nat
  BY PlacesInTable, GenuineBytes
<1>3. /\ m > 0 => f(m) < Size
      /\ m < z => f(m + 1) >= Size
  BY DEF AllFound
<1>4. told = [j \in 1..m |-> piece(j)]
  <2>1. DOMAIN s.strings = 1..m
    BY DEF Found
  <2>2. \A j \in 1..m : /\ s.strings[j].from = f(j)
                        /\ s.strings[j].to = Cut(Size, f(j) + l(j))
    BY DEF Found
  <2>. HIDE DEF f, l
  <2>. QED  BY <2>1, <2>2 DEF Told
<1>5. ASSUME NEW j \in 1..m
      PROVE  /\ j \in 1..z
             /\ IsPrefix(piece(j), strs[j])
             /\ f(j) + l(j) <= Size => piece(j) = strs[j]
             /\ j # m => f(j) + l(j) <= Size
  <2>1. j \in 1..z /\ m \in 1..z /\ m > 0
    BY <1>1
  <2>2. f(j) < Size
    <3>1. f(j) <= f(m) /\ f(j) \in Nat /\ f(m) \in Nat
      BY <1>2, <2>1
    <3>. HIDE DEF f
    <3>. QED  BY <1>2, <1>3, <2>1, <3>1
  <2>3. /\ IsPrefix(piece(j), strs[j])
        /\ f(j) + l(j) <= Size => piece(j) = strs[j]
    BY <2>1, <2>2, StringTold
  <2>4. j # m => f(j) + l(j) <= Size
    <3>. SUFFICES ASSUME j # m
                  PROVE  f(j) + l(j) <= Size
      OBVIOUS
    <3>1. j + 1 \in 1..m
      BY <1>1
    <3>2. f(j + 1) = f(j) + l(j) + 1 /\ f(j + 1) <= f(m) /\ l(j) \in Nat /\ f(j) \in Nat
          /\ f(m) \in Nat
      BY <1>1, <1>2, <2>1, <3>1
    <3>. HIDE DEF f, l
    <3>. QED  BY <1>2, <1>3, <2>1, <3>2
  <2>. QED  BY <2>1, <2>3, <2>4
<1>. HIDE DEF f, l, piece, told
<1>6. ASSUME EndAt(table, k) <= Size
      PROVE  told = strs
  <2>1. m = z
    <3>. SUFFICES ASSUME m < z
                  PROVE  FALSE
      BY <1>1
    <3>1. m + 1 \in 1..z
      BY <1>1
    <3>2. /\ f(m + 1) \in Nat /\ l(m + 1) \in Nat
          /\ f((m + 1) + 1) = f(m + 1) + l(m + 1) + 1 /\ f((m + 1) + 1) < EndAt(table, k)
      BY <1>1, <1>2, <3>1
    <3>. QED  BY <1>2, <1>3, <1>6, <3>2
  <2>2. ASSUME NEW j \in 1..m
        PROVE  piece(j) = strs[j]
    <3>1. j \in 1..z
      BY <1>5
    <3>2. /\ f(j) \in Nat /\ l(j) \in Nat
          /\ f(j + 1) = f(j) + l(j) + 1 /\ f(j + 1) < EndAt(table, k)
      BY <1>1, <1>2, <3>1
    <3>3. f(j) + l(j) <= Size
      BY <1>2, <1>6, <3>2
    <3>. QED  BY <1>5, <3>3
  <2>3. told = [j \in 1..z |-> strs[j]]
    BY <1>4, <2>1, <2>2
  <2>. HIDE DEF strs
  <2>. QED  BY <1>1, <2>3
<1>7. CASE m = 0
  <2>1. told = <<>>
    <3>1. 1..m = {}
      BY <1>7
    <3>. QED  BY <1>4, <3>1
  <2>. QED  BY <1>6, <2>1 DEF told
<1>8. CASE m # 0
  <2>. DEFINE S == {piece(j) : j \in 1..m}
  <2>1. told \in Seq(S) /\ Len(told) = m
    <3>1. \A j \in 1..m : piece(j) \in S
      OBVIOUS
    <3>. HIDE DEF S
    <3>2. told \in [1..m -> S]
      BY <1>4, <3>1
    <3>. QED  BY <1>1, <3>2
  <2>2. m \in 1..m
    BY <1>1, <1>8
  <2>3. Last(told) = piece(m)
    BY <1>4, <2>1, <2>2 DEF Last
  <2>. HIDE DEF S, strs
  <2>4. /\ Len(Front(told)) = m - 1 /\ Front(told) \in Seq(S)
        /\ \A j \in 1..(m - 1) : Front(told)[j] = told[j]
    BY <1>1, <1>8, <2>1 DEF Front
  <2>5. IsPrefix(Front(told), strs)
    <3>. DEFINE p == Front(told)
                a == SubSeq(p, 1, m - 1)
                b == SubSeq(strs, 1, m - 1)
    <3>1. m - 1 \in Nat /\ m - 1 <= z
      BY <1>1, <1>8
    <3>2. ASSUME NEW j \in 1..(m - 1)
          PROVE  p[j] = strs[j]
      <4>1. j \in 1..m /\ j # m
        BY <1>1
      <4>2. told[j] = piece(j) /\ piece(j) = strs[j]
        BY <1>4, <1>5, <4>1
      <4>. QED  BY <2>4, <4>2
    <3>. HIDE DEF p
    <3>3. a = [j \in 1..(m - 1) |-> p[j]]
      BY <2>4, <3>1 DEF p
    <3>4. b = [j \in 1..(m - 1) |-> strs[j]]
      BY <1>1, <3>1
    <3>5. a = b
      <4>. HIDE DEF a, b
      <4>. QED  BY <3>2, <3>3, <3>4
    <3>6. Len(p) = m - 1 /\ Len(p) <= Len(strs)
      BY <2>4, <3>1 DEF p
    <3>. QED  BY <3>5, <3>6 DEF IsPrefix, p
  <2>6. IsPrefix(Last(told), strs[Len(told)]) /\ Len(told) <= z
    BY <1>1, <1>5, <2>1, <2>2, <2>3
  <2>. QED  BY <1>6, <2>5, <2>6 DEF told, strs
<1>. QED  BY <1>7, <1>8

\* The formatted area of a structure is what firmware put there.
LEMMA BodyTold ==
  ASSUME table \in Tables, Genuine, blob \in Seq(Byte), NEW k \in 1..Len(table),
         EndAt(table, k - 1) + Formatted(table[k]) <= Size
  PROVE  SubSeq(blob, EndAt(table, k - 1) + 5,
                EndAt(table, k - 1) + Formatted(table[k])) = table[k].body
<1>. DEFINE o == EndAt(table, k - 1)
            h == Formatted(table[k])
            b == table[k].body
            f == o + 4
            c == o + h
<1>1. o \in Nat /\ h \in Nat /\ Size \in Nat
  BY PlacesInTable, GenuineBytes
<1>2. b \in Seq(Byte) /\ Len(b) \in Nat /\ h = 4 + Len(b)
  <2>1. table[k] \in FirmwareStructure
    BY TableParts
  <2>. QED  BY <2>1, StructureParts DEF Formatted
<1>3. \A i \in 1..Len(b) : o + 4 + i <= Size => blob[o + 4 + i] = b[i]
  BY BytesLeft
<1>4. c <= Size
  OBVIOUS
<1>. HIDE DEF o, h, b
<1>5. f \in Nat /\ c \in Nat /\ f <= c /\ c - f = Len(b) /\ f + 1 = o + 5
  <2>. DEFINE lb == Len(b)
  <2>1. lb \in Nat /\ h = 4 + lb
    BY <1>2
  <2>. HIDE DEF lb
  <2>2. f \in Nat /\ c \in Nat /\ f <= c /\ c - f = lb /\ f + 1 = o + 5
    BY <1>1, <2>1
  <2>. QED  BY <2>2 DEF lb
<1>6. \A i \in 1..(c - f) : blob[f + i] = b[i]
  <2>1. \A i \in 1..(c - f) : i \in 1..Len(b) /\ o + 4 + i <= Size
    BY <1>1, <1>4, <1>5
  <2>. QED  BY <1>3, <2>1
<1>7. c - f <= Len(b)
  BY <1>2, <1>5
<1>. HIDE DEF f, c
<1>8. SubSeq(blob, f + 1, c) = b
  BY <1>2, <1>4, <1>5, <1>6, <1>7, BytesAre
<1>9. SubSeq(blob, o + 5, c) = b
  BY <1>5, <1>8
<1>. QED  BY <1>9 DEF c, o, h, b

\* One structure found, as the property states it.
LEMMA FoundIsGenuine ==
  ASSUME table \in Tables, Genuine, blob \in Seq(Byte), NEW k \in 1..Len(table),
         NEW s, IsStructure(table, Size, k, s)
  PROVE  /\ s.typ = table[k].typ
         /\ SubSeq(blob, s.at + 5, s.at + s.len) = table[k].body
         /\ EndAt(table, k) <= Size => Told(s) = table[k].strings
         /\ \/ Told(s) = <<>>
            \/ /\ IsPrefix(Front(Told(s)), table[k].strings)
               /\ Len(Told(s)) <= Len(table[k].strings)
               /\ IsPrefix(Last(Told(s)), table[k].strings[Len(Told(s))])
<1>1. /\ s.at = EndAt(table, k - 1) /\ s.len = Formatted(table[k])
      /\ s.typ = table[k].typ /\ s.at + s.len <= Size
  BY DEF IsStructure
<1>2. PICK m \in 0..Len(table[k].strings) :
        AllFound(table, Size, k, m) /\ s.strings = Found(table, Size, k, m)
  BY DEF IsStructure
<1>3. SubSeq(blob, s.at + 5, s.at + s.len) = table[k].body
  BY <1>1, BodyTold
<1>4. /\ EndAt(table, k) <= Size => Told(s) = table[k].strings
      /\ \/ Told(s) = <<>>
         \/ /\ IsPrefix(Front(Told(s)), table[k].strings)
            /\ Len(Told(s)) <= Len(table[k].strings)
            /\ IsPrefix(Last(Told(s)), table[k].strings[Len(Told(s))])
  BY <1>2, StructureTold
<1>. QED  BY <1>1, <1>3, <1>4

\* The invariant tells what the property asks.
LEMMA TornTells ==
  ASSUME WalkInv, TornInv
  PROVE  TornTableInventsNothing
<1>. SUFFICES ASSUME walk = "done", table # <<>>, Genuine
              PROVE  /\ Len(out) <= Len(UpToEnd(table))
                     /\ \A k \in DOMAIN out :
                          /\ out[k].typ = table[k].typ
                          /\ SubSeq(blob, out[k].at + 5, out[k].at + out[k].len)
                               = table[k].body
                          /\ IF k < Len(out) \/ Whole THEN Told(out[k]) = table[k].strings
                             ELSE \/ Told(out[k]) = <<>>
                                  \/ /\ IsPrefix(Front(Told(out[k])), table[k].strings)
                                     /\ Len(Told(out[k])) <= Len(table[k].strings)
                                     /\ IsPrefix(Last(Told(out[k])),
                                                 table[k].strings[Len(Told(out[k]))])
                     /\ \A k \in DOMAIN UpToEnd(table) :
                          Len(EncodeAll(SubSeq(table, 1, k))) <= Size => k \in DOMAIN out
  BY Zenon DEF TornTableInventsNothing, Told
<1>1. Torn
  BY DEF TornInv, Torn
<1>2. /\ blob \in Seq(Byte) /\ Size \in Nat /\ out \in Seq(Structure) /\ Len(out) \in Nat
      /\ Len(table) \in Nat /\ Len(UpToEnd(table)) \in Nat
      /\ Len(out) <= Len(UpToEnd(table)) /\ Len(UpToEnd(table)) <= Len(table)
      /\ table \in Tables
  BY <1>1, TornParts DEF Torn
<1>3. DOMAIN out = 1..Len(out)
  BY <1>2
<1>4. \A k \in 1..Len(out) : k \in 1..Len(table) /\ IsStructure(table, Size, k, out[k])
  <2>1. \A k \in 1..Len(out) : k \in 1..Len(table)
    BY <1>2
  <2>. QED  BY <1>1, <2>1 DEF Torn, FoundInv
<1>5. ASSUME NEW k \in 1..Len(out), k < Len(out) \/ Whole
      PROVE  EndAt(table, k) <= Size
  <2>0. k \in 1..Len(table)
    BY <1>4
  <2>1. CASE k < Len(out)
    <3>1. k + 1 \in 1..Len(out) /\ (k + 1) - 1 = k
      BY <1>2, <2>1
    <3>2. /\ k + 1 \in 1..Len(table)
          /\ out[k + 1].at = EndAt(table, (k + 1) - 1)
          /\ out[k + 1].len = Formatted(table[k + 1])
          /\ out[k + 1].at + out[k + 1].len <= Size
      BY <1>4, <3>1 DEF IsStructure
    <3>3. EndAt(table, (k + 1) - 1) \in Nat /\ Formatted(table[k + 1]) \in Nat
      BY <1>2, <3>2, PlacesInTable
    <3>4. EndAt(table, k) + Formatted(table[k + 1]) <= Size
          /\ EndAt(table, k) \in Nat /\ Formatted(table[k + 1]) \in Nat
      BY <3>1, <3>2, <3>3
    <3>. QED  BY <1>2, <3>4
  <2>2. CASE Whole
    <3>1. Size = EndAt(table, Len(table))
      BY <1>2, <2>2, TableLayout DEF Whole, Size
    <3>2. k \in 0..Len(table)
      BY <1>2, <2>0
    <3>3. EndAt(table, k) <= EndAt(table, Len(table))
      BY <1>2, <3>2, TableLayout
    <3>. QED  BY <3>1, <3>3
  <2>. QED  BY <1>5, <2>1, <2>2
<1>6. ASSUME NEW k \in DOMAIN out
      PROVE  /\ out[k].typ = table[k].typ
             /\ SubSeq(blob, out[k].at + 5, out[k].at + out[k].len) = table[k].body
             /\ IF k < Len(out) \/ Whole THEN Told(out[k]) = table[k].strings
                ELSE \/ Told(out[k]) = <<>>
                     \/ /\ IsPrefix(Front(Told(out[k])), table[k].strings)
                        /\ Len(Told(out[k])) <= Len(table[k].strings)
                        /\ IsPrefix(Last(Told(out[k])), table[k].strings[Len(Told(out[k]))])
  <2>1. k \in 1..Len(out) /\ k \in 1..Len(table) /\ IsStructure(table, Size, k, out[k])
    BY <1>3, <1>4
  <2>2. /\ out[k].typ = table[k].typ
        /\ SubSeq(blob, out[k].at + 5, out[k].at + out[k].len) = table[k].body
        /\ EndAt(table, k) <= Size => Told(out[k]) = table[k].strings
        /\ \/ Told(out[k]) = <<>>
           \/ /\ IsPrefix(Front(Told(out[k])), table[k].strings)
              /\ Len(Told(out[k])) <= Len(table[k].strings)
              /\ IsPrefix(Last(Told(out[k])), table[k].strings[Len(Told(out[k]))])
    BY <1>2, <2>1, FoundIsGenuine
  <2>3. k < Len(out) \/ Whole => Told(out[k]) = table[k].strings
    BY <1>5, <2>1, <2>2
  <2>. QED  BY <2>2, <2>3, Zenon
<1>7. ASSUME NEW k \in DOMAIN UpToEnd(table), Len(EncodeAll(SubSeq(table, 1, k))) <= Size
      PROVE  k \in DOMAIN out
  <2>1. k \in 1..Len(UpToEnd(table))
    BY <1>2, UpToEndParts
  <2>2. k \in 0..Len(table)
    BY <1>2, <2>1
  <2>3. EndAt(table, k) <= Size
    BY <1>2, <1>7, <2>2, FirstEncoded
  <2>4. k <= Len(out)
    BY <1>1, <2>1, <2>3 DEF Torn, PlaceInv
  <2>. QED  BY <1>2, <1>3, <2>1, <2>4
<1>. QED  BY <1>2, <1>6, <1>7

\* A table of any structures, cut off anywhere, yields the structures that are
\* whole and at most one more whose strings are cut short: none is invented,
\* left out or read shifted (iter_smbios_structures, parse_string_table).
THEOREM TornTableInventsNothingHolds == Spec => []TornTableInventsNothing
<1>1. Init => WalkInv /\ TornInv
  BY WalkInvInit, TornInit DEF Init
<1>2. WalkInv /\ TornInv /\ [Next]_vars => (WalkInv /\ TornInv)'
  BY WalkStep, TornStep
<1>3. WalkInv /\ TornInv => TornTableInventsNothing
  BY TornTells
<1>. QED  BY <1>1, <1>2, <1>3, PTL DEF Spec

\* The walk inside is the walk of SmbiosWalk: what is proved of it holds here.
THEOREM SpecWalks == Spec => WalkSpec
<1>1. Init => WalkInit
  BY DEF Init
<1>2. [Next]_vars => [WalkNext]_walkVars
  BY DEF Next, Collect, HeaderLine, MentionLine, FieldLine, EndOfText, vars
<1>. QED  BY <1>1, <1>2, PTL DEF Spec, WalkSpec
-----------------------------------------------------------------------------
(***************************************************************************)
(* The parser in the midst of a text.  With line p passed, what was kept   *)
(* is what the devices ended so far have under their headers; a device     *)
(* still open has what was printed of it so far.                           *)
(***************************************************************************)

\* What is kept of the part of the text that line i begins.
KeptOf(lines, i) ==
  IF Opens(lines[i]) /\ Populated(Printed(lines, i)) THEN <<Record(Printed(lines, i))>> ELSE <<>>
Keeps(lines) == [i \in DOMAIN lines |-> KeptOf(lines, i)]

\* What is kept of the parts that the first p lines begin.
KeptTo(lines, p) == FlattenSeq(SubSeq(Keeps(lines), 1, p))

\* What the first p lines say of field key under header h.
UnderTo(lines, p, h, key) ==
  {i \in 1..p : lines[i].kind = "field" /\ lines[i].handle = h /\ lines[i].key = key}
NumTo(lines, p, h, key) ==
  IF UnderTo(lines, p, h, key) = {} THEN 0 ELSE lines[LastIn(UnderTo(lines, p, h, key))].num
StrTo(lines, p, h, key) ==
  IF UnderTo(lines, p, h, key) = {} THEN <<>> ELSE lines[LastIn(UnderTo(lines, p, h, key))].str
RowTo(lines, p, h) ==
  [handle |-> h, locator |-> StrTo(lines, p, h, "locator"), size |-> StrTo(lines, p, h, "size"),
   total |-> NumTo(lines, p, h, "total"), data |-> NumTo(lines, p, h, "data"),
   maker |-> StrTo(lines, p, h, "maker"), serial |-> StrTo(lines, p, h, "serial"),
   part |-> StrTo(lines, p, h, "part"), mfgId |-> NumTo(lines, p, h, "mfgId")]

\* A text the proofs are about.
IsText(lines) == lines \in Seq({lines[i] : i \in DOMAIN lines}) /\ WellMarked(lines)

\* Line p passed: rest is left, c is the row in the making, d was kept.
Passed(lines, p, rest, c, d) ==
  /\ rest = SubSeq(lines, p + 1, Len(lines))
  /\ c = <<>> => /\ d = KeptTo(lines, p)
                 /\ p # Len(lines) => ~\E o \in 1..p : OpenAt(lines, o, p)
  /\ c # <<>> => \E o \in 1..p : /\ OpenAt(lines, o, p)
                                 /\ c = <<RowTo(lines, p, lines[o].handle)>>
                                 /\ d = KeptTo(lines, o - 1)

\* The text that is parsed.
Reading == IF source = "sysfs" THEN DumpAll ELSE dmi

ParseInv ==
  /\ dmi \in Dmidecode
  /\ source = "walking" => text = <<>> /\ cur = <<>> /\ devices = <<>>
  /\ source # "walking" =>
       /\ walk = "done"
       /\ source = "sysfs" <=> Described
       /\ IsText(Reading)
       /\ \E p \in 0..Len(Reading) : Passed(Reading, p, text, cur, devices)

\* The greatest element is the last.
LEMMA LastInIs ==
  ASSUME NEW S \in SUBSET Nat, NEW m \in S, \A j \in S : j <= m
  PROVE  LastIn(S) = m
<1>. DEFINE P(i) == i \in S /\ \A j \in S : j <= i
<1>1. P(m)
  OBVIOUS
<1>2. \A i : P(i) => i = m
  OBVIOUS
<1>3. LastIn(S) = CHOOSE i : P(i)
  BY Zenon DEF LastIn
<1>. HIDE DEF P
<1>4. P(CHOOSE i : P(i))
  BY <1>1, Zenon
<1>. QED  BY <1>2, <1>3, <1>4

\* One line more that says nothing of the field.
LEMMA UnderSame ==
  ASSUME NEW lines, NEW p \in Nat, NEW h, NEW key,
         ~(/\ lines[p + 1].kind = "field" /\ lines[p + 1].handle = h
           /\ lines[p + 1].key = key)
  PROVE  /\ NumTo(lines, p + 1, h, key) = NumTo(lines, p, h, key)
         /\ StrTo(lines, p + 1, h, key) = StrTo(lines, p, h, key)
<1>1. \A i \in 1..(p + 1) : i \in 1..p \/ i = p + 1
  OBVIOUS
<1>2. 1..p \subseteq 1..(p + 1)
  OBVIOUS
<1>3. UnderTo(lines, p + 1, h, key) = UnderTo(lines, p, h, key)
  BY <1>1, <1>2, Zenon DEF UnderTo
<1>. QED  BY <1>3, Zenon DEF NumTo, StrTo

\* One line more that does.
LEMMA UnderNext ==
  ASSUME NEW lines, NEW p \in Nat, NEW h, NEW key,
         lines[p + 1].kind = "field", lines[p + 1].handle = h, lines[p + 1].key = key
  PROVE  /\ NumTo(lines, p + 1, h, key) = lines[p + 1].num
         /\ StrTo(lines, p + 1, h, key) = lines[p + 1].str
<1>. DEFINE U == UnderTo(lines, p + 1, h, key)
<1>1. p + 1 \in U /\ U \in SUBSET Nat /\ \A j \in U : j <= p + 1
  BY DEF UnderTo
<1>. HIDE DEF U
<1>2. LastIn(U) = p + 1
  BY <1>1, LastInIs
<1>. QED  BY <1>1, <1>2, Zenon DEF NumTo, StrTo, U

FieldKeys == {"total", "data", "mfgId", "size", "locator", "maker", "serial", "part"}

\* A line under another header, or no field, changes nothing.
LEMMA RowSame ==
  ASSUME NEW lines, NEW p \in Nat, NEW h,
         ~(lines[p + 1].kind = "field" /\ lines[p + 1].handle = h)
  PROVE  RowTo(lines, p + 1, h) = RowTo(lines, p, h)
<1>1. \A key : /\ NumTo(lines, p + 1, h, key) = NumTo(lines, p, h, key)
               /\ StrTo(lines, p + 1, h, key) = StrTo(lines, p, h, key)
  BY UnderSame
<1>. QED  BY <1>1, Zenon DEF RowTo

\* A field under the header is taken.
LEMMA RowNext ==
  ASSUME NEW lines, NEW p \in Nat, NEW h,
         lines[p + 1].kind = "field", lines[p + 1].handle = h
  PROVE  RowTo(lines, p + 1, h) = Taken(RowTo(lines, p, h), lines[p + 1])
<1>. DEFINE line == lines[p + 1]
            k == line.key
<1>1. \A key : key # k => /\ NumTo(lines, p + 1, h, key) = NumTo(lines, p, h, key)
                          /\ StrTo(lines, p + 1, h, key) = StrTo(lines, p, h, key)
  BY UnderSame
<1>2. /\ NumTo(lines, p + 1, h, k) = line.num
      /\ StrTo(lines, p + 1, h, k) = line.str
  BY UnderNext
<1>. HIDE DEF line
<1>3. CASE k = "total"
  <2>1. Taken(RowTo(lines, p, h), line) = [RowTo(lines, p, h) EXCEPT !.total = line.num]
    BY <1>3 DEF Taken
  <2>. QED  BY <1>1, <1>2, <1>3, <2>1 DEF RowTo, line
<1>4. CASE k = "data"
  <2>1. Taken(RowTo(lines, p, h), line) = [RowTo(lines, p, h) EXCEPT !.data = line.num]
    BY <1>4 DEF Taken
  <2>. QED  BY <1>1, <1>2, <1>4, <2>1 DEF RowTo, line
<1>5. CASE k = "mfgId"
  <2>1. Taken(RowTo(lines, p, h), line) = [RowTo(lines, p, h) EXCEPT !.mfgId = line.num]
    BY <1>5 DEF Taken
  <2>. QED  BY <1>1, <1>2, <1>5, <2>1 DEF RowTo, line
<1>6. CASE k = "size"
  <2>1. Taken(RowTo(lines, p, h), line) = [RowTo(lines, p, h) EXCEPT !.size = line.str]
    BY <1>6 DEF Taken
  <2>. QED  BY <1>1, <1>2, <1>6, <2>1 DEF RowTo, line
<1>7. CASE k = "locator"
  <2>1. Taken(RowTo(lines, p, h), line) = [RowTo(lines, p, h) EXCEPT !.locator = line.str]
    BY <1>7 DEF Taken
  <2>. QED  BY <1>1, <1>2, <1>7, <2>1 DEF RowTo, line
<1>8. CASE k = "maker"
  <2>1. Taken(RowTo(lines, p, h), line) = [RowTo(lines, p, h) EXCEPT !.maker = line.str]
    BY <1>8 DEF Taken
  <2>. QED  BY <1>1, <1>2, <1>8, <2>1 DEF RowTo, line
<1>9. CASE k = "serial"
  <2>1. Taken(RowTo(lines, p, h), line) = [RowTo(lines, p, h) EXCEPT !.serial = line.str]
    BY <1>9 DEF Taken
  <2>. QED  BY <1>1, <1>2, <1>9, <2>1 DEF RowTo, line
<1>10. CASE k = "part"
  <2>1. Taken(RowTo(lines, p, h), line) = [RowTo(lines, p, h) EXCEPT !.part = line.str]
    BY <1>10 DEF Taken
  <2>. QED  BY <1>1, <1>2, <1>10, <2>1 DEF RowTo, line
<1>11. CASE k \notin FieldKeys
  <2>1. Taken(RowTo(lines, p, h), line) = RowTo(lines, p, h)
    BY <1>11 DEF Taken, FieldKeys
  <2>2. RowTo(lines, p + 1, h) = RowTo(lines, p, h)
    BY <1>1, <1>11 DEF RowTo, FieldKeys
  <2>. QED  BY <2>1, <2>2 DEF line
<1>. QED
  BY <1>3, <1>4, <1>5, <1>6, <1>7, <1>8, <1>9, <1>10, <1>11 DEF FieldKeys

\* Nothing said so far.
LEMMA RowNone ==
  ASSUME NEW lines, NEW p \in Nat, NEW h,
         \A i \in 1..p : ~(lines[i].kind = "field" /\ lines[i].handle = h)
  PROVE  RowTo(lines, p, h) = [NoDevice EXCEPT !.handle = h]
<1>1. \A key : UnderTo(lines, p, h, key) = {}
  BY DEF UnderTo
<1>2. \A key : NumTo(lines, p, h, key) = 0 /\ StrTo(lines, p, h, key) = <<>>
  BY <1>1, Zenon DEF NumTo, StrTo
<1>. QED  BY <1>2 DEF RowTo, NoDevice

\* All said: the rest of the text stands under other headers.
LEMMA RowComplete ==
  ASSUME NEW lines, NEW p \in Nat, NEW h, IsText(lines), p <= Len(lines),
         \A i \in (p + 1)..Len(lines) : lines[i].handle # h
  PROVE  RowTo(lines, p, h) = LineRow(lines, h)
<1>1. DOMAIN lines = 1..Len(lines) /\ Len(lines) \in Nat
  BY DEF IsText
<1>2. \A key : UnderTo(lines, p, h, key) = Under(lines, h, key)
  BY <1>1 DEF UnderTo, Under
<1>3. ASSUME NEW key
      PROVE  NumTo(lines, p, h, key) = Num(lines, h, key) /\ StrTo(lines, p, h, key) = Str(lines, h, key)
  <2>1. UnderTo(lines, p, h, key) = Under(lines, h, key)
    BY <1>2
  <2>. QED  BY <2>1 DEF NumTo, StrTo, Num, Str
<1>. QED  BY <1>3, Zenon DEF RowTo, LineRow

\* Nothing comes of elements that are empty.
LEMMA FlattenSkips ==
  ASSUME NEW S, NEW q \in Seq(Seq(S)), NEW j \in 0..Len(q), NEW k \in j..Len(q),
         \A i \in (j + 1)..k : q[i] = <<>>
  PROVE  FlattenSeq(SubSeq(q, 1, k)) = FlattenSeq(SubSeq(q, 1, j))
<1>. DEFINE f(i) == FlattenSeq(SubSeq(q, 1, i))
            Bad  == {i \in j..k : f(i) # f(j)}
            n == Len(q)
<1>1. n \in Nat
  BY LenProperties
<1>2. /\ \A i \in 0..n : f(i) \in Seq(S)
      /\ \A i \in 1..n : f(i) = f(i - 1) \o q[i]
  BY FlattenStep
<1>. HIDE DEF f, n
<1>3. Bad = {}
  <2>. SUFFICES ASSUME Bad # {}
                PROVE  FALSE
    OBVIOUS
  <2>1. PICK m \in Bad : \A i \in Bad : m <= i
    <3>1. Bad \in SUBSET Nat
      BY <1>1 DEF n
    <3>. HIDE DEF Bad
    <3>. QED  BY <3>1, LeastNatural
  <2>2. /\ m \in j..k /\ f(m) # f(j)
    OBVIOUS
  <2>3. m # j
    BY <2>2
  <2>4. m - 1 \in j..k /\ ~(m <= m - 1) /\ m \in 1..n /\ m - 1 \in 0..n /\ m \in (j + 1)..k
    BY <1>1, <2>2, <2>3 DEF n
  <2>5. f(m - 1) = f(j)
    BY <2>1, <2>4
  <2>6. f(m) = f(m - 1) \o <<>> /\ f(m - 1) \in Seq(S)
    BY <1>2, <2>4
  <2>7. f(m) = f(m - 1)
    BY <2>6, ConcatEmptySeq
  <2>. QED  BY <2>2, <2>5, <2>7
<1>4. k \in j..k
  BY <1>1 DEF n
<1>. QED  BY <1>3, <1>4 DEF f

Records(lines) == {Record(Printed(lines, i)) : i \in DOMAIN lines}

\* What is kept grows by one part at a time.
LEMMA KeptSteps ==
  ASSUME NEW lines, IsText(lines)
  PROVE  /\ KeptTo(lines, 0) = <<>>
         /\ \A p \in 0..Len(lines) : KeptTo(lines, p) \in Seq(Records(lines))
         /\ \A p \in 1..Len(lines) :
              KeptTo(lines, p) = KeptTo(lines, p - 1) \o KeptOf(lines, p)
         /\ \A o \in 0..Len(lines) : \A p \in o..Len(lines) :
              (\A k \in (o + 1)..p : ~Opens(lines[k])) => KeptTo(lines, p) = KeptTo(lines, o)
         /\ KeptTo(lines, Len(lines)) = FlattenSeq(Keeps(lines))
<1>. DEFINE q == Keeps(lines)
            S == Records(lines)
<1>1. Len(lines) \in Nat /\ DOMAIN lines = 1..Len(lines)
  BY DEF IsText
<1>2. ASSUME NEW i \in 1..Len(lines)
      PROVE  KeptOf(lines, i) \in Seq(S)
  <2>1. Record(Printed(lines, i)) \in S
    BY <1>1 DEF Records
  <2>. HIDE DEF S
  <2>2. <<Record(Printed(lines, i))>> \in Seq(S) /\ <<>> \in Seq(S)
    BY <2>1
  <2>. QED  BY <2>2, Zenon DEF KeptOf
<1>3. /\ q \in Seq(Seq(S)) /\ Len(q) = Len(lines)
      /\ \A i \in 1..Len(lines) : q[i] = KeptOf(lines, i)
  <2>1. q = [i \in 1..Len(lines) |-> KeptOf(lines, i)]
    BY <1>1, Zenon DEF Keeps
  <2>. HIDE DEF q, S
  <2>. QED  BY <1>1, <1>2, <2>1
<1>. HIDE DEF q, S
<1>4. /\ FlattenSeq(SubSeq(q, 1, 0)) = <<>>
      /\ \A k \in 0..Len(q) : FlattenSeq(SubSeq(q, 1, k)) \in Seq(S)
      /\ \A k \in 1..Len(q) :
           FlattenSeq(SubSeq(q, 1, k)) = FlattenSeq(SubSeq(q, 1, k - 1)) \o q[k]
      /\ FlattenSeq(SubSeq(q, 1, Len(q))) = FlattenSeq(q)
  BY <1>3, FlattenStep
<1>5. ASSUME NEW o \in 0..Len(lines), NEW p \in o..Len(lines),
             \A k \in (o + 1)..p : ~Opens(lines[k])
      PROVE  KeptTo(lines, p) = KeptTo(lines, o)
  <2>1. \A k \in (o + 1)..p : k \in 1..Len(lines)
    BY <1>1
  <2>2. \A k \in (o + 1)..p : q[k] = <<>>
    BY <1>3, <1>5, <2>1, Zenon DEF KeptOf
  <2>3. o \in 0..Len(q) /\ p \in o..Len(q)
    BY <1>3
  <2>4. FlattenSeq(SubSeq(q, 1, p)) = FlattenSeq(SubSeq(q, 1, o))
    BY <1>3, <2>2, <2>3, FlattenSkips
  <2>. QED  BY <2>4 DEF KeptTo, q
<1>6. \A p : KeptTo(lines, p) = FlattenSeq(SubSeq(q, 1, p))
  BY DEF KeptTo, q
<1>. QED  BY <1>3, <1>4, <1>5, <1>6 DEF q, S

\* finish, for any row in the making and devices.
FinishedOf(c, d) ==
  IF c # <<>> /\ Populated(Head(c)) THEN Append(d, Record(Head(c))) ELSE d

\* Places up to line p of n lines, and behind it.
LEMMA PlacesBehind ==
  ASSUME NEW n \in Nat, NEW p \in 0..n, NEW o \in 1..p
  PROVE  /\ p \in Nat /\ p <= n /\ p \in o..n
         /\ o \in 1..n /\ o \in 0..n /\ o - 1 \in 0..n
         /\ \A i \in (p + 1)..n : p # n /\ i \in 1..n /\ o \in 1..(i - 1) /\ p + 1 \in (o + 1)..i
OBVIOUS

\* At the end of its part of the text a device is what stands under its header.
LEMMA DeviceEnds ==
  ASSUME NEW lines, IsText(lines), NEW p \in 0..Len(lines),
         p # Len(lines) => Starts(lines[p + 1]),
         NEW o \in 1..p, OpenAt(lines, o, p), NEW c, NEW d,
         c = <<RowTo(lines, p, lines[o].handle)>>,
         d = KeptTo(lines, o - 1)
  PROVE  FinishedOf(c, d) = KeptTo(lines, p)
<1>1. Len(lines) \in Nat /\ DOMAIN lines = 1..Len(lines)
  BY DEF IsText
<1>2. /\ p \in Nat /\ p <= Len(lines) /\ p \in o..Len(lines)
      /\ o \in 1..Len(lines) /\ o \in 0..Len(lines) /\ o - 1 \in 0..Len(lines)
      /\ \A i \in (p + 1)..Len(lines) : /\ p # Len(lines) /\ i \in 1..Len(lines)
                                        /\ o \in 1..(i - 1) /\ p + 1 \in (o + 1)..i
  BY <1>1, PlacesBehind
<1>3. ASSUME NEW i \in (p + 1)..Len(lines)
      PROVE  lines[i].handle # lines[o].handle
  <2>1. p # Len(lines) /\ i \in DOMAIN lines /\ o \in 1..(i - 1) /\ p + 1 \in (o + 1)..i
    BY <1>1, <1>2, Zenon
  <2>4. lines[o].handle = lines[i].handle <=> \A k \in (o + 1)..i : ~Starts(lines[k])
    BY <2>1, Zenon DEF IsText, WellMarked
  <2>5. Starts(lines[p + 1])
    BY <2>1, Zenon
  <2>. QED  BY <2>1, <2>4, <2>5, Zenon
<1>4. Head(c) = Printed(lines, o) /\ c # <<>>
  <2>1. RowTo(lines, p, lines[o].handle) = LineRow(lines, lines[o].handle)
    BY <1>2, <1>3, RowComplete
  <2>. QED  BY <2>1 DEF Printed
<1>5. KeptTo(lines, p) = KeptTo(lines, o)
  <2>1. \A k \in (o + 1)..p : ~Opens(lines[k])
    BY DEF OpenAt, Starts
  <2>. QED  BY <1>2, <2>1, KeptSteps
<1>6. KeptTo(lines, o) = d \o KeptOf(lines, o) /\ d \in Seq(Records(lines))
  BY <1>2, KeptSteps
<1>7. Opens(lines[o])
  BY DEF OpenAt
<1>8. CASE Populated(Printed(lines, o))
  <2>1. KeptOf(lines, o) = <<Record(Printed(lines, o))>>
    BY <1>7, <1>8, Zenon DEF KeptOf
  <2>2. Record(Printed(lines, o)) \in Records(lines)
    BY <1>1, <1>2 DEF Records
  <2>3. FinishedOf(c, d) = Append(d, Record(Printed(lines, o)))
    BY <1>4, <1>8, Zenon DEF FinishedOf
  <2>4. Append(d, Record(Printed(lines, o))) = d \o <<Record(Printed(lines, o))>>
    BY <1>6, <2>2
  <2>. QED  BY <1>5, <1>6, <2>1, <2>3, <2>4
<1>9. CASE ~Populated(Printed(lines, o))
  <2>1. KeptOf(lines, o) = <<>>
    BY <1>9, Zenon DEF KeptOf
  <2>2. FinishedOf(c, d) = d
    BY <1>4, <1>9, Zenon DEF FinishedOf
  <2>3. d \o <<>> = d
    BY <1>6, ConcatEmptySeq
  <2>. QED  BY <1>5, <1>6, <2>1, <2>2, <2>3
<1>. QED  BY <1>8, <1>9

\* The next line.
LEMMA RestNext ==
  ASSUME NEW lines, IsText(lines), NEW p \in 0..Len(lines), NEW rest,
         rest = SubSeq(lines, p + 1, Len(lines))
  PROVE  /\ rest = <<>> <=> p = Len(lines)
         /\ rest # <<>> => /\ p + 1 \in 0..Len(lines) /\ p + 1 \in 1..Len(lines)
                           /\ Head(rest) = lines[p + 1]
                           /\ Tail(rest) = SubSeq(lines, (p + 1) + 1, Len(lines))
<1>. DEFINE S == {lines[i] : i \in DOMAIN lines}
            n == Len(lines)
<1>1. lines \in Seq(S) /\ n \in Nat /\ \A i \in 1..n : lines[i] \in S
  BY DEF IsText
<1>. HIDE DEF S
<1>2. /\ rest \in Seq(S) /\ Len(rest) = n - p
      /\ \A i \in 1..(n - p) : rest[i] = lines[p + i]
  BY <1>1
<1>3. rest = <<>> <=> p = n
  <2>1. rest = <<>> <=> Len(rest) = 0
    BY <1>2, EmptySeq
  <2>2. n - p = 0 <=> p = n
    BY <1>1
  <2>. QED  BY <1>2, <2>1, <2>2
<1>4. ASSUME rest # <<>>
      PROVE  /\ p + 1 \in 0..n /\ p + 1 \in 1..n
             /\ Head(rest) = lines[p + 1]
             /\ Tail(rest) = SubSeq(lines, (p + 1) + 1, n)
  <2>1. p + 1 \in 0..n /\ p + 1 \in 1..n
    BY <1>1, <1>3, <1>4
  <2>2. Head(rest) = lines[p + 1]
    BY <1>1, <1>2, <2>1
  <2>3. Tail(rest) = SubSeq(lines, (p + 1) + 1, n)
    <3>1. Tail(rest) \in Seq(S) /\ Len(Tail(rest)) = n - p - 1
          /\ \A i \in 1..(n - p - 1) : Tail(rest)[i] = rest[i + 1]
      BY <1>1, <1>2, <1>4, <2>1
    <3>. DEFINE b == SubSeq(lines, (p + 1) + 1, n)
    <3>2. b \in Seq(S) /\ Len(b) = n - p - 1 /\ \A i \in 1..(n - p - 1) : b[i] = lines[p + 1 + i]
      BY <1>1, <2>1
    <3>. HIDE DEF b
    <3>3. \A i \in 1..(n - p - 1) : Tail(rest)[i] = b[i]
      <4>1. \A i \in 1..(n - p - 1) : i + 1 \in 1..(n - p) /\ p + (i + 1) = p + 1 + i
        BY <1>1
      <4>. QED  BY <1>2, <3>1, <3>2, <4>1
    <3>4. Tail(rest) = b
      BY <3>1, <3>2, <3>3, SeqEqual
    <3>. QED  BY <3>4 DEF b
  <2>. QED  BY <2>1, <2>2, <2>3
<1>. QED  BY <1>3, <1>4

\* The row in the making, alone.
LEMMA Single ==
  ASSUME NEW x
  PROVE  <<x>> # <<>> /\ Head(<<x>>) = x
OBVIOUS

\* finish where the text ends or something new starts.
LEMMA FinishBehind ==
  ASSUME NEW lines, IsText(lines), NEW p \in 0..Len(lines),
         p # Len(lines) => Starts(lines[p + 1]),
         NEW rest, NEW c, NEW d, Passed(lines, p, rest, c, d)
  PROVE  FinishedOf(c, d) = KeptTo(lines, p)
<1>1. CASE c = <<>>
  BY <1>1, Zenon DEF FinishedOf, Passed
<1>2. CASE c # <<>>
  <2>1. PICK o \in 1..p : /\ OpenAt(lines, o, p)
                          /\ c = <<RowTo(lines, p, lines[o].handle)>>
                          /\ d = KeptTo(lines, o - 1)
    BY <1>2, Zenon DEF Passed
  <2>. QED  BY <2>1, DeviceEnds
<1>. QED  BY <1>1, <1>2

\* What precedes line p + 1.
LEMMA LineAhead ==
  ASSUME NEW lines, IsText(lines), NEW p \in 0..Len(lines), p + 1 \in 1..Len(lines)
  PROVE  /\ lines[p + 1].kind \in {"device", "other", "array", "mention", "field"}
         /\ \A i \in 1..p : lines[i].handle = lines[p + 1].handle
                              <=> \A k \in (i + 1)..(p + 1) : ~Starts(lines[k])
         /\ lines[p + 1].kind = "mention" =>
              (lines[p + 1].key = "" <=> ~\E i \in 1..p : OpenAt(lines, i, p))
<1>1. p + 1 \in DOMAIN lines /\ (p + 1) - 1 = p
  BY DEF IsText
<1>. QED  BY <1>1 DEF IsText, WellMarked

\* Line p + 1 among those from i on.
LEMMA Ahead ==
  ASSUME NEW p \in Nat
  PROVE  /\ \A i \in 1..p : p + 1 \in (i + 1)..(p + 1)
         /\ \A i \in 1..(p + 1) : i = p + 1 \/ i \in 1..p
         /\ \A i \in 1..p : i \in 1..(p + 1)
         /\ \A i \in 1..p : \A k \in (i + 1)..(p + 1) : k = p + 1 \/ k \in (i + 1)..p
         /\ \A i \in 1..p : \A k \in (i + 1)..p : k \in (i + 1)..(p + 1)
         /\ ((p + 1) + 1)..(p + 1) = {}
         /\ p + 1 \in 1..(p + 1) /\ (p + 1) - 1 = p
OBVIOUS

\* A line that opens a device makes an empty row.
LEMMA BehindOpened ==
  ASSUME NEW lines, IsText(lines), NEW p \in 0..Len(lines), p + 1 \in 1..Len(lines),
         Opens(lines[p + 1]), NEW rest,
         rest = SubSeq(lines, (p + 1) + 1, Len(lines)),
         NEW c, c = <<[NoDevice EXCEPT !.handle = lines[p + 1].handle]>>,
         NEW d, d = KeptTo(lines, p)
  PROVE  Passed(lines, p + 1, rest, c, d)
<1>. DEFINE h == lines[p + 1].handle
<1>1. p \in Nat /\ Starts(lines[p + 1]) /\ p + 1 \in Nat
  BY DEF Starts
<1>2. ASSUME NEW i \in 1..(p + 1)
      PROVE  ~(lines[i].kind = "field" /\ lines[i].handle = h)
  <2>1. CASE i = p + 1
    BY <2>1 DEF Opens
  <2>2. CASE i \in 1..p
    <3>1. p + 1 \in (i + 1)..(p + 1)
      BY <1>1, <2>2, Ahead
    <3>2. lines[i].handle = h <=> \A k \in (i + 1)..(p + 1) : ~Starts(lines[k])
      BY <2>2, LineAhead, Zenon
    <3>. QED  BY <1>1, <3>1, <3>2, Zenon
  <2>. QED  BY <1>1, <2>1, <2>2, Ahead
<1>3. c = <<RowTo(lines, p + 1, h)>>
  <2>1. RowTo(lines, p + 1, h) = [NoDevice EXCEPT !.handle = h]
    BY <1>1, <1>2, RowNone
  <2>. QED  BY <2>1
<1>4. OpenAt(lines, p + 1, p + 1)
  BY <1>1, Ahead DEF OpenAt
<1>5. p + 1 \in 1..(p + 1) /\ (p + 1) - 1 = p
  BY <1>1, Ahead
<1>6. d = KeptTo(lines, (p + 1) - 1)
  BY <1>5
<1>7. c # <<>>
  OBVIOUS
<1>. QED  BY <1>3, <1>4, <1>5, <1>6, <1>7, Zenon DEF Passed

\* Line p passed, what is left starts with line p + 1.
LEMMA BehindNext ==
  ASSUME NEW lines, IsText(lines), NEW p \in 0..Len(lines), NEW rest, NEW c, NEW d,
         Passed(lines, p, rest, c, d), rest # <<>>
  PROVE  /\ p + 1 \in 0..Len(lines) /\ p + 1 \in 1..Len(lines) /\ p # Len(lines)
         /\ Head(rest) = lines[p + 1]
         /\ Tail(rest) = SubSeq(lines, (p + 1) + 1, Len(lines))
<1>1. rest = SubSeq(lines, p + 1, Len(lines))
  BY Zenon DEF Passed
<1>. QED  BY <1>1, RestNext

\* A header line.
LEMMA BehindHeader ==
  ASSUME NEW lines, IsText(lines), NEW p \in 0..Len(lines), NEW rest, NEW c, NEW d,
         Passed(lines, p, rest, c, d), rest # <<>>, Closes(Head(rest).kind),
         NEW cc, cc = IF Head(rest).kind = "device"
                      THEN <<[NoDevice EXCEPT !.handle = Head(rest).handle]>> ELSE <<>>
  PROVE  p + 1 \in 0..Len(lines) /\ Passed(lines, p + 1, Tail(rest), cc, FinishedOf(c, d))
<1>1. /\ p + 1 \in 0..Len(lines) /\ p + 1 \in 1..Len(lines)
      /\ Head(rest) = lines[p + 1]
      /\ Tail(rest) = SubSeq(lines, (p + 1) + 1, Len(lines))
  BY BehindNext
<1>2. p \in Nat /\ Starts(lines[p + 1])
  BY <1>1 DEF Closes, Starts
<1>3. FinishedOf(c, d) = KeptTo(lines, p)
  BY <1>2, FinishBehind
<1>4. CASE lines[p + 1].kind = "device"
  <2>1. Opens(lines[p + 1]) /\ cc = <<[NoDevice EXCEPT !.handle = lines[p + 1].handle]>>
    BY <1>1, <1>4, Zenon DEF Opens
  <2>. QED  BY <1>1, <1>3, <2>1, BehindOpened
<1>5. CASE lines[p + 1].kind # "device"
  <2>1. ~Opens(lines[p + 1]) /\ cc = <<>>
    BY <1>1, <1>5 DEF Opens, Closes
  <2>2. ~\E o \in 1..(p + 1) : OpenAt(lines, o, p + 1)
    BY <1>2, <2>1, Ahead DEF OpenAt
  <2>3. KeptTo(lines, p + 1) = KeptTo(lines, p)
    <3>1. p + 1 \in p..Len(lines) /\ \A k \in (p + 1)..(p + 1) : k = p + 1
      BY <1>1, <1>2
    <3>. QED  BY <2>1, <3>1, KeptSteps
  <2>. QED  BY <1>1, <1>3, <2>1, <2>2, <2>3, Zenon DEF Passed
<1>. QED  BY <1>4, <1>5

\* A line that mentions type 17.
LEMMA BehindMention ==
  ASSUME NEW lines, IsText(lines), NEW p \in 0..Len(lines), NEW rest, NEW c, NEW d,
         Passed(lines, p, rest, c, d), rest # <<>>, Head(rest).kind = "mention",
         NEW cc, cc = IF c = <<>> THEN <<[NoDevice EXCEPT !.handle = Head(rest).handle]>> ELSE c
  PROVE  p + 1 \in 0..Len(lines) /\ Passed(lines, p + 1, Tail(rest), cc, d)
<1>1. /\ p + 1 \in 0..Len(lines) /\ p + 1 \in 1..Len(lines) /\ p # Len(lines)
      /\ Head(rest) = lines[p + 1]
      /\ Tail(rest) = SubSeq(lines, (p + 1) + 1, Len(lines))
  BY BehindNext
<1>2. p \in Nat /\ lines[p + 1].kind = "mention"
  <2>1. p \in Nat
    OBVIOUS
  <2>. QED  BY <1>1, <2>1, Zenon
<1>3. lines[p + 1].key = "" <=> ~\E i \in 1..p : OpenAt(lines, i, p)
  BY <1>1, <1>2, LineAhead
<1>4. CASE c = <<>>
  <2>1. d = KeptTo(lines, p) /\ ~\E o \in 1..p : OpenAt(lines, o, p)
    BY <1>1, <1>4, Zenon DEF Passed
  <2>2. Opens(lines[p + 1])
    BY <1>2, <1>3, <2>1 DEF Opens
  <2>3. cc = <<[NoDevice EXCEPT !.handle = lines[p + 1].handle]>>
    BY <1>1, <1>4, Zenon
  <2>. QED  BY <1>1, <2>1, <2>2, <2>3, BehindOpened
<1>5. CASE c # <<>>
  <2>1. PICK o \in 1..p : /\ OpenAt(lines, o, p)
                          /\ c = <<RowTo(lines, p, lines[o].handle)>>
                          /\ d = KeptTo(lines, o - 1)
    BY <1>5, Zenon DEF Passed
  <2>2. ~Starts(lines[p + 1])
    BY <1>2, <1>3, <2>1 DEF Starts, Opens
  <2>3. OpenAt(lines, o, p + 1) /\ o \in 1..(p + 1)
    BY <1>2, <2>1, <2>2, Ahead DEF OpenAt
  <2>4. RowTo(lines, p + 1, lines[o].handle) = RowTo(lines, p, lines[o].handle)
    BY <1>2, RowSame
  <2>5. cc = <<RowTo(lines, p + 1, lines[o].handle)>> /\ cc # <<>>
    BY <1>5, <2>1, <2>4, Zenon
  <2>. QED  BY <1>1, <2>1, <2>3, <2>5, Zenon DEF Passed
<1>. QED  BY <1>4, <1>5

\* Any other line.
LEMMA BehindField ==
  ASSUME NEW lines, IsText(lines), NEW p \in 0..Len(lines), NEW rest, NEW c, NEW d,
         Passed(lines, p, rest, c, d), rest # <<>>,
         ~Closes(Head(rest).kind), Head(rest).kind # "mention",
         NEW cc, cc = [i \in DOMAIN c |-> Taken(c[i], Head(rest))]
  PROVE  p + 1 \in 0..Len(lines) /\ Passed(lines, p + 1, Tail(rest), cc, d)
<1>1. /\ p + 1 \in 0..Len(lines) /\ p + 1 \in 1..Len(lines) /\ p # Len(lines)
      /\ Head(rest) = lines[p + 1]
      /\ Tail(rest) = SubSeq(lines, (p + 1) + 1, Len(lines))
  BY BehindNext
<1>2. /\ p \in Nat /\ lines[p + 1].kind = "field"
      /\ ~Starts(lines[p + 1]) /\ ~Opens(lines[p + 1])
  <2>1. lines[p + 1].kind = "field"
    BY <1>1, LineAhead DEF Closes
  <2>. QED  BY <2>1 DEF Starts, Opens
<1>3. CASE c = <<>>
  <2>1. d = KeptTo(lines, p) /\ ~\E o \in 1..p : OpenAt(lines, o, p)
    BY <1>1, <1>3, Zenon DEF Passed
  <2>2. cc = <<>>
    BY <1>3
  <2>3. ~\E o \in 1..(p + 1) : OpenAt(lines, o, p + 1)
    BY <1>2, <2>1, Ahead DEF OpenAt
  <2>4. KeptTo(lines, p + 1) = KeptTo(lines, p)
    <3>1. p + 1 \in p..Len(lines) /\ \A k \in (p + 1)..(p + 1) : k = p + 1
      BY <1>1, <1>2
    <3>. QED  BY <1>2, <3>1, KeptSteps
  <2>. QED  BY <1>1, <2>1, <2>2, <2>3, <2>4, Zenon DEF Passed
<1>4. CASE c # <<>>
  <2>1. PICK o \in 1..p : /\ OpenAt(lines, o, p)
                          /\ c = <<RowTo(lines, p, lines[o].handle)>>
                          /\ d = KeptTo(lines, o - 1)
    BY <1>4, Zenon DEF Passed
  <2>. DEFINE r == RowTo(lines, p, lines[o].handle)
              t == Taken(r, lines[p + 1])
  <2>2. OpenAt(lines, o, p + 1) /\ o \in 1..(p + 1)
    BY <1>2, <2>1, Ahead DEF OpenAt
  <2>3. lines[o].handle = lines[p + 1].handle
    <3>1. \A k \in (o + 1)..(p + 1) : ~Starts(lines[k])
      BY <2>2 DEF OpenAt
    <3>. QED  BY <1>1, <3>1, LineAhead
  <2>4. RowTo(lines, p + 1, lines[o].handle) = t
    BY <1>2, <2>3, RowNext
  <2>5. cc = <<t>>
    <3>1. c = <<r>> /\ cc = [i \in DOMAIN c |-> Taken(c[i], lines[p + 1])]
      BY <1>1, <2>1
    <3>. HIDE DEF r
    <3>2. DOMAIN c = {1} /\ c[1] = r
      BY <3>1
    <3>3. cc = [i \in {1} |-> t]
      BY <3>1, <3>2
    <3>. HIDE DEF t
    <3>. QED  BY <3>3
  <2>6. cc # <<>>
    BY <2>5, Single, Zenon
  <2>. QED  BY <1>1, <2>1, <2>2, <2>4, <2>5, <2>6, Zenon DEF Passed
<1>. QED  BY <1>3, <1>4

\* The end of the text.
LEMMA BehindEnd ==
  ASSUME NEW lines, IsText(lines), NEW p \in 0..Len(lines), NEW rest, NEW c, NEW d,
         Passed(lines, p, rest, c, d), rest = <<>>
  PROVE  Passed(lines, p, rest, <<>>, FinishedOf(c, d))
<1>1. p = Len(lines)
  <2>1. rest = SubSeq(lines, p + 1, Len(lines))
    BY Zenon DEF Passed
  <2>. QED  BY <2>1, RestNext
<1>2. FinishedOf(c, d) = KeptTo(lines, p)
  BY <1>1, FinishBehind
<1>. QED  BY <1>1, <1>2, Zenon DEF Passed

-----------------------------------------------------------------------------
(***************************************************************************)
(* The dump as a text: what is printed of each structure, and that its     *)
(* lines are marked as the parser's texts are.                             *)
(***************************************************************************)

\* w is the first n elements of all.
FirstOf(S, w, all, n) == w \in Seq(S) /\ Len(w) = n /\ \A i \in 1..n : w[i] = all[i]

\* One more of them.
LEMMA FirstNext ==
  ASSUME NEW S, NEW all, NEW n \in Nat, NEW w, FirstOf(S, w, all, n), NEW x \in S,
         x = all[n + 1]
  PROVE  FirstOf(S, w \o <<x>>, all, n + 1)
<1>1. w \in Seq(S) /\ Len(w) = n /\ \A i \in 1..n : w[i] = all[i]
  BY DEF FirstOf
<1>2. w \o <<x>> = Append(w, x)
  BY <1>1
<1>3. Append(w, x) \in Seq(S) /\ Len(Append(w, x)) = n + 1
  BY <1>1
<1>4. \A i \in 1..(n + 1) : Append(w, x)[i] = all[i]
  <2>1. \A i \in 1..n : Append(w, x)[i] = w[i]
    BY <1>1
  <2>2. Append(w, x)[n + 1] = x
    BY <1>1
  <2>3. \A i \in 1..(n + 1) : i \in 1..n \/ i = n + 1
    OBVIOUS
  <2>. QED  BY <1>1, <2>1, <2>2, <2>3
<1>. QED  BY <1>2, <1>3, <1>4 DEF FirstOf

\* None more of them.
LEMMA FirstSame ==
  ASSUME NEW S, NEW all, NEW n \in Nat, NEW w, FirstOf(S, w, all, n)
  PROVE  FirstOf(S, w \o <<>>, all, n)
<1>1. w \in Seq(S)
  BY DEF FirstOf
<1>2. w \o <<>> = w
  BY <1>1, ConcatEmptySeq
<1>. QED  BY <1>2

\* All a structure may have printed.
AllOf(s, h) ==
  << Line("device", h, "", 0, <<>>),
     Line("field", h, "total", Width(s, TotalWidth), <<>>),
     Line("field", h, "data", Width(s, DataWidth), <<>>),
     Line("field", h, "size", 0, Capacity(s)),
     Line("field", h, "locator", 0, Text(s, Locator)),
     Line("field", h, "maker", 0, Text(s, Maker)),
     Line("field", h, "serial", 0, Text(s, Serial)),
     Line("field", h, "part", 0, Text(s, Part)),
     Line("field", h, "mfgId", At(s.at + MakerId.at + 1), <<>>) >>

LinesOf(s, h) == {AllOf(s, h)[i] : i \in 1..9}

\* How many of them are printed.
Count(s) ==
  CASE Empty(s) \/ ~Has(s, Maker)                                      -> 5
    [] ~Empty(s) /\ Has(s, Maker) /\ ~Has(s, Serial)                   -> 6
    [] ~Empty(s) /\ Has(s, Serial) /\ Has(s, Maker) /\ ~Has(s, Part)   -> 7
    [] ~Empty(s) /\ Has(s, Part) /\ Has(s, Serial) /\ Has(s, Maker) /\ ~Has(s, MakerId) -> 8
    [] ~Empty(s) /\ Has(s, MakerId) /\ Has(s, Part) /\ Has(s, Serial) /\ Has(s, Maker)  -> 9

\* A structure long enough for a field has those before it.
LEMMA FieldsInOrder ==
  ASSUME NEW s, s.len \in Nat
  PROVE  /\ Has(s, MakerId) => Has(s, Part)
         /\ Has(s, Part) => Has(s, Serial)
         /\ Has(s, Serial) => Has(s, Maker)
         /\ Has(s, Maker) => Has(s, Locator) /\ Has(s, SizeCode)
BY DEF Has, MakerId, Part, Serial, Maker, Locator, SizeCode, Field

\* A structure's dump is the first of all it may have printed.
LEMMA DumpIs ==
  ASSUME NEW s, s.len \in Nat, NEW h
  PROVE  Count(s) \in 5..9 /\ FirstOf(LinesOf(s, h), Dump(s, h), AllOf(s, h), Count(s))
<1>. DEFINE S == LinesOf(s, h)
            all == AllOf(s, h)
            slot == SlotLines(s, h)
            a == Shown(s, h, Maker, "maker")
            b == Shown(s, h, Serial, "serial")
            c == Shown(s, h, Part, "part")
            d == ShownId(s, h)
<1>1. \A i \in 1..9 : all[i] \in S
  BY DEF LinesOf
<1>2. /\ Has(s, Maker) => a = <<all[6]>>
      /\ Has(s, Serial) => b = <<all[7]>>
      /\ Has(s, Part) => c = <<all[8]>>
      /\ Has(s, MakerId) => d = <<all[9]>>
  BY DEF Shown, ShownId, AllOf
<1>3. /\ ~Has(s, Maker) => a = <<>>
      /\ ~Has(s, Serial) => b = <<>>
      /\ ~Has(s, Part) => c = <<>>
      /\ ~Has(s, MakerId) => d = <<>>
  BY DEF Shown, ShownId
<1>4. FirstOf(S, slot, all, 5)
  <2>1. /\ slot[1] = all[1] /\ slot[2] = all[2] /\ slot[3] = all[3] /\ slot[4] = all[4]
        /\ slot[5] = all[5]
    BY DEF SlotLines, AllOf
  <2>2. slot \in Seq(S) /\ Len(slot) = 5
    <3>1. slot = <<all[1], all[2], all[3], all[4], all[5]>>
      BY DEF SlotLines, AllOf
    <3>2. all[1] \in S /\ all[2] \in S /\ all[3] \in S /\ all[4] \in S /\ all[5] \in S
      BY <1>1
    <3>. HIDE DEF S, all, slot
    <3>. QED  BY <3>1, <3>2
  <2>3. \A i \in 1..5 : i = 1 \/ i = 2 \/ i = 3 \/ i = 4 \/ i = 5
    OBVIOUS
  <2>. HIDE DEF S, all, slot
  <2>. QED  BY <2>1, <2>2, <2>3 DEF FirstOf
<1>5. Dump(s, h) = IF Empty(s) THEN slot ELSE (((slot \o a) \o b) \o c) \o d
  BY DEF Dump
<1>6. /\ all[6] \in S /\ all[7] \in S /\ all[8] \in S /\ all[9] \in S
      /\ all[6] = all[5 + 1] /\ all[7] = all[6 + 1] /\ all[8] = all[7 + 1]
      /\ all[9] = all[8 + 1]
  BY <1>1
<1>7. 5 + 1 = 6 /\ 6 + 1 = 7 /\ 7 + 1 = 8 /\ 8 + 1 = 9
  OBVIOUS
<1>. HIDE DEF S, all, slot, a, b, c, d
<1>8. CASE Empty(s)
  <2>1. Count(s) = 5
    BY <1>8 DEF Count
  <2>. QED  BY <1>4, <1>5, <1>8, <2>1 DEF S, all
<1>9. CASE ~Empty(s) /\ ~Has(s, Maker)
  <2>1. ~Has(s, Serial) /\ ~Has(s, Part) /\ ~Has(s, MakerId) /\ Count(s) = 5
    BY <1>9, FieldsInOrder DEF Count
  <2>2. FirstOf(S, (((slot \o a) \o b) \o c) \o d, all, 5)
    BY <1>3, <1>4, <1>9, <2>1, FirstSame
  <2>. QED  BY <1>5, <1>9, <2>1, <2>2 DEF S, all
<1>10. ASSUME ~Empty(s), Has(s, Maker)
       PROVE  FirstOf(S, slot \o a, all, 6)
  BY <1>2, <1>4, <1>6, <1>7, <1>10, FirstNext
<1>11. CASE ~Empty(s) /\ Has(s, Maker) /\ ~Has(s, Serial)
  <2>1. ~Has(s, Part) /\ ~Has(s, MakerId) /\ Count(s) = 6
    BY <1>11, FieldsInOrder DEF Count
  <2>2. FirstOf(S, (((slot \o a) \o b) \o c) \o d, all, 6)
    BY <1>3, <1>10, <1>11, <2>1, FirstSame
  <2>. QED  BY <1>5, <1>11, <2>1, <2>2 DEF S, all
<1>12. ASSUME ~Empty(s), Has(s, Serial)
       PROVE  Has(s, Maker) /\ FirstOf(S, (slot \o a) \o b, all, 7)
  <2>1. Has(s, Maker)
    BY <1>12, FieldsInOrder
  <2>2. FirstOf(S, slot \o a, all, 6)
    BY <1>10, <1>12, <2>1
  <2>. QED  BY <1>2, <1>6, <1>7, <1>12, <2>1, <2>2, FirstNext
<1>13. CASE ~Empty(s) /\ Has(s, Serial) /\ ~Has(s, Part)
  <2>1. ~Has(s, MakerId) /\ Has(s, Maker) /\ Count(s) = 7
    BY <1>13, FieldsInOrder DEF Count
  <2>2. FirstOf(S, (((slot \o a) \o b) \o c) \o d, all, 7)
    BY <1>3, <1>12, <1>13, <2>1, FirstSame
  <2>. QED  BY <1>5, <1>13, <2>1, <2>2 DEF S, all
<1>14. ASSUME ~Empty(s), Has(s, Part)
       PROVE  /\ Has(s, Serial) /\ Has(s, Maker)
              /\ FirstOf(S, ((slot \o a) \o b) \o c, all, 8)
  <2>1. Has(s, Serial)
    BY <1>14, FieldsInOrder
  <2>2. Has(s, Maker) /\ FirstOf(S, (slot \o a) \o b, all, 7)
    BY <1>12, <1>14, <2>1
  <2>. QED  BY <1>2, <1>6, <1>7, <1>14, <2>1, <2>2, FirstNext
<1>15. CASE ~Empty(s) /\ Has(s, Part) /\ ~Has(s, MakerId)
  <2>1. Has(s, Serial) /\ Has(s, Maker) /\ FirstOf(S, ((slot \o a) \o b) \o c, all, 8)
    BY <1>14, <1>15
  <2>2. Count(s) = 8
    BY <1>15, <2>1 DEF Count
  <2>3. FirstOf(S, (((slot \o a) \o b) \o c) \o d, all, 8)
    BY <1>3, <1>15, <2>1, FirstSame
  <2>. QED  BY <1>5, <1>15, <2>2, <2>3 DEF S, all
<1>16. CASE ~Empty(s) /\ Has(s, MakerId)
  <2>1. Has(s, Part)
    BY <1>16, FieldsInOrder
  <2>2. Has(s, Serial) /\ Has(s, Maker) /\ FirstOf(S, ((slot \o a) \o b) \o c, all, 8)
    BY <1>14, <1>16, <2>1
  <2>3. Count(s) = 9
    BY <1>16, <2>1, <2>2 DEF Count
  <2>4. FirstOf(S, (((slot \o a) \o b) \o c) \o d, all, 9)
    BY <1>2, <1>6, <1>7, <1>16, <2>2, FirstNext
  <2>. QED  BY <1>5, <1>16, <2>3, <2>4 DEF S, all
<1>. QED  BY <1>8, <1>9, <1>11, <1>13, <1>15, <1>16

\* Each place in the concatenation lies in one of the elements.
LEMMA FlattenPlace ==
  ASSUME NEW S, NEW q \in Seq(Seq(S)), NEW x \in 1..Len(FlattenSeq(q))
  PROVE  \E k \in 1..Len(q) : \E i \in 1..Len(q[k]) : x = Ends(q, k - 1) + i
<1>. DEFINE n == Len(q)
            e(k) == Ends(q, k)
            l(k) == Len(q[k])
            Beyond == {k \in 0..n : x <= e(k)}
<1>1. /\ n \in Nat /\ \A k \in 0..n : e(k) \in Nat
      /\ e(0) = 0 /\ e(n) = Len(FlattenSeq(q))
      /\ \A k \in 1..n : e(k) = e(k - 1) + l(k) /\ l(k) \in Nat
  <2>1. n \in Nat /\ \A k \in 1..n : q[k] \in Seq(S)
    BY LenProperties
  <2>. QED  BY <2>1, FlattenLayout, LenProperties
<1>2. x \in Nat /\ x >= 1 /\ x <= e(n)
  <2>1. Len(FlattenSeq(q)) \in Nat
    BY FlattenLayout, LenProperties
  <2>. QED  BY <1>1, <2>1
<1>. HIDE DEF e, n, l
<1>3. n \in Beyond
  BY <1>1, <1>2
<1>4. PICK k \in Beyond : \A j \in Beyond : k <= j
  <2>1. Beyond \in SUBSET Nat
    BY <1>1
  <2>. HIDE DEF Beyond
  <2>. QED  BY <1>3, <2>1, LeastNatural
<1>5. k \in 0..n /\ x <= e(k)
  OBVIOUS
<1>6. k # 0
  BY <1>1, <1>2, <1>5
<1>7. k \in 1..n /\ k - 1 \in 0..n /\ ~(k <= k - 1)
  BY <1>1, <1>5, <1>6
<1>8. ~(x <= e(k - 1))
  BY <1>4, <1>7
<1>9. /\ e(k) = e(k - 1) + l(k) /\ l(k) \in Nat /\ e(k - 1) \in Nat
  BY <1>1, <1>7
<1>10. x - e(k - 1) \in 1..l(k) /\ x = e(k - 1) + (x - e(k - 1))
  BY <1>2, <1>5, <1>8, <1>9
<1>. QED  BY <1>7, <1>10 DEF e, n, l

\* A sequence is one of its own elements.
LEMMA SeqOfOwn ==
  ASSUME NEW S, NEW s \in Seq(S)
  PROVE  s \in Seq({s[i] : i \in DOMAIN s})
<1>. DEFINE R == {s[i] : i \in DOMAIN s}
<1>1. Len(s) \in Nat /\ s \in [1..Len(s) -> S] /\ DOMAIN s = 1..Len(s)
  BY LenProperties
<1>2. \A i \in 1..Len(s) : s[i] \in R
  BY <1>1
<1>. HIDE DEF R
<1>3. s \in [1..Len(s) -> R]
  BY <1>1, <1>2
<1>. HIDE DEF R
<1>4. s \in Seq(R)
  <2>1. s \in UNION {[1..n -> R] : n \in Nat}
    BY <1>1, <1>3, Zenon
  <2>. QED  BY <2>1, SeqDef
<1>. QED  BY <1>4 DEF R

\* The lines of a block of the dump.
DumpLines == UNION {LinesOf(out[i], i) : i \in DOMAIN out}

\* The dumps of the structures found.
LEMMA DumpsAre ==
  ASSUME WalkTypeOK
  PROVE  /\ Len(out) \in Nat /\ DOMAIN out = 1..Len(out)
         /\ Dumps \in Seq(Seq(DumpLines)) /\ Len(Dumps) = Len(out)
         /\ \A k \in 1..Len(out) :
              /\ out[k].typ # 17 => Dumps[k] = <<>> /\ Len(Dumps[k]) = 0
              /\ out[k].typ = 17 =>
                   /\ Len(Dumps[k]) = Count(out[k]) /\ Count(out[k]) \in 5..9
                   /\ \A i \in 1..Count(out[k]) : Dumps[k][i] = AllOf(out[k], k)[i]
<1>1. Len(out) \in Nat /\ DOMAIN out = 1..Len(out) /\ \A k \in 1..Len(out) : out[k].len \in Nat
  <2>1. out \in Seq(Structure)
    BY DEF WalkTypeOK
  <2>2. Len(out) \in Nat /\ DOMAIN out = 1..Len(out) /\ \A k \in 1..Len(out) : out[k] \in Structure
    BY <2>1
  <2>3. \A x \in Structure : x.len \in Nat
    BY DEF Structure
  <2>. QED  BY <2>2, <2>3
<1>2. Dumps = [i \in 1..Len(out) |-> IF out[i].typ = 17 THEN Dump(out[i], i) ELSE <<>>]
  BY <1>1, Zenon DEF Dumps
<1>3. ASSUME NEW k \in 1..Len(out)
      PROVE  /\ Dumps[k] \in Seq(DumpLines)
             /\ out[k].typ # 17 => Dumps[k] = <<>> /\ Len(Dumps[k]) = 0
             /\ out[k].typ = 17 =>
                  /\ Len(Dumps[k]) = Count(out[k]) /\ Count(out[k]) \in 5..9
                  /\ \A i \in 1..Count(out[k]) : Dumps[k][i] = AllOf(out[k], k)[i]
  <2>1. CASE out[k].typ # 17
    <3>1. Dumps[k] = <<>>
      BY <1>2, <2>1
    <3>. QED  BY <2>1, <3>1
  <2>2. CASE out[k].typ = 17
    <3>1. Dumps[k] = Dump(out[k], k)
      BY <1>2, <2>2
    <3>2. Count(out[k]) \in 5..9
          /\ FirstOf(LinesOf(out[k], k), Dump(out[k], k), AllOf(out[k], k), Count(out[k]))
      BY <1>1, DumpIs
    <3>3. /\ Dumps[k] \in Seq(LinesOf(out[k], k)) /\ Len(Dumps[k]) = Count(out[k])
          /\ \A i \in 1..Count(out[k]) : Dumps[k][i] = AllOf(out[k], k)[i]
      BY <3>1, <3>2 DEF FirstOf
    <3>4. LinesOf(out[k], k) \subseteq DumpLines
      BY <1>1 DEF DumpLines
    <3>5. Dumps[k] \in Seq(DumpLines)
      BY <3>3, <3>4
    <3>. QED  BY <2>2, <3>2, <3>3, <3>5
  <2>. QED  BY <2>1, <2>2
<1>4. Dumps \in Seq(Seq(DumpLines)) /\ Len(Dumps) = Len(out)
  <2>1. \A k \in 1..Len(out) : Dumps[k] \in Seq(DumpLines)
    BY <1>3
  <2>2. Dumps \in [1..Len(out) -> Seq(DumpLines)]
    BY <1>2, <2>1
  <2>. QED  BY <1>1, <2>2
<1>. QED  BY <1>1, <1>3, <1>4

\* Line by line.
LEMMA AllIs ==
  ASSUME NEW s, NEW h
  PROVE  /\ AllOf(s, h)[1] = Line("device", h, "", 0, <<>>)
         /\ AllOf(s, h)[2] = Line("field", h, "total", Width(s, TotalWidth), <<>>)
         /\ AllOf(s, h)[3] = Line("field", h, "data", Width(s, DataWidth), <<>>)
         /\ AllOf(s, h)[4] = Line("field", h, "size", 0, Capacity(s))
         /\ AllOf(s, h)[5] = Line("field", h, "locator", 0, Text(s, Locator))
         /\ AllOf(s, h)[6] = Line("field", h, "maker", 0, Text(s, Maker))
         /\ AllOf(s, h)[7] = Line("field", h, "serial", 0, Text(s, Serial))
         /\ AllOf(s, h)[8] = Line("field", h, "part", 0, Text(s, Part))
         /\ AllOf(s, h)[9] = Line("field", h, "mfgId", At(s.at + MakerId.at + 1), <<>>)
<1>1. AllOf(s, h)[1] = Line("device", h, "", 0, <<>>)
  BY DEF AllOf
<1>2. AllOf(s, h)[2] = Line("field", h, "total", Width(s, TotalWidth), <<>>)
  BY DEF AllOf
<1>3. AllOf(s, h)[3] = Line("field", h, "data", Width(s, DataWidth), <<>>)
  BY DEF AllOf
<1>4. AllOf(s, h)[4] = Line("field", h, "size", 0, Capacity(s))
  BY DEF AllOf
<1>5. AllOf(s, h)[5] = Line("field", h, "locator", 0, Text(s, Locator))
  BY DEF AllOf
<1>6. AllOf(s, h)[6] = Line("field", h, "maker", 0, Text(s, Maker))
  BY DEF AllOf
<1>7. AllOf(s, h)[7] = Line("field", h, "serial", 0, Text(s, Serial))
  BY DEF AllOf
<1>8. AllOf(s, h)[8] = Line("field", h, "part", 0, Text(s, Part))
  BY DEF AllOf
<1>9. AllOf(s, h)[9] = Line("field", h, "mfgId", At(s.at + MakerId.at + 1), <<>>)
  BY DEF AllOf
<1>. QED  BY <1>1, <1>2, <1>3, <1>4, <1>5, <1>6, <1>7, <1>8, <1>9

\* What kind of line it is, and of which structure.
LEMMA AllKinds ==
  ASSUME NEW s, NEW h, NEW i \in 1..9
  PROVE  /\ AllOf(s, h)[i].handle = h
         /\ i = 1 => Opens(AllOf(s, h)[i]) /\ AllOf(s, h)[i].kind = "device"
         /\ i # 1 => /\ ~Starts(AllOf(s, h)[i]) /\ ~Opens(AllOf(s, h)[i])
                     /\ AllOf(s, h)[i].kind = "field"
<1>1. i = 1 \/ i = 2 \/ i = 3 \/ i = 4 \/ i = 5 \/ i = 6 \/ i = 7 \/ i = 8 \/ i = 9
  OBVIOUS
<1>3. AllOf(s, h)[1].handle = h /\ AllOf(s, h)[1].kind = "device"
  <2>1. AllOf(s, h)[1] = Line("device", h, "", 0, <<>>)
    BY AllIs, Zenon
  <2>. DEFINE x == AllOf(s, h)[1]
  <2>2. x = Line("device", h, "", 0, <<>>)
    BY <2>1
  <2>. HIDE DEF x
  <2>3. x.handle = h /\ x.kind = "device"
    BY <2>2 DEF Line
  <2>. QED  BY <2>3 DEF x
<1>4. ASSUME i # 1
      PROVE  AllOf(s, h)[i].handle = h /\ AllOf(s, h)[i].kind = "field"
  <2>1. CASE i = 2
    <3>1. AllOf(s, h)[2] = Line("field", h, "total", Width(s, TotalWidth), <<>>)
      BY AllIs, Zenon
    <3>. QED  BY <2>1, <3>1 DEF Line
  <2>2. CASE i = 3
    <3>1. AllOf(s, h)[3] = Line("field", h, "data", Width(s, DataWidth), <<>>)
      BY AllIs, Zenon
    <3>. QED  BY <2>2, <3>1 DEF Line
  <2>3. CASE i = 4
    <3>1. AllOf(s, h)[4] = Line("field", h, "size", 0, Capacity(s))
      BY AllIs, Zenon
    <3>. QED  BY <2>3, <3>1 DEF Line
  <2>4. CASE i = 5
    <3>1. AllOf(s, h)[5] = Line("field", h, "locator", 0, Text(s, Locator))
      BY AllIs, Zenon
    <3>. QED  BY <2>4, <3>1 DEF Line
  <2>5. CASE i = 6
    <3>1. AllOf(s, h)[6] = Line("field", h, "maker", 0, Text(s, Maker))
      BY AllIs, Zenon
    <3>. QED  BY <2>5, <3>1 DEF Line
  <2>6. CASE i = 7
    <3>1. AllOf(s, h)[7] = Line("field", h, "serial", 0, Text(s, Serial))
      BY AllIs, Zenon
    <3>. QED  BY <2>6, <3>1 DEF Line
  <2>7. CASE i = 8
    <3>1. AllOf(s, h)[8] = Line("field", h, "part", 0, Text(s, Part))
      BY AllIs, Zenon
    <3>. QED  BY <2>7, <3>1 DEF Line
  <2>8. CASE i = 9
    <3>1. AllOf(s, h)[9] = Line("field", h, "mfgId", At(s.at + MakerId.at + 1), <<>>)
      BY AllIs, Zenon
    <3>. QED  BY <2>8, <3>1 DEF Line
  <2>. QED  BY <1>1, <1>4, <2>1, <2>2, <2>3, <2>4, <2>5, <2>6, <2>7, <2>8
<1>5. AllOf(s, h)[i].handle = h
  BY <1>3, <1>4
<1>. QED  BY <1>3, <1>4, <1>5 DEF Opens, Starts

\* Where the dump of structure k starts.
DumpAt(k) == Ends(Dumps, k - 1)

\* Line i of the dump of structure k.
LEMMA DumpLine ==
  ASSUME WalkTypeOK
  PROVE  /\ DumpAll \in Seq(DumpLines) /\ Len(DumpAll) \in Nat
         /\ \A k \in 1..Len(out) : DumpAt(k) \in Nat
         /\ \A k \in 1..Len(out) : out[k].typ = 17 =>
              /\ Count(out[k]) \in 5..9 /\ DumpAt(k) + Count(out[k]) <= Len(DumpAll)
              /\ \A i \in 1..Count(out[k]) : DumpAll[DumpAt(k) + i] = AllOf(out[k], k)[i]
         /\ \A k \in 1..Len(out) : \A j \in 1..Len(out) :
              j < k /\ out[j].typ = 17 => DumpAt(j) + Count(out[j]) <= DumpAt(k)
         /\ \A x \in 1..Len(DumpAll) :
              \E k \in 1..Len(out) : /\ out[k].typ = 17
                                     /\ \E i \in 1..Count(out[k]) : x = DumpAt(k) + i
<1>. DEFINE n == Len(out)
            q == Dumps
<1>1. /\ n \in Nat /\ q \in Seq(Seq(DumpLines)) /\ Len(q) = n
      /\ \A k \in 1..n :
           /\ out[k].typ # 17 => Len(q[k]) = 0
           /\ out[k].typ = 17 =>
                /\ Len(q[k]) = Count(out[k]) /\ Count(out[k]) \in 5..9
                /\ \A i \in 1..Count(out[k]) : q[k][i] = AllOf(out[k], k)[i]
  BY DumpsAre
<1>. HIDE DEF q, n
<1>2. /\ FlattenSeq(q) \in Seq(DumpLines)
      /\ \A k \in 0..n : Ends(q, k) \in Nat
      /\ Ends(q, 0) = 0
      /\ \A k \in 1..n : Ends(q, k) = Ends(q, k - 1) + Len(q[k])
      /\ Ends(q, n) = Len(FlattenSeq(q))
      /\ \A k \in 0..n : \A j \in 0..k : Ends(q, j) <= Ends(q, k)
      /\ \A k \in 1..n : \A i \in 1..Len(q[k]) :
           FlattenSeq(q)[Ends(q, k - 1) + i] = q[k][i]
  <2>1. q \in Seq(Seq(DumpLines)) /\ n = Len(q)
    BY <1>1
  <2>. QED  BY <2>1, FlattenLayout
<1>3. DumpAll = FlattenSeq(q) /\ \A k : DumpAt(k) = Ends(q, k - 1)
  BY DEF DumpAll, DumpAt, q
<1>4. \A k \in 1..n : k - 1 \in 0..n /\ k \in 0..n /\ n \in 0..n /\ k \in 0..n
  BY <1>1
<1>5. \A k \in 1..n : DumpAt(k) \in Nat
  BY <1>2, <1>3, <1>4
<1>6. ASSUME NEW k \in 1..n, out[k].typ = 17
      PROVE  /\ Count(out[k]) \in 5..9
             /\ Ends(q, k) = DumpAt(k) + Count(out[k])
             /\ DumpAt(k) + Count(out[k]) <= Len(DumpAll)
             /\ \A i \in 1..Count(out[k]) : DumpAll[DumpAt(k) + i] = AllOf(out[k], k)[i]
  <2>1. Count(out[k]) \in 5..9 /\ Ends(q, k) = DumpAt(k) + Count(out[k])
    BY <1>1, <1>2, <1>3, <1>6
  <2>2. Ends(q, k) <= Ends(q, n)
    <3>1. n \in 0..n /\ k \in 0..n
      BY <1>1
    <3>. QED  BY <1>2, <3>1
  <2>3. DumpAt(k) + Count(out[k]) <= Len(DumpAll)
    BY <1>2, <1>3, <2>1, <2>2
  <2>4. \A i \in 1..Count(out[k]) : DumpAll[DumpAt(k) + i] = AllOf(out[k], k)[i]
    BY <1>1, <1>2, <1>3, <1>6
  <2>. QED  BY <2>1, <2>3, <2>4
<1>7. ASSUME NEW k \in 1..n, NEW j \in 1..n, j < k, out[j].typ = 17
      PROVE  DumpAt(j) + Count(out[j]) <= DumpAt(k)
  <2>1. k - 1 \in 0..n /\ j \in 0..(k - 1)
    BY <1>1, <1>7
  <2>2. Ends(q, j) <= Ends(q, k - 1)
    BY <1>2, <2>1
  <2>. QED  BY <1>3, <1>6, <1>7, <2>2
<1>8. ASSUME NEW x \in 1..Len(DumpAll)
      PROVE  \E k \in 1..n : /\ out[k].typ = 17
                             /\ \E i \in 1..Count(out[k]) : x = DumpAt(k) + i
  <2>1. PICK k \in 1..n : \E i \in 1..Len(q[k]) : x = Ends(q, k - 1) + i
    <3>1. x \in 1..Len(FlattenSeq(q))
      BY <1>3
    <3>. QED  BY <1>1, <3>1, FlattenPlace
  <2>2. out[k].typ = 17
    <3>. SUFFICES ASSUME out[k].typ # 17
                  PROVE  FALSE
      OBVIOUS
    <3>1. Len(q[k]) = 0 /\ 1..0 = {}
      BY <1>1
    <3>. QED  BY <2>1, <3>1
  <2>. QED  BY <1>1, <1>3, <2>1, <2>2
<1>9. DumpAll \in Seq(DumpLines) /\ Len(DumpAll) \in Nat
  BY <1>2, <1>3, LenProperties
<1>. QED  BY <1>5, <1>6, <1>7, <1>8, <1>9 DEF n

\* Lines of one dump and of another.
LEMMA InDump ==
  ASSUME NEW a \in Nat, NEW m \in Nat, NEW i \in 1..m, NEW j \in 1..m,
         NEW z \in (a + i + 1)..(a + j)
  PROVE  z - a \in 1..m /\ z - a # 1 /\ z = a + (z - a)
OBVIOUS

\* Between a line of one dump and a line of a later one the later one starts.
LEMMA BetweenDumps ==
  ASSUME NEW a \in Nat, NEW b \in Nat, NEW m \in Nat, NEW n \in Nat,
         NEW i \in 1..m, NEW j \in 1..n
  PROVE  /\ a + m <= b => b + 1 \in (a + i + 1)..(b + j) /\ 1 \in 1..n
         /\ b + n <= a => ~(a + i < b + j)
OBVIOUS

\* The dump of the table is a text marked as the parser's texts are.
LEMMA DumpIsText ==
  ASSUME WalkTypeOK
  PROVE  IsText(DumpAll)
<1>. DEFINE T == DumpAll
            N == Len(out)
            at(k) == DumpAt(k)
            n(k) == Count(out[k])
            is(k) == out[k].typ = 17
<1>1. /\ T \in Seq(DumpLines) /\ Len(T) \in Nat /\ N \in Nat
      /\ \A k \in 1..N : at(k) \in Nat
      /\ \A k \in 1..N : is(k) =>
           /\ n(k) \in 5..9 /\ at(k) + n(k) <= Len(T)
           /\ \A i \in 1..n(k) : T[at(k) + i] = AllOf(out[k], k)[i]
      /\ \A k \in 1..N : \A j \in 1..N : j < k /\ is(j) => at(j) + n(j) <= at(k)
      /\ \A x \in 1..Len(T) : \E k \in 1..N : is(k) /\ \E i \in 1..n(k) : x = at(k) + i
  BY DumpLine, DumpsAre
<1>2. T \in Seq({T[i] : i \in DOMAIN T}) /\ DOMAIN T = 1..Len(T)
  BY <1>1, SeqOfOwn
<1>. HIDE DEF T, N, at, n, is
<1>3. ASSUME NEW k \in 1..N, is(k), NEW i \in 1..n(k)
      PROVE  /\ T[at(k) + i].handle = k
             /\ i = 1 => T[at(k) + i].kind = "device" /\ Starts(T[at(k) + i])
             /\ i # 1 => T[at(k) + i].kind = "field" /\ ~Starts(T[at(k) + i])
  <2>0. n(k) \in 5..9
    BY <1>1, <1>3
  <2>1. i \in 1..9 /\ T[at(k) + i] = AllOf(out[k], k)[i]
    <3>1. i \in 1..9
      BY <2>0
    <3>2. T[at(k) + i] = AllOf(out[k], k)[i]
      BY <1>1, <1>3
    <3>. QED  BY <3>1, <3>2
  <2>. QED  BY <2>1, AllKinds DEF Starts
<1>4. ASSUME NEW x \in 1..Len(T)
      PROVE  T[x].kind \in {"device", "other", "array", "mention", "field"}
             /\ T[x].kind # "mention"
  <2>1. PICK k \in 1..N : is(k) /\ \E i \in 1..n(k) : x = at(k) + i
    BY <1>1
  <2>2. PICK i \in 1..n(k) : x = at(k) + i
    BY <2>1
  <2>. QED  BY <1>3, <2>1, <2>2
<1>5. ASSUME NEW y \in 1..Len(T), NEW x \in 1..(y - 1)
      PROVE  T[x].handle = T[y].handle <=> \A z \in (x + 1)..y : ~Starts(T[z])
  <2>1. x \in 1..Len(T) /\ x < y
    BY <1>1
  <2>2. PICK k \in 1..N : is(k) /\ \E i \in 1..n(k) : x = at(k) + i
    BY <1>1, <2>1
  <2>3. PICK i \in 1..n(k) : x = at(k) + i
    BY <2>2
  <2>4. PICK l \in 1..N : is(l) /\ \E j \in 1..n(l) : y = at(l) + j
    BY <1>1
  <2>5. PICK j \in 1..n(l) : y = at(l) + j
    BY <2>4
  <2>6. T[x].handle = k /\ T[y].handle = l
    BY <1>3, <2>2, <2>3, <2>4, <2>5
  <2>7. at(k) \in Nat /\ at(l) \in Nat /\ n(k) \in Nat /\ n(l) \in Nat
        /\ k \in Nat /\ l \in Nat
    <3>1. n(k) \in 5..9 /\ n(l) \in 5..9
      BY <1>1, <2>2, <2>4
    <3>2. at(k) \in Nat /\ at(l) \in Nat
      BY <1>1
    <3>3. n(k) \in Nat /\ n(l) \in Nat
      BY <3>1
    <3>4. k \in Nat /\ l \in Nat
      OBVIOUS
    <3>. QED  BY <3>2, <3>3, <3>4
  <2>8. CASE k = l
    <3>1. i < j
      BY <2>1, <2>3, <2>5, <2>7, <2>8
    <3>2. ASSUME NEW z \in (x + 1)..y
          PROVE  ~Starts(T[z])
      <4>1. z - at(k) \in 1..n(k) /\ z - at(k) # 1 /\ z = at(k) + (z - at(k))
        <5>1. z \in (at(k) + i + 1)..(at(k) + j) /\ j \in 1..n(k)
          BY <2>3, <2>5, <2>8
        <5>2. at(k) \in Nat /\ n(k) \in Nat
          BY <2>7
        <5>. QED  BY <5>1, <5>2, InDump
      <4>. QED  BY <1>3, <2>2, <4>1
    <3>. QED  BY <2>6, <2>8, <3>2
  <2>9. CASE k # l
    <3>1. k < l
      <4>. SUFFICES ASSUME l < k
                    PROVE  FALSE
        BY <2>7, <2>9
      <4>1. at(l) + n(l) <= at(k)
        BY <1>1, <2>4
      <4>2. ~(at(k) + i < at(l) + j)
        BY <2>7, <4>1, BetweenDumps
      <4>. QED  BY <2>1, <2>3, <2>5, <4>2
    <3>2. at(k) + n(k) <= at(l)
      BY <1>1, <2>2, <3>1
    <3>3. at(l) + 1 \in (x + 1)..y /\ 1 \in 1..n(l)
      <4>1. at(l) + 1 \in (at(k) + i + 1)..(at(l) + j) /\ 1 \in 1..n(l)
        BY <2>7, <3>2, BetweenDumps
      <4>. QED  BY <2>3, <2>5, <4>1
    <3>4. Starts(T[at(l) + 1])
      BY <1>3, <2>4, <3>3
    <3>. QED  BY <2>6, <2>9, <3>3, <3>4
  <2>. QED  BY <2>8, <2>9
<1>6. WellMarked(T)
  BY <1>2, <1>4, <1>5 DEF WellMarked
<1>. QED  BY <1>2, <1>6 DEF IsText, T

-----------------------------------------------------------------------------
(***************************************************************************)
(* The invariant over the steps of the machine.                            *)
(***************************************************************************)

\* Before the first line.
LEMMA BehindNone ==
  ASSUME NEW lines, IsText(lines)
  PROVE  Passed(lines, 0, lines, <<>>, <<>>)
<1>1. lines = SubSeq(lines, 0 + 1, Len(lines))
  BY DEF IsText
<1>2. KeptTo(lines, 0) = <<>> /\ 1..0 = {}
  BY KeptSteps
<1>. QED  BY <1>1, <1>2, Zenon DEF Passed

\* Initially nothing is parsed.
LEMMA ParseInit ==
  ASSUME Init
  PROVE  ParseInv
BY DEF Init, ParseInv

\* The text does not change once it is chosen.
LEMMA SameReading ==
  ASSUME UNCHANGED <<walkVars, dmi, source>>
  PROVE  Reading' = Reading /\ (Described <=> Described')
<1>1. blob' = blob /\ out' = out /\ dmi' = dmi /\ source' = source
  BY DEF walkVars
<1>2. DumpAll' = DumpAll
  BY <1>1 DEF DumpAll, Dumps, Dump, SlotLines, Shown, ShownId, Line, Capacity, ExtMiB, Width,
              Text, Index, Word, Has, Empty, At
<1>3. Described <=> Described'
  BY <1>1 DEF Described
<1>. QED  BY <1>1, <1>2, <1>3 DEF Reading

\* A step of the parser.
LEMMA ParseLine ==
  ASSUME ParseInv, source # "walking", UNCHANGED <<walkVars, dmi, source>>,
         \A p \in 0..Len(Reading) :
           Passed(Reading, p, text, cur, devices) =>
             \E r \in 0..Len(Reading) : Passed(Reading, r, text', cur', devices')
  PROVE  ParseInv'
<1>1. /\ walk' = walk /\ source' = source /\ dmi' = dmi
      /\ Reading' = Reading /\ (Described <=> Described')
  BY SameReading DEF walkVars
<1>2. /\ dmi \in Dmidecode /\ walk = "done" /\ (source = "sysfs" <=> Described)
      /\ IsText(Reading)
      /\ \E p \in 0..Len(Reading) : Passed(Reading, p, text, cur, devices)
  BY DEF ParseInv
<1>3. \E r \in 0..Len(Reading) : Passed(Reading, r, text', cur', devices')
  BY <1>2
<1>. QED  BY <1>1, <1>2, <1>3 DEF ParseInv, IsText, Passed

\* The end of a device, as the machine and the lemmas above put it.
LEMMA FinishedIs == Finished = FinishedOf(cur, devices)
BY DEF Finished, FinishedOf

\* The choice of the text.
LEMMA ParseCollect ==
  ASSUME WalkInv, ParseInv, Collect
  PROVE  ParseInv'
<1>1. /\ UNCHANGED walkVars /\ dmi' = dmi /\ cur' = cur /\ devices' = devices
      /\ source = "walking" /\ walk = "done" /\ walk' = "done"
  BY DEF Collect, walkVars
<1>2. cur = <<>> /\ devices = <<>> /\ dmi \in Dmidecode
  BY <1>1 DEF ParseInv
<1>3. /\ source' # "walking" /\ (source' = "sysfs" <=> Described)
      /\ text' = IF source' = "sysfs" THEN DumpAll ELSE dmi
  <2>1. CASE Described
    BY <2>1, Zenon DEF Collect
  <2>2. CASE ~Described /\ dmi # <<>>
    BY <2>2 DEF Collect
  <2>3. CASE ~Described /\ dmi = <<>>
    BY <2>3 DEF Collect
  <2>. QED  BY <2>1, <2>2, <2>3
<1>4. Reading' = text' /\ (Described' <=> Described)
  <2>1. blob' = blob /\ out' = out
    BY <1>1 DEF walkVars
  <2>2. DumpAll' = DumpAll
    BY <2>1 DEF DumpAll, Dumps, Dump, SlotLines, Shown, ShownId, Line, Capacity, ExtMiB, Width,
                Text, Index, Word, Has, Empty, At
  <2>3. Described' <=> Described
    BY <2>1 DEF Described
  <2>. QED  BY <1>1, <1>3, <2>2, <2>3 DEF Reading
<1>5. IsText(text')
  <2>1. IsText(DumpAll)
    BY DumpIsText DEF WalkInv
  <2>2. IsText(dmi)
    BY <1>2, DmidecodeAssumption DEF IsText
  <2>. QED  BY <1>3, <2>1, <2>2
<1>6. Passed(text', 0, text', <<>>, <<>>)
  BY <1>5, BehindNone
<1>7. 0 \in 0..Len(text')
  BY <1>5 DEF IsText
<1>8. \E p \in 0..Len(Reading') : Passed(Reading', p, text', cur', devices')
  <2>1. cur' = <<>> /\ devices' = <<>> /\ Reading' = text'
    BY <1>1, <1>2, <1>4
  <2>. QED  BY <1>6, <1>7, <2>1, Zenon
<1>9. IsText(Reading') /\ (source' = "sysfs" <=> Described')
  BY <1>3, <1>4, <1>5
<1>10. dmi' \in Dmidecode /\ source' # "walking" /\ walk' = "done"
  BY <1>1, <1>2, <1>3
<1>. QED  BY <1>8, <1>9, <1>10, Zenon DEF ParseInv

\* Every step keeps the invariant: one case per action.
LEMMA ParseStep ==
  ASSUME WalkInv, ParseInv, [Next]_vars
  PROVE  ParseInv'
<1>1. CASE WalkNext /\ UNCHANGED parseVars
  <2>1. walk # "done"
    BY <1>1 DEF WalkNext, EndOfTable, ReadHeader, NoStrings, ReadString, Push
  <2>2. source = "walking"
    BY <2>1 DEF ParseInv
  <2>. QED  BY <1>1, <2>2 DEF ParseInv, parseVars
<1>2. CASE Collect
  BY <1>2, ParseCollect
<1>3. CASE HeaderLine
  <2>1. /\ source # "walking" /\ UNCHANGED <<walkVars, dmi, source>>
        /\ text # <<>> /\ Closes(Head(text).kind)
        /\ devices' = FinishedOf(cur, devices) /\ text' = Tail(text)
        /\ cur' = IF Head(text).kind = "device"
                  THEN <<[NoDevice EXCEPT !.handle = Head(text).handle]>> ELSE <<>>
    BY <1>3, FinishedIs DEF HeaderLine
  <2>2. ASSUME NEW p \in 0..Len(Reading), Passed(Reading, p, text, cur, devices)
        PROVE  \E r \in 0..Len(Reading) : Passed(Reading, r, text', cur', devices')
    <3>1. IsText(Reading)
      BY <2>1 DEF ParseInv
    <3>2. p + 1 \in 0..Len(Reading)
          /\ Passed(Reading, p + 1, Tail(text), cur', FinishedOf(cur, devices))
      BY <2>1, <2>2, <3>1, BehindHeader
    <3>. QED  BY <2>1, <3>2
  <2>. QED  BY <2>1, <2>2, ParseLine
<1>4. CASE MentionLine
  <2>1. /\ source # "walking" /\ UNCHANGED <<walkVars, dmi, source>>
        /\ text # <<>> /\ Head(text).kind = "mention"
        /\ devices' = devices /\ text' = Tail(text)
        /\ cur' = IF cur = <<>> THEN <<[NoDevice EXCEPT !.handle = Head(text).handle]>> ELSE cur
    BY <1>4 DEF MentionLine
  <2>2. ASSUME NEW p \in 0..Len(Reading), Passed(Reading, p, text, cur, devices)
        PROVE  \E r \in 0..Len(Reading) : Passed(Reading, r, text', cur', devices')
    <3>1. IsText(Reading)
      BY <2>1 DEF ParseInv
    <3>2. p + 1 \in 0..Len(Reading) /\ Passed(Reading, p + 1, Tail(text), cur', devices)
      BY <2>1, <2>2, <3>1, BehindMention
    <3>. QED  BY <2>1, <3>2
  <2>. QED  BY <2>1, <2>2, ParseLine
<1>5. CASE FieldLine
  <2>1. /\ source # "walking" /\ UNCHANGED <<walkVars, dmi, source>>
        /\ text # <<>> /\ ~Closes(Head(text).kind) /\ Head(text).kind # "mention"
        /\ devices' = devices /\ text' = Tail(text)
        /\ cur' = [i \in DOMAIN cur |-> Taken(cur[i], Head(text))]
    BY <1>5 DEF FieldLine
  <2>2. ASSUME NEW p \in 0..Len(Reading), Passed(Reading, p, text, cur, devices)
        PROVE  \E r \in 0..Len(Reading) : Passed(Reading, r, text', cur', devices')
    <3>1. IsText(Reading)
      BY <2>1 DEF ParseInv
    <3>2. p + 1 \in 0..Len(Reading) /\ Passed(Reading, p + 1, Tail(text), cur', devices)
      BY <2>1, <2>2, <3>1, BehindField
    <3>. QED  BY <2>1, <3>2
  <2>. QED  BY <2>1, <2>2, ParseLine
<1>6. CASE EndOfText
  <2>1. /\ source # "walking" /\ UNCHANGED <<walkVars, dmi, source>>
        /\ text = <<>> /\ devices' = FinishedOf(cur, devices) /\ text' = text /\ cur' = <<>>
    BY <1>6, FinishedIs DEF EndOfText
  <2>2. ASSUME NEW p \in 0..Len(Reading), Passed(Reading, p, text, cur, devices)
        PROVE  \E r \in 0..Len(Reading) : Passed(Reading, r, text', cur', devices')
    <3>1. IsText(Reading)
      BY <2>1 DEF ParseInv
    <3>2. Passed(Reading, p, text, <<>>, FinishedOf(cur, devices))
      BY <2>1, <2>2, <3>1, BehindEnd
    <3>. QED  BY <2>1, <3>2
  <2>. QED  BY <2>1, <2>2, ParseLine
<1>7. CASE UNCHANGED vars
  <2>1. /\ UNCHANGED <<walkVars, dmi, source>>
        /\ text' = text /\ cur' = cur /\ devices' = devices /\ walk' = walk
    BY <1>7 DEF vars, parseVars, walkVars
  <2>2. CASE source = "walking"
    BY <2>1, <2>2 DEF ParseInv
  <2>3. CASE source # "walking"
    BY <2>1, <2>3, ParseLine
  <2>. QED  BY <2>2, <2>3
<1>. QED  BY <1>1, <1>2, <1>3, <1>4, <1>5, <1>6, <1>7 DEF Next

\* What the invariant says when all is parsed.
LEMMA ParseTells ==
  ASSUME ParseInv, Parsed
  PROVE  IsText(Reading) /\ devices = FlattenSeq(Keeps(Reading))
<1>1. IsText(Reading) /\ text = <<>> /\ cur = <<>>
  BY DEF ParseInv, Parsed
<1>2. PICK p \in 0..Len(Reading) : Passed(Reading, p, text, cur, devices)
  BY DEF ParseInv, Parsed
<1>3. p = Len(Reading)
  BY <1>1, <1>2, RestNext DEF Passed
<1>4. devices = KeptTo(Reading, p)
  BY <1>1, <1>2, Zenon DEF Passed
<1>. QED  BY <1>1, <1>3, <1>4, KeptSteps

\* Of dmidecode's text, whatever it prints, every device has the fields printed
\* under its own header and no others (parse_dmidecode_memory).
THEOREM FieldsStayWithTheirDeviceHolds == Spec => []FieldsStayWithTheirDevice
<1>1. Init => WalkInv /\ ParseInv
  BY WalkInvInit, ParseInit DEF Init
<1>2. WalkInv /\ ParseInv /\ [Next]_vars => (WalkInv /\ ParseInv)'
  BY WalkStep, ParseStep
<1>3. WalkInv /\ ParseInv => FieldsStayWithTheirDevice
  <2>. SUFFICES ASSUME ParseInv, Parsed, source = "dmidecode"
                PROVE  devices = FlattenSeq([i \in DOMAIN dmi |->
                                   IF Opens(dmi[i]) /\ Populated(Printed(dmi, i))
                                   THEN <<Record(Printed(dmi, i))>> ELSE <<>>])
    BY Zenon DEF FieldsStayWithTheirDevice
  <2>1. Reading = dmi
    BY DEF Reading
  <2>2. devices = FlattenSeq(Keeps(dmi))
    BY <2>1, ParseTells
  <2>. QED  BY <2>2, Zenon DEF Keeps, KeptOf
<1>. QED  BY <1>1, <1>2, <1>3, PTL DEF Spec

-----------------------------------------------------------------------------
(***************************************************************************)
(* The dump of a whole table says of its memory devices what firmware does.*)
(***************************************************************************)

\* The whole table was read, and its structures are those up to the end mark.
WholeTable ==
  /\ WalkInv /\ TornInv /\ table # <<>> /\ Whole
  /\ walk = "done"

\* What structure s of the walk and t of the table have in common.
Alike(s, t) ==
  /\ s.len = Formatted(t) /\ s.typ = t.typ
  /\ \A f \in 4..(s.len - 1) : At(s.at + f) = t.body[f - 3]
  /\ Told(s) = t.strings

\* All structures up to the end mark are found, each as it was built.
LEMMA WholeTells ==
  ASSUME WholeTable
  PROVE  /\ WalkTypeOK /\ table \in Tables
         /\ Len(out) \in Nat /\ Len(UpToEnd(table)) = Len(out)
         /\ DOMAIN UpToEnd(table) = 1..Len(out)
         /\ \A k \in 1..Len(out) :
              /\ k \in 1..Len(table)
              /\ out[k] \in Structure /\ table[k] \in FirmwareStructure
              /\ Alike(out[k], table[k])
<1>1. WalkTypeOK /\ blob \in Seq(Byte) /\ table \in Tables
  BY DEF WholeTable, WalkInv, WalkTypeOK, TornInv
<1>2. Genuine
  <2>1. EncodeAll(table) \in Seq(Byte)
    BY <1>1, TableLayout
  <2>2. blob = EncodeAll(table)
    BY DEF WholeTable, Whole
  <2>3. SubSeq(blob, 1, Len(blob)) = SubSeq(EncodeAll(table), 1, Len(blob))
        /\ Len(blob) <= Len(EncodeAll(table))
    BY <2>1, <2>2
  <2>. QED  BY <2>3 DEF Genuine, IsPrefix
<1>3. Torn
  BY <1>2 DEF WholeTable, TornInv, Torn
<1>4. /\ Len(out) \in Nat /\ out \in Seq(Structure) /\ Size \in Nat
      /\ Len(table) \in Nat /\ Len(UpToEnd(table)) \in Nat
      /\ Len(out) <= Len(UpToEnd(table)) /\ Len(UpToEnd(table)) <= Len(table)
  BY <1>3, TornParts
<1>5. \A k \in 1..Len(table) : EndAt(table, k) <= Size
  <2>1. Size = EndAt(table, Len(table))
    BY <1>1, TableLayout DEF WholeTable, Whole, Size
  <2>2. \A k \in 1..Len(table) : k \in 0..Len(table)
    BY <1>4
  <2>. QED  BY <1>1, <2>1, <2>2, TableLayout
<1>6. Len(UpToEnd(table)) = Len(out)
  <2>1. CASE Len(UpToEnd(table)) = 0
    BY <1>4, <2>1
  <2>2. CASE Len(UpToEnd(table)) # 0
    <3>1. Len(UpToEnd(table)) \in 1..Len(UpToEnd(table))
          /\ Len(UpToEnd(table)) \in 1..Len(table)
      BY <1>4, <2>2
    <3>2. \A j \in 1..Len(UpToEnd(table)) : EndAt(table, j) <= Size => j <= Len(out)
      BY <1>3 DEF WholeTable, Torn, PlaceInv
    <3>3. Len(UpToEnd(table)) <= Len(out)
      BY <1>5, <3>1, <3>2
    <3>. QED  BY <1>4, <3>3
  <2>. QED  BY <2>1, <2>2
<1>7. ASSUME NEW k \in 1..Len(out)
      PROVE  /\ k \in 1..Len(table)
             /\ out[k] \in Structure /\ table[k] \in FirmwareStructure
             /\ Alike(out[k], table[k])
  <2>1. k \in 1..Len(table)
    BY <1>4
  <2>2. out[k] \in Structure /\ table[k] \in FirmwareStructure
    BY <1>1, <1>4, <2>1, TableParts
  <2>3. IsStructure(table, Size, k, out[k])
    BY <1>3 DEF Torn, FoundInv
  <2>4. out[k].typ = table[k].typ /\ Told(out[k]) = table[k].strings
    BY <1>1, <1>2, <1>5, <2>1, <2>3, FoundIsGenuine
  <2>5. out[k].at = EndAt(table, k - 1) /\ out[k].len = Formatted(table[k])
        /\ out[k].at + out[k].len <= Size
    BY <2>3 DEF IsStructure
  <2>6. \A i \in 1..Len(table[k].body) :
          EndAt(table, k - 1) + 4 + i <= Size =>
            blob[EndAt(table, k - 1) + 4 + i] = table[k].body[i]
    BY <1>1, <1>2, <2>1, BytesLeft
  <2>7. ASSUME NEW f \in 4..(out[k].len - 1)
        PROVE  At(out[k].at + f) = table[k].body[f - 3]
    <3>. DEFINE a == EndAt(table, k - 1)
                b == Len(table[k].body)
    <3>1. a \in Nat /\ b \in Nat /\ out[k].at = a /\ out[k].len = 4 + b /\ a + (4 + b) <= Size
      <4>1. a \in Nat
        BY <1>1, <2>1, PlacesInTable
      <4>2. b \in Nat
        BY <2>2, StructureParts
      <4>3. out[k].len = 4 + b
        BY <2>5 DEF Formatted
      <4>. QED  BY <2>5, <4>1, <4>2, <4>3
    <3>2. \A i \in 1..b : a + 4 + i <= Size => blob[a + 4 + i] = table[k].body[i]
      BY <2>6
    <3>. HIDE DEF a, b
    <3>3. f - 3 \in 1..b /\ a + 4 + (f - 3) <= Size /\ a + 4 + (f - 3) = (a + f) + 1
      BY <1>4, <3>1
    <3>4. blob[(a + f) + 1] = table[k].body[f - 3]
      BY <3>2, <3>3
    <3>. QED  BY <3>1, <3>4 DEF At
  <2>. QED  BY <2>1, <2>2, <2>4, <2>5, <2>7 DEF Alike
<1>8. DOMAIN UpToEnd(table) = 1..Len(out)
  BY <1>1, <1>6, UpToEndParts
<1>. QED  BY <1>1, <1>4, <1>6, <1>7, <1>8

\* A byte of the formatted area, and what stands for one that is not there.
LEMMA ByteMatch ==
  ASSUME NEW s \in Structure, NEW t \in FirmwareStructure, Alike(s, t), NEW f \in Nat, f >= 4
  PROVE  /\ ByteOf(t, f) \in Byte
         /\ f < s.len => At(s.at + f) = ByteOf(t, f)
         /\ f >= s.len => ByteOf(t, f) = 0
         /\ HasBytes(t, f) <=> f < s.len
<1>. DEFINE b == Len(t.body)
<1>1. t.body \in Seq(Byte) /\ b \in Nat /\ DOMAIN t.body = 1..b
  BY StructureParts
<1>2. s.len = 4 + b
  BY DEF Alike, Formatted
<1>3. \A i \in 1..b : t.body[i] \in Byte
  BY <1>1
<1>4. HasBytes(t, f) <=> f < s.len
  <2>1. HasBytes(t, f) <=> 4 + b > f
    BY DEF HasBytes
  <2>. HIDE DEF b
  <2>. QED  BY <1>1, <1>2, <2>1
<1>5. CASE f < s.len
  <2>1. f - 3 \in 1..b /\ f \in 4..(s.len - 1)
    <3>. HIDE DEF b
    <3>. QED  BY <1>1, <1>2, <1>5
  <2>2. ByteOf(t, f) = t.body[f - 3]
    BY <1>1, <2>1 DEF ByteOf
  <2>3. At(s.at + f) = t.body[f - 3]
    BY <2>1 DEF Alike
  <2>4. ~(f >= s.len)
    <3>. HIDE DEF b
    <3>. QED  BY <1>1, <1>2, <1>5
  <2>. QED  BY <1>3, <1>4, <2>1, <2>2, <2>3, <2>4
<1>6. CASE f >= s.len
  <2>1. f - 3 \notin 1..b /\ ~(f < s.len)
    <3>. HIDE DEF b
    <3>. QED  BY <1>1, <1>2, <1>6
  <2>2. ByteOf(t, f) = 0
    BY <1>1, <2>1 DEF ByteOf
  <2>. QED  BY <1>4, <2>1, <2>2 DEF Byte
<1>. QED
  <2>1. f < s.len \/ f >= s.len
    <3>. HIDE DEF b
    <3>. QED  BY <1>1, <1>2
  <2>. QED  BY <1>5, <1>6, <2>1

\* Two bytes of it.
LEMMA WordMatch ==
  ASSUME NEW s \in Structure, NEW t \in FirmwareStructure, Alike(s, t), NEW f \in Nat, f >= 4
  PROVE  /\ WordOf(t, f) \in Nat /\ WordOf(t, f) <= 65535
         /\ f + 1 < s.len => At(s.at + f) + 256 * At(s.at + f + 1) = WordOf(t, f)
         /\ HasBytes(t, f + 1) <=> f + 1 < s.len
<1>. DEFINE x == ByteOf(t, f)
            y == ByteOf(t, f + 1)
<1>0. f + 1 \in Nat /\ f + 1 >= 4 /\ s.len \in Nat /\ s.at \in Nat
  BY DEF Structure
<1>1. x \in Byte /\ (f < s.len => At(s.at + f) = x)
  BY ByteMatch
<1>2. /\ y \in Byte /\ (f + 1 < s.len => At(s.at + (f + 1)) = y)
      /\ HasBytes(t, f + 1) <=> f + 1 < s.len
  BY <1>0, ByteMatch
<1>3. WordOf(t, f) = x + 256 * y
  BY DEF WordOf
<1>. HIDE DEF x, y
<1>4. x + 256 * y \in Nat /\ x + 256 * y <= 65535
  BY <1>1, <1>2 DEF Byte
<1>5. ASSUME f + 1 < s.len
      PROVE  At(s.at + f) + 256 * At(s.at + f + 1) = x + 256 * y
  <2>1. f < s.len /\ s.at + (f + 1) = s.at + f + 1
    BY <1>0, <1>5
  <2>2. At(s.at + f) = x /\ At(s.at + f + 1) = y
    BY <1>1, <1>2, <1>5, <2>1
  <2>. QED  BY <2>2
<1>. QED  BY <1>2, <1>3, <1>4, <1>5

\* The widths.
LEMMA WidthMatch ==
  ASSUME NEW s \in Structure, NEW t \in FirmwareStructure, Alike(s, t)
  PROVE  /\ Width(s, TotalWidth) = WidthOf(t, 8)
         /\ Width(s, DataWidth) = WidthOf(t, 10)
<1>0. s.len \in Nat
  BY DEF Structure
<1>1. /\ 8 + 1 < s.len => At(s.at + 8) + 256 * At(s.at + 8 + 1) = WordOf(t, 8)
      /\ HasBytes(t, 8 + 1) <=> 8 + 1 < s.len
  BY WordMatch
<1>2. /\ 10 + 1 < s.len => At(s.at + 10) + 256 * At(s.at + 10 + 1) = WordOf(t, 10)
      /\ HasBytes(t, 10 + 1) <=> 10 + 1 < s.len
  BY WordMatch
<1>3. TotalWidth.at = 8 /\ DataWidth.at = 10 /\ TotalWidth.need = 10 /\ DataWidth.need = 12
  BY DEF TotalWidth, DataWidth, Field
<1>4. /\ Has(s, TotalWidth) <=> 8 + 1 < s.len
      /\ Has(s, DataWidth) <=> 10 + 1 < s.len
  BY <1>0, <1>3 DEF Has
<1>5. /\ Has(s, TotalWidth) => Word(s, TotalWidth) = WordOf(t, 8)
      /\ Has(s, DataWidth) => Word(s, DataWidth) = WordOf(t, 10)
  <2>1. /\ Word(s, TotalWidth) = At(s.at + 8) + 256 * At(s.at + 8 + 1)
        /\ Word(s, DataWidth) = At(s.at + 10) + 256 * At(s.at + 10 + 1)
    BY <1>3, Zenon DEF Word
  <2>. QED  BY <1>1, <1>2, <1>4, <2>1
<1>6. Width(s, TotalWidth) = WidthOf(t, 8)
  BY <1>1, <1>4, <1>5, SMT DEF Width, WidthOf
<1>7. Width(s, DataWidth) = WidthOf(t, 10)
  BY <1>2, <1>4, <1>5, SMT DEF Width, WidthOf
<1>. QED  BY <1>6, <1>7

\* The text of a field one byte wide.
LEMMA TextMatch ==
  ASSUME NEW s \in Structure, NEW t \in FirmwareStructure, Alike(s, t), NEW f,
         f.at \in Nat, f.at >= 4, f.need = f.at + 1
  PROVE  Text(s, f) = TextOf(t, f.at)
<1>. DEFINE a == f.at
<1>0. s.len \in Nat
  BY DEF Structure
<1>1. /\ a < s.len => At(s.at + a) = ByteOf(t, a)
      /\ a >= s.len => ByteOf(t, a) = 0
  BY ByteMatch
<1>2. Has(s, f) <=> a < s.len
  BY <1>0 DEF Has
<1>3. Index(s, f) = ByteOf(t, a)
  <2>1. CASE a < s.len
    BY <1>1, <1>2, <2>1 DEF Index
  <2>2. CASE ~(a < s.len)
    <3>1. a >= s.len
      BY <1>0, <2>2
    <3>. QED  BY <1>1, <1>2, <2>2, <3>1 DEF Index
  <2>. QED  BY <2>1, <2>2
<1>4. t.strings = Told(s) /\ DOMAIN t.strings = DOMAIN s.strings
  BY DEF Alike, Told
<1>5. \A i \in DOMAIN s.strings :
        t.strings[i] = SubSeq(blob, s.strings[i].from + 1, s.strings[i].to)
  BY <1>4 DEF Told
<1>. QED  BY <1>3, <1>4, <1>5, Zenon DEF Text, TextOf

\* The extended size, as a number of a table's bytes.
LEMMA ExtIs ==
  ASSUME NEW a \in Byte, NEW b \in Byte, NEW c \in Byte, NEW d \in Byte
  PROVE  (a + 256 * b + 65536 * c + 16777216 * (d % 128)) * 1024
           = 1024 * ((a + 256 * b) + 65536 * ((c + 256 * d) % 32768))
<1>1. d % 128 = (IF d < 128 THEN d ELSE d - 128)
  BY DEF Byte
<1>2. (c + 256 * d) % 32768 = c + 256 * (d % 128)
  <2>1. CASE d < 128
    <3>1. c + 256 * d \in Nat /\ c + 256 * d < 32768
      BY <2>1 DEF Byte
    <3>2. (c + 256 * d) % 32768 = c + 256 * d
      BY <3>1
    <3>. QED  BY <1>1, <2>1, <3>2
  <2>2. CASE d >= 128
    <3>. DEFINE r == c + 256 * (d - 128)
    <3>1. r \in Nat /\ r < 32768 /\ c + 256 * d = r + 32768
      BY <2>2 DEF Byte
    <3>. HIDE DEF r
    <3>2. (r + 32768) % 32768 = r
      BY <3>1
    <3>3. d % 128 = d - 128
      BY <1>1, <2>2 DEF Byte
    <3>. QED  BY <3>1, <3>2, <3>3 DEF r
  <2>. QED  BY <2>1, <2>2 DEF Byte
<1>3. d % 128 \in Nat
  BY <1>1 DEF Byte
<1>. DEFINE e == d % 128
<1>. HIDE DEF e
<1>4. (a + 256 * b + 65536 * c + 16777216 * e) * 1024
        = 1024 * ((a + 256 * b) + 65536 * (c + 256 * e))
  <2>1. e \in Nat /\ a \in Nat /\ b \in Nat /\ c \in Nat
    BY <1>3 DEF e, Byte
  <2>. QED  BY <2>1
<1>. QED  BY <1>2, <1>4 DEF e

\* The size, and that of an empty slot.
LEMMA SizeMatch ==
  ASSUME NEW s \in Structure, NEW t \in FirmwareStructure, Alike(s, t)
  PROVE  /\ Capacity(s) = SizeOf(t)
         /\ Empty(s) => SizeOf(t) = <<>>
<1>. DEFINE code == WordOf(t, 12)
            has  == HasBytes(t, 13)
            ext  == HasBytes(t, 31)
            mib  == WordOf(t, 28) + 65536 * (WordOf(t, 30) % 32768)
<1>0. s.len \in Nat /\ s.at \in Nat
  BY DEF Structure
<1>1. /\ code \in Nat /\ code <= 65535
      /\ 12 + 1 < s.len => At(s.at + 12) + 256 * At(s.at + 12 + 1) = code
      /\ has <=> 12 + 1 < s.len
  BY WordMatch
<1>2. SizeCode.at = 12 /\ SizeCode.need = 14 /\ ExtSize.need = 32
  BY DEF SizeCode, ExtSize, Field
<1>3. Has(s, SizeCode) <=> has
  BY <1>0, <1>1, <1>2 DEF Has
<1>4. has => Word(s, SizeCode) = code
  <2>1. Word(s, SizeCode) = At(s.at + 12) + 256 * At(s.at + 12 + 1)
    BY <1>2, Zenon DEF Word
  <2>. QED  BY <1>1, <2>1
<1>5. ext <=> 31 < s.len
  BY ByteMatch
<1>6. Has(s, ExtSize) <=> ext
  BY <1>0, <1>2, <1>5 DEF Has
<1>7. ext => ExtMiB(s) * 1024 = 1024 * mib
  <2>. SUFFICES ASSUME ext
                PROVE  ExtMiB(s) * 1024 = 1024 * mib
    OBVIOUS
  <2>1. 31 < s.len /\ 28 < s.len /\ 29 < s.len /\ 30 < s.len
    BY <1>0, <1>5
  <2>2. /\ At(s.at + 28) = ByteOf(t, 28) /\ ByteOf(t, 28) \in Byte
        /\ At(s.at + 29) = ByteOf(t, 29) /\ ByteOf(t, 29) \in Byte
        /\ At(s.at + 30) = ByteOf(t, 30) /\ ByteOf(t, 30) \in Byte
        /\ At(s.at + 31) = ByteOf(t, 31) /\ ByteOf(t, 31) \in Byte
    BY <2>1, ByteMatch
  <2>3. mib = (ByteOf(t, 28) + 256 * ByteOf(t, 29))
                + 65536 * ((ByteOf(t, 30) + 256 * ByteOf(t, 31)) % 32768)
    <3>1. 28 + 1 = 29 /\ 30 + 1 = 31
      OBVIOUS
    <3>. QED  BY <3>1 DEF WordOf
  <2>4. ExtMiB(s) = ByteOf(t, 28) + 256 * ByteOf(t, 29) + 65536 * ByteOf(t, 30)
                      + 16777216 * (ByteOf(t, 31) % 128)
    BY <2>2 DEF ExtMiB
  <2>. HIDE DEF mib
  <2>. QED  BY <2>2, <2>3, <2>4, ExtIs
<1>. HIDE DEF has, ext, mib, code
<1>8. SizeOf(t) = CASE ~has \/ code \in {0, 65535} -> <<>>
                    [] has /\ ext /\ code = 32767 -> <<1024 * mib>>
                    [] has /\ code # 65535 /\ code >= 32768 -> <<code - 32768>>
                    [] OTHER -> <<1024 * code>>
  BY SMT DEF SizeOf, has, ext, mib, code
<1>9. CASE ~has
  <2>1. Capacity(s) = <<>>
    BY <1>3, <1>9 DEF Capacity
  <2>2. SizeOf(t) = <<>>
    BY <1>8, <1>9
  <2>. QED  BY <2>1, <2>2
<1>10. CASE has
  <2>. DEFINE w == Word(s, SizeCode)
  <2>1. w = code
    BY <1>4, <1>10
  <2>2. Capacity(s) = CASE ~has \/ w \in {0, 65535} -> <<>>
                        [] has /\ w = 32767 /\ ext -> <<ExtMiB(s) * 1024>>
                        [] has /\ w >= 32768 /\ w # 65535 -> <<w - 32768>>
                        [] OTHER -> <<w * 1024>>
    BY <1>3, <1>6, SMT DEF Capacity, w
  <2>. HIDE DEF w
  <2>3. CASE code \in {0, 65535}
    BY <1>8, <2>1, <2>2, <2>3
  <2>4. CASE code \notin {0, 65535} /\ code = 32767 /\ ext
    <3>1. Capacity(s) = <<ExtMiB(s) * 1024>>
      BY <1>10, <2>1, <2>2, <2>4
    <3>2. SizeOf(t) = <<1024 * mib>>
      BY <1>8, <1>10, <2>4
    <3>3. code # 0
      BY <2>4
    <3>. QED  BY <1>3, <1>7, <2>1, <2>4, <3>1, <3>2, <3>3 DEF Empty, w
  <2>5. CASE code \notin {0, 65535} /\ code >= 32768
    <3>1. Capacity(s) = <<code - 32768>>
      BY <1>1, <1>10, <2>1, <2>2, <2>5
    <3>2. SizeOf(t) = <<code - 32768>>
      BY <1>1, <1>8, <1>10, <2>5
    <3>. QED  BY <2>1, <2>5, <3>1, <3>2 DEF Empty, w
  <2>6. CASE code \notin {0, 65535} /\ ~(code >= 32768) /\ ~(code = 32767 /\ ext)
    <3>1. Capacity(s) = <<code * 1024>>
      BY <1>1, <1>10, <2>1, <2>2, <2>6
    <3>2. SizeOf(t) = <<1024 * code>>
      BY <1>1, <1>8, <1>10, <2>6
    <3>3. code * 1024 = 1024 * code
      BY <1>1
    <3>. QED  BY <2>1, <2>6, <3>1, <3>2, <3>3 DEF Empty, w
  <2>. QED  BY <2>3, <2>4, <2>5, <2>6
<1>. QED  BY <1>9, <1>10

\* The key of each line of a structure's dump.
LEMMA AllKeys ==
  ASSUME NEW s, NEW h, NEW i \in 2..9
  PROVE  /\ AllOf(s, h)[i].key = "total"   <=> i = 2
         /\ AllOf(s, h)[i].key = "data"    <=> i = 3
         /\ AllOf(s, h)[i].key = "size"    <=> i = 4
         /\ AllOf(s, h)[i].key = "locator" <=> i = 5
         /\ AllOf(s, h)[i].key = "maker"   <=> i = 6
         /\ AllOf(s, h)[i].key = "serial"  <=> i = 7
         /\ AllOf(s, h)[i].key = "part"    <=> i = 8
         /\ AllOf(s, h)[i].key = "mfgId"   <=> i = 9
<1>. DEFINE x == AllOf(s, h)
<1>1. /\ x[2] = Line("field", h, "total", Width(s, TotalWidth), <<>>)
      /\ x[3] = Line("field", h, "data", Width(s, DataWidth), <<>>)
      /\ x[4] = Line("field", h, "size", 0, Capacity(s))
      /\ x[5] = Line("field", h, "locator", 0, Text(s, Locator))
      /\ x[6] = Line("field", h, "maker", 0, Text(s, Maker))
      /\ x[7] = Line("field", h, "serial", 0, Text(s, Serial))
      /\ x[8] = Line("field", h, "part", 0, Text(s, Part))
      /\ x[9] = Line("field", h, "mfgId", At(s.at + MakerId.at + 1), <<>>)
  BY AllIs
<1>. HIDE DEF x
<1>2. /\ x[2].key = "total" /\ x[3].key = "data" /\ x[4].key = "size" /\ x[5].key = "locator"
      /\ x[6].key = "maker" /\ x[7].key = "serial" /\ x[8].key = "part" /\ x[9].key = "mfgId"
  BY <1>1 DEF Line
<1>3. i = 2 \/ i = 3 \/ i = 4 \/ i = 5 \/ i = 6 \/ i = 7 \/ i = 8 \/ i = 9
  OBVIOUS
<1>. QED  BY <1>2, <1>3 DEF x

\* What each line of a structure's dump says.
LEMMA AllValues ==
  ASSUME NEW s, NEW h
  PROVE  /\ AllOf(s, h)[2].num = Width(s, TotalWidth)
         /\ AllOf(s, h)[3].num = Width(s, DataWidth)
         /\ AllOf(s, h)[4].str = Capacity(s)
         /\ AllOf(s, h)[5].str = Text(s, Locator)
         /\ AllOf(s, h)[6].str = Text(s, Maker)
         /\ AllOf(s, h)[7].str = Text(s, Serial)
         /\ AllOf(s, h)[8].str = Text(s, Part)
         /\ AllOf(s, h)[9].num = At(s.at + MakerId.at + 1)
<1>. DEFINE x == AllOf(s, h)
<1>1. /\ x[2] = Line("field", h, "total", Width(s, TotalWidth), <<>>)
      /\ x[3] = Line("field", h, "data", Width(s, DataWidth), <<>>)
      /\ x[4] = Line("field", h, "size", 0, Capacity(s))
      /\ x[5] = Line("field", h, "locator", 0, Text(s, Locator))
      /\ x[6] = Line("field", h, "maker", 0, Text(s, Maker))
      /\ x[7] = Line("field", h, "serial", 0, Text(s, Serial))
      /\ x[8] = Line("field", h, "part", 0, Text(s, Part))
      /\ x[9] = Line("field", h, "mfgId", At(s.at + MakerId.at + 1), <<>>)
  BY AllIs
<1>. HIDE DEF x
<1>2. /\ x[2].num = Width(s, TotalWidth) /\ x[3].num = Width(s, DataWidth)
      /\ x[4].str = Capacity(s) /\ x[5].str = Text(s, Locator)
      /\ x[6].str = Text(s, Maker) /\ x[7].str = Text(s, Serial) /\ x[8].str = Text(s, Part)
      /\ x[9].num = At(s.at + MakerId.at + 1)
  BY <1>1 DEF Line
<1>. QED  BY <1>2 DEF x

\* A field's line in a block of lines.
LEMMA InBlock ==
  ASSUME NEW a \in Nat, NEW m \in 5..9, NEW z \in Nat, a + m <= z, NEW f \in 2..9, f <= m
  PROVE  f \in 1..m /\ a + f \in 1..z /\ f \in 1..9 /\ f # 1
OBVIOUS

\* What the dump says of a field of structure k.
LEMMA UnderDump ==
  ASSUME WalkTypeOK, NEW k \in 1..Len(out), out[k].typ = 17, NEW key, NEW f \in 2..9,
         \A i \in 2..9 : AllOf(out[k], k)[i].key = key <=> i = f
  PROVE  /\ f <= Count(out[k]) =>
              /\ Str(DumpAll, k, key) = AllOf(out[k], k)[f].str
              /\ Num(DumpAll, k, key) = AllOf(out[k], k)[f].num
         /\ f > Count(out[k]) => Str(DumpAll, k, key) = <<>> /\ Num(DumpAll, k, key) = 0
<1>. DEFINE T == DumpAll
            N == Len(out)
            n(j) == Count(out[j])
            U == Under(T, k, key)
<1>1. /\ T \in Seq(DumpLines) /\ Len(T) \in Nat /\ DOMAIN T = 1..Len(T)
      /\ DumpAt(k) \in Nat /\ n(k) \in 5..9 /\ DumpAt(k) + n(k) <= Len(T)
      /\ \A j \in 1..N : out[j].typ = 17 =>
           n(j) \in 5..9 /\ \A i \in 1..n(j) : T[DumpAt(j) + i] = AllOf(out[j], j)[i]
      /\ \A x \in 1..Len(T) : \E j \in 1..N : /\ out[j].typ = 17
                                              /\ \E i \in 1..n(j) : x = DumpAt(j) + i
  BY DumpLine, LenProperties
<1>. HIDE DEF T, n, U
<1>2. ASSUME NEW x \in U
      PROVE  f <= n(k) /\ x = DumpAt(k) + f
  <2>1. x \in 1..Len(T) /\ T[x].kind = "field" /\ T[x].handle = k /\ T[x].key = key
    BY <1>1 DEF U, Under
  <2>2. PICK j \in 1..N : out[j].typ = 17 /\ \E i \in 1..n(j) : x = DumpAt(j) + i
    BY <1>1, <2>1
  <2>3. PICK i \in 1..n(j) : x = DumpAt(j) + i
    BY <2>2
  <2>4. n(j) \in 5..9 /\ T[x] = AllOf(out[j], j)[i]
    BY <1>1, <2>2, <2>3
  <2>5. i \in 1..9
    BY <2>4
  <2>6. T[x].handle = j /\ (i = 1 => T[x].kind = "device")
    BY <2>4, <2>5, AllKinds
  <2>7. j = k /\ i # 1
    BY <2>1, <2>6
  <2>8. i \in 2..9
    BY <2>5, <2>7
  <2>9. i = f
    BY <2>1, <2>4, <2>7, <2>8
  <2>10. f <= n(k)
    BY <2>4, <2>7, <2>9
  <2>. QED  BY <2>3, <2>7, <2>9, <2>10
<1>3. ASSUME f <= n(k)
      PROVE  /\ DumpAt(k) + f \in U
             /\ T[DumpAt(k) + f] = AllOf(out[k], k)[f]
  <2>1. f \in 1..n(k) /\ DumpAt(k) + f \in 1..Len(T) /\ f \in 1..9 /\ f # 1
    <3>. DEFINE a == DumpAt(k)
                m == n(k)
                z == Len(T)
    <3>1. /\ a \in Nat /\ m \in 5..9 /\ a + m <= z /\ z \in Nat /\ f <= m
      BY <1>1, <1>3
    <3>. HIDE DEF a, m, z
    <3>2. f \in 1..m /\ a + f \in 1..z /\ f \in 1..9 /\ f # 1
      BY <3>1, InBlock, Zenon
    <3>. QED  BY <3>2 DEF a, m, z
  <2>2. T[DumpAt(k) + f] = AllOf(out[k], k)[f]
    <3>1. \A i \in 1..n(k) : T[DumpAt(k) + i] = AllOf(out[k], k)[i]
      BY <1>1, Zenon
    <3>. QED  BY <2>1, <3>1, Zenon
  <2>3. /\ T[DumpAt(k) + f].handle = k /\ T[DumpAt(k) + f].kind = "field"
        /\ T[DumpAt(k) + f].key = key
    <3>1. AllOf(out[k], k)[f].handle = k /\ AllOf(out[k], k)[f].kind = "field"
      <4>1. f \in 1..9 /\ f # 1
        OBVIOUS
      <4>. QED  BY <4>1, AllKinds
    <3>2. AllOf(out[k], k)[f].key = key
      OBVIOUS
    <3>. QED  BY <2>2, <3>1, <3>2, Zenon
  <2>. QED  BY <1>1, <2>1, <2>2, <2>3 DEF U, Under
<1>4. CASE f <= n(k)
  <2>1. U \in SUBSET Nat /\ DumpAt(k) + f \in U /\ \A x \in U : x <= DumpAt(k) + f
    <3>1. DumpAt(k) + f \in Nat
      <4>1. DumpAt(k) \in Nat
        BY <1>1, Zenon
      <4>. QED  BY <4>1
    <3>. QED  BY <1>2, <1>3, <1>4, <3>1
  <2>2. LastIn(U) = DumpAt(k) + f
    BY <2>1, LastInIs
  <2>3. U # {} /\ T[LastIn(U)] = AllOf(out[k], k)[f]
    BY <1>3, <1>4, <2>1, <2>2
  <2>4. ~(f > n(k))
    BY <1>1, <1>4
  <2>. QED  BY <1>4, <2>3, <2>4 DEF Str, Num, U, T, n
<1>5. CASE ~(f <= n(k))
  <2>1. U = {}
    BY <1>2, <1>5
  <2>. QED  BY <1>5, <2>1 DEF Str, Num, U, T, n
<1>. QED  BY <1>4, <1>5

\* Which lines are printed of a structure that is not an empty slot.
LEMMA CountIs ==
  ASSUME NEW s, s.len \in Nat
  PROVE  /\ Count(s) \in 5..9
         /\ Empty(s) => Count(s) = 5
         /\ ~Empty(s) =>
              /\ 6 <= Count(s) <=> Has(s, Maker)
              /\ 7 <= Count(s) <=> Has(s, Serial)
              /\ 8 <= Count(s) <=> Has(s, Part)
              /\ 9 <= Count(s) <=> Has(s, MakerId)
<1>1. /\ Has(s, MakerId) => Has(s, Part)
      /\ Has(s, Part) => Has(s, Serial)
      /\ Has(s, Serial) => Has(s, Maker)
  BY FieldsInOrder
<1>2. CASE Empty(s) \/ ~Has(s, Maker)
  <2>1. Count(s) = 5
    BY <1>2 DEF Count
  <2>. QED  BY <1>1, <1>2, <2>1
<1>3. CASE ~Empty(s) /\ Has(s, Maker) /\ ~Has(s, Serial)
  <2>1. Count(s) = 6
    BY <1>3 DEF Count
  <2>. QED  BY <1>1, <1>3, <2>1
<1>4. CASE ~Empty(s) /\ Has(s, Serial) /\ ~Has(s, Part)
  <2>1. Count(s) = 7
    BY <1>1, <1>4 DEF Count
  <2>. QED  BY <1>1, <1>4, <2>1
<1>5. CASE ~Empty(s) /\ Has(s, Part) /\ ~Has(s, MakerId)
  <2>1. Count(s) = 8
    BY <1>1, <1>5 DEF Count
  <2>. QED  BY <1>1, <1>5, <2>1
<1>6. CASE ~Empty(s) /\ Has(s, MakerId)
  <2>1. Count(s) = 9
    BY <1>1, <1>6 DEF Count
  <2>. QED  BY <1>1, <1>6, <2>1
<1>. QED  BY <1>2, <1>3, <1>4, <1>5, <1>6

\* The row that the dump of structure k describes.
LEMMA DumpRow ==
  ASSUME WalkTypeOK, NEW k \in 1..Len(out), out[k].typ = 17
  PROVE  LET s == out[k] IN
         /\ Num(DumpAll, k, "total") = Width(s, TotalWidth)
         /\ Num(DumpAll, k, "data") = Width(s, DataWidth)
         /\ Str(DumpAll, k, "size") = Capacity(s)
         /\ Str(DumpAll, k, "locator") = Text(s, Locator)
         /\ ~Empty(s) =>
              /\ Str(DumpAll, k, "maker") = IF Has(s, Maker) THEN Text(s, Maker) ELSE <<>>
              /\ Str(DumpAll, k, "serial") = IF Has(s, Serial) THEN Text(s, Serial) ELSE <<>>
              /\ Str(DumpAll, k, "part") = IF Has(s, Part) THEN Text(s, Part) ELSE <<>>
              /\ Num(DumpAll, k, "mfgId") =
                   IF Has(s, MakerId) THEN At(s.at + MakerId.at + 1) ELSE 0
<1>. DEFINE s == out[k]
            x == AllOf(s, k)
            c == Count(s)
<1>1. s.len \in Nat
  <2>1. out \in Seq(Structure)
    BY DEF WalkTypeOK
  <2>2. s \in Structure
    BY <2>1
  <2>. QED  BY <2>2 DEF Structure
<1>2. c \in 5..9
  BY <1>1, CountIs
<1>3. ~Empty(s) =>
        /\ 6 <= c <=> Has(s, Maker)
        /\ 7 <= c <=> Has(s, Serial)
        /\ 8 <= c <=> Has(s, Part)
        /\ 9 <= c <=> Has(s, MakerId)
  BY <1>1, CountIs
<1>4. ASSUME NEW f \in 2..9, NEW key, \A i \in 2..9 : x[i].key = key <=> i = f
      PROVE  /\ f <= c => Str(DumpAll, k, key) = x[f].str /\ Num(DumpAll, k, key) = x[f].num
             /\ f > c => Str(DumpAll, k, key) = <<>> /\ Num(DumpAll, k, key) = 0
  BY <1>4, UnderDump
<1>. HIDE DEF c, x
<1>c. /\ \A f \in 2..5 : f <= c
      /\ \A f \in 2..9 : f <= c \/ f > c
      /\ {2, 3, 4, 5} \subseteq 2..5 /\ {2, 3, 4, 5, 6, 7, 8, 9} \subseteq 2..9
  BY <1>2
<1>5. Num(DumpAll, k, "total") = x[2].num
  <2>1. \A i \in 2..9 : x[i].key = "total" <=> i = 2
    BY AllKeys DEF x
  <2>. QED  BY <1>c, <1>4, <2>1, Zenon
<1>6. Num(DumpAll, k, "data") = x[3].num
  <2>1. \A i \in 2..9 : x[i].key = "data" <=> i = 3
    BY AllKeys DEF x
  <2>. QED  BY <1>c, <1>4, <2>1, Zenon
<1>7. Str(DumpAll, k, "size") = x[4].str
  <2>1. \A i \in 2..9 : x[i].key = "size" <=> i = 4
    BY AllKeys DEF x
  <2>. QED  BY <1>c, <1>4, <2>1, Zenon
<1>8. Str(DumpAll, k, "locator") = x[5].str
  <2>1. \A i \in 2..9 : x[i].key = "locator" <=> i = 5
    BY AllKeys DEF x
  <2>. QED  BY <1>c, <1>4, <2>1, Zenon
<1>9. Str(DumpAll, k, "maker") = IF 6 <= c THEN x[6].str ELSE <<>>
  <2>1. \A i \in 2..9 : x[i].key = "maker" <=> i = 6
    BY AllKeys DEF x
  <2>2. 6 \in 2..9
    OBVIOUS
  <2>3. /\ 6 <= c => Str(DumpAll, k, "maker") = x[6].str
        /\ 6 > c => Str(DumpAll, k, "maker") = <<>>
    BY <1>4, <2>1, <2>2, Zenon
  <2>. QED  BY <1>2, <2>3
<1>10. Str(DumpAll, k, "serial") = IF 7 <= c THEN x[7].str ELSE <<>>
  <2>1. \A i \in 2..9 : x[i].key = "serial" <=> i = 7
    BY AllKeys DEF x
  <2>2. 7 \in 2..9
    OBVIOUS
  <2>3. /\ 7 <= c => Str(DumpAll, k, "serial") = x[7].str
        /\ 7 > c => Str(DumpAll, k, "serial") = <<>>
    BY <1>4, <2>1, <2>2, Zenon
  <2>. QED  BY <1>2, <2>3
<1>11. Str(DumpAll, k, "part") = IF 8 <= c THEN x[8].str ELSE <<>>
  <2>1. \A i \in 2..9 : x[i].key = "part" <=> i = 8
    BY AllKeys DEF x
  <2>2. 8 \in 2..9
    OBVIOUS
  <2>3. /\ 8 <= c => Str(DumpAll, k, "part") = x[8].str
        /\ 8 > c => Str(DumpAll, k, "part") = <<>>
    BY <1>4, <2>1, <2>2, Zenon
  <2>. QED  BY <1>2, <2>3
<1>12. Num(DumpAll, k, "mfgId") = IF 9 <= c THEN x[9].num ELSE 0
  <2>1. \A i \in 2..9 : x[i].key = "mfgId" <=> i = 9
    BY AllKeys DEF x
  <2>2. 9 \in 2..9
    OBVIOUS
  <2>3. /\ 9 <= c => Num(DumpAll, k, "mfgId") = x[9].num
        /\ 9 > c => Num(DumpAll, k, "mfgId") = 0
    BY <1>4, <2>1, <2>2, Zenon
  <2>. QED  BY <1>2, <2>3
<1>13. /\ x[2].num = Width(s, TotalWidth) /\ x[3].num = Width(s, DataWidth)
       /\ x[4].str = Capacity(s) /\ x[5].str = Text(s, Locator)
       /\ x[6].str = Text(s, Maker) /\ x[7].str = Text(s, Serial) /\ x[8].str = Text(s, Part)
       /\ x[9].num = At(s.at + MakerId.at + 1)
  <2>. HIDE DEF s, c
  <2>. QED  BY AllValues DEF x
<1>. QED  BY <1>3, <1>5, <1>6, <1>7, <1>8, <1>9, <1>10, <1>11, <1>12, <1>13

\* A field that is not there has no text.
LEMMA NoText ==
  ASSUME NEW s \in Structure, NEW f, ~Has(s, f)
  PROVE  Text(s, f) = <<>>
<1>1. Index(s, f) = 0
  BY DEF Index
<1>2. s.strings \in Seq(Interval)
  BY DEF Structure
<1>3. 0 \notin DOMAIN s.strings
  BY <1>2
<1>. QED  BY <1>1, <1>3, Zenon DEF Text

\* The id of the maker.
LEMMA IdMatch ==
  ASSUME NEW s \in Structure, NEW t \in FirmwareStructure, Alike(s, t)
  PROVE  /\ Has(s, MakerId) <=> HasBytes(t, 45)
         /\ Has(s, MakerId) => At(s.at + MakerId.at + 1) = ByteOf(t, 45)
<1>1. s.len \in Nat /\ s.at \in Nat /\ MakerId.at = 44 /\ MakerId.need = 46
  BY DEF Structure, MakerId, Field
<1>2. /\ 45 < s.len => At(s.at + 45) = ByteOf(t, 45)
      /\ HasBytes(t, 45) <=> 45 < s.len
  BY ByteMatch
<1>3. Has(s, MakerId) <=> 45 < s.len
  BY <1>1 DEF Has
<1>4. s.at + MakerId.at + 1 = s.at + 45
  BY <1>1
<1>. QED  BY <1>2, <1>3, <1>4

\* What is recorded of a table's structure i.
RowFor(i) == IF i \in Modules(table) THEN <<RowOf(table, i)>> ELSE <<>>

\* A row of the walk's texts and numbers is recorded as the row of the table.
LEMMA RecordIs ==
  ASSUME NEW k, NEW r, NEW maker, NEW id,
         maker = TextOf(table[k], 23),
         id = IF HasBytes(table[k], 45) THEN ByteOf(table[k], 45) ELSE 0,
         r = [handle |-> k, locator |-> TextOf(table[k], 16), size |-> SizeOf(table[k]),
              total |-> WidthOf(table[k], 8), data |-> WidthOf(table[k], 10), maker |-> maker,
              serial |-> TextOf(table[k], 24), part |-> TextOf(table[k], 26), mfgId |-> id]
  PROVE  Record(r) = RowOf(table, k)
<1>. DEFINE named == maker \in Placeholders /\ id \in VendorIds
<1>1. named <=> /\ TextOf(table[k], 23) \in Placeholders
                /\ HasBytes(table[k], 45) /\ ByteOf(table[k], 45) \in VendorIds
  BY VendorIdsAssumption
<1>2. MakerOf(table[k]) = IF named THEN <<id>> ELSE maker
  BY <1>1, Zenon DEF MakerOf
<1>3. r.maker = maker /\ r.mfgId = id
  OBVIOUS
<1>4. Jedec(r) = IF named THEN [r EXCEPT !.maker = <<id>>] ELSE r
  BY <1>3, Zenon DEF Jedec
<1>. HIDE DEF named
<1>5. CASE named
  <2>1. Record(r) = [[r EXCEPT !.maker = <<id>>] EXCEPT !.mfgId = 0]
    BY <1>4, <1>5 DEF Record
  <2>2. MakerOf(table[k]) = <<id>>
    BY <1>2, <1>5
  <2>. DEFINE a == TextOf(table[k], 16)
              b == SizeOf(table[k])
              c == WidthOf(table[k], 8)
              d == WidthOf(table[k], 10)
              e == TextOf(table[k], 24)
              f == TextOf(table[k], 26)
              m == <<id>>
  <2>3. RowOf(table, k) = [handle |-> k, total |-> c, data |-> d, size |-> b, locator |-> a,
                           maker |-> m, serial |-> e, part |-> f, mfgId |-> 0]
    BY <2>2 DEF RowOf
  <2>. HIDE DEF a, b, c, d, e, f, m
  <2>4. r = [handle |-> k, locator |-> a, size |-> b, total |-> c, data |-> d, maker |-> maker,
             serial |-> e, part |-> f, mfgId |-> id]
    BY DEF a, b, c, d, e, f
  <2>. DEFINE x == [r EXCEPT !.maker = m]
  <2>5. x = [handle |-> k, locator |-> a, size |-> b, total |-> c, data |-> d, maker |-> m,
             serial |-> e, part |-> f, mfgId |-> id]
    BY <2>4
  <2>. HIDE DEF x
  <2>6. [x EXCEPT !.mfgId = 0]
          = [handle |-> k, total |-> c, data |-> d, size |-> b, locator |-> a,
             maker |-> m, serial |-> e, part |-> f, mfgId |-> 0]
    BY <2>5
  <2>. QED  BY <2>1, <2>3, <2>6 DEF m, x
<1>6. CASE ~named
  <2>1. Record(r) = [r EXCEPT !.mfgId = 0]
    BY <1>4, <1>6 DEF Record
  <2>2. MakerOf(table[k]) = maker
    BY <1>2, <1>6
  <2>. DEFINE a == TextOf(table[k], 16)
              b == SizeOf(table[k])
              c == WidthOf(table[k], 8)
              d == WidthOf(table[k], 10)
              e == TextOf(table[k], 24)
              f == TextOf(table[k], 26)
  <2>3. RowOf(table, k) = [handle |-> k, total |-> c, data |-> d, size |-> b, locator |-> a,
                           maker |-> maker, serial |-> e, part |-> f, mfgId |-> 0]
    BY <2>2 DEF RowOf
  <2>. HIDE DEF a, b, c, d, e, f
  <2>4. r = [handle |-> k, locator |-> a, size |-> b, total |-> c, data |-> d, maker |-> maker,
             serial |-> e, part |-> f, mfgId |-> id]
    BY DEF a, b, c, d, e, f
  <2>5. [r EXCEPT !.mfgId = 0]
          = [handle |-> k, total |-> c, data |-> d, size |-> b, locator |-> a,
             maker |-> maker, serial |-> e, part |-> f, mfgId |-> 0]
    BY <2>4
  <2>. QED  BY <2>1, <2>3, <2>5
<1>. QED  BY <1>5, <1>6

\* What is kept of structure k's dump is the row of the table, if it is a module.
LEMMA KeptMatch ==
  ASSUME WholeTable, NEW k \in 1..Len(out)
  PROVE  /\ out[k].typ = 17 => KeptOf(DumpAll, DumpAt(k) + 1) = RowFor(k)
         /\ out[k].typ # 17 => RowFor(k) = <<>>
<1>. DEFINE s == out[k]
            t == table[k]
            r == LineRow(DumpAll, k)
            good == SizeOf(t) # <<>> /\ TextOf(t, 16) # <<>> /\ TextOf(t, 16) \notin Misnamed
<1>1. /\ WalkTypeOK /\ s \in Structure /\ t \in FirmwareStructure /\ Alike(s, t)
      /\ k \in DOMAIN UpToEnd(table)
  BY WholeTells
<1>2. s.typ = t.typ
  BY <1>1 DEF Alike
<1>3. Populated(RowOf(table, k)) <=> good
  <2>1. RowOf(table, k).size = SizeOf(t) /\ RowOf(table, k).locator = TextOf(t, 16)
    BY DEF RowOf
  <2>. QED  BY <2>1, Zenon DEF Populated
<1>4. k \in Modules(table) <=> t.typ = 17 /\ good
  BY <1>1, <1>3, Zenon DEF Modules
<1>. HIDE DEF s, t, good
<1>5. out[k].typ # 17 => RowFor(k) = <<>>
  BY <1>2, <1>4, Zenon DEF RowFor, s
<1>6. ASSUME out[k].typ = 17
      PROVE  KeptOf(DumpAll, DumpAt(k) + 1) = RowFor(k)
  <2>1. Opens(DumpAll[DumpAt(k) + 1]) /\ DumpAll[DumpAt(k) + 1].handle = k
    <3>1. /\ Count(out[k]) \in 5..9
          /\ \A i \in 1..Count(out[k]) : DumpAll[DumpAt(k) + i] = AllOf(out[k], k)[i]
      BY <1>1, <1>6, DumpLine
    <3>2. 1 \in 1..Count(out[k]) /\ 1 \in 1..9
      BY <3>1
    <3>3. DumpAll[DumpAt(k) + 1] = AllOf(out[k], k)[1]
      BY <3>1, <3>2
    <3>. QED  BY <3>2, <3>3, AllKinds
  <2>2. Printed(DumpAll, DumpAt(k) + 1) = r
    BY <2>1 DEF Printed
  <2>3. /\ Num(DumpAll, k, "total") = Width(s, TotalWidth)
        /\ Num(DumpAll, k, "data") = Width(s, DataWidth)
        /\ Str(DumpAll, k, "size") = Capacity(s)
        /\ Str(DumpAll, k, "locator") = Text(s, Locator)
        /\ ~Empty(s) =>
             /\ Str(DumpAll, k, "maker") = IF Has(s, Maker) THEN Text(s, Maker) ELSE <<>>
             /\ Str(DumpAll, k, "serial") = IF Has(s, Serial) THEN Text(s, Serial) ELSE <<>>
             /\ Str(DumpAll, k, "part") = IF Has(s, Part) THEN Text(s, Part) ELSE <<>>
             /\ Num(DumpAll, k, "mfgId") =
                  IF Has(s, MakerId) THEN At(s.at + MakerId.at + 1) ELSE 0
    BY <1>1, <1>6, DumpRow DEF s
  <2>4. /\ Width(s, TotalWidth) = WidthOf(t, 8) /\ Width(s, DataWidth) = WidthOf(t, 10)
        /\ Capacity(s) = SizeOf(t) /\ (Empty(s) => SizeOf(t) = <<>>)
    BY <1>1, WidthMatch, SizeMatch
  <2>5. /\ Text(s, Locator) = TextOf(t, 16) /\ Text(s, Maker) = TextOf(t, 23)
        /\ Text(s, Serial) = TextOf(t, 24) /\ Text(s, Part) = TextOf(t, 26)
    <3>1. /\ Locator.at = 16 /\ Locator.need = 16 + 1 /\ Maker.at = 23 /\ Maker.need = 23 + 1
          /\ Serial.at = 24 /\ Serial.need = 24 + 1 /\ Part.at = 26 /\ Part.need = 26 + 1
      BY DEF Locator, Maker, Serial, Part, Field
    <3>2. Text(s, Locator) = TextOf(t, 16)
      BY <1>1, <3>1, TextMatch
    <3>3. Text(s, Maker) = TextOf(t, 23)
      BY <1>1, <3>1, TextMatch
    <3>4. Text(s, Serial) = TextOf(t, 24)
      BY <1>1, <3>1, TextMatch
    <3>5. Text(s, Part) = TextOf(t, 26)
      BY <1>1, <3>1, TextMatch
    <3>. QED  BY <3>2, <3>3, <3>4, <3>5
  <2>6. ~Empty(s) =>
          /\ Str(DumpAll, k, "maker") = TextOf(t, 23)
          /\ Str(DumpAll, k, "serial") = TextOf(t, 24)
          /\ Str(DumpAll, k, "part") = TextOf(t, 26)
          /\ Num(DumpAll, k, "mfgId") = IF HasBytes(t, 45) THEN ByteOf(t, 45) ELSE 0
    <3>1. /\ ~Has(s, Maker) => Text(s, Maker) = <<>>
          /\ ~Has(s, Serial) => Text(s, Serial) = <<>>
          /\ ~Has(s, Part) => Text(s, Part) = <<>>
      BY <1>1, NoText
    <3>2. /\ Has(s, MakerId) <=> HasBytes(t, 45)
          /\ Has(s, MakerId) => At(s.at + MakerId.at + 1) = ByteOf(t, 45)
      BY <1>1, IdMatch
    <3>. QED  BY <2>3, <2>5, <3>1, <3>2, Zenon
  <2>7. Populated(r) <=> good
    <3>1. r.size = SizeOf(t) /\ r.locator = TextOf(t, 16)
      BY <2>3, <2>4, <2>5 DEF LineRow
    <3>. QED  BY <3>1, Zenon DEF Populated, good
  <2>8. ASSUME good
        PROVE  Record(r) = RowOf(table, k)
    <3>1. ~Empty(s)
      BY <2>4, <2>8 DEF good
    <3>. DEFINE id == IF HasBytes(t, 45) THEN ByteOf(t, 45) ELSE 0
    <3>2. r = [handle |-> k, locator |-> TextOf(t, 16), size |-> SizeOf(t),
               total |-> WidthOf(t, 8), data |-> WidthOf(t, 10), maker |-> TextOf(t, 23),
               serial |-> TextOf(t, 24), part |-> TextOf(t, 26), mfgId |-> id]
      BY <2>3, <2>4, <2>5, <2>6, <3>1, Zenon DEF LineRow
    <3>. HIDE DEF r
    <3>. QED  BY <3>2, RecordIs, Zenon DEF t
  <2>9. KeptOf(DumpAll, DumpAt(k) + 1) = IF Populated(r) THEN <<Record(r)>> ELSE <<>>
    BY <2>1, <2>2, Zenon DEF KeptOf
  <2>. QED  BY <1>2, <1>4, <1>6, <2>7, <2>8, <2>9, Zenon DEF RowFor, s
<1>. QED  BY <1>5, <1>6

\* Of the dumps of the first k structures is kept what the table's first k say.
LEMMA KeptAre ==
  ASSUME WholeTable
  PROVE  FlattenSeq(Keeps(DumpAll)) = FlattenSeq([i \in 1..Len(out) |-> RowFor(i)])
<1>. DEFINE T == DumpAll
            N == Len(out)
            S == {RowOf(table, i) : i \in 1..N}
            R == [i \in 1..N |-> RowFor(i)]
            e(k) == Ends(Dumps, k)
            want(k) == FlattenSeq(SubSeq(R, 1, k))
            Bad == {k \in 0..N : KeptTo(T, e(k)) # want(k)}
<1>1. WalkTypeOK /\ N \in Nat /\ IsText(T) /\ Len(T) \in Nat
  <2>1. WalkTypeOK /\ N \in Nat
    BY WholeTells
  <2>. QED  BY <2>1, DumpIsText DEF IsText
<1>2. /\ R \in Seq(Seq(S)) /\ Len(R) = N
      /\ \A k \in 1..N : R[k] = RowFor(k) /\ RowFor(k) \in Seq(S)
  <2>1. ASSUME NEW k \in 1..N
        PROVE  RowFor(k) \in Seq(S)
    <3>1. RowOf(table, k) \in S
      OBVIOUS
    <3>. HIDE DEF S
    <3>2. <<RowOf(table, k)>> \in Seq(S) /\ <<>> \in Seq(S)
      BY <3>1
    <3>. QED  BY <3>2, Zenon DEF RowFor
  <2>. HIDE DEF S, N
  <2>. QED  BY <1>1, <2>1 DEF N
<1>. HIDE DEF R, S
<1>3. /\ want(0) = <<>> /\ want(N) = FlattenSeq(R)
      /\ \A k \in 0..N : want(k) \in Seq(S)
      /\ \A k \in 1..N : want(k) = want(k - 1) \o RowFor(k)
  <2>1. /\ want(0) = <<>> /\ want(Len(R)) = FlattenSeq(R)
        /\ \A k \in 0..Len(R) : want(k) \in Seq(S)
        /\ \A k \in 1..Len(R) : want(k) = want(k - 1) \o R[k]
    <3>1. R \in Seq(Seq(S))
      BY <1>2
    <3>. HIDE DEF Bad, T, N
    <3>. QED  BY <3>1, FlattenStep
  <2>. HIDE DEF want, N
  <2>. QED  BY <1>2, <2>1
<1>4. /\ e(0) = 0 /\ e(N) = Len(T)
      /\ \A k \in 0..N : e(k) \in Nat
      /\ \A k \in 1..N : e(k) = e(k - 1) + Len(Dumps[k])
      /\ \A k \in 0..N : \A j \in 0..k : e(j) <= e(k)
  <2>1. Dumps \in Seq(Seq(DumpLines)) /\ Len(Dumps) = N
    BY <1>1, DumpsAre
  <2>. QED  BY <2>1, FlattenLayout DEF DumpAll
<1>5. /\ KeptTo(T, 0) = <<>>
      /\ \A p \in 1..Len(T) : KeptTo(T, p) = KeptTo(T, p - 1) \o KeptOf(T, p)
      /\ \A o \in 0..Len(T) : \A p \in o..Len(T) :
           (\A k \in (o + 1)..p : ~Opens(T[k])) => KeptTo(T, p) = KeptTo(T, o)
      /\ KeptTo(T, Len(T)) = FlattenSeq(Keeps(T))
  BY <1>1, KeptSteps
<1>6. ASSUME NEW k \in 1..N, KeptTo(T, e(k - 1)) = want(k - 1)
      PROVE  KeptTo(T, e(k)) = want(k)
  <2>1. k - 1 \in 0..N /\ k \in 0..N
    BY <1>1
  <2>2. CASE out[k].typ # 17
    <3>1. RowFor(k) = <<>> /\ Len(Dumps[k]) = 0
      BY <1>1, <2>2, KeptMatch, DumpsAre
    <3>2. e(k) = e(k - 1)
      BY <1>4, <2>1, <3>1
    <3>3. want(k) = want(k - 1)
      <4>1. want(k) = want(k - 1) \o <<>> /\ want(k - 1) \in Seq(S)
        BY <1>3, <2>1, <3>1
      <4>. QED  BY <4>1, ConcatEmptySeq
    <3>. QED  BY <1>6, <3>2, <3>3
  <2>3. CASE out[k].typ = 17
    <3>. DEFINE a == DumpAt(k)
                n == Count(out[k])
    <3>1. KeptOf(T, a + 1) = RowFor(k)
      BY <2>3, KeptMatch
    <3>2. /\ a \in Nat /\ n \in 5..9 /\ a + n <= Len(T)
          /\ \A i \in 1..n : T[a + i] = AllOf(out[k], k)[i]
      BY <1>1, <2>3, DumpLine
    <3>3. a = e(k - 1)
      BY DEF DumpAt
    <3>4. e(k) = a + n
      <4>1. Len(Dumps[k]) = n
        BY <1>1, <2>3, DumpsAre
      <4>. QED  BY <1>4, <3>3, <4>1
    <3>5. \A z \in (a + 1 + 1)..(a + n) : ~Opens(T[z])
      <4>. SUFFICES ASSUME NEW z \in (a + 1 + 1)..(a + n)
                    PROVE  ~Opens(T[z])
        OBVIOUS
      <4>1. z - a \in 1..n /\ z - a \in 1..9 /\ z - a # 1 /\ z = a + (z - a)
        <5>1. a \in Nat /\ n \in 5..9
          BY <3>2
        <5>. HIDE DEF a, n
        <5>. QED  BY <5>1
      <4>2. T[z] = AllOf(out[k], k)[z - a]
        BY <3>2, <4>1
      <4>. QED  BY <4>1, <4>2, AllKinds
    <3>6. a + 1 \in 1..Len(T) /\ a + 1 \in 0..Len(T) /\ a + n \in (a + 1)..Len(T)
          /\ (a + 1) - 1 = a
      <4>1. a \in Nat /\ n \in 5..9 /\ a + n <= Len(T)
        BY <3>2
      <4>. HIDE DEF a, n, T
      <4>. QED  BY <1>1, <4>1
    <3>. HIDE DEF a, n
    <3>7. KeptTo(T, a + n) = KeptTo(T, a + 1)
      BY <1>5, <3>5, <3>6
    <3>8. KeptTo(T, a + 1) = KeptTo(T, a) \o RowFor(k)
      BY <1>5, <3>1, <3>6
    <3>. QED  BY <1>3, <1>6, <3>3, <3>4, <3>7, <3>8
  <2>. QED  BY <2>2, <2>3
<1>. HIDE DEF e, want, T, N
<1>7. Bad = {}
  <2>. SUFFICES ASSUME Bad # {}
                PROVE  FALSE
    OBVIOUS
  <2>1. PICK k \in Bad : \A i \in Bad : k <= i
    <3>1. Bad \in SUBSET Nat
      BY <1>1
    <3>. HIDE DEF Bad
    <3>. QED  BY <3>1, LeastNatural
  <2>2. k \in 0..N /\ KeptTo(T, e(k)) # want(k)
    OBVIOUS
  <2>3. k # 0
    BY <1>3, <1>4, <1>5, <2>2
  <2>4. k \in 1..N /\ k - 1 \in 0..N /\ ~(k <= k - 1)
    BY <1>1, <2>2, <2>3
  <2>5. KeptTo(T, e(k - 1)) = want(k - 1)
    BY <2>1, <2>4
  <2>. QED  BY <1>6, <2>2, <2>4, <2>5
<1>8. N \in 0..N
  BY <1>1
<1>9. KeptTo(T, e(N)) = want(N)
  BY <1>7, <1>8
<1>. QED  BY <1>3, <1>4, <1>5, <1>9 DEF T, R, N

\* What the invariants say of a whole table when all is parsed.
LEMMA WholeIsRead ==
  ASSUME WalkInv, TornInv, ParseInv, Parsed, source = "sysfs", table # <<>>, Whole
  PROVE  /\ WholeTable
         /\ devices = FlattenSeq([i \in DOMAIN UpToEnd(table) |-> RowFor(i)])
<1>1. WholeTable
  BY DEF WholeTable, ParseInv, Parsed
<1>2. devices = FlattenSeq(Keeps(DumpAll))
  <2>1. Reading = DumpAll
    BY DEF Reading
  <2>. QED  BY <2>1, ParseTells
<1>3. DOMAIN UpToEnd(table) = 1..Len(out)
  BY <1>1, WholeTells
<1>. QED  BY <1>1, <1>2, <1>3, KeptAre

\* A whole table, of any structures and texts, is recorded as exactly its
\* populated memory devices, in order, with the sizes, widths and texts firmware
\* gave them (format_smbios_memory_dump, parse_dmidecode_memory).
THEOREM DevicesMatchTableHolds == Spec => []DevicesMatchTable
<1>. DEFINE IInv == WalkInv /\ TornInv /\ ParseInv
<1>1. Init => IInv
  BY WalkInvInit, TornInit, ParseInit DEF Init
<1>2. IInv /\ [Next]_vars => IInv'
  BY WalkStep, TornStep, ParseStep
<1>3. IInv => DevicesMatchTable
  <2>. SUFFICES ASSUME WalkInv, TornInv, ParseInv, Parsed, source = "sysfs",
                       table # <<>>, Whole
                PROVE  devices = FlattenSeq([i \in DOMAIN UpToEnd(table) |->
                                    IF i \in Modules(table)
                                    THEN <<RowOf(table, i)>> ELSE <<>>])
    BY Zenon DEF DevicesMatchTable
  <2>1. devices = FlattenSeq([i \in DOMAIN UpToEnd(table) |-> RowFor(i)])
    BY WholeIsRead
  <2>. QED  BY <2>1, Zenon DEF RowFor
<1>. QED  BY <1>1, <1>2, <1>3, PTL DEF Spec

-----------------------------------------------------------------------------
(***************************************************************************)
(* What the summary of a whole table raises.                               *)
(***************************************************************************)

\* The devices recorded are the rows of the modules.
LEMMA DevicesAre ==
  ASSUME WholeTable, devices = FlattenSeq([i \in DOMAIN UpToEnd(table) |-> RowFor(i)])
  PROVE  ToSet(devices) = {RowOf(table, i) : i \in Modules(table)}
<1>. DEFINE N == Len(out)
            M == Modules(table)
            S == {RowOf(table, i) : i \in M}
            R == [i \in 1..N |-> RowFor(i)]
<1>1. N \in Nat /\ DOMAIN UpToEnd(table) = 1..N
  BY WholeTells
<1>2. M \subseteq 1..N
  BY <1>1, Zenon DEF Modules
<1>. HIDE DEF M, N
<1>3. \A k \in M : RowFor(k) = <<RowOf(table, k)>> /\ RowOf(table, k) \in S
  BY Zenon DEF RowFor, M
<1>4. \A k \in 1..N : k \notin M => RowFor(k) = <<>>
  BY Zenon DEF RowFor, M
<1>. HIDE DEF S
<1>5. /\ R \in Seq(Seq(S)) /\ Len(R) = N
      /\ \A k \in 1..N : R[k] = RowFor(k)
  <2>1. ASSUME NEW k \in 1..N
        PROVE  RowFor(k) \in Seq(S)
    <3>1. CASE k \in M
      <4>1. RowOf(table, k) \in S /\ RowFor(k) = <<RowOf(table, k)>>
        BY <1>3, <3>1
      <4>2. <<RowOf(table, k)>> \in Seq(S)
        BY <4>1
      <4>. QED  BY <4>1, <4>2, Zenon
    <3>2. CASE k \notin M
      <4>1. <<>> \in Seq(S)
        OBVIOUS
      <4>. QED  BY <1>4, <3>2, <4>1, Zenon
    <3>. QED  BY <3>1, <3>2
  <2>. QED  BY <1>1, <2>1
<1>6. devices = FlattenSeq(R)
  BY <1>1
<1>. HIDE DEF R
<1>7. /\ devices \in Seq(S) /\ Len(devices) \in Nat /\ DOMAIN devices = 1..Len(devices)
      /\ \A k \in 0..N : Ends(R, k) \in Nat
      /\ \A k \in 1..N : Ends(R, k) = Ends(R, k - 1) + Len(R[k])
      /\ Ends(R, N) = Len(devices)
      /\ \A k \in 0..N : \A j \in 0..k : Ends(R, j) <= Ends(R, k)
      /\ \A k \in 1..N : \A i \in 1..Len(R[k]) : devices[Ends(R, k - 1) + i] = R[k][i]
  <2>1. R \in Seq(Seq(S)) /\ N = Len(R)
    BY <1>5
  <2>2. /\ FlattenSeq(R) \in Seq(S)
        /\ \A k \in 0..N : Ends(R, k) \in Nat
        /\ \A k \in 1..N : Ends(R, k) = Ends(R, k - 1) + Len(R[k])
        /\ Ends(R, N) = Len(FlattenSeq(R))
        /\ \A k \in 0..N : \A j \in 0..k : Ends(R, j) <= Ends(R, k)
        /\ \A k \in 1..N : \A i \in 1..Len(R[k]) :
             FlattenSeq(R)[Ends(R, k - 1) + i] = R[k][i]
    BY <2>1, FlattenLayout
  <2>3. Len(FlattenSeq(R)) \in Nat /\ DOMAIN FlattenSeq(R) = 1..Len(FlattenSeq(R))
    BY <2>2, LenProperties
  <2>. QED  BY <1>6, <2>2, <2>3
<1>8. ToSet(devices) \subseteq S
  BY <1>7 DEF ToSet
<1>9. ASSUME NEW k \in M
      PROVE  RowOf(table, k) \in ToSet(devices)
  <2>1. k \in 1..N /\ k - 1 \in 0..N /\ k \in 0..N /\ N \in 0..N
    BY <1>1, <1>2
  <2>2. R[k] = <<RowOf(table, k)>>
    BY <1>3, <1>5, <2>1
  <2>3. Len(R[k]) = 1 /\ R[k][1] = RowOf(table, k) /\ 1 \in 1..Len(R[k])
    BY <2>2
  <2>. DEFINE x == Ends(R, k - 1) + 1
  <2>4. devices[x] = RowOf(table, k)
    BY <1>7, <2>1, <2>3
  <2>5. x \in 1..Len(devices)
    <3>1. /\ Ends(R, k - 1) \in Nat /\ Ends(R, k) = Ends(R, k - 1) + 1
          /\ Ends(R, k) <= Ends(R, N) /\ Ends(R, N) = Len(devices)
      BY <1>7, <2>1, <2>3
    <3>. QED  BY <1>7, <3>1
  <2>. HIDE DEF x
  <2>. QED  BY <1>7, <2>4, <2>5 DEF ToSet
<1>. QED  BY <1>8, <1>9 DEF S, M

\* The texts printed behind a field name it only if one of them does.
LEMMA NobodyNames ==
  ASSUME NEW texts, NEW f, \A k \in DOMAIN texts : Naming(texts[k], f) = {}
  PROVE  Namers(texts, f) = {}
BY DEF Namers

\* A plain row read back from the summary.
LEMMA RowReadBack ==
  ASSUME NEW t, NEW i, Plain(RowOf(t, i))
  PROVE  LET d == RowOf(t, i)
             b == ReadBack(d)
         IN  /\ b.total = d.total /\ b.data = d.data /\ b.size = d.size
             /\ b.locator = Own(d.locator) /\ b.part = Own(d.part)
<1>. DEFINE d == RowOf(t, i)
            texts == <<d.maker, d.serial, d.part>>
            all == <<d.locator, d.maker, d.serial, d.part>>
            l == TextOver(all, "locator", d.locator)
            z == SizeOver(texts, d.size)
            w == WidthOver(texts, "total", d.total)
            v == WidthOver(texts, "data", d.data)
            m == TextOver(texts, "maker", d.maker)
            n == TextOver(<<d.serial, d.part>>, "serial", d.serial)
            p == TextOver(<<d.part>>, "part", d.part)
            e == [d EXCEPT !.locator = l, !.size = z, !.total = w, !.data = v, !.maker = m,
                           !.serial = n, !.part = p]
<1>1. DOMAIN d = {"handle", "total", "data", "size", "locator", "maker", "serial", "part",
                  "mfgId"} /\ d.mfgId = 0
  BY DEF RowOf
<1>2. ReadBack(d) = Jedec(e)
  BY Zenon DEF ReadBack
<1>3. \A str \in {d.locator, d.maker, d.serial, d.part} :
        \A f \in {"locator", "size", "total", "data", "maker", "serial", "part"} :
          Naming(str, f) = {}
  BY Zenon DEF Plain
<1>. HIDE DEF d
<1>4. \A f \in {"size", "total", "data"} : Namers(texts, f) = {}
  <2>. SUFFICES ASSUME NEW f \in {"size", "total", "data"}
                PROVE  \A k \in DOMAIN texts : Naming(texts[k], f) = {}
    BY NobodyNames
  <2>1. \A k \in DOMAIN texts : texts[k] \in {d.maker, d.serial, d.part}
    OBVIOUS
  <2>. QED  BY <1>3, <2>1
<1>5. Namers(all, "locator") = {}
  <2>1. \A k \in DOMAIN all : all[k] \in {d.locator, d.maker, d.serial, d.part}
    OBVIOUS
  <2>. HIDE DEF all
  <2>2. \A k \in DOMAIN all : Naming(all[k], "locator") = {}
    BY <1>3, <2>1
  <2>. QED  BY <2>2, NobodyNames
<1>6. Namers(<<d.part>>, "part") = {}
  <2>1. \A k \in DOMAIN <<d.part>> : <<d.part>>[k] = d.part
    OBVIOUS
  <2>2. Naming(d.part, "part") = {}
    BY <1>3
  <2>3. \A k \in DOMAIN <<d.part>> : Naming(<<d.part>>[k], "part") = {}
    BY <2>1, <2>2
  <2>. QED  BY <2>3, NobodyNames
<1>. HIDE DEF texts, all
<1>7. z = d.size
  BY <1>4, Zenon DEF SizeOver
<1>8. w = d.total /\ v = d.data
  BY <1>4, Zenon DEF WidthOver
<1>9. l = Own(d.locator) /\ p = Own(d.part)
  BY <1>5, <1>6, Zenon DEF TextOver
<1>. HIDE DEF l, z, w, v, m, n, p
<1>10. /\ e.total = w /\ e.data = v /\ e.size = z /\ e.mfgId = 0
       /\ e.locator = l /\ e.part = p
  BY <1>1
<1>. HIDE DEF e
<1>11. Jedec(e) = e
  BY <1>10, VendorIdsAssumption DEF Jedec
<1>. QED  BY <1>2, <1>7, <1>8, <1>9, <1>10, <1>11 DEF d

\* A module that shows the ghost is eight bits wide, as its row says.
LEMMA GhostWidths ==
  ASSUME NEW t \in Tables, NEW i \in Modules(t)
  PROVE  ShowsGhost(t[i]) <=> RowOf(t, i).total = 8 \/ RowOf(t, i).data = 8
<1>. DEFINE s == t[i]
            a == WordOf(s, 8)
            b == WordOf(s, 10)
<1>1. SizeOf(s) # <<>>
  <2>1. RowOf(t, i).size = SizeOf(s)
    BY DEF RowOf
  <2>2. Populated(RowOf(t, i))
    BY Zenon DEF Modules
  <2>. QED  BY <2>1, <2>2, Zenon DEF Populated
<1>2. HasBytes(s, 13)
  <2>. SUFFICES ASSUME ~HasBytes(s, 13)
                PROVE  SizeOf(s) = <<>>
    BY <1>1
  <2>. QED  BY SMT DEF SizeOf
<1>3. HasBytes(s, 8 + 1) /\ HasBytes(s, 10 + 1)
  <2>1. s \in FirmwareStructure
    <3>1. i \in DOMAIN UpToEnd(t)
      BY Zenon DEF Modules
    <3>2. i \in 1..Len(t)
      <4>1. Len(UpToEnd(t)) \in 0..Len(t) /\ Len(t) \in Nat /\ DOMAIN UpToEnd(t) = 1..Len(UpToEnd(t))
        BY UpToEndParts, TableParts
      <4>. QED  BY <3>1, <4>1
    <3>. QED  BY <3>2, TableParts
  <2>2. Len(s.body) \in Nat
    BY <2>1, StructureParts
  <2>. DEFINE n == Len(s.body)
  <2>3. 4 + n > 13
    BY <1>2 DEF HasBytes
  <2>. HIDE DEF n
  <2>4. 4 + n > 8 + 1 /\ 4 + n > 10 + 1
    BY <2>2, <2>3 DEF n
  <2>. QED  BY <2>4 DEF HasBytes, n
<1>4. RowOf(t, i).total = WidthOf(s, 8) /\ RowOf(t, i).data = WidthOf(s, 10)
  BY DEF RowOf
<1>5. /\ WidthOf(s, 8) = IF a # 65535 THEN a ELSE 0
      /\ WidthOf(s, 10) = IF b # 65535 THEN b ELSE 0
  BY <1>3, SMT DEF WidthOf
<1>6. ShowsGhost(s) <=> a = 8 \/ b = 8
  BY DEF ShowsGhost
<1>. HIDE DEF a, b, s
<1>7. /\ WidthOf(s, 8) = 8 <=> a = 8
      /\ WidthOf(s, 10) = 8 <=> b = 8
  BY <1>5, SMT
<1>. QED  BY <1>4, <1>6, <1>7 DEF s

\* What the summary raises of a plain module.
LEMMA FlagsOfRow ==
  ASSUME NEW t \in Tables, NEW i \in Modules(t), Plain(RowOf(t, i))
  PROVE  LET b == ReadBack(RowOf(t, i)) IN
         /\ Populated(b)
         /\ "dimm_8bit_width" \in Flags(b) <=> ShowsGhost(t[i])
         /\ "unknown_part" \in Flags(b) <=> RowOf(t, i).part \in Placeholders
         /\ "ghost_page0" \in Flags(b) => "unknown_part" \in Flags(b)
<1>. DEFINE d == RowOf(t, i)
            b == ReadBack(d)
<1>1. /\ b.total = d.total /\ b.data = d.data /\ b.size = d.size
      /\ b.locator = Own(d.locator) /\ b.part = Own(d.part)
  BY RowReadBack
<1>2. /\ \A w \in {d.total, d.data} : w % 10 = 8 => w = 8
      /\ Own(d.locator) # <<>> /\ Own(d.locator) \notin Misnamed
      /\ Own(d.part) \in Placeholders <=> d.part \in Placeholders
  BY Zenon DEF Plain
<1>3. Populated(d)
  BY Zenon DEF Modules
<1>4. ShowsGhost(t[i]) <=> d.total = 8 \/ d.data = 8
  BY GhostWidths
<1>. HIDE DEF d, b
<1>5. Populated(b)
  BY <1>1, <1>2, <1>3 DEF Populated
<1>6. 8 \in {b.total % 10, b.data % 10} <=> d.total = 8 \/ d.data = 8
  <2>1. 8 % 10 = 8
    OBVIOUS
  <2>. QED  BY <1>1, <1>2, <2>1
<1>7. /\ "dimm_8bit_width" \in Flags(b) <=> 8 \in {b.total % 10, b.data % 10}
      /\ "unknown_part" \in Flags(b) <=> b.part \in Placeholders
      /\ "ghost_page0" \in Flags(b) => b.part \in Placeholders
  BY DEF Flags
<1>. QED  BY <1>1, <1>2, <1>4, <1>5, <1>6, <1>7 DEF d, b

\* Of any whole table whose modules are plain, the summary raises the width
\* flag exactly if a populated module is eight bits wide, and the part flag
\* exactly if one has no part number (dimm_flags, summary_flags).
THEOREM GhostsAreFlaggedHolds == Spec => []GhostsAreFlagged
<1>. DEFINE IInv == WalkInv /\ TornInv /\ ParseInv
<1>1. Init => IInv
  BY WalkInvInit, TornInit, ParseInit DEF Init
<1>2. IInv /\ [Next]_vars => IInv'
  BY WalkStep, TornStep, ParseStep
<1>3. IInv => GhostsAreFlagged
  <2>. DEFINE mods == Modules(table)
              row(i) == ReadBack(RowOf(table, i))
  <2>. SUFFICES ASSUME WalkInv, TornInv, ParseInv, Parsed, source = "sysfs",
                       table # <<>>, Whole, \A i \in mods : Plain(RowOf(table, i))
                PROVE  /\ (\E i \in mods : ShowsGhost(table[i]))
                             <=> "dimm_8bit_width" \in AlertFlags
                       /\ (\E i \in mods : RowOf(table, i).part \in Placeholders)
                             <=> "unknown_part" \in AlertFlags
                       /\ "ghost_page0" \in AlertFlags => "unknown_part" \in AlertFlags
    BY Zenon DEF GhostsAreFlagged
  <2>1. ToSet(devices) = {RowOf(table, i) : i \in mods}
    BY WholeIsRead, DevicesAre
  <2>2. \A i \in mods :
          /\ Populated(row(i))
          /\ "dimm_8bit_width" \in Flags(row(i)) <=> ShowsGhost(table[i])
          /\ "unknown_part" \in Flags(row(i)) <=> RowOf(table, i).part \in Placeholders
          /\ "ghost_page0" \in Flags(row(i)) => "unknown_part" \in Flags(row(i))
    BY FlagsOfRow DEF TornInv
  <2>. HIDE DEF mods
  <2>3. \A x : x \in AlertFlags <=> \E i \in mods : Populated(row(i)) /\ x \in Flags(row(i))
    <3>1. \A x : x \in AlertFlags <=>
            \E d \in ToSet(devices) : Populated(ReadBack(d)) /\ x \in Flags(ReadBack(d))
      BY DEF AlertFlags
    <3>. QED  BY <2>1, <3>1
  <2>. HIDE DEF row
  <2>. QED  BY <2>2, <2>3
<1>. QED  BY <1>1, <1>2, <1>3, PTL DEF Spec
=============================================================================
