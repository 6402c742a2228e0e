------------------------- MODULE ZacInterface_proofs -------------------------
(***************************************************************************)
(* Proofs about the body of an INTERFACE section: what parse_interface     *)
(* accepts and what encode_body writes, for names and bodies of every      *)
(* length.                                                                 *)
(***************************************************************************)
EXTENDS ZacInterface, LoopLemmas, SequenceTheorems, TLAPS

----------------------------------------------------------------------------
(***************************************************************************)
(* The two loops, as the functions that their recursive definitions give.  *)
(***************************************************************************)

LEMMA EncodedUpToDef ==
  ASSUME NEW i, Len(i.names) \in Nat
  PROVE  EncodedUpTo(i) =
           [k \in 0 .. Len(i.names) |->
              IF k = 0 THEN Le32(i.public_input_count)
              ELSE EncodedUpTo(i)[k - 1] \o Le16(LengthOf(i.names[k]))
                     \o i.names[k]]
<1> DEFINE n == Len(i.names)
           Round(f, k) == IF k = 0 THEN Le32(i.public_input_count)
                          ELSE f[k - 1] \o Le16(LengthOf(i.names[k]))
                                 \o i.names[k]
           Some == {m \in 0 .. n : \E f : f = [k \in 0 .. m |-> Round(f, k)]}
<1>0. n \in Nat
  OBVIOUS
<1>1. \E f : f = [k \in 0 .. 0 |-> Round(f, k)]
  <2> DEFINE f == [k \in 0 .. 0 |-> Le32(i.public_input_count)]
  <2>1. f = [k \in 0 .. 0 |-> Round(f, k)]
    OBVIOUS
  <2> HIDE DEF f, Round
  <2>2. QED BY <2>1
<1>2. ASSUME NEW m \in 1 .. n,
             \E f : f = [k \in 0 .. m - 1 |-> Round(f, k)]
      PROVE  \E f : f = [k \in 0 .. m |-> Round(f, k)]
  <2>1. PICK g : g = [k \in 0 .. m - 1 |-> Round(g, k)]
    BY <1>2
  <2> DEFINE last == Round(g, m)
             f == [k \in 0 .. m |-> IF k = m THEN last ELSE g[k]]
  <2>2. \A k \in 0 .. m : f[k] = Round(f, k)
    <3> TAKE k \in 0 .. m
    <3>1. CASE k = m
      <4>1. f[m - 1] = g[m - 1] /\ f[m] = last
        OBVIOUS
      <4>2. QED BY <3>1, <4>1
    <3>2. CASE k # m
      <4>1. k \in 0 .. m - 1 /\ f[k] = g[k]
        BY <3>2
      <4>2. g[k] = Round(g, k)
        BY <2>1, <4>1
      <4>3. k # 0 => f[k - 1] = g[k - 1]
        BY <4>1
      <4>4. QED BY <4>1, <4>2, <4>3
    <3>3. QED BY <3>1, <3>2
  <2>3. f = [k \in 0 .. m |-> f[k]]
    OBVIOUS
  <2> HIDE DEF f, Round
  <2>4. f = [k \in 0 .. m |-> Round(f, k)]
    BY <2>2, <2>3
  <2>5. QED BY <2>4
<1> HIDE DEF Round, n
<1>3. \A k \in 0 .. n : k \in Some
  <2>1. 0 \in Some
    BY <1>0, <1>1
  <2>2. \A k \in 1 .. n : k - 1 \in Some => k \in Some
    BY <1>0, <1>2
  <2> HIDE DEF Some
  <2>3. QED BY <1>0, <2>1, <2>2, LoopInduction
<1>4. \E f : f = [k \in 0 .. n |-> Round(f, k)]
  BY <1>0, <1>3
<1> USE DEF Round, n
<1>5. EncodedUpTo(i) = [k \in 0 .. n |-> Round(EncodedUpTo(i), k)]
  BY <1>4 DEF EncodedUpTo
<1>6. QED BY <1>5

LEMMA ReadUpToDef ==
  ASSUME NEW body, ReadLe32(body, 0) \in Nat
  PROVE  ReadUpTo(body) =
           [k \in 0 .. ReadLe32(body, 0) |->
              IF k = 0 THEN NoNames(ReadLe32(body, 0))
              ELSE ReadName(body, ReadUpTo(body)[k - 1])]
<1> DEFINE n == ReadLe32(body, 0)
           Round(f, k) == IF k = 0 THEN NoNames(n) ELSE ReadName(body, f[k - 1])
           Some == {m \in 0 .. n : \E f : f = [k \in 0 .. m |-> Round(f, k)]}
<1>0. n \in Nat
  OBVIOUS
<1> HIDE DEF n
<1>1. \E f : f = [k \in 0 .. 0 |-> Round(f, k)]
  <2> DEFINE f == [k \in 0 .. 0 |-> NoNames(n)]
  <2>1. f = [k \in 0 .. 0 |-> Round(f, k)]
    OBVIOUS
  <2> HIDE DEF f, Round
  <2>2. QED BY <2>1
<1>2. ASSUME NEW m \in 1 .. n,
             \E f : f = [k \in 0 .. m - 1 |-> Round(f, k)]
      PROVE  \E f : f = [k \in 0 .. m |-> Round(f, k)]
  <2>1. PICK g : g = [k \in 0 .. m - 1 |-> Round(g, k)]
    BY <1>2
  <2> DEFINE last == Round(g, m)
             f == [k \in 0 .. m |-> IF k = m THEN last ELSE g[k]]
  <2>2. \A k \in 0 .. m : f[k] = Round(f, k)
    <3> TAKE k \in 0 .. m
    <3>1. CASE k = m
      <4>1. f[m - 1] = g[m - 1] /\ f[m] = last
        OBVIOUS
      <4>2. QED BY <3>1, <4>1
    <3>2. CASE k # m
      <4>1. k \in 0 .. m - 1 /\ f[k] = g[k]
        BY <3>2
      <4>2. g[k] = Round(g, k)
        BY <2>1, <4>1
      <4>3. k # 0 => f[k - 1] = g[k - 1]
        BY <4>1
      <4>4. QED BY <4>1, <4>2, <4>3
    <3>3. QED BY <3>1, <3>2
  <2>3. f = [k \in 0 .. m |-> f[k]]
    OBVIOUS
  <2> HIDE DEF f, Round
  <2>4. f = [k \in 0 .. m |-> Round(f, k)]
    BY <2>2, <2>3
  <2>5. QED BY <2>4
<1> HIDE DEF Round
<1>3. \A k \in 0 .. n : k \in Some
  <2>1. 0 \in Some
    BY <1>0, <1>1
  <2>2. \A k \in 1 .. n : k - 1 \in Some => k \in Some
    BY <1>0, <1>2
  <2> HIDE DEF Some
  <2>3. QED BY <1>0, <2>1, <2>2, LoopInduction
<1>4. \E f : f = [k \in 0 .. n |-> Round(f, k)]
  BY <1>0, <1>3
<1> USE DEF Round, n
<1>5. ReadUpTo(body) = [k \in 0 .. n |-> Round(ReadUpTo(body), k)]
  BY <1>4 DEF ReadUpTo
<1>6. QED BY <1>5

----------------------------------------------------------------------------
(***************************************************************************)
(* Words of two and four bytes.                                            *)
(***************************************************************************)

LEMMA ByteSizes ==
  /\ BYTE \in Nat \ {0} /\ U16 \in Nat \ {0} /\ U16 * U16 \in Nat \ {0}
  /\ Byte = 0 .. BYTE - 1
<1>1. BYTE \in Nat /\ BYTE > 1
  BY ByteAssumption
<1>2. U16 \in Nat /\ U16 > 0
  BY <1>1 DEF U16
<1>3. U16 * U16 \in Nat /\ U16 * U16 > 0
  BY <1>2
<1>4. QED BY <1>1, <1>2, <1>3 DEF Byte

LEMMA Le16Properties ==
  ASSUME NEW n \in 0 .. U16 - 1
  PROVE  /\ Le16(n) \in Seq(Byte) /\ Len(Le16(n)) = 2
         /\ Le16(n)[1] + BYTE * Le16(n)[2] = n
<1>1. n % BYTE \in Byte /\ n \div BYTE \in Byte
  BY ByteSizes, ModDiv DEF U16
<1>2. (n % BYTE) + BYTE * (n \div BYTE) = n
  BY ByteSizes, ModDiv DEF U16
<1>3. QED BY <1>1, <1>2 DEF Le16

\* A word of two bytes, low byte first, and back.
LEMMA Le16OfBytes ==
  ASSUME NEW x \in Byte, NEW y \in Byte
  PROVE  /\ x + BYTE * y \in 0 .. U16 - 1
         /\ Le16(x + BYTE * y) = <<x, y>>
<1>0. BYTE \in Nat \ {0} /\ x \in 0 .. BYTE - 1 /\ y \in 0 .. BYTE - 1
  BY ByteSizes
<1>1. (x + BYTE * y) % BYTE = x /\ (x + BYTE * y) \div BYTE = y
  BY <1>0, DivMod
<1>2. BYTE * y <= BYTE * (BYTE - 1) /\ BYTE * y \in Nat
  BY <1>0
<1>3. BYTE * (BYTE - 1) = U16 - BYTE /\ U16 \in Nat
  BY <1>0 DEF U16
<1>4. x + BYTE * y \in 0 .. U16 - 1
  BY <1>0, <1>2, <1>3
<1>5. QED BY <1>1, <1>4 DEF Le16

\* The two bytes at a place of s are the word read there, written.
LEMMA ReadLe16Bytes ==
  ASSUME NEW s \in Seq(Byte), NEW at \in Nat, at + 2 <= Len(s)
  PROVE  /\ ReadLe16(s, at) \in 0 .. U16 - 1
         /\ Le16(ReadLe16(s, at)) = SubSeq(s, at + 1, at + 2)
<1>1. s[at + 1] \in Byte /\ s[at + 2] \in Byte
  BY LenProperties, ElementOfSeq
<1>2. /\ ReadLe16(s, at) \in 0 .. U16 - 1
      /\ Le16(ReadLe16(s, at)) = <<s[at + 1], s[at + 2]>>
  BY <1>1, Le16OfBytes DEF ReadLe16
<1>3. <<s[at + 1], s[at + 2]>> = SubSeq(s, at + 1, at + 2)
  <2>1. \A i \in at + 1 .. at + 2 : s[i] \in Byte
    BY <1>1
  <2>2. /\ SubSeq(s, at + 1, at + 2) \in Seq(Byte)
        /\ Len(SubSeq(s, at + 1, at + 2)) = 2
        /\ \A i \in 1 .. 2 : SubSeq(s, at + 1, at + 2)[i] = s[at + i]
    BY <2>1, SubSeqProperties
  <2>3. <<s[at + 1], s[at + 2]>> \in Seq(Byte)
    BY <1>1
  <2> DEFINE t == <<s[at + 1], s[at + 2]>>
  <2>4. Len(t) = 2 /\ t[1] = s[at + 1] /\ t[2] = s[at + 2]
    OBVIOUS
  <2>5. \A i \in 1 .. 2 : t[i] = SubSeq(s, at + 1, at + 2)[i]
    BY <2>2, <2>4
  <2> HIDE DEF t
  <2>6. t \in Seq(Byte)
    BY <2>3 DEF t
  <2>7. t = SubSeq(s, at + 1, at + 2)
    BY <2>2, <2>4, <2>5, <2>6, SeqEqual
  <2>8. QED BY <2>7 DEF t
<1>4. QED BY <1>2, <1>3

LEMMA ReadLe32Bytes ==
  ASSUME NEW s \in Seq(Byte), NEW at \in Nat, at + 4 <= Len(s)
  PROVE  /\ ReadLe32(s, at) \in 0 .. U16 * U16 - 1
         /\ Le32(ReadLe32(s, at)) = SubSeq(s, at + 1, at + 4)
<1> DEFINE lo == ReadLe16(s, at)
           hi == ReadLe16(s, at + 2)
<1>1. /\ lo \in 0 .. U16 - 1 /\ Le16(lo) = SubSeq(s, at + 1, at + 2)
      /\ hi \in 0 .. U16 - 1 /\ Le16(hi) = SubSeq(s, at + 3, at + 4)
  <2>1. lo \in 0 .. U16 - 1 /\ Le16(lo) = SubSeq(s, at + 1, at + 2)
    BY LenProperties, ReadLe16Bytes
  <2>2. /\ hi \in 0 .. U16 - 1
        /\ Le16(hi) = SubSeq(s, (at + 2) + 1, (at + 2) + 2)
    BY LenProperties, ReadLe16Bytes
  <2>3. (at + 2) + 1 = at + 3 /\ (at + 2) + 2 = at + 4
    OBVIOUS
  <2>4. QED BY <2>1, <2>2, <2>3
<1> HIDE DEF lo, hi
<1>2. ReadLe32(s, at) = lo + U16 * hi
  BY DEF ReadLe32, lo, hi
<1>3. (lo + U16 * hi) % U16 = lo /\ (lo + U16 * hi) \div U16 = hi
  <2>1. U16 \in Nat \ {0} /\ hi \in Nat
    BY <1>1, ByteSizes
  <2>2. QED BY <1>1, <2>1, DivMod
<1>4. lo + U16 * hi \in 0 .. U16 * U16 - 1
  <2> DEFINE prod   == U16 * hi
             square == U16 * U16
  <2>1. U16 \in Nat /\ hi \in Nat /\ hi <= U16 - 1
    BY <1>1, ByteSizes
  <2>2. prod <= U16 * (U16 - 1) /\ prod \in Nat
    BY <2>1
  <2>3. U16 * (U16 - 1) = square - U16 /\ square \in Nat
    BY <2>1
  <2> HIDE DEF prod, square
  <2>4. prod <= square - U16
    BY <2>2, <2>3
  <2>5. lo + prod \in 0 .. square - 1
    BY <1>1, <2>1, <2>2, <2>3, <2>4
  <2>6. QED BY <2>5 DEF prod, square
<1>5. SubSeq(s, at + 1, at + 2) \o SubSeq(s, at + 3, at + 4)
        = SubSeq(s, at + 1, at + 4)
  <2>1. /\ at + 1 \in 1 .. Len(s) + 1
        /\ at + 2 \in (at + 1) - 1 .. Len(s)
        /\ at + 4 \in at + 2 .. Len(s)
    BY LenProperties
  <2>2. SubSeq(s, at + 1, at + 2) \o SubSeq(s, (at + 2) + 1, at + 4)
          = SubSeq(s, at + 1, at + 4)
    BY <2>1, ConcatAdjacentSubSeq
  <2>3. (at + 2) + 1 = at + 3
    OBVIOUS
  <2>4. QED BY <2>2, <2>3
<1>6. QED BY <1>1, <1>2, <1>3, <1>4, <1>5 DEF Le32

\* The bytes of a concatenation are those of its parts.
LEMMA ConcatAt ==
  ASSUME NEW S, NEW s \in Seq(S), NEW t \in Seq(S)
  PROVE  /\ \A i \in 1 .. Len(s) : (s \o t)[i] = s[i]
         /\ \A i \in 1 .. Len(t) : (s \o t)[Len(s) + i] = t[i]
<1>1. Len(s) \in Nat /\ Len(t) \in Nat
  BY LenProperties
<1>2. \A i \in 1 .. Len(s) + Len(t) :
        (s \o t)[i] = IF i <= Len(s) THEN s[i] ELSE t[i - Len(s)]
  BY ConcatProperties
<1>3. ASSUME NEW i \in 1 .. Len(s) PROVE (s \o t)[i] = s[i]
  BY <1>1, <1>2
<1>4. ASSUME NEW i \in 1 .. Len(t) PROVE (s \o t)[Len(s) + i] = t[i]
  <2>1. /\ Len(s) + i \in 1 .. Len(s) + Len(t) /\ ~ Len(s) + i <= Len(s)
        /\ (Len(s) + i) - Len(s) = i
    BY <1>1
  <2>2. QED BY <1>2, <2>1
<1>5. QED BY <1>3, <1>4

\* A word that was written is read back from where it was put.
LEMMA ReadLe16Back ==
  ASSUME NEW a \in Seq(Byte), NEW n \in 0 .. U16 - 1, NEW rest \in Seq(Byte)
  PROVE  ReadLe16(a \o (Le16(n) \o rest), Len(a)) = n
<1> DEFINE w == Le16(n)
           s == a \o (w \o rest)
<1>1. w \in Seq(Byte) /\ Len(w) = 2 /\ w[1] + BYTE * w[2] = n
  BY Le16Properties
<1> HIDE DEF w
<1>2. /\ w \o rest \in Seq(Byte) /\ Len(w \o rest) = 2 + Len(rest)
      /\ (w \o rest)[1] = w[1] /\ (w \o rest)[2] = w[2]
  <2>1. w \o rest \in Seq(Byte) /\ Len(w \o rest) = Len(w) + Len(rest)
    BY <1>1, ConcatProperties
  <2>2. \A i \in 1 .. 2 : (w \o rest)[i] = w[i]
    BY <1>1, ConcatAt
  <2>3. QED BY <1>1, <2>1, <2>2
<1>3. s[Len(a) + 1] = w[1] /\ s[Len(a) + 2] = w[2]
  <2>1. \A i \in 1 .. Len(w \o rest) : s[Len(a) + i] = (w \o rest)[i]
    BY <1>2, ConcatAt
  <2>2. 1 \in 1 .. Len(w \o rest) /\ 2 \in 1 .. Len(w \o rest)
    BY <1>2, LenProperties
  <2>3. QED BY <1>2, <2>1, <2>2
<1> HIDE DEF s
<1>4. ReadLe16(s, Len(a)) = n
  BY <1>1, <1>3 DEF ReadLe16
<1>5. QED BY <1>4 DEF s, w

LEMMA ReadLe32Back ==
  ASSUME NEW n \in 0 .. U16 * U16 - 1, NEW rest \in Seq(Byte)
  PROVE  /\ Le32(n) \in Seq(Byte) /\ Len(Le32(n)) = 4
         /\ ReadLe32(Le32(n) \o rest, 0) = n
<1> DEFINE lo == n % U16
           hi == n \div U16
<1>1. /\ lo \in 0 .. U16 - 1 /\ hi \in 0 .. U16 - 1 /\ lo + U16 * hi = n
  BY ByteSizes, ModDiv
<1>2. Le32(n) = Le16(lo) \o Le16(hi)
  BY DEF Le32
<1> HIDE DEF lo, hi
<1> DEFINE u == Le16(lo)
           v == Le16(hi)
<1>3. /\ u \in Seq(Byte) /\ Len(u) = 2 /\ u[1] + BYTE * u[2] = lo
      /\ v \in Seq(Byte) /\ Len(v) = 2 /\ v[1] + BYTE * v[2] = hi
  BY <1>1, Le16Properties
<1> HIDE DEF u, v
<1>4. /\ u \o v \in Seq(Byte) /\ Len(u \o v) = 4
      /\ (u \o v)[1] = u[1] /\ (u \o v)[2] = u[2]
      /\ (u \o v)[3] = v[1] /\ (u \o v)[4] = v[2]
  <2>1. u \o v \in Seq(Byte) /\ Len(u \o v) = Len(u) + Len(v)
    BY <1>3, ConcatProperties
  <2>2. /\ \A i \in 1 .. Len(u) : (u \o v)[i] = u[i]
        /\ \A i \in 1 .. Len(v) : (u \o v)[Len(u) + i] = v[i]
    <3>1. u \in Seq(Byte) /\ v \in Seq(Byte)
      BY <1>3
    <3>2. QED BY <3>1, ConcatAt
  <2>3. (u \o v)[1] = u[1] /\ (u \o v)[2] = u[2]
    <3>1. 1 \in 1 .. Len(u) /\ 2 \in 1 .. Len(u)
      BY <1>3
    <3>2. QED BY <2>2, <3>1, Zenon
  <2>4. (u \o v)[3] = v[1] /\ (u \o v)[4] = v[2]
    <3>1. 1 \in 1 .. Len(v) /\ 2 \in 1 .. Len(v)
      BY <1>3
    <3>2. (u \o v)[Len(u) + 1] = v[1] /\ (u \o v)[Len(u) + 2] = v[2]
      BY <2>2, <3>1, Zenon
    <3>3. Len(u) + 1 = 3 /\ Len(u) + 2 = 4
      BY <1>3
    <3>4. QED BY <3>2, <3>3, Zenon
  <2>5. QED BY <1>3, <2>1, <2>3, <2>4
<1> DEFINE s == (u \o v) \o rest
<1>5. s[1] = u[1] /\ s[2] = u[2] /\ s[3] = v[1] /\ s[4] = v[2]
  <2>1. \A i \in 1 .. 4 : s[i] = (u \o v)[i]
    BY <1>4, ConcatAt
  <2>2. QED BY <1>4, <2>1
<1> HIDE DEF s
<1>6. ReadLe32(s, 0) = n
  BY <1>1, <1>3, <1>5 DEF ReadLe32, ReadLe16
<1>7. QED BY <1>2, <1>4, <1>6 DEF s, u, v
----------------------------------------------------------------------------
(***************************************************************************)
(* What encode_body has written after each name.                           *)
(***************************************************************************)

LEMMA EncodedRounds ==
  ASSUME NEW i \in InterfaceSection
  PROVE  /\ Len(i.names) \in Nat
         /\ EncodedUpTo(i)[0] = Le32(i.public_input_count)
         /\ \A k \in 1 .. Len(i.names) :
              EncodedUpTo(i)[k] =
                EncodedUpTo(i)[k - 1] \o Le16(LengthOf(i.names[k])) \o i.names[k]
<1>1. Len(i.names) \in Nat
  <2>1. i.names \in Seq(Seq(Byte))
    BY DEF InterfaceSection
  <2>2. QED BY <2>1, LenProperties
<1>2. EncodedUpTo(i) =
        [k \in 0 .. Len(i.names) |->
           IF k = 0 THEN Le32(i.public_input_count)
           ELSE EncodedUpTo(i)[k - 1] \o Le16(LengthOf(i.names[k]))
                  \o i.names[k]]
  BY <1>1, EncodedUpToDef
<1> DEFINE E == EncodedUpTo(i)
<1> HIDE DEF E
<1>3. E = [k \in 0 .. Len(i.names) |->
             IF k = 0 THEN Le32(i.public_input_count)
             ELSE E[k - 1] \o Le16(LengthOf(i.names[k])) \o i.names[k]]
  BY <1>2, Zenon DEF E
<1>4. /\ E[0] = Le32(i.public_input_count)
      /\ \A k \in 1 .. Len(i.names) :
           E[k] = E[k - 1] \o Le16(LengthOf(i.names[k])) \o i.names[k]
  <2> DEFINE n == Len(i.names)
             Round(k) == E[k - 1] \o Le16(LengthOf(i.names[k])) \o i.names[k]
             first == Le32(i.public_input_count)
  <2>1. n \in Nat /\ E = [k \in 0 .. n |-> IF k = 0 THEN first ELSE Round(k)]
    BY <1>1, <1>3
  <2> HIDE DEF n, Round, first
  <2>2. E[0] = first
    BY <2>1
  <2>3. ASSUME NEW k \in 1 .. n PROVE E[k] = Round(k)
    BY <2>1
  <2>4. QED BY <2>2, <2>3 DEF n, Round, first
<1>5. QED BY <1>1, <1>4 DEF E

LEMMA LengthOfProperties ==
  ASSUME NEW name \in Seq(Byte)
  PROVE  /\ LengthOf(name) \in 0 .. U16 - 1
         /\ Len(name) < U16 => LengthOf(name) = Len(name)
<1>1. Len(name) \in Nat /\ U16 \in Nat \ {0}
  BY LenProperties, ByteSizes
<1>2. QED BY <1>1 DEF LengthOf

LEMMA EncodedTypes ==
  ASSUME NEW i \in InterfaceSection
  PROVE  \A k \in 0 .. Len(i.names) : EncodedUpTo(i)[k] \in Seq(Byte)
<1> DEFINE n == Len(i.names)
           E == EncodedUpTo(i)
           S == {k \in 0 .. n : E[k] \in Seq(Byte)}
<1>1. /\ n \in Nat /\ E[0] = Le32(i.public_input_count)
      /\ \A k \in 1 .. n : E[k] = E[k - 1] \o Le16(LengthOf(i.names[k])) \o i.names[k]
  BY EncodedRounds
<1>2. /\ i.public_input_count \in 0 .. U16 * U16 - 1
      /\ i.names \in Seq(Seq(Byte))
  BY DEF InterfaceSection
<1> HIDE DEF E, n
<1>3. 0 \in S
  <2>1. <<>> \in Seq(Byte)
    OBVIOUS
  <2>2. Le32(i.public_input_count) \in Seq(Byte)
    BY <1>2, <2>1, ReadLe32Back
  <2>3. QED BY <1>1, <2>2
<1>4. ASSUME NEW k \in 1 .. n, k - 1 \in S PROVE k \in S
  <2>1. i.names[k] \in Seq(Byte)
    BY <1>2, ElementOfSeq DEF n
  <2>2. Le16(LengthOf(i.names[k])) \in Seq(Byte)
    BY <2>1, LengthOfProperties, Le16Properties
  <2>3. E[k - 1] \o Le16(LengthOf(i.names[k])) \in Seq(Byte)
    BY <1>4, <2>2, ConcatProperties
  <2>4. (E[k - 1] \o Le16(LengthOf(i.names[k]))) \o i.names[k] \in Seq(Byte)
    BY <2>1, <2>3, ConcatProperties
  <2>5. E[k] \in Seq(Byte)
    BY <1>1, <2>4, Zenon
  <2>6. QED BY <1>1, <2>5
<1> HIDE DEF S
<1>5. \A k \in 0 .. n : k \in S
  BY <1>1, <1>3, <1>4, LoopInduction
<1>6. QED BY <1>5 DEF S, n, E

\* One more name only adds its length and its bytes.
LEMMA EncodeAppend ==
  ASSUME NEW i \in InterfaceSection, NEW name \in Seq(Byte),
         NEW more \in InterfaceSection,
         more.public_input_count = i.public_input_count,
         more.names = Append(i.names, name)
  PROVE  EncodeInterface(more) =
           EncodeInterface(i) \o Le16(LengthOf(name)) \o name
<1> DEFINE n == Len(i.names)
           E == EncodedUpTo(i)
           F == EncodedUpTo(more)
           S == {k \in 0 .. n : F[k] = E[k]}
<1>1. /\ n \in Nat /\ Len(more.names) = n + 1
      /\ \A k \in 1 .. n : more.names[k] = i.names[k]
      /\ more.names[n + 1] = name
  <2>1. i.names \in Seq(Seq(Byte))
    BY DEF InterfaceSection
  <2>2. QED BY <2>1, AppendProperties, LenProperties
<1>2. /\ E[0] = Le32(i.public_input_count)
      /\ \A k \in 1 .. n : E[k] = E[k - 1] \o Le16(LengthOf(i.names[k])) \o i.names[k]
  BY EncodedRounds
<1>3. /\ F[0] = Le32(i.public_input_count)
      /\ \A k \in 1 .. Len(more.names) :
           F[k] = F[k - 1] \o Le16(LengthOf(more.names[k])) \o more.names[k]
  BY EncodedRounds, Zenon
<1> HIDE DEF E, F, n
<1>4. 0 \in S
  BY <1>1, <1>2, <1>3
<1>5. ASSUME NEW k \in 1 .. n, k - 1 \in S PROVE k \in S
  <2>1. /\ F[k] = F[k - 1] \o Le16(LengthOf(more.names[k])) \o more.names[k]
        /\ more.names[k] = i.names[k] /\ F[k - 1] = E[k - 1]
    <3>1. k \in 1 .. Len(more.names)
      BY <1>1
    <3>2. F[k - 1] = E[k - 1]
      BY <1>5
    <3>3. QED BY <1>1, <1>3, <3>1, <3>2, Zenon
  <2>2. E[k] = E[k - 1] \o Le16(LengthOf(i.names[k])) \o i.names[k]
    BY <1>2
  <2>3. F[k] = E[k]
    BY <2>1, <2>2, Zenon
  <2>4. QED BY <1>1, <2>3
<1>6. F[n] = E[n]
  <2> HIDE DEF S
  <2>1. \A k \in 0 .. n : k \in S
    BY <1>1, <1>4, <1>5, LoopInduction
  <2>2. n \in S
    BY <1>1, <2>1
  <2>3. QED BY <2>2 DEF S
<1>7. F[n + 1] = F[(n + 1) - 1] \o Le16(LengthOf(name)) \o name
  <2>1. n + 1 \in 1 .. Len(more.names) /\ more.names[n + 1] = name
    BY <1>1
  <2>2. QED BY <1>3, <2>1, Zenon
<1>8. (n + 1) - 1 = n /\ Len(more.names) = n + 1
  BY <1>1
<1>9. QED BY <1>6, <1>7, <1>8, Zenon DEF EncodeInterface, E, F, n
----------------------------------------------------------------------------
(***************************************************************************)
(* What parse_interface has read after each name.                          *)
(***************************************************************************)

\* What has been read without a fault.
SoFar(count, cursor, names) ==
  [res |-> "ok", cursor |-> cursor, public_input_count |-> count, names |-> names]

LEMMA SoFarNames ==
  ASSUME NEW count, NEW cursor, NEW names, NEW longer, NEW p,
         p = SoFar(count, cursor, names)
  PROVE  [p EXCEPT !.names = longer] = SoFar(count, cursor, longer)
BY DEF SoFar

LEMMA SoFarCursor ==
  ASSUME NEW count, NEW cursor, NEW names, NEW to, NEW p,
         p = SoFar(count, cursor, names)
  PROVE  [p EXCEPT !.cursor = to] = SoFar(count, to, names)
BY DEF SoFar

\* A name that parse_interface lets through.
Legal(name) ==
  /\ name \in Seq(Byte) /\ Len(name) < U16 /\ Utf8(name)
  /\ \A j \in DOMAIN name : name[j] # 0

NameEnd(body, at) == at + 2 + ReadLe16(body, at)
NameAt(body, at)  == SubSeq(body, at + 3, NameEnd(body, at))

\* A round that ends without a fault has read one name, in its place.
LEMMA ReadNameOk ==
  ASSUME NEW body \in Seq(Byte), NEW count, NEW at \in 0 .. Len(body), NEW names,
         ReadName(body, SoFar(count, at, names)).res = "ok"
  PROVE  /\ NameEnd(body, at) \in at + 2 .. Len(body)
         /\ Legal(NameAt(body, at))
         /\ Len(NameAt(body, at)) = ReadLe16(body, at)
         /\ ReadName(body, SoFar(count, at, names))
              = SoFar(count, NameEnd(body, at), Append(names, NameAt(body, at)))
<1> DEFINE p == SoFar(count, at, names)
           name == NameAt(body, at)
           to == NameEnd(body, at)
<1>0. Len(body) \in Nat /\ at \in Nat
  BY LenProperties
<1>1. p.res = "ok" /\ p.cursor = at /\ p.names = names
  BY DEF SoFar
<1>2. /\ at + LENGTH_BYTES = at + 2
      /\ (at + LENGTH_BYTES) + 1 = at + 3
      /\ (at + LENGTH_BYTES) + ReadLe16(body, at) = to
  BY <1>0 DEF LENGTH_BYTES, NameEnd
<1>3. ReadName(body, p) =
        IF at + 2 > Len(body) THEN Stopped(p, "E015")
        ELSE IF to > Len(body) THEN Stopped(p, "E015")
        ELSE IF (\E k \in DOMAIN name : name[k] = 0) \/ ~ Utf8(name) THEN Stopped(p, "E003")
        ELSE [p EXCEPT !.names = Append(@, name), !.cursor = to]
  BY <1>1, <1>2 DEF ReadName, NameAt
<1>4. /\ Stopped(p, "E015").res # "ok" /\ Stopped(p, "E003").res # "ok"
      /\ [p EXCEPT !.names = Append(@, name), !.cursor = to]
           = SoFar(count, to, Append(names, name))
  <2>1. Stopped(p, "E015").res # "ok" /\ Stopped(p, "E003").res # "ok"
    <3>1. \A c : Stopped(p, c).res = c
      BY DEF Stopped, SoFar
    <3>2. QED BY <3>1
  <2> HIDE DEF name, to
  <2>2. [p EXCEPT !.names = Append(@, name), !.cursor = to]
          = SoFar(count, to, Append(names, name))
    <3> DEFINE longer == Append(names, name)
               q == [p EXCEPT !.names = longer]
    <3>0. p = SoFar(count, at, names)
      OBVIOUS
    <3> HIDE DEF longer, p
    <3>1. q = SoFar(count, at, longer)
      BY <3>0, SoFarNames
    <3> HIDE DEF q
    <3>2. [q EXCEPT !.cursor = to] = SoFar(count, to, longer)
      BY <3>1, SoFarCursor
    <3>3. [p EXCEPT !.names = longer, !.cursor = to] = [q EXCEPT !.cursor = to]
      BY DEF q
    <3>4. QED BY <1>1, <3>2, <3>3 DEF longer
  <2>3. QED BY <2>1, <2>2
<1>5. ReadName(body, p).res = "ok"
  OBVIOUS
<1> HIDE DEF p, name, to
<1>6. /\ ~ at + 2 > Len(body) /\ ~ to > Len(body)
      /\ ~ ((\E k \in DOMAIN name : name[k] = 0) \/ ~ Utf8(name))
      /\ ReadName(body, p) = SoFar(count, to, Append(names, name))
  BY <1>3, <1>4, <1>5
<1>7. ReadLe16(body, at) \in 0 .. U16 - 1 /\ U16 \in Nat
  BY <1>0, <1>6, ReadLe16Bytes, ByteSizes
<1>8. to \in at + 2 .. Len(body) /\ to = at + 2 + ReadLe16(body, at)
  BY <1>0, <1>6, <1>7 DEF to, NameEnd
<1>9. /\ name \in Seq(Byte) /\ Len(name) = ReadLe16(body, at)
  <2>1. \A j \in at + 3 .. to : body[j] \in Byte
    <3> TAKE j \in at + 3 .. to
    <3>1. j \in 1 .. Len(body)
      BY <1>0, <1>8
    <3>2. QED BY <3>1, ElementOfSeq
  <2>2. at + 3 \in Int /\ to \in Int /\ name = SubSeq(body, at + 3, to)
    BY <1>0, <1>8 DEF name, NameAt, to
  <2>3. /\ SubSeq(body, at + 3, to) \in Seq(Byte)
        /\ Len(SubSeq(body, at + 3, to)) =
             IF at + 3 <= to THEN to - (at + 3) + 1 ELSE 0
    BY <2>1, <2>2, SubSeqProperties
  <2>4. Len(SubSeq(body, at + 3, to)) = ReadLe16(body, at)
    <3>1. ReadLe16(body, at) \in Nat
      BY <1>7
    <3>2. (at + 3 <= to <=> ReadLe16(body, at) >= 1)
          /\ to - (at + 3) + 1 = ReadLe16(body, at)
      BY <1>0, <1>8, <3>1
    <3>3. QED BY <2>3, <3>1, <3>2
  <2>5. QED BY <2>2, <2>3, <2>4
<1>10. Legal(name)
  BY <1>6, <1>7, <1>9 DEF Legal
<1>11. QED BY <1>6, <1>8, <1>9, <1>10 DEF p, name, to

\* A round after a fault changes nothing.
LEMMA ReadNameAfterFault ==
  ASSUME NEW body, NEW p, p.res # "ok"
  PROVE  ReadName(body, p) = p
BY DEF ReadName
----------------------------------------------------------------------------
(***************************************************************************)
(* What is read is what encode_body would write.                           *)
(***************************************************************************)

SectionOf(count, names) == [public_input_count |-> count, names |-> names]

\* The names read without a fault, written again, are the bytes they were
\* read from.
Faithful(body, k) ==
  ReadUpTo(body)[k].res = "ok" =>
    \E cursor \in 4 .. Len(body), names \in Seq(Seq(Byte)) :
      /\ ReadUpTo(body)[k] = SoFar(ReadLe32(body, 0), cursor, names)
      /\ Len(names) = k
      /\ \A j \in 1 .. k : Legal(names[j])
      /\ EncodeInterface(SectionOf(ReadLe32(body, 0), names)) = SubSeq(body, 1, cursor)

LEMMA ReadRounds ==
  ASSUME NEW body \in Seq(Byte), Len(body) >= 4
  PROVE  /\ ReadLe32(body, 0) \in 0 .. U16 * U16 - 1 /\ ReadLe32(body, 0) \in Nat
         /\ ReadUpTo(body)[0] = SoFar(ReadLe32(body, 0), 4, <<>>)
         /\ \A k \in 1 .. ReadLe32(body, 0) :
              ReadUpTo(body)[k] = ReadName(body, ReadUpTo(body)[k - 1])
<1> DEFINE n == ReadLe32(body, 0)
           R == ReadUpTo(body)
<1>1. n \in 0 .. U16 * U16 - 1 /\ n \in Nat
  <2>1. 0 + 4 <= Len(body) /\ 0 \in Nat
    OBVIOUS
  <2>2. n \in 0 .. U16 * U16 - 1
    BY <2>1, ReadLe32Bytes
  <2>3. U16 * U16 \in Nat
    BY ByteSizes
  <2>4. QED BY <2>2, <2>3
<1>2. R = [k \in 0 .. n |-> IF k = 0 THEN NoNames(n) ELSE ReadName(body, R[k - 1])]
  BY <1>1, ReadUpToDef
<1> HIDE DEF n, R
<1>3. /\ R[0] = NoNames(n)
      /\ \A k \in 1 .. n : R[k] = ReadName(body, R[k - 1])
  BY <1>1, <1>2
<1>4. NoNames(n) = SoFar(n, 4, <<>>)
  BY DEF NoNames, SoFar, COUNT_BYTES
<1>5. QED BY <1>1, <1>3, <1>4 DEF n, R

LEMMA FaithfulStart ==
  ASSUME NEW body \in Seq(Byte), Len(body) >= 4
  PROVE  Faithful(body, 0)
<1> DEFINE n == ReadLe32(body, 0)
           i == SectionOf(n, <<>>)
<1>1. ReadUpTo(body)[0] = SoFar(n, 4, <<>>) /\ n \in 0 .. U16 * U16 - 1
  BY ReadRounds
<1>2. Le32(n) = SubSeq(body, 1, 4)
  <2>1. 0 + 4 <= Len(body) /\ 0 \in Nat /\ 0 + 1 = 1 /\ 0 + 4 = 4
    OBVIOUS
  <2>2. Le32(n) = SubSeq(body, 0 + 1, 0 + 4)
    BY <2>1, ReadLe32Bytes
  <2>3. QED BY <2>1, <2>2
<1>3. <<>> \in Seq(Seq(Byte)) /\ Len(<<>>) = 0 /\ 4 \in 4 .. Len(body)
  BY LenProperties
<1> HIDE DEF n
<1>4. i.names = <<>> /\ i.public_input_count = n /\ i \in InterfaceSection
  BY <1>1, <1>3 DEF SectionOf, InterfaceSection
<1> HIDE DEF i
<1>5. EncodeInterface(i) = SubSeq(body, 1, 4)
  BY <1>2, <1>3, <1>4, EncodedRounds DEF EncodeInterface
<1>6. /\ 4 \in 4 .. Len(body) /\ <<>> \in Seq(Seq(Byte))
      /\ ReadUpTo(body)[0] = SoFar(n, 4, <<>>)
      /\ Len(<<>>) = 0
      /\ \A j \in 1 .. 0 : Legal(<<>>[j])
      /\ EncodeInterface(SectionOf(n, <<>>)) = SubSeq(body, 1, 4)
  BY <1>1, <1>3, <1>5 DEF i
<1>7. QED BY <1>6, Zenon DEF Faithful, n

\* A name and its length, written after the bytes that precede them.
LEMMA NameInPlace ==
  ASSUME NEW body \in Seq(Byte), NEW at \in 0 .. Len(body),
         NameEnd(body, at) \in at + 2 .. Len(body)
  PROVE  SubSeq(body, 1, at) \o Le16(ReadLe16(body, at)) \o NameAt(body, at)
           = SubSeq(body, 1, NameEnd(body, at))
<1> DEFINE to == NameEnd(body, at)
<1>1. Len(body) \in Nat /\ at \in Nat /\ at + 2 \in Nat /\ at + 2 <= Len(body)
  BY LenProperties
<1>2. Le16(ReadLe16(body, at)) = SubSeq(body, at + 1, at + 2)
  BY <1>1, ReadLe16Bytes
<1> HIDE DEF to
<1>3. SubSeq(body, 1, at) \o SubSeq(body, at + 1, at + 2) = SubSeq(body, 1, at + 2)
  <2>1. /\ 1 \in 1 .. Len(body) + 1 /\ at \in 1 - 1 .. Len(body)
        /\ at + 2 \in at .. Len(body)
    BY <1>1
  <2>2. QED BY <2>1, ConcatAdjacentSubSeq
<1>4. SubSeq(body, 1, at + 2) \o SubSeq(body, (at + 2) + 1, to) = SubSeq(body, 1, to)
  <2>1. /\ 1 \in 1 .. Len(body) + 1 /\ at + 2 \in 1 - 1 .. Len(body)
        /\ to \in at + 2 .. Len(body)
    BY <1>1 DEF to
  <2>2. QED BY <2>1, ConcatAdjacentSubSeq
<1>5. (at + 2) + 1 = at + 3
  BY <1>1
<1>6. NameAt(body, at) = SubSeq(body, (at + 2) + 1, to)
  BY <1>5 DEF NameAt, to
<1>7. QED BY <1>2, <1>3, <1>4, <1>6 DEF to

LEMMA FaithfulRound ==
  ASSUME NEW body \in Seq(Byte), Len(body) >= 4,
         NEW k \in 1 .. ReadLe32(body, 0), Faithful(body, k - 1)
  PROVE  Faithful(body, k)
<1> DEFINE n == ReadLe32(body, 0)
           p == ReadUpTo(body)[k - 1]
<1>1. SUFFICES ASSUME ReadUpTo(body)[k].res = "ok"
      PROVE  \E cursor \in 4 .. Len(body), names \in Seq(Seq(Byte)) :
               /\ ReadUpTo(body)[k] = SoFar(n, cursor, names)
               /\ Len(names) = k
               /\ \A j \in 1 .. k : Legal(names[j])
               /\ EncodeInterface(SectionOf(n, names)) = SubSeq(body, 1, cursor)
  BY DEF Faithful
<1>2. /\ n \in 0 .. U16 * U16 - 1 /\ n \in Nat
      /\ ReadUpTo(body)[k] = ReadName(body, p)
  BY ReadRounds
<1>3. p.res = "ok"
  BY <1>1, <1>2, ReadNameAfterFault
<1> HIDE DEF n
<1>4. PICK at \in 4 .. Len(body), names \in Seq(Seq(Byte)) :
        /\ p = SoFar(n, at, names)
        /\ Len(names) = k - 1
        /\ \A j \in 1 .. k - 1 : Legal(names[j])
        /\ EncodeInterface(SectionOf(n, names)) = SubSeq(body, 1, at)
  BY <1>3 DEF Faithful, n
<1> HIDE DEF p
<1> DEFINE to == NameEnd(body, at)
           name == NameAt(body, at)
           longer == Append(names, name)
<1>5. at \in 0 .. Len(body) /\ Len(body) \in Nat
  BY LenProperties
<1>6. ReadName(body, SoFar(n, at, names)).res = "ok"
  BY <1>1, <1>2, <1>4
<1>7. /\ to \in at + 2 .. Len(body) /\ Legal(name) /\ Len(name) = ReadLe16(body, at)
      /\ ReadUpTo(body)[k] = SoFar(n, to, longer)
  BY <1>2, <1>4, <1>5, <1>6, ReadNameOk
<1>8. SubSeq(body, 1, at) \o Le16(ReadLe16(body, at)) \o name = SubSeq(body, 1, to)
  BY <1>5, <1>7, NameInPlace
<1> HIDE DEF to, name
<1>9. name \in Seq(Byte) /\ Len(name) < U16
  BY <1>7 DEF Legal
<1>10. /\ longer \in Seq(Seq(Byte)) /\ Len(longer) = k
       /\ \A j \in 1 .. k - 1 : longer[j] = names[j]
       /\ longer[k] = name
  <2>1. /\ Append(names, name) \in Seq(Seq(Byte))
        /\ Len(Append(names, name)) = Len(names) + 1
        /\ \A j \in 1 .. Len(names) : Append(names, name)[j] = names[j]
        /\ Append(names, name)[Len(names) + 1] = name
    BY <1>9, AppendProperties
  <2>2. Len(names) = k - 1 /\ Len(names) + 1 = k
    BY <1>2, <1>4 DEF n
  <2>3. QED BY <2>1, <2>2
<1>11. \A j \in 1 .. k : Legal(longer[j])
  <2> HIDE DEF longer
  <2>1. SUFFICES ASSUME NEW j \in 1 .. k PROVE Legal(longer[j])
    OBVIOUS
  <2>2. CASE j = k
    BY <1>7, <1>10, <2>2
  <2>3. CASE j # k
    <3>1. j \in 1 .. k - 1
      BY <1>2, <2>3 DEF n
    <3>2. QED BY <1>4, <1>10, <3>1
  <2>4. QED BY <2>2, <2>3
<1>12. EncodeInterface(SectionOf(n, longer)) = SubSeq(body, 1, to)
  <2>1. SectionOf(n, names) \in InterfaceSection
    BY <1>2 DEF SectionOf, InterfaceSection
  <2>2. SectionOf(n, longer) \in InterfaceSection
    BY <1>2, <1>10 DEF SectionOf, InterfaceSection
  <2> DEFINE i == SectionOf(n, names)
             more == SectionOf(n, longer)
  <2>3. /\ more.public_input_count = i.public_input_count
        /\ more.names = Append(i.names, name)
    BY DEF SectionOf
  <2> HIDE DEF i, more, longer
  <2>4. EncodeInterface(more) = EncodeInterface(i) \o Le16(LengthOf(name)) \o name
    BY <1>9, <2>1, <2>2, <2>3, EncodeAppend DEF i, more
  <2>5. LengthOf(name) = ReadLe16(body, at)
    BY <1>7, <1>9, LengthOfProperties
  <2>6. EncodeInterface(i) = SubSeq(body, 1, at)
    BY <1>4 DEF i
  <2>7. QED BY <1>8, <2>4, <2>5, <2>6, Zenon DEF more
<1>13. to \in 4 .. Len(body)
  BY <1>5, <1>7
<1> HIDE DEF longer
<1>14. QED BY <1>7, <1>10, <1>11, <1>12, <1>13, Zenon
\* A body that parse_interface accepts is what encode_body writes of the
\* section read from it, and that section is one that a body has room for: as
\* many names as counted, each of them legal.  Two bodies that are read alike
\* are therefore the same.
THEOREM AcceptedIsCanonical ==
  ASSUME NEW body \in Seq(Byte), ParseInterface(body).res = "ok"
  PROVE  LET read == ParseInterface(body)
             i == SectionOf(read.public_input_count, read.names)
         IN  i \in InterfaceSection /\ Framable(i) /\ EncodeInterface(i) = body
<1> DEFINE n == ReadLe32(body, 0)
           R == ReadUpTo(body)
           read == ParseInterface(body)
<1>0. Len(body) \in Nat
  BY LenProperties
<1>1. Len(body) >= 4
  <2>1. \A c : Stopped(NoNames(0), c).res = c
    BY DEF Stopped, NoNames
  <2>2. Stopped(NoNames(0), "E015").res # "ok"
    BY <2>1
  <2>3. ~ Len(body) < COUNT_BYTES
    BY <2>2 DEF ParseInterface
  <2>4. QED BY <1>0, <2>3 DEF COUNT_BYTES
<1>2. /\ n \in 0 .. U16 * U16 - 1 /\ n \in Nat
  BY <1>1, ReadRounds
<1>3. Faithful(body, n)
  <2> DEFINE S == {k \in 0 .. n : Faithful(body, k)}
  <2>1. 0 \in S
    BY <1>1, <1>2, FaithfulStart
  <2>2. ASSUME NEW k \in 1 .. n, k - 1 \in S PROVE k \in S
    <3>1. Faithful(body, k - 1)
      BY <2>2
    <3>2. Faithful(body, k)
      BY <1>1, <3>1, FaithfulRound
    <3>3. QED BY <1>2, <3>2
  <2> HIDE DEF S, n
  <2>3. \A k \in 0 .. n : k \in S
    BY <1>2, <2>1, <2>2, LoopInduction
  <2>4. n \in S
    BY <1>2, <2>3
  <2>5. QED BY <2>4 DEF S
<1> HIDE DEF n, R
<1>4. read = AtTheEnd(body, R[n])
  BY <1>0, <1>1 DEF ParseInterface, COUNT_BYTES, R, n
<1>5. R[n].res = "ok"
  <2>1. SUFFICES ASSUME R[n].res # "ok" PROVE FALSE
    OBVIOUS
  <2>2. AtTheEnd(body, R[n]) = R[n]
    BY <2>1 DEF AtTheEnd
  <2>3. QED BY <1>4, <2>1, <2>2
<1>6. PICK cursor \in 4 .. Len(body), names \in Seq(Seq(Byte)) :
        /\ R[n] = SoFar(n, cursor, names)
        /\ Len(names) = n
        /\ \A j \in 1 .. n : Legal(names[j])
        /\ EncodeInterface(SectionOf(n, names)) = SubSeq(body, 1, cursor)
  BY <1>3, <1>5 DEF Faithful, R, n
<1> DEFINE last == R[n]
<1>7. last.res = "ok" /\ last.cursor = cursor /\ last.public_input_count = n
      /\ last.names = names
  BY <1>6 DEF SoFar
<1>8. cursor = Len(body) /\ read = last
  <2>1. \A c : Stopped(last, c).res = c
    BY <1>6 DEF Stopped, SoFar
  <2> HIDE DEF last
  <2>2. Stopped(last, "E004").res # "ok"
    BY <2>1
  <2>3. read = IF last.res = "ok" /\ last.cursor # Len(body)
               THEN Stopped(last, "E004") ELSE last
    BY <1>4 DEF AtTheEnd, last
  <2> HIDE DEF read
  <2>4. ~ (last.res = "ok" /\ last.cursor # Len(body))
    BY <2>2, <2>3 DEF read
  <2>5. QED BY <1>7, <2>3, <2>4
<1> DEFINE i == SectionOf(n, names)
<1>9. i \in InterfaceSection /\ i.public_input_count = n /\ i.names = names
  BY <1>2 DEF SectionOf, InterfaceSection
<1>10. EncodeInterface(i) = body
  <2>1. SubSeq(body, 1, Len(body)) = body
    BY SubSeqFull
  <2>2. QED BY <1>6, <1>8, <2>1
<1> HIDE DEF i
<1>11. Framable(i)
  <2>1. DOMAIN names = 1 .. n
    BY <1>6, LenProperties
  <2>2. QED BY <1>6, <1>9, <2>1 DEF Framable, Legal
<1> HIDE DEF read, last
<1>12. SectionOf(read.public_input_count, read.names) = i
  BY <1>7, <1>8 DEF i
<1>13. QED BY <1>9, <1>10, <1>11, <1>12 DEF read
----------------------------------------------------------------------------
(***************************************************************************)
(* What is written is read back.                                           *)
(***************************************************************************)

LEMMA ByteStrings ==
  /\ \A x, y \in Seq(Byte) :
       x \o y \in Seq(Byte) /\ Len(x \o y) = Len(x) + Len(y)
  /\ \A x, y, z \in Seq(Byte) : (x \o y) \o z = x \o (y \o z)
<1>1. \A x, y \in Seq(Byte) :
        x \o y \in Seq(Byte) /\ Len(x \o y) = Len(x) + Len(y)
  BY ConcatProperties
<1>2. \A x, y, z \in Seq(Byte) : (x \o y) \o z = x \o (y \o z)
  BY ConcatAssociative
<1>3. QED BY <1>1, <1>2

LEMMA FourParts ==
  \A a, m, b, r \in Seq(Byte) :
    /\ ((a \o m) \o b) \o r = a \o (m \o (b \o r))
    /\ m \o (b \o r) \in Seq(Byte)
<1> TAKE a, m, b, r \in Seq(Byte)
<1>1. a \o m \in Seq(Byte) /\ b \o r \in Seq(Byte)
  BY ByteStrings, Zenon
<1>2. a \o (m \o (b \o r)) = (a \o m) \o (b \o r)
  BY <1>1, ByteStrings, ZenonT(40)
<1>3. m \o (b \o r) \in Seq(Byte)
  BY <1>1, ByteStrings, Zenon
<1>4. ((a \o m) \o b) \o r = (a \o m) \o (b \o r)
  BY <1>1, ByteStrings, ZenonT(40)
<1>5. QED BY <1>2, <1>3, <1>4, Zenon

\* What encode_body has written stays in front of what it writes next.
LEMMA EncodedPrefix ==
  ASSUME NEW i \in InterfaceSection
  PROVE  \A k \in 0 .. Len(i.names) :
           \E rest \in Seq(Byte) : EncodeInterface(i) = EncodedUpTo(i)[k] \o rest
<1> DEFINE n == Len(i.names)
           E == EncodedUpTo(i)
           S == {j \in 0 .. n : \E rest \in Seq(Byte) : E[n] = E[n - j] \o rest}
<1>1. n \in Nat /\ i.names \in Seq(Seq(Byte))
  BY LenProperties DEF InterfaceSection
<1>2. \A k \in 1 .. n : E[k] = E[k - 1] \o Le16(LengthOf(i.names[k])) \o i.names[k]
  BY EncodedRounds
<1>3. \A k \in 0 .. n : E[k] \in Seq(Byte)
  BY EncodedTypes
<1> HIDE DEF E, n
<1>4. 0 \in S
  <2>1. E[n] = E[n] \o <<>> /\ <<>> \in Seq(Byte) /\ n - 0 = n
    BY <1>1, <1>3, ConcatEmptySeq
  <2>2. \E rest \in Seq(Byte) : E[n] = E[n - 0] \o rest
    BY <2>1
  <2>3. QED BY <1>1, <2>2
<1>5. ASSUME NEW j \in 1 .. n, j - 1 \in S PROVE j \in S
  <2> DEFINE k == n - (j - 1)
             name == i.names[k]
             word == Le16(LengthOf(name))
  <2>1. k \in 1 .. n /\ k - 1 = n - j /\ k - 1 \in 0 .. n /\ j \in 0 .. n
    BY <1>1
  <2>2. PICK rest \in Seq(Byte) : E[n] = E[k] \o rest
    BY <1>5
  <2> HIDE DEF k
  <2>3. name \in Seq(Byte)
    BY <1>1, <2>1, ElementOfSeq DEF n
  <2>4. word \in Seq(Byte)
    BY <2>3, LengthOfProperties, Le16Properties
  <2>5. E[k] = (E[k - 1] \o word) \o name /\ E[k - 1] \in Seq(Byte)
    BY <1>2, <1>3, <2>1
  <2> HIDE DEF name, word
  <2>6. /\ ((E[k - 1] \o word) \o name) \o rest = E[k - 1] \o (word \o (name \o rest))
        /\ word \o (name \o rest) \in Seq(Byte)
    <3> DEFINE a == E[k - 1]
    <3>1. a \in Seq(Byte)
      BY <2>5
    <3> HIDE DEF a
    <3>2. /\ ((a \o word) \o name) \o rest = a \o (word \o (name \o rest))
          /\ word \o (name \o rest) \in Seq(Byte)
      BY <2>3, <2>4, <3>1, FourParts
    <3>3. QED BY <3>2 DEF a
  <2>10. E[n] = E[k - 1] \o (word \o (name \o rest))
    BY <2>2, <2>5, <2>6, Zenon
  <2>11. \E more \in Seq(Byte) : E[n] = E[n - j] \o more
    BY <2>1, <2>6, <2>10
  <2>12. QED BY <2>1, <2>11
<1> HIDE DEF S
<1>6. \A j \in 0 .. n : j \in S
  BY <1>1, <1>4, <1>5, LoopInduction
<1>7. SUFFICES ASSUME NEW k \in 0 .. n
      PROVE  \E rest \in Seq(Byte) : E[n] = E[k] \o rest
  BY DEF EncodeInterface, E, n
<1>8. n - k \in S /\ n - (n - k) = k
  BY <1>1, <1>6
<1>9. QED BY <1>8 DEF S

\* The count that was written is the count that is read.
LEMMA CountSurvives ==
  ASSUME NEW i \in InterfaceSection
  PROVE  /\ EncodeInterface(i) \in Seq(Byte)
         /\ Len(EncodeInterface(i)) >= 4
         /\ ReadLe32(EncodeInterface(i), 0) = i.public_input_count
<1> DEFINE count == i.public_input_count
<1>1. count \in 0 .. U16 * U16 - 1
  BY DEF InterfaceSection
<1>2. Len(i.names) \in Nat /\ EncodedUpTo(i)[0] = Le32(count)
  BY EncodedRounds
<1>3. PICK rest \in Seq(Byte) : EncodeInterface(i) = Le32(count) \o rest
  <2>1. 0 \in 0 .. Len(i.names)
    BY <1>2
  <2>2. QED BY <1>2, <2>1, EncodedPrefix
<1> HIDE DEF count
<1>4. Le32(count) \in Seq(Byte) /\ Len(Le32(count)) = 4
      /\ ReadLe32(Le32(count) \o rest, 0) = count
  BY <1>1, ReadLe32Back
<1>5. Le32(count) \o rest \in Seq(Byte) /\ Len(Le32(count) \o rest) = 4 + Len(rest)
  BY <1>4, ByteStrings, ZenonT(40)
<1>6. Len(rest) \in Nat
  BY LenProperties
<1>7. QED BY <1>3, <1>4, <1>5, <1>6 DEF count

\* The middle of three parts.
LEMMA MiddlePart ==
  ASSUME NEW a \in Seq(Byte), NEW m \in Seq(Byte), NEW r \in Seq(Byte)
  PROVE  SubSeq(a \o (m \o r), Len(a) + 1, Len(a) + Len(m)) = m
<1> DEFINE s == a \o (m \o r)
           sub == SubSeq(s, Len(a) + 1, Len(a) + Len(m))
<1>1. /\ Len(a) \in Nat /\ Len(m) \in Nat /\ Len(r) \in Nat
      /\ m \o r \in Seq(Byte) /\ Len(m \o r) = Len(m) + Len(r)
  BY LenProperties, ConcatProperties
<1>2. \A j \in 1 .. Len(m) : (m \o r)[j] = m[j]
  BY ConcatAt
<1>3. \A j \in 1 .. Len(m \o r) : s[Len(a) + j] = (m \o r)[j]
  BY <1>1, ConcatAt
<1>4. \A j \in 1 .. Len(m) : s[Len(a) + j] = m[j] /\ m[j] \in Byte
  <2>1. SUFFICES ASSUME NEW j \in 1 .. Len(m)
        PROVE  s[Len(a) + j] = m[j] /\ m[j] \in Byte
    OBVIOUS
  <2>2. j \in 1 .. Len(m \o r)
    BY <1>1
  <2>3. m[j] \in Byte
    BY ElementOfSeq
  <2> HIDE DEF s
  <2>4. s[Len(a) + j] = m[j]
    BY <1>2, <1>3, <2>2, Zenon
  <2>5. QED BY <2>3, <2>4
<1> HIDE DEF s
<1>5. \A j \in Len(a) + 1 .. Len(a) + Len(m) : s[j] \in Byte
  <2>1. SUFFICES ASSUME NEW j \in Len(a) + 1 .. Len(a) + Len(m) PROVE s[j] \in Byte
    OBVIOUS
  <2>2. j - Len(a) \in 1 .. Len(m) /\ Len(a) + (j - Len(a)) = j
    BY <1>1
  <2>3. QED BY <1>4, <2>2
<1>6. /\ sub \in Seq(Byte)
      /\ Len(sub) = IF Len(a) + 1 <= Len(a) + Len(m)
                    THEN (Len(a) + Len(m)) - (Len(a) + 1) + 1 ELSE 0
      /\ \A j \in 1 .. (Len(a) + Len(m)) - (Len(a) + 1) + 1 :
           sub[j] = s[(Len(a) + 1) + j - 1]
  BY <1>1, <1>5, SubSeqProperties
<1> HIDE DEF sub
<1>7. Len(sub) = Len(m)
  BY <1>1, <1>6
<1>8. \A j \in 1 .. Len(m) : sub[j] = m[j]
  <2>1. SUFFICES ASSUME NEW j \in 1 .. Len(m) PROVE sub[j] = m[j]
    OBVIOUS
  <2>2. /\ j \in 1 .. (Len(a) + Len(m)) - (Len(a) + 1) + 1
        /\ (Len(a) + 1) + j - 1 = Len(a) + j
    BY <1>1
  <2>3. QED BY <1>4, <1>6, <2>2
<1>9. sub = m
  BY <1>6, <1>7, <1>8, SeqEqual
<1>10. QED BY <1>9 DEF sub, s

\* A round that finds a legal name in the body reads it.
LEMMA ReadNameBack ==
  ASSUME NEW body \in Seq(Byte), NEW count, NEW at \in 0 .. Len(body), NEW names,
         NameEnd(body, at) \in at + 2 .. Len(body), Legal(NameAt(body, at))
  PROVE  ReadName(body, SoFar(count, at, names))
           = SoFar(count, NameEnd(body, at), Append(names, NameAt(body, at)))
<1> DEFINE p == SoFar(count, at, names)
           name == NameAt(body, at)
           to == NameEnd(body, at)
           longer == Append(names, name)
           q == [p EXCEPT !.names = longer]
<1>0. Len(body) \in Nat /\ at \in Nat
  BY LenProperties
<1>1. p.res = "ok" /\ p.cursor = at /\ p.names = names
  BY DEF SoFar
<1>2. /\ at + LENGTH_BYTES = at + 2
      /\ (at + LENGTH_BYTES) + 1 = at + 3
      /\ (at + LENGTH_BYTES) + ReadLe16(body, at) = to
  BY <1>0 DEF LENGTH_BYTES, NameEnd
<1>3. ReadName(body, p) =
        IF at + 2 > Len(body) THEN Stopped(p, "E015")
        ELSE IF to > Len(body) THEN Stopped(p, "E015")
        ELSE IF (\E k \in DOMAIN name : name[k] = 0) \/ ~ Utf8(name) THEN Stopped(p, "E003")
        ELSE [p EXCEPT !.names = Append(@, name), !.cursor = to]
  BY <1>1, <1>2 DEF ReadName, NameAt
<1>4. p = SoFar(count, at, names) /\ Legal(name) /\ to \in at + 2 .. Len(body)
  OBVIOUS
<1> HIDE DEF p, name, to
<1>5. /\ ~ at + 2 > Len(body) /\ ~ to > Len(body)
      /\ ~ ((\E k \in DOMAIN name : name[k] = 0) \/ ~ Utf8(name))
  BY <1>0, <1>4 DEF Legal
<1> HIDE DEF longer
<1>6. q = SoFar(count, at, longer)
  BY <1>4, SoFarNames
<1> HIDE DEF q
<1>7. [q EXCEPT !.cursor = to] = SoFar(count, to, longer)
  BY <1>6, SoFarCursor
<1>8. [p EXCEPT !.names = longer, !.cursor = to] = [q EXCEPT !.cursor = to]
  BY DEF q
<1>9. ReadName(body, p) = SoFar(count, to, longer)
  BY <1>1, <1>3, <1>5, <1>7, <1>8 DEF longer
<1>10. QED BY <1>9 DEF p, name, to, longer
\* A round of parse_interface over what a round of encode_body wrote.
LEMMA RoundBack ==
  ASSUME NEW i \in InterfaceSection, Framable(i), NEW k \in 1 .. Len(i.names),
         NEW count
  PROVE  ReadName(EncodeInterface(i),
                  SoFar(count, Len(EncodedUpTo(i)[k - 1]), SubSeq(i.names, 1, k - 1)))
           = SoFar(count, Len(EncodedUpTo(i)[k]), SubSeq(i.names, 1, k))
<1> DEFINE n == Len(i.names)
           body == EncodeInterface(i)
           a == EncodedUpTo(i)[k - 1]
           b == EncodedUpTo(i)[k]
           name == i.names[k]
           word == Le16(LengthOf(name))
           at == Len(a)
<1>1. n \in Nat /\ i.names \in Seq(Seq(Byte)) /\ k \in 1 .. n /\ k - 1 \in 0 .. n
      /\ k \in 0 .. n
  BY LenProperties DEF InterfaceSection
<1>2. b = (a \o word) \o name
  BY EncodedRounds
<1>3. a \in Seq(Byte) /\ b \in Seq(Byte) /\ body \in Seq(Byte)
  BY <1>1, EncodedTypes, CountSurvives
<1>4. name \in Seq(Byte) /\ Legal(name)
  <2>1. name \in Seq(Byte)
    BY <1>1, ElementOfSeq
  <2>2. k \in DOMAIN i.names
    BY <1>1, LenProperties
  <2>3. QED BY <2>1, <2>2 DEF Framable, Legal
<1>5. Len(name) \in Nat /\ LengthOf(name) = Len(name) /\ Len(name) \in 0 .. U16 - 1
  BY <1>4, LengthOfProperties, LenProperties DEF Legal
<1>6. word \in Seq(Byte) /\ Len(word) = 2
  BY <1>5, Le16Properties
<1>7. PICK rest \in Seq(Byte) : body = b \o rest
  BY <1>1, EncodedPrefix
<1>8. word = Le16(Len(name))
  BY <1>5
<1> HIDE DEF body, a, b, name, word
<1>9. body = a \o (word \o (name \o rest)) /\ word \o (name \o rest) \in Seq(Byte)
      /\ name \o rest \in Seq(Byte)
  <2>0. a \in Seq(Byte) /\ word \in Seq(Byte) /\ name \in Seq(Byte)
    BY <1>3, <1>4, <1>6
  <2>1. /\ ((a \o word) \o name) \o rest = a \o (word \o (name \o rest))
        /\ word \o (name \o rest) \in Seq(Byte)
    <3>1. a \o word \in Seq(Byte) /\ name \o rest \in Seq(Byte)
      BY <2>0, ByteStrings, Zenon
    <3>2. ((a \o word) \o name) \o rest = (a \o word) \o (name \o rest)
      BY <2>0, <3>1, ByteStrings, ZenonT(40)
    <3>3. (a \o word) \o (name \o rest) = a \o (word \o (name \o rest))
      BY <2>0, <3>1, ByteStrings, ZenonT(40)
    <3>4. word \o (name \o rest) \in Seq(Byte)
      BY <2>0, <3>1, ByteStrings, Zenon
    <3>5. QED BY <3>2, <3>3, <3>4, Zenon
  <2>2. name \o rest \in Seq(Byte)
    BY <1>4, ByteStrings, Zenon
  <2>3. body = ((a \o word) \o name) \o rest
    BY <1>2, <1>7, Zenon
  <2>4. QED BY <2>1, <2>2, <2>3, Zenon
<1> DEFINE r == name \o rest
<1> HIDE DEF r
<1>10. ReadLe16(body, at) = Len(name)
  <2>1. a \in Seq(Byte) /\ r \in Seq(Byte)
    BY <1>3, <1>9 DEF r
  <2>2. ReadLe16(a \o (Le16(Len(name)) \o r), Len(a)) = Len(name)
    BY <1>5, <2>1, ReadLe16Back
  <2>3. QED BY <1>8, <1>9, <2>2, Zenon DEF r
<1>11. Len(a \o word) = at + 2 /\ at \in Nat /\ Len(b) = at + 2 + Len(name)
       /\ a \o word \in Seq(Byte)
  <2>1. a \o word \in Seq(Byte) /\ Len(a \o word) = Len(a) + Len(word)
    BY <1>3, <1>6, ByteStrings, Zenon
  <2>2. Len((a \o word) \o name) = Len(a \o word) + Len(name)
    BY <1>4, <2>1, ByteStrings, Zenon
  <2>3. Len(a) \in Nat
    BY <1>3, LenProperties
  <2>4. QED BY <1>2, <1>5, <1>6, <2>1, <2>2, <2>3
<1>12. NameEnd(body, at) = Len(b)
  BY <1>10, <1>11 DEF NameEnd
<1>13. Len(b) \in at + 2 .. Len(body) /\ at \in 0 .. Len(body)
  <2>1. Len(body) = Len(b) + Len(rest)
    BY <1>3, <1>7, ByteStrings, Zenon
  <2>2. Len(rest) \in Nat /\ Len(b) \in Nat
    BY <1>3, LenProperties
  <2>3. QED BY <1>5, <1>11, <2>1, <2>2
<1>14. NameAt(body, at) = name
  <2> DEFINE aw == a \o word
  <2>1. aw \in Seq(Byte) /\ Len(aw) = at + 2
    BY <1>11
  <2>2. body = aw \o (name \o rest)
    <3>1. a \o (word \o r) = (a \o word) \o r
      <4>1. a \in Seq(Byte) /\ word \in Seq(Byte) /\ r \in Seq(Byte)
        BY <1>3, <1>6, <1>9 DEF r
      <4>2. QED BY <4>1, ByteStrings, Zenon
    <3>2. QED BY <1>9, <3>1, Zenon DEF r
  <2> HIDE DEF aw
  <2>3. SubSeq(aw \o (name \o rest), Len(aw) + 1, Len(aw) + Len(name)) = name
    BY <2>1, <1>4, MiddlePart
  <2>4. Len(aw) + 1 = at + 3 /\ Len(aw) + Len(name) = Len(b)
    BY <1>5, <1>11, <2>1
  <2>5. QED BY <1>12, <2>2, <2>3, <2>4, Zenon DEF NameAt
<1>15. ReadName(body, SoFar(count, at, SubSeq(i.names, 1, k - 1)))
         = SoFar(count, Len(b), Append(SubSeq(i.names, 1, k - 1), name))
  <2>1. /\ NameEnd(body, at) \in at + 2 .. Len(body) /\ Legal(NameAt(body, at))
        /\ at \in 0 .. Len(body) /\ body \in Seq(Byte)
    BY <1>3, <1>4, <1>12, <1>13, <1>14
  <2> DEFINE names == SubSeq(i.names, 1, k - 1)
  <2> HIDE DEF names, at
  <2>2. ReadName(body, SoFar(count, at, names))
          = SoFar(count, NameEnd(body, at), Append(names, NameAt(body, at)))
    BY <2>1, ReadNameBack
  <2>3. QED BY <1>12, <1>14, <2>2, Zenon DEF names
<1>16. Append(SubSeq(i.names, 1, k - 1), name) = SubSeq(i.names, 1, k)
  <2> DEFINE names == i.names
  <2>1. names \in Seq(Seq(Byte)) /\ n = Len(names) /\ name = names[k]
    BY <1>1 DEF name
  <2> HIDE DEF names
  <2>2. SubSeq(names, 1, k) = SubSeq(names, 1, k - 1) \o << names[k] >>
    <3>1. 1 \in 1 .. Len(names) /\ k \in 1 .. Len(names)
      BY <1>1, <2>1
    <3>2. QED BY <2>1, <3>1, SubSeqRecursiveSecond
  <2>3. SubSeq(names, 1, k - 1) \in Seq(Seq(Byte))
    <3>1. \A j \in 1 .. k - 1 : names[j] \in Seq(Byte)
      <4>1. SUFFICES ASSUME NEW j \in 1 .. k - 1 PROVE names[j] \in Seq(Byte)
        OBVIOUS
      <4>2. j \in 1 .. Len(names)
        BY <1>1, <2>1
      <4>3. QED BY <2>1, <4>2, ElementOfSeq
    <3>2. QED BY <1>1, <3>1, SubSeqProperties
  <2>4. names[k] \in Seq(Byte)
    BY <1>4, <2>1
  <2>5. Append(SubSeq(names, 1, k - 1), names[k]) = SubSeq(names, 1, k - 1) \o << names[k] >>
    BY <2>3, <2>4, AppendIsConcat
  <2>6. QED BY <2>1, <2>2, <2>5 DEF names
<1>17. QED BY <1>15, <1>16 DEF body, a, b
\* A section that fits is read back to its last name.
LEMMA FramableIsRead ==
  ASSUME NEW i \in InterfaceSection, Framable(i)
  PROVE  ParseInterface(EncodeInterface(i))
           = SoFar(i.public_input_count, Len(EncodeInterface(i)), i.names)
<1> DEFINE n == Len(i.names)
           body == EncodeInterface(i)
           E == EncodedUpTo(i)
           R == ReadUpTo(body)
           Then(k) == SoFar(n, Len(E[k]), SubSeq(i.names, 1, k))
           S == {k \in 0 .. n : R[k] = Then(k)}
<1>1. n \in Nat /\ i.names \in Seq(Seq(Byte)) /\ i.public_input_count = n
  BY LenProperties DEF InterfaceSection, Framable
<1>2. /\ body \in Seq(Byte) /\ Len(body) >= 4 /\ Len(body) \in Nat
      /\ ReadLe32(body, 0) = n
  BY <1>1, CountSurvives, LenProperties
<1>3. /\ R[0] = SoFar(n, 4, <<>>)
      /\ \A k \in 1 .. n : R[k] = ReadName(body, R[k - 1])
  <2> HIDE DEF body, n
  <2>1. /\ R[0] = SoFar(ReadLe32(body, 0), 4, <<>>)
        /\ \A k \in 1 .. ReadLe32(body, 0) : R[k] = ReadName(body, R[k - 1])
    BY <1>2, ReadRounds
  <2> HIDE DEF R
  <2>2. QED BY <1>2, <2>1
<1>4. \A k \in 1 .. n : ReadName(body, Then(k - 1)) = Then(k)
  <2>1. TAKE k \in 1 .. n
  <2>2. QED BY RoundBack
<1>5. Then(0) = SoFar(n, 4, <<>>)
  <2>1. E[0] = Le32(i.public_input_count)
    BY EncodedRounds
  <2>2. Len(Le32(i.public_input_count)) = 4
    <3>1. i.public_input_count \in 0 .. U16 * U16 - 1 /\ <<>> \in Seq(Byte)
      BY DEF InterfaceSection
    <3>2. QED BY <3>1, ReadLe32Back
  <2>3. SubSeq(i.names, 1, 0) = <<>>
    BY SubSeqEmpty
  <2>4. QED BY <2>1, <2>2, <2>3
<1>6. body = E[n]
  BY DEF EncodeInterface
<1>7. SubSeq(i.names, 1, n) = i.names
  BY <1>1, SubSeqFull
<1>8. Then(n) = SoFar(n, Len(body), i.names)
  <2> HIDE DEF body, E
  <2>1. QED BY <1>6, <1>7
<1> HIDE DEF Then, R, E, body, n
<1>9. 0 \in S
  BY <1>1, <1>3, <1>5
<1>10. ASSUME NEW k \in 1 .. n, k - 1 \in S PROVE k \in S
  <2>1. R[k - 1] = Then(k - 1)
    BY <1>10
  <2>2. R[k] = Then(k)
    BY <1>3, <1>4, <2>1
  <2>3. QED BY <1>1, <2>2
<1>11. R[n] = Then(n)
  <2> HIDE DEF S
  <2>1. \A k \in 0 .. n : k \in S
    BY <1>1, <1>9, <1>10, LoopInduction
  <2>2. n \in S
    BY <1>1, <2>1
  <2>3. QED BY <2>2 DEF S
<1>12. ParseInterface(body) = AtTheEnd(body, R[n])
  BY <1>2 DEF ParseInterface, COUNT_BYTES, R
<1>13. AtTheEnd(body, SoFar(n, Len(body), i.names)) = SoFar(n, Len(body), i.names)
  <2> DEFINE p == SoFar(n, Len(body), i.names)
  <2>1. p.cursor = Len(body)
    BY DEF SoFar
  <2> HIDE DEF p
  <2>2. AtTheEnd(body, p) = p
    BY <2>1 DEF AtTheEnd
  <2>3. QED BY <2>2 DEF p
<1>14. ParseInterface(body) = SoFar(n, Len(body), i.names)
  BY <1>8, <1>11, <1>12, <1>13
<1>15. QED BY <1>1, <1>14 DEF body, n

\* The names of a section come back through encode_body and parse_interface
\* exactly when the body has room for the section: as many names as counted,
\* none longer than its length field can say, each of them UTF-8 without a NUL.
\* Anything else is refused, or read as something else.
THEOREM NamesComeBack ==
  ASSUME NEW i \in InterfaceSection
  PROVE  LET read == ParseInterface(EncodeInterface(i)) IN
         (read.res = "ok" /\ read.names = i.names) <=> Framable(i)
<1> DEFINE body == EncodeInterface(i)
           read == ParseInterface(body)
<1>1. ASSUME Framable(i) PROVE read.res = "ok" /\ read.names = i.names
  <2>1. read = SoFar(i.public_input_count, Len(body), i.names)
    BY <1>1, FramableIsRead
  <2>2. QED BY <2>1 DEF SoFar
<1>2. ASSUME read.res = "ok", read.names = i.names PROVE Framable(i)
  <2> DEFINE j == SectionOf(read.public_input_count, read.names)
  <2>1. body \in Seq(Byte) /\ ReadLe32(body, 0) = i.public_input_count
    BY CountSurvives
  <2> HIDE DEF body
  <2>2. j \in InterfaceSection /\ Framable(j) /\ EncodeInterface(j) = body
    BY <1>2, <2>1, AcceptedIsCanonical
  <2>3. j.names = i.names
    BY <1>2 DEF SectionOf
  <2> HIDE DEF j
  <2>4. ReadLe32(EncodeInterface(j), 0) = j.public_input_count
    BY <2>2, CountSurvives
  <2>5. j.public_input_count = i.public_input_count
    BY <2>1, <2>2, <2>4
  <2>6. QED BY <2>2, <2>3, <2>5 DEF Framable
<1> HIDE DEF read
<1>3. (read.res = "ok" /\ read.names = i.names) <=> Framable(i)
  BY <1>1, <1>2
<1>4. QED BY <1>3 DEF read, body
=============================================================================
