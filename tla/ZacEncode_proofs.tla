-------------------------- MODULE ZacEncode_proofs --------------------------
(***************************************************************************)
(* Proofs about ZacFile::encode, for containers of every size, any word    *)
(* size and any limit on the number of sections.                           *)
(***************************************************************************)
EXTENDS ZacEncode, ZacInterface_proofs, TLAPS

USE U32Assumption, MaxSectionsAssumption, MaxMetaAssumption
----------------------------------------------------------------------------
(* Arithmetic.                                                             *)

\* Rounding up to eight bytes never shortens and gives a multiple of eight.
LEMMA AlignUpFacts ==
  ASSUME NEW n \in Nat
  PROVE  /\ AlignUp(n) \in Nat /\ n <= AlignUp(n) /\ AlignUp(n) < n + 8
         /\ AlignUp(n) % 8 = 0
         /\ n % 8 = 0 => AlignUp(n) = n
BY DEF AlignUp

\* Cutting a number below twice the modulus subtracts the modulus at most once.
LEMMA CutFacts ==
  ASSUME NEW n \in Nat
  PROVE  /\ Cut(n) \in Word /\ Cut(n) \in Nat /\ Cut(n) <= n
         /\ n < U32 => Cut(n) = n
         /\ U32 <= n /\ n < U32 + U32 => Cut(n) = n - U32
<1>. DEFINE q == n \div U32
<1>1. /\ n = U32 * q + Cut(n) /\ Cut(n) \in 0 .. U32 - 1 /\ q \in Nat
  BY DEF Cut
<1>. HIDE DEF q
<1>2. q = 0 => Cut(n) = n
  BY <1>1
<1>3. q >= 1 => U32 * q >= U32
  BY <1>1
<1>4. q >= 2 => U32 * q >= U32 + U32
  BY <1>1
<1>5. q = 1 => Cut(n) = n - U32
  BY <1>1
<1>6. n < U32 => Cut(n) = n
  BY <1>1, <1>2, <1>3
<1>7. U32 <= n /\ n < U32 + U32 => q = 1
  BY <1>1, <1>4
<1>. QED
  BY <1>1, <1>2, <1>3, <1>5, <1>6, <1>7 DEF Word

\* A container's sections are typed and their non-zero bytes lie within them.
LEMMA FileFacts ==
  ASSUME zf \in Files
  PROVE  /\ N \in Nat /\ zf.major \in Nat /\ zf.flags \in Nat
         /\ DOMAIN zf.sections = 1 .. N
         /\ \A k \in 1 .. N :
              /\ zf.sections[k] \in Section /\ Size(k) \in Nat
              /\ zf.sections[k].type \in SectionType
              /\ zf.sections[k].body \in BodyVerdict
              /\ \A b \in zf.sections[k].ink : b \in Nat /\ b < Size(k)
<1>1. zf \in File
  BY FilesAssumption
<1>2. /\ zf.major \in Nat /\ zf.flags \in Nat /\ zf.sections \in Seq(Section)
  BY <1>1 DEF File
<1>3. N \in Nat /\ DOMAIN zf.sections = 1 .. N
  BY <1>2 DEF N
<1>4. ASSUME NEW k \in 1 .. N
      PROVE  /\ zf.sections[k] \in Section /\ Size(k) \in Nat
             /\ zf.sections[k].type \in SectionType
             /\ zf.sections[k].body \in BodyVerdict
             /\ \A b \in zf.sections[k].ink : b \in Nat /\ b < Size(k)
  <2>1. zf.sections[k] \in Section
    BY <1>2, <1>3
  <2>2. \A b \in zf.sections[k].ink : b < zf.sections[k].size
    BY <1>3, FilesAssumption
  <2>3. /\ zf.sections[k].size \in Nat /\ zf.sections[k].ink \subseteq Nat
        /\ zf.sections[k].type \in SectionType
        /\ zf.sections[k].body \in BodyVerdict
    BY <2>1 DEF Section
  <2>. QED
    BY <2>1, <2>2, <2>3 DEF Size
<1>. QED
  BY <1>2, <1>3, <1>4

\* The bodies start after the index, at a place that fits a word.
LEMMA BodyStartFacts ==
  ASSUME zf \in Files
  PROVE  /\ BodyStart \in Nat /\ BodyStart % 8 = 0
         /\ BodyStart = SlotAt(N)
         /\ N <= MAX_SECTIONS => BodyStart < U32
<1>1. N \in Nat
  BY FileFacts
<1>2. SlotAt(N) \in Nat /\ SlotAt(N) % 8 = 0
  BY <1>1 DEF SlotAt, INDEX_OFFSET, INDEX_ENTRY_SIZE
<1>3. BodyStart = SlotAt(N)
  BY <1>2, AlignUpFacts DEF BodyStart
<1>4. N <= MAX_SECTIONS => SlotAt(N) <= SlotAt(MAX_SECTIONS) /\ SlotAt(MAX_SECTIONS) \in Nat
  BY <1>1 DEF SlotAt, INDEX_OFFSET, INDEX_ENTRY_SIZE
<1>. QED
  BY <1>2, <1>3, <1>4, WordAssumption
----------------------------------------------------------------------------
(* The loops.                                                              *)

\* A step that leaves the container alone leaves what is computed from it.
LEMMA SameContainer ==
  ASSUME zf' = zf
  PROVE  N' = N /\ BodyStart' = BodyStart /\ \A k : Size(k)' = Size(k)
BY DEF N, BodyStart, Size

\* The places of the bodies are numbers.
LEMMA StartFacts ==
  ASSUME TypeOK
  PROVE  /\ Len(start) \in Nat /\ DOMAIN start = 1 .. Len(start)
         /\ \A k \in 1 .. Len(start) : start[k] \in Nat
         /\ start = <<>> <=> Len(start) = 0
         /\ Len(put) \in Nat /\ DOMAIN put = 1 .. Len(put)
         /\ \A k \in 1 .. Len(put) : put[k] \in Nat
         /\ put = <<>> <=> Len(put) = 0
BY DEF TypeOK

\* The last body ends within the layout.
LEMMA LayoutEndFacts ==
  ASSUME TypeOK, N \in 1 .. MAX_SECTIONS, Laid, Len(start) = N
  PROVE  /\ LayoutEnd \in Nat /\ LayoutEnd % 8 = 0
         /\ BodyStart <= LayoutEnd
         /\ \A k \in 1 .. N : start[k] + Size(k) <= LayoutEnd
<1>1. zf \in Files
  BY DEF TypeOK
<1>2. /\ DOMAIN start = 1 .. N /\ N \in Nat /\ N \in 1 .. N
      /\ \A k \in 1 .. N : start[k] \in Nat /\ Size(k) \in Nat
  BY <1>1, StartFacts, FileFacts
<1>3. /\ LayoutEnd \in Nat /\ LayoutEnd % 8 = 0 /\ start[N] + Size(N) <= LayoutEnd
      /\ start[N] \in Nat /\ Size(N) \in Nat
  <2>1. start[N] \in Nat /\ Size(N) \in Nat
    BY <1>2
  <2>2. start[N] + Size(N) \in Nat
    BY <2>1
  <2>. QED
    BY <2>1, <2>2, AlignUpFacts DEF LayoutEnd
<1>4. \A k \in 1 .. N : k < N => start[k] + Size(k) <= start[N]
  BY <1>2 DEF Laid
<1>5. BodyStart \in Nat /\ BodyStart <= start[N]
  BY <1>1, <1>2, BodyStartFacts DEF Laid
<1>6. ASSUME NEW k \in 1 .. N PROVE start[k] + Size(k) <= LayoutEnd
  <2>1. CASE k = N
    BY <2>1, <1>3
  <2>2. CASE k < N
    <3>1. start[k] \in Nat /\ Size(k) \in Nat /\ start[k] + Size(k) <= start[N]
      BY <2>2, <1>2, <1>4
    <3>. QED
      BY <3>1, <1>3
  <2>. QED
    BY <2>1, <2>2, <1>2
<1>7. BodyStart <= LayoutEnd
  BY <1>3, <1>5
<1>. QED
  BY <1>3, <1>6, <1>7

LEMMA InitInv == Init => Inv
<1>. SUFFICES ASSUME Init PROVE Inv
  OBVIOUS
<1>1. TypeOK
  BY DEF Init, TypeOK
<1>2. Laid
  BY <1>1, StartFacts DEF Init, Laid
<1>. QED
  BY <1>1, <1>2 DEF Init, Inv, LoopsAgree

LEMMA CheckCountStep ==
  ASSUME Inv, CheckCount
  PROVE  Inv'
<1>1. /\ pc = "assert" /\ start = <<>> /\ put = <<>> /\ TypeOK /\ Laid
      /\ zf' = zf /\ start' = start /\ put' = put /\ img' = img
  BY DEF CheckCount, Inv
<1>2. N' = N /\ BodyStart' = BodyStart /\ \A k : Size(k)' = Size(k)
  BY <1>1, SameContainer
<1>3. BodyStart \in Nat
  BY <1>1, BodyStartFacts DEF TypeOK
<1>4. \/ pc' = "layout" /\ cursor' = BodyStart /\ N \in 1 .. MAX_SECTIONS
      \/ pc' = "panicked" /\ cursor' = cursor /\ N \notin 1 .. MAX_SECTIONS
  BY DEF CheckCount
<1>5. TypeOK'
  BY <1>1, <1>3, <1>4 DEF TypeOK
<1>6. Laid'
  BY <1>1, <1>2 DEF Laid
<1>7. N \in 1 .. MAX_SECTIONS => Len(start) < N
  BY <1>1
<1>. QED
  BY <1>1, <1>2, <1>4, <1>5, <1>6, <1>7 DEF Inv, LoopsAgree

LEMMA LayOutStep ==
  ASSUME Inv, LayOut
  PROVE  Inv'
<1>. DEFINE m == Len(start) + 1
            next == AlignUp(cursor + Size(m))
<1>1. /\ pc = "layout" /\ TypeOK /\ Laid /\ N \in 1 .. MAX_SECTIONS
      /\ Len(start) < N /\ put = <<>>
      /\ start = <<>> => cursor = BodyStart
      /\ start # <<>> => cursor = AlignUp(start[Len(start)] + Size(Len(start)))
      /\ zf' = zf /\ put' = put /\ img' = img /\ start' = Append(start, cursor)
  BY DEF LayOut, Inv
<1>2. N' = N /\ BodyStart' = BodyStart /\ \A k : Size(k)' = Size(k)
  BY <1>1, SameContainer
<1>3. zf \in Files /\ cursor \in Nat /\ start \in Seq(Nat) /\ img = Nothing
  BY <1>1 DEF TypeOK
<1>4. /\ N \in Nat /\ \A k \in 1 .. N : Size(k) \in Nat
      /\ BodyStart \in Nat /\ BodyStart % 8 = 0
  BY <1>3, FileFacts, BodyStartFacts
<1>5. /\ Len(start) \in Nat /\ DOMAIN start = 1 .. Len(start)
      /\ \A k \in 1 .. Len(start) : start[k] \in Nat
      /\ start = <<>> <=> Len(start) = 0
  BY <1>1, StartFacts
<1>6. /\ start' \in Seq(Nat) /\ DOMAIN start' = 1 .. m /\ Len(start') = m
      /\ \A k \in 1 .. Len(start) : start'[k] = start[k]
      /\ start'[m] = cursor /\ start' # <<>>
  BY <1>1, <1>3, <1>5
<1>7. m \in 1 .. N /\ m \in Nat /\ Size(m) \in Nat /\ next \in Nat
  <2>1. m \in 1 .. N /\ m \in Nat
    BY <1>1, <1>4, <1>5
  <2>2. Size(m) \in Nat
    BY <2>1, <1>4
  <2>3. cursor + Size(m) \in Nat
    BY <2>2, <1>3
  <2>. QED
    BY <2>1, <2>2, <2>3, AlignUpFacts
<1>8. \/ pc' = "layout" /\ cursor' = next /\ m < N
      \/ pc' = "write" /\ cursor' = BodyStart /\ m = N
  BY <1>1, <1>7 DEF LayOut
<1>9. TypeOK'
  BY <1>1, <1>3, <1>4, <1>6, <1>7, <1>8 DEF TypeOK
<1>10. BodyStart <= cursor /\ cursor % 8 = 0
  <2>1. CASE start = <<>>
    BY <2>1, <1>1, <1>4
  <2>2. CASE start # <<>>
    <3>. DEFINE l == Len(start)
    <3>1. l \in 1 .. Len(start) /\ l \in 1 .. N
      BY <2>2, <1>1, <1>5
    <3>2. start[l] \in Nat /\ Size(l) \in Nat /\ BodyStart <= start[l]
      BY <3>1, <1>1, <1>4, <1>5 DEF Laid
    <3>3. start[l] + Size(l) \in Nat /\ BodyStart <= start[l] + Size(l)
      BY <3>2, <1>4
    <3>4. cursor = AlignUp(start[l] + Size(l))
      BY <2>2, <1>1
    <3>. DEFINE end == start[l] + Size(l)
    <3>5. end \in Nat /\ BodyStart <= end
      BY <3>3
    <3>. HIDE DEF end
    <3>6. /\ AlignUp(end) \in Nat /\ end <= AlignUp(end) /\ AlignUp(end) % 8 = 0
      BY <3>5, AlignUpFacts
    <3>7. cursor = AlignUp(end)
      BY <3>4 DEF end
    <3>. QED
      BY <3>5, <3>6, <3>7, <1>4
  <2>. QED
    BY <2>1, <2>2
<1>11. \A j \in 1 .. Len(start) : start[j] + Size(j) <= cursor
  <2>. SUFFICES ASSUME NEW j \in 1 .. Len(start) PROVE start[j] + Size(j) <= cursor
    OBVIOUS
  <2>. DEFINE l == Len(start)
  <2>1. l \in 1 .. Len(start) /\ l \in 1 .. N /\ j \in 1 .. N /\ start # <<>>
    BY <1>1, <1>5
  <2>2. /\ start[l] \in Nat /\ Size(l) \in Nat
        /\ start[j] \in Nat /\ Size(j) \in Nat
    BY <2>1, <1>4, <1>5
  <2>3. start[l] + Size(l) <= cursor
    <3>1. start[l] + Size(l) \in Nat
      BY <2>2
    <3>2. cursor = AlignUp(start[l] + Size(l))
      BY <2>1, <1>1
    <3>. QED
      BY <3>1, <3>2, AlignUpFacts
  <2>4. j < l => start[j] + Size(j) <= start[l]
    BY <2>1, <1>1, <1>5 DEF Laid
  <2>. QED
    BY <2>1, <2>2, <2>3, <2>4, <1>3, <1>4, <1>5, SMTT(20)
<1>12. Laid'
  <2>1. start'[1] = BodyStart
    BY <1>1, <1>5, <1>6 DEF Laid
  <2>2. \A k \in 1 .. m : BodyStart <= start'[k] /\ start'[k] % 8 = 0
    BY <1>1, <1>5, <1>6, <1>10, SMTT(20) DEF Laid
  <2>3. \A j, k \in 1 .. m : j < k => start'[j] + Size(j) <= start'[k]
    <3>. SUFFICES ASSUME NEW j \in 1 .. m, NEW k \in 1 .. m, j < k
                  PROVE  start'[j] + Size(j) <= start'[k]
      OBVIOUS
    <3>1. j \in 1 .. Len(start)
      BY <1>5
    <3>2. CASE k = m
      BY <3>1, <3>2, <1>6, <1>11
    <3>3. CASE k \in 1 .. Len(start)
      BY <3>1, <3>3, <1>1, <1>5, <1>6 DEF Laid
    <3>. QED
      BY <3>2, <3>3, <1>5
  <2>4. \A k \in 1 .. m : k + 1 \in 1 .. m => start'[k + 1] = AlignUp(start'[k] + Size(k))
    <3>. SUFFICES ASSUME NEW k \in 1 .. m, k + 1 \in 1 .. m
                  PROVE  start'[k + 1] = AlignUp(start'[k] + Size(k))
      OBVIOUS
    <3>1. k \in 1 .. Len(start) /\ start # <<>>
      BY <1>5
    <3>2. CASE k = Len(start)
      <4>1. start'[k + 1] = cursor /\ start'[k] = start[k]
        BY <3>1, <3>2, <1>6
      <4>. QED
        BY <4>1, <3>1, <3>2, <1>1
    <3>3. CASE k + 1 \in 1 .. Len(start)
      <4>1. start[k + 1] = AlignUp(start[k] + Size(k))
        BY <3>1, <3>3, <1>1, <1>5 DEF Laid
      <4>2. start'[k + 1] = start[k + 1] /\ start'[k] = start[k]
        BY <3>1, <3>3, <1>6
      <4>. QED
        BY <4>1, <4>2
    <3>4. k = Len(start) \/ k + 1 \in 1 .. Len(start)
      <4>1. k \in Nat /\ k <= Len(start) /\ 1 <= k + 1
        BY <3>1, <1>5
      <4>2. Len(start) \in Nat
        BY <1>5
      <4>. QED
        BY <4>1, <4>2
    <3>. QED
      BY <3>2, <3>3, <3>4, Zenon
  <2>. QED
    BY <1>2, <1>6, <2>1, <2>2, <2>3, <2>4 DEF Laid
<1>13. CASE pc' = "layout"
  BY <1>13, <1>1, <1>2, <1>6, <1>7, <1>8, <1>9, <1>12 DEF Inv, LoopsAgree
<1>14. CASE pc' = "write"
  <2>1. m = N /\ cursor' = BodyStart /\ put' = <<>> /\ Len(put') = 0
    BY <1>1, <1>8, <1>14
  <2>2. Written'
    BY <2>1, <1>2, <1>6 DEF Written
  <2>3. cursor' = start'[1]
    BY <2>1, <1>2, <1>6, <1>12 DEF Laid
  <2>. QED
    <3>1. /\ pc' # "panicked" /\ pc' # "assert" /\ pc' # "layout"
          /\ pc' # "finish" /\ pc' # "done"
      BY <1>14
    <3>2. N' \in 1 .. MAX_SECTIONS /\ Len(put') < N'
      BY <2>1, <1>1, <1>2
    <3>3. BodyStart' <= cursor' /\ cursor' <= cursor'
      BY <2>1, <1>2, <1>4
    <3>4. cursor' = start'[Len(put') + 1]
      <4>1. Len(put') + 1 = 1
        BY <2>1
      <4>. QED
        BY <4>1, <2>3
    <3>. QED
      BY <3>1, <3>2, <3>3, <3>4, <2>2, <1>9, <1>12 DEF Inv, LoopsAgree
<1>. QED
  BY <1>8, <1>13, <1>14

LEMMA WriteBodyStep ==
  ASSUME Inv, WriteBody
  PROVE  Inv'
<1>. DEFINE k == Len(put) + 1
            after == AtLeast(cursor + Size(k), PadTo(k))
<1>1. /\ pc = "write" /\ TypeOK /\ Laid /\ Written /\ N \in 1 .. MAX_SECTIONS
      /\ Len(start) = N /\ Len(put) < N
      /\ BodyStart <= cursor /\ cursor <= start[k]
      /\ start[k] < U32 => cursor = start[k]
      /\ zf' = zf /\ start' = start /\ img' = img /\ put' = Append(put, cursor)
      /\ cursor' = after
      /\ pc' = IF k < N THEN pc ELSE "finish"
  BY DEF WriteBody, Inv, Written
<1>2. N' = N /\ BodyStart' = BodyStart /\ \A j : Size(j)' = Size(j)
  BY <1>1, SameContainer
<1>3. zf \in Files /\ cursor \in Nat /\ put \in Seq(Nat) /\ start \in Seq(Nat) /\ img = Nothing
  BY <1>1 DEF TypeOK
<1>4. N \in Nat /\ BodyStart \in Nat /\ \A j \in 1 .. N : Size(j) \in Nat /\ start[j] \in Nat
  BY <1>1, <1>3, FileFacts, BodyStartFacts, StartFacts
<1>5. Len(put) \in Nat /\ DOMAIN put = 1 .. Len(put) /\ DOMAIN start = 1 .. N
  BY <1>1, StartFacts
<1>6. k \in 1 .. N /\ k \in Nat
  BY <1>1, <1>4, <1>5
<1>7. /\ put' \in Seq(Nat) /\ DOMAIN put' = 1 .. k /\ Len(put') = k
      /\ \A j \in 1 .. Len(put) : put'[j] = put[j]
      /\ put'[k] = cursor
  BY <1>1, <1>3, <1>5
<1>8. Size(k) \in Nat /\ start[k] \in Nat
  BY <1>4, <1>6
<1>9. LayoutEnd \in Nat /\ start[k] + Size(k) <= LayoutEnd
  BY <1>1, <1>6, LayoutEndFacts
<1>10. Laid'
  BY <1>1, <1>2 DEF Laid
<1>11. Written'
  <2>1. \A j \in 1 .. k : /\ BodyStart <= put'[j] /\ put'[j] <= start[j]
                          /\ start[j] < U32 => put'[j] = start[j]
    <3>. SUFFICES ASSUME NEW j \in 1 .. k
                  PROVE  /\ BodyStart <= put'[j] /\ put'[j] <= start[j]
                         /\ start[j] < U32 => put'[j] = start[j]
      OBVIOUS
    <3>1. CASE j = k
      BY <3>1, <1>1, <1>7
    <3>2. CASE j \in 1 .. Len(put)
      BY <3>2, <1>1, <1>5, <1>7 DEF Written
    <3>. QED
      BY <3>1, <3>2, <1>5
  <2>. QED
    BY <2>1, <1>1, <1>2, <1>7 DEF Written
<1>12. CASE k < N
  <2>1. pc' = "write" /\ k + 1 \in 1 .. N
    BY <1>1, <1>4, <1>6, <1>12
  <2>2. start[k + 1] \in Nat /\ start[k] + Size(k) <= start[k + 1]
    <3>1. k < k + 1 /\ k \in DOMAIN start /\ k + 1 \in DOMAIN start
      BY <2>1, <1>5, <1>6
    <3>. QED
      BY <3>1, <2>1, <1>1, <1>4 DEF Laid
  <2>3. PadTo(k) = Cut(start[k + 1])
    BY <1>12 DEF PadTo
  <2>4. /\ PadTo(k) \in Nat /\ PadTo(k) <= start[k + 1]
        /\ start[k + 1] < U32 => PadTo(k) = start[k + 1]
    BY <2>2, <2>3, CutFacts
  <2>5. cursor + Size(k) \in Nat /\ cursor <= cursor + Size(k) /\ cursor + Size(k) <= start[k + 1]
    BY <2>2, <1>1, <1>3, <1>8, SMTT(20)
  <2>6. /\ after \in Nat /\ cursor <= after /\ after <= start[k + 1]
        /\ start[k + 1] < U32 => after = start[k + 1]
    BY <2>2, <2>4, <2>5, <1>3 DEF AtLeast
  <2>7. /\ cursor' \in Nat /\ BodyStart <= cursor' /\ cursor' <= start[k + 1]
        /\ start[k + 1] < U32 => cursor' = start[k + 1]
    BY <2>6, <1>1, <1>3, <1>4
  <2>8. TypeOK'
    BY <2>1, <2>7, <1>1, <1>3, <1>7 DEF TypeOK
  <2>9. Len(put') < N' /\ Len(put') + 1 = k + 1 /\ N' \in 1 .. MAX_SECTIONS
    BY <1>1, <1>2, <1>7, <1>12
  <2>10. /\ BodyStart' <= cursor' /\ cursor' <= start'[Len(put') + 1]
         /\ start'[Len(put') + 1] < U32 => cursor' = start'[Len(put') + 1]
    BY <2>7, <2>9, <1>1, <1>2
  <2>. QED
    BY <2>1, <2>8, <2>9, <2>10, <1>10, <1>11 DEF Inv, LoopsAgree
<1>13. CASE ~ (k < N)
  <2>1. pc' = "finish" /\ k = N
    BY <1>1, <1>4, <1>6, <1>13
  <2>2. PadTo(k) = LayoutEnd
    BY <1>13 DEF PadTo
  <2>3. cursor + Size(k) \in Nat /\ cursor + Size(k) <= LayoutEnd
    BY <1>1, <1>3, <1>8, <1>9
  <2>4. after = LayoutEnd
    BY <2>2, <2>3, <1>9 DEF AtLeast
  <2>5. LayoutEnd' = LayoutEnd
    BY <1>1, <1>2 DEF LayoutEnd
  <2>6. cursor' = LayoutEnd' /\ cursor' \in Nat
    BY <2>4, <2>5, <1>1, <1>9
  <2>7. TypeOK'
    BY <2>1, <2>6, <1>1, <1>3, <1>7 DEF TypeOK
  <2>8. Len(put') = N' /\ N' \in 1 .. MAX_SECTIONS
    BY <2>1, <1>1, <1>2, <1>7
  <2>. QED
    BY <2>1, <2>6, <2>7, <2>8, <1>10, <1>11 DEF Inv, LoopsAgree
<1>. QED
  BY <1>12, <1>13
----------------------------------------------------------------------------
(* The file.                                                               *)

\* Where the loops have ended.
Complete ==
  /\ TypeOK /\ Laid /\ Written /\ N \in 1 .. MAX_SECTIONS
  /\ Len(put) = N /\ cursor = LayoutEnd

\* What is known of places and sizes by then.
LEMMA Places ==
  ASSUME Complete
  PROVE  /\ N \in Nat /\ N >= 1 /\ N <= MAX_SECTIONS
         /\ BodyStart \in Nat /\ BodyStart < U32 /\ BodyStart = SlotAt(N)
         /\ BodyStart % 8 = 0
         /\ LayoutEnd \in Nat /\ BodyStart <= LayoutEnd /\ LayoutEnd % 8 = 0
         /\ start[1] = BodyStart
         /\ \A k \in 1 .. N :
              /\ zf.sections[k] \in Section
              /\ zf.sections[k].type \in SectionType
              /\ zf.sections[k].body \in BodyVerdict
              /\ Size(k) \in Nat /\ start[k] \in Nat /\ put[k] \in Nat
              /\ BodyStart <= put[k] /\ put[k] <= start[k]
              /\ start[k] % 8 = 0 /\ start[k] + Size(k) <= LayoutEnd
              /\ start[k] < U32 => put[k] = start[k]
              /\ \A b \in zf.sections[k].ink :
                   b \in Nat /\ BodyStart <= put[k] + b /\ put[k] + b < LayoutEnd
<1>1. /\ TypeOK /\ Laid /\ Written /\ N \in 1 .. MAX_SECTIONS
      /\ Len(put) = N /\ Len(start) = N /\ zf \in Files
  BY DEF Complete, Written, TypeOK
<1>2. N \in Nat /\ N >= 1 /\ N <= MAX_SECTIONS
  BY <1>1
<1>3. /\ BodyStart \in Nat /\ BodyStart < U32 /\ BodyStart = SlotAt(N)
      /\ BodyStart % 8 = 0
  BY <1>1, <1>2, BodyStartFacts
<1>4. /\ LayoutEnd \in Nat /\ BodyStart <= LayoutEnd /\ LayoutEnd % 8 = 0
      /\ \A k \in 1 .. N : start[k] + Size(k) <= LayoutEnd
  BY <1>1, LayoutEndFacts
<1>5. DOMAIN start = 1 .. N /\ DOMAIN put = 1 .. N /\ start # <<>>
  BY <1>1, <1>2, StartFacts
<1>6. ASSUME NEW k \in 1 .. N
      PROVE  /\ zf.sections[k] \in Section
             /\ zf.sections[k].type \in SectionType
             /\ zf.sections[k].body \in BodyVerdict
             /\ Size(k) \in Nat /\ start[k] \in Nat /\ put[k] \in Nat
             /\ BodyStart <= put[k] /\ put[k] <= start[k]
             /\ start[k] % 8 = 0 /\ start[k] + Size(k) <= LayoutEnd
             /\ start[k] < U32 => put[k] = start[k]
             /\ \A b \in zf.sections[k].ink :
                  b \in Nat /\ BodyStart <= put[k] + b /\ put[k] + b < LayoutEnd
  <2>1. /\ zf.sections[k] \in Section
        /\ zf.sections[k].type \in SectionType
        /\ zf.sections[k].body \in BodyVerdict
        /\ Size(k) \in Nat
        /\ \A b \in zf.sections[k].ink : b \in Nat /\ b < Size(k)
    BY <1>1, FileFacts
  <2>2. start[k] \in Nat /\ put[k] \in Nat
    BY <1>1, StartFacts
  <2>3. /\ BodyStart <= put[k] /\ put[k] <= start[k]
        /\ start[k] < U32 => put[k] = start[k]
    BY <1>1, <1>5 DEF Written
  <2>4. start[k] % 8 = 0 /\ start[k] + Size(k) <= LayoutEnd
    BY <1>1, <1>4, <1>5 DEF Laid
  <2>5. ASSUME NEW b \in zf.sections[k].ink
        PROVE  b \in Nat /\ BodyStart <= put[k] + b /\ put[k] + b < LayoutEnd
    <3>1. b \in Nat /\ b < Size(k)
      BY <2>1
    <3>. QED
      BY <3>1, <2>1, <2>2, <2>3, <2>4, <1>3, <1>4
  <2>. QED
    BY <2>1, <2>2, <2>3, <2>4, <2>5
<1>7. start[1] = BodyStart
  BY <1>1, <1>5 DEF Laid
<1>. QED
  BY <1>2, <1>3, <1>4, <1>6, <1>7

\* A non-zero byte is the type of a slot or a byte of a body.
LEMMA DirtyBytes ==
  ASSUME Complete, NEW b \in Dirty
  PROVE  \/ \E k \in 1 .. N : zf.sections[k].type # 0 /\ b = SlotAt(k - 1)
         \/ \E k \in 1 .. N : \E c \in zf.sections[k].ink : b = put[k] + c
BY DEF Dirty

\* The encoder writes a byte string.
LEMMA EncodedIsImage ==
  ASSUME Complete
  PROVE  Encoded \in Image /\ Coherent(Encoded)
<1>1. /\ TrailerAt(Encoded) = LayoutEnd /\ Encoded.dirty = Dirty
      /\ \A k \in SlotIds : Encoded.slot[k] = IF k < N THEN SlotOf(k + 1) ELSE NoSlot(k)
  BY Places DEF Complete, Encoded, TrailerAt, TRAILER_SIZE
<1>2. HeaderOf \in Header
  <2>1. /\ Cut(BodyStart) \in Word /\ Cut(LayoutEnd - BodyStart) \in Word
        /\ INDEX_OFFSET \in Word
    BY Places, CutFacts, WordAssumption
       DEF Word, INDEX_OFFSET, SlotAt, INDEX_ENTRY_SIZE
  <2>2. N \in Nat /\ zf.major \in Nat /\ zf.flags \in Nat
    BY FileFacts DEF Complete, TypeOK
  <2>. QED
    BY <2>1, <2>2 DEF HeaderOf, Header
<1>3. ASSUME NEW k \in SlotIds
      PROVE  (IF k < N THEN SlotOf(k + 1) ELSE NoSlot(k)) \in Slot
  <2>1. CASE k < N
    <3>1. k + 1 \in 1 .. N
      BY <2>1, Places DEF SlotIds
    <3>2. Cut(start[k + 1]) \in Word /\ Cut(Size(k + 1)) \in Word
      BY <3>1, Places, CutFacts
    <3>3. zf.sections[k + 1].type \in SectionType /\ zf.sections[k + 1].body \in BodyVerdict
      BY <3>1, Places
    <3>. QED
      BY <2>1, <3>2, <3>3 DEF SlotOf, Slot
  <2>2. CASE ~ (k < N)
    <3>1. 0 \in Word /\ 0 \in SectionType /\ 255 \in SectionType /\ "ok" \in BodyVerdict
      BY DEF Word, SectionType, BodyVerdict
    <3>. QED
      BY <2>2, <3>1 DEF NoSlot, Slot
  <2>. QED
    BY <2>1, <2>2
<1>4. ASSUME NEW b \in Dirty
      PROVE  b \in Nat /\ HEADER_SIZE <= b /\ b < LayoutEnd
  <2>1. ASSUME NEW k \in 1 .. N, b = SlotAt(k - 1)
        PROVE  b \in Nat /\ HEADER_SIZE <= b /\ b < LayoutEnd
    BY <2>1, Places DEF SlotAt, INDEX_OFFSET, INDEX_ENTRY_SIZE, HEADER_SIZE
  <2>2. ASSUME NEW k \in 1 .. N, NEW c \in zf.sections[k].ink, b = put[k] + c
        PROVE  b \in Nat /\ HEADER_SIZE <= b /\ b < LayoutEnd
    <3>1. /\ put[k] \in Nat /\ c \in Nat
          /\ BodyStart <= put[k] + c /\ put[k] + c < LayoutEnd
      BY Places
    <3>2. BodyStart \in Nat /\ HEADER_SIZE <= BodyStart
      BY Places DEF SlotAt, INDEX_OFFSET, INDEX_ENTRY_SIZE, HEADER_SIZE
    <3>. QED
      BY <2>2, <3>1, <3>2, Places DEF HEADER_SIZE
  <2>. QED
    BY <2>1, <2>2, DirtyBytes
<1>5. ASSUME NEW k \in SlotIds
      PROVE  Encoded.slot[k].type # 0 <=> SlotAt(k) \in Dirty
  <2>1. CASE k < N
    <3>1. k + 1 \in 1 .. N /\ k \in Nat /\ SlotAt(k) < BodyStart
      BY <2>1, Places DEF SlotIds, SlotAt, INDEX_OFFSET, INDEX_ENTRY_SIZE
    <3>2. Encoded.slot[k].type = zf.sections[k + 1].type
      <4>1. Encoded.slot[k] = SlotOf(k + 1)
        BY <2>1, <1>1
      <4>. QED
        BY <4>1 DEF SlotOf
    <3>3. ASSUME zf.sections[k + 1].type # 0 PROVE SlotAt(k) \in Dirty
      <4>1. SlotAt(k) = SlotAt((k + 1) - 1)
        BY <3>1 DEF SlotAt
      <4>. QED
        BY <3>1, <3>3, <4>1 DEF Dirty
    <3>4. ASSUME SlotAt(k) \in Dirty PROVE zf.sections[k + 1].type # 0
      <4>1. CASE \E j \in 1 .. N : zf.sections[j].type # 0 /\ SlotAt(k) = SlotAt(j - 1)
        <5>1. PICK j \in 1 .. N : zf.sections[j].type # 0 /\ SlotAt(k) = SlotAt(j - 1)
          BY <4>1
        <5>2. j = k + 1
          BY <5>1, <3>1 DEF SlotAt, INDEX_OFFSET, INDEX_ENTRY_SIZE
        <5>. QED
          BY <5>1, <5>2
      <4>2. CASE \E j \in 1 .. N : \E c \in zf.sections[j].ink : SlotAt(k) = put[j] + c
        <5>0. PICK j \in 1 .. N : \E c \in zf.sections[j].ink : SlotAt(k) = put[j] + c
          BY <4>2
        <5>1. PICK c \in zf.sections[j].ink : SlotAt(k) = put[j] + c
          BY <5>0
        <5>2. BodyStart <= put[j] + c /\ put[j] \in Nat /\ c \in Nat /\ BodyStart \in Nat
          BY Places
        <5>. QED
          BY <5>1, <5>2, <3>1
      <4>. QED
        BY <3>4, <4>1, <4>2, DirtyBytes
    <3>. QED
      BY <3>2, <3>3, <3>4
  <2>2. CASE ~ (k < N)
    <3>1. Encoded.slot[k] = NoSlot(k)
      BY <2>2, <1>1
    <3>2. NoSlot(k).type = IF SlotAt(k) \in Dirty THEN 255 ELSE 0
      BY DEF NoSlot
    <3>. QED
      BY <3>1, <3>2
  <2>. QED
    BY <2>1, <2>2
<1>6. Coherent(Encoded)
  BY <1>1, <1>4, <1>5 DEF Coherent
<1>7. /\ cursor + TRAILER_SIZE \in Nat
      /\ [magic |-> TRUE, reserved |-> 0, hashOk |-> TRUE] \in Trailer
      /\ Dirty \in SUBSET Nat
      /\ [k \in SlotIds |-> IF k < N THEN SlotOf(k + 1) ELSE NoSlot(k)] \in [SlotIds -> Slot]
  <2>1. cursor + TRAILER_SIZE \in Nat
    BY Places DEF Complete, TRAILER_SIZE
  <2>2. [magic |-> TRUE, reserved |-> 0, hashOk |-> TRUE] \in Trailer
    BY DEF Trailer
  <2>3. Dirty \in SUBSET Nat
    BY <1>4
  <2>. QED
    BY <2>1, <2>2, <2>3, <1>3
<1>8. Encoded \in Image
  BY <1>2, <1>7 DEF Encoded, Image
<1>. QED
  BY <1>6, <1>8

LEMMA FinishStep ==
  ASSUME Inv, Finish
  PROVE  Inv'
<1>1. /\ pc = "finish" /\ Complete
      /\ zf' = zf /\ cursor' = cursor /\ start' = start /\ put' = put
      /\ pc' = "done" /\ img' = Encoded
  BY DEF Finish, Inv, Complete
<1>2. N' = N /\ BodyStart' = BodyStart /\ \A j : Size(j)' = Size(j)
  BY <1>1, SameContainer
<1>3. /\ Laid' /\ Written' /\ N' \in 1 .. MAX_SECTIONS
      /\ Len(put') = N' /\ cursor' = LayoutEnd'
  BY <1>1, <1>2 DEF Complete, Laid, Written, LayoutEnd
<1>4. Encoded' = Encoded
  BY <1>1 DEF Encoded, HeaderOf, SlotOf, NoSlot, Dirty, N, Size, BodyStart, LayoutEnd
<1>5. TypeOK'
  <2>1. TypeOK
    BY <1>1 DEF Complete
  <2>2. img' \in Image /\ Coherent(img')
    BY <1>1, EncodedIsImage
  <2>. QED
    BY <2>1, <2>2, <1>1 DEF TypeOK
<1>. QED
  BY <1>1, <1>3, <1>4, <1>5 DEF Inv, LoopsAgree

LEMMA NextInv == Inv /\ [Next]_vars => Inv'
<1>. SUFFICES ASSUME Inv, [Next]_vars PROVE Inv'
  OBVIOUS
<1>1. CASE CheckCount
  BY <1>1, CheckCountStep
<1>2. CASE LayOut
  BY <1>2, LayOutStep
<1>3. CASE WriteBody
  BY <1>3, WriteBodyStep
<1>4. CASE Finish
  BY <1>4, FinishStep
<1>5. CASE UNCHANGED vars
  <2>1. /\ zf' = zf /\ pc' = pc /\ cursor' = cursor /\ start' = start
        /\ put' = put /\ img' = img
    BY <1>5 DEF vars
  <2>2. N' = N /\ BodyStart' = BodyStart /\ \A k : Size(k)' = Size(k)
    BY <2>1, SameContainer
  <2>3. Encoded' = Encoded /\ LayoutEnd' = LayoutEnd
    BY <2>1 DEF Encoded, HeaderOf, SlotOf, NoSlot, Dirty, N, Size, BodyStart, LayoutEnd
  <2>4. TypeOK' <=> TypeOK
    BY <2>1 DEF TypeOK
  <2>5. (Laid' <=> Laid) /\ (Written' <=> Written) /\ (LoopsAgree' <=> LoopsAgree)
    BY <2>1, <2>2 DEF Laid, Written, LoopsAgree
  <2>. QED
    BY <2>1, <2>2, <2>3, <2>4, <2>5 DEF Inv
<1>. QED
  BY <1>1, <1>2, <1>3, <1>4, <1>5 DEF Next

\* The invariant holds in every state of the encoder.
THEOREM EncoderInvariant == Spec => []Inv
BY InitInv, NextInv, PTL DEF Spec

\* Every variable keeps its type; what is written is a file (an image some
\* byte string has).
THEOREM TypeCorrect == Spec => []TypeOK
<1>1. Inv => TypeOK
  BY DEF Inv
<1>. QED
  BY <1>1, EncoderInvariant, PTL

\* The two loops agree on the length: the assertion after the second never
\* fails, for bodies of any size.
THEOREM LoopsAlwaysAgree == Spec => []LoopsAgree
<1>1. Inv => LoopsAgree
  BY DEF Inv
<1>. QED
  BY <1>1, EncoderInvariant, PTL
----------------------------------------------------------------------------
(* The file and the parser's reference.                                    *)

\* The words of the file in terms of the layout.
LEMMA EncodedWords ==
  ASSUME Complete
  PROVE  /\ Sections(Encoded) = 0 .. N - 1
         /\ Encoded.head = HeaderOf /\ Encoded.dirty = Dirty
         /\ Encoded.head.count = N /\ Encoded.head.body_offset = BodyStart
         /\ TrailerAt(Encoded) = LayoutEnd
         /\ IndexEnd(Encoded) = BodyStart
         /\ BodyEnd(Encoded) = BodyStart + Cut(LayoutEnd - BodyStart)
         /\ \A k \in 0 .. N - 1 :
              /\ k + 1 \in 1 .. N /\ (k + 1) - 1 = k
              /\ Encoded.slot[k] = SlotOf(k + 1)
              /\ Encoded.slot[k].type = zf.sections[k + 1].type
              /\ Off(Encoded, k) = Cut(start[k + 1])
              /\ End(Encoded, k) = Cut(start[k + 1]) + Cut(Size(k + 1))
<1>1. /\ Encoded.head = HeaderOf /\ Encoded.dirty = Dirty
      /\ Encoded.len = LayoutEnd + TRAILER_SIZE
      /\ \A k \in SlotIds : Encoded.slot[k] = IF k < N THEN SlotOf(k + 1) ELSE NoSlot(k)
  BY DEF Encoded, Complete
<1>2. HeaderOf.count = N /\ HeaderOf.body_offset = BodyStart
  BY Places, CutFacts DEF HeaderOf
<1>3. TrailerAt(Encoded) = LayoutEnd
  BY <1>1, Places DEF TrailerAt, TRAILER_SIZE
<1>4. /\ IndexEnd(Encoded) = BodyStart
      /\ BodyEnd(Encoded) = BodyStart + Cut(LayoutEnd - BodyStart)
  BY <1>1, <1>2, Places DEF IndexEnd, BodyEnd, HeaderOf
<1>5. ASSUME NEW k \in 0 .. N - 1
      PROVE  /\ k + 1 \in 1 .. N /\ (k + 1) - 1 = k
             /\ Encoded.slot[k] = SlotOf(k + 1)
             /\ Encoded.slot[k].type = zf.sections[k + 1].type
             /\ Off(Encoded, k) = Cut(start[k + 1])
             /\ End(Encoded, k) = Cut(start[k + 1]) + Cut(Size(k + 1))
  <2>1. k + 1 \in 1 .. N /\ k \in SlotIds /\ k < N /\ (k + 1) - 1 = k
    BY Places DEF SlotIds
  <2>2. Encoded.slot[k] = SlotOf(k + 1)
    BY <2>1, <1>1
  <2>. QED
    BY <2>1, <2>2 DEF SlotOf, Off, End
<1>6. Sections(Encoded) = 0 .. N - 1
  BY <1>1, <1>2 DEF Sections
<1>. QED
  BY <1>1, <1>2, <1>3, <1>4, <1>5, <1>6

\* Nothing was cut.
Fits ==
  /\ \A k \in 1 .. N : start[k] < U32
  /\ LayoutEnd - BodyStart < U32

\* Where nothing was cut the file's geometry is the layout's.
LEMMA FittingWords ==
  ASSUME Complete, Fits
  PROVE  /\ BodyEnd(Encoded) = LayoutEnd
         /\ \A k \in 1 .. N :
              /\ Cut(start[k]) = start[k] /\ Cut(Size(k)) = Size(k)
              /\ put[k] = start[k]
              /\ SlotOf(k).crcOk
              /\ SectionFault(SlotOf(k)) = SectionFault(zf.sections[k])
         /\ \A k \in 0 .. N - 1 :
              /\ Off(Encoded, k) = start[k + 1]
              /\ End(Encoded, k) = start[k + 1] + Size(k + 1)
<1>1. LayoutEnd - BodyStart \in Nat /\ BodyStart \in Nat /\ LayoutEnd \in Nat
  BY Places
<1>2. BodyEnd(Encoded) = LayoutEnd
  BY <1>1, EncodedWords, CutFacts DEF Fits
<1>3. ASSUME NEW k \in 1 .. N
      PROVE  /\ Cut(start[k]) = start[k] /\ Cut(Size(k)) = Size(k)
             /\ put[k] = start[k]
             /\ SlotOf(k).crcOk
             /\ SectionFault(SlotOf(k)) = SectionFault(zf.sections[k])
  <2>1. /\ start[k] \in Nat /\ Size(k) \in Nat /\ put[k] \in Nat
        /\ BodyStart <= put[k] /\ put[k] <= start[k]
        /\ start[k] + Size(k) <= LayoutEnd /\ start[k] < U32
        /\ start[k] < U32 => put[k] = start[k]
    BY Places DEF Fits
  <2>2. Size(k) < U32
    BY <2>1, <1>1 DEF Fits
  <2>3. Cut(start[k]) = start[k] /\ Cut(Size(k)) = Size(k)
    BY <2>1, <2>2, CutFacts
  <2>4. SlotOf(k).crcOk
    BY <2>1, <2>2, <2>3 DEF SlotOf
  <2>5. /\ SlotOf(k).type = zf.sections[k].type /\ SlotOf(k).body = zf.sections[k].body
        /\ SlotOf(k).size = zf.sections[k].size
    BY <2>3 DEF SlotOf, Size
  <2>6. SectionFault(SlotOf(k)) = SectionFault(zf.sections[k])
    BY <2>5 DEF SectionFault
  <2>. QED
    BY <2>1, <2>3, <2>4, <2>6
<1>4. ASSUME NEW k \in 0 .. N - 1
      PROVE  /\ Off(Encoded, k) = start[k + 1]
             /\ End(Encoded, k) = start[k + 1] + Size(k + 1)
  <2>1. /\ k + 1 \in 1 .. N /\ Off(Encoded, k) = Cut(start[k + 1])
        /\ End(Encoded, k) = Cut(start[k + 1]) + Cut(Size(k + 1))
    BY EncodedWords
  <2>2. Cut(start[k + 1]) = start[k + 1] /\ Cut(Size(k + 1)) = Size(k + 1)
    BY <2>1, <1>3
  <2>. QED
    BY <2>1, <2>2
<1>. QED
  BY <1>2, <1>3, <1>4

\* Every non-zero byte of the file lies in a slot or in a body.
LEMMA EncodedAccounted ==
  ASSUME Complete, Fits
  PROVE  Accounted(Encoded)
<1>. SUFFICES ASSUME NEW b \in Dirty PROVE Owners(Encoded, b) # {}
  BY EncodedWords DEF Accounted
<1>1. ASSUME NEW k \in 1 .. N, b = SlotAt(k - 1)
      PROVE  k - 1 \in Owners(Encoded, b)
  <2>1. /\ k - 1 \in 0 .. N - 1
        /\ SlotAt(k - 1) <= b /\ b < SlotAt((k - 1) + 1)
    BY <1>1, Places DEF SlotAt, INDEX_OFFSET, INDEX_ENTRY_SIZE
  <2>. QED
    BY <2>1, EncodedWords DEF Owners
<1>2. ASSUME NEW k \in 1 .. N, NEW c \in zf.sections[k].ink, b = put[k] + c
      PROVE  MAX_SECTIONS + (k - 1) \in Owners(Encoded, b)
  <2>1. /\ k - 1 \in 0 .. N - 1 /\ (k - 1) + 1 = k /\ start[k] \in Nat /\ Size(k) \in Nat
    BY Places
  <2>2. c \in Nat /\ c < Size(k)
    BY FileFacts DEF Complete, TypeOK
  <2>3. put[k] = start[k]
    BY FittingWords
  <2>4. Off(Encoded, k - 1) = start[k] /\ End(Encoded, k - 1) = start[k] + Size(k)
    BY <2>1, FittingWords
  <2>5. Off(Encoded, k - 1) <= b /\ b < End(Encoded, k - 1)
    BY <1>2, <2>1, <2>2, <2>3, <2>4
  <2>6. k - 1 \in {j \in Sections(Encoded) : Off(Encoded, j) <= b /\ b < End(Encoded, j)}
    BY <2>1, <2>5, EncodedWords
  <2>. QED
    BY <2>6 DEF Owners
<1>. QED
  BY <1>1, <1>2, DirtyBytes

\* Sections do not overlap, and no two share an offset unless one is empty.
LEMMA EncodedOrdered ==
  ASSUME Complete, Fits, OnlyLastEmpty
  PROVE  Ordered(Encoded)
<1>. SUFFICES ASSUME NEW j \in 0 .. N - 1, NEW k \in 0 .. N - 1, j < k
              PROVE  /\ Off(Encoded, j) < Off(Encoded, k)
                     /\ End(Encoded, j) <= Off(Encoded, k)
  BY EncodedWords DEF Ordered
<1>1. /\ j + 1 \in 1 .. N /\ k + 1 \in 1 .. N /\ j + 1 < k + 1 /\ j + 1 \in 1 .. N - 1
  BY Places
<1>2. start[j + 1] + Size(j + 1) <= start[k + 1]
  <2>1. DOMAIN start = 1 .. N
    BY StartFacts DEF Complete, Written
  <2>. QED
    BY <2>1, <1>1 DEF Complete, Laid
<1>3. start[j + 1] \in Nat /\ Size(j + 1) \in Nat /\ start[k + 1] \in Nat
  BY <1>1, Places
<1>4. Size(j + 1) > 0
  BY <1>1 DEF OnlyLastEmpty
<1>5. /\ Off(Encoded, j) = start[j + 1] /\ Off(Encoded, k) = start[k + 1]
      /\ End(Encoded, j) = start[j + 1] + Size(j + 1)
  BY FittingWords
<1>. QED
  BY <1>2, <1>3, <1>4, <1>5

\* A layout that ends within the words fits them.
LEMMA EncodableFits ==
  ASSUME Complete, LayoutEnd < U32
  PROVE  Fits
<1>1. /\ BodyStart \in Nat /\ LayoutEnd \in Nat
      /\ \A k \in 1 .. N : /\ start[k] \in Nat /\ Size(k) \in Nat
                            /\ start[k] + Size(k) <= LayoutEnd
  BY Places
<1>. QED
  BY <1>1 DEF Fits

\* An encodable container becomes a file the parser accepts.
LEMMA EncodableIsParseable ==
  ASSUME Complete, Encodable
  PROVE  Parseable(Encoded)
<1>0. Fits /\ LayoutEnd < U32
  BY EncodableFits DEF Encodable, Representable
<1>1. /\ Fits /\ OnlyLastEmpty /\ zf.major = 1 /\ zf.flags = 0
      /\ \A k \in 1 .. N : ~ Forbidden(zf.sections[k].type)
      /\ \A j, k \in 1 .. N : j # k => zf.sections[j].type # zf.sections[k].type
      /\ \A t \in Mandatory : \E k \in 1 .. N : zf.sections[k].type = t
      /\ \A k \in 1 .. N : SectionFault(zf.sections[k]) = "ok"
  BY <1>0 DEF Encodable, Representable
<1>2. HeaderValid(Encoded.head)
  <2>1. Cut(BodyStart) = BodyStart /\ BodyStart % 8 = 0 /\ N \in 1 .. MAX_SECTIONS
    BY Places, CutFacts DEF Complete
  <2>. QED
    BY <1>1, <2>1, EncodedWords DEF HeaderOf, HeaderValid
<1>3. GeometryValid(Encoded)
  <2>1. /\ 0 \in 0 .. N - 1 /\ N - 1 \in 0 .. N - 1 /\ 0 + 1 = 1 /\ (N - 1) + 1 = N
    BY Places
  <2>2. Off(Encoded, 0) = BodyStart
    BY <1>1, <2>1, FittingWords, Places
  <2>3. End(Encoded, N - 1) = start[N] + Size(N)
    BY <1>1, <2>1, FittingWords
  <2>4. AlignUp(End(Encoded, Encoded.head.count - 1)) = LayoutEnd
    BY <2>3, EncodedWords DEF LayoutEnd
  <2>5. BodyEnd(Encoded) = LayoutEnd
    BY <1>1, FittingWords
  <2>. QED
    BY <2>2, <2>4, <2>5, EncodedWords, Places DEF GeometryValid
<1>4. ASSUME NEW k \in 0 .. N - 1
      PROVE  EntryValid(Encoded.slot[k]) /\ BodyValid(Encoded.slot[k])
  <2>1. k + 1 \in 1 .. N /\ Encoded.slot[k] = SlotOf(k + 1)
    BY EncodedWords
  <2>2. Cut(start[k + 1]) = start[k + 1] /\ start[k + 1] % 8 = 0
    BY <1>1, <2>1, FittingWords, Places
  <2>3. EntryValid(SlotOf(k + 1))
    BY <1>1, <2>1, <2>2 DEF EntryValid, SlotOf
  <2>4. BodyValid(SlotOf(k + 1))
    BY <1>1, <2>1, FittingWords DEF BodyValid
  <2>. QED
    BY <2>1, <2>3, <2>4
<1>5. Distinct(Encoded)
  <2>. SUFFICES ASSUME NEW j \in 0 .. N - 1, NEW k \in 0 .. N - 1, j # k
                PROVE  Encoded.slot[j].type # Encoded.slot[k].type
    BY EncodedWords DEF Distinct
  <2>1. j + 1 \in 1 .. N /\ k + 1 \in 1 .. N /\ j + 1 # k + 1
    BY Places
  <2>. QED
    BY <1>1, <2>1, EncodedWords
<1>6. \A t \in Mandatory : \E k \in 0 .. N - 1 : Encoded.slot[k].type = t
  <2>. SUFFICES ASSUME NEW t \in Mandatory
                PROVE  \E k \in 0 .. N - 1 : Encoded.slot[k].type = t
    OBVIOUS
  <2>1. PICK k \in 1 .. N : zf.sections[k].type = t
    BY <1>1
  <2>2. k - 1 \in 0 .. N - 1 /\ (k - 1) + 1 = k
    BY Places
  <2>3. Encoded.slot[k - 1].type = zf.sections[(k - 1) + 1].type
    BY <2>2, EncodedWords
  <2>. QED
    BY <2>1, <2>2, <2>3
<1>7. TrailerValid(Encoded)
  BY DEF TrailerValid, Encoded
<1>8. Accounted(Encoded) /\ Ordered(Encoded)
  BY <1>1, EncodedAccounted, EncodedOrdered
<1>9. Valid(Encoded)
  BY <1>2, <1>3, <1>4, <1>5, <1>6, <1>7, <1>8, EncodedWords DEF Valid
<1>10. BodyEnd(Encoded) = LayoutEnd
  BY <1>0, FittingWords
<1>. QED
  BY <1>0, <1>9, <1>10 DEF Parseable

\* In a valid file nothing was cut: a cut offset falls before the first body.
LEMMA ValidFits ==
  ASSUME Complete, Valid(Encoded)
  PROVE  Fits
<1>1. LayoutEnd - BodyStart < U32
  <2>1. BodyStart + Cut(LayoutEnd - BodyStart) = LayoutEnd
    BY EncodedWords DEF Valid, GeometryValid
  <2>2. LayoutEnd - BodyStart \in Nat /\ BodyStart \in Nat /\ LayoutEnd \in Nat
    BY Places
  <2>3. Cut(LayoutEnd - BodyStart) \in Word /\ Cut(LayoutEnd - BodyStart) \in Nat
    BY <2>2, CutFacts
  <2>. QED
    BY <2>1, <2>2, <2>3 DEF Word
<1>2. ASSUME NEW k \in 1 .. N, ~ (start[k] < U32) PROVE FALSE
  <2>1. /\ start[k] \in Nat /\ Size(k) \in Nat /\ start[k] + Size(k) <= LayoutEnd
        /\ BodyStart \in Nat /\ BodyStart < U32 /\ LayoutEnd \in Nat
        /\ start[1] = BodyStart
    BY Places
  <2>2. U32 <= start[k] /\ start[k] < U32 + U32 /\ start[k] - U32 < BodyStart
    BY <1>1, <1>2, <2>1
  <2>3. Cut(start[k]) = start[k] - U32
    BY <2>1, <2>2, CutFacts
  <2>4. Cut(BodyStart) = BodyStart
    BY <2>1, CutFacts
  <2>5. k # 1
    BY <1>2, <2>1
  <2>6. /\ 0 \in 0 .. N - 1 /\ k - 1 \in 0 .. N - 1 /\ 0 < k - 1
        /\ 0 + 1 = 1 /\ (k - 1) + 1 = k
    BY <2>5, Places
  <2>7. Off(Encoded, 0) < Off(Encoded, k - 1)
    BY <2>6, EncodedWords DEF Valid, Ordered
  <2>8. Off(Encoded, 0) = BodyStart /\ Off(Encoded, k - 1) = Cut(start[k])
    BY <2>1, <2>4, <2>6, EncodedWords
  <2>. QED
    BY <2>1, <2>2, <2>3, <2>7, <2>8
<1>. QED
  BY <1>1, <1>2 DEF Fits

\* Only encodable containers become files the parser accepts.
LEMMA ParseableIsEncodable ==
  ASSUME Complete, Parseable(Encoded)
  PROVE  Encodable
<1>0. Valid(Encoded) /\ BodyEnd(Encoded) < U32
  BY DEF Parseable
<1>1. Fits
  BY <1>0, ValidFits
<1>2. zf.major = 1 /\ zf.flags = 0
  BY <1>0, EncodedWords DEF Valid, HeaderValid, HeaderOf
<1>3. ASSUME NEW k \in 1 .. N
      PROVE  /\ ~ Forbidden(zf.sections[k].type)
             /\ SectionFault(zf.sections[k]) = "ok"
  <2>1. k - 1 \in 0 .. N - 1 /\ (k - 1) + 1 = k
    BY Places
  <2>2. EntryValid(Encoded.slot[k - 1]) /\ BodyValid(Encoded.slot[k - 1])
    BY <1>0, <2>1, EncodedWords DEF Valid
  <2>3. Encoded.slot[k - 1] = SlotOf(k)
    BY <2>1, EncodedWords
  <2>4. SectionFault(SlotOf(k)) = "ok" /\ ~ Forbidden(SlotOf(k).type)
    BY <2>2, <2>3 DEF EntryValid, BodyValid
  <2>. QED
    BY <1>1, <2>4, FittingWords DEF SlotOf
<1>4. ASSUME NEW j \in 1 .. N, NEW k \in 1 .. N, j # k
      PROVE  zf.sections[j].type # zf.sections[k].type
  <2>1. /\ j - 1 \in 0 .. N - 1 /\ (j - 1) + 1 = j
        /\ k - 1 \in 0 .. N - 1 /\ (k - 1) + 1 = k /\ j - 1 # k - 1
    BY <1>4, Places
  <2>2. Encoded.slot[j - 1].type # Encoded.slot[k - 1].type
    BY <1>0, <2>1, EncodedWords DEF Valid, Distinct
  <2>3. /\ Encoded.slot[j - 1].type = zf.sections[j].type
        /\ Encoded.slot[k - 1].type = zf.sections[k].type
    BY <2>1, EncodedWords
  <2>. QED
    BY <2>2, <2>3
<1>5. ASSUME NEW t \in Mandatory
      PROVE  \E k \in 1 .. N : zf.sections[k].type = t
  <2>1. PICK k \in 0 .. N - 1 : Encoded.slot[k].type = t
    BY <1>0, EncodedWords DEF Valid
  <2>2. k + 1 \in 1 .. N /\ zf.sections[k + 1].type = t
    BY <2>1, EncodedWords
  <2>. QED
    BY <2>2
<1>6. ASSUME NEW k \in 1 .. N - 1, ~ (Size(k) > 0) PROVE FALSE
  <2>1. /\ k \in 1 .. N /\ k + 1 \in 1 .. N /\ k - 1 \in 0 .. N - 1 /\ k \in 0 .. N - 1
        /\ k - 1 < k /\ (k - 1) + 1 = k
    BY Places
  <2>2. start[k] \in Nat /\ start[k] % 8 = 0 /\ Size(k) = 0
    BY <1>6, <2>1, Places
  <2>3. start[k + 1] = AlignUp(start[k] + Size(k))
    <3>1. DOMAIN start = 1 .. N
      BY StartFacts DEF Complete, Written
    <3>. QED
      BY <3>1, <2>1 DEF Complete, Laid
  <2>4. start[k + 1] = start[k]
    BY <2>2, <2>3, AlignUpFacts
  <2>5. Off(Encoded, k - 1) < Off(Encoded, k)
    BY <1>0, <2>1, EncodedWords DEF Valid, Ordered
  <2>6. Off(Encoded, k - 1) = start[k] /\ Off(Encoded, k) = start[k + 1]
    BY <1>1, <2>1, FittingWords
  <2>. QED
    BY <2>2, <2>4, <2>5, <2>6
<1>7. OnlyLastEmpty
  BY <1>6 DEF OnlyLastEmpty
<1>8. Representable
  <2>1. LayoutEnd < U32
    BY <1>0, <1>1, FittingWords
  <2>. QED
    BY <2>1, <1>2, <1>3, <1>4, <1>5 DEF Representable
<1>. QED
  BY <1>7, <1>8 DEF Encodable

\* The file written is the encoding of the container.
LEMMA DoneIsComplete ==
  ASSUME Inv, pc = "done"
  PROVE  Complete /\ img = Encoded
BY DEF Inv, Complete

\* encode writes a file the parser accepts (ParserAcceptsExactly) exactly for
\* the encodable containers: those the format has room for, with no empty
\* section but the last, whose layout ends within 32-bit words.
THEOREM EncodesExactlyTheEncodable == Spec => []ParseableIffEncodable
<1>1. Inv => ParseableIffEncodable
  BY DoneIsComplete, EncodableIsParseable, ParseableIsEncodable DEF ParseableIffEncodable
<1>. QED
  BY <1>1, EncoderInvariant, PTL

\* In the file of an encodable container every slot has the type and the size
\* of its section and points at the bytes of its body.
THEOREM RoundTrip == Spec => []SectionsSurvive
<1>1. ASSUME Inv, pc = "done", Encodable
      PROVE  /\ img.head.count = N
             /\ \A k \in 1 .. N :
                  /\ img.slot[k - 1].type = zf.sections[k].type
                  /\ Off(img, k - 1) = put[k]
                  /\ img.slot[k - 1].size = Size(k)
  <2>1. Complete /\ img = Encoded /\ Fits
    BY <1>1, DoneIsComplete, EncodableFits DEF Encodable, Representable
  <2>2. ASSUME NEW k \in 1 .. N
        PROVE  /\ img.slot[k - 1].type = zf.sections[k].type
               /\ Off(img, k - 1) = put[k]
               /\ img.slot[k - 1].size = Size(k)
    <3>1. k - 1 \in 0 .. N - 1 /\ (k - 1) + 1 = k
      BY <2>1, Places
    <3>2. Encoded.slot[k - 1] = SlotOf(k) /\ Off(Encoded, k - 1) = start[k]
      BY <2>1, <3>1, EncodedWords, FittingWords
    <3>3. put[k] = start[k] /\ Cut(Size(k)) = Size(k)
      BY <2>1, FittingWords
    <3>. QED
      BY <2>1, <3>2, <3>3 DEF SlotOf
  <2>. QED
    BY <2>1, <2>2, EncodedWords
<1>2. Inv => SectionsSurvive
  BY <1>1 DEF SectionsSurvive
<1>. QED
  BY <1>2, EncoderInvariant, PTL
----------------------------------------------------------------------------
(* INTERFACE bodies: what holds of every section and of every body          *)
(* (ZacInterface_proofs), of those of the container.                        *)

LEMMA InterfacesAreSections ==
  ASSUME TypeOK
  PROVE  \A i \in Interfaces : i \in InterfaceSection
<1>1. \A k \in 1 .. N : zf.sections[k] \in Section
  BY FileFacts DEF TypeOK
<1>2. \A k \in 1 .. N : zf.sections[k].iface \in InterfaceSection
  BY <1>1 DEF Section
<1>. QED
  BY <1>2 DEF Interfaces

\* Whatever containers are encoded, the names of an INTERFACE come back from
\* its body exactly if the body has room for the section.
THEOREM InterfaceNamesSurvive == Spec => []NamesSurvive
<1>1. ASSUME TypeOK PROVE NamesSurvive
  <2>1. SUFFICES ASSUME NEW i \in Interfaces
        PROVE  LET read == ParseInterface(EncodeInterface(i)) IN
               (read.res = "ok" /\ read.names = i.names) <=> Framable(i)
    BY DEF NamesSurvive
  <2>2. i \in InterfaceSection
    BY <1>1, InterfacesAreSections
  <2>. QED
    BY <2>2, NamesComeBack
<1>. QED
  BY <1>1, TypeCorrect, PTL

\* Whatever containers are encoded, an INTERFACE body that parse_interface
\* accepts is what encode_body writes of the section read from it.
THEOREM InterfaceBodiesAreCanonical == Spec => []AcceptedBodyIsCanonical
<1>1. ASSUME TypeOK PROVE AcceptedBodyIsCanonical
  <2>1. SUFFICES ASSUME NEW i \in Interfaces,
                        ParseInterface(EncodeInterface(i)).res = "ok"
        PROVE  LET read == ParseInterface(EncodeInterface(i)) IN
               EncodeInterface([public_input_count |-> read.public_input_count,
                                names |-> read.names]) = EncodeInterface(i)
    BY DEF AcceptedBodyIsCanonical
  <2>2. i \in InterfaceSection
    BY <1>1, InterfacesAreSections
  <2>3. EncodeInterface(i) \in Seq(Byte)
    BY <2>2, CountSurvives
  <2>. QED
    BY <2>1, <2>3, AcceptedIsCanonical DEF SectionOf
<1>. QED
  BY <1>1, TypeCorrect, PTL
=============================================================================
