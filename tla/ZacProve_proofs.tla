-------------------------- MODULE ZacProve_proofs --------------------------
(***************************************************************************)
(* Proofs about parse_zkey, parse_wtns and prove_with_rng, for keys and    *)
(* witnesses of every size and word widths of any kind.                    *)
(***************************************************************************)
EXTENDS ZacProve, RootsOfUnity_proofs, TLAPS

USE U32IsPositive, U64IsNatural, MaxPublicInputsAssumption

\* What both kinds of file have in common.
Binfile(f) ==
  /\ f.len \in Nat /\ f.magic \in BOOLEAN /\ f.n_sections \in Nat
  /\ f.heads \in Seq(Place)
  /\ Coherent(f) /\ FitsMemory(f)

\* What a result other than a proof says of the job.
Explains(c, j) ==
  /\ c \in Codes \cup Stuck
  /\ ~ Provable(j)
  /\ c \in Stuck =>
       IF FilesValid(j) THEN Degenerate(j.zkey.groth)
       ELSE Wraps(j.zkey) \/ CutShort(j.zkey) \/ Wraps(j.wtns)
  /\ c = "E017" => j.zkey.groth.domain_size > MAX_DOMAIN
  /\ c = "E014" => Provable([j EXCEPT !.zac.sameVk = TRUE])

ParserCodes == {"E001", "E003", "E010", "E011", "E012", "E013", "E015", "E016", "PANIC"}
----------------------------------------------------------------------------
(* Faults.                                                                 *)

\* The code a stage returns is that of a fault no other comes before.
LEMMA EarliestFault ==
  ASSUME NEW S, NEW c \in Earliest(S)
  PROVE  \E x \in S : x.code = c /\ \A y \in S : x.rank <= y.rank
BY DEF Earliest

LEMMA MaxDomainIsNat == MAX_DOMAIN \in Nat
BY MaxDomainAssumption

----------------------------------------------------------------------------
(* Types.                                                                  *)

LEMMA ZkeyParts ==
  ASSUME NEW f \in Zkey
  PROVE  /\ f.len \in Nat /\ f.magic \in BOOLEAN /\ f.n_sections \in Nat
         /\ f.heads \in Seq(Place) /\ f.proto \in Nat
         /\ f.groth \in Groth /\ f.n_coefs \in Word /\ f.n_coefs \in Nat
         /\ f.rows \in [Counts -> Row]
         /\ f.points \in [PointSections -> [Counts -> Point]]
BY DEF Zkey, Word

LEMMA GrothParts ==
  ASSUME NEW g \in Groth
  PROVE  /\ g.n8q \in BOOLEAN /\ g.q \in BOOLEAN /\ g.n8r \in BOOLEAN /\ g.r \in BOOLEAN
         /\ g.n_vars \in Nat /\ g.n_public \in Nat /\ g.domain_size \in Nat
         /\ g.n_vars < U32 /\ g.n_public < U32 /\ g.domain_size < U32
         /\ g.vk \in [1 .. 6 -> Point]
BY DEF Groth, Word

LEMMA WtnsParts ==
  ASSUME NEW f \in Wtns
  PROVE  /\ f.len \in Nat /\ f.magic \in BOOLEAN /\ f.n_sections \in Nat
         /\ f.heads \in Seq(Place) /\ f.n8 \in BOOLEAN /\ f.prime \in BOOLEAN
         /\ f.n_witness \in Nat /\ f.n_witness < U32
         /\ f.values \in [Counts -> Value]
BY DEF Wtns, Word

LEMMA JobParts ==
  ASSUME NEW j \in Job
  PROVE  /\ j.checks \in BOOLEAN /\ j.zkey \in Zkey /\ j.wtns \in Wtns
         /\ j.zac \in Container /\ j.made \in Made /\ j.pairing \in BOOLEAN
         /\ j.zac.hasVkey \in BOOLEAN /\ j.zac.sameVk \in BOOLEAN
         /\ j.zac.hasInterface \in BOOLEAN /\ j.zac.count \in Nat
         /\ j.zkey.groth \in Groth
<1>1. /\ j.checks \in BOOLEAN /\ j.zkey \in Zkey /\ j.wtns \in Wtns
      /\ j.zac \in Container /\ j.made \in Made /\ j.pairing \in BOOLEAN
  BY DEF Job
<1>2. /\ j.zac.hasVkey \in BOOLEAN /\ j.zac.sameVk \in BOOLEAN
      /\ j.zac.hasInterface \in BOOLEAN /\ j.zac.count \in Nat
  BY <1>1 DEF Container
<1>. QED
  BY <1>1, <1>2, ZkeyParts

LEMMA JobFiles ==
  ASSUME NEW j \in Job, Readable(j)
  PROVE  Binfile(j.zkey) /\ Binfile(j.wtns)
BY JobParts, ZkeyParts, WtnsParts DEF Binfile, Readable

----------------------------------------------------------------------------
(* The section table.                                                      *)

\* A header is a place in the file; its words are numbers.
LEMMA HeadParts ==
  ASSUME NEW f, Binfile(f), NEW k \in DOMAIN f.heads
  PROVE  /\ f.heads[k] \in Place
         /\ f.heads[k].at \in Nat /\ f.heads[k].id \in Nat /\ f.heads[k].size \in Nat
         /\ BodyAt(f.heads[k]) \in Nat /\ EndOf(f.heads[k]) \in Nat
         /\ EndOf(f.heads[k]) = BodyAt(f.heads[k]) + f.heads[k].size
         /\ BodyAt(f.heads[k]) <= f.len
         /\ U64 > 0 /\ EndOf(f.heads[k]) % U64 \in Nat
<1>1. f.heads[k] \in Place
  BY DEF Binfile
<1>2. /\ f.heads[k].at \in Nat /\ f.heads[k].id \in Nat
      /\ f.heads[k].size \in 0 .. U64 - 1
  BY <1>1 DEF Place
<1>3. f.heads[k].size \in Nat /\ U64 > 0
  BY <1>2
<1>4. BodyAt(f.heads[k]) \in Nat /\ EndOf(f.heads[k]) \in Nat
  BY <1>2, <1>3 DEF BodyAt, EndOf, SECTION_PREFIX
<1>5. BodyAt(f.heads[k]) <= f.len
  BY DEF Binfile, Coherent
<1>6. EndOf(f.heads[k]) % U64 \in Nat
  BY <1>3, <1>4
<1>. QED
  BY <1>1, <1>2, <1>3, <1>4, <1>5, <1>6 DEF EndOf

\* A sum below 2^64 is its own remainder.
LEMMA SmallRemainder ==
  ASSUME NEW a \in Nat, NEW m \in Nat, a < m
  PROVE  a % m = a
OBVIOUS

\* A section that does not leave the 64 bits ends in the file.
LEMMA EndsInFile ==
  ASSUME NEW f, Binfile(f), NEW k \in DOMAIN f.heads,
         EndOf(f.heads[k]) % U64 <= f.len, ~ Overflows(f.heads[k])
  PROVE  EndOf(f.heads[k]) <= f.len
<1>1. EndOf(f.heads[k]) \in Nat /\ EndOf(f.heads[k]) < U64
  BY HeadParts DEF Overflows
<1>2. EndOf(f.heads[k]) % U64 = EndOf(f.heads[k])
  BY <1>1, SmallRemainder
<1>. QED
  BY <1>2

\* A size that a count of 32 bits stands for does not leave the 64 bits.
LEMMA CountedSizesFit ==
  ASSUME NEW f, Binfile(f), NEW k \in DOMAIN f.heads,
         f.heads[k].size <= SNARKJS_G2_BYTES * U32
  PROVE  ~ Overflows(f.heads[k])
BY HeadParts, SMTT(20) DEF Binfile, FitsMemory, Overflows, SNARKJS_G2_BYTES

\* Of two sections with one id only one is the first.
LEMMA FirstIsOne ==
  ASSUME NEW f, Binfile(f), NEW id, NEW k, NEW l, First(f, id, k), First(f, id, l)
  PROVE  k = l
<1>1. k \in Nat /\ l \in Nat /\ k >= 1 /\ l >= 1
  BY DEF First, Binfile
<1>. QED
  BY <1>1 DEF First

LEMMA PrefixStage ==
  ASSUME NEW f, Binfile(f), NEW checks
  PROVE  /\ PrefixFaults(f) = {} => f.len >= BINFILE_PREFIX /\ f.magic
         /\ \A x \in PrefixFaults(f) :
              x.code \in {"E001", "E015"} /\ ~ TableValid(f, checks)
<1>1. ASSUME PrefixFaults(f) = {}  PROVE f.len >= BINFILE_PREFIX /\ f.magic
  <2>1. ~ (f.len < BINFILE_PREFIX) /\ f.magic
    BY <1>1, Zenon DEF PrefixFaults, Fault
  <2>. QED
    BY <2>1 DEF Binfile, BINFILE_PREFIX
<1>2. ASSUME NEW x \in PrefixFaults(f)
      PROVE  x.code \in {"E001", "E015"} /\ ~ TableValid(f, checks)
  BY <1>2 DEF PrefixFaults, Fault, TableValid, Binfile, BINFILE_PREFIX
<1>. QED
  BY <1>1, <1>2

\* A round of the table loop without a header in the file: the table is short.
LEMMA NoRoomStage ==
  ASSUME NEW f, Binfile(f), NEW checks, NEW n \in Nat, n # f.n_sections,
         n <= Len(f.heads), NoRoom(f, NextAt(f, n)) # {}
  PROVE  /\ Len(f.heads) < f.n_sections
         /\ ~ TableValid(f, checks)
<1>1. NextAt(f, n) + SECTION_PREFIX > f.len
  BY DEF NoRoom, Fault
<1>2. CASE n = Len(f.heads)
  BY <1>2 DEF Binfile, Coherent, TableValid
<1>3. CASE n # Len(f.heads)
  <2>1. n + 1 \in DOMAIN f.heads /\ (n + 1) - 1 = n
    BY <1>3 DEF Binfile
  <2>2. f.heads[n + 1].at = NextAt(f, n) /\ BodyAt(f.heads[n + 1]) <= f.len
    BY <2>1 DEF Binfile, Coherent
  <2>3. FALSE
    BY <1>1, <2>1, <2>2, HeadParts DEF BodyAt, Binfile
  <2>. QED
    BY <2>3
<1>. QED
  BY <1>2, <1>3

\* A round that finds room finds the next header there.
LEMMA RoomForHeader ==
  ASSUME NEW f, Binfile(f), NEW n \in Nat, n # f.n_sections, n <= Len(f.heads),
         NoRoom(f, NextAt(f, n)) = {}
  PROVE  n + 1 \in DOMAIN f.heads
<1>1. ~ (NextAt(f, n) + SECTION_PREFIX > f.len)
  BY Zenon DEF NoRoom, Fault
<1>2. Len(f.heads) <= f.n_sections
  BY DEF Binfile, Coherent
<1>3. CASE n = Len(f.heads)
  BY <1>1, <1>2, <1>3 DEF Binfile, Coherent
<1>4. CASE n # Len(f.heads)
  BY <1>4 DEF Binfile
<1>. QED
  BY <1>3, <1>4

\* What the comparison of a size shows of the header.
LEMMA SizeStage ==
  ASSUME NEW f, Binfile(f), NEW checks \in BOOLEAN, NEW k \in DOMAIN f.heads
  PROVE  /\ SizeFaults(f, f.heads[k], checks) = {} =>
              /\ EndOf(f.heads[k]) % U64 <= f.len
              /\ checks => ~ Overflows(f.heads[k])
         /\ \A x \in SizeFaults(f, f.heads[k], checks) :
              /\ x.code \in {"PANIC", "E015"}
              /\ ~ TableValid(f, checks)
              /\ x.code = "PANIC" => Wraps(f)
<1>1. ASSUME SizeFaults(f, f.heads[k], checks) = {}
      PROVE  /\ EndOf(f.heads[k]) % U64 <= f.len
             /\ checks => ~ Overflows(f.heads[k])
  <2>1. /\ ~ (EndOf(f.heads[k]) % U64 > f.len)
        /\ checks => ~ Overflows(f.heads[k])
    BY <1>1, Zenon DEF SizeFaults, Fault
  <2>. QED
    BY <2>1, HeadParts DEF Binfile
<1>2. ASSUME NEW x \in SizeFaults(f, f.heads[k], checks)
      PROVE  /\ x.code \in {"PANIC", "E015"}
             /\ ~ TableValid(f, checks)
             /\ x.code = "PANIC" => Wraps(f)
  <2>1. /\ x.code \in {"PANIC", "E015"}
        /\ \/ checks /\ Overflows(f.heads[k])
           \/ x.code # "PANIC" /\ EndOf(f.heads[k]) % U64 > f.len
    BY <1>2 DEF SizeFaults, Fault
  <2>2. ~ TableValid(f, checks)
    BY <2>1, HeadParts DEF TableValid, Binfile
  <2>. QED
    BY <2>1, <2>2 DEF Wraps
<1>. QED
  BY <1>1, <1>2

\* One more round: the cursor is where the next header has to be, and of the
\* sections of one id the first stays the one found.
LEMMA TableRound ==
  ASSUME NEW f, Binfile(f), NEW checks \in BOOLEAN, NEW n \in Nat, NEW s,
         n + 1 \in DOMAIN f.heads,
         TableKnown(f, checks, NextAt(f, n), n), FoundKnown(f, s, n),
         SizeFaults(f, f.heads[n + 1], checks) = {}
  PROVE  /\ TableKnown(f, checks, EndOf(f.heads[n + 1]) % U64, n + 1)
         /\ FoundKnown(f, Note(s, f.heads[n + 1]), n + 1)
<1> DEFINE h == f.heads[n + 1]
<1> DEFINE t == Note(s, h)
<1>1. n + 1 <= Len(f.heads) /\ 1 .. (n + 1) = (1 .. n) \cup {n + 1}
      /\ n + 1 # 0 /\ Len(f.heads) \in Nat /\ DOMAIN f.heads = 1 .. Len(f.heads)
  BY DEF Binfile
<1>2. TableKnown(f, checks, EndOf(f.heads[n + 1]) % U64, n + 1)
  BY <1>1, SizeStage DEF TableKnown, NextAt
<1>3. DOMAIN t = DOMAIN s \cup {h.id}
  BY DEF Note
<1>4. DOMAIN t = {f.heads[k].id : k \in 1 .. n + 1}
  BY <1>1, <1>3 DEF FoundKnown
<1>5. ASSUME NEW id \in DOMAIN t
      PROVE  \E k \in 1 .. n + 1 : First(f, id, k) /\ t[id] = SectionRef(f.heads[k])
  <2>1. CASE id \in DOMAIN s
    <3>1. t[id] = s[id]
      BY <2>1 DEF Note
    <3>. QED
      BY <1>1, <2>1, <3>1 DEF FoundKnown
  <2>2. CASE id \notin DOMAIN s
    <3>1. id = h.id /\ t[id] = SectionRef(h)
      BY <1>3, <2>2 DEF Note
    <3>2. \A k \in 1 .. (n + 1) - 1 : f.heads[k].id # id
      BY <2>2 DEF FoundKnown
    <3>3. First(f, id, n + 1)
      BY <3>1, <3>2 DEF First
    <3>. QED
      BY <1>1, <3>1, <3>3
  <2>. QED
    BY <2>1, <2>2
<1>. QED
  BY <1>2, <1>4, <1>5 DEF FoundKnown

\* The last round done, the table is valid and no section is overlooked.
LEMMA TableDone ==
  ASSUME NEW f, Binfile(f), NEW checks, NEW c, NEW s,
         f.len >= BINFILE_PREFIX, f.magic,
         TableKnown(f, checks, c, f.n_sections), FoundKnown(f, s, f.n_sections)
  PROVE  TableValid(f, checks) /\ Len(f.heads) = f.n_sections
<1>1. Len(f.heads) \in Nat /\ DOMAIN f.heads = 1 .. Len(f.heads)
  BY DEF Binfile
<1>2. Len(f.heads) = f.n_sections
  BY <1>1 DEF TableKnown, Binfile, Coherent
<1>. QED
  BY <1>1, <1>2 DEF TableValid, TableKnown

\* find_section after the loop.
LEMMA Found ==
  ASSUME NEW f, Binfile(f), NEW s, FoundKnown(f, s, f.n_sections), NEW id \in DOMAIN s
  PROVE  \E k \in DOMAIN f.heads : First(f, id, k) /\ s[id] = SectionRef(f.heads[k])
BY DEF FoundKnown, First

LEMMA NotFound ==
  ASSUME NEW f, Binfile(f), NEW s, FoundKnown(f, s, f.n_sections), NEW id,
         id \notin DOMAIN s
  PROVE  \A k \in DOMAIN f.heads : ~ First(f, id, k)
<1>1. DOMAIN f.heads = 1 .. Len(f.heads) /\ Len(f.heads) \in Nat /\ Len(f.heads) <= f.n_sections
  BY DEF Binfile, Coherent
<1>. QED
  BY <1>1 DEF FoundKnown, First, Binfile

----------------------------------------------------------------------------
(* The sections of a .zkey.                                                *)

\* A section found lies in the file as its header says.
LEMMA SectionParts ==
  ASSUME NEW f, Binfile(f), NEW k \in DOMAIN f.heads
  PROVE  /\ SectionRef(f.heads[k]).offset = BodyAt(f.heads[k])
         /\ SectionRef(f.heads[k]).size = f.heads[k].size
BY DEF SectionRef

\* A slice within a section is within the file, unless its size wraps.
LEMMA SliceInSection ==
  ASSUME NEW f, Binfile(f), NEW k \in DOMAIN f.heads, NEW n \in Nat,
         EndOf(f.heads[k]) % U64 <= f.len,
         n <= f.heads[k].size, BodyAt(f.heads[k]) + n > f.len
  PROVE  Overflows(f.heads[k]) /\ Wraps(f)
<1>1. SUFFICES ASSUME ~ Overflows(f.heads[k])  PROVE FALSE
  BY DEF Wraps
<1>2. EndOf(f.heads[k]) <= f.len
  BY <1>1, EndsInFile
<1>. QED
  BY <1>2, HeadParts, SMTT(20) DEF Binfile

LEMMA ProtocolStage ==
  ASSUME NEW f \in Zkey, Binfile(f), NEW k \in DOMAIN f.heads,
         EndOf(f.heads[k]) % U64 <= f.len
  PROVE  LET faults == ProtocolFaults(f, SectionRef(f.heads[k])) IN
         /\ faults = {} => ZkeySized(f, 1, f.heads[k]) /\ f.proto = 1
         /\ \A c \in Earliest(faults) :
              /\ c \in ParserCodes
              /\ ~ (ZkeySized(f, 1, f.heads[k]) /\ f.proto = 1)
              /\ c = "PANIC" => Wraps(f)
<1> DEFINE h == f.heads[k]
<1> DEFINE faults == ProtocolFaults(f, SectionRef(h))
<1>1. /\ SectionRef(h).offset = BodyAt(h) /\ SectionRef(h).size = h.size
      /\ BodyAt(h) \in Nat /\ h.size \in Nat /\ f.len \in Nat /\ f.proto \in Nat
  BY SectionParts, HeadParts, ZkeyParts
<1>2. ASSUME faults = {}  PROVE ZkeySized(f, 1, h) /\ f.proto = 1
  <2>1. ~ (h.size < 4) /\ ~ (BodyAt(h) + 4 > f.len) /\ f.proto = 1
    BY <1>1, <1>2, Zenon DEF ProtocolFaults, PastEnd, Fault
  <2>. QED
    BY <1>1, <2>1 DEF ZkeySized, PointSections
<1>3. ASSUME NEW c \in Earliest(faults)
      PROVE  /\ c \in ParserCodes
             /\ ~ (ZkeySized(f, 1, h) /\ f.proto = 1)
             /\ c = "PANIC" => Wraps(f)
  <2>1. PICK x \in faults : x.code = c /\ \A y \in faults : x.rank <= y.rank
    BY <1>3, EarliestFault
  <2>2. c \in {"E015", "PANIC", "E003"}
    BY <2>1 DEF ProtocolFaults, PastEnd, Fault
  <2>3. ~ (ZkeySized(f, 1, h) /\ f.proto = 1)
    BY <1>1, <2>1 DEF ProtocolFaults, PastEnd, Fault, ZkeySized
  <2>4. ASSUME c = "PANIC"  PROVE Wraps(f)
    <3>1. x.rank = 2 /\ BodyAt(h) + 4 > f.len
      BY <1>1, <2>1, <2>4 DEF ProtocolFaults, PastEnd, Fault
    <3>2. h.size >= 4
      <4>1. SUFFICES ASSUME h.size < 4  PROVE FALSE
        BY <1>1
      <4>2. [rank |-> 1, code |-> "E015"] \in faults
        BY <1>1, <4>1 DEF ProtocolFaults, Fault
      <4>. QED
        BY <2>1, <3>1, <4>2
    <3>. QED
      BY <3>1, <3>2, SliceInSection
  <2>. QED
    BY <2>2, <2>3, <2>4 DEF ParserCodes
<1>. QED
  BY <1>2, <1>3

\* Section 2 is sound, whatever its size, if the file goes on far enough.
GrothSound(g) ==
  /\ g.n8q /\ g.q /\ g.n8r /\ g.r
  /\ \A j \in 1 .. 6 : SoundPoint(g.vk[j])

LEMMA PointVerdict ==
  ASSUME NEW p \in Point, NEW rank
  PROVE  /\ PointFaults(rank, p) = {} => SoundPoint(p)
         /\ \A x \in PointFaults(rank, p) :
              x.rank = rank /\ x.code \in {"E010", "E011"} /\ ~ SoundPoint(p)
<1>1. ASSUME PointFaults(rank, p) = {}  PROVE SoundPoint(p)
  <2>1. p \notin {"badEncoding", "offCurve"} /\ p # "offGroup"
    BY <1>1, Zenon DEF PointFaults, Fault
  <2>. QED
    BY <2>1 DEF SoundPoint, Point
<1>2. ASSUME NEW x \in PointFaults(rank, p)
      PROVE  x.rank = rank /\ x.code \in {"E010", "E011"} /\ ~ SoundPoint(p)
  BY <1>2 DEF PointFaults, Fault, SoundPoint
<1>. QED
  BY <1>1, <1>2

LEMMA VkEnds ==
  ASSUME NEW j \in 1 .. 6
  PROVE  VkEnd[j] \in Nat /\ VkEnd[j] <= GROTH_BYTES /\ VkEnd[6] = GROTH_BYTES
BY DEF VkEnd, GROTH_BYTES

LEMMA GrothStage ==
  ASSUME NEW f \in Zkey, Binfile(f), NEW k \in DOMAIN f.heads, First(f, 2, k),
         EndOf(f.heads[k]) % U64 <= f.len
  PROVE  LET faults == GrothFaults(f, SectionRef(f.heads[k])) IN
         /\ faults = {} => ZkeySized(f, 2, f.heads[k]) /\ GrothSound(f.groth)
         /\ \A c \in Earliest(faults) :
              /\ c \in ParserCodes
              /\ ~ (ZkeySized(f, 2, f.heads[k]) /\ GrothSound(f.groth))
              /\ c = "PANIC" => Wraps(f) \/ CutShort(f)
<1> DEFINE h == f.heads[k]
<1> DEFINE s == SectionRef(h)
<1> DEFINE g == f.groth
<1> DEFINE faults == GrothFaults(f, s)
<1>1. /\ s.offset = BodyAt(h) /\ s.size = h.size
      /\ BodyAt(h) \in Nat /\ h.size \in Nat /\ f.len \in Nat
      /\ EndOf(h) = BodyAt(h) + h.size
  BY SectionParts, HeadParts, ZkeyParts
<1>2. /\ g.n8q \in BOOLEAN /\ g.q \in BOOLEAN /\ g.n8r \in BOOLEAN /\ g.r \in BOOLEAN
      /\ \A j \in 1 .. 6 : g.vk[j] \in Point
  BY ZkeyParts, GrothParts
<1>3. ZkeySized(f, 2, h) <=> BodyAt(h) + GROTH_BYTES <= f.len /\ EndOf(h) <= f.len
  BY DEF ZkeySized, PointSections
<1> HIDE DEF s
<1>4. ASSUME faults = {}  PROVE ZkeySized(f, 2, h) /\ GrothSound(g)
  <2>1. WordFaults(f, s) = {} /\ VkFaults(f, s) = {} /\ PastEnd(24, f, s.offset + s.size) = {}
    BY <1>4, Zenon DEF GrothFaults
  <2>2. g.n8q /\ g.q /\ g.n8r /\ g.r
    BY <2>1, ZenonT(40) DEF WordFaults, Fault
  <2>3. ~ (s.offset + s.size > f.len)
    BY <2>1, Zenon DEF PastEnd, Fault
  <2>4. ASSUME NEW j \in 1 .. 6
        PROVE  ~ (s.offset + VkEnd[j] > f.len) /\ SoundPoint(g.vk[j])
    <3>1. PastEnd(10 + 2 * j, f, s.offset + VkEnd[j])
            \cup PointFaults(11 + 2 * j, g.vk[j]) = {}
      BY <2>1 DEF VkFaults
    <3>2. PastEnd(10 + 2 * j, f, s.offset + VkEnd[j]) = {}
          /\ PointFaults(11 + 2 * j, g.vk[j]) = {}
      BY <3>1, Zenon
    <3>3. ~ (s.offset + VkEnd[j] > f.len)
      BY <3>2, Zenon DEF PastEnd, Fault
    <3>. QED
      BY <1>2, <3>2, <3>3, PointVerdict
  <2>5. BodyAt(h) + GROTH_BYTES <= f.len /\ EndOf(h) <= f.len
    BY <1>1, <2>3, <2>4, VkEnds, 6 \in 1 .. 6 DEF GROTH_BYTES
  <2>. QED
    BY <1>3, <2>2, <2>4, <2>5 DEF GrothSound
<1>5. ASSUME NEW c \in Earliest(faults)
      PROVE  /\ c \in ParserCodes
             /\ ~ (ZkeySized(f, 2, h) /\ GrothSound(g))
             /\ c = "PANIC" => Wraps(f) \/ CutShort(f)
  <2>1. PICK x \in faults : x.code = c
    BY <1>5, EarliestFault
  <2>2. \/ c = "PANIC" /\ \E n \in Nat : n <= GROTH_BYTES /\ BodyAt(h) + n > f.len
        \/ c = "E003" /\ ~ (g.n8q /\ g.q /\ g.n8r /\ g.r)
        \/ \E j \in 1 .. 6 : x \in PointFaults(11 + 2 * j, g.vk[j])
        \/ c = "PANIC" /\ EndOf(h) > f.len
    <3>1. CASE x \in WordFaults(f, s)
      BY <1>1, <2>1, <3>1 DEF WordFaults, PastEnd, Fault, GROTH_BYTES
    <3>2. CASE x \in VkFaults(f, s)
      <4>1. PICK j \in 1 .. 6 : \/ x \in PastEnd(10 + 2 * j, f, s.offset + VkEnd[j])
                               \/ x \in PointFaults(11 + 2 * j, g.vk[j])
        BY <3>2 DEF VkFaults
      <4>2. CASE x \in PastEnd(10 + 2 * j, f, s.offset + VkEnd[j])
        <5>1. c = "PANIC" /\ BodyAt(h) + VkEnd[j] > f.len
          BY <1>1, <2>1, <4>2 DEF PastEnd, Fault
        <5>. QED
          BY <5>1, VkEnds
      <4>. QED
        BY <4>1, <4>2
    <3>3. CASE x \in PastEnd(24, f, s.offset + s.size)
      BY <1>1, <2>1, <3>3 DEF PastEnd, Fault
    <3>. QED
      BY <2>1, <3>1, <3>2, <3>3 DEF GrothFaults
  <2>3. CASE c = "PANIC" /\ \E n \in Nat : n <= GROTH_BYTES /\ BodyAt(h) + n > f.len
    <3>1. BodyAt(h) + GROTH_BYTES > f.len
      BY <1>1, <2>3 DEF GROTH_BYTES
    <3>2. CutShort(f)
      BY <3>1 DEF CutShort
    <3>3. ~ ZkeySized(f, 2, h)
      BY <1>1, <1>3, <3>1 DEF GROTH_BYTES
    <3>. QED
      BY <2>3, <3>2, <3>3 DEF ParserCodes
  <2>4. CASE c = "E003" /\ ~ (g.n8q /\ g.q /\ g.n8r /\ g.r)
    BY <2>4 DEF GrothSound, ParserCodes
  <2>5. CASE \E j \in 1 .. 6 : x \in PointFaults(11 + 2 * j, g.vk[j])
    BY <1>2, <2>1, <2>5, PointVerdict DEF GrothSound, ParserCodes
  <2>6. CASE c = "PANIC" /\ EndOf(h) > f.len
    <3>1. Overflows(h)
      BY <1>1, <2>6, EndsInFile
    <3>2. ~ ZkeySized(f, 2, h)
      BY <1>1, <1>3, <2>6
    <3>. QED
      BY <2>6, <3>1, <3>2 DEF Wraps, ParserCodes
  <2>. QED
    BY <2>2, <2>3, <2>4, <2>5, <2>6
<1>. QED
  BY <1>4, <1>5 DEF s

\* The counts of points fit 32 bits and one.
LEMMA PointCounts ==
  ASSUME NEW g \in Groth, NEW id
  PROVE  /\ PointCount(g, id) \in Nat /\ PointCount(g, id) <= U32
         /\ PointSize(id) \in {SNARKJS_G1_BYTES, SNARKJS_G2_BYTES}
<1>1. Private(g) \in Nat /\ Private(g) <= U32
  BY GrothParts DEF Private
<1>2. PointCount(g, id) \in {g.n_public + 1, Private(g), g.domain_size, g.n_vars}
  BY Zenon DEF PointCount
<1>3. PointCount(g, id) \in Nat /\ PointCount(g, id) <= U32
  BY <1>1, <1>2, GrothParts
<1>. QED
  BY <1>3 DEF PointSize

\* The contents of an array of points.
ArraySound(f, id) == \A j \in 1 .. PointCount(f.groth, id) : SoundPoint(f.points[id][j])

\* A multiple of a point's size that the section holds.
LEMMA PointsFit ==
  ASSUME NEW n \in Nat, NEW j \in 1 .. n, n <= U32,
         NEW z \in {SNARKJS_G1_BYTES, SNARKJS_G2_BYTES}
  PROVE  z * j \in Nat /\ z * j <= z * n /\ z * n <= SNARKJS_G2_BYTES * U32
BY DEF SNARKJS_G1_BYTES, SNARKJS_G2_BYTES

LEMMA PointArrayStage ==
  ASSUME NEW f \in Zkey, Binfile(f), NEW k \in DOMAIN f.heads, NEW id \in PointSections,
         EndOf(f.heads[k]) % U64 <= f.len
  PROVE  LET faults == PointArrayFaults(f, SectionRef(f.heads[k]), id) IN
         /\ faults = {} => ZkeySized(f, id, f.heads[k]) /\ ArraySound(f, id)
         /\ \A c \in Earliest(faults) :
              /\ c \in ParserCodes \ {"PANIC"}
              /\ ~ (ZkeySized(f, id, f.heads[k]) /\ ArraySound(f, id))
<1> DEFINE h == f.heads[k]
<1> DEFINE s == SectionRef(h)
<1> DEFINE n == PointCount(f.groth, id)
<1> DEFINE z == PointSize(id)
<1> DEFINE faults == PointArrayFaults(f, s, id)
<1>1. /\ s.offset = BodyAt(h) /\ s.size = h.size
      /\ BodyAt(h) \in Nat /\ h.size \in Nat /\ f.len \in Nat
      /\ EndOf(h) = BodyAt(h) + h.size
  BY SectionParts, HeadParts, ZkeyParts
<1>2. n \in Nat /\ n <= U32 /\ z \in {SNARKJS_G1_BYTES, SNARKJS_G2_BYTES}
  BY ZkeyParts, PointCounts
<1>3. ASSUME NEW j \in 1 .. n  PROVE f.points[id][j] \in Point
  <2>1. j \in Counts
    BY <1>2 DEF Counts
  <2>. QED
    BY <2>1, ZkeyParts
<1>4. ZkeySized(f, id, h) <=> h.size = z * n
  BY DEF ZkeySized, PointSections
<1> HIDE DEF s, n, z
<1>5. ASSUME faults = {}  PROVE ZkeySized(f, id, h) /\ ArraySound(f, id)
  <2>1. Fault(1, "E015", s.size # z * n) = {}
        /\ UNION {PastEnd(2 * j, f, s.offset + z * j)
                    \cup PointFaults(2 * j + 1, f.points[id][j]) : j \in 1 .. n} = {}
    BY <1>5, Zenon DEF PointArrayFaults, n, z
  <2>2. s.size = z * n
    BY <2>1, Zenon DEF Fault
  <2>3. ASSUME NEW j \in 1 .. n  PROVE SoundPoint(f.points[id][j])
    <3>1. PastEnd(2 * j, f, s.offset + z * j)
            \cup PointFaults(2 * j + 1, f.points[id][j]) = {}
      BY <2>1
    <3>2. PointFaults(2 * j + 1, f.points[id][j]) = {}
      BY <3>1, Zenon
    <3>. QED
      BY <1>3, <3>2, PointVerdict
  <2>. QED
    BY <1>1, <1>4, <2>2, <2>3 DEF ArraySound, n
<1>6. ASSUME NEW c \in Earliest(faults)
      PROVE  c \in ParserCodes \ {"PANIC"} /\ ~ (ZkeySized(f, id, h) /\ ArraySound(f, id))
  <2>1. PICK x \in faults : x.code = c /\ \A y \in faults : x.rank <= y.rank
    BY <1>6, EarliestFault
  <2>2. \/ x.rank = 1 /\ c = "E015" /\ s.size # z * n
        \/ \E j \in 1 .. n : \/ x \in PastEnd(2 * j, f, s.offset + z * j)
                            \/ x \in PointFaults(2 * j + 1, f.points[id][j])
    <3>1. \/ x \in Fault(1, "E015", s.size # z * n)
          \/ x \in UNION {PastEnd(2 * j, f, s.offset + z * j)
                            \cup PointFaults(2 * j + 1, f.points[id][j]) : j \in 1 .. n}
      BY <2>1, Zenon DEF PointArrayFaults, n, z
    <3>2. CASE x \in Fault(1, "E015", s.size # z * n)
      BY <2>1, <3>2 DEF Fault
    <3>. QED
      BY <3>1, <3>2
  <2>3. CASE x.rank = 1 /\ c = "E015" /\ s.size # z * n
    BY <1>1, <1>4, <2>3 DEF ParserCodes
  <2>4. CASE \E j \in 1 .. n : \/ x \in PastEnd(2 * j, f, s.offset + z * j)
                              \/ x \in PointFaults(2 * j + 1, f.points[id][j])
    <3>1. PICK j \in 1 .. n : \/ x \in PastEnd(2 * j, f, s.offset + z * j)
                             \/ x \in PointFaults(2 * j + 1, f.points[id][j])
      BY <2>4
    <3>2. x.rank \in {2 * j, 2 * j + 1} /\ x.rank > 1
      BY <1>2, <1>3, <3>1, PointVerdict DEF PastEnd, Fault
    <3>3. s.size = z * n
      <4>1. SUFFICES ASSUME s.size # z * n  PROVE FALSE
        OBVIOUS
      <4>2. [rank |-> 1, code |-> "E015"] \in faults
        BY <4>1, Zenon DEF PointArrayFaults, Fault, n, z
      <4>. QED
        BY <1>2, <2>1, <3>2, <4>2
    <3>4. z * j \in Nat /\ z * j <= h.size /\ h.size <= SNARKJS_G2_BYTES * U32
      BY <1>1, <1>2, <3>3, PointsFit
    <3>5. ~ (s.offset + z * j > f.len)
      BY <1>1, <3>4, CountedSizesFit, SliceInSection
    <3>6. x \in PointFaults(2 * j + 1, f.points[id][j])
      BY <3>1, <3>5 DEF PastEnd, Fault
    <3>7. c \in {"E010", "E011"} /\ ~ SoundPoint(f.points[id][j])
      BY <1>3, <2>1, <3>6, PointVerdict
    <3>. QED
      BY <3>7 DEF ParserCodes, ArraySound, n
  <2>. QED
    BY <2>2, <2>3, <2>4
<1>. QED
  BY <1>5, <1>6 DEF s

\* The contents of section 4.
RowsSound(f) == \A k \in 1 .. f.n_coefs : RowValid(f.groth, f.rows[k])

\* A multiple of a row's size that the section holds.
LEMMA RowsFit ==
  ASSUME NEW n \in Nat, NEW j \in 1 .. n, n < U32
  PROVE  /\ 4 + COEF_BYTES * j \in Nat /\ 4 + COEF_BYTES * (j - 1) + 12 \in Nat
         /\ 4 + COEF_BYTES * (j - 1) + 12 <= 4 + COEF_BYTES * j
         /\ 4 + COEF_BYTES * j <= 4 + COEF_BYTES * n
BY DEF COEF_BYTES

LEMMA RowTableFits ==
  ASSUME NEW n \in Nat, n < U32
  PROVE  4 + COEF_BYTES * n <= SNARKJS_G2_BYTES * U32
BY DEF COEF_BYTES, SNARKJS_G2_BYTES

LEMMA RowStage ==
  ASSUME NEW f \in Zkey, NEW s, s.offset \in Nat, f.len \in Nat, NEW k \in 1 .. f.n_coefs
  PROVE  /\ RowFaults(f, s, k) = {} => RowValid(f.groth, f.rows[k])
         /\ \A x \in RowFaults(f, s, k) :
              /\ x.rank \in Nat /\ x.rank > 3
              /\ x.code \in {"E003", "E012", "E013", "PANIC"}
              /\ x.code # "PANIC" => ~ RowValid(f.groth, f.rows[k])
              /\ x.code = "PANIC" =>
                   \/ s.offset + 4 + COEF_BYTES * (k - 1) + 12 > f.len
                   \/ s.offset + 4 + COEF_BYTES * k > f.len
<1> DEFINE row == f.rows[k]
<1> DEFINE g == f.groth
<1>1. /\ row.matrix \in Nat /\ row.constraint \in Nat /\ row.signal \in Nat
      /\ row.canonical \in BOOLEAN
      /\ g.domain_size \in Nat /\ g.n_vars \in Nat /\ k \in Nat /\ k >= 1
  <2>1. k \in Counts /\ k \in Nat /\ k >= 1
    BY ZkeyParts DEF Counts, Word
  <2>2. row \in Row
    BY <2>1, ZkeyParts
  <2>. QED
    BY <2>1, <2>2, ZkeyParts, GrothParts DEF Row, Word
<1> HIDE DEF row, g
<1>2. RowFaults(f, s, k) =
        PastEnd(6 * k, f, s.offset + 4 + COEF_BYTES * (k - 1) + 12)
          \cup Fault(6 * k + 1, "E003", row.matrix > 1)
          \cup Fault(6 * k + 2, "E013", row.constraint >= g.domain_size)
          \cup Fault(6 * k + 3, "E013", row.signal >= g.n_vars)
          \cup PastEnd(6 * k + 4, f, s.offset + 4 + COEF_BYTES * k)
          \cup Fault(6 * k + 5, "E012", ~ row.canonical)
  BY Zenon DEF RowFaults, row, g
<1>3. ASSUME RowFaults(f, s, k) = {}  PROVE RowValid(g, row)
  <2>1. ~ (row.matrix > 1) /\ ~ (row.constraint >= g.domain_size)
        /\ ~ (row.signal >= g.n_vars) /\ row.canonical
    BY <1>2, <1>3, Zenon DEF Fault
  <2>. QED
    BY <1>1, <2>1 DEF RowValid
<1>4. ASSUME NEW x \in RowFaults(f, s, k)
      PROVE  /\ x.rank \in Nat /\ x.rank > 3
             /\ x.code \in {"E003", "E012", "E013", "PANIC"}
             /\ x.code # "PANIC" => ~ RowValid(g, row)
             /\ x.code = "PANIC" =>
                  \/ s.offset + 4 + COEF_BYTES * (k - 1) + 12 > f.len
                  \/ s.offset + 4 + COEF_BYTES * k > f.len
  BY <1>1, <1>2, <1>4 DEF PastEnd, Fault, RowValid
<1>. QED
  BY <1>3, <1>4 DEF row, g

LEMMA CoefStage ==
  ASSUME NEW f \in Zkey, Binfile(f), NEW k \in DOMAIN f.heads,
         EndOf(f.heads[k]) % U64 <= f.len
  PROVE  LET faults == CoefFaults(f, SectionRef(f.heads[k])) IN
         /\ faults = {} => ZkeySized(f, 4, f.heads[k]) /\ RowsSound(f)
         /\ \A c \in Earliest(faults) :
              /\ c \in ParserCodes
              /\ ~ (ZkeySized(f, 4, f.heads[k]) /\ RowsSound(f))
              /\ c = "PANIC" => Wraps(f)
<1> DEFINE h == f.heads[k]
<1> DEFINE s == SectionRef(h)
<1> DEFINE n == f.n_coefs
<1> DEFINE rows == UNION {RowFaults(f, s, l) : l \in 1 .. n}
<1> DEFINE faults == CoefFaults(f, s)
<1>1. /\ s.offset = BodyAt(h) /\ s.size = h.size
      /\ BodyAt(h) \in Nat /\ h.size \in Nat /\ f.len \in Nat
      /\ EndOf(h) = BodyAt(h) + h.size
  BY SectionParts, HeadParts, ZkeyParts
<1>2. n \in Nat /\ n < U32 /\ 4 + COEF_BYTES * n \in Nat /\ 4 + COEF_BYTES * n >= 4
  BY ZkeyParts DEF Word, COEF_BYTES
<1>3. ZkeySized(f, 4, h) <=> h.size = 4 + COEF_BYTES * n
  BY DEF ZkeySized, PointSections
<1>4. faults = Fault(1, "E015", s.size < 4) \cup PastEnd(2, f, s.offset + 4)
                 \cup Fault(3, "E015", s.size # 4 + COEF_BYTES * n) \cup rows
  BY Zenon DEF CoefFaults
<1> HIDE DEF s, n, rows, faults
<1>5. ASSUME faults = {}  PROVE ZkeySized(f, 4, h) /\ RowsSound(f)
  <2>1. rows = {} /\ s.size = 4 + COEF_BYTES * n
    BY <1>4, <1>5, Zenon DEF Fault
  <2>2. ASSUME NEW l \in 1 .. f.n_coefs  PROVE RowFaults(f, s, l) = {}
    BY <2>1 DEF rows, n
  <2>. QED
    BY <1>1, <1>3, <2>1, <2>2, RowStage DEF RowsSound
<1>6. ASSUME NEW c \in Earliest(faults)
      PROVE  /\ c \in ParserCodes
             /\ ~ (ZkeySized(f, 4, h) /\ RowsSound(f))
             /\ c = "PANIC" => Wraps(f)
  <2>1. PICK x \in faults : x.code = c /\ \A y \in faults : x.rank <= y.rank
    BY <1>6, EarliestFault
  <2>2. CASE x \in rows
    <3>1. PICK l \in 1 .. f.n_coefs : x \in RowFaults(f, s, l)
      BY <2>2 DEF rows, n
    <3>2. /\ x.rank \in Nat /\ x.rank > 3
          /\ c \in {"E003", "E012", "E013", "PANIC"}
          /\ c # "PANIC" => ~ RowValid(f.groth, f.rows[l])
          /\ c = "PANIC" => \/ s.offset + 4 + COEF_BYTES * (l - 1) + 12 > f.len
                            \/ s.offset + 4 + COEF_BYTES * l > f.len
      BY <1>1, <2>1, <3>1, RowStage
    <3>3. s.size = 4 + COEF_BYTES * n
      <4>1. SUFFICES ASSUME s.size # 4 + COEF_BYTES * n  PROVE FALSE
        OBVIOUS
      <4>2. [rank |-> 3, code |-> "E015"] \in faults
        BY <1>4, <4>1, Zenon DEF Fault
      <4>. QED
        BY <2>1, <3>2, <4>2
    <3>4. ~ Overflows(h)
      BY <1>1, <1>2, <3>3, RowTableFits, CountedSizesFit
    <3>5. EndOf(h) <= f.len
      BY <3>4, EndsInFile
    <3>6. c # "PANIC"
      <4>1. /\ 4 + COEF_BYTES * l \in Nat /\ 4 + COEF_BYTES * (l - 1) + 12 \in Nat
            /\ 4 + COEF_BYTES * (l - 1) + 12 <= 4 + COEF_BYTES * l
            /\ 4 + COEF_BYTES * l <= 4 + COEF_BYTES * n
            /\ COEF_BYTES * l \in Nat /\ COEF_BYTES * (l - 1) \in Nat
        BY <1>2, RowsFit DEF n, COEF_BYTES
      <4>. QED
        BY <1>1, <1>2, <3>2, <3>3, <3>5, <4>1
    <3>. QED
      BY <3>2, <3>6 DEF RowsSound, ParserCodes
  <2>3. CASE x \in Fault(1, "E015", s.size < 4) \/ x \in Fault(3, "E015", s.size # 4 + COEF_BYTES * n)
    BY <1>1, <1>2, <1>3, <2>1, <2>3 DEF Fault, ParserCodes
  <2>4. CASE x \in PastEnd(2, f, s.offset + 4)
    <3>1. c = "PANIC" /\ x.rank = 2 /\ BodyAt(h) + 4 > f.len
      BY <1>1, <2>1, <2>4 DEF PastEnd, Fault
    <3>2. h.size >= 4
      <4>1. SUFFICES ASSUME s.size < 4  PROVE FALSE
        BY <1>1
      <4>2. [rank |-> 1, code |-> "E015"] \in faults
        BY <1>4, <4>1, Zenon DEF Fault
      <4>. QED
        BY <2>1, <3>1, <4>2
    <3>3. Overflows(h) /\ Wraps(f)
      BY <3>1, <3>2, SliceInSection
    <3>4. h.size # 4 + COEF_BYTES * n
      BY <1>2, <3>3, RowTableFits, CountedSizesFit
    <3>. QED
      BY <1>3, <3>1, <3>3, <3>4 DEF ParserCodes
  <2>. QED
    BY <1>4, <2>1, <2>2, <2>3, <2>4
<1>. QED
  BY <1>5, <1>6 DEF s, faults

----------------------------------------------------------------------------
(* The sections of a .wtns.                                                *)

HeaderSized(f, h) == h.size >= 40 /\ BodyAt(h) + 40 <= f.len
ValuesSized(f, h) == h.size = FR_BYTES * f.n_witness
ValuesSound(f)    == \A j \in 1 .. f.n_witness : f.values[j] # "nonCanonical"

\* A multiple of a value's size that the section holds.
LEMMA ValuesFit ==
  ASSUME NEW n \in Nat, NEW j \in 1 .. n, n < U32
  PROVE  /\ FR_BYTES * j \in Nat /\ FR_BYTES * j <= FR_BYTES * n
         /\ FR_BYTES * n <= SNARKJS_G2_BYTES * U32
BY DEF FR_BYTES, SNARKJS_G2_BYTES

LEMMA WtnsStage ==
  ASSUME NEW f \in Wtns, Binfile(f), NEW k \in DOMAIN f.heads, NEW l \in DOMAIN f.heads,
         EndOf(f.heads[k]) % U64 <= f.len, EndOf(f.heads[l]) % U64 <= f.len
  PROVE  LET faults == WtnsFaults(f, SectionRef(f.heads[k]), SectionRef(f.heads[l]))
             Sound  == /\ HeaderSized(f, f.heads[k]) /\ ValuesSized(f, f.heads[l])
                       /\ f.n8 /\ f.prime /\ ValuesSound(f)
         IN
         /\ faults = {} => Sound
         /\ \A c \in Earliest(faults) :
              /\ c \in ParserCodes
              /\ ~ Sound
              /\ c = "PANIC" => Wraps(f)
<1> DEFINE h == f.heads[k]
<1> DEFINE v == f.heads[l]
<1> DEFINE s == SectionRef(h)
<1> DEFINE t == SectionRef(v)
<1> DEFINE n == f.n_witness
<1> DEFINE words == Fault(1, "E015", s.size < 40) \cup PastEnd(2, f, s.offset + 4)
                      \cup Fault(3, "E003", ~ f.n8) \cup PastEnd(4, f, s.offset + 36)
                      \cup Fault(5, "E003", ~ f.prime) \cup PastEnd(6, f, s.offset + 40)
                      \cup Fault(7, "E015", t.size # FR_BYTES * n)
<1> DEFINE vals == UNION {PastEnd(6 + 2 * j, f, t.offset + FR_BYTES * j)
                            \cup Fault(7 + 2 * j, "E012", f.values[j] = "nonCanonical")
                          : j \in 1 .. n}
<1> DEFINE faults == WtnsFaults(f, s, t)
<1> DEFINE Sound == /\ HeaderSized(f, h) /\ ValuesSized(f, v)
                    /\ f.n8 /\ f.prime /\ ValuesSound(f)
<1>1. /\ s.offset = BodyAt(h) /\ s.size = h.size /\ t.offset = BodyAt(v) /\ t.size = v.size
      /\ BodyAt(h) \in Nat /\ h.size \in Nat /\ BodyAt(v) \in Nat /\ v.size \in Nat
      /\ f.len \in Nat /\ EndOf(v) = BodyAt(v) + v.size
      /\ n \in Nat /\ n < U32 /\ f.n8 \in BOOLEAN /\ f.prime \in BOOLEAN
  BY SectionParts, HeadParts, WtnsParts
<1>2. faults = words \cup vals
  BY Zenon DEF WtnsFaults
<1> HIDE DEF s, t, n, words, vals, faults
<1>3. ASSUME faults = {}  PROVE Sound
  <2>1. words = {} /\ vals = {}
    BY <1>2, <1>3, Zenon
  <2>2. /\ ~ (s.size < 40) /\ ~ (s.offset + 40 > f.len) /\ f.n8 /\ f.prime
        /\ t.size = FR_BYTES * n
    BY <2>1, Zenon DEF words, PastEnd, Fault
  <2>3. ASSUME NEW j \in 1 .. f.n_witness  PROVE f.values[j] # "nonCanonical"
    <3>1. PastEnd(6 + 2 * j, f, t.offset + FR_BYTES * j)
            \cup Fault(7 + 2 * j, "E012", f.values[j] = "nonCanonical") = {}
      BY <2>1 DEF vals, n
    <3>. QED
      BY <3>1, Zenon DEF Fault
  <2>4. HeaderSized(f, h)
    BY <1>1, <2>2 DEF HeaderSized
  <2>5. ValuesSized(f, v)
    BY <1>1, <2>2 DEF ValuesSized, n
  <2>. QED
    BY <2>2, <2>3, <2>4, <2>5 DEF ValuesSound
<1>4. ASSUME NEW c \in Earliest(faults)
      PROVE  c \in ParserCodes /\ ~ Sound /\ (c = "PANIC" => Wraps(f))
  <2>1. PICK x \in faults : x.code = c /\ \A y \in faults : x.rank <= y.rank
    BY <1>4, EarliestFault
  <2>2. CASE x \in words
    <3>1. \/ c = "E015" /\ ~ (HeaderSized(f, h) /\ ValuesSized(f, v))
          \/ c = "E003" /\ ~ (f.n8 /\ f.prime)
          \/ c = "PANIC" /\ x.rank \in {2, 4, 6} /\ BodyAt(h) + 40 > f.len
      BY <1>1, <2>1, <2>2 DEF words, PastEnd, Fault, HeaderSized, ValuesSized, n
    <3>2. ASSUME c = "PANIC"  PROVE ~ HeaderSized(f, h) /\ Wraps(f)
      <4>1. x.rank \in {2, 4, 6} /\ BodyAt(h) + 40 > f.len
        BY <3>1, <3>2
      <4>2. h.size >= 40
        <5>1. SUFFICES ASSUME s.size < 40  PROVE FALSE
          BY <1>1
        <5>2. [rank |-> 1, code |-> "E015"] \in faults
          BY <1>2, <5>1, Zenon DEF words, Fault
        <5>. QED
          BY <2>1, <4>1, <5>2
      <4>3. Wraps(f)
        BY <4>1, <4>2, SliceInSection
      <4>. QED
        BY <1>1, <4>1, <4>3 DEF HeaderSized
    <3>. QED
      BY <3>1, <3>2 DEF ParserCodes
  <2>3. CASE x \in vals
    <3>1. PICK j \in 1 .. n : \/ x \in PastEnd(6 + 2 * j, f, t.offset + FR_BYTES * j)
                             \/ x \in Fault(7 + 2 * j, "E012", f.values[j] = "nonCanonical")
      BY <2>3 DEF vals
    <3>2. x.rank \in {6 + 2 * j, 7 + 2 * j} /\ x.rank > 7
      BY <1>1, <3>1 DEF PastEnd, Fault
    <3>3. t.size = FR_BYTES * n
      <4>1. SUFFICES ASSUME t.size # FR_BYTES * n  PROVE FALSE
        OBVIOUS
      <4>2. [rank |-> 7, code |-> "E015"] \in faults
        BY <1>2, <4>1, Zenon DEF words, Fault
      <4>. QED
        BY <1>1, <2>1, <3>2, <4>2
    <3>4. FR_BYTES * j \in Nat /\ FR_BYTES * j <= v.size /\ v.size <= SNARKJS_G2_BYTES * U32
      BY <1>1, <3>3, ValuesFit
    <3>5. ~ (t.offset + FR_BYTES * j > f.len)
      BY <1>1, <3>4, CountedSizesFit, SliceInSection
    <3>6. c = "E012" /\ f.values[j] = "nonCanonical"
      BY <2>1, <3>1, <3>5 DEF PastEnd, Fault
    <3>. QED
      BY <3>6 DEF ValuesSound, ParserCodes, n
  <2>. QED
    BY <1>2, <2>1, <2>2, <2>3
<1>. QED
  BY <1>3, <1>4 DEF s, t, faults

----------------------------------------------------------------------------
(* prove_with_rng and the native prover.                                   *)

LEMMA ShapeStage ==
  ASSUME NEW j \in Job
  PROVE  /\ ShapeFaults(j) = {} =>
              /\ j.wtns.n_witness = j.zkey.groth.n_vars /\ j.zkey.groth.n_vars > 0
              /\ j.wtns.values[1] = "one"
         /\ \A c \in Earliest(ShapeFaults(j)) :
              /\ c \in {"E013", "E012", "PANIC"}
              /\ ~ Provable(j)
              /\ c = "PANIC" => Degenerate(j.zkey.groth)
<1> DEFINE w == j.wtns.n_witness
<1> DEFINE v == j.zkey.groth.n_vars
<1>1. w \in Nat /\ v \in Nat
  BY JobParts, WtnsParts, GrothParts
<1>2. ASSUME ShapeFaults(j) = {}
      PROVE  w = v /\ v > 0 /\ j.wtns.values[1] = "one"
  <2>1. w = v /\ w # 0 /\ j.wtns.values[1] = "one"
    BY <1>2, Zenon DEF ShapeFaults, Fault
  <2>. QED
    BY <1>1, <2>1
<1>3. ASSUME NEW c \in Earliest(ShapeFaults(j))
      PROVE  /\ c \in {"E013", "E012", "PANIC"}
             /\ ~ Provable(j)
             /\ c = "PANIC" => Degenerate(j.zkey.groth)
  <2>1. PICK x \in ShapeFaults(j) : x.code = c /\ \A y \in ShapeFaults(j) : x.rank <= y.rank
    BY <1>3, EarliestFault
  <2>2. \/ c = "E013" /\ w # v
        \/ c = "PANIC" /\ x.rank = 2 /\ w = 0
        \/ c = "E012" /\ j.wtns.values[1] # "one"
    BY <2>1 DEF ShapeFaults, Fault
  <2>3. ASSUME c = "PANIC"  PROVE v = 0
    <3>1. SUFFICES ASSUME w # v  PROVE FALSE
      BY <2>2, <2>3
    <3>2. [rank |-> 1, code |-> "E013"] \in ShapeFaults(j)
      BY <3>1 DEF ShapeFaults, Fault
    <3>. QED
      BY <2>1, <2>2, <2>3, <3>2
  <2>. QED
    BY <2>2, <2>3 DEF Provable, Degenerate
<1>. QED
  BY <1>2, <1>3

\* The rows were compared with the counts when they were read.
LEMMA AbcStage ==
  ASSUME NEW j \in Job, ShapeFaults(j) = {}, RowsSound(j.zkey)
  PROVE  AbcFaults(j) = {}
<1> DEFINE Row3(k) ==
      Fault(3 * k + 1, "PANIC", j.zkey.rows[k].signal >= j.wtns.n_witness)
        \cup Fault(3 * k + 2, "E003", j.zkey.rows[k].matrix \notin {0, 1})
        \cup Fault(3 * k + 3, "PANIC",
                   j.zkey.rows[k].constraint >= j.zkey.groth.domain_size)
<1>1. ASSUME NEW k \in 1 .. j.zkey.n_coefs  PROVE Row3(k) = {}
  <2>1. k \in Counts
    BY JobParts, ZkeyParts DEF Counts, Word
  <2>2. j.zkey.rows[k] \in Row
    BY <2>1, JobParts, ZkeyParts
  <2>3. RowValid(j.zkey.groth, j.zkey.rows[k])
    BY <1>1 DEF RowsSound
  <2>4. /\ ~ (j.zkey.rows[k].signal >= j.wtns.n_witness)
        /\ j.zkey.rows[k].matrix \in {0, 1}
        /\ ~ (j.zkey.rows[k].constraint >= j.zkey.groth.domain_size)
    <3>1. /\ j.zkey.rows[k].signal \in Nat /\ j.zkey.rows[k].matrix \in Nat
          /\ j.zkey.rows[k].constraint \in Nat
      BY <2>2 DEF Row, Word
    <3>2. /\ j.wtns.n_witness = j.zkey.groth.n_vars /\ j.zkey.groth.n_vars \in Nat
          /\ j.zkey.groth.domain_size \in Nat
      BY ShapeStage, JobParts, GrothParts
    <3>. QED
      BY <2>3, <3>1, <3>2 DEF RowValid
  <2>. QED
    BY <2>4, Zenon DEF Fault
<1>2. AbcFaults(j) = ShapeFaults(j) \cup UNION {Row3(k) : k \in 1 .. j.zkey.n_coefs}
  BY Zenon DEF AbcFaults
<1>. QED
  BY <1>1, <1>2

LEMMA DomainStage ==
  ASSUME NEW j \in Job
  PROVE  /\ DomainFaults(j) = {} =>
              j.zkey.groth.domain_size > 0 /\ j.zkey.groth.domain_size <= MAX_DOMAIN
         /\ \A x \in DomainFaults(j) :
              /\ ~ Provable(j)
              /\ \/ x.code = "E017" /\ j.zkey.groth.domain_size > MAX_DOMAIN
                 \/ x.code \in Stuck /\ Degenerate(j.zkey.groth)
<1> DEFINE d == j.zkey.groth.domain_size
<1>1. d \in Nat /\ MAX_DOMAIN \in Nat
  BY JobParts, GrothParts, MaxDomainIsNat
<1>2. ASSUME DomainFaults(j) = {}  PROVE d > 0 /\ d <= MAX_DOMAIN
  <2>1. ~ (d > MAX_DOMAIN) /\ d # 0
    BY <1>2, Zenon DEF DomainFaults, Fault
  <2>. QED
    BY <1>1, <2>1
<1>3. ASSUME NEW x \in DomainFaults(j)
      PROVE  /\ ~ Provable(j)
             /\ \/ x.code = "E017" /\ d > MAX_DOMAIN
                \/ x.code \in Stuck /\ Degenerate(j.zkey.groth)
  BY <1>1, <1>3 DEF DomainFaults, Fault, Provable, Degenerate, Stuck
<1>. QED
  BY <1>2, <1>3

\* The arrays have the lengths the products ask for: the parser saw to it.
LEMMA MsmStage ==
  ASSUME NEW j \in Job, ShapeFaults(j) = {}
  PROVE  /\ MsmFaults(j) = {} => j.zkey.groth.n_public < j.zkey.groth.n_vars
         /\ \A c \in Earliest(MsmFaults(j)) :
              c = "PANIC" /\ ~ Provable(j) /\ Degenerate(j.zkey.groth)
<1> DEFINE g == j.zkey.groth
<1> DEFINE n == j.wtns.n_witness
<1>1. g.n_vars \in Nat /\ g.n_public \in Nat /\ n = g.n_vars
  BY JobParts, GrothParts, ShapeStage
<1>2. /\ \A id \in {5, 6, 7} : PointCount(g, id) = g.n_vars
      /\ PointCount(g, 8) = Private(g) /\ PointCount(g, 9) = g.domain_size
  BY DEF PointCount
<1>3. ASSUME MsmFaults(j) = {}  PROVE g.n_public < g.n_vars
  <2>1. ~ (g.n_public + 1 > n)
    BY <1>3, Zenon DEF MsmFaults, Fault
  <2>. QED
    BY <1>1, <2>1
<1>4. ASSUME NEW c \in Earliest(MsmFaults(j))
      PROVE  c = "PANIC" /\ ~ Provable(j) /\ Degenerate(g)
  <2>1. PICK x \in MsmFaults(j) : x.code = c /\ \A y \in MsmFaults(j) : x.rank <= y.rank
    BY <1>4, EarliestFault
  <2>2. \/ c = "PANIC" /\ g.n_public + 1 > n
        \/ x.rank = 3 /\ Private(g) # n - (g.n_public + 1)
    BY <1>1, <1>2, <2>1 DEF MsmFaults, Fault
  <2>3. g.n_public + 1 > n
    BY <1>1, <2>2 DEF Private
  <2>4. [rank |-> 2, code |-> "PANIC"] \in MsmFaults(j)
    BY <2>3 DEF MsmFaults, Fault
  <2>5. c = "PANIC"
    BY <2>1, <2>2, <2>4
  <2>6. Degenerate(g)
    BY <1>1, <2>3 DEF Degenerate
  <2>. QED
    BY <2>5, <2>6 DEF Provable
<1>. QED
  BY <1>3, <1>4

LEMMA BindStage ==
  ASSUME NEW j \in Job, ShapeFaults(j) = {}, DomainFaults(j) = {},
         FilesValid(j), j.zkey.groth.n_public < j.zkey.groth.n_vars
  PROVE  /\ BindFaults(j) = {} => Provable(j)
         /\ \A c \in Earliest(BindFaults(j)) :
              /\ c \in {"E014", "E016"}
              /\ ~ Provable(j)
              /\ c = "E014" => Provable([j EXCEPT !.zac.sameVk = TRUE])
<1> DEFINE g == j.zkey.groth
<1>1. /\ g.n_vars \in Nat /\ g.n_public \in Nat /\ j.wtns.n_witness = g.n_vars
      /\ g.n_vars > 0 /\ j.wtns.values[1] = "one"
      /\ g.domain_size > 0 /\ g.domain_size <= MAX_DOMAIN /\ g.domain_size \in Nat
      /\ j.zac.hasVkey \in BOOLEAN /\ j.zac.sameVk \in BOOLEAN
  BY JobParts, GrothParts, ShapeStage, DomainStage
<1>2. ~ Degenerate(g)
  BY <1>1 DEF Degenerate
<1>3. ASSUME BindFaults(j) = {}  PROVE Provable(j)
  <2>1. j.zac.hasVkey /\ j.zac.sameVk
    BY <1>1, <1>3, Zenon DEF BindFaults, Fault
  <2>. QED
    BY <1>1, <1>2, <2>1 DEF Provable
<1>4. ASSUME NEW c \in Earliest(BindFaults(j))
      PROVE  /\ c \in {"E014", "E016"}
             /\ ~ Provable(j)
             /\ c = "E014" => Provable([j EXCEPT !.zac.sameVk = TRUE])
  <2>1. PICK x \in BindFaults(j) : x.code = c /\ \A y \in BindFaults(j) : x.rank <= y.rank
    BY <1>4, EarliestFault
  <2>2. \/ c = "E016" /\ ~ j.zac.hasVkey
        \/ c = "E014" /\ x.rank = 3 /\ ~ j.zac.sameVk
    BY <1>1, <2>1 DEF BindFaults, Fault
  <2>3. ASSUME c = "E014"  PROVE Provable([j EXCEPT !.zac.sameVk = TRUE])
    <3>1. j.zac.hasVkey
      <4>1. SUFFICES ASSUME ~ j.zac.hasVkey  PROVE FALSE
        BY <1>1
      <4>2. [rank |-> 2, code |-> "E016"] \in BindFaults(j)
        BY <4>1 DEF BindFaults, Fault
      <4>. QED
        BY <2>1, <2>2, <2>3, <4>2
    <3> DEFINE b == [j EXCEPT !.zac.sameVk = TRUE]
    <3>2. /\ b.zkey = j.zkey /\ b.wtns = j.wtns /\ b.checks = j.checks
          /\ b.zac.hasVkey = j.zac.hasVkey /\ b.zac.sameVk
      BY DEF Job, Container
    <3>3. FilesValid(b)
      BY <3>2 DEF FilesValid
    <3> HIDE DEF b
    <3>4. Provable(b)
      BY <1>1, <1>2, <3>1, <3>2, <3>3 DEF Provable
    <3>. QED
      BY <3>4 DEF b
  <2>. QED
    BY <2>2, <2>3 DEF Provable
<1>. QED
  BY <1>3, <1>4

----------------------------------------------------------------------------
(* Steps that end the run, steps that hand over.                           *)

LEMMA BadZkey ==
  ASSUME NEW j, NEW c \in ParserCodes, ~ ZkeyValid(j.zkey, j.checks),
         c = "PANIC" => Wraps(j.zkey) \/ CutShort(j.zkey)
  PROVE  Explains(c, j)
BY DEF Explains, ParserCodes, Codes, Stuck, Provable, FilesValid

LEMMA BadWtns ==
  ASSUME NEW j, NEW c \in ParserCodes, ~ WtnsValid(j.wtns, j.checks),
         c = "PANIC" => Wraps(j.wtns)
  PROVE  Explains(c, j)
BY DEF Explains, ParserCodes, Codes, Stuck, Provable, FilesValid

LEMMA FailStep ==
  ASSUME Inv, NEW faults, Fail(faults), \A c \in Earliest(faults) : Explains(c, job)
  PROVE  Inv'
<1>1. /\ pc' = "done" /\ job' = job /\ cur' = cur /\ i' = i
      /\ Explains(res', job)
  BY DEF Fail
<1>2. res' \in Codes \cup Stuck /\ res' \notin {"none", "ok"}
  BY <1>1 DEF Explains, Codes, Stuck
<1>3. TypeOK' /\ Readable(job)'
  BY <1>1, <1>2 DEF Inv, TypeOK, Stages
<1>4. PrefixKnown' /\ LoopKnown' /\ ZkeyKnown' /\ WtnsKnown' /\ ProverKnown'
  BY <1>1 DEF PrefixKnown, LoopKnown, ZkeyKnown, WtnsKnown, ProverKnown, AfterWtns,
     AfterWtnsTable, AfterQueries, AfterCoefs, AfterIc, AfterGroth, AfterProtocol,
     AfterZkeyTable
<1>5. VerdictKnown'
  BY <1>1, <1>2 DEF VerdictKnown, Explains, PanicIsAccountedFor,
     NativeProverFitsTheKey, ForeignKeyIsTheOnlyFault, key
<1>. QED
  BY <1>3, <1>4, <1>5 DEF Inv

LEMMA HandOver ==
  ASSUME Inv, pc # "done", pc' \in Stages \ {"done"}, job' = job, res' = res,
         cur' \in Nat, i' \in Nat,
         PrefixKnown', LoopKnown', ZkeyKnown', WtnsKnown', ProverKnown'
  PROVE  Inv'
<1>1. res = "none" /\ res' = "none"
  BY DEF Inv, TypeOK
<1>2. TypeOK' /\ Readable(job)'
  BY <1>1 DEF Inv, TypeOK
<1>3. VerdictKnown'
  BY <1>1 DEF VerdictKnown, PanicIsAccountedFor, NativeProverFitsTheKey,
     ForeignKeyIsTheOnlyFault, Codes, Stuck
<1>. QED
  BY <1>2, <1>3 DEF Inv

\* What every step starts from.
LEMMA Known ==
  ASSUME Inv
  PROVE  /\ job \in Job /\ job.checks \in BOOLEAN /\ cur \in Nat /\ i \in Nat
         /\ job.zkey \in Zkey /\ job.wtns \in Wtns /\ key \in Groth
         /\ Binfile(job.zkey) /\ Binfile(job.wtns)
<1>1. job \in Job /\ Readable(job) /\ cur \in Nat /\ i \in Nat
  BY DEF Inv, TypeOK
<1>2. Binfile(job.zkey) /\ Binfile(job.wtns)
  BY <1>1, JobFiles
<1>. QED
  BY <1>1, <1>2, JobParts DEF key

\* find_section on a table that was read to its end.
LEMMA ZkeySection ==
  ASSUME NEW f, Binfile(f), NEW checks, TableValid(f, checks), NEW s,
         FoundKnown(f, s, f.n_sections), NEW id \in 1 .. 9
  PROVE  /\ ZkeyValid(f, checks) => Sized(f, id)
         /\ id \notin DOMAIN s =>
              /\ Missing(s, id) # {} /\ ~ Sized(f, id)
              /\ \A c \in Earliest(Missing(s, id)) : c = "E016"
         /\ id \in DOMAIN s =>
              \E k \in DOMAIN f.heads :
                 /\ First(f, id, k) /\ s[id] = SectionRef(f.heads[k])
                 /\ EndOf(f.heads[k]) % U64 <= f.len
                 /\ Sized(f, id) <=> ZkeySized(f, id, f.heads[k])
<1>1. ZkeyValid(f, checks) => Sized(f, id)
  BY DEF ZkeyValid, Sized
<1>2. ASSUME id \notin DOMAIN s
      PROVE  /\ Missing(s, id) # {} /\ ~ Sized(f, id)
             /\ \A c \in Earliest(Missing(s, id)) : c = "E016"
  <2>1. Missing(s, id) = {[rank |-> 1, code |-> "E016"]}
    BY <1>2, Zenon DEF Missing, Fault
  <2>2. ~ Sized(f, id)
    BY <1>2, NotFound DEF Sized
  <2>. QED
    BY <2>1, <2>2 DEF Earliest
<1>3. ASSUME id \in DOMAIN s
      PROVE  \E k \in DOMAIN f.heads :
                /\ First(f, id, k) /\ s[id] = SectionRef(f.heads[k])
                /\ EndOf(f.heads[k]) % U64 <= f.len
                /\ Sized(f, id) <=> ZkeySized(f, id, f.heads[k])
  <2>1. PICK k \in DOMAIN f.heads : First(f, id, k) /\ s[id] = SectionRef(f.heads[k])
    BY <1>3, Found
  <2>2. Sized(f, id) <=> ZkeySized(f, id, f.heads[k])
    BY <2>1, FirstIsOne DEF Sized
  <2>3. EndOf(f.heads[k]) % U64 <= f.len
    BY DEF TableValid
  <2>. QED
    BY <2>1, <2>2, <2>3
<1>. QED
  BY <1>1, <1>2, <1>3

----------------------------------------------------------------------------
(* The invariant, one lemma for each action.                               *)

LEMMA ZkeyPrefixStep ==
  ASSUME Inv, ZkeyPrefix
  PROVE  Inv'
<1>1. pc = "zkeyPrefix" /\ cur = BINFILE_PREFIX /\ i = 0 /\ secs = <<>>
  BY DEF ZkeyPrefix, Stage, Inv, PrefixKnown
<1>2. CASE PrefixFaults(job.zkey) # {}
  <2>1. ASSUME NEW c \in Earliest(PrefixFaults(job.zkey)) PROVE Explains(c, job)
    <3>1. PICK x \in PrefixFaults(job.zkey) : x.code = c
      BY EarliestFault
    <3>2. c \in {"E001", "E015"} /\ ~ TableValid(job.zkey, job.checks)
      BY <3>1, Known, PrefixStage
    <3>3. c \in ParserCodes /\ c # "PANIC" /\ ~ ZkeyValid(job.zkey, job.checks)
      BY <3>2 DEF ZkeyValid, ParserCodes
    <3>. QED
      BY <3>3, BadZkey
  <2>2. Fail(PrefixFaults(job.zkey))
    BY <1>2 DEF ZkeyPrefix, Stage
  <2>. QED
    BY <2>1, <2>2, FailStep
<1>3. CASE PrefixFaults(job.zkey) = {}
  <2>1. pc' = "zkeyTable" /\ UNCHANGED <<job, cur, i, secs, res>>
    BY <1>3 DEF ZkeyPrefix, Stage
  <2>2. TableKnown(job.zkey, job.checks, BINFILE_PREFIX, 0) /\ FoundKnown(job.zkey, <<>>, 0)
    BY Known DEF TableKnown, FoundKnown, NextAt, Binfile
  <2>3. PrefixKnown' /\ LoopKnown' /\ ZkeyKnown' /\ WtnsKnown' /\ ProverKnown'
    BY <1>1, <1>3, <2>1, <2>2 DEF PrefixKnown, LoopKnown, ZkeyKnown, WtnsKnown, ProverKnown,
       AfterWtns, AfterWtnsTable, AfterQueries, AfterCoefs, AfterIc, AfterGroth,
       AfterProtocol, AfterZkeyTable
  <2>. QED
    BY <1>1, <2>1, <2>3, Known, HandOver DEF Stages
<1>. QED
  BY <1>2, <1>3

LEMMA ZkeyTableStep ==
  ASSUME Inv, ZkeyTable
  PROVE  Inv'
<1> DEFINE f == job.zkey
<1>1. /\ pc = "zkeyTable" /\ TableKnown(f, job.checks, cur, i) /\ FoundKnown(f, secs, i)
      /\ i \in Nat /\ i <= Len(f.heads) /\ cur = NextAt(f, i) /\ Binfile(f)
      /\ f.len >= BINFILE_PREFIX /\ f.magic /\ job.checks \in BOOLEAN
  BY Known, PrefixStage DEF ZkeyTable, Table, Inv, PrefixKnown, LoopKnown, TableKnown
<1>2. CASE i = f.n_sections
  <2>1. pc' = "protocol" /\ UNCHANGED <<job, cur, i, secs, res>>
    BY <1>2 DEF ZkeyTable, Table
  <2>2. TableValid(f, job.checks) /\ FoundKnown(f, secs, f.n_sections)
    BY <1>1, <1>2, TableDone
  <2>3. PrefixKnown' /\ LoopKnown'
    BY <2>1, <2>2 DEF PrefixKnown, LoopKnown,
       AfterWtns, AfterWtnsTable, AfterQueries, AfterCoefs, AfterIc, AfterGroth,
       AfterProtocol, AfterZkeyTable
  <2>4. ZkeyKnown' /\ WtnsKnown' /\ ProverKnown'
    BY <1>1, <2>1, <2>2 DEF Inv, ZkeyKnown, WtnsKnown, ProverKnown, key,
       AfterWtns, AfterWtnsTable, AfterQueries, AfterCoefs, AfterIc, AfterGroth,
       AfterProtocol, AfterZkeyTable
  <2>. QED
    BY <1>1, <2>1, <2>3, <2>4, Known, HandOver DEF Stages
<1>3. CASE i # f.n_sections /\ NoRoom(f, cur) # {}
  <2>1. Fail(NoRoom(f, cur))
    BY <1>3 DEF ZkeyTable, Table
  <2>2. \A c \in Earliest(NoRoom(f, cur)) : c = "E015"
    BY EarliestFault DEF NoRoom, Fault
  <2>3. ~ TableValid(f, job.checks)
    BY <1>1, <1>3, NoRoomStage
  <2>. QED
    BY <2>1, <2>2, <2>3, FailStep, BadZkey DEF ZkeyValid, ParserCodes
<1>4. CASE i # f.n_sections /\ NoRoom(f, cur) = {}
  <2> DEFINE h == f.heads[i + 1]
  <2> DEFINE faults == SizeFaults(f, h, job.checks)
  <2>1. i + 1 \in DOMAIN f.heads
    BY <1>1, <1>4, RoomForHeader
  <2>2. CASE faults # {}
    <3>1. Fail(faults)
      BY <1>4, <2>2 DEF ZkeyTable, Table
    <3>2. ASSUME NEW c \in Earliest(faults)  PROVE Explains(c, job)
      <4>1. /\ c \in {"PANIC", "E015"} /\ ~ TableValid(f, job.checks)
            /\ c = "PANIC" => Wraps(f)
        BY <1>1, <2>1, <3>2, SizeStage, EarliestFault
      <4>. QED
        BY <4>1, BadZkey DEF ZkeyValid, ParserCodes
    <3>. QED
      BY <3>1, <3>2, FailStep
  <2>3. CASE faults = {}
    <3>1. /\ secs' = Note(secs, h) /\ cur' = EndOf(h) % U64 /\ i' = i + 1
          /\ UNCHANGED <<job, pc, res>>
      BY <1>4, <2>3, Zenon DEF ZkeyTable, Table
    <3>2. /\ TableKnown(f, job.checks, EndOf(h) % U64, i + 1)
          /\ FoundKnown(f, Note(secs, h), i + 1)
      BY <1>1, <2>1, <2>3, TableRound
    <3> HIDE DEF h, faults
    <3>3. PrefixKnown' /\ LoopKnown' /\ ZkeyKnown' /\ WtnsKnown' /\ ProverKnown'
      <4>1. PrefixKnown' /\ LoopKnown'
        BY <1>1, <3>1, <3>2 DEF Inv, PrefixKnown, LoopKnown,
           AfterWtns, AfterWtnsTable, AfterQueries, AfterCoefs, AfterIc, AfterGroth,
           AfterProtocol, AfterZkeyTable
      <4>2. ZkeyKnown' /\ WtnsKnown' /\ ProverKnown'
        BY <1>1, <3>1 DEF Inv, ZkeyKnown, WtnsKnown, ProverKnown, key,
           AfterWtns, AfterWtnsTable, AfterQueries, AfterCoefs, AfterIc, AfterGroth,
           AfterProtocol, AfterZkeyTable
      <4>. QED
        BY <4>1, <4>2
    <3>4. cur' \in Nat /\ i' \in Nat
      BY <1>1, <2>1, <3>1, HeadParts DEF h
    <3>. QED
      BY <1>1, <3>1, <3>3, <3>4, HandOver DEF Stages
  <2>. QED
    BY <2>2, <2>3
<1>. QED
  BY <1>2, <1>3, <1>4

LEMMA WtnsTableStep ==
  ASSUME Inv, WtnsTable
  PROVE  Inv'
<1> DEFINE f == job.wtns
<1>1. /\ pc = "wtnsTable" /\ TableKnown(f, job.checks, cur, i) /\ FoundKnown(f, secs, i)
      /\ i \in Nat /\ i <= Len(f.heads) /\ cur = NextAt(f, i) /\ Binfile(f)
      /\ f.len >= BINFILE_PREFIX /\ f.magic /\ job.checks \in BOOLEAN
  BY Known, PrefixStage DEF WtnsTable, Table, Inv, PrefixKnown, LoopKnown, TableKnown
<1>2. CASE i = f.n_sections
  <2>1. pc' = "wtns" /\ UNCHANGED <<job, cur, i, secs, res>>
    BY <1>2 DEF WtnsTable, Table
  <2>2. TableValid(f, job.checks) /\ FoundKnown(f, secs, f.n_sections)
    BY <1>1, <1>2, TableDone
  <2>3. PrefixKnown' /\ LoopKnown'
    BY <2>1, <2>2 DEF PrefixKnown, LoopKnown,
       AfterWtns, AfterWtnsTable, AfterQueries, AfterCoefs, AfterIc, AfterGroth,
       AfterProtocol, AfterZkeyTable
  <2>4. ZkeyKnown' /\ WtnsKnown' /\ ProverKnown'
    BY <1>1, <2>1, <2>2 DEF Inv, ZkeyKnown, WtnsKnown, ProverKnown, key,
       AfterWtns, AfterWtnsTable, AfterQueries, AfterCoefs, AfterIc, AfterGroth,
       AfterProtocol, AfterZkeyTable
  <2>. QED
    BY <1>1, <2>1, <2>3, <2>4, Known, HandOver DEF Stages
<1>3. CASE i # f.n_sections /\ NoRoom(f, cur) # {}
  <2>1. Fail(NoRoom(f, cur))
    BY <1>3 DEF WtnsTable, Table
  <2>2. \A c \in Earliest(NoRoom(f, cur)) : c = "E015"
    BY EarliestFault DEF NoRoom, Fault
  <2>3. ~ TableValid(f, job.checks)
    BY <1>1, <1>3, NoRoomStage
  <2>. QED
    BY <2>1, <2>2, <2>3, FailStep, BadWtns DEF WtnsValid, ParserCodes
<1>4. CASE i # f.n_sections /\ NoRoom(f, cur) = {}
  <2> DEFINE h == f.heads[i + 1]
  <2> DEFINE faults == SizeFaults(f, h, job.checks)
  <2>1. i + 1 \in DOMAIN f.heads
    BY <1>1, <1>4, RoomForHeader
  <2>2. CASE faults # {}
    <3>1. Fail(faults)
      BY <1>4, <2>2 DEF WtnsTable, Table
    <3>2. ASSUME NEW c \in Earliest(faults)  PROVE Explains(c, job)
      <4>1. /\ c \in {"PANIC", "E015"} /\ ~ TableValid(f, job.checks)
            /\ c = "PANIC" => Wraps(f)
        BY <1>1, <2>1, <3>2, SizeStage, EarliestFault
      <4>. QED
        BY <4>1, BadWtns DEF WtnsValid, ParserCodes
    <3>. QED
      BY <3>1, <3>2, FailStep
  <2>3. CASE faults = {}
    <3>1. /\ secs' = Note(secs, h) /\ cur' = EndOf(h) % U64 /\ i' = i + 1
          /\ UNCHANGED <<job, pc, res>>
      BY <1>4, <2>3, Zenon DEF WtnsTable, Table
    <3>2. /\ TableKnown(f, job.checks, EndOf(h) % U64, i + 1)
          /\ FoundKnown(f, Note(secs, h), i + 1)
      BY <1>1, <2>1, <2>3, TableRound
    <3> HIDE DEF h, faults
    <3>3. PrefixKnown' /\ LoopKnown' /\ ZkeyKnown' /\ WtnsKnown' /\ ProverKnown'
      <4>1. PrefixKnown' /\ LoopKnown'
        BY <1>1, <3>1, <3>2 DEF Inv, PrefixKnown, LoopKnown,
           AfterWtns, AfterWtnsTable, AfterQueries, AfterCoefs, AfterIc, AfterGroth,
           AfterProtocol, AfterZkeyTable
      <4>2. ZkeyKnown' /\ WtnsKnown' /\ ProverKnown'
        BY <1>1, <3>1 DEF Inv, ZkeyKnown, WtnsKnown, ProverKnown, key,
           AfterWtns, AfterWtnsTable, AfterQueries, AfterCoefs, AfterIc, AfterGroth,
           AfterProtocol, AfterZkeyTable
      <4>. QED
        BY <4>1, <4>2
    <3>4. cur' \in Nat /\ i' \in Nat
      BY <1>1, <2>1, <3>1, HeadParts DEF h
    <3>. QED
      BY <1>1, <3>1, <3>3, <3>4, HandOver DEF Stages
  <2>. QED
    BY <2>2, <2>3
<1>. QED
  BY <1>2, <1>3, <1>4

LEMMA ParseProtocolStep ==
  ASSUME Inv, ParseProtocol
  PROVE  Inv'
<1> DEFINE f == job.zkey
<1> DEFINE faults == IF 1 \in DOMAIN secs THEN ProtocolFaults(f, secs[1]) ELSE Missing(secs, 1)
<1>1. /\ pc = "protocol" /\ f \in Zkey /\ Binfile(f) /\ TableValid(f, job.checks)
      /\ FoundKnown(f, secs, f.n_sections)
      /\ faults # {} => Fail(faults)
      /\ faults = {} => pc' = "groth" /\ UNCHANGED <<job, cur, i, secs, res>>
  BY Known, Zenon DEF ParseProtocol, Stage, Inv, LoopKnown, ZkeyKnown, AfterWtns, AfterWtnsTable,
     AfterQueries, AfterCoefs, AfterIc, AfterGroth, AfterProtocol, AfterZkeyTable
<1>2. CASE 1 \notin DOMAIN secs
  <2>1. faults = Missing(secs, 1)
    BY <1>2
  <2>2. /\ faults # {} /\ ~ ZkeyValid(f, job.checks)
        /\ \A c \in Earliest(faults) : c = "E016"
    BY <1>1, <1>2, <2>1, ZkeySection, 1 \in 1 .. 9
  <2>. QED
    BY <1>1, <2>2, FailStep, BadZkey DEF ParserCodes
<1>3. CASE 1 \in DOMAIN secs
  <2>1. PICK k \in DOMAIN f.heads :
          /\ First(f, 1, k) /\ secs[1] = SectionRef(f.heads[k])
          /\ EndOf(f.heads[k]) % U64 <= f.len
          /\ Sized(f, 1) <=> ZkeySized(f, 1, f.heads[k])
    BY <1>1, <1>3, ZkeySection, 1 \in 1 .. 9
  <2>2. faults = ProtocolFaults(f, SectionRef(f.heads[k]))
    BY <1>3, <2>1
  <2>3. /\ faults = {} => Sized(f, 1) /\ f.proto = 1
        /\ \A c \in Earliest(faults) :
             /\ c \in ParserCodes
             /\ ~ (Sized(f, 1) /\ f.proto = 1)
             /\ c = "PANIC" => Wraps(f) \/ CutShort(f)
    BY <1>1, <2>1, <2>2, ProtocolStage
  <2>4. ZkeyValid(f, job.checks) => Sized(f, 1) /\ f.proto = 1
    BY <1>1, ZkeySection, 1 \in 1 .. 9 DEF ZkeyValid
  <2>5. CASE faults # {}
    BY <1>1, <2>3, <2>4, <2>5, FailStep, BadZkey
  <2>6. CASE faults = {}
    <3>1. pc' = "groth" /\ UNCHANGED <<job, cur, i, secs, res>>
      BY <1>1, <2>6
    <3>2. Sized(f, 1) /\ f.proto = 1
      BY <2>3, <2>6
    <3> HIDE DEF faults
    <3>3. PrefixKnown' /\ LoopKnown' /\ WtnsKnown' /\ ProverKnown'
      BY <1>1, <3>1 DEF PrefixKnown, LoopKnown, WtnsKnown, ProverKnown, AfterWtns,
         AfterWtnsTable, AfterQueries, AfterCoefs, AfterIc, AfterGroth, AfterProtocol,
         AfterZkeyTable
    <3>4. ZkeyKnown'
      BY <1>1, <3>1, <3>2 DEF Inv, ZkeyKnown, key, AfterWtns,
         AfterWtnsTable, AfterQueries, AfterCoefs, AfterIc, AfterGroth, AfterProtocol,
         AfterZkeyTable
    <3>. QED
      BY <1>1, <3>1, <3>3, <3>4, Known, HandOver DEF Stages
  <2>. QED
    BY <2>5, <2>6
<1>. QED
  BY <1>2, <1>3

LEMMA ParseGrothStep ==
  ASSUME Inv, ParseGroth
  PROVE  Inv'
<1> DEFINE f == job.zkey
<1> DEFINE faults == IF 2 \in DOMAIN secs THEN GrothFaults(f, secs[2]) ELSE Missing(secs, 2)
<1>1. /\ pc = "groth" /\ f \in Zkey /\ Binfile(f) /\ TableValid(f, job.checks)
      /\ FoundKnown(f, secs, f.n_sections)
      /\ faults # {} => Fail(faults)
      /\ faults = {} => pc' = "ic" /\ UNCHANGED <<job, cur, i, secs, res>>
  BY Known, Zenon DEF ParseGroth, Stage, Inv, LoopKnown, ZkeyKnown, AfterWtns, AfterWtnsTable,
     AfterQueries, AfterCoefs, AfterIc, AfterGroth, AfterProtocol, AfterZkeyTable
<1>2. CASE 2 \notin DOMAIN secs
  <2>1. faults = Missing(secs, 2)
    BY <1>2
  <2>2. /\ faults # {} /\ ~ ZkeyValid(f, job.checks)
        /\ \A c \in Earliest(faults) : c = "E016"
    BY <1>1, <1>2, <2>1, ZkeySection, 2 \in 1 .. 9
  <2>. QED
    BY <1>1, <2>2, FailStep, BadZkey DEF ParserCodes
<1>3. CASE 2 \in DOMAIN secs
  <2>1. PICK k \in DOMAIN f.heads :
          /\ First(f, 2, k) /\ secs[2] = SectionRef(f.heads[k])
          /\ EndOf(f.heads[k]) % U64 <= f.len
          /\ Sized(f, 2) <=> ZkeySized(f, 2, f.heads[k])
    BY <1>1, <1>3, ZkeySection, 2 \in 1 .. 9
  <2>2. faults = GrothFaults(f, SectionRef(f.heads[k]))
    BY <1>3, <2>1
  <2>3. /\ faults = {} => Sized(f, 2) /\ GrothSound(f.groth)
        /\ \A c \in Earliest(faults) :
             /\ c \in ParserCodes
             /\ ~ (Sized(f, 2) /\ GrothSound(f.groth))
             /\ c = "PANIC" => Wraps(f) \/ CutShort(f)
    BY <1>1, <2>1, <2>2, GrothStage
  <2>4. ZkeyValid(f, job.checks) => Sized(f, 2) /\ GrothSound(f.groth)
    BY <1>1, ZkeySection, 2 \in 1 .. 9 DEF ZkeyValid, GrothSound
  <2>5. CASE faults # {}
    BY <1>1, <2>3, <2>4, <2>5, FailStep, BadZkey
  <2>6. CASE faults = {}
    <3>1. pc' = "ic" /\ UNCHANGED <<job, cur, i, secs, res>>
      BY <1>1, <2>6
    <3>2. Sized(f, 2) /\ GrothSound(f.groth)
      BY <2>3, <2>6
    <3> HIDE DEF faults
    <3>3. PrefixKnown' /\ LoopKnown' /\ WtnsKnown' /\ ProverKnown'
      BY <1>1, <3>1 DEF PrefixKnown, LoopKnown, WtnsKnown, ProverKnown, AfterWtns,
         AfterWtnsTable, AfterQueries, AfterCoefs, AfterIc, AfterGroth, AfterProtocol,
         AfterZkeyTable
    <3>4. ZkeyKnown'
      BY <1>1, <3>1, <3>2 DEF Inv, ZkeyKnown, key, GrothSound, AfterWtns,
         AfterWtnsTable, AfterQueries, AfterCoefs, AfterIc, AfterGroth, AfterProtocol,
         AfterZkeyTable
    <3>. QED
      BY <1>1, <3>1, <3>3, <3>4, Known, HandOver DEF Stages
  <2>. QED
    BY <2>5, <2>6
<1>. QED
  BY <1>2, <1>3

LEMMA ParseIcStep ==
  ASSUME Inv, ParseIc
  PROVE  Inv'
<1> DEFINE f == job.zkey
<1> DEFINE faults == IF 3 \in DOMAIN secs THEN PointArrayFaults(f, secs[3], 3) ELSE Missing(secs, 3)
<1>1. /\ pc = "ic" /\ f \in Zkey /\ Binfile(f) /\ TableValid(f, job.checks)
      /\ FoundKnown(f, secs, f.n_sections)
      /\ faults # {} => Fail(faults)
      /\ faults = {} => pc' = "coefs" /\ UNCHANGED <<job, cur, i, secs, res>>
  BY Known, Zenon DEF ParseIc, Stage, Inv, LoopKnown, ZkeyKnown, AfterWtns, AfterWtnsTable,
     AfterQueries, AfterCoefs, AfterIc, AfterGroth, AfterProtocol, AfterZkeyTable
<1>2. CASE 3 \notin DOMAIN secs
  <2>1. faults = Missing(secs, 3)
    BY <1>2
  <2>2. /\ faults # {} /\ ~ ZkeyValid(f, job.checks)
        /\ \A c \in Earliest(faults) : c = "E016"
    BY <1>1, <1>2, <2>1, ZkeySection, 3 \in 1 .. 9
  <2>. QED
    BY <1>1, <2>2, FailStep, BadZkey DEF ParserCodes
<1>3. CASE 3 \in DOMAIN secs
  <2>1. PICK k \in DOMAIN f.heads :
          /\ First(f, 3, k) /\ secs[3] = SectionRef(f.heads[k])
          /\ EndOf(f.heads[k]) % U64 <= f.len
          /\ Sized(f, 3) <=> ZkeySized(f, 3, f.heads[k])
    BY <1>1, <1>3, ZkeySection, 3 \in 1 .. 9
  <2>2. faults = PointArrayFaults(f, SectionRef(f.heads[k]), 3)
    BY <1>3, <2>1
  <2>3. /\ faults = {} => Sized(f, 3) /\ ArraySound(f, 3)
        /\ \A c \in Earliest(faults) :
             /\ c \in ParserCodes
             /\ ~ (Sized(f, 3) /\ ArraySound(f, 3))
             /\ c = "PANIC" => Wraps(f) \/ CutShort(f)
    BY <1>1, <2>1, <2>2, PointArrayStage DEF PointSections, ParserCodes
  <2>4. ZkeyValid(f, job.checks) => Sized(f, 3) /\ ArraySound(f, 3)
    BY <1>1, ZkeySection, 3 \in 1 .. 9 DEF ZkeyValid, ArraySound, PointSections
  <2>5. CASE faults # {}
    BY <1>1, <2>3, <2>4, <2>5, FailStep, BadZkey
  <2>6. CASE faults = {}
    <3>1. pc' = "coefs" /\ UNCHANGED <<job, cur, i, secs, res>>
      BY <1>1, <2>6
    <3>2. Sized(f, 3) /\ ArraySound(f, 3)
      BY <2>3, <2>6
    <3> HIDE DEF faults
    <3>3. PrefixKnown' /\ LoopKnown' /\ WtnsKnown' /\ ProverKnown'
      BY <1>1, <3>1 DEF PrefixKnown, LoopKnown, WtnsKnown, ProverKnown, AfterWtns,
         AfterWtnsTable, AfterQueries, AfterCoefs, AfterIc, AfterGroth, AfterProtocol,
         AfterZkeyTable
    <3>4. ZkeyKnown'
      BY <1>1, <3>1, <3>2 DEF Inv, ZkeyKnown, key, ArraySound, PointsSound, AfterWtns,
         AfterWtnsTable, AfterQueries, AfterCoefs, AfterIc, AfterGroth, AfterProtocol,
         AfterZkeyTable
    <3>. QED
      BY <1>1, <3>1, <3>3, <3>4, Known, HandOver DEF Stages
  <2>. QED
    BY <2>5, <2>6
<1>. QED
  BY <1>2, <1>3

LEMMA ParseCoefsStep ==
  ASSUME Inv, ParseCoefs
  PROVE  Inv'
<1> DEFINE f == job.zkey
<1> DEFINE faults == IF 4 \in DOMAIN secs THEN CoefFaults(f, secs[4]) ELSE Missing(secs, 4)
<1>1. /\ pc = "coefs" /\ f \in Zkey /\ Binfile(f) /\ TableValid(f, job.checks)
      /\ FoundKnown(f, secs, f.n_sections)
      /\ faults # {} => Fail(faults)
      /\ faults = {} => pc' = "queries" /\ i' = 5 /\ UNCHANGED <<job, cur, secs, res>>
  BY Known, Zenon DEF ParseCoefs, Stage, Inv, LoopKnown, ZkeyKnown, AfterWtns, AfterWtnsTable,
     AfterQueries, AfterCoefs, AfterIc, AfterGroth, AfterProtocol, AfterZkeyTable
<1>2. CASE 4 \notin DOMAIN secs
  <2>1. faults = Missing(secs, 4)
    BY <1>2
  <2>2. /\ faults # {} /\ ~ ZkeyValid(f, job.checks)
        /\ \A c \in Earliest(faults) : c = "E016"
    BY <1>1, <1>2, <2>1, ZkeySection, 4 \in 1 .. 9
  <2>. QED
    BY <1>1, <2>2, FailStep, BadZkey DEF ParserCodes
<1>3. CASE 4 \in DOMAIN secs
  <2>1. PICK k \in DOMAIN f.heads :
          /\ First(f, 4, k) /\ secs[4] = SectionRef(f.heads[k])
          /\ EndOf(f.heads[k]) % U64 <= f.len
          /\ Sized(f, 4) <=> ZkeySized(f, 4, f.heads[k])
    BY <1>1, <1>3, ZkeySection, 4 \in 1 .. 9
  <2>2. faults = CoefFaults(f, SectionRef(f.heads[k]))
    BY <1>3, <2>1
  <2>3. /\ faults = {} => Sized(f, 4) /\ RowsSound(f)
        /\ \A c \in Earliest(faults) :
             /\ c \in ParserCodes
             /\ ~ (Sized(f, 4) /\ RowsSound(f))
             /\ c = "PANIC" => Wraps(f) \/ CutShort(f)
    BY <1>1, <2>1, <2>2, CoefStage
  <2>4. ZkeyValid(f, job.checks) => Sized(f, 4) /\ RowsSound(f)
    BY <1>1, ZkeySection, 4 \in 1 .. 9 DEF ZkeyValid, RowsSound
  <2>5. CASE faults # {}
    BY <1>1, <2>3, <2>4, <2>5, FailStep, BadZkey
  <2>6. CASE faults = {}
    <3>1. pc' = "queries" /\ i' = 5 /\ UNCHANGED <<job, cur, secs, res>>
      BY <1>1, <2>6
    <3>2. Sized(f, 4) /\ RowsSound(f)
      BY <2>3, <2>6
    <3> HIDE DEF faults
    <3>3. PrefixKnown' /\ LoopKnown' /\ WtnsKnown' /\ ProverKnown'
      BY <1>1, <3>1 DEF PrefixKnown, LoopKnown, WtnsKnown, ProverKnown, AfterWtns,
         AfterWtnsTable, AfterQueries, AfterCoefs, AfterIc, AfterGroth, AfterProtocol,
         AfterZkeyTable
    <3>4. ZkeyKnown'
      BY <1>1, <3>1, <3>2 DEF Inv, ZkeyKnown, key, RowsSound, AfterWtns,
         AfterWtnsTable, AfterQueries, AfterCoefs, AfterIc, AfterGroth, AfterProtocol,
         AfterZkeyTable
    <3>. QED
      BY <1>1, <3>1, <3>3, <3>4, Known, HandOver DEF Stages
  <2>. QED
    BY <2>5, <2>6
<1>. QED
  BY <1>2, <1>3

\* A query section that passes leaves its points sound; after the last one the
\* whole file is valid.
LEMMA ParseQueryStep ==
  ASSUME Inv, ParseQuery
  PROVE  Inv'
<1> DEFINE f == job.zkey
<1> DEFINE faults == IF i \in DOMAIN secs THEN PointArrayFaults(f, secs[i], i) ELSE Missing(secs, i)
<1>1. /\ pc = "queries" /\ f \in Zkey /\ Binfile(f) /\ TableValid(f, job.checks)
      /\ FoundKnown(f, secs, f.n_sections) /\ i \in 5 .. 9
  BY Known DEF ParseQuery, Inv, LoopKnown, ZkeyKnown, AfterWtns, AfterWtnsTable,
     AfterQueries, AfterCoefs, AfterIc, AfterGroth, AfterProtocol, AfterZkeyTable
<1>2. /\ i \in 1 .. 9 /\ i \in PointSections
  BY <1>1 DEF PointSections
<1>3. faults # {} => Fail(faults)
  BY Zenon DEF ParseQuery
<1>4. CASE i \notin DOMAIN secs
  <2>1. /\ faults # {} /\ ~ ZkeyValid(f, job.checks)
        /\ \A c \in Earliest(faults) : c = "E016"
    BY <1>1, <1>2, <1>4, ZkeySection
  <2>. QED
    BY <1>3, <2>1, FailStep, BadZkey DEF ParserCodes
<1>5. CASE i \in DOMAIN secs
  <2>1. PICK k \in DOMAIN f.heads :
          /\ First(f, i, k) /\ secs[i] = SectionRef(f.heads[k])
          /\ EndOf(f.heads[k]) % U64 <= f.len
          /\ Sized(f, i) <=> ZkeySized(f, i, f.heads[k])
    BY <1>1, <1>2, <1>5, ZkeySection
  <2>2. faults = PointArrayFaults(f, SectionRef(f.heads[k]), i)
    BY <1>5, <2>1
  <2>3. /\ faults = {} => Sized(f, i) /\ ArraySound(f, i)
        /\ \A c \in Earliest(faults) :
             /\ c \in ParserCodes \ {"PANIC"}
             /\ ~ (Sized(f, i) /\ ArraySound(f, i))
    BY <1>1, <1>2, <2>1, <2>2, PointArrayStage
  <2>4. ZkeyValid(f, job.checks) => Sized(f, i) /\ ArraySound(f, i)
    BY <1>1, <1>2, ZkeySection DEF ZkeyValid, ArraySound
  <2>5. CASE faults # {}
    BY <1>1, <1>3, <2>3, <2>4, <2>5, FailStep, BadZkey
  <2>6. CASE faults = {}
    <3>1. PointsSound(f, i)
      BY <2>3, <2>6 DEF PointsSound, ArraySound
    <3>2. CASE i < 9
      <4>1. pc' = "queries" /\ i' = i + 1 /\ UNCHANGED <<job, cur, secs, res>>
        BY <1>1, <2>6, <3>2, Zenon DEF ParseQuery
      <4>2. \A id \in 5 .. i : PointsSound(f, id)
        <5>1. \A id \in 5 .. i - 1 : PointsSound(f, id)
          BY <1>1 DEF Inv, ZkeyKnown
        <5>. QED
          BY <1>1, <3>1, <5>1
      <4>3. i' \in 5 .. 9 /\ i' - 1 = i
        BY <1>1, <3>2, <4>1
      <4> HIDE DEF faults
      <4>4. PrefixKnown' /\ LoopKnown' /\ WtnsKnown' /\ ProverKnown'
        BY <1>1, <4>1, <4>3 DEF PrefixKnown, LoopKnown, WtnsKnown, ProverKnown, AfterWtns,
           AfterWtnsTable, AfterQueries, AfterCoefs, AfterIc, AfterGroth, AfterProtocol,
           AfterZkeyTable
      <4>5. ZkeyKnown'
        <5>1. pc' = "queries" => \A id \in 5 .. i' - 1 : PointsSound(job'.zkey, id)
          BY <4>1, <4>2, <4>3
        <5>. QED
          BY <1>1, <4>1, <5>1 DEF Inv, ZkeyKnown, key, AfterWtns, AfterWtnsTable,
             AfterQueries, AfterCoefs, AfterIc, AfterGroth, AfterProtocol, AfterZkeyTable
      <4>. QED
        BY <1>1, <4>1, <4>3, <4>4, <4>5, Known, HandOver DEF Stages
    <3>3. CASE i = 9
      <4>1. /\ pc' = "wtnsPrefix" /\ cur' = BINFILE_PREFIX /\ i' = 0 /\ secs' = <<>>
            /\ UNCHANGED <<job, res>>
        <5>1. ~ (i < 9)
          BY <3>3
        <5>. QED
          BY <2>6, <5>1, Zenon DEF ParseQuery
      <4>2. ZkeyValid(f, job.checks)
        <5>1. \A id \in 5 .. 8 : PointsSound(f, id)
          BY <1>1, <3>3 DEF Inv, ZkeyKnown
        <5>2. /\ Sized(f, 1) /\ Sized(f, 2) /\ PointsSound(f, 3) /\ Sized(f, 4)
              /\ f.proto = 1 /\ f.groth.n8q /\ f.groth.q /\ f.groth.n8r /\ f.groth.r
              /\ \A j \in 1 .. 6 : SoundPoint(f.groth.vk[j])
              /\ \A k1 \in 1 .. f.n_coefs : RowValid(f.groth, f.rows[k1])
          BY <1>1 DEF Inv, ZkeyKnown, key, AfterWtns, AfterWtnsTable, AfterQueries,
             AfterCoefs, AfterIc, AfterGroth, AfterProtocol, AfterZkeyTable
        <5>3. \A id \in PointSections : PointsSound(f, id)
          BY <3>1, <3>3, <5>1, <5>2 DEF PointSections
        <5>4. \A id \in 1 .. 9 : Sized(f, id)
          <6>1. ASSUME NEW id \in 1 .. 9  PROVE id \in {1, 2, 4} \/ id \in PointSections
            BY <6>1 DEF PointSections
          <6>. QED
            BY <5>2, <5>3, <6>1 DEF PointsSound
        <5>. QED
          BY <1>1, <5>2, <5>3, <5>4 DEF ZkeyValid, Sized, PointsSound
      <4> HIDE DEF faults
      <4>3. PrefixKnown' /\ LoopKnown' /\ WtnsKnown' /\ ProverKnown'
        BY <4>1 DEF PrefixKnown, LoopKnown, WtnsKnown, ProverKnown, AfterWtns,
           AfterWtnsTable, AfterQueries, AfterCoefs, AfterIc, AfterGroth, AfterProtocol,
           AfterZkeyTable
      <4>4. ZkeyKnown'
        BY <1>1, <4>1, <4>2, <3>1, <3>3 DEF Inv, ZkeyKnown, key, AfterWtns, AfterWtnsTable,
           AfterQueries, AfterCoefs, AfterIc, AfterGroth, AfterProtocol, AfterZkeyTable
      <4>. QED
        BY <1>1, <4>1, <4>3, <4>4, HandOver DEF Stages, BINFILE_PREFIX
    <3>. QED
      BY <1>1, <3>2, <3>3
  <2>. QED
    BY <2>5, <2>6
<1>. QED
  BY <1>4, <1>5

LEMMA WtnsPrefixStep ==
  ASSUME Inv, WtnsPrefix
  PROVE  Inv'
<1>1. pc = "wtnsPrefix" /\ cur = BINFILE_PREFIX /\ i = 0 /\ secs = <<>>
  BY DEF WtnsPrefix, Stage, Inv, PrefixKnown
<1>2. CASE PrefixFaults(job.wtns) # {}
  <2>1. \A c \in Earliest(PrefixFaults(job.wtns)) : Explains(c, job)
    BY Known, PrefixStage, EarliestFault, BadWtns DEF WtnsValid, ParserCodes
  <2>. QED
    BY <1>2, <2>1, FailStep DEF WtnsPrefix, Stage
<1>3. CASE PrefixFaults(job.wtns) = {}
  <2>1. pc' = "wtnsTable" /\ UNCHANGED <<job, cur, i, secs, res>>
    BY <1>3 DEF WtnsPrefix, Stage
  <2>2. TableKnown(job.wtns, job.checks, BINFILE_PREFIX, 0) /\ FoundKnown(job.wtns, <<>>, 0)
    BY Known DEF TableKnown, FoundKnown, NextAt, Binfile
  <2>3. PrefixKnown' /\ LoopKnown' /\ WtnsKnown' /\ ProverKnown'
    BY <1>1, <1>3, <2>1, <2>2 DEF PrefixKnown, LoopKnown, WtnsKnown, ProverKnown,
       AfterWtns, AfterWtnsTable, AfterQueries, AfterCoefs, AfterIc, AfterGroth,
       AfterProtocol, AfterZkeyTable
  <2>4. ZkeyKnown'
    BY <1>1, <2>1 DEF Inv, ZkeyKnown, key, AfterWtns, AfterWtnsTable, AfterQueries,
       AfterCoefs, AfterIc, AfterGroth, AfterProtocol, AfterZkeyTable
  <2>. QED
    BY <1>1, <2>1, <2>3, <2>4, Known, HandOver DEF Stages
<1>. QED
  BY <1>2, <1>3

LEMMA ParseWtnsStep ==
  ASSUME Inv, ParseWtns
  PROVE  Inv'
<1> DEFINE f == job.wtns
<1> DEFINE faults == IF {1, 2} \subseteq DOMAIN secs THEN WtnsFaults(f, secs[1], secs[2])
                     ELSE Missing(secs, 1) \cup Missing(secs, 2)
<1>1. /\ pc = "wtns" /\ f \in Wtns /\ Binfile(f) /\ TableValid(f, job.checks)
      /\ FoundKnown(f, secs, f.n_sections)
  BY Known DEF ParseWtns, Stage, Inv, LoopKnown, WtnsKnown, AfterWtnsTable
<1>2. /\ faults # {} => Fail(faults)
      /\ faults = {} => pc' = "shape" /\ UNCHANGED <<job, cur, i, secs, res>>
  BY Zenon DEF ParseWtns, Stage
<1>3. CASE ~ ({1, 2} \subseteq DOMAIN secs)
  <2>1. PICK id \in {1, 2} : id \notin DOMAIN secs
    BY <1>3
  <2>2. \A k \in DOMAIN f.heads : ~ First(f, id, k)
    BY <1>1, <2>1, NotFound
  <2>3. ~ WtnsValid(f, job.checks)
    BY <2>1, <2>2 DEF WtnsValid
  <2>4. \A c \in Earliest(faults) : c = "E016"
    BY <1>3 DEF Earliest, Missing, Fault
  <2>5. faults # {}
    <3>1. Missing(secs, id) # {}
      BY <2>1, Zenon DEF Missing, Fault
    <3>. QED
      BY <1>3, <2>1, <3>1
  <2>. QED
    BY <1>2, <2>3, <2>4, <2>5, FailStep, BadWtns DEF ParserCodes
<1>4. CASE {1, 2} \subseteq DOMAIN secs
  <2>1. PICK k \in DOMAIN f.heads : First(f, 1, k) /\ secs[1] = SectionRef(f.heads[k])
    BY <1>1, <1>4, Found
  <2>2. PICK l \in DOMAIN f.heads : First(f, 2, l) /\ secs[2] = SectionRef(f.heads[l])
    BY <1>1, <1>4, Found
  <2> DEFINE Sound == /\ HeaderSized(f, f.heads[k]) /\ ValuesSized(f, f.heads[l])
                      /\ f.n8 /\ f.prime /\ ValuesSound(f)
  <2>3. EndOf(f.heads[k]) % U64 <= f.len /\ EndOf(f.heads[l]) % U64 <= f.len
    BY <1>1, <2>1, <2>2 DEF TableValid
  <2>4. faults = WtnsFaults(f, SectionRef(f.heads[k]), SectionRef(f.heads[l]))
    BY <1>4, <2>1, <2>2
  <2>5. /\ faults = {} => Sound
        /\ \A c \in Earliest(faults) :
             c \in ParserCodes /\ ~ Sound /\ (c = "PANIC" => Wraps(f))
    BY <1>1, <2>3, <2>4, WtnsStage
  <2>6. WtnsValid(f, job.checks) <=> Sound
    BY <1>1, <2>1, <2>2, FirstIsOne
    DEF WtnsValid, HeaderSized, ValuesSized, ValuesSound
  <2> HIDE DEF Sound
  <2>7. CASE faults # {}
    <3>1. \A c \in Earliest(faults) : Explains(c, job)
      BY <2>5, <2>6, BadWtns
    <3>. QED
      BY <1>2, <2>7, <3>1, FailStep
  <2>8. CASE faults = {}
    <3>1. pc' = "shape" /\ UNCHANGED <<job, cur, i, secs, res>>
      BY <1>2, <2>8
    <3>2. WtnsValid(f, job.checks)
      BY <2>5, <2>6, <2>8
    <3> HIDE DEF faults
    <3>3. PrefixKnown' /\ LoopKnown' /\ WtnsKnown' /\ ProverKnown'
      BY <1>1, <3>1, <3>2 DEF PrefixKnown, LoopKnown, WtnsKnown, ProverKnown, AfterWtns,
         AfterWtnsTable, AfterQueries, AfterCoefs, AfterIc, AfterGroth, AfterProtocol,
         AfterZkeyTable
    <3>4. ZkeyKnown'
      BY <1>1, <3>1 DEF Inv, ZkeyKnown, key, AfterWtns, AfterWtnsTable, AfterQueries,
         AfterCoefs, AfterIc, AfterGroth, AfterProtocol, AfterZkeyTable
    <3>. QED
      BY <1>1, <3>1, <3>3, <3>4, Known, HandOver DEF Stages
  <2>. QED
    BY <2>7, <2>8
<1>. QED
  BY <1>3, <1>4

\* Once both files are parsed.
LEMMA KnownAfterWtns ==
  ASSUME Inv, pc \in AfterWtns
  PROVE  /\ FilesValid(job) /\ RowsSound(job.zkey)
         /\ pc # "shape" => ShapeFaults(job) = {}
         /\ pc \in {"msm", "bind"} => DomainFaults(job) = {}
         /\ pc = "bind" => key.n_public < key.n_vars
<1>1. ZkeyValid(job.zkey, job.checks) /\ WtnsValid(job.wtns, job.checks)
  BY DEF Inv, ZkeyKnown, WtnsKnown, AfterQueries, AfterWtnsTable
<1>. QED
  BY <1>1 DEF FilesValid, RowsSound, ZkeyValid, Inv, ProverKnown

\* A stage of the prover that hands over to the next.
LEMMA ProverHandOver ==
  ASSUME Inv, pc \in AfterWtns, pc' \in AfterWtns \ {"shape"},
         UNCHANGED <<job, cur, i, secs, res>>, ProverKnown'
  PROVE  Inv'
<1>1. PrefixKnown' /\ LoopKnown' /\ WtnsKnown'
  BY DEF Inv, PrefixKnown, LoopKnown, WtnsKnown, AfterWtns,
     AfterWtnsTable, AfterQueries, AfterCoefs, AfterIc, AfterGroth, AfterProtocol,
     AfterZkeyTable
<1>2. ZkeyKnown'
  BY DEF Inv, ZkeyKnown, key, AfterWtns, AfterWtnsTable, AfterQueries,
     AfterCoefs, AfterIc, AfterGroth, AfterProtocol, AfterZkeyTable
<1>. QED
  BY <1>1, <1>2, Known, HandOver DEF Stages, AfterWtns

LEMMA CheckShapeStep ==
  ASSUME Inv, CheckShape
  PROVE  Inv'
<1>1. pc = "shape" /\ pc \in AfterWtns
  BY DEF CheckShape, Stage, AfterWtns
<1>2. CASE ShapeFaults(job) # {}
  <2>1. \A c \in Earliest(ShapeFaults(job)) : Explains(c, job)
    BY <1>1, Known, KnownAfterWtns, ShapeStage DEF Explains, Codes, Stuck
  <2>. QED
    BY <1>2, <2>1, FailStep DEF CheckShape, Stage
<1>3. CASE ShapeFaults(job) = {}
  <2>1. pc' = "abc" /\ UNCHANGED <<job, cur, i, secs, res>>
    BY <1>3 DEF CheckShape, Stage
  <2>2. ProverKnown'
    BY <1>3, <2>1 DEF ProverKnown
  <2>. QED
    BY <1>1, <2>1, <2>2, ProverHandOver DEF AfterWtns
<1>. QED
  BY <1>2, <1>3

\* The rows were compared with the counts by the parser.
LEMMA BuildAbcStep ==
  ASSUME Inv, BuildAbc
  PROVE  Inv'
<1>1. pc = "abc" /\ pc \in AfterWtns
  BY DEF BuildAbc, Stage, AfterWtns
<1>2. ShapeFaults(job) = {} /\ AbcFaults(job) = {}
  BY <1>1, Known, KnownAfterWtns, AbcStage
<1>3. pc' = "domain" /\ UNCHANGED <<job, cur, i, secs, res>>
  BY <1>2 DEF BuildAbc, Stage
<1>4. ProverKnown'
  BY <1>2, <1>3 DEF ProverKnown
<1>. QED
  BY <1>1, <1>3, <1>4, ProverHandOver DEF AfterWtns

LEMMA MakeDomainStep ==
  ASSUME Inv, MakeDomain
  PROVE  Inv'
<1>1. pc = "domain" /\ pc \in AfterWtns
  BY DEF MakeDomain, Stage, AfterWtns
<1>2. FilesValid(job) /\ ShapeFaults(job) = {}
  BY <1>1, KnownAfterWtns
<1>3. CASE DomainFaults(job) # {}
  <2>1. ASSUME NEW c \in Earliest(DomainFaults(job))  PROVE Explains(c, job)
    <3>1. /\ ~ Provable(job)
          /\ \/ c = "E017" /\ job.zkey.groth.domain_size > MAX_DOMAIN
             \/ c \in Stuck /\ Degenerate(job.zkey.groth)
      BY <2>1, Known, DomainStage, EarliestFault
    <3>. QED
      BY <1>2, <3>1 DEF Explains, Codes, Stuck
  <2>. QED
    BY <1>3, <2>1, FailStep DEF MakeDomain, Stage
<1>4. CASE DomainFaults(job) = {}
  <2>1. pc' = "msm" /\ UNCHANGED <<job, cur, i, secs, res>>
    BY <1>4 DEF MakeDomain, Stage
  <2>2. ProverKnown'
    BY <1>2, <1>4, <2>1 DEF ProverKnown
  <2>. QED
    BY <1>1, <2>1, <2>2, ProverHandOver DEF AfterWtns
<1>. QED
  BY <1>3, <1>4

LEMMA MultiplyStep ==
  ASSUME Inv, Multiply
  PROVE  Inv'
<1>1. pc = "msm" /\ pc \in AfterWtns
  BY DEF Multiply, Stage, AfterWtns
<1>2. FilesValid(job) /\ ShapeFaults(job) = {} /\ DomainFaults(job) = {}
  BY <1>1, KnownAfterWtns
<1>3. CASE MsmFaults(job) # {}
  <2>1. \A c \in Earliest(MsmFaults(job)) : Explains(c, job)
    BY <1>2, Known, MsmStage DEF Explains, Codes, Stuck
  <2>. QED
    BY <1>3, <2>1, FailStep DEF Multiply, Stage
<1>4. CASE MsmFaults(job) = {}
  <2>1. pc' = "bind" /\ UNCHANGED <<job, cur, i, secs, res>>
    BY <1>4 DEF Multiply, Stage
  <2>2. key.n_public < key.n_vars
    BY <1>2, <1>4, Known, MsmStage DEF key
  <2>3. ProverKnown'
    BY <1>2, <2>1, <2>2 DEF ProverKnown, key
  <2>. QED
    BY <1>1, <2>1, <2>3, ProverHandOver DEF AfterWtns
<1>. QED
  BY <1>3, <1>4

LEMMA BindStep ==
  ASSUME Inv, Bind
  PROVE  Inv'
<1>1. pc = "bind" /\ pc \in AfterWtns
  BY DEF Bind, AfterWtns
<1>2. /\ FilesValid(job) /\ ShapeFaults(job) = {} /\ DomainFaults(job) = {}
      /\ job.zkey.groth.n_public < job.zkey.groth.n_vars
  BY <1>1, KnownAfterWtns DEF key
<1>3. CASE BindFaults(job) # {}
  <2>1. \A c \in Earliest(BindFaults(job)) : Explains(c, job)
    BY <1>2, Known, BindStage DEF Explains, Codes, Stuck
  <2>. QED
    BY <1>3, <2>1, FailStep DEF Bind
<1>4. CASE BindFaults(job) = {}
  <2>1. res' = "ok" /\ pc' = "done" /\ UNCHANGED <<job, cur, i, secs>>
    BY <1>4 DEF Bind
  <2>2. Provable(job)
    BY <1>2, <1>4, Known, BindStage
  <2>3. TypeOK' /\ Readable(job)'
    BY <2>1 DEF Inv, TypeOK, Stages
  <2>4. PrefixKnown' /\ LoopKnown' /\ ZkeyKnown' /\ WtnsKnown' /\ ProverKnown'
    BY <2>1 DEF PrefixKnown, LoopKnown, ZkeyKnown, WtnsKnown, ProverKnown, AfterWtns,
       AfterWtnsTable, AfterQueries, AfterCoefs, AfterIc, AfterGroth, AfterProtocol,
       AfterZkeyTable
  <2>5. VerdictKnown'
    BY <2>1, <2>2 DEF VerdictKnown, PanicIsAccountedFor, NativeProverFitsTheKey,
       ForeignKeyIsTheOnlyFault, Codes, Stuck
  <2>. QED
    BY <2>3, <2>4, <2>5 DEF Inv
<1>. QED
  BY <1>3, <1>4

----------------------------------------------------------------------------
(* Theorems.                                                               *)

LEMMA InitInv == Init => Inv
<1> SUFFICES ASSUME Init  PROVE Inv
  OBVIOUS
<1>1. job \in Job /\ Readable(job)
  BY JobsAssumption DEF Init
<1>2. pc = "zkeyPrefix" /\ res = "none" /\ cur = BINFILE_PREFIX /\ i = 0 /\ secs = <<>>
  BY DEF Init
<1>3. TypeOK
  BY <1>1, <1>2 DEF TypeOK, Stages, BINFILE_PREFIX
<1>4. PrefixKnown /\ LoopKnown /\ ZkeyKnown /\ WtnsKnown /\ ProverKnown
  BY <1>2 DEF PrefixKnown, LoopKnown, ZkeyKnown, WtnsKnown, ProverKnown, AfterWtns,
     AfterWtnsTable, AfterQueries, AfterCoefs, AfterIc, AfterGroth, AfterProtocol,
     AfterZkeyTable
<1>5. VerdictKnown
  BY <1>2 DEF VerdictKnown, PanicIsAccountedFor, NativeProverFitsTheKey,
     ForeignKeyIsTheOnlyFault, Codes, Stuck
<1>. QED
  BY <1>1, <1>3, <1>4, <1>5 DEF Inv

LEMMA Stutter ==
  ASSUME Inv, UNCHANGED vars
  PROVE  Inv'
<1>1. UNCHANGED <<job, pc, cur, i, secs, res>>
  BY DEF vars
<1>2. TypeOK' /\ Readable(job)' /\ PrefixKnown' /\ LoopKnown'
  BY <1>1 DEF Inv, TypeOK, PrefixKnown, LoopKnown
<1>3. ZkeyKnown' /\ WtnsKnown' /\ ProverKnown'
  BY <1>1 DEF Inv, ZkeyKnown, WtnsKnown, ProverKnown, key
<1>4. VerdictKnown'
  BY <1>1 DEF Inv, VerdictKnown, PanicIsAccountedFor, NativeProverFitsTheKey,
     ForeignKeyIsTheOnlyFault, key
<1>. QED
  BY <1>2, <1>3, <1>4 DEF Inv

LEMMA NextInv == Inv /\ [Next]_vars => Inv'
<1> SUFFICES ASSUME Inv, [Next]_vars  PROVE Inv'
  OBVIOUS
<1>1. CASE UNCHANGED vars
  BY <1>1, Stutter
<1>2. CASE Next
  BY <1>2, ZkeyPrefixStep, ZkeyTableStep, ParseProtocolStep, ParseGrothStep, ParseIcStep,
     ParseCoefsStep, ParseQueryStep, WtnsPrefixStep, WtnsTableStep, ParseWtnsStep,
     CheckShapeStep, BuildAbcStep, MakeDomainStep, MultiplyStep, BindStep
  DEF Next
<1>. QED
  BY <1>1, <1>2

\* What the stages of prove establish for the ones after them.
THEOREM ProverInvariant == Spec => []Inv
BY InitInv, NextInv, PTL DEF Spec

\* The types of the variables.
THEOREM TypeCorrect == Spec => []TypeOK
<1>1. Inv => TypeOK
  BY DEF Inv
<1>. QED
  BY <1>1, ProverInvariant, PTL

\* A panic or an endless loop is down to a size past 2^64, a section 2 that is
\* cut short or counts without a circuit, and where it happens tells which.
THEOREM PanicsExplained == Spec => []PanicIsAccountedFor
<1>1. Inv => PanicIsAccountedFor
  BY DEF Inv, VerdictKnown
<1>. QED
  BY <1>1, ProverInvariant, PTL

\* The native prover refuses nothing the parser let through but a domain too
\* large for the roots of unity.
THEOREM E017IsTheDomain == Spec => []NativeProverFitsTheKey
<1>1. Inv => NativeProverFitsTheKey
  BY DEF Inv, VerdictKnown
<1>. QED
  BY <1>1, ProverInvariant, PTL

\* The answer that the key is another container's is given only to jobs that
\* have no other fault.
THEOREM ForeignKeyIsCheckedLast == Spec => []ForeignKeyIsTheOnlyFault
<1>1. Inv => ForeignKeyIsTheOnlyFault
  BY DEF Inv, VerdictKnown
<1>. QED
  BY <1>1, ProverInvariant, PTL

\* prove ends once and never changes its inputs.
LEMMA OneResult ==
  ASSUME Inv, [Next]_vars
  PROVE  job' = job /\ (res' = res \/ res = "none")
<1>1. CASE UNCHANGED vars
  BY <1>1 DEF vars
<1>2. CASE Next
  <2>1. pc # "done"
    BY <1>2 DEF Next, ZkeyPrefix, ZkeyTable, ParseProtocol, ParseGroth, ParseIc,
       ParseCoefs, ParseQuery, WtnsPrefix, WtnsTable, ParseWtns, CheckShape, BuildAbc,
       MakeDomain, Multiply, Bind, Stage, Table
  <2>2. job' = job
    BY <1>2, Zenon DEF Next, ZkeyPrefix, ZkeyTable, ParseProtocol, ParseGroth, ParseIc,
       ParseCoefs, ParseQuery, WtnsPrefix, WtnsTable, ParseWtns, CheckShape, BuildAbc,
       MakeDomain, Multiply, Bind, Stage, Table, Fail
  <2>. QED
    BY <2>1, <2>2 DEF Inv, TypeOK
<1>. QED
  BY <1>1, <1>2

\* prove makes a proof if and only if key, witness and container allow one, and
\* stops without a result only over a job that cannot be measured.
THEOREM ProverKeepsItsPromise == Spec => Implements
<1>1. Init => Promise!Init
  BY DEF Init, Promise!Init, verdict, Stuck
<1>2. ASSUME Inv, Inv', [Next]_vars
      PROVE  [Promise!Next]_<<job, verdict>>
  <2>1. job' = job /\ (res' = res \/ res = "none")
    BY <1>2, OneResult
  <2>2. CASE res' = res
    BY <2>1, <2>2 DEF verdict
  <2>3. CASE res = "none" /\ res' # "none"
    <3>1. verdict = "pending"
      BY <2>3 DEF verdict, Stuck
    <3>2. CASE res' = "ok"
      <4>1. Provable(job)' /\ verdict' = "accepted"
        BY <1>2, <3>2 DEF verdict, Inv, VerdictKnown
      <4>2. Provable(job)
        BY <2>1, <4>1
      <4>. QED
        BY <2>1, <3>1, <4>1, <4>2 DEF Promise!Next, Promise!Accept
    <3>3. CASE res' \in Codes
      <4>1. ~ Provable(job)' /\ verdict' = "rejected"
        BY <1>2, <3>3 DEF Inv, VerdictKnown, verdict, Codes, Stuck
      <4>2. ~ Provable(job)
        BY <2>1, <4>1
      <4>. QED
        BY <2>1, <3>1, <4>1, <4>2 DEF Promise!Next, Promise!Reject
    <3>4. CASE res' \in Stuck
      <4>1. verdict' = "panicked"
        BY <3>4 DEF verdict, Stuck
      <4>2. PanicIsAccountedFor'
        BY <1>2 DEF Inv, VerdictKnown
      <4>3. Unmeasurable(job)
        BY <2>1, <3>4, <4>2 DEF PanicIsAccountedFor, Unmeasurable, key
      <4>. QED
        BY <2>1, <3>1, <4>1, <4>3 DEF Promise!Next, Promise!Panic
    <3>. QED
      BY <1>2, <2>3, <3>2, <3>3, <3>4 DEF Inv, TypeOK
  <2>. QED
    BY <2>1, <2>2, <2>3
<1>. QED
  BY <1>1, <1>2, ProverInvariant, PTL DEF Spec, Implements, Promise!Spec

\* The witness file encode_wtns writes is one parse_wtns accepts, as long as
\* the number of values fits its count of 32 bits.
THEOREM EncodedWitnessIsValid ==
  ASSUME NEW n \in Word, NEW vals \in [Counts -> Value], NEW checks \in BOOLEAN,
         FitsMemory(WtnsOf(vals, n)), \A j \in 1 .. n : vals[j] # "nonCanonical"
  PROVE  WtnsValid(WtnsOf(vals, n), checks)
<1> DEFINE f == WtnsOf(vals, n)
<1>1. n \in Nat /\ n < U32 /\ n % U32 = n
  BY SmallRemainder DEF Word
<1>2. /\ f.len = 76 + FR_BYTES * n /\ f.magic /\ f.n_sections = 2 /\ f.n8 /\ f.prime
      /\ f.n_witness = n /\ f.values = vals
      /\ f.heads = << [at |-> 12, id |-> 1, size |-> 40],
                      [at |-> 64, id |-> 2, size |-> FR_BYTES * n] >>
  BY <1>1 DEF WtnsOf, BINFILE_PREFIX, SECTION_PREFIX
<1> HIDE DEF f
<1>3. /\ Len(f.heads) = 2 /\ DOMAIN f.heads = {1, 2}
      /\ f.heads[1].id = 1 /\ f.heads[1].size = 40 /\ BodyAt(f.heads[1]) = 24
      /\ EndOf(f.heads[1]) = 64
      /\ f.heads[2].id = 2 /\ f.heads[2].size = FR_BYTES * n
      /\ EndOf(f.heads[2]) = 76 + FR_BYTES * n
  BY <1>1, <1>2 DEF BodyAt, EndOf, SECTION_PREFIX, FR_BYTES
<1>4. 64 <= f.len /\ 76 + FR_BYTES * n <= f.len /\ f.len < U64 /\ f.len \in Nat
  BY <1>1, <1>2 DEF f, FitsMemory, FR_BYTES, SNARKJS_G2_BYTES
<1>5. ASSUME NEW k \in {1, 2}
      PROVE  EndOf(f.heads[k]) % U64 <= f.len /\ ~ Overflows(f.heads[k])
  <2>1. EndOf(f.heads[k]) \in Nat /\ EndOf(f.heads[k]) <= f.len
    BY <1>1, <1>3, <1>4 DEF FR_BYTES
  <2>. QED
    BY <1>4, <2>1, SmallRemainder DEF Overflows
<1>6. First(f, 1, 1) /\ First(f, 2, 2)
  BY <1>3 DEF First
<1>7. TableValid(f, checks)
  BY <1>1, <1>2, <1>3, <1>5 DEF TableValid, BINFILE_PREFIX, FR_BYTES
<1>8. WtnsValid(f, checks)
  BY <1>2, <1>3, <1>4, <1>6, <1>7 DEF WtnsValid
<1>. QED
  BY <1>8 DEF f

----------------------------------------------------------------------------
(* The proof handed to the verifier.                                       *)

LEMMA MadeProof ==
  ASSUME NEW j \in Job, job = j, Provable(j)
  PROVE  V!Provable(MadePair) <=> Usable
<1> DEFINE g == j.zkey.groth
<1> DEFINE n == g.n_public
<1> DEFINE p == MadePair
<1>1. /\ n \in Nat /\ n < U32 /\ n % U32 = n /\ key = g
      /\ j.zac.count \in Nat /\ j.made \in Made /\ j.pairing \in BOOLEAN
      /\ j.zac.hasVkey \in BOOLEAN /\ j.zac.sameVk \in BOOLEAN
      /\ j.zac.hasInterface \in BOOLEAN /\ g.vk \in [1 .. 6 -> Point]
      /\ MAX_PUBLIC_INPUTS \in Nat
  BY JobParts, GrothParts, SmallRemainder DEF key
<1>2. /\ j.zac.hasVkey /\ j.zac.sameVk
      /\ \A k \in 1 .. 6 : SoundPoint(g.vk[k])
      /\ \A k \in 1 .. n + 1 : SoundPoint(j.zkey.points[3][k])
  BY DEF Provable, FilesValid, ZkeyValid, PointCount, PointSections
<1>3. /\ p.bytes /\ p.pairing = j.pairing
      /\ p.zac.hasVkey = j.zac.hasVkey /\ p.zac.hasInterface = j.zac.hasInterface
      /\ p.zac.count = j.zac.count
      /\ p.proof.sameKey = j.zac.sameVk /\ p.proof.sameFile
      /\ p.proof.a = j.made.a /\ p.proof.b = j.made.b /\ p.proof.c = j.made.c
      /\ p.proof.inputs = [k \in 1 .. n |-> TRUE]
      /\ p.proof.header = [len |-> 208 + 32 * n, magic |-> TRUE, major |-> 1,
                           flags |-> 0, count |-> n % U32, reserved |-> 0]
  BY DEF MadePair, ProofOf
<1>4. /\ p.zac.vkey.read = "ok"
      /\ p.zac.vkey.alpha = g.vk[1] /\ p.zac.vkey.beta = g.vk[3]
      /\ p.zac.vkey.gamma = g.vk[4] /\ p.zac.vkey.delta = g.vk[6]
      /\ p.zac.vkey.ic = [k \in 1 .. n + 1 |-> j.zkey.points[3][k]]
  BY DEF MadePair, VkOf, PointCount
<1> HIDE DEF p
<1>5. /\ Len(p.zac.vkey.ic) = n + 1 /\ DOMAIN p.zac.vkey.ic = 1 .. n + 1
      /\ \A k \in 1 .. n + 1 : p.zac.vkey.ic[k] = j.zkey.points[3][k]
      /\ Len(p.proof.inputs) = n /\ \A k \in DOMAIN p.proof.inputs : p.proof.inputs[k]
  <2>1. /\ Len([k \in 1 .. n + 1 |-> j.zkey.points[3][k]]) = n + 1
        /\ Len([k \in 1 .. n |-> TRUE]) = n
    BY <1>1, n + 1 \in Nat
  <2>2. Len(p.zac.vkey.ic) = n + 1 /\ Len(p.proof.inputs) = n
    BY <1>3, <1>4, <2>1, Zenon
  <2>3. /\ DOMAIN p.zac.vkey.ic = 1 .. n + 1
        /\ \A k \in 1 .. n + 1 : p.zac.vkey.ic[k] = j.zkey.points[3][k]
    BY <1>4
  <2>4. \A k \in DOMAIN p.proof.inputs : p.proof.inputs[k]
    BY <1>3, Zenon
  <2>. QED
    BY <2>2, <2>3, <2>4, Zenon
<1>6. V!ProofFileValid(p.proof.header)
  BY <1>1, <1>3 DEF V!ProofFileValid, V!PROOF_PREFIX_SIZE
<1>7. V!BoundTo(p) <=> /\ j.zac.hasInterface /\ j.zac.count = n
                       /\ j.zac.count <= MAX_PUBLIC_INPUTS
  <2>1. p.proof.header.count = n
    BY <1>1, <1>3
  <2>. QED
    BY <1>2, <1>3, <2>1, Zenon DEF V!BoundTo
<1>8. V!VkeyValid(p.zac.vkey) <=> \A k \in {1, 3, 4, 6} : g.vk[k] # "identity"
  <2>1. \A k \in 1 .. n + 1 : p.zac.vkey.ic[k] \notin {"offCurve", "offGroup"}
    BY <1>2, <1>5 DEF SoundPoint
  <2>2. \A k \in 1 .. 6 : g.vk[k] \notin {"offCurve", "offGroup"}
    BY <1>2 DEF SoundPoint
  <2>3. {g.vk[1], g.vk[3], g.vk[4], g.vk[6]} \cap {"identity", "offCurve", "offGroup"} = {}
          <=> \A k \in {1, 3, 4, 6} : g.vk[k] # "identity"
    <3>1. \A k \in {1, 3, 4, 6} : g.vk[k] \notin {"offCurve", "offGroup"}
      BY <2>2
    <3>. QED
      BY <3>1, Zenon
  <2>. QED
    BY <1>4, <1>5, <2>1, <2>3, Zenon DEF V!VkeyValid
<1>9. V!ProofValid(p.proof) <=>
        j.made = [a |-> "good", b |-> "good", c |-> "good"]
  <2>1. j.made.a = "good" /\ j.made.b = "good" /\ j.made.c = "good"
          <=> j.made = [a |-> "good", b |-> "good", c |-> "good"]
    BY <1>1 DEF Made
  <2>. QED
    BY <1>3, <1>5, <2>1, Zenon DEF V!ProofValid
<1>10. V!ArityValid(p) <=> j.zac.count = n
  BY <1>1, <1>3, <1>5, ZenonT(40) DEF V!ArityValid
<1>11. Usable <=> /\ j.zac.hasInterface
                  /\ j.zac.count = n /\ j.zac.count <= MAX_PUBLIC_INPUTS
                  /\ \A k \in {1, 3, 4, 6} : g.vk[k] # "identity"
                  /\ j.made = [a |-> "good", b |-> "good", c |-> "good"]
                  /\ j.pairing
  BY <1>1 DEF Usable
<1>. QED
  BY <1>3, <1>6, <1>7, <1>8, <1>9, <1>10, <1>11 DEF V!Provable, V!Sound, p

\* A made proof meets every condition of the verifier but those the prover
\* never looks at: the INTERFACE section, the identity in the key or the proof.
THEOREM MadeProofsVerify == Spec => []MadeProofVerifies
<1>1. Inv => MadeProofVerifies
  BY MadeProof DEF Inv, TypeOK, VerdictKnown, MadeProofVerifies
<1>. QED
  BY <1>1, ProverInvariant, PTL
\* When the points are multiplied, A, B and C were evaluated off the domain if
\* the key's domain is a power of two, and on it if it is of any other size: the
\* parser and the native prover let those through.
THEOREM CosetMissesTheDomain == Spec => []CosetAvoidsDomain
<1>1. ASSUME Inv, pc = "msm"
      PROVE  key.domain_size \in 1 .. MAX_DOMAIN
  <2>1. job \in Job
    BY <1>1, JobsAssumption DEF Inv, TypeOK
  <2>2. DomainFaults(job) = {}
    BY <1>1, KnownAfterWtns DEF AfterWtns
  <2>3. key.domain_size \in Nat /\ key.domain_size > 0 /\ key.domain_size <= MAX_DOMAIN
    BY <2>1, <2>2, DomainStage, JobParts, GrothParts DEF key
  <2>. QED
    BY <2>3, MaxDomainIsNat
<1>2. Inv => CosetAvoidsDomain
  BY <1>1, CosetIsOffTheDomain DEF CosetAvoidsDomain
<1>. QED
  BY <1>2, ProverInvariant, PTL
=============================================================================
