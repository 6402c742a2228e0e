------------------------------- MODULE Iden3 -------------------------------
(***************************************************************************)
(* The .zkey and .wtns files of snarkjs as parse_zkey and parse_wtns see   *)
(* them, the faults each stage of the two parsers looks for, and, apart    *)
(* from these, what the parsers should make of a whole file.               *)
(*                                                                         *)
(* Words that are compared, added or multiplied are numbers.  A curve      *)
(* point, a field element or a prime is the outcome of the checks made on  *)
(* it.  What a body holds is what the bytes from its first one on read as, *)
(* as many of them as the parser asks for, whichever section they are of.  *)
(***************************************************************************)
EXTENDS Faults, Sequences

CONSTANTS U32,  \* 2^32
          U64   \* 2^64, also the size of usize

ASSUME U32IsPositive == U32 \in Nat \ {0}
ASSUME U64IsNatural  == U64 \in Nat

Word   == 0 .. U32 - 1
Counts == 1 .. U32

BINFILE_PREFIX   == 12
SECTION_PREFIX   == 12
GROTH_BYTES      == 660  \* what parse_zkey reads from section 2 on
SNARKJS_G1_BYTES == 64
SNARKJS_G2_BYTES == 128
COEF_BYTES       == 44
FR_BYTES         == 32

\* badEncoding: a coordinate not below q.  The identity is 0 in all bytes.
Point == {"good", "identity", "badEncoding", "offCurve", "offGroup"}
PointSections == {3, 5, 6, 7, 8, 9}

\* vk: alpha1, beta1, beta2, gamma2, delta1, delta2.
Groth == [n8q : BOOLEAN, q : BOOLEAN, n8r : BOOLEAN, r : BOOLEAN,
          n_vars : Word, n_public : Word, domain_size : Word,
          vk : [1 .. 6 -> Point]]

Row == [matrix : Nat, constraint : Word, signal : Word, canonical : BOOLEAN]

\* The k-th section header the table loop meets, at byte `at`.
Place == [at : Nat, id : Nat, size : 0 .. U64 - 1]

\* Of sections with the same id the first is the one that counts: proto,
\* groth, n_coefs, rows and points are what is read there.
Zkey == [len : Nat, magic : BOOLEAN, n_sections : Word, heads : Seq(Place),
         proto : Nat, groth : Groth, n_coefs : Word, rows : [Counts -> Row],
         points : [PointSections -> [Counts -> Point]]]

Value == {"one", "other", "nonCanonical"}

Wtns == [len : Nat, magic : BOOLEAN, n_sections : Word, heads : Seq(Place),
         n8 : BOOLEAN, prime : BOOLEAN, n_witness : Word,
         values : [Counts -> Value]]

BodyAt(h) == h.at + SECTION_PREFIX
EndOf(h)  == BodyAt(h) + h.size

\* Where the table loop looks for its (n + 1)-th header, in 64 bits.
NextAt(f, n) == IF n = 0 THEN BINFILE_PREFIX ELSE EndOf(f.heads[n]) % U64

\* heads has the headers that lie in the file, up to n_sections of them.
Coherent(f) ==
  /\ Len(f.heads) <= f.n_sections
  /\ \A k \in DOMAIN f.heads :
       f.heads[k].at = NextAt(f, k - 1) /\ BodyAt(f.heads[k]) <= f.len
  /\ \A j, k \in DOMAIN f.heads :
       f.heads[j].at = f.heads[k].at => f.heads[j] = f.heads[k]
  /\ Len(f.heads) < f.n_sections =>
       NextAt(f, Len(f.heads)) + SECTION_PREFIX > f.len

\* No size a count of 32 bits stands for is near 2^64, nor is the file's.
FitsMemory(f) == f.len + SNARKJS_G2_BYTES * U32 < U64

Overflows(h) == EndOf(h) >= U64
----------------------------------------------------------------------------
(***************************************************************************)
(* read_binfile_header.  `checks` says whether the build checks sums for   *)
(* overflow; without it body_off + size wraps.                             *)
(***************************************************************************)
PrefixFaults(f) ==
  Fault(1, "E015", f.len < BINFILE_PREFIX) \cup Fault(2, "E001", ~ f.magic)

\* The table loop's cursor is where a header has to be.
NoRoom(f, cur) == Fault(1, "E015", cur + SECTION_PREFIX > f.len)

\* Variant: the sum is not checked and not compared.
SizeFaultsUnchecked(f, h, checks) == {}

SizeFaults(f, h, checks) ==
  Fault(1, "PANIC", checks /\ Overflows(h))
    \cup Fault(2, "E015", EndOf(h) % U64 > f.len)

\* Sections by id: find_section returns the first of an id.
SectionRef(h) == [offset |-> BodyAt(h), size |-> h.size]

\* Variant: the last section of an id wins.
NoteLast(secs, h) ==
  [id \in DOMAIN secs \cup {h.id} |-> IF id = h.id THEN SectionRef(h) ELSE secs[id]]

Note(secs, h) ==
  IF h.id \in DOMAIN secs THEN secs
  ELSE [id \in DOMAIN secs \cup {h.id} |-> IF id = h.id THEN SectionRef(h) ELSE secs[id]]

Missing(secs, id) == Fault(1, "E016", id \notin DOMAIN secs)

\* A slice that ends here.
PastEnd(rank, f, end) == Fault(rank, "PANIC", end > f.len)
----------------------------------------------------------------------------
(***************************************************************************)
(* parse_zkey.                                                             *)
(***************************************************************************)
ProtocolFaults(f, s) ==
  Fault(1, "E015", s.size < 4)
    \cup PastEnd(2, f, s.offset + 4)
    \cup Fault(3, "E003", f.proto # 1)

\* Variant: the subgroup is not asked for.
PointFaultsAnyGroup(rank, p) ==
  Fault(rank, "E010", p \in {"badEncoding", "offCurve"})

\* read_snarkjs_g1, read_snarkjs_g2.
PointFaults(rank, p) ==
  Fault(rank, "E010", p \in {"badEncoding", "offCurve"})
    \cup Fault(rank, "E011", p = "offGroup")

\* Where each of the six points of section 2 ends.
VkEnd == <<148, 212, 340, 468, 532, 660>>

\* The two primes and the counts.
WordFaults(f, s) ==
  PastEnd(1, f, s.offset + 4)
    \cup Fault(2, "E003", ~ f.groth.n8q)
    \cup PastEnd(3, f, s.offset + 36)
    \cup Fault(4, "E003", ~ f.groth.q)
    \cup PastEnd(5, f, s.offset + 40)
    \cup Fault(6, "E003", ~ f.groth.n8r)
    \cup PastEnd(7, f, s.offset + 72)
    \cup Fault(8, "E003", ~ f.groth.r)
    \cup PastEnd(9, f, s.offset + 84)

VkFaults(f, s) ==
  UNION {PastEnd(10 + 2 * j, f, s.offset + VkEnd[j])
           \cup PointFaults(11 + 2 * j, f.groth.vk[j]) : j \in 1 .. 6}

\* Section 2 is read at fixed offsets; its size is looked at last, by a slice.
GrothFaults(f, s) ==
  WordFaults(f, s) \cup VkFaults(f, s) \cup PastEnd(24, f, s.offset + s.size)

PointSize(id) == IF id = 7 THEN SNARKJS_G2_BYTES ELSE SNARKJS_G1_BYTES

\* nVars - nPublic - 1, with saturation.
Private(g) == IF g.n_vars > g.n_public THEN g.n_vars - g.n_public - 1 ELSE 0

PointCount(g, id) ==
  IF id = 3 THEN g.n_public + 1
  ELSE IF id = 8 THEN Private(g)
  ELSE IF id = 9 THEN g.domain_size ELSE g.n_vars

\* The IC loop, parse_g1_array, parse_g2_array.
PointArrayFaults(f, s, id) ==
  LET n == PointCount(f.groth, id) IN
  Fault(1, "E015", s.size # PointSize(id) * n)
    \cup UNION {PastEnd(2 * j, f, s.offset + PointSize(id) * j)
                  \cup PointFaults(2 * j + 1, f.points[id][j]) : j \in 1 .. n}

\* Variant: the signal is not compared with the number of wires.
RowFaultsAnySignal(f, s, k) ==
  LET row == f.rows[k]  rank == 6 * k IN
  PastEnd(rank, f, s.offset + 4 + COEF_BYTES * (k - 1) + 12)
    \cup Fault(rank + 1, "E003", row.matrix > 1)
    \cup Fault(rank + 2, "E013", row.constraint >= f.groth.domain_size)
    \cup PastEnd(rank + 4, f, s.offset + 4 + COEF_BYTES * k)
    \cup Fault(rank + 5, "E012", ~ row.canonical)

\* The k-th row of the coefficient table.
RowFaults(f, s, k) ==
  LET row == f.rows[k]  rank == 6 * k IN
  PastEnd(rank, f, s.offset + 4 + COEF_BYTES * (k - 1) + 12)
    \cup Fault(rank + 1, "E003", row.matrix > 1)
    \cup Fault(rank + 2, "E013", row.constraint >= f.groth.domain_size)
    \cup Fault(rank + 3, "E013", row.signal >= f.groth.n_vars)
    \cup PastEnd(rank + 4, f, s.offset + 4 + COEF_BYTES * k)
    \cup Fault(rank + 5, "E012", ~ row.canonical)

CoefFaults(f, s) ==
  Fault(1, "E015", s.size < 4)
    \cup PastEnd(2, f, s.offset + 4)
    \cup Fault(3, "E015", s.size # 4 + COEF_BYTES * f.n_coefs)
    \cup UNION {RowFaults(f, s, k) : k \in 1 .. f.n_coefs}
----------------------------------------------------------------------------
(***************************************************************************)
(* parse_wtns, after both sections were found.                             *)
(***************************************************************************)
WtnsFaults(f, header, vals) ==
  Fault(1, "E015", header.size < 40)
    \cup PastEnd(2, f, header.offset + 4)
    \cup Fault(3, "E003", ~ f.n8)
    \cup PastEnd(4, f, header.offset + 36)
    \cup Fault(5, "E003", ~ f.prime)
    \cup PastEnd(6, f, header.offset + 40)
    \cup Fault(7, "E015", vals.size # FR_BYTES * f.n_witness)
    \cup UNION {PastEnd(6 + 2 * j, f, vals.offset + FR_BYTES * j)
                  \cup Fault(7 + 2 * j, "E012", f.values[j] = "nonCanonical")
                : j \in 1 .. f.n_witness}
----------------------------------------------------------------------------
(***************************************************************************)
(* What the parsers should accept: facts about the whole file.  A size is  *)
(* added to an offset the way the build adds.                              *)
(***************************************************************************)
TableValid(f, checks) ==
  /\ f.len >= BINFILE_PREFIX /\ f.magic
  /\ Len(f.heads) = f.n_sections
  /\ \A k \in DOMAIN f.heads :
       /\ EndOf(f.heads[k]) % U64 <= f.len
       /\ checks => ~ Overflows(f.heads[k])

First(f, id, k) ==
  /\ k \in DOMAIN f.heads /\ f.heads[k].id = id
  /\ \A j \in 1 .. k - 1 : f.heads[j].id # id

\* Section h has the size that the counts of the file ask for.  Section 2 may
\* have any, as long as the file goes on far enough.
ZkeySized(f, id, h) ==
  /\ id = 1 => h.size >= 4 /\ BodyAt(h) + 4 <= f.len
  /\ id = 2 => BodyAt(h) + GROTH_BYTES <= f.len /\ EndOf(h) <= f.len
  /\ id = 4 => h.size = 4 + COEF_BYTES * f.n_coefs
  /\ id \in PointSections => h.size = PointSize(id) * PointCount(f.groth, id)

SoundPoint(p) == p \in {"good", "identity"}

RowValid(g, row) ==
  /\ row.matrix <= 1 /\ row.canonical
  /\ row.constraint < g.domain_size /\ row.signal < g.n_vars

ZkeyValid(f, checks) ==
  /\ TableValid(f, checks)
  /\ \A id \in 1 .. 9 : \E k \in DOMAIN f.heads :
       First(f, id, k) /\ ZkeySized(f, id, f.heads[k])
  /\ f.proto = 1
  /\ f.groth.n8q /\ f.groth.q /\ f.groth.n8r /\ f.groth.r
  /\ \A j \in 1 .. 6 : SoundPoint(f.groth.vk[j])
  /\ \A id \in PointSections : \A j \in 1 .. PointCount(f.groth, id) :
       SoundPoint(f.points[id][j])
  /\ \A k \in 1 .. f.n_coefs : RowValid(f.groth, f.rows[k])

WtnsValid(f, checks) ==
  /\ TableValid(f, checks)
  /\ \E k \in DOMAIN f.heads :
       First(f, 1, k) /\ f.heads[k].size >= 40 /\ BodyAt(f.heads[k]) + 40 <= f.len
  /\ \E k \in DOMAIN f.heads :
       First(f, 2, k) /\ f.heads[k].size = FR_BYTES * f.n_witness
  /\ f.n8 /\ f.prime
  /\ \A j \in 1 .. f.n_witness : f.values[j] # "nonCanonical"

\* What may make a parser panic: a size that reaches past 2^64, or a section 2
\* with less than a Groth16 header between its start and the end of the file.
Wraps(f) == \E k \in DOMAIN f.heads : Overflows(f.heads[k])
CutShort(f) ==
  \E k \in DOMAIN f.heads : First(f, 2, k) /\ BodyAt(f.heads[k]) + GROTH_BYTES > f.len
----------------------------------------------------------------------------
(***************************************************************************)
(* encode_wtns: what it writes of n values.                                *)
(***************************************************************************)
WtnsOf(vals, n) ==
  [len |-> BINFILE_PREFIX + 2 * SECTION_PREFIX + 40 + FR_BYTES * n,
   magic |-> TRUE, n_sections |-> 2,
   heads |-> << [at |-> 12, id |-> 1, size |-> 40],
                [at |-> 64, id |-> 2, size |-> FR_BYTES * n] >>,
   n8 |-> TRUE, prime |-> TRUE, n_witness |-> n % U32, values |-> vals]
=============================================================================
