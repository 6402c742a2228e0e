----------------------------- MODULE ZacFormat -----------------------------
(***************************************************************************)
(* The .zac container, as its parser and its encoder see it.               *)
(*                                                                         *)
(* A file is an Image: its length, the decoded header and index words, the *)
(* set of its non-zero bytes between header and trailer (dirty), and the   *)
(* outcome of the comparisons whose bytes play no other part: the CRC of   *)
(* each body, the body grammar of INTERFACE, the trailer's hash.           *)
(***************************************************************************)
EXTENDS Integers

CONSTANTS U32,          \* 2^32, the modulus of the header's and index's words
          MAX_SECTIONS, \* 16, the most sections a file may have
          MAX_META      \* 65536, the longest META_CBOR body

ASSUME U32Assumption == U32 \in Nat \ {0}
ASSUME MaxSectionsAssumption == MAX_SECTIONS \in Nat \ {0}
ASSUME MaxMetaAssumption == MAX_META \in Nat

HEADER_SIZE      == 32
INDEX_OFFSET     == 32
INDEX_ENTRY_SIZE == 16
TRAILER_SIZE     == 40

Word    == 0 .. U32 - 1
SlotIds == 0 .. MAX_SECTIONS - 1

VKEY      == 1
INTERFACE == 2
R1CS_HASH == 3
META_CBOR == 4
SectionType == 0 .. 255
Mandatory   == {VKEY, INTERFACE, R1CS_HASH}

\* Types that may not appear in a v1 index: the forbidden and the reserved.
Forbidden(type) == type \in {0, 255} \cup (5 .. 127)

\* Widths are kept where a check depends on them: the words that are added up.
Header == [magic : BOOLEAN, major : Nat, flags : Nat,
           count : Nat, reserved : Nat, index_offset : Word,
           body_offset : Word, body_size : Word, reserved2 : Nat]

BodyVerdict == {"ok", "E003", "E004", "E015"}

\* crcOk: the body's CRC-32 is the slot's.  body: what parse_interface says of
\* the body ("ok" or an error code), read only when the type is INTERFACE.
Slot == [type : SectionType, flags : Nat, pad : Nat,
         offset : Word, size : Word, crcOk : BOOLEAN, body : BodyVerdict]

\* hashOk: the trailer's file_hash is the hash of bytes 4..8 and 32..len-40.
Trailer == [magic : BOOLEAN, reserved : Nat, hashOk : BOOLEAN]

Image == [len : Nat, head : Header, slot : [SlotIds -> Slot],
          dirty : SUBSET Nat, trailer : Trailer]

AlignUp(n) == ((n + 7) \div 8) * 8

SlotAt(k)     == INDEX_OFFSET + k * INDEX_ENTRY_SIZE
IndexEnd(f)   == SlotAt(f.head.count)
BodyEnd(f)    == f.head.body_offset + f.head.body_size
TrailerAt(f)  == f.len - TRAILER_SIZE
Off(f, k)     == f.slot[k].offset
End(f, k)     == f.slot[k].offset + f.slot[k].size
Sections(f)   == 0 .. f.head.count - 1

\* What ties an image to a byte string: the bytes of dirty lie between header
\* and trailer, and a slot's first byte is its type.
Coherent(f) ==
  /\ \A b \in f.dirty : HEADER_SIZE <= b /\ b < TrailerAt(f)
  /\ \A k \in SlotIds :
       SlotAt(k + 1) <= TrailerAt(f) =>
         (f.slot[k].type # 0 <=> SlotAt(k) \in f.dirty)

\* file_hash covers the four bytes of version and flags and what lies between
\* header and trailer, and no other byte of the header: the two files give it
\* the same bytes.  (Minor version and patch are in no other check.)
HashedAlike(f, g) ==
  /\ f.len = g.len /\ f.head.major = g.head.major /\ f.head.flags = g.head.flags
  /\ f.dirty = g.dirty
  /\ \A k \in SlotIds : SlotAt(k + 1) <= TrailerAt(f) => f.slot[k] = g.slot[k]

Clean(f, from, to) == \A b \in f.dirty : ~ (from <= b /\ b < to)

\* Section::parse on the body of slot s: the fault it reports, if any.
SectionFault(s) ==
  CASE s.type = INTERFACE -> s.body
    [] s.type = R1CS_HASH -> IF s.size = 32 THEN "ok" ELSE "E004"
    [] s.type = META_CBOR -> IF s.size <= MAX_META THEN "ok" ELSE "E004"
    [] OTHER              -> "ok"
----------------------------------------------------------------------------
(***************************************************************************)
(* What SPEC section 3 asks of a file, without saying how it is checked:   *)
(* the geometry is exact, every body is intact and well formed, and no     *)
(* non-zero byte lies outside the index and the bodies.                    *)
(***************************************************************************)
HeaderValid(h) ==
  /\ h.magic /\ h.major = 1 /\ h.flags = 0
  /\ h.count \in 1 .. MAX_SECTIONS
  /\ h.reserved = 0 /\ h.reserved2 = 0
  /\ h.index_offset = INDEX_OFFSET
  /\ h.body_offset % 8 = 0

GeometryValid(f) ==
  /\ IndexEnd(f) <= f.head.body_offset
  /\ BodyEnd(f) = TrailerAt(f)
  /\ Off(f, 0) = f.head.body_offset
  /\ AlignUp(End(f, f.head.count - 1)) = BodyEnd(f)

EntryValid(s) ==
  /\ s.flags = 0 /\ s.pad = 0
  /\ ~ Forbidden(s.type)
  /\ s.offset % 8 = 0

BodyValid(s) == s.crcOk /\ SectionFault(s) = "ok"

Distinct(f) ==
  \A j, k \in Sections(f) : j # k => f.slot[j].type # f.slot[k].type

\* In index order, disjoint, and no two at the same place.
Ordered(f) ==
  \A j, k \in Sections(f) :
    j < k => Off(f, j) < Off(f, k) /\ End(f, j) <= Off(f, k)

\* The parts of the file a non-zero byte b may belong to.
Owners(f, b) ==
  {k \in Sections(f) : SlotAt(k) <= b /\ b < SlotAt(k + 1)}
    \cup {MAX_SECTIONS + k : k \in
            {j \in Sections(f) : Off(f, j) <= b /\ b < End(f, j)}}

Accounted(f) == \A b \in f.dirty : Owners(f, b) # {}

TrailerValid(f) == f.trailer.magic /\ f.trailer.reserved = 0 /\ f.trailer.hashOk

Valid(f) ==
  /\ HeaderValid(f.head)
  /\ GeometryValid(f)
  /\ \A k \in Sections(f) : EntryValid(f.slot[k]) /\ BodyValid(f.slot[k])
  /\ Distinct(f)
  /\ Ordered(f)
  /\ Accounted(f)
  /\ \A t \in Mandatory : \E k \in Sections(f) : f.slot[k].type = t
  /\ TrailerValid(f)

\* The valid files that ZacFile::parse can take: it adds up the end of the last
\* body in 32 bits.
Parseable(f) == Valid(f) /\ BodyEnd(f) < U32
=============================================================================
