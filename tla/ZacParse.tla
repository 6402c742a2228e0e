------------------------------ MODULE ZacParse ------------------------------
(***************************************************************************)
(* ZacFile::parse, one action per check or loop iteration.  Every stage    *)
(* lists the faults it looks for with the order in which it looks; the     *)
(* earliest one present is the error returned.  A slice or an addition     *)
(* that would panic is a fault of its own, with the code "PANIC".          *)
(***************************************************************************)
EXTENDS ZacFormat, Faults

CONSTANTS Images,         \* the files the parser may be given
          OverflowChecks  \* debug build: u32 addition panics; release: wraps

ASSUME ImagesAssumption == \A f \in Images : f \in Image /\ Coherent(f)
ASSUME OverflowChecksAssumption == OverflowChecks \in BOOLEAN

VARIABLES img,   \* the file
          pc,    \* the stage
          i,     \* the loop index of the stage
          seen,  \* parse_index: the types met so far
          res    \* the result: "none" while running

vars == <<img, pc, i, seen, res>>

Stages == {"length", "header", "geometry", "index", "first", "order", "last",
           "bodies", "mandatory", "trailer", "done"}
Codes  == {"E001", "E002", "E003", "E004", "E005", "E006", "E007", "E008",
           "E009", "E015", "E016"}
----------------------------------------------------------------------------
LengthFaults(f) == Fault(1, "E015", f.len < HEADER_SIZE + TRAILER_SIZE)

\* Header::parse walks the header in byte order.
HeaderFaults(h) ==
  Fault(1, "E001", ~ h.magic)
    \cup Fault(2, "E002", h.major # 1)
    \cup Fault(3, "E003", h.flags # 0)
    \cup Fault(4, "E003", h.count = 0 \/ h.count > MAX_SECTIONS)
    \cup Fault(5, "E003", h.reserved # 0)
    \cup Fault(6, "E004", h.index_offset # INDEX_OFFSET)
    \cup Fault(7, "E004", h.body_offset % 8 # 0)
    \cup Fault(8, "E003", h.reserved2 # 0)

\* Variant: body_offset is not compared with the end of the index.
GeometryFaultsNoFloor(f) ==
  Fault(1, "E015", IndexEnd(f) > f.len)
    \cup Fault(3, "E015", BodyEnd(f) + TRAILER_SIZE > f.len)
    \cup Fault(4, "E004", BodyEnd(f) + TRAILER_SIZE # f.len)
    \cup Fault(5, "PANIC", \/ IndexEnd(f) > f.head.body_offset
                           \/ f.head.body_offset > f.len)
    \cup Fault(6, "E004", ~ Clean(f, IndexEnd(f), f.head.body_offset))

\* The checks of ZacFile::parse on the header's geometry, then those that
\* parse_index starts with.
GeometryFaults(f) ==
  Fault(1, "E015", IndexEnd(f) > f.len)
    \cup Fault(2, "E004", f.head.body_offset < IndexEnd(f))
    \cup Fault(3, "E015", BodyEnd(f) + TRAILER_SIZE > f.len)
    \cup Fault(4, "E004", BodyEnd(f) + TRAILER_SIZE # f.len)
    \cup Fault(5, "PANIC", \/ IndexEnd(f) > f.head.body_offset
                           \/ f.head.body_offset > f.len)
    \cup Fault(6, "E004", ~ Clean(f, IndexEnd(f), f.head.body_offset))
    \cup Fault(7, "E003", f.head.count \notin 1 .. MAX_SECTIONS)
    \cup Fault(8, "E015", IndexEnd(f) > f.len)

\* Variant: no uniqueness check.
EntryFaultsTwice(f, k) ==
  LET s == f.slot[k] IN
  Fault(1, "PANIC", SlotAt(k + 1) > f.len)
    \cup Fault(2, "E003", s.flags # 0)
    \cup Fault(3, "E003", s.pad # 0)
    \cup Fault(4, "E007", Forbidden(s.type))
    \cup Fault(5, "E004", s.offset % 8 # 0)

\* One iteration of parse_index's first loop: the slice, IndexEntry::parse,
\* then the uniqueness check.
EntryFaults(f, k) ==
  LET s == f.slot[k] IN
  Fault(1, "PANIC", SlotAt(k + 1) > f.len)
    \cup Fault(2, "E003", s.flags # 0)
    \cup Fault(3, "E003", s.pad # 0)
    \cup Fault(4, "E007", Forbidden(s.type))
    \cup Fault(5, "E004", s.offset % 8 # 0)
    \cup Fault(6, "E006", s.type \in seen)

\* Variant: the first body may start after body_offset.
FirstFaultsLate(f) == Fault(1, "E004", Off(f, 0) < f.head.body_offset)

FirstFaults(f) == Fault(1, "E004", Off(f, 0) # f.head.body_offset)

\* parse_index compares each entry with the next one only.
OrderFaults(f, k) ==
  Fault(1, "E005", \/ Off(f, k + 1) < End(f, k)
                   \/ Off(f, k + 1) <= Off(f, k))

\* Variant: body_size may exceed the last section and its padding.
LastFaultsLoose(f) ==
  Fault(1, "E005", End(f, f.head.count - 1) > BodyEnd(f))

LastFaults(f) ==
  LET last_end == End(f, f.head.count - 1) IN
  Fault(1, "E005", last_end > BodyEnd(f))
    \cup Fault(2, "E004", AlignUp(last_end) # BodyEnd(f))

\* Where the padding after body k ends.  After the last body it is a u32 sum,
\* which the earlier checks computed in u64.
PadEnd(f, k) ==
  IF k + 1 < f.head.count THEN Off(f, k + 1) ELSE BodyEnd(f) % U32

PadEndOverflows(f, k) ==
  k + 1 = f.head.count /\ OverflowChecks /\ BodyEnd(f) >= U32

\* Variant: padding is looked at between bodies, not after the last.
BodyFaultsOpenEnd(f, k) ==
  Fault(1, "E015", End(f, k) > f.len - TRAILER_SIZE)
    \cup Fault(3, "E008", ~ f.slot[k].crcOk)
    \cup Fault(5, "E004", k + 1 < f.head.count
                            /\ ~ Clean(f, End(f, k), PadEnd(f, k)))
    \cup Fault(6, SectionFault(f.slot[k]), SectionFault(f.slot[k]) # "ok")

BodyFaults(f, k) ==
  Fault(1, "E015", End(f, k) > f.len - TRAILER_SIZE)
    \cup Fault(2, "PANIC", End(f, k) > f.len)
    \cup Fault(3, "E008", ~ f.slot[k].crcOk)
    \cup Fault(4, "PANIC", \/ PadEndOverflows(f, k)
                           \/ End(f, k) > PadEnd(f, k)
                           \/ PadEnd(f, k) > f.len)
    \cup Fault(5, "E004", ~ Clean(f, End(f, k), PadEnd(f, k)))
    \cup Fault(6, SectionFault(f.slot[k]), SectionFault(f.slot[k]) # "ok")

\* Variant: only VKEY is asked for.
MandatoryFaultsVkey(f) ==
  Fault(1, "E016", \A k \in Sections(f) : f.slot[k].type # VKEY)

MandatoryFaults(f) ==
  Fault(1, "E016", \E t \in Mandatory :
                     \A k \in Sections(f) : f.slot[k].type # t)

\* Variant: the hash is compared before the reserved word is read.
TrailerFaultsHashFirst(f) ==
  Fault(1, "E001", ~ f.trailer.magic)
    \cup Fault(2, "E009", ~ f.trailer.hashOk)
    \cup Fault(3, "E003", f.trailer.reserved # 0)

TrailerFaults(f) ==
  Fault(1, "E001", ~ f.trailer.magic)
    \cup Fault(2, "E003", f.trailer.reserved # 0)
    \cup Fault(3, "E009", ~ f.trailer.hashOk)
----------------------------------------------------------------------------
Init ==
  /\ img \in Images
  /\ pc = "length" /\ i = 0 /\ seen = {} /\ res = "none"

\* Variant: the error is noted but not returned.
FailAndGoOn(faults) ==
  /\ res' \in Earliest(faults)
  /\ UNCHANGED <<img, pc, i, seen>>

\* The stage returns the error it met first.
Fail(faults) ==
  /\ res' \in Earliest(faults)
  /\ pc' = "done"
  /\ UNCHANGED <<img, i, seen>>

\* The stage found nothing and hands over to the next one.
Pass(faults, next) ==
  /\ faults = {}
  /\ pc' = next /\ i' = 0
  /\ UNCHANGED <<img, seen, res>>

\* One iteration found nothing: on to the next one, of `count` of them.
Step(faults, count, next) ==
  /\ faults = {}
  /\ IF i + 1 < count THEN pc' = pc /\ i' = i + 1 ELSE pc' = next /\ i' = 0
  /\ UNCHANGED <<img, res>>

CheckLength ==
  /\ pc = "length"
  /\ Fail(LengthFaults(img)) \/ Pass(LengthFaults(img), "header")

ParseHeader ==
  /\ pc = "header"
  /\ Fail(HeaderFaults(img.head)) \/ Pass(HeaderFaults(img.head), "geometry")

CheckGeometry ==
  /\ pc = "geometry"
  /\ Fail(GeometryFaults(img)) \/ Pass(GeometryFaults(img), "index")

ParseEntry ==
  /\ pc = "index"
  /\ \/ Fail(EntryFaults(img, i))
     \/ /\ Step(EntryFaults(img, i), img.head.count, "first")
        /\ seen' = seen \cup {img.slot[i].type}

CheckFirst ==
  /\ pc = "first"
  /\ \/ Fail(FirstFaults(img))
     \/ Pass(FirstFaults(img), IF img.head.count > 1 THEN "order" ELSE "last")

CheckOrder ==
  /\ pc = "order"
  /\ \/ Fail(OrderFaults(img, i))
     \/ /\ Step(OrderFaults(img, i), img.head.count - 1, "last")
        /\ UNCHANGED seen

CheckLast ==
  /\ pc = "last"
  /\ Fail(LastFaults(img)) \/ Pass(LastFaults(img), "bodies")

ParseBody ==
  /\ pc = "bodies"
  /\ \/ Fail(BodyFaults(img, i))
     \/ /\ Step(BodyFaults(img, i), img.head.count, "mandatory")
        /\ UNCHANGED seen

CheckMandatory ==
  /\ pc = "mandatory"
  /\ Fail(MandatoryFaults(img)) \/ Pass(MandatoryFaults(img), "trailer")

CheckTrailer ==
  /\ pc = "trailer"
  /\ \/ Fail(TrailerFaults(img))
     \/ /\ TrailerFaults(img) = {}
        /\ res' = "ok" /\ pc' = "done"
        /\ UNCHANGED <<img, i, seen>>

Next ==
  \/ CheckLength \/ ParseHeader \/ CheckGeometry
  \/ ParseEntry \/ CheckFirst \/ CheckOrder \/ CheckLast
  \/ ParseBody \/ CheckMandatory \/ CheckTrailer

Spec == Init /\ [][Next]_vars
----------------------------------------------------------------------------
(***************************************************************************)
(* Properties.                                                             *)
(***************************************************************************)

\* Every variable keeps its type; a result exists exactly when the parser has
\* stopped.
TypeOK ==
  /\ img \in Images
  /\ pc \in Stages
  /\ i \in SlotIds
  /\ seen \subseteq SectionType
  /\ res \in {"none", "ok", "PANIC"} \cup Codes
  /\ pc = "done" <=> res # "none"

\* The parser accepts only files SPEC section 3 calls valid and rejects none of
\* them: every rule on the whole file follows from its per-header, per-entry and
\* next-entry checks.  A file past the 32-bit words may make it panic instead.
verdict == CASE res = "none"  -> "pending"
             [] res = "ok"    -> "accepted"
             [] res = "PANIC" -> "panicked"
             [] OTHER         -> "rejected"

\* A file that does not fit the format's 32-bit words.
PastU32(f) == f.len >= U32 + TRAILER_SIZE

Promise == INSTANCE OneVerdict WITH file <- img, Good <- Valid,
                                    Unmeasurable <- PastU32

Implements == Promise!Spec

\* Slices and sums of the body loop rely on checks of parse_index and of the
\* header: they can panic only in a file whose body_end passes u32.
PanicOnlyPastU32 == res = "PANIC" => PastU32(img)

\* In either build the parser accepts a file exactly if it is valid and its body
\* ends within the 32-bit words: a valid file past them is never accepted, be
\* it that the sum panics or that it wraps.
AcceptsExactly == pc = "done" => (res = "ok" <=> Parseable(img))

\* In an accepted file a non-zero byte between header and trailer belongs to
\* one index slot or to one body, and to no two of them.
OneOwner ==
  res = "ok" =>
    \A b \in img.dirty : \E o \in Owners(img, b) : Owners(img, b) = {o}

\* The hash leaves out most of the header: that no second file with the same
\* hash is valid is due to the checks which tie count, body_offset and body_size
\* to the index and the length of the file.
HashPinsTheFile ==
  res = "ok" =>
    \A g \in Images :
      HashedAlike(img, g) /\ Valid(g) => g.head = img.head /\ g.trailer = img.trailer

\* A hash mismatch is reported only of a file that is sound in every other
\* respect: E009 never stands in for damage an earlier check names.
HashFaultIsTheOnlyFault ==
  res = "E009" => Valid([img EXCEPT !.trailer.hashOk = TRUE])

\* A missing section is reported only when the index and every body passed.
MissingSectionInASoundBody ==
  res = "E016" =>
    /\ Ordered(img) /\ Distinct(img) /\ Accounted(img)
    /\ \A k \in Sections(img) : EntryValid(img.slot[k]) /\ BodyValid(img.slot[k])
----------------------------------------------------------------------------
(***************************************************************************)
(* The invariant the proofs use: what the stages left behind established.  *)
(***************************************************************************)
Beyond(stages) == pc \in stages \/ res = "ok"

FromTrailer   == {"trailer"}
FromMandatory == FromTrailer \cup {"mandatory"}
FromBodies    == FromMandatory \cup {"bodies"}
FromLast      == FromBodies \cup {"last"}
FromOrder     == FromLast \cup {"order"}
FromFirst     == FromOrder \cup {"first"}
FromIndex     == FromFirst \cup {"index"}
FromGeometry  == FromIndex \cup {"geometry"}

Running(stage, total) == IF pc = stage THEN i ELSE total

EntriesSeen == Running("index", img.head.count)
OrderSeen   == Running("order", img.head.count - 1)
BodiesSeen  == Running("bodies", img.head.count)
BytesSeen   == IF pc = "bodies" THEN Off(img, i) ELSE BodyEnd(img)

LoopIndex ==
  /\ pc \in {"index", "bodies"} => i < img.head.count
  /\ pc = "order" => i < img.head.count - 1

HeaderKnown == Beyond(FromGeometry) => HeaderValid(img.head)

GeometryKnown ==
  Beyond(FromIndex) =>
    /\ IndexEnd(img) <= img.head.body_offset
    /\ BodyEnd(img) = TrailerAt(img)
    /\ Clean(img, IndexEnd(img), img.head.body_offset)

NothingSeenYet == pc \in {"length", "header", "geometry"} => seen = {}

EntriesKnown ==
  Beyond(FromIndex) =>
    /\ \A k \in Sections(img) :
         k < EntriesSeen => EntryValid(img.slot[k]) /\ img.slot[k].type \in seen
    /\ \A j, k \in Sections(img) :
         j < k /\ k < EntriesSeen => img.slot[j].type # img.slot[k].type
    /\ pc = "index" =>
         \A t \in seen : \E k \in Sections(img) : k < i /\ img.slot[k].type = t

FirstKnown == Beyond(FromOrder) => Off(img, 0) = img.head.body_offset

OrderKnown ==
  Beyond(FromOrder) =>
    \A j, k \in Sections(img) :
      j < k /\ k <= OrderSeen =>
        Off(img, j) < Off(img, k) /\ End(img, j) <= Off(img, k)

LastKnown ==
  Beyond(FromBodies) =>
    AlignUp(End(img, img.head.count - 1)) = BodyEnd(img)

BodiesKnown ==
  Beyond(FromBodies) =>
    /\ \A k \in Sections(img) : k < BodiesSeen => BodyValid(img.slot[k])
    /\ \A b \in img.dirty : b < BytesSeen => Owners(img, b) # {}
    /\ pc # "bodies" => BodyEnd(img) < U32

MandatoryKnown ==
  Beyond(FromTrailer) =>
    \A t \in Mandatory : \E k \in Sections(img) : img.slot[k].type = t

TrailerKnown == res = "ok" => TrailerValid(img)

FaultIsReal == res \in Codes => ~ Valid(img)

Inv ==
  /\ TypeOK /\ LoopIndex
  /\ HeaderKnown /\ GeometryKnown /\ NothingSeenYet /\ EntriesKnown
  /\ FirstKnown /\ OrderKnown /\ LastKnown
  /\ BodiesKnown /\ MandatoryKnown /\ TrailerKnown
  /\ FaultIsReal /\ PanicOnlyPastU32
=============================================================================
