-------------------------- MODULE ZacParse_proofs --------------------------
(***************************************************************************)
(* Proofs about ZacFile::parse, for files of every length, any word size   *)
(* and any limit on the number of sections.                                *)
(***************************************************************************)
EXTENDS ZacParse, TLAPS

USE U32Assumption, MaxSectionsAssumption, MaxMetaAssumption

\* What the parser may answer at a stage that found a fault.
Justified(f, c) ==
  \/ c \in Codes /\ ~ Valid(f)
  \/ c = "PANIC" /\ PastU32(f)

----------------------------------------------------------------------------
(* Faults.                                                                 *)

\* A stage reports a fault that is there, and no fault it looks for earlier is.
LEMMA EarliestFault ==
  ASSUME NEW S, NEW c \in Earliest(S)
  PROVE  \E x \in S : x.code = c /\ \A z \in S : x.rank <= z.rank
BY DEF Earliest

\* A fault is looked for exactly where its condition holds.
LEMMA FaultEmpty ==
  ASSUME NEW r, NEW c, NEW bad \in BOOLEAN
  PROVE  Fault(r, c, bad) = {} <=> ~ bad
BY DEF Fault

\* Rounding up to eight bytes never shortens.
LEMMA AlignUpBounds ==
  ASSUME NEW n \in Nat
  PROVE  AlignUp(n) \in Nat /\ n <= AlignUp(n) /\ AlignUp(n) < n + 8
BY DEF AlignUp

\* The words of an image are natural numbers.
LEMMA ImageWords ==
  ASSUME NEW f \in Image
  PROVE  /\ f.len \in Nat /\ f.head \in Header /\ f.trailer \in Trailer
         /\ f.dirty \subseteq Nat
         /\ f.head.count \in Nat /\ f.head.body_offset \in Nat
         /\ f.head.body_size \in Nat
         /\ BodyEnd(f) \in Nat /\ IndexEnd(f) \in Nat /\ TrailerAt(f) \in Int
         /\ \A k \in SlotIds : /\ f.slot[k] \in Slot
                               /\ Off(f, k) \in Nat /\ End(f, k) \in Nat
                               /\ Off(f, k) <= End(f, k)
<1>1. /\ f.len \in Nat /\ f.head \in Header /\ f.trailer \in Trailer
      /\ f.dirty \subseteq Nat /\ f.slot \in [SlotIds -> Slot]
  BY DEF Image
<1>2. Word \subseteq Nat
  BY DEF Word
<1>3. f.head.count \in Nat /\ f.head.body_offset \in Nat /\ f.head.body_size \in Nat
  <2>1. /\ f.head.count \in Nat
        /\ f.head.body_offset \in Word /\ f.head.body_size \in Word
    BY <1>1 DEF Header
  <2>. QED
    BY <2>1, <1>2
<1>4. ASSUME NEW k \in SlotIds
      PROVE  f.slot[k] \in Slot /\ f.slot[k].offset \in Nat /\ f.slot[k].size \in Nat
  <2>1. f.slot[k] \in Slot
    BY <1>1
  <2>2. f.slot[k].offset \in Word /\ f.slot[k].size \in Word
    BY <2>1 DEF Slot
  <2>. QED
    BY <2>1, <2>2, <1>2
<1>. QED
  BY <1>1, <1>3, <1>4 DEF BodyEnd, IndexEnd, TrailerAt, Off, End, SlotAt,
                          INDEX_OFFSET, INDEX_ENTRY_SIZE, TRAILER_SIZE

\* The slots a valid header announces are slots of the image.
LEMMA SectionsAreSlots ==
  ASSUME NEW f \in Image, HeaderValid(f.head)
  PROVE  /\ Sections(f) \subseteq SlotIds
         /\ f.head.count \in 1 .. MAX_SECTIONS
         /\ 0 \in Sections(f) /\ f.head.count - 1 \in Sections(f)
         /\ Sections(f) \subseteq Nat
BY DEF HeaderValid, Sections, SlotIds

\* A valid file is at least as long as header, one slot and trailer.
LEMMA ValidLength ==
  ASSUME NEW f \in Image, Valid(f)
  PROVE  f.len >= HEADER_SIZE + TRAILER_SIZE
BY ImageWords DEF Valid, HeaderValid, GeometryValid, BodyEnd, IndexEnd,
   TrailerAt, SlotAt, INDEX_OFFSET, INDEX_ENTRY_SIZE, TRAILER_SIZE, HEADER_SIZE

\* Length check: it rejects only files too short to be valid.
LEMMA LengthStage ==
  ASSUME NEW f \in Image, NEW c \in Earliest(LengthFaults(f))
  PROVE  Justified(f, c)
BY EarliestFault, ValidLength, ImageWords
   DEF LengthFaults, Fault, Justified, Codes, HEADER_SIZE, TRAILER_SIZE

\* Header::parse finds a fault exactly in the headers that are not valid.
LEMMA HeaderStage ==
  ASSUME NEW f \in Image
  PROVE  /\ HeaderFaults(f.head) = {} => HeaderValid(f.head)
         /\ \A c \in Earliest(HeaderFaults(f.head)) : Justified(f, c)
<1>. DEFINE h == f.head
<1>1. h \in Header /\ h.count \in Nat /\ h.body_offset \in Nat
  BY ImageWords
<1>2. ASSUME HeaderFaults(h) = {} PROVE HeaderValid(h)
  <2>1. /\ Fault(1, "E001", ~ h.magic) = {}
        /\ Fault(2, "E002", h.major # 1) = {}
        /\ Fault(3, "E003", h.flags # 0) = {}
        /\ Fault(4, "E003", h.count = 0 \/ h.count > MAX_SECTIONS) = {}
        /\ Fault(5, "E003", h.reserved # 0) = {}
        /\ Fault(6, "E004", h.index_offset # INDEX_OFFSET) = {}
        /\ Fault(7, "E004", h.body_offset % 8 # 0) = {}
        /\ Fault(8, "E003", h.reserved2 # 0) = {}
    BY <1>2, Zenon DEF HeaderFaults
  <2>2. /\ h.magic /\ h.major = 1 /\ h.flags = 0
        /\ ~ (h.count = 0 \/ h.count > MAX_SECTIONS)
        /\ h.reserved = 0 /\ h.index_offset = INDEX_OFFSET
        /\ h.body_offset % 8 = 0 /\ h.reserved2 = 0
    BY <2>1, Zenon DEF Fault
  <2>. QED
    BY <1>1, <2>2 DEF HeaderValid
<1>3. ASSUME NEW c \in Earliest(HeaderFaults(h)) PROVE Justified(f, c)
  <2>1. PICK x \in HeaderFaults(h) : x.code = c
    BY EarliestFault
  <2>2. c \in Codes
    BY <2>1 DEF HeaderFaults, Fault, Codes
  <2>3. ~ HeaderValid(h)
    BY <2>1, <1>1 DEF HeaderFaults, Fault, HeaderValid, Header
  <2>. QED
    BY <2>2, <2>3 DEF Justified, Valid
<1>. QED
  BY <1>2, <1>3

\* The bytes before the first body, in a valid file, are the index and zeros.
LEMMA ValidLead ==
  ASSUME NEW f \in Image, Valid(f)
  PROVE  Clean(f, IndexEnd(f), f.head.body_offset)
<1>1. SUFFICES ASSUME NEW b \in f.dirty,
                      IndexEnd(f) <= b, b < f.head.body_offset
               PROVE  FALSE
  BY DEF Clean
<1>2. HeaderValid(f.head) /\ GeometryValid(f) /\ Ordered(f) /\ Accounted(f)
  BY DEF Valid
<1>3. b \in Nat /\ Sections(f) \subseteq SlotIds /\ 0 \in Sections(f)
  BY <1>2, ImageWords, SectionsAreSlots
<1>4. ASSUME NEW k \in Sections(f), SlotAt(k) <= b, b < SlotAt(k + 1)
      PROVE  FALSE
  BY <1>1, <1>3, <1>4, ImageWords
     DEF Sections, IndexEnd, SlotAt, INDEX_OFFSET, INDEX_ENTRY_SIZE
<1>5. ASSUME NEW k \in Sections(f), Off(f, k) <= b, b < End(f, k)
      PROVE  FALSE
  <2>1. Off(f, 0) <= Off(f, k)
    BY <1>2, <1>3, ImageWords DEF Ordered, Sections
  <2>. QED
    BY <1>1, <1>2, <1>3, <1>5, <2>1, ImageWords DEF GeometryValid
<1>. QED
  BY <1>2, <1>4, <1>5 DEF Accounted, Owners

\* The geometry checks: what they establish, and why each fault is one.
LEMMA GeometryStage ==
  ASSUME NEW f \in Image, HeaderValid(f.head)
  PROVE  /\ GeometryFaults(f) = {} =>
              /\ IndexEnd(f) <= f.head.body_offset
              /\ BodyEnd(f) = TrailerAt(f)
              /\ Clean(f, IndexEnd(f), f.head.body_offset)
         /\ \A c \in Earliest(GeometryFaults(f)) : Justified(f, c)
<1>. DEFINE boff == f.head.body_offset
            clean == Clean(f, IndexEnd(f), boff)
<1>1. /\ f.len \in Nat /\ boff \in Nat /\ f.head.body_size \in Nat
      /\ IndexEnd(f) \in Nat /\ BodyEnd(f) \in Nat
      /\ BodyEnd(f) = boff + f.head.body_size
      /\ TrailerAt(f) = f.len - 40 /\ TRAILER_SIZE = 40
      /\ f.head.count \in 1 .. MAX_SECTIONS
  BY ImageWords, SectionsAreSlots DEF BodyEnd, TrailerAt, TRAILER_SIZE
<1>2. ASSUME GeometryFaults(f) = {}
      PROVE  IndexEnd(f) <= boff /\ BodyEnd(f) = TrailerAt(f) /\ clean
  <2>1. /\ Fault(2, "E004", boff < IndexEnd(f)) = {}
        /\ Fault(4, "E004", BodyEnd(f) + TRAILER_SIZE # f.len) = {}
        /\ Fault(6, "E004", ~ clean) = {}
    BY <1>2, Zenon DEF GeometryFaults
  <2>2. ~ (boff < IndexEnd(f)) /\ BodyEnd(f) + TRAILER_SIZE = f.len /\ clean
    BY <2>1, Zenon DEF Fault
  <2>. QED
    BY <1>1, <2>2
<1>3. ASSUME NEW c \in Earliest(GeometryFaults(f)) PROVE Justified(f, c)
  <2>1. PICK x \in GeometryFaults(f) :
          x.code = c /\ \A z \in GeometryFaults(f) : x.rank <= z.rank
    BY EarliestFault
  <2>2. Valid(f) => /\ IndexEnd(f) <= boff /\ BodyEnd(f) = TrailerAt(f) /\ clean
    BY ValidLead DEF Valid, GeometryValid
  <2>3. CASE x.rank = 5
    <3>1. IndexEnd(f) > boff \/ boff > f.len
      BY <2>1, <2>3 DEF GeometryFaults, Fault
    <3>2. \/ [rank |-> 2, code |-> "E004"] \in GeometryFaults(f)
          \/ [rank |-> 3, code |-> "E015"] \in GeometryFaults(f)
      BY <1>1, <3>1 DEF GeometryFaults, Fault
    <3>. QED
      BY <2>1, <2>3, <3>2
  <2>4. CASE x.rank # 5
    <3>1. c \in Codes
      BY <2>1, <2>4 DEF GeometryFaults, Fault, Codes
    <3>2. \/ IndexEnd(f) > f.len \/ boff < IndexEnd(f)
          \/ BodyEnd(f) + TRAILER_SIZE # f.len \/ ~ clean
      BY <1>1, <2>1, <2>4 DEF GeometryFaults, Fault
    <3>. QED
      BY <1>1, <2>2, <3>1, <3>2 DEF Justified
  <2>. QED
    BY <2>3, <2>4
<1>. QED
  BY <1>2, <1>3
----------------------------------------------------------------------------
(* Steps.                                                                  *)

\* A stage that stops on a justified fault keeps the invariant.
LEMMA FailKeepsInv ==
  ASSUME Inv, NEW S, Fail(S), \A c \in Earliest(S) : Justified(img, c)
  PROVE  Inv'
<1>1. /\ res' \in Codes \cup {"PANIC"} /\ pc' = "done"
      /\ img' = img /\ i' = i /\ seen' = seen
      /\ Justified(img, res')
  BY DEF Fail, Justified
<1>2. res' # "ok" /\ res' # "none"
  BY <1>1 DEF Codes
<1>3. TypeOK' /\ LoopIndex'
  BY <1>1, <1>2 DEF Inv, TypeOK, LoopIndex, Stages
<1>4. /\ ~ Beyond(FromGeometry)' /\ ~ Beyond(FromIndex)' /\ ~ Beyond(FromOrder)'
      /\ ~ Beyond(FromBodies)' /\ ~ Beyond(FromTrailer)'
  BY <1>1, <1>2 DEF Beyond, FromGeometry, FromIndex, FromFirst, FromOrder,
     FromLast, FromBodies, FromMandatory, FromTrailer
<1>5. FaultIsReal' /\ PanicOnlyPastU32'
  BY <1>1 DEF FaultIsReal, PanicOnlyPastU32, Justified, Codes
<1>. QED
  BY <1>1, <1>2, <1>3, <1>4, <1>5 DEF Inv, HeaderKnown, GeometryKnown,
     NothingSeenYet, EntriesKnown, FirstKnown, OrderKnown, LastKnown, BodiesKnown, MandatoryKnown, TrailerKnown

\* What a stage after the header may rely on.
LEMMA KnownGeometry ==
  ASSUME Inv, pc \in FromIndex
  PROVE  /\ img \in Image /\ Coherent(img) /\ res = "none"
         /\ HeaderValid(img.head)
         /\ Sections(img) = 0 .. img.head.count - 1
         /\ Sections(img) \subseteq SlotIds /\ Sections(img) \subseteq Nat
         /\ img.head.count \in 1 .. MAX_SECTIONS
         /\ img.len \in Nat /\ img.head.body_offset \in Nat
         /\ BodyEnd(img) \in Nat /\ IndexEnd(img) \in Nat
         /\ IndexEnd(img) <= img.head.body_offset
         /\ img.head.body_offset <= BodyEnd(img)
         /\ BodyEnd(img) = TrailerAt(img) /\ TrailerAt(img) = img.len - TRAILER_SIZE
         /\ TRAILER_SIZE = 40
         /\ Clean(img, IndexEnd(img), img.head.body_offset)
         /\ img.dirty \subseteq Nat
         /\ \A k \in Sections(img) : /\ img.slot[k] \in Slot
                                      /\ Off(img, k) \in Nat /\ End(img, k) \in Nat
                                      /\ Off(img, k) <= End(img, k)
<1>1. img \in Image /\ Coherent(img)
  BY ImagesAssumption DEF Inv, TypeOK
<1>2. res = "none" /\ Beyond(FromIndex) /\ Beyond(FromGeometry)
  BY DEF Inv, TypeOK, Beyond, FromGeometry, FromIndex, FromFirst, FromOrder,
     FromLast, FromBodies, FromMandatory, FromTrailer
<1>3. /\ HeaderValid(img.head) /\ IndexEnd(img) <= img.head.body_offset
      /\ BodyEnd(img) = TrailerAt(img)
      /\ Clean(img, IndexEnd(img), img.head.body_offset)
  BY <1>2 DEF Inv, HeaderKnown, GeometryKnown
<1>4. img.head.body_offset <= BodyEnd(img)
  BY <1>1, ImageWords DEF BodyEnd
<1>. QED
  BY <1>1, <1>2, <1>3, <1>4, ImageWords, SectionsAreSlots
     DEF Sections, TrailerAt, TRAILER_SIZE

\* CheckLength.
LEMMA LengthStep ==
  ASSUME Inv, CheckLength
  PROVE  Inv'
<1>1. img \in Image /\ res = "none" /\ pc = "length"
  BY ImagesAssumption DEF Inv, TypeOK, CheckLength
<1>2. CASE Fail(LengthFaults(img))
  BY <1>1, <1>2, LengthStage, FailKeepsInv
<1>3. CASE Pass(LengthFaults(img), "header")
  <2>1. /\ pc' = "header" /\ i' = 0 /\ img' = img /\ seen' = seen /\ res' = "none"
    BY <1>1, <1>3 DEF Pass
  <2>2. TypeOK' /\ LoopIndex' /\ NothingSeenYet'
    BY <1>1, <2>1 DEF Inv, TypeOK, LoopIndex, NothingSeenYet, Stages, SlotIds
  <2>. QED
    BY <2>1, <2>2 DEF Inv, Beyond, HeaderKnown, GeometryKnown, EntriesKnown,
       FirstKnown, OrderKnown, LastKnown, BodiesKnown, MandatoryKnown,
       TrailerKnown, FaultIsReal, PanicOnlyPastU32, Codes,
       FromGeometry, FromIndex, FromFirst, FromOrder,
       FromLast, FromBodies, FromMandatory, FromTrailer
<1>. QED
  BY <1>2, <1>3 DEF CheckLength

\* ParseHeader.
LEMMA HeaderStep ==
  ASSUME Inv, ParseHeader
  PROVE  Inv'
<1>1. img \in Image /\ res = "none" /\ pc = "header"
  BY ImagesAssumption DEF Inv, TypeOK, ParseHeader
<1>2. CASE Fail(HeaderFaults(img.head))
  BY <1>1, <1>2, HeaderStage, FailKeepsInv
<1>3. CASE Pass(HeaderFaults(img.head), "geometry")
  <2>1. /\ pc' = "geometry" /\ i' = 0 /\ img' = img /\ seen' = seen /\ res' = "none"
        /\ HeaderValid(img.head)
    BY <1>1, <1>3, HeaderStage DEF Pass
  <2>2. TypeOK' /\ LoopIndex' /\ NothingSeenYet' /\ HeaderKnown'
    BY <1>1, <2>1 DEF Inv, TypeOK, LoopIndex, NothingSeenYet, HeaderKnown, Stages,
       SlotIds
  <2>. QED
    BY <2>1, <2>2 DEF Inv, Beyond, GeometryKnown, EntriesKnown,
       FirstKnown, OrderKnown, LastKnown, BodiesKnown, MandatoryKnown,
       TrailerKnown, FaultIsReal, PanicOnlyPastU32, Codes,
       FromIndex, FromFirst, FromOrder,
       FromLast, FromBodies, FromMandatory, FromTrailer
<1>. QED
  BY <1>2, <1>3 DEF ParseHeader

\* CheckGeometry.
LEMMA GeometryStep ==
  ASSUME Inv, CheckGeometry
  PROVE  Inv'
<1>1. img \in Image /\ res = "none" /\ pc = "geometry" /\ HeaderValid(img.head)
  BY ImagesAssumption DEF Inv, TypeOK, CheckGeometry, HeaderKnown, Beyond, FromGeometry
<1>2. CASE Fail(GeometryFaults(img))
  BY <1>1, <1>2, GeometryStage, FailKeepsInv
<1>3. CASE Pass(GeometryFaults(img), "index")
  <2>1. /\ pc' = "index" /\ i' = 0 /\ img' = img /\ seen' = {} /\ res' = "none"
        /\ img.head.count \in 1 .. MAX_SECTIONS
    BY <1>1, <1>3, SectionsAreSlots DEF Pass, Inv, NothingSeenYet
  <2>2. GeometryKnown' /\ HeaderKnown'
    BY <1>1, <1>3, <2>1, GeometryStage DEF Pass, GeometryKnown, HeaderKnown
  <2>3. EntriesKnown'
    BY <2>1 DEF EntriesKnown, EntriesSeen, Running, Sections
  <2>4. TypeOK' /\ LoopIndex' /\ NothingSeenYet'
    BY <1>1, <2>1 DEF Inv, TypeOK, LoopIndex, NothingSeenYet, Stages, SlotIds
  <2>. QED
    BY <2>1, <2>2, <2>3, <2>4 DEF Inv, Beyond,
       FirstKnown, OrderKnown, LastKnown, BodiesKnown, MandatoryKnown,
       TrailerKnown, FaultIsReal, PanicOnlyPastU32, Codes,
       FromOrder, FromLast, FromBodies, FromMandatory, FromTrailer
<1>. QED
  BY <1>2, <1>3 DEF CheckGeometry

\* A fault of an index entry is a fault of the file.
LEMMA EntryStage ==
  ASSUME Inv, pc = "index"
  PROVE  /\ EntryFaults(img, i) = {} =>
              EntryValid(img.slot[i]) /\ img.slot[i].type \notin seen
         /\ \A c \in Earliest(EntryFaults(img, i)) : Justified(img, c)
<1>. DEFINE s == img.slot[i]
<1>0. pc \in FromIndex
  BY DEF FromIndex
<1>1. i \in Sections(img) /\ i \in Nat /\ i < img.head.count
  BY <1>0, KnownGeometry DEF Inv, TypeOK, LoopIndex, SlotIds
<1>2. ASSUME EntryFaults(img, i) = {}
      PROVE  EntryValid(s) /\ s.type \notin seen
  <2>1. /\ Fault(2, "E003", s.flags # 0) = {}
        /\ Fault(3, "E003", s.pad # 0) = {}
        /\ Fault(4, "E007", Forbidden(s.type)) = {}
        /\ Fault(5, "E004", s.offset % 8 # 0) = {}
        /\ Fault(6, "E006", s.type \in seen) = {}
    BY <1>2, Zenon DEF EntryFaults
  <2>. QED
    BY <2>1, Zenon DEF Fault, EntryValid
<1>3. ASSUME NEW c \in Earliest(EntryFaults(img, i)) PROVE Justified(img, c)
  <2>1. PICK x \in EntryFaults(img, i) : x.code = c
    BY EarliestFault
  <2>2. ~ (SlotAt(i + 1) > img.len)
    <3>1. i + 1 <= img.head.count /\ img.head.count \in Nat
      BY <1>0, <1>1, KnownGeometry
    <3>2. SlotAt(i + 1) <= IndexEnd(img) /\ SlotAt(i + 1) \in Nat
      BY <1>1, <3>1 DEF IndexEnd, SlotAt, INDEX_OFFSET, INDEX_ENTRY_SIZE
    <3>3. IndexEnd(img) <= img.len - 40 /\ img.len \in Nat /\ IndexEnd(img) \in Nat
      BY <1>0, KnownGeometry
    <3>. QED
      BY <3>2, <3>3
  <2>3. c \in Codes
    BY <2>1, <2>2 DEF EntryFaults, Fault, Codes
  <2>4. ~ EntryValid(s) \/ s.type \in seen
    BY <2>1, <2>2 DEF EntryFaults, Fault, EntryValid
  <2>5. ASSUME s.type \in seen PROVE ~ Distinct(img)
    <3>1. PICK k \in Sections(img) : k < i /\ img.slot[k].type = s.type
      BY <1>0, <2>5 DEF Inv, EntriesKnown, Beyond
    <3>2. k # i
      BY <1>0, <1>1, <3>1, KnownGeometry
    <3>. QED
      BY <1>1, <3>1, <3>2 DEF Distinct
  <2>. QED
    BY <1>1, <2>3, <2>4, <2>5 DEF Justified, Valid
<1>. QED
  BY <1>2, <1>3

\* ParseEntry.
LEMMA EntryStep ==
  ASSUME Inv, ParseEntry
  PROVE  Inv'
<1>0. pc = "index" /\ pc \in FromIndex
  BY DEF ParseEntry, FromIndex
<1>1. CASE Fail(EntryFaults(img, i))
  BY <1>0, <1>1, EntryStage, FailKeepsInv
<1>2. CASE /\ Step(EntryFaults(img, i), img.head.count, "first")
           /\ seen' = seen \cup {img.slot[i].type}
  <2>. DEFINE n == img.head.count
  <2>1. /\ i \in Nat /\ i < n /\ n \in 1 .. MAX_SECTIONS /\ res = "none"
        /\ img.slot[i] \in Slot
    BY <1>0, KnownGeometry DEF Inv, TypeOK, LoopIndex, SlotIds
  <2>2. img' = img /\ res' = "none"
    BY <1>2, <2>1 DEF Step
  <2>3. EntryValid(img.slot[i]) /\ img.slot[i].type \notin seen
    BY <1>0, <1>2, EntryStage DEF Step
  <2>4. \/ i + 1 < n /\ pc' = "index" /\ i' = i + 1
        \/ i + 1 = n /\ pc' = "first" /\ i' = 0
    BY <1>0, <1>2, <2>1 DEF Step
  <2>5. EntriesSeen = i /\ EntriesSeen' = i + 1
    BY <1>0, <2>2, <2>4 DEF EntriesSeen, Running
  <2>6. img.slot[i].type \in SectionType
    BY <2>1 DEF Slot
  <2>7. TypeOK'
    BY <2>1, <2>2, <2>4, <2>6, <1>2 DEF Inv, TypeOK, Stages, SlotIds
  <2>8. LoopIndex' /\ NothingSeenYet'
    BY <2>2, <2>4 DEF LoopIndex, NothingSeenYet
  <2>9. HeaderKnown' /\ GeometryKnown'
    BY <1>0, <2>2, KnownGeometry DEF HeaderKnown, GeometryKnown
  <2>10. EntriesKnown'
    <3>1. Beyond(FromIndex)
      BY <1>0 DEF Beyond
    <3>2. ASSUME NEW k \in Sections(img), k < i + 1
          PROVE  /\ EntryValid(img.slot[k]) /\ img.slot[k].type \in seen'
                 /\ k # i => k < i
      BY <1>0, <1>2, <2>1, <2>3, <2>5, <3>1, <3>2, KnownGeometry
         DEF Inv, EntriesKnown
    <3>3. ASSUME NEW j \in Sections(img), NEW k \in Sections(img),
                 j < k, k < i + 1
          PROVE  img.slot[j].type # img.slot[k].type
      <4>1. CASE k < i
        BY <2>5, <3>1, <3>3, <4>1 DEF Inv, EntriesKnown
      <4>2. CASE k = i
        <5>1. img.slot[j].type \in seen
          BY <2>5, <3>1, <3>3, <4>2 DEF Inv, EntriesKnown
        <5>. QED
          BY <2>3, <4>2, <5>1
      <4>. QED
        BY <3>2, <3>3, <4>1, <4>2
    <3>4. ASSUME pc' = "index", NEW t \in seen'
          PROVE  \E k \in Sections(img) : k < i' /\ img.slot[k].type = t
      <4>1. i' = i + 1 /\ i \in Sections(img) /\ i < i'
        BY <1>0, <2>1, <2>4, <3>4, KnownGeometry
      <4>2. CASE t \in seen
        <5>1. PICK k \in Sections(img) : k < i /\ img.slot[k].type = t
          BY <1>0, <3>1, <4>2 DEF Inv, EntriesKnown
        <5>. QED
          BY <1>0, <2>1, <4>1, <5>1, KnownGeometry
      <4>3. CASE t = img.slot[i].type
        BY <4>1, <4>3
      <4>. QED
        BY <1>2, <3>4, <4>2, <4>3
    <3>. QED
      BY <2>2, <2>5, <3>2, <3>3, <3>4 DEF EntriesKnown, Sections
  <2>. QED
    BY <2>2, <2>4, <2>7, <2>8, <2>9, <2>10 DEF Inv, Beyond,
       FirstKnown, OrderKnown, LastKnown, BodiesKnown, MandatoryKnown,
       TrailerKnown, FaultIsReal, PanicOnlyPastU32, Codes,
       FromOrder, FromLast, FromBodies, FromMandatory, FromTrailer
<1>. QED
  BY <1>1, <1>2 DEF ParseEntry

\* CheckFirst.
LEMMA FirstStep ==
  ASSUME Inv, CheckFirst
  PROVE  Inv'
<1>0. pc = "first" /\ pc \in FromIndex /\ Beyond(FromIndex)
  BY DEF CheckFirst, FromIndex, FromFirst, Beyond
<1>1. CASE Fail(FirstFaults(img))
  <2>1. ASSUME NEW c \in Earliest(FirstFaults(img)) PROVE Justified(img, c)
    BY EarliestFault
       DEF FirstFaults, Fault, Justified, Codes, Valid, GeometryValid
  <2>. QED
    BY <1>1, <2>1, FailKeepsInv
<1>2. CASE Pass(FirstFaults(img), IF img.head.count > 1 THEN "order" ELSE "last")
  <2>. DEFINE n == img.head.count
  <2>1. /\ img' = img /\ i' = 0 /\ seen' = seen /\ res' = "none" /\ res = "none"
        /\ n \in 1 .. MAX_SECTIONS
        /\ \/ n > 1 /\ pc' = "order"
           \/ n = 1 /\ pc' = "last"
    BY <1>0, <1>2, KnownGeometry DEF Pass
  <2>2. FirstKnown'
    <3>1. Fault(1, "E004", Off(img, 0) # img.head.body_offset) = {}
      BY <1>2 DEF Pass, FirstFaults
    <3>2. Off(img, 0) = img.head.body_offset
      BY <3>1, Zenon DEF Fault
    <3>. QED
      BY <2>1, <3>2 DEF FirstKnown, Off
  <2>3. TypeOK' /\ LoopIndex' /\ NothingSeenYet'
    BY <2>1 DEF Inv, TypeOK, LoopIndex, NothingSeenYet, Stages, SlotIds
  <2>4. HeaderKnown' /\ GeometryKnown'
    BY <1>0, <2>1, KnownGeometry DEF HeaderKnown, GeometryKnown
  <2>5. EntriesKnown'
    BY <1>0, <2>1 DEF Inv, EntriesKnown, EntriesSeen, Running
  <2>6. OrderKnown'
    <3>1. OrderSeen' = 0
      BY <2>1 DEF OrderSeen, Running
    <3>. QED
      BY <1>0, <2>1, <3>1, KnownGeometry DEF OrderKnown, Sections
  <2>. QED
    BY <2>1, <2>2, <2>3, <2>4, <2>5, <2>6 DEF Inv, Beyond, LastKnown,
       BodiesKnown, MandatoryKnown, TrailerKnown, FaultIsReal,
       PanicOnlyPastU32, Codes, FromBodies, FromMandatory, FromTrailer
<1>. QED
  BY <1>1, <1>2 DEF CheckFirst

\* CheckOrder: comparing neighbours keeps the whole prefix ordered.
LEMMA OrderStep ==
  ASSUME Inv, CheckOrder
  PROVE  Inv'
<1>. DEFINE n == img.head.count
<1>0. /\ pc = "order" /\ pc \in FromIndex
      /\ Beyond(FromIndex) /\ Beyond(FromOrder)
  BY DEF CheckOrder, FromIndex, FromFirst, FromOrder, Beyond
<1>1. /\ i \in Nat /\ n \in Nat /\ n \in 1 .. MAX_SECTIONS /\ i < n - 1
      /\ i \in Sections(img) /\ i + 1 \in Sections(img)
  BY <1>0, KnownGeometry, SMTT(20) DEF Inv, TypeOK, LoopIndex, SlotIds
<1>2. CASE Fail(OrderFaults(img, i))
  <2>1. ASSUME NEW c \in Earliest(OrderFaults(img, i)) PROVE Justified(img, c)
    <3>1. c = "E005" /\ (Off(img, i + 1) < End(img, i) \/ Off(img, i + 1) <= Off(img, i))
      BY EarliestFault DEF OrderFaults, Fault
    <3>2. /\ Off(img, i) \in Nat /\ End(img, i) \in Nat
          /\ Off(img, i + 1) \in Nat /\ i < i + 1
      BY <1>0, <1>1, KnownGeometry
    <3>3. ~ Ordered(img)
      BY <1>1, <3>1, <3>2 DEF Ordered
    <3>. QED
      BY <3>1, <3>3 DEF Justified, Codes, Valid
  <2>. QED
    BY <1>2, <2>1, FailKeepsInv
<1>3. CASE Step(OrderFaults(img, i), n - 1, "last") /\ UNCHANGED seen
  <2>1. /\ img' = img /\ seen' = seen /\ res' = "none" /\ res = "none"
        /\ \/ i + 1 < n - 1 /\ pc' = "order" /\ i' = i + 1
           \/ i + 1 = n - 1 /\ pc' = "last" /\ i' = 0
    <3>1. res = "none"
      BY <1>0, KnownGeometry
    <3>. QED
      BY <1>0, <1>1, <1>3, <3>1 DEF Step
  <2>2. OrderSeen = i /\ OrderSeen' = i + 1
    BY <1>0, <2>1 DEF OrderSeen, Running
  <2>3. Off(img, i) < Off(img, i + 1) /\ End(img, i) <= Off(img, i + 1)
    <3>1. Fault(1, "E005", \/ Off(img, i + 1) < End(img, i)
                           \/ Off(img, i + 1) <= Off(img, i)) = {}
      BY <1>3 DEF Step, OrderFaults
    <3>2. ~ (Off(img, i + 1) < End(img, i)) /\ ~ (Off(img, i + 1) <= Off(img, i))
      BY <3>1, Zenon DEF Fault
    <3>. QED
      BY <1>0, <1>1, <3>2, KnownGeometry, SMTT(20)
  <2>4. OrderKnown'
    <3>1. SUFFICES ASSUME NEW j \in Sections(img), NEW k \in Sections(img),
                          j < k, k <= i + 1
                   PROVE  Off(img, j) < Off(img, k) /\ End(img, j) <= Off(img, k)
      BY <2>1, <2>2 DEF OrderKnown, Sections, Off, End
    <3>2. j \in Nat /\ k \in Nat
      BY <1>0, KnownGeometry
    <3>3. CASE k <= i
      BY <1>0, <2>2, <3>1, <3>3 DEF Inv, OrderKnown
    <3>4. CASE k = i + 1 /\ j = i
      BY <2>3, <3>4
    <3>5. CASE k = i + 1 /\ j < i
      <4>1. Off(img, j) < Off(img, i) /\ End(img, j) <= Off(img, i)
        BY <1>0, <1>1, <2>2, <3>5 DEF Inv, OrderKnown
      <4>2. /\ Off(img, j) \in Nat /\ End(img, j) \in Nat
            /\ Off(img, i) \in Nat /\ Off(img, i + 1) \in Nat
        BY <1>0, <1>1, KnownGeometry
      <4>. QED
        BY <2>3, <3>5, <4>1, <4>2
    <3>. QED
      BY <1>1, <3>1, <3>2, <3>3, <3>4, <3>5
  <2>5. TypeOK' /\ LoopIndex' /\ NothingSeenYet'
    BY <1>1, <2>1 DEF Inv, TypeOK, LoopIndex, NothingSeenYet, Stages, SlotIds
  <2>6. HeaderKnown' /\ GeometryKnown'
    BY <1>0, <2>1, KnownGeometry DEF HeaderKnown, GeometryKnown
  <2>7. EntriesKnown'
    BY <1>0, <2>1 DEF Inv, EntriesKnown, EntriesSeen, Running
  <2>8. FirstKnown'
    BY <1>0, <2>1 DEF Inv, FirstKnown, Off
  <2>. QED
    BY <2>1, <2>4, <2>5, <2>6, <2>7, <2>8 DEF Inv, Beyond, LastKnown,
       BodiesKnown, MandatoryKnown, TrailerKnown, FaultIsReal,
       PanicOnlyPastU32, Codes, FromBodies, FromMandatory, FromTrailer
<1>. QED
  BY <1>2, <1>3 DEF CheckOrder

\* CheckLast: nothing but the index lies before the first body.
LEMMA LastStep ==
  ASSUME Inv, CheckLast
  PROVE  Inv'
<1>. DEFINE n == img.head.count
            last_end == End(img, n - 1)
<1>0. /\ pc = "last" /\ pc \in FromIndex
      /\ Beyond(FromIndex) /\ Beyond(FromOrder)
  BY DEF CheckLast, FromIndex, FromFirst, FromOrder, FromLast, Beyond
<1>1. /\ n \in 1 .. MAX_SECTIONS /\ res = "none"
      /\ 0 \in Sections(img) /\ n - 1 \in Sections(img)
      /\ last_end \in Nat /\ BodyEnd(img) \in Nat
  BY <1>0, KnownGeometry, SMTT(20)
<1>2. CASE Fail(LastFaults(img))
  <2>1. ASSUME NEW c \in Earliest(LastFaults(img)) PROVE Justified(img, c)
    <3>1. /\ c \in Codes
          /\ last_end > BodyEnd(img) \/ AlignUp(last_end) # BodyEnd(img)
      BY EarliestFault DEF LastFaults, Fault, Codes
    <3>2. AlignUp(last_end) # BodyEnd(img)
      BY <1>1, <3>1, AlignUpBounds
    <3>. QED
      BY <3>1, <3>2 DEF Justified, Valid, GeometryValid
  <2>. QED
    BY <1>2, <2>1, FailKeepsInv
<1>3. CASE Pass(LastFaults(img), "bodies")
  <2>1. img' = img /\ i' = 0 /\ seen' = seen /\ res' = "none" /\ pc' = "bodies"
    BY <1>1, <1>3 DEF Pass
  <2>2. LastKnown'
    <3>1. Fault(2, "E004", AlignUp(last_end) # BodyEnd(img)) = {}
      BY <1>3, Zenon DEF Pass, LastFaults
    <3>2. AlignUp(last_end) = BodyEnd(img)
      BY <3>1, Zenon DEF Fault
    <3>. QED
      BY <2>1, <3>2 DEF LastKnown
  <2>3. BodiesKnown'
    <3>1. Off(img, 0) = img.head.body_offset
      BY <1>0 DEF Inv, FirstKnown
    <3>2. BytesSeen' = Off(img, 0) /\ BodiesSeen' = 0
      BY <2>1 DEF BytesSeen, BodiesSeen, Running, Off
    <3>3. ASSUME NEW b \in img.dirty, b < Off(img, 0)
          PROVE  Owners(img, b) # {}
      <4>1. b \in Nat /\ HEADER_SIZE <= b
        BY <1>0, KnownGeometry DEF Coherent
      <4>2. IndexEnd(img) \in Nat /\ ~ (IndexEnd(img) <= b)
        BY <1>0, <3>1, <3>3, KnownGeometry DEF Clean
      <4>. DEFINE k == (b - 32) \div 16
      <4>3. k \in Nat /\ SlotAt(k) <= b /\ b < SlotAt(k + 1) /\ k < n
        <5>1. /\ b - 32 \in Nat /\ n \in Nat
              /\ b < 32 + n * 16 /\ b \in Nat
          BY <1>1, <4>1, <4>2
             DEF IndexEnd, SlotAt, HEADER_SIZE, INDEX_OFFSET, INDEX_ENTRY_SIZE
        <5>2. k \in Nat /\ 16 * k <= b - 32 /\ b - 32 < 16 * k + 16
          BY <5>1
        <5>3. k < n
          BY <5>1, <5>2
        <5>. HIDE DEF k
        <5>. QED
          BY <5>1, <5>2, <5>3 DEF SlotAt, INDEX_OFFSET, INDEX_ENTRY_SIZE
      <4>4. k \in Sections(img)
        BY <1>1, <4>3 DEF Sections
      <4>. QED
        BY <4>3, <4>4 DEF Owners
    <3>. QED
      BY <1>0, <2>1, <3>2, <3>3, KnownGeometry DEF BodiesKnown, Sections
  <2>4. TypeOK' /\ LoopIndex' /\ NothingSeenYet'
    BY <1>1, <2>1 DEF Inv, TypeOK, LoopIndex, NothingSeenYet, Stages, SlotIds
  <2>5. HeaderKnown' /\ GeometryKnown'
    BY <1>0, <2>1, KnownGeometry DEF HeaderKnown, GeometryKnown
  <2>6. EntriesKnown'
    BY <1>0, <2>1 DEF Inv, EntriesKnown, EntriesSeen, Running
  <2>7. FirstKnown' /\ OrderKnown'
    BY <1>0, <2>1 DEF Inv, FirstKnown, OrderKnown, OrderSeen, Running, Off, End
  <2>. QED
    BY <2>1, <2>2, <2>3, <2>4, <2>5, <2>6, <2>7 DEF Inv, Beyond,
       MandatoryKnown, TrailerKnown, FaultIsReal, PanicOnlyPastU32, Codes,
       FromTrailer
<1>. QED
  BY <1>2, <1>3 DEF CheckLast

\* What a stage after the index may rely on: bodies in order, inside the body
\* region, the last one filling it.
LEMMA KnownIndex ==
  ASSUME Inv, pc \in FromBodies
  PROVE  /\ pc \in FromIndex
         /\ \A k \in Sections(img) : EntryValid(img.slot[k])
         /\ Distinct(img) /\ Ordered(img) /\ GeometryValid(img)
         /\ \A k \in Sections(img) : End(img, k) <= BodyEnd(img)
<1>. DEFINE n == img.head.count
            last == n - 1
<1>1. /\ pc \in FromIndex /\ pc \notin {"index", "order"}
      /\ Beyond(FromIndex) /\ Beyond(FromOrder) /\ Beyond(FromBodies)
  BY DEF Beyond, FromIndex, FromFirst, FromOrder, FromLast, FromBodies,
     FromMandatory, FromTrailer
<1>2. /\ n \in 1 .. MAX_SECTIONS /\ last \in Sections(img) /\ BodyEnd(img) \in Nat
      /\ \A k \in Sections(img) : k \in Nat /\ k < n /\ k <= last
      /\ \A k \in Sections(img) :
           Off(img, k) \in Nat /\ End(img, k) \in Nat /\ Off(img, k) <= End(img, k)
  BY <1>1, KnownGeometry, SMTT(20)
<1>3. EntriesSeen = n /\ OrderSeen = last
  BY <1>1 DEF EntriesSeen, OrderSeen, Running
<1>4. (\A k \in Sections(img) : EntryValid(img.slot[k])) /\ Ordered(img)
  BY <1>1, <1>2, <1>3 DEF Inv, EntriesKnown, OrderKnown, Ordered
<1>5. Distinct(img)
  <2>1. SUFFICES ASSUME NEW j \in Sections(img), NEW k \in Sections(img), j # k
                 PROVE  img.slot[j].type # img.slot[k].type
    BY DEF Distinct
  <2>2. (j < k \/ k < j) /\ j < n /\ k < n
    BY <1>2, <2>1
  <2>. QED
    BY <1>1, <1>3, <2>1, <2>2 DEF Inv, EntriesKnown
<1>6. GeometryValid(img)
  BY <1>1, KnownGeometry DEF Inv, FirstKnown, LastKnown, GeometryValid
<1>7. ASSUME NEW k \in Sections(img) PROVE End(img, k) <= BodyEnd(img)
  <2>1. End(img, last) <= BodyEnd(img)
    BY <1>2, <1>6, AlignUpBounds DEF GeometryValid
  <2>2. k # last => End(img, k) <= End(img, last)
    <3>1. k # last => k < last
      BY <1>2
    <3>2. k # last => End(img, k) <= Off(img, last)
      BY <1>2, <1>4, <3>1 DEF Ordered
    <3>. QED
      BY <1>2, <3>2
  <2>. QED
    BY <1>2, <2>1, <2>2
<1>. QED
  BY <1>1, <1>4, <1>5, <1>6, <1>7

\* A fault code of Section::parse is a code of the parser.
LEMMA SectionFaultCode ==
  ASSUME NEW s \in Slot
  PROVE  SectionFault(s) = "ok" \/ SectionFault(s) \in Codes
<1>1. s.body \in BodyVerdict
  BY DEF Slot
<1>. QED
  BY <1>1 DEF SectionFault, BodyVerdict, Codes

\* Where the zeros after body i must end.
RealPadEnd == IF i + 1 < img.head.count THEN Off(img, i + 1) ELSE BodyEnd(img)

\* Unless body_end passes u32, the padding after body i is the slice from the
\* end of that body to the next body or to the trailer, within the file.
LEMMA PadSlice ==
  ASSUME Inv, pc = "bodies"
  PROVE  /\ i \in Sections(img) /\ End(img, i) \in Nat /\ RealPadEnd \in Nat
         /\ Off(img, i) <= End(img, i) /\ End(img, i) <= RealPadEnd
         /\ RealPadEnd <= BodyEnd(img)
         /\ End(img, i) <= img.len - TRAILER_SIZE /\ End(img, i) <= img.len
         /\ RealPadEnd <= img.len
         /\ PadEnd(img, i) # RealPadEnd => BodyEnd(img) >= U32
<1>0. pc \in FromBodies /\ pc \in FromIndex
  BY DEF FromIndex, FromFirst, FromOrder, FromLast, FromBodies
<1>1. /\ i \in Nat /\ i \in Sections(img) /\ img.head.count \in Nat
      /\ i < img.head.count
  BY <1>0, KnownGeometry, SMTT(20) DEF Inv, TypeOK, LoopIndex, SlotIds
<1>2. /\ End(img, i) \in Nat /\ Off(img, i) <= End(img, i)
      /\ End(img, i) <= BodyEnd(img) /\ BodyEnd(img) \in Nat
      /\ BodyEnd(img) = img.len - TRAILER_SIZE /\ TRAILER_SIZE = 40 /\ img.len \in Nat
  BY <1>0, <1>1, KnownGeometry, KnownIndex
<1>3. CASE i + 1 < img.head.count
  <2>1. i + 1 \in Sections(img) /\ i < i + 1
    BY <1>0, <1>1, <1>3, KnownGeometry
  <2>2. /\ Off(img, i + 1) \in Nat /\ End(img, i) <= Off(img, i + 1)
        /\ Off(img, i + 1) <= End(img, i + 1) /\ End(img, i + 1) <= BodyEnd(img)
        /\ End(img, i + 1) \in Nat
    BY <1>0, <1>1, <2>1, KnownGeometry, KnownIndex DEF Ordered
  <2>3. PadEnd(img, i) = Off(img, i + 1) /\ RealPadEnd = Off(img, i + 1)
    BY <1>3 DEF PadEnd, RealPadEnd
  <2>. QED
    BY <1>1, <1>2, <2>2, <2>3
<1>4. CASE ~ (i + 1 < img.head.count)
  <2>1. PadEnd(img, i) = BodyEnd(img) % U32 /\ RealPadEnd = BodyEnd(img)
    BY <1>4 DEF PadEnd, RealPadEnd
  <2>2. BodyEnd(img) < U32 => BodyEnd(img) % U32 = BodyEnd(img)
    BY <1>2
  <2>. QED
    BY <1>1, <1>2, <2>1, <2>2
<1>. QED
  BY <1>3, <1>4

\* Reducing a number that passes the modulus once subtracts the modulus.
LEMMA WrapOnce ==
  ASSUME NEW a \in Nat, NEW m \in Nat \ {0}, m <= a, a < m + m
  PROVE  a % m = a - m
<1>1. /\ a = m * (a \div m) + (a % m) /\ a % m \in 0 .. m - 1 /\ a \div m \in Nat
  OBVIOUS
<1>2. a \div m = 1
  <2>. DEFINE q == a \div m
  <2>. HIDE DEF q
  <2>1. q \in Nat /\ m * q <= a /\ a < m * q + m
    BY <1>1 DEF q
  <2>2. q # 0
    BY <2>1
  <2>3. ASSUME q >= 2 PROVE FALSE
    <3>1. m * q >= m * 2
      BY <2>1, <2>3
    <3>. QED
      BY <2>1, <3>1
  <2>. QED
    BY <2>1, <2>2, <2>3 DEF q
<1>. QED
  BY <1>1, <1>2

\* If body_end passes u32, the last body's padding slice starts after it ends.
LEMMA WrappedPad ==
  ASSUME Inv, pc = "bodies", PadEnd(img, i) # RealPadEnd
  PROVE  /\ PadEnd(img, i) \in Nat /\ PadEnd(img, i) < End(img, i)
         /\ PastU32(img)
<1>. DEFINE boff == img.head.body_offset
            bsize == img.head.body_size
<1>0. pc \in FromBodies /\ pc \in FromIndex
  BY DEF FromIndex, FromFirst, FromOrder, FromLast, FromBodies
<1>1. ~ (i + 1 < img.head.count) /\ PadEnd(img, i) = BodyEnd(img) % U32
  BY DEF PadEnd, RealPadEnd
<1>2. boff \in Word /\ bsize \in Word
  <2>1. img.head \in Header
    BY <1>0, KnownGeometry, ImageWords
  <2>. QED
    BY <2>1 DEF Header
<1>3. boff \in Nat /\ boff < U32 /\ bsize \in Nat /\ bsize < U32
  BY <1>2 DEF Word
<1>4. BodyEnd(img) \in Nat /\ U32 <= BodyEnd(img) /\ BodyEnd(img) < U32 + U32
  BY <1>3, PadSlice DEF BodyEnd
<1>5. BodyEnd(img) % U32 = BodyEnd(img) - U32
  BY <1>4, WrapOnce
<1>6. boff <= Off(img, i) /\ Off(img, i) <= End(img, i) /\ Off(img, i) \in Nat
  <2>1. i \in Sections(img) /\ 0 \in Sections(img) /\ Off(img, 0) = boff
    BY <1>0, PadSlice, KnownGeometry, KnownIndex, SMTT(20) DEF GeometryValid
  <2>2. i \in Nat /\ Off(img, i) \in Nat /\ Off(img, 0) \in Nat
    BY <1>0, <2>1, KnownGeometry
  <2>3. i = 0 \/ 0 < i
    BY <2>2
  <2>4. Off(img, 0) <= Off(img, i)
    BY <1>0, <2>1, <2>2, <2>3, KnownIndex DEF Ordered
  <2>. QED
    BY <2>1, <2>2, <2>4, PadSlice
<1>7. BodyEnd(img) - U32 < boff
  BY <1>3 DEF BodyEnd
<1>8. img.len \in Nat /\ BodyEnd(img) = img.len - TRAILER_SIZE /\ TRAILER_SIZE = 40
      /\ End(img, i) \in Nat
  BY <1>0, KnownGeometry, PadSlice
<1>. QED
  BY <1>1, <1>3, <1>4, <1>5, <1>6, <1>7, <1>8 DEF PastU32

\* The padding after the last body ends where it should only below 2^32.
LEMMA LastPadFits ==
  ASSUME Inv, pc = "bodies", PadEnd(img, i) = RealPadEnd, i + 1 = img.head.count
  PROVE  BodyEnd(img) < U32
<1>1. BodyEnd(img) \in Nat /\ i \in Nat /\ img.head.count \in Nat
  <2>1. pc \in FromIndex
    BY DEF FromIndex, FromFirst, FromOrder, FromLast, FromBodies
  <2>. QED
    BY <2>1, KnownGeometry DEF Inv, TypeOK, SlotIds
<1>2. ~ (i + 1 < img.head.count)
  BY <1>1
<1>3. BodyEnd(img) = BodyEnd(img) % U32
  BY <1>2 DEF PadEnd, RealPadEnd
<1>. QED
  BY <1>1, <1>3

\* A non-zero byte in the padding after body i belongs to nothing.
LEMMA GapHasNoOwner ==
  ASSUME Inv, pc = "bodies",
         NEW b \in img.dirty, End(img, i) <= b, b < RealPadEnd
  PROVE  Owners(img, b) = {}
<1>0. pc \in FromBodies /\ pc \in FromIndex
  BY DEF FromIndex, FromFirst, FromOrder, FromLast, FromBodies
<1>1. /\ b \in Nat /\ i \in Sections(img) /\ 0 \in Sections(img)
      /\ Off(img, 0) = img.head.body_offset
      /\ \A k \in Sections(img) : k \in Nat /\ k < img.head.count
      /\ img.head.count \in Nat
      /\ \A k \in Sections(img) :
           Off(img, k) \in Nat /\ End(img, k) \in Nat /\ Off(img, k) <= End(img, k)
  <2>1. /\ img \in Image /\ Sections(img) = 0 .. img.head.count - 1
        /\ Sections(img) \subseteq SlotIds /\ img.head.count \in 1 .. MAX_SECTIONS
    BY <1>0, KnownGeometry
  <2>2. GeometryValid(img) /\ i \in Sections(img)
    BY <1>0, KnownIndex, PadSlice
  <2>3. b \in Nat
    BY <2>1, ImageWords
  <2>4. \A k \in Sections(img) :
          Off(img, k) \in Nat /\ End(img, k) \in Nat /\ Off(img, k) <= End(img, k)
    BY <2>1, ImageWords
  <2>5. Off(img, 0) = img.head.body_offset
    BY <2>2 DEF GeometryValid
  <2>. QED
    BY <2>1, <2>2, <2>3, <2>4, <2>5
<1>2. Ordered(img)
  BY <1>0, KnownIndex
<1>3. ASSUME NEW k \in Sections(img), SlotAt(k) <= b, b < SlotAt(k + 1)
      PROVE  FALSE
  <2>1. Off(img, 0) <= Off(img, i)
    <3>1. i = 0 \/ 0 < i
      BY <1>1
    <3>. QED
      BY <1>1, <1>2, <3>1 DEF Ordered
  <2>2. IndexEnd(img) \in Nat /\ IndexEnd(img) <= Off(img, 0)
    BY <1>0, <1>1, KnownGeometry
  <2>3. SlotAt(k + 1) <= IndexEnd(img) /\ SlotAt(k + 1) \in Nat
    <3>1. k \in Nat /\ k + 1 <= img.head.count
      BY <1>1
    <3>. QED
      BY <1>1, <3>1 DEF IndexEnd, SlotAt, INDEX_OFFSET, INDEX_ENTRY_SIZE
  <2>4. Off(img, 0) \in Nat /\ Off(img, i) \in Nat /\ End(img, i) \in Nat
        /\ Off(img, i) <= End(img, i)
    BY <1>1
  <2>. QED
    BY <1>1, <1>3, <2>1, <2>2, <2>3, <2>4
<1>4. ASSUME NEW k \in Sections(img), Off(img, k) <= b, b < End(img, k)
      PROVE  FALSE
  <2>1. k \in Nat /\ i \in Nat /\ End(img, k) \in Nat /\ End(img, i) \in Nat
        /\ Off(img, k) \in Nat /\ Off(img, i) \in Nat /\ Off(img, i) <= End(img, i)
    BY <1>1
  <2>2. CASE k < i
    <3>1. End(img, k) <= Off(img, i)
      BY <1>1, <1>2, <2>2 DEF Ordered
    <3>. QED
      BY <1>1, <1>4, <2>1, <3>1
  <2>3. CASE k = i
    BY <1>1, <1>4, <2>1, <2>3
  <2>4. CASE i < k
    <3>1. i + 1 < img.head.count /\ RealPadEnd = Off(img, i + 1)
          /\ i + 1 \in Sections(img)
      <4>1. k \in Nat /\ k < img.head.count
        BY <1>1
      <4>2. i + 1 < img.head.count
        <5>1. CASE k = i + 1
          BY <4>1, <5>1
        <5>2. CASE k # i + 1
          BY <1>1, <2>1, <2>4, <4>1, <5>2
        <5>. QED
          BY <5>1, <5>2
      <4>. QED
        BY <1>1, <2>1, <4>2 DEF RealPadEnd, Sections
    <3>2. i + 1 = k \/ i + 1 < k
      BY <2>1, <2>4
    <3>3. Off(img, i + 1) <= Off(img, k)
      BY <1>1, <1>2, <3>1, <3>2 DEF Ordered
    <3>4. Off(img, i + 1) \in Nat
      BY <1>1, <3>1
    <3>. QED
      BY <1>1, <1>4, <2>1, <3>1, <3>3, <3>4
  <2>. QED
    BY <2>1, <2>2, <2>3, <2>4
<1>. QED
  BY <1>3, <1>4 DEF Owners

\* One iteration of the body loop: what it establishes, why each fault is one.
LEMMA BodyStage ==
  ASSUME Inv, pc = "bodies"
  PROVE  /\ BodyFaults(img, i) = {} =>
              /\ BodyValid(img.slot[i])
              /\ Clean(img, End(img, i), RealPadEnd)
              /\ i + 1 = img.head.count => BodyEnd(img) < U32
         /\ \A c \in Earliest(BodyFaults(img, i)) : Justified(img, c)
<1>. DEFINE s == img.slot[i]
            clean == Clean(img, End(img, i), PadEnd(img, i))
            slices == ~ (\/ PadEndOverflows(img, i)
                         \/ End(img, i) > PadEnd(img, i)
                         \/ PadEnd(img, i) > img.len)
<1>0. pc \in FromBodies /\ pc \in FromIndex
  BY DEF FromIndex, FromFirst, FromOrder, FromLast, FromBodies
<1>1. i \in Sections(img) /\ s \in Slot /\ s.crcOk \in BOOLEAN
  <2>1. i \in Sections(img) /\ s \in Slot
    BY <1>0, PadSlice, KnownGeometry
  <2>. QED
    BY <2>1 DEF Slot
<1>2. ASSUME BodyFaults(img, i) = {}
      PROVE  /\ BodyValid(s) /\ Clean(img, End(img, i), RealPadEnd)
             /\ i + 1 = img.head.count => BodyEnd(img) < U32
  <2>1. /\ Fault(3, "E008", ~ s.crcOk) = {}
        /\ Fault(4, "PANIC", ~ slices) = {}
        /\ Fault(5, "E004", ~ clean) = {}
        /\ Fault(6, SectionFault(s), SectionFault(s) # "ok") = {}
    <3>1. Fault(4, "PANIC", \/ PadEndOverflows(img, i)
                            \/ End(img, i) > PadEnd(img, i)
                            \/ PadEnd(img, i) > img.len) = {}
      BY <1>2, Zenon DEF BodyFaults
    <3>2. /\ Fault(3, "E008", ~ s.crcOk) = {}
          /\ Fault(5, "E004", ~ clean) = {}
          /\ Fault(6, SectionFault(s), SectionFault(s) # "ok") = {}
      BY <1>2, Zenon DEF BodyFaults
    <3>. QED
      BY <3>1, <3>2, Zenon DEF Fault
  <2>2. s.crcOk /\ clean /\ SectionFault(s) = "ok" /\ slices
    BY <2>1, Zenon DEF Fault
  <2>3. PadEnd(img, i) = RealPadEnd
    BY <2>2, WrappedPad, PadSlice
  <2>4. i + 1 = img.head.count => BodyEnd(img) < U32
    BY <2>3, LastPadFits
  <2>. QED
    BY <2>2, <2>3, <2>4 DEF BodyValid
<1>3. ASSUME NEW c \in Earliest(BodyFaults(img, i)) PROVE Justified(img, c)
  <2>1. PICK x \in BodyFaults(img, i) :
          x.code = c /\ \A z \in BodyFaults(img, i) : x.rank <= z.rank
    BY EarliestFault
  <2>2. ~ (End(img, i) > img.len - TRAILER_SIZE) /\ ~ (End(img, i) > img.len)
    <3>1. /\ End(img, i) \in Nat /\ End(img, i) <= img.len - TRAILER_SIZE
          /\ End(img, i) <= img.len /\ TRAILER_SIZE = 40 /\ img.len \in Nat
      BY <1>0, PadSlice, KnownGeometry
    <3>. QED
      BY <3>1
  <2>3. \/ c = "E008" /\ ~ s.crcOk
        \/ c = "PANIC" /\ ~ slices
        \/ c = "E004" /\ ~ clean
        \/ c = SectionFault(s) /\ c # "ok"
    BY <2>1, <2>2 DEF BodyFaults, Fault
  <2>4. CASE c = "PANIC" /\ ~ slices
    <3>1. ~ (PadEnd(img, i) = RealPadEnd) \/ PadEndOverflows(img, i)
      BY <2>4, PadSlice, KnownGeometry, <1>0
    <3>2. ASSUME PadEndOverflows(img, i) PROVE PastU32(img)
      <4>1. BodyEnd(img) >= U32 /\ BodyEnd(img) = img.len - TRAILER_SIZE
            /\ TRAILER_SIZE = 40 /\ img.len \in Nat
        BY <1>0, <3>2, KnownGeometry DEF PadEndOverflows
      <4>. QED
        BY <4>1 DEF PastU32
    <3>. QED
      BY <2>4, <3>1, <3>2, WrappedPad DEF Justified
  <2>5. CASE c = "E004" /\ ~ clean
    <3>1. PICK b \in img.dirty : End(img, i) <= b /\ b < PadEnd(img, i)
      BY <2>5 DEF Clean
    <3>2. b \in Nat /\ End(img, i) \in Nat
      BY <1>0, KnownGeometry, PadSlice
    <3>3. PadEnd(img, i) = RealPadEnd
      BY <3>1, <3>2, WrappedPad
    <3>4. ~ Accounted(img)
      BY <3>1, <3>3, GapHasNoOwner DEF Accounted
    <3>. QED
      BY <2>5, <3>4 DEF Justified, Codes, Valid
  <2>6. CASE (c = "E008" /\ ~ s.crcOk) \/ (c = SectionFault(s) /\ c # "ok")
    BY <1>1, <2>6, SectionFaultCode DEF Justified, Codes, Valid, BodyValid
  <2>. QED
    BY <2>3, <2>4, <2>5, <2>6
<1>. QED
  BY <1>2, <1>3

\* ParseBody: every non-zero byte passed so far is accounted for.
LEMMA BodyStep ==
  ASSUME Inv, ParseBody
  PROVE  Inv'
<1>. DEFINE n == img.head.count
<1>0. /\ pc = "bodies" /\ pc \in FromIndex
      /\ Beyond(FromIndex) /\ Beyond(FromOrder) /\ Beyond(FromBodies)
  BY DEF ParseBody, FromIndex, FromFirst, FromOrder, FromLast, FromBodies, Beyond
<1>1. CASE Fail(BodyFaults(img, i))
  BY <1>0, <1>1, BodyStage, FailKeepsInv
<1>2. CASE Step(BodyFaults(img, i), n, "mandatory") /\ UNCHANGED seen
  <2>1. /\ i \in Nat /\ i < n /\ n \in 1 .. MAX_SECTIONS /\ res = "none"
        /\ i \in Sections(img)
    BY <1>0, KnownGeometry DEF Inv, TypeOK, LoopIndex, SlotIds
  <2>2. img' = img /\ res' = "none" /\ seen' = seen
    BY <1>2, <2>1 DEF Step
  <2>3. \/ i + 1 < n /\ pc' = "bodies" /\ i' = i + 1
        \/ i + 1 = n /\ pc' = "mandatory" /\ i' = 0
    BY <1>0, <1>2, <2>1 DEF Step
  <2>4. /\ BodyValid(img.slot[i]) /\ Clean(img, End(img, i), RealPadEnd)
        /\ i + 1 = n => BodyEnd(img) < U32
    BY <1>0, <1>2, BodyStage DEF Step
  <2>5. /\ BodiesSeen = i /\ BodiesSeen' = i + 1
        /\ BytesSeen = Off(img, i) /\ BytesSeen' = RealPadEnd
    BY <1>0, <2>1, <2>2, <2>3 DEF BodiesSeen, BytesSeen, Running, RealPadEnd, Off, BodyEnd
  <2>6. BodiesKnown'
    <3>1. ASSUME NEW k \in Sections(img), k < i + 1
          PROVE  BodyValid(img.slot[k])
      <4>1. k < i \/ k = i
        BY <1>0, <2>1, <3>1, KnownGeometry
      <4>. QED
        BY <1>0, <2>4, <2>5, <4>1 DEF Inv, BodiesKnown
    <3>2. ASSUME NEW b \in img.dirty, b < RealPadEnd
          PROVE  Owners(img, b) # {}
      <4>1. /\ b \in Nat /\ Off(img, i) \in Nat /\ End(img, i) \in Nat
            /\ RealPadEnd \in Nat
        BY <1>0, <2>1, KnownGeometry, PadSlice
      <4>2. CASE b < Off(img, i)
        BY <1>0, <2>5, <4>2 DEF Inv, BodiesKnown
      <4>3. CASE Off(img, i) <= b /\ b < End(img, i)
        BY <2>1, <4>3 DEF Owners
      <4>4. CASE End(img, i) <= b
        BY <2>4, <3>2, <4>4 DEF Clean
      <4>. QED
        BY <4>1, <4>2, <4>3, <4>4
    <3>3. pc' # "bodies" => BodyEnd(img) < U32
      BY <2>3, <2>4
    <3>. QED
      BY <2>2, <2>5, <3>1, <3>2, <3>3 DEF BodiesKnown, Sections, Owners, Off, End, BodyEnd
  <2>7. TypeOK' /\ LoopIndex' /\ NothingSeenYet'
    BY <2>1, <2>2, <2>3 DEF Inv, TypeOK, LoopIndex, NothingSeenYet, Stages, SlotIds
  <2>8. HeaderKnown' /\ GeometryKnown'
    BY <1>0, <2>2, KnownGeometry DEF HeaderKnown, GeometryKnown
  <2>9. EntriesKnown'
    BY <1>0, <2>2, <2>3 DEF Inv, EntriesKnown, EntriesSeen, Running
  <2>10. FirstKnown' /\ OrderKnown' /\ LastKnown'
    BY <1>0, <2>2, <2>3 DEF Inv, FirstKnown, OrderKnown, LastKnown, OrderSeen, Running
  <2>. QED
    BY <2>2, <2>3, <2>6, <2>7, <2>8, <2>9, <2>10 DEF Inv, Beyond,
       MandatoryKnown, TrailerKnown, FaultIsReal, PanicOnlyPastU32, Codes,
       FromTrailer
<1>. QED
  BY <1>1, <1>2 DEF ParseBody

\* CheckMandatory.
LEMMA MandatoryStep ==
  ASSUME Inv, CheckMandatory
  PROVE  Inv'
<1>0. /\ pc = "mandatory" /\ pc \in FromIndex
      /\ Beyond(FromIndex) /\ Beyond(FromOrder) /\ Beyond(FromBodies)
  BY DEF CheckMandatory, FromIndex, FromFirst, FromOrder, FromLast, FromBodies,
     FromMandatory, Beyond
<1>. DEFINE missing == \E t \in Mandatory : \A k \in Sections(img) : img.slot[k].type # t
<1>1. CASE Fail(MandatoryFaults(img))
  <2>1. ASSUME NEW c \in Earliest(MandatoryFaults(img)) PROVE Justified(img, c)
    <3>1. c = "E016" /\ missing
      BY EarliestFault DEF MandatoryFaults, Fault
    <3>. QED
      BY <3>1 DEF Justified, Codes, Valid
  <2>. QED
    BY <1>1, <2>1, FailKeepsInv
<1>2. CASE Pass(MandatoryFaults(img), "trailer")
  <2>1. /\ img' = img /\ i' = 0 /\ seen' = seen /\ res' = "none" /\ pc' = "trailer"
        /\ res = "none" /\ img.head.count \in 1 .. MAX_SECTIONS
    BY <1>0, <1>2, KnownGeometry DEF Pass
  <2>2. MandatoryKnown'
    <3>1. Fault(1, "E016", missing) = {}
      BY <1>2, Zenon DEF Pass, MandatoryFaults
    <3>2. ~ missing
      BY <3>1, Zenon DEF Fault
    <3>. QED
      BY <2>1, <3>2 DEF MandatoryKnown, Sections
  <2>3. TypeOK' /\ LoopIndex' /\ NothingSeenYet'
    BY <2>1 DEF Inv, TypeOK, LoopIndex, NothingSeenYet, Stages, SlotIds
  <2>4. HeaderKnown' /\ GeometryKnown'
    BY <1>0, <2>1, KnownGeometry DEF HeaderKnown, GeometryKnown
  <2>5. EntriesKnown'
    BY <1>0, <2>1 DEF Inv, EntriesKnown, EntriesSeen, Running
  <2>6. FirstKnown' /\ OrderKnown' /\ LastKnown'
    BY <1>0, <2>1 DEF Inv, FirstKnown, OrderKnown, LastKnown, OrderSeen, Running
  <2>7. BodiesKnown'
    BY <1>0, <2>1 DEF Inv, BodiesKnown, BodiesSeen, BytesSeen, Running
  <2>. QED
    BY <2>1, <2>2, <2>3, <2>4, <2>5, <2>6, <2>7 DEF Inv, TrailerKnown,
       FaultIsReal, PanicOnlyPastU32, Codes
<1>. QED
  BY <1>1, <1>2 DEF CheckMandatory

\* CheckTrailer.
LEMMA TrailerStep ==
  ASSUME Inv, CheckTrailer
  PROVE  Inv'
<1>0. /\ pc = "trailer" /\ pc \in FromIndex /\ res = "none"
      /\ Beyond(FromIndex) /\ Beyond(FromOrder) /\ Beyond(FromBodies)
      /\ Beyond(FromTrailer) /\ Beyond(FromGeometry)
  BY DEF CheckTrailer, FromGeometry, FromIndex, FromFirst, FromOrder, FromLast,
     FromBodies, FromMandatory, FromTrailer, Beyond, Inv, TypeOK
<1>. DEFINE t == img.trailer
<1>1. CASE Fail(TrailerFaults(img))
  <2>1. ASSUME NEW c \in Earliest(TrailerFaults(img)) PROVE Justified(img, c)
    <3>1. /\ c \in Codes
          /\ ~ t.magic \/ t.reserved # 0 \/ ~ t.hashOk
      BY EarliestFault DEF TrailerFaults, Fault, Codes
    <3>. QED
      BY <3>1 DEF Justified, Valid, TrailerValid
  <2>. QED
    BY <1>1, <2>1, FailKeepsInv
<1>2. CASE /\ TrailerFaults(img) = {}
           /\ res' = "ok" /\ pc' = "done"
           /\ UNCHANGED <<img, i, seen>>
  <2>1. TrailerKnown'
    <3>1. /\ Fault(1, "E001", ~ t.magic) = {}
          /\ Fault(2, "E003", t.reserved # 0) = {}
          /\ Fault(3, "E009", ~ t.hashOk) = {}
      BY <1>2, Zenon DEF TrailerFaults
    <3>2. t.magic /\ t.reserved = 0 /\ t.hashOk
      BY <3>1, Zenon DEF Fault
    <3>. QED
      BY <1>2, <3>2 DEF TrailerKnown, TrailerValid
  <2>2. TypeOK' /\ LoopIndex' /\ NothingSeenYet'
    BY <1>2 DEF Inv, TypeOK, LoopIndex, NothingSeenYet, Stages
  <2>3. HeaderKnown' /\ GeometryKnown'
    BY <1>0, <1>2 DEF Inv, HeaderKnown, GeometryKnown
  <2>4. EntriesKnown'
    BY <1>0, <1>2 DEF Inv, EntriesKnown, EntriesSeen, Running
  <2>5. FirstKnown' /\ OrderKnown' /\ LastKnown'
    BY <1>0, <1>2 DEF Inv, FirstKnown, OrderKnown, LastKnown, OrderSeen, Running
  <2>6. BodiesKnown' /\ MandatoryKnown'
    BY <1>0, <1>2 DEF Inv, BodiesKnown, BodiesSeen, BytesSeen, Running, MandatoryKnown
  <2>. QED
    BY <1>2, <2>1, <2>2, <2>3, <2>4, <2>5, <2>6
       DEF Inv, FaultIsReal, PanicOnlyPastU32, Codes
<1>. QED
  BY <1>1, <1>2 DEF CheckTrailer
----------------------------------------------------------------------------
(* Theorems.                                                               *)

\* The invariant holds before the first check.
LEMMA InitInv == Init => Inv
BY DEF Init, Inv, TypeOK, Stages, SlotIds, LoopIndex, NothingSeenYet, Beyond,
   HeaderKnown, GeometryKnown, EntriesKnown, FirstKnown, OrderKnown, LastKnown,
   BodiesKnown, MandatoryKnown, TrailerKnown, FaultIsReal, PanicOnlyPastU32, Codes,
   FromGeometry, FromIndex, FromFirst, FromOrder, FromLast, FromBodies,
   FromMandatory, FromTrailer

\* Every step keeps it.
LEMMA NextInv == Inv /\ [Next]_vars => Inv'
<1>1. ASSUME Inv, UNCHANGED vars PROVE Inv'
  BY <1>1 DEF vars, Inv, TypeOK, LoopIndex, NothingSeenYet, Beyond,
     HeaderKnown, GeometryKnown, EntriesKnown, FirstKnown, OrderKnown, LastKnown,
     BodiesKnown, MandatoryKnown, TrailerKnown, FaultIsReal, PanicOnlyPastU32,
     EntriesSeen, OrderSeen, BodiesSeen, BytesSeen, Running
<1>. QED
  BY <1>1, LengthStep, HeaderStep, GeometryStep, EntryStep, FirstStep, OrderStep,
     LastStep, BodyStep, MandatoryStep, TrailerStep DEF Next

\* At every point of a parse, the stages left behind have established what the
\* later ones rely on.
THEOREM ParserInvariant == Spec => []Inv
BY InitInv, NextInv, PTL DEF Spec

\* Types: see TypeOK.
THEOREM TypeCorrect == Spec => []TypeOK
<1>1. Inv => TypeOK
  BY DEF Inv
<1>. QED
  BY <1>1, ParserInvariant, PTL

\* ZacFile::parse panics only on a file of 4 GiB or more: no slice bound and no
\* addition can fail in a file that fits the format's words.
THEOREM NoPanic == Spec => []PanicOnlyPastU32
<1>1. Inv => PanicOnlyPastU32
  BY DEF Inv
<1>. QED
  BY <1>1, ParserInvariant, PTL

\* What the parser accepts is valid.
LEMMA AcceptedIsValid ==
  ASSUME Inv, res = "ok"
  PROVE  Valid(img)
<1>. DEFINE n == img.head.count
<1>1. /\ img \in Image /\ Coherent(img) /\ pc = "done"
      /\ \A stages : Beyond(stages)
  BY ImagesAssumption DEF Inv, TypeOK, Beyond
<1>2. HeaderValid(img.head)
  BY <1>1 DEF Inv, HeaderKnown
<1>3. /\ n \in 1 .. MAX_SECTIONS /\ Sections(img) = 0 .. n - 1
      /\ Sections(img) \subseteq Nat
  BY <1>1, <1>2, SectionsAreSlots DEF Sections
<1>4. EntriesSeen = n /\ OrderSeen = n - 1 /\ BodiesSeen = n /\ BytesSeen = BodyEnd(img)
  BY <1>1 DEF EntriesSeen, OrderSeen, BodiesSeen, BytesSeen, Running
<1>5. GeometryValid(img)
  BY <1>1 DEF Inv, GeometryKnown, FirstKnown, LastKnown, GeometryValid
<1>6. \A k \in Sections(img) : k \in Nat /\ k < n /\ k <= n - 1
  BY <1>3
<1>7. \A k \in Sections(img) : EntryValid(img.slot[k]) /\ BodyValid(img.slot[k])
  BY <1>1, <1>4, <1>6 DEF Inv, EntriesKnown, BodiesKnown
<1>8. Distinct(img)
  <2>1. SUFFICES ASSUME NEW j \in Sections(img), NEW k \in Sections(img), j # k
                 PROVE  img.slot[j].type # img.slot[k].type
    BY DEF Distinct
  <2>2. (j < k \/ k < j) /\ j < n /\ k < n
    BY <1>6, <2>1
  <2>. QED
    BY <1>1, <1>4, <2>1, <2>2 DEF Inv, EntriesKnown
<1>9. Ordered(img)
  BY <1>1, <1>4, <1>6 DEF Inv, OrderKnown, Ordered
<1>10. Accounted(img)
  <2>1. \A b \in img.dirty : b < BodyEnd(img)
    BY <1>1, <1>5 DEF Coherent, GeometryValid
  <2>. QED
    BY <1>1, <1>4, <2>1 DEF Inv, BodiesKnown, Accounted
<1>11. \A t \in Mandatory : \E k \in Sections(img) : img.slot[k].type = t
  BY <1>1 DEF Inv, MandatoryKnown
<1>12. TrailerValid(img)
  BY DEF Inv, TrailerKnown
<1>. QED
  BY <1>2, <1>5, <1>7, <1>8, <1>9, <1>10, <1>11, <1>12 DEF Valid

\* In a valid file no byte belongs to two parts.
LEMMA AtMostOneOwner ==
  ASSUME NEW f \in Image, Valid(f), NEW b \in Nat,
         NEW o \in Owners(f, b), NEW p \in Owners(f, b)
  PROVE  o = p
<1>1. HeaderValid(f.head) /\ GeometryValid(f) /\ Ordered(f)
  BY DEF Valid
<1>2. /\ Sections(f) = 0 .. f.head.count - 1 /\ 0 \in Sections(f)
      /\ f.head.count \in 1 .. MAX_SECTIONS
      /\ Sections(f) \subseteq SlotIds /\ Sections(f) \subseteq Nat
      /\ \A k \in Sections(f) :
           Off(f, k) \in Nat /\ End(f, k) \in Nat /\ Off(f, k) <= End(f, k)
  BY <1>1, ImageWords, SectionsAreSlots DEF Sections
<1>. DEFINE Index == {k \in Sections(f) : SlotAt(k) <= b /\ b < SlotAt(k + 1)}
            Body  == {k \in Sections(f) : Off(f, k) <= b /\ b < End(f, k)}
<1>3. ASSUME NEW j \in Index, NEW k \in Index PROVE j = k
  <2>1. /\ j \in Nat /\ k \in Nat
        /\ 32 + j * 16 <= b /\ b < 32 + (j + 1) * 16
        /\ 32 + k * 16 <= b /\ b < 32 + (k + 1) * 16
    BY <1>2 DEF SlotAt, INDEX_OFFSET, INDEX_ENTRY_SIZE
  <2>. QED
    BY <2>1
<1>4. ASSUME NEW j \in Body, NEW k \in Body PROVE j = k
  <2>1. /\ j \in Nat /\ k \in Nat /\ End(f, j) \in Nat /\ End(f, k) \in Nat
        /\ Off(f, j) \in Nat /\ Off(f, k) \in Nat
    BY <1>2
  <2>2. ~ (j < k)
    BY <1>1, <2>1 DEF Ordered
  <2>3. ~ (k < j)
    BY <1>1, <2>1 DEF Ordered
  <2>. QED
    BY <2>1, <2>2, <2>3
<1>5. ASSUME NEW j \in Index, NEW k \in Body PROVE FALSE
  <2>1. SlotAt(j + 1) <= IndexEnd(f) /\ SlotAt(j + 1) \in Nat /\ IndexEnd(f) \in Nat
    <3>1. j \in Nat /\ f.head.count \in Nat /\ j + 1 <= f.head.count
      BY <1>2
    <3>. QED
      BY <3>1 DEF IndexEnd, SlotAt, INDEX_OFFSET, INDEX_ENTRY_SIZE
  <2>2. IndexEnd(f) <= Off(f, 0)
    BY <1>1 DEF GeometryValid
  <2>3. Off(f, 0) <= Off(f, k)
    <3>1. k = 0 \/ 0 < k
      BY <1>2
    <3>. QED
      BY <1>1, <1>2, <3>1 DEF Ordered
  <2>4. Off(f, 0) \in Nat /\ Off(f, k) \in Nat
    BY <1>2
  <2>. QED
    BY <2>1, <2>2, <2>3, <2>4
<1>6. Owners(f, b) = Index \cup {MAX_SECTIONS + k : k \in Body}
  BY DEF Owners
<1>. HIDE DEF Index, Body
<1>7. CASE o \in Index /\ p \in Index
  BY <1>3, <1>7
<1>8. CASE /\ o \in {MAX_SECTIONS + k : k \in Body}
           /\ p \in {MAX_SECTIONS + k : k \in Body}
  <2>1. PICK j \in Body : o = MAX_SECTIONS + j
    BY <1>8
  <2>2. PICK k \in Body : p = MAX_SECTIONS + k
    BY <1>8
  <2>. QED
    BY <1>4, <2>1, <2>2
<1>9. CASE Index # {} /\ Body # {}
  BY <1>5, <1>9
<1>. QED
  BY <1>6, <1>7, <1>8, <1>9

\* No byte of an accepted file is unaccounted for or claimed twice: nothing can
\* hide in the padding, behind the last section or under an overlap.
THEOREM EveryByteHasOneOwner == Spec => []OneOwner
<1>1. ASSUME Inv PROVE OneOwner
  <2>1. SUFFICES ASSUME res = "ok", NEW b \in img.dirty
                 PROVE  \E o \in Owners(img, b) : Owners(img, b) = {o}
    BY DEF OneOwner
  <2>2. img \in Image /\ Valid(img) /\ b \in Nat
    BY <1>1, <2>1, AcceptedIsValid, ImagesAssumption, ImageWords DEF Inv, TypeOK
  <2>3. PICK o : o \in Owners(img, b)
    BY <2>1, <2>2 DEF Valid, Accounted
  <2>. QED
    BY <2>2, <2>3, AtMostOneOwner
<1>. QED
  BY <1>1, ParserInvariant, PTL

\* A parse ends once, and never changes the file.
LEMMA OneResult ==
  ASSUME Inv, [Next]_vars
  PROVE  img' = img /\ (res' = res \/ res = "none")
<1>1. CASE UNCHANGED vars
  BY <1>1 DEF vars
<1>2. CASE Next
  <2>1. pc # "done"
    BY <1>2 DEF Next, CheckLength, ParseHeader, CheckGeometry, ParseEntry,
       CheckFirst, CheckOrder, CheckLast, ParseBody, CheckMandatory, CheckTrailer
  <2>2. img' = img
    BY <1>2 DEF Next, CheckLength, ParseHeader, CheckGeometry, ParseEntry,
       CheckFirst, CheckOrder, CheckLast, ParseBody, CheckMandatory, CheckTrailer,
       Fail, Pass, Step
  <2>. QED
    BY <2>1, <2>2 DEF Inv, TypeOK
<1>. QED
  BY <1>1, <1>2

\* The parser implements its promise: it accepts a file if and only if the file
\* is valid, and panics only past 4 GiB.
THEOREM ParserKeepsItsPromise == Spec => Implements
<1>1. Init => Promise!Init
  BY DEF Init, Promise!Init, verdict
<1>. DEFINE Sound == res = "ok" => Valid(img)
<1>2. Inv => Sound
  BY AcceptedIsValid
<1>3. ASSUME Inv, Inv', Sound', [Next]_vars
      PROVE  [Promise!Next]_<<img, verdict>>
  <2>1. img' = img /\ (res' = res \/ res = "none")
    BY <1>3, OneResult
  <2>2. CASE res' = res
    BY <2>1, <2>2 DEF verdict
  <2>3. CASE res = "none" /\ res' # "none"
    <3>1. verdict = "pending"
      BY <2>3 DEF verdict
    <3>2. CASE res' = "ok"
      <4>1. Valid(img)' /\ verdict' = "accepted"
        BY <1>3, <3>2 DEF verdict
      <4>2. Valid(img)
        BY <2>1, <4>1
      <4>. QED
        BY <2>1, <3>1, <4>1, <4>2 DEF Promise!Next, Promise!Accept
    <3>3. CASE res' \in Codes
      <4>1. ~ Valid(img)' /\ verdict' = "rejected"
        BY <1>3, <3>3 DEF Inv, FaultIsReal, verdict, Codes
      <4>2. ~ Valid(img)
        BY <2>1, <4>1
      <4>. QED
        BY <2>1, <3>1, <4>1, <4>2 DEF Promise!Next, Promise!Reject
    <3>4. CASE res' = "PANIC"
      <4>1. PastU32(img)' /\ verdict' = "panicked"
        BY <1>3, <3>4 DEF Inv, PanicOnlyPastU32, verdict
      <4>. QED
        BY <2>1, <3>1, <4>1 DEF Promise!Next, Promise!Panic
    <3>. QED
      BY <1>3, <2>3, <3>2, <3>3, <3>4 DEF Inv, TypeOK
  <2>. QED
    BY <2>1, <2>2, <2>3
<1>. QED
  BY <1>1, <1>2, <1>3, ParserInvariant, PTL DEF Spec, Implements, Promise!Spec
\* ZacFile::parse accepts a file exactly if it is valid and its body ends within
\* the 32-bit words, in the build that checks sums and in the one that wraps.
THEOREM ParserAcceptsExactly == Spec => []AcceptsExactly
<1>1. ASSUME Inv, pc = "done", res = "ok" PROVE Parseable(img)
  <2>1. BodyEnd(img) < U32
    BY <1>1 DEF Inv, BodiesKnown, Beyond
  <2>. QED
    BY <1>1, <2>1, AcceptedIsValid DEF Parseable
<1>2. ASSUME Inv, pc = "done", Parseable(img) PROVE res = "ok"
  <2>1. res \in {"ok", "PANIC"} \cup Codes /\ Valid(img) /\ BodyEnd(img) < U32
    BY <1>2 DEF Inv, TypeOK, Parseable
  <2>2. res \notin Codes
    BY <1>2, <2>1 DEF Inv, FaultIsReal
  <2>3. ASSUME res = "PANIC" PROVE FALSE
    <3>1. PastU32(img)
      BY <1>2, <2>3 DEF Inv, PanicOnlyPastU32
    <3>2. BodyEnd(img) = img.len - TRAILER_SIZE /\ TRAILER_SIZE = 40
      BY <2>1 DEF Valid, GeometryValid, TrailerAt, TRAILER_SIZE
    <3>3. img.len \in Nat
      BY <1>2, ImagesAssumption, ImageWords DEF Inv, TypeOK
    <3>. QED
      BY <2>1, <3>1, <3>2, <3>3 DEF PastU32
  <2>. QED
    BY <2>1, <2>2, <2>3
<1>3. Inv => AcceptsExactly
  BY <1>1, <1>2 DEF AcceptsExactly
<1>. QED
  BY <1>3, ParserInvariant, PTL
----------------------------------------------------------------------------
(* What the hash leaves out of the header.                                 *)

LEMMA HashedAlikeSymmetric ==
  ASSUME NEW f, NEW g, HashedAlike(f, g)
  PROVE  HashedAlike(g, f)
<1>1. TrailerAt(f) = TrailerAt(g)
  BY DEF HashedAlike, TrailerAt
<1>. QED
  BY <1>1 DEF HashedAlike

\* The first slot is hashed, and it says where the bodies start.
LEMMA SameBodyOffset ==
  ASSUME NEW f \in Image, NEW g \in Image, Valid(f), Valid(g), HashedAlike(f, g)
  PROVE  f.head.body_offset = g.head.body_offset
<1>1. HeaderValid(f.head) /\ GeometryValid(f) /\ GeometryValid(g)
  BY DEF Valid
<1>2. 0 \in SlotIds /\ f.head.count \in Nat /\ f.head.count >= 1
  BY <1>1, SectionsAreSlots
<1>3. SlotAt(0 + 1) <= IndexEnd(f)
  BY <1>2 DEF SlotAt, IndexEnd, INDEX_OFFSET, INDEX_ENTRY_SIZE
<1>4. IndexEnd(f) <= TrailerAt(f)
  BY <1>1, ImageWords DEF GeometryValid, BodyEnd
<1>5. SlotAt(0 + 1) <= TrailerAt(f)
  BY <1>3, <1>4, <1>2, ImageWords DEF SlotAt, INDEX_OFFSET, INDEX_ENTRY_SIZE
<1>6. f.slot[0] = g.slot[0]
  BY <1>2, <1>5 DEF HashedAlike
<1>. QED
  BY <1>1, <1>6 DEF GeometryValid, Off

\* A slot more would be a non-zero byte between index and bodies.
LEMMA NoMoreSlots ==
  ASSUME NEW f \in Image, NEW g \in Image, Coherent(g),
         Valid(f), Valid(g), HashedAlike(f, g)
  PROVE  g.head.count <= f.head.count
<1>. DEFINE k == f.head.count
<1>1. SUFFICES ASSUME k < g.head.count PROVE FALSE
  BY ImageWords
<1>2. /\ HeaderValid(f.head) /\ HeaderValid(g.head) /\ GeometryValid(f) /\ GeometryValid(g)
      /\ Ordered(f) /\ Accounted(f)
      /\ \A j \in Sections(g) : EntryValid(g.slot[j])
  BY DEF Valid
<1>3. k \in Nat /\ g.head.count \in Nat /\ k \in Sections(g) /\ k \in SlotIds
  BY <1>1, <1>2, SectionsAreSlots, ImageWords DEF Sections
<1>4. SlotAt(k + 1) <= f.head.body_offset
  <2>1. SlotAt(k + 1) <= IndexEnd(g)
    BY <1>1, <1>3 DEF SlotAt, IndexEnd, INDEX_OFFSET, INDEX_ENTRY_SIZE
  <2>2. IndexEnd(g) <= g.head.body_offset
    BY <1>2 DEF GeometryValid
  <2>3. SlotAt(k + 1) \in Nat
    BY <1>3 DEF SlotAt, INDEX_OFFSET, INDEX_ENTRY_SIZE
  <2>. QED
    BY <2>1, <2>2, <2>3, SameBodyOffset, ImageWords
<1>5. SlotAt(k) < SlotAt(k + 1) /\ SlotAt(k) \in Nat /\ SlotAt(k + 1) \in Nat
  BY <1>3 DEF SlotAt, INDEX_OFFSET, INDEX_ENTRY_SIZE
<1>6. SlotAt(k) \in f.dirty
  <2>1. g.slot[k].type # 0
    BY <1>2, <1>3 DEF EntryValid, Forbidden
  <2>2. SlotAt(k + 1) <= TrailerAt(g)
    BY <1>4, <1>5, <1>2, SameBodyOffset, ImageWords DEF GeometryValid, BodyEnd
  <2>3. SlotAt(k) \in g.dirty
    BY <2>1, <2>2, <1>3 DEF Coherent
  <2>. QED
    BY <2>3 DEF HashedAlike
<1>7. PICK o \in Owners(f, SlotAt(k)) : TRUE
  BY <1>2, <1>6 DEF Accounted
<1>8. CASE \E j \in Sections(f) : SlotAt(j) <= SlotAt(k) /\ SlotAt(k) < SlotAt(j + 1)
  BY <1>8, <1>3 DEF Sections, SlotAt, INDEX_OFFSET, INDEX_ENTRY_SIZE
<1>9. CASE \E j \in Sections(f) : Off(f, j) <= SlotAt(k)
  <2>1. PICK j \in Sections(f) : Off(f, j) <= SlotAt(k)
    BY <1>9
  <2>2. j \in SlotIds /\ j \in Nat /\ 0 \in Sections(f) /\ 0 \in SlotIds
    BY <1>2, SectionsAreSlots
  <2>3. Off(f, 0) <= Off(f, j)
    BY <2>2, <1>2, ImageWords DEF Ordered
  <2>4. Off(f, 0) = f.head.body_offset
    BY <1>2 DEF GeometryValid
  <2>. QED
    BY <2>1, <2>2, <2>3, <2>4, <1>4, <1>5, ImageWords
<1>. QED
  BY <1>7, <1>8, <1>9 DEF Owners

\* Two valid files with the same hashed bytes have the same header and the same
\* trailer, although the hash covers four bytes of the one and none of the other.
LEMMA HashedAlikeValid ==
  ASSUME NEW f \in Image, NEW g \in Image, Coherent(f), Coherent(g),
         Valid(f), Valid(g), HashedAlike(f, g)
  PROVE  g.head = f.head /\ g.trailer = f.trailer
<1>1. /\ HeaderValid(f.head) /\ HeaderValid(g.head) /\ GeometryValid(f) /\ GeometryValid(g)
      /\ TrailerValid(f) /\ TrailerValid(g)
  BY DEF Valid
<1>2. f.head.count = g.head.count
  <2>1. HashedAlike(g, f)
    BY HashedAlikeSymmetric
  <2>2. g.head.count <= f.head.count
    BY NoMoreSlots
  <2>3. f.head.count <= g.head.count
    BY <2>1, NoMoreSlots
  <2>. QED
    BY <2>2, <2>3, ImageWords
<1>3. f.head.body_offset = g.head.body_offset
  BY SameBodyOffset
<1>4. f.head.body_size = g.head.body_size
  <2>1. BodyEnd(f) = BodyEnd(g)
    BY <1>1 DEF GeometryValid, HashedAlike, TrailerAt
  <2>. QED
    BY <2>1, <1>3, ImageWords DEF BodyEnd
<1>5. f.head \in Header /\ g.head \in Header /\ f.trailer \in Trailer /\ g.trailer \in Trailer
  BY ImageWords
<1>6. /\ f.head.magic = TRUE /\ g.head.magic = TRUE
      /\ f.trailer.magic = TRUE /\ g.trailer.magic = TRUE
      /\ f.trailer.hashOk = TRUE /\ g.trailer.hashOk = TRUE
  <2>1. /\ f.head.magic \in BOOLEAN /\ g.head.magic \in BOOLEAN
        /\ f.trailer.magic \in BOOLEAN /\ g.trailer.magic \in BOOLEAN
        /\ f.trailer.hashOk \in BOOLEAN /\ g.trailer.hashOk \in BOOLEAN
    BY <1>5, Zenon DEF Header, Trailer
  <2>. QED
    BY <2>1, <1>1, Zenon DEF HeaderValid, TrailerValid
<1>7. g.head = f.head
  BY <1>1, <1>2, <1>3, <1>4, <1>5, <1>6 DEF HeaderValid, Header
<1>8. g.trailer = f.trailer
  BY <1>1, <1>5, <1>6 DEF TrailerValid, Trailer
<1>. QED
  BY <1>7, <1>8

\* No two accepted files have the same hashed bytes and different headers.
THEOREM HashPins == Spec => []HashPinsTheFile
<1>1. Inv => HashPinsTheFile
  BY AcceptedIsValid, HashedAlikeValid, ImagesAssumption DEF Inv, TypeOK, HashPinsTheFile
<1>. QED
  BY <1>1, ParserInvariant, PTL
----------------------------------------------------------------------------
(* The codes of the last two stages.                                       *)

\* What is established once every body was read.
LEMMA SoundBody ==
  ASSUME Inv, pc \in FromMandatory
  PROVE  /\ HeaderValid(img.head) /\ GeometryValid(img)
         /\ Ordered(img) /\ Distinct(img) /\ Accounted(img)
         /\ \A k \in Sections(img) : EntryValid(img.slot[k]) /\ BodyValid(img.slot[k])
<1>1. /\ pc \in FromBodies /\ pc \in FromIndex /\ pc # "bodies" /\ Beyond(FromBodies)
  BY DEF FromIndex, FromFirst, FromOrder, FromLast, FromBodies, FromMandatory,
         FromTrailer, Beyond
<1>2. /\ HeaderValid(img.head) /\ Coherent(img)
      /\ \A k \in Sections(img) : k \in Nat /\ k < img.head.count
  BY <1>1, KnownGeometry
<1>3. BodiesSeen = img.head.count /\ BytesSeen = BodyEnd(img)
  BY <1>1 DEF BodiesSeen, BytesSeen, Running
<1>4. /\ GeometryValid(img) /\ Ordered(img) /\ Distinct(img)
      /\ \A k \in Sections(img) : EntryValid(img.slot[k])
  BY <1>1, KnownIndex
<1>5. \A k \in Sections(img) : BodyValid(img.slot[k])
  BY <1>1, <1>2, <1>3 DEF Inv, BodiesKnown
<1>6. Accounted(img)
  <2>1. \A b \in img.dirty : b < BodyEnd(img)
    BY <1>2, <1>4 DEF Coherent, GeometryValid
  <2>. QED
    BY <1>1, <1>3, <2>1 DEF Inv, BodiesKnown, Accounted
<1>. QED
  BY <1>2, <1>4, <1>5, <1>6

\* Two codes are the last stages' own.
LateCodes == {"E009", "E016"}

LEMMA EarlyCodes ==
  ASSUME img \in Image, i \in SlotIds
  PROVE  \A S \in {LengthFaults(img), HeaderFaults(img.head), GeometryFaults(img),
                   EntryFaults(img, i), FirstFaults(img), OrderFaults(img, i),
                   LastFaults(img), BodyFaults(img, i)} :
           \A c \in Earliest(S) : c \notin LateCodes
<1>1. SectionFault(img.slot[i]) \notin LateCodes
  <2>1. img.slot[i].body \in BodyVerdict
    <3>1. img.slot[i] \in Slot
      BY ImageWords
    <3>. QED
      BY <3>1 DEF Slot
  <2>. QED
    BY <2>1 DEF SectionFault, BodyVerdict, LateCodes
<1>2. ASSUME NEW c \in Earliest(LengthFaults(img)) PROVE c \notin LateCodes
  BY EarliestFault DEF LengthFaults, Fault, LateCodes
<1>3. ASSUME NEW c \in Earliest(HeaderFaults(img.head)) PROVE c \notin LateCodes
  BY EarliestFault DEF HeaderFaults, Fault, LateCodes
<1>4. ASSUME NEW c \in Earliest(GeometryFaults(img)) PROVE c \notin LateCodes
  BY EarliestFault DEF GeometryFaults, Fault, LateCodes
<1>5. ASSUME NEW c \in Earliest(EntryFaults(img, i)) PROVE c \notin LateCodes
  BY EarliestFault DEF EntryFaults, Fault, LateCodes
<1>6. ASSUME NEW c \in Earliest(FirstFaults(img)) PROVE c \notin LateCodes
  BY EarliestFault DEF FirstFaults, Fault, LateCodes
<1>7. ASSUME NEW c \in Earliest(OrderFaults(img, i)) PROVE c \notin LateCodes
  BY EarliestFault DEF OrderFaults, Fault, LateCodes
<1>8. ASSUME NEW c \in Earliest(LastFaults(img)) PROVE c \notin LateCodes
  BY EarliestFault DEF LastFaults, Fault, LateCodes
<1>9. ASSUME NEW c \in Earliest(BodyFaults(img, i)) PROVE c \notin LateCodes
  BY <1>1, EarliestFault DEF BodyFaults, Fault, LateCodes
<1>. QED
  BY <1>2, <1>3, <1>4, <1>5, <1>6, <1>7, <1>8, <1>9

\* A step up to the bodies gives neither of the two.
LEMMA EarlyStep ==
  ASSUME Inv, \/ CheckLength \/ ParseHeader \/ CheckGeometry \/ ParseEntry
              \/ CheckFirst \/ CheckOrder \/ CheckLast \/ ParseBody
  PROVE  res' \notin LateCodes
<1>1. /\ img \in Image /\ i \in SlotIds
      /\ pc # "done" => res = "none"
  BY ImagesAssumption DEF Inv, TypeOK
<1>2. pc # "done"
  BY DEF CheckLength, ParseHeader, CheckGeometry, ParseEntry, CheckFirst, CheckOrder,
         CheckLast, ParseBody
<1>3. res' = res => res' \notin LateCodes
  BY <1>1, <1>2 DEF LateCodes
<1>4. ASSUME NEW S, Fail(S),
             S \in {LengthFaults(img), HeaderFaults(img.head), GeometryFaults(img),
                    EntryFaults(img, i), FirstFaults(img), OrderFaults(img, i),
                    LastFaults(img), BodyFaults(img, i)}
      PROVE  res' \notin LateCodes
  BY <1>1, <1>4, EarlyCodes DEF Fail
<1>5. CASE CheckLength
  BY <1>3, <1>4, <1>5 DEF CheckLength, Pass
<1>6. CASE ParseHeader
  BY <1>3, <1>4, <1>6 DEF ParseHeader, Pass
<1>7. CASE CheckGeometry
  BY <1>3, <1>4, <1>7 DEF CheckGeometry, Pass
<1>8. CASE ParseEntry
  BY <1>3, <1>4, <1>8 DEF ParseEntry, Step
<1>9. CASE CheckFirst
  BY <1>3, <1>4, <1>9 DEF CheckFirst, Pass
<1>10. CASE CheckOrder
  BY <1>3, <1>4, <1>10 DEF CheckOrder, Step
<1>11. CASE CheckLast
  BY <1>3, <1>4, <1>11 DEF CheckLast, Pass
<1>12. CASE ParseBody
  BY <1>3, <1>4, <1>12 DEF ParseBody, Step
<1>. QED
  BY <1>5, <1>6, <1>7, <1>8, <1>9, <1>10, <1>11, <1>12

\* E016: the index and every body passed.
LEMMA MissingStep ==
  ASSUME Inv, CheckMandatory
  PROVE  MissingSectionInASoundBody' /\ HashFaultIsTheOnlyFault'
<1>1. pc \in FromMandatory /\ img' = img
  BY DEF CheckMandatory, FromMandatory, Fail, Pass
<1>2. res' # "E009"
  <2>1. res = "none"
    BY DEF Inv, TypeOK, CheckMandatory
  <2>2. \A c \in Earliest(MandatoryFaults(img)) : c = "E016"
    BY EarliestFault DEF MandatoryFaults, Fault
  <2>. QED
    BY <2>1, <2>2 DEF CheckMandatory, Fail, Pass
<1>. QED
  BY <1>1, <1>2, SoundBody
     DEF MissingSectionInASoundBody, HashFaultIsTheOnlyFault, Ordered, Distinct,
         Accounted, Sections, Owners, Off, End

\* A file with another trailer is as valid as its trailer.
LEMMA OtherTrailer ==
  ASSUME NEW f \in Image, NEW t \in Trailer,
         HeaderValid(f.head), GeometryValid(f), Ordered(f), Distinct(f), Accounted(f),
         \A k \in Sections(f) : EntryValid(f.slot[k]) /\ BodyValid(f.slot[k]),
         \A u \in Mandatory : \E k \in Sections(f) : f.slot[k].type = u,
         t.magic, t.reserved = 0, t.hashOk
  PROVE  Valid([f EXCEPT !.trailer = t])
<1>. DEFINE g == [f EXCEPT !.trailer = t]
<1>1. /\ g.head = f.head /\ g.slot = f.slot /\ g.len = f.len /\ g.dirty = f.dirty
      /\ g.trailer = t
  BY DEF Image
<1>. HIDE DEF g
<1>2. Sections(g) = Sections(f)
  BY <1>1 DEF Sections
<1>3. \A k : Off(g, k) = Off(f, k) /\ End(g, k) = End(f, k)
  BY <1>1 DEF Off, End
<1>4. HeaderValid(g.head) /\ TrailerValid(g)
  BY <1>1 DEF TrailerValid
<1>5. GeometryValid(g)
  BY <1>1, <1>3 DEF GeometryValid, IndexEnd, BodyEnd, TrailerAt
<1>6. Ordered(g) /\ Distinct(g)
  BY <1>1, <1>2, <1>3 DEF Ordered, Distinct
<1>7. Accounted(g)
  <2>1. \A b : Owners(g, b) = Owners(f, b)
    BY <1>2, <1>3 DEF Owners
  <2>. QED
    BY <1>1, <2>1 DEF Accounted
<1>8. /\ \A k \in Sections(g) : EntryValid(g.slot[k]) /\ BodyValid(g.slot[k])
      /\ \A u \in Mandatory : \E k \in Sections(g) : g.slot[k].type = u
  BY <1>1, <1>2
<1>9. Valid(g)
  BY <1>4, <1>5, <1>6, <1>7, <1>8 DEF Valid
<1>. QED
  BY <1>9 DEF g

\* E009: the rest of the trailer was read before the hash was compared.
LEMMA HashStep ==
  ASSUME Inv, CheckTrailer
  PROVE  MissingSectionInASoundBody' /\ HashFaultIsTheOnlyFault'
<1>1. /\ pc = "trailer" /\ pc \in FromMandatory /\ Beyond(FromTrailer) /\ img' = img
      /\ img \in Image /\ img.trailer \in Trailer
  BY ImagesAssumption, ImageWords
     DEF CheckTrailer, FromMandatory, FromTrailer, Beyond, Fail, Inv, TypeOK
<1>2. res' # "E016"
  <2>1. \A c \in Earliest(TrailerFaults(img)) : c # "E016"
    BY EarliestFault DEF TrailerFaults, Fault
  <2>. QED
    BY <2>1 DEF CheckTrailer, Fail
<1>3. ASSUME res' = "E009"
      PROVE  Valid([img EXCEPT !.trailer.hashOk = TRUE])
  <2>. DEFINE t == [img.trailer EXCEPT !.hashOk = TRUE]
  <2>1. "E009" \in Earliest(TrailerFaults(img))
    BY <1>3 DEF CheckTrailer, Fail
  <2>2. PICK x \in TrailerFaults(img) :
          x.code = "E009" /\ \A y \in TrailerFaults(img) : x.rank <= y.rank
    BY <2>1, EarliestFault
  <2>3. x.rank = 3
    BY <2>2 DEF TrailerFaults, Fault
  <2>4. img.trailer.magic /\ img.trailer.reserved = 0
    <3>1. img.trailer.magic
      <4>1. SUFFICES ASSUME ~ img.trailer.magic PROVE FALSE
        OBVIOUS
      <4>2. [rank |-> 1, code |-> "E001"] \in TrailerFaults(img)
        BY <4>1, Zenon DEF TrailerFaults, Fault
      <4>. QED
        BY <2>2, <2>3, <4>2
    <3>2. img.trailer.reserved = 0
      <4>1. SUFFICES ASSUME img.trailer.reserved # 0 PROVE FALSE
        OBVIOUS
      <4>2. [rank |-> 2, code |-> "E003"] \in TrailerFaults(img)
        BY <4>1, Zenon DEF TrailerFaults, Fault
      <4>. QED
        BY <2>2, <2>3, <4>2
    <3>. QED
      BY <3>1, <3>2
  <2>5. t \in Trailer /\ t.hashOk /\ t.magic = img.trailer.magic
          /\ t.reserved = img.trailer.reserved
    BY <1>1 DEF Trailer
  <2>6. t.magic /\ t.reserved = 0 /\ t.hashOk
    BY <2>4, <2>5, Zenon
  <2>7. \A u \in Mandatory : \E k \in Sections(img) : img.slot[k].type = u
    BY <1>1 DEF Inv, MandatoryKnown
  <2>8. [img EXCEPT !.trailer.hashOk = TRUE] = [img EXCEPT !.trailer = t]
    OBVIOUS
  <2>. HIDE DEF t
  <2>. QED
    BY <1>1, <2>5, <2>6, <2>7, <2>8, SoundBody, OtherTrailer
<1>. QED
  BY <1>1, <1>2, <1>3 DEF MissingSectionInASoundBody, HashFaultIsTheOnlyFault

LateFaults == HashFaultIsTheOnlyFault /\ MissingSectionInASoundBody

LEMMA LateFaultsKept ==
  ASSUME Inv, LateFaults, [Next]_vars
  PROVE  LateFaults'
<1>1. CASE CheckMandatory
  BY <1>1, MissingStep DEF LateFaults
<1>2. CASE CheckTrailer
  BY <1>2, HashStep DEF LateFaults
<1>3. CASE UNCHANGED vars
  BY <1>3 DEF vars, LateFaults, HashFaultIsTheOnlyFault, MissingSectionInASoundBody
<1>4. CASE \/ CheckLength \/ ParseHeader \/ CheckGeometry \/ ParseEntry
           \/ CheckFirst \/ CheckOrder \/ CheckLast \/ ParseBody
  BY <1>4, EarlyStep
     DEF LateFaults, LateCodes, HashFaultIsTheOnlyFault, MissingSectionInASoundBody
<1>. QED
  BY <1>1, <1>2, <1>3, <1>4 DEF Next

LEMMA LateFaultsAlways == Spec => []LateFaults
<1>1. Init => LateFaults
  BY DEF Init, LateFaults, HashFaultIsTheOnlyFault, MissingSectionInASoundBody
<1>. QED
  BY <1>1, LateFaultsKept, ParserInvariant, PTL DEF Spec

\* E009 is reported only of a file that is valid but for the hash it carries.
THEOREM E009IsTheHash == Spec => []HashFaultIsTheOnlyFault
<1>1. LateFaults => HashFaultIsTheOnlyFault
  BY DEF LateFaults
<1>. QED
  BY <1>1, LateFaultsAlways, PTL

\* E016 is reported only of a file whose index and bodies are as they should be.
THEOREM E016IsAMissingSection == Spec => []MissingSectionInASoundBody
<1>1. LateFaults => MissingSectionInASoundBody
  BY DEF LateFaults
<1>. QED
  BY <1>1, LateFaultsAlways, PTL
=============================================================================
