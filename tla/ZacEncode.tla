----------------------------- MODULE ZacEncode -----------------------------
(***************************************************************************)
(* ZacFile::encode: from an in-memory container to a file, one action per  *)
(* loop iteration.  The first loop lays the bodies out, the second writes  *)
(* them; words are cut to 32 bits on the way into the file.                *)
(*                                                                         *)
(* The parser is not run on the result: it accepts exactly the files that  *)
(* are Parseable (ZacParse_proofs, ParserAcceptsExactly).                  *)
(***************************************************************************)
EXTENDS ZacFormat, ZacInterface

CONSTANTS Files  \* the containers that may be encoded

\* type: the tag of the section; a Vendor may carry any byte.
\* size, ink: the length and the non-zero bytes of what encode_body returns.
\* iface, body: an INTERFACE, and what parse_interface says of its body.
Section == [type : SectionType, size : Nat, ink : SUBSET Nat,
            iface : InterfaceSection, body : BodyVerdict]

\* encode_body of an INTERFACE.
EncodesInterface(s) ==
  LET bytes == EncodeInterface(s.iface) IN
  /\ s.size = Len(bytes)
  /\ s.ink = {b \in 0 .. s.size - 1 : bytes[b + 1] # 0}
  /\ s.body = ParseInterface(bytes).res

File == [major : Nat, flags : Nat, sections : Seq(Section)]

ASSUME WordAssumption == U32 > SlotAt(MAX_SECTIONS)
ASSUME FilesAssumption ==
  \A f \in Files :
    /\ f \in File
    /\ \A k \in DOMAIN f.sections : \A b \in f.sections[k].ink : b < f.sections[k].size
    /\ \A k \in DOMAIN f.sections :
         f.sections[k].type = INTERFACE => EncodesInterface(f.sections[k])

VARIABLES zf,     \* the container
          pc,
          cursor, \* first loop: the layout's cursor; second: bytes written
          start,  \* where the layout puts each body
          put,    \* where each body was written
          img     \* the file, once it is complete

vars == <<zf, pc, cursor, start, put, img>>

Nothing == [len |-> 0]

N          == Len(zf.sections)
Size(k)    == zf.sections[k].size
BodyStart  == AlignUp(SlotAt(N))
LayoutEnd  == AlignUp(start[N] + Size(N))
Cut(n)     == n % U32
----------------------------------------------------------------------------
Init ==
  /\ zf \in Files
  /\ pc = "assert" /\ cursor = 0 /\ start = <<>> /\ put = <<>> /\ img = Nothing

\* Variant: one section too many is let through.
CheckCountLoose ==
  /\ pc = "assert"
  /\ IF N \in 1 .. MAX_SECTIONS + 1
     THEN pc' = "layout" /\ cursor' = BodyStart
     ELSE pc' = "panicked" /\ UNCHANGED cursor
  /\ UNCHANGED <<zf, start, put, img>>

\* The assertion on the number of sections.
CheckCount ==
  /\ pc = "assert"
  /\ IF N \in 1 .. MAX_SECTIONS
     THEN pc' = "layout" /\ cursor' = BodyStart
     ELSE pc' = "panicked" /\ UNCHANGED cursor
  /\ UNCHANGED <<zf, start, put, img>>

\* Variant: the cursor is not rounded up.
LayOutUnaligned ==
  /\ pc = "layout"
  /\ start' = Append(start, cursor)
  /\ LET next == cursor + Size(Len(start) + 1) IN
     IF Len(start) + 1 < N THEN pc' = pc /\ cursor' = next
     ELSE pc' = "write" /\ cursor' = BodyStart
  /\ UNCHANGED <<zf, put, img>>

\* One iteration of the first loop.
LayOut ==
  /\ pc = "layout"
  /\ start' = Append(start, cursor)
  /\ LET next == AlignUp(cursor + Size(Len(start) + 1)) IN
     IF Len(start) + 1 < N THEN pc' = pc /\ cursor' = next
     ELSE pc' = "write" /\ cursor' = BodyStart
  /\ UNCHANGED <<zf, put, img>>

\* Variant: nothing follows the last body.
PadToNext(k) == IF k < N THEN Cut(start[k + 1]) ELSE 0

\* Variant: nothing is put between bodies.
PadToEnd(k) == IF k < N THEN 0 ELSE LayoutEnd

\* Zero bytes follow body k up to the next body's offset, which has been cut
\* to 32 bits, or to the end of the layout.
PadTo(k)      == IF k < N THEN Cut(start[k + 1]) ELSE LayoutEnd
AtLeast(m, n) == IF m < n THEN n ELSE m

\* One iteration of the second loop.
WriteBody ==
  /\ pc = "write"
  /\ LET k == Len(put) + 1 IN
       /\ put' = Append(put, cursor)
       /\ cursor' = AtLeast(cursor + Size(k), PadTo(k))
       /\ pc' = IF k < N THEN pc ELSE "finish"
  /\ UNCHANGED <<zf, start, img>>

HeaderOf ==
  [magic |-> TRUE, major |-> zf.major, flags |-> zf.flags, count |-> N,
   reserved |-> 0, index_offset |-> INDEX_OFFSET, body_offset |-> Cut(BodyStart),
   body_size |-> Cut(LayoutEnd - BodyStart), reserved2 |-> 0]

\* Non-zero bytes: of a slot its type is listed, the rest of it is its own.
Dirty ==
  {SlotAt(k - 1) : k \in {j \in 1 .. N : zf.sections[j].type # 0}}
    \cup UNION {{put[k] + b : b \in zf.sections[k].ink} : k \in 1 .. N}

\* Variant: the words are not cut.
SlotOfWide(k) ==
  [type |-> zf.sections[k].type, flags |-> 0, pad |-> 0,
   offset |-> start[k], size |-> Size(k), crcOk |-> TRUE,
   body |-> zf.sections[k].body]

\* The CRC is the body's; the parser takes it of the bytes the slot points to.
SlotOf(k) ==
  [type |-> zf.sections[k].type, flags |-> 0, pad |-> 0,
   offset |-> Cut(start[k]), size |-> Cut(Size(k)),
   crcOk |-> Size(k) = 0 \/ (Size(k) < U32 /\ put[k] = Cut(start[k])),
   body |-> zf.sections[k].body]

\* What the bytes after the index would be if they were read as a slot.
NoSlot(k) ==
  [type |-> IF SlotAt(k) \in Dirty THEN 255 ELSE 0, flags |-> 0, pad |-> 0,
   offset |-> 0, size |-> 0, crcOk |-> FALSE, body |-> "ok"]

\* Header, index, bodies and trailer.  The hash is of the bytes the parser will
\* hash.
Encoded ==
  [len |-> cursor + TRAILER_SIZE, head |-> HeaderOf,
   slot |-> [k \in SlotIds |-> IF k < N THEN SlotOf(k + 1) ELSE NoSlot(k)],
   dirty |-> Dirty,
   trailer |-> [magic |-> TRUE, reserved |-> 0, hashOk |-> TRUE]]

\* The assertion on the bytes written, then the trailer.
Finish ==
  /\ pc = "finish"
  /\ IF cursor = LayoutEnd THEN pc' = "done" /\ img' = Encoded
     ELSE pc' = "panicked" /\ UNCHANGED img
  /\ UNCHANGED <<zf, cursor, start, put>>

Next == CheckCount \/ LayOut \/ WriteBody \/ Finish

Spec == Init /\ [][Next]_vars
----------------------------------------------------------------------------
(***************************************************************************)
(* Properties.                                                             *)
(***************************************************************************)
TypeOK ==
  /\ zf \in Files
  /\ pc \in {"assert", "layout", "write", "finish", "done", "panicked"}
  /\ cursor \in Nat
  /\ start \in Seq(Nat) /\ put \in Seq(Nat)
  /\ pc = "done" => img \in Image /\ Coherent(img)
  /\ pc # "done" => img = Nothing

\* The containers the format has room for, with bodies that parse back.  The
\* last body's padding, too, has to end within 32 bits.
Representable ==
  /\ zf.major = 1 /\ zf.flags = 0
  /\ \A k \in 1 .. N : ~ Forbidden(zf.sections[k].type)
  /\ \A j, k \in 1 .. N : j # k => zf.sections[j].type # zf.sections[k].type
  /\ \A t \in Mandatory : \E k \in 1 .. N : zf.sections[k].type = t
  /\ \A k \in 1 .. N : SectionFault(zf.sections[k]) = "ok"
  /\ LayoutEnd < U32

\* An empty section would share its offset with the next one.
OnlyLastEmpty == \A k \in 1 .. N - 1 : Size(k) > 0

Encodable == Representable /\ OnlyLastEmpty

\* encode writes a file the parser accepts for the encodable containers and
\* for no other: the layout is the one parse_index and the padding checks ask
\* for, and no word that was cut to 32 bits passes for the one meant.
ParseableIffEncodable == pc = "done" => (Parseable(img) <=> Encodable)

\* The file of an encodable container has its sections, in its order, and each
\* slot points at the bytes of its own body: parsing gives the container back.
SectionsSurvive ==
  pc = "done" /\ Encodable =>
    /\ img.head.count = N
    /\ \A k \in 1 .. N :
         /\ img.slot[k - 1].type = zf.sections[k].type
         /\ Off(img, k - 1) = put[k]
         /\ img.slot[k - 1].size = Size(k)

Interfaces == {zf.sections[k].iface : k \in {j \in 1 .. N : zf.sections[j].type = INTERFACE}}

\* The names of an INTERFACE come back from its body exactly if the body has
\* room for them: no count that is not theirs, no name that the parser refuses
\* and none whose length does not fit 16 bits.  A longer one may well parse, as
\* other names.
NamesSurvive ==
  pc = "done" => \A i \in Interfaces :
    LET read == ParseInterface(EncodeInterface(i)) IN
    (read.res = "ok" /\ read.names = i.names) <=> Framable(i)

\* A body that parse_interface accepts is what encode_body writes of the
\* section read from it, whatever names the body was made of: no byte of it is
\* without a meaning and no two bodies are read alike.
AcceptedBodyIsCanonical ==
  pc = "done" => \A i \in Interfaces :
    LET body == EncodeInterface(i)
        read == ParseInterface(body)
    IN  read.res = "ok" =>
          EncodeInterface([public_input_count |-> read.public_input_count,
                           names |-> read.names]) = body

\* The two loops of encode agree on the length of the file, even where the
\* offsets between them were cut: only the number of sections makes it panic.
LoopsAgree == pc = "panicked" => N \notin 1 .. MAX_SECTIONS

\* What the first loop has established about the bodies laid out so far.
Laid ==
  /\ start # <<>> => start[1] = BodyStart
  /\ \A k \in DOMAIN start : BodyStart <= start[k] /\ start[k] % 8 = 0
  /\ \A j, k \in DOMAIN start : j < k => start[j] + Size(j) <= start[k]
  /\ \A k \in DOMAIN start : k + 1 \in DOMAIN start =>
       start[k + 1] = AlignUp(start[k] + Size(k))

\* What the second has: a body is never written after its place in the
\* layout, and at it as long as the place fits a word.
Written ==
  /\ Len(start) = N
  /\ \A k \in DOMAIN put :
       /\ BodyStart <= put[k] /\ put[k] <= start[k]
       /\ start[k] < U32 => put[k] = start[k]

\* The inductive invariant.
Inv ==
  /\ TypeOK
  /\ pc = "assert" => start = <<>> /\ put = <<>>
  /\ pc \in {"layout", "write", "finish", "done"} => N \in 1 .. MAX_SECTIONS
  /\ LoopsAgree
  /\ Laid
  /\ pc = "layout" =>
       /\ Len(start) < N /\ put = <<>>
       /\ start = <<>> => cursor = BodyStart
       /\ start # <<>> => cursor = AlignUp(start[Len(start)] + Size(Len(start)))
  /\ pc \in {"write", "finish", "done"} => Written
  /\ pc = "write" =>
       /\ Len(put) < N
       /\ BodyStart <= cursor /\ cursor <= start[Len(put) + 1]
       /\ start[Len(put) + 1] < U32 => cursor = start[Len(put) + 1]
  /\ pc \in {"finish", "done"} => Len(put) = N /\ cursor = LayoutEnd
  /\ pc = "done" => img = Encoded
=============================================================================
