----------------------------- MODULE MCZacParse -----------------------------
(***************************************************************************)
(* Files for TLC, built the way an encoder (with or without gaps between   *)
(* bodies) would lay them out, then spoiled in one place or in a few.      *)
(***************************************************************************)
EXTENDS ZacParse, Sequences

GoodSlot == [type |-> 128, flags |-> 0, pad |-> 0, offset |-> 0, size |-> 0,
             crcOk |-> TRUE, body |-> "ok"]

\* Sections of the given types and sizes, gaps[k] spare words of 8 bytes
\* before body k.
Place(types, sizes, gaps) ==
  LET n == Len(types)
      off[k \in 1 .. n] ==
        IF k = 1 THEN 32 + 16 * n + 8 * gaps[1]
        ELSE AlignUp(off[k - 1] + sizes[k - 1]) + 8 * gaps[k]
  IN [slots |-> [k \in SlotIds |->
                   IF k < n THEN [GoodSlot EXCEPT !.type   = types[k + 1],
                                                  !.offset = off[k + 1],
                                                  !.size   = sizes[k + 1]]
                            ELSE [GoodSlot EXCEPT !.type = 0]],
      n |-> n, start |-> off[1], end |-> AlignUp(off[n] + sizes[n])]

TypeBytes(slots, trailerAt) ==
  {SlotAt(k) : k \in {j \in SlotIds : slots[j].type # 0
                                      /\ SlotAt(j + 1) <= trailerAt}}

\* A stray byte past the index may read as the type of a slot not in use.
WithStray(p, stray) ==
  [p EXCEPT !.slots = [k \in SlotIds |->
     IF k >= p.n /\ SlotAt(k) \in stray THEN [@[k] EXCEPT !.type = 200] ELSE @[k]]]

Build(p, stray) ==
  [len     |-> p.end + TRAILER_SIZE,
   head    |-> [magic |-> TRUE, major |-> 1, flags |-> 0, count |-> p.n,
                reserved |-> 0, index_offset |-> 32, body_offset |-> p.start,
                body_size |-> (p.end - p.start) % U32, reserved2 |-> 0],
   slot    |-> p.slots,
   dirty   |-> TypeBytes(p.slots, p.end) \cup stray,
   trailer |-> [magic |-> TRUE, reserved |-> 0, hashOk |-> TRUE]]

\* A file whose slots were changed keeps its type bytes in step with them.
Respoil(f, slots) ==
  [f EXCEPT !.slot = slots,
            !.dirty = (@ \ TypeBytes(f.slot, TrailerAt(f)))
                         \cup TypeBytes(slots, TrailerAt(f))]

WithLen(f, n) ==
  LET at == n - TRAILER_SIZE
  IN [f EXCEPT !.len = n,
               !.dirty = ({b \in @ : b < at} \ {SlotAt(k) : k \in SlotIds})
                            \cup TypeBytes(f.slot, at)]

Places ==
  {Place(<<1, 2, 3>>, <<s1, 4, 32>>, <<g1, g2, g3>>) :
      s1 \in {0, 5, 8}, g1, g2, g3 \in {0, 1}}
  \cup {Place(<<3, 1, 2, 128>>, <<32, 3, 6, s>>, <<0, g, 0, g>>) :
      s \in {0, 9}, g \in {0, 1}}
  \cup {Place(t, <<8, 32>>, <<0, 0>>) : t \in {<<1, 2>>, <<2, 3>>, <<1, 3>>}}
  \cup {Place(<<1, 2, 3, 4>>, <<8, 4, 32, s>>, <<0, 0, 0, 0>>) : s \in {0, 3}}
  \cup {Place(<<128>>, <<s>>, <<0>>) : s \in {0, 8}}

Bases == {Build(p, {}) : p \in Places}
Small == Build(Place(<<1, 2, 3>>, <<5, 4, 32>>, <<0, 0, 0>>), {})

\* One more non-zero byte, anywhere between header and trailer.
Strays ==
  UNION {{Build(WithStray(p, {b}), {b}) : b \in HEADER_SIZE .. p.end - 1} :
         p \in Places}

Heads(f) ==
  LET h == f.head IN
  {[h EXCEPT !.magic = FALSE], [h EXCEPT !.major = 2], [h EXCEPT !.flags = 1],
   [h EXCEPT !.reserved = 1], [h EXCEPT !.reserved2 = 1],
   [h EXCEPT !.index_offset = 40]}
    \cup {[h EXCEPT !.count = c] : c \in (0 .. 5) \cup {MAX_SECTIONS, MAX_SECTIONS + 1}}
    \cup {[h EXCEPT !.body_offset = b] :
            b \in {h.body_offset + d : d \in {-8, -1, 8}}}
    \cup {[h EXCEPT !.body_size = b] :
            b \in {h.body_size + d : d \in {-8, 1, 8}} \cap Word}
    \cup {[h EXCEPT !.body_offset = h.body_offset + d,
                    !.body_size = h.body_size - d] :
            d \in {-8} \cup (IF h.body_size >= 8 THEN {8} ELSE {})}

SlotDefects(s) ==
  {[s EXCEPT !.type = t] : t \in {0, 1, 2, 5, 127, 128, 255}}
    \cup {[s EXCEPT !.flags = 1], [s EXCEPT !.pad = 1], [s EXCEPT !.crcOk = FALSE]}
    \cup {[s EXCEPT !.body = e] : e \in {"E003", "E004", "E015"}}
    \cup {[s EXCEPT !.offset = o] :
            o \in {s.offset + d : d \in {-16, -8, 4, 8, 16}} \cap Word}
    \cup {[s EXCEPT !.size = z] :
            z \in {s.size + d : d \in {-8, -1, 1, 4, 8, 16}} \cap Word}

\* One defect for each kind of check on a slot and its body.
MainDefects(s) ==
  {[s EXCEPT !.type = 5], [s EXCEPT !.type = 128], [s EXCEPT !.crcOk = FALSE],
   [s EXCEPT !.body = "E003"], [s EXCEPT !.offset = (@ + 8) % U32],
   [s EXCEPT !.size = (@ + 4) % U32]}

Slots(f, Defects(_)) ==
  UNION {{[f.slot EXCEPT ![k] = s] : s \in Defects(f.slot[k])} :
         k \in Sections(f) \cap SlotIds}

Trailers ==
  {t \in [magic : BOOLEAN, reserved : {0, 1}, hashOk : BOOLEAN] :
     ~ (t.magic /\ t.reserved = 0 /\ t.hashOk)}

Lengths(f) ==
  {0, 71, 72, 73, 90} \cup {f.len + d : d \in {-40, -8, -1, 1, 8}}

TrailerDefect(f) == {[f EXCEPT !.trailer = t] : t \in Trailers}

OneDefect(f) ==
  {[f EXCEPT !.head = h] : h \in Heads(f)} \cup TrailerDefect(f)
    \cup {Respoil(f, s) : s \in Slots(f, SlotDefects)}
    \cup {WithLen(f, n) : n \in Lengths(f)}

\* A defect in each of two places: the earlier check must win.
TwoDefects(f) ==
  UNION {{Respoil(g, s) : s \in Slots(g, MainDefects)} \cup TrailerDefect(g) :
         g \in OneDefect(f)}

\* Bodies of a hundred bytes or so with U32 = 256: body_offset + body_size
\* passes the word size although every word of the file fits.
Huge ==
  {f \in {Build(Place(<<1, 2, 3>>, <<s1, s2, 32>>, <<0, 0, 0>>), {}) :
            s1, s2 \in {8, 40, 48, 64, 69, 72, 80}} :
     f.head.body_size = TrailerAt(f) - f.head.body_offset}

Files == Bases \cup Strays \cup UNION {OneDefect(f) : f \in Bases}
           \cup TwoDefects(Small) \cup Huge

\* The comprehension makes TLC build the set once.
MCImages == {f : f \in Files}
----------------------------------------------------------------------------
(***************************************************************************)
(* What the repository's texts say of the parser and the code does not do. *)
(***************************************************************************)

\* tests/fuzz_parse.rs: the parsers check bounds everywhere, and every panic
\* counts as a failure.
NeverPanics == res # "PANIC"

\* ERROR-CODES, E005: the order of the entries enforces a single canonical
\* layout, so the types and sizes of an accepted file determine its offsets.
CanonicalLayout ==
  res = "ok" =>
    /\ img.head.body_offset = IndexEnd(img)
    /\ \A k \in Sections(img) :
         k > 0 => Off(img, k) = AlignUp(End(img, k - 1))
=============================================================================
