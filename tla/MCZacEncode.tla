---------------------------- MODULE MCZacEncode ----------------------------
(***************************************************************************)
(* Containers for TLC: the three mandatory sections and up to two more, in *)
(* sizes around the alignment, then spoiled in one place or in two; and    *)
(* some whose layout passes the 32-bit words.                              *)
(***************************************************************************)
EXTENDS ZacEncode

\* Of six bytes 0 is NUL and 1, 2 and 3 are ASCII.
MCLeadBytes == {4}
MCContinuations == {5}

Names(names) == [public_input_count |-> Len(names), names |-> names]
Ascii(n) == [j \in 1 .. n |-> 1]

Body(type, size) ==
  [type |-> type, size |-> size, ink |-> {0, size - 1} \cap (0 .. size - 1),
   iface |-> Names(<<>>), body |-> "ok"]

Interface(i) ==
  LET bytes == EncodeInterface(i) IN
  [type |-> INTERFACE, size |-> Len(bytes),
   ink |-> {b \in 0 .. Len(bytes) - 1 : bytes[b + 1] # 0},
   iface |-> i, body |-> ParseInterface(bytes).res]

\* An INTERFACE of that many bytes: names of 14, and one of what remains.
Sized(size) ==
  LET full == (size - COUNT_BYTES) \div 16
      rest == (size - COUNT_BYTES) % 16
      long == [k \in 1 .. full |-> Ascii(14)]
  IN  Interface(Names(IF rest = 0 THEN long ELSE Append(long, Ascii(rest - LENGTH_BYTES))))

Of(sections) == [major |-> 1, flags |-> 0, sections |-> sections]

Good ==
  {Of(<<Body(VKEY, s1), Sized(4), Body(R1CS_HASH, 32)>>) : s1 \in {0, 1, 7, 8, 9}}
    \cup {Of(<<Body(R1CS_HASH, 32), Body(128, s1), Sized(4), Body(VKEY, s2)>>) :
      s1 \in {0, 3, 8}, s2 \in {0, 5, 8}}
    \cup {Of(<<Body(VKEY, 8), Body(META_CBOR, s1), Sized(6),
               Body(R1CS_HASH, 32), Body(254, s2)>>) : s1, s2 \in {0, 8, 9}}

\* Interfaces that do not frame, or only just.
Miscounted == {[Names(<<Ascii(1)>>) EXCEPT !.public_input_count = c] : c \in {0, 2, 17}}
Characters == {Names(<<<<a, b>>, <<c>>>>) : a, b, c \in {0, 1, 4, 5}}
\* Two bytes hold a length of 35.
Lengthy == {Names(<<Ascii(n), <<>>, Ascii(m)>>) : n \in {35, 36, 37, 38}, m \in {0, 7, 36}}
\* The first name is read as three, which end where the third name does.
Misread == Names(<< <<2, 3>> \o Ascii(20) \o <<4, 5>> \o Ascii(12), Ascii(9), Ascii(9) >>)

Framings ==
  {Of(<<Body(VKEY, 8), Interface(i), Body(R1CS_HASH, 32)>>) :
     i \in Miscounted \cup Characters \cup Lengthy \cup {Misread}}

Spoiled(f) ==
  {[f EXCEPT !.major = 2], [f EXCEPT !.flags = 1]}
    \cup {[f EXCEPT !.sections = SubSeq(@, 1, n)] : n \in 0 .. Len(f.sections)}
    \cup {[f EXCEPT !.sections = @ \o <<Body(t, 2), Body(200, 1)>>] : t \in {128, 129}}
    \cup {[f EXCEPT !.sections = @ \o <<Body(201, 1)>>]}
    \cup {[f EXCEPT !.sections[k].type = t] :
            k \in DOMAIN f.sections, t \in {0, 5, 127, 128, 254, 255}}
    \cup {[f EXCEPT !.sections[k] = IF @.type = INTERFACE THEN Interface(i) ELSE @] :
            k \in DOMAIN f.sections,
            i \in {Names(<<<<0>>>>), Names(<<<<4>>>>)} \cup Miscounted}

\* U32 is 256: bodies of two hundred bytes pass it.
Huge ==
  {Of(<<Body(VKEY, s1), Sized(s2), Body(R1CS_HASH, 32)>>) :
     s1 \in {8, 128, 136, 137, 144, 160, 176, 255, 256, 257, 264},
     s2 \in {4, 8, 100, 136, 248, 256}}
    \cup {Of(<<Body(VKEY, 8), Body(R1CS_HASH, 32), Sized(s)>>) :
            s \in {4, 7, 8, 9, 128, 136, 137, 168, 200, 207, 208, 209, 216,
                   217, 256, 258}}

Candidates ==
  Good \cup Huge \cup Framings \cup UNION {Spoiled(f) : f \in Good}
    \cup UNION {Spoiled(f) : f \in
           Spoiled(Of(<<Body(VKEY, 5), Sized(4), Body(R1CS_HASH, 32)>>))}

MCFiles == {f : f \in Candidates}
----------------------------------------------------------------------------
(***************************************************************************)
(* What the repository's texts say of the encoder and the code does not    *)
(* do.                                                                     *)
(***************************************************************************)

\* zac_file.rs, doc of encode: parsing what encode returns gives back the
\* container.  An empty section that is not the last one breaks it: the next
\* section gets the same offset, which parse_index refuses.
RoundTripGuarantee == pc = "done" /\ Representable => Parseable(img)
=============================================================================
