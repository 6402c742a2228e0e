--------------------------- MODULE ZacInterface ---------------------------
(***************************************************************************)
(* The body of an INTERFACE section: a count, then one name after another, *)
(* each behind its length in 16 bits.  What encode_body writes and what    *)
(* parse_interface makes of bytes, whoever wrote them.                     *)
(***************************************************************************)
EXTENDS Integers, Sequences

CONSTANTS BYTE,         \* 256
          LeadBytes,    \* UTF-8: those that ask for a continuation byte
          Continuations \* and those that continue

ASSUME ByteAssumption == BYTE \in Nat \ {0, 1}

Byte == 0 .. BYTE - 1
U16  == BYTE * BYTE

LENGTH_BYTES == 2
COUNT_BYTES  == 4

\* A name is the bytes of a Rust string, which may hold a NUL.
InterfaceSection == [public_input_count : 0 .. U16 * U16 - 1, names : Seq(Seq(Byte))]

\* What str::from_utf8 accepts: a lead byte exactly before each continuation.
Utf8(s) ==
  \A k \in 0 .. Len(s) :
    (k > 0 /\ s[k] \in LeadBytes) <=> (k < Len(s) /\ s[k + 1] \in Continuations)

Le16(n) == <<n % BYTE, n \div BYTE>>
Le32(n) == Le16(n % U16) \o Le16(n \div U16)

ReadLe16(s, at) == s[at + 1] + BYTE * s[at + 2]
ReadLe32(s, at) == ReadLe16(s, at) + U16 * ReadLe16(s, at + 2)
----------------------------------------------------------------------------
\* Variant: the length is cut to a byte.
LengthOfNarrow(name) == Len(name) % BYTE

\* bytes.len() as u16.
LengthOf(name) == Len(name) % U16

\* encode_body after each round of its loop.
EncodedUpTo(i) ==
  LET upTo[k \in 0 .. Len(i.names)] ==
        IF k = 0 THEN Le32(i.public_input_count)
        ELSE upTo[k - 1] \o Le16(LengthOf(i.names[k])) \o i.names[k]
  IN  upTo

\* encode_body.  The count is written as it is, the names are all written.
EncodeInterface(i) == EncodedUpTo(i)[Len(i.names)]
----------------------------------------------------------------------------
\* p: what has been read so far, up to the cursor.
Stopped(p, code) == [p EXCEPT !.res = code]

\* One iteration of the loop.
ReadName(body, p) ==
  LET at == p.cursor + LENGTH_BYTES
      to == at + ReadLe16(body, p.cursor)
      name == SubSeq(body, at + 1, to)
  IN  IF p.res # "ok" THEN p
      ELSE IF at > Len(body) THEN Stopped(p, "E015")
      ELSE IF to > Len(body) THEN Stopped(p, "E015")
      ELSE IF (\E k \in DOMAIN name : name[k] = 0) \/ ~ Utf8(name) THEN Stopped(p, "E003")
      ELSE [p EXCEPT !.names = Append(@, name), !.cursor = to]

\* Variant: bytes after the last name are let through.
AtTheEndOrBefore(body, p) == p

\* After the last name the body has to end.
AtTheEnd(body, p) ==
  IF p.res = "ok" /\ p.cursor # Len(body) THEN Stopped(p, "E004") ELSE p

\* What parse_interface has read before the first name.
NoNames(count) ==
  [res |-> "ok", cursor |-> COUNT_BYTES, public_input_count |-> count, names |-> <<>>]

\* parse_interface after each round of its loop.
ReadUpTo(body) ==
  LET upTo[k \in 0 .. ReadLe32(body, 0)] ==
        IF k = 0 THEN NoNames(ReadLe32(body, 0)) ELSE ReadName(body, upTo[k - 1])
  IN  upTo

\* parse_interface: "ok" with the section, or the code of the fault.
ParseInterface(body) ==
  IF Len(body) < COUNT_BYTES THEN Stopped(NoNames(0), "E015")
  ELSE AtTheEnd(body, ReadUpTo(body)[ReadLe32(body, 0)])
----------------------------------------------------------------------------
\* The sections the body has room for.
Framable(i) ==
  /\ i.public_input_count = Len(i.names)
  /\ \A k \in DOMAIN i.names :
       /\ Len(i.names[k]) < U16 /\ Utf8(i.names[k])
       /\ \A j \in DOMAIN i.names[k] : i.names[k][j] # 0
=============================================================================
