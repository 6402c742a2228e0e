----------------------------- MODULE MCZacProve -----------------------------
(***************************************************************************)
(* Jobs for TLC: small circuits whose key, witness and container are       *)
(* spoiled in one place, with sizes that reach past 2^64 among them.       *)
(***************************************************************************)
EXTENDS ZacProve, SequencesExt

\* list gives the sections' ids and sizes, end to end from byte 12.
SizeUpTo(list, k) ==
  FoldLeft(LAMBDA sum, x : sum + SECTION_PREFIX + x.size, 0, SubSeq(list, 1, k))

Lay(list) ==
  [k \in DOMAIN list |->
     [at |-> BINFILE_PREFIX + SizeUpTo(list, k - 1), id |-> list[k].id,
      size |-> list[k].size]]

LengthOf(list) == BINFILE_PREFIX + SizeUpTo(list, Len(list))

Sec(id, size) == [id |-> id, size |-> size]

Circuit(nVars, nPublic, domain) ==
  [n8q |-> TRUE, q |-> TRUE, n8r |-> TRUE, r |-> TRUE, n_vars |-> nVars,
   n_public |-> nPublic, domain_size |-> domain, vk |-> [j \in 1 .. 6 |-> "good"]]

SizeOf(g, nCoefs, id) ==
  CASE id = 1 -> 4
    [] id = 2 -> GROTH_BYTES
    [] id = 4 -> 4 + COEF_BYTES * nCoefs
    [] OTHER  -> PointSize(id) * PointCount(g, id)

GoodRow == [matrix |-> 0, constraint |-> 0, signal |-> 0, canonical |-> TRUE]

\* A key with these sections.
KeyOf(g, nCoefs, list) ==
  [len |-> LengthOf(list), magic |-> TRUE, n_sections |-> Len(list),
   heads |-> Lay(list), proto |-> 1, groth |-> g, n_coefs |-> nCoefs,
   rows |-> [k \in Counts |-> GoodRow],
   points |-> [id \in PointSections |-> [k \in Counts |-> "good"]]]

InOrder(g, nCoefs, ids) == [k \in DOMAIN ids |-> Sec(ids[k], SizeOf(g, nCoefs, ids[k]))]

Snarkjs == <<1, 2, 3, 4, 5, 6, 7, 8, 9>>
Last2   == <<1, 3, 4, 5, 6, 7, 8, 9>>   \* and then 2

GoodKey(g, nCoefs) == KeyOf(g, nCoefs, InOrder(g, nCoefs, Snarkjs))

\* Section 2 last, of this size, with bytes after it.
KeyEndingIn2(g, size, more) ==
  LET key2 == KeyOf(g, 1, Append(InOrder(g, 1, Last2), Sec(2, size)))
  IN [key2 EXCEPT !.len = @ + more]

Witness(n) == WtnsOf([k \in Counts |-> IF k = 1 THEN "one" ELSE "other"], n)

JobOf(checks, zkey, wtns) ==
  [checks |-> checks, zkey |-> zkey, wtns |-> wtns,
   zac |-> [hasVkey |-> TRUE, hasInterface |-> TRUE, sameVk |-> TRUE,
            count |-> zkey.groth.n_public],
   made |-> [a |-> "good", b |-> "good", c |-> "good"], pairing |-> TRUE]

\* The last section's size leads 64 bits on, back to byte `to`; n headers more.
Wrapped(f, to, n) ==
  LET l == Len(f.heads)
      h == [f.heads[l] EXCEPT !.size = U64 + to - BodyAt(f.heads[l])]
      from == CHOOSE k \in 1 .. l : f.heads[k].at = to
      heads == Append(SubSeq(f.heads, 1, l - 1), h)
  IN [f EXCEPT !.n_sections = l + n,
               !.heads = heads \o [k \in 1 .. n |-> heads[from + ((k - 1) % (l - from + 1))]]]

Base == Circuit(3, 1, 2)
----------------------------------------------------------------------------
\* Circuits within bounds and beyond, each with a witness of n values.
Circuits ==
  {Circuit(v, p, d) : v \in 0 .. 3, p \in {0, 1, 3}, d \in {0, 2, 9}}
    \cup {Circuit(2, 1, d) : d \in 1 .. U32 - 1}

SizedKeys ==
  {JobOf(checks, GoodKey(g, IF g.n_vars > 0 /\ g.domain_size > 0 THEN 1 ELSE 0),
         Witness(g.n_vars)) :
     g \in Circuits, checks \in BOOLEAN}

\* The tables: cut, repeated, unknown, left out, empty, in another order.
TableDefects(f) ==
  {[f EXCEPT !.magic = FALSE], [f EXCEPT !.n_sections = 0, !.heads = <<>>],
   [f EXCEPT !.len = 11, !.n_sections = 0, !.heads = <<>>],
   [f EXCEPT !.n_sections = @ + 1],
   [f EXCEPT !.len = @ - 1]}

KeyTables ==
  {KeyOf(Base, 1, InOrder(Base, 1, [k \in 1 .. 8 |-> IF k < out THEN k ELSE k + 1])) : out \in 1 .. 9}
    \cup {KeyOf(Base, 1, InOrder(Base, 1, Snarkjs) \o <<Sec(id, 64)>>) : id \in {1, 3, 10}}
    \cup {KeyOf(Base, 1, <<Sec(id, 63)>> \o InOrder(Base, 1, Snarkjs)) : id \in {1, 2, 3, 4, 5, 9}}
    \cup {KeyOf(Base, 1, [InOrder(Base, 1, Snarkjs) EXCEPT ![id].size = size]) :
            id \in 1 .. 9, size \in {0, 3, 5, 64}}
    \cup {KeyEndingIn2(Base, size, more) :
            size \in {0, 3, 35, 72, 100, 659, GROTH_BYTES, 700}, more \in {0, 1, GROTH_BYTES}}
    \cup {Wrapped(KeyEndingIn2(Base, GROTH_BYTES, 0), 12, 0)}

\* Section 1 is the last and its size leads back to byte `to`.
KeyEndingIn1 == KeyOf(Base, 1, InOrder(Base, 1, <<2, 3, 4, 5, 6, 7, 8, 9, 1>>))
KeyLoops ==
  {Wrapped(KeyEndingIn1, KeyEndingIn1.heads[k].at, n) : k \in {1, 8, 9}, n \in 0 .. 4}
    \cup {[KeyEndingIn1 EXCEPT !.n_sections = @ + 1,
                                !.heads[9].size = U64 + KeyEndingIn1.len - 11
                                                    - BodyAt(KeyEndingIn1.heads[9])]}
    \cup {[Wrapped(KeyEndingIn1, 12, 0) EXCEPT !.len = KeyEndingIn1.len - 1]}
    \cup {[Wrapped(KeyEndingIn1, 12, n) EXCEPT !.groth.vk[1] = "offCurve"] : n \in {0, 2}}

\* The contents.
KeyContents(f) ==
  {[f EXCEPT !.proto = 2], [f EXCEPT !.groth.n8q = FALSE], [f EXCEPT !.groth.q = FALSE],
   [f EXCEPT !.groth.n8r = FALSE], [f EXCEPT !.groth.r = FALSE]}
    \cup {[f EXCEPT !.groth.vk[j] = p] : j \in 1 .. 6, p \in Point}
    \cup {[f EXCEPT !.points[id][j] = p] : id \in PointSections, j \in 1 .. 3, p \in Point}
    \cup {[f EXCEPT !.rows[1].matrix = 2], [f EXCEPT !.rows[1].canonical = FALSE],
          [f EXCEPT !.rows[1].constraint = 2], [f EXCEPT !.rows[1].signal = 3],
          [f EXCEPT !.rows[1].matrix = 1]}

WtnsDefects ==
  TableDefects(Witness(3))
    \cup {[Witness(3) EXCEPT !.n8 = FALSE], [Witness(3) EXCEPT !.prime = FALSE],
          [Witness(3) EXCEPT !.n_witness = 4],
          [Witness(3) EXCEPT !.values[1] = "other"],
          [Witness(3) EXCEPT !.heads[1].id = 3], [Witness(3) EXCEPT !.heads[2].id = 3],
          [Witness(3) EXCEPT !.heads[1].id = 3, !.heads[2].id = 3]}
    \cup {[Witness(3) EXCEPT !.values[k] = "nonCanonical"] : k \in 1 .. 4}
    \cup {Witness(n) : n \in {0, 2, 4, U32, U32 + 3}}
    \cup {[Witness(3) EXCEPT !.heads = Lay(<<Sec(1, size), Sec(2, 96)>>),
                             !.len = LengthOf(<<Sec(1, size), Sec(2, 96)>>)] : size \in {0, 39, 41}}
    \cup {Wrapped([Witness(3) EXCEPT !.heads = Lay(<<Sec(2, 96), Sec(1, 40)>>)], to, n) :
            to \in {12, 120}, n \in 0 .. 3}
    \cup {[Wrapped([Witness(3) EXCEPT !.heads = Lay(<<Sec(2, 96), Sec(1, 40)>>)], 12, 0)
             EXCEPT !.len = 12 + 12 + 96 + 12 + len] : len \in {0, 4, 35, 39}}

\* The container and the proof.
Containers(j) ==
  {[j EXCEPT !.zac.hasVkey = FALSE, !.zac.sameVk = FALSE],
   [j EXCEPT !.zac.hasInterface = FALSE], [j EXCEPT !.zac.sameVk = FALSE],
   [j EXCEPT !.made.a = "identity"], [j EXCEPT !.made.b = "identity"],
   [j EXCEPT !.made.c = "identity"], [j EXCEPT !.pairing = FALSE]}
    \cup {[j EXCEPT !.zac.count = n] : n \in 0 .. MAX_PUBLIC_INPUTS + 1}

BaseKey == GoodKey(Base, 1)
Keys == {BaseKey} \cup TableDefects(BaseKey) \cup KeyTables \cup KeyLoops \cup KeyContents(BaseKey)

\* Three public wires are more than MAX_PUBLIC_INPUTS.
Wide == GoodKey(Circuit(4, 3, 4), 2)

Candidates ==
  SizedKeys
    \cup {JobOf(checks, zkey, Witness(3)) : checks \in BOOLEAN, zkey \in Keys}
    \cup {[JobOf(TRUE, zkey, Witness(2)) EXCEPT !.zac.sameVk = FALSE] : zkey \in Keys}
    \cup {JobOf(checks, BaseKey, wtns) : checks \in BOOLEAN, wtns \in WtnsDefects}
    \cup Containers(JobOf(TRUE, BaseKey, Witness(3)))
    \cup Containers(JobOf(FALSE, Wide, Witness(4)))
    \cup {JobOf(FALSE, GoodKey(g, 0), wtns) : g \in {Base, Circuit(0, 0, 2)}, wtns \in {Witness(0), Witness(3)}}

\* The comprehension makes TLC build the set once.
MCJobs == {j : j \in {c \in Candidates : Coherent(c.zkey) /\ Coherent(c.wtns)}}
----------------------------------------------------------------------------
(***************************************************************************)
(* What the repository's texts say of the parsers and the code does not    *)
(* do.                                                                     *)
(***************************************************************************)

\* fuzz_parse.rs: parse_zkey and parse_wtns never panic, whatever the bytes.
ParsersNeverPanic ==
  [][res' = "PANIC" => pc \in {"shape", "abc", "domain", "msm", "bind"}]_vars
=============================================================================
