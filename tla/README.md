# A TLA+ development for ZAC

ZAC is a container format for Groth16 proofs on BN254. A `.zac` file holds a
verifying key, the names of the public inputs and the hash of a circuit; a
`.zacp` file holds a proof and its public inputs and names the `.zac` it was
made for. The repository has a library (`crates/zac`) that parses, encodes,
proves and verifies, and a command line (`crates/zac-cli`) on top of it.

This directory models the parts of it where the hard decisions are: the parser
and the encoder of the container, the importers and the prover, the verifier,
and runs of the command line that share files.
TLC checks the models on small instances, TLAPS proves the central facts for
every value of the constants.

## The system

| component | state | operations | what makes it correct |
|---|---|---|---|
| container parser: `zac_file.rs`, `header.rs`, `index.rs`, `section.rs`, `trailer.rs` | the file, a cursor, the types seen | `ZacFile::parse` | accepts exactly the files the format allows, never panics, blames the earliest fault |
| container encoder: same files | none | `ZacFile::encode` | what it writes parses back to what it was given |
| hashes: `hash.rs`, `crc.rs` | none | `file_hash`, `vk_fingerprint`, `r1cs_hash`, `crc32` | every byte that matters is covered by one of them |
| proof parser and encoder: `zac_proof.rs` | the file | `ZacProofFile::parse`, `encode` | exact length, header words checked |
| verifier: `verifier.rs` | a container, a proof | `verify` | accepts exactly bound, well-formed pairs whose pairing equation holds; each fault under its own code |
| decoding: `groth16.rs` | none | `decode_vk`, `decode_proof`, `decode_fr_canonical` | canonical encodings only, on the curve, in the subgroup, no identity where it is forbidden |
| proving pipeline: `prover.rs`, `groth16_prover.rs` | a container, a key, a witness, an RNG | `prove`, `prove_with_rng` | a proof is made only for the key of the container and verifies if the witness satisfies the circuit |
| importers: `iden3/` | a file | `parse_zkey`, `parse_wtns`, `encode_wtns` | bounds, section table, field elements |
| command line: `main.rs`, `commands/` | files on disk | `pack`, `prove`, `verify`, `inspect`, `hash` | no run uses a half-written container, no proof is accepted for another container, exit codes mean what they say |
| error codes: `error.rs` | none | `code`, `from_e_code` | the codes of SPEC section 10 |

The components call one another directly and share no memory. `verify` (the
command) reads both files, parses them and calls `verify` (the function);
`prove` reads a container, a key and a witness and writes a proof; `pack` reads
a key and a circuit and writes a container. The file system is the only state
that outlives a run and the only place where two of them meet.

Nothing in the library is concurrent, retries or times out. What is hard in it
is long chains of checks where each one is safe only because of an earlier one
(slices, sums, arities), boundaries (alignment, 32-bit words, zero sections or
inputs), and the order in which faults are looked for, because callers branch
on the code. What is hard in the command line is several runs on one path: they
read and write in pieces, overwrite in place, and can be killed between two
system calls.

Left aside: examples, tests, benches, fixtures, the node scripts that compare
with snarkjs, and the bills of materials. They are not part of the program.
What the tests and documents claim of it is checked where the code disagrees
(see Findings).

## Modules

| module | models | built from |
|---|---|---|
| `OneVerdict` | what any parser or verifier promises: one verdict, "accepted" exactly for the good inputs, perhaps a panic for those it cannot measure | |
| `Faults` | a stage as the set of the faults present, each with the rank at which the code looks for it | |
| `ZacFormat` | a `.zac` file and, separately, what SPEC section 3 asks of it | |
| `ZacParse` | `ZacFile::parse`, one action per check or loop iteration | `ZacFormat`, `Faults`, `OneVerdict` |
| `ZacParse_proofs` | theorems on it | `ZacParse` |
| `MCZacParse` | files for TLC | `ZacParse` |
| `ZacInterface` | `encode_body` and `parse_interface` of an INTERFACE, byte by byte | |
| `LoopLemmas` | lemmas on loops, `%` and `\div` | |
| `ZacInterface_proofs` | theorems on the bytes of an INTERFACE | `ZacInterface`, `LoopLemmas` |
| `ZacEncode` | `ZacFile::encode`, one action per loop iteration | `ZacFormat`, `ZacInterface` |
| `ZacEncode_proofs` | theorems on it | `ZacEncode`, `ZacInterface_proofs` |
| `MCZacEncode` | containers for TLC | `ZacEncode` |
| `ZacVerify` | `ZacProofFile::parse`, then `verify()`, one action per step | `Faults`, `OneVerdict` |
| `ZacVerify_proofs` | theorems on it | `ZacVerify` |
| `MCZacVerify` | pairs of container and proof for TLC | `ZacVerify` |
| `Iden3` | a `.zkey` and a `.wtns`, the faults `parse_zkey` and `parse_wtns` look for, and, separately, what makes such a file valid | `Faults` |
| `RootsOfUnity` | the domain of the native prover and its coset | |
| `RootsOfUnity_proofs` | theorems on them | `RootsOfUnity`, `LoopLemmas` |
| `ZacProve` | `parse_zkey`, `parse_wtns`, `prove_with_rng` and the native prover as one run; the proof made, handed to the verifier | `Iden3`, `RootsOfUnity`, `OneVerdict`, `ZacVerify` |
| `ZacProve_proofs` | theorems on it | `ZacProve`, `RootsOfUnity_proofs` |
| `MCZacProve` | keys, witnesses and containers for TLC | `ZacProve` |
| `Pipeline` | what the commands promise whoever chains them: artifacts made at one stroke, no files | |
| `ZacCli` | interleaved runs of the commands on shared files | `Pipeline` |
| `ZacCli_proofs` | theorems on it | `ZacCli` |
| `MCZacCli` | pipelines for TLC | `ZacCli` |

Operators whose comment starts with "Variant" are plausible slips in the
definition that follows them. They take no part in any specification.
PROJECT.json lists which property each of them breaks.

### How a file is modelled (`ZacFormat`)

A file is a record, an *image*: its length, the words of the header, one record
per index slot, the trailer, and `dirty`, the set of the positions of its
non-zero bytes between header and trailer. The parser looks at three kinds of
data. Words that are compared or added are numbers, with the width of 32 bits
(`U32`) where a sum can pass it. Padding is compared with zero, so `dirty` says
all there is to know of it. The rest, the CRC of a body, the hash of the file,
the grammar of an INTERFACE body, is the outcome of the comparison.

`Coherent` ties these views of one byte string together: a slot's first byte is
its type, so it is in `dirty` exactly when the type is not 0. Images that no
byte string has are excluded by it.

`Valid` is the reference: SPEC section 3 as facts about the whole file (no two
sections overlap, no non-zero byte lies outside slots and bodies), without an
order in which to look. `ZacParse` shares only the arithmetic with it.
`Parseable` is `Valid` and a body that ends below 2^32: `ZacFile::parse` adds up
the end of the last padding in 32 bits and panics on a valid file past them.

### The parser (`ZacParse`)

Each action is one stage of `ZacFile::parse`: `CheckLength`, `ParseHeader`,
`CheckGeometry`, `ParseEntry` (once per slot), `CheckFirst`, `CheckOrder` (once
per pair of neighbours), `CheckLast`, `ParseBody` (once per body),
`CheckMandatory`, `CheckTrailer`. `XFaults` is the set of the faults a stage
would find, with the order in which the code looks; `Fail` returns the earliest.
An expression that would panic (a slice out of range, a u32 sum in a debug
build) is a fault with the code `PANIC`, at the place where it is evaluated.
`OverflowChecks` chooses between the debug build (the sum panics) and the
release build (it wraps).

### The encoder (`ZacEncode`)

`CheckCount` is the assertion on the number of sections, `LayOut` one iteration
of the loop that computes offsets, `WriteBody` one of the loop that writes
bodies and padding, `Finish` the assertion on the length and the trailer. A
section is a type, a size and the positions of its non-zero bytes; an INTERFACE
has its count and names, and `FilesAssumption` ties size, bytes and the parser's
answer to what `EncodeInterface` writes of them. The result is an image in the
sense of `ZacFormat`, so the parser's reference `Parseable` applies to it as it
is. `Encodable` says of a container, section by section, what it takes to be
written to such a file; that the layout ends within 32 bits is a part of it.
Offsets, sizes and `body_size` are cut to 32 bits (`Cut`) where the code casts
them; the cursor and the bytes written are not. A slot whose offset was cut
points at other bytes than its body, and its CRC is taken not to match them.

### The names of the inputs (`ZacInterface`)

The bytes of an INTERFACE body are modelled one by one, because the property is
about them: a length that was cut to 16 bits makes the parser take the middle
of one name for the length of the next. `EncodeInterface` and `ParseInterface`
are recursive functions over the names, `ReadName` is one iteration of the
parser's loop, `EncodedUpTo` and `ReadUpTo` are the two loops after each
round. `BYTE` is the number of byte values, so that 16 bits are
`BYTE * BYTE`. UTF-8 is reduced to what a cut in the wrong place can break:
some bytes ask for a continuation byte, some are one, and `from_utf8` accepts
the strings where these come in pairs.

### The verifier (`ZacVerify`)

`verify()` is public and takes structs, so the model has two kinds of pairs:
`bytes` says that the proof went through `ZacProofFile::parse`. A struct built
in memory can lack sections, and its header can count other inputs than it has.
A group element is one of good, identity, off the curve, off the subgroup,
malformed; the key's bytes are read before any check on points, so malformed
and exhausted bytes are a property of the key, not of a point. The pairing
equation is a bit of the pair: nothing in the code before step 10 depends on it.

### Importers and prover (`Iden3`, `ZacProve`)

A `.zkey` or `.wtns` is a record: its length, the section headers the table loop
can meet (`heads`, each with its place in the file), and what the bodies read
as. The loop of `read_binfile_header` adds a 64-bit size to its cursor, so a
cursor can wrap and meet the same header twice; `Coherent` says that two headers
at one place are one header and that the next one lies where the sum leads.
`secs` is the list of sections by id, of which `find_section` takes the first.
`job.checks` says which build runs: with overflow checks the sum panics,
without them it wraps. Both are in the run.

`ZacProve` has one action per stage: two tables, one round each time
(`ZkeyTable`, `WtnsTable`), the sections of the key (`ParseProtocol`,
`ParseGroth`, `ParseIc`, `ParseCoefs`, `ParseQuery`), `ParseWtns`, then
`CheckShape`, `BuildAbc`, `MakeDomain`, `Multiply` and `Bind` for
`prove_with_rng`. As in `ZacParse` a stage is the set of the faults it would
find, a slice out of range is a fault with the code `PANIC`. A loop of 2^64
rounds, which the release build enters for an empty domain, has the code `HANG`.
It stands for a run that does not end: the model stops there, and no property
counts it as an end. `Endless` says of which inputs it can be the outcome.

Section 2 of a `.zkey` is read at fixed offsets without a look at its size, so
what is read may belong to the next section; `groth` is what those bytes read
as, whoever owns them.

Field elements and points are outcomes of the checks made on them. What the
multi-scalar products give is an input of the run (`job.made`, and
`job.pairing` for the equation), because the points the products are taken of
are arbitrary. Roots of unity are exponents of one generator (`RootsOfUnity`):
that is enough to say whether the coset the quotient is evaluated on meets the
domain. Powers of two are a recursive function, `Pow2`, because the provers know
no exponentiation.

`MadePair` is the proof and the container as the verifier gets them: `VkOf` is
what `vkey_bytes_compressed` keeps of the key, `ProofOf` what `encode` writes.
`MadeProofVerifies` asks `ZacVerify` about that pair.

### The command line (`ZacCli`)

A file is a sequence of blocks, the units in which `read` and `write` move data.
A block is the n-th block of the artifact it was written from, so a file mixed
from two writers is visible as such. `ParsesZac` and `ParsesZacp` say what the
parsers conclude about a sequence of blocks: the trailer's hash covers every
block of a `.zac` from the index on, so only one artifact's blocks in place pass; a `.zacp`
has no checksum, so its header block and its length decide, and only the
pairing can tell that the other blocks are of another proof.

Each run is a process: it reads (`ReadZac`, `ReadZacp`, one action per system
call), decides (`Pack`, `Prove`, `Verify`, `Inspect`), and writes (`Open`, one
`Write` per block, `Report`). Any read, open or write can fail with an I/O error
(exit 3). `Kill` stops a run anywhere and leaves the file as it is. Writers do
what `write_output` does: `create_new` without `--force`, `create` and
`truncate` with it, then `write_all` at the run's own offset, into the final
path. `inspect` stands for `hash` too, which makes the same decisions.

`Pipeline` is the same without files. A run makes its artifact at one stroke,
`prove` from any container made before, `verify` accepts a container and a
satisfying proof for it that have been made, a run that ended says nothing more,
and of the writers of one path, if none has `--force`, one succeeds at most.
`ZacCli` implements it (`Implements`): `made` is `out`, `status` and `vouched`
are read off the place, the code and the headers of what a run has in memory;
reading, opening and writing are hidden.

Not in this model: files that are renamed or deleted by others, a power failure
that loses written blocks, a second machine, the contents of `.zkey`, `.r1cs` and `.wtns`
(`ZacProve` has them; here they are a refusal with 3, at any time), a panic
(exit code 101; `ZacParse` and `ZacProve` say over which files), argument errors
(clap exits 2).

## What is checked

| run | instance | shows |
|---|---|---|
| `parse` | 99,000 states; files of one to four sections in 33 layouts, each with one stray byte at every position, one defect of every kind at every place, the lengths around the boundaries; one layout with every pair of defects; files that pass the word size | the parser accepts exactly the valid files whose body ends within 32 bits, and panics only past them; its slices hold; bytes have one owner; no two valid files share the hashed bytes; E009 and E016 never stand in for an earlier fault |
| `encode` | 14,600 states; containers of three to five sections with sizes around the alignment, each spoiled in one place, one of them in two; 82 with sizes around the word size; 80 INTERFACEs with every pair of kinds of bytes, wrong counts, names around the 16-bit length | the file is one the parser accepts exactly for the encodable containers, on both sides of the word size; slots point at their bodies; the two loops agree; names come back exactly if they fit, and an accepted body is the encoding of what is read from it |
| `verify` | 11,000 states; sound pairs of 0 to 3 inputs (the cap is 2) with every defect, from bytes and from memory, and pairs of defects for two of them | accepts exactly the sound pairs; E017 is the pairing's verdict |
| `prove` | 16,300 states; 50 sizes of circuits, a small key and its witness with every defect, tables that lead back, sizes that pass 64 bits, in both builds; a container that differs from the key in every way | a proof is made of exactly the provable jobs; where it stops and why; a made proof verifies but for the conditions `prove` never asks about; every run ends but the release build's over an empty domain |
| `cli` | 1.7 million states, four pipelines: two packs and two proves, nobody with `--force`; two packs of one key, different names, under a prove and a verify; two packs of keys of two and three blocks, under an inspect; two proves, one with a bad witness, under an inspect and a verify | who creates a file keeps it whole; no run uses a torn container; no accepted pair is mixed |
| `cli_turns` | 51,800 states, three small races: the two packs of different size under an inspect; two packs, nobody with `--force`, under a prove; two proves, one with a bad witness, under a verify | the runs implement `Pipeline`; runs that take turns leave whole files, whatever was there; every run ends; the inductive invariant of the proofs |

Bounds. In `parse`, `U32` is 256 instead of 2^32 and files stay below a few
hundred bytes, so that a file can pass the word size; `MAX_SECTIONS` is 6
instead of 16 and four sections are enough for the loops over slots, neighbours
and bodies to have a first, a middle and a last iteration; `MAX_META` is 8
instead of 65536, with bodies on both sides of it. In `encode`, `U32` is 256
and `MAX_SECTIONS` 5, with containers of none and of six sections, and bodies
just below, at and above the word size in every position; `BYTE` is 6, so that
a length of two bytes passes at 36, the least size at which a cut name can be
read as three others to the last byte. In `verify`,
`MAX_PUBLIC_INPUTS` is 2 instead of 4096, with counts up to one above it. In
`prove`, a 32-bit count ends at 16, a 64-bit size at 8192, a little above the
length of the files, and the field has roots of unity of order 8: domains of
every size from 0 to 15 lie on both sides of it. Keys have up to four wires, so
each list of points has a first and a last one, and one or two rows. A defect
has one place; two are combined with a wrong witness and a foreign key, which
is what the order of the last checks is about. In
`cli`, files have two or three blocks: two is the least at which a file can be
mixed, three gives a hole (a block skipped by a truncating writer). Each run
has one command; a pipeline has up to five of them.

`CHECK_DEADLOCK FALSE` is set everywhere because every behaviour ends: a parser
returns, a run exits.

Fairness. The specifications of parser, encoder and verifier have none: what they
promise is safety, and a straight-line program needs no scheduler. `ZacProve`
has `WF_vars(Next)`: one thread, which nothing blocks, takes its next step.
`Terminates` is not idle under it, since a size in the file can send the table
loop back to where it was; only the count of sections ends it. It is stated for
the inputs that are not `Endless`: a key of valid files with a domain of size 0
can send a build without overflow checks into a loop of 2^64 rounds. In `ZacCli`
each run is weakly fair, and only on its own steps, never on `Kill`: the
operating system schedules every live process, and nothing in the commands
waits for another run. `EveryRunEnds` holds under it because a read loop
advances one block at a time and the writers it could chase are finitely many
and write finitely many blocks; a single file that is extended for ever by a
fresh run each time is outside the model.

### Findings

Six runs state what a document, comment or test of the repository says and
show a behaviour of the code that differs.

| run | the text | the code |
|---|---|---|
| `parse_never_panics` | tests/fuzz_parse.rs: bounds are checked everywhere, no panic | the padding's end is a u32 sum (zac_file.rs:147): a file over 4 GiB whose body ends past 2^32 panics |
| `parse_canonical_layout` | ERROR-CODES, E005: a single canonical layout | gaps of zero bytes are accepted |
| `encode_round_trip` | encode's doc: parsing what it returns gives the container back | an empty section that is not the last gives its offset to the next, which E005 refuses |
| `verify_exhaustion_code` | SPEC 10: bytes that run out inside an element are E015 | arkworks reports an I/O error, which becomes E000 |
| `prove_never_panics` | tests/fuzz_parse.rs: no panic from the public parsers, `parse_zkey` and `parse_wtns` among them | a Groth16 header cut short is sliced past the end of the file (zkey.rs:161); a section size near 2^64 overflows a sum (iden3/mod.rs:106) |
| `cli_exit2` | README: 2 is the pairing's rejection | a torn or malformed container gives 2 as well |

Smaller differences that the models contain and no run of their own shows: SPEC
3.2 (8) asks that the last section end at `body_offset + body_size`, the code
compares its end rounded up to 8; SPEC 6 gives E014 or E013 for a broken
binding, another `zac_file_hash` is E009; a comment in `verify` says that the
arity was settled before the pairing, which is not so for a struct in memory
whose vector and header disagree (hence `pair.bytes` in
`PairingFaultIsTheOnlyFault`); main.rs says that 3 comes before any crypto work,
`prove` opens its output after the proof is made; zkey.rs:53 calls `domain_size`
a power of two, which nothing checks: for another size the transforms take the
next power while the coset is chosen from the size itself, and meets the domain
(`CosetAvoidsDomain`); a `.zkey` whose section 2 is shorter than its
header is read on into the next section; in a release build a section whose
size passes 2^64 is accepted; `prove` writes proofs for containers without
INTERFACE, with another number of inputs or more than 4096 of them, which
`verify` refuses (`Usable`). An INTERFACE with a name of 65536 bytes or more is
written with the length cut: mostly its container does not parse, but there are
lists of names that come back as other names, without an error (`Misread` in
`MCZacEncode`); `pack`, whose self-test looks at the parser's verdict only,
would write them.

## What is proved

All theorems hold for every value of the constants under the assumptions named
in the modules: `U32`, `MAX_SECTIONS` positive naturals, `MAX_META` and
`MAX_PUBLIC_INPUTS` naturals, `U32` beyond the last slot (in `ZacEncode`), the
files coherent images, the containers' non-zero bytes within their bodies, the pairs typed, and a
proof read from bytes with as many chunks as its length has room for. The
proofs use no bound of the instances.

`ZacParse_proofs`:
- `ParserInvariant`, from which the rest follows. `Inv` says, for each stage,
  what the stages before it have established: `HeaderKnown`, `GeometryKnown`,
  `EntriesKnown` for the slots seen so far, `OrderKnown` for the pairs seen so
  far, and so on. `TypeOK` alone is not inductive, and neither is the absence of
  panics: that `bytes[end..pad_end]` is in range needs the order of neighbours,
  the end of the last section and the length of the file at once.
- `OrderKnown` turns comparisons of neighbours into a fact about any two
  sections, by induction along the loop; `BodiesKnown` does the same for
  padding: up to the body under inspection every non-zero byte has an owner.
- `NoPanic`: no slice or sum panics on a file shorter than `U32 + 40` bytes.
- `EveryByteHasOneOwner`: at least one owner from `BodiesKnown`, at most one from
  `OrderKnown` and the geometry.
- `HashPins`: two valid files with the same hashed bytes are the same file,
  although the hash covers four of the header's 32 bytes. The first slot is
  hashed and says where the bodies start, the length then gives `body_size`; a
  header that counts one slot less would leave that slot's type, which is not 0,
  in the padding (`NoMoreSlots`). That the hash of two different inputs differs
  is taken for granted.
- `E009IsTheHash`, `E016IsAMissingSection`: the codes of the last two stages.
  `SoundBody` says what is known there; `EarlyCodes` that no earlier stage has
  either code.
- `ParserAcceptsExactly`: a run that ended accepted exactly the `Parseable`
  files. That an accepted body ends within 32 bits is the sum for the last
  padding, which panics past them or wraps to below the slice's start
  (`LastPadFits`).
- `ParserKeepsItsPromise`: `Spec => Implements`. A step that accepts has `Valid`
  by the invariant; a step that rejects has a fault that contradicts `Valid`
  (one lemma per stage, `LengthStage` to `TrailerStep`); a step that panics is
  past the word size; every other step stutters.

`ZacEncode_proofs`:
- `EncoderInvariant`. `Laid` relates any two bodies laid out so far, not
  neighbours only; `Written` says that no body is written after its place in
  the layout, and at it unless the place passes the word size. `LoopsAgree`
  needs both: the padding after the last body brings the file to the length of
  the layout only if the bodies before it did not pass their places.
- `EncodesExactlyTheEncodable`. `EncodableIsParseable` goes through the parts of
  `Parseable`; `ParseableIsEncodable` goes back. The point of the latter is
  `ValidFits`: the file's length gives a bound on the layout, so an offset that
  was cut is the true one less 2^32 and lies before the first body, which the
  order of sections excludes. `OnlyLastEmpty` follows from the alignment: the
  section after an empty one would have its offset.
- `RoundTrip`: slots point at the bodies of their sections.

With `ParserAcceptsExactly` this says that the parser accepts what `encode`
writes exactly for the encodable containers, so the self-test of `pack` can
fail, or panic, only on an INTERFACE (`pack` gives three distinct, non-empty
sections) or past the word size. What the parser says of an INTERFACE body is a part of the
containers in these theorems; the bytes of the body are the next ones.

`ZacInterface_proofs`, for bodies and lists of names of every length:
- `AcceptedIsCanonical`: a body that `parse_interface` accepts is what
  `encode_body` writes of the section read from it, whoever wrote it. The
  invariant of the parser's loop (`Faithful`) is that the names read so far
  encode to the bytes before the cursor.
- `NamesComeBack`: the names of a section come back from its encoding exactly if
  it is `Framable`. One direction follows the parser along the encoder's loop
  (`RoundBack`); the other is `AcceptedIsCanonical`, since a section read back
  is framable.
- Both are inductions along recursive functions. The induction theorems of the
  library take an operator, which the provers cannot instantiate, so
  `LoopLemmas` proves the principle for a set: `LoopInduction`, from the least
  element of its complement.

`InterfaceNamesSurvive` and `InterfaceBodiesAreCanonical` in `ZacEncode_proofs`
say the same of the runs of the encoder.

`ZacVerify_proofs` has the same shape: `VerifierInvariant`,
`OnlySoundPointsArePaired`, `E017IsThePairing` and `VerifierKeepsItsPromise`.
That E017 is the pairing's verdict holds of proofs from bytes only, and the
proof shows where it is used: the parser makes the count and the number of
chunks agree, the binding makes count and INTERFACE agree, step 6 makes
INTERFACE and key agree.

`ZacProve_proofs`, for keys and witnesses of every size, under `JobsAssumption`:
the files are byte strings (`Coherent`), and neither they nor what a 32-bit
count of points takes up come near 2^64 bytes (`FitsMemory`; a section's size
may).
- `ProverInvariant`. `Inv` is what each stage hands over: how far the table has
  been read and that `secs` has the first section of each id (`LoopKnown`), the
  parts of `ZkeyValid` and `WtnsValid` established so far (`ZkeyKnown`,
  `WtnsKnown`), what the prover has compared (`ProverKnown`), and of a result
  what it says of the job (`VerdictKnown`). One pair of lemmas per stage: without
  a fault it establishes its part, each of its faults contradicts `Provable` and
  has the code it should; `HandOver` and `FailStep` make steps of them.
- `PanicsExplained`: the parsers panic over a wrapped size or a short Groth16
  header only; past them only the counts of the key can make the prover panic,
  as no row, point list or slice can be out of range.
- `E017IsTheDomain`, `ForeignKeyIsCheckedLast` follow from the same invariant.
- `ProverKeepsItsPromise`: `Spec => Implements`, a proof is made of exactly the
  provable jobs.
- `MadeProofsVerify`: of every proof made, the verifier accepts it exactly if the
  job is `Usable`. The proof compares, condition by condition, the checks of the
  `.zkey` parser with those of `decode_vk` and the header that is encoded with
  the one the `.zacp` parser asks for.
- `EncodedWitnessIsValid`: what `encode_wtns` writes passes `parse_wtns`.

`RootsOfUnity_proofs`: `CosetIsOffTheDomain`. For a domain size that is a power
of two the domain is the multiples of a power of two and the coset the odd
multiples of its half (`CosetOfPowerOfTwo`), or, for the largest size, a shift
that is no root at all; for another size the shift is a
point of the larger domain, so it lies in both (`CosetMeetsDomain`). The order
of the field's roots is any power of two. `CosetMissesTheDomain` in
`ZacProve_proofs` applies it to the sizes the `.zkey` parser lets through.

`ZacCli_proofs`, for any number of runs, keys, names, and blocks per key, and
any tasks:
- `InvTheorem`. None of the properties is inductive: that a file is made of
  blocks in their places does not say whose blocks they are. `Inv` adds where
  everything comes from. `Artifact`: what a run has made follows from its job
  and from what it still has in memory, and how far it has written from its
  place. `Provenance`: every block in a file or in a reader's memory is at its
  own place in an artifact (`MadeOf`) that some run has made for that path
  (`Made`). `Verdicts`: a reader that exited 0 still holds what it decided on.
  `Creators`: `create_new` is a lock that is never released, so a path that
  nobody forces has one creator and holds exactly what that run has written.
- There is one lemma per step. Most steps change only the place and the code of
  one run (`QuietStep`); a read appends a block of the file to memory, which
  keeps `MadeOf` (`ReadBlockStep`); a write puts a block of the run's own
  artifact in its place, whatever was there (`PutMadeOf`, `WriteBlockStep`).
- `NoTornContainerTheorem`, `AcceptedPairIsGenuineTheorem`: a container that
  parses is whole, so it is one `pack`'s; the header of the proof `verify`
  accepts has a maker, whose container has the same key and names and hence is
  the same. `CreatorKeepsTheFileTheorem`: from `Creators`. `TypeOKTheorem`.
- `TakingTurnsTheorem`: `InTurn`, the file of a writer holds what it has written
  and nothing else, is inductive together with `Inv` as long as no two runs hold
  one path open; the hypothesis is used at every write of another run.
- `PipelineKeepsItsPromise`: `Spec => Implements`. Reads and writes are hidden
  (`FilesAreHidden`), `Build` is `Make`, a code 0 is `Report`, `Accept` or `Show`
  (`ReportKeeps`, `VerifyKeeps`, `InspectKeeps`), every other end is `GiveUp`.
  `HeaderIsAvailable` is where the artifacts a reader vouches for come from; that
  one writer at most succeeds is `Creators` again.

With these every invariant and every safety property of the passing runs is a
theorem. Only model-checked: the liveness properties `Terminates` and
`EveryRunEnds`, which need fairness and `ENABLED` and are out of the prover's
reach.

## Not modelled

- Curve and field arithmetic, FFT, multi-scalar products, pairing: numbers of
  254 bits; the models have the outcomes of the checks made on them. In
  particular that a proof made of a satisfying witness solves the verifier's
  equation is an input of `ZacProve`, not a result.
- BLAKE3 and CRC-32: outcomes of comparisons, taken as collision-free.
- Allocation: `parse_interface` and `read_binfile_header` reserve memory for a
  32-bit count before they read on.
- The version of a binfile and the fields of a `.zkey` that the parsers skip.
- `encode_r1cs` and the encoders' section framing: they make the inputs of tests.
  Nothing parses an `.r1cs`; `pack` hashes the circuit as bytes and never
  compares it with the key.
- Printing, tracing, argument parsing.

## Plan

Done, in this order: the parser and its proofs, the verifier and its proofs, the
command line, the encoder and its proofs, importers and prover with their
proofs, the names of an INTERFACE, the proofs about the command line, the names
and the coset, the pipeline as an abstract specification and its refinement.

Left, in this order:

1. `ZacCli` with `ZacVerify` in place of `Accepts`, so that what the command
   decides on blocks is tied to what the function decides on fields.
2. The order in which `pack` runs its self-test, with the sections of `ZacEncode`
   as its container.
