------------------------------ MODULE ZacProve ------------------------------
(***************************************************************************)
(* What `prove` does once the container is parsed: parse_zkey, parse_wtns, *)
(* prove_with_rng with the native prover under it, one action per loop     *)
(* iteration, section or step.  An expression that panics is a fault with  *)
(* the code "PANIC"; a loop of 2^64 rounds is one with the code "HANG",    *)
(* the last step of a run that does not end.                               *)
(*                                                                         *)
(* The multi-scalar products and the transforms are not computed: job.made *)
(* says which points come out, job.pairing whether they solve the          *)
(* verifier's equation.                                                    *)
(***************************************************************************)
EXTENDS Iden3, RootsOfUnity

CONSTANTS Jobs,              \* the inputs of the runs in question
          MAX_PUBLIC_INPUTS  \* 4096

ASSUME MaxPublicInputsAssumption == MAX_PUBLIC_INPUTS \in Nat

\* sameVk: its VKEY section is the one vkey_bytes_compressed makes of the key.
\* hasVkey, hasInterface: FALSE only in a container built in memory.
Container == [hasVkey : BOOLEAN, hasInterface : BOOLEAN, sameVk : BOOLEAN,
              count : Nat]

\* Sums of points that passed the parser's checks are on the curve and in the
\* subgroup.
Made == [a : {"good", "identity"}, b : {"good", "identity"}, c : {"good", "identity"}]

\* checks: the build checks sums for overflow.
Job == [checks : BOOLEAN, zkey : Zkey, wtns : Wtns, zac : Container,
        made : Made, pairing : BOOLEAN]

Readable(j) == /\ Coherent(j.zkey) /\ FitsMemory(j.zkey)
               /\ Coherent(j.wtns) /\ FitsMemory(j.wtns)

ASSUME JobsAssumption == \A j \in Jobs : j \in Job /\ Readable(j)

VARIABLES job,
          pc,
          cur,   \* the table loop's cursor
          i,     \* the loop index of the stage
          secs,  \* the sections found, by id
          res    \* the result: "none" while running

vars == <<job, pc, cur, i, secs, res>>

Stages == {"zkeyPrefix", "zkeyTable", "protocol", "groth", "ic", "coefs",
           "queries", "wtnsPrefix", "wtnsTable", "wtns", "shape", "abc",
           "domain", "msm", "bind", "done"}
Codes  == {"E001", "E003", "E010", "E011", "E012", "E013", "E014", "E015",
           "E016", "E017"}
Stuck  == {"PANIC", "HANG"}

key == job.zkey.groth
----------------------------------------------------------------------------
\* The witness has a value for each wire, the first of them 1.  The value is
\* read even if there is none.
ShapeFaults(j) ==
  Fault(1, "E013", j.wtns.n_witness # j.zkey.groth.n_vars)
    \cup Fault(2, "PANIC", j.wtns.n_witness = 0)
    \cup Fault(3, "E012", j.wtns.values[1] # "one")

\* The native prover looks at the witness again, then adds up the rows.
AbcFaults(j) ==
  ShapeFaults(j)
    \cup UNION {LET row == j.zkey.rows[k] IN
                Fault(3 * k + 1, "PANIC", row.signal >= j.wtns.n_witness)
                  \cup Fault(3 * k + 2, "E003", row.matrix \notin {0, 1})
                  \cup Fault(3 * k + 3, "PANIC", row.constraint >= j.zkey.groth.domain_size)
                : k \in 1 .. j.zkey.n_coefs}

\* The domain is the next power of two; of an empty one compute_coset_shift
\* takes 64 trailing zeros for its power.
DomainFaults(j) ==
  Fault(1, "E017", j.zkey.groth.domain_size > MAX_DOMAIN)
    \cup Fault(2, IF j.checks THEN "PANIC" ELSE "HANG", j.zkey.groth.domain_size = 0)

\* Variant: the private wires are taken to start one later.
MsmFaultsShifted(j) ==
  LET g == j.zkey.groth  n == j.wtns.n_witness IN
  Fault(1, "E017", \E id \in {5, 6, 7} : PointCount(g, id) # n)
    \cup Fault(2, "PANIC", g.n_public + 2 > n)
    \cup Fault(3, "E017", PointCount(g, 8) # n - (g.n_public + 2))
    \cup Fault(4, "E017", PointCount(g, 9) # g.domain_size)

\* The five products want as many scalars as points; the private wires are a
\* slice of the witness.
MsmFaults(j) ==
  LET g == j.zkey.groth  n == j.wtns.n_witness IN
  Fault(1, "E017", \E id \in {5, 6, 7} : PointCount(g, id) # n)
    \cup Fault(2, "PANIC", g.n_public + 1 > n)
    \cup Fault(3, "E017", PointCount(g, 8) # n - (g.n_public + 1))
    \cup Fault(4, "E017", PointCount(g, 9) # g.domain_size)

\* The public inputs are copied, then the key is compared with the
\* container's VKEY.  The proof has been made by now.
BindFaults(j) ==
  Fault(1, "PANIC", j.zkey.groth.n_public >= j.wtns.n_witness)
    \cup Fault(2, "E016", ~ j.zac.hasVkey)
    \cup Fault(3, "E014", ~ j.zac.sameVk)
----------------------------------------------------------------------------
Init ==
  /\ job \in Jobs
  /\ pc = "zkeyPrefix" /\ cur = BINFILE_PREFIX /\ i = 0 /\ secs = <<>>
  /\ res = "none"

Fail(faults) ==
  /\ res' \in Earliest(faults)
  /\ pc' = "done"
  /\ UNCHANGED <<job, cur, i, secs>>

\* Variant: the fault is noted but not returned.
StageAndGoOn(stage, faults, next) ==
  /\ pc = stage
  /\ pc' = next
  /\ res' \in IF faults = {} THEN {res} ELSE Earliest(faults)
  /\ UNCHANGED <<job, cur, i, secs>>

\* A stage returns the fault it meets first or hands over to the next one.
Stage(stage, faults, next) ==
  /\ pc = stage
  /\ IF faults # {} THEN Fail(faults)
     ELSE pc' = next /\ UNCHANGED <<job, cur, i, secs, res>>

\* Variant: the loop runs to the end of the file, whatever n_sections says.
TableToTheEnd(stage, f, next) ==
  /\ pc = stage
  /\ IF cur = f.len
     THEN pc' = next /\ UNCHANGED <<job, cur, i, secs, res>>
     ELSE IF \A k \in DOMAIN f.heads : f.heads[k].at # cur
     THEN Fail(Fault(1, "E015", TRUE))
     ELSE \E k \in DOMAIN f.heads :
          LET h == f.heads[k] IN
          /\ h.at = cur
          /\ IF SizeFaults(f, h, job.checks) # {}
             THEN Fail(SizeFaults(f, h, job.checks))
             ELSE /\ secs' = Note(secs, h)
                  /\ cur' = EndOf(h) % U64
                  /\ UNCHANGED <<job, pc, i, res>>

\* One round of read_binfile_header's loop, or its end.
Table(stage, f, next) ==
  /\ pc = stage
  /\ IF i = f.n_sections
     THEN pc' = next /\ UNCHANGED <<job, cur, i, secs, res>>
     ELSE IF NoRoom(f, cur) # {} THEN Fail(NoRoom(f, cur))
     ELSE LET h == f.heads[i + 1] IN
          IF SizeFaults(f, h, job.checks) # {}
          THEN Fail(SizeFaults(f, h, job.checks))
          ELSE /\ secs' = Note(secs, h)
               /\ cur' = EndOf(h) % U64
               /\ i' = i + 1
               /\ UNCHANGED <<job, pc, res>>

ZkeyPrefix == Stage("zkeyPrefix", PrefixFaults(job.zkey), "zkeyTable")
ZkeyTable  == Table("zkeyTable", job.zkey, "protocol")

ParseProtocol ==
  Stage("protocol",
        IF 1 \in DOMAIN secs THEN ProtocolFaults(job.zkey, secs[1]) ELSE Missing(secs, 1),
        "groth")

ParseGroth ==
  Stage("groth",
        IF 2 \in DOMAIN secs THEN GrothFaults(job.zkey, secs[2]) ELSE Missing(secs, 2),
        "ic")

ParseIc ==
  Stage("ic",
        IF 3 \in DOMAIN secs THEN PointArrayFaults(job.zkey, secs[3], 3) ELSE Missing(secs, 3),
        "coefs")

ParseCoefs ==
  /\ pc = "coefs"
  /\ LET faults == IF 4 \in DOMAIN secs THEN CoefFaults(job.zkey, secs[4])
                   ELSE Missing(secs, 4)
     IN IF faults # {} THEN Fail(faults)
        ELSE pc' = "queries" /\ i' = 5 /\ UNCHANGED <<job, cur, secs, res>>

\* Sections 5 to 9, one after the other; then the witness file is opened.
ParseQuery ==
  /\ pc = "queries"
  /\ LET faults == IF i \in DOMAIN secs THEN PointArrayFaults(job.zkey, secs[i], i)
                   ELSE Missing(secs, i)
     IN IF faults # {} THEN Fail(faults)
        ELSE IF i < 9 THEN i' = i + 1 /\ UNCHANGED <<job, pc, cur, secs, res>>
        ELSE /\ pc' = "wtnsPrefix" /\ cur' = BINFILE_PREFIX /\ i' = 0 /\ secs' = <<>>
             /\ UNCHANGED <<job, res>>

WtnsPrefix == Stage("wtnsPrefix", PrefixFaults(job.wtns), "wtnsTable")
WtnsTable  == Table("wtnsTable", job.wtns, "wtns")

ParseWtns ==
  Stage("wtns",
        IF {1, 2} \subseteq DOMAIN secs THEN WtnsFaults(job.wtns, secs[1], secs[2])
        ELSE Missing(secs, 1) \cup Missing(secs, 2),
        "shape")

CheckShape == Stage("shape", ShapeFaults(job), "abc")
BuildAbc   == Stage("abc", AbcFaults(job), "domain")
MakeDomain == Stage("domain", DomainFaults(job), "msm")
Multiply   == Stage("msm", MsmFaults(job), "bind")

Bind ==
  /\ pc = "bind"
  /\ IF BindFaults(job) # {} THEN Fail(BindFaults(job))
     ELSE res' = "ok" /\ pc' = "done" /\ UNCHANGED <<job, cur, i, secs>>

Next ==
  \/ ZkeyPrefix \/ ZkeyTable \/ ParseProtocol \/ ParseGroth \/ ParseIc
  \/ ParseCoefs \/ ParseQuery
  \/ WtnsPrefix \/ WtnsTable \/ ParseWtns
  \/ CheckShape \/ BuildAbc \/ MakeDomain \/ Multiply \/ Bind

Spec == Init /\ [][Next]_vars

\* One thread runs the stages; nothing keeps it from taking its next step.
FairSpec == Spec /\ WF_vars(Next)
----------------------------------------------------------------------------
(***************************************************************************)
(* Properties.                                                             *)
(***************************************************************************)

\* Types; a result exists exactly when the command has no step left.
TypeOK ==
  /\ job \in Job
  /\ pc \in Stages
  /\ cur \in Nat /\ i \in Nat
  /\ res \in {"none", "ok"} \cup Codes \cup Stuck
  /\ pc = "done" <=> res # "none"

\* Counts that no circuit has and no parser refuses: no wire at all, no wire
\* that is private or the constant, no constraint.
Degenerate(g) == g.n_vars = 0 \/ g.n_public >= g.n_vars \/ g.domain_size = 0

FilesValid(j) == ZkeyValid(j.zkey, j.checks) /\ WtnsValid(j.wtns, j.checks)

\* The witness is one of this key's circuit, the key is the container's.
Provable(j) ==
  /\ FilesValid(j)
  /\ j.wtns.n_witness = j.zkey.groth.n_vars
  /\ j.wtns.values[1] = "one"
  /\ ~ Degenerate(j.zkey.groth)
  /\ j.zkey.groth.domain_size <= MAX_DOMAIN
  /\ j.zac.hasVkey /\ j.zac.sameVk

Unmeasurable(j) ==
  Wraps(j.zkey) \/ CutShort(j.zkey) \/ Wraps(j.wtns) \/ Degenerate(j.zkey.groth)

\* prove makes a proof exactly of the jobs that allow one, and panics or hangs
\* only over files it cannot measure or counts without a circuit.
verdict == CASE res = "none"  -> "pending"
             [] res = "ok"    -> "accepted"
             [] res \in Stuck -> "panicked"
             [] OTHER         -> "rejected"

Promise == INSTANCE OneVerdict WITH file <- job, Good <- Provable,
                                    Unmeasurable <- Unmeasurable

Implements == Promise!Spec

\* The place where prove panics tells the reason: a parser only over a size
\* that leaves the 64 bits or a Groth16 header cut short, and once both files
\* are parsed only the counts of the key can do it.
PanicIsAccountedFor ==
  res \in Stuck =>
    IF FilesValid(job) THEN Degenerate(key)
    ELSE Wraps(job.zkey) \/ CutShort(job.zkey) \/ Wraps(job.wtns)

\* The parser and the native prover agree on the length of every array: the
\* prover's own refusals are down to the size of the domain.
NativeProverFitsTheKey == res = "E017" => key.domain_size > MAX_DOMAIN

\* The key is compared with the container's last of all, the proof already
\* made: the other error codes win.
ForeignKeyIsTheOnlyFault ==
  res = "E014" => Provable([job EXCEPT !.zac.sameVk = TRUE])

\* A B - C vanishes on the domain, so it has to be evaluated off it: that
\* holds for the powers of two, and for no other size the parser lets through.
CosetAvoidsDomain ==
  pc = "msm" =>
    (CosetPoints(key.domain_size) \cap DomainPoints(key.domain_size) = {}
       <=> \E k \in 0 .. TWO_ADICITY : key.domain_size = Pow2[k])

\* The runs that do not end: without overflow checks compute_coset_shift goes
\* round 2^64 times over an empty domain.
Endless == ~ job.checks /\ FilesValid(job) /\ key.domain_size = 0

\* Every other run ends, with a proof, an error or a panic, however the sizes in
\* the two files send the table's cursor about.
Terminates == ~ Endless => <>(pc = "done" /\ res # "HANG")
----------------------------------------------------------------------------
(***************************************************************************)
(* The proof that is made, handed to the verifier.                         *)
(***************************************************************************)
\* vkey_bytes_compressed: alpha1, beta2, gamma2, delta2 and IC.
VkOf(f) ==
  [read |-> "ok", alpha |-> f.groth.vk[1], beta |-> f.groth.vk[3],
   gamma |-> f.groth.vk[4], delta |-> f.groth.vk[6],
   ic |-> [n \in 1 .. PointCount(f.groth, 3) |-> f.points[3][n]]]

\* What prove_with_rng returns and encode writes.
ProofOf(j) ==
  LET n == j.zkey.groth.n_public IN
  [header   |-> [len |-> 208 + 32 * n, magic |-> TRUE, major |-> 1, flags |-> 0,
                 count |-> n % U32, reserved |-> 0],
   sameKey  |-> j.zac.sameVk, sameFile |-> TRUE,
   a |-> j.made.a, b |-> j.made.b, c |-> j.made.c,
   inputs   |-> [k \in 1 .. n |-> TRUE]]

MadePair ==
  [bytes |-> TRUE, proof |-> ProofOf(job), pairing |-> job.pairing,
   zac |-> [hasVkey |-> job.zac.hasVkey, hasInterface |-> job.zac.hasInterface,
            count |-> job.zac.count, vkey |-> VkOf(job.zkey)]]

V == INSTANCE ZacVerify WITH Pairs <- {}, pair <- MadePair

\* What the key and the container must be for a made proof to be of use, and
\* prove never asks.
Usable ==
  /\ job.zac.hasInterface
  /\ job.zac.count = key.n_public /\ job.zac.count <= MAX_PUBLIC_INPUTS
  /\ \A j \in {1, 3, 4, 6} : key.vk[j] # "identity"
  /\ job.made = [a |-> "good", b |-> "good", c |-> "good"]
  /\ job.pairing

\* Every other condition of the verifier a made proof meets: the checks of
\* the .zkey parser imply those of decode_vk, and the encoder's header those
\* of the .zacp parser.
MadeProofVerifies == res = "ok" => (V!Provable(MadePair) <=> Usable)
----------------------------------------------------------------------------
(***************************************************************************)
(* The invariant the proofs use: what the stages left behind established.  *)
(***************************************************************************)
\* The stages that come after the one named.
AfterWtns      == {"shape", "abc", "domain", "msm", "bind"}
AfterWtnsTable == AfterWtns \cup {"wtns"}
AfterQueries   == AfterWtnsTable \cup {"wtnsPrefix", "wtnsTable"}
AfterCoefs     == AfterQueries \cup {"queries"}
AfterIc        == AfterCoefs \cup {"coefs"}
AfterGroth     == AfterIc \cup {"ic"}
AfterProtocol  == AfterGroth \cup {"groth"}
AfterZkeyTable == AfterProtocol \cup {"protocol"}

\* n rounds of the table loop: the cursor c, the sizes compared, the sections s
\* found.
TableKnown(f, checks, c, n) ==
  /\ n <= Len(f.heads) /\ c = NextAt(f, n)
  /\ \A k \in 1 .. n : /\ EndOf(f.heads[k]) % U64 <= f.len
                       /\ checks => ~ Overflows(f.heads[k])

FoundKnown(f, s, n) ==
  /\ DOMAIN s = {f.heads[k].id : k \in 1 .. n}
  /\ \A id \in DOMAIN s : \E k \in 1 .. n :
       First(f, id, k) /\ s[id] = SectionRef(f.heads[k])

Sized(f, id) == \E k \in DOMAIN f.heads : First(f, id, k) /\ ZkeySized(f, id, f.heads[k])

PointsSound(f, id) ==
  Sized(f, id) /\ \A j \in 1 .. PointCount(f.groth, id) : SoundPoint(f.points[id][j])

PrefixKnown ==
  /\ pc = "zkeyPrefix" => cur = BINFILE_PREFIX /\ i = 0 /\ secs = <<>>
  /\ pc = "wtnsPrefix" => cur = BINFILE_PREFIX /\ i = 0 /\ secs = <<>>
  /\ pc = "zkeyTable"  => PrefixFaults(job.zkey) = {}
  /\ pc = "wtnsTable"  => PrefixFaults(job.wtns) = {}

LoopKnown ==
  /\ pc = "zkeyTable" =>
       TableKnown(job.zkey, job.checks, cur, i) /\ FoundKnown(job.zkey, secs, i)
  /\ pc = "wtnsTable" =>
       TableKnown(job.wtns, job.checks, cur, i) /\ FoundKnown(job.wtns, secs, i)
  /\ pc \in AfterZkeyTable \ AfterQueries =>
       FoundKnown(job.zkey, secs, job.zkey.n_sections)
  /\ pc = "wtns" => FoundKnown(job.wtns, secs, job.wtns.n_sections)
  /\ pc = "queries" => i \in 5 .. 9

ZkeyKnown ==
  /\ pc \in AfterZkeyTable => TableValid(job.zkey, job.checks)
  /\ pc \in AfterProtocol => Sized(job.zkey, 1) /\ job.zkey.proto = 1
  /\ pc \in AfterGroth =>
       /\ Sized(job.zkey, 2)
       /\ key.n8q /\ key.q /\ key.n8r /\ key.r
       /\ \A j \in 1 .. 6 : SoundPoint(key.vk[j])
  /\ pc \in AfterIc => PointsSound(job.zkey, 3)
  /\ pc \in AfterCoefs =>
       Sized(job.zkey, 4) /\ \A k \in 1 .. job.zkey.n_coefs : RowValid(key, job.zkey.rows[k])
  /\ pc = "queries" => \A id \in 5 .. i - 1 : PointsSound(job.zkey, id)
  /\ pc \in AfterQueries => ZkeyValid(job.zkey, job.checks)

WtnsKnown ==
  /\ pc \in AfterWtnsTable => TableValid(job.wtns, job.checks)
  /\ pc \in AfterWtns => WtnsValid(job.wtns, job.checks)

ProverKnown ==
  /\ pc \in AfterWtns \ {"shape"} => ShapeFaults(job) = {}
  /\ pc \in {"msm", "bind"} => DomainFaults(job) = {}
  /\ pc = "bind" => key.n_public < key.n_vars

VerdictKnown ==
  /\ res = "ok" => Provable(job)
  /\ res \in Codes \cup Stuck => ~ Provable(job)
  /\ PanicIsAccountedFor /\ NativeProverFitsTheKey /\ ForeignKeyIsTheOnlyFault

Inv ==
  /\ TypeOK /\ Readable(job) /\ PrefixKnown /\ LoopKnown /\ ZkeyKnown /\ WtnsKnown /\ ProverKnown
  /\ VerdictKnown
=============================================================================
