----------------------------- MODULE ZacVerify -----------------------------
(***************************************************************************)
(* From the bytes of a .zacp and a parsed .zac to a verdict: the parser    *)
(* ZacProofFile::parse, then verify(), one action per step.  verify() is   *)
(* public, so the proof may also be a struct that no parser has seen.      *)
(*                                                                         *)
(* A group element is the outcome of the checks made on it; hashes are the *)
(* outcome of comparing them; the pairing equation is a bit of the pair.   *)
(***************************************************************************)
EXTENDS Faults, Sequences

CONSTANTS Pairs,             \* the pairs of container and proof in question
          MAX_PUBLIC_INPUTS  \* 4096

ASSUME MaxPublicInputsAssumption == MAX_PUBLIC_INPUTS \in Nat

PROOF_PREFIX_SIZE == 208

\* malformed: not a canonical encoding.  G1 has no points off the subgroup;
\* the code checks all the same.
Decoded == {"good", "identity", "offCurve", "offGroup"}
Point   == Decoded \cup {"malformed"}

ProofHeader == [len : Nat, magic : BOOLEAN, major : Nat, flags : Nat,
                count : Nat, reserved : Nat]

\* inputs: for each chunk, whether it is below the field modulus.
Proof == [header : ProofHeader, sameKey : BOOLEAN, sameFile : BOOLEAN,
          a : Point, b : Point, c : Point, inputs : Seq(BOOLEAN)]

\* read: what arkworks makes of the VKEY bytes before any check on points:
\* malformed content, or bytes that run out inside an element.
Vkey == [read : {"ok", "malformed", "exhausted"},
         alpha : Decoded, beta : Decoded, gamma : Decoded, delta : Decoded,
         ic : Seq(Decoded)]

\* hasVkey, hasInterface: FALSE only in a container built in memory.
Container == [hasVkey : BOOLEAN, hasInterface : BOOLEAN, count : Nat, vkey : Vkey]

\* bytes: the proof comes from a file.  pairing: the equation holds.
Pair == [bytes : BOOLEAN, proof : Proof, zac : Container, pairing : BOOLEAN]

\* A file of the right length has as many chunks as its header counts.
FromBytes(p) ==
  p.bytes /\ p.proof.header.len = PROOF_PREFIX_SIZE + 32 * p.proof.header.count
    => Len(p.proof.inputs) = p.proof.header.count

ASSUME PairsAssumption == \A p \in Pairs : p \in Pair /\ FromBytes(p)

VARIABLES pair, pc, res

vars == <<pair, pc, res>>

Stages == {"parse", "find", "binding", "vkey", "arity", "proof", "inputs",
           "pairing", "done"}
Codes  == {"E000", "E001", "E002", "E003", "E009", "E010", "E011", "E012",
           "E013", "E014", "E015", "E016", "E017", "E018"}
----------------------------------------------------------------------------
\* ZacProofFile::parse.
ParseFaults(h) ==
  Fault(1, "E015", h.len < PROOF_PREFIX_SIZE)
    \cup Fault(2, "E001", ~ h.magic)
    \cup Fault(3, "E002", h.major # 1)
    \cup Fault(4, "E003", h.flags # 0)
    \cup Fault(5, "E013", h.count > MAX_PUBLIC_INPUTS)
    \cup Fault(6, "E003", h.reserved # 0)
    \cup Fault(7, "E015", h.len # PROOF_PREFIX_SIZE + 32 * h.count)

FindFaults(zac) ==
  Fault(1, "E016", ~ zac.hasVkey) \cup Fault(2, "E016", ~ zac.hasInterface)

\* Variant: the two counts are not compared.
BindingFaultsNoCount(p) ==
  Fault(1, "E014", ~ p.proof.sameKey)
    \cup Fault(2, "E009", ~ p.proof.sameFile)
    \cup Fault(4, "E013", p.zac.count > MAX_PUBLIC_INPUTS)

\* Steps 2 to 4 of verify: fingerprint, file hash, count, cap.
BindingFaults(p) ==
  Fault(1, "E014", ~ p.proof.sameKey)
    \cup Fault(2, "E009", ~ p.proof.sameFile)
    \cup Fault(3, "E013", p.proof.header.count # p.zac.count)
    \cup Fault(4, "E013", p.zac.count > MAX_PUBLIC_INPUTS)

\* check_g1_subgroup, check_g2_subgroup, after the rank of the point.
GroupFaults(rank, point) ==
  Fault(rank, "E010", point = "offCurve")
    \cup Fault(rank, "E011", point = "offGroup")

\* classify_deser_err: an element cut short is an I/O error to arkworks.
ReadFaults(read) ==
  Fault(1, "E010", read = "malformed") \cup Fault(1, "E000", read = "exhausted")

\* Variant: gamma may be the identity.
VkeyFaultsGammaFree(k) ==
  ReadFaults(k.read)
    \cup Fault(2, "E018", k.alpha = "identity")
    \cup Fault(3, "E018", k.beta = "identity")
    \cup Fault(5, "E018", k.delta = "identity")
    \cup GroupFaults(6, k.alpha) \cup GroupFaults(7, k.beta)
    \cup GroupFaults(8, k.gamma) \cup GroupFaults(9, k.delta)
    \cup UNION {GroupFaults(9 + j, k.ic[j]) : j \in DOMAIN k.ic}

\* decode_vk: the identity is refused at the four named points only.
VkeyFaults(k) ==
  ReadFaults(k.read)
    \cup Fault(2, "E018", k.alpha = "identity")
    \cup Fault(3, "E018", k.beta = "identity")
    \cup Fault(4, "E018", k.gamma = "identity")
    \cup Fault(5, "E018", k.delta = "identity")
    \cup GroupFaults(6, k.alpha) \cup GroupFaults(7, k.beta)
    \cup GroupFaults(8, k.gamma) \cup GroupFaults(9, k.delta)
    \cup UNION {GroupFaults(9 + j, k.ic[j]) : j \in DOMAIN k.ic}

\* Variant: the key may have terms to spare.
ArityFaultsAtLeast(zac) == Fault(1, "E013", Len(zac.vkey.ic) < zac.count + 1)

ArityFaults(zac) == Fault(1, "E013", Len(zac.vkey.ic) # zac.count + 1)

\* decode_proof takes one point after the other.
PointFaults(rank, point) ==
  Fault(rank, "E010", point = "malformed")
    \cup Fault(rank, "E018", point = "identity")
    \cup GroupFaults(rank, point)

ProofFaults(p) == PointFaults(1, p.a) \cup PointFaults(2, p.b) \cup PointFaults(3, p.c)

\* decode_fr_canonical on every chunk.
InputFaults(p) == Fault(1, "E012", \E n \in DOMAIN p.inputs : ~ p.inputs[n])

\* arkworks refuses a key that does not fit the inputs; both ways out are E017.
PairingFaults(p) ==
  Fault(1, "E017", Len(p.zac.vkey.ic) # Len(p.proof.inputs) + 1)
    \cup Fault(2, "E017", ~ p.pairing)
----------------------------------------------------------------------------
Init ==
  /\ pair \in Pairs
  /\ pc = IF pair.bytes THEN "parse" ELSE "find"
  /\ res = "none"

\* Variant: the error is noted but not returned.
StageAndGoOn(stage, faults, next) ==
  /\ pc = stage
  /\ res' \in IF faults = {} THEN {res} ELSE Earliest(faults)
  /\ pc' = next
  /\ UNCHANGED pair

\* A stage returns the fault it meets first or hands over to the next one.
Stage(stage, faults, next) ==
  /\ pc = stage
  /\ \/ /\ res' \in Earliest(faults) /\ pc' = "done"
     \/ /\ faults = {}               /\ pc' = next   /\ UNCHANGED res
  /\ UNCHANGED pair

ParseProof   == Stage("parse", ParseFaults(pair.proof.header), "find")
FindSections == Stage("find", FindFaults(pair.zac), "binding")
CheckBinding == Stage("binding", BindingFaults(pair), "vkey")
DecodeVkey   == Stage("vkey", VkeyFaults(pair.zac.vkey), "arity")
CheckArity   == Stage("arity", ArityFaults(pair.zac), "proof")
DecodeProof  == Stage("proof", ProofFaults(pair.proof), "inputs")
DecodeInputs == Stage("inputs", InputFaults(pair.proof), "pairing")

CheckPairing ==
  /\ pc = "pairing"
  /\ res' \in IF PairingFaults(pair) = {} THEN {"ok"} ELSE Earliest(PairingFaults(pair))
  /\ pc' = "done"
  /\ UNCHANGED pair

Next == \/ ParseProof \/ FindSections \/ CheckBinding \/ DecodeVkey
        \/ CheckArity \/ DecodeProof \/ DecodeInputs \/ CheckPairing

Spec == Init /\ [][Next]_vars
----------------------------------------------------------------------------
(***************************************************************************)
(* Properties.                                                             *)
(***************************************************************************)

\* Types; a result exists exactly when the verifier has stopped.
TypeOK ==
  /\ pair \in Pairs
  /\ pc \in Stages
  /\ res \in {"none", "ok"} \cup Codes
  /\ pc = "done" <=> res # "none"

\* SPEC section 4: what a proof file must be.
ProofFileValid(h) ==
  /\ h.magic /\ h.major = 1 /\ h.flags = 0 /\ h.reserved = 0
  /\ h.len = PROOF_PREFIX_SIZE + 32 * h.count

\* SPEC section 6: bound to this container, and of its arity.
BoundTo(p) ==
  /\ p.zac.hasVkey /\ p.zac.hasInterface
  /\ p.proof.sameKey /\ p.proof.sameFile
  /\ p.proof.header.count = p.zac.count
  /\ p.zac.count <= MAX_PUBLIC_INPUTS

\* SPEC section 7: no identity but among the gamma_abc points.
VkeyValid(k) ==
  /\ k.read = "ok"
  /\ {k.alpha, k.beta, k.gamma, k.delta} \cap {"identity", "offCurve", "offGroup"} = {}
  /\ \A j \in DOMAIN k.ic : k.ic[j] \notin {"offCurve", "offGroup"}

ProofValid(p) ==
  /\ p.a = "good" /\ p.b = "good" /\ p.c = "good"
  /\ \A n \in DOMAIN p.inputs : p.inputs[n]

\* One input for each declared one, and a term of the key for each.
ArityValid(p) ==
  /\ Len(p.zac.vkey.ic) = p.zac.count + 1
  /\ Len(p.proof.inputs) = p.zac.count

Sound(p) ==
  /\ p.bytes => ProofFileValid(p.proof.header)
  /\ BoundTo(p) /\ VkeyValid(p.zac.vkey) /\ ProofValid(p.proof) /\ ArityValid(p)

\* The verifier accepts exactly the sound pairs whose pairing equation holds,
\* whether the proof comes from a file or from memory.
verdict == CASE res = "none" -> "pending"
             [] res = "ok"   -> "accepted"
             [] OTHER        -> "rejected"

Provable(p) == Sound(p) /\ p.pairing
Never(p)    == FALSE

Promise == INSTANCE OneVerdict WITH file <- pair, Good <- Provable,
                                    Unmeasurable <- Never

Implements == Promise!Spec

\* E017 is a verdict of the pairing equation: of a proof that comes from a
\* file it is returned only when every other check passes.
PairingFaultIsTheOnlyFault ==
  res = "E017" /\ pair.bytes => Sound(pair) /\ ~ pair.pairing

\* Nothing but a bound, well-formed proof and a key without a forbidden
\* identity gets as far as the pairing.
PairingSeesOnlySoundPoints ==
  pc = "pairing" =>
    BoundTo(pair) /\ VkeyValid(pair.zac.vkey) /\ ProofValid(pair.proof)
----------------------------------------------------------------------------
(***************************************************************************)
(* The invariant the proofs use: what the stages left behind established.  *)
(***************************************************************************)
FromPairing == {"pairing"}
FromInputs  == FromPairing \cup {"inputs"}
FromProof   == FromInputs \cup {"proof"}
FromArity   == FromProof \cup {"arity"}
FromVkey    == FromArity \cup {"vkey"}
FromBinding == FromVkey \cup {"binding"}
FromFind    == FromBinding \cup {"find"}

Beyond(stages) == pc \in stages \/ res \in {"ok", "E017"}

StartKnown   == pc = "parse" => pair.bytes
ParsedKnown  == Beyond(FromFind) /\ pair.bytes =>
                  /\ ProofFileValid(pair.proof.header)
                  /\ pair.proof.header.count <= MAX_PUBLIC_INPUTS
FoundKnown   == Beyond(FromBinding) => pair.zac.hasVkey /\ pair.zac.hasInterface
BoundKnown   == Beyond(FromVkey) => BoundTo(pair)
VkeyKnown    == Beyond(FromArity) => VkeyValid(pair.zac.vkey)
ArityKnown   == Beyond(FromProof) => Len(pair.zac.vkey.ic) = pair.zac.count + 1
ProofKnown   == Beyond(FromInputs) =>
                  pair.proof.a = "good" /\ pair.proof.b = "good" /\ pair.proof.c = "good"
InputsKnown  == Beyond(FromPairing) => ProofValid(pair.proof)
VerdictKnown == /\ res = "ok" => Provable(pair)
                /\ res \in Codes => ~ Provable(pair)
                /\ res = "E017" => ~ (ArityValid(pair) /\ pair.pairing)

Inv ==
  /\ TypeOK /\ StartKnown /\ ParsedKnown /\ FoundKnown /\ BoundKnown /\ VkeyKnown
  /\ ArityKnown /\ ProofKnown /\ InputsKnown /\ VerdictKnown
=============================================================================
