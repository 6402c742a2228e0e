-------------------------- MODULE ZacVerify_proofs --------------------------
(***************************************************************************)
(* Proofs about ZacProofFile::parse and verify(), for proofs and keys of   *)
(* every arity, from a file or from memory.                                *)
(***************************************************************************)
EXTENDS ZacVerify, TLAPS

USE MaxPublicInputsAssumption

\* What a stage before the pairing may report.
Rejections == Codes \ {"E017"}

----------------------------------------------------------------------------
(* Faults.                                                                 *)

\* The code a stage returns is that of a fault it found.
LEMMA EarliestFault ==
  ASSUME NEW S, NEW c \in Earliest(S)
  PROVE  \E x \in S : x.code = c
BY DEF Earliest

\* The parts of a pair.
LEMMA PairParts ==
  ASSUME NEW p \in Pair
  PROVE  /\ p.bytes \in BOOLEAN /\ p.pairing \in BOOLEAN
         /\ p.proof \in Proof /\ p.proof.header \in ProofHeader
         /\ p.proof.header.len \in Nat /\ p.proof.header.count \in Nat
         /\ p.proof.a \in Point /\ p.proof.b \in Point /\ p.proof.c \in Point
         /\ p.proof.inputs \in Seq(BOOLEAN)
         /\ p.zac \in Container /\ p.zac.vkey \in Vkey /\ p.zac.count \in Nat
         /\ p.zac.vkey.ic \in Seq(Decoded)
<1>1. /\ p.bytes \in BOOLEAN /\ p.pairing \in BOOLEAN
      /\ p.proof \in Proof /\ p.zac \in Container
  BY DEF Pair
<1>2. /\ p.proof.header \in ProofHeader /\ p.proof.inputs \in Seq(BOOLEAN)
      /\ p.proof.a \in Point /\ p.proof.b \in Point /\ p.proof.c \in Point
  BY <1>1 DEF Proof
<1>3. p.zac.vkey \in Vkey /\ p.zac.count \in Nat
  BY <1>1 DEF Container
<1>4. p.zac.vkey.ic \in Seq(Decoded)
  BY <1>3 DEF Vkey
<1>5. p.proof.header.len \in Nat /\ p.proof.header.count \in Nat
  BY <1>2 DEF ProofHeader
<1>. QED
  BY <1>1, <1>2, <1>3, <1>4, <1>5

----------------------------------------------------------------------------
(* Stages: what no fault shows, and what a fault refutes.                  *)

\* The parser's checks make a header valid and within the cap.
LEMMA ParseStage ==
  ASSUME NEW h \in ProofHeader
  PROVE  /\ ParseFaults(h) = {} =>
              ProofFileValid(h) /\ h.count <= MAX_PUBLIC_INPUTS
         /\ \A x \in ParseFaults(h) :
              /\ x.code \in Rejections
              /\ ~ ProofFileValid(h) \/ h.count > MAX_PUBLIC_INPUTS
<1>1. h.len \in Nat /\ h.count \in Nat /\ h.major \in Nat /\ h.flags \in Nat
      /\ h.reserved \in Nat /\ h.magic \in BOOLEAN
  BY DEF ProofHeader
<1>2. ASSUME ParseFaults(h) = {}
      PROVE  ProofFileValid(h) /\ h.count <= MAX_PUBLIC_INPUTS
  <2>1. /\ Fault(2, "E001", ~ h.magic) = {}
        /\ Fault(3, "E002", h.major # 1) = {}
        /\ Fault(4, "E003", h.flags # 0) = {}
        /\ Fault(5, "E013", h.count > MAX_PUBLIC_INPUTS) = {}
        /\ Fault(6, "E003", h.reserved # 0) = {}
        /\ Fault(7, "E015", h.len # PROOF_PREFIX_SIZE + 32 * h.count) = {}
    BY <1>2, Zenon DEF ParseFaults
  <2>2. /\ h.magic /\ h.major = 1 /\ h.flags = 0 /\ h.reserved = 0
        /\ ~ (h.count > MAX_PUBLIC_INPUTS)
        /\ h.len = PROOF_PREFIX_SIZE + 32 * h.count
    BY <2>1, Zenon DEF Fault
  <2>. QED
    BY <1>1, <2>2 DEF ProofFileValid
<1>3. ASSUME NEW x \in ParseFaults(h)
      PROVE  /\ x.code \in Rejections
             /\ ~ ProofFileValid(h) \/ h.count > MAX_PUBLIC_INPUTS
  <2>1. \/ x \in Fault(1, "E015", h.len < PROOF_PREFIX_SIZE)
        \/ x \in Fault(2, "E001", ~ h.magic)
        \/ x \in Fault(3, "E002", h.major # 1)
        \/ x \in Fault(4, "E003", h.flags # 0)
        \/ x \in Fault(5, "E013", h.count > MAX_PUBLIC_INPUTS)
        \/ x \in Fault(6, "E003", h.reserved # 0)
        \/ x \in Fault(7, "E015", h.len # PROOF_PREFIX_SIZE + 32 * h.count)
    BY Zenon DEF ParseFaults
  <2>2. /\ x.code \in {"E001", "E002", "E003", "E013", "E015"}
        /\ \/ h.len < PROOF_PREFIX_SIZE \/ ~ h.magic \/ h.major # 1
           \/ h.flags # 0 \/ h.count > MAX_PUBLIC_INPUTS \/ h.reserved # 0
           \/ h.len # PROOF_PREFIX_SIZE + 32 * h.count
    BY <1>1, <2>1 DEF Fault
  <2>3. ProofFileValid(h) => h.len >= PROOF_PREFIX_SIZE
    BY <1>1 DEF ProofFileValid, PROOF_PREFIX_SIZE
  <2>4. PROOF_PREFIX_SIZE \in Nat
    BY DEF PROOF_PREFIX_SIZE
  <2>. QED
    BY <1>1, <2>2, <2>3, <2>4 DEF ProofFileValid, Rejections, Codes
<1>. QED
  BY <1>2, <1>3

\* The sections verify() needs are there, or it says so.
LEMMA FindStage ==
  ASSUME NEW z \in Container
  PROVE  /\ FindFaults(z) = {} => z.hasVkey /\ z.hasInterface
         /\ \A x \in FindFaults(z) :
              x.code \in Rejections /\ ~ (z.hasVkey /\ z.hasInterface)
<1>1. FindFaults(z) = {} => z.hasVkey /\ z.hasInterface
  BY Zenon DEF FindFaults, Fault
<1>2. ASSUME NEW x \in FindFaults(z)
      PROVE  x.code = "E016" /\ ~ (z.hasVkey /\ z.hasInterface)
  BY DEF FindFaults, Fault, Container
<1>. QED
  BY <1>1, <1>2 DEF Rejections, Codes

\* The binding checks, the sections being there, decide BoundTo.
LEMMA BindingStage ==
  ASSUME NEW p \in Pair, p.zac.hasVkey, p.zac.hasInterface
  PROVE  /\ BindingFaults(p) = {} => BoundTo(p)
         /\ \A x \in BindingFaults(p) : x.code \in Rejections /\ ~ BoundTo(p)
<1>1. ASSUME BindingFaults(p) = {} PROVE BoundTo(p)
  <2>1. /\ p.proof.sameKey /\ p.proof.sameFile
        /\ ~ (p.proof.header.count # p.zac.count)
        /\ ~ (p.zac.count > MAX_PUBLIC_INPUTS)
    BY <1>1, Zenon DEF BindingFaults, Fault
  <2>. QED
    BY <2>1, PairParts DEF BoundTo
<1>2. ASSUME NEW x \in BindingFaults(p)
      PROVE  x.code \in Rejections /\ ~ BoundTo(p)
  <2>1. /\ x.code \in {"E014", "E009", "E013"}
        /\ \/ ~ p.proof.sameKey \/ ~ p.proof.sameFile
           \/ p.proof.header.count # p.zac.count
           \/ p.zac.count > MAX_PUBLIC_INPUTS
    BY PairParts DEF BindingFaults, Fault, Proof
  <2>. QED
    BY <2>1, PairParts DEF BoundTo, Rejections, Codes
<1>. QED
  BY <1>1, <1>2

\* A point passes the group check exactly when it is on the curve and in the
\* subgroup.
LEMMA GroupStage ==
  ASSUME NEW r, NEW point
  PROVE  /\ GroupFaults(r, point) = {} => point \notin {"offCurve", "offGroup"}
         /\ \A x \in GroupFaults(r, point) :
              x.code \in {"E010", "E011"} /\ point \in {"offCurve", "offGroup"}
<1>1. GroupFaults(r, point) = {} => point \notin {"offCurve", "offGroup"}
  BY Zenon DEF GroupFaults, Fault
<1>2. ASSUME NEW x \in GroupFaults(r, point)
      PROVE  x.code \in {"E010", "E011"} /\ point \in {"offCurve", "offGroup"}
  BY DEF GroupFaults, Fault
<1>. QED
  BY <1>1, <1>2

\* decode_vk decides VkeyValid.
LEMMA VkeyStage ==
  ASSUME NEW k \in Vkey
  PROVE  /\ VkeyFaults(k) = {} => VkeyValid(k)
         /\ \A x \in VkeyFaults(k) : x.code \in Rejections /\ ~ VkeyValid(k)
<1>. DEFINE Ic == UNION {GroupFaults(9 + j, k.ic[j]) : j \in DOMAIN k.ic}
<1>1. k.read \in {"ok", "malformed", "exhausted"}
  BY DEF Vkey
<1>2. ASSUME VkeyFaults(k) = {} PROVE VkeyValid(k)
  <2>1. /\ ReadFaults(k.read) = {}
        /\ Fault(2, "E018", k.alpha = "identity") = {}
        /\ Fault(3, "E018", k.beta = "identity") = {}
        /\ Fault(4, "E018", k.gamma = "identity") = {}
        /\ Fault(5, "E018", k.delta = "identity") = {}
        /\ GroupFaults(6, k.alpha) = {} /\ GroupFaults(7, k.beta) = {}
        /\ GroupFaults(8, k.gamma) = {} /\ GroupFaults(9, k.delta) = {}
        /\ Ic = {}
    BY <1>2, Zenon DEF VkeyFaults
  <2>2. k.read # "malformed" /\ k.read # "exhausted"
    BY <2>1, Zenon DEF ReadFaults, Fault
  <2>3. /\ k.alpha # "identity" /\ k.beta # "identity"
        /\ k.gamma # "identity" /\ k.delta # "identity"
    BY <2>1, Zenon DEF Fault
  <2>4. /\ k.alpha \notin {"offCurve", "offGroup"}
        /\ k.beta \notin {"offCurve", "offGroup"}
        /\ k.gamma \notin {"offCurve", "offGroup"}
        /\ k.delta \notin {"offCurve", "offGroup"}
    BY <2>1, GroupStage, Zenon
  <2>5. ASSUME NEW j \in DOMAIN k.ic
        PROVE  k.ic[j] \notin {"offCurve", "offGroup"}
    <3>1. GroupFaults(9 + j, k.ic[j]) = {}
      BY <2>1, Zenon
    <3>. QED
      BY <3>1, GroupStage, Zenon
  <2>. QED
    BY <1>1, <2>2, <2>3, <2>4, <2>5 DEF VkeyValid
<1>3. ASSUME NEW x \in VkeyFaults(k)
      PROVE  x.code \in Rejections /\ ~ VkeyValid(k)
  <2>1. \/ x \in ReadFaults(k.read)
        \/ x \in Fault(2, "E018", k.alpha = "identity")
        \/ x \in Fault(3, "E018", k.beta = "identity")
        \/ x \in Fault(4, "E018", k.gamma = "identity")
        \/ x \in Fault(5, "E018", k.delta = "identity")
        \/ x \in GroupFaults(6, k.alpha) \/ x \in GroupFaults(7, k.beta)
        \/ x \in GroupFaults(8, k.gamma) \/ x \in GroupFaults(9, k.delta)
        \/ x \in Ic
    BY Zenon DEF VkeyFaults
  <2>2. CASE x \in ReadFaults(k.read)
    <3>1. x.code \in {"E010", "E000"} /\ k.read \in {"malformed", "exhausted"}
      BY <2>2 DEF ReadFaults, Fault
    <3>. QED
      BY <3>1 DEF VkeyValid, Rejections, Codes
  <2>3. CASE \/ x \in Fault(2, "E018", k.alpha = "identity")
             \/ x \in Fault(3, "E018", k.beta = "identity")
             \/ x \in Fault(4, "E018", k.gamma = "identity")
             \/ x \in Fault(5, "E018", k.delta = "identity")
    <3>1. x.code = "E018" /\ (\/ k.alpha = "identity" \/ k.beta = "identity"
                              \/ k.gamma = "identity" \/ k.delta = "identity")
      BY <2>3 DEF Fault
    <3>. QED
      BY <3>1 DEF VkeyValid, Rejections, Codes
  <2>4. CASE \/ x \in GroupFaults(6, k.alpha) \/ x \in GroupFaults(7, k.beta)
             \/ x \in GroupFaults(8, k.gamma) \/ x \in GroupFaults(9, k.delta)
    <3>1. /\ x.code \in {"E010", "E011"}
          /\ \/ k.alpha \in {"offCurve", "offGroup"}
             \/ k.beta \in {"offCurve", "offGroup"}
             \/ k.gamma \in {"offCurve", "offGroup"}
             \/ k.delta \in {"offCurve", "offGroup"}
      BY <2>4, GroupStage, Zenon
    <3>. QED
      BY <3>1 DEF VkeyValid, Rejections, Codes
  <2>5. CASE x \in Ic
    <3>1. PICK j \in DOMAIN k.ic : x \in GroupFaults(9 + j, k.ic[j])
      BY <2>5, Zenon
    <3>2. x.code \in {"E010", "E011"} /\ k.ic[j] \in {"offCurve", "offGroup"}
      BY <3>1, GroupStage, Zenon
    <3>. QED
      BY <3>2 DEF VkeyValid, Rejections, Codes
  <2>. QED
    BY <2>1, <2>2, <2>3, <2>4, <2>5
<1>. QED
  BY <1>2, <1>3

\* decode_proof lets good points through and no others.
LEMMA ProofStage ==
  ASSUME NEW p \in Proof
  PROVE  /\ ProofFaults(p) = {} => p.a = "good" /\ p.b = "good" /\ p.c = "good"
         /\ \A x \in ProofFaults(p) : x.code \in Rejections /\ ~ ProofValid(p)
<1>1. ASSUME NEW r, NEW point \in Point
      PROVE  /\ PointFaults(r, point) = {} => point = "good"
             /\ \A x \in PointFaults(r, point) :
                  x.code \in {"E010", "E011", "E018"} /\ point # "good"
  <2>1. PointFaults(r, point) = {} =>
          point \notin {"malformed", "identity", "offCurve", "offGroup"}
    BY GroupStage, Zenon DEF PointFaults, Fault
  <2>2. ASSUME NEW x \in PointFaults(r, point)
        PROVE  /\ x.code \in {"E010", "E011", "E018"}
               /\ point \in {"malformed", "identity", "offCurve", "offGroup"}
    BY GroupStage DEF PointFaults, Fault
  <2>. QED
    BY <2>1, <2>2 DEF Point, Decoded
<1>2. p.a \in Point /\ p.b \in Point /\ p.c \in Point
  BY DEF Proof
<1>3. ASSUME ProofFaults(p) = {}
      PROVE  p.a = "good" /\ p.b = "good" /\ p.c = "good"
  <2>1. PointFaults(1, p.a) = {} /\ PointFaults(2, p.b) = {} /\ PointFaults(3, p.c) = {}
    BY <1>3, Zenon DEF ProofFaults
  <2>. QED
    BY <1>1, <1>2, <2>1
<1>4. ASSUME NEW x \in ProofFaults(p)
      PROVE  x.code \in Rejections /\ ~ ProofValid(p)
  <2>1. x \in PointFaults(1, p.a) \/ x \in PointFaults(2, p.b) \/ x \in PointFaults(3, p.c)
    BY Zenon DEF ProofFaults
  <2>2. x.code \in {"E010", "E011", "E018"} /\ (p.a # "good" \/ p.b # "good" \/ p.c # "good")
    BY <1>1, <1>2, <2>1, Zenon
  <2>. QED
    BY <2>2 DEF ProofValid, Rejections, Codes
<1>. QED
  BY <1>3, <1>4

\* Chunks of a file are canonical, or the first that is not is reported.
LEMMA InputStage ==
  ASSUME NEW p \in Proof
  PROVE  /\ InputFaults(p) = {} => \A n \in DOMAIN p.inputs : p.inputs[n]
         /\ \A x \in InputFaults(p) : x.code \in Rejections /\ ~ ProofValid(p)
<1>1. InputFaults(p) = {} => \A n \in DOMAIN p.inputs : p.inputs[n]
  BY Zenon DEF InputFaults, Fault
<1>2. ASSUME NEW x \in InputFaults(p)
      PROVE  x.code = "E012" /\ \E n \in DOMAIN p.inputs : ~ p.inputs[n]
  BY DEF InputFaults, Fault
<1>. QED
  BY <1>1, <1>2 DEF ProofValid, Rejections, Codes

\* The last step reports E017 or nothing, and nothing only for the right arity.
LEMMA PairingStage ==
  ASSUME NEW p \in Pair
  PROVE  /\ PairingFaults(p) = {} =>
              Len(p.zac.vkey.ic) = Len(p.proof.inputs) + 1 /\ p.pairing
         /\ \A x \in PairingFaults(p) :
              x.code = "E017" /\ ~ (ArityValid(p) /\ p.pairing)
<1>1. PairingFaults(p) = {} =>
        Len(p.zac.vkey.ic) = Len(p.proof.inputs) + 1 /\ p.pairing
  BY Zenon DEF PairingFaults, Fault
<1>2. ASSUME NEW x \in PairingFaults(p)
      PROVE  /\ x.code = "E017"
             /\ Len(p.zac.vkey.ic) # Len(p.proof.inputs) + 1 \/ ~ p.pairing
  BY PairParts DEF PairingFaults, Fault
<1>. QED
  BY <1>1, <1>2 DEF ArityValid

----------------------------------------------------------------------------
(* The invariant.                                                          *)

\* A stage that rejects a pair which is not provable keeps the invariant.
LEMMA RejectKeepsInv ==
  ASSUME Inv, pair' = pair, pc' = "done", res' \in Rejections, ~ Provable(pair)
  PROVE  Inv'
<1>1. res' \in Codes /\ res' \notin {"none", "ok", "E017"}
  BY DEF Rejections, Codes
<1>2. TypeOK'
  BY <1>1 DEF Inv, TypeOK, Stages
<1>3. ~ Beyond(FromFind)' /\ ~ Beyond(FromBinding)' /\ ~ Beyond(FromVkey)'
      /\ ~ Beyond(FromArity)' /\ ~ Beyond(FromProof)' /\ ~ Beyond(FromInputs)'
      /\ ~ Beyond(FromPairing)'
  BY <1>1 DEF Beyond, FromFind, FromBinding, FromVkey, FromArity, FromProof,
              FromInputs, FromPairing
<1>4. VerdictKnown'
  BY <1>1 DEF VerdictKnown
<1>. QED
  BY <1>2, <1>3, <1>4 DEF Inv, StartKnown, ParsedKnown, FoundKnown, BoundKnown, VkeyKnown,
                          ArityKnown, ProofKnown, InputsKnown

\* A running verifier has no result.
LEMMA NoResultYet ==
  ASSUME Inv, pc # "done"
  PROVE  res = "none" /\ pair \in Pair /\ FromBytes(pair)
BY PairsAssumption DEF Inv, TypeOK

\* The initial states satisfy the invariant: a pair from memory starts past
\* the parser and claims nothing of it.
LEMMA InitInv == Init => Inv
BY DEF Init, Inv, TypeOK, Stages, Codes, StartKnown, ParsedKnown, FoundKnown, BoundKnown,
       VkeyKnown, ArityKnown, ProofKnown, InputsKnown, VerdictKnown, Beyond,
       FromFind, FromBinding, FromVkey, FromArity, FromProof, FromInputs, FromPairing

\* The parser's step: a header that passes is valid.
LEMMA ParseStep ==
  ASSUME Inv, ParseProof
  PROVE  Inv'
<1>. DEFINE h == pair.proof.header
<1>1. pc = "parse" /\ pair' = pair /\ res = "none" /\ pair \in Pair
  BY NoResultYet DEF ParseProof, Stage
<1>2. h \in ProofHeader
  BY <1>1, PairParts
<1>3. CASE res' \in Earliest(ParseFaults(h)) /\ pc' = "done"
  <2>1. PICK x \in ParseFaults(h) : x.code = res'
    BY <1>3, EarliestFault
  <2>2. res' \in Rejections /\ (~ ProofFileValid(h) \/ h.count > MAX_PUBLIC_INPUTS)
    BY <1>2, <2>1, ParseStage
  <2>3. pair.bytes
    BY <1>1 DEF Inv, StartKnown
  <2>4. ~ Provable(pair)
    BY <1>1, <2>2, <2>3, PairParts DEF Provable, Sound, BoundTo
  <2>. QED
    BY <1>1, <1>3, <2>2, <2>4, RejectKeepsInv
<1>4. CASE ParseFaults(h) = {} /\ pc' = "find" /\ res' = res
  <2>1. ProofFileValid(h) /\ h.count <= MAX_PUBLIC_INPUTS
    BY <1>2, <1>4, ParseStage
  <2>. QED
    BY <1>1, <1>4, <2>1
    DEF Inv, TypeOK, Stages, StartKnown, ParsedKnown, FoundKnown, BoundKnown,
        VkeyKnown, ArityKnown, ProofKnown, InputsKnown, VerdictKnown, Beyond,
        FromFind, FromBinding, FromVkey, FromArity, FromProof, FromInputs,
        FromPairing, Codes
<1>. QED
  BY <1>3, <1>4 DEF ParseProof, Stage

\* Sections are found, or the step says which is missing.
LEMMA FindStep ==
  ASSUME Inv, FindSections
  PROVE  Inv'
<1>1. pc = "find" /\ pair' = pair /\ res = "none" /\ pair \in Pair
  BY NoResultYet DEF FindSections, Stage
<1>2. pair.zac \in Container
  BY <1>1, PairParts
<1>3. CASE res' \in Earliest(FindFaults(pair.zac)) /\ pc' = "done"
  <2>1. PICK x \in FindFaults(pair.zac) : x.code = res'
    BY <1>3, EarliestFault
  <2>2. res' \in Rejections /\ ~ (pair.zac.hasVkey /\ pair.zac.hasInterface)
    BY <1>2, <2>1, FindStage
  <2>3. ~ Provable(pair)
    BY <2>2 DEF Provable, Sound, BoundTo
  <2>. QED
    BY <1>1, <1>3, <2>2, <2>3, RejectKeepsInv
<1>4. CASE FindFaults(pair.zac) = {} /\ pc' = "binding" /\ res' = res
  <2>1. pair.zac.hasVkey /\ pair.zac.hasInterface
    BY <1>2, <1>4, FindStage
  <2>. QED
    BY <1>1, <1>4, <2>1
    DEF Inv, TypeOK, Stages, StartKnown, ParsedKnown, FoundKnown, BoundKnown,
        VkeyKnown, ArityKnown, ProofKnown, InputsKnown, VerdictKnown, Beyond,
        FromFind, FromBinding, FromVkey, FromArity, FromProof, FromInputs,
        FromPairing, Codes
<1>. QED
  BY <1>3, <1>4 DEF FindSections, Stage

\* The binding checks pass exactly the bound pairs.
LEMMA BindingStep ==
  ASSUME Inv, CheckBinding
  PROVE  Inv'
<1>1. pc = "binding" /\ pair' = pair /\ res = "none" /\ pair \in Pair
  BY NoResultYet DEF CheckBinding, Stage
<1>2. pair \in Pair /\ pair.zac.hasVkey /\ pair.zac.hasInterface
  BY <1>1, PairParts DEF Inv, FoundKnown, Beyond, FromBinding
<1>3. CASE res' \in Earliest(BindingFaults(pair)) /\ pc' = "done"
  <2>1. PICK x \in BindingFaults(pair) : x.code = res'
    BY <1>3, EarliestFault
  <2>2. res' \in Rejections /\ ~ BoundTo(pair)
    BY <1>2, <2>1, BindingStage
  <2>3. ~ Provable(pair)
    BY <2>2 DEF Provable, Sound
  <2>. QED
    BY <1>1, <1>3, <2>2, <2>3, RejectKeepsInv
<1>4. CASE BindingFaults(pair) = {} /\ pc' = "vkey" /\ res' = res
  <2>1. BoundTo(pair)
    BY <1>2, <1>4, BindingStage
  <2>. QED
    BY <1>1, <1>4, <2>1
    DEF Inv, TypeOK, Stages, StartKnown, ParsedKnown, FoundKnown, BoundKnown,
        VkeyKnown, ArityKnown, ProofKnown, InputsKnown, VerdictKnown, Beyond,
        FromFind, FromBinding, FromVkey, FromArity, FromProof, FromInputs,
        FromPairing, Codes
<1>. QED
  BY <1>3, <1>4 DEF CheckBinding, Stage

\* The key is decoded.
LEMMA VkeyStep ==
  ASSUME Inv, DecodeVkey
  PROVE  Inv'
<1>1. pc = "vkey" /\ pair' = pair /\ res = "none" /\ pair \in Pair
  BY NoResultYet DEF DecodeVkey, Stage
<1>2. pair.zac.vkey \in Vkey
  BY <1>1, PairParts
<1>3. CASE res' \in Earliest(VkeyFaults(pair.zac.vkey)) /\ pc' = "done"
  <2>1. PICK x \in VkeyFaults(pair.zac.vkey) : x.code = res'
    BY <1>3, EarliestFault
  <2>2. res' \in Rejections /\ ~ VkeyValid(pair.zac.vkey)
    BY <1>2, <2>1, VkeyStage
  <2>3. ~ Provable(pair)
    BY <2>2 DEF Provable, Sound
  <2>. QED
    BY <1>1, <1>3, <2>2, <2>3, RejectKeepsInv
<1>4. CASE VkeyFaults(pair.zac.vkey) = {} /\ pc' = "arity" /\ res' = res
  <2>1. VkeyValid(pair.zac.vkey)
    BY <1>2, <1>4, VkeyStage
  <2>. QED
    BY <1>1, <1>4, <2>1
    DEF Inv, TypeOK, Stages, StartKnown, ParsedKnown, FoundKnown, BoundKnown,
        VkeyKnown, ArityKnown, ProofKnown, InputsKnown, VerdictKnown, Beyond,
        FromFind, FromBinding, FromVkey, FromArity, FromProof, FromInputs,
        FromPairing, Codes
<1>. QED
  BY <1>3, <1>4 DEF DecodeVkey, Stage

\* A key of the wrong arity is reported, and only such a key.
LEMMA ArityStage ==
  ASSUME NEW p \in Pair
  PROVE  /\ ArityFaults(p.zac) = {} => Len(p.zac.vkey.ic) = p.zac.count + 1
         /\ \A x \in ArityFaults(p.zac) : x.code \in Rejections /\ ~ ArityValid(p)
<1>1. ArityFaults(p.zac) = {} => Len(p.zac.vkey.ic) = p.zac.count + 1
  BY Zenon DEF ArityFaults, Fault
<1>2. ASSUME NEW x \in ArityFaults(p.zac)
      PROVE  x.code = "E013" /\ Len(p.zac.vkey.ic) # p.zac.count + 1
  BY DEF ArityFaults, Fault
<1>. QED
  BY <1>1, <1>2 DEF ArityValid, Rejections, Codes

\* The key has a term for each declared input.
LEMMA ArityStep ==
  ASSUME Inv, CheckArity
  PROVE  Inv'
<1>1. pc = "arity" /\ pair' = pair /\ res = "none" /\ pair \in Pair
  BY NoResultYet DEF CheckArity, Stage
<1>2. pair \in Pair
  BY <1>1, PairParts
<1>3. CASE res' \in Earliest(ArityFaults(pair.zac)) /\ pc' = "done"
  <2>1. PICK x \in ArityFaults(pair.zac) : x.code = res'
    BY <1>3, EarliestFault
  <2>2. res' \in Rejections /\ ~ ArityValid(pair)
    BY <1>2, <2>1, ArityStage
  <2>3. ~ Provable(pair)
    BY <2>2 DEF Provable, Sound
  <2>. QED
    BY <1>1, <1>3, <2>2, <2>3, RejectKeepsInv
<1>4. CASE ArityFaults(pair.zac) = {} /\ pc' = "proof" /\ res' = res
  <2>1. Len(pair.zac.vkey.ic) = pair.zac.count + 1
    BY <1>2, <1>4, ArityStage
  <2>. QED
    BY <1>1, <1>4, <2>1
    DEF Inv, TypeOK, Stages, StartKnown, ParsedKnown, FoundKnown, BoundKnown,
        VkeyKnown, ArityKnown, ProofKnown, InputsKnown, VerdictKnown, Beyond,
        FromFind, FromBinding, FromVkey, FromArity, FromProof, FromInputs,
        FromPairing, Codes
<1>. QED
  BY <1>3, <1>4 DEF CheckArity, Stage

\* The three points of the proof are good.
LEMMA ProofStep ==
  ASSUME Inv, DecodeProof
  PROVE  Inv'
<1>1. pc = "proof" /\ pair' = pair /\ res = "none" /\ pair \in Pair
  BY NoResultYet DEF DecodeProof, Stage
<1>2. pair.proof \in Proof
  BY <1>1, PairParts
<1>3. CASE res' \in Earliest(ProofFaults(pair.proof)) /\ pc' = "done"
  <2>1. PICK x \in ProofFaults(pair.proof) : x.code = res'
    BY <1>3, EarliestFault
  <2>2. res' \in Rejections /\ ~ ProofValid(pair.proof)
    BY <1>2, <2>1, ProofStage
  <2>3. ~ Provable(pair)
    BY <2>2 DEF Provable, Sound
  <2>. QED
    BY <1>1, <1>3, <2>2, <2>3, RejectKeepsInv
<1>4. CASE ProofFaults(pair.proof) = {} /\ pc' = "inputs" /\ res' = res
  <2>1. pair.proof.a = "good" /\ pair.proof.b = "good" /\ pair.proof.c = "good"
    BY <1>2, <1>4, ProofStage
  <2>. QED
    BY <1>1, <1>4, <2>1
    DEF Inv, TypeOK, Stages, StartKnown, ParsedKnown, FoundKnown, BoundKnown,
        VkeyKnown, ArityKnown, ProofKnown, InputsKnown, VerdictKnown, Beyond,
        FromFind, FromBinding, FromVkey, FromArity, FromProof, FromInputs,
        FromPairing, Codes
<1>. QED
  BY <1>3, <1>4 DEF DecodeProof, Stage

\* The inputs are canonical.
LEMMA InputsStep ==
  ASSUME Inv, DecodeInputs
  PROVE  Inv'
<1>1. pc = "inputs" /\ pair' = pair /\ res = "none" /\ pair \in Pair
  BY NoResultYet DEF DecodeInputs, Stage
<1>2. pair.proof \in Proof
  BY <1>1, PairParts
<1>3. CASE res' \in Earliest(InputFaults(pair.proof)) /\ pc' = "done"
  <2>1. PICK x \in InputFaults(pair.proof) : x.code = res'
    BY <1>3, EarliestFault
  <2>2. res' \in Rejections /\ ~ ProofValid(pair.proof)
    BY <1>2, <2>1, InputStage
  <2>3. ~ Provable(pair)
    BY <2>2 DEF Provable, Sound
  <2>. QED
    BY <1>1, <1>3, <2>2, <2>3, RejectKeepsInv
<1>4. CASE InputFaults(pair.proof) = {} /\ pc' = "pairing" /\ res' = res
  <2>1. \A n \in DOMAIN pair.proof.inputs : pair.proof.inputs[n]
    BY <1>2, <1>4, InputStage
  <2>. QED
    BY <1>1, <1>4, <2>1
    DEF Inv, TypeOK, Stages, StartKnown, ParsedKnown, FoundKnown, BoundKnown,
        VkeyKnown, ArityKnown, ProofKnown, InputsKnown, VerdictKnown, Beyond, ProofValid,
        FromFind, FromBinding, FromVkey, FromArity, FromProof, FromInputs,
        FromPairing, Codes
<1>. QED
  BY <1>3, <1>4 DEF DecodeInputs, Stage

\* The last step: a verdict of the pairing, and the arity it needs.
LEMMA PairingStep ==
  ASSUME Inv, CheckPairing
  PROVE  Inv'
<1>1. pc = "pairing" /\ pair' = pair /\ pc' = "done" /\ res = "none"
      /\ pair \in Pair /\ FromBytes(pair)
  BY NoResultYet DEF CheckPairing
<1>2. /\ pair.bytes => /\ ProofFileValid(pair.proof.header)
                       /\ pair.proof.header.count <= MAX_PUBLIC_INPUTS
      /\ BoundTo(pair) /\ VkeyValid(pair.zac.vkey)
      /\ Len(pair.zac.vkey.ic) = pair.zac.count + 1
      /\ ProofValid(pair.proof)
  BY <1>1 DEF Inv, ParsedKnown, BoundKnown, VkeyKnown, ArityKnown, InputsKnown,
              Beyond, FromFind, FromBinding, FromVkey, FromArity, FromProof,
              FromInputs, FromPairing
<1>3. CASE PairingFaults(pair) = {}
  <2>1. res' = "ok"
    BY <1>3 DEF CheckPairing
  <2>2. Len(pair.zac.vkey.ic) = Len(pair.proof.inputs) + 1 /\ pair.pairing
    BY <1>1, <1>3, PairingStage
  <2>3. Len(pair.proof.inputs) = pair.zac.count
    BY <1>1, <1>2, <2>2, PairParts
  <2>4. Provable(pair)
    BY <1>2, <2>2, <2>3 DEF Provable, Sound, ArityValid
  <2>. QED
    BY <1>1, <1>2, <2>1, <2>4
    DEF Inv, TypeOK, StartKnown, ParsedKnown, FoundKnown, BoundKnown, VkeyKnown,
        ArityKnown, ProofKnown, InputsKnown, VerdictKnown, ProofValid, BoundTo,
        Stages, Codes
<1>4. CASE PairingFaults(pair) # {}
  <2>1. res' \in Earliest(PairingFaults(pair))
    BY <1>4 DEF CheckPairing
  <2>2. PICK x \in PairingFaults(pair) : x.code = res'
    BY <2>1, EarliestFault
  <2>3. res' = "E017" /\ ~ (ArityValid(pair) /\ pair.pairing)
    BY <1>1, <2>2, PairingStage
  <2>4. ~ Provable(pair)
    BY <2>3 DEF Provable, Sound
  <2>. QED
    BY <1>1, <1>2, <2>3, <2>4
    DEF Inv, TypeOK, StartKnown, ParsedKnown, FoundKnown, BoundKnown, VkeyKnown,
        ArityKnown, ProofKnown, InputsKnown, VerdictKnown, ProofValid, BoundTo,
        Stages, Codes
<1>. QED
  BY <1>3, <1>4

\* Every step keeps the invariant.
LEMMA NextInv == Inv /\ [Next]_vars => Inv'
<1>. SUFFICES ASSUME Inv, [Next]_vars PROVE Inv'
  OBVIOUS
<1>1. CASE UNCHANGED vars
  BY <1>1 DEF vars, Inv, TypeOK, StartKnown, ParsedKnown, FoundKnown, BoundKnown,
              VkeyKnown, ArityKnown, ProofKnown, InputsKnown, VerdictKnown, Beyond
<1>. QED
  BY <1>1, ParseStep, FindStep, BindingStep, VkeyStep, ArityStep, ProofStep,
     InputsStep, PairingStep DEF Next

----------------------------------------------------------------------------
(* Theorems.                                                               *)

\* What each stage leaves established holds throughout every run.
THEOREM VerifierInvariant == Spec => []Inv
BY InitInv, NextInv, PTL DEF Spec

\* The types of the variables.
THEOREM TypeCorrect == Spec => []TypeOK
<1>1. Inv => TypeOK
  BY DEF Inv
<1>. QED
  BY <1>1, VerifierInvariant, PTL

\* Only bound pairs of sound points reach the pairing.
THEOREM OnlySoundPointsArePaired == Spec => []PairingSeesOnlySoundPoints
<1>1. Inv => PairingSeesOnlySoundPoints
  BY DEF Inv, PairingSeesOnlySoundPoints, BoundKnown, VkeyKnown, InputsKnown,
         Beyond, FromVkey, FromArity, FromProof, FromInputs, FromPairing
<1>. QED
  BY <1>1, VerifierInvariant, PTL

\* E017 says that the pairing equation fails and nothing else, of a file.
THEOREM E017IsThePairing == Spec => []PairingFaultIsTheOnlyFault
<1>1. ASSUME Inv, res = "E017", pair.bytes
      PROVE  Sound(pair) /\ ~ pair.pairing
  <2>1. pair \in Pair /\ FromBytes(pair)
    BY <1>1, PairsAssumption DEF Inv, TypeOK
  <2>2. /\ ProofFileValid(pair.proof.header) /\ BoundTo(pair)
        /\ VkeyValid(pair.zac.vkey) /\ ProofValid(pair.proof)
        /\ Len(pair.zac.vkey.ic) = pair.zac.count + 1
        /\ ~ (ArityValid(pair) /\ pair.pairing)
    BY <1>1 DEF Inv, ParsedKnown, BoundKnown, VkeyKnown, InputsKnown, ArityKnown,
                VerdictKnown, Beyond
  <2>3. Len(pair.proof.inputs) = pair.zac.count
    BY <1>1, <2>1, <2>2 DEF FromBytes, ProofFileValid, BoundTo
  <2>. QED
    BY <2>2, <2>3 DEF Sound, ArityValid
<1>2. Inv => PairingFaultIsTheOnlyFault
  BY <1>1 DEF PairingFaultIsTheOnlyFault
<1>. QED
  BY <1>2, VerifierInvariant, PTL

\* A run ends once, and never changes the pair.
LEMMA OneResult ==
  ASSUME Inv, [Next]_vars
  PROVE  pair' = pair /\ (res' = res \/ res = "none")
<1>1. CASE UNCHANGED vars
  BY <1>1 DEF vars
<1>2. CASE Next
  <2>1. pc # "done" /\ pair' = pair
    BY <1>2 DEF Next, ParseProof, FindSections, CheckBinding, DecodeVkey,
       CheckArity, DecodeProof, DecodeInputs, CheckPairing, Stage
  <2>. QED
    BY <2>1 DEF Inv, TypeOK
<1>. QED
  BY <1>1, <1>2

\* The verifier implements its promise: it accepts a pair if and only if the
\* pair is sound and the pairing equation holds, and it never panics.
THEOREM VerifierKeepsItsPromise == Spec => Implements
<1>1. Init => Promise!Init
  BY DEF Init, Promise!Init, verdict
<1>2. ASSUME Inv, Inv', [Next]_vars
      PROVE  [Promise!Next]_<<pair, verdict>>
  <2>1. pair' = pair /\ (res' = res \/ res = "none")
    BY <1>2, OneResult
  <2>2. CASE res' = res
    BY <2>1, <2>2 DEF verdict
  <2>3. CASE res = "none" /\ res' # "none"
    <3>1. verdict = "pending"
      BY <2>3 DEF verdict
    <3>2. CASE res' = "ok"
      <4>1. Provable(pair)' /\ verdict' = "accepted"
        BY <1>2, <3>2 DEF Inv, VerdictKnown, verdict
      <4>2. Provable(pair)
        BY <2>1, <4>1
      <4>. QED
        BY <2>1, <3>1, <4>1, <4>2 DEF Promise!Next, Promise!Accept
    <3>3. CASE res' \in Codes
      <4>1. ~ Provable(pair)' /\ verdict' = "rejected"
        BY <1>2, <3>3 DEF Inv, VerdictKnown, verdict, Codes
      <4>2. ~ Provable(pair)
        BY <2>1, <4>1
      <4>. QED
        BY <2>1, <3>1, <4>1, <4>2 DEF Promise!Next, Promise!Reject
    <3>. QED
      BY <1>2, <2>3, <3>2, <3>3 DEF Inv, TypeOK
  <2>. QED
    BY <2>1, <2>2, <2>3
<1>. QED
  BY <1>1, <1>2, VerifierInvariant, PTL DEF Spec, Implements, Promise!Spec
=============================================================================
