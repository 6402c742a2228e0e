---------------------------- MODULE MCZacVerify ----------------------------
(***************************************************************************)
(* Pairs for TLC: sound ones of every arity up to the cap, spoiled in one  *)
(* place and in two.                                                       *)
(***************************************************************************)
EXTENDS ZacVerify

Times(n, x) == [k \in 1 .. n |-> x]

Good(n, bytes, pairing) ==
  [bytes   |-> bytes,
   proof   |-> [header |-> [len |-> PROOF_PREFIX_SIZE + 32 * n, magic |-> TRUE,
                            major |-> 1, flags |-> 0, count |-> n,
                            reserved |-> 0],
                sameKey |-> TRUE, sameFile |-> TRUE,
                a |-> "good", b |-> "good", c |-> "good",
                inputs |-> Times(n, TRUE)],
   zac     |-> [hasVkey |-> TRUE, hasInterface |-> TRUE, count |-> n,
                vkey |-> [read |-> "ok", alpha |-> "good", beta |-> "good",
                          gamma |-> "good", delta |-> "good",
                          ic |-> Times(n + 1, "good")]],
   pairing |-> pairing]

Bases == {Good(n, bytes, pairing) :
            n \in 0 .. MAX_PUBLIC_INPUTS + 1, bytes, pairing \in BOOLEAN}

\* A header that counts n inputs, in a file of as many.
Recount(p, n) ==
  [p EXCEPT !.proof.header.count = n,
            !.proof.header.len = PROOF_PREFIX_SIZE + 32 * n,
            !.proof.inputs = Times(n, TRUE)]

HeaderDefects(p) ==
  {[p EXCEPT !.proof.header.magic = FALSE], [p EXCEPT !.proof.header.major = 2],
   [p EXCEPT !.proof.header.flags = 1], [p EXCEPT !.proof.header.reserved = 1]}
    \cup {[p EXCEPT !.proof.header.len = n] :
            n \in {0, 207, p.proof.header.len + 1, p.proof.header.len + 32}}
    \cup {Recount(p, n) : n \in 0 .. MAX_PUBLIC_INPUTS + 1}

BindingDefects(p) ==
  {[p EXCEPT !.proof.sameKey = FALSE], [p EXCEPT !.proof.sameFile = FALSE],
   [p EXCEPT !.zac.count = @ + 1]}
    \cup (IF p.bytes THEN {} ELSE {[p EXCEPT !.zac.hasVkey = FALSE],
                                   [p EXCEPT !.zac.hasInterface = FALSE],
                                   [p EXCEPT !.proof.inputs = Append(@, TRUE)]})

VkeyDefects(p) ==
  {[p EXCEPT !.zac.vkey.read = r] : r \in {"malformed", "exhausted"}}
    \cup {[p EXCEPT !.zac.vkey.alpha = x] : x \in Decoded}
    \cup {[p EXCEPT !.zac.vkey.beta = x] : x \in Decoded}
    \cup {[p EXCEPT !.zac.vkey.gamma = x] : x \in Decoded}
    \cup {[p EXCEPT !.zac.vkey.delta = x] : x \in Decoded}
    \cup {[p EXCEPT !.zac.vkey.ic[j] = x] :
            j \in {1, Len(p.zac.vkey.ic)}, x \in Decoded}
    \cup {[p EXCEPT !.zac.vkey.ic = Times(n, "good")] : n \in 0 .. 3}

ProofDefects(p) ==
  {[p EXCEPT !.proof.a = x] : x \in Point}
    \cup {[p EXCEPT !.proof.b = x] : x \in Point}
    \cup {[p EXCEPT !.proof.c = x] : x \in Point}
    \cup {[p EXCEPT !.proof.inputs[n] = FALSE] : n \in DOMAIN p.proof.inputs}

Defects(p) == HeaderDefects(p) \cup BindingDefects(p)
                \cup VkeyDefects(p) \cup ProofDefects(p)

\* A second defect, in another part.
Twice(p) ==
  UNION {BindingDefects(q) \cup ProofDefects(q)
           \cup {[q EXCEPT !.zac.vkey.gamma = x] : x \in Decoded} :
         q \in Defects(p)}

Candidates == Bases \cup UNION {Defects(p) : p \in Bases}
                \cup Twice(Good(1, TRUE, FALSE)) \cup Twice(Good(2, FALSE, TRUE))

\* The comprehension makes TLC build the set once.
MCPairs == {p : p \in {q \in Candidates : FromBytes(q)}}
----------------------------------------------------------------------------
(***************************************************************************)
(* What the repository's texts say of the verifier and the code does not   *)
(* do.                                                                     *)
(***************************************************************************)

\* SPEC section 10: an input that runs out inside an element is E015.
ExhaustionIsE015 ==
  res = "E000" => pair.zac.vkey.read # "exhausted"
=============================================================================
