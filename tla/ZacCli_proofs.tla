---------------------------- MODULE ZacCli_proofs ----------------------------
(***************************************************************************)
(* Proofs about the runs of the command line on shared files.              *)
(***************************************************************************)
EXTENDS ZacCli, SequenceTheorems, TLAPS

----------------------------------------------------------------------------
(***************************************************************************)
(* Data: keys, artifacts, blocks and files.                                *)
(***************************************************************************)

LEMMA KeyHasBlocks ==
  ASSUME NEW a \in Artifacts
  PROVE  /\ a.key \in Keys /\ Blocks[a.key] \in Nat /\ Blocks[a.key] > 0
         /\ a # NoArt
<1>1. a.key \in Keys
  BY DEF Artifacts, Containers, Proofs
<1>2. Blocks[a.key] \in Nat \ {0}
  BY <1>1, BlocksAssumption
<1>3. a.kind # "none"
  BY DEF Artifacts, Containers, Proofs
<1>4. QED BY <1>1, <1>2, <1>3 DEF NoArt

\* A block of an artifact is not a hole.
LEMMA BlockIsNoHole ==
  ASSUME NEW a, NEW n
  PROVE  [of |-> a, n |-> n] # Hole
<1>1. "of" \in DOMAIN [of |-> a, n |-> n]
  OBVIOUS
<1>2. "of" \notin DOMAIN Hole
  BY DEF Hole
<1>3. QED BY <1>1, <1>2

LEMMA BlockIsNotAbsent ==
  ASSUME NEW a, NEW n
  PROVE  [of |-> a, n |-> n] # [n |-> "absent"]
<1>1. "of" \in DOMAIN [of |-> a, n |-> n]
  OBVIOUS
<1>2. "of" \notin DOMAIN [n |-> "absent"]
  OBVIOUS
<1>3. QED BY <1>1, <1>2

LEMMA BlockEqual ==
  ASSUME NEW a, NEW b, NEW m, NEW n, [of |-> a, n |-> m] = [of |-> b, n |-> n]
  PROVE  a = b /\ m = n
<1>1. [of |-> a, n |-> m].of = [of |-> b, n |-> n].of
  OBVIOUS
<1>2. [of |-> a, n |-> m].n = [of |-> b, n |-> n].n
  OBVIOUS
<1>3. QED BY <1>1, <1>2

LEMMA BlockTyped ==
  ASSUME NEW a \in Artifacts, NEW n \in Nat
  PROVE  [of |-> a, n |-> n] \in Block
BY DEF Block

\* The whole of an artifact is a file, and shows which artifact it is.
LEMMA WholeProperties ==
  ASSUME NEW a \in Artifacts
  PROVE  /\ Len(Whole(a)) = Blocks[a.key]
         /\ Whole(a)[1] = [of |-> a, n |-> 1]
         /\ 1 \in 1 .. Len(Whole(a))
<1>1. Blocks[a.key] \in Nat /\ Blocks[a.key] > 0
  BY KeyHasBlocks
<1>2. DOMAIN Whole(a) = 1 .. Blocks[a.key]
  BY DEF Whole
<1>3. Whole(a) \in Seq({[of |-> a, n |-> n] : n \in Nat})
  BY <1>1 DEF Whole
<1>4. Len(Whole(a)) = Blocks[a.key]
  BY <1>1, <1>2, <1>3, LenProperties
<1>5. QED BY <1>1, <1>4 DEF Whole

LEMMA ContainerOfWhole ==
  ASSUME NEW a \in Artifacts
  PROVE  Container(Whole(a)) = a
<1>1. Whole(a)[1].of = [of |-> a, n |-> 1].of
  BY WholeProperties
<1>2. QED BY <1>1 DEF Container

LEMMA ContainersAreArtifacts == Containers \subseteq Artifacts
BY DEF Artifacts

----------------------------------------------------------------------------
(***************************************************************************)
(* Files: what Put and Append make, and when blocks stay accounted for.    *)
(***************************************************************************)

LEMMA PutProperties ==
  ASSUME NEW d \in Seq(Block), NEW n \in Nat \ {0}, NEW b \in Block
  PROVE  /\ Put(d, n, b) \in Seq(Block)
         /\ Len(Put(d, n, b)) = IF n > Len(d) THEN n ELSE Len(d)
         /\ \A k \in 1 .. Len(Put(d, n, b)) :
              Put(d, n, b)[k] = IF k = n THEN b
                                ELSE IF k > Len(d) THEN Hole ELSE d[k]
<1> DEFINE L == IF n > Len(d) THEN n ELSE Len(d)
<1>1. L \in Nat
  BY LenProperties
<1>2. \A k \in 1 .. L : Put(d, n, b)[k] = IF k = n THEN b
                          ELSE IF k > Len(d) THEN Hole ELSE d[k]
  BY DEF Put
<1>3. \A k \in 1 .. L : Put(d, n, b)[k] \in Block
  <2> TAKE k \in 1 .. L
  <2>1. CASE k = n
    BY <1>2, <2>1
  <2>2. CASE k # n /\ k > Len(d)
    BY <1>2, <2>2 DEF Block
  <2>3. CASE k # n /\ ~ k > Len(d)
    BY <1>2, <2>3, ElementOfSeq, LenProperties
  <2>4. QED BY <2>1, <2>2, <2>3
<1>4. Put(d, n, b) = [k \in 1 .. L |-> Put(d, n, b)[k]]
  BY DEF Put
<1>5. Put(d, n, b) \in [1 .. L -> Block]
  BY <1>3, <1>4
<1>6. Put(d, n, b) \in Seq(Block)
  BY <1>1, <1>5, SeqDef
<1>7. DOMAIN Put(d, n, b) = 1 .. L
  BY <1>5
<1>8. Len(Put(d, n, b)) = L
  BY <1>1, <1>6, <1>7, LenProperties
<1>9. QED BY <1>2, <1>6, <1>8

\* Blocks stay accounted for as more artifacts are made.
LEMMA MadeOfMonotone ==
  ASSUME NEW d, NEW S, NEW T, S \subseteq T, MadeOf(d, S)
  PROVE  MadeOf(d, T)
BY DEF MadeOf

LEMMA PutMadeOf ==
  ASSUME NEW d \in Seq(Block), NEW S, NEW a \in S \cap Artifacts, MadeOf(d, S),
         NEW n \in 1 .. Blocks[a.key]
  PROVE  MadeOf(Put(d, n, [of |-> a, n |-> n]), S)
<1>0. Blocks[a.key] \in Nat
  BY KeyHasBlocks
<1>1. n \in Nat \ {0}
  BY <1>0
<1>2. [of |-> a, n |-> n] \in Block
  BY <1>1, BlockTyped
<1> DEFINE e == Put(d, n, [of |-> a, n |-> n])
<1>3. /\ Len(e) = IF n > Len(d) THEN n ELSE Len(d)
      /\ \A k \in 1 .. Len(e) :
              e[k] = IF k = n THEN [of |-> a, n |-> n]
                                ELSE IF k > Len(d) THEN Hole ELSE d[k]
  BY <1>1, <1>2, PutProperties, ZenonT(40)
<1> HIDE DEF e
<1>4. SUFFICES ASSUME NEW k \in 1 .. Len(e), e[k] # Hole
               PROVE  \E c \in S : k <= Blocks[c.key] /\ e[k] = [of |-> c, n |-> k]
  BY DEF MadeOf, e
<1>5. CASE k = n
  <2>1. k <= Blocks[a.key] /\ e[k] = [of |-> a, n |-> k]
    BY <1>0, <1>3, <1>5
  <2>2. QED BY <2>1
<1>6. CASE k # n
  <2>1. ~ k > Len(d) /\ e[k] = d[k]
    BY <1>3, <1>4, <1>6
  <2>2. k \in 1 .. Len(d)
    BY <1>1, <1>3, <2>1, LenProperties
  <2>3. QED BY <1>4, <2>1, <2>2 DEF MadeOf
<1>7. QED BY <1>5, <1>6

LEMMA AppendMadeOf ==
  ASSUME NEW d \in Seq(Block), NEW f \in Seq(Block), NEW S,
         MadeOf(d, S), MadeOf(f, S), Len(d) < Len(f)
  PROVE  /\ Append(d, f[Len(d) + 1]) \in Seq(Block)
         /\ MadeOf(Append(d, f[Len(d) + 1]), S)
<1>1. Len(d) \in Nat /\ Len(f) \in Nat
  BY LenProperties
<1>2. Len(d) + 1 \in 1 .. Len(f)
  BY <1>1
<1>3. f[Len(d) + 1] \in Block
  BY <1>2, ElementOfSeq
<1> DEFINE e == Append(d, f[Len(d) + 1])
<1>4. /\ e \in Seq(Block)
      /\ Len(e) = Len(d) + 1
      /\ \A i \in 1 .. Len(d) : e[i] = d[i]
      /\ e[Len(d) + 1] = f[Len(d) + 1]
  BY <1>3, AppendProperties
<1> HIDE DEF e
<1>5. SUFFICES ASSUME NEW k \in 1 .. Len(e), e[k] # Hole
               PROVE  \E c \in S : k <= Blocks[c.key] /\ e[k] = [of |-> c, n |-> k]
  BY <1>4 DEF MadeOf, e
<1>6. CASE k = Len(d) + 1
  BY <1>2, <1>4, <1>5, <1>6 DEF MadeOf
<1>7. CASE k # Len(d) + 1
  <2>1. k \in 1 .. Len(d)
    BY <1>1, <1>4, <1>7
  <2>2. QED BY <1>4, <1>5, <2>1, ZenonT(40) DEF MadeOf
<1>8. QED BY <1>6, <1>7
----------------------------------------------------------------------------
(***************************************************************************)
(* What the invariant says of one run, and when a step leaves it alone.    *)
(***************************************************************************)

LEMMA JobTypes ==
  ASSUME Typed
  PROVE  /\ job \in [Runs -> JobType]
         /\ Runs \subseteq Procs
         /\ Writers \subseteq Runs
         /\ \A p \in Runs : Output(p) \in Paths
         /\ \A p \in Writers : /\ Output(p) = "zac" <=> job[p].cmd = "pack"
                               /\ Output(p) = "zacp" <=> job[p].cmd = "prove"
<1>1. job \in [Runs -> JobType] /\ Runs \subseteq Procs
  BY TasksAssumption DEF Typed, Runs
<1>2. \A p \in Runs : Output(p) \in Paths
  BY DEF Output, Paths
<1>3. QED BY <1>1, <1>2 DEF Writers, Output

\* A run that a step does not touch keeps its artifact, its place and its code.
LEMMA ArtifactFrame ==
  ASSUME NEW q, Artifact(q), job' = job,
         pc'[q] = pc[q], got'[q] = got[q], out'[q] = out[q],
         pos'[q] = pos[q], exit'[q] = exit[q]
  PROVE  Artifact(q)'
BY DEF Artifact, Opened, Writers, Runs, InOutput, MadeProofs

\* A run that is still going has no code.
LEMMA AliveHasNoCode ==
  ASSUME NEW p, Artifact(p), Alive(p)
  PROVE  exit[p] = Running
BY DEF Artifact, Alive

LEMMA MadeIsStable ==
  ASSUME job' = job,
         \A q \in Writers : out[q] # NoArt => out'[q] = out[q]
  PROVE  \A path \in Paths : Made(path) \subseteq Made(path)'
<1> SUFFICES ASSUME NEW path \in Paths, NEW a \in Made(path)
             PROVE  a \in Made(path)'
  OBVIOUS
<1>1. PICK q \in Writers : Output(q) = path /\ out[q] = a
  BY DEF Made
<1>2. a \in Artifacts /\ out[q] # NoArt
  BY <1>1, KeyHasBlocks DEF Made
<1>3. q \in Writers' /\ Output(q)' = path /\ out'[q] = a
  BY <1>1, <1>2 DEF Writers, Runs, Output
<1>4. QED BY <1>2, <1>3 DEF Made

\* A reader's verdict stands while its memory and its code do.
LEMMA VerdictsStable ==
  ASSUME Verdicts, job' = job, got' = got,
         \A q \in Runs : exit'[q] = 0 => exit[q] = 0
  PROVE  Verdicts'
BY DEF Verdicts, Passed, Runs

----------------------------------------------------------------------------
(***************************************************************************)
(* Steps that move a run on, or end it, and touch neither files nor        *)
(* memory: the end of a file, every error, every verdict, a kill.          *)
(***************************************************************************)

LEMMA QuietStep ==
  ASSUME Inv, NEW p \in Runs, Alive(p),
         NEW place \in Places, NEW code \in {0, 2, 3, Running},
         UNCHANGED <<job, fs, got, out, pos>>,
         pc' = [pc EXCEPT ![p] = place], exit' = [exit EXCEPT ![p] = code],
         place = "exited" <=> code # Running,
         \/ place \in {"exited", "killed"}
         \/ /\ place \in {"readZacp", "decide"}
            /\ pc[p] \in {"readZac", "readZacp"},
         code = 0 =>
           /\ p \in Writers => pc[p] = "report"
           /\ job[p].cmd = "verify" =>
                Accepts(got[p]["zac"], got[p]["zacp"])
           /\ job[p].cmd = "inspect" /\ job[p].target = "zac" =>
                ParsesZac(got[p]["zac"])
  PROVE  Inv'
<1> USE DEF Inv
<1>1. Artifact(p) /\ exit[p] = Running /\ Running # 0
  BY AliveHasNoCode DEF Running
<1>2. /\ pc'[p] = place /\ exit'[p] = code
      /\ \A q \in Runs \ {p} : pc'[q] = pc[q] /\ exit'[q] = exit[q]
  BY DEF Typed
<1>3. Typed'
  BY DEF Typed, Runs
<1>4. \A q \in Runs' : Artifact(q)'
  <2>1. SUFFICES ASSUME NEW q \in Runs PROVE Artifact(q)'
    BY DEF Runs
  <2>2. CASE q # p
    BY <1>2, <2>2, ArtifactFrame
  <2>3. CASE q = p
    BY <1>1, <1>2, <2>3
    DEF Artifact, Opened, InOutput, Writers, Runs, MadeProofs, Places
  <2>4. QED BY <2>2, <2>3
<1>5. Provenance'
  BY ZenonT(40) DEF Provenance, Made, Writers, Runs, Output
<1>6. Verdicts'
  BY <1>1, <1>2 DEF Verdicts, Passed, Runs
<1>7. Creators'
  <2>1. \A q \in Runs : Opened(q)' => Opened(q)
    BY <1>1, <1>2 DEF Opened, InOutput, Writers, Runs
  <2>2. QED
    BY <2>1 DEF Creators, Unforced, Written, Output, Writers, Runs
<1>8. QED BY <1>3, <1>4, <1>5, <1>6, <1>7
----------------------------------------------------------------------------
(***************************************************************************)
(* Reading.                                                                *)
(***************************************************************************)

LEMMA ReadBlockStep ==
  ASSUME Inv, NEW p \in Runs, NEW path \in Paths,
         pc[p] \in {"readZac", "readZacp"},
         fs[path] # Absent, Len(got[p][path]) < Len(fs[path]),
         got' = [got EXCEPT ![p][path] =
                   Append(@, fs[path][Len(got[p][path]) + 1])],
         UNCHANGED <<job, fs, pc, out, pos, exit>>
  PROVE  Inv'
<1> USE DEF Inv
<1> DEFINE d == Append(got[p][path], fs[path][Len(got[p][path]) + 1])
<1>1. Artifact(p) /\ out[p] = NoArt /\ exit[p] = Running /\ Running # 0
  BY DEF Artifact, Running
<1>2. d \in Seq(Block) /\ MadeOf(d, Made(path))
  <2>1. got[p][path] \in Seq(Block) /\ fs[path] \in Seq(Block)
    BY DEF Typed
  <2>2. MadeOf(got[p][path], Made(path)) /\ MadeOf(fs[path], Made(path))
    BY DEF Provenance
  <2>3. QED BY <2>1, <2>2, AppendMadeOf
<1>3. /\ got'[p][path] = d
      /\ \A other \in Paths \ {path} : got'[p][other] = got[p][other]
      /\ \A q \in Runs \ {p} : got'[q] = got[q]
  BY DEF Typed
<1> HIDE DEF d
<1>4. got' \in [Runs -> [Paths -> Seq(Block)]]
  <2>1. got' = [got EXCEPT ![p] = [got[p] EXCEPT ![path] = d]]
    BY DEF Typed, d
  <2>2. [got[p] EXCEPT ![path] = d] \in [Paths -> Seq(Block)]
    BY <1>2 DEF Typed
  <2>3. QED BY <2>1, <2>2 DEF Typed
<1>5. Typed'
  BY <1>4 DEF Typed, Runs
<1>6. \A q \in Runs' : Artifact(q)'
  <2>1. SUFFICES ASSUME NEW q \in Runs PROVE Artifact(q)'
    BY DEF Runs
  <2>2. CASE q # p
    BY <1>3, <2>2, ArtifactFrame
  <2>3. CASE q = p
    BY <1>1, <2>3 DEF Artifact, Opened, InOutput, Writers, Runs
  <2>4. QED BY <2>2, <2>3
<1>7. Provenance'
  <2>1. \A where \in Paths : Made(where)' = Made(where)
    BY DEF Made, Writers, Runs, Output
  <2>2. \A where \in Paths, q \in Runs : MadeOf(got'[q][where], Made(where))
    BY <1>2, <1>3 DEF Provenance
  <2>3. QED BY <2>1, <2>2 DEF Provenance, Runs
<1>8. Verdicts'
  <2>1. \A q \in Runs : exit'[q] = 0 => got'[q] = got[q]
    BY <1>1, <1>3
  <2>2. QED BY <2>1 DEF Verdicts, Passed, Runs
<1>9. Creators'
  BY DEF Creators, Opened, InOutput, Unforced, Written, Output, Writers, Runs
<1>10. QED BY <1>5, <1>6, <1>7, <1>8, <1>9

LEMMA ReadStep ==
  ASSUME Inv, NEW p \in Runs, NEW path \in Paths,
         NEW next \in {"readZacp", "decide"},
         pc[p] \in {"readZac", "readZacp"}, Read(p, path, next)
  PROVE  Inv'
<1>0. Alive(p) /\ exit[p] = Running /\ Artifact(p)
  BY AliveHasNoCode DEF Alive, Inv
<1>1. exit = [exit EXCEPT ![p] = Running]
  BY <1>0 DEF Inv, Typed
<1>2. CASE /\ fs[path] # Absent /\ Len(got[p][path]) < Len(fs[path])
           /\ got' = [got EXCEPT ![p][path] =
                        Append(@, fs[path][Len(got[p][path]) + 1])]
           /\ UNCHANGED <<job, fs, pc, out, pos, exit>>
  BY <1>2, ReadBlockStep
<1>3. CASE Goto(p, next) /\ UNCHANGED <<job, fs, got, out, pos, exit>>
  <2>1. exit' = [exit EXCEPT ![p] = Running]
    BY <1>1, <1>3
  <2>2. next \in Places /\ Running \in {0, 2, 3, Running} /\ Running # 0
    BY DEF Places, Running
  <2>3. pc' = [pc EXCEPT ![p] = next]
    BY <1>3 DEF Goto
  <2>4. next = "exited" <=> Running # Running
    OBVIOUS
  <2>5. UNCHANGED <<job, fs, got, out, pos>>
    BY <1>3
  <2>6. QED BY <1>0, <2>1, <2>2, <2>3, <2>4, <2>5, QuietStep
<1>4. CASE Exit(p, 3) /\ UNCHANGED <<job, fs, got, out, pos>>
  <2>1. /\ pc' = [pc EXCEPT ![p] = "exited"] /\ exit' = [exit EXCEPT ![p] = 3]
        /\ UNCHANGED <<job, fs, got, out, pos>>
    BY <1>4 DEF Exit, Goto
  <2>2. "exited" \in Places /\ 3 # Running /\ 3 # 0
    BY DEF Places, Running
  <2>3. QED BY <1>0, <2>1, <2>2, QuietStep
<1>5. QED BY <1>2, <1>3, <1>4 DEF Read

----------------------------------------------------------------------------
(***************************************************************************)
(* Exits and kills.                                                        *)
(***************************************************************************)

LEMMA RefuseStep ==
  ASSUME Inv, NEW p \in Runs, Alive(p), NEW code \in {0, 2, 3}, Refuse(p, code),
         code = 0 =>
           /\ p \in Writers => pc[p] = "report"
           /\ job[p].cmd = "verify" =>
                Accepts(got[p]["zac"], got[p]["zacp"])
           /\ job[p].cmd = "inspect" /\ job[p].target = "zac" =>
                ParsesZac(got[p]["zac"])
  PROVE  Inv'
<1>1. /\ pc' = [pc EXCEPT ![p] = "exited"] /\ exit' = [exit EXCEPT ![p] = code]
      /\ UNCHANGED <<job, fs, got, out, pos>>
  BY DEF Refuse, Exit, Goto
<1>2. "exited" \in Places /\ code # Running /\ code \in {0, 2, 3, Running}
  BY DEF Places, Running
<1>3. QED BY <1>1, <1>2, QuietStep

LEMMA KillStep ==
  ASSUME Inv, NEW p \in Runs, Kill(p)
  PROVE  Inv'
<1>0. Alive(p) /\ exit[p] = Running
  BY AliveHasNoCode DEF Kill, Inv
<1>1. pc' = [pc EXCEPT ![p] = "killed"] /\ exit' = [exit EXCEPT ![p] = Running]
  BY <1>0 DEF Kill, Goto, Inv, Typed
<1>2. UNCHANGED <<job, fs, got, out, pos>>
  BY DEF Kill
<1>3. /\ "killed" \in Places /\ Running \in {0, 2, 3, Running} /\ Running # 0
      /\ "killed" = "exited" <=> Running # Running
  BY DEF Places, Running
<1>4. QED BY <1>0, <1>1, <1>2, <1>3, QuietStep
----------------------------------------------------------------------------
(***************************************************************************)
(* Building an artifact.                                                   *)
(***************************************************************************)

LEMMA BuildStep ==
  ASSUME Inv, NEW p \in Writers, pc[p] = "decide", NEW a \in Artifacts,
         job[p].cmd = "pack" =>
            a = [kind |-> "zac", key |-> job[p].key, names |-> job[p].names],
         job[p].cmd = "prove" =>
            ParsesZac(got[p]["zac"]) /\ a \in MadeProofs(p, got[p]["zac"]),
         Build(p, a)
  PROVE  Inv'
<1> USE DEF Inv
<1>0. p \in Runs
  BY JobTypes
<1>1. Artifact(p) /\ out[p] = NoArt /\ pos[p] = 0 /\ exit[p] = Running
        /\ Running # 0
  <2>1. Artifact(p)
    BY <1>0
  <2>2. exit[p] = Running
    BY <2>1, AliveHasNoCode DEF Alive
  <2>3. out[p] = NoArt /\ pos[p] = 0
    BY <2>1 DEF Artifact
  <2>4. QED BY <2>1, <2>2, <2>3 DEF Running
<1>2. /\ pc' = [pc EXCEPT ![p] = "open"] /\ out' = [out EXCEPT ![p] = a]
      /\ UNCHANGED <<job, fs, got, pos, exit>>
  BY DEF Build, Goto
<1>3. /\ pc'[p] = "open" /\ out'[p] = a
      /\ \A q \in Runs \ {p} : pc'[q] = pc[q] /\ out'[q] = out[q]
  BY <1>0, <1>2 DEF Typed
<1>4. Typed'
  <2>1. "open" \in Places
    BY DEF Places
  <2>2. QED BY <1>0, <1>2, <2>1 DEF Typed, Runs
<1>5. \A q \in Runs' : Artifact(q)'
  <2>1. SUFFICES ASSUME NEW q \in Runs PROVE Artifact(q)'
    BY <1>2 DEF Runs
  <2>2. CASE q # p
    BY <1>2, <1>3, <2>2, ArtifactFrame
  <2>3. CASE q = p
    <3>1. a # NoArt
      BY KeyHasBlocks
    <3>2. QED
      BY <1>1, <1>2, <1>3, <2>3, <3>1
      DEF Artifact, Opened, InOutput, Writers, Runs, MadeProofs
  <2>4. QED BY <2>2, <2>3
<1>6. Provenance'
  <2>1. \A q \in Writers : out[q] # NoArt => out'[q] = out[q]
    BY <1>1, <1>3, JobTypes
  <2>2. \A path \in Paths : Made(path) \subseteq Made(path)'
    BY <1>2, <2>1, MadeIsStable
  <2>3. SUFFICES ASSUME NEW path \in Paths
                 PROVE  /\ fs[path] # Absent => MadeOf(fs[path], Made(path)')
                        /\ \A q \in Runs : MadeOf(got[q][path], Made(path)')
    BY <1>2 DEF Provenance, Runs
  <2>4. fs[path] # Absent => MadeOf(fs[path], Made(path)')
    BY <2>2, MadeOfMonotone DEF Provenance
  <2>5. \A q \in Runs : MadeOf(got[q][path], Made(path)')
    BY <2>2, MadeOfMonotone DEF Provenance
  <2>6. QED BY <2>4, <2>5
<1>7. Verdicts'
  BY <1>2, VerdictsStable
<1>8. Creators'
  <2>1. \A q \in Runs : Opened(q)' => Opened(q) /\ q # p /\ out'[q] = out[q]
    BY <1>1, <1>2, <1>3 DEF Opened, InOutput, Writers, Runs
  <2>2. QED
    BY <1>2, <2>1 DEF Creators, Unforced, Written, Output, Writers, Runs
<1>9. QED BY <1>4, <1>5, <1>6, <1>7, <1>8

----------------------------------------------------------------------------
(***************************************************************************)
(* Opening a file.                                                         *)
(***************************************************************************)

LEMMA EmptyFile ==
  /\ << >> \in Seq(Block) /\ << >> # Absent
  /\ \A S : MadeOf(<< >>, S)
  /\ \A a : [n \in 1 .. 0 |-> [of |-> a, n |-> n]] = << >>
<1>1. << >> \in Seq(Block) /\ << >> # Absent
  BY DEF Absent
<1>2. \A S : MadeOf(<< >>, S)
  BY DEF MadeOf
<1>3. \A a : [n \in 1 .. 0 |-> [of |-> a, n |-> n]] = << >>
  OBVIOUS
<1>4. QED BY <1>1, <1>2, <1>3

LEMMA OpenStep ==
  ASSUME Inv, NEW p \in Runs, pc[p] = "open",
         job[p].force \/ fs[Output(p)] = Absent,
         fs' = [fs EXCEPT ![Output(p)] = << >>],
         Goto(p, "write"), UNCHANGED <<job, got, out, pos, exit>>
  PROVE  Inv'
<1> USE DEF Inv
<1>1. Artifact(p) /\ out[p] # NoArt /\ pos[p] = 0 /\ p \in Writers
  BY DEF Artifact
<1>2. /\ pc'[p] = "write"
      /\ \A q \in Runs \ {p} : pc'[q] = pc[q]
  BY DEF Typed, Goto
<1>3. /\ fs'[Output(p)] = << >>
      /\ \A path \in Paths \ {Output(p)} : fs'[path] = fs[path]
  BY JobTypes DEF Typed
<1>4. Typed'
  <2>1. pc' \in [Runs -> Places]
    BY DEF Typed, Goto, Places
  <2>2. fs' \in [Paths -> {Absent} \cup Seq(Block)]
    BY EmptyFile DEF Typed
  <2>3. QED BY <2>1, <2>2 DEF Typed, Runs
<1>5. \A q \in Runs' : Artifact(q)'
  <2>1. SUFFICES ASSUME NEW q \in Runs PROVE Artifact(q)'
    BY DEF Runs
  <2>2. CASE q # p
    BY <1>2, <2>2, ArtifactFrame
  <2>3. CASE q = p
    <3>1. out[p] \in Artifacts
      BY <1>1 DEF Typed
    <3>2. 0 < Blocks[out[p].key]
      BY <3>1, KeyHasBlocks
    <3>3. exit[p] = Running /\ Running # 0
      BY <1>1, AliveHasNoCode DEF Alive, Running
    <3>4. QED
      BY <1>1, <1>2, <2>3, <3>2, <3>3
      DEF Artifact, Opened, InOutput, Writers, Runs, MadeProofs
  <2>4. QED BY <2>2, <2>3
<1>6. Provenance'
  <2>1. \A path \in Paths : Made(path)' = Made(path)
    BY DEF Made, Writers, Runs, Output
  <2>2. \A path \in Paths :
          fs'[path] # Absent => MadeOf(fs'[path], Made(path))
    BY <1>3, EmptyFile DEF Provenance
  <2>3. QED BY <2>1, <2>2 DEF Provenance, Runs
<1>7. Verdicts'
  BY VerdictsStable
<1>8. Creators'
  <2>1. \A q \in Runs \ {p} : Opened(q)' => Opened(q)
    BY <1>2 DEF Opened, InOutput, Writers, Runs
  <2>2. \A q \in Runs \ {p} :
          Unforced(Output(p)) /\ Opened(q)' => Output(q) # Output(p)
    BY <1>1, <2>1 DEF Creators, Unforced
  <2>3. SUFFICES ASSUME NEW q \in Runs, Opened(q)'
                 PROVE  /\ fs'[Output(q)] # Absent
                        /\ Unforced(Output(q)) =>
                             /\ fs'[Output(q)] = Written(q)'
                             /\ \A r \in Runs :
                                  Opened(r)' /\ Output(r) = Output(q) => r = q
    BY DEF Creators, Runs, Unforced, Output, Writers
  <2>4. fs'[Output(q)] # Absent
    BY <1>3, <2>1, <2>3, EmptyFile, JobTypes DEF Creators
  <2>5. ASSUME Unforced(Output(q))
        PROVE  /\ fs'[Output(q)] = Written(q)'
               /\ \A r \in Runs :
                    Opened(r)' /\ Output(r) = Output(q) => r = q
    <3>1. CASE q = p
      BY <1>1, <1>3, <2>2, <2>5, <3>1, EmptyFile DEF Written
    <3>2. CASE q # p
      <4>1. Opened(q) /\ Output(q) # Output(p)
        BY <2>1, <2>2, <2>3, <2>5, <3>2
      <4>2. fs'[Output(q)] = fs[Output(q)] /\ fs[Output(q)] = Written(q)
        BY <1>3, <2>5, <4>1, JobTypes DEF Creators
      <4>3. Written(q)' = Written(q)
        BY DEF Written
      <4>4. \A r \in Runs : Opened(r)' /\ Output(r) = Output(q) => r = q
        BY <2>1, <2>5, <4>1 DEF Creators
      <4>5. QED BY <4>2, <4>3, <4>4
    <3>3. QED BY <3>1, <3>2
  <2>6. QED BY <2>4, <2>5
<1>9. QED BY <1>4, <1>5, <1>6, <1>7, <1>8
----------------------------------------------------------------------------
(***************************************************************************)
(* Writing a block.                                                        *)
(***************************************************************************)

\* The next block of an artifact, put behind the ones before it.
LEMMA PutNext ==
  ASSUME NEW a \in Artifacts, NEW k \in Nat, NEW d, NEW e,
         d = [n \in 1 .. k |-> [of |-> a, n |-> n]],
         e = [n \in 1 .. k + 1 |-> [of |-> a, n |-> n]]
  PROVE  Put(d, k + 1, [of |-> a, n |-> k + 1]) = e
<1> DEFINE b == [of |-> a, n |-> k + 1]
<1>1. d \in Seq(Block)
  <2>1. \A n \in 1 .. k : d[n] \in Block
    BY BlockTyped
  <2>2. d \in [1 .. k -> Block]
    BY <2>1
  <2>3. QED BY <2>2, SeqDef
<1>2. Len(d) = k
  BY <1>1, LenProperties
<1>3. Put(d, k + 1, b) =
        [n \in 1 .. k + 1 |->
           IF n = k + 1 THEN b ELSE IF n > k THEN Hole ELSE d[n]]
  BY <1>2 DEF Put
<1>4. \A n \in 1 .. k + 1 :
        (IF n = k + 1 THEN b ELSE IF n > k THEN Hole ELSE d[n])
          = [of |-> a, n |-> n]
  OBVIOUS
<1>5. QED BY <1>3, <1>4

\* A file with a block in it is there.
LEMMA PutIsThere ==
  ASSUME NEW d \in Seq(Block), NEW a \in Artifacts, NEW n \in Nat \ {0},
         NEW m \in Nat
  PROVE  Put(d, n, [of |-> a, n |-> m]) # Absent
<1> DEFINE b == [of |-> a, n |-> m]
           e == Put(d, n, b)
<1>0. b \in Block
  BY BlockTyped
<1> HIDE DEF b
<1>1. /\ Len(e) = IF n > Len(d) THEN n ELSE Len(d)
      /\ n \in 1 .. Len(e) => e[n] = b
  <2>1. /\ Len(e) = IF n > Len(d) THEN n ELSE Len(d)
        /\ \A k \in 1 .. Len(e) : e[k] = IF k = n THEN b
                                        ELSE IF k > Len(d) THEN Hole ELSE d[k]
    BY <1>0, PutProperties, ZenonT(40)
  <2>2. QED BY <2>1
<1>2. n \in 1 .. Len(e)
  BY <1>1, LenProperties
<1> HIDE DEF e
<1>3. SUFFICES ASSUME e = Absent PROVE FALSE
  BY DEF e, b
<1>4. Len(e) = 1 /\ e[1] = [n |-> "absent"]
  BY <1>3 DEF Absent
<1>5. n = 1
  BY <1>2, <1>4
<1>6. QED BY <1>1, <1>2, <1>4, <1>5, BlockIsNotAbsent DEF b

LEMMA WriteBlockStep ==
  ASSUME Inv, NEW p \in Runs, pc[p] = "write",
         fs' = [fs EXCEPT ![Output(p)] =
                  Put(@, pos[p] + 1, [of |-> out[p], n |-> pos[p] + 1])],
         pos' = [pos EXCEPT ![p] = @ + 1],
         Goto(p, IF pos[p] + 1 = Blocks[out[p].key] THEN "report" ELSE "write"),
         UNCHANGED <<job, got, out, exit>>
  PROVE  Inv'
<1> USE DEF Inv
<1> DEFINE d == fs[Output(p)]
           b == [of |-> out[p], n |-> pos[p] + 1]
           e == Put(d, pos[p] + 1, b)
<1>1. /\ Artifact(p) /\ out[p] \in Artifacts /\ p \in Writers
      /\ pos[p] \in Nat /\ Blocks[out[p].key] \in Nat
      /\ pos[p] < Blocks[out[p].key]
      /\ Output(p) \in Paths
  <2>1. Artifact(p) /\ out[p] # NoArt /\ pos[p] < Blocks[out[p].key]
    BY DEF Artifact
  <2>2. p \in Writers
    BY <2>1 DEF Artifact
  <2>3. out[p] \in Artifacts /\ pos[p] \in Nat
    BY <2>1 DEF Typed
  <2>4. Blocks[out[p].key] \in Nat
    BY <2>3, KeyHasBlocks
  <2>5. QED BY <2>1, <2>2, <2>3, <2>4, JobTypes
<1>2. Opened(p) /\ d # Absent /\ d \in Seq(Block)
  <2>1. Opened(p)
    BY <1>1 DEF Opened, InOutput
  <2>2. d # Absent
    BY <2>1 DEF Creators
  <2>3. QED BY <1>1, <2>1, <2>2 DEF Typed
<1>3. e \in Seq(Block) /\ e # Absent
  <2>1. b \in Block /\ pos[p] + 1 \in Nat \ {0}
    BY <1>1, BlockTyped
  <2>2. e \in Seq(Block)
    BY <1>2, <2>1, PutProperties
  <2>3. e # Absent
    BY <1>1, <1>2, <2>1, PutIsThere
  <2>4. QED BY <2>2, <2>3
<1>4. MadeOf(e, Made(Output(p)))
  <2>1. out[p] \in Made(Output(p)) \cap Artifacts
    BY <1>1 DEF Made
  <2>2. pos[p] + 1 \in 1 .. Blocks[out[p].key]
    BY <1>1
  <2>3. MadeOf(d, Made(Output(p)))
    BY <1>1, <1>2 DEF Provenance
  <2>4. QED BY <1>2, <2>1, <2>2, <2>3, PutMadeOf
<1>5. /\ fs'[Output(p)] = e
      /\ \A path \in Paths \ {Output(p)} : fs'[path] = fs[path]
  BY <1>1 DEF Typed
<1>6. d = Written(p) => e = Written(p)'
  <2>1. Written(p)' = [n \in 1 .. pos[p] + 1 |-> [of |-> out[p], n |-> n]]
    BY DEF Written, Typed
  <2>2. Written(p) = [n \in 1 .. pos[p] |-> [of |-> out[p], n |-> n]]
    BY DEF Written
  <2>3. out[p] \in Artifacts /\ pos[p] \in Nat
    BY <1>1
  <2>4. \A f, g : /\ f = [n \in 1 .. pos[p] |-> [of |-> out[p], n |-> n]]
                  /\ g = [n \in 1 .. pos[p] + 1 |-> [of |-> out[p], n |-> n]]
                  => Put(f, pos[p] + 1, [of |-> out[p], n |-> pos[p] + 1]) = g
    BY <2>3, PutNext, Zenon
  <2>5. Put(Written(p), pos[p] + 1, b) = Written(p)'
    BY <2>1, <2>2, <2>4, Zenon
  <2>6. QED BY <2>5
<1>7. /\ pos'[p] = pos[p] + 1
      /\ pc'[p] = IF pos[p] + 1 = Blocks[out[p].key] THEN "report" ELSE "write"
      /\ \A q \in Runs \ {p} : pc'[q] = pc[q] /\ pos'[q] = pos[q]
  BY DEF Typed, Goto
<1>8. fs' = [fs EXCEPT ![Output(p)] = e]
  BY <1>1 DEF Typed
<1> HIDE DEF d, b, e
<1>9. Typed'
  <2>1. pc' \in [Runs -> Places]
    BY DEF Typed, Goto, Places
  <2>2. fs' \in [Paths -> {Absent} \cup Seq(Block)]
    BY <1>3, <1>8 DEF Typed
  <2>3. pos' \in [Runs -> Nat]
    BY DEF Typed
  <2>4. QED BY <2>1, <2>2, <2>3 DEF Typed, Runs
<1>10. \A q \in Runs' : Artifact(q)'
  <2>1. SUFFICES ASSUME NEW q \in Runs PROVE Artifact(q)'
    BY DEF Runs
  <2>2. CASE q # p
    BY <1>7, <2>2, ArtifactFrame
  <2>3. CASE q = p
    <3>1. exit[p] = Running /\ Running # 0
      BY <1>1, AliveHasNoCode DEF Alive, Running
    <3>2. /\ pc'[p] = "write" => pos'[p] < Blocks[out[p].key]
          /\ pc'[p] = "report" => pos'[p] = Blocks[out[p].key]
          /\ pc'[p] \in {"write", "report"}
      BY <1>1, <1>7
    <3>3. QED
      BY <1>1, <2>3, <3>1, <3>2
      DEF Artifact, Opened, InOutput, Writers, Runs, MadeProofs
  <2>4. QED BY <2>2, <2>3
<1>11. Provenance'
  <2>1. \A path \in Paths : Made(path)' = Made(path)
    BY DEF Made, Writers, Runs, Output
  <2>2. \A path \in Paths :
          fs'[path] # Absent => MadeOf(fs'[path], Made(path))
    BY <1>4, <1>5 DEF Provenance
  <2>3. QED BY <2>1, <2>2 DEF Provenance, Runs
<1>12. Verdicts'
  BY VerdictsStable
<1>13. Creators'
  <2>1. \A q \in Runs : Opened(q)' => Opened(q)
    BY <1>2, <1>7 DEF Opened, InOutput, Writers, Runs
  <2>2. SUFFICES ASSUME NEW q \in Runs, Opened(q)
                 PROVE  /\ fs'[Output(q)] # Absent
                        /\ Unforced(Output(q)) => fs'[Output(q)] = Written(q)'
    BY <2>1 DEF Creators, Runs, Unforced, Output, Writers
  <2>3. fs'[Output(q)] # Absent
    BY <1>3, <1>5, <2>2, JobTypes DEF Creators
  <2>4. ASSUME Unforced(Output(q)) PROVE fs'[Output(q)] = Written(q)'
    <3>1. fs[Output(q)] = Written(q)
      BY <2>2, <2>4 DEF Creators
    <3>2. CASE q = p
      BY <1>5, <1>6, <3>1, <3>2 DEF d
    <3>3. CASE q # p
      <4>1. Output(p) # Output(q)
        BY <1>2, <2>2, <2>4, <3>3 DEF Creators
      <4>2. fs'[Output(q)] = fs[Output(q)]
        BY <1>5, <4>1, JobTypes
      <4>3. Written(q)' = Written(q)
        BY <1>7, <3>3 DEF Written
      <4>4. QED BY <3>1, <4>2, <4>3
    <3>4. QED BY <3>2, <3>3
  <2>5. QED BY <2>3, <2>4
<1>14. QED BY <1>9, <1>10, <1>11, <1>12, <1>13
----------------------------------------------------------------------------
(***************************************************************************)
(* Every step keeps the invariant.                                         *)
(***************************************************************************)

LEMMA PackStep ==
  ASSUME Inv, NEW p \in Runs, Pack(p)
  PROVE  Inv'
<1>1. p \in Writers /\ pc[p] = "decide" /\ Alive(p)
  BY DEF Pack, Writers, Alive
<1>2. job[p].key \in Keys /\ job[p].names \in Names
  BY JobTypes DEF Inv, JobType
<1> DEFINE a == [kind |-> "zac", key |-> job[p].key, names |-> job[p].names]
<1>3. CASE Build(p, a)
  <2>1. a \in Artifacts
    BY <1>2 DEF Artifacts, Containers
  <2>2. job[p].cmd # "prove"
    BY DEF Pack
  <2>3. QED BY <1>1, <1>3, <2>1, <2>2, BuildStep
<1>4. CASE Refuse(p, 3)
  BY <1>1, <1>4, RefuseStep
<1>5. QED BY <1>3, <1>4 DEF Pack

\* A parsed container is the whole of one artifact.
LEMMA ParsedContainer ==
  ASSUME NEW d, ParsesZac(d)
  PROVE  Container(d) \in Containers /\ d = Whole(Container(d))
<1>1. PICK a \in Containers : d = Whole(a)
  BY DEF ParsesZac
<1>2. Container(Whole(a)) = a
  BY ContainerOfWhole, ContainersAreArtifacts
<1>3. QED BY <1>1, <1>2

LEMMA ProveStep ==
  ASSUME Inv, NEW p \in Runs, Prove(p)
  PROVE  Inv'
<1>1. /\ p \in Writers /\ pc[p] = "decide" /\ Alive(p)
      /\ job[p].cmd # "pack"
  BY DEF Prove, Writers, Alive
<1>2. CASE Refuse(p, 3)
  BY <1>1, <1>2, RefuseStep
<1>3. CASE Refuse(p, 2)
  BY <1>1, <1>3, RefuseStep
<1>4. ASSUME ParsesZac(got[p]["zac"]),
             NEW proof \in MadeProofs(p, got[p]["zac"]), Build(p, proof)
      PROVE  Inv'
  <2>1. proof \in Artifacts
    <3>1. Container(got[p]["zac"]).names \in Names
      BY <1>4, ParsedContainer DEF Containers
    <3>2. /\ job[p].key \in Keys /\ job[p].seed \in Seeds
          /\ job[p].sat \in BOOLEAN
      BY JobTypes DEF Inv, JobType
    <3>3. proof = [kind |-> "zacp", key |-> job[p].key,
                   names |-> Container(got[p]["zac"]).names,
                   seed |-> job[p].seed, sat |-> job[p].sat]
      BY <1>4 DEF MadeProofs
    <3>4. proof \in Proofs
      BY <3>1, <3>2, <3>3, Zenon DEF Proofs
    <3>5. QED BY <3>4 DEF Artifacts
  <2>2. QED BY <1>1, <1>4, <2>1, BuildStep
<1>5. QED BY <1>2, <1>3, <1>4 DEF Prove

LEMMA VerifyStep ==
  ASSUME Inv, NEW p \in Runs, Verify(p)
  PROVE  Inv'
<1>1. Alive(p) /\ p \notin Writers /\ job[p].cmd # "inspect"
  BY DEF Verify, Writers, Alive
<1>2. CASE Accepts(got[p]["zac"], got[p]["zacp"])
  BY <1>1, <1>2, RefuseStep DEF Verify
<1>3. CASE ~ Accepts(got[p]["zac"], got[p]["zacp"])
  BY <1>1, <1>3, RefuseStep DEF Verify
<1>4. QED BY <1>2, <1>3

LEMMA InspectStep ==
  ASSUME Inv, NEW p \in Runs, Inspect(p)
  PROVE  Inv'
<1>1. Alive(p) /\ p \notin Writers /\ job[p].cmd # "verify"
  BY DEF Inspect, Writers, Alive
<1> DEFINE parses == IF job[p].target = "zac"
                     THEN ParsesZac(got[p][job[p].target])
                     ELSE ParsesZacp(got[p][job[p].target])
<1>2. CASE parses
  BY <1>1, <1>2, RefuseStep DEF Inspect
<1>3. CASE ~ parses
  BY <1>1, <1>3, RefuseStep DEF Inspect
<1>4. QED BY <1>2, <1>3

LEMMA ReportStep ==
  ASSUME Inv, NEW p \in Runs, Report(p)
  PROVE  Inv'
<1>1. Alive(p) /\ pc[p] = "report"
  BY DEF Report, Alive
<1>2. p \in Writers
  BY <1>1 DEF Inv, Artifact
<1>3. job[p].cmd # "verify" /\ job[p].cmd # "inspect"
  BY <1>2 DEF Writers
<1>4. QED BY <1>1, <1>3, RefuseStep DEF Report

LEMMA RunStep ==
  ASSUME Inv, NEW p \in Runs, Run(p)
  PROVE  Inv'
<1>1. CASE ReadZac(p)
  <2>1. AfterZac(p) \in {"readZacp", "decide"}
    BY DEF AfterZac
  <2>2. QED BY <1>1, <2>1, ReadStep DEF ReadZac, Paths
<1>2. CASE ReadZacp(p)
  BY <1>2, ReadStep DEF ReadZacp, Paths
<1>3. CASE Pack(p)
  BY <1>3, PackStep
<1>4. CASE Prove(p)
  BY <1>4, ProveStep
<1>5. CASE Verify(p)
  BY <1>5, VerifyStep
<1>6. CASE Inspect(p)
  BY <1>6, InspectStep
<1>7. CASE Open(p)
  <2>1. pc[p] = "open" /\ Alive(p)
    BY <1>7 DEF Open, Alive
  <2>2. CASE Refuse(p, 3)
    BY <2>1, <2>2, RefuseStep
  <2>3. QED BY <1>7, <2>1, <2>2, OpenStep DEF Open
<1>8. CASE Write(p)
  <2>1. pc[p] = "write" /\ Alive(p)
    BY <1>8 DEF Write, Alive
  <2>2. CASE Refuse(p, 3)
    BY <2>1, <2>2, RefuseStep
  <2>3. QED BY <1>8, <2>1, <2>2, WriteBlockStep DEF Write
<1>9. CASE Report(p)
  BY <1>9, ReportStep
<1>10. QED
  BY <1>1, <1>2, <1>3, <1>4, <1>5, <1>6, <1>7, <1>8, <1>9 DEF Run

LEMMA StutterStep ==
  ASSUME Inv, UNCHANGED vars
  PROVE  Inv'
<1> USE DEF Inv, vars
<1>1. Typed'
  BY DEF Typed, Runs
<1>2. \A q \in Runs' : Artifact(q)'
  BY ArtifactFrame DEF Runs
<1>3. Provenance'
  BY ZenonT(40) DEF Provenance, Made, Writers, Runs, Output
<1>4. Verdicts'
  BY VerdictsStable
<1>5. Creators'
  BY DEF Creators, Opened, InOutput, Unforced, Written, Output, Writers, Runs
<1>6. QED BY <1>1, <1>2, <1>3, <1>4, <1>5

LEMMA InitInv == Init => Inv
<1> SUFFICES ASSUME Init PROVE Inv
  OBVIOUS
<1>1. job \in [Runs -> JobType]
  BY TasksAssumption DEF Init, Runs
<1>2. \A p \in Runs : FirstPlace(job[p]) \in {"readZac", "readZacp", "decide"}
  BY DEF FirstPlace
<1>3. Typed
  <2>1. fs \in [Paths -> {Absent} \cup Seq(Block)]
    BY DEF Init
  <2>2. pc \in [Runs -> Places]
    BY <1>2 DEF Init, Places
  <2>3. got \in [Runs -> [Paths -> Seq(Block)]]
    BY EmptyFile DEF Init
  <2>4. out \in [Runs -> {NoArt} \cup Artifacts] /\ pos \in [Runs -> Nat]
    BY DEF Init
  <2>5. exit \in [Runs -> {0, 2, 3, Running}]
    BY DEF Init
  <2>6. QED BY <2>1, <2>2, <2>3, <2>4, <2>5 DEF Init, Typed
<1>4. /\ \A p \in Runs : /\ pc[p] \in {"readZac", "readZacp", "decide"}
                         /\ out[p] = NoArt /\ pos[p] = 0 /\ exit[p] = Running
      /\ Running # 0
  BY <1>2 DEF Init, Running
<1>5. \A p \in Runs : Artifact(p)
  BY <1>4 DEF Artifact, Opened, InOutput
<1>6. Provenance
  BY EmptyFile DEF Init, Provenance
<1>7. Verdicts
  BY <1>4 DEF Verdicts, Passed
<1>8. Creators
  BY <1>4 DEF Creators, Opened, InOutput
<1>9. QED BY <1>3, <1>5, <1>6, <1>7, <1>8 DEF Inv

LEMMA NextInv == Inv /\ [Next]_vars => Inv'
BY RunStep, KillStep, StutterStep DEF Next

\* What is accounted for holds in every state, however runs interleave, fail
\* and are killed: each block in a file or in memory is at its own place in an
\* artifact that a run made for that path, each artifact is the one its job
\* and its input determine, and a file that nobody forces has one creator.
THEOREM InvTheorem == Spec => []Inv
BY InitInv, NextInv, PTL DEF Spec
----------------------------------------------------------------------------
(***************************************************************************)
(* What the invariant says of files, containers and proofs.                *)
(***************************************************************************)

LEMMA MadeOfIsData ==
  ASSUME NEW d, NEW S, MadeOf(d, S)
  PROVE  DataOK(d)
<1> SUFFICES ASSUME NEW n \in 1 .. Len(d), d[n] # Hole
             PROVE  d[n].n = n /\ n <= Blocks[d[n].of.key]
  BY DEF DataOK
<1>1. PICK a \in S : n <= Blocks[a.key] /\ d[n] = [of |-> a, n |-> n]
  BY DEF MadeOf
<1>2. d[n].of = a /\ d[n].n = n
  BY <1>1
<1>3. QED BY <1>1, <1>2

LEMMA InvTypeOK == Inv => TypeOK
<1> SUFFICES ASSUME Inv PROVE TypeOK
  OBVIOUS
<1> USE DEF Inv
<1>1. DOMAIN fs = Paths
  BY DEF Typed
<1>2. \A path \in Paths : fs[path] = Absent \/ DataOK(fs[path])
  BY MadeOfIsData DEF Provenance
<1>3. ASSUME NEW p \in Runs
      PROVE  /\ pc[p] \in Places
             /\ \A path \in Paths : DataOK(got[p][path])
             /\ out[p] \in {NoArt} \cup Containers \cup Proofs
             /\ InOutput(p) => out[p] # NoArt /\ pos[p] \in 0 .. Blocks[out[p].key]
             /\ exit[p] \in {0, 2, 3, Running}
             /\ pc[p] = "exited" <=> exit[p] # Running
  <2>1. /\ pc[p] \in Places /\ exit[p] \in {0, 2, 3, Running}
        /\ out[p] \in {NoArt} \cup Artifacts /\ pos[p] \in Nat
    BY DEF Typed
  <2>2. \A path \in Paths : DataOK(got[p][path])
    BY MadeOfIsData DEF Provenance
  <2>3. ASSUME InOutput(p)
        PROVE  out[p] # NoArt /\ pos[p] \in 0 .. Blocks[out[p].key]
    <3>1. out[p] # NoArt /\ (pos[p] < Blocks[out[p].key]
                               \/ pos[p] = Blocks[out[p].key])
      BY <2>3 DEF InOutput, Artifact
    <3>2. Blocks[out[p].key] \in Nat
      BY <2>1, <3>1, KeyHasBlocks
    <3>3. QED BY <2>1, <3>1, <3>2
  <2>4. pc[p] = "exited" <=> exit[p] # Running
    BY DEF Artifact
  <2>5. QED BY <2>1, <2>2, <2>3, <2>4 DEF Artifacts
<1>4. QED BY <1>1, <1>2, <1>3 DEF TypeOK

\* A run that holds the whole of an artifact in memory read what another run
\* made for that path.
LEMMA WholeHasAMaker ==
  ASSUME Inv, NEW p \in Runs, NEW path \in Paths, NEW a \in Artifacts,
         got[p][path] = Whole(a)
  PROVE  \E q \in Writers : Output(q) = path /\ out[q] = a
<1> DEFINE d == got[p][path]
<1>1. d[1] = [of |-> a, n |-> 1] /\ 1 \in 1 .. Len(d)
  BY WholeProperties
<1>2. d[1] # Hole
  BY <1>1, BlockIsNoHole
<1>3. MadeOf(d, Made(path))
  BY DEF Inv, Provenance
<1> HIDE DEF d
<1>4. PICK b \in Made(path) : d[1] = [of |-> b, n |-> 1]
  BY <1>1, <1>2, <1>3 DEF MadeOf
<1>5. b = a
  BY <1>1, <1>4, BlockEqual
<1>6. QED BY <1>4, <1>5 DEF Made

LEMMA ParsedContainerHasAMaker ==
  ASSUME Inv, NEW p \in Runs, ParsesZac(got[p]["zac"])
  PROVE  \E q \in Runs :
           job[q].cmd = "pack" /\ out[q] # NoArt /\ got[p]["zac"] = Whole(out[q])
<1> DEFINE a == Container(got[p]["zac"])
<1>1. a \in Artifacts /\ got[p]["zac"] = Whole(a)
  BY ParsedContainer, ContainersAreArtifacts
<1>2. PICK q \in Writers : Output(q) = "zac" /\ out[q] = a
  BY <1>1, WholeHasAMaker DEF Paths
<1>3. q \in Runs /\ job[q].cmd = "pack"
  BY <1>2, JobTypes DEF Inv
<1>4. out[q] # NoArt
  BY <1>1, <1>2, KeyHasBlocks
<1>5. QED BY <1>1, <1>2, <1>3, <1>4

LEMMA InvNoTornContainer == Inv => NoTornContainer
<1> SUFFICES ASSUME Inv, NEW p \in Runs,
                    \/ Used(p) \/ Passed(p, "verify")
                    \/ Passed(p, "inspect") /\ job[p].target = "zac"
             PROVE  ParsesZac(got[p]["zac"])
  BY ParsedContainerHasAMaker DEF NoTornContainer
<1>1. CASE Used(p)
  BY <1>1 DEF Used, Inv, Artifact
<1>2. CASE Passed(p, "verify")
  BY <1>2 DEF Inv, Verdicts, Accepts
<1>3. CASE Passed(p, "inspect") /\ job[p].target = "zac"
  BY <1>3 DEF Inv, Verdicts
<1>4. QED BY <1>1, <1>2, <1>3

\* What `prove` makes: from one whole container, for its key and names.
LEMMA MadeProof ==
  ASSUME Inv, NEW q \in Writers, Output(q) = "zacp", out[q] # NoArt
  PROVE  /\ Used(q) /\ q \in Runs
         /\ ParsesZac(got[q]["zac"])
         /\ out[q].key = Container(got[q]["zac"]).key
         /\ out[q].names = Container(got[q]["zac"]).names
         /\ out[q].sat = job[q].sat
<1>1. q \in Runs /\ job[q].cmd = "prove"
  BY JobTypes DEF Inv
<1>2. ParsesZac(got[q]["zac"]) /\ out[q] \in MadeProofs(q, got[q]["zac"])
  BY <1>1 DEF Inv, Artifact
<1>3. /\ Container(got[q]["zac"]).key = job[q].key
      /\ out[q] = [kind |-> "zacp", key |-> job[q].key,
                   names |-> Container(got[q]["zac"]).names,
                   seed |-> job[q].seed, sat |-> job[q].sat]
  BY <1>2 DEF MadeProofs
<1>4. QED BY <1>1, <1>2, <1>3 DEF Used

LEMMA InvAcceptedPairIsGenuine == Inv => AcceptedPairIsGenuine
<1> SUFFICES ASSUME Inv, NEW p \in Runs, Passed(p, "verify")
             PROVE  \E q \in Runs : /\ Used(q) /\ job[q].sat
                                    /\ got[p]["zacp"] = Whole(out[q])
                                    /\ got[p]["zac"] = got[q]["zac"]
  BY DEF AcceptedPairIsGenuine
<1> DEFINE zac  == got[p]["zac"]
           zacp == got[p]["zacp"]
           art  == zacp[1].of
<1>1. /\ ParsesZac(zac) /\ ParsesZacp(zacp)
      /\ Bound(zac, zacp) /\ PairingHolds(zac, zacp)
  BY DEF Inv, Verdicts, Accepts
<1>2. zacp = Whole(art) /\ art.sat
  BY <1>1 DEF PairingHolds
<1>3. art \in Artifacts
  <2>1. zacp # << >> /\ zacp[1] # Hole
    BY <1>1 DEF ParsesZacp
  <2>2. zacp \in Seq(Block)
    BY DEF Inv, Typed, Paths
  <2>3. 1 \in 1 .. Len(zacp)
    BY <2>1, <2>2, EmptySeq, LenProperties
  <2>4. MadeOf(zacp, Made("zacp"))
    BY DEF Inv, Provenance, Paths
  <2>5. PICK b \in Made("zacp") : zacp[1] = [of |-> b, n |-> 1]
    BY <2>1, <2>3, <2>4 DEF MadeOf
  <2>6. QED BY <2>5 DEF Made
<1>4. PICK q \in Writers : Output(q) = "zacp" /\ out[q] = art
  BY <1>2, <1>3, WholeHasAMaker DEF Paths
<1>5. /\ Used(q) /\ q \in Runs /\ ParsesZac(got[q]["zac"])
      /\ art.key = Container(got[q]["zac"]).key
      /\ art.names = Container(got[q]["zac"]).names
      /\ art.sat = job[q].sat
  BY <1>3, <1>4, KeyHasBlocks, MadeProof
<1>6. /\ art.key = Container(zac).key /\ art.names = Container(zac).names
  BY <1>1 DEF Bound
<1>7. Container(zac) = Container(got[q]["zac"])
  <2>1. \A a, b \in Containers : a.key = b.key /\ a.names = b.names => a = b
    BY DEF Containers
  <2>2. Container(zac) \in Containers /\ Container(got[q]["zac"]) \in Containers
    BY <1>1, <1>5, ParsedContainer
  <2>3. QED BY <1>5, <1>6, <2>1, <2>2
<1>8. zac = got[q]["zac"]
  BY <1>1, <1>5, <1>7, ParsedContainer
<1>9. job[q].sat
  BY <1>2, <1>5, Zenon
<1>10. QED BY <1>2, <1>4, <1>5, <1>8, <1>9

LEMMA InvCreatorKeepsTheFile == Inv => CreatorKeepsTheFile
<1> SUFFICES ASSUME Inv, NEW p \in Writers, Unforced(Output(p))
             PROVE  /\ exit[p] = 0 => fs[Output(p)] = Whole(out[p])
                    /\ InOutput(p) =>
                         \A q \in Writers \ {p} :
                           Output(q) = Output(p) => ~ InOutput(q)
  BY DEF CreatorKeepsTheFile, Unforced
<1>0. Writers \subseteq Runs
  BY JobTypes DEF Inv
<1>1. ASSUME exit[p] = 0 PROVE fs[Output(p)] = Whole(out[p])
  <2>1. Opened(p)
    BY <1>1 DEF Opened
  <2>2. fs[Output(p)] = Written(p)
    BY <1>0, <2>1 DEF Inv, Creators
  <2>3. pos[p] = Blocks[out[p].key]
    BY <1>0, <1>1, <2>1 DEF Inv, Artifact
  <2>4. QED BY <2>2, <2>3 DEF Written, Whole
<1>2. ASSUME InOutput(p), NEW q \in Writers \ {p}, Output(q) = Output(p),
             InOutput(q)
      PROVE  FALSE
  BY <1>0, <1>2 DEF Inv, Creators, Opened
<1>3. QED BY <1>1, <1>2

----------------------------------------------------------------------------
(***************************************************************************)
(* The theorems.                                                           *)
(***************************************************************************)

\* Every block that a file or a reader's memory ever holds is at the place its
\* artifact has it, and exactly the runs that ended by themselves have a code.
THEOREM TypeOKTheorem == Spec => []TypeOK
BY InvTheorem, InvTypeOK, PTL

\* No interleaving of writers, crashes and readers makes `prove`, `verify` or
\* `inspect` use a .zac that no single `pack` wrote.
THEOREM NoTornContainerTheorem == Spec => []NoTornContainer
BY InvTheorem, InvNoTornContainer, PTL

\* `verify` exits 0 only on a proof that one `prove` run made, from a
\* satisfying witness and from the very .zac that `verify` read.
THEOREM AcceptedPairIsGenuineTheorem == Spec => []AcceptedPairIsGenuine
BY InvTheorem, InvAcceptedPairIsGenuine, PTL

\* Without --force the run that creates a file and exits 0 has its artifact in
\* it for good, and no second run writes to it.
THEOREM CreatorKeepsTheFileTheorem == Spec => []CreatorKeepsTheFile
BY InvTheorem, InvCreatorKeepsTheFile, PTL
----------------------------------------------------------------------------
(***************************************************************************)
(* Writers that take turns.                                                *)
(***************************************************************************)

LEMMA TurnFrame ==
  ASSUME InTurn, job' = job, fs' = fs, pos' = pos,
         \A q \in Runs : InOutput(q)' => InOutput(q) /\ out'[q] = out[q]
  PROVE  InTurn'
BY DEF InTurn, Written, Output, Writers, Runs

\* Nothing but opening and writing makes a run a writer or touches a file.
LEMMA OthersWriteNothing ==
  ASSUME Inv, NEW p \in Runs,
         \/ ReadZac(p) \/ ReadZacp(p) \/ Pack(p) \/ Prove(p) \/ Verify(p)
         \/ Inspect(p) \/ Report(p) \/ Kill(p) \/ (\E code \in {2, 3} : Refuse(p, code))
  PROVE  /\ UNCHANGED <<job, fs, pos>>
         /\ \A q \in Runs : InOutput(q)' => InOutput(q) /\ out'[q] = out[q]
<1> DEFINE Quiet == /\ UNCHANGED <<job, fs, pos>>
                    /\ \A q \in Runs \ {p} : pc'[q] = pc[q] /\ out'[q] = out[q]
                    /\ \/ pc'[p] = pc[p] /\ out'[p] = out[p]
                       \/ pc'[p] \notin {"write", "report"}
<1>1. pc \in [Runs -> Places] /\ out \in [Runs -> {NoArt} \cup Artifacts]
  BY DEF Inv, Typed
<1>2. ASSUME NEW code, Refuse(p, code) PROVE Quiet
  BY <1>1, <1>2 DEF Refuse, Exit, Goto
<1>3. ASSUME NEW a, Build(p, a) PROVE Quiet
  BY <1>1, <1>3 DEF Build, Goto
<1>4. ASSUME NEW path, NEW next \in {"readZacp", "decide"}, Read(p, path, next)
      PROVE  Quiet
  BY <1>1, <1>4 DEF Read, Exit, Goto
<1>5. AfterZac(p) \in {"readZacp", "decide"}
  BY DEF AfterZac
<1>6. Kill(p) => Quiet
  BY <1>1 DEF Kill, Goto
<1> HIDE DEF Quiet
<1>7. Quiet
  <2>1. CASE ReadZac(p) \/ ReadZacp(p)
    BY <1>4, <1>5, <2>1 DEF ReadZac, ReadZacp
  <2>2. CASE Pack(p)
    BY <1>2, <1>3, <2>2 DEF Pack
  <2>3. CASE Prove(p)
    BY <1>2, <1>3, <2>3 DEF Prove
  <2>4. CASE Verify(p) \/ Inspect(p) \/ Report(p)
    BY <1>2, <2>4 DEF Verify, Inspect, Report
  <2>5. CASE Kill(p)
    BY <1>6, <2>5
  <2>6. CASE \E code \in {2, 3} : Refuse(p, code)
    BY <1>2, <2>6
  <2>7. QED BY <2>1, <2>2, <2>3, <2>4, <2>5, <2>6
<1>8. QED BY <1>7 DEF Quiet, InOutput

LEMMA TurnOpen ==
  ASSUME Inv, InTurn, OneWriterAtATime', NEW p \in Runs, pc[p] = "open",
         fs' = [fs EXCEPT ![Output(p)] = << >>],
         Goto(p, "write"), UNCHANGED <<job, got, out, pos, exit>>
  PROVE  InTurn'
<1>1. pos[p] = 0 /\ p \in Writers
  BY DEF Inv, Artifact
<1>2. pc'[p] = "write" /\ \A q \in Runs \ {p} : pc'[q] = pc[q]
  BY DEF Inv, Typed, Goto
<1>3. /\ fs'[Output(p)] = << >>
      /\ \A path \in Paths \ {Output(p)} : fs'[path] = fs[path]
  BY JobTypes DEF Inv, Typed
<1>4. SUFFICES ASSUME NEW q \in Runs, q \in Writers, InOutput(q)'
               PROVE  fs'[Output(q)] = Written(q)'
  BY DEF InTurn, Runs, Writers, Output
<1>5. CASE q = p
  BY <1>1, <1>3, <1>5, EmptyFile DEF Written
<1>6. CASE q # p
  <2>1. InOutput(p)' /\ p \in Writers' /\ q \in Writers'
    BY <1>1, <1>2, <1>4 DEF InOutput, Writers, Runs
  <2>2. Output(q)' # Output(p)'
    BY <1>4, <1>6, <2>1 DEF OneWriterAtATime
  <2>3. fs'[Output(q)] = fs[Output(q)]
    BY <1>3, <2>2, JobTypes DEF Inv, Output
  <2>4. fs[Output(q)] = Written(q)
    BY <1>2, <1>4, <1>6 DEF InTurn, InOutput
  <2>5. QED BY <2>3, <2>4 DEF Written
<1>7. QED BY <1>5, <1>6

LEMMA TurnWrite ==
  ASSUME Inv, InTurn, OneWriterAtATime, NEW p \in Runs, pc[p] = "write",
         fs' = [fs EXCEPT ![Output(p)] =
                  Put(@, pos[p] + 1, [of |-> out[p], n |-> pos[p] + 1])],
         pos' = [pos EXCEPT ![p] = @ + 1],
         Goto(p, IF pos[p] + 1 = Blocks[out[p].key] THEN "report" ELSE "write"),
         UNCHANGED <<job, got, out, exit>>
  PROVE  InTurn'
<1> DEFINE e == Put(fs[Output(p)], pos[p] + 1,
                    [of |-> out[p], n |-> pos[p] + 1])
<1>1. p \in Writers /\ InOutput(p) /\ out[p] \in Artifacts /\ pos[p] \in Nat
  BY DEF Inv, Artifact, InOutput, Typed
<1>2. /\ pos'[p] = pos[p] + 1
      /\ \A q \in Runs \ {p} : pc'[q] = pc[q] /\ pos'[q] = pos[q]
  BY DEF Inv, Typed, Goto
<1>3. /\ fs'[Output(p)] = e
      /\ \A path \in Paths \ {Output(p)} : fs'[path] = fs[path]
  BY JobTypes DEF Inv, Typed
<1>4. SUFFICES ASSUME NEW q \in Runs, q \in Writers, InOutput(q)'
               PROVE  fs'[Output(q)] = Written(q)'
  BY DEF InTurn, Runs, Writers, Output
<1>5. fs[Output(p)] = Written(p)
  BY <1>1 DEF InTurn
<1>6. CASE q = p
  <2>1. Written(p)' = [n \in 1 .. pos[p] + 1 |-> [of |-> out[p], n |-> n]]
    BY <1>2 DEF Written
  <2>2. Written(p) = [n \in 1 .. pos[p] |-> [of |-> out[p], n |-> n]]
    BY DEF Written
  <2>3. \A f, g : /\ f = [n \in 1 .. pos[p] |-> [of |-> out[p], n |-> n]]
                  /\ g = [n \in 1 .. pos[p] + 1 |-> [of |-> out[p], n |-> n]]
                  => Put(f, pos[p] + 1, [of |-> out[p], n |-> pos[p] + 1]) = g
    BY <1>1, PutNext, Zenon
  <2>4. e = Written(p)'
    BY <1>5, <2>1, <2>2, <2>3, Zenon
  <2>5. QED BY <1>3, <1>6, <2>4
<1>7. CASE q # p
  <2>1. InOutput(q)
    BY <1>2, <1>4, <1>7 DEF InOutput
  <2>2. Output(q) # Output(p)
    BY <1>1, <1>4, <1>7, <2>1 DEF OneWriterAtATime
  <2>3. fs'[Output(q)] = fs[Output(q)]
    BY <1>3, <2>2, JobTypes DEF Inv
  <2>4. fs[Output(q)] = Written(q)
    BY <1>4, <2>1 DEF InTurn
  <2>5. QED BY <1>2, <1>7, <2>3, <2>4 DEF Written
<1>8. QED BY <1>6, <1>7

LEMMA TurnStep ==
  Inv /\ InTurn /\ OneWriterAtATime /\ OneWriterAtATime' /\ [Next]_vars
    => InTurn'
<1> SUFFICES ASSUME Inv, InTurn, OneWriterAtATime, OneWriterAtATime',
                    [Next]_vars
             PROVE  InTurn'
  OBVIOUS
<1>1. CASE UNCHANGED vars
  BY <1>1, TurnFrame DEF vars, InOutput
<1>2. ASSUME NEW p \in Runs, Run(p) \/ Kill(p) PROVE InTurn'
  <2>1. CASE Open(p) /\ ~ Refuse(p, 3)
    BY <2>1, TurnOpen DEF Open
  <2>2. CASE Write(p) /\ ~ Refuse(p, 3)
    BY <2>2, TurnWrite DEF Write
  <2>3. CASE ~ (Open(p) \/ Write(p)) \/ Refuse(p, 3)
    <3>1. UNCHANGED <<job, fs, pos>>
            /\ \A q \in Runs : InOutput(q)' => InOutput(q) /\ out'[q] = out[q]
      BY <1>2, <2>3, OthersWriteNothing DEF Run
    <3>2. QED BY <3>1, TurnFrame
  <2>4. QED BY <2>1, <2>2, <2>3
<1>3. QED BY <1>1, <1>2 DEF Next

\* Runs that never hold one file open together leave a whole file behind when
\* they report success, whatever was in it before.
THEOREM TakingTurnsTheorem == Spec => TakingTurnsIsEnough
<1>1. Init => Inv /\ InTurn
  <2>1. Init => \A p \in Runs : ~ InOutput(p)
    BY DEF Init, InOutput, FirstPlace
  <2>2. QED BY <2>1, InitInv DEF InTurn
<1>2. Inv /\ InTurn => ReportedIsWhole
  <2>1. SUFFICES ASSUME Inv, InTurn, NEW p \in Writers, pc[p] = "report"
                 PROVE  fs[Output(p)] = Whole(out[p])
    BY DEF ReportedIsWhole
  <2>2. p \in Runs
    BY <2>1, JobTypes DEF Inv
  <2>3. fs[Output(p)] = Written(p)
    BY <2>1, <2>2 DEF InTurn, InOutput
  <2>4. pos[p] = Blocks[out[p].key]
    BY <2>1, <2>2 DEF Inv, Artifact
  <2>5. QED BY <2>3, <2>4 DEF Written, Whole
<1>3. QED
  BY <1>1, <1>2, NextInv, TurnStep, PTL DEF Spec, TakingTurnsIsEnough
----------------------------------------------------------------------------
(***************************************************************************)
(* The runs keep the promise of Pipeline.                                  *)
(***************************************************************************)

\* How a run has ended, by its place and by its code.
LEMMA StatusIs ==
  ASSUME Inv, NEW p \in Runs
  PROVE  /\ Alive(p) => Status(p) = "running" /\ exit[p] = Running
         /\ Status(p) = "ok" <=> exit[p] = 0
<1>1. pc[p] = "exited" <=> exit[p] # Running
  BY DEF Inv, Artifact
<1>2. Running # 0
  BY DEF Running
<1>3. QED BY <1>1, <1>2 DEF Status, Alive

\* The steps of a run that goes on are hidden, but for what it makes.
LEMMA GoesOn ==
  ASSUME Inv, Inv', NEW p \in Runs, Alive(p), Alive(p)', job' = job,
         \A q \in Runs \ {p} :
           /\ pc'[q] = pc[q] /\ exit'[q] = exit[q]
           /\ out'[q] = out[q] /\ got'[q] = got[q]
  PROVE  status' = status /\ vouched' = vouched
<1>1. Runs' = Runs
  BY DEF Runs
<1>2. Status(p)' = "running" /\ Status(p) = "running"
      /\ exit'[p] # 0 /\ exit[p] # 0
  <2>1. Status(p) = "running" /\ exit[p] = Running
    BY StatusIs
  <2>2. pc'[p] # "killed" /\ pc'[p] # "exited"
    BY DEF Alive
  <2>3. exit'[p] = Running
    BY <1>1, <2>2 DEF Inv, Artifact
  <2>4. Running # 0
    BY DEF Running
  <2>5. QED BY <2>1, <2>2, <2>3, <2>4 DEF Status
<1>3. \A q \in Runs : Status(q)' = Status(q)
  BY <1>2 DEF Status
<1>4. \A q \in Runs : Vouched(q)' = Vouched(q)
  <2>1. Writers' = Writers
    BY DEF Writers, Runs
  <2>2. Vouched(p)' = {} /\ Vouched(p) = {}
    BY <1>2 DEF Vouched
  <2>3. ASSUME NEW q \in Runs \ {p} PROVE Vouched(q)' = Vouched(q)
    BY <2>1, ZenonT(40) DEF Vouched
  <2>4. QED BY <2>2, <2>3
<1>5. QED BY <1>1, <1>3, <1>4 DEF status, vouched

\* A run that ends changes its own outcome only.
LEMMA Ends ==
  ASSUME Inv, NEW p \in Runs, NEW place \in Places, NEW code,
         UNCHANGED <<job, got, out>>,
         pc' = [pc EXCEPT ![p] = place], exit' = [exit EXCEPT ![p] = code]
  PROVE  /\ status' = [status EXCEPT ![p] = Status(p)']
         /\ vouched' = [vouched EXCEPT ![p] = Vouched(p)']
         /\ pc'[p] = place /\ exit'[p] = code
<1>1. Runs' = Runs /\ Writers' = Writers
  BY DEF Runs, Writers
<1>2. /\ pc'[p] = place /\ exit'[p] = code
      /\ \A q \in Runs \ {p} : pc'[q] = pc[q] /\ exit'[q] = exit[q]
  BY DEF Inv, Typed
<1>3. \A q \in Runs \ {p} : Status(q)' = Status(q) /\ Vouched(q)' = Vouched(q)
  BY <1>1, <1>2 DEF Status, Vouched
<1>4. QED BY <1>1, <1>2, <1>3 DEF status, vouched

\* A run that ends without success gives up.
LEMMA KilledGivesUp ==
  ASSUME Inv, NEW p \in Runs, Kill(p)
  PROVE  Promise!GiveUp(p)
<1>1. Alive(p) /\ exit[p] = Running /\ Status(p) = "running"
  BY StatusIs DEF Kill
<1>2. exit' = [exit EXCEPT ![p] = Running] /\ pc' = [pc EXCEPT ![p] = "killed"]
  BY <1>1 DEF Kill, Goto, Inv, Typed
<1>3. /\ status' = [status EXCEPT ![p] = Status(p)']
      /\ vouched' = [vouched EXCEPT ![p] = Vouched(p)']
      /\ pc'[p] = "killed" /\ exit'[p] = Running
  BY <1>2, Ends DEF Kill, Places
<1>4. Status(p)' = "killed"
  BY <1>3 DEF Status
<1>5. Vouched(p)' = {} /\ Vouched(p) = {}
  BY <1>1, <1>3 DEF Vouched, Running
<1>6. vouched' = vouched
  BY <1>3, <1>5 DEF vouched
<1>7. QED BY <1>1, <1>3, <1>4, <1>6 DEF Promise!GiveUp, Kill, status

LEMMA RefusedGivesUp ==
  ASSUME Inv, NEW p \in Runs, Alive(p), NEW code \in {2, 3}, Refuse(p, code)
  PROVE  Promise!GiveUp(p)
<1>1. Status(p) = "running" /\ exit[p] = Running
  BY StatusIs
<1>2. /\ status' = [status EXCEPT ![p] = Status(p)']
      /\ vouched' = [vouched EXCEPT ![p] = Vouched(p)']
      /\ pc'[p] = "exited" /\ exit'[p] = code
  BY Ends DEF Refuse, Exit, Goto, Places
<1>3. Status(p)' = "refused"
  BY <1>2 DEF Status, Running
<1>4. Vouched(p)' = {} /\ Vouched(p) = {}
  BY <1>1, <1>2 DEF Vouched, Running
<1>5. vouched' = vouched
  BY <1>2, <1>4 DEF vouched
<1>6. QED BY <1>1, <1>2, <1>3, <1>5 DEF Promise!GiveUp, Refuse, status

\* A code 0 vouches for what the run holds.
LEMMA ZeroVouches ==
  ASSUME Inv, NEW p \in Runs, Alive(p), Refuse(p, 0)
  PROVE  Promise!Vouch(p, Vouched(p)')
<1>1. Status(p) = "running"
  BY StatusIs
<1>2. /\ status' = [status EXCEPT ![p] = Status(p)']
      /\ vouched' = [vouched EXCEPT ![p] = Vouched(p)']
      /\ pc'[p] = "exited" /\ exit'[p] = 0
  BY Ends DEF Refuse, Exit, Goto, Places
<1>3. Status(p)' = "ok"
  BY <1>2 DEF Status, Running
<1>4. QED BY <1>1, <1>2, <1>3 DEF Promise!Vouch, Refuse, status

\* What is in a file's first block has been made.
LEMMA HeaderIsAvailable ==
  ASSUME Inv, NEW p \in Runs, NEW path \in Paths,
         got[p][path] # << >>, got[p][path][1] # Hole
  PROVE  got[p][path][1].of \in Promise!Available(path)
<1> DEFINE d == got[p][path]
<1>1. d \in Seq(Block) /\ MadeOf(d, Made(path))
  BY DEF Inv, Typed, Provenance
<1>2. 1 \in 1 .. Len(d)
  BY <1>1, EmptySeq, LenProperties
<1>3. PICK b \in Made(path) : d[1] = [of |-> b, n |-> 1]
  BY <1>1, <1>2 DEF MadeOf
<1>4. PICK q \in Writers : Output(q) = path /\ out[q] = b /\ b \in Artifacts
  BY <1>3 DEF Made
<1>5. q \in Runs /\ b # NoArt
  BY <1>4, JobTypes, KeyHasBlocks DEF Inv
<1>6. b.kind = path
  <2>1. CASE job[q].cmd = "pack"
    <3>1. b = [kind |-> "zac", key |-> job[q].key, names |-> job[q].names]
      BY <1>4, <1>5, <2>1 DEF Inv, Artifact
    <3>2. path = "zac"
      BY <1>4, <2>1 DEF Output
    <3>3. QED BY <3>1, <3>2
  <2>2. CASE job[q].cmd = "prove"
    <3>1. b \in MadeProofs(q, got[q]["zac"]) /\ path = "zacp"
      BY <1>4, <1>5, <2>2 DEF Inv, Artifact, Output
    <3>2. QED BY <3>1 DEF MadeProofs
  <2>3. QED BY <1>4, <2>1, <2>2 DEF Writers
<1>7. b \in Promise!Available(path)
  BY <1>4, <1>5, <1>6 DEF Promise!Available, Promise!Runs, Runs
<1>8. QED BY <1>3, <1>7

\* A container that parses has been made.
LEMMA ParsedIsAvailable ==
  ASSUME Inv, NEW p \in Runs, ParsesZac(got[p]["zac"])
  PROVE  Container(got[p]["zac"]) \in Promise!Available("zac")
<1> DEFINE d == got[p]["zac"]
           a == Container(d)
<1>1. a \in Artifacts /\ d = Whole(a)
  BY ParsedContainer, ContainersAreArtifacts
<1>2. d[1] # Hole /\ d # << >>
  <2>1. d[1] = [of |-> a, n |-> 1] /\ 1 \in 1 .. Len(d)
    BY <1>1, WholeProperties
  <2>2. Len(<< >>) = 0
    OBVIOUS
  <2>3. QED BY <2>1, <2>2, BlockIsNoHole
<1>3. QED BY <1>2, HeaderIsAvailable DEF Paths, Container

\* A step that makes an artifact.
LEMMA BuildMakes ==
  ASSUME Inv, Inv', NEW p \in Runs, pc[p] = "decide", NEW a, Build(p, a),
         \/ job[p].cmd = "pack" /\ a = Promise!ContainerOf(job[p])
         \/ /\ job[p].cmd = "prove"
            /\ \E c \in Promise!Available("zac") :
                 c.key = job[p].key /\ a = Promise!ProofFor(job[p], c)
  PROVE  Promise!Make(p)
<1>1. Alive(p) /\ Status(p) = "running"
  BY StatusIs DEF Alive
<1>2. /\ pc'[p] = "open" /\ got' = got /\ exit' = exit /\ job' = job
      /\ \A q \in Runs \ {p} : pc'[q] = pc[q] /\ out'[q] = out[q]
  BY DEF Build, Goto, Inv, Typed
<1>3. Alive(p)'
  BY <1>2 DEF Alive
<1>4. status' = status /\ vouched' = vouched
  BY <1>1, <1>2, <1>3, GoesOn
<1>5. out[p] = NoArt /\ out' = [out EXCEPT ![p] = a]
  BY DEF Build, Inv, Artifact
<1>6. status[p] = "running"
  BY <1>1 DEF status
<1>7. CASE job[p].cmd = "pack" /\ a = Promise!ContainerOf(job[p])
  BY <1>2, <1>4, <1>5, <1>6, <1>7 DEF Promise!Make
<1>8. CASE job[p].cmd = "prove"
            /\ \E c \in Promise!Available("zac") :
                 c.key = job[p].key /\ a = Promise!ProofFor(job[p], c)
  BY <1>2, <1>4, <1>5, <1>6, <1>8 DEF Promise!Make
<1>9. QED BY <1>7, <1>8

LEMMA PackKeeps ==
  ASSUME Inv, Inv', NEW p \in Runs, Pack(p)
  PROVE  Promise!Make(p) \/ Promise!GiveUp(p)
<1> DEFINE a == [kind |-> "zac", key |-> job[p].key, names |-> job[p].names]
<1>1. pc[p] = "decide" /\ job[p].cmd = "pack" /\ Alive(p)
  BY DEF Pack, Alive
<1>2. a = Promise!ContainerOf(job[p])
  BY DEF Promise!ContainerOf
<1>3. CASE Build(p, a)
  BY <1>1, <1>2, <1>3, BuildMakes
<1>4. CASE Refuse(p, 3)
  BY <1>1, <1>4, RefusedGivesUp
<1>5. QED BY <1>3, <1>4 DEF Pack

LEMMA ProveKeeps ==
  ASSUME Inv, Inv', NEW p \in Runs, Prove(p)
  PROVE  Promise!Make(p) \/ Promise!GiveUp(p)
<1>1. pc[p] = "decide" /\ job[p].cmd = "prove" /\ Alive(p)
  BY DEF Prove, Alive
<1>2. ASSUME ParsesZac(got[p]["zac"]),
             NEW proof \in MadeProofs(p, got[p]["zac"]), Build(p, proof)
      PROVE  Promise!Make(p)
  <2> DEFINE c == Container(got[p]["zac"])
  <2>1. c \in Promise!Available("zac")
    BY <1>2, ParsedIsAvailable
  <2>2. c.key = job[p].key /\ proof = Promise!ProofFor(job[p], c)
    BY <1>2 DEF MadeProofs, Promise!ProofFor
  <2>3. QED BY <1>1, <1>2, <2>1, <2>2, BuildMakes
<1>3. CASE Refuse(p, 2) \/ Refuse(p, 3)
  BY <1>1, <1>3, RefusedGivesUp
<1>4. QED BY <1>2, <1>3 DEF Prove

LEMMA VerifyKeeps ==
  ASSUME Inv, NEW p \in Runs, Verify(p)
  PROVE  Promise!Accept(p) \/ Promise!GiveUp(p)
<1> DEFINE zac  == got[p]["zac"]
           zacp == got[p]["zacp"]
<1>1. job[p].cmd = "verify" /\ Alive(p)
  BY DEF Verify, Alive
<1>2. CASE Accepts(zac, zacp)
  <2>1. /\ ParsesZac(zac) /\ ParsesZacp(zacp)
        /\ Bound(zac, zacp) /\ PairingHolds(zac, zacp)
    BY <1>2 DEF Accepts
  <2>2. Container(zac) \in Promise!Available("zac")
    BY <2>1, ParsedIsAvailable
  <2>3. zacp[1].of \in Promise!Available("zacp")
    BY <2>1, HeaderIsAvailable DEF ParsesZacp, Paths
  <2>4. Promise!ProofIsFor(zacp[1].of, Container(zac))
    BY <2>1 DEF Promise!ProofIsFor, Bound, PairingHolds
  <2>5. Refuse(p, 0)
    BY <1>2 DEF Verify
  <2>6. exit'[p] = 0 /\ UNCHANGED <<job, got>>
    BY <2>5 DEF Refuse, Exit, Inv, Typed
  <2>7. Vouched(p)' = {Container(zac), zacp[1].of}
    BY <1>1, <2>6 DEF Vouched, Writers, Paths, Container
  <2>8. Promise!Vouch(p, {Container(zac), zacp[1].of})
    BY <1>1, <2>5, <2>7, ZeroVouches
  <2>9. QED BY <1>1, <2>2, <2>3, <2>4, <2>8 DEF Promise!Accept
<1>3. CASE ~ Accepts(zac, zacp)
  BY <1>1, <1>3, RefusedGivesUp DEF Verify
<1>4. QED BY <1>2, <1>3

LEMMA InspectKeeps ==
  ASSUME Inv, NEW p \in Runs, Inspect(p)
  PROVE  Promise!Show(p) \/ Promise!GiveUp(p)
<1> DEFINE target == job[p].target
           d      == got[p][target]
           parses == IF target = "zac" THEN ParsesZac(d) ELSE ParsesZacp(d)
<1>1. job[p].cmd = "inspect" /\ Alive(p) /\ target \in Paths
  BY JobTypes DEF Inspect, Alive, Inv, JobType
<1>2. CASE parses
  <2>1. d[1].of \in Promise!Available(target)
    <3>1. CASE target = "zac"
      BY <1>2, <3>1, ParsedIsAvailable DEF Container
    <3>2. CASE target # "zac"
      BY <1>1, <1>2, <3>2, HeaderIsAvailable DEF ParsesZacp
    <3>3. QED BY <3>1, <3>2
  <2>2. Refuse(p, 0)
    BY <1>2 DEF Inspect
  <2>3. exit'[p] = 0 /\ UNCHANGED <<job, got>>
    BY <2>2 DEF Refuse, Exit, Inv, Typed
  <2>4. Vouched(p)' = {d[1].of}
    BY <1>1, <2>3 DEF Vouched, Writers
  <2>5. Promise!Vouch(p, {d[1].of})
    BY <1>1, <2>2, <2>4, ZeroVouches
  <2>6. QED BY <1>1, <2>1, <2>5 DEF Promise!Show
<1>3. CASE ~ parses
  BY <1>1, <1>3, RefusedGivesUp DEF Inspect
<1>4. QED BY <1>2, <1>3

\* create_new lets one writer of a file succeed.
LEMMA ReportKeeps ==
  ASSUME Inv, NEW p \in Runs, Report(p)
  PROVE  Promise!Report(p)
<1>1. pc[p] = "report" /\ Alive(p) /\ Refuse(p, 0)
  BY DEF Report, Alive
<1>2. out[p] # NoArt /\ p \in Writers
  BY <1>1 DEF Inv, Artifact
<1>3. job[p].cmd \in {"pack", "prove"}
  BY <1>2 DEF Writers
<1>4. exit'[p] = 0 /\ UNCHANGED <<job, got, out>>
  BY <1>1 DEF Refuse, Exit, Inv, Typed
<1>5. Vouched(p)' = {out[p]}
  BY <1>2, <1>4 DEF Vouched, Writers, Runs
<1>6. Promise!Vouch(p, {out[p]})
  BY <1>1, <1>5, ZeroVouches
<1>7. ASSUME \A q \in Promise!Rivals(p) \cup {p} : ~ job[q].force,
             NEW q \in Promise!Rivals(p)
      PROVE  status[q] # "ok"
  <2>1. q \in Writers /\ q \in Runs /\ q # p /\ Output(q) = Output(p)
    BY <1>3, <1>7 DEF Promise!Rivals, Promise!Runs, Runs, Writers, Output
  <2>2. Unforced(Output(p))
    BY <1>3, <1>7 DEF Unforced, Writers, Output, Promise!Rivals, Promise!Runs, Runs
  <2>3. Opened(p)
    BY <1>1, <1>2 DEF Opened, InOutput
  <2>4. ~ Opened(q)
    BY <2>1, <2>2, <2>3 DEF Inv, Creators
  <2>5. exit[q] # 0
    BY <2>1, <2>4 DEF Opened
  <2>6. QED BY <2>1, <2>5, StatusIs DEF status
<1>8. QED BY <1>2, <1>3, <1>6, <1>7 DEF Promise!Report, Promise!Makes, Promise!MaySucceed

\* The steps on files are hidden.
LEMMA FilesAreHidden ==
  ASSUME Inv, Inv', NEW p \in Runs, Alive(p), Alive(p)', job' = job, out' = out,
         \A q \in Runs \ {p} :
           pc'[q] = pc[q] /\ exit'[q] = exit[q] /\ got'[q] = got[q]
  PROVE  UNCHANGED Promise!vars
BY GoesOn DEF Promise!vars

LEMMA ReadKeeps ==
  ASSUME Inv, Inv', NEW p \in Runs, NEW path, NEW next \in {"readZacp", "decide"},
         pc[p] \in {"readZac", "readZacp"}, Read(p, path, next)
  PROVE  Promise!GiveUp(p) \/ UNCHANGED Promise!vars
<1>1. Alive(p)
  BY DEF Alive
<1>2. CASE Refuse(p, 3)
  BY <1>1, <1>2, RefusedGivesUp
<1>3. CASE ~ Refuse(p, 3)
  <2>1. /\ pc'[p] \in {"readZac", "readZacp", "decide"}
        /\ job' = job /\ out' = out /\ exit' = exit
        /\ \A q \in Runs \ {p} : pc'[q] = pc[q] /\ got'[q] = got[q]
    BY <1>3 DEF Read, Refuse, Goto, Inv, Typed
  <2>2. Alive(p)'
    BY <2>1 DEF Alive
  <2>3. QED BY <1>1, <2>1, <2>2, FilesAreHidden
<1>4. QED BY <1>2, <1>3

LEMMA OpenKeeps ==
  ASSUME Inv, Inv', NEW p \in Runs, Open(p) \/ Write(p)
  PROVE  Promise!GiveUp(p) \/ UNCHANGED Promise!vars
<1>1. Alive(p)
  BY DEF Open, Write, Alive
<1>2. CASE Refuse(p, 3)
  BY <1>1, <1>2, RefusedGivesUp
<1>3. CASE ~ Refuse(p, 3)
  <2>1. /\ pc'[p] \in {"write", "report"}
        /\ job' = job /\ out' = out /\ exit' = exit /\ got' = got
        /\ \A q \in Runs \ {p} : pc'[q] = pc[q]
    BY <1>3 DEF Open, Write, Goto, Inv, Typed
  <2>2. Alive(p)'
    BY <2>1 DEF Alive
  <2>3. QED BY <1>1, <2>1, <2>2, FilesAreHidden
<1>4. QED BY <1>2, <1>3

\* Whatever runs do to the files, they keep the promise of the pipeline: each
\* step makes an artifact, reports, accepts, shows or gives up, or is hidden.
THEOREM PipelineKeepsItsPromise == Spec => Implements
<1>1. Init => Promise!Init
  <2> SUFFICES ASSUME Init PROVE Promise!Init
    OBVIOUS
  <2>1. \A p \in Runs : pc[p] \in {"readZac", "readZacp", "decide"} /\ exit[p] = Running
    BY DEF Init, FirstPlace
  <2>2. \A p \in Runs : Status(p) = "running" /\ Vouched(p) = {}
    BY <2>1 DEF Status, Vouched, Running
  <2>3. QED BY <2>2 DEF Init, Promise!Init, Promise!Runs, Runs, status, vouched
<1>2. Inv /\ Inv' /\ [Next]_vars => [Promise!Next]_Promise!vars
  <2>1. ASSUME Inv, Inv', NEW p \in Runs, Run(p) \/ Kill(p)
        PROVE  Promise!Next \/ UNCHANGED Promise!vars
    <3>1. SUFFICES \/ Promise!Make(p) \/ Promise!Report(p) \/ Promise!Accept(p)
                   \/ Promise!Show(p) \/ Promise!GiveUp(p)
                   \/ UNCHANGED Promise!vars
      BY DEF Promise!Next, Promise!Runs, Runs
    <3>2. CASE ReadZac(p)
      <4>1. AfterZac(p) \in {"readZacp", "decide"}
        BY DEF AfterZac
      <4>2. QED BY <2>1, <3>2, <4>1, ReadKeeps DEF ReadZac
    <3>3. CASE ReadZacp(p)
      BY <2>1, <3>3, ReadKeeps DEF ReadZacp
    <3>4. CASE Pack(p)
      BY <2>1, <3>4, PackKeeps
    <3>5. CASE Prove(p)
      BY <2>1, <3>5, ProveKeeps
    <3>6. CASE Verify(p)
      BY <2>1, <3>6, VerifyKeeps
    <3>7. CASE Inspect(p)
      BY <2>1, <3>7, InspectKeeps
    <3>8. CASE Open(p) \/ Write(p)
      BY <2>1, <3>8, OpenKeeps
    <3>9. CASE Report(p)
      BY <2>1, <3>9, ReportKeeps
    <3>10. CASE Kill(p)
      BY <2>1, <3>10, KilledGivesUp
    <3>11. QED
      BY <2>1, <3>2, <3>3, <3>4, <3>5, <3>6, <3>7, <3>8, <3>9, <3>10 DEF Run
  <2>2. CASE UNCHANGED vars
    <3>1. UNCHANGED Promise!vars
      BY <2>2 DEF vars, Promise!vars, status, vouched, Status, Vouched, Writers, Runs
    <3>2. QED BY <3>1
  <2>3. QED BY <2>1, <2>2 DEF Next
<1>3. QED BY <1>1, <1>2, InvTheorem, PTL DEF Spec, Implements, Promise!Spec
=============================================================================
