------------------------------- MODULE ZacCli -------------------------------
(***************************************************************************)
(* Runs of the command line on shared files: `pack` writes a .zac, `prove` *)
(* reads it and writes a .zacp, `verify` reads both, `inspect` (and        *)
(* `hash`, which takes the same decisions) reads either.  Runs interleave  *)
(* between any two system calls and can be killed between any two.         *)
(*                                                                         *)
(* A file is a sequence of blocks, the pieces that read and write calls    *)
(* move.  The code reads into memory first and writes in place, with no    *)
(* temporary file, rename or lock.                                         *)
(***************************************************************************)
EXTENDS Naturals, Sequences

CONSTANTS Procs,   \* runs
          Tasks,   \* what the runs may be asked to do: functions from some of Procs
          Keys,    \* verifying keys: one for each trusted setup
          Blocks,  \* key -> the blocks of its .zac and .zacp files
          Names,   \* values of --names: two .zac may share a key
          Seeds    \* of the blinding scalars; fixed without --randomize

Paths == {"zac", "zacp"}

\* target: the file `inspect` reads.  key: the setup of the .zkey given to
\* `pack` or `prove`.  sat: the .wtns satisfies the circuit.
JobType == [cmd : {"pack", "prove", "verify", "inspect"}, target : Paths,
            force : BOOLEAN, key : Keys, names : Names, seed : Seeds,
            sat : BOOLEAN]

ASSUME BlocksAssumption == Blocks \in [Keys -> Nat \ {0}]
ASSUME TasksAssumption ==
  \A t \in Tasks : DOMAIN t \subseteq Procs /\ t \in [DOMAIN t -> JobType]

VARIABLES job,   \* run -> what it was asked to do
          fs,    \* path -> its blocks, or Absent
          pc,    \* run -> where it is
          got,   \* run -> path -> the blocks it has read
          out,   \* run -> the artifact it built, or NoArt
          pos,   \* run -> blocks written
          exit   \* run -> exit code, or Running

vars == <<job, fs, pc, got, out, pos, exit>>

Containers == [kind : {"zac"}, key : Keys, names : Names]
\* A .zacp names the .zac it was made for (key and names).
Proofs     == [kind : {"zacp"}, key : Keys, names : Names, seed : Seeds,
               sat : BOOLEAN]
NoArt      == [kind |-> "none"]

Hole    == [n |-> 0]
Absent  == <<[n |-> "absent"]>>
Running == 255

Whole(a) == [n \in 1 .. Blocks[a.key] |-> [of |-> a, n |-> n]]
Places   == {"readZac", "readZacp", "decide", "open", "write", "report",
             "exited", "killed"}

Output(p)   == IF job[p].cmd = "pack" THEN "zac" ELSE "zacp"
Runs        == DOMAIN job
Writers     == {p \in Runs : job[p].cmd \in {"pack", "prove"}}
Alive(p)    == pc[p] \notin {"exited", "killed"}
InOutput(p) == pc[p] \in {"write", "report"}
----------------------------------------------------------------------------
(***************************************************************************)
(* The library calls, by what they decide on the bytes read.               *)
(***************************************************************************)

\* Variant: the trailer's hash is not compared.
ParsesZacUnhashed(d) ==
  d # <<>> /\ d[1] # Hole /\ Len(d) = Blocks[d[1].of.key]

\* ZacFile::parse: the length is exact and the trailer hashes every block, so
\* only the blocks of one artifact in their places pass.
ParsesZac(d) == \E a \in Containers : d = Whole(a)

\* ZacProofFile::parse: header and length.  Nothing covers the other blocks.
ParsesZacp(d) == d # <<>> /\ d[1] # Hole /\ Len(d) = Blocks[d[1].of.key]

Container(d) == d[1].of

\* Variant: the file hash is not compared.
BoundToKey(zac, zacp) == zacp[1].of.key = Container(zac).key

\* verify, steps 2 and 3: vk_fingerprint (E014), then zac_file_hash (E009).
Bound(zac, zacp) ==
  /\ zacp[1].of.key = Container(zac).key
  /\ zacp[1].of.names = Container(zac).names

\* The pairing holds of one proof's own blocks, if its witness satisfied the
\* circuit of the key.
PairingHolds(zac, zacp) ==
  /\ zacp = Whole(zacp[1].of)
  /\ zacp[1].of.sat
  /\ zacp[1].of.key = Container(zac).key
----------------------------------------------------------------------------
FirstPlace(task) ==
  CASE task.cmd = "pack" -> "decide"
    [] task.cmd = "inspect" /\ task.target = "zacp" -> "readZacp"
    [] OTHER -> "readZac"

Init ==
  /\ job \in Tasks
  /\ fs   = [path \in Paths |-> Absent]
  /\ pc   = [p \in Runs |-> FirstPlace(job[p])]
  /\ got  = [p \in Runs |-> [path \in Paths |-> <<>>]]
  /\ out  = [p \in Runs |-> NoArt]
  /\ pos  = [p \in Runs |-> 0]
  /\ exit = [p \in Runs |-> Running]

Goto(p, place) == pc' = [pc EXCEPT ![p] = place]

\* Variant: the code is set but the run goes on.
ExitLater(p, code) == exit' = [exit EXCEPT ![p] = code] /\ UNCHANGED pc

\* main: Ok is 0, CliError::Reject is 2, CliError::Io is 3.  Every error the
\* commands return is one of the two.
Exit(p, code) == Goto(p, "exited") /\ exit' = [exit EXCEPT ![p] = code]

AfterZac(p) == IF job[p].cmd = "verify" THEN "readZacp" ELSE "decide"

\* One read call of fs::read: a block, the end of the file, or an error.
Read(p, path, next) ==
  LET at == Len(got[p][path]) IN
  \/ /\ fs[path] # Absent /\ at < Len(fs[path])
     /\ got' = [got EXCEPT ![p][path] = Append(@, fs[path][at + 1])]
     /\ UNCHANGED <<job, fs, pc, out, pos, exit>>
  \/ /\ fs[path] # Absent /\ at >= Len(fs[path])
     /\ Goto(p, next)
     /\ UNCHANGED <<job, fs, got, out, pos, exit>>
  \/ /\ Exit(p, 3)
     /\ UNCHANGED <<job, fs, got, out, pos>>

ReadZac(p)  == pc[p] = "readZac" /\ Read(p, "zac", AfterZac(p))
ReadZacp(p) == pc[p] = "readZacp" /\ Read(p, "zacp", "decide")

Build(p, artifact) ==
  /\ out' = [out EXCEPT ![p] = artifact]
  /\ Goto(p, "open")
  /\ UNCHANGED <<job, fs, got, pos, exit>>

Refuse(p, code) == Exit(p, code) /\ UNCHANGED <<job, fs, got, out, pos>>

\* pack::run up to write_output: reads and parses the .zkey and .r1cs, builds
\* the container, parses it back.
Pack(p) ==
  /\ pc[p] = "decide" /\ job[p].cmd = "pack"
  /\ \/ Build(p, [kind |-> "zac", key |-> job[p].key, names |-> job[p].names])
     \/ Refuse(p, 3)

\* prove_with_rng: a witness of the wrong shape is refused before the proof is
\* made, a key that is not the container's after.
MadeProofs(p, zac) ==
  IF Container(zac).key = job[p].key
  THEN {[kind |-> "zacp", key |-> job[p].key, names |-> Container(zac).names,
         seed |-> job[p].seed, sat |-> job[p].sat]}
  ELSE {}

\* prove::run up to write_output.  The .zkey and .wtns are read and parsed
\* between the reading and the parsing of the .zac (3); what prove_with_rng
\* refuses is 2.
Prove(p) ==
  /\ pc[p] = "decide" /\ job[p].cmd = "prove"
  /\ \/ Refuse(p, 3)
     \/ /\ ParsesZac(got[p]["zac"])
        /\ \/ Refuse(p, 2)
           \/ \E proof \in MadeProofs(p, got[p]["zac"]) : Build(p, proof)

\* Variant: verify stops at the binding.
AcceptsUnpaired(zac, zacp) ==
  ParsesZac(zac) /\ ParsesZacp(zacp) /\ Bound(zac, zacp)

Accepts(zac, zacp) ==
  /\ ParsesZac(zac) /\ ParsesZacp(zacp)
  /\ Bound(zac, zacp) /\ PairingHolds(zac, zacp)

\* verify::run after both files are in memory.
Verify(p) ==
  /\ pc[p] = "decide" /\ job[p].cmd = "verify"
  /\ Refuse(p, IF Accepts(got[p]["zac"], got[p]["zacp"]) THEN 0 ELSE 2)

\* inspect::run and hash::run: the magic picks the parser, an empty file has
\* none.
Inspect(p) ==
  /\ pc[p] = "decide" /\ job[p].cmd = "inspect"
  /\ LET d == got[p][job[p].target] IN
     Refuse(p, IF IF job[p].target = "zac" THEN ParsesZac(d) ELSE ParsesZacp(d)
               THEN 0 ELSE 2)

\* Variant: an existing file is opened whether or not --force is given.
OpenAlways(p) ==
  /\ pc[p] = "open"
  /\ fs' = [fs EXCEPT ![Output(p)] = <<>>]
  /\ Goto(p, "write")
  /\ UNCHANGED <<job, got, out, pos, exit>>

\* Variant: --force does not truncate.
OpenInPlace(p) ==
  /\ pc[p] = "open"
  /\ job[p].force \/ fs[Output(p)] = Absent
  /\ fs' = [fs EXCEPT ![Output(p)] = IF @ = Absent THEN <<>> ELSE @]
  /\ Goto(p, "write")
  /\ UNCHANGED <<job, got, out, pos, exit>>

\* write_output opens the file: create_new without --force, create and
\* truncate with it.
Open(p) ==
  /\ pc[p] = "open"
  /\ \/ /\ job[p].force \/ fs[Output(p)] = Absent
        /\ fs' = [fs EXCEPT ![Output(p)] = <<>>]
        /\ Goto(p, "write")
        /\ UNCHANGED <<job, got, out, pos, exit>>
     \/ Refuse(p, 3)

\* Variant: the file is opened for appending.
PutAtEnd(d, n, b) == Append(d, b)

\* The blocks of d with b at place n; what lies between reads as zero bytes.
Put(d, n, b) ==
  [k \in 1 .. (IF n > Len(d) THEN n ELSE Len(d)) |->
     IF k = n THEN b ELSE IF k > Len(d) THEN Hole ELSE d[k]]

\* Variant: the loop runs once too often.
WriteOneMore(p) ==
  /\ pc[p] = "write"
  /\ fs' = [fs EXCEPT ![Output(p)] =
              Put(@, pos[p] + 1, [of |-> out[p], n |-> pos[p] + 1])]
  /\ pos' = [pos EXCEPT ![p] = @ + 1]
  /\ Goto(p, IF pos[p] = Blocks[out[p].key] THEN "report" ELSE "write")
  /\ UNCHANGED <<job, got, out, exit>>

\* One write call of write_all, at this run's own offset.
Write(p) ==
  /\ pc[p] = "write"
  /\ \/ /\ fs' = [fs EXCEPT ![Output(p)] =
                    Put(@, pos[p] + 1, [of |-> out[p], n |-> pos[p] + 1])]
        /\ pos' = [pos EXCEPT ![p] = @ + 1]
        /\ Goto(p, IF pos[p] + 1 = Blocks[out[p].key] THEN "report" ELSE "write")
        /\ UNCHANGED <<job, got, out, exit>>
     \/ Refuse(p, 3)

\* The summary is printed, the run ends.
Report(p) == pc[p] = "report" /\ Refuse(p, 0)

\* SIGKILL, or SIGPIPE while printing: no code, the file stays as it is.
Kill(p) ==
  /\ Alive(p)
  /\ Goto(p, "killed")
  /\ UNCHANGED <<job, fs, got, out, pos, exit>>

Run(p) == \/ ReadZac(p) \/ ReadZacp(p)
          \/ Pack(p) \/ Prove(p) \/ Verify(p) \/ Inspect(p)
          \/ Open(p) \/ Write(p) \/ Report(p)

Next == \E p \in Runs : Run(p) \/ Kill(p)

\* The operating system schedules every live run; nothing in the code waits.
Fairness == \A p \in Procs : WF_vars(p \in Runs /\ Run(p))

Spec == Init /\ [][Next]_vars /\ Fairness
----------------------------------------------------------------------------
(***************************************************************************)
(* Properties.                                                             *)
(***************************************************************************)
DataOK(d) ==
  \A n \in 1 .. Len(d) :
    d[n] = Hole \/ (d[n].n = n /\ n <= Blocks[d[n].of.key])

\* Types; a block in a file is at the place its artifact has it; exactly the
\* runs that ended by themselves have a code.
TypeOK ==
  /\ DOMAIN fs = Paths
  /\ \A path \in Paths : fs[path] = Absent \/ DataOK(fs[path])
  /\ \A p \in Runs :
       /\ pc[p] \in Places
       /\ \A path \in Paths : DataOK(got[p][path])
       /\ out[p] \in {NoArt} \cup Containers \cup Proofs
       /\ InOutput(p) => out[p] # NoArt /\ pos[p] \in 0 .. Blocks[out[p].key]
       /\ exit[p] \in {0, 2, 3, Running}
       /\ pc[p] = "exited" <=> exit[p] # Running

Used(p) == job[p].cmd = "prove" /\ out[p] # NoArt
Passed(p, cmd) == job[p].cmd = cmd /\ exit[p] = 0

\* No interleaving of writers, crashes and readers makes a run use a .zac that
\* no single `pack` wrote: prove goes on to a proof, verify and inspect report
\* success, only after reading one container whole.
NoTornContainer ==
  \A p \in Runs :
    Used(p) \/ Passed(p, "verify")
      \/ (Passed(p, "inspect") /\ job[p].target = "zac") =>
      \E q \in Runs :
        job[q].cmd = "pack" /\ out[q] # NoArt /\ got[p]["zac"] = Whole(out[q])

\* `verify` exits 0 only on a proof that one `prove` run made, from a
\* satisfying witness and from the very .zac that `verify` read, however the
\* files were rewritten in between.
AcceptedPairIsGenuine ==
  \A p \in Runs :
    Passed(p, "verify") =>
      \E q \in Runs :
        /\ Used(q) /\ job[q].sat
        /\ got[p]["zacp"] = Whole(out[q])
        /\ got[p]["zac"] = got[q]["zac"]

\* Where nobody passes --force, a run that exits 0 has its artifact in the
\* file for good, and no second run writes it.
CreatorKeepsTheFile ==
  \A p \in Writers :
    /\ \A q \in Writers : Output(q) = Output(p) => ~ job[q].force
    => /\ exit[p] = 0 => fs[Output(p)] = Whole(out[p])
       /\ InOutput(p) =>
            \A q \in Writers \ {p} : Output(q) = Output(p) => ~ InOutput(q)

\* No two runs are between opening a path for writing and exiting.
OneWriterAtATime ==
  \A p, q \in Writers :
    p # q /\ Output(p) = Output(q) => ~ (InOutput(p) /\ InOutput(q))

\* What a writer that is about to report success has left in its file.
ReportedIsWhole ==
  \A p \in Writers : pc[p] = "report" => fs[Output(p)] = Whole(out[p])

\* Runs that do not overlap leave a whole file behind, whatever was there:
\* an older file, a longer one, the remains of a run that was killed.
TakingTurnsIsEnough == []OneWriterAtATime => []ReportedIsWhole

\* Every run ends, whatever the others do to the files it reads and writes.
EveryRunEnds == \A p \in Procs : <>(p \in Runs => ~ Alive(p))
----------------------------------------------------------------------------
\* How a run has ended, and what its code 0 speaks for: a writer's artifact,
\* those whose headers a reader has read.
Status(p) ==
  CASE pc[p] = "killed"                      -> "killed"
    [] pc[p] # "killed" /\ exit[p] = 0       -> "ok"
    [] pc[p] # "killed" /\ exit[p] = Running -> "running"
    [] OTHER                                 -> "refused"

Vouched(p) ==
  IF exit[p] # 0 THEN {}
  ELSE IF p \in Writers THEN {out[p]}
  ELSE {got[p][path][1].of :
          path \in IF job[p].cmd = "verify" THEN Paths ELSE {job[p].target}}

status  == [p \in Runs |-> Status(p)]
vouched == [p \in Runs |-> Vouched(p)]

Promise == INSTANCE Pipeline WITH made <- out

\* Torn, mixed and vanishing files, races and crashes change nothing in what
\* the commands promise of artifacts.
Implements == Promise!Spec
----------------------------------------------------------------------------
(***************************************************************************)
(* The inductive invariant.                                                *)
(***************************************************************************)
Artifacts == Containers \cup Proofs
Block == [of : Artifacts, n : Nat] \cup {Hole}

Typed ==
  /\ job \in Tasks
  /\ fs \in [Paths -> {Absent} \cup Seq(Block)]
  /\ pc \in [Runs -> Places]
  /\ got \in [Runs -> [Paths -> Seq(Block)]]
  /\ out \in [Runs -> {NoArt} \cup Artifacts]
  /\ pos \in [Runs -> Nat]
  /\ exit \in [Runs -> {0, 2, 3, Running}]

\* A writer that holds its file open or has reported success.
Opened(p) == p \in Writers /\ (InOutput(p) \/ exit[p] = 0)

\* A run has an artifact once it has decided, made from its job and from what
\* it had read by then; a code, once it has exited.
Artifact(p) ==
  /\ out[p] # NoArt =>
       /\ p \in Writers
       /\ pc[p] \notin {"readZac", "readZacp", "decide"}
       /\ job[p].cmd = "pack" =>
            out[p] = [kind |-> "zac", key |-> job[p].key,
                      names |-> job[p].names]
       /\ job[p].cmd = "prove" =>
            /\ ParsesZac(got[p]["zac"])
            /\ out[p] \in MadeProofs(p, got[p]["zac"])
  /\ pc[p] = "open" => out[p] # NoArt /\ pos[p] = 0
  /\ pc[p] = "decide" => pos[p] = 0
  /\ pc[p] \in {"readZac", "readZacp"} => pos[p] = 0
  /\ pc[p] = "write" => out[p] # NoArt /\ pos[p] < Blocks[out[p].key]
  /\ pc[p] = "report" => out[p] # NoArt /\ pos[p] = Blocks[out[p].key]
  /\ Opened(p) /\ exit[p] = 0 =>
       out[p] # NoArt /\ pos[p] = Blocks[out[p].key]
  /\ pc[p] = "exited" <=> exit[p] # Running

\* The artifacts made so far to be written to path.
Made(path) ==
  {out[q] : q \in {w \in Writers : Output(w) = path}} \cap Artifacts

\* Each block of d is at its own place in one of the artifacts.
MadeOf(d, artifacts) ==
  \A n \in 1 .. Len(d) :
    d[n] # Hole =>
      \E a \in artifacts : n <= Blocks[a.key] /\ d[n] = [of |-> a, n |-> n]

Provenance ==
  \A path \in Paths :
    /\ fs[path] # Absent => MadeOf(fs[path], Made(path))
    /\ \A p \in Runs : MadeOf(got[p][path], Made(path))

\* A code 0 of a reader was decided on what it still has in memory.
Verdicts ==
  \A p \in Runs :
    /\ Passed(p, "verify") => Accepts(got[p]["zac"], got[p]["zacp"])
    /\ Passed(p, "inspect") /\ job[p].target = "zac" =>
         ParsesZac(got[p]["zac"])

Unforced(path) == \A q \in Writers : Output(q) = path => ~ job[q].force

\* The blocks that p has written, and nothing else.
Written(p) == [n \in 1 .. pos[p] |-> [of |-> out[p], n |-> n]]

\* create_new as a lock that is never released: the file is there for good
\* and its one creator's.
Creators ==
  \A p \in Runs :
    Opened(p) =>
      /\ fs[Output(p)] # Absent
      /\ Unforced(Output(p)) =>
           /\ fs[Output(p)] = Written(p)
           /\ \A q \in Runs : Opened(q) /\ Output(q) = Output(p) => q = p

\* What every step preserves; TypeOK, NoTornContainer, AcceptedPairIsGenuine
\* and CreatorKeepsTheFile follow.
Inv == Typed /\ (\A p \in Runs : Artifact(p)) /\ Provenance /\ Verdicts /\ Creators

\* What every step preserves besides, as long as writers take turns.
InTurn ==
  \A p \in Runs : p \in Writers /\ InOutput(p) => fs[Output(p)] = Written(p)
=============================================================================
