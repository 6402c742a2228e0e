------------------------------ MODULE Pipeline ------------------------------
(***************************************************************************)
(* What the commands promise to whoever chains them, whatever becomes of   *)
(* the files in between.  There are no files here: a run makes an artifact *)
(* once and at one stroke, a later one uses the whole of it, and success   *)
(* is the last thing a run reports.                                        *)
(***************************************************************************)
CONSTANTS Tasks, \* what the runs may be asked to do
          NoArt  \* no artifact

VARIABLES job,     \* run -> what it was asked to do
          made,    \* run -> the artifact it made, or NoArt
          status,  \* run -> "running", or how it ended
          vouched  \* run -> the artifacts its success speaks for

vars == <<job, made, status, vouched>>

Runs     == DOMAIN job
Makes(p) == job[p].cmd \in {"pack", "prove"}

\* The artifacts of one kind that have been made.
Available(kind) == {made[q] : q \in {r \in Runs : made[r] # NoArt /\ made[r].kind = kind}}

ContainerOf(j) == [kind |-> "zac", key |-> j.key, names |-> j.names]

\* The proof a `prove` run makes for container c.
ProofFor(j, c) ==
  [kind |-> "zacp", key |-> j.key, names |-> c.names, seed |-> j.seed, sat |-> j.sat]

\* A satisfying proof, made for this container.
ProofIsFor(proof, c) == proof.sat /\ proof.key = c.key /\ proof.names = c.names
----------------------------------------------------------------------------
Init ==
  /\ job \in Tasks
  /\ made    = [p \in Runs |-> NoArt]
  /\ status  = [p \in Runs |-> "running"]
  /\ vouched = [p \in Runs |-> {}]

\* `pack` makes the container it was asked for; `prove` a proof, of its own
\* key, for a container that has been made.
Make(p) ==
  /\ status[p] = "running" /\ made[p] = NoArt
  /\ \/ /\ job[p].cmd = "pack"
        /\ made' = [made EXCEPT ![p] = ContainerOf(job[p])]
     \/ /\ job[p].cmd = "prove"
        /\ \E c \in Available("zac") :
             /\ c.key = job[p].key
             /\ made' = [made EXCEPT ![p] = ProofFor(job[p], c)]
  /\ UNCHANGED <<job, status, vouched>>

\* Runs that write the same file.
Rivals(p) == {q \in Runs : q # p /\ job[q].cmd = job[p].cmd}

\* Where nobody passes --force, one writer of a file succeeds at most.
MaySucceed(p) ==
  (\A q \in Rivals(p) \cup {p} : ~ job[q].force) =>
    \A q \in Rivals(p) : status[q] # "ok"

Vouch(p, artifacts) ==
  /\ status[p] = "running"
  /\ status'  = [status EXCEPT ![p] = "ok"]
  /\ vouched' = [vouched EXCEPT ![p] = artifacts]
  /\ UNCHANGED <<job, made>>

\* A writer reports success, of what it has made.
Report(p) ==
  /\ Makes(p) /\ made[p] # NoArt /\ MaySucceed(p)
  /\ Vouch(p, {made[p]})

\* `verify` accepts a container and a proof that was made for it.
Accept(p) ==
  /\ job[p].cmd = "verify"
  /\ \E c \in Available("zac"), proof \in Available("zacp") :
       ProofIsFor(proof, c) /\ Vouch(p, {c, proof})

\* `inspect` shows an artifact that has been made.
Show(p) ==
  /\ job[p].cmd = "inspect"
  /\ \E a \in Available(job[p].target) : Vouch(p, {a})

\* Any run may end without success at any time.
GiveUp(p) ==
  /\ status[p] = "running"
  /\ \E end \in {"refused", "killed"} : status' = [status EXCEPT ![p] = end]
  /\ UNCHANGED <<job, made, vouched>>

Next == \E p \in Runs : Make(p) \/ Report(p) \/ Accept(p) \/ Show(p) \/ GiveUp(p)

Spec == Init /\ [][Next]_vars
=============================================================================
