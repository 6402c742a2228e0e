------------------------------ MODULE MCZacCli ------------------------------
(***************************************************************************)
(* Pipelines for TLC.                                                      *)
(***************************************************************************)
EXTENDS ZacCli

\* Two setups of different size; key k1 is packed with two sets of names.
MCKeys   == {"k1", "k2"}
MCBlocks == [k \in MCKeys |-> IF k = "k1" THEN 2 ELSE 3]
MCNames  == {"n1", "n2"}
MCSeeds  == {"fixed", "os"}

Ask(cmd, force, key, names, seed) ==
  [cmd |-> cmd, target |-> "zac", force |-> force, key |-> key,
   names |-> names, seed |-> seed, sat |-> TRUE]

\* Nobody overwrites: a race for each of the two files.
Careful ==
  [p1 |-> Ask("pack", FALSE, "k1", "n1", "fixed"),
   p2 |-> Ask("pack", FALSE, "k1", "n2", "fixed"),
   r1 |-> Ask("prove", FALSE, "k1", "n1", "fixed"),
   r2 |-> Ask("prove", FALSE, "k1", "n1", "os")]

\* Two packs of one key overwrite each other under a prove and a verify run.
Repack ==
  [p1 |-> Ask("pack", TRUE, "k1", "n1", "fixed"),
   p2 |-> Ask("pack", TRUE, "k1", "n2", "fixed"),
   r1 |-> Ask("prove", FALSE, "k1", "n1", "fixed"),
   v  |-> Ask("verify", FALSE, "k1", "n1", "fixed")]

\* Two packs of keys of different size overwrite each other.
Rekey ==
  [p1 |-> Ask("pack", TRUE, "k1", "n1", "fixed"),
   p2 |-> Ask("pack", TRUE, "k2", "n1", "fixed"),
   i  |-> Ask("inspect", FALSE, "k1", "n1", "fixed")]

\* Randomised provers overwrite each other; one witness does not satisfy.
Reprove ==
  [p1 |-> Ask("pack", FALSE, "k1", "n1", "fixed"),
   r1 |-> Ask("prove", TRUE, "k1", "n1", "os"),
   r2 |-> [Ask("prove", TRUE, "k1", "n1", "fixed") EXCEPT !.sat = FALSE],
   i  |-> [Ask("inspect", FALSE, "k1", "n1", "fixed") EXCEPT !.target = "zacp"],
   v  |-> Ask("verify", FALSE, "k1", "n1", "fixed")]

\* Two packs race for one file under a prove run.
RacePack ==
  [p1 |-> Ask("pack", FALSE, "k1", "n1", "fixed"),
   p2 |-> Ask("pack", FALSE, "k1", "n2", "fixed"),
   r1 |-> Ask("prove", FALSE, "k1", "n1", "fixed")]

\* Two proves, one with a bad witness, race for one file under a verify run.
RaceProve ==
  [p1 |-> Ask("pack", FALSE, "k1", "n1", "fixed"),
   r1 |-> [Ask("prove", FALSE, "k1", "n1", "fixed") EXCEPT !.sat = FALSE],
   r2 |-> Ask("prove", FALSE, "k1", "n1", "os"),
   v  |-> Ask("verify", FALSE, "k1", "n1", "fixed")]

MCProcs  == {"p1", "p2", "r1", "r2", "i", "v"}
MCTasks  == {Careful, Repack, Rekey, Reprove}
Races    == {Rekey, RacePack, RaceProve}
----------------------------------------------------------------------------
(***************************************************************************)
(* What the repository's texts say of the exit codes and the code does not *)
(* do.                                                                     *)
(***************************************************************************)

\* README: 2 is the rejection of a structurally valid proof because the
\* pairing equation does not hold, so that a pipeline can tell it from a tool
\* crash.  A .zac that a killed `pack` left behind gives 2 as well.
Exit2IsThePairing ==
  \A p \in Runs :
    job[p].cmd = "verify" /\ exit[p] = 2 =>
      /\ ParsesZac(got[p]["zac"]) /\ ParsesZacp(got[p]["zacp"])
      /\ Bound(got[p]["zac"], got[p]["zacp"])
=============================================================================
