------------------------------- MODULE Faults -------------------------------
(***************************************************************************)
(* A stage of a parser or verifier looks for its faults in a fixed order   *)
(* and returns the first one it meets.  The stage is written as the set of *)
(* the faults present, each with its rank in that order.                   *)
(***************************************************************************)
EXTENDS Integers

Fault(rank, code, bad) ==
  IF bad THEN {[rank |-> rank, code |-> code]} ELSE {}

\* The code of the fault that is looked for first (none if there is no fault).
Earliest(faults) ==
  {x.code : x \in {y \in faults : \A z \in faults : y.rank <= z.rank}}
=============================================================================
