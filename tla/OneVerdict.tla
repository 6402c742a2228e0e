----------------------------- MODULE OneVerdict -----------------------------
(***************************************************************************)
(* What a parser promises: it gives one verdict on the file it was handed, *)
(* "accepted" exactly for the good ones, and leaves the file alone.  For   *)
(* a file it cannot measure it may panic instead.                          *)
(***************************************************************************)
CONSTANTS Good(_),        \* the files the format allows
          Unmeasurable(_) \* the files whose parsing may panic

VARIABLES file, verdict

Init == verdict = "pending"

Accept == Good(file) /\ verdict' = "accepted"
Reject == ~ Good(file) /\ verdict' = "rejected"
Panic  == Unmeasurable(file) /\ verdict' = "panicked"

Next ==
  /\ verdict = "pending" /\ UNCHANGED file
  /\ Accept \/ Reject \/ Panic

Spec == Init /\ [][Next]_<<file, verdict>>
=============================================================================
