---------------------------- MODULE MCJobService ----------------------------
(* Values for checking JobService on small instances.                      *)
EXTENDS JobService, TLC

(* "good" is accepted against any release, "once" duplicates the release   *)
(* it was accepted into, and "leak" leaks the holdout.                     *)
MCVerdict(c, s, n) ==
  CASE c = "good" -> "accept"
    [] c = "once" -> IF n = 0 THEN "accept" ELSE "reject"
    [] c = "leak" -> "leak"

Symmetry == Permutations(Clients) \cup Permutations(Workers)
=============================================================================
