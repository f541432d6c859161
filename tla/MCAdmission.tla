---------------------------- MODULE MCAdmission ----------------------------
(* Symmetry and a view for checking Admission on small instances. *)
EXTENDS Admission, TLC

Symmetry == Permutations(Requests) \cup Permutations(Loops)

(* A request that is done with a time has forgotten it. *)
View == <<clock, back, db, work, lock, pc, granted,
          [r \in Requests |-> IF pc[r] \in {"limit", "limiting", "chain", "chaining", "dating"}
                                THEN now[r] ELSE 0]>>
=============================================================================
