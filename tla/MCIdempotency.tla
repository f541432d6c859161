--------------------------- MODULE MCIdempotency ---------------------------
(* Endpoints and symmetry for checking Idempotency on small instances. *)
EXTENDS Idempotency, TLC

MCKind(k) ==
  CASE k \in {"submit1", "submit2"}     -> "create"
    [] k \in {"register1", "register2"} -> "register"
    [] OTHER                            -> "settle"

Symmetry == Permutations(Requests) \cup Permutations(Bodies)
=============================================================================
