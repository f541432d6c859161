---------------------------- MODULE MCBlobStore ----------------------------
(* Symmetry and prefixes for checking BlobStore on small instances. *)
EXTENDS BlobStore, TLC

(* The digests share their first two digits. *)
MCPrefix(d) == "ab"

Symmetry == Permutations(Writers) \cup Permutations(Digests)
=============================================================================
