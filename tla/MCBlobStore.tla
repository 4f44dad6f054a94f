----------------------------- MODULE MCBlobStore -----------------------------
(* Two contents clients upload, and the symmetry of the blob store's        *)
(* constants, for runs without a liveness property.                         *)
EXTENDS BlobStore, TLC

CONSTANTS a, b

Whole == {<<a, b>>}
Nested == {<<a>>, <<a, b>>}

Symmetry == Permutations(Sessions) \cup Permutations(Requests)
=============================================================================
