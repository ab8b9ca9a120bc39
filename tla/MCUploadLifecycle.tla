-------------------------- MODULE MCUploadLifecycle --------------------------
(* Instances of UploadLifecycle for TLC. *)
EXTENDS UploadLifecycle, TLC

\* Request slots are interchangeable.
Symmetry == Permutations(Requests)
=============================================================================
