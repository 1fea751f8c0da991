---------------------------- MODULE DeviceCodeMC ----------------------------
(* Instances of DeviceCode for TLC. *)
EXTENDS DeviceCode, TLC

\* The elements of each constant set are interchangeable; used with invariants.
Symmetry == Permutations(Subs) \cup Permutations(Emails) \cup Permutations(Tasks)
=============================================================================
