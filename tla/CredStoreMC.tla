---------------------------- MODULE CredStoreMC ----------------------------
(* Instances of CredStore for TLC. *)
EXTENDS CredStore, TLC

\* Subs and calls are interchangeable.
Symmetry == Permutations(Subs) \cup Permutations(Calls)
=============================================================================
