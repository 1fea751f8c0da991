---------------------------- MODULE TokenFileMC ----------------------------
(* An instance of TokenFile for TLC. *)
EXTENDS TokenFile, TLC

\* Mailboxes, tokens and calls are interchangeable.
Symmetry == Permutations(Emails) \cup Permutations(Tokens) \cup Permutations(Calls)
=============================================================================
