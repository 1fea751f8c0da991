------------------------- MODULE DeviceCodeMergesMC -------------------------
(* An instance of DeviceCodeMerges for TLC. *)
EXTENDS DeviceCodeMerges, TLC

\* The elements of each constant set are interchangeable; used with invariants.
Symmetry == Permutations(Subs) \cup Permutations(Emails) \cup Permutations(Tasks)

\* Polls are told apart by what they do, whatever place they take, and a code that can
\* no longer be approved or redeemed is over, for whatever reason.
Polling == {poll[p] : p \in Polls}
Over(c) == c \in lapsed \/ status[c] \in Dead

View == <<store, ram, task, listed, owner, lapsed, resets, restarts, raced,
          [c \in Codes |-> IF Over(c) THEN "over" ELSE status[c]],
          [x \in Polling |-> Cardinality({p \in Polls : poll[p] = x})]>>
=============================================================================
