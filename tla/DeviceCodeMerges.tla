-------------------------- MODULE DeviceCodeMerges --------------------------
(***************************************************************************)
(* DeviceCode with a history variable: what the merges of saveTokens,      *)
(* persistPendingDeviceCode and clearPendingDeviceCode preserve, and when. *)
(***************************************************************************)
EXTENDS DeviceCode

VARIABLE raced  \* the subs whose store requests overlapped or failed

\* The store requests of s that are in flight.
TasksAt(s) ==
  {t \in Tasks : /\ task[t].sub = s
                 /\ task[t].pc \in {"submitting", "persisting", "storing", "loading",
                                    "resetting"}}
PollsAt(s) ==
  {p \in Polls : /\ poll[p].sub = s
                 /\ poll[p].pc \in {"merging", "storing", "clearing", "dropping"}}

\* Two store requests of s are in flight.
Overlap(s) ==
  \/ \E t, u \in TasksAt(s) : t # u
  \/ \E p, q \in PollsAt(s) : p # q
  \/ TasksAt(s) # {} /\ PollsAt(s) # {}

\* None is, and the cache agrees with KV.
Settled(s) ==
  /\ TasksAt(s) = {}
  /\ PollsAt(s) = {}
  /\ cache[s] \in {None, kv[s]}

\* From an overlap or a failure on, until s settles.
Raced ==
  raced' = {s \in Subs :
              \/ Overlap(s)'
              \/ (s \in raced \/ kvFailures' # kvFailures) /\ ~Settled(s)'}

MergeInit == Init /\ raced = {}

MergeNext == Next /\ Raced

MergeSpec == MergeInit /\ [][MergeNext]_<<vars, raced>>

-----------------------------------------------------------------------------

Keeps(old, new) ==
  /\ new # None
  /\ Accounts(old) \subseteq Accounts(new)
  /\ \A e \in Emails : old.tokens[e] # None => new.tokens[e] # None

\* "this load-then-save is atomic enough" (saveTokens): of a blob that a load trusts,
\* only the form and the reset take accounts or tokens out, through cold reads after
\* a restart or a reset and through writes that were left in the air by a restart.
\* That is so as long as no two store requests of the sub overlap and none fails; two
\* that do can lose what either stored.
MergePreserves ==
  [][\A s \in Subs : s \notin raced /\ Trusted(kv[s]) # None =>
       \/ Keeps(kv[s], kv'[s])
       \/ \E t \in Tasks :
            task[t].sub = s /\ task[t].pc \in {"submitting", "resetting"}]_<<vars, raced>>

=============================================================================
