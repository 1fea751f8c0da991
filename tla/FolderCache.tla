----------------------------- MODULE FolderCache -----------------------------
(***************************************************************************)
(* What the caches of special folders promise for each cell, the folder of *)
(* one kind of one account: however many calls want it at once, a single   *)
(* listing is asked, and what it finds is kept until the caches are        *)
(* cleared.  A listing the clearing overtakes serves the calls that wait   *)
(* for it, and is never kept.                                              *)
(***************************************************************************)
CONSTANTS Cells, Calls, Paths, None

VARIABLES
  asker,  \* of each cell, the call whose listing is to fill it
  kept,   \* of each cell, the folder in it
  stray   \* calls whose listing a clearing has overtaken

vars == <<asker, kept, stray>>

NoAsker == [x \in Cells |-> None]

Init ==
  /\ asker = NoAsker
  /\ kept = [x \in Cells |-> None]
  /\ stray = {}

Ask(x, c) ==
  /\ asker[x] = None /\ kept[x] = None
  /\ c \notin stray /\ \A y \in Cells : asker[y] # c
  /\ asker' = [asker EXCEPT ![x] = c]
  /\ UNCHANGED <<kept, stray>>

Keep(x, path) ==
  /\ asker[x] # None
  /\ asker' = [asker EXCEPT ![x] = None]
  /\ kept' = [kept EXCEPT ![x] = path]
  /\ UNCHANGED stray

Drop(c) ==
  /\ c \in stray
  /\ stray' = stray \ {c}
  /\ UNCHANGED <<asker, kept>>

Clear ==
  /\ asker' = NoAsker
  /\ kept' = [x \in Cells |-> None]
  /\ stray' = stray \cup {c \in Calls : \E x \in Cells : asker[x] = c}

Next ==
  \/ Clear
  \/ \E c \in Calls : Drop(c)
  \/ \E x \in Cells :
       \/ \E c \in Calls : Ask(x, c)
       \/ \E path \in Paths : Keep(x, path)

Spec == Init /\ [][Next]_vars
=============================================================================
