------------------------- MODULE MailboxTools_proofs -------------------------
(***************************************************************************)
(* Theorems about MailboxTools, for any forms, mailboxes, calls, requests, *)
(* folders and bounds.                                                     *)
(***************************************************************************)
EXTENDS MailboxTools, FormPromise_proofs, TLAPS

-----------------------------------------------------------------------------
(* The inductive invariant. *)

\* A call whose listing is asked for, and one that awaits such a listing.
Asking == {c \in Calls : stage[c] = "list"}

AskOK(c) ==
  stage[c] = "list" =>
    /\ pc[c] \in {"connect", "work", "logout"}
    /\ pc[c] = "logout" /\ ok[c] => found[c] \in Paths

AwaitOK(c) ==
  pc[c] = "await" =>
    /\ waits[c] \in Asking
    /\ cellOf(waits[c]) = cellOf(c)
    /\ since[waits[c]] = since[c]
    /\ stage[c] = "act"

TaskOK(c) ==
  /\ pc[c] \in {"await", "connect", "work", "logout"} => task[c] \in Tasks
  /\ pc[c] \in {"idle", "done"} => stage[c] = "act"
  /\ pc[c] = "await" \/ stage[c] = "list" => looksUp(task[c].op)
  /\ pc[c] = "work" => SignsIn(task[c].account)

\* The promise in a cell is that of a call that asks for its folder, and was not
\* cleared since; nor was the folder in it.
CellOK(k, i) ==
  /\ cache[k][i].by # None =>
       /\ cache[k][i].by \in Asking
       /\ cellOf(cache[k][i].by) = <<k, i>>
       /\ since[cache[k][i].by] = clears
  /\ cache[k][i].path # None => asked[k][i] = clears

FolderOK(c) ==
  /\ pc[c] \in {"connect", "work", "logout"} /\ stage[c] = "act" /\ looksUp(task[c].op)
     => asof[c] = since[c]

ToolsInv ==
  /\ TypeOK
  /\ \A c \in Calls : AskOK(c) /\ AwaitOK(c) /\ TaskOK(c) /\ FolderOK(c)
  /\ \A k \in Kinds, i \in Ids : CellOK(k, i)

-----------------------------------------------------------------------------
(* Folders. *)

\* The first of several places.
LEMMA MinIsIn ==
  ASSUME NEW T, T \subseteq Nat, T # {}
  PROVE  Min(T) \in T
<1>1. PICK x \in T : \A y \in T : x <= y
  BY Least
<1>2. QED
  BY <1>1 DEF Min

\* resolveSentFolder and resolveArchiveFolder come to a folder of the listing, or
\* to the usual one.
LEMMA DefaultKnown ==
  ASSUME NEW k \in Kinds, NEW host
  PROVE  defaultFolder(k, host) \in Paths
BY DEF defaultFolder, Usual, Paths

LEMMA SpecialKnown ==
  ASSUME NEW k \in Kinds, NEW host, NEW l \in Shown
  PROVE  specialFolder(k, host, l) \in Paths
<1> DEFINE usual == defaultFolder(k, host)
           fits(f) == IF k = "archive" THEN isArchiveFolder(f) ELSE isSentFolder(f, usual)
           at == {i \in DOMAIN l : fits(l[i])}
<1>1. DOMAIN l \subseteq Nat
  BY ListingsKnown DEF Shown
<1>2. usual \in Paths
  BY DefaultKnown
<1>3. \A i \in DOMAIN l : l[i].path \in Paths
  BY DEF Paths
<1>4. at # {} => Min(at) \in at
  <2>1. at \subseteq Nat
    BY <1>1
  <2> HIDE DEF at
  <2>2. QED
    BY <2>1, MinIsIn
<1>5. specialFolder(k, host, l) = IF at = {} THEN usual ELSE l[Min(at)].path
  BY DEF specialFolder
<1> HIDE DEF usual, fits
<1>6. QED
  BY <1>2, <1>3, <1>4, <1>5

-----------------------------------------------------------------------------
(* The invariant holds at first, and every action keeps it. *)

LEMMA InitInv == Init => ToolsInv
<1> SUFFICES ASSUME Init PROVE ToolsInv
  OBVIOUS
<1>1. accounts \in Seq(Account)
  BY FormsRead DEF Init
<1>2. Empty \in Cell
  BY DEF Empty, Cell
<1>3. mail \subseteq Copies
  BY MailKnown DEF Init, Copies
<1>4. listing \in [Mailboxes -> Shown]
  BY DEF Init, Shown
<1>5. forms \in 0 .. MaxForms /\ clears \in 0 .. MaxClears /\ 0 \in 0 .. MaxClears
  BY BoundsNat DEF Init
<1>6. TypeOK
  BY <1>1, <1>2, <1>3, <1>4, <1>5 DEF Init, TypeOK, Targets
<1>7. \A c \in Calls : AskOK(c) /\ AwaitOK(c) /\ TaskOK(c) /\ FolderOK(c)
  BY DEF Init, AskOK, AwaitOK, TaskOK, FolderOK
<1>8. \A k \in Kinds, i \in Ids : CellOK(k, i)
  BY DEF Init, CellOK, Empty
<1>9. QED
  BY <1>6, <1>7, <1>8 DEF ToolsInv

\* A step of the session of c, which changes neither a cell, nor who awaits whom.
LEMMA SessionStep ==
  ASSUME ToolsInv, NEW c \in Calls, NEW p \in {"work", "logout"},
         UNCHANGED session, UNCHANGED listing,
         pc[c] \in {"connect", "work"}, pc' = [pc EXCEPT ![c] = p],
         p = "work" => SignsIn(task[c].account),
         found' \in [Calls -> Paths \cup {None}], ok' \in [Calls -> BOOLEAN],
         \A d \in Calls \ {c} : found'[d] = found[d] /\ ok'[d] = ok[d],
         stage[c] = "list" /\ p = "logout" /\ ok'[c] => found'[c] \in Paths,
         sessions' \subseteq Calls, mail' \subseteq Copies
  PROVE  ToolsInv'
<1>1. TypeOK'
  BY DEF ToolsInv, TypeOK, session, history
<1>2. \A d \in Calls : pc'[d] = IF d = c THEN p ELSE pc[d]
  BY DEF ToolsInv, TypeOK
<1>3. ASSUME NEW d \in Calls PROVE (AskOK(d) /\ AwaitOK(d) /\ TaskOK(d) /\ FolderOK(d))'
  <2>1. AskOK(d) /\ AwaitOK(d) /\ TaskOK(d) /\ FolderOK(d) /\ TaskOK(c)
    BY DEF ToolsInv
  <2>2. AskOK(d)'
    BY <1>2, <2>1 DEF AskOK, session
  <2>3. AwaitOK(d)'
    BY <1>2, <2>1 DEF AwaitOK, Asking, cellOf, session, history
  <2>4. TaskOK(d)'
    BY <1>2, <2>1 DEF TaskOK, SignsIn, session
  <2>5. FolderOK(d)'
    BY <1>2, <2>1 DEF FolderOK, session, history
  <2>6. QED
    BY <2>2, <2>3, <2>4, <2>5
<1>4. ASSUME NEW k \in Kinds, NEW i \in Ids PROVE CellOK(k, i)'
  BY DEF ToolsInv, CellOK, Asking, cellOf, session, history
<1>5. QED
  BY <1>1, <1>3, <1>4 DEF ToolsInv

LEMMA EffectKnown ==
  ASSUME ToolsInv, NEW c \in Calls, pc[c] = "work"
  PROVE  effect(c) \subseteq Copies
<1>1. /\ task[c] \in Tasks /\ SignsIn(task[c].account) /\ target[c] \in Targets
      /\ mail \subseteq Copies
  BY DEF ToolsInv, TaskOK, TypeOK
<1>2. named(c) \subseteq Copies
  BY <1>1 DEF named
<1> DEFINE g == task[c].flag
<1>3. ASSUME NEW x \in named(c)
      PROVE  /\ [x EXCEPT !.flags = @ \cup {g}] \in Copies
             /\ [x EXCEPT !.flags = @ \ {g}] \in Copies
             /\ [x EXCEPT !.folder = target[c]] \in Copies
  <2>1. g \in {r.flag : r \in Requests}
    BY <1>1 DEF Tasks
  <2>2. x \in Copies
    BY <1>2
  <2>3. x.flags \cup {g} \in SUBSET UNION ({y.flags : y \in MailAtStart} \cup
                                 {{r.flag} : r \in Requests} \cup {{"\\Seen"}})
    <3> HIDE DEF g
    <3>1. QED
      BY <2>1, <2>2 DEF Copies
  <2> HIDE DEF g
  <2>4. QED
    BY <1>1, <2>2, <2>3 DEF Copies
<1>4. ASSUME NEW m \in task[c].uids
      PROVE  [msg |-> m, box |-> Mailbox(task[c].account), folder |-> target[c],
              flags |-> {"\\Seen"}] \in Copies
  BY <1>1 DEF Copies, Tasks, SignsIn
<1>5. task[c].op \in Ops
  BY <1>1 DEF Tasks
<1>6. QED
  BY <1>1, <1>3, <1>4, <1>5 DEF effect, Ops

LEMMA ConnectInv == ASSUME ToolsInv, NEW c \in Calls, Connect(c) PROVE ToolsInv'
<1>1. /\ found' \in [Calls -> Paths \cup {None}] /\ ok' \in [Calls -> BOOLEAN]
      /\ \A d \in Calls \ {c} : ok'[d] = ok[d]
      /\ sessions' \subseteq Calls /\ mail' \subseteq Copies
  BY DEF ToolsInv, TypeOK, Connect
<1>2. QED
  BY <1>1, SessionStep DEF Connect

LEMMA ConnectFailsInv == ASSUME ToolsInv, NEW c \in Calls, ConnectFails(c) PROVE ToolsInv'
<1>1. /\ found' \in [Calls -> Paths \cup {None}] /\ ok' \in [Calls -> BOOLEAN]
      /\ \A d \in Calls \ {c} : ok'[d] = ok[d]
      /\ ~ok'[c]
      /\ sessions' \subseteq Calls /\ mail' \subseteq Copies
  BY DEF ToolsInv, TypeOK, ConnectFails
<1>2. QED
  BY <1>1, SessionStep DEF ConnectFails

LEMMA ListInv == ASSUME ToolsInv, NEW c \in Calls, List(c) PROVE ToolsInv'
<1> DEFINE a == task[c].account
           path == specialFolder(kind(task[c].op), a.imap.host, listing[Mailbox(a)])
<1>1. listing[Mailbox(a)] \in Shown
  BY DEF ToolsInv, TypeOK, TaskOK, List, SignsIn
<1>2. path \in Paths
  BY <1>1, SpecialKnown DEF kind, Kinds
<1> HIDE DEF path
<1>3. found' = [found EXCEPT ![c] = path]
  BY DEF List, path
<1>4. /\ found' \in [Calls -> Paths \cup {None}] /\ found'[c] = path
      /\ \A d \in Calls \ {c} : found'[d] = found[d]
      /\ ok' = ok /\ ok \in [Calls -> BOOLEAN]
      /\ sessions' \subseteq Calls /\ mail' \subseteq Copies
  BY <1>2, <1>3 DEF ToolsInv, TypeOK, List
<1>5. QED
  BY <1>2, <1>4, SessionStep DEF List

LEMMA ActInv == ASSUME ToolsInv, NEW c \in Calls, Act(c) PROVE ToolsInv'
<1>1. mail' \subseteq Copies
  BY EffectKnown DEF ToolsInv, TypeOK, Act
<1>2. /\ found' \in [Calls -> Paths \cup {None}] /\ ok' \in [Calls -> BOOLEAN]
      /\ \A d \in Calls \ {c} : ok'[d] = ok[d]
      /\ sessions' \subseteq Calls
  BY DEF ToolsInv, TypeOK, Act
<1>3. QED
  BY <1>1, <1>2, SessionStep DEF Act

LEMMA WorkFailsInv == ASSUME ToolsInv, NEW c \in Calls, WorkFails(c) PROVE ToolsInv'
<1>1. mail' \subseteq Copies
  BY EffectKnown DEF ToolsInv, TypeOK, WorkFails
<1>2. /\ found' \in [Calls -> Paths \cup {None}] /\ ok' \in [Calls -> BOOLEAN]
      /\ \A d \in Calls \ {c} : ok'[d] = ok[d]
      /\ ~ok'[c]
      /\ sessions' \subseteq Calls
  BY DEF ToolsInv, TypeOK, WorkFails
<1>3. QED
  BY <1>1, <1>2, SessionStep DEF WorkFails

LEMMA SubmitInv == ASSUME ToolsInv, NEW f \in Forms, Submit(f) PROVE ToolsInv'
<1>1. accounts' \in Seq(Account)
  BY FormsRead DEF Submit, ToolsInv, TypeOK
<1>2. forms' \in 0 .. MaxForms
  BY BoundsNat DEF Submit, ToolsInv, TypeOK
<1>3. TypeOK'
  BY <1>1, <1>2 DEF Submit, ToolsInv, TypeOK, history
<1>4. \A c \in Calls : (AskOK(c) /\ AwaitOK(c) /\ TaskOK(c) /\ FolderOK(c))'
  BY DEF Submit, ToolsInv, AskOK, AwaitOK, TaskOK, FolderOK, Asking, cellOf, history
<1>5. \A k \in Kinds, i \in Ids : CellOK(k, i)'
  BY DEF Submit, ToolsInv, CellOK, Asking, cellOf, history
<1>6. QED
  BY <1>3, <1>4, <1>5 DEF ToolsInv

LEMMA RefuseInv == ASSUME ToolsInv, NEW c \in Calls, NEW r \in Requests, Refuse(c, r)
                   PROVE  ToolsInv'
<1>1. TypeOK'
  BY DEF Refuse, ToolsInv, TypeOK, history
<1>2. \A d \in Calls : pc'[d] = IF d = c THEN "done" ELSE pc[d]
  BY DEF Refuse, ToolsInv, TypeOK
<1>3. ASSUME NEW d \in Calls PROVE (AskOK(d) /\ AwaitOK(d) /\ TaskOK(d) /\ FolderOK(d))'
  <2>1. AskOK(d) /\ AwaitOK(d) /\ TaskOK(d) /\ FolderOK(d)
    BY DEF ToolsInv
  <2>2. pc[c] = "idle"
    BY DEF Refuse
  <2>3. QED
    BY <1>2, <2>1, <2>2
    DEF Refuse, AskOK, AwaitOK, TaskOK, FolderOK, Asking, cellOf, history
<1>4. \A k \in Kinds, i \in Ids : CellOK(k, i)'
  BY DEF Refuse, ToolsInv, CellOK, Asking, cellOf, history
<1>5. QED
  BY <1>1, <1>3, <1>4 DEF ToolsInv

\* What a call that starts leaves of the others.
LEMMA BeginKnown ==
  ASSUME ToolsInv, NEW c \in Calls, NEW r \in Requests, NEW i \in DOMAIN accounts,
         Begin(c, r, i)
  PROVE  /\ accounts[i] \in Account /\ accounts[i].id \in Ids
         /\ kind(r.op) \in Kinds
         /\ task' \in [Calls -> Tasks \cup {None}] /\ task'[c] \in Tasks
         /\ task'[c].op = r.op /\ task'[c].account = accounts[i]
         /\ since' \in [Calls -> 0 .. MaxClears] /\ since'[c] = clears
         /\ \A d \in Calls \ {c} : task'[d] = task[d] /\ since'[d] = since[d]
<1>1. accounts[i] \in Account /\ accounts[i].id \in Ids
  <2>1. accounts[i] \in Account
    BY DEF ToolsInv, TypeOK
  <2>2. QED
    BY <2>1 DEF Account
<1>2. kind(r.op) \in Kinds
  BY DEF kind, Kinds
<1> DEFINE t == [account |-> accounts[i], op |-> r.op, query |-> r.query,
                 folder |-> r.folder, uids |-> r.uids, flag |-> r.flag]
<1>3. t \in Tasks /\ t.op = r.op /\ t.account = accounts[i]
  BY <1>1, RequestsKnown DEF Tasks
<1>4. task' = [task EXCEPT ![c] = t]
  BY DEF Begin
<1> HIDE DEF t
<1>5. /\ task' \in [Calls -> Tasks \cup {None}] /\ task'[c] = t
      /\ \A d \in Calls \ {c} : task'[d] = task[d]
  BY <1>3, <1>4 DEF ToolsInv, TypeOK
<1>6. /\ since' \in [Calls -> 0 .. MaxClears] /\ since'[c] = clears
      /\ \A d \in Calls \ {c} : since'[d] = since[d]
  BY DEF ToolsInv, TypeOK, Begin
<1>7. QED
  BY <1>1, <1>2, <1>3, <1>5, <1>6

\* A call that starts has been idle: no cell, and no other call, depends on it.
LEMMA StartStep ==
  ASSUME ToolsInv, NEW c \in Calls, NEW r \in Requests, NEW i \in DOMAIN accounts,
         Begin(c, r, i), NEW p \in {"await", "connect"}, pc' = [pc EXCEPT ![c] = p],
         target' \in [Calls -> Targets], waits' \in [Calls -> Calls \cup {None}],
         stage' \in [Calls -> {"list", "act"}], asof' \in [Calls -> 0 .. MaxClears],
         cache' \in [Kinds -> [Ids -> Cell]],
         \A d \in Calls \ {c} : /\ waits'[d] = waits[d] /\ stage'[d] = stage[d]
                                /\ asof'[d] = asof[d],
         stage'[c] = "list" => p = "connect" /\ looksUp(r.op),
         p = "await" => /\ looksUp(r.op) /\ stage'[c] = "act"
                        /\ waits'[c] \in Calls \ {c} /\ stage[waits'[c]] = "list"
                        /\ cellOf(waits'[c]) = <<kind(r.op), accounts[i].id>>
                        /\ since[waits'[c]] = clears,
         p = "connect" /\ stage'[c] = "act" /\ looksUp(r.op) => asof'[c] = clears,
         \A k \in Kinds, j \in Ids :
           \/ cache'[k][j] = cache[k][j]
           \/ /\ cache'[k][j].by = c /\ cache'[k][j].path = None
              /\ stage'[c] = "list" /\ k = kind(r.op) /\ j = accounts[i].id
  PROVE  ToolsInv'
<1>1. /\ accounts[i] \in Account /\ accounts[i].id \in Ids
      /\ task' \in [Calls -> Tasks \cup {None}] /\ task'[c] \in Tasks
      /\ task'[c].op = r.op /\ task'[c].account = accounts[i]
      /\ since' \in [Calls -> 0 .. MaxClears] /\ since'[c] = clears
      /\ \A d \in Calls \ {c} : task'[d] = task[d] /\ since'[d] = since[d]
  BY BeginKnown
<1>2. \A d \in Calls : pc'[d] = IF d = c THEN p ELSE pc[d]
  BY DEF ToolsInv, TypeOK
<1>3. TypeOK'
  BY <1>1 DEF ToolsInv, TypeOK, Begin
<1>4. pc[c] = "idle" /\ stage[c] = "act" /\ c \notin Asking
  BY DEF Begin, ToolsInv, TaskOK, Asking
<1>5. \A d \in Asking : d # c /\ d \in Asking' /\ cellOf(d)' = cellOf(d) /\ since'[d] = since[d]
  BY <1>1, <1>4 DEF Asking, cellOf
<1>6. cellOf(c)' = <<kind(r.op), accounts[i].id>>
  BY <1>1 DEF cellOf
<1>7. ASSUME NEW d \in Calls, d # c
      PROVE  (AskOK(d) /\ AwaitOK(d) /\ TaskOK(d) /\ FolderOK(d))'
  <2>1. AskOK(d) /\ AwaitOK(d) /\ TaskOK(d) /\ FolderOK(d)
    BY DEF ToolsInv
  <2>2. pc'[d] = pc[d] /\ stage'[d] = stage[d] /\ task'[d] = task[d] /\ waits'[d] = waits[d]
        /\ since'[d] = since[d] /\ asof'[d] = asof[d] /\ found' = found /\ ok' = ok
    BY <1>1, <1>2, <1>7 DEF Begin
  <2>3. cellOf(d)' = cellOf(d)
    BY <2>2 DEF cellOf
  <2>4. AwaitOK(d)'
    BY <1>5, <2>1, <2>2, <2>3 DEF AwaitOK
  <2>5. QED
    BY <2>1, <2>2, <2>4 DEF AskOK, TaskOK, FolderOK, SignsIn
<1>8. AskOK(c)' /\ TaskOK(c)' /\ FolderOK(c)'
  BY <1>1, <1>2, <1>4 DEF AskOK, TaskOK, FolderOK
<1>9. AwaitOK(c)'
  <2> SUFFICES ASSUME p = "await" PROVE AwaitOK(c)'
    BY <1>2 DEF AwaitOK
  <2>1. waits'[c] \in Asking /\ stage'[c] = "act"
    BY DEF Asking
  <2>2. QED
    BY <1>1, <1>5, <1>6, <2>1 DEF AwaitOK
<1>10. ASSUME NEW k \in Kinds, NEW j \in Ids PROVE CellOK(k, j)'
  <2>1. CellOK(k, j) /\ clears' = clears /\ asked' = asked
    BY DEF ToolsInv, Begin
  <2>2. CASE cache'[k][j] = cache[k][j]
    BY <1>5, <2>1, <2>2 DEF CellOK
  <2>3. CASE /\ cache'[k][j].by = c /\ cache'[k][j].path = None
             /\ stage'[c] = "list" /\ k = kind(r.op) /\ j = accounts[i].id
    BY <1>1, <1>6, <2>1, <2>3 DEF CellOK, Asking
  <2>4. QED
    BY <2>2, <2>3
<1>11. QED
  BY <1>3, <1>7, <1>8, <1>9, <1>10 DEF ToolsInv

LEMMA StartPlainInv ==
  ASSUME ToolsInv, NEW c \in Calls, NEW r \in Requests, NEW i \in DOMAIN accounts,
         StartPlain(c, r, i)
  PROVE  ToolsInv'
<1>1. target' \in [Calls -> Targets]
  BY DEF StartPlain, ToolsInv, TypeOK, Targets
<1>2. stage[c] = "act"
  BY DEF StartPlain, Begin, ToolsInv, TaskOK
<1>3. QED
  BY <1>1, <1>2, StartStep DEF StartPlain, ToolsInv, TypeOK

\* What a call finds in the cell it looks in.
LEMMA CellKnown ==
  ASSUME ToolsInv, NEW k \in Kinds, NEW i \in Ids
  PROVE  /\ cache[k][i] \in Cell /\ CellOK(k, i)
         /\ cache[k][i].by \in Calls \cup {None} /\ cache[k][i].path \in Paths \cup {None}
BY DEF ToolsInv, TypeOK, Cell

LEMMA StartKnownInv ==
  ASSUME ToolsInv, NEW c \in Calls, NEW r \in Requests, NEW i \in DOMAIN accounts,
         StartKnown(c, r, i)
  PROVE  ToolsInv'
<1> DEFINE k == kind(r.op)
           id == accounts[i].id
<1>1. k \in Kinds /\ id \in Ids
  BY BeginKnown DEF StartKnown
<1>2. cache[k][id].path \in Paths /\ asked[k][id] = clears
  BY <1>1, CellKnown DEF StartKnown, CellOK
<1>3. asked[k][id] \in 0 .. MaxClears
  BY <1>1 DEF ToolsInv, TypeOK
<1> HIDE DEF k, id
<1>4. target' = [target EXCEPT ![c] = cache[k][id].path]
      /\ asof' = [asof EXCEPT ![c] = asked[k][id]]
  BY DEF StartKnown, k, id
<1>5. target' \in [Calls -> Targets] /\ asof' \in [Calls -> 0 .. MaxClears]
      /\ asof'[c] = clears /\ \A d \in Calls \ {c} : asof'[d] = asof[d]
  BY <1>2, <1>3, <1>4 DEF ToolsInv, TypeOK, Targets
<1>6. stage[c] = "act"
  BY DEF StartKnown, Begin, ToolsInv, TaskOK
<1>7. QED
  BY <1>5, <1>6, StartStep DEF StartKnown, ToolsInv, TypeOK

LEMMA StartWaitingInv ==
  ASSUME ToolsInv, NEW c \in Calls, NEW r \in Requests, NEW i \in DOMAIN accounts,
         StartWaiting(c, r, i)
  PROVE  ToolsInv'
<1> DEFINE k == kind(r.op)
           id == accounts[i].id
           by == cache[k][id].by
<1>1. k \in Kinds /\ id \in Ids
  BY BeginKnown DEF StartWaiting
<1>2. stage[c] = "act"
  BY DEF StartWaiting, Begin, ToolsInv, TaskOK
<1>3. by \in Calls /\ by # c /\ stage[by] = "list" /\ cellOf(by) = <<k, id>> /\ since[by] = clears
  BY <1>1, <1>2, CellKnown DEF StartWaiting, CellOK, Asking
<1> HIDE DEF k, id, by
<1>4. waits' = [waits EXCEPT ![c] = by]
  BY DEF StartWaiting, k, id, by
<1>5. waits' \in [Calls -> Calls \cup {None}] /\ waits'[c] = by
      /\ \A d \in Calls \ {c} : waits'[d] = waits[d]
  BY <1>3, <1>4 DEF ToolsInv, TypeOK
<1>6. cellOf(by) = <<kind(r.op), accounts[i].id>>
  BY <1>3 DEF k, id
<1>7. /\ Begin(c, r, i) /\ looksUp(r.op) /\ pc' = [pc EXCEPT ![c] = "await"]
      /\ target' \in [Calls -> Targets] /\ asof' \in [Calls -> 0 .. MaxClears]
      /\ stage' \in [Calls -> {"list", "act"}] /\ cache' \in [Kinds -> [Ids -> Cell]]
      /\ cache' = cache /\ stage' = stage /\ asof' = asof
  BY DEF StartWaiting, ToolsInv, TypeOK
<1>8. QED
  BY <1>2, <1>3, <1>5, <1>6, <1>7, StartStep

LEMMA StartListingInv ==
  ASSUME ToolsInv, NEW c \in Calls, NEW r \in Requests, NEW i \in DOMAIN accounts,
         StartListing(c, r, i)
  PROVE  ToolsInv'
<1> DEFINE k == kind(r.op)
           id == accounts[i].id
           cell == [by |-> c, path |-> None]
<1>1. k \in Kinds /\ id \in Ids
  BY BeginKnown DEF StartListing
<1>2. cell \in Cell /\ cell.by = c /\ cell.path = None
  BY DEF Cell
<1> HIDE DEF k, id, cell
<1>3. cache' = [cache EXCEPT ![k][id] = cell]
  BY DEF StartListing, k, id, cell
<1>4. cache' \in [Kinds -> [Ids -> Cell]]
  BY <1>1, <1>2, <1>3 DEF ToolsInv, TypeOK
<1>5. \A l \in Kinds, j \in Ids :
        cache'[l][j] = IF l = k /\ j = id THEN cell ELSE cache[l][j]
  BY <1>1, <1>3 DEF ToolsInv, TypeOK
<1>6. /\ stage' \in [Calls -> {"list", "act"}] /\ stage'[c] = "list"
      /\ \A d \in Calls \ {c} : stage'[d] = stage[d]
  BY DEF StartListing, ToolsInv, TypeOK
<1>7. \A l \in Kinds, j \in Ids :
        \/ cache'[l][j] = cache[l][j]
        \/ /\ cache'[l][j].by = c /\ cache'[l][j].path = None
           /\ stage'[c] = "list" /\ l = kind(r.op) /\ j = accounts[i].id
  BY <1>2, <1>5, <1>6 DEF k, id
<1>8. /\ Begin(c, r, i) /\ looksUp(r.op) /\ pc' = [pc EXCEPT ![c] = "connect"]
      /\ target' \in [Calls -> Targets] /\ asof' \in [Calls -> 0 .. MaxClears]
      /\ waits' \in [Calls -> Calls \cup {None}]
      /\ waits' = waits /\ asof' = asof
  BY DEF StartListing, ToolsInv, TypeOK
<1>9. QED
  BY <1>4, <1>6, <1>7, <1>8, StartStep

LEMMA FinishInv == ASSUME ToolsInv, NEW c \in Calls, Finish(c) PROVE ToolsInv'
<1>1. /\ \A d \in Calls : pc'[d] = IF d = c THEN "done" ELSE pc[d]
      /\ \A d \in Calls \ {c} : task'[d] = task[d] /\ since'[d] = since[d] /\ asof'[d] = asof[d]
                                /\ ok'[d] = ok[d]
  BY DEF Finish, ToolsInv, TypeOK
<1>2. 0 \in 0 .. MaxClears
  BY BoundsNat
<1>3. TypeOK'
  BY <1>2 DEF Finish, ToolsInv, TypeOK, Targets
<1>4. c \notin Asking
  BY DEF Finish, Asking
<1>5. \A d \in Asking : d # c /\ d \in Asking' /\ cellOf(d)' = cellOf(d) /\ since'[d] = since[d]
  BY <1>1, <1>4 DEF Finish, Asking, cellOf
<1>6. ASSUME NEW d \in Calls PROVE (AskOK(d) /\ AwaitOK(d) /\ TaskOK(d) /\ FolderOK(d))'
  <2>1. AskOK(d) /\ AwaitOK(d) /\ TaskOK(d) /\ FolderOK(d)
    BY DEF ToolsInv
  <2>2. CASE d = c
    BY <1>1, <2>1, <2>2 DEF Finish, AskOK, AwaitOK, TaskOK, FolderOK
  <2>3. CASE d # c
    <3>1. cellOf(d)' = cellOf(d)
      BY <1>1, <2>3 DEF cellOf
    <3>2. AwaitOK(d)'
      BY <1>1, <1>5, <2>1, <2>3, <3>1 DEF Finish, AwaitOK
    <3>3. QED
      BY <1>1, <2>1, <2>3, <3>2 DEF Finish, AskOK, TaskOK, FolderOK, SignsIn
  <2>4. QED
    BY <2>2, <2>3
<1>7. \A k \in Kinds, i \in Ids : CellOK(k, i)'
  BY <1>5 DEF Finish, ToolsInv, CellOK
<1>8. QED
  BY <1>3, <1>6, <1>7 DEF ToolsInv

\* What a promise resolves to, and what the cell of its account holds then.
Outcome(c) ==
  IF ok[c] THEN found[c] ELSE defaultFolder(kind(task[c].op), task[c].account.imap.host)

Full(path) == [by |-> None, path |-> path]

LEMMA SettleEffect ==
  ASSUME ToolsInv, NEW c \in Calls, Settle(c)
  PROVE  LET k == kind(task[c].op)
             i == task[c].account.id
         IN
         /\ pc[c] = "logout" /\ stage[c] = "list"
         /\ k \in Kinds /\ i \in Ids /\ cellOf(c) = <<k, i>>
         /\ Outcome(c) \in Paths
         /\ IF cache[k][i].by = c
            THEN /\ cache' = [cache EXCEPT ![k][i] = Full(Outcome(c))]
                 /\ asked' = [asked EXCEPT ![k][i] = since[c]]
            ELSE cache' = cache /\ asked' = asked
<1> DEFINE k == kind(task[c].op)
           i == task[c].account.id
           fills == filled(cache[k][i], c, Outcome(c))
<1>1. pc[c] = "logout" /\ stage[c] = "list" /\ task[c] \in Tasks
  BY DEF Settle, ToolsInv, TaskOK
<1>2. k \in Kinds /\ i \in Ids /\ cellOf(c) = <<k, i>>
  BY <1>1 DEF kind, Kinds, cellOf, Tasks, Account
<1>3. Outcome(c) \in Paths
  BY <1>1, <1>2, DefaultKnown DEF Outcome, ToolsInv, AskOK
<1>4. /\ cache' = [cache EXCEPT ![k][i] = fills]
      /\ asked' = IF fills # cache[k][i] THEN [asked EXCEPT ![k][i] = since[c]] ELSE asked
  BY DEF Settle, Outcome
<1>5. CASE cache[k][i].by = c
  <2>1. fills = Full(Outcome(c)) /\ fills # cache[k][i]
    BY <1>5, NoneApart DEF filled, Full
  <2>2. QED
    BY <1>1, <1>2, <1>3, <1>4, <1>5, <2>1
<1>6. CASE cache[k][i].by # c
  <2>1. fills = cache[k][i]
    BY <1>6 DEF filled
  <2> HIDE DEF k, i, fills
  <2>2. cache' = cache
    BY <1>2, <1>4, <2>1 DEF ToolsInv, TypeOK
  <2>3. QED
    BY <1>1, <1>2, <1>3, <1>4, <1>6, <2>1, <2>2 DEF k, i
<1>7. QED
  BY <1>5, <1>6

LEMMA SettleInv == ASSUME ToolsInv, NEW c \in Calls, Settle(c) PROVE ToolsInv'
<1> DEFINE k == kind(task[c].op)
           i == task[c].account.id
           path == Outcome(c)
<1>1. /\ pc[c] = "logout" /\ stage[c] = "list"
      /\ k \in Kinds /\ i \in Ids /\ cellOf(c) = <<k, i>>
      /\ path \in Paths
      /\ IF cache[k][i].by = c
         THEN /\ cache' = [cache EXCEPT ![k][i] = Full(path)]
              /\ asked' = [asked EXCEPT ![k][i] = since[c]]
         ELSE cache' = cache /\ asked' = asked
  BY SettleEffect
<1>2. /\ target' = [d \in Calls |-> IF d \in served(c) THEN path ELSE target[d]]
      /\ asof' = [d \in Calls |-> IF d \in served(c) THEN since[c] ELSE asof[d]]
      /\ pc' = [d \in Calls |-> IF d \in served(c) THEN "connect" ELSE pc[d]]
      /\ waits' = [d \in Calls |-> IF d \in served(c) THEN None ELSE waits[d]]
      /\ stage' = [stage EXCEPT ![c] = "act"]
      /\ found' = [found EXCEPT ![c] = None]
      /\ sessions' = sessions \ {c}
      /\ UNCHANGED <<accounts, forms, task, ok, listing, mail, clears, since>>
  BY DEF Settle, Outcome
<1> HIDE DEF k, i, path
<1>3. Full(path) \in Cell /\ Full(path).by = None /\ Full(path).path = path
  BY <1>1 DEF Full, Cell
<1>4. since[c] \in 0 .. MaxClears
  BY DEF ToolsInv, TypeOK
<1>5. cache' \in [Kinds -> [Ids -> Cell]] /\ asked' \in [Kinds -> [Ids -> 0 .. MaxClears]]
  <2>1. cache \in [Kinds -> [Ids -> Cell]] /\ asked \in [Kinds -> [Ids -> 0 .. MaxClears]]
    BY DEF ToolsInv, TypeOK
  <2>2. /\ [cache EXCEPT ![k][i] = Full(path)] \in [Kinds -> [Ids -> Cell]]
        /\ [asked EXCEPT ![k][i] = since[c]] \in [Kinds -> [Ids -> 0 .. MaxClears]]
    <3> HIDE DEF Full
    <3>1. QED
      BY <1>1, <1>3, <1>4, <2>1
  <2>3. QED
    BY <1>1, <2>1, <2>2
<1>6. TypeOK'
  BY <1>1, <1>2, <1>4, <1>5 DEF ToolsInv, TypeOK, Targets
<1>7. \A d \in Calls : stage'[d] = IF d = c THEN "act" ELSE stage[d]
  BY <1>2 DEF ToolsInv, TypeOK
<1>8. \A d \in Asking \ {c} : d \in Asking' /\ cellOf(d)' = cellOf(d) /\ since'[d] = since[d]
  BY <1>2, <1>7 DEF Asking, cellOf
<1>9. ASSUME NEW d \in Calls PROVE (AskOK(d) /\ AwaitOK(d) /\ TaskOK(d) /\ FolderOK(d))'
  <2>1. AskOK(d) /\ AwaitOK(d) /\ TaskOK(d) /\ FolderOK(d) /\ TaskOK(c)
    BY DEF ToolsInv
  <2>2. CASE d = c
    <3>1. d \in served(c)
      BY <2>2 DEF served
    <3>2. pc'[d] = "connect" /\ stage'[d] = "act" /\ asof'[d] = since'[d] /\ task'[d] = task[d]
      BY <1>2, <1>7, <2>2, <3>1
    <3>3. QED
      BY <1>1, <2>1, <2>2, <3>2 DEF AskOK, AwaitOK, TaskOK, FolderOK
  <2>3. CASE d # c /\ d \in served(c)
    <3>1. pc[d] = "await" /\ waits[d] = c
      BY <2>3 DEF served
    <3>2. stage[d] = "act" /\ since[d] = since[c]
      BY <2>1, <3>1 DEF AwaitOK
    <3>3. pc'[d] = "connect" /\ stage'[d] = "act" /\ asof'[d] = since'[d] /\ task'[d] = task[d]
      BY <1>2, <1>7, <2>3, <3>2
    <3>4. QED
      BY <2>1, <3>1, <3>3 DEF AskOK, AwaitOK, TaskOK, FolderOK
  <2>4. CASE d \notin served(c)
    <3>1. d # c /\ ~(pc[d] = "await" /\ waits[d] = c)
      BY <2>4 DEF served
    <3>2. /\ pc'[d] = pc[d] /\ stage'[d] = stage[d] /\ waits'[d] = waits[d]
          /\ asof'[d] = asof[d] /\ since' = since /\ task' = task /\ ok' = ok
      BY <1>2, <1>7, <2>4, <3>1
    <3>3. found'[d] = found[d]
      BY <1>2, <3>1 DEF ToolsInv, TypeOK
    <3>4. AwaitOK(d)'
      BY <1>8, <2>1, <3>1, <3>2 DEF AwaitOK, cellOf
    <3>5. QED
      BY <2>1, <3>2, <3>3, <3>4 DEF AskOK, TaskOK, FolderOK, SignsIn
  <2>5. QED
    BY <2>2, <2>3, <2>4
<1>10. ASSUME NEW l \in Kinds, NEW j \in Ids PROVE CellOK(l, j)'
  <2>1. CellOK(l, j) /\ CellOK(k, i) /\ clears' = clears
    BY <1>1, <1>2 DEF ToolsInv
  <2>2. CASE cache[k][i].by = c /\ l = k /\ j = i
    <3>1. cache'[l][j] = Full(path) /\ asked'[l][j] = since[c]
      BY <1>1, <2>2 DEF ToolsInv, TypeOK
    <3>2. since[c] = clears
      BY <2>1, <2>2, NoneApart DEF CellOK
    <3>3. QED
      BY <1>3, <2>1, <3>1, <3>2 DEF CellOK
  <2>3. CASE ~(cache[k][i].by = c /\ l = k /\ j = i)
    <3>1. cache'[l][j] = cache[l][j] /\ asked'[l][j] = asked[l][j]
      BY <1>1, <2>3 DEF ToolsInv, TypeOK
    <3>2. cache[l][j].by # c
      BY <1>1, <2>1, <2>3, NoneApart DEF CellOK
    <3>3. QED
      BY <1>8, <2>1, <3>1, <3>2 DEF CellOK
  <2>4. QED
    BY <2>2, <2>3
<1>11. QED
  BY <1>6, <1>9, <1>10 DEF ToolsInv

LEMMA ClearCachesInv == ToolsInv /\ ClearCaches => ToolsInv'
<1> SUFFICES ASSUME ToolsInv, ClearCaches PROVE ToolsInv'
  OBVIOUS
<1>1. Empty \in Cell /\ Empty.by = None /\ Empty.path = None
  BY DEF Empty, Cell
<1>2. clears' \in 0 .. MaxClears /\ 0 \in 0 .. MaxClears
  BY BoundsNat DEF ClearCaches, ToolsInv, TypeOK
<1>3. TypeOK'
  BY <1>1, <1>2 DEF ClearCaches, ToolsInv, TypeOK
<1>4. \A c \in Calls : (AskOK(c) /\ AwaitOK(c) /\ TaskOK(c) /\ FolderOK(c))'
  BY DEF ClearCaches, ToolsInv, AskOK, AwaitOK, TaskOK, FolderOK, Asking, cellOf
<1>5. \A k \in Kinds, i \in Ids : CellOK(k, i)'
  BY <1>1 DEF ClearCaches, CellOK
<1>6. QED
  BY <1>3, <1>4, <1>5 DEF ToolsInv

LEMMA RearrangeInv == ASSUME ToolsInv, NEW box \in Mailboxes, Rearrange(box) PROVE ToolsInv'
<1>1. TypeOK'
  BY DEF Rearrange, ToolsInv, TypeOK, history, Shown
<1>2. \A c \in Calls : (AskOK(c) /\ AwaitOK(c) /\ TaskOK(c) /\ FolderOK(c))'
  BY DEF Rearrange, ToolsInv, AskOK, AwaitOK, TaskOK, FolderOK, Asking, cellOf, history
<1>3. \A k \in Kinds, i \in Ids : CellOK(k, i)'
  BY DEF Rearrange, ToolsInv, CellOK, Asking, cellOf, history
<1>4. QED
  BY <1>1, <1>2, <1>3 DEF ToolsInv

LEMMA StutterInv == ToolsInv /\ UNCHANGED vars => ToolsInv'
<1> SUFFICES ASSUME ToolsInv, UNCHANGED vars PROVE ToolsInv'
  OBVIOUS
<1>1. TypeOK'
  BY DEF vars, history, ToolsInv, TypeOK
<1>2. \A c \in Calls : (AskOK(c) /\ AwaitOK(c) /\ TaskOK(c) /\ FolderOK(c))'
  BY DEF vars, ToolsInv, AskOK, AwaitOK, TaskOK, FolderOK, Asking, cellOf, history
<1>3. \A k \in Kinds, i \in Ids : CellOK(k, i)'
  BY DEF vars, ToolsInv, CellOK, Asking, cellOf, history
<1>4. QED
  BY <1>1, <1>2, <1>3 DEF ToolsInv

LEMMA NextInv == ToolsInv /\ [Next]_vars => ToolsInv'
<1> SUFFICES ASSUME ToolsInv, [Next]_vars PROVE ToolsInv'
  OBVIOUS
<1>1. CASE \E f \in Forms : Submit(f)
  BY <1>1, SubmitInv
<1>2. CASE \E c \in Calls, r \in Requests : Refuse(c, r)
  BY <1>2, RefuseInv
<1>3. CASE \E c \in Calls, r \in Requests : \E i \in DOMAIN accounts : Start(c, r, i)
  BY <1>3, StartPlainInv, StartKnownInv, StartWaitingInv, StartListingInv DEF Start
<1>4. CASE \E c \in Calls : Step(c)
  BY <1>4, ConnectInv, ConnectFailsInv, ListInv, ActInv, WorkFailsInv, FinishInv, SettleInv
  DEF Step
<1>5. CASE ClearCaches
  BY <1>5, ClearCachesInv
<1>6. CASE \E box \in Mailboxes : Rearrange(box)
  BY <1>6, RearrangeInv
<1>7. CASE UNCHANGED vars
  BY <1>7, StutterInv
<1>8. QED
  BY <1>1, <1>2, <1>3, <1>4, <1>5, <1>6, <1>7 DEF Next

LEMMA Invariance == Spec => []ToolsInv
BY InitInv, NextInv, PTL DEF Spec

-----------------------------------------------------------------------------

\* Every variable of MailboxTools keeps its type, whatever is called and submitted.
THEOREM TypeCorrect == Spec => []TypeOK
<1>1. ToolsInv => TypeOK
  BY DEF ToolsInv
<1>2. QED
  BY Invariance, <1>1, PTL

\* A call made after cache_clear files or archives into a folder that was looked for
\* since: the listing it awaits, or finds the outcome of, is not older.
THEOREM LookedForSinceClear == Spec => []FolderSinceClear
<1>1. ToolsInv => FolderSinceClear
  BY DEF ToolsInv, FolderOK, FolderSinceClear
<1>2. QED
  BY Invariance, <1>1, PTL

-----------------------------------------------------------------------------
(* The caches implement FolderCache. *)

Asker == [x \in Cells |-> holds(x).by]
Holds == [x \in Cells |-> holds(x).path]
Stray == {c \in Calls : stage[c] = "list" /\ holds(cellOf(c)).by # c}

\* An action that changes neither a cell nor which listings are under way.
LEMMA CacheKept ==
  ASSUME ToolsInv, UNCHANGED <<cache, stage>>,
         \A c \in Calls : stage[c] = "list" => task'[c] = task[c]
  PROVE  UNCHANGED Promise!vars
<1>1. Asker' = Asker /\ Holds' = Holds
  BY DEF Asker, Holds, holds
<1>2. Stray' = Stray
  BY DEF Stray, holds, cellOf
<1>3. QED
  BY <1>1, <1>2 DEF Promise!vars, Asker, Holds, Stray

LEMMA ListingAsks ==
  ASSUME ToolsInv, NEW c \in Calls, NEW r \in Requests, NEW i \in DOMAIN accounts,
         StartListing(c, r, i)
  PROVE  Promise!Next
<1> DEFINE x == <<kind(r.op), accounts[i].id>>
<1>1. x \in Cells /\ task'[c].op = r.op /\ task'[c].account = accounts[i]
      /\ \A d \in Calls \ {c} : task'[d] = task[d]
  BY BeginKnown DEF StartListing, Cells
<1>2. cache' = [cache EXCEPT ![x[1]][x[2]] = [by |-> c, path |-> None]]
      /\ holds(x) = Empty
  BY DEF StartListing, Unclaimed, holds
<1>3. \A d \in Calls : stage'[d] = IF d = c THEN "list" ELSE stage[d]
  BY DEF StartListing, ToolsInv, TypeOK
<1>4. stage[c] = "act"
  BY DEF StartListing, Begin, ToolsInv, TaskOK
<1>5. cellOf(c)' = x
  BY <1>1 DEF cellOf
<1>6. \A d \in Calls : stage[d] = "list" => cellOf(d) \in Cells /\ cellOf(d)' = cellOf(d)
  <2> SUFFICES ASSUME NEW d \in Calls, stage[d] = "list"
               PROVE  cellOf(d) \in Cells /\ cellOf(d)' = cellOf(d)
    OBVIOUS
  <2>1. task[d] \in Tasks
    BY DEF ToolsInv, AskOK, TaskOK
  <2>2. QED
    BY <1>1, <1>4, <2>1 DEF cellOf, Cells, kind, Kinds, Tasks, Account
<1> HIDE DEF x
<1>7. ASSUME NEW y \in Cells
      PROVE  holds(y)' = IF y = x THEN [by |-> c, path |-> None] ELSE holds(y)
  <2>1. PICK k \in Kinds, j \in Ids : y = <<k, j>>
    BY DEF Cells
  <2>2. PICK k0 \in Kinds, j0 \in Ids : x = <<k0, j0>>
    BY <1>1 DEF Cells
  <2>3. cache'[k][j] = IF k = k0 /\ j = j0 THEN [by |-> c, path |-> None] ELSE cache[k][j]
    BY <1>2, <2>2 DEF ToolsInv, TypeOK
  <2>4. QED
    BY <2>1, <2>2, <2>3 DEF holds
<1>8. Asker' = [Asker EXCEPT ![x] = c] /\ Holds' = Holds
  <2>1. \A y \in Cells : /\ holds(y)'.by = IF y = x THEN c ELSE holds(y).by
                         /\ holds(y)'.path = holds(y).path
    BY <1>2, <1>7 DEF Empty
  <2>2. QED
    BY <1>1, <2>1 DEF Asker, Holds
<1>9. Asker[x] = None /\ Holds[x] = None
  BY <1>1, <1>2 DEF Asker, Holds, Empty
<1>10. c \notin Stray /\ \A y \in Cells : Asker[y] # c
  <2>1. \A y \in Cells : CellOK(y[1], y[2])
    BY DEF ToolsInv, Cells
  <2>2. QED
    BY <1>4, <2>1, NoneApart DEF Stray, Asker, CellOK, Asking, holds
<1>11. Stray' = Stray
  <2> SUFFICES ASSUME NEW d \in Calls PROVE d \in Stray' <=> d \in Stray
    BY DEF Stray
  <2>1. CASE d = c
    BY <1>1, <1>4, <1>5, <1>7, <2>1 DEF Stray
  <2>2. CASE d # c /\ stage[d] = "list"
    BY <1>2, <1>3, <1>6, <1>7, <2>2, NoneApart DEF Stray, Empty
  <2>3. CASE d # c /\ stage[d] # "list"
    BY <1>3, <2>3 DEF Stray
  <2>4. QED
    BY <2>1, <2>2, <2>3
<1>12. Promise!Ask(x, c)
  BY <1>8, <1>9, <1>10, <1>11 DEF Promise!Ask, Asker, Holds, Stray
<1>13. QED
  BY <1>1, <1>12 DEF Promise!Next

\* The cell of a call whose listing is under way is one of the cells.
LEMMA AskingCell == ASSUME ToolsInv, NEW c \in Asking PROVE cellOf(c) \in Cells
<1>1. task[c] \in Tasks
  BY DEF ToolsInv, AskOK, TaskOK, Asking
<1>2. QED
  BY <1>1 DEF cellOf, Cells, kind, Kinds, Tasks, Account

LEMMA SettleKeepsOrDrops ==
  ASSUME ToolsInv, NEW c \in Calls, Settle(c)
  PROVE  Promise!Next
<1> DEFINE k == kind(task[c].op)
           i == task[c].account.id
           x == <<k, i>>
           path == Outcome(c)
<1>1. /\ pc[c] = "logout" /\ stage[c] = "list"
      /\ k \in Kinds /\ i \in Ids /\ cellOf(c) = x
      /\ path \in Paths
      /\ IF cache[k][i].by = c
         THEN cache' = [cache EXCEPT ![k][i] = Full(path)]
         ELSE cache' = cache
  BY SettleEffect
<1>2. x \in Cells /\ holds(x) = cache[k][i]
  BY <1>1 DEF Cells, holds
<1>3. task' = task /\ \A d \in Calls : stage'[d] = IF d = c THEN "act" ELSE stage[d]
  BY DEF Settle, ToolsInv, TypeOK
<1>4. \A d \in Calls : stage[d] = "list" => cellOf(d) \in Cells /\ cellOf(d)' = cellOf(d)
  BY <1>3, AskingCell DEF Asking, cellOf
<1>5. CASE cache[k][i].by = c
  <2>1. ASSUME NEW y \in Cells
        PROVE  holds(y)' = IF y = x THEN Full(path) ELSE holds(y)
    <3> HIDE DEF k, i, path
    <3>1. PICK l \in Kinds, j \in Ids : y = <<l, j>>
      BY DEF Cells
    <3>2. cache'[l][j] = IF l = k /\ j = i THEN Full(path) ELSE cache[l][j]
      BY <1>1, <1>5 DEF ToolsInv, TypeOK
    <3>3. QED
      BY <3>1, <3>2 DEF holds
  <2> HIDE DEF x, path
  <2>2. \A y \in Cells : /\ holds(y)'.by = IF y = x THEN None ELSE holds(y).by
                         /\ holds(y)'.path = IF y = x THEN path ELSE holds(y).path
    BY <2>1 DEF Full
  <2>3. Asker' = [Asker EXCEPT ![x] = None] /\ Holds' = [Holds EXCEPT ![x] = path]
    BY <1>2, <2>2 DEF Asker, Holds
  <2>4. Asker[x] # None /\ holds(x).by = c
    BY <1>2, <1>5, NoneApart DEF Asker
  <2>5. Stray' = Stray
    <3> SUFFICES ASSUME NEW d \in Calls PROVE d \in Stray' <=> d \in Stray
      BY DEF Stray
    <3>1. CASE d = c
      BY <1>1, <1>3, <2>4, <3>1 DEF Stray, x
    <3>2. CASE d # c /\ stage[d] = "list"
      BY <1>3, <1>4, <2>2, <2>4, <3>2, NoneApart DEF Stray
    <3>3. CASE d # c /\ stage[d] # "list"
      BY <1>3, <3>3 DEF Stray
    <3>4. QED
      BY <3>1, <3>2, <3>3
  <2>6. Promise!Keep(x, path)
    BY <2>3, <2>4, <2>5 DEF Promise!Keep, Asker, Holds, Stray
  <2>7. QED
    BY <1>1, <1>2, <2>6 DEF Promise!Next
<1>6. CASE cache[k][i].by # c
  <2>1. Asker' = Asker /\ Holds' = Holds
    BY <1>1, <1>6 DEF Asker, Holds, holds
  <2>2. c \in Stray
    BY <1>1, <1>2, <1>6 DEF Stray
  <2>3. \A y : holds(y)' = holds(y)
    BY <1>1, <1>6 DEF holds
  <2>4. Stray' = Stray \ {c}
    <3> SUFFICES ASSUME NEW d \in Calls PROVE d \in Stray' <=> d \in Stray \ {c}
      BY DEF Stray
    <3>1. CASE d = c
      BY <1>3, <3>1 DEF Stray
    <3>2. CASE d # c
      BY <1>3, <1>4, <2>3, <3>2 DEF Stray
    <3>3. QED
      BY <3>1, <3>2
  <2>5. Promise!Drop(c)
    BY <2>1, <2>2, <2>4 DEF Promise!Drop, Asker, Holds, Stray
  <2>6. QED
    BY <2>5 DEF Promise!Next
<1>7. QED
  BY <1>5, <1>6

LEMMA ClearingClears == ToolsInv /\ ClearCaches => Promise!Next
<1> SUFFICES ASSUME ToolsInv, ClearCaches PROVE Promise!Clear
  BY DEF Promise!Next
<1>1. ASSUME NEW y \in Cells PROVE holds(y)' = Empty
  BY DEF ClearCaches, holds, Cells
<1>2. \A y \in Cells : holds(y)'.by = None /\ holds(y)'.path = None
  BY <1>1 DEF Empty
<1>3. Asker' = [y \in Cells |-> None] /\ Holds' = [y \in Cells |-> None]
  BY <1>2 DEF Asker, Holds
<1>4. \A d \in Asking : cellOf(d) \in Cells /\ cellOf(d)' = cellOf(d)
  BY AskingCell DEF ClearCaches, cellOf
<1>5. \A y \in Cells : Asker[y] = holds(y).by
  BY DEF Asker
<1>6. ASSUME NEW d \in Calls
      PROVE  d \in Stray' <=> d \in Stray \/ \E y \in Cells : Asker[y] = d
  <2>1. CASE d \in Asking
    <3>1. d \in Stray'
      BY <1>2, <1>4, <2>1, NoneApart DEF Stray, Asking, ClearCaches
    <3>2. QED
      BY <1>4, <1>5, <2>1, <3>1 DEF Stray, Asking
  <2>2. CASE d \notin Asking
    <3>1. d \notin Stray' /\ d \notin Stray
      BY <2>2 DEF Stray, Asking, ClearCaches
    <3>2. \A y \in Cells : CellOK(y[1], y[2])
      BY DEF ToolsInv, Cells
    <3>3. \A y \in Cells : Asker[y] # d
      BY <1>5, <2>2, <3>2, NoneApart DEF CellOK, holds
    <3>4. QED
      BY <3>1, <3>3
  <2>3. QED
    BY <2>1, <2>2
<1>7. Stray' = Stray \cup {d \in Calls : \E y \in Cells : Asker[y] = d}
  BY <1>6 DEF Stray
<1>8. QED
  BY <1>3, <1>7 DEF Promise!Clear, Promise!NoAsker, Asker, Holds, Stray

LEMMA OthersKeepCache ==
  ASSUME ToolsInv, NEW c \in Calls,
         \/ Connect(c) \/ ConnectFails(c) \/ List(c) \/ Act(c) \/ WorkFails(c) \/ Finish(c)
         \/ \E r \in Requests : Refuse(c, r)
         \/ \E r \in Requests : \E i \in DOMAIN accounts :
              StartPlain(c, r, i) \/ StartKnown(c, r, i) \/ StartWaiting(c, r, i)
  PROVE  UNCHANGED Promise!vars
<1>1. CASE Connect(c) \/ ConnectFails(c) \/ List(c) \/ Act(c) \/ WorkFails(c)
  BY <1>1, CacheKept DEF Connect, ConnectFails, List, Act, WorkFails, session
<1>2. CASE Finish(c)
  <2>1. \A d \in Calls : stage[d] = "list" => task'[d] = task[d]
    BY <1>2 DEF Finish, ToolsInv, TypeOK
  <2>2. QED
    BY <1>2, <2>1, CacheKept DEF Finish
<1>3. CASE \E r \in Requests : Refuse(c, r)
  BY <1>3, CacheKept DEF Refuse
<1>4. CASE \E r \in Requests : \E i \in DOMAIN accounts :
             StartPlain(c, r, i) \/ StartKnown(c, r, i) \/ StartWaiting(c, r, i)
  <2>1. PICK r \in Requests, i \in DOMAIN accounts :
          StartPlain(c, r, i) \/ StartKnown(c, r, i) \/ StartWaiting(c, r, i)
    BY <1>4
  <2>2. Begin(c, r, i) /\ UNCHANGED <<cache, stage>>
    BY <2>1 DEF StartPlain, StartKnown, StartWaiting
  <2>3. \A d \in Calls \ {c} : task'[d] = task[d]
    BY <2>2, BeginKnown
  <2>4. stage[c] = "act"
    BY <2>2 DEF Begin, ToolsInv, TaskOK
  <2>5. QED
    BY <2>2, <2>3, <2>4, CacheKept
<1>5. QED
  BY <1>1, <1>2, <1>3, <1>4

\* The caches of special folders implement what FolderCache promises of them.
THEOREM CachesImplementPromise == Spec => CachesKeepPromise
<1>1. Init => Promise!Init
  BY DEF Init, Promise!Init, Promise!NoAsker, Cells, holds, Empty
<1>2. ToolsInv /\ [Next]_vars => [Promise!Next]_(Promise!vars)
  <2> SUFFICES ASSUME ToolsInv, [Next]_vars PROVE Promise!Next \/ UNCHANGED Promise!vars
    OBVIOUS
  <2>1. CASE (\E f \in Forms : Submit(f)) \/ (\E box \in Mailboxes : Rearrange(box))
             \/ UNCHANGED vars
    BY <2>1, CacheKept DEF Submit, Rearrange, vars
  <2>2. CASE \E c \in Calls, r \in Requests : Refuse(c, r)
    BY <2>2, OthersKeepCache
  <2>3. CASE \E c \in Calls, r \in Requests : \E i \in DOMAIN accounts : Start(c, r, i)
    BY <2>3, ListingAsks, OthersKeepCache DEF Start
  <2>4. CASE \E c \in Calls : Step(c)
    BY <2>4, SettleKeepsOrDrops, OthersKeepCache DEF Step
  <2>5. CASE ClearCaches
    BY <2>5, ClearingClears
  <2>6. QED
    BY <2>1, <2>2, <2>3, <2>4, <2>5 DEF Next
<1>3. QED
  BY Invariance, <1>1, <1>2, PTL DEF Spec, CachesKeepPromise, Promise!Spec
-----------------------------------------------------------------------------
(* From the form to the mailbox. *)

\* The accounts are those of a form, and a call that is under way works on the account
\* of the card it meant when it was made.
Meant(c) ==
  pc[c] \in {"await", "connect", "work", "logout"} =>
    \E f \in Forms : \E j \in DOMAIN f :
      Means(task[c], f, j) /\ Keeps(task[c].account, f[j])

MeantInv ==
  /\ \E f \in Forms : accounts = readBack(f)
  /\ \A c \in Calls : Meant(c)

\* The account that is resolved is that of the card that was meant (resolveAccounts,
\* resolveSingleAccount).
LEMMA ResolvedIsMeant ==
  ASSUME ToolsInv, NEW f \in Forms, accounts = readBack(f), ReadAsTyped(f),
         NEW r, complete(r), NEW i, meant(r) = {i},
         NEW t, t.query = r.query, t.op = r.op
  PROVE  i \in DOMAIN f /\ Means(t, f, i)
<1>1. /\ DOMAIN accounts = DOMAIN f /\ DOMAIN f \subseteq Nat
      /\ \A j \in DOMAIN f : /\ accounts[j].email = f[j].email
                             /\ accounts[j].id = emailToId(f[j].email)
                             /\ DOMAIN f[j].email = {1}
  BY DEF ReadAsTyped, Keeps, ToolsInv, TypeOK
<1>2. \A j \in DOMAIN f : /\ exact(accounts[j], r.query) <=> IsExact(r.query, f[j])
                          /\ partial(accounts[j], r.query) <=> IsPartial(r.query, f[j])
  BY <1>1 DEF exact, partial, IsExact, IsPartial
<1>3. exactly(r.query) = {j \in DOMAIN f : IsExact(r.query, f[j])}
  BY <1>1, <1>2 DEF exactly
<1>4. CASE r.query = None
  <2>1. DOMAIN f = {i}
    BY <1>1, <1>4 DEF meant, resolveAccounts
  <2>2. QED
    BY <1>4, <2>1 DEF Means
<1>5. CASE r.query # None /\ exactly(r.query) # {}
  <2>1. exactly(r.query) = {i}
    BY <1>5 DEF meant, resolveAccounts
  <2>2. QED
    BY <1>3, <1>5, <2>1 DEF Means
<1>6. CASE r.query # None /\ exactly(r.query) = {}
  <2>1. {j \in DOMAIN f : IsPartial(r.query, f[j])} = {i}
    BY <1>1, <1>2, <1>6 DEF meant, resolveAccounts
  <2>2. QED
    BY <1>3, <1>6, <2>1 DEF Means
<1>7. QED
  BY <1>4, <1>5, <1>6

LEMMA StartMeant ==
  ASSUME ToolsInv, MeantInv, \A f \in Forms : ReadAsTyped(f),
         NEW c \in Calls, NEW r \in Requests, NEW i \in DOMAIN accounts, Start(c, r, i)
  PROVE  MeantInv'
<1>1. Begin(c, r, i) /\ complete(r) /\ meant(r) = {i}
  BY DEF Start, StartPlain, StartKnown, StartWaiting, StartListing, Begin
<1>2. \A d \in Calls \ {c} : task'[d] = task[d] /\ pc'[d] = pc[d]
  BY <1>1, BeginKnown
  DEF Start, StartPlain, StartKnown, StartWaiting, StartListing, ToolsInv, TypeOK
<1>3. /\ task'[c].query = r.query /\ task'[c].op = r.op
      /\ task'[c].account = accounts[i]
  BY <1>1 DEF Begin, ToolsInv, TypeOK
<1>4. PICK f \in Forms : accounts = readBack(f)
  BY DEF MeantInv
<1>5. i \in DOMAIN f /\ Means(task'[c], f, i)
  BY <1>1, <1>3, <1>4, ResolvedIsMeant
<1>6. Keeps(task'[c].account, f[i])
  BY <1>3, <1>4, <1>5 DEF ReadAsTyped
<1>7. Meant(c)'
  BY <1>5, <1>6 DEF Meant
<1>8. \A d \in Calls \ {c} : Meant(d)'
  BY <1>2 DEF MeantInv, Meant
<1>9. accounts' = accounts
  BY <1>1 DEF Begin
<1>10. QED
  BY <1>4, <1>7, <1>8, <1>9 DEF MeantInv

\* A step that leaves tasks and accounts alone, and wakes no call but those under way.
LEMMA KeepsMeant ==
  ASSUME MeantInv, UNCHANGED <<accounts, task>>,
         \A d \in Calls : pc'[d] \in {"await", "connect", "work", "logout"} =>
                            pc[d] \in {"await", "connect", "work", "logout"}
  PROVE  MeantInv'
BY DEF MeantInv, Meant

LEMMA NextMeant ==
  ASSUME ToolsInv, MeantInv, \A f \in Forms : ReadAsTyped(f), [Next]_vars
  PROVE  MeantInv'
<1>1. CASE \E f \in Forms : Submit(f)
  BY <1>1 DEF Submit, MeantInv, Meant
<1>2. CASE \E c \in Calls, r \in Requests : Refuse(c, r)
  BY <1>2, KeepsMeant DEF Refuse, ToolsInv, TypeOK
<1>3. CASE \E c \in Calls, r \in Requests : \E i \in DOMAIN accounts : Start(c, r, i)
  BY <1>3, StartMeant
<1>4. ASSUME NEW c \in Calls, Connect(c) \/ ConnectFails(c) \/ List(c) \/ Act(c) \/ WorkFails(c)
      PROVE  MeantInv'
  BY <1>4, KeepsMeant DEF Connect, ConnectFails, List, Act, WorkFails, session, ToolsInv, TypeOK
<1>5. ASSUME NEW c \in Calls, Finish(c) PROVE MeantInv'
  <2>1. \A d \in Calls : pc'[d] \in {"await", "connect", "work", "logout"} =>
          d # c /\ pc'[d] = pc[d] /\ task'[d] = task[d]
    BY <1>5 DEF Finish, ToolsInv, TypeOK
  <2>2. accounts' = accounts
    BY <1>5 DEF Finish
  <2>3. QED
    BY <2>1, <2>2 DEF MeantInv, Meant
<1>6. ASSUME NEW c \in Calls, Settle(c) PROVE MeantInv'
  <2>1. \A d \in served(c) : pc[d] \in {"await", "logout"}
    BY <1>6 DEF Settle, served
  <2>2. \A d \in Calls : pc'[d] = IF d \in served(c) THEN "connect" ELSE pc[d]
    BY <1>6 DEF Settle
  <2>3. QED
    BY <1>6, <2>1, <2>2, KeepsMeant DEF Settle
<1>7. CASE ClearCaches
  BY <1>7, KeepsMeant DEF ClearCaches
<1>8. CASE \E box \in Mailboxes : Rearrange(box)
  BY <1>8, KeepsMeant DEF Rearrange
<1>9. CASE UNCHANGED vars
  BY <1>9, KeepsMeant DEF vars
<1>10. QED
  BY <1>1, <1>2, <1>3, <1>4, <1>5, <1>6, <1>7, <1>8, <1>9 DEF Next, Step

\* What a request changes is in the mailbox of the call, and named by it (readEmail,
\* modifyFlags, moveEmails, trashEmails, appendToFolder).
LEMMA EffectNamed ==
  ASSUME ToolsInv, NEW c \in Calls, pc[c] = "work", NEW x \in SymDiff(mail, effect(c))
  PROVE  x.msg \in task[c].uids /\ x.box = Mailbox(task[c].account)
<1>1. x \in mail \cup effect(c) /\ ~(x \in mail /\ x \in effect(c))
  BY DEF SymDiff
<1>2. task[c].op \in Ops /\ mail \subseteq Copies
  BY DEF ToolsInv, TaskOK, TypeOK, Tasks
<1>3. \A y \in named(c) : /\ y.msg \in task[c].uids /\ y.box = Mailbox(task[c].account)
                          /\ y \in Copies
  BY <1>2 DEF named
<1> DEFINE g == task[c].flag
<1>4. \A y \in named(c) :
        LET Same(z) == z.msg = y.msg /\ z.box = y.box IN
        /\ Same([y EXCEPT !.flags = @ \cup {g}])
        /\ Same([y EXCEPT !.flags = @ \ {g}])
        /\ Same([y EXCEPT !.folder = target[c]])
  BY <1>3 DEF Copies
<1>5. CASE x \in named(c)
  BY <1>3, <1>5
<1>6. CASE x \notin named(c)
  <2> DEFINE marked == {[y EXCEPT !.flags = @ \cup {g}] : y \in named(c)}
             unmarked == {[y EXCEPT !.flags = @ \ {g}] : y \in named(c)}
             moved == {[y EXCEPT !.folder = target[c]] : y \in named(c)}
             filed == {[msg |-> m, box |-> Mailbox(task[c].account), folder |-> target[c],
                        flags |-> {"\\Seen"}] : m \in task[c].uids}
             rest == mail \ named(c)
  <2>1. \/ effect(c) \in {mail, rest, rest \cup marked, rest \cup unmarked, rest \cup moved}
        \/ effect(c) = mail \cup filed
    BY <1>2 DEF effect, Ops
  <2>2. x \in marked \cup unmarked \cup moved =>
          x.msg \in task[c].uids /\ x.box = Mailbox(task[c].account)
    BY <1>3, <1>4
  <2>3. x \in filed => x.msg \in task[c].uids /\ x.box = Mailbox(task[c].account)
    OBVIOUS
  <2> HIDE DEF marked, unmarked, moved, filed
  <2>4. QED
    BY <1>1, <1>6, <2>1, <2>2, <2>3
<1>7. QED
  BY <1>5, <1>6

LEMMA StepMeant ==
  ASSUME ToolsInv, MeantInv, [Next]_vars, NEW x \in SymDiff(mail, mail')
  PROVE  \E c \in Calls : LET t == task[c] IN
           /\ pc[c] = "work" /\ x.msg \in t.uids
           /\ x.box = Mailbox(t.account)
           /\ \E f \in Forms : \E j \in DOMAIN f :
                Means(t, f, j) /\ Keeps(t.account, f[j])
<1>1. mail' # mail
  BY DEF SymDiff
<1>2. PICK c \in Calls : Act(c) \/ WorkFails(c)
  <2>1. ASSUME NEW c \in Calls, Step(c) PROVE Act(c) \/ WorkFails(c)
    BY <1>1, <2>1 DEF Step, Connect, ConnectFails, List, Finish, Settle
  <2>2. ASSUME NEW c \in Calls, NEW r \in Requests, Refuse(c, r) PROVE FALSE
    BY <1>1, <2>2 DEF Refuse
  <2>3. ASSUME NEW c \in Calls, NEW r \in Requests, NEW i \in DOMAIN accounts, Start(c, r, i)
        PROVE  FALSE
    BY <1>1, <2>3 DEF Start, StartPlain, StartKnown, StartWaiting, StartListing, Begin
  <2>4. ~(\E f \in Forms : Submit(f)) /\ ~ClearCaches /\ ~(\E box \in Mailboxes : Rearrange(box))
    BY <1>1 DEF Submit, ClearCaches, Rearrange
  <2>5. QED
    BY <1>1, <2>1, <2>2, <2>3, <2>4 DEF Next, vars
<1>3. pc[c] = "work" /\ mail' = effect(c)
  BY <1>1, <1>2 DEF Act, WorkFails
<1>4. x.msg \in task[c].uids /\ x.box = Mailbox(task[c].account)
  BY <1>3, EffectNamed
<1>5. \E f \in Forms : \E j \in DOMAIN f : Means(task[c], f, j) /\ Keeps(task[c].account, f[j])
  BY <1>3 DEF MeantInv, Meant
<1>6. QED
  BY <1>3, <1>4, <1>5

(***************************************************************************)
(* If the forms are read back as typed, a message changes only in the      *)
(* mailbox of the card that a call means, at the host of that card, though *)
(* another form is accepted while the call runs (resolveSingleAccount,     *)
(* withConnection).                                                        *)
(***************************************************************************)
THEOREM MeantMailbox ==
  (\A f \in Forms : ReadAsTyped(f)) => (Spec => OnlyMeantMailbox)
<1> SUFFICES ASSUME \A f \in Forms : ReadAsTyped(f) PROVE Spec => OnlyMeantMailbox
  OBVIOUS
<1> DEFINE Named == \A x \in SymDiff(mail, mail') :
                      \E c \in Calls : LET t == task[c] IN
                        /\ pc[c] = "work" /\ x.msg \in t.uids
                        /\ x.box = Mailbox(t.account)
                        /\ \E f \in Forms : \E j \in DOMAIN f :
                             /\ Means(t, f, j)
                             /\ Keeps(t.account, f[j])
<1>1. Init => MeantInv
  BY FormsRead DEF Init, MeantInv, Meant
<1>2. ToolsInv /\ MeantInv /\ [Next]_vars => MeantInv'
  BY NextMeant
<1>3. ToolsInv /\ MeantInv /\ [Next]_vars => [Named]_vars
  BY StepMeant
<1>4. QED
  BY <1>1, <1>2, <1>3, Invariance, PTL DEF Spec, OnlyMeantMailbox

(***************************************************************************)
(* A form of cards the string can carry is read as it was typed            *)
(* (assembleEmailCredentials, then parseCredentials).                      *)
(***************************************************************************)
LEMMA ReadAsTypedForm ==
  ASSUME NEW f \in Seq(Typable), \A j \in DOMAIN f : Expressible(f[j])
  PROVE  ReadAsTyped(f)
<1>1. FormReadBack(f)
  BY FormsReadBack
<1>2. ASSUME NEW j \in DOMAIN f PROVE Len(f[j].email) = 1
  <2>1. f[j] \in Typable
    BY <1>2, ElementOfSeq
  <2>2. QED
    BY <2>1 DEF Typable
<1>3. QED
  BY <1>1, <1>2, Zenon DEF ReadAsTyped, FormReadBack, KeptAs, readBack

(***************************************************************************)
(* So from forms of such cards, whatever they hold, a message changes only *)
(* in the mailbox of the card that a call means, at the host typed on that *)
(* card and with its password (assembleEmailCredentials, parseCredentials, *)
(* resolveSingleAccount, withConnection).                                  *)
(***************************************************************************)
THEOREM TypedMailbox ==
  ASSUME \A f \in Forms : f \in Seq(Typable) /\ \A j \in DOMAIN f : Expressible(f[j])
  PROVE  Spec => OnlyMeantMailbox
<1>1. \A f \in Forms : ReadAsTyped(f)
  BY ReadAsTypedForm
<1>2. QED
  BY <1>1, MeantMailbox

\* Passwords before the endings of ReadsBack are read back whole when a form is
\* submitted, whatever their segments are.
THEOREM TailsRead == TailsReadBack
BY NoTailMisread, PTL DEF TailsReadBack

\* And no card that the string can carry is read as another account, or as none.
THEOREM CardsRead == CardsReadBack
BY NoCardMisread, PTL DEF CardsReadBack
=============================================================================
