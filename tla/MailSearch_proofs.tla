------------------------- MODULE MailSearch_proofs -------------------------
(***************************************************************************)
(* Theorems about MailSearch, for any accounts, limit, window, mailboxes   *)
(* and bounds.                                                             *)
(***************************************************************************)
EXTENDS MailSearch, FiniteSetTheorems, TLAPS

-----------------------------------------------------------------------------
(* The inductive invariant: what the scan of an account has done so far. *)

\* What matches now has matched since the mailbox was selected.
Selected == {"partial", "windows", "fetch", "summarising", "ready"}
MailboxOK(a) ==
  /\ find[a].pc \in Selected => hits[a] \subseteq ever[a]
  /\ steady[a] \subseteq hits[a]
  /\ hits[a] \cap gone[a] = {}

\* Below top and above low, a message that has matched all along is selected, or
\* Limit newer ones are.
NewestAbove(a, low) ==
  \A u \in steady[a] \ find[a].selected : low < u /\ u <= find[a].top =>
    /\ Cardinality(find[a].selected) = Limit
    /\ \A v \in find[a].selected : u < v

ScanOK(a) ==
  /\ find[a].selected \subseteq ever[a]
  /\ find[a].found \subseteq find[a].selected
  /\ find[a].pc \in {"connecting", "partial", "windows", "fetch"} =>
       find[a].found = {}
  /\ find[a].pc \in {"connecting", "partial"} =>
       find[a].selected = {} /\ find[a].high = find[a].top
  /\ find[a].pc = "windows" =>
       /\ \A v \in find[a].selected : find[a].high < v
       /\ NewestAbove(a, find[a].high)
  /\ find[a].pc \in {"fetch", "summarising", "ready"} => NewestAbove(a, 0)
  /\ find[a].pc \in {"summarising", "ready"} =>
       steady[a] \cap find[a].selected \subseteq find[a].found

AnswerOK(a) ==
  /\ find[a].pc = "unavailable" => a \in hurt
  /\ search = "idle" => find[a].pc \in {"connecting", "ready", "unavailable"}
  /\ search = "idle" /\ find[a].pc = "ready" =>
       answer[a] = [unavailable |-> FALSE, messages |-> find[a].found]

SearchInv ==
  /\ TypeOK
  /\ \A a \in Accounts : MailboxOK(a) /\ ScanOK(a) /\ AnswerOK(a)

-----------------------------------------------------------------------------

\* The newest Limit of a set are no more than Limit and hide nothing newer: the
\* splice of searchNewestUidsInBoundedWindows.
LEMMA NewestBounds ==
  ASSUME NEW S, NEW T, IsNewest(T, S, Limit)
  PROVE  /\ T \subseteq S
         /\ Cardinality(T) <= Limit
         /\ \A u \in S \ T : Cardinality(T) = Limit /\ \A v \in T : u < v
BY DEF IsNewest

\* UIDs are positive numbers.
LEMMA UidsPositive == \A u \in AllUids : u \in Nat /\ u >= 1
BY SearchBounds DEF AllUids, Uids

\* An account's search begins with nothing selected.
LEMMA FindFromType ==
  ASSUME NEW pc \in {"connecting", "partial", "windows"}, NEW n \in Nat
  PROVE  LET f == FindFrom(pc, n) IN
         /\ f \in Find
         /\ f.selected = {} /\ f.found = {}
         /\ f.pc = pc /\ f.high = n /\ f.top = n
         /\ Cardinality(f.selected) <= Limit
<1>1. Cardinality({}) = 0 /\ Limit \in Nat
  BY FS_EmptySet, SearchBounds
<1>2. QED
  BY <1>1 DEF FindFrom, Find

LEMMA NewFindType ==
  /\ NewFind \in Find
  /\ NewFind.selected = {} /\ NewFind.found = {}
  /\ NewFind.pc = "connecting" /\ NewFind.high = NewFind.top
  /\ Cardinality(NewFind.selected) <= Limit
BY FindFromType DEF NewFind

\* The first state satisfies the invariant.
LEMMA InitInv == Init => SearchInv
<1> SUFFICES ASSUME Init PROVE SearchInv
  OBVIOUS
<1>1. uidNext \in [Accounts -> Nat]
  BY UidsPositive DEF Init
<1>2. ASSUME NEW a \in Accounts
      PROVE  uidNext[a] >= 1 /\ uidNext[a] <= MaxUid[a] + 1
    BY UidsPositive, <1>2 DEF Init
<1>3. MailboxTypeOK
  BY <1>1, <1>2, SearchBounds DEF MailboxTypeOK, Init
<1>4. FindTypeOK
  <2>1. \A a \in Accounts : find[a] = NewFind
    BY DEF Init
  <2>2. find \in [Accounts -> Find]
    BY NewFindType DEF Init
  <2>3. Unavailable \in [unavailable : BOOLEAN, messages : SUBSET AllUids]
    BY DEF Unavailable
  <2>4. answer \in [Accounts -> [unavailable : BOOLEAN, messages : SUBSET AllUids]]
    <3> HIDE DEF Unavailable
    <3>1. answer = [a \in Accounts |-> Unavailable]
      BY DEF Init
    <3>2. QED
      BY <2>3, <3>1
  <2>5. faults \in 0 .. MaxFaults /\ search \in {"idle", "running"}
    BY SearchBounds DEF Init
  <2>6. QED
    BY <2>1, <2>2, <2>4, <2>5, NewFindType DEF FindTypeOK
<1>5. HistoryTypeOK
  BY DEF HistoryTypeOK, Init
<1>6. ASSUME NEW a \in Accounts, NEW u \in hits[a] \cup gone[a] \cup ever[a]
      PROVE  u < uidNext[a]
  <2>1. u \in 1 .. uidNext[a] - 1
    BY <1>6 DEF Init
  <2>2. QED
    BY <1>1, <1>6, <2>1
<1>7. \A a \in Accounts : MailboxOK(a) /\ ScanOK(a) /\ AnswerOK(a)
  BY NewFindType DEF Init, MailboxOK, Selected, ScanOK, AnswerOK
<1>8. QED
  BY <1>3, <1>4, <1>5, <1>6, <1>7 DEF SearchInv, TypeOK

-----------------------------------------------------------------------------
(* One lemma per action. *)

LEMMA StartSearchInv == SearchInv /\ StartSearch => SearchInv'
<1> SUFFICES ASSUME SearchInv, StartSearch PROVE SearchInv'
  OBVIOUS
<1>1. MailboxTypeOK'
  BY DEF SearchInv, TypeOK, MailboxTypeOK, StartSearch, mailbox
<1>2. FindTypeOK'
  BY NewFindType DEF SearchInv, TypeOK, FindTypeOK, StartSearch, Unavailable
<1>3. HistoryTypeOK' /\ \A a \in Accounts : \A u \in (hits[a] \cup gone[a] \cup ever[a])' : u < uidNext'[a]
  BY DEF SearchInv, TypeOK, HistoryTypeOK, StartSearch, mailbox
<1>4. ASSUME NEW a \in Accounts PROVE (MailboxOK(a) /\ ScanOK(a) /\ AnswerOK(a))'
  BY <1>4, NewFindType DEF SearchInv, MailboxOK, Selected, ScanOK, AnswerOK, StartSearch, mailbox
<1>5. QED
  BY <1>1, <1>2, <1>3, <1>4 DEF SearchInv, TypeOK

\* Whatever an account's own step does to its search, the other accounts keep
\* their part of the invariant.
LEMMA OthersKept ==
  ASSUME SearchInv, NEW a \in Accounts, NEW f \in Find,
         find' = [find EXCEPT ![a] = f],
         search' = search, answer' = answer, hurt \subseteq hurt',
         hits' = hits, gone' = gone,
         \A b \in Accounts \ {a} : steady'[b] = steady[b] /\ ever'[b] = ever[b],
         NEW b \in Accounts \ {a}
  PROVE  (MailboxOK(b) /\ ScanOK(b) /\ AnswerOK(b))'
<1>1. find'[b] = find[b]
  BY DEF SearchInv, TypeOK, FindTypeOK
<1>2. MailboxOK(b) /\ ScanOK(b) /\ AnswerOK(b)
  BY DEF SearchInv
<1>3. QED
  BY <1>1, <1>2 DEF MailboxOK, ScanOK, AnswerOK, NewestAbove

\* A step of one account's search that leaves the mailboxes and the history alone.
Stepped(a, f) ==
  /\ find' = [find EXCEPT ![a] = f]
  /\ UNCHANGED <<uidNext, hits, gone, changes, search, answer, steady, ever>>

\* Such a step keeps the invariant if it does so for that account.
LEMMA SteppedInv ==
  ASSUME SearchInv, NEW a \in Accounts, NEW f \in Find, Stepped(a, f),
         Cardinality(f.selected) <= Limit,
         faults' \in 0 .. MaxFaults, hurt \subseteq hurt', hurt' \subseteq Accounts,
         f.pc = "unavailable" \/ find[a].pc \in Selected,
         ScanOK(a)', AnswerOK(a)'
  PROVE  SearchInv'
<1>1. MailboxTypeOK' /\ HistoryTypeOK'
      /\ \A b \in Accounts : \A u \in (hits[b] \cup gone[b] \cup ever[b])' : u < uidNext'[b]
  BY DEF SearchInv, TypeOK, MailboxTypeOK, HistoryTypeOK, Stepped
<1>2. FindTypeOK'
  BY DEF SearchInv, TypeOK, FindTypeOK, Stepped
<1>3. MailboxOK(a)'
  <2>1. find'[a] = f
    BY DEF SearchInv, TypeOK, FindTypeOK, Stepped
  <2>2. QED
    BY <2>1 DEF SearchInv, MailboxOK, Selected, Stepped
<1>4. ASSUME NEW b \in Accounts \ {a}
      PROVE  (MailboxOK(b) /\ ScanOK(b) /\ AnswerOK(b))'
  BY <1>4, OthersKept DEF Stepped
<1>5. QED
  BY <1>1, <1>2, <1>3, <1>4 DEF SearchInv, TypeOK

LEMMA ConnectInv ==
  ASSUME SearchInv, NEW a \in Accounts, NEW pc \in {"partial", "windows"}, Connect(a, pc)
  PROVE  SearchInv'
<1> DEFINE n == uidNext[a] - 1
           f == FindFrom(pc, n)
<1>1. n \in Nat
  BY DEF SearchInv, TypeOK, MailboxTypeOK
<1>2. /\ f \in Find /\ f.selected = {} /\ f.found = {}
      /\ f.pc = pc /\ f.high = n /\ f.top = n
      /\ Cardinality(f.selected) <= Limit
  BY <1>1, FindFromType
<1>3. find' = [find EXCEPT ![a] = f] /\ find'[a] = f
  BY DEF Connect, SearchInv, TypeOK, FindTypeOK
<1>4. steady'[a] = hits[a] /\ ever'[a] = hits[a]
  BY DEF Connect, SearchInv, TypeOK, HistoryTypeOK
<1>5. \A c \in Accounts \ {a} : steady'[c] = steady[c] /\ ever'[c] = ever[c]
  BY DEF Connect, SearchInv, TypeOK, HistoryTypeOK
<1>6. TypeOK'
  <2>1. MailboxTypeOK'
    BY DEF SearchInv, TypeOK, MailboxTypeOK, Connect, mailbox
  <2>2. FindTypeOK'
    BY <1>2, <1>3 DEF SearchInv, TypeOK, FindTypeOK, Connect
  <2>3. HistoryTypeOK'
    BY DEF SearchInv, TypeOK, MailboxTypeOK, HistoryTypeOK, Connect
  <2>4. \A b \in Accounts : \A u \in (hits[b] \cup gone[b] \cup ever[b])' : u < uidNext'[b]
    BY <1>4, <1>5 DEF SearchInv, TypeOK, Connect, mailbox
  <2>5. QED
    BY <2>1, <2>2, <2>3, <2>4 DEF TypeOK
<1>7. (MailboxOK(a) /\ ScanOK(a) /\ AnswerOK(a))'
  <2>1. MailboxOK(a)'
    BY <1>4 DEF SearchInv, MailboxOK, Connect, mailbox
  <2>2. \A u \in hits[a] : u \in Nat
    BY UidsPositive DEF SearchInv, TypeOK, MailboxTypeOK
  <2>3. ScanOK(a)'
    BY <1>1, <1>2, <1>3, <1>4, <2>2 DEF ScanOK, NewestAbove
  <2>4. AnswerOK(a)'
    BY <1>2, <1>3 DEF AnswerOK, Connect
  <2>5. QED
    BY <2>1, <2>3, <2>4
<1>8. ASSUME NEW b \in Accounts \ {a}
      PROVE  (MailboxOK(b) /\ ScanOK(b) /\ AnswerOK(b))'
  <2>1. search' = search /\ answer' = answer /\ hurt' = hurt /\ hits' = hits
        /\ gone' = gone
    BY DEF Connect, mailbox
  <2>2. QED
    BY <1>2, <1>3, <1>5, <2>1, OthersKept
<1>9. QED
  BY <1>6, <1>7, <1>8 DEF SearchInv

LEMMA PartialInv ==
  ASSUME SearchInv, NEW a \in Accounts, Partial(a)
  PROVE  SearchInv'
<1>1. find \in [Accounts -> Find] /\ ScanOK(a) /\ MailboxOK(a) /\ AnswerOK(a)
      /\ Cardinality(find[a].selected) <= Limit
  BY DEF SearchInv, TypeOK, FindTypeOK
<1>2. faults' \in 0 .. MaxFaults /\ hurt' = hurt /\ hurt' \subseteq Accounts
  BY DEF SearchInv, TypeOK, FindTypeOK, HistoryTypeOK, Partial
<1>3. CASE find' = [find EXCEPT ![a].pc = "windows"]
  <2> DEFINE f == [find[a] EXCEPT !.pc = "windows"]
  <2>1. f \in Find /\ Stepped(a, f) /\ find'[a] = f
    BY <1>1, <1>3 DEF Find, Stepped, Partial, mailbox, history
  <2>2. f.selected = {} /\ f.found = {} /\ f.high = f.top /\ f.pc = "windows"
        /\ f.top \in Nat
        /\ f.selected = find[a].selected
    BY <1>1 DEF ScanOK, Partial, Find
  <2>3. \A u \in steady[a] : u \in Nat
    BY UidsPositive DEF SearchInv, TypeOK, HistoryTypeOK
  <2> HIDE DEF f
  <2>4. ScanOK(a)'
    BY <2>1, <2>2, <2>3 DEF ScanOK, NewestAbove, Stepped
  <2>5. AnswerOK(a)'
    BY <1>1, <2>1, <2>2 DEF AnswerOK, Stepped, Partial
  <2>6. QED
    BY <1>1, <1>2, <2>1, <2>2, <2>4, <2>5, SteppedInv DEF Selected, Partial
<1>4. ASSUME NEW T \in SUBSET hits[a], IsNewest(T, hits[a], Limit),
             \A u \in T : u <= find[a].top,
             find' = [find EXCEPT ![a].pc = "fetch", ![a].selected = T]
      PROVE  SearchInv'
  <2> DEFINE f == [find[a] EXCEPT !.pc = "fetch", !.selected = T]
  <2>1. T \subseteq AllUids
    BY DEF SearchInv, TypeOK, MailboxTypeOK
  <2>2. f \in Find /\ Stepped(a, f) /\ find'[a] = f
    BY <1>1, <1>4, <2>1 DEF Find, Stepped, Partial, mailbox, history
  <2>3. f.selected = T /\ f.found = {} /\ f.pc = "fetch"
    BY <1>1 DEF ScanOK, Partial, Find
  <2>4. hits[a] \subseteq ever[a]
    BY DEF SearchInv, MailboxOK, Selected, Partial
  <2> HIDE DEF f
  <2>5. \A u \in hits[a] \ T : Cardinality(T) = Limit /\ \A v \in T : u < v
    BY <1>4, NewestBounds
  <2>6. ScanOK(a)'
    BY <1>1, <2>2, <2>3, <2>4, <2>5 DEF ScanOK, NewestAbove, Stepped, MailboxOK
  <2>7. AnswerOK(a)'
    BY <1>1, <2>2, <2>3 DEF AnswerOK, Stepped, Partial
  <2>8. Cardinality(T) <= Limit
    BY <1>4, NewestBounds
  <2>9. QED
    BY <1>2, <2>2, <2>3, <2>6, <2>7, <2>8, SteppedInv DEF Selected, Partial
<1>5. QED
  BY <1>3, <1>4 DEF Partial

LEMMA SearchWindowInv ==
  ASSUME SearchInv, NEW a \in Accounts, SearchWindow(a)
  PROVE  SearchInv'
<1> DEFINE S == find[a].selected \cup InWindow(a)
<1>1. find \in [Accounts -> Find] /\ ScanOK(a) /\ MailboxOK(a) /\ AnswerOK(a)
  BY DEF SearchInv, TypeOK, FindTypeOK
<1>2. faults' \in 0 .. MaxFaults /\ hurt' = hurt /\ hurt' \subseteq Accounts
  BY DEF SearchInv, TypeOK, FindTypeOK, HistoryTypeOK, SearchWindow
<1>3. PICK T \in SUBSET S :
        /\ IsNewest(T, S, Limit)
        /\ find' = [find EXCEPT ![a].selected = T, ![a].high = @ - Window]
  BY DEF SearchWindow
<1> DEFINE low == find[a].high - Window
           f == [find[a] EXCEPT !.selected = T, !.high = low]
<1>4. find[a].high \in Int /\ low \in Int /\ low < find[a].high
  BY <1>1, SearchBounds DEF Find
<1>5. S \subseteq AllUids /\ S \subseteq ever[a]
  <2>1. InWindow(a) \subseteq hits[a]
    BY DEF InWindow
  <2>2. hits[a] \subseteq ever[a] /\ hits[a] \subseteq AllUids
    BY DEF SearchInv, MailboxOK, Selected, TypeOK, MailboxTypeOK, SearchWindow
  <2>3. find[a].selected \subseteq AllUids
    BY <1>1 DEF Find
  <2>4. QED
    BY <1>1, <2>1, <2>2, <2>3 DEF ScanOK
<1>6. f \in Find /\ Stepped(a, f) /\ find'[a] = f
  BY <1>1, <1>3, <1>4, <1>5 DEF Find, Stepped, SearchWindow, mailbox, history
<1>7. f.selected = T /\ f.high = low /\ f.pc = "windows" /\ f.top = find[a].top
      /\ f.found = find[a].found
  BY <1>1 DEF SearchWindow, Find
<1>8. Cardinality(T) <= Limit
      /\ \A u \in S \ T : Cardinality(T) = Limit /\ \A v \in T : u < v
  BY <1>3, NewestBounds
<1>9. \A u \in AllUids : u \in Nat
  BY UidsPositive
<1>10. \A v \in S : low < v
  BY <1>1, <1>4, <1>5, <1>9 DEF InWindow, ScanOK, SearchWindow
\* What lay above the window was all selected, as fewer than Limit were; what
\* lies within it is in S.
<1>11. ASSUME NEW u \in steady[a] \ T, low < u, u <= find[a].top
       PROVE  Cardinality(T) = Limit /\ \A v \in T : u < v
  <2>1. u \in Nat /\ u \in hits[a]
    BY <1>1, <1>9 DEF MailboxOK, SearchInv, TypeOK, MailboxTypeOK
  <2>2. CASE u <= find[a].high
    BY <1>8, <1>11, <2>1, <2>2 DEF InWindow
  <2>3. CASE find[a].high < u
    <3>1. Cardinality(find[a].selected) # Limit
      BY SearchBounds DEF SearchWindow, Scanning
    <3>2. u \in find[a].selected
      BY <1>1, <1>11, <2>3, <3>1 DEF ScanOK, NewestAbove, SearchWindow
    <3>3. QED
      BY <1>8, <1>11, <3>2
  <2>4. QED
    BY <1>4, <2>1, <2>2, <2>3
<1> HIDE DEF f, low, S
<1>12. ScanOK(a)'
  BY <1>1, <1>3, <1>5, <1>6, <1>7, <1>10, <1>11
  DEF ScanOK, NewestAbove, Stepped, SearchWindow
<1>13. AnswerOK(a)'
  BY <1>1, <1>6, <1>7 DEF AnswerOK, Stepped, SearchWindow
<1>14. QED
  BY <1>2, <1>6, <1>7, <1>8, <1>12, <1>13, SteppedInv DEF Selected, SearchWindow

LEMMA FetchInv ==
  ASSUME SearchInv, NEW a \in Accounts, Fetch(a)
  PROVE  SearchInv'
<1> DEFINE f == [find[a] EXCEPT !.pc = "summarising", !.found = find[a].selected \ gone[a]]
<1>1. find \in [Accounts -> Find] /\ ScanOK(a) /\ MailboxOK(a) /\ AnswerOK(a)
      /\ Cardinality(find[a].selected) <= Limit
  BY DEF SearchInv, TypeOK, FindTypeOK
<1>2. faults' \in 0 .. MaxFaults /\ hurt' = hurt /\ hurt' \subseteq Accounts
  BY DEF SearchInv, TypeOK, FindTypeOK, HistoryTypeOK, Fetch
<1>3. f \in Find /\ Stepped(a, f) /\ find'[a] = f
  BY <1>1 DEF Find, Stepped, Fetch, mailbox, history
<1>4. f.pc = "summarising" /\ f.selected = find[a].selected /\ f.top = find[a].top
      /\ f.found = find[a].selected \ gone[a]
  BY <1>1 DEF Find
<1> HIDE DEF f
\* A scan has ended at UID 1 or with Limit messages.
<1>5. NewestAbove(a, 0)
  <2>1. CASE find[a].pc = "fetch"
    BY <1>1, <2>1 DEF ScanOK
  <2>2. CASE find[a].pc = "windows" /\ ~Scanning(a)
    <3>1. find[a].high \in Int /\ Limit \in Nat /\ find[a].selected \subseteq AllUids
      BY <1>1, SearchBounds DEF Find
    <3>2. IsFiniteSet(find[a].selected)
      <4>1. find[a].selected \subseteq 1 .. uidNext[a]
        BY <1>1, UidsPositive DEF ScanOK, SearchInv, TypeOK, MailboxTypeOK, HistoryTypeOK
      <4>2. uidNext[a] \in Int /\ 1 \in Int
        BY DEF SearchInv, TypeOK, MailboxTypeOK
      <4>3. IsFiniteSet(1 .. uidNext[a])
        BY <4>2, FS_Interval
      <4>4. QED
        BY <4>1, <4>3, FS_Subset
    <3>3. Cardinality(find[a].selected) \in Nat
      BY <3>2, FS_CardinalityType
    <3>4. CASE find[a].high < 1
      BY <1>1, <2>2, <3>1, <3>4, UidsPositive
      DEF ScanOK, NewestAbove, SearchInv, TypeOK, HistoryTypeOK
    <3>5. CASE Cardinality(find[a].selected) = Limit
      <4>1. ASSUME NEW u \in steady[a] \ find[a].selected, u <= find[a].top,
                   NEW v \in find[a].selected
            PROVE  u < v
        <5>1. u \in Nat /\ v \in Nat
          BY <3>1, UidsPositive DEF SearchInv, TypeOK, HistoryTypeOK
        <5>2. find[a].high < v
          BY <1>1, <2>2 DEF ScanOK
        <5>3. CASE find[a].high < u
          BY <1>1, <2>2, <4>1, <5>3 DEF ScanOK, NewestAbove
        <5>4. CASE u <= find[a].high
          BY <3>1, <5>1, <5>2, <5>4
        <5>5. QED
          BY <3>1, <5>1, <5>3, <5>4
      <4>2. QED
        BY <3>5, <4>1 DEF NewestAbove
    <3>6. QED
      BY <1>1, <2>2, <3>1, <3>3, <3>4, <3>5 DEF Scanning
  <2>3. QED
    BY <2>1, <2>2 DEF Fetch
<1>6. steady[a] \cap find[a].selected \subseteq f.found
  BY <1>1, <1>4 DEF MailboxOK
<1>7. ScanOK(a)'
  BY <1>1, <1>3, <1>4, <1>5, <1>6 DEF ScanOK, NewestAbove, Stepped
<1>8. AnswerOK(a)'
  BY <1>1, <1>3, <1>4 DEF AnswerOK, Stepped, Fetch
<1>9. QED
  BY <1>1, <1>2, <1>3, <1>4, <1>7, <1>8, SteppedInv DEF Selected, Fetch

LEMMA FailInv ==
  ASSUME SearchInv, NEW a \in Accounts, Fail(a)
  PROVE  SearchInv'
<1> DEFINE f == [find[a] EXCEPT !.pc = "unavailable"]
<1>1. find \in [Accounts -> Find] /\ ScanOK(a) /\ MailboxOK(a) /\ AnswerOK(a)
      /\ Cardinality(find[a].selected) <= Limit
  BY DEF SearchInv, TypeOK, FindTypeOK
<1>2. hurt \subseteq hurt' /\ hurt' \subseteq Accounts /\ a \in hurt'
  BY DEF SearchInv, TypeOK, HistoryTypeOK, Fail
<1>3. faults' \in 0 .. MaxFaults
  BY SearchBounds DEF SearchInv, TypeOK, FindTypeOK, Fail
<1>4. f \in Find /\ Stepped(a, f) /\ find'[a] = f
  BY <1>1 DEF Find, Stepped, Fail, mailbox, history
<1>5. f.pc = "unavailable" /\ f.selected = find[a].selected /\ f.found = find[a].found
  BY <1>1 DEF Find
<1> HIDE DEF f
<1>6. ScanOK(a)'
  BY <1>1, <1>4, <1>5 DEF ScanOK, Stepped
<1>7. AnswerOK(a)'
  BY <1>2, <1>4, <1>5 DEF AnswerOK
<1>8. QED
  BY <1>1, <1>2, <1>3, <1>4, <1>5, <1>6, <1>7, SteppedInv

LEMMA SummariseInv ==
  ASSUME SearchInv, NEW a \in Accounts, Summarise(a)
  PROVE  SearchInv'
<1> DEFINE f == [find[a] EXCEPT !.pc = "ready"]
<1>1. find \in [Accounts -> Find] /\ ScanOK(a) /\ MailboxOK(a) /\ AnswerOK(a)
      /\ Cardinality(find[a].selected) <= Limit
  BY DEF SearchInv, TypeOK, FindTypeOK
<1>2. faults' \in 0 .. MaxFaults /\ hurt' = hurt /\ hurt' \subseteq Accounts
  BY DEF SearchInv, TypeOK, FindTypeOK, HistoryTypeOK, Summarise
<1>3. f \in Find /\ Stepped(a, f) /\ find'[a] = f
  BY <1>1 DEF Find, Stepped, Summarise, mailbox, history
<1>4. f.pc = "ready" /\ f.selected = find[a].selected /\ f.top = find[a].top
      /\ f.found = find[a].found
  BY <1>1 DEF Find
<1> HIDE DEF f
<1>5. ScanOK(a)'
  BY <1>1, <1>3, <1>4 DEF ScanOK, NewestAbove, Stepped, Summarise
<1>6. AnswerOK(a)'
  BY <1>1, <1>3, <1>4 DEF AnswerOK, Stepped, Summarise
<1>7. QED
  BY <1>1, <1>2, <1>3, <1>4, <1>5, <1>6, SteppedInv DEF Selected, Summarise

LEMMA AnswerInv == SearchInv /\ Answer => SearchInv'
<1> SUFFICES ASSUME SearchInv, Answer PROVE SearchInv'
  OBVIOUS
<1>1. \A a \in Accounts : find[a].found \subseteq AllUids
  BY DEF SearchInv, TypeOK, FindTypeOK, Find
<1>2. answer' \in [Accounts -> [unavailable : BOOLEAN, messages : SUBSET AllUids]]
  BY <1>1 DEF Answer, Unavailable
<1>3. TypeOK'
  BY <1>2 DEF SearchInv, TypeOK, MailboxTypeOK, FindTypeOK, HistoryTypeOK, Answer,
              mailbox, history
<1>4. ASSUME NEW a \in Accounts PROVE (MailboxOK(a) /\ ScanOK(a) /\ AnswerOK(a))'
  <2>1. MailboxOK(a)' /\ ScanOK(a)'
    BY DEF SearchInv, MailboxOK, ScanOK, NewestAbove, Answer, mailbox, history
  <2>2. find[a].pc = "ready" =>
          answer'[a] = [unavailable |-> FALSE, messages |-> find[a].found]
    BY DEF Answer
  <2>3. AnswerOK(a)'
    BY <2>2 DEF SearchInv, AnswerOK, Answer, Settled
  <2>4. QED
    BY <2>1, <2>3
<1>5. QED
  BY <1>3, <1>4 DEF SearchInv

-----------------------------------------------------------------------------
(* Changes other clients make. *)

\* A change of a mailbox never disturbs a scan: messages only leave steady and
\* only join ever.
LEMMA ChangeInv ==
  ASSUME SearchInv, Change,
         MailboxTypeOK', HistoryTypeOK',
         \A b \in Accounts :
           /\ steady'[b] \subseteq steady[b]
           /\ ever[b] \subseteq ever'[b]
           /\ \A u \in hits'[b] \cup gone'[b] \cup ever'[b] : u < uidNext'[b]
           /\ steady'[b] \subseteq hits'[b]
           /\ hits'[b] \cap gone'[b] = {}
           /\ hits'[b] \subseteq hits[b] \cup ever'[b]
  PROVE  SearchInv'
<1>1. FindTypeOK'
  BY DEF SearchInv, TypeOK, FindTypeOK, Change
<1>2. ASSUME NEW b \in Accounts PROVE (MailboxOK(b) /\ ScanOK(b) /\ AnswerOK(b))'
  <2>1. find' = find /\ hurt' = hurt /\ search' = search /\ answer' = answer
    BY DEF Change
  <2>2. MailboxOK(b)'
    BY <2>1 DEF SearchInv, MailboxOK
  <2>3. ScanOK(b)'
    BY <2>1 DEF SearchInv, ScanOK, NewestAbove
  <2>4. AnswerOK(b)'
    BY <2>1 DEF SearchInv, AnswerOK
  <2>5. QED
    BY <2>2, <2>3, <2>4
<1>3. QED
  BY <1>1, <1>2 DEF SearchInv, TypeOK

LEMMA ChangeCounted == SearchInv /\ Change => changes' \in 0 .. MaxChanges /\ hurt' = hurt
BY SearchBounds DEF SearchInv, TypeOK, MailboxTypeOK, Change

LEMMA ArriveInv ==
  ASSUME SearchInv, NEW a \in Accounts, NEW matches \in BOOLEAN, Arrive(a, matches)
  PROVE  SearchInv'
<1> DEFINE u == uidNext[a]
<1>1. Change /\ changes' \in 0 .. MaxChanges /\ hurt' = hurt
  BY ChangeCounted DEF Arrive
<1>2. u \in AllUids
  BY SearchBounds DEF Arrive, SearchInv, TypeOK, MailboxTypeOK, AllUids, Uids
<1>3. u \in Nat /\ uidNext' = [uidNext EXCEPT ![a] = u + 1]
  BY DEF Arrive, SearchInv, TypeOK, MailboxTypeOK
<1>4. \/ hits' = [hits EXCEPT ![a] = @ \cup {u}] /\ ever' = [ever EXCEPT ![a] = @ \cup {u}]
      \/ hits' = hits /\ ever' = ever
  BY DEF Arrive
<1>5. gone' = gone /\ steady' = steady
  BY DEF Arrive
<1>6. MailboxTypeOK'
  <2>1. hits' \in [Accounts -> SUBSET AllUids] /\ gone' \in [Accounts -> SUBSET AllUids]
    BY <1>2, <1>4, <1>5 DEF SearchInv, TypeOK, MailboxTypeOK
  <2>2. uidNext' \in [Accounts -> Nat]
    BY <1>3 DEF SearchInv, TypeOK, MailboxTypeOK
  <2>3. ASSUME NEW b \in Accounts PROVE uidNext'[b] >= 1 /\ uidNext'[b] <= MaxUid[b] + 1
    <3>1. uidNext[b] \in Nat /\ MaxUid[b] \in Nat /\ uidNext[b] >= 1
          /\ uidNext[b] <= MaxUid[b] + 1 /\ u <= MaxUid[a]
      BY SearchBounds DEF SearchInv, TypeOK, MailboxTypeOK, Arrive
    <3>2. uidNext'[b] = IF b = a THEN u + 1 ELSE uidNext[b]
      BY <1>3 DEF SearchInv, TypeOK, MailboxTypeOK
    <3> HIDE DEF u
    <3>3. QED
      BY <1>3, <3>1, <3>2
  <2>4. QED
    BY <1>1, <2>1, <2>2, <2>3 DEF MailboxTypeOK
<1>7. HistoryTypeOK'
  BY <1>1, <1>2, <1>4, <1>5 DEF SearchInv, TypeOK, HistoryTypeOK
<1>8. u \notin gone[a]
  BY <1>3 DEF SearchInv, TypeOK
<1>9. ASSUME NEW b \in Accounts
      PROVE  /\ steady'[b] \subseteq steady[b]
             /\ ever[b] \subseteq ever'[b]
             /\ \A v \in hits'[b] \cup gone'[b] \cup ever'[b] : v < uidNext'[b]
             /\ steady'[b] \subseteq hits'[b]
             /\ hits'[b] \cap gone'[b] = {}
             /\ hits'[b] \subseteq hits[b] \cup ever'[b]
  <2>1. \A v \in hits[b] \cup gone[b] \cup ever[b] : v \in Nat /\ v < uidNext[b]
    BY UidsPositive DEF SearchInv, TypeOK, MailboxTypeOK, HistoryTypeOK
  <2>2. QED
    BY <1>3, <1>4, <1>5, <1>8, <2>1 DEF SearchInv, TypeOK, MailboxTypeOK, HistoryTypeOK, MailboxOK
<1>10. QED
  BY <1>1, <1>6, <1>7, <1>9, ChangeInv

LEMMA MatchInv ==
  ASSUME SearchInv, NEW a \in Accounts, NEW u \in Uids(a), Match(a, u)
  PROVE  SearchInv'
<1>1. Change /\ changes' \in 0 .. MaxChanges /\ hurt' = hurt
  BY ChangeCounted DEF Match
<1>2. u \in AllUids
  BY DEF AllUids
<1>3. MailboxTypeOK' /\ HistoryTypeOK'
  BY <1>1, <1>2 DEF SearchInv, TypeOK, MailboxTypeOK, HistoryTypeOK, Match
<1>4. ASSUME NEW b \in Accounts
      PROVE  /\ steady'[b] \subseteq steady[b]
             /\ ever[b] \subseteq ever'[b]
             /\ \A v \in hits'[b] \cup gone'[b] \cup ever'[b] : v < uidNext'[b]
             /\ steady'[b] \subseteq hits'[b]
             /\ hits'[b] \cap gone'[b] = {}
             /\ hits'[b] \subseteq hits[b] \cup ever'[b]
  BY DEF SearchInv, TypeOK, MailboxTypeOK, HistoryTypeOK, MailboxOK, Match
<1>5. QED
  BY <1>1, <1>3, <1>4, ChangeInv

LEMMA LossInv ==
  ASSUME SearchInv, NEW a \in Accounts, NEW u \in Uids(a), Unmatch(a, u) \/ Expunge(a, u)
  PROVE  SearchInv'
<1>1. Change /\ changes' \in 0 .. MaxChanges /\ hurt' = hurt
  BY ChangeCounted DEF Unmatch, Expunge
<1>2. u \in AllUids
  BY DEF AllUids
<1>3. MailboxTypeOK' /\ HistoryTypeOK'
  BY <1>1, <1>2
  DEF SearchInv, TypeOK, MailboxTypeOK, HistoryTypeOK, Unmatch, Expunge
<1>4. ASSUME NEW b \in Accounts
      PROVE  /\ steady'[b] \subseteq steady[b]
             /\ ever[b] \subseteq ever'[b]
             /\ \A v \in hits'[b] \cup gone'[b] \cup ever'[b] : v < uidNext'[b]
             /\ steady'[b] \subseteq hits'[b]
             /\ hits'[b] \cap gone'[b] = {}
             /\ hits'[b] \subseteq hits[b] \cup ever'[b]
  BY DEF SearchInv, TypeOK, MailboxTypeOK, HistoryTypeOK, MailboxOK, Unmatch, Expunge
<1>5. QED
  BY <1>1, <1>3, <1>4, ChangeInv

-----------------------------------------------------------------------------
(* The theorems. *)

\* Every step of a search or of another client keeps the invariant.
LEMMA StepInv == SearchInv /\ [Next]_vars => SearchInv'
<1> SUFFICES ASSUME SearchInv, [Next]_vars PROVE SearchInv'
  OBVIOUS
<1>1. CASE StartSearch
  BY <1>1, StartSearchInv
<1>2. CASE \E a \in Accounts : AccountStep(a)
  BY <1>2, ConnectInv, PartialInv, SearchWindowInv, FetchInv, FailInv, SummariseInv
  DEF AccountStep
<1>3. CASE Answer
  BY <1>3, AnswerInv
<1>4. CASE \E a \in Accounts, matches \in BOOLEAN : Arrive(a, matches)
  BY <1>4, ArriveInv
<1>5. CASE \E a \in Accounts : \E u \in Uids(a) : Match(a, u) \/ Unmatch(a, u) \/ Expunge(a, u)
  BY <1>5, MatchInv, LossInv
<1>6. CASE UNCHANGED vars
  BY <1>6 DEF vars, SearchInv, TypeOK, MailboxTypeOK, FindTypeOK, HistoryTypeOK,
              MailboxOK, ScanOK, NewestAbove, AnswerOK
<1>7. QED
  BY <1>1, <1>2, <1>3, <1>4, <1>5, <1>6 DEF Next

\* The state of every search is well formed, for any number of accounts, limit,
\* window and mailbox.
THEOREM SearchCorrect == Spec => []SearchInv
<1>1. SearchInv /\ [Next]_vars => SearchInv'
  BY StepInv
<1>2. QED
  BY InitInv, <1>1, PTL DEF Spec

\* TypeOK of the run: no account's search selects more than Limit messages.
THEOREM SearchTypes == Spec => []TypeOK
<1>1. SearchInv => TypeOK
  BY DEF SearchInv
<1>2. QED
  BY SearchCorrect, <1>1, PTL

\* What is answered for an account that could be searched is the newest Limit of
\* the messages that matched throughout, and nothing that never matched.
THEOREM NewestAnswered == Spec => []AnswersNewest
<1>1. ASSUME SearchInv, NEW a \in Accounts, find[a].pc = "ready", search = "idle"
      PROVE  ~answer[a].unavailable /\ Complete(a, answer[a].messages)
  <2>1. ScanOK(a) /\ MailboxOK(a) /\ AnswerOK(a) /\ find[a] \in Find
        /\ Cardinality(find[a].selected) <= Limit
    BY <1>1 DEF SearchInv, TypeOK, FindTypeOK
  <2>2. answer[a].unavailable = FALSE /\ answer[a].messages = find[a].found
    BY <1>1, <2>1 DEF AnswerOK
  <2>3. IsFiniteSet(find[a].selected)
    <3>1. find[a].selected \subseteq 1 .. uidNext[a]
      BY <1>1, <2>1, UidsPositive
      DEF ScanOK, SearchInv, TypeOK, MailboxTypeOK, HistoryTypeOK
    <3>2. uidNext[a] \in Int /\ 1 \in Int
      BY <1>1 DEF SearchInv, TypeOK, MailboxTypeOK
    <3>3. IsFiniteSet(1 .. uidNext[a])
      BY <3>2, FS_Interval
    <3>4. QED
      BY <3>1, <3>3, FS_Subset
  <2>4. Cardinality(find[a].found) <= Limit
    <3>1. IsFiniteSet(find[a].found)
          /\ Cardinality(find[a].found) <= Cardinality(find[a].selected)
      BY <2>1, <2>3, FS_Subset DEF ScanOK
    <3>2. Cardinality(find[a].found) \in Nat /\ Cardinality(find[a].selected) \in Nat
      BY <2>3, <3>1, FS_CardinalityType
    <3>3. QED
      BY <2>1, <3>1, <3>2, SearchBounds
  <2>5. \A u \in steady[a] : u \in Nat /\ u >= 1
    BY <1>1, UidsPositive DEF SearchInv, TypeOK, HistoryTypeOK
  <2>6. ASSUME NEW u \in steady[a] \ find[a].found, u <= find[a].top
        PROVE  /\ Cardinality(find[a].selected) = Limit
               /\ \A v \in find[a].selected : u < v
    <3>1. u \notin find[a].selected
      BY <1>1, <2>1 DEF ScanOK
    <3>2. QED
      BY <1>1, <2>1, <2>5, <2>6, <3>1 DEF ScanOK, NewestAbove
  <2>7. find[a].found \subseteq ever[a]
    BY <2>1 DEF ScanOK
  <2>8. QED
    BY <2>2, <2>4, <2>6, <2>7 DEF Complete
<1>2. SearchInv => AnswersNewest
  BY <1>1 DEF AnswersNewest
<1>3. QED
  BY SearchCorrect, <1>2, PTL

\* The failure of one account never leaves out another.
THEOREM OthersAnswered == Spec => OnlyHurtLeftOut
<1>1. ASSUME SearchInv, [Next]_vars, NEW a \in Accounts,
             search = "running", search' = "idle", a \notin hurt
      PROVE  ~answer'[a].unavailable
  <2>1. Answer
    BY <1>1 DEF Next, AccountStep, StartSearch, Connect, Partial, SearchWindow, Fetch,
                Fail, Summarise, Arrive, Match, Unmatch, Expunge, Change, vars
  <2>2. find[a].pc = "ready"
    BY <1>1, <2>1 DEF Answer, Settled, SearchInv, AnswerOK
  <2>3. answer'[a] = [unavailable |-> FALSE, messages |-> find[a].found]
    BY <2>1, <2>2 DEF Answer
  <2>4. QED
    BY <2>3
<1>2. SearchInv /\ [Next]_vars =>
        [\A a \in Accounts : search = "running" /\ search' = "idle" /\ a \notin hurt =>
           ~answer'[a].unavailable]_vars
  BY <1>1
<1>3. QED
  BY SearchCorrect, <1>2, PTL DEF Spec, OnlyHurtLeftOut

=============================================================================
