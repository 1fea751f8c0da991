----------------------------- MODULE MailSearch -----------------------------
(***************************************************************************)
(* messages search (searchEmails of src/src/tools/helpers/imap-client.ts): *)
(* one search over several accounts at once, each on a connection of its   *)
(* own, for the newest Limit messages that match.  A server with ESEARCH is*)
(* asked for them in one request; any other, or one whose answer is of no  *)
(* use, is asked window by window, from the newest UID down.  Mailboxes    *)
(* change between requests.                                                *)
(***************************************************************************)
EXTENDS Integers, FiniteSets

CONSTANTS Accounts,
          Limit,       \* messages wanted of each account
          Window,      \* UID_SEARCH_WINDOW_SIZE
          MaxUid,      \* bound on the UIDs each mailbox assigns
          MaxChanges,  \* bound on changes other clients make
          MaxFaults    \* bound on accounts' steps that fail

ASSUME SearchBounds ==
  /\ Limit \in Nat /\ Limit >= 1
  /\ Window \in Nat /\ Window >= 1
  /\ MaxUid \in [Accounts -> Nat]
  /\ MaxChanges \in Nat
  /\ MaxFaults \in Nat

VARIABLES
  uidNext,  \* the UID a mailbox assigns next
  hits,     \* its messages that match the query
  gone,     \* UIDs expunged
  search,   \* whether the search has yet to answer
  find,     \* the search of each account
  answer,   \* what was answered for it
  changes, faults,
  \* History, for the properties, since the account's mailbox was selected:
  steady,   \* messages that have matched all along
  ever,     \* messages that have matched at some time
  hurt      \* accounts a step of which has failed

mailbox == <<uidNext, hits, gone, changes>>
history == <<steady, ever>>
vars == <<uidNext, hits, gone, search, find, answer, changes, faults,
          steady, ever, hurt>>

Uids(a) == 1 .. MaxUid[a]
AllUids == UNION {Uids(a) : a \in Accounts}

\* top: the newest UID when the mailbox was selected; high: where the next window
\* begins; selected: selectedUids; found: the messages fetched.
Find == [pc : {"connecting", "partial", "windows", "fetch", "summarising",
               "ready", "unavailable"},
         top : Nat, high : Int, selected : SUBSET AllUids, found : SUBSET AllUids]
FindFrom(pc, top) ==
  [pc |-> pc, top |-> top, high |-> top, selected |-> {}, found |-> {}]
NewFind == FindFrom("connecting", 0)

MailboxTypeOK ==
  /\ uidNext \in [Accounts -> Nat]
  /\ hits \in [Accounts -> SUBSET AllUids]
  /\ gone \in [Accounts -> SUBSET AllUids]
  /\ \A a \in Accounts : uidNext[a] >= 1 /\ uidNext[a] <= MaxUid[a] + 1
  /\ changes \in 0 .. MaxChanges

FindTypeOK ==
  /\ find \in [Accounts -> Find]
  /\ \A a \in Accounts : Cardinality(find[a].selected) <= Limit
  /\ search \in {"idle", "running"}
  /\ answer \in [Accounts -> [unavailable : BOOLEAN, messages : SUBSET AllUids]]
  /\ faults \in 0 .. MaxFaults

HistoryTypeOK ==
  /\ steady \in [Accounts -> SUBSET AllUids]
  /\ ever \in [Accounts -> SUBSET AllUids]
  /\ hurt \subseteq Accounts

\* Every variable has its type; no more messages are selected than were wanted,
\* and no UID is used that the mailbox has not yet assigned.
TypeOK ==
  /\ MailboxTypeOK
  /\ FindTypeOK
  /\ HistoryTypeOK
  /\ \A a \in Accounts : \A u \in hits[a] \cup gone[a] \cup ever[a] : u < uidNext[a]

Unavailable == [unavailable |-> TRUE, messages |-> {}]

\* UIDs start at 1; those that match no message and those never seen look alike.
Init ==
  /\ uidNext \in [Accounts -> {1} \cup {u + 1 : u \in AllUids}]
  /\ hits \in [Accounts -> SUBSET AllUids]
  /\ \A a \in Accounts : uidNext[a] <= MaxUid[a] + 1 /\ hits[a] \subseteq 1 .. uidNext[a] - 1
  /\ gone = [a \in Accounts |-> {}]
  /\ search = "idle"
  /\ find = [a \in Accounts |-> NewFind]
  /\ answer = [a \in Accounts |-> Unavailable]
  /\ changes = 0
  /\ faults = 0
  /\ steady = [a \in Accounts |-> {}]
  /\ ever = [a \in Accounts |-> {}]
  /\ hurt = {}

\* T is what remains of S once all but the newest n are cut off.
IsNewest(T, S, n) ==
  /\ T \subseteq S
  /\ Cardinality(T) <= n
  /\ T # S => Cardinality(T) = n
  /\ \A t \in T, s \in S \ T : s < t

-----------------------------------------------------------------------------
(* The search. *)

StartSearch ==
  /\ search = "idle"
  /\ search' = "running"
  /\ find' = [a \in Accounts |-> NewFind]
  /\ answer' = [a \in Accounts |-> Unavailable]
  /\ steady' = [a \in Accounts |-> {}]
  /\ ever' = [a \in Accounts |-> {}]
  /\ hurt' = {}
  /\ UNCHANGED <<mailbox, faults>>

\* withConnection and getMailboxLock: token, connection, SELECT.  The server has
\* ESEARCH or not.
Connect(a, pc) ==
  /\ search = "running"
  /\ find[a].pc = "connecting"
  /\ find' = [find EXCEPT ![a] = FindFrom(pc, uidNext[a] - 1)]
  /\ steady' = [steady EXCEPT ![a] = hits[a]]
  /\ ever' = [ever EXCEPT ![a] = hits[a]]
  /\ UNCHANGED <<mailbox, search, answer, faults, hurt>>

\* SEARCH RETURN (PARTIAL -limit:-1): an answer that names a message newer than
\* top, or that is false, malformed or too long, is dropped for the windows.
Partial(a) ==
  /\ find[a].pc = "partial"
  /\ \/ \E T \in SUBSET hits[a] :
          /\ IsNewest(T, hits[a], Limit)
          /\ \A u \in T : u <= find[a].top
          /\ find' = [find EXCEPT ![a].pc = "fetch", ![a].selected = T]
     \/ find' = [find EXCEPT ![a].pc = "windows"]
  /\ UNCHANGED <<mailbox, search, answer, faults, history, hurt>>

Scanning(a) == find[a].high >= 1 /\ Cardinality(find[a].selected) < Limit

\* The UIDs that match within the next window.
InWindow(a) ==
  {u \in hits[a] : find[a].high - Window < u /\ u <= find[a].high}

\* Mutant: one UID is left out between two windows.
WindowSkips(a) ==
  /\ find[a].pc = "windows"
  /\ Scanning(a)
  /\ \E T \in SUBSET (find[a].selected \cup InWindow(a)) :
       /\ IsNewest(T, find[a].selected \cup InWindow(a), Limit)
       /\ find' = [find EXCEPT ![a].selected = T,
                     ![a].high = IF @ > Window THEN @ - Window - 1 ELSE @ - Window]
  /\ UNCHANGED <<mailbox, search, answer, faults, history, hurt>>

\* Mutant: the next window begins at the last UID of this one.
WindowOverlaps(a) ==
  /\ find[a].pc = "windows"
  /\ Scanning(a)
  /\ \E T \in SUBSET (find[a].selected \cup InWindow(a)) :
       /\ IsNewest(T, find[a].selected \cup InWindow(a), Limit)
       /\ find' = [find EXCEPT ![a].selected = T,
                     ![a].high = IF @ > Window THEN @ - Window + 1 ELSE 1]
  /\ UNCHANGED <<mailbox, search, answer, faults, history, hurt>>

\* Mutant: the messages over the limit are not cut off.
WindowKeepsAll(a) ==
  /\ find[a].pc = "windows"
  /\ Scanning(a)
  /\ find' = [find EXCEPT ![a].selected = @ \cup InWindow(a), ![a].high = @ - Window]
  /\ UNCHANGED <<mailbox, search, answer, faults, history, hurt>>

\* searchNewestUidsInBoundedWindows: the UIDs of a window are added, and the
\* newest Limit of all kept.
SearchWindow(a) ==
  /\ find[a].pc = "windows"
  /\ Scanning(a)
  /\ \E T \in SUBSET (find[a].selected \cup InWindow(a)) :
       /\ IsNewest(T, find[a].selected \cup InWindow(a), Limit)
       /\ find' = [find EXCEPT ![a].selected = T, ![a].high = @ - Window]
  /\ UNCHANGED <<mailbox, search, answer, faults, history, hurt>>

\* The messages that are still there are fetched; the connection is closed.
Fetch(a) ==
  /\ find[a].pc = "fetch" \/ (find[a].pc = "windows" /\ ~Scanning(a))
  /\ find' = [find EXCEPT ![a].pc = "summarising",
                           ![a].found = find[a].selected \ gone[a]]
  /\ UNCHANGED <<mailbox, search, answer, faults, history, hurt>>

\* A request that throws, a search answered with false, with UIDs outside its
\* window or twice the same one, a snippet or a date that cannot be made.
Fail(a) ==
  /\ search = "running"
  /\ find[a].pc \in {"connecting", "partial", "windows", "fetch", "summarising"}
  /\ faults < MaxFaults
  /\ faults' = faults + 1
  /\ hurt' = hurt \cup {a}
  /\ find' = [find EXCEPT ![a].pc = "unavailable"]
  /\ UNCHANGED <<mailbox, search, answer, history>>

\* mapLimit over the messages, after the connection is gone.
Summarise(a) ==
  /\ find[a].pc = "summarising"
  /\ find' = [find EXCEPT ![a].pc = "ready"]
  /\ UNCHANGED <<mailbox, search, answer, faults, history, hurt>>

Settled == \A a \in Accounts : find[a].pc \in {"ready", "unavailable"}

\* Mutant: Promise.all without the catch of each account.
AnswerAllOrNothing ==
  /\ search = "running"
  /\ \/ Settled
     \/ \E a \in Accounts : find[a].pc = "unavailable"
  /\ search' = "idle"
  /\ answer' = [a \in Accounts |->
       IF Settled /\ \A b \in Accounts : find[b].pc = "ready"
         THEN [unavailable |-> FALSE, messages |-> find[a].found]
         ELSE Unavailable]
  /\ UNCHANGED <<mailbox, find, faults, history, hurt>>

\* Every account has answered or is listed as unavailable.
Answer ==
  /\ search = "running"
  /\ Settled
  /\ search' = "idle"
  /\ answer' = [a \in Accounts |->
       IF find[a].pc = "ready"
         THEN [unavailable |-> FALSE, messages |-> find[a].found]
         ELSE Unavailable]
  /\ UNCHANGED <<mailbox, find, faults, history, hurt>>

-----------------------------------------------------------------------------
(* Other clients and new mail. *)

Change ==
  /\ search = "running"
  /\ changes < MaxChanges
  /\ changes' = changes + 1
  /\ UNCHANGED <<search, find, answer, faults, hurt>>

Arrive(a, matches) ==
  /\ uidNext[a] <= MaxUid[a]
  /\ uidNext' = [uidNext EXCEPT ![a] = @ + 1]
  /\ IF matches THEN /\ hits' = [hits EXCEPT ![a] = @ \cup {uidNext[a]}]
                     /\ ever' = [ever EXCEPT ![a] = @ \cup {uidNext[a]}]
                ELSE UNCHANGED <<hits, ever>>
  /\ UNCHANGED <<gone, steady>>
  /\ Change

\* Flags of a message change so that it matches, or no longer does.
Match(a, u) ==
  /\ u \in Uids(a) \ (hits[a] \cup gone[a])
  /\ u < uidNext[a]
  /\ hits' = [hits EXCEPT ![a] = @ \cup {u}]
  /\ ever' = [ever EXCEPT ![a] = @ \cup {u}]
  /\ UNCHANGED <<uidNext, gone, steady>>
  /\ Change

Unmatch(a, u) ==
  /\ u \in hits[a]
  /\ hits' = [hits EXCEPT ![a] = @ \ {u}]
  /\ steady' = [steady EXCEPT ![a] = @ \ {u}]
  /\ UNCHANGED <<uidNext, gone, ever>>
  /\ Change

Expunge(a, u) ==
  /\ u \in Uids(a) \ gone[a]
  /\ u < uidNext[a]
  /\ gone' = [gone EXCEPT ![a] = @ \cup {u}]
  /\ hits' = [hits EXCEPT ![a] = @ \ {u}]
  /\ steady' = [steady EXCEPT ![a] = @ \ {u}]
  /\ UNCHANGED <<uidNext, ever>>
  /\ Change

-----------------------------------------------------------------------------

AccountStep(a) ==
  \/ \E pc \in {"partial", "windows"} : Connect(a, pc)
  \/ Partial(a)
  \/ SearchWindow(a)
  \/ Fetch(a)
  \/ Fail(a)
  \/ Summarise(a)

Next ==
  \/ StartSearch
  \/ \E a \in Accounts : AccountStep(a)
  \/ Answer
  \/ \E a \in Accounts, matches \in BOOLEAN : Arrive(a, matches)
  \/ \E a \in Accounts : \E u \in Uids(a) :
       Match(a, u) \/ Unmatch(a, u) \/ Expunge(a, u)

Spec == Init /\ [][Next]_vars

\* Requests are answered or fail.
Fairness == WF_vars(Answer) /\ \A a \in Accounts : WF_vars(AccountStep(a))

FairSpec == Spec /\ Fairness

-----------------------------------------------------------------------------

\* "Selects the UIDs of the newest `limit` messages matching criteria"
\* (searchNewestUids), for every account none of whose own steps failed, whatever
\* became of the others and however the mailbox changed meanwhile: what is
\* answered has matched at some time; of the messages there at the start that
\* matched all along, none is missing unless Limit newer ones were selected.
Complete(a, found) ==
  /\ found \subseteq ever[a]
  /\ Cardinality(found) <= Limit
  /\ \A u \in steady[a] \ found : u <= find[a].top =>
       /\ Cardinality(find[a].selected) = Limit
       /\ \A v \in find[a].selected : u < v

AnswersNewest ==
  \A a \in Accounts :
    find[a].pc = "ready" /\ search = "idle" =>
      ~answer[a].unavailable /\ Complete(a, answer[a].messages)

\* An account is left out of an answer only for a failure of its own: the answer
\* waits for every other account ("unavailableAccounts").
OnlyHurtLeftOut ==
  [][\A a \in Accounts : search = "running" /\ search' = "idle" /\ a \notin hurt =>
       ~answer'[a].unavailable]_vars

\* Every search is answered: the windows reach UID 1, whatever the mailbox does.
SearchAnswers == search = "running" ~> search = "idle"

=============================================================================
