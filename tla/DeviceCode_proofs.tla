------------------------- MODULE DeviceCode_proofs -------------------------
(***************************************************************************)
(* Theorems about DeviceCode and DeviceCodeMerges, for any subjects,       *)
(* mailboxes, codes, polls, tasks and bounds.                              *)
(***************************************************************************)
EXTENDS DeviceCodeMerges, TLAPS

-----------------------------------------------------------------------------
(* The blob operators and the store keep their types. *)

\* A blob with a token merged into it is a blob (saveTokens).
LEMMA WithTokenType ==
  ASSUME NEW b \in Blob \cup {None}, NEW e \in Emails, NEW c \in Codes
  PROVE  WithToken(b, e, c) \in Blob
<1> DEFINE old == IF b = None THEN EmptyBlob ELSE b
<1>1. old \in Blob
  BY DEF Blob, EmptyBlob, Code
<1>2. QED
  BY <1>1 DEF WithToken, Blob, Code

\* A blob with a pending session is a blob (persistPendingDeviceCode).
LEMMA WithPendingType ==
  ASSUME NEW b \in Blob \cup {None}, NEW c \in Codes
  PROVE  WithPending(b, c) \in Blob
<1> DEFINE old == IF b = None THEN [EmptyBlob EXCEPT !.accounts = {}] ELSE b
<1>1. old \in Blob
  BY DEF Blob, EmptyBlob, Code
<1>2. QED
  BY <1>1 DEF WithPending, Blob, Code

\* A blob without a pending session is a blob (clearPendingDeviceCode).
LEMMA WithoutPendingType ==
  ASSUME NEW b \in Blob
  PROVE  WithoutPending(b) \in Blob
BY DEF WithoutPending, Blob, Code

\* The blob the form saves is a blob (onCredentialsSaved).
LEMMA FormBlobType ==
  ASSUME NEW A \in SUBSET Emails
  PROVE  [EmptyBlob EXCEPT !.accounts = A] \in Blob
BY DEF EmptyBlob, Blob, Code

\* What a GET returns is a blob or null.
LEMMA ReadType ==
  ASSUME StoreTypeOK, NEW s \in Subs, NEW ok \in BOOLEAN
  PROVE  Read(s, ok) \in Blob \cup {None}
BY DEF StoreTypeOK, Read, Trusted

\* Caching a blob keeps the types of the cache and of the snapshots.
LEMMA CacheType ==
  ASSUME TypeOK, NEW s \in Subs, NEW b \in Blob \cup {None}, Cache(s, b)
  PROVE  cache' \in [Subs -> Blob \cup {None}] /\ listed' \in [Subs -> SUBSET Emails]
<1>1. cache' \in [Subs -> Blob \cup {None}]
  BY DEF Cache, TypeOK, StoreTypeOK
<1>2. Accounts(b) \subseteq Emails
  BY DEF Accounts, Blob
<1>3. listed' \in [Subs -> SUBSET Emails]
  BY <1>2 DEF Cache, Snapshot, TypeOK
<1>4. QED
  BY <1>1, <1>3

\* So does caching what a read found.
LEMMA FillType ==
  ASSUME TypeOK, NEW s \in Subs, NEW b \in Blob \cup {None}, Fill(s, b)
  PROVE  cache' \in [Subs -> Blob \cup {None}] /\ listed' \in [Subs -> SUBSET Emails]
BY CacheType DEF Fill, TypeOK, StoreTypeOK

\* A KV request counts at most one failure.
LEMMA OutcomeType ==
  ASSUME StoreTypeOK, BoundsAssumption, NEW ok \in BOOLEAN, KvOutcome(ok)
  PROVE  kvFailures' \in 0 .. MaxKvFailures
BY DEF KvOutcome, StoreTypeOK, BoundsAssumption

\* A PUT or DELETE, whether or not it fails, keeps the type of KV.
LEMMA WriteType ==
  ASSUME StoreTypeOK, BoundsAssumption, NEW s \in Subs, NEW b \in Blob \cup {None},
         NEW ok \in BOOLEAN, Write(s, b, ok)
  PROVE  kv' \in [Subs -> Blob \cup {None}] /\ kvFailures' \in 0 .. MaxKvFailures
<1>1. kvFailures' \in 0 .. MaxKvFailures
  BY OutcomeType DEF Write
<1>2. kv' = [kv EXCEPT ![s] = b] \/ kv' = kv
  BY DEF Write
<1>3. QED
  BY <1>1, <1>2 DEF StoreTypeOK

-----------------------------------------------------------------------------
(* Polls and tasks keep their types. *)

\* What PollTypeOK and TaskTypeOK say of one poll and of one task.
PollOK(x) ==
  /\ x \in PollState
  /\ x.pc # "idle" => x.code # None /\ x.sub # None /\ x.email # None
  /\ x.pc \in {"storing", "dropping"} => x.blob # None

TaskOK(x) ==
  /\ x \in TaskState
  /\ x.pc # "idle" => x.sub # None
  /\ x.pc \notin {"idle", "loading", "resetting"} => x.email # None
  /\ x.pc \in {"persisting", "storing"} => x.code # None
  /\ x.pc \in {"submitting", "storing"} => x.blob # None

\* The type invariants, one poll and one task at a time.
LEMMA PollsOK == PollTypeOK <=> poll \in [Polls -> PollState] /\ \A p \in Polls : PollOK(poll[p])
<1>1. ASSUME PollTypeOK, NEW p \in Polls PROVE PollOK(poll[p])
  <2>1. poll[p] \in PollState /\ (poll[p].pc = "idle" => poll[p].pc \notin {"storing", "dropping"})
    BY <1>1 DEF PollTypeOK
  <2>2. QED
    BY <1>1, <2>1 DEF PollTypeOK, PollOK
<1>2. QED
  BY <1>1 DEF PollTypeOK, PollOK

LEMMA TasksOK == TaskTypeOK <=> task \in [Tasks -> TaskState] /\ \A t \in Tasks : TaskOK(task[t])
BY DEF TaskTypeOK, TaskOK

\* One poll or one task goes on to a new state of its type.
LEMMA PollUpdateType ==
  ASSUME PollTypeOK, NEW p \in Polls, NEW x, PollOK(x), poll' = [poll EXCEPT ![p] = x]
  PROVE  PollTypeOK'
<1>1. poll' \in [Polls -> PollState]
  BY DEF PollTypeOK, PollOK
<1>2. \A q \in Polls : poll'[q] = IF q = p THEN x ELSE poll[q]
  BY DEF PollTypeOK
<1>3. \A q \in Polls : PollOK(poll'[q])
  BY <1>2, PollsOK
<1>4. QED
  BY <1>1, <1>3 DEF PollTypeOK, PollOK

LEMMA TaskUpdateType ==
  ASSUME TaskTypeOK, NEW t \in Tasks, NEW x, TaskOK(x), task' = [task EXCEPT ![t] = x]
  PROVE  TaskTypeOK'
<1>1. task' \in [Tasks -> TaskState]
  BY DEF TaskTypeOK, TaskOK
<1>2. \A u \in Tasks : task'[u] = IF u = t THEN x ELSE task[u]
  BY DEF TaskTypeOK
<1>3. \A u \in Tasks : TaskOK(task'[u])
  BY <1>2, TasksOK
<1>4. QED
  BY <1>1, <1>3 DEF TaskTypeOK, TaskOK

\* The idle records have their types.
LEMMA IdleTypes == PollOK(IdlePoll) /\ TaskOK(IdleTask)
BY DEF PollOK, IdlePoll, PollState, PollPc, TaskOK, IdleTask, TaskState, TaskPc, Code

\* So has a poll that starts.
LEMMA StartedPollType ==
  ASSUME NoneAssumption, NEW c \in Codes, NEW s \in Subs, NEW e \in Emails
  PROVE  PollOK(StartedPoll(c, s, e))
BY DEF NoneAssumption, StartedPoll, PollOK, PollState, PollPc, Code

\* The code, sub and email of a running poll are real ones.
LEMMA PollFields ==
  ASSUME PollTypeOK, NEW p \in Polls, poll[p].pc # "idle"
  PROVE  /\ poll[p].code \in Codes /\ poll[p].sub \in Subs /\ poll[p].email \in Emails
         /\ poll[p].blob \in Blob \cup {None}
BY DEF PollTypeOK, PollState, Code

\* So are those of a running task, as far as it has come.
LEMMA TaskFields ==
  ASSUME TaskTypeOK, NEW t \in Tasks, task[t].pc # "idle"
  PROVE  /\ task[t].sub \in Subs
         /\ task[t].pc \notin {"loading", "resetting"} => task[t].email \in Emails
         /\ task[t].pc \in {"persisting", "storing"} => task[t].code \in Codes
         /\ task[t].pc \in {"submitting", "storing"} => task[t].blob \in Blob
         /\ task[t].blob \in Blob \cup {None}
BY DEF TaskTypeOK, TaskState, Code

\* The state of a running poll that goes on to pc with blob b.
MovedPoll(p, pc, b) == [poll[p] EXCEPT !.pc = pc, !.blob = b]

\* What is left of the old state in the new one.
LEMMA MovedFields ==
  ASSUME PollTypeOK, NEW p \in Polls, NEW pc \in PollPc, NEW b \in Blob \cup {None}
  PROVE  /\ MovedPoll(p, pc, b) \in PollState
         /\ MovedPoll(p, pc, b).pc = pc
         /\ MovedPoll(p, pc, b).blob = b
         /\ MovedPoll(p, pc, b).code = poll[p].code
         /\ MovedPoll(p, pc, b).sub = poll[p].sub
         /\ MovedPoll(p, pc, b).email = poll[p].email
BY DEF MovedPoll, PollTypeOK, PollState

\* A running poll that goes on stays a poll.
LEMMA MovePollType ==
  ASSUME PollTypeOK, NEW p \in Polls, poll[p].pc # "idle",
         NEW pc \in PollPc, NEW b \in Blob \cup {None},
         pc \in {"storing", "dropping"} => b # None,
         poll' = [poll EXCEPT ![p] = MovedPoll(p, pc, b)]
  PROVE  PollTypeOK'
<1>1. poll[p].code # None /\ poll[p].sub # None /\ poll[p].email # None
  BY DEF PollTypeOK
<1>2. PollOK(MovedPoll(p, pc, b))
  BY <1>1, MovedFields DEF PollOK
<1>3. QED
  BY <1>2, PollUpdateType

\* Ending a poll keeps the types of poll and ram.
LEMMA EndPollType ==
  ASSUME TypeOK, NEW p \in Polls, EndPoll(p)
  PROVE  PollTypeOK' /\ ram' \in [Emails -> Code]
<1>1. PollTypeOK'
  BY IdleTypes, PollUpdateType DEF EndPoll, TypeOK
<1>2. ram' \in [Emails -> Code]
  BY DEF EndPoll, TypeOK, Code
<1>3. QED
  BY <1>1, <1>2

\* A task that begins or finishes.
LEMMA BeginType ==
  ASSUME TaskTypeOK, NoneAssumption, NEW t \in Tasks, NEW pc \in TaskPc, NEW s \in Subs,
         NEW e \in Emails \cup {None}, NEW b \in Blob \cup {None},
         pc \notin {"persisting", "storing"},
         pc \notin {"loading", "resetting"} => e # None,
         pc = "submitting" => b # None,
         Begin(t, pc, s, e, b)
  PROVE  TaskTypeOK'
<1> DEFINE x == [pc |-> pc, sub |-> s, email |-> e, code |-> None, blob |-> b]
<1>1. TaskOK(x)
  BY DEF TaskOK, TaskState, Code, NoneAssumption
<1>2. task' = [task EXCEPT ![t] = x]
  BY DEF Begin
<1> HIDE DEF x
<1>3. QED
  BY <1>1, <1>2, TaskUpdateType

LEMMA FinishType ==
  ASSUME TaskTypeOK, NEW t \in Tasks, Finish(t)
  PROVE  TaskTypeOK'
BY IdleTypes, TaskUpdateType DEF Finish

\* The state of a running task that goes on to pc for e with code c and blob b.
MovedTask(t, pc, e, c, b) ==
  [task[t] EXCEPT !.pc = pc, !.email = e, !.code = c, !.blob = b]

LEMMA MovedTaskFields ==
  ASSUME TaskTypeOK, NEW t \in Tasks, NEW pc \in TaskPc, NEW e \in Emails \cup {None},
         NEW c \in Code, NEW b \in Blob \cup {None}
  PROVE  /\ MovedTask(t, pc, e, c, b) \in TaskState
         /\ MovedTask(t, pc, e, c, b).pc = pc
         /\ MovedTask(t, pc, e, c, b).sub = task[t].sub
         /\ MovedTask(t, pc, e, c, b).email = e
         /\ MovedTask(t, pc, e, c, b).code = c
         /\ MovedTask(t, pc, e, c, b).blob = b
BY DEF MovedTask, TaskTypeOK, TaskState

\* A running task that goes on stays a task.
LEMMA MoveTaskType ==
  ASSUME TaskTypeOK, NoneAssumption, NEW t \in Tasks, task[t].pc # "idle",
         NEW pc \in TaskPc \ {"idle"}, NEW e \in Emails, NEW c \in Code,
         NEW b \in Blob \cup {None},
         pc \in {"persisting", "storing"} => c # None,
         pc \in {"submitting", "storing"} => b # None,
         task' = [task EXCEPT ![t] = MovedTask(t, pc, e, c, b)]
  PROVE  TaskTypeOK'
<1>1. task[t].sub # None /\ e # None
  BY DEF TaskTypeOK, NoneAssumption
<1>2. TaskOK(MovedTask(t, pc, e, c, b))
  BY <1>1, MovedTaskFields DEF TaskOK
<1>3. QED
  BY <1>2, TaskUpdateType

-----------------------------------------------------------------------------
(* Type correctness. *)

\* The initial state is well typed.
LEMMA InitType == BoundsAssumption /\ Init => TypeOK
<1> SUFFICES ASSUME BoundsAssumption, Init PROVE TypeOK
  OBVIOUS
<1>1. StoreTypeOK
  BY DEF Init, StoreTypeOK, BoundsAssumption
<1>2. PollTypeOK /\ TaskTypeOK
  BY IdleTypes, PollsOK, TasksOK DEF Init, PollOK, TaskOK
<1>3. CodeTypeOK
  BY DEF Init, CodeTypeOK, Status
<1>4. QED
  BY <1>1, <1>2, <1>3 DEF Init, TypeOK, Code, BoundsAssumption

\* The steps of the form and of tool calls.
LEMMA TaskStepType ==
  ASSUME TypeOK, NoneAssumption, BoundsAssumption, NEW t \in Tasks, TaskStep(t)
  PROVE  TypeOK'
<1> USE DEF TypeOK
<1> DEFINE s == task[t].sub
           e == task[t].email
           b == task[t].blob
<1>1. ASSUME UNCHANGED <<kv, cache, kvFailures, ram, poll, listed, owner, status, lapsed,
                         resets, restarts>>,
             TaskTypeOK'
      PROVE  TypeOK'
  BY <1>1 DEF StoreTypeOK, PollTypeOK, CodeTypeOK
<1>2. ASSUME NEW ok \in BOOLEAN, FormStored(t, ok) PROVE TypeOK'
  <2>1. task[t].pc = "submitting" /\ s \in Subs /\ e \in Emails /\ b \in Blob
    BY <1>2, TaskFields DEF FormStored
  <2>2. kv' \in [Subs -> Blob \cup {None}] /\ kvFailures' \in 0 .. MaxKvFailures
    BY <1>2, <2>1, WriteType DEF FormStored
  <2>3. TaskTypeOK'
    <3>1. CASE Finish(t)
      BY <3>1, FinishType
    <3>2. CASE task' = [task EXCEPT ![t].pc = "checking", ![t].blob = None]
      <4>1. task[t].code \in Code
        BY DEF TaskTypeOK, TaskState
      <4>2. task' = [task EXCEPT ![t] = MovedTask(t, "checking", e, task[t].code, None)]
        BY <3>2 DEF TaskTypeOK, TaskState, MovedTask
      <4>3. QED
        BY <2>1, <4>1, <4>2, MoveTaskType DEF TaskPc
    <3>3. QED
      BY <1>2, <3>1, <3>2 DEF FormStored
  <2>4. StoreTypeOK'
    BY <1>2, <2>2 DEF FormStored, StoreTypeOK
  <2>5. QED
    BY <1>2, <2>3, <2>4 DEF FormStored, PollTypeOK, CodeTypeOK
<1>3. ASSUME NEW ok \in BOOLEAN, Persisted(t, ok) PROVE TypeOK'
  <2>1. s \in Subs /\ b \in Blob
    BY <1>3, TaskFields DEF Persisted
  <2>2. kv' \in [Subs -> Blob \cup {None}] /\ kvFailures' \in 0 .. MaxKvFailures
    BY <1>3, <2>1, WriteType DEF Persisted
  <2>3. TaskTypeOK'
    BY <1>3, FinishType DEF Persisted
  <2>4. StoreTypeOK'
    BY <1>3, <2>2 DEF Persisted, StoreTypeOK
  <2>5. QED
    BY <1>3, <2>3, <2>4 DEF Persisted, PollTypeOK, CodeTypeOK
<1>4. CASE FormReuse(t)
  BY <1>1, <1>4, FinishType DEF FormReuse, store
<1>5. CASE FormRequest(t)
  <2>1. e \in Emails /\ b \in Blob \cup {None} /\ task[t].code \in Code
    BY <1>5, TaskFields DEF FormRequest, TaskTypeOK, TaskState
  <2>2. task' = [task EXCEPT ![t] = MovedTask(t, "requesting", e, task[t].code, b)]
    BY <1>5 DEF FormRequest, TaskTypeOK, TaskState, MovedTask
  <2>3. TaskTypeOK'
    <3>1. "requesting" \in TaskPc \ {"idle"} /\ task[t].pc # "idle"
      BY <1>5 DEF FormRequest, TaskPc
    <3>2. QED
      BY <2>1, <2>2, <3>1, MoveTaskType
  <2>4. QED
    BY <1>1, <1>5, <2>3 DEF FormRequest, store
<1>6. CASE Loaded(t)
  <2>1. s \in Subs /\ b \in Blob \cup {None} /\ Fill(s, b)
    BY <1>6, TaskFields DEF Loaded
  <2>2. cache' \in [Subs -> Blob \cup {None}] /\ listed' \in [Subs -> SUBSET Emails]
    BY <2>1, FillType
  <2>3. TaskTypeOK'
    BY <1>6, FinishType DEF Loaded
  <2>4. QED
    BY <1>6, <2>2, <2>3 DEF Loaded, StoreTypeOK, PollTypeOK, CodeTypeOK
<1>7. ASSUME NEW f \in Emails, RequestUnread(t, f) PROVE TypeOK'
  <2>1. b \in Blob \cup {None} /\ task[t].code \in Code /\ task[t].pc = "loading"
    BY <1>7, TaskFields DEF RequestUnread, TaskTypeOK, TaskState
  <2>2. task' = [task EXCEPT ![t] = MovedTask(t, "requesting", f, task[t].code, b)]
    BY <1>7 DEF RequestUnread, TaskTypeOK, TaskState, MovedTask
  <2>3. TaskTypeOK'
    <3>1. "requesting" \in TaskPc \ {"idle"} /\ task[t].pc # "idle"
      BY <2>1 DEF TaskPc
    <3>2. QED
      BY <2>1, <2>2, <3>1, MoveTaskType
  <2>4. QED
    BY <1>1, <1>7, <2>3 DEF RequestUnread, store
<1>8. ASSUME NEW c \in Codes, NEW p \in Polls, NEW ok \in BOOLEAN, CodeIssued(t, c, p, ok)
      PROVE  TypeOK'
  <2>1. s \in Subs /\ e \in Emails /\ task[t].pc = "requesting"
    BY <1>8, TaskFields DEF CodeIssued
  <2>2. CodeTypeOK'
    BY <1>8, <2>1 DEF CodeIssued, CodeTypeOK, Status
  <2>3. PollTypeOK'
    BY <1>8, <2>1, StartedPollType, PollUpdateType DEF CodeIssued
  <2>4. ram' \in [Emails -> Code]
    BY <1>8, <2>1 DEF CodeIssued, Code
  <2>5. c # None /\ c \in Code
    BY DEF NoneAssumption, Code
  <2>6. ASSUME NEW pc \in {"storing", "persisting"}, NEW d \in Blob \cup {None},
               pc = "storing" => d # None,
               task' = [task EXCEPT ![t].pc = pc, ![t].code = c, ![t].blob = d]
        PROVE  TaskTypeOK'
    <3>1. task' = [task EXCEPT ![t] = MovedTask(t, pc, e, c, d)]
      BY <2>6 DEF TaskTypeOK, TaskState, MovedTask
    <3>2. pc \in TaskPc \ {"idle"} /\ task[t].pc # "idle"
          /\ (pc \in {"submitting", "storing"} => d # None)
      BY <2>1, <2>6 DEF TaskPc
    <3>3. QED
      BY <2>1, <2>5, <3>1, <3>2, MoveTaskType
  <2>7. StoreTypeOK' /\ TaskTypeOK' /\ listed' \in [Subs -> SUBSET Emails]
    <3>1. CASE Warm(s)
      <4> DEFINE d == WithPending(cache[s], c)
      <4>1. d \in Blob /\ d # None
        BY <2>1, WithPendingType, NoneIsNoBlob DEF StoreTypeOK
      <4>2. /\ Cache(s, d)
            /\ task' = [task EXCEPT ![t].pc = "storing", ![t].code = c, ![t].blob = d]
            /\ UNCHANGED <<kv, kvFailures>>
        BY <1>8, <3>1 DEF CodeIssued
      <4> HIDE DEF d
      <4>3. QED
        BY <2>1, <2>6, <4>1, <4>2, CacheType DEF StoreTypeOK
    <3>2. CASE ~Warm(s)
      <4>1. Read(s, ok) \in Blob \cup {None}
        BY <2>1, ReadType
      <4>2. /\ KvOutcome(ok)
            /\ task' = [task EXCEPT ![t].pc = "persisting", ![t].code = c,
                                    ![t].blob = Read(s, ok)]
            /\ UNCHANGED <<kv, cache, listed>>
        BY <1>8, <3>2 DEF CodeIssued
      <4>3. TaskTypeOK'
        BY <2>6, <4>1, <4>2
      <4>4. StoreTypeOK'
        BY <4>2, OutcomeType DEF StoreTypeOK
      <4>5. QED
        BY <4>2, <4>3, <4>4
    <3>3. QED
      BY <3>1, <3>2
  <2>8. QED
    BY <1>8, <2>2, <2>3, <2>4, <2>7 DEF CodeIssued
<1>9. CASE RequestFails(t)
  BY <1>1, <1>9, FinishType DEF RequestFails, store
<1>10. CASE Persist(t)
  <2> DEFINE d == WithPending(b, task[t].code)
  <2>1. s \in Subs /\ e \in Emails /\ task[t].code \in Codes /\ b \in Blob \cup {None}
    BY <1>10, TaskFields DEF Persist
  <2>2. d \in Blob /\ d # None
    BY <2>1, WithPendingType, NoneIsNoBlob
  <2>3. Cache(s, d) /\ task' = [task EXCEPT ![t].pc = "storing", ![t].blob = d]
        /\ task[t].pc # "idle"
    BY <1>10 DEF Persist
  <2> HIDE DEF d
  <2>4. task' = [task EXCEPT ![t] = MovedTask(t, "storing", e, task[t].code, d)]
    BY <2>3 DEF TaskTypeOK, TaskState, MovedTask
  <2>5. TaskTypeOK'
    <3>1. /\ "storing" \in TaskPc \ {"idle"} /\ task[t].pc # "idle"
          /\ task[t].code \in Code /\ task[t].code # None
      BY <2>1, <2>3 DEF TaskPc, Code, NoneAssumption
    <3>2. QED
      BY <2>1, <2>2, <2>4, <3>1, MoveTaskType
  <2>6. cache' \in [Subs -> Blob \cup {None}] /\ listed' \in [Subs -> SUBSET Emails]
    BY <2>1, <2>2, <2>3, CacheType
  <2>7. QED
    BY <1>10, <2>5, <2>6 DEF Persist, StoreTypeOK, PollTypeOK, CodeTypeOK
<1>11. ASSUME NEW kept \in SUBSET Emails, NEW ok \in BOOLEAN, ResetDone(t, kept, ok)
       PROVE  TypeOK'
  <2>1. s \in Subs /\ Write(s, None, ok)
    BY <1>11, TaskFields DEF ResetDone
  <2>2. kv' \in [Subs -> Blob \cup {None}] /\ kvFailures' \in 0 .. MaxKvFailures
    BY <2>1, WriteType
  <2>3. TaskTypeOK' /\ listed' \in [Subs -> SUBSET Emails]
    BY <1>11, <2>1, FinishType DEF ResetDone
  <2>4. StoreTypeOK'
    BY <1>11, <2>2 DEF ResetDone, StoreTypeOK
  <2>5. QED
    BY <1>11, <2>3, <2>4 DEF ResetDone, PollTypeOK, CodeTypeOK
<1>12. QED
  BY <1>2, <1>3, <1>4, <1>5, <1>6, <1>7, <1>8, <1>9, <1>10, <1>11 DEF TaskStep

\* saveTokens and clearPendingDeviceCode save a blob and wait for its PUT.
LEMMA PollCachesType ==
  ASSUME TypeOK, NEW p \in Polls, poll[p].pc # "idle", NEW pc \in {"storing", "dropping"},
         NEW b \in Blob, Cache(poll[p].sub, b),
         poll' = [poll EXCEPT ![p].pc = pc, ![p].blob = b]
  PROVE  /\ PollTypeOK'
         /\ cache' \in [Subs -> Blob \cup {None}] /\ listed' \in [Subs -> SUBSET Emails]
<1>1. poll[p].sub \in Subs
  BY PollFields DEF TypeOK
<1>2. poll' = [poll EXCEPT ![p] = MovedPoll(p, pc, b)]
  BY DEF MovedPoll
<1>3. b # None /\ pc \in PollPc
  BY NoneIsNoBlob DEF PollPc
<1>4. PollTypeOK'
  BY <1>2, <1>3, MovePollType DEF TypeOK
<1>5. QED
  BY <1>1, <1>4, CacheType

\* What a poll may do to the status of its code: Microsoft redeems it, and the answer
\* reaches the poll or is lost.
Consumed(p) ==
  /\ Grantable(p)
  /\ \E r \in {"redeemed", "lost"} : status' = [status EXCEPT ![poll[p].code] = r]

\* The steps of a background poll.
LEMMA PollStepType ==
  ASSUME TypeOK, NoneAssumption, BoundsAssumption, NEW p \in Polls, PollStep(p)
  PROVE  TypeOK'
<1> USE DEF TypeOK
<1> DEFINE s == poll[p].sub
           b == poll[p].blob
<1>1. ASSUME UNCHANGED <<kv, cache, kvFailures, task, listed, owner, lapsed, resets,
                         restarts>>,
             PollTypeOK', ram' \in [Emails -> Code], CodeTypeOK'
      PROVE  TypeOK'
  BY <1>1 DEF StoreTypeOK, TaskTypeOK
<1>2. UNCHANGED <<owner, lapsed>> /\ (status' = status \/ Consumed(p)) => CodeTypeOK'
  BY DEF Consumed, Grantable, CodeTypeOK, Status
<1>3. ASSUME NEW d \in Blob \cup {None}, poll[p].pc # "idle", SaveToken(p, d), CodeTypeOK'
      PROVE  TypeOK'
  <2> DEFINE m == WithToken(d, poll[p].email, poll[p].code)
  <2>1. m \in Blob
    BY <1>3, PollFields, WithTokenType
  <2>2. Cache(s, m) /\ poll' = [poll EXCEPT ![p].pc = "storing", ![p].blob = m]
    BY <1>3 DEF SaveToken
  <2> HIDE DEF m
  <2>3. PollTypeOK' /\ cache' \in [Subs -> Blob \cup {None}]
        /\ listed' \in [Subs -> SUBSET Emails]
    BY <1>3, <2>1, <2>2, PollCachesType
  <2>4. QED
    BY <1>3, <2>3 DEF SaveToken, StoreTypeOK, TaskTypeOK
<1>4. CASE PollRefused(p)
  BY <1>1, <1>2, <1>4, EndPollType DEF PollRefused, store
<1>5. CASE PollThrows(p)
  BY <1>1, <1>2, <1>5, EndPollType DEF PollThrows, store
<1>6. CASE GrantLost(p)
  BY <1>1, <1>2, <1>6, EndPollType DEF GrantLost, Consumed, store
<1>7. CASE PollSave(p)
  <2>1. poll[p].pc # "idle" /\ SaveToken(p, cache[s]) /\ CodeTypeOK'
    BY <1>2, <1>7 DEF PollSave, Consumed, Granted, Grantable, SaveToken
  <2>2. cache[s] \in Blob \cup {None}
    BY <2>1, PollFields DEF StoreTypeOK
  <2>3. QED
    BY <1>3, <2>1, <2>2
<1>8. CASE PollMerge(p)
  <2>1. poll[p].pc # "idle" /\ SaveToken(p, b) /\ CodeTypeOK'
    BY <1>2, <1>8 DEF PollMerge, SaveToken
  <2>2. b \in Blob \cup {None}
    BY <2>1, PollFields
  <2>3. QED
    BY <1>3, <2>1, <2>2
<1>9. ASSUME NEW ok \in BOOLEAN, PollReadKv(p, ok) PROVE TypeOK'
  <2>1. poll[p].pc # "idle" /\ CodeTypeOK' /\ KvOutcome(ok)
    BY <1>2, <1>9 DEF PollReadKv, Consumed, Granted, Grantable
  <2>2. Read(s, ok) \in Blob \cup {None}
    BY <2>1, PollFields, ReadType
  <2>3. poll' = [poll EXCEPT ![p] = MovedPoll(p, "merging", Read(s, ok))]
    BY <1>9 DEF PollReadKv, MovedPoll
  <2>4. PollTypeOK'
    BY <2>1, <2>2, <2>3, MovePollType DEF PollPc
  <2>5. StoreTypeOK'
    BY <1>9, <2>1, OutcomeType DEF PollReadKv, StoreTypeOK
  <2>6. QED
    BY <1>9, <2>1, <2>4, <2>5 DEF PollReadKv, TaskTypeOK
<1>10. ASSUME NEW ok \in BOOLEAN, PollStored(p, ok) PROVE TypeOK'
  <2>1. poll[p].pc = "storing" /\ s \in Subs /\ b \in Blob \cup {None} /\ Write(s, b, ok)
    BY <1>10, PollFields DEF PollStored
  <2>2. kv' \in [Subs -> Blob \cup {None}] /\ kvFailures' \in 0 .. MaxKvFailures
    BY <2>1, WriteType
  <2>3. PollTypeOK' /\ ram' \in [Emails -> Code]
    <3>1. CASE ok
      <4>1. poll' = [poll EXCEPT ![p] = MovedPoll(p, "saved", None)] /\ ram' = ram
        BY <1>10, <3>1 DEF PollStored, MovedPoll
      <4>2. QED
        BY <2>1, <4>1, MovePollType DEF PollPc
    <3>2. CASE ~ok
      BY <1>10, <3>2, EndPollType DEF PollStored
    <3>3. QED
      BY <3>1, <3>2
  <2>4. StoreTypeOK' /\ CodeTypeOK'
    BY <1>2, <1>10, <2>2 DEF PollStored, StoreTypeOK
  <2>5. QED
    BY <1>10, <2>3, <2>4 DEF PollStored, TaskTypeOK
<1>11. ASSUME NEW d, poll[p].pc # "idle", d \in Blob \cup {None}, DropPending(p, d)
       PROVE  PollTypeOK' /\ cache' \in [Subs -> Blob \cup {None}]
              /\ listed' \in [Subs -> SUBSET Emails]
  <2>1. WithoutPending(d) \in Blob
    BY <1>11, WithoutPendingType DEF DropPending
  <2>2. QED
    BY <1>11, <2>1, PollCachesType DEF DropPending
<1>12. ASSUME poll' = [poll EXCEPT ![p] = IdlePoll] PROVE PollTypeOK'
  BY <1>12, IdleTypes, PollUpdateType
<1>13. ASSUME NEW ok \in BOOLEAN, PollDone(p, ok) PROVE TypeOK'
  <2>1. poll[p].pc = "saved" /\ s \in Subs /\ poll[p].email \in Emails
    BY <1>13, PollFields DEF PollDone
  <2>2. ram' \in [Emails -> Code] /\ CodeTypeOK'
    BY <1>2, <1>13, <2>1 DEF PollDone, Code
  <2>3. PollTypeOK' /\ cache' \in [Subs -> Blob \cup {None}]
        /\ listed' \in [Subs -> SUBSET Emails] /\ kvFailures' \in 0 .. MaxKvFailures
    <3>1. CASE DropPending(p, cache[s]) /\ UNCHANGED kvFailures
      BY <1>11, <2>1, <3>1 DEF StoreTypeOK
    <3>2. CASE poll' = [poll EXCEPT ![p] = IdlePoll] /\ UNCHANGED <<cache, listed, kvFailures>>
      BY <1>12, <3>2 DEF StoreTypeOK
    <3>3. CASE /\ KvOutcome(ok)
               /\ poll' = [poll EXCEPT ![p].pc = "clearing", ![p].blob = Read(s, ok)]
               /\ UNCHANGED <<cache, listed>>
      <4>1. poll' = [poll EXCEPT ![p] = MovedPoll(p, "clearing", Read(s, ok))]
        BY <3>3 DEF MovedPoll
      <4>2. PollTypeOK'
        BY <2>1, <4>1, ReadType, MovePollType DEF PollPc
      <4>3. QED
        BY <3>3, <4>2, OutcomeType DEF StoreTypeOK
    <3>4. QED
      BY <1>13, <3>1, <3>2, <3>3 DEF PollDone
  <2>4. QED
    BY <1>13, <2>2, <2>3 DEF PollDone, StoreTypeOK, TaskTypeOK
<1>14. CASE PollClear(p)
  <2>1. poll[p].pc = "clearing" /\ s \in Subs /\ b \in Blob \cup {None}
    BY <1>14, PollFields DEF PollClear
  <2>2. PollTypeOK' /\ cache' \in [Subs -> Blob \cup {None}]
        /\ listed' \in [Subs -> SUBSET Emails]
    BY <1>11, <1>12, <1>14, <2>1, FillType DEF PollClear
  <2>3. QED
    BY <1>2, <1>14, <2>2 DEF PollClear, StoreTypeOK, TaskTypeOK
<1>15. ASSUME NEW ok \in BOOLEAN, PollDropped(p, ok) PROVE TypeOK'
  <2>1. s \in Subs /\ b \in Blob \cup {None} /\ Write(s, b, ok)
    BY <1>15, PollFields DEF PollDropped
  <2>2. kv' \in [Subs -> Blob \cup {None}] /\ kvFailures' \in 0 .. MaxKvFailures
    BY <2>1, WriteType
  <2>3. PollTypeOK'
    BY <1>12, <1>15 DEF PollDropped
  <2>4. QED
    BY <1>2, <1>15, <2>2, <2>3 DEF PollDropped, StoreTypeOK, TaskTypeOK
<1>16. QED
  <2> HIDE DEF TypeOK
  <2> QED
    BY <1>4, <1>5, <1>6, <1>7, <1>8, <1>9, <1>10, <1>13, <1>14, <1>15 DEF PollStep, PollAdvances

\* The steps of users and sessions.
LEMMA UserStepType ==
  ASSUME TypeOK, NoneAssumption, BoundsAssumption, UserStep
  PROVE  TypeOK'
<1> USE DEF TypeOK
<1>1. ASSUME NEW t \in Tasks, NEW s \in Subs, NEW A \in SUBSET Emails,
             NEW e \in Emails, FormSubmit(t, s, A, e)
      PROVE  TypeOK'
  <2> DEFINE form == [EmptyBlob EXCEPT !.accounts = A]
  <2>1. form \in Blob /\ form # None
    BY FormBlobType, NoneIsNoBlob
  <2>2. Begin(t, "submitting", s, e, form) /\ Cache(s, form)
    BY <1>1 DEF FormSubmit
  <2> HIDE DEF form
  <2>3. e # None
    BY DEF NoneAssumption
  <2>4. TaskTypeOK'
    BY <2>1, <2>2, <2>3, BeginType DEF TaskPc
  <2>5. cache' \in [Subs -> Blob \cup {None}] /\ listed' \in [Subs -> SUBSET Emails]
    BY <2>1, <2>2, CacheType
  <2>6. QED
    BY <1>1, <2>4, <2>5 DEF FormSubmit, StoreTypeOK, PollTypeOK, CodeTypeOK
<1>2. ASSUME NEW t \in Tasks, NEW s \in Subs, NEW ok \in BOOLEAN, StartLoad(t, s, ok)
      PROVE  TypeOK'
  <2>1. Read(s, ok) \in Blob \cup {None} /\ KvOutcome(ok)
        /\ Begin(t, "loading", s, None, Read(s, ok))
    BY <1>2, ReadType DEF StartLoad
  <2>2. TaskTypeOK'
    BY <2>1, BeginType DEF TaskPc
  <2>3. StoreTypeOK'
    BY <1>2, <2>1, OutcomeType DEF StartLoad, StoreTypeOK
  <2>4. QED
    BY <1>2, <2>2, <2>3 DEF StartLoad, PollTypeOK, CodeTypeOK
<1>3. ASSUME NEW s \in Subs, NEW e \in Emails, NEW p \in Polls, ResumePoll(s, e, p)
      PROVE  TypeOK'
  <2>1. cache[s].pending \in Codes
    BY <1>3 DEF ResumePoll, NeedsSignIn, Warm, Resumable, Live, StoreTypeOK, Blob, Code
  <2>2. PollTypeOK'
    BY <1>3, <2>1, StartedPollType, PollUpdateType DEF ResumePoll
  <2>3. ram' \in [Emails -> Code]
    BY <1>3, <2>1 DEF ResumePoll, Code
  <2>4. QED
    BY <1>3, <2>2, <2>3 DEF ResumePoll, store, StoreTypeOK, TaskTypeOK, CodeTypeOK
<1>4. ASSUME NEW t \in Tasks, NEW s \in Subs, NEW e \in Emails, RequestCode(t, s, e)
      PROVE  TypeOK'
  <2>1. e # None /\ Begin(t, "requesting", s, e, None)
    BY <1>4 DEF NoneAssumption, RequestCode
  <2>2. TaskTypeOK'
    BY <2>1, BeginType DEF TaskPc
  <2>3. QED
    BY <1>4, <2>2 DEF RequestCode, store, StoreTypeOK, PollTypeOK, CodeTypeOK
<1>5. ASSUME NEW c \in Codes, NEW d \in Status, Decide(c, d)
      PROVE  TypeOK'
  BY <1>5 DEF Decide, store, StoreTypeOK, PollTypeOK, TaskTypeOK, CodeTypeOK
<1>6. ASSUME NEW t \in Tasks, NEW s \in Subs, StartReset(t, s)
      PROVE  TypeOK'
  <2>1. resets' \in 0 .. MaxResets
    BY <1>6 DEF StartReset, BoundsAssumption
  <2>2. TaskTypeOK'
    BY <1>6, BeginType DEF StartReset, TaskPc
  <2>3. StoreTypeOK'
    BY <1>6 DEF StartReset, StoreTypeOK
  <2>4. QED
    BY <1>6, <2>1, <2>2, <2>3 DEF StartReset, PollTypeOK, CodeTypeOK
<1>7. QED
  <2> HIDE DEF TypeOK
  <2> QED
    BY <1>1, <1>2, <1>3, <1>4, <1>5, <1>6 DEF UserStep

\* Every step keeps the types.
LEMMA NextType ==
  ASSUME TypeOK, NoneAssumption, BoundsAssumption, [Next]_vars
  PROVE  TypeOK'
<1>1. ASSUME NEW c \in Codes, Lapse(c) PROVE TypeOK'
  BY <1>1 DEF Lapse, TypeOK, store, StoreTypeOK, PollTypeOK, TaskTypeOK, CodeTypeOK
<1>2. CASE Restart
  <2>1. restarts' \in 0 .. MaxRestarts
    BY <1>2 DEF Restart, TypeOK, BoundsAssumption
  <2>2. StoreTypeOK' /\ ram' \in [Emails -> Code]
    BY <1>2 DEF Restart, TypeOK, StoreTypeOK, Code
  <2>3. PollTypeOK' /\ TaskTypeOK'
    <3>1. IdlePoll.pc = "idle" /\ IdleTask.pc = "idle"
      BY DEF IdlePoll, IdleTask
    <3>2. poll' \in [Polls -> PollState] /\ task' \in [Tasks -> TaskState]
      BY <1>2, IdleTypes DEF Restart, PollOK, TaskOK
    <3>3. QED
      BY <1>2, <3>1, <3>2 DEF Restart, PollTypeOK, TaskTypeOK
  <2>4. QED
    BY <1>2, <2>1, <2>2, <2>3 DEF Restart, TypeOK, CodeTypeOK
<1>3. CASE UNCHANGED vars
  BY <1>3 DEF vars, TypeOK, StoreTypeOK, PollTypeOK, TaskTypeOK, CodeTypeOK
<1>4. QED
  BY <1>1, <1>2, <1>3, TaskStepType, PollStepType, UserStepType DEF Next

\* Every variable has its type in every state; a running poll and a running task
\* know the code, the sub and the email they work for (currentSub is captured at
\* the start of a poll, where the detached loop no longer has it).
THEOREM TypeCorrect == Spec => []TypeOK
<1>1. Init => TypeOK
  BY InitType, BoundsAssumption
<1>2. TypeOK /\ [Next]_vars => TypeOK'
  BY NextType, NoneAssumption, BoundsAssumption
<1>3. QED
  BY <1>1, <1>2, PTL DEF Spec

-----------------------------------------------------------------------------
(* A code in RAM is polled for. *)

\* A step that changes only poll p keeps every code in RAM backed if, for each
\* email, the code was there before and p does not stop backing it, or p backs
\* it after the step.
LEMMA BackedByOthers ==
  ASSUME RamBackedByPoll, NEW p \in Polls,
         \A q \in Polls \ {p} : poll'[q] = poll[q],
         \A e \in Emails : ram'[e] # None =>
           \/ /\ ram'[e] = ram[e]
              /\ Backing(p) /\ poll[p].email = e
                   => Backing(p)' /\ poll'[p].email = e /\ poll'[p].code = poll[p].code
           \/ Backing(p)' /\ poll'[p].email = e /\ poll'[p].code = ram'[e]
  PROVE  RamBackedByPoll'
<1> SUFFICES ASSUME NEW e \in Emails, ram'[e] # None
             PROVE  \E q \in Polls :
                      Backing(q)' /\ poll'[q].email = e /\ poll'[q].code = ram'[e]
  BY DEF RamBackedByPoll
<1>1. CASE Backing(p)' /\ poll'[p].email = e /\ poll'[p].code = ram'[e]
  BY <1>1
<1>2. CASE /\ ram'[e] = ram[e]
           /\ Backing(p) /\ poll[p].email = e
                => Backing(p)' /\ poll'[p].email = e /\ poll'[p].code = poll[p].code
  <2>1. PICK q \in Polls : Backing(q) /\ poll[q].email = e /\ poll[q].code = ram[e]
    BY <1>2 DEF RamBackedByPoll
  <2>2. CASE q = p
    BY <1>2, <2>1, <2>2
  <2>3. CASE q # p
    BY <1>2, <2>1, <2>3 DEF Backing
  <2>4. QED
    BY <2>2, <2>3
<1>3. QED
  BY <1>1, <1>2

\* A poll that ends takes the code of its email out of RAM.
LEMMA EndPollBacked ==
  ASSUME TypeOK, RamBackedByPoll, NEW p \in Polls, EndPoll(p)
  PROVE  RamBackedByPoll'
<1>1. \A q \in Polls \ {p} : poll'[q] = poll[q]
  BY DEF EndPoll, TypeOK, PollTypeOK
<1>2. \A e \in Emails : ram'[e] # None => ram'[e] = ram[e] /\ poll[p].email # e
  BY DEF EndPoll, TypeOK
<1>3. QED
  BY <1>1, <1>2, BackedByOthers

\* A poll that only moves on keeps backing what it backed.
LEMMA MovePollBacked ==
  ASSUME TypeOK, RamBackedByPoll, NEW p \in Polls,
         NEW pc \in {"merging", "storing", "saved"}, NEW b,
         poll' = [poll EXCEPT ![p].pc = pc, ![p].blob = b],
         UNCHANGED ram
  PROVE  RamBackedByPoll'
<1>1. \A q \in Polls \ {p} : poll'[q] = poll[q]
  BY DEF TypeOK, PollTypeOK
<1>2. /\ poll'[p].pc = pc
      /\ poll'[p].email = poll[p].email
      /\ poll'[p].code = poll[p].code
  BY DEF TypeOK, PollTypeOK, PollState
<1>3. Backing(p)'
  BY <1>2 DEF Backing
<1>4. QED
  BY <1>1, <1>2, <1>3, BackedByOthers

\* A poll that starts for the code just put in RAM backs it.
LEMMA StartPollBacked ==
  ASSUME TypeOK, RamBackedByPoll, NEW p \in Polls, poll[p].pc = "idle",
         NEW c \in Codes, NEW s \in Subs, NEW e \in Emails,
         poll' = [poll EXCEPT ![p] = StartedPoll(c, s, e)],
         ram' = [ram EXCEPT ![e] = c]
  PROVE  RamBackedByPoll'
<1>1. \A q \in Polls \ {p} : poll'[q] = poll[q]
  BY DEF TypeOK, PollTypeOK
<1>2. ~Backing(p)
  BY DEF Backing
<1>3. Backing(p)' /\ poll'[p].email = e /\ poll'[p].code = c
  BY DEF Backing, StartedPoll, TypeOK, PollTypeOK
<1>4. \A f \in Emails : ram'[f] = IF f = e THEN c ELSE ram[f]
  BY DEF TypeOK
<1>5. QED
  BY <1>1, <1>2, <1>3, <1>4, BackedByOthers

\* A poll that no longer backs a code may do anything but bring one back.
LEMMA SpentPollBacked ==
  ASSUME TypeOK, RamBackedByPoll, NEW p \in Polls,
         \A q \in Polls \ {p} : poll'[q] = poll[q],
         \A e \in Emails : ram'[e] # None =>
           ram'[e] = ram[e] /\ (Backing(p) => poll[p].email # e)
  PROVE  RamBackedByPoll'
BY BackedByOthers

\* Every step keeps the codes in RAM backed.
LEMMA NextBacked ==
  ASSUME TypeOK, RamBackedByPoll, [Next]_vars
  PROVE  RamBackedByPoll'
<1>1. ASSUME UNCHANGED <<ram, poll>> PROVE RamBackedByPoll'
  BY <1>1 DEF RamBackedByPoll, Backing
<1>2. CASE UNCHANGED vars
  BY <1>1, <1>2 DEF vars
<1>3. CASE Restart
  BY <1>3 DEF Restart, RamBackedByPoll
<1>4. ASSUME NEW c \in Codes, Lapse(c) PROVE RamBackedByPoll'
  BY <1>1, <1>4 DEF Lapse
<1>5. CASE UserStep
  <2>1. ASSUME NEW s \in Subs, NEW e \in Emails, NEW p \in Polls, ResumePoll(s, e, p)
        PROVE  RamBackedByPoll'
    <3>1. cache[s].pending \in Codes
      BY <2>1 DEF TypeOK, StoreTypeOK, ResumePoll, NeedsSignIn, Warm, Resumable, Live, Blob,
                  Code
    <3>2. QED
      BY <2>1, <3>1, StartPollBacked DEF ResumePoll, Free
  <2>2. (UserStep /\ ~\E s \in Subs, e \in Emails, p \in Polls : ResumePoll(s, e, p))
          => UNCHANGED <<ram, poll>>
    BY DEF UserStep, FormSubmit, StartLoad, RequestCode, Decide, StartReset
  <2>3. QED
    BY <1>1, <1>5, <2>1, <2>2
<1>6. ASSUME NEW t \in Tasks, TaskStep(t) PROVE RamBackedByPoll'
  <2>1. ASSUME NEW c \in Codes, NEW p \in Polls, NEW ok \in BOOLEAN,
               CodeIssued(t, c, p, ok)
        PROVE  RamBackedByPoll'
    <3>1. task[t].sub \in Subs /\ task[t].email \in Emails
      BY <2>1, TaskFields DEF CodeIssued, TypeOK
    <3>2. QED
      BY <2>1, <3>1, StartPollBacked DEF CodeIssued, Free
  <2>2. QED
    BY <1>1, <1>6, <2>1
    DEF TaskStep, FormStored, Persisted, FormReuse, FormRequest, Loaded, RequestUnread,
        RequestFails, Persist, ResetDone
<1>7. ASSUME NEW p \in Polls, PollStep(p) PROVE RamBackedByPoll'
  <2>1. CASE PollRefused(p) \/ PollThrows(p) \/ GrantLost(p)
    BY <2>1, EndPollBacked DEF PollRefused, PollThrows, GrantLost
  <2>2. ASSUME NEW b, SaveToken(p, b) PROVE RamBackedByPoll'
    BY <2>2, MovePollBacked DEF SaveToken
  <2>3. CASE PollSave(p) \/ PollMerge(p)
    BY <2>2, <2>3 DEF PollSave, PollMerge
  <2>4. ASSUME NEW ok \in BOOLEAN, PollReadKv(p, ok) PROVE RamBackedByPoll'
    BY <2>4, MovePollBacked DEF PollReadKv
  <2>5. ASSUME NEW ok \in BOOLEAN, PollStored(p, ok) PROVE RamBackedByPoll'
    BY <2>5, MovePollBacked, EndPollBacked DEF PollStored
  <2>6. ASSUME NEW ok \in BOOLEAN, PollDone(p, ok) PROVE RamBackedByPoll'
    <3>1. \A q \in Polls \ {p} : poll'[q] = poll[q]
      BY <2>6 DEF PollDone, DropPending, TypeOK, PollTypeOK
    <3>2. \A e \in Emails : ram'[e] # None => ram'[e] = ram[e] /\ poll[p].email # e
      BY <2>6 DEF PollDone, TypeOK
    <3>3. QED
      BY <3>1, <3>2, SpentPollBacked
  <2>7. CASE PollClear(p) \/ \E ok \in BOOLEAN : PollDropped(p, ok)
    <3>1. \A q \in Polls \ {p} : poll'[q] = poll[q]
      BY <2>7 DEF PollClear, DropPending, PollDropped, TypeOK, PollTypeOK
    <3>2. ~Backing(p) /\ ram' = ram
      BY <2>7 DEF PollClear, PollDropped, Backing
    <3>3. QED
      BY <3>1, <3>2, SpentPollBacked
  <2>8. QED
    BY <1>7, <2>1, <2>3, <2>4, <2>5, <2>6, <2>7 DEF PollStep, PollAdvances
<1>8. QED
  BY <1>2, <1>3, <1>4, <1>5, <1>6, <1>7 DEF Next

\* A code that pendingAuths repeats to a caller is always polled for by a poll of
\* that email, whatever forms, tool calls, resets and restarts run beside it: the
\* poll that ends and the poll that starts both write the entry of their email.
THEOREM RamBacked == Spec => []RamBackedByPoll
<1>1. Init => RamBackedByPoll
  BY DEF Init, RamBackedByPoll
<1>2. TypeOK /\ RamBackedByPoll /\ [Next]_vars => RamBackedByPoll'
  BY NextBacked
<1>3. QED
  BY <1>1, <1>2, TypeCorrect, PTL DEF Spec

-----------------------------------------------------------------------------
(* Tokens and pending sessions belong to the sub whose blob holds them.      *)
(* TokensOfOwner alone is not inductive: the code a poll or a task will      *)
(* store must be right too, and no blob may hold a code not yet issued.      *)

\* BlobOfOwner for an owner function o, so that it can be used at owner and owner'.
OwnedBlob(b, s, o) ==
  b # None =>
    /\ \A e \in Emails : b.tokens[e] # None => o[b.tokens[e]] = <<s, e>>
    /\ b.pending # None => o[b.pending] # None /\ o[b.pending][1] = s

\* A poll works for the sub and email its code was requested for, and the blob
\* it has loaded or saves belongs to that sub.
PollOwned(x, o) ==
  /\ OwnedBlob(x.blob, x.sub, o)
  /\ x.pc # "idle" => o[x.code] = <<x.sub, x.email>>
  /\ x.pc = "idle" => x.blob = None

TaskOwned(x, o) ==
  /\ OwnedBlob(x.blob, x.sub, o)
  /\ x.pc = "persisting" => o[x.code] = <<x.sub, x.email>>
  /\ x.pc = "idle" => x.blob = None

StoreOwned(o) == \A s \in Subs : OwnedBlob(kv[s], s, o) /\ OwnedBlob(cache[s], s, o)

OwnerInv ==
  /\ StoreOwned(owner)
  /\ \A p \in Polls : PollOwned(poll[p], owner)
  /\ \A t \in Tasks : TaskOwned(task[t], owner)
  /\ \A c \in Codes : status[c] = "unissued" => owner[c] = None

\* The three blob operators and the form keep a blob with its owner.
LEMMA WithTokenOwned ==
  ASSUME NEW b \in Blob \cup {None}, NEW s \in Subs, NEW e \in Emails,
         NEW c \in Codes, OwnedBlob(b, s, owner), owner[c] = <<s, e>>
  PROVE  OwnedBlob(WithToken(b, e, c), s, owner)
<1> DEFINE old == IF b = None THEN EmptyBlob ELSE b
<1>1. old \in Blob /\ OwnedBlob(old, s, owner)
  BY DEF OwnedBlob, EmptyBlob, Blob, Code
<1>2. /\ WithToken(b, e, c).tokens = [old.tokens EXCEPT ![e] = c]
      /\ WithToken(b, e, c).pending \in {old.pending, None}
  BY <1>1 DEF WithToken, Blob
<1> HIDE DEF old
<1>3. old.tokens \in [Emails -> Code] /\ old # None
  BY <1>1, NoneIsNoBlob DEF Blob
<1>4. \A f \in Emails : WithToken(b, e, c).tokens[f] = IF f = e THEN c ELSE old.tokens[f]
  BY <1>2, <1>3
<1>5. QED
  BY <1>1, <1>2, <1>3, <1>4 DEF OwnedBlob

\* A pending session of this sub may be put into its blob.
LEMMA WithPendingOwned ==
  ASSUME NEW b \in Blob \cup {None}, NEW s \in Subs, NEW e \in Emails,
         NEW c \in Codes, NEW o, NoneAssumption,
         OwnedBlob(b, s, o), o[c] = <<s, e>>
  PROVE  OwnedBlob(WithPending(b, c), s, o)
<1>1. o[c] # None /\ o[c][1] = s
  BY DEF NoneAssumption
<1>2. b = None => \A f \in Emails : WithPending(b, c).tokens[f] = None
  BY DEF WithPending, EmptyBlob
<1>3. b # None => WithPending(b, c).tokens = b.tokens
  BY DEF WithPending, Blob
<1>4. WithPending(b, c).pending = c
  BY DEF WithPending, Blob, EmptyBlob
<1>5. QED
  BY <1>1, <1>2, <1>3, <1>4 DEF OwnedBlob

\* Clearing the pending session keeps the tokens as they are.
LEMMA WithoutPendingOwned ==
  ASSUME NEW b \in Blob, NEW s, NEW o, b # None, OwnedBlob(b, s, o)
  PROVE  OwnedBlob(WithoutPending(b), s, o)
BY DEF OwnedBlob, WithoutPending, Blob

\* The form saves no tokens and no session, so any sub may own its blob.
LEMMA FormBlobOwned ==
  ASSUME NEW A \in SUBSET Emails, NEW s \in Subs, NEW o
  PROVE  OwnedBlob([EmptyBlob EXCEPT !.accounts = A], s, o)
BY DEF OwnedBlob, EmptyBlob

\* No blob belongs to anyone.
LEMMA NoBlobOwned ==
  ASSUME NEW s, NEW o
  PROVE  OwnedBlob(None, s, o)
BY DEF OwnedBlob

\* What a GET returns is what KV holds.
LEMMA ReadOwned ==
  ASSUME StoreTypeOK, NEW s \in Subs, NEW o, NEW ok \in BOOLEAN, StoreOwned(o)
  PROVE  OwnedBlob(Read(s, ok), s, o)
BY DEF StoreOwned, Read, Trusted, OwnedBlob

\* Caching or writing an owned blob keeps the store owned.
LEMMA CacheOwned ==
  ASSUME StoreTypeOK, NEW s \in Subs, NEW b, NEW o,
         StoreOwned(o), Cache(s, b), OwnedBlob(b, s, o)
  PROVE  \A r \in Subs : OwnedBlob(cache'[r], r, o)
<1>1. \A r \in Subs : cache'[r] = IF r = s THEN b ELSE cache[r]
  BY DEF Cache, StoreTypeOK
<1>2. QED
  BY <1>1 DEF StoreOwned

LEMMA FillOwned ==
  ASSUME StoreTypeOK, NEW s \in Subs, NEW b, NEW o,
         StoreOwned(o), Fill(s, b), OwnedBlob(b, s, o)
  PROVE  \A r \in Subs : OwnedBlob(cache'[r], r, o)
BY CacheOwned DEF Fill, StoreOwned

LEMMA WriteOwned ==
  ASSUME StoreTypeOK, NEW s \in Subs, NEW b, NEW o, NEW ok \in BOOLEAN,
         StoreOwned(o), Write(s, b, ok), OwnedBlob(b, s, o)
  PROVE  \A r \in Subs : OwnedBlob(kv'[r], r, o)
<1>1. kv' = [kv EXCEPT ![s] = b] \/ kv' = kv
  BY DEF Write
<1>2. \A r \in Subs : kv'[r] = kv[r] \/ (r = s /\ kv'[r] = b)
  BY <1>1 DEF StoreTypeOK
<1>3. QED
  BY <1>2 DEF StoreOwned

\* Issuing a code leaves the owner of every other code as it was.
LEMMA OwnerGrows ==
  ASSUME NEW b \in Blob \cup {None}, NEW s, NEW o, NEW o2,
         None \notin Codes, OwnedBlob(b, s, o),
         \A c \in Codes : o[c] # None => o2[c] = o[c],
         \A e \in Emails : <<s, e>> # None
  PROVE  OwnedBlob(b, s, o2)
<1> SUFFICES ASSUME b # None PROVE OwnedBlob(b, s, o2)
  BY DEF OwnedBlob
<1>1. b.tokens \in [Emails -> Code] /\ b.pending \in Code
  BY DEF Blob
<1>2. \A e \in Emails : b.tokens[e] # None => o2[b.tokens[e]] = <<s, e>>
  BY <1>1 DEF OwnedBlob, Code
<1>3. b.pending # None => o2[b.pending] # None /\ o2[b.pending][1] = s
  BY <1>1 DEF OwnedBlob, Code
<1>4. QED
  BY <1>2, <1>3 DEF OwnedBlob

\* A step of poll p that leaves owner alone: the store and the new state of p are
\* owned, and the other polls and the tasks are as they were.
LEMMA PollUpdateOwned ==
  ASSUME TypeOK, OwnerInv, NEW p \in Polls, NEW x,
         poll' = [poll EXCEPT ![p] = x], PollOwned(x, owner),
         \A r \in Subs : OwnedBlob(kv'[r], r, owner),
         \A r \in Subs : OwnedBlob(cache'[r], r, owner),
         UNCHANGED <<task, owner>>,
         \A c \in Codes : status'[c] = "unissued" => status[c] = "unissued"
  PROVE  OwnerInv'
<1>1. \A q \in Polls : PollOwned(poll'[q], owner)
  BY DEF OwnerInv, TypeOK, PollTypeOK
<1>2. QED
  BY <1>1 DEF OwnerInv, StoreOwned

\* A step of task t that leaves the polls and the owners alone.
LEMMA TaskUpdateOwned ==
  ASSUME TypeOK, OwnerInv, NEW t \in Tasks, NEW x,
         task' = [task EXCEPT ![t] = x], TaskOwned(x, owner),
         \A r \in Subs : OwnedBlob(kv'[r], r, owner),
         \A r \in Subs : OwnedBlob(cache'[r], r, owner),
         UNCHANGED <<poll, owner, status>>
  PROVE  OwnerInv'
<1>1. \A u \in Tasks : TaskOwned(task'[u], owner)
  BY DEF OwnerInv, TypeOK, TaskTypeOK
<1>2. QED
  BY <1>1 DEF OwnerInv, StoreOwned

\* An idle poll and an idle task own nothing.
LEMMA IdleOwned ==
  ASSUME NEW o
  PROVE  PollOwned(IdlePoll, o) /\ TaskOwned(IdleTask, o)
BY DEF PollOwned, TaskOwned, IdlePoll, IdleTask, OwnedBlob

\* A running poll that moves on still works for the owner of its code.
LEMMA MovePollOwned ==
  ASSUME TypeOK, OwnerInv, NEW p \in Polls, poll[p].pc # "idle",
         NEW pc \in PollPc \ {"idle"}, NEW b \in Blob \cup {None},
         OwnedBlob(b, poll[p].sub, owner)
  PROVE  PollOwned(MovedPoll(p, pc, b), owner)
<1>1. PollTypeOK /\ owner[poll[p].code] = <<poll[p].sub, poll[p].email>>
  BY DEF TypeOK, OwnerInv, PollOwned
<1>2. pc \in PollPc /\ pc # "idle"
  OBVIOUS
<1>3. QED
  BY <1>1, <1>2, MovedFields DEF PollOwned

\* What a step of poll p has at hand, and what it must show.
LEMMA PollHas ==
  ASSUME TypeOK, OwnerInv, NEW p \in Polls, poll[p].pc # "idle"
  PROVE  /\ poll[p].sub \in Subs /\ poll[p].email \in Emails /\ poll[p].code \in Codes
         /\ poll[p].blob \in Blob \cup {None}
         /\ OwnedBlob(poll[p].blob, poll[p].sub, owner)
         /\ owner[poll[p].code] = <<poll[p].sub, poll[p].email>>
         /\ cache[poll[p].sub] \in Blob \cup {None}
         /\ OwnedBlob(cache[poll[p].sub], poll[p].sub, owner)
         /\ \A ok \in BOOLEAN : /\ Read(poll[p].sub, ok) \in Blob \cup {None}
                                /\ OwnedBlob(Read(poll[p].sub, ok), poll[p].sub, owner)
<1>1. PollTypeOK /\ StoreTypeOK /\ StoreOwned(owner) /\ PollOwned(poll[p], owner)
  BY DEF TypeOK, OwnerInv
<1>2. /\ poll[p].sub \in Subs /\ poll[p].email \in Emails /\ poll[p].code \in Codes
      /\ poll[p].blob \in Blob \cup {None}
  BY <1>1, PollFields
<1>3. cache[poll[p].sub] \in Blob \cup {None}
  BY <1>1, <1>2 DEF StoreTypeOK
<1>4. OwnedBlob(cache[poll[p].sub], poll[p].sub, owner)
  BY <1>1, <1>2 DEF StoreOwned
<1>5. \A ok \in BOOLEAN : /\ Read(poll[p].sub, ok) \in Blob \cup {None}
                          /\ OwnedBlob(Read(poll[p].sub, ok), poll[p].sub, owner)
  BY <1>1, <1>2, ReadType, ReadOwned
<1>6. QED
  BY <1>1, <1>2, <1>3, <1>4, <1>5 DEF PollOwned

\* A poll that caches a blob and waits for its PUT.
LEMMA PollCachesOwned ==
  ASSUME TypeOK, OwnerInv, NEW p \in Polls, poll[p].pc # "idle",
         NEW pc \in {"storing", "dropping"}, NEW b \in Blob,
         OwnedBlob(b, poll[p].sub, owner), Cache(poll[p].sub, b),
         poll' = [poll EXCEPT ![p].pc = pc, ![p].blob = b],
         UNCHANGED <<kv, task, owner>>,
         \A c \in Codes : status'[c] = "unissued" => status[c] = "unissued"
  PROVE  OwnerInv'
<1>1. poll' = [poll EXCEPT ![p] = MovedPoll(p, pc, b)]
  BY DEF MovedPoll
<1>2. pc \in PollPc \ {"idle"} /\ b \in Blob \cup {None}
  BY DEF PollPc
<1>3. PollOwned(MovedPoll(p, pc, b), owner)
  BY <1>2, MovePollOwned
<1>4. StoreTypeOK /\ StoreOwned(owner) /\ poll[p].sub \in Subs
  BY PollHas DEF TypeOK, OwnerInv
<1>5. \A r \in Subs : OwnedBlob(cache'[r], r, owner)
  BY <1>4, CacheOwned
<1>6. \A r \in Subs : OwnedBlob(kv'[r], r, owner)
  BY <1>4 DEF StoreOwned
<1>7. QED
  BY <1>1, <1>3, <1>5, <1>6, PollUpdateOwned

\* saveTokens puts the token under the owner of its code.
LEMMA SaveTokenOwned ==
  ASSUME TypeOK, OwnerInv, NEW p \in Polls, poll[p].pc # "idle",
         NEW b \in Blob \cup {None}, OwnedBlob(b, poll[p].sub, owner),
         SaveToken(p, b),
         \A c \in Codes : status'[c] = "unissued" => status[c] = "unissued"
  PROVE  OwnerInv'
<1> DEFINE m == WithToken(b, poll[p].email, poll[p].code)
<1>1. m \in Blob /\ OwnedBlob(m, poll[p].sub, owner)
  BY PollHas, WithTokenType, WithTokenOwned
<1>2. /\ Cache(poll[p].sub, m) /\ UNCHANGED <<kv, task, owner>>
      /\ poll' = [poll EXCEPT ![p].pc = "storing", ![p].blob = m]
  BY DEF SaveToken
<1> HIDE DEF m
<1>3. QED
  BY <1>1, <1>2, PollCachesOwned

\* The steps of a poll keep ownership.
LEMMA PollStepOwned ==
  ASSUME TypeOK, OwnerInv, NEW p \in Polls, PollStep(p)
  PROVE  OwnerInv'
<1> DEFINE s == poll[p].sub
           b == poll[p].blob
<1>1. StoreOwned(owner) /\ StoreTypeOK
  BY DEF OwnerInv, TypeOK
<1>2. /\ kv' = kv => \A r \in Subs : OwnedBlob(kv'[r], r, owner)
      /\ cache' = cache => \A r \in Subs : OwnedBlob(cache'[r], r, owner)
  BY <1>1 DEF StoreOwned
<1>3. status' = status \/ Consumed(p)
        => \A c \in Codes : status'[c] = "unissued" => status[c] = "unissued"
  BY DEF Consumed, Grantable, TypeOK, CodeTypeOK
<1>4. ASSUME NEW x, PollOwned(x, owner), poll' = [poll EXCEPT ![p] = x],
             UNCHANGED <<task, owner>>, status' = status \/ Consumed(p),
             \A r \in Subs : OwnedBlob(kv'[r], r, owner),
             \A r \in Subs : OwnedBlob(cache'[r], r, owner)
      PROVE  OwnerInv'
  BY <1>3, <1>4, PollUpdateOwned
<1>5. CASE PollRefused(p) \/ PollThrows(p) \/ GrantLost(p)
  <2>1. poll' = [poll EXCEPT ![p] = IdlePoll] /\ UNCHANGED <<kv, cache, task, owner>>
        /\ (status' = status \/ Consumed(p))
    BY <1>5 DEF PollRefused, PollThrows, GrantLost, Consumed, EndPoll, store
  <2>2. QED
    BY <1>2, <1>4, <2>1, IdleOwned
<1>6. CASE PollSave(p)
  <2>1. poll[p].pc # "idle" /\ SaveToken(p, cache[s]) /\ Consumed(p)
    BY <1>6 DEF PollSave, Consumed, Granted, Grantable
  <2>2. QED
    BY <1>3, <2>1, PollHas, SaveTokenOwned
<1>7. CASE PollMerge(p)
  <2>1. poll[p].pc # "idle" /\ SaveToken(p, b) /\ status' = status
    BY <1>7 DEF PollMerge
  <2>2. QED
    BY <1>3, <2>1, PollHas, SaveTokenOwned
<1>8. ASSUME NEW pc \in {"merging", "clearing"}, NEW ok \in BOOLEAN, poll[p].pc # "idle",
             poll' = [poll EXCEPT ![p].pc = pc, ![p].blob = Read(s, ok)],
             UNCHANGED <<kv, cache, task, owner>>, status' = status \/ Consumed(p)
      PROVE  OwnerInv'
  <2>1. poll' = [poll EXCEPT ![p] = MovedPoll(p, pc, Read(s, ok))]
    BY <1>8 DEF MovedPoll
  <2>2. pc \in PollPc \ {"idle"}
    BY DEF PollPc
  <2>3. PollOwned(MovedPoll(p, pc, Read(s, ok)), owner)
    BY <1>8, <2>2, PollHas, MovePollOwned
  <2>4. QED
    BY <1>2, <1>4, <1>8, <2>1, <2>3
<1>9. ASSUME NEW ok \in BOOLEAN, PollReadKv(p, ok) PROVE OwnerInv'
  BY <1>8, <1>9 DEF PollReadKv, Consumed, Granted, Grantable
<1>10. ASSUME NEW ok \in BOOLEAN, PollStored(p, ok) PROVE OwnerInv'
  <2>1. poll[p].pc # "idle" /\ Write(s, b, ok)
        /\ UNCHANGED <<cache, task, owner, status>>
    BY <1>10 DEF PollStored
  <2>2. \A r \in Subs : OwnedBlob(kv'[r], r, owner)
    BY <1>1, <2>1, PollHas, WriteOwned
  <2>3. CASE ok
    <3>1. poll' = [poll EXCEPT ![p] = MovedPoll(p, "saved", None)]
      BY <1>10, <2>3 DEF PollStored, MovedPoll
    <3>2. "saved" \in PollPc \ {"idle"} /\ None \in Blob \cup {None}
          /\ OwnedBlob(None, s, owner)
      BY NoBlobOwned DEF PollPc
    <3>3. PollOwned(MovedPoll(p, "saved", None), owner)
      BY <2>1, <3>2, MovePollOwned
    <3>4. QED
      BY <1>2, <1>4, <2>1, <2>2, <3>1, <3>3
  <2>4. CASE ~ok
    <3>1. poll' = [poll EXCEPT ![p] = IdlePoll]
      BY <1>10, <2>4 DEF PollStored, EndPoll
    <3>2. QED
      BY <1>2, <1>4, <2>1, <2>2, <3>1, IdleOwned
  <2>5. QED
    BY <2>3, <2>4
<1>11. ASSUME NEW d \in Blob \cup {None}, OwnedBlob(d, s, owner), poll[p].pc # "idle",
              DropPending(p, d), UNCHANGED <<kv, task, owner, status>>
       PROVE  OwnerInv'
  <2>1. d \in Blob /\ d # None
    BY <1>11 DEF DropPending
  <2>2. WithoutPending(d) \in Blob /\ OwnedBlob(WithoutPending(d), s, owner)
    BY <1>11, <2>1, WithoutPendingType, WithoutPendingOwned
  <2>3. QED
    BY <1>3, <1>11, <2>2, PollCachesOwned DEF DropPending
<1>12. ASSUME NEW ok \in BOOLEAN, PollDone(p, ok) PROVE OwnerInv'
  <2>1. poll[p].pc # "idle" /\ UNCHANGED <<kv, task, owner, status>>
    BY <1>12 DEF PollDone
  <2>2. CASE DropPending(p, cache[s])
    BY <1>11, <2>1, <2>2, PollHas
  <2>3. CASE poll' = [poll EXCEPT ![p] = IdlePoll] /\ UNCHANGED cache
    BY <1>2, <1>4, <2>1, <2>3, IdleOwned
  <2>4. CASE poll' = [poll EXCEPT ![p].pc = "clearing", ![p].blob = Read(s, ok)]
             /\ UNCHANGED cache
    BY <1>8, <2>1, <2>4
  <2>5. QED
    BY <1>12, <2>2, <2>3, <2>4 DEF PollDone
<1>13. CASE PollClear(p)
  <2>1. poll[p].pc # "idle" /\ UNCHANGED <<kv, task, owner, status>>
    BY <1>13 DEF PollClear
  <2>2. CASE DropPending(p, b)
    BY <1>11, <2>1, <2>2, PollHas
  <2>3. CASE Fill(s, b) /\ poll' = [poll EXCEPT ![p] = IdlePoll]
    <3>1. \A r \in Subs : OwnedBlob(cache'[r], r, owner)
      BY <1>1, <2>1, <2>3, PollHas, FillOwned
    <3>2. QED
      BY <1>2, <1>4, <2>1, <2>3, <3>1, IdleOwned
  <2>4. QED
    BY <1>13, <2>2, <2>3 DEF PollClear
<1>14. ASSUME NEW ok \in BOOLEAN, PollDropped(p, ok) PROVE OwnerInv'
  <2>1. poll[p].pc # "idle" /\ Write(s, b, ok) /\ poll' = [poll EXCEPT ![p] = IdlePoll]
        /\ UNCHANGED <<cache, task, owner, status>>
    BY <1>14 DEF PollDropped
  <2>2. \A r \in Subs : OwnedBlob(kv'[r], r, owner)
    BY <1>1, <2>1, PollHas, WriteOwned
  <2>3. QED
    BY <1>2, <1>4, <2>1, <2>2, IdleOwned
<1>15. QED
  BY <1>5, <1>6, <1>7, <1>9, <1>10, <1>12, <1>13, <1>14 DEF PollStep, PollAdvances

\* A running task that moves on to a blob of its sub.
LEMMA MoveTaskOwned ==
  ASSUME TypeOK, NEW t \in Tasks, NEW o,
         NEW pc \in TaskPc \ {"idle"}, NEW e \in Emails \cup {None}, NEW c \in Code,
         NEW b \in Blob \cup {None}, OwnedBlob(b, task[t].sub, o),
         pc = "persisting" => o[c] = <<task[t].sub, e>>
  PROVE  TaskOwned(MovedTask(t, pc, e, c, b), o)
<1>1. TaskTypeOK /\ pc \in TaskPc /\ pc # "idle"
  BY DEF TypeOK
<1>2. QED
  BY <1>1, MovedTaskFields DEF TaskOwned

\* What a step of task t has at hand.
LEMMA TaskHas ==
  ASSUME TypeOK, OwnerInv, NEW t \in Tasks, task[t].pc # "idle"
  PROVE  /\ task[t].sub \in Subs
         /\ task[t].email \in Emails \cup {None} /\ task[t].code \in Code
         /\ task[t].blob \in Blob \cup {None}
         /\ OwnedBlob(task[t].blob, task[t].sub, owner)
         /\ cache[task[t].sub] \in Blob \cup {None}
         /\ OwnedBlob(cache[task[t].sub], task[t].sub, owner)
         /\ \A ok \in BOOLEAN : /\ Read(task[t].sub, ok) \in Blob \cup {None}
                                /\ OwnedBlob(Read(task[t].sub, ok), task[t].sub, owner)
<1>1. TaskTypeOK /\ StoreTypeOK /\ StoreOwned(owner) /\ TaskOwned(task[t], owner)
  BY DEF TypeOK, OwnerInv
<1>2. /\ task[t].sub \in Subs
      /\ task[t].email \in Emails \cup {None} /\ task[t].code \in Code
      /\ task[t].blob \in Blob \cup {None}
  BY <1>1, TaskFields DEF TaskTypeOK, TaskState
<1>3. cache[task[t].sub] \in Blob \cup {None}
  BY <1>1, <1>2 DEF StoreTypeOK
<1>4. OwnedBlob(cache[task[t].sub], task[t].sub, owner)
  BY <1>1, <1>2 DEF StoreOwned
<1>5. \A ok \in BOOLEAN : /\ Read(task[t].sub, ok) \in Blob \cup {None}
                          /\ OwnedBlob(Read(task[t].sub, ok), task[t].sub, owner)
  BY <1>1, <1>2, ReadType, ReadOwned
<1>6. QED
  BY <1>1, <1>2, <1>3, <1>4, <1>5 DEF TaskOwned

\* Who owned what before a code is issued owns it afterwards: no blob, poll or task
\* has the new code.
LEMMA CodeIssuedKeeps ==
  ASSUME TypeOK, OwnerInv, NoneAssumption, NEW t \in Tasks, NEW c \in Codes,
         NEW p \in Polls, NEW ok \in BOOLEAN, CodeIssued(t, c, p, ok)
  PROVE  /\ owner'[c] = <<task[t].sub, task[t].email>>
         /\ \A r \in Subs : \A b \in Blob \cup {None} :
              OwnedBlob(b, r, owner) => OwnedBlob(b, r, owner')
         /\ \A q \in Polls : PollOwned(poll[q], owner')
         /\ \A u \in Tasks : TaskOwned(task[u], owner')
         /\ \A d \in Codes : status'[d] = "unissued" => owner'[d] = None
<1>1. owner[c] = None /\ owner'[c] = <<task[t].sub, task[t].email>>
      /\ \A d \in Codes : d # c => owner'[d] = owner[d]
  BY DEF CodeIssued, OwnerInv, TypeOK, CodeTypeOK
<1>2. \A d \in Codes : owner[d] # None => owner'[d] = owner[d]
  BY <1>1
<1>3. ASSUME NEW r \in Subs, NEW b \in Blob \cup {None}, OwnedBlob(b, r, owner)
      PROVE  OwnedBlob(b, r, owner')
  BY <1>2, <1>3, OwnerGrows DEF NoneAssumption
<1>4. ASSUME NEW q \in Polls PROVE PollOwned(poll[q], owner')
  <2>1. PollOwned(poll[q], owner)
    BY DEF OwnerInv
  <2>2. CASE poll[q].pc = "idle"
    BY <2>1, <2>2, NoBlobOwned DEF PollOwned
  <2>3. CASE poll[q].pc # "idle"
    <3>1. /\ poll[q].sub \in Subs /\ poll[q].email \in Emails /\ poll[q].code \in Codes
          /\ poll[q].blob \in Blob \cup {None}
          /\ OwnedBlob(poll[q].blob, poll[q].sub, owner)
          /\ owner[poll[q].code] = <<poll[q].sub, poll[q].email>>
      BY <2>3, PollHas
    <3>2. owner'[poll[q].code] = <<poll[q].sub, poll[q].email>>
      BY <1>2, <3>1 DEF NoneAssumption
    <3>3. OwnedBlob(poll[q].blob, poll[q].sub, owner')
      BY <1>3, <3>1
    <3>4. QED
      BY <2>3, <3>2, <3>3 DEF PollOwned
  <2>4. QED
    BY <2>2, <2>3
<1>5. ASSUME NEW u \in Tasks PROVE TaskOwned(task[u], owner')
  <2>1. TaskOwned(task[u], owner)
    BY DEF OwnerInv
  <2>2. CASE task[u].pc = "idle"
    BY <2>1, <2>2, NoBlobOwned DEF TaskOwned
  <2>3. CASE task[u].pc # "idle"
    <3>1. OwnedBlob(task[u].blob, task[u].sub, owner')
      BY <1>3, <2>3, TaskHas
    <3>2. task[u].pc = "persisting" =>
            owner'[task[u].code] = <<task[u].sub, task[u].email>>
      BY <1>2, <2>1, <2>3, TaskFields DEF TaskOwned, NoneAssumption, TypeOK
    <3>3. QED
      BY <2>3, <3>1, <3>2 DEF TaskOwned
  <2>4. QED
    BY <2>2, <2>3
<1>6. \A d \in Codes : status'[d] = "unissued" => owner'[d] = None
  BY <1>1 DEF CodeIssued, TypeOK, CodeTypeOK, OwnerInv
<1>7. QED
  BY <1>1, <1>3, <1>4, <1>5, <1>6

\* A new code belongs to the sub and email it was requested for.
LEMMA CodeIssuedOwned ==
  ASSUME TypeOK, OwnerInv, NoneAssumption, NEW t \in Tasks, NEW c \in Codes,
         NEW p \in Polls, NEW ok \in BOOLEAN, CodeIssued(t, c, p, ok)
  PROVE  OwnerInv'
<1> DEFINE s == task[t].sub
           e == task[t].email
<1>1. task[t].pc = "requesting" /\ s \in Subs /\ e \in Emails
  BY TaskFields DEF CodeIssued, TypeOK
<1>2. owner'[c] = <<s, e>>
  BY CodeIssuedKeeps
<1>3. StoreOwned(owner')
  <2>1. \A r \in Subs : kv[r] \in Blob \cup {None} /\ cache[r] \in Blob \cup {None}
    BY DEF TypeOK, StoreTypeOK
  <2>2. QED
    BY <2>1, CodeIssuedKeeps DEF OwnerInv, StoreOwned
<1>4. \A q \in Polls : PollOwned(poll'[q], owner')
  <2>1. poll' = [poll EXCEPT ![p] = StartedPoll(c, s, e)]
    BY DEF CodeIssued
  <2>2. PollOwned(StartedPoll(c, s, e), owner')
    BY <1>2, NoBlobOwned DEF PollOwned, StartedPoll
  <2>3. \A q \in Polls : poll'[q] = IF q = p THEN StartedPoll(c, s, e) ELSE poll[q]
    BY <2>1 DEF TypeOK, PollTypeOK
  <2>4. QED
    BY <2>2, <2>3, CodeIssuedKeeps
<1>5. ASSUME NEW pc \in {"storing", "persisting"}, NEW d \in Blob \cup {None},
             OwnedBlob(d, s, owner'),
             task' = [task EXCEPT ![t].pc = pc, ![t].code = c, ![t].blob = d]
      PROVE  \A u \in Tasks : TaskOwned(task'[u], owner')
  <2>1. task' = [task EXCEPT ![t] = MovedTask(t, pc, e, c, d)]
    BY <1>5 DEF TypeOK, TaskTypeOK, TaskState, MovedTask
  <2>2. pc \in TaskPc \ {"idle"} /\ c \in Code /\ e \in Emails \cup {None}
    BY <1>1 DEF TaskPc, Code
  <2>3. TaskOwned(MovedTask(t, pc, e, c, d), owner')
    BY <1>2, <1>5, <2>2, MoveTaskOwned
  <2>4. \A u \in Tasks : task'[u] = IF u = t THEN MovedTask(t, pc, e, c, d) ELSE task[u]
    BY <2>1 DEF TypeOK, TaskTypeOK
  <2>5. QED
    BY <2>3, <2>4, CodeIssuedKeeps
<1>6. /\ \A u \in Tasks : TaskOwned(task'[u], owner')
      /\ \A r \in Subs : OwnedBlob(cache'[r], r, owner')
  <2>1. CASE Warm(s)
    <3> DEFINE d == WithPending(cache[s], c)
    <3>1. cache[s] \in Blob \cup {None} /\ OwnedBlob(cache[s], s, owner')
      BY <1>1, <1>3 DEF StoreOwned, TypeOK, StoreTypeOK
    <3>2. d \in Blob /\ OwnedBlob(d, s, owner')
      BY <1>1, <1>2, <3>1, WithPendingType, WithPendingOwned
    <3>3. Cache(s, d)
          /\ task' = [task EXCEPT ![t].pc = "storing", ![t].code = c, ![t].blob = d]
      BY <2>1 DEF CodeIssued
    <3> HIDE DEF d
    <3>4. \A r \in Subs : OwnedBlob(cache'[r], r, owner')
      BY <1>1, <1>3, <3>2, <3>3, CacheOwned DEF TypeOK
    <3>5. QED
      BY <1>5, <3>2, <3>3, <3>4
  <2>2. CASE ~Warm(s)
    <3>1. Read(s, ok) \in Blob \cup {None} /\ OwnedBlob(Read(s, ok), s, owner')
      BY <1>1, <1>3, ReadType, ReadOwned DEF TypeOK
    <3>2. task' = [task EXCEPT ![t].pc = "persisting", ![t].code = c,
                               ![t].blob = Read(s, ok)]
          /\ cache' = cache
      BY <2>2 DEF CodeIssued
    <3>3. QED
      BY <1>3, <1>5, <3>1, <3>2 DEF StoreOwned
  <2>3. QED
    BY <2>1, <2>2
<1>7. kv' = kv
  BY DEF CodeIssued
<1>8. StoreOwned(owner)'
  BY <1>3, <1>6, <1>7 DEF StoreOwned
<1>9. QED
  BY <1>4, <1>6, <1>8, CodeIssuedKeeps DEF OwnerInv

\* The steps of the form and of tool calls keep ownership.
LEMMA TaskStepOwned ==
  ASSUME TypeOK, OwnerInv, NoneAssumption, NEW t \in Tasks, TaskStep(t)
  PROVE  OwnerInv'
<1> DEFINE s == task[t].sub
           e == task[t].email
           b == task[t].blob
<1>1. StoreOwned(owner) /\ StoreTypeOK /\ TaskTypeOK
  BY DEF OwnerInv, TypeOK
<1>2. /\ kv' = kv => \A r \in Subs : OwnedBlob(kv'[r], r, owner)
      /\ cache' = cache => \A r \in Subs : OwnedBlob(cache'[r], r, owner)
  BY <1>1 DEF StoreOwned
<1>3. ASSUME Finish(t), UNCHANGED <<poll, owner, status>>,
             \A r \in Subs : OwnedBlob(kv'[r], r, owner),
             \A r \in Subs : OwnedBlob(cache'[r], r, owner)
      PROVE  OwnerInv'
  BY <1>3, IdleOwned, TaskUpdateOwned DEF Finish
<1>4. ASSUME NEW pc \in TaskPc \ {"idle", "persisting"}, NEW f \in Emails \cup {None},
             NEW d \in Blob \cup {None}, OwnedBlob(d, s, owner), task[t].pc # "idle",
             task' = [task EXCEPT ![t] = MovedTask(t, pc, f, task[t].code, d)],
             UNCHANGED <<poll, owner, status>>,
             \A r \in Subs : OwnedBlob(kv'[r], r, owner),
             \A r \in Subs : OwnedBlob(cache'[r], r, owner)
      PROVE  OwnerInv'
  <2>1. pc \in TaskPc \ {"idle"} /\ pc # "persisting" /\ task[t].code \in Code
    BY <1>4, TaskHas
  <2>2. TaskOwned(MovedTask(t, pc, f, task[t].code, d), owner)
    BY <1>4, <2>1, MoveTaskOwned
  <2>3. QED
    BY <1>4, <2>2, TaskUpdateOwned
<1>5. ASSUME NEW ok \in BOOLEAN, FormStored(t, ok) PROVE OwnerInv'
  <2>1. task[t].pc # "idle" /\ Write(s, b, ok) /\ UNCHANGED <<cache, poll, owner, status>>
    BY <1>5 DEF FormStored
  <2>2. \A r \in Subs : OwnedBlob(kv'[r], r, owner)
    BY <1>1, <2>1, TaskHas, WriteOwned
  <2>3. CASE Finish(t)
    BY <1>2, <1>3, <2>1, <2>2, <2>3
  <2>4. CASE task' = [task EXCEPT ![t].pc = "checking", ![t].blob = None]
    <3>1. task' = [task EXCEPT ![t] = MovedTask(t, "checking", e, task[t].code, None)]
      BY <1>1, <2>4 DEF TaskTypeOK, TaskState, MovedTask
    <3>2. "checking" \in TaskPc \ {"idle", "persisting"} /\ e \in Emails \cup {None}
          /\ None \in Blob \cup {None} /\ OwnedBlob(None, s, owner)
      BY <2>1, TaskHas, NoBlobOwned DEF TaskPc
    <3>3. QED
      BY <1>2, <1>4, <2>1, <2>2, <3>1, <3>2
  <2>5. QED
    BY <1>5, <2>3, <2>4 DEF FormStored
<1>6. ASSUME NEW ok \in BOOLEAN, Persisted(t, ok) PROVE OwnerInv'
  <2>1. task[t].pc # "idle" /\ Write(s, b, ok) /\ Finish(t)
        /\ UNCHANGED <<cache, poll, owner, status>>
    BY <1>6 DEF Persisted
  <2>2. \A r \in Subs : OwnedBlob(kv'[r], r, owner)
    BY <1>1, <2>1, TaskHas, WriteOwned
  <2>3. QED
    BY <1>2, <1>3, <2>1, <2>2
<1>7. CASE FormReuse(t)
  BY <1>2, <1>3, <1>7 DEF FormReuse, store
<1>8. CASE RequestFails(t)
  BY <1>2, <1>3, <1>8 DEF RequestFails, store
<1>9. CASE FormRequest(t)
  <2>1. task' = [task EXCEPT ![t] = MovedTask(t, "requesting", e, task[t].code, b)]
        /\ UNCHANGED <<kv, cache, poll, owner, status>> /\ task[t].pc # "idle"
    BY <1>1, <1>9 DEF FormRequest, TaskTypeOK, TaskState, MovedTask, store
  <2>2. "requesting" \in TaskPc \ {"idle", "persisting"}
    BY DEF TaskPc
  <2>3. QED
    BY <1>2, <1>4, <2>1, <2>2, TaskHas
<1>10. ASSUME NEW f \in Emails, RequestUnread(t, f) PROVE OwnerInv'
  <2>1. task' = [task EXCEPT ![t] = MovedTask(t, "requesting", f, task[t].code, b)]
        /\ UNCHANGED <<kv, cache, poll, owner, status>> /\ task[t].pc # "idle"
    BY <1>1, <1>10 DEF RequestUnread, TaskTypeOK, TaskState, MovedTask, store
  <2>2. "requesting" \in TaskPc \ {"idle", "persisting"} /\ f \in Emails \cup {None}
    BY DEF TaskPc
  <2>3. QED
    BY <1>2, <1>4, <2>1, <2>2, TaskHas
<1>11. CASE Loaded(t)
  <2>1. task[t].pc # "idle" /\ Fill(s, b) /\ Finish(t)
        /\ UNCHANGED <<kv, poll, owner, status>>
    BY <1>11 DEF Loaded
  <2>2. \A r \in Subs : OwnedBlob(cache'[r], r, owner)
    BY <1>1, <2>1, TaskHas, FillOwned
  <2>3. QED
    BY <1>2, <1>3, <2>1, <2>2
<1>12. CASE Persist(t)
  <2> DEFINE d == WithPending(b, task[t].code)
  <2>1. /\ task[t].pc = "persisting" /\ Cache(s, d)
        /\ task' = [task EXCEPT ![t].pc = "storing", ![t].blob = d]
        /\ UNCHANGED <<kv, poll, owner, status>>
    BY <1>12 DEF Persist
  <2>2. /\ s \in Subs /\ e \in Emails /\ task[t].code \in Codes /\ b \in Blob \cup {None}
        /\ owner[task[t].code] = <<s, e>> /\ OwnedBlob(b, s, owner)
    BY <1>1, <2>1, TaskFields DEF OwnerInv, TaskOwned
  <2>3. d \in Blob \cup {None} /\ OwnedBlob(d, s, owner)
    BY <2>2, WithPendingType, WithPendingOwned
  <2> HIDE DEF d
  <2>4. task' = [task EXCEPT ![t] = MovedTask(t, "storing", e, task[t].code, d)]
    BY <1>1, <2>1 DEF TaskTypeOK, TaskState, MovedTask
  <2>5. \A r \in Subs : OwnedBlob(cache'[r], r, owner)
    BY <1>1, <2>1, <2>2, <2>3, CacheOwned
  <2>6. "storing" \in TaskPc \ {"idle", "persisting"} /\ e \in Emails \cup {None}
        /\ task[t].pc # "idle"
    BY <2>1, <2>2 DEF TaskPc
  <2>7. QED
    BY <1>2, <1>4, <2>1, <2>3, <2>4, <2>5, <2>6
<1>13. ASSUME NEW kept \in SUBSET Emails, NEW ok \in BOOLEAN, ResetDone(t, kept, ok)
       PROVE  OwnerInv'
  <2>1. s \in Subs /\ Write(s, None, ok) /\ Finish(t)
        /\ UNCHANGED <<cache, poll, owner, status>>
    BY <1>13, TaskHas DEF ResetDone
  <2>2. \A r \in Subs : OwnedBlob(kv'[r], r, owner)
    BY <1>1, <2>1, NoBlobOwned, WriteOwned
  <2>3. QED
    BY <1>2, <1>3, <2>1, <2>2
<1>14. QED
  BY <1>5, <1>6, <1>7, <1>8, <1>9, <1>10, <1>11, <1>12, <1>13, CodeIssuedOwned DEF TaskStep

\* The steps of users and sessions keep ownership.
LEMMA UserStepOwned ==
  ASSUME TypeOK, OwnerInv, UserStep
  PROVE  OwnerInv'
<1>1. StoreOwned(owner) /\ StoreTypeOK
  BY DEF OwnerInv, TypeOK
<1>2. /\ kv' = kv => \A r \in Subs : OwnedBlob(kv'[r], r, owner)
      /\ cache' = cache => \A r \in Subs : OwnedBlob(cache'[r], r, owner)
  BY <1>1 DEF StoreOwned
<1>3. ASSUME NEW t \in Tasks, NEW pc \in {"submitting", "loading", "requesting", "resetting"},
             NEW s \in Subs, NEW e, NEW b, Begin(t, pc, s, e, b), OwnedBlob(b, s, owner),
             \A r \in Subs : OwnedBlob(cache'[r], r, owner),
             UNCHANGED <<kv, poll, owner, status>>
      PROVE  OwnerInv'
  <2> DEFINE x == [pc |-> pc, sub |-> s, email |-> e, code |-> None, blob |-> b]
  <2>1. TaskOwned(x, owner)
    BY <1>3 DEF TaskOwned
  <2>2. task' = [task EXCEPT ![t] = x]
    BY <1>3 DEF Begin
  <2> HIDE DEF x
  <2>3. QED
    BY <1>2, <1>3, <2>1, <2>2, TaskUpdateOwned
<1>4. ASSUME NEW t \in Tasks, NEW s \in Subs, NEW A \in SUBSET Emails,
             NEW e \in Emails, FormSubmit(t, s, A, e)
      PROVE  OwnerInv'
  <2> DEFINE form == [EmptyBlob EXCEPT !.accounts = A]
  <2>1. Begin(t, "submitting", s, e, form) /\ Cache(s, form)
        /\ UNCHANGED <<kv, poll, owner, status>>
    BY <1>4 DEF FormSubmit
  <2>2. OwnedBlob(form, s, owner)
    BY FormBlobOwned
  <2> HIDE DEF form
  <2>3. \A r \in Subs : OwnedBlob(cache'[r], r, owner)
    BY <1>1, <2>1, <2>2, CacheOwned
  <2>4. QED
    BY <1>3, <2>1, <2>2, <2>3
<1>5. ASSUME NEW t \in Tasks, NEW s \in Subs, NEW ok \in BOOLEAN, StartLoad(t, s, ok)
      PROVE  OwnerInv'
  <2>1. Begin(t, "loading", s, None, Read(s, ok)) /\ UNCHANGED <<kv, cache, poll, owner, status>>
    BY <1>5 DEF StartLoad
  <2>2. OwnedBlob(Read(s, ok), s, owner)
    BY <1>1, ReadOwned
  <2>3. QED
    BY <1>2, <1>3, <2>1, <2>2
<1>6. ASSUME NEW s \in Subs, NEW e \in Emails, NEW p \in Polls, ResumePoll(s, e, p)
      PROVE  OwnerInv'
  <2> DEFINE c == cache[s].pending
  <2>1. cache[s] \in Blob /\ cache[s] # None /\ c \in Codes /\ c # None /\ owner[c][2] = e
    BY <1>1, <1>6
    DEF ResumePoll, NeedsSignIn, Warm, Resumable, Live, StoreTypeOK, Blob, Code
  <2>2. owner[c] # None /\ owner[c][1] = s /\ owner[c] \in (Subs \X Emails) \cup {None}
    BY <1>1, <2>1 DEF StoreOwned, OwnedBlob, TypeOK, CodeTypeOK
  <2>3. owner[c] = <<s, e>>
    BY <2>1, <2>2
  <2>4. PollOwned(StartedPoll(c, s, e), owner)
    BY <2>3, NoBlobOwned DEF PollOwned, StartedPoll
  <2>5. poll' = [poll EXCEPT ![p] = StartedPoll(c, s, e)]
        /\ UNCHANGED <<kv, cache, task, owner, status>>
    BY <1>6 DEF ResumePoll, store
  <2>6. QED
    BY <1>2, <2>4, <2>5, PollUpdateOwned
<1>7. ASSUME NEW t \in Tasks, NEW s \in Subs, NEW e \in Emails, RequestCode(t, s, e)
      PROVE  OwnerInv'
  BY <1>2, <1>3, <1>7, NoBlobOwned DEF RequestCode, store
<1>8. ASSUME NEW c \in Codes, NEW d \in Status, Decide(c, d) PROVE OwnerInv'
  BY <1>8 DEF Decide, store, OwnerInv, StoreOwned, TypeOK, CodeTypeOK
<1>9. ASSUME NEW t \in Tasks, NEW s \in Subs, StartReset(t, s) PROVE OwnerInv'
  <2>1. Begin(t, "resetting", s, None, None) /\ UNCHANGED <<kv, poll, owner, status>>
    BY <1>9 DEF StartReset
  <2>2. \A r \in Subs : cache'[r] \in {cache[r], None}
    BY <1>9 DEF StartReset, TypeOK, StoreTypeOK
  <2>3. \A r \in Subs : OwnedBlob(cache'[r], r, owner)
    BY <1>1, <2>2, NoBlobOwned DEF StoreOwned
  <2>4. QED
    BY <1>3, <2>1, <2>3, NoBlobOwned
<1>10. QED
  BY <1>4, <1>5, <1>6, <1>7, <1>8, <1>9 DEF UserStep

\* Every step keeps ownership.
LEMMA NextOwned ==
  ASSUME TypeOK, OwnerInv, NoneAssumption, [Next]_vars
  PROVE  OwnerInv'
<1>1. ASSUME NEW c \in Codes, Lapse(c) PROVE OwnerInv'
  BY <1>1 DEF Lapse, store, OwnerInv, StoreOwned
<1>2. CASE Restart
  <2>1. \A r \in Subs : OwnedBlob(cache'[r], r, owner)
    BY <1>2 DEF Restart, OwnedBlob
  <2>2. (\A p \in Polls : PollOwned(poll'[p], owner))
        /\ (\A t \in Tasks : TaskOwned(task'[t], owner))
    BY <1>2, IdleOwned DEF Restart
  <2>3. QED
    BY <1>2, <2>1, <2>2 DEF Restart, OwnerInv, StoreOwned
<1>3. CASE UNCHANGED vars
  BY <1>3 DEF vars, OwnerInv, StoreOwned
<1>4. QED
  BY <1>1, <1>2, <1>3, TaskStepOwned, PollStepOwned, UserStepOwned DEF Next

\* Whatever the number of subs, mailboxes, polls and restarts, a token or pending
\* session in a blob of a sub, cached, durable or in flight, was requested by that sub,
\* and a token is kept under the mailbox it was requested for: polls capture the sub
\* and email at the start and a resumed poll takes both from the blob it was found in.
THEOREM TokensOwned == Spec => []TokensOfOwner
<1>1. Init => OwnerInv
  BY DEF Init, OwnerInv, StoreOwned, PollOwned, TaskOwned, OwnedBlob, IdlePoll, IdleTask
<1>2. TypeOK /\ OwnerInv /\ [Next]_vars => OwnerInv'
  BY NextOwned, NoneAssumption
<1>3. OwnerInv => TokensOfOwner
  BY DEF OwnerInv, StoreOwned, PollOwned, TaskOwned, OwnedBlob, TokensOfOwner, BlobOfOwner
<1>4. QED
  BY <1>1, <1>2, <1>3, TypeCorrect, PTL DEF Spec

-----------------------------------------------------------------------------
(* Merges lose nothing while no two store requests of a sub overlap and none *)
(* fails.                                                                    *)

\* What holds of a poll or task x that has a store request in flight and is alone in
\* that: c is what the cache holds of its sub and k what KV does.
Alone(x, c, k) ==
  /\ x.pc \in {"submitting", "storing", "dropping"} => c = x.blob
  /\ x.pc \in {"storing", "dropping"} => (Trusted(k) # None => Keeps(k, x.blob))
  /\ x.pc \in {"persisting", "loading", "merging", "clearing"} =>
       c = None /\ x.blob = Trusted(k)
  /\ x.pc = "resetting" => c = None

\* A sub whose store requests have not raced: at most one is in flight, which read
\* the blob KV still holds or cached the one it is about to write, and with none in
\* flight the cache agrees with KV.
Calm(s) ==
  /\ ~Overlap(s)
  /\ TasksAt(s) = {} /\ PollsAt(s) = {} => cache[s] \in {None, kv[s]}
  /\ \A t \in TasksAt(s) : Alone(task[t], cache[s], kv[s])
  /\ \A p \in PollsAt(s) : Alone(poll[p], cache[s], kv[s])

MergeInv == \A s \in Subs : s \notin raced => Calm(s)

TaskFlow == {"submitting", "persisting", "storing", "loading", "resetting"}
PollFlow == {"merging", "storing", "clearing", "dropping"}

\* The tasks and polls with a request in flight, before and after a step.
LEMMA Flows ==
  ASSUME NEW s
  PROVE  /\ TasksAt(s) = {t \in Tasks : task[t].sub = s /\ task[t].pc \in TaskFlow}
         /\ PollsAt(s) = {p \in Polls : poll[p].sub = s /\ poll[p].pc \in PollFlow}
         /\ TasksAt(s)' = {t \in Tasks : task'[t].sub = s /\ task'[t].pc \in TaskFlow}
         /\ PollsAt(s)' = {p \in Polls : poll'[p].sub = s /\ poll'[p].pc \in PollFlow}
BY DEF TasksAt, PollsAt, TaskFlow, PollFlow

\* A blob that a merge starts from keeps its accounts and tokens in what is saved.
LEMMA MergesKeep ==
  ASSUME NEW b \in Blob, b.accounts # None, NEW c \in Codes, NEW e \in Emails
  PROVE  /\ Keeps(b, WithToken(b, e, c))
         /\ Keeps(b, WithPending(b, c))
         /\ Keeps(b, WithoutPending(b))
<1>1. b # None /\ c # None
  BY NoneIsNoBlob, NoneAssumption
<1>2. ASSUME NEW m \in Blob, m.accounts = b.accounts,
             \A f \in Emails : b.tokens[f] # None => m.tokens[f] # None
      PROVE  Keeps(b, m)
  BY <1>1, <1>2, NoneIsNoBlob DEF Keeps, Accounts
<1>3. /\ WithToken(b, e, c) \in Blob /\ WithPending(b, c) \in Blob
      /\ WithoutPending(b) \in Blob
  BY WithTokenType, WithPendingType, WithoutPendingType
<1>4. /\ WithToken(b, e, c).accounts = b.accounts
      /\ \A f \in Emails : b.tokens[f] # None => WithToken(b, e, c).tokens[f] # None
  BY <1>1 DEF WithToken, Blob
<1>5. WithPending(b, c).accounts = b.accounts /\ WithPending(b, c).tokens = b.tokens
  BY <1>1 DEF WithPending, Blob
<1>6. WithoutPending(b).accounts = b.accounts /\ WithoutPending(b).tokens = b.tokens
  BY DEF WithoutPending, Blob
<1>7. QED
  BY <1>2, <1>3, <1>4, <1>5, <1>6

\* The merges of a blob b that is the trusted one of KV, or of a cached one that is
\* KV's, are what a PUT in flight should hold.
LEMMA MergesAlone ==
  ASSUME TypeOK, NEW s \in Subs, NEW b, b \in {Trusted(kv[s]), kv[s]},
         NEW c \in Codes, NEW e \in Emails
  PROVE  Trusted(kv[s]) # None =>
           /\ Keeps(kv[s], WithToken(b, e, c))
           /\ Keeps(kv[s], WithPending(b, c))
           /\ Keeps(kv[s], WithoutPending(b))
<1> SUFFICES ASSUME Trusted(kv[s]) # None
             PROVE  /\ Keeps(kv[s], WithToken(b, e, c))
                    /\ Keeps(kv[s], WithPending(b, c))
                    /\ Keeps(kv[s], WithoutPending(b))
  OBVIOUS
<1>1. kv[s] # None /\ kv[s].accounts # None /\ b = kv[s]
  BY DEF Trusted
<1>2. kv[s] \in Blob
  BY <1>1 DEF TypeOK, StoreTypeOK
<1>3. QED
  BY <1>1, <1>2, MergesKeep

\* A sub is calm again when one request is in flight and in order, when none is and
\* the cache agrees with KV, or when the step was not about it.
LEMMA CalmByTask ==
  ASSUME NEW s, ~Overlap(s)', NEW t \in Tasks, task'[t].sub = s, task'[t].pc \in TaskFlow,
         Alone(task'[t], cache'[s], kv'[s])
  PROVE  Calm(s)'
<1>1. t \in TasksAt(s)'
  BY Flows
<1>2. TasksAt(s)' = {t} /\ PollsAt(s)' = {}
  BY <1>1 DEF Overlap
<1>3. QED
  BY <1>1, <1>2 DEF Calm

LEMMA CalmByPoll ==
  ASSUME NEW s, ~Overlap(s)', NEW p \in Polls, poll'[p].sub = s, poll'[p].pc \in PollFlow,
         Alone(poll'[p], cache'[s], kv'[s])
  PROVE  Calm(s)'
<1>1. p \in PollsAt(s)'
  BY Flows
<1>2. PollsAt(s)' = {p} /\ TasksAt(s)' = {}
  BY <1>1 DEF Overlap
<1>3. QED
  BY <1>1, <1>2 DEF Calm

LEMMA CalmBySettling ==
  ASSUME NEW s, Settled(s)'
  PROVE  Calm(s)'
BY DEF Settled, Calm, Overlap

LEMMA CalmElsewhere ==
  ASSUME NEW s, Calm(s), cache'[s] = cache[s], kv'[s] = kv[s],
         \A t \in Tasks : \/ task'[t] = task[t]
                          \/ /\ task[t].sub # s \/ task[t].pc \notin TaskFlow
                             /\ task'[t].sub # s \/ task'[t].pc \notin TaskFlow,
         \A p \in Polls : \/ poll'[p] = poll[p]
                          \/ /\ poll[p].sub # s \/ poll[p].pc \notin PollFlow
                             /\ poll'[p].sub # s \/ poll'[p].pc \notin PollFlow
  PROVE  Calm(s)'
<1>1. TasksAt(s)' = TasksAt(s) /\ PollsAt(s)' = PollsAt(s)
  <2>1. \A t \in Tasks : t \in TasksAt(s)' <=> t \in TasksAt(s)
    BY Flows
  <2>2. \A p \in Polls : p \in PollsAt(s)' <=> p \in PollsAt(s)
    BY Flows
  <2>3. TasksAt(s) \cup TasksAt(s)' \subseteq Tasks /\ PollsAt(s) \cup PollsAt(s)' \subseteq Polls
    BY Flows
  <2>4. QED
    BY <2>1, <2>2, <2>3
<1>2. /\ \A t \in TasksAt(s) : task'[t] = task[t]
      /\ \A p \in PollsAt(s) : poll'[p] = poll[p]
  BY Flows
<1>3. Overlap(s)' <=> Overlap(s)
  BY <1>1 DEF Overlap
<1>4. QED
  BY <1>1, <1>2, <1>3 DEF Calm

\* A task of s that is in flight is the only one.
LEMMA OnlyTask ==
  ASSUME NEW s, Calm(s), NEW t \in Tasks, task[t].sub = s, task[t].pc \in TaskFlow
  PROVE  TasksAt(s) = {t} /\ PollsAt(s) = {} /\ Alone(task[t], cache[s], kv[s])
<1>1. t \in TasksAt(s)
  BY Flows
<1>2. QED
  BY <1>1 DEF Calm, Overlap

LEMMA OnlyPoll ==
  ASSUME NEW s, Calm(s), NEW p \in Polls, poll[p].sub = s, poll[p].pc \in PollFlow
  PROVE  PollsAt(s) = {p} /\ TasksAt(s) = {} /\ Alone(poll[p], cache[s], kv[s])
<1>1. p \in PollsAt(s)
  BY Flows
<1>2. QED
  BY <1>1 DEF Calm, Overlap

\* A request that starts when none may be in flight beside it finds the cache in
\* agreement with KV.
LEMMA TaskStarts ==
  ASSUME NEW s, Calm(s), ~Overlap(s)', NEW t \in Tasks,
         task[t].sub # s \/ task[t].pc \notin TaskFlow,
         task'[t].sub = s, task'[t].pc \in TaskFlow,
         \A u \in Tasks : u = t \/ task'[u] = task[u],
         \A p \in Polls : poll'[p] = poll[p] \/ poll[p].pc \notin PollFlow
  PROVE  cache[s] \in {None, kv[s]}
<1>1. t \in TasksAt(s)' /\ t \notin TasksAt(s)
  BY Flows
<1>2. TasksAt(s) \subseteq TasksAt(s)' /\ PollsAt(s) \subseteq PollsAt(s)'
  BY <1>1, Flows
<1>3. TasksAt(s) = {} /\ PollsAt(s) = {}
  BY <1>1, <1>2 DEF Overlap
<1>4. QED
  BY <1>3 DEF Calm

LEMMA PollStarts ==
  ASSUME NEW s, Calm(s), ~Overlap(s)', NEW p \in Polls,
         poll[p].sub # s \/ poll[p].pc \notin PollFlow,
         poll'[p].sub = s, poll'[p].pc \in PollFlow,
         \A q \in Polls : q = p \/ poll'[q] = poll[q],
         UNCHANGED task
  PROVE  cache[s] \in {None, kv[s]}
<1>1. p \in PollsAt(s)' /\ p \notin PollsAt(s)
  BY Flows
<1>2. TasksAt(s) \subseteq TasksAt(s)' /\ PollsAt(s) \subseteq PollsAt(s)'
  BY <1>1, Flows
<1>3. TasksAt(s) = {} /\ PollsAt(s) = {}
  BY <1>1, <1>2 DEF Overlap
<1>4. QED
  BY <1>3 DEF Calm

\* The only request of s ends and leaves the cache in agreement with KV.
LEMMA TaskEnds ==
  ASSUME NEW s, Calm(s), NEW t \in Tasks, task[t].sub = s, task[t].pc \in TaskFlow,
         task'[t].sub # s \/ task'[t].pc \notin TaskFlow,
         \A u \in Tasks : u = t \/ task'[u] = task[u],
         UNCHANGED poll, cache'[s] \in {None, kv'[s]}
  PROVE  Calm(s)'
<1>1. TasksAt(s) = {t} /\ PollsAt(s) = {}
  BY OnlyTask
<1>2. TasksAt(s)' = {} /\ PollsAt(s)' = {}
  BY <1>1, Flows
<1>3. QED
  BY <1>2, CalmBySettling DEF Settled

LEMMA PollEnds ==
  ASSUME NEW s, Calm(s), NEW p \in Polls, poll[p].sub = s, poll[p].pc \in PollFlow,
         poll'[p].sub # s \/ poll'[p].pc \notin PollFlow,
         \A q \in Polls : q = p \/ poll'[q] = poll[q],
         UNCHANGED task, cache'[s] \in {None, kv'[s]}
  PROVE  Calm(s)'
<1>1. PollsAt(s) = {p} /\ TasksAt(s) = {}
  BY OnlyPoll
<1>2. TasksAt(s)' = {} /\ PollsAt(s)' = {}
  BY <1>1, Flows
<1>3. QED
  BY <1>2, CalmBySettling DEF Settled

\* Without a new failure a KV request succeeds.
LEMMA NoFailure ==
  ASSUME TypeOK, BoundsAssumption, NEW ok \in BOOLEAN, KvOutcome(ok),
         kvFailures' = kvFailures
  PROVE  ok
BY DEF KvOutcome, TypeOK, StoreTypeOK, BoundsAssumption

\* A write that succeeds is carried out, for its sub alone.
LEMMA WriteEffect ==
  ASSUME TypeOK, BoundsAssumption, NEW r \in Subs, NEW b, NEW ok \in BOOLEAN,
         Write(r, b, ok), kvFailures' = kvFailures
  PROVE  ok /\ kv'[r] = b /\ \A s \in Subs : s # r => kv'[s] = kv[s]
<1>1. ok
  BY NoFailure DEF Write
<1>2. kv' = [kv EXCEPT ![r] = b]
  BY <1>1 DEF Write
<1>3. QED
  BY <1>1, <1>2 DEF TypeOK, StoreTypeOK

LEMMA CacheEffect ==
  ASSUME TypeOK, NEW r \in Subs, NEW b, Cache(r, b)
  PROVE  cache'[r] = b /\ \A s \in Subs : s # r => cache'[s] = cache[s]
BY DEF Cache, TypeOK, StoreTypeOK

LEMMA FillEffect ==
  ASSUME TypeOK, NEW r \in Subs, NEW b, Fill(r, b)
  PROVE  /\ cache'[r] = IF b = None THEN cache[r] ELSE b
         /\ \A s \in Subs : s # r => cache'[s] = cache[s]
BY CacheEffect DEF Fill

\* The steps of the form and of tool calls keep a sub calm.
LEMMA TaskStepCalm ==
  ASSUME TypeOK, BoundsAssumption, NEW s \in Subs, Calm(s), ~Overlap(s)',
         kvFailures' = kvFailures, NEW t \in Tasks, TaskStep(t)
  PROVE  Calm(s)'
<1> USE DEF TaskFlow, PollFlow
<1> DEFINE u == task[t].sub
           b == task[t].blob
<1>1. TaskTypeOK /\ task \in [Tasks -> TaskState] /\ PollTypeOK
  BY DEF TypeOK, TaskTypeOK
<1>2. ASSUME task[t].pc \in TaskFlow,
             task'[t].pc \notin TaskFlow,
             \A v \in Tasks : v = t \/ task'[v] = task[v], UNCHANGED poll,
             u # s => cache'[s] = cache[s] /\ kv'[s] = kv[s],
             u = s => cache'[s] \in {None, kv'[s]}
      PROVE  Calm(s)'
  <2>1. CASE u = s
    BY <1>2, <2>1, TaskEnds
  <2>2. CASE u # s
    BY <1>2, <2>2, CalmElsewhere
  <2>3. QED
    BY <2>1, <2>2
<1>3. ASSUME Finish(t)
      PROVE  task'[t].pc \notin TaskFlow /\ \A v \in Tasks : v = t \/ task'[v] = task[v]
  BY <1>1, <1>3 DEF Finish, IdleTask
<1>4. ASSUME NEW ok \in BOOLEAN, task[t].pc \in {"submitting", "storing"},
             Write(u, b, ok), UNCHANGED <<cache, poll>>,
             task'[t].pc \notin TaskFlow,
             \A v \in Tasks : v = t \/ task'[v] = task[v]
      PROVE  Calm(s)'
  <2>1. u \in Subs
    BY <1>1, <1>4, TaskFields
  <2>2. kv'[u] = b /\ (u # s => kv'[s] = kv[s])
    BY <1>4, <2>1, WriteEffect
  <2>3. u = s => Alone(task[t], cache[s], kv[s])
    BY <1>4, OnlyTask
  <2>4. u = s => cache'[s] \in {None, kv'[s]}
    BY <1>4, <2>2, <2>3 DEF Alone
  <2>5. QED
    BY <1>2, <1>4, <2>2, <2>4
<1>5. ASSUME NEW ok \in BOOLEAN, FormStored(t, ok) PROVE Calm(s)'
  <2>1. task'[t].pc \notin TaskFlow /\ \A v \in Tasks : v = t \/ task'[v] = task[v]
    BY <1>1, <1>3, <1>5 DEF FormStored, TaskState
  <2>2. task[t].pc = "submitting" /\ Write(u, b, ok) /\ UNCHANGED <<cache, poll>>
    BY <1>5 DEF FormStored
  <2>3. QED
    BY <1>4, <2>1, <2>2
<1>6. ASSUME NEW ok \in BOOLEAN, Persisted(t, ok) PROVE Calm(s)'
  <2>1. task[t].pc = "storing" /\ Write(u, b, ok) /\ Finish(t) /\ UNCHANGED <<cache, poll>>
    BY <1>6 DEF Persisted
  <2>2. QED
    BY <1>3, <1>4, <2>1
<1>7. ASSUME NEW kept \in SUBSET Emails, NEW ok \in BOOLEAN, ResetDone(t, kept, ok)
      PROVE  Calm(s)'
  <2>1. task[t].pc = "resetting" /\ Write(u, None, ok) /\ Finish(t) /\ UNCHANGED <<cache, poll>>
    BY <1>7 DEF ResetDone
  <2>2. u \in Subs
    BY <1>1, <2>1, TaskFields
  <2>3. kv'[u] = None /\ (u # s => kv'[s] = kv[s])
    BY <2>1, <2>2, WriteEffect
  <2>4. u = s => cache'[s] = None
    BY <2>1, OnlyTask DEF Alone
  <2>5. QED
    BY <1>2, <1>3, <2>1, <2>3, <2>4
<1>8. CASE FormReuse(t) \/ RequestFails(t) \/ FormRequest(t)
  <2>1. task[t].pc \notin TaskFlow /\ UNCHANGED <<cache, kv, poll>>
    BY <1>8 DEF FormReuse, RequestFails, FormRequest, store
  <2>2. task'[t].pc \notin TaskFlow /\ \A v \in Tasks : v = t \/ task'[v] = task[v]
    BY <1>1, <1>3, <1>8 DEF FormReuse, RequestFails, FormRequest, TaskState
  <2>3. QED
    BY <2>1, <2>2, CalmElsewhere
<1>9. CASE Loaded(t)
  <2>1. task[t].pc = "loading" /\ Fill(u, b) /\ Finish(t) /\ UNCHANGED <<kv, poll>>
    BY <1>9 DEF Loaded
  <2>2. u \in Subs
    BY <1>1, <2>1, TaskFields
  <2>3. u # s => cache'[s] = cache[s]
    BY <2>1, <2>2, FillEffect
  <2>4. u = s => cache'[s] \in {None, kv'[s]}
    <3>1. u = s => cache[s] = None /\ b = Trusted(kv[s])
      BY <2>1, OnlyTask DEF Alone
    <3>2. u = s => cache'[s] = IF b = None THEN cache[s] ELSE b
      BY <2>1, <2>2, FillEffect
    <3>3. QED
      BY <2>1, <3>1, <3>2 DEF Trusted
  <2>5. QED
    BY <1>2, <1>3, <2>1, <2>3, <2>4
<1>10. ASSUME NEW f \in Emails, RequestUnread(t, f) PROVE Calm(s)'
  <2>1. task[t].pc = "loading" /\ UNCHANGED <<kv, cache, poll>> /\ cache[u] = None
    BY <1>10 DEF RequestUnread, store, Warm
  <2>2. task'[t].pc \notin TaskFlow /\ \A v \in Tasks : v = t \/ task'[v] = task[v]
    BY <1>1, <1>10 DEF RequestUnread, TaskState
  <2>3. QED
    BY <1>2, <2>1, <2>2
<1>11. ASSUME NEW c \in Codes, NEW p \in Polls, NEW ok \in BOOLEAN, CodeIssued(t, c, p, ok)
       PROVE  Calm(s)'
  <2>1. u \in Subs /\ task[t].email \in Emails /\ task[t].pc = "requesting" /\ kv' = kv
    BY <1>1, <1>11, TaskFields DEF CodeIssued
  <2>2. \A q \in Polls : \/ poll'[q] = poll[q]
                         \/ poll[q].pc \notin PollFlow /\ poll'[q].pc \notin PollFlow
    BY <1>1, <1>11 DEF CodeIssued, Free, StartedPoll, PollTypeOK
  <2>3. /\ \A v \in Tasks : v = t \/ task'[v] = task[v]
        /\ task'[t].sub = u /\ task'[t].pc \in {"storing", "persisting"}
    BY <1>1, <1>11 DEF CodeIssued, TaskState
  <2>4. CASE u # s
    <3>1. cache'[s] = cache[s]
      BY <1>11, <2>1, <2>4, CacheEffect DEF CodeIssued
    <3>2. QED
      BY <2>1, <2>2, <2>3, <2>4, <3>1, CalmElsewhere
  <2>5. CASE u = s
    <3>1. cache[s] \in {None, kv[s]}
      BY <2>1, <2>2, <2>3, <2>5, TaskStarts
    <3>2. Alone(task'[t], cache'[s], kv'[s])
      <4>1. CASE Warm(s)
        <5> DEFINE d == WithPending(cache[s], c)
        <5>1. Cache(s, d)
              /\ task' = [task EXCEPT ![t].pc = "storing", ![t].code = c, ![t].blob = d]
          BY <1>11, <2>5, <4>1 DEF CodeIssued
        <5>2. Trusted(kv[s]) # None => Keeps(kv[s], d)
          BY <2>1, <3>1, <4>1, MergesAlone DEF Warm
        <5> HIDE DEF d
        <5>3. task'[t].pc = "storing" /\ task'[t].blob = d
          BY <1>1, <5>1 DEF TaskState
        <5>4. cache'[s] = d
          BY <5>1, CacheEffect
        <5>5. QED
          BY <2>1, <5>2, <5>3, <5>4 DEF Alone
      <4>2. CASE ~Warm(s)
        <5>1. KvOutcome(ok) /\ cache' = cache
              /\ task' = [task EXCEPT ![t].pc = "persisting", ![t].code = c,
                                      ![t].blob = Read(s, ok)]
          BY <1>11, <2>5, <4>2 DEF CodeIssued
        <5>2. Read(s, ok) = Trusted(kv[s])
          BY <5>1, NoFailure DEF Read
        <5>3. task'[t].pc = "persisting" /\ task'[t].blob = Read(s, ok)
          BY <1>1, <5>1 DEF TaskState
        <5>4. QED
          BY <2>1, <4>2, <5>1, <5>2, <5>3 DEF Alone, Warm
      <4>3. QED
        BY <4>1, <4>2
    <3>3. QED
      BY <2>3, <2>5, <3>2, CalmByTask
  <2>6. QED
    BY <2>4, <2>5
<1>12. CASE Persist(t)
  <2> DEFINE d == WithPending(b, task[t].code)
  <2>1. /\ task[t].pc = "persisting" /\ Cache(u, d) /\ UNCHANGED <<kv, poll>>
        /\ task' = [task EXCEPT ![t].pc = "storing", ![t].blob = d]
    BY <1>12 DEF Persist
  <2>2. u \in Subs /\ task[t].email \in Emails /\ task[t].code \in Codes
    BY <1>1, <2>1, TaskFields
  <2>3. u = s => (Trusted(kv[s]) # None => Keeps(kv[s], d))
    <3>1. ASSUME u = s PROVE b = Trusted(kv[s])
      BY <2>1, <3>1, OnlyTask DEF Alone
    <3>2. QED
      BY <2>2, <3>1, MergesAlone
  <2> HIDE DEF d
  <2>4. /\ task'[t].pc = "storing" /\ task'[t].blob = d /\ task'[t].sub = u
        /\ \A v \in Tasks : v = t \/ task'[v] = task[v]
    BY <1>1, <2>1 DEF TaskState
  <2>5. cache'[u] = d /\ (u # s => cache'[s] = cache[s])
    BY <2>1, <2>2, CacheEffect
  <2>6. CASE u # s
    BY <2>1, <2>4, <2>5, <2>6, CalmElsewhere
  <2>7. CASE u = s
    <3>1. Alone(task'[t], cache'[s], kv'[s])
      BY <2>1, <2>3, <2>4, <2>5, <2>7 DEF Alone
    <3>2. QED
      BY <2>4, <2>7, <3>1, CalmByTask
  <2>8. QED
    BY <2>6, <2>7
<1>13. QED
  BY <1>5, <1>6, <1>7, <1>8, <1>9, <1>10, <1>11, <1>12 DEF TaskStep

\* A poll caches what it merged into the blob KV holds and waits for its PUT.
LEMMA PollCachesCalm ==
  ASSUME TypeOK, NEW s \in Subs, Calm(s), ~Overlap(s)', NEW p \in Polls,
         poll[p].pc # "idle", NEW pc \in {"storing", "dropping"}, NEW b,
         Cache(poll[p].sub, b),
         poll' = [poll EXCEPT ![p].pc = pc, ![p].blob = b],
         UNCHANGED <<kv, task>>,
         poll[p].sub = s => (Trusted(kv[s]) # None => Keeps(kv[s], b))
  PROVE  Calm(s)'
<1> USE DEF PollFlow
<1> DEFINE u == poll[p].sub
<1>1. PollTypeOK /\ u \in Subs
  BY PollFields DEF TypeOK
<1>2. /\ poll'[p].pc = pc /\ poll'[p].blob = b /\ poll'[p].sub = u
      /\ \A q \in Polls : q = p \/ poll'[q] = poll[q]
  BY <1>1 DEF PollTypeOK, PollState
<1>3. cache'[u] = b /\ (u # s => cache'[s] = cache[s])
  BY <1>1, CacheEffect
<1>4. CASE u # s
  BY <1>2, <1>3, <1>4, CalmElsewhere
<1>5. CASE u = s
  <2>1. Alone(poll'[p], cache'[s], kv'[s])
    BY <1>2, <1>3, <1>5 DEF Alone
  <2>2. QED
    BY <1>2, <1>5, <2>1, CalmByPoll
<1>6. QED
  BY <1>4, <1>5

\* The steps of a poll keep a sub calm.
LEMMA PollStepCalm ==
  ASSUME TypeOK, BoundsAssumption, NEW s \in Subs, Calm(s), ~Overlap(s)',
         kvFailures' = kvFailures, NEW p \in Polls, PollStep(p)
  PROVE  Calm(s)'
<1> USE DEF TaskFlow, PollFlow
<1> DEFINE u == poll[p].sub
           b == poll[p].blob
<1>1. PollTypeOK /\ poll \in [Polls -> PollState]
  BY DEF TypeOK, PollTypeOK
<1>2. ASSUME poll[p].pc \in PollFlow, poll'[p].pc \notin PollFlow,
             \A q \in Polls : q = p \/ poll'[q] = poll[q], UNCHANGED task,
             u # s => cache'[s] = cache[s] /\ kv'[s] = kv[s],
             u = s => cache'[s] \in {None, kv'[s]}
      PROVE  Calm(s)'
  <2>1. CASE u = s
    BY <1>2, <2>1, PollEnds
  <2>2. CASE u # s
    BY <1>2, <2>2, CalmElsewhere
  <2>3. QED
    BY <2>1, <2>2
<1>3. ASSUME EndPoll(p) \/ poll' = [poll EXCEPT ![p] = IdlePoll]
      PROVE  poll'[p].pc \notin PollFlow /\ \A q \in Polls : q = p \/ poll'[q] = poll[q]
  BY <1>1, <1>3 DEF EndPoll, IdlePoll
<1>4. CASE PollRefused(p) \/ PollThrows(p) \/ GrantLost(p)
  <2>1. poll[p].pc \notin PollFlow /\ EndPoll(p) /\ UNCHANGED <<cache, kv, task>>
    BY <1>4 DEF PollRefused, PollThrows, GrantLost, Grantable, store
  <2>2. QED
    BY <1>3, <2>1, CalmElsewhere
<1>5. ASSUME NEW d, SaveToken(p, d), poll[p].pc # "idle",
             u = s => d \in {Trusted(kv[s]), kv[s]}
      PROVE  Calm(s)'
  <2> DEFINE m == WithToken(d, poll[p].email, poll[p].code)
  <2>1. poll[p].email \in Emails /\ poll[p].code \in Codes
    BY <1>1, <1>5, PollFields
  <2>2. u = s => (Trusted(kv[s]) # None => Keeps(kv[s], m))
    BY <1>5, <2>1, MergesAlone
  <2>3. Cache(u, m) /\ UNCHANGED <<kv, task>>
        /\ poll' = [poll EXCEPT ![p].pc = "storing", ![p].blob = m]
    BY <1>5 DEF SaveToken
  <2> HIDE DEF m
  <2>4. QED
    BY <1>5, <2>2, <2>3, PollCachesCalm
<1>6. ASSUME u = s, poll[p].pc \notin PollFlow, poll'[p].pc \in PollFlow, poll'[p].sub = u,
             \A q \in Polls : q = p \/ poll'[q] = poll[q], UNCHANGED task
      PROVE  cache[s] \in {None, kv[s]}
  BY <1>6, PollStarts
<1>7. CASE PollSave(p)
  <2>1. poll[p].pc = "waiting" /\ SaveToken(p, cache[u]) /\ Warm(u)
    BY <1>7 DEF PollSave, Granted, Grantable
  <2>2. /\ poll'[p].pc = "storing" /\ poll'[p].sub = u /\ task' = task
        /\ \A q \in Polls : q = p \/ poll'[q] = poll[q]
    BY <1>1, <2>1 DEF SaveToken, PollState
  <2>3. u = s => cache[s] = kv[s]
    BY <1>6, <2>1, <2>2 DEF Warm
  <2>4. QED
    BY <1>5, <2>1, <2>3
<1>8. CASE PollMerge(p)
  <2>1. poll[p].pc = "merging" /\ SaveToken(p, b)
    BY <1>8 DEF PollMerge
  <2>2. u = s => b = Trusted(kv[s])
    BY <2>1, OnlyPoll DEF Alone
  <2>3. QED
    BY <1>5, <2>1, <2>2
<1>9. ASSUME NEW pc \in {"merging", "clearing"}, NEW ok \in BOOLEAN, ~Warm(u),
             KvOutcome(ok), UNCHANGED <<kv, cache, task>>,
             poll[p].pc \in {"waiting", "saved"},
             poll' = [poll EXCEPT ![p].pc = pc, ![p].blob = Read(u, ok)]
      PROVE  Calm(s)'
  <2>1. /\ poll'[p].pc = pc /\ poll'[p].blob = Read(u, ok) /\ poll'[p].sub = u
        /\ \A q \in Polls : q = p \/ poll'[q] = poll[q]
    BY <1>1, <1>9 DEF PollState
  <2>2. Read(u, ok) = Trusted(kv[u])
    BY <1>9, NoFailure DEF Read
  <2>3. CASE u # s
    BY <1>9, <2>1, <2>3, CalmElsewhere
  <2>4. CASE u = s
    <3>1. Alone(poll'[p], cache'[s], kv'[s])
      BY <1>9, <2>1, <2>2, <2>4 DEF Alone, Warm
    <3>2. QED
      BY <2>1, <2>4, <3>1, CalmByPoll
  <2>5. QED
    BY <2>3, <2>4
<1>10. ASSUME NEW ok \in BOOLEAN, PollReadKv(p, ok) PROVE Calm(s)'
  BY <1>9, <1>10 DEF PollReadKv, Granted, Grantable
<1>11. ASSUME NEW ok \in BOOLEAN, poll[p].pc \in {"storing", "dropping"}, Write(u, b, ok),
              UNCHANGED <<cache, task>>, poll'[p].pc \notin PollFlow,
              \A q \in Polls : q = p \/ poll'[q] = poll[q]
       PROVE  Calm(s)'
  <2>1. u \in Subs
    BY <1>1, <1>11, PollFields
  <2>2. kv'[u] = b /\ (u # s => kv'[s] = kv[s])
    BY <1>11, <2>1, WriteEffect
  <2>3. u = s => Alone(poll[p], cache[s], kv[s])
    BY <1>11, OnlyPoll
  <2>4. u = s => cache'[s] \in {None, kv'[s]}
    BY <1>11, <2>2, <2>3 DEF Alone
  <2>5. QED
    BY <1>2, <1>11, <2>2, <2>4
<1>12. ASSUME NEW ok \in BOOLEAN, PollStored(p, ok) PROVE Calm(s)'
  <2>1. poll[p].pc = "storing" /\ Write(u, b, ok) /\ UNCHANGED <<cache, task>>
    BY <1>12 DEF PollStored
  <2>2. poll'[p].pc \notin PollFlow /\ \A q \in Polls : q = p \/ poll'[q] = poll[q]
    BY <1>1, <1>3, <1>12 DEF PollStored, PollState
  <2>3. QED
    BY <1>11, <2>1, <2>2
<1>13. ASSUME NEW d, DropPending(p, d), poll[p].pc # "idle", UNCHANGED <<kv, task>>,
              u = s => d \in {Trusted(kv[s]), kv[s]}
       PROVE  Calm(s)'
  <2>1. u = s => (Trusted(kv[s]) # None => Keeps(kv[s], WithoutPending(d)))
    BY <1>1, <1>13, PollFields, MergesAlone
  <2>2. QED
    BY <1>13, <2>1, PollCachesCalm DEF DropPending
<1>14. ASSUME NEW ok \in BOOLEAN, PollDone(p, ok) PROVE Calm(s)'
  <2>1. poll[p].pc = "saved" /\ UNCHANGED <<kv, task>>
    BY <1>14 DEF PollDone
  <2>2. CASE Warm(u) /\ DropPending(p, cache[u])
    <3>1. /\ poll'[p].pc = "dropping" /\ poll'[p].sub = u
          /\ \A q \in Polls : q = p \/ poll'[q] = poll[q]
      BY <1>1, <2>2 DEF DropPending, PollState
    <3>2. u = s => cache[s] = kv[s]
      BY <1>6, <2>1, <2>2, <3>1 DEF Warm
    <3>3. QED
      BY <1>13, <2>1, <2>2, <3>2
  <2>3. CASE poll' = [poll EXCEPT ![p] = IdlePoll] /\ UNCHANGED cache
    BY <1>3, <2>1, <2>3, CalmElsewhere
  <2>4. CASE /\ ~Warm(u) /\ KvOutcome(ok) /\ UNCHANGED cache
             /\ poll' = [poll EXCEPT ![p].pc = "clearing", ![p].blob = Read(u, ok)]
    BY <1>9, <2>1, <2>4
  <2>5. QED
    BY <1>14, <2>2, <2>3, <2>4 DEF PollDone
<1>15. CASE PollClear(p)
  <2>1. poll[p].pc = "clearing" /\ UNCHANGED <<kv, task>>
    BY <1>15 DEF PollClear
  <2>2. u = s => cache[s] = None /\ b = Trusted(kv[s])
    BY <2>1, OnlyPoll DEF Alone
  <2>3. CASE DropPending(p, b)
    BY <1>13, <2>1, <2>2, <2>3
  <2>4. CASE Fill(u, b) /\ poll' = [poll EXCEPT ![p] = IdlePoll]
    <3>1. u \in Subs
      BY <1>1, <2>1, PollFields
    <3>2. /\ u # s => cache'[s] = cache[s]
          /\ u = s => cache'[s] \in {None, kv'[s]}
      BY <2>1, <2>2, <2>4, <3>1, FillEffect DEF Trusted
    <3>3. QED
      BY <1>2, <1>3, <2>1, <2>4, <3>2
  <2>5. QED
    BY <1>15, <2>3, <2>4 DEF PollClear
<1>16. ASSUME NEW ok \in BOOLEAN, PollDropped(p, ok) PROVE Calm(s)'
  <2>1. poll[p].pc = "dropping" /\ Write(u, b, ok) /\ UNCHANGED <<cache, task>>
        /\ poll' = [poll EXCEPT ![p] = IdlePoll]
    BY <1>16 DEF PollDropped
  <2>2. QED
    BY <1>3, <1>11, <2>1
<1>17. QED
  BY <1>4, <1>7, <1>8, <1>10, <1>12, <1>14, <1>15, <1>16 DEF PollStep, PollAdvances

\* The steps of users and sessions keep a sub calm.
LEMMA UserStepCalm ==
  ASSUME TypeOK, BoundsAssumption, NEW s \in Subs, Calm(s), ~Overlap(s)',
         kvFailures' = kvFailures, UserStep
  PROVE  Calm(s)'
<1> USE DEF TaskFlow, PollFlow
<1>1. TaskTypeOK /\ PollTypeOK
  BY DEF TypeOK
<1>2. ASSUME NEW t \in Tasks, NEW pc, NEW u, NEW e, NEW b, Begin(t, pc, u, e, b)
      PROVE  /\ task[t].pc \notin TaskFlow
             /\ task'[t].pc = pc /\ task'[t].sub = u /\ task'[t].blob = b
             /\ \A v \in Tasks : v = t \/ task'[v] = task[v]
  BY <1>1, <1>2 DEF Begin, TaskTypeOK
<1>3. ASSUME NEW t \in Tasks, NEW u \in Subs, NEW A \in SUBSET Emails,
             NEW e \in Emails, FormSubmit(t, u, A, e)
      PROVE  Calm(s)'
  <2> DEFINE form == [EmptyBlob EXCEPT !.accounts = A]
  <2>1. Begin(t, "submitting", u, e, form) /\ Cache(u, form) /\ UNCHANGED <<kv, poll>>
    BY <1>3 DEF FormSubmit
  <2> HIDE DEF form
  <2>2. cache'[u] = form /\ (u # s => cache'[s] = cache[s])
    BY <2>1, CacheEffect
  <2>3. /\ task[t].pc \notin TaskFlow
        /\ task'[t].pc = "submitting" /\ task'[t].sub = u /\ task'[t].blob = form
        /\ \A v \in Tasks : v = t \/ task'[v] = task[v]
    BY <1>2, <2>1
  <2>4. CASE u # s
    BY <2>1, <2>2, <2>3, <2>4, CalmElsewhere
  <2>5. CASE u = s
    <3>1. Alone(task'[t], cache'[s], kv'[s])
      BY <2>2, <2>3, <2>5 DEF Alone
    <3>2. QED
      BY <2>3, <2>5, <3>1, CalmByTask
  <2>6. QED
    BY <2>4, <2>5
<1>4. ASSUME NEW t \in Tasks, NEW u \in Subs, NEW ok \in BOOLEAN, StartLoad(t, u, ok)
      PROVE  Calm(s)'
  <2>1. /\ Begin(t, "loading", u, None, Read(u, ok)) /\ UNCHANGED <<kv, cache, poll>>
        /\ cache[u] = None /\ KvOutcome(ok)
    BY <1>4 DEF StartLoad, Warm
  <2>2. Read(u, ok) = Trusted(kv[u])
    BY <2>1, NoFailure DEF Read
  <2>3. /\ task[t].pc \notin TaskFlow
        /\ task'[t].pc = "loading" /\ task'[t].sub = u /\ task'[t].blob = Read(u, ok)
        /\ \A v \in Tasks : v = t \/ task'[v] = task[v]
    BY <1>2, <2>1
  <2>4. CASE u # s
    BY <2>1, <2>3, <2>4, CalmElsewhere
  <2>5. CASE u = s
    <3>1. Alone(task'[t], cache'[s], kv'[s])
      BY <2>1, <2>2, <2>3, <2>5 DEF Alone
    <3>2. QED
      BY <2>3, <2>5, <3>1, CalmByTask
  <2>6. QED
    BY <2>4, <2>5
<1>5. ASSUME NEW u \in Subs, NEW e \in Emails, NEW p \in Polls, ResumePoll(u, e, p)
      PROVE  Calm(s)'
  <2>1. UNCHANGED <<kv, cache, task>>
    BY <1>5 DEF ResumePoll, store
  <2>2. \A q \in Polls : \/ poll'[q] = poll[q]
                         \/ poll[q].pc \notin PollFlow /\ poll'[q].pc \notin PollFlow
    BY <1>1, <1>5 DEF ResumePoll, Free, StartedPoll, PollTypeOK
  <2>3. QED
    BY <2>1, <2>2, CalmElsewhere
<1>6. ASSUME NEW t \in Tasks, NEW u \in Subs, NEW e \in Emails, RequestCode(t, u, e)
      PROVE  Calm(s)'
  <2>1. Begin(t, "requesting", u, e, None) /\ UNCHANGED <<kv, cache, poll>>
    BY <1>6 DEF RequestCode, store
  <2>2. /\ task[t].pc \notin TaskFlow /\ task'[t].pc = "requesting"
        /\ \A v \in Tasks : v = t \/ task'[v] = task[v]
    BY <1>2, <2>1
  <2>3. QED
    BY <2>1, <2>2, CalmElsewhere
<1>7. ASSUME NEW c \in Codes, NEW d \in Status, Decide(c, d) PROVE Calm(s)'
  BY <1>7, CalmElsewhere DEF Decide, store
<1>8. ASSUME NEW t \in Tasks, NEW u \in Subs, StartReset(t, u) PROVE Calm(s)'
  <2>1. Begin(t, "resetting", u, None, None) /\ UNCHANGED <<kv, poll>>
        /\ cache' = [cache EXCEPT ![u] = None]
    BY <1>8 DEF StartReset
  <2>2. cache'[u] = None /\ (u # s => cache'[s] = cache[s])
    BY <2>1 DEF TypeOK, StoreTypeOK
  <2>3. /\ task[t].pc \notin TaskFlow
        /\ task'[t].pc = "resetting" /\ task'[t].sub = u
        /\ \A v \in Tasks : v = t \/ task'[v] = task[v]
    BY <1>2, <2>1
  <2>4. CASE u # s
    BY <2>1, <2>2, <2>3, <2>4, CalmElsewhere
  <2>5. CASE u = s
    <3>1. Alone(task'[t], cache'[s], kv'[s])
      BY <2>2, <2>3, <2>5 DEF Alone
    <3>2. QED
      BY <2>3, <2>5, <3>1, CalmByTask
  <2>6. QED
    BY <2>4, <2>5
<1>9. QED
  BY <1>3, <1>4, <1>5, <1>6, <1>7, <1>8 DEF UserStep

\* A step during which nothing of a calm sub fails or comes to overlap keeps it calm.
LEMMA NextCalm ==
  ASSUME TypeOK, BoundsAssumption, NEW s \in Subs, Calm(s), ~Overlap(s)',
         kvFailures' = kvFailures, Next
  PROVE  Calm(s)'
<1>1. ASSUME NEW c \in Codes, Lapse(c) PROVE Calm(s)'
  BY <1>1, CalmElsewhere DEF Lapse, store
<1>2. CASE Restart
  <2>1. TasksAt(s)' = {} /\ PollsAt(s)' = {}
    BY <1>2, Flows DEF Restart, IdleTask, IdlePoll, TaskFlow, PollFlow
  <2>2. cache'[s] = None
    BY <1>2 DEF Restart
  <2>3. QED
    BY <2>1, <2>2, CalmBySettling DEF Settled
<1>3. QED
  BY <1>1, <1>2, TaskStepCalm, PollStepCalm, UserStepCalm DEF Next

\* A sub that has not raced after a step had not before it, or has just settled.
LEMMA MergeInvNext ==
  ASSUME TypeOK, BoundsAssumption, MergeInv, [MergeNext]_<<vars, raced>>
  PROVE  MergeInv'
<1>1. CASE UNCHANGED <<vars, raced>>
  <2>1. \A s \in Subs : Calm(s) => Calm(s)'
    BY <1>1, CalmElsewhere DEF vars
  <2>2. QED
    BY <1>1, <2>1 DEF MergeInv
<1>2. CASE MergeNext
  <2> SUFFICES ASSUME NEW s \in Subs, s \notin raced' PROVE Calm(s)'
    BY DEF MergeInv
  <2>1. ~Overlap(s)' /\ ((s \notin raced /\ kvFailures' = kvFailures) \/ Settled(s)')
    BY <1>2 DEF MergeNext, Raced
  <2>2. CASE Settled(s)'
    BY <2>2, CalmBySettling
  <2>3. CASE s \notin raced /\ kvFailures' = kvFailures
    BY <1>2, <2>1, <2>3, NextCalm DEF MergeNext, MergeInv
  <2>4. QED
    BY <2>1, <2>2, <2>3
<1>3. QED
  BY <1>1, <1>2

\* What a write of any sub does to the blob of a calm one: the form and the reset may
\* take something out, the rest keep it.
LEMMA NextKeeps ==
  ASSUME TypeOK, BoundsAssumption, NEW s \in Subs, Calm(s), Trusted(kv[s]) # None,
         [Next]_vars
  PROVE  \/ Keeps(kv[s], kv'[s])
         \/ \E t \in Tasks : task[t].sub = s /\ task[t].pc \in {"submitting", "resetting"}
<1>1. Keeps(kv[s], kv[s])
  BY DEF Keeps, Trusted
<1>2. ASSUME kv' = kv PROVE Keeps(kv[s], kv'[s])
  BY <1>1, <1>2
<1>3. ASSUME NEW u \in Subs, NEW b, NEW ok \in BOOLEAN, Write(u, b, ok),
             u = s => Keeps(kv[s], b)
      PROVE  Keeps(kv[s], kv'[s])
  <2>1. kv' = [kv EXCEPT ![u] = b] \/ kv' = kv
    BY <1>3 DEF Write
  <2>2. kv'[s] = kv[s] \/ (u = s /\ kv'[s] = b)
    BY <2>1 DEF TypeOK, StoreTypeOK
  <2>3. QED
    BY <1>1, <1>3, <2>2
<1>4. ASSUME NEW t \in Tasks, TaskStep(t)
      PROVE  \/ Keeps(kv[s], kv'[s])
             \/ task[t].sub = s /\ task[t].pc \in {"submitting", "resetting"}
  <2>1. TaskTypeOK
    BY DEF TypeOK
  <2>2. ASSUME NEW ok \in BOOLEAN, NEW b, task[t].pc \in {"submitting", "resetting"},
               Write(task[t].sub, b, ok), task[t].sub # s
        PROVE  Keeps(kv[s], kv'[s])
    BY <1>3, <2>1, <2>2, TaskFields
  <2>3. ASSUME NEW ok \in BOOLEAN, Persisted(t, ok) PROVE Keeps(kv[s], kv'[s])
    <3>1. task[t].pc = "storing" /\ Write(task[t].sub, task[t].blob, ok)
      BY <2>3 DEF Persisted
    <3>2. task[t].sub = s => Keeps(kv[s], task[t].blob)
      BY <3>1, OnlyTask DEF Alone, TaskFlow
    <3>3. QED
      BY <1>3, <2>1, <3>1, <3>2, TaskFields
  <2>4. ASSUME NEW ok \in BOOLEAN, FormStored(t, ok)
        PROVE  \/ Keeps(kv[s], kv'[s])
               \/ task[t].sub = s /\ task[t].pc \in {"submitting", "resetting"}
    BY <2>2, <2>4 DEF FormStored
  <2>5. ASSUME NEW kept \in SUBSET Emails, NEW ok \in BOOLEAN, ResetDone(t, kept, ok)
        PROVE  \/ Keeps(kv[s], kv'[s])
               \/ task[t].sub = s /\ task[t].pc \in {"submitting", "resetting"}
    BY <2>2, <2>5 DEF ResetDone
  <2>6. CASE \/ FormReuse(t) \/ FormRequest(t) \/ Loaded(t) \/ RequestFails(t) \/ Persist(t)
             \/ \E e \in Emails : RequestUnread(t, e)
             \/ \E c \in Codes, p \in Polls, ok \in BOOLEAN : CodeIssued(t, c, p, ok)
    BY <1>2, <2>6 DEF FormReuse, FormRequest, Loaded, RequestUnread, CodeIssued, RequestFails,
                      Persist, store
  <2>7. QED
    BY <1>4, <2>3, <2>4, <2>5, <2>6 DEF TaskStep
<1>5. ASSUME NEW p \in Polls, PollStep(p) PROVE Keeps(kv[s], kv'[s])
  <2>1. ASSUME NEW ok \in BOOLEAN, poll[p].pc \in {"storing", "dropping"},
               Write(poll[p].sub, poll[p].blob, ok)
        PROVE  Keeps(kv[s], kv'[s])
    <3>1. poll[p].sub \in Subs
      BY <2>1, PollFields DEF TypeOK
    <3>2. poll[p].sub = s => Keeps(kv[s], poll[p].blob)
      BY <2>1, OnlyPoll DEF Alone, PollFlow
    <3>3. QED
      BY <1>3, <2>1, <3>1, <3>2
  <2>2. ASSUME NEW ok \in BOOLEAN, PollStored(p, ok) \/ PollDropped(p, ok)
        PROVE  Keeps(kv[s], kv'[s])
    BY <2>1, <2>2 DEF PollStored, PollDropped
  <2>3. QED
    BY <1>2, <1>5, <2>2
    DEF PollStep, PollAdvances, PollRefused, PollThrows, GrantLost, PollSave, SaveToken, PollMerge,
        PollClear, PollReadKv, PollDone, store
<1>6. CASE UserStep
  BY <1>2, <1>6
  DEF UserStep, FormSubmit, StartLoad, ResumePoll, RequestCode, Decide, StartReset, store
<1>7. CASE (\E c \in Codes : Lapse(c)) \/ Restart \/ UNCHANGED vars
  BY <1>2, <1>7 DEF Lapse, Restart, vars, store
<1>8. QED
  BY <1>4, <1>5, <1>6, <1>7 DEF Next

\* Whatever the number of subs, mailboxes, polls, tasks, resets and restarts, only the
\* form and the reset take accounts or tokens out of a stored blob of a sub whose store
\* requests neither overlap nor fail: the one request in flight then read the very blob
\* KV holds, or merged into a cache that agrees with it (cred-store.ts caches before the
\* PUT; saveTokens, persistPendingDeviceCode and clearPendingDeviceCode load first).
THEOREM MergesPreserve == MergeSpec => MergePreserves
<1>1. MergeInit => TypeOK /\ MergeInv
  <2>1. ASSUME MergeInit, NEW s \in Subs PROVE Calm(s)
    <3>1. TasksAt(s) = {} /\ PollsAt(s) = {}
      BY <2>1, Flows DEF MergeInit, Init, IdleTask, IdlePoll, TaskFlow, PollFlow
    <3>2. QED
      BY <2>1, <3>1 DEF MergeInit, Init, Calm, Overlap
  <2>2. QED
    BY <2>1, InitType, BoundsAssumption DEF MergeInit, MergeInv
<1>2. [MergeNext]_<<vars, raced>> => [Next]_vars
  BY DEF MergeNext
<1>3. TypeOK /\ MergeInv /\ [MergeNext]_<<vars, raced>> => (TypeOK /\ MergeInv)'
  BY <1>2, NextType, MergeInvNext, NoneAssumption, BoundsAssumption
<1>4. TypeOK /\ MergeInv /\ [MergeNext]_<<vars, raced>> =>
        [\A s \in Subs : s \notin raced /\ Trusted(kv[s]) # None =>
           \/ Keeps(kv[s], kv'[s])
           \/ \E t \in Tasks :
                task[t].sub = s /\ task[t].pc \in {"submitting", "resetting"}]_<<vars, raced>>
  BY <1>2, NextKeeps, BoundsAssumption DEF MergeInv
<1>5. QED
  BY <1>1, <1>3, <1>4, PTL DEF MergeSpec, MergePreserves
=============================================================================
