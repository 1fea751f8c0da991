--------------------------- MODULE CredStore_proofs ---------------------------
(***************************************************************************)
(* Theorems about CredStore, for any subs, blobs, calls and bounds.        *)
(***************************************************************************)
EXTENDS CredStore, TLAPS

PutOf(c, s) == call[c].pc = "put" /\ call[c].sub = s
LoadOf(c, s) == call[c].pc \in {"get", "fill"} /\ call[c].sub = s

\* Why WrittenIsDurable holds.  A write of a sub that is not raced is alone with
\* that sub, and the cache already holds what it writes; without a write, a cold
\* load carries what the store holds.
Settled(s) ==
  /\ \A c, d \in Calls : PutOf(c, s) /\ PutOf(d, s) => c = d
  /\ \A c, d \in Calls : ~(PutOf(c, s) /\ LoadOf(d, s))
  /\ \A c \in Calls : PutOf(c, s) => call[c].val = last[s] /\ cache[s] = last[s]
  /\ (\A c \in Calls : ~PutOf(c, s)) => kv[s] = last[s] /\ cache[s] \in {None, kv[s]}
  /\ \A c \in Calls : LoadOf(c, s) /\ call[c].pc = "fill" => call[c].val = kv[s]

\* A blob on its way to or from the store was saved for the sub of its call.
CarriesOwn ==
  \A c \in Calls : call[c].pc # "idle" => call[c].val \in saved[call[c].sub] \cup {None}

StoreInv ==
  /\ TypeOK
  /\ \A s \in Subs : s \notin raced => Settled(s)
  /\ SubsIsolated
  /\ CarriesOwn

\* The initial state.
LEMMA InitStore == StoreBounds /\ Init => StoreInv
<1> SUFFICES ASSUME StoreBounds, Init PROVE StoreInv
  OBVIOUS
<1>1. TypeOK
  BY DEF Init, TypeOK, Call, Idle, Stored, StoreBounds
<1>2. \A s \in Subs : Settled(s)
  BY DEF Init, Settled, PutOf, LoadOf, Idle
<1>3. SubsIsolated /\ CarriesOwn
  BY DEF Init, SubsIsolated, CarriesOwn, Idle
<1>4. QED
  BY <1>1, <1>2, <1>3 DEF StoreInv

\* A call that becomes idle, or a new state x of it, keeps the type of call.
LEMMA CallType ==
  ASSUME TypeOK, NEW c \in Calls, NEW x \in Call, x.pc # "idle" => x.sub # None,
         call' = [call EXCEPT ![c] = x]
  PROVE  /\ call' \in [Calls -> Call]
         /\ \A d \in Calls : call'[d].pc # "idle" => call'[d].sub # None
         /\ \A d \in Calls : call'[d] = IF d = c THEN x ELSE call[d]
BY DEF TypeOK

\* The sub of a call in flight is a sub.
LEMMA CallSub ==
  ASSUME TypeOK, NEW c \in Calls, call[c].pc # "idle"
  PROVE  call[c].sub \in Subs /\ call[c].val \in Stored /\ call[c] \in Call
BY DEF TypeOK, Call

\* An idle call is well typed.
LEMMA IdleType == Idle \in Call /\ Idle.pc = "idle"
BY DEF Idle, Call, Stored

\* save and clear.
LEMMA StartWriteInv ==
  ASSUME StoreInv, StoreBounds, NEW c \in Calls, NEW s \in Subs, NEW b \in Stored,
         StartWrite(c, s, b)
  PROVE  StoreInv'
<1> DEFINE x == [pc |-> "put", sub |-> s, val |-> b]
<1>1. TypeOK /\ call[c].pc = "idle"
  BY DEF StoreInv, StartWrite
<1>2. x \in Call /\ x.sub # None
  BY DEF Call, StoreBounds
<1>3. /\ call' \in [Calls -> Call]
      /\ \A d \in Calls : call'[d].pc # "idle" => call'[d].sub # None
      /\ \A d \in Calls : call'[d] = IF d = c THEN x ELSE call[d]
  BY <1>1, <1>2, CallType DEF StartWrite
<1>4. TypeOK'
  BY <1>1, <1>3 DEF StartWrite, TypeOK, Stored
<1>5. /\ \A r \in Subs : cache'[r] = IF r = s THEN b ELSE cache[r]
      /\ \A r \in Subs : last'[r] = IF r = s THEN b ELSE last[r]
      /\ kv' = kv
  BY <1>1 DEF StartWrite, TypeOK
<1>6. ASSUME NEW r \in Subs, r \notin raced' PROVE Settled(r)'
  <2>1. CASE r = s
    <3>1. \A d \in Calls : ~PutOf(d, s) /\ ~LoadOf(d, s)
      BY <1>6, <2>1 DEF StartWrite, InFlight, PutOf, LoadOf
    <3>2. \A d \in Calls : PutOf(d, s)' <=> d = c
      BY <1>3, <3>1 DEF PutOf
    <3>3. \A d \in Calls : ~LoadOf(d, s)'
      BY <1>3, <3>1 DEF LoadOf
    <3>4. QED
      BY <1>3, <1>5, <2>1, <3>2, <3>3 DEF Settled
  <2>2. CASE r # s
    <3>1. Settled(r)
      BY <1>6, <2>2 DEF StartWrite, StoreInv
    <3>2. \A d \in Calls : (PutOf(d, r)' <=> PutOf(d, r)) /\ (LoadOf(d, r)' <=> LoadOf(d, r))
      BY <1>1, <1>3, <2>2 DEF PutOf, LoadOf
    <3>3. QED
      BY <1>1, <1>3, <1>5, <2>2, <3>1, <3>2 DEF Settled, PutOf, LoadOf
  <2>3. QED
    BY <2>1, <2>2
<1>7. \A r \in Subs : saved'[r] = IF r = s /\ b # None THEN saved[r] \cup {b} ELSE saved[r]
  BY <1>1 DEF StartWrite, TypeOK
<1>8. SubsIsolated'
  BY <1>5, <1>7 DEF StoreInv, SubsIsolated
<1>9. CarriesOwn'
  <2> SUFFICES ASSUME NEW d \in Calls, call'[d].pc # "idle"
               PROVE  call'[d].val \in saved'[call'[d].sub] \cup {None}
    BY DEF CarriesOwn
  <2>1. CASE d = c
    <3>1. call'[d].val = b /\ call'[d].sub = s
      BY <1>3, <2>1
    <3>2. saved'[s] = IF b # None THEN saved[s] \cup {b} ELSE saved[s]
      BY <1>7
    <3>3. QED
      BY <3>1, <3>2
  <2>2. CASE d # c
    BY <1>1, <1>3, <1>7, <2>2, CallSub DEF StoreInv, CarriesOwn
  <2>3. QED
    BY <2>1, <2>2
<1>10. QED
  BY <1>4, <1>6, <1>8, <1>9 DEF StoreInv

\* A call that ends keeps every other call as it was.
LEMMA EndCall ==
  ASSUME TypeOK, NEW c \in Calls, call' = [call EXCEPT ![c] = Idle]
  PROVE  /\ call' \in [Calls -> Call]
         /\ \A d \in Calls : call'[d].pc # "idle" => call'[d].sub # None
         /\ \A d \in Calls : call'[d] = IF d = c THEN Idle ELSE call[d]
         /\ \A d \in Calls, r \in Subs :
              /\ PutOf(d, r)' <=> d # c /\ PutOf(d, r)
              /\ LoadOf(d, r)' <=> d # c /\ LoadOf(d, r)
<1>1. Idle \in Call /\ Idle.pc = "idle"
  BY IdleType
<1>2. /\ call' \in [Calls -> Call]
      /\ \A d \in Calls : call'[d].pc # "idle" => call'[d].sub # None
      /\ \A d \in Calls : call'[d] = IF d = c THEN Idle ELSE call[d]
  BY <1>1, CallType
<1>3. QED
  BY <1>1, <1>2 DEF PutOf, LoadOf

\* A write that is carried out, or fails.
LEMMA WriteInv ==
  ASSUME StoreInv, StoreBounds, NEW c \in Calls,
         Write(c) \/ \E done \in BOOLEAN : WriteFails(c, done)
  PROVE  StoreInv'
<1> DEFINE s == call[c].sub
<1>1. TypeOK /\ call[c].pc = "put" /\ call' = [call EXCEPT ![c] = Idle]
  BY DEF StoreInv, Write, WriteFails
<1>2. s \in Subs /\ call[c].val \in Stored
  BY <1>1, CallSub
<1>3. /\ call' \in [Calls -> Call]
      /\ \A d \in Calls : call'[d].pc # "idle" => call'[d].sub # None
      /\ \A d \in Calls : call'[d] = IF d = c THEN Idle ELSE call[d]
      /\ \A d \in Calls, r \in Subs :
           /\ PutOf(d, r)' <=> d # c /\ PutOf(d, r)
           /\ LoadOf(d, r)' <=> d # c /\ LoadOf(d, r)
  BY <1>1, EndCall
<1>4. /\ \A r \in Subs : kv'[r] = kv[r] \/ (r = s /\ kv'[r] = call[c].val)
      /\ kv' \in [Subs -> Stored]
      /\ cache' = cache /\ last' = last /\ saved' = saved
  BY <1>1, <1>2 DEF Write, WriteFails, TypeOK
<1>5. TypeOK'
  BY <1>1, <1>2, <1>3, <1>4 DEF Write, WriteFails, Fault, TypeOK, StoreBounds
<1>6. ASSUME NEW r \in Subs, r \notin raced' PROVE Settled(r)'
  <2>1. Settled(r)
    BY <1>6 DEF Write, WriteFails, StoreInv
  <2>2. CASE r = s
    <3>1. kv'[s] = call[c].val
      BY <1>1, <1>2, <1>6, <2>2 DEF Write, WriteFails, TypeOK
    <3>2. PutOf(c, s)
      BY <1>1 DEF PutOf
    <3>3. call[c].val = last[s] /\ cache[s] = last[s]
          /\ \A d \in Calls : ~LoadOf(d, s) /\ (PutOf(d, s) => d = c)
      BY <2>1, <2>2, <3>2 DEF Settled
    <3>4. QED
      BY <1>3, <1>4, <2>2, <3>1, <3>3 DEF Settled
  <2>3. CASE r # s
    <3>1. kv'[r] = kv[r]
      BY <1>4, <2>3
    <3>2. ~PutOf(c, r) /\ ~LoadOf(c, r)
      BY <2>3 DEF PutOf, LoadOf
    <3>3. QED
      BY <1>3, <1>4, <2>1, <3>1, <3>2 DEF Settled
  <2>4. QED
    BY <2>2, <2>3
<1>7. call[c].val \in saved[s] \cup {None}
  BY <1>1 DEF StoreInv, CarriesOwn
<1>8. SubsIsolated'
  BY <1>4, <1>7 DEF StoreInv, SubsIsolated
<1>9. CarriesOwn'
  BY <1>3, <1>4, IdleType DEF StoreInv, CarriesOwn
<1>10. QED
  BY <1>5, <1>6, <1>8, <1>9 DEF StoreInv

\* load.
LEMMA LoadInv ==
  ASSUME StoreInv, StoreBounds, NEW c \in Calls,
         \/ \E s \in Subs : StartLoad(c, s)
         \/ Read(c) \/ ReadFails(c) \/ Fill(c)
  PROVE  StoreInv'
<1>1. TypeOK
  BY DEF StoreInv
<1>2. ASSUME NEW s \in Subs, StartLoad(c, s) PROVE StoreInv'
  <2> DEFINE x == [pc |-> "get", sub |-> s, val |-> None]
  <2>1. x \in Call /\ x.sub # None
    BY DEF Call, Stored, StoreBounds
  <2>2. /\ call' \in [Calls -> Call]
        /\ \A d \in Calls : call'[d].pc # "idle" => call'[d].sub # None
        /\ \A d \in Calls : call'[d] = IF d = c THEN x ELSE call[d]
    BY <1>1, <1>2, <2>1, CallType DEF StartLoad
  <2>3. TypeOK'
    BY <1>1, <1>2, <2>2 DEF StartLoad, TypeOK
  <2>4. ASSUME NEW r \in Subs, r \notin raced' PROVE Settled(r)'
    <3>1. Settled(r) /\ call[c].pc = "idle"
      BY <1>2, <2>4 DEF StartLoad, StoreInv
    <3>2. \A d \in Calls : PutOf(d, r)' <=> PutOf(d, r)
      BY <2>2, <3>1 DEF PutOf
    <3>3. \A d \in Calls : LoadOf(d, r)' <=> LoadOf(d, r) \/ (d = c /\ r = s)
      BY <2>2, <3>1 DEF LoadOf
    <3>4. r = s => \A d \in Calls : ~PutOf(d, r)
      BY <1>2, <2>4 DEF StartLoad, InFlight, PutOf
    <3>5. \A d \in Calls : call'[d].pc = "fill" \/ PutOf(d, r) => call'[d] = call[d] /\ d # c
      BY <2>2, <3>1 DEF PutOf
    <3>6. \A d \in Calls : LoadOf(d, r)' /\ call'[d].pc = "fill" => LoadOf(d, r)
      BY <3>5, <3>3
    <3>7. QED
      BY <1>2, <3>1, <3>2, <3>3, <3>4, <3>5, <3>6 DEF StartLoad, Settled
  <2>5. SubsIsolated' /\ CarriesOwn'
    BY <1>2, <2>2 DEF StartLoad, StoreInv, SubsIsolated, CarriesOwn
  <2>6. QED
    BY <2>3, <2>4, <2>5 DEF StoreInv
<1>3. CASE Read(c)
  <2> DEFINE s == call[c].sub
             x == [call[c] EXCEPT !.pc = "fill", !.val = kv[s]]
  <2>1. s \in Subs /\ call[c] \in Call /\ kv[s] \in Stored
    BY <1>1, <1>3, CallSub DEF Read, TypeOK
  <2>2. x \in Call /\ x.pc = "fill" /\ x.sub = s /\ x.val = kv[s] /\ s # None
    BY <2>1 DEF Call, StoreBounds
  <2>3. call' = [call EXCEPT ![c] = x]
    BY <1>3 DEF Read
  <2> HIDE DEF x
  <2>4. /\ call' \in [Calls -> Call]
        /\ \A d \in Calls : call'[d].pc # "idle" => call'[d].sub # None
        /\ \A d \in Calls : call'[d] = IF d = c THEN x ELSE call[d]
    BY <1>1, <2>2, <2>3, CallType
  <2>5. TypeOK'
    BY <1>1, <1>3, <2>4 DEF Read, TypeOK
  <2>6. \A d \in Calls, r \in Subs :
          (PutOf(d, r)' <=> PutOf(d, r)) /\ (LoadOf(d, r)' <=> LoadOf(d, r))
    BY <1>3, <2>2, <2>4 DEF Read, PutOf, LoadOf
  <2>7. ASSUME NEW r \in Subs, r \notin raced' PROVE Settled(r)'
    <3>1. Settled(r)
      BY <1>3, <2>7 DEF Read, StoreInv
    <3>2. \A d \in Calls : PutOf(d, r) => call'[d] = call[d]
      BY <1>3, <2>4 DEF Read, PutOf
    <3>3. \A d \in Calls : LoadOf(d, r)' /\ call'[d].pc = "fill" => call'[d].val = kv[r]
      BY <2>2, <2>4, <2>6, <3>1 DEF Settled, LoadOf
    <3>4. QED
      BY <1>3, <2>6, <3>1, <3>2, <3>3 DEF Read, Settled
  <2>8. SubsIsolated' /\ CarriesOwn'
    BY <1>3, <2>1, <2>2, <2>4 DEF Read, StoreInv, SubsIsolated, CarriesOwn
  <2>9. QED
    BY <2>5, <2>7, <2>8 DEF StoreInv
<1>4. CASE ReadFails(c) \/ Fill(c)
  <2> DEFINE s == call[c].sub
  <2>1. call[c].pc \in {"get", "fill"} /\ s \in Subs /\ call[c].val \in Stored
        /\ call' = [call EXCEPT ![c] = Idle]
    BY <1>1, <1>4, CallSub DEF ReadFails, Fill
  <2>2. /\ call' \in [Calls -> Call]
        /\ \A d \in Calls : call'[d].pc # "idle" => call'[d].sub # None
        /\ \A d \in Calls : call'[d] = IF d = c THEN Idle ELSE call[d]
        /\ \A d \in Calls, r \in Subs :
             /\ PutOf(d, r)' <=> d # c /\ PutOf(d, r)
             /\ LoadOf(d, r)' <=> d # c /\ LoadOf(d, r)
    BY <1>1, <2>1, EndCall
  <2>3. /\ cache' \in [Subs -> Stored]
        /\ \A r \in Subs : cache'[r] = cache[r] \/
             (Fill(c) /\ r = s /\ cache'[r] = call[c].val)
        /\ kv' = kv /\ last' = last /\ saved' = saved /\ raced' = raced
    BY <1>1, <1>4, <2>1 DEF ReadFails, Fill, TypeOK
  <2>4. TypeOK'
    BY <1>1, <1>4, <2>2, <2>3 DEF ReadFails, Fill, Fault, TypeOK, StoreBounds
  <2>5. ASSUME NEW r \in Subs, r \notin raced' PROVE Settled(r)'
    <3>1. Settled(r)
      BY <2>3, <2>5 DEF StoreInv
    <3>2. \A d \in Calls : PutOf(d, r)' <=> PutOf(d, r)
      BY <2>1, <2>2 DEF PutOf
    <3>3. CASE cache'[r] = cache[r]
      BY <2>2, <2>3, <3>1, <3>2, <3>3 DEF Settled
    <3>4. CASE Fill(c) /\ r = s /\ cache'[r] = call[c].val
      <4>1. LoadOf(c, r) /\ call[c].pc = "fill"
        BY <3>4 DEF LoadOf, Fill
      <4>2. cache'[r] = kv[r] /\ \A d \in Calls : ~PutOf(d, r)
        BY <3>1, <3>4, <4>1 DEF Settled
      <4>3. QED
        BY <2>2, <2>3, <3>1, <3>2, <4>2 DEF Settled
    <3>5. QED
      BY <2>3, <3>3, <3>4
  <2>6. Fill(c) => call[c].val \in saved[s] \cup {None}
    BY <2>1 DEF StoreInv, CarriesOwn, Fill
  <2>7. SubsIsolated'
    BY <2>3, <2>6 DEF StoreInv, SubsIsolated
  <2>8. CarriesOwn'
    BY <2>2, <2>3, IdleType DEF StoreInv, CarriesOwn
  <2>9. QED
    BY <2>4, <2>5, <2>7, <2>8 DEF StoreInv
<1>5. QED
  BY <1>2, <1>3, <1>4

\* A restart, and a step that changes nothing.
LEMMA RestartInv ==
  ASSUME StoreInv, StoreBounds, Restart \/ UNCHANGED vars
  PROVE  StoreInv'
<1>1. CASE Restart
  <2>1. \A c \in Calls : call'[c] = Idle
    BY <1>1 DEF Restart
  <2>2. TypeOK'
    BY <1>1, <2>1, IdleType DEF Restart, StoreInv, TypeOK, Stored, StoreBounds
  <2>3. \A s \in Subs : Settled(s)'
    BY <1>1, <2>1, IdleType DEF Restart, Settled, PutOf, LoadOf
  <2>4. SubsIsolated' /\ CarriesOwn'
    BY <1>1, <2>1, IdleType DEF Restart, StoreInv, SubsIsolated, CarriesOwn
  <2>5. QED
    BY <2>2, <2>3, <2>4 DEF StoreInv
<1>2. CASE UNCHANGED vars
  BY <1>2 DEF vars, StoreInv, TypeOK, Settled, PutOf, LoadOf, SubsIsolated, CarriesOwn
<1>3. QED
  BY <1>1, <1>2

\* Every reachable state satisfies the invariant.
THEOREM StoreCorrect == Spec => []StoreInv
<1>1. Init => StoreInv
  BY InitStore, StoreBounds
<1>2. StoreInv /\ [Next]_vars => StoreInv'
  BY StartWriteInv, WriteInv, LoadInv, RestartInv, StoreBounds DEF Next
<1>3. QED
  BY <1>1, <1>2, PTL DEF Spec

\* A write that neither failed nor overlapped is what the store holds, and the
\* cache is never older than it: for any number of subs, calls and restarts.
THEOREM DurableWhenSettled == Spec => []WrittenIsDurable
<1>1. StoreInv => WrittenIsDurable
  BY DEF StoreInv, Settled, PutOf, WrittenIsDurable, InFlight
<1>2. QED
  BY <1>1, StoreCorrect, PTL

\* Subjects never see each other's blobs, whatever races and failures occur.
THEOREM Isolated == Spec => []SubsIsolated
<1>1. StoreInv => SubsIsolated
  BY DEF StoreInv
<1>2. QED
  BY <1>1, StoreCorrect, PTL

\* Every variable keeps its type, and a call in flight knows its sub.
THEOREM StoreTypes == Spec => []TypeOK
<1>1. StoreInv => TypeOK
  BY DEF StoreInv
<1>2. QED
  BY <1>1, StoreCorrect, PTL

=============================================================================
